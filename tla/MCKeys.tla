------------------------------- MODULE MCKeys -------------------------------
(* A trust center, a router, and an end device behind it. *)
EXTENDS ZbKeys

MCParent == [d \in {"r", "e"} |-> IF d = "r" THEN "c" ELSE "r"]
=============================================================================
