----------------------------- MODULE MCNwkParent -----------------------------
(* The device of the instance of ZbNwkParent that TLC checks: it joins as an  *)
(* end device, and has had another address before.                           *)
EXTENDS ZbNwkParent

CONSTANT d1

MCTypes   == [d \in Dev |-> {"ed"}]
MCForeign == [d \in Dev |-> {90}]
MCRefs    == 0 .. 1
=============================================================================
