---------------------------- MODULE MCNwkBroadcast ----------------------------
(* The tables of the instances of ZbNwkBroadcast that TLC checks. *)
EXTENDS ZbNwkBroadcast

CONSTANTS m1, f1, f2 \* frames: ours, relayed from far away, made by the child

MCKind == [n \in 0 .. 2 |-> CASE n = 0 -> "router" [] n = 1 -> "child" [] n = 2 -> "router"]
MCOriginator == [f \in Frames |-> IF f = f2 THEN 1 ELSE -1]
=============================================================================
