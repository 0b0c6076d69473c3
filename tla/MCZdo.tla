-------------------------------- MODULE MCZdo --------------------------------
(* The hash of the instance of ZbZdo that TLC checks: every number collides. *)
EXTENDS ZbZdo

MCHash == [t \in Tsns |-> TranSize - 1]
=============================================================================
