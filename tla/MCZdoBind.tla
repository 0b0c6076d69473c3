------------------------------ MODULE MCZdoBind ------------------------------
EXTENDS ZbZdoBind

CONSTANTS a, b, u, group, a1, a2, b1, b2, u1, bad

A == [dev |-> a, profile |-> 1, ins |-> <<1>>, outs |-> <<1, 2>>, valid |-> TRUE]
B == [dev |-> b, profile |-> 1, ins |-> <<2, 1>>, outs |-> <<1>>, valid |-> TRUE]
\* u has another profile than A: it only matches b2.
MCAsk == a1 :> A @@ a2 :> A @@ b1 :> B
         @@ b2 :> [B EXCEPT !.profile = 2]
         @@ u1 :> [A EXCEPT !.dev = u, !.profile = 2]
         @@ bad :> [A EXCEPT !.valid = FALSE]
=============================================================================
