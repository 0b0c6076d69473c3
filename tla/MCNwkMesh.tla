----------------------------- MODULE MCNwkMesh -----------------------------
(***************************************************************************)
(* What a router does with the frames that pass it: those that wait for a  *)
(* route (ZbNwkMesh), and the way of one frame through its buffer, layer   *)
(* by layer and hop by hop (ZbFrame).  The two share no state: the initial *)
(* state chooses which one is at work, the other rests.                    *)
(***************************************************************************)
EXTENDS ZbNwkMesh, Sequences

CONSTANTS Payloads, MaxResend, MaxHops

VARIABLES
  part, \* the module at work
  at, buf, fmt, size, air, odd, harm, resent, hops

wayVars == <<at, buf, fmt, size, air, odd, harm, resent, hops>>
MCVars  == <<part, vars, wayVars>>

Way == INSTANCE ZbFrame

ASSUME WayAssumption == Way!FrameAssumption

MCInit ==
  /\ part \in {"mesh", "frame"}
  /\ Init /\ (part # "mesh" => \A i \in Slots : disc[i].dest = NoAddr)
  /\ Way!Init /\ (part # "frame" => /\ Way!Own(fmt) /\ ~fmt.command /\ ~fmt.group
                                   /\ fmt.secured /\ fmt.fcs)

MCNext ==
  /\ \/ part = "mesh" /\ Next /\ UNCHANGED wayVars
     \/ part = "frame" /\ Way!Next /\ UNCHANGED vars
  /\ UNCHANGED part

\* The scheduler serves the frames that wait; the way of a frame may end anywhere.
MCSpec == MCInit /\ [][MCNext]_MCVars /\ Fairness

\* Every layer finds its headers and parameters where the layer before it left them.
FrameRight == part = "frame" => Way!FrameRight
=============================================================================
