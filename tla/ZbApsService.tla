---------------------------- MODULE ZbApsService -----------------------------
(***************************************************************************)
(* What APSDE-DATA promises to the application for requests with the       *)
(* "acknowledged transmission" option: a request is confirmed once, and a  *)
(* request confirmed with success has been handed to the application of    *)
(* the peer, unless it is doubtful: no peer was bound, or its number met   *)
(* another request that still used it.  A request confirmed with a failure *)
(* may have been delivered or may still be, and delivery may be repeated.  *)
(***************************************************************************)
CONSTANT Reqs

VARIABLES
  req,     \* request -> "idle", "asked", "ok" or "failed"
  got,     \* requests whose data the peer's application has seen
  doubtful \* requests whose success says nothing

vars == <<req, got, doubtful>>

TypeOK ==
  /\ req \in [Reqs -> {"idle", "asked", "ok", "failed"}]
  /\ got \subseteq Reqs /\ doubtful \subseteq Reqs

Init == req = [r \in Reqs |-> "idle"] /\ got = {} /\ doubtful = {}

Ask(r) == req[r] = "idle" /\ req' = [req EXCEPT ![r] = "asked"] /\ UNCHANGED <<got, doubtful>>

Deliver(r) == req[r] # "idle" /\ got' = got \cup {r} /\ UNCHANGED <<req, doubtful>>

Doubt == doubtful' \in SUBSET Reqs /\ doubtful \subseteq doubtful' /\ UNCHANGED <<req, got>>

\* A request may be doubted up to its confirm, never because of it.
Confirm(r) ==
  /\ req[r] = "asked"
  /\ \E s \in {"ok", "failed"} :
       /\ s = "ok" => r \in got \cup doubtful
       /\ req' = [req EXCEPT ![r] = s]
  /\ UNCHANGED <<got, doubtful>>

Next == Doubt \/ \E r \in Reqs : Ask(r) \/ Deliver(r) \/ Confirm(r)

Spec == Init /\ [][Next]_vars
==============================================================================
