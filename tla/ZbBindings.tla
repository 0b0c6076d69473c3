----------------------------- MODULE ZbBindings -----------------------------
(***************************************************************************)
(* What a binding table promises: each device has a set of bindings, pairs *)
(* of a source (endpoint and cluster) and a destination, and serves        *)
(* requests to bind and to unbind one pair.                                *)
(***************************************************************************)
CONSTANTS Devs, Pairs

VARIABLES
  bound,  \* device -> the pairs that are bound
  served  \* the last request and its answer

Request == [op : {"bind", "unbind"}, dev : Devs, pair : Pairs]
Nothing == [status |-> "never"]

Init == bound = [d \in Devs |-> {}] /\ served = Nothing

\* A bind either binds or is refused; after an unbind the pair is not bound, and only a
\* pair that was not bound may be reported as missing.
Bind(r) ==
  \E status \in {"success", "table full"} :
    /\ served' = [r |-> r, status |-> status]
    /\ bound' = IF status = "success" THEN [bound EXCEPT ![r.dev] = @ \cup {r.pair}] ELSE bound

Unbind(r) ==
  \E status \in {"success", "no entry", "none"} :
    /\ status = "no entry" => r.pair \notin bound[r.dev]
    /\ served' = [r |-> r, status |-> status]
    /\ bound' = [bound EXCEPT ![r.dev] = @ \ {r.pair}]

Next == \E r \in Request : IF r.op = "bind" THEN Bind(r) ELSE Unbind(r)

Spec == Init /\ [][Next]_<<bound, served>>
=============================================================================
