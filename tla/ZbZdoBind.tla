------------------------------ MODULE ZbZdoBind ------------------------------
(***************************************************************************)
(* End device binding (zdo/zdo_bind_manage.c, aps/aps_bind.c).  Two        *)
(* devices ask the coordinator within a minute; it matches the clusters    *)
(* that one sends and the other receives, and toggles the bindings: it     *)
(* unbinds the first matched cluster to see whether it was bound, then     *)
(* binds, or unbinds, all of them, one request to a device at a time.      *)
(***************************************************************************)
EXTENDS Naturals, ZbApsBind

CONSTANTS
  Devs, None,    \* devices that are bound; no device and no request
  BindReqs,          \* end device bind requests
  Ask,           \* request -> the device, its profile, its lists of clusters, its endpoint
  Unsupporting,  \* devices built with ZB_DISABLE_BIND_REQ
  MaxOps         \* bound: requests that others make of the binding tables

Clusters == Srcs
ASSUME ZdoBindAssumption ==
  /\ None \notin Devs \cup BindReqs /\ MaxOps \in Nat /\ Unsupporting \subseteq Devs
  /\ Devs \subseteq Dsts
  /\ Ask \in [BindReqs -> [dev : Devs, profile : Nat, ins : Seq(Clusters), outs : Seq(Clusters),
                       valid : BOOLEAN]]

VARIABLES
  table, served,      \* the binding table of each device; the last request that one served
  slot,               \* bind_device_info[].end_device_bind_param
  timer,              \* alarms of zb_zdo_end_device_bind_timer
  target, list,       \* bind_device_info[].binding_target, and cluster_list up to cluster_num
  current,            \* current_device
  wire,               \* the coordinator's request to a device, its answer, or its own callback
  stage,              \* the callback that waits
  answers,            \* request -> what it was answered
  ops, disturbed      \* requests of others so far; a session since which one of them, a refusal
                      \* or a loss came in between

coordinator == <<slot, timer, target, list, current, stage, answers>>
tables == <<table, served>>
bindVars == <<table, served, slot, timer, target, list, current, wire, stage, answers, ops,
              disturbed>>

Pair == Srcs \X Dsts
Quiet == [kind |-> "quiet"]

BindTypeOK ==
  /\ table \in [Devs -> Table]
  /\ slot \in [{1, 2} -> BindReqs \cup {None}] /\ timer \subseteq BindReqs
  /\ target \in [{1, 2} -> Devs \cup {None}] /\ list \in [{1, 2} -> Seq(Clusters)]
  /\ current \in 1 .. 3 /\ stage \in {"idle", "buffer", "check", "bind", "unbind"}
  /\ answers \in [BindReqs -> Seq({"success", "timeout", "no match", "invalid ep"})]
  /\ ops \in 0 .. MaxOps /\ disturbed \in BOOLEAN

BindInit ==
  /\ table = [d \in Devs |-> EmptyTable] /\ served = [status |-> "never"]
  /\ slot = [i \in {1, 2} |-> None] /\ timer = {}
  /\ target = [i \in {1, 2} |-> None] /\ list = [i \in {1, 2} |-> <<>>] /\ current = 1
  /\ wire = Quiet /\ stage = "idle" /\ answers = [r \in BindReqs |-> <<>>]
  /\ ops = 0 /\ disturbed = FALSE

-----------------------------------------------------------------------------
(* The coordinator: two requests are matched. *)

Free == [i \in {1, 2} |-> None]
Reset == slot' = Free
Resp(rs, status) ==
  answers' = [r \in BindReqs |-> IF r \in rs THEN Append(answers[r], status) ELSE answers[r]]

\* Request r was not made yet.
New(r) == answers[r] = <<>> /\ r \notin ToSet(slot)

\* zb_zdo_end_device_bind_handler for a bad endpoint, ...
InvalidEndpoint(r) ==
  /\ New(r) /\ ~Ask[r].valid /\ Resp({r}, "invalid ep")
  /\ UNCHANGED <<tables, slot, timer, target, list, current, wire, stage, ops, disturbed>>

\* ... for the first of two requests, ...
HoldFirst(r) ==
  /\ New(r) /\ Ask[r].valid /\ slot[1] = None
  /\ slot' = [slot EXCEPT ![1] = r] /\ timer' = timer \cup {r}
  /\ UNCHANGED <<tables, target, list, current, wire, stage, answers, ops, disturbed>>

\* ... and while a pair is being bound.
RefuseThird(r) ==
  /\ New(r) /\ Ask[r].valid /\ slot[1] # None /\ slot[2] # None /\ Resp({r}, "timeout")
  /\ UNCHANGED <<tables, slot, timer, target, list, current, wire, stage, ops, disturbed>>

\* check_cluster_list for both devices: the clusters that each of them sends.
CheckClusterList(sent, received) == SelectSeq(sent, LAMBDA c : c \in ToSet(received))
Matched(r1, r2) == <<CheckClusterList(Ask[r1].outs, Ask[r2].ins),
                     CheckClusterList(Ask[r1].ins, Ask[r2].outs)>>

\* Mutant: the alarm of the first request is left running.
MatchSecond_KeepsAlarm(r) ==
  LET first == slot[1]
      same == Ask[first].profile = Ask[r].profile
      lists == IF same THEN Matched(first, r) ELSE list
      match == same /\ lists # <<<<>>, <<>>>>
  IN /\ New(r) /\ Ask[r].valid /\ first # None /\ slot[2] = None
     /\ list' = lists /\ timer' = timer
     /\ Resp({r, first}, IF match THEN "success" ELSE "no match")
     /\ IF match
        THEN /\ target' = <<Ask[first].dev, Ask[r].dev>> /\ slot' = [slot EXCEPT ![2] = r]
             /\ stage' = "buffer" /\ disturbed' = FALSE
        ELSE Reset /\ UNCHANGED <<target, stage, disturbed>>
     /\ UNCHANGED <<tables, current, wire, ops>>

\* The second request: both are answered, whether or not they match.
MatchSecond(r) ==
  LET first == slot[1]
      same == Ask[first].profile = Ask[r].profile
      lists == IF same THEN Matched(first, r) ELSE list
      match == same /\ lists # <<<<>>, <<>>>>
  IN /\ New(r) /\ Ask[r].valid /\ first # None /\ slot[2] = None
     /\ list' = lists /\ timer' = {}
     /\ Resp({r, first}, IF match THEN "success" ELSE "no match")
     /\ IF match
        THEN /\ target' = <<Ask[first].dev, Ask[r].dev>> /\ slot' = [slot EXCEPT ![2] = r]
             /\ stage' = "buffer" /\ disturbed' = FALSE
        ELSE Reset /\ UNCHANGED <<target, stage, disturbed>>
     /\ UNCHANGED <<tables, current, wire, ops>>

\* zb_zdo_end_device_bind_timer after a minute.
Timer(r) ==
  /\ r \in timer /\ timer' = timer \ {r} /\ Reset /\ Resp({r}, "timeout")
  /\ UNCHANGED <<tables, target, list, current, wire, stage, ops, disturbed>>

-----------------------------------------------------------------------------
(* The coordinator: the bindings are toggled. *)

\* send_bind_unbind_req to device i.
SendReq(i, op, c) ==
  wire' = [kind |-> "request",
           r |-> [op |-> op, dev |-> target[i], pair |-> <<c, target[3 - i]>>]]

\* zb_zdo_send_check_bind_unbind with its buffer.
SendCheck ==
  LET i == IF list[1] # <<>> THEN 1 ELSE 2
  IN /\ stage = "buffer" /\ stage' = "check" /\ current' = i
     /\ SendReq(i, "unbind", list[i][1])
     /\ UNCHANGED <<tables, slot, timer, target, list, answers, ops, disturbed>>

\* Mutant: the second device is forgotten.
SendWithCheck_FirstOnly(op) ==
  IF list[current] # <<>>
  THEN /\ SendReq(current, op, Last(list[current])) /\ stage' = op
       /\ list' = [list EXCEPT ![current] = Front(@)] /\ UNCHANGED <<slot, current>>
  ELSE /\ list' = list /\ current' = 3 /\ wire' = Quiet /\ Reset /\ stage' = "idle"

\* Mutant: the slots stay in use.
SendWithCheck_KeepsSlots(op) ==
  IF list[current] # <<>>
  THEN /\ SendReq(current, op, Last(list[current])) /\ stage' = op
       /\ list' = [list EXCEPT ![current] = Front(@)] /\ UNCHANGED <<slot, current>>
  ELSE /\ list' = list /\ current' = current + 1
       /\ IF current = 1
          THEN wire' = [kind |-> "callback"] /\ stage' = op /\ UNCHANGED slot
          ELSE wire' = Quiet /\ slot' = slot /\ stage' = "idle"

\* send_bind_unbind_with_check: the last cluster of the list; then the other device; then
\* both slots are free again.
SendWithCheck(op) ==
  IF list[current] # <<>>
  THEN /\ SendReq(current, op, Last(list[current])) /\ stage' = op
       /\ list' = [list EXCEPT ![current] = Front(@)] /\ UNCHANGED <<slot, current>>
  ELSE /\ list' = list /\ current' = current + 1
       /\ IF current = 1
          THEN wire' = [kind |-> "callback"] /\ stage' = op /\ UNCHANGED slot
          ELSE wire' = Quiet /\ Reset /\ stage' = "idle"

\* zb_zdo_bind_unbind_check_cb, zb_zdo_end_device_bind_cb and _unbind_cb; the latter two
\* do not look at the answer.
Callback ==
  /\ wire.kind \in {"answer", "callback"} /\ stage \in {"check", "bind", "unbind"}
  /\ SendWithCheck(IF stage # "check" THEN stage
                   ELSE IF wire.status = "no entry" THEN "bind" ELSE "unbind")
  /\ disturbed' = (disturbed \/ (wire.kind = "answer"
                                 /\ wire.status \notin {"success", "no entry"}))
  /\ UNCHANGED <<tables, timer, target, answers, ops>>

\* A request or an answer is lost, or the transaction table was full: nobody will call.
BindLose ==
  /\ wire.kind \in {"request", "answer"} /\ wire' = [kind |-> "lost"] /\ disturbed' = TRUE
  /\ UNCHANGED <<tables, coordinator, ops>>

-----------------------------------------------------------------------------
(* The devices. *)

Operate(r) ==
  LET result == IF r.op = "bind" THEN Bind(table[r.dev], r.pair[1], r.pair[2])
                                 ELSE Unbind(table[r.dev], r.pair[1], r.pair[2])
  IN /\ table' = [table EXCEPT ![r.dev] = result.table]
     /\ served' = [r |-> r, status |-> result.status]

\* zb_zdo_bind_unbind_res: a device whose table is broken does not answer.
Serve ==
  /\ wire.kind = "request"
  /\ IF wire.r.dev \in Unsupporting
     THEN UNCHANGED tables /\ wire' = [kind |-> "answer", status |-> "not supported"]
     ELSE /\ Operate(wire.r)
          /\ wire' = IF served'.status = "broken" THEN Quiet
                     ELSE [kind |-> "answer", status |-> served'.status]
  /\ UNCHANGED <<coordinator, ops, disturbed>>

\* A request of an application of the device itself, or of another device.
Other(d, op, p) ==
  /\ ops < MaxOps /\ ops' = ops + 1
  /\ Operate([op |-> op, dev |-> d, pair |-> p]) /\ disturbed' = TRUE
  /\ UNCHANGED <<coordinator, wire>>

\* What a device does after it wrote behind its table is not modelled.
Works == served.status # "broken"

BindNext ==
  /\ Works
  /\ \/ \E r \in BindReqs : \/ InvalidEndpoint(r) \/ HoldFirst(r) \/ RefuseThird(r)
                        \/ MatchSecond(r) \/ Timer(r)
     \/ SendCheck \/ Callback \/ BindLose \/ Serve
     \/ \E d \in Devs, op \in {"bind", "unbind"}, p \in Pair : Other(d, op, p)

BindFairness ==
  /\ WF_bindVars(Works /\ SendCheck) /\ WF_bindVars(Works /\ Callback)
  /\ WF_bindVars(Works /\ Serve) /\ WF_bindVars(Works /\ \E r \in BindReqs : Timer(r))

BindSpec == BindInit /\ [][BindNext]_bindVars /\ BindFairness

-----------------------------------------------------------------------------

\* The tables with their indices implement sets of bindings.
Promised == INSTANCE ZbBindings WITH
  Pairs <- Pair, bound <- [d \in Devs |-> Bindings(table[d])],
  served <- IF Works THEN served ELSE [served EXCEPT !.status = "none"]
TablesAreSets == Promised!Spec

\* The minute is counted for a request that waits for its partner and for no other, and
\* every request is answered once: with a timer left over, a pair that is being bound would
\* be forgotten and answered again; without one, a request would block the coordinator.
OneAnswerInTime ==
  /\ timer = {slot[1]} \ {None} \/ (timer = {} /\ slot[2] # None)
  /\ \A r \in BindReqs : Len(answers[r]) <= 1

\* When a session ends all that it matched is bound, at both devices, or none of it is,
\* unless a request was lost or refused or somebody else changed the tables.
Toggled ==
  LET now(i) == {<<c, target[3 - i]>> : c \in ToSet(Matched(slot[1], slot[2])[i])}
      bound(i) == Bindings(table[target[i]])
  IN \/ \A i \in {1, 2} : now(i) \subseteq bound(i)
     \/ \A i \in {1, 2} : now(i) \cap bound(i) = {}
SessionToggles ==
  [][slot[2] # None /\ slot'[2] = None /\ ~disturbed /\ ~disturbed' => Toggled]_bindVars

\* The coordinator is free for other devices again, unless a request was lost, or a device
\* broke.
SlotsFreed == []<>(slot[1] = None) \/ <>[](~Works) \/ <>[](wire.kind = "lost")
=============================================================================
