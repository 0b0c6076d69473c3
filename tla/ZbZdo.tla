-------------------------------- MODULE ZbZdo --------------------------------
(***************************************************************************)
(* Management leave on a router: the requests of other devices, and of its *)
(* own application, that it leaves or makes a child leave                  *)
(* (zdo/zdo_nwk_manage_srv.c, zdo_nwk_manage_cli.c, zdo_app.c and          *)
(* nwk/nwk_nlme.c), beside the requests and answers of ZbZdoTran.          *)
(*                                                                         *)
(* A request is kept in pending_list while the LEAVE command is sent, then *)
(* it is answered, and only when the answer is sent does the device leave. *)
(* The list knows a request by its buffer.  Whether the answer is waited   *)
(* for, and whether the device rejoins, are one flag each.                 *)
(***************************************************************************)
EXTENDS ZbZdoTran

CONSTANTS
  Bufs,        \* buffers of leave requests
  PendingSize, \* ZB_ZDO_PENDING_LEAVE_SIZE
  MaxOps       \* bound: requests made, leave requests and LEAVE commands in a behaviour

ASSUME LeaveAssumption == Bufs # {} /\ PendingSize \in Nat \ {0} /\ MaxOps \in Nat

PSlots == 0 .. PendingSize - 1

VARIABLES
  joined,         \* whether the device is in a network, or joins it again
  op,             \* buffer -> what it is used for
  pending_list, pending_list_size,
  leave_after_mgmt_leave_rsp_conf, rejoin_after_leave,
  do_leave_local, \* how often zb_nwk_do_leave_local waits for a buffer, by whether the
                  \* request was that the device itself leave
  leaves,         \* leave requests so far
  crossed         \* two leaves crossed in a way the flags cannot tell apart

leave == <<joined, op, pending_list, pending_list_size, leave_after_mgmt_leave_rsp_conf,
           rejoin_after_leave, do_leave_local, leaves, crossed>>
flags == <<leave_after_mgmt_leave_rsp_conf, rejoin_after_leave>>
vars  == <<table, server, net, leave>>

\* What the buffer of a leave is doing: waiting for zb_nlme_leave_request, the LEAVE
\* under way, refused with a confirm to come, the answer under way, a LEAVE command of the
\* parent passed on, or never freed.  Who asked: another device, the application, or another layer.
Stages == {"idle", "request", "sent", "refused", "answer", "indication", "lost"}
Op     == [stage : Stages, self : BOOLEAN, rejoin : BOOLEAN, will_leave : BOOLEAN,
           from : {"peer", "app", "layer"}]
NoOp   == [stage |-> "idle", self |-> FALSE, rejoin |-> FALSE, will_leave |-> FALSE, from |-> "layer"]
Pend   == [used : BOOLEAN, buf_ref : Bufs, local : BOOLEAN, tsn : Tsns]

TypeOK ==
  /\ TranTypeOK /\ joined \in {"yes", "no", "rejoining", "broken"} /\ op \in [Bufs -> Op]
  /\ pending_list \in [PSlots -> Pend] /\ pending_list_size \in 0 .. PendingSize
  /\ leave_after_mgmt_leave_rsp_conf \in BOOLEAN /\ rejoin_after_leave \in BOOLEAN
  /\ do_leave_local \in [BOOLEAN -> Nat] /\ leaves \in 0 .. MaxOps /\ crossed \in BOOLEAN

Init ==
  /\ TranInit /\ joined = "yes" /\ op = [b \in Bufs |-> NoOp]
  /\ pending_list = [i \in PSlots |-> [used |-> FALSE, buf_ref |-> CHOOSE b \in Bufs : TRUE,
                                       local |-> FALSE, tsn |-> 0]]
  /\ pending_list_size = 0 /\ leave_after_mgmt_leave_rsp_conf = FALSE
  /\ rejoin_after_leave = FALSE /\ do_leave_local = [self \in BOOLEAN |-> 0] /\ leaves = 0 /\ crossed = FALSE

-----------------------------------------------------------------------------
(* The pending list. *)

Unused   == {i \in PSlots : ~pending_list[i].used}
Live     == {i \in PSlots : pending_list[i].used /\ i < pending_list_size}
Found(b) == LET is == {i \in Live : pending_list[i].buf_ref = b}
            IN IF is = {} THEN {} ELSE {Min(is)}

Pended(b, local, t) ==
  LET i == Min(Unused)
  IN /\ pending_list' = [pending_list EXCEPT ![i] =
                           [used |-> TRUE, buf_ref |-> b, local |-> local, tsn |-> t]]
     /\ pending_list_size' = Max({pending_list_size, i + 1})

\* pending_list[i].used = 0, and the last entry shortens the list.
Dropped(i) ==
  /\ pending_list' = [pending_list EXCEPT ![i].used = FALSE]
  /\ pending_list_size' = IF pending_list_size = i + 1 THEN i ELSE pending_list_size
KeepList == UNCHANGED <<pending_list, pending_list_size>>

Goes(b, stage) == op' = [op EXCEPT ![b].stage = stage]
Freed(b)       == op' = [op EXCEPT ![b] = NoOp]

-----------------------------------------------------------------------------
(* Requests. *)

Begin(b, self, rejoin, from, stage) ==
  /\ op[b].stage = "idle" /\ leaves' = leaves + 1
  /\ op' = [op EXCEPT ![b] = [stage |-> stage, self |-> self, rejoin |-> rejoin,
                              will_leave |-> FALSE, from |-> from]]

\* zdo_mgmt_leave_srv: with a full list the request is answered at once.
MgmtLeaveSrv(b, self, rejoin) ==
  /\ joined = "yes"
  /\ IF Unused = {} THEN Begin(b, self, rejoin, "peer", "answer") /\ KeepList
     ELSE Begin(b, self, rejoin, "peer", "request") /\ Pended(b, FALSE, 0)
  /\ UNCHANGED <<table, server, net, joined, flags, do_leave_local, crossed>>

\* zdo_mgmt_leave_req to this device itself, zdo_mgmt_leave_cli: with a full list the
\* callback is called at once, and nothing else happens.
MgmtLeaveCli(b, r, self, rejoin) ==
  /\ joined = "yes" /\ Unused # {} /\ req[r].kind = "no"
  /\ Begin(b, self, rejoin, "app", "request") /\ Pended(b, TRUE, NextTsn)
  /\ TakeTsn(r, "leave") /\ RegisterZdoCb(NextTsn, r, 1)
  /\ UNCHANGED <<server, net, joined, flags, do_leave_local, crossed>>

\* zb_zdo_force_child_leave, zb_apsme_remove_device_indication: no answer is asked for.
ForceChildLeave(b, rejoin) ==
  /\ joined = "yes" /\ Begin(b, FALSE, rejoin, "layer", "request") /\ KeepList
  /\ UNCHANGED <<table, server, net, joined, flags, do_leave_local, crossed>>

\* zb_nwk_leave_handler for a LEAVE of the parent that asks the device to leave: it is
\* broadcast on before the device leaves.
LeaveHandler(b, rejoin) ==
  /\ joined = "yes" /\ Begin(b, TRUE, rejoin, "layer", "indication") /\ KeepList
  /\ rejoin_after_leave' = rejoin
  /\ UNCHANGED <<table, server, net, joined, leave_after_mgmt_leave_rsp_conf, do_leave_local, crossed>>

\* zb_nlme_leave_request.  A router that leaves itself has no neighbor entry for that, and
\* reads its address through the null pointer: it breaks, or takes what is there for a child's
\* address and goes on.  What is done to ed_child_num is in ZbNwkParent.  The confirm of a
\* refused request is written at one end of the buffer and read at the other, where the
\* request is: its status is a part of the address, and the device will leave if all of
\* address and options is 0.
LeaveRequest(b) ==
  /\ op[b].stage = "request"
  /\ \/ /\ joined = "yes" /\ Goes(b, "sent")
        /\ rejoin_after_leave' = IF op[b].self THEN op[b].rejoin ELSE rejoin_after_leave
        /\ joined' \in IF op[b].self THEN {"yes", "broken"} ELSE {"yes"}
     \/ /\ joined = "yes" /\ ~op[b].self \* not a child, or one without authentication
        /\ Goes(b, "refused") /\ UNCHANGED <<joined, rejoin_after_leave>>
     \/ \E options \in BOOLEAN :
          /\ joined # "yes" /\ (op[b].rejoin => options) /\ UNCHANGED <<joined, rejoin_after_leave>>
          /\ op' = [op EXCEPT ![b].stage = "refused", ![b].will_leave = op[b].self /\ ~options]
  /\ UNCHANGED <<table, server, net, pending_list, pending_list_size,
                 leave_after_mgmt_leave_rsp_conf, do_leave_local, leaves, crossed>>

-----------------------------------------------------------------------------
(* Leaving. *)

\* zb_nwk_do_leave: the list is emptied by its size, its entries stay used.
DoLeave(rejoin, list) ==
  /\ leave_after_mgmt_leave_rsp_conf' = FALSE /\ pending_list' = list /\ pending_list_size' = 0
  /\ joined' = IF rejoin THEN "rejoining" ELSE "no"
  /\ crossed' = (crossed \/ \E i \in PSlots : list[i].used)
  /\ UNCHANGED rejoin_after_leave

\* zdo_try_mgmt_leave_complete for the entry i that was found.
LeaveLocally(self) == do_leave_local' = [do_leave_local EXCEPT ![self] = @ + 1]
Complete(b, i) ==
  IF pending_list[i].local
  THEN /\ Dropped(i) /\ LeaveLocally(op[b].self)
       /\ UNCHANGED <<joined, flags, crossed>>
  ELSE /\ DoLeave(rejoin_after_leave, [pending_list EXCEPT ![i].used = FALSE])
       /\ UNCHANGED do_leave_local

\* zb_nlme_leave_confirm without an entry in the list: the device leaves, or forgets the
\* child; it uses a null pointer when that is not in the neighbor table.
ConfirmUnlisted(b, will) ==
  /\ Freed(b) /\ UNCHANGED <<zdo_cb, do_leave_local>>
  /\ IF will THEN DoLeave(rejoin_after_leave, pending_list)
     ELSE /\ joined' \in {joined, "broken"} /\ (op[b].self => joined' = "broken")
          /\ KeepList /\ UNCHANGED <<flags, crossed>>

\* zdo_try_send_mgmt_leave_rsp for another device: the answer goes out, the entry stays
\* while the device will leave, and the flag that the answer's confirm looks at is set.
AnswerWith(b, i, will, keep, flag) ==
  /\ op' = [op EXCEPT ![b].stage = "answer", ![b].will_leave = will]
  /\ IF keep THEN KeepList ELSE Dropped(i)
  /\ crossed' = (crossed \/ (leave_after_mgmt_leave_rsp_conf /\ ~will))
  /\ leave_after_mgmt_leave_rsp_conf' = flag
  /\ UNCHANGED <<zdo_cb, joined, rejoin_after_leave, do_leave_local>>
\* Mutants: the entry of a refused request stays; nothing depends on whether the device
\* will leave; the entry is dropped before the answer is sent.
AnswerPeer_KeepsRefused(b, i, will) == AnswerWith(b, i, will, TRUE, will)

AnswerPeer_Unasked(b, i, will) == AnswerWith(b, i, will, TRUE, TRUE)

AnswerPeer_Forgets(b, i, will) == AnswerWith(b, i, will, FALSE, will)

AnswerPeer(b, i, will) == AnswerWith(b, i, will, will, will)

\* zdo_try_send_mgmt_leave_rsp for the application: its callback is called, and the device
\* leaves whatever was asked.  Without a callback nothing more happens: the buffer is lost.
AnswerApp(b, i, will) ==
  /\ leave_after_mgmt_leave_rsp_conf' = will /\ UNCHANGED <<joined, rejoin_after_leave>>
  /\ IF Callback(pending_list[i].tsn) # {}
     THEN /\ AfResp(pending_list[i].tsn) /\ Dropped(i) /\ Freed(b)
          /\ LeaveLocally(op[b].self)
          /\ crossed' = (crossed \/ (leave_after_mgmt_leave_rsp_conf /\ ~will))
     ELSE /\ crossed' = TRUE /\ Goes(b, "lost") /\ UNCHANGED <<zdo_cb, do_leave_local>>
          /\ IF will THEN KeepList ELSE Dropped(i)

\* The LEAVE was sent, or is refused: zb_nlme_leave_confirm.  The confirm of a LEAVE that
\* was sent reads the status of a buffer that it has cleared: it is always a success.
LeaveConfirm(b) ==
  /\ op[b].stage \in {"sent", "refused"}
  /\ LET will == IF op[b].stage = "sent" THEN op[b].self ELSE op[b].will_leave
     IN \/ Found(b) = {} /\ ConfirmUnlisted(b, will)
        \/ \E i \in Found(b) : ~pending_list[i].local /\ AnswerPeer(b, i, will)
        \/ \E i \in Found(b) : pending_list[i].local /\ AnswerApp(b, i, will)
  /\ UNCHANGED <<tsn, req, age, server, net, leaves>>

\* zb_apsde_data_confirm for an answer.
AnswerSent(b) ==
  /\ op[b].stage = "answer" /\ Freed(b)
  /\ IF leave_after_mgmt_leave_rsp_conf /\ Found(b) # {} THEN \A i \in Found(b) : Complete(b, i)
     ELSE KeepList /\ UNCHANGED <<joined, flags, do_leave_local, crossed>>
  /\ UNCHANGED <<table, server, net, leaves>>

\* zb_nwk_do_leave_local got its buffer.
DoLeaveLocal ==
  /\ \E self \in BOOLEAN : /\ do_leave_local[self] > 0
                          /\ do_leave_local' = [do_leave_local EXCEPT ![self] = @ - 1]
  /\ DoLeave(rejoin_after_leave, pending_list)
  /\ UNCHANGED <<table, server, net, op, leaves>>

\* zb_mcps_data_confirm for the LEAVE passed on, and zb_nlme_leave_indication.
LeaveIndication(b) ==
  /\ op[b].stage = "indication" /\ Freed(b) /\ DoLeave(rejoin_after_leave, pending_list)
  /\ UNCHANGED <<table, server, net, do_leave_local, leaves>>

\* The device is in the network again: ZbNlme.
Rejoined ==
  /\ joined = "rejoining" /\ joined' = "yes"
  /\ UNCHANGED <<table, server, net, op, pending_list, pending_list_size, flags, do_leave_local,
                 leaves, crossed>>

Ops == leaves + Cardinality({r \in Reqs : req[r].kind # "no"})

Next ==
  /\ joined # "broken"
  /\ \/ TranNext /\ UNCHANGED leave
     \/ \E b \in Bufs, self \in BOOLEAN, rejoin \in BOOLEAN :
          \/ MgmtLeaveSrv(b, self, rejoin)
          \/ \E r \in Reqs : MgmtLeaveCli(b, r, self, rejoin)
     \/ \E b \in Bufs, rejoin \in BOOLEAN : ForceChildLeave(b, rejoin) \/ LeaveHandler(b, rejoin)
     \/ \E b \in Bufs : LeaveRequest(b) \/ LeaveConfirm(b) \/ AnswerSent(b) \/ LeaveIndication(b)
     \/ DoLeaveLocal
     \/ Rejoined
  /\ Ops' <= MaxOps

\* The callback queue is served, the MAC confirms every frame, and a buffer that is waited
\* for comes.
Fairness ==
  /\ \A b \in Bufs : /\ WF_vars(LeaveRequest(b)) /\ WF_vars(LeaveConfirm(b))
                    /\ WF_vars(AnswerSent(b)) /\ WF_vars(LeaveIndication(b))
  /\ WF_vars(DoLeaveLocal)

Spec == Init /\ [][Next]_vars /\ Fairness

-----------------------------------------------------------------------------

\* The pending list and the leaves under way are one to one: the search by buffer that
\* sends an answer finds the entry of that request, and no entry outlives its request, so
\* that a slot is never lost and nobody gets the answer to another one.  It needs that no
\* two leaves crossed: a confirm that clears the flag a sent answer waits for, or the device
\* left while others were pending.
PendingIsUnderWay ==
  ~crossed =>
  /\ \A i \in PSlots : pending_list[i].used =>
       LET o == op[pending_list[i].buf_ref]
       IN /\ i < pending_list_size /\ Found(pending_list[i].buf_ref) = {i}
          /\ o.stage \in {"request", "sent", "refused", "answer"}
          /\ o.from = IF pending_list[i].local THEN "app" ELSE "peer"
          /\ o.stage = "answer" => o.self
  /\ \A b \in Bufs : op[b].stage \in {"request", "sent", "refused"} /\ op[b].from # "layer" =>
       Found(b) # {}

\* The device leaves the network, or leaves it to come back.
Departs == joined = "yes" /\ joined' \in {"no", "rejoining"}

\* A leave of the device itself is under way.
AskedToLeave ==
  \/ do_leave_local[TRUE] > 0
  \/ \E b \in Bufs : op[b].self /\ op[b].stage \in {"sent", "refused", "answer", "indication"}

\* "device_address ... zero fill if device itself" (include/zb_nwk.h:1362): to remove a child
\* is not to leave.  The device leaves only while a leave of its own is under way: neither
\* the removal of a child that another device or the trust center asked for, nor an answer
\* that belongs to another request, takes it out of the network.  Two cases are set aside,
\* because the code does leave in them: its own application asked that a child leave
\* (zdo_try_send_mgmt_leave_rsp completes that as a leave of the device), and two leaves
\* crossed, so that an answer finds the flag of a leave that was lost and an entry that the
\* last one left behind.
StaysUnlessAsked ==
  [][~crossed /\ do_leave_local[FALSE] = 0 /\ Departs => AskedToLeave]_vars

\* A device that was asked to leave does leave, once its LEAVE and its answer are sent, or
\* breaks before: the confirm of the answer finds the flag and the entry.
LeavesWhenAsked ==
  \A b \in Bufs : (op[b].self /\ op[b].stage # "lost" /\ joined = "yes") ~> (joined # "yes" \/ crossed)

\* The device leaves when, and only when, it was asked to, but for these cases.
LeavesAsAsked == StaysUnlessAsked /\ LeavesWhenAsked
=============================================================================
