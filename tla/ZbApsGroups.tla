----------------------------- MODULE ZbApsGroups -----------------------------
(***************************************************************************)
(* The group table of the APS layer (aps/aps_bind.c) and the way of a      *)
(* frame for a group to the endpoints of this device (aps/aps_main.c):     *)
(* frames that were received and copies of frames that are sent queue up,  *)
(* and one chain of callbacks passes a copy to one endpoint after the      *)
(* other.  The chain, the copies and the frames live on the input half of  *)
(* the buffer pool.                                                        *)
(***************************************************************************)
EXTENDS Naturals, FiniteSets, Sequences, Functions

CONSTANTS
  GroupTableSize,   \* ZB_APS_GROUP_TABLE_SIZE
  EndpointsInGroup, \* ZB_APS_ENDPOINTS_IN_GROUP_TABLE
  UpQSize,          \* ZB_APS_GROUP_UP_Q_SIZE, of both queues
  InLimits,         \* what ZB_BUFS_LIMIT may be
  GroupAddrs, Endpoints,
  MaxFrames,        \* bound: frames received or sent, numbered as they come
  MaxAdds           \* bound: requests to add an endpoint

GroupsAssumption ==
  /\ GroupTableSize \in Nat \ {0} /\ EndpointsInGroup \in Nat \ {0} /\ UpQSize \in Nat \ {0}
  /\ InLimits \subseteq Nat \ {0} /\ MaxFrames \in Nat /\ MaxAdds \in Nat
  /\ GroupAddrs # {}

VARIABLES
  groups,        \* the group table: addresses with their endpoints
  local_dup_q,   \* frames to be sent whose copy waits for a buffer
  pass_up_q,     \* frames that wait for the chain
  active_buf,    \* active_pass_up_buf
  handle,        \* its next endpoint
  calls,         \* the callbacks scheduled, each with a buffer
  in_waiters,    \* the callbacks that wait for an input buffer
  in_used,       \* input buffers in use
  limit,         \* ZB_BUFS_LIMIT of this build
  group_of,      \* the group of each frame that came
  stage,         \* history: "here", "done" or "dropped", of the frame or its copy
  due,           \* history: the endpoints of its group when it came
  passed,        \* history: the endpoints it was passed to
  adds

tableVars == <<groups, adds>>
vars == <<tableVars, local_dup_q, pass_up_q, active_buf, handle, calls, in_waiters, in_used, limit,
          group_of, stage, due, passed>>

NoFrame == 0
Frames == DOMAIN group_of
Call(f, m) == [func |-> f, frame |-> m]

Init ==
  /\ groups = << >> /\ local_dup_q = << >> /\ pass_up_q = << >>
  /\ active_buf = NoFrame /\ handle = 0
  /\ calls = << >> /\ in_waiters = << >> /\ in_used = 0 /\ limit \in InLimits
  /\ group_of = << >> /\ stage = << >> /\ due = << >> /\ passed = << >>
  /\ adds = 0

-----------------------------------------------------------------------------
(* The input half of the buffer pool: calls, waiters and buffers in use. *)

Pool == [calls |-> calls, waiters |-> in_waiters, used |-> in_used]

Scheduled(p, call) == [p EXCEPT !.calls = Append(@, call)]

\* zb_get_in_buf_delayed
Wanted(p, func) ==
  IF p.used < limit
  THEN Scheduled([p EXCEPT !.used = @ + 1], Call(func, NoFrame))
  ELSE [p EXCEPT !.waiters = Append(@, func)]

\* zb_free_buf of an input buffer: it goes to the waiter that came first.
Freed(p) ==
  IF p.waiters # << >>
  THEN Scheduled([p EXCEPT !.waiters = Tail(@)], Call(Head(p.waiters), NoFrame))
  ELSE [p EXCEPT !.used = @ - 1]

PoolIs(p) == calls' = p.calls /\ in_waiters' = p.waiters /\ in_used' = p.used

\* The first place of a group in the table, 0 if there is none.
Place(addr) ==
  LET there == {i \in 1 .. Len(groups) : groups[i].addr = addr}
  IN  IF there = {} THEN 0 ELSE CHOOSE i \in there : \A j \in there : i <= j
EndpointsOf(addr) == IF Place(addr) = 0 THEN << >> ELSE groups[Place(addr)].endpoints

-----------------------------------------------------------------------------

\* zb_apsme_add_group_request; a table that is full stays as it is.
AddGroup(addr, ep) ==
  /\ adds < MaxAdds /\ adds' = adds + 1
  /\ LET i == Place(addr)
     IN  IF i # 0
         THEN IF ep \in Range(groups[i].endpoints) \/ Len(groups[i].endpoints) = EndpointsInGroup
              THEN UNCHANGED groups
              ELSE groups' = [groups EXCEPT ![i].endpoints = Append(@, ep)]
         ELSE IF Len(groups) = GroupTableSize THEN UNCHANGED groups
              ELSE groups' = Append(groups, [addr |-> addr, endpoints |-> <<ep>>])
  /\ UNCHANGED <<local_dup_q, pass_up_q, active_buf, handle, calls, in_waiters, in_used, limit,
                 group_of, stage, due, passed>>

\* The next frame is for a group.
Came(addr, is) ==
  /\ Len(group_of) < MaxFrames /\ group_of' = Append(group_of, addr)
  /\ stage' = Append(stage, is) /\ passed' = Append(passed, << >>)
  /\ due' = Append(due, EndpointsOf(addr))
Newest == Len(group_of) + 1

\* A frame comes up to zb_nlde_data_indication_continue in an input buffer.
Receive(addr) ==
  /\ in_used < limit /\ Came(addr, "here")
  /\ PoolIs(Scheduled([Pool EXCEPT !.used = @ + 1], Call("zb_aps_pass_up_group_buf", Newest)))
  /\ UNCHANGED <<tableVars, local_dup_q, pass_up_q, active_buf, handle, limit>>

\* zb_apsde_data_request for a group: a copy for this device, if there is room.  The frame
\* itself goes down to zb_nlde_data_request, at once or when its copy is made.
DataRequest(addr) ==
  /\ IF groups # << >> /\ Len(local_dup_q) < UpQSize /\ Len(pass_up_q) < UpQSize
     THEN /\ Came(addr, "here") /\ local_dup_q' = Append(local_dup_q, Newest)
          /\ PoolIs(Wanted(Pool, "zb_aps_pass_local_group_pkt_up"))
     ELSE /\ Came(addr, "dropped")
          /\ UNCHANGED <<local_dup_q, calls, in_waiters, in_used>>
  /\ UNCHANGED <<tableVars, pass_up_q, active_buf, handle, limit>>

-----------------------------------------------------------------------------

Called(f) == calls # << >> /\ Head(calls).func = f
Rest == [Pool EXCEPT !.calls = Tail(@)]

\* zb_aps_pass_local_group_pkt_up: the frame goes on, its copy up.
PassLocalUp ==
  /\ Called("zb_aps_pass_local_group_pkt_up") /\ local_dup_q # << >>
  /\ local_dup_q' = Tail(local_dup_q)
  /\ PoolIs(Scheduled(Rest, Call("zb_aps_pass_up_group_buf", Head(local_dup_q))))
  /\ UNCHANGED <<tableVars, pass_up_q, active_buf, handle, limit, group_of, stage, due, passed>>

\* zb_aps_pass_up_group_buf
PassUpGroupBuf ==
  /\ Called("zb_aps_pass_up_group_buf")
  /\ LET m == Head(calls).frame
     IN  IF Len(pass_up_q) = UpQSize
         THEN /\ stage' = [stage EXCEPT ![m] = "dropped"] /\ PoolIs(Freed(Rest))
              /\ UNCHANGED <<active_buf, handle, pass_up_q>>
         ELSE /\ IF active_buf = NoFrame
                 THEN /\ active_buf' = m /\ handle' = 0 /\ UNCHANGED pass_up_q
                      /\ PoolIs(Wanted(Rest, "zb_aps_pass_group_msg_up"))
                 ELSE /\ pass_up_q' = Append(pass_up_q, m) /\ PoolIs(Rest)
                      /\ UNCHANGED <<active_buf, handle>>
              /\ UNCHANGED stage
  /\ UNCHANGED <<tableVars, local_dup_q, limit, group_of, due, passed>>

\* Mutant of WithNext: the next frame starts where the last one stopped.
WithNext_SameHandle(p) ==
  IF pass_up_q # << >>
  THEN /\ active_buf' = Head(pass_up_q) /\ pass_up_q' = Tail(pass_up_q) /\ handle' = handle
       /\ PoolIs(Scheduled(p, Call("zb_aps_pass_group_msg_up", NoFrame)))
  ELSE /\ active_buf' = NoFrame /\ PoolIs(Freed(p)) /\ UNCHANGED <<pass_up_q, handle>>

\* zb_aps_pass_group_msg_up is done with a frame and takes the next one, or ends the chain.
WithNext(p) ==
  IF pass_up_q # << >>
  THEN /\ active_buf' = Head(pass_up_q) /\ pass_up_q' = Tail(pass_up_q) /\ handle' = 0
       /\ PoolIs(Scheduled(p, Call("zb_aps_pass_group_msg_up", NoFrame)))
  ELSE /\ active_buf' = NoFrame /\ PoolIs(Freed(p)) /\ UNCHANGED <<pass_up_q, handle>>

\* zb_aps_pass_group_msg_up
PassGroupMsgUp ==
  /\ Called("zb_aps_pass_group_msg_up")
  /\ LET eps == EndpointsOf(group_of[active_buf])
     IN  IF handle < Len(eps)
         THEN /\ passed' = [passed EXCEPT ![active_buf] = Append(@, eps[handle + 1])]
              /\ handle' = handle + 1
              /\ PoolIs(Wanted(Scheduled(Rest, Call("zb_apsde_data_indication", NoFrame)),
                               "zb_aps_pass_group_msg_up"))
              /\ UNCHANGED <<active_buf, pass_up_q, stage>>
         ELSE /\ stage' = [stage EXCEPT ![active_buf] = "done"] /\ WithNext(Freed(Rest))
              /\ UNCHANGED passed
  /\ UNCHANGED <<tableVars, local_dup_q, limit, group_of, due>>

\* The application is done with what zb_apsde_data_indication gave it.
DataIndication ==
  /\ Called("zb_apsde_data_indication") /\ PoolIs(Freed(Rest))
  /\ UNCHANGED <<tableVars, local_dup_q, pass_up_q, active_buf, handle, limit, group_of, stage, due,
                 passed>>

Next ==
  \/ \E a \in GroupAddrs, e \in Endpoints : AddGroup(a, e)
  \/ \E a \in GroupAddrs : Receive(a) \/ DataRequest(a)
  \/ PassLocalUp \/ PassUpGroupBuf \/ PassGroupMsgUp \/ DataIndication

Spec == Init /\ [][Next]_vars

-----------------------------------------------------------------------------

FuncsIn(s) == [i \in DOMAIN s |-> s[i].func]
CountIn(s, f) == Cardinality({i \in DOMAIN s : s[i] = f})

\* The chain of zb_aps_pass_group_msg_up exists once if there is a frame to pass up, and not
\* otherwise: two chains would pass frames up out of turn and free them twice, without one
\* no frame for a group would ever be passed up again.
OneChain ==
  /\ CountIn(FuncsIn(calls), "zb_aps_pass_group_msg_up")
       + CountIn(in_waiters, "zb_aps_pass_group_msg_up") = IF active_buf = NoFrame THEN 0 ELSE 1
  /\ active_buf = NoFrame => pass_up_q = << >>
  /\ CountIn(FuncsIn(calls), "zb_aps_pass_local_group_pkt_up")
       + CountIn(in_waiters, "zb_aps_pass_local_group_pkt_up") = Len(local_dup_q)

\* Every input buffer in use is that of a call or of a frame that waits.
BuffersCounted ==
  /\ in_used = Len(calls) + Len(pass_up_q) + (IF active_buf = NoFrame THEN 0 ELSE 1)
  /\ in_waiters # << >> => in_used = limit

\* The sequence t starts with s.
IsPrefix(s, t) == Len(s) <= Len(t) /\ s = SubSeq(t, 1, Len(s))

\* A frame is passed to endpoints in the order of the table, to none twice, and before it is
\* done to all that its group had when it came.
PassedToGroup ==
  \A m \in Frames :
    /\ IsPrefix(passed[m], EndpointsOf(group_of[m])) /\ IsInjective(passed[m])
    /\ stage[m] = "done" => IsPrefix(due[m], passed[m])
    /\ m = active_buf => handle = Len(passed[m])
    /\ m \in Range(pass_up_q) => passed[m] = << >>

\* The chain waits for a buffer that somebody will free.  This takes more input buffers than
\* the queue and the active frame can hold: with the 8 of zb_config.h (ZB_IOBUF_POOL_SIZE
\* / 2) and a queue of 8 the frames of groups can take them all while the chain waits.
ChainGoesOn == limit > UpQSize + 1 /\ in_waiters # << >> => calls # << >>

\* Frames for groups are passed up right (zb_aps_pass_up_group_buf and what follows).
GroupsRight == OneChain /\ BuffersCounted /\ PassedToGroup /\ ChainGoesOn
=============================================================================
