------------------------------ MODULE ZbMacTx -------------------------------
(***************************************************************************)
(* The transmitting side of a coordinator's MAC: mac_tx_q with its "wait   *)
(* for TX" callback (mac/mac.c), direct and indirect data requests         *)
(* (mac/mac_data.c, mac/mac_routines.c), the data request command that     *)
(* fetches an indirect frame (mac/mac_cr_data.c) and association responses *)
(* (mac/mac_cr_associate.c).  The build is the one for a UZ2400: the radio *)
(* acknowledges by itself and reports the end of a transmission by an      *)
(* interrupt.                                                              *)
(*                                                                         *)
(* One action is one callback, one pass of zb_mac_main_loop or one         *)
(* interrupt.  zb_sched_loop_iteration leaves its callback and its alarm   *)
(* phase when an interrupt is pending, so any order of actions can occur.  *)
(***************************************************************************)
EXTENDS Integers, Sequences, FiniteSets

CONSTANTS
  Bufs,        \* buffers of the pool
  ShortAddrs,  \* devices that are sent data indirectly
  LongAddrs,   \* devices that associate
  PendingSize, \* ZB_MAC_PENDING_QUEUE_SIZE
  TxQSize,     \* ZB_MAC_QUEUE_SIZE
  NoBuf        \* NULL

ASSUME MacTxAssumption ==
  /\ NoBuf \notin Bufs
  /\ PendingSize \in Nat \ {0} /\ TxQSize \in Nat \ {0}
  /\ ShortAddrs \cap LongAddrs = {}

Slots == 1 .. PendingSize

\* What a buffer holds, with the address of the peer.
NoAddr  == "no address"
NoFrame == [kind |-> "none", peer |-> NoAddr]
Requests == [kind : {"direct"}, peer : {NoAddr}] \cup [kind : {"indirect"}, peer : ShortAddrs]
Received == [kind : {"data", "beacon request"}, peer : {NoAddr}]
            \cup [kind : {"association request"}, peer : LongAddrs]
            \cup [kind : {"data request"}, peer : ShortAddrs \cup LongAddrs]
Made     == [kind : {"association response"}, peer : LongAddrs]
            \cup [kind : {"success", "failure"}, peer : {NoAddr}]

VARIABLES
  mac_tx_q,           \* sched.mac_tx_q
  tx_wait_cb, tx_wait_cb_arg, tx_cnt,
  pending_buf,        \* "for handling any service requests"
  pending_data_queue, \* slot -> pending_data
  data_found_index,   \* mac_storage.mac_data_req
  pending_bit,        \* the radio's "frame pending" in acknowledgements
  timeouts,           \* slots with a zb_mac_pending_data_timeout alarm
  cb_q,               \* sched.cb_q
  out,                \* MAC_CTX().out
  pool, lost,         \* free buffers, and those nobody refers to any more
  frame,              \* buffer -> its contents
  air,                \* TX interrupts to come
  overlap,            \* a frame was sent while another was on the air
  sent,               \* the request and the frame of the data request in progress
  unsent,             \* history: the frame waited for could not be encrypted and was not sent
  raced               \* it completed with another context: not followed further

txVars    == <<tx_wait_cb, tx_wait_cb_arg, data_found_index, sent, unsent, raced>>
radioVars == <<tx_cnt, air, overlap>>
slotVars  == <<pending_data_queue, pending_bit, timeouts>>
bufVars   == <<pool, lost, frame, out>>
vars == <<mac_tx_q, txVars, radioVars, pending_buf, slotVars, cb_q, bufVars>>

NoContext == [req |-> NoBuf, data |-> NoBuf]
Entry(f, b) == [func |-> f, param |-> b]
Full == {i \in Slots : pending_data_queue[i] # NoBuf}

-----------------------------------------------------------------------------
(* Operators shared by the handlers. *)

Free(b) == pool' = pool \cup {b} /\ frame' = [frame EXCEPT ![b] = NoFrame]

Alloc(b, fr) == pool' = pool \ {b} /\ frame' = [frame EXCEPT ![b] = fr]

Fill(b, fr) == frame' = [frame EXCEPT ![b] = fr] /\ UNCHANGED pool

DataRequestInProgress == tx_wait_cb = "zb_handle_data_request_cmd_continue"

\* MAC_CTX().pending_buf = b.  Only a data request in progress reads a value
\* that another handler may have written, so it is kept for that time only.
SetPendingBuf(b) == pending_buf' = IF DataRequestInProgress THEN b ELSE NoBuf

\* Which free buffer is taken makes no difference.
FreeBuf == CHOOSE b \in pool : TRUE

\* ZB_SCHEDULE_TX_CB: nobody looks at RET_OVERFLOW, and the buffer is gone.
zb_schedule_tx_cb(f, b) ==
  IF Len(mac_tx_q) < TxQSize
  THEN mac_tx_q' = Append(mac_tx_q, Entry(f, b)) /\ UNCHANGED lost
  ELSE lost' = lost \cup ({b} \ {NoBuf}) /\ UNCHANGED mac_tx_q

\* Mutant: the counter is reset after the radio was started, so a fast
\* interrupt is forgotten.
TransSendCommand_LateReset ==
  /\ tx_cnt' = 0
  /\ air' \in {0, IF air = 0 THEN 1 ELSE 2}
  /\ overlap' = (air > 0)

\* ZB_TRANS_SEND_COMMAND starts the radio, whether or not it is still busy.
TransSendCommand ==
  /\ tx_cnt' = 0
  /\ air' = IF air = 0 THEN 1 ELSE 2
  /\ overlap' = (air > 0)

\* Mutant: the alarm of the slot is left running.
ClearSlot_NoCancel(i) ==
  /\ pending_data_queue' = [pending_data_queue EXCEPT ![i] = NoBuf]
  /\ UNCHANGED timeouts
  /\ pending_bit' = (pending_bit /\ Full # {i})

\* The slot's alarm has been called or is cancelled, the slot is emptied, and
\* the pending bit is cleared when nothing is left.
ClearSlot(i) ==
  /\ pending_data_queue' = [pending_data_queue EXCEPT ![i] = NoBuf]
  /\ timeouts' = timeouts \ {i}
  /\ pending_bit' = (pending_bit /\ Full # {i})

\* zb_mac_put_data_to_pending_queue where there is a free slot ...
PutPending(b) ==
  LET i == CHOOSE i \in Slots \ Full : \A j \in Slots \ Full : i <= j IN
  /\ Full # Slots
  /\ pending_bit' = TRUE
  /\ pending_data_queue' = [pending_data_queue EXCEPT ![i] = b]
  /\ timeouts' = timeouts \cup {i}

\* ... and MAC_TRANSACTION_OVERFLOW where there is none.
PutPendingOverflow ==
  /\ Full = Slots
  /\ pending_bit' = TRUE
  /\ UNCHANGED <<pending_data_queue, timeouts>>

\* Mutant: the address of the device is not compared.
check_pending_data_Any(a) == Full

\* check_pending_data: the slots that hold something for address a.
check_pending_data(a) == {i \in Full : frame[pending_data_queue[i]].peer = a}

-----------------------------------------------------------------------------
(* The upper layers and the receiver. *)

\* zb_mcps_data_request by the network layer.
McpsDataRequest(fr) ==
  /\ ~raced /\ pool # {}
  /\ Alloc(FreeBuf, fr)
  /\ zb_schedule_tx_cb("zb_handle_mcps_data_req", FreeBuf)
  /\ UNCHANGED <<txVars, radioVars, pending_buf, slotVars, cb_q, out>>

\* zb_mac_main_loop takes a received frame: zb_get_in_buf, zb_mac_recv_data, and
\* zb_mac_parse_recv_data, which is a callback of its own but looks at nothing
\* but the frame.  A frame the filter rejects leaves no trace.
ReceiveFrame(fr) ==
  /\ ~raced /\ pool # {}
  /\ Alloc(FreeBuf, fr)
  /\ cb_q' = Append(cb_q, Entry(IF fr.kind = "data" THEN "zb_handle_data_frame"
                                ELSE "zb_mlme_command_accept", FreeBuf))
  /\ UNCHANGED <<mac_tx_q, txVars, radioVars, pending_buf, slotVars, lost, out>>

-----------------------------------------------------------------------------
(* Callbacks.  Called(q) is the queue without the entry being called and   *)
(* with the entries q it schedules.                                        *)

Called(q) == cb_q' = Tail(cb_q) \o q

Head_is(f) == ~raced /\ cb_q # << >> /\ Head(cb_q).func = f
Param == Head(cb_q).param

CommandAccept ==
  LET kind == frame[Param].kind IN
  /\ Head_is("zb_mlme_command_accept")
  /\ \/ /\ kind = "beacon request"
        /\ zb_schedule_tx_cb("zb_handle_beacon_req", NoBuf)
        /\ Free(Param) /\ Called(<< >>)
     \/ /\ kind = "association request"
        /\ Called(<<Entry("zb_accept_ass_request_cmd", Param)>>)
        /\ UNCHANGED <<mac_tx_q, lost, pool, frame>>
     \/ /\ kind = "data request"
        /\ zb_schedule_tx_cb("zb_accept_data_request_cmd", Param)
        /\ Called(<< >>) /\ UNCHANGED <<pool, frame>>
  /\ UNCHANGED <<txVars, radioVars, pending_buf, slotVars, out>>

\* pending_buf is left behind with a buffer that goes to the network layer.
HandleDataFrame ==
  /\ Head_is("zb_handle_data_frame")
  /\ SetPendingBuf(Param)
  /\ Called(<<Entry("zb_mcps_data_indication", Param)>>)
  /\ UNCHANGED <<mac_tx_q, txVars, radioVars, slotVars, bufVars>>

AcceptAssRequest ==
  /\ Head_is("zb_accept_ass_request_cmd")
  /\ SetPendingBuf(Param)
  /\ Called(<<Entry("zb_mlme_associate_indication", Param)>>)
  /\ UNCHANGED <<mac_tx_q, txVars, radioVars, slotVars, bufVars>>

\* The network layer answers with the same buffer.
AssociateIndication ==
  /\ Head_is("zb_mlme_associate_indication")
  /\ Called(<<Entry("zb_mlme_associate_response", Param)>>)
  /\ UNCHANGED <<mac_tx_q, txVars, radioVars, pending_buf, slotVars, bufVars>>

\* zb_mlme_associate_response and zb_handle_associate_response.
AssociateResponse ==
  /\ Head_is("zb_mlme_associate_response")
  /\ \/ /\ PutPending(Param)
        /\ SetPendingBuf(Param)
        /\ Fill(Param, [kind |-> "association response", peer |-> frame[Param].peer])
        /\ Called(<< >>)
     \/ /\ PutPendingOverflow
        /\ pending_buf' = NoBuf
        /\ Fill(Param, [kind |-> "failure", peer |-> NoAddr])
        /\ Called(<<Entry("zb_mlme_comm_status_indication", Param)>>)
  /\ UNCHANGED <<mac_tx_q, txVars, radioVars, lost, out>>

\* Confirmations and indications of data: the upper layers free the buffer.
DataConfirmOrIndication ==
  /\ Head_is("zb_mcps_data_confirm") \/ Head_is("zb_mcps_data_indication")
  /\ Free(Param) /\ Called(<< >>)
  /\ UNCHANGED <<mac_tx_q, txVars, radioVars, pending_buf, slotVars, lost, out>>

\* zb_mlme_comm_status_indication passes the buffer up when the device joined
\* and is known; otherwise it returns without freeing it.
CommStatusIndication ==
  /\ Head_is("zb_mlme_comm_status_indication")
  /\ \/ frame[Param].kind = "success" /\ Free(Param) /\ UNCHANGED lost
     \/ lost' = lost \cup {Param} /\ UNCHANGED <<pool, frame>>
  /\ Called(<< >>)
  /\ UNCHANGED <<mac_tx_q, txVars, radioVars, pending_buf, slotVars, out>>

RunCallback ==
  \/ CommandAccept \/ HandleDataFrame \/ AcceptAssRequest
  \/ AssociateIndication \/ AssociateResponse
  \/ DataConfirmOrIndication \/ CommStatusIndication

\* The alarm zb_mac_pending_data_timeout(i).
PendingDataTimeout(i) ==
  /\ ~raced /\ i \in timeouts
  /\ Fill(pending_data_queue[i], [kind |-> "failure", peer |-> NoAddr])
  /\ cb_q' = Append(cb_q, Entry("zb_mlme_comm_status_indication", pending_data_queue[i]))
  /\ ClearSlot(i)
  /\ UNCHANGED <<mac_tx_q, txVars, radioVars, pending_buf, out, lost>>

-----------------------------------------------------------------------------
(* zb_mac_main_loop: one entry of mac_tx_q when TX is idle, ... *)

TxEntry(f) == ~raced /\ tx_wait_cb = "none" /\ mac_tx_q # << >> /\ Head(mac_tx_q).func = f
TxParam == Head(mac_tx_q).param

\* zb_handle_mcps_data_req.  A frame that cannot be encrypted is forgotten
\* (zb_mac_check_security): it is neither sent nor confirmed.
HandleMcpsDataReq ==
  /\ TxEntry("zb_handle_mcps_data_req")
  /\ mac_tx_q' = Tail(mac_tx_q)
  /\ SetPendingBuf(TxParam)
  /\ \/ /\ frame[TxParam].kind = "direct"
        /\ tx_wait_cb' = "zb_handle_mcps_data_req_continue"
        /\ tx_wait_cb_arg' = TxParam
        /\ TransSendCommand
        /\ UNCHANGED <<slotVars, out, lost>>
     \/ /\ frame[TxParam].kind = "direct"
        /\ lost' = lost \cup {TxParam}
        /\ UNCHANGED <<slotVars, out, tx_wait_cb, tx_wait_cb_arg, radioVars>>
     \/ /\ frame[TxParam].kind = "indirect"
        /\ \/ PutPending(TxParam) /\ UNCHANGED out
           \/ PutPendingOverflow /\ out' = out \cup {TxParam}
        /\ UNCHANGED <<tx_wait_cb, tx_wait_cb_arg, radioVars, lost>>
  /\ UNCHANGED <<data_found_index, sent, unsent, raced, cb_q, pool, frame>>

\* The frame of slot i goes to the radio; data that cannot be encrypted do not, but are
\* waited for all the same.
SendPending(i) ==
  \/ TransSendCommand /\ unsent' = FALSE
  \/ /\ frame[pending_data_queue[i]].kind = "indirect"
     /\ unsent' = TRUE /\ UNCHANGED radioVars

\* zb_accept_data_request_cmd and zb_handle_data_request_cmd
AcceptDataRequest ==
  LET found == check_pending_data(frame[TxParam].peer) IN
  /\ TxEntry("zb_accept_data_request_cmd")
  /\ mac_tx_q' = Tail(mac_tx_q)
  /\ \/ /\ found # {}
        /\ LET i == CHOOSE i \in found : \A j \in found : i <= j IN
             /\ data_found_index' = i
             /\ sent' = [req |-> TxParam, data |-> pending_data_queue[i]]
             /\ SendPending(i)
        /\ pending_buf' = TxParam
        /\ tx_wait_cb' = "zb_handle_data_request_cmd_continue"
        /\ UNCHANGED <<pool, frame>>
     \/ /\ found = {}
        /\ pending_buf' = NoBuf
        /\ Free(TxParam)
        /\ UNCHANGED <<data_found_index, sent, unsent, tx_wait_cb, radioVars>>
  /\ UNCHANGED <<tx_wait_cb_arg, raced, slotVars, cb_q, lost, out>>

\* zb_handle_beacon_req sends and sets no tx_wait_cb.
HandleBeaconReq ==
  /\ TxEntry("zb_handle_beacon_req")
  /\ mac_tx_q' = Tail(mac_tx_q)
  /\ TransSendCommand
  /\ UNCHANGED <<txVars, pending_buf, slotVars, cb_q, bufVars>>

(* ... and tx_wait_cb when the radio has reported. *)

TxWaited(f) == ~raced /\ tx_wait_cb = f /\ tx_cnt > 0

\* ZB_SKIP_TX_CHK leaves tx_cnt set; the main loop clears tx_wait_cb.  The
\* argument and the stored context are not read again before they are set.
TxComplete ==
  /\ tx_cnt' = 1 /\ tx_wait_cb' = "none"
  /\ tx_wait_cb_arg' = NoBuf /\ data_found_index' = 1 /\ sent' = NoContext /\ unsent' = FALSE
  /\ UNCHANGED <<mac_tx_q, air, overlap, raced, lost, out>>

McpsDataReqContinue ==
  /\ TxWaited("zb_handle_mcps_data_req_continue")
  /\ TxComplete
  /\ cb_q' = Append(cb_q, Entry("zb_mcps_data_confirm", tx_wait_cb_arg))
  /\ pending_buf' = NoBuf
  /\ UNCHANGED <<slotVars, pool, frame>>

Context == [req |-> pending_buf, data |-> pending_data_queue[data_found_index]]

\* zb_handle_data_request_cmd_continue with the context it was started with.
\* A response is freed and the request reports its outcome; data are confirmed
\* and the request is freed.
DataRequestContinue ==
  /\ TxWaited("zb_handle_data_request_cmd_continue") /\ Context = sent
  /\ TxComplete
  /\ ClearSlot(data_found_index)
  /\ pending_buf' = NoBuf
  /\ \/ /\ frame[sent.data].kind = "association response"
        /\ cb_q' = Append(cb_q, Entry("zb_mlme_comm_status_indication", sent.req))
        /\ pool' = pool \cup {sent.data}
        /\ \E status \in {"success", "failure"} :
             frame' = [frame EXCEPT ![sent.data] = NoFrame,
                                    ![sent.req] = [kind |-> status, peer |-> NoAddr]]
     \/ /\ frame[sent.data].kind = "indirect"
        /\ cb_q' = Append(cb_q, Entry("zb_mcps_data_confirm", sent.data))
        /\ Free(sent.req)

\* The same after pending_buf or the slot has changed: it frees or confirms a
\* buffer in use elsewhere, or NULL.
DataRequestContinueRaced ==
  /\ TxWaited("zb_handle_data_request_cmd_continue") /\ Context # sent
  /\ raced' = TRUE
  /\ UNCHANGED <<mac_tx_q, tx_wait_cb, tx_wait_cb_arg, data_found_index, sent, unsent, radioVars,
                 pending_buf, slotVars, cb_q, bufVars>>

MacMainLoopTx ==
  \/ HandleMcpsDataReq \/ AcceptDataRequest \/ HandleBeaconReq
  \/ McpsDataReqContinue \/ DataRequestContinue \/ DataRequestContinueRaced

\* The radio has sent a frame: ZB_CHECK_INT_STATUS counts it.
TxInterrupt ==
  /\ ~raced /\ air > 0
  /\ air' = air - 1
  /\ tx_cnt' = 1
  /\ overlap' = (overlap /\ air > 1)
  /\ UNCHANGED <<mac_tx_q, txVars, pending_buf, slotVars, cb_q, bufVars>>

-----------------------------------------------------------------------------

Init ==
  /\ mac_tx_q = << >> /\ cb_q = << >>
  /\ tx_wait_cb = "none" /\ tx_wait_cb_arg = NoBuf /\ tx_cnt = 0
  /\ pending_buf = NoBuf
  /\ pending_data_queue = [i \in Slots |-> NoBuf]
  /\ data_found_index = 1
  /\ pending_bit = FALSE /\ timeouts = {}
  /\ out = {} /\ pool = Bufs /\ lost = {}
  /\ frame = [b \in Bufs |-> NoFrame]
  /\ air = 0 /\ overlap = FALSE
  /\ sent = NoContext /\ unsent = FALSE /\ raced = FALSE

Next ==
  \/ \E fr \in Requests : McpsDataRequest(fr)
  \/ \E fr \in Received : ReceiveFrame(fr)
  \/ RunCallback
  \/ \E i \in Slots : PendingDataTimeout(i)
  \/ MacMainLoopTx
  \/ TxInterrupt

\* The scheduler serves every callback and alarm (ZbSched), its loop runs the
\* MAC main loop in every pass, and the radio ends every transmission.
Fairness ==
  /\ WF_vars(RunCallback)
  /\ \A i \in Slots : WF_vars(PendingDataTimeout(i))
  /\ WF_vars(MacMainLoopTx)
  /\ WF_vars(TxInterrupt)

Spec == Init /\ [][Next]_vars /\ Fairness

-----------------------------------------------------------------------------
(* Properties. *)

\* Type invariant.
TypeOK ==
  /\ mac_tx_q \in Seq([func : {"zb_handle_mcps_data_req", "zb_accept_data_request_cmd",
                               "zb_handle_beacon_req"}, param : Bufs \cup {NoBuf}])
  /\ Len(mac_tx_q) <= TxQSize
  /\ tx_wait_cb \in {"none", "zb_handle_mcps_data_req_continue",
                     "zb_handle_data_request_cmd_continue"}
  /\ tx_wait_cb_arg \in Bufs \cup {NoBuf} /\ pending_buf \in Bufs \cup {NoBuf}
  /\ tx_cnt \in 0 .. 1 /\ air \in 0 .. 2 /\ overlap \in BOOLEAN
  /\ pending_data_queue \in [Slots -> Bufs \cup {NoBuf}]
  /\ data_found_index \in Slots /\ pending_bit \in BOOLEAN /\ timeouts \subseteq Slots
  /\ \A k \in 1 .. Len(cb_q) : cb_q[k].param \in Bufs
  /\ out \subseteq Bufs /\ pool \subseteq Bufs /\ lost \subseteq Bufs
  /\ frame \in [Bufs -> {NoFrame} \cup Requests \cup Received \cup Made]
  /\ sent \in [req : Bufs \cup {NoBuf}, data : Bufs \cup {NoBuf}]
  /\ unsent \in BOOLEAN /\ raced \in BOOLEAN

\* mac/mac_cr_data.c:409 asks "that there will be no races and context
\* parameters are safe": until zb_handle_data_request_cmd_continue runs,
\* pending_buf is the request and the slot holds the frame that was sent.
ContextSafe == DataRequestInProgress => Context = sent

Uses(q, b) == Cardinality({k \in DOMAIN q : q[k].param = b})
One(c) == IF c THEN 1 ELSE 0

Owners(b) ==
  Uses(mac_tx_q, b) + Uses(cb_q, b)
  + Cardinality({i \in Slots : pending_data_queue[i] = b})
  + One(tx_wait_cb = "zb_handle_mcps_data_req_continue" /\ tx_wait_cb_arg = b)
  + One(DataRequestInProgress /\ pending_buf = b)
  + One(b \in pool) + One(b \in lost) + One(b \in out)

\* A buffer is freed once, and is in one queue, slot or callback at a time,
\* as long as the context of a data request in progress is untouched.
OneOwner == ~raced /\ ContextSafe => \A b \in Bufs : Owners(b) = 1

\* Every slot in use has its timeout running, and no timeout is left for an
\* empty slot, which zb_mac_pending_data_timeout would take for a frame.
TimeoutPerSlot == timeouts = Full

\* The radio promises data in its acknowledgements exactly while a slot is in
\* use (ZB_SET_PENDING_BIT, ZB_CLEAR_PENDING_BIT).
PendingBitRight == pending_bit <=> Full # {}

\* The three places that know which frames are pending agree: the queue, the alarms
\* and the bit in the radio.
SlotsKept == TimeoutPerSlot /\ PendingBitRight

\* Every buffer has one place to be, and those that are kept for a sleeping device are
\* the ones that will time out and that the radio announces.
BuffersSound == OneOwner /\ SlotsKept

\* A completed transmission is the one waited for (mac/mac.c:257), unless it
\* was started while a beacon was still on the air, or was not started: tx_cnt is
\* left from another one then, and a frame that was never sent is confirmed.
TxDoneIsOwn == ~overlap /\ ~unsent /\ tx_wait_cb # "none" /\ tx_cnt > 0 => air = 0

\* The frame sent for a data request is one for the device that asked.
SentToRequester ==
  DataRequestInProgress /\ ContextSafe => frame[sent.data].peer = frame[sent.req].peer

\* What is answered is what was asked for, and what is taken for done was done.
TransmissionsRight == TxDoneIsOwn /\ SentToRequester

\* The transmitter never stays occupied.  A callback may wait for a frame that could
\* not be encrypted and was not sent: the report of the transmission before it is still
\* in tx_cnt, or a beacon's is to come, so that it is called as well.  Only before the
\* first transmission of all it waits for ever.
TxNeverStuck == []<>(tx_wait_cb = "none" \/ raced \/ (unsent /\ tx_cnt = 0 /\ air = 0))

\* mac/mac_routines.c:425 puts a request that found no free slot to the out
\* queue to "process it later".
OutProcessed == \A b \in Bufs : b \in out ~> b \notin out
=============================================================================
