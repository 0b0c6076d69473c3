-------------------------------- MODULE ZbAps --------------------------------
(***************************************************************************)
(* The APS data service (aps/aps_main.c, aps/aps_dups.c) of two devices: a *)
(* sender with its table of frames that wait for an acknowledgement, and a *)
(* receiver with its queue of frames to be acknowledged and its rejection  *)
(* of duplicates.  Between them is a network that loses, delays and        *)
(* reorders, and duplicates up to MaxCopies.                               *)
(*                                                                         *)
(* One action is one callback or one alarm of one device.  Callbacks that  *)
(* wait in a queue are sets here: they are served in any order.            *)
(***************************************************************************)
EXTENDS Integers, Sequences, FiniteSets

CONSTANTS
  Bufs,        \* buffers of the sender
  MaxReq,      \* bound: requests per behaviour
  N,           \* ZB_N_APS_RETRANS_ENTRIES
  Retries,     \* ZB_N_APS_MAX_FRAME_ENTRIES
  Outstanding, \* bound: acknowledged requests the application has at a time
  CounterMod,  \* range of aps_counter, 256 in the code
  AckQSize,    \* ZB_APS_RETRANS_ACK_Q_SIZE
  DupClock,    \* 3 in the code
  MaxCopies    \* bound: copies of one frame in the network

ASSUME ApsAssumption ==
  /\ MaxReq \in Nat /\ N \in Nat \ {0} /\ Retries \in Nat \ {0}
  /\ CounterMod \in Nat \ {0} /\ AckQSize \in Nat \ {0} /\ DupClock \in Nat \ {0}
  /\ Outstanding \in Nat /\ MaxCopies \in Nat \ {0}

Reqs    == 1 .. MaxReq
Slots   == 0 .. N - 1
Counter == 0 .. CounterMod - 1

NoReq == 0
NoBuf == "no buffer"
ASSUME NoBufAssumption == NoBuf \notin Bufs

\* aps_retrans_ent_state_e
States == {"free", "not confirmed", "acked", "confirmed"}

\* zb_aps_retrans_ent_t; addr is reset with buf when the entry is freed.
Entry   == [state : States, ctr : Counter, buf : Bufs \cup {NoBuf}, command : BOOLEAN,
            retries : 0 .. Retries]

VARIABLES
  aps_counter,
  hash,        \* retrans.hash
  alarm,       \* slot -> number of zb_aps_ack_timer_cb alarms
  frame,       \* buffer -> the request whose frame it holds, NoReq when it is free
  data_req,    \* buffers with a scheduled zb_apsde_data_request
  resolving,   \* buffers waiting for the short address of a bound peer
  nwk,         \* buffer -> what the network layer does with it
  conf,        \* buffer -> u.hdr.status for a scheduled zb_apsde_data_confirm, or "no"
  ctr, kind,   \* request -> its counter and its kind
  result,      \* request -> how it was confirmed
  net, acks,   \* request -> copies of its frame and of its acknowledgement
  ack_q,       \* retrans.ack_q of the receiver
  dup,         \* the receiver's address entry of the sender: counter and clock
  dups_alarm_running,
  got,         \* requests handed to the application of the receiver
  doubtful,    \* history: requests that were not sent since no peer is bound, or whose
               \* number another one had while it was in use
  broken       \* why the table and the buffers disagree from now on, or "no";
               \* such a state is not followed further

senderVars   == <<aps_counter, hash, alarm, frame, data_req, resolving, nwk, conf,
                  ctr, kind, result, doubtful, broken>>
receiverVars == <<ack_q, dup, dups_alarm_running, got>>
vars == <<senderVars, receiverVars, net, acks>>

\* What a frame asks for: nothing, an acknowledgement of data, or of a command.
Kinds == {"plain", "data", "command"}

TypeOK ==
  /\ aps_counter \in Counter
  /\ hash \in [Slots -> Entry]
  /\ alarm \in [Slots -> 0 .. 2]
  /\ frame \in [Bufs -> Reqs \cup {NoReq}]
  /\ data_req \subseteq Bufs /\ resolving \subseteq Bufs
  /\ nwk \in [Bufs -> {"no", "queued", "sent", "forgotten"}]
  /\ conf \in [Bufs -> {"no", "ok", "failed"}]
  /\ ctr \in [Reqs -> Counter] /\ kind \in [Reqs -> Kinds]
  /\ result \in [Reqs -> {"idle", "asked", "ok", "failed", "twice"}]
  /\ net \in [Reqs -> 0 .. MaxCopies] /\ acks \in [Reqs -> 0 .. MaxCopies]
  /\ ack_q \in Seq(Reqs) /\ Len(ack_q) <= AckQSize
  /\ dup \in [ctr : Counter, clock : 0 .. DupClock]
  /\ dups_alarm_running \in BOOLEAN
  /\ got \subseteq Reqs /\ doubtful \subseteq Reqs
  /\ broken \in {"no", "table full", "acked twice", "dropped"}

FreeEntry == [state |-> "free", ctr |-> 0, buf |-> NoBuf, command |-> FALSE, retries |-> 0]

\* zb_aps_init: the counter starts at random.
Init ==
  /\ aps_counter \in Counter
  /\ hash = [i \in Slots |-> FreeEntry] /\ alarm = [i \in Slots |-> 0]
  /\ frame = [b \in Bufs |-> NoReq]
  /\ data_req = {} /\ resolving = {}
  /\ nwk = [b \in Bufs |-> "no"] /\ conf = [b \in Bufs |-> "no"]
  /\ ctr = [r \in Reqs |-> 0] /\ kind = [r \in Reqs |-> "plain"]
  /\ result = [r \in Reqs |-> "idle"]
  /\ net = [r \in Reqs |-> 0] /\ acks = [r \in Reqs |-> 0]
  /\ ack_q = <<>> /\ dup = [ctr |-> 0, clock |-> 0] /\ dups_alarm_running = FALSE
  /\ got = {} /\ doubtful = {} /\ broken = "no"

-----------------------------------------------------------------------------
(* The sender's table. *)

FreeSlots == {i \in Slots : hash[i].state = "free"}

Lowest(S) == CHOOSE i \in S : \A j \in S : i <= j

\* zb_free_buf
FreeBuf(b) == frame' = [frame EXCEPT ![b] = NoReq]

\* zb_schedule_alarm_cancel(zb_aps_ack_timer_cb, i): one alarm at most.
CancelAlarm(alarms, i) == IF alarms[i] = 0 THEN alarms ELSE [alarms EXCEPT ![i] = @ - 1]

\* Mutant: the alarm of a finished entry goes on.
done_with_this_ack_NoCancel(i, command, s, alarms) ==
  LET b == hash[i].buf
  IN  /\ IF command THEN FreeBuf(b) /\ UNCHANGED conf
                    ELSE conf' = [conf EXCEPT ![b] = s] /\ UNCHANGED frame
      /\ hash' = [hash EXCEPT ![i] = FreeEntry]
      /\ alarm' = alarms
      /\ broken' = IF nwk'[b] # "no" THEN "acked twice" ELSE "no"

\* done_with_this_ack, where alarms are those that run: a command is given back,
\* data is confirmed to the application.  When the network layer still has the
\* buffer, it is used twice from then on.
done_with_this_ack(i, command, s, alarms) ==
  LET b == hash[i].buf
  IN  /\ IF command THEN FreeBuf(b) /\ UNCHANGED conf
                    ELSE conf' = [conf EXCEPT ![b] = s] /\ UNCHANGED frame
      /\ hash' = [hash EXCEPT ![i] = FreeEntry]
      /\ alarm' = CancelAlarm(alarms, i)
      /\ broken' = IF nwk'[b] # "no" THEN "acked twice" ELSE "no"

NewEntry(r, b) == [state |-> "not confirmed", ctr |-> aps_counter, buf |-> b,
                   command |-> kind[r] = "command", retries |-> Retries]

IncCounter == aps_counter' = (aps_counter + 1) % CounterMod

\* aps_check_dups: the same counter as the last frame of this sender, while the
\* clock of that frame runs.
IsDup(c) == dup.clock # 0 /\ dup.ctr = c

\* A frame or an acknowledgement of r is on its way, or an entry waits for it.
UnderWay(r) ==
  \/ net[r] > 0 \/ acks[r] > 0 \/ \E i \in DOMAIN ack_q : ack_q[i] = r
  \/ \E b \in Bufs : frame[b] = r /\ (nwk[b] # "no" \/ \E i \in Slots : hash[i].buf = b)

InUse(c) == {r \in Reqs : ctr[r] = c /\ UnderWay(r)}

\* aps_data_hdr_fill_datareq takes the next number and does not look who has it.
TakeCounter(r) ==
  /\ ctr' = [ctr EXCEPT ![r] = aps_counter] /\ IncCounter
  /\ doubtful' = doubtful \cup InUse(aps_counter) \cup
                  (IF InUse(aps_counter) # {} \/ IsDup(aps_counter) THEN {r} ELSE {})

-----------------------------------------------------------------------------
(* The sender. *)

\* A free buffer.  Which one it is makes no difference.
zb_get_out_buf == CHOOSE b \in Bufs : (\E c \in Bufs : frame[c] = NoReq) => frame[b] = NoReq

\* zb_apsde_data_request or zb_aps_send_command of a frame for another
\* device: it takes a number of the same counter.  Bound: only while a request of this
\* sender is to come.
SendElsewhere ==
  /\ \/ \E r \in Reqs : result[r] = "idle"
     \/ data_req \cup resolving # {}
  /\ IncCounter
  /\ UNCHANGED <<hash, alarm, frame, data_req, resolving, nwk, conf, ctr, kind, result,
                 doubtful, broken, receiverVars, net, acks>>

\* The application fills a buffer and schedules zb_apsde_data_request.
AskData(r, b, k) ==
  /\ result[r] = "idle" /\ \A q \in Reqs : q < r => result[q] # "idle"
  /\ k = "data" => Cardinality({q \in Reqs : result[q] = "asked" /\ kind[q] = "data"}) < Outstanding
  /\ b = zb_get_out_buf /\ frame[b] = NoReq /\ frame' = [frame EXCEPT ![b] = r]
  /\ data_req' = data_req \cup {b}
  /\ kind' = [kind EXCEPT ![r] = k] /\ result' = [result EXCEPT ![r] = "asked"]
  /\ UNCHANGED <<aps_counter, hash, alarm, resolving, nwk, conf, ctr, doubtful, broken,
                 receiverVars, net, acks>>

\* zb_apsde_data_request of a bound destination whose short address is not known:
\* it is asked for, then the request is called again.
WaitForPeer(b) ==
  /\ b \in data_req
  /\ data_req' = data_req \ {b} /\ resolving' = resolving \cup {b}
  /\ UNCHANGED <<aps_counter, hash, alarm, frame, nwk, conf, ctr, kind, result,
                 doubtful, broken, receiverVars, net, acks>>

PeerKnown(b) ==
  /\ b \in resolving
  /\ data_req' = data_req \cup {b} /\ resolving' = resolving \ {b}
  /\ UNCHANGED <<aps_counter, hash, alarm, frame, nwk, conf, ctr, kind, result,
                 doubtful, broken, receiverVars, net, acks>>

\* zb_apsde_data_request without a binding: nothing is sent, and the confirm has the
\* status of a new buffer, which is that of success.
NotBound(b) ==
  /\ b \in data_req
  /\ data_req' = data_req \ {b} /\ conf' = [conf EXCEPT ![b] = "ok"]
  /\ doubtful' = doubtful \cup {frame[b]}
  /\ UNCHANGED <<aps_counter, hash, alarm, frame, resolving, nwk, ctr, kind, result,
                 broken, receiverVars, net, acks>>

\* save_ack_data and what follows it.  The last entry counts as "table full": it is
\* taken, but the frame is not sent.  When none is free the frame is sent, and the
\* alarm of entry 0 is started once more.
save_ack_data(r, b) ==
  LET i == IF FreeSlots = {} THEN N ELSE Lowest(FreeSlots)
  IN  /\ hash' = IF i = N THEN hash ELSE [hash EXCEPT ![i] = NewEntry(r, b)]
      /\ IF i = N - 1
         THEN /\ conf' = [conf EXCEPT ![b] = "failed"]
              /\ UNCHANGED <<nwk, alarm>>
         ELSE /\ nwk' = [nwk EXCEPT ![b] = "queued"]
              /\ alarm' = [alarm EXCEPT ![IF i = N THEN 0 ELSE i] = @ + 1]
              /\ UNCHANGED conf
      /\ broken' = IF i >= N - 1 THEN "table full" ELSE "no"

\* zb_apsde_data_request.
DataRequest(b) ==
  LET r == frame[b]
  IN  /\ b \in data_req /\ data_req' = data_req \ {b}
      /\ TakeCounter(r)
      /\ IF kind[r] = "data" THEN save_ack_data(r, b)
         ELSE nwk' = [nwk EXCEPT ![b] = "queued"] /\ UNCHANGED <<hash, alarm, conf, broken>>
      /\ UNCHANGED <<frame, resolving, kind, result, receiverVars, net, acks>>

\* zb_aps_send_command to one device: a full table does not stop it.
SendCommand(r, b) ==
  /\ result[r] = "idle" /\ \A q \in Reqs : q < r => result[q] # "idle"
  /\ b = zb_get_out_buf /\ frame[b] = NoReq /\ frame' = [frame EXCEPT ![b] = r]
  /\ kind' = [kind EXCEPT ![r] = "command"] /\ result' = [result EXCEPT ![r] = "asked"]
  /\ TakeCounter(r)
  /\ nwk' = [nwk EXCEPT ![b] = "queued"]
  /\ IF FreeSlots = {} THEN UNCHANGED <<hash, alarm>>
     ELSE LET i == Lowest(FreeSlots)
          IN  /\ hash' = [hash EXCEPT ![i] = [NewEntry(r, b) EXCEPT !.command = TRUE]]
              /\ alarm' = [alarm EXCEPT ![i] = @ + 1]
  /\ UNCHANGED <<data_req, resolving, conf, broken, receiverVars, net, acks>>

\* The network layer puts the frame on its way: lost, delivered, or doubled.
NwkSend(b) ==
  /\ nwk[b] = "queued" /\ nwk' = [nwk EXCEPT ![b] = "sent"]
  /\ \E n \in net[frame[b]] .. MaxCopies : net' = [net EXCEPT ![frame[b]] = n]
  /\ UNCHANGED <<aps_counter, hash, alarm, frame, data_req, resolving, conf, ctr,
                 kind, result, doubtful, broken, receiverVars, acks>>

Holders(b) == {i \in Slots : hash[i].buf = b}

\* zb_nlde_data_confirm for a frame that asked for no acknowledgement.
PlainConfirm(b) ==
  /\ nwk[b] = "sent" /\ nwk' = [nwk EXCEPT ![b] = "no"]
  /\ kind[frame[b]] = "plain"
  /\ \E s \in {"ok", "failed"} : conf' = [conf EXCEPT ![b] = s]
  /\ UNCHANGED <<aps_counter, hash, alarm, frame, data_req, resolving, ctr, kind, result,
                 doubtful, broken, receiverVars, net, acks>>

\* zb_nlde_data_confirm for a frame to be acknowledged, or acknowledged already.
AckedFrameConfirm(b) ==
  /\ nwk[b] = "sent" /\ nwk' = [nwk EXCEPT ![b] = "no"]
  /\ kind[frame[b]] # "plain"
  /\ IF Holders(b) = {} THEN FreeBuf(b) /\ UNCHANGED <<hash, alarm, conf, broken>>
     ELSE LET i == Lowest(Holders(b))
          IN  IF hash[i].state = "acked"
              THEN done_with_this_ack(i, kind[frame[b]] = "command", "ok", alarm)
              ELSE /\ hash' = [hash EXCEPT ![i].state = "confirmed"]
                   /\ UNCHANGED <<alarm, conf, frame, broken>>
  /\ UNCHANGED <<aps_counter, data_req, resolving, ctr, kind, result, doubtful,
                 receiverVars, net, acks>>

\* An indirect frame expires, or a frame cannot be encrypted when its turn comes: the
\* MAC neither confirms nor frees it, and has no more use for it.
NwkForget(b) ==
  /\ nwk[b] = "queued" /\ nwk' = [nwk EXCEPT ![b] = "forgotten"]
  /\ UNCHANGED <<aps_counter, hash, alarm, frame, data_req, resolving, conf, ctr,
                 kind, result, doubtful, broken, receiverVars, net, acks>>

\* zb_nwk_forward frees a frame it cannot send without a confirm.
NwkDrop(b) ==
  /\ nwk[b] = "queued" /\ nwk' = [nwk EXCEPT ![b] = "no"]
  /\ FreeBuf(b)
  /\ broken' = IF Holders(b) = {} THEN "no" ELSE "dropped"
  /\ UNCHANGED <<aps_counter, hash, alarm, data_req, resolving, conf, ctr, kind,
                 result, doubtful, receiverVars, net, acks>>

\* Mutant: the counter is not compared.
AckedEntries_AnyCounter(r) ==
  {i \in Slots : /\ hash[i].state # "free"
                 /\ kind[r] = "command" \/ ~hash[i].command}

\* The entries an acknowledgement of r matches.  Those of a command only compare
\* the sender and the counter.
AckedEntries(r) ==
  {i \in Slots : /\ hash[i].state # "free" /\ hash[i].ctr = ctr[r]
                 /\ kind[r] = "command" \/ ~hash[i].command}

\* zb_nlde_data_indication of an acknowledgement, aps_ack_frame_handle.
AckFrame(r) ==
  /\ acks[r] > 0 /\ acks' = [acks EXCEPT ![r] = @ - 1]
  /\ IF AckedEntries(r) = {} THEN UNCHANGED <<hash, alarm, conf, frame, nwk, broken>>
     ELSE LET i == Lowest(AckedEntries(r))
          IN  IF hash[i].state = "not confirmed"
              THEN /\ hash' = [hash EXCEPT ![i].state = "acked"]
                   /\ UNCHANGED <<alarm, conf, frame, nwk, broken>>
              ELSE /\ nwk' = [nwk EXCEPT ![hash[i].buf] = IF @ = "forgotten" THEN "no" ELSE @]
                   /\ done_with_this_ack(i, kind[r] = "command", "ok", alarm)
  /\ UNCHANGED <<aps_counter, data_req, resolving, ctr, kind, result, doubtful,
                 receiverVars, net>>

\* Mutant: the retries are not counted.
FewerRetries_Never(n) == n

\* Retries end at 0 and stay there.
FewerRetries(n) == IF n = 0 THEN 0 ELSE n - 1

\* zb_aps_ack_timer_cb, called by the alarm of entry i: the frame is sent again, or
\* given up; while the network layer has it, only the alarm is started again.
AckTimer(i) ==
  LET e == hash[i]
      left == FewerRetries(e.retries)
  IN  /\ alarm[i] > 0
      /\ IF left = 0 /\ e.state = "confirmed"
         THEN /\ nwk' = nwk
              /\ done_with_this_ack(i, e.command, "failed", [alarm EXCEPT ![i] = @ - 1])
         ELSE /\ IF e.state = "confirmed"
                 THEN /\ hash' = [hash EXCEPT ![i].retries = left, ![i].state = "not confirmed"]
                      /\ nwk' = [nwk EXCEPT ![e.buf] = "queued"]
                 ELSE hash' = [hash EXCEPT ![i].retries = left] /\ UNCHANGED nwk
              /\ UNCHANGED <<alarm, conf, frame, broken>>
      /\ UNCHANGED <<aps_counter, data_req, resolving, ctr, kind, result, doubtful,
                     receiverVars, net, acks>>

\* zb_apsde_data_confirm: the application learns the status and frees the buffer.
AppConfirm(b) ==
  LET r == frame[b]
  IN  /\ conf[b] # "no" /\ conf' = [conf EXCEPT ![b] = "no"] /\ FreeBuf(b)
      /\ result' = [result EXCEPT ![r] = IF @ = "asked" THEN conf[b] ELSE "twice"]
      /\ UNCHANGED <<aps_counter, hash, alarm, data_req, resolving, nwk, ctr, kind,
                     doubtful, broken, receiverVars, net, acks>>

-----------------------------------------------------------------------------
(* The receiver. *)

\* zb_nlde_data_indication_continue and aps_check_dups.
Indicate(r) ==
  /\ got' = IF IsDup(ctr[r]) THEN got ELSE got \cup {r}
  /\ dup' = [ctr |-> ctr[r], clock |-> DupClock]
  /\ dups_alarm_running' = TRUE

\* zb_nlde_data_indication of a data or command frame: it is acknowledged first, if
\* it asks for that and the queue has room.
RecvFrame(r) ==
  /\ net[r] > 0 /\ net' = [net EXCEPT ![r] = @ - 1]
  /\ IF kind[r] # "plain" /\ Len(ack_q) < AckQSize
     THEN ack_q' = Append(ack_q, r) /\ UNCHANGED <<dup, dups_alarm_running, got>>
     ELSE Indicate(r) /\ UNCHANGED ack_q
  /\ UNCHANGED <<senderVars, acks>>

\* zb_aps_send_ack_and_continue: a buffer for the acknowledgement was found.
SendAck ==
  /\ ack_q # <<>> /\ ack_q' = Tail(ack_q)
  /\ \E n \in acks[Head(ack_q)] .. MaxCopies : acks' = [acks EXCEPT ![Head(ack_q)] = n]
  /\ Indicate(Head(ack_q))
  /\ UNCHANGED <<senderVars, net>>

\* zb_aps_check_timer_cb
DupTimer ==
  /\ dups_alarm_running
  /\ dup' = [dup EXCEPT !.clock = IF @ = 0 THEN 0 ELSE @ - 1]
  /\ dups_alarm_running' = (dup'.clock # 0)
  /\ UNCHANGED <<senderVars, ack_q, got, net, acks>>

-----------------------------------------------------------------------------
\* A frame on its way may be lost.
Lose(r) ==
  \/ net[r] > 0 /\ net' = [net EXCEPT ![r] = @ - 1] /\ UNCHANGED <<senderVars, receiverVars, acks>>
  \/ acks[r] > 0 /\ acks' = [acks EXCEPT ![r] = @ - 1] /\ UNCHANGED <<senderVars, receiverVars, net>>

Sender(b) == PeerKnown(b) \/ DataRequest(b) \/ NwkSend(b) \/ PlainConfirm(b) \/ AckedFrameConfirm(b)

Next ==
  /\ broken = "no"
  /\ \/ \E r \in Reqs, b \in Bufs : (\E k \in {"plain", "data"} : AskData(r, b, k)) \/ SendCommand(r, b)
     \/ \E b \in Bufs : Sender(b) \/ WaitForPeer(b) \/ NotBound(b) \/ NwkForget(b) \/ NwkDrop(b) \/ AppConfirm(b)
     \/ \E i \in Slots : AckTimer(i)
     \/ \E r \in Reqs : AckFrame(r) \/ RecvFrame(r) \/ Lose(r)
     \/ SendAck \/ DupTimer \/ SendElsewhere

\* Alarms and scheduled callbacks are called.  The lower layers do not keep a frame
\* without end: they send it and confirm it, drop it, or forget it.  Nothing is
\* assumed of the network.
Fairness ==
  /\ WF_vars(broken = "no" /\ \E b \in Bufs : NwkSend(b) \/ PlainConfirm(b) \/ AckedFrameConfirm(b))
  /\ WF_vars(broken = "no" /\ \E i \in Slots : AckTimer(i))
  /\ WF_vars(broken = "no" /\ \E b \in Bufs : AppConfirm(b) \/ DataRequest(b))
  /\ WF_vars(broken = "no" /\ \E b \in Bufs : PeerKnown(b))

Spec == Init /\ [][Next]_vars /\ Fairness

-----------------------------------------------------------------------------
(* Properties. *)

\* Where buffer b is, besides the table.
Places(b) ==
  {p \in {"free", "asked", "resolving", "nwk", "conf"} :
     CASE p = "free" -> frame[b] = NoReq [] p = "asked" -> b \in data_req
       [] p = "resolving" -> b \in resolving [] p = "nwk" -> nwk[b] # "no"
       [] p = "conf" -> conf[b] # "no"}

\* zb_nlde_data_confirm asserts that an entry whose frame is confirmed was waiting
\* for that; retransmissions, acknowledgements and confirms come in any order.  An
\* entry waits for its confirm exactly while the network layer has the buffer, and
\* holds the buffer alone otherwise: it is never freed or confirmed under the entry.
TableAgreesWithBuffers ==
  broken = "no" =>
    /\ \A b \in Bufs : Cardinality(Places(b)) + (IF \E i \in Holders(b) : hash[i].state = "confirmed"
                                                 THEN 1 ELSE 0) = 1
    /\ \A i \in Slots : hash[i].state \in {"not confirmed", "acked"} => Places(hash[i].buf) = {"nwk"}
    /\ \A b \in Bufs : Cardinality(Holders(b)) <= 1

\* Every entry in use has its one alarm, which is all that can end it when nothing
\* is acknowledged; a free entry has none, or its next user would time out early.
AlarmPerEntry ==
  broken = "no" => \A i \in Slots : alarm[i] = IF hash[i].state = "free" THEN 0 ELSE 1

\* The table of frames to be acknowledged agrees with the buffers and with the alarms.
TableSound == TableAgreesWithBuffers /\ AlarmPerEntry

\* The MAC has forgotten the frame of r, and will not confirm it.
Forgotten(r) == \E b \in Bufs : frame[b] = r /\ nwk[b] = "forgotten"

\* A frame that asked for an acknowledgement ends, whatever the network loses: the
\* entry is given back and the application has its confirm.  Four things can prevent
\* it: a bound peer whose address is asked for and never found ("TODO: we can fall
\* into infinite loop here", zb_apsde_data_request); a frame that is never confirmed
\* by the MAC, for which zb_aps_ack_timer_cb then starts its alarm without end; a number
\* used twice, since the acknowledgement of a command frees the buffer of a data frame
\* with the same number; and the states where the table and the buffers have come apart.
RequestEnds ==
  <>[](resolving = {}) =>
  \A r \in Reqs : (result[r] = "asked" /\ kind[r] = "data") ~>
                     (result[r] # "asked" \/ r \in doubtful \/ Forgotten(r) \/ broken # "no")

\* The acknowledged requests of the application, as the service sees them.
ReqOf(r) == IF kind[r] = "data" /\ result[r] \in {"asked", "ok", "failed"} THEN result[r] ELSE "idle"

Service == INSTANCE ZbApsService WITH
             req <- [r \in Reqs |-> ReqOf(r)],
             got <- {r \in got : kind[r] = "data"}

\* The sender, the receiver and a network that loses, reorders and repeats frames
\* give the service of APSDE-DATA: one confirm per request, and success only for
\* what the application of the peer has seen, or for a doubtful request.  Numbers are
\* used again when the counter comes round: that does no harm unless the former user
\* of the number still has a frame, an acknowledgement or an entry, or the receiver
\* still remembers it.
ImplementsService == Service!Spec
=============================================================================
