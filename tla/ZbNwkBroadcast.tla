---------------------------- MODULE ZbNwkBroadcast ----------------------------
(***************************************************************************)
(* Broadcasts of one router (nwk/nwk_main.c): the broadcast transaction    *)
(* table that tells new frames from copies, the retransmission table with  *)
(* its passive acknowledgements, the frames that wait for a second buffer, *)
(* and the chain of callbacks, buffer requests and alarms that runs        *)
(* nwk_broadcast_transmition.                                              *)
(*                                                                         *)
(* The neighbors rebroadcast what they like, when they like.  A frame      *)
(* stands for one pair of source and sequence number.  Copies sent go to   *)
(* buffers of their own, which the confirm frees.  The device may leave    *)
(* the network and go on in another one.                                   *)
(***************************************************************************)
EXTENDS Integers, FiniteSets, Sequences

CONSTANTS
  Bufs,        \* buffers that hold broadcast frames
  Own, Relayed,\* frames of this router, and of others
  RoutersOnly, \* the frames to ZB_NWK_BROADCAST_ROUTER_COORDINATOR
  Kind,        \* the base neighbor table: index -> "router", "child" (an end device)
               \* or "free"
  Originator,  \* frames -> index of the neighbor that made it, or -1
  BttSize, BrrtSize, WaitSize, \* ZB_NWK_BTR_TABLE_SIZE, ZB_NWK_BRR_TABLE_SIZE,
               \* ZB_NWK_WAIT_ALLOC_TABLE_SIZE
  MaxRetries,  \* ZB_NWK_MAX_BROADCAST_RETRIES
  Lifetime,    \* ZB_NWK_BROADCAST_DELIVERY_TIME
  MaxCalls,    \* bound: pending calls of nwk_broadcast_transmition
  CanLeave     \* whether zb_nwk_do_leave may be called

Frames == Own \cup Relayed
Table  == DOMAIN Kind
Used   == {n \in Table : Kind[n] # "free"}

ASSUME BroadcastAssumption ==
  /\ Bufs # {} /\ Own \cup Relayed # {}
  /\ IsFiniteSet(Table) /\ Table = 0 .. Cardinality(Table) - 1 /\ Cardinality(Table) <= 8
  /\ BttSize \in 1 .. 254 /\ BrrtSize \in 1 .. 254 /\ WaitSize \in Nat /\ MaxRetries \in Nat
  /\ Lifetime \in Nat /\ MaxCalls \in Nat
  /\ Originator \in [Frames -> Table \cup {-1}] /\ RoutersOnly \subseteq Frames
  /\ CanLeave \in BOOLEAN

Slots == 0 .. BrrtSize - 1
Done  == Cardinality(Table) \* an iterator at its end, ~0 in the code

VARIABLES
  btt,        \* frame -> what is left of its lifetime, -1 when it is not in the table
  btt_cnt, btt_alarm,
  brrt, brrt_cnt,
  loc,        \* buffer -> "idle", "forward", "wait" (wait_alloc), "brrt", "last" (its last
              \* transmission, or zb_nwk_call_br_confirm) or "confirmed"
  frm,        \* buffer -> its frame
  wait_alloc, \* the buffers that wait, the last one first served
  in_reqs,    \* buffers that new_buffer_allocated waits for
  calls,      \* queued calls of nwk_broadcast_transmition with no buffer
  out_reqs,   \* buffers it waits for
  alarm,      \* its alarms
  leaked,     \* whether a buffer was lost in new_buffer_allocated
  broken

tables == <<btt, btt_cnt, btt_alarm, brrt, brrt_cnt>>
frames == <<loc, frm>>
chain  == <<calls, out_reqs, alarm>>
waits  == <<wait_alloc, in_reqs, leaked>>
vars   == <<tables, frames, chain, waits, broken>>

Entry == [used : BOOLEAN, buf : Bufs, retries : Nat, iter : 0 .. Done,
          acks : SUBSET Table, due : BOOLEAN]

TypeOK ==
  /\ btt \in [Frames -> -1 .. Lifetime] /\ btt_cnt \in 0 .. 255 /\ btt_alarm \in 0 .. 1
  /\ brrt \in [Slots -> Entry] /\ brrt_cnt \in 0 .. 255
  /\ loc \in [Bufs -> {"idle", "forward", "wait", "brrt", "last"}]
  /\ frm \in [Bufs -> Frames]
  /\ \A k \in DOMAIN wait_alloc : wait_alloc[k] \in Bufs
  /\ {in_reqs, calls, out_reqs} \subseteq Nat /\ leaked \in BOOLEAN /\ alarm \in 0 .. 1

AnyFrame == CHOOSE f \in Frames : TRUE
NoEntry  == [used |-> FALSE, buf |-> CHOOSE b \in Bufs : TRUE, retries |-> 0, iter |-> Done,
             acks |-> {}, due |-> FALSE]

\* zb_nwk_init: everything is zero.
Init ==
  /\ btt = [f \in Frames |-> -1] /\ btt_cnt = 0 /\ btt_alarm = 0
  /\ brrt = [i \in Slots |-> NoEntry] /\ brrt_cnt = 0
  /\ loc = [b \in Bufs |-> "idle"] /\ frm = [b \in Bufs |-> AnyFrame]
  /\ wait_alloc = <<>> /\ in_reqs = 0 /\ leaked = FALSE
  /\ calls = 0 /\ out_reqs = 0 /\ alarm = 0
  /\ broken = FALSE

-----------------------------------------------------------------------------
(* Helpers. *)

First(S) == CHOOSE i \in S : \A j \in S : i <= j

InBtt  == {f \in Frames : btt[f] >= 0}
InBrrt == {i \in Slots : brrt[i].used}
EntryOf(f) == {i \in InBrrt : frm[brrt[i].buf] = f}

\* zb_nwk_neighbor_next_ze_children_i: the next end device child from index n on.  The
\* search ends at the number of entries in use.
NextChild(f, n) ==
  LET C == {k \in Table : k >= n /\ k < Cardinality(Used) /\ Kind[k] = "child"}
  IN  IF C = {} \/ f \in RoutersOnly THEN Done ELSE First(C)

\* ZB_NWK_GET_PASSIVE_ACK_DEV_NUM.
DevNum == Cardinality({n \in Table : Kind[n] = "router"})

\* The number of acknowledgements that ends a frame early: of every router, of all but
\* one if the frame is not ours.
Enough(f, n) == n = IF f \in Own THEN DevNum ELSE DevNum - 1

\* One entry more in btt, which starts the expiry if it is the only one.
AddBtt(f) ==
  /\ btt' = [btt EXCEPT ![f] = Lifetime]
  /\ btt_cnt' = (btt_cnt + 1) % 256
  /\ btt_alarm' = IF (btt_cnt + 1) % 256 = 1 THEN 1 ELSE btt_alarm

Move(b, place) == loc' = [loc EXCEPT ![b] = place]

\* A buffer goes back to the pool.
Freed(b) == loc' = [loc EXCEPT ![b] = "idle"] /\ frm' = [frm EXCEPT ![b] = AnyFrame]

-----------------------------------------------------------------------------
(* Frames that come in, and those we make. *)

\* zb_nlde_data_request with a broadcast: a sequence number not in use.
DataRequest(b, f) ==
  /\ loc[b] = "idle" /\ f \in Own
  /\ f \notin InBtt /\ \A c \in Bufs : loc[c] # "idle" => frm[c] # f
  /\ calls + out_reqs < MaxCalls
  /\ Move(b, "forward") /\ frm' = [frm EXCEPT ![b] = f]
  /\ UNCHANGED <<tables, chain, waits, broken>>

\* Whom a copy of f may come from: a router, the end device that made it, or a device
\* that is no neighbor.
Senders(f) == {n \in Table : Kind[n] = "router"} \cup {Originator[f], -1}

\* The acknowledgements of the entry i of f with the one of n, and whether they end it.
AcksWith(i, n) == brrt[i].acks \cup ({n} \ {-1})
Acked(f, n) ==
  {i \in EntryOf(f) : i = First(EntryOf(f)) /\ n # -1 /\ Enough(f, Cardinality(AcksWith(i, n)))}

\* The passive acknowledgement in zb_mcps_data_indication.  An entry that needs no more is
\* freed, and zb_nwk_call_br_confirm called with its buffer.
PassiveAck(f, n) ==
  /\ brrt' = [i \in Slots |-> IF i \in Acked(f, n) THEN NoEntry
                              ELSE IF i \in EntryOf(f) /\ i = First(EntryOf(f))
                              THEN [brrt[i] EXCEPT !.acks = AcksWith(i, n)] ELSE brrt[i]]
  /\ brrt_cnt' = (brrt_cnt - Cardinality(Acked(f, n))) % 256

\* The places of the buffers after that, with new frames in the buffers W that wait.
PlacesAfterAck(f, n, W) ==
  [c \in Bufs |-> IF c \in W THEN "wait"
                  ELSE IF \E i \in Acked(f, n) : brrt[i].buf = c THEN "last" ELSE loc[c]]

\* zb_mcps_data_indication for a broadcast that is known, or finds no room in btt.
RecvDropped(f, n) ==
  /\ f \in InBtt \/ Cardinality(InBtt) = BttSize
  /\ PassiveAck(f, n) /\ loc' = PlacesAfterAck(f, n, {})
  /\ UNCHANGED <<btt, btt_cnt, btt_alarm, frm, chain, waits, broken>>

\* The same for a new one.  If there is radius left to send it on, it waits for a second
\* buffer to be indicated with, unless too many do; else it is only indicated.
RecvNew(b, f, n, radius) ==
  LET waiting == radius /\ Len(wait_alloc) < WaitSize
  IN  /\ f \notin InBtt /\ Cardinality(InBtt) < BttSize
      /\ loc[b] = "idle" /\ calls + out_reqs + in_reqs < MaxCalls
      /\ AddBtt(f) /\ PassiveAck(f, n)
      /\ loc' = PlacesAfterAck(f, n, IF waiting THEN {b} ELSE {})
      /\ frm' = IF waiting THEN [frm EXCEPT ![b] = f] ELSE frm
      /\ wait_alloc' = IF waiting THEN <<b>> \o wait_alloc ELSE wait_alloc
      /\ in_reqs' = IF waiting THEN in_reqs + 1 ELSE in_reqs
      /\ UNCHANGED <<chain, leaked, broken>>

\* new_buffer_allocated: the last frame that waits is copied to the buffer and indicated,
\* the original sent on.  A buffer that nobody waits for is forgotten.
NewBufferAllocated ==
  /\ in_reqs > 0
  /\ IF wait_alloc = <<>>
     THEN /\ leaked' = TRUE /\ in_reqs' = in_reqs - 1
          /\ UNCHANGED <<wait_alloc, loc>>
     ELSE /\ Move(Head(wait_alloc), "forward") /\ wait_alloc' = Tail(wait_alloc)
          /\ in_reqs' = IF Tail(wait_alloc) = <<>> THEN in_reqs - 1 ELSE in_reqs
          /\ UNCHANGED leaked
  /\ UNCHANGED <<frm, tables, chain, broken>>

-----------------------------------------------------------------------------
(* Sending. *)

\* zb_nwk_forward of a broadcast: entered in btt if it is not there, and in brrt.  Every
\* entry gets nwk_broadcast_transmition called once more, with a buffer, instead of by
\* its alarm.  With a table full the frame is freed, and not confirmed.
Forward(b) ==
  LET f    == frm[b]
      full == f \notin InBtt /\ Cardinality(InBtt) = BttSize
      free == Slots \ InBrrt
  IN  /\ loc[b] = "forward"
      /\ IF f \in InBtt \/ full THEN UNCHANGED <<btt, btt_cnt, btt_alarm>> ELSE AddBtt(f)
      /\ \/ /\ full \/ brrt_cnt >= BrrtSize
            /\ Freed(b) /\ UNCHANGED <<brrt, brrt_cnt, chain, broken>>
         \/ /\ ~full /\ brrt_cnt < BrrtSize /\ free = {}
            /\ broken' = TRUE /\ UNCHANGED <<brrt, brrt_cnt, chain, frames>>
         \/ /\ ~full /\ brrt_cnt < BrrtSize /\ free # {}
            /\ brrt' = [brrt EXCEPT ![First(free)] =
                          [used |-> TRUE, buf |-> b, retries |-> 0, iter |-> NextChild(f, 0),
                           acks |-> {}, due |-> FALSE]]
            /\ brrt_cnt' = brrt_cnt + 1
            /\ Move(b, "brrt") /\ alarm' = 0 /\ out_reqs' = out_reqs + 1
            /\ UNCHANGED <<frm, calls, broken>>
      /\ UNCHANGED waits

\* The entries whose next child is the one that made the frame: it is passed over, and the
\* entry left alone in this call.
Skipping == {i \in InBrrt : brrt[i].iter # Done /\ Originator[frm[brrt[i].buf]] = brrt[i].iter}

\* The entry that a call works on, and how: frames never sent come first, then children,
\* then what is due again.  As the search for children stops at the first one, only those
\* before it are passed over.
Fresh    == {i \in InBrrt : brrt[i].retries = 0}
ToChild  == {i \in InBrrt \ Skipping : brrt[i].iter # Done}
Passed   == IF Fresh # {} THEN {} ELSE {i \in Skipping : \A j \in ToChild : i < j}
Again    == {i \in InBrrt : brrt[i].due}
Chosen   == IF Fresh # {} THEN Fresh ELSE IF ToChild # {} THEN ToChild ELSE Again
Unicast  == Fresh = {} /\ ToChild # {}

\* brrt with the iterators of those passed over moved on.
PassedOver ==
  [i \in Slots |-> IF i \in Passed
                   THEN [brrt[i] EXCEPT !.iter = NextChild(frm[brrt[i].buf], @ + 1)]
                   ELSE brrt[i]]

\* Mutant of Sent: the transmissions of a frame are not counted.
Sent_NotCounted(i) ==
  IF Unicast
  THEN [PassedOver[i] EXCEPT !.acks = @ \cup {brrt[i].iter},
                             !.iter = NextChild(frm[brrt[i].buf], @ + 1)]
  ELSE [PassedOver[i] EXCEPT !.due = FALSE]

\* The entry chosen after its transmission.
Sent(i) ==
  IF Unicast
  THEN [PassedOver[i] EXCEPT !.acks = @ \cup {brrt[i].iter},
                             !.iter = NextChild(frm[brrt[i].buf], @ + 1)]
  ELSE [PassedOver[i] EXCEPT !.retries = @ + 1, !.due = FALSE]

\* Whether that was its last one.  The count of acknowledgements is not what is compared:
\* ZB_CALC_NONE_ZERO_BITS_IN_BIT_VECTOR has a variable of the name of its result, and the
\* loop index keeps its value, 0 or, for a frame sent again, one more than the index.
Last(i) ==
  LET count == IF Fresh = {} /\ ~Unicast THEN i + 1 ELSE 0
  IN  /\ Sent(i).iter = Done
      /\ \/ Sent(i).retries >= MaxRetries
         \/ frm[brrt[i].buf] \in Own /\ count = DevNum
         \/ frm[brrt[i].buf] \notin Own /\ DevNum > 0 /\ count = DevNum - 1

\* nwk_broadcast_transmition with no buffer: it asks for one if there is something to send.
\* With nothing to send it is called again by the alarm.
TransmitNoBuf ==
  /\ brrt' = PassedOver
  /\ IF Chosen # {} THEN out_reqs' = out_reqs + 1 ELSE out_reqs' = out_reqs
  /\ UNCHANGED <<brrt_cnt, frames>>

\* Mutant of NextCall: nothing to send now, nothing scheduled.
NextCall_NoAlarm(sent, callsLeft, alarmLeft) ==
  /\ calls' = IF brrt_cnt' # 0 /\ sent THEN callsLeft + 1 ELSE callsLeft
  /\ alarm' = alarmLeft

\* What schedules the next call: sent says that something was sent.
NextCall(sent, callsLeft, alarmLeft) ==
  /\ calls' = IF brrt_cnt' # 0 /\ sent THEN callsLeft + 1 ELSE callsLeft
  /\ alarm' = IF brrt_cnt' # 0 /\ ~sent THEN 1 ELSE alarmLeft

Called ==
  /\ calls > 0
  /\ TransmitNoBuf
  /\ IF Chosen # {} THEN calls' = calls - 1 /\ UNCHANGED alarm
     ELSE NextCall(FALSE, calls - 1, alarm)
  /\ UNCHANGED <<btt, btt_cnt, btt_alarm, waits, broken>>

Alarm ==
  /\ alarm = 1
  /\ TransmitNoBuf
  /\ IF Chosen # {} THEN alarm' = 0 /\ UNCHANGED calls
     ELSE NextCall(FALSE, calls, 0)
  /\ UNCHANGED <<btt, btt_cnt, btt_alarm, waits, broken>>

\* nwk_broadcast_transmition with a buffer: a copy is sent, or at the last time the stored
\* frame itself, whose confirm goes up.
GotBuf ==
  /\ out_reqs > 0 /\ out_reqs' = out_reqs - 1
  /\ IF Chosen = {}
     THEN brrt' = PassedOver /\ UNCHANGED <<brrt_cnt, frames>>
     ELSE LET i == First(Chosen)
          IN  IF Last(i)
              THEN /\ brrt' = [PassedOver EXCEPT ![i] = NoEntry]
                   /\ brrt_cnt' = (brrt_cnt - 1) % 256
                   /\ Move(brrt[i].buf, "last") /\ UNCHANGED frm
              ELSE brrt' = [PassedOver EXCEPT ![i] = Sent(i)] /\ UNCHANGED <<brrt_cnt, frames>>
  /\ NextCall(Chosen # {}, calls, alarm)
  /\ UNCHANGED <<btt, btt_cnt, btt_alarm, waits, broken>>

\* The last transmission of a frame, or zb_nwk_call_br_confirm, ends in its confirm.
Confirm(b) ==
  /\ loc[b] = "last" /\ Freed(b)
  /\ UNCHANGED <<tables, chain, waits, broken>>

\* The time of the next transmission of an entry comes.
Due(i) ==
  /\ brrt[i].used /\ brrt[i].retries > 0 /\ ~brrt[i].due
  /\ brrt' = [brrt EXCEPT ![i].due = TRUE]
  /\ UNCHANGED <<btt, btt_cnt, btt_alarm, brrt_cnt, frames, chain, waits, broken>>

\* zb_nwk_btr_expiry: it stops when btt_cnt is zero.
BtrExpiry ==
  /\ btt_alarm = 1
  /\ IF btt_cnt = 0 THEN btt_alarm' = 0 /\ UNCHANGED <<btt, btt_cnt>>
     ELSE /\ btt' = [f \in Frames |-> IF f \in InBtt THEN btt[f] - 1 ELSE -1]
          /\ btt_cnt' = (btt_cnt - Cardinality({f \in InBtt : btt[f] = 0})) % 256
          /\ UNCHANGED btt_alarm
  /\ UNCHANGED <<brrt, brrt_cnt, frames, chain, waits, broken>>

\* zb_nwk_do_leave: the counters are cleared, the tables are not.
Leave ==
  /\ CanLeave
  /\ btt_cnt' = 0 /\ brrt_cnt' = 0
  /\ UNCHANGED <<btt, btt_alarm, brrt, frames, chain, waits, broken>>

-----------------------------------------------------------------------------
Next ==
  /\ ~broken
  /\ \/ \E b \in Bufs, f \in Own : DataRequest(b, f)
     \/ \E f \in Frames : \E n \in Senders(f) : RecvDropped(f, n)
     \/ \E b \in Bufs, f \in Frames, radius \in BOOLEAN : \E n \in Senders(f) :
          RecvNew(b, f, n, radius)
     \/ \E b \in Bufs : Forward(b) \/ Confirm(b)
     \/ NewBufferAllocated \/ Called \/ Alarm \/ GotBuf \/ BtrExpiry \/ Leave
     \/ \E i \in Slots : Due(i)

\* The scheduler runs callbacks and alarms, buffers come back to the pool in the end, and
\* time passes.
Fairness ==
  /\ \A b \in Bufs : WF_vars(~broken /\ Forward(b)) /\ WF_vars(~broken /\ Confirm(b))
  /\ WF_vars(~broken /\ NewBufferAllocated) /\ WF_vars(~broken /\ Called)
  /\ WF_vars(~broken /\ Alarm) /\ WF_vars(~broken /\ GotBuf)
  /\ \A i \in Slots : WF_vars(~broken /\ Due(i))

Spec == Init /\ [][Next]_vars /\ Fairness

-----------------------------------------------------------------------------
(* Properties. *)

\* Every buffer kept for retransmission is in exactly one entry in use, every one that
\* waits exactly once in wait_alloc, and no other is in either.
OneOwner ==
  \A b \in Bufs :
    /\ Cardinality({i \in InBrrt : brrt[i].buf = b}) = IF loc[b] = "brrt" THEN 1 ELSE 0
    /\ Cardinality({k \in DOMAIN wait_alloc : wait_alloc[k] = b}) =
         IF loc[b] = "wait" THEN 1 ELSE 0

\* While the counters are right, frames to send again keep nwk_broadcast_transmition
\* coming, frames that wait have a buffer coming, and entries of btt their expiry.
ChainsAlive ==
  /\ brrt_cnt = Cardinality(InBrrt) /\ InBrrt # {} => calls + out_reqs + alarm > 0
  /\ wait_alloc # <<>> => in_reqs > 0
  /\ btt_cnt = Cardinality(InBtt) /\ InBtt # {} => btt_alarm = 1

\* What is kept to be sent again is kept once, and something is on its way to send it.
RetransmissionSound == OneOwner /\ ChainsAlive

\* Every broadcast kept for retransmission is confirmed in the end, however the passive
\* acknowledgements, the buffers and the alarms interleave, unless the device left.
BroadcastEnds ==
  \A b \in Bufs : loc[b] # "idle" ~>
    \/ loc[b] = "idle" \/ broken \/ brrt_cnt # Cardinality(InBrrt)

\* "Mark array entry as free and decrements used element counter": the counter counts the
\* entries in use.
CountersRight == brrt_cnt = Cardinality(InBrrt) /\ btt_cnt = Cardinality(InBtt)

\* "schedule buf allocation if necessary": no buffer is asked for that nobody waits for.
AsksIfNecessary == in_reqs <= Len(wait_alloc)

\* "Retransmit broadcast packets ... and unicast broadcast packets to EDs": an entry ends
\* only when there is no child left to send it to.
ChildrenServed ==
  [][\A i \in Slots : brrt[i].used /\ ~brrt'[i].used =>
       NextChild(frm[brrt[i].buf], brrt[i].iter + 1) = Done]_vars
=============================================================================
