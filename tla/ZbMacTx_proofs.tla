--------------------------- MODULE ZbMacTx_proofs ---------------------------
(***************************************************************************)
(* The transmitting side of the MAC for any buffers, devices and sizes of  *)
(* the queues: every buffer is in one place, the pending slots agree with  *)
(* their alarms and with the radio, and what is sent and taken for sent is *)
(* what was meant.                                                         *)
(***************************************************************************)
EXTENDS ZbMacTx, FiniteSetTheorems, FunctionTheorems, SequenceTheorems, WellFoundedInduction,
        TLAPS

Peers == ShortAddrs \cup LongAddrs \cup {NoAddr}
FrameKinds == {"none", "direct", "indirect", "data", "beacon request", "association request",
               "data request", "association response", "success", "failure"}

\* The callbacks of the two queues: only that of a beacon request has no buffer.
TxEntries == [func : {"zb_handle_mcps_data_req", "zb_accept_data_request_cmd"}, param : Bufs]
             \cup [func : {"zb_handle_beacon_req"}, param : {NoBuf}]
CbEntries == [func : {"zb_mlme_command_accept", "zb_handle_data_frame", "zb_mcps_data_indication",
                      "zb_accept_ass_request_cmd", "zb_mlme_associate_indication",
                      "zb_mlme_associate_response", "zb_mlme_comm_status_indication",
                      "zb_mcps_data_confirm"},
              param : Bufs]

Types ==
  /\ mac_tx_q \in Seq(TxEntries) /\ cb_q \in Seq(CbEntries)
  /\ tx_wait_cb \in {"none", "zb_handle_mcps_data_req_continue",
                     "zb_handle_data_request_cmd_continue"}
  /\ tx_cnt \in 0 .. 1 /\ air \in 0 .. 2 /\ overlap \in BOOLEAN /\ raced \in BOOLEAN
  /\ pending_data_queue \in [Slots -> Bufs \cup {NoBuf}]
  /\ data_found_index \in Slots /\ timeouts \subseteq Slots /\ pending_bit \in BOOLEAN
  /\ pool \subseteq Bufs /\ frame \in [Bufs -> [kind : FrameKinds, peer : Peers]]

\* Two frames on the air are known to overlap.
Radio == (air = 2 => overlap) /\ TxDoneIsOwn

\* A callback that waits for the radio has its buffers.
Waits ==
  /\ tx_wait_cb = "zb_handle_mcps_data_req_continue" => tx_wait_cb_arg \in Bufs
  /\ DataRequestInProgress => sent.req \in Bufs /\ sent.data \in Bufs

\* The places buffer b is in.  A data request in progress has the buffer it was started
\* with, wherever pending_buf points.
SlotUses(s, b) == Cardinality({i \in Slots : s[i] = b})
Is(a, b)    == IF a = b THEN 1 ELSE 0
InSet(S, b) == IF b \in S THEN 1 ELSE 0
AtRadio(b)  == IF tx_wait_cb = "zb_handle_mcps_data_req_continue" /\ tx_wait_cb_arg = b
               THEN 1 ELSE 0
AtRequest(b) == IF DataRequestInProgress /\ sent.req = b THEN 1 ELSE 0
Places(b) ==
  Uses(mac_tx_q, b) + Uses(cb_q, b) + SlotUses(pending_data_queue, b)
  + AtRadio(b) + AtRequest(b) + InSet(pool, b) + InSet(lost, b) + InSet(out, b)
OnePlace == \A b \in Bufs : Places(b) = 1

\* A pending frame that expired is reported as a failure, and nobody frees its buffer.
Queued(q, e) == \E k \in DOMAIN q : q[k] = e
GivenUp(b) ==
  \/ b \in lost
  \/ Queued(cb_q, Entry("zb_mlme_comm_status_indication", b)) /\ frame[b].kind = "failure"

\* The frame of a data request in progress is for the device that asked, or it expired
\* meanwhile: its buffer can't come back to the slot as a frame for another device.
Answer ==
  DataRequestInProgress =>
    IF pending_data_queue[data_found_index] = sent.data
    THEN frame[sent.data].peer = frame[sent.req].peer
    ELSE GivenUp(sent.data)

\* The inductive invariant.
IInv ==
  /\ Types /\ Radio /\ SlotsKept
  /\ IF raced THEN ~ContextSafe ELSE OnePlace /\ Waits /\ Answer

-----------------------------------------------------------------------------
\* A set of numbers that is not empty has a first one.
LEMMA FirstOf ==
  ASSUME NEW S \in SUBSET Nat, S # {}
  PROVE  \E k \in S : \A j \in S : k <= j
<1>1. PICK k \in S : \A j \in S : <<j, k>> \notin OpToRel(<, Nat)
  BY NatLessThanWellFounded, WFMin, Zenon
<1>2. ASSUME NEW j \in S PROVE k <= j
  <2>1. <<j, k>> \notin OpToRel(<, Nat)
    BY <1>1
  <2>2. <<j, k>> \in Nat \X Nat
    OBVIOUS
  <2>3. ~ (j < k)
    BY <2>1, <2>2, Zenon DEF OpToRel
  <2> QED
    BY <2>3
<1> QED
  BY <1>2

-----------------------------------------------------------------------------
(* How many entries of a queue and how many slots have a buffer. *)

LEMMA UsesType ==
  ASSUME NEW S, NEW q \in Seq(S), NEW b
  PROVE  /\ Uses(q, b) \in Nat
         /\ \A k \in 1 .. Len(q) : q[k].param = b => Uses(q, b) >= 1
<1> DEFINE U == {k \in DOMAIN q : q[k].param = b}
<1>1. DOMAIN q = 1 .. Len(q) /\ Len(q) \in Nat
  BY LenProperties
<1>2. IsFiniteSet(1 .. Len(q))
  BY <1>1, FS_Interval
<1>3. IsFiniteSet(U)
  BY <1>1, <1>2, FS_Subset
<1>4. Cardinality(U) \in Nat /\ (Cardinality(U) = 0 <=> U = {})
  BY <1>3, FS_CardinalityType, FS_EmptySet
<1>5. ASSUME NEW k \in 1 .. Len(q), q[k].param = b PROVE Cardinality(U) >= 1
  <2>1. U # {}
    BY <1>1, <1>5
  <2> QED
    BY <1>4, <2>1
<1> QED
  BY <1>4, <1>5 DEF Uses

LEMMA UsesAppend ==
  ASSUME NEW S, NEW q \in Seq(S), NEW e \in S, NEW b
  PROVE  Uses(Append(q, e), b) = Uses(q, b) + Is(e.param, b)
<1> DEFINE n == Len(q)
           U == {k \in DOMAIN q : q[k].param = b}
           V == {k \in DOMAIN Append(q, e) : Append(q, e)[k].param = b}
<1>1. /\ n \in Nat /\ DOMAIN q = 1 .. n /\ DOMAIN Append(q, e) = 1 .. n + 1
      /\ \A k \in 1 .. n : Append(q, e)[k] = q[k]
      /\ Append(q, e)[n + 1] = e
  BY AppendProperties, LenProperties
<1>2. IsFiniteSet(1 .. n)
  BY <1>1, FS_Interval
<1>3. IsFiniteSet(U)
  BY <1>1, <1>2, FS_Subset
<1>4. V = IF e.param = b THEN U \cup {n + 1} ELSE U
  BY <1>1
<1>5. n + 1 \notin U
  BY <1>1
<1>6. Cardinality(U) \in Nat /\ Cardinality(U \cup {n + 1}) = Cardinality(U) + 1
  BY <1>3, <1>5, FS_AddElement, FS_CardinalityType
<1>7. Uses(q, b) = Cardinality(U) /\ Uses(Append(q, e), b) = Cardinality(V)
  BY DEF Uses
<1> HIDE DEF U, V
<1> QED
  BY <1>4, <1>6, <1>7 DEF Is, InSet

LEMMA UsesTail ==
  ASSUME NEW S, NEW q \in Seq(S), q # << >>, NEW b
  PROVE  Uses(q, b) = Uses(Tail(q), b) + Is(Head(q).param, b)
<1> DEFINE n == Len(q)
           U == {k \in 1 .. n : q[k].param = b}
           V == {k \in 1 .. n - 1 : Tail(q)[k].param = b}
           f == [k \in V |-> k + 1]
<1>1. /\ n \in Nat /\ n > 0 /\ DOMAIN q = 1 .. n /\ DOMAIN Tail(q) = 1 .. n - 1
      /\ \A k \in 1 .. n - 1 : Tail(q)[k] = q[k + 1]
      /\ Head(q) = q[1]
  BY HeadTailProperties, LenProperties, EmptySeq
<1>2. f \in Bijection(V, U \ {1})
  <2>1. f \in [V -> U \ {1}]
    BY <1>1
  <2>2. \A x, y \in V : f[x] = f[y] => x = y
    BY <1>1
  <2>3. \A u \in U \ {1} : \E v \in V : f[v] = u
    <3> SUFFICES ASSUME NEW u \in U \ {1} PROVE u - 1 \in V /\ f[u - 1] = u
      OBVIOUS
    <3>1. u - 1 \in 1 .. n - 1 /\ u = (u - 1) + 1
      BY <1>1
    <3> QED
      BY <1>1, <3>1
  <2> QED
    BY <2>1, <2>2, <2>3, Fun_IsBij
<1>3. IsFiniteSet(1 .. n) /\ IsFiniteSet(1 .. n - 1)
  BY <1>1, FS_Interval
<1>4. IsFiniteSet(U) /\ IsFiniteSet(V)
  BY <1>3, FS_Subset
<1>5. ExistsBijection(V, U \ {1})
  BY <1>2 DEF ExistsBijection
<1>6. Cardinality(V) = Cardinality(U \ {1})
  BY <1>4, <1>5, FS_Bijection
<1>7. Cardinality(U) \in Nat
      /\ Cardinality(U \ {1}) = IF 1 \in U THEN Cardinality(U) - 1 ELSE Cardinality(U)
  BY <1>4, FS_RemoveElement, FS_CardinalityType
<1>8. 1 \in U <=> Head(q).param = b
  BY <1>1
<1>9. Uses(q, b) = Cardinality(U) /\ Uses(Tail(q), b) = Cardinality(V)
  BY <1>1 DEF Uses
<1> HIDE DEF U, V
<1> QED
  BY <1>6, <1>7, <1>8, <1>9 DEF Is, InSet

\* The queue after a callback was taken out and at most one was scheduled.
LEMMA CalledQueue ==
  ASSUME NEW S, NEW q \in Seq(S), q # << >>
  PROVE  /\ Head(q) \in S /\ Tail(q) \o << >> = Tail(q) /\ Tail(q) \in Seq(S)
         /\ \A e \in S : Tail(q) \o <<e>> = Append(Tail(q), e)
<1>1. Head(q) \in S /\ Tail(q) \in Seq(S)
  BY HeadTailProperties
<1>2. Tail(q) \o << >> = Tail(q)
  BY <1>1, ConcatEmptySeq
<1> QED
  BY <1>1, <1>2, AppendIsConcat

\* A slot is given another value.
LEMMA SlotPut ==
  ASSUME NEW s \in [Slots -> Bufs \cup {NoBuf}], NEW i \in Slots, NEW c \in Bufs \cup {NoBuf},
         NEW b \in Bufs
  PROVE  SlotUses([s EXCEPT ![i] = c], b) + Is(s[i], b) = SlotUses(s, b) + Is(c, b)
<1> DEFINE U == {j \in Slots : s[j] = b}
           V == {j \in Slots : [s EXCEPT ![i] = c][j] = b}
<1>1. IsFiniteSet(Slots)
  BY MacTxAssumption, FS_Interval DEF Slots
<1>2. IsFiniteSet(U)
  BY <1>1, FS_Subset
<1>3. V = IF c = b THEN U \cup {i} ELSE U \ {i}
  OBVIOUS
<1>4. i \in U <=> s[i] = b
  OBVIOUS
<1>5. /\ Cardinality(U) \in Nat
      /\ Cardinality(U \cup {i}) = IF i \in U THEN Cardinality(U) ELSE Cardinality(U) + 1
      /\ Cardinality(U \ {i}) = IF i \in U THEN Cardinality(U) - 1 ELSE Cardinality(U)
  BY <1>2, FS_AddElement, FS_RemoveElement, FS_CardinalityType
<1>6. SlotUses(s, b) = Cardinality(U) /\ SlotUses([s EXCEPT ![i] = c], b) = Cardinality(V)
  BY DEF SlotUses
<1> HIDE DEF U, V
<1> QED
  BY <1>3, <1>4, <1>5, <1>6 DEF Is, InSet

LEMMA SlotUsesType ==
  ASSUME NEW s, NEW b
  PROVE  SlotUses(s, b) \in Nat /\ \A i \in Slots : s[i] = b => SlotUses(s, b) >= 1
<1> DEFINE U == {j \in Slots : s[j] = b}
<1>1. IsFiniteSet(Slots)
  BY MacTxAssumption, FS_Interval DEF Slots
<1>2. IsFiniteSet(U)
  BY <1>1, FS_Subset
<1>3. Cardinality(U) \in Nat /\ (Cardinality(U) = 0 <=> U = {})
  BY <1>2, FS_CardinalityType, FS_EmptySet
<1>4. ASSUME NEW i \in Slots, s[i] = b PROVE Cardinality(U) >= 1
  <2>1. U # {}
    BY <1>4
  <2> QED
    BY <1>3, <2>1
<1> QED
  BY <1>3, <1>4 DEF SlotUses

-----------------------------------------------------------------------------
(* What the handlers do to the queues. *)

CbFuncs == {"zb_mlme_command_accept", "zb_handle_data_frame", "zb_mcps_data_indication",
            "zb_accept_ass_request_cmd", "zb_mlme_associate_indication",
            "zb_mlme_associate_response", "zb_mlme_comm_status_indication",
            "zb_mcps_data_confirm"}
TxFuncs == {"zb_handle_mcps_data_req", "zb_accept_data_request_cmd"}

LEMMA EntryIn ==
  /\ \A f \in CbFuncs, b \in Bufs : Entry(f, b) \in CbEntries /\ Entry(f, b).param = b
  /\ \A f \in TxFuncs, b \in Bufs : Entry(f, b) \in TxEntries /\ Entry(f, b).param = b
  /\ /\ Entry("zb_handle_beacon_req", NoBuf) \in TxEntries
     /\ Entry("zb_handle_beacon_req", NoBuf).param = NoBuf
BY DEF Entry, CbEntries, TxEntries, CbFuncs, TxFuncs

\* The callback at the head of cb_q is called, and schedules another or none.
LEMMA CbCalled ==
  ASSUME Types, cb_q # << >>
  PROVE  /\ Head(cb_q) \in CbEntries /\ Param \in Bufs /\ Tail(cb_q) \in Seq(CbEntries)
         /\ Called(<< >>) =>
              /\ cb_q' = Tail(cb_q) /\ cb_q' \in Seq(CbEntries)
              /\ \A c : Uses(cb_q, c) = Uses(cb_q', c) + Is(Param, c)
         /\ \A f \in CbFuncs, b \in Bufs : Called(<<Entry(f, b)>>) =>
              /\ cb_q' = Append(Tail(cb_q), Entry(f, b)) /\ cb_q' \in Seq(CbEntries)
              /\ \A c : Uses(cb_q, c) + Is(b, c) = Uses(cb_q', c) + Is(Param, c)
<1>1. cb_q \in Seq(CbEntries)
  BY DEF Types
<1>2. /\ Head(cb_q) \in CbEntries /\ Tail(cb_q) \o << >> = Tail(cb_q)
      /\ Tail(cb_q) \in Seq(CbEntries)
      /\ \A e \in CbEntries : Tail(cb_q) \o <<e>> = Append(Tail(cb_q), e)
  BY <1>1, CalledQueue
<1>3. Param \in Bufs
  BY <1>2 DEF Param, CbEntries
<1>4. \A c : Uses(cb_q, c) = Uses(Tail(cb_q), c) + Is(Param, c)
  BY <1>1, UsesTail DEF Param
<1>5. ASSUME NEW f \in CbFuncs, NEW b \in Bufs, Called(<<Entry(f, b)>>)
      PROVE  /\ cb_q' = Append(Tail(cb_q), Entry(f, b)) /\ cb_q' \in Seq(CbEntries)
             /\ \A c : Uses(cb_q, c) + Is(b, c) = Uses(cb_q', c) + Is(Param, c)
  <2>1. Entry(f, b) \in CbEntries /\ Entry(f, b).param = b
    BY EntryIn
  <2>2. cb_q' = Append(Tail(cb_q), Entry(f, b))
    BY <1>2, <1>5, <2>1 DEF Called
  <2>3. cb_q' \in Seq(CbEntries)
    BY <1>2, <2>1, <2>2, AppendProperties
  <2>4. ASSUME NEW c PROVE Uses(cb_q, c) + Is(b, c) = Uses(cb_q', c) + Is(Param, c)
    <3>1. Uses(cb_q', c) = Uses(Tail(cb_q), c) + Is(b, c)
      <4>1. \A q \in Seq(CbEntries), e \in CbEntries :
              Uses(Append(q, e), c) = Uses(q, c) + Is(e.param, c)
        BY UsesAppend
      <4>2. Uses(cb_q', c) = Uses(Tail(cb_q), c) + Is(Entry(f, b).param, c)
        BY <1>2, <2>1, <2>2, <4>1
      <4> QED
        BY <2>1, <4>2
    <3>2. Uses(Tail(cb_q), c) \in Nat
      BY <1>2, UsesType
    <3> QED
      BY <1>4, <3>1, <3>2 DEF Is, InSet
  <2> QED
    BY <2>2, <2>3, <2>4
<1>6. ASSUME Called(<< >>)
      PROVE  /\ cb_q' = Tail(cb_q) /\ cb_q' \in Seq(CbEntries)
             /\ \A c : Uses(cb_q, c) = Uses(cb_q', c) + Is(Param, c)
  <2>1. cb_q' = Tail(cb_q)
    BY <1>2, <1>6 DEF Called
  <2> QED
    BY <1>2, <1>4, <2>1
<1> QED
  BY <1>2, <1>3, <1>5, <1>6

\* A callback is added.
LEMMA CbAdded ==
  ASSUME Types, NEW f \in CbFuncs, NEW b \in Bufs, cb_q' = Append(cb_q, Entry(f, b))
  PROVE  /\ cb_q' \in Seq(CbEntries)
         /\ \A c : Uses(cb_q', c) = Uses(cb_q, c) + Is(b, c)
<1>1. cb_q \in Seq(CbEntries)
  BY DEF Types
<1>2. Entry(f, b) \in CbEntries /\ Entry(f, b).param = b
  BY EntryIn
<1>3. cb_q' \in Seq(CbEntries)
  BY <1>1, <1>2, AppendProperties
<1> QED
  BY <1>1, <1>2, <1>3, UsesAppend

\* The MAC takes the entry at the head of mac_tx_q.
LEMMA TxTaken ==
  ASSUME Types, mac_tx_q # << >>, mac_tx_q' = Tail(mac_tx_q)
  PROVE  /\ mac_tx_q' \in Seq(TxEntries)
         /\ Head(mac_tx_q).func \in TxFuncs => TxParam \in Bufs
         /\ Head(mac_tx_q).func = "zb_handle_beacon_req" => TxParam = NoBuf
         /\ \A c : Uses(mac_tx_q, c) = Uses(mac_tx_q', c) + Is(TxParam, c)
<1>1. mac_tx_q \in Seq(TxEntries)
  BY DEF Types
<1>2. Head(mac_tx_q) \in TxEntries /\ Tail(mac_tx_q) \in Seq(TxEntries)
  BY <1>1, HeadTailProperties
<1>3. \A c : Uses(mac_tx_q, c) = Uses(Tail(mac_tx_q), c) + Is(TxParam, c)
  BY <1>1, UsesTail DEF TxParam
<1> QED
  BY <1>2, <1>3 DEF TxEntries, TxFuncs, TxParam

\* ZB_SCHEDULE_TX_CB: the buffer is in the queue, or lost.
LEMMA TxScheduled ==
  ASSUME Types, NEW f, NEW b, Entry(f, b) \in TxEntries, zb_schedule_tx_cb(f, b)
  PROVE  /\ mac_tx_q' \in Seq(TxEntries)
         /\ lost \subseteq lost'
         /\ \A c \in Bufs : (b = c => c \notin lost) =>
              Uses(mac_tx_q', c) + InSet(lost', c) = Uses(mac_tx_q, c) + InSet(lost, c) + Is(b, c)
<1>1. mac_tx_q \in Seq(TxEntries) /\ Entry(f, b).param = b
  BY DEF Types, Entry
<1>2. CASE Len(mac_tx_q) < TxQSize
  <2>1. mac_tx_q' = Append(mac_tx_q, Entry(f, b)) /\ lost' = lost
    BY <1>2 DEF zb_schedule_tx_cb
  <2>2. \A c : Uses(mac_tx_q', c) = Uses(mac_tx_q, c) + Is(b, c)
    BY <1>1, <2>1, UsesAppend
  <2>3. mac_tx_q' \in Seq(TxEntries)
    BY <1>1, <2>1, AppendProperties
  <2>4. \A c : Uses(mac_tx_q, c) \in Nat
    BY <1>1, UsesType
  <2> QED
    BY <2>1, <2>2, <2>3, <2>4 DEF Is, InSet
<1>3. CASE ~ (Len(mac_tx_q) < TxQSize)
  <2>1. mac_tx_q' = mac_tx_q /\ lost' = lost \cup ({b} \ {NoBuf})
    BY <1>3 DEF zb_schedule_tx_cb
  <2>2. \A c : Uses(mac_tx_q, c) \in Nat
    BY <1>1, UsesType
  <2> QED
    BY <1>1, <2>1, <2>2, MacTxAssumption DEF Is, InSet
<1> QED
  BY <1>2, <1>3

-----------------------------------------------------------------------------
(* The types, the radio and the slots. *)

FrameType == [kind : FrameKinds, peer : Peers]

LEMMA FramesAreTyped ==
  /\ Requests \subseteq FrameType /\ Received \subseteq FrameType
  /\ NoFrame \in FrameType
  /\ \A k \in FrameKinds : [kind |-> k, peer |-> NoAddr] \in FrameType
  /\ \A fr \in FrameType, k \in FrameKinds : [kind |-> k, peer |-> fr.peer] \in FrameType
BY DEF Requests, Received, NoFrame, FrameType, FrameKinds, Peers

\* A slot is cleared, or the first free one is filled.
LEMMA Cleared ==
  ASSUME Types, SlotsKept, NEW i \in Slots, ClearSlot(i)
  PROVE  /\ pending_data_queue' = [pending_data_queue EXCEPT ![i] = NoBuf]
         /\ pending_data_queue' \in [Slots -> Bufs \cup {NoBuf}]
         /\ timeouts' \subseteq Slots /\ pending_bit' \in BOOLEAN /\ SlotsKept'
<1>1. /\ pending_data_queue \in [Slots -> Bufs \cup {NoBuf}] /\ timeouts = Full
      /\ pending_bit \in BOOLEAN /\ pending_bit <=> Full # {}
  BY DEF Types, SlotsKept, TimeoutPerSlot, PendingBitRight
<1>2. /\ pending_data_queue' = [pending_data_queue EXCEPT ![i] = NoBuf]
      /\ timeouts' = Full \ {i}
      /\ pending_bit' = (pending_bit /\ Full # {i})
  BY <1>1 DEF ClearSlot
<1>3. Full' = Full \ {i}
  BY <1>1, <1>2 DEF Full
<1>4. Full \subseteq Slots
  BY DEF Full
<1>5. pending_bit' <=> Full' # {}
  BY <1>1, <1>2, <1>3
<1> QED
  BY <1>1, <1>2, <1>3, <1>4, <1>5 DEF SlotsKept, TimeoutPerSlot, PendingBitRight

LEMMA Put ==
  ASSUME Types, SlotsKept, NEW b \in Bufs, PutPending(b)
  PROVE  \E i \in Slots :
           /\ pending_data_queue[i] = NoBuf
           /\ pending_data_queue' = [pending_data_queue EXCEPT ![i] = b]
           /\ pending_data_queue' \in [Slots -> Bufs \cup {NoBuf}]
           /\ timeouts' \subseteq Slots /\ pending_bit' \in BOOLEAN /\ SlotsKept'
<1> DEFINE S == Slots \ Full
<1>1. /\ pending_data_queue \in [Slots -> Bufs \cup {NoBuf}] /\ timeouts = Full
      /\ Full \subseteq Slots
  BY DEF Types, SlotsKept, TimeoutPerSlot, Full
<1>2. PICK i \in S : i = CHOOSE k \in S : \A j \in S : k <= j
  <2>1. S # {} /\ S \subseteq Nat
    <3>1. Full # Slots
      BY Zenon DEF PutPending
    <3>2. Slots \subseteq Nat
      BY MacTxAssumption DEF Slots
    <3>3. S # {}
      BY <1>1, <3>1
    <3> QED
      BY <3>2, <3>3
  <2>2. \E k \in S : \A j \in S : k <= j
    BY <2>1, FirstOf
  <2> QED
    BY <2>2
<1>3. /\ pending_bit' = TRUE /\ pending_data_queue' = [pending_data_queue EXCEPT ![i] = b]
      /\ timeouts' = Full \cup {i}
  BY <1>1, <1>2 DEF PutPending
<1>4. i \in Slots /\ pending_data_queue[i] = NoBuf
  BY <1>2 DEF Full
<1>5. Full' = Full \cup {i}
  BY <1>1, <1>3, <1>4, MacTxAssumption DEF Full
<1> QED
  BY <1>1, <1>3, <1>4, <1>5 DEF SlotsKept, TimeoutPerSlot, PendingBitRight

LEMMA PutUses ==
  ASSUME Types, SlotsKept, NEW b \in Bufs, PutPending(b), NEW c \in Bufs
  PROVE  SlotUses(pending_data_queue', c) = SlotUses(pending_data_queue, c) + Is(b, c)
<1>1. PICK i \in Slots : /\ pending_data_queue[i] = NoBuf
                         /\ pending_data_queue' = [pending_data_queue EXCEPT ![i] = b]
  BY Put
<1>2. pending_data_queue \in [Slots -> Bufs \cup {NoBuf}]
  BY DEF Types
<1>3. SlotUses(pending_data_queue', c) + Is(NoBuf, c) = SlotUses(pending_data_queue, c) + Is(b, c)
  <2>1. SlotUses([pending_data_queue EXCEPT ![i] = b], c) + Is(pending_data_queue[i], c)
          = SlotUses(pending_data_queue, c) + Is(b, c)
    <3>1. b \in Bufs \cup {NoBuf}
      OBVIOUS
    <3> QED
      BY <1>2, <3>1, SlotPut
  <2> QED
    BY <1>1, <2>1
<1>4. Is(NoBuf, c) = 0
  BY MacTxAssumption DEF Is
<1>5. SlotUses(pending_data_queue', c) \in Nat
  BY SlotUsesType
<1> QED
  BY <1>3, <1>4, <1>5

LEMMA NotPut ==
  ASSUME Types, SlotsKept, PutPendingOverflow
  PROVE  /\ UNCHANGED <<pending_data_queue, timeouts>> /\ pending_bit' \in BOOLEAN /\ SlotsKept'
<1>1. 1 \in Slots
  BY MacTxAssumption DEF Slots
<1> QED
  BY <1>1 DEF PutPendingOverflow, SlotsKept, TimeoutPerSlot, PendingBitRight, Full

\* The slot check_pending_data finds first.
LEMMA FoundFirst ==
  ASSUME NEW a, check_pending_data(a) # {}
  PROVE  LET found == check_pending_data(a)
         IN  (CHOOSE i \in found : \A j \in found : i <= j) \in found
<1>1. check_pending_data(a) \subseteq Nat
  BY MacTxAssumption DEF check_pending_data, Full, Slots
<1>2. \E i \in check_pending_data(a) : \A j \in check_pending_data(a) : i <= j
  BY <1>1, FirstOf
<1> QED
  BY <1>2

\* The entry a handler is called with.
LEMMA Handled ==
  ASSUME Types, NEW f, Head_is(f)
  PROVE  cb_q # << >> /\ Param \in Bufs /\ Head(cb_q) = Entry(f, Param)
<1>1. cb_q # << >> /\ Head(cb_q).func = f
  BY DEF Head_is
<1>2. Head(cb_q) \in CbEntries /\ Param \in Bufs
  BY <1>1, CbCalled
<1>3. \A e \in CbEntries : e = [func |-> e.func, param |-> e.param]
  BY DEF CbEntries
<1> QED
  BY <1>1, <1>2, <1>3 DEF Entry, Param

LEMMA TypesKept ==
  ASSUME Types, SlotsKept, ~raced => Waits, Next
  PROVE  Types' /\ SlotsKept'
<1>1. /\ mac_tx_q \in Seq(TxEntries) /\ cb_q \in Seq(CbEntries)
      /\ pending_data_queue \in [Slots -> Bufs \cup {NoBuf}]
      /\ pool \subseteq Bufs /\ frame \in [Bufs -> FrameType]
  BY DEF Types, FrameType
<1>2. /\ \A b \in Bufs, fr \in FrameType : [frame EXCEPT ![b] = fr] \in [Bufs -> FrameType]
      /\ NoFrame \in FrameType
  BY <1>1, FramesAreTyped
<1>3. ASSUME NEW fr \in Requests, McpsDataRequest(fr) PROVE Types' /\ SlotsKept'
  <2>1. PICK b \in Bufs : b = FreeBuf
    BY <1>1, <1>3 DEF McpsDataRequest, FreeBuf
  <2>2. /\ frame' = [frame EXCEPT ![b] = fr] /\ pool' \subseteq Bufs
        /\ zb_schedule_tx_cb("zb_handle_mcps_data_req", b)
        /\ UNCHANGED <<txVars, radioVars, slotVars, cb_q>>
    BY <1>1, <1>3, <2>1 DEF McpsDataRequest, Alloc
  <2>3. mac_tx_q' \in Seq(TxEntries)
    BY <2>2, EntryIn, TxScheduled DEF TxFuncs
  <2>4. frame' \in [Bufs -> FrameType]
    BY <1>2, <2>2, FramesAreTyped
  <2> QED
    BY <2>2, <2>3, <2>4 DEF Types, txVars, radioVars, slotVars, FrameType, SlotsKept,
       TimeoutPerSlot, PendingBitRight, Full
<1>4. ASSUME NEW fr \in Received, ReceiveFrame(fr) PROVE Types' /\ SlotsKept'
  <2>1. PICK b \in Bufs : b = FreeBuf
    BY <1>1, <1>4 DEF ReceiveFrame, FreeBuf
  <2>2. PICK f \in CbFuncs : cb_q' = Append(cb_q, Entry(f, b))
    BY <1>4, <2>1 DEF ReceiveFrame, CbFuncs
  <2>3. /\ frame' = [frame EXCEPT ![b] = fr] /\ pool' \subseteq Bufs
        /\ UNCHANGED <<mac_tx_q, txVars, radioVars, slotVars>>
    BY <1>1, <1>4, <2>1 DEF ReceiveFrame, Alloc
  <2>4. cb_q' \in Seq(CbEntries)
    BY <2>2, CbAdded
  <2>5. frame' \in [Bufs -> FrameType]
    BY <1>2, <2>3, FramesAreTyped
  <2> QED
    BY <2>3, <2>4, <2>5 DEF Types, txVars, radioVars, slotVars, FrameType, SlotsKept,
       TimeoutPerSlot, PendingBitRight, Full
<1>5. CASE RunCallback
  <2>1. PICK f \in CbFuncs : Head_is(f)
    BY <1>5 DEF RunCallback, CommandAccept, HandleDataFrame, AcceptAssRequest,
       AssociateIndication, AssociateResponse, DataConfirmOrIndication, CommStatusIndication,
       CbFuncs
  <2>2. cb_q # << >> /\ Param \in Bufs
    BY <2>1, Handled
  <2>3. \E q \in {<< >>} \cup {<<Entry(g, Param)>> : g \in CbFuncs} : Called(q)
    BY <1>5 DEF RunCallback, CommandAccept, HandleDataFrame, AcceptAssRequest,
       AssociateIndication, AssociateResponse, DataConfirmOrIndication, CommStatusIndication,
       CbFuncs
  <2>4. cb_q' \in Seq(CbEntries)
    BY <2>2, <2>3, CbCalled
  <2>5. UNCHANGED <<txVars, radioVars>>
    BY <1>5 DEF RunCallback, CommandAccept, HandleDataFrame, AcceptAssRequest,
       AssociateIndication, AssociateResponse, DataConfirmOrIndication, CommStatusIndication
  <2>6. /\ pending_data_queue' \in [Slots -> Bufs \cup {NoBuf}] /\ timeouts' \subseteq Slots
        /\ pending_bit' \in BOOLEAN /\ SlotsKept'
    <3>1. CASE UNCHANGED slotVars
      BY <3>1 DEF Types, slotVars, SlotsKept, TimeoutPerSlot, PendingBitRight, Full
    <3>2. CASE ~ UNCHANGED slotVars
      <4>1. PutPending(Param) \/ PutPendingOverflow
        BY <1>5, <3>2 DEF RunCallback, CommandAccept, HandleDataFrame, AcceptAssRequest,
           AssociateIndication, AssociateResponse, DataConfirmOrIndication,
           CommStatusIndication
      <4>2. CASE PutPending(Param)
        BY <2>2, <4>2, Put
      <4>3. CASE PutPendingOverflow
        BY <1>1, <4>3, NotPut DEF Types
      <4> QED
        BY <4>1, <4>2, <4>3
    <3> QED
      BY <3>1, <3>2
  <2>7. mac_tx_q' \in Seq(TxEntries)
    <3>1. CASE mac_tx_q' = mac_tx_q
      BY <1>1, <3>1
    <3>2. CASE \/ zb_schedule_tx_cb("zb_handle_beacon_req", NoBuf)
               \/ zb_schedule_tx_cb("zb_accept_data_request_cmd", Param)
      BY <2>2, <3>2, EntryIn, TxScheduled DEF TxFuncs
    <3> QED
      BY <1>5, <3>1, <3>2 DEF RunCallback, CommandAccept, HandleDataFrame, AcceptAssRequest,
         AssociateIndication, AssociateResponse, DataConfirmOrIndication, CommStatusIndication
  <2>8. pool' \subseteq Bufs /\ frame' \in [Bufs -> FrameType]
    <3>1. CASE UNCHANGED <<pool, frame>>
      BY <1>1, <3>1
    <3>2. CASE Free(Param)
      BY <1>1, <1>2, <2>2, <3>2 DEF Free
    <3>3. CASE AssociateResponse
      <4>1. PICK fr \in FrameType : Fill(Param, fr)
        <5>1. frame[Param] \in FrameType
          BY <1>1, <2>2
        <5> QED
          BY <3>3, <5>1, FramesAreTyped DEF AssociateResponse, FrameKinds
      <4> QED
        BY <1>1, <1>2, <2>2, <4>1 DEF Fill
    <3> QED
      BY <1>5, <3>1, <3>2, <3>3 DEF RunCallback, CommandAccept, HandleDataFrame,
         AcceptAssRequest, AssociateIndication, DataConfirmOrIndication,
         CommStatusIndication, bufVars
  <2> QED
    BY <2>4, <2>5, <2>6, <2>7, <2>8 DEF Types, txVars, radioVars, FrameType
<1>6. ASSUME NEW i \in Slots, PendingDataTimeout(i) PROVE Types' /\ SlotsKept'
  <2>1. PICK b \in Bufs : b = pending_data_queue[i]
    BY <1>1, <1>6 DEF PendingDataTimeout, SlotsKept, TimeoutPerSlot, Full
  <2>2. /\ Fill(b, [kind |-> "failure", peer |-> NoAddr]) /\ ClearSlot(i)
        /\ cb_q' = Append(cb_q, Entry("zb_mlme_comm_status_indication", b))
        /\ UNCHANGED <<mac_tx_q, txVars, radioVars>>
    BY <1>6, <2>1 DEF PendingDataTimeout
  <2>3. cb_q' \in Seq(CbEntries)
    BY <2>2, CbAdded DEF CbFuncs
  <2>4. frame' \in [Bufs -> FrameType] /\ pool' \subseteq Bufs
    BY <1>1, <1>2, <2>2, FramesAreTyped DEF Fill, FrameKinds
  <2> QED
    BY <2>2, <2>3, <2>4, Cleared DEF Types, txVars, radioVars, FrameType
<1>7. ASSUME mac_tx_q # << >>, mac_tx_q' = Tail(mac_tx_q),
             HandleMcpsDataReq \/ AcceptDataRequest \/ HandleBeaconReq
      PROVE  Types' /\ SlotsKept'
  <2>1. mac_tx_q' \in Seq(TxEntries)
    BY <1>7, TxTaken
  <2>2. CASE HandleMcpsDataReq
    <3>1. TxParam \in Bufs
      BY <1>7, <2>2, TxTaken DEF HandleMcpsDataReq, TxEntry, TxFuncs
    <3>2. /\ pending_data_queue' \in [Slots -> Bufs \cup {NoBuf}] /\ timeouts' \subseteq Slots
          /\ pending_bit' \in BOOLEAN /\ SlotsKept'
      <4>1. CASE UNCHANGED slotVars
        BY <4>1 DEF Types, slotVars, SlotsKept, TimeoutPerSlot, PendingBitRight, Full
      <4>2. CASE PutPending(TxParam)
        BY <3>1, <4>2, Put
      <4>3. CASE PutPendingOverflow
        BY <1>1, <4>3, NotPut DEF Types
      <4> QED
        BY <2>2, <4>1, <4>2, <4>3 DEF HandleMcpsDataReq
    <3>3. /\ tx_wait_cb' \in {"none", "zb_handle_mcps_data_req_continue",
                              "zb_handle_data_request_cmd_continue"}
          /\ tx_cnt' \in 0 .. 1 /\ air' \in 0 .. 2 /\ overlap' \in BOOLEAN
      <4>1. CASE tx_wait_cb' = "zb_handle_mcps_data_req_continue" /\ TransSendCommand
        BY <4>1 DEF TransSendCommand, Types
      <4>2. CASE UNCHANGED <<tx_wait_cb, radioVars>>
        BY <4>2 DEF radioVars, Types
      <4> QED
        BY <2>2, <4>1, <4>2 DEF HandleMcpsDataReq
    <3> QED
      BY <2>1, <2>2, <3>2, <3>3 DEF HandleMcpsDataReq, Types
  <2>3. CASE AcceptDataRequest
    <3>1. TxParam \in Bufs
      BY <1>7, <2>3, TxTaken DEF AcceptDataRequest, TxEntry, TxFuncs
    <3>2. /\ tx_wait_cb' \in {"none", "zb_handle_mcps_data_req_continue",
                              "zb_handle_data_request_cmd_continue"}
          /\ tx_cnt' \in 0 .. 1 /\ air' \in 0 .. 2 /\ overlap' \in BOOLEAN
          /\ pool' \subseteq Bufs /\ frame' \in [Bufs -> FrameType]
          /\ data_found_index' \in Slots
          /\ UNCHANGED <<raced, slotVars, cb_q>>
      <4>1. CASE check_pending_data(frame[TxParam].peer) # {}
        <5>1. PICK i \in check_pending_data(frame[TxParam].peer) : data_found_index' = i
          BY <2>3, <4>1, FoundFirst DEF AcceptDataRequest
        <5>2. /\ tx_wait_cb' = "zb_handle_data_request_cmd_continue"
              /\ TransSendCommand \/ UNCHANGED radioVars
              /\ UNCHANGED <<pool, frame, raced, slotVars, cb_q>>
          BY <2>3, <4>1, Zenon DEF AcceptDataRequest, SendPending
        <5>3. i \in Slots
          BY DEF check_pending_data, Full
        <5> QED
          <6>1. CASE TransSendCommand
            BY <1>1, <5>1, <5>2, <5>3, <6>1 DEF TransSendCommand, Types
          <6>2. CASE UNCHANGED radioVars
            BY <1>1, <5>1, <5>2, <5>3, <6>2 DEF radioVars, Types
          <6> QED
            BY <5>2, <6>1, <6>2
      <4>2. CASE check_pending_data(frame[TxParam].peer) = {}
        <5>1. Free(TxParam) /\ UNCHANGED <<data_found_index, tx_wait_cb, radioVars, raced, slotVars, cb_q>>
          BY <2>3, <4>2, Zenon DEF AcceptDataRequest
        <5> QED
          BY <1>1, <1>2, <3>1, <5>1 DEF Free, radioVars, Types
      <4> QED
        BY <4>1, <4>2
    <3> QED
      BY <2>1, <3>2 DEF Types, slotVars, FrameType, SlotsKept, TimeoutPerSlot, PendingBitRight, Full
  <2>4. CASE HandleBeaconReq
    BY <2>1, <2>4 DEF HandleBeaconReq, Types, TransSendCommand, txVars, slotVars, bufVars,
       SlotsKept, TimeoutPerSlot, PendingBitRight, Full
  <2> QED
    BY <1>7, <2>2, <2>3, <2>4
<1>8. CASE McpsDataReqContinue
  <2>1. PICK b \in Bufs : b = tx_wait_cb_arg
    BY <1>8 DEF McpsDataReqContinue, TxWaited, Waits
  <2>2. cb_q' = Append(cb_q, Entry("zb_mcps_data_confirm", b)) /\ TxComplete
        /\ UNCHANGED <<slotVars, pool, frame>>
    BY <1>8, <2>1 DEF McpsDataReqContinue
  <2>3. cb_q' \in Seq(CbEntries)
    BY <2>2, CbAdded DEF CbFuncs
  <2>4. 1 \in Slots
    BY MacTxAssumption DEF Slots
  <2> QED
    BY <2>2, <2>3, <2>4 DEF TxComplete, Types, slotVars, SlotsKept, TimeoutPerSlot,
       PendingBitRight, Full
<1>9. CASE DataRequestContinue
  <2>1. PICK r, d \in Bufs : r = sent.req /\ d = sent.data
    BY <1>9 DEF DataRequestContinue, TxWaited, Waits, DataRequestInProgress
  <2>2. TxComplete /\ ClearSlot(data_found_index) /\ data_found_index \in Slots
    BY <1>9 DEF DataRequestContinue, Types
  <2>3. 1 \in Slots
    BY MacTxAssumption DEF Slots
  <2>4. PICK f \in CbFuncs, b \in Bufs : cb_q' = Append(cb_q, Entry(f, b))
    BY <1>9, <2>1 DEF DataRequestContinue, CbFuncs
  <2>5. cb_q' \in Seq(CbEntries)
    BY <2>4, CbAdded
  <2>6. pool' \subseteq Bufs /\ frame' \in [Bufs -> FrameType]
    <3>1. CASE Free(r)
      BY <1>1, <1>2, <3>1 DEF Free
    <3>2. CASE /\ pool' = pool \cup {d}
               /\ \E status \in {"success", "failure"} :
                    frame' = [frame EXCEPT ![d] = NoFrame,
                                           ![r] = [kind |-> status, peer |-> NoAddr]]
      <4>1. PICK fr \in FrameType : frame' = [frame EXCEPT ![d] = NoFrame, ![r] = fr]
        BY <3>2, FramesAreTyped DEF FrameKinds
      <4> QED
        BY <1>1, <1>2, <3>2, <4>1
    <3> QED
      BY <1>9, <2>1, <3>1, <3>2 DEF DataRequestContinue
  <2> QED
    BY <2>2, <2>3, <2>5, <2>6, Cleared DEF TxComplete, Types, FrameType
<1>10. CASE DataRequestContinueRaced
  BY <1>10 DEF DataRequestContinueRaced, Types, radioVars, slotVars, bufVars, SlotsKept,
     TimeoutPerSlot, PendingBitRight, Full
<1>11. CASE TxInterrupt
  BY <1>11 DEF TxInterrupt, Types, txVars, slotVars, bufVars, SlotsKept, TimeoutPerSlot,
     PendingBitRight, Full
<1>12. CASE MacMainLoopTx
  BY <1>7, <1>8, <1>9, <1>10, <1>12 DEF MacMainLoopTx, HandleMcpsDataReq, AcceptDataRequest,
     HandleBeaconReq, TxEntry
<1> QED
  BY <1>3, <1>4, <1>5, <1>6, <1>11, <1>12 DEF Next

\* Two frames on the air overlap, and a transmission that is waited for and reported is
\* over: its own interrupt reported it.
LEMMA RadioKept ==
  ASSUME Types, Radio, Next
  PROVE  Radio'
<1>1. air \in 0 .. 2 /\ tx_cnt \in 0 .. 1 /\ overlap \in BOOLEAN
  BY DEF Types
<1>2. CASE UNCHANGED radioVars /\ (unsent' \/ UNCHANGED <<unsent, tx_wait_cb>>)
  BY <1>2 DEF Radio, TxDoneIsOwn, radioVars
<1>3. CASE TransSendCommand
  <2>1. tx_cnt' = 0 /\ air' = (IF air = 0 THEN 1 ELSE 2) /\ overlap' = (air > 0)
    BY <1>3 DEF TransSendCommand
  <2>2. air' = 2 => air > 0
    BY <1>1, <2>1
  <2>3. air' = 2 => overlap'
    BY <2>1, <2>2
  <2> QED
    BY <2>1, <2>3 DEF Radio, TxDoneIsOwn
<1>4. CASE TxComplete
  BY <1>4 DEF Radio, TxDoneIsOwn, TxComplete
<1>5. CASE TxInterrupt
  BY <1>1, <1>5 DEF Radio, TxDoneIsOwn, TxInterrupt
<1>6. ASSUME ~ (UNCHANGED radioVars /\ (unsent' \/ UNCHANGED <<unsent, tx_wait_cb>>))
      PROVE  TransSendCommand \/ TxComplete \/ TxInterrupt
  <2>1. ASSUME NEW fr \in Requests, McpsDataRequest(fr) PROVE FALSE
    BY <1>6, <2>1 DEF McpsDataRequest, txVars
  <2>2. ASSUME NEW fr \in Received, ReceiveFrame(fr) PROVE FALSE
    BY <1>6, <2>2 DEF ReceiveFrame, txVars
  <2>3. ASSUME RunCallback PROVE FALSE
    BY <1>6, <2>3 DEF RunCallback, CommandAccept, HandleDataFrame, AcceptAssRequest,
       AssociateIndication, AssociateResponse, DataConfirmOrIndication, CommStatusIndication,
       txVars
  <2>4. ASSUME NEW i \in Slots, PendingDataTimeout(i) PROVE FALSE
    BY <1>6, <2>4 DEF PendingDataTimeout, txVars
  <2>5. CASE MacMainLoopTx
    <3>1. CASE HandleMcpsDataReq
      BY <1>6, <3>1 DEF HandleMcpsDataReq
    <3>2. CASE AcceptDataRequest
      <4>1. CASE check_pending_data(frame[TxParam].peer) # {}
        BY <1>6, <3>2, <4>1, Zenon DEF AcceptDataRequest, SendPending
      <4>2. CASE check_pending_data(frame[TxParam].peer) = {}
        BY <1>6, <3>2, <4>2, Zenon DEF AcceptDataRequest
      <4> QED
        BY <4>1, <4>2
    <3>3. CASE HandleBeaconReq
      BY <3>3 DEF HandleBeaconReq
    <3>4. CASE McpsDataReqContinue \/ DataRequestContinue
      BY <3>4 DEF McpsDataReqContinue, DataRequestContinue
    <3>5. CASE DataRequestContinueRaced
      BY <1>6, <3>5 DEF DataRequestContinueRaced
    <3> QED
      BY <2>5, <3>1, <3>2, <3>3, <3>4, <3>5 DEF MacMainLoopTx
  <2> QED
    BY <2>1, <2>2, <2>3, <2>4, <2>5 DEF Next
<1> QED
  BY <1>2, <1>3, <1>4, <1>5, <1>6

-----------------------------------------------------------------------------
(* Every buffer stays in one place. *)

\* The buffer is in exactly one of eight places.
LEMMA PlaceNumbers ==
  ASSUME Types, OnePlace, NEW b \in Bufs
  PROVE  \E t, c, s, w, r, p, l, o \in Nat :
           /\ t + c + s + w + r + p + l + o = 1
           /\ t = Uses(mac_tx_q, b) /\ c = Uses(cb_q, b) /\ s = SlotUses(pending_data_queue, b)
           /\ w = AtRadio(b) /\ r = AtRequest(b)
           /\ p = InSet(pool, b) /\ l = InSet(lost, b) /\ o = InSet(out, b)
<1>1. Uses(mac_tx_q, b) \in Nat /\ Uses(cb_q, b) \in Nat
  BY UsesType DEF Types
<1>2. SlotUses(pending_data_queue, b) \in Nat
  BY SlotUsesType
<1>3. /\ AtRadio(b) \in Nat /\ AtRequest(b) \in Nat
      /\ InSet(pool, b) \in Nat /\ InSet(lost, b) \in Nat /\ InSet(out, b) \in Nat
  BY DEF AtRadio, AtRequest, InSet
<1>4. Places(b) = 1
  BY DEF OnePlace
<1> USE <1>1, <1>2, <1>3
<1> WITNESS Uses(mac_tx_q, b) \in Nat, Uses(cb_q, b) \in Nat,
            SlotUses(pending_data_queue, b) \in Nat, AtRadio(b) \in Nat, AtRequest(b) \in Nat,
            InSet(pool, b) \in Nat, InSet(lost, b) \in Nat, InSet(out, b) \in Nat
<1> QED
  BY <1>4 DEF Places

\* The same of the next state.
LEMMA NewNumbers ==
  ASSUME Types', NEW b
  PROVE  \E t, c, s, w, r, p, l, o \in Nat :
           /\ Places(b)' = t + c + s + w + r + p + l + o
           /\ t = Uses(mac_tx_q', b) /\ c = Uses(cb_q', b) /\ s = SlotUses(pending_data_queue', b)
           /\ w = AtRadio(b)' /\ r = AtRequest(b)'
           /\ p = InSet(pool', b) /\ l = InSet(lost', b) /\ o = InSet(out', b)
<1>1. Uses(mac_tx_q', b) \in Nat /\ Uses(cb_q', b) \in Nat
  BY UsesType DEF Types
<1>2. SlotUses(pending_data_queue', b) \in Nat
  BY SlotUsesType
<1>3. /\ AtRadio(b)' \in Nat /\ AtRequest(b)' \in Nat
      /\ InSet(pool', b) \in Nat /\ InSet(lost', b) \in Nat /\ InSet(out', b) \in Nat
  BY DEF AtRadio, AtRequest, InSet
<1> USE <1>1, <1>2, <1>3
<1> WITNESS Uses(mac_tx_q', b) \in Nat, Uses(cb_q', b) \in Nat,
            SlotUses(pending_data_queue', b) \in Nat, AtRadio(b)' \in Nat, AtRequest(b)' \in Nat,
            InSet(pool', b) \in Nat, InSet(lost', b) \in Nat, InSet(out', b) \in Nat
<1> QED
  BY DEF Places

\* What adding to a set and taking from it count for.
LEMMA InSets ==
  ASSUME NEW S, NEW c, NEW b
  PROVE  /\ c \notin S => InSet(S \cup {c}, b) = InSet(S, b) + Is(c, b)
         /\ c \in S => InSet(S, b) = InSet(S \ {c}, b) + Is(c, b)
BY DEF InSet, Is

\* The buffer of the callback that is called is in cb_q only, that of a request is in
\* mac_tx_q only, and a free one is in the pool only.
LEMMA ParamPlace ==
  ASSUME Types, OnePlace, cb_q # << >>
  PROVE  /\ Param \in Bufs /\ Param \notin pool /\ Param \notin lost /\ Param \notin out
         /\ Uses(cb_q, Param) = 1 /\ Uses(mac_tx_q, Param) = 0
         /\ SlotUses(pending_data_queue, Param) = 0 /\ AtRequest(Param) = 0
<1>1. Param \in Bufs /\ Tail(cb_q) \in Seq(CbEntries) /\ cb_q \in Seq(CbEntries)
  BY CbCalled DEF Types
<1>2. Uses(cb_q, Param) = Uses(Tail(cb_q), Param) + Is(Param, Param)
  BY <1>1, UsesTail DEF Param
<1>3. Uses(Tail(cb_q), Param) \in Nat /\ Is(Param, Param) = 1
  BY <1>1, UsesType DEF Is
<1>4. /\ InSet(pool, Param) = 0 /\ InSet(lost, Param) = 0 /\ InSet(out, Param) = 0
      /\ Uses(cb_q, Param) = 1 /\ Uses(mac_tx_q, Param) = 0
      /\ SlotUses(pending_data_queue, Param) = 0 /\ AtRequest(Param) = 0
  <2>1. PICK n \in Nat : n = Uses(Tail(cb_q), Param) /\ Uses(cb_q, Param) = n + 1
    BY <1>2, <1>3
  <2> QED
    BY <1>1, <2>1, PlaceNumbers
<1> QED
  BY <1>1, <1>4 DEF InSet

LEMMA TxPlace ==
  ASSUME Types, OnePlace, mac_tx_q # << >>, TxParam \in Bufs
  PROVE  /\ TxParam \notin pool /\ TxParam \notin lost /\ TxParam \notin out
         /\ Uses(mac_tx_q, TxParam) = 1 /\ Uses(cb_q, TxParam) = 0
         /\ SlotUses(pending_data_queue, TxParam) = 0
<1>1. Tail(mac_tx_q) \in Seq(TxEntries) /\ mac_tx_q \in Seq(TxEntries)
  BY HeadTailProperties DEF Types
<1>2. Uses(mac_tx_q, TxParam) = Uses(Tail(mac_tx_q), TxParam) + Is(TxParam, TxParam)
  BY <1>1, UsesTail DEF TxParam
<1>3. Uses(Tail(mac_tx_q), TxParam) \in Nat /\ Is(TxParam, TxParam) = 1
  BY <1>1, UsesType DEF Is
<1>4. /\ InSet(pool, TxParam) = 0 /\ InSet(lost, TxParam) = 0 /\ InSet(out, TxParam) = 0
      /\ Uses(mac_tx_q, TxParam) = 1 /\ Uses(cb_q, TxParam) = 0
      /\ SlotUses(pending_data_queue, TxParam) = 0
  <2>1. PICK n \in Nat : n = Uses(Tail(mac_tx_q), TxParam) /\ Uses(mac_tx_q, TxParam) = n + 1
    BY <1>2, <1>3
  <2> QED
    BY <2>1, PlaceNumbers
<1> QED
  BY <1>4 DEF InSet

LEMMA FreePlace ==
  ASSUME Types, OnePlace, NEW b \in pool
  PROVE  /\ b \in Bufs /\ b \notin lost /\ b \notin out
         /\ Uses(mac_tx_q, b) = 0 /\ Uses(cb_q, b) = 0
         /\ SlotUses(pending_data_queue, b) = 0 /\ AtRequest(b) = 0
<1>1. b \in Bufs
  BY DEF Types
<1>2. InSet(pool, b) = 1
  BY DEF InSet
<1>3. /\ InSet(lost, b) = 0 /\ InSet(out, b) = 0
      /\ Uses(mac_tx_q, b) = 0 /\ Uses(cb_q, b) = 0
      /\ SlotUses(pending_data_queue, b) = 0 /\ AtRequest(b) = 0
  BY <1>1, <1>2, PlaceNumbers
<1> QED
  BY <1>1, <1>3 DEF InSet

\* A pending buffer is not free.
LEMMA FreeNotPending ==
  ASSUME Types, OnePlace, NEW i \in Slots
  PROVE  pending_data_queue[i] \notin pool
<1>1. SlotUses(pending_data_queue, pending_data_queue[i]) >= 1
  BY SlotUsesType
<1>2. \A b \in pool : SlotUses(pending_data_queue, b) = 0
  BY FreePlace
<1> QED
  BY <1>1, <1>2

LEMMA RequestPlaces ==
  ASSUME Types, Types', OnePlace, NEW b \in Bufs,
         (\E fr \in Requests : McpsDataRequest(fr)) \/ \E fr \in Received : ReceiveFrame(fr)
  PROVE  Places(b)' = 1
<1>a. PICK t, c, s, w, r, p, l, o \in Nat :
        /\ t + c + s + w + r + p + l + o = 1
        /\ t = Uses(mac_tx_q, b) /\ c = Uses(cb_q, b) /\ s = SlotUses(pending_data_queue, b)
        /\ w = AtRadio(b) /\ r = AtRequest(b)
        /\ p = InSet(pool, b) /\ l = InSet(lost, b) /\ o = InSet(out, b)
  BY PlaceNumbers
<1>b. PICK t2, c2, s2, w2, r2, p2, l2, o2 \in Nat :
        /\ Places(b)' = t2 + c2 + s2 + w2 + r2 + p2 + l2 + o2
        /\ t2 = Uses(mac_tx_q', b) /\ c2 = Uses(cb_q', b) /\ s2 = SlotUses(pending_data_queue', b)
        /\ w2 = AtRadio(b)' /\ r2 = AtRequest(b)'
        /\ p2 = InSet(pool', b) /\ l2 = InSet(lost', b) /\ o2 = InSet(out', b)
  BY NewNumbers
<1>c. /\ t \in Nat /\ c \in Nat /\ s \in Nat /\ w \in Nat /\ r \in Nat /\ p \in Nat /\ l \in Nat
      /\ o \in Nat /\ t2 \in Nat /\ c2 \in Nat /\ s2 \in Nat /\ p2 \in Nat /\ l2 \in Nat
      /\ t + c + s + w + r + p + l + o = 1
      /\ Places(b)' = t2 + c2 + s2 + w2 + r2 + p2 + l2 + o2
  BY <1>a, <1>b
<1>1. PICK f \in pool : f = FreeBuf
  BY DEF McpsDataRequest, ReceiveFrame, FreeBuf
<1>2. f \in Bufs /\ f \notin lost
  BY FreePlace
<1>3. pool' = pool \ {f} /\ UNCHANGED <<txVars, slotVars, out>>
  BY <1>1 DEF McpsDataRequest, ReceiveFrame, Alloc
<1>4. PICK d \in Nat : d = Is(f, b)
  BY DEF Is
<1>5. p = p2 + d
  BY <1>a, <1>b, <1>3, <1>4, InSets
<1>6. o2 = o /\ w2 = w /\ r2 = r /\ s2 = s
  BY <1>a, <1>b, <1>3 DEF txVars, slotVars, AtRadio, AtRequest, DataRequestInProgress
<1>7. CASE \E fr \in Requests : McpsDataRequest(fr)
  <2>1. zb_schedule_tx_cb("zb_handle_mcps_data_req", f) /\ cb_q' = cb_q
    BY <1>1, <1>7 DEF McpsDataRequest
  <2>2. t2 + l2 = t + l + d
    <3>1. Entry("zb_handle_mcps_data_req", f) \in TxEntries
      BY <1>2, EntryIn DEF TxFuncs
    <3>2. Uses(mac_tx_q', b) + InSet(lost', b) = Uses(mac_tx_q, b) + InSet(lost, b) + Is(f, b)
      BY <1>2, <2>1, <3>1, TxScheduled
    <3> QED
      BY <1>a, <1>b, <1>4, <3>2
  <2>3. c2 = c
    BY <1>a, <1>b, <2>1
  <2> QED
    BY <1>c, <1>4, <1>5, <1>6, <2>2, <2>3
<1>8. CASE \E fr \in Received : ReceiveFrame(fr)
  <2>1. PICK g \in CbFuncs : cb_q' = Append(cb_q, Entry(g, f)) /\ UNCHANGED <<mac_tx_q, lost>>
    BY <1>1, <1>8 DEF ReceiveFrame, CbFuncs
  <2>2. c2 = c + d
    BY <1>a, <1>b, <1>2, <1>4, <2>1, CbAdded
  <2>3. t2 = t /\ l2 = l
    BY <1>a, <1>b, <2>1
  <2> QED
    BY <1>c, <1>4, <1>5, <1>6, <2>2, <2>3
<1> QED
  BY <1>7, <1>8

LEMMA CallbackPlaces ==
  ASSUME Types, Types', SlotsKept, OnePlace, NEW b \in Bufs, RunCallback
  PROVE  Places(b)' = 1
<1>a. PICK t, c, s, w, r, p, l, o \in Nat :
        /\ t + c + s + w + r + p + l + o = 1
        /\ t = Uses(mac_tx_q, b) /\ c = Uses(cb_q, b) /\ s = SlotUses(pending_data_queue, b)
        /\ w = AtRadio(b) /\ r = AtRequest(b)
        /\ p = InSet(pool, b) /\ l = InSet(lost, b) /\ o = InSet(out, b)
  BY PlaceNumbers
<1>b. PICK t2, c2, s2, w2, r2, p2, l2, o2 \in Nat :
        /\ Places(b)' = t2 + c2 + s2 + w2 + r2 + p2 + l2 + o2
        /\ t2 = Uses(mac_tx_q', b) /\ c2 = Uses(cb_q', b) /\ s2 = SlotUses(pending_data_queue', b)
        /\ w2 = AtRadio(b)' /\ r2 = AtRequest(b)'
        /\ p2 = InSet(pool', b) /\ l2 = InSet(lost', b) /\ o2 = InSet(out', b)
  BY NewNumbers
<1>c. /\ t \in Nat /\ c \in Nat /\ s \in Nat /\ w \in Nat /\ r \in Nat /\ p \in Nat /\ l \in Nat
      /\ o \in Nat /\ t2 \in Nat /\ c2 \in Nat /\ s2 \in Nat /\ p2 \in Nat /\ l2 \in Nat
      /\ t + c + s + w + r + p + l + o = 1
      /\ Places(b)' = t2 + c2 + s2 + w2 + r2 + p2 + l2 + o2
  BY <1>a, <1>b
<1>1. cb_q # << >> /\ UNCHANGED <<txVars, out>>
  BY DEF RunCallback, CommandAccept, HandleDataFrame, AcceptAssRequest, AssociateIndication,
     AssociateResponse, DataConfirmOrIndication, CommStatusIndication, Head_is, bufVars
<1>2. Param \in Bufs /\ Param \notin pool /\ Param \notin lost
  BY <1>1, ParamPlace
<1>3. PICK d \in Nat : d = Is(Param, b)
  BY DEF Is
<1>4. Called(<< >>) => c = c2 + d
  BY <1>a, <1>b, <1>1, <1>3, CbCalled
<1>5. \A f \in CbFuncs : Called(<<Entry(f, Param)>>) => c2 = c
  <2> SUFFICES ASSUME NEW f \in CbFuncs, Called(<<Entry(f, Param)>>) PROVE c2 = c
    OBVIOUS
  <2>1. c + d = c2 + d
    BY <1>a, <1>b, <1>1, <1>2, <1>3, CbCalled
  <2> QED
    BY <2>1
<1>6. o2 = o /\ w2 = w /\ r2 = r
  BY <1>a, <1>b, <1>1 DEF txVars, AtRadio, AtRequest, DataRequestInProgress
<1>7. CASE CommandAccept
  <2>1. s2 = s
    BY <1>a, <1>b, <1>7 DEF CommandAccept, slotVars
  <2>2. CASE zb_schedule_tx_cb("zb_handle_beacon_req", NoBuf) /\ Free(Param) /\ Called(<< >>)
    <3>1. NoBuf # b /\ Is(NoBuf, b) = 0
      BY MacTxAssumption DEF Is
    <3>2. t2 + l2 = t + l
      <4>1. t2 + l2 = t + l + Is(NoBuf, b)
        <5>1. Uses(mac_tx_q', b) + InSet(lost', b)
                = Uses(mac_tx_q, b) + InSet(lost, b) + Is(NoBuf, b)
          BY <2>2, <3>1, EntryIn, TxScheduled
        <5> QED
          BY <1>a, <1>b, <5>1
      <4> QED
        BY <1>c, <3>1, <4>1
    <3>3. p2 = p + d
      <4>1. pool' = pool \cup {Param}
        BY <2>2 DEF Free
      <4>2. InSet(pool', b) = InSet(pool, b) + Is(Param, b)
        BY <1>2, <4>1, InSets
      <4> QED
        BY <1>a, <1>b, <1>3, <4>2
    <3> QED
      BY <1>c, <1>4, <1>6, <2>1, <2>2, <3>2, <3>3
  <2>3. CASE Called(<<Entry("zb_accept_ass_request_cmd", Param)>>) /\ UNCHANGED <<mac_tx_q, lost, pool>>
    <3>1. c2 = c
      BY <1>5, <2>3 DEF CbFuncs
    <3>2. t2 = t /\ l2 = l /\ p2 = p
      BY <1>a, <1>b, <2>3
    <3> QED
      BY <1>c, <1>6, <2>1, <3>1, <3>2
  <2>4. CASE /\ zb_schedule_tx_cb("zb_accept_data_request_cmd", Param) /\ Called(<< >>)
             /\ UNCHANGED pool
    <3>1. t2 + l2 = t + l + d
      <4>1. Entry("zb_accept_data_request_cmd", Param) \in TxEntries
        BY <1>2, EntryIn DEF TxFuncs
      <4>2. Uses(mac_tx_q', b) + InSet(lost', b)
              = Uses(mac_tx_q, b) + InSet(lost, b) + Is(Param, b)
        BY <1>2, <2>4, <4>1, TxScheduled
      <4> QED
        BY <1>a, <1>b, <1>3, <4>2
    <3>2. p2 = p
      BY <1>a, <1>b, <2>4
    <3> QED
      BY <1>c, <1>4, <1>6, <2>1, <2>4, <3>1, <3>2
  <2> QED
    BY <1>7, <2>2, <2>3, <2>4 DEF CommandAccept
<1>8. CASE HandleDataFrame \/ AcceptAssRequest \/ AssociateIndication
  <2>1. UNCHANGED <<mac_tx_q, pending_data_queue, lost, pool>>
    BY <1>8 DEF HandleDataFrame, AcceptAssRequest, AssociateIndication, bufVars, slotVars
  <2>2. t2 = t /\ s2 = s /\ l2 = l /\ p2 = p
    BY <1>a, <1>b, <2>1
  <2>3. c2 = c
    BY <1>5, <1>8 DEF HandleDataFrame, AcceptAssRequest, AssociateIndication, CbFuncs
  <2> QED
    BY <1>c, <1>6, <2>2, <2>3
<1>9. CASE AssociateResponse
  <2>1. UNCHANGED <<mac_tx_q, lost, pool>>
    BY <1>9 DEF AssociateResponse, Fill
  <2>2. t2 = t /\ l2 = l /\ p2 = p
    BY <1>a, <1>b, <2>1
  <2>3. CASE PutPending(Param) /\ Called(<< >>)
    <3>1. s2 = s + d
      BY <1>a, <1>b, <1>2, <1>3, <2>3, PutUses
    <3> QED
      BY <1>c, <1>4, <1>6, <2>2, <2>3, <3>1
  <2>4. CASE PutPendingOverflow /\ Called(<<Entry("zb_mlme_comm_status_indication", Param)>>)
    <3>1. c2 = c
      BY <1>5, <2>4 DEF CbFuncs
    <3>2. s2 = s
      BY <1>a, <1>b, <2>4 DEF PutPendingOverflow
    <3> QED
      BY <1>c, <1>6, <2>2, <3>1, <3>2
  <2> QED
    BY <1>9, <2>3, <2>4 DEF AssociateResponse
<1>10. CASE DataConfirmOrIndication \/ CommStatusIndication
  <2>1. UNCHANGED <<mac_tx_q, pending_data_queue>> /\ Called(<< >>)
    BY <1>10 DEF DataConfirmOrIndication, CommStatusIndication, slotVars
  <2>2. t2 = t /\ s2 = s
    BY <1>a, <1>b, <2>1
  <2>3. CASE pool' = pool \cup {Param} /\ lost' = lost
    <3>1. p2 = p + d /\ l2 = l
      BY <1>a, <1>b, <1>2, <1>3, <2>3, InSets
    <3> QED
      BY <1>c, <1>4, <1>6, <2>1, <2>2, <3>1
  <2>4. CASE pool' = pool /\ lost' = lost \cup {Param}
    <3>1. l2 = l + d /\ p2 = p
      BY <1>a, <1>b, <1>2, <1>3, <2>4, InSets
    <3> QED
      BY <1>c, <1>4, <1>6, <2>1, <2>2, <3>1
  <2> QED
    BY <1>10, <2>3, <2>4 DEF DataConfirmOrIndication, CommStatusIndication, Free
<1> QED
  BY <1>7, <1>8, <1>9, <1>10 DEF RunCallback

\* The slot is emptied.
LEMMA ClearUses ==
  ASSUME Types, NEW i \in Slots, NEW b \in Bufs, b = pending_data_queue[i], ClearSlot(i),
         NEW c \in Bufs
  PROVE  SlotUses(pending_data_queue, c) = SlotUses(pending_data_queue', c) + Is(b, c)
<1>1. /\ pending_data_queue \in [Slots -> Bufs \cup {NoBuf}]
      /\ pending_data_queue' = [pending_data_queue EXCEPT ![i] = NoBuf]
  BY DEF Types, ClearSlot
<1>2. SlotUses([pending_data_queue EXCEPT ![i] = NoBuf], c) + Is(pending_data_queue[i], c)
        = SlotUses(pending_data_queue, c) + Is(NoBuf, c)
  <2>1. NoBuf \in Bufs \cup {NoBuf}
    OBVIOUS
  <2> QED
    BY <1>1, <2>1, SlotPut
<1>3. Is(NoBuf, c) = 0
  BY MacTxAssumption DEF Is
<1>4. SlotUses(pending_data_queue, c) \in Nat
  BY SlotUsesType
<1> QED
  BY <1>1, <1>2, <1>3, <1>4

LEMMA TimeoutPlaces ==
  ASSUME Types, Types', SlotsKept, OnePlace, NEW b \in Bufs,
         NEW i \in Slots, PendingDataTimeout(i)
  PROVE  Places(b)' = 1
<1>a. PICK t, c, s, w, r, p, l, o \in Nat :
        /\ t + c + s + w + r + p + l + o = 1
        /\ t = Uses(mac_tx_q, b) /\ c = Uses(cb_q, b) /\ s = SlotUses(pending_data_queue, b)
        /\ w = AtRadio(b) /\ r = AtRequest(b)
        /\ p = InSet(pool, b) /\ l = InSet(lost, b) /\ o = InSet(out, b)
  BY PlaceNumbers
<1>b. PICK t2, c2, s2, w2, r2, p2, l2, o2 \in Nat :
        /\ Places(b)' = t2 + c2 + s2 + w2 + r2 + p2 + l2 + o2
        /\ t2 = Uses(mac_tx_q', b) /\ c2 = Uses(cb_q', b) /\ s2 = SlotUses(pending_data_queue', b)
        /\ w2 = AtRadio(b)' /\ r2 = AtRequest(b)'
        /\ p2 = InSet(pool', b) /\ l2 = InSet(lost', b) /\ o2 = InSet(out', b)
  BY NewNumbers
<1>c. /\ t \in Nat /\ c \in Nat /\ s \in Nat /\ w \in Nat /\ r \in Nat /\ p \in Nat /\ l \in Nat
      /\ o \in Nat /\ t2 \in Nat /\ c2 \in Nat /\ s2 \in Nat /\ p2 \in Nat /\ l2 \in Nat
      /\ t + c + s + w + r + p + l + o = 1
      /\ Places(b)' = t2 + c2 + s2 + w2 + r2 + p2 + l2 + o2
  BY <1>a, <1>b
<1>1. PICK f \in Bufs : f = pending_data_queue[i]
  BY DEF PendingDataTimeout, SlotsKept, TimeoutPerSlot, Full, Types
<1>2. /\ ClearSlot(i) /\ cb_q' = Append(cb_q, Entry("zb_mlme_comm_status_indication", f))
      /\ UNCHANGED <<mac_tx_q, txVars, out, lost, pool>>
  BY <1>1 DEF PendingDataTimeout, Fill
<1>3. PICK d \in Nat : d = Is(f, b)
  BY DEF Is
<1>4. s = s2 + d
  BY <1>a, <1>b, <1>1, <1>2, <1>3, ClearUses
<1>5. c2 = c + d
  <2>1. "zb_mlme_comm_status_indication" \in CbFuncs
    BY DEF CbFuncs
  <2>2. Uses(cb_q', b) = Uses(cb_q, b) + Is(f, b)
    BY <1>2, <2>1, CbAdded
  <2> QED
    BY <1>a, <1>b, <1>3, <2>2
<1>6. t2 = t /\ w2 = w /\ r2 = r /\ p2 = p /\ l2 = l /\ o2 = o
  BY <1>a, <1>b, <1>2 DEF txVars, AtRadio, AtRequest, DataRequestInProgress
<1> QED
  BY <1>c, <1>3, <1>4, <1>5, <1>6

LEMMA MainLoopPlaces ==
  ASSUME Types, Types', SlotsKept, OnePlace, NEW b \in Bufs,
         HandleMcpsDataReq \/ AcceptDataRequest \/ HandleBeaconReq
  PROVE  Places(b)' = 1
<1>a. PICK t, c, s, w, r, p, l, o \in Nat :
        /\ t + c + s + w + r + p + l + o = 1
        /\ t = Uses(mac_tx_q, b) /\ c = Uses(cb_q, b) /\ s = SlotUses(pending_data_queue, b)
        /\ w = AtRadio(b) /\ r = AtRequest(b)
        /\ p = InSet(pool, b) /\ l = InSet(lost, b) /\ o = InSet(out, b)
  BY PlaceNumbers
<1>b. PICK t2, c2, s2, w2, r2, p2, l2, o2 \in Nat :
        /\ Places(b)' = t2 + c2 + s2 + w2 + r2 + p2 + l2 + o2
        /\ t2 = Uses(mac_tx_q', b) /\ c2 = Uses(cb_q', b) /\ s2 = SlotUses(pending_data_queue', b)
        /\ w2 = AtRadio(b)' /\ r2 = AtRequest(b)'
        /\ p2 = InSet(pool', b) /\ l2 = InSet(lost', b) /\ o2 = InSet(out', b)
  BY NewNumbers
<1>c. /\ t \in Nat /\ c \in Nat /\ s \in Nat /\ w \in Nat /\ r \in Nat /\ p \in Nat /\ l \in Nat
      /\ o \in Nat /\ t2 \in Nat /\ c2 \in Nat /\ s2 \in Nat /\ p2 \in Nat /\ l2 \in Nat
      /\ t + c + s + w + r + p + l + o = 1
      /\ Places(b)' = t2 + c2 + s2 + w2 + r2 + p2 + l2 + o2
  BY <1>a, <1>b
<1>1. mac_tx_q # << >> /\ mac_tx_q' = Tail(mac_tx_q) /\ tx_wait_cb = "none"
  BY Zenon DEF HandleMcpsDataReq, AcceptDataRequest, HandleBeaconReq, TxEntry
<1>2. PICK d \in Nat : d = Is(TxParam, b)
  BY DEF Is
<1>3. t = t2 + d
  BY <1>a, <1>b, <1>1, <1>2, TxTaken
<1>4. w = 0 /\ r = 0
  BY <1>a, <1>1 DEF AtRadio, AtRequest, DataRequestInProgress
<1>5. TxParam \in Bufs => TxParam \notin pool /\ TxParam \notin out /\ TxParam \notin lost
  BY <1>1, TxPlace
<1>6. CASE HandleMcpsDataReq
  <2>1. TxParam \in Bufs
    BY <1>1, <1>6, TxTaken DEF HandleMcpsDataReq, TxEntry, TxFuncs
  <2>2. c2 = c /\ p2 = p /\ r2 = 0
    <3>1. cb_q' = cb_q /\ pool' = pool
      BY <1>6 DEF HandleMcpsDataReq
    <3>2. tx_wait_cb' # "zb_handle_data_request_cmd_continue"
      BY <1>1, <1>6 DEF HandleMcpsDataReq
    <3> QED
      BY <1>a, <1>b, <3>1, <3>2 DEF AtRequest, DataRequestInProgress
  <2>3. CASE /\ tx_wait_cb' = "zb_handle_mcps_data_req_continue" /\ tx_wait_cb_arg' = TxParam
             /\ UNCHANGED <<slotVars, out, lost>>
    <3>1. w2 = d /\ s2 = s /\ o2 = o /\ l2 = l
      BY <1>a, <1>b, <1>2, <2>3 DEF AtRadio, Is, slotVars
    <3> QED
      BY <1>c, <1>2, <1>3, <1>4, <2>2, <3>1
  <2>4. CASE PutPending(TxParam) /\ UNCHANGED <<out, tx_wait_cb, lost>>
    <3>1. s2 = s + d
      BY <1>a, <1>b, <1>2, <2>1, <2>4, PutUses
    <3>2. o2 = o /\ w2 = 0 /\ l2 = l
      BY <1>a, <1>b, <1>1, <2>4 DEF AtRadio
    <3> QED
      BY <1>c, <1>2, <1>3, <1>4, <2>2, <3>1, <3>2
  <2>5. CASE PutPendingOverflow /\ out' = out \cup {TxParam} /\ UNCHANGED <<tx_wait_cb, lost>>
    <3>1. o2 = o + d
      BY <1>a, <1>b, <1>2, <1>5, <2>1, <2>5, InSets
    <3>2. s2 = s /\ w2 = 0 /\ l2 = l
      BY <1>a, <1>b, <1>1, <2>5 DEF AtRadio, PutPendingOverflow
    <3> QED
      BY <1>a, <1>c, <1>2, <1>3, <1>4, <2>2, <3>1, <3>2
  <2>6. CASE lost' = lost \cup {TxParam} /\ UNCHANGED <<slotVars, out, tx_wait_cb>>
    <3>1. l2 = l + d
      BY <1>a, <1>b, <1>2, <1>5, <2>1, <2>6, InSets
    <3>2. s2 = s /\ w2 = 0 /\ o2 = o
      BY <1>a, <1>b, <1>1, <2>6 DEF AtRadio, slotVars
    <3> QED
      BY <1>a, <1>c, <1>2, <1>3, <1>4, <2>2, <3>1, <3>2
  <2> QED
    <3>1. \/ /\ tx_wait_cb' = "zb_handle_mcps_data_req_continue" /\ tx_wait_cb_arg' = TxParam
             /\ UNCHANGED <<slotVars, out, lost>>
          \/ PutPending(TxParam) /\ UNCHANGED <<out, tx_wait_cb, lost>>
          \/ PutPendingOverflow /\ out' = out \cup {TxParam} /\ UNCHANGED <<tx_wait_cb, lost>>
          \/ lost' = lost \cup {TxParam} /\ UNCHANGED <<slotVars, out, tx_wait_cb>>
      BY <1>6, Zenon DEF HandleMcpsDataReq
    <3> QED
      BY <2>3, <2>4, <2>5, <2>6, <3>1
<1>7. CASE AcceptDataRequest
  <2>1. TxParam \in Bufs
    BY <1>1, <1>7, TxTaken DEF AcceptDataRequest, TxEntry, TxFuncs
  <2>2. UNCHANGED <<slotVars, cb_q, lost, out>>
    BY <1>7, Zenon DEF AcceptDataRequest
  <2>3. c2 = c /\ s2 = s /\ l2 = l /\ o2 = o
    BY <1>a, <1>b, <2>2 DEF slotVars
  <2>4. CASE check_pending_data(frame[TxParam].peer) # {}
    <3>1. /\ tx_wait_cb' = "zb_handle_data_request_cmd_continue" /\ pool' = pool
          /\ \E f : sent' = [req |-> TxParam, data |-> f]
      BY <1>7, <2>4, Zenon DEF AcceptDataRequest
    <3>2. r2 = d /\ w2 = 0 /\ p2 = p
      BY <1>a, <1>b, <1>2, <3>1 DEF AtRadio, AtRequest, DataRequestInProgress, Is
    <3> QED
      BY <1>c, <1>2, <1>3, <1>4, <2>3, <3>2
  <2>5. CASE check_pending_data(frame[TxParam].peer) = {}
    <3>1. Free(TxParam) /\ tx_wait_cb' = tx_wait_cb
      BY <1>7, <2>5, Zenon DEF AcceptDataRequest
    <3>2. p2 = p + d
      <4>1. pool' = pool \cup {TxParam}
        BY <3>1 DEF Free
      <4>2. InSet(pool', b) = InSet(pool, b) + Is(TxParam, b)
        BY <1>5, <2>1, <4>1, InSets
      <4> QED
        BY <1>a, <1>b, <1>2, <4>2
    <3>3. r2 = 0 /\ w2 = 0
      BY <1>1, <1>b, <3>1 DEF AtRadio, AtRequest, DataRequestInProgress
    <3> QED
      BY <1>c, <1>2, <1>3, <1>4, <2>3, <3>2, <3>3
  <2> QED
    BY <2>4, <2>5
<1>8. CASE HandleBeaconReq
  <2>1. TxParam = NoBuf
    BY <1>1, <1>8, TxTaken DEF HandleBeaconReq, TxEntry
  <2>2. d = 0
    BY <1>2, <2>1, MacTxAssumption DEF Is
  <2>3. c2 = c /\ s2 = s /\ p2 = p /\ l2 = l /\ o2 = o /\ w2 = w /\ r2 = r
    BY <1>a, <1>b, <1>8 DEF HandleBeaconReq, txVars, slotVars, bufVars, AtRadio, AtRequest,
       DataRequestInProgress
  <2> QED
    BY <1>c, <1>3, <2>2, <2>3
<1> QED
  BY <1>6, <1>7, <1>8

LEMMA CompletedPlaces ==
  ASSUME Types, Types', SlotsKept, OnePlace, Waits, NEW b \in Bufs,
         McpsDataReqContinue \/ DataRequestContinue
  PROVE  Places(b)' = 1
<1>a. PICK t, c, s, w, r, p, l, o \in Nat :
        /\ t + c + s + w + r + p + l + o = 1
        /\ t = Uses(mac_tx_q, b) /\ c = Uses(cb_q, b) /\ s = SlotUses(pending_data_queue, b)
        /\ w = AtRadio(b) /\ r = AtRequest(b)
        /\ p = InSet(pool, b) /\ l = InSet(lost, b) /\ o = InSet(out, b)
  BY PlaceNumbers
<1>b. PICK t2, c2, s2, w2, r2, p2, l2, o2 \in Nat :
        /\ Places(b)' = t2 + c2 + s2 + w2 + r2 + p2 + l2 + o2
        /\ t2 = Uses(mac_tx_q', b) /\ c2 = Uses(cb_q', b) /\ s2 = SlotUses(pending_data_queue', b)
        /\ w2 = AtRadio(b)' /\ r2 = AtRequest(b)'
        /\ p2 = InSet(pool', b) /\ l2 = InSet(lost', b) /\ o2 = InSet(out', b)
  BY NewNumbers
<1>c. /\ t \in Nat /\ c \in Nat /\ s \in Nat /\ w \in Nat /\ r \in Nat /\ p \in Nat /\ l \in Nat
      /\ o \in Nat /\ t2 \in Nat /\ c2 \in Nat /\ s2 \in Nat /\ p2 \in Nat /\ l2 \in Nat
      /\ t + c + s + w + r + p + l + o = 1
      /\ Places(b)' = t2 + c2 + s2 + w2 + r2 + p2 + l2 + o2
  BY <1>a, <1>b
<1>1. UNCHANGED <<mac_tx_q, lost, out>> /\ tx_wait_cb' = "none"
  BY DEF McpsDataReqContinue, DataRequestContinue, TxComplete
<1>2. t2 = t /\ l2 = l /\ o2 = o /\ w2 = 0 /\ r2 = 0
  BY <1>a, <1>b, <1>1 DEF AtRadio, AtRequest, DataRequestInProgress
<1>3. CASE McpsDataReqContinue
  <2>1. PICK f \in Bufs : f = tx_wait_cb_arg
    BY <1>3 DEF McpsDataReqContinue, TxWaited, Waits
  <2>2. /\ cb_q' = Append(cb_q, Entry("zb_mcps_data_confirm", f)) /\ UNCHANGED <<slotVars, pool>>
        /\ tx_wait_cb = "zb_handle_mcps_data_req_continue"
    BY <1>3, <2>1 DEF McpsDataReqContinue, TxWaited
  <2>3. PICK d \in Nat : d = Is(f, b)
    BY DEF Is
  <2>4. w = d /\ r = 0
    BY <1>a, <2>1, <2>2, <2>3 DEF AtRadio, AtRequest, DataRequestInProgress, Is
  <2>5. c2 = c + d
    <3>1. Uses(cb_q', b) = Uses(cb_q, b) + Is(f, b)
      BY <2>2, CbAdded DEF CbFuncs
    <3> QED
      BY <1>a, <1>b, <2>3, <3>1
  <2>6. s2 = s /\ p2 = p
    BY <1>a, <1>b, <2>2 DEF slotVars
  <2> QED
    BY <1>c, <1>2, <2>3, <2>4, <2>5, <2>6
<1>4. CASE DataRequestContinue
  <2>1. PICK q, f \in Bufs : q = sent.req /\ f = sent.data
    BY <1>4 DEF DataRequestContinue, TxWaited, Waits, DataRequestInProgress
  <2>2. /\ tx_wait_cb = "zb_handle_data_request_cmd_continue" /\ ClearSlot(data_found_index)
        /\ f = pending_data_queue[data_found_index] /\ data_found_index \in Slots
    BY <1>4, <2>1 DEF DataRequestContinue, TxWaited, Context, Types
  <2>3. PICK d \in Nat : d = Is(q, b)
    BY DEF Is
  <2>4. PICK e \in Nat : e = Is(f, b)
    BY DEF Is
  <2>5. r = d /\ w = 0
    BY <1>a, <2>1, <2>2, <2>3 DEF AtRadio, AtRequest, DataRequestInProgress, Is
  <2>6. s = s2 + e
    BY <1>a, <1>b, <2>2, <2>4, ClearUses
  <2>7. CASE /\ cb_q' = Append(cb_q, Entry("zb_mlme_comm_status_indication", q))
             /\ pool' = pool \cup {f}
    <3>1. c2 = c + d
      <4>1. Uses(cb_q', b) = Uses(cb_q, b) + Is(q, b)
        BY <2>7, CbAdded DEF CbFuncs
      <4> QED
        BY <1>a, <1>b, <2>3, <4>1
    <3>2. f \notin pool
      BY <2>2, FreeNotPending
    <3>3. p2 = p + e
      <4>1. InSet(pool', b) = InSet(pool, b) + Is(f, b)
        BY <2>7, <3>2, InSets
      <4> QED
        BY <1>a, <1>b, <2>4, <4>1
    <3> QED
      BY <1>c, <1>2, <2>3, <2>4, <2>5, <2>6, <3>1, <3>3
  <2>8. CASE cb_q' = Append(cb_q, Entry("zb_mcps_data_confirm", f)) /\ Free(q)
    <3>1. c2 = c + e
      <4>1. Uses(cb_q', b) = Uses(cb_q, b) + Is(f, b)
        BY <2>8, CbAdded DEF CbFuncs
      <4> QED
        BY <1>a, <1>b, <2>4, <4>1
    <3>2. q \notin pool
      <4>1. \A g \in pool : AtRequest(g) = 0
        BY FreePlace
      <4>2. AtRequest(q) = 1
        BY <2>1, <2>2 DEF AtRequest, DataRequestInProgress
      <4> QED
        BY <4>1, <4>2
    <3>3. p2 = p + d
      <4>1. pool' = pool \cup {q}
        BY <2>8 DEF Free
      <4> QED
        BY <1>a, <1>b, <2>3, <3>2, <4>1, InSets
    <3> QED
      BY <1>c, <1>2, <2>3, <2>4, <2>5, <2>6, <3>1, <3>3
  <2> QED
    BY <1>4, <2>1, <2>7, <2>8 DEF DataRequestContinue
<1> QED
  BY <1>3, <1>4

\* Every buffer stays in one place, unless a data request completed with what is
\* somebody else's.
LEMMA PlacesKept ==
  ASSUME Types, Types', SlotsKept, OnePlace, Waits, Next, ~raced'
  PROVE  OnePlace'
<1> SUFFICES ASSUME NEW b \in Bufs PROVE Places(b)' = 1
  BY DEF OnePlace
<1>1. CASE TxInterrupt
  BY <1>1 DEF TxInterrupt, OnePlace, Places, AtRadio, AtRequest, DataRequestInProgress, InSet,
     txVars, slotVars, bufVars
<1>2. ~ DataRequestContinueRaced
  BY DEF DataRequestContinueRaced
<1> QED
  BY <1>1, <1>2, RequestPlaces, CallbackPlaces, TimeoutPlaces, MainLoopPlaces, CompletedPlaces
  DEF Next, MacMainLoopTx

-----------------------------------------------------------------------------
(* The frame of a data request in progress. *)

LEMMA WaitsKept ==
  ASSUME Types, Waits, Next
  PROVE  Waits'
<1>1. CASE UNCHANGED <<tx_wait_cb, tx_wait_cb_arg, sent>>
  BY <1>1 DEF Waits, DataRequestInProgress
<1>2. CASE tx_wait_cb' = "none"
  BY <1>2 DEF Waits, DataRequestInProgress
<1>3. CASE HandleMcpsDataReq
  <2>1. TxParam \in Bufs
    BY <1>3, TxTaken DEF HandleMcpsDataReq, TxEntry, TxFuncs
  <2> QED
    BY <1>1, <1>3, <2>1 DEF HandleMcpsDataReq, Waits, DataRequestInProgress
<1>4. CASE AcceptDataRequest
  <2>1. TxParam \in Bufs
    <3>1. mac_tx_q # << >> /\ mac_tx_q' = Tail(mac_tx_q)
          /\ Head(mac_tx_q).func = "zb_accept_data_request_cmd"
      BY <1>4, Zenon DEF AcceptDataRequest, TxEntry
    <3> QED
      BY <3>1, TxTaken DEF TxFuncs
  <2>2. CASE check_pending_data(frame[TxParam].peer) # {}
    <3>1. PICK i \in check_pending_data(frame[TxParam].peer) :
            sent' = [req |-> TxParam, data |-> pending_data_queue[i]]
      BY <1>4, <2>2, FoundFirst DEF AcceptDataRequest
    <3>2. pending_data_queue[i] \in Bufs
      BY DEF check_pending_data, Full, Types
    <3>3. tx_wait_cb' = "zb_handle_data_request_cmd_continue"
      BY <1>4, <2>2, Zenon DEF AcceptDataRequest
    <3> QED
      BY <2>1, <3>1, <3>2, <3>3 DEF Waits, DataRequestInProgress
  <2>3. CASE check_pending_data(frame[TxParam].peer) = {}
    <3>1. UNCHANGED <<tx_wait_cb, tx_wait_cb_arg, sent>>
      BY <1>4, <2>3, Zenon DEF AcceptDataRequest
    <3> QED
      BY <1>1, <3>1
  <2> QED
    BY <2>2, <2>3
<1>5. CASE McpsDataReqContinue \/ DataRequestContinue
  BY <1>2, <1>5 DEF McpsDataReqContinue, DataRequestContinue, TxComplete
<1>6. CASE DataRequestContinueRaced \/ HandleBeaconReq \/ TxInterrupt
  BY <1>1, <1>6 DEF DataRequestContinueRaced, HandleBeaconReq, TxInterrupt, txVars
<1>7. CASE RunCallback
  BY <1>1, <1>7 DEF RunCallback, CommandAccept, HandleDataFrame, AcceptAssRequest,
     AssociateIndication, AssociateResponse, DataConfirmOrIndication, CommStatusIndication,
     txVars
<1>8. CASE \/ \E fr \in Requests : McpsDataRequest(fr)
           \/ \E fr \in Received : ReceiveFrame(fr)
           \/ \E i \in Slots : PendingDataTimeout(i)
  BY <1>1, <1>8 DEF McpsDataRequest, ReceiveFrame, PendingDataTimeout, txVars
<1> QED
  BY <1>3, <1>4, <1>5, <1>6, <1>7, <1>8 DEF Next, MacMainLoopTx

\* Entries of a queue stay until they are called.
LEMMA QueuedStays ==
  ASSUME NEW S, NEW q \in Seq(S), NEW e \in S, Queued(q, e)
  PROVE  /\ \A x \in S : Queued(Append(q, x), e)
         /\ q # << >> /\ Head(q) # e => Queued(Tail(q), e)
<1>1. PICK k \in 1 .. Len(q) : q[k] = e
  BY LenProperties DEF Queued
<1>2. ASSUME NEW x \in S PROVE Queued(Append(q, x), e)
  <2>1. /\ DOMAIN Append(q, x) = 1 .. Len(q) + 1 /\ Append(q, x)[k] = q[k] /\ Len(q) \in Nat
    BY AppendProperties, LenProperties
  <2> QED
    BY <1>1, <2>1 DEF Queued
<1>3. ASSUME q # << >>, Head(q) # e PROVE Queued(Tail(q), e)
  <2>1. /\ Len(q) \in Nat /\ DOMAIN Tail(q) = 1 .. Len(q) - 1
        /\ \A j \in 1 .. Len(q) - 1 : Tail(q)[j] = q[j + 1]
        /\ Head(q) = q[1]
    BY <1>3, HeadTailProperties, LenProperties
  <2>2. k # 1
    BY <1>1, <1>3, <2>1
  <2>3. k - 1 \in 1 .. Len(q) - 1 /\ Tail(q)[k - 1] = q[k]
    BY <2>1, <2>2
  <2> QED
    BY <1>1, <2>1, <2>3 DEF Queued
<1> QED
  BY <1>2, <1>3

\* A buffer that waits in cb_q for its callback is called for that only.
LEMMA CalledOnce ==
  ASSUME Types, OnePlace, cb_q # << >>, NEW e \in CbEntries, Queued(cb_q, e), Param = e.param
  PROVE  Head(cb_q) = e
<1> SUFFICES ASSUME Head(cb_q) # e PROVE FALSE
  OBVIOUS
<1>1. cb_q \in Seq(CbEntries) /\ Tail(cb_q) \in Seq(CbEntries)
  BY CbCalled DEF Types
<1>2. Queued(Tail(cb_q), e)
  BY <1>1, QueuedStays
<1>3. Uses(Tail(cb_q), Param) >= 1
  BY <1>1, <1>2, UsesType, LenProperties DEF Queued
<1>4. Uses(cb_q, Param) = Uses(Tail(cb_q), Param) + Is(Param, Param)
  BY <1>1, UsesTail DEF Param
<1>5. Uses(Tail(cb_q), Param) \in Nat /\ Is(Param, Param) = 1
  BY <1>1, UsesType DEF Is
<1>6. Uses(cb_q, Param) = 1
  BY ParamPlace
<1> QED
  BY <1>3, <1>4, <1>5, <1>6

\* Which frames a step may write while a data request is in progress.
LEMMA FrameWrites ==
  ASSUME Types, OnePlace, Next, ~raced', DataRequestInProgress, DataRequestInProgress', NEW c \in Bufs
  PROVE  /\ UNCHANGED <<data_found_index, sent>> /\ lost \subseteq lost'
         /\ \/ frame'[c] = frame[c]
            \/ c \in pool
            \/ RunCallback /\ c = Param
            \/ \E i \in Slots : PendingDataTimeout(i) /\ c = pending_data_queue[i]
<1>1. frame \in [Bufs -> [kind : FrameKinds, peer : Peers]]
  BY DEF Types
<1>2. CASE \/ \E fr \in Requests : McpsDataRequest(fr)
           \/ \E fr \in Received : ReceiveFrame(fr)
  <2>1. PICK f \in pool : f = FreeBuf
    BY <1>2 DEF McpsDataRequest, ReceiveFrame, FreeBuf
  <2>2. f \in Bufs /\ \E fr : frame' = [frame EXCEPT ![f] = fr]
    BY <1>2, <2>1 DEF McpsDataRequest, ReceiveFrame, Alloc, Types
  <2>3. frame'[c] = frame[c] \/ c \in pool
    BY <1>1, <2>1, <2>2
  <2> QED
    BY <1>2, <2>3 DEF McpsDataRequest, ReceiveFrame, txVars, zb_schedule_tx_cb
<1>3. CASE RunCallback
  <2>1. UNCHANGED txVars
    BY <1>3 DEF RunCallback, CommandAccept, HandleDataFrame, AcceptAssRequest,
       AssociateIndication, AssociateResponse, DataConfirmOrIndication, CommStatusIndication
  <2>2. lost \subseteq lost'
    BY <1>3 DEF RunCallback, CommandAccept, HandleDataFrame, AcceptAssRequest,
       AssociateIndication, AssociateResponse, DataConfirmOrIndication, CommStatusIndication,
       bufVars, zb_schedule_tx_cb
  <2>3. frame' = frame \/ \E fr : frame' = [frame EXCEPT ![Param] = fr]
    BY <1>3 DEF RunCallback, CommandAccept, HandleDataFrame, AcceptAssRequest,
       AssociateIndication, AssociateResponse, DataConfirmOrIndication, CommStatusIndication,
       bufVars, Fill, Free
  <2>4. frame'[c] = frame[c] \/ c = Param
    BY <1>1, <2>3
  <2> QED
    BY <1>3, <2>1, <2>2, <2>4 DEF txVars
<1>4. ASSUME NEW i \in Slots, PendingDataTimeout(i)
      PROVE  /\ UNCHANGED <<data_found_index, sent>> /\ lost \subseteq lost'
             /\ frame'[c] = frame[c] \/ c = pending_data_queue[i]
  BY <1>1, <1>4 DEF PendingDataTimeout, Fill, txVars
<1>5. CASE TxInterrupt
  BY <1>5 DEF TxInterrupt, txVars, bufVars
<1>6. ~ MacMainLoopTx
  <2>1. tx_wait_cb = "zb_handle_data_request_cmd_continue" /\ tx_wait_cb' # "none"
    BY DEF DataRequestInProgress
  <2>2. ~ (HandleMcpsDataReq \/ AcceptDataRequest \/ HandleBeaconReq)
    BY <2>1, Zenon DEF HandleMcpsDataReq, AcceptDataRequest, HandleBeaconReq, TxEntry
  <2>3. ~ (McpsDataReqContinue \/ DataRequestContinue \/ DataRequestContinueRaced)
    BY <2>1 DEF McpsDataReqContinue, DataRequestContinue, TxComplete, DataRequestContinueRaced
  <2> QED
    BY <2>2, <2>3 DEF MacMainLoopTx
<1> QED
  BY <1>2, <1>3, <1>4, <1>5, <1>6 DEF Next

\* A slot in use is only emptied by its timeout while a data request is in progress.
LEMMA SlotWrites ==
  ASSUME Types, SlotsKept, OnePlace, Next, ~raced', DataRequestInProgress,
         DataRequestInProgress', NEW i \in Slots, pending_data_queue[i] # NoBuf
  PROVE  pending_data_queue'[i] = pending_data_queue[i] \/ PendingDataTimeout(i)
<1>1. pending_data_queue \in [Slots -> Bufs \cup {NoBuf}]
  BY DEF Types
<1>2. ~ MacMainLoopTx
  <2>1. tx_wait_cb = "zb_handle_data_request_cmd_continue" /\ tx_wait_cb' # "none"
    BY DEF DataRequestInProgress
  <2>2. ~ (HandleMcpsDataReq \/ AcceptDataRequest \/ HandleBeaconReq)
    BY <2>1, Zenon DEF HandleMcpsDataReq, AcceptDataRequest, HandleBeaconReq, TxEntry
  <2>3. ~ (McpsDataReqContinue \/ DataRequestContinue \/ DataRequestContinueRaced)
    BY <2>1 DEF McpsDataReqContinue, DataRequestContinue, TxComplete, DataRequestContinueRaced
  <2> QED
    BY <2>2, <2>3 DEF MacMainLoopTx
<1>3. CASE UNCHANGED slotVars
  BY <1>3 DEF slotVars
<1>4. CASE AssociateResponse
  <2>1. Param \in Bufs
    BY <1>4, Handled DEF AssociateResponse
  <2>2. CASE PutPending(Param)
    <3>1. PICK j \in Slots : /\ pending_data_queue[j] = NoBuf
                             /\ pending_data_queue' = [pending_data_queue EXCEPT ![j] = Param]
      BY <2>1, <2>2, Put
    <3> QED
      BY <1>1, <3>1
  <2>3. CASE PutPendingOverflow
    BY <2>3 DEF PutPendingOverflow
  <2> QED
    BY <1>4, <2>2, <2>3 DEF AssociateResponse
<1>5. ASSUME NEW j \in Slots, PendingDataTimeout(j), j # i
      PROVE  pending_data_queue'[i] = pending_data_queue[i]
  BY <1>1, <1>5 DEF PendingDataTimeout, ClearSlot
<1>6. RunCallback => UNCHANGED slotVars \/ AssociateResponse
  BY DEF RunCallback, CommandAccept, HandleDataFrame, AcceptAssRequest,
     AssociateIndication, DataConfirmOrIndication, CommStatusIndication
<1>7. (\E fr \in Requests : McpsDataRequest(fr)) \/ (\E fr \in Received : ReceiveFrame(fr))
      \/ TxInterrupt => UNCHANGED slotVars
  BY DEF McpsDataRequest, ReceiveFrame, TxInterrupt
<1> QED
  BY <1>2, <1>3, <1>4, <1>5, <1>6, <1>7 DEF Next

\* Two slots do not hold the same buffer.
LEMMA OneSlot ==
  ASSUME Types, OnePlace, NEW i \in Slots, NEW j \in Slots, pending_data_queue[i] \in Bufs,
         pending_data_queue[i] = pending_data_queue[j]
  PROVE  i = j
<1> SUFFICES ASSUME i # j PROVE FALSE
  OBVIOUS
<1> DEFINE b == pending_data_queue[i]
           q == [pending_data_queue EXCEPT ![i] = NoBuf]
<1>1. pending_data_queue \in [Slots -> Bufs \cup {NoBuf}]
  BY DEF Types
<1>2. SlotUses(q, b) + Is(pending_data_queue[i], b) = SlotUses(pending_data_queue, b) + Is(NoBuf, b)
  <2>1. NoBuf \in Bufs \cup {NoBuf}
    OBVIOUS
  <2> QED
    BY <1>1, <2>1, SlotPut
<1>3. Is(pending_data_queue[i], b) = 1 /\ Is(NoBuf, b) = 0
  BY MacTxAssumption DEF Is
<1>4. q[j] = b
  BY <1>1
<1>5. SlotUses(q, b) \in Nat /\ SlotUses(q, b) >= 1
  BY <1>4, SlotUsesType
<1>6. PICK s \in Nat : s = SlotUses(pending_data_queue, b) /\ s <= 1
  BY PlaceNumbers
<1> HIDE DEF q, b
<1> QED
  BY <1>2, <1>3, <1>5, <1>6

\* Where a buffer of a slot is not.
LEMMA PendingPlace ==
  ASSUME Types, OnePlace, NEW i \in Slots, pending_data_queue[i] \in Bufs
  PROVE  /\ pending_data_queue[i] \notin pool
         /\ cb_q # << >> => Param # pending_data_queue[i]
<1>1. SlotUses(pending_data_queue, pending_data_queue[i]) >= 1
  BY SlotUsesType
<1>2. cb_q # << >> => SlotUses(pending_data_queue, Param) = 0
  BY ParamPlace
<1> QED
  BY <1>1, <1>2, FreeNotPending

\* A buffer that was given up stays so.
LEMMA GivenUpStays ==
  ASSUME Types, SlotsKept, OnePlace, Next, ~raced', DataRequestInProgress,
         DataRequestInProgress', NEW b \in Bufs, GivenUp(b)
  PROVE  GivenUp(b)'
<1>1. lost \subseteq lost' /\ UNCHANGED <<data_found_index, sent>>
  BY FrameWrites
<1>2. SUFFICES ASSUME b \notin lost, b \notin lost' PROVE GivenUp(b)'
  BY <1>1 DEF GivenUp
<1> DEFINE e == Entry("zb_mlme_comm_status_indication", b)
<1>3. Queued(cb_q, e) /\ frame[b].kind = "failure" /\ e \in CbEntries /\ e.param = b
  BY <1>2, EntryIn DEF GivenUp, CbFuncs
<1>4. cb_q \in Seq(CbEntries)
  BY DEF Types
<1>5. b \notin pool
  <2>1. Uses(cb_q, b) >= 1
    BY <1>3, <1>4, UsesType, LenProperties DEF Queued
  <2>2. \A p \in pool : Uses(cb_q, p) = 0
    BY FreePlace
  <2> QED
    BY <2>1, <2>2
<1>6. \A i \in Slots : pending_data_queue[i] # b
  <2>1. Uses(cb_q, b) >= 1 /\ Uses(cb_q, b) \in Nat
    BY <1>3, <1>4, UsesType, LenProperties DEF Queued
  <2>2. SlotUses(pending_data_queue, b) = 0
    <3>1. PICK n \in Nat : n = Uses(cb_q, b) /\ n >= 1
      BY <2>1
    <3> QED
      BY <3>1, PlaceNumbers
  <2> QED
    BY <2>2, SlotUsesType
<1>7. CASE RunCallback
  <2>1. cb_q # << >>
    BY <1>7 DEF RunCallback, CommandAccept, HandleDataFrame, AcceptAssRequest,
       AssociateIndication, AssociateResponse, DataConfirmOrIndication, CommStatusIndication,
       Head_is
  <2>2. CASE Head(cb_q) = e
    <3>1. Head(cb_q).func = "zb_mlme_comm_status_indication" /\ Param = b
      BY <2>2 DEF Param, Entry
    <3>2. CommStatusIndication
      BY <1>7, <3>1 DEF RunCallback, CommandAccept, HandleDataFrame, AcceptAssRequest,
         AssociateIndication, AssociateResponse, DataConfirmOrIndication, Head_is
    <3>3. b \in lost'
      BY <1>3, <3>1, <3>2 DEF CommStatusIndication
    <3> QED
      BY <1>2, <3>3
  <2>3. CASE Head(cb_q) # e
    <3>1. Param # b
      BY <1>3, <2>1, <2>3, CalledOnce
    <3>2. frame'[b] = frame[b]
      BY <1>5, <1>6, <3>1, FrameWrites
    <3>3. Param \in Bufs /\ Tail(cb_q) \in Seq(CbEntries)
      BY <2>1, CbCalled
    <3>4. cb_q' = Tail(cb_q) \/ \E x \in CbEntries : cb_q' = Append(Tail(cb_q), x)
      <4>1. \E q \in {<< >>} \cup {<<Entry(g, Param)>> : g \in CbFuncs} : Called(q)
        BY <1>7 DEF RunCallback, CommandAccept, HandleDataFrame, AcceptAssRequest,
           AssociateIndication, AssociateResponse, DataConfirmOrIndication,
           CommStatusIndication, CbFuncs
      <4> QED
        BY <2>1, <3>3, <4>1, CbCalled, EntryIn
    <3>5. Queued(Tail(cb_q), e)
      BY <1>3, <1>4, <2>1, <2>3, QueuedStays
    <3>6. Queued(cb_q', e)
      BY <1>3, <3>3, <3>4, <3>5, QueuedStays
    <3> QED
      BY <1>3, <3>2, <3>6 DEF GivenUp
  <2> QED
    BY <2>2, <2>3
<1>8. CASE ~RunCallback
  <2>1. frame'[b] = frame[b]
    BY <1>5, <1>6, <1>8, FrameWrites
  <2>2. cb_q' = cb_q \/ \E x \in CbEntries : cb_q' = Append(cb_q, x)
    <3>1. ASSUME NEW fr \in Requests, McpsDataRequest(fr) PROVE cb_q' = cb_q
      BY <3>1 DEF McpsDataRequest
    <3>2. ASSUME NEW fr \in Received, ReceiveFrame(fr)
          PROVE  \E x \in CbEntries : cb_q' = Append(cb_q, x)
      <4>1. PICK p \in Bufs, f \in CbFuncs : cb_q' = Append(cb_q, Entry(f, p))
        BY <3>2 DEF ReceiveFrame, FreeBuf, CbFuncs, Types
      <4> QED
        BY <4>1, EntryIn
    <3>3. ASSUME NEW i \in Slots, PendingDataTimeout(i)
          PROVE  \E x \in CbEntries : cb_q' = Append(cb_q, x)
      <4>1. PICK p \in Bufs : p = pending_data_queue[i]
        BY <3>3 DEF PendingDataTimeout, SlotsKept, TimeoutPerSlot, Full, Types
      <4>2. cb_q' = Append(cb_q, Entry("zb_mlme_comm_status_indication", p))
        BY <3>3, <4>1 DEF PendingDataTimeout
      <4> QED
        BY <4>2, EntryIn DEF CbFuncs
    <3>4. CASE MacMainLoopTx
      <4>1. tx_wait_cb = "zb_handle_data_request_cmd_continue" /\ tx_wait_cb' # "none"
        BY DEF DataRequestInProgress
      <4>2. ~ (HandleMcpsDataReq \/ AcceptDataRequest \/ HandleBeaconReq)
        BY <4>1, Zenon DEF HandleMcpsDataReq, AcceptDataRequest, HandleBeaconReq, TxEntry
      <4> QED
        BY <3>4, <4>1, <4>2 DEF MacMainLoopTx, McpsDataReqContinue, DataRequestContinue,
           TxComplete, DataRequestContinueRaced
    <3>5. CASE TxInterrupt
      BY <3>5 DEF TxInterrupt
    <3> QED
      BY <1>8, <3>1, <3>2, <3>3, <3>4, <3>5 DEF Next
  <2>3. Queued(cb_q', e)
    BY <1>3, <1>4, <2>2, QueuedStays
  <2> QED
    BY <1>3, <2>1, <2>3 DEF GivenUp
<1> QED
  BY <1>7, <1>8

LEMMA GivenUpNotPending ==
  ASSUME Types', OnePlace', NEW b \in Bufs, GivenUp(b)'
  PROVE  \A i \in Slots : pending_data_queue'[i] # b
<1>1. Uses(cb_q', b) >= 1 \/ InSet(lost', b) = 1
  <2>1. cb_q' \in Seq(CbEntries)
    BY DEF Types
  <2>2. CASE b \in lost'
    BY <2>2 DEF InSet
  <2>3. CASE Queued(cb_q', Entry("zb_mlme_comm_status_indication", b))
    BY <2>1, <2>3, UsesType, LenProperties DEF Queued, Entry
  <2> QED
    BY <2>2, <2>3 DEF GivenUp
<1>2. PICK t, c, s, w, r, p, l, o \in Nat :
        /\ Places(b)' = t + c + s + w + r + p + l + o
        /\ t = Uses(mac_tx_q', b) /\ c = Uses(cb_q', b) /\ s = SlotUses(pending_data_queue', b)
        /\ w = AtRadio(b)' /\ r = AtRequest(b)'
        /\ p = InSet(pool', b) /\ l = InSet(lost', b) /\ o = InSet(out', b)
  BY NewNumbers
<1>3. Places(b)' = 1
  BY DEF OnePlace
<1>4. s = 0
  BY <1>1, <1>2, <1>3
<1>5. SlotUses(pending_data_queue', b) = 0
  BY <1>2, <1>4
<1> QED
  BY <1>5, SlotUsesType

LEMMA AnswerKept ==
  ASSUME IInv, ~raced, Next, ~raced', Types', OnePlace'
  PROVE  Answer'
<1>1. Types /\ SlotsKept /\ OnePlace /\ Waits /\ Answer
  BY DEF IInv
<1>2. SUFFICES ASSUME DataRequestInProgress' PROVE Answer'
  BY DEF Answer
<1>3. pending_data_queue \in [Slots -> Bufs \cup {NoBuf}]
  BY <1>1 DEF Types
<1>4. CASE ~DataRequestInProgress
  <2>1. AcceptDataRequest
    <3>1. tx_wait_cb' = "zb_handle_data_request_cmd_continue" /\ tx_wait_cb' # tx_wait_cb
      BY <1>2, <1>4 DEF DataRequestInProgress
    <3>2. ~ ((\E fr \in Requests : McpsDataRequest(fr)) \/ (\E fr \in Received : ReceiveFrame(fr))
             \/ (\E j \in Slots : PendingDataTimeout(j)) \/ TxInterrupt)
      BY <3>1 DEF McpsDataRequest, ReceiveFrame, PendingDataTimeout, TxInterrupt, txVars
    <3>3. ~ RunCallback
      BY <3>1 DEF RunCallback, CommandAccept, HandleDataFrame, AcceptAssRequest,
         AssociateIndication, AssociateResponse, DataConfirmOrIndication,
         CommStatusIndication, txVars
    <3>4. ~ (HandleMcpsDataReq \/ HandleBeaconReq \/ McpsDataReqContinue \/ DataRequestContinue
             \/ DataRequestContinueRaced)
      BY <3>1 DEF HandleMcpsDataReq, HandleBeaconReq, McpsDataReqContinue, DataRequestContinue,
         DataRequestContinueRaced, TxComplete, txVars
    <3> QED
      BY <3>2, <3>3, <3>4 DEF Next, MacMainLoopTx
  <2>2. check_pending_data(frame[TxParam].peer) # {}
    <3>1. CASE check_pending_data(frame[TxParam].peer) = {}
      <4>1. tx_wait_cb' = tx_wait_cb
        BY <2>1, <3>1, Zenon DEF AcceptDataRequest
      <4> QED
        BY <1>2, <1>4, <4>1 DEF DataRequestInProgress
    <3> QED
      BY <3>1
  <2>3. PICK i \in check_pending_data(frame[TxParam].peer) :
          /\ data_found_index' = i
          /\ sent' = [req |-> TxParam, data |-> pending_data_queue[i]]
    BY <2>1, <2>2, FoundFirst DEF AcceptDataRequest
  <2>4. UNCHANGED <<frame, slotVars>>
    BY <2>1, <2>2, Zenon DEF AcceptDataRequest
  <2>5. frame[pending_data_queue[i]].peer = frame[TxParam].peer
    BY DEF check_pending_data
  <2> QED
    BY <2>3, <2>4, <2>5 DEF Answer, slotVars
<1>5. CASE DataRequestInProgress
  <2> DEFINE d == sent.data
  <2>1. d \in Bufs /\ sent.req \in Bufs /\ data_found_index \in Slots
    BY <1>1, <1>5 DEF Waits, Types
  <2>2. UNCHANGED <<data_found_index, sent>>
    BY <1>1, <1>2, <1>5, <2>1, FrameWrites
  <2>3. ASSUME GivenUp(d)' PROVE Answer'
    <3>1. \A b \in Bufs : GivenUp(b)' => pending_data_queue'[data_found_index] # b
      BY <2>1, GivenUpNotPending
    <3>2. PICK b \in Bufs : b = sent.data /\ b = sent'.data
      BY <2>1, <2>2
    <3>3. GivenUp(b)'
      BY <2>3, <3>2 DEF GivenUp
    <3>4. pending_data_queue'[data_found_index] # d
      BY <3>1, <3>2, <3>3
    <3> QED
      BY <2>2, <2>3, <3>4 DEF Answer
  <2>4. CASE pending_data_queue[data_found_index] # d
    BY <1>1, <1>2, <1>5, <2>1, <2>2, <2>3, <2>4, GivenUpStays DEF Answer
  <2>5. CASE pending_data_queue[data_found_index] = d
    <3>1. frame[d].peer = frame[sent.req].peer
      BY <1>1, <1>5, <2>5 DEF Answer
    <3>2. d \notin pool /\ (cb_q # << >> => Param # d)
      BY <1>1, <2>1, <2>5, PendingPlace
    <3>3. RunCallback => cb_q # << >>
      BY DEF RunCallback, CommandAccept, HandleDataFrame, AcceptAssRequest,
         AssociateIndication, AssociateResponse, DataConfirmOrIndication,
         CommStatusIndication, Head_is
    <3>4. CASE PendingDataTimeout(data_found_index)
      <4>1. cb_q' = Append(cb_q, Entry("zb_mlme_comm_status_indication", d))
            /\ frame' = [frame EXCEPT ![d] = [kind |-> "failure", peer |-> NoAddr]]
        BY <2>5, <3>4 DEF PendingDataTimeout, Fill
      <4>2. Entry("zb_mlme_comm_status_indication", d) \in CbEntries /\ cb_q \in Seq(CbEntries)
        BY <1>1, <2>1, EntryIn DEF CbFuncs, Types
      <4>3. Queued(cb_q', Entry("zb_mlme_comm_status_indication", d))
        BY <4>1, <4>2, AppendProperties, LenProperties DEF Queued
      <4>4. frame'[d].kind = "failure"
        BY <1>1, <2>1, <4>1 DEF Types
      <4> QED
        BY <2>2, <2>3, <4>3, <4>4 DEF GivenUp
    <3>5. CASE ~PendingDataTimeout(data_found_index)
      <4>1. pending_data_queue'[data_found_index] = d
        BY <1>1, <1>2, <1>5, <2>1, <2>5, <3>5, SlotWrites, MacTxAssumption
      <4>2. frame'[d] = frame[d]
        <5>1. ASSUME NEW j \in Slots, PendingDataTimeout(j) PROVE d # pending_data_queue[j]
          BY <1>1, <2>1, <2>5, <3>5, <5>1, OneSlot
        <5> QED
          BY <1>1, <1>2, <1>5, <2>1, <3>2, <3>3, <5>1, FrameWrites
      <4>3. frame'[sent.req] = frame[sent.req]
        <5>1. AtRequest(sent.req) = 1
          BY <1>5 DEF AtRequest
        <5>2. sent.req \notin pool
          BY <1>1, <5>1, FreePlace
        <5>3. cb_q # << >> => Param # sent.req
          BY <1>1, <5>1, ParamPlace
        <5>4. \A j \in Slots : pending_data_queue[j] # sent.req
          <6>1. PICK s, r \in Nat : /\ s = SlotUses(pending_data_queue, sent.req)
                                    /\ r = AtRequest(sent.req) /\ s + r <= 1
            BY <1>1, <2>1, PlaceNumbers
          <6>2. s = 0
            BY <5>1, <6>1
          <6>3. SlotUses(pending_data_queue, sent.req) = 0
            BY <6>1, <6>2
          <6> QED
            BY <6>3, SlotUsesType
        <5> QED
          BY <1>1, <1>2, <1>5, <2>1, <3>3, <5>2, <5>3, <5>4, FrameWrites
      <4> QED
        BY <2>2, <3>1, <4>1, <4>2, <4>3 DEF Answer
    <3> QED
      BY <3>4, <3>5
  <2> QED
    BY <2>4, <2>5
<1> QED
  BY <1>4, <1>5

-----------------------------------------------------------------------------
(* The theorems. *)

LEMMA InitIInv == Init => IInv
<1> SUFFICES ASSUME Init PROVE IInv
  OBVIOUS
<1>1. 1 \in Slots
  BY MacTxAssumption DEF Slots
<1>2. Types
  <2>1. << >> \in Seq(TxEntries) /\ << >> \in Seq(CbEntries)
    BY EmptySeq
  <2>2. NoFrame \in [kind : FrameKinds, peer : Peers]
    BY FramesAreTyped DEF FrameType
  <2>3. [i \in Slots |-> NoBuf] \in [Slots -> Bufs \cup {NoBuf}]
    OBVIOUS
  <2>4. [b \in Bufs |-> NoFrame] \in [Bufs -> [kind : FrameKinds, peer : Peers]]
    BY <2>2
  <2>5. mac_tx_q \in Seq(TxEntries) /\ cb_q \in Seq(CbEntries)
    BY <2>1 DEF Init
  <2>6. /\ tx_wait_cb \in {"none", "zb_handle_mcps_data_req_continue",
                           "zb_handle_data_request_cmd_continue"}
        /\ tx_cnt \in 0 .. 1 /\ air \in 0 .. 2 /\ overlap \in BOOLEAN /\ raced \in BOOLEAN
    <3>1. tx_wait_cb = "none" /\ tx_cnt = 0 /\ air = 0
      BY DEF Init
    <3>2. overlap \in BOOLEAN /\ raced \in BOOLEAN
      BY Zenon DEF Init
    <3> QED
      BY <3>1, <3>2
  <2>7. /\ pending_data_queue \in [Slots -> Bufs \cup {NoBuf}]
        /\ frame \in [Bufs -> [kind : FrameKinds, peer : Peers]]
    BY <2>3, <2>4 DEF Init
  <2>8. /\ data_found_index \in Slots /\ timeouts \subseteq Slots /\ pending_bit \in BOOLEAN
        /\ pool \subseteq Bufs
    BY <1>1 DEF Init
  <2> QED
    BY <2>5, <2>6, <2>7, <2>8 DEF Types
<1>3. Radio /\ SlotsKept /\ Waits /\ Answer
  BY MacTxAssumption DEF Init, Radio, TxDoneIsOwn, SlotsKept, TimeoutPerSlot, PendingBitRight,
     Full, Waits, Answer, DataRequestInProgress
<1>4. ASSUME NEW b \in Bufs PROVE Places(b) = 1
  <2>1. Uses(mac_tx_q, b) = 0 /\ Uses(cb_q, b) = 0
    <3>1. {k \in DOMAIN << >> : << >>[k].param = b} = {}
      OBVIOUS
    <3> QED
      BY <3>1, FS_EmptySet DEF Init, Uses
  <2>2. SlotUses(pending_data_queue, b) = 0
    <3>1. {i \in Slots : pending_data_queue[i] = b} = {}
      BY MacTxAssumption DEF Init
    <3> QED
      BY <3>1, FS_EmptySet DEF SlotUses
  <2>3. /\ AtRadio(b) = 0 /\ AtRequest(b) = 0
        /\ InSet(pool, b) = 1 /\ InSet(lost, b) = 0 /\ InSet(out, b) = 0
    BY DEF Init, AtRadio, AtRequest, DataRequestInProgress, InSet
  <2> QED
    BY <2>1, <2>2, <2>3 DEF Places
<1> QED
  <2>1. OnePlace /\ ~raced
    BY <1>4 DEF OnePlace, Init
  <2> QED
    BY <1>2, <1>3, <2>1 DEF IInv

LEMMA NextIInv == IInv /\ [Next]_vars => IInv'
<1> SUFFICES ASSUME IInv, [Next]_vars PROVE IInv'
  OBVIOUS
<1>1. CASE UNCHANGED vars
  <2>1. Types' /\ Radio' /\ SlotsKept'
    BY <1>1 DEF IInv, vars, txVars, radioVars, slotVars, bufVars, Types, Radio, TxDoneIsOwn,
       SlotsKept, TimeoutPerSlot, PendingBitRight, Full
  <2>2. IF raced THEN ~ContextSafe' ELSE OnePlace' /\ Waits' /\ Answer'
    BY <1>1 DEF IInv, ContextSafe, Context, vars, txVars, radioVars, slotVars, bufVars, OnePlace, Places, AtRadio,
       AtRequest, DataRequestInProgress, InSet, Waits, Answer, GivenUp, Queued
  <2> QED
    BY <1>1, <2>1, <2>2 DEF IInv, vars, txVars
<1>2. CASE Next
  <2>1. Types' /\ SlotsKept' /\ Radio'
    BY <1>2, TypesKept, RadioKept DEF IInv
  <2>2. ASSUME ~raced' PROVE OnePlace' /\ Waits' /\ Answer'
    <3>1. ~raced
      BY <1>2, <2>2 DEF Next, McpsDataRequest, ReceiveFrame, RunCallback, CommandAccept,
         HandleDataFrame, AcceptAssRequest, AssociateIndication, AssociateResponse,
         DataConfirmOrIndication, CommStatusIndication, Head_is, PendingDataTimeout,
         MacMainLoopTx, HandleMcpsDataReq, AcceptDataRequest, HandleBeaconReq, TxEntry,
         McpsDataReqContinue, DataRequestContinue, DataRequestContinueRaced, TxWaited,
         TxInterrupt
    <3>2. OnePlace' /\ Waits'
      BY <1>2, <2>1, <2>2, <3>1, PlacesKept, WaitsKept DEF IInv
    <3> QED
      BY <1>2, <2>1, <2>2, <3>1, <3>2, AnswerKept
  <2>3. ASSUME raced' PROVE ~ContextSafe'
    <3>1. DataRequestContinueRaced
      BY <1>2, <2>3 DEF Next, McpsDataRequest, ReceiveFrame, RunCallback, CommandAccept,
         HandleDataFrame, AcceptAssRequest, AssociateIndication, AssociateResponse,
         DataConfirmOrIndication, CommStatusIndication, Head_is, PendingDataTimeout,
         MacMainLoopTx, HandleMcpsDataReq, AcceptDataRequest, HandleBeaconReq, TxEntry,
         McpsDataReqContinue, DataRequestContinue, TxWaited, TxComplete, TxInterrupt, txVars
    <3> QED
      BY <3>1 DEF DataRequestContinueRaced, TxWaited, ContextSafe, Context,
         DataRequestInProgress, slotVars
  <2> QED
    BY <2>1, <2>2, <2>3 DEF IInv
<1> QED
  BY <1>1, <1>2

\* The inductive invariant holds in every behaviour.
THEOREM SpecIInv == Spec => []IInv
BY InitIInv, NextIInv, PTL DEF Spec

\* As long as the context of a data request in progress is untouched, every buffer is in
\* one place: none is freed twice, handed on twice or forgotten; and the pending slots,
\* their alarms and the radio's pending bit always agree.
THEOREM SpecBuffersSound == Spec => []BuffersSound
<1>1. IInv => BuffersSound
  <2> SUFFICES ASSUME IInv, ~raced, ContextSafe, NEW b \in Bufs PROVE Owners(b) = 1
    BY DEF IInv, BuffersSound, OneOwner
  <2>1. Places(b) = 1
    BY DEF IInv, OnePlace
  <2>2. DataRequestInProgress => pending_buf = sent.req
    BY DEF ContextSafe, Context
  <2>3. /\ One(tx_wait_cb = "zb_handle_mcps_data_req_continue" /\ tx_wait_cb_arg = b) = AtRadio(b)
        /\ One(DataRequestInProgress /\ pending_buf = b) = AtRequest(b)
        /\ One(b \in pool) = InSet(pool, b) /\ One(b \in lost) = InSet(lost, b)
        /\ One(b \in out) = InSet(out, b)
    BY <2>2 DEF One, AtRadio, AtRequest, InSet
  <2> QED
    BY <2>1, <2>3 DEF Owners, Places, SlotUses
<1> QED
  BY <1>1, SpecIInv, PTL

\* A transmission that is taken for done is done, unless it began under another one, and
\* the frame sent for a data request is one for the device that asked.
THEOREM SpecTransmissionsRight == Spec => []TransmissionsRight
<1>1. IInv => TransmissionsRight
  <2> SUFFICES ASSUME IInv, DataRequestInProgress, ContextSafe
               PROVE  frame[sent.data].peer = frame[sent.req].peer
    BY DEF IInv, Radio, TransmissionsRight, SentToRequester
  <2>1. pending_data_queue[data_found_index] = sent.data
    BY DEF ContextSafe, Context
  <2>2. Answer
    BY DEF IInv
  <2> QED
    BY <2>1, <2>2 DEF Answer
<1> QED
  BY <1>1, SpecIInv, PTL
=============================================================================
