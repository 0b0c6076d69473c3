------------------------ MODULE ZbNwkBroadcast_proofs ------------------------
(***************************************************************************)
(* Broadcast retransmission for any number of buffers and frames, any      *)
(* neighbor table and any table sizes: a frame that is kept is kept once,  *)
(* and while the counters count, something is on its way to send it.  Then *)
(* what a manager broadcasts: the PAN id and the channel of a network, for *)
(* any routers, PAN ids, channels and number of changes.                   *)
(***************************************************************************)
EXTENDS ZbNwkBroadcast, ZbNwkPanId, FiniteSetTheorems, WellFoundedInduction, TLAPS

\* A buffer kept for retransmission is in one entry in use, and those only.
Kept ==
  /\ \A i \in InBrrt : loc[brrt[i].buf] = "brrt"
  /\ \A i, j \in InBrrt : brrt[i].buf = brrt[j].buf => i = j
  /\ \A b \in Bufs : loc[b] = "brrt" => \E i \in InBrrt : brrt[i].buf = b

\* One that waits for a second buffer is once in wait_alloc, and those only.
Waits ==
  /\ \A k \in DOMAIN wait_alloc : loc[wait_alloc[k]] = "wait"
  /\ \A k, m \in DOMAIN wait_alloc : wait_alloc[k] = wait_alloc[m] => k = m
  /\ \A b \in Bufs : loc[b] = "wait" => \E k \in DOMAIN wait_alloc : wait_alloc[k] = b

\* The broadcast transaction table is never more than full.
BttFits == IsFiniteSet(InBtt) /\ Cardinality(InBtt) <= BttSize

\* The inductive invariant.
IInv == TypeOK /\ wait_alloc \in Seq(Bufs) /\ BttFits /\ Kept /\ Waits /\ ChainsAlive

-----------------------------------------------------------------------------
(* Numbers, slots and entries. *)

\* A set of numbers that is not empty has a first one.
LEMMA FirstIsIn ==
  ASSUME NEW S \in SUBSET Nat, S # {}
  PROVE  First(S) \in S
<1>1. PICK i \in S : \A j \in S : <<j, i>> \notin OpToRel(<, Nat)
  BY NatLessThanWellFounded, WFMin, Zenon
<1>2. ASSUME NEW j \in S PROVE i <= j
  <2>1. <<j, i>> \notin OpToRel(<, Nat) /\ <<j, i>> \in Nat \X Nat
    BY <1>1
  <2>2. ~ (j < i)
    BY <2>1, Zenon DEF OpToRel
  <2> QED
    BY <2>2
<1>3. \E k \in S : \A j \in S : k <= j
  BY <1>2
<1> QED
  BY <1>3 DEF First

\* The sizes of the tables.
LEMMA Sizes ==
  /\ Slots \in SUBSET Nat /\ IsFiniteSet(Slots) /\ Cardinality(Slots) <= 254
  /\ Cardinality(Table) \in Nat /\ Done \in Nat /\ Table = 0 .. Done - 1
<1>1. BrrtSize \in 1 .. 254
  BY BroadcastAssumption
<1>2. IsFiniteSet(Slots) /\ Cardinality(Slots) = BrrtSize
  BY <1>1, FS_Interval DEF Slots
<1>3. Cardinality(Table) \in Nat
  BY BroadcastAssumption, FS_CardinalityType
<1>4. Slots \in SUBSET Nat /\ Cardinality(Slots) <= 254
  BY <1>1, <1>2 DEF Slots
<1>5. Done = Cardinality(Table) /\ Table = 0 .. Cardinality(Table) - 1
  BY BroadcastAssumption DEF Done
<1> QED
  BY <1>2, <1>3, <1>4, <1>5

\* How many entries there are.
LEMMA EntriesCount ==
  /\ IsFiniteSet(InBrrt) /\ Cardinality(InBrrt) \in 0 .. 254
  /\ InBrrt \subseteq Slots /\ InBrrt \in SUBSET Nat
<1>1. InBrrt \subseteq Slots
  BY DEF InBrrt
<1>2. IsFiniteSet(InBrrt) /\ Cardinality(InBrrt) <= Cardinality(Slots)
  BY <1>1, Sizes, FS_Subset
<1>3. Cardinality(InBrrt) \in Nat /\ Cardinality(Slots) \in Nat
  BY <1>2, Sizes, FS_CardinalityType
<1>4. Cardinality(InBrrt) \in 0 .. 254
  <2>1. Cardinality(Slots) <= 254
    BY Sizes
  <2> QED
    BY <1>2, <1>3, <2>1
<1>5. InBrrt \in SUBSET Nat
  BY <1>1, Sizes
<1> QED
  BY <1>1, <1>2, <1>4, <1>5

\* The counter counts the entries after some have ended only if it did before.
LEMMA CountGoesDown ==
  ASSUME brrt_cnt \in 0 .. 255, NEW D \in SUBSET InBrrt, InBrrt' = InBrrt \ D,
         brrt_cnt' = (brrt_cnt - Cardinality(D)) % 256
  PROVE  brrt_cnt' \in 0 .. 255 /\ (brrt_cnt' = Cardinality(InBrrt') => brrt_cnt = Cardinality(InBrrt))
<1>1. IsFiniteSet(D) /\ Cardinality(D) \in Nat /\ Cardinality(D) <= Cardinality(InBrrt)
  BY EntriesCount, FS_Subset, FS_CardinalityType
<1>2. D \cap InBrrt = D
  OBVIOUS
<1>3. Cardinality(InBrrt \ D) = Cardinality(InBrrt) - Cardinality(D)
  BY <1>2, EntriesCount, FS_Difference
<1>4. Cardinality(InBrrt) \in 0 .. 254
  BY EntriesCount
<1>5. \A c \in 0 .. 255 : \A n \in 0 .. 254 :
        /\ (c - n) % 256 = IF n <= c THEN c - n ELSE c - n + 256
        /\ (c - n) % 256 \in 0 .. 255
  OBVIOUS
<1>6. Cardinality(D) \in 0 .. 254
  BY <1>1, <1>4
<1>7. brrt_cnt' = IF Cardinality(D) <= brrt_cnt THEN brrt_cnt - Cardinality(D)
                                                ELSE brrt_cnt - Cardinality(D) + 256
  BY <1>5, <1>6
<1>8. Cardinality(InBrrt') = Cardinality(InBrrt) - Cardinality(D)
  BY <1>3
<1>9. ASSUME NEW n \in 0 .. 254, NEW m \in 0 .. 254, n <= m,
             brrt_cnt' = IF n <= brrt_cnt THEN brrt_cnt - n ELSE brrt_cnt - n + 256
      PROVE  brrt_cnt' \in 0 .. 255 /\ (brrt_cnt' = m - n => brrt_cnt = m)
  BY <1>9
<1> QED
  BY <1>1, <1>4, <1>6, <1>7, <1>8, <1>9

\* The search for a child ends at one, or at the end.
LEMMA NextChildType ==
  ASSUME NEW f, NEW n
  PROVE  NextChild(f, n) \in 0 .. Done
<1> DEFINE C == {k \in Table : k >= n /\ k < Cardinality(Used) /\ Kind[k] = "child"}
<1>1. C \in SUBSET Nat /\ C \subseteq Table
  BY Sizes
<1>2. C # {} => First(C) \in C
  BY <1>1, FirstIsIn
<1>3. NextChild(f, n) = IF C = {} \/ f \in RoutersOnly THEN Done ELSE First(C)
  BY DEF NextChild
<1> HIDE DEF C
<1>4. Done \in 0 .. Done /\ \A k \in Table : k \in 0 .. Done
  BY Sizes
<1> QED
  BY <1>1, <1>2, <1>3, <1>4

LEMMA NoEntryType == NoEntry \in Entry /\ ~NoEntry.used
<1>1. (CHOOSE b \in Bufs : TRUE) \in Bufs
  BY BroadcastAssumption
<1> QED
  BY <1>1, Sizes DEF NoEntry, Entry

\* What changes of an entry leaves its buffer and its use.
LEMMA EntryChanges ==
  ASSUME NEW e \in Entry, NEW n \in 0 .. Done, NEW A \in SUBSET Table
  PROVE  /\ [e EXCEPT !.iter = n] \in Entry
         /\ [e EXCEPT !.iter = n].used = e.used /\ [e EXCEPT !.iter = n].buf = e.buf
         /\ [e EXCEPT !.acks = A] \in Entry
         /\ [e EXCEPT !.acks = A].used = e.used /\ [e EXCEPT !.acks = A].buf = e.buf
         /\ [e EXCEPT !.due = TRUE] \in Entry
         /\ [e EXCEPT !.due = TRUE].used = e.used /\ [e EXCEPT !.due = TRUE].buf = e.buf
BY DEF Entry

\* A transmission to a child, and one to all.
LEMMA EntryChangesTwice ==
  ASSUME NEW e \in Entry, NEW n \in 0 .. Done, NEW A \in SUBSET Table, NEW r \in Nat
  PROVE  /\ [e EXCEPT !.acks = A, !.iter = n] \in Entry
         /\ [e EXCEPT !.acks = A, !.iter = n].used = e.used
         /\ [e EXCEPT !.acks = A, !.iter = n].buf = e.buf
         /\ [e EXCEPT !.retries = r, !.due = FALSE] \in Entry
         /\ [e EXCEPT !.retries = r, !.due = FALSE].used = e.used
         /\ [e EXCEPT !.retries = r, !.due = FALSE].buf = e.buf
BY DEF Entry

\* The fields of an entry.
LEMMA EntryTypes ==
  ASSUME TypeOK, NEW i \in Slots
  PROVE  /\ brrt[i] \in Entry /\ brrt[i].used \in BOOLEAN /\ brrt[i].buf \in Bufs
         /\ brrt[i].iter \in 0 .. Done /\ brrt[i].acks \in SUBSET Table
<1>1. brrt[i] \in Entry
  BY DEF TypeOK
<1> QED
  BY <1>1 DEF Entry

-----------------------------------------------------------------------------
(* What the steps are made of. *)

\* Entries end: their buffers are kept no more.
LEMMA KeptEnds ==
  ASSUME TypeOK, Kept, NEW D \in SUBSET InBrrt, InBrrt' = InBrrt \ D,
         \A i \in InBrrt \ D : brrt'[i].buf = brrt[i].buf,
         \A b \in Bufs : loc'[b] = "brrt" <=> loc[b] = "brrt" /\ \A i \in D : brrt[i].buf # b
  PROVE  Kept'
<1>1. \A i \in InBrrt : brrt[i].buf \in Bufs
  BY EntryTypes DEF InBrrt
<1> QED
  BY <1>1 DEF Kept

\* Nothing happens to the buffers that wait.
LEMMA WaitsStay ==
  ASSUME wait_alloc \in Seq(Bufs), Waits, wait_alloc' = wait_alloc,
         \A b \in Bufs : loc'[b] = "wait" <=> loc[b] = "wait"
  PROVE  Waits'
<1>1. \A k \in DOMAIN wait_alloc : wait_alloc[k] \in Bufs
  OBVIOUS
<1> QED
  BY <1>1 DEF Waits

\* Neither to those that are kept.
LEMMA KeptStay ==
  ASSUME TypeOK, Kept, \A i \in Slots : brrt'[i].used = brrt[i].used /\ brrt'[i].buf = brrt[i].buf,
         \A b \in Bufs : loc'[b] = "brrt" <=> loc[b] = "brrt"
  PROVE  Kept' /\ InBrrt' = InBrrt
<1>1. InBrrt' = InBrrt
  BY DEF InBrrt
<1>2. \A i \in InBrrt : brrt[i].buf \in Bufs /\ brrt'[i].buf = brrt[i].buf
  BY EntryTypes DEF InBrrt
<1> QED
  BY <1>1, <1>2 DEF Kept

\* A frame gets an entry of btt.
LEMMA BttAdded ==
  ASSUME TypeOK, BttFits, NEW f \in Frames, f \notin InBtt, Cardinality(InBtt) # BttSize, AddBtt(f),
         btt_cnt = Cardinality(InBtt) /\ InBtt # {} => btt_alarm = 1
  PROVE  /\ btt' \in [Frames -> -1 .. Lifetime] /\ btt_cnt' \in 0 .. 255 /\ btt_alarm' \in 0 .. 1
         /\ BttFits'
         /\ btt_cnt' = Cardinality(InBtt') /\ InBtt' # {} => btt_alarm' = 1
<1>1. /\ btt \in [Frames -> -1 .. Lifetime] /\ btt_cnt \in 0 .. 255 /\ btt_alarm \in 0 .. 1
      /\ Lifetime \in Nat /\ BttSize \in 1 .. 254
  BY BroadcastAssumption DEF TypeOK
<1>2. /\ btt' \in [Frames -> -1 .. Lifetime] /\ InBtt' = InBtt \cup {f}
  BY <1>1 DEF AddBtt, InBtt
<1>3. IsFiniteSet(InBtt') /\ Cardinality(InBtt') = Cardinality(InBtt) + 1
  BY <1>2, FS_AddElement DEF BttFits
<1>4. Cardinality(InBtt) \in Nat /\ Cardinality(InBtt) < BttSize
  BY <1>1, FS_CardinalityType DEF BttFits
<1>5. \A c \in 0 .. 255 : (c + 1) % 256 = IF c = 255 THEN 0 ELSE c + 1
  OBVIOUS
<1>6. btt_cnt' = IF btt_cnt = 255 THEN 0 ELSE btt_cnt + 1
  BY <1>1, <1>5 DEF AddBtt
<1>7. btt_alarm' = IF btt_cnt' = 1 THEN 1 ELSE btt_alarm
  BY DEF AddBtt
<1>8. InBtt = {} => Cardinality(InBtt) = 0
  BY FS_EmptySet
<1>9. btt_cnt' = Cardinality(InBtt') => btt_alarm' = 1
  BY <1>1, <1>3, <1>4, <1>6, <1>7, <1>8
<1> QED
  BY <1>1, <1>2, <1>3, <1>4, <1>6, <1>7, <1>9 DEF BttFits

\* A passive acknowledgement ends the entries that need no more.
LEMMA PassiveAckEnds ==
  ASSUME TypeOK, NEW f \in Frames, NEW n \in Senders(f), PassiveAck(f, n)
  PROVE  /\ brrt' \in [Slots -> Entry] /\ Acked(f, n) \in SUBSET InBrrt
         /\ InBrrt' = InBrrt \ Acked(f, n)
         /\ \A i \in InBrrt \ Acked(f, n) : brrt'[i].buf = brrt[i].buf
<1>1. n \in Table \cup {-1}
  BY BroadcastAssumption DEF Senders
<1>2. \A i \in Slots : AcksWith(i, n) \in SUBSET Table
  BY <1>1, EntryTypes DEF AcksWith
<1>3. Acked(f, n) \in SUBSET InBrrt /\ InBrrt \subseteq Slots
  BY DEF Acked, EntryOf, InBrrt
<1>4. /\ DOMAIN brrt' = Slots
      /\ \A i \in Slots : \/ i \in Acked(f, n) /\ brrt'[i] = NoEntry
                          \/ /\ i \notin Acked(f, n)
                             /\ \/ brrt'[i] = [brrt[i] EXCEPT !.acks = AcksWith(i, n)]
                                \/ brrt'[i] = brrt[i]
      /\ brrt' = [i \in Slots |-> brrt'[i]]
  BY DEF PassiveAck
<1>5. ASSUME NEW i \in Slots
      PROVE  /\ brrt'[i] \in Entry
             /\ i \in Acked(f, n) => ~brrt'[i].used
             /\ i \notin Acked(f, n) => brrt'[i].used = brrt[i].used /\ brrt'[i].buf = brrt[i].buf
  <2>1. /\ brrt[i] \in Entry /\ AcksWith(i, n) \in SUBSET Table
        /\ [brrt[i] EXCEPT !.acks = AcksWith(i, n)] \in Entry
        /\ [brrt[i] EXCEPT !.acks = AcksWith(i, n)].used = brrt[i].used
        /\ [brrt[i] EXCEPT !.acks = AcksWith(i, n)].buf = brrt[i].buf
    BY <1>2, EntryTypes, EntryChanges, Sizes
  <2> QED
    BY <1>4, <2>1, NoEntryType
<1>6. brrt' \in [Slots -> Entry]
  BY <1>4, <1>5
<1>7. InBrrt' = InBrrt \ Acked(f, n)
  BY <1>3, <1>5 DEF InBrrt
<1> QED
  BY <1>3, <1>5, <1>6, <1>7

\* What a step that leaves the tables alone keeps.
LEMMA FramesMove ==
  ASSUME IInv, NEW b \in Bufs, loc[b] \in {"idle", "forward", "last"},
         NEW place \in {"idle", "forward", "last"}, Move(b, place), frm' \in [Bufs -> Frames],
         UNCHANGED <<tables, chain, waits, broken>>
  PROVE  IInv'
<1>1. TypeOK'
  BY DEF IInv, TypeOK, Move, tables, chain, waits
<1>2. \A c \in Bufs : loc'[c] = IF c = b THEN place ELSE loc[c]
  BY DEF IInv, TypeOK, Move
<1>3. Kept'
  BY <1>2, KeptStay DEF IInv, tables
<1>4. Waits'
  BY <1>2, WaitsStay DEF IInv, waits
<1>5. BttFits' /\ ChainsAlive' /\ wait_alloc' \in Seq(Bufs)
  BY DEF IInv, BttFits, ChainsAlive, InBtt, InBrrt, tables, chain, waits
<1> QED
  BY <1>1, <1>3, <1>4, <1>5 DEF IInv

\* A buffer that is freed.
LEMMA FreedMoves ==
  ASSUME TypeOK, NEW b \in Bufs, Freed(b)
  PROVE  Move(b, "idle") /\ frm' \in [Bufs -> Frames]
<1>1. AnyFrame \in Frames
  BY BroadcastAssumption DEF AnyFrame, Frames
<1> QED
  BY <1>1 DEF Freed, Move, TypeOK

-----------------------------------------------------------------------------
(* One lemma for each action. *)

LEMMA DataRequestIInv ==
  ASSUME IInv, NEW b \in Bufs, NEW f \in Own, DataRequest(b, f)
  PROVE  IInv'
<1>1. f \in Frames /\ frm' \in [Bufs -> Frames]
  BY DEF DataRequest, Frames, IInv, TypeOK
<1> QED
  BY <1>1, FramesMove DEF DataRequest

LEMMA ConfirmIInv ==
  ASSUME IInv, NEW b \in Bufs, Confirm(b)
  PROVE  IInv'
<1>1. Move(b, "idle") /\ frm' \in [Bufs -> Frames]
  BY FreedMoves DEF Confirm, IInv
<1> QED
  BY <1>1, FramesMove DEF Confirm

\* A frame that is known acknowledges passively.
LEMMA RecvDroppedIInv ==
  ASSUME IInv, NEW f \in Frames, NEW n \in Senders(f), RecvDropped(f, n)
  PROVE  IInv'
<1> DEFINE D == Acked(f, n)
<1>1. /\ PassiveAck(f, n) /\ loc' = PlacesAfterAck(f, n, {})
      /\ UNCHANGED <<btt, btt_cnt, btt_alarm, frm, chain, waits, broken>>
  BY DEF RecvDropped
<1>2. /\ brrt' \in [Slots -> Entry] /\ D \in SUBSET InBrrt /\ InBrrt' = InBrrt \ D
      /\ \A i \in InBrrt \ D : brrt'[i].buf = brrt[i].buf
  BY <1>1, PassiveAckEnds DEF IInv
<1>3. /\ loc' \in [Bufs -> {"idle", "forward", "wait", "brrt", "last"}]
      /\ \A c \in Bufs : loc'[c] = IF \E i \in D : brrt[i].buf = c THEN "last" ELSE loc[c]
  BY <1>1 DEF PlacesAfterAck, IInv, TypeOK
<1>4. \A c \in Bufs : (\E i \in D : brrt[i].buf = c) => loc[c] = "brrt"
  BY <1>2 DEF IInv, Kept
<1>5. brrt_cnt' \in 0 .. 255 /\ (brrt_cnt' = Cardinality(InBrrt') => brrt_cnt = Cardinality(InBrrt))
  <2>1. brrt_cnt' = (brrt_cnt - Cardinality(D)) % 256
    BY <1>1 DEF PassiveAck
  <2> QED
    BY <1>2, <2>1, CountGoesDown DEF IInv, TypeOK
<1> HIDE DEF D
<1>6. TypeOK'
  BY <1>1, <1>2, <1>3, <1>5 DEF IInv, TypeOK, chain, waits
<1>7. Kept'
  BY <1>2, <1>3, <1>4, KeptEnds DEF IInv
<1>8. Waits'
  BY <1>1, <1>3, <1>4, WaitsStay DEF IInv, waits
<1>9. BttFits' /\ ChainsAlive' /\ wait_alloc' \in Seq(Bufs)
  BY <1>1, <1>2, <1>5 DEF IInv, BttFits, ChainsAlive, InBtt, chain, waits
<1> QED
  BY <1>6, <1>7, <1>8, <1>9 DEF IInv

LEMMA RecvNewIInv ==
  ASSUME IInv, NEW b \in Bufs, NEW f \in Frames, NEW n \in Senders(f), NEW radius \in BOOLEAN,
         RecvNew(b, f, n, radius)
  PROVE  IInv'
<1> DEFINE D == Acked(f, n)
           waiting == radius /\ Len(wait_alloc) < WaitSize
           W == IF waiting THEN {b} ELSE {}
<1>1. /\ f \notin InBtt /\ Cardinality(InBtt) < BttSize /\ loc[b] = "idle"
      /\ AddBtt(f) /\ PassiveAck(f, n) /\ loc' = PlacesAfterAck(f, n, W)
      /\ frm' = IF waiting THEN [frm EXCEPT ![b] = f] ELSE frm
      /\ wait_alloc' = IF waiting THEN <<b>> \o wait_alloc ELSE wait_alloc
      /\ in_reqs' = IF waiting THEN in_reqs + 1 ELSE in_reqs
      /\ UNCHANGED <<chain, leaked, broken>>
  BY DEF RecvNew
<1>2. /\ brrt' \in [Slots -> Entry] /\ D \in SUBSET InBrrt /\ InBrrt' = InBrrt \ D
      /\ \A i \in InBrrt \ D : brrt'[i].buf = brrt[i].buf
  BY <1>1, PassiveAckEnds DEF IInv
<1>3. /\ loc' \in [Bufs -> {"idle", "forward", "wait", "brrt", "last"}]
      /\ \A c \in Bufs : loc'[c] = IF c \in W THEN "wait"
                                   ELSE IF \E i \in D : brrt[i].buf = c THEN "last" ELSE loc[c]
  BY <1>1 DEF PlacesAfterAck, IInv, TypeOK
<1>4. \A c \in Bufs : (\E i \in D : brrt[i].buf = c) => loc[c] = "brrt"
  BY <1>2 DEF IInv, Kept
<1>5. brrt_cnt' \in 0 .. 255 /\ (brrt_cnt' = Cardinality(InBrrt') => brrt_cnt = Cardinality(InBrrt))
  <2>1. brrt_cnt' = (brrt_cnt - Cardinality(D)) % 256
    BY <1>1 DEF PassiveAck
  <2> QED
    BY <1>2, <2>1, CountGoesDown DEF IInv, TypeOK
<1>6. /\ btt' \in [Frames -> -1 .. Lifetime] /\ btt_cnt' \in 0 .. 255 /\ btt_alarm' \in 0 .. 1
      /\ BttFits'
      /\ btt_cnt' = Cardinality(InBtt') /\ InBtt' # {} => btt_alarm' = 1
  <2>1. Cardinality(InBtt) # BttSize
    BY <1>1, BroadcastAssumption
  <2> QED
    BY <1>1, <2>1, BttAdded DEF IInv, ChainsAlive
<1> HIDE DEF D
<1>7. Kept'
  <2>1. W \subseteq {b}
    OBVIOUS
  <2> HIDE DEF W
  <2>2. \A c \in Bufs : loc'[c] = "brrt" <=> loc[c] = "brrt" /\ \A i \in D : brrt[i].buf # c
    BY <1>1, <1>3, <1>4, <2>1
  <2> QED
    BY <1>2, <2>2, KeptEnds DEF IInv
<1>8. CASE waiting
  <2>1. /\ \A c \in Bufs : loc'[c] = "wait" <=> c = b \/ loc[c] = "wait"
        /\ loc[b] # "wait"
    BY <1>1, <1>3, <1>4, <1>8
  <2>2. /\ wait_alloc' \in Seq(Bufs) /\ wait_alloc' # <<>>
        /\ DOMAIN wait_alloc' = 1 .. Len(wait_alloc) + 1
        /\ wait_alloc'[1] = b
        /\ \A k \in DOMAIN wait_alloc : k + 1 \in DOMAIN wait_alloc' /\ wait_alloc'[k + 1] = wait_alloc[k]
        /\ \A k \in DOMAIN wait_alloc' : k = 1 \/ k - 1 \in DOMAIN wait_alloc
    <3>1. \A q \in Seq(Bufs) :
            /\ <<b>> \o q \in Seq(Bufs) /\ <<b>> \o q # <<>>
            /\ DOMAIN (<<b>> \o q) = 1 .. Len(q) + 1
            /\ (<<b>> \o q)[1] = b
            /\ \A k \in DOMAIN q : k + 1 \in DOMAIN (<<b>> \o q) /\ (<<b>> \o q)[k + 1] = q[k]
            /\ \A k \in DOMAIN (<<b>> \o q) : k = 1 \/ k - 1 \in DOMAIN q
      OBVIOUS
    <3>2. wait_alloc \in Seq(Bufs) /\ wait_alloc' = <<b>> \o wait_alloc
      BY <1>1, <1>8 DEF IInv
    <3> QED
      BY <3>1, <3>2
  <2>3. /\ DOMAIN wait_alloc \subseteq Nat
        /\ \A k \in DOMAIN wait_alloc : wait_alloc[k] \in Bufs /\ loc[wait_alloc[k]] = "wait"
        /\ \A k, m \in DOMAIN wait_alloc : wait_alloc[k] = wait_alloc[m] => k = m
        /\ \A c \in Bufs : loc[c] = "wait" => \E k \in DOMAIN wait_alloc : wait_alloc[k] = c
    BY DEF IInv, Waits
  <2>4. \A k \in DOMAIN wait_alloc' : \/ k = 1 /\ wait_alloc'[k] = b
                                      \/ /\ k - 1 \in DOMAIN wait_alloc
                                         /\ wait_alloc'[k] = wait_alloc[k - 1]
    <3> SUFFICES ASSUME NEW k \in DOMAIN wait_alloc', k # 1
                 PROVE  k - 1 \in DOMAIN wait_alloc /\ wait_alloc'[k] = wait_alloc[k - 1]
      BY <2>2
    <3>1. k - 1 \in DOMAIN wait_alloc /\ k \in Nat
      BY <2>2
    <3>2. wait_alloc'[k - 1 + 1] = wait_alloc[k - 1] /\ k - 1 + 1 = k
      BY <2>2, <3>1
    <3> QED
      BY <3>1, <3>2
  <2>5. Waits'
    <3>1. \A k \in DOMAIN wait_alloc' : loc'[wait_alloc'[k]] = "wait"
      BY <2>1, <2>3, <2>4
    <3>2. ASSUME NEW k \in DOMAIN wait_alloc', NEW m \in DOMAIN wait_alloc',
                 wait_alloc'[k] = wait_alloc'[m]
          PROVE  k = m
      <4>1. k \in Nat /\ m \in Nat
        BY <2>2
      <4>2. (k = 1 /\ m = 1) \/ k - 1 = m - 1
        BY <2>1, <2>3, <2>4, <3>2
      <4> QED
        BY <4>1, <4>2
    <3>3. \A c \in Bufs : loc'[c] = "wait" => \E k \in DOMAIN wait_alloc' : wait_alloc'[k] = c
      <4>1. 1 \in DOMAIN wait_alloc'
        BY <2>2
      <4> QED
        BY <2>1, <2>2, <2>3, <4>1
    <3> QED
      BY <3>1, <3>2, <3>3 DEF Waits
  <2>6. in_reqs' \in Nat /\ in_reqs' > 0 /\ frm' \in [Bufs -> Frames]
    BY <1>1, <1>8 DEF IInv, TypeOK
  <2>7. \A k \in DOMAIN wait_alloc' : wait_alloc'[k] \in Bufs
    BY <2>3, <2>4
  <2>8. TypeOK'
    BY <1>1, <1>2, <1>3, <1>5, <1>6, <2>6, <2>7 DEF IInv, TypeOK, chain
  <2>9. ChainsAlive'
    BY <1>1, <1>2, <1>5, <1>6, <2>6 DEF IInv, ChainsAlive, chain
  <2> QED
    BY <1>6, <1>7, <2>2, <2>5, <2>8, <2>9 DEF IInv
<1>9. CASE ~waiting
  <2>1. UNCHANGED <<wait_alloc, in_reqs, frm>> /\ \A c \in Bufs : loc'[c] = "wait" <=> loc[c] = "wait"
    BY <1>1, <1>3, <1>4, <1>9
  <2>2. TypeOK'
    BY <1>1, <1>2, <1>3, <1>5, <1>6, <2>1 DEF IInv, TypeOK, chain
  <2>3. ChainsAlive'
    BY <1>1, <1>2, <1>5, <1>6, <2>1 DEF IInv, ChainsAlive, chain
  <2>4. Waits' /\ wait_alloc' \in Seq(Bufs)
    BY <2>1, WaitsStay DEF IInv
  <2> QED
    BY <1>6, <1>7, <2>2, <2>3, <2>4 DEF IInv
<1> QED
  BY <1>8, <1>9

\* The second buffer comes: the first of those that wait goes on.
LEMMA NewBufferAllocatedIInv ==
  ASSUME IInv, NewBufferAllocated
  PROVE  IInv'
<1>1. in_reqs > 0 /\ in_reqs \in Nat /\ UNCHANGED <<frm, tables, chain, broken>>
  BY DEF NewBufferAllocated, IInv, TypeOK
<1>2. CASE wait_alloc = <<>>
  <2>1. leaked' = TRUE /\ in_reqs' = in_reqs - 1 /\ UNCHANGED <<wait_alloc, loc>>
    BY <1>2 DEF NewBufferAllocated
  <2>2. TypeOK'
    BY <1>1, <2>1 DEF IInv, TypeOK, tables, chain
  <2>3. Kept'
    BY <1>1, <2>1, KeptStay DEF IInv, tables
  <2>4. Waits' /\ wait_alloc' \in Seq(Bufs)
    BY <2>1, WaitsStay DEF IInv
  <2>5. BttFits' /\ ChainsAlive'
    BY <1>1, <1>2, <2>1 DEF IInv, BttFits, ChainsAlive, InBtt, InBrrt, tables, chain
  <2> QED
    BY <2>2, <2>3, <2>4, <2>5 DEF IInv
<1>3. CASE wait_alloc # <<>>
  <2> DEFINE b == wait_alloc[1]
  <2>1. /\ Move(Head(wait_alloc), "forward") /\ wait_alloc' = Tail(wait_alloc)
        /\ in_reqs' = IF Tail(wait_alloc) = <<>> THEN in_reqs - 1 ELSE in_reqs
        /\ UNCHANGED leaked
    BY <1>3 DEF NewBufferAllocated
  <2>2. /\ wait_alloc' \in Seq(Bufs)
        /\ Head(wait_alloc) = wait_alloc[1] /\ 1 \in DOMAIN wait_alloc /\ DOMAIN wait_alloc \subseteq Nat
        /\ DOMAIN wait_alloc' \subseteq Nat
        /\ \A k \in DOMAIN wait_alloc' :
             k + 1 \in DOMAIN wait_alloc /\ wait_alloc'[k] = wait_alloc[k + 1] /\ k + 1 # 1
        /\ \A k \in DOMAIN wait_alloc : k = 1 \/ (k - 1 \in DOMAIN wait_alloc' /\ wait_alloc'[k - 1] = wait_alloc[k])
    <3>1. \A q \in Seq(Bufs) : q # <<>> =>
            /\ Tail(q) \in Seq(Bufs) /\ DOMAIN Tail(q) \subseteq Nat
            /\ Head(q) = q[1] /\ 1 \in DOMAIN q /\ DOMAIN q \subseteq Nat
            /\ \A k \in DOMAIN Tail(q) : k + 1 \in DOMAIN q /\ Tail(q)[k] = q[k + 1] /\ k + 1 # 1
            /\ \A k \in DOMAIN q : k = 1 \/ (k - 1 \in DOMAIN Tail(q) /\ Tail(q)[k - 1] = q[k])
      OBVIOUS
    <3>2. wait_alloc \in Seq(Bufs) /\ wait_alloc' = Tail(wait_alloc)
      BY <2>1 DEF IInv
    <3> QED
      BY <1>3, <3>1, <3>2
  <2>3. /\ \A k \in DOMAIN wait_alloc : wait_alloc[k] \in Bufs /\ loc[wait_alloc[k]] = "wait"
        /\ \A k, m \in DOMAIN wait_alloc : wait_alloc[k] = wait_alloc[m] => k = m
        /\ \A c \in Bufs : loc[c] = "wait" => \E k \in DOMAIN wait_alloc : wait_alloc[k] = c
    BY DEF IInv, Waits, TypeOK
  <2>4. /\ loc' \in [Bufs -> {"idle", "forward", "wait", "brrt", "last"}]
        /\ \A c \in Bufs : loc'[c] = IF c = wait_alloc[1] THEN "forward" ELSE loc[c]
    BY <2>1, <2>2, <2>3 DEF Move, IInv, TypeOK
  <2>5. Waits'
    <3>1. \A k \in DOMAIN wait_alloc' : /\ wait_alloc'[k] \in Bufs /\ wait_alloc'[k] # wait_alloc[1]
                                        /\ loc[wait_alloc'[k]] = "wait"
      BY <2>2, <2>3
    <3>2. \A k \in DOMAIN wait_alloc' : loc'[wait_alloc'[k]] = "wait"
      BY <2>4, <3>1
    <3>3. ASSUME NEW k \in DOMAIN wait_alloc', NEW m \in DOMAIN wait_alloc',
                 wait_alloc'[k] = wait_alloc'[m]
          PROVE  k = m
      <4>1. k \in Nat /\ m \in Nat
        BY <2>2
      <4>2. k + 1 = m + 1
        BY <2>2, <2>3, <3>3
      <4> QED
        BY <4>1, <4>2
    <3>4. ASSUME NEW c \in Bufs, loc'[c] = "wait"
          PROVE  \E k \in DOMAIN wait_alloc' : wait_alloc'[k] = c
      <4>1. c # wait_alloc[1] /\ loc[c] = "wait"
        BY <2>4, <3>4
      <4>2. PICK k \in DOMAIN wait_alloc : wait_alloc[k] = c
        BY <2>3, <4>1
      <4>3. k # 1
        BY <4>1, <4>2
      <4> QED
        BY <2>2, <4>2, <4>3
    <3> QED
      BY <3>2, <3>3, <3>4 DEF Waits
  <2>6. in_reqs' \in Nat /\ (wait_alloc' # <<>> => in_reqs' > 0)
    BY <1>1, <2>1
  <2>7. TypeOK'
    <3>1. \A k \in DOMAIN wait_alloc' : wait_alloc'[k] \in Bufs
      BY <2>2, <2>3
    <3> QED
      BY <1>1, <2>1, <2>4, <2>6, <3>1 DEF IInv, TypeOK, tables, chain
  <2>8. Kept'
    <3>1. \A c \in Bufs : loc'[c] = "brrt" <=> loc[c] = "brrt"
      BY <2>2, <2>3, <2>4
    <3> QED
      BY <1>1, <3>1, KeptStay DEF IInv, tables
  <2>9. BttFits' /\ ChainsAlive'
    BY <1>1, <2>6 DEF IInv, BttFits, ChainsAlive, InBtt, InBrrt, tables, chain
  <2> QED
    BY <2>2, <2>5, <2>7, <2>8, <2>9 DEF IInv
<1> QED
  BY <1>2, <1>3

LEMMA DueIInv ==
  ASSUME IInv, NEW i \in Slots, Due(i)
  PROVE  IInv'
<1>1. /\ brrt' = [brrt EXCEPT ![i] = [brrt[i] EXCEPT !.due = TRUE]]
      /\ UNCHANGED <<btt, btt_cnt, btt_alarm, brrt_cnt, frames, chain, waits, broken>>
  BY Zenon DEF Due
<1>2. /\ [brrt[i] EXCEPT !.due = TRUE] \in Entry
      /\ [brrt[i] EXCEPT !.due = TRUE].used = brrt[i].used
      /\ [brrt[i] EXCEPT !.due = TRUE].buf = brrt[i].buf
  BY EntryTypes, EntryChanges, Sizes DEF IInv
<1> DEFINE e == [brrt[i] EXCEPT !.due = TRUE]
<1>3. brrt' = [brrt EXCEPT ![i] = e]
  BY <1>1
<1>4. e \in Entry /\ e.used = brrt[i].used /\ e.buf = brrt[i].buf
  BY <1>2
<1> HIDE DEF e
<1>5. /\ brrt' \in [Slots -> Entry]
      /\ \A j \in Slots : brrt'[j].used = brrt[j].used /\ brrt'[j].buf = brrt[j].buf
  BY <1>3, <1>4 DEF IInv, TypeOK
<1>6. TypeOK'
  BY <1>1, <1>5 DEF IInv, TypeOK, frames, chain, waits
<1>7. Kept' /\ InBrrt' = InBrrt
  BY <1>1, <1>5, KeptStay DEF IInv, frames
<1>8. Waits' /\ wait_alloc' \in Seq(Bufs)
  BY <1>1, WaitsStay DEF IInv, waits, frames
<1>9. BttFits' /\ ChainsAlive'
  BY <1>1, <1>7 DEF IInv, BttFits, ChainsAlive, InBtt, chain, waits
<1> QED
  BY <1>6, <1>7, <1>8, <1>9 DEF IInv

\* Leaving: a counter that still counts counts nothing.
LEMMA LeaveIInv ==
  ASSUME IInv, Leave
  PROVE  IInv'
<1>1. /\ btt_cnt' = 0 /\ brrt_cnt' = 0
      /\ UNCHANGED <<btt, btt_alarm, brrt, frames, chain, waits, broken>>
  BY DEF Leave
<1>2. TypeOK' /\ BttFits' /\ wait_alloc' \in Seq(Bufs) /\ InBrrt' = InBrrt /\ InBtt' = InBtt
  BY <1>1 DEF IInv, TypeOK, BttFits, InBtt, InBrrt, frames, chain, waits
<1>3. Kept'
  BY <1>1, KeptStay DEF IInv, frames
<1>4. Waits'
  BY <1>1, WaitsStay DEF IInv, frames, waits
<1>5. ChainsAlive'
  <2>1. Cardinality(InBrrt) = 0 => InBrrt = {}
    BY EntriesCount, FS_EmptySet
  <2>2. Cardinality(InBtt) = 0 => InBtt = {}
    BY FS_EmptySet DEF IInv, BttFits
  <2> QED
    BY <1>1, <1>2, <2>1, <2>2 DEF IInv, ChainsAlive, waits
<1> QED
  BY <1>2, <1>3, <1>4, <1>5 DEF IInv

\* The expiry goes on until it finds the counter zero.
LEMMA BtrExpiryIInv ==
  ASSUME IInv, BtrExpiry
  PROVE  IInv'
<1>1. /\ btt_alarm = 1 /\ UNCHANGED <<brrt, brrt_cnt, frames, chain, waits, broken>>
  BY DEF BtrExpiry
<1>2. /\ btt \in [Frames -> -1 .. Lifetime] /\ btt_cnt \in 0 .. 255 /\ Lifetime \in Nat
      /\ IsFiniteSet(InBtt) /\ Cardinality(InBtt) <= BttSize /\ BttSize \in 1 .. 254
  BY BroadcastAssumption DEF IInv, TypeOK, BttFits
<1>3. /\ btt' \in [Frames -> -1 .. Lifetime] /\ btt_cnt' \in 0 .. 255 /\ btt_alarm' \in 0 .. 1
      /\ BttFits' /\ (btt_cnt' = Cardinality(InBtt') /\ InBtt' # {} => btt_alarm' = 1)
  <2>1. CASE btt_cnt = 0
    <3>1. btt_alarm' = 0 /\ UNCHANGED <<btt, btt_cnt>>
      BY <2>1 DEF BtrExpiry
    <3>2. InBtt' = InBtt
      BY <3>1 DEF InBtt
    <3>3. Cardinality(InBtt) = 0 => InBtt = {}
      BY <1>2, FS_EmptySet
    <3> QED
      BY <1>2, <2>1, <3>1, <3>2, <3>3 DEF BttFits
  <2>2. CASE btt_cnt # 0
    <3> DEFINE ended == {f \in InBtt : btt[f] = 0}
    <3>1. /\ btt' = [f \in Frames |-> IF f \in InBtt THEN btt[f] - 1 ELSE -1]
          /\ btt_cnt' = (btt_cnt - Cardinality(ended)) % 256 /\ btt_alarm' = btt_alarm
      BY <2>2 DEF BtrExpiry
    <3>2. IsFiniteSet(ended) /\ Cardinality(ended) \in Nat
      BY <1>2, FS_Subset, FS_CardinalityType
    <3>3. \A c \in 0 .. 255 : \A n \in Nat : (c - n) % 256 \in 0 .. 255
      OBVIOUS
    <3>4. btt_cnt' \in 0 .. 255
      BY <1>2, <3>1, <3>2, <3>3
    <3>5. /\ btt' \in [Frames -> -1 .. Lifetime] /\ InBtt' \subseteq InBtt
      BY <1>2, <3>1 DEF InBtt
    <3>6. IsFiniteSet(InBtt') /\ Cardinality(InBtt') <= Cardinality(InBtt)
      BY <1>2, <3>5, FS_Subset
    <3>7. Cardinality(InBtt') \in Nat /\ Cardinality(InBtt) \in Nat
      BY <1>2, <3>6, FS_CardinalityType
    <3>8. BttFits'
      BY <1>2, <3>6, <3>7 DEF BttFits
    <3> QED
      BY <1>1, <3>1, <3>4, <3>5, <3>8
  <2> QED
    BY <2>1, <2>2
<1>4. TypeOK'
  BY <1>1, <1>3 DEF IInv, TypeOK, frames, chain, waits
<1>5. Kept' /\ InBrrt' = InBrrt
  BY <1>1, KeptStay DEF IInv, frames
<1>6. Waits' /\ wait_alloc' \in Seq(Bufs)
  BY <1>1, WaitsStay DEF IInv, frames, waits
<1>7. ChainsAlive'
  BY <1>1, <1>3, <1>5 DEF IInv, ChainsAlive, chain, waits
<1> QED
  BY <1>3, <1>4, <1>5, <1>6, <1>7 DEF IInv

-----------------------------------------------------------------------------
(* The transmissions. *)

\* Moving the iterators of those passed over leaves the entries what they are.
LEMMA PassedOverKeeps ==
  ASSUME TypeOK
  PROVE  /\ PassedOver \in [Slots -> Entry]
         /\ \A i \in Slots : PassedOver[i].used = brrt[i].used /\ PassedOver[i].buf = brrt[i].buf
<1>1. ASSUME NEW i \in Slots
      PROVE  /\ [brrt[i] EXCEPT !.iter = NextChild(frm[brrt[i].buf], @ + 1)] \in Entry
             /\ [brrt[i] EXCEPT !.iter = NextChild(frm[brrt[i].buf], @ + 1)].used = brrt[i].used
             /\ [brrt[i] EXCEPT !.iter = NextChild(frm[brrt[i].buf], @ + 1)].buf = brrt[i].buf
  <2> DEFINE n == NextChild(frm[brrt[i].buf], brrt[i].iter + 1)
  <2>1. n \in 0 .. Done
    BY NextChildType
  <2> HIDE DEF n
  <2>2. /\ [brrt[i] EXCEPT !.iter = n] \in Entry
        /\ [brrt[i] EXCEPT !.iter = n].used = brrt[i].used
        /\ [brrt[i] EXCEPT !.iter = n].buf = brrt[i].buf
    BY <2>1, EntryTypes, EntryChanges, Sizes
  <2> QED
    BY <2>2 DEF n
<1>2. \A i \in Slots : brrt[i] \in Entry
  BY EntryTypes
<1>3. \A i \in Slots : /\ PassedOver[i] \in Entry
                       /\ PassedOver[i].used = brrt[i].used /\ PassedOver[i].buf = brrt[i].buf
  BY <1>1, <1>2, Zenon DEF PassedOver
<1>4. PassedOver = [i \in Slots |-> PassedOver[i]]
  BY Zenon DEF PassedOver
<1> QED
  BY <1>3, <1>4

\* The entry that a call works on is one in use.
LEMMA ChosenIsIn ==
  ASSUME Chosen # {}
  PROVE  First(Chosen) \in Chosen /\ First(Chosen) \in InBrrt /\ First(Chosen) \in Slots
         /\ (Unicast => brrt[First(Chosen)].iter # Done)
<1>1. Chosen \subseteq InBrrt
  BY DEF Chosen, Fresh, ToChild, Again
<1>2. Chosen \in SUBSET Nat
  BY <1>1, EntriesCount
<1>3. First(Chosen) \in Chosen
  BY <1>2, FirstIsIn
<1>4. Unicast => Chosen = ToChild
  BY DEF Unicast, Chosen
<1> QED
  BY <1>1, <1>3, <1>4, EntriesCount DEF ToChild

\* A transmission leaves the entry its buffer.
LEMMA SentKeeps ==
  ASSUME TypeOK, NEW i \in Slots, Unicast => brrt[i].iter # Done
  PROVE  Sent(i) \in Entry /\ Sent(i).used = brrt[i].used /\ Sent(i).buf = brrt[i].buf
<1> DEFINE e == PassedOver[i]
           n == NextChild(frm[brrt[i].buf], e.iter + 1)
           A == e.acks \cup {brrt[i].iter}
           r == e.retries + 1
<1>1. e \in Entry /\ e.used = brrt[i].used /\ e.buf = brrt[i].buf
  BY PassedOverKeeps
<1>2. n \in 0 .. Done
  BY NextChildType
<1>3. CASE Unicast
  <2>1. Sent(i) = [e EXCEPT !.acks = A, !.iter = n]
    BY <1>3, Zenon DEF Sent
  <2>2. brrt[i].iter \in Table
    BY <1>3, EntryTypes, Sizes
  <2>3. A \in SUBSET Table
    <3>1. e.acks \in SUBSET Table
      BY <1>1 DEF Entry
    <3> QED
      BY <2>2, <3>1
  <2> HIDE DEF e, n, A
  <2>4. /\ [e EXCEPT !.acks = A, !.iter = n] \in Entry
        /\ [e EXCEPT !.acks = A, !.iter = n].used = e.used
        /\ [e EXCEPT !.acks = A, !.iter = n].buf = e.buf
    BY <1>1, <1>2, <2>3, EntryChangesTwice
  <2> QED
    BY <1>1, <2>1, <2>4
<1>4. CASE ~Unicast
  <2>1. Sent(i) = [e EXCEPT !.retries = r, !.due = FALSE]
    BY <1>4, Zenon DEF Sent
  <2>2. r \in Nat
    BY <1>1 DEF Entry
  <2> HIDE DEF e, r
  <2>3. /\ [e EXCEPT !.retries = r, !.due = FALSE] \in Entry
        /\ [e EXCEPT !.retries = r, !.due = FALSE].used = e.used
        /\ [e EXCEPT !.retries = r, !.due = FALSE].buf = e.buf
    <3>1. {} \in SUBSET Table /\ 0 \in 0 .. Done
      BY Sizes
    <3> QED
      BY <1>1, <2>2, <3>1, EntryChangesTwice
  <2> QED
    BY <1>1, <2>1, <2>3
<1> QED
  BY <1>3, <1>4

\* What a call that only moves on in the tables keeps.
LEMMA EntriesMove ==
  ASSUME IInv, brrt' \in [Slots -> Entry],
         \A i \in Slots : brrt'[i].used = brrt[i].used /\ brrt'[i].buf = brrt[i].buf,
         UNCHANGED <<btt, btt_cnt, btt_alarm, brrt_cnt, frames, waits, broken>>,
         calls' \in Nat, out_reqs' \in Nat, alarm' \in 0 .. 1,
         brrt_cnt = Cardinality(InBrrt) /\ InBrrt # {} => calls' + out_reqs' + alarm' > 0
  PROVE  IInv'
<1>1. TypeOK' /\ wait_alloc' \in Seq(Bufs)
  BY DEF IInv, TypeOK, frames, waits
<1>2. Kept' /\ InBrrt' = InBrrt
  BY KeptStay DEF IInv, frames
<1>3. Waits'
  BY WaitsStay DEF IInv, frames, waits
<1>4. BttFits' /\ ChainsAlive'
  BY <1>2 DEF IInv, BttFits, ChainsAlive, InBtt, waits
<1> QED
  BY <1>1, <1>2, <1>3, <1>4 DEF IInv

\* Entries in use are counted, if they are.
LEMMA CountedNotZero ==
  brrt_cnt = Cardinality(InBrrt) /\ InBrrt # {} => brrt_cnt # 0
BY EntriesCount, FS_EmptySet

LEMMA CalledIInv ==
  ASSUME IInv, Called
  PROVE  IInv'
<1>1. /\ calls > 0 /\ brrt' = PassedOver
      /\ UNCHANGED <<btt, btt_cnt, btt_alarm, brrt_cnt, frames, waits, broken>>
  BY DEF Called, TransmitNoBuf
<1>2. calls \in Nat /\ out_reqs \in Nat /\ alarm \in 0 .. 1
  BY DEF IInv, TypeOK
<1>3. /\ calls' \in Nat /\ out_reqs' \in Nat /\ alarm' \in 0 .. 1
      /\ brrt_cnt = Cardinality(InBrrt) /\ InBrrt # {} => calls' + out_reqs' + alarm' > 0
  <2>1. CASE Chosen # {}
    <3>1. out_reqs' = out_reqs + 1 /\ calls' = calls - 1 /\ alarm' = alarm
      BY <2>1 DEF Called, TransmitNoBuf
    <3> QED
      BY <1>1, <1>2, <3>1
  <2>2. CASE Chosen = {}
    <3>1. /\ out_reqs' = out_reqs /\ calls' = calls - 1
          /\ alarm' = IF brrt_cnt' # 0 THEN 1 ELSE alarm
      BY <2>2 DEF Called, TransmitNoBuf, NextCall
    <3> QED
      BY <1>1, <1>2, <3>1, CountedNotZero
  <2> QED
    BY <2>1, <2>2
<1>4. /\ brrt' \in [Slots -> Entry]
      /\ \A i \in Slots : brrt'[i].used = brrt[i].used /\ brrt'[i].buf = brrt[i].buf
  BY <1>1, PassedOverKeeps DEF IInv
<1> QED
  BY <1>1, <1>3, <1>4, EntriesMove

LEMMA AlarmIInv ==
  ASSUME IInv, Alarm
  PROVE  IInv'
<1>1. /\ alarm = 1 /\ brrt' = PassedOver
      /\ UNCHANGED <<btt, btt_cnt, btt_alarm, brrt_cnt, frames, waits, broken>>
  BY DEF Alarm, TransmitNoBuf
<1>2. calls \in Nat /\ out_reqs \in Nat /\ alarm \in 0 .. 1
  BY DEF IInv, TypeOK
<1>3. /\ calls' \in Nat /\ out_reqs' \in Nat /\ alarm' \in 0 .. 1
      /\ brrt_cnt = Cardinality(InBrrt) /\ InBrrt # {} => calls' + out_reqs' + alarm' > 0
  <2>1. CASE Chosen # {}
    <3>1. out_reqs' = out_reqs + 1 /\ calls' = calls /\ alarm' = 0
      BY <2>1 DEF Alarm, TransmitNoBuf
    <3> QED
      BY <1>2, <3>1
  <2>2. CASE Chosen = {}
    <3>1. /\ out_reqs' = out_reqs /\ calls' = calls
          /\ alarm' = IF brrt_cnt' # 0 THEN 1 ELSE 0
      BY <2>2 DEF Alarm, TransmitNoBuf, NextCall
    <3> QED
      BY <1>1, <1>2, <3>1, CountedNotZero
  <2> QED
    BY <2>1, <2>2
<1>4. /\ brrt' \in [Slots -> Entry]
      /\ \A i \in Slots : brrt'[i].used = brrt[i].used /\ brrt'[i].buf = brrt[i].buf
  BY <1>1, PassedOverKeeps DEF IInv
<1> QED
  BY <1>1, <1>3, <1>4, EntriesMove

LEMMA GotBufIInv ==
  ASSUME IInv, GotBuf
  PROVE  IInv'
<1>1. /\ out_reqs > 0 /\ out_reqs' = out_reqs - 1
      /\ UNCHANGED <<btt, btt_cnt, btt_alarm, waits, broken>>
      /\ calls' = IF brrt_cnt' # 0 /\ Chosen # {} THEN calls + 1 ELSE calls
      /\ alarm' = IF brrt_cnt' # 0 /\ ~(Chosen # {}) THEN 1 ELSE alarm
  BY DEF GotBuf, NextCall
<1>2. calls \in Nat /\ out_reqs \in Nat /\ alarm \in 0 .. 1
  BY DEF IInv, TypeOK
<1>3. /\ calls' \in Nat /\ out_reqs' \in Nat /\ alarm' \in 0 .. 1
      /\ brrt_cnt' # 0 => calls' + out_reqs' + alarm' > 0
  BY <1>1, <1>2
<1>4. PassedOver \in [Slots -> Entry]
  /\ \A i \in Slots : PassedOver[i].used = brrt[i].used /\ PassedOver[i].buf = brrt[i].buf
  BY PassedOverKeeps DEF IInv
<1> DEFINE i == First(Chosen)
<1>5. ASSUME brrt' \in [Slots -> Entry], UNCHANGED <<brrt_cnt, frames>>,
             \A j \in Slots : brrt'[j].used = brrt[j].used /\ brrt'[j].buf = brrt[j].buf
      PROVE  IInv'
  <2>1. brrt_cnt = Cardinality(InBrrt) /\ InBrrt # {} => calls' + out_reqs' + alarm' > 0
    BY <1>3, <1>5, CountedNotZero
  <2> QED
    BY <1>1, <1>3, <1>5, <2>1, EntriesMove
<1>6. CASE Chosen = {}
  <2>1. brrt' = PassedOver /\ UNCHANGED <<brrt_cnt, frames>>
    BY <1>6 DEF GotBuf
  <2> QED
    BY <1>4, <1>5, <2>1
<1>7. CASE Chosen # {} /\ ~Last(i)
  <2>1. brrt' = [PassedOver EXCEPT ![i] = Sent(i)] /\ UNCHANGED <<brrt_cnt, frames>>
    BY <1>7 DEF GotBuf
  <2>2. i \in Slots /\ (Unicast => brrt[i].iter # Done)
    BY <1>7, ChosenIsIn
  <2>3. Sent(i) \in Entry /\ Sent(i).used = brrt[i].used /\ Sent(i).buf = brrt[i].buf
    BY <2>2, SentKeeps DEF IInv
  <2> HIDE DEF i
  <2>4. /\ brrt' \in [Slots -> Entry]
        /\ \A j \in Slots : brrt'[j].used = brrt[j].used /\ brrt'[j].buf = brrt[j].buf
    BY <1>4, <2>1, <2>2, <2>3
  <2> QED
    BY <1>5, <2>1, <2>4
<1>8. CASE Chosen # {} /\ Last(i)
  <2>1. /\ brrt' = [PassedOver EXCEPT ![i] = NoEntry]
        /\ brrt_cnt' = (brrt_cnt - 1) % 256
        /\ Move(brrt[i].buf, "last") /\ UNCHANGED frm
    BY <1>8 DEF GotBuf
  <2>2. i \in Slots /\ i \in InBrrt
    BY <1>8, ChosenIsIn
  <2> HIDE DEF i
  <2>3. /\ brrt' \in [Slots -> Entry] /\ InBrrt' = InBrrt \ {i}
        /\ \A j \in InBrrt \ {i} : brrt'[j].buf = brrt[j].buf
    <3>1. \A j \in Slots : brrt'[j] = IF j = i THEN NoEntry ELSE PassedOver[j]
      BY <1>4, <2>1
    <3>2. brrt' \in [Slots -> Entry]
      BY <1>4, <2>1, NoEntryType
    <3>3. ~NoEntry.used
      BY NoEntryType
    <3> QED
      BY <1>4, <3>1, <3>2, <3>3 DEF InBrrt
  <2>4. /\ loc' \in [Bufs -> {"idle", "forward", "wait", "brrt", "last"}]
        /\ \A c \in Bufs : loc'[c] = IF c = brrt[i].buf THEN "last" ELSE loc[c]
    BY <2>1 DEF Move, IInv, TypeOK
  <2>5. loc[brrt[i].buf] = "brrt" /\ brrt[i].buf \in Bufs
    BY <2>2, EntryTypes DEF IInv, Kept
  <2>6. Kept'
    <3>1. \A c \in Bufs : loc'[c] = "brrt" <=> loc[c] = "brrt" /\ \A j \in {i} : brrt[j].buf # c
      BY <2>4
    <3>2. {i} \in SUBSET InBrrt /\ TypeOK /\ Kept
      BY <2>2 DEF IInv
    <3>3. PICK D \in SUBSET InBrrt : D = {i}
      BY <3>2
    <3>4. /\ InBrrt' = InBrrt \ D /\ \A j \in InBrrt \ D : brrt'[j].buf = brrt[j].buf
          /\ \A c \in Bufs : loc'[c] = "brrt" <=> loc[c] = "brrt" /\ \A j \in D : brrt[j].buf # c
      BY <2>3, <3>1, <3>3
    <3> QED
      BY <3>2, <3>4, KeptEnds
  <2>7. Waits' /\ wait_alloc' \in Seq(Bufs)
    BY <1>1, <2>4, <2>5, WaitsStay DEF IInv, waits
  <2>8. brrt_cnt' \in 0 .. 255
    BY <2>1 DEF IInv, TypeOK
  <2>9. TypeOK'
    BY <1>1, <1>3, <2>1, <2>3, <2>4, <2>8 DEF IInv, TypeOK, waits
  <2>10. brrt_cnt' = Cardinality(InBrrt') /\ InBrrt' # {} => brrt_cnt' # 0
    <3>1. IsFiniteSet(InBrrt')
      BY <2>3, EntriesCount, FS_Subset
    <3> QED
      BY <3>1, FS_EmptySet
  <2>11. BttFits' /\ ChainsAlive'
    BY <1>1, <1>3, <2>10 DEF IInv, BttFits, ChainsAlive, InBtt, waits
  <2> QED
    BY <2>6, <2>7, <2>9, <2>11 DEF IInv
<1> QED
  BY <1>6, <1>7, <1>8

\* Forwarding puts the frame in the first entry that is free, and a call on its way.
LEMMA ForwardIInv ==
  ASSUME IInv, NEW b \in Bufs, Forward(b)
  PROVE  IInv'
<1> DEFINE f == frm[b]
           full == f \notin InBtt /\ Cardinality(InBtt) = BttSize
           free == Slots \ InBrrt
<1>1. /\ loc[b] = "forward" /\ UNCHANGED waits
      /\ f \in Frames /\ calls \in Nat /\ out_reqs \in Nat /\ alarm \in 0 .. 1
      /\ loc \in [Bufs -> {"idle", "forward", "wait", "brrt", "last"}]
  BY DEF Forward, IInv, TypeOK
<1>2. /\ btt' \in [Frames -> -1 .. Lifetime] /\ btt_cnt' \in 0 .. 255 /\ btt_alarm' \in 0 .. 1
      /\ BttFits' /\ (btt_cnt' = Cardinality(InBtt') /\ InBtt' # {} => btt_alarm' = 1)
  <2>1. CASE f \in InBtt \/ full
    <3>1. UNCHANGED <<btt, btt_cnt, btt_alarm>>
      BY <2>1 DEF Forward
    <3> QED
      BY <3>1 DEF IInv, TypeOK, BttFits, ChainsAlive, InBtt
  <2>2. CASE ~(f \in InBtt \/ full)
    <3>1. AddBtt(f) /\ f \notin InBtt /\ Cardinality(InBtt) # BttSize
      BY <2>2 DEF Forward
    <3> QED
      BY <1>1, <3>1, BttAdded DEF IInv, ChainsAlive
  <2> QED
    BY <2>1, <2>2
<1>3. \A place \in {"idle", "brrt"} : Move(b, place) =>
        /\ loc' \in [Bufs -> {"idle", "forward", "wait", "brrt", "last"}]
        /\ \A c \in Bufs : loc'[c] = IF c = b THEN place ELSE loc[c]
  BY <1>1 DEF Move
<1>4. \/ Freed(b) /\ UNCHANGED <<brrt, brrt_cnt, chain, broken>>
      \/ broken' = TRUE /\ UNCHANGED <<brrt, brrt_cnt, chain, frames>>
      \/ /\ ~full /\ brrt_cnt < BrrtSize /\ free # {}
         /\ brrt' = [brrt EXCEPT ![First(free)] =
                       [used |-> TRUE, buf |-> b, retries |-> 0, iter |-> NextChild(f, 0),
                        acks |-> {}, due |-> FALSE]]
         /\ brrt_cnt' = brrt_cnt + 1
         /\ Move(b, "brrt") /\ alarm' = 0 /\ out_reqs' = out_reqs + 1
         /\ UNCHANGED <<frm, calls, broken>>
  BY Zenon DEF Forward
<1>5. ASSUME UNCHANGED <<brrt, brrt_cnt, chain>>, frm' \in [Bufs -> Frames],
             loc' \in [Bufs -> {"idle", "forward", "wait", "brrt", "last"}],
             \A c \in Bufs : /\ loc'[c] = "brrt" <=> loc[c] = "brrt"
                             /\ loc'[c] = "wait" <=> loc[c] = "wait"
      PROVE  IInv'
  <2>1. TypeOK' /\ wait_alloc' \in Seq(Bufs)
    BY <1>1, <1>2, <1>5 DEF IInv, TypeOK, waits, chain
  <2>2. Kept' /\ InBrrt' = InBrrt
    BY <1>5, KeptStay DEF IInv
  <2>3. Waits'
    BY <1>1, <1>5, WaitsStay DEF IInv, waits
  <2>4. ChainsAlive'
    BY <1>1, <1>2, <1>5, <2>2 DEF IInv, ChainsAlive, waits, chain
  <2> QED
    BY <1>2, <2>1, <2>2, <2>3, <2>4 DEF IInv
<1>6. CASE Freed(b) /\ UNCHANGED <<brrt, brrt_cnt, chain, broken>>
  <2>1. Move(b, "idle") /\ frm' \in [Bufs -> Frames]
    BY <1>6, FreedMoves DEF IInv
  <2> QED
    BY <1>1, <1>3, <1>5, <1>6, <2>1
<1>7. CASE broken' = TRUE /\ UNCHANGED <<brrt, brrt_cnt, chain, frames>>
  BY <1>1, <1>5, <1>7 DEF frames, IInv, TypeOK
<1>8. CASE /\ ~full /\ brrt_cnt < BrrtSize /\ free # {}
           /\ brrt' = [brrt EXCEPT ![First(free)] =
                         [used |-> TRUE, buf |-> b, retries |-> 0, iter |-> NextChild(f, 0),
                          acks |-> {}, due |-> FALSE]]
           /\ brrt_cnt' = brrt_cnt + 1
           /\ Move(b, "brrt") /\ alarm' = 0 /\ out_reqs' = out_reqs + 1
           /\ UNCHANGED <<frm, calls, broken>>
  <2> DEFINE i == First(free)
             e == [used |-> TRUE, buf |-> b, retries |-> 0, iter |-> NextChild(f, 0),
                   acks |-> {}, due |-> FALSE]
  <2>1. i \in Slots /\ i \notin InBrrt
    <3>1. free \in SUBSET Nat
      BY Sizes
    <3> QED
      BY <1>8, <3>1, FirstIsIn
  <2>2. e \in Entry /\ e.used /\ e.buf = b
    BY NextChildType DEF Entry
  <2>3. brrt' = [brrt EXCEPT ![i] = e]
    BY <1>8
  <2> HIDE DEF i, e
  <2>4. /\ brrt' \in [Slots -> Entry] /\ InBrrt' = InBrrt \cup {i} /\ brrt'[i].buf = b
        /\ \A j \in InBrrt : brrt'[j].buf = brrt[j].buf /\ brrt[j].buf \in Bufs
    <3>1. brrt \in [Slots -> Entry]
      BY DEF IInv, TypeOK
    <3>2. brrt' \in [Slots -> Entry] /\ \A j \in Slots : brrt'[j] = IF j = i THEN e ELSE brrt[j]
      BY <2>1, <2>2, <2>3, <3>1
    <3>3. \A j \in InBrrt : brrt[j].buf \in Bufs
      BY EntryTypes DEF InBrrt, IInv
    <3> QED
      BY <2>1, <2>2, <3>2, <3>3 DEF InBrrt
  <2>5. /\ loc' \in [Bufs -> {"idle", "forward", "wait", "brrt", "last"}]
        /\ \A c \in Bufs : loc'[c] = IF c = b THEN "brrt" ELSE loc[c]
    BY <1>3, <1>8
  <2>6. Kept'
    <3>1. \A j \in InBrrt : brrt[j].buf # b
      BY <1>1 DEF IInv, Kept
    <3> QED
      BY <2>4, <2>5, <3>1 DEF IInv, Kept
  <2>7. Waits' /\ wait_alloc' \in Seq(Bufs)
    BY <1>1, <2>5, WaitsStay DEF IInv, waits
  <2>8. brrt_cnt' \in 0 .. 255 /\ out_reqs' \in Nat /\ out_reqs' > 0
    <3>1. brrt_cnt \in 0 .. 255 /\ BrrtSize \in 1 .. 254
      BY BroadcastAssumption DEF IInv, TypeOK
    <3> QED
      BY <1>1, <1>8, <3>1
  <2>9. TypeOK'
    BY <1>1, <1>2, <1>8, <2>4, <2>5, <2>8 DEF IInv, TypeOK, waits
  <2>10. ChainsAlive'
    BY <1>1, <1>2, <1>8, <2>8 DEF IInv, ChainsAlive, waits
  <2> QED
    BY <1>2, <2>6, <2>7, <2>9, <2>10 DEF IInv
<1> QED
  BY <1>4, <1>6, <1>7, <1>8

-----------------------------------------------------------------------------
(* The specification. *)

LEMMA InitIInv == Init => IInv
<1> SUFFICES ASSUME Init PROVE IInv
  OBVIOUS
<1>1. /\ AnyFrame \in Frames /\ NoEntry \in Entry /\ ~NoEntry.used /\ Lifetime \in Nat
  BY BroadcastAssumption, NoEntryType DEF AnyFrame, Frames
<1>2. InBtt = {} /\ InBrrt = {}
  BY <1>1 DEF Init, InBtt, InBrrt
<1>3. TypeOK /\ wait_alloc \in Seq(Bufs)
  <2>1. wait_alloc = <<>> /\ <<>> \in Seq(Bufs) /\ DOMAIN wait_alloc = {}
    BY DEF Init
  <2>2. /\ btt \in [Frames -> -1 .. Lifetime] /\ btt_cnt \in 0 .. 255 /\ btt_alarm \in 0 .. 1
        /\ brrt_cnt \in 0 .. 255 /\ {in_reqs, calls, out_reqs} \subseteq Nat /\ alarm \in 0 .. 1
    <3>1. /\ btt = [f \in Frames |-> -1] /\ btt_cnt = 0 /\ btt_alarm = 0 /\ brrt_cnt = 0
          /\ in_reqs = 0 /\ calls = 0 /\ out_reqs = 0 /\ alarm = 0
      BY DEF Init
    <3>2. -1 \in -1 .. Lifetime
      BY <1>1
    <3> QED
      BY <3>1, <3>2
  <2>4. leaked \in BOOLEAN
    BY DEF Init
  <2>3. /\ brrt \in [Slots -> Entry] /\ frm \in [Bufs -> Frames]
        /\ loc \in [Bufs -> {"idle", "forward", "wait", "brrt", "last"}]
    <3>1. /\ brrt = [i \in Slots |-> NoEntry] /\ frm = [b \in Bufs |-> AnyFrame]
          /\ loc = [b \in Bufs |-> "idle"]
      BY DEF Init
    <3> QED
      BY <1>1, <3>1
  <2> QED
    BY <2>1, <2>2, <2>3, <2>4 DEF TypeOK
<1>4. BttFits
  <2>1. BttSize \in 1 .. 254
    BY BroadcastAssumption
  <2> QED
    BY <1>2, <2>1, FS_EmptySet DEF BttFits
<1>5. Kept /\ Waits /\ ChainsAlive
  BY <1>2 DEF Init, Kept, Waits, ChainsAlive
<1> QED
  BY <1>3, <1>4, <1>5 DEF IInv

LEMMA NextIInv == IInv /\ [Next]_vars => IInv'
<1> SUFFICES ASSUME IInv, [Next]_vars PROVE IInv'
  OBVIOUS
<1>1. CASE UNCHANGED vars
  BY <1>1 DEF IInv, TypeOK, BttFits, Kept, Waits, ChainsAlive, InBtt, InBrrt,
              vars, tables, frames, chain, waits
<1>2. CASE Next
  <2>1. CASE \E b \in Bufs, f \in Own : DataRequest(b, f)
    BY <2>1, DataRequestIInv
  <2>2. CASE \E f \in Frames : \E n \in Senders(f) : RecvDropped(f, n)
    BY <2>2, RecvDroppedIInv
  <2>3. CASE \E b \in Bufs, f \in Frames, radius \in BOOLEAN : \E n \in Senders(f) :
               RecvNew(b, f, n, radius)
    BY <2>3, RecvNewIInv
  <2>4. CASE \E b \in Bufs : Forward(b) \/ Confirm(b)
    BY <2>4, ForwardIInv, ConfirmIInv
  <2>5. CASE \E i \in Slots : Due(i)
    BY <2>5, DueIInv
  <2> QED
    BY <1>2, <2>1, <2>2, <2>3, <2>4, <2>5, NewBufferAllocatedIInv, CalledIInv, AlarmIInv,
       GotBufIInv, BtrExpiryIInv, LeaveIInv DEF Next
<1> QED
  BY <1>1, <1>2

\* The types, who holds which buffer, and the chain that sends, hold for ever.
THEOREM SpecIInv == Spec => []IInv
BY InitIInv, NextIInv, PTL DEF Spec

\* What is in a set of at most one index.
LEMMA OneOrNone ==
  ASSUME NEW S, \A i, j \in S : i = j
  PROVE  Cardinality(S) = IF S = {} THEN 0 ELSE 1
<1>1. CASE S = {}
  BY <1>1, FS_EmptySet
<1>2. CASE S # {}
  <2>1. PICK i \in S : S = {i}
    BY <1>2
  <2>2. Cardinality({i}) = 1
    BY FS_Singleton
  <2> QED
    BY <1>2, <2>1, <2>2
<1> QED
  BY <1>1, <1>2

LEMMA IInvSound == IInv => RetransmissionSound
<1> SUFFICES ASSUME IInv PROVE OneOwner
  BY DEF IInv, RetransmissionSound
<1> SUFFICES ASSUME NEW b \in Bufs
             PROVE  /\ Cardinality({i \in InBrrt : brrt[i].buf = b}) = IF loc[b] = "brrt" THEN 1 ELSE 0
                    /\ Cardinality({k \in DOMAIN wait_alloc : wait_alloc[k] = b}) =
                         IF loc[b] = "wait" THEN 1 ELSE 0
  BY DEF OneOwner
<1>1. Cardinality({i \in InBrrt : brrt[i].buf = b}) = IF loc[b] = "brrt" THEN 1 ELSE 0
  <2> DEFINE S == {i \in InBrrt : brrt[i].buf = b}
  <2>1. \A i, j \in S : i = j
    BY DEF IInv, Kept
  <2>2. S = {} <=> loc[b] # "brrt"
    BY DEF IInv, Kept
  <2> HIDE DEF S
  <2>3. Cardinality(S) = IF loc[b] = "brrt" THEN 1 ELSE 0
    BY <2>1, <2>2, OneOrNone
  <2> QED
    BY <2>3 DEF S
<1>2. Cardinality({k \in DOMAIN wait_alloc : wait_alloc[k] = b}) = IF loc[b] = "wait" THEN 1 ELSE 0
  <2> DEFINE S == {k \in DOMAIN wait_alloc : wait_alloc[k] = b}
  <2>1. \A i, j \in S : i = j
    BY DEF IInv, Waits
  <2>2. S = {} <=> loc[b] # "wait"
    BY DEF IInv, Waits
  <2> HIDE DEF S
  <2>3. Cardinality(S) = IF loc[b] = "wait" THEN 1 ELSE 0
    BY <2>1, <2>2, OneOrNone
  <2> QED
    BY <2>3 DEF S
<1> QED
  BY <1>1, <1>2

\* Every frame kept for retransmission or for a second buffer is kept once, and while the
\* counters count, something is on its way to send, to copy or to expire it.
THEOREM SpecRetransmissionSound == Spec => []RetransmissionSound
BY SpecIInv, IInvSound, PTL


-----------------------------------------------------------------------------
(* The PAN id and the channel of a network: what holds. *)

DeviceStates == {"idle", "ed scan", "active scan", "formation", "resolution"}
Device == [pan : AllPans, ch : FirstChannel .. LastChannel, new : AllPans, conflict : BOOLEAN,
           state : DeviceStates]
StartReq == [pan : AllPans, ch : FirstChannel .. LastChannel]

DevicesOK ==
  /\ joined \in {"no", "yes", "failed"} /\ crossed \in BOOLEAN /\ picked \in Nat /\ asked \in Nat
  /\ node \in [Nodes -> Device] /\ todo \in [Nodes -> [Functions -> Nat]]
  /\ starting \in [Nodes -> Seq(StartReq)]

Updates == {m \in air : m.kind = "update"}
Moves == {m \in air : m.kind = "channel"}

\* Alarms and updates have numbers that were given; the last update announces the PAN id
\* that the manager is about to take.
UpdatesOK ==
  /\ \A a \in alarms : a = [at |-> a.at, of |-> a.of] /\ a.at \in Nodes /\ a.of \in 0 .. picked
  /\ \A m \in Updates : /\ m.to \in Routers /\ m.new \in AllPans /\ m.of \in 0 .. picked
                        /\ m.of = picked => m.new = node[Coord].new

\* The same for changes of the channel.
MovesOK ==
  /\ \A h \in hops : /\ h = [at |-> h.at, ch |-> h.ch, of |-> h.of] /\ h.at \in Nodes
                     /\ h.ch \in Channels /\ h.of \in 0 .. asked
  /\ \A m \in Moves : m.to \in Routers /\ m.new \in Channels /\ m.of \in 0 .. asked

\* What the formation works with.
FormOK ==
  /\ form \in SUBSET Channels
  /\ node[Coord].state \in {"ed scan", "active scan"} => form # {}

\* Before the network is formed only the coordinator does something: at most it starts once.
Forming ==
  /\ alarms = {} /\ hops = {} /\ air = {} /\ picked = 0 /\ asked = 0 /\ ~crossed
  /\ \A n \in Nodes, f \in Functions : n # Coord \/ f # "confirm" => todo[n][f] = 0
  /\ \A n \in Routers : starting[n] = << >>
  /\ node[Coord].state # "resolution"
  /\ IF node[Coord].state = "formation"
     THEN \/ Len(starting[Coord]) = 1 /\ todo[Coord]["confirm"] = 0
          \/ starting[Coord] = << >> /\ todo[Coord]["confirm"] = 1
     ELSE starting[Coord] = << >> /\ todo[Coord]["confirm"] = 0
  /\ FormOK

\* What device n will have as its PAN id when its callbacks are done is p: ...
Arriving(n, p) ==
  IF todo[n]["set"] > 0 THEN node[n].new = p
  ELSE IF starting[n] # << >> THEN starting[n][Len(starting[n])].pan = p
  ELSE node[n].pan = p

\* ... the last update has not reached it, or it waits for the alarm, or is on its way.
Heading(n, p) ==
  \/ \E m \in Updates : m.to = n /\ m.of = picked
  \/ [at |-> n, of |-> picked] \in alarms /\ node[n].new = p
  \/ /\ \A a \in alarms : a.at # n
     /\ \A m \in Updates : m.to # n
     /\ Arriving(n, p)

\* The manager has still to announce what it picked, or all devices are heading for it.
OnePanId ==
  IF todo[Coord]["update"] > 0 THEN picked > 0 /\ [at |-> Coord, of |-> picked] \in alarms
  ELSE \E p \in AllPans : /\ IF picked > 0 THEN p = node[Coord].new ELSE Updates = {}
                          /\ \A n \in Nodes : Heading(n, p)

\* The same for the channel: the last change is on its way to device n, waits for its
\* alarm, or is done.
Hopping(n, c) ==
  \/ \E m \in Moves : m.to = n /\ m.of = asked
  \/ [at |-> n, ch |-> c, of |-> asked] \in hops
  \/ /\ \A h \in hops : h.at # n
     /\ \A m \in Moves : m.to # n
     /\ node[n].ch = c

\* All that is known of the last change says the same.
OneChannel ==
  \E c \in FirstChannel .. LastChannel :
    /\ \A m \in Moves : m.of = asked => m.new = c
    /\ \A h \in hops : h.of = asked => h.ch = c
    /\ \A n \in Nodes : Hopping(n, c)

\* A device starts on the channel it is on.
StartsThere ==
  \A n \in Nodes : \A i \in 1 .. Len(starting[n]) : starting[n][i].ch = node[n].ch

Formed ==
  /\ \A n \in Nodes : node[n].state \in {"idle", "resolution"}
  /\ ~missed /\ ~crossed => OnePanId /\ OneChannel
  /\ StartsThere

\* The inductive invariant of the PAN id and the channel.
PanIdInv ==
  /\ DevicesOK /\ UpdatesOK /\ MovesOK
  /\ IF joined = "yes" THEN Formed ELSE Forming

-----------------------------------------------------------------------------
(* What the steps change, apart from the rest. *)

LEMMA PanIdConstants ==
  /\ Coord \in Nodes /\ Coord \notin Routers /\ Routers \subseteq Nodes
  /\ \A n \in Nodes : n # Coord => n \in Routers
  /\ 0 \in AllPans /\ PanIds \subseteq AllPans /\ Presets \subseteq AllPans
  /\ Channels \subseteq FirstChannel .. LastChannel /\ FirstChannel \in FirstChannel .. LastChannel
<1>1. Coord \notin Routers /\ Presets \subseteq AllPans /\ Channels \subseteq FirstChannel .. LastChannel
  BY PanIdAssumption
<1>2. 0 \in AllPans /\ PanIds \subseteq AllPans
  BY DEF AllPans
<1>3. FirstChannel \in FirstChannel .. LastChannel
  BY DEF FirstChannel, LastChannel
<1> QED
  BY <1>1, <1>2, <1>3 DEF Nodes

\* A field of one device changes.
LEMMA Entered ==
  ASSUME node \in [Nodes -> Device], NEW n \in Nodes, NEW s \in DeviceStates, Enter(n, s)
  PROVE  /\ node' \in [Nodes -> Device]
         /\ \A x \in Nodes : /\ node'[x].pan = node[x].pan /\ node'[x].ch = node[x].ch
                             /\ node'[x].new = node[x].new
                             /\ node'[x].state = IF x = n THEN s ELSE node[x].state
BY DEF Enter, Device

LEMMA CoordEntered ==
  ASSUME DevicesOK, NEW s \in DeviceStates, Enter(Coord, s)
  PROVE  node' \in [Nodes -> Device] /\ node'[Coord].state = s
<1>1. node \in [Nodes -> Device] /\ Coord \in Nodes
  BY PanIdConstants DEF DevicesOK
<1> QED
  BY <1>1, Entered

LEMMA Conflicts ==
  ASSUME node \in [Nodes -> Device], NEW n \in Nodes, node' = [node EXCEPT ![n].conflict = FALSE]
  PROVE  /\ node' \in [Nodes -> Device]
         /\ \A x \in Nodes : /\ node'[x].pan = node[x].pan /\ node'[x].ch = node[x].ch
                             /\ node'[x].new = node[x].new /\ node'[x].state = node[x].state
BY DEF Device

LEMMA NewSet ==
  ASSUME node \in [Nodes -> Device], NEW n \in Nodes, NEW p \in AllPans,
         node' = [node EXCEPT ![n].new = p]
  PROVE  /\ node' \in [Nodes -> Device]
         /\ \A x \in Nodes : /\ node'[x].pan = node[x].pan /\ node'[x].ch = node[x].ch
                             /\ node'[x].new = IF x = n THEN p ELSE node[x].new
                             /\ node'[x].state = node[x].state
BY DEF Device

LEMMA Hopped ==
  ASSUME node \in [Nodes -> Device], NEW n \in Nodes, NEW c \in FirstChannel .. LastChannel,
         node' = [node EXCEPT ![n].ch = c]
  PROVE  /\ node' \in [Nodes -> Device]
         /\ \A x \in Nodes : /\ node'[x].pan = node[x].pan
                             /\ node'[x].ch = IF x = n THEN c ELSE node[x].ch
                             /\ node'[x].new = node[x].new /\ node'[x].state = node[x].state
BY DEF Device

\* A callback is scheduled, or runs.
LEMMA Scheduled ==
  ASSUME todo \in [Nodes -> [Functions -> Nat]], NEW n \in Nodes, NEW f \in Functions,
         todo' = Schedule(todo, n, f)
  PROVE  /\ todo' \in [Nodes -> [Functions -> Nat]]
         /\ \A x \in Nodes, g \in Functions :
              todo'[x][g] = IF x = n /\ g = f THEN todo[x][g] + 1 ELSE todo[x][g]
BY DEF Schedule

LEMMA Ran ==
  ASSUME todo \in [Nodes -> [Functions -> Nat]], NEW n \in Nodes, NEW f \in Functions,
         todo[n][f] > 0, todo' = Run(todo, n, f)
  PROVE  /\ todo' \in [Nodes -> [Functions -> Nat]]
         /\ \A x \in Nodes, g \in Functions :
              todo'[x][g] = IF x = n /\ g = f THEN todo[x][g] - 1 ELSE todo[x][g]
BY DEF Run

LEMMA FunctionsAre ==
  /\ "report" \in Functions /\ "update" \in Functions /\ "status" \in Functions
  /\ "set" \in Functions /\ "confirm" \in Functions
BY Zenon DEF Functions

\* Reports and status indications do not touch the counters that matter to the PAN id.
OtherCalls == {"report", "status"}

LEMMA CallsAside ==
  ASSUME todo \in [Nodes -> [Functions -> Nat]], NEW n \in Nodes, NEW f \in OtherCalls,
         todo' = Schedule(todo, n, f) \/ (todo[n][f] > 0 /\ todo' = Run(todo, n, f))
  PROVE  /\ todo' \in [Nodes -> [Functions -> Nat]]
         /\ \A x \in Nodes : /\ todo'[x]["set"] = todo[x]["set"]
                             /\ todo'[x]["update"] = todo[x]["update"]
<1>1. f \in Functions /\ "set" # f /\ "update" # f
  BY DEF OtherCalls, Functions
<1>2. /\ todo' \in [Nodes -> [Functions -> Nat]]
      /\ \A x \in Nodes, g \in Functions : g # f => todo'[x][g] = todo[x][g]
  <2>1. CASE todo' = Schedule(todo, n, f)
    BY <1>1, <2>1, Scheduled
  <2>2. CASE todo[n][f] > 0 /\ todo' = Run(todo, n, f)
    BY <1>1, <2>2, Ran
  <2> QED
    BY <2>1, <2>2
<1> QED
  BY <1>1, <1>2, FunctionsAre

LEMMA OtherCallsAre == "report" \in OtherCalls /\ "status" \in OtherCalls
BY DEF OtherCalls

\* What does not concern the PAN id leaves OnePanId alone; what does not concern the
\* channel leaves OneChannel alone.
LEMMA PanAside ==
  ASSUME DevicesOK, OnePanId, UNCHANGED <<Updates, alarms, picked, starting>>,
         \A n \in Nodes : node'[n].new = node[n].new /\ node'[n].pan = node[n].pan,
         \A n \in Nodes : todo'[n]["set"] = todo[n]["set"],
         todo'[Coord]["update"] = todo[Coord]["update"]
  PROVE  OnePanId'
<1>1. Coord \in Nodes
  BY PanIdConstants
<1>2. ASSUME NEW n \in Nodes, NEW p, Heading(n, p) PROVE Heading(n, p)'
  BY <1>2 DEF Heading, Arriving
<1> QED
  BY <1>1, <1>2 DEF OnePanId

LEMMA ChannelAside ==
  ASSUME OneChannel, UNCHANGED <<Moves, hops, asked>>, \A n \in Nodes : node'[n].ch = node[n].ch
  PROVE  OneChannel'
<1>1. ASSUME NEW n \in Nodes, NEW c, Hopping(n, c) PROVE Hopping(n, c)'
  BY <1>1 DEF Hopping
<1>2. PICK c \in FirstChannel .. LastChannel :
        /\ \A m \in Moves : m.of = asked => m.new = c
        /\ \A h \in hops : h.of = asked => h.ch = c
        /\ \A n \in Nodes : Hopping(n, c)
  BY DEF OneChannel
<1> QED
  BY <1>1, <1>2 DEF OneChannel

-----------------------------------------------------------------------------
(* The choice of a channel. *)

\* A set of numbers has a least one, and one that is bounded a greatest.
LEMMA LeastIs ==
  ASSUME NEW S \in SUBSET Nat, S # {}
  PROVE  Min(S) \in S /\ \A k \in S : Min(S) <= k
<1>1. PICK i \in S : \A j \in S : <<j, i>> \notin OpToRel(<, Nat)
  BY NatLessThanWellFounded, WFMin, Zenon
<1>2. ASSUME NEW j \in S PROVE i <= j
  <2>1. <<j, i>> \notin OpToRel(<, Nat) /\ <<j, i>> \in Nat \X Nat
    BY <1>1
  <2>2. ~ (j < i)
    BY <2>1, Zenon DEF OpToRel
  <2> QED
    BY <2>2
<1>3. \E k \in S : \A j \in S : k <= j
  BY <1>2
<1> QED
  BY <1>3 DEF Min

-----------------------------------------------------------------------------
(* The formation. *)

ScanStates == {"idle", "ed scan", "active scan"}

\* The coordinator scans, or gives up.
LEMMA FormingEnters ==
  ASSUME PanIdInv, joined # "yes", NEW s \in ScanStates, Enter(Coord, s),
         node[Coord].state # "formation", joined' \in {"no", "failed"}, FormOK',
         UNCHANGED <<todo, starting, alarms, hops, air, boundVars, history>>
  PROVE  PanIdInv'
<1>1. DevicesOK /\ Forming
  BY DEF PanIdInv
<1>2. /\ node' \in [Nodes -> Device]
      /\ node'[Coord].state = s
  <2>1. s \in DeviceStates
    BY DEF ScanStates, DeviceStates
  <2> QED
    BY <1>1, <2>1, CoordEntered
<1>3. UNCHANGED <<crossed, picked, asked, todo, starting>>
  BY DEF boundVars, history
<1>4. alarms' = {} /\ hops' = {} /\ air' = {}
  BY <1>1 DEF Forming
<1>5. DevicesOK' /\ UpdatesOK' /\ MovesOK'
  BY <1>1, <1>2, <1>3, <1>4 DEF DevicesOK, UpdatesOK, MovesOK, Updates, Moves
<1>6. Forming'
  <2>1. node'[Coord].state # "resolution" /\ node'[Coord].state # "formation"
    BY <1>2 DEF ScanStates
  <2> QED
    BY <1>1, <1>3, <1>4, <2>1 DEF Forming
<1> QED
  BY <1>5, <1>6 DEF PanIdInv

LEMMA FormationRequestInv ==
  ASSUME PanIdInv, NEW mask \in SUBSET Channels, mask # {}, FormationRequest(mask)
  PROVE  PanIdInv'
<1>1. /\ node[Coord].state = "idle" /\ joined # "yes" /\ joined' = "no" /\ form' = mask
      /\ UNCHANGED <<todo, starting, alarms, hops, air, boundVars, history>>
  BY DEF FormationRequest
<1>2. PICK s \in ScanStates : Enter(Coord, s)
  BY DEF FormationRequest, ScanStates
<1>3. FormOK'
  BY <1>1 DEF FormOK
<1> QED
  BY <1>1, <1>2, <1>3, FormingEnters

LEMMA EdScanConfirmInv ==
  ASSUME PanIdInv, NEW quiet \in SUBSET Channels, EdScanConfirm(quiet)
  PROVE  PanIdInv'
<1>1. /\ node[Coord].state = "ed scan" /\ form' = quiet
      /\ IF quiet # {} THEN Enter(Coord, "active scan") /\ UNCHANGED joined
         ELSE Enter(Coord, "idle") /\ joined' = "failed"
      /\ UNCHANGED <<todo, starting, alarms, hops, air, boundVars, history>>
  BY DEF EdScanConfirm
<1>2. joined # "yes" /\ FormOK /\ DevicesOK
  BY <1>1, PanIdConstants DEF PanIdInv, Formed, Forming
<1>3. joined' \in {"no", "failed"}
  BY <1>1, <1>2 DEF DevicesOK
<1>4. PICK s \in ScanStates : Enter(Coord, s) /\ (quiet = {} => s = "idle")
  BY <1>1 DEF ScanStates
<1>5. node'[Coord].state = s
  <2>1. s \in DeviceStates
    BY DEF ScanStates, DeviceStates
  <2> QED
    BY <1>2, <1>4, <2>1, CoordEntered
<1>6. FormOK'
  BY <1>1, <1>4, <1>5 DEF FormOK
<1> QED
  BY <1>1, <1>2, <1>3, <1>4, <1>6, FormingEnters

LEMMA SelectChannelInv ==
  ASSUME PanIdInv, SelectChannel
  PROVE  PanIdInv'
<1> DEFINE c == Min(form)
<1>1. /\ node[Coord].state = "active scan"
      /\ \E p \in IF node[Coord].pan = 0 THEN AllPans ELSE {node[Coord].pan} :
           starting' = [starting EXCEPT ![Coord] = Append(@, [pan |-> p, ch |-> c])]
      /\ Enter(Coord, "formation")
      /\ UNCHANGED <<form, joined, todo, alarms, hops, air, boundVars, history>>
  BY DEF SelectChannel, formVars
<1>2. joined # "yes" /\ Forming /\ FormOK /\ DevicesOK
  BY <1>1, PanIdConstants DEF PanIdInv, Formed, Forming
<1>3. c \in Channels
  <2>1. Channels \subseteq Nat
    BY PanIdConstants DEF FirstChannel, LastChannel
  <2>2. form # {} /\ form \in SUBSET Channels
    BY <1>1, <1>2 DEF FormOK
  <2>3. Min(form) \in form
    BY <2>1, <2>2, LeastIs
  <2> QED
    BY <2>2, <2>3
<1>4. PICK p \in AllPans : starting' = [starting EXCEPT ![Coord] = Append(@, [pan |-> p, ch |-> c])]
  BY <1>1, <1>2, PanIdConstants DEF DevicesOK, Device
<1> HIDE DEF c
<1>5. PanIdInv'
  <2>1. /\ node' \in [Nodes -> Device]
        /\ node'[Coord].state = "formation"
    BY <1>1, <1>2, CoordEntered DEF DeviceStates
  <2>2. [pan |-> p, ch |-> c] \in StartReq
    BY <1>3, <1>4, PanIdConstants DEF StartReq
  <2>3. starting[Coord] = << >> /\ todo[Coord]["confirm"] = 0
    BY <1>1, <1>2 DEF Forming
  <2>4. /\ starting' \in [Nodes -> Seq(StartReq)] /\ Len(starting'[Coord]) = 1
        /\ \A n \in Routers : starting'[n] = << >>
    <3> DEFINE r == [pan |-> p, ch |-> c]
    <3>1. r \in StartReq /\ starting' = [starting EXCEPT ![Coord] = Append(@, r)]
      BY <1>4, <2>2
    <3> HIDE DEF r
    <3>2. starting \in [Nodes -> Seq(StartReq)] /\ Append(<< >>, r) \in Seq(StartReq) /\ Len(Append(<< >>, r)) = 1
      BY <1>2, <3>1 DEF DevicesOK
    <3>3. \A n \in Routers : n \in Nodes /\ n # Coord /\ starting[n] = << >>
      BY <1>2, PanIdConstants DEF Forming
    <3> QED
      BY <2>3, <3>1, <3>2, <3>3, PanIdConstants
  <2>5. UNCHANGED <<crossed, picked, asked, todo>>
    BY <1>1 DEF boundVars, history
  <2>6. alarms' = {} /\ hops' = {} /\ air' = {}
    BY <1>1, <1>2 DEF Forming
  <2>7. FormOK'
    BY <1>1, <1>2, <2>1 DEF FormOK
  <2>8. DevicesOK' /\ UpdatesOK' /\ MovesOK'
    BY <1>1, <1>2, <2>1, <2>4, <2>5, <2>6 DEF DevicesOK, UpdatesOK, MovesOK, Updates, Moves
  <2>9. Forming'
    BY <1>2, <2>1, <2>3, <2>4, <2>5, <2>6, <2>7 DEF Forming
  <2> QED
    BY <1>1, <1>2, <2>8, <2>9 DEF PanIdInv
<1> QED
  BY <1>5

-----------------------------------------------------------------------------
(* The devices start. *)

\* One step keeps what the devices are heading for.
LEMMA GoalKept ==
  ASSUME OnePanId, todo'[Coord]["update"] = todo[Coord]["update"], picked' = picked,
         node'[Coord].new = node[Coord].new, Updates' \subseteq Updates,
         todo[Coord]["update"] > 0 /\ [at |-> Coord, of |-> picked] \in alarms
           => [at |-> Coord, of |-> picked] \in alarms',
         \A n \in Nodes, p \in AllPans :
           (picked > 0 => p = node[Coord].new) /\ Heading(n, p) => Heading(n, p)'
  PROVE  OnePanId'
<1>1. CASE todo[Coord]["update"] > 0
  BY <1>1 DEF OnePanId
<1>2. CASE ~(todo[Coord]["update"] > 0)
  <2>1. PICK p \in AllPans : /\ IF picked > 0 THEN p = node[Coord].new ELSE Updates = {}
                            /\ \A n \in Nodes : Heading(n, p)
    BY <1>2 DEF OnePanId
  <2>2. \A n \in Nodes : Heading(n, p)'
    BY <2>1
  <2> QED
    BY <1>2, <2>1, <2>2 DEF OnePanId
<1> QED
  BY <1>1, <1>2

\* A step that changes neither frames nor alarms nor numbers.
LEMMA StillOK ==
  ASSUME UpdatesOK, MovesOK, UNCHANGED <<air, alarms, hops, picked, asked>>,
         node'[Coord].new = node[Coord].new
  PROVE  UpdatesOK' /\ MovesOK'
BY DEF UpdatesOK, MovesOK, Updates, Moves

LEMMA TailOf ==
  ASSUME NEW s \in Seq(StartReq), s # << >>
  PROVE  /\ Head(s) \in StartReq /\ Head(s) = s[1] /\ Len(s) \in Nat /\ Len(s) > 0
         /\ Tail(s) \in Seq(StartReq) /\ Len(Tail(s)) = Len(s) - 1
         /\ \A i \in 1 .. Len(Tail(s)) : Tail(s)[i] = s[i + 1] /\ i + 1 \in 1 .. Len(s)
OBVIOUS

LEMMA MlmeStartInv ==
  ASSUME PanIdInv, ~missed, NEW n \in Nodes, MlmeStart(n)
  PROVE  PanIdInv'
<1> DEFINE s == starting[n]
<1>1. /\ s # << >> /\ starting' = [starting EXCEPT ![n] = Tail(@)]
      /\ node' = [node EXCEPT ![n].pan = Head(s).pan, ![n].ch = Head(s).ch]
      /\ todo' = Schedule(todo, n, "confirm")
      /\ UNCHANGED <<form, joined, alarms, hops, air, picked, asked, missed, crossed>>
  BY DEF MlmeStart, boundVars, history
<1>2. DevicesOK /\ UpdatesOK /\ MovesOK
  BY DEF PanIdInv
<1>3. /\ s \in Seq(StartReq) /\ Head(s) \in StartReq /\ Head(s) = s[1] /\ Len(s) \in Nat /\ Len(s) > 0
      /\ Tail(s) \in Seq(StartReq) /\ Len(Tail(s)) = Len(s) - 1
      /\ \A i \in 1 .. Len(Tail(s)) : Tail(s)[i] = s[i + 1] /\ i + 1 \in 1 .. Len(s)
  <2>1. s \in Seq(StartReq)
    BY <1>2 DEF DevicesOK
  <2> HIDE DEF s
  <2> QED
    BY <1>1, <2>1, TailOf
<1> DEFINE h == Head(s)
           t == Tail(s)
<1>4. h.pan \in AllPans /\ h.ch \in FirstChannel .. LastChannel
  BY <1>3 DEF StartReq
<1>5. /\ starting' \in [Nodes -> Seq(StartReq)] /\ starting'[n] = t
      /\ \A x \in Nodes : x # n => starting'[x] = starting[x]
  <2>1. starting \in [Nodes -> Seq(StartReq)] /\ starting' = [starting EXCEPT ![n] = t] /\ t \in Seq(StartReq)
    BY <1>1, <1>2, <1>3 DEF DevicesOK
  <2> HIDE DEF t
  <2> QED
    BY <2>1
<1>6. /\ node' \in [Nodes -> Device]
      /\ node'[n].pan = h.pan /\ node'[n].ch = h.ch
      /\ \A x \in Nodes : /\ node'[x].new = node[x].new /\ node'[x].state = node[x].state
                          /\ x # n => node'[x] = node[x]
  <2>1. node \in [Nodes -> Device] /\ node' = [node EXCEPT ![n].pan = h.pan, ![n].ch = h.ch]
    BY <1>1, <1>2 DEF DevicesOK
  <2> HIDE DEF h
  <2> QED
    BY <1>4, <2>1 DEF Device
<1>7. /\ todo' \in [Nodes -> [Functions -> Nat]]
      /\ \A x \in Nodes, g \in Functions :
           todo'[x][g] = IF x = n /\ g = "confirm" THEN todo[x][g] + 1 ELSE todo[x][g]
  BY <1>1, <1>2, Scheduled, FunctionsAre DEF DevicesOK
<1> HIDE DEF s, h, t
<1>8. DevicesOK'
  BY <1>1, <1>2, <1>5, <1>6, <1>7 DEF DevicesOK
<1>9. UpdatesOK' /\ MovesOK'
  BY <1>1, <1>2, <1>6, PanIdConstants, StillOK
<1>10. CASE joined # "yes"
  <2>1. Forming
    BY <1>10 DEF PanIdInv
  <2>2. n = Coord
    BY <1>1, <2>1, PanIdConstants DEF Forming, s
  <2>3. node[Coord].state = "formation" /\ Len(s) = 1 /\ todo[Coord]["confirm"] = 0
    BY <1>1, <2>1, <2>2 DEF Forming, s
  <2>4. starting'[Coord] = << >> /\ todo'[Coord]["confirm"] = 1 /\ node'[Coord].state = "formation"
    <3>1. Len(t) = 0 /\ t \in Seq(StartReq)
      BY <1>3, <2>3 DEF t
    <3>2. t = << >>
      BY <3>1
    <3> QED
      BY <1>5, <1>6, <1>7, <2>2, <2>3, <3>2, FunctionsAre
  <2>5. FormOK'
    BY <1>1, <2>1, <2>4 DEF Forming, FormOK
  <2>6. \A x \in Nodes, f \in Functions : x # Coord \/ f # "confirm" => todo'[x][f] = 0
    BY <1>7, <2>1, <2>2 DEF Forming
  <2>7. \A x \in Routers : starting'[x] = << >>
    BY <1>5, <2>1, <2>2, PanIdConstants DEF Forming
  <2>8. Forming'
    BY <1>1, <2>1, <2>4, <2>5, <2>6, <2>7 DEF Forming
  <2> QED
    BY <1>1, <1>8, <1>9, <1>10, <2>8 DEF PanIdInv
<1>11. CASE joined = "yes"
  <2>1. Formed
    BY <1>11 DEF PanIdInv
  <2>2. h.ch = node[n].ch
    BY <1>3, <2>1 DEF Formed, StartsThere, s, h
  <2>3. StartsThere'
    <3>1. ASSUME NEW x \in Nodes, NEW i \in 1 .. Len(starting'[x]) PROVE starting'[x][i].ch = node'[x].ch
      <4>1. CASE x = n
        <5>1. i \in 1 .. Len(t) /\ starting'[x][i] = t[i] /\ node'[x].ch = node[n].ch
          BY <1>5, <1>6, <2>2, <4>1
        <5>2. t[i] = s[i + 1] /\ i + 1 \in 1 .. Len(s)
          BY <1>3, <5>1 DEF t
        <5> QED
          BY <2>1, <5>1, <5>2 DEF Formed, StartsThere, s
      <4>2. CASE x # n
        BY <1>5, <1>6, <2>1, <4>2 DEF Formed, StartsThere
      <4> QED
        BY <4>1, <4>2
    <3> QED
      BY <3>1 DEF StartsThere
  <2>4. ASSUME NEW x \in Nodes, NEW p \in AllPans, Heading(x, p) PROVE Heading(x, p)'
    <3>1. Arriving(x, p) => Arriving(x, p)'
      <4>1. todo'[x]["set"] = todo[x]["set"] /\ node'[x].new = node[x].new
        BY <1>6, <1>7, FunctionsAre
      <4>2. CASE x # n
        BY <1>5, <1>6, <4>1, <4>2 DEF Arriving
      <4>3. CASE x = n
        <5>1. starting[x] = s /\ starting'[x] = t /\ node'[x].pan = h.pan
          BY <1>5, <1>6, <4>3 DEF s
        <5>2. CASE Len(s) = 1
          <6>1. t = << >> /\ h = s[Len(s)]
            <7>1. Len(t) = 0 /\ t \in Seq(StartReq) /\ h = s[1]
              BY <1>3, <5>2 DEF t, h
            <7>2. t = << >>
              BY <7>1
            <7> QED
              BY <5>2, <7>1, <7>2
          <6> QED
            BY <1>1, <4>1, <5>1, <6>1 DEF Arriving
        <5>3. CASE Len(s) # 1
          <6>1. t # << >> /\ t[Len(t)] = s[Len(s)]
            <7>1. /\ Len(s) \in Nat /\ Len(s) > 0 /\ Len(t) = Len(s) - 1
                  /\ \A i \in 1 .. Len(t) : t[i] = s[i + 1]
              BY <1>3 DEF t
            <7>2. Len(t) \in 1 .. Len(t) /\ Len(t) + 1 = Len(s)
              BY <5>3, <7>1
            <7>3. t[Len(t)] = s[Len(s)]
              BY <7>1, <7>2
            <7>4. t # << >>
              BY <7>2
            <7> QED
              BY <7>3, <7>4
          <6> QED
            BY <1>1, <4>1, <5>1, <6>1 DEF Arriving
        <5> QED
          BY <5>2, <5>3
      <4> QED
        BY <4>2, <4>3
    <3>2. Updates' = Updates
      BY <1>1 DEF Updates
    <3> QED
      BY <1>1, <1>6, <2>4, <3>1, <3>2 DEF Heading
  <2>5. OnePanId => OnePanId'
    <3>1. Updates' = Updates
      BY <1>1 DEF Updates
    <3> QED
      BY <1>1, <1>6, <1>7, <2>4, <3>1, GoalKept, PanIdConstants, FunctionsAre
  <2>6. OneChannel => OneChannel'
    <3>1. \A x \in Nodes : node'[x].ch = node[x].ch
      BY <1>6, <2>2
    <3> QED
      BY <1>1, <3>1, ChannelAside DEF Moves
  <2>7. \A x \in Nodes : node'[x].state \in {"idle", "resolution"}
    BY <1>6, <2>1 DEF Formed
  <2> QED
    BY <1>1, <1>8, <1>9, <1>11, <2>1, <2>3, <2>5, <2>6, <2>7 DEF PanIdInv, Formed
<1> QED
  BY <1>10, <1>11

\* What holds of a network that is formed; before that nothing is under way.
LEMMA FormedIs ==
  ASSUME PanIdInv, joined = "yes"
  PROVE  DevicesOK /\ UpdatesOK /\ MovesOK /\ Formed
BY DEF PanIdInv

LEMMA NothingYet ==
  ASSUME PanIdInv, joined # "yes"
  PROVE  /\ alarms = {} /\ hops = {} /\ air = {}
         /\ \A n \in Nodes : /\ todo[n]["set"] = 0 /\ todo[n]["update"] = 0
                             /\ todo[n]["report"] = 0 /\ todo[n]["status"] = 0
<1>1. Forming
  BY DEF PanIdInv
<1>2. "set" # "confirm" /\ "update" # "confirm" /\ "report" # "confirm" /\ "status" # "confirm"
  OBVIOUS
<1>3. \A n \in Nodes, f \in Functions : n # Coord \/ f # "confirm" => todo[n][f] = 0
  BY <1>1 DEF Forming
<1> QED
  BY <1>1, <1>2, <1>3, FunctionsAre DEF Forming

LEMMA StillFormed ==
  ASSUME PanIdInv, joined = "yes", joined' = joined, DevicesOK', UpdatesOK', MovesOK',
         \A n \in Nodes : node'[n].state \in {"idle", "resolution"}, StartsThere',
         ~missed' /\ ~crossed' => OnePanId' /\ OneChannel'
  PROVE  PanIdInv'
BY DEF PanIdInv, Formed

LEMMA StartConfirmInv ==
  ASSUME PanIdInv, ~missed, NEW n \in Nodes, StartConfirm(n)
  PROVE  PanIdInv'
<1>1. /\ todo[n]["confirm"] > 0 /\ todo' = Run(todo, n, "confirm")
      /\ UNCHANGED <<starting, alarms, hops, air, picked, asked, missed, crossed>>
  BY DEF StartConfirm, boundVars
<1>2. DevicesOK /\ UpdatesOK /\ MovesOK
  BY DEF PanIdInv
<1>3. /\ todo' \in [Nodes -> [Functions -> Nat]]
      /\ \A x \in Nodes, g \in Functions :
           todo'[x][g] = IF x = n /\ g = "confirm" THEN todo[x][g] - 1 ELSE todo[x][g]
  BY <1>1, <1>2, Ran, FunctionsAre DEF DevicesOK
<1>4. CASE node[n].state = "formation"
  <2>1. /\ joined' = "yes"
        /\ node' = [x \in Nodes |-> [node[x] EXCEPT !.pan = node[n].pan, !.ch = node[n].ch,
                                                    !.state = "idle"]]
    BY <1>4 DEF StartConfirm
  <2>2. joined # "yes"
    BY <1>4 DEF PanIdInv, Formed
  <2>3. Forming
    BY <2>2 DEF PanIdInv
  <2>4. n = Coord
    <3>1. \A x \in Nodes, f \in Functions : x # Coord \/ f # "confirm" => todo[x][f] = 0
      BY <2>3 DEF Forming
    <3> QED
      BY <1>1, <3>1, FunctionsAre
  <2>5. /\ alarms' = {} /\ hops' = {} /\ air' = {} /\ picked' = 0 /\ asked' = 0
        /\ \A x \in Nodes : starting'[x] = << >>
    <3>1. starting[Coord] = << >>
      BY <1>1, <1>4, <2>3, <2>4 DEF Forming
    <3> QED
      BY <1>1, <2>3, <3>1, PanIdConstants DEF Forming
  <2>6. todo'[Coord]["update"] = 0 /\ \A x \in Nodes : todo'[x]["set"] = 0
    BY <1>3, <2>2, NothingYet, PanIdConstants, FunctionsAre
  <2>7. node' \in [Nodes -> Device]
    <3>1. \A x \in Nodes : [node[x] EXCEPT !.pan = node[n].pan, !.ch = node[n].ch, !.state = "idle"] \in Device
      BY <1>2 DEF DevicesOK, Device, DeviceStates
    <3> QED
      BY <2>1, <3>1
  <2>8. /\ node[n].pan \in AllPans /\ node[n].ch \in FirstChannel .. LastChannel
        /\ \A x \in Nodes : node'[x].pan = node[n].pan /\ node'[x].ch = node[n].ch /\ node'[x].state = "idle"
    BY <1>2, <2>1 DEF DevicesOK, Device
  <2>9. DevicesOK' /\ UpdatesOK' /\ MovesOK'
    BY <1>1, <1>2, <1>3, <2>1, <2>5, <2>7 DEF DevicesOK, UpdatesOK, MovesOK, Updates, Moves
  <2>10. OnePanId'
    <3>1. \A x \in Nodes : Heading(x, node[n].pan)'
      BY <2>5, <2>6, <2>8 DEF Heading, Arriving, Updates
    <3> QED
      BY <2>5, <2>6, <2>8, <3>1 DEF OnePanId, Updates
  <2>11. OneChannel'
    <3>1. \A x \in Nodes : Hopping(x, node[n].ch)'
      BY <2>5, <2>8 DEF Hopping, Moves
    <3> QED
      BY <2>5, <2>8, <3>1 DEF OneChannel, Moves
  <2>12. StartsThere'
    BY <2>5 DEF StartsThere
  <2> QED
    BY <2>1, <2>8, <2>9, <2>10, <2>11, <2>12 DEF PanIdInv, Formed
<1>5. CASE node[n].state # "formation"
  <2>1. Enter(n, "idle") /\ joined' = joined
    BY <1>5 DEF StartConfirm, formVars
  <2>2. joined = "yes"
    <3>1. SUFFICES ASSUME Forming PROVE FALSE
      BY DEF PanIdInv
    <3>2. \A x \in Nodes, f \in Functions : x # Coord \/ f # "confirm" => todo[x][f] = 0
      BY <3>1 DEF Forming
    <3>3. n = Coord
      BY <1>1, <3>2, FunctionsAre
    <3> QED
      BY <1>1, <1>5, <3>1, <3>3 DEF Forming
  <2>3. /\ node' \in [Nodes -> Device]
        /\ \A x \in Nodes : /\ node'[x].pan = node[x].pan /\ node'[x].ch = node[x].ch
                            /\ node'[x].new = node[x].new
                            /\ node'[x].state = IF x = n THEN "idle" ELSE node[x].state
    BY <1>2, <2>1, Entered DEF DevicesOK, DeviceStates
  <2>4. DevicesOK'
    BY <1>1, <1>2, <1>3, <2>1, <2>3 DEF DevicesOK
  <2>5. UpdatesOK' /\ MovesOK'
    BY <1>1, <1>2, <2>3, PanIdConstants, StillOK
  <2>6. Formed
    BY <2>2, FormedIs
  <2>7. OnePanId => OnePanId'
    <3>1. Updates' = Updates
      BY <1>1 DEF Updates
    <3>2. \A x \in Nodes : todo'[x]["set"] = todo[x]["set"] /\ todo'[x]["update"] = todo[x]["update"]
      BY <1>3, FunctionsAre
    <3> QED
      BY <1>1, <1>2, <2>3, <3>1, <3>2, PanAside, PanIdConstants
  <2>8. OneChannel => OneChannel'
    <3>1. Moves' = Moves
      BY <1>1 DEF Moves
    <3> QED
      BY <1>1, <2>3, <3>1, ChannelAside
  <2>9. StartsThere'
    BY <1>1, <2>3, <2>6 DEF Formed, StartsThere
  <2> QED
    BY <1>1, <2>1, <2>2, <2>3, <2>4, <2>5, <2>6, <2>7, <2>8, <2>9, StillFormed DEF Formed
<1> QED
  BY <1>4, <1>5

-----------------------------------------------------------------------------
(* The manager. *)

LEMMA NetworkUpdateInv ==
  ASSUME PanIdInv, joined = "yes", NEW zeroKnown, NetworkUpdate(zeroKnown),
         UNCHANGED <<Updates, Moves>>
  PROVE  PanIdInv'
<1>1. /\ picked' = picked + 1 /\ todo' = Schedule(todo, Coord, "update")
      /\ alarms' = alarms \cup {[at |-> Coord, of |-> picked']}
      /\ UNCHANGED <<form, joined, starting, hops, asked, missed, crossed>>
  BY DEF NetworkUpdate, formVars
<1>2. DevicesOK /\ UpdatesOK /\ MovesOK /\ Formed /\ Coord \in Nodes
  BY FormedIs, PanIdConstants
<1>3. PICK p \in AllPans : node' = [node EXCEPT ![Coord].new = p, ![Coord].state = "idle"]
  BY PanIdConstants DEF NetworkUpdate
<1>4. /\ node' \in [Nodes -> Device]
      /\ \A x \in Nodes : /\ node'[x].pan = node[x].pan /\ node'[x].ch = node[x].ch
                          /\ x # Coord => node'[x] = node[x]
                          /\ x = Coord => node'[x].state = "idle"
  <2>1. node \in [Nodes -> Device] /\ "idle" \in DeviceStates
    BY <1>2 DEF DevicesOK, DeviceStates
  <2> QED
    BY <1>2, <1>3, <2>1 DEF Device
<1>5. /\ todo' \in [Nodes -> [Functions -> Nat]]
      /\ todo'[Coord]["update"] > 0
  <2>1. /\ todo' \in [Nodes -> [Functions -> Nat]]
        /\ todo'[Coord]["update"] = todo[Coord]["update"] + 1
    BY <1>1, <1>2, Scheduled, FunctionsAre DEF DevicesOK
  <2>2. todo[Coord]["update"] \in Nat
    BY <1>2, FunctionsAre DEF DevicesOK
  <2> QED
    BY <2>1, <2>2
<1>6. DevicesOK'
  BY <1>1, <1>2, <1>4, <1>5 DEF DevicesOK
<1>7. UpdatesOK'
  <2>1. picked \in Nat /\ picked' = picked + 1
    BY <1>1, <1>2 DEF DevicesOK
  <2>2. ASSUME NEW a \in alarms' PROVE a = [at |-> a.at, of |-> a.of] /\ a.at \in Nodes /\ a.of \in 0 .. picked'
    <3>1. CASE a \in alarms
      BY <1>2, <2>1, <3>1 DEF UpdatesOK
    <3>2. CASE a = [at |-> Coord, of |-> picked']
      BY <1>2, <2>1, <3>2
    <3> QED
      BY <1>1, <3>1, <3>2
  <2>3. ASSUME NEW m \in Updates'
        PROVE  m.to \in Routers /\ m.new \in AllPans /\ m.of \in 0 .. picked' /\ m.of # picked'
    BY <1>2, <2>1 DEF UpdatesOK
  <2> QED
    BY <2>2, <2>3 DEF UpdatesOK
<1>8. MovesOK'
  BY <1>1, <1>2 DEF MovesOK
<1>9. OnePanId'
  BY <1>1, <1>2, <1>5 DEF OnePanId, DevicesOK
<1>10. OneChannel => OneChannel'
  BY <1>1, <1>4, ChannelAside
<1>11. StartsThere'
  BY <1>1, <1>2, <1>4 DEF Formed, StartsThere
<1>12. \A n \in Nodes : node'[n].state \in {"idle", "resolution"}
  BY <1>2, <1>4 DEF Formed
<1> QED
  BY <1>1, <1>2, <1>6, <1>7, <1>8, <1>9, <1>10, <1>11, <1>12, StillFormed DEF Formed

LEMMA ManagerHearsRivalInv ==
  ASSUME PanIdInv, ManagerHearsRival
  PROVE  PanIdInv'
<1>1. joined = "yes" /\ NetworkUpdate(FALSE) /\ UNCHANGED air
  BY DEF ManagerHearsRival
<1>2. UNCHANGED <<Updates, Moves>>
  BY <1>1 DEF Updates, Moves
<1> QED
  BY <1>1, <1>2, NetworkUpdateInv

\* Frames are there once the network is formed.
LEMMA FramesWhenFormed ==
  ASSUME PanIdInv, NEW m \in air
  PROVE  joined = "yes"
BY NothingYet

\* Who misses a frame is not spoken of any more.
LEMMA MissedInv ==
  ASSUME PanIdInv, joined = "yes", missed' = TRUE, Updates' \subseteq Updates, Moves' \subseteq Moves,
         UNCHANGED <<form, joined, node, todo, starting, alarms, hops, picked, asked, crossed>>
  PROVE  PanIdInv'
<1>1. DevicesOK /\ UpdatesOK /\ MovesOK /\ Formed
  BY FormedIs
<1>2. DevicesOK' /\ StartsThere'
  BY <1>1 DEF DevicesOK, Formed, StartsThere
<1>3. UpdatesOK' /\ MovesOK'
  BY <1>1 DEF UpdatesOK, MovesOK
<1> QED
  BY <1>1, <1>2, <1>3, StillFormed DEF Formed

LEMMA MissInv ==
  ASSUME PanIdInv, NEW m \in air, Miss(m)
  PROVE  PanIdInv'
<1>1. /\ missed' = TRUE /\ air' = air \ {m}
      /\ UNCHANGED <<form, joined, node, todo, starting, alarms, hops, picked, asked, crossed>>
  BY DEF Miss, formVars, boundVars
<1>2. Updates' \subseteq Updates /\ Moves' \subseteq Moves
  BY <1>1 DEF Updates, Moves
<1> QED
  BY <1>1, <1>2, FramesWhenFormed, MissedInv

LEMMA GotNetworkReportInv ==
  ASSUME PanIdInv, NEW m \in air, GotNetworkReport(m)
  PROVE  PanIdInv'
<1>1. m.kind = "report" /\ air' = air \ {m} /\ joined = "yes"
  BY FramesWhenFormed DEF GotNetworkReport
<1>2. Updates' = Updates /\ Moves' = Moves
  BY <1>1 DEF Updates, Moves
<1>3. CASE NetworkUpdate(TRUE)
  BY <1>1, <1>2, <1>3, NetworkUpdateInv
<1>4. CASE /\ missed' = TRUE
           /\ UNCHANGED <<formVars, node, todo, starting, alarms, hops, boundVars, crossed, asserted>>
  BY <1>1, <1>2, <1>4, MissedInv DEF formVars, boundVars
<1> QED
  BY <1>3, <1>4 DEF GotNetworkReport

LEMMA SendNwkUpdateInv ==
  ASSUME PanIdInv, ~missed, SendNwkUpdate
  PROVE  PanIdInv'
<1> DEFINE F == {[kind |-> "update", to |-> r, pan |-> node[Coord].pan, ch |-> node[Coord].ch,
                  new |-> node[Coord].new, of |-> picked] : r \in Routers}
<1>1. /\ todo[Coord]["update"] > 0 /\ air' = air \cup F /\ todo' = Run(todo, Coord, "update")
      /\ UNCHANGED <<form, joined, node, starting, alarms, hops, picked, asked, missed, crossed>>
  BY DEF SendNwkUpdate, formVars, boundVars, history
<1>2. joined = "yes" /\ Coord \in Nodes
  BY <1>1, NothingYet, PanIdConstants
<1>3. DevicesOK /\ UpdatesOK /\ MovesOK /\ Formed
  BY <1>2, FormedIs
<1>4. todo' \in [Nodes -> [Functions -> Nat]] /\ \A x \in Nodes : todo'[x]["set"] = todo[x]["set"]
  BY <1>1, <1>2, <1>3, Ran, FunctionsAre DEF DevicesOK
<1>5. /\ \A m \in F : /\ m.kind = "update" /\ m.to \in Routers /\ m.new = node[Coord].new
                      /\ m.of = picked
      /\ \A r \in Routers : \E m \in F : m.to = r
  <2>1. ASSUME NEW m \in F
        PROVE  m.kind = "update" /\ m.to \in Routers /\ m.new = node[Coord].new /\ m.of = picked
    OBVIOUS
  <2>2. ASSUME NEW r \in Routers PROVE \E m \in F : m.to = r
    <3> DEFINE m == [kind |-> "update", to |-> r, pan |-> node[Coord].pan, ch |-> node[Coord].ch,
                     new |-> node[Coord].new, of |-> picked]
    <3>1. m \in F /\ m.to = r
      OBVIOUS
    <3> HIDE DEF m, F
    <3> QED
      BY <3>1
  <2> QED
    BY <2>1, <2>2
<1> HIDE DEF F
<1>6. Updates' = Updates \cup F /\ Moves' = Moves
  BY <1>1, <1>5 DEF Updates, Moves
<1>7. DevicesOK' /\ MovesOK'
  BY <1>1, <1>3, <1>4, <1>6 DEF DevicesOK, MovesOK
<1>8. UpdatesOK'
  <2>1. node[Coord].new \in AllPans /\ picked \in 0 .. picked
    BY <1>2, <1>3 DEF DevicesOK, Device
  <2> QED
    BY <1>1, <1>3, <1>5, <1>6, <2>1 DEF UpdatesOK
<1>9. OnePanId => OnePanId'
  <2> SUFFICES ASSUME OnePanId PROVE OnePanId'
    OBVIOUS
  <2>1. picked > 0 /\ [at |-> Coord, of |-> picked] \in alarms
    BY <1>1 DEF OnePanId
  <2>2. ASSUME NEW n \in Nodes PROVE Heading(n, node[Coord].new)'
    <3>1. CASE n = Coord
      BY <1>1, <2>1, <3>1 DEF Heading
    <3>2. CASE n # Coord
      BY <1>1, <1>5, <1>6, <3>2, PanIdConstants DEF Heading
    <3> QED
      BY <3>1, <3>2
  <2>3. node[Coord].new \in AllPans
    BY <1>2, <1>3 DEF DevicesOK, Device
  <2> QED
    BY <1>1, <2>1, <2>2, <2>3 DEF OnePanId
<1>10. OneChannel => OneChannel'
  BY <1>1, <1>6, ChannelAside
<1>11. StartsThere'
  BY <1>1, <1>3 DEF Formed, StartsThere
<1> QED
  BY <1>1, <1>2, <1>3, <1>7, <1>8, <1>9, <1>10, <1>11, StillFormed DEF Formed

-----------------------------------------------------------------------------
(* The routers. *)

LEMMA RouterHearsRivalInv ==
  ASSUME PanIdInv, NEW r \in Routers, RouterHearsRival(r)
  PROVE  PanIdInv'
<1>1. /\ joined = "yes" /\ node' = [node EXCEPT ![r].conflict = TRUE, ![r].new = 0]
      /\ todo' = Schedule(todo, r, "report")
      /\ crossed' = (crossed \/ Changing(r) \/ todo[r]["set"] > 0)
      /\ UNCHANGED <<form, joined, starting, alarms, hops, air, picked, asked, missed>>
  BY DEF RouterHearsRival, formVars, boundVars
<1>2. /\ DevicesOK /\ UpdatesOK /\ MovesOK /\ Formed
      /\ r \in Nodes /\ Coord \in Nodes /\ r # Coord /\ 0 \in AllPans
  BY <1>1, FormedIs, PanIdConstants
<1>3. /\ node' \in [Nodes -> Device]
      /\ \A x \in Nodes : /\ node'[x].pan = node[x].pan /\ node'[x].ch = node[x].ch
                          /\ node'[x].state = node[x].state
                          /\ x # r => node'[x].new = node[x].new
  <2>1. node \in [Nodes -> Device] /\ 0 \in AllPans
    BY <1>2 DEF DevicesOK
  <2> QED
    BY <1>1, <1>2, <2>1 DEF Device
<1>4. /\ todo' \in [Nodes -> [Functions -> Nat]]
      /\ \A x \in Nodes : todo'[x]["set"] = todo[x]["set"] /\ todo'[x]["update"] = todo[x]["update"]
  BY <1>1, <1>2, CallsAside, OtherCallsAre DEF DevicesOK
<1>5. DevicesOK'
  BY <1>1, <1>2, <1>3, <1>4 DEF DevicesOK
<1>6. UpdatesOK' /\ MovesOK'
  BY <1>1, <1>2, <1>3, StillOK
<1>7. Updates' = Updates /\ Moves' = Moves
  BY <1>1 DEF Updates, Moves
<1>8. ASSUME OnePanId, ~crossed' PROVE OnePanId'
  <2>1. ASSUME NEW x \in Nodes, NEW p \in AllPans, Heading(x, p) PROVE Heading(x, p)'
    <3>1. CASE x # r
      BY <1>1, <1>3, <1>4, <1>7, <2>1, <3>1 DEF Heading, Arriving
    <3>2. CASE x = r
      <4>1. (\A a \in alarms : a.at # r) /\ ~ (todo[r]["set"] > 0)
        BY <1>1, <1>8 DEF Changing
      <4>2. [at |-> r, of |-> picked] \notin alarms
        BY <4>1
      <4> QED
        BY <1>1, <1>2, <1>3, <1>4, <1>7, <2>1, <3>2, <4>1, <4>2 DEF Heading, Arriving
    <3> QED
      BY <3>1, <3>2
  <2> QED
    BY <1>1, <1>2, <1>3, <1>4, <1>7, <1>8, <2>1, GoalKept
<1>9. OneChannel => OneChannel'
  BY <1>1, <1>3, <1>7, ChannelAside
<1>10. StartsThere'
  BY <1>1, <1>2, <1>3 DEF Formed, StartsThere
<1>11. \A n \in Nodes : node'[n].state \in {"idle", "resolution"}
  BY <1>2, <1>3 DEF Formed
<1>12. ~missed' /\ ~crossed' => OnePanId' /\ OneChannel'
  <2>1. ~crossed' => ~crossed
    BY <1>1
  <2> QED
    BY <1>1, <1>2, <1>8, <1>9, <2>1 DEF Formed
<1> QED
  BY <1>1, <1>5, <1>6, <1>10, <1>11, <1>12, StillFormed

LEMMA SendNetworkReportInv ==
  ASSUME PanIdInv, NEW r \in Routers, SendNetworkReport(r)
  PROVE  PanIdInv'
<1>1. /\ todo[r]["report"] > 0 /\ todo' = Run(todo, r, "report")
      /\ air' = IF Superseded(r) THEN air
                ELSE air \cup {[kind |-> "report", from |-> r, pan |-> node[r].pan, ch |-> node[r].ch]}
      /\ UNCHANGED <<form, joined, node, starting, alarms, hops, picked, asked, missed, crossed>>
  BY DEF SendNetworkReport, formVars, boundVars, history
<1>2. r \in Nodes /\ joined = "yes" /\ Coord \in Nodes
  BY <1>1, NothingYet, PanIdConstants
<1>3. DevicesOK /\ UpdatesOK /\ MovesOK /\ Formed
  BY <1>2, FormedIs
<1>4. /\ todo' \in [Nodes -> [Functions -> Nat]]
      /\ \A x \in Nodes : todo'[x]["set"] = todo[x]["set"] /\ todo'[x]["update"] = todo[x]["update"]
  BY <1>1, <1>2, <1>3, CallsAside, OtherCallsAre DEF DevicesOK
<1>5. Updates' = Updates /\ Moves' = Moves
  BY <1>1 DEF Updates, Moves
<1>6. DevicesOK' /\ UpdatesOK' /\ MovesOK'
  BY <1>1, <1>3, <1>4, <1>5 DEF DevicesOK, UpdatesOK, MovesOK
<1>7. OnePanId => OnePanId'
  BY <1>1, <1>2, <1>3, <1>4, <1>5, PanAside
<1>8. OneChannel => OneChannel'
  BY <1>1, <1>5, ChannelAside
<1>9. StartsThere'
  BY <1>1, <1>3 DEF Formed, StartsThere
<1> QED
  BY <1>1, <1>2, <1>3, <1>6, <1>7, <1>8, <1>9, StillFormed DEF Formed

LEMMA SendStatusIndInv ==
  ASSUME PanIdInv, NEW n \in Nodes, SendStatusInd(n)
  PROVE  PanIdInv'
<1>1. /\ todo[n]["status"] > 0 /\ todo' = Run(todo, n, "status")
      /\ node' = [node EXCEPT ![n].conflict = FALSE]
      /\ UNCHANGED <<form, joined, starting, alarms, hops, air, picked, asked, missed, crossed>>
  BY DEF SendStatusInd, formVars, boundVars, history
<1>2. joined = "yes" /\ Coord \in Nodes
  BY <1>1, NothingYet, PanIdConstants
<1>3. DevicesOK /\ UpdatesOK /\ MovesOK /\ Formed
  BY <1>2, FormedIs
<1>4. /\ node' \in [Nodes -> Device]
      /\ \A x \in Nodes : /\ node'[x].pan = node[x].pan /\ node'[x].ch = node[x].ch
                          /\ node'[x].new = node[x].new /\ node'[x].state = node[x].state
  BY <1>1, <1>3, Conflicts DEF DevicesOK
<1>5. /\ todo' \in [Nodes -> [Functions -> Nat]]
      /\ \A x \in Nodes : todo'[x]["set"] = todo[x]["set"] /\ todo'[x]["update"] = todo[x]["update"]
  BY <1>1, <1>3, CallsAside, OtherCallsAre DEF DevicesOK
<1>6. DevicesOK'
  BY <1>1, <1>3, <1>4, <1>5 DEF DevicesOK
<1>7. UpdatesOK' /\ MovesOK'
  BY <1>1, <1>2, <1>3, <1>4, StillOK
<1>8. Updates' = Updates /\ Moves' = Moves
  BY <1>1 DEF Updates, Moves
<1>9. OnePanId => OnePanId'
  BY <1>1, <1>2, <1>3, <1>4, <1>5, <1>8, PanAside
<1>10. OneChannel => OneChannel'
  BY <1>1, <1>4, <1>8, ChannelAside
<1>11. StartsThere'
  BY <1>1, <1>3, <1>4 DEF Formed, StartsThere
<1>12. \A x \in Nodes : node'[x].state \in {"idle", "resolution"}
  BY <1>3, <1>4 DEF Formed
<1> QED
  BY <1>1, <1>2, <1>3, <1>6, <1>7, <1>9, <1>10, <1>11, <1>12, StillFormed DEF Formed

-----------------------------------------------------------------------------
(* Changing over. *)

LEMMA RecvNwkUpdateInv ==
  ASSUME PanIdInv, ~missed, NEW m \in air, RecvNwkUpdate(m)
  PROVE  PanIdInv'
<1> DEFINE r == m.to
           b == [at |-> r, of |-> m.of]
<1>1. /\ m.kind = "update" /\ air' = air \ {m}
      /\ node' = [node EXCEPT ![r].new = m.new]
      /\ todo' = Schedule(todo, r, "status")
      /\ alarms' = alarms \cup {b}
      /\ crossed' = (crossed \/ \E a \in alarms : a.at = r /\ a.of > m.of)
      /\ UNCHANGED <<form, joined, starting, hops, picked, asked, missed>>
  BY DEF RecvNwkUpdate, formVars, boundVars, Announced
<1>2. joined = "yes" /\ m \in Updates
  BY <1>1, FramesWhenFormed DEF Updates
<1>3. DevicesOK /\ UpdatesOK /\ MovesOK /\ Formed
  BY <1>2, FormedIs
<1>4. /\ r \in Routers /\ m.new \in AllPans /\ m.of \in 0 .. picked
      /\ m.of = picked => m.new = node[Coord].new
  BY <1>2, <1>3 DEF UpdatesOK
<1>5. r \in Nodes /\ r # Coord /\ Coord \in Nodes /\ picked \in Nat
  BY <1>3, <1>4, PanIdConstants DEF DevicesOK
<1>6. b.at = r /\ b.of = m.of /\ b = [at |-> b.at, of |-> b.of]
  OBVIOUS
<1>7. /\ node' \in [Nodes -> Device]
      /\ \A x \in Nodes : /\ node'[x].pan = node[x].pan /\ node'[x].ch = node[x].ch
                          /\ node'[x].new = IF x = r THEN m.new ELSE node[x].new
                          /\ node'[x].state = node[x].state
  <2> HIDE DEF r
  <2> QED
    BY <1>1, <1>3, <1>4, <1>5, NewSet DEF DevicesOK
<1>8. /\ todo' \in [Nodes -> [Functions -> Nat]]
      /\ \A x \in Nodes : todo'[x]["set"] = todo[x]["set"] /\ todo'[x]["update"] = todo[x]["update"]
  <2> HIDE DEF r
  <2> QED
    BY <1>1, <1>3, <1>5, CallsAside, OtherCallsAre DEF DevicesOK
<1>9. Updates' = Updates \ {m} /\ Moves' = Moves
  BY <1>1 DEF Updates, Moves
<1>10. DevicesOK'
  BY <1>1, <1>3, <1>7, <1>8 DEF DevicesOK
<1>11. UpdatesOK' /\ MovesOK'
  <2>1. \A a \in alarms' : a = [at |-> a.at, of |-> a.of] /\ a.at \in Nodes /\ a.of \in 0 .. picked
    <3> HIDE DEF b
    <3> QED
      BY <1>1, <1>3, <1>4, <1>5, <1>6 DEF UpdatesOK
  <2>2. node'[Coord].new = node[Coord].new
    BY <1>5, <1>7
  <2> QED
    BY <1>1, <1>3, <1>9, <2>1, <2>2 DEF UpdatesOK, MovesOK
<1>12. ASSUME OnePanId, ~crossed' PROVE OnePanId'
  <2>1. ASSUME NEW x \in Nodes, NEW p \in AllPans, Heading(x, p),
               IF picked > 0 THEN p = node[Coord].new ELSE Updates = {}
        PROVE  Heading(x, p)'
    <3>1. CASE x # r
      <4>1. \A a \in alarms' : a.at = x => a \in alarms
        BY <1>1, <3>1
      <4>2. \A k \in Updates : k.to = x => k \in Updates'
        BY <1>9, <3>1
      <4>3. Arriving(x, p) => Arriving(x, p)'
        BY <1>1, <1>7, <1>8, <3>1 DEF Arriving
      <4> HIDE DEF b, r
      <4> QED
        BY <1>1, <1>7, <1>9, <2>1, <3>1, <4>1, <4>2, <4>3 DEF Heading
    <3>2. CASE x = r /\ m.of = picked
      <4>1. p = m.new
        BY <1>2, <1>4, <2>1, <3>2
      <4>2. node'[r].new = m.new /\ [at |-> r, of |-> picked] \in alarms'
        BY <1>1, <1>5, <1>7, <3>2
      <4> QED
        BY <1>1, <3>2, <4>1, <4>2 DEF Heading
    <3>3. CASE x = r /\ m.of # picked
      <4>1. m.of < picked
        BY <1>4, <1>5, <3>3
      <4>2. [at |-> r, of |-> picked] \notin alarms
        BY <1>1, <1>12, <4>1
      <4>3. PICK k \in Updates : k.to = r /\ k.of = picked
        BY <1>2, <2>1, <3>3, <4>2 DEF Heading
      <4>4. k \in Updates'
        BY <1>9, <3>3, <4>3
      <4> QED
        BY <1>1, <3>3, <4>3, <4>4 DEF Heading
    <3> QED
      BY <3>1, <3>2, <3>3
  <2>2. CASE todo[Coord]["update"] > 0
    BY <1>1, <1>5, <1>8, <1>12, <2>2 DEF OnePanId
  <2>3. CASE ~ (todo[Coord]["update"] > 0)
    <3>1. PICK p \in AllPans : /\ IF picked > 0 THEN p = node[Coord].new ELSE Updates = {}
                              /\ \A n \in Nodes : Heading(n, p)
      BY <1>12, <2>3 DEF OnePanId
    <3>2. \A n \in Nodes : Heading(n, p)'
      BY <2>1, <3>1
    <3>3. node'[Coord].new = node[Coord].new
      BY <1>5, <1>7
    <3> QED
      BY <1>1, <1>5, <1>8, <1>9, <2>3, <3>1, <3>2, <3>3 DEF OnePanId
  <2> QED
    BY <2>2, <2>3
<1>13. OneChannel => OneChannel'
  BY <1>1, <1>7, <1>9, ChannelAside
<1>14. StartsThere'
  BY <1>1, <1>3, <1>7 DEF Formed, StartsThere
<1>15. \A n \in Nodes : node'[n].state \in {"idle", "resolution"}
  BY <1>3, <1>7 DEF Formed
<1>16. ~missed' /\ ~crossed' => OnePanId' /\ OneChannel'
  <2>1. ~crossed' => ~crossed
    BY <1>1
  <2> QED
    BY <1>1, <1>3, <1>12, <1>13, <2>1 DEF Formed
<1> QED
  BY <1>1, <1>2, <1>10, <1>11, <1>14, <1>15, <1>16, StillFormed

LEMMA SetPanIdAlarmInv ==
  ASSUME PanIdInv, ~missed, NEW a \in alarms, SetPanIdAlarm(a)
  PROVE  PanIdInv'
<1> DEFINE n == a.at
<1>1. /\ todo[Coord]["update"] = 0
      /\ \A m \in Updates : ~ (m.of <= a.of)
      /\ \A d \in alarms : d.at = n => a.of <= d.of
      /\ alarms' = alarms \ {a} /\ todo' = Schedule(todo, n, "set")
      /\ UNCHANGED <<form, joined, node, starting, hops, air, picked, asked, missed, crossed>>
  BY DEF SetPanIdAlarm, Delivered, Updates, formVars, boundVars, history
<1>2. joined = "yes" /\ Coord \in Nodes
  BY NothingYet, PanIdConstants
<1>3. DevicesOK /\ UpdatesOK /\ MovesOK /\ Formed
  BY <1>2, FormedIs
<1>4. n \in Nodes /\ a = [at |-> n, of |-> a.of] /\ a.of \in 0 .. picked /\ picked \in Nat
  BY <1>3 DEF UpdatesOK, DevicesOK
<1>5. /\ todo' \in [Nodes -> [Functions -> Nat]]
      /\ \A x \in Nodes, g \in Functions :
           todo'[x][g] = IF x = n /\ g = "set" THEN todo[x][g] + 1 ELSE todo[x][g]
  <2>1. todo \in [Nodes -> [Functions -> Nat]] /\ "set" \in Functions
    BY <1>3, FunctionsAre DEF DevicesOK
  <2>2. todo' = Schedule(todo, n, "set") /\ n \in Nodes
    BY <1>1, <1>4
  <2> HIDE DEF n
  <2> QED
    BY <2>1, <2>2, Scheduled
<1>6. /\ todo'[n]["set"] > 0 /\ todo'[Coord]["update"] = todo[Coord]["update"]
      /\ \A x \in Nodes : x # n => todo'[x]["set"] = todo[x]["set"]
  <2>1. todo[n]["set"] \in Nat
    BY <1>3, <1>4, FunctionsAre DEF DevicesOK
  <2> HIDE DEF n
  <2>2. todo'[n]["set"] = todo[n]["set"] + 1
    BY <1>4, <1>5, FunctionsAre
  <2> QED
    BY <1>2, <1>5, <2>1, <2>2, FunctionsAre
<1>7. Updates' = Updates /\ Moves' = Moves
  BY <1>1 DEF Updates, Moves
<1>8. DevicesOK' /\ UpdatesOK' /\ MovesOK'
  BY <1>1, <1>3, <1>5, <1>7 DEF DevicesOK, UpdatesOK, MovesOK
<1>9. ASSUME NEW x \in Nodes, NEW p \in AllPans, Heading(x, p) PROVE Heading(x, p)'
  <2>1. CASE \E m \in Updates : m.to = x /\ m.of = picked
    BY <1>1, <1>7, <2>1 DEF Heading
  <2>2. CASE x # n
    <3>1. \A d \in alarms : d.at = x => d \in alarms'
      BY <1>1, <2>2
    <3>2. [at |-> x, of |-> picked] \in alarms => [at |-> x, of |-> picked] \in alarms'
      BY <3>1
    <3>3. Arriving(x, p) => Arriving(x, p)'
      BY <1>1, <1>6, <2>2 DEF Arriving
    <3>4. (\A d \in alarms : d.at # x) => \A d \in alarms' : d.at # x
      BY <1>1
    <3> QED
      BY <1>1, <1>7, <1>9, <3>2, <3>3, <3>4 DEF Heading
  <2>3. CASE x = n /\ ~ \E m \in Updates : m.to = x /\ m.of = picked
    <3> DEFINE l == [at |-> n, of |-> picked]
    <3>1. l \in alarms /\ node[n].new = p
      BY <1>9, <2>3 DEF Heading
    <3>2. CASE a.of = picked
      <4>1. \A d \in alarms : d.at = n => d = a
        <5>1. ASSUME NEW d \in alarms, d.at = n PROVE d = a
          <6>1. d = [at |-> d.at, of |-> d.of] /\ d.of \in 0 .. picked /\ a.of <= d.of
            BY <1>1, <1>3, <5>1 DEF UpdatesOK
          <6>2. d.of = picked
            BY <1>4, <3>2, <6>1
          <6> QED
            BY <1>4, <3>2, <5>1, <6>1, <6>2
        <5> QED
          BY <5>1
      <4>2. \A d \in alarms' : d.at # n
        BY <1>1, <4>1
      <4>3. \A m \in Updates : m.to # n
        <5>1. \A m \in Updates : m.of \in 0 .. picked /\ ~ (m.of <= picked)
          BY <1>1, <1>3, <3>2 DEF UpdatesOK
        <5> QED
          BY <1>4, <5>1
      <4>4. Arriving(n, p)'
        BY <1>1, <1>6, <3>1 DEF Arriving
      <4> QED
        BY <1>7, <2>3, <4>2, <4>3, <4>4 DEF Heading
    <3>3. CASE a.of # picked
      <4>1. l # a /\ l \in alarms'
        BY <1>1, <3>1, <3>3
      <4> QED
        BY <1>1, <2>3, <3>1, <4>1 DEF Heading
    <3> QED
      BY <3>2, <3>3
  <2> QED
    BY <2>1, <2>2, <2>3
<1>10. OnePanId => OnePanId'
  BY <1>1, <1>6, <1>7, <1>9, GoalKept
<1>11. OneChannel => OneChannel'
  BY <1>1, <1>7, ChannelAside
<1>12. StartsThere'
  BY <1>1, <1>3 DEF Formed, StartsThere
<1> QED
  BY <1>1, <1>2, <1>3, <1>8, <1>10, <1>11, <1>12, StillFormed DEF Formed

LEMMA AppendIs ==
  ASSUME NEW s \in Seq(StartReq), NEW r \in StartReq
  PROVE  /\ Append(s, r) \in Seq(StartReq) /\ Append(s, r) # << >>
         /\ Append(s, r)[Len(Append(s, r))] = r
         /\ \A i \in 1 .. Len(Append(s, r)) : \/ Append(s, r)[i] = r
                                              \/ i \in 1 .. Len(s) /\ Append(s, r)[i] = s[i]
<1> DEFINE t == Append(s, r)
<1>1. /\ t \in Seq(StartReq) /\ Len(t) = Len(s) + 1 /\ Len(s) \in Nat /\ t[Len(s) + 1] = r
      /\ \A i \in 1 .. Len(s) : t[i] = s[i]
  OBVIOUS
<1> HIDE DEF t
<1>2. \A i \in 1 .. Len(t) : i \in 1 .. Len(s) \/ i = Len(s) + 1
  BY <1>1
<1>3. t # << >>
  BY <1>1
<1>4. t[Len(t)] = r
  BY <1>1
<1>5. \A i \in 1 .. Len(t) : t[i] = r \/ (i \in 1 .. Len(s) /\ t[i] = s[i])
  BY <1>1, <1>2
<1> QED
  BY <1>1, <1>3, <1>4, <1>5 DEF t

LEMMA SetPanIdInv ==
  ASSUME PanIdInv, ~missed, NEW n \in Nodes, SetPanId(n)
  PROVE  PanIdInv'
<1> DEFINE s == starting[n]
           q == [pan |-> node[n].new, ch |-> node[n].ch]
           t == Append(s, q)
<1>1. /\ todo[n]["set"] > 0 /\ todo' = Run(todo, n, "set")
      /\ starting' = [starting EXCEPT ![n] = Append(@, q)]
      /\ node' = [node EXCEPT ![n].conflict = FALSE, ![n].state = "resolution"]
      /\ UNCHANGED <<form, joined, alarms, hops, air, picked, asked, missed, crossed>>
  BY DEF SetPanId, formVars, boundVars, history
<1>2. joined = "yes" /\ Coord \in Nodes
  BY <1>1, NothingYet, PanIdConstants
<1>3. DevicesOK /\ UpdatesOK /\ MovesOK /\ Formed
  BY <1>2, FormedIs
<1>4. q \in StartReq /\ q.pan = node[n].new /\ q.ch = node[n].ch /\ s \in Seq(StartReq)
  BY <1>3 DEF DevicesOK, Device, StartReq
<1>5. /\ t \in Seq(StartReq) /\ t # << >> /\ t[Len(t)] = q
      /\ \A i \in 1 .. Len(t) : t[i] = q \/ (i \in 1 .. Len(s) /\ t[i] = s[i])
  <2> HIDE DEF s, q
  <2> QED
    BY <1>4, AppendIs
<1>6. /\ starting' \in [Nodes -> Seq(StartReq)] /\ starting'[n] = t
      /\ \A x \in Nodes : x # n => starting'[x] = starting[x]
  <2>1. starting \in [Nodes -> Seq(StartReq)] /\ starting' = [starting EXCEPT ![n] = t]
    BY <1>1, <1>3 DEF DevicesOK
  <2> HIDE DEF t
  <2> QED
    BY <1>5, <2>1
<1>7. /\ node' \in [Nodes -> Device]
      /\ \A x \in Nodes : /\ node'[x].pan = node[x].pan /\ node'[x].ch = node[x].ch
                          /\ node'[x].new = node[x].new
                          /\ node'[x].state = IF x = n THEN "resolution" ELSE node[x].state
  <2>1. node \in [Nodes -> Device] /\ "resolution" \in DeviceStates
    BY <1>3 DEF DevicesOK, DeviceStates
  <2> QED
    BY <1>1, <2>1 DEF Device
<1>8. /\ todo' \in [Nodes -> [Functions -> Nat]]
      /\ \A x \in Nodes, g \in Functions :
           todo'[x][g] = IF x = n /\ g = "set" THEN todo[x][g] - 1 ELSE todo[x][g]
  <2>1. todo \in [Nodes -> [Functions -> Nat]] /\ "set" \in Functions
    BY <1>3, FunctionsAre DEF DevicesOK
  <2>2. todo[n]["set"] > 0 /\ todo' = Run(todo, n, "set")
    BY <1>1
  <2> QED
    BY <2>1, <2>2, Ran
<1> HIDE DEF s, q, t
<1>9. /\ todo'[Coord]["update"] = todo[Coord]["update"]
      /\ \A x \in Nodes : x # n => todo'[x]["set"] = todo[x]["set"]
  BY <1>2, <1>8, FunctionsAre
<1>10. DevicesOK'
  BY <1>1, <1>3, <1>6, <1>7, <1>8 DEF DevicesOK
<1>11. UpdatesOK' /\ MovesOK'
  BY <1>1, <1>2, <1>3, <1>7, StillOK
<1>12. Updates' = Updates /\ Moves' = Moves
  BY <1>1 DEF Updates, Moves
<1>13. ASSUME NEW x \in Nodes, NEW p \in AllPans, Heading(x, p) PROVE Heading(x, p)'
  <2>1. Arriving(x, p) => Arriving(x, p)'
    <3>1. CASE x # n
      BY <1>6, <1>7, <1>9, <3>1 DEF Arriving
    <3>2. CASE x = n
      <4>1. Arriving(x, p) => node[n].new = p
        BY <1>1, <3>2 DEF Arriving
      <4>2. node[n].new = p => Arriving(n, p)'
        BY <1>4, <1>5, <1>6, <1>7 DEF Arriving
      <4> QED
        BY <3>2, <4>1, <4>2
    <3> QED
      BY <3>1, <3>2
  <2> QED
    BY <1>1, <1>7, <1>12, <1>13, <2>1 DEF Heading
<1>14. OnePanId => OnePanId'
  BY <1>1, <1>2, <1>7, <1>9, <1>12, <1>13, GoalKept
<1>15. OneChannel => OneChannel'
  BY <1>1, <1>7, <1>12, ChannelAside
<1>16. StartsThere'
  <2>1. ASSUME NEW x \in Nodes, NEW i \in 1 .. Len(starting'[x]) PROVE starting'[x][i].ch = node'[x].ch
    <3>1. CASE x # n
      BY <1>3, <1>6, <1>7, <3>1 DEF Formed, StartsThere
    <3>2. CASE x = n
      <4>1. t[i] = q \/ (i \in 1 .. Len(s) /\ t[i] = s[i])
        BY <1>5, <1>6, <3>2
      <4>2. \A j \in 1 .. Len(s) : s[j].ch = node[n].ch
        BY <1>3 DEF Formed, StartsThere, s
      <4> QED
        BY <1>4, <1>6, <1>7, <3>2, <4>1, <4>2
    <3> QED
      BY <3>1, <3>2
  <2> QED
    BY <2>1 DEF StartsThere
<1>17. \A x \in Nodes : node'[x].state \in {"idle", "resolution"}
  BY <1>3, <1>7 DEF Formed
<1> QED
  BY <1>1, <1>2, <1>3, <1>10, <1>11, <1>14, <1>15, <1>16, <1>17, StillFormed DEF Formed

-----------------------------------------------------------------------------
(* Another channel. *)

\* What a change of the channel leaves alone.
LEMMA ChannelStep ==
  ASSUME PanIdInv, joined = "yes",
         UNCHANGED <<form, joined, todo, starting, alarms, picked, missed, Updates>>,
         node' \in [Nodes -> Device], asked' \in Nat, crossed' \in BOOLEAN, crossed => crossed',
         \A x \in Nodes : /\ node'[x].pan = node[x].pan /\ node'[x].new = node[x].new
                          /\ node'[x].state = node[x].state,
         MovesOK', StartsThere', ~missed /\ ~crossed' /\ OneChannel => OneChannel'
  PROVE  PanIdInv'
<1>1. DevicesOK /\ UpdatesOK /\ Formed /\ Coord \in Nodes
  BY FormedIs, PanIdConstants
<1>2. DevicesOK' /\ UpdatesOK'
  BY <1>1 DEF DevicesOK, UpdatesOK
<1>3. OnePanId => OnePanId'
  BY <1>1, PanAside
<1>4. \A x \in Nodes : node'[x].state \in {"idle", "resolution"}
  BY <1>1 DEF Formed
<1> QED
  BY <1>1, <1>2, <1>3, <1>4, StillFormed DEF Formed

LEMMA AskChannelInv ==
  ASSUME PanIdInv, NEW c \in Channels, AskChannel(c)
  PROVE  PanIdInv'
<1> DEFINE frame(r) == [kind |-> "channel", to |-> r, pan |-> node[Coord].pan, ch |-> node[Coord].ch,
                        new |-> c, of |-> asked']
           F == {frame(r) : r \in Routers}
           h == [at |-> Coord, ch |-> c, of |-> asked']
<1>1. /\ joined = "yes" /\ asked' = asked + 1
      /\ hops' = hops \cup {h} /\ air' = air \cup F
      /\ UNCHANGED <<form, joined, node, todo, starting, alarms, picked, missed, crossed>>
  BY DEF AskChannel, formVars, history
<1>2. DevicesOK /\ MovesOK /\ Formed /\ Coord \in Nodes /\ asked \in Nat
  BY <1>1, FormedIs, PanIdConstants DEF DevicesOK
<1>3. /\ \A m \in F : m.kind = "channel" /\ m.to \in Routers /\ m.new = c /\ m.of = asked'
      /\ \A r \in Routers : \E m \in F : m.to = r
  <2>1. ASSUME NEW m \in F
        PROVE  m.kind = "channel" /\ m.to \in Routers /\ m.new = c /\ m.of = asked'
    OBVIOUS
  <2>2. ASSUME NEW r \in Routers PROVE \E m \in F : m.to = r
    <3>1. frame(r) \in F /\ frame(r).to = r
      OBVIOUS
    <3> HIDE DEF frame, F
    <3> QED
      BY <3>1
  <2> QED
    BY <2>1, <2>2
<1>4. h = [at |-> h.at, ch |-> h.ch, of |-> h.of] /\ h.at = Coord /\ h.ch = c /\ h.of = asked'
  OBVIOUS
<1> HIDE DEF F, frame
<1>5. Updates' = Updates /\ Moves' = Moves \cup F
  BY <1>1, <1>3 DEF Updates, Moves
<1>6. MovesOK'
  <2>1. ASSUME NEW k \in hops'
        PROVE  /\ k = [at |-> k.at, ch |-> k.ch, of |-> k.of] /\ k.at \in Nodes
               /\ k.ch \in Channels /\ k.of \in 0 .. asked'
    <3>1. CASE k \in hops
      BY <1>1, <1>2, <3>1 DEF MovesOK
    <3>2. CASE k = h
      <4> HIDE DEF h
      <4> QED
        BY <1>1, <1>2, <1>4, <3>2
    <3> QED
      BY <1>1, <3>1, <3>2
  <2>2. ASSUME NEW m \in Moves'
        PROVE  m.to \in Routers /\ m.new \in Channels /\ m.of \in 0 .. asked'
    <3>1. CASE m \in Moves
      BY <1>1, <1>2, <3>1 DEF MovesOK
    <3>2. CASE m \in F
      BY <1>1, <1>2, <1>3, <3>2
    <3> QED
      BY <1>5, <3>1, <3>2
  <2> QED
    BY <2>1, <2>2 DEF MovesOK
<1>7. OneChannel'
  <2>1. \A m \in Moves' : m.of = asked' => m.new = c
    BY <1>1, <1>2, <1>3, <1>5 DEF MovesOK
  <2>2. \A k \in hops' : k.of = asked' => k.ch = c
    <3>1. ASSUME NEW k \in hops', k.of = asked' PROVE k.ch = c
      <4>1. k \notin hops
        BY <1>1, <1>2, <3>1 DEF MovesOK
      <4> QED
        BY <1>1, <1>4, <4>1
    <3> QED
      BY <3>1
  <2>3. ASSUME NEW n \in Nodes PROVE Hopping(n, c)'
    <3>1. CASE n = Coord
      BY <1>1, <3>1 DEF Hopping
    <3>2. CASE n # Coord
      BY <1>3, <1>5, <3>2, PanIdConstants DEF Hopping
    <3> QED
      BY <3>1, <3>2
  <2>4. c \in FirstChannel .. LastChannel
    BY PanIdConstants
  <2> QED
    BY <2>1, <2>2, <2>3, <2>4 DEF OneChannel
<1>8. StartsThere'
  BY <1>1, <1>2 DEF Formed, StartsThere
<1>9. node' \in [Nodes -> Device] /\ asked' \in Nat /\ crossed' \in BOOLEAN
  BY <1>1, <1>2 DEF DevicesOK
<1> QED
  BY <1>1, <1>5, <1>6, <1>7, <1>8, <1>9, ChannelStep

LEMMA RecvChannelInv ==
  ASSUME PanIdInv, NEW m \in air, RecvChannel(m)
  PROVE  PanIdInv'
<1> DEFINE r == m.to
           h == [at |-> r, ch |-> m.new, of |-> m.of]
<1>1. /\ m.kind = "channel" /\ air' = air \ {m} /\ hops' = hops \cup {h}
      /\ crossed' = (crossed \/ \E g \in hops : g.at = r /\ g.of > m.of)
      /\ UNCHANGED <<form, joined, node, todo, starting, alarms, picked, asked, missed>>
  BY DEF RecvChannel, formVars, boundVars
<1>2. joined = "yes" /\ m \in Moves
  BY <1>1, FramesWhenFormed DEF Moves
<1>3. DevicesOK /\ MovesOK /\ Formed
  BY <1>2, FormedIs
<1>4. r \in Routers /\ r \in Nodes /\ m.new \in Channels /\ m.of \in 0 .. asked
  BY <1>2, <1>3, PanIdConstants DEF MovesOK
<1>5. h = [at |-> h.at, ch |-> h.ch, of |-> h.of] /\ h.at = r /\ h.ch = m.new /\ h.of = m.of
  OBVIOUS
<1>6. Updates' = Updates /\ Moves' = Moves \ {m}
  BY <1>1 DEF Updates, Moves
<1>7. MovesOK'
  <2>1. \A k \in hops' : /\ k = [at |-> k.at, ch |-> k.ch, of |-> k.of] /\ k.at \in Nodes
                         /\ k.ch \in Channels /\ k.of \in 0 .. asked
    <3> HIDE DEF h, r
    <3> QED
      BY <1>1, <1>3, <1>4, <1>5 DEF MovesOK
  <2> QED
    BY <1>1, <1>3, <1>6, <2>1 DEF MovesOK
<1>8. OneChannel => OneChannel'
  <2> SUFFICES ASSUME OneChannel PROVE OneChannel'
    OBVIOUS
  <2>1. PICK c \in FirstChannel .. LastChannel :
          /\ \A k \in Moves : k.of = asked => k.new = c
          /\ \A k \in hops : k.of = asked => k.ch = c
          /\ \A n \in Nodes : Hopping(n, c)
    BY DEF OneChannel
  <2>2. \A k \in hops' : k.of = asked => k.ch = c
    <3> HIDE DEF h
    <3> QED
      BY <1>1, <1>2, <1>5, <2>1
  <2>3. ASSUME NEW n \in Nodes PROVE Hopping(n, c)'
    <3>1. Hopping(n, c)
      BY <2>1
    <3>2. CASE n # r
      <4>1. \A k \in hops' : k.at = n => k \in hops
        BY <1>1, <3>2
      <4>2. \A k \in Moves : k.to = n => k \in Moves'
        BY <1>6, <3>2
      <4>3. \A k \in hops : k \in hops'
        BY <1>1
      <4> HIDE DEF h, r
      <4> QED
        BY <1>1, <1>6, <3>1, <4>1, <4>2, <4>3 DEF Hopping
    <3>3. CASE n = r /\ m.of = asked
      <4>1. m.new = c
        BY <1>2, <2>1, <3>3
      <4>2. [at |-> n, ch |-> c, of |-> asked] \in hops'
        BY <1>1, <3>3, <4>1
      <4> QED
        BY <1>1, <4>2 DEF Hopping
    <3>4. CASE n = r /\ m.of # asked
      <4>1. CASE [at |-> n, ch |-> c, of |-> asked] \in hops
        BY <1>1, <4>1 DEF Hopping
      <4>2. CASE \E k \in Moves : k.to = n /\ k.of = asked
        BY <1>1, <1>6, <3>4, <4>2 DEF Hopping
      <4> QED
        BY <1>2, <3>1, <3>4, <4>1, <4>2 DEF Hopping
    <3> QED
      BY <3>2, <3>3, <3>4
  <2> QED
    BY <1>1, <1>6, <2>1, <2>2, <2>3 DEF OneChannel
<1>9. StartsThere'
  BY <1>1, <1>3 DEF Formed, StartsThere
<1>10. node' \in [Nodes -> Device] /\ asked' \in Nat /\ crossed' \in BOOLEAN
  BY <1>1, <1>3 DEF DevicesOK
<1> QED
  BY <1>1, <1>2, <1>6, <1>7, <1>8, <1>9, <1>10, ChannelStep

LEMMA NewChannelInv ==
  ASSUME PanIdInv, NEW h \in hops, NewChannel(h)
  PROVE  PanIdInv'
<1> DEFINE n == h.at
<1>1. /\ starting[n] = << >> /\ \A m \in Moves : ~ (m.of <= h.of)
      /\ \A g \in hops : g.at = n => h.of <= g.of
      /\ hops' = hops \ {h} /\ node' = [node EXCEPT ![n].ch = h.ch]
      /\ UNCHANGED <<form, joined, todo, starting, alarms, air, picked, asked, missed, crossed>>
  BY DEF NewChannel, Idle, Moves, formVars, boundVars, history
<1>2. joined = "yes"
  BY NothingYet
<1>3. DevicesOK /\ MovesOK /\ Formed
  BY <1>2, FormedIs
<1>4. /\ n \in Nodes /\ h = [at |-> n, ch |-> h.ch, of |-> h.of] /\ h.of \in 0 .. asked
      /\ asked \in Nat /\ h.ch \in FirstChannel .. LastChannel
  BY <1>3, PanIdConstants DEF MovesOK, DevicesOK
<1>5. /\ node' \in [Nodes -> Device]
      /\ \A x \in Nodes : /\ node'[x].pan = node[x].pan
                          /\ node'[x].ch = IF x = n THEN h.ch ELSE node[x].ch
                          /\ node'[x].new = node[x].new /\ node'[x].state = node[x].state
  <2>1. node \in [Nodes -> Device]
    BY <1>3 DEF DevicesOK
  <2> HIDE DEF n
  <2> QED
    BY <1>1, <1>4, <2>1, Hopped
<1>6. Updates' = Updates /\ Moves' = Moves
  BY <1>1 DEF Updates, Moves
<1>7. MovesOK'
  BY <1>1, <1>3, <1>6 DEF MovesOK
<1>8. OneChannel => OneChannel'
  <2> SUFFICES ASSUME OneChannel PROVE OneChannel'
    OBVIOUS
  <2>1. PICK c \in FirstChannel .. LastChannel :
          /\ \A k \in Moves : k.of = asked => k.new = c
          /\ \A k \in hops : k.of = asked => k.ch = c
          /\ \A x \in Nodes : Hopping(x, c)
    BY DEF OneChannel
  <2>2. ASSUME NEW x \in Nodes PROVE Hopping(x, c)'
    <3>1. Hopping(x, c)
      BY <2>1
    <3> DEFINE l == [at |-> x, ch |-> c, of |-> asked]
    <3>2. CASE \E m \in Moves : m.to = x /\ m.of = asked
      BY <1>1, <1>6, <3>2 DEF Hopping
    <3>3. CASE l \in hops /\ l # h
      <4>1. l \in hops'
        BY <1>1, <3>3
      <4> QED
        BY <1>1, <4>1 DEF Hopping
    <3>4. CASE l = h
      <4>1. x = n /\ h.of = asked /\ h.ch = c
        BY <3>4
      <4>2. ASSUME NEW g \in hops, g.at = n PROVE g = h
        <5>1. g = [at |-> g.at, ch |-> g.ch, of |-> g.of] /\ g.of \in 0 .. asked /\ h.of <= g.of
          BY <1>1, <1>3, <4>2 DEF MovesOK
        <5>2. g.of = asked
          BY <1>4, <4>1, <5>1
        <5>3. g.ch = c
          BY <2>1, <5>2
        <5> QED
          BY <1>4, <4>1, <4>2, <5>1, <5>2, <5>3
      <4>3. \A g \in hops' : g.at # n
        BY <1>1, <4>2
      <4>4. \A m \in Moves : m.to # n
        <5>1. \A m \in Moves : m.of \in 0 .. asked /\ ~ (m.of <= asked)
          BY <1>1, <1>3, <4>1 DEF MovesOK
        <5> QED
          BY <1>4, <5>1
      <4>5. node'[x].ch = c
        BY <1>5, <4>1
      <4> QED
        BY <1>6, <4>1, <4>3, <4>4, <4>5 DEF Hopping
    <3>5. CASE (\A g \in hops : g.at # x) /\ (\A m \in Moves : m.to # x) /\ node[x].ch = c
      <4>1. x # n
        BY <3>5
      <4>2. \A g \in hops' : g.at # x
        BY <1>1, <3>5
      <4>3. node'[x].ch = c
        BY <1>5, <3>5, <4>1
      <4> QED
        BY <1>6, <3>5, <4>2, <4>3 DEF Hopping
    <3> QED
      BY <3>1, <3>2, <3>3, <3>4, <3>5 DEF Hopping
  <2> QED
    BY <1>1, <1>6, <2>1, <2>2 DEF OneChannel
<1>9. StartsThere'
  <2>1. ASSUME NEW x \in Nodes, NEW i \in 1 .. Len(starting'[x]) PROVE starting'[x][i].ch = node'[x].ch
    <3>1. x # n
      <4>1. Len(<< >>) = 0
        OBVIOUS
      <4>2. starting'[x] = starting[x]
        BY <1>1
      <4> QED
        BY <1>1, <2>1, <4>1, <4>2
    <3> QED
      BY <1>1, <1>3, <1>5, <3>1 DEF Formed, StartsThere
  <2> QED
    BY <2>1 DEF StartsThere
<1>10. asked' \in Nat /\ crossed' \in BOOLEAN
  BY <1>1, <1>3 DEF DevicesOK
<1> QED
  BY <1>1, <1>2, <1>5, <1>6, <1>7, <1>8, <1>9, <1>10, ChannelStep

-----------------------------------------------------------------------------
(* The invariant holds. *)

LEMMA PanIdInitInv == PanIdInit => PanIdInv
<1> SUFFICES ASSUME PanIdInit PROVE PanIdInv
  OBVIOUS
<1>1. PICK p \in Presets :
        node = [n \in Nodes |-> [pan |-> IF n = Coord THEN p ELSE 0, ch |-> FirstChannel, new |-> 0,
                                 conflict |-> FALSE, state |-> "idle"]]
  BY DEF PanIdInit
<1>2. /\ form = {} /\ joined = "no"
      /\ todo = [n \in Nodes |-> [f \in Functions |-> 0]]
      /\ starting = [n \in Nodes |-> << >>]
      /\ alarms = {} /\ hops = {} /\ air = {} /\ picked = 0 /\ asked = 0 /\ crossed = FALSE
  BY DEF PanIdInit
<1>3. node \in [Nodes -> Device] /\ node[Coord].state = "idle"
  <2>1. /\ p \in AllPans /\ 0 \in AllPans /\ FirstChannel \in FirstChannel .. LastChannel
        /\ Coord \in Nodes /\ "idle" \in DeviceStates
    BY PanIdConstants DEF DeviceStates
  <2> QED
    BY <1>1, <2>1 DEF Device
<1>4. DevicesOK /\ UpdatesOK /\ MovesOK
  <2>1. starting \in [Nodes -> Seq(StartReq)]
    BY <1>2
  <2> QED
    BY <1>2, <1>3, <2>1 DEF DevicesOK, UpdatesOK, MovesOK, Updates, Moves
<1>5. FormOK
  BY <1>2, <1>3 DEF FormOK
<1>6. Forming
  BY <1>2, <1>3, <1>5, PanIdConstants, FunctionsAre DEF Forming
<1> QED
  BY <1>2, <1>4, <1>6 DEF PanIdInv

LEMMA UnchangedInv ==
  ASSUME PanIdInv, UNCHANGED panIdVars
  PROVE  PanIdInv'
<1>1. UNCHANGED <<form, joined, node, todo, starting, alarms, hops, air, picked, asked, missed, crossed>>
  BY DEF panIdVars
<1>2. UNCHANGED <<Updates, Moves>>
  BY <1>1 DEF Updates, Moves
<1>3. DevicesOK' = DevicesOK /\ UpdatesOK' = UpdatesOK /\ MovesOK' = MovesOK
  BY <1>1, <1>2 DEF DevicesOK, UpdatesOK, MovesOK
<1>4. Forming' = Forming
  <2>1. FormOK' = FormOK
    BY <1>1 DEF FormOK
  <2> QED
    BY <1>1, <2>1 DEF Forming
<1>5. Formed' = Formed
  <2>1. ASSUME NEW n \in Nodes, NEW p PROVE Heading(n, p)' = Heading(n, p) /\ Hopping(n, p)' = Hopping(n, p)
    BY <1>1, <1>2 DEF Heading, Arriving, Hopping
  <2>2. OnePanId' = OnePanId
    BY <1>1, <1>2, <2>1 DEF OnePanId
  <2>3. OneChannel' = OneChannel
    BY <1>1, <1>2, <2>1 DEF OneChannel
  <2>4. StartsThere' = StartsThere
    BY <1>1 DEF StartsThere
  <2> QED
    BY <1>1, <2>2, <2>3, <2>4 DEF Formed
<1> QED
  BY <1>1, <1>3, <1>4, <1>5 DEF PanIdInv

LEMMA PanIdStep ==
  ASSUME PanIdInv, [PanIdNext]_panIdVars
  PROVE  PanIdInv'
<1>1. CASE UNCHANGED panIdVars
  BY <1>1, UnchangedInv
<1>2. CASE PanIdNext
  <2>1. ~missed
    BY <1>2 DEF PanIdNext
  <2>2. CASE Form
    <3>1. CASE \E mask \in (SUBSET Channels) \ {{}} : FormationRequest(mask)
      <4>1. \E mask \in SUBSET Channels : mask # {} /\ FormationRequest(mask)
        BY <3>1, Zenon
      <4> QED
        BY <4>1, FormationRequestInv
    <3>2. ASSUME NEW quiet \in SUBSET Channels, EdScanConfirm(quiet) PROVE PanIdInv'
      BY <3>2, EdScanConfirmInv
    <3>4. \/ \E mask \in (SUBSET Channels) \ {{}} : FormationRequest(mask)
          \/ \E quiet \in SUBSET Channels : EdScanConfirm(quiet)
          \/ SelectChannel
      BY <2>2, Zenon DEF Form
    <3> QED
      BY <3>1, <3>2, <3>4, SelectChannelInv, Zenon
  <2>3. CASE Receive
    BY <2>1, <2>3, GotNetworkReportInv, RecvNwkUpdateInv, RecvChannelInv, MissInv DEF Receive
  <2>4. CASE Hear
    BY <2>4, ManagerHearsRivalInv, RouterHearsRivalInv DEF Hear
  <2>5. CASE Ring
    BY <2>1, <2>5, SetPanIdAlarmInv, NewChannelInv DEF Ring
  <2>6. ASSUME NEW n \in Nodes, FunctionCalled(n) PROVE PanIdInv'
    BY <2>1, <2>6, MlmeStartInv, StartConfirmInv, SetPanIdInv, SendNetworkReportInv,
       SendStatusIndInv, SendNwkUpdateInv
       DEF FunctionCalled
  <2>7. ASSUME NEW c \in Channels, AskChannel(c) PROVE PanIdInv'
    BY <2>7, AskChannelInv
  <2> QED
    BY <1>2, <2>2, <2>3, <2>4, <2>5, <2>6, <2>7 DEF PanIdNext
<1> QED
  BY <1>1, <1>2

THEOREM PanIdSpecInv == PanIdSpec => []PanIdInv
<1>1. PanIdInv /\ [PanIdNext]_panIdVars => PanIdInv'
  BY PanIdStep
<1> QED
  BY <1>1, PanIdInitInv, PTL DEF PanIdSpec

LEMMA PanIdInvOne == PanIdInv => OnePan
<1> SUFFICES ASSUME PanIdInv, Settled, ~missed, ~crossed, NEW n \in Nodes
             PROVE  node[n].pan = node[Coord].pan /\ node[n].ch = node[Coord].ch
  BY DEF OnePan
<1>1. /\ joined = "yes" /\ alarms = {} /\ hops = {} /\ Updates = {} /\ Moves = {}
      /\ \A x \in Nodes : starting[x] = << >> /\ todo[x]["set"] = 0 /\ todo[x]["update"] = 0
  BY FunctionsAre DEF Settled, Updates, Moves
<1>2. OnePanId /\ OneChannel /\ Coord \in Nodes
  BY <1>1, FormedIs, PanIdConstants DEF Formed
<1>3. PICK p \in AllPans : \A x \in Nodes : Heading(x, p)
  BY <1>1, <1>2 DEF OnePanId
<1>4. \A x \in Nodes : node[x].pan = p
  BY <1>1, <1>3 DEF Heading, Arriving
<1>5. PICK c \in FirstChannel .. LastChannel : \A x \in Nodes : Hopping(x, c)
  BY <1>2 DEF OneChannel
<1>6. \A x \in Nodes : node[x].ch = c
  BY <1>1, <1>5 DEF Hopping
<1> QED
  BY <1>2, <1>4, <1>6

\* Once all changes are over the devices are on one channel under one PAN id, for every number
\* of routers, channels, PAN ids and changes (zb_panid_conflict_set_panid, zb_zdo_new_channel_cb).
THEOREM PanIdSpecOnePan == PanIdSpec => []OnePan
BY PanIdSpecInv, PanIdInvOne, PTL
=============================================================================
