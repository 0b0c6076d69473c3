------------------------- MODULE ZbNwkRouter_proofs --------------------------
(***************************************************************************)
(* What a router does for others.                                          *)
(*                                                                         *)
(* The frames that wait for a route and the expiry of route discoveries,   *)
(* for any buffers, destinations, table sizes and times: a waiting frame   *)
(* has one entry of pending_table, and the expiry goes on by one thing.    *)
(* What the routing and the discovery tables hold does not matter to       *)
(* either, nor what a pass of the expiry computes from them: it only       *)
(* decides which of two things keeps the expiry going.                     *)
(*                                                                         *)
(* Then the way of a frame through its buffer, for payloads of any length, *)
(* any format, any number of hops and retransmissions.                     *)
(*                                                                         *)
(* Last the parent, for any devices and any size of its tables: its        *)
(* neighbor table and the index stay inverse to each other through joins,  *)
(* leaves, announcements and the packing and refilling around a scan, the  *)
(* rejoin responses find their addresses, and the permission to join has   *)
(* its own alarm.                                                          *)
(***************************************************************************)
EXTENDS MCNwkMesh, ZbNwkParent, Functions, SequenceTheorems, FiniteSetTheorems, WellFoundedInduction, TLAPS

\* Entry i of the table holds buffer b.
Holds(i, b) == pending[i].used /\ pending[i].buf = b

\* Pointwise: no two entries hold a buffer, and a buffer is held while it is pending.
HeldOnce ==
  \A b \in Bufs :
    /\ \A i, j \in PSlots : Holds(i, b) /\ Holds(j, b) => i = j
    /\ loc[b] = "pending" <=> \E i \in PSlots : Holds(i, b)

\* The inductive invariant.
IInv ==
  /\ pending \in [PSlots -> Pend] /\ loc \in [Bufs -> {"idle", "forward", "pending"}]
  /\ disc_alarm \in Nat /\ wait_failed \in Nat
  /\ HeldOnce /\ OneExpiryChain

-----------------------------------------------------------------------------
\* A set of numbers that is not empty has a first one.
LEMMA FirstOf ==
  ASSUME NEW S \in SUBSET Nat, S # {}
  PROVE  \E k \in S : \A j \in S : k <= j
<1>1. PICK k \in S : \A j \in S : <<j, k>> \notin OpToRel(<, Nat)
  BY NatLessThanWellFounded, WFMin, Zenon
<1>2. ASSUME NEW j \in S PROVE k <= j
  <2>1. <<j, k>> \notin OpToRel(<, Nat)
    BY <1>1
  <2>2. <<j, k>> \in Nat \X Nat
    OBVIOUS
  <2>3. ~ (j < k)
    BY <2>1, <2>2, Zenon DEF OpToRel
  <2> QED
    BY <2>3
<1> QED
  BY <1>2

-----------------------------------------------------------------------------
(* The table. *)

LEMMA NoPendIsPend == NoPend \in Pend /\ ~NoPend.used
<1>1. (CHOOSE c \in Bufs : TRUE) \in Bufs
  BY MeshAssumption
<1>2. 0 \in 0 .. PendExpiry
  BY MeshAssumption
<1> QED
  BY <1>1, <1>2 DEF NoPend, Pend

\* Entries of S are freed, and the rest are kept with their buffers.
LEMMA FreedEntries ==
  ASSUME IInv, NEW S \in SUBSET PSlots, NEW to \in {"idle", "forward"},
         \A i \in S : pending[i].used,
         \A i \in PSlots : /\ i \in S => pending'[i] = NoPend
                           /\ i \notin S => /\ pending'[i].used = pending[i].used
                                            /\ pending'[i].buf = pending[i].buf,
         \A b \in Bufs :
           loc'[b] = IF \E i \in S : pending[i].buf = b THEN to ELSE loc[b]
  PROVE  HeldOnce'
<1> SUFFICES ASSUME NEW b \in Bufs
             PROVE  /\ \A i, j \in PSlots : Holds(i, b)' /\ Holds(j, b)' => i = j
                    /\ loc'[b] = "pending" <=> \E i \in PSlots : Holds(i, b)'
  BY DEF HeldOnce
<1>1. \A i \in PSlots : Holds(i, b)' <=> Holds(i, b) /\ i \notin S
  BY NoPendIsPend DEF Holds
<1>2. \A i, j \in PSlots : Holds(i, b) /\ Holds(j, b) => i = j
  BY DEF IInv, HeldOnce
<1>3. loc[b] = "pending" <=> \E i \in PSlots : Holds(i, b)
  BY DEF IInv, HeldOnce
<1>4. (\E i \in S : pending[i].buf = b) <=> \E i \in S : Holds(i, b)
  BY DEF Holds
<1>5. CASE \E i \in S : Holds(i, b)
  BY <1>1, <1>2, <1>4, <1>5
<1>6. CASE ~ \E i \in S : Holds(i, b)
  BY <1>1, <1>2, <1>3, <1>4, <1>6
<1> QED
  BY <1>5, <1>6

-----------------------------------------------------------------------------
(* The steps. *)

LEMMA InitIInv == Init => IInv
<1> SUFFICES ASSUME Init PROVE IInv
  OBVIOUS
<1>1. pending \in [PSlots -> Pend]
  BY NoPendIsPend DEF Init
<1>2. loc \in [Bufs -> {"idle", "forward", "pending"}] /\ disc_alarm = 1 /\ wait_failed = 0
  BY DEF Init
<1>3. \A i \in PSlots : ~pending[i].used
  BY NoPendIsPend DEF Init
<1>4. HeldOnce
  BY <1>3 DEF HeldOnce, Holds, Init
<1> QED
  BY <1>1, <1>2, <1>4 DEF IInv, OneExpiryChain

LEMMA NextHeld ==
  ASSUME IInv, Next
  PROVE  pending' \in [PSlots -> Pend] /\ loc' \in [Bufs -> {"idle", "forward", "pending"}]
         /\ HeldOnce'
<1>1. CASE UNCHANGED <<pending, loc>>
  BY <1>1 DEF IInv, HeldOnce, Holds
<1>2. ASSUME NEW s \in {Me, Other}, NEW id \in Ids, NEW d \in Dests, RecvRrep(s, id, d)
      PROVE  pending' \in [PSlots -> Pend] /\ loc' \in [Bufs -> {"idle", "forward", "pending"}]
             /\ HeldOnce'
  <2> DEFINE S == {i \in PSlots : pending[i].used /\ frm[pending[i].buf].dest = d}
  <2>1. UNCHANGED <<pending, loc>> \/ Release(S)
    BY <1>2, Zenon DEF RecvRrep, frames
  <2>2. CASE Release(S)
    <3>1. /\ pending' = [i \in PSlots |-> IF i \in S THEN NoPend ELSE pending[i]]
          /\ loc' = [b \in Bufs |-> IF \E i \in S : pending[i].buf = b THEN "forward" ELSE loc[b]]
      BY <2>2 DEF Release
    <3>2. S \in SUBSET PSlots /\ \A i \in S : pending[i].used
      OBVIOUS
    <3> HIDE DEF S
    <3>3. HeldOnce'
      BY <3>1, <3>2, FreedEntries
    <3> QED
      BY <3>1, <3>3, NoPendIsPend DEF IInv
  <2> QED
    BY <1>1, <2>1, <2>2
<1>3. ASSUME NEW b \in Bufs, NEW d \in Dests, NEW discover \in BOOLEAN, NewFrame(b, d, discover)
      PROVE  pending' \in [PSlots -> Pend] /\ loc' \in [Bufs -> {"idle", "forward", "pending"}]
             /\ HeldOnce'
  BY <1>3 DEF NewFrame, tables, IInv, HeldOnce, Holds
<1>4. ASSUME NEW b \in Bufs, Forward(b)
      PROVE  pending' \in [PSlots -> Pend] /\ loc' \in [Bufs -> {"idle", "forward", "pending"}]
             /\ HeldOnce'
  <2>1. loc[b] = "forward"
    BY <1>4 DEF Forward
  <2>2. CASE Leave({b}) /\ UNCHANGED pending
    BY <2>1, <2>2 DEF Leave, IInv, HeldOnce, Holds
  <2>3. CASE /\ FreeIn(pending) # {} /\ loc' = [loc EXCEPT ![b] = "pending"]
             /\ pending' = Held(b)
    <3>1. PICK i \in PSlots : /\ ~pending[i].used
                             /\ pending' = [pending EXCEPT ![i] =
                                  [used |-> TRUE, buf |-> b, exp |-> PendExpiry, waiting_buf |-> TRUE]]
      <4>1. FreeIn(pending) \in SUBSET Nat
        BY MeshAssumption DEF FreeIn, IInv, PSlots
      <4>2. First(FreeIn(pending)) \in FreeIn(pending)
        BY <2>3, <4>1, FirstOf DEF First
      <4> QED
        BY <2>3, <4>2 DEF Held, FreeIn, IInv
    <3>2. [used |-> TRUE, buf |-> b, exp |-> PendExpiry, waiting_buf |-> TRUE] \in Pend
      BY MeshAssumption DEF Pend
    <3>3. \A c \in Bufs, j \in PSlots : Holds(j, c)' <=> IF j = i THEN c = b ELSE Holds(j, c)
      BY <3>1 DEF Holds, IInv
    <3>4. \A c \in Bufs : loc'[c] = IF c = b THEN "pending" ELSE loc[c]
      BY <2>3 DEF IInv
    <3>5. \A j \in PSlots : ~Holds(j, b)
      BY <2>1 DEF IInv, HeldOnce
    <3>6. HeldOnce'
      <4> SUFFICES ASSUME NEW c \in Bufs
                   PROVE  /\ \A j, k \in PSlots : Holds(j, c)' /\ Holds(k, c)' => j = k
                          /\ loc'[c] = "pending" <=> \E j \in PSlots : Holds(j, c)'
        BY DEF HeldOnce
      <4>1. /\ \A j, k \in PSlots : Holds(j, c) /\ Holds(k, c) => j = k
            /\ loc[c] = "pending" <=> \E j \in PSlots : Holds(j, c)
        BY DEF IInv, HeldOnce
      <4>2. ~Holds(i, c)
        BY <3>1 DEF Holds
      <4> QED
        BY <3>3, <3>4, <3>5, <4>1, <4>2
    <3> QED
      BY <2>3, <3>1, <3>2, <3>6 DEF IInv
  <2> QED
    BY <1>4, <2>2, <2>3, Zenon DEF Forward
<1>5. CASE InitiateRouteDiscovery
  <2>1. UNCHANGED loc
    BY <1>5 DEF InitiateRouteDiscovery, frames
  <2>2. UNCHANGED pending \/ \E i \in PSlots : pending' = [pending EXCEPT ![i].waiting_buf = FALSE]
    <3>1. CASE Waiting # {}
      <4>1. Waiting \in SUBSET Nat
        BY MeshAssumption DEF Waiting, PSlots
      <4>2. First(Waiting) \in PSlots
        BY <3>1, <4>1, FirstOf DEF First, Waiting
      <4> QED
        BY <1>5, <3>1, <4>2, Zenon DEF InitiateRouteDiscovery
    <3> QED
      BY <1>5, <3>1, Zenon DEF InitiateRouteDiscovery, tables
  <2>3. pending' \in [PSlots -> Pend]
        /\ \A j \in PSlots : pending'[j].used = pending[j].used /\ pending'[j].buf = pending[j].buf
    <3>1. CASE UNCHANGED pending
      BY <3>1 DEF IInv
    <3>2. ASSUME NEW i \in PSlots, pending' = [pending EXCEPT ![i].waiting_buf = FALSE]
          PROVE  pending' \in [PSlots -> Pend] /\ \A j \in PSlots :
                   pending'[j].used = pending[j].used /\ pending'[j].buf = pending[j].buf
      <4> DEFINE e == [pending[i] EXCEPT !.waiting_buf = FALSE]
      <4>1. pending' = [pending EXCEPT ![i] = e]
        BY <3>2, Zenon
      <4>2. pending[i] \in Pend
        BY DEF IInv
      <4>3. e \in Pend /\ e.used = pending[i].used /\ e.buf = pending[i].buf
        BY <4>2 DEF Pend
      <4> HIDE DEF e
      <4> QED
        BY <4>1, <4>3 DEF IInv
    <3> QED
      BY <2>2, <3>1, <3>2
  <2> QED
    BY <2>1, <2>3 DEF IInv, HeldOnce, Holds
<1>6. CASE ExpiryPending
  <2> DEFINE S == {i \in PSlots : pending[i].used /\ pending[i].exp = 0}
  <2>1. /\ pending' = [i \in PSlots |-> IF i \in S THEN NoPend ELSE Aged(i)]
        /\ loc' = [b \in Bufs |-> IF b \in {pending[i].buf : i \in S} THEN "idle" ELSE loc[b]]
    BY <1>6 DEF ExpiryPending, Leave
  <2>2. S \in SUBSET PSlots /\ \A i \in S : pending[i].used
    OBVIOUS
  <2>3. ASSUME NEW i \in PSlots, i \notin S
        PROVE  /\ Aged(i) \in Pend /\ Aged(i).used = pending[i].used /\ Aged(i).buf = pending[i].buf
    <3>1. pending[i] \in Pend
      BY DEF IInv
    <3>2. pending[i].used => pending[i].exp - 1 \in 0 .. PendExpiry
      BY <2>3, <3>1, MeshAssumption DEF Pend
    <3> QED
      BY <3>1, <3>2 DEF Aged, Pend
  <2> HIDE DEF S
  <2>4. HeldOnce'
    BY <2>1, <2>2, <2>3, FreedEntries
  <2> QED
    BY <2>1, <2>3, <2>4, NoPendIsPend DEF IInv
<1>7. (\E id \in Ids, d \in Targets : RecvRreq(id, d)) \/ (\E d \in Dests : RouteDiscoveryRequest(d))
      \/ DiscExpiryAlarm \/ RouteDiscFailed => UNCHANGED <<pending, loc>>
  BY DEF RecvRreq, RouteDiscoveryRequest, DiscExpiryAlarm, RouteDiscFailed, frames, tables
<1> QED
  BY <1>1, <1>2, <1>3, <1>4, <1>5, <1>6, <1>7 DEF Next

LEMMA NextChain ==
  ASSUME IInv, Next
  PROVE  disc_alarm' \in Nat /\ wait_failed' \in Nat /\ OneExpiryChain'
<1>1. CASE UNCHANGED <<disc_alarm, wait_failed>>
  BY <1>1 DEF IInv, OneExpiryChain
<1>2. CASE DiscExpiryAlarm
  <2>1. CASE UNCHANGED <<disc_alarm, wait_failed>>
    BY <1>1, <2>1
  <2>2. CASE disc_alarm' = disc_alarm - 1 /\ wait_failed' = wait_failed + 1
    BY <1>2, <2>2 DEF DiscExpiryAlarm, IInv, OneExpiryChain
  <2> QED
    BY <1>2, <2>1, <2>2, Zenon DEF DiscExpiryAlarm
<1>3. CASE RouteDiscFailed
  BY <1>3 DEF RouteDiscFailed, IInv, OneExpiryChain
<1> QED
  BY <1>1, <1>2, <1>3, Zenon DEF Next, RecvRreq, RouteDiscoveryRequest, RecvRrep, NewFrame, Forward,
     InitiateRouteDiscovery, ExpiryPending, alarms

LEMMA NextIInv == IInv /\ [Next]_vars => IInv'
<1>1. IInv /\ Next => IInv'
  BY NextHeld, NextChain DEF IInv
<1>2. IInv /\ UNCHANGED vars => IInv'
  BY DEF IInv, vars, tables, frames, alarms, HeldOnce, Holds, OneExpiryChain
<1> QED
  BY <1>1, <1>2

-----------------------------------------------------------------------------
(* The theorems. *)

\* The inductive invariant holds in every behaviour.
THEOREM SpecIInv == Spec => []IInv
BY InitIInv, NextIInv, PTL DEF Spec

\* One entry for a buffer that waits, none for another: counted.
LEMMA ImpliesWaitingSound == IInv => WaitingSound
<1> SUFFICES ASSUME IInv, NEW b \in Bufs
             PROVE  Cardinality({i \in PSlots : pending[i].used /\ pending[i].buf = b}) =
                      IF loc[b] = "pending" THEN 1 ELSE 0
  BY DEF WaitingSound, PendingOwnsFrame, IInv
<1>1. CASE loc[b] = "pending"
  <2>1. PICK i \in PSlots : Holds(i, b)
    BY <1>1 DEF IInv, HeldOnce
  <2>2. {j \in PSlots : pending[j].used /\ pending[j].buf = b} = {i}
    BY <2>1 DEF IInv, HeldOnce, Holds
  <2> QED
    BY <1>1, <2>2, FS_Singleton
<1>2. CASE loc[b] # "pending"
  <2>1. {j \in PSlots : pending[j].used /\ pending[j].buf = b} = {}
    BY <1>2 DEF IInv, HeldOnce, Holds
  <2> QED
    BY <1>2, <2>1, FS_EmptySet
<1> QED
  BY <1>1, <1>2

\* Whatever requests and replies the network sends, a frame waits for a route in exactly one
\* entry of pending_table, and the expiry of route discoveries never stops nor doubles.
THEOREM SpecWaitingSound == Spec => []WaitingSound
BY ImpliesWaitingSound, SpecIInv, PTL

\* The same of the specification that is model-checked, where the tables rest while the way
\* of a frame is followed.
THEOREM MCSpecWaitingSound == MCSpec => []WaitingSound
<1>1. MCInit => Init
  BY DEF MCInit
<1>2. [MCNext]_MCVars => [Next]_vars
  BY DEF MCNext, MCVars
<1> QED
  BY <1>1, <1>2, InitIInv, NextIInv, ImpliesWaitingSound, PTL DEF MCSpec

-----------------------------------------------------------------------------
(* The way of a frame.  Before each handler the frame lies in its buffer with the headers  *)
(* that the handler expects around it (OnItsWay), leaves room for the parameters of any    *)
(* layer, and fits into one frame of the radio (Told); until a frame that was never sent   *)
(* is confirmed, and from then on that remains its excuse.                                 *)

\* What lies around the payload: names with lengths.
Layers == {"mhr", "nwk", "aps", "fcs", "tail", "mic", "torn"} \X Int

\* A buffer with these contents.
Contents(b, o, l, p, h, t) == b = [off |-> o, len |-> l, param |-> p, hdrs |-> h, trls |-> t]

\* What the constants of the frame are.
LEMMA FrameConstants == Payloads \subseteq Nat
BY WayAssumption DEF Way!FrameAssumption

\* Up to three layers, joined and taken apart.
LEMMA Joined ==
  ASSUME NEW x \in Layers, NEW y \in Layers, NEW z \in Layers
  PROVE  /\ <<x>> \o << >> = <<x>> /\ <<x>> \o <<y>> = <<x, y>> /\ <<x>> \o <<y, z>> = <<x, y, z>>
         /\ Head(<<x>>) = x /\ Head(<<x, y>>) = x /\ Head(<<x, y, z>>) = x
         /\ Tail(<<x>>) = << >> /\ Tail(<<x, y>>) = <<y>> /\ Tail(<<x, y, z>>) = <<y, z>>
         /\ <<x>> # << >> /\ <<x, y>> # << >> /\ <<x, y, z>> # << >>
<1>1. <<x>> \o << >> = <<x>>
  OBVIOUS
<1>2. <<x>> \o <<y>> = <<x, y>>
  <2>1. <<x>> \o <<y>> \in Seq(Layers) /\ <<x, y>> \in Seq(Layers)
    OBVIOUS
  <2>2. Len(<<x>> \o <<y>>) = Len(<<x, y>>)
    OBVIOUS
  <2>3. \A i \in 1 .. Len(<<x>> \o <<y>>) : (<<x>> \o <<y>>)[i] = <<x, y>>[i]
    OBVIOUS
  <2> QED
    BY <2>1, <2>2, <2>3, SeqEqual, Zenon
<1>3. <<x>> \o <<y, z>> = <<x, y, z>>
  <2>1. <<x>> \o <<y, z>> \in Seq(Layers) /\ <<x, y, z>> \in Seq(Layers)
    OBVIOUS
  <2>2. Len(<<x>> \o <<y, z>>) = Len(<<x, y, z>>)
    OBVIOUS
  <2>3. \A i \in 1 .. Len(<<x>> \o <<y, z>>) : (<<x>> \o <<y, z>>)[i] = <<x, y, z>>[i]
    OBVIOUS
  <2> QED
    BY <2>1, <2>2, <2>3, SeqEqual, Zenon
<1>4. /\ Head(<<x>>) = x /\ Head(<<x, y>>) = x /\ Head(<<x, y, z>>) = x
  OBVIOUS
<1>5. /\ Tail(<<x>>) = << >> 
  OBVIOUS
<1>6. Tail(<<x, y>>) = <<y>> 
  OBVIOUS
<1>7. Tail(<<x, y, z>>) = <<y, z>>
  OBVIOUS
<1>8. <<x>> # << >> /\ <<x, y>> # << >> /\ <<x, y, z>> # << >>
  OBVIOUS
<1> QED
  BY <1>1, <1>2, <1>3, <1>4, <1>5, <1>6, <1>7, <1>8

Intact(h, t) == Way!Torn \notin Way!Range(h \o t)

\* Headers and trailers of which none is torn.
LEMMA IntactParts ==
  ASSUME NEW h \in Seq(Layers), NEW t \in Seq(Layers),
         \A i \in DOMAIN h : h[i] # Way!Torn, \A i \in DOMAIN t : t[i] # Way!Torn
  PROVE  Intact(h, t)
<1> DEFINE s == h \o t
<1>1. /\ Len(h) \in Nat /\ Len(t) \in Nat /\ DOMAIN h = 1 .. Len(h) /\ DOMAIN t = 1 .. Len(t)
      /\ DOMAIN s = 1 .. Len(h) + Len(t)
      /\ \A i \in 1 .. Len(h) : s[i] = h[i] 
      /\ \A i \in 1 .. Len(h) + Len(t) :
           i \notin 1 .. Len(h) => i - Len(h) \in 1 .. Len(t) /\ s[i] = t[i - Len(h)]
  OBVIOUS
<1> HIDE DEF s
<1>2. \A i \in DOMAIN s : s[i] # Way!Torn
  BY <1>1
<1> QED
  BY <1>2 DEF s, Intact, Way!Range

\* A piece that is torn shows.
LEMMA TornShows ==
  ASSUME NEW h \in Seq(Layers), NEW t \in Seq(Layers)
  PROVE  ~Intact(<<Way!Torn>>, t) /\ ~Intact(h, <<Way!Torn>>)
<1>1. Way!Torn \in Layers
  BY DEF Way!Torn, Layers
<1>2. ASSUME NEW g \in Seq(Layers), NEW s \in Seq(Layers),
             Way!Torn \in Way!Range(g) \/ Way!Torn \in Way!Range(s)
      PROVE  ~Intact(g, s)
  <2>1. /\ \A i \in DOMAIN g : i \in DOMAIN (g \o s) /\ (g \o s)[i] = g[i]
        /\ \A i \in DOMAIN s : i + Len(g) \in DOMAIN (g \o s) /\ (g \o s)[i + Len(g)] = s[i]
    OBVIOUS
  <2> QED
    BY <1>2, <2>1 DEF Intact, Way!Range
<1>3. <<Way!Torn>> \in Seq(Layers) /\ Way!Torn \in Way!Range(<<Way!Torn>>)
  BY <1>1 DEF Way!Range
<1> QED
  BY <1>2, <1>3

\* A buffer of known contents, and one with one field changed.
LEMMA Fields ==
  ASSUME NEW b, NEW o, NEW l, NEW p, NEW h, NEW t, Contents(b, o, l, p, h, t), NEW x
  PROVE  /\ b.off = o /\ b.len = l /\ b.param = p /\ b.hdrs = h /\ b.trls = t
         /\ Contents([b EXCEPT !.off = x], x, l, p, h, t) /\ Contents([b EXCEPT !.len = x], o, x, p, h, t)
         /\ Contents([b EXCEPT !.param = x], o, l, x, h, t)
         /\ Contents([b EXCEPT !.hdrs = x], o, l, p, x, t) /\ Contents([b EXCEPT !.trls = x], o, l, p, h, x)
BY DEF Contents

\* ... with two fields changed, as the operations on the right do.
LEMMA TwoFields ==
  ASSUME NEW b, NEW o, NEW l, NEW p, NEW h, NEW t, Contents(b, o, l, p, h, t), NEW x, NEW y
  PROVE  /\ Contents([b EXCEPT !.len = x, !.trls = y], o, x, p, h, y)
         /\ Contents([b EXCEPT !.len = x, !.off = y], y, x, p, h, t)
<1>1. PICK c : c = [b EXCEPT !.len = x]
  OBVIOUS
<1>2. PICK d : d = [c EXCEPT !.trls = y]
  OBVIOUS
<1>3. PICK e : e = [c EXCEPT !.off = y]
  OBVIOUS
<1>4. Contents(c, o, x, p, h, t)
  BY <1>1, Fields
<1>5. Contents(d, o, x, p, h, y) /\ Contents(e, y, x, p, h, t)
  BY <1>2, <1>3, <1>4, Fields
<1>6. [b EXCEPT !.len = x, !.trls = y] = d /\ [b EXCEPT !.len = x, !.off = y] = e
  BY <1>1, <1>2, <1>3
<1> QED
  BY <1>5, <1>6

\* zb_buf_initial_alloc puts the data into the middle.
LEMMA Allocated ==
  ASSUME NEW n
  PROVE  Contents(Way!InitialAlloc(n), (148 - n) \div 2, n, 0, << >>, << >>)
<1> DEFINE o == (148 - n) \div 2
<1>1. Way!InitialAlloc(n) = [Way!Empty EXCEPT !.len = n, !.off = o]
  BY DEF Way!InitialAlloc, Way!ZB_IO_BUF_SIZE
<1>2. Contents(Way!Empty, 0, 0, 0, << >>, << >>)
  BY DEF Contents, Way!Empty
<1> HIDE DEF o
<1>3. Contents([Way!Empty EXCEPT !.len = n, !.off = o], o, n, 0, << >>, << >>)
  BY <1>2, TwoFields
<1>4. Contents(Way!InitialAlloc(n), o, n, 0, << >>, << >>)
  BY <1>1, <1>3, Zenon
<1> QED
  BY <1>4 DEF o

\* ... with three, as the operations on the left do.
LEMMA LeftFields ==
  ASSUME NEW b, NEW o, NEW l, NEW p, NEW h, NEW t, Contents(b, o, l, p, h, t), NEW x, NEW y, NEW z
  PROVE  Contents([b EXCEPT !.off = x, !.len = y, !.hdrs = z], x, y, p, z, t)
<1>1. PICK c : c = [b EXCEPT !.off = x]
  OBVIOUS
<1>2. PICK d : d = [c EXCEPT !.len = y]
  OBVIOUS
<1>3. PICK e : e = [d EXCEPT !.hdrs = z]
  OBVIOUS
<1>4. Contents(e, x, y, p, z, t)
  <2>1. Contents(c, x, l, p, h, t)
    BY <1>1, Fields
  <2>2. Contents(d, x, y, p, h, t)
    BY <1>2, <2>1, Fields
  <2> QED
    BY <1>3, <2>2, Fields
<1>5. [b EXCEPT !.off = x, !.len = y, !.hdrs = z] = e
  BY <1>1, <1>2, <1>3
<1> QED
  BY <1>4, <1>5

\* What an operation makes of a buffer with known contents.
LEMMA Operations ==
  ASSUME NEW b, NEW o, NEW l, NEW p, NEW h, NEW t, Contents(b, o, l, p, h, t), NEW name, NEW n
  PROVE  /\ Contents(Way!AllocLeft(b, name, n), IF o < n THEN 0 ELSE o - n, l + n, p,
                  <<<<name, n>>>> \o h, t)
         /\ Contents(Way!AllocRight(b, name, n), o, l + n, p, h, <<<<name, n>>>> \o t)
         /\ Contents(Way!SetParam(b, n), o, l, n, h, t)
         /\ Contents(Way!CutLeft(b, name, n), o + n, l - n, p,
                  IF h # <<>> /\ Head(h) = <<name, n>> THEN Tail(h) ELSE <<Way!Torn>>, t)
         /\ Contents(Way!CutRight(b, name, n), o, l - n, p, h,
                  IF t # <<>> /\ Head(t) = <<name, n>> THEN Tail(t) ELSE <<Way!Torn>>)
<1>0. b.off = o /\ b.len = l /\ b.param = p /\ b.hdrs = h /\ b.trls = t
  BY Fields
<1>1. Contents(Way!AllocLeft(b, name, n), IF o < n THEN 0 ELSE o - n, l + n, p, <<<<name, n>>>> \o h, t)
  <2>1. PICK x : x = IF o < n THEN 0 ELSE o - n
    OBVIOUS
  <2>2. PICK y : y = l + n
    OBVIOUS
  <2>3. PICK z : z = <<<<name, n>>>> \o h
    OBVIOUS
  <2>4. Way!AllocLeft(b, name, n) = [b EXCEPT !.off = x, !.len = y, !.hdrs = z]
    BY <1>0, <2>1, <2>2, <2>3 DEF Contents, Way!AllocLeft
  <2>5. Contents([b EXCEPT !.off = x, !.len = y, !.hdrs = z], x, y, p, z, t)
    BY LeftFields
  <2> QED
    BY <2>1, <2>2, <2>3, <2>4, <2>5
<1>2. Contents(Way!AllocRight(b, name, n), o, l + n, p, h, <<<<name, n>>>> \o t)
  <2>1. PICK x : x = l + n
    OBVIOUS
  <2>2. PICK y : y = <<<<name, n>>>> \o t
    OBVIOUS
  <2>3. Way!AllocRight(b, name, n) = [b EXCEPT !.len = x, !.trls = y]
    BY <1>0, <2>1, <2>2 DEF Contents, Way!AllocRight
  <2>4. Contents([b EXCEPT !.len = x, !.trls = y], o, x, p, h, y)
    BY TwoFields
  <2> QED
    BY <2>1, <2>2, <2>3, <2>4
<1>3. Contents(Way!SetParam(b, n), o, l, n, h, t)
  BY Fields DEF Way!SetParam
<1>4. Contents(Way!CutLeft(b, name, n), o + n, l - n, p,
                  IF h # <<>> /\ Head(h) = <<name, n>> THEN Tail(h) ELSE <<Way!Torn>>, t)
  <2>1. PICK x : x = o + n
    OBVIOUS
  <2>2. PICK y : y = l - n
    OBVIOUS
  <2>3. PICK z : z = IF h # <<>> /\ Head(h) = <<name, n>> THEN Tail(h) ELSE <<Way!Torn>>
    OBVIOUS
  <2>4. Way!CutLeft(b, name, n) = [b EXCEPT !.off = x, !.len = y, !.hdrs = z]
    BY <1>0, <2>1, <2>2, <2>3 DEF Contents, Way!CutLeft
  <2>5. Contents([b EXCEPT !.off = x, !.len = y, !.hdrs = z], x, y, p, z, t)
    BY LeftFields
  <2> QED
    BY <2>1, <2>2, <2>3, <2>4, <2>5
<1>5. Contents(Way!CutRight(b, name, n), o, l - n, p, h,
                  IF t # <<>> /\ Head(t) = <<name, n>> THEN Tail(t) ELSE <<Way!Torn>>)
  <2>1. PICK x : x = l - n
    OBVIOUS
  <2>2. PICK y : y = IF t # <<>> /\ Head(t) = <<name, n>> THEN Tail(t) ELSE <<Way!Torn>>
    OBVIOUS
  <2>3. Way!CutRight(b, name, n) = [b EXCEPT !.len = x, !.trls = y]
    BY <1>0, <2>1, <2>2 DEF Contents, Way!CutRight
  <2>4. Contents([b EXCEPT !.len = x, !.trls = y], o, x, p, h, y)
    BY TwoFields
  <2> QED
    BY <2>1, <2>2, <2>3, <2>4
<1> QED
  BY <1>1, <1>2, <1>3, <1>4, <1>5

Good(b) == Way!Sound(b) /\ Intact(b.hdrs, b.trls)
Clean(h) == h \in Seq(Layers) /\ \A i \in DOMAIN h : h[i] # Way!Torn

\* Nothing has nothing torn.
LEMMA CleanEmpty == Clean(<< >>)
BY DEF Clean

\* When a buffer of known contents is sound and whole.
LEMMA GoodIs ==
  ASSUME NEW b, NEW o \in Nat, NEW l \in Nat, NEW p \in Nat, NEW h, NEW t,
         Contents(b, o, l, p, h, t), l < 148, o + l + p <= 148, Clean(h), Clean(t)
  PROVE  Good(b)
<1>1. b.off = o /\ b.len = l /\ b.param = p /\ b.hdrs = h /\ b.trls = t
  BY Fields
<1>2. Way!Sound(b)
  BY <1>1 DEF Way!Sound, Way!ZB_IO_BUF_SIZE
<1>3. Intact(h, t)
  BY IntactParts DEF Clean
<1> QED
  BY <1>1, <1>2, <1>3 DEF Good

\* What a handler leaves that hurts none of the buffers it works on.
LEMMA WorkOne ==
  ASSUME NEW a, Way!Work(<<a>>), Good(a), harm = {}
  PROVE  buf' = a /\ harm' = {}
<1>1. DOMAIN <<a>> = {1} /\ <<a>>[1] = a /\ Len(<<a>>) = 1
  OBVIOUS
<1> QED
  BY <1>1, Zenon DEF Way!Work, Good, Intact

\* ... that works on two buffers.
LEMMA WorkTwo ==
  ASSUME NEW a, NEW b, Way!Work(<<a, b>>), Good(a), Good(b), harm = {}
  PROVE  buf' = b /\ harm' = {}
<1>1. /\ \A i \in DOMAIN <<a, b>> : <<a, b>>[i] \in {a, b}
      /\ <<a, b>>[Len(<<a, b>>)] = b
  OBVIOUS
<1> QED
  BY <1>1, Zenon DEF Way!Work, Good, Intact

\* ... on three; a piece torn from one of the first two is remembered.
LEMMA WorkThree ==
  ASSUME NEW a, NEW b, NEW c, Way!Work(<<a, b, c>>), harm = {}
  PROVE  /\ buf' = c
         /\ Good(a) /\ Good(b) /\ Good(c) => harm' = {}
         /\ ~Intact(a.hdrs, a.trls) \/ ~Intact(b.hdrs, b.trls) => harm' # {}
<1> DEFINE s == <<a, b, c>>
<1>1. /\ \A i \in DOMAIN s : s[i] \in {a, b, c}
      /\ s[Len(s)] = c /\ 1 \in DOMAIN s /\ 2 \in DOMAIN s /\ s[1] = a /\ s[2] = b
  OBVIOUS
<1> HIDE DEF s
<1>2. Way!Work(s)
  BY DEF s
<1>3. buf' = c
  BY <1>1, <1>2, Zenon DEF Way!Work
<1>4. Good(a) /\ Good(b) /\ Good(c) => harm' = {}
  BY <1>1, <1>2, Zenon DEF Way!Work, Good, Intact
<1>5. ~Intact(a.hdrs, a.trls) \/ ~Intact(b.hdrs, b.trls) => "cut" \in harm'
  BY <1>1, <1>2, Zenon DEF Way!Work, Intact
<1> QED
  BY <1>3, <1>4, <1>5

-----------------------------------------------------------------------------
\* The frame lies in its buffer with some headers, without trailers, and leaves room for
\* the parameters of any layer.
Lies(b, h, n, p) == \E o \in Nat : o + n <= 131 /\ Contents(b, o, n, p, h, << >>)

\* Such a frame is sound.
LEMMA LiesWell ==
  ASSUME NEW b, NEW h, NEW n \in Nat, NEW p \in 0 .. 17, Lies(b, h, n, p), Clean(h)
  PROVE  Good(b)
<1>1. PICK o \in Nat : o + n <= 131 /\ Contents(b, o, n, p, h, << >>)
  BY DEF Lies
<1>2. Clean(<< >>)
  BY CleanEmpty
<1>3. p \in Nat /\ n < 148 /\ o + n + p <= 148
  BY <1>1
<1> QED
  BY <1>1, <1>2, <1>3, GoodIs

\* New parameters replace the old ones.
LEMMA LiesParam ==
  ASSUME NEW b, NEW h, NEW n, NEW p, NEW q, Lies(b, h, n, p)
  PROVE  Lies(Way!SetParam(b, q), h, n, q)
<1>1. PICK o \in Nat : o + n <= 131 /\ Contents(b, o, n, p, h, << >>)
  BY DEF Lies
<1>2. Contents(Way!SetParam(b, q), o, n, q, h, << >>)
  BY <1>1, Operations
<1> QED
  BY <1>1, <1>2 DEF Lies

\* A header is put before the others; the data moves only as far as there is room.
LEMMA LiesMore ==
  ASSUME NEW b, NEW h, NEW n \in Nat, NEW p, Lies(b, h, n, p), NEW name, NEW k \in Nat, n + k <= 127
  PROVE  Lies(Way!AllocLeft(b, name, k), <<<<name, k>>>> \o h, n + k, p)
<1>1. PICK o \in Nat : o + n <= 131 /\ Contents(b, o, n, p, h, << >>)
  BY DEF Lies
<1> DEFINE m == IF o < k THEN 0 ELSE o - k
<1>2. Contents(Way!AllocLeft(b, name, k), m, n + k, p, <<<<name, k>>>> \o h, << >>)
  BY <1>1, Operations
<1>3. m \in Nat /\ m + (n + k) <= 131
  BY <1>1
<1> HIDE DEF m
<1> QED
  BY <1>2, <1>3 DEF Lies

\* The outermost header is cut.
LEMMA LiesLess ==
  ASSUME NEW b, NEW h, NEW n \in Nat, NEW p, Lies(b, h, n, p), NEW name, NEW k \in Nat, k <= n,
         h # << >>, Head(h) = <<name, k>>
  PROVE  Lies(Way!CutLeft(b, name, k), Tail(h), n - k, p)
<1>1. PICK o \in Nat : o + n <= 131 /\ Contents(b, o, n, p, h, << >>)
  BY DEF Lies
<1>2. Contents(Way!CutLeft(b, name, k), o + k, n - k, p, Tail(h), << >>)
  BY <1>1, Operations
<1>3. o + k \in Nat /\ (o + k) + (n - k) <= 131
  BY <1>1
<1> QED
  BY <1>2, <1>3 DEF Lies

\* A cut on the left that is not of the outermost header shows.
LEMMA CutLeftShows ==
  ASSUME NEW b, NEW h, NEW n, NEW p, Lies(b, h, n, p), NEW name, NEW k,
         h # << >> => Head(h) # <<name, k>>
  PROVE  LET c == Way!CutLeft(b, name, k) IN ~Intact(c.hdrs, c.trls)
<1>1. PICK o \in Nat : o + n <= 131 /\ Contents(b, o, n, p, h, << >>)
  BY DEF Lies
<1>2. Contents(Way!CutLeft(b, name, k), o + k, n - k, p, <<Way!Torn>>, << >>)
  BY <1>1, Operations
<1>3. Way!CutLeft(b, name, k).hdrs = <<Way!Torn>> /\ Way!CutLeft(b, name, k).trls = << >>
  BY <1>2, Fields
<1>4. << >> \in Seq(Layers)
  OBVIOUS
<1> QED
  BY <1>3, <1>4, TornShows

\* So does a cut of a trailer that is not there.
LEMMA CutRightShows ==
  ASSUME NEW b, NEW h, NEW n, NEW p, Lies(b, h, n, p), NEW name, NEW k, Clean(h)
  PROVE  LET c == Way!CutRight(b, name, k) IN ~Intact(c.hdrs, c.trls)
<1>1. PICK o \in Nat : o + n <= 131 /\ Contents(b, o, n, p, h, << >>)
  BY DEF Lies
<1>2. Contents(Way!CutRight(b, name, k), o, n - k, p, h, <<Way!Torn>>)
  BY <1>1, Operations
<1>3. Way!CutRight(b, name, k).hdrs = h /\ Way!CutRight(b, name, k).trls = <<Way!Torn>>
  BY <1>2, Fields
<1> QED
  BY <1>3, TornShows DEF Clean

\* The sizes of the headers: as filled and as computed by the reader.
MhrP(f) == Way!MhrParsed(f.src, f.dst, f.compressed)
InPan(f) == f.src = "short" /\ f.dst = "short" /\ f.compressed

\* The reader of a header computes the size that its writer filled, for every format.
LEMMA Sizes ==
  ASSUME NEW f \in Way!Formats
  PROVE  /\ Way!ApsHdr(f) \in 3 .. 9 /\ Way!NwkHdrSize(f) \in 8 .. 38
         /\ Way!NwkHdrFilled(f) = Way!NwkHdrSize(f)
         /\ (IF f.command THEN 2 + 1 ELSE Way!ApsHdrSize(f)) = Way!ApsHdr(f)
         /\ Way!Mic(f) = IF f.secured THEN 4 ELSE 0
         /\ Way!Mhr = 9 /\ MhrP(f) \in 9 .. 23
         /\ InPan(f) => MhrP(f) = 9 /\ Way!MhrLength(f.src, f.dst, f.compressed) = 9
         /\ Way!Own(f) => InPan(f)
<1>1. /\ f.command \in BOOLEAN /\ f.group \in BOOLEAN /\ f.secured \in BOOLEAN /\ f.long \in 0 .. 2
      /\ f.src \in {"short", "long"} /\ f.dst \in {"short", "long"} /\ f.compressed \in BOOLEAN
  BY DEF Way!Formats
<1>2. Way!ApsHdr(f) \in 3 .. 9 /\ (IF f.command THEN 2 + 1 ELSE Way!ApsHdrSize(f)) = Way!ApsHdr(f)
  BY <1>1 DEF Way!ApsHdr, Way!ApsHdrFilled, Way!ApsHdrSize
<1>3. Way!NwkHdrSize(f) \in 8 .. 38 /\ Way!NwkHdrFilled(f) = Way!NwkHdrSize(f)
  BY <1>1 DEF Way!NwkHdrSize, Way!NwkHdrFilled, Way!ShortHdr, Way!HalfHdr, Way!FullHdr, Way!Aux
<1>4. Way!Mic(f) = IF f.secured THEN 4 ELSE 0
  BY DEF Way!Mic, Way!ZB_CCM_M
<1>5. Way!Mhr = 9
  BY DEF Way!Mhr, Way!MhrLength
<1>6. MhrP(f) \in 9 .. 23
  BY <1>1 DEF MhrP, Way!MhrParsed
<1>7. InPan(f) => MhrP(f) = 9 /\ Way!MhrLength(f.src, f.dst, f.compressed) = 9
  BY DEF InPan, MhrP, Way!MhrParsed, Way!MhrLength
<1>8. Way!Own(f) => InPan(f)
  BY DEF Way!Own, InPan
<1> QED
  BY <1>2, <1>3, <1>4, <1>5, <1>6, <1>7, <1>8

-----------------------------------------------------------------------------
\* The headers around the APS payload of a frame, and what they add up to.
ApsH(f) == <<"aps", Way!ApsHdr(f)>>
NwkH(f) == <<"nwk", Way!NwkHdrSize(f)>>
MhrH(n) == <<"mhr", n>>
FcsT == <<"fcs", 2>>
H1(f) == <<ApsH(f)>>
H2(f) == <<NwkH(f), ApsH(f)>>
H3(f, n) == <<MhrH(n), NwkH(f), ApsH(f)>>
N1(f, n) == n + Way!ApsHdr(f)
N2(f, n) == n + Way!ApsHdr(f) + Way!NwkHdrSize(f)
N3(f, n) == n + Way!ApsHdr(f) + Way!NwkHdrSize(f) + 9

\* The headers of a frame, put on and taken off.
LEMMA Stacks ==
  ASSUME NEW f \in Way!Formats, NEW n \in Int
  PROVE  /\ Clean(<< >>) /\ Clean(H1(f)) /\ Clean(H2(f)) /\ Clean(H3(f, n)) /\ Clean(<<FcsT>>)
         /\ <<ApsH(f)>> \o << >> = H1(f) /\ <<NwkH(f)>> \o H1(f) = H2(f)
         /\ <<MhrH(n)>> \o H2(f) = H3(f, n)
         /\ H1(f) # << >> /\ Head(H1(f)) = ApsH(f) /\ Tail(H1(f)) = << >>
         /\ H2(f) # << >> /\ Head(H2(f)) = NwkH(f) /\ Tail(H2(f)) = H1(f)
         /\ H3(f, n) # << >> /\ Head(H3(f, n)) = MhrH(n) /\ Tail(H3(f, n)) = H2(f)
         /\ <<FcsT>> \o << >> = <<FcsT>>
         /\ <<FcsT>> # << >> /\ Head(<<FcsT>>) = FcsT /\ Tail(<<FcsT>>) = << >>
<1>1. /\ ApsH(f) \in Layers /\ NwkH(f) \in Layers /\ MhrH(n) \in Layers /\ FcsT \in Layers
  <2>1. Way!ApsHdr(f) \in Int /\ Way!NwkHdrSize(f) \in Int
    BY Sizes
  <2> QED
    BY <2>1 DEF ApsH, NwkH, MhrH, FcsT, Layers
<1>2. ApsH(f) # Way!Torn /\ NwkH(f) # Way!Torn /\ MhrH(n) # Way!Torn /\ FcsT # Way!Torn
  BY DEF ApsH, NwkH, MhrH, FcsT, Way!Torn
<1>3. ASSUME NEW x \in Layers, NEW y \in Layers, NEW z \in Layers, x # Way!Torn, y # Way!Torn, z # Way!Torn
      PROVE  Clean(<< >>) /\ Clean(<<x>>) /\ Clean(<<x, y>>) /\ Clean(<<x, y, z>>)
  <2>1. Clean(<< >>) /\ Clean(<<x>>)
    BY <1>3 DEF Clean
  <2>2. Clean(<<x, y>>)
    BY <1>3 DEF Clean
  <2>3. Clean(<<x, y, z>>)
    BY <1>3 DEF Clean
  <2> QED
    BY <2>1, <2>2, <2>3
<1>4. Clean(<< >>) /\ Clean(H1(f)) /\ Clean(H2(f)) /\ Clean(H3(f, n)) /\ Clean(<<FcsT>>)
  BY <1>1, <1>2, <1>3, Zenon DEF H1, H2, H3
<1>5. /\ <<ApsH(f)>> \o << >> = H1(f) /\ <<NwkH(f)>> \o H1(f) = H2(f)
      /\ <<MhrH(n)>> \o H2(f) = H3(f, n) /\ <<FcsT>> \o << >> = <<FcsT>>
  <2>1. <<ApsH(f)>> \o << >> = H1(f) /\ <<FcsT>> \o << >> = <<FcsT>>
    BY <1>1, Joined, Zenon DEF H1
  <2>2. <<NwkH(f)>> \o H1(f) = H2(f)
    BY <1>1, Joined, Zenon DEF H1, H2
  <2>3. <<MhrH(n)>> \o H2(f) = H3(f, n)
    BY <1>1, Joined, ZenonT(30) DEF H2, H3
  <2> QED
    BY <2>1, <2>2, <2>3
<1>6. /\ H1(f) # << >> /\ Head(H1(f)) = ApsH(f) /\ Tail(H1(f)) = << >>
      /\ H2(f) # << >> /\ Head(H2(f)) = NwkH(f) /\ Tail(H2(f)) = H1(f)
      /\ H3(f, n) # << >> /\ Head(H3(f, n)) = MhrH(n) /\ Tail(H3(f, n)) = H2(f)
      /\ <<FcsT>> # << >> /\ Head(<<FcsT>>) = FcsT /\ Tail(<<FcsT>>) = << >>
  <2>1. H1(f) # << >> /\ Head(H1(f)) = ApsH(f) /\ Tail(H1(f)) = << >>
    BY <1>1, Joined, Zenon DEF H1
  <2>2. H2(f) # << >> /\ Head(H2(f)) = NwkH(f) /\ Tail(H2(f)) = H1(f)
    BY <1>1, Joined, Zenon DEF H1, H2
  <2>3. H3(f, n) # << >> /\ Head(H3(f, n)) = MhrH(n) /\ Tail(H3(f, n)) = H2(f)
    BY <1>1, Joined, ZenonT(30) DEF H2, H3
  <2>4. <<FcsT>> # << >> /\ Head(<<FcsT>>) = FcsT /\ Tail(<<FcsT>>) = << >>
    BY <1>1, Joined, Zenon
  <2> QED
    BY <2>1, <2>2, <2>3, <2>4
<1> QED
  BY <1>4, <1>5, <1>6

\* Complete with its MHR, and closed by an FCS where this build appends one.
Closed(b, f, s) ==
  \E o \in Nat : o + N3(f, s) <= 131 /\ Contents(b, o, N3(f, s) + 2, 7, H3(f, 9), <<FcsT>>)
Complete(b, f, s) == IF f.fcs THEN Closed(b, f, s) ELSE Lies(b, H3(f, 9), N3(f, s), 7)

\* As the transceiver read it.
Tails(f) == <<<<"tail", 11>>>> \o IF f.secured THEN <<<<"mic", 4>>>> ELSE << >>
AirLen(f, s) == MhrP(f) + N2(f, s) + Way!Mic(f) + 2
Arrived(b, f, s) ==
  \E o \in Nat : /\ o >= 1 /\ o + AirLen(f, s) + 9 <= 142 /\ AirLen(f, s) <= 127
                 /\ Contents(b, o, AirLen(f, s) + 9, 0, H3(f, MhrP(f)), Tails(f))

\* Confirmed without ever having got all headers, or the FCS.
Excuse == "not joined" \in odd \/ ("not encrypted" \in odd /\ fmt.fcs)

\* A frame that was composed fits into one frame of the radio.
Told ==
  at # "app" => /\ size \in Nat /\ N3(fmt, size) + Way!Mic(fmt) + 2 <= Way!MAX_PHY_FRM_SIZE
                /\ (hops = 0 => Way!Own(fmt))

\* Where the frame is, it lies as the handler that takes it next expects it.
OnItsWay ==
  /\ at = "aps"       => Lies(buf, << >>, size, IF fmt.command THEN 0 ELSE Way!ApsReq)
  /\ at = "nwk"       => Lies(buf, H1(fmt), N1(fmt, size), Way!NldeReq)
  /\ at = "forward"   => Lies(buf, H2(fmt), N2(fmt, size), Way!Handle)
  /\ at = "mac"       => Lies(buf, H2(fmt), N2(fmt, size), Way!McpsReq)
  /\ at \in {"send", "indirect"} => Lies(buf, H3(fmt, 9), N3(fmt, size), Way!McpsReq) /\ InPan(fmt)
  /\ at = "air"       => Complete(buf, fmt, size) /\ InPan(fmt) /\ air = AirLen(fmt, size)
  /\ at = "sent"      => \/ Complete(buf, fmt, size)
                         \/ Excuse /\ fmt.fcs /\ Lies(buf, H3(fmt, 9), N3(fmt, size), Way!McpsReq)
  /\ at = "confirm"   => \/ Complete(buf, fmt, size) /\ Way!Own(fmt)
                         \/ Excuse /\ fmt.fcs /\ Lies(buf, H3(fmt, 9), N3(fmt, size), Way!McpsReq)
                         \/ Excuse /\ Lies(buf, H1(fmt), N1(fmt, size), Way!NldeReq)
  /\ at = "confirmed" => Lies(buf, H1(fmt), N1(fmt, size), Way!McpsReq)
  /\ at = "heard"     => /\ buf.hdrs = H3(fmt, MhrP(fmt)) /\ air = AirLen(fmt, size)
                         /\ air <= Way!MAX_PHY_FRM_SIZE
  /\ at = "mcps"      => Arrived(buf, fmt, size)
  /\ at = "nlde"      => Lies(buf, H2(fmt), N2(fmt, size), 0)
  /\ at = "ind"       => Lies(buf, H1(fmt), N1(fmt, size), Way!ApsInd)
  /\ at = "delivered" => Lies(buf, << >>, size, Way!ApsInd)

FrameInv ==
  /\ fmt \in Way!Formats /\ hops \in Nat
  /\ harm # {} => Excuse
  /\ harm = {} => Told /\ OnItsWay

\* What holds of a frame that nothing happened to, and what is to be shown of a step.
FrameOK == fmt \in Way!Formats /\ hops \in Nat /\ harm = {} /\ Told /\ OnItsWay
StepOK == FrameOK'

\* The lengths of a frame on its way.
LEMMA Lengths ==
  ASSUME FrameOK, at # "app"
  PROVE  /\ size \in Nat /\ N1(fmt, size) \in Nat /\ N2(fmt, size) \in Nat /\ N3(fmt, size) \in Nat
         /\ Way!ApsHdr(fmt) \in 3 .. 9 /\ Way!NwkHdrSize(fmt) \in 8 .. 38 /\ Way!Mic(fmt) \in 0 .. 4
         /\ N1(fmt, size) = size + Way!ApsHdr(fmt) /\ N2(fmt, size) = N1(fmt, size) + Way!NwkHdrSize(fmt)
         /\ N3(fmt, size) = N2(fmt, size) + 9
         /\ N3(fmt, size) + Way!Mic(fmt) <= 125
<1>1. /\ size \in Nat /\ N3(fmt, size) + Way!Mic(fmt) + 2 <= 127
  BY DEF FrameOK, Told, Way!MAX_PHY_FRM_SIZE
<1>2. Way!ApsHdr(fmt) \in 3 .. 9 /\ Way!NwkHdrSize(fmt) \in 8 .. 38 /\ Way!Mic(fmt) \in 0 .. 4
  BY Sizes DEF FrameOK
<1> QED
  BY <1>1, <1>2 DEF N1, N2, N3

\* Its headers with the MHR of this stack.
LEMMA Here ==
  ASSUME FrameOK
  PROVE  /\ Clean(<< >>) /\ Clean(H1(fmt)) /\ Clean(H2(fmt)) /\ Clean(H3(fmt, 9))
         /\ <<ApsH(fmt)>> \o << >> = H1(fmt) /\ <<NwkH(fmt)>> \o H1(fmt) = H2(fmt)
         /\ <<MhrH(9)>> \o H2(fmt) = H3(fmt, 9)
         /\ H1(fmt) # << >> /\ Head(H1(fmt)) = ApsH(fmt) /\ Tail(H1(fmt)) = << >>
         /\ H2(fmt) # << >> /\ Head(H2(fmt)) = NwkH(fmt) /\ Tail(H2(fmt)) = H1(fmt)
         /\ H3(fmt, 9) # << >> /\ Head(H3(fmt, 9)) = MhrH(9) /\ Tail(H3(fmt, 9)) = H2(fmt)
<1>1. fmt \in Way!Formats /\ 9 \in Int
  BY DEF FrameOK
<1> QED
  BY <1>1, Stacks, Zenon

\* The application, or a layer of the stack, composes a frame.
LEMMA ComposeOK ==
  ASSUME FrameOK, Way!Compose
  PROVE  StepOK
<1>1. at = "app" /\ at' = "aps" /\ Way!Own(fmt) /\ UNCHANGED <<fmt, air, odd, resent, hops>>
  BY DEF Way!Compose, Way!Goes
<1>2. PICK n \in Payloads :
        /\ Way!Fits(fmt, n) /\ size' = n
        /\ Way!Work(<<Way!SetParam(Way!InitialAlloc(n), IF fmt.command THEN 0 ELSE Way!ApsReq)>>)
  BY DEF Way!Compose
<1> DEFINE p == IF fmt.command THEN 0 ELSE Way!ApsReq
           o == (148 - n) \div 2
           b == Way!SetParam(Way!InitialAlloc(n), p)
<1>3. n \in Nat /\ N3(fmt, n) + Way!Mic(fmt) + 2 <= 127 /\ n <= 105
  <2>1. n \in Nat
    BY FrameConstants
  <2> QED
    BY <1>2, <2>1, Sizes DEF FrameOK, Way!Fits, N3, Way!MAX_PHY_FRM_SIZE, Way!Fcs
<1>4. o \in Nat /\ o + n <= 131
  BY <1>3
<1>5. Contents(Way!InitialAlloc(n), o, n, 0, << >>, << >>)
  BY Allocated
<1>6. Lies(b, << >>, n, p)
  <2>1. Lies(Way!InitialAlloc(n), << >>, n, 0)
    BY <1>4, <1>5 DEF Lies
  <2> QED
    BY <2>1, LiesParam
<1>7. p \in 0 .. 17
  BY DEF Way!ApsReq
<1> HIDE DEF p
<1>8. Good(b)
  BY <1>3, <1>6, <1>7, LiesWell, CleanEmpty
<1>9. buf' = b /\ harm' = {}
  BY <1>2, <1>8, WorkOne DEF FrameOK, p
<1>10. Told'
  BY <1>1, <1>2, <1>3 DEF Told, Way!MAX_PHY_FRM_SIZE
<1>11. OnItsWay'
  BY <1>1, <1>2, <1>6, <1>9 DEF OnItsWay, p
<1> QED
  BY <1>1, <1>9, <1>10, <1>11 DEF StepOK, FrameOK

\* The APS header and the parameters of the NWK layer.
LEMMA DataRequestOK ==
  ASSUME FrameOK, Way!DataRequest
  PROVE  StepOK
<1> DEFINE p == IF fmt.command THEN 0 ELSE Way!ApsReq
           b == Way!AllocLeft(buf, "aps", Way!ApsHdr(fmt))
           c == Way!SetParam(b, Way!NldeReq)
<1>1. /\ at = "aps" /\ at' = "nwk" /\ Way!Work(<<b, c>>) /\ UNCHANGED <<fmt, size, air, odd, resent, hops>>
  BY DEF Way!DataRequest, Way!Goes
<1>2. Lies(buf, << >>, size, p)
  BY <1>1 DEF FrameOK, OnItsWay
<1>3. p \in 0 .. 17
  BY DEF Way!ApsReq
<1> HIDE DEF p
<1>4. Lies(b, <<ApsH(fmt)>> \o << >>, size + Way!ApsHdr(fmt), p)
  <2>1. size \in Nat /\ Way!ApsHdr(fmt) \in Nat /\ size + Way!ApsHdr(fmt) <= 127
    BY <1>1, Lengths
  <2> QED
    BY <1>2, <2>1, LiesMore DEF ApsH
<1>5. Lies(b, H1(fmt), N1(fmt, size), p)
  BY <1>1, <1>4, Lengths, Here
<1>6. Lies(c, H1(fmt), N1(fmt, size), Way!NldeReq) /\ Way!NldeReq \in 0 .. 17
  BY <1>5, LiesParam DEF Way!NldeReq
<1>7. Good(b) /\ Good(c)
  BY <1>1, <1>3, <1>5, <1>6, Lengths, LiesWell, Here
<1> HIDE DEF b, c
<1>8. buf' = c /\ harm' = {}
  BY <1>1, <1>7, WorkTwo DEF FrameOK
<1>9. Told' /\ OnItsWay'
  BY <1>1, <1>6, <1>8 DEF FrameOK, Told, OnItsWay
<1> QED
  BY <1>1, <1>8, <1>9 DEF StepOK, FrameOK

\* The NWK header and the handle.
LEMMA NldeDataRequestOK ==
  ASSUME FrameOK, Way!NldeDataRequest
  PROVE  StepOK
<1> DEFINE b == Way!AllocLeft(buf, "nwk", Way!NwkHdrFilled(fmt))
           c == Way!SetParam(b, Way!Handle)
<1>1. /\ at = "nwk" /\ at' = "forward" /\ Way!Work(<<b, c>>)
      /\ UNCHANGED <<fmt, size, air, odd, resent, hops>>
  BY DEF Way!NldeDataRequest, Way!Goes
<1>2. Lies(buf, H1(fmt), N1(fmt, size), Way!NldeReq) /\ Way!NldeReq \in 0 .. 17
  BY <1>1 DEF FrameOK, OnItsWay, Way!NldeReq
<1>3. Way!NwkHdrFilled(fmt) = Way!NwkHdrSize(fmt)
  BY Sizes DEF FrameOK
<1>4. Lies(b, <<NwkH(fmt)>> \o H1(fmt), N1(fmt, size) + Way!NwkHdrSize(fmt), Way!NldeReq)
  BY <1>1, <1>2, <1>3, Lengths, LiesMore DEF NwkH
<1>5. Lies(b, H2(fmt), N2(fmt, size), Way!NldeReq)
  BY <1>1, <1>4, Lengths, Here
<1>6. Lies(c, H2(fmt), N2(fmt, size), Way!Handle) /\ Way!Handle \in 0 .. 17
  BY <1>5, LiesParam DEF Way!Handle
<1>7. Good(b) /\ Good(c)
  BY <1>1, <1>2, <1>5, <1>6, Lengths, LiesWell, Here
<1> HIDE DEF b, c
<1>8. buf' = c /\ harm' = {}
  BY <1>1, <1>7, WorkTwo DEF FrameOK
<1>9. Told' /\ OnItsWay'
  BY <1>1, <1>6, <1>8 DEF FrameOK, Told, OnItsWay
<1> QED
  BY <1>1, <1>8, <1>9 DEF StepOK, FrameOK

\* The confirm of a frame that never left: it may be cut wrongly, and is excused.
LEMMA NotJoinedOK ==
  ASSUME FrameOK, Way!NotJoined
  PROVE  StepOK
<1>1. /\ at = "nwk" /\ at' = "confirm" /\ odd' = odd \cup {"not joined"}
      /\ UNCHANGED <<buf, fmt, size, air, harm, resent, hops>>
  BY DEF Way!NotJoined, Way!Goes
<1>2. Lies(buf, H1(fmt), N1(fmt, size), Way!NldeReq)
  BY <1>1 DEF FrameOK, OnItsWay
<1>3. Excuse'
  BY <1>1 DEF Excuse
<1>4. Told' /\ OnItsWay'
  BY <1>1, <1>2, <1>3 DEF FrameOK, Told, OnItsWay
<1> QED
  BY <1>1, <1>4 DEF StepOK, FrameOK

\* Where only the parameters change.
LEMMA ParamStep ==
  ASSUME FrameOK, NEW h, NEW n \in Nat, NEW p, Lies(buf, h, n, p), NEW q \in 0 .. 17, Clean(h),
         Way!Work(<<Way!SetParam(buf, q)>>)
  PROVE  Lies(buf', h, n, q) /\ harm' = {}
<1>1. Lies(Way!SetParam(buf, q), h, n, q)
  BY LiesParam
<1>2. Good(Way!SetParam(buf, q))
  BY <1>1, LiesWell
<1>3. buf' = Way!SetParam(buf, q) /\ harm' = {}
  BY <1>2, WorkOne DEF FrameOK
<1> QED
  BY <1>1, <1>3

\* zb_nwk_forward leaves the parameters of the MAC.
LEMMA ForwardOK ==
  ASSUME FrameOK, Way!Forward
  PROVE  StepOK
<1>1. /\ at = "forward" /\ at' = "mac" /\ Way!Work(<<Way!SetParam(buf, Way!McpsReq)>>)
      /\ UNCHANGED <<fmt, size, air, odd, resent, hops>>
  BY DEF Way!Forward, Way!Goes
<1>2. Lies(buf, H2(fmt), N2(fmt, size), Way!Handle) /\ Way!McpsReq \in 0 .. 17
  BY <1>1 DEF FrameOK, OnItsWay, Way!McpsReq
<1>3. Lies(buf', H2(fmt), N2(fmt, size), Way!McpsReq) /\ harm' = {}
  BY <1>1, <1>2, Lengths, Here, ParamStep
<1>4. Told' /\ OnItsWay'
  BY <1>1, <1>3 DEF FrameOK, Told, OnItsWay
<1> QED
  BY <1>1, <1>3, <1>4 DEF StepOK, FrameOK

\* The APS layer sends the frame again that came back.
LEMMA ResendOK ==
  ASSUME FrameOK, Way!Resend
  PROVE  StepOK
<1>1. /\ at = "confirmed" /\ at' = "nwk" /\ Way!Work(<<Way!SetParam(buf, Way!NldeReq)>>)
      /\ UNCHANGED <<fmt, size, air, odd, hops>>
  BY DEF Way!Resend, Way!Goes
<1>2. Lies(buf, H1(fmt), N1(fmt, size), Way!McpsReq) /\ Way!NldeReq \in 0 .. 17
  BY <1>1 DEF FrameOK, OnItsWay, Way!NldeReq
<1>3. Lies(buf', H1(fmt), N1(fmt, size), Way!NldeReq) /\ harm' = {}
  BY <1>1, <1>2, Lengths, Here, ParamStep
<1>4. Told' /\ OnItsWay'
  BY <1>1, <1>3 DEF FrameOK, Told, OnItsWay
<1> QED
  BY <1>1, <1>3, <1>4 DEF StepOK, FrameOK

\* A router forwards a frame it received.
LEMMA RouteOK ==
  ASSUME FrameOK, Way!Route
  PROVE  StepOK
<1>1. /\ at = "nlde" /\ at' = "forward" /\ Way!Work(<<Way!SetParam(buf, Way!Handle)>>) /\ hops' = hops + 1
      /\ UNCHANGED <<fmt, size, air, odd, resent>>
  BY DEF Way!Route, Way!Goes
<1>2. Lies(buf, H2(fmt), N2(fmt, size), 0) /\ Way!Handle \in 0 .. 17
  BY <1>1 DEF FrameOK, OnItsWay, Way!Handle
<1>3. Lies(buf', H2(fmt), N2(fmt, size), Way!Handle) /\ harm' = {}
  BY <1>1, <1>2, Lengths, Here, ParamStep
<1>4. hops' \in Nat /\ hops' # 0
  BY <1>1 DEF FrameOK
<1>5. Told' /\ OnItsWay'
  BY <1>1, <1>3, <1>4 DEF FrameOK, Told, OnItsWay
<1> QED
  BY <1>1, <1>3, <1>4, <1>5 DEF StepOK, FrameOK

\* The format that the MAC header of this stack gives a frame.
LEMMA Reformatted ==
  ASSUME NEW f \in Way!Formats, NEW s
  PROVE  LET g == [f EXCEPT !.src = "short", !.dst = "short", !.compressed = TRUE]
         IN  /\ g \in Way!Formats /\ g.fcs = f.fcs /\ InPan(g) /\ (Way!Own(f) => Way!Own(g))
             /\ Way!Mic(g) = Way!Mic(f) /\ H3(g, 9) = H3(f, 9) /\ N3(g, s) = N3(f, s)
<1>1. PICK g : g = [f EXCEPT !.src = "short", !.dst = "short", !.compressed = TRUE]
  OBVIOUS
<1>2. /\ g.command = f.command /\ g.group = f.group /\ g.secured = f.secured /\ g.long = f.long
      /\ g.src = "short" /\ g.dst = "short" /\ g.compressed = TRUE /\ g.fcs = f.fcs
  BY <1>1 DEF Way!Formats
<1>3. g \in Way!Formats
  BY <1>1 DEF Way!Formats
<1>4. Way!ApsHdr(g) = Way!ApsHdr(f) /\ Way!NwkHdrSize(g) = Way!NwkHdrSize(f)
  BY <1>2 DEF Way!ApsHdr, Way!ApsHdrFilled, Way!NwkHdrSize
<1>5. Way!Mic(g) = Way!Mic(f) /\ H3(g, 9) = H3(f, 9) /\ N3(g, s) = N3(f, s)
  BY <1>2, <1>4 DEF Way!Mic, H3, N3, NwkH, ApsH
<1>6. InPan(g) /\ (Way!Own(f) => Way!Own(g))
  BY <1>2 DEF InPan, Way!Own
<1> QED
  BY <1>1, <1>2, <1>3, <1>5, <1>6

\* The MHR is filled in.
LEMMA FillHdrOK ==
  ASSUME FrameOK, Way!FillHdr
  PROVE  StepOK
<1> DEFINE b == Way!AllocLeft(buf, "mhr", Way!Mhr)
<1>1. /\ at = "mac" /\ at' \in {"send", "indirect"} /\ Way!Work(<<b>>)
      /\ fmt' = [fmt EXCEPT !.src = "short", !.dst = "short", !.compressed = TRUE]
      /\ UNCHANGED <<size, air, odd, resent, hops>>
  BY DEF Way!FillHdr
<1>2. Lies(buf, H2(fmt), N2(fmt, size), Way!McpsReq) /\ Way!McpsReq \in 0 .. 17
  BY <1>1 DEF FrameOK, OnItsWay, Way!McpsReq
<1>3. Way!Mhr = 9
  BY Sizes DEF FrameOK
<1>4. Lies(b, <<MhrH(9)>> \o H2(fmt), N2(fmt, size) + 9, Way!McpsReq)
  BY <1>1, <1>2, <1>3, Lengths, LiesMore DEF MhrH
<1>5. Lies(b, H3(fmt, 9), N3(fmt, size), Way!McpsReq)
  BY <1>1, <1>4, Lengths, Here
<1>6. Good(b)
  BY <1>1, <1>2, <1>5, Lengths, LiesWell, Here
<1> HIDE DEF b
<1>7. buf' = b /\ harm' = {}
  BY <1>1, <1>6, WorkOne DEF FrameOK
<1>8. /\ fmt' \in Way!Formats /\ InPan(fmt') /\ (Way!Own(fmt) => Way!Own(fmt'))
      /\ Way!Mic(fmt') = Way!Mic(fmt) /\ H3(fmt', 9) = H3(fmt, 9) /\ N3(fmt', size) = N3(fmt, size)
  BY <1>1, Reformatted DEF FrameOK
<1>9. Told'
  BY <1>1, <1>8 DEF FrameOK, Told
<1>10. OnItsWay'
  BY <1>1, <1>5, <1>7, <1>8 DEF OnItsWay
<1> QED
  BY <1>1, <1>7, <1>8, <1>9, <1>10 DEF StepOK, FrameOK

\* A build that appends the FCS closes the frame with it.
LEMMA Closing ==
  ASSUME FrameOK, at # "app", NEW b, Lies(b, H3(fmt, 9), N3(fmt, size), 7)
  PROVE  Closed(Way!AllocRight(b, "fcs", 2), fmt, size)
<1>1. PICK o \in Nat : o + N3(fmt, size) <= 131 /\ Contents(b, o, N3(fmt, size), 7, H3(fmt, 9), << >>)
  BY DEF Lies
<1>2. Contents(Way!AllocRight(b, "fcs", 2), o, N3(fmt, size) + 2, 7, H3(fmt, 9), <<FcsT>> \o << >>)
  BY <1>1, Operations DEF FcsT
<1>3. <<FcsT>> \o << >> = <<FcsT>>
  BY Stacks, 9 \in Int, Zenon DEF FrameOK
<1> QED
  BY <1>1, <1>2, <1>3 DEF Closed

\* ... and cuts it from a frame that comes back.
LEMMA Opening ==
  ASSUME FrameOK, at # "app", NEW b, Closed(b, fmt, size)
  PROVE  Lies(Way!CutRight(b, "fcs", 2), H3(fmt, 9), N3(fmt, size), 7)
<1>1. PICK o \in Nat : /\ o + N3(fmt, size) <= 131
                       /\ Contents(b, o, N3(fmt, size) + 2, 7, H3(fmt, 9), <<FcsT>>)
  BY DEF Closed
<1>2. <<FcsT>> # << >> /\ Head(<<FcsT>>) = <<"fcs", 2>> /\ Tail(<<FcsT>>) = << >>
  BY Stacks, 9 \in Int, Zenon DEF FrameOK, FcsT
<1>3. Contents(Way!CutRight(b, "fcs", 2), o, (N3(fmt, size) + 2) - 2, 7, H3(fmt, 9), << >>)
  <2>1. Contents(Way!CutRight(b, "fcs", 2), o, (N3(fmt, size) + 2) - 2, 7, H3(fmt, 9),
              IF <<FcsT>> # <<>> /\ Head(<<FcsT>>) = <<"fcs", 2>> THEN Tail(<<FcsT>>) ELSE <<Way!Torn>>)
    BY <1>1, Operations, Zenon
  <2> QED
    BY <1>2, <2>1, Zenon
<1>4. (N3(fmt, size) + 2) - 2 = N3(fmt, size)
  BY Lengths
<1> QED
  BY <1>1, <1>3, <1>4 DEF Lies

\* The buffer of the MAC that the frame is encrypted into has room.
LEMMA RoomToEncrypt ==
  ASSUME FrameOK, at # "app", buf.len = N3(fmt, size), fmt.secured
  PROVE  Way!EncryptionRoom
<1> DEFINE n == buf.len - Way!Mhr + Way!ZB_CCM_M
           o == (148 - n) \div 2
<1>1. n \in Nat /\ n <= 116
  <2>1. Way!Mhr = 9 /\ Way!Mic(fmt) = 4
    BY Sizes DEF FrameOK
  <2> QED
    BY <2>1, Lengths DEF Way!ZB_CCM_M
<1>2. o \in Nat /\ o + n + 12 <= 148
  BY <1>1
<1> HIDE DEF n
<1>3. Contents(Way!InitialAlloc(n), o, n, 0, << >>, << >>)
  BY Allocated, ZenonT(30)
<1> HIDE DEF o
<1>4. /\ Way!InitialAlloc(n).off = o /\ Way!InitialAlloc(n).len = n /\ Way!InitialAlloc(n).param = 0
  BY <1>3, Fields
<1>5. Way!Sound(Way!InitialAlloc(n))
  BY <1>1, <1>2, <1>4 DEF Way!Sound, Way!ZB_IO_BUF_SIZE
<1>6. Way!InitialAlloc(n).off + Way!InitialAlloc(n).len - Way!ZB_CCM_M + 16 <= Way!ZB_IO_BUF_SIZE
  BY <1>1, <1>2, <1>4 DEF Way!ZB_CCM_M, Way!ZB_IO_BUF_SIZE
<1> QED
  BY <1>5, <1>6 DEF Way!EncryptionRoom, n

\* The frame goes on the air, encrypted in a buffer of the MAC.
LEMMA SendOK ==
  ASSUME FrameOK, Way!Send
  PROVE  StepOK
<1>1. /\ at \in {"send", "indirect"} /\ at' = "air" /\ air' = buf.len + Way!Mic(fmt) + Way!Fcs
      /\ buf' = IF fmt.fcs THEN Way!AllocRight(buf, "fcs", Way!Fcs) ELSE buf
      /\ harm' = harm \cup IF fmt.secured /\ ~Way!EncryptionRoom THEN {"encryption"} ELSE {}
      /\ UNCHANGED <<fmt, size, odd, resent, hops>>
  BY DEF Way!Send
<1>2. Lies(buf, H3(fmt, 9), N3(fmt, size), 7) /\ InPan(fmt)
  BY <1>1 DEF FrameOK, OnItsWay, Way!McpsReq
<1>3. buf.len = N3(fmt, size)
  <2>1. PICK o \in Nat : o + N3(fmt, size) <= 131 /\ Contents(buf, o, N3(fmt, size), 7, H3(fmt, 9), << >>)
    BY <1>2 DEF Lies
  <2> QED
    BY <2>1 DEF Contents
<1>4. harm' = {}
  BY <1>1, <1>3, RoomToEncrypt DEF FrameOK
<1>5. Complete(buf', fmt, size)
  BY <1>1, <1>2, Closing DEF Complete, Way!Fcs
<1>6. air' = AirLen(fmt, size)
  <2>1. MhrP(fmt) = 9
    BY <1>2, Sizes DEF FrameOK
  <2> QED
    BY <1>1, <1>3, <2>1, Lengths DEF AirLen, Way!Fcs
<1>7. Told' /\ OnItsWay'
  BY <1>1, <1>2, <1>5, <1>6 DEF FrameOK, Told, OnItsWay
<1> QED
  BY <1>1, <1>4, <1>7 DEF StepOK, FrameOK

\* The MHR of a complete frame is the one that was written.
LEMMA MhrIsThere ==
  ASSUME FrameOK, NEW o, NEW l, NEW p, NEW t, Contents(buf, o, l, p, H3(fmt, 9), t)
  PROVE  Way!MhrRead(buf) = {}
<1>1. buf.hdrs = H3(fmt, 9)
  BY DEF Contents
<1>2. Way!Mhr = 9
  BY Sizes DEF FrameOK
<1> QED
  BY <1>1, <1>2, Here DEF Way!MhrRead, MhrH

\* An indirect frame that nobody asked for still has its MHR.
LEMMA ExpireOK ==
  ASSUME FrameOK, Way!Expire
  PROVE  StepOK
<1>1. /\ at = "indirect" /\ at' = "forgotten" /\ harm' = harm \cup Way!MhrRead(buf)
      /\ UNCHANGED <<buf, fmt, size, air, odd, resent, hops>>
  BY DEF Way!Expire, Way!Goes
<1>2. Lies(buf, H3(fmt, 9), N3(fmt, size), Way!McpsReq)
  BY <1>1 DEF FrameOK, OnItsWay
<1>3. harm' = {}
  BY <1>1, <1>2, MhrIsThere DEF FrameOK, Lies
<1>4. Told' /\ OnItsWay'
  BY <1>1 DEF FrameOK, Told, OnItsWay
<1> QED
  BY <1>1, <1>3, <1>4 DEF StepOK, FrameOK

\* A frame that cannot be encrypted is forgotten, or confirmed without its FCS.
LEMMA NotEncryptedOK ==
  ASSUME FrameOK, Way!NotEncrypted
  PROVE  StepOK
<1>1. /\ (at = "send" /\ at' = "forgotten") \/ (at = "indirect" /\ at' = "sent")
      /\ odd' = odd \cup {"not encrypted"}
      /\ UNCHANGED <<buf, fmt, size, air, harm, resent, hops>>
  BY DEF Way!NotEncrypted, Way!Goes
<1>2. Lies(buf, H3(fmt, 9), N3(fmt, size), Way!McpsReq)
  BY <1>1 DEF FrameOK, OnItsWay
<1>3. fmt.fcs => Excuse'
  BY <1>1 DEF Excuse
<1>4. ~fmt.fcs => Complete(buf, fmt, size)
  BY <1>2 DEF Complete, Way!McpsReq
<1>5. Told' /\ OnItsWay'
  BY <1>1, <1>2, <1>3, <1>4 DEF FrameOK, Told, OnItsWay
<1> QED
  BY <1>1, <1>5 DEF StepOK, FrameOK

\* The confirm finds the MHR it reads the addresses of.
LEMMA McpsDataConfirmOK ==
  ASSUME FrameOK, Way!McpsDataConfirm
  PROVE  StepOK
<1>1. /\ at \in {"air", "sent"} /\ at' = (IF hops = 0 THEN "confirm" ELSE "freed")
      /\ harm' = harm \cup Way!MhrRead(buf)
      /\ UNCHANGED <<buf, fmt, size, air, odd, resent, hops>>
  BY DEF Way!McpsDataConfirm
<1>2. \/ Complete(buf, fmt, size)
      \/ Excuse /\ fmt.fcs /\ Lies(buf, H3(fmt, 9), N3(fmt, size), Way!McpsReq)
  BY <1>1 DEF FrameOK, OnItsWay
<1>3. Way!MhrRead(buf) = {}
  BY <1>2, MhrIsThere, Zenon DEF Complete, Closed, Lies
<1>4. harm' = {}
  BY <1>1, <1>3 DEF FrameOK
<1>5. hops = 0 => Way!Own(fmt)
  BY <1>1 DEF FrameOK, Told
<1>6. Excuse' = Excuse
  BY <1>1 DEF Excuse
<1>7. Told' /\ OnItsWay'
  BY <1>1, <1>2, <1>5, <1>6 DEF FrameOK, Told, OnItsWay
<1> QED
  BY <1>1, <1>4, <1>7 DEF StepOK, FrameOK

\* A broadcast gets the MHR and FCS for its confirm, which cuts them.
LEMMA BroadcastConfirmOK ==
  ASSUME FrameOK, Way!BroadcastConfirm
  PROVE  StepOK
<1> DEFINE b == IF fmt.fcs THEN Way!AllocRight(buf, "fcs", Way!Fcs) ELSE buf
           c == Way!AllocLeft(b, "mhr", Way!Mhr)
<1>1. /\ at = "mac" /\ at' = "sent" /\ Way!Work(<<b, c>>) /\ UNCHANGED <<fmt, size, air, odd, resent, hops>>
  BY DEF Way!BroadcastConfirm, Way!Goes
<1>2. Lies(buf, H2(fmt), N2(fmt, size), 7)
  BY <1>1 DEF FrameOK, OnItsWay, Way!McpsReq
<1>3. Way!Mhr = 9 /\ Way!Fcs = 2
  BY Sizes DEF FrameOK, Way!Fcs
<1>4. Good(b) /\ Good(c) /\ Complete(c, fmt, size)
  <2>1. CASE ~fmt.fcs
    <3>1. Lies(c, <<MhrH(9)>> \o H2(fmt), N2(fmt, size) + 9, 7)
      <4>1. N2(fmt, size) \in Nat /\ N2(fmt, size) + 9 <= 127
        BY <1>1, Lengths
      <4> QED
        BY <1>2, <1>3, <2>1, <4>1, LiesMore DEF MhrH
    <3>2. Lies(c, H3(fmt, 9), N3(fmt, size), 7)
      BY <1>1, <3>1, Lengths, Here
    <3>3. Good(b)
      BY <1>1, <1>2, <2>1, Lengths, LiesWell, Here
    <3>4. Good(c)
      BY <1>1, <3>2, Lengths, LiesWell, Here
    <3> QED
      BY <2>1, <3>2, <3>3, <3>4 DEF Complete
  <2>2. CASE fmt.fcs
    <3>1. PICK o \in Nat : o + N2(fmt, size) <= 131 /\ Contents(buf, o, N2(fmt, size), 7, H2(fmt), << >>)
      BY <1>2 DEF Lies
    <3>2. <<FcsT>> \o << >> = <<FcsT>> /\ Clean(<<FcsT>>)
      BY Stacks, 9 \in Int, Zenon DEF FrameOK
    <3>3. Contents(b, o, N2(fmt, size) + 2, 7, H2(fmt), <<FcsT>>)
      BY <1>3, <2>2, <3>1, <3>2, Operations DEF FcsT
    <3> HIDE DEF b
    <3>4. PICK m : m = IF o < 9 THEN 0 ELSE o - 9
      OBVIOUS
    <3>5. Contents(c, m, (N2(fmt, size) + 2) + 9, 7, <<MhrH(9)>> \o H2(fmt), <<FcsT>>)
      BY <1>3, <3>3, <3>4, Operations DEF MhrH
    <3>6. /\ N2(fmt, size) \in Nat /\ N3(fmt, size) \in Nat /\ N3(fmt, size) <= 125
          /\ (N2(fmt, size) + 2) + 9 = N3(fmt, size) + 2 /\ N3(fmt, size) = N2(fmt, size) + 9
      BY <1>1, Lengths
    <3>7. m \in Nat /\ m + N3(fmt, size) <= 131
      BY <3>1, <3>4, <3>6
    <3>8. Contents(c, m, N3(fmt, size) + 2, 7, H3(fmt, 9), <<FcsT>>)
      BY <3>5, <3>6, Here
    <3> HIDE DEF c
    <3>9. Good(b)
      <4>1. /\ N2(fmt, size) + 2 \in Nat /\ N2(fmt, size) + 2 < 148 /\ 7 \in Nat
            /\ o + (N2(fmt, size) + 2) + 7 <= 148
        BY <3>1, <3>6
      <4> QED
        BY <3>2, <3>3, <4>1, GoodIs, Here
    <3>10. Good(c)
      <4>1. /\ N3(fmt, size) + 2 \in Nat /\ N3(fmt, size) + 2 < 148 /\ 7 \in Nat
            /\ m + (N3(fmt, size) + 2) + 7 <= 148
        BY <3>6, <3>7
      <4> QED
        BY <3>2, <3>7, <3>8, <4>1, GoodIs, Here
    <3> QED
      BY <2>2, <3>7, <3>8, <3>9, <3>10 DEF Complete, Closed
  <2> QED
    BY <2>1, <2>2
<1> HIDE DEF b, c
<1>5. buf' = c /\ harm' = {}
  BY <1>1, <1>4, WorkTwo DEF FrameOK
<1>6. Told' /\ OnItsWay'
  BY <1>1, <1>4, <1>5 DEF FrameOK, Told, OnItsWay
<1> QED
  BY <1>1, <1>5, <1>6 DEF StepOK, FrameOK

\* The confirm cuts what is there, or it shows that the frame was never complete.
LEMMA NldeDataConfirmOK ==
  ASSUME FrameOK, Way!NldeDataConfirm
  PROVE  StepOK \/ (harm' # {} /\ Excuse' /\ fmt' = fmt /\ hops' = hops)
<1> DEFINE b == IF fmt.fcs THEN Way!CutRight(buf, "fcs", Way!Fcs) ELSE buf
           k == Way!MhrLength(fmt.src, fmt.dst, fmt.compressed)
           c == Way!CutLeft(b, "mhr", k)
           d == Way!CutLeft(c, "nwk", Way!NwkHdrSize(fmt))
<1>1. /\ at = "confirm" /\ at' = "confirmed" /\ Way!Work(<<b, c, d>>)
      /\ UNCHANGED <<fmt, size, air, odd, resent, hops>>
  BY DEF Way!NldeDataConfirm, Way!Goes
<1>2. harm = {} /\ Way!Fcs = 2 /\ fmt \in Way!Formats
  BY DEF FrameOK, Way!Fcs
<1>3. \/ Complete(buf, fmt, size) /\ Way!Own(fmt)
      \/ Excuse /\ fmt.fcs /\ Lies(buf, H3(fmt, 9), N3(fmt, size), 7)
      \/ Excuse /\ Lies(buf, H1(fmt), N1(fmt, size), Way!NldeReq)
  BY <1>1 DEF FrameOK, OnItsWay, Way!McpsReq
<1>4. CASE Complete(buf, fmt, size) /\ Way!Own(fmt)
  <2>1. Lies(b, H3(fmt, 9), N3(fmt, size), 7)
    BY <1>1, <1>2, <1>4, Opening DEF Complete
  <2>2. k = 9
    BY <1>2, <1>4, Sizes
  <2>3. /\ N3(fmt, size) \in Nat /\ 9 <= N3(fmt, size) /\ N3(fmt, size) - 9 = N2(fmt, size)
        /\ N2(fmt, size) \in Nat /\ Way!NwkHdrSize(fmt) \in Nat /\ Way!NwkHdrSize(fmt) <= N2(fmt, size)
        /\ N2(fmt, size) - Way!NwkHdrSize(fmt) = N1(fmt, size) /\ N1(fmt, size) \in Nat
        /\ 7 \in 0 .. 17
    BY <1>1, Lengths
  <2> HIDE DEF b, k
  <2>4. Lies(c, H2(fmt), N2(fmt, size), 7)
    BY <2>1, <2>2, <2>3, LiesLess, Here DEF MhrH
  <2> HIDE DEF c
  <2>5. Lies(d, H1(fmt), N1(fmt, size), 7)
    BY <2>3, <2>4, LiesLess, Here DEF NwkH
  <2> HIDE DEF d
  <2>6. Good(b) /\ Good(c) /\ Good(d)
    BY <2>1, <2>3, <2>4, <2>5, LiesWell, Here
  <2>7. buf' = d /\ harm' = {}
    BY <1>1, <1>2, <2>6, WorkThree
  <2>8. Told' /\ OnItsWay'
    BY <1>1, <2>5, <2>7 DEF FrameOK, Told, OnItsWay, Way!McpsReq
  <2> QED
    BY <1>1, <2>7, <2>8 DEF StepOK, FrameOK
<1>5. ASSUME Excuse, fmt.fcs, NEW h, NEW n, NEW p, Lies(buf, h, n, p), Clean(h)
      PROVE  harm' # {}
  <2>1. ~Intact(b.hdrs, b.trls)
    BY <1>2, <1>5, CutRightShows
  <2> HIDE DEF b, c, d
  <2> QED
    BY <1>1, <1>2, <2>1, WorkThree
<1>6. ASSUME ~fmt.fcs, Lies(buf, H1(fmt), N1(fmt, size), Way!NldeReq)
      PROVE  harm' # {}
  <2>1. Head(H1(fmt)) # <<"mhr", k>>
    BY Here DEF ApsH
  <2>2. ~Intact(c.hdrs, c.trls)
    BY <1>6, <2>1, CutLeftShows
  <2> HIDE DEF b, c, d
  <2> QED
    BY <1>1, <1>2, <2>2, WorkThree
<1>7. Excuse' = Excuse
  BY <1>1 DEF Excuse
<1> QED
  BY <1>1, <1>3, <1>4, <1>5, <1>6, <1>7, Here

\* Another stack sends a frame in any format that the radio takes.
LEMMA ForeignOK ==
  ASSUME FrameOK, Way!Foreign
  PROVE  StepOK
<1>1. /\ at = "app" /\ at' = "heard" /\ UNCHANGED <<fmt, odd, harm, resent>> /\ hops' = 1
  BY DEF Way!Foreign, Way!Goes
<1> DEFINE m == MhrP(fmt)
           len(n) == m + Way!NwkHdrSize(fmt) + Way!ApsHdr(fmt) + n
<1>2. PICK n \in Payloads :
        /\ len(n) + Way!Mic(fmt) + Way!Fcs <= Way!MAX_PHY_FRM_SIZE
        /\ size' = n /\ air' = len(n) + Way!Mic(fmt) + Way!Fcs
        /\ buf' = [Way!InitialAlloc(len(n)) EXCEPT !.hdrs =
                     <<<<"mhr", m>>, <<"nwk", Way!NwkHdrSize(fmt)>>, <<"aps", Way!ApsHdr(fmt)>>>>]
  BY DEF Way!Foreign, MhrP
<1>3. /\ n \in Nat /\ m \in 9 .. 23 /\ Way!NwkHdrSize(fmt) \in 8 .. 38 /\ Way!ApsHdr(fmt) \in 3 .. 9
      /\ Way!Mic(fmt) \in 0 .. 4
  BY FrameConstants, Sizes DEF FrameOK
<1> HIDE DEF m
<1>4. /\ air' = AirLen(fmt, size') /\ air' <= Way!MAX_PHY_FRM_SIZE
      /\ N3(fmt, n) + Way!Mic(fmt) + 2 <= Way!MAX_PHY_FRM_SIZE
  <2>1. AirLen(fmt, n) = m + (n + Way!ApsHdr(fmt) + Way!NwkHdrSize(fmt)) + Way!Mic(fmt) + 2
    BY DEF AirLen, N2, m
  <2>2. N3(fmt, n) = n + Way!ApsHdr(fmt) + Way!NwkHdrSize(fmt) + 9
    BY DEF N3
  <2>3. air' = m + Way!NwkHdrSize(fmt) + Way!ApsHdr(fmt) + n + Way!Mic(fmt) + 2 /\ air' <= 127
    BY <1>2 DEF Way!Fcs, Way!MAX_PHY_FRM_SIZE
  <2>4. air' = AirLen(fmt, n) /\ N3(fmt, n) + Way!Mic(fmt) + 2 <= 127
    BY <1>3, <2>1, <2>2, <2>3, SMTT(20)
  <2> QED
    BY <1>2, <2>3, <2>4 DEF Way!MAX_PHY_FRM_SIZE
<1>5. buf'.hdrs = H3(fmt, m)
  <2>1. PICK l : l = len(n)
    OBVIOUS
  <2> HIDE DEF len
  <2>2. buf' = [Way!InitialAlloc(l) EXCEPT !.hdrs = H3(fmt, m)]
    BY <1>2, <2>1 DEF H3, MhrH, NwkH, ApsH
  <2>3. Contents(Way!InitialAlloc(l), (148 - l) \div 2, l, 0, << >>, << >>)
    BY Allocated, Zenon
  <2>4. Contents(buf', (148 - l) \div 2, l, 0, H3(fmt, m), << >>)
    <3> DEFINE o == (148 - l) \div 2
    <3> HIDE DEF o
    <3>1. Contents(Way!InitialAlloc(l), o, l, 0, << >>, << >>)
      BY <2>3 DEF o
    <3>2. Contents(buf', o, l, 0, H3(fmt, m), << >>)
      BY <2>2, <3>1, Fields, Zenon
    <3> QED
      BY <3>2 DEF o
  <2> QED
    BY <2>4 DEF Contents
<1>6. Told'
  BY <1>1, <1>2, <1>3, <1>4 DEF Told
<1>7. OnItsWay'
  BY <1>1, <1>4, <1>5 DEF OnItsWay, m
<1> QED
  BY <1>1, <1>6, <1>7 DEF StepOK, FrameOK

\* What the transceiver and the security layer close a frame with.
TailT == <<"tail", 11>>
MicT == <<"mic", 4>>
\* Trailers, taken off one by one.
LEMMA Trailers ==
  ASSUME NEW f
  PROVE  /\ Clean(<<TailT>>) /\ Clean(<<MicT>>) /\ Clean(Tails(f))
         /\ Tails(f) # << >> /\ Head(Tails(f)) = TailT
         /\ Tail(Tails(f)) = IF f.secured THEN <<MicT>> ELSE << >>
         /\ <<MicT>> # << >> /\ Head(<<MicT>>) = MicT /\ Tail(<<MicT>>) = << >>
<1>1. TailT \in Layers /\ MicT \in Layers
  BY DEF TailT, MicT, Layers
<1>2. TailT # Way!Torn /\ MicT # Way!Torn
  BY DEF TailT, MicT, Way!Torn
<1>3. Tails(f) = IF f.secured THEN <<TailT, MicT>> ELSE <<TailT>>
  <2>1. Tails(f) = <<TailT>> \o IF f.secured THEN <<MicT>> ELSE << >>
    BY DEF Tails, TailT, MicT
  <2>2. <<TailT>> \o << >> = <<TailT>> /\ <<TailT>> \o <<MicT>> = <<TailT, MicT>>
    BY <1>1, Joined, Zenon
  <2> QED
    BY <2>1, <2>2, Zenon
<1>4. ASSUME NEW x \in Layers, NEW y \in Layers, x # Way!Torn, y # Way!Torn
      PROVE  Clean(<<x>>) /\ Clean(<<x, y>>)
  <2>1. Clean(<<x>>)
    BY <1>4 DEF Clean
  <2>2. Clean(<<x, y>>)
    BY <1>4 DEF Clean
  <2> QED
    BY <2>1, <2>2
<1>5. Clean(<<TailT>>) /\ Clean(<<MicT>>) /\ Clean(<<TailT, MicT>>)
  BY <1>1, <1>2, <1>4, Zenon
<1>6. /\ Head(<<TailT>>) = TailT /\ Head(<<TailT, MicT>>) = TailT /\ Head(<<MicT>>) = MicT
      /\ Tail(<<TailT>>) = << >> /\ Tail(<<TailT, MicT>>) = <<MicT>> /\ Tail(<<MicT>>) = << >>
      /\ <<TailT>> # << >> /\ <<MicT>> # << >> /\ <<TailT, MicT>> # << >>
  BY <1>1, Joined, Zenon
<1> QED
  BY <1>3, <1>5, <1>6, Zenon

\* The headers of a frame that was received.
LEMMA There ==
  ASSUME FrameOK, NEW n \in Int
  PROVE  /\ Clean(H3(fmt, n)) /\ <<MhrH(n)>> \o H2(fmt) = H3(fmt, n)
         /\ H3(fmt, n) # << >> /\ Head(H3(fmt, n)) = MhrH(n) /\ Tail(H3(fmt, n)) = H2(fmt)
BY Stacks, Zenon DEF FrameOK

\* The transceiver reads length, frame and its own bytes into a buffer.
LEMMA ReceiveOK ==
  ASSUME FrameOK, Way!Receive
  PROVE  StepOK
<1>1. /\ at \in {"air", "heard"} /\ at' = "mcps" /\ UNCHANGED <<fmt, size, air, odd, resent, hops>>
  BY DEF Way!Receive
<1> DEFINE n == air + 10
           o == (148 - n) \div 2
           r == Way!InitialAlloc(1 + air + 9)
           in == [r EXCEPT !.off = @ + 1, !.len = @ - 1, !.hdrs = buf.hdrs, !.trls = Tails(fmt)]
<1>2. Way!Work(<<in>>)
  BY DEF Way!Receive, Way!ZB_MAC_EXTRA_DATA_SIZE, Way!Fcs, Way!ZB_CCM_M, Tails
<1>3. buf.hdrs = H3(fmt, MhrP(fmt)) /\ air = AirLen(fmt, size) /\ air \in Nat /\ air <= 127
  <2>1. CASE at = "air"
    <3>1. Complete(buf, fmt, size) /\ InPan(fmt) /\ air = AirLen(fmt, size)
      BY <2>1 DEF FrameOK, OnItsWay
    <3>2. MhrP(fmt) = 9
      BY <3>1, Sizes DEF FrameOK
    <3>3. buf.hdrs = H3(fmt, 9)
      <4>1. ASSUME NEW q, NEW l, NEW p, NEW t, Contents(buf, q, l, p, H3(fmt, 9), t)
            PROVE  buf.hdrs = H3(fmt, 9)
        BY <4>1 DEF Contents
      <4> QED
        BY <3>1, <4>1, Zenon DEF Complete, Closed, Lies
    <3>4. air \in Nat /\ air <= 127
      BY <2>1, <3>1, <3>2, Lengths DEF AirLen
    <3> QED
      BY <3>1, <3>2, <3>3, <3>4
  <2>2. CASE at = "heard"
    <3>1. buf.hdrs = H3(fmt, MhrP(fmt)) /\ air = AirLen(fmt, size) /\ air <= 127
      BY <2>2 DEF FrameOK, OnItsWay, Way!MAX_PHY_FRM_SIZE
    <3>2. MhrP(fmt) \in 9 .. 23
      BY Sizes DEF FrameOK
    <3>3. air \in Nat
      BY <2>2, <3>1, <3>2, Lengths DEF AirLen
    <3> QED
      BY <3>1, <3>3
  <2> QED
    BY <1>1, <2>1, <2>2
<1>4. o + 1 \in Nat /\ o + 1 >= 1 /\ o + 1 + (air + 9) <= 142 /\ air + 9 < 148
  BY <1>3
<1>5. Contents(r, o, n, 0, << >>, << >>)
  <2>1. 1 + air + 9 = n
    BY <1>3
  <2> HIDE DEF n
  <2>2. r = Way!InitialAlloc(n)
    BY <2>1
  <2>3. Contents(Way!InitialAlloc(n), (148 - n) \div 2, n, 0, << >>, << >>)
    BY Allocated, Zenon
  <2> QED
    BY <2>2, <2>3
<1>6. Contents(in, o + 1, air + 9, 0, H3(fmt, MhrP(fmt)), Tails(fmt))
  <2>1. PICK x : x = o + 1
    OBVIOUS
  <2>2. PICK y : y = air + 9
    OBVIOUS
  <2>3. PICK h : h = H3(fmt, MhrP(fmt))
    OBVIOUS
  <2>4. PICK t : t = Tails(fmt)
    OBVIOUS
  <2>5. r.off = o /\ r.len = n /\ n - 1 = y
    <3>1. r.off = o /\ r.len = n
      BY <1>5 DEF Contents
    <3>2. n - 1 = y
      BY <1>3, <2>2
    <3> QED
      BY <3>1, <3>2
  <2> HIDE DEF o, n, r
  <2>6. in = [r EXCEPT !.off = x, !.len = y, !.hdrs = h, !.trls = t]
    BY <1>3, <2>1, <2>3, <2>4, <2>5
  <2> HIDE DEF in
  <2>7. PICK c : c = [r EXCEPT !.off = x, !.len = y, !.hdrs = h]
    OBVIOUS
  <2>8. in = [c EXCEPT !.trls = t]
    BY <2>6, <2>7
  <2>9. Contents(c, x, y, 0, h, << >>)
    BY <1>5, <2>7, LeftFields
  <2>10. Contents(in, x, y, 0, h, t)
    BY <2>8, <2>9, Fields
  <2> QED
    BY <2>1, <2>2, <2>3, <2>4, <2>10
<1> HIDE DEF in, r, n, o
<1>7. Good(in)
  <2>1. MhrP(fmt) \in Int
    BY Sizes DEF FrameOK
  <2>2. Clean(H3(fmt, MhrP(fmt))) /\ Clean(Tails(fmt))
    BY <2>1, There, Trailers, Zenon
  <2>3. o + 1 \in Nat /\ air + 9 \in Nat /\ 0 \in Nat /\ (o + 1) + (air + 9) + 0 <= 148 /\ air + 9 < 148
    BY <1>3, <1>4
  <2> QED
    BY <1>6, <2>2, <2>3, GoodIs
<1>8. buf' = in /\ harm' = {}
  BY <1>2, <1>7, WorkOne DEF FrameOK
<1>9. Arrived(in, fmt, size)
  <2>1. AirLen(fmt, size) = air
    BY <1>3
  <2> QED
    <3>1. PICK w \in Nat : w = o + 1
      BY <1>4
    <3>2. w >= 1 /\ w + AirLen(fmt, size) + 9 <= 142 /\ AirLen(fmt, size) <= 127
      BY <1>3, <1>4, <2>1, <3>1
    <3>3. Contents(in, w, AirLen(fmt, size) + 9, 0, H3(fmt, MhrP(fmt)), Tails(fmt))
      BY <1>6, <2>1, <3>1
    <3> QED
      BY <3>2, <3>3, Zenon DEF Arrived
<1>10. Told' /\ OnItsWay'
  BY <1>1, <1>8, <1>9 DEF FrameOK, Told, OnItsWay
<1> QED
  BY <1>1, <1>8, <1>10 DEF StepOK, FrameOK

\* Five buffers one after the other.
Five(s, a, b, c, d, e) == s = <<a, b>> \o <<c, d, e>>
\* A handler that works on five buffers.
LEMMA LastOfFive ==
  ASSUME NEW s, NEW a, NEW b, NEW c, NEW d, NEW e, Five(s, a, b, c, d, e)
  PROVE  (\A i \in DOMAIN s : s[i] \in {a, b, c, d, e}) /\ s[Len(s)] = e
<1>1. /\ DOMAIN s = 1 .. 5 /\ Len(s) = 5
      /\ s[1] = a /\ s[2] = b /\ s[3] = c /\ s[4] = d /\ s[5] = e
  BY DEF Five
<1>2. \A i \in 1 .. 5 : i = 1 \/ i = 2 \/ i = 3 \/ i = 4 \/ i = 5
  OBVIOUS
<1>3. \A i \in DOMAIN s : s[i] \in {a, b, c, d, e}
  BY <1>1, <1>2
<1>4. s[Len(s)] = e
  BY <1>1
<1> QED
  BY <1>3, <1>4

\* ... or on two.
LEMMA LastOfTwo ==
  ASSUME NEW a, NEW b
  PROVE  (\A i \in DOMAIN <<a, b>> : <<a, b>>[i] \in {a, b}) /\ <<a, b>>[Len(<<a, b>>)] = b
<1>1. (\A i \in DOMAIN <<a, b>> : <<a, b>>[i] \in {a, b}) /\ <<a, b>>[Len(<<a, b>>)] = b
  OBVIOUS
<1> QED
  BY <1>1, Zenon

\* The hack of zb_nwk_unsecure_frame leaves the frame where it was.
LEMMA UnsecuredOK ==
  ASSUME FrameOK, at # "app", NEW m \in 9 .. 23, NEW b, NEW o \in Nat, o >= m + 1,
         o + N2(fmt, size) + 4 <= 131,
         Contents(b, o, N2(fmt, size) + 4, 0, H2(fmt), <<MicT>>), N2(fmt, size) + 4 + m <= 126
  PROVE  LET p == Way!CutRight(b, "mic", Way!ZB_CCM_M)
             h == Way!AllocLeft(p, "mhr", m + 1)
             u == Way!CutLeft(h, "mhr", m + 1)
         IN  /\ Way!Unsecured(b, m) = <<p, h, u>> /\ Good(p) /\ Good(h) /\ Good(u)
             /\ Lies(u, H2(fmt), N2(fmt, size), 0)
<1> DEFINE n == N2(fmt, size)
           p == Way!CutRight(b, "mic", Way!ZB_CCM_M)
           h == Way!AllocLeft(p, "mhr", m + 1)
           u == Way!CutLeft(h, "mhr", m + 1)
<1>1. Way!Unsecured(b, m) = <<p, h, u>>
  BY DEF Way!Unsecured
<1>2. n \in Nat /\ 0 \in Nat
  BY Lengths
<1>3. Lies(p, H2(fmt), n, 0)
  <2>1. <<MicT>> # << >> /\ Head(<<MicT>>) = <<"mic", Way!ZB_CCM_M>> /\ Tail(<<MicT>>) = << >>
    BY Trailers, Zenon DEF MicT, Way!ZB_CCM_M
  <2>2. Contents(p, o, (n + 4) - Way!ZB_CCM_M, 0, H2(fmt),
              IF <<MicT>> # <<>> /\ Head(<<MicT>>) = <<"mic", Way!ZB_CCM_M>> THEN Tail(<<MicT>>) ELSE <<Way!Torn>>)
    BY Operations, Zenon
  <2>3. Contents(p, o, (n + 4) - Way!ZB_CCM_M, 0, H2(fmt), << >>)
    BY <2>1, <2>2, Zenon
  <2> HIDE DEF p
  <2>4. (n + 4) - Way!ZB_CCM_M = n /\ o + n <= 131
    BY <1>2 DEF Way!ZB_CCM_M
  <2> HIDE DEF n
  <2> QED
    BY <2>3, <2>4 DEF Lies
<1> HIDE DEF n, p
<1>4. n + (m + 1) <= 127 /\ m + 1 \in Nat /\ n + (m + 1) \in Nat
  BY <1>2 DEF n
<1>8. m + 1 \in Int
  OBVIOUS
<1>9. /\ Clean(H3(fmt, m + 1)) /\ H3(fmt, m + 1) # << >>
      /\ Head(H3(fmt, m + 1)) = MhrH(m + 1) /\ Tail(H3(fmt, m + 1)) = H2(fmt)
  BY <1>8, There, Zenon
<1>5. Lies(h, H3(fmt, m + 1), n + (m + 1), 0)
  <2>1. <<MhrH(m + 1)>> \o H2(fmt) = H3(fmt, m + 1)
    BY <1>4, There
  <2> QED
    BY <1>2, <1>3, <1>4, <2>1, LiesMore DEF MhrH
<1> HIDE DEF h
<1>6. Lies(u, H2(fmt), n, 0)
  <2>1. /\ H3(fmt, m + 1) # << >> /\ Head(H3(fmt, m + 1)) = <<"mhr", m + 1>>
        /\ Tail(H3(fmt, m + 1)) = H2(fmt)
    BY <1>9, Zenon DEF MhrH
  <2>2. m + 1 <= n + (m + 1) /\ (n + (m + 1)) - (m + 1) = n
    BY <1>2
  <2>3. Lies(u, Tail(H3(fmt, m + 1)), (n + (m + 1)) - (m + 1), 0)
    BY <1>4, <1>5, <2>1, <2>2, LiesLess
  <2> QED
    BY <2>1, <2>2, <2>3
<1> HIDE DEF u
<1>7. Good(p) /\ Good(h) /\ Good(u)
  <2>1. Clean(H2(fmt)) /\ Clean(H3(fmt, m + 1)) /\ 0 \in 0 .. 17
    BY <1>9, Here
  <2> QED
    BY <1>2, <1>3, <1>4, <1>5, <1>6, <2>1, LiesWell
<1> QED
  BY <1>1, <1>6, <1>7 DEF p, h, u, n

\* The MAC tail and the MHR are cut, and of a secured frame the MIC.
LEMMA McpsDataIndicationOK ==
  ASSUME FrameOK, Way!McpsDataIndication
  PROVE  StepOK
<1> DEFINE m == Way!MhrParsed(fmt.src, fmt.dst, fmt.compressed)
           short == Way!CutRight(buf, "tail", Way!Fcs + Way!ZB_MAC_EXTRA_DATA_SIZE)
           nsdu == Way!CutLeft(short, "mhr", m)
           plain == IF fmt.secured THEN <<short, nsdu>> \o Way!Unsecured(nsdu, m) ELSE <<short, nsdu>>
           n == N2(fmt, size)
           k == Way!Mic(fmt)
<1>1. /\ at = "mcps" /\ at' = "nlde" /\ UNCHANGED <<fmt, size, air, odd, resent, hops>>
      /\ buf' = plain[Len(plain)]
      /\ harm' = harm \cup (IF \A i \in DOMAIN plain : Way!Sound(plain[i]) THEN {} ELSE {"bounds"})
                      \cup (IF Way!Torn \in Way!Range(plain[Len(plain)].hdrs \o plain[Len(plain)].trls)
                            THEN {"cut"} ELSE {})
                      \cup (IF fmt.secured /\ nsdu.off < m + 1 THEN {"moved"} ELSE {})
  BY DEF Way!McpsDataIndication
<1>2. m = MhrP(fmt) /\ m \in 9 .. 23 /\ k = IF fmt.secured THEN 4 ELSE 0
  BY Sizes DEF FrameOK, MhrP
<1>3. PICK o \in Nat : /\ o >= 1 /\ o + AirLen(fmt, size) + 9 <= 142 /\ AirLen(fmt, size) <= 127
                       /\ Contents(buf, o, AirLen(fmt, size) + 9, 0, H3(fmt, m), Tails(fmt))
  BY <1>1, <1>2 DEF FrameOK, OnItsWay, Arrived
<1> HIDE DEF m
<1>4. n \in Nat /\ k \in 0 .. 4 /\ n + 9 + k <= 125 /\ AirLen(fmt, size) = m + n + k + 2
  <2>1. AirLen(fmt, size) = m + n + k + 2
    BY <1>2 DEF AirLen
  <2> QED
    BY <1>1, <2>1, Lengths
<1> HIDE DEF n, k
<1>5. /\ Tails(fmt) # << >> /\ Head(Tails(fmt)) = TailT
      /\ Tail(Tails(fmt)) = IF fmt.secured THEN <<MicT>> ELSE << >>
      /\ Clean(Tail(Tails(fmt)))
  BY Trailers, CleanEmpty, Zenon
<1>6. /\ Clean(H3(fmt, m)) /\ H3(fmt, m) # << >> /\ Head(H3(fmt, m)) = MhrH(m)
      /\ Tail(H3(fmt, m)) = H2(fmt) /\ Clean(H2(fmt))
  <2>1. m \in Int
    BY <1>2
  <2> QED
    BY <2>1, There, Here, Zenon
<1>7. Contents(short, o, m + n + k, 0, H3(fmt, m), Tail(Tails(fmt)))
  <2>1. Way!Fcs + Way!ZB_MAC_EXTRA_DATA_SIZE = 11
    BY DEF Way!Fcs, Way!ZB_MAC_EXTRA_DATA_SIZE
  <2>2. PICK l : l = AirLen(fmt, size) + 9
    OBVIOUS
  <2>3. l - 11 = m + n + k
    BY <1>2, <1>4, <2>2
  <2>4. short = Way!CutRight(buf, "tail", 11)
    BY <2>1
  <2> HIDE DEF short
  <2>5. Contents(short, o, l - 11, 0, H3(fmt, m),
              IF Tails(fmt) # <<>> /\ Head(Tails(fmt)) = <<"tail", 11>> THEN Tail(Tails(fmt)) ELSE <<Way!Torn>>)
    BY <1>3, <2>2, <2>4, Operations, Zenon
  <2> QED
    BY <1>5, <2>3, <2>5, Zenon DEF TailT
<1> HIDE DEF short
<1>8. Contents(nsdu, o + m, n + k, 0, H2(fmt), Tail(Tails(fmt)))
  <2>1. PICK l : l = m + n + k
    OBVIOUS
  <2>2. l - m = n + k
    BY <1>2, <1>4, <2>1
  <2>3. Contents(nsdu, o + m, l - m, 0,
              IF H3(fmt, m) # <<>> /\ Head(H3(fmt, m)) = <<"mhr", m>> THEN Tail(H3(fmt, m)) ELSE <<Way!Torn>>,
              Tail(Tails(fmt)))
    BY <1>7, <2>1, Operations, Zenon
  <2> QED
    BY <1>6, <2>2, <2>3, Zenon DEF MhrH
<1> HIDE DEF nsdu
<1>9. Good(short) /\ Good(nsdu) /\ nsdu.off = o + m /\ o + m \in Nat /\ o + m >= m + 1
      /\ o + m + n + k <= 131
  <2>1. /\ m + n + k \in Nat /\ m + n + k < 148 /\ o + (m + n + k) + 0 <= 148 /\ 0 \in Nat
        /\ n + k \in Nat /\ n + k < 148 /\ o + m \in Nat /\ (o + m) + (n + k) + 0 <= 148
        /\ o + m >= m + 1 /\ o + m + n + k <= 131
    BY <1>2, <1>3, <1>4
  <2>2. Good(short)
    BY <1>5, <1>6, <1>7, <2>1, GoodIs
  <2>3. Good(nsdu)
    BY <1>5, <1>6, <1>8, <2>1, GoodIs
  <2>4. nsdu.off = o + m
    BY <1>8 DEF Contents
  <2> QED
    BY <2>1, <2>2, <2>3, <2>4
<1>10. (\A i \in DOMAIN plain : Good(plain[i])) /\ Lies(plain[Len(plain)], H2(fmt), n, 0) /\ Good(plain[Len(plain)])
  <2>1. CASE ~fmt.secured
    <3>1. plain = <<short, nsdu>>
      BY <2>1
    <3> HIDE DEF plain
    <3>2. (\A i \in DOMAIN plain : plain[i] \in {short, nsdu}) /\ plain[Len(plain)] = nsdu
      BY <3>1, LastOfTwo, Zenon
    <3>3. Lies(nsdu, H2(fmt), n, 0)
      <4>1. n + k = n /\ (o + m) + n <= 131 /\ o + m \in Nat
        BY <1>2, <1>4, <1>9, <2>1
      <4>2. Contents(nsdu, o + m, n, 0, H2(fmt), << >>)
        BY <1>5, <1>8, <2>1, <4>1
      <4>3. PICK w : w = o + m
        OBVIOUS
      <4> QED
        BY <4>1, <4>2, <4>3 DEF Lies
    <3> QED
      BY <1>9, <3>2, <3>3
  <2>2. CASE fmt.secured
    <3>1. PICK w \in Nat : w = o + m
      BY <1>9
    <3>2. /\ k = 4 /\ w >= m + 1 /\ w + n + 4 <= 131 /\ n + 4 + m <= 126
      <4>1. k = 4 /\ w >= m + 1
        BY <1>2, <1>9, <2>2, <3>1
      <4>2. w + n + 4 <= 131
        BY <1>4, <1>9, <3>1, <4>1
      <4>3. n + 4 + m <= 126
        BY <1>2, <1>3, <1>4, <4>1
      <4> QED
        BY <4>1, <4>2, <4>3
    <3>3. Contents(nsdu, w, n + 4, 0, H2(fmt), <<MicT>>)
      BY <1>5, <1>8, <2>2, <3>1, <3>2
    <3>4. PICK p, h, u : /\ Way!Unsecured(nsdu, m) = <<p, h, u>> /\ Good(p) /\ Good(h) /\ Good(u)
                         /\ Lies(u, H2(fmt), n, 0)
      BY <1>1, <1>2, <3>2, <3>3, UnsecuredOK DEF n
    <3>5. plain = <<short, nsdu>> \o <<p, h, u>>
      BY <2>2, <3>4
    <3> HIDE DEF plain
    <3>6. (\A i \in DOMAIN plain : plain[i] \in {short, nsdu, p, h, u}) /\ plain[Len(plain)] = u
      <4>1. Five(plain, short, nsdu, p, h, u)
        BY <3>5, Zenon DEF Five
      <4> QED
        BY <4>1, LastOfFive, Zenon
    <3> QED
      BY <1>9, <3>4, <3>6
  <2> QED
    BY <2>1, <2>2
<1> HIDE DEF plain
<1>11. harm' = {}
  <2>1. \A i \in DOMAIN plain : Way!Sound(plain[i])
    BY <1>10 DEF Good
  <2>2. Way!Torn \notin Way!Range(plain[Len(plain)].hdrs \o plain[Len(plain)].trls)
    BY <1>10, Zenon DEF Good, Intact
  <2>3. ~(nsdu.off < m + 1)
    BY <1>2, <1>3, <1>9
  <2> QED
    BY <1>1, <2>1, <2>2, <2>3 DEF FrameOK
<1>12. Told' /\ OnItsWay'
  BY <1>1, <1>10 DEF FrameOK, Told, OnItsWay, n
<1> QED
  BY <1>1, <1>11, <1>12 DEF StepOK, FrameOK

\* Where the frame leaves room, the parameters of the next layer do not move it.
LEMMA LiesAssign ==
  ASSUME NEW b, NEW h, NEW n \in Nat, NEW p, Lies(b, h, n, p), NEW q \in 0 .. 17
  PROVE  Lies(Way!AssignParam(b, q), h, n, q)
<1>1. PICK o \in Nat : o + n <= 131 /\ Contents(b, o, n, p, h, << >>)
  BY DEF Lies
<1>2. b.off = o /\ b.len = n
  BY <1>1 DEF Contents
<1>3. ~(Way!ZB_IO_BUF_SIZE - (b.off + b.len) < q)
  BY <1>1, <1>2 DEF Way!ZB_IO_BUF_SIZE
<1>4. PICK c : c = [b EXCEPT !.off = o]
  OBVIOUS
<1>5. Way!AssignParam(b, q) = [c EXCEPT !.param = q]
  BY <1>2, <1>3, <1>4 DEF Way!AssignParam
<1>6. Contents(c, o, n, p, h, << >>)
  BY <1>1, <1>4, Fields
<1>7. Contents(Way!AssignParam(b, q), o, n, q, h, << >>)
  <2>1. Contents([c EXCEPT !.param = q], o, n, q, h, << >>)
    BY <1>6, Fields
  <2> QED
    BY <1>5, <2>1, Zenon
<1> QED
  BY <1>1, <1>7 DEF Lies

\* The NWK header becomes a parameter, for which there is room.
LEMMA NldeDataIndicationOK ==
  ASSUME FrameOK, Way!NldeDataIndication
  PROVE  StepOK
<1> DEFINE b == Way!CutLeft(buf, "nwk", Way!NwkHdrSize(fmt))
           c == Way!AssignParam(b, Way!ApsInd)
<1>1. /\ at = "nlde" /\ at' = "ind" /\ Way!Work(<<b, c>>) /\ UNCHANGED <<fmt, size, air, odd, resent, hops>>
  BY DEF Way!NldeDataIndication, Way!Goes
<1>2. Lies(buf, H2(fmt), N2(fmt, size), 0)
  BY <1>1 DEF FrameOK, OnItsWay
<1>3. /\ N2(fmt, size) \in Nat /\ Way!NwkHdrSize(fmt) \in Nat /\ Way!NwkHdrSize(fmt) <= N2(fmt, size)
      /\ N2(fmt, size) - Way!NwkHdrSize(fmt) = N1(fmt, size) /\ N1(fmt, size) \in Nat
      /\ 0 \in 0 .. 17 /\ Way!ApsInd \in 0 .. 17
  BY <1>1, Lengths DEF Way!ApsInd
<1>4. Lies(b, H1(fmt), N1(fmt, size), 0)
  BY <1>2, <1>3, LiesLess, Here DEF NwkH
<1> HIDE DEF b
<1>5. Lies(c, H1(fmt), N1(fmt, size), Way!ApsInd)
  BY <1>3, <1>4, LiesAssign
<1> HIDE DEF c
<1>6. Good(b) /\ Good(c)
  BY <1>3, <1>4, <1>5, LiesWell, Here
<1>7. buf' = c /\ harm' = {}
  BY <1>1, <1>6, WorkTwo DEF FrameOK
<1>8. Told' /\ OnItsWay'
  BY <1>1, <1>5, <1>7 DEF FrameOK, Told, OnItsWay
<1> QED
  BY <1>1, <1>7, <1>8 DEF StepOK, FrameOK

\* The APS header is cut as it was filled.
LEMMA CutApsHdrOK ==
  ASSUME FrameOK, Way!CutApsHdr
  PROVE  StepOK
<1> DEFINE b == Way!CutLeft(buf, "aps", IF fmt.command THEN 2 + 1 ELSE Way!ApsHdrSize(fmt))
<1>1. /\ at = "ind" /\ at' = "delivered" /\ Way!Work(<<b>>) /\ UNCHANGED <<fmt, size, air, odd, resent, hops>>
  BY DEF Way!CutApsHdr, Way!Goes
<1>2. Lies(buf, H1(fmt), N1(fmt, size), Way!ApsInd)
  BY <1>1 DEF FrameOK, OnItsWay
<1>3. b = Way!CutLeft(buf, "aps", Way!ApsHdr(fmt))
  <2>1. (IF fmt.command THEN 2 + 1 ELSE Way!ApsHdrSize(fmt)) = Way!ApsHdr(fmt)
    BY Sizes DEF FrameOK
  <2> QED
    BY <2>1
<1> HIDE DEF b
<1>4. /\ N1(fmt, size) \in Nat /\ Way!ApsHdr(fmt) \in Nat /\ Way!ApsHdr(fmt) <= N1(fmt, size)
      /\ N1(fmt, size) - Way!ApsHdr(fmt) = size /\ size \in Nat /\ Way!ApsInd \in 0 .. 17
  BY <1>1, Lengths DEF Way!ApsInd
<1>5. Lies(b, << >>, size, Way!ApsInd)
  BY <1>2, <1>3, <1>4, LiesLess, Here DEF ApsH
<1>6. Good(b)
  BY <1>4, <1>5, LiesWell, CleanEmpty
<1>7. buf' = b /\ harm' = {}
  BY <1>1, <1>6, WorkOne DEF FrameOK
<1>8. Told' /\ OnItsWay'
  BY <1>1, <1>5, <1>7 DEF FrameOK, Told, OnItsWay
<1> QED
  BY <1>1, <1>7, <1>8 DEF StepOK, FrameOK

\* What went wrong stays so, and what excuses it too.
LEMMA HarmStays ==
  ASSUME fmt \in Way!Formats, hops \in Nat, Way!Next
  PROVE  /\ harm \subseteq harm' /\ odd \subseteq odd' /\ fmt'.fcs = fmt.fcs
         /\ fmt' \in Way!Formats /\ hops' \in Nat
<1>1. ASSUME NEW bs, Way!Work(bs)
      PROVE  harm \subseteq harm'
  BY <1>1, Zenon DEF Way!Work
<1>2. CASE Way!Compose \/ Way!DataRequest \/ Way!NldeDataRequest \/ Way!Forward \/ Way!BroadcastConfirm
  BY <1>1, <1>2 DEF Way!Compose, Way!DataRequest, Way!NldeDataRequest, Way!Forward, Way!BroadcastConfirm
<1>3. CASE Way!NldeDataConfirm \/ Way!Resend \/ Way!Receive \/ Way!NldeDataIndication \/ Way!CutApsHdr
  BY <1>1, <1>3 DEF Way!NldeDataConfirm, Way!Resend, Way!Receive, Way!NldeDataIndication, Way!CutApsHdr
<1>4. CASE Way!NotJoined \/ Way!Expire \/ Way!NotEncrypted \/ Way!McpsDataConfirm
  BY <1>4 DEF Way!NotJoined, Way!Expire, Way!NotEncrypted, Way!McpsDataConfirm
<1>8. CASE Way!Send
  BY <1>8 DEF Way!Send
<1>9. CASE Way!Foreign
  BY <1>9 DEF Way!Foreign
<1>5. CASE Way!McpsDataIndication
  <2>1. harm \subseteq harm' /\ UNCHANGED <<fmt, odd, hops>>
    BY <1>5, Zenon DEF Way!McpsDataIndication
  <2> QED
    BY <2>1
<1>6. CASE Way!FillHdr
  <2>1. fmt' \in Way!Formats /\ fmt'.fcs = fmt.fcs
    BY <1>6, Reformatted DEF Way!FillHdr
  <2> QED
    BY <1>1, <1>6, <2>1 DEF Way!FillHdr
<1>7. CASE Way!Route
  BY <1>1, <1>7 DEF Way!Route
<1> QED
  BY <1>2, <1>3, <1>4, <1>5, <1>6, <1>7, <1>8, <1>9 DEF Way!Next

\* Every step of the frame, and every step of the other parts.
LEMMA FrameStep ==
  ASSUME FrameInv, [MCNext]_MCVars
  PROVE  FrameInv'
<1>4. [Way!Next]_(Way!vars)
  BY DEF MCNext, MCVars, wayVars, Way!vars
<1>1. CASE UNCHANGED Way!vars
  <2>1. UNCHANGED <<at, buf, fmt, size, air, odd, harm, hops>>
    BY <1>1 DEF Way!vars
  <2>2. Excuse' = Excuse /\ Told' = Told
    BY <2>1 DEF Excuse, Told
  <2>3. OnItsWay => OnItsWay'
    BY <2>1, <2>2 DEF OnItsWay
  <2> QED
    BY <2>1, <2>2, <2>3 DEF FrameInv
<1>2. CASE Way!Next /\ harm # {}
  <2>1. Excuse'
    BY <1>2, HarmStays DEF FrameInv, Excuse
  <2>2. harm' # {} /\ fmt' \in Way!Formats /\ hops' \in Nat
    BY <1>2, HarmStays DEF FrameInv
  <2> QED
    BY <2>1, <2>2 DEF FrameInv
<1>3. CASE Way!Next /\ harm = {}
  <2>1. FrameOK
    BY <1>3 DEF FrameInv, FrameOK
  <2>2. StepOK \/ (harm' # {} /\ Excuse' /\ fmt' = fmt /\ hops' = hops)
    BY <1>3, <2>1, ComposeOK, DataRequestOK, NldeDataRequestOK, NotJoinedOK, ForwardOK, FillHdrOK,
       SendOK, ExpireOK, NotEncryptedOK, McpsDataConfirmOK, BroadcastConfirmOK, NldeDataConfirmOK, ResendOK,
       ForeignOK, ReceiveOK, McpsDataIndicationOK, RouteOK, NldeDataIndicationOK, CutApsHdrOK,
       Zenon DEF Way!Next
  <2> QED
    BY <1>3, <2>2, HarmStays DEF FrameInv, StepOK, FrameOK
<1> QED
  BY <1>1, <1>2, <1>3, <1>4

\* A frame not yet composed.
LEMMA FrameInit ==
  ASSUME Way!Init
  PROVE  FrameInv
BY DEF Way!Init, FrameInv, Told, OnItsWay

\* Where a frame lies as it should, what is delivered is its payload alone, and what is
\* confirmed is the APS frame alone.
LEMMA FrameImplies ==
  ASSUME FrameInv
  PROVE  Way!FrameRight
<1>1. harm # {} => "not joined" \in odd \/ ("not encrypted" \in odd /\ fmt.fcs)
  BY DEF FrameInv, Excuse
<1>2. ASSUME NEW h, NEW n, NEW p, Lies(buf, h, n, p)
      PROVE  buf.hdrs = h /\ buf.trls = << >> /\ buf.len = n
  <2>1. PICK o \in Nat : o + n <= 131 /\ Contents(buf, o, n, p, h, << >>)
    BY <1>2 DEF Lies
  <2> QED
    BY <2>1 DEF Contents
<1>3. CASE at = "delivered" /\ harm = {}
  <2>1. Lies(buf, << >>, size, Way!ApsInd)
    BY <1>3 DEF FrameInv, OnItsWay
  <2> QED
    BY <1>2, <1>3, <2>1 DEF Way!FrameRight
<1>4. CASE at = "confirmed" /\ harm = {}
  <2>1. Lies(buf, H1(fmt), N1(fmt, size), Way!McpsReq)
    BY <1>4 DEF FrameInv, OnItsWay
  <2>2. buf.hdrs = H1(fmt) /\ buf.trls = << >> /\ buf.len = N1(fmt, size)
    BY <1>2, <2>1
  <2> QED
    BY <1>4, <2>2 DEF Way!FrameRight, H1, ApsH, N1
<1> QED
  BY <1>1, <1>3, <1>4 DEF Way!FrameRight

\* Every layer finds its headers where the layer before it left them, no move of the data
\* overwrites a parameter, the receiver gets the payload and nothing else, and the sender
\* gets back the APS frame it sent: for payloads of any length that fits the radio, any
\* number of routers and retransmissions, and every format that another stack may use.
THEOREM SpecFrameRight == MCSpec => []FrameRight
<1>1. MCInit => FrameInv
  BY FrameInit DEF MCInit
<1>2. FrameInv /\ [MCNext]_MCVars => FrameInv'
  BY FrameStep
<1>3. FrameInv => FrameRight
  BY FrameImplies DEF FrameRight
<1> QED
  BY <1>1, <1>2, <1>3, PTL DEF MCSpec

-----------------------------------------------------------------------------
(* A parent and its children: induction over its recursive functions.       *)

\* Induction: a set of numbers without a first one is empty.
LEMMA NoFirst ==
  ASSUME NEW S \in SUBSET Nat, \A k \in S : k # 0 /\ k - 1 \in S
  PROVE  S = {}
<1>1. SUFFICES ASSUME S # {} PROVE FALSE
  OBVIOUS
<1>2. PICK k \in S : \A j \in S : k <= j
  BY <1>1, FirstOf
<1>3. k - 1 \in S /\ k \in Nat
  BY <1>2
<1> QED
  BY <1>2, <1>3

-----------------------------------------------------------------------------
(* What holds. *)

\* The address table: one entry for a device; entries of routers that were only heard have
\* one of their addresses each.
AddrOK(a) ==
  /\ a \in [Refs -> Address]
  /\ \A r \in Refs : a[r].used /\ a[r].dev = NoDev => a[r].short \in Routers
  /\ \A r, q \in Refs : /\ a[r].used /\ a[q].used /\ a[r].dev = a[q].dev
                        /\ a[r].dev = NoDev => a[r].short = a[q].short
                        => r = q

\* A neighbor table and its index.
IndexOK(nbr, idx, used) ==
  /\ nbr \in [NbtSlots -> Entry] /\ idx \in [Refs -> NbtSlots \cup {NoSlot}] /\ used \in 0 .. NbtSize
  /\ \A r \in Refs : idx[r] # NoSlot => nbr[idx[r]].used /\ nbr[idx[r]].ref = r
  /\ \A n \in NbtSlots : nbr[n].used => idx[nbr[n].ref] = n /\ n < used

OnWay(resps) == UNION {{d} \X (1 .. resps[d]) : d \in Dev}

RestOK ==
  /\ ed_child_num \in Nat /\ router_child_num \in Nat
  /\ base_size \in 0 .. NbtSize /\ ext \in Seq(Routers \cup Strangers)
  /\ rejoin_tbl \in Seq(Nat) /\ rejoin_resps \in [Dev -> Nat]
  /\ IsFiniteSet(OnWay(rejoin_resps)) /\ Cardinality(OnWay(rejoin_resps)) = Len(rejoin_tbl)

TableOK == IndexOK(base_neighbor, addr_to_neighbor, base_used)

Books == AddrOK(addr) /\ TableOK /\ RestOK

ParentInv == PermitAlarmOwn /\ (~fault => Books)

LEMMA ParentConstants ==
  /\ IsFiniteSet(Dev) /\ IsFiniteSet(Routers) /\ IsFiniteSet(Refs)
  /\ Cardinality(Refs) >= Cardinality(Dev) + Cardinality(Routers)
  /\ Refs # {} /\ Refs \subseteq Nat /\ 0 \in Refs /\ Routers \subseteq Nat
  /\ \A d \in Dev : Foreign[d] \subseteq Nat
  /\ NbrBytes \in Nat /\ ExtBytes \in Nat
  /\ NbtSize \in Nat /\ NbtSize >= 2 /\ NbtSlots = 0 .. NbtSize - 1
  /\ {MaxChildren, MaxRouters, CSkip, RejoinSize} \subseteq Nat
  /\ NoDev \notin Dev /\ NoSlot \notin NbtSlots
<1>1. Cardinality(Refs) \in Nat
  BY ParentAssumption, FS_CardinalityType
<1>2. Refs \subseteq Nat /\ 0 \in Refs
  BY <1>1, ParentAssumption
<1>3. {MaxChildren, MaxRouters, CSkip, RejoinSize} \subseteq Nat
  <2>1. 0 .. 255 \subseteq Nat
    OBVIOUS
  <2>2. {MaxChildren, MaxRouters, CSkip, RejoinSize} \subseteq 0 .. 255
    BY ParentAssumption
  <2> QED
    BY <2>1, <2>2
<1>4. NbtSize \in Nat /\ NbtSize >= 2 /\ NbrBytes \in Nat /\ ExtBytes \in Nat
  BY ParentAssumption
<1>5. NoDev \notin Dev /\ NoSlot \notin NbtSlots /\ NbtSlots = 0 .. NbtSize - 1
  BY ParentAssumption DEF NbtSlots
<1>6. /\ IsFiniteSet(Dev) /\ IsFiniteSet(Routers) /\ IsFiniteSet(Refs) /\ Refs # {}
      /\ Cardinality(Refs) >= Cardinality(Dev) + Cardinality(Routers)
      /\ Routers \subseteq Nat /\ \A d \in Dev : Foreign[d] \subseteq Nat
  BY ParentAssumption
<1> QED
  BY <1>2, <1>3, <1>4, <1>5, <1>6

LEMMA FirstIn ==
  ASSUME NEW S, S \subseteq Refs, S # {}
  PROVE  Lowest(S) \in S
<1>1. S \in SUBSET Nat
  BY ParentConstants
<1>2. \E i \in S : \A j \in S : i <= j
  BY <1>1, FirstOf
<1> QED
  BY <1>2 DEF Lowest

-----------------------------------------------------------------------------
(* The address table. *)

\* There is a free entry for a device or a router that has none.
LEMMA FreeEntry ==
  ASSUME NEW a, AddrOK(a),
         \/ \E d \in Dev : \A r \in Refs : a[r].used => a[r].dev # d
         \/ \E s \in Routers : \A r \in Refs : a[r].used => a[r].short # s
  PROVE  \E r \in Refs : ~a[r].used
<1> SUFFICES ASSUME \A r \in Refs : a[r].used
             PROVE  FALSE
  OBVIOUS
<1> DEFINE D == Dev \X {0}
           R == Routers \X {1}
           f == [r \in Refs |-> IF a[r].dev = NoDev THEN <<a[r].short, 1>> ELSE <<a[r].dev, 0>>]
<1>1. \A r \in Refs : a[r].dev \in Dev \cup {NoDev} /\ (a[r].dev = NoDev => a[r].short \in Routers)
  BY DEF AddrOK, Address
<1>2. f \in [Refs -> D \cup R]
  BY <1>1
<1>3. \A r, q \in Refs : f[r] = f[q] => r = q
  BY <1>1 DEF AddrOK
<1>4. PICK x \in D \cup R : \A r \in Refs : f[r] # x
  <2>1. CASE \E d \in Dev : \A r \in Refs : a[r].used => a[r].dev # d
    <3>1. PICK d \in Dev : \A r \in Refs : a[r].dev # d
      BY <2>1
    <3>2. <<d, 0>> \in D \cup R /\ \A r \in Refs : f[r] # <<d, 0>>
      BY <3>1
    <3> QED
      BY <3>2
  <2>2. CASE \E s \in Routers : \A r \in Refs : a[r].used => a[r].short # s
    <3>1. PICK s \in Routers : \A r \in Refs : a[r].short # s
      BY <2>2
    <3>2. <<s, 1>> \in D \cup R /\ \A r \in Refs : f[r] # <<s, 1>>
      BY <3>1
    <3> QED
      BY <3>2
  <2> QED
    BY <2>1, <2>2
<1>5. f \in [Refs -> (D \cup R) \ {x}]
  BY <1>2, <1>4
<1> HIDE DEF f
<1>6. /\ IsFiniteSet(D) /\ Cardinality(D) = Cardinality(Dev)
      /\ IsFiniteSet(R) /\ Cardinality(R) = Cardinality(Routers)
      /\ Cardinality(Dev) \in Nat /\ Cardinality(Routers) \in Nat
  <2>1. IsFiniteSet({0}) /\ IsFiniteSet({1}) /\ Cardinality({0}) = 1 /\ Cardinality({1}) = 1
    BY FS_Singleton
  <2>2. Cardinality(Dev) \in Nat /\ Cardinality(Routers) \in Nat
    BY ParentConstants, FS_CardinalityType
  <2>3. /\ IsFiniteSet(D) /\ Cardinality(D) = Cardinality(Dev) * Cardinality({0})
        /\ IsFiniteSet(R) /\ Cardinality(R) = Cardinality(Routers) * Cardinality({1})
    BY <2>1, ParentConstants, FS_Product, Zenon
  <2> QED
    BY <2>1, <2>2, <2>3
<1> DEFINE U == D \cup R
<1>7. IsFiniteSet(U) /\ Cardinality(U) = Cardinality(Dev) + Cardinality(Routers)
  <2>1. D \cap R = {}
    OBVIOUS
  <2> HIDE DEF D, R
  <2>2. Cardinality(D \cap R) = 0
    BY <2>1, FS_EmptySet
  <2>3. IsFiniteSet(U) /\ Cardinality(U) = Cardinality(D) + Cardinality(R) - Cardinality(D \cap R)
    BY <1>6, FS_Union
  <2> QED
    BY <1>6, <2>2, <2>3
<1>8. x \in U /\ f \in [Refs -> U \ {x}]
  BY <1>4, <1>5
<1> HIDE DEF D, R, U
<1>9. IsFiniteSet(U \ {x}) /\ Cardinality(U \ {x}) = Cardinality(Dev) + Cardinality(Routers) - 1
  <2>1. x \in U /\ IsFiniteSet(U)
    BY <1>7, <1>8
  <2>2. IsFiniteSet(U \ {x}) /\ Cardinality(U \ {x}) = Cardinality(U) - 1
    BY <2>1, FS_RemoveElement
  <2> QED
    BY <1>6, <1>7, <2>2
<1>10. Cardinality(U \ {x}) < Cardinality(Refs) /\ Cardinality(Refs) \in Nat
  BY <1>6, <1>9, ParentConstants, FS_CardinalityType
<1> QED
  BY <1>3, <1>8, <1>9, <1>10, ParentConstants, FS_PigeonHole

\* zb_address_update for any device and address.
LEMMA UpdatedOK ==
  ASSUME AddrOK(addr), NEW d \in Dev, NEW s \in Nat, NEW lock \in BOOLEAN
  PROVE  UpdatedRef(d, s) \in Refs /\ AddrOK(Updated(d, s, lock))
<1> DEFINE u == UpdatedRef(d, s)
           a == Updated(d, s, lock)
<1>1. /\ RefsOf(d) \subseteq Refs /\ ByShort(s) \subseteq Refs
      /\ {r \in Refs : ~addr[r].used} \subseteq Refs
  BY DEF RefsOf, ByShort
<1>2. \/ u \in RefsOf(d)
      \/ u \in ByShort(s) /\ RefsOf(d) = {}
      \/ u \in ByShort(s) /\ RefsOf(d) # {}
      \/ RefsOf(d) = {} /\ ByShort(s) = {} /\ u \in {r \in Refs : ~addr[r].used}
  <2> DEFINE R == RefsOf(d)
             S == ByShort(s)
             F == {r \in Refs : ~addr[r].used}
             p == S = {} \/ \E q \in S : ~addr[q].locked
             x == Lowest(F)
             y == Lowest(S)
             z == Lowest(R)
  <2>1. u = IF R \cup S = {} THEN x ELSE IF R # {} /\ p THEN z ELSE y
    BY DEF UpdatedRef, FreeRef
  <2>2. R \cup S = {} => F # {}
    <3>1. ASSUME R \cup S = {} PROVE \A r \in Refs : addr[r].used => addr[r].dev # d
      BY <3>1 DEF RefsOf
    <3> QED
      BY <3>1, FreeEntry, Zenon
  <2>3. (F # {} => x \in F) /\ (S # {} => y \in S) /\ (R # {} => z \in R)
    BY <1>1, FirstIn
  <2>4. S = {} => p
    OBVIOUS
  <2> HIDE DEF R, S, F, p, x, y, z, u
  <2>5. CASE R \cup S = {}
    <3>1. u = x /\ R = {} /\ S = {}
      BY <2>1, <2>5
    <3> QED
      BY <2>2, <2>3, <2>5, <3>1 DEF R, S, F
  <2>6. CASE R = {} /\ S # {}
    <3>1. u = y
      BY <2>1, <2>6
    <3> QED
      BY <2>3, <2>6, <3>1 DEF R, S
  <2>7. CASE R # {}
    <3>1. u = z \/ (u = y /\ ~p)
      BY <2>1, <2>7
    <3> QED
      BY <2>3, <2>4, <2>7, <3>1 DEF R, S
  <2> QED
    BY <2>5, <2>6, <2>7
<1>3. u \in Refs
  BY <1>1, <1>2
<1> DEFINE new == [used |-> TRUE, dev |-> d, short |-> s, locked |-> lock \/ addr[u].locked]
<1>4. a = [r \in Refs |-> CASE r = u -> new
                            [] r # u /\ r \in RefsOf(d) \cup ByShort(s) -> Unused(r)
                            [] OTHER -> addr[r]]
  BY DEF Updated
<1> HIDE DEF u, a
<1>5. addr \in [Refs -> Address]
  BY DEF AddrOK
<1>6. new \in Address /\ new.used /\ new.dev = d /\ new.short = s
  BY <1>3, <1>5 DEF Address
<1>7. \A r \in Refs : Unused(r) \in Address /\ ~Unused(r).used
  BY <1>5 DEF Address, Unused
<1> HIDE DEF new
<1>8. /\ a \in [Refs -> Address] /\ a[u] = new
      /\ \A r \in Refs : r # u /\ a[r].used =>
           a[r] = addr[r] /\ addr[r].used /\ r \notin RefsOf(d) \cup ByShort(s)
  BY <1>3, <1>4, <1>5, <1>6, <1>7
<1>9. \A r \in Refs : r # u /\ a[r].used =>
        a[r] = addr[r] /\ addr[r].used /\ addr[r].dev # d /\ addr[r].short # s
  BY <1>8 DEF RefsOf, ByShort
<1>10. d # NoDev
  BY ParentConstants
<1>11. \A r \in Refs : a[r].used /\ a[r].dev = NoDev => a[r].short \in Routers
  BY <1>6, <1>8, <1>9, <1>10 DEF AddrOK
<1>12. \A r, q \in Refs : /\ a[r].used /\ a[q].used /\ a[r].dev = a[q].dev
                          /\ a[r].dev = NoDev => a[r].short = a[q].short
                          => r = q
  BY <1>6, <1>8, <1>9 DEF AddrOK
<1> QED
  BY <1>3, <1>8, <1>11, <1>12 DEF u, a, AddrOK

\* zb_address_delete.
LEMMA DeletedOK ==
  ASSUME AddrOK(addr), NEW u \in Refs
  PROVE  AddrOK(Deleted(u))
<1> DEFINE a == Deleted(u)
<1>1. addr \in [Refs -> Address]
  BY DEF AddrOK
<1>2. Unused(u) \in Address /\ ~Unused(u).used
  BY <1>1 DEF Address, Unused
<1>3. a \in [Refs -> Address] /\ ~a[u].used /\ \A r \in Refs : r # u => a[r] = addr[r]
  BY <1>1, <1>2 DEF Deleted
<1> HIDE DEF a
<1>4. AddrOK(a)
  BY <1>3 DEF AddrOK
<1> QED
  BY <1>4 DEF a

-----------------------------------------------------------------------------
(* The neighbor table. *)

LEMMA NoEntryIsEntry == NoEntry \in Entry /\ ~NoEntry.used
BY ParentConstants DEF NoEntry, Entry

\* An entry is dropped.
LEMMA DroppedOK ==
  ASSUME TableOK, NEW u \in Refs, addr_to_neighbor[u] # NoSlot, Dropped(u)
  PROVE  TableOK'
<1> DEFINE n == addr_to_neighbor[u]
<1>1. n \in NbtSlots /\ base_used' = base_used /\ base_used \in 0 .. NbtSize
  BY DEF TableOK, IndexOK, Dropped
<1>2. /\ base_neighbor' \in [NbtSlots -> Entry] /\ ~base_neighbor'[n].used
      /\ \A m \in NbtSlots : m # n => base_neighbor'[m] = base_neighbor[m]
  BY <1>1, NoEntryIsEntry DEF TableOK, IndexOK, Dropped
<1>3. /\ addr_to_neighbor' \in [Refs -> NbtSlots \cup {NoSlot}] /\ addr_to_neighbor'[u] = NoSlot
      /\ \A r \in Refs : r # u => addr_to_neighbor'[r] = addr_to_neighbor[r]
  BY DEF TableOK, IndexOK, Dropped
<1>4. /\ \A r \in Refs : addr_to_neighbor[r] # NoSlot =>
           base_neighbor[addr_to_neighbor[r]].used /\ base_neighbor[addr_to_neighbor[r]].ref = r
      /\ \A m \in NbtSlots : base_neighbor[m].used =>
           addr_to_neighbor[base_neighbor[m].ref] = m /\ m < base_used
      /\ \A m \in NbtSlots : base_neighbor[m].ref \in Refs
      /\ \A r \in Refs : addr_to_neighbor[r] \in NbtSlots \cup {NoSlot}
  BY DEF TableOK, IndexOK, Entry
<1> DEFINE nbr == base_neighbor'
           idx == addr_to_neighbor'
<1>5. \A r \in Refs : idx[r] # NoSlot => nbr[idx[r]].used /\ nbr[idx[r]].ref = r
  BY <1>2, <1>3, <1>4
<1>6. \A m \in NbtSlots : nbr[m].used => idx[nbr[m].ref] = m /\ m < base_used
  BY <1>2, <1>3, <1>4
<1> QED
  BY <1>1, <1>2, <1>3, <1>5, <1>6 DEF TableOK, IndexOK

\* An entry is made, or found and set; others may be dropped on the way.
LEMMA PutOK ==
  ASSUME TableOK, NEW u \in Refs, NEW drop \in SUBSET Refs,
         NEW type \in {"coordinator", "router", "ed"},
         NEW rel \in {"none", "child", "unauthenticated", "previous"},
         addr_to_neighbor[u] = NoSlot \/ u \in drop => base_used < NbtSize,
         Put(u, drop, type, rel)
  PROVE  TableOK'
<1> DEFINE n == IF addr_to_neighbor[u] = NoSlot \/ u \in drop THEN base_used
                ELSE addr_to_neighbor[u]
           e == [used |-> TRUE, ref |-> u, type |-> type, rel |-> rel]
           nbr == base_neighbor'
           idx == addr_to_neighbor'
           K == {addr_to_neighbor[q] : q \in drop}
<1>1. /\ \A r \in Refs : addr_to_neighbor[r] # NoSlot =>
           base_neighbor[addr_to_neighbor[r]].used /\ base_neighbor[addr_to_neighbor[r]].ref = r
      /\ \A m \in NbtSlots : base_neighbor[m].used =>
           addr_to_neighbor[base_neighbor[m].ref] = m /\ m < base_used
      /\ \A m \in NbtSlots : base_neighbor[m].ref \in Refs /\ base_neighbor[m] \in Entry
      /\ \A r \in Refs : addr_to_neighbor[r] \in NbtSlots \cup {NoSlot}
      /\ base_used \in 0 .. NbtSize
  BY DEF TableOK, IndexOK, Entry
<1>2. n \in NbtSlots /\ (n = base_used => base_used < NbtSize)
  BY <1>1, ParentConstants
<1>3. e \in Entry /\ e.used /\ e.ref = u
  BY DEF Entry
<1>4. /\ nbr = [m \in NbtSlots |-> CASE m = n -> e [] m # n /\ m \in K -> NoEntry
                                  [] OTHER -> base_neighbor[m]]
      /\ idx = [q \in Refs |-> IF q = u THEN n ELSE IF q \in drop THEN NoSlot
                               ELSE addr_to_neighbor[q]]
      /\ base_used' = IF n = base_used THEN base_used + 1 ELSE base_used
  BY DEF Put
<1>6. n # NoSlot
  BY <1>2, ParentConstants
<1>12. \A q \in Refs : addr_to_neighbor[q] # NoSlot =>
         base_neighbor[addr_to_neighbor[q]].ref = q /\ addr_to_neighbor[q] < base_used
  BY <1>1
<1>13. n = base_used \/ (n = addr_to_neighbor[u] /\ addr_to_neighbor[u] # NoSlot)
  <2>1. CASE addr_to_neighbor[u] = NoSlot \/ u \in drop
    BY <2>1
  <2>2. CASE ~ (addr_to_neighbor[u] = NoSlot \/ u \in drop)
    BY <2>2
  <2> QED
    BY <2>1, <2>2
<1>5. \A q \in Refs : addr_to_neighbor[q] = n => q = u
  <2>1. ~ (base_used < base_used)
    BY <1>1
  <2> QED
    BY <1>6, <1>12, <1>13, <2>1, Zenon
<1> HIDE DEF e, K
<1>7. /\ nbr \in [NbtSlots -> Entry] /\ nbr[n] = e
      /\ \A m \in NbtSlots : m # n /\ nbr[m].used => nbr[m] = base_neighbor[m] /\ m \notin K
      /\ \A m \in NbtSlots : m # n /\ m \notin K => nbr[m] = base_neighbor[m]
  BY <1>1, <1>2, <1>3, <1>4, NoEntryIsEntry
<1>8. /\ idx \in [Refs -> NbtSlots \cup {NoSlot}] /\ idx[u] = n
      /\ \A q \in Refs : q # u /\ idx[q] # NoSlot => idx[q] = addr_to_neighbor[q] /\ q \notin drop
      /\ \A q \in Refs : q # u /\ q \notin drop => idx[q] = addr_to_neighbor[q]
  BY <1>1, <1>2, <1>4
<1>9. base_used' \in 0 .. NbtSize /\ base_used <= base_used' /\ n < base_used'
  <2>1. n = base_used \/ n < base_used
    BY <1>12, <1>13
  <2>2. /\ base_used' = (IF n = base_used THEN base_used + 1 ELSE base_used)
        /\ base_used \in 0 .. NbtSize /\ (n = base_used => base_used < NbtSize)
        /\ n \in Int /\ NbtSize \in Nat
    BY <1>1, <1>2, <1>4, ParentConstants
  <2> HIDE DEF n
  <2> QED
    BY <2>1, <2>2
<1> HIDE DEF n
<1>10. \A r \in Refs : idx[r] # NoSlot => nbr[idx[r]].used /\ nbr[idx[r]].ref = r
  <2> TAKE r \in Refs
  <2> HAVE idx[r] # NoSlot
  <2>1. CASE r = u
    BY <1>3, <1>7, <1>8, <2>1
  <2>2. CASE r # u
    <3>1. idx[r] = addr_to_neighbor[r] /\ r \notin drop /\ addr_to_neighbor[r] \in NbtSlots
      BY <1>1, <1>8, <2>2
    <3>2. addr_to_neighbor[r] # n
      BY <1>5, <2>2
    <3>3. addr_to_neighbor[r] \notin K
      <4>1. ASSUME NEW q \in drop, addr_to_neighbor[q] = addr_to_neighbor[r] PROVE FALSE
        BY <1>1, <3>1, <4>1
      <4> QED
        BY <4>1 DEF K
    <3> QED
      BY <1>1, <1>7, <3>1, <3>2, <3>3
  <2> QED
    BY <2>1, <2>2
<1>11. \A m \in NbtSlots : nbr[m].used => idx[nbr[m].ref] = m /\ m < base_used'
  <2> TAKE m \in NbtSlots
  <2> HAVE nbr[m].used
  <2>1. CASE m = n
    BY <1>3, <1>7, <1>8, <1>9, <2>1
  <2>2. CASE m # n
    <3>1. nbr[m] = base_neighbor[m] /\ m \notin K
      BY <1>7, <2>2
    <3> DEFINE q == base_neighbor[m].ref
    <3>2. q \in Refs /\ addr_to_neighbor[q] = m /\ m < base_used /\ base_neighbor[m].used
      BY <1>1, <3>1
    <3>3. q \notin drop
      BY <3>1, <3>2 DEF K
    <3>4. q # u
      <4>1. ASSUME q = u PROVE FALSE
        <5>1. addr_to_neighbor[u] # NoSlot /\ u \notin drop
          BY <3>2, <3>3, <4>1, ParentConstants
        <5>2. n = addr_to_neighbor[u]
          BY <5>1 DEF n
        <5> QED
          BY <2>2, <3>2, <4>1, <5>2
      <4> QED
        BY <4>1
    <3>5. m < base_used'
      BY <1>1, <1>9, <3>2, ParentConstants
    <3> QED
      BY <1>8, <3>1, <3>2, <3>3, <3>4, <3>5
  <2> QED
    BY <2>1, <2>2
<1> QED
  BY <1>7, <1>8, <1>9, <1>10, <1>11 DEF TableOK, IndexOK

-----------------------------------------------------------------------------
(* The extended table. *)

\* The packing, entry by entry, up to n entries.
IsPacking(g, n) == g = [i \in 0 .. n |-> IF i = 0 THEN PackStart ELSE PackStep(g[i - 1], i - 1)]

LEMMA PackingExists ==
  ASSUME NEW T \in Nat
  PROVE  \E g : IsPacking(g, T)
<1> DEFINE S == {k \in 0 .. T : ~ \E g : IsPacking(g, k)}
<1>1. ASSUME NEW k \in S PROVE k # 0 /\ k - 1 \in S
  <2>1. k # 0
    <3>1. ASSUME k = 0 PROVE FALSE
      <4> DEFINE g == [i \in 0 .. 0 |-> PackStart]
      <4>1. g = [i \in 0 .. 0 |-> IF i = 0 THEN PackStart ELSE PackStep(g[i - 1], i - 1)]
        OBVIOUS
      <4>2. IsPacking(g, 0)
        BY <4>1 DEF IsPacking
      <4> QED
        BY <3>1, <4>2
    <3> QED
      BY <3>1
  <2>2. ASSUME NEW g, IsPacking(g, k - 1) PROVE FALSE
    <3> DEFINE h == [i \in 0 .. k |-> IF i = k THEN PackStep(g[k - 1], k - 1) ELSE g[i]]
    <3>1. k \in Nat /\ k > 0
      BY <2>1
    <3>2. \A i \in 0 .. k - 1 : g[i] = IF i = 0 THEN PackStart ELSE PackStep(g[i - 1], i - 1)
      BY <2>2 DEF IsPacking
    <3>3. \A i \in 0 .. k : h[i] = IF i = 0 THEN PackStart ELSE PackStep(h[i - 1], i - 1)
      <4> TAKE i \in 0 .. k
      <4>1. CASE i = k
        <5>1. h[k] = PackStep(g[k - 1], k - 1) /\ h[k - 1] = g[k - 1]
          BY <3>1
        <5> QED
          BY <3>1, <4>1, <5>1
      <4>2. CASE i # k
        <5>1. i \in 0 .. k - 1 /\ h[i] = g[i]
          BY <3>1, <4>2
        <5>2. i # 0 => h[i - 1] = g[i - 1]
          BY <3>1, <5>1
        <5> HIDE DEF h
        <5> QED
          BY <3>2, <5>1, <5>2
      <4> QED
        BY <4>1, <4>2
    <3>4. h = [i \in 0 .. k |-> h[i]]
      OBVIOUS
    <3> HIDE DEF h
    <3>5. IsPacking(h, k)
      BY <3>3, <3>4 DEF IsPacking
    <3> QED
      BY <3>5
  <2>3. k - 1 \in 0 .. T
    BY <2>1
  <2> QED
    BY <2>1, <2>2, <2>3
<1>2. S = {}
  <2>1. S \in SUBSET Nat
    OBVIOUS
  <2> HIDE DEF S
  <2> QED
    BY <1>1, <2>1, NoFirst
<1>3. T \in 0 .. T
  OBVIOUS
<1> QED
  BY <1>2, <1>3

LEMMA PackingIs == \E g : IsPacking(g, NbtSize) /\ Packing = g[NbtSize]
<1> DEFINE g == CHOOSE f : f = [i \in 0 .. NbtSize |->
                                  IF i = 0 THEN PackStart ELSE PackStep(f[i - 1], i - 1)]
<1>1. Packing = g[NbtSize]
  BY DEF Packing
<1>2. \E f : f = [i \in 0 .. NbtSize |-> IF i = 0 THEN PackStart ELSE PackStep(f[i - 1], i - 1)]
  BY ParentConstants, PackingExists DEF IsPacking
<1>3. IsPacking(g, NbtSize)
  BY <1>2 DEF IsPacking
<1> HIDE DEF g
<1> QED
  BY <1>1, <1>3

\* Below an entry that is looked at next are as many free places as are counted.
PackOK(p, i) ==
  /\ p \in [nbr : [NbtSlots -> Entry], idx : [Refs -> NbtSlots \cup {NoSlot}], hole : Nat, used : Nat]
  /\ IndexOK(p.nbr, p.idx, base_used) /\ p.hole <= i
  /\ p.used < base_used => \A m \in NbtSlots : i - p.hole <= m /\ m < i => ~p.nbr[m].used

LEMMA PackStepOK ==
  ASSUME NEW p, NEW k \in NbtSlots, PackOK(p, k)
  PROVE  PackOK(PackStep(p, k), k + 1)
<1> DEFINE e == p.nbr[k]
           q == PackStep(p, k)
<1>0. /\ k \in 0 .. NbtSize - 1 /\ NbtSize \in Nat /\ base_used \in 0 .. NbtSize
      /\ p.hole \in Nat /\ p.hole <= k /\ p.used \in Nat /\ p.nbr \in [NbtSlots -> Entry]
      /\ p.idx \in [Refs -> NbtSlots \cup {NoSlot}]
      /\ p = [nbr |-> p.nbr, idx |-> p.idx, hole |-> p.hole, used |-> p.used]
      /\ e \in Entry /\ e.used \in BOOLEAN /\ e.ref \in Refs
      /\ NbtSlots = 0 .. NbtSize - 1 /\ NoSlot \notin NbtSlots
  BY ParentConstants DEF PackOK, IndexOK, Entry
<1>1. CASE p.used >= base_used
  <2>1. q = p
    BY <1>0, <1>1 DEF PackStep
  <2> QED
    BY <1>0, <1>1, <2>1 DEF PackOK
<1>2. CASE p.used < base_used /\ ~e.used
  <2>1. q = [p EXCEPT !.hole = @ + 1]
    BY <1>0, <1>2 DEF PackStep
  <2>2. q.nbr = p.nbr /\ q.idx = p.idx /\ q.hole = p.hole + 1 /\ q.used = p.used
        /\ q = [nbr |-> p.nbr, idx |-> p.idx, hole |-> p.hole + 1, used |-> p.used]
    BY <1>0, <2>1
  <2> HIDE DEF q
  <2>3. \A m \in NbtSlots : (k + 1) - q.hole <= m /\ m < k + 1 => ~p.nbr[m].used
    BY <1>0, <1>2, <2>2 DEF PackOK
  <2>4. PackOK(q, k + 1)
    BY <1>0, <2>2, <2>3 DEF PackOK
  <2> QED
    BY <2>4 DEF q
<1>3. CASE p.used < base_used /\ e.used /\ p.hole = 0
  <2>1. q = [p EXCEPT !.used = @ + 1]
    BY <1>0, <1>3 DEF PackStep
  <2>2. q.nbr = p.nbr /\ q.idx = p.idx /\ q.hole = 0 /\ q.used = p.used + 1
        /\ q = [nbr |-> p.nbr, idx |-> p.idx, hole |-> 0, used |-> p.used + 1]
    BY <1>0, <1>3, <2>1
  <2> HIDE DEF q
  <2>3. \A m \in NbtSlots : ~ ((k + 1) - q.hole <= m /\ m < k + 1)
    BY <1>0, <2>2
  <2>4. PackOK(q, k + 1)
    BY <1>0, <2>2, <2>3 DEF PackOK
  <2> QED
    BY <2>4 DEF q
<1>4. CASE p.used < base_used /\ e.used /\ p.hole # 0
  <2> DEFINE n == k - p.hole
             r == e.ref
             nbr == [p.nbr EXCEPT ![n] = e, ![k] = NoEntry]
             idx == [p.idx EXCEPT ![r] = n]
  <2>1. q = [nbr |-> nbr, idx |-> idx, hole |-> p.hole - 1, used |-> p.used + 1]
    BY <1>0, <1>4 DEF PackStep
  <2>2. n \in NbtSlots /\ n < k /\ ~p.nbr[n].used /\ p.idx[r] = k /\ k < base_used
    BY <1>0, <1>4 DEF PackOK, IndexOK
  <2>3. /\ nbr \in [NbtSlots -> Entry] /\ nbr[n] = e /\ ~nbr[k].used
        /\ \A m \in NbtSlots : m # n /\ m # k => nbr[m] = p.nbr[m]
    <3>1. n # k
      BY <1>0, <1>4
    <3> HIDE DEF n
    <3> QED
      BY <1>0, <2>2, <3>1, NoEntryIsEntry
  <2>4. /\ idx \in [Refs -> NbtSlots \cup {NoSlot}] /\ idx[r] = n
        /\ \A x \in Refs : x # r => idx[x] = p.idx[x]
    BY <1>0, <2>2
  <2> HIDE DEF nbr, idx
  <2>5. \A x \in Refs : idx[x] # NoSlot => nbr[idx[x]].used /\ nbr[idx[x]].ref = x
    <3> TAKE x \in Refs
    <3> HAVE idx[x] # NoSlot
    <3>1. CASE x = r
      BY <1>4, <2>3, <2>4, <3>1
    <3>2. CASE x # r
      <4>1. idx[x] = p.idx[x] /\ p.idx[x] \in NbtSlots /\ p.nbr[p.idx[x]].used /\ p.nbr[p.idx[x]].ref = x
        BY <1>0, <2>4, <3>2 DEF PackOK, IndexOK
      <4>2. p.idx[x] # k /\ p.idx[x] # n
        BY <2>2, <3>2, <4>1
      <4> QED
        BY <2>3, <4>1, <4>2
    <3> QED
      BY <3>1, <3>2
  <2>6. \A m \in NbtSlots : nbr[m].used => idx[nbr[m].ref] = m /\ m < base_used
    <3> TAKE m \in NbtSlots
    <3> HAVE nbr[m].used
    <3>1. CASE m = n
      BY <1>0, <2>2, <2>3, <2>4, <3>1
    <3>2. CASE m # n
      <4>1. m # k /\ nbr[m] = p.nbr[m]
        BY <2>3, <3>2
      <4>2. p.nbr[m].ref \in Refs /\ p.idx[p.nbr[m].ref] = m /\ m < base_used
        BY <1>0, <4>1 DEF PackOK, IndexOK, Entry
      <4>3. p.nbr[m].ref # r
        BY <2>2, <4>1, <4>2
      <4> QED
        BY <2>4, <4>1, <4>2, <4>3
    <3> QED
      BY <3>1, <3>2
  <2>7. \A m \in NbtSlots : (k + 1) - (p.hole - 1) <= m /\ m < k + 1 => ~nbr[m].used
    <3> TAKE m \in NbtSlots
    <3> HAVE (k + 1) - (p.hole - 1) <= m /\ m < k + 1
    <3>1. CASE m = k
      BY <2>3, <3>1
    <3>2. CASE m # k
      <4>1. k - p.hole <= m /\ m < k /\ m # n
        BY <1>0, <3>2
      <4>2. ~p.nbr[m].used
        BY <1>4, <4>1 DEF PackOK
      <4> QED
        BY <2>3, <3>2, <4>1, <4>2
    <3> QED
      BY <3>1, <3>2
  <2>8. p.hole - 1 \in Nat /\ p.hole - 1 <= k + 1 /\ p.used + 1 \in Nat
    BY <1>0, <1>4
  <2>9. IndexOK(nbr, idx, base_used)
    BY <1>0, <2>3, <2>4, <2>5, <2>6 DEF IndexOK
  <2>10. q.nbr = nbr /\ q.idx = idx /\ q.hole = p.hole - 1 /\ q.used = p.used + 1
    BY <2>1
  <2> HIDE DEF q
  <2>11. q \in [nbr : [NbtSlots -> Entry], idx : [Refs -> NbtSlots \cup {NoSlot}], hole : Nat, used : Nat]
    BY <2>1, <2>3, <2>4, <2>8
  <2>12. \A m \in NbtSlots : (k + 1) - q.hole <= m /\ m < k + 1 => ~q.nbr[m].used
    BY <2>7, <2>10
  <2>13. IndexOK(q.nbr, q.idx, base_used) /\ q.hole <= k + 1
    BY <2>8, <2>9, <2>10
  <2>14. PackOK(q, k + 1)
    BY <2>11, <2>12, <2>13 DEF PackOK
  <2> QED
    BY <2>14 DEF q
<1> QED
  BY <1>0, <1>1, <1>2, <1>3, <1>4

\* The packing keeps the table and its index inverse to each other.
LEMMA PackingOK ==
  ASSUME TableOK
  PROVE  IndexOK(Packing.nbr, Packing.idx, base_used)
<1>1. PICK g : IsPacking(g, NbtSize) /\ Packing = g[NbtSize]
  BY PackingIs
<1>2. \A i \in 0 .. NbtSize : g[i] = IF i = 0 THEN PackStart ELSE PackStep(g[i - 1], i - 1)
  BY <1>1 DEF IsPacking
<1>3. NbtSize \in Nat /\ NbtSlots = 0 .. NbtSize - 1
  BY ParentConstants
<1> DEFINE S == {i \in 0 .. NbtSize : ~PackOK(g[i], i)}
<1>4. ASSUME NEW i \in S PROVE i # 0 /\ i - 1 \in S
  <2>1. PackOK(PackStart, 0)
    <3>1. /\ base_neighbor \in [NbtSlots -> Entry] /\ addr_to_neighbor \in [Refs -> NbtSlots \cup {NoSlot}]
          /\ IndexOK(base_neighbor, addr_to_neighbor, base_used)
      BY DEF TableOK, IndexOK
    <3>2. \A m \in NbtSlots : ~ (m < 0)
      BY <1>3
    <3>3. /\ PackStart.nbr = base_neighbor /\ PackStart.idx = addr_to_neighbor
          /\ PackStart.hole = 0 /\ PackStart.used = 0
          /\ PackStart \in [nbr : [NbtSlots -> Entry], idx : [Refs -> NbtSlots \cup {NoSlot}],
                            hole : Nat, used : Nat]
      BY <3>1 DEF PackStart
    <3> QED
      BY <3>1, <3>2, <3>3 DEF PackOK
  <2>2. i # 0
    BY <1>2, <2>1
  <2>3. i - 1 \in NbtSlots /\ i - 1 \in 0 .. NbtSize /\ g[i] = PackStep(g[i - 1], i - 1) /\ i - 1 + 1 = i
    BY <1>2, <1>3, <2>2
  <2>4. ~PackOK(g[i - 1], i - 1)
    BY <2>3, PackStepOK
  <2> QED
    BY <2>2, <2>3, <2>4
<1>5. S = {}
  <2>1. S \in SUBSET Nat
    OBVIOUS
  <2> HIDE DEF S
  <2> QED
    BY <1>4, <2>1, NoFirst
<1>6. PackOK(g[NbtSize], NbtSize)
  BY <1>3, <1>5
<1> QED
  BY <1>1, <1>6 DEF PackOK

\* A new entry is linked at the end of the table.
LEMMA IndexMade ==
  ASSUME NEW nbr, NEW idx, NEW used, IndexOK(nbr, idx, used), used < NbtSize,
         NEW u \in Refs, idx[u] = NoSlot, NEW e \in Entry, e.used, e.ref = u
  PROVE  IndexOK([nbr EXCEPT ![used] = e], [idx EXCEPT ![u] = used], used + 1)
<1> DEFINE nbr2 == [nbr EXCEPT ![used] = e]
           idx2 == [idx EXCEPT ![u] = used]
<1>1. /\ used \in Nat /\ used \in NbtSlots /\ used + 1 \in 0 .. NbtSize /\ NoSlot \notin NbtSlots
      /\ \A m \in NbtSlots : m < used => m < used + 1 /\ m # used
      /\ ~ (used < used) /\ used < used + 1
  BY ParentConstants DEF IndexOK
<1>2. /\ nbr \in [NbtSlots -> Entry] /\ idx \in [Refs -> NbtSlots \cup {NoSlot}]
      /\ \A r \in Refs : idx[r] # NoSlot => nbr[idx[r]].used /\ nbr[idx[r]].ref = r
      /\ \A n \in NbtSlots : nbr[n].used => idx[nbr[n].ref] = n /\ n < used
      /\ \A n \in NbtSlots : nbr[n].ref \in Refs
      /\ \A r \in Refs : idx[r] \in NbtSlots \cup {NoSlot}
  BY DEF IndexOK, Entry
<1>3. nbr2 \in [NbtSlots -> Entry] /\ nbr2[used] = e /\ \A n \in NbtSlots : n # used => nbr2[n] = nbr[n]
  BY <1>1, <1>2
<1>4. /\ idx2 \in [Refs -> NbtSlots \cup {NoSlot}] /\ idx2[u] = used
      /\ \A r \in Refs : r # u => idx2[r] = idx[r]
  BY <1>1, <1>2
<1> HIDE DEF nbr2, idx2
<1>5. \A r \in Refs : idx2[r] # NoSlot => nbr2[idx2[r]].used /\ nbr2[idx2[r]].ref = r
  <2> TAKE r \in Refs
  <2> HAVE idx2[r] # NoSlot
  <2>1. CASE r = u
    BY <1>1, <1>3, <1>4, <2>1
  <2>2. CASE r # u
    <3>1. idx2[r] = idx[r] /\ idx[r] \in NbtSlots /\ nbr[idx[r]].used /\ nbr[idx[r]].ref = r
      BY <1>2, <1>4, <2>2
    <3>2. idx[r] # used
      BY <1>1, <1>2, <3>1
    <3> QED
      BY <1>3, <3>1, <3>2
  <2> QED
    BY <2>1, <2>2
<1>6. \A n \in NbtSlots : nbr2[n].used => idx2[nbr2[n].ref] = n /\ n < used + 1
  <2> TAKE n \in NbtSlots
  <2> HAVE nbr2[n].used
  <2>1. CASE n = used
    BY <1>1, <1>3, <1>4, <2>1
  <2>2. CASE n # used
    <3>1. nbr2[n] = nbr[n] /\ nbr[n].ref \in Refs /\ idx[nbr[n].ref] = n /\ n < used
      BY <1>2, <1>3, <2>2
    <3>2. nbr[n].ref # u
      BY <1>1, <3>1
    <3> QED
      BY <1>1, <1>4, <3>1, <3>2
  <2> QED
    BY <2>1, <2>2
<1>7. IndexOK(nbr2, idx2, used + 1)
  BY <1>1, <1>3, <1>4, <1>5, <1>6 DEF IndexOK
<1> QED
  BY <1>7 DEF nbr2, idx2

\* Entries change, but not where they are and whose they are.
LEMMA IndexKept ==
  ASSUME NEW nbr, NEW idx, NEW used, IndexOK(nbr, idx, used), NEW nbr2 \in [NbtSlots -> Entry],
         \A n \in NbtSlots : nbr2[n].used = nbr[n].used /\ nbr2[n].ref = nbr[n].ref
  PROVE  IndexOK(nbr2, idx, used)
BY DEF IndexOK

\* zb_address_by_short for a router that was heard and is not known.
LEMMA HeardOK ==
  ASSUME NEW a, AddrOK(a), NEW s \in Routers, NEW u \in Refs, ~a[u].used,
         \A r \in Refs : a[r].used => a[r].short # s
  PROVE  AddrOK([a EXCEPT ![u] = [@ EXCEPT !.used = TRUE, !.dev = NoDev, !.short = s]])
<1> DEFINE new == [a[u] EXCEPT !.used = TRUE, !.dev = NoDev, !.short = s]
           b == [a EXCEPT ![u] = new]
<1>1. a \in [Refs -> Address] /\ s \in Nat
  BY ParentConstants DEF AddrOK
<1>2. new \in Address /\ new.used /\ new.dev = NoDev /\ new.short = s
  BY <1>1 DEF Address
<1> HIDE DEF new
<1>3. b \in [Refs -> Address] /\ b[u] = new /\ \A r \in Refs : r # u => b[r] = a[r]
  BY <1>1, <1>2
<1> HIDE DEF b
<1>4. \A r \in Refs : b[r].used /\ b[r].dev = NoDev => b[r].short \in Routers
  BY <1>2, <1>3 DEF AddrOK
<1>5. \A r, q \in Refs : /\ b[r].used /\ b[q].used /\ b[r].dev = b[q].dev
                         /\ b[r].dev = NoDev => b[r].short = b[q].short
                         => r = q
  <2> TAKE r, q \in Refs
  <2> HAVE /\ b[r].used /\ b[q].used /\ b[r].dev = b[q].dev
           /\ b[r].dev = NoDev => b[r].short = b[q].short
  <2>1. CASE r # u /\ q # u
    BY <1>3, <2>1 DEF AddrOK
  <2>2. CASE r = u \/ q = u
    BY <1>2, <1>3, <2>2
  <2> QED
    BY <2>1, <2>2
<1>6. AddrOK(b)
  BY <1>3, <1>4, <1>5 DEF AddrOK
<1> QED
  BY <1>6 DEF b, new

\* The entries of the extended table move one by one.
MoveOK(st) ==
  /\ st \in [addr : [Refs -> Address], used : 0 .. NbtSize, nbr : [NbtSlots -> Entry],
             idx : [Refs -> NbtSlots \cup {NoSlot}], bad : BOOLEAN]
  /\ AddrOK(st.addr) /\ IndexOK(st.nbr, st.idx, st.used)

LEMMA MovedOK ==
  ASSUME NEW st, MoveOK(st), NEW k, ext[k] \in Routers \cup Strangers,
         HasPlace(st.used, k - 1) => st.used < NbtSize
  PROVE  MoveOK(Moved(st, k))
<1>9. CASE ext[k] \in Strangers
  BY <1>9 DEF Moved
<1>10. SUFFICES ASSUME ext[k] \in Routers, ext[k] \notin Strangers PROVE MoveOK(Moved(st, k))
  BY <1>9
<1> DEFINE s == ext[k]
           Q == {q \in Refs : st.addr[q].used /\ st.addr[q].short = s}
           F == {q \in Refs : ~st.addr[q].used}
           r == IF Q # {} THEN Lowest(Q) ELSE Lowest(F)
           a == IF Q # {} THEN st.addr
                ELSE [st.addr EXCEPT ![r] = [@ EXCEPT !.used = TRUE, !.dev = NoDev, !.short = s]]
           n == st.idx[r]
           e == [used |-> TRUE, ref |-> r, type |-> "router", rel |-> "none"]
           type == st.nbr[n].type
           old == [st.nbr[n] EXCEPT !.type = IF type = "coordinator" THEN "router" ELSE type]
           st1 == [st EXCEPT !.nbr = [st.nbr EXCEPT ![n] = old],
                             !.bad = st.bad \/ ~st.nbr[n].used]
           st2 == [addr |-> a, used |-> st.used + 1, bad |-> st.bad,
                   nbr |-> [st.nbr EXCEPT ![st.used] = e], idx |-> [st.idx EXCEPT ![r] = st.used]]
           st3 == [st EXCEPT !.addr = a]
<1>1. r \in Refs /\ AddrOK(a) /\ a \in [Refs -> Address]
  <2>1. CASE Q # {}
    <3>1. Q \subseteq Refs
      OBVIOUS
    <3> HIDE DEF Q
    <3>2. Lowest(Q) \in Refs
      BY <2>1, <3>1, FirstIn
    <3>3. r = Lowest(Q) /\ a = st.addr
      BY <2>1
    <3> HIDE DEF r, a
    <3> QED
      BY <3>2, <3>3 DEF MoveOK, AddrOK
  <2>2. CASE Q = {}
    <3>1. \A q \in Refs : st.addr[q].used => st.addr[q].short # s
      BY <2>2
    <3>2. F # {} /\ F \subseteq Refs
      BY <1>10, <3>1, FreeEntry DEF MoveOK
    <3>3. Lowest(F) \in F
      <4> HIDE DEF F
      <4> QED
        BY <3>2, FirstIn
    <3>4. r = Lowest(F)
      BY <2>2
    <3>5. r \in Refs /\ ~st.addr[r].used
      BY <3>3, <3>4
    <3>6. a = [st.addr EXCEPT ![r] = [@ EXCEPT !.used = TRUE, !.dev = NoDev, !.short = s]]
      BY <2>2
    <3> HIDE DEF r, a
    <3>7. AddrOK(a)
      BY <1>10, <3>1, <3>5, <3>6, HeardOK DEF MoveOK
    <3> QED
      BY <3>5, <3>7 DEF AddrOK
  <2> QED
    BY <2>1, <2>2
<1> DEFINE place == HasPlace(st.used, k - 1)
<1>2. Moved(st, k) = CASE s \in Strangers -> st
                       [] s \notin Strangers /\ n # NoSlot -> st1
                       [] s \notin Strangers /\ n = NoSlot /\ place -> st2
                       [] OTHER -> st3
  BY DEF Moved
<1>3. /\ st = [addr |-> st.addr, used |-> st.used, nbr |-> st.nbr, idx |-> st.idx, bad |-> st.bad]
      /\ st.used \in 0 .. NbtSize /\ st.nbr \in [NbtSlots -> Entry] /\ st.bad \in BOOLEAN
      /\ st.idx \in [Refs -> NbtSlots \cup {NoSlot}] /\ NbtSize \in Nat
      /\ st.addr \in [Refs -> Address] /\ AddrOK(st.addr) /\ IndexOK(st.nbr, st.idx, st.used)
  BY ParentConstants DEF MoveOK
<1>4. n \in NbtSlots \cup {NoSlot}
  BY <1>1, <1>3
<1>5. e \in Entry /\ e.used /\ e.ref = r
  BY <1>1 DEF Entry
<1>11. s \notin Strangers /\ (place => st.used < NbtSize)
  BY <1>10
<1> HIDE DEF Q, F, r, a, e, s, place
<1>6. CASE n # NoSlot
  <2>1. n \in NbtSlots
    BY <1>4, <1>6
  <2>2. old \in Entry /\ old.used = st.nbr[n].used /\ old.ref = st.nbr[n].ref
    <3> DEFINE m == st.nbr[n]
    <3>1. m \in Entry
      BY <1>3, <2>1
    <3> HIDE DEF m
    <3>2. [m EXCEPT !.type = IF m.type = "coordinator" THEN "router" ELSE m.type] \in Entry
      BY <3>1 DEF Entry
    <3>3. /\ [m EXCEPT !.type = IF m.type = "coordinator" THEN "router" ELSE m.type].used = m.used
          /\ [m EXCEPT !.type = IF m.type = "coordinator" THEN "router" ELSE m.type].ref = m.ref
      BY <3>1 DEF Entry
    <3> QED
      BY <3>2, <3>3 DEF m
  <2> DEFINE nbr2 == [st.nbr EXCEPT ![n] = old]
  <2>3. st1 = [addr |-> st.addr, used |-> st.used, nbr |-> nbr2, idx |-> st.idx,
               bad |-> st.bad \/ ~st.nbr[n].used]
    <3>1. st1 = [st EXCEPT !.nbr = nbr2, !.bad = st.bad \/ ~st.nbr[n].used]
      OBVIOUS
    <3> HIDE DEF nbr2, st1, n
    <3> QED
      BY <1>3, <3>1
  <2> HIDE DEF old
  <2>4. nbr2 \in [NbtSlots -> Entry] /\ \A m \in NbtSlots : nbr2[m].used = st.nbr[m].used /\ nbr2[m].ref = st.nbr[m].ref
    BY <1>3, <2>1, <2>2
  <2> HIDE DEF nbr2
  <2>5. IndexOK(nbr2, st.idx, st.used)
    BY <1>3, <2>4, IndexKept
  <2>6. Moved(st, k) = st1
    BY <1>2, <1>6, <1>11
  <2>7. (st.bad \/ ~st.nbr[n].used) \in BOOLEAN
    OBVIOUS
  <2> HIDE DEF st1, n
  <2>8. MoveOK(st1)
    BY <1>3, <2>3, <2>4, <2>5, <2>7 DEF MoveOK
  <2> QED
    BY <2>6, <2>8
<1>7. CASE n = NoSlot /\ place
  <2>1. Moved(st, k) = st2
    BY <1>2, <1>7, <1>11
  <2>2. st.used < NbtSize
    BY <1>7, <1>11
  <2> DEFINE nbr2 == [st.nbr EXCEPT ![st.used] = e]
             idx2 == [st.idx EXCEPT ![r] = st.used]
  <2>3. IndexOK(nbr2, idx2, st.used + 1)
    BY <1>1, <1>3, <1>5, <1>7, <2>2, IndexMade
  <2>4. st2 = [addr |-> a, used |-> st.used + 1, bad |-> st.bad, nbr |-> nbr2, idx |-> idx2]
    OBVIOUS
  <2> HIDE DEF nbr2, idx2, st2
  <2>5. nbr2 \in [NbtSlots -> Entry] /\ idx2 \in [Refs -> NbtSlots \cup {NoSlot}] /\ st.used + 1 \in 0 .. NbtSize
    BY <2>3 DEF IndexOK
  <2>6. st2 \in [addr : [Refs -> Address], used : 0 .. NbtSize, nbr : [NbtSlots -> Entry],
                idx : [Refs -> NbtSlots \cup {NoSlot}], bad : BOOLEAN]
    BY <1>1, <1>3, <2>4, <2>5
  <2>7. AddrOK(st2.addr) /\ IndexOK(st2.nbr, st2.idx, st2.used)
    BY <1>1, <2>3, <2>4
  <2>8. MoveOK(st2)
    BY <2>6, <2>7 DEF MoveOK
  <2> QED
    BY <2>1, <2>8
<1>8. CASE n = NoSlot /\ ~place
  <2>1. Moved(st, k) = st3
    BY <1>2, <1>8, <1>11
  <2>2. st3 = [addr |-> a, used |-> st.used, nbr |-> st.nbr, idx |-> st.idx, bad |-> st.bad]
    BY <1>3
  <2> HIDE DEF st3
  <2>3. MoveOK(st3)
    BY <1>1, <1>3, <2>2 DEF MoveOK
  <2> QED
    BY <2>1, <2>3
<1> QED
  BY <1>6, <1>7, <1>8

IsMoving(g, n) == g = [k \in 0 .. n |-> IF k = 0 THEN MoveStart ELSE Moved(g[k - 1], k)]

LEMMA MovingExists ==
  ASSUME NEW T \in Nat
  PROVE  \E g : IsMoving(g, T)
<1> DEFINE S == {k \in 0 .. T : ~ \E g : IsMoving(g, k)}
<1>1. ASSUME NEW k \in S PROVE k # 0 /\ k - 1 \in S
  <2>1. k # 0
    <3>1. ASSUME k = 0 PROVE FALSE
      <4> DEFINE g == [i \in 0 .. 0 |-> MoveStart]
      <4>1. g = [i \in 0 .. 0 |-> IF i = 0 THEN MoveStart ELSE Moved(g[i - 1], i)]
        OBVIOUS
      <4>2. IsMoving(g, 0)
        BY <4>1 DEF IsMoving
      <4> QED
        BY <3>1, <4>2
    <3> QED
      BY <3>1
  <2>2. ASSUME NEW g, IsMoving(g, k - 1) PROVE FALSE
    <3> DEFINE h == [i \in 0 .. k |-> IF i = k THEN Moved(g[k - 1], k) ELSE g[i]]
    <3>1. k \in Nat /\ k > 0
      BY <2>1
    <3>2. \A i \in 0 .. k - 1 : g[i] = IF i = 0 THEN MoveStart ELSE Moved(g[i - 1], i)
      BY <2>2 DEF IsMoving
    <3>3. \A i \in 0 .. k : h[i] = IF i = 0 THEN MoveStart ELSE Moved(h[i - 1], i)
      <4> TAKE i \in 0 .. k
      <4>1. CASE i = k
        <5>1. h[k] = Moved(g[k - 1], k) /\ h[k - 1] = g[k - 1]
          BY <3>1
        <5> QED
          BY <3>1, <4>1, <5>1
      <4>2. CASE i # k
        <5>1. i \in 0 .. k - 1 /\ h[i] = g[i]
          BY <3>1, <4>2
        <5>2. i # 0 => h[i - 1] = g[i - 1]
          BY <3>1, <5>1
        <5> HIDE DEF h
        <5> QED
          BY <3>2, <5>1, <5>2
      <4> QED
        BY <4>1, <4>2
    <3>4. h = [i \in 0 .. k |-> h[i]]
      OBVIOUS
    <3> HIDE DEF h
    <3>5. IsMoving(h, k)
      BY <3>3, <3>4 DEF IsMoving
    <3> QED
      BY <3>5
  <2>3. k - 1 \in 0 .. T
    BY <2>1
  <2> QED
    BY <2>1, <2>2, <2>3
<1>2. S = {}
  <2>1. S \in SUBSET Nat
    OBVIOUS
  <2> HIDE DEF S
  <2> QED
    BY <1>1, <2>1, NoFirst
<1>3. T \in 0 .. T
  OBVIOUS
<1> QED
  BY <1>2, <1>3

\* When the base table does not outgrow its memory in the end, it has not done so on the way.
LEMMA PlaceInside ==
  ASSUME NEW n, n \in 0 .. NbtSize, NEW k, k \in Nat, NEW L, L \in Nat, k <= L,
         base_size \in 0 .. NbtSize, ~HasPlace(NbtSize, L), HasPlace(n, k)
  PROVE  n < NbtSize
<1>1. SUFFICES ASSUME n = NbtSize PROVE FALSE
  BY ParentConstants
<1>2. k * ExtBytes <= L * ExtBytes /\ k * ExtBytes \in Nat /\ L * ExtBytes \in Nat
  BY ParentConstants
<1>3. (NbtSize + 1 - base_size) * NbrBytes \in Int
  BY ParentConstants
<1>4. (NbtSize + 1 - base_size) * NbrBytes <= k * ExtBytes
  BY <1>1 DEF HasPlace
<1>5. (NbtSize + 1 - base_size) * NbrBytes <= L * ExtBytes
  <2> DEFINE x == (NbtSize + 1 - base_size) * NbrBytes
             y == k * ExtBytes
             z == L * ExtBytes
  <2> HIDE DEF x, y, z
  <2> QED
    BY <1>2, <1>3, <1>4 DEF x, y, z
<1> QED
  BY <1>5 DEF HasPlace

\* Both tables are right after all of them have moved.
LEMMA MovingOK ==
  ASSUME Books, NEW g, IsMoving(g, Len(ext)), ~HasPlace(NbtSize, Len(ext))
  PROVE  MoveOK(g[Len(ext)])
<1>1. \A k \in 0 .. Len(ext) : g[k] = IF k = 0 THEN MoveStart ELSE Moved(g[k - 1], k)
  BY DEF IsMoving
<1>2. /\ base_size \in 0 .. NbtSize /\ Len(ext) \in Nat
      /\ \A k \in 1 .. Len(ext) : ext[k] \in Routers \cup Strangers
  BY DEF Books, RestOK
<1>3. MoveOK(MoveStart)
  BY DEF MoveStart, MoveOK, Books, TableOK, IndexOK, AddrOK
<1> DEFINE S == {k \in 0 .. Len(ext) : ~MoveOK(g[k])}
<1>4. ASSUME NEW k \in S PROVE k # 0 /\ k - 1 \in S
  <2>1. k # 0
    BY <1>1, <1>3
  <2>2. k \in 1 .. Len(ext) /\ k - 1 \in 0 .. Len(ext) /\ g[k] = Moved(g[k - 1], k)
      /\ ext[k] \in Routers \cup Strangers
    BY <1>1, <1>2, <2>1
  <2>3. ASSUME MoveOK(g[k - 1]) PROVE FALSE
    <3>1. g[k - 1].used \in 0 .. NbtSize
      BY <2>3 DEF MoveOK
    <3>2. k - 1 \in Nat /\ k - 1 <= Len(ext)
      BY <1>2, <2>2
    <3>3. HasPlace(g[k - 1].used, k - 1) => g[k - 1].used < NbtSize
      BY <1>2, <3>1, <3>2, PlaceInside
    <3> QED
      BY <2>2, <2>3, <3>3, MovedOK
  <2> QED
    BY <2>1, <2>2, <2>3
<1>5. S = {}
  <2>1. S \in SUBSET Nat
    BY <1>2
  <2> HIDE DEF S
  <2> QED
    BY <1>4, <2>1, NoFirst
<1>6. Len(ext) \in 0 .. Len(ext)
  BY <1>2
<1> QED
  BY <1>5, <1>6

-----------------------------------------------------------------------------
(* The steps. *)

\* Nothing of RestOK changes but the counters.
LEMMA RestKept ==
  ASSUME RestOK, UNCHANGED <<base_size, ext, rejoin_tbl, rejoin_resps>>,
         ed_child_num' \in Nat, router_child_num' \in Nat
  PROVE  RestOK'
BY DEF RestOK, OnWay

LEMMA AssignedType ==
  ASSUME RestOK, NEW type
  PROVE  Assigned(type) \in Nat
<1>1. /\ MaxRouters \in Nat /\ CSkip \in Nat /\ ed_child_num \in Nat /\ router_child_num \in Nat
  BY ParentConstants DEF RestOK
<1>2. router_child_num * CSkip + 1 \in Nat /\ MaxRouters * CSkip + ed_child_num + 1 \in Nat
  BY <1>1
<1> QED
  BY <1>2 DEF Assigned

LEMMA CountedOK ==
  ASSUME RestOK, UNCHANGED <<base_size, ext, rejoin_tbl, rejoin_resps>>, NEW more, Counted(more)
  PROVE  RestOK'
<1>1. ed_child_num' \in Nat /\ router_child_num' \in Nat
  BY DEF Counted, RestOK
<1> QED
  BY <1>1, RestKept

\* What is a neighbor has an entry.
LEMMA NeighborsAre ==
  ASSUME NEW d
  PROVE  /\ NeighborOf(d) \subseteq RefsOf(d) /\ RefsOf(d) \subseteq Refs
         /\ \A r \in NeighborOf(d) : addr_to_neighbor[r] # NoSlot
         /\ NeighborOf(d) # {} => Lowest(NeighborOf(d)) \in NeighborOf(d)
<1>1. /\ NeighborOf(d) \subseteq RefsOf(d) /\ RefsOf(d) \subseteq Refs
      /\ \A r \in NeighborOf(d) : addr_to_neighbor[r] # NoSlot
  BY DEF NeighborOf, RefsOf
<1>2. NeighborOf(d) \subseteq Refs
  BY <1>1
<1> QED
  BY <1>1, <1>2, FirstIn

\* The addresses that are known are numbers.
LEMMA ShortsAre ==
  ASSUME AddrOK(addr)
  PROVE  \A r \in Refs : addr[r].short \in Nat
BY DEF AddrOK, Address

\* The table and the addresses after a child was accepted.
LEMMA AcceptedOK ==
  ASSUME Books, NEW d \in Dev, NEW type \in {"router", "ed"}, NEW s \in Nat, ~fault', ~fault,
         AcceptKnown(d, type, s) \/ AcceptNew(d, type, s)
  PROVE  AddrOK(addr') /\ TableOK' /\ \E more : Counted(more)
<1>1. NewRel \in {"none", "child", "unauthenticated", "previous"} /\ type \in {"coordinator", "router", "ed"}
  BY DEF NewRel
<1>2. AddrOK(addr) /\ TableOK /\ base_size \in 0 .. NbtSize /\ base_used \in 0 .. NbtSize
      /\ NbtSize \in Nat
  BY ParentConstants DEF Books, RestOK, TableOK, IndexOK
<1>3. CASE AcceptKnown(d, type, s)
  <2>1. PICK r \in Same(d, type) : Put(r, {}, type, NewRel)
    BY <1>3 DEF AcceptKnown
  <2>2. r \in Refs /\ addr_to_neighbor[r] # NoSlot
    BY NeighborsAre DEF Same
  <2>3. {} \in SUBSET Refs /\ r \notin {}
    OBVIOUS
  <2>4. TableOK'
    BY <1>1, <1>2, <2>1, <2>2, <2>3, PutOK
  <2> QED
    BY <1>2, <1>3, <2>4 DEF AcceptKnown
<1>4. CASE AcceptNew(d, type, s)
  <2>1. /\ ~ (Outside /\ NeedsEntry(d, s))
        /\ addr' = Updated(d, s, TRUE)
        /\ Put(UpdatedRef(d, s), NeighborOf(d), type, NewRel)
        /\ Counted(type)
    BY <1>4 DEF AcceptNew
  <2> DEFINE r == UpdatedRef(d, s)
  <2>2. r \in Refs /\ AddrOK(addr')
    BY <1>2, <2>1, UpdatedOK
  <2>3. addr_to_neighbor[r] = NoSlot \/ r \in NeighborOf(d) => base_used < NbtSize
    <3>1. addr_to_neighbor[r] = NoSlot \/ r \in NeighborOf(d) => base_used < base_size
      BY <1>2, <2>1 DEF NeedsEntry, Outside
    <3> QED
      BY <1>2, <3>1
  <2>4. NeighborOf(d) \in SUBSET Refs
    BY NeighborsAre
  <2> HIDE DEF r
  <2>5. Put(r, NeighborOf(d), type, NewRel)
    BY <2>1 DEF r
  <2>6. TableOK'
    BY <1>1, <1>2, <2>2, <2>3, <2>4, <2>5, PutOK
  <2> QED
    BY <2>1, <2>2, <2>6
<1> QED
  BY <1>3, <1>4

\* An entry is dropped if there is one, with its address or without.
LEMMA DroppedFirst ==
  ASSUME TableOK, NEW d, IF NeighborOf(d) = {} THEN UNCHANGED base ELSE Dropped(Lowest(NeighborOf(d)))
  PROVE  TableOK'
<1>1. CASE NeighborOf(d) = {}
  BY <1>1 DEF base, TableOK
<1>2. CASE NeighborOf(d) # {}
  <2>1. Lowest(NeighborOf(d)) \in Refs /\ addr_to_neighbor[Lowest(NeighborOf(d))] # NoSlot
    BY <1>2, NeighborsAre
  <2>2. Dropped(Lowest(NeighborOf(d)))
    BY <1>2
  <2> QED
    BY <2>1, <2>2, DroppedOK
<1> QED
  BY <1>1, <1>2

\* The table and the addresses after a child was refused.
LEMMA RefusedOK ==
  ASSUME Books, NEW d \in Dev, NEW type \in {"router", "ed"}, Refuse(d, type)
  PROVE  AddrOK(addr') /\ TableOK' /\ \E more : Counted(more)
<1>1. TableOK'
  BY DroppedFirst DEF Refuse, Books
<1>2. Assigned(type) \in Nat
  BY AssignedType DEF Books
<1>3. AddrOK(addr')
  <2>1. CASE Room(type)
    <3>1. addr' = Updated(d, Assigned(type), FALSE)
      BY <2>1 DEF Refuse
    <3> QED
      BY <1>2, <3>1, UpdatedOK DEF Books
  <2>2. CASE ~Room(type)
    BY <2>2 DEF Refuse, Books
  <2> QED
    BY <2>1, <2>2
<1> QED
  BY <1>1, <1>3 DEF Refuse

\* What a step shows to keep the books.
LEMMA BooksAre ==
  ASSUME AddrOK(addr'), TableOK', RestOK'
  PROVE  Books'
BY DEF Books, AddrOK

LEMMA TableUnchanged ==
  ASSUME TableOK, UNCHANGED base
  PROVE  TableOK'
BY DEF TableOK, base

LEMMA AssociateIndicationOK ==
  ASSUME Books, ~fault, ~fault', NEW d \in Dev, NEW type \in {"router", "ed"},
         AssociateIndication(d, type)
  PROVE  Books'
<1>1. /\ UNCHANGED <<base_size, ext, rejoin_tbl, rejoin_resps>>
      /\ \/ \E s \in {addr[r].short : r \in RefsOf(d)} \cup {Assigned(type)} :
              AcceptKnown(d, type, s) \/ AcceptNew(d, type, s)
         \/ Refuse(d, type)
  BY DEF AssociateIndication
<1>2. AddrOK(addr') /\ TableOK' /\ \E more : Counted(more)
  <2>1. CASE Refuse(d, type)
    BY <2>1, RefusedOK
  <2>2. CASE \E s \in {addr[r].short : r \in RefsOf(d)} \cup {Assigned(type)} :
               AcceptKnown(d, type, s) \/ AcceptNew(d, type, s)
    <3>1. PICK s \in {addr[r].short : r \in RefsOf(d)} \cup {Assigned(type)} :
                 AcceptKnown(d, type, s) \/ AcceptNew(d, type, s)
      BY <2>2
    <3>2. s \in Nat
      BY AssignedType, ShortsAre, NeighborsAre DEF Books
    <3> QED
      BY <3>1, <3>2, AcceptedOK
  <2> QED
    BY <1>1, <2>1, <2>2
<1>3. RestOK'
  BY <1>1, <1>2, CountedOK DEF Books
<1> QED
  BY <1>2, <1>3, BooksAre

\* The responses on their way, one more and one less.
LEMMA OnWayMore ==
  ASSUME NEW resps \in [Dev -> Nat], IsFiniteSet(OnWay(resps)), NEW d \in Dev,
         NEW more, more = [resps EXCEPT ![d] = @ + 1]
  PROVE  more \in [Dev -> Nat] /\ IsFiniteSet(OnWay(more)) /\ Cardinality(OnWay(more)) = Cardinality(OnWay(resps)) + 1
<1> DEFINE x == <<d, resps[d] + 1>>
<1>1. more \in [Dev -> Nat] /\ more[d] = resps[d] + 1 /\ \A e \in Dev : e # d => more[e] = resps[e]
  OBVIOUS
<1>2. OnWay(more) = OnWay(resps) \cup {x}
  <2>1. ASSUME NEW y \in OnWay(more) PROVE y \in OnWay(resps) \cup {x}
    <3>0. PICK e \in Dev : \E k \in 1 .. more[e] : y = <<e, k>>
      BY DEF OnWay
    <3>1. PICK k \in 1 .. more[e] : y = <<e, k>>
      BY <3>0
    <3>2. CASE e = d
      BY <1>1, <3>1, <3>2 DEF OnWay
    <3>3. CASE e # d
      BY <1>1, <3>1, <3>3 DEF OnWay
    <3> QED
      BY <3>2, <3>3
  <2>2. ASSUME NEW y \in OnWay(resps) PROVE y \in OnWay(more)
    <3>0. PICK e \in Dev : \E k \in 1 .. resps[e] : y = <<e, k>>
      BY DEF OnWay
    <3>1. PICK k \in 1 .. resps[e] : y = <<e, k>>
      BY <3>0
    <3>2. k \in 1 .. more[e]
      BY <1>1, <3>1
    <3> QED
      BY <3>1, <3>2 DEF OnWay
  <2>3. x \in OnWay(more)
    <3>1. resps[d] + 1 \in 1 .. more[d]
      BY <1>1
    <3> QED
      BY <3>1 DEF OnWay
  <2> QED
    BY <2>1, <2>2, <2>3
<1>3. x \notin OnWay(resps)
  BY DEF OnWay
<1> DEFINE W == OnWay(resps)
<1>4. IsFiniteSet(W) /\ OnWay(more) = W \cup {x} /\ x \notin W
  BY <1>2, <1>3
<1> HIDE DEF x, W
<1>5. IsFiniteSet(OnWay(more)) /\ Cardinality(OnWay(more)) = Cardinality(W) + 1
  <2>1. IsFiniteSet(W \cup {x}) /\ Cardinality(W \cup {x}) = IF x \in W THEN Cardinality(W) ELSE Cardinality(W) + 1
    BY <1>4, FS_AddElement, Zenon
  <2> QED
    BY <1>4, <2>1, Zenon
<1> QED
  BY <1>1, <1>5 DEF W

LEMMA OnWayLess ==
  ASSUME NEW resps \in [Dev -> Nat], IsFiniteSet(OnWay(resps)), NEW d \in Dev, resps[d] > 0,
         NEW less, less = [resps EXCEPT ![d] = @ - 1]
  PROVE  less \in [Dev -> Nat] /\ IsFiniteSet(OnWay(less)) /\ Cardinality(OnWay(less)) = Cardinality(OnWay(resps)) - 1
<1> DEFINE x == <<d, resps[d]>>
<1>1. less \in [Dev -> Nat] /\ less[d] = resps[d] - 1 /\ \A e \in Dev : e # d => less[e] = resps[e]
  OBVIOUS
<1>2. OnWay(less) = OnWay(resps) \ {x}
  <2>1. ASSUME NEW y \in OnWay(less) PROVE y \in OnWay(resps) /\ y # x
    <3>0. PICK e \in Dev : \E k \in 1 .. less[e] : y = <<e, k>>
      BY DEF OnWay
    <3>1. PICK k \in 1 .. less[e] : y = <<e, k>>
      BY <3>0
    <3>2. k \in 1 .. resps[e] /\ (e = d => k # resps[d])
      BY <1>1, <3>1
    <3> QED
      BY <3>1, <3>2 DEF OnWay
  <2>2. ASSUME NEW y \in OnWay(resps), y # x PROVE y \in OnWay(less)
    <3>0. PICK e \in Dev : \E k \in 1 .. resps[e] : y = <<e, k>>
      BY DEF OnWay
    <3>1. PICK k \in 1 .. resps[e] : y = <<e, k>>
      BY <3>0
    <3>2. k \in 1 .. less[e]
      BY <1>1, <2>2, <3>1
    <3> QED
      BY <3>1, <3>2 DEF OnWay
  <2> QED
    BY <2>1, <2>2
<1>3. x \in OnWay(resps)
  <2>1. resps[d] \in 1 .. resps[d]
    OBVIOUS
  <2> QED
    BY <2>1 DEF OnWay
<1> DEFINE W == OnWay(resps)
<1>4. IsFiniteSet(W) /\ OnWay(less) = W \ {x} /\ x \in W
  BY <1>2, <1>3
<1> HIDE DEF x, W
<1>5. IsFiniteSet(OnWay(less)) /\ Cardinality(OnWay(less)) = Cardinality(W) - 1
  BY <1>4, FS_RemoveElement
<1> QED
  BY <1>1, <1>5 DEF W

LEMMA RejoinRequestOK ==
  ASSUME Books, ~fault, ~fault', NEW d \in Dev, NEW type \in {"router", "ed"}, RejoinRequest(d, type)
  PROVE  Books'
<1>1. UNCHANGED <<base_size, ext>> /\ RestOK
  BY DEF RejoinRequest, Books
<1>2. CASE Refuse(d, type) /\ UNCHANGED <<rejoin_tbl, rejoin_resps>>
  <2>1. AddrOK(addr') /\ TableOK' /\ \E more : Counted(more)
    BY <1>2, RefusedOK
  <2>2. RestOK'
    BY <1>1, <1>2, <2>1, CountedOK
  <2> QED
    BY <2>1, <2>2, BooksAre
<1>3. CASE /\ \E s \in {addr[r].short : r \in RefsOf(d)} \cup {Assigned(type)} :
                /\ AcceptKnown(d, type, s) \/ AcceptNew(d, type, s)
                /\ rejoin_tbl' = Append(rejoin_tbl, s)
           /\ rejoin_resps' = [rejoin_resps EXCEPT ![d] = @ + 1]
  <2>1. PICK s \in {addr[r].short : r \in RefsOf(d)} \cup {Assigned(type)} :
                /\ AcceptKnown(d, type, s) \/ AcceptNew(d, type, s)
                /\ rejoin_tbl' = Append(rejoin_tbl, s)
    BY <1>3
  <2>2. s \in Nat
    BY AssignedType, ShortsAre, NeighborsAre DEF Books
  <2>3. AddrOK(addr') /\ TableOK' /\ \E more : Counted(more)
    BY <2>1, <2>2, AcceptedOK
  <2>4. ed_child_num' \in Nat /\ router_child_num' \in Nat
    BY <1>1, <2>3 DEF Counted, RestOK
  <2>5. /\ rejoin_resps \in [Dev -> Nat] /\ rejoin_resps' = [rejoin_resps EXCEPT ![d] = @ + 1]
        /\ IsFiniteSet(OnWay(rejoin_resps)) /\ Cardinality(OnWay(rejoin_resps)) = Len(rejoin_tbl)
        /\ rejoin_tbl \in Seq(Nat)
    BY <1>1, <1>3 DEF RestOK
  <2>6. /\ IsFiniteSet(OnWay(rejoin_resps')) /\ rejoin_resps' \in [Dev -> Nat]
        /\ Cardinality(OnWay(rejoin_resps')) = Len(rejoin_tbl) + 1
    <3> DEFINE more == rejoin_resps'
    <3>1. more = [rejoin_resps EXCEPT ![d] = @ + 1]
      BY <2>5
    <3> HIDE DEF more
    <3>2. /\ IsFiniteSet(OnWay(more)) /\ more \in [Dev -> Nat]
          /\ Cardinality(OnWay(more)) = Cardinality(OnWay(rejoin_resps)) + 1
      BY <2>5, <3>1, OnWayMore
    <3> QED
      BY <2>5, <3>2 DEF more
  <2>7. rejoin_tbl' \in Seq(Nat) /\ Len(rejoin_tbl') = Len(rejoin_tbl) + 1
    BY <2>1, <2>2, <2>5
  <2>8. RestOK'
    BY <1>1, <2>4, <2>6, <2>7 DEF RestOK, OnWay
  <2> QED
    BY <2>3, <2>8, BooksAre
<1> QED
  BY <1>2, <1>3 DEF RejoinRequest

LEMMA RejoinRespSentOK ==
  ASSUME Books, ~fault, ~fault', NEW d \in Dev, RejoinRespSent(d)
  PROVE  Books'
<1>1. /\ rejoin_resps[d] > 0 /\ rejoin_resps' = [rejoin_resps EXCEPT ![d] = @ - 1]
      /\ rejoin_tbl # <<>> /\ rejoin_tbl' = SubSeq(rejoin_tbl, 1, Len(rejoin_tbl) - 1)
      /\ UNCHANGED <<addr, base, base_size, ext, ed_child_num, router_child_num>>
  BY DEF RejoinRespSent, table, counters
<1>2. /\ rejoin_resps \in [Dev -> Nat] /\ rejoin_tbl \in Seq(Nat)
      /\ IsFiniteSet(OnWay(rejoin_resps)) /\ Cardinality(OnWay(rejoin_resps)) = Len(rejoin_tbl)
  BY DEF Books, RestOK
<1>3. /\ IsFiniteSet(OnWay(rejoin_resps')) /\ rejoin_resps' \in [Dev -> Nat]
      /\ Cardinality(OnWay(rejoin_resps')) = Len(rejoin_tbl) - 1
  <2> DEFINE less == rejoin_resps'
  <2>1. less = [rejoin_resps EXCEPT ![d] = @ - 1]
    BY <1>1
  <2> HIDE DEF less
  <2>2. /\ IsFiniteSet(OnWay(less)) /\ less \in [Dev -> Nat]
        /\ Cardinality(OnWay(less)) = Cardinality(OnWay(rejoin_resps)) - 1
    BY <1>1, <1>2, <2>1, OnWayLess
  <2> QED
    BY <1>2, <2>2 DEF less
<1>4. rejoin_tbl' \in Seq(Nat) /\ Len(rejoin_tbl') = Len(rejoin_tbl) - 1
  <2> DEFINE L == Len(rejoin_tbl)
  <2>1. /\ L \in Nat /\ L > 0 /\ rejoin_tbl' = SubSeq(rejoin_tbl, 1, L - 1)
        /\ \A k \in 1 .. L - 1 : rejoin_tbl[k] \in Nat
    BY <1>1, <1>2, LenProperties, EmptySeq
  <2> HIDE DEF L
  <2>2. rejoin_tbl' \in Seq(Nat) /\ Len(rejoin_tbl') = L - 1
    BY <2>1, SubSeqProperties
  <2> QED
    BY <2>2 DEF L
<1>5. RestOK'
  BY <1>1, <1>3, <1>4 DEF RestOK, OnWay, Books
<1>6. AddrOK(addr') /\ TableOK'
  BY <1>1, TableUnchanged DEF Books
<1> QED
  BY <1>5, <1>6, BooksAre

LEMMA CommStatusOK ==
  ASSUME Books, ~fault, ~fault', NEW d \in Dev, NEW ok \in BOOLEAN, CommStatus(d, ok)
  PROVE  Books'
<1>1. UNCHANGED <<base_size, ext, rejoin_tbl, rejoin_resps, ed_child_num, router_child_num>>
  BY DEF CommStatus, counters
<1>2. RestOK'
  BY <1>1, RestKept DEF Books, RestOK
<1>3. CASE ok \/ NeighborOf(d) = {}
  <2>1. UNCHANGED <<addr, base>>
    BY <1>3 DEF CommStatus
  <2> QED
    BY <1>2, <2>1, TableUnchanged, BooksAre DEF Books
<1>4. CASE ~ok /\ NeighborOf(d) # {}
  <2> DEFINE r == Lowest(NeighborOf(d))
  <2>1. Dropped(r) /\ addr' = Deleted(r)
    BY <1>4 DEF CommStatus
  <2>2. r \in Refs /\ addr_to_neighbor[r] # NoSlot
    BY <1>4, NeighborsAre
  <2> HIDE DEF r
  <2>3. AddrOK(addr') /\ TableOK'
    BY <2>1, <2>2, DroppedOK, DeletedOK DEF Books
  <2> QED
    BY <1>2, <2>3, BooksAre
<1> QED
  BY <1>3, <1>4

LEMMA LeaveIndicationOK ==
  ASSUME Books, ~fault, ~fault', NEW d \in Dev, LeaveIndication(d)
  PROVE  Books'
<1>1. UNCHANGED <<base_size, ext, rejoin_tbl, rejoin_resps, ed_child_num, router_child_num>>
  BY DEF LeaveIndication, counters, joins
<1>2. RestOK'
  BY <1>1, RestKept DEF Books, RestOK
<1>3. CASE NeighborOf(d) = {}
  <2>1. UNCHANGED <<addr, base>>
    BY <1>3 DEF LeaveIndication
  <2> QED
    BY <1>2, <2>1, TableUnchanged, BooksAre DEF Books
<1>4. CASE NeighborOf(d) # {}
  <2> DEFINE r == Lowest(NeighborOf(d))
  <2>1. Dropped(r) /\ addr' = Deleted(r)
    BY <1>4 DEF LeaveIndication
  <2>2. r \in Refs /\ addr_to_neighbor[r] # NoSlot
    BY <1>4, NeighborsAre
  <2> HIDE DEF r
  <2>3. AddrOK(addr') /\ TableOK'
    BY <2>1, <2>2, DroppedOK, DeletedOK DEF Books
  <2> QED
    BY <1>2, <2>3, BooksAre
<1> QED
  BY <1>3, <1>4

LEMMA LeaveRequestOK ==
  ASSUME Books, NEW d \in Dev, LeaveRequest(d)
  PROVE  Books'
<1>1. UNCHANGED <<base_size, ext, rejoin_tbl, rejoin_resps, router_child_num, addr, base>>
  BY DEF LeaveRequest, table, joins
<1>2. ed_child_num \in Nat /\ router_child_num \in Nat
  BY DEF Books, RestOK
<1>3. ed_child_num' = (ed_child_num - 1) % 256 \/ ed_child_num' = ed_child_num
  BY DEF LeaveRequest
<1>4. ed_child_num' \in Nat
  BY <1>2, <1>3
<1>5. RestOK'
  BY <1>1, <1>2, <1>4, RestKept DEF Books
<1> QED
  BY <1>1, <1>5, TableUnchanged, BooksAre DEF Books

LEMMA LeaveConfirmOK ==
  ASSUME Books, ~fault, ~fault', NEW s, LeaveConfirm(s)
  PROVE  Books'
<1>1. UNCHANGED <<base_size, ext, rejoin_tbl, rejoin_resps, ed_child_num, router_child_num, addr>>
  BY DEF LeaveConfirm, counters, joins
<1>2. RestOK'
  BY <1>1, RestKept DEF Books, RestOK
<1> DEFINE found == {r \in ByShort(s) : addr[r].dev # NoDev /\ addr_to_neighbor[r] # NoSlot}
           u == Lowest(found)
<1>3. found # {} /\ Dropped(u)
  BY DEF LeaveConfirm
<1>4. found \subseteq Refs /\ \A r \in found : addr_to_neighbor[r] # NoSlot
  BY DEF ByShort
<1>5. u \in found
  <2> HIDE DEF found
  <2> QED
    BY <1>3, <1>4, FirstIn
<1> HIDE DEF found, u
<1>6. TableOK'
  BY <1>3, <1>4, <1>5, DroppedOK DEF Books
<1> QED
  BY <1>1, <1>2, <1>6, BooksAre DEF Books

LEMMA LeaveFrameOK ==
  ASSUME Books, NEW d \in Dev, LeaveFrame(d)
  PROVE  Books'
<1>1. UNCHANGED <<base_size, ext, rejoin_tbl, rejoin_resps, ed_child_num, router_child_num, base>>
  BY DEF LeaveFrame, counters, table, joins
<1>2. RestOK'
  BY <1>1, RestKept DEF Books, RestOK
<1>3. PICK r \in RefsOf(d) : addr' = Deleted(r) \/ UNCHANGED addr
  BY DEF LeaveFrame
<1>4. AddrOK(addr')
  BY <1>3, NeighborsAre, DeletedOK DEF Books
<1> QED
  BY <1>1, <1>2, <1>4, TableUnchanged, BooksAre DEF Books

\* The addresses that frames come with are numbers.
LEMMA HeardShort ==
  ASSUME AddrOK(addr), NEW d \in Dev, NEW s \in Foreign[d] \cup {addr[q].short : q \in RefsOf(d)}
  PROVE  s \in Nat
BY ParentConstants, ShortsAre, NeighborsAre

LEMMA SecuredFrameOK ==
  ASSUME Books, ~fault, ~fault', NEW d \in Dev, NEW ok \in BOOLEAN,
         NEW s \in Foreign[d] \cup {addr[q].short : q \in RefsOf(d)}, SecuredFrame(d, s, ok)
  PROVE  Books'
<1> DEFINE r == UpdatedRef(d, s)
           new == addr_to_neighbor[r] = NoSlot
           rel == IF EntryOf(r).rel \notin {"child", "unauthenticated"} THEN EntryOf(r).rel
                  ELSE IF ok THEN "child" ELSE "unauthenticated"
<1>1. /\ UNCHANGED <<base_size, ext, rejoin_tbl, rejoin_resps, ed_child_num, router_child_num>>
      /\ ~ (new /\ Outside)
      /\ addr' = Updated(d, s, new /\ ~Full)
      /\ IF new THEN IF Full THEN UNCHANGED base ELSE Put(r, {}, "coordinator", "none")
         ELSE Put(r, {}, EntryOf(r).type, rel)
  BY DEF SecuredFrame, Broken, counters, joins
<1>2. RestOK'
  BY <1>1, RestKept DEF Books, RestOK
<1>3. s \in Nat /\ (new /\ ~Full) \in BOOLEAN
  BY HeardShort DEF Books
<1>4. r \in Refs /\ AddrOK(addr')
  BY <1>1, <1>3, UpdatedOK DEF Books
<1> HIDE DEF r
<1>5. TableOK /\ {} \in SUBSET Refs /\ r \notin {}
  BY DEF Books
<1>6. TableOK'
  <2>1. CASE new /\ Full
    BY <1>1, <1>5, <2>1, TableUnchanged
  <2>2. CASE new /\ ~Full
    <3>1. base_used < base_size /\ base_size \in 0 .. NbtSize /\ NbtSize \in Nat /\ base_used \in 0 .. NbtSize
      BY <1>1, <2>2, ParentConstants DEF Outside, Books, RestOK, TableOK, IndexOK
    <3>2. base_used < NbtSize
      BY <3>1
    <3>3. Put(r, {}, "coordinator", "none")
      BY <1>1, <2>2
    <3> QED
      BY <1>4, <1>5, <3>2, <3>3, PutOK
  <2>3. CASE ~new
    <3>1. EntryOf(r) \in Entry
      BY <1>4, <2>3 DEF EntryOf, Books, TableOK, IndexOK
    <3>2. /\ EntryOf(r).type \in {"coordinator", "router", "ed"}
          /\ rel \in {"none", "child", "unauthenticated", "previous"}
      BY <3>1 DEF Entry
    <3>3. Put(r, {}, EntryOf(r).type, rel) /\ addr_to_neighbor[r] # NoSlot
      BY <1>1, <2>3
    <3> HIDE DEF rel
    <3> QED
      BY <1>4, <1>5, <3>2, <3>3, PutOK
  <2> QED
    BY <2>1, <2>2, <2>3
<1> QED
  BY <1>2, <1>4, <1>6, BooksAre

LEMMA DeviceAnnceOK ==
  ASSUME Books, ~fault, ~fault', NEW d \in Dev, NEW heard \in BOOLEAN,
         NEW s \in Foreign[d] \cup {addr[q].short : q \in RefsOf(d)}, DeviceAnnce(d, s, heard)
  PROVE  Books'
<1> DEFINE r == UpdatedRef(d, s)
           moved(q) == q \in NeighborOf(d) /\ addr[q].short # s /\ EntryOf(q).rel \in {"child", "unauthenticated"}
           nbr == [n \in NbtSlots |-> IF \E q \in Refs : moved(q) /\ n = addr_to_neighbor[q]
                                  THEN [base_neighbor[n] EXCEPT !.rel = "previous"] ELSE base_neighbor[n]]
<1>1. /\ UNCHANGED <<base_size, ext, rejoin_tbl, rejoin_resps, ed_child_num, router_child_num>>
      /\ addr' = Updated(d, s, TRUE)
      /\ \/ /\ ~Outside /\ addr_to_neighbor[r] = NoSlot /\ Put(r, {}, "coordinator", "none")
         \/ base_neighbor' = nbr /\ UNCHANGED <<base_used, addr_to_neighbor>>
  BY DEF DeviceAnnce, Broken, counters, joins
<1>2. RestOK'
  BY <1>1, RestKept DEF Books, RestOK
<1>3. s \in Nat
  BY HeardShort DEF Books
<1>4. r \in Refs /\ AddrOK(addr')
  BY <1>1, <1>3, UpdatedOK DEF Books
<1> HIDE DEF r
<1>5. TableOK /\ {} \in SUBSET Refs /\ r \notin {}
  BY DEF Books
<1>6. TableOK'
  <2>1. CASE ~Outside /\ addr_to_neighbor[r] = NoSlot /\ Put(r, {}, "coordinator", "none")
    <3>1. base_used < base_size /\ base_size \in 0 .. NbtSize /\ NbtSize \in Nat /\ base_used \in 0 .. NbtSize
      BY <2>1, ParentConstants DEF Outside, Books, RestOK, TableOK, IndexOK
    <3>2. base_used < NbtSize
      BY <3>1
    <3> QED
      BY <1>4, <1>5, <2>1, <3>2, PutOK
  <2>2. CASE base_neighbor' = nbr /\ UNCHANGED <<base_used, addr_to_neighbor>>
    <3>1. \A n \in NbtSlots : base_neighbor[n] \in Entry
      BY <1>5 DEF TableOK, IndexOK
    <3>2. \A n \in NbtSlots : /\ [base_neighbor[n] EXCEPT !.rel = "previous"] \in Entry
                          /\ [base_neighbor[n] EXCEPT !.rel = "previous"].used = base_neighbor[n].used
                          /\ [base_neighbor[n] EXCEPT !.rel = "previous"].ref = base_neighbor[n].ref
      BY <3>1 DEF Entry
    <3> HIDE DEF moved
    <3>3. nbr \in [NbtSlots -> Entry] /\ \A n \in NbtSlots : nbr[n].used = base_neighbor[n].used /\ nbr[n].ref = base_neighbor[n].ref
      BY <3>1, <3>2
    <3> HIDE DEF nbr
    <3>4. IndexOK(nbr, addr_to_neighbor, base_used)
      BY <1>5, <3>3, IndexKept DEF TableOK
    <3> QED
      BY <2>2, <3>4 DEF TableOK
  <2> QED
    BY <1>1, <2>1, <2>2
<1> QED
  BY <1>2, <1>4, <1>6, BooksAre

LEMMA ExNeighborStartOK ==
  ASSUME Books, ~fault, ~fault', ExNeighborStart
  PROVE  Books'
<1>1. /\ UNCHANGED <<addr, ext, rejoin_tbl, rejoin_resps, ed_child_num, router_child_num>>
      /\ base_size' = NbtSize - Cut
  BY DEF ExNeighborStart, counters, joins
<1>2. base_size' \in 0 .. NbtSize
  <2>1. base_used \in 0 .. NbtSize /\ NbtSize \in Nat
    BY ParentConstants DEF Books, TableOK, IndexOK
  <2>2. Cut \in 0 .. NbtSize
    BY <2>1 DEF Cut
  <2> QED
    BY <1>1, <2>1, <2>2
<1>3. RestOK'
  BY <1>1, <1>2 DEF Books, RestOK, OnWay
<1>4. TableOK'
  <2>1. CASE base_used = 0
    BY <2>1, TableUnchanged DEF ExNeighborStart, Books
  <2>2. CASE base_used # 0
    <3>1. base_neighbor' = Packing.nbr /\ addr_to_neighbor' = Packing.idx /\ base_used' = base_used
      BY <2>2 DEF ExNeighborStart
    <3>2. IndexOK(Packing.nbr, Packing.idx, base_used)
      BY PackingOK DEF Books
    <3> QED
      BY <3>1, <3>2 DEF TableOK
  <2> QED
    BY <2>1, <2>2
<1> QED
  BY <1>1, <1>3, <1>4, BooksAre DEF Books

LEMMA ExNeighborStopOK ==
  ASSUME Books, ~fault, ~fault', ExNeighborStop
  PROVE  Books'
<1> DEFINE L == Len(ext)
           g == CHOOSE f : f = [k \in 0 .. L |-> IF k = 0 THEN MoveStart ELSE Moved(f[k - 1], k)]
           end == g[L]
<1>1. /\ UNCHANGED <<rejoin_tbl, rejoin_resps, ed_child_num, router_child_num>>
      /\ addr' = end.addr /\ base_used' = end.used /\ base_neighbor' = end.nbr
      /\ addr_to_neighbor' = end.idx /\ ext' = <<>> /\ base_size' = NbtSize
      /\ ~HasPlace(NbtSize, L)
  BY DEF ExNeighborStop, counters, joins
<1>2. L \in Nat
  BY DEF Books, RestOK
<1>3. IsMoving(g, L)
  <2>1. \E f : f = [k \in 0 .. L |-> IF k = 0 THEN MoveStart ELSE Moved(f[k - 1], k)]
    BY <1>2, MovingExists DEF IsMoving
  <2> QED
    BY <2>1 DEF IsMoving
<1> HIDE DEF g
<1>4. MoveOK(end)
  BY <1>1, <1>3, MovingOK
<1> HIDE DEF end
<1>5. AddrOK(addr') /\ TableOK'
  BY <1>1, <1>4 DEF MoveOK, TableOK
<1>6. base_size' \in 0 .. NbtSize /\ ext' \in Seq(Routers \cup Strangers)
  BY <1>1, ParentConstants
<1>7. RestOK'
  BY <1>1, <1>6 DEF Books, RestOK, OnWay
<1> QED
  BY <1>5, <1>7, BooksAre

LEMMA BeaconOK ==
  ASSUME Books, NEW s \in Routers \cup Strangers, Beacon(s)
  PROVE  Books'
<1>1. /\ UNCHANGED <<addr, base, base_size, rejoin_tbl, rejoin_resps, ed_child_num, router_child_num>>
      /\ ext' = Append(ext, s)
  BY DEF Beacon, counters, joins
<1>2. ext \in Seq(Routers \cup Strangers)
  BY DEF Books, RestOK
<1>3. ext' \in Seq(Routers \cup Strangers)
  BY <1>1, <1>2
<1>4. RestOK'
  BY <1>1, <1>3 DEF Books, RestOK, OnWay
<1> QED
  BY <1>1, <1>4, TableUnchanged, BooksAre DEF Books

\* Steps that do not touch the books: of permission, and none at all.
LEMMA OtherOK ==
  ASSUME Books, UNCHANGED <<counters, addr, table, joins>>
  PROVE  Books'
<1>1. UNCHANGED <<addr, base, base_size, ext, rejoin_tbl, rejoin_resps, ed_child_num, router_child_num>>
  BY DEF counters, table, joins
<1>2. RestOK'
  BY <1>1 DEF Books, RestOK, OnWay
<1> QED
  BY <1>1, <1>2, TableUnchanged, BooksAre DEF Books

\* Where the alarms of the permission are touched.
LEMMA AlarmsKept ==
  ASSUME PermitAlarmOwn, ParentNext
  PROVE  PermitAlarmOwn'
<1>1. ASSUME UNCHANGED <<permit_join, permit_alarms>>
      PROVE  PermitAlarmOwn'
  BY <1>1 DEF PermitAlarmOwn
<1>2. ASSUME NEW d \in Dev, NEW t \in Types[d], AssociateIndication(d, t) \/ RejoinRequest(d, t)
      PROVE  UNCHANGED <<permit_join, permit_alarms>>
  <2>1. ASSUME NEW s, AcceptKnown(d, t, s) \/ AcceptNew(d, t, s)
        PROVE  UNCHANGED <<permit_join, permit_alarms>>
    BY <2>1 DEF AcceptKnown, AcceptNew, Counted, permits
  <2>2. ASSUME Refuse(d, t)
        PROVE  UNCHANGED <<permit_join, permit_alarms>>
    BY <2>2 DEF Refuse, Counted
  <2> QED
    BY <1>2, <2>1, <2>2, Zenon DEF AssociateIndication, RejoinRequest
<1>3. ASSUME NEW d \in Dev, RejoinRespSent(d) \/ LeaveRequest(d) \/ LeaveFrame(d) \/ LeaveIndication(d)
      PROVE  UNCHANGED <<permit_join, permit_alarms>>
  BY <1>3, Zenon DEF RejoinRespSent, LeaveRequest, LeaveFrame, LeaveIndication, permits
<1>4. ASSUME NEW d \in Dev, NEW ok \in BOOLEAN, CommStatus(d, ok)
      PROVE  UNCHANGED <<permit_join, permit_alarms>>
  BY <1>4 DEF CommStatus, permits
<1>5. ASSUME NEW d \in Dev, NEW s, NEW b \in BOOLEAN, SecuredFrame(d, s, b) \/ DeviceAnnce(d, s, b)
      PROVE  UNCHANGED <<permit_join, permit_alarms>>
  BY <1>5, Zenon DEF SecuredFrame, DeviceAnnce, Broken, permits
<1>6. ASSUME NEW t \in {"none", "timed", "ever"}, PermitJoiningRequest(t)
      PROVE  PermitAlarmOwn'
  <2>1. (IF permit_join THEN 0 ELSE permit_alarms) = 0
    BY Zenon DEF PermitAlarmOwn
  <2>2. /\ permit_join' = (t = "timed")
        /\ permit_alarms' = (IF permit_join THEN 0 ELSE permit_alarms) + (IF t = "timed" THEN 1 ELSE 0)
    BY <1>6 DEF PermitJoiningRequest
  <2>3. permit_alarms' = IF t = "timed" THEN 1 ELSE 0
    <3> DEFINE rest == IF permit_join THEN 0 ELSE permit_alarms
    <3>1. rest = 0 /\ permit_alarms' = rest + (IF t = "timed" THEN 1 ELSE 0)
      BY <2>1, <2>2
    <3> HIDE DEF rest
    <3> QED
      BY <3>1
  <2>4. CASE t = "timed"
    BY <2>2, <2>3, <2>4 DEF PermitAlarmOwn
  <2>5. CASE t # "timed"
    BY <2>2, <2>3, <2>5 DEF PermitAlarmOwn
  <2> QED
    BY <2>4, <2>5
<1>7. ASSUME PermitTimeout
      PROVE  PermitAlarmOwn'
  <2>1. /\ permit_alarms > 0 /\ permit_alarms' = permit_alarms - 1 /\ permit_join' = FALSE
    BY <1>7 DEF PermitTimeout
  <2>2. permit_alarms = 1 \/ permit_alarms = 0
    BY Zenon DEF PermitAlarmOwn
  <2>3. permit_alarms' = 0
    BY <2>1, <2>2
  <2> QED
    BY <2>1, <2>3 DEF PermitAlarmOwn
<1>8. ASSUME NEW s, LeaveConfirm(s) \/ Beacon(s)
      PROVE  UNCHANGED <<permit_join, permit_alarms>>
  BY <1>8 DEF LeaveConfirm, Beacon, permits
<1>9. ASSUME ExNeighborStart \/ ExNeighborStop
      PROVE  UNCHANGED <<permit_join, permit_alarms>>
  BY <1>9 DEF ExNeighborStart, ExNeighborStop, permits
<1>10. \/ UNCHANGED <<permit_join, permit_alarms>>
       \/ \E t \in {"none", "timed", "ever"} : PermitJoiningRequest(t)
       \/ PermitTimeout
  <2> HIDE DEF PermitAlarmOwn
  <2> QED
    BY <1>2, <1>3, <1>4, <1>5, <1>8, <1>9, Zenon DEF ParentNext
<1> QED
  BY <1>1, <1>6, <1>7, <1>10, Zenon

LEMMA BooksKept ==
  ASSUME Books, ParentNext, ~fault'
  PROVE  Books'
<1>0. ~fault
  BY DEF ParentNext
<1>1. ASSUME NEW d \in Dev, NEW t \in Types[d], AssociateIndication(d, t) \/ RejoinRequest(d, t)
      PROVE  Books'
  <2>1. t \in {"router", "ed"}
    BY ParentAssumption
  <2> QED
    BY <1>0, <1>1, <2>1, AssociateIndicationOK, RejoinRequestOK
<1>2. ASSUME NEW d \in Dev, RejoinRespSent(d) \/ LeaveRequest(d) \/ LeaveFrame(d) \/ LeaveIndication(d)
      PROVE  Books'
  BY <1>0, <1>2, RejoinRespSentOK, LeaveRequestOK, LeaveFrameOK, LeaveIndicationOK
<1>3. ASSUME NEW d \in Dev, NEW ok \in BOOLEAN, CommStatus(d, ok)
      PROVE  Books'
  BY <1>0, <1>3, CommStatusOK
<1>4. ASSUME NEW d \in Dev, NEW s \in Foreign[d] \cup {addr[q].short : q \in RefsOf(d)}, NEW b \in BOOLEAN,
             SecuredFrame(d, s, b) \/ DeviceAnnce(d, s, b)
      PROVE  Books'
  BY <1>0, <1>4, SecuredFrameOK, DeviceAnnceOK
<1>5. ASSUME NEW t \in {"none", "timed", "ever"}, PermitJoiningRequest(t)
      PROVE  Books'
  BY <1>5, OtherOK DEF PermitJoiningRequest
<1>6. ASSUME PermitTimeout
      PROVE  Books'
  BY <1>6, OtherOK DEF PermitTimeout
<1>7. ASSUME NEW s \in leaving, LeaveConfirm(s)
      PROVE  Books'
  BY <1>0, <1>7, LeaveConfirmOK
<1>8. ASSUME ExNeighborStart \/ ExNeighborStop
      PROVE  Books'
  BY <1>0, <1>8, ExNeighborStartOK, ExNeighborStopOK
<1>9. ASSUME NEW s \in Routers \cup Strangers, Beacon(s)
      PROVE  Books'
  BY <1>9, BeaconOK
<1> QED
  BY <1>1, <1>2, <1>3, <1>4, <1>5, <1>6, <1>7, <1>8, <1>9 DEF ParentNext

LEMMA ParentInitOK == ParentInit => ParentInv
<1> SUFFICES ASSUME ParentInit PROVE ParentInv
  OBVIOUS
<1>1. PermitAlarmOwn
  BY DEF ParentInit, PermitAlarmOwn
<1>2. AddrOK(addr)
  BY DEF ParentInit, AddrOK, Address
<1>3. TableOK
  <2>1. 0 \in 0 .. NbtSize
    BY ParentConstants
  <2> QED
    BY <2>1, NoEntryIsEntry DEF ParentInit, TableOK, IndexOK
<1>4. RestOK
  <2>1. OnWay(rejoin_resps) = {}
    BY DEF ParentInit, OnWay
  <2>2. IsFiniteSet(OnWay(rejoin_resps)) /\ Cardinality(OnWay(rejoin_resps)) = 0
    BY <2>1, FS_EmptySet
  <2>3. /\ ed_child_num \in Nat /\ router_child_num \in Nat /\ base_size \in 0 .. NbtSize
        /\ ext \in Seq(Routers \cup Strangers) /\ rejoin_tbl \in Seq(Nat) /\ Len(rejoin_tbl) = 0
        /\ rejoin_resps \in [Dev -> Nat]
    BY ParentConstants DEF ParentInit
  <2> QED
    BY <2>2, <2>3 DEF RestOK
<1> QED
  BY <1>1, <1>2, <1>3, <1>4 DEF ParentInv, Books

LEMMA ParentStep == ParentInv /\ [ParentNext]_parentVars => ParentInv'
<1> SUFFICES ASSUME ParentInv, [ParentNext]_parentVars PROVE ParentInv'
  OBVIOUS
<1>1. CASE ParentNext
  <2>1. ~fault
    BY <1>1 DEF ParentNext
  <2>2. PermitAlarmOwn'
    BY <1>1, AlarmsKept DEF ParentInv
  <2>3. ~fault' => Books'
    BY <1>1, <2>1, BooksKept DEF ParentInv
  <2> QED
    BY <2>2, <2>3 DEF ParentInv
<1>2. CASE UNCHANGED parentVars
  <2>1. UNCHANGED <<counters, addr, table, joins>> /\ UNCHANGED <<permit_join, permit_alarms, fault>>
    BY <1>2 DEF parentVars, permits
  <2>2. PermitAlarmOwn'
    BY <2>1 DEF ParentInv, PermitAlarmOwn
  <2>3. ~fault' => Books'
    BY <2>1, OtherOK DEF ParentInv
  <2> QED
    BY <2>2, <2>3 DEF ParentInv
<1> QED
  BY <1>1, <1>2

LEMMA ParentInvImplies == ParentInv => ChildrenSound /\ PermitAlarmOwn
BY DEF ParentInv, Books, TableOK, IndexOK, RestOK, OnWay, ChildrenSound, IndexAgrees, IndexSound,
       EntriesReachable, RejoinsSaved, EntryOf

\* While nothing has faulted, the neighbor table of a parent and the index of it by address
\* are inverse to each other and every entry can be reached, through zb_nwk_accept_child,
\* nwk_association_ind, zb_nwk_neighbor_delete, and the packing of the extended table in
\* zb_nwk_exneighbor_start and its refilling in zb_nwk_exneighbor_stop, for any devices,
\* routers and sizes of the tables, as long as the address table holds the devices and the
\* routers that are heard.
THEOREM ParentSpecChildrenSound == ParentSpec => []ChildrenSound
<1>1. ParentSpec => []ParentInv
  BY ParentInitOK, ParentStep, PTL DEF ParentSpec
<1> QED
  BY <1>1, ParentInvImplies, PTL

\* The alarm nwk_permit_timeout that is scheduled belongs to the permission to join in force:
\* zb_nlme_permit_joining_request cancels the one before it replaces or ends the permission.
THEOREM ParentSpecPermitAlarmOwn == ParentSpec => []PermitAlarmOwn
<1>1. ParentSpec => []ParentInv
  BY ParentInitOK, ParentStep, PTL DEF ParentSpec
<1> QED
  BY <1>1, ParentInvImplies, PTL
=============================================================================
