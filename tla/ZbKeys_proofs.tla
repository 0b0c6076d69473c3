----------------------------- MODULE ZbKeys_proofs -----------------------------
(***************************************************************************)
(* The network keys of any number of devices, whatever is asked for, and   *)
(* however frames wait, are lost and cross each other: a number means the  *)
(* same key everywhere up to the first switch, and the devices that keep   *)
(* their memory and get no key of the past can go on speaking.             *)
(***************************************************************************)
EXTENDS ZbKeys, TLAPS

DevSet == [slots : [0 .. N - 1 -> [key : Nat, seq : 0 .. 255]], i : 0 .. N - 1, seq : 0 .. 255,
           out : Nat, prev : Nat, auth : BOOLEAN]
Commands == {"data", "request", "transport", "update", "switch", "remove", "leave"}
FrameSet == [cmd : Commands, to : SUBSET Dev, dest : Dev \cup {All}, key : Nat, kseq : 0 .. 255,
             status : {"none", "secured rejoin", "unsecured"}, safe : BOOLEAN, same : 0 .. None]
AirSet == [f : FrameSet, by : Nat, seq : 0 .. 255, cnt : Nat]

Types ==
  /\ dev \in [Dev -> DevSet] /\ pend \in [Dev -> SUBSET FrameSet] /\ net \in [Links -> Seq(AirSet)]
  /\ switches \in Nat

\* Keys and switches that are broadcast go down the tree, no key goes to the trust center,
\* and what is for the trust center goes there.
OneHop(from, f, S) ==
  /\ f.dest = All /\ f.cmd # "data" => S \subseteq Children(from)
  /\ f.cmd \in {"transport", "update"} => f.dest # TC
  /\ f.cmd = "update" => f.dest # All
  /\ f.cmd \in {"request", "update"} => S \subseteq {TC}
Routes ==
  /\ \A d \in Dev : \A f \in pend[d] : OneHop(d, f, f.to)
  /\ \A l \in Links : \A k \in DOMAIN net[l] : OneHop(l[1], net[l][k].f, {l[2]})

\* The trust center keeps the keys it generated.
OwnKeys(v) == v.auth /\ \A j \in 0 .. N - 1 : v.slots[j].key = j /\ v.slots[j].seq = j
TcKeeps == OwnKeys(dev[TC])

\* The switch that was broadcast is the one whose confirm is awaited.
Announcing(f) == f.cmd = "switch" /\ f.dest = All
OneSwitch ==
  /\ \A f \in pend[TC] : Announcing(f) => keySw = "asked"
  /\ \A f, g \in pend[TC] : Announcing(f) /\ Announcing(g) => f = g
  /\ keySw # "no" => switches > 0

\* Asked to switch once, the trust center gets no further than the third number.
TcNumber ==
  /\ switches = 0 => dev[TC].seq <= 2
  /\ switches = 1 => dev[TC].seq <= 3
  /\ switches = 1 /\ keySw # "no" => dev[TC].seq <= 2

\* What may be in a slot up to the first switch.
Numbered(v) == \A j \in 0 .. N - 1 :
  v.slots[j].key # Zero => v.slots[j].key = v.slots[j].seq /\ v.slots[j].seq <= 2
KeysOf(v) == v.seq <= switches /\ Numbered(v)

\* Who can be told to go on with the keys it has.
Known == Restarting \cup {d \in Dev : dev[d].auth}

\* What may be sent up to the first switch, to whom, and how.
GoodTransport(f) ==
  \/ f.key = f.kseq /\ f.kseq <= switches
  \/ f.key = f.kseq /\ f.kseq <= switches + 1 /\ f.dest = All
  \/ f.key = Zero /\ f.kseq = 0 /\ f.dest \in Known
GoodFrame(f) ==
  /\ f.same = None \/ f.same <= switches
  /\ f.cmd = "switch" => f.kseq = 1 /\ switches > 0
  /\ f.cmd = "transport" => GoodTransport(f)
  /\ f.cmd = "update" /\ f.status = "secured rejoin" => f.dest \in Known
ForAll(f) == f.cmd = "transport" /\ f.dest = All
GoodPend(d, f) == GoodFrame(f) /\ (ForAll(f) => f.safe /\ dev[d].auth)
GoodAir(a) == GoodFrame(a.f) /\ a.seq <= switches /\ (ForAll(a.f) => a.f.safe /\ a.by # NoKey)

\* How a device that keeps its memory and gets no key of the past stores its keys.
Layout(v) ==
  /\ \A j \in 0 .. N - 1 : \/ v.slots[j].key = j /\ v.slots[j].seq = j
                           \/ v.slots[j].key = Zero /\ v.slots[j].seq = 0
  /\ v.i = v.seq
  /\ v.auth => v.slots[v.i].key = v.i
  /\ ~v.auth => v.i = 0 /\ \A j \in 0 .. N - 1 : v.slots[j].key = Zero
Steady == Dev \ (EndDevices \cup Restarting \cup late)

KeysRight ==
  FirstSwitch =>
    /\ \A d \in Dev : KeysOf(dev[d])
    /\ Layout(dev[TC])
    /\ \A d \in Steady : Layout(dev[d])
    /\ \A d \in Dev : \A f \in pend[d] : GoodPend(d, f)
    /\ \A l \in Links : \A k \in DOMAIN net[l] : GoodAir(net[l][k])

\* The inductive invariant.
IInv == Types /\ Routes /\ TcKeeps /\ OneSwitch /\ TcNumber /\ KeysRight

-----------------------------------------------------------------------------
(* The keys of a device. *)

\* Slots are counted modulo 3.
LEMMA Places ==
  /\ N = 3 /\ 0 .. N - 1 = {0, 1, 2} /\ N - 1 = 2
  /\ \A i, k \in 0 .. N - 1 : (i + k) % N \in 0 .. N - 1
  /\ \A i \in 0 .. N - 1 : (i + 0) % N = i
  /\ \A i \in 0 .. N - 1 : (i + 1) % N \in 0 .. N - 1
<1>1. N = 3
  BY DEF N
<1>2. \A i, k \in 0 .. 2 : (i + k) % 3 \in 0 .. 2
  OBVIOUS
<1>3. \A i \in 0 .. 2 : (i + 0) % 3 = i
  OBVIOUS
<1>4. \A i \in 0 .. 2 : (i + 1) % 3 \in 0 .. 2
  OBVIOUS
<1> QED
  BY <1>1, <1>2, <1>3, <1>4

LEMMA MinIs ==
  ASSUME NEW S \in SUBSET (0 .. N - 1), S # {}
  PROVE  Min(S) \in S /\ \A y \in S : Min(S) <= y
<1>1. \E x \in S : \A y \in S : x <= y
  <2>1. \A y \in S : y \in {0, 1, 2}
    BY Places
  <2>2. CASE 0 \in S
    BY <2>1, <2>2
  <2>3. CASE 0 \notin S /\ 1 \in S
    BY <2>1, <2>3
  <2>4. CASE 0 \notin S /\ 1 \notin S
    <3>1. \A y \in S : y = 2
      BY <2>1, <2>4
    <3>2. 2 \in S
      BY <3>1
    <3> QED
      BY <3>1, <3>2
  <2> QED
    BY <2>2, <2>3, <2>4
<1> QED
  BY <1>1, Zenon DEF Min

\* A search for a number finds a slot that has it, the active one first, or none.
LEMMA KeyBySeqIs ==
  ASSUME NEW v \in DevSet, NEW n
  PROVE  /\ \/ KeyBySeq(v, n) = NoKey
            \/ \E j \in 0 .. N - 1 : v.slots[j].seq = n /\ KeyBySeq(v, n) = v.slots[j].key
         /\ KeyBySeq(v, n) \in Nat
         /\ v.slots[v.i].seq = n => KeyBySeq(v, n) = v.slots[v.i].key
         /\ (\A j \in 0 .. N - 1 : v.slots[j].seq # n) => KeyBySeq(v, n) = NoKey
<1> DEFINE at == {k \in 0 .. N - 1 : v.slots[(v.i + k) % N].seq = n}
<1>1. v.i \in 0 .. N - 1 /\ \A j \in 0 .. N - 1 : v.slots[j].key \in Nat
  BY DEF DevSet
<1>2. KeyBySeq(v, n) = IF at = {} THEN NoKey ELSE v.slots[(v.i + Min(at)) % N].key
  BY DEF KeyBySeq
<1>3. at # {} => Min(at) \in at /\ \A y \in at : Min(at) <= y
  BY MinIs
<1>4. \A k \in at : k \in 0 .. N - 1 /\ v.slots[(v.i + k) % N].seq = n
  OBVIOUS
<1>5. v.slots[v.i].seq = n => 0 \in at
  BY <1>1, Places
<1>6. (\A j \in 0 .. N - 1 : v.slots[j].seq # n) => at = {}
  BY <1>1, Places
<1> HIDE DEF at
<1>7. at # {} => (v.i + Min(at)) % N \in 0 .. N - 1 /\ v.slots[(v.i + Min(at)) % N].seq = n
  BY <1>1, <1>3, <1>4, Places
<1>8. 0 \in at => Min(at) = 0
  BY <1>3, <1>4, Places
<1>9. KeyBySeq(v, n) \in Nat
  BY <1>1, <1>2, <1>7 DEF NoKey
<1>10. v.slots[v.i].seq = n => KeyBySeq(v, n) = v.slots[v.i].key
  <2>1. (v.i + 0) % N = v.i
    BY <1>1, Places
  <2> QED
    BY <1>2, <1>5, <1>8, <2>1
<1> QED
  BY <1>2, <1>6, <1>7, <1>9, <1>10

\* If the numbers in the slots are not all the same, the search for the place of a new key
\* stops.
LEMMA SearchStops ==
  ASSUME NEW v \in DevSet, NEW n
  PROVE  /\ SearchStop(v, n) \in 0 .. N
         /\ (\E j \in 0 .. N - 1 : v.slots[j].seq # n) => SearchStop(v, n) # N
<1> DEFINE shift == (v.i + 1) % N
           off == {k \in 0 .. N - 1 : v.slots[(k + shift) % N].seq # n}
<1>1. v.i \in 0 .. N - 1 /\ shift \in 0 .. N - 1
  <2>1. v.i \in 0 .. N - 1
    BY DEF DevSet
  <2> QED
    BY <2>1, Places
<1>2. SearchStop(v, n) = IF off = {} THEN N ELSE Min(off)
  BY DEF SearchStop
<1>3. off # {} => Min(off) \in 0 .. N - 1
  BY MinIs
<1>4. ASSUME NEW j \in 0 .. N - 1, v.slots[j].seq # n
      PROVE  off # {}
  <2>1. \A s, i \in 0 .. 2 : \E k \in 0 .. 2 : (k + s) % 3 = i
    <3>1. \A s, i \in 0 .. 2 : IF i >= s THEN i - s \in 0 .. 2 /\ (i - s + s) % 3 = i
                               ELSE i - s + 3 \in 0 .. 2 /\ (i - s + 3 + s) % 3 = i
      OBVIOUS
    <3> QED
      BY <3>1
  <2>2. PICK k \in 0 .. N - 1 : (k + shift) % N = j
    BY <1>1, <2>1, Places
  <2>3. k \in off
    BY <1>4, <2>2
  <2> QED
    BY <2>3
<1> HIDE DEF off
<1> QED
  BY <1>2, <1>3, <1>4, Places

\* A device that switches keeps its keys.
SwitchOf(v, n, w) ==
  /\ w \in DevSet /\ w.slots = v.slots /\ w.auth = v.auth
  /\ w = v \/ w.seq = n
  /\ SearchStop(v, n) # N => w.seq = n /\ w.i = SearchStop(v, n)
LEMMA SwitchedKeeps ==
  ASSUME NEW v \in DevSet, NEW n \in 0 .. 255, NEW isTc \in BOOLEAN,
         isTc => \E j \in 0 .. N - 1 : v.slots[j].seq # n
  PROVE  SwitchOf(v, n, Switched(v, n, isTc))
<1> DEFINE stop == SearchStop(v, n)
<1>1. stop \in 0 .. N /\ (isTc => stop # N)
  BY SearchStops
<1>2. Switched(v, n, isTc) = IF stop # N THEN SwitchedTo(v, stop, n) ELSE v
  BY <1>1 DEF Switched
<1>3. stop # N => stop \in 0 .. N - 1
  BY <1>1, Places
<1> HIDE DEF stop
<1>4. stop # N => /\ SwitchedTo(v, stop, n) \in DevSet
                  /\ SwitchedTo(v, stop, n).slots = v.slots /\ SwitchedTo(v, stop, n).auth = v.auth
                  /\ SwitchedTo(v, stop, n).seq = n /\ SwitchedTo(v, stop, n).i = stop
  BY <1>3 DEF SwitchedTo, DevSet
<1> QED
  BY <1>2, <1>4 DEF SwitchOf, stop

\* Where a key goes that arrives, and the key that is none.
Place(v, n) == (v.i + Octet(n - v.seq)) % N
Confirms(key, n) == key = Zero /\ n = 0

LEMMA PlaceIs ==
  ASSUME NEW v \in DevSet, NEW n \in 0 .. 255
  PROVE  /\ Octet(n - v.seq) \in 0 .. 255 /\ Place(v, n) \in 0 .. N - 1
         /\ Octet(n - v.seq) % N = 0 <=> Place(v, n) = v.i
         /\ n = v.seq => Place(v, n) = v.i
<1>1. v.i \in 0 .. 2 /\ v.seq \in 0 .. 255
  BY Places DEF DevSet
<1>2. \A x, y \in 0 .. 255 : (x - y) % 256 \in 0 .. 255 /\ (x = y => (x - y) % 256 = 0)
  <2>1. \A z \in Int : z % 256 \in 0 .. 255
    OBVIOUS
  <2>2. 0 % 256 = 0 /\ \A x, y \in 0 .. 255 : x - y \in Int /\ (x = y => x - y = 0)
    OBVIOUS
  <2> QED
    BY <2>1, <2>2, Zenon
<1>3. \A i \in 0 .. 2, m \in 0 .. 255 : (i + m) % 3 \in 0 .. 2 /\ (m % 3 = 0 <=> (i + m) % 3 = i)
  <2>1. \A m \in 0 .. 255 : (0 + m) % 3 \in 0 .. 2 /\ (m % 3 = 0 <=> (0 + m) % 3 = 0)
    OBVIOUS
  <2>2. \A m \in 0 .. 255 : (1 + m) % 3 \in 0 .. 2 /\ (m % 3 = 0 <=> (1 + m) % 3 = 1)
    OBVIOUS
  <2>3. \A m \in 0 .. 255 : (2 + m) % 3 \in 0 .. 2 /\ (m % 3 = 0 <=> (2 + m) % 3 = 2)
    OBVIOUS
  <2>4. \A i \in 0 .. 2 : i = 0 \/ i = 1 \/ i = 2
    OBVIOUS
  <2> QED
    BY <2>1, <2>2, <2>3, <2>4
<1>4. Octet(n - v.seq) \in 0 .. 255 /\ (n = v.seq => Octet(n - v.seq) = 0)
  <2>1. PICK s \in 0 .. 255 : s = v.seq
    BY <1>1, Zenon
  <2>2. (n - s) % 256 \in 0 .. 255 /\ (n = s => (n - s) % 256 = 0)
    BY <1>2, Zenon
  <2> QED
    BY <2>1, <2>2 DEF Octet
<1>5. 0 % 3 = 0
  OBVIOUS
<1> QED
  BY <1>1, <1>3, <1>4, <1>5, Places DEF Place

\* Storing a key field by field.
StoreOf(v, key, n, w) ==
  /\ w \in DevSet /\ w.auth
  /\ Confirms(key, n) => w.slots = v.slots
  /\ ~Confirms(key, n) => w.slots = [v.slots EXCEPT ![Place(v, n)] = [key |-> key, seq |-> n]]
  /\ w.i = IF v.auth THEN v.i ELSE IF Confirms(key, n) THEN 0 ELSE Place(v, n)
  /\ w.seq = IF v.auth /\ (Confirms(key, n) \/ Place(v, n) # v.i) THEN v.seq ELSE n
  /\ v.auth /\ (Confirms(key, n) \/ Place(v, n) # v.i \/ n = v.seq) => w.out = v.out
LEMMA StoreKeyIs ==
  ASSUME NEW v \in DevSet, NEW key \in Nat, NEW n \in 0 .. 255
  PROVE  StoreOf(v, key, n, StoreKey(v, key, n))
<1> DEFINE at == Place(v, n)
           kept == [v.slots EXCEPT ![at] = [key |-> key, seq |-> n]]
           seq == IF at = v.i THEN n ELSE v.seq
           out == IF at = v.i /\ n # v.seq THEN 0 ELSE v.out
           confirms == Confirms(key, n)
           stored == IF confirms THEN v ELSE [v EXCEPT !.slots = kept, !.seq = seq, !.out = out]
           place == IF confirms THEN 0 ELSE at
           w == StoreKey(v, key, n)
<1>1. w = IF v.auth THEN stored ELSE [stored EXCEPT !.auth = TRUE, !.seq = n, !.out = 0, !.i = place]
  BY Zenon DEF StoreKey, Place, Confirms
<1>2. at \in 0 .. N - 1 /\ v.i \in 0 .. N - 1 /\ v.seq \in 0 .. 255 /\ v.out \in Nat
  BY PlaceIs DEF DevSet
<1>3. kept \in [0 .. N - 1 -> [key : Nat, seq : 0 .. 255]]
  <2>1. v.slots \in [0 .. N - 1 -> [key : Nat, seq : 0 .. 255]] /\ [key |-> key, seq |-> n] \in [key : Nat, seq : 0 .. 255]
    BY DEF DevSet
  <2> QED
    BY <1>2, <2>1
<1>4. seq \in 0 .. 255 /\ out \in Nat /\ place \in 0 .. N - 1
  BY <1>2, Places
<1> HIDE DEF at, kept, seq, out, confirms, place, w
<1>5. /\ stored \in DevSet /\ stored.auth = v.auth
      /\ stored.slots = IF confirms THEN v.slots ELSE kept
      /\ stored.i = v.i
      /\ stored.seq = IF confirms THEN v.seq ELSE seq
      /\ stored.out = IF confirms THEN v.out ELSE out
  <2>1. CASE confirms
    BY <2>1
  <2>2. CASE ~confirms
    BY <2>2, <1>3, <1>4, Zenon DEF DevSet
  <2> QED
    BY <2>1, <2>2
<1> HIDE DEF stored
<1>6. ASSUME v.auth PROVE StoreOf(v, key, n, w)
  <2>1. w = stored
    BY <1>1, <1>6
  <2> QED
    BY <1>5, <1>6, <2>1 DEF seq, out, at, kept, confirms, StoreOf
<1>7. ASSUME ~v.auth PROVE StoreOf(v, key, n, w)
  <2>1. w = [stored EXCEPT !.auth = TRUE, !.seq = n, !.out = 0, !.i = place]
    BY <1>1, <1>7
  <2>2. w \in DevSet /\ w.auth /\ w.slots = stored.slots /\ w.i = place /\ w.seq = n
    BY <1>4, <1>5, <2>1, Zenon DEF DevSet
  <2> QED
    BY <1>5, <1>7, <2>2 DEF at, kept, confirms, place, StoreOf
<1>8. w = StoreKey(v, key, n)
  BY DEF w
<1> QED
  BY <1>6, <1>7, <1>8

\* A device with its keys in their places finds the second one when it switches first.
LEMMA SwitchedLayout ==
  ASSUME NEW v \in DevSet, NEW isTc \in BOOLEAN, Layout(v), v.auth, v.seq = 0,
         v.slots[1].seq = 1
  PROVE  Layout(Switched(v, 1, isTc)) /\ Switched(v, 1, isTc).seq = 1
<1> DEFINE shift == (v.i + 1) % N
           off == {k \in 0 .. N - 1 : v.slots[(k + shift) % N].seq # 1}
<1>1. v.i = 0 /\ v.slots[1].key = 1
  BY Places DEF Layout, Zero
<1>2. v.slots[2].seq = 2 \/ v.slots[2].seq = 0
  BY Places DEF Layout
<1>3. (0 + 1) % 3 = 1 /\ (0 + ((0 + 1) % 3)) % 3 = 1 /\ (1 + ((0 + 1) % 3)) % 3 = 2
  OBVIOUS
<1>4. 0 \notin off /\ 1 \in off
  <2>1. (0 + shift) % N = 1 /\ (1 + shift) % N = 2
    BY <1>1, <1>3, Places
  <2>2. 0 \in 0 .. N - 1 /\ 1 \in 0 .. N - 1 /\ v.slots[2].seq # 1
    BY <1>2, Places
  <2> HIDE DEF shift
  <2>3. v.slots[(0 + shift) % N].seq = 1 /\ v.slots[(1 + shift) % N].seq # 1
    BY <2>1, <2>2
  <2> QED
    BY <2>2, <2>3
<1>5. SearchStop(v, 1) = IF off = {} THEN N ELSE Min(off)
  BY DEF SearchStop
<1> HIDE DEF shift
<1>6. off # {} => Min(off) \in off /\ \A y \in off : Min(off) <= y
  BY MinIs
<1>7. \A k \in off : k \in {0, 1, 2}
  BY Places
<1> HIDE DEF off
<1>8. SearchStop(v, 1) = 1
  BY <1>4, <1>5, <1>6, <1>7
<1>9. \E j \in 0 .. N - 1 : v.slots[j].seq # 1
  BY <1>2, Places
<1>10. 1 \in 0 .. 255 /\ 1 # N
  BY Places
<1>11. /\ Switched(v, 1, isTc).slots = v.slots /\ Switched(v, 1, isTc).auth = v.auth
       /\ Switched(v, 1, isTc).seq = 1 /\ Switched(v, 1, isTc).i = 1
  <2>1. 1 \in 0 .. 255
    OBVIOUS
  <2>2. SwitchOf(v, 1, Switched(v, 1, isTc))
    BY <1>9, <2>1, SwitchedKeeps
  <2> QED
    BY <1>8, <1>10, <2>2 DEF SwitchOf
<1> QED
  BY <1>1, <1>11 DEF Layout

\* A key goes to its place, unless it comes for that of the active one.
LEMMA StoreKeyLayout ==
  ASSUME NEW v \in DevSet, Layout(v), v.seq <= 1, NEW n \in 0 .. 2,
         v.auth => n = v.seq \/ Place(v, n) # v.i
  PROVE  Layout(StoreKey(v, n, n))
<1> DEFINE w == StoreKey(v, n, n)
<1>0. n \in Nat /\ n \in 0 .. 255 /\ v.seq \in 0 .. 255 /\ v.i = v.seq /\ ~Confirms(n, n) /\ n \in 0 .. N - 1
  <2>1. ~Confirms(n, n)
    BY DEF Confirms, Zero
  <2> QED
    BY <2>1, Places DEF DevSet, Layout
<1>1. Place(v, n) = n
  <2>1. \A x \in 0 .. 2 : (0 + ((x - 0) % 256)) % 3 = x
    <3>1. (0 + ((0 - 0) % 256)) % 3 = 0 /\ (0 + ((1 - 0) % 256)) % 3 = 1 /\ (0 + ((2 - 0) % 256)) % 3 = 2
      OBVIOUS
    <3>2. \A x \in 0 .. 2 : x = 0 \/ x = 1 \/ x = 2
      OBVIOUS
    <3> QED
      BY <3>1, <3>2
  <2>2. \A x \in 0 .. 2, y \in {1} : (1 + ((x - y) % 256)) % 3 = IF x = 2 THEN 2 ELSE 1
    <3>1. \A z \in Int : -255 <= z /\ z < 0 => z % 256 = z + 256
      OBVIOUS
    <3>2. \A x \in 0 .. 2, y \in {1} : x - y \in Int /\ (x = 0 => (x - y) % 256 = 255)
      BY <3>1
    <3>3. (1 - 1) % 256 = 0 /\ (2 - 1) % 256 = 1
      OBVIOUS
    <3>4. (1 + 255) % 3 = 1 /\ (1 + 0) % 3 = 1 /\ (1 + 1) % 3 = 2
      OBVIOUS
    <3>5. \A x \in 0 .. 2 : x = 0 \/ x = 1 \/ x = 2
      OBVIOUS
    <3> QED
      BY <3>2, <3>3, <3>4, <3>5
  <2>3. CASE v.seq = 0
    BY <1>0, <2>1, <2>3, Places DEF Place, Octet
  <2>4. CASE v.seq = 1
    <3>1. v.auth
      BY <1>0, <2>4 DEF Layout
    <3>2. \A x \in 0 .. 2 : Place(v, x) = IF x = 2 THEN 2 ELSE 1
      BY <1>0, <2>2, <2>4, Places DEF Place, Octet
    <3>3. n # 0
      BY <1>0, <2>4, <3>1, <3>2
    <3>4. n = 1 \/ n = 2
      BY <3>3
    <3> QED
      BY <3>2, <3>4
  <2>5. v.seq = 0 \/ v.seq = 1
    BY <1>0
  <2> QED
    BY <2>3, <2>4, <2>5
<1>2. /\ w.auth
      /\ w.slots = [v.slots EXCEPT ![n] = [key |-> n, seq |-> n]]
      /\ w.i = IF v.auth THEN v.i ELSE n
      /\ w.seq = IF v.auth /\ n # v.i THEN v.seq ELSE n
  <2>1. StoreOf(v, n, n, w)
    BY <1>0, StoreKeyIs
  <2> HIDE DEF w
  <2> QED
    BY <1>0, <1>1, <2>1 DEF StoreOf
<1>3. DOMAIN v.slots = 0 .. N - 1
  BY DEF DevSet
<1>4. \A j \in 0 .. N - 1 : w.slots[j] = IF j = n THEN [key |-> n, seq |-> n] ELSE v.slots[j]
  BY <1>2, <1>3, Zenon
<1> HIDE DEF w
<1>5. \A j \in 0 .. N - 1 : \/ w.slots[j].key = j /\ w.slots[j].seq = j
                            \/ w.slots[j].key = Zero /\ w.slots[j].seq = 0
  BY <1>4 DEF Layout
<1>6. w.i = w.seq /\ w.slots[w.i].key = w.i
  <2>1. CASE v.auth
    <3>1. w.i = v.i /\ w.seq = v.i /\ v.slots[v.i].key = v.i /\ v.i \in 0 .. N - 1
      BY <1>0, <1>2, <2>1 DEF Layout, DevSet
    <3> QED
      BY <1>4, <3>1
  <2>2. CASE ~v.auth
    BY <1>0, <1>2, <1>4, <2>2
  <2> QED
    BY <2>1, <2>2
<1> QED
  BY <1>2, <1>5, <1>6 DEF Layout, w

\* A key that is under its number, or confirms those there are, keeps the numbers.
LEMMA StoreKeyGood ==
  ASSUME NEW v \in DevSet, NEW key \in Nat, NEW n \in 0 .. 255, NEW m \in Nat, m <= 1,
         v.seq <= m, Numbered(v),
         \/ key = n /\ n <= m
         \/ key = n /\ n <= m + 1 /\ v.auth
         \/ key = Zero /\ n = 0
  PROVE  StoreKey(v, key, n).seq <= m /\ Numbered(StoreKey(v, key, n))
<1> DEFINE w == StoreKey(v, key, n)
<1>1. StoreOf(v, key, n, w)
  BY StoreKeyIs
<1> HIDE DEF w
<1>2. DOMAIN v.slots = 0 .. N - 1 /\ v.seq \in 0 .. 255
  BY DEF DevSet
<1>3. \A j \in 0 .. N - 1 : w.slots[j] = v.slots[j] \/ (w.slots[j] = [key |-> key, seq |-> n] /\ ~Confirms(key, n))
  <2>1. CASE Confirms(key, n)
    BY <1>1, <2>1 DEF StoreOf
  <2>2. CASE ~Confirms(key, n)
    <3>1. w.slots = [v.slots EXCEPT ![Place(v, n)] = [key |-> key, seq |-> n]]
      BY <1>1, <2>2 DEF StoreOf
    <3> QED
      BY <1>2, <2>2, <3>1
  <2> QED
    BY <2>1, <2>2
<1>4. n = 2 /\ v.auth => Place(v, n) # v.i
  <2>1. ((2 - 0) % 256) % 3 = 2 /\ ((2 - 1) % 256) % 3 = 1
    OBVIOUS
  <2>2. v.seq = 0 \/ v.seq = 1
    <3>1. \A x \in 0 .. 255, y \in Nat : x <= y /\ y <= 1 => x = 0 \/ x = 1
      OBVIOUS
    <3> QED
      BY <1>2, <3>1
  <2>3. Octet(2 - v.seq) % N = 2 \/ Octet(2 - v.seq) % N = 1
    BY <2>1, <2>2, Places DEF Octet
  <2>4. 2 \in 0 .. 255 => (Octet(2 - v.seq) % N = 0 <=> Place(v, 2) = v.i)
    BY PlaceIs
  <2> QED
    BY <2>3, <2>4
<1>5. w.seq <= m
  <2>1. w.seq = v.seq \/ (w.seq = n /\ ~(v.auth /\ Place(v, n) # v.i))
    BY <1>1 DEF StoreOf
  <2>2. n <= m \/ (n <= m + 1 /\ v.auth)
    <3>1. 0 <= m
      OBVIOUS
    <3> QED
      BY <3>1
  <2>3. n <= m + 1 => n <= m \/ n = 2 \/ (n = 1 /\ m = 0)
    OBVIOUS
  <2>4. n = 1 /\ m = 0 /\ v.auth => Place(v, n) # v.i
    <3>1. n = 1 /\ m = 0 => v.seq = 0
      <4>1. \A x \in 0 .. 255, y \in Nat : x <= y /\ y = 0 => x = 0
        OBVIOUS
      <4> QED
        BY <1>2, <4>1
    <3>2. ((1 - 0) % 256) % 3 = 1
      OBVIOUS
    <3>3. n = 1 /\ m = 0 => Octet(n - v.seq) % N = 1
      BY <3>1, <3>2, Places DEF Octet
    <3>4. Octet(n - v.seq) % N = 0 <=> Place(v, n) = v.i
      BY PlaceIs
    <3> QED
      BY <3>3, <3>4
  <2> QED
    BY <1>4, <2>1, <2>2, <2>3, <2>4
<1>6. ~Confirms(key, n) => key = n /\ n <= 2
  BY DEF Confirms
<1> QED
  BY <1>3, <1>5, <1>6 DEF w, Numbered

-----------------------------------------------------------------------------
(* Frames, and who sends them to whom. *)

LEMMA Tree ==
  /\ \A d \in Dev : Children(d) \subseteq Dev \ {TC} /\ Neighbors(d) \subseteq Dev
  /\ \A l \in Links : l[1] \in Dev /\ l[2] \in Dev /\ l[2] \in Neighbors(l[1]) /\ l = <<l[1], l[2]>>
  /\ \A l \in Links : l[2] = TC => l[1] # TC
  /\ \A d, c \in Dev : c \in Children(d) => Neighbors(c) \ Children(c) \subseteq {d}
  /\ \A d \in Dev \ {TC} : Parent[d] \in Dev /\ d \in Children(Parent[d])
<1>1. TC \in Dev /\ Parent \in [Dev \ {TC} -> Dev]
  BY KeysAssumption
<1>2. \A d \in Dev : Children(d) \subseteq Dev \ {TC} /\ Neighbors(d) \subseteq Dev
  BY <1>1 DEF Children, Neighbors
<1>3. \A l \in Links : l[1] \in Dev /\ l[2] \in Dev /\ l[2] \in Neighbors(l[1]) /\ l = <<l[1], l[2]>>
  BY DEF Links
<1>4. TC \notin Neighbors(TC)
  BY DEF Children, Neighbors
<1>5. \A l \in Links : l[2] = TC => l[1] # TC
  BY <1>3, <1>4
<1>6. \A d, c \in Dev : c \in Children(d) => Neighbors(c) \ Children(c) \subseteq {d}
  BY DEF Children, Neighbors
<1>7. \A d \in Dev \ {TC} : Parent[d] \in Dev /\ d \in Children(Parent[d])
  BY <1>1 DEF Children
<1> QED
  BY <1>2, <1>3, <1>5, <1>6, <1>7

\* The frames the model makes, field by field.
Plain(f, cmd, to, dest) ==
  /\ f \in FrameSet /\ f.cmd = cmd /\ f.to = to /\ f.dest = dest
  /\ f.key = Zero /\ f.kseq = 0 /\ f.status = "none" /\ f.same = None
TransportOf(f, dest, to, safe, k) ==
  /\ f \in FrameSet /\ f.cmd = "transport" /\ f.to = to /\ f.dest = dest
  /\ f.safe = safe /\ f.key = k.key /\ f.kseq = k.kseq /\ f.same = None

LEMMA FrameIs ==
  /\ Plain(Frame, "data", {}, All)
  /\ Zero \in Nat /\ NoKey \in Nat /\ None \in 0 .. None /\ 0 \in 0 .. 255
<1>1. /\ Frame.cmd = "data" /\ Frame.to = {} /\ Frame.dest = All
      /\ Frame.key = Zero /\ Frame.kseq = 0 /\ Frame.status = "none" /\ Frame.same = None
  BY DEF Frame
<1>2. Zero \in Nat /\ NoKey \in Nat /\ None \in 0 .. None /\ 0 \in 0 .. 255
  BY DEF Zero, NoKey, None
<1>3. Frame \in FrameSet
  BY <1>2 DEF Frame, FrameSet, Commands
<1> QED
  BY <1>1, <1>2, <1>3 DEF Plain

LEMMA PlainIs ==
  ASSUME NEW cmd \in Commands, NEW to \in SUBSET Dev, NEW dest \in Dev \cup {All}
  PROVE  Plain([Frame EXCEPT !.cmd = cmd, !.to = to, !.dest = dest], cmd, to, dest)
<1>1. Plain(Frame, "data", {}, All)
  BY FrameIs
<1>2. \A g \in FrameSet :
        LET f == [g EXCEPT !.cmd = cmd, !.to = to, !.dest = dest]
        IN  /\ f \in FrameSet /\ f.cmd = cmd /\ f.to = to /\ f.dest = dest /\ f.key = g.key
            /\ f.kseq = g.kseq /\ f.status = g.status /\ f.same = g.same
  BY DEF FrameSet
<1> QED
  BY <1>1, <1>2 DEF Plain

LEMMA TransportKeyIs ==
  ASSUME NEW dest \in Dev \cup {All}, NEW to \in SUBSET Dev, NEW safe \in BOOLEAN,
         NEW k \in [key : Nat, kseq : 0 .. 255]
  PROVE  TransportOf(TransportKey(dest, to, safe, k), dest, to, safe, k)
<1>1. Plain(Frame, "data", {}, All) /\ "transport" \in Commands
  BY FrameIs DEF Commands
<1>2. k.key \in Nat /\ k.kseq \in 0 .. 255
  OBVIOUS
<1>3. TransportKey(dest, to, safe, k) =
        [cmd |-> "transport", to |-> to, dest |-> dest, key |-> k.key, kseq |-> k.kseq,
         status |-> "none", safe |-> safe, same |-> None]
  BY DEF TransportKey
<1>4. TransportKey(dest, to, safe, k) \in FrameSet
  BY <1>1, <1>2, <1>3, FrameIs DEF FrameSet
<1> QED
  BY <1>3, <1>4 DEF TransportOf

\* What the trust center hands out is the key it uses, or nothing.
LEMMA KeyForIs ==
  ASSUME NEW v \in DevSet, OwnKeys(v), NEW secured \in BOOLEAN
  PROVE  /\ KeyFor(v, secured) \in [key : Nat, kseq : 0 .. 255]
         /\ secured => KeyFor(v, secured).key = Zero /\ KeyFor(v, secured).kseq = 0
         /\ ~secured => KeyFor(v, secured).key = v.i /\ KeyFor(v, secured).kseq = v.seq
<1>1. v.i \in 0 .. N - 1 /\ v.seq \in 0 .. 255
  BY DEF DevSet
<1>2. ActiveKey(v) = v.i /\ v.i \in Nat
  BY <1>1, Places DEF ActiveKey, OwnKeys
<1> QED
  BY <1>1, <1>2, FrameIs DEF KeyFor

-----------------------------------------------------------------------------
(* What stays right in a step. *)

Same(v, w) == w.slots = v.slots /\ w.i = v.i /\ w.seq = v.seq /\ w.auth = v.auth

\* Counters count.
LEMMA Counts ==
  /\ \A u \in DevSet : /\ [u EXCEPT !.out = u.out + 1] \in DevSet
                       /\ Same(u, [u EXCEPT !.out = u.out + 1])
                       /\ [u EXCEPT !.out = u.out + 1].out = u.out + 1
  /\ \A u \in DevSet : /\ [u EXCEPT !.prev = u.prev + 1] \in DevSet
                       /\ Same(u, [u EXCEPT !.prev = u.prev + 1])
                       /\ [u EXCEPT !.prev = u.prev + 1].out = u.out
  /\ \A u \in DevSet : u.out \in Nat /\ u.prev \in Nat
<1>1. \A u \in DevSet : u.out \in Nat /\ u.prev \in Nat
  BY DEF DevSet
<1>2. \A u \in DevSet : u.out + 1 \in Nat /\ u.prev + 1 \in Nat
  BY <1>1
<1>3. \A u \in DevSet, m \in Nat : /\ [u EXCEPT !.out = m] \in DevSet
                                  /\ Same(u, [u EXCEPT !.out = m]) /\ [u EXCEPT !.out = m].out = m
  BY DEF DevSet, Same
<1>4. \A u \in DevSet, m \in Nat : /\ [u EXCEPT !.prev = m] \in DevSet
                                  /\ Same(u, [u EXCEPT !.prev = m]) /\ [u EXCEPT !.prev = m].out = u.out
  BY DEF DevSet, Same
<1> QED
  BY <1>1, <1>2, <1>3, <1>4

\* Frames stay good as long as no device forgets its keys but by a restart.
LEMMA FrameStays ==
  ASSUME switches \in Nat, switches' \in Nat, switches <= switches', Known \subseteq Known',
         NEW f \in FrameSet, GoodFrame(f)
  PROVE  GoodFrame(f)'
<1>1. f.same \in Nat /\ f.kseq \in Nat
  <2>1. f.same \in 0 .. None /\ f.kseq \in 0 .. 255
    BY DEF FrameSet
  <2> QED
    BY <2>1 DEF None
<1>2. GoodTransport(f) => GoodTransport(f)'
  BY <1>1 DEF GoodTransport
<1>3. f.same <= switches => f.same <= switches'
  BY <1>1
<1>4. switches > 0 => switches' > 0
  OBVIOUS
<1> QED
  BY <1>2, <1>3, <1>4 DEF GoodFrame

\* The step keeps what holds up to the first switch if what it changes is right.
Old(l, k) == \E j \in DOMAIN net[l] : net'[l][k] = net[l][j]

LEMMA KeysRightStep ==
  ASSUME IInv, Types', FirstSwitch' => FirstSwitch, switches <= switches', late \subseteq late',
         \A d \in Dev \ Restarting : dev[d].auth => dev'[d].auth,
         FirstSwitch' =>
           /\ \A d \in Dev : Same(dev[d], dev'[d]) \/ KeysOf(dev[d])'
           /\ Same(dev[TC], dev'[TC]) \/ Layout(dev'[TC])
           /\ \A d \in Steady' : Same(dev[d], dev'[d]) \/ Layout(dev'[d])
           /\ \A d \in Dev : \A f \in pend'[d] :
                \/ f \in pend[d] /\ (dev[d].auth => dev'[d].auth)
                \/ GoodPend(d, f)'
           /\ \A l \in Links : \A k \in DOMAIN net'[l] : Old(l, k) \/ GoodAir(net[l][k])'
  PROVE  KeysRight'
<1> SUFFICES ASSUME FirstSwitch'
             PROVE  KeysRight'
  BY DEF KeysRight
<1>1. FirstSwitch /\ KeysRight
  BY DEF IInv
<1>2. /\ \A d \in Dev : KeysOf(dev[d])
      /\ Layout(dev[TC])
      /\ \A d \in Steady : Layout(dev[d])
      /\ \A d \in Dev : \A f \in pend[d] : GoodPend(d, f)
      /\ \A l \in Links : \A k \in DOMAIN net[l] : GoodAir(net[l][k])
  BY <1>1 DEF KeysRight
<1>3. switches \in Nat /\ switches' \in Nat
  BY DEF IInv, Types
<1>4. Known \subseteq Known'
  BY DEF Known
<1>5. \A d \in Dev : KeysOf(dev[d])'
  <2> SUFFICES ASSUME NEW d \in Dev, Same(dev[d], dev'[d])
               PROVE  KeysOf(dev[d])'
    OBVIOUS
  <2>1. dev[d].seq <= switches /\ Numbered(dev[d])
    BY <1>2 DEF KeysOf
  <2>2. Numbered(dev'[d])
    BY <2>1 DEF Numbered, Same
  <2>3. dev[d].seq \in Nat
    <3>1. dev[d] \in DevSet
      BY DEF IInv, Types
    <3>2. dev[d].seq \in 0 .. 255
      BY <3>1 DEF DevSet
    <3> QED
      BY <3>2
  <2>4. dev'[d].seq <= switches'
    BY <1>3, <2>1, <2>3 DEF Same
  <2> QED
    BY <2>2, <2>4 DEF KeysOf, Numbered
<1>6. ASSUME NEW v, NEW w, Layout(v), Same(v, w)
      PROVE  Layout(w)
  BY <1>6 DEF Layout, Same
<1>7. Layout(dev[TC])'
  BY <1>2, <1>6 DEF Layout
<1>8. \A d \in Steady' : Layout(dev[d])'
  <2>1. \A d \in Steady' : d \in Steady
    BY DEF Steady
  <2>2. \A d \in Steady' : Layout(dev'[d])
    BY <1>2, <1>6, <2>1
  <2> QED
    BY <2>2 DEF Layout
<1>9. \A d \in Dev : \A f \in pend[d] : f \in FrameSet
  BY DEF IInv, Types
<1>10. \A l \in Links : \A k \in DOMAIN net[l] : net[l][k] \in AirSet
  <2>1. \A q \in Seq(AirSet) : \A k \in DOMAIN q : q[k] \in AirSet
    OBVIOUS
  <2> QED
    BY <2>1 DEF IInv, Types
<1>11. \A d \in Dev : \A f \in pend'[d] : GoodPend(d, f)'
  <2> SUFFICES ASSUME NEW d \in Dev, NEW f \in pend[d], dev[d].auth => dev'[d].auth
               PROVE  GoodPend(d, f)'
    OBVIOUS
  <2>1. GoodPend(d, f) /\ f \in FrameSet
    BY <1>2, <1>9
  <2>2. GoodFrame(f)'
    BY <1>3, <1>4, <2>1, FrameStays DEF GoodPend
  <2>3. ForAll(f) => f.safe /\ dev'[d].auth
    BY <2>1 DEF GoodPend
  <2> QED
    BY <2>2, <2>3 DEF GoodPend
<1>12. \A l \in Links : \A k \in DOMAIN net'[l] : GoodAir(net[l][k])'
  <2> SUFFICES ASSUME NEW l \in Links, NEW k \in DOMAIN net'[l], Old(l, k)
               PROVE  GoodAir(net[l][k])'
    OBVIOUS
  <2>1. PICK j \in DOMAIN net[l] : net'[l][k] = net[l][j]
    BY DEF Old
  <2>2. GoodAir(net[l][j]) /\ net[l][j] \in AirSet
    BY <1>2, <1>10
  <2>3. ASSUME NEW a \in AirSet, GoodAir(a)
        PROVE  GoodAir(a)'
    <3>1. a.f \in FrameSet /\ a.seq \in Nat
      BY DEF AirSet
    <3>2. GoodFrame(a.f) /\ a.seq <= switches /\ (ForAll(a.f) => a.f.safe /\ a.by # NoKey)
      BY <2>3 DEF GoodAir
    <3>3. GoodFrame(a.f)'
      BY <1>3, <1>4, <3>1, <3>2, FrameStays
    <3>4. a.seq <= switches'
      BY <1>3, <3>1, <3>2
    <3> QED
      BY <3>2, <3>3, <3>4 DEF GoodAir
  <2> QED
    BY <2>1, <2>2, <2>3
<1> QED
  BY <1>5, <1>7, <1>8, <1>11, <1>12 DEF KeysRight

\* Frames go where they may if those that are new do.
LEMMA RoutesStep ==
  ASSUME IInv,
         \A d \in Dev : \A f \in pend'[d] : f \in pend[d] \/ OneHop(d, f, f.to),
         \A l \in Links : \A k \in DOMAIN net'[l] : Old(l, k) \/ OneHop(l[1], net'[l][k].f, {l[2]})
  PROVE  Routes'
<1>1. /\ \A d \in Dev : \A f \in pend[d] : OneHop(d, f, f.to)
      /\ \A l \in Links : \A k \in DOMAIN net[l] : OneHop(l[1], net[l][k].f, {l[2]})
  BY DEF IInv, Routes
<1>2. \A d \in Dev : \A f \in pend'[d] : OneHop(d, f, f.to)
  BY <1>1
<1>3. \A l \in Links : \A k \in DOMAIN net'[l] : OneHop(l[1], net'[l][k].f, {l[2]})
  BY <1>1 DEF Old
<1> QED
  BY <1>2, <1>3 DEF Routes, OneHop, Children

\* What IInv says of the devices.
LEMMA Facts ==
  ASSUME IInv
  PROVE  /\ TC \in Dev /\ All \notin Dev /\ switches \in Nat
         /\ \A d \in Dev : dev[d] \in DevSet /\ dev[d].seq \in 0 .. 255 /\ dev[d].i \in 0 .. N - 1
         /\ \A d \in Dev : pend[d] \in SUBSET FrameSet
         /\ \A d \in Dev : dev[d].auth \in BOOLEAN
         /\ OwnKeys(dev[TC])
         /\ DOMAIN dev = Dev /\ DOMAIN pend = Dev /\ DOMAIN net = Links
<1>1. /\ dev \in [Dev -> DevSet] /\ pend \in [Dev -> SUBSET FrameSet] /\ net \in [Links -> Seq(AirSet)]
      /\ switches \in Nat
  BY DEF IInv, Types
<1>2. \A v \in DevSet : v.seq \in 0 .. 255 /\ v.i \in 0 .. N - 1 /\ v.auth \in BOOLEAN
  BY DEF DevSet
<1>3. OwnKeys(dev[TC])
  BY DEF IInv, TcKeeps
<1>4. \A d \in Dev : dev[d] \in DevSet
  BY <1>1
<1> QED
  BY <1>1, <1>2, <1>3, <1>4, KeysAssumption

\* A frame was added to those a device has to send, and devices keep their keys.
LEMMA AddFrames ==
  ASSUME IInv, NEW p \in Dev, NEW F \in SUBSET FrameSet,
         pend' = [pend EXCEPT ![p] = @ \cup F], net' = net, late' = late,
         dev' \in [Dev -> DevSet], \A d \in Dev : Same(dev[d], dev'[d]),
         switches' \in Nat, switches <= switches', OneSwitch', TcNumber',
         \A f \in F : OneHop(p, f, f.to),
         FirstSwitch' => \A f \in F : /\ GoodFrame(f) \/ GoodFrame(f)'
                                      /\ ForAll(f) => f.safe /\ dev[p].auth
  PROVE  IInv'
<1>1. \A d \in Dev : pend'[d] = IF d = p THEN pend[d] \cup F ELSE pend[d]
  BY Facts
<1>2. Types'
  <2>1. pend' \in [Dev -> SUBSET FrameSet]
    BY Facts DEF IInv, Types
  <2> QED
    BY <2>1 DEF IInv, Types
<1>3. \A l \in Links : \A k \in DOMAIN net'[l] : Old(l, k)
  BY DEF Old
<1>4. Routes'
  <2>1. \A d \in Dev : \A f \in pend'[d] : f \in pend[d] \/ OneHop(d, f, f.to)
    BY <1>1
  <2> QED
    BY <1>3, <2>1, RoutesStep
<1>5. TcKeeps'
  <2>1. OwnKeys(dev[TC]) /\ Same(dev[TC], dev'[TC])
    BY Facts
  <2>2. OwnKeys(dev'[TC])
    BY <2>1 DEF OwnKeys, Same
  <2> QED
    BY <2>2 DEF TcKeeps, OwnKeys
<1>6. FirstSwitch' => FirstSwitch
  <2>1. dev'[TC].seq = dev[TC].seq /\ switches \in Nat
    BY Facts DEF Same
  <2> QED
    BY <2>1 DEF FirstSwitch
<1>7. \A d \in Dev : dev[d].auth => dev'[d].auth
  BY DEF Same
<1>8. Known \subseteq Known'
  BY <1>7 DEF Known
<1>9. FirstSwitch' => \A f \in F : GoodPend(p, f)'
  <2> SUFFICES ASSUME FirstSwitch', NEW f \in F
               PROVE  GoodPend(p, f)'
    OBVIOUS
  <2>1. GoodFrame(f) => GoodFrame(f)'
    BY <1>8, Facts, FrameStays
  <2> QED
    BY <1>7, <2>1 DEF GoodPend
<1>10. \A d \in Dev : \A f \in pend'[d] : f \in pend[d] \/ (d = p /\ f \in F)
  BY <1>1
<1>11. KeysRight'
  <2>1. TC \in Dev /\ Steady' \subseteq Dev
    BY Facts DEF Steady
  <2> QED
    BY <1>2, <1>3, <1>6, <1>7, <1>9, <1>10, <2>1, KeysRightStep
<1> QED
  BY <1>2, <1>4, <1>5, <1>11 DEF IInv

\* Nothing is announced, and nothing switched.
LEMMA OneSwitchStays ==
  ASSUME IInv, keySw' = keySw, switches' = switches,
         \A f \in pend'[TC] : Announcing(f) => f \in pend[TC]
  PROVE  OneSwitch'
BY DEF IInv, OneSwitch
LEMMA TcNumberStays ==
  ASSUME IInv, keySw' = keySw, switches' = switches, dev'[TC].seq = dev[TC].seq
  PROVE  TcNumber'
BY DEF IInv, TcNumber

-----------------------------------------------------------------------------
(* Steps that ask for something. *)

\* The trust center hands out its key in a frame that is good.
Handed(f, to) ==
  /\ f \in FrameSet /\ ~Announcing(f) /\ ~ForAll(f) /\ f.to = to /\ OneHop(TC, f, to)
  /\ FirstSwitch => GoodFrame(f)
LEMMA HandOut ==
  ASSUME IInv, NEW c \in Dev \ {TC}, NEW to \in SUBSET Dev, NEW safe \in BOOLEAN, NEW v \in DevSet,
         OwnKeys(v), NEW secured \in BOOLEAN,
         FirstSwitch => v.i = v.seq /\ v.seq <= switches,
         FirstSwitch /\ secured => c \in Known
  PROVE  Handed(TransportKey(c, to, safe, KeyFor(v, secured)), to)
<1> DEFINE k == KeyFor(v, secured)
           f == TransportKey(c, to, safe, k)
<1>1. /\ k \in [key : Nat, kseq : 0 .. 255]
      /\ secured => k.key = Zero /\ k.kseq = 0
      /\ ~secured => k.key = v.i /\ k.kseq = v.seq
  BY KeyForIs
<1> HIDE DEF k
<1>2. TransportOf(f, c, to, safe, k)
  BY <1>1, TransportKeyIs
<1> HIDE DEF f
<1>3. /\ f \in FrameSet /\ f.cmd = "transport" /\ f.dest = c /\ f.to = to /\ f.key = k.key
      /\ f.kseq = k.kseq /\ f.same = None
  BY <1>2 DEF TransportOf
<1>4. c # All /\ c # TC
  BY Facts
<1>5. ~Announcing(f) /\ ~ForAll(f) /\ OneHop(TC, f, to)
  BY <1>3, <1>4 DEF Announcing, ForAll, OneHop
<1>6. FirstSwitch => GoodFrame(f)
  <2> SUFFICES ASSUME FirstSwitch
               PROVE  GoodFrame(f)
    OBVIOUS
  <2>1. GoodTransport(f)
    BY <1>1, <1>3 DEF GoodTransport
  <2> QED
    BY <1>3, <2>1 DEF GoodFrame
<1> QED
  BY <1>3, <1>5, <1>6 DEF f, k, Handed

\* Up to the first switch the trust center uses the key it says it uses.
LEMMA TcUses ==
  ASSUME IInv, FirstSwitch
  PROVE  /\ Layout(dev[TC]) /\ KeysOf(dev[TC])
         /\ dev[TC].i = dev[TC].seq /\ dev[TC].seq <= switches
         /\ \A d \in Dev : KeysOf(dev[d])
BY Facts DEF IInv, KeysRight, Layout, KeysOf

LEMMA JoinStep ==
  ASSUME IInv, NEW d \in Dev \ {TC}, NEW how \in {"join", "rejoin"}, Join(d, how)
  PROVE  IInv'
<1> DEFINE p == Parent[d]
           v == dev[d]
           secured == how = "rejoin" /\ HasPreconfiguredKey(v)
           f == AuthenticateChild(p, d, secured)
<1>1. p \in Dev /\ d \in Children(p) /\ d \in Dev /\ d # TC /\ d # All
  BY Tree, Facts
<1>2. /\ how # "join" => v.auth
      /\ pend' = [pend EXCEPT ![p] = @ \cup {f}]
      /\ dev' = IF secured THEN [dev EXCEPT ![d] = [v EXCEPT !.out = v.out + 1]] ELSE dev
      /\ net' = net /\ late' = late /\ switches' = switches /\ keySw' = keySw
  BY Zenon DEF Join
<1>3. secured \in BOOLEAN /\ (secured => d \in Known)
  BY <1>1, <1>2 DEF Known
<1> HIDE DEF secured
<1>4. v \in DevSet /\ dev \in [Dev -> DevSet]
  BY <1>1, Facts DEF IInv, Types
<1>5. dev' \in [Dev -> DevSet] /\ \A x \in Dev : Same(dev[x], dev'[x])
  <2>1. \A u \in DevSet : [u EXCEPT !.out = u.out + 1] \in DevSet /\ Same(u, [u EXCEPT !.out = u.out + 1])
    BY Counts
  <2>2. \A u : Same(u, u)
    BY DEF Same
  <2>3. CASE ~secured
    BY <1>2, <1>4, <2>2, <2>3
  <2>4. CASE secured
    <3> DEFINE u == [v EXCEPT !.out = v.out + 1]
    <3>1. dev' = [dev EXCEPT ![d] = u]
      BY <1>2, <2>4, Zenon
    <3>2. u \in DevSet /\ Same(v, u)
      BY <1>4, <2>1
    <3> HIDE DEF u
    <3> QED
      BY <1>4, <2>2, <3>1, <3>2
  <2> QED
    BY <2>3, <2>4
<1>6. /\ f \in FrameSet /\ ~Announcing(f) /\ ~ForAll(f) /\ OneHop(p, f, f.to)
      /\ FirstSwitch => GoodFrame(f)
  <2>1. CASE p = TC
    <3>1. f = TransportKey(d, {d}, FALSE, KeyFor(dev[TC], secured))
      BY <2>1 DEF AuthenticateChild
    <3>2. {d} \in SUBSET Dev /\ dev[TC] \in DevSet /\ OwnKeys(dev[TC])
      BY <1>1, Facts
    <3>3. FirstSwitch => dev[TC].i = dev[TC].seq /\ dev[TC].seq <= switches
      BY TcUses
    <3>4. Handed(TransportKey(d, {d}, FALSE, KeyFor(dev[TC], secured)), {d})
      BY <1>3, <3>2, <3>3, HandOut
    <3> HIDE DEF f
    <3> QED
      BY <2>1, <3>1, <3>4 DEF Handed
  <2>2. CASE p # TC
    <3> DEFINE status == IF secured THEN "secured rejoin" ELSE "unsecured"
    <3>1. f = [Frame EXCEPT !.cmd = "update", !.to = {TC}, !.dest = d, !.status = status]
      BY <2>2 DEF AuthenticateChild
    <3>2. status \in {"secured rejoin", "unsecured"} /\ (status = "secured rejoin" => d \in Known)
      BY <1>3
    <3>3. TC \in Dev /\ Plain(Frame, "data", {}, All) /\ "update" \in Commands
      BY Facts, FrameIs DEF Commands
    <3> HIDE DEF status
    <3>4. \A g \in FrameSet : \A h : h = [g EXCEPT !.cmd = "update", !.to = {TC}, !.dest = d, !.status = status]
            => h \in FrameSet /\ h.cmd = "update" /\ h.to = {TC} /\ h.dest = d /\ h.status = status /\ h.same = g.same
      <4> SUFFICES ASSUME NEW g \in FrameSet, NEW h,
                          h = [g EXCEPT !.cmd = "update", !.to = {TC}, !.dest = d, !.status = status]
                   PROVE  h \in FrameSet /\ h.cmd = "update" /\ h.to = {TC} /\ h.dest = d /\ h.status = status /\ h.same = g.same
        OBVIOUS
      <4>1. h \in FrameSet
        BY <1>1, <3>2, <3>3 DEF FrameSet
      <4>2. h.cmd = "update" /\ h.to = {TC} /\ h.dest = d
        BY DEF FrameSet
      <4>3. h.status = status /\ h.same = g.same
        BY DEF FrameSet
      <4> QED
        BY <4>1, <4>2, <4>3
    <3> HIDE DEF f
    <3>5. /\ f \in FrameSet /\ f.cmd = "update" /\ f.to = {TC} /\ f.dest = d /\ f.status = status
          /\ f.same = None
      BY <3>1, <3>3, <3>4 DEF Plain
    <3> QED
      BY <1>1, <3>2, <3>5 DEF Announcing, ForAll, OneHop, GoodFrame
  <2> QED
    BY <2>1, <2>2
<1> HIDE DEF f, p, v
<1>7. OneSwitch'
  <2>1. \A x \in pend'[TC] : x \in pend[TC] \/ x = f
    BY <1>1, <1>2, Facts
  <2> QED
    BY <1>2, <1>6, <2>1, OneSwitchStays
<1>8. TcNumber'
  <2>1. dev'[TC].seq = dev[TC].seq
    BY <1>5, Facts DEF Same
  <2> QED
    BY <1>2, <2>1, TcNumberStays
<1>9. {f} \in SUBSET FrameSet /\ switches' \in Nat /\ switches <= switches' /\ (FirstSwitch' => FirstSwitch)
  <2>1. dev'[TC].seq = dev[TC].seq
    BY <1>5, Facts DEF Same
  <2> QED
    BY <1>2, <1>6, <2>1, Facts DEF FirstSwitch
<1>10. /\ \A x \in {f} : OneHop(p, x, x.to)
       /\ FirstSwitch' => \A x \in {f} : (GoodFrame(x) \/ GoodFrame(x)') /\ (ForAll(x) => x.safe /\ dev[p].auth)
  BY <1>6, <1>9
<1> QED
  BY <1>1, <1>2, <1>5, <1>7, <1>8, <1>9, <1>10, AddFrames

LEMMA OctetNext ==
  /\ \A x \in 0 .. 255 : Octet(x + 1) \in 0 .. 255 /\ Octet(x + 1) # x
  /\ \A x \in 0 .. 254 : Octet(x + 1) = x + 1
<1>1. \A x \in 0 .. 255 : (x + 1) % 256 \in 0 .. 255
  OBVIOUS
<1>2. \A x \in 0 .. 254 : (x + 1) % 256 = x + 1
  OBVIOUS
<1>3. (255 + 1) % 256 = 0
  OBVIOUS
<1>4. \A x \in 0 .. 255 : x \in 0 .. 254 \/ x = 255
  OBVIOUS
<1>5. \A x \in 0 .. 255 : (x + 1) % 256 # x
  BY <1>2, <1>3, <1>4
<1> QED
  BY <1>1, <1>2, <1>5 DEF Octet

LEMMA UpdateKeysStep ==
  ASSUME IInv, UpdateKeys
  PROVE  IInv'
<1> DEFINE v == dev[TC]
           n == Octet(v.seq + 1)
           k == [key |-> KeyBySeq(v, n), kseq |-> n]
           f == TransportKey(All, Awake(TC), TRUE, k)
<1>1. /\ KeyBySeq(v, n) # NoKey /\ pend' = [pend EXCEPT ![TC] = @ \cup {f}]
      /\ dev' = dev /\ net' = net /\ late' = late /\ switches' = switches /\ keySw' = keySw
  BY Zenon DEF UpdateKeys
<1>2. v \in DevSet /\ OwnKeys(v) /\ v.seq \in 0 .. 255 /\ TC \in Dev
  BY Facts
<1> HIDE DEF v
<1>3. n \in 0 .. 255 /\ (v.seq <= 1 => n = v.seq + 1)
  <2>1. v.seq <= 1 => v.seq \in 0 .. 254
    BY <1>2
  <2> QED
    BY <1>2, <2>1, OctetNext
<1> HIDE DEF n
<1>4. KeyBySeq(v, n) = n /\ n \in Nat
  <2>1. PICK j \in 0 .. N - 1 : v.slots[j].seq = n /\ KeyBySeq(v, n) = v.slots[j].key
    BY <1>1, <1>2, KeyBySeqIs
  <2> QED
    BY <1>2, <1>3, <2>1 DEF OwnKeys
<1>5. k \in [key : Nat, kseq : 0 .. 255] /\ k.key = n /\ k.kseq = n
  BY <1>3, <1>4
<1> HIDE DEF k
<1>6. Awake(TC) \subseteq Children(TC) /\ Awake(TC) \in SUBSET Dev /\ All \in Dev \cup {All} /\ TRUE \in BOOLEAN
  BY <1>2, Tree DEF Awake
<1>7. TransportOf(f, All, Awake(TC), TRUE, k)
  BY <1>5, <1>6, TransportKeyIs
<1> HIDE DEF f
<1>8. /\ f \in FrameSet /\ f.cmd = "transport" /\ f.dest = All /\ f.to = Awake(TC) /\ f.safe = TRUE
      /\ f.key = n /\ f.kseq = n /\ f.same = None
  BY <1>5, <1>7 DEF TransportOf
<1>9. ~Announcing(f) /\ OneHop(TC, f, f.to)
  BY <1>6, <1>8, Facts DEF Announcing, OneHop
<1>10. FirstSwitch => GoodFrame(f) /\ f.safe /\ v.auth
  <2> SUFFICES ASSUME FirstSwitch
               PROVE  GoodFrame(f) /\ f.safe /\ v.auth
    OBVIOUS
  <2>1. v.seq <= switches /\ v.seq <= 1
    BY TcUses DEF FirstSwitch, v
  <2>2. n = v.seq + 1 /\ switches \in Nat
    BY <1>3, <2>1, Facts
  <2>3. n <= switches + 1
    BY <1>2, <2>1, <2>2
  <2>4. GoodTransport(f)
    BY <1>8, <2>3 DEF GoodTransport
  <2>5. GoodFrame(f)
    BY <1>8, <2>4 DEF GoodFrame
  <2> QED
    BY <1>2, <1>8, <2>5 DEF OwnKeys
<1>11. OneSwitch' /\ TcNumber'
  <2>1. \A x \in pend'[TC] : x \in pend[TC] \/ x = f
    BY <1>1, Facts
  <2>2. OneSwitch'
    BY <1>1, <1>9, <2>1, OneSwitchStays
  <2> QED
    BY <1>1, <2>2, TcNumberStays
<1>12. /\ dev' \in [Dev -> DevSet] /\ \A x \in Dev : Same(dev[x], dev'[x])
       /\ {f} \in SUBSET FrameSet /\ switches' \in Nat /\ switches <= switches' /\ (FirstSwitch' => FirstSwitch)
  BY <1>1, <1>8, Facts DEF Same, FirstSwitch, IInv, Types
<1>13. /\ \A x \in {f} : OneHop(TC, x, x.to)
       /\ FirstSwitch' => \A x \in {f} : (GoodFrame(x) \/ GoodFrame(x)') /\ (ForAll(x) => x.safe /\ dev[TC].auth)
  BY <1>9, <1>10, <1>12 DEF v
<1> QED
  BY <1>1, <1>2, <1>11, <1>12, <1>13, AddFrames

LEMMA SwitchBroadcastStep ==
  ASSUME IInv, SwitchBroadcast
  PROVE  IInv'
<1> DEFINE n == Octet(dev[TC].seq + 1)
           f == [Frame EXCEPT !.cmd = "switch", !.to = Awake(TC), !.kseq = n]
<1>1. /\ keySw = "no" /\ keySw' = "asked" /\ pend' = [pend EXCEPT ![TC] = @ \cup {f}]
      /\ dev' = dev /\ net' = net /\ late' = late /\ switches' = switches + 1
  BY Zenon DEF SwitchBroadcast
<1>2. dev[TC].seq \in 0 .. 255 /\ TC \in Dev /\ switches \in Nat
  BY Facts
<1>3. n \in 0 .. 255 /\ (dev[TC].seq = 0 => n = 1)
  <2>1. 0 \in 0 .. 254 /\ 0 + 1 = 1
    OBVIOUS
  <2> QED
    BY <1>2, <2>1, OctetNext
<1> HIDE DEF n
<1>4. Awake(TC) \subseteq Children(TC) /\ Awake(TC) \in SUBSET Dev /\ "switch" \in Commands
  BY <1>2, Tree DEF Awake, Commands
<1>5. /\ f \in FrameSet /\ f.cmd = "switch" /\ f.dest = All /\ f.to = Awake(TC) /\ f.kseq = n /\ f.same = None
  <2>1. \A g \in FrameSet :
          LET h == [g EXCEPT !.cmd = "switch", !.to = Awake(TC), !.kseq = n]
          IN  h \in FrameSet /\ h.cmd = "switch" /\ h.to = Awake(TC) /\ h.dest = g.dest /\ h.kseq = n /\ h.same = g.same
    BY <1>3, <1>4 DEF FrameSet
  <2>2. Frame \in FrameSet /\ Frame.dest = All /\ Frame.same = None
    BY FrameIs DEF Plain
  <2> QED
    BY <2>1, <2>2
<1> HIDE DEF f
<1>6a. PICK g \in FrameSet : /\ pend' = [pend EXCEPT ![TC] = @ \cup {g}] /\ g.cmd = "switch"
                             /\ g.dest = All /\ g.to = Awake(TC) /\ g.kseq = n /\ g.same = None
  BY <1>1, <1>5
<1>6. \A x \in pend'[TC] : x = g \/ x \in pend[TC]
  BY <1>2, <1>6a, Facts
<1>7. OneSwitch'
  <2>1. \A x \in pend[TC] : ~Announcing(x)
    BY <1>1 DEF IInv, OneSwitch
  <2>2. \A x \in pend'[TC] : Announcing(x) => x = g
    BY <1>6, <2>1
  <2>3. switches' > 0
    BY <1>1, <1>2
  <2> QED
    BY <1>1, <2>2, <2>3 DEF OneSwitch
<1>8. TcNumber'
  <2>1. switches = 0 => dev[TC].seq <= 2
    BY DEF IInv, TcNumber
  <2> QED
    BY <1>1, <1>2, <2>1 DEF TcNumber
<1>9. FirstSwitch' => GoodFrame(g)'
  <2> SUFFICES ASSUME FirstSwitch'
               PROVE  GoodFrame(g)'
    OBVIOUS
  <2>1. FirstSwitch /\ switches = 0 /\ switches' = 1
    BY <1>1, <1>2 DEF FirstSwitch
  <2>2. dev[TC].seq = 0
    BY <1>2, <2>1, TcUses
  <2> QED
    BY <1>3, <1>6a, <2>1, <2>2 DEF GoodFrame
<1>10. /\ dev' \in [Dev -> DevSet] /\ \A x \in Dev : Same(dev[x], dev'[x])
       /\ {g} \in SUBSET FrameSet /\ switches' \in Nat /\ switches <= switches'
  BY <1>1, <1>2 DEF Same, IInv, Types
<1>11. OneHop(TC, g, g.to) /\ ~ForAll(g)
  BY <1>4, <1>6a DEF OneHop, ForAll
<1>12. /\ \A x \in {g} : OneHop(TC, x, x.to)
       /\ FirstSwitch' => \A x \in {g} : (GoodFrame(x) \/ GoodFrame(x)') /\ (ForAll(x) => x.safe /\ dev[TC].auth)
  BY <1>9, <1>11
<1> QED
  BY <1>1, <1>2, <1>6a, <1>7, <1>8, <1>10, <1>12, AddFrames

LEMMA TalkStep ==
  ASSUME IInv, NEW d \in Dev, NEW x \in Neighbors(d), NEW cmd \in {"data", "request"}, Talk(d, x, cmd)
  PROVE  IInv'
<1> DEFINE f == [Frame EXCEPT !.cmd = cmd, !.to = {x}, !.dest = x]
<1>1. /\ cmd = "request" => x = TC
      /\ pend' = [pend EXCEPT ![d] = @ \cup {f}]
      /\ dev' = dev /\ net' = net /\ late' = late /\ switches' = switches /\ keySw' = keySw
  BY Zenon DEF Talk
<1>2. x \in Dev /\ x # All /\ {x} \in SUBSET Dev /\ cmd \in Commands
  BY Tree, Facts DEF Commands
<1>3. Plain(f, cmd, {x}, x)
  BY <1>2, PlainIs
<1> HIDE DEF f
<1>4. /\ f \in FrameSet /\ ~Announcing(f) /\ ~ForAll(f) /\ OneHop(d, f, f.to) /\ GoodFrame(f)
  BY <1>1, <1>2, <1>3 DEF Plain, Announcing, ForAll, OneHop, GoodFrame
<1>5. OneSwitch' /\ TcNumber'
  <2>1. \A y \in pend'[TC] : y \in pend[TC] \/ y = f
    BY <1>1, Facts
  <2>2. OneSwitch'
    BY <1>1, <1>4, <2>1, OneSwitchStays
  <2> QED
    BY <1>1, <2>2, TcNumberStays
<1>6. /\ dev' \in [Dev -> DevSet] /\ \A y \in Dev : Same(dev[y], dev'[y])
      /\ {f} \in SUBSET FrameSet /\ switches' \in Nat /\ switches <= switches'
  BY <1>1, <1>4, Facts DEF Same, IInv, Types
<1>7. /\ \A y \in {f} : OneHop(d, y, y.to)
      /\ FirstSwitch' => \A y \in {f} : (GoodFrame(y) \/ GoodFrame(y)') /\ (ForAll(y) => y.safe /\ dev[d].auth)
  BY <1>4
<1> QED
  BY <1>1, <1>5, <1>6, <1>7, AddFrames

\* Nothing of what IInv is about changes but the number of the links' frames.
LEMMA Idle ==
  ASSUME IInv, UNCHANGED <<dev, pend, late, switches, keySw>>, Types',
         \A l \in Links : \A k \in DOMAIN net'[l] : Old(l, k)
  PROVE  IInv'
<1>1. Routes'
  BY RoutesStep
<1>2. TcKeeps' /\ OneSwitch' /\ TcNumber'
  BY DEF IInv, TcKeeps, OwnKeys, OneSwitch, TcNumber, Announcing
<1>3. switches <= switches'
  BY Facts
<1>4. FirstSwitch' => FirstSwitch
  BY DEF FirstSwitch
<1>5. \A d \in Dev : Same(dev[d], dev'[d])
  BY DEF Same
<1>6. KeysRight'
  <2>1. TC \in Dev /\ Steady' \subseteq Dev
    BY Facts DEF Steady
  <2> QED
    BY <1>3, <1>4, <1>5, <2>1, KeysRightStep
<1> QED
  BY <1>1, <1>2, <1>6 DEF IInv

LEMMA SetAllowAuthStep ==
  ASSUME IInv, SetAllowAuth
  PROVE  IInv'
<1>1. UNCHANGED <<dev, pend, late, switches, keySw, net>>
  BY DEF SetAllowAuth
<1>2. Types'
  BY <1>1 DEF IInv, Types
<1>3. \A l \in Links : \A k \in DOMAIN net'[l] : Old(l, k)
  BY <1>1 DEF Old
<1> QED
  BY <1>1, <1>2, <1>3, Idle

\* A frame was taken from a link.
LEMMA TakeFrame ==
  ASSUME IInv, NEW l \in Links, net[l] # <<>>, net' = [net EXCEPT ![l] = Tail(@)]
  PROVE  /\ net' \in [Links -> Seq(AirSet)]
         /\ \A m \in Links : \A k \in DOMAIN net'[m] : Old(m, k)
         /\ Head(net[l]) \in AirSet /\ 1 \in DOMAIN net[l] /\ Head(net[l]) = net[l][1]
<1>1. net \in [Links -> Seq(AirSet)]
  BY DEF IInv, Types
<1>2. \A q \in Seq(AirSet) : q # <<>> =>
        /\ Tail(q) \in Seq(AirSet) /\ Head(q) \in AirSet /\ Head(q) = q[1] /\ 1 \in DOMAIN q
        /\ \A k \in DOMAIN Tail(q) : k + 1 \in DOMAIN q /\ Tail(q)[k] = q[k + 1]
  OBVIOUS
<1>3. \A m \in Links : net'[m] = IF m = l THEN Tail(net[m]) ELSE net[m]
  BY <1>1
<1>4. \A m \in Links : \A k \in DOMAIN net'[m] : Old(m, k)
  <2> SUFFICES ASSUME NEW m \in Links, NEW k \in DOMAIN net'[m]
               PROVE  \E j \in DOMAIN net[m] : net'[m][k] = net[m][j]
    BY DEF Old
  <2>1. CASE m = l
    BY <1>1, <1>2, <1>3, <2>1
  <2>2. CASE m # l
    BY <1>3, <2>2
  <2> QED
    BY <2>1, <2>2
<1> QED
  BY <1>1, <1>2, <1>4

LEMMA LoseStep ==
  ASSUME IInv, NEW l \in Links, Lose(l[2], l[1])
  PROVE  IInv'
<1>1. l = <<l[1], l[2]>>
  BY Tree
<1>2. /\ UNCHANGED <<dev, pend, late, switches, keySw>>
      /\ net[l] # <<>> /\ net' = [net EXCEPT ![l] = Tail(@)]
  BY <1>1 DEF Lose, boundVars
<1>3. Types' /\ \A m \in Links : \A k \in DOMAIN net'[m] : Old(m, k)
  BY <1>2, TakeFrame DEF IInv, Types
<1> QED
  BY <1>2, <1>3, Idle

-----------------------------------------------------------------------------
(* Switching. *)

\* The trust center keeps its keys when it switches, and always does.
TcSwitchOf(w, n) ==
  /\ w \in DevSet /\ OwnKeys(w) /\ w.seq = n
  /\ FirstSwitch /\ n = 1 /\ dev[TC].seq = 0 => Layout(w)
LEMMA TcSwitches ==
  ASSUME IInv, NEW n \in 0 .. 255
  PROVE  TcSwitchOf(Switched(dev[TC], n, TRUE), n)
<1>1. dev[TC] \in DevSet /\ OwnKeys(dev[TC]) /\ TRUE \in BOOLEAN
  BY Facts
<1>2. \E j \in 0 .. N - 1 : dev[TC].slots[j].seq # n
  <2>1. dev[TC].slots[0].seq = 0 /\ dev[TC].slots[1].seq = 1 /\ 0 \in 0 .. N - 1 /\ 1 \in 0 .. N - 1
    BY <1>1, Places, Zenon DEF OwnKeys
  <2> QED
    BY <2>1
<1> DEFINE w == Switched(dev[TC], n, TRUE)
<1>3. SwitchOf(dev[TC], n, w) /\ SearchStop(dev[TC], n) # N
  BY <1>1, <1>2, SwitchedKeeps, SearchStops
<1>4. FirstSwitch /\ n = 1 /\ dev[TC].seq = 0 => Layout(w)
  <2> SUFFICES ASSUME FirstSwitch, n = 1, dev[TC].seq = 0
               PROVE  Layout(Switched(dev[TC], 1, TRUE))
    OBVIOUS
  <2>1. Layout(dev[TC]) /\ dev[TC].auth /\ dev[TC].slots[1].seq = 1
    BY <1>1, TcUses, Places DEF OwnKeys
  <2> QED
    BY <1>1, <2>1, SwitchedLayout
<1> HIDE DEF w
<1>5. w \in DevSet /\ OwnKeys(w) /\ w.seq = n
  BY <1>1, <1>3 DEF SwitchOf, OwnKeys
<1> QED
  BY <1>4, <1>5 DEF w, TcSwitchOf

\* What that does to the devices.
LEMMA TcDevices ==
  ASSUME IInv, NEW n \in 0 .. 255, NEW w, TcSwitchOf(w, n), dev' = [dev EXCEPT ![TC] = w],
         FirstSwitch' => FirstSwitch /\ dev[TC].seq = 0 /\ n = 1 /\ 1 <= switches'
  PROVE  /\ dev' \in [Dev -> DevSet] /\ dev'[TC].seq = n
         /\ \A d \in Dev : dev[d].auth => dev'[d].auth
         /\ TcKeeps'
         /\ FirstSwitch' =>
              /\ \A d \in Dev : Same(dev[d], dev'[d]) \/ KeysOf(dev[d])'
              /\ Layout(dev'[TC])
              /\ \A d \in Steady' : Same(dev[d], dev'[d]) \/ Layout(dev'[d])
<1>1. \A d \in Dev : dev'[d] = IF d = TC THEN w ELSE dev[d]
  BY Facts
<1>2. w \in DevSet /\ OwnKeys(w) /\ w.seq = n /\ TC \in Dev /\ dev'[TC] = w
  BY <1>1, Facts DEF TcSwitchOf
<1>3. dev' \in [Dev -> DevSet]
  BY <1>2, Facts DEF IInv, Types
<1>4. TcKeeps'
  BY <1>2 DEF TcKeeps, OwnKeys
<1>5. \A d \in Dev : Same(dev[d], dev'[d]) \/ d = TC
  BY <1>1 DEF Same
<1>6. \A d \in Dev : dev[d].auth => dev'[d].auth
  BY <1>1, <1>2 DEF OwnKeys
<1>7. FirstSwitch' => Layout(dev'[TC])
  BY <1>2 DEF TcSwitchOf
<1>8. Numbered(w)
  BY <1>2, Places DEF OwnKeys, Numbered
<1>9. FirstSwitch' => KeysOf(dev[TC])'
  BY <1>2, <1>8 DEF KeysOf, Numbered
<1>10. Steady' \subseteq Dev
  BY DEF Steady
<1> QED
  BY <1>2, <1>3, <1>4, <1>5, <1>6, <1>7, <1>9, <1>10

LEMMA SwitchSentStep ==
  ASSUME IInv, SwitchSent
  PROVE  IInv'
<1> DEFINE n == Octet(dev[TC].seq + 1)
           w == Switched(dev[TC], n, TRUE)
<1>1. /\ keySw = "sent" /\ keySw' = "no" /\ dev' = [dev EXCEPT ![TC] = w]
      /\ pend' = pend /\ net' = net /\ late' = late /\ switches' = switches
  BY Zenon DEF SwitchSent, boundVars
<1>2. dev[TC].seq \in 0 .. 255 /\ TC \in Dev /\ switches \in Nat
  BY Facts
<1>3. n \in 0 .. 255 /\ (dev[TC].seq <= 254 => n = dev[TC].seq + 1)
  <2>1. dev[TC].seq <= 254 => dev[TC].seq \in 0 .. 254
    BY <1>2
  <2> QED
    BY <1>2, <2>1, OctetNext, Zenon
<1>4. TcSwitchOf(w, n)
  BY <1>3, TcSwitches
<1> HIDE DEF n, w
<1>5. switches > 0 /\ (switches = 1 => dev[TC].seq <= 2)
  BY <1>1 DEF IInv, OneSwitch, TcNumber
<1>6. dev'[TC].seq = n
  BY <1>1, <1>4, Facts DEF TcSwitchOf
<1>7. FirstSwitch' => FirstSwitch /\ dev[TC].seq = 0 /\ n = 1 /\ 1 <= switches'
  <2> SUFFICES ASSUME FirstSwitch'
               PROVE  FirstSwitch /\ dev[TC].seq = 0 /\ n = 1 /\ 1 <= switches'
    OBVIOUS
  <2>1. switches = 1 /\ n <= 1
    BY <1>1, <1>2, <1>5, <1>6 DEF FirstSwitch
  <2>2. dev[TC].seq = 0 /\ n = 1
    BY <1>2, <1>3, <1>5, <2>1, SMTT(40)
  <2> QED
    BY <1>1, <2>1, <2>2 DEF FirstSwitch
<1>8. /\ dev' \in [Dev -> DevSet]
      /\ \A d \in Dev : dev[d].auth => dev'[d].auth
      /\ TcKeeps'
      /\ FirstSwitch' =>
           /\ \A d \in Dev : Same(dev[d], dev'[d]) \/ KeysOf(dev[d])'
           /\ Layout(dev'[TC])
           /\ \A d \in Steady' : Same(dev[d], dev'[d]) \/ Layout(dev'[d])
  BY <1>1, <1>3, <1>4, <1>7, TcDevices
<1>9. Types'
  BY <1>1, <1>8 DEF IInv, Types
<1>10. \A l \in Links : \A k \in DOMAIN net'[l] : Old(l, k)
  BY <1>1 DEF Old
<1>11. Routes'
  BY <1>1, <1>10, RoutesStep
<1>12. OneSwitch'
  <2>1. \A f \in pend[TC] : ~Announcing(f)
    BY <1>1 DEF IInv, OneSwitch
  <2> QED
    BY <1>1, <2>1 DEF OneSwitch
<1>13. TcNumber'
  BY <1>1, <1>2, <1>3, <1>5, <1>6 DEF TcNumber
<1>14. KeysRight'
  BY <1>1, <1>2, <1>7, <1>8, <1>9, <1>10, KeysRightStep
<1> QED
  BY <1>8, <1>9, <1>11, <1>12, <1>13, <1>14 DEF IInv

LEMMA SwitchUnicastStep ==
  ASSUME IInv, SwitchUnicast
  PROVE  IInv'
<1> DEFINE n == Octet(dev[TC].seq + 1)
           w == Switched(dev[TC], n, TRUE)
           To(c) == [Frame EXCEPT !.cmd = "switch", !.to = {c}, !.dest = c, !.kseq = w.seq]
           S == {To(c) : c \in Awake(TC)}
<1>1. /\ dev' = [dev EXCEPT ![TC] = w] /\ pend' = [pend EXCEPT ![TC] = @ \cup S]
      /\ net' = net /\ late' = late /\ switches' = switches + 1 /\ keySw' = keySw
  BY Zenon DEF SwitchUnicast
<1>2. dev[TC].seq \in 0 .. 255 /\ TC \in Dev /\ switches \in Nat
  BY Facts
<1>3. n \in 0 .. 255 /\ (dev[TC].seq <= 254 => n = dev[TC].seq + 1)
  <2>1. dev[TC].seq <= 254 => dev[TC].seq \in 0 .. 254
    BY <1>2
  <2> QED
    BY <1>2, <2>1, OctetNext
<1>4. TcSwitchOf(w, n)
  BY <1>3, TcSwitches
<1>4a. w.seq = n
  BY <1>4 DEF TcSwitchOf
<1>5. \A f \in S : /\ f \in FrameSet /\ f.cmd = "switch" /\ f.dest \in Dev /\ f.kseq = n /\ f.same = None
  <2> SUFFICES ASSUME NEW c \in Awake(TC)
               PROVE  /\ To(c) \in FrameSet /\ To(c).cmd = "switch" /\ To(c).dest \in Dev
                      /\ To(c).kseq = n /\ To(c).same = None
    OBVIOUS
  <2> HIDE DEF w, n
  <2>1. c \in Dev /\ {c} \in SUBSET Dev /\ "switch" \in Commands
    BY <1>2, Tree DEF Awake, Commands
  <2>2. \A g \in FrameSet :
          LET h == [g EXCEPT !.cmd = "switch", !.to = {c}, !.dest = c, !.kseq = n]
          IN  h \in FrameSet /\ h.cmd = "switch" /\ h.dest = c /\ h.kseq = n /\ h.same = g.same
    BY <1>3, <2>1 DEF FrameSet
  <2>3. Frame \in FrameSet /\ Frame.same = None
    BY FrameIs DEF Plain
  <2> QED
    BY <1>4a, <2>1, <2>2, <2>3
<1> HIDE DEF n, w, S
<1>6. \A d \in Dev : \A f \in pend'[d] : f \in pend[d] \/ (d = TC /\ f \in S)
  BY <1>1, Facts
<1>7. \A f \in S : ~Announcing(f) /\ ~ForAll(f) /\ OneHop(TC, f, f.to)
  BY <1>5, Facts DEF Announcing, ForAll, OneHop
<1>8. dev'[TC].seq = n
  BY <1>1, <1>4, Facts DEF TcSwitchOf
<1>9. (switches = 0 => dev[TC].seq <= 2 /\ keySw = "no") /\ switches' \in Nat /\ switches <= switches' /\ switches' > 0
  BY <1>1, <1>2 DEF IInv, OneSwitch, TcNumber
<1>10. FirstSwitch' => FirstSwitch /\ dev[TC].seq = 0 /\ n = 1 /\ 1 <= switches'
  <2> SUFFICES ASSUME FirstSwitch'
               PROVE  FirstSwitch /\ dev[TC].seq = 0 /\ n = 1 /\ 1 <= switches'
    OBVIOUS
  <2>1. switches = 0 /\ n <= 1 /\ switches' = 1
    BY <1>1, <1>2, <1>8 DEF FirstSwitch
  <2>2. dev[TC].seq = 0 /\ n = 1
    BY <1>2, <1>3, <1>9, <2>1, SMTT(40)
  <2> QED
    BY <2>1, <2>2 DEF FirstSwitch
<1>11. /\ dev' \in [Dev -> DevSet]
       /\ \A d \in Dev : dev[d].auth => dev'[d].auth
       /\ TcKeeps'
       /\ FirstSwitch' =>
            /\ \A d \in Dev : Same(dev[d], dev'[d]) \/ KeysOf(dev[d])'
            /\ Layout(dev'[TC])
            /\ \A d \in Steady' : Same(dev[d], dev'[d]) \/ Layout(dev'[d])
  BY <1>1, <1>3, <1>4, <1>10, TcDevices
<1>12. Types'
  <2>1. S \in SUBSET FrameSet
    BY <1>5
  <2>2. pend' \in [Dev -> SUBSET FrameSet]
    BY <1>1, <1>2, <2>1, Facts DEF IInv, Types
  <2> QED
    BY <1>1, <1>9, <1>11, <2>2 DEF IInv, Types
<1>13. \A l \in Links : \A k \in DOMAIN net'[l] : Old(l, k)
  BY <1>1 DEF Old
<1>14. Routes'
  BY <1>6, <1>7, <1>13, RoutesStep
<1>15. OneSwitch'
  <2>1. \A f \in pend'[TC] : Announcing(f) => f \in pend[TC]
    BY <1>2, <1>6, <1>7
  <2> QED
    BY <1>1, <1>9, <2>1 DEF IInv, OneSwitch
<1>16. TcNumber'
  BY <1>1, <1>2, <1>3, <1>8, <1>9 DEF TcNumber
<1>17. ASSUME FirstSwitch', NEW f \in S
       PROVE  GoodPend(TC, f)'
  <2>1. n = 1 /\ switches' > 0
    BY <1>9, <1>10, <1>17
  <2>2. f.cmd = "switch" /\ f.kseq = n /\ f.same = None
    BY <1>5
  <2>3. GoodFrame(f)'
    BY <2>1, <2>2 DEF GoodFrame
  <2> QED
    BY <1>7, <2>3 DEF GoodPend
<1>18. KeysRight'
  BY <1>6, <1>9, <1>10, <1>11, <1>12, <1>13, <1>17, <1>1, KeysRightStep
<1> QED
  BY <1>11, <1>12, <1>14, <1>15, <1>16, <1>18 DEF IInv

-----------------------------------------------------------------------------
(* A restart, and sending. *)

LEMMA RestartStep ==
  ASSUME IInv, NEW d \in Restarting, Restart(d)
  PROVE  IInv'
<1>1. /\ dev' = [dev EXCEPT ![d] = Blank] /\ pend' = [pend EXCEPT ![d] = {}]
      /\ net' = net /\ late' = late /\ switches' = switches /\ keySw' = keySw
  BY DEF Restart, boundVars
<1>2. d \in Dev /\ d # TC /\ TC \in Dev
  BY KeysAssumption
<1>3. \A x \in Dev : /\ dev'[x] = IF x = d THEN Blank ELSE dev[x]
                     /\ pend'[x] = IF x = d THEN {} ELSE pend[x]
  BY <1>1, Facts
<1>4. /\ Blank \in DevSet /\ Blank.seq = 0 /\ \A j \in 0 .. N - 1 : Blank.slots[j].key = Zero
  <2>1. 0 \in 0 .. N - 1 /\ 0 \in 0 .. 255
    BY Places
  <2> QED
    BY <2>1, FrameIs DEF Blank, DevSet
<1>5. Types'
  <2>1. dev' \in [Dev -> DevSet] /\ pend' \in [Dev -> SUBSET FrameSet]
    BY <1>1, <1>2, <1>4, Facts DEF IInv, Types
  <2> QED
    BY <1>1, <2>1 DEF IInv, Types
<1>6. \A l \in Links : \A k \in DOMAIN net'[l] : Old(l, k)
  BY <1>1 DEF Old
<1>7. \A x \in Dev : \A f \in pend'[x] : f \in pend[x] /\ (dev[x].auth => dev'[x].auth)
  BY <1>3
<1>8. Routes'
  BY <1>6, <1>7, RoutesStep
<1>9. dev'[TC] = dev[TC] /\ pend'[TC] = pend[TC]
  BY <1>2, <1>3
<1>10. TcKeeps' /\ OneSwitch' /\ TcNumber' /\ (FirstSwitch' => FirstSwitch)
  BY <1>1, <1>9 DEF IInv, TcKeeps, OwnKeys, OneSwitch, Announcing, TcNumber, FirstSwitch
<1>11. \A x \in Dev \ Restarting : dev[x].auth => dev'[x].auth
  BY <1>3
<1>12. \A x \in Dev : Same(dev[x], dev'[x]) \/ x = d
  BY <1>3 DEF Same
<1>13. FirstSwitch' => KeysOf(dev[d])'
  <2>1. dev'[d] = Blank /\ 0 <= switches'
    BY <1>1, <1>2, <1>3, Facts
  <2>2. Numbered(Blank)
    BY <1>4 DEF Numbered
  <2> QED
    BY <1>4, <2>1, <2>2 DEF KeysOf, Numbered
<1>14. \A x \in Steady' : x \in Dev /\ x # d
  BY DEF Steady
<1>15. switches <= switches'
  BY <1>1, Facts
<1>16. KeysRight'
  BY <1>1, <1>2, <1>5, <1>6, <1>7, <1>10, <1>11, <1>12, <1>13, <1>14, <1>15, KeysRightStep
<1> QED
  BY <1>5, <1>8, <1>10, <1>16 DEF IInv

\* What securing a frame takes and leaves.
SecuredOf(d, f, s) ==
  /\ s.key \in Nat /\ s.seq \in 0 .. 255 /\ s.cnt \in Nat
  /\ s.dev \in DevSet /\ Same(dev[d], s.dev) /\ s.dev.out >= dev[d].out
  /\ s.seq = dev[d].seq \/ (f.same # None /\ s.seq = f.same)

LEMMA SecuredIs ==
  ASSUME IInv, NEW d \in Dev, NEW f \in FrameSet
  PROVE  SecuredOf(d, f, Secured(d, f))
<1> DEFINE v == dev[d]
           same == f.same # None /\ f.same # v.seq
           n == IF same THEN f.same ELSE v.seq
           cnt == IF same THEN v.prev ELSE v.out
           w == IF same THEN [v EXCEPT !.prev = v.prev + 1] ELSE [v EXCEPT !.out = v.out + 1]
           s == Secured(d, f)
<1>1. s = [key |-> KeyBySeq(v, n), seq |-> n, cnt |-> cnt, dev |-> w]
  BY DEF Secured
<1>2. v \in DevSet /\ v.seq \in 0 .. 255
  BY Facts
<1>3. n \in 0 .. 255 /\ (n = v.seq \/ (f.same # None /\ n = f.same))
  <2>1. f.same \in 0 .. None
    BY DEF FrameSet
  <2>2. f.same # None => f.same \in 0 .. 255
    BY <2>1 DEF None
  <2> QED
    BY <1>2, <2>2
<1>4. cnt \in Nat
  BY <1>2, Counts
<1>5. w \in DevSet /\ Same(v, w) /\ w.out >= v.out
  <2>1. CASE same
    BY <1>2, <2>1, Counts
  <2>2. CASE ~same
    BY <1>2, <2>2, Counts
  <2> QED
    BY <2>1, <2>2
<1>6. KeyBySeq(v, n) \in Nat
  BY <1>2, KeyBySeqIs
<1> HIDE DEF s, n, cnt, w
<1>7. s.key = KeyBySeq(v, n) /\ s.seq = n /\ s.cnt = cnt /\ s.dev = w
  BY <1>1
<1>8. SecuredOf(d, f, s)
  BY <1>3, <1>4, <1>5, <1>6, <1>7 DEF SecuredOf
<1> QED
  BY <1>8 DEF s

LEMMA TransmitStep ==
  ASSUME IInv, NEW d \in Dev, Transmit(d)
  PROVE  IInv'
<1> USE DEF boundVars
<1>1. PICK f \in pend[d] :
        LET safe == f.safe /\ dev[d].auth
            s == Secured(d, f)
            onAir == [f |-> f, by |-> IF safe THEN s.key ELSE NoKey,
                      seq |-> IF safe THEN s.seq ELSE 0, cnt |-> IF safe THEN s.cnt ELSE 0]
            sent == safe => s.key # NoKey
        IN  /\ pend' = [pend EXCEPT ![d] = @ \ {f}]
            /\ dev' = IF safe THEN [dev EXCEPT ![d] = s.dev] ELSE dev
            /\ net' = [l \in Links |-> IF sent /\ l[1] = d /\ l[2] \in f.to
                                       THEN Append(net[l], onAir) ELSE net[l]]
            /\ keySw' = IF d = TC /\ f.cmd = "switch" /\ f.dest = All THEN "sent" ELSE keySw
            /\ late' = late /\ switches' = switches
  BY DEF Transmit
<1>2. PICK s : s = Secured(d, f)
  OBVIOUS
<1>3. PICK safe \in BOOLEAN : safe <=> f.safe /\ dev[d].auth
  OBVIOUS
<1>4. PICK a : a = [f |-> f, by |-> IF safe THEN s.key ELSE NoKey,
                    seq |-> IF safe THEN s.seq ELSE 0, cnt |-> IF safe THEN s.cnt ELSE 0]
  OBVIOUS
<1>5. /\ pend' = [pend EXCEPT ![d] = @ \ {f}]
      /\ dev' = IF safe THEN [dev EXCEPT ![d] = s.dev] ELSE dev
      /\ net' = [l \in Links |-> IF (safe => s.key # NoKey) /\ l[1] = d /\ l[2] \in f.to
                                 THEN Append(net[l], a) ELSE net[l]]
      /\ keySw' = IF d = TC /\ Announcing(f) THEN "sent" ELSE keySw
      /\ late' = late /\ switches' = switches
  BY <1>1, <1>2, <1>3, <1>4 DEF Announcing
<1>6. f \in FrameSet /\ OneHop(d, f, f.to) /\ SecuredOf(d, f, s)
  BY <1>2, SecuredIs, Facts DEF IInv, Routes
<1>7. /\ a.f = f /\ a.by = (IF safe THEN s.key ELSE NoKey) /\ a.seq = (IF safe THEN s.seq ELSE 0)
      /\ a \in AirSet
  <2>1. (IF safe THEN s.key ELSE NoKey) \in Nat /\ (IF safe THEN s.seq ELSE 0) \in 0 .. 255
        /\ (IF safe THEN s.cnt ELSE 0) \in Nat
    BY <1>6, FrameIs DEF SecuredOf
  <2> QED
    BY <1>4, <1>6, <2>1 DEF AirSet
<1>8. \A x \in Dev : Same(dev[x], dev'[x])
  <2>1. \A u : Same(u, u)
    BY DEF Same
  <2>2. CASE safe
    BY <1>5, <1>6, <2>1, <2>2, Facts DEF SecuredOf
  <2>3. CASE ~safe
    BY <1>5, <2>1, <2>3
  <2> QED
    BY <2>2, <2>3
<1>9. dev' \in [Dev -> DevSet]
  <2>1. dev \in [Dev -> DevSet] /\ s.dev \in DevSet
    BY <1>6 DEF IInv, Types, SecuredOf
  <2> QED
    BY <1>5, <2>1
<1>10. \A x \in Dev : \A g \in pend'[x] : g \in pend[x] /\ (g # f \/ x # d)
  BY <1>5, Facts
<1>11. /\ net' \in [Links -> Seq(AirSet)]
       /\ \A l \in Links : \A k \in DOMAIN net'[l] :
            \/ Old(l, k)
            \/ net'[l][k] = a /\ l[1] = d /\ l[2] \in f.to /\ (safe => s.key # NoKey)
  <2>1. \A q \in Seq(AirSet) : /\ Append(q, a) \in Seq(AirSet)
                               /\ \A k \in DOMAIN Append(q, a) :
                                    \/ k \in DOMAIN q /\ Append(q, a)[k] = q[k]
                                    \/ Append(q, a)[k] = a
    BY <1>7
  <2>2. net \in [Links -> Seq(AirSet)]
    BY DEF IInv, Types
  <2>3. \A l \in Links : net'[l] = IF (safe => s.key # NoKey) /\ l[1] = d /\ l[2] \in f.to
                                   THEN Append(net[l], a) ELSE net[l]
    BY <1>5
  <2>4. net' \in [Links -> Seq(AirSet)]
    BY <1>5, <2>1, <2>2
  <2>5. ASSUME NEW l \in Links, NEW k \in DOMAIN net'[l]
        PROVE  \/ \E j \in DOMAIN net[l] : net'[l][k] = net[l][j]
               \/ net'[l][k] = a /\ l[1] = d /\ l[2] \in f.to /\ (safe => s.key # NoKey)
    <3>1. net[l] \in Seq(AirSet)
      BY <2>2
    <3>2. CASE (safe => s.key # NoKey) /\ l[1] = d /\ l[2] \in f.to
      <4>1. net'[l] = Append(net[l], a)
        BY <2>3, <3>2
      <4>2. \A m \in DOMAIN Append(net[l], a) :
              \/ m \in DOMAIN net[l] /\ Append(net[l], a)[m] = net[l][m]
              \/ Append(net[l], a)[m] = a
        BY <2>1, <3>1
      <4> QED
        BY <3>2, <4>1, <4>2
    <3>3. CASE ~((safe => s.key # NoKey) /\ l[1] = d /\ l[2] \in f.to)
      BY <2>3, <3>3
    <3> QED
      BY <3>2, <3>3
  <2> QED
    BY <2>4, <2>5 DEF Old
<1>12. Types'
  <2>1. pend' \in [Dev -> SUBSET FrameSet]
    BY <1>5, Facts DEF IInv, Types
  <2> QED
    BY <1>5, <1>9, <1>11, <2>1 DEF IInv, Types
<1>13. Routes'
  <2>1. ASSUME NEW l \in Links, NEW k \in DOMAIN net'[l], ~Old(l, k)
        PROVE  OneHop(l[1], net'[l][k].f, {l[2]})
    <3>1. net'[l][k] = a /\ l[1] = d /\ l[2] \in f.to
      BY <1>11, <2>1
    <3>2. OneHop(d, f, {l[2]})
      BY <1>6, <3>1 DEF OneHop
    <3> QED
      BY <1>7, <3>1, <3>2
  <2> QED
    BY <1>10, <2>1, RoutesStep
<1>14. TcKeeps'
  <2>1. OwnKeys(dev[TC]) /\ Same(dev[TC], dev'[TC])
    BY <1>8, Facts
  <2> QED
    BY <2>1 DEF TcKeeps, OwnKeys, Same
<1>15. OneSwitch'
  <2>1. /\ \A g \in pend[TC] : Announcing(g) => keySw = "asked"
        /\ \A g, h \in pend[TC] : Announcing(g) /\ Announcing(h) => g = h
        /\ keySw # "no" => switches > 0
    BY DEF IInv, OneSwitch
  <2>2. \A g \in pend'[TC] : g \in pend[TC] /\ (g # f \/ TC # d)
    BY <1>10, Facts
  <2>3. CASE d = TC /\ Announcing(f)
    <3>1. \A g \in pend'[TC] : ~Announcing(g)
      BY <2>1, <2>2, <2>3
    <3>2. keySw' = "sent" /\ switches' > 0
      BY <1>5, <2>1, <2>3
    <3> QED
      BY <3>1, <3>2 DEF OneSwitch
  <2>4. CASE ~(d = TC /\ Announcing(f))
    <3>1. keySw' = keySw /\ switches' = switches
      BY <1>5, <2>4
    <3> QED
      BY <2>1, <2>2, <3>1 DEF OneSwitch
  <2> QED
    BY <2>3, <2>4
<1>16. TcNumber' /\ (FirstSwitch' => FirstSwitch)
  <2>1. dev'[TC].seq = dev[TC].seq /\ switches' = switches
    BY <1>5, <1>8, Facts DEF Same
  <2>2. keySw' # "no" => keySw # "no"
    <3>1. d = TC /\ Announcing(f) => keySw = "asked"
      BY DEF IInv, OneSwitch
    <3> QED
      BY <1>5, <3>1
  <2>3. TcNumber
    BY DEF IInv
  <2> QED
    BY <2>1, <2>2, <2>3 DEF TcNumber, FirstSwitch
<1>17. \A x \in Dev : dev[x].auth => dev'[x].auth
  BY <1>8 DEF Same
<1>18. FirstSwitch => GoodFrame(f) /\ a.seq <= switches /\ (ForAll(f) => f.safe /\ dev[d].auth)
  <2> SUFFICES ASSUME FirstSwitch
               PROVE  GoodFrame(f) /\ a.seq <= switches /\ (ForAll(f) => f.safe /\ dev[d].auth)
    OBVIOUS
  <2>1. GoodPend(d, f) /\ dev[d].seq <= switches
    BY TcUses DEF IInv, KeysRight, KeysOf
  <2>2. f.same # None => f.same <= switches
    BY <2>1 DEF GoodPend, GoodFrame
  <2>3. s.seq <= switches
    BY <1>6, <2>1, <2>2 DEF SecuredOf
  <2>4. a.seq <= switches
    BY <1>7, <2>3, Facts
  <2> QED
    BY <2>1, <2>4 DEF GoodPend
<1>19. ASSUME FirstSwitch', NEW l \in Links, NEW k \in DOMAIN net'[l], ~Old(l, k)
       PROVE  GoodAir(net[l][k])'
  <2>1. net'[l][k] = a /\ (safe => s.key # NoKey)
    BY <1>11, <1>19
  <2>2. GoodFrame(f) /\ a.seq <= switches /\ (ForAll(f) => f.safe /\ dev[d].auth)
    BY <1>16, <1>18, <1>19
  <2>3. GoodFrame(f)'
    <3>1. Known \subseteq Known' /\ switches' \in Nat /\ switches \in Nat /\ switches <= switches'
      BY <1>5, <1>17, Facts DEF Known
    <3> QED
      BY <1>6, <2>2, <3>1, FrameStays
  <2>4. ForAll(f) => f.safe /\ a.by # NoKey
    BY <1>3, <1>7, <2>1, <2>2
  <2>5. GoodAir(a)'
    BY <1>5, <1>7, <2>2, <2>3, <2>4 DEF GoodAir
  <2> QED
    BY <2>1, <2>5
<1>20. KeysRight'
  <2>1. switches <= switches' /\ TC \in Dev /\ Steady' \subseteq Dev
    BY <1>5, Facts DEF Steady
  <2> QED
    BY <1>5, <1>8, <1>10, <1>12, <1>16, <1>17, <1>19, <2>1, KeysRightStep
<1> QED
  BY <1>12, <1>13, <1>14, <1>15, <1>16, <1>20 DEF IInv

-----------------------------------------------------------------------------
(* Receiving. *)

LEMMA OctetNewer ==
  ASSUME NEW x \in 0 .. 255, NEW y \in 0 .. 255, Octet(x - y) \in 1 .. 126
  PROVE  x # y /\ (x <= 3 /\ y <= 3 => x > y)
<1>1. 0 % 256 = 0 /\ \A z \in Int : -255 <= z /\ z < 0 => z % 256 = z + 256
  OBVIOUS
<1>2. x - y \in Int /\ (x = y => x - y = 0)
  OBVIOUS
<1>3. x # y
  BY <1>1, <1>2 DEF Octet
<1>4. ASSUME x <= 3, y <= 3, x < y
      PROVE  FALSE
  <2>1. -255 <= x - y /\ x - y < 0 /\ (x - y) + 256 > 126
    BY <1>4
  <2>2. (x - y) % 256 = (x - y) + 256
    BY <1>1, <1>2, <2>1
  <2> QED
    BY <2>1, <2>2 DEF Octet
<1> QED
  BY <1>3, <1>4

\* A frame that can be read leaves the device its keys, and may switch it over.
AfterOf(d, a, v) ==
  /\ v \in DevSet /\ v.slots = dev[d].slots /\ v.auth = dev[d].auth
  /\ v = dev[d] \/ (v.seq = a.seq /\ v.seq # dev[d].seq)
  /\ d = TC /\ switches <= 1 => v.seq = dev[TC].seq \/ (v.seq <= 2 /\ dev[TC].seq <= v.seq)
  /\ FirstSwitch => KeysOf(v)
  /\ FirstSwitch /\ Layout(dev[d]) => Layout(v)

LEMMA AfterIs ==
  ASSUME IInv, NEW d \in Dev, NEW from \in Dev, NEW a \in AirSet, FirstSwitch => GoodAir(a),
         Readable(d, from, a)
  PROVE  AfterOf(d, a, DevAfter(d, from, a))
<1>1. dev[d] \in DevSet /\ dev[d].seq \in 0 .. 255 /\ a.seq \in 0 .. 255 /\ (FirstSwitch => KeysOf(dev[d]))
  BY Facts, TcUses DEF AirSet
<1>2. CASE ~(a.by # NoKey /\ Newer(a, dev[d]))
  <2>1. DevAfter(d, from, a) = dev[d]
    BY <1>2 DEF DevAfter
  <2> QED
    BY <1>1, <2>1 DEF AfterOf
<1>3. CASE a.by # NoKey /\ Newer(a, dev[d])
  <2>1. PICK isTc \in BOOLEAN : isTc <=> d = TC
    OBVIOUS
  <2>2. PICK w : w = Switched(dev[d], a.seq, isTc)
    OBVIOUS
  <2>3. DevAfter(d, from, a) = w
    BY <1>3, <2>1, <2>2 DEF DevAfter
  <2>4. dev[d].auth /\ KeyBySeq(dev[d], a.seq) # NoKey
    BY <1>3 DEF Readable
  <2>5. PICK j \in 0 .. N - 1 : dev[d].slots[j].seq = a.seq
    BY <1>1, <2>4, KeyBySeqIs, Zenon
  <2>6. a.seq # dev[d].seq /\ (a.seq <= 3 /\ dev[d].seq <= 3 => a.seq > dev[d].seq)
    BY <1>1, <1>3, OctetNewer DEF Newer
  <2>7. isTc => \E k \in 0 .. N - 1 : dev[d].slots[k].seq # a.seq
    <3> SUFFICES ASSUME d = TC
                 PROVE  \E k \in 0 .. N - 1 : dev[d].slots[k].seq # a.seq
      BY <2>1
    <3>1. dev[d].slots[0].seq = 0 /\ dev[d].slots[1].seq = 1 /\ 0 \in 0 .. N - 1 /\ 1 \in 0 .. N - 1
      BY Facts, Places DEF OwnKeys
    <3> QED
      BY <3>1
  <2>8. SwitchOf(dev[d], a.seq, w)
    BY <1>1, <2>2, <2>7, SwitchedKeeps
  <2>9. /\ w \in DevSet /\ w.slots = dev[d].slots /\ w.auth = dev[d].auth
        /\ w = dev[d] \/ w.seq = a.seq
    BY <2>8 DEF SwitchOf
  <2>10. d = TC /\ switches <= 1 => w.seq = dev[TC].seq \/ (w.seq <= 2 /\ dev[TC].seq <= w.seq)
    <3> SUFFICES ASSUME d = TC, switches <= 1, w.seq = a.seq
                 PROVE  w.seq <= 2 /\ dev[TC].seq <= w.seq
      BY <2>9
    <3>1. a.seq = j /\ j <= 2
      BY <2>5, Facts, Places DEF OwnKeys
    <3>2. dev[TC].seq <= 3
      <4>1. switches = 0 \/ switches = 1
        BY Facts
      <4>2. TcNumber
        BY DEF IInv
      <4> QED
        BY <1>1, <4>1, <4>2 DEF TcNumber
    <3> QED
      BY <1>1, <2>6, <3>1, <3>2
  <2>11. FirstSwitch => KeysOf(w)
    <3> SUFFICES ASSUME FirstSwitch
                 PROVE  KeysOf(w)
      OBVIOUS
    <3>1. a.seq <= switches /\ dev[d].seq <= switches /\ Numbered(dev[d])
      BY <1>1 DEF GoodAir, KeysOf
    <3>2. Numbered(w)
      BY <2>9, <3>1 DEF Numbered
    <3> QED
      BY <2>9, <3>1, <3>2 DEF KeysOf
  <2>12. FirstSwitch /\ Layout(dev[d]) => Layout(w)
    <3> SUFFICES ASSUME FirstSwitch, Layout(dev[d])
                 PROVE  Layout(w)
      OBVIOUS
    <3>1. a.seq <= 1 /\ dev[d].seq <= 1
      <4>1. a.seq <= switches /\ dev[d].seq <= switches /\ switches <= 1 /\ switches \in Nat
        BY <1>1, Facts DEF GoodAir, KeysOf, FirstSwitch
      <4> QED
        BY <1>1, <4>1
    <3>2. a.seq = 1 /\ dev[d].seq = 0
      BY <1>1, <2>6, <3>1
    <3>3. j = 1
      BY <2>5, <3>2 DEF Layout
    <3>4. Layout(Switched(dev[d], 1, isTc))
      BY <1>1, <2>4, <2>5, <3>2, <3>3, SwitchedLayout
    <3> QED
      BY <2>2, <3>2, <3>4
  <2>13. w = dev[d] \/ (w.seq = a.seq /\ w.seq # dev[d].seq)
    BY <2>6, <2>9
  <2>14. AfterOf(d, a, w)
    BY <2>9, <2>10, <2>11, <2>12, <2>13 DEF AfterOf
  <2> QED
    BY <2>3, <2>14
<1> QED
  BY <1>2, <1>3

\* Frames that a device may have to send after receiving one.
Passed(d, F) ==
  /\ F \in SUBSET FrameSet
  /\ \A f \in F : OneHop(d, f, f.to) /\ (d = TC => ~Announcing(f))
  /\ FirstSwitch => \A f \in F : GoodFrame(f) /\ (ForAll(f) => f.safe /\ dev[d].auth)

\* A broadcast is relayed away from where it came from.
LEMMA RelayedIs ==
  ASSUME IInv, NEW l \in Links, NEW a \in AirSet, OneHop(l[1], a.f, {l[2]}),
         FirstSwitch => GoodAir(a), Readable(l[2], l[1], a), a.f.cmd \notin {"request", "update"}
  PROVE  Passed(l[2], Relayed(l[2], l[1], a))
<1> DEFINE d == l[2]
           from == l[1]
           to == {c \in Children(d) : rel[c] # "none"} \cup (Neighbors(d) \ Children(d))
           f == [a.f EXCEPT !.to = to \ {from}, !.same = a.seq]
<1>1. d \in Dev /\ from \in Dev /\ to \in SUBSET Dev
  BY Tree
<1>2. a.f \in FrameSet /\ a.seq \in 0 .. 255
  BY DEF AirSet
<1>3. d \in Children(from) => to \ {from} \subseteq Children(d)
  BY <1>1, Tree
<1> HIDE DEF to
<1>4. a.seq \in 0 .. None
  BY <1>2 DEF None
<1>5. /\ f \in FrameSet /\ f.to = to \ {from} /\ f.same = a.seq /\ f.cmd = a.f.cmd /\ f.dest = a.f.dest
      /\ f.kseq = a.f.kseq /\ f.key = a.f.key /\ f.safe = a.f.safe /\ f.status = a.f.status
  <2>1. PICK S : S = to \ {from}
    OBVIOUS
  <2>2. S \in SUBSET Dev
    BY <1>1, <2>1
  <2>3. PICK g \in FrameSet : g = a.f
    BY <1>2
  <2>4. PICK n \in 0 .. None : n = a.seq
    BY <1>4
  <2>5. PICK h : h = [g EXCEPT !.to = S, !.same = n]
    OBVIOUS
  <2>6. h \in FrameSet
    BY <2>2, <2>5 DEF FrameSet
  <2>7. h.to = S /\ h.same = n /\ h.cmd = g.cmd /\ h.dest = g.dest
    BY <2>5 DEF FrameSet
  <2>8. h.kseq = g.kseq /\ h.key = g.key /\ h.safe = g.safe /\ h.status = g.status
    BY <2>5 DEF FrameSet
  <2>9. f = h
    BY <2>1, <2>3, <2>4, <2>5
  <2> HIDE DEF f
  <2> QED
    BY <2>1, <2>3, <2>4, <2>6, <2>7, <2>8, <2>9
<1>6. Relayed(d, from, a) = {} \/ (Relayed(d, from, a) = {f} /\ a.f.dest = All)
  BY DEF Relayed, to
<1> HIDE DEF f
<1>7. a.f.dest = All /\ a.f.cmd # "data" => d \in Children(from)
  BY DEF OneHop
<1>8. a.f.dest = All => OneHop(d, f, f.to)
  BY <1>3, <1>5, <1>7 DEF OneHop
<1>9. d = TC => ~Announcing(f)
  <2>1. TC \notin Children(from)
    BY <1>1, Tree
  <2> QED
    BY <1>5, <1>7, <2>1 DEF Announcing
<1>10. FirstSwitch => GoodFrame(f) /\ (ForAll(f) => f.safe /\ dev[d].auth)
  <2> SUFFICES ASSUME FirstSwitch
               PROVE  GoodFrame(f) /\ (ForAll(f) => f.safe /\ dev[d].auth)
    OBVIOUS
  <2>1. GoodFrame(a.f) /\ a.seq <= switches /\ (ForAll(a.f) => a.f.safe /\ a.by # NoKey)
    BY DEF GoodAir
  <2>2. a.by # NoKey => dev[d].auth
    BY DEF Readable
  <2>3. GoodFrame(f)
    BY <1>5, <2>1 DEF GoodFrame, GoodTransport
  <2>4. ForAll(f) => f.safe /\ dev[d].auth
    BY <1>5, <2>1, <2>2 DEF ForAll
  <2> QED
    BY <2>3, <2>4
<1>11. Passed(d, Relayed(d, from, a))
  <2>1. CASE Relayed(d, from, a) = {}
    BY <2>1 DEF Passed
  <2>2. CASE Relayed(d, from, a) = {f} /\ a.f.dest = All
    <3>1. PICK R : R = Relayed(d, from, a)
      OBVIOUS
    <3>2. R = {f}
      BY <2>2, <3>1
    <3>3. Passed(d, R)
      BY <1>5, <1>8, <1>9, <1>10, <2>2, <3>2 DEF Passed
    <3> QED
      BY <3>1, <3>3
  <2> QED
    BY <1>6, <2>1, <2>2
<1> QED
  BY <1>11

\* What receiving a frame leaves of a device, and what it makes it send.
DoneOf(d, w, F) ==
  /\ w \in DevSet /\ Passed(d, F)
  /\ dev[d].auth => w.auth
  /\ d = TC => OwnKeys(w) /\ (switches <= 1 => w.seq = dev[TC].seq \/ (w.seq <= 2 /\ dev[TC].seq <= w.seq))
  /\ FirstSwitch => KeysOf(w)
  /\ FirstSwitch /\ (d \in Steady' \/ d = TC) /\ Layout(dev[d]) => Layout(w)
  /\ d \notin EndDevices \cup late' /\ dev[d].auth /\ w.seq = dev[d].seq => w.out >= dev[d].out

LEMMA PassedBoth ==
  ASSUME NEW d, NEW F, NEW G, Passed(d, F), Passed(d, G)
  PROVE  Passed(d, F \cup G)
BY DEF Passed

LEMMA PassedNone ==
  ASSUME NEW d
  PROVE  Passed(d, {})
BY DEF Passed

\* A frame to one device.
LEMMA PassedOne ==
  ASSUME NEW d, NEW f \in FrameSet, OneHop(d, f, f.to), ~Announcing(f), ~ForAll(f),
         FirstSwitch => GoodFrame(f)
  PROVE  Passed(d, {f})
BY DEF Passed

\* The device keeps its keys.
LEMMA Kept ==
  ASSUME IInv, NEW d \in Dev, NEW a \in AirSet, NEW w, AfterOf(d, a, w), NEW F, Passed(d, F)
  PROVE  DoneOf(d, w, F)
<1>1. /\ w \in DevSet /\ w.slots = dev[d].slots /\ w.auth = dev[d].auth
      /\ w = dev[d] \/ (w.seq = a.seq /\ w.seq # dev[d].seq)
      /\ d = TC /\ switches <= 1 => w.seq = dev[TC].seq \/ (w.seq <= 2 /\ dev[TC].seq <= w.seq)
      /\ FirstSwitch => KeysOf(w)
      /\ FirstSwitch /\ Layout(dev[d]) => Layout(w)
  BY DEF AfterOf
<1>2. d = TC => OwnKeys(w)
  BY <1>1, Facts DEF OwnKeys
<1>3. dev[d].auth /\ w.seq = dev[d].seq => w.out >= dev[d].out
  <2>1. dev[d].out \in Nat
    BY Facts, Counts
  <2>2. dev[d].out >= dev[d].out
    BY <2>1
  <2> QED
    BY <1>1, <2>2
<1> QED
  BY <1>1, <1>2, <1>3 DEF DoneOf

\* A device that could not read the frame, or is not on the network.
LEMMA Untouched ==
  ASSUME IInv, NEW d \in Dev, NEW a \in AirSet
  PROVE  AfterOf(d, a, dev[d])
BY Facts, TcUses DEF AfterOf

LEMMA GotKeyIs ==
  ASSUME IInv, NEW l \in Links, NEW a \in AirSet, OneHop(l[1], a.f, {l[2]}),
         FirstSwitch => GoodAir(a), Readable(l[2], l[1], a), a.f.cmd = "transport",
         a.f.dest \in {l[2], All}, NEW v, AfterOf(l[2], a, v),
         Overwrites(v, a.f) => l[2] \in late'
  PROVE  DoneOf(l[2], StoreKey(v, a.f.key, a.f.kseq),
                Relayed(l[2], l[1], a) \cup IF v.auth THEN {} ELSE {Announce(l[2])})
<1> DEFINE d == l[2]
<1>1. PICK key : key = a.f.key
  OBVIOUS
<1>2. PICK n : n = a.f.kseq
  OBVIOUS
<1>3. key \in Nat /\ n \in 0 .. 255
  BY <1>1, <1>2 DEF AirSet, FrameSet
<1>4. PICK w : w = StoreKey(v, key, n)
  OBVIOUS
<1>5. /\ v \in DevSet /\ v.slots = dev[d].slots /\ v.auth = dev[d].auth
      /\ v = dev[d] \/ v.seq # dev[d].seq
      /\ FirstSwitch => KeysOf(v)
      /\ FirstSwitch /\ Layout(dev[d]) => Layout(v)
  BY DEF AfterOf
<1>6. StoreOf(v, key, n, w)
  BY <1>3, <1>4, <1>5, StoreKeyIs
<1>7. d \in Dev /\ l[1] \in Dev /\ d # TC
  BY Tree DEF OneHop
<1>8. w \in DevSet /\ w.auth
  BY <1>6 DEF StoreOf
<1>9. FirstSwitch => switches \in Nat /\ switches <= 1 /\ v.seq <= switches /\ Numbered(v)
  BY <1>5, Facts DEF KeysOf, FirstSwitch
<1>10. FirstSwitch => \/ key = n /\ n <= switches
                      \/ key = n /\ n <= switches + 1 /\ v.auth
                      \/ key = Zero /\ n = 0 /\ a.f.dest \in Known
  <2> SUFFICES ASSUME FirstSwitch
               PROVE  \/ key = n /\ n <= switches
                      \/ key = n /\ n <= switches + 1 /\ v.auth
                      \/ key = Zero /\ n = 0 /\ a.f.dest \in Known
    OBVIOUS
  <2>1. GoodTransport(a.f) /\ (ForAll(a.f) => a.by # NoKey)
    BY DEF GoodAir, GoodFrame
  <2>2. a.f.dest = All => v.auth
    BY <1>5, <2>1 DEF ForAll, Readable
  <2> QED
    BY <1>1, <1>2, <2>1, <2>2 DEF GoodTransport
<1>11. FirstSwitch => KeysOf(w)
  <2> SUFFICES ASSUME FirstSwitch
               PROVE  KeysOf(w)
    OBVIOUS
  <2>1. w.seq <= switches /\ Numbered(w)
    BY <1>3, <1>4, <1>5, <1>9, <1>10, StoreKeyGood, Zenon
  <2> QED
    BY <2>1 DEF KeysOf
<1>12. d \notin late' => Confirms(key, n) \/ ~v.auth \/ n = v.seq \/ Place(v, n) # v.i
  BY <1>1, <1>2, <1>3, <1>5, PlaceIs DEF Overwrites, Confirms
<1>13. ASSUME FirstSwitch, d \in Steady', Layout(dev[d])
       PROVE  Layout(w)
  <2>1. Layout(v) /\ v.seq <= 1 /\ d \notin late' /\ d \notin Restarting
    <3>1. v.seq \in 0 .. 255 /\ v.seq <= switches /\ switches <= 1 /\ switches \in Nat
      BY <1>5, <1>9, <1>13 DEF DevSet
    <3>2. v.seq <= 1
      BY <3>1
    <3> QED
      BY <1>5, <1>13, <3>2 DEF Steady
  <2>2. CASE key = Zero /\ n = 0 /\ a.f.dest \in Known
    <3>1. a.f.dest = d /\ v.auth
      <4>1. All \notin Known
        BY Facts, KeysAssumption DEF Known
      <4> QED
        BY <1>5, <2>1, <2>2, <4>1 DEF Known
    <3>2. w.slots = v.slots /\ w.i = v.i /\ w.seq = v.seq /\ w.auth = v.auth
      <4>1. Confirms(key, n)
        BY <2>2 DEF Confirms
      <4>2. v.auth = TRUE /\ w.auth = TRUE
        <5>1. v.auth \in BOOLEAN /\ w.auth \in BOOLEAN
          BY <1>5, <1>8 DEF DevSet
        <5> QED
          BY <1>8, <3>1, <5>1
      <4> QED
        BY <1>6, <3>1, <4>1, <4>2 DEF StoreOf
    <3> QED
      BY <2>1, <3>2 DEF Layout
  <2>3. CASE key = n /\ n <= 2
    <3>1. ~Confirms(key, n) /\ n \in 0 .. 2
      BY <1>3, <2>3 DEF Confirms, Zero
    <3>2. Layout(StoreKey(v, n, n))
      BY <1>5, <1>12, <2>1, <3>1, StoreKeyLayout
    <3> QED
      BY <1>4, <2>3, <3>2
  <2>4. (key = Zero /\ n = 0 /\ a.f.dest \in Known) \/ (key = n /\ n <= 2)
    BY <1>3, <1>9, <1>10, <1>13
  <2> QED
    BY <2>2, <2>3, <2>4
<1>14. ASSUME d \notin late', dev[d].auth, w.seq = dev[d].seq
       PROVE  w.out >= dev[d].out
  <2>1. v.auth /\ (Confirms(key, n) \/ n = v.seq \/ Place(v, n) # v.i)
    BY <1>5, <1>12, <1>14
  <2>2. w.seq = v.seq /\ w.out = v.out
    BY <1>6, <2>1 DEF StoreOf
  <2>3. v = dev[d] /\ v.out \in Nat
    BY <1>5, <1>14, <2>2, Counts
  <2> QED
    BY <2>2, <2>3
<1>15. Passed(d, Relayed(d, l[1], a))
  BY RelayedIs
<1>16. Passed(d, {Announce(d)})
  <2>1. Parent[d] \in Dev /\ Plain(Frame, "data", {}, All)
    BY <1>7, Tree, FrameIs
  <2>2. \A g \in FrameSet, S \in SUBSET Dev :
          LET h == [g EXCEPT !.to = S]
          IN  h \in FrameSet /\ h.cmd = g.cmd /\ h.to = S /\ h.dest = g.dest /\ h.same = g.same
    BY DEF FrameSet
  <2>3. PICK f : f = Announce(d)
    OBVIOUS
  <2>4. f \in FrameSet /\ f.cmd = "data" /\ f.dest = All /\ f.same = None
    BY <2>1, <2>2, <2>3 DEF Announce, Plain
  <2>5. OneHop(d, f, f.to) /\ ~Announcing(f) /\ ~ForAll(f) /\ GoodFrame(f)
    BY <2>4 DEF OneHop, Announcing, ForAll, GoodFrame
  <2> QED
    BY <2>3, <2>4, <2>5, PassedOne
<1>17. Passed(d, IF v.auth THEN {} ELSE {Announce(d)})
  BY <1>16, PassedNone
<1>18. Passed(d, Relayed(d, l[1], a) \cup IF v.auth THEN {} ELSE {Announce(d)})
  BY <1>15, <1>17, PassedBoth
<1>19. DoneOf(d, w, Relayed(d, l[1], a) \cup IF v.auth THEN {} ELSE {Announce(d)})
  BY <1>7, <1>8, <1>11, <1>13, <1>14, <1>18 DEF DoneOf
<1> QED
  BY <1>1, <1>2, <1>4, <1>19

\* A key that is for a child is passed on as it came.
LEMMA PassKeyIs ==
  ASSUME IInv, NEW d \in Dev, NEW a \in AirSet, FirstSwitch => GoodAir(a), a.f.cmd = "transport",
         NEW c \in Children(d), c = a.f.dest, NEW safe \in BOOLEAN
  PROVE  Passed(d, {TransportKey(c, {c}, safe, [key |-> a.f.key, kseq |-> a.f.kseq])})
<1>1. c \in Dev /\ c # TC /\ c # All /\ {c} \in SUBSET Dev
  BY Tree, Facts
<1>2. PICK k : k = [key |-> a.f.key, kseq |-> a.f.kseq]
  OBVIOUS
<1>3. k \in [key : Nat, kseq : 0 .. 255] /\ k.key = a.f.key /\ k.kseq = a.f.kseq
  BY <1>2 DEF AirSet, FrameSet
<1>4. PICK f : f = TransportKey(c, {c}, safe, k)
  OBVIOUS
<1>5. TransportOf(f, c, {c}, safe, k)
  BY <1>1, <1>3, <1>4, TransportKeyIs
<1>6. /\ f \in FrameSet /\ f.cmd = "transport" /\ f.dest = c /\ f.to = {c} /\ f.key = a.f.key
      /\ f.kseq = a.f.kseq /\ f.same = None
  BY <1>3, <1>5 DEF TransportOf
<1>7. OneHop(d, f, f.to) /\ ~Announcing(f) /\ ~ForAll(f)
  BY <1>1, <1>6 DEF OneHop, Announcing, ForAll
<1>8. FirstSwitch => GoodFrame(f)
  <2> SUFFICES ASSUME FirstSwitch
               PROVE  GoodFrame(f)
    OBVIOUS
  <2>1. GoodTransport(a.f)
    BY DEF GoodAir, GoodFrame
  <2>2. GoodTransport(f)
    BY <1>1, <1>6, <2>1 DEF GoodTransport
  <2> QED
    BY <1>6, <2>2 DEF GoodFrame
<1> QED
  BY <1>2, <1>4, <1>6, <1>7, <1>8, PassedOne

\* The keys the trust center has after receiving a frame.
LEMMA TcAfter ==
  ASSUME IInv, NEW a \in AirSet, NEW v, AfterOf(TC, a, v)
  PROVE  v \in DevSet /\ OwnKeys(v) /\ (FirstSwitch => v.i = v.seq /\ v.seq <= switches)
<1>1. /\ v \in DevSet /\ v.slots = dev[TC].slots /\ v.auth = dev[TC].auth
      /\ FirstSwitch => KeysOf(v)
      /\ FirstSwitch /\ Layout(dev[TC]) => Layout(v)
  BY DEF AfterOf
<1>2. OwnKeys(v)
  BY <1>1, Facts DEF OwnKeys
<1>3. FirstSwitch => v.i = v.seq /\ v.seq <= switches
  BY <1>1, TcUses DEF Layout, KeysOf
<1> QED
  BY <1>1, <1>2, <1>3

LEMMA HandedPassed ==
  ASSUME NEW f, NEW to, Handed(f, to)
  PROVE  Passed(TC, {f})
<1>1. /\ f \in FrameSet /\ ~Announcing(f) /\ ~ForAll(f) /\ OneHop(TC, f, f.to)
      /\ FirstSwitch => GoodFrame(f)
  BY DEF Handed
<1> QED
  BY <1>1, PassedOne

\* The trust center answers an UPDATE-DEVICE with its key or has the device removed.
LEMMA GotUpdateIs ==
  ASSUME IInv, NEW from \in Dev, NEW a \in AirSet, OneHop(from, a.f, {TC}), FirstSwitch => GoodAir(a),
         a.f.cmd = "update", NEW v, AfterOf(TC, a, v)
  PROVE  Passed(TC, {IF allow THEN TransportKey(a.f.dest, {from}, TRUE,
                                                KeyFor(v, a.f.status = "secured rejoin"))
                     ELSE [Frame EXCEPT !.cmd = "remove", !.to = {from}, !.dest = a.f.dest]})
<1>1. a.f \in FrameSet /\ a.f.dest \in Dev \cup {All}
  BY DEF AirSet, FrameSet
<1>2. PICK c \in Dev \ {TC} : c = a.f.dest
  BY <1>1 DEF OneHop
<1>3. {from} \in SUBSET Dev /\ TRUE \in BOOLEAN /\ c # All
  BY Facts
<1>4. CASE allow
  <2>1. PICK secured \in BOOLEAN : secured <=> a.f.status = "secured rejoin"
    OBVIOUS
  <2>2. FirstSwitch /\ secured => c \in Known
    BY <1>2, <2>1 DEF GoodAir, GoodFrame
  <2>3. v \in DevSet /\ OwnKeys(v) /\ (FirstSwitch => v.i = v.seq /\ v.seq <= switches)
    BY TcAfter
  <2>4. Handed(TransportKey(c, {from}, TRUE, KeyFor(v, secured)), {from})
    BY <1>3, <2>2, <2>3, HandOut
  <2>5. Passed(TC, {TransportKey(c, {from}, TRUE, KeyFor(v, secured))})
    BY <2>4, HandedPassed
  <2>6. secured = (a.f.status = "secured rejoin")
    BY <2>1
  <2> QED
    BY <1>2, <1>4, <2>5, <2>6
<1>5. CASE ~allow
  <2>1. PICK f : f = [Frame EXCEPT !.cmd = "remove", !.to = {from}, !.dest = c]
    OBVIOUS
  <2>2. Plain(f, "remove", {from}, c)
    BY <1>3, <2>1, PlainIs DEF Commands
  <2>3. OneHop(TC, f, f.to) /\ ~Announcing(f) /\ ~ForAll(f) /\ GoodFrame(f) /\ f \in FrameSet
    BY <1>3, <2>2 DEF Plain, OneHop, Announcing, ForAll, GoodFrame
  <2>4. Passed(TC, {f})
    BY <2>3, PassedOne
  <2> QED
    BY <1>2, <1>5, <2>1, <2>4
<1> QED
  BY <1>4, <1>5

\* and a REQUEST-KEY with its key.
LEMMA GotRequestIs ==
  ASSUME IInv, NEW from \in Dev \ {TC}, NEW a \in AirSet, NEW v, AfterOf(TC, a, v)
  PROVE  Passed(TC, {TransportKey(from, {from}, FALSE, KeyFor(v, FALSE))})
<1>1. {from} \in SUBSET Dev
  OBVIOUS
<1>2. v \in DevSet /\ OwnKeys(v) /\ (FirstSwitch => v.i = v.seq /\ v.seq <= switches)
  BY TcAfter
<1>3. Handed(TransportKey(from, {from}, FALSE, KeyFor(v, FALSE)), {from})
  BY <1>1, <1>2, HandOut
<1> QED
  BY <1>3, HandedPassed

\* A child is told to leave.
LEMMA GotRemoveIs ==
  ASSUME IInv, NEW d \in Dev, NEW c \in Children(d), NEW safe \in BOOLEAN
  PROVE  Passed(d, {[Frame EXCEPT !.cmd = "leave", !.to = {c}, !.dest = c, !.safe = safe]})
<1>1. c \in Dev /\ c # All
  BY Tree, Facts
<1>2. Plain(Frame, "data", {}, All) /\ "leave" \in Commands
  BY FrameIs DEF Commands
<1>3. \A g \in FrameSet : \A h : h = [g EXCEPT !.cmd = "leave", !.to = {c}, !.dest = c, !.safe = safe]
        => h \in FrameSet /\ h.cmd = "leave" /\ h.to = {c} /\ h.dest = c /\ h.same = g.same
  <2> SUFFICES ASSUME NEW g \in FrameSet, NEW h,
                      h = [g EXCEPT !.cmd = "leave", !.to = {c}, !.dest = c, !.safe = safe]
               PROVE  h \in FrameSet /\ h.cmd = "leave" /\ h.to = {c} /\ h.dest = c /\ h.same = g.same
    OBVIOUS
  <2>1. h \in FrameSet
    BY <1>1, <1>2 DEF FrameSet
  <2>2. h.cmd = "leave" /\ h.to = {c} /\ h.dest = c /\ h.same = g.same
    BY DEF FrameSet
  <2> QED
    BY <2>1, <2>2
<1>4. PICK f : f = [Frame EXCEPT !.cmd = "leave", !.to = {c}, !.dest = c, !.safe = safe]
  OBVIOUS
<1>5. f \in FrameSet /\ f.cmd = "leave" /\ f.to = {c} /\ f.dest = c /\ f.same = None
  BY <1>2, <1>3, <1>4 DEF Plain
<1>6. OneHop(d, f, f.to) /\ ~Announcing(f) /\ ~ForAll(f) /\ GoodFrame(f)
  BY <1>1, <1>5 DEF OneHop, Announcing, ForAll, GoodFrame
<1> QED
  BY <1>4, <1>5, <1>6, PassedOne

\* An end device obeys a SWITCH-KEY.
LEMMA GotSwitchIs ==
  ASSUME IInv, NEW d \in EndDevices, NEW a \in AirSet, FirstSwitch => GoodAir(a), a.f.cmd = "switch",
         NEW v, AfterOf(d, a, v), NEW F, Passed(d, F)
  PROVE  DoneOf(d, Switched(v, a.f.kseq, FALSE), F)
<1>1. d \in Dev /\ d # TC
  BY KeysAssumption
<1>2. PICK n : n = a.f.kseq
  OBVIOUS
<1>3. n \in 0 .. 255
  BY <1>2 DEF AirSet, FrameSet
<1>4. PICK w : w = Switched(v, n, FALSE)
  OBVIOUS
<1>5. v \in DevSet /\ v.auth = dev[d].auth /\ (FirstSwitch => KeysOf(v))
  BY DEF AfterOf
<1>6. SwitchOf(v, n, w)
  BY <1>3, <1>4, <1>5, SwitchedKeeps
<1>7. w \in DevSet /\ w.slots = v.slots /\ w.auth = v.auth /\ (w = v \/ w.seq = n)
  BY <1>6 DEF SwitchOf
<1>8. FirstSwitch => KeysOf(w)
  <2> SUFFICES ASSUME FirstSwitch
               PROVE  KeysOf(w)
    OBVIOUS
  <2>1. n = 1 /\ switches > 0 /\ switches \in Nat
    BY <1>2, Facts DEF GoodAir, GoodFrame
  <2>2. n <= switches
    BY <2>1
  <2>3. v.seq <= switches /\ Numbered(v)
    BY <1>5 DEF KeysOf
  <2>4. w.seq <= switches
    BY <1>7, <2>2, <2>3
  <2> QED
    BY <1>7, <2>3, <2>4 DEF KeysOf, Numbered
<1>9. DoneOf(d, w, F)
  BY <1>1, <1>5, <1>7, <1>8 DEF DoneOf, Steady
<1> QED
  BY <1>2, <1>4, <1>9

\* Whatever is received, the receiver ends with keys that are right and sends what is good.
LEMMA ReceiveIs ==
  ASSUME IInv, NEW l \in Links, Receive(l[2], l[1])
  PROVE  /\ UNCHANGED <<keySw, switches>> /\ late \subseteq late'
         /\ net[l] # <<>> /\ net' = [net EXCEPT ![l] = Tail(@)]
         /\ \E w, F : /\ DoneOf(l[2], w, F)
                      /\ dev' = [dev EXCEPT ![l[2]] = w]
                      /\ pend' = [pend EXCEPT ![l[2]] = @ \cup F]
<1>0. l = <<l[1], l[2]>> /\ l[1] \in Dev /\ l[2] \in Dev /\ (l[2] = TC => l[1] # TC)
  BY Tree
<1>1. PICK d \in Dev, from \in Dev : d = l[2] /\ from = l[1]
  BY <1>0
<1>2. PICK a : a = Head(net[l])
  OBVIOUS
<1>3. PICK v : v = DevAfter(d, from, a)
  OBVIOUS
<1>4. PICK r : r = RelAfter(d, from, a)
  OBVIOUS
<1>5. l = <<from, d>> /\ Receive(d, from)
  BY <1>0, <1>1
<1>6. /\ net[l] # <<>> /\ net' = [net EXCEPT ![l] = Tail(@)]
      /\ IF ~on[d] \/ ~Readable(d, from, a)
         THEN Answered(d, dev[d], {}, IF on[d] THEN r ELSE rel)
         ELSE CASE a.f.cmd = "transport" /\ a.f.dest \in {d, All} -> GotKey(d, from, a, v, r)
                [] a.f.cmd = "transport" /\ a.f.dest \notin {d, All} -> PassKey(d, a, v, r)
                [] a.f.cmd = "update" -> GotUpdate(from, a, v, r)
                [] a.f.cmd = "remove" -> GotRemove(d, a, v, r)
                [] a.f.cmd = "request" -> GotRequest(from, v, r)
                [] a.f.cmd = "switch" -> GotSwitch(d, from, a, v, r)
                [] a.f.cmd \in {"data", "leave"} -> Answered(d, v, Relayed(d, from, a), r)
      /\ late' = IF on[d] /\ Readable(d, from, a) /\ a.f.cmd = "transport" /\ a.f.dest \in {d, All}
                    /\ Overwrites(v, a.f)
                 THEN late \cup {d} ELSE late
      /\ UNCHANGED <<keySw, switches>>
  BY <1>2, <1>3, <1>4, <1>5, Zenon DEF Receive, boundVars
<1>7. a \in AirSet /\ 1 \in DOMAIN net[l] /\ a = net[l][1]
  BY <1>2, <1>6, TakeFrame
<1>8. OneHop(from, a.f, {d}) /\ (FirstSwitch => GoodAir(a))
  BY <1>1, <1>7 DEF IInv, Routes, KeysRight
<1>9. \A w, F, s : Answered(d, w, F, s) =>
        dev' = [dev EXCEPT ![d] = w] /\ pend' = [pend EXCEPT ![d] = @ \cup F]
  BY Zenon DEF Answered
<1> DEFINE Goal == \E w, F, s : DoneOf(d, w, F) /\ Answered(d, w, F, s)
<1>10. ASSUME ~on[d] \/ ~Readable(d, from, a)
       PROVE  Goal
  <2>1. Answered(d, dev[d], {}, IF on[d] THEN r ELSE rel)
    BY <1>6, <1>10
  <2>2. DoneOf(d, dev[d], {})
    BY <1>7, Untouched, Kept, PassedNone
  <2> QED
    BY <2>1, <2>2
<1>11. ASSUME on[d], Readable(d, from, a)
       PROVE  Goal
  <2>1. AfterOf(d, a, v)
    BY <1>3, <1>7, <1>8, <1>11, AfterIs
  <2>2. a.f.cmd \in Commands
    BY <1>7 DEF AirSet, FrameSet
  <2>3. \A F : Passed(d, F) => DoneOf(d, v, F)
    BY <1>7, <2>1, Kept
  <2>4. a.f.cmd \notin {"request", "update"} => Passed(d, Relayed(d, from, a))
    BY <1>1, <1>7, <1>8, <1>11, RelayedIs
  <2>5. CASE a.f.cmd = "transport" /\ a.f.dest \in {d, All}
    <3>1. GotKey(d, from, a, v, r)
      BY <1>6, <1>11, <2>5
    <3>2. Overwrites(v, a.f) => d \in late'
      BY <1>6, <1>11, <2>5
    <3>3. DoneOf(d, StoreKey(v, a.f.key, a.f.kseq),
                 Relayed(d, from, a) \cup IF v.auth THEN {} ELSE {Announce(d)})
      BY <1>1, <1>7, <1>8, <1>11, <2>1, <2>5, <3>2, GotKeyIs
    <3> QED
      BY <3>1, <3>3 DEF GotKey
  <2>6. CASE a.f.cmd = "transport" /\ a.f.dest \notin {d, All}
    <3>1. PassKey(d, a, v, r)
      BY <1>6, <1>11, <2>6
    <3>2. PICK c : c = a.f.dest
      OBVIOUS
    <3>3. CASE c \in Children(d) /\ r[c] # "none"
      <4>1. PICK safe \in BOOLEAN : safe = (r[c] # "unauthenticated")
        OBVIOUS
      <4>2. Answered(d, v, {TransportKey(c, {c}, safe, [key |-> a.f.key, kseq |-> a.f.kseq])},
                     [r EXCEPT ![c] = "child"])
        BY <3>1, <3>2, <3>3, <4>1 DEF PassKey
      <4>3. Passed(d, {TransportKey(c, {c}, safe, [key |-> a.f.key, kseq |-> a.f.kseq])})
        BY <1>7, <1>8, <2>6, <3>2, <3>3, PassKeyIs
      <4> QED
        BY <2>3, <4>2, <4>3
    <3>4. CASE ~(c \in Children(d) /\ r[c] # "none")
      <4>1. Answered(d, v, {}, r)
        BY <3>1, <3>2, <3>4 DEF PassKey
      <4> QED
        BY <2>3, <4>1, PassedNone
    <3> QED
      BY <3>3, <3>4
  <2>7. CASE a.f.cmd = "update"
    <3>1. GotUpdate(from, a, v, r) /\ d = TC
      BY <1>6, <1>8, <1>11, <2>7 DEF OneHop
    <3>2. PICK f : f = IF allow THEN TransportKey(a.f.dest, {from}, TRUE,
                                                  KeyFor(v, a.f.status = "secured rejoin"))
                       ELSE [Frame EXCEPT !.cmd = "remove", !.to = {from}, !.dest = a.f.dest]
      OBVIOUS
    <3>3. Answered(d, v, {f}, r)
      BY <3>1, <3>2 DEF GotUpdate
    <3>4. Passed(d, {f})
      BY <1>7, <1>8, <2>1, <2>7, <3>1, <3>2, GotUpdateIs
    <3> QED
      BY <2>3, <3>3, <3>4
  <2>8. CASE a.f.cmd = "remove"
    <3>1. GotRemove(d, a, v, r)
      BY <1>6, <1>11, <2>8
    <3>2. PICK c : c = a.f.dest
      OBVIOUS
    <3>3. CASE c \in Children(d) /\ r[c] # "none"
      <4>1. PICK safe \in BOOLEAN : safe = HasPreconfiguredKey(v)
        BY DEF HasPreconfiguredKey
      <4>2. PICK f : f = [Frame EXCEPT !.cmd = "leave", !.to = {c}, !.dest = c, !.safe = safe]
        OBVIOUS
      <4>3. Answered(d, v, IF r[c] = "child" THEN {f} ELSE {}, [r EXCEPT ![c] = "none"])
        BY <3>1, <3>2, <3>3, <4>1, <4>2 DEF GotRemove
      <4>4. Passed(d, {f})
        BY <3>3, <4>2, GotRemoveIs
      <4>5. Passed(d, IF r[c] = "child" THEN {f} ELSE {})
        BY <4>4, PassedNone
      <4> QED
        BY <2>3, <4>3, <4>5
    <3>4. CASE ~(c \in Children(d) /\ r[c] # "none")
      <4>1. Answered(d, v, {}, r)
        BY <3>1, <3>2, <3>4 DEF GotRemove
      <4> QED
        BY <2>3, <4>1, PassedNone
    <3> QED
      BY <3>3, <3>4
  <2>9. CASE a.f.cmd = "request"
    <3>1. GotRequest(from, v, r) /\ d = TC
      BY <1>6, <1>8, <1>11, <2>9 DEF OneHop
    <3>2. PICK f : f = TransportKey(from, {from}, FALSE, KeyFor(v, FALSE))
      OBVIOUS
    <3>3. Answered(d, v, IF r[from] = "child" THEN {f} ELSE {}, r)
      BY <3>1, <3>2 DEF GotRequest
    <3>4. Passed(d, {f})
      <4>1. from \in Dev \ {TC} /\ AfterOf(TC, a, v)
        BY <1>0, <1>1, <2>1, <3>1
      <4>2. Passed(TC, {TransportKey(from, {from}, FALSE, KeyFor(v, FALSE))})
        BY <1>7, <4>1, GotRequestIs
      <4> QED
        BY <3>1, <3>2, <4>2
    <3>5. Passed(d, IF r[from] = "child" THEN {f} ELSE {})
      BY <3>4, PassedNone
    <3> QED
      BY <2>3, <3>3, <3>5
  <2>10. CASE a.f.cmd = "switch"
    <3>1. GotSwitch(d, from, a, v, r)
      BY <1>6, <1>11, <2>10
    <3>2. Passed(d, Relayed(d, from, a))
      BY <2>4, <2>10
    <3>3. CASE d \in EndDevices
      <4>1. DoneOf(d, Switched(v, a.f.kseq, FALSE), Relayed(d, from, a))
        BY <1>7, <1>8, <2>1, <2>10, <3>2, <3>3, GotSwitchIs
      <4> QED
        BY <3>1, <3>3, <4>1 DEF GotSwitch
    <3>4. CASE d \notin EndDevices
      BY <2>3, <3>1, <3>2, <3>4 DEF GotSwitch
    <3> QED
      BY <3>3, <3>4
  <2>11. CASE a.f.cmd \in {"data", "leave"}
    <3>1. Answered(d, v, Relayed(d, from, a), r)
      BY <1>6, <1>11, <2>11
    <3> QED
      BY <2>3, <2>4, <2>11, <3>1
  <2> HIDE DEF Goal
  <2> QED
    BY <2>2, <2>5, <2>6, <2>7, <2>8, <2>9, <2>10, <2>11 DEF Commands
<1>12. PICK w, F, s : DoneOf(d, w, F) /\ Answered(d, w, F, s)
  BY <1>10, <1>11
<1>13. late \subseteq late'
  BY <1>6
<1> QED
  BY <1>1, <1>6, <1>9, <1>12, <1>13

LEMMA ReceiveStep ==
  ASSUME IInv, NEW l \in Links, Receive(l[2], l[1])
  PROVE  IInv'
<1>1. /\ keySw' = keySw /\ switches' = switches /\ late \subseteq late'
      /\ net[l] # <<>> /\ net' = [net EXCEPT ![l] = Tail(@)]
  BY ReceiveIs
<1>2. PICK w, F : /\ DoneOf(l[2], w, F)
                  /\ dev' = [dev EXCEPT ![l[2]] = w]
                  /\ pend' = [pend EXCEPT ![l[2]] = @ \cup F]
  BY ReceiveIs
<1>3. PICK d \in Dev : d = l[2]
  BY Tree
<1>4. /\ w \in DevSet /\ Passed(d, F)
      /\ dev[d].auth => w.auth
      /\ d = TC => OwnKeys(w) /\ (switches <= 1 => w.seq = dev[TC].seq \/ (w.seq <= 2 /\ dev[TC].seq <= w.seq))
      /\ FirstSwitch => KeysOf(w)
      /\ FirstSwitch /\ (d \in Steady' \/ d = TC) /\ Layout(dev[d]) => Layout(w)
  BY <1>2, <1>3 DEF DoneOf
<1>5. /\ \A x \in Dev : /\ dev'[x] = IF x = d THEN w ELSE dev[x]
                        /\ pend'[x] = IF x = d THEN pend[x] \cup F ELSE pend[x]
      /\ TC \in Dev /\ switches \in Nat
  BY <1>2, <1>3, Facts
<1>6. /\ F \in SUBSET FrameSet
      /\ \A f \in F : OneHop(d, f, f.to) /\ (d = TC => ~Announcing(f))
      /\ FirstSwitch => \A f \in F : GoodFrame(f) /\ (ForAll(f) => f.safe /\ dev[d].auth)
  BY <1>4 DEF Passed
<1>7. Types'
  <2>1. dev' \in [Dev -> DevSet] /\ pend' \in [Dev -> SUBSET FrameSet]
    <3>1. dev \in [Dev -> DevSet] /\ pend \in [Dev -> SUBSET FrameSet]
      BY DEF IInv, Types
    <3>2. pend[d] \cup F \in SUBSET FrameSet
      BY <1>6, <3>1
    <3> QED
      BY <1>2, <1>3, <1>4, <3>1, <3>2
  <2> QED
    BY <1>1, <2>1, TakeFrame DEF IInv, Types
<1>8. \A m \in Links : \A k \in DOMAIN net'[m] : Old(m, k)
  BY <1>1, TakeFrame
<1>9. Routes'
  <2>1. \A x \in Dev : \A f \in pend'[x] : f \in pend[x] \/ OneHop(x, f, f.to)
    BY <1>5, <1>6
  <2> QED
    BY <1>8, <2>1, RoutesStep
<1>10. TcKeeps'
  <2>1. OwnKeys(dev'[TC])
    BY <1>4, <1>5, Facts
  <2> QED
    BY <2>1 DEF TcKeeps, OwnKeys
<1>11. OneSwitch'
  <2>1. \A f \in pend'[TC] : Announcing(f) => f \in pend[TC]
    BY <1>5, <1>6
  <2> QED
    BY <1>1, <2>1, OneSwitchStays
<1>12. switches <= 1 => dev'[TC].seq = dev[TC].seq \/ (dev'[TC].seq <= 2 /\ dev[TC].seq <= dev'[TC].seq)
  BY <1>4, <1>5
<1>13. dev[TC].seq \in 0 .. 255 /\ dev'[TC].seq \in 0 .. 255
  <2>1. \A u \in DevSet : u.seq \in 0 .. 255
    BY DEF DevSet
  <2>2. dev'[TC] \in DevSet /\ dev[TC] \in DevSet
    BY <1>4, <1>5, Facts
  <2> QED
    BY <2>1, <2>2
<1>a. PICK p \in Nat : p = dev[TC].seq
  BY <1>13
<1>b. PICK q \in Nat : q = dev'[TC].seq
  BY <1>13
<1>c. switches <= 1 => q = p \/ (q <= 2 /\ p <= q)
  BY <1>12, <1>a, <1>b
<1>14. TcNumber'
  <2>1. /\ switches = 0 => p <= 2
        /\ switches = 1 => p <= 3
        /\ switches = 1 /\ keySw # "no" => p <= 2
    BY <1>a DEF IInv, TcNumber
  <2>2. /\ switches = 0 => q <= 2
        /\ switches = 1 => q <= 3
        /\ switches = 1 /\ keySw # "no" => q <= 2
    BY <1>5, <1>c, <2>1
  <2> QED
    BY <1>1, <1>b, <2>2 DEF TcNumber
<1>15. FirstSwitch' => FirstSwitch
  <2> SUFFICES ASSUME switches <= 1, q <= 1
               PROVE  p <= 1
    BY <1>1, <1>a, <1>b DEF FirstSwitch
  <2> QED
    BY <1>c
<1>16. \A x \in Dev : (dev[x].auth => dev'[x].auth) /\ (Same(dev[x], dev'[x]) \/ x = d)
  BY <1>4, <1>5 DEF Same
<1>17. FirstSwitch' => KeysOf(dev[d])'
  <2> SUFFICES ASSUME FirstSwitch'
               PROVE  KeysOf(dev[d])'
    OBVIOUS
  <2>1. KeysOf(w) /\ dev'[d] = w
    BY <1>4, <1>5, <1>15
  <2> QED
    BY <1>1, <2>1 DEF KeysOf, Numbered
<1>18. FirstSwitch' => Layout(dev[TC]) /\ \A x \in Steady : Layout(dev[x])
  BY <1>15 DEF IInv, KeysRight
<1>19. \A x \in Steady' : x \in Steady /\ x \in Dev
  BY <1>1 DEF Steady
<1>20. FirstSwitch' => /\ Same(dev[TC], dev'[TC]) \/ Layout(dev'[TC])
                       /\ \A x \in Steady' : Same(dev[x], dev'[x]) \/ Layout(dev'[x])
  BY <1>4, <1>5, <1>15, <1>16, <1>18, <1>19
<1>21. FirstSwitch' => \A x \in Dev : \A f \in pend'[x] :
         (f \in pend[x] /\ (dev[x].auth => dev'[x].auth)) \/ GoodPend(x, f)'
  <2> SUFFICES ASSUME FirstSwitch', NEW f \in F
               PROVE  GoodPend(d, f)'
    BY <1>5, <1>16
  <2>1. f \in FrameSet /\ GoodFrame(f) /\ (ForAll(f) => f.safe /\ dev[d].auth)
    BY <1>6, <1>15
  <2>2. switches' \in Nat /\ switches <= switches' /\ Known \subseteq Known'
    BY <1>1, <1>5, <1>16 DEF Known
  <2>3. GoodFrame(f)'
    BY <1>5, <2>1, <2>2, FrameStays
  <2>4. ForAll(f) => f.safe /\ dev'[d].auth
    BY <1>16, <2>1
  <2> QED
    BY <2>3, <2>4 DEF GoodPend
<1>22. switches <= switches'
  BY <1>1, <1>5
<1>23. KeysRight'
  BY <1>1, <1>7, <1>8, <1>15, <1>16, <1>17, <1>20, <1>21, <1>22, KeysRightStep
<1> QED
  BY <1>7, <1>9, <1>10, <1>11, <1>14, <1>23 DEF IInv

-----------------------------------------------------------------------------
(* The invariant holds. *)

LEMMA InitIInv ==
  ASSUME Init
  PROVE  IInv
<1>1. /\ dev = [d \in Dev |->
             IF d = TC THEN [Blank EXCEPT !.slots = [i \in 0 .. N - 1 |-> [key |-> i, seq |-> i]],
                                          !.auth = TRUE]
             ELSE Blank]
      /\ pend = [d \in Dev |-> {}] /\ net = [l \in Links |-> <<>>]
      /\ keySw = "no" /\ switches = 0
  BY DEF Init
<1>2. TC \in Dev
  BY KeysAssumption
<1>3. /\ Blank \in DevSet /\ Blank.seq = 0 /\ Blank.i = 0 /\ Blank.auth = FALSE
      /\ \A j \in 0 .. N - 1 : Blank.slots[j].key = Zero /\ Blank.slots[j].seq = 0
  <2>1. 0 \in 0 .. N - 1 /\ 0 \in 0 .. 255
    BY Places
  <2> QED
    BY <2>1, FrameIs DEF Blank, DevSet
<1>4. PICK s : s = [i \in 0 .. N - 1 |-> [key |-> i, seq |-> i]]
  OBVIOUS
<1>5. s \in [0 .. N - 1 -> [key : Nat, seq : 0 .. 255]] /\ \A j \in 0 .. N - 1 : s[j].key = j /\ s[j].seq = j
  <2>1. \A j \in 0 .. N - 1 : j \in Nat /\ j \in 0 .. 255
    BY Places
  <2> QED
    BY <1>4, <2>1
<1>6. PICK t : t = [Blank EXCEPT !.slots = s, !.auth = TRUE]
  OBVIOUS
<1>7. t \in DevSet /\ t.slots = s /\ t.auth = TRUE /\ t.seq = 0 /\ t.i = 0
  <2>1. \A v \in DevSet : LET w == [v EXCEPT !.slots = s, !.auth = TRUE]
                          IN  w \in DevSet /\ w.slots = s /\ w.auth = TRUE /\ w.seq = v.seq /\ w.i = v.i
    BY <1>5 DEF DevSet
  <2> QED
    BY <1>3, <1>6, <2>1
<1>8. \A d \in Dev : dev[d] = IF d = TC THEN t ELSE Blank
  BY <1>1, <1>4, <1>6
<1>9. Types
  <2>1. dev \in [Dev -> DevSet]
    <3>1. dev = [d \in Dev |-> IF d = TC THEN t ELSE Blank]
      BY <1>1, <1>4, <1>6
    <3> QED
      BY <1>3, <1>7, <3>1
  <2>2. <<>> \in Seq(AirSet)
    OBVIOUS
  <2>3. pend \in [Dev -> SUBSET FrameSet] /\ net \in [Links -> Seq(AirSet)] /\ switches \in Nat
    BY <1>1, <2>2
  <2> QED
    BY <2>1, <2>3 DEF Types
<1>10. \A d \in Dev : pend[d] = {}
  BY <1>1
<1>11. \A l \in Links : \A k \in DOMAIN net[l] : FALSE
  <2>1. \A k \in DOMAIN <<>> : FALSE
    OBVIOUS
  <2>2. \A l \in Links : net[l] = <<>>
    BY <1>1
  <2> QED
    BY <2>1, <2>2
<1>12. Routes
  BY <1>10, <1>11 DEF Routes
<1>13. OwnKeys(t)
  BY <1>5, <1>7 DEF OwnKeys
<1>14. TcKeeps
  BY <1>2, <1>8, <1>13 DEF TcKeeps
<1>15. OneSwitch
  BY <1>1, <1>2, <1>10 DEF OneSwitch
<1>16. TcNumber
  <2>1. dev[TC].seq = 0
    BY <1>2, <1>7, <1>8
  <2>2. 0 <= 2 /\ 0 <= 3
    OBVIOUS
  <2>3. dev[TC].seq <= 2 /\ dev[TC].seq <= 3
    BY <2>1, <2>2
  <2> QED
    BY <2>3 DEF TcNumber
<1>a. t.seq <= switches /\ Blank.seq <= switches
  <2>1. 0 <= 0
    OBVIOUS
  <2> QED
    BY <1>1, <1>3, <1>7, <2>1
<1>17. KeysOf(t) /\ Layout(t)
  <2>1. \A j \in 0 .. N - 1 : t.slots[j].key = j /\ t.slots[j].seq = j /\ j <= 2
    BY <1>5, <1>7, Places
  <2>2. 0 \in 0 .. N - 1
    BY Places
  <2>3. KeysOf(t)
    <3>1. t.seq <= switches
      BY <1>a
    <3> QED
      BY <2>1, <3>1 DEF KeysOf, Numbered
  <2>4. Layout(t)
    BY <1>7, <2>1, <2>2 DEF Layout
  <2> QED
    BY <2>3, <2>4
<1>18. KeysOf(Blank) /\ Layout(Blank)
  <2>1. KeysOf(Blank)
    BY <1>3, <1>a DEF KeysOf, Numbered
  <2>2. Layout(Blank)
    BY <1>3 DEF Layout
  <2> QED
    BY <2>1, <2>2
<1>19. KeysRight
  BY <1>2, <1>8, <1>10, <1>11, <1>17, <1>18 DEF KeysRight, Steady
<1> QED
  BY <1>9, <1>12, <1>14, <1>15, <1>16, <1>19 DEF IInv

LEMMA NextIInv ==
  ASSUME IInv, [Next]_vars
  PROVE  IInv'
<1>1. CASE UNCHANGED vars
  <2>1. UNCHANGED <<dev, pend, net, late, switches, keySw>>
    BY <1>1 DEF vars
  <2>2. Types' /\ \A l \in Links : \A k \in DOMAIN net'[l] : Old(l, k)
    BY <2>1 DEF IInv, Types, Old
  <2> QED
    BY <2>1, <2>2, Idle
<1>2. CASE Next
  <2>1. CASE \E d \in Dev \ {TC} : \E how \in {"join", "rejoin"} : Join(d, how)
    BY <2>1, JoinStep
  <2>2. CASE UpdateKeys
    BY <2>2, UpdateKeysStep
  <2>3. CASE SwitchBroadcast
    BY <2>3, SwitchBroadcastStep
  <2>4. CASE SwitchUnicast
    BY <2>4, SwitchUnicastStep
  <2>5. CASE SwitchSent
    BY <2>5, SwitchSentStep
  <2>6. CASE SetAllowAuth
    BY <2>6, SetAllowAuthStep
  <2>7. CASE \E d \in Dev : Transmit(d)
    BY <2>7, TransmitStep
  <2>8. CASE \E d \in Dev : \E x \in Neighbors(d) : \E cmd \in {"data", "request"} : Talk(d, x, cmd)
    BY <2>8, TalkStep
  <2>9. CASE \E l \in Links : Receive(l[2], l[1])
    BY <2>9, ReceiveStep
  <2>10. CASE \E l \in Links : Lose(l[2], l[1])
    BY <2>10, LoseStep
  <2>11. CASE \E d \in Restarting : Restart(d)
    BY <2>11, RestartStep
  <2> QED
    BY <1>2, <2>1, <2>2, <2>3, <2>4, <2>5, <2>6, <2>7, <2>8, <2>9, <2>10, <2>11 DEF Next
<1> QED
  BY <1>1, <1>2

\* The inductive invariant: who may be sent what, what the trust center keeps and how far
\* it gets, and that all the keys in use, waiting and on the air are right up to the first
\* switch (zdo_secur.c, apsme_secur.c, nwk_secur.c).
THEOREM SpecIInv == Spec => []IInv
<1>1. Init => IInv
  BY InitIInv
<1>2. IInv /\ [Next]_vars => IInv'
  BY NextIInv
<1> QED
  BY <1>1, <1>2, PTL DEF Spec

\* Up to the first switch a sequence number means the same key everywhere, and a router
\* holds the key it uses where it looks for it (secur_nwk_key_switch,
\* zb_apsme_transport_key_indication).
THEOREM SpecKeysSound == Spec => []KeysSound
<1>1. IInv => KeysSound
  <2> SUFFICES ASSUME IInv, FirstSwitch
               PROVE  KeysSound
    BY Zenon DEF KeysSound, KeysAgree, CanSpeak
  <2>1. \A d \in Dev : Numbered(dev[d])
    BY TcUses DEF KeysOf
  <2>2. \A d \in Steady : Layout(dev[d])
    BY DEF IInv, KeysRight
  <2>3. KeysAgree
    BY <2>1, Zenon DEF KeysAgree, Numbered
  <2>4. ASSUME NEW d \in Steady, dev[d].auth
        PROVE  /\ KeyBySeq(dev[d], dev[d].seq) \notin {NoKey, Zero}
               /\ dev[d].slots[dev[d].i].seq = dev[d].seq
    <3>1. dev[d] \in DevSet /\ dev[d].i \in 0 .. N - 1 /\ Layout(dev[d])
      BY <2>2, Facts DEF Steady
    <3>2. dev[d].i = dev[d].seq /\ dev[d].slots[dev[d].i].key = dev[d].i
      BY <2>4, <3>1 DEF Layout
    <3>3. dev[d].i \notin {NoKey, Zero}
      BY <3>1, Places DEF NoKey, Zero
    <3>4. dev[d].slots[dev[d].i].seq = dev[d].seq
      BY <3>1, <3>2, <3>3 DEF Layout
    <3>5. KeyBySeq(dev[d], dev[d].seq) = dev[d].slots[dev[d].i].key
      BY <3>1, <3>4, KeyBySeqIs
    <3> QED
      BY <3>2, <3>3, <3>4, <3>5
  <2>5. CanSpeak
    BY <2>4, Zenon DEF CanSpeak, Steady
  <2> QED
    BY <2>3, <2>5 DEF KeysSound
<1> QED
  BY <1>1, SpecIInv, PTL

\* The counter a router secures its frames with never goes back under the key in use, but
\* by a restart or an older key (zb_nwk_secure_frame, zb_apsme_transport_key_indication).
THEOREM SpecCountersGrow == Spec => CountersGrow
<1>1. IInv /\ Next => CounterGoesOn
  <2> SUFFICES ASSUME IInv, Next,
                      NEW d \in Dev \ (EndDevices \cup late'), dev[d].auth, dev'[d].auth,
                      dev'[d].seq = dev[d].seq
               PROVE  dev'[d].out >= dev[d].out
    BY DEF CounterGoesOn
  <2>0. dev[d] \in DevSet /\ dev[d].out \in Nat /\ d \in Dev
    BY Facts, Counts
  <2>1. \A u \in DevSet : u.out >= u.out /\ [u EXCEPT !.out = u.out + 1].out >= u.out
    <3>1. \A u \in DevSet : [u EXCEPT !.out = u.out + 1].out = u.out + 1 /\ u.out \in Nat
      BY Counts
    <3>2. \A m \in Nat : m >= m /\ m + 1 >= m
      OBVIOUS
    <3> QED
      BY <3>1, <3>2
  <2>2. ASSUME NEW x \in Dev \ {TC}, NEW how \in {"join", "rejoin"}, Join(x, how)
        PROVE  dev'[d].out >= dev[d].out
    <3>1. \/ dev' = dev
          \/ dev' = [dev EXCEPT ![x] = [dev[x] EXCEPT !.out = dev[x].out + 1]]
      BY <2>2, Zenon DEF Join
    <3>2. dev'[d] = dev[d] \/ dev'[d] = [dev[d] EXCEPT !.out = dev[d].out + 1]
      BY <2>0, <3>1, Facts
    <3> QED
      BY <2>0, <2>1, <3>2
  <2>3. ASSUME UNCHANGED dev
        PROVE  dev'[d].out >= dev[d].out
    BY <2>0, <2>1, <2>3
  <2>4. ASSUME dev' = [dev EXCEPT ![TC] = Switched(dev[TC], Octet(dev[TC].seq + 1), TRUE)]
        PROVE  dev'[d].out >= dev[d].out
    <3>1. PICK n \in 0 .. 255 : n = Octet(dev[TC].seq + 1) /\ n # dev[TC].seq
      BY Facts, OctetNext, Zenon
    <3>2. PICK w : w = Switched(dev[TC], n, TRUE)
      OBVIOUS
    <3>3. w.seq # dev[TC].seq
      BY <3>1, <3>2, TcSwitches DEF TcSwitchOf
    <3>4. dev'[d] = IF d = TC THEN w ELSE dev[d]
      BY <2>0, <2>4, <3>1, <3>2, Facts
    <3>5. dev'[d] = dev[d]
      BY <3>3, <3>4
    <3> QED
      BY <2>0, <2>1, <3>5, Zenon
  <2>5. ASSUME NEW x \in Dev, Transmit(x)
        PROVE  dev'[d].out >= dev[d].out
    <3>1. PICK f \in pend[x] : dev' = dev \/ dev' = [dev EXCEPT ![x] = Secured(x, f).dev]
      BY <2>5, Zenon DEF Transmit
    <3>2. f \in FrameSet
      BY Facts
    <3>3. Secured(x, f).dev.out >= dev[x].out
      BY <3>2, SecuredIs DEF SecuredOf
    <3>4. dev'[d] = dev[d] \/ (d = x /\ dev'[d] = Secured(x, f).dev)
      BY <2>0, <3>1, Facts
    <3> QED
      BY <2>0, <2>1, <3>3, <3>4
  <2>6. ASSUME NEW l \in Links, Receive(l[2], l[1])
        PROVE  dev'[d].out >= dev[d].out
    <3>1. PICK w, F : DoneOf(l[2], w, F) /\ dev' = [dev EXCEPT ![l[2]] = w]
      BY <2>6, ReceiveIs
    <3>2. dev'[d] = IF d = l[2] THEN w ELSE dev[d]
      BY <2>0, <3>1, Facts
    <3>3. d = l[2] => w.out >= dev[d].out
      BY <3>1, <3>2 DEF DoneOf
    <3> QED
      BY <2>0, <2>1, <3>2, <3>3
  <2>7. ASSUME NEW x \in Restarting, Restart(x)
        PROVE  dev'[d].out >= dev[d].out
    <3>1. dev' = [dev EXCEPT ![x] = Blank] /\ Blank.auth = FALSE
      BY <2>7 DEF Restart, Blank
    <3>2. dev'[d] = dev[d]
      BY <2>0, <3>1, Facts
    <3> QED
      BY <2>0, <2>1, <3>2
  <2>8. SwitchUnicast \/ SwitchSent =>
          dev' = [dev EXCEPT ![TC] = Switched(dev[TC], Octet(dev[TC].seq + 1), TRUE)]
    BY Zenon DEF SwitchUnicast, SwitchSent
  <2>9. UpdateKeys \/ SwitchBroadcast \/ SetAllowAuth => UNCHANGED dev
    BY Zenon DEF UpdateKeys, SwitchBroadcast, SetAllowAuth
  <2>10. \A x, y, cmd : Talk(x, y, cmd) => UNCHANGED dev
    BY Zenon DEF Talk
  <2>11. \A x, y : Lose(x, y) => UNCHANGED dev
    BY Zenon DEF Lose
  <2> QED
    BY <2>2, <2>3, <2>4, <2>5, <2>6, <2>7, <2>8, <2>9, <2>10, <2>11, Zenon DEF Next
<1>2. IInv /\ [Next]_vars => [CounterGoesOn]_vars
  BY <1>1
<1> QED
  BY <1>2, SpecIInv, PTL DEF Spec, CountersGrow

=============================================================================
