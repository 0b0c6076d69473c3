--------------------------- MODULE ZbCommon_proofs ---------------------------
(***************************************************************************)
(* Proofs about the parts of MCCommon.  They share no variable, and a part *)
(* that is not at work rests: what holds of a part's initial states and is *)
(* preserved by its steps holds in every state of the union.               *)
(***************************************************************************)
EXTENDS MCCommon, Functions, FiniteSetTheorems, WellFoundedInduction, TLAPS

-----------------------------------------------------------------------------
(* Sequences without repetition, and queues of calls that carry buffers. *)

\* Taking the first element of a sequence without repetition.
LEMMA TailOnce ==
  ASSUME NEW S, NEW s \in Seq(S), s # << >>, IsInjective(s)
  PROVE  /\ Head(s) \in S /\ Head(s) \in Range(s) /\ Tail(s) \in Seq(S)
         /\ IsInjective(Tail(s)) /\ Range(Tail(s)) = Range(s) \ {Head(s)}
<1>1. Len(s) \in Nat /\ Len(s) > 0 /\ Head(s) = s[1] /\ Head(s) \in S /\ Tail(s) \in Seq(S)
  OBVIOUS
<1>2. /\ DOMAIN Tail(s) = 1 .. Len(s) - 1 /\ DOMAIN s = 1 .. Len(s)
      /\ \A i \in 1 .. Len(s) - 1 : Tail(s)[i] = s[i + 1]
  BY <1>1
<1>3. Head(s) \in Range(s)
  BY <1>1, <1>2 DEF Range
<1>4. IsInjective(Tail(s))
  <2> SUFFICES ASSUME NEW i \in 1 .. Len(s) - 1, NEW j \in 1 .. Len(s) - 1, Tail(s)[i] = Tail(s)[j]
               PROVE  i = j
    BY <1>2 DEF IsInjective
  <2>1. s[i + 1] = s[j + 1] /\ i + 1 \in DOMAIN s /\ j + 1 \in DOMAIN s
    BY <1>1, <1>2
  <2>2. i + 1 = j + 1
    BY <2>1 DEF IsInjective
  <2> QED
    BY <2>2, <1>1
<1>5. Range(Tail(s)) \subseteq Range(s) \ {Head(s)}
  <2> SUFFICES ASSUME NEW i \in 1 .. Len(s) - 1
               PROVE  Tail(s)[i] \in Range(s) /\ Tail(s)[i] # Head(s)
    BY <1>2 DEF Range
  <2>1. i + 1 \in DOMAIN s /\ 1 \in DOMAIN s /\ i + 1 # 1 /\ Tail(s)[i] = s[i + 1]
    BY <1>1, <1>2
  <2> QED
    BY <1>1, <2>1 DEF Range, IsInjective
<1>6. Range(s) \ {Head(s)} \subseteq Range(Tail(s))
  <2> SUFFICES ASSUME NEW i \in 1 .. Len(s), s[i] # Head(s)
               PROVE  s[i] \in Range(Tail(s))
    BY <1>2 DEF Range
  <2>1. i - 1 \in 1 .. Len(s) - 1 /\ i = (i - 1) + 1
    BY <1>1
  <2>2. s[i] = Tail(s)[i - 1]
    BY <1>2, <2>1
  <2> QED
    BY <1>2, <2>1, <2>2 DEF Range
<1> QED
  BY <1>1, <1>3, <1>4, <1>5, <1>6

\* Putting a new element before it.
LEMMA PutOnce ==
  ASSUME NEW S, NEW s \in Seq(S), NEW b \in S, b \notin Range(s), IsInjective(s)
  PROVE  /\ <<b>> \o s \in Seq(S) /\ <<b>> \o s # << >>
         /\ IsInjective(<<b>> \o s) /\ Range(<<b>> \o s) = Range(s) \cup {b}
<1> DEFINE t == <<b>> \o s
<1>1. t \in Seq(S) /\ t # << >> /\ Len(s) \in Nat
  OBVIOUS
<1>2. /\ DOMAIN t = 1 .. Len(s) + 1 /\ DOMAIN s = 1 .. Len(s) /\ t[1] = b
      /\ \A i \in 2 .. Len(s) + 1 : t[i] = s[i - 1]
  BY <1>1
<1> HIDE DEF t
<1>3. IsInjective(t)
  <2> SUFFICES ASSUME NEW i \in 1 .. Len(s) + 1, NEW j \in 1 .. Len(s) + 1, t[i] = t[j]
               PROVE  i = j
    BY <1>2 DEF IsInjective
  <2>1. \A k \in 2 .. Len(s) + 1 : t[k] # b
    <3> TAKE k \in 2 .. Len(s) + 1
    <3>1. k - 1 \in DOMAIN s
      BY <1>1, <1>2
    <3> QED
      BY <1>2, <3>1 DEF Range
  <2>2. CASE i = 1 \/ j = 1
    BY <1>1, <1>2, <2>1, <2>2
  <2>3. CASE i # 1 /\ j # 1
    <3>1. i - 1 \in DOMAIN s /\ j - 1 \in DOMAIN s /\ i \in 2 .. Len(s) + 1 /\ j \in 2 .. Len(s) + 1
      BY <1>1, <1>2, <2>3
    <3>2. s[i - 1] = s[j - 1]
      BY <1>2, <3>1
    <3>3. i - 1 = j - 1
      BY <3>1, <3>2 DEF IsInjective
    <3> QED
      BY <1>1, <3>3
  <2> QED
    BY <2>2, <2>3
<1>4. Range(t) \subseteq Range(s) \cup {b}
  <2> SUFFICES ASSUME NEW i \in 1 .. Len(s) + 1, t[i] # b
               PROVE  t[i] \in Range(s)
    BY <1>2 DEF Range
  <2>1. i \in 2 .. Len(s) + 1 /\ i - 1 \in DOMAIN s
    BY <1>1, <1>2
  <2> QED
    BY <1>2, <2>1 DEF Range
<1>5. Range(s) \cup {b} \subseteq Range(t)
  <2>1. b \in Range(t)
    BY <1>1, <1>2 DEF Range
  <2>2. \A i \in DOMAIN s : s[i] \in Range(t)
    <3> TAKE i \in DOMAIN s
    <3>1. i + 1 \in DOMAIN t /\ i + 1 \in 2 .. Len(s) + 1 /\ (i + 1) - 1 = i
      BY <1>1, <1>2
    <3>2. t[i + 1] = s[i]
      BY <1>2, <3>1
    <3> QED
      BY <3>1, <3>2 DEF Range
  <2> QED
    BY <2>1, <2>2 DEF Range
<1> QED
  BY <1>1, <1>3, <1>4, <1>5 DEF t

\* The buffers that the calls from position n on carry, and that no two carry the same.
CarriedFrom(q, n) == {q[i].param : i \in n .. Len(q)} \ {0}
OnceFrom(q, n) == \A i, j \in n .. Len(q) : q[i].param = q[j].param => i = j \/ q[i].param = 0
Calls == [func : Funcs, param : 0 .. PoolSize]

\* A call is scheduled with a buffer that no other carries.
LEMMA AppendCall ==
  ASSUME NEW q \in Seq(Calls), NEW n \in 1 .. Len(q) + 1, NEW f \in Funcs, NEW b \in 0 .. PoolSize,
         OnceFrom(q, n), b \notin CarriedFrom(q, n)
  PROVE  LET r == Append(q, [func |-> f, param |-> b])
         IN  /\ r \in Seq(Calls) /\ Len(r) = Len(q) + 1 /\ n \in 1 .. Len(r)
             /\ OnceFrom(r, n) /\ CarriedFrom(r, n) = CarriedFrom(q, n) \cup ({b} \ {0})
<1> DEFINE e == [func |-> f, param |-> b]
           r == Append(q, e)
<1>1. e \in Calls /\ e.param = b
  BY DEF Calls
<1>2. r \in Seq(Calls) /\ Len(r) = Len(q) + 1 /\ Len(q) \in Nat /\ r[Len(q) + 1] = e
      /\ \A i \in 1 .. Len(q) : r[i] = q[i]
  BY <1>1
<1> HIDE DEF e, r
<1>3. \A i \in n .. Len(r) : i = Len(q) + 1 \/ (i \in n .. Len(q) /\ i \in 1 .. Len(q))
  BY <1>2
<1>4. Len(q) + 1 \in n .. Len(r) /\ \A i \in n .. Len(q) : i \in n .. Len(r) /\ i \in 1 .. Len(q)
  BY <1>2
<1>5. OnceFrom(r, n)
  <2> SUFFICES ASSUME NEW i \in n .. Len(r), NEW j \in n .. Len(r), r[i].param = r[j].param
               PROVE  i = j \/ r[i].param = 0
    BY DEF OnceFrom
  <2>1. CASE i = Len(q) + 1 /\ j = Len(q) + 1
    BY <2>1
  <2>2. CASE i = Len(q) + 1 /\ j \in n .. Len(q)
    <3>1. q[j].param = b
      BY <1>1, <1>2, <1>4, <2>2
    <3> QED
      BY <1>1, <1>2, <3>1, <2>2 DEF CarriedFrom
  <2>3. CASE j = Len(q) + 1 /\ i \in n .. Len(q)
    <3>1. q[i].param = b
      BY <1>1, <1>2, <1>4, <2>3
    <3> QED
      BY <1>1, <1>2, <3>1, <2>3 DEF CarriedFrom
  <2>4. CASE i \in n .. Len(q) /\ j \in n .. Len(q)
    <3>1. r[i] = q[i] /\ r[j] = q[j]
      BY <1>2, <1>4, <2>4
    <3> QED
      BY <2>4, <3>1 DEF OnceFrom
  <2> QED
    BY <1>3, <2>1, <2>2, <2>3, <2>4
<1>6. CarriedFrom(r, n) \subseteq CarriedFrom(q, n) \cup ({b} \ {0})
  <2> SUFFICES ASSUME NEW i \in n .. Len(r), r[i].param # 0
               PROVE  r[i].param \in CarriedFrom(q, n) \cup ({b} \ {0})
    BY DEF CarriedFrom
  <2>1. CASE i = Len(q) + 1
    BY <1>1, <1>2, <2>1
  <2>2. CASE i \in n .. Len(q) /\ i \in 1 .. Len(q)
    BY <1>2, <2>2 DEF CarriedFrom
  <2> QED
    BY <1>3, <2>1, <2>2
<1>7. CarriedFrom(q, n) \cup ({b} \ {0}) \subseteq CarriedFrom(r, n)
  <2>1. \A i \in n .. Len(q) : r[i] = q[i] /\ i \in n .. Len(r)
    BY <1>2, <1>4
  <2> QED
    BY <1>1, <1>2, <1>4, <2>1 DEF CarriedFrom
<1> QED
  BY <1>2, <1>4, <1>5, <1>6, <1>7 DEF r, e

\* The first call is taken: its buffer is not carried any more.
LEMMA TakeCall ==
  ASSUME NEW q \in Seq(Calls), q # << >>, OnceFrom(q, 1)
  PROVE  /\ Head(q).param \in 0 .. PoolSize /\ OnceFrom(q, 2)
         /\ CarriedFrom(q, 2) = CarriedFrom(q, 1) \ {Head(q).param}
         /\ Head(q).param # 0 => Head(q).param \in CarriedFrom(q, 1)
<1>1. Len(q) \in Nat /\ Len(q) > 0 /\ Head(q) = q[1] /\ Head(q) \in Calls
  OBVIOUS
<1>2. \A i \in 2 .. Len(q) : i \in 1 .. Len(q) /\ i # 1
  BY <1>1
<1>3. 1 \in 1 .. Len(q) /\ \A i \in 1 .. Len(q) : i = 1 \/ i \in 2 .. Len(q)
  BY <1>1
<1>4. OnceFrom(q, 2)
  BY <1>2 DEF OnceFrom
<1>5. \A i \in 2 .. Len(q) : q[i].param # 0 => q[i].param # q[1].param
  BY <1>2, <1>3 DEF OnceFrom
<1>6. CarriedFrom(q, 2) \subseteq CarriedFrom(q, 1) \ {q[1].param}
  BY <1>2, <1>5 DEF CarriedFrom
<1>7. CarriedFrom(q, 1) \ {q[1].param} \subseteq CarriedFrom(q, 2)
  BY <1>3 DEF CarriedFrom
<1>8. q[1].param # 0 => q[1].param \in CarriedFrom(q, 1)
  BY <1>3 DEF CarriedFrom
<1> QED
  BY <1>1, <1>4, <1>6, <1>7, <1>8 DEF Calls

\* The slot of a call that has returned is given free.
LEMMA ReleaseCall ==
  ASSUME NEW q \in Seq(Calls), q # << >>, OnceFrom(q, 2)
  PROVE  /\ Tail(q) \in Seq(Calls) /\ OnceFrom(Tail(q), 1)
         /\ CarriedFrom(Tail(q), 1) = CarriedFrom(q, 2) /\ Len(Tail(q)) = Len(q) - 1
<1>1. Len(q) \in Nat /\ Len(q) > 0 /\ Tail(q) \in Seq(Calls) /\ Len(Tail(q)) = Len(q) - 1
      /\ \A i \in 1 .. Len(q) - 1 : Tail(q)[i] = q[i + 1]
  OBVIOUS
<1>2. \A i \in 1 .. Len(q) - 1 : i + 1 \in 2 .. Len(q)
  BY <1>1
<1>3. \A i \in 2 .. Len(q) : i - 1 \in 1 .. Len(q) - 1 /\ (i - 1) + 1 = i
  BY <1>1
<1>4. OnceFrom(Tail(q), 1)
  <2> SUFFICES ASSUME NEW i \in 1 .. Len(q) - 1, NEW j \in 1 .. Len(q) - 1,
                      Tail(q)[i].param = Tail(q)[j].param
               PROVE  i = j \/ Tail(q)[i].param = 0
    BY <1>1 DEF OnceFrom
  <2>1. q[i + 1].param = q[j + 1].param /\ Tail(q)[i] = q[i + 1]
    BY <1>1
  <2>2. i + 1 = j + 1 \/ q[i + 1].param = 0
    BY <1>2, <2>1 DEF OnceFrom
  <2> QED
    BY <1>1, <2>1, <2>2
<1>5. CarriedFrom(Tail(q), 1) \subseteq CarriedFrom(q, 2)
  BY <1>1, <1>2 DEF CarriedFrom
<1>6. CarriedFrom(q, 2) \subseteq CarriedFrom(Tail(q), 1)
  <2> SUFFICES ASSUME NEW i \in 2 .. Len(q), q[i].param # 0
               PROVE  q[i].param \in CarriedFrom(Tail(q), 1)
    BY DEF CarriedFrom
  <2>1. Tail(q)[i - 1] = q[i] /\ i - 1 \in 1 .. Len(Tail(q))
    BY <1>1, <1>3
  <2> QED
    BY <2>1 DEF CarriedFrom
<1> QED
  BY <1>1, <1>4, <1>5, <1>6

-----------------------------------------------------------------------------
(* The buffer pool. *)

Dirs == {1, 0}
Limit == PoolSize \div 2
PoolBufs == 1 .. PoolSize

\* The buffers of a direction that are not free, and the counters that count them.
Used(F, dirs, d) == {b \in PoolBufs \ F : dirs[b] = d}
CountsOf(F, dirs, counts) == \A d \in Dirs : counts[d] = Cardinality(Used(F, dirs, d))

LEMMA PoolConstants ==
  /\ PoolSize \in Nat \ {0} /\ CbQSize \in Nat \ {0} /\ BufQSize \in Nat \ {0}
  /\ OutReserved \in 0 .. Limit /\ InReserved \in 0 .. Limit
  /\ Limit \in Nat /\ 2 * Limit <= PoolSize /\ PoolSize \in Nat
BY Assumptions DEF Pool!PoolAssumption, Pool!ZB_BUFS_LIMIT, Limit

LEMMA UsedFinite ==
  ASSUME NEW F, NEW dirs, NEW d
  PROVE  IsFiniteSet(Used(F, dirs, d)) /\ Cardinality(Used(F, dirs, d)) \in Nat
<1>1. IsFiniteSet(PoolBufs)
  BY PoolConstants, FS_Interval DEF PoolBufs
<1>2. Used(F, dirs, d) \in SUBSET PoolBufs
  BY DEF Used
<1> QED
  BY <1>1, <1>2, FS_Subset, FS_CardinalityType

\* zb_get_buf: a free buffer is taken for direction d.
LEMMA GetCounts ==
  ASSUME NEW F, NEW b \in F \cap PoolBufs, NEW d \in Dirs,
         NEW dirs \in [PoolBufs -> Dirs], NEW counts \in [Dirs -> Nat],
         CountsOf(F, dirs, counts)
  PROVE  CountsOf(F \ {b}, [dirs EXCEPT ![b] = d], [counts EXCEPT ![d] = @ + 1])
<1> DEFINE e == [dirs EXCEPT ![b] = d]
<1>1. e[b] = d /\ \A c \in PoolBufs : c # b => e[c] = dirs[c]
  OBVIOUS
<1> HIDE DEF e
<1>2. Used(F \ {b}, e, d) = Used(F, dirs, d) \cup {b} /\ b \notin Used(F, dirs, d)
  BY <1>1 DEF Used
<1>3. \A c \in Dirs : c # d => Used(F \ {b}, e, c) = Used(F, dirs, c)
  BY <1>1 DEF Used
<1>4. Cardinality(Used(F \ {b}, e, d)) = counts[d] + 1
  BY <1>2, UsedFinite, FS_AddElement DEF CountsOf
<1>5. \A c \in Dirs : c # d => Cardinality(Used(F \ {b}, e, c)) = counts[c]
  BY <1>3 DEF CountsOf
<1> QED
  BY <1>4, <1>5 DEF CountsOf, e

\* zb_free_buf: a buffer returns to the stack.
LEMMA FreeCounts ==
  ASSUME NEW F, NEW b \in PoolBufs \ F,
         NEW dirs \in [PoolBufs -> Dirs], NEW counts \in [Dirs -> Nat],
         CountsOf(F, dirs, counts)
  PROVE  /\ CountsOf(F \cup {b}, dirs, [counts EXCEPT ![dirs[b]] = @ - 1])
         /\ dirs[b] \in Dirs /\ counts[dirs[b]] - 1 \in Nat
<1> DEFINE d == dirs[b]
<1>1. d \in Dirs /\ counts[d] \in Nat
  OBVIOUS
<1>2. Used(F \cup {b}, dirs, d) = Used(F, dirs, d) \ {b} /\ b \in Used(F, dirs, d)
  BY DEF Used
<1>3. \A c \in Dirs : c # d => Used(F \cup {b}, dirs, c) = Used(F, dirs, c)
  BY DEF Used
<1> HIDE DEF d
<1>4. Cardinality(Used(F \cup {b}, dirs, d)) = counts[d] - 1
  <2>1. IsFiniteSet(Used(F, dirs, d)) /\ counts[d] = Cardinality(Used(F, dirs, d))
    BY <1>1, UsedFinite DEF CountsOf
  <2>2. Cardinality(Used(F, dirs, d) \ {b}) = Cardinality(Used(F, dirs, d)) - 1
    BY <1>2, <2>1, FS_RemoveElement
  <2> QED
    BY <1>2, <2>1, <2>2
<1>5. \A c \in Dirs : c # d => Cardinality(Used(F \cup {b}, dirs, c)) = counts[c]
  BY <1>3 DEF CountsOf
<1>6. CountsOf(F \cup {b}, dirs, [counts EXCEPT ![d] = @ - 1])
  BY <1>1, <1>4, <1>5 DEF CountsOf
<1>7. counts[d] - 1 \in Nat
  BY <1>4, UsedFinite
<1> QED
  BY <1>1, <1>6, <1>7 DEF d

\* zb_free_buf with a waiter: the buffer returns and is taken again.
LEMMA ReuseCounts ==
  ASSUME NEW F, NEW b \in PoolBufs \ F, NEW d \in Dirs,
         NEW dirs \in [PoolBufs -> Dirs], NEW counts \in [Dirs -> Nat],
         CountsOf(F, dirs, counts)
  PROVE  CountsOf(F, [dirs EXCEPT ![b] = d],
                  [[counts EXCEPT ![dirs[b]] = @ - 1] EXCEPT ![d] = @ + 1])
<1> DEFINE c == [counts EXCEPT ![dirs[b]] = @ - 1]
<1>1. CountsOf(F \cup {b}, dirs, c) /\ dirs[b] \in Dirs /\ counts[dirs[b]] - 1 \in Nat
  BY FreeCounts
<1>2. c \in [Dirs -> Nat]
  BY <1>1
<1> HIDE DEF c
<1>3. b \in (F \cup {b}) \cap PoolBufs /\ (F \cup {b}) \ {b} = F
  OBVIOUS
<1>4. CountsOf((F \cup {b}) \ {b}, [dirs EXCEPT ![b] = d], [c EXCEPT ![d] = @ + 1])
  BY <1>1, <1>2, <1>3, GetCounts
<1> QED
  BY <1>3, <1>4 DEF c

\* Two halves of the pool are full only when nothing is free.
LEMMA HalvesFull ==
  ASSUME NEW F, F = {}, NEW dirs \in [PoolBufs -> Dirs], NEW counts \in [Dirs -> 0 .. Limit],
         CountsOf(F, dirs, counts)
  PROVE  \A d \in Dirs : counts[d] = Limit
<1>1. /\ Used(F, dirs, 0) \cup Used(F, dirs, 1) = PoolBufs
      /\ Used(F, dirs, 0) \cap Used(F, dirs, 1) = {}
  BY DEF Used, Dirs
<1>2. Cardinality(PoolBufs) = PoolSize
  BY PoolConstants, FS_Interval DEF PoolBufs
<1>3. Cardinality(PoolBufs) =
        Cardinality(Used(F, dirs, 0)) + Cardinality(Used(F, dirs, 1)) - 0
  BY <1>1, UsedFinite, FS_Union, FS_EmptySet
<1>4. counts[0] = Cardinality(Used(F, dirs, 0)) /\ counts[1] = Cardinality(Used(F, dirs, 1))
      /\ counts[0] \in 0 .. Limit /\ counts[1] \in 0 .. Limit
  BY DEF CountsOf, Dirs
<1> QED
  BY <1>2, <1>3, <1>4, PoolConstants DEF Dirs

\* The queues of waiters i and o, and the n entries that neither uses.
Waits(i, o, n) ==
  i \in Seq(Funcs) /\ o \in Seq(Funcs) /\ n \in Nat /\ Len(i) + Len(o) + n = BufQSize

LEMMA WaitsMore ==
  ASSUME NEW i, NEW o, NEW n, Waits(i, o, n), n > 0, NEW f \in Funcs
  PROVE  Waits(Append(i, f), o, n - 1) /\ Waits(i, Append(o, f), n - 1)
<1>1. /\ i \in Seq(Funcs) /\ o \in Seq(Funcs) /\ n \in Nat /\ Len(i) + Len(o) + n = BufQSize
      /\ Len(i) \in Nat /\ Len(o) \in Nat
  BY DEF Waits
<1>2. /\ Append(i, f) \in Seq(Funcs) /\ Len(Append(i, f)) = Len(i) + 1
      /\ Append(o, f) \in Seq(Funcs) /\ Len(Append(o, f)) = Len(o) + 1
  BY <1>1
<1>3. n - 1 \in Nat /\ (Len(i) + 1) + Len(o) + (n - 1) = BufQSize
      /\ Len(i) + (Len(o) + 1) + (n - 1) = BufQSize
  BY <1>1, PoolConstants
<1> QED
  BY <1>1, <1>2, <1>3 DEF Waits

LEMMA WaitsLess ==
  ASSUME NEW i, NEW o, NEW n, Waits(i, o, n)
  PROVE  /\ i # << >> => Waits(Tail(i), o, n + 1)
         /\ o # << >> => Waits(i, Tail(o), n + 1)
<1>1. /\ i \in Seq(Funcs) /\ o \in Seq(Funcs) /\ n \in Nat /\ Len(i) + Len(o) + n = BufQSize
      /\ Len(i) \in Nat /\ Len(o) \in Nat
  BY DEF Waits
<1>2. /\ i # << >> => Tail(i) \in Seq(Funcs) /\ Len(Tail(i)) = Len(i) - 1
      /\ o # << >> => Tail(o) \in Seq(Funcs) /\ Len(Tail(o)) = Len(o) - 1
  BY <1>1
<1>3. n + 1 \in Nat /\ (Len(i) - 1) + Len(o) + (n + 1) = BufQSize
      /\ Len(i) + (Len(o) - 1) + (n + 1) = BufQSize
  BY <1>1, PoolConstants
<1> QED
  BY <1>1, <1>2, <1>3 DEF Waits

\* Every buffer has exactly one owner: the free stack F, a scheduled callback (C), the
\* code (H), or nobody any more (L).
Parted(F, C, H, L) ==
  /\ C \cap H = {} /\ F \cap (C \cup H \cup L) = {} /\ L \cap (C \cup H) = {}
  /\ F \cup C \cup H \cup L = PoolBufs

\* Where the calls begin that still own their buffer.
PoolPos == IF pc = "cb" THEN 2 ELSE 1

StackOK == free \in Seq(PoolBufs) /\ IsInjective(free)
CountOK ==
  /\ is_in_buf \in [PoolBufs -> Dirs] /\ bufs_allocated \in [Dirs -> 0 .. Limit]
  /\ CountsOf(Range(free), is_in_buf, bufs_allocated)
QueueOK ==
  /\ cb_q \in Seq(Calls) /\ Len(cb_q) <= CbQSize /\ OnceFrom(cb_q, PoolPos)
  /\ pc \in {"mac", "recv", "cbs", "cb"} /\ (pc = "cb" => cb_q # << >>)
OwnOK ==
  /\ Parted(Range(free), CarriedFrom(cb_q, PoolPos), held, lost)
  /\ 1 .. OutReserved + InReserved \subseteq held
WaitOK == Waits(inbuf_queue, outbuf_queue, buf_freelist)
NoLateWakeup == outbuf_queue # << >> => bufs_allocated[0] = Limit
RxOK == rx_pending \in BOOLEAN /\ rx_need_buf \in BOOLEAN

PoolInv == StackOK /\ CountOK /\ QueueOK /\ OwnOK /\ WaitOK /\ NoLateWakeup /\ RxOK

\* zb_get_buf(d) leaves a sound stack and right counters.
LEMMA GetOK ==
  ASSUME StackOK, CountOK, NEW d \in Dirs, Pool!zb_get_buf(d)
  PROVE  /\ StackOK' /\ CountOK'
         /\ Head(free) \in PoolBufs /\ Head(free) \in Range(free)
         /\ Range(free') = Range(free) \ {Head(free)}
         /\ NoLateWakeup /\ outbuf_queue' = outbuf_queue => NoLateWakeup'
<1>1. /\ bufs_allocated[d] < Limit /\ free # << >> /\ free' = Tail(free)
      /\ is_in_buf' = [is_in_buf EXCEPT ![Head(free)] = d]
      /\ bufs_allocated' = [bufs_allocated EXCEPT ![d] = @ + 1]
  BY DEF Pool!zb_get_buf, Pool!CanGet, Pool!ZB_BUFS_LIMIT, Limit
<1>2. /\ Head(free) \in PoolBufs /\ Head(free) \in Range(free) /\ free' \in Seq(PoolBufs)
      /\ IsInjective(free') /\ Range(free') = Range(free) \ {Head(free)}
  BY <1>1, TailOnce DEF StackOK
<1>3. is_in_buf \in [PoolBufs -> Dirs] /\ bufs_allocated \in [Dirs -> Nat]
      /\ bufs_allocated \in [Dirs -> 0 .. Limit]
      /\ CountsOf(Range(free), is_in_buf, bufs_allocated)
  BY PoolConstants DEF CountOK
<1>4. CountsOf(Range(free) \ {Head(free)}, is_in_buf', bufs_allocated')
  BY <1>1, <1>2, <1>3, GetCounts
<1>5. bufs_allocated' \in [Dirs -> 0 .. Limit]
  BY <1>1, <1>3, PoolConstants
<1>6. is_in_buf' \in [PoolBufs -> Dirs]
  BY <1>1, <1>2, <1>3
<1>7. NoLateWakeup /\ outbuf_queue' = outbuf_queue => NoLateWakeup'
  <2>1. d = 0 => bufs_allocated[0] # Limit
    BY <1>1, <1>3, PoolConstants
  <2>2. d # 0 => bufs_allocated'[0] = bufs_allocated[0]
    BY <1>1, <1>3 DEF Dirs
  <2> QED
    BY <2>1, <2>2 DEF NoLateWakeup
<1> QED
  BY <1>2, <1>4, <1>5, <1>6, <1>7 DEF StackOK, CountOK

\* A call is handed to the scheduler, or lost with its buffer when the queue is full.
LEMMA HandOK ==
  ASSUME QueueOK, NEW f \in Funcs, NEW b \in 0 .. PoolSize,
         b \notin CarriedFrom(cb_q, PoolPos), pc' = pc, Pool!HandOver(f, b)
  PROVE  /\ QueueOK' /\ PoolPos' = PoolPos
         /\ \/ /\ CarriedFrom(cb_q, PoolPos)' = CarriedFrom(cb_q, PoolPos) \cup ({b} \ {0})
               /\ lost' = lost
            \/ /\ CarriedFrom(cb_q, PoolPos)' = CarriedFrom(cb_q, PoolPos)
               /\ lost' = lost \cup ({b} \ {0})
<1> DEFINE n == PoolPos
<1>1. PoolPos' = PoolPos
  BY DEF PoolPos
<1>2. CASE Len(cb_q) < CbQSize
  <2>1. cb_q' = Append(cb_q, [func |-> f, param |-> b]) /\ lost' = lost
    BY <1>2 DEF Pool!HandOver, Pool!Entry
  <2>2. cb_q \in Seq(Calls) /\ n \in 1 .. Len(cb_q) + 1 /\ OnceFrom(cb_q, n)
    BY DEF QueueOK, PoolPos
  <2>3. /\ cb_q' \in Seq(Calls) /\ Len(cb_q') = Len(cb_q) + 1 /\ OnceFrom(cb_q', n)
        /\ CarriedFrom(cb_q', n) = CarriedFrom(cb_q, n) \cup ({b} \ {0})
    BY <2>1, <2>2, AppendCall
  <2>4. cb_q' # << >> /\ Len(cb_q') <= CbQSize
    BY <1>2, <2>2, <2>3, PoolConstants
  <2> QED
    BY <1>1, <2>1, <2>3, <2>4 DEF QueueOK
<1>3. CASE ~(Len(cb_q) < CbQSize)
  <2>1. cb_q' = cb_q /\ lost' = lost \cup ({b} \ {0})
    BY <1>3 DEF Pool!HandOver, Pool!NoBuf
  <2> QED
    BY <1>1, <2>1 DEF QueueOK
<1> QED
  BY <1>2, <1>3

\* Nothing that the code or a call has is reserved for good and free.
LEMMA Apart ==
  ASSUME OwnOK, NEW b \in PoolBufs
  PROVE  /\ b \in Range(free) => b \notin held /\ b \notin lost /\ b \notin CarriedFrom(cb_q, PoolPos)
         /\ b \in held => b \notin Range(free) /\ b \notin lost
                          /\ b \notin CarriedFrom(cb_q, PoolPos)
BY DEF OwnOK, Parted

LEMMA GetBufStep ==
  ASSUME PoolInv, NEW d \in Dirs, Pool!GetBuf(d)
  PROVE  PoolInv'
<1> DEFINE b == Head(free)
<1>1. /\ Pool!zb_get_buf(d) /\ held' = held \cup {b}
      /\ inbuf_queue' = inbuf_queue /\ outbuf_queue' = outbuf_queue
      /\ buf_freelist' = buf_freelist /\ cb_q' = cb_q /\ lost' = lost
      /\ rx_pending' = rx_pending /\ rx_need_buf' = rx_need_buf /\ pc' = pc
  BY DEF Pool!GetBuf, Pool!waitVars, Pool!macVars
<1>2. /\ StackOK' /\ CountOK' /\ b \in PoolBufs /\ b \in Range(free)
      /\ Range(free') = Range(free) \ {b} /\ NoLateWakeup'
  BY <1>1, GetOK DEF PoolInv
<1>3. QueueOK' /\ PoolPos' = PoolPos /\ WaitOK' /\ RxOK'
  BY <1>1 DEF PoolInv, QueueOK, PoolPos, WaitOK, RxOK
<1>4. CarriedFrom(cb_q, PoolPos)' = CarriedFrom(cb_q, PoolPos)
  BY <1>1, <1>3
<1> HIDE DEF b
<1>5. OwnOK'
  BY <1>1, <1>2, <1>4 DEF PoolInv, OwnOK, Parted
<1> QED
  BY <1>2, <1>3, <1>5 DEF PoolInv

LEMMA GetBufDelayedStep ==
  ASSUME PoolInv, NEW f \in Funcs, NEW d \in Dirs, Pool!zb_get_buf_delayed(f, d)
  PROVE  PoolInv'
<1>1. held' = held /\ rx_pending' = rx_pending /\ rx_need_buf' = rx_need_buf /\ pc' = pc
  BY DEF Pool!zb_get_buf_delayed, Pool!macVars
<1>2. RxOK'
  BY <1>1 DEF PoolInv, RxOK
<1>3. CASE Pool!CanGet(d)
  <2> DEFINE b == Head(free)
  <2>1. /\ Pool!zb_get_buf(d) /\ Pool!HandOver(f, b) /\ inbuf_queue' = inbuf_queue
        /\ outbuf_queue' = outbuf_queue /\ buf_freelist' = buf_freelist
    BY <1>3 DEF Pool!zb_get_buf_delayed, Pool!waitVars
  <2>2. /\ StackOK' /\ CountOK' /\ b \in PoolBufs /\ b \in Range(free)
        /\ Range(free') = Range(free) \ {b} /\ NoLateWakeup'
    BY <2>1, GetOK DEF PoolInv
  <2>3. b \notin CarriedFrom(cb_q, PoolPos) /\ b \in 0 .. PoolSize /\ b # 0
    BY <2>2, Apart, PoolConstants DEF PoolInv, PoolBufs
  <2> HIDE DEF b
  <2>4. /\ QueueOK'
        /\ \/ /\ CarriedFrom(cb_q, PoolPos)' = CarriedFrom(cb_q, PoolPos) \cup ({b} \ {0})
              /\ lost' = lost
           \/ /\ CarriedFrom(cb_q, PoolPos)' = CarriedFrom(cb_q, PoolPos)
              /\ lost' = lost \cup ({b} \ {0})
    BY <1>1, <2>1, <2>3, HandOK DEF PoolInv
  <2>5. WaitOK'
    BY <2>1 DEF PoolInv, WaitOK
  <2>6. OwnOK'
    BY <1>1, <2>2, <2>3, <2>4 DEF PoolInv, OwnOK, Parted
  <2> QED
    BY <1>2, <2>2, <2>4, <2>5, <2>6 DEF PoolInv
<1>4. CASE ~Pool!CanGet(d)
  <2>1. /\ buf_freelist > 0 /\ buf_freelist' = buf_freelist - 1
        /\ free' = free /\ is_in_buf' = is_in_buf /\ bufs_allocated' = bufs_allocated
        /\ cb_q' = cb_q /\ lost' = lost
    BY <1>4 DEF Pool!zb_get_buf_delayed, Pool!poolVars
  <2>2. \/ d = 1 /\ inbuf_queue' = Append(inbuf_queue, f) /\ outbuf_queue' = outbuf_queue
        \/ d # 1 /\ outbuf_queue' = Append(outbuf_queue, f) /\ inbuf_queue' = inbuf_queue
    BY <1>4 DEF Pool!zb_get_buf_delayed, Pool!IN_BUF
  <2>3. WaitOK'
    <3>1. Waits(inbuf_queue, outbuf_queue, buf_freelist)
      BY DEF PoolInv, WaitOK
    <3>2. Waits(inbuf_queue', outbuf_queue', buf_freelist')
      BY <2>1, <2>2, <3>1, WaitsMore
    <3> QED
      BY <3>2 DEF WaitOK
  <2>4. StackOK' /\ CountOK' /\ QueueOK' /\ OwnOK'
    <3>1. PoolPos' = PoolPos
      BY <1>1 DEF PoolPos
    <3> QED
      BY <1>1, <2>1, <3>1 DEF PoolInv, StackOK, CountOK, QueueOK, OwnOK
  <2>5. NoLateWakeup'
    <3>1. CASE d = 1
      BY <2>1, <2>2, <3>1 DEF PoolInv, NoLateWakeup
    <3>2. CASE d # 1
      <4>1. d = 0
        BY <3>2 DEF Dirs
      <4>2. ~(bufs_allocated[0] < Limit) \/ free = << >>
        BY <1>4, <4>1 DEF Pool!CanGet, Pool!ZB_BUFS_LIMIT, Limit
      <4>3. bufs_allocated \in [Dirs -> 0 .. Limit] /\ 0 \in Dirs
        BY DEF PoolInv, CountOK, Dirs
      <4>4. CASE ~(bufs_allocated[0] < Limit)
        BY <2>1, <4>3, <4>4, PoolConstants DEF NoLateWakeup
      <4>5. CASE free = << >>
        <5>1. Range(free) = {}
          BY <4>5 DEF Range
        <5>2. bufs_allocated[0] = Limit
          BY <4>3, <5>1, HalvesFull DEF PoolInv, CountOK
        <5> QED
          BY <2>1, <5>2 DEF NoLateWakeup
      <4> QED
        BY <4>2, <4>4, <4>5
    <3> QED
      BY <3>1, <3>2
  <2> QED
    BY <1>2, <2>3, <2>4, <2>5 DEF PoolInv
<1> QED
  BY <1>3, <1>4

LEMMA FreeBufStep ==
  ASSUME PoolInv, NEW b \in PoolBufs, Pool!zb_free_buf(b)
  PROVE  PoolInv'
<1> DEFINE d      == Pool!DirAfterLink(b)
           c      == is_in_buf[b]
           counts == [bufs_allocated EXCEPT ![c] = @ - 1]
           again  == counts[d] < Limit
<1>1. /\ b \in held \ (1 .. OutReserved + InReserved) /\ held' = held \ {b}
      /\ rx_pending' = rx_pending /\ rx_need_buf' = rx_need_buf /\ pc' = pc
  BY DEF Pool!zb_free_buf, Pool!macVars, Pool!Reserved
<1>2. /\ c \in Dirs /\ (d = c \/ d = 0) /\ d \in Dirs
      /\ is_in_buf \in [PoolBufs -> Dirs] /\ bufs_allocated \in [Dirs -> Nat]
      /\ bufs_allocated \in [Dirs -> 0 .. Limit]
      /\ CountsOf(Range(free), is_in_buf, bufs_allocated)
  BY PoolConstants DEF PoolInv, CountOK, Pool!DirAfterLink, Pool!OUT_BUF, Dirs
<1>3. /\ b \notin Range(free) /\ b \notin lost /\ b \notin CarriedFrom(cb_q, PoolPos)
      /\ b \in 0 .. PoolSize /\ b # 0 /\ 0 \in 0 .. PoolSize
  BY <1>1, Apart, PoolConstants DEF PoolInv, PoolBufs
<1>4. /\ CountsOf(Range(free) \cup {b}, is_in_buf, counts)
      /\ bufs_allocated[c] - 1 \in Nat /\ counts \in [Dirs -> 0 .. Limit]
      /\ counts[c] = bufs_allocated[c] - 1
      /\ \A e \in Dirs : e # c => counts[e] = bufs_allocated[e]
  <2>1. CountsOf(Range(free) \cup {b}, is_in_buf, counts) /\ bufs_allocated[c] - 1 \in Nat
    BY <1>2, <1>3, FreeCounts
  <2> QED
    BY <1>2, <2>1, PoolConstants
<1>5. StackOK /\ <<b>> \o free \in Seq(PoolBufs) /\ IsInjective(<<b>> \o free)
      /\ Range(<<b>> \o free) = Range(free) \cup {b}
  BY <1>3, PutOnce DEF PoolInv, StackOK
<1>6. RxOK' /\ PoolPos' = PoolPos
  BY <1>1 DEF PoolInv, RxOK, PoolPos
<1>7. 1 .. OutReserved + InReserved \subseteq held'
  BY <1>1 DEF PoolInv, OwnOK
<1>8. d \in Dirs /\ c \in Dirs
  BY <1>2
<1>9. CASE ~Pool!WakesWaiter(d)
  <2>1. /\ free' = <<b>> \o free /\ bufs_allocated' = counts /\ is_in_buf' = is_in_buf
        /\ inbuf_queue' = inbuf_queue /\ outbuf_queue' = outbuf_queue
        /\ buf_freelist' = buf_freelist /\ cb_q' = cb_q /\ lost' = lost
    BY <1>9 DEF Pool!zb_free_buf, Pool!waitVars
  <2>2. StackOK' /\ CountOK' /\ QueueOK' /\ WaitOK'
    BY <1>1, <1>2, <1>4, <1>5, <1>6, <2>1 DEF PoolInv, StackOK, CountOK, QueueOK, WaitOK
  <2>3. OwnOK'
    <3>1. CarriedFrom(cb_q, PoolPos)' = CarriedFrom(cb_q, PoolPos)
          /\ Range(free') = Range(free) \cup {b}
      BY <1>5, <1>6, <2>1
    <3> QED
      BY <1>1, <1>3, <1>7, <2>1, <3>1 DEF PoolInv, OwnOK, Parted
  <2>4. NoLateWakeup'
    <3>1. CASE c = 0
      <4>1. d = 0 /\ outbuf_queue = << >>
        BY <1>2, <1>9, <3>1 DEF Pool!WakesWaiter, Pool!IN_BUF
      <4> QED
        BY <2>1, <4>1 DEF NoLateWakeup
    <3>2. CASE c # 0
      <4>1. counts[0] = bufs_allocated[0]
        BY <1>4, <3>2 DEF Dirs
      <4> QED
        BY <2>1, <4>1 DEF PoolInv, NoLateWakeup
    <3> QED
      BY <3>1, <3>2
  <2> QED
    BY <1>6, <2>2, <2>3, <2>4 DEF PoolInv
<1>10. CASE Pool!WakesWaiter(d)
  <2> DEFINE f == IF d = 1 THEN Head(inbuf_queue) ELSE Head(outbuf_queue)
             g == IF again THEN b ELSE 0
  <2>1. /\ IF again THEN /\ bufs_allocated' = [counts EXCEPT ![d] = @ + 1]
                         /\ is_in_buf' = [is_in_buf EXCEPT ![b] = d] /\ free' = free
                    ELSE /\ bufs_allocated' = counts /\ free' = <<b>> \o free
                         /\ is_in_buf' = is_in_buf
        /\ Pool!HandOver(f, g) /\ buf_freelist' = buf_freelist + 1
        /\ IF d = 1 THEN inbuf_queue' = Tail(inbuf_queue) /\ outbuf_queue' = outbuf_queue
                    ELSE outbuf_queue' = Tail(outbuf_queue) /\ inbuf_queue' = inbuf_queue
    BY <1>10 DEF Pool!zb_free_buf, Pool!IN_BUF, Pool!NoBuf, Pool!ZB_BUFS_LIMIT, Limit
  <2>2. IF d = 1 THEN inbuf_queue # << >> ELSE outbuf_queue # << >>
    BY <1>10 DEF Pool!WakesWaiter, Pool!IN_BUF
  <2>3. f \in Funcs
    <3>1. inbuf_queue \in Seq(Funcs) /\ outbuf_queue \in Seq(Funcs)
      BY DEF PoolInv, WaitOK, Waits
    <3> QED
      BY <2>2, <3>1
  <2>4. g \in 0 .. PoolSize /\ g \notin CarriedFrom(cb_q, PoolPos)
    BY <1>3 DEF CarriedFrom
  <2>5. WaitOK'
    <3>1. Waits(inbuf_queue, outbuf_queue, buf_freelist)
      BY DEF PoolInv, WaitOK
    <3>2. Waits(inbuf_queue', outbuf_queue', buf_freelist')
      <4>1. CASE d = 1
        <5>1. Waits(Tail(inbuf_queue), outbuf_queue, buf_freelist + 1)
          BY <2>2, <3>1, <4>1, WaitsLess
        <5> QED
          BY <2>1, <4>1, <5>1
      <4>2. CASE d # 1
        <5>1. Waits(inbuf_queue, Tail(outbuf_queue), buf_freelist + 1)
          BY <2>2, <3>1, <4>2, WaitsLess
        <5> QED
          BY <2>1, <4>2, <5>1
      <4> QED
        BY <4>1, <4>2
    <3> QED
      BY <3>2 DEF WaitOK
  <2> HIDE DEF f, g
  <2>6. /\ QueueOK'
        /\ \/ /\ CarriedFrom(cb_q, PoolPos)' = CarriedFrom(cb_q, PoolPos) \cup ({g} \ {0})
              /\ lost' = lost
           \/ /\ CarriedFrom(cb_q, PoolPos)' = CarriedFrom(cb_q, PoolPos)
              /\ lost' = lost \cup ({g} \ {0})
    BY <1>1, <2>1, <2>3, <2>4, HandOK DEF PoolInv
  <2>7. CASE again
    <3>1. /\ bufs_allocated' = [counts EXCEPT ![d] = @ + 1]
          /\ is_in_buf' = [is_in_buf EXCEPT ![b] = d] /\ free' = free
      BY <2>1, <2>7
    <3>2. g = b
      BY <2>7 DEF g
    <3>3. CountsOf(Range(free), is_in_buf', bufs_allocated')
      BY <1>2, <1>3, <1>8, <3>1, ReuseCounts
    <3>4. bufs_allocated' \in [Dirs -> 0 .. Limit] /\ is_in_buf' \in [PoolBufs -> Dirs]
      <4> HIDE DEF counts, d
      <4>1. counts[d] \in 0 .. Limit /\ counts[d] < Limit
        BY <1>4, <1>8, <2>7
      <4>2. counts[d] + 1 \in 0 .. Limit
        BY <4>1, PoolConstants
      <4> QED
        BY <1>2, <1>4, <1>8, <3>1, <4>2
    <3>5. StackOK' /\ CountOK'
      BY <3>1, <3>3, <3>4 DEF PoolInv, StackOK, CountOK
    <3>6. OwnOK'
      BY <1>1, <1>3, <1>7, <2>6, <3>1, <3>2 DEF PoolInv, OwnOK, Parted
    <3>7. NoLateWakeup'
      <4>1. CASE d = 0 /\ c = 0
        BY <1>2, <1>4, <2>1, <3>1, <4>1 DEF PoolInv, NoLateWakeup, WaitOK
      <4>2. CASE d = 0 /\ c # 0
        <5>1. counts[0] = bufs_allocated[0] /\ outbuf_queue # << >>
          BY <1>4, <1>8, <2>2, <4>2
        <5>2. bufs_allocated[0] = Limit
          BY <5>1 DEF PoolInv, NoLateWakeup
        <5> QED
          BY <2>7, <4>2, <5>1, <5>2, PoolConstants
      <4>3. CASE d # 0
        <5>1. d = 1 /\ c = 1 /\ 0 \in Dirs
          BY <1>2, <4>3 DEF Dirs
        <5>2. bufs_allocated'[0] = bufs_allocated[0] /\ outbuf_queue' = outbuf_queue
          BY <1>4, <2>1, <3>1, <5>1
        <5> QED
          BY <5>2 DEF PoolInv, NoLateWakeup
      <4> QED
        BY <4>1, <4>2, <4>3
    <3> QED
      BY <1>6, <2>5, <2>6, <3>5, <3>6, <3>7 DEF PoolInv
  <2>8. CASE ~again
    <3>1. bufs_allocated' = counts /\ free' = <<b>> \o free /\ is_in_buf' = is_in_buf
      BY <2>1, <2>8
    <3>2. g = 0
      BY <2>8 DEF g
    <3>3. StackOK' /\ CountOK' /\ Range(free') = Range(free) \cup {b}
      BY <1>2, <1>4, <1>5, <3>1 DEF StackOK, CountOK
    <3>4. OwnOK'
      BY <1>1, <1>3, <1>7, <2>6, <3>2, <3>3 DEF PoolInv, OwnOK, Parted
    <3>5. d = 0 /\ c # 0
      <4>1. d = c => counts[d] < Limit
        <5>1. counts[c] = bufs_allocated[c] - 1 /\ bufs_allocated[c] \in 0 .. Limit
          BY <1>2, <1>4
        <5> QED
          BY <5>1, PoolConstants
      <4> QED
        BY <1>2, <2>8, <4>1
    <3>6. NoLateWakeup'
      <4>1. counts[0] = bufs_allocated[0] /\ outbuf_queue # << >>
        BY <1>4, <1>8, <2>2, <3>5
      <4> QED
        BY <3>1, <4>1 DEF PoolInv, NoLateWakeup
    <3> QED
      BY <1>6, <2>5, <2>6, <3>3, <3>4, <3>6 DEF PoolInv
  <2> QED
    BY <2>7, <2>8
<1> QED
  BY <1>9, <1>10

LEMMA ScheduleStep ==
  ASSUME PoolInv, NEW f \in Funcs, NEW b \in 0 .. PoolSize, Pool!zb_schedule_callback(f, b)
  PROVE  PoolInv'
<1>1. /\ Len(cb_q) < CbQSize /\ (b \in held \ (1 .. OutReserved + InReserved) \/ b = 0)
      /\ cb_q' = Append(cb_q, [func |-> f, param |-> b]) /\ held' = held \ {b}
      /\ free' = free /\ is_in_buf' = is_in_buf /\ bufs_allocated' = bufs_allocated
      /\ inbuf_queue' = inbuf_queue /\ outbuf_queue' = outbuf_queue
      /\ buf_freelist' = buf_freelist /\ lost' = lost
      /\ rx_pending' = rx_pending /\ rx_need_buf' = rx_need_buf /\ pc' = pc
  BY DEF Pool!zb_schedule_callback, Pool!Entry, Pool!poolVars, Pool!waitVars, Pool!macVars,
         Pool!Reserved, Pool!NoBuf
<1>2. PoolPos' = PoolPos /\ cb_q \in Seq(Calls) /\ OnceFrom(cb_q, PoolPos)
      /\ PoolPos \in 1 .. Len(cb_q) + 1
  BY <1>1 DEF PoolPos, PoolInv, QueueOK
<1>3. b \notin CarriedFrom(cb_q, PoolPos)
  BY <1>1, Apart DEF CarriedFrom, PoolInv, PoolBufs
<1>4. /\ cb_q' \in Seq(Calls) /\ Len(cb_q') = Len(cb_q) + 1 /\ OnceFrom(cb_q', PoolPos)
      /\ CarriedFrom(cb_q', PoolPos) = CarriedFrom(cb_q, PoolPos) \cup ({b} \ {0})
  BY <1>1, <1>2, <1>3, AppendCall
<1>5. QueueOK'
  <2>1. cb_q' # << >> /\ Len(cb_q') <= CbQSize
    BY <1>1, <1>2, <1>4, PoolConstants
  <2> QED
    BY <1>1, <1>2, <1>4, <2>1 DEF PoolInv, QueueOK
<1>6. StackOK' /\ CountOK' /\ WaitOK' /\ NoLateWakeup' /\ RxOK'
  BY <1>1 DEF PoolInv, StackOK, CountOK, WaitOK, NoLateWakeup, RxOK
<1>7. OwnOK'
  <2>1. CarriedFrom(cb_q, PoolPos)' = CarriedFrom(cb_q, PoolPos) \cup ({b} \ {0})
    BY <1>2, <1>4
  <2>2. 0 \notin held
    BY PoolConstants DEF PoolInv, OwnOK, Parted, PoolBufs
  <2>3. 1 .. OutReserved + InReserved \subseteq held'
    BY <1>1, <2>2 DEF PoolInv, OwnOK
  <2> QED
    BY <1>1, <2>1, <2>2, <2>3 DEF PoolInv, OwnOK, Parted
<1> QED
  BY <1>5, <1>6, <1>7 DEF PoolInv

LEMMA MacReceiveStep ==
  ASSUME PoolInv, Pool!MacReceive
  PROVE  PoolInv'
<1>1. /\ pc = "mac" /\ inbuf_queue' = inbuf_queue /\ outbuf_queue' = outbuf_queue
      /\ buf_freelist' = buf_freelist /\ cb_q' = cb_q /\ lost' = lost
      /\ pc' \in {"recv", "cbs"}
  BY DEF Pool!MacReceive, Pool!waitVars
<1>2. PoolPos' = PoolPos
  BY <1>1 DEF PoolPos
<1>3. QueueOK' /\ WaitOK' /\ CarriedFrom(cb_q, PoolPos)' = CarriedFrom(cb_q, PoolPos)
  <2>1. pc' # "cb" /\ pc' \in {"mac", "recv", "cbs", "cb"}
    BY <1>1
  <2> QED
    BY <1>1, <1>2, <2>1 DEF PoolInv, QueueOK, WaitOK
<1>4. CASE Pool!CanGet(1)
  <2> DEFINE b == Head(free)
  <2>1. /\ Pool!zb_get_buf(1) /\ held' = held \cup {b} /\ rx_pending' = FALSE
        /\ rx_need_buf' = rx_need_buf /\ 1 \in Dirs
    BY <1>4 DEF Pool!MacReceive, Pool!IN_BUF, Dirs
  <2>2. /\ StackOK' /\ CountOK' /\ b \in PoolBufs /\ b \in Range(free)
        /\ Range(free') = Range(free) \ {b} /\ NoLateWakeup'
    BY <1>1, <2>1, GetOK DEF PoolInv
  <2> HIDE DEF b
  <2>3. OwnOK' /\ RxOK'
    BY <1>1, <1>3, <2>1, <2>2 DEF PoolInv, OwnOK, Parted, RxOK
  <2> QED
    BY <1>3, <2>2, <2>3 DEF PoolInv
<1>5. CASE ~Pool!CanGet(1)
  <2>1. /\ rx_need_buf' = TRUE /\ free' = free /\ is_in_buf' = is_in_buf
        /\ bufs_allocated' = bufs_allocated /\ held' = held /\ rx_pending' = rx_pending
    BY <1>5 DEF Pool!MacReceive, Pool!IN_BUF, Pool!poolVars
  <2>2. StackOK' /\ CountOK' /\ NoLateWakeup' /\ RxOK' /\ OwnOK'
    BY <1>1, <1>2, <2>1 DEF PoolInv, StackOK, CountOK, NoLateWakeup, RxOK, OwnOK
  <2> QED
    BY <1>3, <2>2 DEF PoolInv
<1> QED
  BY <1>4, <1>5

\* The steps that move only the main loop.
LEMMA PoolLoopStep ==
  ASSUME PoolInv, Pool!RxFrame \/ Pool!MacIdle \/ Pool!MacReceived \/ Pool!CbDone
  PROVE  PoolInv'
<1>1. /\ free' = free /\ is_in_buf' = is_in_buf /\ bufs_allocated' = bufs_allocated
      /\ inbuf_queue' = inbuf_queue /\ outbuf_queue' = outbuf_queue
      /\ buf_freelist' = buf_freelist /\ cb_q' = cb_q /\ lost' = lost /\ held' = held
  BY DEF Pool!RxFrame, Pool!MacIdle, Pool!MacReceived, Pool!CbDone, Pool!poolVars, Pool!waitVars
<1>2. pc' = pc \/ (pc # "cb" /\ pc' \in {"mac", "cbs"})
  BY DEF Pool!RxFrame, Pool!MacIdle, Pool!MacReceived, Pool!CbDone
<1>3. PoolPos' = PoolPos
  BY <1>2 DEF PoolPos
<1>4. RxOK'
  BY DEF PoolInv, RxOK, Pool!RxFrame, Pool!MacIdle, Pool!MacReceived, Pool!CbDone
<1>5. QueueOK'
  <2>1. pc' \in {"mac", "recv", "cbs", "cb"} /\ (pc' = "cb" => pc = "cb")
    BY <1>2 DEF PoolInv, QueueOK
  <2> QED
    BY <1>1, <1>3, <2>1 DEF PoolInv, QueueOK
<1>6. StackOK' /\ CountOK' /\ WaitOK' /\ NoLateWakeup' /\ OwnOK'
  BY <1>1, <1>3 DEF PoolInv, StackOK, CountOK, WaitOK, NoLateWakeup, OwnOK
<1> QED
  BY <1>4, <1>5, <1>6 DEF PoolInv

LEMMA CbCallStep ==
  ASSUME PoolInv, Pool!CbCall
  PROVE  PoolInv'
<1> DEFINE b == Head(cb_q).param
<1>1. /\ pc = "cbs" /\ cb_q # << >> /\ held' = held \cup ({b} \ {0}) /\ pc' = "cb"
      /\ free' = free /\ is_in_buf' = is_in_buf /\ bufs_allocated' = bufs_allocated
      /\ inbuf_queue' = inbuf_queue /\ outbuf_queue' = outbuf_queue
      /\ buf_freelist' = buf_freelist /\ cb_q' = cb_q /\ lost' = lost
      /\ rx_pending' = rx_pending /\ rx_need_buf' = rx_need_buf
  BY DEF Pool!CbCall, Pool!poolVars, Pool!waitVars, Pool!NoBuf
<1>2. PoolPos = 1 /\ PoolPos' = 2 /\ cb_q \in Seq(Calls) /\ OnceFrom(cb_q, 1)
  BY <1>1 DEF PoolPos, PoolInv, QueueOK
<1>3. /\ b \in 0 .. PoolSize /\ OnceFrom(cb_q, 2)
      /\ CarriedFrom(cb_q, 2) = CarriedFrom(cb_q, 1) \ {b}
      /\ (b # 0 => b \in CarriedFrom(cb_q, 1))
  BY <1>1, <1>2, TakeCall
<1> HIDE DEF b
<1>4. QueueOK' /\ RxOK'
  BY <1>1, <1>2, <1>3 DEF PoolInv, QueueOK, RxOK
<1>5. OwnOK'
  <2>1. 0 \notin CarriedFrom(cb_q, 1)
    BY DEF CarriedFrom
  <2>2. CarriedFrom(cb_q, PoolPos)' = CarriedFrom(cb_q, 1) \ {b}
        /\ CarriedFrom(cb_q, PoolPos) = CarriedFrom(cb_q, 1)
    BY <1>1, <1>2, <1>3
  <2> QED
    BY <1>1, <1>3, <2>1, <2>2 DEF PoolInv, OwnOK, Parted
<1>6. StackOK' /\ CountOK' /\ WaitOK' /\ NoLateWakeup'
  BY <1>1 DEF PoolInv, StackOK, CountOK, WaitOK, NoLateWakeup
<1> QED
  BY <1>4, <1>5, <1>6 DEF PoolInv

LEMMA CbReturnStep ==
  ASSUME PoolInv, Pool!CbReturn
  PROVE  PoolInv'
<1>1. /\ pc = "cb" /\ pc' = "cbs" /\ cb_q' = Tail(cb_q)
      /\ free' = free /\ is_in_buf' = is_in_buf /\ bufs_allocated' = bufs_allocated
      /\ inbuf_queue' = inbuf_queue /\ outbuf_queue' = outbuf_queue
      /\ buf_freelist' = buf_freelist /\ held' = held /\ lost' = lost
      /\ rx_pending' = rx_pending /\ rx_need_buf' = rx_need_buf
  BY DEF Pool!CbReturn, Pool!poolVars, Pool!waitVars
<1>2. PoolPos = 2 /\ PoolPos' = 1 /\ cb_q \in Seq(Calls) /\ OnceFrom(cb_q, 2) /\ cb_q # << >>
      /\ Len(cb_q) <= CbQSize
  BY <1>1 DEF PoolPos, PoolInv, QueueOK
<1>3. /\ cb_q' \in Seq(Calls) /\ OnceFrom(cb_q', 1)
      /\ CarriedFrom(cb_q', 1) = CarriedFrom(cb_q, 2) /\ Len(cb_q') = Len(cb_q) - 1
  BY <1>1, <1>2, ReleaseCall
<1>4. QueueOK' /\ RxOK'
  <2>1. Len(cb_q') <= CbQSize
    BY <1>2, <1>3, PoolConstants
  <2> QED
    BY <1>1, <1>2, <1>3, <2>1 DEF PoolInv, QueueOK, RxOK
<1>5. OwnOK'
  <2>1. CarriedFrom(cb_q, PoolPos)' = CarriedFrom(cb_q, PoolPos)
    BY <1>2, <1>3
  <2> QED
    BY <1>1, <2>1 DEF PoolInv, OwnOK
<1>6. StackOK' /\ CountOK' /\ WaitOK' /\ NoLateWakeup'
  BY <1>1 DEF PoolInv, StackOK, CountOK, WaitOK, NoLateWakeup
<1> QED
  BY <1>4, <1>5, <1>6 DEF PoolInv

LEMMA PoolSteps ==
  ASSUME [Next]_vars
  PROVE  [Pool!Next]_(Pool!vars)
BY DEF Next, vars, poolVars, Pool!vars

LEMMA PoolStep ==
  ASSUME PoolInv, [Next]_vars
  PROVE  PoolInv'
<1>1. CASE Pool!UserCall
  <2>1. CASE \E d \in Dirs : Pool!GetBuf(d)
    BY <2>1, GetBufStep
  <2>2. CASE \E f \in Funcs, d \in Dirs : Pool!zb_get_buf_delayed(f, d)
    BY <2>2, GetBufDelayedStep
  <2>3. CASE \E b \in PoolBufs : Pool!zb_free_buf(b)
    BY <2>3, FreeBufStep
  <2>4. CASE \E f \in Funcs, b \in PoolBufs \cup {0} : Pool!zb_schedule_callback(f, b)
    BY <2>4, ScheduleStep, PoolConstants DEF PoolBufs
  <2> QED
    BY <1>1, <2>1, <2>2, <2>3, <2>4
       DEF Pool!UserCall, Pool!IN_BUF, Pool!OUT_BUF, Pool!Bufs, Pool!NoBuf, Dirs, PoolBufs
<1>2. CASE Pool!MacReceive
  BY <1>2, MacReceiveStep
<1>3. CASE Pool!RxFrame \/ Pool!MacIdle \/ Pool!MacReceived \/ Pool!CbDone
  BY <1>3, PoolLoopStep
<1>4. CASE Pool!CbCall
  BY <1>4, CbCallStep
<1>5. CASE Pool!CbReturn
  BY <1>5, CbReturnStep
<1>6. CASE UNCHANGED Pool!vars
  BY <1>6 DEF Pool!vars, PoolInv, StackOK, CountOK, QueueOK, OwnOK, WaitOK, NoLateWakeup, RxOK,
              PoolPos
<1> QED
  BY PoolSteps, <1>1, <1>2, <1>3, <1>4, <1>5, <1>6 DEF Pool!Next

LEMMA PoolInit ==
  ASSUME Init
  PROVE  PoolInv
<1> DEFINE R == OutReserved + InReserved
<1>1. Pool!Init
  BY DEF Init
<1>2. /\ R \in 0 .. PoolSize /\ R \in Nat /\ PoolSize - R \in Nat
      /\ PoolSize - OutReserved - InReserved = PoolSize - R
      /\ OutReserved \in Nat /\ InReserved \in Nat /\ PoolSize \in Nat
  BY PoolConstants
<1>3. /\ free = [i \in 1 .. PoolSize - R |-> i + OutReserved + InReserved]
      /\ is_in_buf = [b \in PoolBufs |-> IF b \in OutReserved + 1 .. R THEN 1 ELSE 0]
      /\ bufs_allocated = [d \in Dirs |-> IF d = 1 THEN InReserved ELSE OutReserved]
      /\ inbuf_queue = << >> /\ outbuf_queue = << >> /\ buf_freelist = BufQSize
      /\ cb_q = << >> /\ held = 1 .. R /\ lost = {}
      /\ rx_pending = FALSE /\ rx_need_buf = FALSE /\ pc = "mac"
  BY <1>1, <1>2 DEF Pool!Init, Pool!Reserved, Pool!Bufs, Pool!IN_BUF, Pool!OUT_BUF, PoolBufs, Dirs
<1> HIDE DEF R
<1>4. /\ DOMAIN free = 1 .. PoolSize - R /\ \A i \in DOMAIN free : free[i] = i + R
  BY <1>2, <1>3 DEF R
<1>5. StackOK
  <2>1. free \in Seq(PoolBufs)
    <3>1. \A i \in 1 .. PoolSize - R : i + OutReserved + InReserved \in PoolBufs
      BY <1>2 DEF PoolBufs, R
    <3> QED
      BY <1>2, <1>3, <3>1
  <2>2. IsInjective(free)
    BY <1>2, <1>4 DEF IsInjective
  <2> QED
    BY <2>1, <2>2 DEF StackOK
<1>6. Range(free) = R + 1 .. PoolSize
  <2>1. Range(free) \subseteq R + 1 .. PoolSize
    BY <1>2, <1>4 DEF Range
  <2>2. ASSUME NEW b \in R + 1 .. PoolSize PROVE b \in Range(free)
    <3>1. b - R \in DOMAIN free /\ free[b - R] = (b - R) + R /\ (b - R) + R = b
      BY <1>2, <1>4
    <3> QED
      BY <3>1 DEF Range
  <2> QED
    BY <2>1, <2>2
<1>7. CountOK
  <2>1. is_in_buf \in [PoolBufs -> Dirs]
    BY <1>3 DEF Dirs
  <2>2. bufs_allocated \in [Dirs -> 0 .. Limit]
    BY <1>3, PoolConstants
  <2>3. PoolBufs \ Range(free) = 1 .. R
    BY <1>2, <1>6 DEF PoolBufs
  <2>4. OutReserved + 1 .. R \subseteq PoolBufs /\ 1 .. R \subseteq PoolBufs
    BY <1>2 DEF PoolBufs
  <2>5. Used(Range(free), is_in_buf, 1) = OutReserved + 1 .. R
    BY <1>2, <1>3, <2>3, <2>4 DEF Used
  <2>6. Used(Range(free), is_in_buf, 0) = 1 .. OutReserved
    <3>1. \A b \in 1 .. R : b \notin OutReserved + 1 .. R <=> b \in 1 .. OutReserved
      BY <1>2 DEF R
    <3>2. 1 .. OutReserved \subseteq 1 .. R
      BY <1>2 DEF R
    <3> QED
      BY <1>3, <2>3, <2>4, <3>1, <3>2 DEF Used
  <2>7. Cardinality(OutReserved + 1 .. R) = InReserved
    <3>1. Cardinality(OutReserved + 1 .. R) =
            IF OutReserved + 1 > R THEN 0 ELSE R - (OutReserved + 1) + 1
      BY <1>2, FS_Interval
    <3> QED
      BY <1>2, <3>1 DEF R
  <2>8. Cardinality(1 .. OutReserved) = OutReserved
    <3>1. Cardinality(1 .. OutReserved) = IF 1 > OutReserved THEN 0 ELSE OutReserved - 1 + 1
      BY <1>2, FS_Interval
    <3> QED
      BY <1>2, <3>1
  <2>9. bufs_allocated[1] = InReserved /\ bufs_allocated[0] = OutReserved
    BY <1>3 DEF Dirs
  <2>10. CountsOf(Range(free), is_in_buf, bufs_allocated)
    BY <2>5, <2>6, <2>7, <2>8, <2>9 DEF CountsOf, Dirs
  <2> QED
    BY <2>1, <2>2, <2>10 DEF CountOK
<1>8. CarriedFrom(cb_q, PoolPos) = {} /\ OnceFrom(cb_q, PoolPos)
  BY <1>3 DEF CarriedFrom, OnceFrom, PoolPos
<1>9. QueueOK
  BY <1>3, <1>8, PoolConstants DEF QueueOK
<1>10. OwnOK
  <2>1. (R + 1 .. PoolSize) \cup 1 .. R = PoolBufs /\ (R + 1 .. PoolSize) \cap 1 .. R = {}
    BY <1>2 DEF PoolBufs
  <2> QED
    BY <1>3, <1>6, <1>8, <2>1 DEF OwnOK, Parted, R
<1>11. WaitOK /\ NoLateWakeup /\ RxOK
  <2>1. Waits(<< >>, << >>, BufQSize)
    BY PoolConstants DEF Waits
  <2> QED
    BY <1>3, <2>1 DEF WaitOK, NoLateWakeup, RxOK
<1> QED
  BY <1>5, <1>7, <1>9, <1>10, <1>11 DEF PoolInv

\* The pool's inductive invariant, which needs nothing but the named assumptions.
THEOREM SpecPoolInv == Spec => []PoolInv
<1>1. Init => PoolInv
  BY PoolInit
<1>2. PoolInv /\ [Next]_vars => PoolInv'
  BY PoolStep
<1> QED
  BY <1>1, <1>2, PTL DEF Spec

LEMMA PoolSoundFollows ==
  ASSUME PoolInv
  PROVE  Pool!PoolSound /\ Pool!OutWaitersOnlyWhenShort
<1>1. Pool!Carried = CarriedFrom(cb_q, PoolPos)
  BY DEF Pool!Carried, Pool!Pending, Pool!NoBuf, CarriedFrom, PoolPos
<1>2. \A i, j \in Pool!Pending :
        cb_q[i].param = cb_q[j].param => i = j \/ cb_q[i].param = Pool!NoBuf
  BY DEF PoolInv, QueueOK, OnceFrom, PoolPos, Pool!Pending, Pool!NoBuf
<1>3. Pool!OneOwner
  BY <1>1, <1>2 DEF PoolInv, StackOK, OwnOK, Parted, Pool!OneOwner, Pool!Bufs, PoolBufs,
                    Pool!Range, Range, Pool!IsInjective, IsInjective
<1>4. Pool!CountsRight
  <2>1. \A S : Pool!Cardinality(S) = Cardinality(S)
    BY DEF Pool!Cardinality, Cardinality
  <2>2. Pool!Range(free) = Range(free)
    BY DEF Pool!Range, Range
  <2>3. \A e \in Dirs : bufs_allocated[e] = Cardinality(Used(Range(free), is_in_buf, e))
    BY DEF PoolInv, CountOK, CountsOf
  <2> QED
    BY <2>1, <2>2, <2>3
       DEF Used, Dirs, PoolBufs, Pool!CountsRight, Pool!Bufs, Pool!IN_BUF, Pool!OUT_BUF
<1>5. Pool!PartsIndependent
  <2> SUFFICES ASSUME NEW d \in Dirs, bufs_allocated[d] < Limit
               PROVE  free # << >>
    BY DEF Pool!PartsIndependent, Pool!ZB_BUFS_LIMIT, Pool!IN_BUF, Pool!OUT_BUF, Limit, Dirs
  <2>1. CASE free = << >>
    <3>1. Range(free) = {}
      BY <2>1 DEF Range
    <3>2. bufs_allocated[d] = Limit
      BY <3>1, HalvesFull DEF PoolInv, CountOK
    <3> QED
      BY <3>2, PoolConstants
  <2> QED
    BY <2>1
<1>6. Pool!OutWaitersOnlyWhenShort
  BY DEF PoolInv, NoLateWakeup, Pool!OutWaitersOnlyWhenShort, Pool!ZB_BUFS_LIMIT, Pool!OUT_BUF,
         Limit
<1> QED
  BY <1>3, <1>4, <1>5, <1>6 DEF Pool!PoolSound

\* Where every scheduled callback carries a buffer and a freed buffer remembers its
\* direction, the scheduler has more entries than there are buffers to carry: in the code
\* ZB_SCHEDULER_Q_SIZE is ZB_IOBUF_POOL_SIZE and zb_mac_init keeps at least one buffer.
PoolRoom ==
  /\ ~BareCallbacks /\ HeaderSurvives
  /\ CbQSize > PoolSize - (OutReserved + InReserved)

\* Nothing is lost, each call carries a buffer, and there are as many calls as buffers
\* under way, and the one that is being called.
HandInv ==
  /\ lost = {}
  /\ \A i \in 1 .. Len(cb_q) : cb_q[i].param # 0
  /\ Len(cb_q) = Cardinality(CarriedFrom(cb_q, PoolPos)) + (PoolPos - 1)

LEMMA CarriedFinite ==
  ASSUME PoolInv
  PROVE  /\ IsFiniteSet(CarriedFrom(cb_q, PoolPos))
         /\ Cardinality(CarriedFrom(cb_q, PoolPos)) \in Nat
         /\ CarriedFrom(cb_q, PoolPos) \subseteq (OutReserved + InReserved) + 1 .. PoolSize
<1>1. CarriedFrom(cb_q, PoolPos) \subseteq PoolBufs
  BY DEF PoolInv, OwnOK, Parted
<1>2. CarriedFrom(cb_q, PoolPos) \cap 1 .. OutReserved + InReserved = {}
  BY DEF PoolInv, OwnOK, Parted
<1>3. IsFiniteSet(PoolBufs)
  BY PoolConstants, FS_Interval DEF PoolBufs
<1>4. CarriedFrom(cb_q, PoolPos) \subseteq (OutReserved + InReserved) + 1 .. PoolSize
  BY <1>1, <1>2, PoolConstants DEF PoolBufs
<1> QED
  BY <1>1, <1>3, <1>4, FS_Subset, FS_CardinalityType

\* There is room for the call that a buffer is handed to.
LEMMA RoomOK ==
  ASSUME PoolRoom, PoolInv, HandInv, NEW b \in PoolBufs, b \notin CarriedFrom(cb_q, PoolPos),
         b \notin 1 .. OutReserved + InReserved
  PROVE  Len(cb_q) < CbQSize
<1> DEFINE R == OutReserved + InReserved
           C == CarriedFrom(cb_q, PoolPos)
<1>1. IsFiniteSet(C) /\ Cardinality(C) \in Nat /\ C \subseteq R + 1 .. PoolSize /\ b \notin C
  BY CarriedFinite
<1>2. R \in Nat /\ PoolSize \in Nat /\ R <= PoolSize /\ b \in R + 1 .. PoolSize
      /\ CbQSize \in Nat
  BY PoolConstants DEF PoolBufs
<1>3. Len(cb_q) <= Cardinality(C) + 1 /\ Len(cb_q) \in Nat
  <2>1. PoolPos - 1 \in {0, 1}
    BY DEF PoolPos
  <2>2. Len(cb_q) = Cardinality(C) + (PoolPos - 1)
    BY DEF HandInv
  <2> HIDE DEF C
  <2> QED
    BY <1>1, <2>1, <2>2
<1>4. CbQSize > PoolSize - R
  BY DEF PoolRoom
<1> HIDE DEF C, R
<1>5. Cardinality(C \cup {b}) = Cardinality(C) + 1 /\ IsFiniteSet(C \cup {b})
  BY <1>1, FS_AddElement
<1>6. IsFiniteSet(R + 1 .. PoolSize) /\ Cardinality(R + 1 .. PoolSize) = PoolSize - R
  <2>1. R + 1 \in Int /\ PoolSize \in Int
    BY <1>2
  <2>2. \A x, y \in Int : IsFiniteSet(x .. y)
                            /\ Cardinality(x .. y) = IF x > y THEN 0 ELSE y - x + 1
    BY FS_Interval
  <2>3. IsFiniteSet(R + 1 .. PoolSize)
        /\ Cardinality(R + 1 .. PoolSize) = IF R + 1 > PoolSize THEN 0 ELSE PoolSize - (R + 1) + 1
    BY <2>1, <2>2
  <2>4. (IF R + 1 > PoolSize THEN 0 ELSE PoolSize - (R + 1) + 1) = PoolSize - R
    BY <1>2
  <2> QED
    BY <2>3, <2>4
<1>7. C \cup {b} \in SUBSET (R + 1 .. PoolSize)
  BY <1>1, <1>2
<1>8. Cardinality(C \cup {b}) <= PoolSize - R
  <2>1. \A S, T : IsFiniteSet(S) /\ T \in SUBSET S => Cardinality(T) <= Cardinality(S)
    BY FS_Subset
  <2>2. Cardinality(C \cup {b}) <= Cardinality(R + 1 .. PoolSize)
    BY <1>6, <1>7, <2>1
  <2> QED
    BY <1>6, <2>2
<1> QED
  BY <1>1, <1>2, <1>3, <1>4, <1>5, <1>8

\* Another buffer under way.
LEMMA HandMore ==
  ASSUME PoolInv, HandInv, NEW f \in Funcs, NEW b \in PoolBufs,
         b \notin CarriedFrom(cb_q, PoolPos), pc' = pc, lost' = lost,
         cb_q' = Append(cb_q, [func |-> f, param |-> b])
  PROVE  HandInv'
<1> DEFINE n == PoolPos
           C == CarriedFrom(cb_q, n)
<1>1. PoolPos' = PoolPos /\ n \in {1, 2} /\ cb_q \in Seq(Calls) /\ OnceFrom(cb_q, n)
      /\ n \in 1 .. Len(cb_q) + 1
  BY DEF PoolPos, PoolInv, QueueOK
<1>2. b \in 0 .. PoolSize /\ b # 0
  BY PoolConstants DEF PoolBufs
<1>3. /\ Len(cb_q') = Len(cb_q) + 1 /\ CarriedFrom(cb_q', n) = C \cup ({b} \ {0})
      /\ cb_q' \in Seq(Calls)
  BY <1>1, <1>2, AppendCall
<1>4. CarriedFrom(cb_q', PoolPos') = C \cup {b}
  BY <1>1, <1>2, <1>3
<1>5. IsFiniteSet(C) /\ Cardinality(C) \in Nat /\ b \notin C
  BY CarriedFinite
<1>6. Len(cb_q) = Cardinality(C) + (n - 1)
  BY DEF HandInv
<1> HIDE DEF C, n
<1>7. Cardinality(C \cup {b}) = Cardinality(C) + 1
  BY <1>5, FS_AddElement
<1>8. Len(cb_q') = Cardinality(C \cup {b}) + (n - 1)
  BY <1>1, <1>3, <1>5, <1>6, <1>7
<1>9. \A i \in 1 .. Len(cb_q') : cb_q'[i].param # 0
  <2>1. \A i \in 1 .. Len(cb_q) : cb_q'[i] = cb_q[i]
    BY <1>1
  <2>2. cb_q'[Len(cb_q) + 1].param = b
    BY <1>1
  <2>3. \A i \in 1 .. Len(cb_q') : i \in 1 .. Len(cb_q) \/ i = Len(cb_q) + 1
    BY <1>1, <1>3
  <2> QED
    BY <1>2, <2>1, <2>2, <2>3 DEF HandInv
<1>10. Len(cb_q') = Cardinality(CarriedFrom(cb_q', PoolPos')) + (PoolPos' - 1)
  BY <1>1, <1>4, <1>8 DEF n
<1> QED
  BY <1>9, <1>10 DEF HandInv

LEMMA HandOverStep ==
  ASSUME PoolRoom, PoolInv, HandInv, NEW f \in Funcs, NEW b \in PoolBufs,
         b \notin CarriedFrom(cb_q, PoolPos), b \notin 1 .. OutReserved + InReserved,
         pc' = pc, Pool!HandOver(f, b)
  PROVE  HandInv'
<1>1. cb_q' = Append(cb_q, [func |-> f, param |-> b]) /\ lost' = lost
  BY RoomOK DEF Pool!HandOver, Pool!Entry
<1> QED
  BY <1>1, HandMore

LEMMA HandSame ==
  ASSUME HandInv, cb_q' = cb_q, lost' = lost, PoolPos' = PoolPos
  PROVE  HandInv'
BY DEF HandInv

LEMMA HandDelayed ==
  ASSUME PoolRoom, PoolInv, HandInv, NEW f \in Funcs, NEW d \in Dirs,
         Pool!zb_get_buf_delayed(f, d)
  PROVE  HandInv'
<1>1. pc' = pc
  BY DEF Pool!zb_get_buf_delayed, Pool!macVars
<1>2. CASE Pool!CanGet(d)
  <2>1. Pool!zb_get_buf(d) /\ Pool!HandOver(f, Head(free))
    BY <1>2 DEF Pool!zb_get_buf_delayed
  <2>2. Head(free) \in PoolBufs /\ Head(free) \in Range(free)
    BY <2>1, GetOK DEF PoolInv
  <2>3. Head(free) \notin CarriedFrom(cb_q, PoolPos) /\ Head(free) \notin held
    BY <2>2, Apart DEF PoolInv
  <2>4. Head(free) \notin 1 .. OutReserved + InReserved
    BY <2>3 DEF PoolInv, OwnOK
  <2> QED
    BY <1>1, <2>1, <2>2, <2>3, <2>4, HandOverStep
<1>3. CASE ~Pool!CanGet(d)
  <2>1. cb_q' = cb_q /\ lost' = lost
    BY <1>3 DEF Pool!zb_get_buf_delayed
  <2> QED
    BY <1>1, <2>1, HandSame DEF PoolPos
<1> QED
  BY <1>2, <1>3

LEMMA HandFree ==
  ASSUME PoolRoom, PoolInv, HandInv, NEW b \in PoolBufs, Pool!zb_free_buf(b)
  PROVE  HandInv'
<1> DEFINE d      == Pool!DirAfterLink(b)
           counts == [bufs_allocated EXCEPT ![is_in_buf[b]] = @ - 1]
           f      == IF d = 1 THEN Head(inbuf_queue) ELSE Head(outbuf_queue)
<1>1. b \in held \ (1 .. OutReserved + InReserved) /\ pc' = pc
  BY DEF Pool!zb_free_buf, Pool!macVars, Pool!Reserved
<1>2. b \notin CarriedFrom(cb_q, PoolPos)
  BY <1>1, Apart DEF PoolInv
<1>3. CASE ~Pool!WakesWaiter(d)
  <2>1. cb_q' = cb_q /\ lost' = lost
    BY <1>3 DEF Pool!zb_free_buf
  <2> QED
    BY <1>1, <2>1, HandSame DEF PoolPos
<1>4. CASE Pool!WakesWaiter(d)
  <2>1. d = is_in_buf[b]
    BY DEF PoolRoom, Pool!DirAfterLink
  <2>2. is_in_buf[b] \in Dirs /\ bufs_allocated \in [Dirs -> 0 .. Limit]
    BY DEF PoolInv, CountOK
  <2>3. counts[d] < Limit
    <3>1. bufs_allocated[is_in_buf[b]] \in 0 .. Limit
      BY <2>2
    <3>2. counts[d] = bufs_allocated[is_in_buf[b]] - 1
      BY <2>1, <2>2
    <3> QED
      BY <3>1, <3>2, PoolConstants
  <2>4. Pool!HandOver(f, b)
    BY <1>4, <2>3 DEF Pool!zb_free_buf, Pool!IN_BUF, Pool!ZB_BUFS_LIMIT, Limit
  <2>5. IF d = 1 THEN inbuf_queue # << >> ELSE outbuf_queue # << >>
    BY <1>4 DEF Pool!WakesWaiter, Pool!IN_BUF
  <2>6. f \in Funcs
    <3>1. inbuf_queue \in Seq(Funcs) /\ outbuf_queue \in Seq(Funcs)
      BY DEF PoolInv, WaitOK, Waits
    <3> QED
      BY <2>5, <3>1
  <2> QED
    BY <1>1, <1>2, <2>4, <2>6, HandOverStep
<1> QED
  BY <1>3, <1>4

LEMMA HandSchedule ==
  ASSUME PoolRoom, PoolInv, HandInv, NEW f \in Funcs, NEW b \in 0 .. PoolSize,
         Pool!zb_schedule_callback(f, b)
  PROVE  HandInv'
<1>1. /\ b \in held /\ pc' = pc /\ lost' = lost
      /\ cb_q' = Append(cb_q, [func |-> f, param |-> b])
  BY DEF PoolRoom, Pool!zb_schedule_callback, Pool!Entry, Pool!macVars
<1>2. b \in PoolBufs /\ b \notin CarriedFrom(cb_q, PoolPos)
  <2>1. b \in PoolBufs
    BY <1>1 DEF PoolInv, OwnOK, Parted
  <2> QED
    BY <1>1, <2>1, Apart DEF PoolInv
<1> QED
  BY <1>1, <1>2, HandMore

LEMMA HandCall ==
  ASSUME PoolInv, HandInv, Pool!CbCall
  PROVE  HandInv'
<1> DEFINE b == Head(cb_q).param
           C == CarriedFrom(cb_q, 1)
<1>1. pc = "cbs" /\ pc' = "cb" /\ cb_q # << >> /\ cb_q' = cb_q /\ lost' = lost
  BY DEF Pool!CbCall
<1>2. PoolPos = 1 /\ PoolPos' = 2 /\ cb_q \in Seq(Calls) /\ OnceFrom(cb_q, 1)
  BY <1>1 DEF PoolPos, PoolInv, QueueOK
<1>3. CarriedFrom(cb_q, 2) = C \ {b} /\ (b # 0 => b \in C)
  BY <1>1, <1>2, TakeCall
<1>4. b # 0
  <2>1. Head(cb_q) = cb_q[1] /\ 1 \in 1 .. Len(cb_q)
    BY <1>1, <1>2
  <2> QED
    BY <2>1 DEF HandInv
<1>5. IsFiniteSet(C) /\ Cardinality(C) \in Nat /\ Len(cb_q) = Cardinality(C) + (1 - 1)
  BY <1>2, CarriedFinite DEF HandInv
<1>6. CarriedFrom(cb_q', PoolPos') = C \ {b}
  BY <1>1, <1>2, <1>3
<1> HIDE DEF C, b
<1>7. Cardinality(C \ {b}) = Cardinality(C) - 1
  BY <1>3, <1>4, <1>5, FS_RemoveElement
<1>8. Len(cb_q') = Cardinality(C \ {b}) + (2 - 1)
  BY <1>1, <1>5, <1>7
<1> QED
  BY <1>1, <1>2, <1>6, <1>8 DEF HandInv

LEMMA HandReturn ==
  ASSUME PoolInv, HandInv, Pool!CbReturn
  PROVE  HandInv'
<1>1. pc = "cb" /\ pc' = "cbs" /\ cb_q' = Tail(cb_q) /\ lost' = lost
  BY DEF Pool!CbReturn
<1>2. PoolPos = 2 /\ PoolPos' = 1 /\ cb_q \in Seq(Calls) /\ OnceFrom(cb_q, 2) /\ cb_q # << >>
  BY <1>1 DEF PoolPos, PoolInv, QueueOK
<1>3. CarriedFrom(cb_q', PoolPos') = CarriedFrom(cb_q, 2) /\ Len(cb_q') = Len(cb_q) - 1
  BY <1>1, <1>2, ReleaseCall
<1>4. /\ Cardinality(CarriedFrom(cb_q, 2)) \in Nat
      /\ Len(cb_q) = Cardinality(CarriedFrom(cb_q, 2)) + (2 - 1)
  BY <1>2, CarriedFinite DEF HandInv
<1>5. Len(cb_q') = Cardinality(CarriedFrom(cb_q', PoolPos')) + (1 - 1)
  BY <1>3, <1>4
<1>6. \A i \in 1 .. Len(cb_q') : cb_q'[i].param # 0
  <2>1. \A i \in 1 .. Len(cb_q) - 1 : Tail(cb_q)[i] = cb_q[i + 1] /\ i + 1 \in 1 .. Len(cb_q)
    BY <1>2
  <2> QED
    BY <1>1, <1>3, <2>1 DEF HandInv
<1> QED
  BY <1>1, <1>2, <1>5, <1>6 DEF HandInv

LEMMA HandStep ==
  ASSUME PoolRoom, PoolInv, HandInv, [Next]_vars
  PROVE  HandInv'
<1>1. CASE Pool!UserCall
  <2>1. CASE \E d \in Dirs : Pool!GetBuf(d)
    BY <2>1, HandSame DEF Pool!GetBuf, Pool!macVars, PoolPos
  <2>2. CASE \E f \in Funcs, d \in Dirs : Pool!zb_get_buf_delayed(f, d)
    BY <2>2, HandDelayed
  <2>3. CASE \E b \in PoolBufs : Pool!zb_free_buf(b)
    BY <2>3, HandFree
  <2>4. CASE \E f \in Funcs, b \in PoolBufs \cup {0} : Pool!zb_schedule_callback(f, b)
    BY <2>4, HandSchedule, PoolConstants DEF PoolBufs
  <2> QED
    BY <1>1, <2>1, <2>2, <2>3, <2>4
       DEF Pool!UserCall, Pool!IN_BUF, Pool!OUT_BUF, Pool!Bufs, Pool!NoBuf, Dirs, PoolBufs
<1>2. CASE Pool!MacReceive
  <2>1. cb_q' = cb_q /\ lost' = lost /\ pc # "cb" /\ pc' # "cb"
    BY <1>2 DEF Pool!MacReceive
  <2> QED
    BY <2>1, HandSame DEF PoolPos
<1>3. CASE Pool!RxFrame \/ Pool!MacIdle \/ Pool!MacReceived \/ Pool!CbDone
  <2>1. cb_q' = cb_q /\ lost' = lost /\ (pc' = pc \/ (pc # "cb" /\ pc' # "cb"))
    BY <1>3 DEF Pool!RxFrame, Pool!MacIdle, Pool!MacReceived, Pool!CbDone
  <2> QED
    BY <2>1, HandSame DEF PoolPos
<1>4. CASE Pool!CbCall
  BY <1>4, HandCall
<1>5. CASE Pool!CbReturn
  BY <1>5, HandReturn
<1>6. CASE UNCHANGED Pool!vars
  BY <1>6, HandSame DEF Pool!vars, PoolPos
<1> QED
  BY PoolSteps, <1>1, <1>2, <1>3, <1>4, <1>5, <1>6 DEF Pool!Next

LEMMA HandInit ==
  ASSUME Init
  PROVE  HandInv
<1>1. cb_q = << >> /\ lost = {} /\ pc = "mac"
  BY DEF Init, Pool!Init
<1>2. CarriedFrom(cb_q, PoolPos) = {} /\ PoolPos = 1 /\ Len(cb_q) = 0
  BY <1>1 DEF CarriedFrom, PoolPos
<1>3. Cardinality(CarriedFrom(cb_q, PoolPos)) = 0
  BY <1>2, FS_EmptySet
<1> QED
  BY <1>1, <1>2, <1>3 DEF HandInv

\* A buffer has one owner, the counters count, no direction starves the other and no
\* waiter for an output buffer is forgotten, in every configuration of common/zb_bufpool.c,
\* the one included whose free list overwrites the direction.
PoolKept == Pool!PoolSound /\ Pool!OutWaitersOnlyWhenShort
THEOREM SpecPoolKept == Spec => []PoolKept
<1>1. PoolInv => PoolKept
  BY PoolSoundFollows DEF PoolKept
<1> QED
  BY <1>1, SpecPoolInv, PTL

\* What the run checks of the pool: a woken waiter also gets a buffer and neither is lost,
\* where no callback is scheduled without a buffer and the ring has room for all others.
\* The code does schedule such callbacks: SpecPoolKept is what holds with them.
THEOREM SpecPoolRight ==
  ASSUME PoolRoom
  PROVE  Spec => []PoolRight
<1>1. Init => PoolInv /\ HandInv
  BY PoolInit, HandInit
<1>2. (PoolInv /\ HandInv) /\ [Next]_vars => (PoolInv /\ HandInv)'
  BY PoolRoom, PoolStep, HandStep
<1>3. PoolInv /\ HandInv => PoolRight
  <2> SUFFICES ASSUME PoolInv, HandInv
               PROVE  PoolRight
    OBVIOUS
  <2>1. Pool!PoolSound /\ Pool!OutWaitersOnlyWhenShort
    BY PoolSoundFollows
  <2>2. DOMAIN cb_q = 1 .. Len(cb_q)
    BY DEF PoolInv, QueueOK
  <2>3. Pool!HandedOver
    BY <2>2 DEF HandInv, Pool!HandedOver, Pool!NothingLost, Pool!GetsABuffer, Pool!NoBuf
  <2> QED
    BY <2>1, <2>3 DEF PoolRight
<1> QED
  BY <1>1, <1>2, <1>3, PTL DEF Spec

-----------------------------------------------------------------------------
(* The buffer that answers an orphan.  First the headers: whoever reads one finds *)
(* what it was made from, where each address has the length that its mode says.   *)

\* What is appended to two fields comes third and fourth, the two stay.
LEMMA ConcatAt ==
  ASSUME NEW S, NEW p \in Seq(S), NEW q \in Seq(S), Len(p) = 2
  PROVE  /\ (p \o q)[1] = p[1] /\ (p \o q)[2] = p[2]
         /\ Len(q) = 1 => (p \o q)[3] = q[1]
         /\ Len(q) = 2 => (p \o q)[3] = q[1] /\ (p \o q)[4] = q[2]
<1>1. ASSUME NEW s \in Seq(S), NEW t \in Seq(S), NEW i \in 1 .. Len(t)
      PROVE  (s \o t)[Len(s) + i] = t[i]
  OBVIOUS
<1>2. \A i \in 1 .. Len(q) : (p \o q)[Len(p) + i] = q[i]
  BY <1>1, Zenon
<1>3. Len(p) + 1 = 3 /\ Len(p) + 2 = 4
  OBVIOUS
<1>4. ASSUME NEW s \in Seq(S), NEW t \in Seq(S), NEW i \in 1 .. Len(s)
      PROVE  (s \o t)[i] = s[i]
  OBVIOUS
<1>5. \A i \in 1 .. Len(p) : (p \o q)[i] = p[i]
  BY <1>4, Zenon
<1>6. 1 \in 1 .. 1 /\ 1 \in 1 .. 2 /\ 2 \in 1 .. 2
  OBVIOUS
<1> QED
  BY <1>2, <1>3, <1>6, <1>5, Zenon

\* The fields of a header, joined as the addresses require, stay in their places.
LEMMA FieldsInPlace ==
  ASSUME NEW x, NEW y, NEW z, NEW w
  PROVE  /\ (<<x, y>> \o << >>)[1] = x /\ (<<x, y>> \o << >>)[2] = y
         /\ LET t == << >> \o (<<z>> \o <<w>>) IN t[1] = z /\ t[2] = w
         /\ LET t == <<x, y>> \o (<< >> \o <<w>>) IN t[1] = x /\ t[2] = y /\ t[3] = w
         /\ LET t == <<x, y>> \o (<<z>> \o <<w>>)
            IN  t[1] = x /\ t[2] = y /\ t[3] = z /\ t[4] = w
<1> DEFINE S == {x, y, z, w}
<1>1. <<x, y>> \in Seq(S) /\ <<z>> \in Seq(S) /\ <<w>> \in Seq(S) /\ << >> \in Seq(S)
  OBVIOUS
<1>2. /\ Len(<<x, y>>) = 2 /\ Len(<<z>>) = 1 /\ Len(<<w>>) = 1 /\ Len(<< >>) = 0
      /\ <<x, y>>[1] = x /\ <<x, y>>[2] = y /\ <<z>>[1] = z /\ <<w>>[1] = w
  OBVIOUS
<1>3. \A p, q \in Seq(S) : /\ p \o q \in Seq(S) /\ Len(p \o q) = Len(p) + Len(q)
                           /\ \A i \in 1 .. Len(p) : (p \o q)[i] = p[i]
                           /\ \A i \in 1 .. Len(q) : (p \o q)[Len(p) + i] = q[i]
  OBVIOUS
<1> HIDE DEF S
<1>4. /\ (<<x, y>> \o << >>)[1] = x /\ (<<x, y>> \o << >>)[2] = y
  BY <1>1, <1>2, <1>3
<1>5. LET p == <<z>> \o <<w>> IN p \in Seq(S) /\ Len(p) = 2 /\ p[1] = z /\ p[2] = w
  <2>1. 1 \in 1 .. 1 /\ 1 + 1 = 2
    OBVIOUS
  <2> QED
    BY <1>1, <1>2, <1>3, <2>1
<1>6. LET p == << >> \o <<w>> IN p \in Seq(S) /\ Len(p) = 1 /\ p[1] = w
  <2>1. 1 \in 1 .. 1 /\ 0 + 1 = 1
    OBVIOUS
  <2> QED
    BY <1>1, <1>2, <1>3, <2>1
<1>7. LET t == << >> \o (<<z>> \o <<w>>) IN t[1] = z /\ t[2] = w
  <2> DEFINE p == <<z>> \o <<w>>
  <2> HIDE DEF p
  <2>1. p \in Seq(S) /\ Len(p) = 2 /\ p[1] = z /\ p[2] = w
    BY <1>5 DEF p
  <2>2. 1 \in 1 .. 2 /\ 2 \in 1 .. 2 /\ 0 + 1 = 1 /\ 0 + 2 = 2
    OBVIOUS
  <2>3. (<< >> \o p)[1] = z /\ (<< >> \o p)[2] = w
    BY <1>1, <1>2, <1>3, <2>1, <2>2
  <2> QED
    BY <2>3 DEF p
<1>8. LET t == <<x, y>> \o (<< >> \o <<w>>) IN t[1] = x /\ t[2] = y /\ t[3] = w
  <2> DEFINE p == << >> \o <<w>>
  <2> HIDE DEF p
  <2>1. p \in Seq(S) /\ Len(p) = 1 /\ p[1] = w
    BY <1>6 DEF p
  <2>2. (<<x, y>> \o p)[1] = x /\ (<<x, y>> \o p)[2] = y
    BY <1>1, <1>2, <2>1, ConcatAt
  <2>3. (<<x, y>> \o p)[3] = p[1]
    BY <1>1, <1>2, <2>1, ConcatAt
  <2> QED
    BY <2>1, <2>2, <2>3 DEF p
<1>9. LET t == <<x, y>> \o (<<z>> \o <<w>>)
      IN  t[1] = x /\ t[2] = y /\ t[3] = z /\ t[4] = w
  <2> DEFINE p == <<z>> \o <<w>>
  <2> HIDE DEF p
  <2>1. p \in Seq(S) /\ Len(p) = 2 /\ p[1] = z /\ p[2] = w
    BY <1>5 DEF p
  <2>2. (<<x, y>> \o p)[1] = x /\ (<<x, y>> \o p)[2] = y
    BY <1>1, <1>2, <2>1, ConcatAt
  <2>3. (<<x, y>> \o p)[3] = p[1] /\ (<<x, y>> \o p)[4] = p[2]
    BY <1>1, <1>2, <2>1, ConcatAt
  <2> QED
    BY <2>1, <2>2, <2>3 DEF p
<1> QED
  BY <1>4, <1>7, <1>8, <1>9

\* An address of the length that the mode says.
InMode(a, mode) == IF mode = "none" THEN a = Orphan!NoAddr ELSE a[1] = mode

\* Read as it was meant, with these addresses.
WellRead(h, dst, sa) ==
  ~Orphan!Misreads(h) /\ Orphan!Read(h).dst = dst /\ Orphan!Read(h).src = sa

\* A header with its addresses in their modes is read as it was meant.
LEMMA ReadAsMeant ==
  ASSUME NEW cmd, NEW dmode, NEW dpan, NEW dst, NEW smode, NEW span, NEW sa,
         NEW compressed \in BOOLEAN,
         InMode(dst, dmode), InMode(sa, smode), dmode = "none" => ~compressed
  PROVE  WellRead(Orphan!Header(cmd, dmode, dpan, dst, smode, span, sa, compressed), dst, sa)
<1> DEFINE h == Orphan!Header(cmd, dmode, dpan, dst, smode, span, sa, compressed)
<1>1. /\ h.dmode = dmode /\ h.dpan = dpan /\ h.dst = dst /\ h.smode = smode /\ h.span = span
      /\ h.src = sa /\ h.compressed = compressed
  BY DEF Orphan!Header
<1> HIDE DEF h
<1>2. (dmode # "none" => Orphan!As(dmode, dst) = dst) /\ (smode # "none" => Orphan!As(smode, sa) = sa)
  BY DEF Orphan!As, InMode
<1>3. ASSUME NEW m, m = Orphan!FillMhr(h)
      PROVE  /\ dmode # "none" => m[1] = dpan /\ m[2] = dst
             /\ smode # "none" /\ dmode = "none" => m[1] = span /\ m[2] = sa
             /\ smode # "none" /\ dmode # "none" /\ compressed => m[3] = sa
             /\ smode # "none" /\ dmode # "none" /\ ~compressed => m[3] = span /\ m[4] = sa
  <2>1. m = (IF dmode = "none" THEN << >> ELSE <<dpan, dst>>)
            \o (IF smode = "none" THEN << >>
                ELSE (IF compressed THEN << >> ELSE <<span>>) \o <<sa>>)
    BY <1>1, <1>2, <1>3 DEF Orphan!FillMhr
  <2>2. CASE dmode = "none" /\ smode # "none"
    <3>1. m = << >> \o (<<span>> \o <<sa>>)
      BY <2>1, <2>2
    <3> QED
      BY <2>2, <3>1, FieldsInPlace
  <2>3. CASE dmode # "none" /\ smode = "none"
    <3>1. m = <<dpan, dst>> \o << >>
      BY <2>1, <2>3
    <3> QED
      BY <2>3, <3>1, FieldsInPlace
  <2>4. CASE dmode # "none" /\ smode # "none" /\ compressed
    <3>1. m = <<dpan, dst>> \o (<< >> \o <<sa>>)
      BY <2>1, <2>4
    <3> QED
      BY <2>4, <3>1, FieldsInPlace
  <2>5. CASE dmode # "none" /\ smode # "none" /\ ~compressed
    <3>1. m = <<dpan, dst>> \o (<<span>> \o <<sa>>)
      BY <2>1, <2>5
    <3> QED
      BY <2>5, <3>1, FieldsInPlace
  <2> QED
    BY <2>2, <2>3, <2>4, <2>5
<1>4. PICK m : m = Orphan!FillMhr(h)
  OBVIOUS
<1>5. PICK r : r = Orphan!Read(h)
  OBVIOUS
<1>6. /\ r.dpan = IF dmode = "none" THEN Orphan!Pan(0) ELSE m[1]
      /\ r.dst = IF dmode = "none" THEN Orphan!NoAddr ELSE m[2]
      /\ r.span = CASE smode = "none" -> Orphan!Pan(0)
                    [] compressed -> (IF dmode = "none" THEN Orphan!Pan(0) ELSE m[1])
                    [] OTHER -> m[IF dmode = "none" THEN 1 ELSE 3]
      /\ r.src = IF smode = "none" THEN Orphan!NoAddr
                 ELSE m[(IF compressed THEN (IF dmode = "none" THEN 0 ELSE 2)
                         ELSE (IF dmode = "none" THEN 0 ELSE 2) + 1) + 1]
  <2>1. r = Orphan!ParseMhr(h, m)
    BY <1>4, <1>5 DEF Orphan!Read
  <2> QED
    BY <1>1, <2>1 DEF Orphan!ParseMhr
<1>7. /\ r.dst = dst /\ (dmode # "none" => r.dpan = dpan)
  BY <1>3, <1>4, <1>6 DEF InMode
<1>8. r.src = sa /\ (smode # "none" => r.span = IF compressed THEN dpan ELSE span)
  BY <1>3, <1>4, <1>6 DEF InMode
<1>9. ~Orphan!Misreads(h)
  BY <1>1, <1>5, <1>7, <1>8 DEF Orphan!Misreads
<1> QED
  BY <1>5, <1>7, <1>8, <1>9 DEF h, WellRead

\* The two headers by which parent and orphan find each other.
LEMMA OrphanHeaders ==
  ASSUME NEW d
  PROVE  /\ ~Orphan!Misreads(Orphan!OrphanNotification(d))
         /\ Orphan!Read(Orphan!OrphanNotification(d)).src[2] = d
         /\ ~Orphan!Misreads(Orphan!RealignmentCommand(Orphan!Long(d)))
         /\ Orphan!Read(Orphan!RealignmentCommand(Orphan!Long(d))).dst = Orphan!Long(d)
<1>1. /\ InMode(Orphan!Long(d), "long") /\ InMode(Orphan!Long("parent"), "long")
      /\ InMode(Orphan!Broadcast, "short") /\ Orphan!Long(d)[2] = d
      /\ "short" # "none" /\ "long" # "none" /\ TRUE \in BOOLEAN /\ FALSE \in BOOLEAN
  BY DEF InMode, Orphan!Long, Orphan!Broadcast, Orphan!Short
<1>2. /\ ~Orphan!Misreads(Orphan!OrphanNotification(d))
      /\ Orphan!Read(Orphan!OrphanNotification(d)).src = Orphan!Long(d)
  <2> DEFINE h == Orphan!Header("orphan", "short", Orphan!BroadcastPan, Orphan!Broadcast, "long",
                                Orphan!BroadcastPan, Orphan!Long(d), TRUE)
  <2>1. WellRead(h, Orphan!Broadcast, Orphan!Long(d))
    BY <1>1, ReadAsMeant, Zenon
  <2> QED
    BY <2>1 DEF WellRead, Orphan!OrphanNotification
<1>3. /\ ~Orphan!Misreads(Orphan!RealignmentCommand(Orphan!Long(d)))
      /\ Orphan!Read(Orphan!RealignmentCommand(Orphan!Long(d))).dst = Orphan!Long(d)
  <2> DEFINE h == Orphan!Header("realignment", "long", Orphan!BroadcastPan, Orphan!Long(d), "long",
                                Orphan!Pan(mac_pan_id), Orphan!Long("parent"), FALSE)
  <2>1. WellRead(h, Orphan!Long(d), Orphan!Long("parent"))
    BY <1>1, ReadAsMeant, Zenon
  <2> QED
    BY <2>1 DEF WellRead, Orphan!RealignmentCommand
<1> QED
  BY <1>1, <1>2, <1>3

LEMMA OtherHeaders ==
  ASSUME NEW d, NEW p, NEW h,
         h \in {Orphan!BeaconRequest, Orphan!BeaconFrame} \cup Orphan!DataRequest(d, p)
               \cup Orphan!AssociationRequest(d, p)
  PROVE  ~Orphan!Misreads(h)
<1>1. /\ InMode(Orphan!Long(d), "long") /\ InMode(Orphan!Broadcast, "short")
      /\ Orphan!Long(d)[1] = "long" /\ Orphan!Long("parent")[1] = "long"
      /\ \A s : InMode(Orphan!Short(s), "short") /\ Orphan!Short(s)[1] = "short"
      /\ InMode(Orphan!NoAddr, "none") /\ TRUE \in BOOLEAN /\ FALSE \in BOOLEAN
      /\ "short" # "none" /\ "long" # "none"
  BY DEF InMode, Orphan!Long, Orphan!Broadcast, Orphan!Short
<1>2. \A a : a[1] \in {"short", "long"} => InMode(a, a[1]) /\ a[1] # "none"
  BY DEF InMode
<1>3. CASE h = Orphan!BeaconRequest
  BY <1>1, <1>3, ReadAsMeant, Zenon DEF WellRead, Orphan!BeaconRequest
<1>4. CASE h = Orphan!BeaconFrame
  BY <1>1, <1>4, ReadAsMeant, Zenon DEF WellRead, Orphan!BeaconFrame
<1>5. CASE h \in Orphan!DataRequest(d, p)
  <2> DEFINE A == {Orphan!Long(d)} \cup {Orphan!Short(s) : s \in Shorts}
  <2>1. PICK a \in A :
               h = Orphan!Header("data_request", "short", Orphan!Pan(p),
                                 Orphan!Short(Orphan!Coord), a[1], Orphan!Pan(0), a, TRUE)
    BY <1>5 DEF Orphan!DataRequest
  <2>2. a[1] \in {"short", "long"}
    BY <1>1
  <2>3. InMode(a, a[1]) /\ InMode(Orphan!Short(Orphan!Coord), "short")
    BY <1>1, <1>2, <2>2
  <2> QED
    BY <1>1, <2>1, <2>3, ReadAsMeant, Zenon DEF WellRead
<1>6. CASE h \in Orphan!AssociationRequest(d, p)
  <2> DEFINE A == {Orphan!Short(Orphan!Coord), Orphan!Long("parent")}
  <2>1. PICK a \in A :
               h = Orphan!Header("association", a[1], Orphan!Pan(p), a, "long",
                                 Orphan!BroadcastPan, Orphan!Long(d), FALSE)
    BY <1>6 DEF Orphan!AssociationRequest
  <2>2. a[1] \in {"short", "long"}
    BY <1>1
  <2>3. InMode(a, a[1]) /\ a[1] # "none"
    BY <1>2, <2>2
  <2> QED
    BY <1>1, <2>1, <2>3, ReadAsMeant, Zenon DEF WellRead
<1> QED
  BY <1>3, <1>4, <1>5, <1>6

Bytes == (0 .. 255) \X (0 .. 255)
Places == {"free", "indication", "tx", "wait", "status", "data", "failed", "lost"}
Response == [orphan : Orphans, short : Bytes \cup {Nil}]
OrphanState ==
  [next : Int, radio : Int, got : BOOLEAN, pan : Int, chan : Int,
   coord : {Nil, Orphan!Coord}, short : Shorts \cup {Nil}]

OrphanTypes ==
  /\ layout \in {"linux", "8051"} /\ mac_pan_id \in Pans
  /\ phy_current_channel \in 1 .. ScanChannels /\ current_channel \in 1 .. ScanChannels
  /\ children \in [Orphans -> Shorts \cup {Nil}] /\ device \in [Orphans -> OrphanState]
  /\ param \in [OrphanBufs -> Response \cup {Nil}] /\ place \in [OrphanBufs -> Places]
  /\ mac_tx_q \in Seq(OrphanBufs) /\ tx_wait_cb_arg \in OrphanBufs \cup {Nil}
  /\ tx_status \in {"air", "heard", "ok", "failed"} /\ pending_buf \in OrphanBufs \cup {Nil}

\* The transmitter's queue, the transmission waited for, and the buffers agree.
QueueAgrees ==
  /\ IsInjective(mac_tx_q)
  /\ \A b \in OrphanBufs : (place[b] = "tx") <=> (b \in Range(mac_tx_q))
WaitAgrees == \A b \in OrphanBufs : (place[b] = "wait") <=> (tx_wait_cb_arg = b)

\* A buffer on its way says which child it is about and, while nothing changes, the child's
\* address: before the transmission everywhere, after it where the layout leaves it alone.
Says(b) == param[b] \in Response /\ children[param[b].orphan] = param[b].short
ParamsRight ==
  /\ \A b \in OrphanBufs : place[b] = "indication" => param[b] \in Response
  /\ \A b \in OrphanBufs : place[b] = "tx" => param[b] \in Response /\ param[b].short \in Shorts
  /\ ~changed => \A b \in OrphanBufs :
       \/ place[b] = "tx" \/ (layout = "8051" /\ place[b] \in {"wait", "status"})
       => Says(b)

\* While nothing changes the radio is on the PAN's channel and each child has its address.
ParentRests ==
  ~changed => /\ current_channel = phy_current_channel /\ children \in [Orphans -> Shorts]
              /\ \A d, e \in Orphans : children[d] = children[e] => d = e

NoneLost == layout = "8051" /\ ~changed => \A b \in OrphanBufs : place[b] # "lost"

OrphanSound ==
  /\ QueueAgrees /\ WaitAgrees /\ ParamsRight /\ ParentRests /\ NoneLost
  /\ Orphan!Follows /\ Orphan!ReportsRight /\ Orphan!HeadersRight
OrphanInv == OrphanTypes /\ (~crossed => OrphanSound)

LEMMA OrphanConstants ==
  /\ Shorts \subseteq Bytes /\ Pans \subseteq 1 .. 255 /\ ScanChannels \in Nat \ {0}
  /\ Nil \notin OrphanBufs /\ Nil \notin Shorts /\ Pans # {} /\ Pans \subseteq Nat
  /\ IsFiniteSet(Orphans) /\ Cardinality(Shorts) >= Cardinality(Orphans)
<1>1. \A S : Orphan!Cardinality(S) = Cardinality(S)
  BY DEF Orphan!Cardinality, Cardinality
<1>2. \A S : Orphan!IsFiniteSet(S) = IsFiniteSet(S)
  BY DEF Orphan!IsFiniteSet, IsFiniteSet
<1>3. Pans \subseteq 1 .. 255
  BY Assumptions DEF Orphan!OrphanAssumption
<1>4. Pans \subseteq Nat
  BY <1>3
<1>5. /\ Shorts \subseteq Bytes /\ ScanChannels \in Nat \ {0}
      /\ Nil \notin OrphanBufs /\ Nil \notin Shorts /\ Pans # {}
      /\ Orphan!IsFiniteSet(Orphans) /\ Orphan!Cardinality(Shorts) >= Orphan!Cardinality(Orphans)
  BY Assumptions DEF Orphan!OrphanAssumption, Bytes
<1> QED
  BY <1>1, <1>2, <1>3, <1>4, <1>5

LEMMA OrphanSteps ==
  ASSUME [Next]_vars
  PROVE  [Orphan!Next]_(Orphan!orphanVars)
BY DEF Next, vars, orphanVars, Orphan!orphanVars, Orphan!parent, Orphan!buffers, Orphan!counts,
       Orphan!history

\* A buffer moves between places that neither the queue nor the transmitter knows.
LEMMA PlaceMoves ==
  ASSUME OrphanTypes, QueueAgrees, WaitAgrees, NEW b \in OrphanBufs, NEW v \in Places,
         place' = [place EXCEPT ![b] = v], place[b] \notin {"tx", "wait"}, v \notin {"tx", "wait"},
         mac_tx_q' = mac_tx_q, tx_wait_cb_arg' = tx_wait_cb_arg
  PROVE  /\ QueueAgrees' /\ WaitAgrees' /\ place' \in [OrphanBufs -> Places]
         /\ place'[b] = v /\ \A c \in OrphanBufs : c # b => place'[c] = place[c]
<1>1. place' \in [OrphanBufs -> Places] /\ place'[b] = v
      /\ \A c \in OrphanBufs : c # b => place'[c] = place[c]
  BY DEF OrphanTypes
<1>2. \A c \in OrphanBufs : (place'[c] = "tx") <=> (place[c] = "tx")
  BY <1>1
<1>3. \A c \in OrphanBufs : (place'[c] = "wait") <=> (place[c] = "wait")
  BY <1>1
<1> QED
  BY <1>1, <1>2, <1>3 DEF QueueAgrees, WaitAgrees

\* The channel of a scan, and whether a device was realigned, are set apart from the rest.
SameBut(t, s) ==
  /\ t \in OrphanState /\ t.pan = s.pan /\ t.chan = s.chan /\ t.coord = s.coord
  /\ t.short = s.short

LEMMA SetNext ==
  ASSUME NEW s \in OrphanState, NEW n \in Int
  PROVE  SameBut([s EXCEPT !.next = n], s) /\ [s EXCEPT !.next = n].got = s.got
BY DEF OrphanState, SameBut

LEMMA SetRadio ==
  ASSUME NEW s \in OrphanState, NEW n \in Int
  PROVE  SameBut([s EXCEPT !.radio = n], s) /\ [s EXCEPT !.radio = n].got = s.got
BY DEF OrphanState, SameBut

LEMMA SetGot ==
  ASSUME NEW s \in OrphanState
  PROVE  SameBut([s EXCEPT !.got = FALSE], s) /\ [s EXCEPT !.got = FALSE].got = FALSE
BY DEF OrphanState, SameBut

LEMMA OrphanScanStepOK ==
  ASSUME OrphanTypes, OrphanSound, NEW d \in Orphans, Orphan!OrphanScan(d)
  PROVE  OrphanTypes' /\ OrphanSound'
<1>1. /\ device' = [device EXCEPT ![d].next = 1, ![d].got = FALSE]
      /\ UNCHANGED <<layout, mac_pan_id, phy_current_channel, current_channel, children, param,
                     place, mac_tx_q, tx_wait_cb_arg, tx_status, pending_buf, changed, crossed,
                     wrong, misread>>
  BY DEF Orphan!OrphanScan, Orphan!parent, Orphan!buffers, Orphan!history
<1>2. device[d] \in OrphanState /\ device \in [Orphans -> OrphanState]
  BY DEF OrphanTypes
<1>3. device' \in [Orphans -> OrphanState] /\ ~device'[d].got
      /\ \A e \in Orphans : e # d => device'[e] = device[e]
  <2>1. PICK s : s = [device[d] EXCEPT !.next = 1]
    OBVIOUS
  <2>2. s \in OrphanState
    <3>1. 1 \in Int
      OBVIOUS
    <3> QED
      BY <1>2, <2>1, <3>1, SetNext, Zenon DEF SameBut
  <2>3. [s EXCEPT !.got = FALSE] \in OrphanState /\ ~[s EXCEPT !.got = FALSE].got
    BY <2>2, SetGot DEF SameBut
  <2>4. device'[d] = [s EXCEPT !.got = FALSE]
        /\ device' = [device EXCEPT ![d] = [s EXCEPT !.got = FALSE]]
    BY <1>1, <1>2, <2>1
  <2> QED
    BY <1>2, <2>3, <2>4
<1>4. \A e \in Orphans : device'[e].got => e # d /\ device'[e] = device[e]
  BY <1>3
<1>5. OrphanTypes'
  BY <1>1, <1>3 DEF OrphanTypes
<1>6. Orphan!Follows'
  BY <1>1, <1>4 DEF OrphanSound, Orphan!Follows
<1>7. QueueAgrees' /\ WaitAgrees' /\ ParentRests' /\ NoneLost' /\ Orphan!ReportsRight'
      /\ Orphan!HeadersRight'
  BY <1>1 DEF OrphanSound, QueueAgrees, WaitAgrees, ParentRests, NoneLost, Orphan!ReportsRight,
              Orphan!HeadersRight
<1>8. ParamsRight'
  BY <1>1 DEF OrphanSound, ParamsRight, Says
<1> QED
  BY <1>5, <1>6, <1>7, <1>8 DEF OrphanSound

\* A frame that is read as it was meant leaves no trace.
LEMMA SendsWell ==
  ASSUME NEW h, Orphan!Sends(h), ~Orphan!Misreads(h)
  PROVE  misread' = misread
BY DEF Orphan!Sends

LEMMA FreeBufIs ==
  ASSUME NEW b \in Orphan!FreeBuf
  PROVE  b \in OrphanBufs /\ place[b] = "free"
BY DEF Orphan!FreeBuf

LEMMA OrphanScanNextOK ==
  ASSUME OrphanTypes, OrphanSound, NEW d \in Orphans, Orphan!OrphanScanStep(d)
  PROVE  OrphanTypes' /\ OrphanSound'
<1> DEFINE c == device[d].next
<1>1. /\ UNCHANGED <<layout, mac_pan_id, phy_current_channel, current_channel, children,
                     mac_tx_q, tx_wait_cb_arg, tx_status, pending_buf, changed, crossed, wrong>>
  BY DEF Orphan!OrphanScanStep, Orphan!parent, Orphan!counts
<1>2. device[d] \in OrphanState /\ device \in [Orphans -> OrphanState] /\ c \in Int
  BY DEF OrphanTypes, OrphanState
<1>3. /\ device' \in [Orphans -> OrphanState]
      /\ \A e \in Orphans : /\ device'[e].got = device[e].got /\ device'[e].pan = device[e].pan
                            /\ device'[e].chan = device[e].chan
                            /\ device'[e].coord = device[e].coord
                            /\ device'[e].short = device[e].short
  <2>1. \/ device' = [device EXCEPT ![d].next = 0]
        \/ device' = [device EXCEPT ![d].next = c + 1, ![d].radio = c]
    BY DEF Orphan!OrphanScanStep
  <2>2. CASE device' = [device EXCEPT ![d].next = 0]
    BY <1>2, <2>2 DEF OrphanState
  <2>3. CASE device' = [device EXCEPT ![d].next = c + 1, ![d].radio = c]
    <3>1. device'[d] = [device[d] EXCEPT !.next = c + 1, !.radio = c]
          /\ device' = [device EXCEPT ![d] = device'[d]]
      BY <1>2, <2>3
    <3>2. device'[d] \in OrphanState
          /\ device'[d].got = device[d].got /\ device'[d].pan = device[d].pan
          /\ device'[d].chan = device[d].chan /\ device'[d].coord = device[d].coord
          /\ device'[d].short = device[d].short
      <4>1. PICK s : s = [device[d] EXCEPT !.next = c + 1]
        OBVIOUS
      <4>2. SameBut(s, device[d]) /\ s.got = device[d].got /\ s \in OrphanState
        BY <1>2, <4>1, SetNext DEF SameBut
      <4>3. device'[d] = [s EXCEPT !.radio = c]
        BY <3>1, <4>1
      <4>4. SameBut(device'[d], s) /\ device'[d].got = s.got
        BY <1>2, <4>2, <4>3, SetRadio
      <4> QED
        BY <4>2, <4>4 DEF SameBut
    <3>3. \A e \in Orphans : e # d => device'[e] = device[e]
      BY <1>2, <2>3
    <3>4. device' \in [Orphans -> OrphanState]
      BY <1>2, <3>1, <3>2
    <3> QED
      BY <3>2, <3>3, <3>4
  <2> QED
    BY <2>1, <2>2, <2>3
<1>4. misread' = misread
  BY SendsWell, OrphanHeaders DEF Orphan!OrphanScanStep
<1>5. \/ param' = param /\ place' = place
      \/ \E b \in Orphan!FreeBuf :
           /\ param' = [param EXCEPT ![b] = [orphan |-> d, short |-> Nil]]
           /\ place' = [place EXCEPT ![b] = "indication"]
  BY OrphanHeaders DEF Orphan!OrphanScanStep
<1> HIDE DEF c
<1>6. Orphan!Follows' /\ ParentRests' /\ Orphan!ReportsRight' /\ Orphan!HeadersRight'
  BY <1>1, <1>3, <1>4 DEF OrphanSound, Orphan!Follows, ParentRests, Orphan!ReportsRight,
                          Orphan!HeadersRight
<1>7. CASE param' = param /\ place' = place
  <2>1. OrphanTypes'
    BY <1>1, <1>3, <1>7 DEF OrphanTypes
  <2>2. QueueAgrees' /\ WaitAgrees' /\ NoneLost' /\ ParamsRight'
    BY <1>1, <1>7 DEF OrphanSound, QueueAgrees, WaitAgrees, NoneLost, ParamsRight, Says
  <2> QED
    BY <1>6, <2>1, <2>2 DEF OrphanSound
<1>8. CASE \E b \in Orphan!FreeBuf :
             /\ param' = [param EXCEPT ![b] = [orphan |-> d, short |-> Nil]]
             /\ place' = [place EXCEPT ![b] = "indication"]
  <2>1. PICK b \in Orphan!FreeBuf :
             /\ param' = [param EXCEPT ![b] = [orphan |-> d, short |-> Nil]]
             /\ place' = [place EXCEPT ![b] = "indication"]
    BY <1>8
  <2>2. b \in OrphanBufs /\ place[b] = "free"
    BY FreeBufIs
  <2>3. /\ QueueAgrees' /\ WaitAgrees' /\ place' \in [OrphanBufs -> Places]
        /\ place'[b] = "indication" /\ \A e \in OrphanBufs : e # b => place'[e] = place[e]
    BY <1>1, <2>1, <2>2, PlaceMoves DEF OrphanSound, Places
  <2>4. /\ param' \in [OrphanBufs -> Response \cup {Nil}]
        /\ param'[b] \in Response /\ \A e \in OrphanBufs : e # b => param'[e] = param[e]
    <3>1. [orphan |-> d, short |-> Nil] \in Response
      BY DEF Response
    <3> QED
      BY <2>1, <2>2, <3>1 DEF OrphanTypes
  <2>5. OrphanTypes'
    BY <1>1, <1>3, <2>3, <2>4 DEF OrphanTypes
  <2>6. NoneLost'
    BY <1>1, <2>3 DEF OrphanSound, NoneLost
  <2>7. ParamsRight'
    BY <1>1, <2>3, <2>4 DEF OrphanSound, ParamsRight, Says
  <2> QED
    BY <1>6, <2>3, <2>5, <2>6, <2>7 DEF OrphanSound
<1> QED
  BY <1>5, <1>7, <1>8

\* A queue of transmissions gets one that it does not hold.
LEMMA AppendOnce ==
  ASSUME NEW S, NEW s \in Seq(S), NEW b \in S, b \notin Range(s), IsInjective(s)
  PROVE  /\ Append(s, b) \in Seq(S) /\ IsInjective(Append(s, b))
         /\ Range(Append(s, b)) = Range(s) \cup {b}
<1> DEFINE t == Append(s, b)
<1>1. /\ t \in Seq(S) /\ Len(s) \in Nat /\ DOMAIN t = 1 .. Len(s) + 1 /\ DOMAIN s = 1 .. Len(s)
      /\ t[Len(s) + 1] = b /\ \A i \in 1 .. Len(s) : t[i] = s[i]
  OBVIOUS
<1> HIDE DEF t
<1>2. \A i \in DOMAIN t : i = Len(s) + 1 \/ (i \in DOMAIN s /\ t[i] = s[i] /\ s[i] \in Range(s))
  BY <1>1 DEF Range
<1>3. IsInjective(t)
  <2> SUFFICES ASSUME NEW i \in DOMAIN t, NEW j \in DOMAIN t, t[i] = t[j]
               PROVE  i = j
    BY DEF IsInjective
  <2>1. CASE i \in DOMAIN s /\ t[i] = s[i] /\ s[i] \in Range(s)
    <3>1. j \in DOMAIN s /\ t[j] = s[j]
      BY <1>1, <1>2, <2>1
    <3> QED
      BY <2>1, <3>1 DEF IsInjective
  <2>2. CASE i = Len(s) + 1
    BY <1>1, <1>2, <2>2
  <2> QED
    BY <1>2, <2>1, <2>2
<1>4. Range(t) \subseteq Range(s) \cup {b}
  BY <1>1, <1>2 DEF Range
<1>5. Range(s) \cup {b} \subseteq Range(t)
  <2>1. Len(s) + 1 \in DOMAIN t /\ \A i \in DOMAIN s : i \in DOMAIN t
    BY <1>1
  <2> QED
    BY <1>1, <2>1 DEF Range
<1> QED
  BY <1>1, <1>3, <1>4, <1>5 DEF t

LEMMA OrphanIndicationOK ==
  ASSUME OrphanTypes, OrphanSound, NEW b \in OrphanBufs, Orphan!OrphanIndication(b)
  PROVE  OrphanTypes' /\ OrphanSound'
<1> DEFINE d == param[b].orphan
<1>1. /\ place[b] = "indication"
      /\ UNCHANGED <<layout, mac_pan_id, phy_current_channel, current_channel, children,
                     tx_wait_cb_arg, tx_status, pending_buf, device, changed, crossed, wrong,
                     misread>>
  BY DEF Orphan!OrphanIndication, Orphan!parent, Orphan!counts, Orphan!history
<1>2. param[b] \in Response /\ d \in Orphans
  BY <1>1 DEF OrphanSound, ParamsRight, Response
<1>3. Orphan!Follows' /\ ParentRests' /\ Orphan!ReportsRight' /\ Orphan!HeadersRight'
  BY <1>1 DEF OrphanSound, Orphan!Follows, ParentRests, Orphan!ReportsRight, Orphan!HeadersRight
<1>4. CASE children[d] # Nil
  <2>1. /\ param' = [param EXCEPT ![b].short = children[d]]
        /\ place' = [place EXCEPT ![b] = "tx"] /\ mac_tx_q' = Append(mac_tx_q, b)
    BY <1>4 DEF Orphan!OrphanIndication
  <2>2. children[d] \in Shorts /\ children[d] \in Bytes
    BY <1>2, <1>4, OrphanConstants DEF OrphanTypes
  <2>3. /\ param'[b] \in Response /\ param'[b].short = children[d] /\ param'[b].orphan = d
        /\ param' \in [OrphanBufs -> Response \cup {Nil}]
        /\ \A c \in OrphanBufs : c # b => param'[c] = param[c]
    <3>1. param \in [OrphanBufs -> Response \cup {Nil}]
      BY DEF OrphanTypes
    <3>2. param'[b] = [param[b] EXCEPT !.short = children[d]]
          /\ param' = [param EXCEPT ![b] = param'[b]]
      BY <2>1, <3>1
    <3>3. param'[b] \in Response /\ param'[b].short = children[d] /\ param'[b].orphan = d
      BY <1>2, <2>2, <3>2 DEF Response
    <3> QED
      BY <3>1, <3>2, <3>3
  <2>4. /\ place' \in [OrphanBufs -> Places] /\ place'[b] = "tx"
        /\ \A c \in OrphanBufs : c # b => place'[c] = place[c]
    BY <2>1 DEF OrphanTypes, Places
  <2>5. b \notin Range(mac_tx_q) /\ mac_tx_q \in Seq(OrphanBufs) /\ IsInjective(mac_tx_q)
    BY <1>1 DEF OrphanSound, QueueAgrees, OrphanTypes
  <2>6. /\ mac_tx_q' \in Seq(OrphanBufs) /\ IsInjective(mac_tx_q')
        /\ Range(mac_tx_q') = Range(mac_tx_q) \cup {b}
    BY <2>1, <2>5, AppendOnce
  <2> HIDE DEF d
  <2>7. OrphanTypes'
    BY <1>1, <2>3, <2>4, <2>6 DEF OrphanTypes
  <2>8. QueueAgrees'
    BY <2>4, <2>6 DEF OrphanSound, QueueAgrees
  <2>9. WaitAgrees' /\ NoneLost'
    BY <1>1, <2>4 DEF OrphanSound, WaitAgrees, NoneLost
  <2>10. ParamsRight'
    BY <1>1, <2>2, <2>3, <2>4 DEF OrphanSound, ParamsRight, Says
  <2> QED
    BY <1>3, <2>7, <2>8, <2>9, <2>10 DEF OrphanSound
<1>5. CASE children[d] = Nil
  <2>1. /\ place' = [place EXCEPT ![b] = "free"] /\ param' = [param EXCEPT ![b] = Nil]
        /\ mac_tx_q' = mac_tx_q
    BY <1>5 DEF Orphan!OrphanIndication
  <2>2. /\ QueueAgrees' /\ WaitAgrees' /\ place' \in [OrphanBufs -> Places]
        /\ place'[b] = "free" /\ \A c \in OrphanBufs : c # b => place'[c] = place[c]
    BY <1>1, <2>1, PlaceMoves DEF OrphanSound, Places
  <2>3. /\ param' \in [OrphanBufs -> Response \cup {Nil}]
        /\ \A c \in OrphanBufs : c # b => param'[c] = param[c]
    BY <2>1 DEF OrphanTypes
  <2>4. OrphanTypes'
    BY <1>1, <2>1, <2>2, <2>3 DEF OrphanTypes
  <2>5. NoneLost'
    BY <1>1, <2>2 DEF OrphanSound, NoneLost
  <2>6. ParamsRight'
    BY <1>1, <2>2, <2>3 DEF OrphanSound, ParamsRight, Says
  <2> QED
    BY <1>3, <2>2, <2>4, <2>5, <2>6 DEF OrphanSound
<1> QED
  BY <1>4, <1>5

\* Writing the realignment's parameters leaves the device alone, and in one of the two
\* layouts the address too.
LEMMA OverwrittenIs ==
  ASSUME OrphanTypes, NEW r \in Response, r.short \in Shorts
  PROVE  /\ Orphan!Overwritten(r, mac_pan_id) \in Response
         /\ layout = "8051" => Orphan!Overwritten(r, mac_pan_id) = r
<1>1. r.short \in Bytes /\ mac_pan_id \in 0 .. 255
  <2>1. mac_pan_id \in 1 .. 255
    BY OrphanConstants DEF OrphanTypes
  <2> QED
    BY <2>1, OrphanConstants
<1>2. <<mac_pan_id, r.short[2]>> \in Bytes
  BY <1>1 DEF Bytes
<1>3. CASE layout = "linux"
  <2>1. Orphan!Overwritten(r, mac_pan_id) = [r EXCEPT !.short = <<mac_pan_id, r.short[2]>>]
    BY <1>3 DEF Orphan!Overwritten
  <2> QED
    BY <1>2, <1>3, <2>1 DEF Response
<1>4. CASE layout = "8051"
  BY <1>4 DEF Orphan!Overwritten
<1> QED
  BY <1>3, <1>4 DEF OrphanTypes

LEMMA OrphanResponseOK ==
  ASSUME OrphanTypes, OrphanSound, Orphan!HandleOrphanResponse
  PROVE  OrphanTypes' /\ OrphanSound'
<1> DEFINE b == Head(mac_tx_q)
           r == param[b]
           cmd == Orphan!RealignmentCommand(Orphan!Long(r.orphan))
<1>1. /\ mac_tx_q # << >> /\ tx_wait_cb_arg = Nil
      /\ pending_buf' = b /\ param' = [param EXCEPT ![b] = Orphan!Overwritten(r, mac_pan_id)]
      /\ place' = [place EXCEPT ![b] = "wait"]
      /\ mac_tx_q' = Tail(mac_tx_q) /\ tx_wait_cb_arg' = b /\ Orphan!Sends(cmd)
      /\ UNCHANGED <<layout, mac_pan_id, phy_current_channel, current_channel, children, changed,
                     crossed, wrong>>
  BY DEF Orphan!HandleOrphanResponse, Orphan!Response, Orphan!parent, Orphan!counts
<1>2. \/ /\ tx_status' = "heard"
         /\ \E d \in Orphans : /\ Orphan!Takes(d, Orphan!Read(cmd).dst)
                               /\ device' = Orphan!Realigned(d, r.short)
      \/ tx_status' = "air" /\ device' = device
  BY DEF Orphan!HandleOrphanResponse, Orphan!Response
<1>3. mac_tx_q \in Seq(OrphanBufs) /\ IsInjective(mac_tx_q)
  BY DEF OrphanTypes, OrphanSound, QueueAgrees
<1>4. /\ b \in OrphanBufs /\ b \in Range(mac_tx_q) /\ mac_tx_q' \in Seq(OrphanBufs)
      /\ IsInjective(mac_tx_q') /\ Range(mac_tx_q') = Range(mac_tx_q) \ {b}
  BY <1>1, <1>3, TailOnce
<1>5. place[b] = "tx" /\ r \in Response /\ r.short \in Shorts /\ r.orphan \in Orphans
      /\ (~changed => children[r.orphan] = r.short)
  <2>1. place[b] = "tx"
    BY <1>4 DEF OrphanSound, QueueAgrees
  <2>2. r \in Response /\ r.short \in Shorts
    BY <1>4, <2>1 DEF OrphanSound, ParamsRight
  <2>3. r.orphan \in Orphans
    BY <2>2 DEF Response
  <2>4. ~changed => children[r.orphan] = r.short
    BY <1>4, <2>1 DEF OrphanSound, ParamsRight, Says
  <2> QED
    BY <2>1, <2>2, <2>3, <2>4
<1>6. misread' = misread
  BY <1>1, SendsWell, OrphanHeaders
<1>7. Orphan!Read(cmd).dst = Orphan!Long(r.orphan)
  BY OrphanHeaders
<1> HIDE DEF cmd
<1>8. \/ tx_status' = "heard" /\ device' = Orphan!Realigned(r.orphan, r.short)
      \/ tx_status' = "air" /\ device' = device
  <2>1. \A d : Orphan!Takes(d, Orphan!Long(r.orphan)) => d = r.orphan
    BY DEF Orphan!Takes, Orphan!Long
  <2> QED
    BY <1>2, <1>7, <2>1
<1>9. /\ param' \in [OrphanBufs -> Response \cup {Nil}]
      /\ param'[b] = Orphan!Overwritten(r, mac_pan_id) /\ param'[b] \in Response
      /\ \A c \in OrphanBufs : c # b => param'[c] = param[c]
  <2>1. param \in [OrphanBufs -> Response \cup {Nil}]
    BY DEF OrphanTypes
  <2>2. Orphan!Overwritten(r, mac_pan_id) \in Response
    BY <1>5, OverwrittenIs
  <2> HIDE DEF b, r
  <2> QED
    BY <1>1, <1>4, <2>1, <2>2
<1>10. layout = "8051" => param'[b] = r
  BY <1>5, <1>9, OverwrittenIs
<1> HIDE DEF b
<1>11. /\ place' \in [OrphanBufs -> Places] /\ place'[b] = "wait"
       /\ \A c \in OrphanBufs : c # b => place'[c] = place[c]
  BY <1>1, <1>4 DEF OrphanTypes, Places
<1>12. QueueAgrees' /\ WaitAgrees'
  <2>1. \A c \in OrphanBufs : place[c] # "wait"
    BY <1>1, OrphanConstants DEF OrphanSound, WaitAgrees
  <2>2. WaitAgrees'
    BY <1>1, <1>11, <2>1 DEF WaitAgrees
  <2>3. QueueAgrees'
    BY <1>4, <1>11 DEF OrphanSound, QueueAgrees
  <2> QED
    BY <2>2, <2>3
<1>13. ParamsRight'
  <2>1. \A c \in OrphanBufs : c # b => place'[c] = place[c] /\ param'[c] = param[c]
    BY <1>9, <1>11
  <2>2. ~changed /\ layout = "8051" => param'[b] \in Response /\ children[param'[b].orphan] = param'[b].short
    BY <1>5, <1>10
  <2> HIDE DEF r
  <2>3. \A c \in OrphanBufs : place'[c] = "indication" => param'[c] \in Response
    BY <1>11, <2>1 DEF OrphanSound, ParamsRight
  <2>4. \A c \in OrphanBufs : place'[c] = "tx" => param'[c] \in Response /\ param'[c].short \in Shorts
    BY <1>11, <2>1 DEF OrphanSound, ParamsRight
  <2>5. ASSUME ~changed, NEW c \in OrphanBufs,
               place'[c] = "tx" \/ (layout = "8051" /\ place'[c] \in {"wait", "status"})
        PROVE  param'[c] \in Response /\ children[param'[c].orphan] = param'[c].short
    <3>1. CASE c = b
      BY <1>11, <2>2, <2>5, <3>1
    <3>2. CASE c # b
      BY <2>1, <2>5, <3>2 DEF OrphanSound, ParamsRight, Says
    <3> QED
      BY <3>1, <3>2
  <2> QED
    BY <1>1, <2>3, <2>4, <2>5 DEF ParamsRight, Says
<1>14. /\ device' \in [Orphans -> OrphanState] /\ Orphan!Follows'
  <2>1. device \in [Orphans -> OrphanState]
    BY DEF OrphanTypes
  <2>2. CASE device' = device
    BY <1>1, <2>1, <2>2 DEF OrphanSound, Orphan!Follows
  <2>3. CASE device' = Orphan!Realigned(r.orphan, r.short)
    <3> DEFINE s == [next |-> device[r.orphan].next, radio |-> device[r.orphan].radio,
                     got |-> TRUE, pan |-> mac_pan_id, chan |-> current_channel,
                     coord |-> Orphan!Coord, short |-> r.short]
    <3>1. device' = [device EXCEPT ![r.orphan] = s]
      BY <2>3 DEF Orphan!Realigned
    <3>2. s \in OrphanState
      <4>1. device[r.orphan] \in OrphanState
        BY <1>5, <2>1
      <4>2. mac_pan_id \in Int /\ current_channel \in Int
        BY OrphanConstants DEF OrphanTypes
      <4> QED
        BY <1>5, <4>1, <4>2 DEF OrphanState
    <3>3. s.pan = mac_pan_id /\ s.chan = current_channel /\ s.coord = Orphan!Coord
          /\ s.short = r.short
      OBVIOUS
    <3> HIDE DEF s
    <3>4. device' \in [Orphans -> OrphanState] /\ device'[r.orphan] = s
          /\ \A d \in Orphans : d # r.orphan => device'[d] = device[d]
      BY <1>5, <2>1, <3>1, <3>2
    <3>5. ~changed => current_channel = phy_current_channel /\ children[r.orphan] = r.short
      BY <1>5 DEF OrphanSound, ParentRests
    <3> HIDE DEF r
    <3>6. Orphan!Follows'
      BY <1>1, <3>3, <3>4, <3>5 DEF OrphanSound, Orphan!Follows
    <3> QED
      BY <3>4, <3>6
  <2> QED
    BY <1>8, <2>2, <2>3
<1>15. ParentRests' /\ NoneLost' /\ Orphan!ReportsRight' /\ Orphan!HeadersRight'
  BY <1>1, <1>6, <1>11 DEF OrphanSound, ParentRests, NoneLost, Orphan!ReportsRight,
                           Orphan!HeadersRight
<1>16. OrphanTypes'
  <2>1. tx_status' \in {"air", "heard", "ok", "failed"}
    BY <1>8
  <2> HIDE DEF r
  <2> QED
    BY <1>1, <1>4, <1>9, <1>11, <1>14, <2>1 DEF OrphanTypes
<1> QED
  BY <1>12, <1>13, <1>14, <1>15, <1>16 DEF OrphanSound

LEMMA TxEndsOK ==
  ASSUME OrphanTypes, OrphanSound, Orphan!TxEnds
  PROVE  OrphanTypes' /\ OrphanSound'
<1>1. /\ tx_status' \in {"ok", "failed"}
      /\ UNCHANGED <<layout, mac_pan_id, phy_current_channel, current_channel, children, param,
                     place, mac_tx_q, tx_wait_cb_arg, pending_buf, device, changed, crossed,
                     wrong, misread>>
  BY DEF Orphan!TxEnds, Orphan!parent, Orphan!counts, Orphan!history
<1>2. OrphanTypes'
  BY <1>1 DEF OrphanTypes
<1>3. QueueAgrees' /\ WaitAgrees' /\ ParamsRight' /\ ParentRests' /\ NoneLost'
  BY <1>1 DEF OrphanSound, QueueAgrees, WaitAgrees, ParamsRight, Says, ParentRests, NoneLost
<1>4. Orphan!Follows' /\ Orphan!ReportsRight' /\ Orphan!HeadersRight'
  BY <1>1 DEF OrphanSound, Orphan!Follows, Orphan!ReportsRight, Orphan!HeadersRight
<1> QED
  BY <1>2, <1>3, <1>4 DEF OrphanSound

\* Where the transmission ends in another operation's buffer nothing more is said.
LEMMA ResponseContinueOK ==
  ASSUME OrphanTypes, OrphanSound, Orphan!HandleOrphanResponseContinue
  PROVE  OrphanTypes' /\ (~crossed' => OrphanSound')
<1> DEFINE b == tx_wait_cb_arg
<1>1. /\ b # Nil /\ tx_wait_cb_arg' = Nil
      /\ UNCHANGED <<layout, mac_pan_id, phy_current_channel, current_channel, children, mac_tx_q,
                     tx_status, pending_buf, device, changed, wrong, misread>>
  BY DEF Orphan!HandleOrphanResponseContinue, Orphan!parent, Orphan!counts
<1>2. b \in OrphanBufs /\ place[b] = "wait" /\ \A c \in OrphanBufs : c # b => place[c] # "wait"
  BY <1>1 DEF OrphanTypes, OrphanSound, WaitAgrees
<1>3. /\ Orphan!Follows' /\ ParentRests' /\ Orphan!ReportsRight' /\ Orphan!HeadersRight'
  BY <1>1 DEF OrphanSound, Orphan!Follows, ParentRests, Orphan!ReportsRight, Orphan!HeadersRight
<1>4. place \in [OrphanBufs -> Places] /\ param \in [OrphanBufs -> Response \cup {Nil}]
  BY DEF OrphanTypes
<1>5. ASSUME NEW v \in {"failed", "status"}, place' = [place EXCEPT ![b] = v],
             \A c \in OrphanBufs : c # b => param'[c] = param[c],
             v = "status" => param'[b] = param[b]
      PROVE  OrphanSound'
  <2>1. place'[b] = v /\ \A c \in OrphanBufs : c # b => place'[c] = place[c]
    BY <1>2, <1>4, <1>5
  <2> HIDE DEF b
  <2>2. QueueAgrees'
    <3>1. \A c \in OrphanBufs : (place'[c] = "tx") <=> (place[c] = "tx")
      BY <1>2, <2>1
    <3> QED
      BY <1>1, <3>1 DEF OrphanSound, QueueAgrees
  <2>3. WaitAgrees'
    <3>1. \A c \in OrphanBufs : place'[c] # "wait"
      BY <1>2, <2>1
    <3> QED
      BY <1>1, <3>1, OrphanConstants DEF WaitAgrees
  <2>4. NoneLost'
    BY <1>1, <2>1 DEF OrphanSound, NoneLost
  <2>5. ParamsRight'
    <3>1. /\ \A c \in OrphanBufs : place'[c] = "indication" => param'[c] \in Response
          /\ \A c \in OrphanBufs : place'[c] = "tx" => param'[c] \in Response /\ param'[c].short \in Shorts
      BY <1>5, <2>1 DEF OrphanSound, ParamsRight
    <3>2. ASSUME ~changed, NEW c \in OrphanBufs,
                 place'[c] = "tx" \/ (layout = "8051" /\ place'[c] \in {"wait", "status"})
          PROVE  param'[c] \in Response /\ children[param'[c].orphan] = param'[c].short
      <4>1. CASE c = b
        BY <1>2, <1>5, <2>1, <3>2, <4>1 DEF OrphanSound, ParamsRight, Says
      <4>2. CASE c # b
        BY <1>5, <2>1, <3>2, <4>2 DEF OrphanSound, ParamsRight, Says
      <4> QED
        BY <4>1, <4>2
    <3> QED
      BY <1>1, <3>1, <3>2 DEF ParamsRight, Says
  <2> QED
    BY <1>3, <2>2, <2>3, <2>4, <2>5 DEF OrphanSound
<1>6. CASE tx_status = "failed"
  <2>1. place' = [place EXCEPT ![b] = "failed"] /\ param' = [param EXCEPT ![b] = Nil]
    BY <1>6 DEF Orphan!HandleOrphanResponseContinue
  <2>2. place' \in [OrphanBufs -> Places] /\ param' \in [OrphanBufs -> Response \cup {Nil}]
        /\ \A c \in OrphanBufs : c # b => param'[c] = param[c]
    BY <1>2, <1>4, <2>1 DEF Places
  <2>3. OrphanSound'
    BY <1>5, <2>1, <2>2
  <2>4. OrphanTypes'
    BY <1>1, <2>2 DEF OrphanTypes
  <2> QED
    BY <2>3, <2>4
<1>7. CASE tx_status # "failed"
  <2>1. /\ place' = [place EXCEPT ![pending_buf] = "status"] /\ param' = param
        /\ crossed' = (pending_buf # b)
    BY <1>7 DEF Orphan!HandleOrphanResponseContinue
  <2>2. place' \in [OrphanBufs -> Places]
    BY <1>4, <2>1 DEF Places
  <2>3. OrphanTypes'
    BY <1>1, <2>1, <2>2 DEF OrphanTypes
  <2>4. ~crossed' => place' = [place EXCEPT ![b] = "status"]
    BY <2>1
  <2>5. ~crossed' => OrphanSound'
    BY <1>5, <2>1, <2>4
  <2> QED
    BY <2>3, <2>5
<1> QED
  BY <1>6, <1>7

\* The address in a status belongs to one child, the one that was realigned.
LEMMA CommStatusOK ==
  ASSUME OrphanTypes, OrphanSound, NEW b \in OrphanBufs, Orphan!CommStatusIndication(b)
  PROVE  OrphanTypes' /\ OrphanSound'
<1> DEFINE named == {d \in Orphans : children[d] = param[b].short}
<1>1. /\ place[b] = "status" /\ param' = [param EXCEPT ![b] = Nil]
      /\ place' = [place EXCEPT ![b] = IF named = {} THEN "lost" ELSE "free"]
      /\ wrong' = wrong \cup {d \in named : d # param[b].orphan}
      /\ UNCHANGED <<layout, mac_pan_id, phy_current_channel, current_channel, children, mac_tx_q,
                     tx_wait_cb_arg, tx_status, pending_buf, device, changed, crossed, misread>>
  BY DEF Orphan!CommStatusIndication, Orphan!parent, Orphan!counts
<1>2. layout = "8051" /\ ~changed => named # {} /\ {d \in named : d # param[b].orphan} = {}
  <2> SUFFICES ASSUME layout = "8051", ~changed
               PROVE  named # {} /\ {d \in named : d # param[b].orphan} = {}
    OBVIOUS
  <2>1. param[b] \in Response /\ children[param[b].orphan] = param[b].short
    BY <1>1 DEF OrphanSound, ParamsRight, Says
  <2>2. param[b].orphan \in Orphans
    BY <2>1 DEF Response
  <2>3. \A d, e \in Orphans : children[d] = children[e] => d = e
    BY DEF OrphanSound, ParentRests
  <2> QED
    BY <2>1, <2>2, <2>3
<1> HIDE DEF named
<1>3. PICK v \in {"lost", "free"} :
        place' = [place EXCEPT ![b] = v] /\ (v = "lost" => named = {})
  BY <1>1
<1>4. /\ QueueAgrees' /\ WaitAgrees' /\ place' \in [OrphanBufs -> Places]
      /\ place'[b] = v /\ \A c \in OrphanBufs : c # b => place'[c] = place[c]
  <2>1. v \in Places /\ v \notin {"tx", "wait"}
    BY DEF Places
  <2> QED
    BY <1>1, <1>3, <2>1, PlaceMoves DEF OrphanSound
<1>5. /\ param' \in [OrphanBufs -> Response \cup {Nil}]
      /\ \A c \in OrphanBufs : c # b => param'[c] = param[c]
  BY <1>1 DEF OrphanTypes
<1>6. OrphanTypes'
  BY <1>1, <1>4, <1>5 DEF OrphanTypes
<1>7. NoneLost'
  BY <1>1, <1>2, <1>3, <1>4 DEF OrphanSound, NoneLost
<1>8. Orphan!ReportsRight'
  BY <1>1, <1>2 DEF OrphanSound, Orphan!ReportsRight
<1>9. ParamsRight'
  BY <1>1, <1>4, <1>5 DEF OrphanSound, ParamsRight, Says
<1>10. Orphan!Follows' /\ ParentRests' /\ Orphan!HeadersRight'
  BY <1>1 DEF OrphanSound, Orphan!Follows, ParentRests, Orphan!HeadersRight
<1> QED
  BY <1>4, <1>6, <1>7, <1>8, <1>9, <1>10 DEF OrphanSound

LEMMA DataFrameOK ==
  ASSUME OrphanTypes, OrphanSound, NEW b \in OrphanBufs,
         Orphan!DataFrame(b) \/ Orphan!DataFrameDone(b)
  PROVE  OrphanTypes' /\ OrphanSound'
<1>1. /\ UNCHANGED <<layout, mac_pan_id, phy_current_channel, current_channel, children, param,
                     mac_tx_q, tx_wait_cb_arg, tx_status, device, changed, crossed, wrong, misread>>
      /\ pending_buf' \in {pending_buf, b}
  BY DEF Orphan!DataFrame, Orphan!DataFrameDone, Orphan!parent, Orphan!counts, Orphan!history
<1>2. PICK v \in {"data", "free"} :
        place' = [place EXCEPT ![b] = v] /\ place[b] \in {"data", "free"}
  BY FreeBufIs DEF Orphan!DataFrame, Orphan!DataFrameDone
<1>3. /\ QueueAgrees' /\ WaitAgrees' /\ place' \in [OrphanBufs -> Places]
      /\ place'[b] = v /\ \A c \in OrphanBufs : c # b => place'[c] = place[c]
  <2>1. v \in Places /\ v \notin {"tx", "wait"} /\ place[b] \notin {"tx", "wait"}
    BY <1>2 DEF Places
  <2> QED
    BY <1>1, <1>2, <2>1, PlaceMoves DEF OrphanSound
<1>4. OrphanTypes'
  BY <1>1, <1>3 DEF OrphanTypes
<1>5. NoneLost' /\ ParamsRight'
  BY <1>1, <1>3 DEF OrphanSound, NoneLost, ParamsRight, Says
<1>6. Orphan!Follows' /\ ParentRests' /\ Orphan!HeadersRight' /\ Orphan!ReportsRight'
  BY <1>1 DEF OrphanSound, Orphan!Follows, ParentRests, Orphan!HeadersRight, Orphan!ReportsRight
<1> QED
  BY <1>3, <1>4, <1>5, <1>6 DEF OrphanSound

\* Where the parent changes what it has, little is left to be said.
LEMMA WhenChanged ==
  ASSUME OrphanSound, changed',
         param' = param, place' = place, mac_tx_q' = mac_tx_q, tx_wait_cb_arg' = tx_wait_cb_arg,
         Orphan!HeadersRight'
  PROVE  OrphanSound'
BY DEF OrphanSound, QueueAgrees, WaitAgrees, ParamsRight, ParentRests, NoneLost, Orphan!Follows,
       Orphan!ReportsRight

LEMMA StartRequestOK ==
  ASSUME OrphanTypes, OrphanSound, NEW b \in OrphanBufs, NEW p \in Pans,
         Orphan!StartRequest(b, p)
  PROVE  OrphanTypes' /\ OrphanSound'
<1> DEFINE cmd == Orphan!RealignmentCommand(Orphan!Broadcast)
<1>1. /\ changed' /\ pending_buf' = b
      /\ UNCHANGED <<layout, children, param, place, mac_tx_q, tx_wait_cb_arg, device>>
      /\ \/ Orphan!UpdatePib(p, current_channel) /\ UNCHANGED <<misread, tx_status>>
         \/ /\ Orphan!Sends(cmd) /\ tx_status' = "failed"
            /\ UNCHANGED <<mac_pan_id, phy_current_channel, current_channel>>
  BY DEF Orphan!StartRequest, Orphan!Change
<1>2. misread' \subseteq misread \cup {"realignment"} /\ misread \subseteq misread'
  <2>1. cmd.cmd = "realignment"
    BY DEF Orphan!RealignmentCommand, Orphan!Header
  <2> HIDE DEF cmd
  <2> QED
    BY <1>1, <2>1 DEF Orphan!Sends
<1> HIDE DEF cmd
<1>3. Orphan!HeadersRight'
  BY <1>1, <1>2 DEF OrphanSound, Orphan!HeadersRight
<1>4. OrphanSound'
  BY <1>1, <1>3, WhenChanged
<1>5. /\ mac_pan_id' \in Pans /\ phy_current_channel' \in 1 .. ScanChannels
      /\ current_channel' \in 1 .. ScanChannels
      /\ tx_status' \in {"air", "heard", "ok", "failed"}
  BY <1>1 DEF OrphanTypes, Orphan!UpdatePib
<1>6. OrphanTypes'
  BY <1>1, <1>5 DEF OrphanTypes
<1> QED
  BY <1>4, <1>6

LEMMA ParentChangesOK ==
  ASSUME OrphanTypes, OrphanSound,
         Orphan!EdScanStep \/ \E d \in Orphans : Orphan!ChildChanges(d)
  PROVE  OrphanTypes' /\ OrphanSound'
<1>1. /\ changed'
      /\ UNCHANGED <<layout, mac_pan_id, phy_current_channel, param, place, mac_tx_q,
                     tx_wait_cb_arg, tx_status, pending_buf, device, misread>>
  BY DEF Orphan!EdScanStep, Orphan!ChildChanges, Orphan!Change, Orphan!buffers, Orphan!history
<1>2. Orphan!HeadersRight'
  BY <1>1 DEF OrphanSound, Orphan!HeadersRight
<1>3. OrphanSound'
  BY <1>1, <1>2, WhenChanged
<1>4. current_channel' \in 1 .. ScanChannels /\ children' \in [Orphans -> Shorts \cup {Nil}]
  BY DEF Orphan!EdScanStep, Orphan!ChildChanges, OrphanTypes
<1>5. OrphanTypes'
  BY <1>1, <1>4 DEF OrphanTypes
<1> QED
  BY <1>3, <1>5

\* The end of an energy scan, and the commands that change nothing here.
LEMMA OthersOK ==
  ASSUME OrphanTypes, OrphanSound, Orphan!EdScanEnd \/ Orphan!OtherCommand
  PROVE  OrphanTypes' /\ OrphanSound'
<1>1. /\ UNCHANGED <<layout, mac_pan_id, phy_current_channel, children, param, place, mac_tx_q,
                     tx_wait_cb_arg, tx_status, pending_buf, device, changed, crossed, wrong>>
      /\ current_channel' \in {current_channel, phy_current_channel}
  BY DEF Orphan!EdScanEnd, Orphan!OtherCommand, Orphan!parent, Orphan!buffers, Orphan!counts,
         Orphan!history
<1>2. misread' = misread
  <2>1. CASE Orphan!EdScanEnd
    BY <2>1 DEF Orphan!EdScanEnd, Orphan!history
  <2>2. CASE Orphan!OtherCommand
    <3>1. PICK d \in Orphans, p \in Pans :
            \E h \in {Orphan!BeaconRequest, Orphan!BeaconFrame} \cup Orphan!DataRequest(d, p)
                     \cup Orphan!AssociationRequest(d, p) : Orphan!Sends(h)
      BY <2>2 DEF Orphan!OtherCommand
    <3>2. PICK h \in {Orphan!BeaconRequest, Orphan!BeaconFrame} \cup Orphan!DataRequest(d, p)
                     \cup Orphan!AssociationRequest(d, p) : Orphan!Sends(h)
      BY <3>1
    <3>3. ~Orphan!Misreads(h)
      BY OtherHeaders
    <3> QED
      BY <3>2, <3>3, SendsWell
  <2> QED
    BY <2>1, <2>2
<1>3. OrphanTypes'
  BY <1>1 DEF OrphanTypes
<1>4. QueueAgrees' /\ WaitAgrees' /\ ParamsRight' /\ ParentRests' /\ NoneLost'
  BY <1>1 DEF OrphanSound, QueueAgrees, WaitAgrees, ParamsRight, Says, ParentRests, NoneLost
<1>5. Orphan!Follows' /\ Orphan!ReportsRight' /\ Orphan!HeadersRight'
  BY <1>1, <1>2 DEF OrphanSound, Orphan!Follows, Orphan!ReportsRight, Orphan!HeadersRight
<1> QED
  BY <1>3, <1>4, <1>5 DEF OrphanSound

LEMMA OrphanStep ==
  ASSUME OrphanInv, [Next]_vars
  PROVE  OrphanInv'
<1>1. CASE UNCHANGED Orphan!orphanVars
  <2>1. UNCHANGED <<layout, mac_pan_id, phy_current_channel, current_channel, children, param,
                    place, mac_tx_q, tx_wait_cb_arg, tx_status, pending_buf, device, changed,
                    crossed, wrong, misread>>
    BY <1>1 DEF Orphan!orphanVars, Orphan!parent, Orphan!buffers, Orphan!counts, Orphan!history
  <2>2. OrphanTypes'
    BY <2>1 DEF OrphanInv, OrphanTypes
  <2>3. ~crossed => QueueAgrees' /\ WaitAgrees' /\ ParamsRight' /\ ParentRests' /\ NoneLost'
    BY <2>1 DEF OrphanInv, OrphanSound, QueueAgrees, WaitAgrees, ParamsRight, Says, ParentRests,
                NoneLost
  <2>4. ~crossed => Orphan!Follows' /\ Orphan!ReportsRight' /\ Orphan!HeadersRight'
    BY <2>1 DEF OrphanInv, OrphanSound, Orphan!Follows, Orphan!ReportsRight, Orphan!HeadersRight
  <2> QED
    BY <2>1, <2>2, <2>3, <2>4 DEF OrphanInv, OrphanSound
<1>2. CASE Orphan!Next
  <2>1. OrphanTypes /\ OrphanSound
    BY <1>2 DEF Orphan!Next, OrphanInv
  <2>2. SUFFICES OrphanTypes' /\ (~crossed' => OrphanSound')
    BY DEF OrphanInv
  <2>3. CASE \E d \in Orphans : \/ Orphan!OrphanScan(d) \/ Orphan!OrphanScanStep(d)
                                \/ Orphan!ChildChanges(d)
    BY <2>1, <2>3, OrphanScanStepOK, OrphanScanNextOK, ParentChangesOK
  <2>4. CASE \E b \in OrphanBufs : \/ Orphan!OrphanIndication(b) \/ Orphan!CommStatusIndication(b)
                                   \/ Orphan!DataFrame(b) \/ Orphan!DataFrameDone(b)
                                   \/ \E p \in Pans : Orphan!StartRequest(b, p)
    BY <2>1, <2>4, OrphanIndicationOK, CommStatusOK, DataFrameOK, StartRequestOK
  <2>5. CASE Orphan!HandleOrphanResponse
    BY <2>1, <2>5, OrphanResponseOK
  <2>6. CASE Orphan!TxEnds
    BY <2>1, <2>6, TxEndsOK
  <2>7. CASE Orphan!HandleOrphanResponseContinue
    BY <2>1, <2>7, ResponseContinueOK
  <2>8. CASE Orphan!EdScanStep
    BY <2>1, <2>8, ParentChangesOK
  <2>9. CASE Orphan!EdScanEnd \/ Orphan!OtherCommand
    BY <2>1, <2>9, OthersOK
  <2> QED
    BY <1>2, <2>3, <2>4, <2>5, <2>6, <2>7, <2>8, <2>9 DEF Orphan!Next
<1> QED
  BY OrphanSteps, <1>1, <1>2

\* There are enough short addresses for the children.
LEMMA EachHasAnAddress ==
  \E f \in [Orphans -> Shorts] : \A d, e \in Orphans : f[d] = f[e] => d = e
<1> DEFINE n == Cardinality(Orphans)
           m == Cardinality(Shorts)
<1>1. IsFiniteSet(Shorts)
  <2>1. IsFiniteSet(0 .. 255)
    <3>1. 0 \in Int /\ 255 \in Int
      OBVIOUS
    <3> QED
      BY <3>1, FS_Interval, Zenon
  <2>2. IsFiniteSet(Bytes)
    BY <2>1, FS_Product DEF Bytes
  <2> QED
    BY <2>2, OrphanConstants, FS_Subset
<1>2. n \in Nat /\ m \in Nat /\ n <= m
  BY <1>1, OrphanConstants, FS_CardinalityType
<1>3. PICK f : f \in Bijection(1 .. n, Orphans)
  BY OrphanConstants, FS_CardinalityType, Zenon DEF ExistsBijection
<1>4. PICK g : g \in Bijection(1 .. m, Shorts)
  BY <1>1, FS_CardinalityType, Zenon DEF ExistsBijection
<1>5. /\ f \in [1 .. n -> Orphans] /\ \A d \in Orphans : \E i \in 1 .. n : f[i] = d
  BY <1>3, Zenon DEF Bijection, Injection, Surjection, IsInjective, Range
<1>6. /\ g \in [1 .. m -> Shorts] /\ \A i, j \in 1 .. m : g[i] = g[j] => i = j
  BY <1>4, Zenon DEF Bijection, Injection, Surjection, IsInjective
<1> HIDE DEF n, m
<1> DEFINE place_of == [d \in Orphans |-> CHOOSE i \in 1 .. n : f[i] = d]
           h == [d \in Orphans |-> g[place_of[d]]]
<1>7. \A d \in Orphans : place_of[d] \in 1 .. n /\ f[place_of[d]] = d
  BY <1>5
<1>8. \A d \in Orphans : place_of[d] \in 1 .. m
  BY <1>2, <1>7
<1>9. \A d, e \in Orphans : place_of[d] = place_of[e] => d = e
  BY <1>7
<1> HIDE DEF place_of
<1>10. h \in [Orphans -> Shorts]
  BY <1>6, <1>8
<1>11. \A d, e \in Orphans : h[d] = h[e] => d = e
  BY <1>6, <1>8, <1>9
<1> HIDE DEF h
<1> QED
  BY <1>10, <1>11

LEMMA OrphanInit ==
  ASSUME Init
  PROVE  OrphanInv
<1> USE DEF Init
<1>1. mac_pan_id \in Pans
  <2>1. \E p \in Pans : \A q \in Pans : p <= q
    <3>1. PICK p \in Pans : \A q \in Pans : <<q, p>> \notin OpToRel(<, Nat)
      BY OrphanConstants, NatLessThanWellFounded, WFMin, Zenon
    <3>2. ASSUME NEW q \in Pans PROVE p <= q
      <4>1. <<q, p>> \in Nat \X Nat
        BY OrphanConstants
      <4>2. ~ (q < p)
        BY <3>1, <4>1, Zenon DEF OpToRel
      <4>3. p \in Nat /\ q \in Nat
        BY OrphanConstants
      <4> QED
        BY <4>2, <4>3
    <3> QED
      BY <3>2
  <2> QED
    BY <2>1 DEF Orphan!Init
<1>2. children \in [Orphans -> Shorts] /\ \A d, e \in Orphans : children[d] = children[e] => d = e
  BY EachHasAnAddress DEF Orphan!Init
<1>3. /\ layout \in {"linux", "8051"} /\ phy_current_channel = 1 /\ current_channel = 1
      /\ param = [b \in OrphanBufs |-> Nil] /\ place = [b \in OrphanBufs |-> "free"]
      /\ mac_tx_q = << >> /\ tx_wait_cb_arg = Nil /\ tx_status = "ok" /\ pending_buf = Nil
      /\ device = [d \in Orphans |-> [next |-> 0, radio |-> 1, got |-> FALSE, pan |-> 0,
                                      chan |-> 0, coord |-> Nil, short |-> Nil]]
      /\ ~changed /\ wrong = {} /\ misread = {}
  BY DEF Orphan!Init
<1>4. 1 \in 1 .. ScanChannels
  BY OrphanConstants
<1>5. device \in [Orphans -> OrphanState] /\ \A d \in Orphans : ~device[d].got
  BY <1>3 DEF OrphanState
<1>6. param \in [OrphanBufs -> Response \cup {Nil}] /\ place \in [OrphanBufs -> Places]
  BY <1>3 DEF Places
<1>7. children \in [Orphans -> Shorts \cup {Nil}]
  BY <1>2
<1>8. mac_tx_q \in Seq(OrphanBufs) /\ IsInjective(mac_tx_q) /\ Range(mac_tx_q) = {}
  BY <1>3 DEF IsInjective, Range
<1>9. OrphanTypes
  BY <1>1, <1>3, <1>4, <1>5, <1>6, <1>7, <1>8 DEF OrphanTypes
<1>10. QueueAgrees /\ WaitAgrees /\ ParamsRight /\ NoneLost
  BY <1>3, <1>8, OrphanConstants DEF QueueAgrees, WaitAgrees, ParamsRight, Says, NoneLost
<1>11. ParentRests
  BY <1>2, <1>3 DEF ParentRests
<1>12. Orphan!Follows /\ Orphan!ReportsRight /\ Orphan!HeadersRight
  BY <1>3, <1>5 DEF Orphan!Follows, Orphan!ReportsRight, Orphan!HeadersRight
<1> QED
  BY <1>9, <1>10, <1>11, <1>12 DEF OrphanInv, OrphanSound

\* A device that lost its parent learns the parent's PAN id and channel and the address the
\* parent keeps for it, the parent reports the device that was realigned, the buffer comes
\* back, and all headers are read as they were meant: for any number of devices, buffers,
\* channels, PAN ids and operations, until a transmission ends in another one's buffer.
THEOREM SpecOrphansRight == Spec => []OrphansRight
<1>1. Init => OrphanInv
  BY OrphanInit
<1>2. OrphanInv /\ [Next]_vars => OrphanInv'
  BY OrphanStep
<1>3. OrphanInv => OrphansRight
  <2> SUFFICES ASSUME OrphanInv
               PROVE  Orphan!TypeOK /\ (~crossed => /\ Orphan!Follows /\ Orphan!ReportsRight
                                                    /\ Orphan!BuffersReturn /\ Orphan!HeadersRight)
    BY DEF OrphansRight, Orphan!OrphansRight
  <2>1. Orphan!TypeOK
    BY DEF OrphanInv, OrphanTypes, Orphan!TypeOK, Places
  <2>2. ASSUME ~crossed PROVE Orphan!BuffersReturn
    <3>1. QueueAgrees /\ WaitAgrees /\ NoneLost
      BY <2>2 DEF OrphanInv, OrphanSound
    <3>2. \A b : b \in Range(mac_tx_q) <=> \E i \in DOMAIN mac_tx_q : mac_tx_q[i] = b
      BY DEF Range
    <3> QED
      BY <3>1, <3>2 DEF QueueAgrees, WaitAgrees, NoneLost, Orphan!BuffersReturn
  <2> QED
    BY <2>1, <2>2 DEF OrphanInv, OrphanSound
<1> QED
  BY <1>1, <1>2, <1>3, PTL DEF Spec

-----------------------------------------------------------------------------
(* Frames for the endpoints of a group. *)

ChainFunc == "zb_aps_pass_group_msg_up"
LocalFunc == "zb_aps_pass_local_group_pkt_up"
UpFunc    == "zb_aps_pass_up_group_buf"
DataFunc  == "zb_apsde_data_indication"
GroupFuncs == {ChainFunc, LocalFunc, UpFunc, DataFunc}
GroupWaits == {ChainFunc, LocalFunc}
GroupCalls == [func : GroupFuncs, frame : Nat]
GroupPools == [calls : Seq(GroupCalls), waiters : Seq(GroupWaits), used : Nat]
GroupEntries == [addr : GroupAddrs, endpoints : Seq(Endpoints)]
GroupTables == {g \in Seq(GroupEntries) : \A i \in DOMAIN g : IsInjective(g[i].endpoints)}
Stages == {"here", "done", "dropped"}

\* The frames that scheduled calls bring to the queue of the chain, and that no two bring one.
Brings(c) == {i \in DOMAIN c : c[i].func = UpFunc}
Brought(c) == {c[i].frame : i \in Brings(c)}
BroughtOnce(c) == \A i, j \in Brings(c) : c[i].frame = c[j].frame => i = j

\* How often a callback is scheduled or waits, and the buffers that no call carries.
Runs(p, f) == Groups!CountIn(Groups!FuncsIn(p.calls), f) + Groups!CountIn(p.waiters, f)
Idle(p) == p.used - Len(p.calls)
WaitsRight(p) == p.used <= limit /\ (p.waiters # << >> => p.used = limit)

GroupTypes ==
  /\ groups \in GroupTables /\ limit \in Nat
  /\ local_dup_q \in Seq(Nat) /\ pass_up_q \in Seq(Nat) /\ active_buf \in Nat /\ handle \in Nat
  /\ group_of \in Seq(GroupAddrs) /\ stage \in Seq(Stages)
  /\ due \in Seq(Seq(Endpoints)) /\ passed \in Seq(Seq(Endpoints))
  /\ Len(stage) = Len(group_of) /\ Len(due) = Len(group_of) /\ Len(passed) = Len(group_of)

\* The buffers and the callbacks add up.
Active == IF active_buf = 0 THEN 0 ELSE 1
GroupCounts ==
  /\ Groups!Pool \in GroupPools /\ WaitsRight(Groups!Pool)
  /\ Idle(Groups!Pool) = Len(pass_up_q) + Active
  /\ Runs(Groups!Pool, ChainFunc) = Active
  /\ Runs(Groups!Pool, LocalFunc) = Len(local_dup_q)
  /\ Len(pass_up_q) <= UpQSize /\ (active_buf = 0 => pass_up_q = << >>)

\* A frame is in one place, and in none when the chain is done with it.
Waiting == Range(local_dup_q) \cup Brought(calls) \cup Range(pass_up_q)
GroupPlaces ==
  /\ IsInjective(local_dup_q) /\ IsInjective(pass_up_q) /\ BroughtOnce(calls)
  /\ Range(local_dup_q) \cap Brought(calls) = {} /\ Range(local_dup_q) \cap Range(pass_up_q) = {}
  /\ Brought(calls) \cap Range(pass_up_q) = {}
  /\ Waiting \subseteq 1 .. Len(group_of) /\ active_buf \notin Waiting
  /\ \A m \in Waiting : stage[m] = "here" /\ passed[m] = << >>
  /\ active_buf # 0 => /\ active_buf \in 1 .. Len(group_of) /\ stage[active_buf] = "here"
                       /\ handle = Len(passed[active_buf])

\* What was passed, and what was due, are the first endpoints of the group.
FirstOf(s, t) == Len(s) <= Len(t) /\ \A i \in 1 .. Len(s) : s[i] = t[i]
GroupPassed ==
  \A m \in 1 .. Len(group_of) :
    /\ FirstOf(passed[m], Groups!EndpointsOf(group_of[m]))
    /\ FirstOf(due[m], Groups!EndpointsOf(group_of[m]))
    /\ stage[m] = "done" => FirstOf(due[m], passed[m])

GroupsInv == GroupTypes /\ GroupCounts /\ GroupPlaces /\ GroupPassed

LEMMA CountsPositions == \A S : Groups!Cardinality(S) = Cardinality(S)
BY DEF Groups!Cardinality, Cardinality

\* Positions of an element in a sequence to which one is appended, or whose first is taken.
LEMMA CountAppend ==
  ASSUME NEW S, NEW s \in Seq(S), NEW e \in S, NEW f
  PROVE  /\ Groups!CountIn(s, f) \in Nat
         /\ Groups!CountIn(Append(s, e), f) = Groups!CountIn(s, f) + (IF e = f THEN 1 ELSE 0)
<1> DEFINE n == Len(s)
           P == {i \in 1 .. n : s[i] = f}
           Q == {i \in 1 .. n + 1 : Append(s, e)[i] = f}
<1>1. n \in Nat /\ DOMAIN s = 1 .. n /\ DOMAIN Append(s, e) = 1 .. n + 1
  OBVIOUS
<1>2. (\A i \in 1 .. n : Append(s, e)[i] = s[i]) /\ Append(s, e)[n + 1] = e
  OBVIOUS
<1>3. Groups!CountIn(s, f) = Cardinality(P) /\ Groups!CountIn(Append(s, e), f) = Cardinality(Q)
  BY <1>1, CountsPositions DEF Groups!CountIn
<1>4. IsFiniteSet(P) /\ Cardinality(P) \in Nat
  <2>1. IsFiniteSet(1 .. n)
    BY <1>1, FS_Interval
  <2>2. P \in SUBSET (1 .. n)
    OBVIOUS
  <2>3. IsFiniteSet(P)
    BY <2>1, <2>2, FS_Subset
  <2> QED
    BY <2>3, FS_CardinalityType
<1>5. ASSUME e = f PROVE Q = P \cup {n + 1}
  BY <1>1, <1>2, <1>5
<1>6. ASSUME e # f PROVE Q = P
  BY <1>1, <1>2, <1>6
<1>7. n + 1 \notin P
  BY <1>1
<1> HIDE DEF P, Q, n
<1>8. Cardinality(P \cup {n + 1}) = Cardinality(P) + 1
  BY <1>4, <1>7, FS_AddElement
<1>9. CASE e = f
  <2>1. Cardinality(Q) = Cardinality(P) + 1
    BY <1>5, <1>8, <1>9
  <2> QED
    BY <1>3, <1>4, <1>9, <2>1
<1>10. CASE e # f
  <2>1. Cardinality(Q) = Cardinality(P)
    BY <1>6, <1>10
  <2> QED
    BY <1>3, <1>4, <1>10, <2>1
<1> QED
  BY <1>9, <1>10

LEMMA CountTail ==
  ASSUME NEW S, NEW s \in Seq(S), s # << >>, NEW f
  PROVE  Groups!CountIn(s, f) = Groups!CountIn(Tail(s), f) + (IF Head(s) = f THEN 1 ELSE 0)
<1> DEFINE n == Len(s)
           P == {i \in 2 .. n : s[i] = f}
           Q == {i \in 1 .. n - 1 : Tail(s)[i] = f}
           A == {i \in 1 .. n : s[i] = f}
<1>1. n \in Nat \ {0} /\ DOMAIN s = 1 .. n /\ DOMAIN Tail(s) = 1 .. n - 1 /\ Head(s) = s[1]
  OBVIOUS
<1>2. \A i \in 1 .. n - 1 : Tail(s)[i] = s[i + 1]
  OBVIOUS
<1>3. Groups!CountIn(s, f) = Cardinality(A) /\ Groups!CountIn(Tail(s), f) = Cardinality(Q)
  BY <1>1, CountsPositions DEF Groups!CountIn
<1>4. IsFiniteSet(P) /\ Cardinality(P) \in Nat
  <2>1. IsFiniteSet(1 .. n)
    BY <1>1, FS_Interval
  <2>2. P \in SUBSET (1 .. n)
    OBVIOUS
  <2>3. IsFiniteSet(P)
    BY <2>1, <2>2, FS_Subset
  <2> QED
    BY <2>3, FS_CardinalityType
<1>5. Cardinality(Q) = Cardinality(P)
  <2> DEFINE g == [i \in P |-> i - 1]
  <2>1. \A i \in P : i - 1 \in Q
    BY <1>1, <1>2
  <2>2. \A j \in Q : j + 1 \in P /\ (j + 1) - 1 = j
    BY <1>1, <1>2
  <2>3. \A i, j \in P : i - 1 = j - 1 => i = j
    BY <1>1
  <2> HIDE DEF P, Q
  <2>4. g \in Bijection(P, Q)
    BY <2>1, <2>2, <2>3 DEF Bijection, Injection, Surjection, IsInjective
  <2> HIDE DEF g
  <2>5. ExistsBijection(P, Q)
    BY <2>4 DEF ExistsBijection
  <2> QED
    BY <1>4, <2>5, FS_Bijection
<1>6. ASSUME Head(s) = f PROVE A = P \cup {1}
  BY <1>1, <1>6
<1>7. ASSUME Head(s) # f PROVE A = P
  BY <1>1, <1>7
<1>8. 1 \notin P
  BY <1>1
<1> HIDE DEF P, Q, A, n
<1>9. Cardinality(P \cup {1}) = Cardinality(P) + 1
  BY <1>4, <1>8, FS_AddElement
<1>10. CASE Head(s) = f
  <2>1. Cardinality(A) = Cardinality(Q) + 1
    BY <1>5, <1>6, <1>9, <1>10
  <2> QED
    BY <1>3, <1>10, <2>1
<1>11. CASE Head(s) # f
  <2>1. Cardinality(A) = Cardinality(Q) /\ Cardinality(Q) \in Nat
    BY <1>4, <1>5, <1>7, <1>11
  <2> QED
    BY <1>3, <1>11, <2>1
<1> QED
  BY <1>10, <1>11

\* The callbacks of calls are a sequence as the calls are.
LEMMA FuncsAre ==
  ASSUME NEW c \in Seq(GroupCalls)
  PROVE  /\ Groups!FuncsIn(c) \in Seq(GroupFuncs) /\ Len(Groups!FuncsIn(c)) = Len(c)
         /\ \A e \in GroupCalls :
              Groups!FuncsIn(Append(c, e)) = Append(Groups!FuncsIn(c), e.func)
         /\ c # << >> => /\ Groups!FuncsIn(c) # << >> /\ Head(Groups!FuncsIn(c)) = Head(c).func
                         /\ Groups!FuncsIn(Tail(c)) = Tail(Groups!FuncsIn(c))
<1>1. \A i \in 1 .. Len(c) : c[i].func \in GroupFuncs
  <2>1. \A i \in 1 .. Len(c) : c[i] \in GroupCalls
    OBVIOUS
  <2> HIDE DEF GroupFuncs
  <2> QED
    BY <2>1 DEF GroupCalls
<1>2. Groups!FuncsIn(c) = [i \in 1 .. Len(c) |-> c[i].func]
  BY DEF Groups!FuncsIn
<1>3. Groups!FuncsIn(c) \in Seq(GroupFuncs) /\ Len(Groups!FuncsIn(c)) = Len(c)
  BY <1>1, <1>2
<1>4. ASSUME NEW e \in GroupCalls
      PROVE  Groups!FuncsIn(Append(c, e)) = Append(Groups!FuncsIn(c), e.func)
  <2>1. e.func \in GroupFuncs
    BY DEF GroupCalls
  <2>2. Groups!FuncsIn(Append(c, e)) = [i \in 1 .. Len(c) + 1 |-> Append(c, e)[i].func]
    BY DEF Groups!FuncsIn
  <2>3. Append(Groups!FuncsIn(c), e.func)
          = [i \in 1 .. Len(c) + 1 |-> IF i = Len(c) + 1 THEN e.func ELSE c[i].func]
    BY <1>2, <1>3, <2>1
  <2>4. \A i \in 1 .. Len(c) + 1 :
          Append(c, e)[i].func = IF i = Len(c) + 1 THEN e.func ELSE c[i].func
    OBVIOUS
  <2> QED
    BY <2>2, <2>3, <2>4
<1>5. ASSUME c # << >>
      PROVE  /\ Groups!FuncsIn(c) # << >> /\ Head(Groups!FuncsIn(c)) = Head(c).func
             /\ Groups!FuncsIn(Tail(c)) = Tail(Groups!FuncsIn(c))
  <2>1. Len(c) \in Nat \ {0} /\ Head(c) = c[1] /\ 1 \in 1 .. Len(c)
    BY <1>5
  <2>2. Groups!FuncsIn(c) # << >> /\ Head(Groups!FuncsIn(c)) = Head(c).func
    BY <1>2, <1>3, <2>1
  <2>3. Groups!FuncsIn(Tail(c)) = [i \in 1 .. Len(c) - 1 |-> Tail(c)[i].func]
    BY <1>5 DEF Groups!FuncsIn
  <2>4. Tail(Groups!FuncsIn(c)) = [i \in 1 .. Len(c) - 1 |-> Groups!FuncsIn(c)[i + 1]]
    <3> DEFINE d == Groups!FuncsIn(c)
    <3> HIDE DEF d
    <3>1. ASSUME NEW T, NEW u \in Seq(T), u # << >>
          PROVE  Tail(u) = [i \in 1 .. Len(u) - 1 |-> u[i + 1]]
      <4>1. Tail(u) \in Seq(T) /\ Len(Tail(u)) = Len(u) - 1 /\ Len(u) \in Nat \ {0}
            /\ \A i \in 1 .. Len(u) - 1 : Tail(u)[i] = u[i + 1]
        BY <3>1
      <4>2. \A q \in Seq(T) : q \in [1 .. Len(q) -> T]
        OBVIOUS
      <4>3. Tail(u) \in [1 .. Len(u) - 1 -> T]
        BY <4>1, <4>2, Zenon
      <4> QED
        BY <4>1, <4>3
    <3> QED
      BY <1>3, <2>2, <3>1
  <2>5. \A i \in 1 .. Len(c) - 1 : Tail(c)[i].func = Groups!FuncsIn(c)[i + 1]
    BY <1>2, <1>5, <2>1
  <2> QED
    BY <2>2, <2>3, <2>4, <2>5
<1> QED
  BY <1>3, <1>4, <1>5

LEMMA FuncsDiffer ==
  /\ {ChainFunc, LocalFunc} = GroupWaits /\ GroupWaits \subseteq GroupFuncs /\ UpFunc \in GroupFuncs
  /\ DataFunc \in GroupFuncs /\ UpFunc \notin GroupWaits /\ DataFunc \notin GroupWaits
  /\ DataFunc # UpFunc /\ ChainFunc # LocalFunc
BY DEF GroupWaits, GroupFuncs, ChainFunc, LocalFunc, UpFunc, DataFunc

\* A call is scheduled behind the others.
LEMMA BroughtAppend ==
  ASSUME NEW c \in Seq(GroupCalls), NEW e \in GroupCalls
  PROVE  /\ Brought(Append(c, e)) = Brought(c) \cup {x \in {e.frame} : e.func = UpFunc}
         /\ BroughtOnce(c) /\ (e.func = UpFunc => e.frame \notin Brought(c))
              => BroughtOnce(Append(c, e))
<1> DEFINE n == Len(c)
           d == Append(c, e)
<1>1. n \in Nat /\ DOMAIN c = 1 .. n /\ DOMAIN d = 1 .. n + 1 /\ d[n + 1] = e
      /\ \A i \in 1 .. n : d[i] = c[i]
  OBVIOUS
<1>2. \A i \in 1 .. n : i \in 1 .. n + 1 /\ i # n + 1
  BY <1>1
<1>3. n + 1 \in 1 .. n + 1 /\ \A i \in 1 .. n + 1 : i = n + 1 \/ i \in 1 .. n
  BY <1>1
<1> HIDE DEF n, d
<1>4. \A i \in DOMAIN d : i \in Brings(d) <=> i \in Brings(c) \/ (i = n + 1 /\ e.func = UpFunc)
  BY <1>1, <1>2, <1>3 DEF Brings
<1>5. Brings(c) \subseteq Brings(d) /\ \A i \in Brings(c) : d[i] = c[i] /\ i # n + 1
  BY <1>1, <1>2 DEF Brings
<1>6. Brings(d) \subseteq DOMAIN d
  BY DEF Brings
<1>7. Brought(d) = Brought(c) \cup {x \in {e.frame} : e.func = UpFunc}
  <2>1. ASSUME NEW i \in Brings(d) PROVE d[i].frame \in Brought(c) \cup {x \in {e.frame} : e.func = UpFunc}
    BY <1>1, <1>4, <1>5, <1>6 DEF Brought
  <2>2. Brought(c) \subseteq Brought(d)
    BY <1>5 DEF Brought
  <2>3. ASSUME e.func = UpFunc PROVE e.frame \in Brought(d)
    <3>1. n + 1 \in Brings(d)
      BY <1>1, <1>3, <1>4, <2>3
    <3> QED
      BY <1>1, <3>1 DEF Brought
  <2> QED
    BY <2>1, <2>2, <2>3 DEF Brought
<1>8. ASSUME BroughtOnce(c), e.func = UpFunc => e.frame \notin Brought(c)
      PROVE  BroughtOnce(d)
  <2> SUFFICES ASSUME NEW i \in Brings(d), NEW j \in Brings(d), d[i].frame = d[j].frame
               PROVE  i = j
    BY DEF BroughtOnce
  <2>1. (i \in Brings(c) \/ (i = n + 1 /\ e.func = UpFunc))
        /\ (j \in Brings(c) \/ (j = n + 1 /\ e.func = UpFunc))
    BY <1>4, <1>6
  <2>2. CASE i \in Brings(c) /\ j \in Brings(c)
    BY <1>5, <1>8, <2>2 DEF BroughtOnce
  <2>3. CASE i \in Brings(c) /\ j = n + 1 /\ e.func = UpFunc
    BY <1>1, <1>5, <1>8, <2>3 DEF Brought
  <2>4. CASE j \in Brings(c) /\ i = n + 1 /\ e.func = UpFunc
    BY <1>1, <1>5, <1>8, <2>4 DEF Brought
  <2> QED
    BY <2>1, <2>2, <2>3, <2>4
<1> QED
  BY <1>7, <1>8 DEF d

\* The first call is taken.
LEMMA BroughtTail ==
  ASSUME NEW c \in Seq(GroupCalls), c # << >>, BroughtOnce(c)
  PROVE  /\ Head(c) \in GroupCalls /\ BroughtOnce(Tail(c))
         /\ Head(c).func = UpFunc => /\ Head(c).frame \in Brought(c)
                                     /\ Brought(Tail(c)) = Brought(c) \ {Head(c).frame}
         /\ Head(c).func # UpFunc => Brought(Tail(c)) = Brought(c)
<1> DEFINE n == Len(c)
           d == Tail(c)
<1>1. /\ n \in Nat \ {0} /\ DOMAIN c = 1 .. n /\ DOMAIN d = 1 .. n - 1 /\ Head(c) = c[1]
      /\ \A i \in 1 .. n - 1 : d[i] = c[i + 1]
      /\ Head(c) \in GroupCalls
  OBVIOUS
<1>2. \A i \in 1 .. n - 1 : i + 1 \in 1 .. n /\ i + 1 # 1
  BY <1>1
<1>3. 1 \in 1 .. n /\ \A i \in 1 .. n : i = 1 \/ (i - 1 \in 1 .. n - 1 /\ (i - 1) + 1 = i)
  BY <1>1
<1>4. \A i, j \in 1 .. n - 1 : i + 1 = j + 1 => i = j
  BY <1>1
<1> HIDE DEF n, d
<1>5. \A i \in Brings(d) : i + 1 \in Brings(c) /\ d[i] = c[i + 1] /\ i + 1 # 1 /\ i \in 1 .. n - 1
  BY <1>1, <1>2 DEF Brings
<1>6. \A i \in Brings(c) : i = 1 \/ (i - 1 \in Brings(d) /\ d[i - 1] = c[i])
  BY <1>1, <1>3 DEF Brings
<1>7. (1 \in Brings(c)) <=> (Head(c).func = UpFunc)
  BY <1>1, <1>3 DEF Brings
<1>8. BroughtOnce(d)
  BY <1>4, <1>5 DEF BroughtOnce
<1>9. ASSUME Head(c).func = UpFunc
      PROVE  Head(c).frame \in Brought(c) /\ Brought(d) = Brought(c) \ {Head(c).frame}
  <2>1. Head(c).frame \in Brought(c)
    BY <1>1, <1>7, <1>9 DEF Brought
  <2>2. Brought(d) \subseteq Brought(c) \ {Head(c).frame}
    BY <1>1, <1>5, <1>7, <1>9 DEF Brought, BroughtOnce
  <2>3. Brought(c) \ {Head(c).frame} \subseteq Brought(d)
    BY <1>1, <1>6 DEF Brought
  <2> QED
    BY <2>1, <2>2, <2>3
<1>10. ASSUME Head(c).func # UpFunc
       PROVE  Brought(d) = Brought(c)
  <2>1. Brought(d) \subseteq Brought(c)
    BY <1>5 DEF Brought
  <2>2. Brought(c) \subseteq Brought(d)
    BY <1>6, <1>7, <1>10 DEF Brought
  <2> QED
    BY <2>1, <2>2
<1> QED
  BY <1>1, <1>8, <1>9, <1>10 DEF d

\* The input half of the pool: what scheduling, asking for a buffer, freeing one and taking
\* the next call do to the calls, the waiters and the buffers that no call carries.
Well(p) == p \in GroupPools /\ WaitsRight(p) /\ BroughtOnce(p.calls)
One(f, g) == IF f = g THEN 1 ELSE 0

LEMMA RunsIsNat ==
  ASSUME NEW p \in GroupPools, NEW g
  PROVE  Runs(p, g) \in Nat /\ Idle(p) \in Int
<1>1. p.calls \in Seq(GroupCalls) /\ p.waiters \in Seq(GroupWaits) /\ p.used \in Nat
  BY DEF GroupPools
<1>2. ChainFunc \in GroupFuncs /\ ChainFunc \in GroupWaits
  BY FuncsDiffer
<1>3. Groups!CountIn(Groups!FuncsIn(p.calls), g) \in Nat
  BY <1>1, <1>2, FuncsAre, CountAppend
<1>4. Groups!CountIn(p.waiters, g) \in Nat
  BY <1>1, <1>2, CountAppend
<1> QED
  BY <1>1, <1>3, <1>4 DEF Runs, Idle

LEMMA ScheduledIs ==
  ASSUME NEW p \in GroupPools, NEW e \in GroupCalls
  PROVE  LET q == Groups!Scheduled(p, e)
         IN  /\ q \in GroupPools /\ q.used = p.used /\ q.waiters = p.waiters
             /\ q.calls # << >> /\ Idle(q) = Idle(p) - 1
             /\ \A g : Runs(q, g) = Runs(p, g) + One(e.func, g)
             /\ e.func = UpFunc => Brought(q.calls) = Brought(p.calls) \cup {e.frame}
             /\ e.func # UpFunc => Brought(q.calls) = Brought(p.calls)
             /\ Well(p) /\ (e.func = UpFunc => e.frame \notin Brought(p.calls)) => Well(q)
<1> DEFINE q == Groups!Scheduled(p, e)
<1>1. p.calls \in Seq(GroupCalls) /\ p.waiters \in Seq(GroupWaits) /\ p.used \in Nat
  BY DEF GroupPools
<1>2. e.func \in GroupFuncs
  BY DEF GroupCalls
<1>3. q = [calls |-> Append(p.calls, e), waiters |-> p.waiters, used |-> p.used]
  <2>1. \A c : [p EXCEPT !.calls = c] = [calls |-> c, waiters |-> p.waiters, used |-> p.used]
    BY DEF GroupPools
  <2>2. q = [p EXCEPT !.calls = Append(p.calls, e)]
    BY DEF Groups!Scheduled
  <2> QED
    BY <2>1, <2>2
<1>4. Append(p.calls, e) \in Seq(GroupCalls) /\ Append(p.calls, e) # << >>
      /\ Len(Append(p.calls, e)) = Len(p.calls) + 1 /\ Len(p.calls) \in Nat
  BY <1>1, <1>2
<1> HIDE DEF q
<1>5. q \in GroupPools /\ q.used = p.used /\ q.waiters = p.waiters /\ q.calls = Append(p.calls, e)
  BY <1>1, <1>3, <1>4 DEF GroupPools
<1>6. Idle(q) = Idle(p) - 1
  BY <1>1, <1>4, <1>5 DEF Idle
<1>7. ASSUME NEW g PROVE Runs(q, g) = Runs(p, g) + One(e.func, g)
  <2> DEFINE s == Groups!FuncsIn(p.calls)
             k == Groups!CountIn(s, g)
             l == Groups!CountIn(p.waiters, g)
  <2>1. s \in Seq(GroupFuncs) /\ Groups!FuncsIn(q.calls) = Append(s, e.func)
    BY <1>1, <1>2, <1>5, FuncsAre
  <2> HIDE DEF s
  <2>2. k \in Nat /\ Groups!CountIn(Append(s, e.func), g) = k + One(e.func, g)
    <3> DEFINE f == e.func
    <3>1. f \in GroupFuncs /\ s \in Seq(GroupFuncs)
      BY <1>2, <2>1
    <3> HIDE DEF f
    <3>2. k \in Nat /\ Groups!CountIn(Append(s, f), g) = k + One(f, g)
      BY <3>1, CountAppend DEF One
    <3> QED
      BY <3>2 DEF f
  <2>3. ChainFunc \in GroupWaits
    BY FuncsDiffer
  <2>4. l \in Nat
    BY <1>1, <2>3, CountAppend
  <2>5. Runs(p, g) = k + l /\ Runs(q, g) = Groups!CountIn(Append(s, e.func), g) + l
    BY <1>5, <2>1 DEF Runs, s
  <2>6. One(e.func, g) \in Nat
    BY DEF One
  <2> HIDE DEF k, l
  <2> QED
    BY <2>2, <2>4, <2>5, <2>6
<1>8. /\ e.func = UpFunc => Brought(q.calls) = Brought(p.calls) \cup {e.frame}
      /\ e.func # UpFunc => Brought(q.calls) = Brought(p.calls)
  BY <1>1, <1>2, <1>5, BroughtAppend
<1>9. Well(p) /\ (e.func = UpFunc => e.frame \notin Brought(p.calls)) => Well(q)
  BY <1>1, <1>2, <1>5, BroughtAppend DEF Well, WaitsRight
<1> QED
  BY <1>4, <1>5, <1>6, <1>7, <1>8, <1>9 DEF q

LEMMA CallIs ==
  ASSUME NEW f \in GroupFuncs, NEW m \in Nat
  PROVE  /\ Groups!Call(f, m) \in GroupCalls /\ Groups!Call(f, m).func = f
         /\ Groups!Call(f, m).frame = m
BY DEF Groups!Call, GroupCalls

\* A frame is brought to the queue, or something else is called.
LEMMA BringsIs ==
  ASSUME NEW p, Well(p), NEW m, m \in Nat, m \notin Brought(p.calls)
  PROVE  LET q == Groups!Scheduled(p, Groups!Call(UpFunc, m))
         IN  /\ Well(q) /\ Idle(q) = Idle(p) - 1 /\ Brought(q.calls) = Brought(p.calls) \cup {m}
             /\ \A g : Runs(q, g) = Runs(p, g) + One(UpFunc, g)
<1> DEFINE e == Groups!Call(UpFunc, m)
           q == Groups!Scheduled(p, e)
<1>1. UpFunc \in GroupFuncs /\ p \in GroupPools
  BY FuncsDiffer DEF Well
<1>2. e \in GroupCalls /\ e.func = UpFunc /\ e.frame = m
  BY <1>1, CallIs
<1> HIDE DEF e
<1>3. /\ Idle(q) = Idle(p) - 1 /\ (\A g : Runs(q, g) = Runs(p, g) + One(e.func, g))
      /\ (e.func = UpFunc => Brought(q.calls) = Brought(p.calls) \cup {e.frame})
      /\ (Well(p) /\ (e.func = UpFunc => e.frame \notin Brought(p.calls)) => Well(q))
  BY <1>1, <1>2, ScheduledIs
<1> HIDE DEF q
<1> QED
  BY <1>2, <1>3 DEF q, e

LEMMA CallsIs ==
  ASSUME NEW p, Well(p), NEW f, f \in GroupFuncs, f # UpFunc
  PROVE  LET q == Groups!Scheduled(p, Groups!Call(f, 0))
         IN  /\ Well(q) /\ Idle(q) = Idle(p) - 1 /\ Brought(q.calls) = Brought(p.calls)
             /\ \A g : Runs(q, g) = Runs(p, g) + One(f, g)
<1> DEFINE e == Groups!Call(f, 0)
           q == Groups!Scheduled(p, e)
<1>1. p \in GroupPools
  BY DEF Well
<1>2. e \in GroupCalls /\ e.func = f
  BY CallIs
<1> HIDE DEF e
<1>3. /\ Idle(q) = Idle(p) - 1 /\ (\A g : Runs(q, g) = Runs(p, g) + One(e.func, g))
      /\ (e.func # UpFunc => Brought(q.calls) = Brought(p.calls))
      /\ (Well(p) /\ (e.func = UpFunc => e.frame \notin Brought(p.calls)) => Well(q))
  BY <1>1, <1>2, ScheduledIs
<1> HIDE DEF q
<1> QED
  BY <1>2, <1>3 DEF q, e

LEMMA WantedIs ==
  ASSUME NEW p, Well(p), NEW f, f \in GroupWaits, limit \in Nat
  PROVE  LET q == Groups!Wanted(p, f)
         IN  /\ Well(q) /\ Idle(q) = Idle(p) /\ Brought(q.calls) = Brought(p.calls)
             /\ \A g : Runs(q, g) = Runs(p, g) + One(f, g)
<1> DEFINE q == Groups!Wanted(p, f)
           r == [p EXCEPT !.used = @ + 1]
           t == [p EXCEPT !.waiters = Append(@, f)]
<1>1. /\ p \in GroupPools /\ WaitsRight(p) /\ BroughtOnce(p.calls)
      /\ p.calls \in Seq(GroupCalls) /\ p.waiters \in Seq(GroupWaits) /\ p.used \in Nat
      /\ f \in GroupFuncs /\ f # UpFunc
  BY FuncsDiffer DEF Well, GroupPools
<1>2. CASE p.used < limit
  <2>1. r = [calls |-> p.calls, waiters |-> p.waiters, used |-> p.used + 1]
    BY <1>1 DEF GroupPools
  <2>2. q = Groups!Scheduled(r, Groups!Call(f, 0))
    BY <1>2 DEF Groups!Wanted, Groups!NoFrame
  <2> HIDE DEF q, r
  <2>3. p.waiters = << >> /\ p.used + 1 <= limit
    BY <1>1, <1>2 DEF WaitsRight
  <2>4. r \in GroupPools /\ r.calls = p.calls /\ r.waiters = p.waiters /\ r.used = p.used + 1
    BY <1>1, <2>1 DEF GroupPools
  <2>5. Well(r)
    BY <1>1, <2>3, <2>4 DEF Well, WaitsRight
  <2>6. Idle(r) = Idle(p) + 1 /\ Idle(p) \in Int
    BY <1>1, <2>4 DEF Idle
  <2>7. \A g : Runs(r, g) = Runs(p, g)
    BY <2>4 DEF Runs
  <2>8. /\ Idle(q) = Idle(r) - 1 /\ Well(q)
        /\ \A g : Runs(q, g) = Runs(r, g) + One(f, g)
        /\ Brought(q.calls) = Brought(r.calls)
    BY <1>1, <2>2, <2>5, CallsIs
  <2>9. Brought(q.calls) = Brought(p.calls)
    BY <1>1, <2>4, <2>8
  <2>10. Idle(q) = Idle(p)
    BY <2>6, <2>8
  <2>11. \A g : Runs(q, g) = Runs(p, g) + One(f, g)
    BY <2>7, <2>8
  <2> QED
    BY <2>8, <2>9, <2>10, <2>11 DEF q
<1>3. CASE ~ (p.used < limit)
  <2>1. t = [calls |-> p.calls, waiters |-> Append(p.waiters, f), used |-> p.used]
    <3>1. \A w : [p EXCEPT !.waiters = w] = [calls |-> p.calls, waiters |-> w, used |-> p.used]
      BY <1>1 DEF GroupPools
    <3> QED
      BY <3>1
  <2>2. q = t
    BY <1>3 DEF Groups!Wanted
  <2> HIDE DEF q, t
  <2>3. t \in GroupPools /\ t.calls = p.calls /\ t.used = p.used /\ t.waiters = Append(p.waiters, f)
    BY <1>1, <2>1 DEF GroupPools
  <2>4. t.used = limit
    BY <1>1, <1>3, <2>3 DEF WaitsRight
  <2>5. Well(t)
    BY <1>1, <2>3, <2>4 DEF Well, WaitsRight
  <2>6. ASSUME NEW g PROVE Runs(t, g) = Runs(p, g) + One(f, g)
    <3> DEFINE k == Groups!CountIn(Groups!FuncsIn(p.calls), g)
               l == Groups!CountIn(p.waiters, g)
    <3>1. Groups!CountIn(Append(p.waiters, f), g) = l + One(f, g) /\ l \in Nat
      BY <1>1, CountAppend DEF One
    <3>2. k \in Nat
      BY <1>1, FuncsAre, CountAppend
    <3>3. Runs(p, g) = k + l /\ Runs(t, g) = k + Groups!CountIn(Append(p.waiters, f), g)
      BY <2>3 DEF Runs
    <3>4. One(f, g) \in Nat
      BY DEF One
    <3> HIDE DEF k, l
    <3> QED
      BY <3>1, <3>2, <3>3, <3>4
  <2>7. Idle(t) = Idle(p)
    BY <2>3 DEF Idle
  <2> QED
    BY <2>2, <2>3, <2>5, <2>6, <2>7 DEF q
<1> QED
  BY <1>2, <1>3

LEMMA FreedIs ==
  ASSUME NEW p, Well(p), Idle(p) > 0, limit \in Nat
  PROVE  LET q == Groups!Freed(p)
         IN  /\ Well(q) /\ Idle(q) = Idle(p) - 1 /\ Brought(q.calls) = Brought(p.calls)
             /\ \A g : Runs(q, g) = Runs(p, g)
<1> DEFINE q == Groups!Freed(p)
           r == [p EXCEPT !.waiters = Tail(@)]
           t == [p EXCEPT !.used = @ - 1]
           f == Head(p.waiters)
<1>1. /\ p \in GroupPools /\ WaitsRight(p) /\ BroughtOnce(p.calls)
      /\ p.calls \in Seq(GroupCalls) /\ p.waiters \in Seq(GroupWaits) /\ p.used \in Nat
  BY DEF Well, GroupPools
<1>2. CASE p.waiters # << >>
  <2>1. r = [calls |-> p.calls, waiters |-> Tail(p.waiters), used |-> p.used]
    <3>1. \A w : [p EXCEPT !.waiters = w] = [calls |-> p.calls, waiters |-> w, used |-> p.used]
      BY <1>1 DEF GroupPools
    <3> QED
      BY <3>1
  <2>2. q = Groups!Scheduled(r, Groups!Call(f, 0))
    BY <1>2 DEF Groups!Freed, Groups!NoFrame
  <2>3. f \in GroupWaits /\ Tail(p.waiters) \in Seq(GroupWaits)
    BY <1>1, <1>2
  <2> HIDE DEF q, r, f
  <2>4. f \in GroupFuncs /\ f # UpFunc
    BY <2>3, FuncsDiffer
  <2>5. r \in GroupPools /\ r.calls = p.calls /\ r.waiters = Tail(p.waiters) /\ r.used = p.used
    BY <1>1, <2>1, <2>3 DEF GroupPools
  <2>6. p.used = limit
    BY <1>1, <1>2 DEF WaitsRight
  <2>7. Well(r)
    BY <1>1, <2>5, <2>6 DEF Well, WaitsRight
  <2>8. Idle(r) = Idle(p) /\ Idle(p) \in Int
    BY <1>1, <2>5 DEF Idle
  <2>9. ASSUME NEW g PROVE Runs(p, g) = Runs(r, g) + One(f, g)
    <3> DEFINE k == Groups!CountIn(Groups!FuncsIn(p.calls), g)
               l == Groups!CountIn(Tail(p.waiters), g)
    <3>1. Groups!CountIn(p.waiters, g) = l + One(f, g)
      BY <1>1, <1>2, CountTail DEF One, f
    <3>2. l \in Nat
      BY <2>3, CountAppend
    <3>3. k \in Nat
      BY <1>1, <2>4, FuncsAre, CountAppend
    <3>4. Runs(r, g) = k + l /\ Runs(p, g) = k + Groups!CountIn(p.waiters, g)
      BY <2>5 DEF Runs
    <3>5. One(f, g) \in Nat
      BY DEF One
    <3> HIDE DEF k, l
    <3> QED
      BY <3>1, <3>2, <3>3, <3>4, <3>5
  <2>10. /\ Idle(q) = Idle(r) - 1 /\ Well(q)
         /\ \A g : Runs(q, g) = Runs(r, g) + One(f, g)
         /\ Brought(q.calls) = Brought(r.calls)
    BY <2>2, <2>4, <2>7, CallsIs
  <2>11. Brought(q.calls) = Brought(p.calls)
    BY <2>4, <2>5, <2>10
  <2>12. \A g : Runs(q, g) = Runs(p, g)
    BY <2>9, <2>10
  <2> QED
    BY <2>8, <2>10, <2>11, <2>12 DEF q
<1>3. CASE p.waiters = << >>
  <2>1. t = [calls |-> p.calls, waiters |-> p.waiters, used |-> p.used - 1]
    BY <1>1 DEF GroupPools
  <2>2. q = t
    BY <1>3 DEF Groups!Freed
  <2>3. Len(p.calls) \in Nat
    BY <1>1
  <2>4. p.used - 1 \in Nat
    BY <1>1, <2>3 DEF Idle
  <2> HIDE DEF q, t
  <2>5. t \in GroupPools /\ t.calls = p.calls /\ t.waiters = p.waiters /\ t.used = p.used - 1
    BY <1>1, <2>1, <2>4 DEF GroupPools
  <2>6. Well(t)
    BY <1>1, <1>3, <2>5 DEF Well, WaitsRight
  <2>7. Idle(t) = Idle(p) - 1
    BY <1>1, <2>3, <2>5 DEF Idle
  <2>8. \A g : Runs(t, g) = Runs(p, g)
    BY <2>5 DEF Runs
  <2> QED
    BY <2>2, <2>5, <2>6, <2>7, <2>8 DEF q
<1> QED
  BY <1>2, <1>3

LEMMA RestIs ==
  ASSUME Well(Groups!Pool), calls # << >>
  PROVE  LET q == Groups!Rest
         IN  /\ Well(q) /\ Idle(q) = Idle(Groups!Pool) + 1 /\ Head(calls) \in GroupCalls
             /\ \A g : Runs(Groups!Pool, g) = Runs(q, g) + One(Head(calls).func, g)
             /\ Head(calls).func = UpFunc =>
                  /\ Head(calls).frame \in Brought(calls)
                  /\ Brought(q.calls) = Brought(calls) \ {Head(calls).frame}
             /\ Head(calls).func # UpFunc => Brought(q.calls) = Brought(calls)
<1> DEFINE p == Groups!Pool
           q == Groups!Rest
           f == Head(calls).func
<1>1. p.calls = calls /\ p.waiters = in_waiters /\ p.used = in_used
      /\ q = [calls |-> Tail(calls), waiters |-> in_waiters, used |-> in_used]
  BY DEF Groups!Rest, Groups!Pool
<1>2. calls \in Seq(GroupCalls) /\ in_waiters \in Seq(GroupWaits) /\ in_used \in Nat
      /\ WaitsRight(p) /\ BroughtOnce(calls)
  BY <1>1 DEF Well, GroupPools
<1>3. Tail(calls) \in Seq(GroupCalls) /\ Len(Tail(calls)) = Len(calls) - 1 /\ Len(calls) \in Nat
  BY <1>2
<1> HIDE DEF p, q
<1>4. q \in GroupPools /\ q.calls = Tail(calls) /\ q.waiters = p.waiters /\ q.used = p.used
  BY <1>1, <1>2, <1>3 DEF GroupPools
<1>5. /\ Head(calls) \in GroupCalls /\ BroughtOnce(q.calls)
      /\ Head(calls).func = UpFunc => /\ Head(calls).frame \in Brought(calls)
                                      /\ Brought(q.calls) = Brought(calls) \ {Head(calls).frame}
      /\ Head(calls).func # UpFunc => Brought(q.calls) = Brought(calls)
  BY <1>2, <1>4, BroughtTail
<1>6. Well(q)
  BY <1>2, <1>4, <1>5 DEF Well, WaitsRight
<1>7. Idle(q) = Idle(p) + 1
  BY <1>1, <1>2, <1>3, <1>4 DEF Idle
<1>8. ASSUME NEW g PROVE Runs(p, g) = Runs(q, g) + One(f, g)
  <2> DEFINE s == Groups!FuncsIn(calls)
             k == Groups!CountIn(Tail(s), g)
             l == Groups!CountIn(in_waiters, g)
  <2>1. s \in Seq(GroupFuncs) /\ s # << >> /\ Head(s) = f /\ Groups!FuncsIn(Tail(calls)) = Tail(s)
    BY <1>2, FuncsAre
  <2>2. Tail(s) \in Seq(GroupFuncs) /\ f \in GroupFuncs
    BY <2>1
  <2> HIDE DEF s, f
  <2>3. k \in Nat
    BY <2>2, CountAppend
  <2>4. Groups!CountIn(s, g) = k + One(f, g)
    BY <2>1, CountTail DEF One
  <2>5. ChainFunc \in GroupWaits
    BY FuncsDiffer
  <2>6. l \in Nat
    BY <1>2, <2>5, CountAppend
  <2>7. Runs(p, g) = Groups!CountIn(s, g) + l /\ Runs(q, g) = k + l
    BY <1>1, <1>4, <2>1 DEF Runs, s
  <2>8. One(f, g) \in Nat
    BY DEF One
  <2> HIDE DEF k, l
  <2> QED
    BY <2>3, <2>4, <2>6, <2>7, <2>8
<1> QED
  BY <1>5, <1>6, <1>7, <1>8 DEF p, q

\* The search for a group finds the first entry of its address.
Holding(g, a) == {i \in 1 .. Len(g) : g[i].addr = a}
PlaceIn(g, a) ==
  IF Holding(g, a) = {} THEN 0 ELSE CHOOSE i \in Holding(g, a) : \A j \in Holding(g, a) : i <= j
EndpointsIn(g, a) == IF PlaceIn(g, a) = 0 THEN << >> ELSE g[PlaceIn(g, a)].endpoints

LEMMA PlaceIsSearched ==
  \A a : /\ Groups!Place(a) = PlaceIn(groups, a) /\ Groups!Place(a)' = PlaceIn(groups', a)
         /\ Groups!EndpointsOf(a) = EndpointsIn(groups, a)
         /\ Groups!EndpointsOf(a)' = EndpointsIn(groups', a)
<1> SUFFICES ASSUME NEW a
             PROVE  /\ Groups!Place(a) = PlaceIn(groups, a) /\ Groups!Place(a)' = PlaceIn(groups', a)
                    /\ Groups!EndpointsOf(a) = EndpointsIn(groups, a)
                    /\ Groups!EndpointsOf(a)' = EndpointsIn(groups', a)
  OBVIOUS
<1>1. Groups!Place(a) = PlaceIn(groups, a) /\ Groups!Place(a)' = PlaceIn(groups', a)
  BY Zenon DEF Groups!Place, PlaceIn, Holding
<1>2. /\ Groups!EndpointsOf(a) = EndpointsIn(groups, a)
      /\ Groups!EndpointsOf(a)' = EndpointsIn(groups', a)
  BY <1>1, Zenon DEF Groups!EndpointsOf, EndpointsIn
<1> QED
  BY <1>1, <1>2

LEMMA PlaceIs ==
  ASSUME NEW g \in Seq(GroupEntries), NEW a
  PROVE  /\ Holding(g, a) = {} => PlaceIn(g, a) = 0
         /\ Holding(g, a) # {} => /\ PlaceIn(g, a) \in Holding(g, a)
                                  /\ \A j \in Holding(g, a) : PlaceIn(g, a) <= j
<1>1. ASSUME Holding(g, a) # {}
      PROVE  PlaceIn(g, a) \in Holding(g, a) /\ \A j \in Holding(g, a) : PlaceIn(g, a) <= j
  <2> DEFINE I == Holding(g, a)
  <2>1. I \subseteq Nat /\ I # {}
    BY <1>1 DEF Holding
  <2>2. PlaceIn(g, a) = CHOOSE x \in I : \A y \in I : x <= y
    BY <1>1 DEF PlaceIn
  <2> HIDE DEF I
  <2>3. \E p \in I : \A q \in I : p <= q
    <3>1. PICK p \in I : \A q \in I : <<q, p>> \notin OpToRel(<, Nat)
      BY <2>1, NatLessThanWellFounded, WFMin, Zenon
    <3>2. ASSUME NEW q \in I PROVE p <= q
      <4>1. <<q, p>> \in Nat \X Nat
        BY <2>1
      <4>2. ~ (q < p)
        BY <3>1, <4>1, Zenon DEF OpToRel
      <4>3. p \in Nat /\ q \in Nat
        BY <2>1
      <4> QED
        BY <4>2, <4>3
    <3> QED
      BY <3>2
  <2> QED
    BY <2>2, <2>3 DEF I
<1>2. Holding(g, a) = {} => PlaceIn(g, a) = 0
  BY DEF PlaceIn
<1> QED
  BY <1>1, <1>2

LEMMA EndpointsAre ==
  ASSUME NEW g \in GroupTables, NEW a
  PROVE  EndpointsIn(g, a) \in Seq(Endpoints) /\ IsInjective(EndpointsIn(g, a))
<1>1. g \in Seq(GroupEntries) /\ \A i \in 1 .. Len(g) : IsInjective(g[i].endpoints)
  BY DEF GroupTables
<1>2. \A i \in 1 .. Len(g) : g[i].endpoints \in Seq(Endpoints)
  <2>1. \A i \in 1 .. Len(g) : g[i] \in GroupEntries
    BY <1>1
  <2> QED
    BY <2>1 DEF GroupEntries
<1>3. CASE Holding(g, a) = {}
  <2>1. EndpointsIn(g, a) = << >>
    BY <1>1, <1>3, PlaceIs DEF EndpointsIn
  <2> QED
    BY <2>1 DEF IsInjective
<1>4. CASE Holding(g, a) # {}
  <2>1. PlaceIn(g, a) \in 1 .. Len(g)
    BY <1>1, <1>4, PlaceIs DEF Holding
  <2>2. PlaceIn(g, a) # 0
    BY <1>1, <2>1
  <2> QED
    BY <1>1, <1>2, <2>1, <2>2 DEF EndpointsIn
<1> QED
  BY <1>3, <1>4

\* An entry that is added behind the others is found if none was.
LEMMA EntryAppended ==
  ASSUME NEW g \in GroupTables, NEW e \in GroupEntries, Holding(g, e.addr) = {},
         IsInjective(e.endpoints)
  PROVE  /\ Append(g, e) \in GroupTables
         /\ \A b : FirstOf(EndpointsIn(g, b), EndpointsIn(Append(g, e), b))
<1> DEFINE n == Len(g)
           h == Append(g, e)
<1>1. g \in Seq(GroupEntries) /\ \A i \in 1 .. n : IsInjective(g[i].endpoints)
  BY DEF GroupTables
<1>2. h \in Seq(GroupEntries) /\ Len(h) = n + 1 /\ n \in Nat /\ DOMAIN h = 1 .. n + 1
      /\ h[n + 1] = e /\ \A i \in 1 .. n : h[i] = g[i] /\ i \in 1 .. n + 1
  BY <1>1
<1>3. \A i \in 1 .. n + 1 : i = n + 1 \/ i \in 1 .. n
  BY <1>2
<1> HIDE DEF h
<1>4. h \in GroupTables
  BY <1>1, <1>2, <1>3 DEF GroupTables
<1>5. ASSUME NEW b PROVE FirstOf(EndpointsIn(g, b), EndpointsIn(h, b))
  <2>1. CASE Holding(g, b) = {}
    <3>1. EndpointsIn(g, b) = << >>
      BY <1>1, <2>1, PlaceIs DEF EndpointsIn
    <3>2. EndpointsIn(h, b) \in Seq(Endpoints)
      BY <1>4, EndpointsAre
    <3> QED
      BY <3>1, <3>2 DEF FirstOf
  <2>2. CASE Holding(g, b) # {}
    <3>1. Holding(h, b) = Holding(g, b)
      <4>1. e.addr # b
        BY <2>2
      <4> QED
        BY <1>2, <1>3, <4>1 DEF Holding
    <3>2. PlaceIn(h, b) = PlaceIn(g, b)
      BY <3>1 DEF PlaceIn
    <3>3. PlaceIn(g, b) \in 1 .. n /\ PlaceIn(g, b) # 0
      BY <1>1, <1>2, <2>2, PlaceIs DEF Holding
    <3>4. EndpointsIn(h, b) = EndpointsIn(g, b)
      BY <1>2, <3>2, <3>3 DEF EndpointsIn
    <3>5. EndpointsIn(g, b) \in Seq(Endpoints)
      BY EndpointsAre
    <3> QED
      BY <3>4, <3>5 DEF FirstOf
  <2> QED
    BY <2>1, <2>2
<1> QED
  BY <1>4, <1>5 DEF h

\* An endpoint that is added to an entry comes behind the others.
LEMMA EndpointAppended ==
  ASSUME NEW g \in GroupTables, NEW i \in 1 .. Len(g), NEW e \in Endpoints,
         e \notin Range(g[i].endpoints)
  PROVE  LET h == [g EXCEPT ![i].endpoints = Append(@, e)]
         IN  /\ h \in GroupTables
             /\ \A b : FirstOf(EndpointsIn(g, b), EndpointsIn(h, b))
<1> DEFINE n == Len(g)
           s == g[i].endpoints
           t == Append(s, e)
           h == [g EXCEPT ![i].endpoints = Append(@, e)]
<1>1. g \in Seq(GroupEntries) /\ n \in Nat /\ \A j \in 1 .. n : IsInjective(g[j].endpoints)
  BY DEF GroupTables
<1>2. \A j \in 1 .. n : g[j] \in GroupEntries
  BY <1>1
<1>3. s \in Seq(Endpoints) /\ g[i].addr \in GroupAddrs
      /\ \A c : [g[i] EXCEPT !.endpoints = c] = [addr |-> g[i].addr, endpoints |-> c]
  BY <1>2 DEF GroupEntries
<1>4. t \in Seq(Endpoints) /\ Len(t) = Len(s) + 1 /\ Len(s) \in Nat /\ DOMAIN t = 1 .. Len(s) + 1
      /\ t[Len(s) + 1] = e /\ \A j \in 1 .. Len(s) : t[j] = s[j]
  BY <1>3
<1>5. IsInjective(t)
  <2>1. \A j \in 1 .. Len(s) + 1 : j = Len(s) + 1 \/ j \in 1 .. Len(s)
    BY <1>4
  <2>2. \A j \in 1 .. Len(s) : s[j] # e
    BY <1>3 DEF Range
  <2>3. IsInjective(s)
    BY <1>1
  <2>4. \A j, k \in 1 .. Len(s) : s[j] = s[k] => j = k
    BY <1>3, <2>3 DEF IsInjective
  <2> HIDE DEF t, s
  <2>5. ASSUME NEW j \in 1 .. Len(s) + 1, NEW k \in 1 .. Len(s) + 1, t[j] = t[k]
        PROVE  j = k
    BY <1>4, <2>1, <2>2, <2>4, <2>5
  <2> QED
    BY <1>4, <2>5 DEF IsInjective
<1>6. FirstOf(s, t)
  BY <1>4 DEF FirstOf
<1> DEFINE r == [addr |-> g[i].addr, endpoints |-> t]
<1>7. h = [g EXCEPT ![i] = r]
  BY <1>3
<1>8. r \in GroupEntries /\ r.endpoints = t /\ r.addr = g[i].addr
  BY <1>3, <1>4 DEF GroupEntries
<1> HIDE DEF t, s, r, h
<1>9. h \in Seq(GroupEntries) /\ Len(h) = n /\ DOMAIN h = 1 .. n
      /\ h[i] = r /\ \A j \in 1 .. n : j # i => h[j] = g[j]
  BY <1>1, <1>7, <1>8
<1>10. h \in GroupTables
  <2>1. \A j \in 1 .. n : IsInjective(h[j].endpoints)
    BY <1>1, <1>5, <1>8, <1>9
  <2> QED
    BY <1>9, <2>1 DEF GroupTables
<1>11. ASSUME NEW b PROVE FirstOf(EndpointsIn(g, b), EndpointsIn(h, b))
  <2>1. \A j \in 1 .. n : h[j].addr = g[j].addr
    BY <1>8, <1>9
  <2>2. Holding(h, b) = Holding(g, b)
    BY <1>9, <2>1 DEF Holding
  <2>3. PlaceIn(h, b) = PlaceIn(g, b)
    BY <2>2 DEF PlaceIn
  <2>4. EndpointsIn(g, b) \in Seq(Endpoints)
    BY EndpointsAre
  <2>5. CASE PlaceIn(g, b) = i
    <3>1. i # 0
      BY <1>1
    <3>2. EndpointsIn(g, b) = s /\ EndpointsIn(h, b) = t
      BY <1>8, <1>9, <2>3, <2>5, <3>1 DEF EndpointsIn, s
    <3> QED
      BY <1>6, <3>2
  <2>6. CASE PlaceIn(g, b) # i
    <3>1. PlaceIn(g, b) = 0 \/ PlaceIn(g, b) \in 1 .. n
      BY <1>1, PlaceIs DEF Holding
    <3>2. EndpointsIn(g, b) = EndpointsIn(h, b)
      BY <1>9, <2>3, <2>6, <3>1 DEF EndpointsIn
    <3> QED
      BY <2>4, <3>2 DEF FirstOf
  <2> QED
    BY <2>5, <2>6
<1> QED
  BY <1>10, <1>11 DEF h

\* First parts of sequences.
LEMMA FirstOfTrans ==
  ASSUME NEW S, NEW s \in Seq(S), NEW t \in Seq(S), NEW u \in Seq(S), FirstOf(s, t), FirstOf(t, u)
  PROVE  FirstOf(s, u)
<1>1. Len(s) \in Nat /\ Len(t) \in Nat /\ Len(u) \in Nat /\ Len(s) <= Len(t) /\ Len(t) <= Len(u)
  BY DEF FirstOf
<1>2. \A i \in 1 .. Len(s) : i \in 1 .. Len(t)
  BY <1>1
<1> QED
  BY <1>1, <1>2 DEF FirstOf

LEMMA FirstOfWhole ==
  ASSUME NEW S, NEW s \in Seq(S), NEW t \in Seq(S), NEW u \in Seq(S), FirstOf(s, t), FirstOf(u, t),
         ~ (Len(s) < Len(t))
  PROVE  FirstOf(u, s)
<1>1. Len(s) \in Nat /\ Len(t) \in Nat /\ Len(u) \in Nat /\ Len(s) = Len(t) /\ Len(u) <= Len(t)
  BY DEF FirstOf
<1>2. \A i \in 1 .. Len(u) : i \in 1 .. Len(s)
  BY <1>1
<1> QED
  BY <1>1, <1>2 DEF FirstOf

LEMMA FirstOfOnce ==
  ASSUME NEW S, NEW s \in Seq(S), NEW t \in Seq(S), FirstOf(s, t), IsInjective(t)
  PROVE  IsInjective(s)
<1>1. /\ Len(s) \in Nat /\ Len(t) \in Nat /\ Len(s) <= Len(t)
      /\ DOMAIN s = 1 .. Len(s) /\ DOMAIN t = 1 .. Len(t)
  BY DEF FirstOf
<1>2. \A i \in 1 .. Len(s) : i \in 1 .. Len(t)
  BY <1>1
<1> QED
  BY <1>1, <1>2 DEF FirstOf, IsInjective

LEMMA FirstOfMore ==
  ASSUME NEW S, NEW s \in Seq(S), NEW t \in Seq(S), FirstOf(s, t), Len(s) < Len(t)
  PROVE  /\ t[Len(s) + 1] \in S /\ Append(s, t[Len(s) + 1]) \in Seq(S)
         /\ FirstOf(Append(s, t[Len(s) + 1]), t)
<1> DEFINE e == t[Len(s) + 1]
           u == Append(s, e)
<1>1. Len(s) \in Nat /\ Len(t) \in Nat /\ Len(s) + 1 \in 1 .. Len(t)
  OBVIOUS
<1>2. e \in S
  BY <1>1
<1> HIDE DEF e
<1>3. u \in Seq(S) /\ Len(u) = Len(s) + 1 /\ u[Len(s) + 1] = e /\ \A i \in 1 .. Len(s) : u[i] = s[i]
  BY <1>2
<1>4. \A i \in 1 .. Len(s) + 1 : i = Len(s) + 1 \/ i \in 1 .. Len(s)
  BY <1>1
<1> HIDE DEF u
<1>5. FirstOf(u, t)
  BY <1>1, <1>3, <1>4 DEF FirstOf, e
<1> QED
  BY <1>2, <1>3, <1>5 DEF e, u

LEMMA FirstOfItself ==
  ASSUME NEW S, NEW s \in Seq(S), NEW t \in Seq(S)
  PROVE  FirstOf(s, s) /\ FirstOf(<< >>, s)
BY DEF FirstOf

\* What a step must show of the pool that it leaves.
LEMMA PoolIsThen ==
  ASSUME NEW q, q \in GroupPools, Groups!PoolIs(q)
  PROVE  Groups!Pool' = q /\ calls' = q.calls
<1>1. q = [calls |-> q.calls, waiters |-> q.waiters, used |-> q.used]
  BY DEF GroupPools
<1> QED
  BY <1>1 DEF Groups!PoolIs, Groups!Pool

LEMMA CountsAgain ==
  ASSUME NEW q, Well(q), Groups!PoolIs(q), limit' = limit,
         Idle(q) = Len(pass_up_q') + Active', Runs(q, ChainFunc) = Active',
         Runs(q, LocalFunc) = Len(local_dup_q'), Len(pass_up_q') <= UpQSize,
         active_buf' = 0 => pass_up_q' = << >>
  PROVE  GroupCounts' /\ BroughtOnce(calls') /\ Brought(calls') = Brought(q.calls)
<1>1. q \in GroupPools /\ WaitsRight(q) /\ BroughtOnce(q.calls)
  BY DEF Well
<1>2. Groups!Pool' = q /\ calls' = q.calls
  BY <1>1, PoolIsThen
<1>3. WaitsRight(Groups!Pool)'
  BY <1>1, <1>2 DEF WaitsRight
<1> QED
  BY <1>1, <1>2, <1>3 DEF GroupCounts

LEMMA PoolOfTypes ==
  ASSUME GroupTypes, GroupCounts, GroupPlaces
  PROVE  /\ Well(Groups!Pool) /\ limit \in Nat /\ Groups!Pool.calls = calls
         /\ Groups!Pool.used = in_used /\ Groups!Pool.waiters = in_waiters
         /\ Len(pass_up_q) \in Nat /\ UpQSize \in Nat /\ Active \in {0, 1}
         /\ (Active = 0) <=> (active_buf = 0)
         /\ Idle(Groups!Pool) \in Nat
<1>1. /\ Groups!Pool.calls = calls /\ Groups!Pool.used = in_used
      /\ Groups!Pool.waiters = in_waiters
  BY DEF Groups!Pool
<1>2. UpQSize \in Nat
  BY Assumptions DEF Groups!GroupsAssumption
<1>3. Well(Groups!Pool)
  BY <1>1 DEF Well, GroupCounts, GroupPlaces
<1>4. limit \in Nat /\ Len(pass_up_q) \in Nat
  BY DEF GroupTypes
<1>5. Active \in {0, 1} /\ ((Active = 0) <=> (active_buf = 0))
  BY DEF Active
<1>6. Idle(Groups!Pool) \in Nat
  BY <1>4, <1>5 DEF GroupCounts
<1> QED
  BY <1>1, <1>2, <1>3, <1>4, <1>5, <1>6

\* The group table grows, and what was passed and due stays the first part of a group.
LEMMA AddGroupOK ==
  ASSUME GroupsInv, NEW a \in GroupAddrs, NEW ep \in Endpoints, Groups!AddGroup(a, ep)
  PROVE  GroupsInv'
<1> DEFINE i == PlaceIn(groups, a)
<1>1. GroupTypes /\ GroupCounts /\ GroupPlaces /\ GroupPassed /\ groups \in GroupTables
  BY DEF GroupsInv, GroupTypes
<1>2. UNCHANGED <<local_dup_q, pass_up_q, active_buf, handle, calls, in_waiters, in_used, limit,
                  group_of, stage, due, passed>>
  BY DEF Groups!AddGroup
<1>3. \/ groups' = groups
      \/ /\ i # 0 /\ ep \notin Groups!Range(groups[i].endpoints)
         /\ groups' = [groups EXCEPT ![i].endpoints = Append(@, ep)]
      \/ i = 0 /\ groups' = Append(groups, [addr |-> a, endpoints |-> <<ep>>])
  <2>1. i = Groups!Place(a)
    BY PlaceIsSearched
  <2> HIDE DEF i
  <2> QED
    BY <2>1 DEF Groups!AddGroup
<1>4. groups' \in GroupTables /\ \A b : FirstOf(EndpointsIn(groups, b), EndpointsIn(groups', b))
  <2>1. CASE groups' = groups
    <3>1. \A b : EndpointsIn(groups, b) \in Seq(Endpoints)
      BY <1>1, EndpointsAre
    <3> QED
      BY <1>1, <2>1, <3>1, FirstOfItself
  <2>2. CASE /\ i # 0 /\ ep \notin Groups!Range(groups[i].endpoints)
             /\ groups' = [groups EXCEPT ![i].endpoints = Append(@, ep)]
    <3>1. groups \in Seq(GroupEntries)
      BY <1>1 DEF GroupTables
    <3>2. i \in 1 .. Len(groups)
      BY <2>2, <3>1, PlaceIs DEF Holding
    <3> HIDE DEF i
    <3>3. groups[i] \in GroupEntries
      BY <3>1, <3>2
    <3>4. groups[i].endpoints \in Seq(Endpoints)
      BY <3>3 DEF GroupEntries
    <3>5. ep \notin Range(groups[i].endpoints)
      BY <2>2 DEF Groups!Range, Range
    <3> QED
      BY <1>1, <2>2, <3>2, <3>5, EndpointAppended
  <2>3. CASE i = 0 /\ groups' = Append(groups, [addr |-> a, endpoints |-> <<ep>>])
    <3> DEFINE e == [addr |-> a, endpoints |-> <<ep>>]
    <3>1. groups \in Seq(GroupEntries)
      BY <1>1 DEF GroupTables
    <3>2. \A k \in Holding(groups, a) : k # 0
      BY <3>1 DEF Holding
    <3>3. Holding(groups, a) = {}
      BY <2>3, <3>1, <3>2, PlaceIs
    <3>4. e \in GroupEntries /\ e.addr = a /\ e.endpoints = <<ep>>
      BY DEF GroupEntries
    <3>5. IsInjective(<<ep>>)
      BY DEF IsInjective
    <3> HIDE DEF e
    <3>6. groups' = Append(groups, e)
      BY <2>3 DEF e
    <3> QED
      BY <1>1, <3>3, <3>4, <3>5, <3>6, EntryAppended
  <2> QED
    BY <1>3, <2>1, <2>2, <2>3
<1> HIDE DEF i
<1>5. GroupTypes'
  BY <1>1, <1>2, <1>4 DEF GroupTypes
<1>6. GroupCounts'
  BY <1>1, <1>2 DEF GroupCounts, Groups!Pool, WaitsRight, Active
<1>7. GroupPlaces'
  BY <1>1, <1>2 DEF GroupPlaces, Waiting
<1>8. GroupPassed'
  <2> SUFFICES ASSUME NEW m \in 1 .. Len(group_of)
               PROVE  /\ FirstOf(passed[m], EndpointsIn(groups', group_of[m]))
                      /\ FirstOf(due[m], EndpointsIn(groups', group_of[m]))
                      /\ stage[m] = "done" => FirstOf(due[m], passed[m])
    BY <1>2, PlaceIsSearched DEF GroupPassed
  <2>1. passed[m] \in Seq(Endpoints) /\ due[m] \in Seq(Endpoints)
    BY <1>1 DEF GroupTypes
  <2> DEFINE s == EndpointsIn(groups, group_of[m])
             t == EndpointsIn(groups', group_of[m])
  <2>2. s \in Seq(Endpoints) /\ t \in Seq(Endpoints) /\ FirstOf(s, t)
    BY <1>1, <1>4, EndpointsAre
  <2>3. FirstOf(passed[m], s) /\ FirstOf(due[m], s) /\ (stage[m] = "done" => FirstOf(due[m], passed[m]))
    BY <1>1, PlaceIsSearched DEF GroupPassed
  <2> HIDE DEF s, t
  <2>4. FirstOf(passed[m], t) /\ FirstOf(due[m], t)
    BY <2>1, <2>2, <2>3, FirstOfTrans
  <2> QED
    BY <2>3, <2>4 DEF t
<1> QED
  BY <1>5, <1>6, <1>7, <1>8 DEF GroupsInv

\* A new frame: nothing of it was passed, and its group's endpoints are due.
LEMMA CameOK ==
  ASSUME GroupTypes, GroupPassed, NEW a \in GroupAddrs, NEW is \in {"here", "dropped"},
         Groups!Came(a, is), groups' = groups
  PROVE  LET n == Len(group_of)
         IN  /\ n \in Nat /\ Groups!Newest = n + 1
             /\ group_of' \in Seq(GroupAddrs) /\ stage' \in Seq(Stages)
             /\ due' \in Seq(Seq(Endpoints)) /\ passed' \in Seq(Seq(Endpoints))
             /\ Len(group_of') = n + 1 /\ Len(stage') = n + 1 /\ Len(due') = n + 1 /\ Len(passed') = n + 1
             /\ \A m \in 1 .. n : stage'[m] = stage[m] /\ passed'[m] = passed[m]
             /\ stage'[n + 1] = is /\ passed'[n + 1] = << >>
             /\ GroupPassed'
<1> DEFINE n == Len(group_of)
           s == EndpointsIn(groups, a)
<1>1. n \in Nat /\ Groups!Newest = n + 1 /\ Len(stage) = n /\ Len(due) = n /\ Len(passed) = n
      /\ group_of \in Seq(GroupAddrs) /\ stage \in Seq(Stages)
      /\ due \in Seq(Seq(Endpoints)) /\ passed \in Seq(Seq(Endpoints)) /\ groups \in GroupTables
  BY DEF GroupTypes, Groups!Newest
<1>2. s \in Seq(Endpoints) /\ s = Groups!EndpointsOf(a)
  BY <1>1, EndpointsAre, PlaceIsSearched
<1>3. is \in Stages /\ is # "done" /\ << >> \in Seq(Endpoints)
  BY DEF Stages
<1> HIDE DEF s
<1>4. /\ group_of' = Append(group_of, a) /\ stage' = Append(stage, is)
      /\ passed' = Append(passed, << >>) /\ due' = Append(due, s)
  BY <1>2 DEF Groups!Came
<1>5. /\ group_of' \in Seq(GroupAddrs) /\ stage' \in Seq(Stages)
      /\ due' \in Seq(Seq(Endpoints)) /\ passed' \in Seq(Seq(Endpoints))
  BY <1>1, <1>2, <1>3, <1>4
<1>6. Len(group_of') = n + 1 /\ Len(stage') = n + 1 /\ Len(due') = n + 1 /\ Len(passed') = n + 1
  BY <1>1, <1>4
<1>7. \A m \in 1 .. n : /\ stage'[m] = stage[m] /\ passed'[m] = passed[m] /\ due'[m] = due[m]
                        /\ group_of'[m] = group_of[m]
  BY <1>1, <1>4
<1>8. /\ stage'[n + 1] = is /\ passed'[n + 1] = << >> /\ due'[n + 1] = s
      /\ group_of'[n + 1] = a
  BY <1>1, <1>4
<1> HIDE DEF n
<1>9. ASSUME NEW m \in 1 .. n + 1
      PROVE  /\ FirstOf(passed'[m], EndpointsIn(groups, group_of'[m]))
             /\ FirstOf(due'[m], EndpointsIn(groups, group_of'[m]))
             /\ stage'[m] = "done" => FirstOf(due'[m], passed'[m])
  <2>1. CASE m \in 1 .. n
    <3>1. /\ FirstOf(passed[m], EndpointsIn(groups, group_of[m]))
          /\ FirstOf(due[m], EndpointsIn(groups, group_of[m]))
          /\ stage[m] = "done" => FirstOf(due[m], passed[m])
      BY <2>1, PlaceIsSearched DEF GroupPassed, n
    <3> QED
      BY <1>7, <2>1, <3>1
  <2>2. CASE m = n + 1
    <3>1. FirstOf(<< >>, s) /\ FirstOf(s, s)
      BY <1>2, FirstOfItself
    <3>2. EndpointsIn(groups, group_of'[m]) = s
      BY <1>8, <2>2 DEF s
    <3> QED
      BY <1>3, <1>8, <2>2, <3>1, <3>2
  <2> QED
    BY <1>1, <2>1, <2>2
<1>10. GroupPassed'
  BY <1>6, <1>9, PlaceIsSearched DEF GroupPassed
<1> QED
  BY <1>1, <1>5, <1>6, <1>7, <1>8, <1>10 DEF n

\* A frame that nothing has to do with is new to all places.
LEMMA NewFrame ==
  ASSUME GroupTypes, GroupPlaces
  PROVE  Len(group_of) + 1 \notin Waiting /\ active_buf # Len(group_of) + 1
<1>1. Len(group_of) \in Nat /\ active_buf \in Nat
  BY DEF GroupTypes
<1>2. Waiting \subseteq 1 .. Len(group_of)
      /\ (active_buf # 0 => active_buf \in 1 .. Len(group_of))
  BY DEF GroupPlaces
<1> QED
  BY <1>1, <1>2

\* A step that leaves the histories alone and moves at most frames that wait.
LEMMA PlacesMoved ==
  ASSUME GroupPlaces, group_of' = group_of, passed' = passed, UNCHANGED <<active_buf, handle>>,
         IsInjective(local_dup_q'), IsInjective(pass_up_q'), BroughtOnce(calls'),
         Range(local_dup_q') \cap Brought(calls') = {},
         Range(local_dup_q') \cap Range(pass_up_q') = {},
         Brought(calls') \cap Range(pass_up_q') = {}, Waiting' \subseteq Waiting,
         \A m \in Waiting' : stage'[m] = stage[m],
         active_buf # 0 => stage'[active_buf] = stage[active_buf]
  PROVE  GroupPlaces'
BY DEF GroupPlaces

LEMMA ReceiveOK ==
  ASSUME GroupsInv, NEW a \in GroupAddrs, Groups!Receive(a)
  PROVE  GroupsInv'
<1> DEFINE n == Len(group_of)
           p == [Groups!Pool EXCEPT !.used = @ + 1]
           q == Groups!Scheduled(p, Groups!Call(UpFunc, n + 1))
<1>1. GroupTypes /\ GroupCounts /\ GroupPlaces /\ GroupPassed
  BY DEF GroupsInv
<1>2. /\ Well(Groups!Pool) /\ limit \in Nat /\ Groups!Pool.calls = calls
      /\ Groups!Pool.used = in_used /\ Groups!Pool.waiters = in_waiters
      /\ Active \in {0, 1} /\ Idle(Groups!Pool) \in Nat
  BY <1>1, PoolOfTypes
<1>3. /\ in_used < limit /\ Groups!Came(a, "here")
      /\ UNCHANGED <<groups, adds, local_dup_q, pass_up_q, active_buf, handle, limit>>
  BY DEF Groups!Receive, Groups!tableVars
<1>4. /\ n \in Nat /\ Groups!Newest = n + 1
      /\ group_of' \in Seq(GroupAddrs) /\ stage' \in Seq(Stages)
      /\ due' \in Seq(Seq(Endpoints)) /\ passed' \in Seq(Seq(Endpoints))
      /\ Len(group_of') = n + 1 /\ Len(stage') = n + 1 /\ Len(due') = n + 1 /\ Len(passed') = n + 1
      /\ \A m \in 1 .. n : stage'[m] = stage[m] /\ passed'[m] = passed[m]
      /\ stage'[n + 1] = "here" /\ passed'[n + 1] = << >>
      /\ GroupPassed'
  BY <1>1, <1>3, CameOK
<1>5. Groups!PoolIs(q)
  BY <1>4 DEF Groups!Receive, UpFunc
<1>6. n + 1 \notin Waiting /\ active_buf # n + 1
  BY <1>1, NewFrame
<1>7. /\ p \in GroupPools /\ p.calls = calls /\ p.waiters = in_waiters /\ p.used = in_used + 1
      /\ in_used \in Nat
  BY <1>2 DEF Well, GroupPools
<1> HIDE DEF p
<1>8. Well(p) /\ Idle(p) = Idle(Groups!Pool) + 1
  <2>1. in_waiters = << >>
    BY <1>2, <1>3, <1>7 DEF Well, WaitsRight
  <2>2. Well(p)
    BY <1>2, <1>3, <1>7, <2>1 DEF Well, WaitsRight
  <2>3. calls \in Seq(GroupCalls)
    BY <1>2 DEF Well, GroupPools
  <2> QED
    BY <1>2, <1>7, <2>2, <2>3 DEF Idle
<1>9. \A g : Runs(p, g) = Runs(Groups!Pool, g) /\ Runs(p, g) \in Nat
  BY <1>2, <1>7, RunsIsNat DEF Runs
<1>10. n + 1 \in Nat /\ UpFunc \in GroupFuncs
  BY <1>4, FuncsDiffer
<1>11. /\ Well(q) /\ Idle(q) = Idle(p) - 1 /\ Brought(q.calls) = Brought(p.calls) \cup {n + 1}
       /\ \A g : Runs(q, g) = Runs(p, g) + One(UpFunc, g)
  <2>1. n + 1 \notin Brought(p.calls)
    BY <1>6, <1>7 DEF Waiting
  <2> QED
    BY <1>8, <1>10, <2>1, BringsIs
<1> HIDE DEF q
<1>12. Well(q) /\ Idle(q) = Idle(Groups!Pool) /\ Brought(q.calls) = Brought(calls) \cup {n + 1}
  BY <1>2, <1>7, <1>8, <1>11
<1>13. Runs(q, ChainFunc) = Active /\ Runs(q, LocalFunc) = Len(local_dup_q)
  <2>1. One(UpFunc, ChainFunc) = 0 /\ One(UpFunc, LocalFunc) = 0
    BY FuncsDiffer DEF One
  <2> QED
    BY <1>1, <1>9, <1>11, <2>1 DEF GroupCounts
<1>14. Active' = Active
  BY <1>3 DEF Active
<1>15. GroupCounts' /\ BroughtOnce(calls') /\ Brought(calls') = Brought(calls) \cup {n + 1}
  <2>1. /\ Idle(q) = Len(pass_up_q') + Active' /\ Runs(q, ChainFunc) = Active'
        /\ Runs(q, LocalFunc) = Len(local_dup_q') /\ Len(pass_up_q') <= UpQSize
        /\ (active_buf' = 0 => pass_up_q' = << >>)
    BY <1>1, <1>3, <1>12, <1>13, <1>14 DEF GroupCounts
  <2> QED
    BY <1>3, <1>5, <1>12, <2>1, CountsAgain
<1>16. GroupTypes'
  BY <1>1, <1>3, <1>4 DEF GroupTypes
<1>17. Waiting' = Waiting \cup {n + 1}
  BY <1>3, <1>15 DEF Waiting
<1> HIDE DEF n
<1>18. 1 .. n \subseteq 1 .. n + 1 /\ n + 1 \in 1 .. n + 1
  BY <1>4
<1>19. GroupPlaces'
  <2>1. /\ IsInjective(local_dup_q') /\ IsInjective(pass_up_q')
        /\ Range(local_dup_q') \cap Brought(calls') = {}
        /\ Range(local_dup_q') \cap Range(pass_up_q') = {}
        /\ Brought(calls') \cap Range(pass_up_q') = {}
    BY <1>1, <1>3, <1>6, <1>15 DEF GroupPlaces, Waiting
  <2>2. Waiting \subseteq 1 .. n
    BY <1>1 DEF GroupPlaces, n
  <2>3. Waiting' \subseteq 1 .. Len(group_of') /\ active_buf' \notin Waiting'
    BY <1>1, <1>3, <1>4, <1>6, <1>17, <1>18, <2>2 DEF GroupPlaces
  <2>4. ASSUME NEW m \in Waiting' PROVE stage'[m] = "here" /\ passed'[m] = << >>
    <3>1. CASE m = n + 1
      BY <1>4, <3>1
    <3>2. CASE m \in Waiting
      <4>1. m \in 1 .. n /\ stage[m] = "here" /\ passed[m] = << >>
        BY <1>1, <2>2, <3>2 DEF GroupPlaces
      <4> QED
        BY <1>4, <4>1
    <3> QED
      BY <1>17, <3>1, <3>2
  <2>5. ASSUME active_buf' # 0
        PROVE  /\ active_buf' \in 1 .. Len(group_of') /\ stage'[active_buf'] = "here"
               /\ handle' = Len(passed'[active_buf'])
    <3>1. /\ active_buf \in 1 .. n /\ stage[active_buf] = "here"
          /\ handle = Len(passed[active_buf])
      BY <1>1, <1>3, <2>5 DEF GroupPlaces, n
    <3>2. active_buf \in 1 .. Len(group_of')
      BY <1>4, <1>18, <3>1
    <3> QED
      BY <1>3, <1>4, <3>1, <3>2
  <2> QED
    BY <1>15, <2>1, <2>3, <2>4, <2>5 DEF GroupPlaces
<1> QED
  BY <1>4, <1>15, <1>16, <1>19 DEF GroupsInv

LEMMA DataRequestOK ==
  ASSUME GroupsInv, NEW a \in GroupAddrs, Groups!DataRequest(a)
  PROVE  GroupsInv'
<1> DEFINE n == Len(group_of)
           q == Groups!Wanted(Groups!Pool, LocalFunc)
<1>1. GroupTypes /\ GroupCounts /\ GroupPlaces /\ GroupPassed
  BY DEF GroupsInv
<1>2. /\ Well(Groups!Pool) /\ limit \in Nat /\ Groups!Pool.calls = calls
      /\ Active \in {0, 1} /\ Idle(Groups!Pool) \in Nat
  BY <1>1, PoolOfTypes
<1>3. UNCHANGED <<groups, adds, pass_up_q, active_buf, handle, limit>> /\ Active' = Active
  BY DEF Groups!DataRequest, Groups!tableVars, Active
<1>4. n + 1 \notin Waiting /\ active_buf # n + 1
  BY <1>1, NewFrame
<1>5. PICK is \in {"here", "dropped"} :
        /\ Groups!Came(a, is)
        /\ \/ /\ is = "here" /\ local_dup_q' = Append(local_dup_q, Groups!Newest)
              /\ Groups!PoolIs(q)
           \/ UNCHANGED <<local_dup_q, calls, in_waiters, in_used>>
  BY DEF Groups!DataRequest, LocalFunc
<1>6. /\ n \in Nat /\ Groups!Newest = n + 1
      /\ group_of' \in Seq(GroupAddrs) /\ stage' \in Seq(Stages)
      /\ due' \in Seq(Seq(Endpoints)) /\ passed' \in Seq(Seq(Endpoints))
      /\ Len(group_of') = n + 1 /\ Len(stage') = n + 1 /\ Len(due') = n + 1 /\ Len(passed') = n + 1
      /\ \A m \in 1 .. n : stage'[m] = stage[m] /\ passed'[m] = passed[m]
      /\ stage'[n + 1] = is /\ passed'[n + 1] = << >>
      /\ GroupPassed'
  BY <1>1, <1>3, <1>5, CameOK
<1>7. LocalFunc \in GroupWaits /\ LocalFunc # ChainFunc
  BY FuncsDiffer
<1>8. /\ Well(q) /\ Idle(q) = Idle(Groups!Pool) /\ Brought(q.calls) = Brought(Groups!Pool.calls)
      /\ \A g : Runs(q, g) = Runs(Groups!Pool, g) + One(LocalFunc, g)
  BY <1>2, <1>7, WantedIs
<1> HIDE DEF q
<1>9. /\ GroupCounts' /\ BroughtOnce(calls') /\ Brought(calls') = Brought(calls)
      /\ local_dup_q' \in Seq(Nat) /\ IsInjective(local_dup_q')
      /\ \/ is = "here" /\ Range(local_dup_q') = Range(local_dup_q) \cup {n + 1}
         \/ Range(local_dup_q') = Range(local_dup_q)
  <2>1. CASE /\ is = "here" /\ local_dup_q' = Append(local_dup_q, Groups!Newest)
             /\ Groups!PoolIs(q)
    <3>1. local_dup_q \in Seq(Nat) /\ IsInjective(local_dup_q) /\ n + 1 \in Nat
          /\ n + 1 \notin Range(local_dup_q)
      BY <1>1, <1>4, <1>6 DEF GroupTypes, GroupPlaces, Waiting
    <3>2. local_dup_q' = Append(local_dup_q, n + 1)
      BY <1>6, <2>1
    <3> HIDE DEF n
    <3>3. local_dup_q' \in Seq(Nat) /\ IsInjective(local_dup_q')
          /\ Range(local_dup_q') = Range(local_dup_q) \cup {n + 1}
          /\ Len(local_dup_q') = Len(local_dup_q) + 1
      BY <3>1, <3>2, AppendOnce
    <3>4. Runs(q, ChainFunc) = Active /\ Runs(q, LocalFunc) = Len(local_dup_q')
      <4>1. One(LocalFunc, ChainFunc) = 0 /\ One(LocalFunc, LocalFunc) = 1
        BY <1>7 DEF One
      <4>2. Runs(Groups!Pool, ChainFunc) = Active /\ Runs(Groups!Pool, LocalFunc) = Len(local_dup_q)
        BY <1>1 DEF GroupCounts
      <4> QED
        BY <1>2, <1>8, <3>3, <4>1, <4>2
    <3>5. /\ Idle(q) = Len(pass_up_q') + Active' /\ Runs(q, ChainFunc) = Active'
          /\ Runs(q, LocalFunc) = Len(local_dup_q') /\ Len(pass_up_q') <= UpQSize
          /\ (active_buf' = 0 => pass_up_q' = << >>)
      BY <1>1, <1>3, <1>8, <3>4 DEF GroupCounts
    <3>6. GroupCounts' /\ BroughtOnce(calls') /\ Brought(calls') = Brought(q.calls)
      BY <1>3, <1>8, <2>1, <3>5, CountsAgain
    <3> QED
      BY <1>2, <1>8, <2>1, <3>3, <3>6
  <2>2. CASE UNCHANGED <<local_dup_q, calls, in_waiters, in_used>>
    <3>1. GroupCounts'
      BY <1>1, <1>3, <2>2 DEF GroupCounts, Groups!Pool, WaitsRight
    <3> QED
      BY <1>1, <2>2, <3>1 DEF GroupTypes, GroupPlaces
  <2> QED
    BY <1>5, <2>1, <2>2
<1>10. GroupTypes'
  BY <1>1, <1>3, <1>6, <1>9 DEF GroupTypes
<1>11. Waiting' \subseteq Waiting \cup {x \in {n + 1} : is = "here"}
  BY <1>3, <1>9 DEF Waiting
<1>12. Waiting \subseteq 1 .. n
  BY <1>1 DEF GroupPlaces
<1> HIDE DEF n
<1>13. 1 .. n \subseteq 1 .. n + 1 /\ n + 1 \in 1 .. n + 1
  BY <1>6
<1>14. GroupPlaces'
  <2>1. /\ IsInjective(pass_up_q')
        /\ Range(local_dup_q') \cap Brought(calls') = {}
        /\ Range(local_dup_q') \cap Range(pass_up_q') = {}
        /\ Brought(calls') \cap Range(pass_up_q') = {}
    BY <1>1, <1>3, <1>4, <1>9 DEF GroupPlaces, Waiting
  <2>2. Waiting' \subseteq 1 .. Len(group_of') /\ active_buf' \notin Waiting'
    BY <1>1, <1>3, <1>4, <1>6, <1>11, <1>12, <1>13 DEF GroupPlaces
  <2>3. ASSUME NEW m \in Waiting' PROVE stage'[m] = "here" /\ passed'[m] = << >>
    <3>1. CASE m = n + 1 /\ is = "here"
      BY <1>6, <3>1
    <3>2. CASE m \in Waiting
      <4>1. m \in 1 .. n /\ stage[m] = "here" /\ passed[m] = << >>
        BY <1>1, <1>12, <3>2 DEF GroupPlaces
      <4> QED
        BY <1>6, <4>1
    <3> QED
      BY <1>11, <3>1, <3>2
  <2>4. ASSUME active_buf' # 0
        PROVE  /\ active_buf' \in 1 .. Len(group_of') /\ stage'[active_buf'] = "here"
               /\ handle' = Len(passed'[active_buf'])
    <3>1. /\ active_buf \in 1 .. n /\ stage[active_buf] = "here"
          /\ handle = Len(passed[active_buf])
      BY <1>1, <1>3, <2>4 DEF GroupPlaces, n
    <3>2. active_buf \in 1 .. Len(group_of')
      BY <1>6, <1>13, <3>1
    <3> QED
      BY <1>3, <1>6, <3>1, <3>2
  <2> QED
    BY <1>9, <2>1, <2>2, <2>3, <2>4 DEF GroupPlaces
<1> QED
  BY <1>6, <1>9, <1>10, <1>14 DEF GroupsInv

\* The copy of a frame goes from the queue of the copies into a call.
LEMMA PassLocalUpOK ==
  ASSUME GroupsInv, Groups!PassLocalUp
  PROVE  GroupsInv'
<1> DEFINE p == Groups!Rest
           m == Head(local_dup_q)
           q == Groups!Scheduled(p, Groups!Call(UpFunc, m))
<1>1. GroupTypes /\ GroupCounts /\ GroupPlaces /\ GroupPassed
  BY DEF GroupsInv
<1>2. /\ Well(Groups!Pool) /\ limit \in Nat /\ Groups!Pool.calls = calls
      /\ Active \in {0, 1} /\ Idle(Groups!Pool) \in Nat
  BY <1>1, PoolOfTypes
<1>3. /\ calls # << >> /\ Head(calls).func = LocalFunc /\ local_dup_q # << >>
      /\ local_dup_q' = Tail(local_dup_q) /\ Groups!PoolIs(q)
      /\ UNCHANGED <<groups, adds, pass_up_q, active_buf, handle, limit, group_of, stage, due, passed>>
  BY DEF Groups!PassLocalUp, Groups!Called, Groups!tableVars, LocalFunc, UpFunc
<1>4. local_dup_q \in Seq(Nat) /\ IsInjective(local_dup_q)
  BY <1>1 DEF GroupTypes, GroupPlaces
<1>5. /\ m \in Nat /\ m \in Range(local_dup_q) /\ local_dup_q' \in Seq(Nat)
      /\ IsInjective(local_dup_q') /\ Range(local_dup_q') = Range(local_dup_q) \ {m}
      /\ Len(local_dup_q') = Len(local_dup_q) - 1 /\ Len(local_dup_q) \in Nat
  BY <1>3, <1>4, TailOnce
<1>6. LocalFunc # UpFunc /\ LocalFunc # ChainFunc /\ UpFunc # ChainFunc /\ UpFunc \in GroupFuncs
  BY FuncsDiffer
<1>7. /\ Well(p) /\ Idle(p) = Idle(Groups!Pool) + 1 /\ Brought(p.calls) = Brought(calls)
      /\ \A g : Runs(Groups!Pool, g) = Runs(p, g) + One(LocalFunc, g)
  BY <1>2, <1>3, <1>6, RestIs
<1> HIDE DEF p, m
<1>8. p \in GroupPools
  BY <1>7 DEF Well
<1>9. m \notin Brought(calls) /\ m \notin Range(pass_up_q)
  BY <1>1, <1>5 DEF GroupPlaces
<1>10. /\ Well(q) /\ Idle(q) = Idle(p) - 1 /\ Brought(q.calls) = Brought(p.calls) \cup {m}
       /\ \A g : Runs(q, g) = Runs(p, g) + One(UpFunc, g)
  BY <1>5, <1>7, <1>9, BringsIs
<1> HIDE DEF q
<1>11. Well(q) /\ Idle(q) = Idle(Groups!Pool) /\ Brought(q.calls) = Brought(calls) \cup {m}
  BY <1>2, <1>7, <1>10
<1>12. Runs(q, ChainFunc) = Active /\ Runs(q, LocalFunc) = Len(local_dup_q')
  <2>1. /\ One(UpFunc, ChainFunc) = 0 /\ One(UpFunc, LocalFunc) = 0
        /\ One(LocalFunc, ChainFunc) = 0 /\ One(LocalFunc, LocalFunc) = 1
    BY <1>6 DEF One
  <2>2. Runs(Groups!Pool, ChainFunc) = Active /\ Runs(Groups!Pool, LocalFunc) = Len(local_dup_q)
    BY <1>1 DEF GroupCounts
  <2>3. Runs(p, ChainFunc) \in Nat /\ Runs(p, LocalFunc) \in Nat
    BY <1>8, RunsIsNat
  <2> QED
    BY <1>2, <1>5, <1>7, <1>10, <2>1, <2>2, <2>3
<1>13. Active' = Active
  BY <1>3 DEF Active
<1>14. GroupCounts' /\ BroughtOnce(calls') /\ Brought(calls') = Brought(calls) \cup {m}
  <2>1. /\ Idle(q) = Len(pass_up_q') + Active' /\ Runs(q, ChainFunc) = Active'
        /\ Runs(q, LocalFunc) = Len(local_dup_q') /\ Len(pass_up_q') <= UpQSize
        /\ (active_buf' = 0 => pass_up_q' = << >>)
    BY <1>1, <1>3, <1>11, <1>12, <1>13 DEF GroupCounts
  <2> QED
    BY <1>3, <1>11, <2>1, CountsAgain
<1>15. GroupTypes'
  BY <1>1, <1>3, <1>5 DEF GroupTypes
<1>16. GroupPlaces'
  <2>1. Waiting' = Waiting
    BY <1>3, <1>5, <1>14 DEF Waiting
  <2>2. /\ IsInjective(pass_up_q') /\ Range(local_dup_q') \cap Brought(calls') = {}
        /\ Range(local_dup_q') \cap Range(pass_up_q') = {}
        /\ Brought(calls') \cap Range(pass_up_q') = {}
    BY <1>1, <1>3, <1>5, <1>9, <1>14 DEF GroupPlaces
  <2> QED
    BY <1>1, <1>3, <1>5, <1>14, <2>1, <2>2, PlacesMoved
<1>17. GroupPassed'
  BY <1>1, <1>3, PlaceIsSearched DEF GroupPassed
<1> QED
  BY <1>14, <1>15, <1>16, <1>17 DEF GroupsInv

\* A frame comes to the queue: it is dropped, becomes the active one, or waits.
LEMMA PassUpOK ==
  ASSUME GroupsInv, Groups!PassUpGroupBuf
  PROVE  GroupsInv'
<1> DEFINE p == Groups!Rest
           m == Head(calls).frame
<1>1. GroupTypes /\ GroupCounts /\ GroupPlaces /\ GroupPassed
  BY DEF GroupsInv
<1>2. /\ Well(Groups!Pool) /\ limit \in Nat /\ Groups!Pool.calls = calls
      /\ Len(pass_up_q) \in Nat /\ UpQSize \in Nat
      /\ Active \in {0, 1} /\ Idle(Groups!Pool) \in Nat /\ ((Active = 0) <=> (active_buf = 0))
  BY <1>1, PoolOfTypes
<1>3. /\ calls # << >> /\ Head(calls).func = UpFunc
      /\ UNCHANGED <<groups, adds, local_dup_q, limit, group_of, due, passed>>
      /\ \/ /\ stage' = [stage EXCEPT ![m] = "dropped"] /\ Groups!PoolIs(Groups!Freed(p))
            /\ UNCHANGED <<active_buf, handle, pass_up_q>>
         \/ /\ Len(pass_up_q) # UpQSize /\ active_buf = 0 /\ active_buf' = m /\ handle' = 0
            /\ UNCHANGED <<pass_up_q, stage>> /\ Groups!PoolIs(Groups!Wanted(p, ChainFunc))
         \/ /\ Len(pass_up_q) # UpQSize /\ active_buf # 0 /\ pass_up_q' = Append(pass_up_q, m)
            /\ UNCHANGED <<active_buf, handle, stage>> /\ Groups!PoolIs(p)
  BY DEF Groups!PassUpGroupBuf, Groups!Called, Groups!tableVars, Groups!NoFrame, UpFunc, ChainFunc
<1>4. UpFunc # LocalFunc /\ UpFunc # ChainFunc /\ ChainFunc \in GroupWaits /\ ChainFunc # LocalFunc
  BY FuncsDiffer
<1>5. /\ Well(p) /\ Idle(p) = Idle(Groups!Pool) + 1
      /\ \A g : Runs(Groups!Pool, g) = Runs(p, g) + One(UpFunc, g)
      /\ m \in Brought(calls) /\ Brought(p.calls) = Brought(calls) \ {m}
  BY <1>2, <1>3, RestIs
<1> HIDE DEF p, m
<1>6. Runs(p, ChainFunc) = Active /\ Runs(p, LocalFunc) = Len(local_dup_q)
  <2>1. One(UpFunc, ChainFunc) = 0 /\ One(UpFunc, LocalFunc) = 0
    BY <1>4 DEF One
  <2>2. Runs(p, ChainFunc) \in Nat /\ Runs(p, LocalFunc) \in Nat
    BY <1>5, RunsIsNat DEF Well
  <2> QED
    BY <1>1, <1>5, <2>1, <2>2 DEF GroupCounts
<1>7. Idle(Groups!Pool) = Len(pass_up_q) + Active /\ Len(pass_up_q) <= UpQSize
      /\ (active_buf = 0 => pass_up_q = << >>)
  BY <1>1 DEF GroupCounts
<1>8. /\ m \in Waiting /\ m \in 1 .. Len(group_of) /\ m # active_buf
      /\ m \notin Range(local_dup_q) /\ m \notin Range(pass_up_q)
      /\ stage[m] = "here" /\ passed[m] = << >>
  BY <1>1, <1>5 DEF GroupPlaces, Waiting
<1>9. m \in Nat /\ m # 0
  <2>1. Len(group_of) \in Nat
    BY <1>1 DEF GroupTypes
  <2>2. m \in 1 .. Len(group_of)
    BY <1>8
  <2> QED
    BY <2>1, <2>2
<1>10. CASE /\ stage' = [stage EXCEPT ![m] = "dropped"] /\ Groups!PoolIs(Groups!Freed(p))
            /\ UNCHANGED <<active_buf, handle, pass_up_q>>
  <2> DEFINE q == Groups!Freed(p)
  <2>1. Idle(p) > 0
    BY <1>2, <1>5
  <2>2. /\ Well(q) /\ Idle(q) = Idle(p) - 1 /\ Brought(q.calls) = Brought(p.calls)
        /\ \A g : Runs(q, g) = Runs(p, g)
    BY <1>2, <1>5, <2>1, FreedIs
  <2>3. Groups!PoolIs(q)
    BY <1>10
  <2> HIDE DEF q
  <2>4. Active' = Active
    BY <1>10 DEF Active
  <2>5. /\ Idle(q) = Len(pass_up_q') + Active' /\ Runs(q, ChainFunc) = Active'
        /\ Runs(q, LocalFunc) = Len(local_dup_q') /\ Len(pass_up_q') <= UpQSize
        /\ (active_buf' = 0 => pass_up_q' = << >>)
    BY <1>2, <1>3, <1>5, <1>6, <1>7, <1>10, <2>2, <2>4
  <2>6. GroupCounts' /\ BroughtOnce(calls') /\ Brought(calls') = Brought(calls) \ {m}
    BY <1>3, <1>5, <2>2, <2>3, <2>5, CountsAgain
  <2>7. stage \in Seq(Stages) /\ Len(stage) = Len(group_of) /\ "dropped" \in Stages
    BY <1>1 DEF GroupTypes, Stages
  <2>8. /\ stage' \in Seq(Stages) /\ Len(stage') = Len(stage)
        /\ \A k \in 1 .. Len(group_of) : stage'[k] = IF k = m THEN "dropped" ELSE stage[k]
    BY <1>8, <1>10, <2>7
  <2>9. GroupTypes'
    BY <1>1, <1>3, <1>10, <2>8 DEF GroupTypes
  <2>10. Waiting' = Waiting \ {m}
    BY <1>3, <1>8, <1>10, <2>6 DEF Waiting
  <2>11. GroupPlaces'
    <3>1. /\ IsInjective(local_dup_q') /\ IsInjective(pass_up_q')
          /\ Range(local_dup_q') \cap Brought(calls') = {}
          /\ Range(local_dup_q') \cap Range(pass_up_q') = {}
          /\ Brought(calls') \cap Range(pass_up_q') = {}
      BY <1>1, <1>3, <1>10, <2>6 DEF GroupPlaces
    <3>2. Waiting \subseteq 1 .. Len(group_of)
          /\ (active_buf # 0 => active_buf \in 1 .. Len(group_of))
      BY <1>1 DEF GroupPlaces
    <3>3. \A k \in Waiting' : stage'[k] = stage[k]
      BY <2>8, <2>10, <3>2
    <3>4. active_buf # 0 => stage'[active_buf] = stage[active_buf]
      BY <1>8, <2>8, <3>2
    <3> QED
      BY <1>1, <1>3, <1>10, <2>6, <2>10, <3>1, <3>3, <3>4, PlacesMoved
  <2>12. GroupPassed'
    <3>1. \A k \in 1 .. Len(group_of) : stage'[k] = "done" => stage[k] = "done"
      BY <2>8
    <3> QED
      BY <1>1, <1>3, <3>1, PlaceIsSearched DEF GroupPassed
  <2> QED
    BY <2>6, <2>9, <2>11, <2>12 DEF GroupsInv
<1>11. CASE /\ active_buf = 0 /\ active_buf' = m /\ handle' = 0
            /\ UNCHANGED <<pass_up_q, stage>> /\ Groups!PoolIs(Groups!Wanted(p, ChainFunc))
  <2> DEFINE q == Groups!Wanted(p, ChainFunc)
  <2>1. /\ Well(q) /\ Idle(q) = Idle(p) /\ Brought(q.calls) = Brought(p.calls)
        /\ \A g : Runs(q, g) = Runs(p, g) + One(ChainFunc, g)
    BY <1>2, <1>4, <1>5, WantedIs
  <2>2. Groups!PoolIs(q)
    BY <1>11
  <2> HIDE DEF q
  <2>3. Active' = 1 /\ Active = 0
    BY <1>9, <1>11 DEF Active
  <2>4. One(ChainFunc, ChainFunc) = 1 /\ One(ChainFunc, LocalFunc) = 0
    BY <1>4 DEF One
  <2>5. Len(local_dup_q) \in Nat
    BY <1>1 DEF GroupTypes
  <2>6. /\ Idle(q) = Len(pass_up_q') + Active' /\ Runs(q, ChainFunc) = Active'
        /\ Runs(q, LocalFunc) = Len(local_dup_q')
    BY <1>2, <1>3, <1>5, <1>6, <1>7, <1>11, <2>1, <2>3, <2>4, <2>5
  <2>7. Len(pass_up_q') <= UpQSize /\ (active_buf' = 0 => pass_up_q' = << >>)
    BY <1>7, <1>11
  <2>8. GroupCounts' /\ BroughtOnce(calls') /\ Brought(calls') = Brought(calls) \ {m}
    BY <1>3, <1>5, <2>1, <2>2, <2>6, <2>7, CountsAgain
  <2>9. GroupTypes'
    BY <1>1, <1>3, <1>9, <1>11 DEF GroupTypes
  <2>10. Waiting' = Waiting \ {m}
    BY <1>3, <1>8, <1>11, <2>8 DEF Waiting
  <2>11. GroupPlaces'
    <3>1. /\ IsInjective(local_dup_q') /\ IsInjective(pass_up_q')
          /\ Range(local_dup_q') \cap Brought(calls') = {}
          /\ Range(local_dup_q') \cap Range(pass_up_q') = {}
          /\ Brought(calls') \cap Range(pass_up_q') = {}
      BY <1>1, <1>3, <1>11, <2>8 DEF GroupPlaces
    <3>2. Waiting' \subseteq 1 .. Len(group_of') /\ active_buf' \notin Waiting'
          /\ \A k \in Waiting' : stage'[k] = "here" /\ passed'[k] = << >>
      BY <1>1, <1>3, <1>11, <2>10 DEF GroupPlaces
    <3>3. /\ active_buf' \in 1 .. Len(group_of') /\ stage'[active_buf'] = "here"
          /\ handle' = Len(passed'[active_buf'])
      BY <1>3, <1>8, <1>11
    <3> QED
      BY <2>8, <3>1, <3>2, <3>3 DEF GroupPlaces
  <2>12. GroupPassed'
    BY <1>1, <1>3, <1>11, PlaceIsSearched DEF GroupPassed
  <2> QED
    BY <2>8, <2>9, <2>11, <2>12 DEF GroupsInv
<1>12. CASE /\ Len(pass_up_q) # UpQSize /\ active_buf # 0 /\ pass_up_q' = Append(pass_up_q, m)
            /\ UNCHANGED <<active_buf, handle, stage>> /\ Groups!PoolIs(p)
  <2>1. pass_up_q \in Seq(Nat) /\ IsInjective(pass_up_q)
    BY <1>1 DEF GroupTypes, GroupPlaces
  <2>2. /\ pass_up_q' \in Seq(Nat) /\ IsInjective(pass_up_q')
        /\ Range(pass_up_q') = Range(pass_up_q) \cup {m}
    BY <1>8, <1>9, <1>12, <2>1, AppendOnce
  <2>3. Len(pass_up_q') = Len(pass_up_q) + 1
    BY <1>9, <1>12, <2>1
  <2>4. Active' = Active
    BY <1>12 DEF Active
  <2>5. /\ Idle(p) = Len(pass_up_q') + Active' /\ Runs(p, ChainFunc) = Active'
        /\ Runs(p, LocalFunc) = Len(local_dup_q') /\ Len(pass_up_q') <= UpQSize
        /\ (active_buf' = 0 => pass_up_q' = << >>)
    BY <1>2, <1>3, <1>5, <1>6, <1>7, <1>12, <2>3, <2>4
  <2>6. GroupCounts' /\ BroughtOnce(calls') /\ Brought(calls') = Brought(calls) \ {m}
    BY <1>3, <1>5, <1>12, <2>5, CountsAgain
  <2>7. GroupTypes'
    BY <1>1, <1>3, <1>12, <2>2 DEF GroupTypes
  <2>8. Waiting' = Waiting
    BY <1>3, <1>5, <1>12, <2>2, <2>6 DEF Waiting
  <2>9. GroupPlaces'
    <3>1. /\ IsInjective(local_dup_q') /\ Range(local_dup_q') \cap Brought(calls') = {}
          /\ Range(local_dup_q') \cap Range(pass_up_q') = {}
          /\ Brought(calls') \cap Range(pass_up_q') = {}
      BY <1>1, <1>3, <1>8, <2>2, <2>6 DEF GroupPlaces
    <3> QED
      BY <1>1, <1>3, <1>12, <2>2, <2>6, <2>8, <3>1, PlacesMoved
  <2>10. GroupPassed'
    BY <1>1, <1>3, <1>12, PlaceIsSearched DEF GroupPassed
  <2> QED
    BY <2>6, <2>7, <2>9, <2>10 DEF GroupsInv
<1> QED
  BY <1>3, <1>10, <1>11, <1>12

\* The application gives a buffer back.
LEMMA DataIndicationOK ==
  ASSUME GroupsInv, Groups!DataIndication
  PROVE  GroupsInv'
<1> DEFINE p == Groups!Rest
           q == Groups!Freed(p)
<1>1. GroupTypes /\ GroupCounts /\ GroupPlaces /\ GroupPassed
  BY DEF GroupsInv
<1>2. /\ Well(Groups!Pool) /\ limit \in Nat /\ Groups!Pool.calls = calls
      /\ Active \in {0, 1} /\ Idle(Groups!Pool) \in Nat
  BY <1>1, PoolOfTypes
<1>3. /\ calls # << >> /\ Head(calls).func = DataFunc /\ Groups!PoolIs(q)
      /\ UNCHANGED <<groups, adds, local_dup_q, pass_up_q, active_buf, handle, limit, group_of,
                     stage, due, passed>>
  BY DEF Groups!DataIndication, Groups!Called, Groups!tableVars, DataFunc
<1>4. DataFunc # UpFunc /\ DataFunc # ChainFunc /\ DataFunc # LocalFunc
  BY FuncsDiffer
<1>5. /\ Well(p) /\ Idle(p) = Idle(Groups!Pool) + 1 /\ Brought(p.calls) = Brought(calls)
      /\ \A g : Runs(Groups!Pool, g) = Runs(p, g) + One(DataFunc, g)
  BY <1>2, <1>3, <1>4, RestIs
<1> HIDE DEF p
<1>6. Idle(p) > 0
  BY <1>2, <1>5
<1>7. /\ Well(q) /\ Idle(q) = Idle(p) - 1 /\ Brought(q.calls) = Brought(p.calls)
      /\ \A g : Runs(q, g) = Runs(p, g)
  BY <1>2, <1>5, <1>6, FreedIs
<1> HIDE DEF q
<1>8. Active' = Active
  BY <1>3 DEF Active
<1>9. /\ Idle(q) = Len(pass_up_q') + Active' /\ Runs(q, ChainFunc) = Active'
      /\ Runs(q, LocalFunc) = Len(local_dup_q') /\ Len(pass_up_q') <= UpQSize
      /\ (active_buf' = 0 => pass_up_q' = << >>)
  <2>1. One(DataFunc, ChainFunc) = 0 /\ One(DataFunc, LocalFunc) = 0
    BY <1>4 DEF One
  <2>2. Runs(p, ChainFunc) \in Nat /\ Runs(p, LocalFunc) \in Nat
    BY <1>5, RunsIsNat DEF Well
  <2> QED
    BY <1>1, <1>2, <1>3, <1>5, <1>7, <1>8, <2>1, <2>2 DEF GroupCounts
<1>10. GroupCounts' /\ BroughtOnce(calls') /\ Brought(calls') = Brought(calls)
  BY <1>3, <1>5, <1>7, <1>9, CountsAgain
<1>11. GroupTypes'
  BY <1>1, <1>3 DEF GroupTypes
<1>12. GroupPlaces'
  BY <1>1, <1>3, <1>10 DEF GroupPlaces, Waiting
<1>13. GroupPassed'
  BY <1>1, <1>3, PlaceIsSearched DEF GroupPassed
<1> QED
  BY <1>10, <1>11, <1>12, <1>13 DEF GroupsInv

\* The chain passes the active frame to the next endpoint, or goes on to the next frame.
LEMMA DeliverOK ==
  ASSUME GroupsInv, Groups!PassGroupMsgUp,
         handle < Len(Groups!EndpointsOf(group_of[active_buf]))
  PROVE  GroupsInv'
<1> DEFINE p == Groups!Rest
           r == Groups!Scheduled(p, Groups!Call(DataFunc, 0))
           q == Groups!Wanted(r, ChainFunc)
           eps == Groups!EndpointsOf(group_of[active_buf])
           e == eps[handle + 1]
<1>1. GroupTypes /\ GroupCounts /\ GroupPlaces /\ GroupPassed
  BY DEF GroupsInv
<1>2. /\ Well(Groups!Pool) /\ limit \in Nat /\ Groups!Pool.calls = calls
      /\ Active \in {0, 1} /\ Idle(Groups!Pool) \in Nat /\ ((Active = 0) <=> (active_buf = 0))
  BY <1>1, PoolOfTypes
<1>3. /\ calls # << >> /\ Head(calls).func = ChainFunc
      /\ UNCHANGED <<groups, adds, local_dup_q, limit, group_of, due>>
      /\ passed' = [passed EXCEPT ![active_buf] = Append(passed[active_buf], e)]
      /\ handle' = handle + 1 /\ Groups!PoolIs(q) /\ UNCHANGED <<active_buf, pass_up_q, stage>>
  BY DEF Groups!PassGroupMsgUp, Groups!Called, Groups!tableVars, ChainFunc, DataFunc,
         Groups!NoFrame
<1>4. /\ DataFunc # UpFunc /\ DataFunc # ChainFunc /\ DataFunc # LocalFunc /\ ChainFunc # LocalFunc
      /\ ChainFunc # UpFunc /\ ChainFunc \in GroupWaits /\ DataFunc \in GroupFuncs
  BY FuncsDiffer
<1>5. /\ Well(p) /\ Idle(p) = Idle(Groups!Pool) + 1 /\ Brought(p.calls) = Brought(calls)
      /\ \A g : Runs(Groups!Pool, g) = Runs(p, g) + One(ChainFunc, g)
  BY <1>2, <1>3, <1>4, RestIs
<1> HIDE DEF p
<1>6. /\ Well(r) /\ Idle(r) = Idle(p) - 1 /\ Brought(r.calls) = Brought(p.calls)
      /\ \A g : Runs(r, g) = Runs(p, g) + One(DataFunc, g)
  BY <1>4, <1>5, CallsIs
<1> HIDE DEF r
<1>7. /\ Well(q) /\ Idle(q) = Idle(r) /\ Brought(q.calls) = Brought(r.calls)
      /\ \A g : Runs(q, g) = Runs(r, g) + One(ChainFunc, g)
  BY <1>2, <1>4, <1>6, WantedIs
<1> HIDE DEF q
<1>8. /\ One(DataFunc, ChainFunc) = 0 /\ One(DataFunc, LocalFunc) = 0
      /\ One(ChainFunc, ChainFunc) = 1 /\ One(ChainFunc, LocalFunc) = 0
  BY <1>4 DEF One
<1>9. /\ Runs(Groups!Pool, ChainFunc) = Active
      /\ Runs(Groups!Pool, LocalFunc) = Len(local_dup_q) /\ Len(local_dup_q) \in Nat
      /\ Runs(p, ChainFunc) \in Nat /\ Runs(p, LocalFunc) \in Nat
  BY <1>1, <1>5, RunsIsNat DEF GroupCounts, GroupTypes, Well
<1>10. active_buf # 0
  BY <1>2, <1>5, <1>8, <1>9
<1>11. Active' = Active
  BY <1>3 DEF Active
<1>12. GroupCounts' /\ BroughtOnce(calls') /\ Brought(calls') = Brought(calls)
  <2>1. Runs(q, ChainFunc) = Active' /\ Runs(q, LocalFunc) = Len(local_dup_q')
    BY <1>2, <1>3, <1>5, <1>6, <1>7, <1>8, <1>9, <1>11
  <2>2. Idle(q) = Len(pass_up_q') + Active' /\ Len(pass_up_q') <= UpQSize
        /\ (active_buf' = 0 => pass_up_q' = << >>)
    BY <1>1, <1>2, <1>3, <1>5, <1>6, <1>7, <1>11 DEF GroupCounts
  <2> QED
    BY <1>3, <1>5, <1>6, <1>7, <2>1, <2>2, CountsAgain
<1>13. /\ active_buf \in 1 .. Len(group_of) /\ stage[active_buf] = "here"
       /\ handle = Len(passed[active_buf]) /\ active_buf \notin Waiting
       /\ Waiting \subseteq 1 .. Len(group_of)
  BY <1>1, <1>10 DEF GroupPlaces
<1>14. eps \in Seq(Endpoints)
  BY <1>1, EndpointsAre, PlaceIsSearched DEF GroupTypes
<1>15. /\ passed \in Seq(Seq(Endpoints)) /\ Len(passed) = Len(group_of)
       /\ passed[active_buf] \in Seq(Endpoints)
  BY <1>1, <1>13 DEF GroupTypes
<1>16. FirstOf(passed[active_buf], eps)
  BY <1>1, <1>13 DEF GroupPassed
<1>17. handle < Len(eps)
  OBVIOUS
<1> HIDE DEF eps
<1>18. /\ Append(passed[active_buf], e) \in Seq(Endpoints)
       /\ FirstOf(Append(passed[active_buf], e), eps)
  BY <1>13, <1>14, <1>15, <1>16, <1>17, FirstOfMore
<1>19. e \in Endpoints
  BY <1>13, <1>14, <1>15, <1>17
<1>20. Len(Append(passed[active_buf], e)) = handle + 1 /\ handle + 1 \in Nat
  BY <1>13, <1>15, <1>19
<1> DEFINE u == Append(passed[active_buf], e)
<1> HIDE DEF u, e
<1>21. /\ passed' \in Seq(Seq(Endpoints)) /\ Len(passed') = Len(group_of)
       /\ \A m \in 1 .. Len(group_of) : passed'[m] = IF m = active_buf THEN u ELSE passed[m]
  <2>1. passed' = [passed EXCEPT ![active_buf] = u] /\ u \in Seq(Endpoints)
    BY <1>3, <1>18 DEF u
  <2> QED
    BY <1>13, <1>15, <2>1
<1>22. GroupTypes'
  BY <1>1, <1>3, <1>20, <1>21 DEF GroupTypes
<1>23. Waiting' = Waiting
  BY <1>3, <1>12 DEF Waiting
<1>24. GroupPlaces'
  <2>1. \A m \in Waiting : passed'[m] = passed[m]
    BY <1>13, <1>21
  <2>2. handle' = Len(passed'[active_buf])
    BY <1>3, <1>13, <1>20, <1>21 DEF u
  <2>3. /\ IsInjective(local_dup_q') /\ IsInjective(pass_up_q')
        /\ Range(local_dup_q') \cap Brought(calls') = {}
        /\ Range(local_dup_q') \cap Range(pass_up_q') = {}
        /\ Brought(calls') \cap Range(pass_up_q') = {}
    BY <1>1, <1>3, <1>12 DEF GroupPlaces
  <2>4. \A m \in Waiting' : stage'[m] = "here" /\ passed'[m] = << >>
    BY <1>1, <1>3, <1>23, <2>1 DEF GroupPlaces
  <2> QED
    BY <1>3, <1>12, <1>13, <1>23, <2>2, <2>3, <2>4 DEF GroupPlaces
<1>25. GroupPassed'
  <2> SUFFICES ASSUME NEW m \in 1 .. Len(group_of)
               PROVE  /\ FirstOf(passed'[m], Groups!EndpointsOf(group_of[m]))
                      /\ FirstOf(due[m], Groups!EndpointsOf(group_of[m]))
                      /\ stage[m] = "done" => FirstOf(due[m], passed'[m])
    BY <1>3, PlaceIsSearched DEF GroupPassed
  <2>1. CASE m = active_buf
    <3>1. FirstOf(passed'[m], Groups!EndpointsOf(group_of[m]))
      BY <1>18, <1>21, <2>1 DEF u, eps
    <3> QED
      BY <1>1, <1>13, <2>1, <3>1 DEF GroupPassed
  <2>2. CASE m # active_buf
    BY <1>1, <1>21, <2>2 DEF GroupPassed
  <2> QED
    BY <2>1, <2>2
<1> QED
  BY <1>12, <1>22, <1>24, <1>25 DEF GroupsInv

LEMMA DoneOK ==
  ASSUME GroupsInv, Groups!PassGroupMsgUp,
         ~ (handle < Len(Groups!EndpointsOf(group_of[active_buf])))
  PROVE  GroupsInv'
<1> DEFINE p == Groups!Rest
           r == Groups!Freed(p)
           eps == Groups!EndpointsOf(group_of[active_buf])
<1>1. GroupTypes /\ GroupCounts /\ GroupPlaces /\ GroupPassed
  BY DEF GroupsInv
<1>2. /\ Well(Groups!Pool) /\ limit \in Nat /\ Groups!Pool.calls = calls
      /\ Active \in {0, 1} /\ Idle(Groups!Pool) \in Nat /\ ((Active = 0) <=> (active_buf = 0))
  BY <1>1, PoolOfTypes
<1>3. /\ calls # << >> /\ Head(calls).func = ChainFunc
      /\ UNCHANGED <<groups, adds, local_dup_q, limit, group_of, due, passed>>
      /\ stage' = [stage EXCEPT ![active_buf] = "done"]
      /\ \/ /\ pass_up_q # << >> /\ active_buf' = Head(pass_up_q) /\ pass_up_q' = Tail(pass_up_q)
            /\ handle' = 0 /\ Groups!PoolIs(Groups!Scheduled(r, Groups!Call(ChainFunc, 0)))
         \/ /\ pass_up_q = << >> /\ active_buf' = 0 /\ Groups!PoolIs(Groups!Freed(r))
            /\ UNCHANGED <<pass_up_q, handle>>
  BY DEF Groups!PassGroupMsgUp, Groups!Called, Groups!tableVars, ChainFunc,
         Groups!NoFrame, Groups!WithNext
<1>4. /\ ChainFunc # LocalFunc /\ ChainFunc # UpFunc /\ ChainFunc \in GroupFuncs
  BY FuncsDiffer
<1>5. /\ Well(p) /\ Idle(p) = Idle(Groups!Pool) + 1 /\ Brought(p.calls) = Brought(calls)
      /\ \A g : Runs(Groups!Pool, g) = Runs(p, g) + One(ChainFunc, g)
  BY <1>2, <1>3, <1>4, RestIs
<1> HIDE DEF p
<1>6. Idle(p) > 0
  BY <1>2, <1>5
<1>7. /\ Well(r) /\ Idle(r) = Idle(p) - 1 /\ Brought(r.calls) = Brought(p.calls)
      /\ \A g : Runs(r, g) = Runs(p, g)
  BY <1>2, <1>5, <1>6, FreedIs
<1> HIDE DEF r
<1>8. One(ChainFunc, ChainFunc) = 1 /\ One(ChainFunc, LocalFunc) = 0
  BY <1>4 DEF One
<1>9. /\ Runs(Groups!Pool, ChainFunc) = Active
      /\ Runs(Groups!Pool, LocalFunc) = Len(local_dup_q) /\ Len(local_dup_q) \in Nat
      /\ Runs(p, ChainFunc) \in Nat /\ Runs(p, LocalFunc) \in Nat
      /\ Idle(Groups!Pool) = Len(pass_up_q) + Active /\ Len(pass_up_q) <= UpQSize
      /\ pass_up_q \in Seq(Nat)
  BY <1>1, <1>5, RunsIsNat DEF GroupCounts, GroupTypes, Well
<1>10. active_buf # 0 /\ Active = 1
  BY <1>2, <1>5, <1>8, <1>9
<1>11. Idle(r) = Len(pass_up_q) + 1 /\ Runs(r, ChainFunc) = 0 /\ Runs(r, LocalFunc) = Len(local_dup_q)
  BY <1>2, <1>5, <1>7, <1>8, <1>9, <1>10
<1>12. /\ active_buf \in 1 .. Len(group_of) /\ handle = Len(passed[active_buf])
       /\ active_buf \notin Waiting /\ Waiting \subseteq 1 .. Len(group_of)
  BY <1>1, <1>10 DEF GroupPlaces
<1>13. stage \in Seq(Stages) /\ Len(stage) = Len(group_of) /\ "done" \in Stages
  BY <1>1 DEF GroupTypes, Stages
<1>14. /\ stage' \in Seq(Stages) /\ Len(stage') = Len(group_of)
       /\ \A m \in 1 .. Len(group_of) : stage'[m] = IF m = active_buf THEN "done" ELSE stage[m]
  BY <1>3, <1>12, <1>13
<1>15. GroupPassed'
  <2> SUFFICES ASSUME NEW m \in 1 .. Len(group_of), stage'[m] = "done"
               PROVE  FirstOf(due[m], passed[m])
    BY <1>1, <1>3, PlaceIsSearched DEF GroupPassed
  <2>1. CASE m = active_buf
    <3>1. eps \in Seq(Endpoints)
      BY <1>1, EndpointsAre, PlaceIsSearched DEF GroupTypes
    <3>2. passed[active_buf] \in Seq(Endpoints) /\ due[active_buf] \in Seq(Endpoints)
      BY <1>1, <1>12 DEF GroupTypes
    <3>3. FirstOf(passed[active_buf], eps) /\ FirstOf(due[active_buf], eps)
      BY <1>1, <1>12 DEF GroupPassed
    <3>4. ~ (Len(passed[active_buf]) < Len(eps))
      BY <1>12
    <3> HIDE DEF eps
    <3> QED
      BY <2>1, <3>1, <3>2, <3>3, <3>4, FirstOfWhole
  <2>2. CASE m # active_buf
    BY <1>1, <1>14, <2>2 DEF GroupPassed
  <2> QED
    BY <2>1, <2>2
<1> HIDE DEF eps
<1>16. \A m \in Waiting : stage'[m] = stage[m]
  BY <1>12, <1>14
<1>17. CASE /\ pass_up_q # << >> /\ active_buf' = Head(pass_up_q) /\ pass_up_q' = Tail(pass_up_q)
            /\ handle' = 0 /\ Groups!PoolIs(Groups!Scheduled(r, Groups!Call(ChainFunc, 0)))
  <2> DEFINE q == Groups!Scheduled(r, Groups!Call(ChainFunc, 0))
             h == Head(pass_up_q)
  <2>1. /\ Well(q) /\ Idle(q) = Idle(r) - 1 /\ Brought(q.calls) = Brought(r.calls)
        /\ \A g : Runs(q, g) = Runs(r, g) + One(ChainFunc, g)
    BY <1>4, <1>7, CallsIs
  <2>2. Groups!PoolIs(q) /\ active_buf' = h
    BY <1>17
  <2> HIDE DEF q
  <2>3. IsInjective(pass_up_q)
    BY <1>1 DEF GroupPlaces
  <2>4. /\ h \in Nat /\ h \in Range(pass_up_q) /\ pass_up_q' \in Seq(Nat)
        /\ IsInjective(pass_up_q') /\ Range(pass_up_q') = Range(pass_up_q) \ {h}
    BY <1>9, <1>17, <2>3, TailOnce
  <2>5. Len(pass_up_q') = Len(pass_up_q) - 1 /\ Len(pass_up_q) \in Nat
    BY <1>9, <1>17
  <2> HIDE DEF h
  <2>6. h \in Waiting /\ h \notin Range(local_dup_q) /\ h \notin Brought(calls) /\ h # active_buf
    BY <1>1, <1>12, <2>4 DEF GroupPlaces, Waiting
  <2>7. h \in 1 .. Len(group_of) /\ stage'[h] = "here" /\ passed[h] = << >>
    BY <1>1, <1>12, <1>16, <2>6 DEF GroupPlaces
  <2>8. h # 0
    <3>1. Len(group_of) \in Nat
      BY <1>1 DEF GroupTypes
    <3> QED
      BY <2>7, <3>1
  <2>9. Active' = 1
    BY <2>2, <2>8 DEF Active
  <2>10. GroupCounts' /\ BroughtOnce(calls') /\ Brought(calls') = Brought(calls)
    <3>1. Runs(q, ChainFunc) = Active' /\ Runs(q, LocalFunc) = Len(local_dup_q')
      BY <1>3, <1>8, <1>9, <1>11, <2>1, <2>9
    <3>2. UpQSize \in Nat
      BY <1>1, PoolOfTypes
    <3>3. Idle(q) = Len(pass_up_q') + Active' /\ Len(pass_up_q') <= UpQSize
          /\ (active_buf' = 0 => pass_up_q' = << >>)
      BY <1>9, <1>11, <2>1, <2>2, <2>5, <2>8, <2>9, <3>2
    <3> QED
      BY <1>3, <1>5, <1>7, <2>1, <2>2, <3>1, <3>3, CountsAgain
  <2>11. GroupTypes'
    BY <1>1, <1>3, <1>14, <1>17, <2>2, <2>4 DEF GroupTypes
  <2>12. Waiting' = Waiting \ {h}
    BY <1>3, <2>4, <2>6, <2>10 DEF Waiting
  <2>13. GroupPlaces'
    <3>1. /\ IsInjective(local_dup_q') /\ Range(local_dup_q') \cap Brought(calls') = {}
          /\ Range(local_dup_q') \cap Range(pass_up_q') = {}
          /\ Brought(calls') \cap Range(pass_up_q') = {}
      BY <1>1, <1>3, <2>4, <2>10 DEF GroupPlaces
    <3>2. Waiting' \subseteq 1 .. Len(group_of') /\ active_buf' \notin Waiting'
      BY <1>3, <1>12, <2>2, <2>12
    <3>3. \A m \in Waiting' : stage'[m] = "here" /\ passed'[m] = << >>
      BY <1>1, <1>3, <1>16, <2>12 DEF GroupPlaces
    <3>4. /\ active_buf' \in 1 .. Len(group_of') /\ stage'[active_buf'] = "here"
          /\ handle' = Len(passed'[active_buf'])
      BY <1>3, <1>17, <2>2, <2>7
    <3> QED
      BY <2>4, <2>10, <3>1, <3>2, <3>3, <3>4 DEF GroupPlaces
  <2> QED
    BY <1>15, <2>10, <2>11, <2>13 DEF GroupsInv
<1>18. CASE /\ pass_up_q = << >> /\ active_buf' = 0 /\ Groups!PoolIs(Groups!Freed(r))
            /\ UNCHANGED <<pass_up_q, handle>>
  <2> DEFINE q == Groups!Freed(r)
  <2>1. Idle(r) > 0 /\ Idle(r) = 1
    BY <1>11, <1>18
  <2>2. /\ Well(q) /\ Idle(q) = Idle(r) - 1 /\ Brought(q.calls) = Brought(r.calls)
        /\ \A g : Runs(q, g) = Runs(r, g)
    BY <1>2, <1>7, <2>1, FreedIs
  <2>3. Groups!PoolIs(q)
    BY <1>18
  <2> HIDE DEF q
  <2>4. Active' = 0
    BY <1>18 DEF Active
  <2>5. GroupCounts' /\ BroughtOnce(calls') /\ Brought(calls') = Brought(calls)
    <3>1. Runs(q, ChainFunc) = Active' /\ Runs(q, LocalFunc) = Len(local_dup_q')
      BY <1>3, <1>11, <2>2, <2>4
    <3>2. Len(pass_up_q') = 0 /\ pass_up_q' = << >> /\ Len(pass_up_q') <= UpQSize
      BY <1>9, <1>18
    <3>3. Idle(q) = Len(pass_up_q') + Active'
      BY <2>1, <2>2, <2>4, <3>2
    <3> QED
      BY <1>3, <1>5, <1>7, <2>2, <2>3, <3>1, <3>2, <3>3, CountsAgain
  <2>6. GroupTypes'
    BY <1>1, <1>3, <1>14, <1>18 DEF GroupTypes
  <2>7. Waiting' = Waiting
    BY <1>3, <1>18, <2>5 DEF Waiting
  <2>8. active_buf' \notin Waiting
    <3>1. Len(group_of) \in Nat
      BY <1>1 DEF GroupTypes
    <3> QED
      BY <1>12, <1>18, <3>1
  <2>9. GroupPlaces'
    <3>1. /\ IsInjective(local_dup_q') /\ IsInjective(pass_up_q')
          /\ Range(local_dup_q') \cap Brought(calls') = {}
          /\ Range(local_dup_q') \cap Range(pass_up_q') = {}
          /\ Brought(calls') \cap Range(pass_up_q') = {}
      BY <1>1, <1>3, <1>18, <2>5 DEF GroupPlaces
    <3>2. Waiting' \subseteq 1 .. Len(group_of')
          /\ \A m \in Waiting' : stage'[m] = "here" /\ passed'[m] = << >>
      BY <1>1, <1>3, <1>12, <1>16, <2>7 DEF GroupPlaces
    <3> QED
      BY <1>18, <2>5, <2>7, <2>8, <3>1, <3>2 DEF GroupPlaces
  <2> QED
    BY <1>15, <2>5, <2>6, <2>9 DEF GroupsInv
<1> QED
  BY <1>3, <1>17, <1>18

LEMMA EmptyHasNone == Len(<< >>) = 0
OBVIOUS

LEMMA GroupsInit ==
  ASSUME Init
  PROVE  GroupsInv
<1>1. /\ groups = << >> /\ local_dup_q = << >> /\ pass_up_q = << >> /\ active_buf = 0 /\ handle = 0
      /\ calls = << >> /\ in_waiters = << >> /\ in_used = 0 /\ limit \in InLimits
      /\ group_of = << >> /\ stage = << >> /\ due = << >> /\ passed = << >>
  BY DEF Init, Groups!Init, Groups!NoFrame
<1>2. limit \in Nat /\ UpQSize \in Nat
  BY <1>1, Assumptions DEF Groups!GroupsAssumption
<1>3. GroupTypes
  BY <1>1, <1>2 DEF GroupTypes, GroupTables
<1>4. Range(<< >>) = {} /\ IsInjective(<< >>)
  BY DEF Range, IsInjective
<1>5. Brings(calls) = {} /\ Brought(calls) = {} /\ BroughtOnce(calls)
  BY <1>1 DEF Brings, Brought, BroughtOnce
<1>6. GroupPlaces
  BY <1>1, <1>4, <1>5 DEF GroupPlaces, Waiting
<1>7. GroupPassed
  BY <1>1 DEF GroupPassed
<1>8. GroupCounts
  <2>1. /\ Groups!Pool.calls = << >> /\ Groups!Pool.waiters = << >> /\ Groups!Pool.used = 0
        /\ Groups!Pool = [calls |-> << >>, waiters |-> << >>, used |-> 0]
    BY <1>1 DEF Groups!Pool
  <2>2. << >> \in Seq(GroupCalls) /\ << >> \in Seq(GroupWaits)
    OBVIOUS
  <2>3. Groups!Pool \in GroupPools
    BY <2>1, <2>2 DEF GroupPools
  <2>4. WaitsRight(Groups!Pool)
    BY <1>2, <2>1 DEF WaitsRight
  <2>5. Groups!FuncsIn(<< >>) = << >>
    BY DEF Groups!FuncsIn
  <2>6. ASSUME NEW f PROVE Groups!CountIn(<< >>, f) = 0
    <3>1. Groups!CountIn(<< >>, f) = Cardinality({})
      <4>1. {i \in DOMAIN << >> : << >>[i] = f} = {}
        OBVIOUS
      <4> QED
        BY <4>1, CountsPositions DEF Groups!CountIn
    <3> QED
      BY <3>1, FS_EmptySet
  <2>7. \A f : Runs(Groups!Pool, f) = 0
    BY <2>1, <2>5, <2>6 DEF Runs
  <2>8. Idle(Groups!Pool) = 0 /\ Active = 0
    <3>1. Len(Groups!Pool.calls) = 0 /\ Groups!Pool.used = 0
      BY <2>1, EmptyHasNone
    <3>2. Active = 0
      BY <1>1 DEF Active
    <3> QED
      BY <3>1, <3>2 DEF Idle
  <2> QED
    BY <1>1, <1>2, <2>3, <2>4, <2>7, <2>8 DEF GroupCounts
<1> QED
  BY <1>3, <1>6, <1>7, <1>8 DEF GroupsInv

LEMMA GroupsSteps ==
  ASSUME [Next]_vars
  PROVE  [Groups!Next]_(Groups!vars)
BY DEF Next, vars, groupsVars, Groups!vars, Groups!tableVars

LEMMA GroupsStep ==
  ASSUME GroupsInv, [Next]_vars
  PROVE  GroupsInv'
<1>1. CASE UNCHANGED Groups!vars
  <2>1. UNCHANGED <<groups, local_dup_q, pass_up_q, active_buf, handle, calls, in_waiters, in_used,
                    limit, group_of, stage, due, passed>>
    BY <1>1 DEF Groups!vars, Groups!tableVars
  <2>2. GroupTypes' /\ GroupPlaces'
    BY <2>1 DEF GroupsInv, GroupTypes, GroupPlaces, Waiting
  <2>3. GroupCounts'
    BY <2>1 DEF GroupsInv, GroupCounts, Groups!Pool, WaitsRight, Active
  <2>4. GroupPassed'
    BY <2>1, PlaceIsSearched DEF GroupsInv, GroupPassed
  <2> QED
    BY <2>2, <2>3, <2>4 DEF GroupsInv
<1>2. CASE Groups!Next
  <2>1. CASE \E a \in GroupAddrs, e \in Endpoints : Groups!AddGroup(a, e)
    BY <2>1, AddGroupOK
  <2>2. CASE \E a \in GroupAddrs : Groups!Receive(a) \/ Groups!DataRequest(a)
    BY <2>2, ReceiveOK, DataRequestOK
  <2>3. CASE Groups!PassLocalUp
    BY <2>3, PassLocalUpOK
  <2>4. CASE Groups!PassUpGroupBuf
    BY <2>4, PassUpOK
  <2>5. CASE Groups!PassGroupMsgUp
    BY <2>5, DeliverOK, DoneOK
  <2>6. CASE Groups!DataIndication
    BY <2>6, DataIndicationOK
  <2> QED
    BY <1>2, <2>1, <2>2, <2>3, <2>4, <2>5, <2>6 DEF Groups!Next
<1> QED
  BY GroupsSteps, <1>1, <1>2

\* Frames for groups are passed up by one chain of callbacks, each to the first endpoints of
\* its group in their order and to none twice, to all that were due before the chain is done
\* with it; all input buffers are accounted for, and a chain that waits for a buffer waits
\* for one that a scheduled callback will free: for any number of groups, endpoints, frames
\* and buffers (zb_aps_pass_up_group_buf and what follows).
THEOREM SpecGroupsRight == Spec => []GroupsRight
<1>1. Init => GroupsInv
  BY GroupsInit
<1>2. GroupsInv /\ [Next]_vars => GroupsInv'
  BY GroupsStep
<1>3. GroupsInv => GroupsRight
  <2> SUFFICES ASSUME GroupsInv
               PROVE  Groups!OneChain /\ Groups!BuffersCounted /\ Groups!PassedToGroup
                      /\ Groups!ChainGoesOn
    BY DEF GroupsRight, Groups!GroupsRight
  <2>1. GroupTypes /\ GroupCounts /\ GroupPlaces /\ GroupPassed
    BY DEF GroupsInv
  <2>2. /\ Well(Groups!Pool) /\ limit \in Nat /\ Groups!Pool.calls = calls
        /\ Groups!Pool.used = in_used /\ Groups!Pool.waiters = in_waiters
        /\ Len(pass_up_q) \in Nat /\ UpQSize \in Nat /\ Active \in {0, 1}
    BY <2>1, PoolOfTypes
  <2>3. in_used \in Nat /\ Len(calls) \in Nat
    BY <2>2 DEF Well, GroupPools
  <2>4. Groups!OneChain
    BY <2>1, <2>2 DEF GroupCounts, Runs, Active, Groups!OneChain, Groups!NoFrame, ChainFunc,
                      LocalFunc
  <2>5. in_used = Len(calls) + Len(pass_up_q) + Active /\ Len(pass_up_q) <= UpQSize
        /\ (in_waiters # << >> => in_used = limit)
    BY <2>1, <2>2, <2>3 DEF GroupCounts, Idle, WaitsRight
  <2>6. Groups!BuffersCounted
    BY <2>5 DEF Groups!BuffersCounted, Active, Groups!NoFrame
  <2>7. Groups!ChainGoesOn
    <3>1. ASSUME limit > UpQSize + 1, in_waiters # << >>, calls = << >> PROVE FALSE
      <4>1. Len(calls) = 0
        BY <3>1
      <4> QED
        BY <2>2, <2>5, <3>1, <4>1
    <3> QED
      BY <3>1 DEF Groups!ChainGoesOn
  <2>8. ASSUME NEW S, NEW s \in Seq(S), NEW t \in Seq(S), FirstOf(s, t)
        PROVE  Groups!IsPrefix(s, t)
    <3>1. Len(s) \in Nat /\ Len(t) \in Nat /\ Len(s) <= Len(t)
          /\ \A i \in 1 .. Len(s) : s[i] = t[i]
      BY <2>8 DEF FirstOf
    <3>2. SubSeq(s, 1, Len(s)) = [i \in 1 .. Len(s) |-> s[i]]
          /\ SubSeq(t, 1, Len(s)) = [i \in 1 .. Len(s) |-> t[i]]
      BY <3>1
    <3> QED
      BY <3>1, <3>2 DEF Groups!IsPrefix
  <2>9. Groups!PassedToGroup
    <3> SUFFICES ASSUME NEW m \in 1 .. Len(group_of)
                 PROVE  /\ Groups!IsPrefix(passed[m], Groups!EndpointsOf(group_of[m]))
                        /\ Groups!IsInjective(passed[m])
                        /\ stage[m] = "done" => Groups!IsPrefix(due[m], passed[m])
                        /\ m = active_buf => handle = Len(passed[m])
                        /\ m \in Groups!Range(pass_up_q) => passed[m] = << >>
      <4>1. Groups!Frames = 1 .. Len(group_of)
        BY <2>1 DEF Groups!Frames, GroupTypes
      <4> QED
        BY <4>1 DEF Groups!PassedToGroup
    <3>1. passed[m] \in Seq(Endpoints) /\ due[m] \in Seq(Endpoints) /\ Len(group_of) \in Nat
      BY <2>1 DEF GroupTypes
    <3> DEFINE eps == Groups!EndpointsOf(group_of[m])
    <3>2. eps \in Seq(Endpoints) /\ IsInjective(eps)
      BY <2>1, EndpointsAre, PlaceIsSearched DEF GroupTypes
    <3>3. FirstOf(passed[m], eps) /\ (stage[m] = "done" => FirstOf(due[m], passed[m]))
      BY <2>1 DEF GroupPassed
    <3> HIDE DEF eps
    <3>4. Groups!IsPrefix(passed[m], eps)
      BY <2>8, <3>1, <3>2, <3>3
    <3>5. Groups!IsInjective(passed[m])
      <4>1. IsInjective(passed[m])
        BY <3>1, <3>2, <3>3, FirstOfOnce
      <4> QED
        BY <4>1 DEF IsInjective, Groups!IsInjective
    <3>6. stage[m] = "done" => Groups!IsPrefix(due[m], passed[m])
      BY <2>8, <3>1, <3>3
    <3>7. m = active_buf => handle = Len(passed[m])
      <4>1. m # 0
        BY <3>1
      <4> QED
        BY <2>1, <4>1 DEF GroupPlaces
    <3>8. m \in Groups!Range(pass_up_q) => passed[m] = << >>
      <4>1. ASSUME m \in Groups!Range(pass_up_q) PROVE m \in Range(pass_up_q)
        BY <4>1 DEF Groups!Range, Range
      <4> QED
        BY <2>1, <4>1 DEF GroupPlaces, Waiting
    <3> QED
      BY <3>4, <3>5, <3>6, <3>7, <3>8 DEF eps
  <2> QED
    BY <2>4, <2>6, <2>7, <2>9
<1> QED
  BY <1>1, <1>2, <1>3, PTL DEF Spec
=============================================================================
