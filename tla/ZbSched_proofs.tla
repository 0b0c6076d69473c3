--------------------------- MODULE ZbSched_proofs ---------------------------
(***************************************************************************)
(* The scheduler is correct for every queue size, timer width, set of      *)
(* delays and callbacks, on both platforms, as long as the timer is read   *)
(* in one piece: tm_queue keeps its entries and their order, and no alarm  *)
(* is called before its time.                                              *)
(***************************************************************************)
EXTENDS ZbSched, SequenceTheorems, TLAPS

-----------------------------------------------------------------------------
(* What the macros of include/zb_time.h compute on a wrapping timer, for   *)
(* every width of the timer: the comparison of two times is the comparison *)
(* of their distances from the current time as long as these distances,    *)
(* and their difference, stay below half the range.                        *)

\* A distance from the current time at which ZB_TIME_GE is meaningful.
Near(a) == a \in Int /\ -HALF_MAX_TIME_VAL < a /\ a < HALF_MAX_TIME_VAL

\* The half of the range is a number, and twice the half is the maximum time or
\* one less (ZB_HALF_MAX_TIME_VAL halves the maximum, 0xffff, and rounds down).
LEMMA HalfRange ==
  /\ HALF_MAX_TIME_VAL \in Nat
  /\ HALF_MAX_TIME_VAL > 0
  /\ 2 * HALF_MAX_TIME_VAL <= TimeMod - 1
  /\ 2 * HALF_MAX_TIME_VAL >= TimeMod - 2
BY TimeModAssumption DEF HALF_MAX_TIME_VAL

\* One conditional brings back every value that left the range by less than a turn.
LEMMA WrapType ==
  ASSUME NEW v \in Int, -TimeMod <= v, v < 2 * TimeMod
  PROVE  Wrap(v) \in Time
BY TimeModAssumption DEF Wrap, Time

\* ZB_TIME_ADD and ZB_TIME_SUBTRACT of two times are times.
LEMMA ArithmeticType ==
  ASSUME NEW a \in Time, NEW b \in Time
  PROVE  TIME_ADD(a, b) \in Time /\ TIME_SUBTRACT(a, b) \in Time
<1>1. /\ a + b \in Int /\ a - b \in Int /\ b - a \in Int
      /\ -TimeMod <= a + b /\ a + b < 2 * TimeMod
      /\ -TimeMod <= a - b /\ a - b < 2 * TimeMod
      /\ -TimeMod <= b - a /\ b - a < 2 * TimeMod
  BY TimeModAssumption DEF Time
<1>2. Wrap(a + b) \in Time /\ Wrap(a - b) \in Time /\ Wrap(b - a) \in Time
  BY <1>1, WrapType
<1> QED
  BY <1>2 DEF TIME_ADD, TIME_SUBTRACT

\* ZB_TIME_GE orders two times near the current one by their distance from it,
\* whether or not the timer overflows between them.
THEOREM TimeGeIsDistance ==
  ASSUME NEW now \in Time, NEW a, NEW b, Near(a), Near(b), Near(a - b)
  PROVE  TIME_GE(Wrap(now + a), Wrap(now + b)) <=> a >= b
<1> DEFINE x == Wrap(now + a)
           y == Wrap(now + b)
<1>1. now \in Int /\ 0 <= now /\ now < TimeMod /\ TimeMod \in Nat
  BY TimeModAssumption DEF Time
<1>2. /\ a \in Int /\ b \in Int
      /\ 2 * a < TimeMod /\ 2 * a > -TimeMod
      /\ 2 * b < TimeMod /\ 2 * b > -TimeMod
  BY <1>1, HalfRange DEF Near
<1>3. \/ x - y = a - b
      \/ x - y = a - b + TimeMod
      \/ x - y = a - b - TimeMod
  BY <1>1, <1>2 DEF Wrap
<1>4. x \in Time /\ y \in Time
  BY <1>1, <1>2, WrapType
<1>5. Wrap(x - y) = IF a >= b THEN a - b ELSE a - b + TimeMod
  <2>1. /\ 2 * (a - b) < TimeMod - 1 /\ 2 * (a - b) > 1 - TimeMod
    BY <1>1, HalfRange DEF Near
  <2>2. x - y < TimeMod /\ x - y > -TimeMod
    BY <1>1, <1>4 DEF Time
  <2> QED
    BY <1>1, <1>2, <1>3, <2>1, <2>2 DEF Wrap
<1>6. a >= b => a - b < HALF_MAX_TIME_VAL
  BY <1>2 DEF Near
<1>7. ~(a >= b) => ~(a - b + TimeMod < HALF_MAX_TIME_VAL)
  BY <1>1, <1>2, HalfRange DEF Near
<1> QED
  BY <1>5, <1>6, <1>7 DEF TIME_GE

\* A point of time keeps its representation while the current time moves on by
\* d and the distance to the point shrinks by d.
LEMMA DistanceShrinks ==
  ASSUME NEW now \in Time, NEW a, Near(a), NEW d \in Nat, d < TimeMod, Near(a - d)
  PROVE  Wrap(TIME_ADD(now, d) + (a - d)) = Wrap(now + a)
<1>1. now \in Int /\ 0 <= now /\ now < TimeMod /\ TimeMod \in Nat /\ d \in Int /\ a \in Int
  BY TimeModAssumption DEF Time, Near
<1>2. /\ 2 * a < TimeMod /\ 2 * a > -TimeMod
      /\ 2 * (a - d) < TimeMod /\ 2 * (a - d) > -TimeMod
  BY <1>1, HalfRange DEF Near
<1> QED
  BY <1>1, <1>2 DEF Wrap, TIME_ADD

-----------------------------------------------------------------------------
(* Linking and unlinking an entry of a list (ZB_LIST_INSERT_AFTER,         *)
(* ZB_LIST_REMOVE and their like in include/zb_list_macros.h), for lists   *)
(* modelled as sequences.                                                  *)

\* Inserting at i moves the entries from i on one place back.
LEMMA InsertAtProperties ==
  ASSUME NEW S, NEW q \in Seq(S), NEW i \in 1 .. Len(q) + 1, NEW e \in S
  PROVE  /\ InsertAt(q, i, e) \in Seq(S)
         /\ Len(InsertAt(q, i, e)) = Len(q) + 1
         /\ \A k \in 1 .. Len(q) + 1 :
              InsertAt(q, i, e)[k] = IF k < i THEN q[k] ELSE IF k = i THEN e ELSE q[k - 1]
<1> DEFINE a == SubSeq(q, 1, i - 1)
           b == SubSeq(q, i, Len(q))
<1>0. Len(q) \in Nat /\ i \in Int /\ \A k \in 1 .. Len(q) : q[k] \in S
  BY LenProperties, ElementOfSeq
<1>1. /\ a \in Seq(S) /\ Len(a) = i - 1
      /\ \A k \in 1 .. i - 1 : a[k] = q[k]
  BY <1>0, SubSeqProperties, 1 \in Int, i - 1 \in Int
<1>2. /\ b \in Seq(S) /\ Len(b) = Len(q) - i + 1
      /\ \A k \in 1 .. Len(q) - i + 1 : b[k] = q[i + k - 1]
  <2>1. \A k \in i .. Len(q) : q[k] \in S
    BY <1>0
  <2> QED
    BY <1>0, <2>1, SubSeqProperties
<1>3. <<e>> \in Seq(S) /\ Len(<<e>>) = 1 /\ <<e>>[1] = e
  OBVIOUS
<1> DEFINE c == a \o <<e>>
<1>4. /\ c \in Seq(S) /\ Len(c) = i
      /\ \A k \in 1 .. i : c[k] = IF k < i THEN q[k] ELSE e
  <2>1. /\ c \in Seq(S) /\ Len(c) = Len(a) + 1
        /\ \A k \in 1 .. Len(a) + 1 : c[k] = IF k <= Len(a) THEN a[k] ELSE <<e>>[k - Len(a)]
    BY <1>1, <1>3, ConcatProperties
  <2> HIDE DEF a, c
  <2>2. Len(a) = i - 1 /\ Len(c) = i
    BY <1>0, <1>1, <2>1
  <2>3. ASSUME NEW k \in 1 .. i
        PROVE  c[k] = IF k < i THEN q[k] ELSE e
    <3>1. c[k] = IF k <= i - 1 THEN a[k] ELSE <<e>>[k - (i - 1)]
      BY <1>0, <2>1, <2>2
    <3>2. CASE k < i
      BY <1>0, <1>1, <3>1, <3>2
    <3>3. CASE k = i
      BY <1>0, <1>3, <3>1, <3>3
    <3> QED
      BY <1>0, <3>2, <3>3
  <2> QED
    BY <2>1, <2>2, <2>3
<1>5. /\ c \o b \in Seq(S) /\ Len(c \o b) = Len(c) + Len(b)
      /\ \A k \in 1 .. Len(c) + Len(b) : (c \o b)[k] = IF k <= Len(c) THEN c[k] ELSE b[k - Len(c)]
  <2>1. c \in Seq(S) /\ b \in Seq(S)
    BY <1>2, <1>4
  <2> HIDE DEF b, c
  <2> QED
    BY <2>1, ConcatProperties
<1>6. InsertAt(q, i, e) = c \o b
  BY DEF InsertAt
<1> HIDE DEF a, b, c
<1>7. Len(c) + Len(b) = Len(q) + 1
  BY <1>0, <1>2, <1>4
<1>8. ASSUME NEW k \in 1 .. Len(q) + 1
      PROVE  InsertAt(q, i, e)[k] = IF k < i THEN q[k] ELSE IF k = i THEN e ELSE q[k - 1]
  <2>1. InsertAt(q, i, e)[k] = IF k <= i THEN c[k] ELSE b[k - i]
    BY <1>4, <1>5, <1>6, <1>7
  <2>2. CASE k <= i
    BY <1>0, <1>4, <2>1, <2>2
  <2>3. CASE k > i
    <3>1. k - i \in 1 .. Len(b)
      BY <1>0, <1>2, <1>4, <1>7, <2>3
    <3> QED
      BY <1>0, <1>2, <2>1, <2>3, <3>1
  <2> QED
    BY <1>0, <2>2, <2>3
<1> QED
  BY <1>5, <1>6, <1>7, <1>8

\* Removing i moves the entries behind it one place forward.
LEMMA RemoveAtProperties ==
  ASSUME NEW S, NEW q \in Seq(S), NEW i \in 1 .. Len(q)
  PROVE  /\ RemoveAt(q, i) \in Seq(S)
         /\ Len(RemoveAt(q, i)) = Len(q) - 1
         /\ \A k \in 1 .. Len(q) - 1 :
              RemoveAt(q, i)[k] = IF k < i THEN q[k] ELSE q[k + 1]
<1> DEFINE a == SubSeq(q, 1, i - 1)
           b == SubSeq(q, i + 1, Len(q))
<1>0. Len(q) \in Nat /\ i \in Int /\ \A k \in 1 .. Len(q) : q[k] \in S
  BY LenProperties, ElementOfSeq
<1>1. /\ a \in Seq(S) /\ Len(a) = i - 1
      /\ \A k \in 1 .. i - 1 : a[k] = q[k]
  BY <1>0, SubSeqProperties, 1 \in Int, i - 1 \in Int
<1>2. /\ b \in Seq(S) /\ Len(b) = Len(q) - i
      /\ \A k \in 1 .. Len(q) - i : b[k] = q[i + k]
  <2>1. \A k \in i + 1 .. Len(q) : q[k] \in S
    BY <1>0
  <2> QED
    BY <1>0, <2>1, SubSeqProperties, i + 1 \in Int
<1>3. /\ a \o b \in Seq(S) /\ Len(a \o b) = Len(a) + Len(b)
      /\ \A k \in 1 .. Len(a) + Len(b) : (a \o b)[k] = IF k <= Len(a) THEN a[k] ELSE b[k - Len(a)]
  BY <1>1, <1>2, ConcatProperties
<1>4. RemoveAt(q, i) = a \o b
  BY DEF RemoveAt
<1> HIDE DEF a, b
<1>5. ASSUME NEW k \in 1 .. Len(q) - 1
      PROVE  (a \o b)[k] = IF k < i THEN q[k] ELSE q[k + 1]
  <2>0. Len(a) + Len(b) = Len(q) - 1 /\ Len(a) = i - 1
    BY <1>0, <1>1, <1>2
  <2>1. (a \o b)[k] = IF k <= i - 1 THEN a[k] ELSE b[k - (i - 1)]
    BY <1>3, <2>0
  <2>2. CASE k < i
    BY <1>0, <1>1, <2>1, <2>2
  <2>3. CASE ~(k < i)
    BY <1>0, <1>2, <2>1, <2>3
  <2> QED
    BY <2>2, <2>3
<1>6. Len(a \o b) = Len(q) - 1
  BY <1>0, <1>1, <1>2, <1>3
<1> QED
  BY <1>3, <1>4, <1>5, <1>6

-----------------------------------------------------------------------------
(* The alarm list.                                                         *)

Alarm == [func : Funcs, param : Params, run_time : Time, left : Int]

\* How far from due an alarm can be.
Window(left) == left >= -MaxLate /\ left + MaxLate + MaxPass < HALF_MAX_TIME_VAL

\* tm_queue at time now: run times are representations of the distances left,
\* which stay in the window and do not decrease along the queue.
Timed(q, now) ==
  /\ q \in Seq(Alarm)
  /\ \A i \in 1 .. Len(q) : Window(q[i].left) /\ q[i].run_time = Wrap(now + q[i].left)
  /\ \A i, j \in 1 .. Len(q) : i <= j => q[i].left <= q[j].left

\* The parameters are numbers, and the window is below half the range.
LEMMA Parameters ==
  /\ MaxLate \in Nat /\ MaxPass \in Nat /\ TmQSize \in Nat /\ IdleTimeout \in Nat
  /\ TimeMod \in Nat /\ 0 \in Time
  /\ \A r \in RunAfter : r \in Nat /\ r > 0 /\ Window(r)
BY SchedAssumption, TimeModAssumption, HalfRange DEF Window, Time

\* Distances in the window are near enough for ZB_TIME_GE, and near each other.
LEMMA WindowIsNear ==
  ASSUME NEW a \in Int, NEW b \in Int, Window(a), Window(b)
  PROVE  Near(a) /\ Near(b) /\ Near(a - b) /\ Near(b - a)
BY Parameters, HalfRange, SchedAssumption DEF Window, Near

\* They are near a moment up to MaxPass ago, too.
LEMMA CopyIsNear ==
  ASSUME NEW a \in Int, Window(a), NEW g \in 0 .. MaxPass
  PROVE  Near(a) /\ Near(-g) /\ Near((-g) - a)
BY Parameters, HalfRange, SchedAssumption DEF Window, Near

-----------------------------------------------------------------------------
(* The operations on tm_queue. *)

\* A queue of which no time has passed is what it was.
LEMMA AgedByZero ==
  ASSUME NEW q \in Seq(Alarm)
  PROVE  Aged(q, 0) = q
<1>1. \A i \in 1 .. Len(q) : q[i] \in Alarm
  BY ElementOfSeq
<1>2. \A i \in 1 .. Len(q) : [q[i] EXCEPT !.left = @ - 0] = q[i]
  BY <1>1 DEF Alarm
<1>3. DOMAIN q = 1 .. Len(q) /\ q = [i \in 1 .. Len(q) |-> q[i]]
  BY LenProperties
<1> QED
  BY <1>2, <1>3 DEF Aged

\* Only the distance of an alarm changes with time.
LEMMA AlarmAges ==
  ASSUME NEW e \in Alarm, NEW d \in Int
  PROVE  LET x == [e EXCEPT !.left = @ - d]
         IN  x \in Alarm /\ x.left = e.left - d /\ x.run_time = e.run_time
BY DEF Alarm

\* As the timer moves by d, run times keep meaning what they meant.
LEMMA AgedIsTimed ==
  ASSUME NEW q, NEW now \in Time, Timed(q, now),
         NEW d \in Nat, d < TimeMod,
         \A i \in DOMAIN q : q[i].left - d >= -MaxLate
  PROVE  Timed(Aged(q, d), TIME_ADD(now, d)) /\ Len(Aged(q, d)) = Len(q)
<1> DEFINE r == Aged(q, d)
<1>1. /\ q \in Seq(Alarm) /\ Len(q) \in Nat /\ DOMAIN q = 1 .. Len(q)
      /\ \A i \in 1 .. Len(q) : q[i] \in Alarm
  BY LenProperties, ElementOfSeq DEF Timed
<1>2. r = [i \in 1 .. Len(q) |-> [q[i] EXCEPT !.left = @ - d]]
  BY <1>1 DEF Aged
<1>3. ASSUME NEW i \in 1 .. Len(q)
      PROVE  /\ r[i] \in Alarm /\ r[i].left = q[i].left - d
             /\ r[i].run_time = q[i].run_time
             /\ q[i].left \in Int /\ Window(q[i].left)
             /\ q[i].left - d >= -MaxLate
  <2>1. r[i] = [q[i] EXCEPT !.left = @ - d]
    BY <1>2
  <2>2. q[i] \in Alarm
    BY <1>1
  <2>3. r[i] \in Alarm /\ r[i].left = q[i].left - d /\ r[i].run_time = q[i].run_time
    BY <2>1, <2>2, AlarmAges
  <2>4. q[i].left \in Int
    BY <2>2 DEF Alarm
  <2> QED
    BY <1>1, <2>3, <2>4 DEF Timed
<1>4. r \in Seq(Alarm) /\ Len(r) = Len(q)
  <2>1. r \in [1 .. Len(q) -> Alarm]
    BY <1>2, <1>3
  <2> QED
    BY <1>1, <2>1
<1> HIDE DEF r
<1>5. \A i \in 1 .. Len(q) : Window(r[i].left)
  <2> TAKE i \in 1 .. Len(q)
  <2>1. r[i].left = q[i].left - d /\ q[i].left - d <= q[i].left /\ r[i].left \in Int
    BY <1>3
  <2> QED
    BY SMTT(60), <1>3, <2>1, Parameters, HalfRange DEF Window
<1>6. ASSUME NEW i \in 1 .. Len(q)
      PROVE  r[i].run_time = Wrap(TIME_ADD(now, d) + r[i].left)
  <2>1. Near(q[i].left) /\ Near(q[i].left - d)
    <3>1. Window(q[i].left - d)
      BY <1>3, <1>5
    <3> QED
      BY <1>3, <3>1, WindowIsNear
  <2>2. q[i].run_time = Wrap(now + q[i].left)
    BY DEF Timed
  <2> QED
    BY <1>3, <2>1, <2>2, DistanceShrinks
<1>7. \A i, j \in 1 .. Len(q) : i <= j => r[i].left <= r[j].left
  <2> TAKE i, j \in 1 .. Len(q)
  <2>1. i <= j => q[i].left <= q[j].left
    BY DEF Timed
  <2> QED
    BY <1>3, <2>1
<1> QED
  BY <1>4, <1>5, <1>6, <1>7 DEF Timed, r

\* zb_schedule_alarm links an alarm where it becomes due.
LEMMA InsertIsTimed ==
  ASSUME NEW q, NEW now \in Time, Timed(q, now),
         NEW f \in Funcs, NEW p \in Params, NEW run_after \in RunAfter,
         NEW i \in 1 .. Len(q) + 1, IsInsertPos(q, TIME_ADD(now, run_after), i)
  PROVE  LET nent == [func |-> f, param |-> p, run_time |-> TIME_ADD(now, run_after),
                      left |-> run_after]
         IN  /\ Timed(InsertAt(q, i, nent), now)
             /\ Len(InsertAt(q, i, nent)) = Len(q) + 1
<1> DEFINE nent == [func |-> f, param |-> p, run_time |-> TIME_ADD(now, run_after),
                    left |-> run_after]
           r == InsertAt(q, i, nent)
<1>1. /\ q \in Seq(Alarm) /\ Len(q) \in Nat /\ i \in Int
      /\ \A k \in 1 .. Len(q) : /\ q[k] \in Alarm /\ q[k].left \in Int /\ Window(q[k].left)
                                /\ q[k].run_time = Wrap(now + q[k].left)
  <2>1. q \in Seq(Alarm) /\ Len(q) \in Nat
    BY LenProperties DEF Timed
  <2>2. \A k \in 1 .. Len(q) : q[k] \in Alarm
    BY <2>1, ElementOfSeq
  <2>3. \A k \in 1 .. Len(q) : q[k].left \in Int
    BY <2>2 DEF Alarm
  <2> QED
    BY <2>1, <2>2, <2>3 DEF Timed
<1>2. run_after \in Int /\ Window(run_after)
  BY Parameters
<1>3. TIME_ADD(now, run_after) = Wrap(now + run_after) /\ TIME_ADD(now, run_after) \in Time
  <2>1. run_after < TimeMod
    BY <1>2, Parameters, HalfRange DEF Window
  <2> QED
    BY <1>2, <2>1, Parameters, WrapType DEF TIME_ADD, Time
<1>4. nent \in Alarm /\ nent.left = run_after /\ nent.run_time = Wrap(now + run_after)
  BY <1>2, <1>3 DEF Alarm
<1>5. \A k \in 1 .. Len(q) :
        /\ TIME_GE(TIME_ADD(now, run_after), q[k].run_time) <=> run_after >= q[k].left
        /\ TIME_GE(q[k].run_time, TIME_ADD(now, run_after)) <=> q[k].left >= run_after
  <2> TAKE k \in 1 .. Len(q)
  <2>1. /\ Near(run_after) /\ Near(q[k].left)
        /\ Near(run_after - q[k].left) /\ Near(q[k].left - run_after)
    BY <1>1, <1>2, WindowIsNear
  <2>2. q[k].run_time = Wrap(now + q[k].left)
    BY DEF Timed
  <2> QED
    BY <1>3, <2>1, <2>2, TimeGeIsDistance
<1>6. /\ \A k \in 1 .. Len(q) : k < i => q[k].left <= run_after
      /\ \A k \in 1 .. Len(q) : k >= i => run_after <= q[k].left
  <2>1. CASE q = << >> \/ TIME_GE(q[1].run_time, TIME_ADD(now, run_after))
    <3>1. i = 1
      BY <2>1 DEF IsInsertPos
    <3>2. \A k \in 1 .. Len(q) : q[1].left >= run_after /\ q[1].left <= q[k].left
      <4> TAKE k \in 1 .. Len(q)
      <4>1. 1 \in 1 .. Len(q) /\ q # << >>
        BY <1>1, EmptySeq
      <4> QED
        BY <1>1, <1>5, <2>1, <4>1 DEF Timed
    <3> QED
      BY <1>1, <1>2, <3>1, <3>2
  <2>2. CASE ~(q = << >> \/ TIME_GE(q[1].run_time, TIME_ADD(now, run_after)))
    <3>1. /\ \A j \in 1 .. i - 1 : TIME_GE(TIME_ADD(now, run_after), q[j].run_time)
          /\ i <= Len(q) => ~TIME_GE(TIME_ADD(now, run_after), q[i].run_time)
      BY <2>2 DEF IsInsertPos
    <3>2. \A k \in 1 .. Len(q) : k < i => q[k].left <= run_after
      BY SMTT(40), <1>1, <1>2, <1>5, <3>1
    <3>3. \A k \in 1 .. Len(q) : k >= i => run_after <= q[k].left
      <4> TAKE k \in 1 .. Len(q)
      <4>1. k >= i => i \in 1 .. Len(q) /\ run_after < q[i].left /\ q[i].left <= q[k].left
        BY <1>1, <1>2, <1>5, <3>1 DEF Timed
      <4> QED
        BY <1>1, <1>2, <4>1
    <3> QED
      BY <3>2, <3>3
  <2> QED
    BY <2>1, <2>2
<1> HIDE DEF nent
<1>7. /\ r \in Seq(Alarm) /\ Len(r) = Len(q) + 1
      /\ \A k \in 1 .. Len(q) + 1 :
           r[k] = IF k < i THEN q[k] ELSE IF k = i THEN nent ELSE q[k - 1]
  BY <1>1, <1>4, InsertAtProperties
<1> HIDE DEF r
<1>8. \A k \in 1 .. Len(q) + 1 : Window(r[k].left) /\ r[k].run_time = Wrap(now + r[k].left)
  <2> TAKE k \in 1 .. Len(q) + 1
  <2>1. \/ k \in 1 .. Len(q) /\ r[k] = q[k]
        \/ r[k] = nent
        \/ k - 1 \in 1 .. Len(q) /\ r[k] = q[k - 1]
    BY <1>1, <1>7
  <2> QED
    BY <1>1, <1>2, <1>4, <2>1
<1>9. ASSUME NEW k \in 1 .. Len(q) + 1, NEW l \in 1 .. Len(q) + 1, k <= l
      PROVE  r[k].left <= r[l].left
  <2>1. \A m, n \in 1 .. Len(q) : m <= n => q[m].left <= q[n].left
    BY DEF Timed
  <2>2. CASE l < i
    <3>1. /\ k \in 1 .. Len(q) /\ r[k] = q[k]
          /\ l \in 1 .. Len(q) /\ r[l] = q[l]
      BY <1>1, <1>7, <1>9, <2>2
    <3> QED
      BY <1>9, <2>1, <3>1
  <2>3. CASE l = i
    <3>1. r[l] = nent
      BY <1>1, <1>7, <2>3
    <3>2. CASE k < i
      <4>1. k \in 1 .. Len(q) /\ r[k] = q[k]
        BY <1>1, <1>7, <2>3, <3>2
      <4> QED
        BY <1>4, <1>6, <3>1, <3>2, <4>1
    <3>3. CASE k = i
      BY <1>2, <1>4, <2>3, <3>1, <3>3
    <3> QED
      BY <1>1, <1>9, <2>3, <3>2, <3>3
  <2>4. CASE l > i
    <3>1. r[l] = q[l - 1] /\ l - 1 \in 1 .. Len(q) /\ l - 1 >= i
      BY <1>1, <1>7, <2>4
    <3>2. CASE k < i
      <4>1. k \in 1 .. Len(q) /\ r[k] = q[k] /\ k <= l - 1
        BY <1>1, <1>7, <2>4, <3>2
      <4> QED
        BY <2>1, <3>1, <4>1
    <3>3. CASE k = i
      <4>1. r[k] = nent
        BY <1>1, <1>7, <3>3
      <4> QED
        BY <1>4, <1>6, <3>1, <4>1
    <3>4. CASE k > i
      <4>1. k - 1 \in 1 .. Len(q) /\ r[k] = q[k - 1] /\ k - 1 <= l - 1
        BY <1>1, <1>7, <1>9, <3>4
      <4> QED
        BY <2>1, <3>1, <4>1
    <3> QED
      BY <1>1, <3>2, <3>3, <3>4
  <2> QED
    BY <1>1, <2>2, <2>3, <2>4
<1> QED
  BY <1>7, <1>8, <1>9 DEF Timed, nent, r

\* zb_schedule_alarm_cancel leaves the other alarms as they are.
LEMMA RemoveIsTimed ==
  ASSUME NEW q, NEW now \in Time, Timed(q, now), NEW i \in DOMAIN q
  PROVE  Timed(RemoveAt(q, i), now) /\ Len(RemoveAt(q, i)) = Len(q) - 1
<1> DEFINE r == RemoveAt(q, i)
<1>1. /\ q \in Seq(Alarm) /\ Len(q) \in Nat /\ i \in 1 .. Len(q)
  BY LenProperties DEF Timed
<1>2. /\ r \in Seq(Alarm) /\ Len(r) = Len(q) - 1
      /\ \A k \in 1 .. Len(q) - 1 : r[k] = IF k < i THEN q[k] ELSE q[k + 1]
  BY <1>1, RemoveAtProperties
<1> HIDE DEF r
<1>3. \A k \in 1 .. Len(q) - 1 : Window(r[k].left) /\ r[k].run_time = Wrap(now + r[k].left)
  BY SMTT(40), <1>1, <1>2 DEF Timed
<1>4. \A k, l \in 1 .. Len(q) - 1 : k <= l => r[k].left <= r[l].left
  BY SMTT(40), <1>1, <1>2 DEF Timed
<1> QED
  BY <1>1, <1>2, <1>3, <1>4 DEF Timed, r

\* So does the loop when it takes the head.
LEMMA TailIsTimed ==
  ASSUME NEW q, NEW now \in Time, Timed(q, now), q # << >>
  PROVE  /\ Timed(Tail(q), now) /\ Len(Tail(q)) = Len(q) - 1
         /\ Head(q) = q[1] /\ Head(q) \in Alarm /\ Window(Head(q).left)
         /\ Head(q).run_time = Wrap(now + Head(q).left)
<1>1. q \in Seq(Alarm) /\ Len(q) \in Nat /\ Len(q) > 0 /\ 1 \in 1 .. Len(q)
  BY LenProperties, EmptySeq DEF Timed
<1>2. /\ Head(q) \in Alarm /\ Tail(q) \in Seq(Alarm) /\ Len(Tail(q)) = Len(q) - 1
      /\ \A k \in 1 .. Len(q) - 1 : Tail(q)[k] = q[k + 1]
  BY <1>1, HeadTailProperties
<1>3. Head(q) = q[1]
  OBVIOUS
<1>4. Timed(Tail(q), now)
  BY <1>1, <1>2 DEF Timed
<1> QED
  BY <1>1, <1>2, <1>3, <1>4 DEF Timed
-----------------------------------------------------------------------------
(* The inductive invariant. *)

\* TypeOK without what follows from the other parts.
Types ==
  /\ cb_q \in Seq(Callback) /\ Len(cb_q) <= CbQSize
  /\ tm_free \in Nat
  /\ timer \in Time /\ timer_stop \in Time /\ t \in Time /\ stop \in Time
  /\ age \in 0 .. MaxPass
  /\ pc \in {"mac", "cbs", "cb", "tm", "tml", "alarm", "tmend", "end", "io"}
  /\ ent \in Callback \cup {NoEnt}
  /\ arm \in {"none", "check", "start", "set", "hw", "cancel"}
  /\ cancel \in Funcs \cup {NoFunc}

Flags ==
  /\ started \in BOOLEAN /\ hw \in BOOLEAN
  /\ trans_int \in BOOLEAN /\ did_something \in BOOLEAN

\* While alarms are being run, t is the timer of age ticks ago.
CopyOfTimer ==
  pc = "alarm" \/ (pc = "tml" /\ tm_queue # << >>) => t = Wrap(timer - age)

\* What a call in progress relies on.
Calls ==
  /\ ent = NoEnt <=> pc # "alarm"
  /\ pc = "cb" => cb_q # << >>
  /\ arm = "check" => tm_queue # << >>
  /\ arm # "none" => pc \in {"mac", "cb", "alarm", "end"}

IInv == Types /\ Timed(tm_queue, timer) /\ EntriesConserved /\ CopyOfTimer /\ Calls

\* An empty list of alarms is in order.
LEMMA EmptyIsTimed == Timed(<< >>, 0)
BY EmptySeq DEF Timed

\* The scheduler starts with all entries on the freelist.
LEMMA InitIInv == Init => IInv
<1> SUFFICES ASSUME Init PROVE IInv
  OBVIOUS
<1>1. << >> \in Seq(Callback) /\ Len(<< >>) = 0
  BY EmptySeq
<1>2. Types
  <2>1. CbQSize \in Nat /\ 0 \in 0 .. MaxPass
    BY Parameters, SchedAssumption
  <2>2. /\ cb_q = << >> /\ Len(cb_q) <= CbQSize
        /\ tm_free \in Nat
        /\ timer \in Time /\ timer_stop \in Time /\ t \in Time /\ stop \in Time
        /\ age \in 0 .. MaxPass
        /\ pc = "mac" /\ ent = NoEnt /\ arm = "none" /\ cancel = NoFunc
    BY <1>1, <2>1, Parameters DEF Init
  <2> QED
    BY <1>1, <2>2 DEF Types
<1>3. Timed(tm_queue, timer)
  BY EmptyIsTimed DEF Init
<1>4. EntriesConserved
  BY <1>1, Parameters DEF Init, EntriesConserved
<1> QED
  BY <1>2, <1>3, <1>4 DEF Init, IInv, CopyOfTimer, Calls

\* A callback in a slot of the ring buffer is no empty alarm.
LEMMA CallbackIsNotNoEnt ==
  ASSUME NEW e \in Callback PROVE e # NoEnt
<1>1. DOMAIN e = {"func", "param"}
  BY DEF Callback
<1>2. DOMAIN NoEnt = 1 .. 0
  BY DEF NoEnt
<1>3. "func" \in {"func", "param"} /\ 1 .. 0 = {}
  OBVIOUS
<1> QED
  BY <1>1, <1>2, <1>3

\* A read of the timer in one piece takes no time.
LEMMA WholeRead ==
  ASSUME IInv, ~TornReads, NEW d \in {0, 1}, NEW x \in Time, ReadTimer(x, d)
  PROVE  /\ d = 0 /\ x = timer /\ UNCHANGED clockVars
         /\ Aged(tm_queue, d) = tm_queue
         /\ AgeBy(d) => /\ age' \in 0 .. MaxPass
                        /\ pc \in {"tml", "alarm"} => age' = age
<1>1. d = 0 /\ x = timer /\ UNCHANGED clockVars
  BY DEF ReadTimer
<1>2. Aged(tm_queue, 0) = tm_queue
  BY AgedByZero DEF IInv, Timed
<1>3. AgeBy(0) => age' \in 0 .. MaxPass /\ (pc \in {"tml", "alarm"} => age' = age)
  BY Parameters DEF IInv, Types, AgeBy
<1> QED
  BY <1>1, <1>2, <1>3

\* Passing time: the interrupt handler and the wait for I/O move the timer by d.
LEMMA TimePasses ==
  ASSUME IInv, NEW d \in Nat, d < TimeMod, CanAge(d),
         timer' = TIME_ADD(timer, d), tm_queue' = Aged(tm_queue, d)
  PROVE  Timed(tm_queue, timer)' /\ timer' \in Time /\ Len(tm_queue') = Len(tm_queue)
<1>1. timer \in Time /\ Timed(tm_queue, timer) /\ d \in Time
  BY Parameters DEF IInv, Types, Time
<1>2. \A i \in DOMAIN tm_queue : tm_queue[i].left - d >= -MaxLate
  BY DEF CanAge
<1>3. Timed(Aged(tm_queue, d), TIME_ADD(timer, d)) /\ Len(Aged(tm_queue, d)) = Len(tm_queue)
  BY <1>1, <1>2, AgedIsTimed
<1> QED
  BY <1>1, <1>3, ArithmeticType

-----------------------------------------------------------------------------
(* Every step preserves the invariant. *)

\* The calls of the scheduler API.
LEMMA UserCallIInv ==
  ASSUME IInv, ~TornReads, UserCall
  PROVE  IInv'
<1>0. pc \in {"mac", "cb", "alarm"} /\ arm = "none"
  BY DEF UserCall, zb_schedule_callback, zb_schedule_alarm, zb_schedule_alarm_cancel, InUserCode
<1>1. ASSUME NEW f \in Funcs, NEW p \in Params, zb_schedule_callback(f, p)
      PROVE  IInv'
  <2>1. /\ Len(cb_q) < CbQSize /\ cb_q' = Append(cb_q, [func |-> f, param |-> p])
        /\ UNCHANGED <<tm_queue, tm_free, clockVars, trans_int, loopVars, age, callVars>>
    BY <1>1 DEF zb_schedule_callback
  <2>2. cb_q' \in Seq(Callback) /\ Len(cb_q') = Len(cb_q) + 1 /\ cb_q' # << >>
    <3>1. [func |-> f, param |-> p] \in Callback /\ cb_q \in Seq(Callback)
      BY DEF Callback, IInv, Types
    <3> QED
      BY <2>1, <3>1, AppendProperties
  <2>3. Types'
    BY <2>1, <2>2, SchedAssumption DEF IInv, Types, clockVars, loopVars, callVars
  <2> QED
    BY <2>1, <2>2, <2>3 DEF IInv, EntriesConserved, CopyOfTimer, Calls, clockVars, loopVars,
       callVars
<1>2. ASSUME NEW f \in Funcs, NEW p \in Params, NEW r \in RunAfter, zb_schedule_alarm(f, p, r)
      PROVE  IInv'
  <2>1. PICK d \in {0, 1}, x \in Time, i \in 1 .. Len(tm_queue) + 1 :
          /\ ReadTimer(x, d)
          /\ IsInsertPos(tm_queue, TIME_ADD(x, r), i)
          /\ tm_queue' = InsertAt(Aged(tm_queue, d), i,
                                  [func |-> f, param |-> p, run_time |-> TIME_ADD(x, r),
                                   left |-> r - d])
          /\ AgeBy(d)
    BY <1>2 DEF zb_schedule_alarm
  <2>2. /\ d = 0 /\ x = timer /\ UNCHANGED clockVars /\ Aged(tm_queue, d) = tm_queue
        /\ age' \in 0 .. MaxPass /\ (pc \in {"tml", "alarm"} => age' = age)
    BY <2>1, WholeRead
  <2>3. r - d = r
    BY <2>2, Parameters
  <2>4. Timed(tm_queue', timer) /\ Len(tm_queue') = Len(tm_queue) + 1
    BY <2>1, <2>2, <2>3, InsertIsTimed DEF IInv, Types
  <2>5. /\ tm_free > 0 /\ tm_free' = tm_free - 1 /\ arm' = "check"
        /\ UNCHANGED <<cb_q, trans_int, loopVars, stop, cancel>>
    BY <1>2 DEF zb_schedule_alarm
  <2>6. Types' /\ EntriesConserved'
    BY <2>2, <2>4, <2>5, LenProperties DEF IInv, Types, EntriesConserved, Timed, clockVars, loopVars
  <2>7. tm_queue' # << >>
    BY <2>4, EmptySeq, LenProperties DEF IInv, Timed
  <2>8. CopyOfTimer' /\ Calls'
    BY <1>0, <2>2, <2>5, <2>7 DEF IInv, CopyOfTimer, Calls, clockVars, loopVars
  <2> QED
    BY <2>2, <2>4, <2>6, <2>8 DEF IInv, clockVars
<1>3. ASSUME NEW f \in Funcs, NEW p \in Params \cup {ANY_PARAM, ALL_CB},
             zb_schedule_alarm_cancel(f, p)
      PROVE  IInv'
  <2>1. PICK i \in DOMAIN tm_queue : RemoveAlarm(i, f, p)
    BY <1>3 DEF zb_schedule_alarm_cancel
  <2>2. Timed(tm_queue', timer) /\ Len(tm_queue') = Len(tm_queue) - 1 /\ tm_free' = tm_free + 1
    BY <2>1, RemoveIsTimed DEF RemoveAlarm, IInv, Types
  <2>3. /\ arm' \in {"none", "cancel"} /\ cancel' \in Funcs \cup {NoFunc}
        /\ UNCHANGED <<cb_q, clockVars, trans_int, loopVars, age, stop>>
    BY <1>0, <1>3 DEF zb_schedule_alarm_cancel, IInv, Types
  <2>4. Types' /\ EntriesConserved'
    BY <2>2, <2>3, LenProperties DEF IInv, Types, EntriesConserved, Timed, clockVars, loopVars
  <2>5. CopyOfTimer' /\ Calls'
    BY <1>0, <2>3 DEF IInv, CopyOfTimer, Calls, clockVars, loopVars
  <2> QED
    BY <2>2, <2>3, <2>4, <2>5 DEF IInv, clockVars
<1> QED
  BY <1>1, <1>2, <1>3 DEF UserCall

\* The calls in progress: starting the timer, and an ALL_CB cancel.
LEMMA CallStepIInv ==
  ASSUME IInv, ~TornReads, CallStep
  PROVE  IInv'
<1>1. CASE AlarmArm
  <2>1. PICK d \in {0, 1}, x \in Time :
          /\ ReadTimer(x, d)
          /\ LET run_time == Head(tm_queue).run_time
             IN  IF run_time # x /\ TIME_GE(run_time, x)
                 THEN arm' = "start" /\ stop' = TIME_SUBTRACT(run_time, x)
                 ELSE arm' = "none" /\ stop' = 0
          /\ tm_queue' = Aged(tm_queue, d)
          /\ AgeBy(d)
    BY <1>1 DEF AlarmArm
  <2>2. /\ d = 0 /\ x = timer /\ UNCHANGED clockVars /\ tm_queue' = tm_queue
        /\ age' \in 0 .. MaxPass /\ (pc \in {"tml", "alarm"} => age' = age)
    BY <2>1, WholeRead
  <2>3. Head(tm_queue).run_time \in Time
    BY <1>1, TailIsTimed DEF IInv, Types, Calls, AlarmArm, Alarm
  <2>4. arm' \in {"start", "none"} /\ stop' \in Time
    BY <2>1, <2>2, <2>3, ArithmeticType, Parameters DEF IInv, Types
  <2>5. arm = "check" /\ UNCHANGED <<cb_q, tm_free, trans_int, loopVars, cancel>>
    BY <1>1 DEF AlarmArm
  <2> QED
    BY <2>2, <2>4, <2>5 DEF IInv, Types, EntriesConserved, CopyOfTimer, Calls, clockVars, loopVars
<1>2. CASE TimerStartRead
  <2>1. PICK d \in {0, 1}, x \in Time :
          ReadTimer(x, d) /\ stop' = TIME_ADD(x, stop) /\ tm_queue' = Aged(tm_queue, d) /\ AgeBy(d)
    BY <1>2 DEF TimerStartRead
  <2>2. /\ d = 0 /\ x = timer /\ UNCHANGED clockVars /\ tm_queue' = tm_queue
        /\ age' \in 0 .. MaxPass /\ (pc \in {"tml", "alarm"} => age' = age)
    BY <2>1, WholeRead
  <2>3. stop' \in Time
    BY <2>1, ArithmeticType DEF IInv, Types
  <2>4. arm = "start" /\ arm' = "set" /\ UNCHANGED <<cb_q, tm_free, trans_int, loopVars, cancel>>
    BY <1>2 DEF TimerStartRead
  <2> QED
    BY <2>2, <2>3, <2>4 DEF IInv, Types, EntriesConserved, CopyOfTimer, Calls, clockVars, loopVars
<1>3. CASE TimerStartSet
  <2>1. timer_stop' \in Time
    BY <1>3 DEF TimerStartSet, IInv, Types
  <2>2. /\ arm = "set" /\ arm' = "hw" /\ stop' = 0
        /\ UNCHANGED <<cb_q, tm_queue, tm_free, timer, loopVars, age, cancel>>
    BY <1>3 DEF TimerStartSet
  <2> QED
    BY <2>1, <2>2, Parameters DEF IInv, Types, EntriesConserved, CopyOfTimer, Calls, loopVars
<1>4. CASE TimerStartHw
  BY <1>4 DEF TimerStartHw, IInv, Types, EntriesConserved, CopyOfTimer, Calls, loopVars
<1>5. CASE CancelNext
  <2>1. \/ \E i \in DOMAIN tm_queue : RemoveAlarm(i, cancel, ALL_CB) /\ UNCHANGED <<arm, cancel>>
        \/ arm' = "none" /\ cancel' = NoFunc /\ UNCHANGED <<tm_queue, tm_free>>
    BY <1>5 DEF CancelNext
  <2>2. arm = "cancel" /\ UNCHANGED <<cb_q, clockVars, trans_int, loopVars, age, stop>>
    BY <1>5 DEF CancelNext
  <2>3. CASE \E i \in DOMAIN tm_queue : RemoveAlarm(i, cancel, ALL_CB) /\ UNCHANGED <<arm, cancel>>
    <3>1. PICK i \in DOMAIN tm_queue : RemoveAlarm(i, cancel, ALL_CB) /\ UNCHANGED <<arm, cancel>>
      BY <2>3
    <3>2. Timed(tm_queue', timer) /\ Len(tm_queue') = Len(tm_queue) - 1 /\ tm_free' = tm_free + 1
      BY <3>1, RemoveIsTimed DEF RemoveAlarm, IInv, Types
    <3>3. Types' /\ EntriesConserved'
      BY <2>2, <3>1, <3>2, LenProperties
         DEF IInv, Types, EntriesConserved, Timed, clockVars, loopVars
    <3>4. tm_queue # << >>
      BY <3>1, LenProperties, EmptySeq DEF IInv, Timed
    <3>5. CopyOfTimer' /\ Calls'
      BY <2>2, <3>1, <3>4 DEF IInv, CopyOfTimer, Calls, clockVars, loopVars
    <3> QED
      BY <2>2, <3>2, <3>3, <3>5 DEF IInv, clockVars
  <2>4. CASE arm' = "none" /\ cancel' = NoFunc /\ UNCHANGED <<tm_queue, tm_free>>
    BY <2>2, <2>4 DEF IInv, Types, EntriesConserved, CopyOfTimer, Calls, clockVars, loopVars
  <2> QED
    BY <2>1, <2>3, <2>4
<1> QED
  BY <1>1, <1>2, <1>3, <1>4, <1>5 DEF CallStep

\* The main loop.
LEMMA LoopIInv ==
  ASSUME IInv, ~TornReads, Loop
  PROVE  IInv'
<1> USE DEF IInv, Types, EntriesConserved, CopyOfTimer, Calls, Goto
<1>1. CASE MacReturn
  BY <1>1 DEF MacReturn, clockVars, callVars
<1>2. CASE CbBreak
  BY <1>2 DEF CbBreak, clockVars, callVars
<1>3. CASE CbCall
  BY <1>3 DEF CbCall, clockVars, callVars
<1>4. CASE CbReturn
  <2>1. cb_q' \in Seq(Callback) /\ Len(cb_q') <= CbQSize
    <3>1. cb_q' = Tail(cb_q) /\ cb_q # << >>
      BY <1>4 DEF CbReturn
    <3>2. cb_q' \in Seq(Callback) /\ Len(cb_q') = Len(cb_q) - 1 /\ Len(cb_q) \in Nat
      BY <3>1, HeadTailProperties, LenProperties
    <3> QED
      BY <3>2, SchedAssumption
  <2> QED
    BY <1>4, <2>1 DEF CbReturn, clockVars, callVars
<1>5. CASE CbDone
  BY <1>5 DEF CbDone, clockVars, callVars
<1>6. CASE TmEnter
  <2>1. PICK d \in {0, 1}, x \in Time :
          /\ ReadTimer(x, d)
          /\ t' = IF tm_queue = << >> THEN 0 ELSE x
          /\ tm_queue' = Aged(tm_queue, d)
          /\ age' = d
    BY <1>6 DEF TmEnter
  <2>2. d = 0 /\ x = timer /\ UNCHANGED clockVars /\ tm_queue' = tm_queue
    BY <2>1, WholeRead
  <2>3. t' \in Time /\ (tm_queue # << >> => t' = Wrap(timer - 0)) /\ age' \in 0 .. MaxPass
    <3>1. Wrap(timer - 0) = timer
      BY TimeModAssumption DEF Wrap, Time
    <3> QED
      BY <2>1, <2>2, <3>1, Parameters
  <2>4. pc' = "tml" /\ UNCHANGED <<cb_q, tm_free, trans_int, did_something, ent, callVars>>
    BY <1>6 DEF TmEnter
  <2> QED
    BY <1>6, <2>1, <2>2, <2>3, <2>4 DEF TmEnter, clockVars, callVars
<1>7. CASE TmBreak
  BY <1>7 DEF TmBreak, clockVars, callVars
<1>8. CASE AlarmCall
  <2>1. tm_queue # << >> /\ tm_queue' = Tail(tm_queue) /\ pc = "tml" /\ pc' = "alarm"
    BY <1>8 DEF AlarmCall, HeadDue
  <2>2. /\ Timed(tm_queue', timer) /\ Len(tm_queue') = Len(tm_queue) - 1
        /\ Head(tm_queue) \in Alarm
    BY <2>1, TailIsTimed
  <2>3. ent' \in Callback /\ ent' # NoEnt
    BY <1>8, <2>2, CallbackIsNotNoEnt DEF AlarmCall, Callback, Alarm
  <2>4. UNCHANGED <<cb_q, tm_free, clockVars, trans_int, t, age, callVars>>
    BY <1>8 DEF AlarmCall
  <2>5. EntriesConserved'
    <3>1. Len(tm_queue) \in Nat /\ ent = NoEnt
      BY <2>1, LenProperties DEF Timed
    <3> QED
      BY <2>2, <2>3, <2>4, <3>1
  <2>6. Types'
    BY <2>1, <2>3, <2>4 DEF clockVars, callVars
  <2>7. CopyOfTimer'
    BY <2>1, <2>4 DEF clockVars, callVars
  <2>8. Calls'
    BY <2>1, <2>3, <2>4 DEF clockVars, callVars
  <2> QED
    BY <2>2, <2>4, <2>5, <2>6, <2>7, <2>8 DEF clockVars, callVars
<1>9. CASE AlarmReturn
  <2>1. Len(tm_queue) \in Nat
    BY LenProperties DEF Timed
  <2> QED
    BY <1>9, <2>1 DEF AlarmReturn, clockVars, callVars
<1>10. CASE TmDone
  BY <1>10 DEF TmDone, clockVars, callVars
<1>11. CASE TmRestart
  <2>1. stop' \in Time /\ arm' \in {"none", "check", "start", "set", "hw", "cancel"}
        /\ (arm' = "check" => arm = "check") /\ cancel' = cancel
    <3>1. CASE tm_queue # << >>
      <4>1. Head(tm_queue).run_time \in Time
        BY <3>1, TailIsTimed DEF Alarm
      <4> QED
        BY <1>11, <3>1, <4>1, ArithmeticType DEF TmRestart
    <3>2. CASE tm_queue = << >>
      BY <1>11, <3>2 DEF TmRestart, callVars
    <3> QED
      BY <3>1, <3>2
  <2>2. /\ pc = "tmend" /\ pc' = "end"
        /\ UNCHANGED <<cb_q, tm_queue, tm_free, timer, timer_stop, t, age, ent>>
    BY <1>11 DEF TmRestart
  <2> QED
    BY <2>1, <2>2
<1>12. CASE PassEnd
  <2>1. pc = "end" /\ pc' \in {"mac", "io"} /\ t' = 0 /\ age' = 0
    BY <1>12 DEF PassEnd
  <2> QED
    BY <1>12, <2>1, Parameters DEF PassEnd, clockVars, callVars
<1>13. CASE zb_mac_wait_for_ext_event
  <2>1. /\ pc = "io" /\ pc' = "mac"
        /\ UNCHANGED <<cb_q, tm_free, timer_stop, t, age, ent, callVars>>
    BY <1>13 DEF zb_mac_wait_for_ext_event
  <2>2. Timed(tm_queue, timer)' /\ timer' \in Time /\ Len(tm_queue') = Len(tm_queue)
        /\ (tm_queue' = << >> <=> tm_queue = << >>)
    <3>1. PICK d \in 0 .. SelectTimeout + MaxPass :
            IF started
            THEN CanAge(d) /\ timer' = TIME_ADD(timer, d) /\ tm_queue' = Aged(tm_queue, d)
            ELSE UNCHANGED <<timer, tm_queue>>
      BY <1>13 DEF zb_mac_wait_for_ext_event
    <3>2. CASE started
      <4>1. d \in Nat /\ d < TimeMod
        <5>1. SelectTimeout \in Nat /\ SelectTimeout + MaxPass < TimeMod
          <6>1. CASE started /\ timer_stop # timer /\ TIME_GE(timer_stop, timer)
            <7>1. SelectTimeout = Wrap(timer_stop - timer)
              BY <6>1 DEF SelectTimeout, TIME_GE, TIME_SUBTRACT
            <7>2. Wrap(timer_stop - timer) \in Nat /\ Wrap(timer_stop - timer) < HALF_MAX_TIME_VAL
              BY <6>1, TimeModAssumption DEF TIME_GE, Wrap, Time
            <7> QED
              BY <7>1, <7>2, HalfRange, Parameters, SchedAssumption
          <6>2. CASE ~(started /\ timer_stop # timer /\ TIME_GE(timer_stop, timer))
            <7>1. SelectTimeout = IdleTimeout
              BY <6>2 DEF SelectTimeout
            <7> QED
              BY <7>1, HalfRange, Parameters, SchedAssumption
          <6> QED
            BY <6>1, <6>2
        <5> QED
          BY <5>1, Parameters
      <4>2. Timed(tm_queue, timer)' /\ timer' \in Time /\ Len(tm_queue') = Len(tm_queue)
        BY <3>1, <3>2, <4>1, TimePasses
      <4> QED
        BY <4>2, LenProperties, EmptySeq DEF Timed
    <3>3. CASE ~started
      BY <3>1, <3>3
    <3> QED
      BY <3>2, <3>3
  <2> QED
    BY <2>1, <2>2 DEF callVars
<1> QED
  BY <1>1, <1>2, <1>3, <1>4, <1>5, <1>6, <1>7, <1>8, <1>9, <1>10, <1>11, <1>12, <1>13 DEF Loop

\* The timer interrupt moves the timer by one and ages the queue with it.
LEMMA TickIInv ==
  ASSUME IInv, Tick
  PROVE  IInv'
<1>1. /\ CanAge(1) /\ timer' = TIME_ADD(timer, 1) /\ tm_queue' = Aged(tm_queue, 1) /\ AgeBy(1)
      /\ UNCHANGED <<cb_q, tm_free, trans_int, loopVars, callVars>>
  BY DEF Tick, TimerIsr
<1>2. Timed(tm_queue, timer)' /\ timer' \in Time /\ Len(tm_queue') = Len(tm_queue)
  BY <1>1, TimePasses, TimeModAssumption
<1>3. tm_queue' = << >> <=> tm_queue = << >>
  BY <1>2, LenProperties, EmptySeq DEF IInv, Timed
<1>4. timer_stop' \in Time
  BY <1>1, <1>2 DEF Tick, TimerIsr, IInv, Types
<1>5. /\ age' \in 0 .. MaxPass
      /\ pc \in {"tml", "alarm"} => age' = age + 1
  BY <1>1, Parameters DEF IInv, Types, AgeBy, CanAge
<1>6. CopyOfTimer'
  <2> SUFFICES ASSUME pc' = "alarm" \/ (pc' = "tml" /\ tm_queue' # << >>)
               PROVE  t' = Wrap(timer' - age')
    BY DEF CopyOfTimer
  <2>1. t' = Wrap(timer - age) /\ age' = age + 1
    BY <1>1, <1>3, <1>5 DEF IInv, CopyOfTimer, loopVars
  <2>2. Wrap(timer' - age') = Wrap(timer - age)
    <3>1. age + 1 < TimeMod /\ age \in Nat
      BY <1>5, <2>1, HalfRange, Parameters, SchedAssumption DEF IInv, Types
    <3> QED
      BY <1>1, <2>1, <3>1, TimeModAssumption DEF IInv, Types, TIME_ADD, Wrap, Time
  <2> QED
    BY <2>1, <2>2
<1> QED
  BY <1>1, <1>2, <1>3, <1>4, <1>5, <1>6
     DEF IInv, Types, EntriesConserved, Calls, loopVars, callVars

\* All steps together.
LEMMA NextIInv ==
  ASSUME IInv, ~TornReads, [Step]_vars
  PROVE  IInv'
<1>1. CASE TransInt
  BY <1>1 DEF TransInt, IInv, Types, EntriesConserved, CopyOfTimer, Calls, clockVars, loopVars,
     callVars
<1>2. CASE UNCHANGED vars
  BY <1>2 DEF vars, IInv, Types, EntriesConserved, CopyOfTimer, Calls
<1> QED
  BY <1>1, <1>2, UserCallIInv, CallStepIInv, LoopIInv, TickIInv DEF Step

\* The platform is one and the same throughout, so that only the rest of the state
\* matters to a step.
LEMMA SpecSteps == Spec => [][Step]_vars
<1>1. [Next]_<<platform, vars>> => [Step]_vars
  BY DEF Next
<1> QED
  BY <1>1, PTL DEF Spec

\* The invariant holds throughout, unless the interrupt can split a read of the
\* timer (ZB_TIMER_GET on the 8051).
THEOREM SpecIInv == ~TornReads => (Spec => []IInv)
<1> SUFFICES ASSUME ~TornReads PROVE Spec => []IInv
  OBVIOUS
<1>1. IInv /\ [Step]_vars => IInv'
  BY NextIInv
<1>2. Spec => Init
  BY DEF Spec
<1> QED
  BY <1>1, <1>2, InitIInv, SpecSteps, PTL

\* "Function will be called via scheduler after timeout expired": the loop calls
\* no alarm with time left, though it compares with an old copy of the timer.
THEOREM SpecNoEarlyAlarm == ~TornReads => (Spec => NoEarlyAlarm)
<1>1. ASSUME IInv, [Step]_vars
      PROVE  [AlarmCall => Head(tm_queue).left <= 0]_vars
  <2> SUFFICES ASSUME AlarmCall PROVE Head(tm_queue).left <= 0
    OBVIOUS
  <2>1. /\ pc = "tml" /\ tm_queue # << >> /\ TIME_GE(t, Head(tm_queue).run_time)
    BY DEF AlarmCall, HeadDue
  <2>2. /\ Head(tm_queue).left \in Int /\ Window(Head(tm_queue).left)
        /\ Head(tm_queue).run_time = Wrap(timer + Head(tm_queue).left)
    BY <1>1, <2>1, TailIsTimed DEF IInv, Types, Alarm
  <2>3. /\ t = Wrap(timer + (-age)) /\ age \in 0 .. MaxPass /\ age \in Int /\ timer \in Time
    BY <1>1, <2>1, Parameters, TimeModAssumption DEF IInv, Types, CopyOfTimer, Time
  <2>4. -age >= Head(tm_queue).left
    BY <2>1, <2>2, <2>3, CopyIsNear, TimeGeIsDistance
  <2> QED
    BY <2>2, <2>3, <2>4, Parameters
<1> QED
  BY <1>1, SpecSteps, SpecIInv, PTL DEF NoEarlyAlarm

\* No entry of tm_buffer is lost or entered twice, whatever is scheduled, called
\* and cancelled in whatever order (tm_freelist, tm_queue and the alarm called).
THEOREM SpecEntriesConserved == ~TornReads => (Spec => []EntriesConserved)
<1>1. IInv => EntriesConserved
  BY DEF IInv
<1> QED
  BY <1>1, SpecIInv, PTL

\* tm_queue is in the order in which alarms become due, so that looking at its
\* head is enough, for every width of the timer and every mix of delays allowed.
THEOREM SpecQueueInDueOrder == ~TornReads => (Spec => []QueueInDueOrder)
<1>1. IInv => QueueInDueOrder
  <2> SUFFICES ASSUME IInv PROVE QueueInDueOrder
    OBVIOUS
  <2>1. DOMAIN tm_queue = 1 .. Len(tm_queue) /\ Len(tm_queue) \in Nat
    BY LenProperties DEF IInv, Timed
  <2>2. \A i \in DOMAIN tm_queue : tm_queue[i].run_time = Wrap(timer + tm_queue[i].left)
    BY <2>1 DEF IInv, Timed
  <2>3. \A i \in 1 .. Len(tm_queue) - 1 : tm_queue[i].left <= tm_queue[i + 1].left
    <3> TAKE i \in 1 .. Len(tm_queue) - 1
    <3>1. i \in 1 .. Len(tm_queue) /\ i + 1 \in 1 .. Len(tm_queue) /\ i <= i + 1
      BY <2>1
    <3> QED
      BY <3>1 DEF IInv, Timed
  <2> QED
    BY <2>2, <2>3 DEF QueueInDueOrder
<1> QED
  BY <1>1, SpecIInv, PTL

\* The flags stay flags.
LEMMA NextFlags ==
  ASSUME Flags, [Step]_vars
  PROVE  Flags'
<1> USE DEF Flags
<1>1. CASE UserCall
  <2>1. UNCHANGED clockVars \/ TimerIsr
    BY <1>1, ZenonT(40) DEF UserCall, zb_schedule_callback, zb_schedule_alarm, zb_schedule_alarm_cancel,
       ReadTimer
  <2>2. UNCHANGED <<trans_int, did_something>>
    BY <1>1 DEF UserCall, zb_schedule_callback, zb_schedule_alarm, zb_schedule_alarm_cancel,
       loopVars
  <2> QED
    BY <2>1, <2>2 DEF clockVars, TimerIsr
<1>2. CASE CallStep
  <2>1. UNCHANGED <<trans_int, did_something>>
    BY <1>2 DEF CallStep, AlarmArm, TimerStartRead, TimerStartSet, TimerStartHw, CancelNext, loopVars
  <2>2. \/ UNCHANGED clockVars \/ TimerIsr
        \/ started' \in BOOLEAN /\ hw' \in BOOLEAN
    BY <1>2 DEF CallStep, AlarmArm, TimerStartRead, TimerStartSet, TimerStartHw, CancelNext,
       ReadTimer
  <2> QED
    BY <2>1, <2>2 DEF clockVars, TimerIsr
<1>3. CASE Loop
  <2>1. /\ trans_int' \in {trans_int, FALSE}
        /\ did_something' \in {did_something, TRUE, FALSE}
    BY <1>3 DEF Loop, MacReturn, CbBreak, CbCall, CbReturn, CbDone, TmEnter, TmBreak, AlarmCall,
       AlarmReturn, TmDone, TmRestart, PassEnd, zb_mac_wait_for_ext_event
  <2>2. UNCHANGED <<started, hw>> \/ TimerIsr \/ (started' = FALSE /\ UNCHANGED hw)
    BY <1>3 DEF Loop, MacReturn, CbBreak, CbCall, CbReturn, CbDone, TmEnter, TmBreak, AlarmCall,
       AlarmReturn, TmDone, TmRestart, PassEnd, zb_mac_wait_for_ext_event, clockVars, ReadTimer
  <2> QED
    BY <2>1, <2>2 DEF TimerIsr
<1>4. CASE Tick
  BY <1>4 DEF Tick, TimerIsr, loopVars
<1>5. CASE TransInt
  BY <1>5 DEF TransInt, clockVars, loopVars
<1>6. CASE UNCHANGED vars
  BY <1>6 DEF vars
<1> QED
  BY <1>1, <1>2, <1>3, <1>4, <1>5, <1>6 DEF Step

\* The variables of the scheduler keep their types.
THEOREM SpecTypeOK == ~TornReads => (Spec => []TypeOK)
<1>1. Init => Flags
  <2>1. (platform = "linux") \in BOOLEAN
    OBVIOUS
  <2> QED
    BY Zenon, <2>1 DEF Init, Flags
<1>2. Flags /\ [Step]_vars => Flags'
  BY NextFlags
<1>3. Spec => []Flags
  <2>1. Spec => Init
    BY DEF Spec
  <2> QED
    BY <1>1, <1>2, <2>1, SpecSteps, PTL
<1>4. IInv /\ Flags => TypeOK
  <2> SUFFICES ASSUME IInv, Flags PROVE TypeOK
    OBVIOUS
  <2>1. \A i \in DOMAIN tm_queue :
          /\ tm_queue[i].func \in Funcs /\ tm_queue[i].param \in Params
          /\ tm_queue[i].run_time \in Time
          /\ tm_queue[i].left \in Int /\ tm_queue[i].left >= -MaxLate
    <3> TAKE i \in DOMAIN tm_queue
    <3>1. i \in 1 .. Len(tm_queue) /\ tm_queue[i] \in Alarm
      BY LenProperties, ElementOfSeq DEF IInv, Timed
    <3> QED
      BY <3>1 DEF IInv, Timed, Alarm, Window
  <2>2. tm_free \in 0 .. TmQSize
    BY LenProperties, Parameters DEF IInv, Timed, Types, EntriesConserved
  <2> QED
    BY <2>1, <2>2 DEF IInv, Types, Flags, TypeOK
<1> QED
  BY <1>3, <1>4, SpecIInv, PTL
=============================================================================
