------------------------------ MODULE ZbSched -------------------------------
(***************************************************************************)
(* The scheduler: the callback ring buffer cb_q, the ordered alarm list    *)
(* tm_queue with its freelist, the main loop that runs both, and the timer *)
(* behind it.  Two platforms are modelled.  On the 8051 the timer is       *)
(* advanced by an interrupt handler that can run between any two steps of  *)
(* the loop or of a callback; on Linux (pipe transport) it is advanced by  *)
(* the main loop itself, inside select().                                  *)
(*                                                                         *)
(* Callbacks, alarms and the MAC main loop are opaque: while one runs      *)
(* (pc is "cb", "alarm" or "mac") it may make any sequence of calls of the *)
(* scheduler API.  Entries of tm_buffer are interchangeable, so the        *)
(* freelist is a counter.                                                  *)
(***************************************************************************)
EXTENDS ZbTime, Sequences, SequencesExt

CONSTANTS
  TornReads,      \* the 16-bit read of the timer can be split by the interrupt
  ByteMod,        \* 2^8 in the code: the timer is read in two bytes
  Funcs, Params,  \* callbacks and their parameters
  CbQSize, TmQSize,
  RunAfter,       \* the delays that alarms are scheduled with
  MaxLate,        \* bound: how late, in ticks, the loop may run an alarm
  MaxPass,        \* bound: ticks between a read of the timer in the loop and its use
  IdleTimeout     \* ZB_LINUX_PIPE_TRANSPORT_TIMEOUT, in ticks

ANY_PARAM == "any"   \* ZB_ALARM_ANY_PARAM
ALL_CB    == "all"   \* ZB_ALARM_ALL_CB

\* "It is supposed that time values will not differ to more then 1/2 of the
\* maximum time value" (include/zb_time.h).
ASSUME SchedAssumption ==
  /\ TornReads \in BOOLEAN
  /\ ByteMod \in Nat \ {0}
  /\ CbQSize \in Nat \ {0} /\ TmQSize \in Nat \ {0}
  /\ MaxLate \in Nat /\ MaxPass \in Nat /\ IdleTimeout \in Nat \ {0}
  /\ RunAfter \subseteq Nat \ {0}
  /\ \A r \in RunAfter : r + MaxLate + MaxPass < HALF_MAX_TIME_VAL
  /\ MaxLate + MaxPass < HALF_MAX_TIME_VAL
  /\ IdleTimeout + MaxPass < HALF_MAX_TIME_VAL
  /\ ANY_PARAM \notin Params /\ ALL_CB \notin Params

VARIABLES
  platform,    \* "8051" or "linux", for good
  cb_q,        \* ZG->sched.cb_q; its head stays in place while it is being called
  tm_queue,    \* alarms by run_time; left is a history value: ticks until due
  tm_free,     \* length of tm_freelist
  timer, timer_stop, started,   \* ZB_TIMER_CTX()
  hw,          \* TR0: the 8051 timer runs (always on in Linux)
  trans_int,   \* ZB_GET_TRANS_INT()
  pc,          \* where the main loop is
  ent,         \* the alarm being called
  did_something,
  t, age,      \* the loop's copy of the timer, and ticks since it was read
  arm, stop,   \* progress and target of zb_timer_start
  cancel       \* the function all of whose alarms are being cancelled

loopVars  == <<pc, ent, did_something, t>>
callVars  == <<arm, stop, cancel>>
clockVars == <<timer, timer_stop, started, hw>>
vars == <<cb_q, tm_queue, tm_free, timer, timer_stop, started, hw, trans_int,
          pc, ent, did_something, t, age, arm, stop, cancel>>

\* ent while no alarm is being called; cancel while no ALL_CB cancel is running.
NoEnt == << >>
NoFunc == "none"

Callback == [func : Funcs, param : Params]

\* Code that can call the scheduler is running and is not inside such a call.
InUserCode == pc \in {"mac", "cb", "alarm"} /\ arm = "none"

-----------------------------------------------------------------------------
(* The clock. *)

\* The value of every queued alarm's left after d ticks.
Aged(q, d) == [i \in DOMAIN q |-> [q[i] EXCEPT !.left = @ - d]]

\* Ticks are not allowed to break the assumption on time differences.
CanAge(d) ==
  /\ \A i \in DOMAIN tm_queue : tm_queue[i].left - d >= -MaxLate
  /\ pc \in {"tml", "alarm", "tmend", "end"} => age + d <= MaxPass

AgeBy(d) == age' = IF pc \in {"tml", "alarm", "tmend", "end"} THEN age + d ELSE 0

\* timer0_inter_handler.  An expired or unneeded timer switches itself off.
TimerIsr ==
  LET now     == TIME_ADD(timer, 1)
      expired == ~started \/ TIME_GE(now, timer_stop)
  IN  /\ timer' = now
      /\ timer_stop' = IF expired THEN now ELSE timer_stop
      /\ started' = (started /\ ~expired)
      /\ hw' = ~expired

\* The two results of reading one byte before and the other after a tick.
TornValues ==
  LET next == TIME_ADD(timer, 1)
  IN  {(timer \div ByteMod) * ByteMod + (next % ByteMod),
       (next \div ByteMod) * ByteMod + (timer % ByteMod)}

\* ZB_TIMER_GET() returns x while d ticks happen.
ReadTimer(x, d) ==
  \/ d = 0 /\ x = timer /\ UNCHANGED clockVars
  \/ d = 1 /\ TornReads /\ hw /\ CanAge(1) /\ x \in TornValues /\ TimerIsr

Tick ==
  /\ platform = "8051"
  /\ hw
  /\ CanAge(1)
  /\ TimerIsr
  /\ tm_queue' = Aged(tm_queue, 1)
  /\ AgeBy(1)
  /\ UNCHANGED <<cb_q, tm_free, trans_int, loopVars, callVars>>

\* The transceiver raises its interrupt.
TransInt ==
  /\ platform = "8051"
  /\ ~trans_int
  /\ trans_int' = TRUE
  /\ UNCHANGED <<cb_q, tm_queue, tm_free, clockVars, loopVars, age, callVars>>

-----------------------------------------------------------------------------
(* The scheduler API, called from user code. *)

\* On overflow RET_OVERFLOW is returned and nothing changes.
zb_schedule_callback(f, p) ==
  /\ InUserCode
  /\ Len(cb_q) < CbQSize
  /\ cb_q' = Append(cb_q, [func |-> f, param |-> p])
  /\ UNCHANGED <<tm_queue, tm_free, clockVars, trans_int, loopVars, age, callVars>>

\* Where zb_schedule_alarm links a new entry: in front of a head that is not
\* earlier, else in front of the first entry that is later, else at the tail.
IsInsertPos(q, run_time, i) ==
  IF q = << >> \/ TIME_GE(q[1].run_time, run_time) THEN i = 1
  ELSE /\ \A j \in 1 .. i - 1 : TIME_GE(run_time, q[j].run_time)
       /\ i <= Len(q) => ~TIME_GE(run_time, q[i].run_time)

zb_schedule_alarm(f, p, run_after) ==
  /\ InUserCode
  /\ tm_free > 0
  /\ tm_free' = tm_free - 1
  /\ \E d \in {0, 1}, x \in Time, i \in 1 .. Len(tm_queue) + 1 :
       /\ ReadTimer(x, d)
       /\ IsInsertPos(tm_queue, TIME_ADD(x, run_after), i)
       /\ tm_queue' = InsertAt(Aged(tm_queue, d), i,
                               [func |-> f, param |-> p, run_time |-> TIME_ADD(x, run_after),
                                left |-> run_after - d])
       /\ AgeBy(d)
  /\ arm' = "check"
  /\ UNCHANGED <<cb_q, trans_int, loopVars, stop, cancel>>

\* The tail of zb_schedule_alarm: the timer is started unless the head is due.
AlarmArm ==
  /\ arm = "check"
  /\ \E d \in {0, 1}, x \in Time :
       /\ ReadTimer(x, d)
       /\ LET run_time == Head(tm_queue).run_time
          IN  IF run_time # x /\ TIME_GE(run_time, x)
              THEN arm' = "start" /\ stop' = TIME_SUBTRACT(run_time, x)
              ELSE arm' = "none" /\ stop' = 0
       /\ tm_queue' = Aged(tm_queue, d)
       /\ AgeBy(d)
  /\ UNCHANGED <<cb_q, tm_free, trans_int, loopVars, cancel>>

\* zb_timer_start up to the critical section: stop becomes the absolute time.
TimerStartRead ==
  /\ arm = "start"
  /\ \E d \in {0, 1}, x \in Time :
       /\ ReadTimer(x, d)
       /\ stop' = TIME_ADD(x, stop)
       /\ tm_queue' = Aged(tm_queue, d)
       /\ AgeBy(d)
  /\ arm' = "set"
  /\ UNCHANGED <<cb_q, tm_free, trans_int, loopVars, cancel>>

\* The critical section.  The 8051 only ever postpones a running timer, Linux
\* only brings it forward or replaces one that has passed.  (In Linux the
\* timer cannot have moved since it was read: t_cur is timer.)
MayReplace ==
  IF platform = "8051" THEN TIME_GE(stop, timer_stop)
  ELSE ~TIME_GE(stop, timer_stop) \/ ~TIME_GE(timer_stop, timer)

TimerStartSet ==
  /\ arm = "set"
  /\ IF ~started \/ MayReplace
     THEN timer_stop' = stop /\ started' = TRUE
     ELSE UNCHANGED <<timer_stop, started>>
  /\ arm' = "hw"
  /\ stop' = 0
  /\ UNCHANGED <<cb_q, tm_queue, tm_free, timer, hw, trans_int, loopVars, age,
                 cancel>>

TimerStartHw ==
  /\ arm = "hw"
  /\ hw' = TRUE
  /\ arm' = "none"
  /\ UNCHANGED <<cb_q, tm_queue, tm_free, timer, timer_stop, started, trans_int,
                 loopVars, age, stop, cancel>>

Matches(e, f, p) == e.func = f /\ p \in {ANY_PARAM, ALL_CB, e.param}

\* The i-th alarm is the first match; it is moved to the freelist.
RemoveAlarm(i, f, p) ==
  /\ Matches(tm_queue[i], f, p)
  /\ \A j \in 1 .. i - 1 : ~Matches(tm_queue[j], f, p)
  /\ tm_queue' = RemoveAt(tm_queue, i)
  /\ tm_free' = tm_free + 1

\* Without a match RET_NOT_FOUND is returned and nothing changes.  With ALL_CB
\* the walk goes on to the end of the list.
zb_schedule_alarm_cancel(f, p) ==
  /\ InUserCode
  /\ \E i \in DOMAIN tm_queue : RemoveAlarm(i, f, p)
  /\ IF p = ALL_CB THEN arm' = "cancel" /\ cancel' = f ELSE UNCHANGED <<arm, cancel>>
  /\ UNCHANGED <<cb_q, clockVars, trans_int, loopVars, age, stop>>

CancelNext ==
  /\ arm = "cancel"
  /\ IF \E i \in DOMAIN tm_queue : Matches(tm_queue[i], cancel, ALL_CB)
     THEN /\ \E i \in DOMAIN tm_queue : RemoveAlarm(i, cancel, ALL_CB)
          /\ UNCHANGED <<arm, cancel>>
     ELSE /\ arm' = "none" /\ cancel' = NoFunc
          /\ UNCHANGED <<tm_queue, tm_free>>
  /\ UNCHANGED <<cb_q, clockVars, trans_int, loopVars, age, stop>>

UserCall ==
  \E f \in Funcs :
    \/ \E p \in Params : zb_schedule_callback(f, p)
    \/ \E p \in Params, r \in RunAfter : zb_schedule_alarm(f, p, r)
    \/ \E p \in Params \cup {ANY_PARAM, ALL_CB} : zb_schedule_alarm_cancel(f, p)

CallStep == AlarmArm \/ TimerStartRead \/ TimerStartSet \/ TimerStartHw \/ CancelNext

-----------------------------------------------------------------------------
(* zb_sched_loop_iteration. *)

Goto(l) == pc' = l

\* zb_mac_main_loop returns; it has served the transceiver's interrupt.
MacReturn ==
  /\ pc = "mac" /\ arm = "none"
  /\ trans_int' = FALSE
  /\ Goto("cbs")
  /\ UNCHANGED <<cb_q, tm_queue, tm_free, clockVars, did_something, t, age, ent, callVars>>

\* An interrupt with an input buffer at hand ends the callback phase early.
CbBreak ==
  /\ pc = "cbs" /\ cb_q # << >>
  /\ trans_int
  /\ did_something' = TRUE
  /\ Goto("tm")
  /\ UNCHANGED <<cb_q, tm_queue, tm_free, clockVars, trans_int, t, age, ent, callVars>>

CbCall ==
  /\ pc = "cbs" /\ cb_q # << >>
  /\ did_something' = TRUE
  /\ Goto("cb")
  /\ UNCHANGED <<cb_q, tm_queue, tm_free, clockVars, trans_int, t, age, ent, callVars>>

\* The slot of the callback is released only now.
CbReturn ==
  /\ pc = "cb" /\ arm = "none"
  /\ cb_q' = Tail(cb_q)
  /\ Goto("cbs")
  /\ UNCHANGED <<tm_queue, tm_free, clockVars, trans_int, did_something, t, age, ent, callVars>>

CbDone ==
  /\ pc = "cbs" /\ cb_q = << >>
  /\ Goto("tm")
  /\ UNCHANGED <<cb_q, tm_queue, tm_free, clockVars, trans_int, did_something, t, age, ent, callVars>>

\* The timer is read once for the whole alarm phase.
TmEnter ==
  /\ pc = "tm"
  /\ \E d \in {0, 1}, x \in Time :
       /\ ReadTimer(x, d)
       /\ t' = IF tm_queue = << >> THEN 0 ELSE x
       /\ tm_queue' = Aged(tm_queue, d)
       /\ tm_queue = << >> => d = 0
       /\ age' = d
  /\ Goto("tml")
  /\ UNCHANGED <<cb_q, tm_free, trans_int, did_something, ent, callVars>>

\* Mutant: an alarm is due one tick before its time.
HeadDue_Early == tm_queue # << >> /\ TIME_GE(TIME_ADD(t, 1), Head(tm_queue).run_time)

HeadDue == tm_queue # << >> /\ TIME_GE(t, Head(tm_queue).run_time)

TmBreak ==
  /\ pc = "tml" /\ HeadDue
  /\ trans_int
  /\ did_something' = TRUE
  /\ Goto("tmend")
  /\ UNCHANGED <<cb_q, tm_queue, tm_free, clockVars, trans_int, t, age, ent, callVars>>

AlarmCall ==
  /\ pc = "tml" /\ HeadDue
  /\ did_something' = TRUE
  /\ tm_queue' = Tail(tm_queue)
  /\ ent' = [func |-> Head(tm_queue).func, param |-> Head(tm_queue).param]
  /\ Goto("alarm")
  /\ UNCHANGED <<cb_q, tm_free, clockVars, trans_int, t, age, callVars>>

\* Mutant: the entry is not put back on the freelist.
AlarmReturn_NoPush ==
  /\ pc = "alarm" /\ arm = "none"
  /\ ent' = NoEnt
  /\ Goto("tml")
  /\ UNCHANGED <<cb_q, tm_queue, tm_free, clockVars, trans_int, did_something, t, age, callVars>>

AlarmReturn ==
  /\ pc = "alarm" /\ arm = "none"
  /\ tm_free' = tm_free + 1
  /\ ent' = NoEnt
  /\ Goto("tml")
  /\ UNCHANGED <<cb_q, tm_queue, clockVars, trans_int, did_something, t, age, callVars>>

TmDone ==
  /\ pc = "tml" /\ ~HeadDue
  /\ Goto("tmend")
  /\ UNCHANGED <<cb_q, tm_queue, tm_free, clockVars, trans_int, did_something, t, age, ent, callVars>>

\* Mutant: the timer is stopped with alarms pending.
TmRestart_Stop ==
  /\ pc = "tmend"
  /\ started' = FALSE
  /\ Goto("end")
  /\ UNCHANGED <<cb_q, tm_queue, tm_free, timer, timer_stop, hw, trans_int, did_something, t, age,
                 ent, callVars>>

\* The timer is restarted for the next alarm, from the loop's copy of the time.
TmRestart ==
  /\ pc = "tmend"
  /\ IF tm_queue # << >>
     THEN /\ arm' = "start"
          /\ stop' = TIME_SUBTRACT(Head(tm_queue).run_time, t)
          /\ UNCHANGED <<started, cancel>>
     ELSE started' = FALSE /\ UNCHANGED callVars   \* zb_timer_stop_async
  /\ Goto("end")
  /\ UNCHANGED <<cb_q, tm_queue, tm_free, timer, timer_stop, hw, trans_int, did_something, t, age, ent>>

\* Another pass if anything was done; then, in Linux, wait for I/O.
PassEnd ==
  /\ pc = "end" /\ arm = "none"
  /\ Goto(IF did_something \/ platform = "8051" THEN "mac" ELSE "io")
  /\ did_something' = FALSE
  /\ t' = 0 /\ age' = 0
  /\ UNCHANGED <<cb_q, tm_queue, tm_free, clockVars, trans_int, ent, callVars>>

\* zb_mac_wait_for_ext_event.  select() sleeps until timer_stop if that is in
\* the future and for the transport's default timeout otherwise, or less if
\* data comes in or was just written.  The time spent outside select() since
\* the last wait is added; the timer moves only while started.
SelectTimeout ==
  IF started /\ timer_stop # timer /\ TIME_GE(timer_stop, timer)
  THEN TIME_SUBTRACT(timer_stop, timer) ELSE IdleTimeout

zb_mac_wait_for_ext_event ==
  /\ pc = "io"
  /\ \E d \in 0 .. SelectTimeout + MaxPass :
       IF started
       THEN CanAge(d) /\ timer' = TIME_ADD(timer, d) /\ tm_queue' = Aged(tm_queue, d)
       ELSE UNCHANGED <<timer, tm_queue>>
  /\ Goto("mac")
  /\ UNCHANGED <<cb_q, tm_free, timer_stop, started, hw, trans_int, did_something,
                 t, age, ent, callVars>>

Loop ==
  \/ MacReturn \/ CbBreak \/ CbCall \/ CbReturn \/ CbDone
  \/ TmEnter \/ TmBreak \/ AlarmCall \/ AlarmReturn \/ TmDone
  \/ TmRestart \/ PassEnd \/ zb_mac_wait_for_ext_event

Init ==
  /\ cb_q = << >> /\ tm_queue = << >> /\ tm_free = TmQSize
  /\ timer = 0 /\ timer_stop = 0 /\ started = FALSE
  /\ platform \in {"8051", "linux"} /\ hw = (platform = "linux")
  /\ trans_int = FALSE
  /\ pc = "mac" /\ ent = NoEnt /\ did_something = FALSE
  /\ t = 0 /\ age = 0 /\ arm = "none" /\ stop = 0 /\ cancel = NoFunc

Step == UserCall \/ CallStep \/ Loop \/ Tick \/ TransInt

Next == Step /\ UNCHANGED platform

\* The loop and the calls in progress proceed, the code called by the loop
\* returns whatever it schedules, a running timer ticks, and waiting for I/O
\* sooner or later takes time.
Fairness ==
  /\ WF_vars(CallStep)
  /\ WF_vars(Loop)
  /\ SF_vars(MacReturn \/ CbReturn \/ AlarmReturn)
  /\ WF_vars(Tick)
  /\ SF_vars(zb_mac_wait_for_ext_event /\ timer' # timer)

Spec == Init /\ [][Next]_<<platform, vars>> /\ Fairness

-----------------------------------------------------------------------------
(* Properties. *)

\* Every variable of the scheduler keeps its type; left stays within the window
\* in which ZB_TIME_GE is meaningful.
TypeOK ==
  /\ cb_q \in Seq(Callback) /\ Len(cb_q) <= CbQSize
  /\ \A i \in DOMAIN tm_queue :
       /\ tm_queue[i].func \in Funcs /\ tm_queue[i].param \in Params
       /\ tm_queue[i].run_time \in Time
       /\ tm_queue[i].left \in Int /\ tm_queue[i].left >= -MaxLate
  /\ tm_free \in 0 .. TmQSize
  /\ timer \in Time /\ timer_stop \in Time /\ t \in Time /\ stop \in Time
  /\ started \in BOOLEAN /\ hw \in BOOLEAN /\ trans_int \in BOOLEAN
  /\ did_something \in BOOLEAN
  /\ age \in 0 .. MaxPass
  /\ pc \in {"mac", "cbs", "cb", "tm", "tml", "alarm", "tmend", "end", "io"}
  /\ ent \in Callback \cup {NoEnt}
  /\ arm \in {"none", "check", "start", "set", "hw", "cancel"}
  /\ cancel \in Funcs \cup {NoFunc}

\* tm_buffer entries are never lost or duplicated: each is in tm_freelist, in
\* tm_queue, or is the alarm being called (zb_schedule_alarm, the loop and
\* zb_schedule_alarm_cancel all move entries between the lists).
EntriesConserved ==
  tm_free + Len(tm_queue) + (IF ent = NoEnt THEN 0 ELSE 1) = TmQSize

\* run_time is the due time of the alarm on the wrapping clock, and tm_queue is
\* in the order in which alarms really become due, across timer overflow and
\* with overdue entries in it: zb_sched_loop_iteration looks at the head only.
QueueInDueOrder ==
  /\ \A i \in DOMAIN tm_queue : tm_queue[i].run_time = Wrap(timer + tm_queue[i].left)
  /\ \A i \in 1 .. Len(tm_queue) - 1 : tm_queue[i].left <= tm_queue[i + 1].left

\* "Function will be called via scheduler after timeout expired (maybe, plus some
\* additional time)" (include/zb_scheduler.h): no alarm is called early, though
\* the loop compares with a copy of the timer taken before earlier alarms ran.
NoEarlyAlarm == [][AlarmCall => Head(tm_queue).left <= 0]_vars

\* The callback queue is drained now and then (the stack's own assumption: "In
\* practice at some point callbacks ring buffer became empty",
\* include/zb_scheduler.h).  In Linux the clock moves only when a whole pass
\* found nothing to do.
Quiet == []<>(IF platform = "linux" THEN pc = "io" ELSE cb_q = << >>)

\* The radio may go on interrupting for ever, but not so that each and every
\* callback phase is broken off before its first call; nor each alarm phase.
SomeCallbacksRun == []<><<CbBreak>>_vars => []<><<CbCall>>_vars
SomeAlarmsRun    == []<><<TmBreak>>_vars => []<><<AlarmCall>>_vars

\* An alarm with callback f and parameter p is in tm_queue.
Pending(f, p) ==
  \E i \in DOMAIN tm_queue : tm_queue[i].func = f /\ tm_queue[i].param = p

\* A pending alarm is called, phases broken off by the radio's interrupt or not,
\* unless cancels go on forever: the timer, which switches itself off in its
\* interrupt handler and in zb_timer_stop_async, is always restarted, and no
\* stream of other alarms overtakes this one.
AlarmsServed ==
  (Quiet /\ SomeAlarmsRun) =>
    \/ []<><<\E f \in Funcs, p \in Params \cup {ANY_PARAM, ALL_CB} :
                zb_schedule_alarm_cancel(f, p)>>_vars
    \/ \A f \in Funcs, p \in Params :
         Pending(f, p) ~> (ent = [func |-> f, param |-> p] \/ ~Pending(f, p))

\* A queued callback is called, whatever the callbacks and alarms in front of it
\* schedule (ring buffer order, the called entry still occupying its slot), and
\* however often the phase it waits in is broken off by an interrupt.
CallbacksServed ==
  SomeCallbacksRun =>
    \A f \in Funcs, p \in Params :
       (\E i \in DOMAIN cb_q : cb_q[i] = [func |-> f, param |-> p])
         ~> (pc = "cb" /\ Head(cb_q) = [func |-> f, param |-> p])

\* What user code handed to the scheduler is called.
EverythingServed == AlarmsServed /\ CallbacksServed
=============================================================================
