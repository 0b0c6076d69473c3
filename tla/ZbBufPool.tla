----------------------------- MODULE ZbBufPool ------------------------------
(***************************************************************************)
(* The packet buffer pool (common/zb_bufpool.c): one stack of free buffers *)
(* divided logically between input and output, with queues of callbacks    *)
(* waiting for a buffer of either kind.  A buffer freed while somebody     *)
(* waits is handed over through the scheduler's callback queue.            *)
(*                                                                         *)
(* The module follows a buffer from owner to owner: the free stack, an     *)
(* entry of cb_q that carries it as parameter, or the code (held).  The    *)
(* code is opaque; it allocates, frees and passes on what it holds.        *)
(***************************************************************************)
EXTENDS Integers, Sequences, Functions, FiniteSets

CONSTANTS
  PoolSize,      \* ZB_IOBUF_POOL_SIZE
  CbQSize,       \* ZB_SCHEDULER_Q_SIZE
  BufQSize,      \* ZB_BUF_Q_SIZE
  Funcs,         \* callbacks
  OutReserved, InReserved,  \* buffers zb_mac_init keeps for good
  BareCallbacks, \* TRUE: callbacks without a buffer are scheduled as well
  HeaderSurvives \* FALSE where the pointer u.next covers u.hdr.is_in_buf

IN_BUF  == 1
OUT_BUF == 0
Bufs == 1 .. PoolSize
NoBuf == 0
ZB_BUFS_LIMIT == PoolSize \div 2

PoolAssumption ==
  /\ PoolSize \in Nat \ {0} /\ CbQSize \in Nat \ {0} /\ BufQSize \in Nat \ {0}
  /\ OutReserved \in 0 .. ZB_BUFS_LIMIT /\ InReserved \in 0 .. ZB_BUFS_LIMIT
  /\ BareCallbacks \in BOOLEAN /\ HeaderSurvives \in BOOLEAN

VARIABLES
  free,           \* bpool.head: the stack of free buffers, top first
  is_in_buf,      \* u.hdr.is_in_buf of each buffer
  bufs_allocated, \* bpool.bufs_allocated
  inbuf_queue, outbuf_queue,  \* callbacks waiting for a buffer
  buf_freelist,   \* how many delayed_buf entries are unused
  cb_q,           \* sched.cb_q; its head stays while it is called
  held,           \* buffers in the hands of the code
  lost,           \* buffers nobody refers to any more
  rx_pending,     \* a frame waits in the transceiver
  rx_need_buf,    \* MAC_CTX().rx_need_buf
  pc              \* "mac", "recv", "cbs" or "cb"

vars == <<free, is_in_buf, bufs_allocated, inbuf_queue, outbuf_queue, buf_freelist,
          cb_q, held, lost, rx_pending, rx_need_buf, pc>>
waitVars == <<inbuf_queue, outbuf_queue, buf_freelist>>
poolVars == <<free, is_in_buf, bufs_allocated>>
macVars  == <<rx_pending, rx_need_buf, pc>>

Reserved == 1 .. OutReserved + InReserved

InUserCode == pc \in {"mac", "recv", "cb"}

\* The entries of cb_q that still own their buffer: not the one being called.
Pending == IF pc = "cb" THEN 2 .. Len(cb_q) ELSE 1 .. Len(cb_q)

-----------------------------------------------------------------------------
(* Allocation. *)

CanGet(d) == bufs_allocated[d] < ZB_BUFS_LIMIT /\ free # << >>

\* zb_get_buf(d) takes the top of the stack.
zb_get_buf(d) ==
  /\ CanGet(d)
  /\ free' = Tail(free)
  /\ is_in_buf' = [is_in_buf EXCEPT ![Head(free)] = d]
  /\ bufs_allocated' = [bufs_allocated EXCEPT ![d] = @ + 1]

\* zb_get_in_buf and zb_get_out_buf; without a buffer they return NULL.
GetBuf(d) ==
  /\ InUserCode
  /\ zb_get_buf(d)
  /\ held' = held \cup {Head(free)}
  /\ UNCHANGED <<waitVars, cb_q, lost, macVars>>

Entry(f, b) == [func |-> f, param |-> b]

\* ZB_SCHEDULE_CALLBACK with a buffer whose last reference is the parameter:
\* on overflow nobody looks at the result and the buffer is gone.
HandOver(f, b) ==
  IF Len(cb_q) < CbQSize
  THEN cb_q' = Append(cb_q, Entry(f, b)) /\ UNCHANGED lost
  ELSE lost' = lost \cup ({b} \ {NoBuf}) /\ UNCHANGED cb_q

zb_get_buf_delayed(f, d) ==
  /\ InUserCode
  /\ IF CanGet(d)
     THEN zb_get_buf(d) /\ HandOver(f, Head(free)) /\ UNCHANGED waitVars
     ELSE /\ buf_freelist > 0        \* otherwise RET_ERROR
          /\ buf_freelist' = buf_freelist - 1
          /\ IF d = IN_BUF
             THEN inbuf_queue' = Append(inbuf_queue, f) /\ UNCHANGED outbuf_queue
             ELSE outbuf_queue' = Append(outbuf_queue, f) /\ UNCHANGED inbuf_queue
          /\ UNCHANGED <<poolVars, cb_q, lost>>
  /\ UNCHANGED <<held, macVars>>

-----------------------------------------------------------------------------
(* Release. *)

\* is_in_buf as zb_free_buf reads it after linking b into the free stack.
DirAfterLink(b) == IF HeaderSurvives THEN is_in_buf[b] ELSE OUT_BUF

\* Mutant: nobody waiting for an output buffer is woken.
WakesWaiter_InOnly(d) == d = IN_BUF /\ ~rx_need_buf /\ inbuf_queue # << >>
\* Whether the freed buffer goes to a waiter.  A receiver in need keeps input
\* buffers from the waiters: "we should not pass it to some other callback".
WakesWaiter(d) ==
  IF d = IN_BUF THEN ~rx_need_buf /\ inbuf_queue # << >> ELSE outbuf_queue # << >>

zb_free_buf(b) ==
  LET d      == DirAfterLink(b)
      counts == [bufs_allocated EXCEPT ![is_in_buf[b]] = @ - 1]
      again  == counts[d] < ZB_BUFS_LIMIT   \* the stack's top is b itself
  IN
  /\ InUserCode
  /\ b \in held \ Reserved
  /\ held' = held \ {b}
  /\ IF ~WakesWaiter(d)
     THEN /\ free' = <<b>> \o free
          /\ bufs_allocated' = counts
          /\ UNCHANGED <<is_in_buf, waitVars, cb_q, lost>>
     ELSE /\ IF again
             THEN /\ bufs_allocated' = [counts EXCEPT ![d] = @ + 1]
                  /\ is_in_buf' = [is_in_buf EXCEPT ![b] = d]
                  /\ UNCHANGED free
             ELSE /\ bufs_allocated' = counts
                  /\ free' = <<b>> \o free
                  /\ UNCHANGED is_in_buf
          /\ HandOver(IF d = IN_BUF THEN Head(inbuf_queue) ELSE Head(outbuf_queue),
                      IF again THEN b ELSE NoBuf)
          /\ IF d = IN_BUF
             THEN inbuf_queue' = Tail(inbuf_queue) /\ UNCHANGED outbuf_queue
             ELSE outbuf_queue' = Tail(outbuf_queue) /\ UNCHANGED inbuf_queue
          /\ buf_freelist' = buf_freelist + 1
  /\ UNCHANGED macVars

\* zb_schedule_callback passes a held buffer on; without room (RET_OVERFLOW) the
\* caller keeps it.
zb_schedule_callback(f, b) ==
  /\ InUserCode
  /\ Len(cb_q) < CbQSize
  /\ \/ b \in held \ Reserved
     \/ BareCallbacks /\ b = NoBuf
  /\ cb_q' = Append(cb_q, Entry(f, b))
  /\ held' = held \ {b}
  /\ UNCHANGED <<poolVars, waitVars, lost, macVars>>

-----------------------------------------------------------------------------
(* The main loop around it. *)

RxFrame ==
  /\ ~rx_pending
  /\ rx_pending' = TRUE
  /\ UNCHANGED <<poolVars, waitVars, cb_q, held, lost, rx_need_buf, pc>>

\* The reception part of zb_mac_main_loop, up to zb_mac_recv_data.
MacReceive ==
  /\ pc = "mac" /\ rx_pending
  /\ IF CanGet(IN_BUF)
     THEN /\ zb_get_buf(IN_BUF)
          /\ held' = held \cup {Head(free)}
          /\ rx_pending' = FALSE
          /\ pc' = "recv"
          /\ UNCHANGED rx_need_buf
     ELSE /\ rx_need_buf' = TRUE
          /\ pc' = "cbs"
          /\ UNCHANGED <<poolVars, held, rx_pending>>
  /\ UNCHANGED <<waitVars, cb_q, lost>>

MacIdle ==
  /\ pc = "mac" /\ ~rx_pending
  /\ pc' = "cbs"
  /\ UNCHANGED <<poolVars, waitVars, cb_q, held, lost, rx_pending, rx_need_buf>>

\* zb_mac_recv_data is back; only now the need of a buffer is withdrawn.
MacReceived ==
  /\ pc = "recv"
  /\ rx_need_buf' = FALSE
  /\ pc' = "cbs"
  /\ UNCHANGED <<poolVars, waitVars, cb_q, held, lost, rx_pending>>

CbCall ==
  /\ pc = "cbs" /\ cb_q # << >>
  /\ held' = held \cup ({Head(cb_q).param} \ {NoBuf})
  /\ pc' = "cb"
  /\ UNCHANGED <<poolVars, waitVars, cb_q, lost, rx_pending, rx_need_buf>>

CbReturn ==
  /\ pc = "cb"
  /\ cb_q' = Tail(cb_q)
  /\ pc' = "cbs"
  /\ UNCHANGED <<poolVars, waitVars, held, lost, rx_pending, rx_need_buf>>

\* The queue is empty, or left for later because of an interrupt.
CbDone ==
  /\ pc = "cbs"
  /\ pc' = "mac"
  /\ UNCHANGED <<poolVars, waitVars, cb_q, held, lost, rx_pending, rx_need_buf>>

Init ==
  /\ free = [i \in 1 .. PoolSize - OutReserved - InReserved |-> i + OutReserved + InReserved]
  /\ is_in_buf = [b \in Bufs |-> IF b \in OutReserved + 1 .. OutReserved + InReserved
                                 THEN IN_BUF ELSE OUT_BUF]
  /\ bufs_allocated = [d \in {IN_BUF, OUT_BUF} |-> IF d = IN_BUF THEN InReserved ELSE OutReserved]
  /\ inbuf_queue = << >> /\ outbuf_queue = << >> /\ buf_freelist = BufQSize
  /\ cb_q = << >>
  /\ held = Reserved /\ lost = {}
  /\ rx_pending = FALSE /\ rx_need_buf = FALSE
  /\ pc = "mac"

UserCall ==
  \/ \E d \in {IN_BUF, OUT_BUF} : GetBuf(d)
  \/ \E f \in Funcs, d \in {IN_BUF, OUT_BUF} : zb_get_buf_delayed(f, d)
  \/ \E b \in Bufs : zb_free_buf(b)
  \/ \E f \in Funcs, b \in Bufs \cup {NoBuf} : zb_schedule_callback(f, b)

Next ==
  \/ UserCall \/ RxFrame
  \/ MacReceive \/ MacIdle \/ MacReceived
  \/ CbCall \/ CbReturn \/ CbDone

Spec == Init /\ [][Next]_vars

-----------------------------------------------------------------------------
(* Properties. *)

TypeOK ==
  /\ free \in Seq(Bufs)
  /\ is_in_buf \in [Bufs -> {IN_BUF, OUT_BUF}]
  /\ bufs_allocated \in [{IN_BUF, OUT_BUF} -> 0 .. ZB_BUFS_LIMIT]
  /\ inbuf_queue \in Seq(Funcs) /\ outbuf_queue \in Seq(Funcs)
  /\ buf_freelist \in 0 .. BufQSize
  /\ cb_q \in Seq([func : Funcs, param : Bufs \cup {NoBuf}]) /\ Len(cb_q) <= CbQSize
  /\ held \subseteq Bufs /\ lost \subseteq Bufs
  /\ rx_pending \in BOOLEAN /\ rx_need_buf \in BOOLEAN
  /\ pc \in {"mac", "recv", "cbs", "cb"}

Carried == {cb_q[i].param : i \in Pending} \ {NoBuf}

\* Every buffer has exactly one owner: it is free once, carried by one scheduled
\* callback, or with the code, so no two callbacks ever work on one buffer and
\* none is handed out while in use (zb_free_buf relinks and reallocates it).
OneOwner ==
  /\ IsInjective(free)
  /\ \A i, j \in Pending : cb_q[i].param = cb_q[j].param => i = j \/ cb_q[i].param = NoBuf
  /\ Carried \cap held = {}
  /\ Range(free) \cap (Carried \cup held \cup lost) = {}
  /\ lost \cap (Carried \cup held) = {}
  /\ Range(free) \cup Carried \cup held \cup lost = Bufs

\* bufs_allocated counts the buffers of each direction that are not free.
CountsRight ==
  \A d \in {IN_BUF, OUT_BUF} :
    bufs_allocated[d] = Cardinality({b \in Bufs \ Range(free) : is_in_buf[b] = d})

\* "Do not allow one part to eat entire another part to exclude deadlock"
\* (common/zb_bufpool.c): below its own limit a direction always gets a buffer.
PartsIndependent ==
  \A d \in {IN_BUF, OUT_BUF} : bufs_allocated[d] < ZB_BUFS_LIMIT => free # << >>

\* The pool as a whole: ownership, the counts that limit the directions, and that
\* neither direction starves the other.
PoolSound == OneOwner /\ CountsRight /\ PartsIndependent

\* No lost wakeup: a callback waits for an output buffer only while all output
\* buffers are in use.
OutWaitersOnlyWhenShort ==
  outbuf_queue # << >> => bufs_allocated[OUT_BUF] = ZB_BUFS_LIMIT

\* The same for input buffers as long as reception did not get in between: the
\* waiters fall behind only by buffers freed while the receiver needed one.
InWaitersServedUnlessRx ==
  [][inbuf_queue # << >> /\ ~rx_need_buf /\ bufs_allocated[IN_BUF] = ZB_BUFS_LIMIT
       => bufs_allocated'[IN_BUF] = ZB_BUFS_LIMIT]_vars

\* "If no buffers available now, schedule callback later, when buffer will be
\* available." (include/zb_bufpool.h): outside reception no callback waits for an
\* input buffer while there is one.
InWaitersOnlyWhenShort ==
  (inbuf_queue # << >> /\ ~rx_need_buf) => bufs_allocated[IN_BUF] = ZB_BUFS_LIMIT

\* The same sentence, for the callback that is scheduled: the callback and its
\* buffer reach the scheduler.
NothingLost == lost = {}

\* And the callback gets a buffer of the kind it waited for.
GetsABuffer == BareCallbacks \/ \A i \in DOMAIN cb_q : cb_q[i].param # NoBuf

\* A waiter that is woken reaches the scheduler, with a buffer.
HandedOver == NothingLost /\ GetsABuffer
=============================================================================
