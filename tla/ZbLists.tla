------------------------------ MODULE ZbLists -------------------------------
(***************************************************************************)
(* The intrusive lists of include/zb_list_macros.h, on which the timer     *)
(* queue, the queues of callbacks waiting for a buffer and their free      *)
(* lists are built: a doubly linked list whose head's prev is the tail, a  *)
(* single linked list with head and tail (FIFO) and a stack.  "Use same    *)
(* name ## _next field of the double linked list, so can coexist with it": *)
(* an element moves between them, one link serving all three, and an       *)
(* element that is taken out keeps its stale link.                         *)
(***************************************************************************)
EXTENDS Integers, Sequences, Functions, FiniteSets

CONSTANT NElems     \* elements of the pool

ListsAssumption == NElems \in Nat \ {0}

NULL == 0
Elems == 1 .. NElems

VARIABLES
  next, prev,       \* the links of each element
  list,             \* head of the doubly linked list
  fifo_head, fifo_tail,
  stk_head,
  asked             \* history: the last operation

vars == <<next, prev, list, fifo_head, fifo_tail, stk_head, asked>>
fifoVars == <<fifo_head, fifo_tail>>

Ask(op, ent, at, result) ==
  asked' = [op |-> op, ent |-> ent, at |-> at, result |-> result]

\* ITERATE from a head: the elements met, cut off when the links form a cycle.
Walk(head) ==
  LET f[e \in 0 .. NElems, k \in 0 .. NElems + 1] ==
        IF e = NULL \/ k = 0 THEN << >> ELSE <<e>> \o f[next[e], k - 1]
  IN  f[head, NElems + 1]

\* Elements in the hands of the code: it inserts only what is nowhere.
Held == Elems \ (Range(Walk(list)) \cup Range(Walk(fifo_head)) \cup Range(Walk(stk_head)))

-----------------------------------------------------------------------------
(* The doubly linked list. *)

ListInsertHead(e) ==
  /\ next' = [next EXCEPT ![e] = list]
  /\ prev' = IF list # NULL THEN [prev EXCEPT ![e] = prev[list], ![list] = e]
             ELSE [prev EXCEPT ![e] = e]
  /\ list' = e
  /\ Ask("ListInsertHead", e, NULL, NULL)
  /\ UNCHANGED <<fifoVars, stk_head>>

InsertTail(e) ==
  IF list # NULL
  THEN /\ next' = [next EXCEPT ![e] = NULL, ![prev[list]] = e]
       /\ prev' = [prev EXCEPT ![e] = prev[list], ![list] = e]
       /\ UNCHANGED list
  ELSE /\ next' = [next EXCEPT ![e] = NULL]
       /\ prev' = [prev EXCEPT ![e] = e]
       /\ list' = e

ListInsertTail(e) ==
  /\ InsertTail(e)
  /\ Ask("ListInsertTail", e, NULL, NULL)
  /\ UNCHANGED <<fifoVars, stk_head>>

\* Mutant: after none means at the tail.
ListInsertAfter_Append(at, e) ==
  /\ InsertTail(e)
  /\ Ask("ListInsertAfter", e, at, NULL)
  /\ UNCHANGED <<fifoVars, stk_head>>

\* After an element of the list; after none, nothing happens.
ListInsertAfter(at, e) ==
  /\ IF at = NULL THEN UNCHANGED <<next, prev, list>>
     ELSE IF list # NULL /\ at = prev[list] THEN InsertTail(e)
     ELSE /\ next' = [next EXCEPT ![e] = next[at], ![at] = e]
          /\ prev' = [prev EXCEPT ![e] = at, ![next[at]] = e]
          /\ UNCHANGED list
  /\ Ask("ListInsertAfter", e, at, NULL)
  /\ UNCHANGED <<fifoVars, stk_head>>

\* CUT_HEAD, and REMOVE_HEAD, which does not hand the element out.
TakeHead ==
  IF list = NULL THEN UNCHANGED <<next, prev, list>>
  ELSE /\ prev' = IF next[list] # NULL
                  THEN [prev EXCEPT ![next[list]] = prev[list], ![list] = NULL]
                  ELSE [prev EXCEPT ![list] = NULL]
       /\ list' = next[list]
       /\ UNCHANGED next

ListCutHead ==
  /\ TakeHead
  /\ Ask("ListCutHead", NULL, NULL, list)
  /\ UNCHANGED <<fifoVars, stk_head>>

ListRemoveHead ==
  /\ TakeHead
  /\ Ask("ListRemoveHead", NULL, NULL, NULL)
  /\ UNCHANGED <<fifoVars, stk_head>>

\* next of the removed tail serves as a temporary variable and keeps the new tail.
ListRemoveTail ==
  /\ IF list = NULL THEN UNCHANGED <<next, prev, list>>
     ELSE LET tail == prev[list]
              last == prev[tail]
          IN  IF tail = list
              THEN prev' = [prev EXCEPT ![list] = NULL] /\ list' = NULL /\ UNCHANGED next
              ELSE /\ next' = [next EXCEPT ![last] = NULL, ![tail] = last]
                   /\ prev' = [prev EXCEPT ![tail] = NULL, ![list] = last]
                   /\ UNCHANGED list
  /\ Ask("ListRemoveTail", NULL, NULL, NULL)
  /\ UNCHANGED <<fifoVars, stk_head>>

\* The head's prev, the tail, is right after each of: removal of the tail, of the
\* head, and of the last element.  An element not in the list is left alone.
ListRemove(e) ==
  /\ IF prev[e] = NULL THEN UNCHANGED <<next, prev, list>>
     ELSE /\ prev' = IF next[e] # NULL THEN [prev EXCEPT ![next[e]] = prev[e], ![e] = NULL]
                     ELSE [prev EXCEPT ![list] = prev[e], ![e] = NULL]
          /\ IF e = list THEN list' = next[e] /\ UNCHANGED next
             ELSE next' = [next EXCEPT ![prev[e]] = next[e]] /\ UNCHANGED list
  /\ Ask("ListRemove", e, NULL, NULL)
  /\ UNCHANGED <<fifoVars, stk_head>>

-----------------------------------------------------------------------------
(* The single linked list. *)

FifoInsertHead(e) ==
  /\ next' = [next EXCEPT ![e] = fifo_head]
  /\ fifo_tail' = IF fifo_head = NULL THEN e ELSE fifo_tail
  /\ fifo_head' = e
  /\ Ask("FifoInsertHead", e, NULL, NULL)
  /\ UNCHANGED <<prev, list, stk_head>>

FifoInsertTail(e) ==
  /\ next' = IF fifo_tail # NULL THEN [next EXCEPT ![e] = NULL, ![fifo_tail] = e]
             ELSE [next EXCEPT ![e] = NULL]
  /\ fifo_head' = IF fifo_tail # NULL THEN fifo_head ELSE e
  /\ fifo_tail' = e
  /\ Ask("FifoInsertTail", e, NULL, NULL)
  /\ UNCHANGED <<prev, list, stk_head>>

TakeFifo ==
  IF fifo_head = NULL THEN UNCHANGED fifoVars
  ELSE /\ fifo_head' = next[fifo_head]
       /\ fifo_tail' = IF next[fifo_head] = NULL THEN NULL ELSE fifo_tail

FifoCutHead ==
  /\ TakeFifo
  /\ Ask("FifoCutHead", NULL, NULL, fifo_head)
  /\ UNCHANGED <<next, prev, list, stk_head>>

FifoRemoveHead ==
  /\ TakeFifo
  /\ Ask("FifoRemoveHead", NULL, NULL, NULL)
  /\ UNCHANGED <<next, prev, list, stk_head>>

\* The predecessor is found on the way; an element met nowhere is left alone.
FifoRemove(e) ==
  LET w == Walk(fifo_head)
      i == CHOOSE i \in DOMAIN w : w[i] = e /\ \A k \in 1 .. i - 1 : w[k] # e
  IN  /\ IF e \notin Range(w) THEN UNCHANGED <<next, fifoVars>>
         ELSE IF i > 1
         THEN /\ next' = [next EXCEPT ![w[i - 1]] = next[e]]
              /\ fifo_tail' = IF fifo_tail = e THEN w[i - 1] ELSE fifo_tail
              /\ UNCHANGED fifo_head
         ELSE /\ fifo_head' = next[e]
              /\ fifo_tail' = IF next[e] = NULL THEN NULL ELSE fifo_tail
              /\ UNCHANGED next
      /\ Ask("FifoRemove", e, NULL, NULL)
      /\ UNCHANGED <<prev, list, stk_head>>

-----------------------------------------------------------------------------
(* The stack. *)

StkPush(e) ==
  /\ next' = [next EXCEPT ![e] = stk_head]
  /\ stk_head' = e
  /\ Ask("StkPush", e, NULL, NULL)
  /\ UNCHANGED <<prev, list, fifoVars>>

StkPop ==
  /\ stk_head' = IF stk_head = NULL THEN NULL ELSE next[stk_head]
  /\ Ask("StkPop", NULL, NULL, stk_head)
  /\ UNCHANGED <<next, prev, list, fifoVars>>

-----------------------------------------------------------------------------
\* zb_sched_init pushes the entries one by one onto the free list.
Init ==
  /\ next = [e \in Elems |-> e - 1]
  /\ prev = [e \in Elems |-> NULL]
  /\ list = NULL /\ fifo_head = NULL /\ fifo_tail = NULL
  /\ stk_head = NElems
  /\ asked = [op |-> "Init", ent |-> NULL, at |-> NULL, result |-> NULL]

Next ==
  \/ \E e \in Held :
       \/ ListInsertHead(e) \/ ListInsertTail(e)
       \/ \E at \in Range(Walk(list)) \cup {NULL} : ListInsertAfter(at, e)
       \/ FifoInsertHead(e) \/ FifoInsertTail(e)
       \/ StkPush(e)
  \/ ListCutHead \/ ListRemoveHead \/ ListRemoveTail
  \/ FifoCutHead \/ FifoRemoveHead \/ StkPop
  \/ \E e \in Elems : ListRemove(e) \/ FifoRemove(e)

Spec == Init /\ [][Next]_vars

-----------------------------------------------------------------------------
(* Properties. *)

TypeOK ==
  /\ next \in [Elems -> Elems \cup {NULL}] /\ prev \in [Elems -> Elems \cup {NULL}]
  /\ {list, fifo_head, fifo_tail, stk_head} \subseteq Elems \cup {NULL}

Queues == INSTANCE ZbQueues WITH
  list <- Walk(list), fifo <- Walk(fifo_head), stack <- Walk(stk_head), None <- NULL

\* Whatever stale links the elements carry, every operation moves the element it is
\* asked to move to its place and keeps the order of all others.
ImplementsQueues == Queues!Spec
=============================================================================
