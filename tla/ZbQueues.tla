------------------------------ MODULE ZbQueues ------------------------------
(***************************************************************************)
(* What the list macros of include/zb_list_macros.h promise: elements that *)
(* each are in one of three sequences, a list, a FIFO and a stack, or in   *)
(* the hands of the caller, and operations that move one element and leave *)
(* the order of all others alone.                                          *)
(***************************************************************************)
EXTENDS Integers, Sequences, Functions, FiniteSets

CONSTANTS
  Elems,      \* the elements
  None        \* "no element"

VARIABLES
  list, fifo, stack,
  asked       \* the last operation: [op, ent, at, result]

vars == <<list, fifo, stack, asked>>

First(s) == IF s = << >> THEN None ELSE Head(s)
Rest(s) == IF s = << >> THEN s ELSE Tail(s)

InsertAfter(s, at, e) ==
  IF at \notin Range(s) THEN s
  ELSE LET i == CHOOSE i \in DOMAIN s : s[i] = at
       IN  SubSeq(s, 1, i) \o <<e>> \o SubSeq(s, i + 1, Len(s))

Without(s, e) == SelectSeq(s, LAMBDA x : x # e)

\* What an operation makes of the list, of the FIFO and of the stack, and what it
\* hands out.
OnList(a) ==
  CASE a.op = "ListInsertHead" -> <<a.ent>> \o list
    [] a.op = "ListInsertTail" -> Append(list, a.ent)
    [] a.op = "ListInsertAfter" -> InsertAfter(list, a.at, a.ent)
    [] a.op \in {"ListCutHead", "ListRemoveHead"} -> Rest(list)
    [] a.op = "ListRemoveTail" -> IF list = << >> THEN list ELSE SubSeq(list, 1, Len(list) - 1)
    [] a.op = "ListRemove" -> Without(list, a.ent)
    [] OTHER -> list

OnFifo(a) ==
  CASE a.op = "FifoInsertHead" -> <<a.ent>> \o fifo
    [] a.op = "FifoInsertTail" -> Append(fifo, a.ent)
    [] a.op \in {"FifoCutHead", "FifoRemoveHead"} -> Rest(fifo)
    [] a.op = "FifoRemove" -> Without(fifo, a.ent)
    [] OTHER -> fifo

OnStack(a) ==
  CASE a.op = "StkPush" -> <<a.ent>> \o stack
    [] a.op = "StkPop" -> Rest(stack)
    [] OTHER -> stack

Result(a) ==
  CASE a.op = "ListCutHead" -> First(list)
    [] a.op = "FifoCutHead" -> First(fifo)
    [] a.op = "StkPop" -> First(stack)
    [] OTHER -> None

Init ==
  /\ list = << >> /\ fifo = << >>
  /\ stack \in Bijection(1 .. Cardinality(Elems), Elems)
  /\ asked = [op |-> "Init", ent |-> None, at |-> None, result |-> None]

Next ==
  /\ list' = OnList(asked')
  /\ fifo' = OnFifo(asked')
  /\ stack' = OnStack(asked')
  /\ asked'.result = Result(asked')

Spec == Init /\ [][Next]_vars
=============================================================================
