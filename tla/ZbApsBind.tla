------------------------------ MODULE ZbApsBind ------------------------------
(***************************************************************************)
(* The binding table of a device (aps/aps_bind.c): a table of sources and  *)
(* a table of destinations, each with the index of its source.  Both are   *)
(* arrays kept dense by memmove; the searches are do-while loops, which    *)
(* look at the first entry of an empty table.                              *)
(***************************************************************************)
EXTENDS Naturals, SequencesExt

CONSTANTS
  Srcs, Dsts,   \* sources: an endpoint and a cluster; destinations: a device or a group
  SrcSize,      \* ZB_APS_SRC_BINDING_TABLE_SIZE
  DstSize       \* ZB_APS_DST_BINDING_TABLE_SIZE

ASSUME BindAssumption == SrcSize \in Nat \ {0} /\ DstSize \in Nat \ {0}

DstEntry == [to : Dsts, src : 1 .. SrcSize]

\* left: the entries that are still in the arrays after the last pair was removed.
Table == [src : Seq(Srcs), dst : Seq(DstEntry), left : {<<>>} \cup (Srcs \X Dsts)]
EmptyTable == [src |-> <<>>, dst |-> <<>>, left |-> <<>>]

\* The bindings that the tables stand for; an index behind the sources stands for none.
Bindings(t) ==
  {<<t.src[e.src], e.to>> : e \in {e \in ToSet(t.dst) : e.src \in DOMAIN t.src}}

-----------------------------------------------------------------------------

\* aps_find_src_ref: the index of source s, as a set.
FindSrcRef(t, s) ==
  IF t.src = <<>> THEN {i \in {1} : t.left # <<>> /\ t.left[1] = s}
  ELSE {i \in DOMAIN t.src : t.src[i] = s}

\* zb_apsme_bind_request: the table and the status.  There is no check that the pair is
\* bound already.
Bind(t, s, d) ==
  LET new == FindSrcRef(t, s) = {} \/ t.src = <<>>
      i == IF new THEN Len(t.src) + 1 ELSE CHOOSE k \in FindSrcRef(t, s) : TRUE
  IN IF i <= SrcSize /\ Len(t.dst) < DstSize
     THEN [table |-> [t EXCEPT !.src = IF new THEN Append(@, s) ELSE @,
                               !.dst = Append(@, [to |-> d, src |-> i])],
           status |-> "success"]
     ELSE [table |-> t, status |-> "table full"]

\* Mutant: the indices of the sources behind the removed one are not adjusted.
RemoveSrc_KeepsIndices(t, i) == [t EXCEPT !.src = RemoveAt(@, i)]

\* The source with index i has no destination any more: later sources move down.
RemoveSrc(t, i) ==
  [t EXCEPT !.src = RemoveAt(@, i),
            !.dst = [k \in DOMAIN @ |-> IF @[k].src > i THEN [@[k] EXCEPT !.src = @ - 1] ELSE @[k]]]

\* zb_apsme_unbind_request: every destination d of source s is removed, then the source if
\* it has none left.  "success" also when d was not among them.  In an empty table an entry
\* left behind is found again: the count of destinations goes from 0 to 255 and memmove
\* runs over the end of the table ("broken").
Unbind(t, s, d) ==
  IF FindSrcRef(t, s) = {} THEN [table |-> t, status |-> "no entry"]
  ELSE IF t.src = <<>>
  THEN [table |-> t, status |-> IF t.left[2] = d THEN "broken" ELSE "success"]
  ELSE LET i == CHOOSE k \in FindSrcRef(t, s) : TRUE
           kept == [t EXCEPT !.dst = SelectSeq(@, LAMBDA e : e # [to |-> d, src |-> i])]
           found == \E e \in ToSet(kept.dst) : e.src = i
           done == IF found THEN kept ELSE RemoveSrc(kept, i)
       IN [table |-> IF done.src = <<>> THEN [done EXCEPT !.left = <<s, d>>] ELSE done,
           status |-> "success"]
=============================================================================
