----------------------------- MODULE ZbAddress ------------------------------
(***************************************************************************)
(* The address translation table (common/zb_address.c): an open hash of    *)
(* entries by long (IEEE) address and an index of them sorted by short     *)
(* address.  Other layers keep references, positions in the table, and may *)
(* lock the entries they refer to.                                         *)
(*                                                                         *)
(* The index array is modelled with everything in it: the slots behind     *)
(* n_sorted_elements keep what was last there, and the slot behind the     *)
(* array is the byte that follows it in memory, n_elements of a full table.*)
(* The clock bits are left out: the reuse of entries by clock is compiled  *)
(* out and nothing reads them.                                             *)
(***************************************************************************)
EXTENDS Integers, FiniteSets

CONSTANTS
  TableSize,   \* ZB_IEEE_ADDR_TABLE_SIZE
  IeeeAddrs,   \* long addresses, as the numbers their hash is taken of
  ShortAddrs,  \* short addresses
  MaxLock      \* bound: locks held on one entry

Refs == 0 .. TableSize - 1
NoIeee == -1    \* an entry made from a short address has a zeroed long one
NoShort == 16 * 16 * 16 * 16 - 1   \* (zb_uint16_t)~0

AddressAssumption ==
  /\ TableSize \in Nat \ {0}
  /\ IeeeAddrs \subseteq Nat /\ ShortAddrs \subseteq 0 .. NoShort - 1
  /\ MaxLock \in Nat

VARIABLES
  used, ieee_addr, addr, lock_cnt,   \* addr_map[]
  short_sorted, n_sorted, n_elements,
  churn      \* history: something was taken out of short_sorted

mapVars == <<used, ieee_addr, addr, lock_cnt>>
vars == <<used, ieee_addr, addr, lock_cnt, short_sorted, n_sorted, n_elements, churn>>

-----------------------------------------------------------------------------
(* Searching. *)

Hash(a) == a % TableSize

\* The first of the refs in S that a search or an insertion that starts at h probes.
Probed(S, h) ==
  LET distance(r) == (r + TableSize - h) % TableSize
  IN  {r \in S : \A x \in S : distance(r) <= distance(x)}

\* Mutant: only the hash position is looked at.
IeeeSearch_NoProbe(a) ==
  LET r == Hash(a) IN IF used[r] /\ ieee_addr[r] = a THEN {r} ELSE {}

\* ieee_search: the refs that match, at most the first probed one.
IeeeSearch(a) ==
  Probed({r \in Refs : used[r] /\ ieee_addr[r] = a}, Hash(a))

\* The binary search both for looking up and for inserting: the first position
\* whose entry is not below s (nor equal to s, if orEqual), assuming the index is
\* sorted.  One entry is not compared with at all.
Bisect(index, n, s, orEqual) ==
  LET f[l \in 0 .. n, r \in 0 .. n] ==
        IF l >= r THEN l
        ELSE LET i == l + (r - l) \div 2
                 x == addr[index[i]]
             IN  IF s > x \/ (orEqual /\ s = x) THEN f[i + 1, r] ELSE f[l, i]
  IN  IF n > 1 THEN f[0, n] ELSE 0

\* short_search
ShortSearch(s) ==
  LET l == Bisect(short_sorted, n_sorted, s, FALSE)
  IN  IF l < n_sorted /\ addr[short_sorted[l]] = s THEN {short_sorted[l]} ELSE {}

-----------------------------------------------------------------------------
(* The sorted index, as values [s |-> array, n |-> length]. *)

Index == [s |-> short_sorted, n |-> n_sorted]

\* memmove(&s[to], &s[from], cnt)
Move(s, to, from, cnt) ==
  [i \in DOMAIN s |-> IF i \in to .. to + cnt - 1 /\ i < TableSize
                      THEN s[i - to + from] ELSE s[i]]

\* del_short_sorted.  Each removal moves the n - i entries behind position i, one
\* more than there are, while the scan still goes to the old length.
del_short_sorted(index, ref) ==
  LET after[i \in -1 .. index.n - 1] ==
        IF i = -1 THEN index
        ELSE LET acc == after[i - 1]
             IN  IF acc.s[i] # ref THEN acc
                 ELSE [s |-> IF i = index.n - 1 THEN acc.s
                             ELSE Move(acc.s, i, i + 1, index.n - i),
                       n |-> acc.n - 1]
  IN  after[index.n - 1]

\* add_short_sorted
add_short_sorted(index, ref, s) ==
  LET b == Bisect(index.s, index.n, s, TRUE)
      l == IF b < index.n /\ s > addr[index.s[b]] THEN b + 1 ELSE b
  IN  [s |-> [Move(index.s, l + 1, l, index.n - l) EXCEPT ![l] = ref],
       n |-> index.n + 1]

SetIndex(index) == short_sorted' = index.s /\ n_sorted' = index.n

-----------------------------------------------------------------------------
(* Operations. *)

Lock(r, lock) == lock_cnt' = IF lock THEN [lock_cnt EXCEPT ![r] = @ + 1] ELSE lock_cnt

MayLock(r, lock) == lock => lock_cnt[r] < MaxLock

\* addr_add: the first free slot from the hash position (from 0 without a long
\* address); lock_cnt is not reset.  A full table is RET_OVERFLOW.
addr_add(a, s, lock) ==
  \E r \in Probed({x \in Refs : ~used[x]}, IF a = NoIeee THEN 0 ELSE Hash(a)) :
      /\ MayLock(r, lock)
      /\ used' = [used EXCEPT ![r] = TRUE]
      /\ ieee_addr' = [ieee_addr EXCEPT ![r] = a]
      /\ addr' = [addr EXCEPT ![r] = s]
      /\ IF s = NoShort THEN UNCHANGED <<short_sorted, n_sorted>>
         ELSE SetIndex(add_short_sorted(Index, r, s))
      /\ n_elements' = n_elements + 1
      /\ Lock(r, lock)
      /\ UNCHANGED churn

\* What a successful search does: only the lock count changes.
Found(r, lock) ==
  /\ lock /\ MayLock(r, lock)
  /\ Lock(r, lock)
  /\ UNCHANGED <<used, ieee_addr, addr, short_sorted, n_sorted, n_elements, churn>>

\* Searches that neither find nor create change nothing and are no steps.
zb_address_by_ieee(a, lock) ==
  \/ \E r \in IeeeSearch(a) : Found(r, lock)
  \/ IeeeSearch(a) = {} /\ addr_add(a, NoShort, lock)

zb_address_by_short(s, lock) ==
  \/ \E r \in ShortSearch(s) : Found(r, lock)
  \/ ShortSearch(s) = {} /\ addr_add(NoIeee, s, lock)

\* zb_address_update gives entry r both addresses after deleting the entry in gone,
\* if one is in conflict with it.
Assign(r, gone, a, s, lock) ==
  LET index0 == IF gone = {} THEN Index
                ELSE del_short_sorted(Index, CHOOSE g \in gone : TRUE)
      index1 == IF addr[r] # NoShort THEN del_short_sorted(index0, r) ELSE index0
  IN  /\ MayLock(r, lock)
      /\ churn' = (churn \/ gone # {} \/ addr[r] \notin {s, NoShort})
      /\ used' = [x \in Refs |-> used[x] /\ x \notin gone]
      /\ n_elements' = n_elements - Cardinality(gone)
      /\ ieee_addr' = [ieee_addr EXCEPT ![r] = a]
      /\ IF addr[r] # s
         THEN /\ addr' = [addr EXCEPT ![r] = s]
              /\ SetIndex(add_short_sorted(index1, r, s))
         ELSE UNCHANGED addr /\ SetIndex(index0)
      /\ Lock(r, lock)

Unlocked(r) == lock_cnt[r] = 0

\* With two entries, the unlocked one goes, the holder of the short address
\* first; if both are locked the code gives up in ZB_ASSERT(0).
zb_address_update(a, s, lock) ==
  LET byShort == ShortSearch(s)
      byLong  == IeeeSearch(a)
  IN  \/ \E r \in byShort \cap byLong : Assign(r, {}, a, s, lock)
      \/ byShort # byLong /\ \E rs \in byShort, rl \in byLong :
           \/ Unlocked(rs) /\ Assign(rl, {rs}, a, s, lock)
           \/ ~Unlocked(rs) /\ Unlocked(rl) /\ Assign(rs, {rl}, a, s, lock)
      \/ byLong = {} /\ \E r \in byShort : Assign(r, {}, a, s, lock)
      \/ byShort = {} /\ \E r \in byLong : Assign(r, {}, a, s, lock)
      \/ byShort = {} /\ byLong = {} /\ addr_add(a, s, lock)

\* Only the owner of a lock releases it, and it refers to a used entry.
zb_address_unlock(r) ==
  /\ used[r] /\ lock_cnt[r] > 0
  /\ lock_cnt' = [lock_cnt EXCEPT ![r] = @ - 1]
  /\ UNCHANGED <<used, ieee_addr, addr, short_sorted, n_sorted, n_elements, churn>>

\* Called for a device that left, on the result of a search, locked or not.
zb_address_delete(r) ==
  /\ used[r]
  /\ churn' = TRUE
  /\ SetIndex(del_short_sorted(Index, r))
  /\ used' = [used EXCEPT ![r] = FALSE]
  /\ n_elements' = n_elements - 1
  /\ UNCHANGED <<ieee_addr, addr, lock_cnt>>

Init ==
  /\ used = [r \in Refs |-> FALSE]
  /\ ieee_addr = [r \in Refs |-> NoIeee]
  /\ addr = [r \in Refs |-> 0]
  /\ lock_cnt = [r \in Refs |-> 0]
  /\ short_sorted = [i \in 0 .. TableSize |-> IF i = TableSize THEN TableSize ELSE 0]
  /\ n_sorted = 0 /\ n_elements = 0
  /\ churn = FALSE

Next ==
  \/ \E lock \in BOOLEAN :
       \/ \E a \in IeeeAddrs : zb_address_by_ieee(a, lock)
       \/ \E s \in ShortAddrs : zb_address_by_short(s, lock)
       \/ \E a \in IeeeAddrs, s \in ShortAddrs : zb_address_update(a, s, lock)
  \/ \E r \in Refs : zb_address_unlock(r) \/ zb_address_delete(r)

Spec == Init /\ [][Next]_vars

-----------------------------------------------------------------------------
(* Properties. *)

Used == {r \in Refs : used[r]}
Indexed == {short_sorted[i] : i \in 0 .. n_sorted - 1}

TypeOK ==
  /\ used \in [Refs -> BOOLEAN]
  /\ ieee_addr \in [Refs -> IeeeAddrs \cup {NoIeee}]
  /\ addr \in [Refs -> ShortAddrs \cup {0, NoShort}]
  /\ lock_cnt \in [Refs -> 0 .. MaxLock]
  /\ short_sorted \in [0 .. TableSize -> 0 .. TableSize]
  /\ n_sorted \in 0 .. TableSize
  /\ n_elements = Cardinality(Used)

\* One entry per device: zb_address_update, which rewrites the long address of
\* an entry found by its short one, leaves no second entry with that address.
OneEntryPerIeee ==
  \A r1, r2 \in Used : ieee_addr[r1] = ieee_addr[r2] /\ r1 # r2 => ieee_addr[r1] = NoIeee

\* Every position of the index is a used entry that has a short address, none is
\* there twice, and the order is that of the short addresses.
IndexSound ==
  /\ \A i \in 0 .. n_sorted - 1 : short_sorted[i] \in Used /\ addr[short_sorted[i]] # NoShort
  /\ \A i, j \in 0 .. n_sorted - 1 :
       i < j => addr[short_sorted[i]] <= addr[short_sorted[j]] /\ short_sorted[i] # short_sorted[j]

\* short_search finds exactly what a scan of the index would find.
SearchAgreesWithScan ==
  \A s \in ShortAddrs :
    LET scan == {r \in Indexed : addr[r] = s}
    IN  ShortSearch(s) \subseteq scan /\ (ShortSearch(s) = {} => scan = {})

\* The table and its index are consistent in any history: insertions, updates that
\* move or drop entries, and deletions.
TableConsistent == OneEntryPerIeee /\ IndexSound /\ SearchAgreesWithScan

\* Every used entry with a short address is in the index, so that it is found by
\* that address ("Get address ref by long address", include/zb_address.h).
IndexComplete ==
  \A r \in Used : addr[r] # NoShort => r \in Indexed

\* No two entries translate the same short address.
OneEntryPerShort ==
  \A r1, r2 \in Used : addr[r1] = addr[r2] /\ r1 # r2 => addr[r1] = NoShort

\* As long as no entry left the index, it is complete and no short address is
\* entered twice. Afterwards neither holds: del_short_sorted takes in the slot
\* behind the array and can cut off a valid entry.
CompleteUntilRemoval == ~churn => IndexComplete /\ OneEntryPerShort
=============================================================================
