---------------------------- MODULE ZbZdo_proofs ----------------------------
(***************************************************************************)
(* ZDO transactions and management leave for any requests, buffers and     *)
(* sizes of the tables, any hash and any range of the numbers: an answer   *)
(* reaches the request it answers, and the list of pending leaves agrees   *)
(* with the leaves that are under way.                                     *)
(***************************************************************************)
EXTENDS ZbZdo, FiniteSetTheorems, WellFoundedInduction, TLAPS

Made(r) == req[r].kind # "no"

\* The transaction number that was taken a numbers ago.
Back(a) == IF tsn >= a THEN tsn - a ELSE tsn - a + TsnMod

\* Which number a request has, until the numbers come round; and two requests of which
\* neither is as old as that are of different age.
Numbers ==
  /\ \A r \in Reqs : Made(r) /\ Fresh(r) => req[r].tsn = Back(age[r])
  /\ \A r, s \in Reqs : Made(r) /\ Made(s) /\ Fresh(r) /\ Fresh(s) /\ age[r] = age[s] => r = s

\* Whose callbacks the table has: each once, under the number of its request.
TableKept ==
  /\ \A i \in Slots : zdo_cb[i].func \in Reqs =>
       /\ req[zdo_cb[i].func].kind \notin {"no", "server"}
       /\ zdo_cb[i].tsn = req[zdo_cb[i].func].tsn
  /\ \A i, j \in Slots : zdo_cb[i].func = zdo_cb[j].func /\ zdo_cb[i].func \in Reqs => i = j

\* The one of system server discovery, which is there as soon as there was a request.
ServerKept ==
  /\ server_cb \in Reqs => req[server_cb].kind = "server" /\ req[server_cb].tsn = server_tsn
  /\ server_cb \notin Reqs => \A r \in Reqs : req[r].kind # "server"

\* The inductive invariant of the transactions.
TranInv ==
  /\ TranTypeOK
  /\ \A m \in net : Made(m.to)
  /\ Numbers /\ TableKept /\ ServerKept

\* An entry of the list of pending leaves is for a leave under way: the one of its buffer.
\* An answer that is waited for is that of a device about to leave, and the flag says so.
EntryRight(i) ==
  LET o == op[pending_list[i].buf_ref]
  IN  /\ i < pending_list_size
      /\ o.stage \in {"request", "sent", "refused", "answer"}
      /\ o.from = IF pending_list[i].local THEN "app" ELSE "peer"
      /\ o.stage = "answer" => o.self /\ leave_after_mgmt_leave_rsp_conf
Listed(b) == \E i \in PSlots : pending_list[i].used /\ pending_list[i].buf_ref = b
Due(b) == op[b].stage \in {"request", "sent", "refused"} /\ op[b].from # "layer"
ListKept ==
  /\ \A i \in PSlots : pending_list[i].used => EntryRight(i)
  /\ \A i, j \in PSlots : pending_list[i].used /\ pending_list[j].used
                          /\ pending_list[i].buf_ref = pending_list[j].buf_ref => i = j
  /\ \A b \in Bufs : Due(b) => Listed(b)

LeaveTypes ==
  /\ op \in [Bufs -> Op] /\ pending_list \in [PSlots -> Pend]
  /\ pending_list_size \in 0 .. PendingSize /\ crossed \in BOOLEAN
  /\ leave_after_mgmt_leave_rsp_conf \in BOOLEAN

\* Only a device that was to leave takes a refusal for its leave.
Willing ==
  \A b \in Bufs : op[b].stage \in {"request", "refused"} /\ op[b].will_leave => op[b].self

\* The inductive invariant of the leaves.
LeaveInv == LeaveTypes /\ Willing /\ (~crossed => ListKept)

IInv == TranInv /\ LeaveInv

-----------------------------------------------------------------------------
(* Numbers and searches. *)

\* A set of numbers that is not empty has a first one.
LEMMA FirstOf ==
  ASSUME NEW S \in SUBSET Nat, S # {}
  PROVE  Min(S) \in S /\ \A j \in S : Min(S) <= j
<1>1. PICK k \in S : \A j \in S : <<j, k>> \notin OpToRel(<, Nat)
  BY NatLessThanWellFounded, WFMin, Zenon
<1>2. ASSUME NEW j \in S PROVE k <= j
  <2>1. <<j, k>> \notin OpToRel(<, Nat)
    BY <1>1
  <2>2. <<j, k>> \in Nat \X Nat
    OBVIOUS
  <2>3. ~ (j < k)
    BY <2>1, <2>2, Zenon DEF OpToRel
  <2> QED
    BY <2>3
<1> QED
  BY <1>2 DEF Min

\* A search from anywhere finds at most one slot, one it looks for, and one if there is any.
LEMMA Search ==
  ASSUME NEW t \in Tsns, NEW S \in SUBSET Slots
  PROVE  /\ FirstFrom(t, S) \subseteq S
         /\ S # {} => FirstFrom(t, S) # {}
         /\ \A i, j \in FirstFrom(t, S) : i = j
<1> DEFINE ks == {k \in Slots : (Hash[t] + k) % TranSize \in S}
<1>1. TranSize \in Nat \ {0} /\ Hash[t] \in 0 .. TranSize - 1
  BY TranAssumption DEF Slots
<1>2. FirstFrom(t, S) = IF ks = {} THEN {} ELSE {(Hash[t] + Min(ks)) % TranSize}
  BY DEF FirstFrom
<1>3. ks # {} => Min(ks) \in ks
  <2>1. ks \in SUBSET Nat
    BY <1>1 DEF Slots
  <2> HIDE DEF ks
  <2> QED
    BY <2>1, FirstOf
<1>4. ASSUME NEW i \in S PROVE ks # {}
  <2>1. i \in 0 .. TranSize - 1
    BY DEF Slots
  <2>2. PICK k \in 0 .. TranSize - 1 : Hash[t] + k = i \/ Hash[t] + k = i + TranSize
    <3>1. CASE i >= Hash[t]
      <4>1. i - Hash[t] \in 0 .. TranSize - 1 /\ Hash[t] + (i - Hash[t]) = i
        BY <1>1, <2>1, <3>1
      <4> QED
        BY <4>1
    <3>2. CASE i < Hash[t]
      <4>1. i - Hash[t] + TranSize \in 0 .. TranSize - 1
            /\ Hash[t] + (i - Hash[t] + TranSize) = i + TranSize
        BY <1>1, <2>1, <3>2
      <4> QED
        BY <4>1
    <3> QED
      BY <1>1, <2>1, <3>1, <3>2
  <2>3. (Hash[t] + k) % TranSize = i
    <3>1. PICK x \in Nat : x = Hash[t] + k /\ x < 2 * TranSize
      BY <1>1
    <3>2. x % TranSize = IF x < TranSize THEN x ELSE x - TranSize
      BY <1>1, <3>1
    <3>3. x % TranSize = i
      BY <1>1, <2>1, <2>2, <3>1, <3>2
    <3> QED
      BY <3>1, <3>3
  <2> QED
    BY <2>3 DEF Slots
<1> QED
  BY <1>2, <1>3, <1>4

\* The next number, and what becomes of those taken before.
LEMMA NumbersGoOn ==
  ASSUME tsn \in Tsns, tsn' = NextTsn
  PROVE  /\ tsn' \in Tsns /\ tsn' = Back(0)'
         /\ \A a \in Nat : a + 1 < TsnMod => Back(a + 1)' = Back(a)
<1>1. TsnMod \in Nat \ {0} /\ tsn \in Nat /\ tsn < TsnMod
  BY TranAssumption DEF Tsns
<1>2. tsn' = IF tsn + 1 < TsnMod THEN tsn + 1 ELSE tsn + 1 - TsnMod
  BY <1>1 DEF NextTsn
<1> QED
  BY <1>1, <1>2 DEF Tsns, Back

LEMMA MinOfTwo ==
  ASSUME NEW a \in Nat, NEW b \in Nat
  PROVE  Min({a, b}) = IF a <= b THEN a ELSE b
<1>1. Min({a, b}) \in {a, b} /\ \A j \in {a, b} : Min({a, b}) <= j
  <2> DEFINE S == {a, b}
  <2>1. S \in SUBSET Nat /\ S # {}
    OBVIOUS
  <2> HIDE DEF S
  <2>2. Min(S) \in S /\ \A j \in S : Min(S) <= j
    BY <2>1, FirstOf
  <2> QED
    BY <2>2 DEF S
<1> QED
  BY <1>1

-----------------------------------------------------------------------------
(* The transactions: what the steps are made of. *)

\* A request takes a number.
LEMMA Taken ==
  ASSUME TranInv, NEW r \in Reqs, NEW k \in AllKinds, ~Made(r), TakeTsn(r, k)
  PROVE  /\ tsn' \in Tsns /\ req' \in [Reqs -> [kind : AllKinds \cup {"no"}, tsn : Tsns]]
         /\ age' \in [Reqs -> 0 .. TsnMod]
         /\ req'[r] = [kind |-> k, tsn |-> tsn']
         /\ \A s \in Reqs : s # r => req'[s] = req[s]
         /\ Numbers'
<1>1. /\ tsn \in Tsns /\ req \in [Reqs -> [kind : AllKinds \cup {"no"}, tsn : Tsns]]
      /\ age \in [Reqs -> 0 .. TsnMod]
  BY DEF TranInv, TranTypeOK
<1>2. /\ tsn' = NextTsn /\ req' = [req EXCEPT ![r] = [kind |-> k, tsn |-> NextTsn]]
      /\ age' = [s \in Reqs |-> IF req[s].kind = "no" THEN 0 ELSE Min({age[s] + 1, TsnMod})]
  BY DEF TakeTsn
<1>3. /\ tsn' \in Tsns /\ tsn' = Back(0)'
      /\ \A a \in Nat : a + 1 < TsnMod => Back(a + 1)' = Back(a)
  BY <1>1, <1>2, NumbersGoOn
<1>4. /\ req' \in [Reqs -> [kind : AllKinds \cup {"no"}, tsn : Tsns]]
      /\ req'[r] = [kind |-> k, tsn |-> tsn']
      /\ \A s \in Reqs : s # r => req'[s] = req[s]
  <2> DEFINE e == [kind |-> k, tsn |-> NextTsn]
  <2>1. e \in [kind : AllKinds \cup {"no"}, tsn : Tsns]
    BY <1>2, <1>3
  <2>2. req' = [req EXCEPT ![r] = e]
    BY <1>2
  <2> HIDE DEF e
  <2>3. req' \in [Reqs -> [kind : AllKinds \cup {"no"}, tsn : Tsns]] /\ req'[r] = e
        /\ \A s \in Reqs : s # r => req'[s] = req[s]
    BY <1>1, <2>1, <2>2
  <2> QED
    BY <1>2, <2>3 DEF e
<1>5. TsnMod \in Nat \ {0}
  BY TranAssumption
<1>6. ASSUME NEW s \in Reqs
      PROVE  /\ age'[s] \in 0 .. TsnMod
             /\ ~Made(s) => age'[s] = 0
             /\ Made(s) => age'[s] = IF age[s] + 1 <= TsnMod THEN age[s] + 1 ELSE TsnMod
  <2>1. age'[s] = IF ~Made(s) THEN 0 ELSE Min({age[s] + 1, TsnMod})
    BY <1>2 DEF Made
  <2>2. age[s] \in 0 .. TsnMod
    BY <1>1
  <2>3. Min({age[s] + 1, TsnMod}) = IF age[s] + 1 <= TsnMod THEN age[s] + 1 ELSE TsnMod
    BY <1>5, <2>2, MinOfTwo
  <2> QED
    BY <1>5, <2>1, <2>2, <2>3
<1>7. age' \in [Reqs -> 0 .. TsnMod]
  BY <1>2, <1>6
<1>8. /\ Made(r)' /\ age'[r] = 0 /\ req'[r].tsn = Back(0)'
      /\ \A s \in Reqs : s # r /\ Made(s)' => Made(s)
  BY <1>3, <1>4, <1>6 DEF Made, AllKinds
<1>9. ASSUME NEW s \in Reqs, s # r, Made(s)', Fresh(s)'
      PROVE  /\ Made(s) /\ Fresh(s) /\ age'[s] = age[s] + 1
             /\ req'[s].tsn = Back(age[s])'
  <2>1. Made(s) /\ age[s] \in 0 .. TsnMod /\ age'[s] < TsnMod
    BY <1>1, <1>8, <1>9 DEF Fresh
  <2>2. age'[s] = age[s] + 1 /\ age[s] \in Nat /\ age[s] + 1 < TsnMod
    BY <1>5, <1>6, <2>1
  <2>3. Fresh(s) /\ req[s].tsn = Back(age[s])
    BY <1>5, <2>1, <2>2 DEF Fresh, TranInv, Numbers
  <2>4. PICK a \in Nat : a = age[s] /\ Back(a + 1)' = Back(a)
    BY <1>3, <2>2
  <2>5. Back(age[s])' = Back(age[s])
    <3>1. Back(age[s])' = IF tsn' >= age'[s] THEN tsn' - age'[s] ELSE tsn' - age'[s] + TsnMod
      BY DEF Back
    <3>2. Back(a + 1)' = IF tsn' >= a + 1 THEN tsn' - (a + 1) ELSE tsn' - (a + 1) + TsnMod
      BY DEF Back
    <3> QED
      BY <2>2, <2>4, <3>1, <3>2
  <2> QED
    BY <1>4, <1>9, <2>1, <2>2, <2>3, <2>5
<1>10. Numbers'
  <2>1. ASSUME NEW s \in Reqs, Made(s)', Fresh(s)' PROVE req'[s].tsn = Back(age[s])'
    <3>1. CASE s = r
      BY <1>8, <3>1 DEF Back
    <3> QED
      BY <1>9, <2>1, <3>1
  <2>2. ASSUME NEW s \in Reqs, NEW q \in Reqs, Made(s)', Made(q)', Fresh(s)', Fresh(q)',
               age'[s] = age'[q]
        PROVE  s = q
    <3>1. CASE s = r \/ q = r
      <4>1. \A x \in Reqs : x # r /\ Made(x)' /\ Fresh(x)' => age[x] \in Nat /\ age'[x] = age[x] + 1
        BY <1>1, <1>9
      <4>2. \A x \in Reqs : x # r /\ Made(x)' /\ Fresh(x)' => age'[x] # 0
        BY <4>1
      <4> QED
        BY <1>8, <2>2, <3>1, <4>2
    <3>2. CASE s # r /\ q # r
      <4>1. /\ Made(s) /\ Fresh(s) /\ age'[s] = age[s] + 1 /\ Made(q) /\ Fresh(q)
            /\ age'[q] = age[q] + 1 /\ age[s] \in Nat /\ age[q] \in Nat
        BY <1>1, <1>5, <1>9, <2>2, <3>2
      <4>2. age[s] = age[q]
        <5>1. PICK a, b \in Nat : a = age[s] /\ b = age[q] /\ a + 1 = b + 1
          BY <2>2, <4>1
        <5> QED
          BY <5>1
      <4> QED
        BY <4>1, <4>2 DEF TranInv, Numbers
    <3> QED
      BY <3>1, <3>2
  <2> QED
    BY <2>1, <2>2 DEF Numbers
<1> QED
  BY <1>3, <1>4, <1>7, <1>10

\* A callback is registered for a request that has just taken its number.
LEMMA Registered ==
  ASSUME TranInv, NEW r \in Reqs, NEW k \in AllKinds \ {"server"}, ~Made(r), TakeTsn(r, k),
         NEW n \in 0 .. RespMod - 1, RegisterZdoCb(NextTsn, r, n)
  PROVE  zdo_cb' \in [Slots -> Entry] /\ TableKept'
<1>1. /\ tsn' \in Tsns /\ req'[r] = [kind |-> k, tsn |-> tsn']
      /\ \A s \in Reqs : s # r => req'[s] = req[s]
  BY Taken
<1>2. tsn' = NextTsn
  BY DEF TakeTsn
<1>3. zdo_cb \in [Slots -> Entry] /\ TableKept
  BY DEF TranInv, TranTypeOK
<1> DEFINE F == FirstFrom(NextTsn, Free)
           e == [tsn |-> NextTsn, func |-> r, resp_counter |-> n]
<1>4. zdo_cb' = [i \in Slots |-> IF i \in F THEN e ELSE zdo_cb[i]]
  BY DEF RegisterZdoCb
<1>5. F \subseteq Slots /\ \A i, j \in F : i = j
  BY <1>1, <1>2, Search DEF Free
<1>6. e \in Entry /\ e.func = r /\ e.tsn = tsn'
  BY <1>1, <1>2 DEF Entry
<1> HIDE DEF F, e
<1>7. zdo_cb' \in [Slots -> Entry]
  BY <1>3, <1>4, <1>6
<1>8. \A i \in Slots : zdo_cb[i].func # r
  BY <1>3 DEF TableKept, Made
<1>9. \A i \in Slots : /\ zdo_cb'[i].func = IF i \in F THEN r ELSE zdo_cb[i].func
                      /\ zdo_cb'[i].tsn = IF i \in F THEN tsn' ELSE zdo_cb[i].tsn
  BY <1>4, <1>6
<1>10. req'[r].kind \notin {"no", "server"} /\ req'[r].tsn = tsn'
  BY <1>1 DEF AllKinds
<1>11. ASSUME NEW i \in Slots, zdo_cb'[i].func \in Reqs
       PROVE  /\ req'[zdo_cb'[i].func].kind \notin {"no", "server"}
              /\ zdo_cb'[i].tsn = req'[zdo_cb'[i].func].tsn
  BY <1>1, <1>3, <1>8, <1>9, <1>10, <1>11 DEF TableKept
<1>12. \A i, j \in Slots : zdo_cb'[i].func = zdo_cb'[j].func /\ zdo_cb'[i].func \in Reqs => i = j
  BY <1>3, <1>5, <1>8, <1>9 DEF TableKept
<1> QED
  BY <1>7, <1>11, <1>12 DEF TableKept

\* An answer counts one entry down, and frees it in the end.
LEMMA Responded ==
  ASSUME TranInv, NEW t, AfResp(t), UNCHANGED req
  PROVE  zdo_cb' \in [Slots -> Entry] /\ TableKept'
<1>1. zdo_cb \in [Slots -> Entry] /\ TableKept
  BY DEF TranInv, TranTypeOK
<1>2. RespMod \in Nat \ {0} /\ NoReq \notin Reqs
  BY TranAssumption
<1>3. ASSUME NEW i \in Slots
      PROVE  /\ zdo_cb'[i] \in Entry /\ zdo_cb'[i].tsn = zdo_cb[i].tsn
             /\ zdo_cb'[i].func \in {NoReq, zdo_cb[i].func}
  <2>1. zdo_cb[i] \in Entry
    BY <1>1
  <2>2. CASE zdo_cb'[i] = zdo_cb[i]
    BY <2>1, <2>2
  <2>3. CASE zdo_cb'[i] # zdo_cb[i]
    <3> DEFINE less == (zdo_cb[i].resp_counter - 1) % RespMod
    <3>1. zdo_cb'[i] = [zdo_cb[i] EXCEPT !.resp_counter = less,
                          !.func = IF less = 0 THEN NoReq ELSE zdo_cb[i].func]
      BY <2>3 DEF AfResp
    <3>2. less \in 0 .. RespMod - 1
      <4>1. PICK x \in Int : x = zdo_cb[i].resp_counter - 1
        BY <2>1 DEF Entry
      <4>2. x % RespMod \in 0 .. RespMod - 1
        BY <1>2
      <4> QED
        BY <4>1, <4>2
    <3> HIDE DEF less
    <3>3. PICK f \in {NoReq, zdo_cb[i].func} :
            zdo_cb'[i] = [zdo_cb[i] EXCEPT !.resp_counter = less, !.func = f]
      BY <3>1
    <3> QED
      BY <2>1, <3>2, <3>3 DEF Entry
  <2> QED
    BY <2>2, <2>3
<1>4. zdo_cb' = [i \in Slots |-> zdo_cb'[i]]
  BY DEF AfResp
<1>5. zdo_cb' \in [Slots -> Entry]
  BY <1>3, <1>4
<1>6. TableKept'
  BY <1>1, <1>2, <1>3 DEF TableKept
<1> QED
  BY <1>5, <1>6

\* Without new requests.
LEMMA SameRequests ==
  ASSUME TranInv, UNCHANGED <<tsn, req, age, server>>,
         UNCHANGED zdo_cb \/ \E t \in Tsns : AfResp(t),
         net' \subseteq Message, \A m \in net' : Made(m.to)
  PROVE  TranInv'
<1>1. zdo_cb' \in [Slots -> Entry] /\ TableKept'
  <2>1. CASE UNCHANGED zdo_cb
    BY <2>1 DEF TranInv, TranTypeOK, TableKept
  <2> QED
    BY <2>1, Responded
<1>2. Numbers' /\ ServerKept' /\ \A m \in net' : Made(m.to)'
  BY DEF TranInv, Numbers, ServerKept, Made, Fresh, Back, server
<1>3. TranTypeOK'
  BY <1>1 DEF TranInv, TranTypeOK, server
<1> QED
  BY <1>1, <1>2, <1>3 DEF TranInv

\* A request, with a callback in the table, that may be sent.
LEMMA NewRequest ==
  ASSUME TranInv, NEW r \in Reqs, NEW k \in AllKinds \ {"server"}, ~Made(r), TakeTsn(r, k),
         NEW n \in 0 .. RespMod - 1, RegisterZdoCb(NextTsn, r, n), UNCHANGED server,
         UNCHANGED net \/ Send(r)
  PROVE  TranInv'
<1>1. /\ tsn' \in Tsns /\ req' \in [Reqs -> [kind : AllKinds \cup {"no"}, tsn : Tsns]]
      /\ age' \in [Reqs -> 0 .. TsnMod] /\ Numbers'
      /\ req'[r] = [kind |-> k, tsn |-> tsn']
      /\ \A s \in Reqs : s # r => req'[s] = req[s]
  BY Taken
<1>2. zdo_cb' \in [Slots -> Entry] /\ TableKept'
  BY Registered
<1>3. net \subseteq Message /\ \A m \in net : Made(m.to)
  BY DEF TranInv, TranTypeOK
<1>4. Made(r)' /\ \A s \in Reqs : Made(s) => Made(s)'
  BY <1>1 DEF Made, AllKinds
<1>5. net' \subseteq net \cup {[answer |-> FALSE, to |-> r]}
  BY DEF Send
<1>6. net' \subseteq Message /\ \A m \in net' : Made(m.to)'
  <2>1. [answer |-> FALSE, to |-> r] \in Message /\ [answer |-> FALSE, to |-> r].to = r
    BY DEF Message
  <2>2. \A m \in net : Made(m.to)'
    BY <1>3, <1>4 DEF Message
  <2> QED
    BY <1>3, <1>4, <1>5, <2>1, <2>2
<1>7. ServerKept' /\ server_tsn' \in Tsns /\ server_cb' \in Reqs \cup {NoReq}
  <2>1. req'[r].kind # "server" /\ ~ (server_cb = r)
    BY <1>1 DEF TranInv, ServerKept, Made
  <2> QED
    BY <1>1, <2>1 DEF TranInv, TranTypeOK, ServerKept, server
<1> QED
  BY <1>1, <1>2, <1>6, <1>7 DEF TranInv, TranTypeOK

LEMMA NewDiscovery ==
  ASSUME TranInv, NEW r \in Reqs, ServerDiscoveryReq(r)
  PROVE  TranInv'
<1>1. ~Made(r) /\ "server" \in AllKinds /\ TakeTsn(r, "server")
  BY DEF ServerDiscoveryReq, Made, AllKinds
<1>2. /\ tsn' \in Tsns /\ req' \in [Reqs -> [kind : AllKinds \cup {"no"}, tsn : Tsns]]
      /\ age' \in [Reqs -> 0 .. TsnMod] /\ Numbers'
      /\ req'[r] = [kind |-> "server", tsn |-> tsn']
      /\ \A s \in Reqs : s # r => req'[s] = req[s]
  BY <1>1, Taken
<1>3. /\ zdo_cb \in [Slots -> Entry] /\ TableKept /\ net \subseteq Message
      /\ \A m \in net : Made(m.to)
  BY DEF TranInv, TranTypeOK
<1>4. Made(r)' /\ \A s \in Reqs : Made(s) => Made(s)'
  BY <1>2 DEF Made
<1>5. net' = net \cup {[answer |-> FALSE, to |-> r]} /\ UNCHANGED zdo_cb
      /\ server_tsn' = tsn' /\ server_cb' = r
  BY DEF ServerDiscoveryReq, Send, TakeTsn
<1>6. net' \subseteq Message /\ \A m \in net' : Made(m.to)'
  <2>1. [answer |-> FALSE, to |-> r] \in Message /\ [answer |-> FALSE, to |-> r].to = r
    BY DEF Message
  <2>2. \A m \in net : Made(m.to)'
    BY <1>3, <1>4 DEF Message
  <2> QED
    BY <1>3, <1>4, <1>5, <2>1, <2>2
<1>7. TableKept'
  <2>1. \A i \in Slots : zdo_cb[i].func # r
    BY <1>1, <1>3 DEF TableKept, Made
  <2> QED
    BY <1>2, <1>3, <1>5, <2>1 DEF TableKept
<1>8. ServerKept'
  BY <1>2, <1>5 DEF ServerKept
<1> QED
  BY <1>2, <1>3, <1>5, <1>6, <1>7, <1>8 DEF TranInv, TranTypeOK

LEMMA TranInitInv == TranInit => TranInv
<1> SUFFICES ASSUME TranInit PROVE TranInv
  OBVIOUS
<1>1. 0 \in Tsns /\ 0 \in 0 .. RespMod - 1 /\ 0 \in 0 .. TsnMod /\ NoReq \notin Reqs
  BY TranAssumption DEF Tsns
<1>2. zdo_cb \in [Slots -> Entry] /\ \A i \in Slots : zdo_cb[i].func = NoReq
  BY <1>1 DEF TranInit, Entry
<1>3. /\ req \in [Reqs -> [kind : AllKinds \cup {"no"}, tsn : Tsns]]
      /\ \A r \in Reqs : req[r].kind = "no"
  BY <1>1 DEF TranInit
<1>4. age \in [Reqs -> 0 .. TsnMod]
  BY <1>1 DEF TranInit
<1>5. Numbers /\ TableKept /\ ServerKept
  BY <1>1, <1>2, <1>3 DEF Numbers, TableKept, ServerKept, Made, TranInit
<1>6. TranTypeOK /\ net = {}
  BY <1>1, <1>2, <1>3, <1>4 DEF TranTypeOK, TranInit
<1> QED
  BY <1>5, <1>6 DEF TranInv

\* A step of the transactions alone.
LEMMA TranNextInv ==
  ASSUME TranInv, TranNext
  PROVE  TranInv'
<1>1. ASSUME NEW r \in Reqs, NEW k \in Kinds, NEW n \in Counts, Request(r, k, n)
      PROVE  TranInv'
  <2>1. k \in AllKinds \ {"server"} /\ n \in 0 .. RespMod - 1 /\ ~Made(r)
    BY <1>1, TranAssumption DEF Request, Made
  <2> QED
    BY <1>1, <2>1, NewRequest DEF Request
<1>2. ASSUME NEW r \in Reqs, Answer(r) PROVE TranInv'
  <2>1. net' \subseteq net /\ net \subseteq Message /\ \A m \in net : Made(m.to)
    BY <1>2 DEF Answer, TranInv, TranTypeOK
  <2>2. req[r].tsn \in Tsns
    BY DEF TranInv, TranTypeOK
  <2> QED
    BY <1>2, <2>1, <2>2, SameRequests DEF Answer
<1>3. ASSUME NEW r \in Reqs, Serve(r) PROVE TranInv'
  <2>1. /\ [answer |-> FALSE, to |-> r] \in net
        /\ net' \subseteq net \cup {[answer |-> TRUE, to |-> r]}
    BY <1>3 DEF Serve
  <2>2. net \subseteq Message /\ \A m \in net : Made(m.to)
    BY DEF TranInv, TranTypeOK
  <2>3. Made(r) /\ [answer |-> TRUE, to |-> r] \in Message /\ [answer |-> TRUE, to |-> r].to = r
    BY <2>1, <2>2 DEF Message
  <2>4. net' \subseteq Message /\ \A m \in net' : Made(m.to)
    BY <2>1, <2>2, <2>3
  <2> QED
    BY <1>3, <2>4, SameRequests DEF Serve, table
<1>4. ASSUME NEW m \in net, Lose(m) PROVE TranInv'
  BY <1>4, SameRequests DEF Lose, table, TranInv, TranTypeOK
<1> QED
  BY <1>1, <1>2, <1>3, <1>4, NewDiscovery DEF TranNext

\* What the invariant says of an answer.
LEMMA TranInvAnswers ==
  ASSUME TranInv
  PROVE  AnswerIsForRequest
<1> SUFFICES ASSUME \A s \in Reqs : Waits(s) => Fresh(s),
                    NEW r \in Reqs, [answer |-> TRUE, to |-> r] \in net, Fresh(r)
             PROVE  CallbackFor(r) = IF Waits(r) THEN {r} ELSE {}
  BY DEF AnswerIsForRequest
<1>1. Made(r)
  BY DEF TranInv
<1>2. ASSUME NEW s \in Reqs, Waits(s), Made(s), req[s].tsn = req[r].tsn PROVE s = r
  <2>1. Fresh(s) /\ age[s] \in Nat /\ age[r] \in Nat /\ age[s] < TsnMod /\ age[r] < TsnMod
    BY <1>2 DEF Fresh, TranInv, TranTypeOK
  <2>2. Back(age[s]) = Back(age[r])
    BY <1>1, <1>2, <2>1 DEF TranInv, Numbers
  <2>3. tsn \in Nat /\ tsn < TsnMod /\ TsnMod \in Nat
    BY TranAssumption DEF TranInv, TranTypeOK, Tsns
  <2>4. age[s] = age[r]
    BY <2>1, <2>2, <2>3 DEF Back
  <2> QED
    BY <1>1, <1>2, <2>1, <2>4 DEF TranInv, Numbers
<1>3. CASE req[r].kind = "server"
  <2>1. server_cb \in Reqs /\ req[server_cb].kind = "server" /\ req[server_cb].tsn = server_tsn
    BY <1>3 DEF TranInv, ServerKept
  <2>2. req[r].tsn = server_tsn => server_cb = r
    BY <1>2, <2>1 DEF Waits, Made
  <2>3. Waits(r) <=> server_cb = r
    BY <1>3 DEF Waits, TranInv, TableKept
  <2> QED
    BY <1>3, <2>1, <2>2, <2>3 DEF CallbackFor
<1>4. CASE req[r].kind # "server"
  <2> DEFINE t == req[r].tsn
  <2>1. t \in Tsns /\ \A i \in Slots : zdo_cb[i].func \in Reqs \cup {NoReq}
    BY DEF TranInv, TranTypeOK, Entry
  <2>2. \A i \in Waiting(t) : zdo_cb[i].func = r
    <3> SUFFICES ASSUME NEW i \in Waiting(t) PROVE zdo_cb[i].func = r
      OBVIOUS
    <3>1. i \in Slots /\ zdo_cb[i].func \in Reqs /\ zdo_cb[i].tsn = t
      BY <2>1 DEF Waiting
    <3>2. PICK s \in Reqs : s = zdo_cb[i].func
      BY <3>1
    <3>3. Waits(s) /\ Made(s) /\ req[s].tsn = t
      BY <3>1, <3>2 DEF Waits, Made, TranInv, TableKept
    <3> QED
      BY <1>2, <3>2, <3>3
  <2>3. Waiting(t) = {} <=> ~Waits(r)
    <3>1. server_cb # r
      BY <1>4 DEF TranInv, ServerKept
    <3>2. Waits(r) <=> \E i \in Slots : zdo_cb[i].func = r
      BY <3>1 DEF Waits
    <3>3. \A i \in Slots : zdo_cb[i].func = r => i \in Waiting(t)
      BY TranAssumption DEF Waiting, TranInv, TableKept
    <3>4. \A i \in Waiting(t) : i \in Slots
      BY DEF Waiting
    <3> QED
      BY <2>2, <3>2, <3>3, <3>4
  <2>4. /\ FirstFrom(t, Waiting(t)) \subseteq Waiting(t)
        /\ Waiting(t) # {} => FirstFrom(t, Waiting(t)) # {}
    BY <2>1, Search DEF Waiting
  <2>5. CallbackFor(r) = {zdo_cb[i].func : i \in FirstFrom(t, Waiting(t))}
    BY <1>4 DEF CallbackFor, Callback
  <2> QED
    BY <2>2, <2>3, <2>4, <2>5
<1> QED
  BY <1>3, <1>4

-----------------------------------------------------------------------------
(* The leaves: what the steps are made of. *)

\* The search by buffer.
LEMMA FoundEntry ==
  ASSUME LeaveTypes, NEW b
  PROVE  /\ \A i \in Found(b) : i \in PSlots /\ pending_list[i].used /\ pending_list[i].buf_ref = b
         /\ ListKept => (Listed(b) <=> Found(b) # {})
<1> DEFINE is == {i \in Live : pending_list[i].buf_ref = b}
<1>1. Found(b) = IF is = {} THEN {} ELSE {Min(is)}
  BY DEF Found
<1>2. is \in SUBSET Nat
  BY LeaveAssumption DEF Live, PSlots
<1>3. \A i \in is : i \in PSlots /\ pending_list[i].used /\ pending_list[i].buf_ref = b
  BY DEF Live
<1>4. ListKept => (Listed(b) <=> is # {})
  BY DEF ListKept, Listed, EntryRight, Live
<1> HIDE DEF is
<1>5. is # {} => Min(is) \in is
  BY <1>2, FirstOf
<1> QED
  BY <1>1, <1>3, <1>4, <1>5

\* The buffer of no leave is not in the list.
LEMMA NotListed ==
  ASSUME ListKept, NEW b \in Bufs, op[b].stage \in {"idle", "indication", "lost"}
  PROVE  ~Listed(b)
BY DEF ListKept, Listed, EntryRight

\* A leave goes on, or ends, and the list stays.
LEMMA OpGoesOn ==
  ASSUME LeaveTypes, ListKept, NEW b \in Bufs, NEW e \in Op, op' = [op EXCEPT ![b] = e],
         UNCHANGED <<pending_list, pending_list_size>>,
         leave_after_mgmt_leave_rsp_conf => leave_after_mgmt_leave_rsp_conf',
         IF Listed(b)
         THEN /\ e.stage \in {"request", "sent", "refused", "answer"} /\ e.from = op[b].from
              /\ e.stage = "answer" => e.self /\ leave_after_mgmt_leave_rsp_conf'
         ELSE e.stage \notin {"request", "sent", "refused"} \/ e.from = "layer"
  PROVE  ListKept'
<1>1. \A c \in Bufs : op'[c] = IF c = b THEN e ELSE op[c]
  BY DEF LeaveTypes
<1>2. \A i \in PSlots : pending_list[i].buf_ref \in Bufs
  BY DEF LeaveTypes, Pend
<1>3. ASSUME NEW i \in PSlots, pending_list[i].used PROVE EntryRight(i)'
  <2>1. EntryRight(i)
    BY <1>3 DEF ListKept
  <2>2. CASE pending_list[i].buf_ref = b
    <3>1. Listed(b)
      BY <1>3, <2>2 DEF Listed
    <3> QED
      BY <1>1, <2>1, <2>2, <3>1 DEF EntryRight
  <2>3. CASE pending_list[i].buf_ref # b
    BY <1>1, <1>2, <2>1, <2>3 DEF EntryRight
  <2> QED
    BY <2>2, <2>3
<1>4. ASSUME NEW c \in Bufs, Due(c)' PROVE Listed(c)'
  <2>1. CASE c = b
    BY <1>1, <1>4, <2>1 DEF Due, Listed
  <2>2. CASE c # b
    BY <1>1, <1>4, <2>2 DEF Due, Listed, ListKept
  <2> QED
    BY <2>1, <2>2
<1> QED
  BY <1>3, <1>4 DEF ListKept

\* A leave begins and is listed.
LEMMA OpListed ==
  ASSUME LeaveTypes, ListKept, NEW b \in Bufs, NEW e \in Op, op' = [op EXCEPT ![b] = e],
         op[b].stage = "idle", e.stage = "request",
         NEW local \in BOOLEAN, NEW t \in Tsns, Unused # {}, Pended(b, local, t),
         e.from = IF local THEN "app" ELSE "peer",
         UNCHANGED leave_after_mgmt_leave_rsp_conf
  PROVE  ListKept'
<1>1. \A c \in Bufs : op'[c] = IF c = b THEN e ELSE op[c]
  BY DEF LeaveTypes
<1>2. \A i \in PSlots : pending_list[i].buf_ref \in Bufs
  BY DEF LeaveTypes, Pend
<1>3. ~Listed(b)
  BY NotListed
<1>4. PICK i \in Unused :
        /\ pending_list' = [pending_list EXCEPT ![i] =
                              [used |-> TRUE, buf_ref |-> b, local |-> local, tsn |-> t]]
        /\ pending_list_size' = Max({pending_list_size, i + 1})
  <2>1. Unused \in SUBSET Nat
    BY LeaveAssumption DEF Unused, PSlots
  <2>2. Min(Unused) \in Unused
    BY <2>1, FirstOf
  <2> QED
    BY <2>2 DEF Pended
<1>5. i \in PSlots /\ i \in Nat /\ pending_list_size \in Nat /\ ~pending_list[i].used
  BY <1>4, LeaveAssumption DEF Unused, PSlots, LeaveTypes
<1>6. pending_list_size' = IF pending_list_size >= i + 1 THEN pending_list_size ELSE i + 1
  BY <1>4, <1>5 DEF Max
<1>7. \A j \in PSlots :
        /\ pending_list'[j].used <=> j = i \/ pending_list[j].used
        /\ pending_list'[j].buf_ref = IF j = i THEN b ELSE pending_list[j].buf_ref
        /\ pending_list'[j].local = IF j = i THEN local ELSE pending_list[j].local
  BY <1>4, <1>5 DEF LeaveTypes
<1>8. ASSUME NEW j \in PSlots, pending_list'[j].used PROVE EntryRight(j)'
  <2>1. CASE j = i
    <3>1. pending_list'[j].buf_ref = b /\ (pending_list'[j].local <=> local)
      BY <1>7, <2>1
    <3>2. i < pending_list_size'
      BY <1>5, <1>6
    <3> QED
      BY <1>1, <2>1, <3>1, <3>2 DEF EntryRight
  <2>2. CASE j # i
    <3>1. EntryRight(j) /\ pending_list[j].buf_ref # b /\ pending_list[j].buf_ref \in Bufs
      BY <1>2, <1>3, <1>7, <1>8, <2>2 DEF ListKept, Listed
    <3>2. /\ pending_list'[j].buf_ref = pending_list[j].buf_ref
          /\ pending_list'[j].local = pending_list[j].local
          /\ op'[pending_list[j].buf_ref] = op[pending_list[j].buf_ref]
      BY <1>1, <1>7, <2>2, <3>1
    <3>3. j < pending_list_size'
      <4>1. j \in Nat /\ j < pending_list_size
        BY <3>1, LeaveAssumption DEF EntryRight, PSlots
      <4> QED
        BY <1>5, <1>6, <4>1
    <3> QED
      BY <3>1, <3>2, <3>3 DEF EntryRight
  <2> QED
    BY <2>1, <2>2
<1>9. \A j, k \in PSlots : pending_list'[j].used /\ pending_list'[k].used
                           /\ pending_list'[j].buf_ref = pending_list'[k].buf_ref => j = k
  BY <1>3, <1>7 DEF ListKept, Listed
<1>10. ASSUME NEW c \in Bufs, Due(c)' PROVE Listed(c)'
  <2>1. CASE c = b
    BY <1>5, <1>7, <2>1 DEF Listed
  <2>2. CASE c # b
    <3>1. Listed(c)
      BY <1>1, <1>10, <2>2 DEF Due, ListKept
    <3>2. PICK j \in PSlots : pending_list[j].used /\ pending_list[j].buf_ref = c
      BY <3>1 DEF Listed
    <3> QED
      BY <1>5, <1>7, <3>2 DEF Listed
  <2> QED
    BY <2>1, <2>2
<1> QED
  BY <1>8, <1>9, <1>10 DEF ListKept

LEMMA EntryUnused ==
  ASSUME LeaveTypes, NEW i \in PSlots
  PROVE  LET list == [pending_list EXCEPT ![i].used = FALSE]
         IN  /\ list \in [PSlots -> Pend]
             /\ \A j \in PSlots : /\ list[j].used <=> j # i /\ pending_list[j].used
                                  /\ list[j].buf_ref = pending_list[j].buf_ref
                                  /\ list[j].local = pending_list[j].local
<1> DEFINE e == [pending_list[i] EXCEPT !.used = FALSE]
           list == [pending_list EXCEPT ![i] = e]
<1>1. [pending_list EXCEPT ![i].used = FALSE] = list
  BY Zenon
<1>2. pending_list \in [PSlots -> Pend] /\ pending_list[i] \in Pend
  BY DEF LeaveTypes
<1>3. e \in Pend /\ ~e.used /\ e.buf_ref = pending_list[i].buf_ref /\ e.local = pending_list[i].local
  BY <1>2 DEF Pend
<1> HIDE DEF e
<1>4. /\ list \in [PSlots -> Pend]
      /\ \A j \in PSlots : list[j] = IF j = i THEN e ELSE pending_list[j]
  BY <1>2, <1>3
<1> HIDE DEF list
<1> QED
  BY <1>1, <1>3, <1>4

\* A leave goes on, or ends, without its entry.
LEMMA OpDropped ==
  ASSUME LeaveTypes, ListKept, NEW b \in Bufs, NEW e \in Op, op' = [op EXCEPT ![b] = e],
         e.stage \notin {"request", "sent", "refused"},
         NEW i \in PSlots, pending_list[i].used, pending_list[i].buf_ref = b, Dropped(i),
         leave_after_mgmt_leave_rsp_conf => leave_after_mgmt_leave_rsp_conf'
  PROVE  ListKept'
<1>1. \A c \in Bufs : op'[c] = IF c = b THEN e ELSE op[c]
  BY DEF LeaveTypes
<1>2. \A j \in PSlots : pending_list[j].buf_ref \in Bufs
  BY DEF LeaveTypes, Pend
<1>3. /\ pending_list' = [pending_list EXCEPT ![i].used = FALSE]
      /\ pending_list_size' = IF pending_list_size = i + 1 THEN i ELSE pending_list_size
  BY DEF Dropped
<1>4. \A j \in PSlots :
        /\ pending_list'[j].used <=> j # i /\ pending_list[j].used
        /\ pending_list'[j].buf_ref = pending_list[j].buf_ref
        /\ pending_list'[j].local = pending_list[j].local
  BY <1>3, EntryUnused
<1>5. ASSUME NEW j \in PSlots, pending_list'[j].used PROVE EntryRight(j)'
  <2>1. EntryRight(j) /\ pending_list[j].buf_ref # b /\ j # i
    BY <1>4, <1>5 DEF ListKept
  <2>2. op'[pending_list[j].buf_ref] = op[pending_list[j].buf_ref]
    BY <1>1, <1>2, <2>1
  <2>3. j < pending_list_size'
    <3>1. j \in Nat /\ i \in Nat /\ pending_list_size \in Nat /\ j < pending_list_size
      BY <2>1, LeaveAssumption DEF EntryRight, PSlots, LeaveTypes
    <3> QED
      BY <1>3, <2>1, <3>1
  <2> QED
    BY <1>4, <2>1, <2>2, <2>3 DEF EntryRight
<1>6. \A j, k \in PSlots : pending_list'[j].used /\ pending_list'[k].used
                           /\ pending_list'[j].buf_ref = pending_list'[k].buf_ref => j = k
  BY <1>4 DEF ListKept
<1>7. ASSUME NEW c \in Bufs, Due(c)' PROVE Listed(c)'
  <2>1. c # b /\ Due(c)
    BY <1>1, <1>7 DEF Due
  <2>2. PICK j \in PSlots : pending_list[j].used /\ pending_list[j].buf_ref = c
    BY <2>1 DEF ListKept, Listed
  <2> QED
    BY <1>4, <2>1, <2>2 DEF Listed
<1> QED
  BY <1>5, <1>6, <1>7 DEF ListKept

\* The device left, and nothing else was pending.
LEMMA OpLeft ==
  ASSUME LeaveTypes, ListKept, UNCHANGED op \/ \E b \in Bufs : Freed(b),
         NEW list \in [PSlots -> Pend], NEW rejoin, DoLeave(rejoin, list), ~crossed',
         \A i \in PSlots : pending_list[i].used => list[i].used \/ op'[pending_list[i].buf_ref] = NoOp
  PROVE  ListKept'
<1>1. pending_list' = list /\ \A i \in PSlots : ~list[i].used
  BY DEF DoLeave
<1>2. \A c \in Bufs : op'[c] \in {op[c], NoOp}
  BY DEF Freed, LeaveTypes
<1>3. ASSUME NEW c \in Bufs, Due(c)' PROVE FALSE
  <2>1. op'[c] = op[c] /\ op'[c] # NoOp
    BY <1>2, <1>3 DEF Due, NoOp
  <2>2. PICK j \in PSlots : pending_list[j].used /\ pending_list[j].buf_ref = c
    BY <1>3, <2>1 DEF ListKept, Listed, Due
  <2> QED
    BY <1>1, <2>1, <2>2
<1> QED
  BY <1>1, <1>3 DEF ListKept

\* What becomes of the operation of a buffer.
LEMMA NoOpIsOp == NoOp \in Op
BY DEF NoOp, Op, Stages

LEMMA OpBegins ==
  ASSUME NEW b \in Bufs, NEW self \in BOOLEAN, NEW rejoin \in BOOLEAN,
         NEW from \in {"peer", "app", "layer"}, NEW stage \in Stages,
         Begin(b, self, rejoin, from, stage)
  PROVE  \E e \in Op : /\ op' = [op EXCEPT ![b] = e] /\ op[b].stage = "idle"
                       /\ e.stage = stage /\ e.from = from /\ ~e.will_leave /\ e.self = self
<1> DEFINE e == [stage |-> stage, self |-> self, rejoin |-> rejoin, will_leave |-> FALSE, from |-> from]
<1>1. e \in Op /\ e.stage = stage /\ e.from = from /\ ~e.will_leave /\ e.self = self
  BY DEF Op
<1>2. op' = [op EXCEPT ![b] = e] /\ op[b].stage = "idle"
  BY DEF Begin
<1> HIDE DEF e
<1> QED
  BY <1>1, <1>2

LEMMA OpGoes ==
  ASSUME LeaveTypes, NEW b \in Bufs, NEW stage \in Stages, Goes(b, stage)
  PROVE  \E e \in Op : /\ op' = [op EXCEPT ![b] = e] /\ e.stage = stage /\ e.from = op[b].from
                       /\ e.self = op[b].self /\ e.will_leave = op[b].will_leave
<1> DEFINE e == [op[b] EXCEPT !.stage = stage]
<1>1. op' = [op EXCEPT ![b] = e]
  BY Zenon DEF Goes
<1>2. op[b] \in Op
  BY DEF LeaveTypes
<1>3. /\ e \in Op /\ e.stage = stage /\ e.from = op[b].from
      /\ e.self = op[b].self /\ e.will_leave = op[b].will_leave
  BY <1>2 DEF Op
<1> HIDE DEF e
<1> QED
  BY <1>1, <1>3

GoesWith(b, stage, will) == op' = [op EXCEPT ![b].stage = stage, ![b].will_leave = will]
LEMMA OpGoesWith ==
  ASSUME LeaveTypes, NEW b \in Bufs, NEW stage \in Stages, NEW will \in BOOLEAN,
         GoesWith(b, stage, will)
  PROVE  \E e \in Op : /\ op' = [op EXCEPT ![b] = e] /\ e.stage = stage /\ e.from = op[b].from
                       /\ e.self = op[b].self /\ e.will_leave = will
<1> DEFINE e == [op[b] EXCEPT !.stage = stage, !.will_leave = will]
<1>1. op' = [op EXCEPT ![b] = e]
  <2>1. op' = [[op EXCEPT ![b] = [op[b] EXCEPT !.stage = stage]] EXCEPT
                 ![b] = [@ EXCEPT !.will_leave = will]]
    BY Zenon DEF GoesWith
  <2>2. op \in [Bufs -> Op]
    BY DEF LeaveTypes
  <2> QED
    BY <2>1, <2>2
<1>2. op[b] \in Op
  BY DEF LeaveTypes
<1>3. /\ e \in Op /\ e.stage = stage /\ e.from = op[b].from
      /\ e.self = op[b].self /\ e.will_leave = will
  BY <1>2 DEF Op
<1> HIDE DEF e
<1> QED
  BY <1>1, <1>3

\* A change of one operation keeps the types and what a refusal means.
LEMMA OpTypes ==
  ASSUME LeaveTypes, Willing, NEW b \in Bufs, NEW e \in Op, op' = [op EXCEPT ![b] = e],
         e.stage \in {"request", "refused"} /\ e.will_leave => e.self
  PROVE  op' \in [Bufs -> Op] /\ Willing'
<1>1. op \in [Bufs -> Op]
  BY DEF LeaveTypes
<1>2. op' \in [Bufs -> Op] /\ \A c \in Bufs : op'[c] = IF c = b THEN e ELSE op[c]
  BY <1>1
<1> QED
  BY <1>2 DEF Willing

LEMMA PendedTypes ==
  ASSUME LeaveTypes, NEW b \in Bufs, NEW local \in BOOLEAN, NEW t \in Tsns, Unused # {},
         Pended(b, local, t)
  PROVE  pending_list' \in [PSlots -> Pend] /\ pending_list_size' \in 0 .. PendingSize
<1>1. PICK i \in Unused :
        /\ pending_list' = [pending_list EXCEPT ![i] =
                              [used |-> TRUE, buf_ref |-> b, local |-> local, tsn |-> t]]
        /\ pending_list_size' = Max({pending_list_size, i + 1})
  <2>1. Unused \in SUBSET Nat
    BY LeaveAssumption DEF Unused, PSlots
  <2>2. Min(Unused) \in Unused
    BY <2>1, FirstOf
  <2> QED
    BY <2>2 DEF Pended
<1>2. [used |-> TRUE, buf_ref |-> b, local |-> local, tsn |-> t] \in Pend
  BY DEF Pend
<1>3. i \in 0 .. PendingSize - 1 /\ pending_list_size \in 0 .. PendingSize
  BY <1>1 DEF Unused, PSlots, LeaveTypes
<1>4. pending_list_size' = IF pending_list_size >= i + 1 THEN pending_list_size ELSE i + 1
  BY <1>1, <1>3, LeaveAssumption DEF Max
<1>5. pending_list' \in [PSlots -> Pend]
  BY <1>1, <1>2 DEF LeaveTypes
<1> QED
  BY <1>3, <1>4, <1>5, LeaveAssumption

LEMMA DroppedTypes ==
  ASSUME LeaveTypes, NEW i \in PSlots, Dropped(i)
  PROVE  pending_list' \in [PSlots -> Pend] /\ pending_list_size' \in 0 .. PendingSize
<1>1. pending_list' \in [PSlots -> Pend]
  BY EntryUnused DEF Dropped
<1>2. pending_list_size \in 0 .. PendingSize /\ i \in 0 .. PendingSize - 1
  BY DEF LeaveTypes, PSlots
<1> QED
  BY <1>1, <1>2, LeaveAssumption DEF Dropped

\* The device leaves.
LEMMA LeftTypes ==
  ASSUME LeaveTypes, NEW list \in [PSlots -> Pend], NEW rejoin, DoLeave(rejoin, list)
  PROVE  /\ pending_list' \in [PSlots -> Pend] /\ pending_list_size' \in 0 .. PendingSize
         /\ crossed' \in BOOLEAN /\ leave_after_mgmt_leave_rsp_conf' \in BOOLEAN
         /\ ~crossed' => ~crossed
<1>1. pending_list' = list /\ pending_list_size' = 0 /\ leave_after_mgmt_leave_rsp_conf' = FALSE
  BY DEF DoLeave
<1>2. crossed' \in BOOLEAN /\ (~crossed' => ~crossed)
  BY Zenon DEF DoLeave
<1>3. pending_list_size' \in 0 .. PendingSize
  BY <1>1, LeaveAssumption
<1>4. leave_after_mgmt_leave_rsp_conf' \in BOOLEAN
  BY <1>1, Zenon
<1> QED
  BY <1>1, <1>2, <1>3, <1>4

-----------------------------------------------------------------------------
(* The leaves: the steps. *)

LEMMA ServedInv ==
  ASSUME LeaveInv, NEW b \in Bufs, NEW self \in BOOLEAN, NEW rejoin \in BOOLEAN,
         MgmtLeaveSrv(b, self, rejoin)
  PROVE  LeaveInv'
<1>1. UNCHANGED <<crossed, leave_after_mgmt_leave_rsp_conf>>
  BY DEF MgmtLeaveSrv, flags
<1>2. LeaveTypes /\ Willing
  BY DEF LeaveInv
<1>3. CASE Unused = {}
  <2>1. Begin(b, self, rejoin, "peer", "answer") /\ KeepList
    BY <1>3 DEF MgmtLeaveSrv
  <2>2. PICK e \in Op : /\ op' = [op EXCEPT ![b] = e] /\ op[b].stage = "idle"
                        /\ e.stage = "answer" /\ e.from = "peer" /\ ~e.will_leave
    BY <2>1, OpBegins DEF Stages
  <2>3. op' \in [Bufs -> Op] /\ Willing'
    BY <1>2, <2>2, OpTypes
  <2>4. ListKept => ListKept'
    BY <1>1, <1>2, <2>1, <2>2, OpGoesOn, NotListed DEF KeepList
  <2> QED
    BY <1>1, <1>2, <2>1, <2>3, <2>4 DEF LeaveInv, LeaveTypes, KeepList
<1>4. CASE Unused # {}
  <2>1. Begin(b, self, rejoin, "peer", "request") /\ Pended(b, FALSE, 0)
    BY <1>4 DEF MgmtLeaveSrv
  <2>2. PICK e \in Op : /\ op' = [op EXCEPT ![b] = e] /\ op[b].stage = "idle"
                        /\ e.stage = "request" /\ e.from = "peer" /\ ~e.will_leave
    BY <2>1, OpBegins DEF Stages
  <2>3. op' \in [Bufs -> Op] /\ Willing'
    BY <1>2, <2>2, OpTypes
  <2>4. 0 \in Tsns
    BY TranAssumption DEF Tsns
  <2>5. ListKept => ListKept'
    BY <1>1, <1>2, <1>4, <2>1, <2>2, <2>4, OpListed
  <2>6. pending_list' \in [PSlots -> Pend] /\ pending_list_size' \in 0 .. PendingSize
    BY <1>2, <1>4, <2>1, <2>4, PendedTypes
  <2> QED
    BY <1>1, <1>2, <2>3, <2>5, <2>6 DEF LeaveInv, LeaveTypes
<1> QED
  BY <1>3, <1>4

LEMMA AskedInv ==
  ASSUME TranInv, LeaveInv, NEW b \in Bufs, NEW r \in Reqs, NEW self \in BOOLEAN,
         NEW rejoin \in BOOLEAN, MgmtLeaveCli(b, r, self, rejoin)
  PROVE  TranInv' /\ LeaveInv'
<1>1. /\ UNCHANGED <<crossed, leave_after_mgmt_leave_rsp_conf, server, net>>
      /\ Unused # {} /\ Pended(b, TRUE, NextTsn) /\ Begin(b, self, rejoin, "app", "request")
      /\ ~Made(r) /\ TakeTsn(r, "leave") /\ RegisterZdoCb(NextTsn, r, 1)
  BY DEF MgmtLeaveCli, flags, Made
<1>2. LeaveTypes /\ Willing
  BY DEF LeaveInv
<1>3. PICK e \in Op : /\ op' = [op EXCEPT ![b] = e] /\ op[b].stage = "idle"
                      /\ e.stage = "request" /\ e.from = "app" /\ ~e.will_leave
  BY <1>1, OpBegins DEF Stages
<1>4. op' \in [Bufs -> Op] /\ Willing'
  BY <1>2, <1>3, OpTypes
<1>5. "leave" \in AllKinds \ {"server"} /\ 1 \in 0 .. RespMod - 1
  BY TranAssumption DEF AllKinds
<1>6. TranInv'
  BY <1>1, <1>5, NewRequest
<1>7. NextTsn \in Tsns
  BY <1>1, NumbersGoOn DEF TakeTsn, TranInv, TranTypeOK
<1>8. ListKept => ListKept'
  BY <1>1, <1>2, <1>3, <1>7, OpListed
<1>9. pending_list' \in [PSlots -> Pend] /\ pending_list_size' \in 0 .. PendingSize
  BY <1>1, <1>2, <1>7, PendedTypes
<1> QED
  BY <1>1, <1>2, <1>4, <1>6, <1>8, <1>9 DEF LeaveInv, LeaveTypes

\* The leaves that are asked for by nobody who waits for an answer.
LEMMA UnaskedInv ==
  ASSUME LeaveInv, NEW b \in Bufs, NEW rejoin \in BOOLEAN,
         ForceChildLeave(b, rejoin) \/ LeaveHandler(b, rejoin)
  PROVE  LeaveInv'
<1>1. UNCHANGED <<crossed, leave_after_mgmt_leave_rsp_conf, pending_list, pending_list_size>>
  BY DEF ForceChildLeave, LeaveHandler, flags, KeepList
<1>2. LeaveTypes /\ Willing
  BY DEF LeaveInv
<1>3. PICK e \in Op : /\ op' = [op EXCEPT ![b] = e] /\ op[b].stage = "idle"
                      /\ e.from = "layer" /\ ~e.will_leave
  <2>1. CASE ForceChildLeave(b, rejoin)
    <3>1. PICK self \in BOOLEAN : Begin(b, self, rejoin, "layer", "request")
      BY <2>1 DEF ForceChildLeave
    <3> QED
      BY <3>1, OpBegins DEF Stages
  <2>2. CASE LeaveHandler(b, rejoin)
    <3>1. PICK self \in BOOLEAN : Begin(b, self, rejoin, "layer", "indication")
      BY <2>2 DEF LeaveHandler
    <3> QED
      BY <3>1, OpBegins DEF Stages
  <2> QED
    BY <2>1, <2>2
<1>4. op' \in [Bufs -> Op] /\ Willing'
  BY <1>2, <1>3, OpTypes
<1>5. ListKept => ListKept'
  BY <1>1, <1>2, <1>3, OpGoesOn, NotListed
<1> QED
  BY <1>1, <1>2, <1>4, <1>5 DEF LeaveInv, LeaveTypes

LEMMA RequestInv ==
  ASSUME LeaveInv, NEW b \in Bufs, LeaveRequest(b)
  PROVE  LeaveInv'
<1>1. /\ UNCHANGED <<crossed, leave_after_mgmt_leave_rsp_conf, pending_list, pending_list_size>>
      /\ op[b].stage = "request"
  BY DEF LeaveRequest
<1>2. LeaveTypes /\ Willing
  BY DEF LeaveInv
<1>3. op[b].self \in BOOLEAN /\ op[b].will_leave \in BOOLEAN /\ "sent" \in Stages /\ "refused" \in Stages
  BY <1>2 DEF LeaveTypes, Op, Stages
<1>4. PICK e \in Op : /\ op' = [op EXCEPT ![b] = e] /\ e.stage \in {"sent", "refused"}
                      /\ e.from = op[b].from
                      /\ e.will_leave => e.self
  <2>1. CASE Goes(b, "sent") \/ Goes(b, "refused")
    <3>1. op[b].will_leave => op[b].self
      BY <1>1, <1>2 DEF Willing
    <3> QED
      BY <1>2, <1>3, <2>1, <3>1, OpGoes
  <2>2. ASSUME NEW options \in BOOLEAN,
               op' = [op EXCEPT ![b].stage = "refused", ![b].will_leave = op[b].self /\ ~options]
        PROVE  \E e \in Op : /\ op' = [op EXCEPT ![b] = e] /\ e.stage \in {"sent", "refused"}
                             /\ e.from = op[b].from
                             /\ e.will_leave => e.self
    <3>1. PICK w \in BOOLEAN : w = (op[b].self /\ ~options) /\ GoesWith(b, "refused", w)
      BY <2>2 DEF GoesWith
    <3>2. w => op[b].self
      BY <3>1
    <3>3. PICK e \in Op : /\ op' = [op EXCEPT ![b] = e] /\ e.stage = "refused" /\ e.from = op[b].from
                         /\ e.self = op[b].self /\ e.will_leave = w
      <4>1. GoesWith(b, "refused", w)
        BY <3>1, Zenon
      <4> QED
        BY <1>2, <1>3, <4>1, OpGoesWith
    <3> QED
      BY <3>2, <3>3
  <2> QED
    BY <2>1, <2>2 DEF LeaveRequest
<1>5. op' \in [Bufs -> Op] /\ Willing'
  BY <1>2, <1>4, OpTypes
<1>6. ListKept => ListKept'
  <2>1. ListKept /\ ~Listed(b) => op[b].from = "layer"
    BY <1>1 DEF ListKept, Due
  <2> QED
    BY <1>1, <1>2, <1>4, <2>1, OpGoesOn
<1> QED
  BY <1>1, <1>2, <1>5, <1>6 DEF LeaveInv, LeaveTypes

\* The buffer of a leave is freed.
LEMMA OpFreed ==
  ASSUME LeaveTypes, Willing, NEW b \in Bufs, Freed(b)
  PROVE  /\ op' = [op EXCEPT ![b] = NoOp] /\ NoOp \in Op /\ NoOp.stage = "idle"
         /\ op' \in [Bufs -> Op] /\ Willing'
<1>1. NoOp \in Op /\ NoOp.stage = "idle" /\ op' = [op EXCEPT ![b] = NoOp]
  BY NoOpIsOp DEF NoOp, Freed
<1> QED
  BY <1>1, OpTypes

\* A leave that leaves no entry behind ends, and the device is gone.
LEMMA GoneInv ==
  ASSUME LeaveInv, NEW rejoin, NEW list \in [PSlots -> Pend], DoLeave(rejoin, list),
         UNCHANGED op \/ \E b \in Bufs : Freed(b),
         \A i \in PSlots : pending_list[i].used => list[i].used \/ op'[pending_list[i].buf_ref] = NoOp
  PROVE  LeaveInv'
<1>1. LeaveTypes /\ Willing
  BY DEF LeaveInv
<1>2. op' \in [Bufs -> Op] /\ Willing'
  <2>1. CASE UNCHANGED op
    BY <1>1, <2>1 DEF LeaveTypes, Willing
  <2> QED
    BY <1>1, <2>1, OpFreed
<1>3. /\ pending_list' \in [PSlots -> Pend] /\ pending_list_size' \in 0 .. PendingSize
      /\ crossed' \in BOOLEAN /\ leave_after_mgmt_leave_rsp_conf' \in BOOLEAN
      /\ ~crossed' => ~crossed
  BY <1>1, LeftTypes
<1>4. ListKept /\ ~crossed' => ListKept'
  BY <1>1, OpLeft
<1> QED
  BY <1>2, <1>3, <1>4 DEF LeaveInv, LeaveTypes

LEMMA AnsweredPeerInv ==
  ASSUME LeaveInv, NEW b \in Bufs, NEW i \in Found(b), NEW will \in BOOLEAN,
         op[b].stage \in {"sent", "refused"}, will => op[b].self, ~pending_list[i].local,
         AnswerPeer(b, i, will)
  PROVE  LeaveInv'
<1>1. LeaveTypes /\ Willing
  BY DEF LeaveInv
<1>2. i \in PSlots /\ pending_list[i].used /\ pending_list[i].buf_ref = b
  BY <1>1, FoundEntry
<1>3. /\ leave_after_mgmt_leave_rsp_conf' = will
      /\ will => KeepList
      /\ ~will => Dropped(i)
  BY DEF AnswerPeer, AnswerWith
<1>4. crossed' \in BOOLEAN /\ (~crossed' => ~crossed /\ (will \/ ~leave_after_mgmt_leave_rsp_conf))
  BY Zenon DEF AnswerPeer, AnswerWith
<1>5. PICK e \in Op : /\ op' = [op EXCEPT ![b] = e] /\ e.stage = "answer" /\ e.from = op[b].from
                      /\ e.self = op[b].self /\ e.will_leave = will
  <2>1. GoesWith(b, "answer", will)
    BY Zenon DEF AnswerPeer, AnswerWith, GoesWith
  <2>2. "answer" \in Stages
    BY DEF Stages
  <2> QED
    BY <1>1, <2>1, <2>2, OpGoesWith
<1>6. op' \in [Bufs -> Op] /\ Willing'
  BY <1>1, <1>5, OpTypes
<1>7. pending_list' \in [PSlots -> Pend] /\ pending_list_size' \in 0 .. PendingSize
  <2>1. CASE will
    BY <1>1, <1>3, <2>1 DEF KeepList, LeaveTypes
  <2>2. CASE ~will
    BY <1>1, <1>2, <1>3, <2>2, DroppedTypes
  <2> QED
    BY <2>1, <2>2
<1>8. ASSUME ListKept, ~crossed' PROVE ListKept'
  <2>1. Listed(b)
    BY <1>2 DEF Listed
  <2>2. CASE will
    <3>1. UNCHANGED <<pending_list, pending_list_size>> /\ leave_after_mgmt_leave_rsp_conf' /\ op[b].self
      BY <1>3, <2>2 DEF KeepList
    <3> QED
      BY <1>1, <1>5, <1>8, <2>1, <3>1, OpGoesOn
  <2>3. CASE ~will
    <3>1. Dropped(i) /\ ~leave_after_mgmt_leave_rsp_conf
      BY <1>3, <1>4, <1>8, <2>3
    <3> QED
      BY <1>1, <1>2, <1>5, <1>8, <3>1, OpDropped
  <2> QED
    BY <2>2, <2>3
<1> QED
  BY <1>1, <1>3, <1>4, <1>6, <1>7, <1>8 DEF LeaveInv, LeaveTypes

LEMMA AnsweredAppInv ==
  ASSUME LeaveInv, NEW b \in Bufs, NEW i \in Found(b), NEW will \in BOOLEAN,
         op[b].stage \in {"sent", "refused"}, AnswerApp(b, i, will)
  PROVE  LeaveInv'
<1>1. LeaveTypes /\ Willing
  BY DEF LeaveInv
<1>2. i \in PSlots /\ pending_list[i].used /\ pending_list[i].buf_ref = b
  BY <1>1, FoundEntry
<1>3. leave_after_mgmt_leave_rsp_conf' = will
  BY DEF AnswerApp
<1>4. CASE Callback(pending_list[i].tsn) # {}
  <2>1. Dropped(i) /\ Freed(b)
    BY <1>4 DEF AnswerApp
  <2>2. crossed' \in BOOLEAN /\ (~crossed' => ~crossed /\ (will \/ ~leave_after_mgmt_leave_rsp_conf))
    BY <1>4, Zenon DEF AnswerApp
  <2>3. /\ op' = [op EXCEPT ![b] = NoOp] /\ NoOp \in Op /\ NoOp.stage = "idle"
        /\ op' \in [Bufs -> Op] /\ Willing'
    BY <1>1, <2>1, OpFreed
  <2>4. pending_list' \in [PSlots -> Pend] /\ pending_list_size' \in 0 .. PendingSize
    BY <1>1, <1>2, <2>1, DroppedTypes
  <2>5. ASSUME ListKept, ~crossed' PROVE ListKept'
    <3>1. leave_after_mgmt_leave_rsp_conf => leave_after_mgmt_leave_rsp_conf'
      BY <1>3, <2>2, <2>5
    <3> QED
      BY <1>1, <1>2, <2>1, <2>3, <2>5, <3>1, OpDropped
  <2> QED
    BY <1>1, <1>3, <2>2, <2>3, <2>4, <2>5 DEF LeaveInv, LeaveTypes
<1>5. CASE Callback(pending_list[i].tsn) = {}
  <2>1. crossed' = TRUE /\ Goes(b, "lost") /\ (Dropped(i) \/ KeepList)
    BY <1>5, Zenon DEF AnswerApp
  <2>2. PICK e \in Op : op' = [op EXCEPT ![b] = e] /\ e.stage = "lost"
    BY <1>1, <2>1, OpGoes DEF Stages
  <2>3. op' \in [Bufs -> Op] /\ Willing'
    BY <1>1, <2>2, OpTypes
  <2>4. pending_list' \in [PSlots -> Pend] /\ pending_list_size' \in 0 .. PendingSize
    BY <1>1, <1>2, <2>1, DroppedTypes DEF KeepList, LeaveTypes
  <2> QED
    BY <1>1, <1>3, <2>1, <2>3, <2>4 DEF LeaveInv, LeaveTypes
<1> QED
  BY <1>4, <1>5

LEMMA UnlistedInv ==
  ASSUME LeaveInv, NEW b \in Bufs, Found(b) = {}, NEW will, ConfirmUnlisted(b, will)
  PROVE  LeaveInv'
<1>1. LeaveTypes /\ Willing
  BY DEF LeaveInv
<1>2. Freed(b)
  BY DEF ConfirmUnlisted
<1>3. CASE DoLeave(rejoin_after_leave, pending_list)
  BY <1>1, <1>2, <1>3, GoneInv DEF LeaveTypes
<1>4. CASE KeepList /\ UNCHANGED <<flags, crossed>>
  <2>1. /\ op' = [op EXCEPT ![b] = NoOp] /\ NoOp \in Op /\ NoOp.stage = "idle"
        /\ op' \in [Bufs -> Op] /\ Willing'
    BY <1>1, <1>2, OpFreed
  <2>2. ListKept => ~Listed(b)
    BY <1>1, FoundEntry
  <2>3. ListKept => ListKept'
    BY <1>1, <1>4, <2>1, <2>2, OpGoesOn DEF KeepList, flags
  <2> QED
    BY <1>1, <1>4, <2>1, <2>3 DEF LeaveInv, LeaveTypes, KeepList, flags
<1> QED
  BY <1>3, <1>4, Zenon DEF ConfirmUnlisted

LEMMA ConfirmInv ==
  ASSUME TranInv, LeaveInv, NEW b \in Bufs, LeaveConfirm(b)
  PROVE  TranInv' /\ LeaveInv'
<1>1. LeaveTypes /\ Willing /\ op[b].stage \in {"sent", "refused"}
  BY DEF LeaveInv, LeaveConfirm
<1>2. op[b].self \in BOOLEAN /\ op[b].will_leave \in BOOLEAN
  BY <1>1 DEF LeaveTypes, Op
<1>3. PICK will \in BOOLEAN :
        /\ will = IF op[b].stage = "sent" THEN op[b].self ELSE op[b].will_leave
        /\ \/ Found(b) = {} /\ ConfirmUnlisted(b, will)
           \/ \E i \in Found(b) : ~pending_list[i].local /\ AnswerPeer(b, i, will)
           \/ \E i \in Found(b) : pending_list[i].local /\ AnswerApp(b, i, will)
  BY <1>2 DEF LeaveConfirm
<1>4. will => op[b].self
  BY <1>1, <1>3 DEF Willing
<1>5. LeaveInv'
  BY <1>1, <1>3, <1>4, UnlistedInv, AnsweredPeerInv, AnsweredAppInv
<1>6. UNCHANGED zdo_cb \/ \E t \in Tsns : AfResp(t)
  <2>1. \A i \in Found(b) : pending_list[i].tsn \in Tsns
    BY <1>1, FoundEntry DEF LeaveTypes, Pend
  <2>2. \A i \in Found(b) : AnswerApp(b, i, will) => UNCHANGED zdo_cb \/ AfResp(pending_list[i].tsn)
    BY Zenon DEF AnswerApp
  <2>3. \A i \in Found(b) : AnswerPeer(b, i, will) => UNCHANGED zdo_cb
    BY Zenon DEF AnswerPeer, AnswerWith
  <2>4. ConfirmUnlisted(b, will) => UNCHANGED zdo_cb
    BY Zenon DEF ConfirmUnlisted
  <2> QED
    BY <1>3, <2>1, <2>2, <2>3, <2>4
<1>7. UNCHANGED <<tsn, req, age, server, net>> /\ net \subseteq Message /\ \A m \in net : Made(m.to)
  BY DEF LeaveConfirm, TranInv, TranTypeOK
<1> QED
  BY <1>5, <1>6, <1>7, SameRequests

LEMMA SentInv ==
  ASSUME LeaveInv, NEW b \in Bufs, AnswerSent(b)
  PROVE  LeaveInv'
<1>1. LeaveTypes /\ Willing /\ op[b].stage = "answer" /\ Freed(b)
  BY DEF LeaveInv, AnswerSent
<1>2. /\ op' = [op EXCEPT ![b] = NoOp] /\ NoOp \in Op /\ NoOp.stage = "idle"
      /\ op' \in [Bufs -> Op] /\ Willing'
  BY <1>1, OpFreed
<1>3. CASE leave_after_mgmt_leave_rsp_conf /\ Found(b) # {}
  <2>1. PICK i \in Found(b) : Complete(b, i)
    BY <1>3 DEF AnswerSent
  <2>2. i \in PSlots /\ pending_list[i].used /\ pending_list[i].buf_ref = b
    BY <1>1, FoundEntry
  <2>3. CASE Dropped(i) /\ UNCHANGED <<joined, flags, crossed>>
    <3>1. pending_list' \in [PSlots -> Pend] /\ pending_list_size' \in 0 .. PendingSize
      BY <1>1, <2>2, <2>3, DroppedTypes
    <3>2. ListKept => ListKept'
      BY <1>1, <1>2, <2>2, <2>3, OpDropped DEF flags
    <3> QED
      BY <1>1, <1>2, <2>3, <3>1, <3>2 DEF LeaveInv, LeaveTypes, flags
  <2>4. CASE DoLeave(rejoin_after_leave, [pending_list EXCEPT ![i].used = FALSE])
    <3> DEFINE list == [pending_list EXCEPT ![i].used = FALSE]
    <3>1. /\ list \in [PSlots -> Pend]
          /\ \A j \in PSlots : list[j].used <=> j # i /\ pending_list[j].used
      BY <1>1, <2>2, EntryUnused
    <3>2. op'[b] = NoOp
      BY <1>1, <1>2 DEF LeaveTypes
    <3>3. DoLeave(rejoin_after_leave, list)
      BY <2>4
    <3> HIDE DEF list
    <3> QED
      BY <1>1, <2>2, <3>1, <3>2, <3>3, GoneInv
  <2> QED
    BY <2>1, <2>3, <2>4, Zenon DEF Complete
<1>4. CASE ~ (leave_after_mgmt_leave_rsp_conf /\ Found(b) # {})
  <2>1. KeepList /\ UNCHANGED <<flags, crossed>>
    BY <1>4, Zenon DEF AnswerSent
  <2>2. ASSUME ListKept PROVE ListKept'
    <3>1. ~Listed(b)
      BY <1>1, <1>4, <2>2, FoundEntry DEF ListKept, Listed, EntryRight
    <3> QED
      BY <1>1, <1>2, <2>1, <2>2, <3>1, OpGoesOn DEF KeepList, flags
  <2> QED
    BY <1>1, <1>2, <2>1, <2>2 DEF LeaveInv, LeaveTypes, KeepList, flags
<1> QED
  BY <1>3, <1>4

-----------------------------------------------------------------------------
(* The theorems. *)

LEMMA InitIInv == Init => IInv
<1> SUFFICES ASSUME Init PROVE IInv
  OBVIOUS
<1>1. TranInv
  BY TranInitInv DEF Init
<1>2. LeaveTypes
  <2>1. op \in [Bufs -> Op]
    BY NoOpIsOp DEF Init
  <2>2. pending_list \in [PSlots -> Pend]
    <3>1. (CHOOSE b \in Bufs : TRUE) \in Bufs
      BY LeaveAssumption
    <3>2. 0 \in Tsns
      BY TranAssumption DEF Tsns
    <3> QED
      BY <3>1, <3>2 DEF Init, Pend
  <2>3. crossed \in BOOLEAN /\ leave_after_mgmt_leave_rsp_conf \in BOOLEAN
    BY Zenon DEF Init
  <2>4. pending_list_size \in 0 .. PendingSize
    BY LeaveAssumption DEF Init
  <2> QED
    BY <2>1, <2>2, <2>3, <2>4 DEF LeaveTypes
<1>3. Willing /\ ListKept
  BY DEF Init, Willing, ListKept, NoOp, Due
<1> QED
  BY <1>1, <1>2, <1>3 DEF IInv, LeaveInv

LEMMA NextIInv == IInv /\ [Next]_vars => IInv'
<1> SUFFICES ASSUME IInv, [Next]_vars PROVE IInv'
  OBVIOUS
<1>1. TranInv /\ LeaveInv
  BY DEF IInv
<1>2. UNCHANGED <<table, server, net>> => TranInv'
  BY <1>1, SameRequests DEF table, TranInv, TranTypeOK
<1>3. UNCHANGED <<op, pending_list, pending_list_size, leave_after_mgmt_leave_rsp_conf, crossed>>
      => LeaveInv'
  BY <1>1 DEF LeaveInv, LeaveTypes, Willing, ListKept, EntryRight, Listed, Due
<1>4. CASE UNCHANGED vars
  BY <1>2, <1>3, <1>4 DEF vars, leave, IInv
<1>5. CASE TranNext /\ UNCHANGED leave
  BY <1>1, <1>3, <1>5, TranNextInv DEF leave, IInv
<1>6. ASSUME NEW b \in Bufs, NEW self \in BOOLEAN, NEW rejoin \in BOOLEAN, MgmtLeaveSrv(b, self, rejoin)
      PROVE  IInv'
  BY <1>1, <1>2, <1>6, ServedInv DEF MgmtLeaveSrv, IInv
<1>7. ASSUME NEW b \in Bufs, NEW r \in Reqs, NEW self \in BOOLEAN, NEW rejoin \in BOOLEAN,
             MgmtLeaveCli(b, r, self, rejoin)
      PROVE  IInv'
  BY <1>1, <1>7, AskedInv DEF IInv
<1>8. ASSUME NEW b \in Bufs, NEW rejoin \in BOOLEAN, ForceChildLeave(b, rejoin) \/ LeaveHandler(b, rejoin)
      PROVE  IInv'
  BY <1>1, <1>2, <1>8, UnaskedInv DEF ForceChildLeave, LeaveHandler, IInv
<1>9. ASSUME NEW b \in Bufs, LeaveRequest(b) PROVE IInv'
  BY <1>1, <1>2, <1>9, RequestInv DEF LeaveRequest, IInv
<1>10. ASSUME NEW b \in Bufs, LeaveConfirm(b) PROVE IInv'
  BY <1>1, <1>10, ConfirmInv DEF IInv
<1>11. ASSUME NEW b \in Bufs, AnswerSent(b) PROVE IInv'
  BY <1>1, <1>2, <1>11, SentInv DEF AnswerSent, IInv
<1>12. ASSUME NEW b \in Bufs, LeaveIndication(b) PROVE IInv'
  <2>1. DoLeave(rejoin_after_leave, pending_list) /\ Freed(b)
    BY <1>12 DEF LeaveIndication
  <2> QED
    BY <1>1, <1>2, <1>12, <2>1, GoneInv DEF LeaveIndication, IInv, LeaveInv, LeaveTypes
<1>13. CASE DoLeaveLocal
  <2>1. DoLeave(rejoin_after_leave, pending_list) /\ UNCHANGED op
    BY <1>13 DEF DoLeaveLocal
  <2> QED
    BY <1>1, <1>2, <1>13, <2>1, GoneInv DEF DoLeaveLocal, IInv, LeaveInv, LeaveTypes
<1>14. CASE Rejoined
  BY <1>2, <1>3, <1>14 DEF Rejoined, flags, IInv
<1> QED
  BY <1>4, <1>5, <1>6, <1>7, <1>8, <1>9, <1>10, <1>11, <1>12, <1>13, <1>14 DEF Next

\* The inductive invariant holds in every behaviour.
THEOREM SpecIInv == Spec => []IInv
BY InitIInv, NextIInv, PTL DEF Spec

\* As long as no request that waits is as old as the range of the numbers, an answer goes to
\* the request it answers, to nobody if that one does not wait any more, and no search of the
\* table misses it, whatever the hash and whatever was freed before.
THEOREM SpecAnswerIsForRequest == Spec => []AnswerIsForRequest
<1>1. IInv => AnswerIsForRequest
  BY TranInvAnswers DEF IInv
<1> QED
  BY <1>1, SpecIInv, PTL

\* Until two leaves cross, each entry of the list of pending leaves is that of one leave under
\* way, which the search by its buffer finds, and each leave somebody waits for has one.
THEOREM SpecPendingIsUnderWay == Spec => []PendingIsUnderWay
<1>1. IInv => PendingIsUnderWay
  <2> SUFFICES ASSUME LeaveTypes, ListKept PROVE PendingIsUnderWay
    BY DEF IInv, LeaveInv, PendingIsUnderWay
  <2>1. ASSUME NEW i \in PSlots, pending_list[i].used
        PROVE  EntryRight(i) /\ Found(pending_list[i].buf_ref) = {i}
    <3>1. EntryRight(i)
      BY <2>1 DEF ListKept
    <3>2. Listed(pending_list[i].buf_ref)
      BY <2>1 DEF Listed
    <3>3. Found(pending_list[i].buf_ref) # {}
      BY <3>2, FoundEntry
    <3>4. \A j \in Found(pending_list[i].buf_ref) : j = i
      BY <2>1, FoundEntry DEF ListKept
    <3> QED
      BY <3>1, <3>3, <3>4
  <2>2. ASSUME NEW b \in Bufs, Due(b) PROVE Found(b) # {}
    BY <2>2, FoundEntry DEF ListKept
  <2> QED
    BY <2>1, <2>2 DEF PendingIsUnderWay, EntryRight, Due
<1> QED
  BY <1>1, SpecIInv, PTL

-----------------------------------------------------------------------------
(* Who leaves. *)

\* A LEAVE that is passed on is that of the device itself.
Told == \A b \in Bufs : op[b].stage = "indication" => op[b].self

LEMMA ToldKept ==
  ASSUME LeaveTypes, Told, NEW b \in Bufs, NEW e \in Op, op' = [op EXCEPT ![b] = e],
         e.stage = "indication" => e.self
  PROVE  Told'
<1>1. \A c \in Bufs : op'[c] = IF c = b THEN e ELSE op[c]
  BY DEF LeaveTypes
<1> QED
  BY <1>1 DEF Told

LEMMA ToldNext == IInv /\ Told /\ [Next]_vars => Told'
<1> SUFFICES ASSUME IInv, Told, [Next]_vars PROVE Told'
  OBVIOUS
<1>1. LeaveTypes /\ Willing
  BY DEF IInv, LeaveInv
<1>2. UNCHANGED op => Told'
  BY DEF Told
<1>3. ASSUME NEW b \in Bufs, Freed(b) PROVE Told'
  <2>1. op' = [op EXCEPT ![b] = NoOp] /\ NoOp \in Op /\ NoOp.stage = "idle"
    BY <1>1, <1>3, OpFreed
  <2> QED
    BY <1>1, <2>1, ToldKept
<1>4. ASSUME NEW b \in Bufs, NEW self \in BOOLEAN, NEW rejoin \in BOOLEAN, NEW stage \in Stages,
             NEW from \in {"peer", "app", "layer"}, Begin(b, self, rejoin, from, stage),
             stage = "indication" => self
      PROVE  Told'
  <2>1. PICK e \in Op : op' = [op EXCEPT ![b] = e] /\ e.stage = stage /\ e.self = self
    BY <1>4, OpBegins
  <2> QED
    BY <1>1, <1>4, <2>1, ToldKept
<1>5. ASSUME NEW b \in Bufs, NEW stage \in {"sent", "refused", "answer", "lost"}, Goes(b, stage)
      PROVE  Told'
  <2>1. stage \in Stages /\ stage # "indication"
    BY DEF Stages
  <2>2. PICK e \in Op : op' = [op EXCEPT ![b] = e] /\ e.stage = stage
    BY <1>1, <1>5, <2>1, OpGoes
  <2> QED
    BY <1>1, <2>1, <2>2, ToldKept
<1>6. ASSUME NEW b \in Bufs, NEW stage \in {"refused", "answer"}, NEW will \in BOOLEAN,
             GoesWith(b, stage, will)
      PROVE  Told'
  <2>1. stage \in Stages /\ stage # "indication"
    BY DEF Stages
  <2>2. PICK e \in Op : op' = [op EXCEPT ![b] = e] /\ e.stage = stage
    BY <1>1, <1>6, <2>1, OpGoesWith
  <2> QED
    BY <1>1, <2>1, <2>2, ToldKept
<1>7. CASE UNCHANGED op
  BY <1>2, <1>7
<1>8. ASSUME NEW b \in Bufs, NEW self \in BOOLEAN, NEW rejoin \in BOOLEAN,
             \/ MgmtLeaveSrv(b, self, rejoin)
             \/ \E r \in Reqs : MgmtLeaveCli(b, r, self, rejoin)
             \/ ForceChildLeave(b, rejoin) \/ LeaveHandler(b, rejoin)
      PROVE  Told'
  <2>1. \E s \in BOOLEAN, stage \in Stages, from \in {"peer", "app", "layer"} :
          Begin(b, s, rejoin, from, stage) /\ (stage = "indication" => s)
    BY <1>8 DEF MgmtLeaveSrv, MgmtLeaveCli, ForceChildLeave, LeaveHandler, Stages
  <2> QED
    BY <1>4, <2>1
<1>9. ASSUME NEW b \in Bufs, LeaveRequest(b) PROVE Told'
  <2>1. CASE Goes(b, "sent") \/ Goes(b, "refused")
    BY <1>5, <2>1
  <2>2. ASSUME NEW options \in BOOLEAN,
               op' = [op EXCEPT ![b].stage = "refused", ![b].will_leave = op[b].self /\ ~options]
        PROVE  Told'
    <3>1. PICK w \in BOOLEAN : w = (op[b].self /\ ~options) /\ GoesWith(b, "refused", w)
      BY <2>2 DEF GoesWith
    <3>2. GoesWith(b, "refused", w)
      BY <3>1, Zenon
    <3> QED
      BY <1>6, <3>2
  <2> QED
    BY <1>9, <2>1, <2>2 DEF LeaveRequest
<1>10. ASSUME NEW b \in Bufs, LeaveConfirm(b) PROVE Told'
  <2>1. op[b].self \in BOOLEAN /\ op[b].will_leave \in BOOLEAN
    BY <1>1 DEF LeaveTypes, Op
  <2>2. PICK will \in BOOLEAN :
          \/ ConfirmUnlisted(b, will)
          \/ \E i \in Found(b) : AnswerPeer(b, i, will) \/ AnswerApp(b, i, will)
    BY <1>10, <2>1 DEF LeaveConfirm
  <2>3. CASE ConfirmUnlisted(b, will)
    BY <1>3, <2>3 DEF ConfirmUnlisted
  <2>4. ASSUME NEW i \in Found(b), AnswerPeer(b, i, will) PROVE Told'
    <3>1. GoesWith(b, "answer", will)
      BY <2>4, Zenon DEF AnswerPeer, AnswerWith, GoesWith
    <3> QED
      BY <1>6, <3>1
  <2>5. ASSUME NEW i \in Found(b), AnswerApp(b, i, will) PROVE Told'
    <3>1. Freed(b) \/ Goes(b, "lost")
      BY <2>5, Zenon DEF AnswerApp
    <3> QED
      BY <1>3, <1>5, <3>1
  <2> QED
    BY <2>2, <2>3, <2>4, <2>5
<1>11. ASSUME NEW b \in Bufs, AnswerSent(b) \/ LeaveIndication(b) PROVE Told'
  BY <1>3, <1>11 DEF AnswerSent, LeaveIndication
<1> QED
  BY <1>7, <1>8, <1>9, <1>10, <1>11 DEF Next, leave, vars, DoLeaveLocal, Rejoined

\* Until two leaves cross, or the application has asked a child to leave, a device leaves the
\* network only for a leave of its own, never for that of a child that another device asked
\* for, or for another request's answer.
THEOREM SpecStaysUnlessAsked == Spec => StaysUnlessAsked
<1>1. Init => Told
  BY DEF Init, Told, NoOp
<1>2. IInv /\ Told /\ [Next]_vars => [~crossed /\ do_leave_local[FALSE] = 0 /\ Departs => AskedToLeave]_vars
  <2> SUFFICES ASSUME IInv, Told, Next, ~crossed, do_leave_local[FALSE] = 0, joined = "yes",
                      joined' \in {"no", "rejoining"}
               PROVE  AskedToLeave
    BY DEF Departs
  <2>1. LeaveTypes /\ Willing /\ ListKept
    BY DEF IInv, LeaveInv
  <2>2. ASSUME NEW b \in Bufs, LeaveConfirm(b) PROVE AskedToLeave
    <3>1. op[b].self \in BOOLEAN /\ op[b].will_leave \in BOOLEAN
      BY <2>1 DEF LeaveTypes, Op
    <3>2. PICK will \in BOOLEAN :
            /\ op[b].stage \in {"sent", "refused"}
            /\ will = IF op[b].stage = "sent" THEN op[b].self ELSE op[b].will_leave
            /\ \/ ConfirmUnlisted(b, will)
               \/ \E i \in Found(b) : AnswerPeer(b, i, will) \/ AnswerApp(b, i, will)
      BY <2>2, <3>1 DEF LeaveConfirm
    <3>3. ConfirmUnlisted(b, will)
      <4>1. joined' # joined
        OBVIOUS
      <4>2. \A i \in Found(b) : ~AnswerPeer(b, i, will) /\ ~AnswerApp(b, i, will)
        BY <4>1, Zenon DEF AnswerPeer, AnswerWith, AnswerApp
      <4> QED
        BY <3>2, <4>2
    <3>4. will
      BY <3>3 DEF ConfirmUnlisted
    <3>5. op[b].self
      BY <2>1, <3>2, <3>4 DEF Willing
    <3> QED
      BY <3>2, <3>5 DEF AskedToLeave
  <2>3. ASSUME NEW b \in Bufs, AnswerSent(b) PROVE AskedToLeave
    <3>1. PICK i \in Found(b) : op[b].stage = "answer"
      BY <2>3 DEF AnswerSent
    <3>2. i \in PSlots /\ pending_list[i].used /\ pending_list[i].buf_ref = b
      BY <2>1, FoundEntry
    <3>3. op[b].self
      BY <2>1, <3>1, <3>2 DEF ListKept, EntryRight
    <3> QED
      BY <3>1, <3>3 DEF AskedToLeave
  <2>4. ASSUME NEW b \in Bufs, LeaveIndication(b) PROVE AskedToLeave
    BY <2>4 DEF LeaveIndication, Told, AskedToLeave
  <2>5. CASE DoLeaveLocal
    <3>1. \E self \in BOOLEAN : do_leave_local[self] > 0
      BY <2>5, Zenon DEF DoLeaveLocal
    <3>2. do_leave_local[TRUE] > 0 \/ do_leave_local[FALSE] > 0
      BY <3>1, Zenon
    <3>3. ~(0 > 0)
      OBVIOUS
    <3> QED
      BY <3>2, <3>3, Zenon DEF AskedToLeave
  <2>6. CASE joined' = joined \/ Rejoined
    BY <2>6 DEF Rejoined
  <2>7. ASSUME NEW b \in Bufs, LeaveRequest(b) PROVE FALSE
    BY <2>7 DEF LeaveRequest
  <2> QED
    BY <2>2, <2>3, <2>4, <2>5, <2>6, <2>7
       DEF Next, leave, MgmtLeaveSrv, MgmtLeaveCli, ForceChildLeave, LeaveHandler
<1> QED
  BY <1>1, <1>2, InitIInv, NextIInv, ToldNext, PTL DEF Spec, StaysUnlessAsked
=============================================================================
