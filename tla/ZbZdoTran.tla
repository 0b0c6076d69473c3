------------------------------ MODULE ZbZdoTran ------------------------------
(***************************************************************************)
(* ZDO requests of one device and the answers of the others                *)
(* (zdo/zdo_common.c, zdo_disc_cli.c, zdo_nwk_manage_cli.c, zdo_rx.c and   *)
(* the handlers of zdo_disc_srv.c and zdo_nwk_manage_srv.c).               *)
(*                                                                         *)
(* A request is known by a transaction number, tsn, of one byte, and by    *)
(* nothing else: the callback waits in a hash table for a frame that       *)
(* carries the number.  There is no timeout.  Requests and answers are     *)
(* lost, come late, twice and out of order.                                *)
(***************************************************************************)
EXTENDS Integers, FiniteSets, FiniteSetsExt

CONSTANTS
  Reqs, NoReq, \* requests this device makes, each once; none
  Kinds,       \* the kinds of request it makes
  Counts,      \* scan_count of its zb_zdo_mgmt_nwk_update_req
  TranSize,    \* ZDO_TRAN_TABLE_SIZE
  TsnMod,      \* range of tsn, 256 in the code
  RespMod,     \* range of resp_counter, 256 in the code
  Hash         \* ZB_TSN_HASH

AllKinds == {"desc", "simple", "nwk_addr", "ieee_addr", "active_ep", "match", "lqi", "leave",
             "bind", "server", "update", "new_channel"}
Tsns  == 0 .. TsnMod - 1
Slots == 0 .. TranSize - 1

ASSUME TranAssumption ==
  /\ NoReq \notin Reqs /\ Kinds \subseteq AllKinds /\ Counts \subseteq 0 .. RespMod - 1
  /\ TranSize \in Nat \ {0} /\ TsnMod \in Nat \ {0} /\ RespMod \in Nat \ {0, 1}
  /\ Hash \in [Tsns -> Slots]

VARIABLES
  tsn, zdo_cb,
  server_tsn, server_cb, \* system_server_discovery_tsn and _cb
  req,       \* request -> its kind, or "no" before it is made, and its tsn
  age,       \* request -> how many transaction numbers were taken since its own, up to TsnMod
  net        \* requests and answers on their way

table == <<tsn, zdo_cb, req, age>>
server == <<server_tsn, server_cb>>

Entry   == [tsn : Tsns, func : Reqs \cup {NoReq}, resp_counter : 0 .. RespMod - 1]
Message == [answer : BOOLEAN, to : Reqs]

TranTypeOK ==
  /\ tsn \in Tsns /\ zdo_cb \in [Slots -> Entry]
  /\ server_tsn \in Tsns /\ server_cb \in Reqs \cup {NoReq}
  /\ req \in [Reqs -> [kind : AllKinds \cup {"no"}, tsn : Tsns]]
  /\ age \in [Reqs -> 0 .. TsnMod] /\ net \subseteq Message

TranInit ==
  /\ tsn = 0 /\ server_tsn = 0 /\ server_cb = NoReq
  /\ zdo_cb = [i \in Slots |-> [tsn |-> 0, func |-> NoReq, resp_counter |-> 0]]
  /\ req = [r \in Reqs |-> [kind |-> "no", tsn |-> 0]] /\ age = [r \in Reqs |-> 0]
  /\ net = {}

-----------------------------------------------------------------------------
(* The table. *)

\* The slot in S that a search from the hash of t meets first, as a set.
FirstFrom(t, S) ==
  LET ks == {k \in Slots : (Hash[t] + k) % TranSize \in S}
  IN IF ks = {} THEN {} ELSE {(Hash[t] + Min(ks)) % TranSize}

Free ==  {i \in Slots : zdo_cb[i].func = NoReq}
\* Mutant: an entry that was freed answers to its number.
Waiting_Stale(t) == {i \in Slots : zdo_cb[i].tsn = t}

Waiting(t) == {i \in Slots : zdo_cb[i].func # NoReq /\ zdo_cb[i].tsn = t}

\* ZDO_CTX().tsn++ for request r of kind k.
NextTsn == (tsn + 1) % TsnMod
TakeTsn(r, k) ==
  /\ tsn' = NextTsn /\ req' = [req EXCEPT ![r] = [kind |-> k, tsn |-> NextTsn]]
  /\ age' = [s \in Reqs |-> IF req[s].kind = "no" THEN 0 ELSE Min({age[s] + 1, TsnMod})]

\* register_zdo_cb: a full table drops the callback without a word.
RegisterZdoCb(t, r, n) ==
  zdo_cb' = [i \in Slots |-> IF i \in FirstFrom(t, Free)
                             THEN [tsn |-> t, func |-> r, resp_counter |-> n] ELSE zdo_cb[i]]

\* zdo_af_resp for an answer with number t: the callback that is called, if any, and its
\* entry, which is freed with the last answer it waits for.  resp_counter is a uint8_t.
Callback(t) == {zdo_cb[i].func : i \in FirstFrom(t, Waiting(t))}
AfResp(t) ==
  LET OneLess(n) == (n - 1) % RespMod
  IN zdo_cb' = [i \in Slots |->
       IF i \notin FirstFrom(t, Waiting(t)) THEN zdo_cb[i]
       ELSE [zdo_cb[i] EXCEPT !.resp_counter = OneLess(@),
                              !.func = IF OneLess(zdo_cb[i].resp_counter) = 0 THEN NoReq ELSE @]]

-----------------------------------------------------------------------------
(* The client. *)

Send(r) == net' = net \cup {[answer |-> FALSE, to |-> r]}

\* zdo_send_req for every request but system server discovery, which registers no
\* callback in the table and has one number and one callback of its own.
Request(r, k, n) ==
  /\ req[r].kind = "no" /\ k # "server" /\ (k # "update" => n = 1)
  /\ TakeTsn(r, k) /\ RegisterZdoCb(NextTsn, r, n) /\ Send(r)
  /\ UNCHANGED server

ServerDiscoveryReq(r) ==
  /\ req[r].kind = "no" /\ TakeTsn(r, "server") /\ Send(r)
  /\ server_tsn' = NextTsn /\ server_cb' = r
  /\ UNCHANGED zdo_cb

\* zb_zdo_data_indication of an answer to r: whose callback is called, and the step.  A
\* frame that nobody waits for is freed, or goes to zdo_change_channel when it is a
\* notification.
CallbackFor(r) ==
  IF req[r].kind # "server" THEN Callback(req[r].tsn)
  ELSE {f \in {server_cb} : req[r].tsn = server_tsn}
Answer(r) ==
  /\ [answer |-> TRUE, to |-> r] \in net
  /\ net' \in {net, net \ {[answer |-> TRUE, to |-> r]}}
  /\ IF req[r].kind = "server" THEN UNCHANGED zdo_cb ELSE AfResp(req[r].tsn)
  /\ UNCHANGED <<tsn, req, age, server>>

-----------------------------------------------------------------------------
(* The devices that are asked. *)

\* What a request says: the type of answer; whether it asks for what the device knows (its
\* own address, or a neighbour's for the short address; the servers it has); whether it
\* came by unicast; whether there is an item with the index or number it asks for.
Query == [type : {"single", "extended", "bad"}, known : BOOLEAN, unicast : BOOLEAN, more : BOOLEAN]

\* The status that a handler answers with, or "none" when it does not answer.
\* zdo_device_nwk_addr_res: only "single" looks for the address, and a broadcast for an
\* address not found is answered as a success.
NwkAddrRes(q) ==
  CASE q.unicast /\ ~(q.known /\ q.type = "single") -> "device not found"
    [] ~q.unicast /\ q.type = "extended" /\ ~q.more -> "none"
    [] q.type = "bad" /\ ~q.unicast -> "inv request"
    [] OTHER -> "success"

\* zdo_device_ieee_addr_res: a broadcast for another device returns without freeing
\* its buffer.
IeeeAddrRes(q) ==
  CASE ~q.known -> IF q.unicast THEN "device not found" ELSE "none"
    [] q.known /\ q.type = "bad" -> "inv request"
    [] q.known /\ q.type = "extended" /\ ~q.more -> "none"
    [] OTHER -> "success"

SimpleDescRes(q) ==
  IF ~q.known THEN "device not found" ELSE IF q.more THEN "success" ELSE "invalid ep"

ActiveEpRes(q) == IF q.known THEN "success" ELSE "device not found"

\* zdo_match_desc_res: a request for another device finds no descriptor.
MatchDescRes(q) == IF (q.known \/ ~q.unicast) /\ q.more THEN "success" ELSE "no descriptor"

LqiRes(q) == "success"

\* zdo_system_server_discovery_res: who has none of the servers does not answer.
ServerDiscoveryRes(q) == IF q.known THEN "success" ELSE "none"

\* zb_zdo_data_indication: the handlers.  The node and power descriptors are asked for with
\* one of two cluster ids, and served if the id is both.  A new channel or a new channel
\* mask is obeyed, never answered; a leave, a binding and a scan are answered in time.
Served(k, q) ==
  CASE k = "nwk_addr"  -> NwkAddrRes(q)
    [] k = "ieee_addr" -> IeeeAddrRes(q)
    [] k = "simple"    -> SimpleDescRes(q)
    [] k = "active_ep" -> ActiveEpRes(q)
    [] k = "match"     -> MatchDescRes(q)
    [] k = "lqi"       -> LqiRes(q)
    [] k = "server"    -> ServerDiscoveryRes(q)
    [] k \in {"leave", "bind", "update"} -> "success"
    [] k \in {"desc", "new_channel"} -> "none"
Answered(k, q) == Served(k, q) # "none"

\* A request arrives at a device.  The answers of other devices that a broadcast reached
\* are answers that come twice.
Serve(r) ==
  /\ [answer |-> FALSE, to |-> r] \in net
  /\ \E answered \in {Answered(req[r].kind, q) : q \in Query} :
       net' = (net \ {[answer |-> FALSE, to |-> r]})
              \cup {m \in {[answer |-> TRUE, to |-> r]} : answered}
  /\ UNCHANGED <<table, server>>

Lose(m) == m \in net /\ net' = net \ {m} /\ UNCHANGED <<table, server>>

TranNext ==
  \/ \E r \in Reqs : \/ \E k \in Kinds, n \in Counts : Request(r, k, n)
                     \/ "server" \in Kinds /\ ServerDiscoveryReq(r)
                     \/ Answer(r)
                     \/ Serve(r)
  \/ \E m \in net : Lose(m)

-----------------------------------------------------------------------------

\* Whether r still waits for an answer, and whether no later request has its number.
Waits(r) == server_cb = r \/ \E i \in Slots : zdo_cb[i].func = r
Fresh(r) == age[r] < TsnMod

\* An answer is given to the request it answers and to no other, as long as that one
\* waits, and to nobody when it comes twice or too late; no search of the table misses
\* an entry, whatever was freed before it.  This needs that no request that waits is as
\* old as the range of the numbers: as the table has no timeout, a request that is never
\* answered waits until it takes the answer to another one.
AnswerIsForRequest ==
  (\A s \in Reqs : Waits(s) => Fresh(s)) =>
  \A r \in Reqs : [answer |-> TRUE, to |-> r] \in net /\ Fresh(r) =>
                  CallbackFor(r) = IF Waits(r) THEN {r} ELSE {}
=============================================================================
