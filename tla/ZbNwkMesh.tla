------------------------------ MODULE ZbNwkMesh ------------------------------
(***************************************************************************)
(* Unicast forwarding and mesh routing of one router                       *)
(* (nwk/nwk_cr_mesh_routing.c, nwk/nwk_cr_route_discovery.c and the        *)
(* unicast part of nwk/nwk_main.c): its routing table, its route discovery *)
(* table, the frames that wait for a route, and the alarms that end what   *)
(* is not answered.                                                        *)
(*                                                                         *)
(* The rest of the network is an environment that sends any route request  *)
(* and any route reply at any time, so that answers come late, twice, out  *)
(* of order or never.  Path costs are abstracted: whether a path is better *)
(* than the one known is left open.                                        *)
(***************************************************************************)
EXTENDS Integers, FiniteSets

CONSTANTS
  Bufs,        \* buffers that hold data frames
  Dests,       \* devices that are not neighbours
  TableSize,   \* ZB_NWK_ROUTING_TABLE_SIZE, ZB_NWK_ROUTE_DISCOVERY_TABLE_SIZE
  PendingSize, \* ZB_NWK_PENDING_TABLE_SIZE
  DiscExpiry,  \* ZB_NWK_ROUTE_DISCOVERY_EXPIRY
  PendExpiry,  \* ZB_NWK_PENDING_ENTRY_EXPIRY
  IdMod,       \* range of rreq_id, 256 in the code
  MaxWait,     \* bound: buffers waited for to start a discovery
  Me, Other,   \* sources of route requests: this router, another one
  NoAddr       \* an address that no device has

ASSUME MeshAssumption ==
  /\ Bufs # {} /\ Dests # {}
  /\ TableSize \in Nat \ {0} /\ PendingSize \in Nat \ {0} /\ IdMod \in Nat \ {0}
  /\ DiscExpiry \in Nat /\ PendExpiry \in Nat /\ MaxWait \in Nat
  /\ Me # Other /\ NoAddr \notin Dests \cup {Me}

Slots   == 0 .. TableSize - 1
PSlots  == 0 .. PendingSize - 1
Ids     == 0 .. IdMod - 1
Targets == Dests \cup {Me} \* what a route request asks for

VARIABLES
  routing,   \* routing_table
  disc,      \* route_disc_table
  pending,   \* pending_table
  loc,       \* buffer -> "idle", "forward" or "pending"
  frm,       \* buffer -> its destination and its discover route flag
  rreq_id,
  aps_rreq,  \* aps_rreq_addr
  disc_alarm, wait_failed, \* zb_nwk_mesh_expiry_route_disc alarms, and buffers that
             \* nwk_route_disc_failed waits for
  wait_disc, \* buffers that zb_nwk_mesh_initiate_route_discovery waits for
  broken     \* what went wrong for good, or "no"

tables == <<routing, disc, pending>>
frames == <<loc, frm>>
alarms == <<disc_alarm, wait_failed, wait_disc>>
vars   == <<tables, frames, alarms, rreq_id, aps_rreq, broken>>

Route     == [used : BOOLEAN, dest : Targets \cup {NoAddr},
              status : {"underway", "validation", "active"}]
Discovery == [used : BOOLEAN, id : Ids, src : {Me, Other}, dest : Targets \cup {NoAddr},
              exp : 0 .. DiscExpiry]
Pend      == [used : BOOLEAN, buf : Bufs, exp : 0 .. PendExpiry, waiting_buf : BOOLEAN]
Frame     == [dest : Dests, discover : BOOLEAN]

NoFrame == [dest |-> CHOOSE d \in Dests : TRUE, discover |-> TRUE]
NoPend == [used |-> FALSE, buf |-> CHOOSE b \in Bufs : TRUE, exp |-> 0, waiting_buf |-> FALSE]

TypeOK ==
  /\ routing \in [Slots -> Route] /\ disc \in [Slots -> Discovery] /\ pending \in [PSlots -> Pend]
  /\ loc \in [Bufs -> {"idle", "forward", "pending"}] /\ frm \in [Bufs -> Frame]
  /\ rreq_id \in Ids /\ aps_rreq \in Dests \cup {NoAddr}
  /\ disc_alarm \in 0 .. 2 /\ wait_failed \in 0 .. 2 /\ wait_disc \in 0 .. MaxWait
  /\ broken \in {"no", "no pending entry", "freed confirm"}

\* zb_nwk_nib_init, zb_nwk_mesh_routing_init: the alarms are started.  The
\* destinations in route_disc_table are 0: the coordinator, whoever that is.
Init ==
  /\ routing = [i \in Slots |-> [used |-> FALSE, dest |-> NoAddr, status |-> "underway"]]
  /\ \E d0 \in Targets \cup {NoAddr} :
       disc = [i \in Slots |-> [used |-> FALSE, id |-> 0, src |-> Me, dest |-> d0, exp |-> 0]]
  /\ pending = [i \in PSlots |-> NoPend]
  /\ loc = [b \in Bufs |-> "idle"]
  /\ frm = [b \in Bufs |-> NoFrame]
  /\ rreq_id = 0 /\ aps_rreq = NoAddr
  /\ disc_alarm = 1 /\ wait_failed = 0 /\ wait_disc = 0
  /\ broken = "no"

-----------------------------------------------------------------------------
(* The tables. *)

First(S) == CHOOSE i \in S : \A j \in S : i <= j

\* NWK_ARRAY_FIND_ENT of the tables, as sets of indices.
RoutesTo(d) == {i \in Slots : routing[i].used /\ routing[i].dest = d}
Discoveries(s, id) == {i \in Slots : disc[i].used /\ disc[i].src = s /\ disc[i].id = id}
DiscoveriesOf(d) == {i \in Slots : disc[i].used /\ disc[i].dest = d}

\* NWK_ARRAY_GET_ENT looks for one of these.
FreeIn(table) == {i \in DOMAIN table : ~table[i].used}

\* NWK_ARRAY_PUT_ENT for the first entry of S, if there is one.  Of the fields that
\* stay in a free entry, only the destination of a discovery is ever read.
PutRoute(r, S) ==
  IF S = {} THEN r
  ELSE [r EXCEPT ![First(S)] = [used |-> FALSE, dest |-> NoAddr, status |-> "underway"]]
PutDisc(ds, S) ==
  IF S = {} THEN ds
  ELSE [ds EXCEPT ![First(S)] =
          [used |-> FALSE, id |-> 0, src |-> Me, dest |-> ds[First(S)].dest, exp |-> 0]]

-----------------------------------------------------------------------------
(* Route requests. *)

\* The routing table once zb_nwk_mesh_rreq_handler has its entry for d, if it can.
WithRoute(d) ==
  IF RoutesTo(d) # {} \/ FreeIn(routing) = {} THEN routing
  ELSE [routing EXCEPT ![First(FreeIn(routing))] =
          [used |-> TRUE, dest |-> d, status |-> "underway"]]

\* zb_nwk_mesh_rreq_handler: a request of s for d is entered in both tables, then
\* answered or sent on.  Without room for a discovery the routing entry goes too,
\* new or not.  A request seen before changes nothing, whatever its path cost.
RreqHandler(s, id, d) ==
  LET room == RoutesTo(d) # {} \/ FreeIn(routing) # {}
      new  == Discoveries(s, id) = {}
      R    == {i \in Slots : WithRoute(d)[i].used /\ WithRoute(d)[i].dest = d}
  IN  IF ~room \/ (new /\ FreeIn(disc) = {})
      THEN routing' = PutRoute(WithRoute(d), R) /\ UNCHANGED disc
      ELSE /\ routing' = WithRoute(d)
           /\ disc' = IF new
                      THEN [disc EXCEPT ![First(FreeIn(disc))] =
                              [used |-> TRUE, id |-> id, src |-> s, dest |-> d, exp |-> DiscExpiry]]
                      ELSE disc

RecvRreq(id, d) ==
  /\ RreqHandler(Other, id, d)
  /\ UNCHANGED <<pending, frames, alarms, rreq_id, aps_rreq, broken>>

\* zb_nlme_route_discovery_request for a device that is no neighbour: the address is
\* kept to confirm the end of the discovery.
RouteDiscoveryRequest(d) ==
  /\ aps_rreq' = d
  /\ RreqHandler(Me, rreq_id, d) /\ rreq_id' = (rreq_id + 1) % IdMod
  /\ UNCHANGED <<pending, frames, alarms, broken>>

\* Bound on the environment: frames on their way and buffers asked for.
Load == wait_disc + Cardinality({b \in Bufs : loc[b] \in {"forward", "pending"}})

Waiting == {i \in PSlots : pending[i].used /\ pending[i].waiting_buf}

\* zb_nwk_mesh_initiate_route_discovery, when it has its buffer: the first frame that
\* waits for a discovery gets one.  When there is none, the code asserts.
InitiateRouteDiscovery ==
  /\ wait_disc > 0 /\ wait_disc' = wait_disc - 1
  /\ IF Waiting = {}
     THEN broken' = "no pending entry" /\ UNCHANGED <<tables, rreq_id>>
     ELSE LET i == First(Waiting)
          IN  /\ RreqHandler(Me, rreq_id, frm[pending[i].buf].dest)
              /\ rreq_id' = (rreq_id + 1) % IdMod
              /\ pending' = [pending EXCEPT ![i].waiting_buf = FALSE]
              /\ UNCHANGED broken
  /\ UNCHANGED <<frames, disc_alarm, wait_failed, aps_rreq>>

-----------------------------------------------------------------------------
(* Route replies. *)

\* Mutant: the entries of the frames sent stay.
Release_Keep(S) ==
  /\ pending' = pending
  /\ loc' = [b \in Bufs |-> IF \E i \in S : pending[i].buf = b THEN "forward" ELSE loc[b]]

\* Frames released to zb_nwk_forward, and their entries freed.
Release(S) ==
  /\ pending' = [i \in PSlots |-> IF i \in S THEN NoPend ELSE pending[i]]
  /\ loc' = [b \in Bufs |-> IF \E i \in S : pending[i].buf = b THEN "forward" ELSE loc[b]]

\* zb_nwk_mesh_rrep_handler for a reply of d to the request id of s.  With one entry
\* missing the other is freed.  A reply to our own request sends the frames that wait,
\* and confirms the request of the APS with a buffer that is then freed.
RecvRrep(s, id, d) ==
  LET D == Discoveries(s, id)
      R == RoutesTo(d)
  IN  /\ Load <= MaxWait
      /\ IF D = {} \/ R = {}
         THEN /\ disc' = PutDisc(disc, D) /\ routing' = PutRoute(routing, R)
              /\ UNCHANGED <<pending, frames, alarms, rreq_id, aps_rreq, broken>>
         ELSE /\ disc' = [disc EXCEPT ![First(D)].exp = DiscExpiry]
              /\ routing' = [routing EXCEPT ![First(R)].status = IF @ = "underway" THEN "validation" ELSE @]
              /\ IF s = Me
                 THEN /\ Release({i \in PSlots : pending[i].used /\ frm[pending[i].buf].dest = d})
                      /\ aps_rreq' = IF aps_rreq = d THEN NoAddr ELSE aps_rreq
                      /\ broken' = IF aps_rreq = d THEN "freed confirm" ELSE "no"
                 ELSE UNCHANGED <<pending, loc, aps_rreq, broken>>
              /\ UNCHANGED <<frm, alarms, rreq_id>>

-----------------------------------------------------------------------------
(* Frames. *)

\* Frames given to the MAC, or freed.
Leave(B) ==
  /\ loc' = [b \in Bufs |-> IF b \in B THEN "idle" ELSE loc[b]]
  /\ frm' = [b \in Bufs |-> IF b \in B THEN NoFrame ELSE frm[b]]

\* zb_nlde_data_request when joined, with a frame of our own; and a data frame for
\* another device that zb_mcps_data_indication hands to zb_nwk_forward.
NewFrame(b, d, discover) ==
  /\ loc[b] = "idle" /\ Load < MaxWait
  /\ loc' = [loc EXCEPT ![b] = "forward"]
  /\ frm' = [frm EXCEPT ![b] = [dest |-> d, discover |-> discover]]
  /\ UNCHANGED <<tables, alarms, rreq_id, aps_rreq, broken>>

\* zb_nwk_mesh_add_buf_to_pending.
Held(b) ==
  [pending EXCEPT ![First(FreeIn(pending))] =
     [used |-> TRUE, buf |-> b, exp |-> PendExpiry, waiting_buf |-> TRUE]]

\* Whether a held frame asks for a buffer to start a discovery: not when the first
\* discovery of its destination is our own.
AsksBuf(d) ==
  \/ RoutesTo(d) = {} \/ DiscoveriesOf(d) = {}
  \/ disc[First(DiscoveriesOf(d))].src # Me

\* zb_nwk_forward with nwk_calc_destination, of a unicast frame to no neighbour: given to
\* the MAC for a route, held while one is sought, or freed without a word to the APS.
Forward(b) ==
  LET d     == frm[b].dest
      R     == RoutesTo(d)
      route == IF R = {} THEN "underway" ELSE routing[First(R)].status
      open  == frm[b].discover /\ route = "underway"
      sent  == frm[b].discover /\ ~open
  IN  /\ loc[b] = "forward"
      /\ \/ /\ sent
            /\ Leave({b})
            /\ routing' = [routing EXCEPT ![First(R)].status = "active"]
            /\ UNCHANGED <<pending, wait_disc>>
         \/ /\ open /\ FreeIn(pending) # {}
            /\ loc' = [loc EXCEPT ![b] = "pending"] /\ UNCHANGED frm
            /\ pending' = Held(b)
            /\ wait_disc' = IF AsksBuf(d) THEN wait_disc + 1 ELSE wait_disc
            /\ UNCHANGED routing
         \/ /\ ~sent /\ (open => FreeIn(pending) = {})
            /\ Leave({b})
            /\ UNCHANGED <<routing, pending, wait_disc>>
      /\ UNCHANGED <<disc, disc_alarm, wait_failed, rreq_id, aps_rreq, broken>>

-----------------------------------------------------------------------------
(* Expiry. *)

\* The routing entry that goes with the expired discovery.  The index in the condition
\* is the one of the search, NWK_ARRAY_FIND_ENT having a variable of the same name:
\* route k is compared with discovery k, in use or not, whichever has expired.
RouteOfExpired(r, ds) ==
  {k \in Slots : r[k].used /\ r[k].status # "active" /\ r[k].dest = ds[k].dest}

\* The tables after the first n entries of a pass of zb_nwk_mesh_expiry_route_disc,
\* and whether a route was given up, on which the pass ends.
Expired ==
  LET pass[n \in 0 .. TableSize] ==
        IF n = 0 THEN [r |-> routing, ds |-> disc, lost |-> FALSE]
        ELSE LET was == pass[n - 1]
                 K   == RouteOfExpired(was.r, was.ds)
             IN  CASE was.lost \/ ~disc[n - 1].used -> was
                   [] ~was.lost /\ disc[n - 1].used /\ disc[n - 1].exp > 0 ->
                        [was EXCEPT !.ds[n - 1].exp = @ - 1]
                   [] OTHER ->
                        [r    |-> PutRoute(was.r, K),
                         ds   |-> PutDisc(was.ds, {n - 1}),
                         lost |-> K # {}]
  IN  pass[TableSize]

\* zb_nwk_mesh_expiry_route_disc: the alarm is armed again only if no route was given
\* up; else nwk_route_disc_failed arms it, once it has a buffer.
DiscExpiryAlarm ==
  /\ disc_alarm > 0
  /\ routing' = Expired.r /\ disc' = Expired.ds
  /\ IF ~Expired.lost
     THEN UNCHANGED <<disc_alarm, wait_failed>>
     ELSE disc_alarm' = disc_alarm - 1 /\ wait_failed' = wait_failed + 1
  /\ UNCHANGED <<pending, frames, wait_disc, rreq_id, aps_rreq, broken>>

\* nwk_route_disc_failed: cancels an alarm of the expiry, if any, and sets one.
RouteDiscFailed ==
  /\ wait_failed > 0 /\ wait_failed' = wait_failed - 1
  /\ disc_alarm' = (IF disc_alarm > 0 THEN disc_alarm - 1 ELSE 0) + 1
  /\ UNCHANGED <<tables, frames, wait_disc, rreq_id, aps_rreq, broken>>

\* Mutant: the time left is not counted down.
Aged_Not(i) == pending[i]

\* An entry of pending_table that does not expire in this pass.
Aged(i) ==
  IF pending[i].used THEN [pending[i] EXCEPT !.exp = @ - 1] ELSE pending[i]

\* zb_nwk_mesh_expiry_pending, always armed: a frame whose time is over is freed.
ExpiryPending ==
  LET gone == {i \in PSlots : pending[i].used /\ pending[i].exp = 0}
  IN  /\ pending' = [i \in PSlots |-> IF i \in gone THEN NoPend ELSE Aged(i)]
      /\ Leave({pending[i].buf : i \in gone})
      /\ UNCHANGED <<routing, disc, alarms, rreq_id, aps_rreq, broken>>

-----------------------------------------------------------------------------
Next ==
  /\ broken = "no"
  /\ \/ \E id \in Ids, d \in Targets : RecvRreq(id, d)
     \/ \E d \in Dests : RouteDiscoveryRequest(d)
     \/ \E s \in {Me, Other}, id \in Ids, d \in Dests : RecvRrep(s, id, d)
     \/ \E b \in Bufs, d \in Dests, discover \in BOOLEAN : NewFrame(b, d, discover)
     \/ \E b \in Bufs : Forward(b)
     \/ InitiateRouteDiscovery \/ DiscExpiryAlarm \/ RouteDiscFailed \/ ExpiryPending

\* The scheduler runs what is queued, in order, and what is due.
Fairness ==
  /\ \A b \in Bufs : WF_vars(broken = "no" /\ Forward(b))
  /\ WF_vars(broken = "no" /\ ExpiryPending)

Spec == Init /\ [][Next]_vars /\ Fairness

-----------------------------------------------------------------------------
(* Properties. *)

\* A frame waits for a route exactly when one entry of pending_table in use holds it:
\* otherwise it would be sent twice, or never be sent nor freed.
PendingOwnsFrame ==
  \A b \in Bufs :
    Cardinality({i \in PSlots : pending[i].used /\ pending[i].buf = b}) =
      IF loc[b] = "pending" THEN 1 ELSE 0

\* The expiry of route discoveries goes on for ever by exactly one thing: its alarm, or
\* the buffer that nwk_route_disc_failed waits for.
OneExpiryChain == disc_alarm + wait_failed = 1

\* What waits for a route is kept once, and something always will end the wait.
WaitingSound == PendingOwnsFrame /\ OneExpiryChain

\* No route to a destination is given up by the expiry while it is in use ("if it's state
\* is not active"), so that frames on it are not made to wait.
ActiveRoutesKept ==
  [][DiscExpiryAlarm => \A k \in Slots :
       routing[k].used /\ routing[k].status = "active" => routing'[k].used]_vars

\* Every frame is sent or freed once no more route replies come, if the assertion of
\* zb_nwk_mesh_initiate_route_discovery holds.  While they come, a reply may take the
\* route away again before the frames that the last one released are sent, for ever.
RepliesEnd == <>[][~ \E s \in {Me, Other}, id \in Ids, d \in Dests : RecvRrep(s, id, d)]_vars
FrameEnds ==
  RepliesEnd => \A b \in Bufs : loc[b] # "idle" ~> loc[b] = "idle" \/ broken # "no"

\* What the comment in zb_nwk_mesh_expiry_route_disc says: "free corresponding route
\* record if it's state is not active".
ExpiryFreesItsRoute ==
  [][DiscExpiryAlarm => \A k \in Slots :
       routing[k].used /\ ~routing'[k].used =>
         \E n \in Slots : disc[n].used /\ ~disc'[n].used /\ disc[n].dest = routing[k].dest]_vars
=============================================================================
