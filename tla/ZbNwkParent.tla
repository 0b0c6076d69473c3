------------------------------ MODULE ZbNwkParent ------------------------------
(***************************************************************************)
(* A router or coordinator as a parent (nwk/nwk_cr_join.c,                 *)
(* nwk_cr_permit_join.c, nwk_neighbor.c, nwk_nlme.c, the leave handlers of *)
(* nwk_main.c and zdo/zdo_app.c): it admits children by association and by *)
(* rejoin, gives them tree addresses from two counters, keeps them in the  *)
(* base neighbor table behind the index addr_to_neighbor, makes room for   *)
(* the extended table while it scans, and lets children go.                *)
(*                                                                         *)
(* The devices ask, leave and send what they like, when they like.  The    *)
(* address table is the one of ZbAddress without its sorted index.         *)
(***************************************************************************)
EXTENDS Integers, FiniteSets, Sequences

CONSTANTS
  Dev,         \* devices with their IEEE addresses
  Types,       \* device -> the types it may ask to join as, of "router" and "ed"
  Foreign,     \* device -> the short addresses it has had from other parents
  Routers,     \* short addresses of routers of the network, which send beacons
  Strangers,   \* the same of other networks
  Refs,        \* entries of the address table
  NbtSize,     \* ZB_NEIGHBOR_TABLE_SIZE
  NbrBytes, ExtBytes, \* sizes of an entry of the base and of the extended table
  MaxChildren, MaxRouters, CSkip, \* nib.max_children, max_routers, cskip
  RejoinSize,  \* ZB_NWK_REJOIN_REQUEST_TABLE_SIZE
  MaxLeaving,  \* bound: LEAVE requests on their way
  Secured,     \* whether the security level is not 0
  NoDev, NoSlot

ASSUME ParentAssumption ==
  /\ \A d \in Dev : Types[d] \subseteq {"router", "ed"} /\ Foreign[d] \subseteq Nat
  /\ Routers \subseteq Nat /\ Routers \cap Strangers = {}
  /\ IsFiniteSet(Dev) /\ IsFiniteSet(Routers)
  /\ IsFiniteSet(Refs) /\ Refs # {} /\ Refs = 0 .. Cardinality(Refs) - 1
  /\ Cardinality(Refs) >= Cardinality(Dev) + Cardinality(Routers)
  /\ NbtSize \in 2 .. 254 /\ NbrBytes \in 1 .. 255 /\ ExtBytes \in 1 .. 255
  /\ {MaxChildren, MaxRouters, CSkip, RejoinSize, MaxLeaving} \subseteq 0 .. 255
  /\ NoDev \notin Dev /\ NoSlot \notin 0 .. NbtSize - 1 /\ Secured \in BOOLEAN

NbtSlots == 0 .. NbtSize - 1

VARIABLES
  ed_child_num, router_child_num,
  permit,         \* mac_association_permit
  permit_join, permit_alarms, \* the flag and the alarms of nwk_permit_timeout
  addr,           \* the address table
  base_neighbor, base_used, base_size, addr_to_neighbor,
  ext,            \* addresses in the extended table
  ext_on,         \* whether there is one (ext_neighbor_size is not 0)
  responses,      \* devices whose association response waits in the MAC
  rejoin_tbl,     \* rejoin_req_table
  rejoin_resps,   \* device -> rejoin responses being sent
  leaving,        \* short addresses that LEAVE requests are being sent to
  left,           \* devices that NLME-LEAVE.indications are queued for
  fault           \* an assertion failed, or memory was used that is not the table's

counters   == <<ed_child_num, router_child_num>>
permits    == <<permit, permit_join, permit_alarms>>
base       == <<base_neighbor, base_used, addr_to_neighbor>>
table      == <<base, base_size, ext, ext_on>>
joins      == <<responses, rejoin_tbl, rejoin_resps>>
leaves     == <<leaving, left>>
parentVars == <<counters, permits, addr, table, joins, leaves, fault>>

Address == [used : BOOLEAN, dev : Dev \cup {NoDev}, short : Nat, locked : BOOLEAN]
Entry   == [used : BOOLEAN, ref : Refs, type : {"coordinator", "router", "ed"},
            rel : {"none", "child", "unauthenticated", "previous"}]

ParentTypeOK ==
  /\ ed_child_num \in 0 .. 255 /\ router_child_num \in 0 .. 255
  /\ permit \in BOOLEAN /\ permit_join \in BOOLEAN /\ permit_alarms \in Nat
  /\ addr \in [Refs -> Address]
  /\ base_neighbor \in [NbtSlots -> Entry] /\ base_used \in Nat /\ base_size \in 0 .. NbtSize
  /\ addr_to_neighbor \in [Refs -> NbtSlots \cup {NoSlot}]
  /\ ext_on \in BOOLEAN /\ responses \subseteq Dev /\ rejoin_resps \in [Dev -> Nat]
  /\ left \subseteq Dev /\ fault \in BOOLEAN

NoEntry == [used |-> FALSE, ref |-> 0, type |-> "coordinator", rel |-> "none"]

\* zb_nwk_init and zb_nwk_neighbor_init.
ParentInit ==
  /\ ed_child_num = 0 /\ router_child_num = 0
  /\ permit = FALSE /\ permit_join = FALSE /\ permit_alarms = 0
  /\ addr = [r \in Refs |-> [used |-> FALSE, dev |-> NoDev, short |-> 0, locked |-> FALSE]]
  /\ base_neighbor = [n \in NbtSlots |-> NoEntry] /\ base_used = 0 /\ base_size = NbtSize
  /\ addr_to_neighbor = [r \in Refs |-> NoSlot]
  /\ ext = <<>> /\ ext_on = FALSE
  /\ responses = {} /\ rejoin_tbl = <<>> /\ rejoin_resps = [d \in Dev |-> 0]
  /\ leaving = {} /\ left = {} /\ fault = FALSE

-----------------------------------------------------------------------------
(* The address table. *)

Lowest(S) == CHOOSE i \in S : \A j \in S : i <= j

RefsOf(d)  == {r \in Refs : addr[r].used /\ addr[r].dev = d}
ByShort(s) == {r \in Refs : addr[r].used /\ addr[r].short = s}
FreeRef    == Lowest({r \in Refs : ~addr[r].used})

\* An entry that is not in use keeps its lock count.
Unused(r) == [used |-> FALSE, dev |-> NoDev, short |-> 0, locked |-> addr[r].locked]

\* zb_address_update: the entry that will hold d with s, and whether it asserts.
Clash(d, s) == \E r \in RefsOf(d), q \in ByShort(s) : r # q /\ addr[r].locked /\ addr[q].locked
UpdatedRef(d, s) ==
  IF RefsOf(d) \cup ByShort(s) = {} THEN FreeRef
  ELSE IF RefsOf(d) # {} /\ (ByShort(s) = {} \/ \E q \in ByShort(s) : ~addr[q].locked)
       THEN Lowest(RefsOf(d))
       ELSE Lowest(ByShort(s))

\* The table after zb_address_update; the other entry of a conflict is deleted.
Updated(d, s, lock) ==
  [r \in Refs |->
     CASE r = UpdatedRef(d, s) ->
            [used |-> TRUE, dev |-> d, short |-> s, locked |-> lock \/ addr[r].locked]
       [] r # UpdatedRef(d, s) /\ r \in RefsOf(d) \cup ByShort(s) -> Unused(r)
       [] OTHER -> addr[r]]

\* zb_address_delete.
Deleted(r) == [addr EXCEPT ![r] = Unused(r)]

-----------------------------------------------------------------------------
(* The neighbor table. *)

\* zb_nwk_neighbor_get_by_ieee.
NeighborOf(d) == {r \in RefsOf(d) : addr_to_neighbor[r] # NoSlot}
EntryOf(r)    == base_neighbor[addr_to_neighbor[r]]

\* zb_nwk_neighbor_delete, which leaves base_neighbor_used as it is.
Dropped(r) ==
  /\ base_neighbor' = [n \in NbtSlots |-> IF n = addr_to_neighbor[r]
                                       THEN NoEntry
                                       ELSE base_neighbor[n]]
  /\ addr_to_neighbor' = [addr_to_neighbor EXCEPT ![r] = NoSlot]
  /\ UNCHANGED base_used

\* zb_nwk_neighbor_get with create_if_absent: whether a new entry is refused, and
\* whether it would be outside of the base table.
Full    == base_used = base_size - 1
Outside == base_used >= base_size

\* The table with the entry of r set to what type and relationship say; drop is the set of
\* entries deleted on the way (at most one).
Put(r, drop, type, rel) ==
  LET n == IF addr_to_neighbor[r] = NoSlot \/ r \in drop THEN base_used ELSE addr_to_neighbor[r]
  IN  /\ base_neighbor' =
           [m \in NbtSlots |-> CASE m = n -> [used |-> TRUE, ref |-> r, type |-> type, rel |-> rel]
                              [] m # n /\ (\E q \in drop : m = addr_to_neighbor[q]) ->
                                    NoEntry
                              [] OTHER -> base_neighbor[m]]
      /\ addr_to_neighbor' = [q \in Refs |-> IF q = r THEN n ELSE IF q \in drop THEN NoSlot
                                             ELSE addr_to_neighbor[q]]
      /\ base_used' = IF n = base_used THEN base_used + 1 ELSE base_used

\* A new entry outside of the table overwrites what is behind it.
Broken == fault' = TRUE /\ UNCHANGED <<counters, permits, addr, table, joins, leaves>>

-----------------------------------------------------------------------------
(* Children that join. *)

\* ZB_NWK_ROUTER_ADDRESS_ASSIGN and ZB_NWK_ED_ADDRESS_ASSIGN on a coordinator.
Assigned(type) == IF type = "router" THEN router_child_num * CSkip + 1
                  ELSE MaxRouters * CSkip + ed_child_num + 1

\* Whether the counters leave room for one more of the type.
Room(type) == /\ MaxChildren > ed_child_num + router_child_num
              /\ type = "router" => router_child_num < MaxRouters

\* Neighbors that are the device, with the capabilities it gives.
Same(d, type) == {r \in NeighborOf(d) : (EntryOf(r).type = "router") = (type = "router")}

NewRel == IF Secured THEN "unauthenticated" ELSE "child"

\* One more of the type; association is closed when that was the last one.
Counted(more) ==
  /\ ed_child_num' = ed_child_num + (IF more = "ed" THEN 1 ELSE 0)
  /\ router_child_num' = router_child_num + (IF more = "router" THEN 1 ELSE 0)
  /\ permit' = (permit /\ ed_child_num' + router_child_num' < MaxChildren)
  /\ UNCHANGED <<permit_join, permit_alarms>>

\* zb_nwk_accept_child gives a known device the address it has.
AcceptKnown(d, type, s) ==
  /\ \E r \in Same(d, type) : s = addr[r].short /\ Put(r, {}, type, NewRel)
  /\ Counted("none") /\ UNCHANGED <<addr, fault>>

\* Whether the new device needs a new entry in the neighbor table, and is refused one.
NeedsEntry(d, s) == LET r == UpdatedRef(d, s) IN addr_to_neighbor[r] = NoSlot \/ r \in NeighborOf(d)
NoEntryFor(d, s) == ~Clash(d, s) /\ Full /\ NeedsEntry(d, s)

\* It admits a new one with a new address.
AcceptNew(d, type, s) ==
  /\ Same(d, type) = {} /\ Room(type) /\ s = Assigned(type) /\ ~NoEntryFor(d, s)
  /\ IF Clash(d, s) \/ (Outside /\ NeedsEntry(d, s))
     THEN fault' = TRUE /\ UNCHANGED <<counters, permits, addr, base>>
     ELSE /\ addr' = Updated(d, s, TRUE)
          /\ Put(UpdatedRef(d, s), NeighborOf(d), type, NewRel)
          /\ Counted(type) /\ UNCHANGED fault

\* It refuses: no room for the type, or none in the neighbor table, when the counters have
\* been moved already.  A neighbor with other capabilities is forgotten all the same.
Refuse(d, type) ==
  /\ Same(d, type) = {} /\ (Room(type) => NoEntryFor(d, Assigned(type)))
  /\ IF NeighborOf(d) = {} THEN UNCHANGED base ELSE Dropped(Lowest(NeighborOf(d)))
  /\ IF Room(type) THEN addr' = Updated(d, Assigned(type), FALSE) /\ Counted(type)
                   ELSE UNCHANGED addr /\ Counted("none")
  /\ UNCHANGED fault

\* zb_mlme_associate_indication; the response, accepting or refusing, goes to the MAC (bound:
\* one to a device).  The association permit is not looked at.
AssociateIndication(d, type) ==
  /\ d \notin responses /\ responses' = responses \cup {d}
  /\ \/ \E s \in {addr[r].short : r \in RefsOf(d)} \cup {Assigned(type)} :
          AcceptKnown(d, type, s) \/ AcceptNew(d, type, s)
     \/ Refuse(d, type)
  /\ UNCHANGED <<base_size, ext, ext_on, rejoin_tbl, rejoin_resps, leaves>>

\* zb_mlme_comm_status_indication: the device got the response, or not.  Whether the response
\* accepted or refused it is not known here.
CommStatus(d, ok) ==
  /\ d \in responses /\ responses' = responses \ {d}
  /\ IF ok \/ NeighborOf(d) = {} THEN UNCHANGED <<addr, base>>
     ELSE LET r == Lowest(NeighborOf(d)) IN Dropped(r) /\ addr' = Deleted(r)
  /\ UNCHANGED <<counters, permits, base_size, ext, ext_on, rejoin_tbl, rejoin_resps, leaves, fault>>

\* zb_nlme_rejoin_request.
RejoinRequest(d, type) ==
  /\ Len(rejoin_tbl) < RejoinSize
  /\ \/ /\ \E s \in {addr[r].short : r \in RefsOf(d)} \cup {Assigned(type)} :
             /\ AcceptKnown(d, type, s) \/ AcceptNew(d, type, s)
             /\ rejoin_tbl' = Append(rejoin_tbl, s)
        /\ rejoin_resps' = [rejoin_resps EXCEPT ![d] = @ + 1]
     \/ Refuse(d, type) /\ UNCHANGED <<rejoin_tbl, rejoin_resps>>
  /\ UNCHANGED <<base_size, ext, ext_on, responses, leaves>>

\* zb_nlme_rejoin_resp_sent for the response to d: it looks at the last address saved.  When
\* the neighbor is gone, its pointer to the entry is not initialised: what it reads is no
\* entry, or the program fails.
RejoinRespSent(d) ==
  /\ rejoin_resps[d] > 0
  /\ rejoin_resps' = [rejoin_resps EXCEPT ![d] = @ - 1]
  /\ IF rejoin_tbl # <<>> /\ ByShort(rejoin_tbl[Len(rejoin_tbl)]) # {}
     THEN /\ rejoin_tbl' = SubSeq(rejoin_tbl, 1, Len(rejoin_tbl) - 1)
          /\ \/ UNCHANGED fault
             \/ /\ addr_to_neighbor[Lowest(ByShort(rejoin_tbl[Len(rejoin_tbl)]))] = NoSlot
                /\ fault' = TRUE
     ELSE fault' = TRUE /\ UNCHANGED rejoin_tbl
  /\ UNCHANGED <<counters, permits, addr, table, responses, leaves>>

-----------------------------------------------------------------------------
(* Permission to join. *)

\* Mutant of PermitJoiningRequest: the alarm of an earlier request is not cancelled.
PermitJoiningRequest_NoCancel(duration) ==
  /\ permit' = (duration # "none") /\ permit_alarms <= 1
  /\ permit_join' = (duration = "timed")
  /\ permit_alarms' = permit_alarms + (IF duration = "timed" THEN 1 ELSE 0)
  /\ UNCHANGED <<counters, addr, table, joins, leaves, fault>>

\* zb_nlme_permit_joining_request: closed, open, or open for a time.
PermitJoiningRequest(duration) ==
  /\ permit' = (duration # "none")
  /\ permit_join' = (duration = "timed")
  /\ permit_alarms' = (IF permit_join THEN 0 ELSE permit_alarms) + (IF duration = "timed" THEN 1 ELSE 0)
  /\ UNCHANGED <<counters, addr, table, joins, leaves, fault>>

\* nwk_permit_timeout.
PermitTimeout ==
  /\ permit_alarms > 0 /\ permit_alarms' = permit_alarms - 1
  /\ permit' = FALSE /\ permit_join' = FALSE
  /\ UNCHANGED <<counters, addr, table, joins, leaves, fault>>

-----------------------------------------------------------------------------
(* Children that leave. *)

\* zb_nlme_leave_request for a child: the LEAVE goes out, and the address of the last end
\* device is free again.
LeaveRequest(d) ==
  \E r \in NeighborOf(d) :
    /\ EntryOf(r).rel = "child" /\ addr[r].short \notin leaving
    /\ Cardinality(leaving) < MaxLeaving /\ leaving' = leaving \cup {addr[r].short}
    /\ ed_child_num' = IF addr[r].short = Assigned("ed") - 1 THEN (ed_child_num - 1) % 256
                       ELSE ed_child_num
    /\ UNCHANGED <<router_child_num, permits, addr, table, joins, left, fault>>

\* The confirm of the LEAVE and zb_nlme_leave_confirm: whoever has the address now is
\* removed from the neighbor table.  A device that is not there is a NULL entry.
LeaveConfirm(s) ==
  /\ s \in leaving /\ leaving' = leaving \ {s}
  /\ LET found == {r \in ByShort(s) : addr[r].dev # NoDev /\ addr_to_neighbor[r] # NoSlot}
     IN  IF found # {} THEN Dropped(Lowest(found)) /\ UNCHANGED fault
                       ELSE fault' = TRUE /\ UNCHANGED base
  /\ UNCHANGED <<counters, permits, addr, base_size, ext, ext_on, joins, left>>

\* zb_nwk_leave_handler for a LEAVE without the request bit from d.
LeaveFrame(d) ==
  /\ \E r \in RefsOf(d) :
       IF addr_to_neighbor[r] = NoSlot THEN addr' = Deleted(r) /\ UNCHANGED left
                                       ELSE left' = left \cup {d} /\ UNCHANGED addr
  /\ UNCHANGED <<counters, permits, table, joins, leaving, fault>>

\* zb_nlme_leave_indication: the device is forgotten.
LeaveIndication(d) ==
  /\ d \in left /\ left' = left \ {d}
  /\ IF NeighborOf(d) = {} THEN UNCHANGED <<addr, base>>
     ELSE LET r == Lowest(NeighborOf(d)) IN Dropped(r) /\ addr' = Deleted(r)
  /\ UNCHANGED <<counters, permits, base_size, ext, ext_on, joins, leaving, fault>>

-----------------------------------------------------------------------------
(* Neighbors that are heard. *)

\* zb_nwk_unsecure_frame for a frame of d that was heard directly: the addresses become
\* known, the neighbor is added if there is room, and a child is authenticated, or no longer
\* is when the frame turns out wrong.
SecuredFrame(d, s, ok) ==
  LET r == UpdatedRef(d, s)
      new == addr_to_neighbor[r] = NoSlot
  IN  /\ Secured /\ s \in Foreign[d] \cup {addr[q].short : q \in RefsOf(d)}
      /\ IF Clash(d, s) \/ (new /\ Outside) THEN Broken
         ELSE /\ addr' = Updated(d, s, new /\ ~Full)
              /\ IF new THEN IF Full THEN UNCHANGED base ELSE Put(r, {}, "coordinator", "none")
                 ELSE Put(r, {}, EntryOf(r).type,
                          IF EntryOf(r).rel \notin {"child", "unauthenticated"} THEN EntryOf(r).rel
                          ELSE IF ok THEN "child" ELSE "unauthenticated")
              /\ UNCHANGED <<counters, permits, base_size, ext, ext_on, joins, leaves, fault>>

\* zdo_device_info_upd for the announcement of d, which has the address s now; heard says
\* whether it came directly.
DeviceAnnce(d, s, heard) ==
  LET r == UpdatedRef(d, s)
      moved(q) == q \in NeighborOf(d) /\ addr[q].short # s /\ EntryOf(q).rel \in {"child", "unauthenticated"}
  IN  /\ s \in Foreign[d] \cup {addr[q].short : q \in RefsOf(d)}
      /\ IF Clash(d, s) \/ (heard /\ addr_to_neighbor[r] = NoSlot /\ Outside) THEN Broken
         ELSE /\ addr' = Updated(d, s, TRUE)
              /\ \/ /\ heard /\ addr_to_neighbor[r] = NoSlot /\ ~Full
                    /\ Put(r, {}, "coordinator", "none")
                 \/ /\ heard => (addr_to_neighbor[r] # NoSlot \/ Full)
                    /\ base_neighbor' = [n \in NbtSlots |->
                         IF \E q \in Refs : moved(q) /\ n = addr_to_neighbor[q]
                         THEN [base_neighbor[n] EXCEPT !.rel = "previous"] ELSE base_neighbor[n]]
                    /\ UNCHANGED <<base_used, addr_to_neighbor>>
              /\ UNCHANGED <<counters, permits, base_size, ext, ext_on, joins, leaves, fault>>

-----------------------------------------------------------------------------
(* The extended table. *)

Cut == LET half == NbtSize \div 2
       IN  IF base_used > NbtSize - half THEN NbtSize - base_used ELSE half

\* Mutant of PackStep: the index is not moved with the entries.
PackStep_NoIndex(p, k) ==
  LET e == p.nbr[k]
  IN  CASE p.used >= base_used -> p
        [] p.used < base_used /\ ~e.used -> [p EXCEPT !.hole = @ + 1]
        [] p.used < base_used /\ e.used /\ p.hole = 0 -> [p EXCEPT !.used = @ + 1]
        [] OTHER -> [nbr |-> [p.nbr EXCEPT ![k - p.hole] = e, ![k] = NoEntry],
                     idx |-> p.idx, hole |-> p.hole - 1, used |-> p.used + 1]

\* One entry in the packing of zb_nwk_exneighbor_start: it is moved down by the holes that
\* were counted; one hole less is counted after each move.
PackStep(p, k) ==
  LET e == p.nbr[k]
  IN  CASE p.used >= base_used -> p
        [] p.used < base_used /\ ~e.used -> [p EXCEPT !.hole = @ + 1]
        [] p.used < base_used /\ e.used /\ p.hole = 0 -> [p EXCEPT !.used = @ + 1]
        [] OTHER -> [nbr |-> [p.nbr EXCEPT ![k - p.hole] = e, ![k] = NoEntry],
                     idx |-> [p.idx EXCEPT ![e.ref] = k - p.hole],
                     hole |-> p.hole - 1, used |-> p.used + 1]

PackStart == [nbr |-> base_neighbor, idx |-> addr_to_neighbor, hole |-> 0, used |-> 0]
Packing ==
  LET step[i \in 0 .. NbtSize] == IF i = 0 THEN PackStart ELSE PackStep(step[i - 1], i - 1)
  IN  step[NbtSize]

\* Where the extended table begins behind a base table of the size, in bytes, and whether it
\* holds n entries.
ExtOffset(size) == ((size * NbrBytes + 3) \div 4) * 4
ExtHolds(size, n) == ExtOffset(size) + n * ExtBytes <= NbtSize * NbrBytes

\* zb_nwk_exneighbor_start, when a scan begins.  Its assertion fails without room for an
\* entry; the offset is a byte, and an extended table that begins later overlays the base.
ExNeighborStart ==
  /\ ~ext_on /\ ext_on' = TRUE
  /\ IF base_used = 0 THEN UNCHANGED base
     ELSE base_neighbor' = Packing.nbr /\ addr_to_neighbor' = Packing.idx /\ UNCHANGED base_used
  /\ base_size' = NbtSize - Cut
  /\ fault' = (fault \/ ~ExtHolds(base_size', 1) \/ ExtOffset(base_size') > 255)
  /\ UNCHANGED <<counters, permits, addr, ext, joins, leaves>>

\* zb_mlme_beacon_notify_indication: a router with the address s, of our network or not.
Beacon(s) ==
  /\ ext_on /\ ExtHolds(base_size, Len(ext) + 1) /\ \A k \in DOMAIN ext : ext[k] # s
  /\ ext' = Append(ext, s)
  /\ UNCHANGED <<counters, permits, addr, base, base_size, ext_on, joins, leaves, fault>>

\* The base table grows over the extended entries that are done with: whether it has a place
\* n when k of them are.
HasPlace(n, k) == (n + 1 - base_size) * NbrBytes <= k * ExtBytes

\* The k-th entry of the extended table, of a router of our network, moves to the base table
\* in zb_nwk_exneighbor_stop.
Moved(st, k) ==
  LET s == ext[k]
      Q == {q \in Refs : st.addr[q].used /\ st.addr[q].short = s}
      r == IF Q # {} THEN Lowest(Q) ELSE Lowest({q \in Refs : ~st.addr[q].used})
      a == IF Q # {} THEN st.addr
           ELSE [st.addr EXCEPT ![r] = [@ EXCEPT !.used = TRUE, !.dev = NoDev, !.short = s]]
      n == st.idx[r]
      type == st.nbr[n].type
      heard == [st.nbr[n] EXCEPT !.type = IF type = "coordinator" THEN "router" ELSE type]
  IN  CASE s \in Strangers -> st
        [] s \notin Strangers /\ n # NoSlot ->
             [st EXCEPT !.nbr = [st.nbr EXCEPT ![n] = heard],
                        !.bad = st.bad \/ ~st.nbr[n].used]
        [] s \notin Strangers /\ n = NoSlot /\ HasPlace(st.used, k - 1) ->
             [addr |-> a, used |-> st.used + 1, bad |-> st.bad,
              nbr |-> [st.nbr EXCEPT ![st.used] = [used |-> TRUE, ref |-> r, type |-> "router", rel |-> "none"]],
              idx |-> [st.idx EXCEPT ![r] = st.used]]
        [] OTHER -> [st EXCEPT !.addr = a]

MoveStart == [addr |-> addr, used |-> base_used, nbr |-> base_neighbor,
              idx |-> addr_to_neighbor, bad |-> FALSE]

\* zb_nwk_exneighbor_stop in a device that is joined, at the end of the operation that
\* scanned.
ExNeighborStop ==
  /\ ext_on
  /\ LET step[k \in 0 .. Len(ext)] == IF k = 0 THEN MoveStart ELSE Moved(step[k - 1], k)
         end == step[Len(ext)]
     IN  /\ addr' = end.addr /\ base_used' = end.used /\ base_neighbor' = end.nbr
         /\ addr_to_neighbor' = end.idx
         /\ fault' = (fault \/ end.bad \/ HasPlace(NbtSize, Len(ext)))
  /\ ext' = <<>> /\ ext_on' = FALSE /\ base_size' = NbtSize
  /\ UNCHANGED <<counters, permits, joins, leaves>>

-----------------------------------------------------------------------------
(* The whole. *)

ParentNext ==
  /\ ~fault
  /\ \/ \E d \in Dev : \/ \E t \in Types[d] : AssociateIndication(d, t) \/ RejoinRequest(d, t)
                       \/ \E ok \in BOOLEAN : CommStatus(d, ok)
                       \/ RejoinRespSent(d) \/ LeaveRequest(d) \/ LeaveFrame(d) \/ LeaveIndication(d)
                       \/ \E s \in Foreign[d] \cup {addr[q].short : q \in RefsOf(d)} :
                            \E b \in BOOLEAN : SecuredFrame(d, s, b) \/ DeviceAnnce(d, s, b)
     \/ \E t \in {"none", "timed", "ever"} : PermitJoiningRequest(t)
     \/ PermitTimeout
     \/ \E s \in leaving : LeaveConfirm(s)
     \/ ExNeighborStart \/ ExNeighborStop
     \/ \E s \in Routers \cup Strangers : Beacon(s)

ParentSpec == ParentInit /\ [][ParentNext]_parentVars

-----------------------------------------------------------------------------
(* Properties. *)

\* The index leads to the entries in use, and to nothing else, whatever is deleted, packed
\* and moved (zb_nwk_neighbor_get trusts it blindly).
IndexSound ==
  ~fault => \A r \in Refs : addr_to_neighbor[r] # NoSlot =>
    EntryOf(r).used /\ EntryOf(r).ref = r

\* Every entry in use can be found: none stays in the table that nobody can delete.
EntriesReachable ==
  ~fault => \A n \in NbtSlots : base_neighbor[n].used => addr_to_neighbor[base_neighbor[n].ref] = n

\* The table and its index are inverse to each other.
IndexAgrees == IndexSound /\ EntriesReachable

\* The saved addresses are those of the rejoin responses on their way, so that the "should
\* never happen" of zb_nlme_rejoin_resp_sent is not due to a missing entry.
RejoinsSaved ==
  ~fault => Cardinality(UNION {{d} \X (1 .. rejoin_resps[d]) : d \in Dev}) = Len(rejoin_tbl)

\* The parent's books of its children and of those that come back agree with themselves
\* and with the responses on their way.
ChildrenSound == IndexAgrees /\ RejoinsSaved

\* A permission for a time has one alarm, and nothing else has one: permission for ever is
\* not ended by the alarm of an earlier request.
PermitAlarmOwn == permit_alarms = IF permit_join THEN 1 ELSE 0

\* zb_nwk_neighbor_get sees that the table is full before an entry is made outside of it
\* ("current neighbor table size, taking into account possible table cut").
FullIsSeen == base_used < base_size

\* The count of end devices never wraps.
CountsRight == ed_child_num <= MaxChildren
=============================================================================
