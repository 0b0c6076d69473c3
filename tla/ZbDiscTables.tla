---------------------------- MODULE ZbDiscTables -----------------------------
(***************************************************************************)
(* What a device remembers of the networks it hears (common/zb_address.c,  *)
(* nwk/nwk_neighbor.c): the table of extended PAN ids, an open hash whose  *)
(* positions are the references others keep, the table of manufacturers,   *)
(* by which long addresses are compressed, and the extended neighbor table *)
(* that beacons fill and from which the discovery is answered.             *)
(*                                                                         *)
(* The first two are never cleared; the extended neighbors go when the     *)
(* device has joined.  In between a network may change its PAN id.         *)
(***************************************************************************)
EXTENDS Integers, Sequences, Functions, FiniteSets

CONSTANTS
  PanIds,           \* extended PAN ids, as the numbers their hash is taken of
  PanTableSize,     \* ZB_PANID_TABLE_SIZE
  MakerTableSize,   \* ZB_DEV_MANUFACTORER_TABLE_SIZE
  ExtSize,          \* entries of the extended neighbor table
  Devices,          \* the devices around: [pan, short, maker, id, coordinator];
                    \* without a short address they send beacons from the long one
  MaxPanId          \* bound: the PAN ids a network takes one after the other

Slots == 0 .. PanTableSize - 1
MakerSlots == 0 .. MakerTableSize - 1
None == -1

DiscAssumption ==
  /\ PanIds \subseteq Nat /\ PanTableSize \in Nat \ {0}
  /\ MakerTableSize \in Nat \ {0} /\ ExtSize \in Nat \ {0} /\ MaxPanId \in Nat

VARIABLES
  long_panid, short_panid,   \* pan_map[]; long_panid is None in an unused place
  dev_manufacturer,          \* None in an unused place
  ext_neighbor,              \* the extended neighbor table
  descriptors,               \* the network descriptors of the last confirm, which its
                             \* receiver has read before the next beacon
  pan_id,                    \* the PAN id each network uses now
  seen,                      \* history: the beacons accepted into the table
  asserted                   \* ZB_ASSERT(0): no room for a manufacturer

tabVars == <<long_panid, short_panid, dev_manufacturer, ext_neighbor>>
vars == <<long_panid, short_panid, dev_manufacturer, ext_neighbor, descriptors, pan_id,
          seen, asserted>>

-----------------------------------------------------------------------------
(* Extended PAN ids. *)

\* The places in the order the search looks at them: from the hash once around.
Probe(p) == [k \in 1 .. PanTableSize |-> (p + k - 1) % PanTableSize]

\* The reference of a network, if there is one.
zb_address_get_pan_id_ref(p) ==
  LET there == {k \in 1 .. PanTableSize : long_panid[Probe(p)[k]] = p}
  IN  {Probe(p)[k] : k \in {first \in there : \A j \in there : first <= j}}

\* The place of a network to be remembered: where it is, or else the last free place
\* the search came by; none when the table is full (RET_OVERFLOW).
zb_address_set_pan_id(p) ==
  LET there == {k \in 1 .. PanTableSize : long_panid[Probe(p)[k]] = None}
  IN  IF zb_address_get_pan_id_ref(p) # {} THEN zb_address_get_pan_id_ref(p)
      ELSE {Probe(p)[k] : k \in {last \in there : \A j \in there : j <= last}}

\* A known network keeps the short PAN id it was first heard with.
Remember(p, r, short) ==
  IF long_panid[r] = p THEN UNCHANGED <<long_panid, short_panid>>
  ELSE /\ long_panid' = [long_panid EXCEPT ![r] = p]
       /\ short_panid' = [short_panid EXCEPT ![r] = short]

-----------------------------------------------------------------------------
(* Long addresses. *)

\* Where zb_ieee_addr_compress keeps the manufacturer: its place, or else the last
\* unused one, or nowhere.
MakerPlace(m) ==
  LET hit == {i \in MakerSlots : dev_manufacturer[i] = m}
      free == {i \in MakerSlots : dev_manufacturer[i] = None}
  IN  IF hit # {} THEN hit ELSE {i \in free : \A j \in free : j <= i}

Compressed(i, d) == [dev_manufacturer |-> i, device_id |-> d.id]
NoLong == [dev_manufacturer |-> None, device_id |-> None]    \* zeroed

\* zb_ieee_addr_decompress
Decompress(c) == <<dev_manufacturer[c.dev_manufacturer], c.device_id>>

-----------------------------------------------------------------------------
(* The extended neighbor table. *)

Entry(r, d, long) ==
  [panid_ref |-> r, short_addr |-> d.short, long_addr |-> long, coordinator |-> d.coordinator]

\* zb_nwk_exneighbor_by_short and zb_nwk_exneighbor_by_ieee: the beacon's sender keeps
\* its entry, or gets the next one as long as there is room.
PutEntry(e) ==
  IF \E i \in DOMAIN ext_neighbor :
       /\ ext_neighbor[i].panid_ref = e.panid_ref
       /\ IF e.short_addr # None THEN ext_neighbor[i].short_addr = e.short_addr
          ELSE ext_neighbor[i].long_addr = e.long_addr
  THEN ext_neighbor
  ELSE IF Len(ext_neighbor) < ExtSize THEN Append(ext_neighbor, e) ELSE ext_neighbor

\* zb_mlme_beacon_notify_indication during a discovery.  A network without a place in
\* the table is ignored.
Beacon(d) ==
  LET place == zb_address_set_pan_id(d.pan) IN
  /\ ~asserted
  /\ place # {}
  /\ \E r \in place :
       /\ Remember(d.pan, r, pan_id[d.pan])
       /\ IF d.short # None
          THEN /\ ext_neighbor' = PutEntry(Entry(r, d, NoLong))
               /\ UNCHANGED <<dev_manufacturer, asserted>>
          ELSE IF MakerPlace(d.maker) = {}
          THEN asserted' = TRUE /\ UNCHANGED <<dev_manufacturer, ext_neighbor>>
          ELSE \E i \in MakerPlace(d.maker) :
                 /\ dev_manufacturer' = [dev_manufacturer EXCEPT ![i] = d.maker]
                 /\ ext_neighbor' = PutEntry(Entry(r, d, Compressed(i, d)))
                 /\ UNCHANGED asserted
  /\ seen' = IF Len(ext_neighbor') > Len(ext_neighbor) THEN Append(seen, d) ELSE seen
  /\ descriptors' = << >>
  /\ UNCHANGED pan_id

PanOf(i) == long_panid[ext_neighbor[i].panid_ref]

\* The networks that are known and those of the entries in is, each once, in the order of
\* the entries.
Fresh(known, is) ==
  LET IsNew(i) == /\ \A k \in DOMAIN known : known[k].pan # PanOf(i)
                  /\ \A j \in Range(is) : j < i => PanOf(j) # PanOf(i)
      new == SelectSeq(is, IsNew)
  IN  known \o [k \in DOMAIN new |-> [pan |-> PanOf(new[k]), from |-> new[k]]]

AllEntries == [i \in 1 .. Len(ext_neighbor) |-> i]

\* One descriptor for each network; a first pass takes the coordinators only.
Describe ==
  Fresh(Fresh(<< >>, SelectSeq(AllEntries, LAMBDA i : ext_neighbor[i].coordinator)), AllEntries)

\* zb_mlme_scan_confirm at the end of a discovery
ScanConfirm ==
  /\ ~asserted
  /\ descriptors' = Describe
  /\ UNCHANGED <<tabVars, pan_id, seen, asserted>>

\* zb_nwk_exneighbor_stop, once joined
Joined ==
  /\ ~asserted
  /\ ext_neighbor' = << >> /\ descriptors' = << >> /\ seen' = << >>
  /\ UNCHANGED <<long_panid, short_panid, dev_manufacturer, pan_id, asserted>>

\* A network moves to another PAN id to resolve a conflict.
PanIdChanged(p) ==
  /\ ~asserted
  /\ pan_id[p] < MaxPanId
  /\ pan_id' = [pan_id EXCEPT ![p] = @ + 1]
  /\ UNCHANGED <<tabVars, descriptors, seen, asserted>>

Init ==
  /\ long_panid = [r \in Slots |-> None] /\ short_panid = [r \in Slots |-> None]
  /\ dev_manufacturer = [i \in MakerSlots |-> None]
  /\ ext_neighbor = << >> /\ descriptors = << >> /\ seen = << >>
  /\ pan_id = [p \in PanIds |-> 0]
  /\ asserted = FALSE

Next ==
  \/ \E d \in Devices : Beacon(d)
  \/ ScanConfirm \/ Joined
  \/ \E p \in PanIds : PanIdChanged(p)

Spec == Init /\ [][Next]_vars

-----------------------------------------------------------------------------
(* Properties. *)

TypeOK ==
  /\ long_panid \in [Slots -> PanIds \cup {None}]
  /\ short_panid \in [Slots -> 0 .. MaxPanId \cup {None}]
  /\ Len(ext_neighbor) <= ExtSize /\ Len(seen) = Len(ext_neighbor)
  /\ pan_id \in [PanIds -> 0 .. MaxPanId]

\* Every entry still says who sent the beacon it was made from, through the indirect
\* ways it says so: its reference leads to the sender's network, and its compressed
\* long address decompresses to the sender's.  Nobody has two entries.
EntriesName ==
  \A i \in DOMAIN ext_neighbor :
    LET e == ext_neighbor[i]
        d == seen[i]
    IN  /\ long_panid[e.panid_ref] = d.pan
        /\ zb_address_get_pan_id_ref(d.pan) = {e.panid_ref}
        /\ d.short = None => Decompress(e.long_addr) = <<d.maker, d.id>>
        /\ \A j \in DOMAIN ext_neighbor : i # j => seen[j] # d

\* A confirm tells of every network heard, once, and a network whose coordinator was
\* heard is described by its coordinator's beacon.
DescriptorsRight ==
  descriptors # << >> =>
    /\ \A d \in Range(seen) : \E k \in DOMAIN descriptors : descriptors[k].pan = d.pan
    /\ \A k \in DOMAIN descriptors :
         /\ \A j \in DOMAIN descriptors : descriptors[j].pan = descriptors[k].pan => j = k
         /\ seen[descriptors[k].from].pan = descriptors[k].pan
         /\ (\E d \in Range(seen) : d.pan = descriptors[k].pan /\ d.coordinator)
            => seen[descriptors[k].from].coordinator

\* What discovery tells of the networks is true of the devices that were heard.
DiscoveryRight == EntriesName /\ DescriptorsRight

\* The short PAN id a join uses (zb_address_get_short_pan_id) is what the network used
\* when it was last heard. It is not: a network that changed it keeps its old one here.
ShortIsCurrent ==
  [][\A d \in Devices : Beacon(d) =>
       \A r \in zb_address_get_pan_id_ref(d.pan)' : short_panid'[r] = pan_id[d.pan]]_vars
=============================================================================
