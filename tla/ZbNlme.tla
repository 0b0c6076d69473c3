-------------------------------- MODULE ZbNlme --------------------------------
(***************************************************************************)
(* A device that looks for a network, joins it, polls its parent and       *)
(* rejoins (zdo/zdo_app.c, nwk/nwk_discovery.c, nwk_join.c, nwk_nlme.c,    *)
(* nwk_cr_formation.c, nwk_formation.c; mac/mac_associate.c and the        *)
(* indirect data of mac.c), on the scans of ZbMacScan.                     *)
(*                                                                         *)
(* The parents answer or not, when they like; timers ring in any order;    *)
(* transmissions fail.  Security is off (no ZB_SECURITY) and all parents   *)
(* are routers of one network with stack profile 1.                        *)
(***************************************************************************)
EXTENDS ZbMacScan, FiniteSetsExt

CONSTANTS
  Parents, NoParent, \* routers of the network
  Capacity,          \* parent -> the types of child, of "router" and "ed", it has room for
  Devices,           \* the devices: [router, rx_on, insecure, start], see Init
  Attempts,          \* conf_attr.nwk_scan_attempts
  MaxFails,          \* max_parent_threshold_retry
  MaxTroubles        \* bound: lost links, LEAVE commands and frames of others

ASSUME NlmeAssumption ==
  /\ Buf = 1 .. Cardinality(Buf) /\ NoParent \notin Parents
  /\ \A p \in Parents : Capacity[p] \subseteq {"router", "ed"}
  /\ {Attempts, MaxFails, MaxTroubles} \subseteq Nat

VARIABLES
  device,       \* the device's build and settings, chosen at the start
  free,         \* free buffers
  waiting,      \* callbacks that wait for a buffer (zb_get_out_buf_delayed)
  tx_q,         \* callbacks that wait for the transmitter (ZB_SCHEDULE_TX_CB)
  sending,      \* frames the NWK layer has handed to the MAC
  ass_request, poll_request, buf_ref, late_cb, \* indirect data of the MAC
  state, joined, router_started, device_type,
  ext, potential, ext_on, \* ext_neighbor: its entries, the potential parents, has it room
  join_parent, rejoin_parent, cap, rejoin_cap,
  rejoin, started, dev_annce, inside_poll, disc_count, retry, \* the ZDO
  asked,        \* a rejoin request is on the air, not answered
  troubles

pool    == <<free, waiting, tx_q, sending>>
polling == <<ass_request, poll_request, buf_ref, late_cb>>
nwk     == <<state, joined, router_started, device_type>>
table   == <<ext, potential, ext_on>>
parent  == <<join_parent, rejoin_parent, cap, rejoin_cap>>
zdo     == <<rejoin, started, dev_annce, inside_poll, disc_count, retry>>
air     == <<asked, troubles>>
vars    == <<queue, mac, broken, device, pool, polling, nwk, table, parent, zdo, air>>

TypeOK ==
  /\ ScanTypeOK /\ device \in Devices /\ free \subseteq Buf
  /\ state \in {"idle", "disc", "rejoin", "orphan", "router"}
  /\ device_type \in {"none", "router", "ed"} /\ potential \subseteq ext /\ ext \subseteq Parents
  /\ {join_parent, rejoin_parent} \subseteq Parents \cup {NoParent}
  /\ {buf_ref, dev_annce} \subseteq Buf \cup {NoBuf} /\ disc_count \in 0 .. Attempts
  /\ {cap, rejoin_cap} \subseteq {"router", "ed"} /\ late_cb \in {"ass", "poll"}

-----------------------------------------------------------------------------
(* Starting. *)

\* zdo_initiate_rejoin asks to rejoin as a router only when no type is set yet.
RejoinType(type) == IF device.router /\ type = "none" THEN "router" ELSE "ed"
TypeToRejoin(type) == IF device.router /\ type = "none" THEN "router" ELSE type

\* zdo_dev_start, or a request of the application.
Start(b) ==
  CASE device.start = "discovery" -> Call("discovery_request", b, "ok")
    [] device.start = "rejoin"    -> Call("join_rejoin", b, RejoinType("none"))
    [] device.start = "orphan"    -> Call("join_orphan", b, "ok")

Init ==
  /\ ScanInit /\ device \in Devices
  /\ free = Buf \ {1} /\ waiting = <<>> /\ tx_q = <<>> /\ sending = {}
  /\ cb_q = <<Start(1)>>
  /\ ass_request = FALSE /\ poll_request = FALSE /\ buf_ref = NoBuf /\ late_cb = "ass"
  /\ state = "idle" /\ joined = FALSE /\ router_started = FALSE
  /\ device_type = (IF device.router THEN "router" ELSE "none")
  /\ ext = {} /\ potential = {} /\ ext_on = ~device.router
  /\ join_parent = NoParent /\ rejoin_parent = NoParent /\ cap = "ed" /\ rejoin_cap = "ed"
  /\ rejoin = (device.start = "rejoin") /\ started = FALSE /\ dev_annce = NoBuf
  /\ inside_poll = FALSE /\ disc_count = Attempts /\ retry = 0 /\ asked = FALSE /\ troubles = 0

Quiet == UNCHANGED <<device, broken>>

-----------------------------------------------------------------------------
(* Beacons and the extended neighbor table. *)

\* zb_nwk_exneighbor_start is compiled for routers only.
ExNeighborStart == ext_on' = TRUE /\ UNCHANGED <<ext, potential>>
ExNeighborStop  == ext_on' = ~device.router /\ ext' = {} /\ potential' = {}

\* Whether the beacon of p says it has room for the device.
HasRoom(p) == (IF device.router /\ device_type # "ed" THEN "router" ELSE "ed") \in Capacity[p]

\* zb_mac_parse_recv_data and zb_mlme_beacon_notify_indication; the beacon is
\* handled before anything else happens.
Beacon(p) ==
  /\ ~broken /\ HearsBeacon
  /\ IF state \in {"disc", "rejoin"} /\ ext_on
     THEN /\ ext' = ext \cup {p}
          /\ potential' = IF HasRoom(p) THEN potential \cup {p} ELSE potential \ {p}
     ELSE UNCHANGED <<ext, potential>>
  /\ Quiet
  /\ UNCHANGED <<queue, pending_buf, scan_type, mlme_scan_in_progress, unscanned_channels,
                 got_realignment, pool, polling, nwk, ext_on, parent, zdo, air>>

\* nwk_choose_parent; depth and link quality choose among them.
ParentsFor(type) == {p \in potential : type \in Capacity[p]}

-----------------------------------------------------------------------------
(* Discovery. *)

DiscoveryRequest ==
  /\ \/ Runs("discovery_request") /\ UNCHANGED alarms
        /\ IF state = "idle" THEN Then(<<ScanCall(Argument)>>) /\ Builds(Argument, "active")
           ELSE Then(<<Call("discovery_confirm", Argument, "fail")>>) /\ UNCHANGED scan_type
     \/ \E b \in Buf :
          /\ Rings("discovery_request", b) /\ alarms' = alarms \ {Alarm("discovery_request", b)}
          /\ IF state = "idle" THEN Post(<<ScanCall(b)>>) /\ Builds(b, "active")
             ELSE Post(<<Call("discovery_confirm", b, "fail")>>) /\ UNCHANGED scan_type
  /\ IF state = "idle"
     THEN state' = "disc" /\ IF device.router THEN ExNeighborStart ELSE UNCHANGED table
     ELSE UNCHANGED <<state, table>>
  /\ Quiet
  /\ UNCHANGED <<pending_buf, mlme_scan_in_progress, unscanned_channels, beacon_found,
                 got_realignment, pool, polling, joined, router_started, device_type, parent,
                 zdo, air>>

\* zb_nlme_network_discovery_confirm: join the network that was found.  The
\* confirm of a request that was refused is not filled in.
DiscoveryConfirm ==
  /\ Runs("discovery_confirm")
  /\ broken' = (Status = "fail")
  /\ Then(IF ext # {}
          THEN <<Call("join_assoc", Argument,
                      IF device.router /\ device_type # "ed" THEN "router" ELSE "ed")>>
          ELSE <<Call("startup_complete", Argument, "fail")>>)
  /\ UNCHANGED <<device, alarms, mac, pool, polling, nwk, table, parent, zdo, air>>

-----------------------------------------------------------------------------
(* Joining by association. *)

\* nwk_association_join with the type in saved_req.join: the request goes to a
\* parent of tried, or the join fails.
Associates(b, type, tried, rest) ==
  IF ~joined /\ tried # {}
  THEN \E p \in tried : /\ join_parent' = p /\ cap' = type
                        /\ tx_q' = Append(tx_q, Call("assoc", b, "ok")) /\ cb_q' = rest
  ELSE /\ cb_q' = Append(rest, Call("join_confirm", b, "fail"))
       /\ cap' = type /\ UNCHANGED <<join_parent, tx_q>>

JoinByAssociation ==
  /\ Runs("join_assoc") /\ router_started' = FALSE
  /\ Associates(Argument, Status, ParentsFor(Status), Tail(cb_q))
  /\ Quiet
  /\ UNCHANGED <<alarms, mac, free, waiting, sending, polling, state, joined, device_type, table,
                 rejoin_parent, rejoin_cap, zdo, air>>

\* zb_mlme_send_association_req_cmd and its continuation: a command that was
\* not acknowledged is given up without a confirm.
SendAssociation ==
  /\ ~broken /\ tx_q # <<>> /\ Head(tx_q).fn = "assoc" /\ tx_q' = Tail(tx_q)
  /\ \/ alarms' = alarms \cup {Alarm("resp_timeout", NoBuf)}
     \/ UNCHANGED alarms
  /\ Quiet
  /\ UNCHANGED <<cb_q, mac, free, waiting, sending, polling, nwk, table, parent, zdo, air>>

\* call_indirect_data_callback.
IndirectCall(kind, b, st) ==
  Call(IF kind = "ass" THEN "associate_confirm" ELSE "poll_confirm", b, st)
IndirectAlarms == {Alarm("indirect", NoBuf)}

\* zb_mac_resp_timeout: ask for the response, with the addresses in the request
\* that pending_buf is taken for.
ResponseTimeout ==
  /\ Rings("resp_timeout", NoBuf)
  /\ \/ /\ pending_buf = NoBuf
        /\ broken' = TRUE /\ alarms' = alarms \ {Alarm("resp_timeout", NoBuf)}
        /\ UNCHANGED <<cb_q, pending_buf, free, polling>>
     \/ /\ pending_buf # NoBuf
        /\ ass_request' = TRUE /\ buf_ref' = NoBuf /\ late_cb' = "ass"
        /\ alarms' = (alarms \ {Alarm("resp_timeout", NoBuf)}) \cup IndirectAlarms
        /\ free' = free \cup {pending_buf} /\ pending_buf' = NoBuf
        /\ UNCHANGED <<cb_q, poll_request, broken>>
     \/ /\ pending_buf # NoBuf
        /\ ass_request' = FALSE
        /\ alarms' = alarms \ {Alarm("resp_timeout", NoBuf)}
        /\ Post(<<IndirectCall("ass", pending_buf, "fail")>>)
        /\ UNCHANGED <<pending_buf, free, poll_request, buf_ref, late_cb, broken>>
  /\ UNCHANGED <<scan_type, mlme_scan_in_progress, unscanned_channels, beacon_found,
                 got_realignment, device, waiting, tx_q, sending, nwk, table, parent, zdo, air>>

\* zb_mac_indirect_data_timeout.
IndirectTimeout ==
  /\ Rings("indirect", NoBuf) /\ alarms' = alarms \ IndirectAlarms
  /\ IF buf_ref # NoBuf
     THEN /\ Post(<<IndirectCall(late_cb, buf_ref, "no_data")>>) /\ buf_ref' = NoBuf
          /\ ass_request' = (ass_request /\ late_cb # "ass")
          /\ poll_request' = (poll_request /\ late_cb # "poll")
          /\ UNCHANGED waiting
     ELSE /\ waiting' = Append(waiting, "indirect_caller")
          /\ UNCHANGED <<cb_q, buf_ref, ass_request, poll_request>>
  /\ Quiet
  /\ UNCHANGED <<mac, free, tx_q, sending, late_cb, nwk, table, parent, zdo, air>>

\* indirect_data_callback_caller.
IndirectCaller ==
  /\ Runs("indirect_caller") /\ Then(<<IndirectCall(late_cb, Argument, "no_data")>>)
  /\ ass_request' = (ass_request /\ late_cb # "ass")
  /\ poll_request' = (poll_request /\ late_cb # "poll")
  /\ Quiet /\ UNCHANGED <<alarms, mac, pool, buf_ref, late_cb, nwk, table, parent, zdo, air>>

\* An association response in answer to the data request.
AssociationResponse(st) ==
  /\ ~broken /\ ass_request /\ free # {} /\ ass_request' = FALSE
  /\ free' = free \ {Min(free)}
  /\ Post(<<Call("associate_confirm", Min(free), st)>>)
  /\ alarms' = alarms \ IndirectAlarms
  /\ Quiet
  /\ UNCHANGED <<mac, waiting, tx_q, sending, poll_request, buf_ref, late_cb, nwk, table, parent,
                 zdo, air>>

\* Mutant of Refused: a parent that refused is asked again.
Refused_Again(p) == potential

\* What is left of the potential parents when p refused or did not answer.
Refused(p) == potential \ {p}

\* zb_mlme_associate_confirm.  A router no parent takes tries as an end device,
\* with every entry of the table a potential parent again.
AssociateConfirm ==
  /\ Runs("associate_confirm")
  /\ \/ /\ join_parent = NoParent /\ broken' = TRUE /\ Then(<<>>)
        /\ UNCHANGED <<joined, device_type, table, parent, tx_q>>
     \/ /\ join_parent # NoParent /\ Status = "ok"
        /\ joined' = TRUE /\ device_type' = cap /\ ExNeighborStop
        /\ Then(<<Call("join_confirm", Argument, "ok")>>)
        /\ UNCHANGED <<broken, parent, tx_q>>
     \/ /\ join_parent # NoParent /\ Status # "ok"
        /\ LET left  == {p \in Refused(join_parent) : cap \in Capacity[p]}
               again == cap = "router" /\ left = {} /\ ~joined
               type  == IF again THEN "ed" ELSE cap
           IN /\ potential' = IF again THEN ext ELSE Refused(join_parent)
              /\ Associates(Argument, type,
                            IF again THEN {p \in ext : "ed" \in Capacity[p]} ELSE left,
                            Tail(cb_q))
        /\ UNCHANGED <<broken, joined, device_type, ext, ext_on, rejoin_parent, rejoin_cap>>
  /\ UNCHANGED <<alarms, mac, device, free, waiting, sending, polling, state, router_started,
                 zdo, air>>

-----------------------------------------------------------------------------
(* Rejoining. *)

\* zb_nlme_rejoin, on a request to rejoin.
JoinByRejoin ==
  /\ Runs("join_rejoin") /\ router_started' = FALSE
  /\ IF state = "idle"
     THEN /\ Then(<<ScanCall(Argument)>>) /\ Builds(Argument, "active")
          /\ state' = "rejoin" /\ rejoin_cap' = Status
          /\ join_parent' = NoParent  \* the two share a union
          /\ IF device.router THEN ExNeighborStart ELSE UNCHANGED table
     ELSE /\ Then(<<Call("join_confirm", Argument, "fail")>>)
          /\ UNCHANGED <<scan_type, state, rejoin_cap, join_parent, table>>
  /\ Quiet
  /\ UNCHANGED <<alarms, pending_buf, mlme_scan_in_progress, unscanned_channels, beacon_found,
                 got_realignment, pool, polling, joined, device_type, rejoin_parent, cap, zdo, air>>

\* zb_nlme_rejoin_scan_confirm: a rejoin request to the next parent, if any.
NextRejoin(b, rest) ==
  IF ParentsFor(rejoin_cap) # {}
  THEN /\ \E p \in ParentsFor(rejoin_cap) : rejoin_parent' = p
       /\ sending' = sending \cup {[frame |-> "rejoin", buf |-> b]}
       /\ cb_q' = rest /\ UNCHANGED <<state, table>>
  ELSE /\ state' = "idle" /\ ExNeighborStop
       /\ cb_q' = Append(rest, Call("join_confirm", b, "fail"))
       /\ UNCHANGED <<rejoin_parent, sending>>

RejoinScanConfirm ==
  /\ Runs("rejoin_next") /\ NextRejoin(Argument, Tail(cb_q))
  /\ Quiet
  /\ UNCHANGED <<alarms, mac, free, waiting, tx_q, polling, joined, router_started, device_type,
                 join_parent, cap, rejoin_cap, zdo, air>>

RejoinAlarms == {a \in alarms : a.fn = "rejoin_timeout"}

\* The MAC's confirm of a frame, which clears pending_buf, and
\* zb_mcps_data_confirm: a rejoin request arms the timer of its response.
Sent(f) ==
  /\ ~broken /\ f \in sending /\ sending' = sending \ {f} /\ pending_buf' = NoBuf
  /\ IF f.frame = "rejoin"
     THEN /\ asked' \in {asked, TRUE}
          /\ IF state = "rejoin"
             THEN /\ alarms' = (alarms \ RejoinAlarms) \cup {Alarm("rejoin_timeout", f.buf)}
                  /\ UNCHANGED free
             ELSE free' = free \cup {f.buf} /\ UNCHANGED alarms
          /\ UNCHANGED cb_q
     ELSE /\ \E st \in {"ok", "fail"} : Post(<<Call("data_confirm", f.buf, st)>>)
          /\ UNCHANGED <<alarms, asked, free>>
  /\ Quiet
  /\ UNCHANGED <<scan_type, mlme_scan_in_progress, unscanned_channels, beacon_found,
                 got_realignment, waiting, tx_q, polling, nwk, table, parent, zdo, troubles>>

\* zb_nlme_rejoin_response_timeout.
RejoinTimeout(b) ==
  /\ Rings("rejoin_timeout", b) /\ alarms' = alarms \ {Alarm("rejoin_timeout", b)}
  /\ rejoin_parent # NoParent
  /\ IF device.rx_on
     THEN /\ potential' = Refused(rejoin_parent)
          /\ Post(<<Call("rejoin_next", b, "ok")>>) /\ UNCHANGED tx_q
     ELSE tx_q' = Append(tx_q, Call("poll", b, "ok")) /\ UNCHANGED <<potential, cb_q>>
  /\ Quiet
  /\ UNCHANGED <<mac, free, waiting, sending, polling, nwk, ext, ext_on, parent, zdo, air>>

\* A rejoin response: at once, or in answer to a poll.  zb_handle_data_frame
\* leaves its buffer in pending_buf.
RejoinResponseFrame(st) ==
  /\ ~broken /\ asked /\ free # {} /\ asked' = FALSE
  /\ device.rx_on \/ poll_request
  /\ free' = free \ {Min(free)} /\ alarms' = alarms \ IndirectAlarms
  /\ LET poll == poll_request /\ buf_ref # NoBuf
     IN /\ Post((IF poll THEN <<Call("poll_confirm", buf_ref, "ok")>> ELSE <<>>)
                  \o <<Call("data_frame", Min(free), st)>>)
        /\ poll_request' = (poll_request /\ ~poll)
  /\ Quiet
  /\ UNCHANGED <<mac, waiting, tx_q, sending, ass_request, buf_ref, late_cb, nwk, table, parent,
                 zdo, troubles>>

\* Another frame for the device, whose buffer goes to the upper layers.
DataFrame ==
  /\ ~broken /\ troubles < MaxTroubles /\ (joined \/ state = "rejoin")
  /\ device.rx_on \/ poll_request
  /\ alarms' = alarms \ IndirectAlarms /\ pending_buf' = NoBuf
  /\ LET poll == poll_request /\ buf_ref # NoBuf
     IN /\ Post(IF poll THEN <<Call("poll_confirm", buf_ref, "ok")>> ELSE <<>>)
        /\ poll_request' = (poll_request /\ ~poll)
  /\ troubles' = troubles + 1 /\ Quiet
  /\ UNCHANGED <<scan_type, mlme_scan_in_progress, unscanned_channels, beacon_found,
                 got_realignment, pool, ass_request, buf_ref, late_cb, nwk, table, parent, zdo,
                 asked>>

\* Mutant of RejoinResponse: the timer of the request is left running.
RejoinResponse_NoCancel ==
  /\ Runs("data_frame") /\ pending_buf' = Argument
  /\ IF state = "rejoin" /\ rejoin_parent \in ext
     THEN IF Status = "ok"
          THEN /\ joined' = TRUE /\ state' = "idle" /\ ExNeighborStop
               /\ Then(<<Call("join_confirm", Argument, "ok")>>) /\ UNCHANGED free
          ELSE /\ potential' = Refused(rejoin_parent)
               /\ Then(<<Call("rejoin_next", Argument, "ok")>>)
               /\ UNCHANGED <<joined, state, ext, ext_on, free>>
     ELSE /\ free' = free \cup {Argument} /\ Then(<<>>)
          /\ UNCHANGED <<joined, state, table>>
  /\ Quiet /\ UNCHANGED alarms
  /\ UNCHANGED <<scan_type, mlme_scan_in_progress, unscanned_channels, beacon_found,
                 got_realignment, waiting, tx_q, sending, polling, router_started, device_type,
                 parent, zdo, air>>

\* zb_nlme_rejoin_response.  The buffer of the timer it cancels is not freed.
RejoinResponse ==
  /\ Runs("data_frame") /\ pending_buf' = Argument
  /\ \/ /\ state = "rejoin" /\ rejoin_parent \notin ext
        /\ broken' = TRUE /\ Then(<<>>)
        /\ UNCHANGED <<alarms, joined, state, table, free>>
     \/ /\ state = "rejoin" /\ rejoin_parent \in ext /\ alarms' = alarms \ RejoinAlarms
        /\ IF Status = "ok"
           THEN /\ joined' = TRUE /\ state' = "idle" /\ ExNeighborStop
                /\ Then(<<Call("join_confirm", Argument, "ok")>>)
           ELSE /\ potential' = Refused(rejoin_parent)
                /\ Then(<<Call("rejoin_next", Argument, "ok")>>)
                /\ UNCHANGED <<joined, state, ext, ext_on>>
        /\ UNCHANGED <<broken, free>>
     \/ /\ state # "rejoin" /\ free' = free \cup {Argument} /\ Then(<<>>)
        /\ UNCHANGED <<broken, alarms, joined, state, table>>
  /\ UNCHANGED <<scan_type, mlme_scan_in_progress, unscanned_channels, beacon_found,
                 got_realignment, device, waiting, tx_q, sending, polling, router_started,
                 device_type, parent, zdo, air>>

-----------------------------------------------------------------------------
(* The end of a scan. *)

JoinByOrphanScan ==
  /\ Runs("join_orphan") /\ router_started' = FALSE
  /\ IF state = "idle"
     THEN /\ Then(<<ScanCall(Argument)>>) /\ Builds(Argument, "orphan") /\ state' = "orphan"
     ELSE /\ Then(<<Call("join_confirm", Argument, "fail")>>) /\ UNCHANGED <<scan_type, state>>
  /\ Quiet
  /\ UNCHANGED <<alarms, pending_buf, mlme_scan_in_progress, unscanned_channels, beacon_found,
                 got_realignment, pool, polling, joined, device_type, table, parent, zdo, air>>

\* zb_mlme_scan_confirm: the confirm goes by the state of the NWK layer.
ScanConfirm ==
  /\ Runs("scan_confirm")
  /\ scan_type' = [scan_type EXCEPT ![Argument] = "none"]
  /\ \/ /\ state = "disc" /\ disc_count > 1 /\ disc_count' = disc_count - 1
        /\ alarms' = alarms \cup {Alarm("discovery_request", Argument)} /\ Then(<<>>)
        /\ state' = "idle" /\ UNCHANGED <<broken, table, rejoin_parent, sending>>
     \/ /\ state = "disc" /\ disc_count <= 1 /\ disc_count' = 0
        /\ Then(<<Call("discovery_confirm", Argument, "ok")>>)
        /\ state' = "idle" /\ UNCHANGED <<alarms, broken, table, rejoin_parent, sending>>
     \/ /\ state = "rejoin" /\ NextRejoin(Argument, Tail(cb_q))
        /\ UNCHANGED <<alarms, broken, disc_count>>
     \/ /\ state = "orphan" /\ state' = "idle"
        /\ Then(<<Call("join_confirm", Argument, Status)>>)
        /\ UNCHANGED <<alarms, broken, disc_count, table, rejoin_parent, sending>>
     \/ /\ state \in {"idle", "router"} /\ broken' = TRUE /\ Then(<<>>)
        /\ UNCHANGED <<alarms, disc_count, state, table, rejoin_parent, sending>>
  /\ UNCHANGED <<pending_buf, mlme_scan_in_progress, unscanned_channels, beacon_found,
                 got_realignment, device, free, waiting, tx_q, polling, joined, router_started,
                 device_type, join_parent, cap, rejoin_cap, rejoin, started, dev_annce,
                 inside_poll, retry, air>>

-----------------------------------------------------------------------------
(* Joined: the router starts, the device is announced. *)

\* zb_nlme_join_confirm.
JoinConfirm ==
  /\ Runs("join_confirm")
  /\ \/ /\ Status = "ok" /\ started' = FALSE
        /\ Then(<<Call(IF device.router /\ device_type = "router" THEN "start_router"
                       ELSE "join_done", Argument, "ok")>>)
        /\ UNCHANGED <<rejoin, disc_count, device_type>>
     \/ /\ Status # "ok" /\ rejoin /\ device.insecure
        /\ rejoin' = FALSE /\ disc_count' = Attempts
        /\ device_type' = (IF device.router /\ device_type = "none" THEN "router" ELSE "ed")
        /\ Then(<<Call("discovery_request", Argument, "ok")>>) /\ UNCHANGED started
     \/ /\ Status # "ok" /\ ~(rejoin /\ device.insecure)
        /\ Then(<<Call("startup_complete", Argument, "fail")>>)
        /\ UNCHANGED <<rejoin, disc_count, started, device_type>>
  /\ Quiet
  /\ UNCHANGED <<alarms, mac, pool, polling, state, joined, router_started, table, parent,
                 dev_annce, inside_poll, retry, air>>

\* zb_nlme_start_router_request; a device that became an end device meanwhile
\* is refused, which zb_nlme_start_router_confirm does not look at.
StartRouter ==
  /\ Runs("start_router")
  /\ IF device_type = "router"
     THEN /\ router_started' = TRUE /\ state' = "router"
          /\ Then(<<Call("mlme_start", Argument, "ok")>>)
     ELSE /\ Then(<<Call("join_done", Argument, "ok")>>) /\ UNCHANGED <<router_started, state>>
  /\ Quiet
  /\ UNCHANGED <<alarms, mac, pool, polling, joined, device_type, table, parent, zdo, air>>

\* zb_mlme_start_request with zb_mac_process_mlme_start, without realignment.
MlmeStart ==
  /\ Runs("mlme_start") /\ pending_buf' = Argument
  /\ Then(<<Call("start_confirm", Argument, "ok")>>)
  /\ Quiet
  /\ UNCHANGED <<alarms, scan_type, mlme_scan_in_progress, unscanned_channels, beacon_found,
                 got_realignment, pool, polling, nwk, table, parent, zdo, air>>

\* zb_mlme_start_confirm and zb_nlme_start_router_confirm.
StartConfirm ==
  /\ Runs("start_confirm") /\ ExNeighborStop /\ state' = "idle"
  /\ broken' = (state # "router")
  /\ Then(<<Call("join_done", Argument, "ok")>>)
  /\ UNCHANGED <<alarms, mac, device, pool, polling, joined, router_started, device_type, parent,
                 zdo, air>>

PollAlarm == Alarm("poll_parent", NoBuf)

\* zb_zdo_reschedule_poll_parent.
Rescheduled == IF device.rx_on \/ inside_poll THEN alarms ELSE alarms \cup {PollAlarm}

\* zdo_join_done and zdo_send_device_annce.
JoinDone ==
  /\ Runs("join_done") /\ Then(<<>>)
  /\ dev_annce' = Argument /\ retry' = 0 /\ alarms' = Rescheduled
  /\ sending' = sending \cup {[frame |-> "annce", buf |-> Argument]}
  /\ Quiet
  /\ UNCHANGED <<mac, free, waiting, tx_q, polling, nwk, table, parent, rejoin, started,
                 inside_poll, disc_count, air>>

\* Mutant of DataConfirm: an announcement that failed does not start the device.
DataConfirm_Failed ==
  /\ Runs("data_confirm") /\ Then(<<>>)
  /\ IF dev_annce = Argument /\ Status = "ok" THEN dev_annce' = NoBuf /\ started' = TRUE
     ELSE UNCHANGED <<dev_annce, started>>
  /\ free' = free \cup {Argument} /\ Quiet
  /\ UNCHANGED <<alarms, mac, waiting, tx_q, sending, polling, nwk, table, parent, rejoin,
                 inside_poll, disc_count, retry, air>>

\* zb_apsde_data_confirm of the announcement.
DataConfirm ==
  /\ Runs("data_confirm")
  /\ IF dev_annce = Argument
     THEN /\ dev_annce' = NoBuf /\ started' = TRUE /\ UNCHANGED free
          /\ Then(IF started THEN <<>> ELSE <<Call("startup_complete", Argument, Status)>>)
     ELSE free' = free \cup {Argument} /\ Then(<<>>) /\ UNCHANGED <<dev_annce, started>>
  /\ Quiet
  /\ UNCHANGED <<alarms, mac, waiting, tx_q, sending, polling, nwk, table, parent, rejoin,
                 inside_poll, disc_count, retry, air>>

\* zb_zdo_startup_complete of the application.
StartupComplete ==
  /\ Runs("startup_complete") /\ free' = free \cup {Argument} /\ Then(<<>>)
  /\ Quiet
  /\ UNCHANGED <<alarms, mac, waiting, tx_q, sending, polling, nwk, table, parent, zdo, air>>

-----------------------------------------------------------------------------
(* Polling the parent. *)

\* zb_zdo_poll_parent without a buffer.
PollAlarmRings ==
  /\ Rings("poll_parent", NoBuf) /\ alarms' = alarms \ {PollAlarm}
  /\ waiting' = IF joined THEN Append(waiting, "poll_parent") ELSE waiting
  /\ Quiet
  /\ UNCHANGED <<cb_q, mac, free, tx_q, sending, polling, nwk, table, parent, zdo, air>>

\* A buffer for the callback that waited longest.
GetsBuffer ==
  /\ ~broken /\ waiting # <<>> /\ free # {}
  /\ waiting' = Tail(waiting) /\ free' = free \ {Min(free)}
  /\ Post(<<Call(Head(waiting), Min(free), "ok")>>)
  /\ Quiet
  /\ UNCHANGED <<alarms, mac, tx_q, sending, polling, nwk, table, parent, zdo, air>>

\* zb_zdo_poll_parent with a buffer and zb_nlme_sync_request.
PollParent ==
  /\ Runs("poll_parent") /\ Then(<<>>) /\ inside_poll' = TRUE
  /\ tx_q' = Append(tx_q, Call("poll", Argument, "ok"))
  /\ Quiet
  /\ UNCHANGED <<alarms, mac, free, waiting, sending, polling, nwk, table, parent, rejoin,
                 started, dev_annce, disc_count, retry, air>>

\* zb_handle_poll_request: the parent has a frame, has none, or did not answer.
HandlePollRequest ==
  /\ ~broken /\ tx_q # <<>> /\ Head(tx_q).fn = "poll" /\ tx_q' = Tail(tx_q)
  /\ pending_buf' = NoBuf
  /\ \/ /\ poll_request' = TRUE /\ buf_ref' = Head(tx_q).buf /\ late_cb' = "poll"
        /\ alarms' = alarms \cup IndirectAlarms /\ UNCHANGED cb_q
     \/ /\ \E st \in {"no_data", "fail"} : Post(<<Call("poll_confirm", Head(tx_q).buf, st)>>)
        /\ UNCHANGED <<alarms, poll_request, buf_ref, late_cb>>
  /\ Quiet
  /\ UNCHANGED <<scan_type, mlme_scan_in_progress, unscanned_channels, beacon_found,
                 got_realignment, free, waiting, sending, ass_request, nwk, table, parent, zdo, air>>

\* zb_mlme_poll_confirm: in a rejoin, a parent without an answer is given up;
\* the buffer of a poll that brought a frame is not freed.
PollConfirm ==
  /\ Runs("poll_confirm")
  /\ \/ /\ state = "rejoin" /\ Status # "ok"
        /\ potential' = Refused(rejoin_parent)
        /\ Then(<<Call("rejoin_next", Argument, "ok")>>)
     \/ state = "rejoin" /\ Status = "ok" /\ Then(<<>>) /\ UNCHANGED potential
     \/ /\ state # "rejoin" /\ Then(<<Call("sync_confirm", Argument, Status)>>)
        /\ UNCHANGED potential
  /\ Quiet
  /\ UNCHANGED <<alarms, mac, pool, polling, nwk, ext, ext_on, parent, zdo, air>>

\* zb_nlme_sync_confirm: failed polls are counted, and never forgotten before
\* the next join.
SyncConfirm ==
  /\ Runs("sync_confirm") /\ inside_poll' = FALSE
  /\ LET n == IF Status = "fail" THEN retry + 1 ELSE retry
         sched == IF joined /\ ~device.rx_on THEN alarms \cup {PollAlarm} ELSE alarms
     IN /\ retry' = n
        /\ IF Status = "fail" /\ n >= MaxFails
           THEN /\ Then(<<Call("join_rejoin", Argument, RejoinType(device_type))>>)
                /\ rejoin' = TRUE /\ started' = FALSE /\ joined' = FALSE
                /\ device_type' = TypeToRejoin(device_type)
                /\ UNCHANGED <<alarms, free>>
           ELSE /\ Then(<<>>) /\ free' = free \cup {Argument} /\ alarms' = sched
                /\ UNCHANGED <<rejoin, started, joined, device_type>>
  /\ Quiet
  /\ UNCHANGED <<mac, waiting, tx_q, sending, polling, state, router_started, table, parent,
                 dev_annce, disc_count, air>>

-----------------------------------------------------------------------------
(* Leaving, and losing the parent. *)

\* zb_nlme_status_indication when an end device has lost its link to the parent.
LinkFailure ==
  /\ ~broken /\ ~device.router /\ troubles < MaxTroubles /\ (joined \/ state = "rejoin")
  /\ free # {} /\ free' = free \ {Min(free)} /\ troubles' = troubles + 1
  /\ Post(<<Call("join_rejoin", Min(free), RejoinType(device_type))>>)
  /\ rejoin' = TRUE /\ started' = FALSE /\ joined' = FALSE
  /\ Quiet
  /\ UNCHANGED <<alarms, mac, waiting, tx_q, sending, polling, state, router_started, device_type,
                 table, parent, dev_annce, inside_poll, disc_count, retry, asked>>

\* zb_nwk_do_leave, on the parent's command to leave, or to leave and rejoin.
DoLeave ==
  /\ ~broken /\ troubles < MaxTroubles /\ joined /\ troubles' = troubles + 1
  /\ started' = FALSE /\ joined' = FALSE /\ router_started' = FALSE
  /\ \/ /\ free # {} /\ free' = free \ {Min(free)} /\ rejoin' = TRUE
        /\ Post(<<Call("join_rejoin", Min(free),
                       IF device_type = "router" THEN "router" ELSE "ed")>>)
     \/ UNCHANGED <<free, rejoin, cb_q>>
  /\ Quiet
  /\ UNCHANGED <<alarms, mac, waiting, tx_q, sending, polling, state, device_type, table, parent,
                 dev_annce, inside_poll, disc_count, retry, asked>>

Starting == \/ DiscoveryRequest \/ DiscoveryConfirm \/ JoinByAssociation \/ SendAssociation
            \/ ResponseTimeout \/ IndirectTimeout \/ IndirectCaller \/ AssociateConfirm
            \/ JoinByRejoin \/ RejoinScanConfirm \/ RejoinResponse \/ JoinByOrphanScan
            \/ ScanConfirm \/ JoinConfirm \/ StartRouter \/ MlmeStart \/ StartConfirm \/ JoinDone
            \/ DataConfirm \/ StartupComplete
Polling  == \/ PollAlarmRings \/ GetsBuffer \/ PollParent \/ HandlePollRequest \/ PollConfirm
            \/ SyncConfirm
Internal == \/ (Scan /\ UNCHANGED <<device, pool, polling, nwk, table, parent, zdo, air>>)
            \/ Starting \/ Polling
            \/ \E f \in sending : Sent(f)
            \/ \E b \in Buf : RejoinTimeout(b)
Around   == \/ \E p \in Parents : Beacon(p)
            \/ \E st \in {"ok", "fail"} : AssociationResponse(st) \/ RejoinResponseFrame(st)
            \/ (Realignment /\ UNCHANGED <<device, pool, polling, nwk, table, parent, zdo, air>>)
            \/ DataFrame \/ LinkFailure \/ DoLeave

Next == Internal \/ Around

\* The scheduler runs what is queued, rings its alarms and gets answers from the
\* MAC; the air owes nothing.
Spec ==
  /\ Init /\ [][Next]_vars
  /\ WF_vars(Scan /\ UNCHANGED <<device, pool, polling, nwk, table, parent, zdo, air>>)
  /\ WF_vars(Starting) /\ WF_vars(Polling)
  /\ WF_vars(\E f \in sending : Sent(f)) /\ WF_vars(\E b \in Buf : RejoinTimeout(b))

-----------------------------------------------------------------------------
(* Properties. *)

\* Where a buffer is held; references that are only compared are left out.
Holders(b) ==
  Cardinality({i \in DOMAIN cb_q : cb_q[i].buf = b}) + Cardinality({a \in alarms : a.buf = b})
    + Cardinality({i \in DOMAIN tx_q : tx_q[i].buf = b}) + Cardinality({f \in sending : f.buf = b})
    + Cardinality(free \cap {b}) + Cardinality({buf_ref} \cap (IF poll_request THEN {b} ELSE {}))

\* As long as nothing disturbs it, joining, polling and rejoining pass every
\* buffer on to one owner: a queue, an alarm, the MAC, or the pool.
OneOwner == troubles = 0 /\ ~broken => \A b \in Buf : Holders(b) <= 1

\* A device that only rejoins, and is left alone, uses no memory that is not
\* its own and fails no assertion, in whatever order answers and timers come.
RejoinSound == device.start = "rejoin" /\ troubles = 0 => ~broken

\* No request, poll, timer or answer of joining touches a buffer that is not its own.
JoiningSound == OneOwner /\ RejoinSound

\* A rejoin of a device that listens comes to an end, once beacons stop making
\* parents that refused potential again.
RejoinEnds ==
  <>[][~\E p \in Parents : Beacon(p)]_vars
    => ((state = "rejoin" /\ device.rx_on) ~> (state # "rejoin" \/ broken))

\* A device that joined announces itself, unless it has to leave again.
Announced == joined ~> (started \/ ~joined \/ broken)
=============================================================================
