----------------------------- MODULE ZbNwkPanId -----------------------------
(***************************************************************************)
(* The PAN id and the channel of a network: the coordinator forms it       *)
(* (nwk_cr_formation.c), routers that hear another network with the same   *)
(* PAN id report it to the coordinator, which is the network manager,      *)
(* picks another id and announces it, and everybody changes over after the *)
(* broadcast delivery time (nwk_panid_conflict.c).  An application may     *)
(* announce another channel meanwhile (Mgmt_NWK_Update).                   *)
(*                                                                         *)
(* Callbacks wait in todo, alarms in alarms and hops, frames in air.  A    *)
(* frame of another PAN id or channel is not received.  known_panids is    *)
(* left out: its contents never matter to the loop that picks an id, only  *)
(* whether it has an empty place, which a report always leaves.            *)
(***************************************************************************)
EXTENDS Integers, Sequences, FiniteSets, FiniteSetsExt

CONSTANTS
  Coord,        \* the coordinator and network manager
  Routers,      \* the other routers of the network
  PanIds,       \* PAN ids other than 0
  Presets,      \* PAN ids that the coordinator may be configured with, 0 for none
  Channels,     \* channels that may be asked for, among 11 .. 26
  Rivals,       \* PAN ids of networks that come into reach afterwards
  MaxChanges    \* bound: PAN ids picked and channel changes asked for

Nodes == {Coord} \cup Routers
AllPans == PanIds \cup {0}
FirstChannel == 11      \* ZB_MAC_START_CHANNEL_NUMBER
LastChannel == 26       \* ZB_MAC_MAX_CHANNEL_NUMBER
ShortIds == 1 .. 65535

ASSUME PanIdAssumption ==
  /\ Coord \notin Routers /\ IsFiniteSet(Routers)
  /\ PanIds \subseteq ShortIds /\ Presets \subseteq AllPans /\ Rivals \subseteq PanIds
  /\ Channels \subseteq FirstChannel .. LastChannel
  /\ MaxChanges \in Nat

VARIABLES
  form,       \* saved_req.formation.scan_channels of the coordinator
  joined,     \* "no", "yes", or "failed": the formation was confirmed with a failure
  node,       \* per device: PAN id, channel, new_panid, panid_conflict, state
  todo,       \* per device and function: callbacks scheduled, in a short alarm, or without buffer
  starting,   \* per device: the requests of MLME-START scheduled
  alarms,     \* alarms of zb_panid_conflict_set_panid_alarm, with the update they are for
  hops,       \* alarms of zb_zdo_new_channel_cb, with the channel and the request they are for
  air,        \* frames on their way
  picked, asked,   \* PAN ids picked, channel changes asked for
  missed,     \* history: a frame was lost, not received, or a report ignored
  crossed,    \* history: two changes of one device got in each other's way
  asserted    \* ZB_ASSERT(0) of zb_mlme_start_confirm failed

panIdVars == <<form, joined, node, todo, starting, alarms, hops, air, picked, asked, missed,
          crossed, asserted>>
formVars == <<form, joined>>
boundVars == <<picked, asked>>
history == <<missed, crossed, asserted>>

Functions == {"report", "update", "status", "set", "confirm"}
Schedule(t, n, f) == [t EXCEPT ![n][f] = @ + 1]
Run(t, n, f) == [t EXCEPT ![n][f] = @ - 1]
Enter(n, s) == node' = [node EXCEPT ![n].state = s]

-----------------------------------------------------------------------------
(* Formation. *)

\* zb_nlme_network_formation_request: one channel needs no energy detection.
FormationRequest(mask) ==
  /\ node[Coord].state = "idle" /\ joined # "yes"
  /\ form' = mask
  /\ joined' = "no"
  /\ Enter(Coord, IF Cardinality(mask) = 1 THEN "active scan" ELSE "ed scan")
  /\ UNCHANGED <<todo, starting, alarms, hops, air, boundVars, history>>

\* nwk_formation_ed_scan_confirm: channels louder than ZB_NWK_CHANNEL_ACCEPT_LEVEL
\* (external: which) are dropped.
EdScanConfirm(quiet) ==
  /\ node[Coord].state = "ed scan" /\ quiet \subseteq form
  /\ form' = quiet
  /\ IF quiet # {} THEN Enter(Coord, "active scan") /\ UNCHANGED joined
     ELSE Enter(Coord, "idle") /\ joined' = "failed"
  /\ UNCHANGED <<todo, starting, alarms, hops, air, boundVars, history>>

\* nwk_formation_select_channel and call_mlme_start, after the active scan.  The scan leaves
\* no trace: zb_mlme_beacon_notify_indication keeps beacons in the extended neighbor table
\* only in the states of a discovery and of a rejoin, so the loop counts no network on any
\* channel and ends at the first one of the mask, under the configured PAN id or any other.
SelectChannel ==
  /\ node[Coord].state = "active scan"
  /\ \E p \in IF node[Coord].pan = 0 THEN AllPans ELSE {node[Coord].pan} :
       starting' = [starting EXCEPT ![Coord] = Append(@, [pan |-> p, ch |-> Min(form)])]
  /\ Enter(Coord, "formation")
  /\ UNCHANGED <<formVars, todo, alarms, hops, air, boundVars, history>>

-----------------------------------------------------------------------------
(* MLME-START, of the formation and of a change of the PAN id. *)

\* The scheduler calls alarms only when no callback is left.
Idle(n) == starting[n] = << >> /\ todo[n]["confirm"] = 0 /\ todo[n]["update"] = 0

\* zb_mlme_start_request: the PIB takes the PAN id and the channel of the request.
MlmeStart(n) ==
  /\ starting[n] # << >>
  /\ starting' = [starting EXCEPT ![n] = Tail(@)]
  /\ node' = [node EXCEPT ![n].pan = Head(starting[n]).pan, ![n].ch = Head(starting[n]).ch]
  /\ todo' = Schedule(todo, n, "confirm")
  /\ UNCHANGED <<form, joined, alarms, hops, air, boundVars, history>>

\* zb_mlme_start_confirm.  The routers (external) join as soon as the network is
\* formed.  In any other state the code asserts, which is not followed further.
StartConfirm(n) ==
  /\ todo[n]["confirm"] > 0
  /\ todo' = Run(todo, n, "confirm")
  /\ IF node[n].state = "formation"
     THEN /\ node' = [x \in Nodes |-> [node[x] EXCEPT !.pan = node[n].pan, !.ch = node[n].ch,
                                                      !.state = "idle"]]
          /\ joined' = "yes" /\ form' = {}
     ELSE Enter(n, "idle") /\ UNCHANGED formVars
  /\ asserted' = (node[n].state = "idle")
  /\ UNCHANGED <<starting, alarms, hops, air, boundVars, missed, crossed>>

-----------------------------------------------------------------------------
(* The manager. *)

\* zb_panid_conflict_network_update: the loop accepts any id but 0, and 0 too
\* if known_panids has an empty place.
NetworkUpdate(zeroKnown) ==
  /\ picked + asked < MaxChanges /\ picked' = picked + 1
  /\ \E p \in IF zeroKnown THEN AllPans ELSE PanIds :
       node' = [node EXCEPT ![Coord].new = p, ![Coord].state = "idle"]
  /\ todo' = Schedule(todo, Coord, "update")
  /\ alarms' = alarms \cup {[at |-> Coord, of |-> picked']}
  /\ UNCHANGED <<formVars, starting, hops, asked, missed, crossed, asserted>>

InPan(m, n) == m.pan = node[n].pan /\ m.ch = node[n].ch

\* Received by nobody: lost, or of another PAN id or channel by now.
Miss(m) ==
  /\ m \in air /\ air' = air \ {m}
  /\ missed' = TRUE
  /\ UNCHANGED <<formVars, node, todo, starting, alarms, hops, boundVars, crossed, asserted>>

\* zb_panid_conflict_got_network_report.  While the manager starts with a new
\* PAN id reports are ignored.
GotNetworkReport(m) ==
  /\ m \in air /\ m.kind = "report" /\ InPan(m, Coord)
  /\ air' = air \ {m}
  /\ \/ /\ node[Coord].state = "resolution" \/ node[Coord].conflict
        /\ missed' = TRUE
        /\ UNCHANGED <<formVars, node, todo, starting, alarms, hops, boundVars, crossed, asserted>>
     \/ /\ node[Coord].state # "resolution" /\ ~node[Coord].conflict
        /\ NetworkUpdate(TRUE)

\* zb_panid_conflict_send_nwk_update broadcasts what new_panid is by now.  (The status
\* indication it asks a buffer for changes nothing here: the manager never sets its own
\* panid_conflict.)
SendNwkUpdate ==
  /\ todo[Coord]["update"] > 0
  /\ air' = air \cup {[kind |-> "update", to |-> r, pan |-> node[Coord].pan, ch |-> node[Coord].ch,
                       new |-> node[Coord].new, of |-> picked] : r \in Routers}
  /\ todo' = Run(todo, Coord, "update")
  /\ UNCHANGED <<formVars, node, starting, alarms, hops, boundVars, history>>

-----------------------------------------------------------------------------
(* Hearing of a conflict. *)

\* A beacon of another network with our PAN id, when we are joined
\* (zb_mlme_beacon_notify_indication).  The manager does not look at its state.
ManagerHearsRival ==
  /\ joined = "yes" /\ node[Coord].pan \in Rivals
  /\ NetworkUpdate(FALSE)
  /\ UNCHANGED air

Changing(n) == \E a \in alarms : a.at = n

\* A router remembers the conflict and reports it after a while, once until it is
\* resolved (zb_panid_conflict_schedule_network_report).  If an update is already
\* there, with its conflict reported to the application, new_panid is overwritten.
RouterHearsRival(r) ==
  /\ joined = "yes" /\ node[r].pan \in Rivals
  /\ ~node[r].conflict
  /\ node' = [node EXCEPT ![r].conflict = TRUE, ![r].new = 0]
  /\ todo' = Schedule(todo, r, "report")
  /\ crossed' = (crossed \/ Changing(r) \/ todo[r]["set"] > 0)
  /\ UNCHANGED <<formVars, starting, alarms, hops, air, boundVars, missed, asserted>>

\* Mutant: a report is taken for superseded by the conflict it is about.
Superseded_Any(r) == node[r].conflict

Superseded(r) == node[r].conflict /\ node[r].new # 0

\* zb_panid_conflict_send_network_report.
SendNetworkReport(r) ==
  /\ todo[r]["report"] > 0 /\ Idle(r)
  /\ todo' = Run(todo, r, "report")
  /\ air' = IF Superseded(r) THEN air
            ELSE air \cup {[kind |-> "report", from |-> r, pan |-> node[r].pan, ch |-> node[r].ch]}
  /\ UNCHANGED <<formVars, node, starting, alarms, hops, boundVars, history>>

-----------------------------------------------------------------------------
(* Changing over. *)

\* Mutant: the PAN id is taken only by those who noticed the conflict.
Announced_IfConflict(n, m) == IF node[n].conflict THEN m.new ELSE node[n].new

Announced(n, m) == m.new

\* zb_panid_conflict_network_update_recv.  (The update id, which is counted down for
\* zb_nwk_update_beacon_payload to count up, is left out: nothing here depends on it.)
RecvNwkUpdate(m) ==
  /\ m \in air /\ m.kind = "update" /\ InPan(m, m.to)
  /\ air' = air \ {m}
  /\ node' = [node EXCEPT ![m.to].new = Announced(m.to, m)]
  /\ todo' = Schedule(todo, m.to, "status")
  /\ alarms' = alarms \cup {[at |-> m.to, of |-> m.of]}
  /\ crossed' = (crossed \/ \E a \in alarms : a.at = m.to /\ a.of > m.of)
  /\ UNCHANGED <<formVars, starting, hops, boundVars, missed, asserted>>

\* zb_panid_conflict_send_status_ind.
SendStatusInd(n) ==
  /\ todo[n]["status"] > 0
  /\ todo' = Run(todo, n, "status")
  /\ node' = [node EXCEPT ![n].conflict = FALSE]
  /\ UNCHANGED <<formVars, starting, alarms, hops, air, boundVars, history>>

\* The alarm rings after the broadcast delivery time (9 ticks), when the callbacks
\* scheduled with it ran long ago and the announcement has reached everybody or nobody.
Delivered(k) ==
  /\ todo[Coord]["update"] = 0
  /\ ~ \E m \in air : m.kind = "update" /\ m.of <= k

\* zb_panid_conflict_set_panid_alarm asks for a buffer.
SetPanIdAlarm(a) ==
  /\ a \in alarms /\ Idle(a.at) /\ Delivered(a.of)
  /\ \A b \in alarms : b.at = a.at => a.of <= b.of
  /\ alarms' = alarms \ {a}
  /\ todo' = Schedule(todo, a.at, "set")
  /\ UNCHANGED <<formVars, node, starting, hops, air, boundVars, history>>

\* zb_panid_conflict_set_panid starts the device with new_panid on its channel.
SetPanId(n) ==
  /\ todo[n]["set"] > 0
  /\ todo' = Run(todo, n, "set")
  /\ starting' = [starting EXCEPT ![n] = Append(@, [pan |-> node[n].new, ch |-> node[n].ch])]
  /\ node' = [node EXCEPT ![n].conflict = FALSE, ![n].state = "resolution"]
  /\ UNCHANGED <<formVars, alarms, hops, air, boundVars, history>>

-----------------------------------------------------------------------------
(* Another channel. *)

\* zb_zdo_mgmt_nwk_update_req of the application of the manager, with one channel.  An
\* earlier change may still be under way.
AskChannel(c) ==
  /\ joined = "yes" /\ picked + asked < MaxChanges /\ asked' = asked + 1
  /\ hops' = hops \cup {[at |-> Coord, ch |-> c, of |-> asked']}
  /\ air' = air \cup {[kind |-> "channel", to |-> r, pan |-> node[Coord].pan, ch |-> node[Coord].ch,
                       new |-> c, of |-> asked'] : r \in Routers}
  /\ UNCHANGED <<formVars, node, todo, starting, alarms, picked, history>>

\* zb_zdo_mgmt_nwk_update_handler.
RecvChannel(m) ==
  /\ m \in air /\ m.kind = "channel" /\ InPan(m, m.to)
  /\ air' = air \ {m}
  /\ hops' = hops \cup {[at |-> m.to, ch |-> m.new, of |-> m.of]}
  /\ crossed' = (crossed \/ \E h \in hops : h.at = m.to /\ h.of > m.of)
  /\ UNCHANGED <<formVars, node, todo, starting, alarms, boundVars, missed, asserted>>

\* zb_zdo_new_channel_cb, after the same delivery time and in the order of the alarms.
NewChannel(h) ==
  /\ h \in hops /\ Idle(h.at) /\ ~ \E m \in air : m.kind = "channel" /\ m.of <= h.of
  /\ \A g \in hops : g.at = h.at => h.of <= g.of
  /\ hops' = hops \ {h}
  /\ node' = [node EXCEPT ![h.at].ch = h.ch]
  /\ UNCHANGED <<formVars, todo, starting, alarms, air, boundVars, history>>

-----------------------------------------------------------------------------
PanIdInit ==
  /\ form = {} /\ joined = "no"
  /\ \E p \in Presets :
       node = [n \in Nodes |-> [pan |-> IF n = Coord THEN p ELSE 0, ch |-> FirstChannel, new |-> 0,
                                conflict |-> FALSE, state |-> "idle"]]
  /\ todo = [n \in Nodes |-> [f \in Functions |-> 0]]
  /\ starting = [n \in Nodes |-> << >>]
  /\ alarms = {} /\ hops = {} /\ air = {}
  /\ picked = 0 /\ asked = 0
  /\ missed = FALSE /\ crossed = FALSE /\ asserted = FALSE

Form ==
  \/ \E mask \in (SUBSET Channels) \ {{}} : FormationRequest(mask)
  \/ \E quiet \in SUBSET Channels : EdScanConfirm(quiet)
  \/ SelectChannel

Receive ==
  \E m \in air : GotNetworkReport(m) \/ RecvNwkUpdate(m) \/ RecvChannel(m) \/ Miss(m)

Hear == ManagerHearsRival \/ \E r \in Routers : RouterHearsRival(r)

Ring == (\E a \in alarms : SetPanIdAlarm(a)) \/ (\E h \in hops : NewChannel(h))

FunctionCalled(n) ==
  \/ MlmeStart(n) \/ StartConfirm(n) \/ SetPanId(n)
  \/ n \in Routers /\ (SendNetworkReport(n) \/ SendStatusInd(n))
  \/ n = Coord /\ SendNwkUpdate

PanIdNext ==
  /\ ~asserted /\ ~missed
  /\ \/ Form \/ Receive \/ Hear \/ Ring
     \/ \E n \in Nodes : FunctionCalled(n)
     \/ \E c \in Channels : AskChannel(c)

\* Frames arrive or are lost, alarms ring, callbacks are called; nobody has to
\* form a network, to hear another one or to ask for a channel.
PanIdSpec ==
  /\ PanIdInit /\ [][PanIdNext]_panIdVars
  /\ WF_panIdVars(Receive /\ ~asserted /\ ~missed) /\ WF_panIdVars(Ring /\ ~asserted /\ ~missed)
  /\ \A n \in Nodes : WF_panIdVars(FunctionCalled(n) /\ ~asserted /\ ~missed)

-----------------------------------------------------------------------------
(* Properties. *)

PanIdTypeOK ==
  /\ form \subseteq Channels
  /\ joined \in {"no", "yes", "failed"}
  /\ node \in [Nodes -> [pan : AllPans, ch : FirstChannel .. LastChannel, new : AllPans,
                         conflict : BOOLEAN,
                         state : {"idle", "ed scan", "active scan", "formation", "resolution"}]]
  /\ todo \in [Nodes -> [Functions -> Nat]]
  /\ alarms \subseteq [at : Nodes, of : 1 .. MaxChanges]
  /\ hops \subseteq [at : Nodes, ch : Channels, of : 1 .. MaxChanges]

\* A router that keeps still about further conflicts does so only for a while: its report,
\* or the update of another conflict, ends that.  One frame that is
\* lost, or a report ignored, may silence it for ever.
ConflictEnds ==
  \A r \in Routers : node[r].conflict ~> (~node[r].conflict \/ missed \/ asserted)

Settled ==
  /\ joined = "yes" /\ alarms = {} /\ hops = {} /\ air = {}
  /\ \A n \in Nodes : starting[n] = << >> /\ \A f \in Functions : todo[n][f] = 0

\* Once all changes are over the devices are on one channel under one PAN id, however the
\* reports, the updates, the alarms and a change of channel interleave, unless a frame was
\* missed, or a device heard of another conflict in the middle of a change (it then starts
\* with PAN id 0).
OnePan ==
  Settled /\ ~missed /\ ~crossed =>
    \A n \in Nodes : node[n].pan = node[Coord].pan /\ node[n].ch = node[Coord].ch

=============================================================================
