# A verification project for the ZBOSS ZigBee stack

This directory holds TLA+ models of the ZBOSS stack in `src/`, the TLC
configurations that check them and TLAPS proofs about them. `PROJECT.json` lists
the components, the runs, one mutant per checked property, the source lines of
every definition (`map`), the hazards of the code and the theorems.

Contents: 1 the system, 2 the modules, 3 how state and actions correspond to the
code, 4 the runs, 5 the proofs, 6 what the code does that its comments do not
say, 7 what is only model-checked, 8 what is not modelled.

## 1. The system

ZBOSS is a ZigBee PRO stack for 8-bit microcontrollers, also built for Linux
where nodes talk to a network simulator through pipes. It is one cooperative
program: a main loop (`zdo_main_loop`) calls `zb_sched_loop_iteration` for
ever, and every layer is a set of callbacks that schedule one another. A packet
lives in one buffer that is passed from callback to callback as a one-byte
reference. Real concurrency is an interrupt handler of the timer (8051) and the
radio. Everything else that can go wrong in time is the order of callbacks,
alarms, radio completions and frames.

| Component | State | Operations | Talks to | What makes it correct |
|---|---|---|---|---|
| Scheduler (`common/zb_scheduler.c`) | `cb_q`, `tm_queue`, `tm_freelist`, `mac_tx_q` | schedule callback, alarm, cancel, TX callback; the loop | everybody | nothing is lost, alarms in order and not early, all are served |
| Time (`zb_time.h`, osif) | `timer`, `timer_stop`, `started`, the hardware timer | start, stop, interrupt, wait for I/O | scheduler | arithmetic across overflow; the timer never sleeps through an alarm |
| Buffer pool (`common/zb_bufpool.c`) | free stack, counts per direction, two queues of waiters | get, get delayed, free; headers and parameters in a buffer | scheduler, MAC reception | one owner per buffer; input and output cannot starve each other; a layer finds what the one before it left |
| Address table (`common/zb_address.c`) | entries, hash order, sorted index of short addresses | by IEEE, by short, update, lock, unlock, delete | NWK, APS, ZDO, security | one entry per device and per address; the index is sound |
| MAC (`mac/`) | `tx_wait_cb`, `tx_cnt`, `pending_buf`, pending queue, pending bit, scan and association flags | data, data request, association, beacon, scans, orphan realignment, start | scheduler, radio, NWK | transmissions do not overlap; indirect frames reach the right device once or time out |
| NWK (`nwk/`) | neighbor, routing, discovery, broadcast and pending tables, join state | forward, route request/reply, broadcast, join, rejoin, leave, form, PAN id conflict | MAC, APS, ZDO | a waiting frame is kept once and ends, tables in step with each other, a join ends, one PAN |
| APS (`aps/`) | retransmission table, `ack_q`, duplicate clocks, binding and group tables | data request, acknowledgement, timer, duplicates, bind, groups | NWK, AF | confirmed once, and with success only what was delivered; tables are sets |
| ZDO (`zdo/`) | outstanding requests, pending leaves, poll alarm, end device bind slots | discovery, management, bind requests, start and rejoin | APS, NWK | an answer reaches the request it answers; the device leaves if and only if asked |
| Security (`secur/`) | keys, frame counters, authentication | secure, unsecure, transport, update and switch of keys, CCM* | NWK, APS, MAC | a number names one key; counters do not go back; a frame that was hit is refused |
| Radio drivers, osif | registers, interrupt flag | send, receive, interrupt | MAC | only the start of a transmission and its interrupt matter here |

Layers interact in four ways: a callback on `cb_q`; an alarm; a direct call; and
global context (`MAC_CTX().pending_buf`, `status_ind`, `ack_buf`, ...) that one
callback writes and a later one reads. The hard behaviours follow from that: the
same list is touched by a handler and by the loop that walks it; a callback runs
after the state it was scheduled for has changed; an alarm races the event it
guards against; a table or ring is full and nobody looks at the result; a buffer
has two owners or none; 16-bit time and 8-bit numbers wrap; frames come late,
twice or never. `PROJECT.json` lists these hazards line by line with the
properties that would catch them. Hazards of the same kind at further places are
left out of that list: the globals of route discovery
(`nwk_cr_mesh_routing.c:288`, `:485`, `nwk_main.c:901`), `nwk_main.c:1629`,
`zdo_nwk_manage_srv.c:522` and the result of a full callback ring
(`zb_scheduler.c:122`).

## 2. Modules

| Module | Models | Run | Proofs |
|---|---|---|---|
| `ZbTime`, `ZbSched` | `include/zb_time.h`, osif timers; `zb_scheduler.c` | `sched` | `ZbSched_proofs` |
| `ZbBufPool` | buffer pool, hand-over to waiters, reception into buffers | `common` | `ZbCommon_proofs` |
| `ZbFrame` | the way of a frame through its buffer, layer by layer | `mesh` | `ZbNwkRouter_proofs` |
| `ZbAddress` | IEEE/short address table | `common` | |
| `ZbDiscTables` | extended PAN ids, manufacturers, extended neighbors | `common` | |
| `ZbLists`, refines `ZbQueues` | `include/zb_list_macros.h` | `common` | |
| `ZbMacTx` | transmit side of a coordinator's MAC | `mac` | `ZbMacTx_proofs` |
| `ZbMacScan` | MAC scans (EXTENDed by `ZbNlme`) | `nlme` | |
| `ZbMacOrphan` | orphan scan, realignment, MAC command headers | `common` | `ZbCommon_proofs` |
| `ZbNwkMesh` | unicast forwarding and mesh routing | `mesh` | `ZbNwkRouter_proofs` |
| `ZbNwkBroadcast` | broadcast transactions and retransmission | `bcast` | `ZbNwkBroadcast_proofs` |
| `ZbNwkParent` | a parent: children, neighbor table, permission | `parent` | `ZbNwkRouter_proofs` |
| `ZbNlme` | a child: discovery, association, rejoin, polling, the ZDO around it | `nlme` | |
| `ZbNwkPanId` | formation, PAN id conflict, change of channel | `panid` | `ZbNwkBroadcast_proofs` |
| `ZbAps`, refines `ZbApsService` | APSDE-DATA between two devices | `aps` | `ZbAps_proofs` |
| `ZbApsBind`, `ZbZdoBind`, refine `ZbBindings` | binding tables, end device binding | `bind` | `ZbAps_proofs` |
| `ZbApsGroups` | group table, frames to the endpoints of a group | `common` | |
| `ZbZdoTran`, `ZbZdo` | ZDO transactions, management leave | `zdo` | `ZbZdo_proofs` |
| `ZbKeys` | network keys, frame counters, authentication | `keys` | `ZbKeys_proofs` |
| `ZbCcm` | CCM* in three builds and how the layers use it | `common` | |

Components are composed by EXTENDS where they share state (`ZbSched` on `ZbTime`,
`ZbNlme` on `ZbMacScan`, `ZbZdo` on `ZbZdoTran`, `ZbZdoBind` on `ZbApsBind`) and by
INSTANCE where one implements the other. `MCCommon` puts the data structures that
share nothing beside each other: its initial state chooses one `part`, which runs
while the others rest, and each invariant speaks of its part. In the same way
`MCNwkMesh` puts beside the mesh routing of a router (`ZbNwkMesh`) the way of a frame
that passes it (`ZbFrame`). The other `MC...` modules only give constants their values.

Every module is parameterised by constants with named assumptions. A definition
called `X_Something` with the comment "Mutant" is a wrong variant of `X` that a
plausible bug would give; no specification uses it, and every checked property is
violated when it is put in the place of `X`.

## 3. State and actions

In every module one action is one callback, one alarm, one interrupt or one call
from another layer, with everything the handler calls in it. Callbacks and alarms
are served in any order unless a module keeps the queue. States in which the code
has failed an assertion, used memory that is not its own or confirmed a freed
buffer are named (`broken`, `fault`, `asserted`, `crossed`, `raced`) and not followed
further; section 6 says how each comes about.

**ZbSched.** `cb_q` is the ring of callbacks; its head stays in place while it is
called. `tm_queue` is the alarm list. Its field `left` is a history value, the true
number of ticks until the alarm is due. `tm_free` is the length of the free list.
`pc` is where `zb_sched_loop_iteration` is; the operations that read the timer and
change several words go through stages, because the timer interrupt can come
between. User code in `mac`, `cb` and `alarm` makes any sequence of API calls.
`platform` is chosen at the start: on the 8051 `Tick` is the interrupt (with
`TornReads` it splits the 16-bit read), in Linux the wait advances the timer by what
`select()` slept. `CanAge` is the assumption of `zb_time.h` ("time values will not
differ to more then 1/2 of the maximum"): an alarm is served at most `MaxLate` ticks
late and a pass takes at most `MaxPass` ticks after it read the timer.

**ZbBufPool** follows every buffer from owner to owner: `free`, an entry of `cb_q`,
the code (`held`), or nobody (`lost`). `zb_free_buf` is one action with the
re-allocation and the hand-over to a waiter in it. Reception is split at
`zb_mac_recv_data`, which runs other code before `rx_need_buf` is cleared.
`zb_mac_init` keeps `OutReserved + InReserved` buffers for good. `HeaderSurvives`
says whether the link `u.next` overlays the direction bit of the header: with
pointers of four bytes or less it does not.

**ZbFrame** keeps, of a buffer, its extent, the parameter at its tail, and what
headers and trailers lie around the payload. One frame goes from the application
down, back to the sender or up at a receiver; `harm` collects what a handler does
wrong to it. Premise (`Fits`): no layer checks the length of the payload.

**ZbAddress.** The table with `Hash` and `Probed`, the sorted index `short_sorted`
with the unused slot behind it that `del_short_sorted` reads, and the lock counts.
`churn` remembers that something left the index.

**ZbDiscTables.** The table of extended PAN ids (an open hash, never cleared), the
manufacturers, the extended neighbors a beacon fills, and the descriptors made of
them; networks change their PAN ids meanwhile.

**ZbLists.** `next`, `prev` and the heads; `Walk` reads the sequence a head leads
to, which is the refinement mapping to `ZbQueues`.

**ZbMacTx.** `mac_tx_q` feeds the transmitter when `tx_wait_cb` is clear; `tx_cnt` is
the interrupt's report; `air` is what the radio still has to send. `sent` and `raced`
are history: the context a data request was answered with, and that it was finished
with another one; `unsent`: that it waits for a frame that was not sent. The build is that of a UZ2400 (acknowledgement and retries in the
radio), the device a coordinator with a beacon payload, the alarm table has room.

**ZbMacOrphan.** The parameters of the realignment are a union over the response
they are made from: `Overwritten` depends on the `layout` of the build. The headers
of all commands are written by `FillMhr` and read by `ParseMhr`.

**ZbNwkMesh.** `loc` says where each frame's buffer is. Route requests and replies of
others come at any time. Path costs are abstracted: whether a path is better is left
open. **ZbNwkBroadcast.** The tables `btt` and `brrt`, the frames that wait for a second
buffer, and the callback, buffer request or alarm that goes on with them.

**ZbNwkParent.** `addr` is the address table without its sorted index, `base_neighbor`
with `addr_to_neighbor` the neighbor table; `Packing` is the compaction, one `PackStep`
per place; `HasPlace` is the growth of the base table while it is refilled. Devices ask,
leave and send what they like. The capability "allocate address" is always set.

**ZbNlme.** The child with two possible parents, on the callback queue, alarms and
`pending_buf` of `ZbMacScan`. Beacons are atomic, alarms a set, security off.

**ZbNwkPanId.** `node` has PAN id, channel and conflict state of each device; `todo`,
`alarms`, `hops` and `air` are what is scheduled, timed and sent. `missed` is history
for a lost frame; `crossed` is history for two changes of one device in the wrong order.
Alarms of a device ring in the order of the requests they are for. Premise (`Delivered`): a broadcast reaches the routers before its
delivery time is over.

**ZbAps.** A sender with its retransmission table, a receiver with its duplicate
table, and a network that loses, delays, reorders and copies. Refinement mapping to
`ZbApsService`: a request is what its `result` says. A frame may be `"forgotten"`: the MAC
let it expire and never confirms it. `doubtful` is history: requests whose number another
one took or has, and those without a binding, which the code confirms as successes.

**ZbZdoTran, ZbZdo.** Transactions by a one-byte number; `age` counts the numbers taken
since. Leave requests with `pending_list` and the two global flags; `crossed` says that
two leaves came in a way the flags cannot tell apart.

**ZbZdoBind.** The coordinator's two slots and the chain of bind and unbind requests to
two devices with binding tables of `ZbApsBind`. Refinement mapping to `ZbBindings`: the
pairs that source and destination tables together stand for.

**ZbApsGroups.** The input half of the pool, the queue of group frames and the one
chain of callbacks that passes them to endpoints.

**ZbKeys.** A key is the number under which the trust center made it. Frames wait
unsecured in `pend` (in any order) and travel in order on each link. `late` is history:
devices whose active key was overwritten by another.

**ZbCcm.** A byte is the set of the atoms whose XOR it is, AES maps blocks to atoms of
their own: two computations agree exactly if they do for every cipher.

## 4. Runs

| Run | Instance | Shows |
|---|---|---|
| `sched` | timer mod 10, two alarm entries, ring of 1, delay 1, one tick late; 8051 and Linux | `EntriesConserved`, `QueueInDueOrder`, `NoEarlyAlarm`: no entry lost, the alarm list in due order across overflow, no early alarm; `EverythingServed`: alarms and callbacks are served although the timer switches itself off and the radio's interrupt breaks off phases of the loop for ever |
| `common` | the sizes in `ZbCommon.cfg`, seven parts | `TablesRight` (address and discovery tables), `PoolRight`, `ImplementsQueues`, `CodecsRight`, `GroupsRight`, `OrphansRight` |
| `mac` | 3 buffers, 2 slots, TX queue of 2, one polling and one associating device | `BuffersSound`: one place per buffer, a timeout per pending frame, pending bit; `TransmissionsRight`: a completion is the own one, the right frame for the device; `TxNeverStuck` |
| `aps` | 2 requests and any number of other frames, 2 entries, 2 retries, counter mod 2, one extra copy | `TableSound`, `RequestEnds`, `ImplementsService`: success only for what the peer has seen, or a request that is `doubtful` |
| `mesh` | 2 frames, tables of 2, 1 pending entry; payloads of five lengths, 2 hops, 2 retransmissions | `WaitingSound`, `FrameEnds`; `FrameRight`: headers, trailers and parameters are found where they were left |
| `bcast` | 2 buffers, an own and a relayed frame, an end device and a router as neighbors, a leave | `RetransmissionSound`, `BroadcastEnds` |
| `parent` | 1 end device with several addresses, table of 4 and 2 extended entries, 1 child, 2 rejoins under way | `ChildrenSound`, `PermitAlarmOwn` |
| `nlme` | end device or router, 2 parents, 1 channel, 2 attempts, 1 disturbance | `JoiningSound`, `RejoinEnds`, `Announced` |
| `zdo` | 3 requests, tsn mod 2, 2 leave buffers | `AnswerIsForRequest`, `PendingIsUnderWay`, `LeavesAsAsked` |
| `bind` | 3 devices, 6 bind requests, tables of 2 and 3, 1 request of others | `OneAnswerInTime`, `TablesAreSets`, `SessionToggles`, `SlotsFreed` |
| `panid` | coordinator, router, a rival PAN, 2 changes | `OnePan`, `ConflictEnds` |
| `keys` | trust center, router, end device that restarts; 1 switch, 3 joins | `KeysSound`, `CountersGrow`, `AuthEnds` |

All runs pass. Each definition of a property is preceded by a comment that says
what it means and what would go wrong without it.

**Why the bounds are enough.** *sched*: the timer needs room for a delay, lateness and
a pass below half of its range, and must overflow many times: 10 does. Two alarms are
the least that have an order; every insertion case needs two entries at most. *common*:
three circulating buffers (six less the reserved) bring each direction to its limit
while the other is not, two waiters fill the waiter pool; two long addresses collide in
the hash, and an index of three entries has binary search at the sizes 0 to 3 and an
entry behind the deleted one; four elements give a list a head, a tail and two between;
header and text lengths below, at and
above a block; a group queue that is full and one that is not. *mac*: two slots and
three buffers let one slot expire, one be fetched and a third request arrive. *aps*: two
entries and two buffers let a late acknowledgement meet another frame's entry; frames for
other devices take numbers as well, so that the counter comes round with a request under way. *mesh*,
*bcast*: tables and waiters are full with two frames; payloads go from empty to the
longest that fits a frame. *parent*: a table of four has a
hole between two entries and is cut for two extended entries, so that the second finds
the place that the first has left; a device has an address from here and one from
elsewhere.
*nlme*: a second parent is needed to credit an answer to the wrong one. *zdo*: numbers
wrap after two, three leaves cross in every way. *bind*: two pairs that match, a third
device, a bad endpoint. *panid*: two changes overlap. *keys*: the tree is a line, so that
frames are relayed; one switch, since the code is right for the first only.

**Deadlock.** The systems may stop when no request is left (bounds), when the device has
failed (terminal states above) or, for tables, when they are full; these configurations
switch the check off. `sched` checks for it.

**Fairness.** Callbacks and alarms that are due are served (weak): what `sched`
establishes for the loop. `ZbSched`: a call in progress and the loop proceed (weak), user
code called by the loop returns after finitely many API calls (strong, because it may
make calls in between), a running hardware timer ticks (weak), waiting for I/O takes
time again and again (strong). The radio may interrupt for ever: the premise of
`EverythingServed` is that, if callback (alarm) phases are broken off again and again, some
callback (alarm) is called again and again (`SomeCallbacksRun`, `SomeAlarmsRun`), and for
alarms `Quiet`, that the ring of callbacks becomes empty again and again, as
`zb_scheduler.h` assumes. `ZbMacTx`: the main
loop is called in each pass, and the radio ends every transmission that was started.
`ZbAps`: the network layer confirms a frame or forgets it (an indirect frame that expires
is never confirmed), acknowledgement timers ring, requests and confirms
are called, and an address that is found is reported (four weak conditions).
`ZbNwkMesh`: forwarding and the expiry of pending entries. `ZbNwkBroadcast`: forwarding,
confirms, buffers, calls, alarms. `ZbNlme`: scans, starting, polling, transmissions, the
rejoin timer. `ZbZdo`, `ZbZdoBind`: the handlers of leaves and of bind requests, and the
minute of the first bind request. `ZbNwkPanId`: reception, timers and callbacks of each
node while no frame is missed. `ZbKeys`: frames that wait are sent and received. Nothing
is assumed of the arrival of frames from outside. Where the code itself may wait for
ever, the liveness property says so in its premise: `RequestEnds` (the address of a bound
peer is found, its frame is not forgotten, its number is not used twice), `TxNeverStuck` (a
frame that cannot be encrypted is not the first of all), `FrameEnds` (route replies end), `RejoinEnds` (beacons end, the receiver
is on), `SlotsFreed` (no request lost), `AuthEnds` (the device follows the updates).

## 5. Proofs

The provers check every theorem for all values of the constants that satisfy the
named assumptions of the modules (`SchedAssumption`, `ApsAssumption`, ...; TLC evaluates
the same assumptions for the instances of section 4). They say what the code's
configuration guarantees: sizes are positive, a buffer is not "no buffer", sets of
devices are not empty, a table has finitely many entries. No assumption bounds the
number of requests, buffers, devices or operations, except where a theorem says so.

Each proof module has one inductive invariant, one lemma per action that preserves
it, and theorems that follow. Histories after the code has failed (`broken`, `fault`,
`raced`, `crossed`) are part of the invariant: it says what still holds there.

| Theorem | States | Argument |
|---|---|---|
| `ZbSched_proofs.SpecIInv` | the invariant of the scheduler | types; `Timed`: what the stored times are with respect to the timer, for every stage of an operation and of an interrupt in it; `CopyOfTimer`: a copy in progress is at most a pass old; `Calls`: which entry is called |
| `.SpecTypeOK`, `.SpecEntriesConserved`, `.SpecQueueInDueOrder` | `EntriesConserved`, `QueueInDueOrder` | from it. The timer is modular, of any width |
| `.SpecNoEarlyAlarm` | `NoEarlyAlarm`, where reads are not torn | the stored time of the head is the true one |
| `.TimeGeIsDistance` | `ZB_TIME_GE` compares right up to half the range | arithmetic of `%` |
| `ZbAps_proofs.SpecIInv`, `.SpecTableSound` | `TableSound` | every buffer in use is in one place, every entry has a buffer of its own and one alarm (`BufferOwned`, `EntrySound`, `OneEntry`) until the stack breaks |
| `.BindSpecOneAnswerInTime` | `OneAnswerInTime` | `BindInv`: which of the two slots are in use decides whose minute is counted and whether the chain of bind requests is under way; who is in a slot is not answered yet |
| `.SpecImplementsService` | `ImplementsService`, however often the counter wraps | `Served`: the requests that are not doubtful and share a number are not under way together, what was sent was asked, what is acknowledged was delivered and what was seen stays in the duplicate table; each step maps to a step or a stutter of `ZbApsService` |
| `ZbMacTx_proofs.SpecIInv`, `.SpecBuffersSound`, `.SpecTransmissionsRight` | `BuffersSound`, `TransmissionsRight` | a buffer has one place, and a data request in progress the context it was answered with; after a race on the context (`raced`) only slots and alarms are in step |
| `ZbNwkRouter_proofs.SpecIInv`, `.SpecWaitingSound`, `.MCSpecWaitingSound` | `WaitingSound` | `HeldOnce`: a waiting frame is in one place; `OneExpiryChain`: one alarm or callback walks the table of discoveries |
| `.SpecFrameRight` | `FrameRight` | `OnItsWay`: before each handler, which headers and trailers lie around the payload, that they begin where there is room for what is still to come (offset and length together at most 131 of 148 bytes), and whose parameters are at the tail; `Told`: the frame fits one frame of the radio. The sizes by which a header is filled are the sizes by which it is read, for all formats. Harm comes only with its excuse: a confirm for a frame that was never sent (`FrameRight` names the two cases) |
| `.ParentSpecChildrenSound` | `ChildrenSound`, until `fault` | `AddrOK`: the address table has one entry per device and per router heard, so that a free one is found (the address map has room for them all, `ParentAssumption`); `IndexOK`: used places lie below `base_used`, each is named by its address and no other; `PackingOK`: while a slot is packed, as many places below it are free as were counted, so that an entry moves to a free place and the index with it; `MovingOK` the same for the refilling: `PlaceInside`: a base table that has not outgrown its memory after all entries has not on the way, whatever the sizes of the entries |
| `.ParentSpecPermitAlarmOwn` | `PermitAlarmOwn`, always | is inductive |
| `ZbNwkBroadcast_proofs.SpecIInv`, `.SpecRetransmissionSound` | `RetransmissionSound` | `BttFits`, `Kept`, `Waits`: a kept frame is kept by one entry; `ChainsAlive`: while entries or waiters exist, something is scheduled that goes on with them |
| `.PanIdSpecInv`, `.PanIdSpecOnePan` | `OnePan` | `Forming`: until the network is formed only the coordinator acts and nothing is on the air; `OnePanId`: the manager has still to announce its last choice, or each device is `Heading` for it: its frame is on the way, its alarm is set, or it has the id, is about to start with it, or will; `OneChannel`, `Hopping` the same for the channel; `StartsThere`: a start does not undo a hop |
| `ZbZdo_proofs.SpecIInv`, `.SpecAnswerIsForRequest` | `AnswerIsForRequest`, only as long as no open request is as old as the range of the numbers (`Fresh`): one request that is never answered and `TsnMod` later ones end that, however few are open | answers on their way have numbers taken less than a wrap ago |
| `.SpecPendingIsUnderWay`, `.SpecStaysUnlessAsked` | `PendingIsUnderWay`; a device leaves only for a leave of its own | the two global flags stand for one leave until two cross. The second is for a device whose application did not ask a child to leave; without these premises it is false |
| `ZbKeys_proofs.SpecIInv`, `.SpecKeysSound`, `.SpecCountersGrow` | `KeysSound`, `CountersGrow`, for any tree of depth two | `TcKeeps`, `OneSwitch`, `TcNumber`: what keys the trust center keeps before and after the switch; `KeysRight`: so do all frames and devices; `Routes`: a frame comes from where its receiver's parent is |
| `ZbCommon_proofs.SpecPoolInv`, `.SpecPoolKept` | one owner per buffer, counts, no waiter for an output buffer is kept waiting without need | `CountOK`: the counts are those of the buffers handed out per direction; `OwnOK`: the stack, the ring and the code share the buffers out; `WaitOK`, `NoLateWakeup`: who waits, and only when the direction is at its limit |
| `.SpecPoolRight` | `PoolRight`, under the premise `PoolRoom` only | with `HandInv`: a woken waiter is in the ring with its buffer. `PoolRoom`: the ring has a place for each circulating buffer, no callback without a buffer is scheduled, which the code does, and the header survives on the free list. This is `ZB_SCHEDULER_Q_SIZE = ZB_IOBUF_POOL_SIZE` with at least one buffer reserved |
| `.SpecOrphansRight` | `OrphansRight` | `QueueAgrees`, `WaitAgrees`: transmit queue, transmitter and buffers name each other; `ParamsRight`: a buffer on its way says whose it is, and its child's address, before and (where the layout leaves it alone) after the parameters are written over it; `ReadAsMeant`: a header whose addresses have the length its modes say is read back, for all modes |
| `.SpecGroupsRight` | `GroupsRight` | `GroupCounts`: as many callbacks are scheduled or wait as there are frames for them, and a buffer in use is carried by a call, queued or active; `GroupPlaces`: a frame is in one place and, until the chain takes it, was passed to nobody; `GroupPassed`: what was passed and what was due are the first endpoints of the group, which only grows |

Four points of these proofs are of use to whoever changes the code.

* The strengthened invariants name what the handlers rely on and do not check: that the
  alarm of an acknowledgement is cancelled where the entry is freed (`EntryAt`), that only
  one chain walks a table (`OneExpiryChain`, `ChainsAlive`), that no late wakeup comes
  through the waiters of the other direction (`NoLateWakeup`).
* `PoolRoom` is needed: with a ring shorter than the buffers in use, or with callbacks
  that have no buffer, `zb_schedule_callback` returns an error that `zb_free_buf` ignores,
  and the buffer is lost.
* Packing and refilling are recursive functions over the slots. That each step keeps the
  table is a lemma; that all steps do is proved from a first slot where it would fail,
  because the library's induction rules cannot be instantiated by the provers.
* The parts of `MCCommon` and of `MCNwkMesh` share no variable, so that their proofs take
  the step of one part whatever `part` is: the theorems hold for each component alone.

Invariants that hold only until something goes wrong say so in the definition of the
property (section 6 lists what goes wrong), and the proofs keep that premise.

## 6. What the code does that its comments do not say

Met while modelling; the properties are stated so that they hold in spite of it, and
say so in their premises.

*Scheduler.* In Linux, `timer_stop` equal to the current time is not replaced
(`zb_time.c:64`), so that the loop may sleep past the next alarm. On the 8051 a torn read
of the timer (`zb_time.h:87`) makes an alarm run early; `NoEarlyAlarm` is for reads that
are not torn.

*Buffers.* Waiters for input buffers are forgotten while reception needs a buffer
(`zb_bufpool.c:232`; `zb_bufpool.h` says "schedule callback later, when buffer will be
available"). On a 64-bit host the free-list link covers the direction bit and a buffer
that is freed counts as output. An indirect frame that cannot be encrypted is
confirmed as if it had been sent, without FCS, and in a simulator build the confirm cuts
two bytes of payload (`mac_cr_data.c:305`); the confirm to a device that is not joined cuts
headers the frame never had.

*Address table.* `del_short_sorted` reads and moves one slot too many
(`zb_address.c:704`), so that the index is complete only until something leaves it.
`zb_address_set_pan_id` keeps the short PAN id a network was first heard with; the tables
of a discovery are never cleared; a full table of manufacturers is `ZB_ASSERT(0)`. The
pooled list macros (`ZB_POOLED_LIST8`) confuse index and truth value; nothing uses them.

*MAC.* The context of a data request is shared with every handler that sets
`pending_buf` (`mac_cr_data.c:413`, `mac_data.c:713`); after such a race buffers have two
owners or none (`raced`). A frame that cannot be encrypted is forgotten when it is sent at
once (`mac_data.c:602`); an indirect one is waited for although nothing was sent, and is
confirmed as soon as `tx_cnt` is set, by whatever transmission (`unsent`). `MAC_CTX().out` is never read (`mac_routines.c:425`). Expired
pending frames are reported as failures and their buffers never come back. Commands that
are malformed or not supported leak their buffer. The realignment of an orphan writes the
PAN id over the high byte of the short address on Linux; a realignment that is not
acknowledged leaks its buffer; the orphan scan goes on after the realignment against its
comment (`mac_scan.c:398`); the realignment of a restarted router goes to an address
nobody wrote.

*NWK.* `aps_rreq_addr` survives a failed discovery; a route reply confirms the waiting
APS frame and then frees its buffer; a failing route request frees an active route.
Children count in broadcasts for which only routers acknowledge; a leave wraps
`brrt_cnt` to 255. A parent counts a child before its neighbor entry is refused,
`nwk_neighbor_delete` never lowers `base_neighbor_used`, the offset of the extended table
is a byte and wraps when more than 25 of the 32 places of ten bytes are used
(`nwk_neighbor.c:150`), the confirm of a rejoin response reads an entry that may be gone
through a pointer nobody set (`nwk_cr_join.c:211`), a leave lowers the counter before
the child has left so that an address is given twice. Association uses whatever
`pending_buf` a scan left; an association command that is not acknowledged is never
confirmed; a poll during a rejoin that brings another frame leaves the rejoin hanging; a
late rejoin response is credited to the parent asked meanwhile. `known_panids` is read by a
loop whose condition is wrong, so that a known id may be picked; a lost report or update
silences a router's reports for ever; a second beacon during a change makes the node
change to PAN id 0; `zdo_change_channel` passes a channel number as a mask and never
ends. The formation scan keeps no beacon (`nwk_discovery.c:167`, `:334`) although
`nwk_cr_formation.c` says it "will remember information about pan ids there": the network is
formed on the first quiet channel, whatever networks are there.

*APS.* The last entry of the retransmission table is filled and reported full, a full
table is reported as success with entry 0 (`aps_main.c:1017`). A second acknowledgement
frees the buffer that is being sent again. Acknowledgements are matched by a one-byte
counter, and the next number is taken without looking who has it: a request whose number
another one still has may be confirmed by its acknowledgement, and the acknowledgement of a
command frees the buffer of a data frame with the same number (`doubtful`). A request
without a binding is confirmed with the status of a new buffer, that of success
(`aps_main.c:206`). Frames for groups can take
all input buffers while their chain waits for one (8 of 8).

*ZDO.* A transaction has no timeout; a full table drops the callback; `scan_count` 0 makes
`resp_counter` wrap; descriptor requests are never served (`&&` in `zdo_rx.c:220`). One
flag for all leaves: two that cross make the device stay or leave against the request
(`crossed`). To remove a child for its own application makes the device itself
leave (`zdo_nwk_manage_srv.c:515`; `zb_nwk.h:1362`: "zero fill if device itself"). A router
that leaves reads its neighbor entry through a null pointer (`nwk_nlme.c:188`). `ZB_DISABLE_BIND_REQ` is defined by default; anything but
NO_ENTRY counts as "was bound" (`zdo_bind_manage.c:578`), and unbinding the last pair
twice runs over the end of the table.

*Security.* `secur_nwk_key_switch` searches with an inverted condition (`zdo_secur.c:366`),
right for the first switch only: after the second the trust center hands out an old key
under the new number. A router handed an older key than the one it uses overwrites its
active key and goes back (`late`). An end device that obeys an explicit switch after an
implicit one resets its counter under the same key. A device that missed an update never
gets the new key. The CC25xx coprocessor pads a block more than the standard and, for an
empty text, authenticates what lay in the buffer; it encrypts in place what is sent again.
APS commands are labelled with the key that was active when they were made.

## 7. Only model-checked

* All liveness properties and the fairness they need: the prover has no rules for
  ENABLED that scale to them.
* What recursive functions compute over unbounded data: the cipher modes of `ZbCcm` (over
  blocks), the binary search and index of `ZbAddress`, `Walk` of `ZbLists`; and SelectSeq,
  of which the provers know nothing (`ZbApsBind`, `ZbDiscTables`).
* `JoiningSound` of `ZbNlme`, and of `ZbZdoBind` the refinement of `ZbBindings`.

## 8. Not modelled

Listed under `components` with the reason: the contents of descriptors, trace and
diagnostics (data without control); register access, serial lines, SPI, NVRAM (I/O); the
application framework's dispatch (stateless); initialisation (straight-line); the network
simulator, converters and test applications. Of the modelled layers: software
acknowledgement (`zb_ns3.c`, CC25xx), purge requests, beacon mode, tree routing (cannot be
reached, `nwk_calc_destination`), fragmentation and multicast (not in the code or build),
NLME-RESET, the channel manager (`zdo_channel_manager.c`; its flags are masks
`1 << 1` and `1 << 2` without parentheses, so that clearing one clears others, and its
scans share one context), two channels of neighbors, the removal of groups (`#if 0`).
