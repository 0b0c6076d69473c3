------------------------------ MODULE MCCommon ------------------------------
(***************************************************************************)
(* The data structures of common/ and of the headers that all layers use:  *)
(* address table, buffer pool, lists, the tables of a discovery, the       *)
(* encryption of a frame, its way to the endpoints of a group, and the     *)
(* buffer that answers an orphan.  They share no state, so that their      *)
(* product would show nothing that they do not show one at a time: the     *)
(* initial state chooses which one is at work, the others rest.            *)
(***************************************************************************)
EXTENDS Integers, Sequences

CONSTANTS
  TableSize, IeeeAddrs, ShortAddrs, MaxLock,
  PoolSize, CbQSize, BufQSize, Funcs, OutReserved, InReserved, BareCallbacks, HeaderSurvives,
  NElems,
  PanIds, PanTableSize, MakerTableSize, ExtSize, MaxPanId,
  BlockSize, MicLen, HeaderLens, PayloadLens, MaxSends,
  GroupTableSize, EndpointsInGroup, UpQSize, InLimits, GroupAddrs, Endpoints, MaxFrames, MaxAdds,
  Orphans, OrphanBufs, HighBytes, LowBytes, Pans, ScanChannels, Nil, MaxOps

VARIABLES
  part,     \* the module at work
  used, ieee_addr, addr, lock_cnt, short_sorted, n_sorted, n_elements, churn,
  free, is_in_buf, bufs_allocated, inbuf_queue, outbuf_queue, buf_freelist, cb_q, held,
  lost, rx_pending, rx_need_buf, pc,
  next, prev, list, fifo_head, fifo_tail, stk_head, asked,
  long_panid, short_panid, dev_manufacturer, ext_neighbor, descriptors, pan_id, seen, asserted,
  tx, rx, layer, hlen, src, label, ctr, active, out, sends, sky, got,
  groups, local_dup_q, pass_up_q, active_buf, handle, calls, in_waiters, in_used, limit,
  group_of, stage, due, passed, adds,
  layout, mac_pan_id, phy_current_channel, current_channel, children, param, place, mac_tx_q,
  tx_wait_cb_arg, tx_status, pending_buf, device, ops, changed, crossed, wrong, misread

addressVars == <<used, ieee_addr, addr, lock_cnt, short_sorted, n_sorted, n_elements, churn>>
poolVars == <<free, is_in_buf, bufs_allocated, inbuf_queue, outbuf_queue, buf_freelist, cb_q,
              held, lost, rx_pending, rx_need_buf, pc>>
listsVars == <<next, prev, list, fifo_head, fifo_tail, stk_head, asked>>
discVars == <<long_panid, short_panid, dev_manufacturer, ext_neighbor, descriptors, pan_id,
              seen, asserted>>
ccmVars == <<tx, rx, layer, hlen, src, label, ctr, active, out, sends, sky, got>>
groupsVars == <<groups, local_dup_q, pass_up_q, active_buf, handle, calls, in_waiters, in_used,
                limit, group_of, stage, due, passed, adds>>
orphanVars == <<layout, mac_pan_id, phy_current_channel, current_channel, children, param, place,
                mac_tx_q, tx_wait_cb_arg, tx_status, pending_buf, device, ops, changed, crossed,
                wrong, misread>>

\* Three networks of which two share a place in the table, with and without a
\* coordinator in reach, and devices that beacon from a long address.
Sender(p, s, m, i, c) == [pan |-> p, short |-> s, maker |-> m, id |-> i, coordinator |-> c]
Devices ==
  { Sender(0, 0, 1, 1, TRUE), Sender(0, 5, 1, 2, FALSE),
    Sender(2, -1, 1, 1, FALSE), Sender(2, 0, 2, 1, TRUE),
    Sender(1, -1, 2, 1, TRUE), Sender(1, -1, 3, 1, FALSE) }

\* Short addresses, some of which differ in the high byte only, which is the byte at risk.
Shorts == HighBytes \X LowBytes

Address == INSTANCE ZbAddress
Pool    == INSTANCE ZbBufPool
Lists   == INSTANCE ZbLists
Disc    == INSTANCE ZbDiscTables
Ccm     == INSTANCE ZbCcm
Groups  == INSTANCE ZbApsGroups
Orphan  == INSTANCE ZbMacOrphan

ASSUME Assumptions ==
  /\ Address!AddressAssumption /\ Pool!PoolAssumption
  /\ Lists!ListsAssumption /\ Disc!DiscAssumption
  /\ Ccm!CcmAssumption /\ Groups!GroupsAssumption /\ Orphan!OrphanAssumption

Init ==
  /\ part \in {"address", "pool", "lists", "discovery", "ccm", "groups", "orphans"}
  /\ Address!Init /\ Pool!Init /\ Lists!Init /\ Disc!Init
  /\ Ccm!Init /\ (part # "ccm" => /\ tx = "sw" /\ rx = "sw" /\ layer = "nwk"
                                 /\ hlen = 1 /\ src = << >>)
  /\ Groups!Init /\ (part # "groups" => \A l \in InLimits : limit <= l)
  /\ Orphan!Init /\ (part # "orphans" => layout = "8051")

Next ==
  /\ \/ /\ part = "address" /\ Address!Next
        /\ UNCHANGED <<poolVars, listsVars, discVars, ccmVars, groupsVars, orphanVars>>
     \/ /\ part = "pool" /\ Pool!Next
        /\ UNCHANGED <<addressVars, listsVars, discVars, ccmVars, groupsVars, orphanVars>>
     \/ /\ part = "lists" /\ Lists!Next
        /\ UNCHANGED <<addressVars, poolVars, discVars, ccmVars, groupsVars, orphanVars>>
     \/ /\ part = "discovery" /\ Disc!Next
        /\ UNCHANGED <<addressVars, poolVars, listsVars, ccmVars, groupsVars, orphanVars>>
     \/ /\ part = "ccm" /\ Ccm!Next
        /\ UNCHANGED <<addressVars, poolVars, listsVars, discVars, groupsVars, orphanVars>>
     \/ /\ part = "groups" /\ Groups!Next
        /\ UNCHANGED <<addressVars, poolVars, listsVars, discVars, ccmVars, orphanVars>>
     \/ /\ part = "orphans" /\ Orphan!Next
        /\ UNCHANGED <<addressVars, poolVars, listsVars, discVars, ccmVars, groupsVars>>
  /\ UNCHANGED part

vars == <<part, addressVars, poolVars, listsVars, discVars, ccmVars, groupsVars,
          orphanVars>>

Spec == Init /\ [][Next]_vars

\* The address table in any history, and as long as nothing left its index; what a
\* discovery remembers of the networks and devices it heard.
TablesRight ==
  /\ part = "address" => Address!TableConsistent /\ Address!CompleteUntilRemoval
  /\ part = "discovery" => Disc!DiscoveryRight

\* The pool: one owner for each buffer, the counts, no direction starves the other or
\* its waiters, and a woken waiter reaches the scheduler with a buffer.
PoolRight ==
  part = "pool" => Pool!PoolSound /\ Pool!OutWaitersOnlyWhenShort /\ Pool!HandedOver

\* The list macros implement sequences: whatever stale links the elements carry, the
\* lists hold what was put into them, in its order.
ImplementsQueues == Lists!ImplementsQueues

\* A frame that arrives as it was sent is accepted as it was meant, another is refused.
CodecsRight == part = "ccm" => Ccm!CodecsRight

\* A frame for a group comes to every endpoint of it once and in order, by one chain of
\* callbacks that does not stop while a frame waits.
GroupsRight == part = "groups" => Groups!GroupsRight

\* A device that lost its parent learns the parent's PAN, channel and its own address from
\* the realignment, the parent reports that device as joined, and its buffer comes back.
OrphansRight == part = "orphans" => Orphan!OrphansRight
=============================================================================
