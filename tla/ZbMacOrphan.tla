------------------------------ MODULE ZbMacOrphan ------------------------------
(***************************************************************************)
(* Devices that lost their parent and find it again by an orphan scan      *)
(* (mac/mac_scan.c, mac/mac_cr_coordinator.c, nwk/nwk_join.c), and the     *)
(* headers of the MAC commands that go by (zb_mac_fill_mhr, zb_parse_mhr). *)
(*                                                                         *)
(* The parent answers with a realignment command that says the PAN id, the *)
(* channel and the addresses, and reports the device as joined once the    *)
(* command is acknowledged.  It does so in one buffer, the parameter of    *)
(* which is a union at the tail: writing the parameters of the realignment *)
(* overwrites part of the response they are made from.                     *)
(***************************************************************************)
EXTENDS Integers, Sequences, FiniteSets

CONSTANTS
  Orphans,       \* devices, known to the parent as its children
  OrphanBufs,    \* buffers of the parent
  Shorts,        \* short addresses, as high and low byte
  Pans,          \* PAN ids below 256
  ScanChannels,  \* channels 1 .. ScanChannels are scanned
  Nil,       \* no buffer, no address
  MaxOps

OrphanAssumption ==
  /\ Shorts \subseteq (0 .. 255) \X (0 .. 255) /\ Pans \subseteq 1 .. 255 /\ Pans # {}
  /\ ScanChannels \in Nat \ {0} /\ Nil \notin OrphanBufs \cup Shorts
  /\ IsFiniteSet(Orphans)
  /\ Cardinality(Shorts) >= Cardinality(Orphans)
  /\ MaxOps \in Nat

VARIABLES
  layout,           \* the build: where its compiler puts the parameters' fields
  mac_pan_id, phy_current_channel, current_channel,   \* the parent's PIB and radio
  children,         \* its children's short addresses
  param, place,     \* what a buffer's parameter says, and where the buffer is
  mac_tx_q,         \* the orphan responses that wait for the transmitter
  tx_wait_cb_arg,   \* the buffer whose transmission is waited for
  tx_status,        \* on the air, with or without a device that hears it, or how it ended
  pending_buf,      \* MAC_CTX().pending_buf
  device,           \* the orphans
  ops, changed,     \* operations begun, whether one changed what the parent has
  crossed,          \* a transmission ended in another operation's buffer
  wrong, misread    \* false reports of a join, commands not read as they were meant

parent  == <<mac_pan_id, phy_current_channel, current_channel, children>>
buffers == <<param, place, mac_tx_q, tx_wait_cb_arg, tx_status, pending_buf>>
counts  == <<ops, changed>>
history == <<crossed, wrong, misread>>
orphanVars == <<layout, parent, buffers, device, counts, history>>

-----------------------------------------------------------------------------
(* The header of a frame: what its frame control field says, and fields.      *)

NoAddr   == <<"none">>
Short(s) == <<"short", s>>
Long(d)  == <<"long", d>>
Pan(p)   == <<"pan", p>>
Noise    == <<"noise">>

BroadcastPan == Pan(65535)
Broadcast    == Short(<<255, 255>>)
Coord        == <<0, 0>>

Header(cmd, dmode, dpan, dst, smode, span, src, compressed) ==
  [cmd |-> cmd, dmode |-> dmode, smode |-> smode, compressed |-> compressed,
   dpan |-> dpan, dst |-> dst, span |-> span, src |-> src]

\* An address is a union: as many bytes of it go out as the mode says.
As(mode, a) == IF a[1] = mode THEN a ELSE Noise

\* zb_mac_fill_mhr
FillMhr(h) ==
  (IF h.dmode = "none" THEN << >> ELSE <<h.dpan, As(h.dmode, h.dst)>>)
  \o (IF h.smode = "none" THEN << >>
      ELSE (IF h.compressed THEN << >> ELSE <<h.span>>) \o <<As(h.smode, h.src)>>)

\* zb_parse_mhr
ParseMhr(h, mhr) ==
  LET d == IF h.dmode = "none" THEN 0 ELSE 2
      s == IF h.compressed THEN d ELSE d + 1
      dpan == IF d = 0 THEN Pan(0) ELSE mhr[1]
  IN  [dpan |-> dpan,
       dst  |-> IF d = 0 THEN NoAddr ELSE mhr[2],
       span |-> CASE h.smode = "none" -> Pan(0) [] h.compressed -> dpan [] OTHER -> mhr[s],
       src  |-> IF h.smode = "none" THEN NoAddr ELSE mhr[s + 1]]

\* Who a frame is for and who it is from, for the one who reads it.
Read(h) == ParseMhr(h, FillMhr(h))

OrphanNotification(d) ==
  Header("orphan", "short", BroadcastPan, Broadcast, "long", BroadcastPan, Long(d), TRUE)

\* zb_tx_coord_realignment_cmd: to an orphan, or to nobody in particular.
RealignmentCommand(dst) ==
  Header("realignment", "long", BroadcastPan, dst, "long", Pan(mac_pan_id), Long("parent"), FALSE)

BeaconFrame   == Header("beacon", "none", Pan(0), NoAddr, "short", Pan(mac_pan_id), Short(Coord), FALSE)
BeaconRequest == Header("beacon_request", "short", BroadcastPan, Broadcast, "none", Pan(0), NoAddr, FALSE)
DataRequest(d, p) ==
  { Header("data_request", "short", Pan(p), Short(Coord), a[1], Pan(0), a, TRUE) :
      a \in {Long(d)} \cup {Short(s) : s \in Shorts} }
AssociationRequest(d, p) ==
  { Header("association", a[1], Pan(p), a, "long", BroadcastPan, Long(d), FALSE) :
      a \in {Short(Coord), Long("parent")} }

Misreads(h) ==
  LET r == Read(h)
  IN  r.dst # h.dst \/ r.src # h.src \/ (h.dmode # "none" /\ r.dpan # h.dpan)
      \/ (h.smode # "none" /\ r.span # IF h.compressed THEN h.dpan ELSE h.span)

Sends(h) == misread' = misread \cup (IF Misreads(h) THEN {h.cmd} ELSE {})

-----------------------------------------------------------------------------
(* The parameters of a buffer. *)

\* Writing PAN id, channel and page of a zb_mlme_start_req_t over an orphan response,
\* both at the tail of the buffer: where a zb_bool_t has four bytes (Linux) the PAN id's
\* low byte comes to lie on the high byte of the short address, where it has one byte
\* (8051) all of it lies on the long address.
Overwritten(resp, pan) ==
  IF layout = "linux" THEN [resp EXCEPT !.short = <<pan, @[2]>>] ELSE resp

\* The buffers are alike: any free one will do, and what a free one says is forgotten.
FreeBuf == IF \E b \in OrphanBufs : place[b] = "free"
           THEN {CHOOSE b \in OrphanBufs : place[b] = "free"} ELSE {}

Init ==
  /\ layout \in {"linux", "8051"}
  /\ mac_pan_id = (CHOOSE p \in Pans : \A q \in Pans : p <= q)
  /\ phy_current_channel = 1 /\ current_channel = 1
  /\ children = CHOOSE f \in [Orphans -> Shorts] : \A d, e \in Orphans : f[d] = f[e] => d = e
  /\ param = [b \in OrphanBufs |-> Nil] /\ place = [b \in OrphanBufs |-> "free"]
  /\ mac_tx_q = << >> /\ tx_wait_cb_arg = Nil /\ tx_status = "ok" /\ pending_buf = Nil
  /\ device = [d \in Orphans |-> [next |-> 0, radio |-> 1, got |-> FALSE, pan |-> 0,
                                  chan |-> 0, coord |-> Nil, short |-> Nil]]
  /\ ops = 0 /\ changed = FALSE
  /\ crossed = FALSE /\ wrong = {} /\ misread = {}

-----------------------------------------------------------------------------
(* The orphan. *)

\* MLME-SCAN.request for an orphan scan (zb_mlme_orphan_scan).
OrphanScan(d) ==
  /\ device[d].next = 0 /\ ops < MaxOps /\ ops' = ops + 1
  /\ device' = [device EXCEPT ![d].next = 1, ![d].got = FALSE]
  /\ UNCHANGED <<layout, parent, buffers, changed, history>>

\* zb_mlme_scan_step of an orphan scan: the notification goes out on the next channel,
\* whatever was received on the last one.  After the last channel the scan ends, and the
\* radio stays there.  The parent hears the notification when it listens on that channel
\* and has a buffer (zb_mlme_command_accept, its part for orphans).
OrphanScanStep(d) ==
  LET c == device[d].next
  IN  /\ c # 0
      /\ IF c > ScanChannels
         THEN /\ device' = [device EXCEPT ![d].next = 0]
              /\ UNCHANGED <<param, place, misread>>
         ELSE /\ device' = [device EXCEPT ![d].next = c + 1, ![d].radio = c]
              /\ Sends(OrphanNotification(d))
              /\ \/ UNCHANGED <<param, place>>
                 \/ /\ c = current_channel
                    /\ \E b \in FreeBuf :
                         /\ param' = [param EXCEPT ![b] = [orphan |-> Read(OrphanNotification(d)).src[2],
                                                           short |-> Nil]]
                         /\ place' = [place EXCEPT ![b] = "indication"]
      /\ UNCHANGED <<layout, parent, mac_tx_q, tx_wait_cb_arg, tx_status, pending_buf, counts,
                     crossed, wrong>>

\* The realignment is taken by the device it is addressed to (its radio lets no other
\* pass) while it scans (zb_mlme_command_accept).  The radio is not tuned.
Takes(d, dst) == device[d].next # 0 /\ device[d].radio = current_channel /\ dst = Long(d)
Realigned(d, short) ==
  [device EXCEPT ![d] = [next |-> @.next, radio |-> @.radio, got |-> TRUE, pan |-> mac_pan_id,
                         chan |-> current_channel, coord |-> Coord, short |-> short]]

-----------------------------------------------------------------------------
(* The parent. *)

\* zb_mlme_orphan_indication: a child is answered, another device ignored.
OrphanIndication(b) ==
  LET d == param[b].orphan
  IN  /\ place[b] = "indication"
      /\ IF children[d] # Nil
         THEN /\ param' = [param EXCEPT ![b].short = children[d]]
              /\ place' = [place EXCEPT ![b] = "tx"] /\ mac_tx_q' = Append(mac_tx_q, b)
         ELSE /\ place' = [place EXCEPT ![b] = "free"] /\ param' = [param EXCEPT ![b] = Nil]
              /\ UNCHANGED mac_tx_q
      /\ UNCHANGED <<layout, parent, tx_wait_cb_arg, tx_status, pending_buf, device, counts,
                     history>>

\* The response is copied (oresp) before its place in the buffer is written over.
Response_AfterWriting(oresp, written) == written
Response(oresp, written) == oresp

\* zb_mlme_handle_orphan_response, when the transmitter comes to it: the realignment is
\* sent, and heard at once or not at all.
HandleOrphanResponse ==
  /\ mac_tx_q # << >> /\ tx_wait_cb_arg = Nil
  /\ LET b    == Head(mac_tx_q)
         req  == Overwritten(param[b], mac_pan_id)
         resp == Response(param[b], req)
         cmd  == RealignmentCommand(Long(resp.orphan))
         hear == {d \in Orphans : Takes(d, Read(cmd).dst)}
     IN  /\ pending_buf' = b /\ param' = [param EXCEPT ![b] = req]
         /\ place' = [place EXCEPT ![b] = "wait"]
         /\ mac_tx_q' = Tail(mac_tx_q) /\ tx_wait_cb_arg' = b
         /\ Sends(cmd)
         /\ \/ /\ tx_status' = "heard"
               /\ \E d \in hear : device' = Realigned(d, resp.short)
            \/ tx_status' = "air" /\ UNCHANGED device
  /\ UNCHANGED <<layout, parent, counts, crossed, wrong>>

\* The transmission ends (interrupt): it was acknowledged by the device that heard it,
\* or not.
TxEnds ==
  /\ \/ tx_status = "heard" /\ tx_status' \in {"ok", "failed"}
     \/ tx_status = "air" /\ tx_status' = "failed"
  /\ UNCHANGED <<layout, parent, param, place, mac_tx_q, tx_wait_cb_arg, pending_buf, device,
                 counts, history>>

\* zb_mlme_handle_orphan_response_continue: the response is read once more, from the
\* buffer pending_buf names by now and from under the parameters written over it.  If
\* the transmission failed nothing is done with the buffer, ever.
HandleOrphanResponseContinue ==
  /\ tx_wait_cb_arg # Nil /\ tx_status \in {"ok", "failed"}
  /\ tx_wait_cb_arg' = Nil
  /\ IF tx_status = "failed"
     THEN /\ place' = [place EXCEPT ![tx_wait_cb_arg] = "failed"] /\ UNCHANGED crossed
          /\ param' = [param EXCEPT ![tx_wait_cb_arg] = Nil]
     ELSE /\ place' = [place EXCEPT ![pending_buf] = "status"]
          /\ crossed' = (pending_buf # tx_wait_cb_arg) /\ UNCHANGED param
  /\ UNCHANGED <<layout, parent, mac_tx_q, tx_status, pending_buf, device, counts, wrong,
                 misread>>

\* zb_mlme_comm_status_indication: the child that has the short address is reported as
\* joined.  The buffer of a status about an unknown address is kept by nobody.
CommStatusIndication(b) ==
  /\ place[b] = "status"
  /\ LET named == {d \in Orphans : children[d] = param[b].short}
     IN  /\ place' = [place EXCEPT ![b] = IF named = {} THEN "lost" ELSE "free"]
         /\ wrong' = wrong \cup {d \in named : d # param[b].orphan}
         /\ param' = [param EXCEPT ![b] = Nil]
  /\ UNCHANGED <<layout, parent, mac_tx_q, tx_wait_cb_arg, tx_status, pending_buf, device,
                 counts, crossed, misread>>

\* zb_handle_data_frame takes pending_buf for the frame's buffer, which the layers above
\* free later.
DataFrame(b) ==
  /\ b \in FreeBuf /\ place' = [place EXCEPT ![b] = "data"] /\ pending_buf' = b
  /\ UNCHANGED <<layout, parent, param, mac_tx_q, tx_wait_cb_arg, tx_status, device, counts,
                 history>>
DataFrameDone(b) ==
  /\ place[b] = "data" /\ place' = [place EXCEPT ![b] = "free"]
  /\ UNCHANGED <<layout, parent, param, mac_tx_q, tx_wait_cb_arg, tx_status, pending_buf, device,
                 counts, history>>

Change == ops < MaxOps /\ ops' = ops + 1 /\ changed' = TRUE

\* zb_mac_update_superframe_and_pib: the PIB and the radio take the request's values.
UpdatePib(pan, channel) ==
  /\ mac_pan_id' = pan /\ phy_current_channel' = channel /\ current_channel' = channel

\* zb_mlme_start_request, without realignment when a PAN id conflict is resolved, with
\* realignment when a router is started once more.  The realignment (zb_realign_pan, its
\* part without beacon mode) waits for the transmission that is under way, and is sent
\* to a long address nobody wrote: it is not acknowledged, and the PIB stays.
StartRequest(b, pan) ==
  /\ Change /\ b \in FreeBuf /\ pending_buf' = b
  /\ \/ UpdatePib(pan, current_channel) /\ UNCHANGED <<misread, tx_status>>
     \/ /\ Sends(RealignmentCommand(Broadcast)) /\ tx_status' = "failed"
        /\ UNCHANGED <<mac_pan_id, phy_current_channel, current_channel>>
  /\ UNCHANGED <<layout, children, param, place, mac_tx_q, tx_wait_cb_arg, device, crossed, wrong>>

\* The channels of an energy scan by the parent, and the end of it (mac_scan.c; not in
\* simulator builds).
EdScanStep ==
  /\ Change /\ \E c \in 1 .. ScanChannels \ {current_channel} : current_channel' = c
  /\ UNCHANGED <<layout, mac_pan_id, phy_current_channel, children, buffers, device, history>>
EdScanEnd ==
  /\ current_channel # phy_current_channel /\ current_channel' = phy_current_channel
  /\ UNCHANGED <<layout, mac_pan_id, phy_current_channel, children, buffers, device, counts, history>>

\* A child leaves, or joins again by association and gets a free address.
ChildChanges(d) ==
  /\ Change
  /\ \E s \in (Shorts \cup {Nil}) \ {children[e] : e \in Orphans} :
       children' = [children EXCEPT ![d] = s]
  /\ UNCHANGED <<layout, mac_pan_id, phy_current_channel, current_channel, buffers, device, history>>

\* The other commands of the MAC and the beacon, of which only the headers matter here.
OtherCommand ==
  /\ ops < MaxOps /\ ops' = ops + 1
  /\ \E d \in Orphans, p \in Pans :
       \E h \in {BeaconRequest, BeaconFrame} \cup DataRequest(d, p) \cup AssociationRequest(d, p) :
         Sends(h)
  /\ UNCHANGED <<layout, parent, buffers, device, changed, crossed, wrong>>

Next ==
  /\ ~crossed
  /\ \/ \E d \in Orphans : OrphanScan(d) \/ OrphanScanStep(d) \/ ChildChanges(d)
     \/ \E b \in OrphanBufs : \/ OrphanIndication(b) \/ CommStatusIndication(b)
                              \/ DataFrame(b) \/ DataFrameDone(b)
                              \/ \E p \in Pans : StartRequest(b, p)
     \/ HandleOrphanResponse \/ TxEnds \/ HandleOrphanResponseContinue
     \/ EdScanStep \/ EdScanEnd \/ OtherCommand

Spec == Init /\ [][Next]_orphanVars

-----------------------------------------------------------------------------

TypeOK ==
  /\ mac_pan_id \in Pans /\ {phy_current_channel, current_channel} \subseteq 1 .. ScanChannels
  /\ children \in [Orphans -> Shorts \cup {Nil}]
  /\ tx_status \in {"air", "heard", "ok", "failed"}
  /\ place \in [OrphanBufs -> {"free", "indication", "tx", "wait", "status", "data", "failed", "lost"}]
  /\ tx_wait_cb_arg \in OrphanBufs \cup {Nil} /\ pending_buf \in OrphanBufs \cup {Nil}

\* A device that was realigned knows the parent as it is: its PAN id, its channel and the
\* address the parent keeps for it, as long as nothing of that changed.
Follows ==
  \A d \in Orphans : device[d].got /\ ~changed =>
    /\ device[d].pan = mac_pan_id /\ device[d].chan = phy_current_channel
    /\ device[d].coord = Coord /\ device[d].short = children[d]

\* The parent never reports another child than the one that was realigned: where the
\* parameters leave the short address alone, and nobody got another address meanwhile.
ReportsRight == layout = "8051" /\ ~changed => wrong = {}

\* No buffer stays behind but those of failed transmissions, and the transmitter, its
\* queue and the buffers agree about who waits for what.
BuffersReturn ==
  /\ layout = "8051" /\ ~changed => \A b \in OrphanBufs : place[b] # "lost"
  /\ \A b \in OrphanBufs : (place[b] = "wait") <=> (tx_wait_cb_arg = b)
  /\ \A b \in OrphanBufs : (place[b] = "tx") <=> \E i \in DOMAIN mac_tx_q : mac_tx_q[i] = b

\* Every command is read as it was meant, but for the realignment of a router that is
\* started once more.
HeadersRight == misread = {} \/ (misread = {"realignment"} /\ changed)

OrphansRight == TypeOK /\ (~crossed => Follows /\ ReportsRight /\ BuffersReturn /\ HeadersRight)
=============================================================================
