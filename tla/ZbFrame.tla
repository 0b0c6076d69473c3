------------------------------ MODULE ZbFrame -------------------------------
(***************************************************************************)
(* The way of a frame through its buffer (common/zb_bufpool.c and the      *)
(* header handling of aps_main.c, nwk_main.c, mac.c, mac_data.c): each     *)
(* layer allocates its header on the left or cuts it there, leaves the     *)
(* parameters of the next layer at the tail, and counts on finding what    *)
(* the layer before it left.  Of the bytes only the extents are kept: what *)
(* headers and trailers lie around the payload, and where.                 *)
(*                                                                         *)
(* One frame is followed: from the application to the transceiver, there   *)
(* either back to the sender, which cuts the headers and may send the APS  *)
(* frame again, or to a receiver, which passes it up or forwards it.       *)
(* Fragmentation, multicast and MAC security are not in the build.         *)
(***************************************************************************)
EXTENDS Integers, Sequences, Functions

CONSTANTS
  Payloads,    \* lengths of the data the application hands over
  MaxResend,   \* bound: retransmissions by the APS layer
  MaxHops      \* bound: routers that forward the frame

\* Sizes in bytes.
ZB_IO_BUF_SIZE == 148
ApsReq == 17     \* zb_apsde_data_req_t
NldeReq == 8     \* zb_nlde_data_req_t
Handle == 1      \* the NSDU handle for zb_nwk_forward
McpsReq == 7     \* zb_mcps_data_req_params_t
ApsInd == 14     \* zb_apsde_data_indication_t
Aux == 14        \* zb_nwk_aux_frame_hdr_t
ZB_CCM_M == 4    \* the MIC that closes a secured frame
Fcs == 2
ZB_MAC_EXTRA_DATA_SIZE == 9   \* LQI and the like, appended by the receiving transceiver
MAX_PHY_FRM_SIZE == 127

FrameAssumption == Payloads \subseteq Nat /\ MaxResend \in Nat /\ MaxHops \in Nat

VARIABLES
  at,       \* where the frame is: the handler that takes it next, or its end
  buf,      \* off, len, the parameters at the tail, the headers and trailers in it
  fmt,      \* command, group, secured, long (addresses in the NWK header), src, dst and
            \* compressed (of the MHR), fcs (appended by this build)
  size,     \* of the payload
  air,      \* the length sent
  odd,      \* history: unusual turns of the way
  harm,     \* history: what went wrong
  resent, hops

vars == <<at, buf, fmt, size, air, odd, harm, resent, hops>>

-----------------------------------------------------------------------------
(* Buffers. *)

Empty == [off |-> 0, len |-> 0, param |-> 0, hdrs |-> <<>>, trls |-> <<>>]

InitialAlloc(len) == [Empty EXCEPT !.len = len, !.off = (ZB_IO_BUF_SIZE - len) \div 2]

\* zb_buf_smart_alloc_left
AllocLeft(b, name, n) ==
  [b EXCEPT !.off = IF @ < n THEN 0 ELSE @ - n,
            !.len = @ + n, !.hdrs = <<<<name, n>>>> \o @]

AllocRight(b, name, n) == [b EXCEPT !.len = @ + n, !.trls = <<<<name, n>>>> \o @]

Torn == <<"torn", 0>>

\* A cut is right if it takes one header, and all of it.
CutLeft(b, name, n) ==
  [b EXCEPT !.off = @ + n, !.len = @ - n,
            !.hdrs = IF @ # <<>> /\ Head(@) = <<name, n>> THEN Tail(@) ELSE <<Torn>>]

CutRight(b, name, n) ==
  [b EXCEPT !.len = @ - n,
            !.trls = IF @ # <<>> /\ Head(@) = <<name, n>> THEN Tail(@) ELSE <<Torn>>]

\* zb_get_buf_tail: the parameters that the next handler will read.
SetParam(b, n) == [b EXCEPT !.param = n]

\* zb_buf_assign_param moves the data to the left if the parameters do not fit.
AssignParam(b, n) ==
  LET room == ZB_IO_BUF_SIZE - (b.off + b.len)
  IN  [b EXCEPT !.off = IF room < n THEN @ - (n - room) ELSE @, !.param = n]

Sound(b) == /\ b.off >= 0 /\ b.len \in 0 .. ZB_IO_BUF_SIZE - 1
            /\ b.off + b.len + b.param <= ZB_IO_BUF_SIZE

\* A handler takes the buffer through bs; if one of them is hurt, that is remembered.
Work(bs) ==
  /\ buf' = bs[Len(bs)]
  /\ harm' = harm \cup (IF \A i \in DOMAIN bs : Sound(bs[i]) THEN {} ELSE {"bounds"})
                  \cup (IF \A i \in DOMAIN bs : Torn \notin Range(bs[i].hdrs \o bs[i].trls)
                        THEN {} ELSE {"cut"})

Goes(from, to) == at = from /\ at' = to

-----------------------------------------------------------------------------
(* Header sizes, as the sender allocates them and as the reader computes them from   *)
(* the frame control fields.                                                         *)

\* aps_data_hdr_fill_datareq
ApsHdrFilled(f) == 1 + 1 + 2 + 2 + 1 + 1 + (IF f.group THEN 1 ELSE 0)

\* ZB_APS_HDR_SIZE
ApsHdrSize(f) == 2 + (1 + (IF f.group THEN 1 ELSE 0) + 2 + 2 + 1)

ShortHdr == 8
HalfHdr == 16
FullHdr == 24

\* nwk_alloc_and_fill_hdr
NwkHdrFilled(f) ==
  (CASE f.long = 2 -> FullHdr [] f.long = 1 -> HalfHdr [] OTHER -> ShortHdr)
    + IF f.secured THEN Aux ELSE 0

\* Mutant: the auxiliary header is left out.
NwkHdrSize_NoAux(f) == ShortHdr + f.long * 8

\* zb_nwk_hdr_size
NwkHdrSize(f) == ShortHdr + (IF f.secured THEN Aux ELSE 0) + f.long * 8

\* zb_mac_calculate_mhr_length, of short or long addresses within a PAN or across PANs
MhrLength(src, dst, compressed) ==
  LET addr(mode) == CASE mode = "none" -> 0 [] mode = "short" -> 2 [] OTHER -> 8
  IN  3 + (IF src = "none" THEN 0 ELSE addr(src) + IF compressed THEN 0 ELSE 2)
        + (IF dst = "none" THEN 0 ELSE addr(dst) + 2)

\* zb_parse_mhr advances by what it reads.
MhrParsed(src, dst, compressed) ==
  LET to   == 3 + CASE dst = "none" -> 0 [] dst = "short" -> 2 + 2 [] OTHER -> 2 + 8
      from == to + IF src # "none" /\ ~compressed THEN 2 ELSE 0
  IN  from + CASE src = "none" -> 0 [] src = "short" -> 2 [] OTHER -> 8

Mhr == MhrLength("short", "short", TRUE)

Mic(f) == IF f.secured THEN ZB_CCM_M ELSE 0

ApsHdr(f) == IF f.command THEN 3 ELSE ApsHdrFilled(f)

\* Premise: the application sends no more than one frame takes.  No layer checks it.
Fits(f, n) ==
  Mhr + NwkHdrFilled(f) + ApsHdr(f) + n + Mic(f) + Fcs <= MAX_PHY_FRM_SIZE

Formats ==
  [command : BOOLEAN, group : BOOLEAN, secured : BOOLEAN, long : 0 .. 2,
   src : {"short", "long"}, dst : {"short", "long"}, compressed : BOOLEAN, fcs : BOOLEAN]

\* What this stack sends: short addresses of its own PAN.
Own(f) == f.long = 0 /\ f.src = "short" /\ f.dst = "short" /\ f.compressed

-----------------------------------------------------------------------------
(* The way down. *)

Init ==
  /\ at = "app" /\ buf = Empty /\ size = 0 /\ air = 0
  /\ fmt \in {f \in Formats : f.command => ~f.group}
  /\ odd = {} /\ harm = {} /\ resent = 0 /\ hops = 0

\* The application leaves data and zb_apsde_data_req_t, a layer of the stack the body of
\* a command.
Compose ==
  /\ Goes("app", "aps") /\ Own(fmt)
  /\ \E n \in Payloads : /\ Fits(fmt, n) /\ size' = n
                          /\ Work(<<SetParam(InitialAlloc(n), IF fmt.command THEN 0 ELSE ApsReq)>>)
  /\ UNCHANGED <<fmt, air, odd, resent, hops>>

\* zb_apsde_data_request reads its parameters while it fills the header,
\* zb_aps_send_command has none; both leave those of zb_nlde_data_request.
DataRequest ==
  LET filled == AllocLeft(buf, "aps", ApsHdr(fmt))
  IN  /\ Goes("aps", "nwk") /\ Work(<<filled, SetParam(filled, NldeReq)>>)
      /\ UNCHANGED <<fmt, size, air, odd, resent, hops>>

\* zb_nlde_data_request
NldeDataRequest ==
  LET filled == AllocLeft(buf, "nwk", NwkHdrFilled(fmt))
  IN  /\ Goes("nwk", "forward") /\ Work(<<filled, SetParam(filled, Handle)>>)
      /\ UNCHANGED <<fmt, size, air, odd, resent, hops>>

\* ... of a device that is not joined: the confirm gets the frame as it is.
NotJoined ==
  /\ Goes("nwk", "confirm") /\ odd' = odd \cup {"not joined"}
  /\ UNCHANGED <<buf, fmt, size, air, harm, resent, hops>>

\* zb_nwk_forward
Forward ==
  /\ Goes("forward", "mac") /\ Work(<<SetParam(buf, McpsReq)>>)
  /\ UNCHANGED <<fmt, size, air, odd, resent, hops>>

\* zb_mcps_data_request_fill_hdr; a frame for a sleeping child waits to be asked for.
FillHdr ==
  /\ at = "mac" /\ at' \in {"send"} \cup IF fmt.group THEN {} ELSE {"indirect"}
  /\ Work(<<AllocLeft(buf, "mhr", Mhr)>>)
  /\ fmt' = [fmt EXCEPT !.src = "short", !.dst = "short", !.compressed = TRUE]
  /\ UNCHANGED <<size, air, odd, resent, hops>>

\* The encryption buffer has room for the encrypted frame and for the 16 bytes that are
\* written where its MIC begins.
EncryptionRoom ==
  LET b == InitialAlloc(buf.len - Mhr + ZB_CCM_M)
  IN  Sound(b) /\ b.off + b.len - ZB_CCM_M + 16 <= ZB_IO_BUF_SIZE

\* What is sent is encrypted into a buffer of the MAC, the frame itself stays plain; a
\* build for the simulator appends the FCS to both.
Send ==
  /\ at \in {"send", "indirect"} /\ at' = "air"
  /\ air' = buf.len + Mic(fmt) + Fcs
  /\ buf' = IF fmt.fcs THEN AllocRight(buf, "fcs", Fcs) ELSE buf
  /\ harm' = harm \cup IF fmt.secured /\ ~EncryptionRoom THEN {"encryption"} ELSE {}
  /\ UNCHANGED <<fmt, size, odd, resent, hops>>

\* The frame has a MHR to read addresses from.
MhrRead(b) == IF b.hdrs # <<>> /\ Head(b.hdrs) = <<"mhr", Mhr>> THEN {} ELSE {"mhr"}

\* zb_mac_pending_data_timeout: a frame that nobody asked for is not confirmed.  The
\* addresses of its MHR go to zb_mlme_comm_status_indication, which keeps no buffer of data.
Expire ==
  /\ Goes("indirect", "forgotten") /\ harm' = harm \cup MhrRead(buf)
  /\ UNCHANGED <<buf, fmt, size, air, odd, resent, hops>>

\* zb_mac_check_security finds no key.  A frame that was to be sent at once is forgotten;
\* one that was asked for is confirmed as if it had been sent, without the FCS.
NotEncrypted ==
  /\ fmt.secured
  /\ Goes("send", "forgotten") \/ Goes("indirect", "sent")
  /\ odd' = odd \cup {"not encrypted"}
  /\ UNCHANGED <<buf, fmt, size, air, harm, resent, hops>>

-----------------------------------------------------------------------------
(* Back at the sender. *)

\* zb_mcps_data_confirm reads the addresses of the MHR; of a frame of others nothing
\* else is wanted.
McpsDataConfirm ==
  /\ at \in {"air", "sent"}
  /\ at' = IF hops = 0 THEN "confirm" ELSE "freed"
  /\ harm' = harm \cup MhrRead(buf)
  /\ UNCHANGED <<buf, fmt, size, air, odd, resent, hops>>

\* zb_nwk_call_br_confirm: a broadcast was sent as copies; it gets a MHR for the confirm.
BroadcastConfirm ==
  LET closed == IF fmt.fcs THEN AllocRight(buf, "fcs", Fcs) ELSE buf
  IN  /\ Goes("mac", "sent") /\ fmt.group
      /\ Work(<<closed, AllocLeft(closed, "mhr", Mhr)>>)
      /\ UNCHANGED <<fmt, size, air, odd, resent, hops>>

\* zb_nlde_data_confirm cuts the MHR and the NWK header.
NldeDataConfirm ==
  LET closed == IF fmt.fcs THEN CutRight(buf, "fcs", Fcs) ELSE buf
      nsdu   == CutLeft(closed, "mhr", MhrLength(fmt.src, fmt.dst, fmt.compressed))
  IN  /\ Goes("confirm", "confirmed")
      /\ Work(<<closed, nsdu, CutLeft(nsdu, "nwk", NwkHdrSize(fmt))>>)
      /\ UNCHANGED <<fmt, size, air, odd, resent, hops>>

\* zb_aps_ack_timer_cb: the same APS frame goes down again.
Resend ==
  /\ Goes("confirmed", "nwk") /\ ~fmt.group /\ resent < MaxResend /\ resent' = resent + 1
  /\ Work(<<SetParam(buf, NldeReq)>>)
  /\ UNCHANGED <<fmt, size, air, odd, hops>>

-----------------------------------------------------------------------------
(* The way up. *)

\* The frame of another stack, which may use long addresses.
Foreign ==
  /\ Goes("app", "heard") /\ ~Own(fmt)
  /\ \E n \in Payloads :
       LET mhr == MhrParsed(fmt.src, fmt.dst, fmt.compressed)
           len == mhr + NwkHdrSize(fmt) + ApsHdr(fmt) + n
       IN  /\ len + Mic(fmt) + Fcs <= MAX_PHY_FRM_SIZE
           /\ size' = n /\ air' = len + Mic(fmt) + Fcs
           /\ buf' = [InitialAlloc(len) EXCEPT !.hdrs =
                        <<<<"mhr", mhr>>, <<"nwk", NwkHdrSize(fmt)>>, <<"aps", ApsHdr(fmt)>>>>]
  /\ UNCHANGED <<fmt, odd, harm, resent>> /\ hops' = 1

\* The transceiver delivers the length, the frame and its own nine bytes; the length is
\* cut.
Receive ==
  LET read == InitialAlloc(1 + air + ZB_MAC_EXTRA_DATA_SIZE)
      in   == [read EXCEPT !.off = @ + 1, !.len = @ - 1, !.hdrs = buf.hdrs,
                           !.trls = <<<<"tail", Fcs + ZB_MAC_EXTRA_DATA_SIZE>>>>
                                    \o IF fmt.secured THEN <<<<"mic", ZB_CCM_M>>>> ELSE <<>>]
  IN  /\ at \in {"air", "heard"} /\ at' = "mcps" /\ Work(<<in>>)
      /\ UNCHANGED <<fmt, size, air, odd, resent, hops>>

\* zb_nwk_unsecure_frame cuts the MIC and writes the MHR before the NWK header, whose
\* place the caller and its own pointers still know: it must not move.
Unsecured(b, mhr) ==
  LET plain == CutRight(b, "mic", ZB_CCM_M)
      hack  == AllocLeft(plain, "mhr", mhr + 1)
  IN  <<plain, hack, CutLeft(hack, "mhr", mhr + 1)>>

\* zb_mcps_data_indication: up, forward, or (a broadcast) both, the one as a copy.
McpsDataIndication ==
  LET mhr   == MhrParsed(fmt.src, fmt.dst, fmt.compressed)
      short == CutRight(buf, "tail", Fcs + ZB_MAC_EXTRA_DATA_SIZE)
      nsdu  == CutLeft(short, "mhr", mhr)
      plain == IF fmt.secured THEN <<short, nsdu>> \o Unsecured(nsdu, mhr) ELSE <<short, nsdu>>
      moved == fmt.secured /\ nsdu.off < mhr + 1
  IN  /\ at = "mcps"
      /\ buf'  = plain[Len(plain)]
      /\ harm' = harm \cup (IF \A i \in DOMAIN plain : Sound(plain[i]) THEN {} ELSE {"bounds"})
                      \cup (IF Torn \in Range(plain[Len(plain)].hdrs \o plain[Len(plain)].trls)
                            THEN {"cut"} ELSE {})
                      \cup (IF moved THEN {"moved"} ELSE {})
      /\ at' = "nlde"
      /\ UNCHANGED <<fmt, size, air, odd, resent, hops>>

\* A router passes it on under the handle of the NWK layer.
Route ==
  /\ Goes("nlde", "forward") /\ hops < MaxHops /\ hops' = hops + 1
  /\ Work(<<SetParam(buf, Handle)>>)
  /\ UNCHANGED <<fmt, size, air, odd, resent>>

\* zb_nlde_data_indication_continue: the parsed header becomes the parameter.
NldeDataIndication ==
  LET apdu == CutLeft(buf, "nwk", NwkHdrSize(fmt))
  IN  /\ Goes("nlde", "ind") /\ Work(<<apdu, AssignParam(apdu, ApsInd)>>)
      /\ UNCHANGED <<fmt, size, air, odd, resent, hops>>

\* ZB_APS_HDR_CUT, or zb_aps_in_command_handle
CutApsHdr ==
  /\ Goes("ind", "delivered")
  /\ Work(<<CutLeft(buf, "aps", IF fmt.command THEN 2 + 1 ELSE ApsHdrSize(fmt))>>)
  /\ UNCHANGED <<fmt, size, air, odd, resent, hops>>

Next ==
  \/ Compose \/ DataRequest \/ NldeDataRequest \/ NotJoined \/ Forward \/ FillHdr
  \/ Send \/ Expire \/ NotEncrypted \/ McpsDataConfirm \/ BroadcastConfirm \/ NldeDataConfirm \/ Resend
  \/ Foreign \/ Receive \/ McpsDataIndication \/ Route \/ NldeDataIndication \/ CutApsHdr

Spec == Init /\ [][Next]_vars

-----------------------------------------------------------------------------
(* Each layer finds the headers where the layer before it left them, no move overwrites a  *)
(* parameter, the receiver gets the payload and nothing else, and the sender gets back     *)
(* the APS frame it sent, ready to be sent again.  Two confirms are for frames that were   *)
(* never sent and may cut what is not there: of a device that is not joined, and of a      *)
(* frame asked for that could not be encrypted, in a build that counts on its FCS.         *)
FrameRight ==
  /\ harm # {} => "not joined" \in odd \/ ("not encrypted" \in odd /\ fmt.fcs)
  /\ at = "delivered" /\ harm = {} => buf.hdrs = <<>> /\ buf.trls = <<>> /\ buf.len = size
  /\ at = "confirmed" /\ harm = {} => /\ buf.hdrs = <<<<"aps", ApsHdr(fmt)>>>> /\ buf.trls = <<>>
                                    /\ buf.len = size + ApsHdr(fmt)
=============================================================================
