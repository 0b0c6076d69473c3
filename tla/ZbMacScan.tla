------------------------------- MODULE ZbMacScan -------------------------------
(***************************************************************************)
(* Scans of the MAC (mac/mac_scan.c) on the callback queue and the alarms  *)
(* of the scheduler.  The MAC has one scan at a time, which it knows by    *)
(* pending_buf, the buffer of whatever operation wrote it last, and by the *)
(* kind of scan in that buffer's parameter.                                *)
(*                                                                         *)
(* The modules that EXTEND this one add the layers that ask for scans.     *)
(***************************************************************************)
EXTENDS Integers, Sequences, FiniteSets

CONSTANTS
  Buf, NoBuf,  \* buffers, and no buffer
  Channels     \* number of channels in a scan

ASSUME ScanAssumption == NoBuf \notin Buf /\ Channels \in Nat \ {0}

VARIABLES
  cb_q,         \* the callback queue
  alarms,       \* alarms that are set
  pending_buf,  \* MAC_CTX().pending_buf
  scan_type,    \* the kind of scan in a buffer's parameter
  mlme_scan_in_progress, unscanned_channels,
  beacon_found, got_realignment,
  broken        \* an assertion failed, or memory was used that is not the operation's

queue == <<cb_q, alarms>>
mac   == <<pending_buf, scan_type, mlme_scan_in_progress, unscanned_channels,
           beacon_found, got_realignment>>

Kinds == {"ed", "active", "orphan", "none"}

\* What a call says besides its buffer: a status, or a kind of device to join as.
Statuses == {"ok", "no_data", "fail", "router", "ed"}
Ok(c)    == IF c THEN "ok" ELSE "fail"

Call(f, b, s)  == [fn |-> f, buf |-> b, st |-> s]
Alarm(f, b)    == [fn |-> f, buf |-> b]
ScanStepAlarm  == Alarm("scan_step", NoBuf)

ScanTypeOK ==
  /\ \A i \in 1 .. Len(cb_q) : cb_q[i].fn \in STRING /\ cb_q[i].buf \in Buf \cup {NoBuf}
                               /\ cb_q[i].st \in Statuses
  /\ \A a \in alarms : a.buf \in Buf \cup {NoBuf}
  /\ pending_buf \in Buf \cup {NoBuf} /\ scan_type \in [Buf -> Kinds]
  /\ mlme_scan_in_progress \in BOOLEAN /\ unscanned_channels \in 0 .. Channels
  /\ beacon_found \in BOOLEAN /\ got_realignment \in BOOLEAN /\ broken \in BOOLEAN

ScanInit ==
  /\ alarms = {} /\ pending_buf = NoBuf /\ scan_type = [b \in Buf |-> "none"]
  /\ mlme_scan_in_progress = FALSE /\ unscanned_channels = 0
  /\ beacon_found = FALSE /\ got_realignment = FALSE /\ broken = FALSE

-----------------------------------------------------------------------------
(* The scheduler: one callback at a time, from the head of the queue. *)

Runs(f)     == ~broken /\ cb_q # <<>> /\ Head(cb_q).fn = f
Rings(f, b) == ~broken /\ Alarm(f, b) \in alarms
Then(calls) == cb_q' = Tail(cb_q) \o calls
Post(calls) == cb_q' = cb_q \o calls
Argument    == Head(cb_q).buf
Status      == Head(cb_q).st

\* ZB_MLME_BUILD_SCAN_REQUEST, and the call that follows it everywhere.
Builds(b, kind)   == scan_type' = [scan_type EXCEPT ![b] = kind]
ScanCall(b)       == Call("scan_request", b, "ok")

-----------------------------------------------------------------------------
(* Requests. *)

\* zb_mlme_scan_request: while a scan runs, the new request's buffer is
\* forgotten and the running scan's is confirmed at once.
ScanRequest ==
  /\ Runs("scan_request")
  /\ \/ /\ ~mlme_scan_in_progress
        /\ pending_buf' = Argument
        /\ Then(<<Call("handle_scan", Argument, "ok")>>) /\ UNCHANGED broken
     \/ /\ mlme_scan_in_progress
        /\ Then(<<Call("scan_confirm", pending_buf, "ok")>>)
        /\ broken' = (pending_buf = NoBuf) /\ UNCHANGED pending_buf
  /\ UNCHANGED <<alarms, scan_type, mlme_scan_in_progress, unscanned_channels,
                 beacon_found, got_realignment>>

\* zb_handle_scan_request with zb_mlme_ed_scan, zb_mlme_active_scan and
\* zb_mlme_orphan_scan.
HandleScanRequest ==
  /\ Runs("handle_scan")
  /\ pending_buf' = Argument /\ unscanned_channels' = Channels
  /\ IF scan_type[Argument] = "active"
     THEN /\ beacon_found' = FALSE
          /\ Then(<<Call("scan_step", NoBuf, "ok")>>) /\ UNCHANGED alarms
     ELSE /\ alarms' = alarms \cup {ScanStepAlarm}
          /\ Then(<<>>) /\ UNCHANGED beacon_found
  /\ got_realignment' = (got_realignment /\ scan_type[Argument] # "orphan")
  /\ UNCHANGED <<scan_type, mlme_scan_in_progress, broken>>

-----------------------------------------------------------------------------
(* Steps. *)

\* Whether a channel of the scan is left.
NextChannel == unscanned_channels > 0

\* The kind of scan that pending_buf stands for, if any.
PendingKind == IF pending_buf = NoBuf THEN "none" ELSE scan_type[pending_buf]

\* zb_mlme_scan_step, with the calls that were queued after it.  It reads the
\* kind of scan through pending_buf, whatever that is.
Step(rest, others) ==
  \/ /\ PendingKind = "none"
     /\ broken' = TRUE /\ cb_q' = rest /\ alarms' = others /\ UNCHANGED mac
  \/ /\ PendingKind # "none" /\ NextChannel
     /\ mlme_scan_in_progress' = TRUE
     /\ unscanned_channels' = unscanned_channels - 1
     /\ cb_q' = rest /\ alarms' = others \cup {ScanStepAlarm}
     /\ UNCHANGED <<pending_buf, scan_type, beacon_found, got_realignment, broken>>
  \/ /\ PendingKind # "none" /\ ~NextChannel
     /\ mlme_scan_in_progress' = FALSE
     /\ LET found == PendingKind = "ed" \/ beacon_found \/ got_realignment
        IN /\ cb_q' = Append(rest, Call("scan_confirm", pending_buf, Ok(found)))
           /\ beacon_found' = (beacon_found /\ ~found)
     /\ alarms' = others
     /\ UNCHANGED <<pending_buf, scan_type, unscanned_channels, got_realignment, broken>>

ScanStep ==
  \/ Runs("scan_step") /\ Step(Tail(cb_q), alarms)
  \/ Rings("scan_step", NoBuf) /\ Step(cb_q, alarms \ {ScanStepAlarm})

\* The MAC's part of a beacon.
HearsBeacon == beacon_found' = (beacon_found \/ mlme_scan_in_progress)

\* A coordinator realignment is taken only in an orphan scan.
Realignment ==
  /\ ~broken /\ mlme_scan_in_progress /\ PendingKind = "orphan" /\ ~got_realignment
  /\ got_realignment' = TRUE
  /\ UNCHANGED <<queue, pending_buf, scan_type, mlme_scan_in_progress, unscanned_channels,
                 beacon_found, broken>>

Scan == ScanRequest \/ HandleScanRequest \/ ScanStep
=============================================================================
