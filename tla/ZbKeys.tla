------------------------------- MODULE ZbKeys -------------------------------
(***************************************************************************)
(* The network keys of a secured network: the trust center gives its key   *)
(* to every device that joins, announces the next key and switches the     *)
(* network over to it (zdo_secur.c, apsme_secur.c), and every frame is     *)
(* secured and checked with the keys at hand (nwk_secur.c).                *)
(*                                                                         *)
(* A key is the number the trust center generated it under, its secrecy is *)
(* no concern here.  Frames wait unsecured in pend, in any order, because  *)
(* relayed broadcasts are held up; they are secured when they are sent,    *)
(* and arrive in the order they were sent on a link.  Sequence numbers are *)
(* those of one octet, frame counters do not come near their limit.  The   *)
(* routers are children of the trust center; a receiver that is awake is   *)
(* assumed (rx_on_when_idle).                                              *)
(***************************************************************************)
EXTENDS Integers, Sequences, FiniteSets, FiniteSetsExt

CONSTANTS
  Dev,           \* the devices
  TC,            \* the trust center, which is the coordinator
  Parent,        \* the parent of every other device
  EndDevices,    \* devices built without ZB_ROUTER_ROLE
  Restarting,    \* devices that may lose their memory
  MaxSwitches,   \* bound: key switches asked for
  MaxJoins,      \* bound: joins of all devices
  MaxTalks,      \* bound: data frames, key requests, key updates, changes of allow_auth
  MaxBusy        \* bound: frames under way when something new is asked for

N == 3                       \* ZB_SECUR_N_SECUR_MATERIAL
Zero == 99                   \* the all-zero key
Fresh == 98                  \* a key generated later than at the start
NoKey == 97                  \* no key: a search that fails, a frame not secured
None == 256                  \* no sequence number
All == "all"                 \* the destination of a broadcast
Octet(n) == n % 256

ASSUME KeysAssumption ==
  /\ TC \in Dev /\ All \notin Dev /\ IsFiniteSet(Dev)
  /\ Parent \in [Dev \ {TC} -> Dev]
  /\ \A d \in Dev \ {TC} : Parent[d] = TC \/ Parent[Parent[d]] = TC
  /\ EndDevices \subseteq Dev \ ({TC} \cup {Parent[d] : d \in Dev \ {TC}})
  /\ Restarting \subseteq Dev \ {TC}
  /\ {MaxSwitches, MaxJoins, MaxTalks, MaxBusy} \subseteq Nat

Children(d) == {c \in Dev \ {TC} : Parent[c] = d}
Neighbors(d) == Children(d) \cup IF d = TC THEN {} ELSE {Parent[d]}
Links == {l \in Dev \X Dev : l[2] \in Neighbors(l[1])}

VARIABLES
  dev,      \* per device: slots, active slot and sequence number, counters, authenticated
  on,       \* per device: it is on the network, as far as it knows
  rel,      \* per device: its relationship in the neighbor table of its parent
  heard,    \* per device and neighbor: key sequence number and counter of its last frame
  pend,     \* per device: frames to be sent
  net,      \* per link: frames under way
  keySw,    \* handle.key_sw: the broadcast after which the trust center switches
  allow,    \* handle.allow_auth
  late,     \* history: devices whose active key was overwritten by another one
  switches, joins, talks      \* what has been asked for so far

vars == <<dev, on, rel, heard, pend, net, keySw, allow, late, switches, joins, talks>>
boundVars == <<switches, joins, talks>>

Quiet == MapThenSumSet(LAMBDA d : Cardinality(pend[d]), Dev)
           + MapThenSumSet(LAMBDA l : Len(net[l]), Links) <= MaxBusy

Silent == [seq |-> 0, cnt |-> 0]
Blank == [slots |-> [i \in 0 .. N - 1 |-> [key |-> Zero, seq |-> 0]],
          i |-> 0, seq |-> 0, out |-> 0, prev |-> 0, auth |-> FALSE]

\* A frame: next hops, the device it is about, the key it carries, the status of an
\* UPDATE-DEVICE, whether it is to be secured, and the key a relayed frame came under.
Frame == [cmd |-> "data", to |-> {}, dest |-> All, key |-> Zero, kseq |-> 0,
          status |-> "none", safe |-> TRUE, same |-> None]

-----------------------------------------------------------------------------
(* The keys of a device.                                                   *)

KeyBySeq(v, n) ==
  LET at == {k \in 0 .. N - 1 : v.slots[(v.i + k) % N].seq = n}
  IN  IF at = {} THEN NoKey ELSE v.slots[(v.i + Min(at)) % N].key

ActiveKey(v) == v.slots[v.i].key

HasPreconfiguredKey(v) == v.slots[0].key # Zero

\* Mutant: the search stops at the number it looks for.
SearchStop_Found(v, n) ==
  LET shift == (v.i + 1) % N
      found == {k \in 0 .. N - 1 : v.slots[(k + shift) % N].seq = n}
  IN  IF found = {} THEN N ELSE Min(found)

\* The search goes on while the numbers are equal, and its count, not the slot it
\* stopped at, becomes the active slot.
SearchStop(v, n) ==
  LET shift == (v.i + 1) % N
      off == {k \in 0 .. N - 1 : v.slots[(k + shift) % N].seq # n}
  IN  IF off = {} THEN N ELSE Min(off)

SwitchedTo(v, k, n) == [v EXCEPT !.i = k, !.seq = n, !.prev = v.out, !.out = 0]

Switched(v, n, isTc) ==
  LET stop == SearchStop(v, n)
      shift == (v.i + 1) % N
  IN  CASE stop # N -> SwitchedTo(v, stop, n)
        [] stop = N /\ isTc ->
             SwitchedTo([v EXCEPT !.slots = [@ EXCEPT ![shift] = [key |-> Fresh, seq |-> n]]], shift, n)
        [] OTHER -> v

\* Mutant: a key that comes again starts the counter again.
StoreKey_Restart(v, key, n) ==
  LET at == IF key = Zero /\ n = 0 THEN 0 ELSE (v.i + Octet(n - v.seq)) % N
      w == IF key = Zero /\ n = 0 THEN v ELSE [v EXCEPT !.slots[at] = [key |-> key, seq |-> n]]
  IN  IF v.auth /\ at # v.i THEN w
      ELSE [w EXCEPT !.auth = TRUE, !.seq = n, !.out = 0, !.i = at]

\* A key that arrives goes to the slot its number is away from the active one; the
\* all-zero key number 0 confirms the keys the device has.
StoreKey(v, key, n) ==
  LET confirms == key = Zero /\ n = 0
      at == IF confirms THEN 0 ELSE (v.i + Octet(n - v.seq)) % N
      stored == IF confirms THEN v
                ELSE [v EXCEPT !.slots = [@ EXCEPT ![at] = [key |-> key, seq |-> n]],
                               !.seq = IF at = v.i THEN n ELSE v.seq,
                               !.out = IF at = v.i /\ n # v.seq THEN 0 ELSE v.out]
  IN  IF v.auth THEN stored
      ELSE [stored EXCEPT !.auth = TRUE, !.seq = n, !.out = 0, !.i = at]

\* A key that is not the active one comes for its slot: one of the past does, as numbers
\* count modulo 256 and slots modulo 3.
Overwrites(v, f) ==
  /\ v.auth /\ ~(f.key = Zero /\ f.kseq = 0)
  /\ f.kseq # v.seq /\ Octet(f.kseq - v.seq) % N = 0

-----------------------------------------------------------------------------
(* Sending.                                                                *)

KeyFor(v, secured) ==
  IF secured THEN [key |-> Zero, kseq |-> 0] ELSE [key |-> ActiveKey(v), kseq |-> v.seq]

TransportKey(d, to, safe, k) ==
  [cmd |-> "transport", to |-> to, dest |-> d, key |-> k.key, kseq |-> k.kseq,
   status |-> "none", safe |-> safe, same |-> None]

Awake(d) == {c \in Children(d) : rel[c] # "none"}

\* What a parent does about a device that joined: the trust center sends the key, a
\* router informs the trust center.
AuthenticateChild(p, c, secured) ==
  IF p = TC THEN TransportKey(c, {c}, FALSE, KeyFor(dev[TC], secured))
  ELSE [Frame EXCEPT !.cmd = "update", !.to = {TC}, !.dest = c,
                     !.status = IF secured THEN "secured rejoin" ELSE "unsecured"]

\* A device associates, or rejoins with the keys it has when the first of them is there.
\* The frames sent before on its link have been received.
Join(d, how) ==
  LET p == Parent[d]
      v == dev[d]
      secured == how = "rejoin" /\ HasPreconfiguredKey(v)
  IN  /\ on[p] /\ dev[p].auth /\ joins < MaxJoins /\ Quiet
      /\ IF how = "join" THEN ~on[d] ELSE v.auth /\ (~on[d] \/ rel[d] = "none")
      /\ secured => KeyBySeq(v, v.seq) # NoKey /\ KeyBySeq(dev[p], v.seq) = KeyBySeq(v, v.seq)
      /\ net[<<d, p>>] = <<>> /\ net[<<p, d>>] = <<>>
      /\ on' = [on EXCEPT ![d] = TRUE]
      /\ rel' = [rel EXCEPT ![d] = "unauthenticated"]
      /\ pend' = [pend EXCEPT ![p] = @ \cup {AuthenticateChild(p, d, secured)}]
      /\ dev' = IF secured THEN [dev EXCEPT ![d] = [v EXCEPT !.out = v.out + 1]] ELSE dev
      /\ joins' = joins + 1
      /\ UNCHANGED <<heard, net, keySw, allow, late, switches, talks>>

\* zb_secur_send_nwk_key_update_br
UpdateKeys ==
  LET v == dev[TC]
      n == Octet(v.seq + 1)
      f == TransportKey(All, Awake(TC), TRUE, [key |-> KeyBySeq(v, n), kseq |-> n])
  IN  /\ KeyBySeq(v, n) # NoKey /\ Awake(TC) # {} /\ talks < MaxTalks /\ Quiet
      /\ pend' = [pend EXCEPT ![TC] = @ \cup {f}]
      /\ talks' = talks + 1
      /\ UNCHANGED <<dev, on, rel, heard, net, keySw, allow, late, switches, joins>>

\* zb_secur_send_nwk_key_switch to a broadcast address
SwitchBroadcast ==
  LET f == [Frame EXCEPT !.cmd = "switch", !.to = Awake(TC), !.kseq = Octet(dev[TC].seq + 1)]
  IN  /\ keySw = "no" /\ switches < MaxSwitches /\ Quiet
      /\ keySw' = "asked"
      /\ pend' = [pend EXCEPT ![TC] = @ \cup {f}]
      /\ switches' = switches + 1
      /\ UNCHANGED <<dev, on, rel, heard, net, allow, late, joins, talks>>

\* zb_secur_send_nwk_key_switch to every neighbor: the trust center switches first
SwitchUnicast ==
  LET v == Switched(dev[TC], Octet(dev[TC].seq + 1), TRUE)
      To(c) == [Frame EXCEPT !.cmd = "switch", !.to = {c}, !.dest = c, !.kseq = v.seq]
  IN  /\ switches < MaxSwitches /\ Quiet
      /\ dev' = [dev EXCEPT ![TC] = v]
      /\ pend' = [pend EXCEPT ![TC] = @ \cup {To(c) : c \in Awake(TC)}]
      /\ switches' = switches + 1
      /\ UNCHANGED <<on, rel, heard, net, keySw, allow, late, joins, talks>>

Talk(d, x, cmd) ==
  /\ on[d] /\ dev[d].auth /\ x \in Neighbors(d) /\ talks < MaxTalks /\ Quiet
  /\ cmd = "request" => x = TC
  /\ pend' = [pend EXCEPT ![d] = @ \cup {[Frame EXCEPT !.cmd = cmd, !.to = {x}, !.dest = x]}]
  /\ talks' = talks + 1
  /\ UNCHANGED <<dev, on, rel, heard, net, keySw, allow, late, switches, joins>>

\* A relayed broadcast keeps the key it came under and takes the counter kept from before
\* the last switch; a frame whose key is not there is not sent.
Secured(d, f) ==
  LET v == dev[d]
      same == f.same # None /\ f.same # v.seq
      n == IF same THEN f.same ELSE v.seq
  IN  [key |-> KeyBySeq(v, n), seq |-> n, cnt |-> IF same THEN v.prev ELSE v.out,
       dev |-> IF same THEN [v EXCEPT !.prev = @ + 1] ELSE [v EXCEPT !.out = @ + 1]]

Transmit(d) == \E f \in pend[d] :
  LET safe == f.safe /\ dev[d].auth
      s == Secured(d, f)
      onAir == [f |-> f, by |-> IF safe THEN s.key ELSE NoKey,
                seq |-> IF safe THEN s.seq ELSE 0, cnt |-> IF safe THEN s.cnt ELSE 0]
      sent == safe => s.key # NoKey
  IN  /\ pend' = [pend EXCEPT ![d] = @ \ {f}]
      /\ dev' = IF safe THEN [dev EXCEPT ![d] = s.dev] ELSE dev
      /\ net' = [l \in Links |-> IF sent /\ l[1] = d /\ l[2] \in f.to
                                 THEN Append(net[l], onAir) ELSE net[l]]
      /\ keySw' = IF d = TC /\ f.cmd = "switch" /\ f.dest = All THEN "sent" ELSE keySw
      /\ UNCHANGED <<on, rel, heard, allow, late, boundVars>>

\* APSDE-DATA.confirm of the switch that was broadcast
SwitchSent ==
  /\ keySw = "sent"
  /\ keySw' = "no"
  /\ dev' = [dev EXCEPT ![TC] = Switched(@, Octet(@.seq + 1), TRUE)]
  /\ UNCHANGED <<on, rel, heard, pend, net, allow, late, boundVars>>

-----------------------------------------------------------------------------
(* Receiving: zb_nwk_unsecure_frame, then the command.                     *)

\* The entry of the sender: its counter starts again when its key changes.
EntryFor(d, from, a) ==
  IF heard[d][from].seq = a.seq THEN heard[d][from] ELSE [seq |-> a.seq, cnt |-> 0]

CounterOk(d, from, a) == EntryFor(d, from, a).cnt <= a.cnt

\* The frame can be read: it is not secured, or the key and the counter are right.
Readable(d, from, a) ==
  \/ a.by = NoKey
  \/ /\ dev[d].auth
     /\ KeyBySeq(dev[d], a.seq) = a.by
     /\ CounterOk(d, from, a)

EntryAfter(d, from, a) ==
  LET e == EntryFor(d, from, a)
  IN  CASE a.by = NoKey \/ ~dev[d].auth -> heard[d][from]
        [] KeyBySeq(dev[d], a.seq) # NoKey /\ CounterOk(d, from, a) -> [e EXCEPT !.cnt = a.cnt]
        [] OTHER -> e

\* A child is unauthenticated until a frame of its own can be read.
RelAfter(d, from, a) ==
  IF from = TC \/ a.by = NoKey \/ ~dev[d].auth \/ from \notin Children(d) THEN rel
  ELSE [rel EXCEPT ![from] = CASE @ = "none" -> "none"
                               [] Readable(d, from, a) -> "child"
                               [] OTHER -> "unauthenticated"]

\* A frame under a newer key switches the receiver over.
Newer(a, v) == Octet(a.seq - v.seq) \in 1 .. 126

DevAfter(d, from, a) ==
  IF a.by # NoKey /\ Readable(d, from, a) /\ Newer(a, dev[d])
  THEN Switched(dev[d], a.seq, d = TC) ELSE dev[d]

Relayed(d, from, a) ==
  LET to == {c \in Children(d) : rel[c] # "none"} \cup (Neighbors(d) \ Children(d))
  IN  IF a.f.dest = All /\ d \notin EndDevices /\ to \ {from} # {}
      THEN {[a.f EXCEPT !.to = to \ {from}, !.same = a.seq]} ELSE {}

Announce(d) == [Frame EXCEPT !.to = {Parent[d]}]

Answered(d, v, frames, r) ==
  /\ dev' = [dev EXCEPT ![d] = v]
  /\ pend' = [pend EXCEPT ![d] = @ \cup frames]
  /\ rel' = r

\* zb_aps_in_transport_key of a key for this device or for all
GotKey(d, from, a, v, r) ==
  Answered(d, StoreKey(v, a.f.key, a.f.kseq),
           Relayed(d, from, a) \cup IF v.auth THEN {} ELSE {Announce(d)}, r)

\* Mutant: the key is passed on secured by a key the child does not have.
PassKey_Secured(d, a, v, r) ==
  LET c == a.f.dest
  IN  IF c \in Children(d) /\ r[c] # "none"
      THEN Answered(d, v, {TransportKey(c, {c}, TRUE, [key |-> a.f.key, kseq |-> a.f.kseq])},
                    [r EXCEPT ![c] = "child"])
      ELSE Answered(d, v, {}, r)

\* the same for a key that is for a child
PassKey(d, a, v, r) ==
  LET c == a.f.dest
  IN  IF c \in Children(d) /\ r[c] # "none"
      THEN Answered(d, v, {TransportKey(c, {c}, r[c] # "unauthenticated",
                                        [key |-> a.f.key, kseq |-> a.f.kseq])},
                    [r EXCEPT ![c] = "child"])
      ELSE Answered(d, v, {}, r)

\* zb_apsme_update_device_indication
GotUpdate(from, a, v, r) ==
  LET f == IF allow THEN TransportKey(a.f.dest, {from}, TRUE,
                                      KeyFor(v, a.f.status = "secured rejoin"))
           ELSE [Frame EXCEPT !.cmd = "remove", !.to = {from}, !.dest = a.f.dest]
  IN  Answered(TC, v, {f}, r)

\* zb_apsme_remove_device_indication: a child that is not authenticated is forgotten
\* without being told.
GotRemove(d, a, v, r) ==
  LET c == a.f.dest
      leave == [Frame EXCEPT !.cmd = "leave", !.to = {c}, !.dest = c,
                             !.safe = HasPreconfiguredKey(v)]
  IN  IF c \in Children(d) /\ r[c] # "none"
      THEN Answered(d, v, IF r[c] = "child" THEN {leave} ELSE {}, [r EXCEPT ![c] = "none"])
      ELSE Answered(d, v, {}, r)

\* zb_apsme_request_key_indication
GotRequest(from, v, r) ==
  Answered(TC, v, IF r[from] = "child"
                  THEN {TransportKey(from, {from}, FALSE, KeyFor(v, FALSE))} ELSE {}, r)

\* Only builds without the router role look at a SWITCH-KEY.
GotSwitch(d, from, a, v, r) ==
  Answered(d, IF d \in EndDevices THEN Switched(v, a.f.kseq, FALSE) ELSE v,
           Relayed(d, from, a), r)

Receive(d, from) ==
  LET a == Head(net[<<from, d>>])
      v == DevAfter(d, from, a)
      r == RelAfter(d, from, a)
      cmd == a.f.cmd
  IN  /\ net[<<from, d>>] # <<>>
      /\ net' = [net EXCEPT ![<<from, d>>] = Tail(@)]
      /\ heard' = IF on[d] THEN [heard EXCEPT ![d][from] = EntryAfter(d, from, a)] ELSE heard
      /\ on' = IF cmd = "leave" /\ Readable(d, from, a) THEN [on EXCEPT ![d] = FALSE] ELSE on
      /\ IF ~on[d] \/ ~Readable(d, from, a)
         THEN Answered(d, dev[d], {}, IF on[d] THEN r ELSE rel)
         ELSE CASE cmd = "transport" /\ a.f.dest \in {d, All} -> GotKey(d, from, a, v, r)
                [] cmd = "transport" /\ a.f.dest \notin {d, All} -> PassKey(d, a, v, r)
                [] cmd = "update" -> GotUpdate(from, a, v, r)
                [] cmd = "remove" -> GotRemove(d, a, v, r)
                [] cmd = "request" -> GotRequest(from, v, r)
                [] cmd = "switch" -> GotSwitch(d, from, a, v, r)
                [] cmd \in {"data", "leave"} -> Answered(d, v, Relayed(d, from, a), r)
      /\ late' = IF on[d] /\ Readable(d, from, a) /\ cmd = "transport" /\ a.f.dest \in {d, All}
                    /\ Overwrites(v, a.f)
                 THEN late \cup {d} ELSE late
      /\ UNCHANGED <<keySw, allow, boundVars>>

\* A broadcast is not acknowledged and may be lost on a link.
Lose(d, from) ==
  /\ net[<<from, d>>] # <<>> /\ Head(net[<<from, d>>]).f.dest = All
  /\ net' = [net EXCEPT ![<<from, d>>] = Tail(@)]
  /\ UNCHANGED <<dev, on, rel, heard, pend, keySw, allow, late, boundVars>>

\* Mgmt_Permit_Joining of trust center significance
SetAllowAuth ==
  /\ allow' = ~allow
  /\ talks < MaxTalks /\ Quiet /\ talks' = talks + 1
  /\ UNCHANGED <<dev, on, rel, heard, pend, net, keySw, late, switches, joins>>

\* A device restarts: nothing is kept, and its children are no longer known to it.
Restart(d) ==
  /\ d \in Restarting /\ on[d]
  /\ dev' = [dev EXCEPT ![d] = Blank]
  /\ on' = [on EXCEPT ![d] = FALSE]
  /\ rel' = [c \in DOMAIN rel |-> IF c \in Children(d) THEN "none" ELSE rel[c]]
  /\ heard' = [heard EXCEPT ![d] = [x \in Neighbors(d) |-> Silent]]
  /\ pend' = [pend EXCEPT ![d] = {}]
  /\ UNCHANGED <<net, keySw, allow, late, boundVars>>

\* secur_generate_keys, secur_tc_init
Init ==
  /\ dev = [d \in Dev |->
       IF d = TC THEN [Blank EXCEPT !.slots = [i \in 0 .. N - 1 |-> [key |-> i, seq |-> i]],
                                    !.auth = TRUE]
       ELSE Blank]
  /\ on = [d \in Dev |-> d = TC]
  /\ rel = [d \in Dev \ {TC} |-> "none"]
  /\ heard = [d \in Dev |-> [x \in Neighbors(d) |-> Silent]]
  /\ pend = [d \in Dev |-> {}]
  /\ net = [l \in Links |-> <<>>]
  /\ keySw = "no" /\ allow = TRUE /\ late = {}
  /\ switches = 0 /\ joins = 0 /\ talks = 0

Next ==
  \/ \E d \in Dev \ {TC} : \E how \in {"join", "rejoin"} : Join(d, how)
  \/ UpdateKeys \/ SwitchBroadcast \/ SwitchUnicast \/ SwitchSent \/ SetAllowAuth
  \/ \E d \in Dev : Transmit(d)
  \/ \E d \in Dev : \E x \in Neighbors(d) : \E cmd \in {"data", "request"} : Talk(d, x, cmd)
  \/ \E l \in Links : Receive(l[2], l[1])
  \/ \E l \in Links : Lose(l[2], l[1])
  \/ \E d \in Restarting : Restart(d)

Fairness ==
  WF_vars(\/ \E d \in Dev : Transmit(d)
          \/ \E l \in Links : Receive(l[2], l[1])
          \/ SwitchSent)

Spec == Init /\ [][Next]_vars /\ Fairness

-----------------------------------------------------------------------------
(* Properties.                                                             *)

\* One type invariant.
TypeOK ==
  /\ \A d \in Dev : dev[d].i \in 0 .. N - 1 /\ dev[d].seq \in 0 .. 255
  /\ on \in [Dev -> BOOLEAN]
  /\ rel \in [Dev \ {TC} -> {"none", "unauthenticated", "child"}]
  /\ keySw \in {"no", "asked", "sent"}

\* The trust center was asked to switch, and has switched, once at most.  At its second
\* switch it takes the wrong slot, so that it hands out the first key under the number of
\* the second.
FirstSwitch == switches <= 1 /\ dev[TC].seq <= 1

\* A sequence number means the same key everywhere: whatever was announced, switched to,
\* missed or handed to a device that joined meanwhile, no two devices hold different keys
\* under one number (zb_apsme_transport_key_indication, secur_nwk_key_switch).
KeysAgree ==
  FirstSwitch => \A c, d \in Dev : \A i, j \in 0 .. N - 1 :
    LET k == dev[c].slots[i]
        l == dev[d].slots[j]
    IN  k.seq = l.seq /\ Zero \notin {k.key, l.key} => k.key = l.key

\* A router or the trust center holds the key it has switched to, in the slot it takes for
\* the active one: it never gets into a state where zb_nwk_secure_frame refuses all its
\* frames, or where it hands out another key than the one it uses.  A device that lost its
\* memory may be told to use a key it does not have, and one that got an older key than its
\* own has later ones one slot off.
CanSpeak ==
  FirstSwitch => \A d \in Dev \ (EndDevices \cup Restarting \cup late) : dev[d].auth =>
    /\ KeyBySeq(dev[d], dev[d].seq) \notin {NoKey, Zero}
    /\ dev[d].slots[dev[d].i].seq = dev[d].seq

\* Up to the first switch, what is under a number in one place is what is under it in
\* all others, and what is in use is there.
KeysSound == KeysAgree /\ CanSpeak

\* The counter of a device under one key never goes back, or its neighbors would refuse
\* its frames (nwk_secur.c:222); a restart is another matter, and so is going back to an
\* older key.
CounterGoesOn ==
  \A d \in Dev \ (EndDevices \cup late') :
    dev[d].auth /\ dev'[d].auth /\ dev'[d].seq = dev[d].seq => dev'[d].out >= dev[d].out
CountersGrow == [][CounterGoesOn]_vars

\* A router can read what the trust center sends: it did not miss the key in use.
Follows(d) == dev[d].auth => KeyBySeq(dev[d], dev[TC].seq) = KeyBySeq(dev[TC], dev[TC].seq)

\* A device that joins gets the key, as long as the trust center admits devices and the
\* router it joins at keeps its memory and does not miss a key (secur_authenticate_child and
\* the UPDATE-DEVICE of a router).
AuthEnds ==
  \A d \in Dev \ {TC} : [](allow /\ Follows(Parent[d])) =>
    ((on[d] /\ rel[d] = "unauthenticated") ~> (dev[d].auth \/ ~on[d] \/ rel[d] = "none"))

=============================================================================
