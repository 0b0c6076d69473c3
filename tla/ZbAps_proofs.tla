---------------------------- MODULE ZbAps_proofs ----------------------------
(***************************************************************************)
(* The APS data service for any number of requests, buffers, entries and   *)
(* retries: the table of frames to be acknowledged agrees with the buffers *)
(* and with the alarms, whatever the network does to the frames, and the   *)
(* two devices give the service of ZbApsService, however often the counter *)
(* wraps.                                                                  *)
(***************************************************************************)
EXTENDS ZbAps, ZbZdoBind, FiniteSetTheorems, WellFoundedInduction, TLAPS

\* Some entry waits for the frame of buffer b.
Held(b) == \E i \in Slots : hash[i].buf = b

\* A buffer in use is in one place: asked, resolving, at the network layer, confirmed,
\* or, after the confirm of the network layer, at an entry alone.
BufferAt(b) ==
  /\ frame[b] = NoReq =>
       b \notin data_req /\ b \notin resolving /\ nwk[b] = "no" /\ conf[b] = "no" /\ ~Held(b)
  /\ b \in data_req => b \notin resolving /\ nwk[b] = "no" /\ conf[b] = "no" /\ ~Held(b)
  /\ b \in resolving => nwk[b] = "no" /\ conf[b] = "no" /\ ~Held(b)
  /\ nwk[b] # "no" => conf[b] = "no"
  /\ conf[b] # "no" => ~Held(b)
  /\ frame[b] # NoReq =>
       /\ result[frame[b]] # "idle"
       /\ b \in data_req \/ b \in resolving \/ nwk[b] # "no" \/ conf[b] # "no" \/ Held(b)

\* An entry in use has a buffer of its own, of a frame that asked for an
\* acknowledgement, and one alarm; it is confirmed once the network layer gave it back.
EntryAt(i) ==
  /\ hash[i].state = "free" <=> hash[i].buf = NoBuf
  /\ hash[i].state # "free" =>
       /\ kind[frame[hash[i].buf]] # "plain"
       /\ hash[i].state = "confirmed" <=> nwk[hash[i].buf] = "no"
  /\ alarm[i] = IF hash[i].state = "free" THEN 0 ELSE 1

BufferOwned == \A b \in Bufs : BufferAt(b)
EntrySound  == \A i \in Slots : EntryAt(i)
OneEntry    == \A i, j \in Slots : hash[i].buf = hash[j].buf /\ hash[i].buf # NoBuf => i = j

Sound == BufferOwned /\ EntrySound /\ OneEntry

\* The inductive invariant.  Nothing is said of the states that are not followed.
IInv == TypeOK /\ (broken = "no" => Sound)

-----------------------------------------------------------------------------
\* A set of slots that is not empty has a first one.
LEMMA LowestIsIn ==
  ASSUME NEW S \in SUBSET Slots, S # {}
  PROVE  Lowest(S) \in S
<1>1. S \subseteq Nat
  BY ApsAssumption DEF Slots
<1>2. PICK i \in S : \A j \in S : <<j, i>> \notin OpToRel(<, Nat)
  BY <1>1, NatLessThanWellFounded, WFMin, Zenon
<1>3. ASSUME NEW j \in S PROVE i <= j
  <2>1. <<j, i>> \notin OpToRel(<, Nat)
    BY <1>2
  <2>2. <<j, i>> \in Nat \X Nat
    BY <1>1
  <2>3. ~ (j < i)
    BY <2>1, <2>2, Zenon DEF OpToRel
  <2> QED
    BY <1>1, <2>3
<1>4. \E k \in S : \A j \in S : k <= j
  BY <1>2, <1>3
<1> QED
  BY <1>4 DEF Lowest

\* The initial state.
LEMMA InitIInv == Init => IInv
<1> SUFFICES ASSUME Init PROVE IInv
  OBVIOUS
<1>1. TypeOK
  <2>1. FreeEntry \in Entry
    BY ApsAssumption DEF Entry, FreeEntry, States, Counter
  <2>2. <<>> \in Seq(Reqs) /\ Len(<<>>) = 0
    OBVIOUS
  <2>3. 0 \in Counter /\ 0 \in 0 .. DupClock /\ 0 \in 0 .. MaxCopies /\ 0 <= AckQSize
    BY ApsAssumption DEF Counter
  <2>4. hash \in [Slots -> Entry] /\ alarm \in [Slots -> 0 .. 2]
    BY <2>1 DEF Init
  <2>5. ack_q \in Seq(Reqs) /\ Len(ack_q) <= AckQSize /\ dup \in [ctr : Counter, clock : 0 .. DupClock]
    BY <2>2, <2>3 DEF Init
  <2>6. net \in [Reqs -> 0 .. MaxCopies] /\ acks \in [Reqs -> 0 .. MaxCopies]
    BY <2>3 DEF Init
  <2>7. ctr \in [Reqs -> Counter] /\ kind \in [Reqs -> Kinds] /\ frame \in [Bufs -> Reqs \cup {NoReq}]
    BY <2>3 DEF Init, Kinds
  <2> QED
    BY <2>4, <2>5, <2>6, <2>7 DEF Init, TypeOK
<1>2. Sound
  BY NoBufAssumption DEF Init, Sound, BufferOwned, BufferAt, EntrySound, EntryAt, OneEntry, Held, FreeEntry
<1> QED
  BY <1>1, <1>2 DEF IInv

-----------------------------------------------------------------------------
(* One lemma for each action of the sender. *)

\* What the type invariant says of the entries, and of numbers.
LEMMA Types ==
  ASSUME TypeOK
  PROVE  /\ \A i \in Slots : /\ hash[i] \in Entry /\ hash[i].state \in States
                             /\ hash[i].ctr \in Counter /\ hash[i].buf \in Bufs \cup {NoBuf}
                             /\ hash[i].command \in BOOLEAN /\ hash[i].retries \in 0 .. Retries
         /\ \A b \in Bufs : frame[b] # NoReq => frame[b] \in Reqs
         /\ NoReq \notin Reqs /\ NoBuf \notin Bufs
<1>1. \A i \in Slots : hash[i] \in Entry
  BY DEF TypeOK
<1>2. \A e \in Entry : /\ e.state \in States /\ e.ctr \in Counter /\ e.buf \in Bufs \cup {NoBuf}
                       /\ e.command \in BOOLEAN /\ e.retries \in 0 .. Retries
  BY DEF Entry
<1>3. \A b \in Bufs : frame[b] # NoReq => frame[b] \in Reqs
  BY DEF TypeOK
<1>4. NoReq \notin Reqs
  BY ApsAssumption DEF NoReq, Reqs
<1> QED
  BY <1>1, <1>2, <1>3, <1>4, NoBufAssumption

\* What a step leaves of a buffer and of an entry.
Unmoved(c) == /\ frame'[c] = frame[c] /\ nwk'[c] = nwk[c] /\ conf'[c] = conf[c]
              /\ c \in data_req' <=> c \in data_req
              /\ c \in resolving' <=> c \in resolving
              /\ Held(c)' <=> Held(c)

LEMMA UnmovedBuffer ==
  ASSUME NEW c \in Bufs, BufferAt(c), Unmoved(c),
         frame[c] # NoReq => result'[frame[c]] = result[frame[c]]
  PROVE  BufferAt(c)'
BY DEF BufferAt, Unmoved

LEMMA UnmovedEntry ==
  ASSUME NEW j \in Slots, EntryAt(j), hash'[j] = hash[j], alarm'[j] = alarm[j],
         hash[j].state # "free" =>
           /\ nwk'[hash[j].buf] = nwk[hash[j].buf] /\ frame'[hash[j].buf] = frame[hash[j].buf]
           /\ kind'[frame[hash[j].buf]] = kind[frame[hash[j].buf]]
  PROVE  EntryAt(j)'
BY DEF EntryAt

\* An entry of a slot is replaced.
LEMMA EntryPut ==
  ASSUME TypeOK, NEW i \in Slots, NEW e \in Entry, hash' = [hash EXCEPT ![i] = e]
  PROVE  /\ hash' \in [Slots -> Entry] /\ hash'[i] = e
         /\ \A j \in Slots : j # i => hash'[j] = hash[j]
         /\ \A c \in Bufs : c # e.buf /\ c # hash[i].buf => (Held(c)' <=> Held(c))
         /\ \A c \in Bufs : c = e.buf => Held(c)'
<1>1. hash' \in [Slots -> Entry] /\ hash'[i] = e /\ \A j \in Slots : j # i => hash'[j] = hash[j]
  BY DEF TypeOK
<1> QED
  BY <1>1 DEF Held

\* The alarm of a slot is started.
LEMMA AlarmStarted ==
  ASSUME TypeOK, NEW i \in Slots, alarm[i] = 0, alarm' = [alarm EXCEPT ![i] = @ + 1]
  PROVE  /\ alarm' \in [Slots -> 0 .. 2] /\ alarm'[i] = 1
         /\ \A j \in Slots : j # i => alarm'[j] = alarm[j]
<1>1. alarm \in [Slots -> 0 .. 2]
  BY DEF TypeOK
<1> QED
  BY <1>1

\* The sound state of an entry's buffer.
LEMMA EntryBuffer ==
  ASSUME IInv, broken = "no", NEW i \in Slots, hash[i].state # "free"
  PROVE  LET b == hash[i].buf
         IN  /\ b \in Bufs /\ frame[b] \in Reqs /\ Held(b)
             /\ b \notin data_req /\ b \notin resolving /\ conf[b] = "no"
             /\ \A j \in Slots : j # i => hash[j].buf # b
             /\ hash[i].state = "confirmed" <=> nwk[b] = "no"
             /\ kind[frame[b]] # "plain"
<1> DEFINE b == hash[i].buf
<1>1. TypeOK /\ EntryAt(i) /\ OneEntry
  BY DEF IInv, Sound, EntrySound
<1>2. b \in Bufs /\ b # NoBuf
  BY <1>1, Types DEF EntryAt
<1>3. BufferAt(b) /\ Held(b)
  BY <1>2 DEF IInv, Sound, BufferOwned, Held
<1>4. frame[b] \in Reqs
  BY <1>1, <1>2, <1>3, Types DEF BufferAt
<1> QED
  BY <1>1, <1>2, <1>3, <1>4 DEF BufferAt, EntryAt, OneEntry

LEMMA AskDataIInv ==
  ASSUME IInv, broken = "no", NEW r \in Reqs, NEW b \in Bufs, NEW k \in {"plain", "data"},
         AskData(r, b, k)
  PROVE  IInv'
<1>1. TypeOK'
  BY DEF IInv, AskData, TypeOK, receiverVars, Kinds
<1>2. TypeOK /\ BufferOwned /\ EntrySound /\ OneEntry
  BY DEF IInv, Sound
<1>3. /\ \A c \in Bufs : frame[c] # NoReq => frame[c] \in Reqs /\ frame[c] # r
      /\ \A q \in Reqs : q # r => kind'[q] = kind[q] /\ result'[q] = result[q]
      /\ result'[r] = "asked"
      /\ \A c \in Bufs : c # b => frame'[c] = frame[c]
      /\ frame[b] = NoReq /\ frame'[b] = r /\ r # NoReq
  BY <1>2, Types DEF BufferOwned, BufferAt, AskData, TypeOK
<1>4. BufferOwned'
  <2> SUFFICES ASSUME NEW c \in Bufs PROVE BufferAt(c)'
    BY DEF BufferOwned
  <2>1. CASE c # b
    BY <1>2, <1>3, <2>1, UnmovedBuffer DEF BufferOwned, Unmoved, Held, AskData
  <2>2. CASE c = b
    BY <1>2, <1>3, <2>2 DEF BufferOwned, BufferAt, Held, AskData
  <2> QED
    BY <2>1, <2>2
<1>5. EntrySound' /\ OneEntry'
  <2>1. ASSUME NEW j \in Slots PROVE EntryAt(j)'
    <3>1. hash[j].state # "free" => hash[j].buf \in Bufs /\ frame[hash[j].buf] \in Reqs
      BY EntryBuffer
    <3>2. hash[j].state # "free" => frame[hash[j].buf] # r /\ frame[hash[j].buf] # NoReq
      BY <1>3, <3>1, Types, <1>2
    <3> QED
      BY <1>2, <1>3, <3>1, <3>2, UnmovedEntry DEF EntrySound, AskData
  <2>2. hash' = hash
    BY DEF AskData
  <2> QED
    BY <1>2, <2>1, <2>2 DEF EntrySound, OneEntry
<1> QED
  BY <1>1, <1>4, <1>5 DEF IInv, Sound

LEMMA WaitForPeerIInv ==
  ASSUME IInv, broken = "no", NEW b \in Bufs, WaitForPeer(b) \/ PeerKnown(b)
  PROVE  IInv'
<1>1. TypeOK'
  BY DEF IInv, WaitForPeer, PeerKnown, TypeOK, receiverVars
<1>2. BufferOwned'
  <2>1. BufferOwned
    BY DEF IInv, Sound
  <2>2. CASE WaitForPeer(b)
    BY <2>1, <2>2 DEF BufferOwned, BufferAt, Held, WaitForPeer
  <2>3. CASE PeerKnown(b)
    BY <2>1, <2>3 DEF BufferOwned, BufferAt, Held, PeerKnown
  <2> QED
    BY <2>2, <2>3
<1>3. EntrySound' /\ OneEntry'
  BY DEF IInv, Sound, EntrySound, EntryAt, OneEntry, WaitForPeer, PeerKnown
<1> QED
  BY <1>1, <1>2, <1>3 DEF IInv, Sound

LEMMA NotBoundIInv ==
  ASSUME IInv, broken = "no", NEW b \in Bufs, NotBound(b)
  PROVE  IInv'
<1>1. TypeOK /\ BufferOwned /\ EntrySound /\ OneEntry
  BY DEF IInv, Sound
<1>2. /\ b \in data_req /\ data_req' = data_req \ {b} /\ conf' = [conf EXCEPT ![b] = "ok"]
      /\ doubtful' = doubtful \cup {frame[b]}
      /\ UNCHANGED <<aps_counter, hash, alarm, frame, resolving, nwk, ctr, kind, result,
                     broken, receiverVars, net, acks>>
  BY DEF NotBound
<1>3. frame[b] \in Reqs
  BY <1>1, <1>2, Types DEF BufferOwned, BufferAt
<1>4. TypeOK'
  BY <1>1, <1>2, <1>3 DEF TypeOK, receiverVars
<1>5. conf'[b] = "ok" /\ \A c \in Bufs : c # b => conf'[c] = conf[c]
  BY <1>1, <1>2 DEF TypeOK
<1>6. BufferOwned'
  BY <1>1, <1>2, <1>5 DEF BufferOwned, BufferAt, Held
<1>7. EntrySound' /\ OneEntry'
  BY <1>1, <1>2 DEF EntrySound, EntryAt, OneEntry
<1> QED
  BY <1>4, <1>6, <1>7 DEF IInv, Sound

LEMMA SendElsewhereIInv ==
  ASSUME IInv, broken = "no", SendElsewhere
  PROVE  IInv'
<1>1. aps_counter' \in Counter
  BY ApsAssumption DEF IInv, TypeOK, SendElsewhere, IncCounter, Counter
<1>2. TypeOK'
  BY <1>1 DEF IInv, TypeOK, SendElsewhere, receiverVars
<1>3. Sound'
  BY DEF IInv, Sound, BufferOwned, BufferAt, Held, EntrySound, EntryAt, OneEntry, SendElsewhere
<1> QED
  BY <1>2, <1>3 DEF IInv

\* A request takes a number.
LEMMA TakeCounterTypes ==
  ASSUME TypeOK, NEW r \in Reqs, TakeCounter(r)
  PROVE  ctr' \in [Reqs -> Counter] /\ aps_counter' \in Counter /\ doubtful' \subseteq Reqs
<1>1. aps_counter \in Counter /\ ctr \in [Reqs -> Counter] /\ doubtful \subseteq Reqs
  BY DEF TypeOK
<1>2. aps_counter' \in Counter
  BY <1>1, ApsAssumption DEF TakeCounter, IncCounter, Counter
<1>3. InUse(aps_counter) \subseteq Reqs
  BY DEF InUse
<1> QED
  BY <1>1, <1>2, <1>3 DEF TakeCounter

\* What changes in an entry changes nothing else of it.
LEMMA EntryChanges ==
  ASSUME NEW e \in Entry, NEW s \in States, NEW n \in 0 .. Retries
  PROVE  /\ [e EXCEPT !.state = s] \in Entry /\ [e EXCEPT !.state = s].buf = e.buf
         /\ [e EXCEPT !.state = s].state = s /\ [e EXCEPT !.state = s].ctr = e.ctr
         /\ [e EXCEPT !.state = s].command = e.command
         /\ [e EXCEPT !.retries = n] \in Entry /\ [e EXCEPT !.retries = n].buf = e.buf
         /\ [e EXCEPT !.retries = n].state = e.state /\ [e EXCEPT !.retries = n].ctr = e.ctr
         /\ [e EXCEPT !.retries = n].command = e.command
         /\ [e EXCEPT !.command = TRUE] \in Entry /\ [e EXCEPT !.command = TRUE].buf = e.buf
         /\ [e EXCEPT !.command = TRUE].state = e.state
         /\ [e EXCEPT !.command = TRUE].ctr = e.ctr
         /\ [e EXCEPT !.command = TRUE].command = TRUE
BY DEF Entry

\* A new entry waits for the confirm of its frame.
LEMMA NewEntryType ==
  ASSUME TypeOK, NEW r \in Reqs, NEW b \in Bufs
  PROVE  /\ NewEntry(r, b) \in Entry
         /\ NewEntry(r, b).state = "not confirmed" /\ NewEntry(r, b).buf = b
         /\ NewEntry(r, b).ctr = aps_counter
         /\ NewEntry(r, b).command = (kind[r] = "command")
<1>1. ASSUME NEW c \in BOOLEAN
      PROVE  [state |-> "not confirmed", ctr |-> aps_counter, buf |-> b, command |-> c,
              retries |-> Retries] \in Entry
  <2>1. Retries \in 0 .. Retries
    BY ApsAssumption
  <2>2. aps_counter \in Counter /\ "not confirmed" \in States
    BY DEF TypeOK, States
  <2> QED
    BY <2>1, <2>2 DEF Entry
<1>2. (kind[r] = "command") \in BOOLEAN
  OBVIOUS
<1>3. NewEntry(r, b) \in Entry
  BY <1>1, <1>2 DEF NewEntry
<1> QED
  BY <1>3 DEF NewEntry

\* A slot that is free has a place for an entry, and no alarm.
LEMMA FirstFree ==
  ASSUME IInv, broken = "no", FreeSlots # {}
  PROVE  /\ Lowest(FreeSlots) \in Slots /\ hash[Lowest(FreeSlots)].state = "free"
         /\ hash[Lowest(FreeSlots)].buf = NoBuf /\ alarm[Lowest(FreeSlots)] = 0
<1>1. Lowest(FreeSlots) \in FreeSlots
  BY LowestIsIn DEF FreeSlots
<1> QED
  BY <1>1 DEF FreeSlots, IInv, Sound, EntrySound, EntryAt

\* The entry that save_ack_data takes.
LEMMA SaveAckData ==
  ASSUME IInv, broken = "no", NEW r \in Reqs, NEW b \in Bufs, save_ack_data(r, b),
         broken' = "no"
  PROVE  LET i == Lowest(FreeSlots)
         IN  /\ FreeSlots # {} /\ hash' = [hash EXCEPT ![i] = NewEntry(r, b)]
             /\ alarm' = [alarm EXCEPT ![i] = @ + 1]
             /\ nwk' = [nwk EXCEPT ![b] = "queued"] /\ conf' = conf
<1>1. ASSUME NEW i, i = IF FreeSlots = {} THEN N ELSE Lowest(FreeSlots)
      PROVE  /\ ~ (i >= N - 1)
             /\ i # N => hash' = [hash EXCEPT ![i] = NewEntry(r, b)]
             /\ i # N - 1 /\ i # N => alarm' = [alarm EXCEPT ![i] = @ + 1]
             /\ i # N - 1 => nwk' = [nwk EXCEPT ![b] = "queued"] /\ conf' = conf
  <2>1. broken' = IF i >= N - 1 THEN "table full" ELSE "no"
    BY <1>1, Zenon DEF save_ack_data
  <2>2. hash' = IF i = N THEN hash ELSE [hash EXCEPT ![i] = NewEntry(r, b)]
    BY <1>1, Zenon DEF save_ack_data
  <2>3. IF i = N - 1
         THEN conf' = [conf EXCEPT ![b] = "failed"] /\ UNCHANGED <<nwk, alarm>>
         ELSE /\ nwk' = [nwk EXCEPT ![b] = "queued"] /\ UNCHANGED conf
              /\ alarm' = [alarm EXCEPT ![IF i = N THEN 0 ELSE i] = @ + 1]
    BY <1>1, Zenon DEF save_ack_data
  <2> QED
    BY <2>1, <2>2, <2>3
<1>2. N \in Nat /\ N # N - 1 /\ N >= N - 1
  BY ApsAssumption
<1>3. FreeSlots # {}
  BY <1>1, <1>2, Zenon DEF save_ack_data
<1> QED
  BY <1>1, <1>2, <1>3

\* Whatever save_ack_data does, it keeps the types.
LEMMA SaveAckDataTypes ==
  ASSUME IInv, broken = "no", NEW r \in Reqs, NEW b \in Bufs, save_ack_data(r, b)
  PROVE  /\ hash' \in [Slots -> Entry] /\ alarm' \in [Slots -> 0 .. 2]
         /\ nwk' \in [Bufs -> {"no", "queued", "sent", "forgotten"}]
         /\ conf' \in [Bufs -> {"no", "ok", "failed"}]
         /\ broken' \in {"no", "table full"}
<1>1. TypeOK /\ \A i \in Slots : alarm[i] \in 0 .. 1
  BY DEF IInv, Sound, EntrySound, EntryAt
<1>2. /\ hash \in [Slots -> Entry] /\ alarm \in [Slots -> 0 .. 2]
      /\ nwk \in [Bufs -> {"no", "queued", "sent", "forgotten"}] /\ conf \in [Bufs -> {"no", "ok", "failed"}]
  BY <1>1 DEF TypeOK
<1>3. NewEntry(r, b) \in Entry
  BY <1>1, NewEntryType
<1>4. N \in Nat /\ 0 \in Slots /\ N \notin Slots
  BY ApsAssumption DEF Slots
<1>5. ASSUME NEW i, i = IF FreeSlots = {} THEN N ELSE Lowest(FreeSlots)
      PROVE  i = N \/ i \in Slots
  BY <1>5, FirstFree
<1>6. \A i \in Slots : [alarm EXCEPT ![i] = @ + 1] \in [Slots -> 0 .. 2]
  BY <1>1, <1>2
<1>7. \A i \in Slots : [hash EXCEPT ![i] = NewEntry(r, b)] \in [Slots -> Entry]
  BY <1>2, <1>3
<1>8. ASSUME NEW i, i = IF FreeSlots = {} THEN N ELSE Lowest(FreeSlots)
      PROVE  hash' \in [Slots -> Entry] /\ alarm' \in [Slots -> 0 .. 2]
  <2>1. hash' = IF i = N THEN hash ELSE [hash EXCEPT ![i] = NewEntry(r, b)]
    BY <1>8, Zenon DEF save_ack_data
  <2>2. alarm' = alarm \/ alarm' = [alarm EXCEPT ![IF i = N THEN 0 ELSE i] = @ + 1]
    BY <1>8, Zenon DEF save_ack_data
  <2> QED
    BY <1>2, <1>4, <1>5, <1>6, <1>7, <1>8, <2>1, <2>2
<1>9. /\ nwk' = nwk \/ nwk' = [nwk EXCEPT ![b] = "queued"]
      /\ conf' = conf \/ conf' = [conf EXCEPT ![b] = "failed"]
      /\ broken' = "no" \/ broken' = "table full"
  BY Zenon DEF save_ack_data
<1> QED
  BY <1>2, <1>8, <1>9

\* A frame becomes an entry's: whether as data or as a command.
LEMMA EntryAdded ==
  ASSUME IInv, broken = "no", NEW b \in Bufs, NEW i \in Slots, NEW e \in Entry,
         ~Held(b), hash[i].state = "free", e.state = "not confirmed", e.buf = b,
         hash' = [hash EXCEPT ![i] = e], alarm' = [alarm EXCEPT ![i] = @ + 1],
         nwk' = [nwk EXCEPT ![b] = "queued"],
         kind'[frame'[b]] # "plain",
         \A c \in Bufs : c # b /\ Held(c) => /\ frame'[c] = frame[c]
                                             /\ kind'[frame[c]] = kind[frame[c]]
  PROVE  EntrySound' /\ OneEntry'
<1>1. TypeOK /\ EntrySound /\ OneEntry
  BY DEF IInv, Sound
<1>2. /\ hash'[i] = e /\ \A j \in Slots : j # i => hash'[j] = hash[j]
  BY <1>1, EntryPut
<1>3. /\ alarm'[i] = 1 /\ \A j \in Slots : j # i => alarm'[j] = alarm[j]
  <2>1. alarm[i] = 0
    BY <1>1 DEF EntrySound, EntryAt
  <2> QED
    BY <1>1, <2>1, AlarmStarted
<1>4. nwk'[b] = "queued" /\ \A c \in Bufs : c # b => nwk'[c] = nwk[c]
  BY <1>1 DEF TypeOK
<1>5. ASSUME NEW j \in Slots, j # i PROVE EntryAt(j)'
  <2>1. hash[j].state # "free" => /\ hash[j].buf \in Bufs /\ Held(hash[j].buf)
                                  /\ hash[j].buf # b
    BY <1>5, EntryBuffer
  <2> QED
    BY <1>1, <1>2, <1>3, <1>4, <1>5, <2>1, UnmovedEntry DEF EntrySound
<1>6. EntryAt(i)'
  BY <1>2, <1>3, <1>4, NoBufAssumption DEF EntryAt
<1>7. OneEntry'
  <2> SUFFICES ASSUME NEW j \in Slots, NEW k \in Slots,
                      hash'[j].buf = hash'[k].buf, hash'[j].buf # NoBuf
               PROVE  j = k
    BY DEF OneEntry
  <2>1. \A l \in Slots : hash[l].buf # b
    BY DEF Held
  <2>2. \A l \in Slots : l # i => hash'[l].buf # b
    BY <1>2, <2>1
  <2>3. hash'[i].buf = b
    BY <1>2
  <2>4. CASE j = i \/ k = i
    BY <2>2, <2>3, <2>4
  <2>5. CASE j # i /\ k # i
    <3>1. hash'[j] = hash[j] /\ hash'[k] = hash[k]
      BY <1>2, <2>5
    <3>2. hash[j].buf = hash[k].buf /\ hash[j].buf # NoBuf
      BY <3>1
    <3> QED
      BY <1>1, <3>2, Zenon DEF OneEntry
  <2> QED
    BY <2>4, <2>5
<1> QED
  BY <1>5, <1>6, <1>7 DEF EntrySound

LEMMA DataRequestIInv ==
  ASSUME IInv, broken = "no", NEW b \in Bufs, DataRequest(b)
  PROVE  IInv'
<1> DEFINE r == frame[b]
           i == Lowest(FreeSlots)
<1>1. TypeOK /\ BufferOwned /\ EntrySound /\ OneEntry
  BY DEF IInv, Sound
<1>2. /\ r \in Reqs /\ b \in data_req /\ b \notin resolving /\ conf[b] = "no" /\ nwk[b] = "no"
      /\ ~Held(b) /\ r # NoReq
  BY <1>1, Types DEF BufferOwned, BufferAt, DataRequest
<1>3. ctr' \in [Reqs -> Counter] /\ aps_counter' \in Counter /\ doubtful' \subseteq Reqs
  BY <1>1, <1>2, TakeCounterTypes DEF DataRequest
<1>4. /\ data_req' = data_req \ {b}
      /\ UNCHANGED <<frame, resolving, kind, result, receiverVars, net, acks>>
  BY DEF DataRequest
<1>5. ASSUME nwk' = [nwk EXCEPT ![b] = "queued"], conf' = conf,
             \A c \in Bufs : c # b => (Held(c)' <=> Held(c))
      PROVE  BufferOwned'
  <2>1. nwk'[b] = "queued" /\ \A c \in Bufs : c # b => nwk'[c] = nwk[c]
    BY <1>1, <1>5 DEF TypeOK
  <2> SUFFICES ASSUME NEW c \in Bufs PROVE BufferAt(c)'
    BY DEF BufferOwned
  <2>2. CASE c # b
    BY <1>1, <1>4, <1>5, <2>1, <2>2, UnmovedBuffer DEF BufferOwned, Unmoved
  <2>3. CASE c = b
    BY <1>1, <1>2, <1>4, <1>5, <2>1, <2>3 DEF BufferOwned, BufferAt
  <2> QED
    BY <2>2, <2>3
<1>6. CASE kind[r] # "data"
  <2>1. nwk' = [nwk EXCEPT ![b] = "queued"] /\ UNCHANGED <<hash, alarm, conf, broken>>
    BY <1>6 DEF DataRequest
  <2>2. TypeOK'
    BY <1>1, <1>3, <1>4, <2>1 DEF TypeOK, receiverVars
  <2>3. BufferOwned'
    BY <1>5, <2>1 DEF Held
  <2>4. ASSUME NEW j \in Slots PROVE EntryAt(j)'
    <3>1. hash[j].state # "free" => hash[j].buf # b /\ hash[j].buf \in Bufs
      BY <1>2, EntryBuffer
    <3> QED
      BY <1>1, <1>4, <2>1, <3>1, UnmovedEntry DEF EntrySound, TypeOK
  <2>5. OneEntry'
    BY <1>1, <2>1 DEF OneEntry
  <2> QED
    BY <2>2, <2>3, <2>4, <2>5 DEF IInv, Sound, EntrySound
<1>7. CASE kind[r] = "data"
  <2>1. save_ack_data(r, b)
    BY <1>7 DEF DataRequest
  <2>2. TypeOK'
    BY <1>1, <1>2, <1>3, <1>4, <2>1, SaveAckDataTypes DEF TypeOK, receiverVars
  <2>3. ASSUME broken' = "no" PROVE Sound'
    <3>1. /\ FreeSlots # {} /\ hash' = [hash EXCEPT ![i] = NewEntry(r, b)]
          /\ alarm' = [alarm EXCEPT ![i] = @ + 1]
          /\ nwk' = [nwk EXCEPT ![b] = "queued"] /\ conf' = conf
      BY <1>2, <2>1, <2>3, SaveAckData
    <3>2. i \in Slots /\ hash[i].state = "free" /\ hash[i].buf = NoBuf
      BY <3>1, FirstFree
    <3>3. /\ NewEntry(r, b) \in Entry
          /\ NewEntry(r, b).state = "not confirmed" /\ NewEntry(r, b).buf = b
      BY <1>1, <1>2, NewEntryType
    <3>4. \A c \in Bufs : c # b => (Held(c)' <=> Held(c))
      BY <1>1, <3>1, <3>2, <3>3, NoBufAssumption, EntryPut
    <3>5. BufferOwned'
      BY <1>5, <3>1, <3>4
    <3>6. EntrySound' /\ OneEntry'
      BY <1>2, <1>4, <1>7, <3>1, <3>2, <3>3, EntryAdded
    <3> QED
      BY <3>5, <3>6 DEF Sound
  <2> QED
    BY <2>2, <2>3 DEF IInv
<1> QED
  BY <1>6, <1>7

LEMMA SendCommandIInv ==
  ASSUME IInv, broken = "no", NEW r \in Reqs, NEW b \in Bufs, SendCommand(r, b)
  PROVE  IInv'
<1> DEFINE i == Lowest(FreeSlots)
           e == [NewEntry(r, b) EXCEPT !.command = TRUE]
<1>1. TypeOK /\ BufferOwned /\ EntrySound /\ OneEntry
  BY DEF IInv, Sound
<1>2. /\ frame[b] = NoReq /\ frame' = [frame EXCEPT ![b] = r]
      /\ kind' = [kind EXCEPT ![r] = "command"] /\ result' = [result EXCEPT ![r] = "asked"]
      /\ TakeCounter(r)
      /\ nwk' = [nwk EXCEPT ![b] = "queued"]
      /\ UNCHANGED <<data_req, resolving, conf, broken, receiverVars, net, acks>>
  BY DEF SendCommand
<1>3. /\ b \notin data_req /\ b \notin resolving /\ conf[b] = "no" /\ ~Held(b)
      /\ r # NoReq /\ NoBuf # b
  BY <1>1, <1>2, Types DEF BufferOwned, BufferAt
<1>4. /\ ctr' \in [Reqs -> Counter] /\ aps_counter' \in Counter /\ doubtful' \subseteq Reqs
      /\ frame' \in [Bufs -> Reqs \cup {NoReq}] /\ kind' \in [Reqs -> Kinds]
  <2>1. "command" \in Kinds
    BY DEF Kinds
  <2>2. ctr' \in [Reqs -> Counter] /\ aps_counter' \in Counter /\ doubtful' \subseteq Reqs
    BY <1>1, <1>2, TakeCounterTypes
  <2> QED
    BY <1>1, <1>2, <2>1, <2>2 DEF TypeOK
<1>5. /\ \A c \in Bufs : frame[c] # NoReq => frame[c] \in Reqs /\ frame[c] # r
      /\ \A q \in Reqs : q # r => kind'[q] = kind[q] /\ result'[q] = result[q]
      /\ result'[r] = "asked" /\ kind'[r] = "command" /\ frame'[b] = r /\ nwk'[b] = "queued"
      /\ \A c \in Bufs : c # b => frame'[c] = frame[c] /\ nwk'[c] = nwk[c]
  BY <1>1, <1>2, Types DEF BufferOwned, BufferAt, SendCommand, TypeOK
<1>6. ASSUME \A c \in Bufs : c # b => (Held(c)' <=> Held(c))
      PROVE  BufferOwned'
  <2> SUFFICES ASSUME NEW c \in Bufs PROVE BufferAt(c)'
    BY DEF BufferOwned
  <2>1. CASE c # b
    BY <1>1, <1>2, <1>5, <1>6, <2>1, UnmovedBuffer DEF BufferOwned, Unmoved
  <2>2. CASE c = b
    BY <1>2, <1>3, <1>5, <2>2 DEF BufferAt
  <2> QED
    BY <2>1, <2>2
<1>7. \A c \in Bufs : Held(c) => frame[c] # NoReq
  BY <1>1 DEF BufferOwned, BufferAt
<1>8. CASE FreeSlots = {}
  <2>1. hash' = hash /\ alarm' = alarm
    BY <1>8 DEF SendCommand
  <2>2. TypeOK'
    BY <1>1, <1>2, <1>4, <2>1 DEF TypeOK, receiverVars
  <2>3. BufferOwned'
    BY <1>6, <2>1 DEF Held
  <2>4. ASSUME NEW j \in Slots PROVE EntryAt(j)'
    <3>1. hash[j].state # "free" => hash[j].buf # b /\ hash[j].buf \in Bufs /\ Held(hash[j].buf)
      BY <1>3, EntryBuffer
    <3> QED
      BY <1>1, <1>5, <1>7, <2>1, <3>1, UnmovedEntry DEF EntrySound
  <2>5. OneEntry'
    BY <1>1, <2>1 DEF OneEntry
  <2> QED
    BY <2>2, <2>3, <2>4, <2>5 DEF IInv, Sound, EntrySound
<1>9. CASE FreeSlots # {}
  <2>1. i \in Slots /\ hash[i].state = "free" /\ hash[i].buf = NoBuf /\ alarm[i] = 0
    BY <1>9, FirstFree
  <2>2. hash' = [hash EXCEPT ![i] = e] /\ alarm' = [alarm EXCEPT ![i] = @ + 1]
    BY <1>9 DEF SendCommand
  <2>3. e \in Entry /\ e.state = "not confirmed" /\ e.buf = b
    <3>1. "free" \in States /\ 0 \in 0 .. Retries
      BY ApsAssumption DEF States
    <3>2. /\ NewEntry(r, b) \in Entry
          /\ NewEntry(r, b).state = "not confirmed" /\ NewEntry(r, b).buf = b
      BY <1>1, NewEntryType
    <3> QED
      BY <3>1, <3>2, EntryChanges
  <2> HIDE DEF e, i
  <2>4. /\ hash' \in [Slots -> Entry] /\ alarm' \in [Slots -> 0 .. 2]
        /\ \A c \in Bufs : c # b => (Held(c)' <=> Held(c))
    <3>1. /\ hash' \in [Slots -> Entry]
          /\ \A c \in Bufs : c # e.buf /\ c # hash[i].buf => (Held(c)' <=> Held(c))
      BY <1>1, <2>1, <2>2, <2>3, EntryPut
    <3>2. alarm' \in [Slots -> 0 .. 2]
      BY <1>1, <2>1, <2>2, AlarmStarted
    <3> QED
      BY <2>1, <2>3, <3>1, <3>2, NoBufAssumption
  <2>5. TypeOK'
    BY <1>1, <1>2, <1>4, <2>4 DEF TypeOK, receiverVars
  <2>6. BufferOwned'
    BY <1>6, <2>4
  <2>7. EntrySound' /\ OneEntry'
    BY <1>2, <1>3, <1>5, <1>7, <2>1, <2>2, <2>3, EntryAdded, ZenonT(40)
  <2> QED
    BY <2>5, <2>6, <2>7 DEF IInv, Sound
<1> QED
  BY <1>8, <1>9

LEMMA NwkSendIInv ==
  ASSUME IInv, broken = "no", NEW b \in Bufs, NwkSend(b)
  PROVE  IInv'
<1>1. TypeOK /\ BufferOwned /\ EntrySound /\ OneEntry
  BY DEF IInv, Sound
<1>2. /\ nwk[b] = "queued" /\ nwk' = [nwk EXCEPT ![b] = "sent"]
      /\ UNCHANGED <<aps_counter, hash, alarm, frame, data_req, resolving, conf, ctr,
                     kind, result, doubtful, broken, receiverVars, acks>>
  BY DEF NwkSend
<1>3. frame[b] \in Reqs
  BY <1>1, <1>2, Types DEF BufferOwned, BufferAt
<1>4. net' \in [Reqs -> 0 .. MaxCopies]
  <2>1. PICK n \in net[frame[b]] .. MaxCopies : net' = [net EXCEPT ![frame[b]] = n]
    BY DEF NwkSend
  <2>2. net \in [Reqs -> 0 .. MaxCopies]
    BY <1>1 DEF TypeOK
  <2>3. n \in 0 .. MaxCopies
    BY <1>3, <2>2, ApsAssumption
  <2> QED
    BY <1>3, <2>1, <2>2, <2>3
<1>5. TypeOK'
  BY <1>1, <1>2, <1>4 DEF TypeOK, receiverVars
<1>6. nwk'[b] = "sent" /\ \A c \in Bufs : c # b => nwk'[c] = nwk[c]
  BY <1>1, <1>2 DEF TypeOK
<1>7. BufferOwned'
  BY <1>1, <1>2, <1>6 DEF BufferOwned, BufferAt, Held
<1>8. ASSUME NEW j \in Slots PROVE EntryAt(j)'
  <2>1. hash[j].state # "free" => hash[j].buf \in Bufs
    BY EntryBuffer
  <2> QED
    BY <1>1, <1>2, <1>6, <2>1 DEF EntrySound, EntryAt
<1>9. OneEntry'
  BY <1>1, <1>2 DEF OneEntry
<1> QED
  BY <1>5, <1>7, <1>8, <1>9 DEF IInv, Sound, EntrySound

\* A buffer that no entry has leaves the network layer: it is confirmed or free.
LEMMA GivenBack ==
  ASSUME IInv, broken = "no", NEW b \in Bufs, ~Held(b), nwk[b] # "no",
         nwk' = [nwk EXCEPT ![b] = "no"],
         \/ frame' = [frame EXCEPT ![b] = NoReq] /\ conf' = conf
         \/ \E s \in {"ok", "failed"} : conf' = [conf EXCEPT ![b] = s] /\ frame' = frame,
         UNCHANGED <<hash, alarm, data_req, resolving, kind, result>>
  PROVE  Sound'
<1>1. TypeOK /\ BufferOwned /\ EntrySound /\ OneEntry
  BY DEF IInv, Sound
<1>2. nwk'[b] = "no" /\ \A c \in Bufs : c # b => nwk'[c] = nwk[c]
  BY <1>1 DEF TypeOK
<1>3. \A c \in Bufs : c # b => frame'[c] = frame[c] /\ conf'[c] = conf[c]
  BY <1>1 DEF TypeOK
<1>4. \/ frame'[b] = NoReq /\ conf'[b] = "no"
      \/ frame'[b] = frame[b] /\ frame[b] # NoReq /\ conf'[b] # "no"
  BY <1>1 DEF TypeOK, BufferOwned, BufferAt
<1>5. b \notin data_req /\ b \notin resolving
  BY <1>1 DEF BufferOwned, BufferAt
<1>6. BufferOwned'
  <2> SUFFICES ASSUME NEW c \in Bufs PROVE BufferAt(c)'
    BY DEF BufferOwned
  <2>1. CASE c # b
    BY <1>1, <1>2, <1>3, <2>1, UnmovedBuffer DEF BufferOwned, Unmoved, Held
  <2>2. CASE c = b
    BY <1>1, <1>2, <1>4, <1>5, <2>2 DEF BufferOwned, BufferAt, Held
  <2> QED
    BY <2>1, <2>2
<1>7. ASSUME NEW j \in Slots PROVE EntryAt(j)'
  <2>1. hash[j].state # "free" => hash[j].buf \in Bufs /\ hash[j].buf # b
    BY EntryBuffer DEF Held
  <2> QED
    BY <1>1, <1>2, <1>3, <2>1, UnmovedEntry DEF EntrySound
<1>8. OneEntry'
  BY <1>1 DEF OneEntry
<1> QED
  BY <1>6, <1>7, <1>8 DEF Sound, EntrySound

LEMMA PlainConfirmIInv ==
  ASSUME IInv, broken = "no", NEW b \in Bufs, PlainConfirm(b)
  PROVE  IInv'
<1>1. ~Held(b)
  <2> SUFFICES ASSUME NEW i \in Slots, hash[i].buf = b PROVE FALSE
    BY DEF Held
  <2>1. hash[i].state # "free"
    BY NoBufAssumption DEF IInv, Sound, EntrySound, EntryAt
  <2> QED
    BY <2>1, EntryBuffer DEF PlainConfirm
<1>2. TypeOK'
  BY DEF IInv, PlainConfirm, TypeOK, receiverVars
<1>3. Sound'
  BY <1>1, GivenBack DEF PlainConfirm
<1> QED
  BY <1>2, <1>3 DEF IInv

\* An entry is done: whoever asks for that, and whether the network layer has just
\* given the buffer back or not.
LEMMA DoneIInv ==
  ASSUME IInv, broken = "no", NEW i \in Slots, hash[i].state # "free",
         NEW b \in Bufs, b = hash[i].buf, NEW command \in BOOLEAN, NEW s \in {"ok", "failed"},
         NEW alarms \in [Slots -> 0 .. 2], alarms[i] \in 0 .. 1,
         \A j \in Slots : j # i => alarms[j] = alarm[j],
         done_with_this_ack(i, command, s, alarms),
         nwk' \in [Bufs -> {"no", "queued", "sent", "forgotten"}],
         \A c \in Bufs : c # b => nwk'[c] = nwk[c],
         acks' \in [Reqs -> 0 .. MaxCopies],
         UNCHANGED <<aps_counter, data_req, resolving, ctr, kind, result, doubtful, receiverVars, net>>
  PROVE  IInv'
<1>1. TypeOK /\ BufferOwned /\ EntrySound /\ OneEntry
  BY DEF IInv, Sound
<1>2. /\ b \in Bufs /\ frame[b] \in Reqs /\ conf[b] = "no"
      /\ b \notin data_req /\ b \notin resolving
      /\ \A j \in Slots : j # i => hash[j].buf # b
  BY EntryBuffer
<1>3. /\ hash' = [hash EXCEPT ![i] = FreeEntry] /\ alarm' = CancelAlarm(alarms, i)
      /\ broken' = (IF nwk'[b] # "no" THEN "acked twice" ELSE "no")
      /\ \/ frame' = [frame EXCEPT ![b] = NoReq] /\ conf' = conf
         \/ conf' = [conf EXCEPT ![b] = s] /\ frame' = frame
  BY DEF done_with_this_ack, FreeBuf
<1>4. FreeEntry \in Entry /\ FreeEntry.state = "free" /\ FreeEntry.buf = NoBuf
  <2>1. 0 \in Counter /\ 0 \in 0 .. Retries /\ "free" \in States
    BY ApsAssumption DEF Counter, States
  <2> QED
    BY <2>1 DEF FreeEntry, Entry
<1>5. /\ hash' \in [Slots -> Entry] /\ hash'[i] = FreeEntry
      /\ \A j \in Slots : j # i => hash'[j] = hash[j]
      /\ \A c \in Bufs : c # b => (Held(c)' <=> Held(c))
  <2>1. \A c \in Bufs : c # NoBuf
    BY NoBufAssumption
  <2> QED
    BY <1>1, <1>3, <1>4, <2>1, EntryPut
<1>6. alarm' \in [Slots -> 0 .. 2] /\ alarm'[i] = 0 /\ \A j \in Slots : j # i => alarm'[j] = alarm[j]
  <2>1. CASE alarms[i] = 0
    BY <1>3, <2>1 DEF CancelAlarm
  <2>2. CASE alarms[i] = 1
    <3>1. alarms[i] # 0
      BY <2>2
    <3>2. alarm' = [alarms EXCEPT ![i] = @ - 1]
      BY <1>3, <3>1, Zenon DEF CancelAlarm
    <3> QED
      BY <2>2, <3>2
  <2> QED
    BY <2>1, <2>2
<1>7. frame' \in [Bufs -> Reqs \cup {NoReq}] /\ conf' \in [Bufs -> {"no", "ok", "failed"}]
  <2>1. frame \in [Bufs -> Reqs \cup {NoReq}] /\ conf \in [Bufs -> {"no", "ok", "failed"}]
    BY <1>1 DEF TypeOK
  <2> QED
    BY <1>3, <2>1
<1>8. TypeOK'
  BY <1>1, <1>3, <1>5, <1>6, <1>7 DEF TypeOK, receiverVars
<1>9. ~Held(b)'
  <2>1. \A j \in Slots : hash'[j].buf # b
    BY <1>2, <1>4, <1>5, NoBufAssumption
  <2> QED
    BY <2>1 DEF Held
<1>10. /\ \A c \in Bufs : c # b => frame'[c] = frame[c] /\ conf'[c] = conf[c]
       /\ \/ frame'[b] = NoReq /\ conf'[b] = "no"
          \/ frame'[b] # NoReq /\ conf'[b] # "no" /\ frame'[b] = frame[b]
  <2>1. frame \in [Bufs -> Reqs \cup {NoReq}] /\ conf \in [Bufs -> {"no", "ok", "failed"}]
    BY <1>1 DEF TypeOK
  <2>2. frame[b] # NoReq /\ s # "no"
    BY <1>1, <1>2, Types
  <2> QED
    BY <1>2, <1>3, <2>1, <2>2
<1>11. ASSUME broken' = "no" PROVE BufferOwned'
  <2>1. nwk'[b] = "no"
    BY <1>3, <1>11
  <2> SUFFICES ASSUME NEW c \in Bufs PROVE BufferAt(c)'
    BY DEF BufferOwned
  <2>2. CASE c # b
    BY <1>1, <1>5, <1>10, <2>2, UnmovedBuffer DEF BufferOwned, Unmoved
  <2>3. CASE c = b
    BY <1>1, <1>2, <1>9, <1>10, <2>1, <2>3 DEF BufferOwned, BufferAt
  <2> QED
    BY <2>2, <2>3
<1>12. ASSUME NEW j \in Slots PROVE EntryAt(j)'
  <2>1. CASE j = i
    BY <1>4, <1>5, <1>6, <2>1 DEF EntryAt
  <2>2. CASE j # i
    <3>1. hash[j].state # "free" => hash[j].buf \in Bufs /\ hash[j].buf # b
      BY <1>2, <2>2, EntryBuffer
    <3> QED
      BY <1>1, <1>5, <1>6, <1>10, <2>2, <3>1, UnmovedEntry DEF EntrySound
  <2> QED
    BY <2>1, <2>2
<1>13. OneEntry'
  <2> SUFFICES ASSUME NEW j \in Slots, NEW k \in Slots,
                      hash'[j].buf = hash'[k].buf, hash'[j].buf # NoBuf
               PROVE  j = k
    BY DEF OneEntry
  <2>1. hash'[j] = hash[j] /\ hash'[k] = hash[k]
    BY <1>4, <1>5
  <2>2. hash[j].buf = hash[k].buf /\ hash[j].buf # NoBuf
    BY <2>1
  <2> QED
    BY <1>1, <2>2, Zenon DEF OneEntry
<1> QED
  BY <1>8, <1>11, <1>12, <1>13 DEF IInv, Sound, EntrySound

\* An entry in use changes, and the network layer's part of its buffer with it.
LEMMA EntryUpdated ==
  ASSUME IInv, broken = "no", NEW i \in Slots, hash[i].state # "free",
         NEW b \in Bufs, b = hash[i].buf, NEW e \in Entry, e.buf = b, e.state # "free",
         hash' = [hash EXCEPT ![i] = e],
         nwk' = nwk \/ \E x \in {"no", "queued", "sent", "forgotten"} : nwk' = [nwk EXCEPT ![b] = x],
         e.state = "confirmed" <=> nwk'[b] = "no",
         UNCHANGED <<alarm, frame, data_req, resolving, conf, kind, result>>
  PROVE  /\ Sound' /\ hash' \in [Slots -> Entry]
         /\ nwk' \in [Bufs -> {"no", "queued", "sent", "forgotten"}]
<1>1. TypeOK /\ BufferOwned /\ EntrySound /\ OneEntry
  BY DEF IInv, Sound
<1>2. /\ b \in Bufs /\ frame[b] \in Reqs /\ conf[b] = "no"
      /\ b \notin data_req /\ b \notin resolving /\ Held(b)
      /\ \A j \in Slots : j # i => hash[j].buf # b
      /\ kind[frame[b]] # "plain"
  BY EntryBuffer
<1>3. /\ hash' \in [Slots -> Entry] /\ hash'[i] = e
      /\ \A j \in Slots : j # i => hash'[j] = hash[j]
      /\ \A c \in Bufs : c # b => (Held(c)' <=> Held(c))
      /\ Held(b)'
  BY <1>1, EntryPut
<1>4. /\ nwk' \in [Bufs -> {"no", "queued", "sent", "forgotten"}]
      /\ \A c \in Bufs : c # b => nwk'[c] = nwk[c]
  <2>1. nwk \in [Bufs -> {"no", "queued", "sent", "forgotten"}]
    BY <1>1 DEF TypeOK
  <2> QED
    BY <2>1
<1>5. BufferOwned'
  <2> SUFFICES ASSUME NEW c \in Bufs PROVE BufferAt(c)'
    BY DEF BufferOwned
  <2>1. CASE c # b
    BY <1>1, <1>3, <1>4, <2>1, UnmovedBuffer DEF BufferOwned, Unmoved
  <2>2. CASE c = b
    BY <1>1, <1>2, <1>3, <1>4, <2>2 DEF BufferOwned, BufferAt
  <2> QED
    BY <2>1, <2>2
<1>6. ASSUME NEW j \in Slots PROVE EntryAt(j)'
  <2>1. CASE j = i
    BY <1>1, <1>2, <1>3, <2>1, NoBufAssumption DEF EntrySound, EntryAt
  <2>2. CASE j # i
    <3>1. hash[j].state # "free" => hash[j].buf \in Bufs /\ hash[j].buf # b
      BY <1>2, <2>2, EntryBuffer
    <3> QED
      BY <1>1, <1>3, <1>4, <2>2, <3>1, UnmovedEntry DEF EntrySound
  <2> QED
    BY <2>1, <2>2
<1>7. OneEntry'
  <2> SUFFICES ASSUME NEW j \in Slots, NEW k \in Slots,
                      hash'[j].buf = hash'[k].buf, hash'[j].buf # NoBuf
               PROVE  j = k
    BY DEF OneEntry
  <2>1. hash'[j].buf = hash[j].buf /\ hash'[k].buf = hash[k].buf
    BY <1>3
  <2>2. hash[j].buf = hash[k].buf /\ hash[j].buf # NoBuf
    BY <2>1
  <2> QED
    BY <1>1, <2>2, Zenon DEF OneEntry
<1> QED
  BY <1>3, <1>4, <1>5, <1>6, <1>7 DEF Sound, EntrySound

\* The entry that holds a buffer.
LEMMA FirstHolder ==
  ASSUME IInv, broken = "no", NEW b \in Bufs, Holders(b) # {}
  PROVE  /\ Lowest(Holders(b)) \in Slots /\ hash[Lowest(Holders(b))].buf = b
         /\ hash[Lowest(Holders(b))].state # "free"
<1>1. Lowest(Holders(b)) \in Holders(b)
  BY LowestIsIn DEF Holders
<1> QED
  BY <1>1, NoBufAssumption DEF Holders, IInv, Sound, EntrySound, EntryAt

LEMMA AckedFrameConfirmIInv ==
  ASSUME IInv, broken = "no", NEW b \in Bufs, AckedFrameConfirm(b)
  PROVE  IInv'
<1>1. /\ TypeOK /\ nwk[b] = "sent" /\ nwk' = [nwk EXCEPT ![b] = "no"]
      /\ UNCHANGED <<aps_counter, data_req, resolving, ctr, kind, result, doubtful, receiverVars, net, acks>>
  BY DEF AckedFrameConfirm, IInv
<1>2. /\ nwk' \in [Bufs -> {"no", "queued", "sent", "forgotten"}] /\ nwk'[b] = "no"
      /\ \A c \in Bufs : c # b => nwk'[c] = nwk[c]
  <2>1. nwk \in [Bufs -> {"no", "queued", "sent", "forgotten"}]
    BY <1>1 DEF TypeOK
  <2> QED
    BY <1>1, <2>1
<1>3. CASE Holders(b) = {}
  <2>1. FreeBuf(b) /\ UNCHANGED <<hash, alarm, conf, broken>>
    BY <1>3 DEF AckedFrameConfirm
  <2>2. Sound'
    BY <1>1, <1>3, <2>1, GivenBack DEF Holders, Held, FreeBuf
  <2>3. TypeOK'
    BY <1>1, <1>2, <2>1 DEF TypeOK, FreeBuf, receiverVars
  <2> QED
    BY <2>2, <2>3 DEF IInv
<1>4. CASE Holders(b) # {}
  <2>1. PICK i \in Slots : /\ hash[i].buf = b /\ hash[i].state # "free"
                           /\ IF hash[i].state = "acked"
                              THEN done_with_this_ack(i, kind[frame[b]] = "command", "ok", alarm)
                              ELSE /\ hash' = [hash EXCEPT ![i].state = "confirmed"]
                                   /\ UNCHANGED <<alarm, conf, frame, broken>>
    BY <1>4, FirstHolder DEF AckedFrameConfirm
  <2>2. alarm \in [Slots -> 0 .. 2] /\ alarm[i] \in 0 .. 1 /\ acks \in [Reqs -> 0 .. MaxCopies]
    BY DEF IInv, TypeOK, Sound, EntrySound, EntryAt
  <2>3. CASE hash[i].state = "acked"
    <3>1. (kind[frame[b]] = "command") \in BOOLEAN
      OBVIOUS
    <3> QED
      BY <1>1, <1>2, <2>1, <2>2, <2>3, <3>1, DoneIInv
  <2>4. CASE hash[i].state # "acked"
    <3> DEFINE e == [hash[i] EXCEPT !.state = "confirmed"]
    <3>1. e \in Entry /\ e.buf = b /\ e.state = "confirmed"
      <4>1. hash[i] \in Entry
        BY <1>1, Types
      <4>2. "confirmed" \in States /\ 0 \in 0 .. Retries
        BY ApsAssumption DEF States
      <4> QED
        BY <4>2, <2>1, <4>1, EntryChanges
    <3>2. hash' = [hash EXCEPT ![i] = e] /\ UNCHANGED <<alarm, conf, frame, broken>>
      BY <2>1, <2>4
    <3> HIDE DEF e
    <3>3. Sound' /\ hash' \in [Slots -> Entry]
      BY <1>1, <1>2, <2>1, <3>1, <3>2, EntryUpdated
    <3>4. TypeOK'
      BY <1>1, <1>2, <3>2, <3>3 DEF TypeOK, receiverVars
    <3> QED
      BY <3>3, <3>4 DEF IInv
  <2> QED
    BY <2>3, <2>4
<1> QED
  BY <1>3, <1>4

LEMMA NwkDropIInv ==
  ASSUME IInv, broken = "no", NEW b \in Bufs, NwkDrop(b)
  PROVE  IInv'
<1>1. TypeOK'
  BY DEF IInv, NwkDrop, FreeBuf, TypeOK, receiverVars
<1>2. ASSUME broken' = "no" PROVE Sound'
  <2>1. ~Held(b)
    BY <1>2 DEF NwkDrop, Holders, Held
  <2> QED
    BY <2>1, GivenBack DEF NwkDrop, FreeBuf
<1> QED
  BY <1>1, <1>2 DEF IInv

LEMMA NwkForgetIInv ==
  ASSUME IInv, broken = "no", NEW b \in Bufs, NwkForget(b)
  PROVE  IInv'
<1>1. TypeOK /\ BufferOwned /\ EntrySound /\ OneEntry
  BY DEF IInv, Sound
<1>2. /\ nwk[b] = "queued" /\ nwk' = [nwk EXCEPT ![b] = "forgotten"]
      /\ UNCHANGED <<aps_counter, hash, alarm, frame, data_req, resolving, conf, ctr,
                     kind, result, doubtful, broken, receiverVars, net, acks>>
  BY DEF NwkForget
<1>3. TypeOK'
  BY <1>1, <1>2 DEF TypeOK, receiverVars
<1>4. nwk'[b] = "forgotten" /\ \A c \in Bufs : c # b => nwk'[c] = nwk[c]
  BY <1>1, <1>2 DEF TypeOK
<1>5. BufferOwned'
  BY <1>1, <1>2, <1>4 DEF BufferOwned, BufferAt, Held
<1>6. ASSUME NEW j \in Slots PROVE EntryAt(j)'
  <2>1. hash[j].state # "free" => hash[j].buf \in Bufs
    BY EntryBuffer
  <2> QED
    BY <1>1, <1>2, <1>4, <2>1 DEF EntrySound, EntryAt
<1>7. OneEntry'
  BY <1>1, <1>2 DEF OneEntry
<1> QED
  BY <1>3, <1>5, <1>6, <1>7 DEF IInv, Sound, EntrySound

LEMMA AckFrameIInv ==
  ASSUME IInv, broken = "no", NEW r \in Reqs, AckFrame(r)
  PROVE  IInv'
<1>1. /\ TypeOK
      /\ UNCHANGED <<aps_counter, data_req, resolving, ctr, kind, result, doubtful, receiverVars, net>>
  BY DEF AckFrame, IInv
<1>2. acks' \in [Reqs -> 0 .. MaxCopies]
  <2>1. acks \in [Reqs -> 0 .. MaxCopies] /\ acks[r] > 0 /\ acks' = [acks EXCEPT ![r] = @ - 1]
    BY <1>1 DEF AckFrame, TypeOK
  <2>2. acks[r] - 1 \in 0 .. MaxCopies
    BY <2>1, ApsAssumption
  <2> QED
    BY <2>1, <2>2
<1>3. CASE AckedEntries(r) = {}
  <2>1. UNCHANGED <<hash, alarm, conf, frame, nwk, broken>>
    BY <1>3 DEF AckFrame
  <2>2. TypeOK'
    BY <1>1, <1>2, <2>1 DEF TypeOK, receiverVars
  <2>3. Sound'
    BY <1>1, <2>1 DEF IInv, Sound, BufferOwned, BufferAt, Held, EntrySound, EntryAt, OneEntry
  <2> QED
    BY <2>2, <2>3 DEF IInv
<1>4. CASE AckedEntries(r) # {}
  <2>1. PICK i \in Slots : /\ hash[i].state # "free"
                           /\ IF hash[i].state = "not confirmed"
                              THEN /\ hash' = [hash EXCEPT ![i].state = "acked"]
                                   /\ UNCHANGED <<alarm, conf, frame, nwk, broken>>
                              ELSE /\ nwk' = [nwk EXCEPT ![hash[i].buf] =
                                                IF @ = "forgotten" THEN "no" ELSE @]
                                   /\ done_with_this_ack(i, kind[r] = "command", "ok", alarm)
    <3>1. Lowest(AckedEntries(r)) \in AckedEntries(r)
      BY <1>4, LowestIsIn DEF AckedEntries
    <3> QED
      BY <1>4, <3>1 DEF AckFrame, AckedEntries
  <2>2. PICK b \in Bufs : b = hash[i].buf
    BY <2>1, EntryBuffer
  <2>3. alarm \in [Slots -> 0 .. 2] /\ alarm[i] \in 0 .. 1 /\ nwk \in [Bufs -> {"no", "queued", "sent", "forgotten"}]
    BY DEF IInv, TypeOK, Sound, EntrySound, EntryAt
  <2>4. CASE hash[i].state # "not confirmed"
    <3>1. (kind[r] = "command") \in BOOLEAN
      OBVIOUS
    <3>2. /\ nwk' \in [Bufs -> {"no", "queued", "sent", "forgotten"}]
          /\ \A c \in Bufs : c # b => nwk'[c] = nwk[c]
      BY <2>1, <2>2, <2>3, <2>4
    <3> QED
      BY <1>1, <1>2, <2>1, <2>2, <2>3, <2>4, <3>1, <3>2, DoneIInv
  <2>5. CASE hash[i].state = "not confirmed"
    <3> DEFINE e == [hash[i] EXCEPT !.state = "acked"]
    <3>1. e \in Entry /\ e.buf = b /\ e.state = "acked"
      <4>1. hash[i] \in Entry
        BY <1>1, Types
      <4>2. "acked" \in States /\ 0 \in 0 .. Retries
        BY ApsAssumption DEF States
      <4> QED
        BY <4>2, <2>2, <4>1, EntryChanges
    <3>2. hash' = [hash EXCEPT ![i] = e] /\ UNCHANGED <<alarm, conf, frame, nwk, broken>>
      BY <2>1, <2>5
    <3> HIDE DEF e
    <3>3. nwk[b] # "no"
      BY <2>2, <2>5, EntryBuffer
    <3>4. Sound' /\ hash' \in [Slots -> Entry]
      BY <1>1, <2>1, <2>2, <3>1, <3>2, <3>3, EntryUpdated
    <3>5. TypeOK'
      BY <1>1, <1>2, <3>2, <3>4 DEF TypeOK, receiverVars
    <3> QED
      BY <3>4, <3>5 DEF IInv
  <2> QED
    BY <2>4, <2>5
<1> QED
  BY <1>3, <1>4

LEMMA AckTimerIInv ==
  ASSUME IInv, broken = "no", NEW i \in Slots, AckTimer(i)
  PROVE  IInv'
<1> DEFINE left == FewerRetries(hash[i].retries)
<1>1. /\ TypeOK /\ alarm[i] > 0
      /\ UNCHANGED <<aps_counter, data_req, resolving, ctr, kind, result, doubtful, receiverVars,
                     net, acks>>
  BY DEF AckTimer, IInv
<1>2. hash[i].state # "free"
  BY <1>1 DEF IInv, Sound, EntrySound, EntryAt
<1>3. PICK b \in Bufs : b = hash[i].buf
  BY <1>2, EntryBuffer
<1>4. /\ alarm \in [Slots -> 0 .. 2] /\ nwk \in [Bufs -> {"no", "queued", "sent", "forgotten"}]
      /\ acks \in [Reqs -> 0 .. MaxCopies] /\ hash[i] \in Entry
      /\ hash[i].retries \in 0 .. Retries /\ hash[i].command \in BOOLEAN
  BY <1>1, Types DEF TypeOK
<1>5. left \in 0 .. Retries
  BY <1>4, ApsAssumption DEF FewerRetries
<1> HIDE DEF left
<1>6. CASE left = 0 /\ hash[i].state = "confirmed"
  <2>1. nwk' = nwk /\ done_with_this_ack(i, hash[i].command, "failed", [alarm EXCEPT ![i] = @ - 1])
    BY <1>6 DEF AckTimer, left
  <2>2. alarm[i] = 1
    BY <1>2 DEF IInv, Sound, EntrySound, EntryAt
  <2>3. /\ [alarm EXCEPT ![i] = @ - 1] \in [Slots -> 0 .. 2]
        /\ [alarm EXCEPT ![i] = @ - 1][i] \in 0 .. 1
        /\ \A j \in Slots : j # i => [alarm EXCEPT ![i] = @ - 1][j] = alarm[j]
    BY <1>4, <2>2
  <2>4. PICK alarms \in [Slots -> 0 .. 2] : alarms = [alarm EXCEPT ![i] = @ - 1]
    BY <2>3
  <2>5. done_with_this_ack(i, hash[i].command, "failed", alarms)
    BY <2>1, <2>4
  <2>6. alarms[i] \in 0 .. 1 /\ \A j \in Slots : j # i => alarms[j] = alarm[j]
    BY <2>3, <2>4
  <2>7. /\ nwk' \in [Bufs -> {"no", "queued", "sent", "forgotten"}] /\ \A c \in Bufs : c # b => nwk'[c] = nwk[c]
        /\ acks' \in [Reqs -> 0 .. MaxCopies]
    BY <1>1, <1>4, <2>1
  <2>8. \A command \in BOOLEAN : command = hash[i].command => IInv'
    BY <1>1, <1>2, <1>3, <2>5, <2>6, <2>7, DoneIInv
  <2> QED
    BY <1>4, <2>8
<1>7. CASE ~ (left = 0 /\ hash[i].state = "confirmed")
  <2>1. /\ IF hash[i].state = "confirmed"
           THEN /\ hash' = [hash EXCEPT ![i].retries = left, ![i].state = "not confirmed"]
                /\ nwk' = [nwk EXCEPT ![hash[i].buf] = "queued"]
           ELSE hash' = [hash EXCEPT ![i].retries = left] /\ UNCHANGED nwk
        /\ UNCHANGED <<alarm, conf, frame, broken>>
    BY <1>7, Zenon DEF AckTimer, left
  <2> DEFINE counted == [hash[i] EXCEPT !.retries = left]
             again == [counted EXCEPT !.state = "not confirmed"]
  <2>2. /\ counted \in Entry /\ counted.buf = b /\ counted.state = hash[i].state
        /\ again \in Entry /\ again.buf = b /\ again.state = "not confirmed"
    <3>1. "not confirmed" \in States
      BY DEF States
    <3>2. ASSUME NEW e \in Entry
          PROVE  /\ [e EXCEPT !.retries = left] \in Entry
                 /\ [e EXCEPT !.retries = left].buf = e.buf
                 /\ [e EXCEPT !.retries = left].state = e.state
                 /\ [e EXCEPT !.state = "not confirmed"] \in Entry
                 /\ [e EXCEPT !.state = "not confirmed"].buf = e.buf
                 /\ [e EXCEPT !.state = "not confirmed"].state = "not confirmed"
      BY <1>5, <3>1, EntryChanges
    <3>3. counted \in Entry /\ counted.buf = b /\ counted.state = hash[i].state
      BY <1>3, <1>4, <3>2
    <3> HIDE DEF counted
    <3> QED
      BY <3>2, <3>3
  <2>3. PICK e \in Entry : /\ hash' = [hash EXCEPT ![i] = e] /\ e.buf = b /\ e.state # "free"
                           /\ e.state = "confirmed" <=> nwk'[b] = "no"
                           /\ nwk' = nwk \/ nwk' = [nwk EXCEPT ![b] = "queued"]
    <3>1. CASE hash[i].state = "confirmed"
      <4>1. hash' = [hash EXCEPT ![i] = again] /\ nwk' = [nwk EXCEPT ![b] = "queued"]
        BY <1>3, <2>1, <3>1
      <4>2. nwk'[b] = "queued"
        BY <1>4, <4>1
      <4> QED
        BY <2>2, <4>1, <4>2
    <3>2. CASE hash[i].state # "confirmed"
      <4>1. hash' = [hash EXCEPT ![i] = counted] /\ nwk' = nwk
        BY <2>1, <3>2
      <4>2. nwk'[b] # "no"
        BY <1>2, <1>3, <3>2, <4>1, EntryBuffer
      <4> QED
        BY <1>2, <2>2, <3>2, <4>1, <4>2
    <3> QED
      BY <3>1, <3>2
  <2> HIDE DEF counted, again
  <2>4. nwk' = nwk \/ \E x \in {"no", "queued", "sent", "forgotten"} : nwk' = [nwk EXCEPT ![b] = x]
    BY <2>3
  <2>5. /\ Sound' /\ hash' \in [Slots -> Entry] /\ nwk' \in [Bufs -> {"no", "queued", "sent", "forgotten"}]
    BY <1>1, <1>2, <1>3, <2>1, <2>3, <2>4, EntryUpdated
  <2>6. TypeOK'
    BY <1>1, <2>1, <2>5 DEF TypeOK, receiverVars
  <2> QED
    BY <2>5, <2>6 DEF IInv
<1> QED
  BY <1>6, <1>7

LEMMA AppConfirmIInv ==
  ASSUME IInv, broken = "no", NEW b \in Bufs, AppConfirm(b)
  PROVE  IInv'
<1>1. TypeOK /\ BufferOwned /\ EntrySound /\ OneEntry
  BY DEF IInv, Sound
<1>2. /\ conf[b] # "no" /\ conf' = [conf EXCEPT ![b] = "no"]
      /\ frame' = [frame EXCEPT ![b] = NoReq]
      /\ result' = [result EXCEPT ![frame[b]] = IF @ = "asked" THEN conf[b] ELSE "twice"]
      /\ UNCHANGED <<aps_counter, hash, alarm, data_req, resolving, nwk, ctr, kind,
                     doubtful, broken, receiverVars, net, acks>>
  BY DEF AppConfirm, FreeBuf
<1>3. /\ frame[b] \in Reqs /\ ~Held(b) /\ b \notin data_req /\ b \notin resolving /\ nwk[b] = "no"
  BY <1>1, <1>2, Types DEF BufferOwned, BufferAt
<1>4. result' \in [Reqs -> {"idle", "asked", "ok", "failed", "twice"}]
      /\ \A r \in Reqs : result[r] # "idle" => result'[r] # "idle"
  BY <1>1, <1>2, <1>3 DEF TypeOK
<1>5. TypeOK'
  BY <1>1, <1>2, <1>4 DEF TypeOK, receiverVars
<1>6. /\ frame'[b] = NoReq /\ conf'[b] = "no"
      /\ \A c \in Bufs : c # b => frame'[c] = frame[c] /\ conf'[c] = conf[c]
  BY <1>1, <1>2 DEF TypeOK
<1>7. BufferOwned'
  <2> SUFFICES ASSUME NEW c \in Bufs PROVE BufferAt(c)'
    BY DEF BufferOwned
  <2>1. CASE c # b
    BY <1>1, <1>2, <1>4, <1>6, <2>1, Types DEF BufferOwned, BufferAt, Held
  <2>2. CASE c = b
    BY <1>2, <1>3, <1>6, <2>2 DEF BufferAt, Held
  <2> QED
    BY <2>1, <2>2
<1>8. ASSUME NEW j \in Slots PROVE EntryAt(j)'
  <2>1. hash[j].state # "free" => hash[j].buf \in Bufs /\ hash[j].buf # b
    BY <1>3, EntryBuffer DEF Held
  <2> QED
    BY <1>1, <1>2, <1>6, <2>1, UnmovedEntry DEF EntrySound
<1>9. OneEntry'
  BY <1>1, <1>2 DEF OneEntry
<1> QED
  BY <1>5, <1>7, <1>8, <1>9 DEF IInv, Sound, EntrySound

-----------------------------------------------------------------------------
(* The receiver and the network leave the table and the buffers alone. *)

LEMMA SenderRests ==
  ASSUME IInv, UNCHANGED senderVars
  PROVE  broken' = "no" => Sound'
BY DEF IInv, senderVars, Sound, BufferOwned, BufferAt, Held, EntrySound, EntryAt, OneEntry

LEMMA IndicateTypes ==
  ASSUME TypeOK, NEW r \in Reqs, Indicate(r)
  PROVE  /\ got' \subseteq Reqs /\ dup' \in [ctr : Counter, clock : 0 .. DupClock]
         /\ dups_alarm_running' \in BOOLEAN
<1>1. got \subseteq Reqs /\ ctr[r] \in Counter
  BY DEF TypeOK
<1>2. DupClock \in 0 .. DupClock
  BY ApsAssumption
<1> QED
  BY <1>1, <1>2 DEF Indicate

LEMMA ReceiverIInv ==
  ASSUME IInv, broken = "no",
         SendAck \/ DupTimer \/ \E r \in Reqs : RecvFrame(r) \/ Lose(r)
  PROVE  IInv'
<1>1. TypeOK /\ UNCHANGED senderVars
  BY DEF IInv, SendAck, DupTimer, RecvFrame, Lose
<1>2. /\ net \in [Reqs -> 0 .. MaxCopies] /\ acks \in [Reqs -> 0 .. MaxCopies]
      /\ ack_q \in Seq(Reqs) /\ Len(ack_q) <= AckQSize
      /\ dup \in [ctr : Counter, clock : 0 .. DupClock]
  BY <1>1 DEF TypeOK
<1>3. \A n \in 0 .. MaxCopies : n > 0 => n - 1 \in 0 .. MaxCopies
  BY ApsAssumption
<1>4. SUFFICES /\ net' \in [Reqs -> 0 .. MaxCopies] /\ acks' \in [Reqs -> 0 .. MaxCopies]
               /\ ack_q' \in Seq(Reqs) /\ Len(ack_q') <= AckQSize
               /\ dup' \in [ctr : Counter, clock : 0 .. DupClock]
               /\ dups_alarm_running' \in BOOLEAN /\ got' \subseteq Reqs
  BY <1>1, SenderRests DEF IInv, TypeOK, senderVars
<1>5. CASE SendAck
  <2>0. ack_q # <<>>
    BY <1>5 DEF SendAck
  <2>1. Head(ack_q) \in Reqs /\ Tail(ack_q) \in Seq(Reqs) /\ Len(Tail(ack_q)) <= AckQSize
    <3>1. \A q \in Seq(Reqs) : q # <<>> => /\ Head(q) \in Reqs /\ Tail(q) \in Seq(Reqs)
                                         /\ Len(q) \in Nat /\ Len(Tail(q)) = Len(q) - 1
      OBVIOUS
    <3>2. \A m, n \in Nat : m <= n => m - 1 <= n
      OBVIOUS
    <3>3. AckQSize \in Nat
      BY ApsAssumption
    <3> QED
      BY <1>2, <2>0, <3>1, <3>2, <3>3
  <2>2. PICK n \in acks[Head(ack_q)] .. MaxCopies : acks' = [acks EXCEPT ![Head(ack_q)] = n]
    BY <1>5 DEF SendAck
  <2>3. n \in 0 .. MaxCopies
    BY <1>2, <2>1, ApsAssumption
  <2>4. acks' \in [Reqs -> 0 .. MaxCopies]
    BY <1>2, <2>1, <2>2, <2>3
  <2> QED
    BY <1>1, <1>2, <1>5, <2>1, <2>4, IndicateTypes DEF SendAck
<1>6. CASE DupTimer
  <2>1. dup' \in [ctr : Counter, clock : 0 .. DupClock]
    <3>1. ASSUME NEW d \in [ctr : Counter, clock : 0 .. DupClock], NEW n \in 0 .. DupClock
          PROVE  [d EXCEPT !.clock = n] \in [ctr : Counter, clock : 0 .. DupClock]
      OBVIOUS
    <3>2. \A n \in 0 .. DupClock : (IF n = 0 THEN 0 ELSE n - 1) \in 0 .. DupClock
      BY ApsAssumption
    <3>3. dup.clock \in 0 .. DupClock
      BY <1>2
    <3>4. dup' = [dup EXCEPT !.clock = IF dup.clock = 0 THEN 0 ELSE dup.clock - 1]
      BY <1>6 DEF DupTimer
    <3> QED
      BY <1>2, <3>1, <3>2, <3>3, <3>4
  <2> QED
    BY <1>1, <1>2, <1>6, <2>1 DEF DupTimer, TypeOK
<1>7. CASE \E r \in Reqs : RecvFrame(r)
  <2>1. PICK r \in Reqs : RecvFrame(r)
    BY <1>7
  <2>2. net' \in [Reqs -> 0 .. MaxCopies] /\ acks' = acks
    BY <1>2, <1>3, <2>1 DEF RecvFrame
  <2>3. CASE kind[r] # "plain" /\ Len(ack_q) < AckQSize
    <3>1. ack_q' = Append(ack_q, r) /\ UNCHANGED <<dup, dups_alarm_running, got>>
      BY <2>1, <2>3 DEF RecvFrame
    <3>2. Append(ack_q, r) \in Seq(Reqs) /\ Len(Append(ack_q, r)) <= AckQSize
      BY <1>2, <2>3, ApsAssumption
    <3> QED
      BY <1>1, <1>2, <2>2, <3>1, <3>2 DEF TypeOK
  <2>4. CASE ~ (kind[r] # "plain" /\ Len(ack_q) < AckQSize)
    BY <1>1, <1>2, <2>1, <2>2, <2>4, IndicateTypes DEF RecvFrame
  <2> QED
    BY <2>3, <2>4
<1>8. CASE \E r \in Reqs : Lose(r)
  <2>1. PICK r \in Reqs : Lose(r)
    BY <1>8
  <2>2. net' \in [Reqs -> 0 .. MaxCopies] /\ acks' \in [Reqs -> 0 .. MaxCopies]
    <3>1. CASE net[r] > 0 /\ net' = [net EXCEPT ![r] = net[r] - 1] /\ acks' = acks
      BY <1>2, <1>3, <3>1
    <3>2. CASE acks[r] > 0 /\ acks' = [acks EXCEPT ![r] = acks[r] - 1] /\ net' = net
      BY <1>2, <1>3, <3>2
    <3> QED
      BY <2>1, <3>1, <3>2 DEF Lose
  <2> QED
    BY <1>1, <1>2, <2>1, <2>2 DEF Lose, receiverVars, TypeOK
<1> QED
  BY <1>5, <1>6, <1>7, <1>8

-----------------------------------------------------------------------------
(* The theorems. *)

\* Every step of the sender, the receiver or the network keeps the invariant.
LEMMA NextIInv == IInv /\ [Next]_vars => IInv'
<1> SUFFICES ASSUME IInv, [Next]_vars PROVE IInv'
  OBVIOUS
<1>1. CASE UNCHANGED vars
  <2>1. TypeOK'
    BY <1>1 DEF IInv, TypeOK, vars, senderVars, receiverVars
  <2>2. broken' = "no" => Sound'
    BY <1>1, SenderRests DEF vars
  <2> QED
    BY <2>1, <2>2 DEF IInv
<1>2. CASE Next
  <2>1. broken = "no"
    BY <1>2 DEF Next
  <2>2. ASSUME NEW r \in Reqs, NEW b \in Bufs, NEW k \in {"plain", "data"}, AskData(r, b, k)
        PROVE  IInv'
    BY <2>1, <2>2, AskDataIInv
  <2>3. ASSUME NEW r \in Reqs, NEW b \in Bufs, SendCommand(r, b) PROVE IInv'
    BY <2>1, <2>3, SendCommandIInv
  <2>4. ASSUME NEW b \in Bufs, Sender(b) PROVE IInv'
    BY <2>1, <2>4, WaitForPeerIInv, DataRequestIInv, NwkSendIInv, PlainConfirmIInv,
       AckedFrameConfirmIInv DEF Sender
  <2>5. ASSUME NEW b \in Bufs, WaitForPeer(b) \/ NotBound(b) \/ NwkForget(b) \/ NwkDrop(b) \/ AppConfirm(b)
        PROVE  IInv'
    BY <2>1, <2>5, WaitForPeerIInv, NotBoundIInv, NwkForgetIInv, NwkDropIInv, AppConfirmIInv
  <2>6. ASSUME NEW i \in Slots, AckTimer(i) PROVE IInv'
    BY <2>1, <2>6, AckTimerIInv
  <2>7. ASSUME NEW r \in Reqs, AckFrame(r) PROVE IInv'
    BY <2>1, <2>7, AckFrameIInv
  <2>8. ASSUME SendAck \/ DupTimer \/ \E r \in Reqs : RecvFrame(r) \/ Lose(r) PROVE IInv'
    BY <2>1, <2>8, ReceiverIInv
  <2>9. ASSUME SendElsewhere PROVE IInv'
    BY <2>1, <2>9, SendElsewhereIInv
  <2> QED
    BY <1>2, <2>2, <2>3, <2>4, <2>5, <2>6, <2>7, <2>8, <2>9 DEF Next
<1> QED
  BY <1>1, <1>2

\* The inductive invariant holds in every behaviour.
THEOREM SpecIInv == Spec => []IInv
BY InitIInv, NextIInv, PTL DEF Spec

\* A set of one element and a set of none.
LEMMA OneOrNone ==
  /\ \A x : Cardinality({x}) = 1
  /\ Cardinality({}) = 0
BY FS_Singleton, FS_EmptySet

\* The buffers are in one place each, and the table agrees with that.
LEMMA SoundAgrees ==
  ASSUME IInv, broken = "no"
  PROVE  TableAgreesWithBuffers
<1>1. BufferOwned /\ EntrySound /\ OneEntry /\ TypeOK
  BY DEF IInv, Sound
<1>2. ASSUME NEW b \in Bufs
      PROVE  Cardinality(Places(b)) + (IF \E i \in Holders(b) : hash[i].state = "confirmed"
                                       THEN 1 ELSE 0) = 1
  <2>1. BufferAt(b)
    BY <1>1 DEF BufferOwned
  <2>2. (\E i \in Holders(b) : hash[i].state = "confirmed") <=> Held(b) /\ nwk[b] = "no"
    <3>1. ASSUME NEW i \in Slots, hash[i].buf = b
          PROVE  hash[i].state = "confirmed" <=> nwk[b] = "no"
      BY <1>1, <3>1, NoBufAssumption DEF EntrySound, EntryAt
    <3> QED
      BY <3>1 DEF Holders, Held
  <2>3. CASE Held(b) /\ nwk[b] = "no"
    <3>1. Places(b) = {}
      BY <2>1, <2>3 DEF Places, BufferAt
    <3> QED
      BY <2>2, <2>3, <3>1, OneOrNone
  <2>4. CASE ~ (Held(b) /\ nwk[b] = "no")
    <3>1. \E x : Places(b) = {x}
      <4>1. CASE frame[b] = NoReq
        <5>1. Places(b) = {"free"}
          BY <2>1, <4>1 DEF Places, BufferAt
        <5> QED
          BY <5>1
      <4>2. CASE b \in data_req
        <5>1. Places(b) = {"asked"}
          BY <2>1, <4>2 DEF Places, BufferAt
        <5> QED
          BY <5>1
      <4>3. CASE b \in resolving
        <5>1. Places(b) = {"resolving"}
          BY <2>1, <4>3 DEF Places, BufferAt
        <5> QED
          BY <5>1
      <4>4. CASE nwk[b] # "no"
        <5>1. Places(b) = {"nwk"}
          BY <2>1, <4>4 DEF Places, BufferAt
        <5> QED
          BY <5>1
      <4>5. CASE conf[b] # "no"
        <5>1. Places(b) = {"conf"}
          BY <2>1, <4>5 DEF Places, BufferAt
        <5> QED
          BY <5>1
      <4> QED
        BY <2>1, <2>4, <4>1, <4>2, <4>3, <4>4, <4>5 DEF BufferAt
    <3>2. Cardinality(Places(b)) = 1
      BY <3>1, OneOrNone, Zenon
    <3> QED
      BY <2>2, <2>4, <3>2
  <2> QED
    BY <2>3, <2>4
<1>3. ASSUME NEW i \in Slots, hash[i].state \in {"not confirmed", "acked"}
      PROVE  Places(hash[i].buf) = {"nwk"}
  <2>1. hash[i].buf \in Bufs /\ nwk[hash[i].buf] # "no"
    BY <1>3, EntryBuffer
  <2>2. BufferAt(hash[i].buf)
    BY <1>1, <2>1 DEF BufferOwned
  <2> QED
    BY <2>1, <2>2 DEF Places, BufferAt
<1>4. ASSUME NEW b \in Bufs PROVE Cardinality(Holders(b)) <= 1
  <2>1. CASE Holders(b) = {}
    BY <2>1, OneOrNone
  <2>2. CASE Holders(b) # {}
    <3>1. PICK i \in Holders(b) : TRUE
      BY <2>2
    <3>2. Holders(b) = {i}
      BY <1>1, <3>1, NoBufAssumption DEF Holders, OneEntry
    <3> QED
      BY <3>2, OneOrNone
  <2> QED
    BY <2>1, <2>2
<1> QED
  BY <1>2, <1>3, <1>4 DEF TableAgreesWithBuffers

\* The table of frames that wait for their acknowledgement agrees with the buffers
\* and with the alarms, in whatever order requests, confirms, acknowledgements and
\* alarms come: no buffer is at two places, and no entry is left without its alarm.
THEOREM SpecTableSound == Spec => []TableSound
<1>1. IInv => TableSound
  <2> SUFFICES ASSUME IInv PROVE TableSound
    OBVIOUS
  <2>1. TableAgreesWithBuffers
    <3>1. CASE broken = "no"
      BY <3>1, SoundAgrees
    <3> QED
      BY <3>1 DEF TableAgreesWithBuffers
  <2>2. AlarmPerEntry
    BY DEF IInv, Sound, EntrySound, EntryAt, AlarmPerEntry
  <2> QED
    BY <2>1, <2>2 DEF TableSound
<1> QED
  BY <1>1, SpecIInv, PTL

-----------------------------------------------------------------------------
(* The service.  An acknowledgement says nothing but a counter, so that what is *)
(* confirmed with success was delivered unless two requests had the counter.    *)

\* Buffers whose request was not called yet.
Waiting == data_req \cup resolving

\* Requests that were called.
Numbered == {r \in Reqs : result[r] # "idle" /\ \A b \in Waiting : frame[b] # r}

\* The application of the receiver has it, or nothing is promised of it.
Known == got \cup doubtful

\* Two requests that are under way with one counter are both doubtful.
CountersApart ==
  \A q, r \in Reqs : q # r /\ UnderWay(q) /\ UnderWay(r) /\ ctr[q] = ctr[r] => q \in doubtful

\* What the receiver takes for a duplicate was handed to its application.
Remembered ==
  dup.clock # 0 => \A r \in Reqs : UnderWay(r) /\ ctr[r] = dup.ctr => r \in Known

\* A request has one buffer, and none once it is confirmed.
Asked ==
  /\ \A b \in Bufs : frame[b] # NoReq => result[frame[b]] = "asked"
  /\ \A b, c \in Bufs : frame[b] = frame[c] /\ frame[b] # NoReq => b = c
  /\ \A r \in Reqs : result[r] # "twice"

\* What the network and the receiver have was sent.
Sent ==
  /\ \A r \in Reqs : net[r] > 0 => r \in Numbered
  /\ \A i \in DOMAIN ack_q : ack_q[i] \in Numbered
  /\ got \subseteq Numbered

\* Acknowledgements, and entries and confirms made of them, are of frames that were
\* handed to the application of the receiver.
Acked == \A r \in Reqs : acks[r] > 0 => r \in Known

EntrySeen(i) ==
  hash[i].state # "free" => /\ hash[i].ctr = ctr[frame[hash[i].buf]]
                            /\ hash[i].state = "acked" => frame[hash[i].buf] \in Known

ConfSeen(b) == conf[b] = "ok" /\ kind[frame[b]] # "plain" => frame[b] \in Known

Seen == (\A i \in Slots : EntrySeen(i)) /\ (\A b \in Bufs : ConfSeen(b))

Served == CountersApart /\ Remembered /\ Asked /\ Sent /\ Acked /\ Seen

SInv == IInv /\ (broken = "no" => Served)

\* The network layer or an entry has buffer b.
Below(b) == nwk[b] # "no" \/ Held(b)

\* Nothing gets under way but what was.
LEMMA WayKept ==
  ASSUME \A b \in Bufs : frame'[b] # NoReq /\ Below(b)' => Below(b) /\ frame'[b] = frame[b],
         \A r \in Reqs : net'[r] > 0 => UnderWay(r),
         \A r \in Reqs : acks'[r] > 0 => UnderWay(r),
         \A i \in DOMAIN ack_q' : UnderWay(ack_q'[i]),
         NoReq \notin Reqs
  PROVE  \A r \in Reqs : UnderWay(r)' => UnderWay(r)
<1> SUFFICES ASSUME NEW r \in Reqs, UnderWay(r)' PROVE UnderWay(r)
  OBVIOUS
<1>1. CASE net'[r] > 0 \/ acks'[r] > 0 \/ \E i \in DOMAIN ack_q' : ack_q'[i] = r
  BY <1>1
<1>2. CASE \E b \in Bufs : frame'[b] = r /\ Below(b)'
  BY <1>2 DEF UnderWay, Below, Held
<1> QED
  BY <1>1, <1>2 DEF UnderWay, Below, Held

\* Who has the counter of whom, and what the receiver remembers, changes with the
\* counters, with what is under way and with the receiver only.
LEMMA ApartKept ==
  ASSUME Served, ctr' = ctr, doubtful \subseteq doubtful', got \subseteq got', dup' = dup,
         \A r \in Reqs : UnderWay(r)' => UnderWay(r)
  PROVE  CountersApart' /\ Remembered'
<1>1. CountersApart'
  BY DEF Served, CountersApart
<1>2. Remembered'
  BY DEF Served, Remembered, Known
<1> QED
  BY <1>1, <1>2

\* The sender's buffers and entries lose what they lose, the rest stays.
LEMMA SenderKept ==
  ASSUME IInv, Served, UNCHANGED <<ctr, doubtful, receiverVars, net>>,
         \A r \in Reqs : acks'[r] > 0 => acks[r] > 0,
         \A b \in Bufs : frame'[b] # NoReq /\ Below(b)' => Below(b) /\ frame'[b] = frame[b]
  PROVE  CountersApart' /\ Remembered'
<1>1. \A r \in Reqs : UnderWay(r)' => UnderWay(r)
  <2>1. NoReq \notin Reqs
    BY Types DEF IInv
  <2>2. \A r \in Reqs : net'[r] > 0 => UnderWay(r)
    BY DEF UnderWay
  <2>3. \A r \in Reqs : acks'[r] > 0 => UnderWay(r)
    BY DEF UnderWay
  <2>4. \A i \in DOMAIN ack_q' : UnderWay(ack_q'[i])
    BY DEF UnderWay, receiverVars
  <2> QED
    BY <2>1, <2>2, <2>3, <2>4, WayKept
<1> QED
  BY <1>1, ApartKept DEF receiverVars

\* The requests that were called stay the same when nobody begins or calls one.
LEMMA NumberedKept ==
  ASSUME Served, Waiting' = Waiting,
         \A b \in Waiting : frame'[b] = frame[b],
         \A r \in Reqs : result'[r] = "idle" <=> result[r] = "idle"
  PROVE  Numbered' = Numbered
BY DEF Numbered

\* A frame that the network layer has, or an entry, or that is confirmed, was called.
LEMMA HasCounter ==
  ASSUME IInv, broken = "no", Served, NEW b \in Bufs, frame[b] # NoReq, b \notin Waiting
  PROVE  frame[b] \in Numbered
<1>1. frame[b] \in Reqs /\ result[frame[b]] = "asked"
  BY Types DEF IInv, Served, Asked
<1>2. data_req \subseteq Bufs /\ resolving \subseteq Bufs
  BY DEF IInv, TypeOK
<1>3. \A c \in Waiting : frame[c] # frame[b]
  BY <1>2 DEF Waiting, Served, Asked
<1> QED
  BY <1>1, <1>3 DEF Numbered

\* The frame of an entry.
LEMMA EntryHasCounter ==
  ASSUME IInv, broken = "no", Served, NEW i \in Slots, hash[i].state # "free"
  PROVE  frame[hash[i].buf] \in Numbered
<1>1. hash[i].buf \in Bufs /\ frame[hash[i].buf] \in Reqs /\ hash[i].buf \notin Waiting
  BY EntryBuffer DEF Waiting
<1>2. NoReq \notin Reqs
  BY Types DEF IInv
<1> QED
  BY <1>1, <1>2, HasCounter

\* One lemma for each action: what the sender and the receiver know of each other holds.

LEMMA AskDataServed ==
  ASSUME IInv, broken = "no", Served, NEW r \in Reqs, NEW b \in Bufs, NEW k \in {"plain", "data"},
         AskData(r, b, k)
  PROVE  Served'
<1>1. TypeOK /\ BufferOwned /\ BufferAt(b)
  BY DEF IInv, Sound, BufferOwned
<1>2. /\ frame[b] = NoReq /\ frame' = [frame EXCEPT ![b] = r] /\ data_req' = data_req \cup {b}
      /\ kind' = [kind EXCEPT ![r] = k] /\ result' = [result EXCEPT ![r] = "asked"]
      /\ result[r] = "idle"
      /\ UNCHANGED <<aps_counter, hash, alarm, resolving, nwk, conf, ctr, doubtful, broken,
                     receiverVars, net, acks>>
  BY DEF AskData
<1>3. /\ frame'[b] = r /\ r # NoReq /\ \A c \in Bufs : c # b => frame'[c] = frame[c]
      /\ result'[r] = "asked" /\ \A q \in Reqs : q # r => result'[q] = result[q] /\ kind'[q] = kind[q]
      /\ \A c \in Bufs : frame[c] # r
      /\ data_req \subseteq Bufs /\ resolving \subseteq Bufs
  BY <1>1, <1>2, Types DEF TypeOK, BufferOwned, BufferAt
<1>4. Numbered' = Numbered /\ r \notin Numbered
  <2>1. r \notin Numbered /\ r \notin Numbered'
    BY <1>2, <1>3 DEF Numbered, Waiting
  <2>2. ASSUME NEW q \in Reqs, q # r PROVE q \in Numbered' <=> q \in Numbered
    <3>1. /\ Waiting' = Waiting \cup {b} /\ b \notin Waiting
          /\ \A c \in Waiting : c # b /\ frame'[c] = frame[c]
      BY <1>1, <1>2, <1>3 DEF Waiting, BufferAt
    <3>2. (\A c \in Waiting : frame[c] # q) <=> (\A c \in Waiting' : frame'[c] # q)
      BY <1>3, <2>2, <3>1
    <3> QED
      BY <1>3, <2>2, <3>2 DEF Numbered
  <2> QED
    BY <2>1, <2>2 DEF Numbered
<1>5. CountersApart' /\ Remembered'
  <2>1. nwk[b] = "no" /\ ~Held(b)
    BY <1>1, <1>2 DEF BufferAt
  <2>2. \A c \in Bufs : Below(c)' <=> Below(c)
    BY <1>2 DEF Below, Held
  <2>3. ~Below(b)
    BY <2>1 DEF Below
  <2> QED
    BY <1>2, <1>3, <2>2, <2>3, SenderKept
<1>6. Asked'
  BY <1>2, <1>3 DEF Asked, Served
<1>7. Sent' /\ Acked'
  BY <1>2, <1>4 DEF Sent, Acked, Known, Served, receiverVars
<1>8. ASSUME NEW i \in Slots PROVE EntrySeen(i)'
  <2>1. hash[i].state # "free" => hash[i].buf \in Bufs /\ hash[i].buf # b
    BY <1>1, <1>2, EntryBuffer DEF BufferAt
  <2> QED
    BY <1>2, <1>3, <2>1 DEF EntrySeen, Known, Seen, Served, receiverVars
<1>9. ASSUME NEW c \in Bufs PROVE ConfSeen(c)'
  <2>1. conf[c] # "no" => c # b /\ frame[c] \in Reqs
    BY <1>1, <1>2, Types DEF BufferOwned, BufferAt
  <2> QED
    BY <1>2, <1>3, <2>1 DEF ConfSeen, Known, Seen, Served, receiverVars
<1> QED
  BY <1>5, <1>6, <1>7, <1>8, <1>9 DEF Served, Seen

LEMMA WaitForPeerServed ==
  ASSUME IInv, broken = "no", Served, NEW b \in Bufs,
         WaitForPeer(b) \/ PeerKnown(b) \/ NwkForget(b)
  PROVE  Served'
<1>1. /\ UNCHANGED <<hash, alarm, frame, conf, ctr, kind, result,
                     doubtful, broken, receiverVars, net, acks>>
      /\ Waiting' = Waiting
      /\ \A c \in Bufs : nwk'[c] # "no" => nwk[c] # "no"
  BY DEF WaitForPeer, PeerKnown, NwkForget, Waiting, IInv, TypeOK
<1>2. Numbered' = Numbered
  BY <1>1, NumberedKept
<1>3. CountersApart' /\ Remembered'
  BY <1>1, SenderKept DEF Below, Held
<1> QED
  BY <1>1, <1>2, <1>3 DEF Served, Asked, Sent, Acked, Seen, EntrySeen, ConfSeen, Known, receiverVars

\* A request takes a number: who else has it is doubtful from then on.
LEMMA CounterGiven ==
  ASSUME IInv, broken = "no", Served, NEW r \in Reqs, TakeCounter(r),
         \A q \in Reqs : q # r /\ UnderWay(q)' => UnderWay(q),
         UNCHANGED receiverVars
  PROVE  /\ CountersApart' /\ Remembered' /\ doubtful \subseteq doubtful'
         /\ ctr'[r] = aps_counter /\ \A q \in Reqs : q # r => ctr'[q] = ctr[q]
<1>1. ctr'[r] = aps_counter /\ \A q \in Reqs : q # r => ctr'[q] = ctr[q]
  BY DEF IInv, TypeOK, TakeCounter
<1>2. /\ doubtful \subseteq doubtful' /\ InUse(aps_counter) \subseteq doubtful'
      /\ InUse(aps_counter) # {} \/ IsDup(aps_counter) => r \in doubtful'
  BY DEF TakeCounter
<1>3. CountersApart'
  <2> SUFFICES ASSUME NEW p \in Reqs, NEW q \in Reqs, p # q, UnderWay(p)', UnderWay(q)',
                      ctr'[p] = ctr'[q]
               PROVE  p \in doubtful'
    BY DEF CountersApart
  <2>1. CASE p # r /\ q # r
    BY <1>1, <1>2, <2>1 DEF Served, CountersApart
  <2>2. CASE p = r
    <3>1. q \in InUse(aps_counter)
      BY <1>1, <2>2 DEF InUse
    <3> QED
      BY <1>2, <2>2, <3>1
  <2>3. CASE q = r
    <3>1. p \in InUse(aps_counter)
      BY <1>1, <2>3 DEF InUse
    <3> QED
      BY <1>2, <3>1
  <2> QED
    BY <2>1, <2>2, <2>3
<1>4. Remembered'
  <2> SUFFICES ASSUME dup.clock # 0, NEW q \in Reqs, UnderWay(q)', ctr'[q] = dup.ctr
               PROVE  q \in Known'
    BY DEF Remembered, receiverVars
  <2>1. CASE q = r
    BY <1>1, <1>2, <2>1 DEF IsDup, Known
  <2>2. CASE q # r
    BY <1>1, <1>2, <2>2 DEF Served, Remembered, Known, receiverVars
  <2> QED
    BY <2>1, <2>2
<1> QED
  BY <1>1, <1>2, <1>3, <1>4

\* A request that is called leaves what was sent and seen alone.
LEMMA OthersSeen ==
  ASSUME IInv, broken = "no", Served, NEW r \in Reqs, r \notin Numbered,
         Numbered' = Numbered \cup {r}, \A q \in Reqs : q # r => ctr'[q] = ctr[q],
         doubtful \subseteq doubtful',
         \A c \in Bufs : frame[c] \in Numbered => /\ frame'[c] = frame[c]
                                                  /\ kind'[frame[c]] = kind[frame[c]],
         UNCHANGED <<receiverVars, net, acks>>
  PROVE  /\ Sent' /\ Acked'
         /\ \A i \in Slots : hash'[i] = hash[i] => EntrySeen(i)'
         /\ \A c \in Bufs : conf'[c] = conf[c] => ConfSeen(c)'
<1>1. Sent' /\ Acked'
  BY DEF Served, Sent, Acked, Known, receiverVars
<1>2. ASSUME NEW i \in Slots, hash'[i] = hash[i] PROVE EntrySeen(i)'
  <2>1. CASE hash[i].state # "free"
    <3>1. frame[hash[i].buf] \in Numbered /\ hash[i].buf \in Bufs /\ EntrySeen(i)
      BY <2>1, EntryHasCounter, EntryBuffer DEF Served, Seen
    <3>2. frame'[hash[i].buf] = frame[hash[i].buf] /\ Known \subseteq Known'
      BY <3>1 DEF receiverVars, Known
    <3>3. frame[hash[i].buf] # r /\ frame[hash[i].buf] \in Reqs
      BY <3>1 DEF Numbered
    <3> QED
      BY <1>2, <3>1, <3>2, <3>3 DEF EntrySeen
  <2>2. CASE hash[i].state = "free"
    BY <1>2, <2>2 DEF EntrySeen
  <2> QED
    BY <2>1, <2>2
<1>3. ASSUME NEW c \in Bufs, conf'[c] = conf[c] PROVE ConfSeen(c)'
  <2>1. CASE conf[c] # "no"
    <3>1. BufferAt(c) /\ frame[c] # NoReq /\ c \notin Waiting
      BY <2>1 DEF IInv, Sound, BufferOwned, BufferAt, Waiting
    <3>2. frame[c] \in Numbered
      BY <3>1, HasCounter
    <3> QED
      BY <1>3, <3>2 DEF ConfSeen, Served, Seen, Known, receiverVars
  <2>2. CASE conf[c] = "no"
    BY <1>3, <2>2 DEF ConfSeen
  <2> QED
    BY <2>1, <2>2
<1> QED
  BY <1>1, <1>2, <1>3

\* The request of buffer b is called.
LEMMA Called ==
  ASSUME IInv, broken = "no", Served, NEW b \in Bufs, b \in data_req, b \notin resolving,
         frame[b] \in Reqs, result[frame[b]] # "idle", data_req' = data_req \ {b},
         UNCHANGED <<frame, resolving, result>>
  PROVE  frame[b] \notin Numbered /\ Numbered' = Numbered \cup {frame[b]}
<1> DEFINE r == frame[b]
<1>1. \A c \in Bufs : c # b => frame[c] # r
  BY Types DEF Served, Asked, IInv
<1>2. Waiting' = Waiting \ {b} /\ Waiting \subseteq Bufs /\ b \in Waiting
  BY DEF Waiting, IInv, TypeOK
<1>3. r \notin Numbered
  BY <1>2 DEF Numbered
<1>4. r \in Numbered'
  BY <1>1, <1>2 DEF Numbered
<1>5. ASSUME NEW q \in Reqs, q # r PROVE q \in Numbered' <=> q \in Numbered
  BY <1>2, <1>5 DEF Numbered
<1>6. Numbered \subseteq Reqs /\ Numbered' \subseteq Reqs
  BY DEF Numbered
<1> HIDE DEF r
<1>7. Numbered' = Numbered \cup {r}
  BY <1>3, <1>4, <1>5, <1>6
<1> QED
  BY <1>3, <1>7 DEF r

\* A request without a bound peer is called as well, and doubtful.
LEMMA NotBoundServed ==
  ASSUME IInv, broken = "no", Served, NEW b \in Bufs, NotBound(b)
  PROVE  Served'
<1> DEFINE r == frame[b]
<1>1. TypeOK /\ BufferAt(b)
  BY DEF IInv, Sound, BufferOwned
<1>2. /\ b \in data_req /\ data_req' = data_req \ {b} /\ conf' = [conf EXCEPT ![b] = "ok"]
      /\ doubtful' = doubtful \cup {r}
      /\ UNCHANGED <<aps_counter, hash, alarm, frame, resolving, nwk, ctr, kind, result,
                     broken, receiverVars, net, acks>>
  BY DEF NotBound
<1>3. /\ r \in Reqs /\ r # NoReq /\ result[r] # "idle" /\ b \notin resolving /\ b \in Waiting
  BY <1>1, <1>2, Types DEF BufferAt, Waiting
<1>4. r \notin Numbered /\ Numbered' = Numbered \cup {r}
  BY <1>2, <1>3, Called
<1>5. \A q \in Reqs : UnderWay(q)' => UnderWay(q)
  BY <1>2 DEF UnderWay, receiverVars
<1>6. CountersApart' /\ Remembered'
  BY <1>2, <1>5, ApartKept DEF receiverVars
<1>7. /\ Sent' /\ Acked'
      /\ \A j \in Slots : hash'[j] = hash[j] => EntrySeen(j)'
      /\ \A c \in Bufs : conf'[c] = conf[c] => ConfSeen(c)'
  BY <1>2, <1>3, <1>4, OthersSeen
<1>8. \A c \in Bufs : c # b => conf'[c] = conf[c]
  BY <1>1, <1>2 DEF TypeOK
<1>9. ConfSeen(b)'
  BY <1>2 DEF ConfSeen, Known
<1>10. Asked'
  BY <1>2 DEF Served, Asked
<1> QED
  BY <1>2, <1>6, <1>7, <1>8, <1>9, <1>10 DEF Served, Seen

LEMMA DataRequestServed ==
  ASSUME IInv, broken = "no", Served, NEW b \in Bufs, DataRequest(b),
         broken' = "no"
  PROVE  Served'
<1> DEFINE r == frame[b]
<1>1. TypeOK /\ BufferAt(b)
  BY DEF IInv, Sound, BufferOwned
<1>2. /\ b \in data_req /\ data_req' = data_req \ {b}
      /\ UNCHANGED <<frame, resolving, kind, result, receiverVars, net, acks>>
  BY DEF DataRequest
<1>3. /\ r \in Reqs /\ r # NoReq /\ result[r] # "idle" /\ b \notin resolving /\ b \in Waiting
  BY <1>1, <1>2, Types DEF BufferAt, Waiting
<1>4. \A c \in Bufs : c # b => frame[c] # r
  BY <1>3 DEF Served, Asked
<1>6. r \notin Numbered /\ Numbered' = Numbered \cup {r}
  BY <1>2, <1>3, Called
<1>61. \A c \in Bufs : c # b => (Below(c)' => Below(c))
  <2>1. \A c \in Bufs : c # b => nwk'[c] = nwk[c]
    BY <1>1, <1>3 DEF DataRequest, save_ack_data, TypeOK
  <2>2. \A c \in Bufs : c # b => (Held(c)' => Held(c))
    <3>1. CASE hash' = hash
      BY <3>1 DEF Held
    <3>2. CASE kind[r] = "data"
      <4>1. save_ack_data(r, b)
        BY <3>2 DEF DataRequest
      <4>2. PICK i \in Slots : hash' = [hash EXCEPT ![i] = NewEntry(r, b)]
        BY <1>3, <4>1, SaveAckData, FirstFree
      <4>3. NewEntry(r, b).buf = b /\ hash \in [Slots -> Entry]
        BY <1>1, <1>3, NewEntryType DEF TypeOK
      <4> HIDE DEF r
      <4>4. hash'[i].buf = b /\ \A j \in Slots : j # i => hash'[j] = hash[j]
        BY <4>2, <4>3
      <4> QED
        BY <4>4 DEF Held
    <3> QED
      BY <3>1, <3>2 DEF DataRequest
  <2> QED
    BY <2>1, <2>2 DEF Below
<1>62. \A q \in Reqs : q # r /\ UnderWay(q)' => UnderWay(q)
  <2> SUFFICES ASSUME NEW q \in Reqs, q # r, UnderWay(q)' PROVE UnderWay(q)
    OBVIOUS
  <2>1. CASE net[q] > 0 \/ acks[q] > 0 \/ \E i \in DOMAIN ack_q : ack_q[i] = q
    BY <2>1 DEF UnderWay
  <2>2. CASE \E c \in Bufs : frame'[c] = q /\ Below(c)'
    BY <1>2, <1>61, <2>2 DEF UnderWay, Below, Held
  <2> QED
    BY <1>2, <2>1, <2>2 DEF UnderWay, Below, Held, receiverVars
<1>63. TakeCounter(r)
  BY DEF DataRequest
<1> HIDE DEF r
<1>7. /\ CountersApart' /\ Remembered' /\ ctr'[r] = aps_counter /\ doubtful \subseteq doubtful'
      /\ \A q \in Reqs : q # r => ctr'[q] = ctr[q]
  BY <1>2, <1>3, <1>62, <1>63, CounterGiven
<1>8. /\ Sent' /\ Acked'
      /\ \A j \in Slots : hash'[j] = hash[j] => EntrySeen(j)'
      /\ \A c \in Bufs : conf'[c] = conf[c] => ConfSeen(c)'
  BY <1>2, <1>3, <1>6, <1>7, OthersSeen
<1>9. Asked'
  BY <1>2 DEF Served, Asked
<1>10. Seen'
  <2>1. CASE kind[r] = "data"
    <3>1. save_ack_data(r, b)
      BY <2>1 DEF DataRequest, r
    <3>2. PICK i \in Slots : hash' = [hash EXCEPT ![i] = NewEntry(r, b)] /\ conf' = conf
      BY <1>3, <3>1, SaveAckData, FirstFree
    <3>3. hash \in [Slots -> Entry]
      BY <1>1 DEF TypeOK
    <3>4. /\ NewEntry(r, b).state = "not confirmed" /\ NewEntry(r, b).buf = b
          /\ NewEntry(r, b).ctr = aps_counter
      BY <1>1, <1>3, NewEntryType
    <3>5. hash'[i] = NewEntry(r, b) /\ \A j \in Slots : j # i => hash'[j] = hash[j]
      BY <3>2, <3>3
    <3>6. EntrySeen(i)'
      <4>1. frame'[b] = r
        BY <1>2 DEF r
      <4> QED
        BY <1>7, <3>4, <3>5, <4>1 DEF EntrySeen
    <3> QED
      BY <1>8, <3>2, <3>5, <3>6 DEF Seen
  <2>2. CASE kind[r] # "data"
    <3>1. UNCHANGED <<hash, conf>>
      BY <2>2 DEF DataRequest, r
    <3> QED
      BY <1>8, <3>1 DEF Seen
  <2> QED
    BY <2>1, <2>2
<1> QED
  BY <1>7, <1>8, <1>9, <1>10 DEF Served

LEMMA SendCommandServed ==
  ASSUME IInv, broken = "no", Served, NEW r \in Reqs, NEW b \in Bufs,
         SendCommand(r, b)
  PROVE  Served'
<1>1. TypeOK /\ BufferOwned /\ BufferAt(b)
  BY DEF IInv, Sound, BufferOwned
<1>2. /\ frame[b] = NoReq /\ frame' = [frame EXCEPT ![b] = r] /\ result[r] = "idle"
      /\ kind' = [kind EXCEPT ![r] = "command"] /\ result' = [result EXCEPT ![r] = "asked"]
      /\ TakeCounter(r) /\ nwk' = [nwk EXCEPT ![b] = "queued"]
      /\ UNCHANGED <<data_req, resolving, conf, broken, receiverVars, net, acks>>
  BY DEF SendCommand
<1>3. /\ frame'[b] = r /\ r # NoReq /\ \A c \in Bufs : c # b => frame'[c] = frame[c]
      /\ result'[r] = "asked" /\ \A q \in Reqs : q # r => result'[q] = result[q] /\ kind'[q] = kind[q]
      /\ \A c \in Bufs : frame[c] # r
      /\ Waiting \subseteq Bufs /\ b \notin Waiting /\ Waiting' = Waiting
  BY <1>1, <1>2, Types DEF TypeOK, BufferOwned, BufferAt, Waiting
<1>4. r \notin Numbered /\ Numbered' = Numbered \cup {r}
  <2>1. r \notin Numbered /\ r \in Numbered'
    BY <1>2, <1>3 DEF Numbered
  <2>2. ASSUME NEW q \in Reqs, q # r PROVE q \in Numbered' <=> q \in Numbered
    BY <1>3, <2>2 DEF Numbered
  <2>3. Numbered \subseteq Reqs /\ Numbered' \subseteq Reqs
    BY DEF Numbered
  <2> QED
    BY <2>1, <2>2, <2>3
<1>51. \A c \in Bufs : c # b => (Below(c)' => Below(c))
  <2>1. \A c \in Bufs : c # b => nwk'[c] = nwk[c]
    BY <1>1, <1>2 DEF TypeOK
  <2>2. \A c \in Bufs : c # b => (Held(c)' => Held(c))
    <3>1. CASE FreeSlots = {}
      BY <3>1 DEF SendCommand, Held
    <3>2. CASE FreeSlots # {}
      <4>1. PICK i \in Slots : hash' = [hash EXCEPT ![i] = [NewEntry(r, b) EXCEPT !.command = TRUE]]
        BY <3>2, FirstFree DEF SendCommand
      <4>2. [NewEntry(r, b) EXCEPT !.command = TRUE].buf = b /\ hash \in [Slots -> Entry]
        BY <1>1 DEF TypeOK, NewEntry
      <4>3. hash'[i].buf = b /\ \A j \in Slots : j # i => hash'[j] = hash[j]
        BY <4>1, <4>2
      <4> QED
        BY <4>3 DEF Held
    <3> QED
      BY <3>1, <3>2
  <2> QED
    BY <2>1, <2>2 DEF Below
<1>52. \A q \in Reqs : q # r /\ UnderWay(q)' => UnderWay(q)
  <2> SUFFICES ASSUME NEW q \in Reqs, q # r, UnderWay(q)' PROVE UnderWay(q)
    OBVIOUS
  <2>1. CASE net[q] > 0 \/ acks[q] > 0 \/ \E i \in DOMAIN ack_q : ack_q[i] = q
    BY <2>1 DEF UnderWay
  <2>2. CASE \E c \in Bufs : frame'[c] = q /\ Below(c)'
    BY <1>3, <1>51, <2>2 DEF UnderWay, Below, Held
  <2> QED
    BY <1>2, <2>1, <2>2 DEF UnderWay, Below, Held, receiverVars
<1>5. /\ CountersApart' /\ Remembered' /\ ctr'[r] = aps_counter /\ doubtful \subseteq doubtful'
      /\ \A q \in Reqs : q # r => ctr'[q] = ctr[q]
  BY <1>2, <1>52, CounterGiven
<1>6. \A c \in Bufs : frame[c] \in Numbered => frame'[c] = frame[c] /\ kind'[frame[c]] = kind[frame[c]]
  <2>1. Numbered \subseteq Reqs /\ NoReq \notin Reqs
    BY <1>1, Types DEF Numbered
  <2> QED
    BY <1>2, <1>3, <1>4, <2>1
<1>7. /\ Sent' /\ Acked'
      /\ \A j \in Slots : hash'[j] = hash[j] => EntrySeen(j)'
      /\ \A c \in Bufs : conf'[c] = conf[c] => ConfSeen(c)'
  BY <1>2, <1>4, <1>5, <1>6, OthersSeen
<1>8. Asked'
  BY <1>2, <1>3 DEF Served, Asked
<1>9. \A j \in Slots : EntrySeen(j)'
  <2>1. CASE FreeSlots = {}
    <3>1. hash' = hash
      BY <2>1 DEF SendCommand
    <3> QED
      BY <1>7, <3>1
  <2>2. CASE FreeSlots # {}
    <3>1. PICK i \in Slots : hash' = [hash EXCEPT ![i] = [NewEntry(r, b) EXCEPT !.command = TRUE]]
      BY <2>2, FirstFree DEF SendCommand
    <3>2. hash \in [Slots -> Entry]
      BY <1>1 DEF TypeOK
    <3> DEFINE e == [NewEntry(r, b) EXCEPT !.command = TRUE]
    <3>3. e.state = "not confirmed" /\ e.buf = b /\ e.ctr = aps_counter
      <4>1. /\ NewEntry(r, b) \in Entry /\ NewEntry(r, b).state = "not confirmed"
            /\ NewEntry(r, b).buf = b /\ NewEntry(r, b).ctr = aps_counter
        BY <1>1, NewEntryType
      <4>2. "free" \in States /\ 0 \in 0 .. Retries
        BY ApsAssumption DEF States
      <4> QED
        BY <4>1, <4>2, EntryChanges
    <3> HIDE DEF e
    <3>4. hash'[i] = e /\ \A j \in Slots : j # i => hash'[j] = hash[j]
      BY <3>1, <3>2 DEF e
    <3>5. EntrySeen(i)'
      BY <1>3, <1>5, <3>3, <3>4 DEF EntrySeen
    <3> QED
      BY <1>7, <3>4, <3>5
  <2> QED
    BY <2>1, <2>2
<1> QED
  BY <1>2, <1>5, <1>7, <1>8, <1>9 DEF Served, Seen

LEMMA NwkSendServed ==
  ASSUME IInv, broken = "no", Served, NEW b \in Bufs, NwkSend(b)
  PROVE  Served'
<1>1. /\ nwk[b] = "queued" /\ Waiting' = Waiting
      /\ UNCHANGED <<aps_counter, hash, alarm, frame, data_req, resolving, conf, ctr,
                     kind, result, doubtful, broken, receiverVars, acks>>
  BY DEF NwkSend, Waiting
<1>2. frame[b] # NoReq /\ b \notin Waiting
  BY <1>1 DEF IInv, Sound, BufferOwned, BufferAt, Waiting
<1>3. frame[b] \in Numbered
  BY <1>2, HasCounter
<1>4. Numbered' = Numbered
  BY <1>1, NumberedKept
<1>5. \A r \in Reqs : r # frame[b] => net'[r] = net[r]
  BY DEF NwkSend, IInv, TypeOK
<1>6. Sent'
  BY <1>1, <1>3, <1>4, <1>5 DEF Served, Sent, receiverVars
<1>7. CountersApart' /\ Remembered'
  <2>1. UnderWay(frame[b])
    BY <1>1 DEF UnderWay
  <2>2. \A r \in Reqs : net'[r] > 0 => UnderWay(r)
    BY <1>5, <2>1 DEF UnderWay
  <2>3. \A r \in Reqs : acks'[r] > 0 => UnderWay(r)
    BY <1>1 DEF UnderWay
  <2>4. \A i \in DOMAIN ack_q' : UnderWay(ack_q'[i])
    BY <1>1 DEF UnderWay, receiverVars
  <2>5. \A c \in Bufs : nwk'[c] # "no" => nwk[c] # "no"
    BY <1>1 DEF NwkSend, IInv, TypeOK
  <2>6. \A c \in Bufs : Below(c)' => Below(c)
    BY <1>1, <2>5 DEF Below, Held
  <2>7. NoReq \notin Reqs
    BY Types DEF IInv
  <2> QED
    BY <1>1, <2>2, <2>3, <2>4, <2>6, <2>7, WayKept, ApartKept DEF receiverVars
<1> QED
  BY <1>1, <1>4, <1>6, <1>7 DEF Served, Asked, Acked, Seen, EntrySeen, ConfSeen, Known, receiverVars

\* The frame of a buffer that was called is given back, or confirmed: the request keeps
\* its counter.
LEMMA FrameGone ==
  ASSUME IInv, broken = "no", Served, NEW b \in Bufs, frame[b] # NoReq, b \notin Waiting,
         \/ frame' = [frame EXCEPT ![b] = NoReq] /\ conf' = conf
         \/ \E s \in {"ok", "failed"} :
              /\ conf' = [conf EXCEPT ![b] = s] /\ frame' = frame
              /\ s = "ok" /\ kind[frame[b]] # "plain" => frame[b] \in Known,
         UNCHANGED <<aps_counter, data_req, resolving, ctr, kind, result, doubtful, receiverVars, net>>,
         \A r \in Reqs : acks'[r] > 0 => acks[r] > 0,
         \A c \in Bufs : Below(c)' => Below(c)
  PROVE  /\ CountersApart' /\ Remembered' /\ Asked' /\ Sent' /\ Acked'
         /\ conf[b] = "no" => \A c \in Bufs : ConfSeen(c)'
         /\ \A c \in Bufs : c # b => frame'[c] = frame[c]
<1>1. TypeOK /\ Waiting' = Waiting /\ Waiting \subseteq Bufs
  BY DEF IInv, TypeOK, Waiting
<1>2. /\ \A c \in Bufs : c # b => frame'[c] = frame[c] /\ conf'[c] = conf[c]
      /\ \/ frame'[b] = NoReq /\ conf'[b] = conf[b]
         \/ /\ frame'[b] = frame[b]
            /\ conf'[b] = "ok" /\ kind[frame[b]] # "plain" => frame[b] \in Known
  BY <1>1 DEF TypeOK
<1>3. Numbered' = Numbered
  BY <1>1, <1>2, NumberedKept
<1>31. CountersApart' /\ Remembered'
  <2>1. \A c \in Bufs : frame'[c] # NoReq => frame'[c] = frame[c]
    BY <1>1 DEF TypeOK
  <2> QED
    BY <2>1, SenderKept
<1>4. Asked'
  BY <1>2 DEF Served, Asked
<1>5. Sent' /\ Acked'
  BY <1>3 DEF Served, Sent, Acked, Known, receiverVars
<1>6. ASSUME conf[b] = "no", NEW c \in Bufs PROVE ConfSeen(c)'
  <2>1. CASE c # b
    BY <1>2, <2>1 DEF Served, Seen, ConfSeen, Known, receiverVars
  <2>2. CASE c = b
    BY <1>2, <1>6, <2>2 DEF ConfSeen, Known, receiverVars
  <2> QED
    BY <2>1, <2>2
<1> QED
  BY <1>2, <1>3, <1>31, <1>4, <1>5, <1>6

LEMMA PlainConfirmServed ==
  ASSUME IInv, broken = "no", Served, NEW b \in Bufs, PlainConfirm(b)
  PROVE  Served'
<1>1. /\ nwk[b] # "no" /\ kind[frame[b]] = "plain" /\ nwk' = [nwk EXCEPT ![b] = "no"]
      /\ UNCHANGED <<aps_counter, hash, alarm, frame, data_req, resolving, ctr, kind, result,
                     doubtful, broken, receiverVars, net, acks>>
      /\ \E s \in {"ok", "failed"} : conf' = [conf EXCEPT ![b] = s]
  BY DEF PlainConfirm
<1>2. frame[b] # NoReq /\ b \notin Waiting /\ conf[b] = "no"
  BY <1>1 DEF IInv, Sound, BufferOwned, BufferAt, Waiting
<1>21. \A c \in Bufs : Below(c)' => Below(c)
  BY <1>1 DEF Below, Held, IInv, TypeOK
<1>3. CountersApart' /\ Remembered' /\ Asked' /\ Sent' /\ Acked' /\ \A c \in Bufs : ConfSeen(c)'
  BY <1>1, <1>2, <1>21, FrameGone
<1> QED
  BY <1>1, <1>3 DEF Served, Seen, EntrySeen, Known, receiverVars

LEMMA NwkDropServed ==
  ASSUME IInv, broken = "no", Served, NEW b \in Bufs, NwkDrop(b), broken' = "no"
  PROVE  Served'
<1>1. /\ nwk[b] # "no" /\ frame' = [frame EXCEPT ![b] = NoReq] /\ Holders(b) = {}
      /\ nwk' = [nwk EXCEPT ![b] = "no"]
      /\ UNCHANGED <<aps_counter, hash, alarm, data_req, resolving, conf, ctr,
                     kind, result, doubtful, receiverVars, net, acks>>
  BY DEF NwkDrop, FreeBuf
<1>2. frame[b] # NoReq /\ b \notin Waiting /\ conf[b] = "no"
  BY <1>1 DEF IInv, Sound, BufferOwned, BufferAt, Waiting
<1>21. \A c \in Bufs : Below(c)' => Below(c)
  BY <1>1 DEF Below, Held, IInv, TypeOK
<1>3. /\ CountersApart' /\ Remembered' /\ Asked' /\ Sent' /\ Acked' /\ \A c \in Bufs : ConfSeen(c)'
      /\ \A c \in Bufs : c # b => frame'[c] = frame[c]
  BY <1>1, <1>2, <1>21, FrameGone
<1>4. ASSUME NEW i \in Slots PROVE EntrySeen(i)'
  <2>1. hash[i].state # "free" => hash[i].buf \in Bufs /\ hash[i].buf # b
    BY <1>1, EntryBuffer DEF Holders
  <2> QED
    BY <1>1, <1>3, <2>1 DEF Served, Seen, EntrySeen, Known, receiverVars
<1> QED
  BY <1>3, <1>4 DEF Served, Seen

\* An entry is done.
LEMMA DoneServed ==
  ASSUME IInv, broken = "no", Served, NEW i \in Slots, hash[i].state # "free",
         NEW command \in BOOLEAN, NEW s \in {"ok", "failed"}, NEW alarms,
         s = "ok" => frame[hash[i].buf] \in Known,
         \A c \in Bufs : nwk'[c] # "no" => nwk[c] # "no",
         done_with_this_ack(i, command, s, alarms),
         UNCHANGED <<aps_counter, data_req, resolving, ctr, kind, result, doubtful, receiverVars, net>>,
         \A r \in Reqs : acks'[r] > 0 => acks[r] > 0
  PROVE  Served'
<1>1. PICK b \in Bufs : b = hash[i].buf
  BY EntryBuffer
<1>2. /\ frame[b] \in Reqs /\ frame[b] # NoReq /\ conf[b] = "no" /\ b \notin Waiting
      /\ \A j \in Slots : j # i => hash[j].buf # b
      /\ hash \in [Slots -> Entry]
  BY <1>1, EntryBuffer, Types DEF IInv, TypeOK, Waiting
<1>3. /\ hash' = [hash EXCEPT ![i] = FreeEntry]
      /\ \/ frame' = [frame EXCEPT ![b] = NoReq] /\ conf' = conf
         \/ conf' = [conf EXCEPT ![b] = s] /\ frame' = frame
  BY <1>1 DEF done_with_this_ack, FreeBuf
<1>31. \A c \in Bufs : Below(c)' => Below(c)
  <2>1. hash'[i].buf = NoBuf /\ \A j \in Slots : j # i => hash'[j] = hash[j]
    BY <1>2, <1>3 DEF FreeEntry
  <2> QED
    BY <2>1, NoBufAssumption DEF Below, Held
<1>4. /\ CountersApart' /\ Remembered' /\ Asked' /\ Sent' /\ Acked' /\ \A c \in Bufs : ConfSeen(c)'
      /\ \A c \in Bufs : c # b => frame'[c] = frame[c]
  BY <1>1, <1>2, <1>3, <1>31, FrameGone
<1>5. hash'[i].state = "free" /\ \A j \in Slots : j # i => hash'[j] = hash[j]
  BY <1>2, <1>3 DEF FreeEntry
<1>6. ASSUME NEW j \in Slots PROVE EntrySeen(j)'
  <2>1. CASE j = i
    BY <1>5, <2>1 DEF EntrySeen
  <2>2. CASE j # i
    <3>1. hash[j].state # "free" => hash[j].buf \in Bufs /\ hash[j].buf # b
      BY <1>2, <2>2, EntryBuffer
    <3> QED
      BY <1>4, <1>5, <2>2, <3>1 DEF Served, Seen, EntrySeen, Known, receiverVars
  <2> QED
    BY <2>1, <2>2
<1> QED
  BY <1>4, <1>6 DEF Served, Seen

\* An entry goes on.
LEMMA EntryGoesOn ==
  ASSUME IInv, broken = "no", Served, NEW i \in Slots, hash[i].state # "free",
         NEW e \in Entry, hash' = [hash EXCEPT ![i] = e], e.buf = hash[i].buf, e.ctr = hash[i].ctr,
         e.state = "acked" /\ hash[i].state # "acked" => frame[hash[i].buf] \in Known,
         \A c \in Bufs : nwk'[c] # "no" => nwk[c] # "no" \/ c = hash[i].buf,
         UNCHANGED <<aps_counter, frame, data_req, resolving, conf, ctr, kind, result, doubtful,
                     receiverVars, net>>,
         \A r \in Reqs : acks'[r] > 0 => acks[r] > 0
  PROVE  Served'
<1>1. Numbered' = Numbered
  BY NumberedKept DEF Waiting
<1>2. Asked' /\ Sent' /\ Acked' /\ \A c \in Bufs : ConfSeen(c)'
  BY <1>1 DEF Served, Asked, Sent, Acked, Seen, ConfSeen, Known, receiverVars
<1>3. hash'[i] = e /\ \A j \in Slots : j # i => hash'[j] = hash[j]
  BY DEF IInv, TypeOK
<1>4. ASSUME NEW j \in Slots PROVE EntrySeen(j)'
  <2>1. EntrySeen(j)
    BY DEF Served, Seen
  <2>2. CASE j = i
    BY <1>3, <2>1, <2>2 DEF EntrySeen, Known, receiverVars
  <2>3. CASE j # i
    BY <1>3, <2>1, <2>3 DEF EntrySeen, Known, receiverVars
  <2> QED
    BY <2>2, <2>3
<1>5. CountersApart' /\ Remembered'
  <2>1. \A c \in Bufs : Held(c)' <=> Held(c)
    BY <1>3 DEF Held
  <2>2. \A c \in Bufs : Below(c)' => Below(c)
    BY <2>1 DEF Below, Held
  <2> QED
    BY <2>2, SenderKept
<1> QED
  BY <1>1, <1>2, <1>4, <1>5 DEF Served, Seen

LEMMA AckedFrameConfirmServed ==
  ASSUME IInv, broken = "no", Served, NEW b \in Bufs, AckedFrameConfirm(b)
  PROVE  Served'
<1>1. /\ nwk[b] # "no" /\ nwk' = [nwk EXCEPT ![b] = "no"]
      /\ UNCHANGED <<aps_counter, data_req, resolving, ctr, kind, result, doubtful, receiverVars, net, acks>>
  BY DEF AckedFrameConfirm
<1>11. \A c \in Bufs : nwk'[c] # "no" => nwk[c] # "no"
  BY <1>1 DEF IInv, TypeOK
<1>2. CASE Holders(b) = {}
  <2>1. frame' = [frame EXCEPT ![b] = NoReq] /\ UNCHANGED <<hash, alarm, conf, broken>>
    BY <1>2 DEF AckedFrameConfirm, FreeBuf
  <2>2. frame[b] # NoReq /\ b \notin Waiting /\ conf[b] = "no"
    BY <1>1 DEF IInv, Sound, BufferOwned, BufferAt, Waiting
  <2>21. \A c \in Bufs : Below(c)' => Below(c)
    BY <1>11, <2>1 DEF Below, Held
  <2>3. /\ CountersApart' /\ Remembered' /\ Asked' /\ Sent' /\ Acked' /\ \A c \in Bufs : ConfSeen(c)'
        /\ \A c \in Bufs : c # b => frame'[c] = frame[c]
    BY <1>1, <2>1, <2>2, <2>21, FrameGone
  <2>4. ASSUME NEW i \in Slots PROVE EntrySeen(i)'
    <3>1. hash[i].state # "free" => hash[i].buf \in Bufs /\ hash[i].buf # b
      BY <1>2, EntryBuffer DEF Holders
    <3> QED
      BY <1>1, <2>1, <2>3, <3>1 DEF Served, Seen, EntrySeen, Known, receiverVars
  <2> QED
    BY <2>3, <2>4 DEF Served, Seen
<1>3. CASE Holders(b) # {}
  <2>1. PICK i \in Slots : /\ hash[i].buf = b /\ hash[i].state # "free"
                           /\ IF hash[i].state = "acked"
                              THEN done_with_this_ack(i, kind[frame[b]] = "command", "ok", alarm)
                              ELSE /\ hash' = [hash EXCEPT ![i].state = "confirmed"]
                                   /\ UNCHANGED <<alarm, conf, frame, broken>>
    BY <1>3, FirstHolder DEF AckedFrameConfirm
  <2>2. CASE hash[i].state = "acked"
    <3>1. frame[hash[i].buf] \in Known
      BY <2>1, <2>2 DEF Served, Seen, EntrySeen
    <3>2. (kind[frame[b]] = "command") \in BOOLEAN
      OBVIOUS
    <3> QED
      BY <1>1, <1>11, <2>1, <2>2, <3>1, <3>2, DoneServed
  <2>3. CASE hash[i].state # "acked"
    <3> DEFINE e == [hash[i] EXCEPT !.state = "confirmed"]
    <3>1. e \in Entry /\ e.buf = hash[i].buf /\ e.ctr = hash[i].ctr /\ e.state = "confirmed"
      <4>1. hash[i] \in Entry
        BY Types DEF IInv
      <4>2. "confirmed" \in States /\ 0 \in 0 .. Retries
        BY ApsAssumption DEF States
      <4> QED
        BY <4>1, <4>2, EntryChanges
    <3>2. hash' = [hash EXCEPT ![i] = e] /\ UNCHANGED <<conf, frame>>
      BY <2>1, <2>3
    <3> HIDE DEF e
    <3> QED
      BY <1>1, <1>11, <2>1, <3>1, <3>2, EntryGoesOn
  <2> QED
    BY <2>2, <2>3
<1> QED
  BY <1>2, <1>3

LEMMA AckFrameServed ==
  ASSUME IInv, broken = "no", Served, NEW r \in Reqs, AckFrame(r)
  PROVE  Served'
<1>1. /\ acks[r] > 0
      /\ UNCHANGED <<aps_counter, data_req, resolving, ctr, kind, result, doubtful, receiverVars, net>>
  BY DEF AckFrame
<1>2. \A q \in Reqs : acks'[q] > 0 => acks[q] > 0
  <2>1. acks \in [Reqs -> 0 .. MaxCopies] /\ acks' = [acks EXCEPT ![r] = @ - 1]
    BY DEF IInv, TypeOK, AckFrame
  <2>2. \A q \in Reqs : q # r => acks'[q] = acks[q]
    BY <2>1
  <2> QED
    BY <1>1, <2>2
<1>3. r \in Known /\ UnderWay(r)
  BY <1>1 DEF Served, Acked, UnderWay
<1>4. CASE AckedEntries(r) = {}
  <2>1. UNCHANGED <<hash, conf, frame, nwk>>
    BY <1>4 DEF AckFrame
  <2>2. Numbered' = Numbered
    BY <1>1, <2>1, NumberedKept DEF Waiting
  <2>3. CountersApart' /\ Remembered'
    BY <1>1, <1>2, <2>1, SenderKept DEF Below, Held
  <2> QED
    BY <1>1, <1>2, <2>1, <2>2, <2>3
       DEF Served, Asked, Sent, Acked, Seen, EntrySeen, ConfSeen, Known, receiverVars
<1>5. CASE AckedEntries(r) # {}
  <2>1. PICK i \in Slots : /\ hash[i].state # "free" /\ hash[i].ctr = ctr[r]
                           /\ IF hash[i].state = "not confirmed"
                              THEN /\ hash' = [hash EXCEPT ![i].state = "acked"]
                                   /\ UNCHANGED <<alarm, conf, frame, nwk, broken>>
                              ELSE /\ nwk' = [nwk EXCEPT ![hash[i].buf] =
                                                IF @ = "forgotten" THEN "no" ELSE @]
                                   /\ done_with_this_ack(i, kind[r] = "command", "ok", alarm)
    <3>1. Lowest(AckedEntries(r)) \in AckedEntries(r)
      BY <1>5, LowestIsIn DEF AckedEntries
    <3> QED
      BY <1>5, <3>1 DEF AckFrame, AckedEntries
  <2>2. frame[hash[i].buf] \in Known
    <3>1. /\ frame[hash[i].buf] \in Reqs /\ hash[i].buf \in Bufs
          /\ ctr[frame[hash[i].buf]] = ctr[r]
      BY <2>1, EntryBuffer DEF Served, Seen, EntrySeen
    <3>2. UnderWay(frame[hash[i].buf])
      BY <3>1 DEF UnderWay
    <3> QED
      BY <1>3, <3>1, <3>2 DEF Served, CountersApart, Known
  <2>21. \A c \in Bufs : nwk'[c] # "no" => nwk[c] # "no"
    BY <2>1 DEF IInv, TypeOK
  <2>3. CASE hash[i].state # "not confirmed"
    <3>1. (kind[r] = "command") \in BOOLEAN
      OBVIOUS
    <3> QED
      BY <1>1, <1>2, <2>1, <2>2, <2>21, <2>3, <3>1, DoneServed
  <2>4. CASE hash[i].state = "not confirmed"
    <3> DEFINE e == [hash[i] EXCEPT !.state = "acked"]
    <3>1. e \in Entry /\ e.buf = hash[i].buf /\ e.ctr = hash[i].ctr
      <4>1. hash[i] \in Entry
        BY Types DEF IInv
      <4>2. "acked" \in States /\ 0 \in 0 .. Retries
        BY ApsAssumption DEF States
      <4> QED
        BY <4>1, <4>2, EntryChanges
    <3>2. hash' = [hash EXCEPT ![i] = e] /\ UNCHANGED <<conf, frame>>
      BY <2>1, <2>4
    <3> HIDE DEF e
    <3> QED
      BY <1>1, <1>2, <2>1, <2>2, <2>21, <3>1, <3>2, EntryGoesOn
  <2> QED
    BY <2>3, <2>4
<1> QED
  BY <1>4, <1>5

LEMMA AckTimerServed ==
  ASSUME IInv, broken = "no", Served, NEW i \in Slots, AckTimer(i)
  PROVE  Served'
<1> DEFINE left == FewerRetries(hash[i].retries)
<1>1. /\ TypeOK /\ alarm[i] > 0
      /\ UNCHANGED <<aps_counter, data_req, resolving, ctr, kind, result, doubtful, receiverVars, net, acks>>
  BY DEF AckTimer, IInv
<1>2. hash[i].state # "free"
  BY <1>1 DEF IInv, Sound, EntrySound, EntryAt
<1>3. /\ hash[i] \in Entry /\ hash[i].retries \in 0 .. Retries /\ hash[i].command \in BOOLEAN
  BY <1>1, Types
<1>4. left \in 0 .. Retries
  BY <1>3, ApsAssumption DEF FewerRetries
<1>5. CASE left = 0 /\ hash[i].state = "confirmed"
  <2>1. done_with_this_ack(i, hash[i].command, "failed", [alarm EXCEPT ![i] = @ - 1])
    BY <1>5, Zenon DEF AckTimer, left
  <2>2. PICK alarms : alarms = [alarm EXCEPT ![i] = @ - 1]
    OBVIOUS
  <2>3. done_with_this_ack(i, hash[i].command, "failed", alarms)
    BY <2>1, <2>2
  <2>31. nwk' = nwk
    BY <1>5, Zenon DEF AckTimer, left
  <2>4. \A command \in BOOLEAN : command = hash[i].command => Served'
    BY <1>1, <1>2, <2>3, <2>31, DoneServed
  <2> QED
    BY <1>3, <2>4
<1>6. CASE ~ (left = 0 /\ hash[i].state = "confirmed")
  <2> DEFINE counted == [hash[i] EXCEPT !.retries = left]
             again == [counted EXCEPT !.state = "not confirmed"]
  <2>1. /\ hash' = [hash EXCEPT ![i] = counted] \/ hash' = [hash EXCEPT ![i] = again]
        /\ UNCHANGED <<conf, frame>>
    <3>1. /\ IF hash[i].state = "confirmed"
             THEN hash' = [hash EXCEPT ![i].retries = left, ![i].state = "not confirmed"]
             ELSE hash' = [hash EXCEPT ![i].retries = left]
          /\ UNCHANGED <<conf, frame>>
      <4> HIDE DEF left
      <4>1. left = FewerRetries(hash[i].retries)
        BY DEF left
      <4> QED
        BY <1>6, <4>1, Zenon DEF AckTimer
    <3> QED
      BY <3>1
  <2>2. \A e \in {counted, again} :
          e \in Entry /\ e.buf = hash[i].buf /\ e.ctr = hash[i].ctr
          /\ (e.state = "acked" => hash[i].state = "acked")
    <3>1. "not confirmed" \in States
      BY DEF States
    <3> HIDE DEF left
    <3>2. ASSUME NEW e \in Entry
          PROVE  /\ [e EXCEPT !.retries = left] \in Entry
                 /\ [e EXCEPT !.retries = left].buf = e.buf /\ [e EXCEPT !.retries = left].ctr = e.ctr
                 /\ [e EXCEPT !.retries = left].state = e.state
                 /\ [e EXCEPT !.state = "not confirmed"] \in Entry
                 /\ [e EXCEPT !.state = "not confirmed"].buf = e.buf
                 /\ [e EXCEPT !.state = "not confirmed"].ctr = e.ctr
                 /\ [e EXCEPT !.state = "not confirmed"].state = "not confirmed"
      BY <1>4, <3>1, EntryChanges
    <3>3. counted \in Entry /\ counted.buf = hash[i].buf /\ counted.ctr = hash[i].ctr
          /\ counted.state = hash[i].state
      BY <1>3, <3>2
    <3> HIDE DEF counted
    <3> QED
      BY <3>2, <3>3
  <2>3. PICK e \in Entry : /\ hash' = [hash EXCEPT ![i] = e]
                           /\ e.buf = hash[i].buf /\ e.ctr = hash[i].ctr
                           /\ e.state = "acked" => hash[i].state = "acked"
    <3> HIDE DEF counted, again
    <3> QED
      BY <2>1, <2>2
  <2>4. \A c \in Bufs : nwk'[c] # "no" => nwk[c] # "no" \/ c = hash[i].buf
    <3>1. nwk' = nwk \/ nwk' = [nwk EXCEPT ![hash[i].buf] = "queued"]
      BY <1>6, Zenon DEF AckTimer, left
    <3>2. nwk \in [Bufs -> {"no", "queued", "sent", "forgotten"}]
      BY <1>1 DEF TypeOK
    <3> QED
      BY <3>1, <3>2
  <2> QED
    BY <1>1, <1>2, <2>1, <2>3, <2>4, EntryGoesOn
<1> QED
  BY <1>5, <1>6

LEMMA AppConfirmServed ==
  ASSUME IInv, broken = "no", Served, NEW b \in Bufs, AppConfirm(b)
  PROVE  Served'
<1>1. TypeOK /\ BufferAt(b)
  BY DEF IInv, Sound, BufferOwned
<1>2. /\ conf[b] # "no" /\ conf' = [conf EXCEPT ![b] = "no"]
      /\ frame' = [frame EXCEPT ![b] = NoReq]
      /\ result' = [result EXCEPT ![frame[b]] = IF @ = "asked" THEN conf[b] ELSE "twice"]
      /\ UNCHANGED <<aps_counter, hash, data_req, resolving, nwk, ctr, kind, doubtful,
                     receiverVars, net, acks>>
  BY DEF AppConfirm, FreeBuf
<1>3. PICK r \in Reqs : r = frame[b] /\ r # NoReq /\ result[r] = "asked" /\ b \notin Waiting
  BY <1>1, <1>2, Types DEF BufferAt, Waiting, Served, Asked
<1>4. /\ \A c \in Bufs : c # b => frame'[c] = frame[c] /\ conf'[c] = conf[c] /\ frame[c] # r
      /\ frame'[b] = NoReq /\ conf'[b] = "no"
      /\ result'[r] \in {"ok", "failed"} /\ \A q \in Reqs : q # r => result'[q] = result[q]
  BY <1>1, <1>2, <1>3 DEF TypeOK, Served, Asked
<1>5. Waiting' = Waiting /\ Waiting \subseteq Bufs
  BY <1>1, <1>2 DEF Waiting, TypeOK
<1>6. Numbered' = Numbered
  <2>1. \A q \in Reqs : result'[q] = "idle" <=> result[q] = "idle"
    BY <1>3, <1>4
  <2>2. \A c \in Waiting : frame'[c] = frame[c]
    BY <1>3, <1>4, <1>5
  <2> QED
    BY <1>2, <1>5, <2>1, <2>2, NumberedKept
<1>7. Asked'
  <2>1. /\ \A c \in Bufs : frame[c] # NoReq => result[frame[c]] = "asked" /\ frame[c] \in Reqs
        /\ \A c, d \in Bufs : frame[c] = frame[d] /\ frame[c] # NoReq => c = d
        /\ \A q \in Reqs : result[q] # "twice"
    BY <1>1, Types DEF Served, Asked
  <2>2. \A c \in Bufs : frame'[c] # NoReq => result'[frame'[c]] = "asked"
    <3> SUFFICES ASSUME NEW c \in Bufs, frame'[c] # NoReq PROVE result'[frame'[c]] = "asked"
      OBVIOUS
    <3>1. c # b /\ frame'[c] = frame[c] /\ frame[c] # r
      BY <1>4
    <3> QED
      BY <1>4, <2>1, <3>1
  <2>3. \A c, d \in Bufs : frame'[c] = frame'[d] /\ frame'[c] # NoReq => c = d
    BY <1>4, <2>1
  <2>4. \A q \in Reqs : result'[q] # "twice"
    BY <1>4, <2>1
  <2> QED
    BY <2>2, <2>3, <2>4 DEF Asked
<1>8. Sent' /\ Acked'
  BY <1>2, <1>6 DEF Served, Sent, Acked, Known, receiverVars
<1>9. ASSUME NEW i \in Slots PROVE EntrySeen(i)'
  <2>1. hash[i].state # "free" => hash[i].buf \in Bufs /\ hash[i].buf # b
    BY <1>2, EntryBuffer
  <2> QED
    BY <1>2, <1>4, <2>1 DEF Served, Seen, EntrySeen, Known, receiverVars
<1>10. ASSUME NEW c \in Bufs PROVE ConfSeen(c)'
  BY <1>2, <1>4 DEF Served, Seen, ConfSeen, Known, receiverVars
<1>11. CountersApart' /\ Remembered'
  BY <1>2, <1>4, SenderKept DEF Below, Held
<1> QED
  BY <1>6, <1>7, <1>8, <1>9, <1>10, <1>11 DEF Served, Seen

\* A frame that arrived is handed to the application, or it was already, or it is
\* doubtful; so is every other with its counter that is still under way.
LEMMA IndicateServed ==
  ASSUME Served, NEW r \in Numbered, UnderWay(r), Indicate(r), UNCHANGED <<ctr, doubtful>>,
         \A q \in Reqs : UnderWay(q)' => UnderWay(q)
  PROVE  /\ r \in Known' /\ got \subseteq got' /\ got' \subseteq Numbered
         /\ CountersApart' /\ Remembered'
<1>1. got \subseteq Numbered /\ r \in Reqs
  BY DEF Served, Sent, Numbered
<1>2. dup'.ctr = ctr[r]
  BY DEF Indicate
<1>3. got \subseteq got' /\ got' \subseteq Numbered /\ r \in Known'
  <2>1. CASE IsDup(ctr[r])
    <3>1. got' = got
      BY <2>1 DEF Indicate
    <3> QED
      BY <1>1, <2>1, <3>1 DEF IsDup, Served, Remembered, Known
  <2>2. CASE ~ IsDup(ctr[r])
    BY <1>1, <2>2 DEF Indicate, Known
  <2> QED
    BY <2>1, <2>2
<1>4. CountersApart'
  BY DEF Served, CountersApart
<1>5. Remembered'
  <2> SUFFICES ASSUME NEW q \in Reqs, UnderWay(q)', ctr[q] = ctr[r] PROVE q \in Known'
    BY <1>2 DEF Remembered
  <2>1. CASE q = r
    BY <1>3, <2>1
  <2>2. CASE q # r
    BY <1>1, <2>2 DEF Served, CountersApart, Known
  <2> QED
    BY <2>1, <2>2
<1> QED
  BY <1>3, <1>4, <1>5

\* The receiver and the network leave what the sender knows alone.
LEMMA SenderStays ==
  ASSUME Served, UNCHANGED senderVars, got \subseteq got'
  PROVE  Numbered' = Numbered /\ Asked' /\ Seen'
<1>1. /\ Waiting' = Waiting
      /\ UNCHANGED <<aps_counter, ctr, frame, hash, conf, kind, result, doubtful>>
  BY DEF senderVars, Waiting
<1>2. Numbered' = Numbered
  BY <1>1, NumberedKept
<1> QED
  BY <1>1, <1>2 DEF Served, Asked, Seen, EntrySeen, ConfSeen, Known

LEMMA ReceiverServed ==
  ASSUME IInv, broken = "no", Served,
         SendAck \/ DupTimer \/ \E r \in Reqs : RecvFrame(r) \/ Lose(r)
  PROVE  Served'
<1>1. UNCHANGED senderVars /\ UNCHANGED <<ctr, doubtful, frame, nwk, hash>>
  BY DEF SendAck, DupTimer, RecvFrame, Lose, senderVars
<1>2. /\ net \in [Reqs -> 0 .. MaxCopies] /\ acks \in [Reqs -> 0 .. MaxCopies] /\ ack_q \in Seq(Reqs)
      /\ dup \in [ctr : Counter, clock : 0 .. DupClock] /\ NoReq \notin Reqs
  BY Types DEF IInv, TypeOK
<1>3. /\ \A r \in Reqs : acks[r] > 0 => r \in Known /\ UnderWay(r)
      /\ \A i \in DOMAIN ack_q : ack_q[i] \in Numbered /\ UnderWay(ack_q[i])
      /\ \A r \in Reqs : net[r] > 0 => r \in Numbered /\ UnderWay(r)
      /\ got \subseteq Numbered
  BY DEF Served, Sent, Acked, UnderWay
<1>4. SUFFICES /\ got \subseteq got' /\ got' \subseteq Numbered
               /\ \A r \in Reqs : net'[r] > 0 => net[r] > 0
               /\ \A i \in DOMAIN ack_q' : ack_q'[i] \in Numbered
               /\ \A r \in Reqs : acks'[r] > 0 => r \in Known'
               /\ CountersApart' /\ Remembered'
  <2>1. Numbered' = Numbered /\ Asked' /\ Seen'
    BY <1>1, <1>4, SenderStays
  <2>2. Sent'
    BY <1>3, <1>4, <2>1 DEF Sent
  <2>3. Acked'
    BY <1>4 DEF Acked
  <2> QED
    BY <1>4, <2>1, <2>2, <2>3 DEF Served
<1>5. ASSUME \A r \in Reqs : net'[r] > 0 => UnderWay(r),
             \A r \in Reqs : acks'[r] > 0 => UnderWay(r),
             \A i \in DOMAIN ack_q' : UnderWay(ack_q'[i])
      PROVE  \A r \in Reqs : UnderWay(r)' => UnderWay(r)
  <2>1. \A b \in Bufs : frame'[b] # NoReq /\ Below(b)' => Below(b) /\ frame'[b] = frame[b]
    BY <1>1 DEF Below, Held
  <2> QED
    BY <1>2, <1>5, <2>1, WayKept
<1>6. CASE SendAck
  <2>1. ack_q # <<>> /\ ack_q' = Tail(ack_q) /\ Indicate(Head(ack_q)) /\ net' = net
    BY <1>6 DEF SendAck, receiverVars
  <2>2. PICK r : r = Head(ack_q)
    OBVIOUS
  <2>3. /\ r \in Numbered /\ r \in Reqs /\ UnderWay(r)
        /\ \A i \in DOMAIN ack_q' : ack_q'[i] \in Numbered /\ UnderWay(ack_q'[i])
    <3>1. \A q \in Seq(Reqs) : q # <<>> =>
            /\ 1 \in DOMAIN q /\ Head(q) = q[1]
            /\ \A i \in DOMAIN Tail(q) : i + 1 \in DOMAIN q /\ Tail(q)[i] = q[i + 1]
      OBVIOUS
    <3>2. 1 \in DOMAIN ack_q /\ r = ack_q[1]
      BY <1>2, <2>1, <2>2, <3>1
    <3>3. \A i \in DOMAIN ack_q' : \E j \in DOMAIN ack_q : ack_q'[i] = ack_q[j]
      BY <1>2, <2>1, <3>1
    <3> QED
      BY <1>3, <3>2, <3>3 DEF Numbered
  <2>4. \A q \in Reqs : q # r => acks'[q] = acks[q]
    BY <1>2, <1>6, <2>2 DEF SendAck
  <2>5. \A q \in Reqs : UnderWay(q)' => UnderWay(q)
    <3>1. \A q \in Reqs : net'[q] > 0 => UnderWay(q)
      BY <1>3, <2>1
    <3>2. \A q \in Reqs : acks'[q] > 0 => UnderWay(q)
      BY <1>3, <2>3, <2>4
    <3> QED
      BY <1>5, <2>3, <3>1, <3>2
  <2>6. /\ r \in Known' /\ got \subseteq got' /\ got' \subseteq Numbered
        /\ CountersApart' /\ Remembered'
    BY <1>1, <2>1, <2>2, <2>3, <2>5, IndicateServed
  <2>7. Known \subseteq Known'
    BY <1>1, <2>6 DEF Known
  <2> QED
    BY <1>3, <2>1, <2>3, <2>4, <2>6, <2>7
<1>7. CASE DupTimer
  <2>1. UNCHANGED <<ack_q, got, net, acks>> /\ dup' = [dup EXCEPT !.clock = IF @ = 0 THEN 0 ELSE @ - 1]
    BY <1>7 DEF DupTimer
  <2>2. dup'.ctr = dup.ctr /\ (dup'.clock # 0 => dup.clock # 0)
    BY <1>2, <2>1
  <2>3. \A q \in Reqs : UnderWay(q)' <=> UnderWay(q)
    BY <1>1, <2>1 DEF UnderWay
  <2>4. CountersApart' /\ Remembered' /\ Known' = Known
    BY <1>1, <2>1, <2>2, <2>3 DEF Served, CountersApart, Remembered, Known
  <2> QED
    BY <1>3, <2>1, <2>4
<1>8. CASE \E r \in Reqs : RecvFrame(r)
  <2>1. PICK r \in Reqs : RecvFrame(r)
    BY <1>8
  <2>2. net[r] > 0 /\ net' = [net EXCEPT ![r] = @ - 1] /\ acks' = acks
    BY <2>1 DEF RecvFrame
  <2>3. r \in Numbered /\ UnderWay(r) /\ \A q \in Reqs : net'[q] > 0 => net[q] > 0
    BY <1>2, <1>3, <2>2
  <2>4. CASE kind[r] # "plain" /\ Len(ack_q) < AckQSize
    <3>1. ack_q' = Append(ack_q, r) /\ UNCHANGED <<dup, got>>
      BY <2>1, <2>4 DEF RecvFrame
    <3>2. ASSUME NEW i \in DOMAIN ack_q' PROVE ack_q'[i] \in Numbered /\ UnderWay(ack_q'[i])
      <4>1. \A q \in Seq(Reqs) : \A j \in DOMAIN Append(q, r) :
              Append(q, r)[j] = r \/ (j \in DOMAIN q /\ Append(q, r)[j] = q[j])
        OBVIOUS
      <4> QED
        BY <1>2, <1>3, <2>3, <3>1, <3>2, <4>1
    <3>3. \A q \in Reqs : UnderWay(q)' => UnderWay(q)
      BY <1>3, <1>5, <2>2, <2>3, <3>2
    <3>4. CountersApart' /\ Remembered' /\ Known' = Known
      BY <1>1, <3>1, <3>3, ApartKept DEF Known
    <3> QED
      BY <1>3, <2>2, <2>3, <3>1, <3>2, <3>4
  <2>5. CASE ~ (kind[r] # "plain" /\ Len(ack_q) < AckQSize)
    <3>1. Indicate(r) /\ ack_q' = ack_q
      BY <2>1, <2>5 DEF RecvFrame
    <3>2. \A q \in Reqs : UnderWay(q)' => UnderWay(q)
      BY <1>3, <1>5, <2>2, <2>3, <3>1
    <3>3. /\ got \subseteq got' /\ got' \subseteq Numbered /\ CountersApart' /\ Remembered'
      BY <1>1, <2>3, <3>1, <3>2, IndicateServed
    <3>4. Known \subseteq Known'
      BY <1>1, <3>3 DEF Known
    <3> QED
      BY <1>3, <2>2, <2>3, <3>1, <3>3, <3>4
  <2> QED
    BY <2>4, <2>5
<1>9. CASE \E r \in Reqs : Lose(r)
  <2>1. PICK r \in Reqs : Lose(r)
    BY <1>9
  <2>2. UNCHANGED <<ack_q, dup, got>>
    BY <2>1 DEF Lose, receiverVars
  <2>3. /\ \A q \in Reqs : net'[q] > 0 => net[q] > 0
        /\ \A q \in Reqs : acks'[q] > 0 => acks[q] > 0
    <3>1. CASE net[r] > 0 /\ net' = [net EXCEPT ![r] = @ - 1] /\ acks' = acks
      BY <1>2, <3>1
    <3>2. CASE acks[r] > 0 /\ acks' = [acks EXCEPT ![r] = @ - 1] /\ net' = net
      BY <1>2, <3>2
    <3> QED
      BY <2>1, <3>1, <3>2 DEF Lose
  <2>4. \A q \in Reqs : UnderWay(q)' => UnderWay(q)
    BY <1>3, <1>5, <2>2, <2>3
  <2>5. CountersApart' /\ Remembered' /\ Known' = Known
    BY <1>1, <2>2, <2>4, ApartKept DEF Known
  <2> QED
    BY <1>3, <2>2, <2>3, <2>5
<1> QED
  BY <1>6, <1>7, <1>8, <1>9

LEMMA InitServed == Init => Served
<1> SUFFICES ASSUME Init PROVE Served
  OBVIOUS
<1>1. Numbered = {}
  BY DEF Init, Numbered
<1>2. CountersApart /\ Remembered
  <2>1. DOMAIN ack_q = {}
    BY DEF Init
  <2>2. \A r \in Reqs : ~UnderWay(r)
    BY <2>1, NoBufAssumption DEF Init, UnderWay, FreeEntry
  <2> QED
    BY <2>2 DEF CountersApart, Remembered
<1>3. Sent
  <2>1. DOMAIN ack_q = {}
    BY DEF Init
  <2> QED
    BY <1>1, <2>1 DEF Init, Sent
<1>4. Asked /\ Acked
  BY DEF Init, Asked, Acked
<1>5. Seen
  BY DEF Init, Seen, EntrySeen, ConfSeen, FreeEntry
<1> QED
  BY <1>2, <1>3, <1>4, <1>5 DEF Served

\* Every step keeps the invariant of the service.
LEMMA NextSInv == SInv /\ [Next]_vars => SInv'
<1> SUFFICES ASSUME SInv, [Next]_vars, broken' = "no" PROVE Served'
  BY NextIInv DEF SInv
<1>1. IInv
  BY DEF SInv
<1>2. CASE UNCHANGED vars
  <2>1. broken = "no"
    BY <1>2 DEF vars, senderVars
  <2>2. Served
    BY <2>1 DEF SInv
  <2>3. UNCHANGED senderVars /\ UNCHANGED <<ack_q, dup, got, net, acks>>
    BY <1>2 DEF vars, receiverVars
  <2>4. Numbered' = Numbered /\ Asked' /\ Seen'
    BY <2>2, <2>3, SenderStays
  <2>5. \A r \in Reqs : UnderWay(r)' <=> UnderWay(r)
    BY <2>3 DEF UnderWay, senderVars
  <2>6. CountersApart' /\ Remembered' /\ Known' = Known
    BY <2>2, <2>3, <2>5, ApartKept DEF senderVars, Known
  <2> QED
    BY <2>2, <2>3, <2>4, <2>6 DEF Served, Sent, Acked, senderVars
<1>3. CASE Next
  <2>1. broken = "no" /\ Served
    BY <1>3 DEF Next, SInv
  <2>2. ASSUME NEW r \in Reqs, NEW b \in Bufs, NEW k \in {"plain", "data"}, AskData(r, b, k)
        PROVE  Served'
    BY <1>1, <2>1, <2>2, AskDataServed
  <2>3. ASSUME NEW r \in Reqs, NEW b \in Bufs, SendCommand(r, b) PROVE Served'
    BY <1>1, <2>1, <2>3, SendCommandServed
  <2>4. ASSUME NEW b \in Bufs, Sender(b) PROVE Served'
    BY <1>1, <2>1, <2>4, WaitForPeerServed, DataRequestServed, NwkSendServed, PlainConfirmServed,
       AckedFrameConfirmServed DEF Sender
  <2>5. ASSUME NEW b \in Bufs, \/ WaitForPeer(b) \/ NotBound(b) \/ NwkForget(b)
                                \/ NwkDrop(b) \/ AppConfirm(b)
        PROVE  Served'
    BY <1>1, <2>1, <2>5, WaitForPeerServed, NotBoundServed, NwkDropServed, AppConfirmServed
  <2>6. ASSUME SendElsewhere PROVE Served'
    <3>1. /\ UNCHANGED <<ctr, doubtful, frame, hash, conf, kind, nwk, receiverVars, net, acks>>
          /\ Numbered' = Numbered /\ UNCHANGED result
      BY <2>6 DEF SendElsewhere, Numbered, Waiting
    <3>2. CountersApart' /\ Remembered'
      BY <1>1, <2>1, <3>1, SenderKept DEF Below, Held
    <3> QED
      BY <2>1, <3>1, <3>2
         DEF Served, Asked, Sent, Acked, Seen, EntrySeen, ConfSeen, Known, receiverVars
  <2>7. ASSUME NEW i \in Slots, AckTimer(i) PROVE Served'
    BY <1>1, <2>1, <2>7, AckTimerServed
  <2>8. ASSUME NEW r \in Reqs, AckFrame(r) PROVE Served'
    BY <1>1, <2>1, <2>8, AckFrameServed
  <2>9. ASSUME SendAck \/ DupTimer \/ \E r \in Reqs : RecvFrame(r) \/ Lose(r) PROVE Served'
    BY <1>1, <2>1, <2>9, ReceiverServed
  <2> QED
    BY <1>3, <2>2, <2>3, <2>4, <2>5, <2>6, <2>7, <2>8, <2>9 DEF Next
<1> QED
  BY <1>2, <1>3

\* The service's view of the requests and of what was delivered.
ReqView == [r \in Reqs |-> ReqOf(r)]
GotView == {r \in got : kind[r] = "data"}

\* A step that leaves the requests alone is a delivery or nothing.
LEMMA Delivers ==
  ASSUME SInv, broken = "no", UNCHANGED <<kind, result, doubtful>>,
         got' = got \/ \E r \in Numbered : got' = got \cup {r}
  PROVE  [Service!Next]_Service!vars
<1>1. ReqView' = ReqView
  BY DEF ReqView, ReqOf
<1>2. CASE GotView' = GotView
  BY <1>1, <1>2 DEF Service!vars, ReqView, GotView
<1>3. CASE GotView' # GotView
  <2>1. PICK r \in Numbered : got' = got \cup {r}
    BY <1>3 DEF GotView
  <2>2. kind[r] = "data" /\ GotView' = GotView \cup {r}
    BY <1>3, <2>1 DEF GotView
  <2>3. r \in Reqs /\ ReqOf(r) # "idle"
    BY <2>2 DEF Numbered, ReqOf, SInv, IInv, TypeOK, Served, Asked
  <2>4. Service!Deliver(r)
    BY <1>1, <2>2, <2>3 DEF Service!Deliver, ReqView, GotView
  <2> QED
    BY <2>3, <2>4 DEF Service!Next
<1> QED
  BY <1>2, <1>3

\* More requests are doubtful.
LEMMA Doubts ==
  ASSUME TypeOK', doubtful \subseteq doubtful', ReqView' = ReqView, GotView' = GotView
  PROVE  [Service!Next]_Service!vars
<1>1. Service!Doubt
  BY DEF Service!Doubt, ReqView, GotView, TypeOK
<1> QED
  BY <1>1 DEF Service!Next

\* A request that was not begun has not been delivered.
LEMMA Begins ==
  ASSUME SInv, broken = "no", NEW r \in Reqs, NEW k \in Kinds, result[r] = "idle",
         kind' = [kind EXCEPT ![r] = k], result' = [result EXCEPT ![r] = "asked"], got' = got,
         k = "data" => doubtful' = doubtful, TypeOK', doubtful \subseteq doubtful'
  PROVE  [Service!Next]_Service!vars
<1>1. TypeOK /\ got \subseteq Numbered /\ r \notin Numbered
  BY DEF SInv, IInv, Served, Sent, Numbered
<1>2. /\ \A q \in Reqs : q # r => kind'[q] = kind[q] /\ result'[q] = result[q]
      /\ kind'[r] = k /\ result'[r] = "asked"
  <2>1. DOMAIN kind = Reqs /\ DOMAIN result = Reqs
    BY <1>1 DEF TypeOK
  <2> QED
    BY <2>1
<1>3. GotView' = GotView
  BY <1>1, <1>2 DEF GotView, Numbered
<1>4. /\ ReqOf(r) = "idle" /\ \A q \in Reqs : q # r => ReqOf(q)' = ReqOf(q)
      /\ ReqOf(r)' = IF k = "data" THEN "asked" ELSE "idle"
  BY <1>2 DEF ReqOf
<1>5. CASE k = "data"
  <2>1. ReqView' = [ReqView EXCEPT ![r] = "asked"] /\ ReqView[r] = "idle"
    BY <1>4, <1>5 DEF ReqView
  <2>2. Service!Ask(r)
    BY <1>3, <1>5, <2>1 DEF Service!Ask, ReqView, GotView
  <2> QED
    BY <2>2 DEF Service!Next
<1>6. CASE k # "data"
  <2>1. ReqView' = ReqView
    BY <1>4, <1>6 DEF ReqView
  <2>2. Service!Doubt
    BY <1>3, <2>1 DEF Service!Doubt, ReqView, GotView, TypeOK
  <2> QED
    BY <2>2 DEF Service!Next
<1> QED
  BY <1>5, <1>6

\* A confirm ends its request, with success only when it was delivered.
LEMMA Confirms ==
  ASSUME SInv, broken = "no", NEW b \in Bufs, AppConfirm(b)
  PROVE  [Service!Next]_Service!vars
<1>1. TypeOK /\ BufferAt(b) /\ Served
  BY DEF SInv, IInv, Sound, BufferOwned
<1>2. /\ conf[b] # "no"
      /\ result' = [result EXCEPT ![frame[b]] = IF @ = "asked" THEN conf[b] ELSE "twice"]
      /\ UNCHANGED <<kind, got, doubtful>>
  BY DEF AppConfirm, receiverVars
<1>3. PICK r \in Reqs : r = frame[b] /\ result[r] = "asked"
  BY <1>1, <1>2, Types DEF BufferAt, Served, Asked
<1>4. PICK s \in {"ok", "failed"} : s = conf[b]
  BY <1>1, <1>2 DEF TypeOK
<1>5. /\ \A q \in Reqs : q # r => result'[q] = result[q]
      /\ result'[r] = s /\ GotView' = GotView
  BY <1>1, <1>2, <1>3, <1>4 DEF TypeOK, GotView
<1>6. \A q \in Reqs : q # r => ReqOf(q)' = ReqOf(q)
  BY <1>2, <1>5 DEF ReqOf
<1>7. CASE kind[r] = "data"
  <2>1. ReqOf(r) = "asked" /\ ReqOf(r)' = s
    BY <1>2, <1>3, <1>5, <1>7 DEF ReqOf
  <2>2. ReqView[r] = "asked" /\ ReqView' = [ReqView EXCEPT ![r] = s]
    BY <1>6, <2>1 DEF ReqView
  <2>3. s = "ok" => r \in GotView \cup doubtful
    BY <1>1, <1>3, <1>4, <1>7 DEF Served, Seen, ConfSeen, GotView, Known
  <2>4. Service!Confirm(r)
    BY <1>2, <1>5, <2>2, <2>3 DEF Service!Confirm, ReqView, GotView
  <2> QED
    BY <2>4 DEF Service!Next
<1>8. CASE kind[r] # "data"
  <2>1. ReqOf(r)' = ReqOf(r)
    BY <1>2, <1>8 DEF ReqOf
  <2>2. ReqView' = ReqView
    BY <1>6, <2>1 DEF ReqView
  <2> QED
    BY <1>2, <1>5, <2>2 DEF Service!vars, ReqView, GotView
<1> QED
  BY <1>7, <1>8

\* A frame that is indicated was sent.
LEMMA ReceiverDelivers ==
  ASSUME SInv, broken = "no",
         SendAck \/ DupTimer \/ \E r \in Reqs : RecvFrame(r) \/ Lose(r)
  PROVE  [Service!Next]_Service!vars
<1>1. Served /\ TypeOK
  BY DEF SInv, IInv
<1>2. UNCHANGED <<kind, result, doubtful>>
  BY DEF SendAck, DupTimer, RecvFrame, Lose, senderVars
<1>3. got' = got \/ \E r \in Numbered : got' = got \cup {r}
  <2>1. CASE SendAck
    <3>1. Head(ack_q) \in Numbered
      <4>1. \A q \in Seq(Reqs) : q # <<>> => 1 \in DOMAIN q /\ Head(q) = q[1]
        OBVIOUS
      <4>2. ack_q # <<>> /\ ack_q \in Seq(Reqs)
        BY <1>1, <2>1 DEF SendAck, TypeOK
      <4> QED
        BY <1>1, <4>1, <4>2 DEF Served, Sent
    <3> QED
      BY <2>1, <3>1 DEF SendAck, Indicate
  <2>2. CASE DupTimer
    BY <2>2 DEF DupTimer
  <2>3. CASE \E r \in Reqs : RecvFrame(r)
    <3>1. PICK r \in Reqs : RecvFrame(r)
      BY <2>3
    <3>2. r \in Numbered
      BY <1>1, <3>1 DEF RecvFrame, Served, Sent
    <3> QED
      BY <3>1, <3>2 DEF RecvFrame, Indicate
  <2>4. CASE \E r \in Reqs : Lose(r)
    BY <2>4 DEF Lose, receiverVars
  <2> QED
    BY <2>1, <2>2, <2>3, <2>4
<1> QED
  BY <1>2, <1>3, Delivers

\* The sender, the receiver and the network give the service of APSDE-DATA, however
\* often the counter comes round: an acknowledgement names a frame by nothing else, and
\* that is enough unless the number was in use when it was taken again.
THEOREM SpecImplementsService == Spec => ImplementsService
<1>1. Init => SInv
  BY InitIInv, InitServed DEF SInv
<1>2. SInv /\ [Next]_vars => SInv'
  BY NextSInv
<1>3. Init => Service!Init
  BY DEF Init, Service!Init, ReqOf
<1>4. SInv /\ [Next]_vars => [Service!Next]_Service!vars
  <2> SUFFICES ASSUME SInv, [Next]_vars PROVE [Service!Next]_Service!vars
    OBVIOUS
  <2>1. CASE UNCHANGED vars
    BY <2>1 DEF vars, senderVars, receiverVars, Service!vars, ReqOf
  <2>2. CASE Next
    <3>1. broken = "no" /\ TypeOK'
      BY <2>2, NextIInv DEF Next, SInv, IInv
    <3>2. ASSUME NEW r \in Reqs, NEW b \in Bufs, NEW k \in {"plain", "data"}, AskData(r, b, k)
          PROVE  [Service!Next]_Service!vars
      <4>1. /\ result[r] = "idle" /\ kind' = [kind EXCEPT ![r] = k]
            /\ result' = [result EXCEPT ![r] = "asked"] /\ got' = got /\ doubtful' = doubtful
        BY <3>2 DEF AskData, receiverVars
      <4> QED
        BY <3>1, <4>1, Begins DEF Kinds
    <3>3. ASSUME NEW r \in Reqs, NEW b \in Bufs, SendCommand(r, b)
          PROVE  [Service!Next]_Service!vars
      <4>1. /\ result[r] = "idle" /\ kind' = [kind EXCEPT ![r] = "command"]
            /\ result' = [result EXCEPT ![r] = "asked"] /\ got' = got
            /\ doubtful \subseteq doubtful'
        BY <3>3 DEF SendCommand, TakeCounter, receiverVars
      <4> QED
        BY <3>1, <4>1, Begins DEF Kinds
    <3>4. ASSUME NEW b \in Bufs, AppConfirm(b) PROVE [Service!Next]_Service!vars
      BY <3>1, <3>4, Confirms
    <3>5. ASSUME SendAck \/ DupTimer \/ \E r \in Reqs : RecvFrame(r) \/ Lose(r)
          PROVE  [Service!Next]_Service!vars
      BY <3>1, <3>5, ReceiverDelivers
    <3>6. ASSUME \/ \E b \in Bufs : \/ Sender(b) \/ WaitForPeer(b) \/ NotBound(b)
                                    \/ NwkForget(b) \/ NwkDrop(b)
                 \/ \E i \in Slots : AckTimer(i)
                 \/ \E r \in Reqs : AckFrame(r)
                 \/ SendElsewhere
          PROVE  [Service!Next]_Service!vars
      <4>1. UNCHANGED <<kind, result, got>> /\ doubtful \subseteq doubtful'
        BY <3>6 DEF Sender, PeerKnown, DataRequest, TakeCounter, NwkSend, PlainConfirm,
                    AckedFrameConfirm, WaitForPeer, NotBound, NwkForget, NwkDrop, AckTimer,
                    AckFrame, SendElsewhere, receiverVars
      <4>2. ReqView' = ReqView /\ GotView' = GotView
        BY <4>1 DEF ReqView, ReqOf, GotView
      <4> QED
        BY <3>1, <4>1, <4>2, Doubts
    <3> QED
      BY <2>2, <3>2, <3>3, <3>4, <3>5, <3>6 DEF Next
  <2> QED
    BY <2>1, <2>2
<1> QED
  BY <1>1, <1>2, <1>3, <1>4, PTL DEF Spec, ImplementsService, Service!Spec

-----------------------------------------------------------------------------
(* End device binding. *)

Statuses == {"success", "timeout", "no match", "invalid ep"}

\* Which of the two slots are in use, for whom the minute is counted, who was answered, and
\* when the chain of requests to the two devices is under way.
BindInv ==
  /\ slot \in [{1, 2} -> BindReqs \cup {None}] /\ answers \in [BindReqs -> Seq(Statuses)]
  /\ stage \in {"idle", "buffer", "check", "bind", "unbind"} /\ current \in 1 .. 3
  /\ slot[1] = None => slot[2] = None
  /\ timer = IF slot[2] = None THEN {slot[1]} \ {None} ELSE {}
  /\ \A r \in BindReqs : Len(answers[r]) <= 1
  /\ slot[2] = None /\ slot[1] # None => answers[slot[1]] = <<>>
  /\ slot[2] # None <=> stage # "idle"
  /\ stage \in {"check", "bind", "unbind"} => current \in {1, 2}

\* A request that was made is not new, and who was not answered may be.
LEMMA RespOnce ==
  ASSUME NEW rs \in SUBSET BindReqs, NEW status \in Statuses, BindInv, Resp(rs, status),
         \A r \in rs : answers[r] = <<>>
  PROVE  /\ answers' \in [BindReqs -> Seq(Statuses)] /\ \A r \in BindReqs : Len(answers'[r]) <= 1
         /\ \A r \in BindReqs \ rs : answers'[r] = answers[r]
<1>1. answers' = [r \in BindReqs |-> IF r \in rs THEN Append(answers[r], status) ELSE answers[r]]
  BY DEF Resp
<1>2. ASSUME NEW r \in BindReqs PROVE answers'[r] \in Seq(Statuses) /\ Len(answers'[r]) <= 1
  <2>1. answers[r] \in Seq(Statuses) /\ Len(answers[r]) <= 1
    BY DEF BindInv
  <2>2. CASE r \in rs
    <3>1. answers'[r] = Append(answers[r], status) /\ answers[r] = <<>>
      BY <1>1, <2>2
    <3> QED
      BY <3>1, <2>1
  <2> QED
    BY <1>1, <2>1, <2>2
<1> QED
  BY <1>1, <1>2

\* A new request is in no slot and was not answered.
LEMMA NewIs ==
  ASSUME NEW r \in BindReqs, BindInv, New(r)
  PROVE  answers[r] = <<>> /\ r # slot[1] /\ r # slot[2] /\ r # None
<1>1. DOMAIN slot = {1, 2}
  BY DEF BindInv
<1> QED
  BY <1>1, ZdoBindAssumption DEF New, ToSet

LEMMA InvalidEndpointInv ==
  ASSUME NEW r \in BindReqs, BindInv, InvalidEndpoint(r)
  PROVE  BindInv'
<1>1. answers[r] = <<>> /\ r # slot[1]
  BY NewIs DEF InvalidEndpoint
<1>2. Resp({r}, "invalid ep") /\ UNCHANGED <<slot, timer, current, stage>>
  BY DEF InvalidEndpoint
<1>3. /\ answers' \in [BindReqs -> Seq(Statuses)] /\ \A q \in BindReqs : Len(answers'[q]) <= 1
      /\ \A q \in BindReqs \ {r} : answers'[q] = answers[q]
  <2>1. {r} \in SUBSET BindReqs /\ "invalid ep" \in Statuses /\ \A q \in {r} : answers[q] = <<>>
    BY <1>1 DEF Statuses
  <2> QED
    BY <1>2, <2>1, RespOnce, Zenon
<1>4. slot[1] # None => slot[1] \in BindReqs \ {r}
  BY <1>1 DEF BindInv
<1> QED
  BY <1>2, <1>3, <1>4 DEF BindInv

LEMMA RefuseThirdInv ==
  ASSUME NEW r \in BindReqs, BindInv, RefuseThird(r)
  PROVE  BindInv'
<1>1. answers[r] = <<>>
  BY NewIs DEF RefuseThird
<1>2. Resp({r}, "timeout") /\ slot[2] # None /\ UNCHANGED <<slot, timer, current, stage>>
  BY DEF RefuseThird
<1>3. /\ answers' \in [BindReqs -> Seq(Statuses)] /\ \A q \in BindReqs : Len(answers'[q]) <= 1
  <2>1. {r} \in SUBSET BindReqs /\ "timeout" \in Statuses /\ \A q \in {r} : answers[q] = <<>>
    BY <1>1 DEF Statuses
  <2> QED
    BY <1>2, <2>1, RespOnce, Zenon
<1> QED
  BY <1>2, <1>3 DEF BindInv

LEMMA HoldFirstInv ==
  ASSUME NEW r \in BindReqs, BindInv, HoldFirst(r)
  PROVE  BindInv'
<1>1. answers[r] = <<>> /\ r # None
  BY NewIs DEF HoldFirst
<1>2. slot[1] = None /\ slot[2] = None /\ slot' = [slot EXCEPT ![1] = r] /\ timer' = timer \cup {r}
  BY DEF HoldFirst, BindInv
<1>3. slot' \in [{1, 2} -> BindReqs \cup {None}] /\ slot'[1] = r /\ slot'[2] = None
  BY <1>2 DEF BindInv
<1>4. timer' = {r}
  BY <1>2 DEF BindInv
<1>5. UNCHANGED <<current, stage, answers>>
  BY DEF HoldFirst
<1> QED
  BY <1>1, <1>2, <1>3, <1>4, <1>5 DEF BindInv

\* The second slot is taken.
LEMMA SecondSlot ==
  ASSUME NEW r \in BindReqs, BindInv, slot' = [slot EXCEPT ![2] = r]
  PROVE  slot' \in [{1, 2} -> BindReqs \cup {None}] /\ slot'[1] = slot[1] /\ slot'[2] = r
BY DEF BindInv

LEMMA MatchSecondInv ==
  ASSUME NEW r \in BindReqs, BindInv, MatchSecond(r)
  PROVE  BindInv'
<1>1. answers[r] = <<>> /\ r # None /\ r # slot[1]
  BY NewIs DEF MatchSecond
<1>2. slot[1] # None /\ slot[2] = None /\ timer' = {} /\ UNCHANGED current
  BY DEF MatchSecond
<1>3. slot[1] \in BindReqs /\ answers[slot[1]] = <<>> /\ stage = "idle"
  BY <1>2 DEF BindInv
<1>4. PICK status \in Statuses : Resp({r, slot[1]}, status)
  <2>1. "success" \in Statuses /\ "no match" \in Statuses
    BY Zenon DEF Statuses
  <2>2. Resp({r, slot[1]}, "success") \/ Resp({r, slot[1]}, "no match")
    BY Zenon DEF MatchSecond
  <2> QED
    BY <2>1, <2>2, Zenon
<1>5. answers' \in [BindReqs -> Seq(Statuses)] /\ \A q \in BindReqs : Len(answers'[q]) <= 1
  <2>1. /\ {r, slot[1]} \in SUBSET BindReqs /\ status \in Statuses
        /\ \A q \in {r, slot[1]} : answers[q] = <<>>
    BY <1>1, <1>3 DEF Statuses
  <2> QED
    BY <1>4, <2>1, RespOnce, Zenon
<1>6. \/ slot' = [slot EXCEPT ![2] = r] /\ stage' = "buffer"
      \/ slot' = Free /\ stage' = stage
  BY DEF MatchSecond, Reset
<1>7. CASE slot' = [slot EXCEPT ![2] = r] /\ stage' = "buffer"
  <2>1. slot' \in [{1, 2} -> BindReqs \cup {None}] /\ slot'[1] = slot[1] /\ slot'[2] = r
    BY <1>7, SecondSlot
  <2> QED
    BY <1>1, <1>2, <1>5, <1>7, <2>1 DEF BindInv
<1>8. CASE slot' = Free /\ stage' = stage
  BY <1>2, <1>3, <1>5, <1>8 DEF BindInv, Free
<1> QED
  BY <1>6, <1>7, <1>8

LEMMA TimerInv ==
  ASSUME NEW r \in BindReqs, BindInv, Timer(r)
  PROVE  BindInv'
<1>1. r \in timer /\ timer' = timer \ {r} /\ slot' = Free /\ Resp({r}, "timeout")
      /\ UNCHANGED <<current, stage>>
  BY DEF Timer, Reset
<1>2. slot[2] = None /\ slot[1] = r /\ timer' = {} /\ stage = "idle" /\ r # None
  BY <1>1 DEF BindInv
<1>3. answers[r] = <<>>
  BY <1>2 DEF BindInv
<1>4. answers' \in [BindReqs -> Seq(Statuses)] /\ \A q \in BindReqs : Len(answers'[q]) <= 1
  <2>1. {r} \in SUBSET BindReqs /\ "timeout" \in Statuses /\ \A q \in {r} : answers[q] = <<>>
    BY <1>3 DEF Statuses
  <2> QED
    BY <1>1, <2>1, RespOnce, Zenon
<1> QED
  BY <1>1, <1>2, <1>4 DEF BindInv, Free

LEMMA CallbackInv ==
  ASSUME BindInv, Callback
  PROVE  BindInv'
<1>1. PICK op \in {"bind", "unbind"} : SendWithCheck(op)
  BY DEF Callback
<1>2. stage \in {"check", "bind", "unbind"} /\ UNCHANGED <<timer, answers>>
  BY DEF Callback
<1>3. slot[2] # None /\ slot[1] # None /\ timer = {} /\ current \in {1, 2}
  BY <1>2 DEF BindInv
<1>4. CASE stage' = op /\ UNCHANGED slot /\ current' \in {1, 2}
  BY <1>2, <1>3, <1>4 DEF BindInv
<1>5. CASE stage' = "idle" /\ slot' = Free /\ current' = 3
  BY <1>2, <1>3, <1>5 DEF BindInv, Free
<1> QED
  BY <1>1, <1>3, <1>4, <1>5 DEF SendWithCheck, Reset

LEMMA BindStep == BindInv /\ [BindNext]_bindVars => BindInv'
<1> SUFFICES ASSUME BindInv, [BindNext]_bindVars PROVE BindInv'
  OBVIOUS
<1>1. CASE \E r \in BindReqs : \/ InvalidEndpoint(r) \/ HoldFirst(r) \/ RefuseThird(r)
                               \/ MatchSecond(r) \/ Timer(r)
  BY <1>1, InvalidEndpointInv, HoldFirstInv, RefuseThirdInv, MatchSecondInv, TimerInv
<1>2. CASE SendCheck
  <2>1. stage = "buffer" /\ stage' = "check" /\ current' \in {1, 2} /\ UNCHANGED <<slot, timer, answers>>
    BY <1>2 DEF SendCheck
  <2> QED
    BY <2>1 DEF BindInv
<1>3. CASE Callback
  BY <1>3, CallbackInv
<1>4. CASE UNCHANGED coordinator
  BY <1>4 DEF BindInv, coordinator
<1>5. BindLose \/ Serve \/ (\E d \in Devs, op \in {"bind", "unbind"}, p \in Pair : Other(d, op, p))
        => UNCHANGED coordinator
  BY DEF BindLose, Serve, Other
<1>6. UNCHANGED bindVars => UNCHANGED coordinator
  BY DEF bindVars, coordinator
<1> QED
  BY <1>1, <1>2, <1>3, <1>4, <1>5, <1>6 DEF BindNext

\* The coordinator counts the minute of zb_zdo_end_device_bind_timer for a request that
\* waits for its partner and for no other, and answers no request twice, for any requests,
\* devices and clusters, whatever is lost and however often the tables are changed.
THEOREM BindSpecOneAnswerInTime == BindSpec => []OneAnswerInTime
<1>1. BindInit => BindInv
  BY ZdoBindAssumption DEF BindInit, BindInv
<1>2. BindInv => OneAnswerInTime
  BY DEF BindInv, OneAnswerInTime
<1> QED
  BY <1>1, <1>2, BindStep, PTL DEF BindSpec
=============================================================================
