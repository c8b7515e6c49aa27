----------------------------- MODULE BenchProofs -----------------------------
(***************************************************************************)
(* Proofs about the simulator: how the fleet driver shares its devices     *)
(* out, for every size of the fleet; and what the reference receiver counts*)
(* of a device, for any number of sessions, any clip and any run of        *)
(* sequence numbers.                                                       *)
(***************************************************************************)
EXTENDS Bench, Fleet, FiniteSetTheorems, TLAPS

-----------------------------------------------------------------------------
(* The only multiple of w between -w and w is 0.                           *)
LEMMA Multiples ==
    ASSUME NEW m \in Int, NEW w \in Nat \ {0}, m * w < w, -w < m * w
    PROVE  m = 0
<1>1. CASE m >= 1
  <2>1. m * w >= w
    <3>1. (m - 1) * w >= 0
      BY <1>1
    <3> QED
      BY <3>1
  <2> QED
    BY <2>1
<1>2. CASE m <= -1
  <2>1. m * w <= -w
    <3>1. (-1 - m) * w >= 0
      BY <1>2
    <3> QED
      BY <3>1
  <2> QED
    BY <2>1
<1> QED
  BY <1>1, <1>2

(* Every device is driven (fleet.py:127-128).                              *)
THEOREM AllDriven ==
    ASSUME NEW devices \in Nat, NEW workers \in Nat \ {0}, NEW i \in 0 .. devices - 1
    PROVE  \E w \in 0 .. workers - 1 : i \in Bucket(w, workers, devices)
<1>1. i % workers \in 0 .. workers - 1 /\ i \div workers \in Nat
  OBVIOUS
<1>2. i = (i % workers) + (i \div workers) * workers
  OBVIOUS
<1> QED
  BY <1>1, <1>2 DEF Bucket

(* No id is driven twice, by one worker or by two: those would be two      *)
(* peers that register one id, and each would end the other's presence     *)
(* (fleet.py:38-40, 127-128; see NoGhosts of Ingest).                      *)
THEOREM DrivenOnce ==
    ASSUME NEW devices \in Nat, NEW workers \in Nat \ {0}, NEW base \in Nat,
           NEW v \in 0 .. workers - 1, NEW i \in Bucket(v, workers, devices),
           NEW w \in 0 .. workers - 1, NEW j \in Bucket(w, workers, devices),
           ImeiFor(i, base) = ImeiFor(j, base)
    PROVE  i = j /\ v = w
<1>1. i = j /\ i \in 0 .. devices - 1
  BY DEF ImeiFor, Bucket
<1>2. PICK k \in Nat : i = v + k * workers
  BY DEF Bucket
<1>3. PICK l \in Nat : j = w + l * workers
  BY DEF Bucket
<1>4. (k - l) * workers = w - v
  <2>1. k * workers \in Int /\ l * workers \in Int
    OBVIOUS
  <2>2. v + k * workers = w + l * workers
    BY <1>1, <1>2, <1>3
  <2>3. (k - l) * workers = k * workers - l * workers
    OBVIOUS
  <2> QED
    BY <2>1, <2>2, <2>3
<1>5. k - l = 0
  BY <1>4, Multiples
<1> QED
  BY <1>1, <1>4, <1>5

(* No worker is idle: there are never more of them than devices, whatever  *)
(* is asked for (fleet.py:125-126).                                        *)
THEOREM NoneIdle ==
    ASSUME NEW asked \in Int, NEW cores \in Nat \ {0}, NEW devices \in Nat \ {0},
           NEW w \in 0 .. Workers(asked, cores, devices) - 1
    PROVE  w \in Bucket(w, Workers(asked, cores, devices), devices)
<1>1. /\ Workers(asked, cores, devices) \in Nat
      /\ Workers(asked, cores, devices) <= devices
  BY DEF Workers, Clamped
<1>2. w = w + 0 * Workers(asked, cores, devices)
  BY <1>1
<1> QED
  BY <1>1, <1>2 DEF Bucket
-----------------------------------------------------------------------------
(***************************************************************************)
(* The device, its sessions and its links.                                 *)
(***************************************************************************)
SessionsSound ==
    /\ dev = "on" => session > 0
    /\ dev # "done" => idx < Packets
    /\ dev # "on" => held = <<>>
    /\ dropped <= built
    /\ reconnects + (IF dev = "on" THEN 1 ELSE 0) <= session
    /\ \A s \in Sessions : link[s] = "none" <=> s > session
    /\ \A s \in Sessions : s > session => wire[s] = <<>> /\ kept[s] = {}
    /\ \A s \in Sessions : \A n \in kept[s] : n < built
    /\ \A s, t \in Sessions : s # t => kept[s] \cap kept[t] = {}

(* With a HELLO, a handler that does not know the id yet finds the HELLO   *)
(* in front of everything else.                                            *)
NamedOn(s) ==
    IF config.hello
    THEN \/ imei[s] = "imei"
         \/ wire[s] = <<>> /\ link[s] # "up"
         \/ wire[s] # <<>> /\ wire[s][1] = Hello
    ELSE /\ imei[s] = "unknown"
         /\ \A i \in DOMAIN wire[s] : wire[s][i] # Hello

Named == \A s \in Sessions : NamedOn(s)

(* Of the frames read so far one is the newest.                            *)
HasTop ==
    \A i \in 1 .. Len(got) :
        \E j \in 1 .. i : \A k \in 1 .. i : got[k].n <= got[j].n

Fresh == Ours.frames = 0 /\ Ours.reordered = 0 /\ Ours.lost = 0 /\ Ours.last = None

Counting ==
    /\ HasTop
    /\ got = <<>> => Fresh
    /\ LossExact
    /\ AllNear /\ got # <<>> => Ours.last = Max(Numbers) % SeqSpace

BenchInv == TypeOK /\ SessionsSound /\ Replayed /\ Named /\ Counting

USE SimDeviceAssumption, SinkAssumption

(* What a frame is.                                                        *)
LEMMA FrameFacts ==
    /\ Hello \in Frames /\ Stat \in Frames
    /\ \A n \in 0 .. MaxBuilt - 1 :
          Audio(n) \in Frames /\ Audio(n).kind = "audio" /\ Audio(n).n = n
    /\ \A f \in Frames :
          /\ f.kind \in {"hello", "stat", "audio"}
          /\ f.kind = "hello" <=> f = Hello
          /\ f.kind = "stat" <=> f = Stat
          /\ f.kind = "audio" => f.n \in 0 .. MaxBuilt - 1 /\ f = Audio(f.n)
<1>1. Hello.kind = "hello" /\ Stat.kind = "stat"
  BY DEF Hello, Stat
<1>2. \A n : Audio(n).kind = "audio" /\ Audio(n).n = n
  BY DEF Audio
<1>3. \A f \in Frames : f = Hello \/ f = Stat \/ \E n \in 0 .. MaxBuilt - 1 : f = Audio(n)
  BY DEF Frames
<1>4. /\ Hello \in Frames /\ Stat \in Frames
      /\ \A n \in 0 .. MaxBuilt - 1 : Audio(n) \in Frames
  BY DEF Frames
<1> QED
  BY ONLY <1>1, <1>2, <1>3, <1>4

(* A sequence number fits its field, and so does a gap.                    *)
LEMMA SeqTyped ==
    /\ \A n \in Nat : Seq16(n) \in 0 .. SeqSpace - 1
    /\ \A d \in DeviceStats, q \in 0 .. SeqSpace - 1 : Gap(d, q) \in 0 .. SeqSpace - 1
<1>1. \A a \in Int : a % SeqSpace \in 0 .. SeqSpace - 1
  OBVIOUS
<1>2. \A d \in DeviceStats, q \in 0 .. SeqSpace - 1 : q - d.last - 1 \in Int
  BY DEF DeviceStats, None
<1> QED
  BY <1>1, <1>2 DEF Seq16, Gap

LEMMA CountedTyped ==
    ASSUME NEW d \in DeviceStats, NEW f \in Frames
    PROVE  Counted(d, f) \in DeviceStats
<1>1. f.kind \in {"hello", "stat", "audio"} /\ (f.kind = "audio" => f.n \in Nat)
  BY FrameFacts
<1>2. CASE f.kind = "hello"
  BY <1>2 DEF Counted
<1>3. CASE f.kind = "stat"
  BY <1>3 DEF Counted, DeviceStats
<1>4. CASE f.kind = "audio"
  <2> DEFINE e == [d EXCEPT !.frames = @ + 1]
             q == Seq16(f.n)
  <2>1. e \in DeviceStats
    BY DEF DeviceStats
  <2>2. q \in 0 .. SeqSpace - 1
    BY <1>1, <1>4, SeqTyped
  <2>3. Gap(e, q) \in Nat
    BY <2>1, <2>2, SeqTyped
  <2> HIDE DEF e, q
  <2>4. NoteSeq(e, q) \in DeviceStats
    <3>1. [e EXCEPT !.last = q] \in DeviceStats
      BY <2>1, <2>2 DEF DeviceStats
    <3>2. \A g \in Nat : [e EXCEPT !.last = q, !.lost = @ + g] \in DeviceStats
      <4>1. \A h \in DeviceStats, g \in Nat : [h EXCEPT !.lost = @ + g] \in DeviceStats
        BY DEF DeviceStats
      <4> QED
        BY <3>1, <4>1
    <3>3. [e EXCEPT !.reordered = @ + 1] \in DeviceStats
      BY <2>1 DEF DeviceStats
    <3> QED
      BY <2>3, <3>1, <3>2, <3>3 DEF NoteSeq
  <2> QED
    BY <1>4, <2>4 DEF Counted, e, q
<1> QED
  BY <1>1, <1>2, <1>3, <1>4

-----------------------------------------------------------------------------
(* What a turn writes: the audio frames, if it sends, and a STAT or none.  *)
Items(audio, report) == [i \in DOMAIN audio |-> Audio(audio[i])] \o report

TurnAs(audio, report) ==
    /\ Write(session, Items(audio, report))
    /\ \/ audio = <<>> /\ Drop
       \/ audio = <<>> /\ Hold
       \/ audio = Burst /\ Send

LEMMA ItemsFacts ==
    ASSUME NEW audio \in Seq(0 .. MaxBuilt - 1), NEW report \in {<<>>, <<Stat>>}
    PROVE  /\ Items(audio, report) \in Seq(Frames)
           /\ Len(Items(audio, report)) = Len(audio) + Len(report)
           /\ \A i \in DOMAIN Items(audio, report) :
                 IF i <= Len(audio) THEN Items(audio, report)[i] = Audio(audio[i])
                                    ELSE Items(audio, report)[i] = Stat
<1> DEFINE a == [i \in DOMAIN audio |-> Audio(audio[i])]
<1>1. a \in Seq(Frames) /\ Len(a) = Len(audio) /\ \A i \in 1 .. Len(audio) : a[i] = Audio(audio[i])
  BY FrameFacts
<1>2. report \in Seq(Frames) /\ \A i \in 1 .. Len(report) : report[i] = Stat
  <2>1. Stat \in Frames
    BY FrameFacts
  <2>2. CASE report = <<>>
    BY <2>2
  <2>3. CASE report = <<Stat>>
    BY <2>1, <2>3
  <2> QED
    BY <2>2, <2>3
<1>3. Items(audio, report) = a \o report
  BY DEF Items
<1> HIDE DEF a
<1>4. Items(audio, report) \in Seq(Frames) /\ Len(Items(audio, report)) = Len(audio) + Len(report)
  <2>1. a \in Seq(Frames) /\ report \in Seq(Frames) /\ Len(a) = Len(audio)
    BY <1>1, <1>2
  <2>2. a \o report \in Seq(Frames) /\ Len(a \o report) = Len(a) + Len(report)
    BY ONLY <2>1
  <2> QED
    BY ONLY <1>3, <2>1, <2>2
<1>5. \A i \in 1 .. Len(audio) + Len(report) :
         Items(audio, report)[i] = IF i <= Len(audio) THEN a[i] ELSE report[i - Len(audio)]
  BY ONLY <1>1, <1>2, <1>3
<1> QED
  BY ONLY <1>1, <1>2, <1>4, <1>5, audio \in Seq(0 .. MaxBuilt - 1)

LEMMA TurnForm ==
    ASSUME TypeOK, Turn
    PROVE  /\ dev = "on" /\ built < MaxBuilt /\ (LastPacket => config.loop)
           /\ built' = built + 1
           /\ idx' = IF LastPacket THEN 0 ELSE idx + 1
           /\ UNCHANGED <<dev, config, session, reconnects>>
           /\ stats' \in 0 .. MaxStats
           /\ \E audio \in Seq(0 .. MaxBuilt - 1), report \in {<<>>, <<Stat>>} :
                 TurnAs(audio, report)
<1>1. /\ dev = "on" /\ built < MaxBuilt /\ (LastPacket => config.loop)
      /\ built' = built + 1
      /\ idx' = IF LastPacket THEN 0 ELSE idx + 1
      /\ UNCHANGED <<dev, config, session, reconnects>>
  BY DEF Turn
<1>2. PICK stalled \in BOOLEAN, report \in {<<>>, <<Stat>>} :
          /\ report \in Telemetry(stalled)
          /\ stats' = stats + Len(report)
          /\ \/ Drop /\ Write(session, report)
             \/ stalled /\ Hold /\ Write(session, report)
             \/ /\ ~stalled
                /\ Send
                /\ Write(session, [i \in DOMAIN Burst |-> Audio(Burst[i])] \o report)
  BY DEF Turn, Telemetry
<1>3. report = <<Stat>> => stats < MaxStats
  BY <1>2 DEF Telemetry
<1>4. stats' \in 0 .. MaxStats
  <2> DEFINE l == Len(report)
  <2>1. l = 0 \/ (l = 1 /\ stats < MaxStats)
    <3>1. CASE report = <<>>
      BY <3>1
    <3>2. CASE report = <<Stat>>
      BY <1>3, <3>2
    <3> QED
      BY <3>1, <3>2
  <2>2. stats' = stats + l /\ stats \in 0 .. MaxStats
    BY <1>2 DEF TypeOK
  <2> HIDE DEF l
  <2> QED
    BY <2>1, <2>2
<1>5. Items(<<>>, report) = report
  BY <1>3 DEF Items
<1>6. Burst \in Seq(0 .. MaxBuilt - 1) /\ <<>> \in Seq(0 .. MaxBuilt - 1)
  <2>1. held \in Seq(0 .. MaxBuilt - 1) /\ built \in 0 .. MaxBuilt - 1
    BY <1>1 DEF TypeOK
  <2> QED
    BY <2>1 DEF Burst
<1>7. CASE Drop /\ Write(session, report)
  <2>1. TurnAs(<<>>, report)
    BY <1>5, <1>7 DEF TurnAs
  <2> QED
    BY <1>1, <1>3, <1>4, <1>6, <2>1
<1>8. CASE Hold /\ Write(session, report)
  <2>1. TurnAs(<<>>, report)
    BY <1>5, <1>8 DEF TurnAs
  <2> QED
    BY <1>1, <1>3, <1>4, <1>6, <2>1
<1>9. CASE Send /\ Write(session, [i \in DOMAIN Burst |-> Audio(Burst[i])] \o report)
  <2>1. TurnAs(Burst, report)
    BY <1>9 DEF TurnAs, Items
  <2> QED
    BY <1>1, <1>3, <1>4, <1>6, <2>1
<1> QED
  BY <1>2, <1>7, <1>8, <1>9

-----------------------------------------------------------------------------
(* Types, and the device with its sessions.                                *)
Sound == TypeOK /\ SessionsSound

LEMMA SoundStarts == Init => Sound
<1> SUFFICES ASSUME Init PROVE Sound
  OBVIOUS
<1>1. [frames |-> 0, stats |-> 0, lost |-> 0, reordered |-> 0, last |-> None] \in DeviceStats
  BY DEF DeviceStats
<1>2. TypeOK
  BY <1>1 DEF Init, LinkInit, DeviceInit, SinkInit, TypeOK, Ids
<1>3. SessionsSound
  BY DEF Init, LinkInit, DeviceInit, SinkInit, SessionsSound, Sessions
<1> QED
  BY <1>2, <1>3 DEF Sound

LEMMA ConnectSound ==
    ASSUME Sound, Connect, Accepted(session + 1)
    PROVE  Sound'
<1>1. session + 1 \in Sessions /\ session \in 0 .. MaxSessions /\ session' = session + 1
  BY DEF Sound, TypeOK, Connect, Sessions
<1> DEFINE items == IF config.hello THEN <<Hello>> ELSE <<>>
<1>2. items \in Seq(Frames)
  BY FrameFacts
<1>3. /\ link' = [link EXCEPT ![session + 1] = "up"]
      /\ wire' = [wire EXCEPT ![session + 1] = items]
  BY DEF Connect, OpenLink
<1> HIDE DEF items
<1>4. TypeOK'
  BY <1>1, <1>2, <1>3 DEF Sound, TypeOK, SessionsSound, Connect, Accepted
<1>5. SessionsSound'
  <2>1. /\ \A s \in Sessions : link[s] = "none" <=> s > session
        /\ \A s \in Sessions : s > session => wire[s] = <<>> /\ kept[s] = {}
        /\ link \in [Sessions -> {"none", "up", "closed", "dead"}] /\ DOMAIN wire = Sessions
    BY DEF Sound, TypeOK, SessionsSound
  <2>2. \A s \in Sessions : s # session + 1 => (s > session + 1 <=> s > session)
    BY <1>1 DEF Sessions
  <2>3. \A s \in Sessions : link'[s] = "none" <=> s > session'
    BY <1>1, <1>3, <2>1, <2>2
  <2>4. \A s \in Sessions : s > session' => wire'[s] = <<>> /\ kept'[s] = {}
    BY <1>1, <1>3, <2>1, <2>2 DEF Connect
  <2>5. dev' = "on" /\ idx' = 0 /\ UNCHANGED <<built, dropped, kept, reconnects>> /\ dev = "off"
    BY DEF Connect
  <2> QED
    BY <1>1, <2>3, <2>4, <2>5 DEF Sound, TypeOK, SessionsSound
<1> QED
  BY <1>4, <1>5 DEF Sound

LEMMA TurnSound ==
    ASSUME Sound, Turn, UNCHANGED sinkVars
    PROVE  Sound'
<1>1. /\ dev = "on" /\ built < MaxBuilt /\ (LastPacket => config.loop)
      /\ built' = built + 1
      /\ idx' = IF LastPacket THEN 0 ELSE idx + 1
      /\ UNCHANGED <<dev, config, session, reconnects>>
      /\ stats' \in 0 .. MaxStats
  BY TurnForm DEF Sound
<1>2. PICK audio \in Seq(0 .. MaxBuilt - 1), report \in {<<>>, <<Stat>>} :
         TurnAs(audio, report)
  BY TurnForm DEF Sound
<1> DEFINE items == Items(audio, report)
<1>3. items \in Seq(Frames)
  BY ItemsFacts
<1> HIDE DEF items
<1>4. session \in Sessions /\ built \in 0 .. MaxBuilt - 1
  BY <1>1 DEF Sound, TypeOK, SessionsSound, Sessions
<1>5. /\ wire' = IF link[session] = "up" THEN [wire EXCEPT ![session] = @ \o items] ELSE wire
      /\ link' = link
  BY <1>2 DEF TurnAs, Write, items
<1>6. /\ held' \in Seq(0 .. MaxBuilt - 1)
      /\ kept' \in [Sessions -> SUBSET (0 .. MaxBuilt - 1)]
      /\ kept' = kept \/ kept' = [kept EXCEPT ![session] = @ \union {built}]
      /\ dropped' \in 0 .. MaxBuilt /\ dropped' <= built'
  <2>1. /\ held \in Seq(0 .. MaxBuilt - 1) /\ kept \in [Sessions -> SUBSET (0 .. MaxBuilt - 1)]
        /\ dropped \in 0 .. MaxBuilt /\ dropped <= built
    BY DEF Sound, TypeOK, SessionsSound
  <2>2. [kept EXCEPT ![session] = @ \union {built}] \in [Sessions -> SUBSET (0 .. MaxBuilt - 1)]
    BY <1>4, <2>1
  <2>3. Append(held, built) \in Seq(0 .. MaxBuilt - 1)
    BY <1>4, <2>1
  <2>4. CASE Drop
    BY <1>1, <1>4, <2>1, <2>4 DEF Drop
  <2>5. CASE Hold \/ Send
    <3>1. held' \in Seq(0 .. MaxBuilt - 1)
      <4>1. held' = Append(held, built) \/ held' = <<>>
        BY <2>5 DEF Hold, Send
      <4>2. CASE held' = <<>>
        BY <4>2
      <4> QED
        BY <2>3, <4>1, <4>2
    <3>2. kept' = [kept EXCEPT ![session] = @ \union {built}] /\ dropped' = dropped
      BY <2>5 DEF Hold, Send, Keep
    <3>3. dropped' \in 0 .. MaxBuilt /\ dropped' <= built'
      BY <1>1, <1>4, <2>1, <3>2
    <3> QED
      BY <2>2, <3>1, <3>2, <3>3
  <2> QED
    BY <1>2, <2>4, <2>5 DEF TurnAs
<1>7. wire' \in [Sessions -> Seq(Frames)]
  <2>1. wire[session] \o items \in Seq(Frames)
    BY <1>3, <1>4 DEF Sound, TypeOK
  <2> QED
    BY <2>1, <1>4, <1>5 DEF Sound, TypeOK
<1>8. idx' \in 0 .. Packets /\ idx' < Packets
  <2>1. idx \in 0 .. Packets /\ idx < Packets
    BY <1>1 DEF Sound, TypeOK, SessionsSound
  <2> QED
    BY <1>1, <2>1 DEF LastPacket
<1>9. TypeOK'
  <2>1. TypeOK
    BY DEF Sound
  <2>2. built' \in 0 .. MaxBuilt /\ reconnects' \in 0 .. session'
    BY <1>1, <1>4, <2>1 DEF TypeOK
  <2>3. UNCHANGED <<open, imei, seen, got>>
    BY DEF sinkVars
  <2> QED
    BY <1>1, <1>5, <1>6, <1>7, <1>8, <2>1, <2>2, <2>3 DEF TypeOK
<1>10. SessionsSound'
  <2>1. \A s \in Sessions : s > session' => wire'[s] = <<>> /\ kept'[s] = {}
    BY <1>1, <1>4, <1>5, <1>6 DEF Sound, TypeOK, SessionsSound
  <2>2. \A s \in Sessions : \A n \in kept'[s] : n < built'
    BY <1>1, <1>4, <1>6 DEF Sound, TypeOK, SessionsSound
  <2>3. \A s, t \in Sessions : s # t => kept'[s] \cap kept'[t] = {}
    <3>1. /\ \A s \in Sessions : built \notin kept[s]
          /\ \A s, t \in Sessions : s # t => kept[s] \cap kept[t] = {}
          /\ DOMAIN kept = Sessions
      BY <1>4 DEF Sound, TypeOK, SessionsSound
    <3> QED
      BY <1>4, <1>6, <3>1
  <2> QED
    BY <1>1, <1>5, <1>6, <1>8, <2>1, <2>2, <2>3 DEF Sound, TypeOK, SessionsSound
<1> QED
  BY <1>9, <1>10 DEF Sound

(* A link that is closed has been opened before.                           *)
LEMMA CloseSound ==
    ASSUME Sound, CloseLink(session)
    PROVE  /\ link' \in [Sessions -> {"none", "up", "closed", "dead"}]
           /\ \A s \in Sessions : link'[s] = "none" <=> s > session
<1>1. /\ link' = [link EXCEPT ![session] = IF @ = "up" THEN "closed" ELSE @]
      /\ link \in [Sessions -> {"none", "up", "closed", "dead"}]
      /\ \A s \in Sessions : link[s] = "none" <=> s > session
  BY DEF CloseLink, Sound, TypeOK, SessionsSound
<1> QED
  BY <1>1

LEMMA EndsSound ==
    ASSUME Sound, Over \/ Fail \/ Stop, UNCHANGED sinkVars
    PROVE  Sound'
<1>1. CASE Over
  <2>1. CloseLink(session) /\ session' = session /\ wire' = wire
    BY <1>1 DEF Over, CloseLink
  <2>2. /\ link' \in [Sessions -> {"none", "up", "closed", "dead"}]
        /\ \A s \in Sessions : link'[s] = "none" <=> s > session
    BY <2>1, CloseSound
  <2>3. TypeOK'
    BY <1>1, <2>1, <2>2 DEF Sound, TypeOK, SessionsSound, Over, LastPacket, sinkVars
  <2>4. SessionsSound'
    BY <1>1, <2>1, <2>2 DEF Sound, TypeOK, SessionsSound, Over
  <2> QED
    BY <2>3, <2>4 DEF Sound
<1>2. CASE Fail
  <2>1. TypeOK'
    BY <1>2 DEF Sound, TypeOK, SessionsSound, Fail, linkVars, sinkVars
  <2>2. SessionsSound'
    BY <1>2 DEF Sound, TypeOK, SessionsSound, Fail, linkVars
  <2> QED
    BY <2>1, <2>2 DEF Sound
<1>3. CASE Stop
  <2>1. /\ link' \in [Sessions -> {"none", "up", "closed", "dead"}]
        /\ \A s \in Sessions : link'[s] = "none" <=> s > session
        /\ wire' = wire
    <3>1. CASE dev = "on"
      BY <1>3, <3>1, CloseSound DEF Stop, CloseLink
    <3>2. CASE dev # "on"
      BY <1>3, <3>2 DEF Stop, linkVars, Sound, TypeOK, SessionsSound
    <3> QED
      BY <3>1, <3>2
  <2>2. TypeOK'
    BY <1>3, <2>1 DEF Sound, TypeOK, SessionsSound, Stop, sinkVars
  <2>3. SessionsSound'
    BY <1>3, <2>1 DEF Sound, TypeOK, SessionsSound, Stop
  <2> QED
    BY <2>2, <2>3 DEF Sound
<1> QED
  BY <1>1, <1>2, <1>3

LEMMA HandleSound ==
    ASSUME Sound, NEW s \in Sessions, Handle(s), UNCHANGED deviceVars
    PROVE  Sound'
<1> DEFINE f == Head(wire[s])
           id == IF f = Hello THEN "imei" ELSE imei[s]
<1>1. wire[s] \in Seq(Frames) /\ wire[s] # <<>>
  BY DEF Sound, TypeOK, Handle
<1>2. f \in Frames /\ Tail(wire[s]) \in Seq(Frames)
  BY <1>1
<1>3. id \in Ids
  BY DEF Sound, TypeOK, Ids
<1>4. Counted(seen[id], f) \in DeviceStats
  BY <1>2, <1>3, CountedTyped DEF Sound, TypeOK
<1>5. /\ imei' = [imei EXCEPT ![s] = id]
      /\ seen' = [seen EXCEPT ![id] = Counted(@, f)]
      /\ got' = IF f.kind = "audio" THEN Append(got, [s |-> s, n |-> f.n]) ELSE got
      /\ wire' = [wire EXCEPT ![s] = Tail(@)]
      /\ UNCHANGED <<link, open>>
  BY DEF Handle
<1>6. got' \in Seq([s : Sessions, n : 0 .. MaxBuilt - 1])
  <2>1. f.kind = "audio" => [s |-> s, n |-> f.n] \in [s : Sessions, n : 0 .. MaxBuilt - 1]
    BY <1>2, FrameFacts
  <2>2. got \in Seq([s : Sessions, n : 0 .. MaxBuilt - 1])
    BY DEF Sound, TypeOK
  <2> DEFINE r == [s |-> s, n |-> f.n]
  <2>3. got' = IF f.kind = "audio" THEN Append(got, r) ELSE got
    BY <1>5
  <2>4. CASE f.kind = "audio"
    <3>1. r \in [s : Sessions, n : 0 .. MaxBuilt - 1] /\ got' = Append(got, r)
      BY <2>1, <2>3, <2>4
    <3> HIDE DEF r
    <3> QED
      BY <2>2, <3>1
  <2> QED
    BY <2>2, <2>3, <2>4
<1> HIDE DEF f, id
<1>7. TypeOK'
  BY <1>2, <1>3, <1>4, <1>5, <1>6 DEF Sound, TypeOK, deviceVars
<1>8. SessionsSound'
  <2>1. s <= session
    BY <1>1 DEF Sound, TypeOK, SessionsSound, Sessions
  <2>2. \A t \in Sessions : t > session' => wire'[t] = <<>> /\ kept'[t] = {}
    <3>1. \A t \in Sessions : t # s => wire'[t] = wire[t]
      BY <1>5 DEF Sound, TypeOK
    <3>2. \A t \in Sessions : t > session => t # s
      BY <2>1 DEF Sound, TypeOK, Sessions
    <3> QED
      BY <3>1, <3>2 DEF Sound, SessionsSound, deviceVars
  <2> QED
    BY <1>5, <2>2 DEF Sound, SessionsSound, deviceVars
<1> QED
  BY <1>7, <1>8 DEF Sound

LEMMA EndOfLinkSound ==
    ASSUME Sound, NEW s \in Sessions, UNCHANGED deviceVars,
           Hangup(s) \/ Timeout(s) \/ (Break(s) /\ UNCHANGED sinkVars)
    PROVE  Sound'
<1>1. CASE Hangup(s)
  BY <1>1 DEF Hangup, Sound, TypeOK, SessionsSound, linkVars, deviceVars
<1>2. CASE Timeout(s)
  <2>1. link' = [link EXCEPT ![s] = "dead"] /\ link[s] # "none"
    BY <1>2 DEF Timeout
  <2>2. /\ link' \in [Sessions -> {"none", "up", "closed", "dead"}]
        /\ \A t \in Sessions : link'[t] = "none" <=> t > session
    BY <2>1 DEF Sound, TypeOK, SessionsSound
  <2>3. TypeOK'
    BY <1>2, <2>2 DEF Timeout, Sound, TypeOK, deviceVars
  <2>4. SessionsSound'
    BY <1>2, <2>2 DEF Timeout, Sound, SessionsSound, deviceVars
  <2> QED
    BY <2>3, <2>4 DEF Sound
<1>3. CASE Break(s) /\ UNCHANGED sinkVars
  <2>1. link' = [link EXCEPT ![s] = "dead"] /\ link[s] # "none"
    BY <1>3 DEF Break
  <2>2. PICK k \in 0 .. Len(wire[s]) : wire' = [wire EXCEPT ![s] = SubSeq(@, 1, k)]
    BY <1>3 DEF Break
  <2>3. wire[s] \in Seq(Frames) /\ DOMAIN wire = Sessions
    BY DEF Sound, TypeOK
  <2>4. SubSeq(wire[s], 1, k) \in Seq(Frames) /\ (wire[s] = <<>> => SubSeq(wire[s], 1, k) = <<>>)
    BY <2>3
  <2>5. /\ link' \in [Sessions -> {"none", "up", "closed", "dead"}]
        /\ \A t \in Sessions : link'[t] = "none" <=> t > session
    BY <2>1 DEF Sound, TypeOK, SessionsSound
  <2>6. TypeOK'
    BY <1>3, <2>2, <2>3, <2>4, <2>5 DEF Sound, TypeOK, deviceVars, sinkVars
  <2>7. \A t \in Sessions : wire[t] = <<>> => wire'[t] = <<>>
    BY <2>2, <2>3, <2>4
  <2>8. SessionsSound'
    BY <2>5, <2>7 DEF Sound, SessionsSound, deviceVars
  <2> QED
    BY <2>6, <2>8 DEF Sound
<1> QED
  BY <1>1, <1>2, <1>3

-----------------------------------------------------------------------------
(* A session of which nothing is read, written or held.                    *)
SameRead(s) ==
    /\ ReadOf(s)' = ReadOf(s)
    /\ \A i \in ReadOf(s) : got'[i] = got[i]

LEMMA SameArriving ==
    ASSUME NEW s, SameRead(s), wire'[s] = wire[s]
    PROVE  AudioOn(s)' = AudioOn(s) /\ Arriving(s)' = Arriving(s)
<1>1. AudioOn(s)' = AudioOn(s)
  BY DEF AudioOn
<1>2. Arriving(s)' = {got'[i].n : i \in ReadOf(s)'} \union {wire'[s][i].n : i \in AudioOn(s)'}
  BY DEF Arriving
<1>3. {got'[i].n : i \in ReadOf(s)'} = {got[i].n : i \in ReadOf(s)}
  BY DEF SameRead
<1> QED
  BY <1>1, <1>2, <1>3 DEF Arriving

LEMMA Untouched ==
    ASSUME NEW s, ReplayedOn(s), SameRead(s),
           wire'[s] = wire[s], kept'[s] = kept[s],
           link'[s] = "up" /\ dev' = "on" /\ s = session' =>
              link[s] = "up" /\ dev = "on" /\ s = session /\ held' = held
    PROVE  ReplayedOn(s)'
<1>1. AudioOn(s)' = AudioOn(s) /\ Arriving(s)' = Arriving(s)
  BY SameArriving
<1> QED
  BY <1>1 DEF ReplayedOn, SameRead

LEMMA SameGot ==
    ASSUME NEW s, got' = got
    PROVE  SameRead(s)
BY DEF SameRead, ReadOf

LEMMA ReplayedStarts == Init => Replayed
<1> SUFFICES ASSUME Init, NEW s \in Sessions PROVE ReplayedOn(s)
  BY DEF Replayed
<1>1. wire[s] = <<>> /\ got = <<>> /\ kept[s] = {} /\ held = <<>>
  BY DEF Init, LinkInit, DeviceInit, SinkInit
<1>2. ReadOf(s) = {} /\ AudioOn(s) = {}
  BY <1>1 DEF ReadOf, AudioOn
<1>3. Arriving(s) = {}
  BY <1>2 DEF Arriving
<1> QED
  BY <1>1, <1>2, <1>3 DEF ReplayedOn

LEMMA ConnectReplayed ==
    ASSUME Sound, Replayed, Connect, Accepted(session + 1)
    PROVE  Replayed'
<1> SUFFICES ASSUME NEW s \in Sessions PROVE ReplayedOn(s)'
  BY DEF Replayed
<1> DEFINE items == IF config.hello THEN <<Hello>> ELSE <<>>
<1>1. /\ wire' = [wire EXCEPT ![session + 1] = items]
      /\ UNCHANGED <<kept, got>> /\ held' = <<>> /\ dev = "off" /\ session' = session + 1
  BY DEF Connect, OpenLink, Accepted
<1>2. SameRead(s)
  BY <1>1, SameGot
<1>3. ReplayedOn(s)
  BY DEF Replayed
<1>4. CASE s = session + 1
  <2>1. s > session
    BY <1>4 DEF Sound, TypeOK
  <2>2. wire[s] = <<>> /\ kept[s] = {}
    BY <2>1 DEF Sound, SessionsSound
  <2>3. Arriving(s) = {}
    BY <1>3, <2>2 DEF ReplayedOn
  <2>4. ReadOf(s)' = {}
    BY <1>2, <2>3 DEF Arriving, SameRead
  <2>5. AudioOn(s)' = {}
    <3>1. wire'[s] = items
      BY <1>1, <1>4 DEF Sound, TypeOK
    <3>2. \A i \in DOMAIN items : items[i].kind # "audio"
      BY DEF Hello
    <3> QED
      BY <3>1, <3>2 DEF AudioOn
  <2>6. Arriving(s)' = {}
    BY <2>4, <2>5 DEF Arriving
  <2> QED
    BY <1>1, <2>2, <2>4, <2>5, <2>6 DEF ReplayedOn
<1>5. CASE s # session + 1
  <2>1. wire'[s] = wire[s] /\ kept'[s] = kept[s] /\ s # session'
    BY <1>1, <1>5 DEF Sound, TypeOK
  <2> QED
    BY <1>2, <1>3, <2>1, Untouched
<1> QED
  BY <1>4, <1>5

LEMMA EndsReplayed ==
    ASSUME Sound, Replayed, Over \/ Fail \/ Stop, UNCHANGED sinkVars
    PROVE  Replayed'
<1> SUFFICES ASSUME NEW s \in Sessions PROVE ReplayedOn(s)'
  BY DEF Replayed
<1>1. wire' = wire /\ kept' = kept /\ got' = got
  BY DEF Over, Fail, Stop, CloseLink, linkVars, sinkVars
<1>2. dev' # "on"
  BY DEF Over, Fail, Stop
<1> QED
  BY <1>1, <1>2, SameGot, Untouched DEF Replayed

(* Where the rest of a session's frames stand once the first was read.     *)
LEMMA TailFacts ==
    ASSUME NEW w \in Seq(Frames), w # <<>>
    PROVE  /\ Tail(w) \in Seq(Frames) /\ Len(Tail(w)) = Len(w) - 1
           /\ \A i \in DOMAIN Tail(w) : i + 1 \in DOMAIN w /\ Tail(w)[i] = w[i + 1]
           /\ \A i \in DOMAIN w : i # 1 => i - 1 \in DOMAIN Tail(w) /\ Tail(w)[i - 1] = w[i]
           /\ Head(w) = w[1] /\ 1 \in DOMAIN w /\ w[1] \in Frames
<1>1. Tail(w) \in Seq(Frames) /\ Len(Tail(w)) = Len(w) - 1
  OBVIOUS
<1>2. \A i \in 1 .. Len(w) - 1 : Tail(w)[i] = w[i + 1]
  OBVIOUS
<1> QED
  BY <1>1, <1>2

(* Reading takes a frame from the wire and adds it to what was read.       *)
LEMMA HandleMoves ==
    ASSUME Sound, NEW s \in Sessions, Handle(s)
    PROVE  LET f == wire[s][1] IN
           /\ 1 \in DOMAIN wire[s] /\ f \in Frames
           /\ \A t \in Sessions : t # s => SameRead(t) /\ wire'[t] = wire[t]
           /\ \A i \in AudioOn(s)' : i + 1 \in AudioOn(s) /\ wire'[s][i] = wire[s][i + 1]
           /\ \A i \in AudioOn(s) : i # 1 => i - 1 \in AudioOn(s)' /\ wire'[s][i - 1] = wire[s][i]
           /\ IF f.kind = "audio"
              THEN /\ ReadOf(s)' = ReadOf(s) \union {Len(got) + 1}
                   /\ \A i \in ReadOf(s) : i <= Len(got) /\ i \in Nat /\ got'[i] = got[i]
                   /\ got'[Len(got) + 1].n = f.n
                   /\ 1 \in AudioOn(s)
              ELSE SameRead(s) /\ 1 \notin AudioOn(s)
<1> DEFINE f == wire[s][1]
           r == [s |-> s, n |-> f.n]
<1>1. wire[s] \in Seq(Frames) /\ wire[s] # <<>> /\ got \in Seq([s : Sessions, n : 0 .. MaxBuilt - 1])
  BY DEF Sound, TypeOK, Handle
<1>2. Head(wire[s]) = f /\ 1 \in DOMAIN wire[s] /\ f \in Frames
  BY <1>1, TailFacts
<1>3. wire' = [wire EXCEPT ![s] = Tail(@)] /\ wire'[s] = Tail(wire[s])
  BY DEF Handle, Sound, TypeOK
<1>4. got' = IF f.kind = "audio" THEN Append(got, r) ELSE got
  BY <1>2 DEF Handle
<1>5. r.s = s /\ r.n = f.n
  OBVIOUS
<1>6. /\ \A i \in AudioOn(s)' : i + 1 \in AudioOn(s) /\ wire'[s][i] = wire[s][i + 1]
      /\ \A i \in AudioOn(s) : i # 1 => i - 1 \in AudioOn(s)' /\ wire'[s][i - 1] = wire[s][i]
  <2> DEFINE w == wire[s]
             v == wire'[s]
  <2>1. /\ \A i \in DOMAIN v : i + 1 \in DOMAIN w /\ v[i] = w[i + 1]
        /\ \A i \in DOMAIN w : i # 1 => i - 1 \in DOMAIN v /\ v[i - 1] = w[i]
    <3>1. w \in Seq(Frames) /\ w # <<>> /\ v = Tail(w)
      BY <1>1, <1>3
    <3> HIDE DEF w, v
    <3> QED
      BY ONLY <3>1, TailFacts
  <2>2. AudioOn(s)' = {i \in DOMAIN v : v[i].kind = "audio"} /\ AudioOn(s) = {i \in DOMAIN w : w[i].kind = "audio"}
    BY DEF AudioOn
  <2>3. \A i \in DOMAIN w : i \in Int /\ (i - 1) + 1 = i
    BY <1>1
  <2> HIDE DEF v, w
  <2>4. /\ \A i \in AudioOn(s)' : i + 1 \in AudioOn(s) /\ v[i] = w[i + 1]
        /\ \A i \in AudioOn(s) : i # 1 => i - 1 \in AudioOn(s)' /\ v[i - 1] = w[i]
    BY <2>1, <2>2, <2>3
  <2> QED
    BY <2>4 DEF v, w
<1> HIDE DEF r, f
<1>7. \A t \in Sessions : t # s => SameRead(t) /\ wire'[t] = wire[t]
  <2> SUFFICES ASSUME NEW t \in Sessions, t # s PROVE SameRead(t) /\ wire'[t] = wire[t]
    OBVIOUS
  <2>1. wire'[t] = wire[t]
    BY <1>3 DEF Sound, TypeOK
  <2>2. CASE f.kind = "audio"
    <3>1. /\ DOMAIN got' = DOMAIN got \union {Len(got) + 1}
          /\ \A i \in DOMAIN got : got'[i] = got[i]
          /\ got'[Len(got) + 1].s = s
      BY <1>1, <1>4, <1>5, <2>2
    <3>2. SameRead(t)
      BY <3>1 DEF SameRead, ReadOf
    <3> QED
      BY <2>1, <3>2
  <2>3. CASE f.kind # "audio"
    BY <1>4, <2>1, <2>3 DEF SameRead, ReadOf
  <2> QED
    BY <2>1, <2>2, <2>3
<1>8. CASE f.kind = "audio"
  <2>1. /\ ReadOf(s)' = ReadOf(s) \union {Len(got) + 1}
        /\ \A i \in ReadOf(s) : i <= Len(got) /\ i \in Nat /\ got'[i] = got[i]
        /\ got'[Len(got) + 1].n = f.n
    BY <1>1, <1>4, <1>5, <1>8 DEF ReadOf
  <2>2. 1 \in AudioOn(s)
    BY <1>2, <1>8 DEF AudioOn, f
  <2> QED
    BY <1>2, <1>6, <1>7, <1>8, <2>1, <2>2 DEF f
<1>9. CASE f.kind # "audio"
  <2>1. SameRead(s) /\ 1 \notin AudioOn(s)
    BY <1>4, <1>9 DEF SameRead, ReadOf, AudioOn, f
  <2> QED
    BY <1>2, <1>6, <1>7, <1>9, <2>1 DEF f
<1> QED
  BY <1>8, <1>9

LEMMA HandleReplayed ==
    ASSUME Sound, Replayed, NEW s \in Sessions, Handle(s), UNCHANGED deviceVars
    PROVE  Replayed'
<1> SUFFICES ASSUME NEW t \in Sessions PROVE ReplayedOn(t)'
  BY DEF Replayed
<1>1. ReplayedOn(t) /\ ReplayedOn(s)
  BY DEF Replayed
<1>2. UNCHANGED <<kept, held, dev, session, link>>
  BY DEF deviceVars, Handle
<1>3. CASE t # s
  <2>1. SameRead(t) /\ wire'[t] = wire[t]
    BY <1>3, HandleMoves
  <2> QED
    BY <1>1, <1>2, <2>1, Untouched
<1>4. CASE t = s
  <2> DEFINE f == wire[s][1]
             w == wire[s]
             v == wire'[s]
             A == AudioOn(s)
             B == AudioOn(s)'
  <2>1. /\ \A i \in B : i + 1 \in A /\ v[i] = w[i + 1]
        /\ \A i \in A : i # 1 => i - 1 \in B /\ v[i - 1] = w[i]
        /\ A \subseteq Nat \ {0} /\ B \subseteq Nat \ {0}
    <3>1. A \subseteq Nat \ {0} /\ B \subseteq Nat \ {0}
      <4>1. wire[s] \in Seq(Frames) /\ wire'[s] \in Seq(Frames)
        BY HandleSound DEF Sound, TypeOK
      <4> QED
        BY <4>1 DEF AudioOn
    <3> QED
      BY <3>1, HandleMoves
  <2>2. Arriving(s)' = Arriving(s)
    <3>1. CASE f.kind = "audio"
      <4> DEFINE R == ReadOf(s)
                 m == Len(got) + 1
      <4>1. /\ ReadOf(s)' = R \union {m} /\ got'[m].n = f.n
            /\ \A i \in R : got'[i] = got[i]
            /\ 1 \in A
        BY <3>1, HandleMoves
      <4>2. Arriving(s)' = {got'[i].n : i \in ReadOf(s)'} \union {v[i].n : i \in B}
        BY DEF Arriving
      <4>3. Arriving(s) = {got[i].n : i \in R} \union {w[i].n : i \in A}
        BY DEF Arriving
      <4>4. {got'[i].n : i \in ReadOf(s)'} = {got[i].n : i \in R} \union {w[1].n}
        BY <4>1
      <4>5. {w[i].n : i \in A} = {v[i].n : i \in B} \union {w[1].n}
        <5> HIDE DEF A, B, w, v
        <5>1. \A i \in A : i = 1 \/ (i - 1 \in B /\ v[i - 1].n = w[i].n)
          BY <2>1
        <5>2. \A i \in B : i + 1 \in A /\ v[i].n = w[i + 1].n
          BY <2>1
        <5> QED
          BY <4>1, <5>1, <5>2
      <4> QED
        BY <4>2, <4>3, <4>4, <4>5
    <3>2. CASE f.kind # "audio"
      <4>1. SameRead(s) /\ 1 \notin A
        BY <3>2, HandleMoves
      <4>2. {w[i].n : i \in A} = {v[i].n : i \in B}
        <5> HIDE DEF A, B, w, v
        <5>1. \A i \in A : i - 1 \in B /\ v[i - 1].n = w[i].n
          BY <2>1, <4>1
        <5>2. \A i \in B : i + 1 \in A /\ v[i].n = w[i + 1].n
          BY <2>1
        <5> QED
          BY <5>1, <5>2
      <4>3. {got'[i].n : i \in ReadOf(s)'} = {got[i].n : i \in ReadOf(s)}
        BY <4>1 DEF SameRead
      <4>4. Arriving(s)' = {got'[i].n : i \in ReadOf(s)'} \union {v[i].n : i \in B}
        BY DEF Arriving
      <4> QED
        BY <4>2, <4>3, <4>4 DEF Arriving
    <3> QED
      BY <3>1, <3>2
  <2>3. \A i, j \in B : i < j => v[i].n < v[j].n
    <3>1. \A i, j \in A : i < j => w[i].n < w[j].n
      BY <1>1 DEF ReplayedOn
    <3> HIDE DEF A, B, v, w
    <3> QED
      BY <2>1, <3>1
  <2>4. /\ \A i, j \in ReadOf(s)' : i < j => got'[i].n < got'[j].n
        /\ \A i \in ReadOf(s)', j \in B : got'[i].n < v[j].n
    <3>1. /\ \A i, j \in ReadOf(s) : i < j => got[i].n < got[j].n
          /\ \A i \in ReadOf(s), j \in A : got[i].n < w[j].n
          /\ \A i, j \in A : i < j => w[i].n < w[j].n
      BY <1>1 DEF ReplayedOn
    <3>2. CASE f.kind = "audio"
      <4> DEFINE R == ReadOf(s)
                 m == Len(got) + 1
      <4>1. /\ ReadOf(s)' = R \union {m} /\ got'[m].n = w[1].n
            /\ \A i \in R : i <= Len(got) /\ i \in Nat /\ got'[i] = got[i]
            /\ 1 \in A
        BY <3>2, HandleMoves
      <4>2. Len(got) \in Nat
        BY DEF Sound, TypeOK
      <4>3. \A i \in R : i < m /\ ~(m < i)
        BY <4>1, <4>2
      <4> HIDE DEF A, B, v, w, R, m
      <4>4. \A i, j \in R \union {m} : i < j => got'[i].n < got'[j].n
        <5>1. m \in Nat
          BY <4>2 DEF m
        <5> QED
          BY <3>1, <4>1, <4>3, <5>1 DEF R
      <4>5. \A j \in B : w[1].n < v[j].n
        BY <2>1, <3>1, <4>1
      <4>6. \A i \in R, j \in B : got'[i].n < v[j].n
        BY <2>1, <3>1, <4>1 DEF R
      <4> QED
        BY <4>1, <4>4, <4>5, <4>6
    <3>3. CASE f.kind # "audio"
      <4>1. SameRead(s)
        BY <3>3, HandleMoves
      <4> HIDE DEF A, B, v, w
      <4> QED
        BY <2>1, <3>1, <4>1 DEF SameRead
    <3> QED
      BY <3>2, <3>3
  <2> QED
    BY <1>1, <1>2, <1>4, <2>2, <2>3, <2>4 DEF ReplayedOn
<1> QED
  BY <1>3, <1>4

LEMMA BreakReplayed ==
    ASSUME Sound, Replayed, NEW s \in Sessions, Break(s), UNCHANGED <<deviceVars, sinkVars>>
    PROVE  Replayed'
<1> SUFFICES ASSUME NEW t \in Sessions PROVE ReplayedOn(t)'
  BY DEF Replayed
<1>1. ReplayedOn(t)
  BY DEF Replayed
<1>2. PICK k \in 0 .. Len(wire[s]) : wire' = [wire EXCEPT ![s] = SubSeq(@, 1, k)]
  BY DEF Break
<1>3. UNCHANGED <<kept, held, dev, session, got>> /\ link' = [link EXCEPT ![s] = "dead"]
  BY DEF deviceVars, sinkVars, Break
<1>4. SameRead(t)
  BY <1>3, SameGot
<1>5. CASE t # s
  <2>1. wire'[t] = wire[t] /\ link'[t] = link[t]
    BY <1>2, <1>3, <1>5 DEF Sound, TypeOK
  <2> QED
    BY <1>1, <1>3, <1>4, <2>1, Untouched
<1>6. CASE t = s
  <2> DEFINE w == wire[s]
             v == wire'[s]
             A == AudioOn(s)
             B == AudioOn(s)'
  <2>1. w \in Seq(Frames) /\ k \in 0 .. Len(w) /\ v = SubSeq(w, 1, k) /\ link'[s] = "dead"
    BY <1>2, <1>3 DEF Sound, TypeOK
  <2>2. A \subseteq Nat /\ B = {i \in A : i <= k} /\ \A i \in B : v[i] = w[i]
    <3>1. A = {i \in DOMAIN w : w[i].kind = "audio"} /\ B = {i \in DOMAIN v : v[i].kind = "audio"}
      BY DEF AudioOn
    <3> HIDE DEF w, v
    <3>2. DOMAIN v = 1 .. k /\ \A i \in 1 .. k : i \in DOMAIN w /\ v[i] = w[i]
      <4>1. Len(v) = k /\ v \in Seq(Frames) /\ Len(w) \in Nat
        BY ONLY <2>1
      <4>2. \A i \in 1 .. k : i \in 1 .. Len(w) /\ v[i] = w[i]
        BY ONLY <2>1
      <4> QED
        BY <2>1, <4>1, <4>2
    <3>3. DOMAIN w \subseteq Nat /\ \A i \in DOMAIN w : i >= 1
      BY <2>1
    <3> QED
      BY <3>1, <3>2, <3>3
  <2>3. /\ Arriving(s) = {got[i].n : i \in ReadOf(s)} \union {w[i].n : i \in A}
        /\ Arriving(s)' = {got[i].n : i \in ReadOf(s)} \union {v[i].n : i \in B}
    BY <1>4, <1>6 DEF Arriving, SameRead
  <2>4. /\ \A i, j \in ReadOf(s) : i < j => got[i].n < got[j].n
        /\ \A i, j \in A : i < j => w[i].n < w[j].n
        /\ \A i \in ReadOf(s), j \in A : got[i].n < w[j].n
        /\ Arriving(s) \subseteq kept[s]
        /\ \A m \in Arriving(s), n \in kept[s] \ Arriving(s) : m < n
    BY <1>1, <1>6 DEF ReplayedOn
  <2> DEFINE R == ReadOf(s)
             old == Arriving(s)
             new == Arriving(s)'
  <2> HIDE DEF w, v, A, B, R, old, new
  <2>5. /\ \A i, j \in B : i < j => v[i].n < v[j].n
        /\ \A i \in R, j \in B : got[i].n < v[j].n
    BY <2>2, <2>4 DEF R
  <2>6. new \subseteq old
    BY <2>2, <2>3 DEF new, old
  <2>7. \A m \in new, n \in kept[s] \ new : m < n
    <3> SUFFICES ASSUME NEW m \in new, NEW n \in kept[s] \ new PROVE m < n
      OBVIOUS
    <3>1. CASE n \notin old
      BY <2>4, <2>6, <3>1 DEF old
    <3>2. CASE n \in old
      <4>1. PICK j \in A : n = w[j].n /\ j \notin B
        BY <2>2, <2>3, <3>2 DEF old, new
      <4>2. (\E i \in R : m = got[i].n) \/ \E i \in B : m = v[i].n
        BY <2>3 DEF new, R
      <4>3. \A i \in B : i \in A /\ i < j /\ v[i] = w[i]
        BY <2>2, <4>1
      <4> QED
        BY <2>4, <4>1, <4>2, <4>3 DEF R
    <3> QED
      BY <3>1, <3>2
  <2>8. /\ \A i, j \in ReadOf(s)' : i < j => got'[i].n < got'[j].n
        /\ \A i \in ReadOf(s)', j \in B : got'[i].n < v[j].n
    BY <1>4, <1>6, <2>4, <2>5 DEF SameRead, R
  <2> QED
    BY <1>3, <1>6, <2>1, <2>4, <2>5, <2>6, <2>7, <2>8 DEF ReplayedOn, old, new, B, v
<1> QED
  BY <1>5, <1>6

LEMMA SilenceReplayed ==
    ASSUME Sound, Replayed, NEW s \in Sessions, UNCHANGED deviceVars,
           Hangup(s) \/ Timeout(s)
    PROVE  Replayed'
<1> SUFFICES ASSUME NEW t \in Sessions PROVE ReplayedOn(t)'
  BY DEF Replayed
<1>1. wire' = wire /\ got' = got /\ UNCHANGED <<kept, held, dev, session>>
  BY DEF Hangup, Timeout, linkVars, deviceVars
<1>2. link'[t] = "up" => link[t] = "up"
  BY DEF Hangup, Timeout, linkVars, Sound, TypeOK
<1> QED
  BY <1>1, <1>2, SameGot, Untouched DEF Replayed

LEMMA Concatenated ==
    ASSUME NEW S, NEW a \in Seq(S), NEW b \in Seq(S)
    PROVE  /\ Len(a) \in Nat /\ DOMAIN a = 1 .. Len(a)
           /\ DOMAIN (a \o b) = 1 .. Len(a) + Len(b)
           /\ \A i \in 1 .. Len(a) : (a \o b)[i] = a[i]
           /\ \A i \in 1 .. Len(b) : (a \o b)[Len(a) + i] = b[i]
OBVIOUS

(* What is written follows what was on the wire.                           *)
Follows(v, w, audio) ==
    /\ Len(w) \in Nat /\ DOMAIN w = 1 .. Len(w) /\ DOMAIN v \subseteq Nat
    /\ \A i \in DOMAIN w : i \in DOMAIN v /\ v[i] = w[i]
    /\ \A i \in DOMAIN v : i \notin DOMAIN w =>
          /\ Len(w) < i /\ v[i] # Hello
          /\ v[i].kind = "audio" =>
                i - Len(w) \in 1 .. Len(audio) /\ v[i].n = audio[i - Len(w)]
    /\ \A i \in 1 .. Len(audio) :
          /\ Len(w) + i \in DOMAIN v /\ v[Len(w) + i].kind = "audio"
          /\ v[Len(w) + i].n = audio[i]

LEMMA WrittenFacts ==
    ASSUME NEW w \in Seq(Frames), NEW audio \in Seq(0 .. MaxBuilt - 1),
           NEW report \in {<<>>, <<Stat>>}, NEW v, v = w \o Items(audio, report)
    PROVE  Follows(v, w, audio)
<1> DEFINE items == Items(audio, report)
           l == Len(w)
<1>0. v = w \o items
  OBVIOUS
<1>1. /\ items \in Seq(Frames) /\ Len(items) = Len(audio) + Len(report)
      /\ Len(audio) \in Nat /\ Len(report) \in Nat
  <2>1. report \in Seq(Frames)
    <3>1. CASE report = <<>>
      BY <3>1
    <3>2. CASE report = <<Stat>>
      BY <3>2, FrameFacts
    <3> QED
      BY <3>1, <3>2
  <2>2. Len(report) \in Nat /\ Len(audio) \in Nat
    BY ONLY <2>1, audio \in Seq(0 .. MaxBuilt - 1)
  <2> QED
    BY <2>2, ItemsFacts
<1>2. \A i \in 1 .. Len(items) :
         IF i <= Len(audio) THEN items[i] = Audio(audio[i]) ELSE items[i] = Stat
  <2>1. \A i \in DOMAIN items :
           IF i <= Len(audio) THEN items[i] = Audio(audio[i]) ELSE items[i] = Stat
    BY ONLY ItemsFacts, audio \in Seq(0 .. MaxBuilt - 1), report \in {<<>>, <<Stat>>}
  <2> HIDE DEF items
  <2>2. DOMAIN items = 1 .. Len(items)
    BY ONLY <1>1
  <2> QED
    BY <2>1, <2>2
<1>3. \A n : Audio(n).kind = "audio" /\ Audio(n).n = n /\ Audio(n) # Hello
  <2>1. \A n : Audio(n).kind = "audio" /\ Audio(n).n = n
    BY DEF Audio
  <2> QED
    BY <2>1 DEF Hello
<1>4. Stat.kind # "audio" /\ Stat # Hello
  <2>1. Stat.kind = "stat" /\ Hello.kind = "hello"
    BY DEF Stat, Hello
  <2> QED
    BY <2>1
<1> HIDE DEF items
<1>5. /\ l \in Nat /\ DOMAIN w = 1 .. l /\ DOMAIN v = 1 .. l + Len(items)
      /\ \A i \in 1 .. l : v[i] = w[i]
      /\ \A i \in 1 .. Len(items) : v[l + i] = items[i]
  <2>1. items \in Seq(Frames)
    BY <1>1
  <2> QED
    BY ONLY <1>0, <2>1, Concatenated, w \in Seq(Frames)
<1> HIDE DEF l
<1>6. \A i \in DOMAIN v : i \notin DOMAIN w =>
         l < i /\ i - l \in 1 .. Len(items) /\ v[i] = items[i - l]
  <2> SUFFICES ASSUME NEW i \in DOMAIN v, i \notin DOMAIN w
               PROVE  l < i /\ i - l \in 1 .. Len(items) /\ v[i] = items[i - l]
    OBVIOUS
  <2>1. l < i /\ i - l \in 1 .. Len(items) /\ l + (i - l) = i
    BY <1>1, <1>5
  <2> QED
    BY <1>5, <2>1
<1>7. \A i \in DOMAIN v : i \notin DOMAIN w =>
         /\ l < i /\ v[i] # Hello
         /\ v[i].kind = "audio" => i - l \in 1 .. Len(audio) /\ v[i].n = audio[i - l]
  <2> SUFFICES ASSUME NEW i \in DOMAIN v, i \notin DOMAIN w
               PROVE  /\ l < i /\ v[i] # Hello
                      /\ v[i].kind = "audio" =>
                            i - l \in 1 .. Len(audio) /\ v[i].n = audio[i - l]
    OBVIOUS
  <2> DEFINE k == i - l
  <2>1. l < i /\ k \in 1 .. Len(items) /\ v[i] = items[k]
    BY <1>6
  <2> HIDE DEF k
  <2>2. CASE k <= Len(audio)
    <3>1. k \in 1 .. Len(audio) /\ v[i] = Audio(audio[k])
      BY <1>1, <1>2, <2>1, <2>2
    <3> QED
      BY <1>3, <2>1, <3>1 DEF k
  <2>3. CASE ~(k <= Len(audio))
    BY <1>2, <1>4, <2>1, <2>3
  <2> QED
    BY <2>2, <2>3
<1>8. \A i \in 1 .. Len(audio) :
         l + i \in DOMAIN v /\ v[l + i].kind = "audio" /\ v[l + i].n = audio[i]
  <2> SUFFICES ASSUME NEW i \in 1 .. Len(audio)
               PROVE  l + i \in DOMAIN v /\ v[l + i].kind = "audio" /\ v[l + i].n = audio[i]
    OBVIOUS
  <2>1. i \in 1 .. Len(items) /\ l + i \in DOMAIN v
    BY <1>1, <1>5
  <2>2. v[l + i] = Audio(audio[i])
    BY <1>2, <1>5, <2>1
  <2> QED
    BY <1>3, <2>1, <2>2
<1>9. \A i \in DOMAIN w : i \in DOMAIN v /\ v[i] = w[i]
  BY <1>1, <1>5
<1>10. l \in Nat /\ DOMAIN w = 1 .. l /\ DOMAIN v \subseteq Nat
  BY <1>1, <1>5
<1> QED
  BY <1>7, <1>8, <1>9, <1>10 DEF l, Follows

LEMMA TurnReplayed ==
    ASSUME Sound, Replayed, Turn, UNCHANGED sinkVars
    PROVE  Replayed'
<1> SUFFICES ASSUME NEW s \in Sessions PROVE ReplayedOn(s)'
  BY DEF Replayed
<1>1. ReplayedOn(s)
  BY DEF Replayed
<1>2. /\ dev = "on" /\ built < MaxBuilt /\ built' = built + 1
      /\ UNCHANGED <<dev, config, session, got>>
  BY TurnForm DEF Sound, sinkVars
<1>3. PICK audio \in Seq(0 .. MaxBuilt - 1), report \in {<<>>, <<Stat>>} :
         TurnAs(audio, report)
  BY TurnForm DEF Sound
<1>4. SameRead(s)
  BY <1>2, SameGot
<1>5. /\ link' = link
      /\ wire' = IF link[session] = "up"
                 THEN [wire EXCEPT ![session] = @ \o Items(audio, report)] ELSE wire
  BY <1>3 DEF TurnAs, Write
<1>6. session \in Sessions /\ built \in 0 .. MaxBuilt - 1
  BY <1>2 DEF Sound, TypeOK, SessionsSound, Sessions
<1>7. CASE s # session
  <2>1. wire'[s] = wire[s]
    BY <1>5, <1>7 DEF Sound, TypeOK
  <2>2. kept'[s] = kept[s]
    BY <1>3, <1>7 DEF TurnAs, Drop, Hold, Send, Keep, Sound, TypeOK
  <2> QED
    BY <1>1, <1>2, <1>4, <1>5, <1>7, <2>1, <2>2, Untouched
<1>8. CASE s = session
  <2> DEFINE w == wire[s]
             v == wire'[s]
             A == AudioOn(s)
             B == AudioOn(s)'
             R == ReadOf(s)
             old == Arriving(s)
             new == Arriving(s)'
             h == {held[i] : i \in DOMAIN held}
             k == kept[s]
  <2>1. /\ w \in Seq(Frames) /\ kept \in [Sessions -> SUBSET (0 .. MaxBuilt - 1)]
        /\ k \subseteq Nat /\ built \notin k /\ (\A n \in k : n < built)
    BY <1>6, <1>8 DEF Sound, TypeOK, SessionsSound
  <2>2. /\ \A i, j \in R : i < j => got[i].n < got[j].n
        /\ \A i, j \in A : i < j => w[i].n < w[j].n
        /\ \A i \in R, j \in A : got[i].n < w[j].n
        /\ old \subseteq k
        /\ \A m \in old, n \in k \ old : m < n
        /\ link[s] = "up" =>
              k \ old = h /\ \A i, j \in DOMAIN held : i < j => held[i] < held[j]
    BY <1>1, <1>2, <1>8 DEF ReplayedOn
  <2>3. v = IF link[s] = "up" THEN w \o Items(audio, report) ELSE w
    BY <1>5, <1>6, <1>8 DEF Sound, TypeOK
  <2>4. /\ A = {i \in DOMAIN w : w[i].kind = "audio"}
        /\ B = {i \in DOMAIN v : v[i].kind = "audio"}
    BY DEF AudioOn
  <2>5. /\ old = {got[i].n : i \in R} \union {w[i].n : i \in A}
        /\ new = {got[i].n : i \in R} \union {v[i].n : i \in B}
    BY <1>4 DEF Arriving, SameRead
  <2>6. /\ R = ReadOf(s)' /\ \A i \in R : got'[i] = got[i]
    BY <1>4 DEF SameRead
  <2> HIDE DEF w, v, A, B, R, old, new, h, k
  <2>7. ASSUME audio = <<>> \/ link[s] # "up"
        PROVE  B = A /\ new = old /\ \A i \in A : v[i] = w[i]
    <3>1. B = A /\ \A i \in A : v[i] = w[i]
      <4>1. CASE link[s] # "up"
        BY <2>3, <2>4, <4>1
      <4>2. CASE link[s] = "up"
        <5>1. Follows(v, w, audio)
          BY <2>1, <2>3, <4>2, WrittenFacts
        <5>2. 1 .. Len(audio) = {}
          BY <2>7, <4>2
        <5>3. /\ \A i \in DOMAIN w : i \in DOMAIN v /\ v[i] = w[i]
              /\ \A i \in DOMAIN v : i \notin DOMAIN w => v[i].kind # "audio"
          BY <5>1, <5>2 DEF Follows
        <5> QED
          BY <2>4, <5>3
      <4> QED
        BY <4>1, <4>2
    <3> QED
      BY <2>5, <3>1
  <2>8. CASE Drop
    <3>1. k = kept'[s] /\ held' = held
      BY <2>8 DEF Drop, k
    <3>2. audio = <<>> \/ (audio = Burst /\ Send)
      BY <1>3 DEF TurnAs
    <3>3. kept' # kept \/ ~Send
      <4>1. Send => kept'[s] = k \union {built}
        BY <1>6, <1>8, <2>1 DEF Send, Keep, k
      <4> QED
        BY <2>1, <4>1 DEF k
    <3>4. audio = <<>>
      BY <2>8, <3>2, <3>3 DEF Drop
    <3>5. B = A /\ new = old /\ \A i \in A : v[i] = w[i]
      BY <2>7, <3>4
    <3>6. /\ \A i, j \in B : i < j => v[i].n < v[j].n
          /\ \A i \in R, j \in B : got[i].n < v[j].n
      BY <2>2, <3>5
    <3>7. {held'[i] : i \in DOMAIN held'} = h /\ DOMAIN held' = DOMAIN held
      BY <3>1 DEF h
    <3>8. new \subseteq kept'[s] /\ \A m \in new, n \in kept'[s] \ new : m < n
      BY <2>2, <3>1, <3>5
    <3>9. link'[s] = "up" =>
             /\ kept'[s] \ new = {held'[i] : i \in DOMAIN held'}
             /\ \A i, j \in DOMAIN held' : i < j => held'[i] < held'[j]
      BY <1>5, <2>2, <3>1, <3>5, <3>7
    <3>10. /\ \A i, j \in ReadOf(s)' : i < j => got'[i].n < got'[j].n
           /\ \A i \in ReadOf(s)', j \in B : got'[i].n < v[j].n
      BY <2>2, <2>6, <3>6
    <3> QED
      BY <3>6, <3>8, <3>9, <3>10 DEF ReplayedOn, B, new, v
  <2>9. CASE Keep
    <3>1. kept'[s] = k \union {built}
      BY <1>6, <1>8, <2>1, <2>9 DEF Keep, k
    <3>2. CASE audio = <<>> \/ link[s] # "up"
      <4>1. B = A /\ new = old /\ \A i \in A : v[i] = w[i]
        BY <2>7, <3>2
      <4>4. /\ \A i, j \in B : i < j => v[i].n < v[j].n
            /\ \A i \in R, j \in B : got[i].n < v[j].n
        BY <2>2, <4>1
      <4>2. old \subseteq k \union {built} /\ \A m \in old, n \in (k \union {built}) \ old : m < n
        BY <2>1, <2>2
      <4>3. link[s] = "up" =>
               /\ (k \union {built}) \ old = {held'[i] : i \in DOMAIN held'}
               /\ \A i, j \in DOMAIN held' : i < j => held'[i] < held'[j]
        <5> SUFFICES ASSUME link[s] = "up"
                     PROVE  /\ (k \union {built}) \ old = {held'[i] : i \in DOMAIN held'}
                            /\ \A i, j \in DOMAIN held' : i < j => held'[i] < held'[j]
          OBVIOUS
        <5>1. held' = Append(held, built)
          <6>1. Burst # <<>>
            BY <1>6 DEF Burst, Sound, TypeOK
          <6>2. Hold
            <7>1. kept' # kept
              BY <2>1, <3>1 DEF k
            <7> QED
              BY <1>3, <3>2, <6>1, <7>1 DEF TurnAs, Drop
          <6> QED
            BY <6>2 DEF Hold
        <5>2. held \in Seq(0 .. MaxBuilt - 1)
          BY DEF Sound, TypeOK
        <5>3. /\ Len(held) \in Nat /\ DOMAIN held = 1 .. Len(held)
              /\ DOMAIN held' = 1 .. Len(held) + 1
              /\ \A i \in 1 .. Len(held) : held'[i] = held[i] /\ held[i] \in h
              /\ held'[Len(held) + 1] = built
          BY <1>6, <5>1, <5>2 DEF h
        <5>4. DOMAIN held' = DOMAIN held \union {Len(held) + 1}
          BY <5>3
        <5>5. {held'[i] : i \in DOMAIN held'} = h \union {built}
          <6>1. {held'[i] : i \in DOMAIN held'}
                   = {held'[i] : i \in DOMAIN held} \union {held'[Len(held) + 1]}
            BY <5>4
          <6>2. {held'[i] : i \in DOMAIN held} = h
            BY <5>3 DEF h
          <6> QED
            BY <5>3, <6>1, <6>2
        <5>6. k \ old = h /\ \A i, j \in DOMAIN held : i < j => held[i] < held[j]
          BY <2>2
        <5>7. (k \union {built}) \ old = h \union {built}
          BY <2>1, <2>2, <5>6
        <5>8. \A i \in 1 .. Len(held) : held[i] < built
          BY <2>1, <5>3, <5>6
        <5>9. \A i, j \in DOMAIN held' : i < j => held'[i] < held'[j]
          BY <5>3, <5>6, <5>8
        <5> QED
          BY <5>5, <5>7, <5>9
      <4>5. new \subseteq kept'[s] /\ \A m \in new, n \in kept'[s] \ new : m < n
        BY <3>1, <4>1, <4>2
      <4>6. link'[s] = "up" =>
               /\ kept'[s] \ new = {held'[i] : i \in DOMAIN held'}
               /\ \A i, j \in DOMAIN held' : i < j => held'[i] < held'[j]
        BY <1>5, <3>1, <4>1, <4>3
      <4>7. /\ \A i, j \in ReadOf(s)' : i < j => got'[i].n < got'[j].n
            /\ \A i \in ReadOf(s)', j \in B : got'[i].n < v[j].n
        BY <2>2, <2>6, <4>4
      <4> QED
        BY <4>4, <4>5, <4>6, <4>7 DEF ReplayedOn, B, new, v
    <3>3. CASE audio # <<>> /\ link[s] = "up"
      <4>1. audio = Burst /\ held' = <<>>
        BY <1>3, <3>3 DEF TurnAs, Send
      <4>2. held \in Seq(0 .. MaxBuilt - 1)
        BY DEF Sound, TypeOK
      <4> DEFINE l == Len(w)
                 c == Len(held)
      <4>3. /\ c \in Nat /\ Len(audio) = c + 1 /\ DOMAIN held = 1 .. c
            /\ \A i \in 1 .. c : audio[i] = held[i] /\ audio[i] \in h
            /\ audio[c + 1] = built
        BY <1>6, <4>1, <4>2 DEF Burst, h
      <4>4. k \ old = h /\ \A i, j \in 1 .. c : i < j => held[i] < held[j]
        BY <2>2, <3>3, <4>3
      <4>5. /\ l \in Nat /\ DOMAIN w = 1 .. l /\ DOMAIN v \subseteq Nat
            /\ \A i \in DOMAIN w : i \in DOMAIN v /\ v[i] = w[i]
            /\ \A i \in DOMAIN v : i \notin DOMAIN w =>
                  /\ l < i
                  /\ v[i].kind = "audio" =>
                        i - l \in 1 .. Len(audio) /\ v[i].n = audio[i - l]
            /\ \A i \in 1 .. Len(audio) :
                  /\ l + i \in DOMAIN v /\ v[l + i].kind = "audio"
                  /\ v[l + i].n = audio[i]
        <5>1. Follows(v, w, audio)
          BY <2>1, <2>3, <3>3, WrittenFacts
        <5> QED
          BY <5>1 DEF Follows
      <4> HIDE DEF l, c
      <4>6. \A i, j \in 1 .. Len(audio) : i < j => audio[i] < audio[j]
        <5>1. \A i \in 1 .. c : audio[i] < built
          BY <2>1, <4>3, <4>4
        <5>2. \A i, j \in 1 .. c : i < j => audio[i] < audio[j]
          BY <4>3, <4>4
        <5> SUFFICES ASSUME NEW i \in 1 .. Len(audio), NEW j \in 1 .. Len(audio), i < j
                     PROVE  audio[i] < audio[j]
          OBVIOUS
        <5>3. i \in 1 .. c /\ (j \in 1 .. c \/ j = c + 1)
          BY ONLY <4>3, i \in 1 .. Len(audio), j \in 1 .. Len(audio), i < j
        <5>4. CASE j \in 1 .. c
          BY <5>2, <5>3, <5>4
        <5>5. CASE j = c + 1
          BY <4>3, <5>1, <5>3, <5>5
        <5> QED
          BY <5>3, <5>4, <5>5
      <4>7. \A i \in 1 .. Len(audio) : audio[i] \in h \union {built}
        BY <4>3
      <4>8. \A m \in old, n \in h \union {built} : m < n
        BY <2>1, <2>2, <4>4
      <4>9. \A i \in B : IF i \in A THEN v[i] = w[i] /\ i <= l
                         ELSE l < i /\ i - l \in 1 .. Len(audio) /\ v[i].n = audio[i - l]
        BY <2>4, <4>5
      <4>10. A \subseteq B /\ B \subseteq Nat /\ A \subseteq 1 .. l
        BY <2>4, <4>5
      <4>11. \A i \in A : w[i].n \in old
        BY <2>5
      <4>12. \A i \in R : got[i].n \in old
        BY <2>5
      <4>13. \A i, j \in B : i < j => v[i].n < v[j].n
        <5> SUFFICES ASSUME NEW i \in B, NEW j \in B, i < j
                     PROVE  v[i].n < v[j].n
          OBVIOUS
        <5>1. CASE j \in A
          BY <2>2, <4>5, <4>9, <4>10, <5>1
        <5>2. CASE i \in A /\ j \notin A
          BY <4>7, <4>8, <4>9, <4>11, <5>2
        <5>3. CASE i \notin A /\ j \notin A
          <6>1. i - l \in 1 .. Len(audio) /\ j - l \in 1 .. Len(audio) /\ i - l < j - l
            BY <4>5, <4>9, <4>10, <5>3
          <6> QED
            BY <4>6, <4>9, <5>3, <6>1
        <5> QED
          BY <5>1, <5>2, <5>3
      <4>14. \A i \in R, j \in B : got[i].n < v[j].n
        BY <2>2, <4>7, <4>8, <4>9, <4>12
      <4>15. new = old \union h \union {built}
        <5>1. \A n \in new : n \in old \union h \union {built}
          BY <2>5, <4>7, <4>9, <4>11
        <5>2. \A n \in old : n \in new
          BY <2>5, <4>9, <4>10
        <5>3. \A i \in 1 .. Len(audio) : audio[i] \in new
          BY <2>4, <2>5, <4>5
        <5>4. built \in new
          BY <4>3, <5>3
        <5>5. \A n \in h : n \in new
          BY <4>3, <5>3 DEF h
        <5> QED
          BY <5>1, <5>2, <5>4, <5>5
      <4>16. new = k \union {built}
        BY <2>2, <4>4, <4>15
      <4>17. {held'[i] : i \in DOMAIN held'} = {} /\ DOMAIN held' = {}
        BY <4>1
      <4> QED
        BY <1>2, <1>8, <2>2, <2>6, <3>1, <4>13, <4>14, <4>16, <4>17 DEF ReplayedOn, R, B, new, v
    <3> QED
      BY <3>2, <3>3
  <2> QED
    BY <1>3, <2>8, <2>9 DEF TurnAs, Hold, Send
<1> QED
  BY <1>7, <1>8

-----------------------------------------------------------------------------
(* The HELLO comes before the audio, or there is none.                     *)
LEMMA NamedStarts == Init => Named
<1> SUFFICES ASSUME Init, NEW s \in Sessions PROVE NamedOn(s)
  BY DEF Named
<1> QED
  BY DEF Init, LinkInit, SinkInit, NamedOn

LEMMA ConnectNamed ==
    ASSUME Sound, Named, Connect, Accepted(session + 1)
    PROVE  Named'
<1> SUFFICES ASSUME NEW s \in Sessions PROVE NamedOn(s)'
  BY DEF Named
<1> DEFINE items == IF config.hello THEN <<Hello>> ELSE <<>>
<1>1. /\ wire' = [wire EXCEPT ![session + 1] = items]
      /\ link' = [link EXCEPT ![session + 1] = "up"]
      /\ UNCHANGED <<config, imei>>
  BY DEF Connect, OpenLink, Accepted
<1>2. NamedOn(s)
  BY DEF Named
<1>3. CASE s = session + 1
  <2>1. wire'[s] = items
    BY <1>1, <1>3 DEF Sound, TypeOK
  <2>2. CASE config.hello
    <3>1. wire'[s] = <<Hello>>
      BY <2>1, <2>2
    <3>2. wire'[s] # <<>> /\ wire'[s][1] = Hello
      BY <3>1
    <3> QED
      BY <1>1, <2>2, <3>2 DEF NamedOn
  <2>3. CASE ~config.hello
    <3>1. wire'[s] = <<>>
      BY <2>1, <2>3
    <3> QED
      BY <1>1, <1>2, <2>3, <3>1 DEF NamedOn
  <2> QED
    BY <2>2, <2>3
<1>4. CASE s # session + 1
  <2>1. wire'[s] = wire[s] /\ link'[s] = link[s]
    BY <1>1, <1>4 DEF Sound, TypeOK
  <2> QED
    BY <1>1, <1>2, <2>1 DEF NamedOn
<1> QED
  BY <1>3, <1>4

LEMMA TurnNamed ==
    ASSUME Sound, Named, Turn, UNCHANGED sinkVars
    PROVE  Named'
<1> SUFFICES ASSUME NEW s \in Sessions PROVE NamedOn(s)'
  BY DEF Named
<1>1. /\ UNCHANGED <<config, imei, link, session>> /\ dev = "on"
  BY TurnForm DEF Sound, sinkVars, TurnAs, Write
<1>2. PICK audio \in Seq(0 .. MaxBuilt - 1), report \in {<<>>, <<Stat>>} :
         TurnAs(audio, report)
  BY TurnForm DEF Sound
<1>3. NamedOn(s)
  BY DEF Named
<1>4. CASE wire'[s] = wire[s]
  BY <1>1, <1>3, <1>4 DEF NamedOn
<1>5. CASE wire'[s] # wire[s]
  <2> DEFINE w == wire[s]
             v == wire'[s]
  <2>1. link[s] = "up" /\ s = session /\ v = w \o Items(audio, report) /\ w \in Seq(Frames)
    BY <1>2, <1>5 DEF TurnAs, Write, Sound, TypeOK
  <2> HIDE DEF v, w
  <2>2. Follows(v, w, audio)
    BY <2>1, WrittenFacts
  <2>3. CASE config.hello
    <3>1. w # <<>> /\ w[1] = Hello => v # <<>> /\ v[1] = Hello
      <4> SUFFICES ASSUME w # <<>>, w[1] = Hello PROVE v # <<>> /\ v[1] = Hello
        OBVIOUS
      <4>1. 1 \in DOMAIN w
        BY <2>1
      <4>2. 1 \in DOMAIN v /\ v[1] = w[1]
        BY <2>2, <4>1 DEF Follows
      <4> QED
        BY <4>2
    <3> QED
      BY <1>1, <1>3, <2>1, <2>3, <3>1 DEF NamedOn, v, w
  <2>4. CASE ~config.hello
    <3>1. \A i \in DOMAIN w : w[i] # Hello
      BY <1>3, <2>4 DEF NamedOn, w
    <3>2. \A i \in DOMAIN v : v[i] # Hello
      BY <2>2, <3>1 DEF Follows
    <3> QED
      BY <1>1, <1>3, <2>4, <3>2 DEF NamedOn, v
  <2> QED
    BY <2>3, <2>4
<1> QED
  BY <1>4, <1>5

LEMMA EndsNamed ==
    ASSUME Sound, Named, Over \/ Fail \/ Stop, UNCHANGED sinkVars
    PROVE  Named'
<1> SUFFICES ASSUME NEW s \in Sessions PROVE NamedOn(s)'
  BY DEF Named
<1>1. wire' = wire /\ config' = config /\ imei' = imei
  BY DEF Over, Fail, Stop, CloseLink, linkVars, sinkVars
<1>2. link'[s] = "up" => link[s] = "up"
  BY DEF Over, Fail, Stop, CloseLink, linkVars, Sound, TypeOK
<1> QED
  BY <1>1, <1>2 DEF Named, NamedOn

LEMMA HandleNamed ==
    ASSUME Sound, Named, NEW s \in Sessions, Handle(s), UNCHANGED deviceVars
    PROVE  /\ Named'
           /\ wire[s][1].kind = "audio" =>
                 imei[s] = IF config.hello THEN "imei" ELSE "unknown"
<1> DEFINE f == wire[s][1]
           id == IF f = Hello THEN "imei" ELSE imei[s]
<1>1. wire[s] \in Seq(Frames) /\ wire[s] # <<>>
  BY DEF Sound, TypeOK, Handle
<1>2. Head(wire[s]) = f /\ 1 \in DOMAIN wire[s]
  BY <1>1, TailFacts
<1>3. imei' = [imei EXCEPT ![s] = id] /\ wire' = [wire EXCEPT ![s] = Tail(@)]
  BY <1>2 DEF Handle
<1>4. UNCHANGED <<config, link>>
  BY DEF Handle, deviceVars
<1>5. IF config.hello THEN f = Hello \/ imei[s] = "imei"
                      ELSE f # Hello /\ imei[s] = "unknown"
  BY <1>1, <1>2 DEF Named, NamedOn
<1>6. f.kind = "audio" => f # Hello
  BY DEF Hello
<1>7. Named'
  <2> SUFFICES ASSUME NEW t \in Sessions PROVE NamedOn(t)'
    BY DEF Named
  <2>1. NamedOn(t) /\ NamedOn(s)
    BY DEF Named
  <2>2. CASE t # s
    <3>1. wire'[t] = wire[t] /\ imei'[t] = imei[t]
      BY <1>3, <2>2 DEF Sound, TypeOK
    <3> QED
      BY <1>4, <2>1, <3>1 DEF NamedOn
  <2>3. CASE t = s
    <3>1. wire'[s] = Tail(wire[s]) /\ imei'[s] = id
      BY <1>3 DEF Sound, TypeOK
    <3>2. \A i \in DOMAIN wire'[s] : i + 1 \in DOMAIN wire[s] /\ wire'[s][i] = wire[s][i + 1]
      BY <1>1, <3>1, TailFacts
    <3> QED
      BY <1>4, <1>5, <2>1, <2>3, <3>1, <3>2 DEF NamedOn
  <2> QED
    BY <2>2, <2>3
<1> QED
  BY <1>5, <1>6, <1>7

LEMMA EndOfLinkNamed ==
    ASSUME Sound, Named, NEW s \in Sessions, UNCHANGED deviceVars,
           Hangup(s) \/ Timeout(s) \/ (Break(s) /\ UNCHANGED sinkVars)
    PROVE  Named'
<1> SUFFICES ASSUME NEW t \in Sessions PROVE NamedOn(t)'
  BY DEF Named
<1>1. NamedOn(t) /\ UNCHANGED <<config, imei>>
  BY DEF Named, Hangup, Timeout, deviceVars, sinkVars
<1>2. link'[t] = "up" => link[t] = "up"
  BY DEF Hangup, Timeout, Break, linkVars, Sound, TypeOK
<1>3. CASE wire'[t] = wire[t]
  BY <1>1, <1>2, <1>3 DEF NamedOn
<1>4. CASE wire'[t] # wire[t]
  <2>1. Break(s) /\ s = t
    BY <1>4 DEF Hangup, Timeout, Break, linkVars, Sound, TypeOK
  <2> DEFINE w == wire[s]
             v == wire'[s]
  <2>2. PICK k \in 0 .. Len(w) : v = SubSeq(w, 1, k)
    BY <2>1 DEF Break, Sound, TypeOK
  <2>3. w \in Seq(Frames) /\ link'[s] = "dead"
    BY <2>1 DEF Break, Sound, TypeOK
  <2> HIDE DEF w, v
  <2>4. /\ \A i \in DOMAIN v : i \in DOMAIN w /\ v[i] = w[i]
        /\ v # <<>> => w # <<>> /\ v[1] = w[1]
    <3>1. v \in Seq(Frames) /\ Len(v) = k /\ Len(w) \in Nat
      BY ONLY <2>2, <2>3
    <3>2. \A i \in 1 .. k : i \in 1 .. Len(w) /\ v[i] = w[i]
      BY ONLY <2>2, <2>3
    <3> QED
      BY <2>3, <3>1, <3>2
  <2>5. config.hello /\ w = <<>> => v = <<>>
    BY <2>4
  <2> QED
    BY <1>1, <2>1, <2>3, <2>4, <2>5 DEF NamedOn, v, w
<1> QED
  BY <1>3, <1>4

-----------------------------------------------------------------------------
LEMMA Remainder ==
    ASSUME NEW w \in Nat \ {0}, NEW x \in Int
    PROVE  /\ x % w \in 0 .. w - 1 /\ x \div w \in Int
           /\ x = (x % w) + (x \div w) * w
<1>1. x % w \in 0 .. w - 1
  OBVIOUS
<1>2. x \div w \in Int
  OBVIOUS
<1>3. x = (x % w) + (x \div w) * w
  OBVIOUS
<1> QED
  BY <1>1, <1>2, <1>3

(* Remainders that differ by a multiple of the divisor are the same.       *)
LEMMA SameRemainder ==
    ASSUME NEW w \in Nat \ {0}, NEW x \in Int, NEW m \in Int, NEW y \in 0 .. w - 1,
           x = y + m * w
    PROVE  x % w = y
<1>1. x % w \in 0 .. w - 1 /\ x \div w \in Int /\ x = (x % w) + (x \div w) * w
  BY Remainder
<1> DEFINE q == x \div w
           r == x % w
<1>2. (m - q) * w = r - y
  <2>1. (m - q) * w = m * w - q * w
    BY <1>1
  <2>2. m * w \in Int /\ q * w \in Int
    BY <1>1
  <2> QED
    BY <1>1, <2>1, <2>2
<1> HIDE DEF q, r
<1>3. r \in 0 .. w - 1 /\ q \in Int
  BY <1>1 DEF q, r
<1>4. m - q = 0
  BY <1>2, <1>3, Multiples
<1>5. r = y
  BY <1>2, <1>3, <1>4
<1> QED
  BY <1>5 DEF r

LEMMA Half ==
    SeqSpace \div 2 \in Nat \ {0} /\ SeqSpace = 2 * (SeqSpace \div 2)
OBVIOUS

(* The gap of a frame near the newest: how far it is ahead, less one; or,  *)
(* for one that is late, half the numbers or more.                         *)
LEMMA GapOfNear ==
    ASSUME NEW n \in Nat, NEW top \in Nat, n # top,
           n - top \in 1 - (SeqSpace \div 2) .. SeqSpace \div 2,
           NEW d \in DeviceStats, d.last = top % SeqSpace
    PROVE  /\ n > top => Gap(d, Seq16(n)) = n - top - 1 /\ n - top - 1 < SeqSpace \div 2
           /\ n < top => Gap(d, Seq16(n)) >= SeqSpace \div 2
<1> DEFINE a == n \div SeqSpace
           b == top \div SeqSpace
           h == SeqSpace \div 2
           u == n % SeqSpace
           v == top % SeqSpace
           x == u - v - 1
<1>1. /\ a \in Int /\ u \in 0 .. SeqSpace - 1 /\ n = u + a * SeqSpace
      /\ b \in Int /\ v \in 0 .. SeqSpace - 1 /\ top = v + b * SeqSpace
  <2>1. a \in Int /\ u \in 0 .. SeqSpace - 1 /\ n = u + a * SeqSpace
    BY Remainder, n \in Int
  <2>2. b \in Int /\ v \in 0 .. SeqSpace - 1 /\ top = v + b * SeqSpace
    BY Remainder, top \in Int
  <2> QED
    BY <2>1, <2>2
<1>2. Gap(d, Seq16(n)) = x % SeqSpace /\ x = u - v - 1
  <2>1. Seq16(n) = u
    BY Zenon DEF Seq16
  <2>2. d.last = v
    OBVIOUS
  <2> HIDE DEF u, v
  <2>3. x = u - v - 1
    OBVIOUS
  <2> HIDE DEF x
  <2> QED
    BY <2>1, <2>2, <2>3 DEF Gap
<1> HIDE DEF x
<1>3. h \in Nat \ {0} /\ SeqSpace = 2 * h
  BY Half
<1> HIDE DEF a, b, h, u, v
<1>4. \A c \in Int : c * SeqSpace \in Int
  OBVIOUS
<1>5. x = (n - top - 1) + (b - a) * SeqSpace /\ x \in Int
  <2>1. (b - a) * SeqSpace = b * SeqSpace - a * SeqSpace
    BY <1>1
  <2> DEFINE aS == a * SeqSpace
             bS == b * SeqSpace
  <2>2. aS \in Int /\ bS \in Int
    BY <1>1, <1>4
  <2>3. n = u + aS /\ top = v + bS /\ (b - a) * SeqSpace = bS - aS
    BY <1>1, <2>1
  <2> HIDE DEF aS, bS
  <2> QED
    BY <1>1, <1>2, <2>2, <2>3
<1>6. CASE n > top
  <2>1. n - top - 1 \in 0 .. SeqSpace - 1 /\ n - top - 1 < h
    BY <1>3, <1>6 DEF h
  <2>2. x % SeqSpace = n - top - 1
    <3> DEFINE y == n - top - 1
               c == b - a
    <3>1. x = y + c * SeqSpace /\ c \in Int /\ y \in 0 .. SeqSpace - 1 /\ x \in Int
      BY <1>1, <1>5, <2>1
    <3> HIDE DEF y, c
    <3>2. x % SeqSpace = y
      BY <3>1, SameRemainder
    <3> QED
      BY <3>2 DEF y
  <2> QED
    BY <1>2, <1>6, <2>1, <2>2 DEF h
<1>7. CASE n < top
  <2> DEFINE y == n - top - 1 + SeqSpace
             c == b - a - 1
  <2>1. y \in 0 .. SeqSpace - 1 /\ y >= h
    BY <1>3, <1>7 DEF h
  <2>2. x = y + c * SeqSpace
    <3>1. c * SeqSpace = (b - a) * SeqSpace - SeqSpace
      BY <1>1
    <3>2. (b - a) * SeqSpace \in Int
      BY <1>1, <1>4
    <3> DEFINE e == (b - a) * SeqSpace
               g == c * SeqSpace
    <3>3. e \in Int /\ g = e - SeqSpace /\ x = (n - top - 1) + e
      BY <1>5, <3>1, <3>2
    <3> HIDE DEF e, g
    <3>4. x = y + g
      BY <3>3
    <3> QED
      BY <3>4 DEF g
  <2>3. c \in Int
    BY <1>1
  <2> HIDE DEF y, c
  <2>4. x % SeqSpace = y
    BY <1>5, <2>1, <2>2, <2>3, SameRemainder
  <2> QED
    BY <1>2, <1>7, <2>1, <2>4 DEF h
<1> QED
  BY <1>6, <1>7

LEMMA MaxIs ==
    ASSUME NEW S \in SUBSET Int, NEW x \in S, \A y \in S : y <= x
    PROVE  Max(S) = x
<1>1. \A z \in S : (\A y \in S : z >= y) => z = x
  OBVIOUS
<1>2. \A y \in S : x >= y
  OBVIOUS
<1> QED
  BY <1>1, <1>2 DEF Max

-----------------------------------------------------------------------------
LEMMA GotTyped ==
    ASSUME TypeOK
    PROVE  /\ Len(got) \in Nat /\ DOMAIN got = 1 .. Len(got)
           /\ \A i \in 1 .. Len(got) : got[i].s \in Sessions /\ got[i].n \in Nat
<1>1. got \in Seq([s : Sessions, n : 0 .. MaxBuilt - 1])
  BY DEF TypeOK
<1>2. Len(got) \in Nat /\ DOMAIN got = 1 .. Len(got)
  BY <1>1
<1>3. \A i \in 1 .. Len(got) : got[i] \in [s : Sessions, n : 0 .. MaxBuilt - 1]
  <2> DEFINE F == [s : Sessions, n : 0 .. MaxBuilt - 1]
  <2>1. got \in Seq(F)
    BY <1>1
  <2> HIDE DEF F
  <2>2. \A i \in 1 .. Len(got) : got[i] \in F
    BY <2>1
  <2> QED
    BY <2>2 DEF F
<1>4. 0 .. MaxBuilt - 1 \subseteq Nat
  OBVIOUS
<1> QED
  BY <1>2, <1>3, <1>4

(* The newest of the first k frames read.                                  *)
LEMMA TopFacts ==
    ASSUME TypeOK, HasTop, NEW k \in 1 .. Len(got)
    PROVE  LET S == {got[j].n : j \in 1 .. k} IN
           /\ Max(S) \in S /\ Max(S) \in Nat
           /\ \A j \in 1 .. k : got[j].n \in Nat /\ got[j].n <= Max(S)
<1> DEFINE S == {got[j].n : j \in 1 .. k}
<1>1. PICK t \in 1 .. k : \A j \in 1 .. k : got[j].n <= got[t].n
  BY DEF HasTop
<1>2. \A j \in 1 .. k : j \in DOMAIN got /\ got[j].n \in Nat
  BY GotTyped
<1>3. Max(S) = got[t].n
  <2>1. S \in SUBSET Int /\ got[t].n \in S /\ \A y \in S : y <= got[t].n
    BY <1>1, <1>2
  <2> HIDE DEF S
  <2> QED
    BY <2>1, MaxIs
<1>4. got[t].n \in S
  OBVIOUS
<1> QED
  BY <1>1, <1>2, <1>3, <1>4

LEMMA CountingStarts == Init => Counting
<1> SUFFICES ASSUME Init PROVE Counting
  OBVIOUS
<1>1. got = <<>> /\ Len(got) = 0
  BY DEF Init, SinkInit
<1>2. Fresh
  BY DEF Init, SinkInit, Fresh, Ours, Ids
<1> QED
  BY <1>1, <1>2 DEF Counting, HasTop, LossExact

(* What is not audio is not counted as such.                               *)
LEMMA CountingStays ==
    ASSUME Counting, config' = config, got' = got,
           \A id \in Ids : /\ seen'[id].frames = seen[id].frames
                           /\ seen'[id].reordered = seen[id].reordered
                           /\ seen'[id].lost = seen[id].lost
                           /\ seen'[id].last = seen[id].last
    PROVE  Counting'
<1>1. /\ Ours'.frames = Ours.frames /\ Ours'.reordered = Ours.reordered
      /\ Ours'.lost = Ours.lost /\ Ours'.last = Ours.last
  BY DEF Ours, Ids
<1>2. HasTop' = HasTop
  BY DEF HasTop
<1>3. Numbers' = Numbers
  BY DEF Numbers
<1>4. \A i : TopBefore(i)' = TopBefore(i)
  BY DEF TopBefore
<1>5. AllNear' = AllNear
  BY <1>4 DEF AllNear, Near
<1>6. Late' = Late
  BY <1>4 DEF Late
<1>7. Missing' = Missing
  BY <1>3 DEF Missing
<1> QED
  BY <1>1, <1>2, <1>3, <1>5, <1>6, <1>7 DEF Counting, LossExact, Fresh

(* No frame is read twice.                                                 *)
LEMMA FreshFrame ==
    ASSUME Sound, Replayed, NEW s \in Sessions, 1 \in AudioOn(s)
    PROVE  \A i \in DOMAIN got : got[i].n # wire[s][1].n
<1> SUFFICES ASSUME NEW i \in DOMAIN got PROVE got[i].n # wire[s][1].n
  OBVIOUS
<1> DEFINE t == got[i].s
<1>1. t \in Sessions /\ got[i].n \in Nat /\ i \in ReadOf(t)
  BY GotTyped DEF Sound, ReadOf
<1>2. got[i].n \in Arriving(t) /\ wire[s][1].n \in Arriving(s)
  BY <1>1 DEF Arriving
<1>3. ReplayedOn(s) /\ ReplayedOn(t)
  BY <1>1 DEF Replayed
<1>4. got[i].n \in kept[t] /\ wire[s][1].n \in kept[s]
  BY <1>2, <1>3 DEF ReplayedOn
<1>5. CASE t = s
  <2>1. got[i].n < wire[s][1].n
    BY <1>1, <1>3, <1>5 DEF ReplayedOn
  <2> QED
    BY <1>1, <2>1
<1>6. CASE t # s
  <2>1. kept[t] \cap kept[s] = {}
    BY <1>1, <1>6 DEF Sound, SessionsSound
  <2> QED
    BY <1>4, <2>1
<1> QED
  BY <1>5, <1>6

(* A frame is read after the others.                                       *)
Reads(n) ==
    /\ Len(got') = Len(got) + 1 /\ DOMAIN got' = 1 .. Len(got) + 1
    /\ \A i \in 1 .. Len(got) : got'[i] = got[i]
    /\ got'[Len(got) + 1].n = n
    /\ \A i \in 1 .. Len(got) : got[i].n # n

LEMMA ReadsTop ==
    ASSUME TypeOK, HasTop, NEW n \in Nat, Reads(n)
    PROVE  /\ HasTop'
           /\ \A i \in 1 .. Len(got) + 1 : TopBefore(i)' = TopBefore(i)
           /\ Numbers' = Numbers \union {n}
           /\ AllNear' => AllNear
<1> DEFINE l == Len(got)
<1>1. /\ l \in Nat /\ DOMAIN got = 1 .. l
      /\ \A i \in 1 .. l : got[i].n \in Nat
  BY GotTyped
<1>2. /\ Len(got') = l + 1 /\ DOMAIN got' = 1 .. l + 1
      /\ \A i \in 1 .. l : got'[i] = got[i]
      /\ got'[l + 1].n = n
  BY DEF Reads
<1> HIDE DEF l
<1>3. ASSUME NEW i \in 1 .. l + 1
      PROVE  TopBefore(i)' = TopBefore(i)
  <2>1. TopBefore(i)' = Max({got'[j].n : j \in 1 .. i - 1})
    BY DEF TopBefore
  <2>2. \A j \in 1 .. i - 1 : got'[j] = got[j]
    BY <1>1, <1>2
  <2>3. {got'[j].n : j \in 1 .. i - 1} = {got[j].n : j \in 1 .. i - 1}
    BY <2>2
  <2> QED
    BY <2>1, <2>3 DEF TopBefore
<1>4. Numbers' = Numbers \union {n}
  <2>1. DOMAIN got' = DOMAIN got \union {l + 1}
    BY <1>1, <1>2
  <2>2. Numbers' = {got'[i].n : i \in DOMAIN got} \union {got'[l + 1].n}
    BY <2>1 DEF Numbers
  <2>3. {got'[i].n : i \in DOMAIN got} = Numbers
    BY <1>1, <1>2 DEF Numbers
  <2> QED
    BY <1>2, <2>2, <2>3
<1>5. AllNear' => AllNear
  <2> SUFFICES ASSUME AllNear', NEW i \in 2 .. l PROVE Near(i)
    BY DEF AllNear, l
  <2>1. i \in 2 .. Len(got') /\ i \in 1 .. l + 1 /\ i \in 1 .. l
    BY <1>1, <1>2
  <2>2. Near(i)'
    BY <2>1 DEF AllNear
  <2> QED
    BY <1>2, <1>3, <2>1, <2>2 DEF Near
<1>6. HasTop'
  <2> SUFFICES ASSUME NEW i \in 1 .. l + 1
               PROVE  \E j \in 1 .. i : \A k \in 1 .. i : got'[k].n <= got'[j].n
    BY <1>2 DEF HasTop
  <2>1. CASE i # l + 1
    <3>1. i \in 1 .. l
      BY <1>1, <2>1
    <3>2. PICK j \in 1 .. i : \A k \in 1 .. i : got[k].n <= got[j].n
      BY <3>1 DEF HasTop, l
    <3>3. \A k \in 1 .. i : got'[k] = got[k]
      BY <1>1, <1>2, <3>1
    <3> QED
      BY <3>2, <3>3
  <2>2. CASE i = l + 1 /\ l = 0
    BY <1>2, <2>2
  <2>3. CASE i = l + 1 /\ l # 0
    <3>1. l \in 1 .. l
      BY <1>1, <2>3
    <3>2. PICK j \in 1 .. l : \A k \in 1 .. l : got[k].n <= got[j].n
      BY <3>1 DEF HasTop, l
    <3>3. CASE n <= got[j].n
      <4>1. j \in 1 .. i /\ got'[j].n = got[j].n
        BY <1>1, <1>2, <2>3
      <4>2. \A k \in 1 .. i : got'[k].n <= got[j].n
        BY <1>1, <1>2, <2>3, <3>2, <3>3
      <4> QED
        BY <4>1, <4>2
    <3>4. CASE got[j].n < n
      <4>1. \A k \in 1 .. l : got[k].n <= n
        BY <1>1, <3>2, <3>4
      <4>2. \A k \in 1 .. i : got'[k].n <= got'[i].n
        BY <1>1, <1>2, <2>3, <4>1
      <4> QED
        BY <1>1, <2>3, <4>2
    <3> QED
      BY <1>1, <3>3, <3>4
  <2> QED
    BY <2>1, <2>2, <2>3
<1> QED
  BY <1>3, <1>4, <1>5, <1>6 DEF l

(* What a frame does to the counts: the first, one ahead of the newest,    *)
(* and one that is late.                                                   *)
LEMMA Noted ==
    ASSUME NEW d \in DeviceStats, NEW n \in Nat, NEW top \in Nat, n # top,
           d.last = None \/ ( /\ d.last = top % SeqSpace
                              /\ n - top \in 1 - (SeqSpace \div 2) .. SeqSpace \div 2 )
    PROVE  LET e == NoteSeq([d EXCEPT !.frames = @ + 1], Seq16(n)) IN
           /\ e.frames = d.frames + 1
           /\ d.last = None \/ n > top => e.reordered = d.reordered /\ e.last = n % SeqSpace
           /\ d.last = None => e.lost = d.lost
           /\ d.last # None /\ n > top => e.lost = d.lost + (n - top - 1)
           /\ d.last # None /\ n < top =>
                 e.reordered = d.reordered + 1 /\ e.lost = d.lost /\ e.last = d.last
<1> DEFINE c == [d EXCEPT !.frames = @ + 1]
           q == Seq16(n)
           g == Gap(c, q)
           e == NoteSeq(c, q)
<1>1. /\ c \in DeviceStats /\ c.frames = d.frames + 1 /\ c.last = d.last
      /\ c.lost = d.lost /\ c.reordered = d.reordered
      /\ d.lost \in Nat /\ d.frames \in Nat /\ d.reordered \in Nat
  BY DEF DeviceStats
<1>2. q = n % SeqSpace
  BY DEF Seq16
<1>3. SeqSpace \div 2 \in Nat \ {0}
  BY Half
<1>4. /\ [c EXCEPT !.last = q].frames = c.frames
      /\ [c EXCEPT !.last = q].reordered = c.reordered
      /\ [c EXCEPT !.last = q].lost = c.lost
      /\ [c EXCEPT !.last = q].last = q
  BY <1>1 DEF DeviceStats
<1>5. /\ [c EXCEPT !.last = q, !.lost = @ + g].frames = c.frames
      /\ [c EXCEPT !.last = q, !.lost = @ + g].reordered = c.reordered
      /\ [c EXCEPT !.last = q, !.lost = @ + g].lost = c.lost + g
      /\ [c EXCEPT !.last = q, !.lost = @ + g].last = q
  BY <1>1 DEF DeviceStats
<1>6. /\ [c EXCEPT !.reordered = @ + 1].frames = c.frames
      /\ [c EXCEPT !.reordered = @ + 1].reordered = c.reordered + 1
      /\ [c EXCEPT !.reordered = @ + 1].lost = c.lost
      /\ [c EXCEPT !.reordered = @ + 1].last = c.last
  BY <1>1 DEF DeviceStats
<1>7. e = IF c.last = None \/ g = 0 THEN [c EXCEPT !.last = q]
          ELSE IF g < SeqSpace \div 2 THEN [c EXCEPT !.last = q, !.lost = @ + g]
          ELSE [c EXCEPT !.reordered = @ + 1]
  BY DEF NoteSeq
<1>8. d.last # None =>
         /\ n > top => g = n - top - 1 /\ n - top - 1 < SeqSpace \div 2
         /\ n < top => g >= SeqSpace \div 2
  BY <1>1, GapOfNear
<1> DEFINE h == SeqSpace \div 2
<1> HIDE DEF c, q, g, e, h
<1>9. CASE d.last = None
  <2>1. e = [c EXCEPT !.last = q]
    BY <1>1, <1>7, <1>9
  <2> QED
    BY <1>1, <1>2, <1>4, <1>9, <2>1 DEF e, c, q
<1>10. CASE d.last # None /\ n > top
  <2>1. g = n - top - 1 /\ g < h /\ g \in Nat
    BY <1>8, <1>10 DEF h
  <2>2. \/ e = [c EXCEPT !.last = q] /\ g = 0
        \/ e = [c EXCEPT !.last = q, !.lost = @ + g]
    BY <1>1, <1>7, <1>10, <2>1 DEF h
  <2>3. e.frames = c.frames /\ e.reordered = c.reordered /\ e.lost = c.lost + g /\ e.last = q
    <3>1. CASE e = [c EXCEPT !.last = q] /\ g = 0
      BY <1>1, <1>4, <3>1
    <3>2. CASE e = [c EXCEPT !.last = q, !.lost = @ + g]
      BY <1>5, <3>2
    <3> QED
      BY <2>2, <3>1, <3>2
  <2> QED
    BY <1>1, <1>2, <1>10, <2>1, <2>3 DEF e, c, q
<1>11. CASE d.last # None /\ n < top
  <2>1. g >= h /\ h \in Nat \ {0}
    BY <1>3, <1>8, <1>11 DEF h
  <2>2. g \in Int
    BY <1>1, <1>2, SeqTyped DEF g, q
  <2>3. g # 0 /\ ~(g < h)
    BY <2>1, <2>2
  <2>4. e = [c EXCEPT !.reordered = @ + 1]
    BY <1>1, <1>7, <1>11, <2>3 DEF h
  <2>5. /\ e.frames = d.frames + 1 /\ e.reordered = d.reordered + 1
        /\ e.lost = d.lost /\ e.last = d.last
    BY <1>1, <1>6, <2>4
  <2>6. ~(n > top)
    BY <1>11
  <2> QED
    BY <1>11, <2>5, <2>6 DEF e, c, q
<1> QED
  BY <1>9, <1>10, <1>11

LEMMA FirstCounted ==
    ASSUME TypeOK, Counting, NEW n \in Nat, Reads(n), got = <<>>,
           Ours' = NoteSeq([Ours EXCEPT !.frames = @ + 1], Seq16(n)), Ours \in DeviceStats
    PROVE  Counting'
<1>1. Fresh /\ HasTop /\ Len(got) = 0
  BY DEF Counting
<1>2. HasTop'
  BY <1>1, ReadsTop
<1>3. Len(got') = 1 /\ DOMAIN got' = 1 .. 1 /\ got'[1].n = n /\ got' # <<>>
  <2>1. Len(got') = 1 /\ DOMAIN got' = 1 .. 1 /\ got'[1].n = n
    BY <1>1 DEF Reads
  <2>2. Len(<<>>) = 0
    OBVIOUS
  <2>3. got' # <<>>
    <3>1. Len(got') = 1 /\ 0 # 1
      BY <2>1
    <3> QED
      BY ONLY <2>2, <3>1
  <2> QED
    BY <2>1, <2>3
<1>4. Numbers' = {n}
  <2>1. Numbers = {}
    BY DEF Numbers
  <2> QED
    BY <1>1, <2>1, ReadsTop
<1>5. Max(Numbers)' = n
  <2> DEFINE S == {n}
  <2>1. S \in SUBSET Int /\ n \in S /\ \A y \in S : y <= n
    OBVIOUS
  <2>2. Numbers' = S
    BY <1>4
  <2> HIDE DEF S
  <2>3. Max(S) = n
    BY <2>1, MaxIs
  <2> QED
    BY <2>2, <2>3
<1>6. Missing' = {}
  <2>1. Missing' = (n .. n) \ {n}
    BY <1>3, <1>4, <1>5 DEF Missing
  <2> QED
    BY <2>1
<1>7. Late' = {}
  BY <1>3 DEF Late
<1>8. {i \in Late' : got'[i].n > got'[1].n} = {}
  BY <1>7
<1>9. /\ Ours'.frames = 1 /\ Ours'.reordered = 0 /\ Ours'.lost = 0
      /\ Ours'.last = n % SeqSpace
  <2>1. n # n + 1 /\ n + 1 \in Nat /\ Ours.last = None
    BY <1>1 DEF Fresh
  <2>2. /\ Ours'.frames = Ours.frames + 1 /\ Ours'.reordered = Ours.reordered
        /\ Ours'.lost = Ours.lost /\ Ours'.last = n % SeqSpace
    BY <2>1, Noted
  <2> QED
    BY <1>1, <2>2 DEF Fresh
<1>10. Cardinality({}) = 0
  BY FS_EmptySet
<1> QED
  BY <1>2, <1>3, <1>5, <1>6, <1>7, <1>8, <1>9, <1>10 DEF Counting, LossExact

(* The newest before the next frame.                                       *)
LEMMA TopOfAll ==
    ASSUME TypeOK, HasTop, got # <<>>
    PROVE  /\ Len(got) \in Nat \ {0} /\ DOMAIN got = 1 .. Len(got)
           /\ TopBefore(Len(got) + 1) = Max(Numbers)
           /\ Max(Numbers) \in Nat /\ Max(Numbers) \in Numbers /\ Numbers \subseteq Nat
           /\ \A m \in Numbers : m <= Max(Numbers)
           /\ \A i \in 1 .. Len(got) : got[i].n \in Numbers
<1> DEFINE l == Len(got)
           S == {got[j].n : j \in 1 .. l}
<1>1. /\ l \in Nat /\ DOMAIN got = 1 .. l
      /\ \A i \in 1 .. l : got[i].n \in Nat
  BY GotTyped
<1>2. l # 0
  BY <1>1 DEF TypeOK
<1>3. Numbers = S
  BY <1>1 DEF Numbers
<1>4. l \in 1 .. l /\ (l + 1) - 1 = l
  BY <1>1, <1>2
<1>5. /\ Max(S) \in S /\ Max(S) \in Nat
      /\ \A j \in 1 .. l : got[j].n \in Nat /\ got[j].n <= Max(S)
  BY <1>4, TopFacts
<1>6. TopBefore(l + 1) = Max(S)
  BY <1>4 DEF TopBefore
<1>7. (\A m \in S : m <= Max(S)) /\ S \subseteq Nat
  BY <1>5
<1>8. \A i \in 1 .. l : got[i].n \in S
  OBVIOUS
<1> HIDE DEF S
<1> QED
  BY <1>1, <1>2, <1>3, <1>5, <1>6, <1>7, <1>8

LEMMA MissingFinite ==
    ASSUME NEW N, NEW a \in Nat, NEW b \in Nat
    PROVE  IsFiniteSet((a .. b) \ N) /\ Cardinality((a .. b) \ N) \in Nat
<1>1. IsFiniteSet(a .. b)
  BY FS_Interval
<1>2. IsFiniteSet((a .. b) \ N)
  BY <1>1, FS_Difference
<1> QED
  BY <1>2, FS_CardinalityType

(* Missing are now those between the old and the new newest, too.          *)
LEMMA MoreMissing ==
    ASSUME NEW N \in SUBSET Nat, NEW first \in Nat, NEW top \in Nat, NEW n \in Nat,
           first <= top, top < n, \A m \in N : m <= top
    PROVE  Cardinality((first .. n) \ (N \union {n}))
              = Cardinality((first .. top) \ N) + (n - top - 1)
<1> DEFINE A == (first .. top) \ N
           B == top + 1 .. n - 1
<1>1. IsFiniteSet(A) /\ Cardinality(A) \in Nat
  BY MissingFinite
<1>2. IsFiniteSet(B) /\ Cardinality(B) = n - top - 1
  <2>1. IsFiniteSet(B) /\ Cardinality(B) = IF top + 1 > n - 1 THEN 0 ELSE (n - 1) - (top + 1) + 1
    BY FS_Interval
  <2> QED
    BY <2>1
<1>3. A \cap B = {}
  OBVIOUS
<1>4. (first .. n) \ (N \union {n}) = A \union B
  OBVIOUS
<1> HIDE DEF A, B
<1>5. Cardinality(A \union B) = Cardinality(A) + Cardinality(B) - Cardinality({})
  BY <1>1, <1>2, <1>3, FS_Union
<1>6. Cardinality({}) = 0
  BY FS_EmptySet
<1> DEFINE a == Cardinality(A)
<1>7. a \in Nat
  BY <1>1
<1> HIDE DEF a
<1>8. Cardinality(A \union B) = a + (n - top - 1)
  BY <1>2, <1>5, <1>6, <1>7 DEF a
<1> QED
  BY <1>4, <1>8 DEF A, a

(* One that came late after all is not missing any more.                   *)
LEMMA OneLessMissing ==
    ASSUME NEW N \in SUBSET Nat, NEW first \in Nat, NEW top \in Nat, NEW n \in Nat,
           first < n, n < top, n \notin N
    PROVE  Cardinality((first .. top) \ (N \union {n}))
              = Cardinality((first .. top) \ N) - 1
<1> DEFINE A == (first .. top) \ N
<1>1. IsFiniteSet(A)
  BY MissingFinite
<1>2. n \in A /\ (first .. top) \ (N \union {n}) = A \ {n}
  OBVIOUS
<1> HIDE DEF A
<1>3. Cardinality(A \ {n}) = Cardinality(A) - 1
  BY <1>1, <1>2, FS_RemoveElement
<1> QED
  BY <1>2, <1>3 DEF A

LEMMA OneMore ==
    ASSUME NEW l \in Nat, NEW S \in SUBSET (1 .. l)
    PROVE  /\ IsFiniteSet(S) /\ Cardinality(S) \in Nat
           /\ Cardinality(S \union {l + 1}) = Cardinality(S) + 1
<1>1. IsFiniteSet(1 .. l)
  BY FS_Interval
<1>2. IsFiniteSet(S)
  BY <1>1, FS_Subset
<1>3. l + 1 \notin S
  OBVIOUS
<1> QED
  BY <1>2, <1>3, FS_AddElement, FS_CardinalityType

LEMMA NextCounted ==
    ASSUME TypeOK, Counting, NEW n \in Nat, Reads(n), got # <<>>,
           Ours' = NoteSeq([Ours EXCEPT !.frames = @ + 1], Seq16(n)), Ours \in DeviceStats
    PROVE  Counting'
<1> DEFINE l == Len(got)
           top == Max(Numbers)
           first == got[1].n
           after == {i \in Late : got[i].n > got[1].n}
<1>1. /\ HasTop /\ HasTop'
      /\ \A i \in 1 .. l + 1 : TopBefore(i)' = TopBefore(i)
      /\ Numbers' = Numbers \union {n}
      /\ AllNear' => AllNear
  BY ReadsTop DEF Counting
<1>2. /\ l \in Nat \ {0} /\ DOMAIN got = 1 .. l
      /\ TopBefore(l + 1) = top
      /\ top \in Nat /\ top \in Numbers /\ Numbers \subseteq Nat
      /\ \A m \in Numbers : m <= top
      /\ \A i \in 1 .. l : got[i].n \in Numbers
  BY <1>1, TopOfAll
<1>0. PICK k : k = l + 1
  OBVIOUS
<1>3. /\ Len(got') = k /\ DOMAIN got' = 1 .. k
      /\ \A i \in 1 .. l : got'[i] = got[i] /\ got[i].n # n
      /\ got'[k].n = n /\ TopBefore(k)' = top
  <2>1. TopBefore(k)' = TopBefore(k)
    BY <1>0, <1>1, <1>2
  <2> QED
    BY <1>0, <1>2, <2>1 DEF Reads
<1>4. n \notin Numbers
  BY <1>2, <1>3 DEF Numbers
<1>5. 1 \in 1 .. l /\ got'[1].n = first /\ first \in Numbers /\ first \in Nat
  BY <1>2, <1>3
<1>6. got' # <<>>
  BY <1>3, <1>5 DEF Reads
<1> SUFFICES ASSUME AllNear' PROVE Counting'
  BY <1>1, <1>6 DEF Counting, LossExact
<1>7. /\ Ours.frames = l
      /\ Ours.reordered = Cardinality(Late)
      /\ Ours.lost = Cardinality(Missing) + Cardinality(after)
      /\ Ours.last = top % SeqSpace
  BY <1>1 DEF Counting, LossExact
<1>8. n - top \in 1 - (SeqSpace \div 2) .. SeqSpace \div 2
  <2>1. k \in 2 .. Len(got')
    BY <1>0, <1>2, <1>3
  <2>2. Near(k)'
    BY <2>1 DEF AllNear
  <2>3. got'[k].n - TopBefore(k)' \in 1 - (SeqSpace \div 2) .. SeqSpace \div 2
    BY <2>2 DEF Near
  <2> QED
    BY <1>3, <2>3
<1>9. n # top /\ n \in Int /\ top \in Int
  BY <1>2, <1>4
<1>10. Ours.last # None
  <2>1. top % SeqSpace \in 0 .. SeqSpace - 1
    BY <1>2
  <2> QED
    BY <1>7, <2>1 DEF None
<1>11. /\ Ours'.frames = Ours.frames + 1
       /\ n > top => /\ Ours'.reordered = Ours.reordered /\ Ours'.last = n % SeqSpace
                     /\ Ours'.lost = Ours.lost + (n - top - 1)
       /\ n < top => /\ Ours'.reordered = Ours.reordered + 1 /\ Ours'.lost = Ours.lost
                     /\ Ours'.last = Ours.last
  <2> DEFINE d == Ours
  <2>1. d \in DeviceStats /\ d.last = top % SeqSpace /\ d.last # None
        /\ Ours' = NoteSeq([d EXCEPT !.frames = @ + 1], Seq16(n))
    BY <1>7, <1>10
  <2> HIDE DEF d, top
  <2>2. /\ Ours'.frames = d.frames + 1
        /\ n > top => /\ Ours'.reordered = d.reordered /\ Ours'.last = n % SeqSpace
                      /\ Ours'.lost = d.lost + (n - top - 1)
        /\ n < top => /\ Ours'.reordered = d.reordered + 1 /\ Ours'.lost = d.lost
                      /\ Ours'.last = d.last
    <3>1. /\ n # top /\ top \in Nat /\ n \in Nat
          /\ n - top \in 1 - (SeqSpace \div 2) .. SeqSpace \div 2
      BY <1>2, <1>8, <1>9
    <3>2. LET e == NoteSeq([d EXCEPT !.frames = @ + 1], Seq16(n)) IN
          /\ e.frames = d.frames + 1
          /\ n > top => /\ e.reordered = d.reordered /\ e.last = n % SeqSpace
                        /\ e.lost = d.lost + (n - top - 1)
          /\ n < top => /\ e.reordered = d.reordered + 1 /\ e.lost = d.lost
                        /\ e.last = d.last
      BY ONLY <2>1, <3>1, Noted
    <3> QED
      BY <2>1, <3>2
  <2> QED
    BY <2>2 DEF d
<1> HIDE DEF l, top, first, after
<1>12. Late \subseteq 1 .. l /\ after \subseteq 1 .. l /\ after \subseteq Late
  BY DEF Late, after, l
<1>13. Late' = IF n < top THEN Late \union {k} ELSE Late
  <2>1. Late' = {i \in 2 .. k : got'[i].n < TopBefore(i)'}
    BY <1>3 DEF Late
  <2>2. \A i \in 2 .. l : i \in 1 .. l /\ i \in 1 .. l + 1 /\ i # l + 1
    BY <1>2
  <2>3. 2 .. k = (2 .. l) \union {k}
    BY <1>0, <1>2
  <2>4. \A i \in 2 .. l : got'[i].n < TopBefore(i)' <=> got[i].n < TopBefore(i)
    BY <1>1, <1>3, <2>2
  <2>5. got'[k].n < TopBefore(k)' <=> n < top
    BY <1>3
  <2>6. Late = {i \in 2 .. l : got[i].n < TopBefore(i)}
    BY DEF Late, l
  <2> QED
    BY <2>1, <2>3, <2>4, <2>5, <2>6
<1> DEFINE newAfter == {i \in Late' : got'[i].n > got'[1].n}
<1>14. newAfter = IF n < top /\ n > first THEN after \union {k} ELSE after
  <2>1. \A i \in Late : got'[i].n > got'[1].n <=> got[i].n > first
    BY <1>3, <1>5, <1>12
  <2>2. after = {i \in Late : got[i].n > first}
    BY DEF after, first
  <2>3. CASE n < top
    <3>1. got'[k].n > got'[1].n <=> n > first
      BY <1>3, <1>5
    <3> QED
      BY <1>13, <2>1, <2>2, <2>3, <3>1
  <2>4. CASE ~(n < top)
    BY <1>13, <2>1, <2>2, <2>4
  <2> QED
    BY <2>3, <2>4
<1>15. Max(Numbers)' = IF n < top THEN top ELSE n
  <2> DEFINE S == Numbers \union {n}
             x == IF n < top THEN top ELSE n
  <2>1. S \in SUBSET Int /\ x \in S /\ \A y \in S : y <= x
    BY <1>2, <1>9
  <2>2. Numbers' = S
    BY <1>1
  <2> HIDE DEF S, x
  <2>3. Max(S) = x
    BY <2>1, MaxIs
  <2> QED
    BY <2>2, <2>3 DEF x
<1>16. Missing' = (first .. IF n < top THEN top ELSE n) \ (Numbers \union {n})
  BY <1>1, <1>5, <1>15 DEF Missing
<1>17. Missing = (first .. top) \ Numbers
  BY DEF Missing, first, top
<1>18. /\ Cardinality(Late) \in Nat /\ Cardinality(after) \in Nat
       /\ Cardinality(Late \union {k}) = Cardinality(Late) + 1
       /\ Cardinality(after \union {k}) = Cardinality(after) + 1
  BY <1>0, <1>2, <1>12, OneMore
<1>19. Cardinality(Missing) \in Nat
  BY <1>2, <1>5, <1>17, MissingFinite
<1>20. first <= top /\ first # n
  BY <1>2, <1>4, <1>5
<1> HIDE DEF newAfter
<1>21. /\ Ours'.reordered = Cardinality(Late')
       /\ Ours'.lost = Cardinality(Missing') + Cardinality(newAfter)
       /\ Ours'.last = Max(Numbers)' % SeqSpace
  <2>1. CASE n > top
    <3>1. ~(n < top)
      BY <1>9, <2>1
    <3>2. Late' = Late /\ newAfter = after /\ Max(Numbers)' = n
      BY <1>13, <1>14, <1>15, <3>1
    <3>3. Cardinality(Missing') = Cardinality(Missing) + (n - top - 1)
      <4>1. Missing' = (first .. n) \ (Numbers \union {n})
        BY <1>16, <3>1
      <4> QED
        <5>1. top < n /\ Numbers \in SUBSET Nat /\ first \in Nat /\ top \in Nat
              /\ first <= top /\ \A m \in Numbers : m <= top
          BY <1>2, <1>5, <1>20, <2>1
        <5>2. Cardinality((first .. n) \ (Numbers \union {n}))
                 = Cardinality((first .. top) \ Numbers) + (n - top - 1)
          BY ONLY <5>1, MoreMissing, n \in Nat
        <5> QED
          BY ONLY <1>17, <4>1, <5>2
    <3>4. Ours'.lost = Cardinality(Missing') + Cardinality(after)
      <4> DEFINE m == Cardinality(Missing)
                 k1 == Cardinality(after)
      <4>1. Ours'.lost = (m + k1) + (n - top - 1)
        BY <1>7, <1>11, <2>1
      <4>2. m \in Nat /\ k1 \in Nat /\ Cardinality(Missing') = m + (n - top - 1)
        BY <1>18, <1>19, <3>3
      <4> HIDE DEF m, k1
      <4>3. (m + k1) + (n - top - 1) = (m + (n - top - 1)) + k1
        BY ONLY <1>9, <4>2
      <4> QED
        BY <4>1, <4>2, <4>3 DEF k1
    <3> QED
      BY <1>7, <1>11, <2>1, <3>2, <3>4
  <2>2. CASE n < top
    <3>1. Late' = Late \union {k} /\ Max(Numbers)' = top
      BY <1>13, <1>15, <2>2
    <3>2. Missing' = (first .. top) \ (Numbers \union {n})
      BY <1>16, <2>2
    <3>3. CASE n > first
      <4>1. newAfter = after \union {k}
        BY <1>14, <2>2, <3>3
      <4>2. Cardinality(Missing') = Cardinality(Missing) - 1
        BY <1>2, <1>4, <1>5, <1>17, <2>2, <3>2, <3>3, OneLessMissing
      <4>3. Ours'.lost = Cardinality(Missing') + Cardinality(newAfter)
        BY <1>7, <1>11, <1>18, <1>19, <2>2, <4>1, <4>2
      <4> QED
        BY <1>7, <1>11, <1>18, <2>2, <3>1, <4>3
    <3>4. CASE ~(n > first)
      <4>1. newAfter = after
        BY <1>14, <2>2, <3>4
      <4>2. Missing' = Missing
        <5>1. n \notin first .. top
          BY <1>5, <1>20, <3>4
        <5> QED
          BY <1>17, <3>2, <5>1
      <4> QED
        BY <1>7, <1>11, <1>18, <2>2, <3>1, <4>1, <4>2
    <3> QED
      BY <3>3, <3>4
  <2> QED
    BY <1>9, <2>1, <2>2
<1>22. Ours'.frames = Len(got')
  BY <1>0, <1>3, <1>7, <1>11
<1>23. LossExact'
  BY <1>21, <1>22 DEF LossExact, newAfter
<1> QED
  BY <1>1, <1>6, <1>21, <1>23 DEF Counting

-----------------------------------------------------------------------------
LEMMA HandleCounting ==
    ASSUME Sound, Replayed, Named, Counting,
           NEW s \in Sessions, Handle(s), UNCHANGED deviceVars
    PROVE  Counting'
<1> DEFINE f == wire[s][1]
           id == IF f = Hello THEN "imei" ELSE imei[s]
           ours == IF config.hello THEN "imei" ELSE "unknown"
<1>1. wire[s] \in Seq(Frames) /\ wire[s] # <<>>
  BY DEF Sound, TypeOK, Handle
<1>2. Head(wire[s]) = f /\ 1 \in DOMAIN wire[s] /\ f \in Frames
  BY <1>1, TailFacts
<1>3. /\ seen' = [seen EXCEPT ![id] = Counted(@, f)]
      /\ got' = IF f.kind = "audio" THEN Append(got, [s |-> s, n |-> f.n]) ELSE got
      /\ config' = config
  BY <1>2 DEF Handle, deviceVars
<1>4. /\ seen \in [Ids -> DeviceStats] /\ id \in Ids /\ ours \in Ids
      /\ got \in Seq([s : Sessions, n : 0 .. MaxBuilt - 1])
  BY DEF Sound, TypeOK, Ids
<1>5. CASE f.kind = "audio"
  <2>1. f # Hello /\ imei[s] = ours
    <3>1. imei[s] = ours
      BY <1>5, HandleNamed
    <3> QED
      BY <1>5, <3>1 DEF Hello
  <2>2. Counted(seen[ours], f) = NoteSeq([seen[ours] EXCEPT !.frames = @ + 1], Seq16(f.n))
    BY <1>5 DEF Counted
  <2>3. Ours = seen[ours] /\ Ours' = seen'[ours] /\ id = ours
    BY <1>3, <2>1 DEF Ours
  <2>4. Ours' = NoteSeq([Ours EXCEPT !.frames = @ + 1], Seq16(f.n)) /\ Ours \in DeviceStats
    <3> HIDE DEF f, id, ours
    <3>1. seen'[ours] = Counted(seen[ours], f)
      BY <1>3, <1>4, <2>3
    <3> QED
      BY <1>4, <2>2, <2>3, <3>1
  <2>5. f.n \in Nat
    BY <1>2, <1>5, FrameFacts
  <2>6. \A i \in DOMAIN got : got[i].n # f.n
    <3>1. 1 \in AudioOn(s)
      BY <1>2, <1>5 DEF AudioOn
    <3> QED
      BY <3>1, FreshFrame
  <2>7. Reads(f.n)
    <3> DEFINE r == [s |-> s, n |-> f.n]
               F == [s : Sessions, n : 0 .. MaxBuilt - 1]
    <3>1. got' = Append(got, r) /\ r.n = f.n /\ got \in Seq(F)
      BY <1>3, <1>4, <1>5
    <3> HIDE DEF r, F, f
    <3>2. /\ Len(got) \in Nat /\ DOMAIN got = 1 .. Len(got)
          /\ Len(got') = Len(got) + 1 /\ DOMAIN got' = 1 .. Len(got) + 1
          /\ \A i \in 1 .. Len(got) : got'[i] = got[i]
          /\ got'[Len(got) + 1] = r
      BY <3>1
    <3> QED
      BY <2>6, <3>1, <3>2 DEF Reads
  <2> HIDE DEF f
  <2>8. CASE got = <<>>
    BY <2>4, <2>5, <2>7, <2>8, FirstCounted DEF Sound
  <2>9. CASE got # <<>>
    BY <2>4, <2>5, <2>7, <2>9, NextCounted DEF Sound
  <2> QED
    BY <2>8, <2>9
<1>6. CASE f.kind # "audio"
  <2>1. got' = got
    BY <1>3, <1>6
  <2>2. f.kind = "hello" \/ f.kind = "stat"
    BY <1>2, <1>6, FrameFacts
  <2>3. \A d \in DeviceStats : /\ Counted(d, f).frames = d.frames
                               /\ Counted(d, f).reordered = d.reordered
                               /\ Counted(d, f).lost = d.lost
                               /\ Counted(d, f).last = d.last
    BY <2>2 DEF Counted, DeviceStats
  <2> HIDE DEF f, id
  <2>4. \A i \in Ids : seen'[i] = IF i = id THEN Counted(seen[i], f) ELSE seen[i]
    BY <1>3, <1>4
  <2>5. \A i \in Ids : seen[i] \in DeviceStats
    BY <1>4
  <2>6. \A i \in Ids : /\ seen'[i].frames = seen[i].frames
                       /\ seen'[i].reordered = seen[i].reordered
                       /\ seen'[i].lost = seen[i].lost
                       /\ seen'[i].last = seen[i].last
    BY <2>3, <2>4, <2>5
  <2> QED
    BY <1>3, <2>1, <2>6, CountingStays
<1> QED
  BY <1>5, <1>6

LEMMA OthersCounting ==
    ASSUME Counting, UNCHANGED <<config, got, seen>>
    PROVE  Counting'
BY CountingStays

-----------------------------------------------------------------------------
(* All of it together is an inductive invariant of the bench.              *)
LEMMA BenchStarts == Init => BenchInv
BY SoundStarts, ReplayedStarts, NamedStarts, CountingStarts DEF Sound, BenchInv

LEMMA BenchKeeps == BenchInv /\ [Next]_vars => BenchInv'
<1> SUFFICES ASSUME BenchInv, [Next]_vars PROVE BenchInv'
  OBVIOUS
<1> USE DEF BenchInv
<1>1. Sound /\ Replayed /\ Named /\ Counting
  BY DEF Sound
<1>2. CASE Connect /\ Accepted(session + 1)
  <2>1. UNCHANGED <<config, got, seen>>
    BY <1>2 DEF Connect, Accepted
  <2> QED
    BY <1>1, <1>2, <2>1, ConnectSound, ConnectReplayed, ConnectNamed, OthersCounting DEF Sound
<1>3. CASE Turn /\ UNCHANGED sinkVars
  <2>1. UNCHANGED <<config, got, seen>>
    BY <1>3 DEF Turn, sinkVars
  <2> QED
    BY <1>1, <1>3, <2>1, TurnSound, TurnReplayed, TurnNamed, OthersCounting DEF Sound
<1>4. CASE (Over \/ Fail \/ Stop) /\ UNCHANGED sinkVars
  <2>1. UNCHANGED <<config, got, seen>>
    BY <1>4 DEF Over, Fail, Stop, sinkVars
  <2> QED
    BY <1>1, <1>4, <2>1, EndsSound, EndsReplayed, EndsNamed, OthersCounting DEF Sound
<1>5. ASSUME NEW s \in Sessions, Handle(s), UNCHANGED deviceVars
      PROVE  BenchInv'
  BY <1>1, <1>5, HandleSound, HandleReplayed, HandleNamed, HandleCounting DEF Sound
<1>6. ASSUME NEW s \in Sessions, Hangup(s) \/ Timeout(s), UNCHANGED deviceVars
      PROVE  BenchInv'
  <2>1. UNCHANGED <<config, got, seen>>
    BY <1>6 DEF Hangup, Timeout, deviceVars
  <2> QED
    BY <1>1, <1>6, <2>1, EndOfLinkSound, SilenceReplayed, EndOfLinkNamed, OthersCounting
       DEF Sound
<1>7. ASSUME NEW s \in Sessions, Break(s), UNCHANGED <<deviceVars, sinkVars>>
      PROVE  BenchInv'
  <2>1. UNCHANGED <<config, got, seen>> /\ UNCHANGED deviceVars /\ UNCHANGED sinkVars
    BY <1>7 DEF deviceVars, sinkVars
  <2> QED
    BY <1>1, <1>7, <2>1, EndOfLinkSound, BreakReplayed, EndOfLinkNamed, OthersCounting
       DEF Sound
<1>8. CASE UNCHANGED vars
  <2>1. UNCHANGED <<linkVars, deviceVars, sinkVars>>
    BY <1>8 DEF vars
  <2>2. TypeOK' /\ SessionsSound' /\ Named'
    BY <1>1, <2>1 DEF linkVars, deviceVars, sinkVars, Sound, TypeOK, SessionsSound,
                      Named, NamedOn
  <2>3. Counting'
    BY <1>1, <2>1, OthersCounting DEF deviceVars, sinkVars
  <2>4. Replayed'
    BY <1>1, <2>1, SameGot, Untouched DEF linkVars, deviceVars, sinkVars, Replayed
  <2> QED
    BY <2>2, <2>3, <2>4
<1> QED
  BY <1>2, <1>3, <1>4, <1>5, <1>6, <1>7, <1>8 DEF Next

LEMMA BenchAlways == Spec => []BenchInv
<1> QED
  BY BenchStarts, BenchKeeps, PTL DEF Spec

(* Device, connections and receiver keep to their types: the gaps stay     *)
(* within the sequence numbers, the clip is never read past its end, and   *)
(* no session counts as failed twice (sim_device.py:165-269,               *)
(* sink.py:39-58).                                                         *)
THEOREM TypeCorrect == Spec => []TypeOK
<1>1. BenchInv => TypeOK
  BY DEF BenchInv
<1> QED
  BY <1>1, BenchAlways, PTL

(* A stall costs nothing and changes no order, whatever the device drops,  *)
(* holds back and resends, and however its connections end                 *)
(* (sim_device.py:217-254).                                                *)
THEOREM ReplayedHolds == Spec => []Replayed
<1>1. BenchInv => Replayed
  BY DEF BenchInv
<1> QED
  BY <1>1, BenchAlways, PTL

(* The counts tell what happened, across wrap around and over any number   *)
(* of connections, for any even number of sequence numbers                 *)
(* (sink.py:48-58, 82-124).                                                *)
THEOREM LossExactHolds == Spec => []LossExact
<1>1. BenchInv => LossExact
  BY DEF BenchInv, Counting
<1> QED
  BY <1>1, BenchAlways, PTL
=============================================================================
