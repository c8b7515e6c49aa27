-------------------------- MODULE SegmenterProofs ---------------------------
(***************************************************************************)
(* Proofs about the segmenter, for any devices, any length of a segment,   *)
(* any number of kills and failed uploads.                                 *)
(***************************************************************************)
EXTENDS Segmenter, FiniteSetTheorems, TLAPS

LEMMA DivisionNatural == \A a \in Nat, b \in Nat \ {0} : a \div b \in Nat
OBVIOUS

LEMMA SegmentLength == PacketsPerSegment \in Nat \ {0}
BY SegmenterAssumption DEF PacketsPerSegment

-----------------------------------------------------------------------------
(* The stages of run(). *)

(* No upload is left to make while the process polls or is not there; what *)
(* the finally block does not have to upload has no packets.               *)
Staged ==
    /\ stage = "poll" => todo = {}
    /\ stage = "down" => todo = {} /\ InMemory = {}
    /\ stage = "finally" => \A d \in DOMAIN segments \ todo : segments[d].packets = <<>>

LEMMA NoPackets == ASSUME NEW s, s.packets = <<>> PROVE Packets(s) = {}
BY DEF Packets

(* An upload moves the packets of one segment, or drops them.              *)
LEMMA UploadMoves ==
    ASSUME TypeOK, Staged, NEW d, Upload(d)
    PROVE  /\ d \in todo /\ d \in DOMAIN segments
           /\ stage \in {"flush", "finally"}
           /\ stage' = IF stage = "flush" /\ todo' = {} THEN "poll" ELSE stage
           /\ todo' = todo \ {d}
           /\ DOMAIN segments' = DOMAIN segments
           /\ segments'[d] = Reset
           /\ \A c \in DOMAIN segments \ {d} : segments'[c] = segments[c]
           /\ store' \in {store, Put(Object(d, segments[d]))}
           /\ \/ store' = Put(Object(d, segments[d])) /\ dropped' = dropped
              \/ dropped' = dropped \cup Packets(segments[d])
           /\ UNCHANGED <<log, now, pos, committed, idle, base, kills, cut, reread, readAt>>
<1>1. d \in todo /\ todo \subseteq DOMAIN segments /\ stage \in Stages
  BY DEF Upload, TypeOK
<1>2. stage \in {"flush", "finally"}
  BY <1>1 DEF Staged, Stages
<1>3. stage' = IF stage = "flush" /\ todo' = {} THEN "poll" ELSE stage
  BY DEF Upload, After
<1> QED
  BY <1>1, <1>2, <1>3 DEF Upload

(* What put_object leaves in the store was there, or is the object.        *)
LEMMA StoreGrows ==
    ASSUME NEW d, store' \in {store, Put(Object(d, segments[d]))}
    PROVE  /\ \A o \in store' : o \in store \/ o = Object(d, segments[d])
           /\ Packets(Object(d, segments[d])) = Packets(segments[d])
           /\ Stored' \subseteq Stored \cup Packets(segments[d])
<1>1. \A o \in store' : o \in store \/ o = Object(d, segments[d])
  BY DEF Put
<1>2. Packets(Object(d, segments[d])) = Packets(segments[d])
  BY DEF Object, Packets
<1>3. \A o \in store' : Packets(o) \subseteq Stored \cup Packets(segments[d])
  BY <1>1, <1>2 DEF Stored
<1>4. Stored' = UNION {Packets(o) : o \in store'}
  BY DEF Stored, Packets
<1>5. Stored' \subseteq Stored \cup Packets(segments[d])
  BY <1>3, <1>4
<1> QED
  BY <1>1, <1>2, <1>5

LEMMA StagedStep == TypeOK /\ Staged /\ [Next]_vars => Staged'
<1> SUFFICES ASSUME TypeOK, Staged, [Next]_vars PROVE Staged'
  OBVIOUS
<1>1. CASE UNCHANGED <<stage, todo, segments>>
  <2>1. InMemory' = InMemory
    BY <1>1 DEF InMemory, Packets
  <2> QED
    BY <1>1, <2>1 DEF Staged
<1>2. ASSUME NEW d \in Devices, Upload(d) PROVE Staged'
  <2>1. /\ stage' = IF stage = "flush" /\ todo' = {} THEN "poll" ELSE stage
        /\ stage \in {"flush", "finally"}
        /\ todo' = todo \ {d} /\ DOMAIN segments' = DOMAIN segments
        /\ segments'[d] = Reset
        /\ \A c \in DOMAIN segments \ {d} : segments'[c] = segments[c]
    BY <1>2, UploadMoves
  <2>2. ASSUME stage' = "finally", NEW c \in DOMAIN segments' \ todo'
        PROVE  segments'[c].packets = <<>>
    <3>1. CASE c = d
      BY <2>1, <3>1 DEF Reset
    <3>2. CASE c # d
      BY <2>1, <2>2, <3>2 DEF Staged
    <3> QED
      BY <3>1, <3>2
  <2> QED
    BY <2>1, <2>2 DEF Staged
<1>3. CASE Consume \/ IdleTick
  <2>1. stage' \in {"poll", "flush"} /\ (stage' = "poll" => todo' = {})
    BY <1>3 DEF Consume, IdleTick
  <2> QED
    BY <2>1 DEF Staged
<1>4. CASE Interrupt
  BY <1>4 DEF Interrupt, Staged, Open
<1>5. CASE Close
  <2>1. \A d \in DOMAIN segments : Packets(segments[d]) = {}
    BY <1>5, NoPackets DEF Close, Staged
  <2>2. InMemory' = InMemory /\ InMemory = {}
    <3>1. segments' = segments
      BY <1>5 DEF Close
    <3>2. InMemory' = InMemory
      BY <3>1 DEF InMemory, Packets
    <3> QED
      BY <2>1, <3>2 DEF InMemory
  <2> QED
    BY <1>5, <2>2 DEF Close, Staged
<1>6. CASE Kill
  <2>1. InMemory' = {}
    BY <1>6 DEF Kill, InMemory
  <2> QED
    BY <1>6, <2>1 DEF Kill, Staged
<1>7. CASE Start
  BY <1>7 DEF Start, Staged
<1> QED
  BY <1>1, <1>2, <1>3, <1>4, <1>5, <1>6, <1>7
     DEF Next, vars, Produce, Tick, AutoCommit

-----------------------------------------------------------------------------
(* Packets that have been read are in memory as the packets of their       *)
(* device, in their order.                                                 *)
Ordered(d, s, upto) ==
    /\ \A i \in DOMAIN s : s[i] <= upto /\ log[s[i]] = d
    /\ \A i, j \in DOMAIN s : i < j => s[i] < s[j]
    /\ Run(d, s)

(* None of the device's packets is left out after the last one.            *)
UpToDate(d, s, upto) == s # <<>> => \A p \in s[Len(s)] + 1 .. upto : log[p] # d

InOrder ==
    /\ \A d \in DOMAIN segments : Ordered(d, segments[d].packets, pos)
    /\ stage \in {"poll", "flush"} =>
          \A d \in DOMAIN segments : UpToDate(d, segments[d].packets, pos)
    /\ Contents
    /\ Stored \subseteq DOMAIN log

(* The next packet is added to the right segment, at its end.              *)
LEMMA AddKeepsOrder ==
    ASSUME TypeOK, Staged, InOrder, stage = "poll", pos < Len(log)
    PROVE  LET d == log[pos + 1]
               segs == WithPacket(d, pos + 1)
           IN  /\ d \in Devices
               /\ DOMAIN segs = DOMAIN segments \cup {d}
               /\ segs[d].packets = Append(SegmentOf(d).packets, pos + 1)
               /\ segs[d].packets # <<>>
               /\ \A c \in DOMAIN segs :
                     /\ segs[c] \in Segment
                     /\ Packets(segs[c]) \subseteq 1 .. Len(log)
                     /\ Ordered(c, segs[c].packets, pos + 1)
                     /\ UpToDate(c, segs[c].packets, pos + 1)
                     /\ Len(segs[c].packets) <= PacketsPerSegment
                     /\ c # d => Len(segs[c].packets) < PacketsPerSegment
<1> USE SegmenterAssumption
<1> DEFINE d == log[pos + 1]
           segs == WithPacket(d, pos + 1)
<1>1. d \in Devices /\ pos + 1 \in 1 .. MaxLog /\ PacketsPerSegment \in Nat \ {0}
  BY SegmentLength DEF TypeOK
<1>2. /\ SegmentOf(d) \in Segment
      /\ Len(SegmentOf(d).packets) < PacketsPerSegment
      /\ Ordered(d, SegmentOf(d).packets, pos)
      /\ UpToDate(d, SegmentOf(d).packets, pos)
  <2>1. CASE d \in DOMAIN segments
    BY <2>1 DEF SegmentOf, TypeOK, InOrder, Staged
  <2>2. CASE d \notin DOMAIN segments
    BY <2>2, <1>1 DEF SegmentOf, Reset, Segment, TypeOK, Ordered, UpToDate, Run
  <2> QED
    BY <2>1, <2>2
<1> DEFINE s == SegmentOf(d).packets
           n == Len(s)
           t == Append(s, pos + 1)
<1>3. /\ s \in Seq(1 .. MaxLog) /\ n \in Nat /\ DOMAIN s = 1 .. n
      /\ t \in Seq(1 .. MaxLog) /\ Len(t) = n + 1 /\ DOMAIN t = 1 .. n + 1
      /\ t[n + 1] = pos + 1
      /\ \A i \in 1 .. n : t[i] = s[i] /\ s[i] \in 1 .. MaxLog
  <2>1. s \in Seq(1 .. MaxLog)
    BY <1>2 DEF Segment
  <2> HIDE DEF s, d
  <2> QED
    BY <1>1, <2>1
<1>4. /\ Add(SegmentOf(d), pos + 1) \in Segment
      /\ Add(SegmentOf(d), pos + 1).packets = t
      /\ Len(t) <= PacketsPerSegment
      /\ Ordered(d, t, pos + 1)
      /\ UpToDate(d, t, pos + 1)
  <2>1. pos \in Nat
    BY DEF TypeOK
  <2>2. Ordered(d, s, pos) /\ UpToDate(d, s, pos) /\ n < PacketsPerSegment
    BY <1>2
  <2>3. log[pos + 1] = d
    OBVIOUS
  <2>4. /\ Add(SegmentOf(d), pos + 1) \in Segment
        /\ Add(SegmentOf(d), pos + 1).packets = t
    BY <1>2, <1>3 DEF Add, Segment
  <2> HIDE DEF s, n, t, d
  <2>5. \A i \in DOMAIN t : t[i] <= pos + 1 /\ log[t[i]] = d
    BY <1>3, <2>1, <2>2, <2>3 DEF Ordered
  <2>6. ASSUME NEW i \in DOMAIN t, NEW j \in DOMAIN t, i < j PROVE t[i] < t[j]
    <3>1. i \in 1 .. n /\ t[i] = s[i]
      BY <1>3, <2>6
    <3>2. CASE j \in 1 .. n
      <4>1. t[j] = s[j]
        BY <1>3, <3>2
      <4> QED
        BY <1>3, <2>2, <2>6, <3>1, <3>2, <4>1 DEF Ordered
    <3>3. CASE j = n + 1
      <4>1. s[i] <= pos /\ s[i] \in 1 .. MaxLog
        BY <1>3, <2>2, <3>1 DEF Ordered
      <4>2. s[i] \in Nat
        BY <4>1, SegmenterAssumption
      <4> QED
        BY <1>3, <2>1, <3>1, <3>3, <4>1, <4>2
    <3> QED
      BY <1>3, <3>2, <3>3
  <2>7. \A i \in 1 .. Len(t) - 1 : \A p \in t[i] + 1 .. t[i + 1] - 1 : log[p] # d
    <3> SUFFICES ASSUME NEW i \in 1 .. n, NEW p \in t[i] + 1 .. t[i + 1] - 1
                 PROVE  log[p] # d
      BY <1>3
    <3>1. CASE i < n
      <4>1. /\ i \in 1 .. Len(s) - 1
            /\ t[i] = s[i] /\ t[i + 1] = s[i + 1]
        <5>1. i \in 1 .. n - 1 /\ t[i] = s[i] /\ t[i + 1] = s[i + 1]
          BY <1>3, <3>1
        <5> QED
          BY <5>1 DEF n
      <4>2. \A q \in s[i] + 1 .. s[i + 1] - 1 : log[q] # d
        BY <2>2, <4>1 DEF Ordered, Run
      <4> QED
        BY <4>1, <4>2
    <3>2. CASE i = n
      <4>1. s # <<>> /\ t[i] = s[Len(s)] /\ t[i + 1] = pos + 1
        BY <1>3, <3>2 DEF n
      <4>2. \A q \in s[Len(s)] + 1 .. pos : log[q] # d
        BY <2>2, <4>1 DEF UpToDate
      <4>3. p \in s[Len(s)] + 1 .. pos
        <5>1. t[i + 1] - 1 = pos
          BY <2>1, <4>1
        <5>2. p \in t[i] + 1 .. t[i + 1] - 1
          OBVIOUS
        <5> QED
          BY <4>1, <5>1, <5>2
      <4> QED
        BY <4>1, <4>2, <4>3
    <3> QED
      BY <1>3, <3>1, <3>2
  <2>8. Run(d, t)
    <3>1. \A i \in 1 .. Len(t) - 1 : i \in DOMAIN t /\ i + 1 \in DOMAIN t /\ i < i + 1
      BY <1>3
    <3> QED
      BY <2>5, <2>6, <2>7, <3>1 DEF Run
  <2>9. \A p \in t[Len(t)] + 1 .. pos + 1 : log[p] # d
    BY <1>3, <2>1
  <2> QED
    BY <1>1, <1>3, <2>2, <2>4, <2>5, <2>6, <2>8, <2>9 DEF Ordered, UpToDate
<1>5. ASSUME NEW c \in DOMAIN segments, c # d
      PROVE  /\ Ordered(c, segments[c].packets, pos + 1)
             /\ UpToDate(c, segments[c].packets, pos + 1)
  <2> DEFINE r == segments[c].packets
  <2>1. Ordered(c, r, pos) /\ UpToDate(c, r, pos) /\ r \in Seq(1 .. MaxLog) /\ pos \in Nat
    BY DEF InOrder, TypeOK, Segment
  <2> HIDE DEF r
  <2>2. \A i \in DOMAIN r : r[i] <= pos + 1
    BY <2>1 DEF Ordered
  <2>3. r # <<>> => \A p \in r[Len(r)] + 1 .. pos + 1 : log[p] # c
    <3> SUFFICES ASSUME r # <<>>, NEW p \in r[Len(r)] + 1 .. pos + 1
                 PROVE  log[p] # c
      OBVIOUS
    <3>1. r[Len(r)] \in Nat
      BY <2>1
    <3>2. CASE p <= pos
      BY <2>1, <3>1, <3>2 DEF UpToDate
    <3>3. CASE p = pos + 1
      BY <1>5, <3>3
    <3> QED
      BY <2>1, <3>1, <3>2, <3>3
  <2> QED
    BY <2>1, <2>2, <2>3 DEF Ordered, UpToDate, r
<1>6. ASSUME NEW c, NEW r \in Segment, Ordered(c, r.packets, pos + 1)
      PROVE  Packets(r) \subseteq 1 .. Len(log)
  <2>1. r.packets \in Seq(1 .. MaxLog) /\ pos \in Nat /\ Len(log) \in Nat
    BY DEF Segment, TypeOK
  <2> QED
    BY <1>6, <2>1 DEF Packets, Ordered
<1>7. ASSUME NEW c \in DOMAIN segs
      PROVE  /\ segs[c] \in Segment
             /\ Ordered(c, segs[c].packets, pos + 1)
             /\ UpToDate(c, segs[c].packets, pos + 1)
             /\ Len(segs[c].packets) <= PacketsPerSegment
             /\ c # d => Len(segs[c].packets) < PacketsPerSegment
  <2>1. CASE c = d
    BY <1>4, <2>1 DEF WithPacket
  <2>2. CASE c # d
    <3>1. c \in DOMAIN segments /\ segs[c] = segments[c]
      BY <2>2 DEF WithPacket
    <3>2. segments[c] \in Segment /\ Len(segments[c].packets) < PacketsPerSegment
      BY <3>1 DEF TypeOK, Staged
    <3>3. Len(segments[c].packets) \in Nat
      BY <3>2 DEF Segment
    <3> QED
      BY <1>1, <1>5, <2>2, <3>1, <3>2, <3>3
  <2> QED
    BY <2>1, <2>2
<1>8. DOMAIN segs = DOMAIN segments \cup {d} /\ segs[d].packets = t /\ t # <<>>
  <2>1. DOMAIN segs = DOMAIN segments \cup {d} /\ segs[d] = Add(SegmentOf(d), pos + 1)
    BY DEF WithPacket
  <2>2. t # <<>>
    <3>1. Len(t) = n + 1 /\ n \in Nat
      BY <1>3
    <3> HIDE DEF t, n
    <3>2. Len(t) # 0
      BY <3>1
    <3> QED
      BY <3>2
  <2> QED
    BY <1>4, <2>1, <2>2
<1> QED
  BY <1>1, <1>6, <1>7, <1>8

-----------------------------------------------------------------------------
(* Types. *)

(* What is in memory has been read.                                        *)
LEMMA MemoryRead ==
    ASSUME TypeOK, InOrder
    PROVE  \A d \in DOMAIN segments : Packets(segments[d]) \subseteq 1 .. pos
<1> SUFFICES ASSUME NEW d \in DOMAIN segments PROVE Packets(segments[d]) \subseteq 1 .. pos
  OBVIOUS
<1> DEFINE s == segments[d].packets
<1>1. \A i \in DOMAIN s : s[i] <= pos
  BY DEF InOrder, Ordered
<1>2. s \in Seq(1 .. MaxLog) /\ pos \in Nat
  BY DEF TypeOK, Segment
<1>3. \A i \in DOMAIN s : s[i] \in 1 .. pos
  <2> HIDE DEF s
  <2> QED
    BY <1>1, <1>2, SegmenterAssumption
<1> QED
  BY <1>3 DEF Packets

(* An object made of a segment whose time it is.                           *)
LEMMA ObjectTyped ==
    ASSUME TypeOK, InOrder, NEW d \in todo
    PROVE  LET o == Object(d, segments[d])
           IN  /\ o \in [dev : Devices, at : 0 .. MaxTime, seconds : Nat,
                         packets : Seq(1 .. MaxLog)]
               /\ Run(o.dev, o.packets)
               /\ Len(o.packets) \in 1 .. PacketsPerSegment
               /\ Packets(o) \subseteq 1 .. pos
<1>1. d \in DOMAIN segments /\ d \in Devices /\ segments[d] \in Segment
  BY DEF TypeOK
<1>2. Len(segments[d].packets) \div PerSecond \in Nat
  <2>1. Len(segments[d].packets) \in Nat /\ PerSecond \in Nat \ {0}
    BY <1>1, SegmenterAssumption DEF Segment
  <2> QED
    BY <2>1, DivisionNatural
<1>3. Run(d, segments[d].packets)
  BY <1>1 DEF InOrder, Ordered
<1>4. Len(segments[d].packets) \in 1 .. PacketsPerSegment
  BY <1>1 DEF TypeOK
<1>5. Packets(Object(d, segments[d])) \subseteq 1 .. pos
  <2>1. Packets(Object(d, segments[d])) = Packets(segments[d])
    BY DEF Object, Packets
  <2> QED
    BY <1>1, <2>1, MemoryRead
<1> QED
  BY <1>1, <1>2, <1>3, <1>4, <1>5 DEF Object, Segment

(* So a step that stores it keeps the types and the contents of the store. *)
LEMMA StoreKeepsContents ==
    ASSUME TypeOK, InOrder, UNCHANGED log,
           \/ store' = store
           \/ \E d \in todo : store' \in {store, Put(Object(d, segments[d]))}
    PROVE  /\ store' \subseteq [dev : Devices, at : 0 .. MaxTime, seconds : Nat,
                                packets : Seq(1 .. MaxLog)]
           /\ Contents'
           /\ Stored' \subseteq DOMAIN log
<1>1. ASSUME NEW o \in store'
      PROVE  /\ o \in [dev : Devices, at : 0 .. MaxTime, seconds : Nat,
                       packets : Seq(1 .. MaxLog)]
             /\ Run(o.dev, o.packets)
             /\ Len(o.packets) \in 1 .. PacketsPerSegment
             /\ Packets(o) \subseteq DOMAIN log
  <2>1. CASE o \in store
    <3>1. Packets(o) \subseteq DOMAIN log
      BY <2>1 DEF InOrder, Stored
    <3> QED
      BY <2>1, <3>1 DEF TypeOK, InOrder, Contents
  <2>2. CASE o \notin store
    <3>1. PICK d \in todo : o = Object(d, segments[d])
      BY <2>2, StoreGrows
    <3>2. 1 .. pos \subseteq DOMAIN log
      BY DEF TypeOK
    <3> QED
      BY <3>1, <3>2, ObjectTyped
  <2> QED
    BY <2>1, <2>2
<1>2. Contents'
  BY <1>1 DEF Contents, Run, PacketsPerSegment
<1>3. Stored' \subseteq DOMAIN log
  BY <1>1 DEF Stored, Packets
<1> QED
  BY <1>1, <1>2, <1>3

LEMMA TypeStep == TypeOK /\ Staged /\ InOrder /\ [Next]_vars => TypeOK'
<1> SUFFICES ASSUME TypeOK, Staged, InOrder, [Next]_vars PROVE TypeOK'
  OBVIOUS
<1> USE SegmenterAssumption
<1>a. /\ Reset \in Segment /\ Reset.packets = <<>>
      /\ PacketsPerSegment \in Nat \ {0} /\ PacketsPerSegment' = PacketsPerSegment
      /\ Len(log) \in Nat
  BY SegmentLength DEF Reset, Segment, TypeOK, PacketsPerSegment
<1>1. ASSUME NEW d \in Devices, Produce(d) PROVE TypeOK'
  <2>1. log' \in Seq(Devices) /\ Len(log') = Len(log) + 1 /\ Len(log') <= MaxLog
    BY <1>1 DEF Produce, TypeOK
  <2>2. UNCHANGED <<now, stage, todo, pos, committed, segments, store, idle, base, kills,
                    dropped, cut, reread, readAt>>
    BY <1>1 DEF Produce
  <2>3. /\ pos' \in 0 .. Len(log') /\ base' \in 0 .. Len(log')
        /\ committed' \in 0 .. Len(log') \cup {NoOffset}
        /\ dropped' \cup cut' \cup reread' \subseteq 1 .. Len(log')
    BY <1>a, <2>1, <2>2 DEF TypeOK
  <2> QED
    BY <1>a, <2>1, <2>2, <2>3 DEF TypeOK, Segment, Stages
<1>2. CASE Tick
  <2>1. now' \in 0 .. MaxTime /\ idle' \in 0 .. now'
    BY <1>2 DEF Tick, TypeOK
  <2> QED
    BY <1>2, <2>1, <1>a DEF Tick, TypeOK, Segment, Stages
<1>3. CASE Consume
  <2> DEFINE d == log[pos + 1]
             segs == WithPacket(d, pos + 1)
  <2>1. /\ stage = "poll" /\ pos < Len(log) /\ pos' = pos + 1
        /\ segments' = segs
        /\ todo' = IF Full(Add(SegmentOf(d), pos + 1)) THEN {d} ELSE {}
        /\ readAt' = [readAt EXCEPT ![pos + 1] = now]
        /\ stage' \in {"poll", "flush"}
        /\ UNCHANGED <<log, now, committed, store, idle, base, kills, dropped, cut, reread>>
    BY <1>3 DEF Consume
  <2>2. /\ d \in Devices
        /\ DOMAIN segs = DOMAIN segments \cup {d}
        /\ segs[d].packets # <<>>
        /\ \A c \in DOMAIN segs :
              /\ segs[c] \in Segment
              /\ Len(segs[c].packets) <= PacketsPerSegment
              /\ c # d => Len(segs[c].packets) < PacketsPerSegment
    BY <2>1, AddKeepsOrder
  <2>3. Full(segs[d]) = Full(Add(SegmentOf(d), pos + 1))
    BY DEF WithPacket
  <2> HIDE DEF segs, d
  <2>4. todo' = {c \in {d} : Full(segs[c])}
    BY <2>1, <2>3
  <2>5. Len(segs[d].packets) \in Nat \ {0}
    <3>1. segs[d].packets \in Seq(1 .. MaxLog)
      BY <2>2 DEF Segment
    <3> QED
      BY <2>2, <3>1
  <2>6. ASSUME NEW c \in DOMAIN segs
        PROVE  IF c \in todo' THEN Len(segs[c].packets) \in 1 .. PacketsPerSegment
                              ELSE Len(segs[c].packets) < PacketsPerSegment
    BY <1>a, <2>2, <2>4, <2>5 DEF Full
  <2>7. todo' \subseteq DOMAIN segs /\ DOMAIN segs \subseteq Devices
    BY <2>2, <2>4 DEF TypeOK
  <2>8. pos' \in 0 .. Len(log) /\ readAt' \in [1 .. MaxLog -> 0 .. Never]
    BY <2>1 DEF TypeOK, Never
  <2> QED
    BY <1>a, <2>1, <2>2, <2>6, <2>7, <2>8 DEF TypeOK, Stages, Segment
<1>4. CASE IdleTick
  <2>1. stage = "poll" /\ todo' = {d \in DOMAIN segments : Quiet(segments[d])}
    BY <1>4 DEF IdleTick
  <2>2. ASSUME NEW d \in DOMAIN segments
        PROVE  IF d \in todo' THEN Len(segments[d].packets) \in 1 .. PacketsPerSegment
                              ELSE Len(segments[d].packets) < PacketsPerSegment
    <3>1. Len(segments[d].packets) < PacketsPerSegment
      BY <2>1 DEF TypeOK, Staged
    <3>2. segments[d].packets \in Seq(1 .. MaxLog)
      BY DEF TypeOK, Segment
    <3>3. d \in todo' => segments[d].packets # <<>>
      BY <2>1 DEF Quiet
    <3> QED
      BY <1>a, <3>1, <3>2, <3>3
  <2>3. /\ todo' \subseteq DOMAIN segments /\ stage' \in Stages
        /\ idle' \in 0 .. now'
        /\ UNCHANGED <<log, now, pos, committed, segments, store, base, kills, dropped, cut,
                       reread, readAt>>
    BY <1>4 DEF IdleTick, Stages, TypeOK
  <2> QED
    BY <1>a, <2>2, <2>3 DEF TypeOK, Segment
<1>5. CASE AutoCommit
  BY <1>5, <1>a DEF AutoCommit, TypeOK, Segment, Stages
<1>6. CASE Interrupt
  <2>1. ASSUME NEW d \in DOMAIN segments
        PROVE  IF d \in todo' THEN Len(segments[d].packets) \in 1 .. PacketsPerSegment
                              ELSE Len(segments[d].packets) < PacketsPerSegment
    <3>1. segments[d].packets \in Seq(1 .. MaxLog)
      BY DEF TypeOK, Segment
    <3>2. Len(segments[d].packets) <= PacketsPerSegment
      BY <1>a, <3>1 DEF TypeOK
    <3>3. d \in todo' <=> segments[d].packets # <<>>
      BY <1>6 DEF Interrupt, Open
    <3> QED
      BY <1>a, <3>1, <3>2, <3>3
  <2>2. store' \subseteq [dev : Devices, at : 0 .. MaxTime, seconds : Nat,
                          packets : Seq(1 .. MaxLog)]
    <3>1. \/ store' = store
          \/ \E d \in todo : store' \in {store, Put(Object(d, segments[d]))}
      BY <1>6 DEF Interrupt
    <3>2. log' = log
      BY <1>6 DEF Interrupt
    <3> QED
      BY <3>1, <3>2, StoreKeepsContents
  <2>3. pos' \in 0 .. Len(log) /\ cut' \subseteq 1 .. Len(log)
    <3>1. CASE UNCHANGED <<pos, cut>>
      BY <3>1 DEF TypeOK
    <3>2. CASE pos < Len(log) /\ pos' = pos + 1 /\ cut' = cut \cup {pos + 1}
      BY <1>a, <3>2 DEF TypeOK
    <3> QED
      BY <1>6, <3>1, <3>2 DEF Interrupt
  <2>4. /\ todo' \subseteq DOMAIN segments /\ stage' \in Stages
        /\ UNCHANGED <<log, now, committed, segments, idle, base, kills, dropped, reread,
                       readAt>>
    BY <1>6 DEF Interrupt, Open, Stages
  <2> QED
    BY <1>a, <2>1, <2>2, <2>3, <2>4 DEF TypeOK, Segment
<1>7. CASE Close
  <2>1. committed' \in 0 .. Len(log) \cup {NoOffset}
    BY <1>7 DEF Close, TypeOK
  <2> QED
    BY <1>7, <1>a, <2>1 DEF Close, TypeOK, Segment, Stages
<1>8. CASE Kill
  <2>1. InMemory \subseteq 1 .. Len(log)
    BY MemoryRead DEF InMemory, TypeOK
  <2>2. kills' \in 0 .. MaxKills /\ DOMAIN segments' = {} /\ dropped' \subseteq 1 .. Len(log)
    <3>1. kills' \in 0 .. MaxKills /\ DOMAIN segments' = {}
      BY <1>8 DEF Kill, TypeOK
    <3>2. dropped' = dropped \cup InMemory
      BY <1>8 DEF Kill
    <3> QED
      BY <2>1, <3>1, <3>2 DEF TypeOK
  <2>3. /\ todo' = {} /\ stage' \in Stages
        /\ UNCHANGED <<log, now, pos, committed, store, idle, base, cut, reread, readAt>>
    BY <1>8 DEF Kill, Stages
  <2> QED
    BY <2>2, <2>3 DEF TypeOK
<1>9. CASE Start
  <2>1. reread' \subseteq 1 .. Len(log) /\ pos' \in 0 .. Len(log) /\ base' \in 0 .. Len(log)
    BY <1>9 DEF Start, TypeOK, NoOffset
  <2>2. now' \in 0 .. MaxTime /\ idle' \in 0 .. now'
    BY <1>9 DEF Start, TypeOK
  <2>3. /\ todo' = {} /\ DOMAIN segments' = {} /\ stage' \in Stages
        /\ UNCHANGED <<log, committed, store, kills, dropped, cut, readAt>>
    BY <1>9 DEF Start, Stages, Staged
  <2> QED
    BY <2>1, <2>2, <2>3 DEF TypeOK
<1>10. ASSUME NEW d \in Devices, Upload(d) PROVE TypeOK'
  <2>1. /\ d \in todo /\ d \in DOMAIN segments
        /\ todo' = todo \ {d} /\ DOMAIN segments' = DOMAIN segments
        /\ segments'[d] = Reset
        /\ \A c \in DOMAIN segments \ {d} : segments'[c] = segments[c]
        /\ store' \in {store, Put(Object(d, segments[d]))}
        /\ dropped' \subseteq dropped \cup Packets(segments[d])
        /\ stage' \in {"poll", "flush", "finally"}
        /\ UNCHANGED <<log, now, pos, committed, idle, base, kills, cut, reread, readAt>>
    BY <1>10, UploadMoves
  <2>2. store' \subseteq [dev : Devices, at : 0 .. MaxTime, seconds : Nat,
                          packets : Seq(1 .. MaxLog)]
    BY <2>1, StoreKeepsContents
  <2>3. dropped' \subseteq 1 .. Len(log)
    BY <2>1, MemoryRead DEF TypeOK
  <2>4. ASSUME NEW c \in DOMAIN segments
        PROVE  /\ segments'[c] \in Segment
               /\ IF c \in todo' THEN Len(segments'[c].packets) \in 1 .. PacketsPerSegment
                                 ELSE Len(segments'[c].packets) < PacketsPerSegment
    <3>1. CASE c = d
      BY <1>a, <2>1, <3>1
    <3>2. CASE c # d
      BY <2>1, <3>2 DEF TypeOK
    <3> QED
      BY <3>1, <3>2
  <2> QED
    BY <1>a, <2>1, <2>2, <2>3, <2>4 DEF TypeOK, Stages, Segment
<1>11. CASE UNCHANGED vars
  BY <1>11 DEF vars, TypeOK, Segment, PacketsPerSegment
<1> QED
  BY <1>1, <1>2, <1>3, <1>4, <1>5, <1>6, <1>7, <1>8, <1>9, <1>10, <1>11 DEF Next

-----------------------------------------------------------------------------
(* What the objects hold. *)

(* A topic that grows at its end does not change what has been read of it. *)
LEMMA ProduceKeepsOrder ==
    ASSUME TypeOK, InOrder, NEW d \in Devices, Produce(d)
    PROVE  InOrder'
<1>1. /\ log \in Seq(Devices) /\ log' = Append(log, d)
      /\ \A p \in 1 .. Len(log) : log'[p] = log[p]
      /\ pos \in 0 .. Len(log) /\ Len(log) \in Nat
      /\ UNCHANGED <<stage, segments, store, pos>>
  BY DEF Produce, TypeOK
<1>2. ASSUME NEW c, NEW s \in Seq(1 .. MaxLog), Run(c, s),
             \A i \in DOMAIN s : s[i] <= Len(log)
      PROVE  /\ \A i \in DOMAIN s : log'[s[i]] = c
             /\ \A i \in 1 .. Len(s) - 1 :
                   /\ s[i] < s[i + 1]
                   /\ \A p \in s[i] + 1 .. s[i + 1] - 1 : log'[p] # c
  <2>1. \A i \in DOMAIN s : s[i] \in 1 .. Len(log)
    BY <1>1, <1>2, SegmenterAssumption
  <2>2. \A i \in DOMAIN s : log'[s[i]] = c
    BY <1>1, <1>2, <2>1 DEF Run
  <2>3. ASSUME NEW i \in 1 .. Len(s) - 1
        PROVE  /\ s[i] < s[i + 1]
               /\ \A p \in s[i] + 1 .. s[i + 1] - 1 : log'[p] # c
    <3>1. i \in DOMAIN s /\ i + 1 \in DOMAIN s
      OBVIOUS
    <3>2. s[i] < s[i + 1] /\ \A p \in s[i] + 1 .. s[i + 1] - 1 : log[p] # c
      BY <1>2 DEF Run
    <3>3. s[i] \in 1 .. Len(log) /\ s[i + 1] \in 1 .. Len(log)
      BY <2>1, <3>1
    <3> QED
      BY <1>1, <3>2, <3>3
  <2> QED
    BY <2>2, <2>3
<1>3. ASSUME NEW c \in DOMAIN segments
      PROVE  /\ Ordered(c, segments[c].packets, pos)'
             /\ stage \in {"poll", "flush"} => UpToDate(c, segments[c].packets, pos)'
  <2> DEFINE s == segments[c].packets
  <2>1. s \in Seq(1 .. MaxLog) /\ Ordered(c, s, pos)
    BY DEF TypeOK, Segment, InOrder
  <2>2. s' = s
    BY <1>1
  <2> HIDE DEF s
  <2>3. \A i \in DOMAIN s : s[i] \in 1 .. pos /\ s[i] <= Len(log)
    BY <1>1, <2>1, SegmenterAssumption DEF Ordered
  <2>4. Run(c, s)
    BY <2>1 DEF Ordered
  <2>5. Run(c, s)'
    <3>1. /\ \A i \in DOMAIN s : log'[s[i]] = c
          /\ \A i \in 1 .. Len(s) - 1 :
                /\ s[i] < s[i + 1]
                /\ \A p \in s[i] + 1 .. s[i + 1] - 1 : log'[p] # c
      BY <1>2, <2>1, <2>3, <2>4
    <3> QED
      BY <2>2, <3>1 DEF Run
  <2>6. ASSUME stage \in {"poll", "flush"} PROVE UpToDate(c, s, pos)'
    <3>1. UpToDate(c, s, pos)
      BY <2>6 DEF InOrder, s
    <3> SUFFICES ASSUME s # <<>> PROVE \A p \in s[Len(s)] + 1 .. pos : log'[p] # c
      BY <1>1, <2>2 DEF UpToDate
    <3>2. s[Len(s)] \in 1 .. pos
      BY <2>1, <2>3
    <3> QED
      BY <1>1, <3>1, <3>2 DEF UpToDate
  <2>7. \A i \in DOMAIN s : log'[s[i]] = c
    BY <1>2, <2>1, <2>3, <2>4
  <2>8. Ordered(c, s, pos)'
    BY <1>1, <2>1, <2>2, <2>3, <2>5, <2>7 DEF Ordered
  <2> QED
    BY <2>6, <2>8 DEF s
<1>4. ASSUME NEW o \in store
      PROVE  Run(o.dev, o.packets)'
  <2> DEFINE s == o.packets
  <2>1. s \in Seq(1 .. MaxLog) /\ Run(o.dev, s)
    BY DEF TypeOK, Contents, InOrder
  <2>2. \A i \in DOMAIN s : s[i] <= Len(log)
    <3>1. Packets(o) \subseteq DOMAIN log
      BY DEF InOrder, Stored
    <3>2. DOMAIN log = 1 .. Len(log)
      BY <1>1
    <3>3. \A i \in DOMAIN s : s[i] \in Packets(o)
      BY DEF Packets
    <3> QED
      BY <1>1, <3>1, <3>2, <3>3
  <2> HIDE DEF s
  <2>3. /\ \A i \in DOMAIN s : log'[s[i]] = o.dev
        /\ \A i \in 1 .. Len(s) - 1 :
              /\ s[i] < s[i + 1]
              /\ \A p \in s[i] + 1 .. s[i + 1] - 1 : log'[p] # o.dev
    BY <1>2, <2>1, <2>2
  <2> QED
    BY <2>3 DEF Run, s
<1>5. Contents'
  BY <1>1, <1>4 DEF InOrder, Contents, PacketsPerSegment
<1>6. Stored' \subseteq DOMAIN log'
  <2>1. Stored' = Stored
    BY <1>1 DEF Stored, Packets
  <2>2. DOMAIN log \subseteq DOMAIN log'
    BY <1>1
  <2> QED
    BY <2>1, <2>2 DEF InOrder
<1> QED
  BY <1>1, <1>3, <1>5, <1>6 DEF InOrder

LEMMA OrderStep == TypeOK /\ Staged /\ InOrder /\ [Next]_vars => InOrder'
<1> SUFFICES ASSUME TypeOK, Staged, InOrder, [Next]_vars PROVE InOrder'
  OBVIOUS
<1>1. CASE \E d \in Devices : Produce(d)
  BY <1>1, ProduceKeepsOrder
<1>2. ASSUME UNCHANGED <<log, pos, segments, store>>, stage \in {"poll", "flush"} \/ stage' = stage
             \/ stage' = "down"
      PROVE  InOrder'
  BY <1>2 DEF InOrder, Ordered, UpToDate, Contents, Run, Stored, Packets, PacketsPerSegment
<1>3. CASE Consume
  <2> DEFINE segs == WithPacket(log[pos + 1], pos + 1)
  <2>1. /\ stage = "poll" /\ pos < Len(log) /\ pos' = pos + 1
        /\ segments' = segs /\ UNCHANGED <<log, store>>
    BY <1>3 DEF Consume
  <2>2. \A c \in DOMAIN segs :
            /\ Ordered(c, segs[c].packets, pos + 1)
            /\ UpToDate(c, segs[c].packets, pos + 1)
    BY <2>1, AddKeepsOrder
  <2>3. Contents' /\ Stored' \subseteq DOMAIN log
    BY <2>1, StoreKeepsContents
  <2> HIDE DEF segs
  <2> QED
    BY <2>1, <2>2, <2>3 DEF InOrder, Ordered, UpToDate, Run
<1>4. ASSUME NEW d \in Devices, Upload(d) PROVE InOrder'
  <2>1. /\ d \in todo /\ stage \in {"flush", "finally"}
        /\ stage' = IF stage = "flush" /\ todo' = {} THEN "poll" ELSE stage
        /\ DOMAIN segments' = DOMAIN segments /\ segments'[d] = Reset
        /\ \A c \in DOMAIN segments \ {d} : segments'[c] = segments[c]
        /\ store' \in {store, Put(Object(d, segments[d]))}
        /\ UNCHANGED <<log, pos>>
    BY <1>4, UploadMoves
  <2>2. Contents' /\ Stored' \subseteq DOMAIN log
    BY <2>1, StoreKeepsContents
  <2>3. \A c : Ordered(c, <<>>, pos) /\ UpToDate(c, <<>>, pos)
    BY DEF Ordered, UpToDate, Run
  <2>4. \A c \in DOMAIN segments :
            /\ Ordered(c, segments'[c].packets, pos)
            /\ stage \in {"poll", "flush"} => UpToDate(c, segments'[c].packets, pos)
    BY <2>1, <2>3 DEF InOrder, Reset
  <2>5. stage' \in {"poll", "flush"} => stage \in {"poll", "flush"}
    BY <2>1
  <2> QED
    BY <2>1, <2>2, <2>4, <2>5 DEF InOrder, Ordered, UpToDate, Run
<1>5. CASE Interrupt
  <2>1. /\ stage' = "finally" /\ UNCHANGED <<log, segments>>
        /\ \/ store' = store
           \/ \E d \in todo : store' \in {store, Put(Object(d, segments[d]))}
        /\ pos' \in {pos, pos + 1}
    BY <1>5 DEF Interrupt
  <2>2. Contents' /\ Stored' \subseteq DOMAIN log
    BY <2>1, StoreKeepsContents
  <2>3. ASSUME NEW d \in DOMAIN segments
        PROVE  Ordered(d, segments[d].packets, pos')
    <3> DEFINE s == segments[d].packets
    <3>1. Ordered(d, s, pos) /\ s \in Seq(1 .. MaxLog) /\ pos \in Nat
      BY DEF InOrder, TypeOK, Segment
    <3> HIDE DEF s
    <3>2. \A i \in DOMAIN s : s[i] <= pos'
      BY <2>1, <3>1, SegmenterAssumption DEF Ordered
    <3>3. Ordered(d, s, pos')
      BY <3>1, <3>2 DEF Ordered
    <3> QED
      BY <3>3 DEF s
  <2> QED
    BY <2>1, <2>2, <2>3 DEF InOrder, Ordered, Run
<1>6. ASSUME segments' = <<>>, UNCHANGED <<log, store>>
      PROVE  InOrder'
  BY <1>6 DEF InOrder, Contents, Run, Stored, Packets, PacketsPerSegment
<1> QED
  BY <1>1, <1>2, <1>3, <1>4, <1>5, <1>6
     DEF Next, vars, Tick, IdleTick, AutoCommit, Close, Kill, Start

LEMMA OrderStarts == Init => TypeOK /\ Staged /\ InOrder
<1>1. Init => TypeOK
  <2> SUFFICES ASSUME Init PROVE TypeOK
    OBVIOUS
  <2>1. /\ log \in Seq(Devices) /\ Len(log) = 0
        /\ DOMAIN segments = {} /\ todo = {} /\ store = {}
        /\ readAt \in [1 .. MaxLog -> 0 .. Never]
    BY SegmenterAssumption DEF Init, Never
  <2>2. now \in 0 .. MaxTime /\ Len(log) <= MaxLog /\ kills \in 0 .. MaxKills
    BY SegmenterAssumption, <2>1 DEF Init
  <2>3. /\ pos \in 0 .. Len(log) /\ base \in 0 .. Len(log) /\ idle \in 0 .. now
        /\ committed \in 0 .. Len(log) \cup {NoOffset}
        /\ dropped \cup cut \cup reread \subseteq 1 .. Len(log)
    BY <2>1 DEF Init
  <2>4. stage \in Stages
    BY DEF Init, Stages
  <2> QED
    BY <2>1, <2>2, <2>3, <2>4 DEF TypeOK
<1>2. Init => Staged /\ InOrder
  BY DEF Init, Staged, InOrder, Contents, Stored
<1> QED
  BY <1>1, <1>2

(* What every proof below starts from. *)
Sound == TypeOK /\ Staged /\ InOrder

LEMMA SoundAlways == Spec => []Sound
BY OrderStarts, TypeStep, StagedStep, OrderStep, PTL DEF Spec, Sound

(* Types.                                                                  *)
THEOREM TypeCorrect == Spec => []TypeOK
<1>1. Sound => TypeOK
  BY DEF Sound
<1> QED
  BY SoundAlways, <1>1, PTL

(* An object holds consecutive packets of one device, in order, whatever   *)
(* is interrupted, killed, fails or is started again.                      *)
THEOREM ContentsHold == Spec => []Contents
<1>1. Sound => Contents
  BY DEF Sound, InOrder
<1> QED
  BY SoundAlways, <1>1, PTL

-----------------------------------------------------------------------------
(* No packet is in two places. *)

(* What is in the store has been read, in this life of the process or an   *)
(* earlier one.  An interrupted upload may have stored its object: then    *)
(* that is the object it stores when it is made again.                     *)
Apart ==
    /\ NothingTwice
    /\ Stored \subseteq 1 .. pos \cup reread
    /\ \A d \in todo, o \in store : \A p \in Packets(o) \cap Packets(segments[d]) :
          p \in reread \/ o = Object(d, segments[d])

(* The packets of a device's segment are the device's. *)
LEMMA MemoryOwned ==
    ASSUME InOrder
    PROVE  \A d \in DOMAIN segments : \A p \in Packets(segments[d]) : log[p] = d
BY DEF InOrder, Ordered, Packets

(* Adding the next packet adds it to what is in memory, and to the packets *)
(* of its device.                                                          *)
LEMMA AddAdds ==
    ASSUME TypeOK, Staged, InOrder, stage = "poll", pos < Len(log)
    PROVE  LET d == log[pos + 1]
               segs == WithPacket(d, pos + 1)
           IN  /\ UNION {Packets(segs[c]) : c \in DOMAIN segs} = InMemory \cup {pos + 1}
               /\ \A c \in DOMAIN segs : \A p \in Packets(segs[c]) : log[p] = c
               /\ Packets(segs[d]) = Packets(SegmentOf(d)) \cup {pos + 1}
               /\ \A c \in DOMAIN segs \ {d} : c \in DOMAIN segments /\ segs[c] = segments[c]
<1> DEFINE d == log[pos + 1]
           segs == WithPacket(d, pos + 1)
<1>1. /\ DOMAIN segs = DOMAIN segments \cup {d}
      /\ segs[d].packets = Append(SegmentOf(d).packets, pos + 1)
      /\ \A c \in DOMAIN segs : Ordered(c, segs[c].packets, pos + 1)
  BY AddKeepsOrder
<1>2. SegmentOf(d).packets \in Seq(1 .. MaxLog)
  <2>1. <<>> \in Seq(1 .. MaxLog)
    OBVIOUS
  <2>2. d \in DOMAIN segments => segments[d].packets \in Seq(1 .. MaxLog)
    BY DEF TypeOK, Segment
  <2> QED
    BY <2>1, <2>2 DEF SegmentOf, Reset
<1>3. Packets(segs[d]) = Packets(SegmentOf(d)) \cup {pos + 1}
  <2> DEFINE s == SegmentOf(d).packets
             t == segs[d].packets
  <2>1. s \in Seq(1 .. MaxLog) /\ t = Append(s, pos + 1)
    BY <1>1, <1>2
  <2> HIDE DEF s, t
  <2>2. {t[i] : i \in DOMAIN t} = {s[i] : i \in DOMAIN s} \cup {pos + 1}
    <3>1. DOMAIN t = 1 .. Len(s) + 1 /\ DOMAIN s = 1 .. Len(s) /\ Len(s) \in Nat
      BY <2>1
    <3>2. t[Len(s) + 1] = pos + 1 /\ \A i \in 1 .. Len(s) : t[i] = s[i]
      BY <2>1
    <3> QED
      BY <3>1, <3>2
  <2> QED
    BY <2>2 DEF Packets, s, t
<1>4. \A c \in DOMAIN segs : \A p \in Packets(segs[c]) : log[p] = c
  BY <1>1 DEF Ordered, Packets
<1>5. \A c \in DOMAIN segs \ {d} : c \in DOMAIN segments /\ segs[c] = segments[c]
  BY DEF WithPacket
<1>6. Packets(SegmentOf(d)) = IF d \in DOMAIN segments THEN Packets(segments[d]) ELSE {}
  BY DEF SegmentOf, Packets, Reset
<1>7. UNION {Packets(segs[c]) : c \in DOMAIN segs} = InMemory \cup {pos + 1}
  <2> HIDE DEF segs, d
  <2> QED
    BY <1>1, <1>3, <1>5, <1>6 DEF InMemory
<1> QED
  BY <1>3, <1>4, <1>5, <1>7


(* An upload stores packets that are nowhere else, or the same object.     *)
LEMMA PutKeepsApart ==
    ASSUME TypeOK, InOrder, Apart, NEW d \in todo,
           store' \in {store, Put(Object(d, segments[d]))}
    PROVE  /\ \A o1, o2 \in store' :
                 o1 # o2 => Packets(o1) \cap Packets(o2) \subseteq reread
           /\ Stored' \subseteq 1 .. pos \cup reread
           /\ \A c \in todo, o \in store' : \A p \in Packets(o) \cap Packets(segments[c]) :
                 p \in reread \/ o = Object(c, segments[c])
           /\ \A c \in DOMAIN segments \ todo :
                 Stored' \cap Packets(segments[c]) \subseteq reread
<1> DEFINE new == Object(d, segments[d])
<1>0. d \in DOMAIN segments
  BY DEF TypeOK
<1>1. /\ \A o \in store' : o \in store \/ o = new
      /\ Packets(new) = Packets(segments[d])
      /\ Stored' \subseteq Stored \cup Packets(segments[d])
  BY StoreGrows
<1>2. \A c \in DOMAIN segments \ {d} : Packets(segments[d]) \cap Packets(segments[c]) = {}
  <2> SUFFICES ASSUME NEW c \in DOMAIN segments \ {d},
                      NEW p \in Packets(segments[d]) \cap Packets(segments[c])
               PROVE  FALSE
    OBVIOUS
  <2>1. log[p] = d /\ log[p] = c
    BY <1>0, MemoryOwned
  <2> QED
    BY <2>1
<1>3. \A o \in store : \A p \in Packets(o) \cap Packets(segments[d]) : p \in reread \/ o = new
  BY DEF Apart
<1> HIDE DEF new
<1>4. ASSUME NEW o1 \in store', NEW o2 \in store', o1 # o2
      PROVE  Packets(o1) \cap Packets(o2) \subseteq reread
  <2>1. CASE o1 \in store /\ o2 \in store
    BY <1>4, <2>1 DEF Apart, NothingTwice
  <2>2. CASE o1 \in store /\ o2 = new
    BY <1>1, <1>3, <1>4, <2>2
  <2>3. CASE o2 \in store /\ o1 = new
    BY <1>1, <1>3, <1>4, <2>3
  <2> QED
    BY <1>1, <1>4, <2>1, <2>2, <2>3
<1>5. Stored' \subseteq 1 .. pos \cup reread
  <2>1. Packets(segments[d]) \subseteq 1 .. pos
    BY <1>0, MemoryRead
  <2> QED
    BY <1>1, <2>1 DEF Apart
<1>6. ASSUME NEW c \in todo, NEW o \in store', NEW p \in Packets(o) \cap Packets(segments[c])
      PROVE  p \in reread \/ o = Object(c, segments[c])
  <2>1. CASE o \in store
    BY <2>1 DEF Apart
  <2>2. CASE o = new
    <3>1. p \in Packets(segments[d]) \cap Packets(segments[c]) /\ c \in DOMAIN segments
      BY <1>1, <2>2 DEF TypeOK
    <3>2. c = d
      BY <1>2, <3>1
    <3> QED
      BY <2>2, <3>2 DEF new
  <2> QED
    BY <1>1, <2>1, <2>2
<1>7. ASSUME NEW c \in DOMAIN segments \ todo
      PROVE  Stored' \cap Packets(segments[c]) \subseteq reread
  <2>1. Stored \cap Packets(segments[c]) \subseteq reread /\ c # d
    BY DEF Apart, NothingTwice
  <2> QED
    BY <1>1, <1>2, <2>1
<1> QED
  BY <1>4, <1>5, <1>6, <1>7

LEMMA ApartStep == Sound /\ Apart /\ [Next]_vars => Apart'
<1> SUFFICES ASSUME TypeOK, Staged, InOrder, Apart, [Next]_vars PROVE Apart'
  BY DEF Sound
<1>1. CASE UNCHANGED <<pos, todo, segments, store, reread>>
  BY <1>1 DEF Apart, NothingTwice, Stored, Packets, Object
<1>2. CASE stage = "poll" /\ UNCHANGED <<pos, segments, store, reread>>
  <2>1. Stored' = Stored /\ \A s : Packets(s)' = Packets(s')
    BY <1>2 DEF Stored, Packets
  <2>2. \A d \in DOMAIN segments : Stored \cap Packets(segments[d]) \subseteq reread
    BY <1>2 DEF Apart, NothingTwice, Staged
  <2>3. \A o \in store : Packets(o) \subseteq Stored
    BY DEF Stored
  <2>4. todo' \subseteq DOMAIN segments
    <3>1. TypeOK'
      BY TypeStep
    <3> QED
      BY <1>2, <3>1 DEF TypeOK
  <2> QED
    BY <1>2, <2>1, <2>2, <2>3, <2>4 DEF Apart, NothingTwice, Packets
<1>3. CASE Consume
  <2> DEFINE segs == WithPacket(log[pos + 1], pos + 1)
  <2>1. /\ stage = "poll" /\ pos < Len(log) /\ pos' = pos + 1 /\ pos \in Nat
        /\ segments' = segs /\ todo' \subseteq DOMAIN segs
        /\ UNCHANGED <<store, reread>>
    BY <1>3 DEF Consume, TypeOK, WithPacket
  <2>2. UNION {Packets(segs[c]) : c \in DOMAIN segs} = InMemory \cup {pos + 1}
    BY <2>1, AddAdds
  <2>3. Stored \cap InMemory \subseteq reread
    BY <2>1 DEF Apart, NothingTwice, Staged, InMemory
  <2>4. Stored \cap {pos + 1} \subseteq reread
    BY <2>1 DEF Apart
  <2> HIDE DEF segs
  <2>5. \A c \in DOMAIN segs : Stored \cap Packets(segs[c]) \subseteq reread
    BY <2>2, <2>3, <2>4
  <2>6. \A o \in store : Packets(o) \subseteq Stored
    BY DEF Stored
  <2>7. Stored' = Stored /\ Stored' \subseteq 1 .. pos' \cup reread'
    <3>1. Stored' = Stored
      BY <2>1 DEF Stored, Packets
    <3> QED
      BY <2>1, <3>1 DEF Apart
  <2>8. NothingTwice'
    BY <2>1, <2>5, <2>7 DEF Apart, NothingTwice, Packets
  <2>9. ASSUME NEW d \in todo', NEW o \in store, NEW p \in Packets(o) \cap Packets(segs[d])
        PROVE  p \in reread
    BY <2>1, <2>5, <2>6
  <2> QED
    BY <2>1, <2>7, <2>8, <2>9 DEF Apart, Packets
<1>4. ASSUME NEW d \in Devices, Upload(d) PROVE Apart'
  <2>1. /\ d \in todo /\ d \in DOMAIN segments /\ todo' = todo \ {d}
        /\ DOMAIN segments' = DOMAIN segments /\ segments'[d] = Reset
        /\ \A c \in DOMAIN segments \ {d} : segments'[c] = segments[c]
        /\ store' \in {store, Put(Object(d, segments[d]))}
        /\ UNCHANGED <<pos, reread>>
    BY <1>4, UploadMoves
  <2>2. /\ \A o1, o2 \in store' :
              o1 # o2 => Packets(o1) \cap Packets(o2) \subseteq reread
        /\ Stored' \subseteq 1 .. pos \cup reread
        /\ \A c \in todo, o \in store' : \A p \in Packets(o) \cap Packets(segments[c]) :
              p \in reread \/ o = Object(c, segments[c])
        /\ \A c \in DOMAIN segments \ todo : Stored' \cap Packets(segments[c]) \subseteq reread
    BY <2>1, PutKeepsApart
  <2>3. Packets(Reset) = {} /\ todo \subseteq DOMAIN segments
    BY DEF Packets, Reset, TypeOK
  <2>4. \A c \in DOMAIN segments \ todo' : Stored' \cap Packets(segments'[c]) \subseteq reread
    BY <2>1, <2>2, <2>3
  <2>5. NothingTwice'
    BY <2>1, <2>2, <2>4 DEF NothingTwice, Packets
  <2>6. \A c \in todo', o \in store' : \A p \in Packets(o) \cap Packets(segments'[c]) :
            p \in reread \/ o = Object(c, segments'[c])
    BY <2>1, <2>2, <2>3
  <2> QED
    BY <2>1, <2>2, <2>5, <2>6 DEF Apart, Packets, Object
<1>5. CASE Interrupt
  <2>1. /\ todo' = Open(segments) /\ todo' \subseteq DOMAIN segments
        /\ UNCHANGED <<segments, reread>> /\ pos' \in {pos, pos + 1}
    BY <1>5 DEF Interrupt, Open
  <2>2. \A d \in DOMAIN segments \ todo' : Packets(segments[d]) = {}
    BY <2>1, NoPackets DEF Open
  <2>3. /\ \A o1, o2 \in store' :
              o1 # o2 => Packets(o1) \cap Packets(o2) \subseteq reread
        /\ Stored' \subseteq 1 .. pos \cup reread
        /\ \A c \in todo, o \in store' : \A p \in Packets(o) \cap Packets(segments[c]) :
              p \in reread \/ o = Object(c, segments[c])
        /\ \A c \in DOMAIN segments \ todo : Stored' \cap Packets(segments[c]) \subseteq reread
    <3>1. CASE store' = store
      <4>1. Stored' = Stored
        BY <3>1 DEF Stored, Packets
      <4> QED
        BY <3>1, <4>1 DEF Apart, NothingTwice
    <3>2. CASE \E d \in todo : store' = Put(Object(d, segments[d]))
      BY <3>2, PutKeepsApart
    <3> QED
      BY <1>5, <3>1, <3>2 DEF Interrupt
  <2>4. \A o \in store' : Packets(o) \subseteq Stored'
    BY DEF Stored, Packets
  <2>5. \A c \in todo', o \in store' : \A p \in Packets(o) \cap Packets(segments[c]) :
            p \in reread \/ o = Object(c, segments[c])
    BY <2>1, <2>3, <2>4
  <2>6. NothingTwice'
    BY <2>1, <2>2, <2>3 DEF NothingTwice, Packets
  <2>7. Stored' \subseteq 1 .. pos' \cup reread'
    <3>1. pos \in Nat
      BY DEF TypeOK
    <3>2. 1 .. pos \subseteq 1 .. pos'
      BY <2>1, <3>1
    <3> QED
      BY <2>1, <2>3, <3>2
  <2> QED
    BY <2>1, <2>5, <2>6, <2>7 DEF Apart, Packets, Object
<1>6. CASE Kill
  BY <1>6 DEF Kill, Apart, NothingTwice, Stored, Packets
<1>7. CASE Start
  <2>1. /\ DOMAIN segments' = {} /\ todo' = {} /\ Stored' = Stored
        /\ reread \subseteq reread' /\ store' = store
    BY <1>7 DEF Start, Stored, Packets, Staged
  <2>2. Stored' \subseteq 1 .. pos' \cup reread'
    BY <1>7, <2>1 DEF Start, Apart, InOrder, TypeOK, NoOffset
  <2> QED
    BY <2>1, <2>2 DEF Apart, NothingTwice, Packets
<1> QED
  BY <1>1, <1>2, <1>3, <1>4, <1>5, <1>6, <1>7
     DEF Next, vars, Produce, Tick, IdleTick, AutoCommit, Close

LEMMA ApartAlways == Spec => [](Sound /\ Apart)
<1>1. Init => Sound /\ Apart
  BY OrderStarts DEF Init, Sound, Apart, NothingTwice, Stored
<1>2. Sound /\ [Next]_vars => Sound'
  BY TypeStep, StagedStep, OrderStep DEF Sound
<1> QED
  BY <1>1, <1>2, ApartStep, PTL DEF Spec

(* No packet is in two objects, or in an object and in a segment that goes *)
(* on growing, unless a kill made the process read it again.               *)
THEOREM NothingTwiceHolds == Spec => []NothingTwice
<1>1. Apart => NothingTwice
  BY DEF Apart
<1> QED
  BY ApartAlways, <1>1, PTL

-----------------------------------------------------------------------------
(* When packets were read. *)

(* A segment starts when it is reset, and its packets are read later.      *)
Timely ==
    \A d \in DOMAIN segments :
        /\ segments[d].started <= now
        /\ \A p \in Packets(segments[d]) : readAt[p] \in segments[d].started .. now

(* The next packet is added now. *)
LEMMA AddKeepsTimely ==
    ASSUME TypeOK, Staged, InOrder, Timely, stage = "poll", pos < Len(log),
           readAt' = [readAt EXCEPT ![pos + 1] = now]
    PROVE  LET d == log[pos + 1]
               segs == WithPacket(d, pos + 1)
           IN  /\ readAt'[pos + 1] = now
               /\ \A p \in 1 .. pos : readAt'[p] = readAt[p]
               /\ \A c \in DOMAIN segs :
                     /\ segs[c].started <= now
                     /\ \A p \in Packets(segs[c]) : readAt'[p] \in segs[c].started .. now
<1> DEFINE d == log[pos + 1]
           segs == WithPacket(d, pos + 1)
<1>1. pos \in Nat /\ pos + 1 \in 1 .. MaxLog /\ now \in Nat
  BY SegmenterAssumption DEF TypeOK
<1>2. readAt'[pos + 1] = now /\ \A p \in 1 .. pos : readAt'[p] = readAt[p]
  BY <1>1 DEF TypeOK
<1>3. \A c \in DOMAIN segments :
          /\ segments[c].started \in Nat /\ segments[c].started <= now
          /\ \A p \in Packets(segments[c]) : readAt'[p] \in segments[c].started .. now
  BY <1>2, MemoryRead DEF Timely, TypeOK, Segment
<1>4. /\ Packets(segs[d]) = Packets(SegmentOf(d)) \cup {pos + 1}
      /\ \A c \in DOMAIN segs \ {d} : c \in DOMAIN segments /\ segs[c] = segments[c]
  BY AddAdds
<1>5. segs[d].started = SegmentOf(d).started
  <2>1. segs[d] = Add(SegmentOf(d), pos + 1)
    BY DEF WithPacket
  <2>2. d \in DOMAIN segments => Add(segments[d], pos + 1).started = segments[d].started
    BY DEF TypeOK, Segment, Add
  <2>3. Add(Reset, pos + 1).started = Reset.started
    BY DEF Add, Reset
  <2> QED
    BY <2>1, <2>2, <2>3 DEF SegmentOf
<1>6. /\ SegmentOf(d).started \in Nat /\ SegmentOf(d).started <= now
      /\ \A p \in Packets(SegmentOf(d)) : readAt'[p] \in SegmentOf(d).started .. now
  BY <1>1, <1>3 DEF SegmentOf, Reset, Packets
<1>7. /\ segs[d].started <= now
      /\ \A p \in Packets(segs[d]) : readAt'[p] \in segs[d].started .. now
  <2> HIDE DEF segs, d
  <2> QED
    BY <1>1, <1>2, <1>4, <1>5, <1>6
<1>8. \A c \in DOMAIN segs :
          /\ segs[c].started <= now
          /\ \A p \in Packets(segs[c]) : readAt'[p] \in segs[c].started .. now
  <2> HIDE DEF segs, d
  <2> QED
    BY <1>3, <1>4, <1>7
<1> QED
  BY <1>2, <1>8

LEMMA TimelyStep == Sound /\ Timely /\ [Next]_vars => Timely'
<1> SUFFICES ASSUME TypeOK, Staged, InOrder, Timely, [Next]_vars PROVE Timely'
  BY DEF Sound
<1>1. CASE UNCHANGED <<now, segments, readAt>>
  BY <1>1 DEF Timely, Packets
<1>2. CASE Tick
  <2>1. now' = now + 1 /\ now \in Nat /\ UNCHANGED <<segments, readAt>>
    BY <1>2 DEF Tick, TypeOK
  <2>2. \A d \in DOMAIN segments : segments[d].started \in Nat
    BY DEF TypeOK, Segment
  <2> QED
    BY <2>1, <2>2 DEF Timely, Packets
<1>3. CASE Consume
  <2> DEFINE segs == WithPacket(log[pos + 1], pos + 1)
  <2>1. /\ stage = "poll" /\ pos < Len(log) /\ now' = now /\ segments' = segs
        /\ readAt' = [readAt EXCEPT ![pos + 1] = now]
    BY <1>3 DEF Consume
  <2>2. \A c \in DOMAIN segs :
            /\ segs[c].started <= now
            /\ \A p \in Packets(segs[c]) : readAt'[p] \in segs[c].started .. now
    BY <2>1, AddKeepsTimely
  <2> HIDE DEF segs
  <2> QED
    BY <2>1, <2>2 DEF Timely, Packets
<1>4. ASSUME NEW d \in Devices, Upload(d) PROVE Timely'
  <2>1. /\ DOMAIN segments' = DOMAIN segments /\ segments'[d] = Reset
        /\ \A c \in DOMAIN segments \ {d} : segments'[c] = segments[c]
        /\ UNCHANGED <<now, readAt>>
    BY <1>4, UploadMoves
  <2>2. Reset.started = now /\ Packets(Reset) = {} /\ now \in Nat
    BY DEF Reset, Packets, TypeOK
  <2>3. \A c \in DOMAIN segments :
            /\ segments'[c].started <= now
            /\ \A p \in Packets(segments'[c]) : readAt[p] \in segments'[c].started .. now
    BY <2>1, <2>2 DEF Timely
  <2> QED
    BY <2>1, <2>3 DEF Timely, Packets
<1>5. CASE segments' = <<>>
  BY <1>5 DEF Timely
<1> QED
  BY <1>1, <1>2, <1>3, <1>4, <1>5
     DEF Next, vars, Produce, IdleTick, AutoCommit, Interrupt, Close, Kill, Start

-----------------------------------------------------------------------------
(* A device that disconnects mid-segment. *)

(* A segment that the idle tick leaves was begun in the last two segments, *)
(* and its packets were read after that; one that it does not leave is     *)
(* reset before the next poll.                                             *)
LEMMA QuietStep == Sound /\ Timely /\ QuietLands /\ [Next]_vars => QuietLands'
<1> SUFFICES ASSUME TypeOK, Staged, InOrder, Timely, QuietLands, [Next]_vars
             PROVE  QuietLands'
  BY DEF Sound
<1> USE SegmenterAssumption
<1>0. idle \in Nat /\ now \in Nat /\ idle <= now
  BY DEF TypeOK
<1>1. CASE UNCHANGED <<todo, segments, idle, readAt>>
  BY <1>1 DEF QuietLands, Packets
<1>2. CASE Consume
  <2> DEFINE d == log[pos + 1]
             segs == WithPacket(d, pos + 1)
  <2>1. /\ stage = "poll" /\ todo = {} /\ pos < Len(log) /\ segments' = segs
        /\ readAt' = [readAt EXCEPT ![pos + 1] = now] /\ idle' = idle
    BY <1>2 DEF Consume, Staged
  <2>2. /\ UNION {Packets(segs[c]) : c \in DOMAIN segs} = InMemory \cup {pos + 1}
        /\ readAt'[pos + 1] = now
        /\ \A p \in 1 .. pos : readAt'[p] = readAt[p]
    BY <2>1, AddAdds, AddKeepsTimely
  <2>3. \A p \in InMemory : p \in 1 .. pos /\ idle <= readAt[p] + 2 * SegmentSeconds
    BY <2>1, MemoryRead DEF QuietLands, InMemory
  <2> HIDE DEF d, segs
  <2>4. \A c \in DOMAIN segs : \A p \in Packets(segs[c]) :
            idle <= readAt'[p] + 2 * SegmentSeconds
    <3> SUFFICES ASSUME NEW p \in InMemory \cup {pos + 1}
                 PROVE  idle <= readAt'[p] + 2 * SegmentSeconds
      BY <2>2
    <3> QED
      BY <1>0, <2>2, <2>3
  <2> QED
    BY <2>1, <2>4 DEF QuietLands, Packets
<1>3. CASE IdleTick
  <2>1. /\ todo' = {d \in DOMAIN segments : Quiet(segments[d])}
        /\ UNCHANGED <<segments, readAt>> /\ idle' = now
    BY <1>3 DEF IdleTick
  <2>2. ASSUME NEW d \in DOMAIN segments \ todo', NEW p \in Packets(segments[d])
        PROVE  now <= readAt[p] + 2 * SegmentSeconds
    <3>1. segments[d].packets # <<>>
      BY NoPackets
    <3>2. ~(segments[d].started + 2 * SegmentSeconds < now)
      BY <2>1, <3>1 DEF Quiet
    <3>3. segments[d].started \in Nat /\ readAt[p] \in segments[d].started .. now
      BY DEF TypeOK, Segment, Timely
    <3> QED
      BY <1>0, <3>2, <3>3
  <2> QED
    BY <2>1, <2>2 DEF QuietLands, Packets
<1>4. ASSUME NEW d \in Devices, Upload(d) PROVE QuietLands'
  <2>1. /\ todo' = todo \ {d} /\ DOMAIN segments' = DOMAIN segments /\ segments'[d] = Reset
        /\ \A c \in DOMAIN segments \ {d} : segments'[c] = segments[c]
        /\ UNCHANGED <<idle, readAt>>
    BY <1>4, UploadMoves
  <2>2. Packets(Reset) = {}
    BY DEF Reset, Packets
  <2>3. \A c \in DOMAIN segments \ todo' : \A p \in Packets(segments'[c]) :
            idle <= readAt[p] + 2 * SegmentSeconds
    BY <2>1, <2>2 DEF QuietLands
  <2> QED
    BY <2>1, <2>3 DEF QuietLands, Packets
<1>5. CASE Interrupt
  <2>1. todo' = Open(segments) /\ UNCHANGED <<segments, idle, readAt>>
    BY <1>5 DEF Interrupt
  <2>2. \A d \in DOMAIN segments \ todo' : Packets(segments[d]) = {}
    BY <2>1, NoPackets DEF Open
  <2> QED
    BY <2>1, <2>2 DEF QuietLands, Packets
<1>6. CASE segments' = <<>>
  BY <1>6 DEF QuietLands
<1> QED
  BY <1>1, <1>2, <1>3, <1>4, <1>5, <1>6
     DEF Next, vars, Produce, Tick, AutoCommit, Close, Kill, Start

(* No packet stays in memory, unless it is being uploaded, when a poll     *)
(* finds nothing two segments after it was read, however long the uploads  *)
(* before that poll have taken.                                            *)
THEOREM QuietLandsHolds == Spec => []QuietLands
<1>1. Init => Sound /\ Timely /\ QuietLands
  BY OrderStarts DEF Init, Sound, Timely, QuietLands
<1>2. Sound /\ [Next]_vars => Sound'
  BY TypeStep, StagedStep, OrderStep DEF Sound
<1> QED
  BY <1>1, <1>2, TimelyStep, QuietStep, PTL DEF Spec

-----------------------------------------------------------------------------
(* Nothing is lost, while no device is read faster than it records a       *)
(* segment: the keys of a device's objects are then all different.         *)

(* The objects of a device are older than its segment; one that is still   *)
(* to be uploaded in the finally block may be there already.               *)
Older ==
    /\ \A o \in store : o.at <= now
    /\ stage \in {"poll", "flush"} =>
          \A o \in store : IF o.dev \in DOMAIN segments
                           THEN o.at < segments[o.dev].started
                           ELSE o.at < now
    /\ stage = "finally" =>
          \A o \in store : o.dev \in todo =>
              o.at < segments[o.dev].started \/ o = Object(o.dev, segments[o.dev])
    /\ stage = "flush" => \A d \in todo : segments[d].started < now

Fresh ==
    /\ Older
    /\ committed # NoOffset => committed <= pos
    /\ NothingLost

(* Packets in order are as many as their sequence is long. *)
LEMMA PacketsCounted ==
    ASSUME NEW s, s.packets \in Seq(Nat),
           \A i, j \in DOMAIN s.packets : i < j => s.packets[i] < s.packets[j]
    PROVE  IsFiniteSet(Packets(s)) /\ Cardinality(Packets(s)) = Len(s.packets)
<1> DEFINE t == s.packets
           n == Len(t)
<1>1. t \in Seq(Nat) /\ n \in Nat /\ DOMAIN t = 1 .. n
  OBVIOUS
<1>2. t \in Bijection(1 .. n, Packets(s))
  <2>1. \A i, j \in 1 .. n : i < j => t[i] < t[j]
    BY <1>1
  <2>2. t \in [1 .. n -> Packets(s)]
    <3>1. \A i \in 1 .. n : t[i] \in Packets(s)
      BY <1>1 DEF Packets
    <3>2. t = [i \in 1 .. n |-> t[i]]
      BY <1>1
    <3> QED
      BY <3>1, <3>2
  <2>3. \A i, j \in 1 .. n : t[i] = t[j] => i = j
    <3> SUFFICES ASSUME NEW i \in 1 .. n, NEW j \in 1 .. n, t[i] = t[j]
                 PROVE  i = j
      OBVIOUS
    <3>1. t[i] \in Nat /\ t[j] \in Nat
      BY <1>1
    <3>2. ~(i < j) /\ ~(j < i)
      BY <2>1, <3>1
    <3> QED
      BY <1>1, <3>2
  <2>4. \A p \in Packets(s) : \E i \in 1 .. n : t[i] = p
    BY <1>1 DEF Packets
  <2> HIDE DEF t, n
  <2> QED
    BY <2>2, <2>3, <2>4 DEF Bijection, Injection, Surjection, IsInjective
<1>3. ExistsBijection(1 .. n, Packets(s))
  BY <1>2 DEF ExistsBijection
<1> QED
  BY <1>1, <1>3, FS_CountingElements, FS_NatBijection

(* In real time a segment that gets full was not begun in this second.     *)
LEMMA FullIsOld ==
    ASSUME TypeOK, Staged, InOrder, Timely, ReadRate < PacketsPerSegment,
           stage = "poll", pos < Len(log),
           Cardinality(ReadNow(log[pos + 1])) < ReadRate,
           Full(Add(SegmentOf(log[pos + 1]), pos + 1))
    PROVE  /\ log[pos + 1] \in DOMAIN segments
           /\ segments[log[pos + 1]].started < now
<1> USE SegmenterAssumption
<1> DEFINE d == log[pos + 1]
           s == SegmentOf(d)
           n == Len(s.packets)
           pps == PacketsPerSegment
<1>1. ReadRate \in Nat \ {0} /\ pps \in Nat /\ ReadRate < pps
  BY DEF PacketsPerSegment
<1>2. WithPacket(d, pos + 1)[d] = Add(s, pos + 1)
  BY DEF WithPacket
<1>3. Add(s, pos + 1).packets = Append(s.packets, pos + 1)
  BY <1>2, AddKeepsOrder
<1>4. s.packets \in Seq(1 .. MaxLog) /\ Ordered(d, s.packets, pos)
  <2>1. CASE d \in DOMAIN segments
    BY <2>1 DEF SegmentOf, TypeOK, Segment, InOrder
  <2>2. CASE d \notin DOMAIN segments
    <3>1. <<>> \in Seq(1 .. MaxLog) /\ s.packets = <<>>
      BY <2>2 DEF SegmentOf, Reset
    <3>2. Ordered(d, <<>>, pos)
      BY DEF Ordered, Run
    <3> QED
      BY <3>1, <3>2
  <2> QED
    BY <2>1, <2>2
<1>5. n \in Nat /\ n + 1 >= pps
  <2>1. n \in Nat /\ Len(Append(s.packets, pos + 1)) = n + 1
    BY <1>4
  <2>2. Len(Add(s, pos + 1).packets) >= pps
    BY DEF Full
  <2> QED
    BY <1>3, <2>1, <2>2
<1>6. d \in DOMAIN segments
  <2> SUFFICES ASSUME d \notin DOMAIN segments PROVE FALSE
    OBVIOUS
  <2>1. n = 0
    BY DEF SegmentOf, Reset
  <2> QED
    BY <1>1, <1>5, <2>1
<1>7. s = segments[d]
  BY <1>6 DEF SegmentOf
<1>8. IsFiniteSet(Packets(s)) /\ Cardinality(Packets(s)) = n
  <2>1. s.packets \in Seq(Nat)
    BY <1>4
  <2>2. \A i, j \in DOMAIN s.packets : i < j => s.packets[i] < s.packets[j]
    BY <1>4 DEF Ordered
  <2> QED
    BY <2>1, <2>2, PacketsCounted
<1>9. IsFiniteSet(ReadNow(d)) /\ Cardinality(ReadNow(d)) \in Nat
  <2>1. DOMAIN log = 1 .. Len(log) /\ Len(log) \in Int
    BY DEF TypeOK
  <2>2. IsFiniteSet(DOMAIN log) /\ ReadNow(d) \in SUBSET DOMAIN log
    BY <2>1, FS_Interval DEF ReadNow
  <2> QED
    BY <2>2, FS_Subset, FS_CardinalityType
<1>10. segments[d].started \in Nat /\ now \in Nat /\ segments[d].started <= now
  <2>1. segments[d] \in Segment /\ now \in Nat
    BY <1>6 DEF TypeOK
  <2> QED
    BY <1>6, <2>1 DEF Timely, Segment
<1>11. ASSUME segments[d].started = now
       PROVE  Packets(s) \subseteq ReadNow(d)
  <2>1. \A p \in Packets(s) : readAt[p] \in now .. now /\ p \in 1 .. pos /\ log[p] = d
    BY <1>6, <1>7, <1>11, MemoryRead, MemoryOwned DEF Timely
  <2>2. 1 .. pos \subseteq DOMAIN log
    BY DEF TypeOK
  <2> QED
    BY <1>10, <2>1, <2>2 DEF ReadNow
<1>12. segments[d].started # now
  <2> SUFFICES ASSUME segments[d].started = now PROVE FALSE
    OBVIOUS
  <2>1. n <= Cardinality(ReadNow(d))
    BY <1>8, <1>9, <1>11, FS_Subset
  <2>2. Cardinality(ReadNow(d)) < ReadRate
    OBVIOUS
  <2> HIDE DEF n, pps
  <2> QED
    BY <1>1, <1>5, <1>9, <2>1, <2>2
<1> QED
  BY <1>6, <1>10, <1>12


(* What is uploaded replaces nothing but itself.                           *)
LEMMA PutAdds ==
    ASSUME TypeOK, Older, NEW d \in todo, stage \in {"flush", "finally"}
    PROVE  Put(Object(d, segments[d])) = store \cup {Object(d, segments[d])}
<1> DEFINE new == Object(d, segments[d])
<1>1. new.dev = d /\ new.at = segments[d].started /\ d \in DOMAIN segments
  BY DEF Object, TypeOK
<1>2. segments[d].started \in Nat /\ \A o \in store : o.at \in Nat
  BY <1>1 DEF TypeOK, Segment
<1>3. ASSUME NEW o \in store, Key(o) = Key(new) PROVE o = new
  <2>1. o.dev = d /\ o.at = segments[d].started
    BY <1>1, <1>3 DEF Key
  <2> QED
    BY <1>1, <1>2, <2>1 DEF Older
<1> QED
  BY <1>3 DEF Put

(* So an upload loses nothing that was in the store.                       *)
LEMMA PutKeepsStored ==
    ASSUME TypeOK, Older, NEW d \in todo, stage \in {"flush", "finally"},
           store' \in {store, Put(Object(d, segments[d]))}
    PROVE  /\ Stored \subseteq Stored'
           /\ store' = Put(Object(d, segments[d])) => Packets(segments[d]) \subseteq Stored'
<1>1. store \subseteq store' /\ (store' = store \/ Object(d, segments[d]) \in store')
  BY PutAdds
<1>2. store' = Put(Object(d, segments[d])) => Object(d, segments[d]) \in store'
  BY PutAdds
<1>3. Stored' = UNION {Packets(o) : o \in store'}
  BY DEF Stored, Packets
<1>4. Packets(Object(d, segments[d])) = Packets(segments[d])
  BY DEF Object, Packets
<1> QED
  BY <1>1, <1>2, <1>3, <1>4 DEF Stored

LEMMA OlderStep ==
    ReadRate < PacketsPerSegment
        => (Sound /\ Timely /\ Older /\ [Next]_vars => Older')
<1> SUFFICES ASSUME ReadRate < PacketsPerSegment,
                    TypeOK, Staged, InOrder, Timely, Older, [Next]_vars
             PROVE  Older'
  BY DEF Sound
<1> USE SegmenterAssumption
<1>0. /\ now \in Nat /\ \A o \in store : o.at \in Nat
      /\ \A d \in DOMAIN segments :
            segments[d].started \in Nat /\ segments[d].started <= now
      /\ todo \subseteq DOMAIN segments /\ stage \in Stages
  BY DEF TypeOK, Timely, Segment
<1>1. CASE UNCHANGED <<now, stage, todo, segments, store>>
  BY <1>1 DEF Older, Object
<1>2. CASE Tick
  <2>1. now' = now + 1 /\ UNCHANGED <<stage, todo, segments, store>>
    BY <1>2 DEF Tick
  <2>2. \A o \in store : o.at <= now + 1 /\ (o.at < now => o.at < now + 1)
    BY <1>0 DEF Older
  <2>3. \A d \in todo : segments[d].started < now + 1
    BY <1>0
  <2> QED
    BY <2>1, <2>2, <2>3 DEF Older, Object
<1>3. CASE Consume
  <2> DEFINE d == log[pos + 1]
             segs == WithPacket(d, pos + 1)
  <2>1. /\ stage = "poll" /\ pos < Len(log)
        /\ Cardinality(ReadNow(d)) < ReadRate
        /\ segments' = segs
        /\ todo' = IF Full(Add(SegmentOf(d), pos + 1)) THEN {d} ELSE {}
        /\ stage' \in {"poll", "flush"}
        /\ UNCHANGED <<now, store>>
    BY <1>3 DEF Consume
  <2>2. \A c \in DOMAIN segs \ {d} : c \in DOMAIN segments /\ segs[c] = segments[c]
    BY <2>1, AddAdds
  <2>3. DOMAIN segs = DOMAIN segments \cup {d}
    BY DEF WithPacket
  <2>4. segs[d].started = IF d \in DOMAIN segments THEN segments[d].started ELSE now
    <3>1. segs[d] = Add(SegmentOf(d), pos + 1)
      BY DEF WithPacket
    <3>2. d \in DOMAIN segments => Add(segments[d], pos + 1).started = segments[d].started
      BY DEF TypeOK, Segment, Add
    <3>3. Add(Reset, pos + 1).started = now
      BY DEF Add, Reset
    <3> QED
      BY <3>1, <3>2, <3>3 DEF SegmentOf
  <2>5. todo' # {} => d \in DOMAIN segments /\ segments[d].started < now
    BY <2>1, FullIsOld
  <2>6. todo' \subseteq {d}
    BY <2>1
  <2> HIDE DEF segs, d
  <2>7. \A o \in store : IF o.dev \in DOMAIN segs THEN o.at < segs[o.dev].started
                                                  ELSE o.at < now
    BY <2>1, <2>2, <2>3, <2>4 DEF Older
  <2>8. \A c \in todo' : segs[c].started < now
    BY <2>4, <2>5, <2>6
  <2>9. \A o \in store : o.at <= now
    BY DEF Older
  <2> QED
    BY <2>1, <2>7, <2>8, <2>9 DEF Older
<1>4. CASE IdleTick
  <2>1. /\ stage = "poll" /\ stage' \in {"poll", "flush"}
        /\ todo' = {d \in DOMAIN segments : Quiet(segments[d])}
        /\ UNCHANGED <<now, segments, store>>
    BY <1>4 DEF IdleTick
  <2>2. \A d \in todo' : segments[d].started < now
    BY <1>0, <2>1 DEF Quiet
  <2> QED
    BY <2>1, <2>2 DEF Older
<1>5. ASSUME NEW d \in Devices, Upload(d) PROVE Older'
  <2>1. /\ d \in todo /\ d \in DOMAIN segments /\ todo' = todo \ {d}
        /\ stage \in {"flush", "finally"}
        /\ stage' = IF stage = "flush" /\ todo' = {} THEN "poll" ELSE stage
        /\ DOMAIN segments' = DOMAIN segments /\ segments'[d] = Reset
        /\ \A c \in DOMAIN segments \ {d} : segments'[c] = segments[c]
        /\ store' \in {store, Put(Object(d, segments[d]))}
        /\ now' = now
    BY <1>5, UploadMoves
  <2>2. Reset.started = now
    BY DEF Reset
  <2>3. \A o \in store' : o \in store \/ (o.dev = d /\ o.at = segments[d].started)
    <3>1. \A o \in store' : o \in store \/ o = Object(d, segments[d])
      BY <2>1, StoreGrows
    <3>2. Object(d, segments[d]).dev = d /\ Object(d, segments[d]).at = segments[d].started
      BY DEF Object
    <3> QED
      BY <3>1, <3>2
  <2>4. \A o \in store' : o.at <= now
    BY <1>0, <2>1, <2>3 DEF Older
  <2>5. CASE stage = "flush"
    <3>1. segments[d].started < now
      BY <2>1, <2>5 DEF Older
    <3>2. \A o \in store' : IF o.dev \in DOMAIN segments
                            THEN o.at < segments'[o.dev].started
                            ELSE o.at < now
      <4> SUFFICES ASSUME NEW o \in store'
                   PROVE  IF o.dev \in DOMAIN segments
                          THEN o.at < segments'[o.dev].started
                          ELSE o.at < now
        OBVIOUS
      <4>1. CASE o \in store
        <5>1. IF o.dev \in DOMAIN segments THEN o.at < segments[o.dev].started
                                           ELSE o.at < now
          BY <2>5, <4>1 DEF Older
        <5>2. CASE o.dev = d
          BY <1>0, <2>1, <2>2, <3>1, <4>1, <5>1, <5>2
        <5> QED
          BY <2>1, <5>1, <5>2
      <4>2. CASE o.dev = d /\ o.at = segments[d].started
        BY <2>1, <2>2, <3>1, <4>2
      <4> QED
        BY <2>3, <4>1, <4>2
    <3>3. \A c \in todo' : segments'[c].started < now
      BY <1>0, <2>1, <2>5 DEF Older
    <3>4. stage' \in {"poll", "flush"}
      BY <2>1, <2>5
    <3> QED
      BY <2>1, <2>4, <3>2, <3>3, <3>4 DEF Older
  <2>6. CASE stage = "finally"
    <3>1. ASSUME NEW o \in store', o.dev \in todo'
          PROVE  \/ o.at < segments'[o.dev].started
                 \/ o = Object(o.dev, segments'[o.dev])
      <4>1. o.dev # d /\ o \in store /\ o.dev \in todo
        BY <2>1, <2>3, <3>1
      <4>2. segments'[o.dev] = segments[o.dev]
        BY <1>0, <2>1, <4>1
      <4> QED
        BY <2>6, <4>1, <4>2 DEF Older
    <3>2. stage' = "finally"
      BY <2>1, <2>6
    <3> QED
      BY <2>1, <2>4, <3>1, <3>2 DEF Older, Object
  <2> QED
    BY <2>1, <2>5, <2>6
<1>6. CASE Interrupt
  <2>1. /\ stage \in {"poll", "flush"} /\ stage' = "finally"
        /\ todo' = Open(segments) /\ todo' \subseteq DOMAIN segments
        /\ UNCHANGED <<now, segments>>
    BY <1>6 DEF Interrupt, Open
  <2>2. ASSUME NEW o \in store'
        PROVE  /\ o.at <= now
               /\ o.dev \in todo' => \/ o.at < segments[o.dev].started
                                     \/ o = Object(o.dev, segments[o.dev])
    <3>1. CASE o \in store
      BY <2>1, <3>1 DEF Older
    <3>2. CASE o \notin store
      <4>1. PICK d \in todo : store' = Put(Object(d, segments[d]))
        BY <1>6, <3>2 DEF Interrupt
      <4>2. o = Object(d, segments[d])
        BY <3>2, <4>1, StoreGrows
      <4>3. o.dev = d /\ o.at = segments[d].started
        BY <4>2 DEF Object
      <4> QED
        BY <1>0, <4>2, <4>3
    <3> QED
      BY <3>1, <3>2
  <2> QED
    BY <2>1, <2>2 DEF Older, Object
<1>7. CASE Close
  BY <1>7 DEF Close, Older
<1>8. CASE Kill
  BY <1>8 DEF Kill, Older
<1>9. CASE Start
  <2>1. now' = now + 1 /\ stage' = "poll" /\ DOMAIN segments' = {} /\ store' = store
    BY <1>9 DEF Start
  <2>2. \A o \in store : o.at < now + 1
    BY <1>0 DEF Older
  <2>3. \A o \in store : o.at <= now + 1
    BY <1>0, <2>2
  <2> QED
    BY <2>1, <2>2, <2>3 DEF Older
<1> QED
  BY <1>1, <1>2, <1>3, <1>4, <1>5, <1>6, <1>7, <1>8, <1>9 DEF Next, vars, Produce, AutoCommit

LEMMA LostStep == Sound /\ Fresh /\ [Next]_vars => NothingLost'
<1> SUFFICES ASSUME TypeOK, Staged, InOrder, Older, committed # NoOffset => committed <= pos,
                    NothingLost, [Next]_vars
             PROVE  NothingLost'
  BY DEF Sound, Fresh
<1>0. /\ pos \in Nat /\ Len(log) \in Nat /\ base \in Nat
      /\ committed \in Nat
  BY SegmenterAssumption DEF TypeOK, NoOffset
<1>1. CASE UNCHANGED <<base, pos, segments, store, dropped, cut>>
  <2>1. InMemory' = InMemory /\ Stored' = Stored
    BY <1>1 DEF InMemory, Stored, Packets
  <2> QED
    BY <1>1, <2>1 DEF NothingLost
<1>2. CASE Consume
  <2> DEFINE segs == WithPacket(log[pos + 1], pos + 1)
  <2>1. /\ stage = "poll" /\ pos < Len(log) /\ pos' = pos + 1 /\ segments' = segs
        /\ UNCHANGED <<base, store, dropped, cut>>
    BY <1>2 DEF Consume
  <2>2. UNION {Packets(segs[c]) : c \in DOMAIN segs} = InMemory \cup {pos + 1}
    BY <2>1, AddAdds
  <2> HIDE DEF segs
  <2>3. InMemory' = InMemory \cup {pos + 1} /\ Stored' = Stored
    <3>1. InMemory' = UNION {Packets(segs[c]) : c \in DOMAIN segs}
      BY <2>1 DEF InMemory, Packets
    <3>2. Stored' = Stored
      BY <2>1 DEF Stored, Packets
    <3> QED
      BY <2>2, <3>1, <3>2
  <2> QED
    BY <1>0, <2>1, <2>3 DEF NothingLost
<1>3. ASSUME NEW d \in Devices, Upload(d) PROVE NothingLost'
  <2>1. /\ d \in todo /\ d \in DOMAIN segments /\ stage \in {"flush", "finally"}
        /\ DOMAIN segments' = DOMAIN segments
        /\ \A c \in DOMAIN segments \ {d} : segments'[c] = segments[c]
        /\ store' \in {store, Put(Object(d, segments[d]))}
        /\ \/ store' = Put(Object(d, segments[d])) /\ dropped' = dropped
           \/ dropped' = dropped \cup Packets(segments[d])
        /\ UNCHANGED <<base, pos, cut>>
    BY <1>3, UploadMoves
  <2>2. /\ Stored \subseteq Stored'
        /\ store' = Put(Object(d, segments[d])) => Packets(segments[d]) \subseteq Stored'
    BY <2>1, PutKeepsStored
  <2>3. InMemory \subseteq InMemory' \cup Packets(segments[d])
    <3>1. InMemory' = UNION {Packets(segments'[c]) : c \in DOMAIN segments'}
      BY DEF InMemory, Packets
    <3> QED
      BY <2>1, <3>1 DEF InMemory
  <2>4. Stored \cup InMemory \cup dropped \subseteq Stored' \cup InMemory' \cup dropped'
    BY <2>1, <2>2, <2>3
  <2> QED
    BY <2>1, <2>4 DEF NothingLost
<1>4. CASE Interrupt
  <2>1. InMemory' = InMemory
    BY <1>4 DEF Interrupt, InMemory, Packets
  <2>2. Stored \subseteq Stored'
    <3>1. CASE store' = store
      BY <3>1 DEF Stored, Packets
    <3>2. CASE store' # store
      <4>1. PICK d \in todo : store' = Put(Object(d, segments[d]))
        BY <1>4, <3>2 DEF Interrupt
      <4>2. stage \in {"flush", "finally"}
        BY <1>4, <4>1 DEF Interrupt, Staged
      <4> QED
        BY <4>1, <4>2, PutKeepsStored
    <3> QED
      BY <3>1, <3>2
  <2>3. \/ UNCHANGED <<pos, cut>>
        \/ pos' = pos + 1 /\ cut' = cut \cup {pos + 1}
    BY <1>4 DEF Interrupt
  <2>4. UNCHANGED <<base, dropped>>
    BY <1>4 DEF Interrupt
  <2>5. base + 1 .. pos' \subseteq (base + 1 .. pos) \cup cut'
    BY <1>0, <2>3
  <2>6. cut \subseteq cut'
    BY <2>3
  <2> QED
    BY <2>1, <2>2, <2>4, <2>5, <2>6 DEF NothingLost
<1>5. CASE Kill
  <2>1. /\ Stored' = Stored /\ dropped' = dropped \cup InMemory
        /\ UNCHANGED <<base, pos, cut>>
    BY <1>5 DEF Kill, Stored, Packets
  <2> QED
    BY <2>1 DEF NothingLost
<1>6. CASE Start
  <2>1. /\ Stored' = Stored /\ InMemory = {}
        /\ UNCHANGED <<dropped, cut>>
        /\ pos' = IF committed = NoOffset THEN Len(log) ELSE committed
        /\ base' = IF committed = NoOffset THEN Len(log) ELSE base
    BY <1>6 DEF Start, Stored, Packets, Staged
  <2>2. base' + 1 .. pos' \subseteq Stored \cup dropped \cup cut
    BY <1>0, <2>1 DEF NothingLost
  <2> QED
    BY <2>1, <2>2 DEF NothingLost
<1> QED
  BY <1>1, <1>2, <1>3, <1>4, <1>5, <1>6
     DEF Next, vars, Produce, Tick, IdleTick, AutoCommit, Close

LEMMA FreshStep ==
    ReadRate < PacketsPerSegment
        => (Sound /\ Timely /\ Fresh /\ [Next]_vars => Fresh')
<1> SUFFICES ASSUME ReadRate < PacketsPerSegment, Sound, Timely, Fresh, [Next]_vars
             PROVE  Fresh'
  OBVIOUS
<1>1. Older' /\ NothingLost'
  BY OlderStep, LostStep DEF Fresh
<1>2. /\ pos \in Nat /\ Len(log) \in Nat /\ committed \in Nat
      /\ committed # NoOffset => committed <= pos
  BY SegmenterAssumption DEF Sound, TypeOK, NoOffset, Fresh
<1>3. CASE committed' = committed /\ pos' \in {pos, pos + 1}
  BY <1>1, <1>2, <1>3 DEF Fresh, NoOffset
<1>4. CASE committed' \in {pos, NoOffset} /\ pos' = pos
  BY <1>1, <1>2, <1>4 DEF Fresh, NoOffset
<1>5. CASE Start
  BY <1>1, <1>2, <1>5 DEF Start, Fresh, NoOffset
<1>6. CASE Interrupt
  <2>1. committed' = committed /\ pos' \in {pos, pos + 1}
    BY <1>6 DEF Interrupt
  <2> QED
    BY <1>3, <2>1
<1>7. CASE \E d \in Devices : Produce(d) \/ Upload(d)
  BY <1>3, <1>7 DEF Produce, Upload
<1> QED
  BY <1>3, <1>4, <1>5, <1>6, <1>7
     DEF Next, vars, Tick, Consume, IdleTick, AutoCommit, Close, Kill

(* Every packet read is stored, in memory, dropped by a failure or a kill, *)
(* or was in the hands of the poll() that Ctrl-C broke off, while a device *)
(* is not read faster than a segment in a second: a faster one overwrites  *)
(* its own objects (the run SegmenterBurst).                               *)
THEOREM NothingLostHolds ==
    ASSUME ReadRate < PacketsPerSegment
    PROVE  Spec => []NothingLost
<1>1. Init => Sound /\ Timely /\ Fresh
  <2>1. Init => Timely /\ Older /\ NothingLost
    BY DEF Init, Timely, Older, NothingLost
  <2> QED
    BY <2>1, OrderStarts DEF Init, Sound, Fresh
<1>2. Sound /\ [Next]_vars => Sound'
  BY TypeStep, StagedStep, OrderStep DEF Sound
<1>3. Sound /\ Timely /\ Fresh /\ [Next]_vars => Fresh'
  BY FreshStep
<1>4. Fresh => NothingLost
  BY DEF Fresh
<1> QED
  BY <1>1, <1>2, <1>3, <1>4, TimelyStep, PTL DEF Spec
=============================================================================
