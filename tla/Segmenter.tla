----------------------------- MODULE Segmenter -----------------------------
(***************************************************************************)
(* The segmenter (server/segmenter.py) with the object store it writes to  *)
(* (server/storage.py): it reads the audio topic in order, collects the    *)
(* packets of every device, and uploads a device's packets as one object   *)
(* when there are PacketsPerSegment of them, when a poll finds nothing to  *)
(* read and they are old, or when it is stopped.                           *)
(*                                                                         *)
(* The topic is the sequence of the devices whose packets it holds; a      *)
(* packet is its offset.  librdkafka commits the position in the           *)
(* background, whether or not the packets read are in the store.  The      *)
(* clock counts whole seconds, which is the resolution of an object's key. *)
(***************************************************************************)
EXTENDS Naturals, Sequences, FiniteSets

CONSTANTS
    Devices,        \* device ids
    PerSecond,      \* packets per second of audio, 50
    SegmentSeconds, \* SEGMENT_SECONDS
    ReadRate,       \* most packets of a device read in a second: PerSecond when
                    \* a device is heard in real time, more in a backlog
    MaxKills,       \* bound: times the process is killed
    UploadsFail,    \* may put_object raise?
    MaxLog,         \* bound: packets produced
    MaxTime         \* bound: last second of the clock

ASSUME SegmenterAssumption ==
    /\ PerSecond \in Nat \ {0}
    /\ SegmentSeconds \in Nat \ {0}
    /\ ReadRate \in Nat \ {0}
    /\ MaxKills \in Nat
    /\ UploadsFail \in BOOLEAN
    /\ MaxLog \in Nat
    /\ MaxTime \in Nat

PacketsPerSegment == SegmentSeconds * PerSecond

NoOffset == MaxLog + 1
Never == MaxTime + 1

VARIABLES
    log,        \* the audio topic: the device of every packet
    now,        \* the clock
    stage,      \* where run() is: see Stages
    todo,       \* devices whose segment is still to be uploaded in this stage
    pos,        \* packets read
    committed,  \* the committed position, or NoOffset
    segments,   \* the open segments, by device
    store,      \* the objects
    idle,       \* ghost: when a poll of this process last found nothing
    base,       \* ghost: where reading started without a committed position
    kills,      \* ghost: how often the process was killed
    dropped,    \* ghost: packets dropped by a failed upload or a kill
    cut,        \* ghost: packets in the hands of a poll() that Ctrl-C broke off
    reread,     \* ghost: packets read again after a kill
    readAt      \* ghost: when a packet was last read

vars == <<log, now, stage, todo, pos, committed, segments, store, idle, base,
          kills, dropped, cut, reread, readAt>>

\* At poll(), in flush(), in the finally block, or not there.
Stages == {"poll", "flush", "finally", "down"}

(* DeviceSegment.reset(): the segment starts at the time of the reset.     *)
Reset == [packets |-> <<>>, started |-> now]

(* DeviceSegment.add() *)
Add(s, p) == [s EXCEPT !.packets = Append(@, p)]

\* variant: a full segment noticed one packet late
FullLate(s) == Len(s.packets) > PacketsPerSegment

Full(s) == Len(s.packets) >= PacketsPerSegment

(* The segment of a device: created when its first packet is read.         *)
SegmentOf(d) == IF d \in DOMAIN segments THEN segments[d] ELSE Reset

Init ==
    /\ log = <<>>
    /\ now = 0
    /\ stage = "poll"
    /\ todo = {}
    /\ pos = 0
    /\ committed = NoOffset
    /\ segments = <<>>
    /\ store = {}
    /\ idle = 0
    /\ base = 0
    /\ kills = 0
    /\ dropped = {}
    /\ cut = {}
    /\ reread = {}
    /\ readAt = [p \in 1 .. MaxLog |-> Never]

-----------------------------------------------------------------------------
(* Flushing. *)

Object(d, s) == [dev |-> d, at |-> s.started,
                 seconds |-> Len(s.packets) \div PerSecond,
                 packets |-> s.packets]

(* key_for: device, start to the second, whole seconds of audio.           *)
Key(o) == <<o.dev, o.at, o.seconds>>

Packets(s) == {s.packets[i] : i \in DOMAIN s.packets}
Stored == UNION {Packets(o) : o \in store}
InMemory == UNION {Packets(segments[d]) : d \in DOMAIN segments}

(* put_object replaces an object with the same key.                        *)
Put(o) == {n \in store : Key(n) # Key(o)} \cup {o}

(* What comes after the last of the uploads of a stage.                    *)
After(left) == IF stage = "flush" /\ left = {} THEN "poll" ELSE stage

\* variant: a segment not reset after its upload
UploadKeeping(d) ==
    /\ d \in todo
    /\ store' = Put(Object(d, segments[d]))
    /\ todo' = todo \ {d}
    /\ stage' = After(todo')
    /\ UNCHANGED <<log, now, pos, committed, segments, idle, base, kills, dropped, cut,
                   reread, readAt>>

(* flush() of a segment: put_object stores it or raises, having stored it  *)
(* or not; the segment is reset in every case.  An upload takes its time:  *)
(* nothing is polled before it returns, and the clock goes on.             *)
Upload(d) ==
    /\ d \in todo
    /\ \/ store' = Put(Object(d, segments[d])) /\ UNCHANGED dropped
       \/ /\ UploadsFail
          /\ store' \in {store, Put(Object(d, segments[d]))}
          /\ dropped' = dropped \cup Packets(segments[d])
    /\ segments' = [segments EXCEPT ![d] = Reset]
    /\ todo' = todo \ {d}
    /\ stage' = After(todo')
    /\ UNCHANGED <<log, now, pos, committed, idle, base, kills, cut, reread, readAt>>

-----------------------------------------------------------------------------
(* The devices, through ingest, and the clock. *)

Produce(d) ==
    /\ Len(log) < MaxLog
    /\ log' = Append(log, d)
    /\ UNCHANGED <<now, stage, todo, pos, committed, segments, store, idle, base, kills,
                   dropped, cut, reread, readAt>>

Tick ==
    /\ now < MaxTime
    /\ now' = now + 1
    /\ UNCHANGED <<log, stage, todo, pos, committed, segments, store, idle, base, kills,
                   dropped, cut, reread, readAt>>

-----------------------------------------------------------------------------
(* The loop of run(). *)

ReadNow(d) == {p \in DOMAIN log : log[p] = d /\ readAt[p] = now}

WithPacket(d, p) ==
    [c \in DOMAIN segments \cup {d} |->
        IF c = d THEN Add(SegmentOf(d), p) ELSE segments[c]]

(* poll() returns a packet.                                                *)
Consume ==
    /\ stage = "poll"
    /\ pos < Len(log)
    /\ LET p == pos + 1
           d == log[p]
       IN  /\ Cardinality(ReadNow(d)) < ReadRate
           /\ segments' = WithPacket(d, p)
           /\ todo' = IF Full(Add(SegmentOf(d), p)) THEN {d} ELSE {}
           /\ readAt' = [readAt EXCEPT ![p] = now]
    /\ stage' = IF todo' = {} THEN "poll" ELSE "flush"
    /\ pos' = pos + 1
    /\ UNCHANGED <<log, now, committed, store, idle, base, kills, dropped, cut, reread>>

\* variant: the idle tick compares the start with the wrong side of the cutoff
QuietYoung(s) == s.packets # <<>> /\ s.started > now

(* Open segments the idle tick closes.                                     *)
Quiet(s) == s.packets # <<>> /\ s.started + 2 * SegmentSeconds < now

(* poll() returns nothing: there is nothing to read, or it did not come in *)
(* time.                                                                   *)
IdleTick ==
    /\ stage = "poll"
    /\ todo' = {d \in DOMAIN segments : Quiet(segments[d])}
    /\ stage' = IF todo' = {} THEN "poll" ELSE "flush"
    /\ idle' = now
    /\ UNCHANGED <<log, now, pos, committed, segments, store, base, kills, dropped, cut,
                   reread, readAt>>

(* Something was read since the group's first start: only then is there a  *)
(* position to commit.                                                     *)
HasPosition == pos > base \/ committed # NoOffset

(* The consumer's background commit.                                       *)
AutoCommit ==
    /\ stage # "down"
    /\ HasPosition
    /\ committed' = pos
    /\ UNCHANGED <<log, now, stage, todo, pos, segments, store, idle, base, kills, dropped,
                   cut, reread, readAt>>

-----------------------------------------------------------------------------
(* The end of run(), and the next process. *)

\* variant: open segments are not flushed when the process is stopped
OpenNone(segs) == {}

(* The devices with something to flush.                                    *)
Open(segs) == {d \in DOMAIN segs : segs[d].packets # <<>>}

(* KeyboardInterrupt, or an exception that the loop does not catch: what   *)
(* is open is flushed.  An upload that is broken off may have stored its   *)
(* object; it is made again.  When Ctrl-C comes while poll() has a packet  *)
(* in hand, or before it is added, the packet is gone: its position counts *)
(* as read.                                                                *)
Interrupt ==
    /\ stage \in {"poll", "flush"}
    /\ stage' = "finally"
    /\ todo' = Open(segments)
    /\ \/ UNCHANGED <<pos, store, cut>>
       \/ /\ \E d \in todo : store' = Put(Object(d, segments[d]))
          /\ UNCHANGED <<pos, cut>>
       \/ /\ stage = "poll"
          /\ pos < Len(log)
          /\ pos' = pos + 1
          /\ cut' = cut \cup {pos + 1}
          /\ UNCHANGED store
    /\ UNCHANGED <<log, now, committed, segments, idle, base, kills, dropped, reread, readAt>>

(* consumer.close() commits.                                               *)
Close ==
    /\ stage = "finally"
    /\ todo = {}
    /\ stage' = "down"
    /\ committed' = IF HasPosition THEN pos ELSE NoOffset
    /\ UNCHANGED <<log, now, todo, pos, segments, store, idle, base, kills, dropped, cut,
                   reread, readAt>>

(* Killed, or interrupted again or raising again in the finally block:     *)
(* memory is lost, the store and the committed position are not.           *)
Kill ==
    /\ kills < MaxKills
    /\ stage # "down"
    /\ stage' = "down"
    /\ todo' = {}
    /\ segments' = <<>>
    /\ kills' = kills + 1
    /\ dropped' = dropped \cup InMemory
    /\ UNCHANGED <<log, now, pos, committed, store, idle, base, cut, reread, readAt>>

(* A new process, a second or more after the old one ended.  Without a     *)
(* committed position reading starts at the end of the topic.              *)
Start ==
    /\ stage = "down"
    /\ now < MaxTime
    /\ now' = now + 1
    /\ stage' = "poll"
    /\ segments' = <<>>
    /\ idle' = 0
    /\ pos' = IF committed = NoOffset THEN Len(log) ELSE committed
    /\ base' = IF committed = NoOffset THEN Len(log) ELSE base
    /\ reread' = reread \cup (IF committed = NoOffset THEN {} ELSE committed + 1 .. pos)
    /\ UNCHANGED <<log, todo, committed, store, kills, dropped, cut, readAt>>

Next ==
    \/ \E d \in Devices : Produce(d) \/ Upload(d)
    \/ Tick
    \/ Consume
    \/ IdleTick
    \/ AutoCommit
    \/ Interrupt
    \/ Close
    \/ Kill
    \/ Start

Spec == Init /\ [][Next]_vars

-----------------------------------------------------------------------------
Segment == [packets : Seq(1 .. MaxLog), started : 0 .. MaxTime]

TypeOK ==
    /\ log \in Seq(Devices) /\ Len(log) <= MaxLog
    /\ now \in 0 .. MaxTime
    /\ stage \in Stages
    /\ pos \in 0 .. Len(log)
    /\ committed \in 0 .. Len(log) \cup {NoOffset}
    /\ DOMAIN segments \subseteq Devices
    /\ todo \subseteq DOMAIN segments
    /\ \A d \in DOMAIN segments :
          /\ segments[d] \in Segment
          /\ IF d \in todo THEN Len(segments[d].packets) \in 1 .. PacketsPerSegment
                           ELSE Len(segments[d].packets) < PacketsPerSegment
    /\ store \subseteq [dev : Devices, at : 0 .. MaxTime, seconds : Nat,
                        packets : Seq(1 .. MaxLog)]
    /\ idle \in 0 .. now
    /\ base \in 0 .. Len(log)
    /\ kills \in 0 .. MaxKills
    /\ dropped \cup cut \cup reread \subseteq 1 .. Len(log)
    /\ readAt \in [1 .. MaxLog -> 0 .. Never]

(* The packets s are packets of device d that follow each other.           *)
Run(d, s) ==
    /\ \A i \in DOMAIN s : log[s[i]] = d
    /\ \A i \in 1 .. Len(s) - 1 :
          /\ s[i] < s[i + 1]
          /\ \A p \in s[i] + 1 .. s[i + 1] - 1 : log[p] # d

(* An object holds consecutive packets of one device in the order they     *)
(* were recorded, at most a segment's worth, whatever crashes and restarts *)
(* come in between (segmenter.py:8-11, 39-47, 114-118).                    *)
Contents ==
    \A o \in store :
        /\ Run(o.dev, o.packets)
        /\ Len(o.packets) \in 1 .. PacketsPerSegment

(* Every packet read is in the store or in an open segment, unless it was  *)
(* dropped by a failed upload or a kill, or was in the hands of the poll() *)
(* that Ctrl-C broke off: segments stay honest even when a device bursts a *)
(* backlog (segmenter.py:8-11), and a stop loses no packet that had been   *)
(* added, whatever it interrupts (segmenter.py:119-124).                   *)
NothingLost ==
    base + 1 .. pos \subseteq Stored \cup InMemory \cup dropped \cup cut

(* No packet is in two objects, or both in an object and in a segment that *)
(* goes on growing, however often the process is stopped, in the middle of *)
(* an upload or not, and started again, unless a kill made it read the     *)
(* packet again (segmenter.py:91, 119-124).                                *)
NothingTwice ==
    /\ \A o1, o2 \in store :
          o1 # o2 => Packets(o1) \cap Packets(o2) \subseteq reread
    /\ \A d \in DOMAIN segments \ todo :
          Stored \cap Packets(segments[d]) \subseteq reread

(* "so a device that disconnects mid-segment still lands its audio"        *)
(* (segmenter.py:97-98): no packet stays in memory, unless it is being     *)
(* uploaded, once a poll finds nothing two segments after it was read,     *)
(* however long uploads have held up the loop and whenever its segment was *)
(* begun.  While polls find something it may stay (segmenter.py:96).       *)
QuietLands ==
    \A d \in DOMAIN segments \ todo : \A p \in Packets(segments[d]) :
        idle <= readAt[p] + 2 * SegmentSeconds
=============================================================================
