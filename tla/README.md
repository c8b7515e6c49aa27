# opusfleet in TLA+

opusfleet receives live Opus audio from a fleet of recorders over TCP, puts it
on Kafka, and from there stores it, meters it, plays it live, and shows the
fleet's state over HTTP.  These modules model the parts of the service that keep
state, TLC checks them on small instances, and TLAPS proves for all instances the
theorems about the framing, the connection limiter, the device keys, the ingest
server, the segmenter, the Ogg writer, the levels and the API's view of them, the live audio,
the test bench and the shares of a fleet's workers.

Run a check with `tlc -config <run>.cfg <module>.tla`, a proof with
`tlapm <module>Proofs.tla`.  `PROJECT.json` lists the runs, maps every definition
to the source lines it models, and names the hazards the properties are for.

Paths below are relative to `src/server/` unless they say otherwise.

## 1. Inventory

| Component | State | Operations | Interacts with |
|---|---|---|---|
| Framing (`protocol.py`, `ingest.py:62-70,141-148`) | a receive buffer per connection | cut frames off the buffer, in the handshake and in the receive loop | TCP, which cuts the bytes anywhere |
| Limiter (`auth.py:134-171`) | per address: live connections, a deque of admission times | `allow`, `release` | called by every connection of ingest |
| Ingest (`ingest.py`) | a coroutine per device, the dictionary `online`, the producer's queue | handshake, HELLO, STAT, audio, the end of a connection | devices, limiter, registry, Kafka |
| Registry (`auth.py:50-114`) | the device keys, the mtime of the file when last read | `get`, `maybe_reload`, `reload` | the file system, whose editor does not wait; the handshake |
| Segmenter (`segmenter.py`, `storage.py`) | an open segment per device, the committed position | read, upload, idle tick, stop | Kafka, the object store |
| Ogg writer (`oggopus.py`) | the page being built | `add_packet`, `finish` | used by the segmenter |
| Levels (`levels.py`) | a meter per device | measure, emit per second | Kafka |
| API (`api.py`) | `STATE`, under `STATE_LOCK` | consume events, stats and levels; answer requests | Kafka, HTTP clients |
| Live (`live.py`) | listeners and decoders, shared by two threads without a lock | join, leave, decode, broadcast | Kafka, WebSockets |
| Kafka client (`bus.py`) | positions, committed in the background | | all of the above |
| Reference receiver (`sink.py`) | per device: frames, losses, late frames, the last sequence number | file a frame, end a connection | simulated devices |
| Simulated device (`src/sim/sim_device.py`) | a backlog, a sequence number, the link of the session | build, drop, hold, replay, reconnect, stop | ingest or the receiver |
| Fleet driver (`src/sim/fleet.py`) | none that is kept: slices of a range of devices | share out, start, roll up | simulated devices, in processes |

What is hard to get right here, and hard to test:

- TCP chunks that end anywhere, and a handshake that has to hand what it read
  too much over to the receive loop (Framing);
- overlapping connections of one device, of which the old one ends after the
  new one has registered; every way out of `handle()` has to give back what the
  connection took (Ingest);
- a deque that is cleaned only when its address comes back (Limiter);
- a file that is edited, deleted or half written between any two of the three
  accesses of one `reload()`, and that may keep its mtime (Registry);
- a backlog held back in a stall and replayed, over connections that break, and
  counts of 16-bit sequence numbers that wrap around (SimDevice, Sink);
- background commits that know nothing of what is in the store, failing uploads,
  kills, and keys with a resolution of a second (Segmenter);
- two threads with shared dictionaries (Live), and a lock held while writing to
  a client (API);
- boundaries: packets of a multiple of 255 bytes, full segment tables, the change
  of the second (OggOpus, Levels).

## 2. Modules

```
ConnCap  <-- implemented by --  Limiter
   ^ extended by                   ^ extended by
Ingest   <- MCIngest, IngestProofs Auth    <- AuthProofs
                                   v instance of
                                Registry
Link     <- SimDevice, Sink     (both)    <- Bench <- BenchProofs
Framing  <- MCFraming, FramingProofs
                                Segmenter <- MCSegmenter, SegmenterProofs
Live     <- MCLive, LiveProofs  OggOpus   <- OggOpusProofs
Levels   <- ApiState            ApiState  <- ApiProofs
Fleet    <- BenchProofs
```

A definition that is commented *variant* is not part of a model: it is a slip
one could make in the definition that follows it.  With the variant in its
place, TLC finds the named property violated (`mutants` in `PROJECT.json`), so
every property is known to be able to fail.

**Framing.** One connection, byte by byte.  `Frame`, `IterFrames` and `Leftover`
are `frame()`, `iter_frames()` and the end of `_read_frame()`; `HandshakeRead` is
one `read()` of the handshake, `StreamRead` one turn of the receive loop.  A read
takes any number of bytes that are there; `Hangup` lets any tail of the bytes
under way disappear.  The length prefix has two digits in base `Base`.
`IterFrames` is a recursive function over the offset.

**ConnCap, Limiter.** `ConnCap` says what a limiter promises, without clock or
deque.  `Limiter` is the code: `Pops` is the `while` loop of `allow()`, `Allow` and
`Refuse` are its two outcomes.  `ImplementsCap` is the refinement: `recent` is
mapped to the number of admissions in the window.

**Registry, Auth.** In `Registry` a step is one access to the file system: `Look` is
`maybe_reload()`, and `Absent`, `Present`, `Stat`, `Read`, `KeepKeys` and `Raise` are
the outcomes of the three accesses of `reload()`.  The editor (`Save`, `Delete`)
comes between any two; a save in place is two edits, the first of which leaves a
malformed file or an empty one.  A key is the number of the edit that wrote it, so
that keys of two versions can be told apart.  The unit of the clock is the
resolution of the mtime; tools that give a file an old mtime on purpose (`cp -p`,
a restored backup) are excluded.  `Auth` composes it with the limiter as ingest
holds them: on one event loop, where a lookup comes from an admitted connection and
is not interrupted by other connections, but by the clock and the editor.
`IngestProofs` needs none of this: there a key is bound to its device, and which
version it is from does not matter.

**Ingest.** Built on `ConnCap`.  The mode is chosen at the start from `Modes` and
stays.  A step is what `handle()` does between two awaits that can suspend.  Frames are whole here.  `Finish` is the `finally` block,
taken from the handshake (`Deny`) and the loop (`End`).  A response to a challenge
is the pair of the key used and the nonce, and any response made so far may be
sent on any connection; so what is checked of `Authenticate` is what is bound to
what, not the hash.  `shown` is what a reader of all presence events shows.
`up` says whether bytes can still arrive: a peer may be gone long before the
server knows.  A device has at most one connection that works (`MayOpen`); only
those in `Overlap` come back before the server has closed the last one.  Two ghosts
say where the list of devices online is allowed to be off: `shared` has the ids
under which two connections have streamed at once, `abandoned` those that a
connection registered and then left for another id with a second HELLO.

**Segmenter.** `run()` is at `poll()`, in `flush()`, in its `finally` block, or not there
(`stage`); `Consume` and `IdleTick` are the outcomes of `poll()`, and name in `todo` the
devices to upload.  `Upload` is `flush()` of one of them: nothing is polled until all are
done, while the clock, the devices and the background commits go on for as long as they
like.  `Interrupt` is Ctrl-C at any moment: at a quiet one, in an upload, which may have
stored its object and is made again under the same key in the `finally` block, or in a
`poll()` that has a packet in hand, which goes to the ghost `cut`.  `Close` is
`consumer.close()`.  The store is a set of objects in which a put replaces what has
the same key (`Put`).  Packets are offsets in the topic.  `ReadRate` bounds how many
packets of a device are read in a second: `PerSecond` when a device is heard in
real time, more when it replays a backlog.  The ghost `idle` is when a poll last
found nothing.

**OggOpus.** `OggOpusWriter` with pages as records.  A byte is named by its packet
and place, so that one on the wrong page is noticed.  `Reading` is a player,
written from the Ogg rules (a segment smaller than 255 ends a packet) and not from
the writer: it takes one segment after the other (`Cut`), without regard to what
was written.

**Live.** The event loop and the worker, one action per access to a shared
dictionary.  `call_soon_threadsafe` is the queue `calls`.  The ghost `raced` has the
devices whose decoder was freed while the worker, having found them watched, was
about to look for it.

**Levels, ApiState.** `Levels` has the meters and produces the topic `levels`;
`ApiState` composes it with the API.  `Fetch` is `poll()` and `device()`, `Apply`
the update, and the lock is free between the two.  An answer is sent with the lock
held (`Get`, `Answered`).  `Restart` empties `STATE` and resumes at the committed
positions; the ghost `resumed` is the one in the events, so that `ViewCurrent` and
`CatchesUp` can say what the present process owes.  What the properties speak of are sets: the packets of a device (`Of`), of
one second (`In`), in its open meter (`Metered`), in records under way (`Waiting`), and
those that a restart of the levels consumer threw away (the ghost `unsent`); equal
packets are told apart by a number.

**Link, SimDevice, Sink, Bench.** The bench of the repository's README: a simulated
device streams to the reference receiver.  `Link` has the connections, one per
session; a break takes away any tail of what is under way, and neither end is told
at once.  `SimDevice` is one turn of the device's loop per step (`Turn`), in which the
frame is dropped, held back in a stall, or sent behind the backlog; time is left
out, so any turn may be in a stall, and a failed attempt to connect is a session
whose link breaks at once.  `Over` is the end with `--once`, `Fail` a write that
raises, `Stop` the cancellation.  `Sink` is `handle()` frame by frame with `note_seq`.
One device, hence one id (or `unknown` with `--drop-hello`).  `Bench` composes them; the
handler of an old connection may still read when the device streams on a new one.

**Fleet.** The arithmetic by which the fleet driver makes ids and shares devices out
over worker processes.  There is nothing to explore; its theorems are in `BenchProofs`.

## 3. Runs

TLC with two workers.

| Run | States | What it shows |
|---|---|---|
| `Framing` | 15 k | `InOrder`, `Reassembled`, `NothingHeldBack`, `Prompt` for all four kinds of device, when the device waits for its handshake |
| `FramingPipelined` | violation | a device that does not wait: finding 1 |
| `Auth` | 1.4 M | `SlidingWindow`, `WindowIsSuffix`, and that the limiter implements `ConnCap` while keys are looked up; `Genuine`, `KeysCurrent` of the registry |
| `Ingest` | 864 k | `IdentityProved`, `SlotsExact`, `PresenceTracked`, `NoGhosts`, `OnlineExact`, `Drains` in all three modes |
| `IngestStaleClose` | violation | a late end of an old connection: finding 2 |
| `Segmenter` | 3.3 M (up to symmetry) | `Contents`, `NothingLost`, `NothingTwice`, `QuietLands` |
| `SegmenterBurst` | violation | a replayed backlog: finding 3 |
| `Live` | 129 k | `Gapless`, `DecodersLazy`, `Delivered` |
| `OggOpus` | 9 k | `RoundTrip`, `GranuleExact`, `WellFormed`, `RaisesOnlyOversized` |
| `ApiState` | 374 k | `FramesShown`, `TimelineTrue`, `ViewCurrent`, `CatchesUp` |
| `ApiRestart` | violation | a restart of the API: finding 4 |
| `Bench` | 3.5 M | `Replayed`, `LossExact` |

Bounds, and why they suffice:

- *Framing*: base 3, so that lengths up to 8 need both bytes of the prefix, with
  an empty payload, one of one byte, and one of four bytes that looks like a
  prefix; three frames, so that one can be behind the first and partial at once.
- *Auth*: caps of 2, a window of 1 and a clock up to 3, so that entries become stale
  while others are fresh, and the deque is refilled after a cleaning; two edits, one
  save in place or two whole ones, within one unit of the clock or not; a device with
  a key in `DEVICE_KEYS` that the file may list or not, and one without.  One address:
  they share nothing in the code, and `AuthProofs` covers any number of them.
  `MaxRejected` bounds a counter that nothing reads.
- *Ingest*: two connections of one device, which overlap, and one of another, which
  also claims to be the first; all from one address, so that two of the three reach
  each cap of 2; both devices registered, so that a challenge is met and missed; a
  queue of 1 so that events are dropped.
- *Segmenter*: segments of two packets, three packets, so that one device fills a
  segment and has another open or two devices alternate; two segments may be uploaded
  in turn, by an idle tick or in the `finally` block; one kill, any number of
  interrupts; a clock of five seconds (0 to 4), so that an idle tick can close a segment
  and leave another.  Devices are interchangeable in this module, hence `SYMMETRY`; no temporal property is checked
  under it.
- *Live*: two listeners of one device and one of another, three packets.
- *OggOpus*: segments of at most 2 bytes, 3 in a page, packets up to 6 bytes: exact
  multiples, packets that fill a page, and the first that no page can hold (a
  packet of 6 bytes needs 4 segments).  `HeadLen` and `TagsLen` are smaller than a
  segment, as in the code.
- *ApiState*: a timeline of depth 1, so that it overflows with two records; three
  seconds; three packets and events together (`MaxProduced`), which is enough for
  two records of one device, or a connect and a disconnect around a segment or a
  record; one restart of either process; one request.  `Loudness` has two values.
- *Bench*: sequence numbers modulo 4, so that six frames wrap around and a gap can be
  half of them; a clip of three packets, so that it starts over; two sessions, so that
  one handler can lag behind the next; one STAT between audio frames.

The clocks, logs and counters are the only things bounded in guards; each bound
is a constant named `Max...`.  Deadlock is not checked, because the bounded
systems end; that nothing hangs before is what `Prompt`, `Drains`, `Delivered` and
`CatchesUp` say.

Fairness.  `Framing`, `Live` and `ApiState` assume that a thread or an event loop
with something to do does it (weak fairness of each), which asyncio and the
interpreter's thread switches give.  `Ingest` assumes no more than that, while there
are connections on which nothing arrives any more, one of them is ended, by the two
timeouts: weaker than fairness of each, and enough, since there are finitely many.
`Auth` and `Bench` check safety only.
`ApiState` assumes in addition that clients read their answers: `_send` has no
timeout, and `CatchesUp` fails without.  Nothing is assumed of devices, listeners
or networks.  Requests are finite in number (`MaxGets`), so the consumer gets the
lock in the end without any assumption on how fair the lock is.

## 4. What the models show to be wrong

Each is a run whose counterexample TLC prints.

1. **Frames read together with the first are put in the wrong order**
   (`ingest.py:67`, run `FramingPipelined`).  `_read_frame` returns the partial tail
   followed by the complete frames.  If the chunk that completes the first frame
   holds a second one and part of a third, the stream is cut at wrong places from
   then on.  Devices without a key write audio right behind their HELLO.
2. **A late disconnect strikes off a connected device** (`ingest.py:180`, run
   `IngestStaleClose`).  The old connection's `finally` pops the id although a newer
   connection has registered it.  `NoGhosts` holds all the same, and `OnlineExact`
   for every id under which no two connections have streamed at once.
3. **A replayed backlog overwrites segments** (`storage.py:46`, run
   `SegmenterBurst`).  Two segments of one device that begin in one second have one
   key.  In real time it cannot happen with segments of two seconds or more, which
   is what `NothingLost` in `Segmenter` shows.  With `SEGMENT_SECONDS=1` two
   segments could begin in the same second even then.
4. **A restarted API does not rebuild its state** (`api.py:43-45`, run
   `ApiRestart`).  The group resumes behind the events that filled `STATE`.

Met while modelling, and described by how properties had to be stated:

- The frame that the handshake pushes back is looked at only when more bytes come
  in (`ingest.py:142-147`).  A legacy device that sends HELLO and waits is not
  registered, and its HELLO is lost if it goes then: the exception `PushedBack`.
- The idle tick of the segmenter comes only when `poll()` finds nothing, and not while
  an upload blocks the loop.  While any device streams, the segment of a quiet one stays
  open: there is no deadline by the clock, and `QuietLands` says what an idle tick
  leaves behind.
- A failed upload and a kill lose audio (`dropped` in `NothingLost`); a kill also
  makes packets be read twice (`reread` in `NothingTwice`).  Ctrl-C while `poll()` has a
  packet in hand loses that packet: the client library drops the message it was about
  to return, has stored its offset, and `consumer.close()` commits it (`cut`).  Nothing
  that `seg.add()` has taken is lost by Ctrl-C.
- An event that the API's consumer has read, and whose position is committed, but that
  it has not applied when the process ends, is never applied: `CatchesUp` promises an
  event to the process that reads it, not to its successor.
- A listener's exit between `watched()` and the creation of a decoder
  (`live.py:58-66`) leaves a decoder that nobody frees until the device is listened
  to again.  `raced` in `DecodersLazy` has exactly these devices.
- A presence event is dropped when the producer's queue is full (`missed` in
  `PresenceTracked`).  A denied connection announces a disconnect of `unknown`.
- On an unauthenticated connection a second HELLO with another id leaves the first id
  listed, until a connection under it ends: `abandoned` in `NoGhosts`, `OnlineExact`
  and `Drains`.
- The last second of a stream never becomes a record of the levels consumer; what
  is lost in its restart is the set `unsent` in `FramesShown`.
- The registry.  If the key file is deleted, `maybe_reload()` keeps the keys; if that
  happens between its look at the file and `reload()`, they are dropped (`Absent`);
  `Genuine` allows both, and `KeysCurrent` speaks of files that are there.  If the file
  is malformed at the start, there are no keys at all, those of `DEVICE_KEYS` included
  (`auth.py:82-98`): the first disjunct of `Genuine`.  An edit within the resolution of
  the mtime after a read is not noticed before the next one: `tied` in `KeysCurrent`.
  A file that is JSON but no object, or has a key that is no string, raises something
  that `reload()` does not catch: it ends the connection, and at the start the process
  (`Raise`).
- The receiver counts a jump of half the sequence numbers or more as late frames until
  the numbers come round (`sink.py:48-58`): the precondition `Near` of `LossExact`.
- The device.  A stall is lossless only while the connection lasts: the backlog is a
  local of the session (`sim_device.py:217`), so an outage that breaks it, or a stall
  longer than the receiver's timeout, loses it; `Replayed` speaks of each session.  With
  a stall as long as `stall_every` the backlog is never flushed.  With `--once` the last
  packet is built but never sent (`Over`).  A replayed backlog counts as one sent frame
  (`sim_device.py:249-253`).
- The fleet driver waits five seconds for a worker that reports every ten, so that the
  counts of a worker that is ended last are not rolled up.

## 5. Proofs

`AuthProofs` first takes the limiter alone, for every set of addresses, all caps, any
window and any clock that does not run backwards (`LimiterAssumption`):

- `TypeCorrect`, `ConcurrentCapHolds`;
- `DequeIsSuffix`: `WindowIsSuffix`, the inductive invariant.  The deque is the end
  of the history of admissions, and all that has left it is stale.  `SlidingWindow`
  is not inductive without it, because the deque alone does not remember what it
  dropped;
- `RateCapHolds`: an admission finds fewer than `MaxPerMinute` entries after
  popping, so the admission `MaxPerMinute` places back has been popped, and is
  stale;
- `LimiterImplementsCap`: under that invariant the fresh admissions of the history
  are exactly the deque after popping (`FreshIsRest`), so `Allow` is `Admit`,
  `Refuse` is a refusal at a cap, and `Tick` is `Age`.

`IngestProofs`, for any numbers of connections (finite), devices and addresses,
any caps, mode and queue size (`ConnCapAssumption`, `IngestAssumption`):

- `TypeCorrect`;
- `IdentityHolds`: `IdentityProved` is inductive with the types.  A response that
  verifies on connection c was made for c's nonce, hence by c's device, and a HELLO
  cannot change the id afterwards;
- `SlotsHold`: `SlotsExact` is inductive; its steps are facts about the cardinality
  of a set with one element more or less;
- `PresenceHolds`: `PresenceTracked` is inductive;
- `NoGhostsHold` and `OnlineExactHolds`, for peers that claim any ids.  Neither is
  inductive.  `OneHolder` adds what they rest on: a connection that does not stream has
  no id and no HELLO, and two that stream under one id have made it `shared`.  So the
  end of a connection under an id that is not `shared` takes away the only registration
  together with the entry in the list.

`AuthProofs` then takes the registry, for any devices, listings and numbers of edits.  Every behaviour of
`Auth` is one of the limiter (`LimiterUndisturbed`) and one of the registry
(`RegistryUndisturbed`), so that what is proved of each holds of the composition:

- `AuthTypes`;
- `AuthGenuine`, from `GenuineAlways`: inductive with `OnRecord`, that a file that parses
  is in the history.  No assumption is needed;
- `AuthKeysCurrent`, from `KeysCurrentAlways`: by `ReadBack` (keys under the file's own
  mtime are the file's, unless tied), which the order stat-then-read keeps up, and
  `Recorded` (what an undisturbed lookup has recorded is the file's mtime).  With
  read-then-stat `ReadBack` fails.

`SegmenterProofs`, for any devices, length of a segment, number of kills, interrupts, commits
and failed uploads (`SegmenterAssumption`), from the types, `Staged` (what is to be uploaded
at each stage) and `InOrder`, together `Sound`:

- `TypeCorrect` and `ContentsHold`, from `InOrder`: what is in memory of a device are
  packets that were read, in their order, and none of the device's from the first on is
  left out.  `Contents` alone does not say why the next packet continues a run;
- `NothingTwiceHolds`, from `Apart`, which adds that what is stored lies before the
  position, or was read again after a kill, and that an object which shares packets with
  a segment still to be uploaded is the one that this upload stores, made by a broken-off
  one;
- `QuietLandsHolds`: inductive with `Timely`, that a segment's packets are read after its
  reset and not later than now.  An idle tick takes every segment that was reset two
  segments ago, and what it leaves was read later than that; nothing is assumed of how
  long uploads or polls take;
- `NothingLostHolds`, from `Fresh`: every object's key is in an earlier second than the
  start of its device's open segment, or that segment is being uploaded and the object
  is its own, so no object replaces another.  It needs the
  hypothesis `ReadRate < PacketsPerSegment`: a device is not read faster than one
  segment a second.  That is real time with segments of two seconds or more, and the run
  `SegmenterBurst` shows that without it the theorem is false.

`FramingProofs`, for any base of a byte, any payloads that fit the length prefix, any number
of frames and every way in which TCP may cut them or lose the last (`FramingAssumption`):

- `TypeCorrect`;
- `InOrderHolds`, `ReassembledHolds` and `NothingHeldBackHolds`, from `FramingInv`.  They have
  the hypothesis `~Pipelined`: the device writes its first frame and waits until its
  handshake is over.  A device with a key does that, because it reads the answer to its AUTH
  before it goes on (`src/sim/sim_device.py:188`); one without a key does not, and then `InOrder`
  is false (`FramingPipelined`, finding 1).  With `AUTH_MODE=disabled` there is no handshake
  to wait for, and the hypothesis excludes nothing.

`FramingInv` describes everything by one stream, `Framed(frames)`: the bytes under way
(`Carried`), those in the buffer of the handshake (`Shaking`) and of the receive loop
(`Streaming`) are slices of it, and the receive loop's begins where a frame does.  The
properties say nothing of the bytes under way, nor of where in the stream the buffer begins,
so none of them is inductive.  Each read is then one use of `Recovered`: a window on the
stream that begins with frame k + 1 and ends within frame j + 1 is cut by `IterFrames` into
just the frames k + 1 to j and the bytes behind them.  It is an induction over the frames
with the sets of `OggOpusProofs` (`UpTo`), once for the existence of the recursive function
(`SplitFacts`) and once for its values; that the two bytes of the prefix give the length back is
`Prefix`.

`OggOpusProofs`, for packets of any length and number, any size of a segment and of a
page's table (`OggOpusAssumption`): `TypeCorrect`, `RoundTripHolds`, `GranuleExactHolds`,
`WellFormedHolds`, `RaisesOnlyOversizedHolds`, together from `WriterInv`.  Its heart is in
`Built`: the table of the page being built yields its packets *whatever bytes come behind
the payload* (`Yields`).  That is what makes it inductive: the reader of the longer
table does on the old part what it did before (`ReadingPrefix`), and then collects the
new packet segment by segment (`ReadingNext`, from `LaceFacts`).  The library's induction
over numbers takes an operator, which the provers here cannot instantiate; `UpTo` is
induction over sets instead, from the least number of a set (`WFMin`), and it also gives
the existence of the recursive functions `Joined` and `Reading`.

`ApiProofs`, for any devices, packets, events, restarts of both processes and any depth of
a timeline (`LevelsAssumption`, `ApiAssumption`):

- `TypeCorrect`;
- `ViewCurrentHolds`, through every restart: inductive with `Held`, that the message in work
  is the last one read and its device is listed, so that the update finds it although the
  lock was free in between, and with `Resumes`, that the process reads from `resumed` on;
- `TimelineTrueHolds`, from `Ends`: the timeline of every device, listed or not, is the
  end of what was sent about it.  That a record is true rests on `Counted` (an open meter
  has counted exactly the packets of its second) and `Recorded` (records are of seconds
  that are over, and no second has two);
- `FramesShownHolds`: an equality between a sum and the size of a set, inductive in the
  same company; a record that is applied moves exactly its second's packets out of
  `Waiting`.

`LiveProofs`, for any devices and sockets (`LiveAssumption`):

- `TypeCorrect`, and `DecodersLazyHolds` from `Lazy`: also the device whose decoder the
  worker is about to make has a reason to have one.  That fails without `raced`;
- `GaplessHolds`, from `Registered` (a socket is in a device's set while it is in),
  `Queued` (the calls wait in the order of their packets), `Told` (what was heard came
  before what waits) and `Covered` (from the first packet that a socket hears or will hear
  on, none is missing that the worker is done with).  `Gapless` says nothing of the calls
  under way, hence is not inductive.

`BenchProofs`, for any number of sessions, any clip and any even number of sequence
numbers (`SimDeviceAssumption`, `SinkAssumption`):

- `TypeCorrect`, with `SessionsSound`: a link is used from its session on, and no frame is
  kept in two sessions;
- `ReplayedHolds`: inductive with `SessionsSound`.  The case that matters is a break: what
  it takes from the end of the wire comes after all that is left and before all that is
  still to be built;
- `LossExactHolds`, from `Counting` and `Named`.  `Named` says that with a HELLO a handler
  that does not know the id yet has the HELLO in front of all audio, so the counts are all
  under one id.  `Counting` adds that `last` is the newest number read, modulo `SeqSpace`;
  with that a gap is how far a frame is ahead, or half the numbers or more for a late one
  (`GapOfNear`), and a step is one of three facts about the size of a set.  A gap of
  0 could be a frame read twice: `FreshFrame`, from `Replayed`, excludes it.

And of `Fleet`, for every size: every device is driven (`AllDriven`), none twice and no id
twice (`DrivenOnce`, from the lemma that the only multiple of w between -w and w is 0),
and no worker is idle (`NoneIdle`).

Constants that only bound a run (`MaxTime`, `MaxRejected`, `MaxLog` and the like) are
arbitrary in the proofs.

Only model-checked: all liveness (`Prompt`, `Drains`, `Delivered`, `CatchesUp`), which is
beyond the provers.  Every invariant and every safety property of the passing runs is
proved.

## 6. Assumptions and what is left out

- Topics keep the order in which ingest produces the messages of one device.
  `bus.py:27-40` allows several requests in flight without idempotence, so
  librdkafka may reorder on a retry; no code of the repository sees it.
- One process per consumer group.  With several, a rebalance hands an open segment's
  partition over; that is planned.
- `time.time()` does not run backwards.
- The clock of `Limiter`, `Segmenter` and `Levels` has whole seconds.  So the idle tick of
  the model closes a segment from the first whole second on in which the code must.
- The segmenter: a new process starts in a later second than the old one ended, as it has
  to connect to the broker and the store first.  A signal does not fall between the two
  assignments of `DeviceSegment.reset()`.  An upload broken off by a kill has stored its
  object or not; the first is `Upload` followed by `Kill`.  In `NothingLost`,
  `ReadRate < PacketsPerSegment` excludes the backlog that a very long upload leaves in
  the topic, just as it excludes one that a device replays: either can begin two
  segments in one second (finding 3).  `SegmenterBurst` shows what happens then.
- The levels consumer: only its clean stop is modelled, which empties its producer's
  queue; a killed one also loses the records queued.
- `CatchesUp`: clients read their answers, see the fairness above.
- Not modelled: the HMAC itself (a response is what it is bound to), CRC, JSON,
  decoding, WAV files, the listing calls of the store, `/health`; the log line's
  counters; the counters of the device's closing line and the receiver's level meter;
  `opus_ctl.py`, `config.py`, `run.py` and the deployment files, which hold no state.
- A killed ingest announces no disconnects, so its devices stay shown online until they
  come back; `Ingest` runs from a start to its end.
- The fleet's processes and their queue of counts, which feed a line on the terminal.
- Two devices without a HELLO share the id `unknown` at the receiver, and their sequence
  numbers are compared with each other; `Bench` has one device.
- Levels: a decoded packet has samples, so `emit()` never returns `None`.
- The timeouts of a connection are steps that may come whenever nothing is under way
  (`Framing`) or nothing arrives any more (`Ingest`).  The handshake's is per read
  in the code; there is no deadline for the handshake as a whole.

## 7. Plan

Done: Framing, ConnCap, Limiter, Ingest, Registry with Auth, Segmenter, OggOpus, Live,
Levels with ApiState, the bench (Link, SimDevice, Sink), and the proofs of section 5.

Next: two segmenters in a group, with partitions that move with open segments.
