-------------------------------- MODULE Sink --------------------------------
(***************************************************************************)
(* Sink of server/sink.py, as far as one device's connections go: each is  *)
(* read by a handler of its own, and all file what they read under the id  *)
(* they know.  A handler takes what has arrived frame by frame and does    *)
(* not await in between; a step is one frame.  Frame n carries the         *)
(* sequence number n modulo SeqSpace.                                      *)
(***************************************************************************)
EXTENDS Link, Integers, FiniteSets

CONSTANT SeqSpace   \* 2^16 in the code

ASSUME SinkAssumption == SeqSpace \in Nat \ {0} /\ SeqSpace % 2 = 0

VARIABLES
    open,       \* is the handler of a session reading?
    imei,       \* the id it knows
    seen,       \* DeviceStats, per id
    got         \* ghost: the frames read, each with its session

sinkVars == <<open, imei, seen, got>>

Ids == {"imei", "unknown"}      \* the device's own id, and the id without one
None == -1                      \* no sequence number yet

DeviceStats == [frames : Nat, stats : Nat, lost : Nat, reordered : Nat,
                last : 0 .. SeqSpace - 1 \union {None}]

SinkInit ==
    /\ open = [s \in Sessions |-> FALSE]
    /\ imei = [s \in Sessions |-> "unknown"]
    /\ seen = [id \in Ids |->
                  [frames |-> 0, stats |-> 0, lost |-> 0, reordered |-> 0, last |-> None]]
    /\ got = <<>>

\* variant: no wrap around
SeqUnwrapped(n) == n

Seq16(n) == n % SeqSpace

Accepted(s) ==
    /\ open' = [open EXCEPT ![s] = TRUE]
    /\ UNCHANGED <<imei, seen, got>>

\* variant: the difference as it is, without the mask
GapSigned(d, seq) == seq - d.last - 1

Gap(d, seq) == (seq - d.last - 1) % SeqSpace

(* A gap of half the numbers or more is a frame that comes late. *)
NoteSeq(d, seq) ==
    IF d.last = None \/ Gap(d, seq) = 0 THEN [d EXCEPT !.last = seq]
    ELSE IF Gap(d, seq) < SeqSpace \div 2
         THEN [d EXCEPT !.last = seq, !.lost = @ + Gap(d, seq)]
         ELSE [d EXCEPT !.reordered = @ + 1]

Counted(d, f) ==
    CASE f.kind = "hello" -> d
      [] f.kind = "stat" -> [d EXCEPT !.stats = @ + 1]
      [] f.kind = "audio" -> NoteSeq([d EXCEPT !.frames = @ + 1], Seq16(f.n))

Handle(s) ==
    /\ open[s]
    /\ wire[s] # <<>>
    /\ LET f == Head(wire[s])
           id == IF f = Hello THEN "imei" ELSE imei[s]
       IN  /\ imei' = [imei EXCEPT ![s] = id]
           /\ seen' = [seen EXCEPT ![id] = Counted(@, f)]
           /\ got' = IF f.kind = "audio" THEN Append(got, [s |-> s, n |-> f.n]) ELSE got
    /\ wire' = [wire EXCEPT ![s] = Tail(@)]
    /\ UNCHANGED <<link, open>>

(* End of stream, or an error of a broken connection. *)
Hangup(s) ==
    /\ open[s]
    /\ wire[s] = <<>>
    /\ link[s] \in {"closed", "dead"}
    /\ open' = [open EXCEPT ![s] = FALSE]
    /\ UNCHANGED <<linkVars, imei, seen, got>>

(* Nothing has come for SERVER_RECV_TIMEOUT. *)
Timeout(s) ==
    /\ open[s]
    /\ wire[s] = <<>>
    /\ link[s] = "up"
    /\ open' = [open EXCEPT ![s] = FALSE]
    /\ link' = [link EXCEPT ![s] = "dead"]
    /\ UNCHANGED <<wire, imei, seen, got>>
=============================================================================
