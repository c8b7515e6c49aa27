------------------------------- MODULE Bench --------------------------------
(***************************************************************************)
(* The bench of the README: a simulated device streams to the reference    *)
(* receiver, over connections that break, and whose ends notice it in any  *)
(* order; the handler of an old connection may still read when the device  *)
(* streams on a new one.                                                   *)
(***************************************************************************)
EXTENDS SimDevice, Sink, FiniteSetsExt

vars == <<linkVars, deviceVars, sinkVars>>

Init == LinkInit /\ DeviceInit /\ SinkInit

Next ==
    \/ Connect /\ Accepted(session + 1)
    \/ (Turn \/ Over \/ Fail \/ Stop) /\ UNCHANGED sinkVars
    \/ \E s \in Sessions :
          \/ (Handle(s) \/ Hangup(s) \/ Timeout(s)) /\ UNCHANGED deviceVars
          \/ Break(s) /\ UNCHANGED <<deviceVars, sinkVars>>

Spec == Init /\ [][Next]_vars

-----------------------------------------------------------------------------
Frames == {Hello, Stat} \union {Audio(n) : n \in 0 .. MaxBuilt - 1}

TypeOK ==
    /\ wire \in [Sessions -> Seq(Frames)]
    /\ link \in [Sessions -> {"none", "up", "closed", "dead"}]
    /\ dev \in {"off", "on", "done"}
    /\ config \in [loop : BOOLEAN, hello : BOOLEAN]
    /\ session \in 0 .. MaxSessions
    /\ idx \in 0 .. Packets
    /\ built \in 0 .. MaxBuilt
    /\ held \in Seq(0 .. MaxBuilt - 1)
    /\ stats \in 0 .. MaxStats
    /\ dropped \in 0 .. MaxBuilt
    /\ reconnects \in 0 .. session
    /\ kept \in [Sessions -> SUBSET (0 .. MaxBuilt - 1)]
    /\ open \in [Sessions -> BOOLEAN]
    /\ imei \in [Sessions -> Ids]
    /\ seen \in [Ids -> DeviceStats]
    /\ got \in Seq([s : Sessions, n : 0 .. MaxBuilt - 1])

(* Of a session: what was read, and where audio is on its way. *)
ReadOf(s) == {i \in DOMAIN got : got[i].s = s}
AudioOn(s) == {i \in DOMAIN wire[s] : wire[s][i].kind = "audio"}

Arriving(s) == {got[i].n : i \in ReadOf(s)} \union {wire[s][i].n : i \in AudioOn(s)}

(* A stall costs nothing and changes no order: what is read of a session   *)
(* is read in the order it was built in, and so is what is on its way;     *)
(* both are the first part of the frames built and not dropped, and while  *)
(* the session lasts the rest is held back, in order                       *)
(* (sim_device.py:217-254).                                                *)
ReplayedOn(s) ==
    /\ \A i, j \in ReadOf(s) : i < j => got[i].n < got[j].n
    /\ \A i, j \in AudioOn(s) : i < j => wire[s][i].n < wire[s][j].n
    /\ \A i \in ReadOf(s), j \in AudioOn(s) : got[i].n < wire[s][j].n
    /\ Arriving(s) \subseteq kept[s]
    /\ \A m \in Arriving(s), n \in kept[s] \ Arriving(s) : m < n
    /\ link[s] = "up" /\ dev = "on" /\ s = session =>
          /\ kept[s] \ Arriving(s) = {held[i] : i \in DOMAIN held}
          /\ \A i, j \in DOMAIN held : i < j => held[i] < held[j]

Replayed == \A s \in Sessions : ReplayedOn(s)

(* The newest frame read before the i-th. *)
TopBefore(i) == Max({got[j].n : j \in 1 .. i - 1})

(* Within half the sequence numbers of it. *)
Near(i) ==
    got[i].n - TopBefore(i) \in 1 - (SeqSpace \div 2) .. SeqSpace \div 2

(* Where a frame was read that came late, the numbers read, and those      *)
(* missing between the first and the newest.                               *)
Late == {i \in 2 .. Len(got) : got[i].n < TopBefore(i)}
Numbers == {got[i].n : i \in DOMAIN got}
Missing == (got[1].n .. Max(Numbers)) \ Numbers

(* What is counted of the device, all of it under one id.                  *)
Ours == seen[IF config.hello THEN "imei" ELSE "unknown"]

AllNear == \A i \in 2 .. Len(got) : Near(i)

(* The counts of DeviceStats tell what happened, across wrap around and    *)
(* over several connections: frames read, frames that came late, and as    *)
(* lost those that are missing and those that came late after all --       *)
(* provided no frame is half the numbers or more away from the newest      *)
(* (sink.py:48-58, 82-124).                                                *)
LossExact ==
    AllNear /\ got # <<>> =>
        /\ Ours.frames = Len(got)
        /\ Ours.reordered = Cardinality(Late)
        /\ Ours.lost = Cardinality(Missing)
                       + Cardinality({i \in Late : got[i].n > got[1].n})
=============================================================================
