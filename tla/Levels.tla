------------------------------- MODULE Levels -------------------------------
(***************************************************************************)
(* The levels consumer (server/levels.py): the packets of every device are *)
(* decoded and summed up per second of the clock; when a device's first    *)
(* packet of another second is read, the record of the last one is         *)
(* produced.                                                               *)
(*                                                                         *)
(* A decoded packet is its loudness; the mean of a second is left out, the *)
(* peak and the number of frames are kept.  Packets that cannot be parsed  *)
(* or decoded are skipped and leave no trace.                              *)
(***************************************************************************)
EXTENDS Naturals, Sequences, FiniteSets

CONSTANTS
    Devices,        \* device ids
    Loudness,       \* peaks a decoded packet may have
    MaxPackets,     \* bound: packets read
    MaxStops,       \* bound: restarts of the process
    MaxTime         \* bound: last second of the clock

ASSUME LevelsAssumption ==
    /\ Loudness \subseteq Nat
    /\ MaxPackets \in Nat
    /\ MaxStops \in Nat
    /\ MaxTime \in Nat

VARIABLES
    now,        \* the clock
    meters,     \* the Meter of every device heard
    levels,     \* the levels topic
    stops,      \* ghost: restarts so far
    measured,   \* ghost: the packets read, equal ones told apart by a number
    unsent      \* ghost: the packets in meters that were thrown away

levelVars == <<now, meters, levels, stops, measured, unsent>>

LevelsInit ==
    /\ now = 0
    /\ meters = <<>>
    /\ levels = <<>>
    /\ stops = 0
    /\ measured = {}
    /\ unsent = {}

Tick ==
    /\ now < MaxTime
    /\ now' = now + 1
    /\ UNCHANGED <<meters, levels, stops, measured, unsent>>

Louder(a, b) == IF a < b THEN b ELSE a

Added(m, a) ==
    [sec |-> m.sec, frames |-> m.frames + 1, peak |-> Louder(m.peak, a)]

(* Meter.emit() *)
Record(d, m) == [dev |-> d, t |-> m.sec, pk |-> m.peak, f |-> m.frames]

\* variant: emit() does not reset the number of frames
EmptiedKeepingFrames(m) == [sec |-> now, frames |-> m.frames, peak |-> 0]

(* The meter after emit(), at the new second.                              *)
Emptied(m) == [sec |-> now, frames |-> 0, peak |-> 0]

\* variant: a record only when the clock has left a gap
SecondOverLate(m) == now > m.sec + 1

SecondOver(m) == now # m.sec

(* The meter of a device: made with its first packet.                      *)
MeterOf(d) ==
    IF d \in DOMAIN meters THEN meters[d] ELSE [sec |-> now, frames |-> 0, peak |-> 0]

(* The packets of a device, and those of one second.                       *)
Of(d) == {p \in measured : p.dev = d}
In(d, t) == {p \in measured : p.dev = d /\ p.sec = t}

(* Those in the device's open meter.                                       *)
Metered(d) == IF d \in DOMAIN meters THEN In(d, meters[d].sec) ELSE {}

(* A packet of loudness a is read: Meter.add(), after emit() if it is the   *)
(* first of a new second.                                                  *)
Measure(d, a) ==
    /\ Cardinality(measured) < MaxPackets
    /\ LET m    == MeterOf(d)
           base == IF SecondOver(m) THEN Emptied(m) ELSE m
       IN  /\ levels' = IF SecondOver(m) THEN Append(levels, Record(d, m)) ELSE levels
           /\ meters' = [c \in DOMAIN meters \cup {d} |->
                            IF c = d THEN Added(base, a) ELSE meters[c]]
    /\ LET same == {p \in In(d, now) : p.loud = a}
       IN  measured' = measured \cup
             {[dev |-> d, sec |-> now, loud |-> a, nr |-> Cardinality(same)]}
    /\ UNCHANGED <<now, stops, unsent>>

(* Stopped and started again in a later second: open meters are not sent.  *)
StopLevels ==
    /\ stops < MaxStops
    /\ now < MaxTime
    /\ stops' = stops + 1
    /\ now' = now + 1
    /\ meters' = <<>>
    /\ unsent' = unsent \cup UNION {Metered(d) : d \in Devices}
    /\ UNCHANGED <<levels, measured>>

LevelsNext ==
    \/ Tick
    \/ \E d \in Devices, a \in Loudness : Measure(d, a)
    \/ StopLevels

-----------------------------------------------------------------------------
LevelRecord == [dev : Devices, t : Nat, pk : Nat, f : Nat \ {0}]

LevelsTypeOK ==
    /\ now \in 0 .. MaxTime
    /\ DOMAIN meters \subseteq Devices
    /\ \A d \in DOMAIN meters : meters[d] \in [sec : 0 .. MaxTime, frames : Nat \ {0}, peak : Nat]
    /\ levels \in Seq(LevelRecord)
    /\ stops \in 0 .. MaxStops
    /\ measured \subseteq [dev : Devices, sec : 0 .. MaxTime, loud : Loudness, nr : Nat]
    /\ unsent \subseteq measured
=============================================================================
