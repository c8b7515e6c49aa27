----------------------------- MODULE ApiProofs ------------------------------
(***************************************************************************)
(* Proofs about the levels consumer and the state of the REST API, for any *)
(* devices, any number of packets, events and restarts, and any depth of   *)
(* the timelines.                                                          *)
(***************************************************************************)
EXTENDS ApiState, FiniteSetTheorems, TLAPS

-----------------------------------------------------------------------------
(* The levels consumer.  Facts about packets ps, meters ms, records ls and *)
(* thrown away packets us at second n.                                     *)

Within(ps, d, t) == {p \in ps : p.dev = d /\ p.sec = t}

TrueOf(ps, r) ==
    /\ r.f = Cardinality(Within(ps, r.dev, r.t))
    /\ IsPeak(r.pk, Within(ps, r.dev, r.t))

(* Every packet has its number, a meter knows all packets of its second,   *)
(* and a device has none of a later second than its meter's.               *)
CountedIn(ps, ms, n) ==
    /\ IsFiniteSet(ps)
    /\ \A p \in ps :
          /\ p.nr < Cardinality({q \in Within(ps, p.dev, p.sec) : q.loud = p.loud})
          /\ IF p.dev \in DOMAIN ms THEN p.sec <= ms[p.dev].sec ELSE p.sec < n
    /\ \A d \in DOMAIN ms : ms[d].sec <= n /\ TrueOf(ps, Record(d, ms[d]))

(* Records are about seconds that are over, and a second has one record or *)
(* was thrown away.                                                        *)
Over(ms, n, d, t) == IF d \in DOMAIN ms THEN t < ms[d].sec ELSE t < n

RecordedIn(ps, ms, n, ls, us) ==
    /\ \A i \in DOMAIN ls : TrueOf(ps, ls[i]) /\ Over(ms, n, ls[i].dev, ls[i].t)
    /\ \A i, j \in DOMAIN ls : i < j /\ ls[i].dev = ls[j].dev => ls[i].t < ls[j].t
    /\ \A p \in us :
          /\ Over(ms, n, p.dev, p.sec)
          /\ \A i \in DOMAIN ls : ls[i].dev = p.dev => ls[i].t # p.sec

Counted == CountedIn(measured, meters, now)
Recorded == RecordedIn(measured, meters, now, levels, unsent)

(* The two ways of writing the packets of a second agree. *)
LEMMA SameSets ==
    /\ \A d, t : In(d, t) = Within(measured, d, t)
    /\ \A r : TrueRecord(r) <=> TrueOf(measured, r)
BY DEF In, Within, TrueRecord, TrueOf

(* The packet that is measured. *)
New(d, a) ==
    [dev |-> d, sec |-> now, loud |-> a,
     nr |-> Cardinality({p \in Within(measured, d, now) : p.loud = a})]

(* What reading a packet does, in the three states its meter may be in. *)
LEMMA MeasureEffect ==
    ASSUME LevelsTypeOK, Counted, NEW d \in Devices, NEW a \in Loudness, Measure(d, a)
    PROVE  /\ DOMAIN meters' = DOMAIN meters \cup {d}
           /\ \A c \in DOMAIN meters \ {d} : meters'[c] = meters[c]
           /\ measured' = measured \cup {New(d, a)} /\ New(d, a) \notin measured
           /\ UNCHANGED <<now, stops, unsent>>
           /\ \/ /\ d \in DOMAIN meters /\ meters[d].sec < now
                 /\ meters'[d] = [sec |-> now, frames |-> 1, peak |-> a]
                 /\ levels' = Append(levels, Record(d, meters[d]))
              \/ /\ d \in DOMAIN meters /\ meters[d].sec = now
                 /\ meters'[d] = [sec |-> now, frames |-> meters[d].frames + 1,
                                  peak |-> Louder(meters[d].peak, a)]
                 /\ levels' = levels
              \/ /\ d \notin DOMAIN meters
                 /\ meters'[d] = [sec |-> now, frames |-> 1, peak |-> a]
                 /\ levels' = levels
<1> USE LevelsAssumption
<1> DEFINE m == MeterOf(d)
           base == IF SecondOver(m) THEN Emptied(m) ELSE m
<1>1. /\ meters' = [c \in DOMAIN meters \cup {d} |->
                       IF c = d THEN Added(base, a) ELSE meters[c]]
      /\ levels' = IF SecondOver(m) THEN Append(levels, Record(d, m)) ELSE levels
      /\ measured' = measured \cup {New(d, a)}
      /\ UNCHANGED <<now, stops, unsent>>
  BY SameSets DEF Measure, New
<1>2. New(d, a) \notin measured
  <2> SUFFICES ASSUME New(d, a) \in measured PROVE FALSE
    OBVIOUS
  <2> DEFINE p == New(d, a)
             same == {q \in Within(measured, d, now) : q.loud = a}
  <2>1. p.dev = d /\ p.sec = now /\ p.loud = a /\ p.nr = Cardinality(same)
    BY DEF New
  <2>2. p.nr < Cardinality({q \in Within(measured, p.dev, p.sec) : q.loud = p.loud})
    BY DEF Counted, CountedIn
  <2>3. Cardinality(same) < Cardinality(same)
    BY <2>1, <2>2
  <2>4. Cardinality(same) \in Nat
    <3>1. same \in SUBSET measured
      BY DEF Within
    <3> QED
      BY <3>1, FS_Subset, FS_CardinalityType DEF Counted, CountedIn
  <2> QED
    BY <2>3, <2>4
<1>3. now \in Nat /\ a \in Nat
  BY DEF LevelsTypeOK
<1>4. Louder(0, a) = a
  BY <1>3 DEF Louder
<1>5. d \in DOMAIN meters =>
          meters[d] \in [sec : 0 .. MaxTime, frames : Nat \ {0}, peak : Nat] /\ meters[d].sec <= now
  BY DEF LevelsTypeOK, Counted, CountedIn
<1>6. CASE d \in DOMAIN meters /\ meters[d].sec = now
  <2>1. m = meters[d] /\ ~SecondOver(m) /\ base = meters[d]
    BY <1>6 DEF MeterOf, SecondOver
  <2>3. meters'[d] = [sec |-> now, frames |-> meters[d].frames + 1,
                      peak |-> Louder(meters[d].peak, a)]
    BY <1>1, <1>6, <2>1 DEF Added
  <2> QED
    BY <1>1, <1>2, <1>6, <2>1, <2>3
<1>7. CASE d \in DOMAIN meters /\ meters[d].sec < now
  <2>1. m = meters[d] /\ SecondOver(m) /\ base = [sec |-> now, frames |-> 0, peak |-> 0]
    BY <1>3, <1>5, <1>7 DEF MeterOf, SecondOver, Emptied
  <2>3. meters'[d] = [sec |-> now, frames |-> 1, peak |-> a]
    BY <1>1, <1>4, <2>1 DEF Added
  <2> QED
    BY <1>1, <1>2, <1>7, <2>1, <2>3
<1>8. CASE d \notin DOMAIN meters
  <2>1. m = [sec |-> now, frames |-> 0, peak |-> 0] /\ ~SecondOver(m) /\ base = m
    BY <1>8 DEF MeterOf, SecondOver
  <2>3. meters'[d] = [sec |-> now, frames |-> 1, peak |-> a]
    BY <1>1, <1>4, <2>1 DEF Added
  <2> QED
    BY <1>1, <1>2, <1>8, <2>1, <2>3
<1> QED
  BY <1>3, <1>5, <1>6, <1>7, <1>8

(* The packets of a second after one more was read. *)
LEMMA MeasureAdds ==
    ASSUME LevelsTypeOK, Counted, NEW d \in Devices, NEW a \in Loudness, Measure(d, a)
    PROVE  /\ New(d, a).dev = d /\ New(d, a).sec = now /\ New(d, a).loud = a
           /\ Within(measured', d, now) = Within(measured, d, now) \cup {New(d, a)}
           /\ New(d, a) \notin Within(measured, d, now)
           /\ \A c, t : c # d \/ t # now => Within(measured', c, t) = Within(measured, c, t)
           /\ \A c, t : IsFiniteSet(Within(measured, c, t))
                        /\ Cardinality(Within(measured, c, t)) \in Nat
           /\ IsFiniteSet(measured')
<1>1. New(d, a).dev = d /\ New(d, a).sec = now /\ New(d, a).loud = a
  BY DEF New
<1>2. measured' = measured \cup {New(d, a)} /\ New(d, a) \notin measured
  BY MeasureEffect
<1>3. \A c, t : Within(measured, c, t) \in SUBSET measured
  BY DEF Within
<1>4. \A c, t : IsFiniteSet(Within(measured, c, t)) /\ Cardinality(Within(measured, c, t)) \in Nat
  BY <1>3, FS_Subset, FS_CardinalityType DEF Counted, CountedIn
<1>5. IsFiniteSet(measured')
  BY <1>2, FS_AddElement DEF Counted, CountedIn
<1>6. Within(measured', d, now) = Within(measured, d, now) \cup {New(d, a)}
  BY <1>1, <1>2 DEF Within
<1>7. \A c, t : c # d \/ t # now => Within(measured', c, t) = Within(measured, c, t)
  BY <1>1, <1>2 DEF Within
<1> QED
  BY <1>1, <1>2, <1>3, <1>4, <1>5, <1>6, <1>7

(* The device's meter is at the second of the packet. *)
LEMMA MeasureMeter ==
    ASSUME LevelsTypeOK, Counted, NEW d \in Devices, NEW a \in Loudness, Measure(d, a)
    PROVE  meters'[d].sec = now
<1> DEFINE ms == meters'
<1>1. CASE d \in DOMAIN meters /\ meters[d].sec = now
  <2>1. ~(meters[d].sec < now)
    BY <1>1, LevelsAssumption DEF LevelsTypeOK
  <2>2. ms[d] = [sec |-> now, frames |-> meters[d].frames + 1,
                 peak |-> Louder(meters[d].peak, a)]
    BY <1>1, <2>1, MeasureEffect
  <2> HIDE DEF ms
  <2> SUFFICES ms[d].sec = now
    BY DEF ms
  <2> QED
    BY <2>2
<1>2. CASE ~(d \in DOMAIN meters /\ meters[d].sec = now)
  <2>1. ms[d] = [sec |-> now, frames |-> 1, peak |-> a]
    BY <1>2, MeasureEffect
  <2> HIDE DEF ms
  <2> SUFFICES ms[d].sec = now
    BY DEF ms
  <2> QED
    BY <2>1
<1> QED
  BY <1>1, <1>2

(* Packets are typed. *)
LEMMA PacketTypes ==
    ASSUME LevelsTypeOK, NEW p \in measured
    PROVE  /\ p.dev \in Devices /\ p.loud \in Loudness /\ p.loud \in Nat
           /\ p.sec \in 0 .. MaxTime /\ p.sec \in Nat /\ p.nr \in Nat
<1>1. p \in [dev : Devices, sec : 0 .. MaxTime, loud : Loudness, nr : Nat]
  BY DEF LevelsTypeOK
<1>2. p.dev \in Devices /\ p.loud \in Loudness /\ p.sec \in 0 .. MaxTime /\ p.nr \in Nat
  BY <1>1
<1>3. p.sec \in Nat
  BY <1>2, LevelsAssumption
<1>4. p.loud \in Nat
  BY <1>2, LevelsAssumption
<1> QED
  BY <1>2, <1>3, <1>4

(* A packet that is read is counted once, in its meter. *)
LEMMA MeasureCounted ==
    ASSUME LevelsTypeOK, Counted, NEW d \in Devices, NEW a \in Loudness, Measure(d, a)
    PROVE  Counted'
<1> USE LevelsAssumption
<1> DEFINE new == New(d, a)
           ps == measured'
           ms == meters'
<1>1. /\ DOMAIN ms = DOMAIN meters \cup {d}
      /\ \A c \in DOMAIN meters \ {d} : ms[c] = meters[c]
      /\ ps = measured \cup {new} /\ new \notin measured
      /\ now' = now
      /\ ms[d].sec = now
      /\ d \in DOMAIN meters => meters[d].sec <= now /\ meters[d].sec \in Nat
  <2>1. /\ DOMAIN ms = DOMAIN meters \cup {d}
        /\ \A c \in DOMAIN meters \ {d} : ms[c] = meters[c]
        /\ ps = measured \cup {new} /\ new \notin measured
        /\ now' = now
    BY MeasureEffect
  <2>2. ms[d].sec = now
    BY MeasureMeter
  <2>3. d \in DOMAIN meters => meters[d].sec <= now
    BY DEF Counted, CountedIn
  <2>4. d \in DOMAIN meters => meters[d].sec \in Nat
    BY DEF LevelsTypeOK
  <2> QED
    BY <2>1, <2>2, <2>3, <2>4
<1>2. /\ new.dev = d /\ new.sec = now /\ new.loud = a
      /\ Within(ps, d, now) = Within(measured, d, now) \cup {new}
      /\ new \notin Within(measured, d, now)
      /\ \A c, t : c # d \/ t # now => Within(ps, c, t) = Within(measured, c, t)
      /\ \A c, t : IsFiniteSet(Within(measured, c, t))
                   /\ Cardinality(Within(measured, c, t)) \in Nat
      /\ IsFiniteSet(ps)
  BY MeasureAdds
<1>3. now \in Nat /\ a \in Nat /\ \A p \in measured : p.loud \in Nat /\ p.sec \in Nat /\ p.nr \in Nat
  <2>1. now \in Nat
    BY DEF LevelsTypeOK
  <2>2. a \in Nat
    OBVIOUS
  <2> QED
    BY <2>1, <2>2, PacketTypes
<1>4. ASSUME NEW p \in ps
      PROVE  p.nr < Cardinality({q \in Within(ps, p.dev, p.sec) : q.loud = p.loud})
  <2> DEFINE S == {q \in Within(measured, p.dev, p.sec) : q.loud = p.loud}
             T == {q \in Within(ps, p.dev, p.sec) : q.loud = p.loud}
  <2>1. S \in SUBSET measured /\ T \in SUBSET ps
    BY DEF Within
  <2>2. /\ IsFiniteSet(S) /\ Cardinality(S) \in Nat
        /\ IsFiniteSet(T) /\ Cardinality(T) \in Nat
    BY <1>2, <2>1, FS_Subset, FS_CardinalityType DEF Counted, CountedIn
  <2>3. S \in SUBSET T
    BY <1>1 DEF Within
  <2>4. CASE p \in measured
    <3>1. p.nr < Cardinality(S)
      BY <2>4 DEF Counted, CountedIn
    <3>2. Cardinality(S) <= Cardinality(T)
      BY <2>2, <2>3, FS_Subset
    <3> HIDE DEF S, T
    <3>3. p.nr < Cardinality(T)
      BY <1>3, <2>2, <2>4, <3>1, <3>2
    <3> QED
      BY <3>3 DEF T
  <2>5. CASE p = new
    <3>1. T = S \cup {new} /\ new \notin S
      BY <1>2, <2>5
    <3>2. p.nr = Cardinality(S)
      BY <1>2, <2>5 DEF New
    <3>3. Cardinality(T) = Cardinality(S) + 1
      BY <2>2, <3>1, FS_AddElement
    <3> HIDE DEF S, T
    <3>4. p.nr < Cardinality(T)
      BY <2>2, <3>2, <3>3
    <3> QED
      BY <3>4 DEF T
  <2> QED
    BY <1>1, <2>4, <2>5
<1>5. ASSUME NEW p \in ps
      PROVE  IF p.dev \in DOMAIN ms THEN p.sec <= ms[p.dev].sec ELSE p.sec < now
  <2>1. CASE p = new
    BY <1>1, <1>2, <1>3, <2>1
  <2>2. CASE p \in measured /\ p.dev = d
    <3>1. IF d \in DOMAIN meters THEN p.sec <= meters[d].sec ELSE p.sec < now
      BY <2>2 DEF Counted, CountedIn
    <3>2. p.sec \in Nat
      BY <1>3, <2>2
    <3>3. p.sec <= now
      BY <1>1, <1>3, <3>1, <3>2
    <3> QED
      BY <1>1, <2>2, <3>3
  <2>3. CASE p \in measured /\ p.dev # d
    <3>1. IF p.dev \in DOMAIN meters THEN p.sec <= meters[p.dev].sec ELSE p.sec < now
      BY <2>3 DEF Counted, CountedIn
    <3> QED
      BY <1>1, <2>3, <3>1
  <2> QED
    BY <1>1, <2>1, <2>2, <2>3
<1>6. ASSUME NEW c \in DOMAIN meters \ {d}
      PROVE  ms[c].sec <= now /\ TrueOf(ps, Record(c, ms[c]))
  <2>1. ms[c] = meters[c] /\ Within(ps, c, meters[c].sec) = Within(measured, c, meters[c].sec)
    BY <1>1, <1>2
  <2>2. meters[c].sec <= now /\ TrueOf(measured, Record(c, meters[c]))
    BY DEF Counted, CountedIn
  <2> QED
    BY <2>1, <2>2 DEF TrueOf, Record
<1>7. TrueOf(ps, Record(d, ms[d]))
  <2> DEFINE W == Within(measured, d, now)
  <2>1. Cardinality(W \cup {new}) = Cardinality(W) + 1
    BY <1>2, FS_AddElement
  <2>2. CASE d \in DOMAIN meters /\ meters[d].sec = now
    <3>0. ~(meters[d].sec < now)
      BY <1>3, <2>2
    <3>1. ms[d] = [sec |-> now, frames |-> meters[d].frames + 1,
                   peak |-> Louder(meters[d].peak, a)]
      BY <3>0, <2>2, MeasureEffect
    <3>2. TrueOf(measured, Record(d, meters[d])) /\ meters[d].peak \in Nat
      <4>1. TrueOf(measured, Record(d, meters[d]))
        BY <2>2 DEF Counted, CountedIn
      <4>2. meters[d].peak \in Nat
        BY <2>2 DEF LevelsTypeOK
      <4> QED
        BY <4>1, <4>2
    <3>3. /\ meters[d].frames = Cardinality(W)
          /\ \A p \in W : p.loud <= meters[d].peak
          /\ \E p \in W : p.loud = meters[d].peak
      BY <2>2, <3>2 DEF TrueOf, Record, IsPeak
    <3>4. \A p \in W : p.loud \in Nat
      BY <1>3 DEF Within
    <3>5. IsPeak(Louder(meters[d].peak, a), W \cup {new})
      <4> HIDE DEF W, new
      <4> QED
        BY <1>2, <1>3, <3>2, <3>3, <3>4 DEF IsPeak, Louder
    <3>6. /\ Record(d, ms[d]).dev = d /\ Record(d, ms[d]).t = now
          /\ Record(d, ms[d]).f = meters[d].frames + 1
          /\ Record(d, ms[d]).pk = Louder(meters[d].peak, a)
      BY <3>1 DEF Record
    <3>7. Within(ps, d, now) = W \cup {new}
      BY <1>2
    <3>8. Record(d, ms[d]).f = Cardinality(W \cup {new})
      BY <2>1, <3>3, <3>6
    <3> HIDE DEF W, new, ps, ms
    <3> QED
      BY <3>5, <3>6, <3>7, <3>8 DEF TrueOf
  <2>3. CASE d \notin DOMAIN meters \/ meters[d].sec < now
    <3>0. ~(d \in DOMAIN meters /\ meters[d].sec = now)
      BY <1>3, <2>3
    <3>1. ms[d] = [sec |-> now, frames |-> 1, peak |-> a]
      BY <3>0, <2>3, MeasureEffect
    <3>2. W = {}
      <4> SUFFICES ASSUME NEW p \in W PROVE FALSE
        OBVIOUS
      <4>1. p \in measured /\ p.dev = d /\ p.sec = now
        BY DEF Within
      <4>2. IF d \in DOMAIN meters THEN p.sec <= meters[d].sec ELSE p.sec < now
        BY <4>1 DEF Counted, CountedIn
      <4> QED
        BY <1>1, <1>3, <2>3, <4>1, <4>2
    <3>3. Cardinality(W) = 0 /\ IsPeak(a, {new})
      BY <1>2, <1>3, <3>2, FS_EmptySet DEF IsPeak
    <3>4. Within(ps, d, now) = {new}
      BY <1>2, <3>2
    <3>5. Cardinality({new}) = 1
      BY <2>1, <3>2, <3>3
    <3> QED
      BY <3>1, <3>3, <3>4, <3>5 DEF TrueOf, Record
  <2> QED
    BY <1>1, <1>3, <2>2, <2>3
<1>8. ASSUME NEW c \in DOMAIN ms PROVE ms[c].sec <= now /\ TrueOf(ps, Record(c, ms[c]))
  <2>1. CASE c = d
    <3>1. ms[d].sec <= now
      BY <1>1, <1>3
    <3> QED
      BY <2>1, <3>1, <1>7
  <2>2. CASE c # d
    <3>1. c \in DOMAIN meters \ {d}
      BY <1>1, <2>2
    <3> QED
      BY <3>1, <1>6
  <2> QED
    BY <2>1, <2>2
<1> HIDE DEF ps, ms, new
<1>9. CountedIn(ps, ms, now)
  BY <1>2, <1>4, <1>5, <1>8 DEF CountedIn
<1> QED
  BY <1>1, <1>9 DEF Counted, ps, ms

(* A second that is over stays so, and has the packets it had. *)
LEMMA MeasureOver ==
    ASSUME LevelsTypeOK, Counted, NEW d \in Devices, NEW a \in Loudness, Measure(d, a),
           NEW c, NEW t \in Nat, Over(meters, now, c, t)
    PROVE  /\ Over(meters', now, c, t)
           /\ Within(measured', c, t) = Within(measured, c, t)
<1>1. now \in Nat
  BY LevelsAssumption DEF LevelsTypeOK
<1>2. CASE c # d
  <2>1. c \in DOMAIN meters' <=> c \in DOMAIN meters
    BY <1>2, MeasureEffect
  <2>2. c \in DOMAIN meters => meters'[c] = meters[c]
    BY <1>2, MeasureEffect
  <2>3. Within(measured', c, t) = Within(measured, c, t)
    BY <1>2, MeasureAdds
  <2> QED
    BY <2>1, <2>2, <2>3 DEF Over
<1>3. CASE c = d
  <2>1. d \in DOMAIN meters => meters[d].sec \in Nat /\ meters[d].sec <= now
    <3>1. d \in DOMAIN meters => meters[d].sec <= now
      BY DEF Counted, CountedIn
    <3>2. d \in DOMAIN meters => meters[d].sec \in Nat
      BY LevelsAssumption DEF LevelsTypeOK
    <3> QED
      BY <3>1, <3>2
  <2>2. t < now
    BY <1>1, <1>3, <2>1 DEF Over
  <2>3. d \in DOMAIN meters' /\ meters'[d].sec = now
    <3>1. d \in DOMAIN meters'
      BY MeasureEffect
    <3> QED
      BY <3>1, MeasureMeter
  <2>4. Within(measured', c, t) = Within(measured, c, t)
    <3>1. t # now
      BY <1>1, <2>2
    <3> QED
      BY <3>1, MeasureAdds
  <2> QED
    BY <1>3, <2>2, <2>3, <2>4 DEF Over
<1> QED
  BY <1>2, <1>3

(* The record that is sent is of a second that is over, and of no earlier one. *)
LEMMA MeasureRecorded ==
    ASSUME LevelsTypeOK, Counted, Recorded,
           NEW d \in Devices, NEW a \in Loudness, Measure(d, a)
    PROVE  Recorded'
<1> DEFINE ps == measured'
           ms == meters'
           ls == levels'
<1>1. /\ levels \in Seq(LevelRecord)
      /\ now \in Nat
      /\ now' = now
      /\ unsent' = unsent /\ unsent \subseteq measured
  <2>1. now' = now /\ unsent' = unsent
    BY MeasureEffect
  <2>2. levels \in Seq(LevelRecord) /\ unsent \subseteq measured
    BY DEF LevelsTypeOK
  <2>3. now \in Nat
    BY LevelsAssumption DEF LevelsTypeOK
  <2> QED
    BY <2>1, <2>2, <2>3
<1>2. /\ \A i \in DOMAIN levels : TrueOf(measured, levels[i]) /\ Over(meters, now, levels[i].dev, levels[i].t)
      /\ \A i, j \in DOMAIN levels : i < j /\ levels[i].dev = levels[j].dev => levels[i].t < levels[j].t
      /\ \A p \in unsent :
          /\ Over(meters, now, p.dev, p.sec)
          /\ \A i \in DOMAIN levels : levels[i].dev = p.dev => levels[i].t # p.sec
  BY DEF Recorded, RecordedIn
<1>3. ASSUME NEW i \in DOMAIN levels
      PROVE  /\ TrueOf(ps, levels[i]) /\ Over(ms, now, levels[i].dev, levels[i].t)
             /\ levels[i].t \in Nat
  <2>1. levels[i] \in LevelRecord
    BY <1>1
  <2>2. levels[i].t \in Nat
    BY <2>1 DEF LevelRecord
  <2>3. Over(meters, now, levels[i].dev, levels[i].t) /\ TrueOf(measured, levels[i])
    BY <1>2
  <2>4. /\ Over(ms, now, levels[i].dev, levels[i].t)
        /\ Within(ps, levels[i].dev, levels[i].t) = Within(measured, levels[i].dev, levels[i].t)
    BY <2>2, <2>3, MeasureOver
  <2> QED
    BY <2>2, <2>3, <2>4 DEF TrueOf
<1>4. ASSUME NEW p \in unsent
      PROVE  Over(ms, now, p.dev, p.sec)
  <2>1. p \in measured
    BY <1>1
  <2>2. p.sec \in Nat
    BY <2>1, PacketTypes
  <2> QED
    BY <1>2, <2>2, MeasureOver
<1>5. CASE ls = levels
  <2> HIDE DEF ps, ms
  <2>1. RecordedIn(ps, ms, now, ls, unsent)
    BY <1>2, <1>3, <1>4, <1>5 DEF RecordedIn
  <2> QED
    BY <2>1, <1>1 DEF Recorded, ps, ms
<1>6. CASE d \in DOMAIN meters /\ meters[d].sec < now /\ ls = Append(levels, Record(d, meters[d]))
  <2> DEFINE r == Record(d, meters[d])
  <2>1. r.dev = d /\ r.t = meters[d].sec
    BY DEF Record
  <2>2. r.t \in Nat
    BY <2>1, <1>6, LevelsAssumption DEF LevelsTypeOK
  <2>3. TrueOf(measured, r)
    BY <1>6 DEF Counted, CountedIn
  <2>4. DOMAIN ms = DOMAIN meters \cup {d} /\ ms[d].sec = now
    BY MeasureEffect, MeasureMeter
  <2>5. TrueOf(ps, r) /\ Over(ms, now, r.dev, r.t)
    <3>1. r.t < now /\ r.t # now
      BY <1>1, <1>6, <2>1, <2>2
    <3>2. Within(ps, r.dev, r.t) = Within(measured, r.dev, r.t)
      BY <2>1, <3>1, MeasureAdds
    <3>3. Over(ms, now, r.dev, r.t)
      BY <2>1, <2>4, <3>1 DEF Over
    <3> QED
      BY <2>3, <3>2, <3>3 DEF TrueOf
  <2>6. /\ DOMAIN ls = 1 .. Len(levels) + 1 /\ DOMAIN levels = 1 .. Len(levels)
        /\ Len(levels) \in Nat
        /\ \A i \in DOMAIN levels : ls[i] = levels[i]
        /\ ls[Len(levels) + 1] = r
    <3> HIDE DEF r
    <3>1. ls = Append(levels, r)
      BY <1>6 DEF r
    <3> HIDE DEF ls
    <3> QED
      BY <1>1, <3>1
  <2>7. \A i \in DOMAIN levels : levels[i].dev = d => levels[i].t < r.t
    BY <1>2, <1>6, <2>1 DEF Over
  <2>8. \A p \in unsent : p.dev = d => p.sec # r.t
    <3> SUFFICES ASSUME NEW p \in unsent, p.dev = d PROVE p.sec # r.t
      OBVIOUS
    <3>1. p.sec < r.t
      BY <1>2, <1>6, <2>1 DEF Over
    <3>2. p.sec \in Nat
      BY <1>1, PacketTypes
    <3> QED
      BY <2>2, <3>1, <3>2
  <2> HIDE DEF r, ps, ms, ls
  <2>9. \A i \in DOMAIN ls : TrueOf(ps, ls[i]) /\ Over(ms, now, ls[i].dev, ls[i].t)
    BY <1>3, <2>5, <2>6
  <2>10. ASSUME NEW i \in DOMAIN ls, NEW j \in DOMAIN ls, i < j, ls[i].dev = ls[j].dev
         PROVE  ls[i].t < ls[j].t
    <3>1. i \in DOMAIN levels /\ ls[i] = levels[i]
      BY <2>6, <2>10
    <3>2. CASE j \in DOMAIN levels
      BY <1>2, <2>6, <2>10, <3>1, <3>2
    <3>3. CASE j = Len(levels) + 1
      BY <2>1, <2>6, <2>7, <2>10, <3>1, <3>3
    <3> QED
      BY <2>6, <3>2, <3>3
  <2>11. ASSUME NEW p \in unsent, NEW i \in DOMAIN ls, ls[i].dev = p.dev
         PROVE  ls[i].t # p.sec
    <3>1. CASE i \in DOMAIN levels
      BY <1>2, <2>6, <2>11, <3>1
    <3>2. CASE i = Len(levels) + 1
      BY <2>1, <2>6, <2>8, <2>11, <3>2
    <3> QED
      BY <2>6, <3>1, <3>2
  <2>12. RecordedIn(ps, ms, now, ls, unsent)
    BY <1>4, <2>9, <2>10, <2>11 DEF RecordedIn
  <2> QED
    BY <2>12, <1>1 DEF Recorded, ps, ms, ls
<1> QED
  BY <1>5, <1>6, MeasureEffect

(* Records are typed, and a meter is not ahead of the clock. *)
LEMMA MeterTypes ==
    ASSUME LevelsTypeOK, Counted, NEW d \in DOMAIN meters
    PROVE  /\ d \in Devices /\ meters[d].sec \in 0 .. MaxTime /\ meters[d].sec \in Nat
           /\ meters[d].frames \in Nat \ {0} /\ meters[d].peak \in Nat
           /\ meters[d].sec <= now /\ now \in Nat
           /\ Record(d, meters[d]) \in LevelRecord
<1>1. meters[d] \in [sec : 0 .. MaxTime, frames : Nat \ {0}, peak : Nat] /\ d \in Devices
  BY DEF LevelsTypeOK
<1>2. /\ meters[d].sec \in 0 .. MaxTime /\ meters[d].frames \in Nat \ {0}
      /\ meters[d].peak \in Nat
  BY <1>1
<1>3. meters[d].sec \in Nat
  BY <1>2, LevelsAssumption
<1>4. meters[d].sec <= now
  BY DEF Counted, CountedIn
<1>5. now \in Nat
  BY LevelsAssumption DEF LevelsTypeOK
<1> QED
  BY <1>1, <1>2, <1>3, <1>4, <1>5 DEF Record, LevelRecord

(* What is in the topic is a record. *)
LEMMA RecordTypes ==
    ASSUME LevelsTypeOK, NEW i \in DOMAIN levels
    PROVE  /\ levels[i] \in LevelRecord
           /\ levels[i].dev \in Devices /\ levels[i].t \in Nat
           /\ levels[i].pk \in Nat /\ levels[i].f \in Nat \ {0}
<1>1. levels[i] \in LevelRecord
  BY DEF LevelsTypeOK
<1> QED
  BY <1>1 DEF LevelRecord

(* Reading a packet keeps the types. *)
LEMMA MeasureTypes ==
    ASSUME LevelsTypeOK, Counted, NEW d \in Devices, NEW a \in Loudness, Measure(d, a)
    PROVE  LevelsTypeOK'
<1> DEFINE ms == meters'
           Meter == [sec : 0 .. MaxTime, frames : Nat \ {0}, peak : Nat]
<1>1. /\ now \in 0 .. MaxTime /\ stops \in 0 .. MaxStops
      /\ measured \subseteq [dev : Devices, sec : 0 .. MaxTime, loud : Loudness, nr : Nat]
      /\ DOMAIN meters \subseteq Devices /\ levels \in Seq(LevelRecord)
      /\ unsent \subseteq measured
      /\ \A c \in DOMAIN meters : meters[c] \in Meter
  BY DEF LevelsTypeOK
<1>2. /\ DOMAIN ms = DOMAIN meters \cup {d}
      /\ \A c \in DOMAIN meters \ {d} : ms[c] = meters[c]
      /\ measured' = measured \cup {New(d, a)}
      /\ UNCHANGED <<now, stops, unsent>>
  BY MeasureEffect
<1>3. New(d, a) \in [dev : Devices, sec : 0 .. MaxTime, loud : Loudness, nr : Nat]
  <2> DEFINE S == {p \in Within(measured, d, now) : p.loud = a}
  <2>1. S \in SUBSET measured
    BY DEF Within
  <2>2. Cardinality(S) \in Nat
    BY <2>1, FS_Subset, FS_CardinalityType DEF Counted, CountedIn
  <2> HIDE DEF S
  <2>3. New(d, a) = [dev |-> d, sec |-> now, loud |-> a, nr |-> Cardinality(S)]
    BY DEF New, S
  <2> QED
    BY <1>1, <2>2, <2>3
<1>4. a \in Nat
  BY LevelsAssumption
<1>5. CASE d \in DOMAIN meters /\ meters[d].sec = now
  <2>1. ~(meters[d].sec < now)
    BY <1>1, <1>5, LevelsAssumption
  <2>2. ms[d] = [sec |-> now, frames |-> meters[d].frames + 1,
                 peak |-> Louder(meters[d].peak, a)] /\ levels' = levels
    BY <1>5, <2>1, MeasureEffect
  <2>3. meters[d].frames \in Nat \ {0} /\ meters[d].peak \in Nat
    BY <1>5, MeterTypes
  <2>4. meters[d].frames + 1 \in Nat \ {0} /\ Louder(meters[d].peak, a) \in Nat
    BY <1>4, <2>3 DEF Louder
  <2>5. ms[d] \in Meter
    <3> HIDE DEF ms
    <3> QED
      BY <1>1, <2>2, <2>4
  <2> HIDE DEF ms, Meter
  <2>6. \A c \in DOMAIN ms : ms[c] \in Meter
    BY <1>1, <1>2, <2>5
  <2> QED
    BY <1>1, <1>2, <1>3, <2>2, <2>6 DEF LevelsTypeOK, ms, Meter
<1>6. CASE ~(d \in DOMAIN meters /\ meters[d].sec = now)
  <2>1. ms[d] = [sec |-> now, frames |-> 1, peak |-> a]
    BY <1>6, MeasureEffect
  <2>2. ms[d] \in Meter
    <3> HIDE DEF ms
    <3> QED
      BY <1>1, <1>4, <2>1
  <2>3. levels' \in Seq(LevelRecord)
    <3>1. CASE d \in DOMAIN meters
      <4> DEFINE r == Record(d, meters[d])
      <4>1. r \in LevelRecord
        BY <3>1, MeterTypes
      <4>2. levels' = levels \/ levels' = Append(levels, r)
        BY MeasureEffect
      <4> HIDE DEF r
      <4> QED
        BY <1>1, <4>1, <4>2
    <3>2. CASE d \notin DOMAIN meters
      BY <1>1, <3>2, MeasureEffect
    <3> QED
      BY <3>1, <3>2
  <2> HIDE DEF ms, Meter
  <2>4. \A c \in DOMAIN ms : ms[c] \in Meter
    BY <1>1, <1>2, <2>2
  <2> QED
    BY <1>1, <1>2, <1>3, <2>3, <2>4 DEF LevelsTypeOK, ms, Meter
<1> QED
  BY <1>5, <1>6

(* A later second of the clock. *)
LEMMA TickKeeps ==
    ASSUME LevelsTypeOK, Counted, Recorded, Tick
    PROVE  (LevelsTypeOK /\ Counted /\ Recorded)'
<1> DEFINE n == now + 1
<1>1. now \in Nat /\ n \in Nat /\ now < n
  BY LevelsAssumption DEF LevelsTypeOK
<1>2. \A p \in measured : p.sec \in Nat
  BY PacketTypes
<1>3. \A d \in DOMAIN meters : meters[d].sec \in Nat
  BY MeterTypes
<1>4. \A i \in DOMAIN levels : levels[i].t \in Nat
  BY RecordTypes
<1>5. unsent \subseteq measured
  BY DEF LevelsTypeOK
<1> DEFINE W(d, t) == Cardinality(Within(measured, d, t))
<1>6. CountedIn(measured, meters, n)
  <2> HIDE DEF n
  <2>1. ASSUME NEW p \in measured
        PROVE  IF p.dev \in DOMAIN meters THEN p.sec <= meters[p.dev].sec ELSE p.sec < n
    <3>1. IF p.dev \in DOMAIN meters THEN p.sec <= meters[p.dev].sec ELSE p.sec < now
      BY DEF Counted, CountedIn
    <3> QED
      BY <1>1, <1>2, <3>1
  <2>2. \A d \in DOMAIN meters : meters[d].sec <= n
    BY <1>1, <1>3 DEF Counted, CountedIn
  <2> QED
    BY <2>1, <2>2 DEF Counted, CountedIn
<1>7. \A d, t : t \in Nat /\ Over(meters, now, d, t) => Over(meters, n, d, t)
  <2> HIDE DEF n
  <2> QED
    BY <1>1 DEF Over
<1>8. RecordedIn(measured, meters, n, levels, unsent)
  <2> HIDE DEF n
  <2> QED
    BY <1>2, <1>4, <1>5, <1>7 DEF Recorded, RecordedIn
<1>9. LevelsTypeOK'
  BY LevelsAssumption DEF LevelsTypeOK, Tick
<1> QED
  BY <1>6, <1>8, <1>9 DEF Counted, Recorded, Tick

(* The meters are thrown away. *)
LEMMA StopKeeps ==
    ASSUME LevelsTypeOK, Counted, Recorded, StopLevels
    PROVE  (LevelsTypeOK /\ Counted /\ Recorded)'
<1> DEFINE n == now + 1
           us == unsent'
           ms == meters'
<1>1. now \in Nat /\ n \in Nat /\ now < n
  BY LevelsAssumption DEF LevelsTypeOK
<1>2. now' = n /\ DOMAIN ms = {} /\ UNCHANGED <<levels, measured>>
  BY DEF StopLevels
<1>3. us = unsent \cup UNION {Metered(d) : d \in Devices}
  BY DEF StopLevels
<1>4. ASSUME NEW p \in us
      PROVE  \/ p \in unsent
             \/ /\ p \in measured /\ p.dev \in DOMAIN meters
                /\ p.sec = meters[p.dev].sec
  BY <1>3 DEF Metered, In
<1>5. us \subseteq measured
  BY <1>4 DEF LevelsTypeOK
<1>6. \A d, t : t \in Nat /\ Over(meters, now, d, t) => t < n
  <2> SUFFICES ASSUME NEW d, NEW t \in Nat, Over(meters, now, d, t) PROVE t < n
    OBVIOUS
  <2>1. CASE d \in DOMAIN meters
    <3>1. t < meters[d].sec /\ meters[d].sec \in Nat /\ meters[d].sec <= now
      BY <2>1, MeterTypes DEF Over
    <3> QED
      BY <1>1, <3>1
  <2>2. CASE d \notin DOMAIN meters
    BY <1>1, <2>2 DEF Over
  <2> QED
    BY <2>1, <2>2
<1>7. ASSUME NEW p \in measured PROVE p.sec < n
  <2>1. p.sec \in Nat
    BY PacketTypes
  <2>2. CASE p.dev \in DOMAIN meters
    <3>1. p.sec <= meters[p.dev].sec
      BY <2>2 DEF Counted, CountedIn
    <3>2. meters[p.dev].sec \in Nat /\ meters[p.dev].sec <= now
      BY <2>2, MeterTypes
    <3> QED
      BY <1>1, <2>1, <3>1, <3>2
  <2>3. CASE p.dev \notin DOMAIN meters
    <3>1. p.sec < now
      BY <2>3 DEF Counted, CountedIn
    <3> QED
      BY <1>1, <2>1, <3>1
  <2> QED
    BY <2>2, <2>3
<1>8. CountedIn(measured, ms, n)
  <2> HIDE DEF ms, n
  <2> QED
    BY <1>2, <1>7 DEF Counted, CountedIn
<1>9. ASSUME NEW i \in DOMAIN levels
      PROVE  TrueOf(measured, levels[i]) /\ levels[i].t < n
  <2>1. levels[i].t \in Nat
    BY RecordTypes
  <2>2. Over(meters, now, levels[i].dev, levels[i].t) /\ TrueOf(measured, levels[i])
    BY DEF Recorded, RecordedIn
  <2> HIDE DEF n
  <2> QED
    BY <1>6, <2>1, <2>2
<1>10. ASSUME NEW p \in us, NEW i \in DOMAIN levels, levels[i].dev = p.dev
       PROVE  levels[i].t # p.sec
  <2>1. CASE p \in unsent
    BY <1>10, <2>1 DEF Recorded, RecordedIn
  <2>2. CASE p \in measured /\ p.dev \in DOMAIN meters /\ p.sec = meters[p.dev].sec
    <3>1. levels[i].t < meters[p.dev].sec
      BY <1>10, <2>2 DEF Recorded, RecordedIn, Over
    <3>2. levels[i].t \in Nat /\ meters[p.dev].sec \in Nat
      BY <2>2, RecordTypes, MeterTypes
    <3> QED
      BY <2>2, <3>1, <3>2
  <2> QED
    BY <1>4, <2>1, <2>2
<1>11. \A i, j \in DOMAIN levels : i < j /\ levels[i].dev = levels[j].dev
                                  => levels[i].t < levels[j].t
  BY DEF Recorded, RecordedIn
<1>12. RecordedIn(measured, ms, n, levels, us)
  <2> HIDE DEF ms, n, us
  <2> QED
    BY <1>2, <1>5, <1>7, <1>9, <1>10, <1>11 DEF RecordedIn, Over
<1>13. LevelsTypeOK'
  <2>1. now' \in 0 .. MaxTime
    BY <1>1, LevelsAssumption DEF StopLevels, LevelsTypeOK
  <2>2. stops' \in 0 .. MaxStops
    BY LevelsAssumption DEF StopLevels, LevelsTypeOK
  <2>3. /\ levels' \in Seq(LevelRecord)
        /\ measured' \subseteq [dev : Devices, sec : 0 .. MaxTime, loud : Loudness, nr : Nat]
    BY <1>2 DEF LevelsTypeOK
  <2> QED
    BY <1>2, <1>5, <2>1, <2>2, <2>3 DEF LevelsTypeOK
<1> QED
  BY <1>2, <1>8, <1>12, <1>13 DEF Counted, Recorded

LevelsInv == LevelsTypeOK /\ Counted /\ Recorded

(* Every step of the levels consumer keeps its invariant. *)
LEMMA LevelsKeep ==
    ASSUME LevelsInv, LevelsNext \/ UNCHANGED levelVars
    PROVE  LevelsInv'
<1>1. CASE Tick
  BY <1>1, TickKeeps DEF LevelsInv
<1>2. ASSUME NEW d \in Devices, NEW a \in Loudness, Measure(d, a)
      PROVE  LevelsInv'
  BY <1>2, MeasureTypes, MeasureCounted, MeasureRecorded DEF LevelsInv
<1>3. CASE StopLevels
  BY <1>3, StopKeeps DEF LevelsInv
<1>4. CASE UNCHANGED levelVars
  BY <1>4 DEF LevelsInv, levelVars, LevelsTypeOK, Counted, Recorded
<1> QED
  BY <1>1, <1>2, <1>3, <1>4 DEF LevelsNext

-----------------------------------------------------------------------------
(* The API. *)

(* A message in work is the last one read, and its device is listed. *)
Held ==
    fetched # Nothing =>
        /\ fetched.topic \in Topics
        /\ read[fetched.topic] \in 1 .. Len(Topic(fetched.topic))
        /\ fetched.msg = Topic(fetched.topic)[read[fetched.topic]]
        /\ fetched.msg.dev \in DOMAIN known

ApiInv == TypeOK /\ Counted /\ Recorded /\ Held

(* A timeline with one more record: a full one loses its first. *)
LEMMA PushedEffect ==
    ASSUME NEW tl \in Seq(LevelRecord), Len(tl) <= Depth, NEW r \in LevelRecord
    PROVE  LET new == Pushed(tl, r)
               k   == IF Len(tl) = Depth THEN 1 ELSE 0
           IN  /\ new \in Seq(LevelRecord) /\ Len(new) <= Depth
               /\ Len(new) = Len(tl) + 1 - k
               /\ \A i \in 1 .. Len(tl) - k : new[i] = tl[i + k]
               /\ new[Len(new)] = r
<1>1. Depth \in Nat \ {0} /\ Len(tl) \in Nat
  BY ApiAssumption
<1>2. CASE Len(tl) = Depth
  <2> DEFINE rest == Tail(tl)
  <2>1. /\ rest \in Seq(LevelRecord) /\ Len(rest) = Len(tl) - 1
        /\ \A i \in 1 .. Len(tl) - 1 : rest[i] = tl[i + 1]
    BY <1>1, <1>2
  <2> HIDE DEF rest
  <2>2. Pushed(tl, r) = Append(rest, r)
    BY <1>2 DEF Pushed, rest
  <2> QED
    BY <1>1, <1>2, <2>1, <2>2
<1>3. CASE Len(tl) # Depth
  <2>1. Pushed(tl, r) = Append(tl, r)
    BY <1>3 DEF Pushed
  <2> QED
    BY <1>1, <1>3, <2>1
<1> QED
  BY <1>2, <1>3

(* The fields of a device's state after a message. *)
LEMMA AppliedEffect ==
    ASSUME NEW s \in DeviceState, Len(s.tl) <= Depth
    PROVE  /\ \A e \in EventRecord :
                 /\ AppliedEvent(s, e) \in DeviceState
                 /\ AppliedEvent(s, e).tl = s.tl
                 /\ AppliedEvent(s, e).frames = s.frames
                 /\ AppliedEvent(s, e).online =
                       IF e.event = "segment" THEN s.online ELSE e.event = "connect"
                 /\ AppliedEvent(s, e).segments =
                       IF e.event = "segment" THEN s.segments + 1 ELSE s.segments
           /\ \A r \in LevelRecord :
                 /\ AppliedLevel(s, r) \in DeviceState
                 /\ AppliedLevel(s, r).tl = Pushed(s.tl, r)
                 /\ Len(AppliedLevel(s, r).tl) <= Depth
                 /\ AppliedLevel(s, r).frames = s.frames + r.f
                 /\ AppliedLevel(s, r).online = s.online
                 /\ AppliedLevel(s, r).segments = s.segments
<1>1. /\ s.online \in BOOLEAN /\ s.segments \in Nat /\ s.frames \in Nat
      /\ s.tl \in Seq(LevelRecord)
      /\ s = [online |-> s.online, segments |-> s.segments, frames |-> s.frames, tl |-> s.tl]
  BY DEF DeviceState
<1>2. ASSUME NEW e \in EventRecord
      PROVE  /\ AppliedEvent(s, e) \in DeviceState
             /\ AppliedEvent(s, e).tl = s.tl
             /\ AppliedEvent(s, e).frames = s.frames
             /\ AppliedEvent(s, e).online =
                   IF e.event = "segment" THEN s.online ELSE e.event = "connect"
             /\ AppliedEvent(s, e).segments =
                   IF e.event = "segment" THEN s.segments + 1 ELSE s.segments
  <2>1. CASE e.event = "segment"
    <3>1. AppliedEvent(s, e) = [s EXCEPT !.segments = s.segments + 1]
      BY <2>1 DEF AppliedEvent
    <3> QED
      BY <1>1, <2>1, <3>1 DEF DeviceState
  <2>2. CASE e.event = "connect"
    <3>1. AppliedEvent(s, e) = [s EXCEPT !.online = TRUE]
      BY <2>2 DEF AppliedEvent
    <3> QED
      BY <1>1, <2>2, <3>1 DEF DeviceState
  <2>3. CASE e.event # "segment" /\ e.event # "connect"
    <3>1. AppliedEvent(s, e) = [s EXCEPT !.online = FALSE]
      BY <2>3 DEF AppliedEvent
    <3> QED
      BY <1>1, <2>3, <3>1 DEF DeviceState
  <2> QED
    BY <2>1, <2>2, <2>3
<1>3. ASSUME NEW r \in LevelRecord
      PROVE  /\ AppliedLevel(s, r) \in DeviceState
             /\ AppliedLevel(s, r).tl = Pushed(s.tl, r)
             /\ Len(AppliedLevel(s, r).tl) <= Depth
             /\ AppliedLevel(s, r).frames = s.frames + r.f
             /\ AppliedLevel(s, r).online = s.online
             /\ AppliedLevel(s, r).segments = s.segments
  <2> DEFINE tl == Pushed(s.tl, r)
  <2>1. tl \in Seq(LevelRecord) /\ Len(tl) <= Depth
    BY <1>1, PushedEffect
  <2>2. r.f \in Nat
    BY DEF LevelRecord
  <2>3. AppliedLevel(s, r) = [s EXCEPT !.tl = tl, !.frames = s.frames + r.f]
    BY DEF AppliedLevel
  <2> DEFINE f == s.frames + r.f
  <2>4. f \in Nat
    BY <1>1, <2>2
  <2> HIDE DEF tl, f
  <2>5. AppliedLevel(s, r) = [s EXCEPT !.tl = tl, !.frames = f]
    BY <2>3 DEF f
  <2>6. AppliedLevel(s, r) = [online |-> s.online, segments |-> s.segments,
                              frames |-> f, tl |-> tl]
    BY <1>1, <2>5
  <2>7. /\ AppliedLevel(s, r) \in DeviceState
        /\ AppliedLevel(s, r).tl = tl
        /\ AppliedLevel(s, r).frames = f
        /\ AppliedLevel(s, r).online = s.online
        /\ AppliedLevel(s, r).segments = s.segments
    BY <1>1, <2>1, <2>4, <2>6 DEF DeviceState
  <2> QED
    BY <2>1, <2>7 DEF tl, f
<1> QED
  BY <1>2, <1>3

(* What is in work, and what of each topic is in STATE. *)
LEMMA TakenFacts ==
    ASSUME ApiInv
    PROVE  /\ \A t \in Topics : /\ read[t] \in Nat /\ Taken(t) \subseteq DOMAIN Topic(t)
                                /\ Taken(t) \subseteq 1 .. read[t]
                                /\ Len(Topic(t)) \in Nat /\ read[t] <= Len(Topic(t))
                                /\ DOMAIN Topic(t) = 1 .. Len(Topic(t))
           /\ fetched = Nothing => \A t \in Topics : Taken(t) = 1 .. read[t]
           /\ fetched # Nothing =>
                 /\ \/ fetched.topic = "events" /\ fetched.msg \in EventRecord
                    \/ fetched.topic = "levels" /\ fetched.msg \in LevelRecord
                 /\ Taken(fetched.topic) = 1 .. read[fetched.topic] - 1
                 /\ \A t \in Topics \ {fetched.topic} : Taken(t) = 1 .. read[t]
<1>1. ASSUME NEW t \in Topics
      PROVE  /\ read[t] \in Nat /\ Len(Topic(t)) \in Nat /\ read[t] <= Len(Topic(t))
             /\ DOMAIN Topic(t) = 1 .. Len(Topic(t))
  <2>1. read[t] \in Nat /\ read[t] <= Len(Topic(t))
    BY DEF ApiInv, TypeOK
  <2>2. Topic(t) \in Seq(EventRecord) \/ Topic(t) \in Seq(LevelRecord)
    BY DEF ApiInv, TypeOK, LevelsTypeOK, Topic
  <2> QED
    BY <2>1, <2>2
<1>2. fetched = Nothing => fetched.topic = "none"
  BY DEF Nothing
<1>3. fetched # Nothing =>
         \/ fetched.topic = "events" /\ fetched.msg \in EventRecord
         \/ fetched.topic = "levels" /\ fetched.msg \in LevelRecord
  BY DEF ApiInv, TypeOK
<1>4. \A t \in Topics : Taken(t) = 1 .. (IF fetched.topic = t THEN read[t] - 1 ELSE read[t])
  BY DEF Taken
<1>5. \A t \in Topics : Taken(t) \subseteq 1 .. read[t]
  BY <1>1, <1>4
<1>6. \A t \in Topics : Taken(t) \subseteq DOMAIN Topic(t)
  BY <1>1, <1>5
<1>7. \A t \in Topics : t # "none"
  BY DEF Topics
<1>8. "events" \in Topics /\ "levels" \in Topics
  BY DEF Topics
<1> QED
  BY <1>1, <1>2, <1>3, <1>4, <1>5, <1>6, <1>7, <1>8

(* What is shown of a device is typed, listed or not. *)
LEMMA StateTypes ==
    ASSUME TypeOK, NEW d
    PROVE  State(d) \in DeviceState /\ Len(State(d).tl) <= Depth
<1>1. CASE d \in DOMAIN known
  BY <1>1 DEF TypeOK, State
<1>2. CASE d \notin DOMAIN known
  <2>1. State(d) = [online |-> FALSE, segments |-> 0, frames |-> 0, tl |-> <<>>]
    BY <1>2 DEF State, NewDevice
  <2>2. <<>> \in Seq(LevelRecord) /\ Len(<<>>) = 0
    OBVIOUS
  <2> QED
    BY <2>1, <2>2, ApiAssumption DEF DeviceState
<1> QED
  BY <1>1, <1>2

(* Listing a device changes what is shown of none. *)
LEMMA LookupEffect ==
    ASSUME TypeOK, NEW d \in Devices, known' = Lookup(d)
    PROVE  /\ DOMAIN known' = DOMAIN known \cup {d}
           /\ DOMAIN known' \subseteq Devices
           /\ \A c \in DOMAIN known' : known'[c] \in DeviceState /\ Len(known'[c].tl) <= Depth
           /\ \A c : State(c)' = State(c)
<1>1. DOMAIN known' = DOMAIN known \cup {d} /\ DOMAIN known' \subseteq Devices
  BY DEF TypeOK, Lookup
<1>2. \A c \in DOMAIN known' : known'[c] = State(c)
  BY <1>1 DEF Lookup, State
<1>3. \A c \in DOMAIN known' : known'[c] \in DeviceState /\ Len(known'[c].tl) <= Depth
  BY <1>2, StateTypes
<1>4. ASSUME NEW c PROVE State(c)' = State(c)
  <2>1. CASE c \in DOMAIN known'
    BY <1>2, <2>1 DEF State
  <2>2. CASE c \notin DOMAIN known'
    BY <1>1, <2>2 DEF State
  <2> QED
    BY <2>1, <2>2
<1> QED
  BY <1>1, <1>3, <1>4

(* The levels topic grows. *)
LEMMA LevelsGrow ==
    ASSUME LevelsInv, LevelsNext \/ UNCHANGED levelVars
    PROVE  /\ Len(levels) <= Len(levels')
           /\ \A i \in DOMAIN levels : i \in DOMAIN levels' /\ levels'[i] = levels[i]
<1>1. levels \in Seq(LevelRecord)
  BY DEF LevelsInv, LevelsTypeOK
<1>2. levels' = levels \/ \E r : levels' = Append(levels, r)
  <2>1. CASE Tick \/ StopLevels \/ UNCHANGED levelVars
    BY <2>1 DEF Tick, StopLevels, levelVars
  <2>2. ASSUME NEW d \in Devices, NEW a \in Loudness, Measure(d, a)
        PROVE  levels' = levels \/ \E r : levels' = Append(levels, r)
    <3> DEFINE r == Record(d, meters[d])
    <3>1. levels' = levels \/ levels' = Append(levels, r)
      BY <2>2, MeasureEffect DEF LevelsInv
    <3> QED
      BY <3>1
  <2> QED
    BY <2>1, <2>2 DEF LevelsNext
<1> QED
  BY <1>1, <1>2

(* Nothing that was produced is changed. *)
LEMMA TopicsGrow ==
    ASSUME ApiInv, [Next]_vars
    PROVE  /\ LevelsNext \/ UNCHANGED levelVars
           /\ \A t \in Topics : /\ Len(Topic(t)) <= Len(Topic(t)')
                                /\ \A i \in DOMAIN Topic(t) :
                                      i \in DOMAIN Topic(t)' /\ Topic(t)'[i] = Topic(t)[i]
<1>1. LevelsNext \/ UNCHANGED levelVars
  BY DEF Next, vars
<1>2. /\ Len(levels) <= Len(levels')
      /\ \A i \in DOMAIN levels : i \in DOMAIN levels' /\ levels'[i] = levels[i]
  BY <1>1, LevelsGrow DEF ApiInv, TypeOK, LevelsInv
<1>3. /\ Len(events) <= Len(events')
      /\ \A i \in DOMAIN events : i \in DOMAIN events' /\ events'[i] = events[i]
  <2>1. events' = events \/ \E e : events' = Append(events, e)
    BY DEF Next, vars, apiVars, ApiNext, Event, Fetch, Stat, Apply, Commit, Get, Answered, Restart
  <2>2. events \in Seq(EventRecord)
    BY DEF ApiInv, TypeOK
  <2> QED
    BY <2>1, <2>2
<1>4. \A t \in Topics : Topic(t) = IF t = "events" THEN events ELSE levels
  BY DEF Topic
<1>5. \A t \in Topics : Topic(t)' = IF t = "events" THEN events' ELSE levels'
  BY DEF Topic
<1> QED
  BY <1>1, <1>2, <1>3, <1>4, <1>5

(* A message is taken into STATE. *)
LEMMA ApplyEffect ==
    ASSUME ApiInv, Apply, UNCHANGED levelVars,
           NEW t, t = fetched.topic, NEW m, m = fetched.msg, NEW d, d = m.dev
    PROVE  /\ t \in Topics /\ d \in Devices /\ d \in DOMAIN known
           /\ DOMAIN known' = DOMAIN known
           /\ \A c \in DOMAIN known \ {d} : known'[c] = known[c]
           /\ known'[d] = IF t = "events" THEN AppliedEvent(known[d], m)
                                          ELSE AppliedLevel(known[d], m)
           /\ \A c : c # d => State(c)' = State(c)
           /\ State(d) = known[d] /\ State(d)' = known'[d]
           /\ Taken(t)' = Taken(t) \cup {read[t]}
           /\ read[t] \in DOMAIN Topic(t) /\ read[t] \notin Taken(t)
           /\ \A i \in Taken(t) : i < read[t]
           /\ m = Topic(t)[read[t]]
           /\ t = "events" => m \in EventRecord
           /\ t = "levels" => m \in LevelRecord
           /\ \A u \in Topics \ {t} : Taken(u)' = Taken(u)
           /\ fetched' = Nothing /\ UNCHANGED <<read, committed, lock, gets>>
           /\ UNCHANGED <<events, levels, measured, meters, unsent, restarts, now>>
<1>1. /\ t \in Topics /\ d \in DOMAIN known /\ read[t] \in 1 .. Len(Topic(t))
      /\ m = Topic(t)[read[t]]
  BY DEF Apply, ApiInv, Held
<1>2. known' = [known EXCEPT ![d] = IF t = "events" THEN AppliedEvent(known[d], m)
                                                    ELSE AppliedLevel(known[d], m)]
  BY DEF Apply
<1>3. d \in Devices
  BY <1>1 DEF ApiInv, TypeOK
<1>4. /\ DOMAIN known' = DOMAIN known
      /\ \A c \in DOMAIN known \ {d} : known'[c] = known[c]
      /\ known'[d] = IF t = "events" THEN AppliedEvent(known[d], m)
                                     ELSE AppliedLevel(known[d], m)
  BY <1>1, <1>2
<1>5. /\ \A c : c # d => State(c)' = State(c)
      /\ State(d) = known[d] /\ State(d)' = known'[d]
  BY <1>1, <1>4 DEF State
<1>6. /\ fetched # Nothing /\ fetched' = Nothing /\ UNCHANGED <<read, committed, lock, gets>>
      /\ UNCHANGED <<events, levels, measured, meters, unsent, restarts, now>>
  BY DEF Apply, levelVars
<1>7. /\ \A u \in Topics : Taken(u)' = 1 .. read[u]
  BY <1>6 DEF Taken, Nothing, Topics
<1>8. /\ Taken(t) = 1 .. read[t] - 1
      /\ \A u \in Topics \ {t} : Taken(u) = 1 .. read[u]
      /\ read[t] \in Nat
      /\ t = "events" => m \in EventRecord
      /\ t = "levels" => m \in LevelRecord
      /\ DOMAIN Topic(t) = 1 .. Len(Topic(t))
  BY <1>1, <1>6, TakenFacts
<1>9. /\ Taken(t)' = Taken(t) \cup {read[t]}
      /\ read[t] \in DOMAIN Topic(t) /\ read[t] \notin Taken(t)
      /\ \A i \in Taken(t) : i < read[t]
  <2>1. Taken(t)' = 1 .. read[t]
    BY <1>1, <1>7
  <2> QED
    BY <1>1, <1>8, <2>1
<1> QED
  BY <1>1, <1>3, <1>4, <1>5, <1>6, <1>7, <1>8, <1>9

(* A message is read: nothing is shown of it yet. *)
LEMMA FetchEffect ==
    ASSUME ApiInv, NEW t \in Topics, Fetch(t), UNCHANGED levelVars
    PROVE  /\ fetched = Nothing /\ fetched'.topic = t
           /\ fetched'.msg = Topic(t)[read[t] + 1]
           /\ fetched' = [topic |-> t, msg |-> Topic(t)[read[t] + 1]]
           /\ read[t] + 1 \in DOMAIN Topic(t)
           /\ read' \in [Topics -> Nat]
           /\ read'[t] = read[t] + 1
           /\ \A u \in Topics \ {t} : read'[u] = read[u]
           /\ \A u \in Topics : Taken(u)' = Taken(u)
           /\ fetched'.msg.dev \in Devices
           /\ known' = Lookup(fetched'.msg.dev)
           /\ t = "events" => fetched'.msg \in EventRecord
           /\ t = "levels" => fetched'.msg \in LevelRecord
<1> DEFINE m == Topic(t)[read[t] + 1]
<1>1. /\ fetched = Nothing /\ fetched' = [topic |-> t, msg |-> m]
      /\ known' = Lookup(m.dev) /\ read[t] < Len(Topic(t))
      /\ read' = [read EXCEPT ![t] = read[t] + 1]
  BY DEF Fetch
<1>2. /\ read[t] \in Nat /\ Len(Topic(t)) \in Nat /\ DOMAIN Topic(t) = 1 .. Len(Topic(t))
      /\ \A u \in Topics : Taken(u) = 1 .. read[u]
      /\ \A u \in Topics : read[u] \in Nat
  BY <1>1, TakenFacts
<1>3. read[t] + 1 \in DOMAIN Topic(t)
  BY <1>1, <1>2
<1>4. read \in [Topics -> Nat]
  BY DEF ApiInv, TypeOK
<1>5. /\ read' \in [Topics -> Nat] /\ read'[t] = read[t] + 1
      /\ \A u \in Topics \ {t} : read'[u] = read[u]
  BY <1>1, <1>2, <1>4
<1>6. /\ t = "events" => m \in EventRecord
      /\ t = "levels" => m \in LevelRecord
  <2>1. /\ events \in Seq(EventRecord) /\ levels \in Seq(LevelRecord)
    BY DEF ApiInv, TypeOK, LevelsTypeOK
  <2> QED
    BY <1>3, <2>1 DEF Topic
<1>7. m.dev \in Devices
  BY <1>6 DEF EventRecord, LevelRecord, Topics
<1>8. fetched'.topic = t /\ fetched'.msg = m
  BY <1>1
<1>9. ASSUME NEW u \in Topics PROVE Taken(u)' = Taken(u)
  <2>1. CASE u = t
    BY <1>2, <1>5, <1>8, <2>1 DEF Taken
  <2>2. CASE u # t
    BY <1>2, <1>5, <1>8, <2>2 DEF Taken
  <2> QED
    BY <2>1, <2>2
<1> QED
  BY <1>1, <1>3, <1>5, <1>6, <1>7, <1>8, <1>9

(* Whatever is not the second half of a message's handling, and not a      *)
(* restart, leaves what is shown and what is taken as it is.               *)
LEMMA ViewStep ==
    ASSUME ApiInv, [Next]_vars
    PROVE  \/ Apply /\ UNCHANGED levelVars
           \/ /\ \A d : State(d)' = State(d)
              /\ \A t \in Topics : Taken(t)' = Taken(t)
              /\ UNCHANGED <<restarts, resumed>>
           \/ Restart /\ UNCHANGED levelVars
<1> DEFINE Goal == /\ \A d : State(d)' = State(d)
                   /\ \A t \in Topics : Taken(t)' = Taken(t)
                   /\ UNCHANGED <<restarts, resumed>>
<1>1. CASE UNCHANGED <<known, fetched, read, restarts, resumed>>
  BY <1>1 DEF State, Taken
<1>2. ASSUME NEW t \in Topics, Fetch(t), UNCHANGED levelVars
      PROVE  Goal
  <2>1. \A u \in Topics : Taken(u)' = Taken(u)
    BY <1>2, FetchEffect
  <2>2. known' = Lookup(fetched'.msg.dev) /\ fetched'.msg.dev \in Devices
    BY <1>2, FetchEffect
  <2>3. UNCHANGED <<restarts, resumed>>
    BY <1>2 DEF Fetch
  <2> DEFINE c == fetched'.msg.dev
  <2>4. c \in Devices /\ known' = Lookup(c)
    BY <2>2
  <2> HIDE DEF c
  <2>5. \A d : State(d)' = State(d)
    BY <2>4, LookupEffect DEF ApiInv
  <2> QED
    BY <2>1, <2>3, <2>5
<1>3. ASSUME NEW d \in Devices, Stat(d), UNCHANGED levelVars
      PROVE  Goal
  <2>1. known' = Lookup(d) /\ UNCHANGED <<fetched, read, restarts, resumed>>
    BY <1>3 DEF Stat
  <2>2. \A c : State(c)' = State(c)
    BY <2>1, LookupEffect DEF ApiInv
  <2> QED
    BY <2>1, <2>2 DEF Taken
<1>4. CASE ApiNext /\ UNCHANGED levelVars
  <2>1. CASE \E d \in Devices : Event(d, "connect") \/ Event(d, "disconnect") \/ Event(d, "segment")
    BY <1>1, <2>1 DEF Event
  <2>2. CASE Commit \/ Get \/ Answered
    BY <1>1, <2>2 DEF Commit, Get, Answered
  <2> QED
    BY <1>2, <1>3, <1>4, <2>1, <2>2 DEF ApiNext
<1>5. CASE UNCHANGED apiVars
  BY <1>1, <1>5 DEF apiVars
<1> QED
  BY <1>4, <1>5 DEF Next, vars

(* Every step keeps the types. *)
LEMMA ApiTypes ==
    ASSUME ApiInv, [Next]_vars
    PROVE  TypeOK'
<1>1. LevelsTypeOK'
  BY TopicsGrow, LevelsKeep DEF ApiInv, TypeOK, LevelsInv
<1>2. lock' \in {"free", "http"} /\ gets' \in 0 .. MaxGets /\ restarts' \in 0 .. MaxRestarts
  <2>1. /\ lock \in {"free", "http"} /\ gets \in 0 .. MaxGets /\ restarts \in 0 .. MaxRestarts
        /\ MaxGets \in Nat /\ MaxRestarts \in Nat
    BY ApiAssumption DEF ApiInv, TypeOK
  <2>2. CASE UNCHANGED <<lock, gets, restarts>>
    BY <2>1, <2>2
  <2>3. CASE Get \/ Answered \/ Restart
    BY <2>1, <2>3 DEF Get, Answered, Restart
  <2> QED
    BY <2>2, <2>3 DEF Next, vars, apiVars, ApiNext, Event, Fetch, Stat, Apply, Commit
<1>3. events' \in Seq(EventRecord)
  <2>1. events \in Seq(EventRecord)
    BY DEF ApiInv, TypeOK
  <2>2. CASE UNCHANGED events
    BY <2>1, <2>2
  <2>3. ASSUME NEW d \in Devices, NEW kind \in {"connect", "disconnect", "segment"}, Event(d, kind)
        PROVE  events' \in Seq(EventRecord)
    <3> DEFINE e == [dev |-> d, event |-> kind]
    <3>1. e \in EventRecord
      BY DEF EventRecord
    <3>2. events' = Append(events, e)
      BY <2>3 DEF Event
    <3> HIDE DEF e
    <3> QED
      BY <2>1, <3>1, <3>2
  <2> QED
    BY <2>2, <2>3 DEF Next, vars, apiVars, ApiNext, Fetch, Stat, Apply, Commit, Get, Answered, Restart
<1> DEFINE KnownOK(k) == /\ DOMAIN k \subseteq Devices
                         /\ \A d \in DOMAIN k : k[d] \in DeviceState /\ Len(k[d].tl) <= Depth
<1>4. KnownOK(known')
  <2>1. KnownOK(known)
    BY DEF ApiInv, TypeOK
  <2>2. CASE UNCHANGED known
    BY <2>1, <2>2
  <2>3. ASSUME NEW d \in Devices, known' = Lookup(d) PROVE KnownOK(known')
    BY <2>3, LookupEffect DEF ApiInv
  <2>4. ASSUME NEW t \in Topics, Fetch(t), UNCHANGED levelVars PROVE KnownOK(known')
    <3> DEFINE c == fetched'.msg.dev
    <3>1. c \in Devices /\ known' = Lookup(c)
      BY <2>4, FetchEffect
    <3> HIDE DEF c
    <3> QED
      BY <2>3, <3>1
  <2>5. CASE Apply /\ UNCHANGED levelVars
    <3> SUFFICES ASSUME NEW t, t = fetched.topic, NEW m, m = fetched.msg, NEW d, d = m.dev
                 PROVE  KnownOK(known')
      OBVIOUS
    <3>1. /\ t \in Topics /\ d \in DOMAIN known
          /\ DOMAIN known' = DOMAIN known
          /\ \A c \in DOMAIN known \ {d} : known'[c] = known[c]
          /\ known'[d] = IF t = "events" THEN AppliedEvent(known[d], m)
                                         ELSE AppliedLevel(known[d], m)
          /\ t = "events" => m \in EventRecord
          /\ t = "levels" => m \in LevelRecord
      BY <2>5, ApplyEffect
    <3>2. known[d] \in DeviceState /\ Len(known[d].tl) <= Depth
      BY <2>1, <3>1
    <3>3. known'[d] \in DeviceState /\ Len(known'[d].tl) <= Depth
      <4>1. CASE t = "events"
        BY <3>1, <3>2, <4>1, AppliedEffect
      <4>2. CASE t = "levels"
        BY <3>1, <3>2, <4>2, AppliedEffect
      <4> QED
        BY <3>1, <4>1, <4>2 DEF Topics
    <3> QED
      BY <2>1, <3>1, <3>3
  <2>6. CASE Restart
    <3>1. DOMAIN known' = {}
      BY <2>6 DEF Restart
    <3> QED
      BY <3>1
  <2> HIDE DEF KnownOK
  <2> QED
    BY <2>2, <2>3, <2>4, <2>5, <2>6
       DEF Next, vars, apiVars, ApiNext, Event, Stat, Commit, Get, Answered
<1>5. /\ {read, committed}' \subseteq [Topics -> Nat]
      /\ \A t \in Topics : read'[t] <= Len(Topic(t)') /\ committed'[t] <= read'[t]
  <2>1. /\ read \in [Topics -> Nat] /\ committed \in [Topics -> Nat]
        /\ \A t \in Topics : committed[t] <= read[t]
    BY DEF ApiInv, TypeOK
  <2>2. \A t \in Topics : /\ Len(Topic(t)) <= Len(Topic(t)')
                          /\ read[t] <= Len(Topic(t)) /\ Len(Topic(t)) \in Nat
    BY TopicsGrow, TakenFacts
  <2>3. \A t \in Topics : Len(Topic(t)') \in Nat
    BY <1>1, <1>3 DEF LevelsTypeOK, Topic
  <2>4. /\ read' \in [Topics -> Nat] /\ committed' \in [Topics -> Nat]
        /\ \A t \in Topics : committed'[t] <= read'[t]
                             /\ (read'[t] <= read[t] \/ read'[t] <= Len(Topic(t)))
    <3>1. CASE UNCHANGED <<read, committed>>
      BY <2>1, <3>1
    <3>2. ASSUME NEW t \in Topics, Fetch(t), UNCHANGED levelVars
          PROVE  /\ read' \in [Topics -> Nat] /\ committed' \in [Topics -> Nat]
                 /\ \A u \in Topics : committed'[u] <= read'[u]
                                      /\ (read'[u] <= read[u] \/ read'[u] <= Len(Topic(u)))
      <4>1. /\ read' \in [Topics -> Nat] /\ read'[t] = read[t] + 1
            /\ \A u \in Topics \ {t} : read'[u] = read[u]
            /\ read[t] + 1 \in DOMAIN Topic(t)
        BY <3>2, FetchEffect
      <4>2. committed' = committed
        BY <3>2 DEF Fetch
      <4>3. \A u \in Topics : read[u] \in Nat /\ committed[u] \in Nat
        BY <2>1
      <4>4. read'[t] <= Len(Topic(t)) /\ committed'[t] <= read'[t]
        BY <2>1, <4>1, <4>2, <4>3, TakenFacts
      <4>5. ASSUME NEW u \in Topics \ {t} PROVE committed'[u] <= read'[u] /\ read'[u] <= read[u]
        BY <2>1, <4>1, <4>2, <4>3
      <4> QED
        BY <2>1, <4>1, <4>2, <4>4, <4>5
    <3>3. CASE Commit
      <4>1. committed' = read /\ read' = read
        BY <3>3 DEF Commit
      <4> QED
        BY <2>1, <4>1
    <3>4. CASE Restart
      <4>1. committed' = committed /\ read' = committed
        BY <3>4 DEF Restart
      <4> QED
        BY <2>1, <4>1
    <3> QED
      BY <3>1, <3>2, <3>3, <3>4
         DEF Next, vars, apiVars, ApiNext, Event, Stat, Apply, Get, Answered
  <2>5. ASSUME NEW t \in Topics PROVE read'[t] <= Len(Topic(t)')
    <3>1. read'[t] \in Nat /\ read[t] \in Nat
      BY <2>1, <2>4
    <3> QED
      BY <2>2, <2>3, <2>4, <3>1
  <2> QED
    BY <2>4, <2>5
<1>6. fetched' \in {Nothing} \cup [topic : {"events"}, msg : EventRecord]
                             \cup [topic : {"levels"}, msg : LevelRecord]
  <2>1. CASE UNCHANGED fetched
    BY <2>1 DEF ApiInv, TypeOK
  <2>2. CASE fetched' = Nothing
    BY <2>2
  <2>3. ASSUME NEW t \in Topics, Fetch(t), UNCHANGED levelVars
        PROVE  \/ fetched' \in [topic : {"events"}, msg : EventRecord]
               \/ fetched' \in [topic : {"levels"}, msg : LevelRecord]
    <3> DEFINE m == Topic(t)[read[t] + 1]
    <3>1. /\ fetched' = [topic |-> t, msg |-> m] /\ fetched'.msg = m
          /\ t = "events" => fetched'.msg \in EventRecord
          /\ t = "levels" => fetched'.msg \in LevelRecord
      BY <2>3, FetchEffect
    <3> HIDE DEF m
    <3> QED
      BY <3>1 DEF Topics
  <2> QED
    BY <2>1, <2>2, <2>3
       DEF Next, vars, apiVars, ApiNext, Event, Stat, Apply, Commit, Get, Answered, Restart
<1>7. resumed' \in Nat
  <2>1. resumed \in Nat /\ committed \in [Topics -> Nat] /\ "events" \in Topics
    BY DEF ApiInv, TypeOK, Topics
  <2>2. resumed' = resumed \/ resumed' = committed["events"]
    BY DEF Next, vars, apiVars, ApiNext, Event, Fetch, Stat, Apply, Commit, Get, Answered, Restart
  <2> QED
    BY <2>1, <2>2
<1> QED
  BY <1>1, <1>2, <1>3, <1>4, <1>5, <1>6, <1>7 DEF TypeOK

(* A message in work stays the last one read until it is applied. *)
LEMMA HeldKept ==
    ASSUME ApiInv, [Next]_vars
    PROVE  Held'
<1>1. CASE fetched' = Nothing
  BY <1>1 DEF Held
<1>2. CASE UNCHANGED <<fetched, read>> /\ fetched # Nothing /\ DOMAIN known \subseteq DOMAIN known'
  <2> SUFFICES ASSUME NEW t, t = fetched.topic
               PROVE  /\ t \in Topics
                      /\ read[t] \in 1 .. Len(Topic(t)')
                      /\ fetched.msg = Topic(t)'[read[t]]
                      /\ fetched.msg.dev \in DOMAIN known'
    BY <1>2 DEF Held
  <2>1. /\ t \in Topics /\ read[t] \in 1 .. Len(Topic(t))
        /\ fetched.msg = Topic(t)[read[t]] /\ fetched.msg.dev \in DOMAIN known
    BY <1>2 DEF ApiInv, Held
  <2>2. Len(Topic(t)) <= Len(Topic(t)') /\ Len(Topic(t)') \in Nat
    BY <2>1, ApiTypes, TopicsGrow DEF TypeOK, LevelsTypeOK, Topic
  <2>3. read[t] \in DOMAIN Topic(t)
    BY <2>1, TakenFacts
  <2>4. Topic(t)'[read[t]] = Topic(t)[read[t]]
    BY <2>1, <2>3, TopicsGrow
  <2>5. read[t] \in 1 .. Len(Topic(t)')
    <3>1. read[t] \in Nat /\ Len(Topic(t)) \in Nat
      BY <2>1, TakenFacts
    <3> QED
      BY <2>1, <2>2, <3>1
  <2> QED
    BY <1>2, <2>1, <2>4, <2>5
<1>3. ASSUME NEW t \in Topics, Fetch(t), UNCHANGED levelVars
      PROVE  Held'
  <2> DEFINE c == fetched'.msg.dev
  <2>1. /\ fetched'.topic = t /\ read'[t] = read[t] + 1
        /\ fetched'.msg = Topic(t)[read[t] + 1]
        /\ c \in Devices /\ known' = Lookup(c)
        /\ read[t] + 1 \in DOMAIN Topic(t)
    BY <1>3, FetchEffect
  <2>2. Topic(t)' = Topic(t)
    BY <1>3 DEF Fetch, levelVars, Topic
  <2>3. c \in DOMAIN known'
    <3> HIDE DEF c
    <3> QED
      BY <2>1, LookupEffect DEF ApiInv
  <2>4. read'[t] \in 1 .. Len(Topic(t)')
    BY <2>1, <2>2, TakenFacts
  <2> QED
    BY <2>1, <2>2, <2>3, <2>4 DEF Held
<1>4. CASE ApiNext /\ UNCHANGED levelVars
  <2>1. ASSUME NEW d \in Devices, Stat(d) PROVE Held'
    BY <1>1, <2>1 DEF Stat
  <2>2. CASE Apply \/ Restart
    BY <1>1, <2>2 DEF Apply, Restart
  <2>3. CASE UNCHANGED <<fetched, read, known>>
    BY <1>1, <1>2, <2>3
  <2> QED
    BY <1>3, <1>4, <2>1, <2>2, <2>3 DEF ApiNext, Event, Commit, Get, Answered
<1>5. CASE UNCHANGED apiVars
  BY <1>1, <1>2, <1>5 DEF apiVars
<1> QED
  BY <1>4, <1>5 DEF Next, vars

(* The inductive invariant. *)
LEMMA ApiInvAlways == Spec => []ApiInv
<1>1. Init => ApiInv
  <2> SUFFICES ASSUME Init PROVE ApiInv
    OBVIOUS
  <2>1. /\ now = 0 /\ meters = <<>> /\ levels = <<>> /\ stops = 0 /\ measured = {} /\ unsent = {}
    BY DEF Init, LevelsInit
  <2>2. /\ events = <<>> /\ known = <<>> /\ fetched = Nothing
        /\ read = [t \in Topics |-> 0] /\ committed = [t \in Topics |-> 0]
        /\ lock = "free" /\ gets = 0 /\ restarts = 0 /\ resumed = 0
    BY DEF Init, ApiInit
  <2>3. DOMAIN <<>> = {} /\ Len(<<>>) = 0
    OBVIOUS
  <2>4. LevelsTypeOK
    BY <2>1, <2>3, LevelsAssumption DEF LevelsTypeOK
  <2>5. TypeOK
    <3>1. \A t \in Topics : Len(Topic(t)) = 0
      BY <2>1, <2>2, <2>3 DEF Topic
    <3>2. \A t \in Topics : read[t] <= Len(Topic(t)) /\ committed[t] <= read[t]
      BY <2>2, <3>1
    <3>3. gets \in 0 .. MaxGets /\ restarts \in 0 .. MaxRestarts
      BY <2>2, ApiAssumption
    <3> QED
      BY <2>2, <2>3, <2>4, <3>2, <3>3 DEF TypeOK
  <2>6. Counted
    BY <2>1, <2>3, FS_EmptySet DEF Counted, CountedIn
  <2>7. Recorded
    BY <2>1, <2>3 DEF Recorded, RecordedIn
  <2> QED
    BY <2>2, <2>5, <2>6, <2>7 DEF ApiInv, Held
<1>2. ApiInv /\ [Next]_vars => ApiInv'
  <2> SUFFICES ASSUME ApiInv, [Next]_vars PROVE ApiInv'
    OBVIOUS
  <2>1. (Counted /\ Recorded)'
    BY TopicsGrow, LevelsKeep DEF ApiInv, TypeOK, LevelsInv
  <2> QED
    BY <2>1, ApiTypes, HeldKept DEF ApiInv
<1> QED
  BY <1>1, <1>2, PTL DEF Spec

(* The variables of the levels consumer and of the API are typed; what is  *)
(* read is in the topic, and what is committed was read.                   *)
THEOREM TypeCorrect == Spec => []TypeOK
<1>1. ApiInv => TypeOK
  BY DEF ApiInv
<1> QED
  BY <1>1, ApiInvAlways, PTL

-----------------------------------------------------------------------------
(* What a step makes of the messages taken. *)

(* If no more is taken of a topic, the messages taken are the same. *)
LEMMA AboutKept ==
    ASSUME ApiInv, [Next]_vars, NEW t \in Topics, Taken(t)' = Taken(t), NEW d
    PROVE  /\ About(d, t)' = About(d, t)
           /\ \A i \in Taken(t) : Topic(t)'[i] = Topic(t)[i]
<1>1. \A i \in Taken(t) : Topic(t)'[i] = Topic(t)[i]
  BY TakenFacts, TopicsGrow
<1> QED
  BY <1>1 DEF About

(* A message that is applied is about its device and about no other. *)
LEMMA AboutApplied ==
    ASSUME ApiInv, Apply, UNCHANGED levelVars,
           NEW t, t = fetched.topic, NEW m, m = fetched.msg, NEW d, d = m.dev
    PROVE  /\ \A u \in Topics : Topic(u)' = Topic(u)
           /\ \A c, u : u \in Topics /\ (c # d \/ u # t) => About(c, u)' = About(c, u)
           /\ About(d, t)' = About(d, t) \cup {read[t]}
           /\ \A i \in About(d, t) : i < read[t] /\ i \in DOMAIN Topic(t)
<1>1. /\ t \in Topics /\ Taken(t)' = Taken(t) \cup {read[t]}
      /\ \A i \in Taken(t) : i < read[t]
      /\ m = Topic(t)[read[t]]
      /\ \A u \in Topics \ {t} : Taken(u)' = Taken(u)
      /\ UNCHANGED <<events, levels>>
  BY ApplyEffect
<1>2. \A u \in Topics : Topic(u)' = Topic(u)
  BY <1>1 DEF Topic
<1>3. ASSUME NEW c, NEW u \in Topics, c # d \/ u # t
      PROVE  About(c, u)' = About(c, u)
  <2>1. CASE u # t
    BY <1>1, <1>2, <2>1 DEF About
  <2>2. CASE u = t /\ c # d
    BY <1>1, <1>2, <2>2 DEF About
  <2> QED
    BY <1>3, <2>1, <2>2
<1>4. About(d, t)' = About(d, t) \cup {read[t]}
  BY <1>1, <1>2 DEF About
<1>5. About(d, t) \subseteq Taken(t)
  BY DEF About
<1> QED
  BY <1>1, <1>2, <1>3, <1>4, <1>5, TakenFacts

-----------------------------------------------------------------------------
(* Online and the number of segments. *)

(* Folds, for the events es.                                               *)
FoldsOf(es, is, s) ==
    /\ s.online <=>
          \E i \in is : /\ es[i].event = "connect"
                        /\ \A j \in is : j > i => es[j].event # "disconnect"
    /\ s.segments = Cardinality({i \in is : es[i].event = "segment"})

(* One more event makes of the state what it should. *)
LEMMA FoldsNext ==
    ASSUME NEW es, NEW k \in Nat, NEW is \in SUBSET (1 .. k), k \notin is,
           \A i \in is : i < k,
           NEW s \in DeviceState, Len(s.tl) <= Depth, es[k] \in EventRecord,
           FoldsOf(es, is, s)
    PROVE  FoldsOf(es, is \cup {k}, AppliedEvent(s, es[k]))
<1> DEFINE e == es[k]
           new == AppliedEvent(s, e)
           js == is \cup {k}
<1>1. /\ e.event \in {"connect", "disconnect", "segment"}
      /\ new.online = IF e.event = "segment" THEN s.online ELSE e.event = "connect"
      /\ new.segments = IF e.event = "segment" THEN s.segments + 1 ELSE s.segments
  BY AppliedEffect DEF EventRecord
<1>2. /\ s.online <=>
           \E i \in is : /\ es[i].event = "connect"
                         /\ \A j \in is : j > i => es[j].event # "disconnect"
      /\ s.segments = Cardinality({i \in is : es[i].event = "segment"})
  BY DEF FoldsOf
<1> HIDE DEF new
<1>3. new.online <=>
         \E i \in js : /\ es[i].event = "connect"
                       /\ \A j \in js : j > i => es[j].event # "disconnect"
  <2>1. CASE e.event = "segment"
    <3>1. new.online = s.online
      BY <1>1, <2>1
    <3>2. (\E i \in js : /\ es[i].event = "connect"
                         /\ \A j \in js : j > i => es[j].event # "disconnect")
           <=> (\E i \in is : /\ es[i].event = "connect"
                              /\ \A j \in is : j > i => es[j].event # "disconnect")
      BY <2>1
    <3> QED
      BY <1>2, <3>1, <3>2
  <2>2. CASE e.event = "connect"
    <3>1. new.online = TRUE
      BY <1>1, <2>2
    <3>2. \A j \in js : ~(j > k)
      OBVIOUS
    <3> QED
      BY <2>2, <3>1, <3>2
  <2>3. CASE e.event = "disconnect"
    <3>1. new.online = FALSE
      BY <1>1, <2>3
    <3>2. \A i \in is : k > i
      OBVIOUS
    <3> QED
      BY <2>3, <3>1, <3>2
  <2> QED
    BY <1>1, <2>1, <2>2, <2>3
<1>4. new.segments = Cardinality({i \in js : es[i].event = "segment"})
  <2> DEFINE S == {i \in is : es[i].event = "segment"}
             T == {i \in js : es[i].event = "segment"}
  <2>1. S \in SUBSET (1 .. k) /\ k \notin S
    OBVIOUS
  <2>2. IsFiniteSet(S)
    BY <2>1, FS_Interval, FS_Subset
  <2>3. CASE e.event = "segment"
    <3>1. T = S \cup {k}
      BY <2>3
    <3>2. Cardinality(S \cup {k}) = Cardinality(S) + 1
      BY <2>1, <2>2, FS_AddElement
    <3> QED
      BY <1>1, <1>2, <2>3, <3>1, <3>2
  <2>4. CASE e.event # "segment"
    <3>1. T = S
      BY <2>4
    <3> QED
      BY <1>1, <1>2, <2>4, <3>1
  <2> QED
    BY <2>3, <2>4
<1> QED
  BY <1>3, <1>4 DEF FoldsOf, new

(* Where the events about d are that this process has taken.              *)
Since(d) == {i \in About(d, "events") : i > resumed}

LEMMA ViewApart ==
    ViewCurrent <=> \A d \in Devices : FoldsOf(events, Since(d), State(d))
BY DEF ViewCurrent, Folds, FoldsOf, Since

(* What is in work is not before what this process started with.           *)
Resumes ==
    /\ resumed <= read["events"]
    /\ fetched.topic = "events" => resumed < read["events"]

LEMMA ResumesStep == ApiInv /\ Resumes /\ [Next]_vars => Resumes'
<1> SUFFICES ASSUME ApiInv, Resumes, [Next]_vars PROVE Resumes'
  OBVIOUS
<1>0. resumed \in Nat /\ read \in [Topics -> Nat] /\ "events" \in Topics
  BY DEF ApiInv, TypeOK, Topics
<1>1. CASE UNCHANGED <<fetched, read, resumed>>
  BY <1>1 DEF Resumes
<1>2. ASSUME NEW t \in Topics, Fetch(t), UNCHANGED levelVars PROVE Resumes'
  <2>1. /\ fetched'.topic = t /\ read'[t] = read[t] + 1 /\ resumed' = resumed
        /\ \A u \in Topics \ {t} : read'[u] = read[u]
    BY <1>2, FetchEffect DEF Fetch
  <2>2. read["events"] \in Nat /\ resumed <= read["events"]
    BY <1>0 DEF Resumes
  <2>3. CASE t = "events"
    BY <1>0, <2>1, <2>2, <2>3 DEF Resumes
  <2>4. CASE t # "events"
    BY <1>0, <2>1, <2>2, <2>4 DEF Resumes
  <2> QED
    BY <2>3, <2>4
<1>3. CASE Apply
  <2>1. fetched'.topic # "events" /\ UNCHANGED <<read, resumed>>
    BY <1>3 DEF Apply, Nothing
  <2> QED
    BY <2>1 DEF Resumes
<1>4. CASE Restart
  <2>1. fetched'.topic # "events" /\ resumed' = read'["events"]
    BY <1>4 DEF Restart, Nothing
  <2>2. resumed' \in Nat
    BY ApiTypes DEF TypeOK
  <2> QED
    BY <2>1, <2>2 DEF Resumes
<1> QED
  BY <1>1, <1>2, <1>3, <1>4 DEF Next, vars, apiVars, ApiNext, Event, Stat, Commit, Get, Answered

(* After one more message the view is again what the events make of it. *)
LEMMA ViewApply ==
    ASSUME ApiInv, Resumes, ViewCurrent, Apply, UNCHANGED levelVars
    PROVE  ViewCurrent'
<1> SUFFICES ASSUME NEW t, t = fetched.topic, NEW m, m = fetched.msg, NEW d, d = m.dev
             PROVE  ViewCurrent'
  OBVIOUS
<1>1. /\ t \in Topics /\ d \in Devices /\ State(d) = known[d] /\ State(d)' = known'[d]
      /\ known'[d] = IF t = "events" THEN AppliedEvent(known[d], m)
                                     ELSE AppliedLevel(known[d], m)
      /\ \A c : c # d => State(c)' = State(c)
      /\ m = Topic(t)[read[t]] /\ events' = events
      /\ t = "events" => m \in EventRecord
      /\ t = "levels" => m \in LevelRecord
      /\ read[t] \notin Taken(t) /\ read[t] \in Nat
  BY ApplyEffect, TakenFacts
<1>2. State(d) \in DeviceState /\ Len(State(d).tl) <= Depth
  BY StateTypes DEF ApiInv
<1>3. /\ \A c, u : u \in Topics /\ (c # d \/ u # t) => About(c, u)' = About(c, u)
      /\ About(d, t)' = About(d, t) \cup {read[t]}
      /\ \A i \in About(d, t) : i < read[t]
  BY AboutApplied
<1>4. "events" \in Topics /\ resumed' = resumed
  BY DEF Topics, Apply
<1>5. ASSUME NEW c \in Devices
      PROVE  FoldsOf(events, Since(c)', State(c)')
  <2>1. FoldsOf(events, Since(c), State(c))
    BY ViewApart
  <2>2. CASE c # d
    <3>1. About(c, "events")' = About(c, "events") /\ State(c)' = State(c)
      BY <1>1, <1>3, <1>4, <2>2
    <3>2. Since(c)' = Since(c)
      BY <1>4, <3>1 DEF Since
    <3> QED
      BY <2>1, <3>1, <3>2
  <2>3. CASE c = d /\ t = "events"
    <3>1. Since(d) \in SUBSET (1 .. read[t]) /\ read[t] \notin Since(d)
      BY <1>1, <2>3, TakenFacts DEF Since, About
    <3>2. Topic(t) = events
      BY <2>3 DEF Topic
    <3>3. m = events[read[t]] /\ m \in EventRecord
      BY <1>1, <2>3, <3>2
    <3>4. Since(d)' = Since(d) \cup {read[t]}
      <4>1. read[t] > resumed
        BY <2>3 DEF Resumes, ApiInv, TypeOK
      <4> QED
        BY <1>3, <1>4, <2>3, <4>1 DEF Since
    <3> DEFINE k == read[t]
               is == Since(d)
               s == State(d)
    <3>5. /\ k \in Nat /\ is \in SUBSET (1 .. k) /\ k \notin is /\ \A i \in is : i < k
          /\ events[k] \in EventRecord /\ s \in DeviceState /\ Len(s.tl) <= Depth
          /\ FoldsOf(events, is, s)
      <4>1. \A i \in Since(d) : i < read[t]
        BY <1>3, <2>3 DEF Since
      <4> QED
        BY <1>1, <1>2, <2>1, <2>3, <3>1, <3>3, <4>1
    <3> HIDE DEF k, is, s
    <3>6. FoldsOf(events, is \cup {k}, AppliedEvent(s, events[k]))
      BY <3>5, FoldsNext
    <3> QED
      BY <1>1, <2>3, <3>3, <3>4, <3>6 DEF k, is, s
  <2>4. CASE c = d /\ t = "levels"
    <3>1. State(d)'.online = State(d).online /\ State(d)'.segments = State(d).segments
      BY <1>1, <1>2, <2>4, AppliedEffect
    <3>2. About(d, "events")' = About(d, "events")
      BY <1>3, <1>4, <2>4
    <3>3. Since(d)' = Since(d)
      BY <1>4, <3>2 DEF Since
    <3> DEFINE s == State(d)
               z == State(d)'
               is == Since(d)
    <3>4. z.online = s.online /\ z.segments = s.segments /\ FoldsOf(events, is, s)
      BY <2>1, <2>4, <3>1
    <3> HIDE DEF s, z, is
    <3>5. FoldsOf(events, is, z)
      BY <3>4, Zenon DEF FoldsOf
    <3> QED
      BY <2>4, <3>3, <3>5 DEF z, is
  <2> QED
    BY <1>1, <2>2, <2>3, <2>4 DEF Topics
<1>6. ASSUME NEW c \in Devices
      PROVE  Folds(State(c), {i \in About(c, "events") : i > resumed})'
  <2>1. events' = events
    BY <1>1
  <2>2. FoldsOf(events, Since(c)', State(c)')
    BY <1>5
  <2> QED
    BY <2>1, <2>2 DEF Folds, FoldsOf, Since
<1> QED
  BY <1>6 DEF ViewCurrent

(* With no event taken every device is shown as a new one.                 *)
LEMMA ViewEmpty ==
    ASSUME DOMAIN known = {}, Taken("events") \subseteq 1 .. resumed, resumed \in Nat
    PROVE  ViewCurrent
<1> SUFFICES ASSUME NEW d \in Devices PROVE FoldsOf(events, Since(d), State(d))
  BY ViewApart
<1>1. Since(d) = {}
  BY DEF Since, About
<1>2. State(d).online = FALSE /\ State(d).segments = 0
  BY DEF State, NewDevice
<1> QED
  BY <1>1, <1>2, FS_EmptySet DEF FoldsOf

(* What is shown of a device is what the events taken since the process    *)
(* started make of it, through every restart.                              *)
THEOREM ViewCurrentHolds == Spec => []ViewCurrent
<1>1. Init => Resumes /\ ViewCurrent
  <2> SUFFICES ASSUME Init PROVE Resumes /\ ViewCurrent
    OBVIOUS
  <2>1. read["events"] = 0 /\ fetched = Nothing /\ DOMAIN known = {} /\ resumed = 0
    BY DEF Init, ApiInit, Topics
  <2>2. fetched.topic # "events"
    BY <2>1 DEF Nothing
  <2>3. Taken("events") = {}
    BY <2>1, <2>2 DEF Taken
  <2> QED
    BY <2>1, <2>2, <2>3, ViewEmpty DEF Resumes
<1>2. ApiInv /\ Resumes /\ ViewCurrent /\ [Next]_vars => ViewCurrent'
  <2> SUFFICES ASSUME ApiInv, Resumes, ViewCurrent, [Next]_vars PROVE ViewCurrent'
    OBVIOUS
  <2>1. CASE Apply /\ UNCHANGED levelVars
    BY <2>1, ViewApply
  <2>2. CASE /\ \A d : State(d)' = State(d)
             /\ \A t \in Topics : Taken(t)' = Taken(t)
             /\ UNCHANGED <<restarts, resumed>>
    <3>1. ASSUME NEW d \in Devices
          PROVE  FoldsOf(events', Since(d)', State(d)')
      <4>1. FoldsOf(events, Since(d), State(d))
        BY ViewApart
      <4>2. /\ About(d, "events")' = About(d, "events")
            /\ \A i \in About(d, "events") : events'[i] = events[i]
        BY <2>2, AboutKept DEF About, Topic, Topics
      <4>3. Since(d)' = Since(d) /\ \A i \in Since(d) : events'[i] = events[i]
        BY <2>2, <4>2 DEF Since
      <4> QED
        BY <2>2, <4>1, <4>3 DEF FoldsOf
    <3> QED
      BY <3>1 DEF ViewCurrent, Folds, FoldsOf, Since
  <2>3. CASE Restart /\ UNCHANGED levelVars
    <3>1. /\ DOMAIN known' = {} /\ fetched'.topic # "events"
          /\ resumed' = read'["events"]
      BY <2>3 DEF Restart, Nothing
    <3>2. resumed' \in Nat
      BY ApiTypes DEF TypeOK
    <3>3. Taken("events")' \subseteq 1 .. resumed'
      BY <3>1, <3>2 DEF Taken
    <3>4. ASSUME NEW d \in Devices
          PROVE  FoldsOf(events', Since(d)', State(d)')
      <4>1. Since(d)' = {}
        BY <3>2, <3>3 DEF Since, About
      <4>2. State(d)'.online = FALSE /\ State(d)'.segments = 0
        BY <3>1 DEF State, NewDevice
      <4> QED
        BY <4>1, <4>2, FS_EmptySet DEF FoldsOf
    <3> QED
      BY <3>4 DEF ViewCurrent, Folds, FoldsOf, Since
  <2> QED
    BY <2>1, <2>2, <2>3, ViewStep
<1> QED
  BY <1>1, <1>2, ResumesStep, ApiInvAlways, PTL DEF Spec

-----------------------------------------------------------------------------
(* The timelines. *)

(* A timeline tl of the records sent: in order, and the end of them; whole  *)
(* while it is shorter than Depth.                                         *)
EndOf(tl, sent, whole) ==
    LET past == sent \ {tl[i] : i \in DOMAIN tl}
    IN  /\ \A i, j \in DOMAIN tl : i < j => tl[i].t < tl[j].t
        /\ \A i \in DOMAIN tl : tl[i] \in sent
        /\ \A r \in past : \A i \in DOMAIN tl : r.t < tl[i].t
        /\ whole => past = {} \/ Len(tl) = Depth

Sent(d) == {levels[i] : i \in About(d, "levels")}

Ends == \A d \in Devices : EndOf(State(d).tl, Sent(d), restarts = 0)

(* Records taken are about their device, and true. *)
LEMMA SentFacts ==
    ASSUME ApiInv, NEW d
    PROVE  \A r \in Sent(d) : /\ r \in LevelRecord /\ r.t \in Nat /\ r.dev = d
                              /\ TrueRecord(r)
<1> SUFFICES ASSUME NEW i \in About(d, "levels")
             PROVE  /\ levels[i] \in LevelRecord /\ levels[i].t \in Nat
                    /\ levels[i].dev = d /\ TrueRecord(levels[i])
  BY DEF Sent
<1>1. i \in Taken("levels") /\ Topic("levels")[i].dev = d
  BY DEF About
<1>2. i \in DOMAIN levels /\ levels[i].dev = d
  BY <1>1, TakenFacts DEF Topics, Topic
<1>3. TrueRecord(levels[i])
  BY <1>2, SameSets DEF ApiInv, Recorded, RecordedIn
<1>4. levels[i] \in LevelRecord /\ levels[i].t \in Nat
  BY <1>2, RecordTypes DEF ApiInv, TypeOK
<1> QED
  BY <1>2, <1>3, <1>4

(* Timelines that end what was sent are true. *)
LEMMA EndsTrue ==
    ASSUME ApiInv, Ends
    PROVE  TimelineTrue
<1> SUFFICES ASSUME NEW d \in DOMAIN known
             PROVE  /\ EndOf(known[d].tl, Sent(d), restarts = 0)
                    /\ \A r \in Sent(d) : TrueRecord(r)
  BY DEF TimelineTrue, EndOf, Sent
<1>1. d \in Devices
  BY DEF ApiInv, TypeOK
<1> QED
  BY <1>1, SentFacts DEF Ends, State

(* One more record at the end. *)
LEMMA EndNext ==
    ASSUME NEW tl \in Seq(LevelRecord), Len(tl) <= Depth,
           NEW sent, \A s \in sent : s.t \in Nat,
           NEW r \in LevelRecord, \A s \in sent : s.t < r.t,
           NEW whole, EndOf(tl, sent, whole)
    PROVE  EndOf(Pushed(tl, r), sent \cup {r}, whole)
<1> DEFINE new == Pushed(tl, r)
           k == IF Len(tl) = Depth THEN 1 ELSE 0
           n == Len(new)
           past == sent \ {tl[i] : i \in DOMAIN tl}
           newPast == (sent \cup {r}) \ {new[i] : i \in DOMAIN new}
<1>1. /\ new \in Seq(LevelRecord) /\ n = Len(tl) + 1 - k
      /\ \A i \in 1 .. Len(tl) - k : new[i] = tl[i + k]
      /\ new[n] = r
  BY PushedEffect
<1>2. /\ Len(tl) \in Nat /\ k \in {0, 1} /\ n \in Nat \ {0} /\ n = Len(tl) + 1 - k
      /\ k = 1 => Len(tl) \in Nat \ {0}
      /\ \A i \in 1 .. Len(tl) - k : new[i] = tl[i + k]
      /\ new[n] = r
      /\ DOMAIN new = 1 .. n /\ DOMAIN tl = 1 .. Len(tl)
      /\ k = 1 <=> Len(tl) = Depth
  <2>1. Len(tl) \in Nat /\ DOMAIN tl = 1 .. Len(tl)
    OBVIOUS
  <2>2. /\ k \in {0, 1}
        /\ k = 1 <=> Len(tl) = Depth
        /\ k = 1 => Len(tl) \in Nat \ {0}
    <3>1. Depth # 0
      BY ApiAssumption
    <3>2. CASE Len(tl) = Depth
      BY <2>1, <3>1, <3>2
    <3>3. CASE Len(tl) # Depth
      BY <3>3
    <3> QED
      BY <3>2, <3>3
  <2> HIDE DEF k, new
  <2>3. n \in Nat \ {0} /\ DOMAIN new = 1 .. n
    BY <1>1, <2>1, <2>2
  <2> QED
    BY <1>1, <2>1, <2>2, <2>3
<1>3. /\ \A i, j \in DOMAIN tl : i < j => tl[i].t < tl[j].t
      /\ \A i \in DOMAIN tl : tl[i] \in sent
      /\ \A p \in past : \A i \in DOMAIN tl : p.t < tl[i].t
      /\ whole => past = {} \/ Len(tl) = Depth
  BY DEF EndOf
<1>4. ASSUME NEW p \in newPast PROVE p \in sent /\ \A i \in 1 .. n : p # new[i]
  BY <1>2
<1>5. ASSUME NEW p \in sent, \A i \in DOMAIN tl : p # tl[i] PROVE p \in past
  BY <1>5
<1> HIDE DEF new, n, k, past, newPast
<1>6. ASSUME NEW i \in 1 .. n, i # n
      PROVE  i \in 1 .. Len(tl) - k /\ i + k \in DOMAIN tl /\ new[i] = tl[i + k]
  <2>1. i \in 1 .. Len(tl) - k
    BY <1>2, <1>6
  <2>2. i + k \in DOMAIN tl
    BY <1>2, <2>1
  <2> QED
    BY <1>2, <2>1, <2>2
<1>7. ASSUME NEW i \in 1 .. n PROVE new[i] \in sent \cup {r}
  BY <1>2, <1>3, <1>6
<1>8. ASSUME NEW i \in 1 .. n, NEW j \in 1 .. n, i < j PROVE new[i].t < new[j].t
  <2>1. i # n /\ new[i] = tl[i + k] /\ i + k \in DOMAIN tl
    BY <1>2, <1>6, <1>8
  <2>2. CASE j = n
    BY <1>2, <1>3, <2>1, <2>2
  <2>3. CASE j # n
    <3>1. new[j] = tl[j + k] /\ j + k \in DOMAIN tl
      BY <1>6, <2>3
    <3>2. i + k < j + k
      BY <1>2, <1>8
    <3> QED
      BY <1>3, <2>1, <3>1, <3>2
  <2> QED
    BY <2>2, <2>3
<1>9. ASSUME NEW p \in newPast PROVE p \in past \/ (k = 1 /\ p = tl[1])
  <2>1. ASSUME NEW i \in DOMAIN tl, p = tl[i] PROVE k = 1 /\ i = 1
    <3> SUFFICES ASSUME ~(k = 1 /\ i = 1) PROVE FALSE
      OBVIOUS
    <3>1. i \in 1 .. Len(tl)
      BY <1>2
    <3>2. i - k \in 1 .. Len(tl) - k /\ (i - k) + k = i
      BY <1>2, <3>1
    <3>3. i - k \in 1 .. n
      BY <1>2, <3>1, <3>2
    <3>4. new[i - k] = tl[i]
      BY <1>2, <3>2
    <3> QED
      BY <1>4, <2>1, <3>3, <3>4
  <2> QED
    BY <1>4, <1>5, <2>1
<1>10. ASSUME NEW p \in newPast, NEW i \in 1 .. n PROVE p.t < new[i].t
  <2>1. p \in sent
    BY <1>4
  <2>2. CASE i = n
    BY <1>2, <2>1, <2>2
  <2>3. CASE i # n
    <3>1. new[i] = tl[i + k] /\ i + k \in DOMAIN tl
      BY <1>6, <2>3
    <3>2. CASE p \in past
      BY <1>3, <3>1, <3>2
    <3>3. CASE k = 1 /\ p = tl[1]
      <4>1. 1 \in DOMAIN tl /\ 1 < i + k
        BY <1>2, <3>1, <3>3
      <4> QED
        BY <1>3, <3>1, <3>3, <4>1
    <3> QED
      BY <1>9, <3>2, <3>3
  <2> QED
    BY <2>2, <2>3
<1>11. ASSUME whole PROVE newPast = {} \/ n = Depth
  <2>1. CASE Len(tl) = Depth
    BY <1>2, <2>1
  <2>2. CASE Len(tl) # Depth
    <3>1. past = {} /\ k # 1
      BY <1>2, <1>3, <1>11, <2>2
    <3> QED
      BY <1>9, <3>1
  <2> QED
    BY <2>1, <2>2
<1>12. EndOf(new, sent \cup {r}, whole)
  <2>1. newPast = (sent \cup {r}) \ {new[i] : i \in DOMAIN new}
    BY DEF newPast
  <2>2. n = Len(new)
    BY DEF n
  <2> QED
    BY <1>2, <1>7, <1>8, <1>10, <1>11, <2>1, <2>2 DEF EndOf
<1> QED
  BY <1>12 DEF new

(* A record that is taken ends the timeline of its device. *)
LEMMA EndsApply ==
    ASSUME ApiInv, Ends, Apply, UNCHANGED levelVars
    PROVE  Ends'
<1> SUFFICES ASSUME NEW t, t = fetched.topic, NEW m, m = fetched.msg, NEW d, d = m.dev
             PROVE  Ends'
  OBVIOUS
<1>1. /\ t \in Topics /\ d \in Devices /\ State(d) = known[d] /\ State(d)' = known'[d]
      /\ known'[d] = IF t = "events" THEN AppliedEvent(known[d], m)
                                     ELSE AppliedLevel(known[d], m)
      /\ \A c : c # d => State(c)' = State(c)
      /\ m = Topic(t)[read[t]] /\ levels' = levels /\ restarts' = restarts
      /\ t = "events" => m \in EventRecord
      /\ t = "levels" => m \in LevelRecord
      /\ read[t] \in DOMAIN Topic(t)
  BY ApplyEffect
<1>2. State(d) \in DeviceState /\ Len(State(d).tl) <= Depth
  BY StateTypes DEF ApiInv
<1>3. /\ \A c, u : u \in Topics /\ (c # d \/ u # t) => About(c, u)' = About(c, u)
      /\ About(d, t)' = About(d, t) \cup {read[t]}
      /\ \A i \in About(d, t) : i < read[t] /\ i \in DOMAIN Topic(t)
  BY AboutApplied
<1>4. "levels" \in Topics /\ Topic("levels") = levels
  BY DEF Topics, Topic
<1>5. ASSUME NEW c \in Devices
      PROVE  EndOf(State(c)'.tl, Sent(c)', restarts = 0)
  <2>1. EndOf(State(c).tl, Sent(c), restarts = 0)
    BY DEF Ends
  <2>2. CASE c # d
    <3>1. Sent(c)' = Sent(c)
      BY <1>1, <1>3, <1>4, <2>2 DEF Sent
    <3> QED
      BY <1>1, <2>1, <2>2, <3>1
  <2>3. CASE c = d /\ t = "events"
    <3>1. Sent(d)' = Sent(d)
      BY <1>1, <1>3, <1>4, <2>3 DEF Sent
    <3>2. State(d)'.tl = State(d).tl
      BY <1>1, <1>2, <2>3, AppliedEffect
    <3> QED
      BY <2>1, <2>3, <3>1, <3>2
  <2>4. CASE c = d /\ t = "levels"
    <3>1. m = levels[read[t]] /\ m \in LevelRecord /\ read[t] \in DOMAIN levels
      BY <1>1, <1>4, <2>4
    <3>2. Sent(d)' = Sent(d) \cup {m}
      BY <1>1, <1>3, <2>4, <3>1 DEF Sent
    <3>3. State(d)'.tl = Pushed(State(d).tl, m)
      BY <1>1, <1>2, <2>4, <3>1, AppliedEffect
    <3>4. ASSUME NEW s \in Sent(d) PROVE s.t < m.t
      <4>1. PICK i \in About(d, "levels") : s = levels[i]
        BY DEF Sent
      <4>2. i < read[t] /\ i \in DOMAIN levels
        BY <1>3, <1>4, <2>4, <4>1
      <4>3. levels[i].dev = m.dev
        BY <1>4, <4>1 DEF About
      <4> QED
        BY <3>1, <4>1, <4>2, <4>3 DEF ApiInv, Recorded, RecordedIn
    <3>5. \A s \in Sent(d) : s.t \in Nat
      BY SentFacts
    <3>6. State(d).tl \in Seq(LevelRecord)
      BY <1>2 DEF DeviceState
    <3> DEFINE tl == State(d).tl
               sent == Sent(d)
               whole == restarts = 0
    <3>7. /\ tl \in Seq(LevelRecord) /\ Len(tl) <= Depth
          /\ \A s \in sent : s.t \in Nat /\ s.t < m.t
          /\ EndOf(tl, sent, whole)
      BY <1>2, <2>1, <2>4, <3>4, <3>5, <3>6
    <3> HIDE DEF tl, sent, whole
    <3>8. EndOf(Pushed(tl, m), sent \cup {m}, whole)
      BY <3>1, <3>7, EndNext
    <3> QED
      BY <2>4, <3>2, <3>3, <3>8 DEF tl, sent, whole
  <2> QED
    BY <1>1, <2>2, <2>3, <2>4 DEF Topics
<1> QED
  BY <1>1, <1>5 DEF Ends

(* A timeline shows seconds in order, each once, as they were measured,    *)
(* and is the end of what was sent about its device.                       *)
THEOREM TimelineTrueHolds == Spec => []TimelineTrue
<1>1. Init => Ends
  <2> SUFFICES ASSUME Init, NEW d \in Devices
               PROVE  EndOf(State(d).tl, Sent(d), restarts = 0)
    BY DEF Ends
  <2>1. levels = <<>> /\ read["levels"] = 0 /\ fetched = Nothing /\ DOMAIN known = {}
    BY DEF Init, ApiInit, LevelsInit, Topics
  <2>2. fetched.topic # "levels"
    BY <2>1 DEF Nothing
  <2>3. Sent(d) = {}
    BY <2>1, <2>2 DEF Taken, About, Sent
  <2>4. State(d).tl = <<>> /\ DOMAIN <<>> = {}
    BY <2>1 DEF State, NewDevice
  <2> QED
    BY <2>3, <2>4 DEF EndOf
<1>2. ApiInv /\ Ends /\ [Next]_vars => Ends'
  <2> SUFFICES ASSUME ApiInv, Ends, [Next]_vars PROVE Ends'
    OBVIOUS
  <2>1. CASE Apply /\ UNCHANGED levelVars
    BY <2>1, EndsApply
  <2>2. CASE /\ \A d : State(d)' = State(d)
             /\ \A t \in Topics : Taken(t)' = Taken(t)
             /\ UNCHANGED restarts
    <3> SUFFICES ASSUME NEW d \in Devices
                 PROVE  EndOf(State(d)'.tl, Sent(d)', restarts = 0)
      BY <2>2 DEF Ends
    <3>1. EndOf(State(d).tl, Sent(d), restarts = 0)
      BY DEF Ends
    <3>2. /\ About(d, "levels")' = About(d, "levels")
          /\ \A i \in About(d, "levels") : levels'[i] = levels[i]
      BY <2>2, AboutKept DEF About, Topic, Topics
    <3>3. Sent(d)' = Sent(d)
      BY <3>2 DEF Sent
    <3> QED
      BY <2>2, <3>1, <3>3
  <2>3. CASE Restart /\ UNCHANGED levelVars
    <3>1. restarts' # 0 /\ DOMAIN known' = {}
      BY <2>3 DEF Restart, ApiInv, TypeOK
    <3>2. \A d : State(d)'.tl = <<>>
      BY <3>1 DEF State, NewDevice
    <3>3. DOMAIN <<>> = {}
      OBVIOUS
    <3>4. ASSUME NEW d PROVE EndOf(State(d)'.tl, Sent(d)', restarts' = 0)
      BY <3>1, <3>2, <3>3 DEF EndOf
    <3> QED
      BY <3>4 DEF Ends
  <2> QED
    BY <2>1, <2>2, <2>3, ViewStep
<1>3. Spec => []Ends
  BY <1>1, <1>2, ApiInvAlways, PTL DEF Spec
<1>4. ApiInv /\ Ends => TimelineTrue
  BY EndsTrue
<1> QED
  BY <1>3, <1>4, ApiInvAlways, PTL

-----------------------------------------------------------------------------
(* The frames shown. *)

ShownIn(ps, ms, ls, us, tk, d) ==
    {p \in ps : /\ p.dev = d
                /\ p \notin us
                /\ d \in DOMAIN ms => p.sec # ms[d].sec
                /\ \A i \in DOMAIN ls \ tk : ls[i].dev = d => ls[i].t # p.sec}

Shown(d) == ShownIn(measured, meters, levels, unsent, Taken("levels"), d)

Exact == restarts = 0 => \A d \in Devices : State(d).frames = Cardinality(Shown(d))

(* FramesShown, with the packets picked out one by one. *)
LEMMA ShownApart == FramesShown <=> Exact
<1>1. ASSUME NEW d
      PROVE  Of(d) \ (Waiting(d) \cup Metered(d) \cup unsent) = Shown(d)
  <2> SUFFICES ASSUME NEW p \in Of(d)
               PROVE  p \in Waiting(d) \cup Metered(d) \cup unsent <=> p \notin Shown(d)
    BY DEF Of, Shown, ShownIn
  <2>1. p \in measured /\ p.dev = d
    BY DEF Of
  <2>2. p \in Waiting(d) <=> \E i \in DOMAIN levels \ Taken("levels") :
                                 levels[i].dev = d /\ levels[i].t = p.sec
    BY DEF Waiting
  <2>3. p \in Metered(d) <=> d \in DOMAIN meters /\ p.sec = meters[d].sec
    BY <2>1 DEF Metered, In
  <2> QED
    BY <2>1, <2>2, <2>3 DEF Shown, ShownIn
<1> QED
  BY <1>1 DEF FramesShown, Exact

(* A packet that is read waits in its meter, then in its record. *)
LEMMA ShownMeasured ==
    ASSUME ApiInv, NEW e \in Devices, NEW a \in Loudness, Measure(e, a),
           NEW tk, tk \subseteq DOMAIN levels, NEW d
    PROVE  ShownIn(measured', meters', levels', unsent', tk, d)
             = ShownIn(measured, meters, levels, unsent, tk, d)
<1> DEFINE ps == measured'
           ms == meters'
           ls == levels'
           new == New(e, a)
           r == Record(e, meters[e])
<1> USE DEF ApiInv, TypeOK
<1>1. /\ DOMAIN ms = DOMAIN meters \cup {e}
      /\ \A c \in DOMAIN meters \ {e} : ms[c] = meters[c]
      /\ ps = measured \cup {new} /\ new \notin measured
      /\ unsent' = unsent
  BY MeasureEffect
<1>2. ms[e].sec = now /\ new.dev = e /\ new.sec = now
  BY MeasureMeter, MeasureAdds
<1>3. r.dev = e /\ r.t = meters[e].sec
  BY DEF Record
<1>4. \/ e \in DOMAIN meters /\ meters[e].sec < now /\ ls = Append(levels, r)
      \/ e \in DOMAIN meters /\ meters[e].sec = now /\ ls = levels
      \/ e \notin DOMAIN meters /\ ls = levels
  BY MeasureEffect
<1>5. \/ ls = levels
      \/ /\ DOMAIN ls = DOMAIN levels \cup {Len(levels) + 1}
         /\ Len(levels) + 1 \notin tk
         /\ \A i \in DOMAIN levels : ls[i] = levels[i]
         /\ ls[Len(levels) + 1] = r
  <2>1. levels \in Seq(LevelRecord)
    BY DEF LevelsTypeOK
  <2> HIDE DEF ls, r
  <2>2. CASE ls = levels
    BY <2>2
  <2>3. CASE ls = Append(levels, r)
    <3>1. Len(levels) \in Nat /\ DOMAIN levels = 1 .. Len(levels)
      BY <2>1
    <3>2. /\ DOMAIN ls = 1 .. Len(levels) + 1
          /\ \A i \in DOMAIN levels : ls[i] = levels[i]
          /\ ls[Len(levels) + 1] = r
      BY <2>1, <2>3
    <3>3. 1 .. Len(levels) + 1 = 1 .. Len(levels) \cup {Len(levels) + 1}
      BY <3>1
    <3>4. Len(levels) + 1 \notin DOMAIN levels
      BY <3>1
    <3> QED
      BY <3>1, <3>2, <3>3, <3>4
  <2> QED
    BY <1>4, <2>2, <2>3
<1>6. ASSUME NEW p \in measured, p.dev = e
      PROVE  IF e \in DOMAIN meters THEN p.sec <= meters[e].sec ELSE p.sec < now
  BY <1>6 DEF Counted, CountedIn
<1>7. /\ now \in Nat /\ e \in DOMAIN meters => meters[e].sec \in Nat
      /\ \A p \in measured : p.sec \in Nat
  <2>1. now \in Nat
    BY LevelsAssumption DEF LevelsTypeOK
  <2> QED
    BY <2>1, MeterTypes, PacketTypes
<1>8. new \notin ShownIn(ps, ms, ls, unsent, tk, d)
  BY <1>1, <1>2 DEF ShownIn
<1>9. ASSUME NEW p \in measured
      PROVE  p \in ShownIn(ps, ms, ls, unsent, tk, d)
               <=> p \in ShownIn(measured, meters, levels, unsent, tk, d)
  <2> HIDE DEF ps, ms, ls, new, r
  <2>1. CASE p.dev = d /\ d # e
    <3>1. /\ d \in DOMAIN ms <=> d \in DOMAIN meters
          /\ d \in DOMAIN meters => ms[d] = meters[d]
      BY <1>1, <2>1
    <3>2. (\A i \in DOMAIN ls \ tk : ls[i].dev = d => ls[i].t # p.sec)
            <=> (\A i \in DOMAIN levels \ tk : levels[i].dev = d => levels[i].t # p.sec)
      BY <1>3, <1>5, <2>1
    <3> QED
      BY <1>1, <3>1, <3>2 DEF ShownIn
  <2>2. CASE p.dev = d /\ d = e
    <3>1. CASE e \in DOMAIN meters /\ meters[e].sec < now /\ ls = Append(levels, r)
      <4>1. p.sec # now
        BY <1>6, <1>7, <2>2, <3>1
      <4>2. ls # levels
        <5>1. levels \in Seq(LevelRecord)
          BY DEF LevelsTypeOK
        <5>2. Len(ls) = Len(levels) + 1 /\ Len(levels) \in Nat
          BY <3>1, <5>1
        <5> QED
          BY <5>2
      <4>3. (\A i \in DOMAIN ls \ tk : ls[i].dev = d => ls[i].t # p.sec)
              <=> /\ \A i \in DOMAIN levels \ tk : levels[i].dev = d => levels[i].t # p.sec
                  /\ p.sec # meters[e].sec
        BY <1>3, <1>5, <2>2, <4>2
      <4> QED
        BY <1>1, <1>2, <2>2, <3>1, <4>1, <4>3 DEF ShownIn
    <3>2. CASE e \in DOMAIN meters /\ meters[e].sec = now /\ ls = levels
      BY <1>1, <1>2, <2>2, <3>2 DEF ShownIn
    <3>3. CASE e \notin DOMAIN meters /\ ls = levels
      <4>1. p.sec # now
        BY <1>6, <1>7, <2>2, <3>3
      <4> QED
        BY <1>1, <1>2, <2>2, <3>3, <4>1 DEF ShownIn
    <3> QED
      BY <1>4, <3>1, <3>2, <3>3
  <2>3. CASE p.dev # d
    BY <2>3 DEF ShownIn
  <2> QED
    BY <2>1, <2>2, <2>3
<1>10. /\ ShownIn(ps, ms, ls, unsent, tk, d) \subseteq measured
       /\ ShownIn(measured, meters, levels, unsent, tk, d) \subseteq measured
  BY <1>1, <1>8 DEF ShownIn
<1> HIDE DEF ps, ms, ls
<1>11. ShownIn(ps, ms, ls, unsent, tk, d) = ShownIn(measured, meters, levels, unsent, tk, d)
  BY <1>9, <1>10
<1> QED
  BY <1>1, <1>11 DEF ps, ms, ls

(* Packets are not shown before their record is taken. *)
LEMMA ShownKept ==
    ASSUME ApiInv, [Next]_vars, Taken("levels")' = Taken("levels"), NEW d
    PROVE  Shown(d)' = Shown(d)
<1>1. LevelsNext \/ UNCHANGED levelVars
  BY TopicsGrow
<1>2. CASE Tick \/ UNCHANGED levelVars
  BY <1>2 DEF Tick, levelVars, Shown, ShownIn
<1>3. ASSUME NEW e \in Devices, NEW a \in Loudness, Measure(e, a)
      PROVE  Shown(d)' = Shown(d)
  <2> DEFINE tk == Taken("levels")
  <2>1. tk \subseteq DOMAIN levels
    BY TakenFacts DEF Topics, Topic
  <2>2. ShownIn(measured', meters', levels', unsent', tk, d)
          = ShownIn(measured, meters, levels, unsent, tk, d)
    <3> HIDE DEF tk
    <3> QED
      BY <1>3, <2>1, ShownMeasured
  <2> QED
    BY <2>2 DEF Shown
<1>4. CASE StopLevels
  <2>1. /\ DOMAIN meters' = {} /\ UNCHANGED <<levels, measured>>
        /\ unsent' = unsent \cup UNION {Metered(e) : e \in Devices}
    BY <1>4 DEF StopLevels
  <2>2. ASSUME NEW p \in measured, p.dev = d
        PROVE  p \in unsent' <=> p \in unsent \/ (d \in DOMAIN meters /\ p.sec = meters[d].sec)
    <3>1. DOMAIN meters \subseteq Devices
      BY DEF ApiInv, TypeOK, LevelsTypeOK
    <3>2. \A e \in Devices : p \in Metered(e) <=> e = d /\ d \in DOMAIN meters /\ p.sec = meters[d].sec
      BY <2>2 DEF Metered, In
    <3> QED
      BY <2>1, <3>1, <3>2
  <2> DEFINE us == unsent'
             ms == meters'
  <2> HIDE DEF us, ms
  <2>3. ShownIn(measured, ms, levels, us, Taken("levels"), d) = Shown(d)
    BY <2>1, <2>2 DEF Shown, ShownIn, us, ms
  <2> QED
    BY <2>1, <2>3 DEF Shown, us, ms
<1> QED
  BY <1>1, <1>2, <1>3, <1>4 DEF LevelsNext

(* A record that is taken adds the packets of its second. *)
LEMMA ShownNext ==
    ASSUME ApiInv, NEW k \in DOMAIN levels, NEW tk, k \notin tk, NEW d, levels[k].dev = d
    PROVE  LET before == ShownIn(measured, meters, levels, unsent, tk, d)
               after  == ShownIn(measured, meters, levels, unsent, tk \cup {k}, d)
           IN  Cardinality(after) = Cardinality(before) + levels[k].f
<1> DEFINE before == ShownIn(measured, meters, levels, unsent, tk, d)
           after == ShownIn(measured, meters, levels, unsent, tk \cup {k}, d)
           r == levels[k]
           W == Within(measured, d, r.t)
<1>1. /\ r.t \in Nat /\ r.f \in Nat
      /\ \A i \in DOMAIN levels : levels[i].t \in Nat
  BY RecordTypes DEF ApiInv, TypeOK
<1>2. /\ r.f = Cardinality(W) /\ Over(meters, now, d, r.t)
      /\ \A i, j \in DOMAIN levels : i < j /\ levels[i].dev = levels[j].dev
                                     => levels[i].t < levels[j].t
      /\ \A p \in unsent : p.dev = d => r.t # p.sec
  BY DEF ApiInv, Recorded, RecordedIn, TrueOf
<1>3. d \in DOMAIN meters => r.t # meters[d].sec
  <2>1. d \in DOMAIN meters => r.t < meters[d].sec /\ meters[d].sec \in Nat
    BY <1>2, MeterTypes DEF ApiInv, TypeOK, Over
  <2> QED
    BY <1>1, <2>1
<1>4. \A i \in DOMAIN levels : i # k /\ levels[i].dev = d => levels[i].t # r.t
  <2> SUFFICES ASSUME NEW i \in DOMAIN levels, i # k, levels[i].dev = d
               PROVE  levels[i].t # r.t
    OBVIOUS
  <2>1. i \in Nat /\ k \in Nat
    BY DEF ApiInv, TypeOK, LevelsTypeOK
  <2>2. i < k \/ k < i
    BY <2>1
  <2>3. levels[i].t < r.t \/ r.t < levels[i].t
    BY <1>2, <2>2
  <2> QED
    BY <1>1, <2>3
<1>5. ASSUME NEW p \in W PROVE p \in after /\ p \notin before
  <2>1. p \in measured /\ p.dev = d /\ p.sec = r.t
    BY DEF Within
  <2> QED
    BY <1>2, <1>3, <1>4, <2>1 DEF ShownIn
<1>6. ASSUME NEW p, p \notin W PROVE p \in after <=> p \in before
  <2>1. p \in measured /\ p.dev = d => p.sec # r.t
    BY <1>6 DEF Within
  <2> QED
    BY <2>1 DEF ShownIn
<1>7. IsFiniteSet(before) /\ IsFiniteSet(W)
  <2>1. before \in SUBSET measured /\ W \in SUBSET measured
    BY DEF ShownIn, Within
  <2>2. IsFiniteSet(measured)
    BY DEF ApiInv, Counted, CountedIn
  <2> QED
    BY <2>1, <2>2, FS_Subset
<1> HIDE DEF before, after, W, r
<1>8. after = before \cup W /\ before \cap W = {}
  BY <1>5, <1>6
<1>9. Cardinality(before \cup W) = Cardinality(before) + Cardinality(W)
  <2>1. /\ IsFiniteSet(before \cup W)
        /\ Cardinality(before \cup W)
             = Cardinality(before) + Cardinality(W) - Cardinality(before \cap W)
    BY <1>7, FS_Union
  <2>2. Cardinality(before \cap W) = 0
    BY <1>8, FS_EmptySet
  <2>3. Cardinality(before) \in Nat /\ Cardinality(W) \in Nat
    BY <1>7, FS_CardinalityType
  <2> QED
    BY <2>1, <2>2, <2>3
<1> QED
  BY <1>2, <1>8, <1>9 DEF before, after, r

(* The frames of a record are added once. *)
LEMMA FramesApply ==
    ASSUME ApiInv, Exact, restarts = 0, Apply, UNCHANGED levelVars
    PROVE  Exact'
<1> SUFFICES ASSUME NEW t, t = fetched.topic, NEW m, m = fetched.msg, NEW d, d = m.dev
             PROVE  Exact'
  OBVIOUS
<1>1. /\ t \in Topics /\ d \in Devices /\ State(d) = known[d] /\ State(d)' = known'[d]
      /\ known'[d] = IF t = "events" THEN AppliedEvent(known[d], m)
                                     ELSE AppliedLevel(known[d], m)
      /\ \A c : c # d => State(c)' = State(c)
      /\ m = Topic(t)[read[t]]
      /\ t = "events" => m \in EventRecord
      /\ t = "levels" => m \in LevelRecord
      /\ Taken(t)' = Taken(t) \cup {read[t]}
      /\ read[t] \in DOMAIN Topic(t) /\ read[t] \notin Taken(t)
      /\ \A u \in Topics \ {t} : Taken(u)' = Taken(u)
      /\ UNCHANGED <<levels, measured, meters, unsent, restarts>>
  BY ApplyEffect
<1>2. State(d) \in DeviceState /\ Len(State(d).tl) <= Depth
  BY StateTypes DEF ApiInv
<1>3. "levels" \in Topics /\ Topic("levels") = levels
  BY DEF Topics, Topic
<1>4. ASSUME NEW c \in Devices PROVE State(c)'.frames = Cardinality(Shown(c)')
  <2>1. State(c).frames = Cardinality(Shown(c))
    BY DEF Exact
  <2>2. CASE t = "events"
    <3>1. Shown(c)' = Shown(c)
      BY <1>1, <1>3, <2>2 DEF Shown
    <3>2. State(d)'.frames = State(d).frames
      BY <1>1, <1>2, <2>2, AppliedEffect
    <3> QED
      BY <1>1, <2>1, <3>1, <3>2
  <2>3. CASE t = "levels" /\ c = d
    <3> DEFINE k == read[t]
               tk == Taken("levels")
    <3>1. k \in DOMAIN levels /\ k \notin tk /\ levels[k] = m /\ levels[k].dev = d
      BY <1>1, <1>3, <2>3
    <3>2. Shown(d)' = ShownIn(measured, meters, levels, unsent, tk \cup {k}, d)
      BY <1>1, <2>3 DEF Shown
    <3>3. Shown(d) = ShownIn(measured, meters, levels, unsent, tk, d)
      BY DEF Shown
    <3>4. State(d)'.frames = State(d).frames + m.f
      BY <1>1, <1>2, <2>3, AppliedEffect
    <3> HIDE DEF k, tk
    <3>5. Cardinality(Shown(d)') = Cardinality(Shown(d)) + m.f
      BY <3>1, <3>2, <3>3, ShownNext
    <3> QED
      BY <2>1, <2>3, <3>4, <3>5
  <2>4. CASE t = "levels" /\ c # d
    <3>1. Shown(c)' = Shown(c)
      BY <1>1, <1>3, <2>4 DEF Shown, ShownIn
    <3> QED
      BY <1>1, <2>1, <2>4, <3>1
  <2> QED
    BY <1>1, <2>2, <2>3, <2>4 DEF Topics
<1> QED
  BY <1>4 DEF Exact

(* Until the API is restarted, every frame read and decoded is shown once, *)
(* or is on its way there, or was in a meter that was thrown away.         *)
THEOREM FramesShownHolds == Spec => []FramesShown
<1>1. Init => Exact
  <2> SUFFICES ASSUME Init, NEW d \in Devices
               PROVE  State(d).frames = Cardinality(Shown(d))
    BY DEF Exact
  <2>1. measured = {} /\ DOMAIN known = {}
    BY DEF Init, ApiInit, LevelsInit
  <2>2. Shown(d) = {}
    BY <2>1 DEF Shown, ShownIn
  <2>3. State(d).frames = 0
    BY <2>1 DEF State, NewDevice
  <2> QED
    BY <2>2, <2>3, FS_EmptySet
<1>2. ApiInv /\ Exact /\ [Next]_vars => Exact'
  <2> SUFFICES ASSUME ApiInv, Exact, [Next]_vars, restarts' = 0, NEW d \in Devices
               PROVE  State(d)'.frames = Cardinality(Shown(d)')
    BY DEF Exact
  <2>1. CASE Apply /\ UNCHANGED levelVars
    <3>1. restarts = 0
      BY <2>1 DEF Apply
    <3>2. Exact'
      BY <2>1, <3>1, FramesApply
    <3> QED
      BY <3>2 DEF Exact
  <2>2. CASE /\ \A c : State(c)' = State(c)
             /\ \A t \in Topics : Taken(t)' = Taken(t)
             /\ UNCHANGED restarts
    <3>1. Taken("levels")' = Taken("levels")
      BY <2>2 DEF Topics
    <3>2. Shown(d)' = Shown(d)
      BY <3>1, ShownKept
    <3> QED
      BY <2>2, <3>2 DEF Exact
  <2>3. CASE Restart /\ UNCHANGED levelVars
    BY <2>3 DEF Restart, ApiInv, TypeOK
  <2> QED
    BY <2>1, <2>2, <2>3, ViewStep
<1>3. Spec => []Exact
  BY <1>1, <1>2, ApiInvAlways, PTL DEF Spec
<1>4. Exact => FramesShown
  BY ShownApart
<1> QED
  BY <1>3, <1>4, PTL
=============================================================================
