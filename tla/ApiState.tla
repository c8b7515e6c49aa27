------------------------------ MODULE ApiState ------------------------------
(***************************************************************************)
(* The REST API's view of the fleet (server/api.py): a thread consumes the *)
(* topics device.events, device.stat and device.levels into the dictionary *)
(* STATE; the HTTP threads answer from it.  STATE_LOCK guards both, and is *)
(* taken twice for a message: once to look the device up, once to update.  *)
(*                                                                         *)
(* `levels' is the topic that the levels consumer writes.  Of a STAT only  *)
(* the device's being known is kept; times, addresses and byte counts are  *)
(* left out.  Positions are counted from where the group first started.    *)
(***************************************************************************)
EXTENDS Levels

CONSTANTS
    Depth,          \* TIMELINE_DEPTH
    MaxEvents,      \* bound: events produced
    MaxProduced,    \* bound: events and packets together
    MaxGets,        \* bound: requests
    MaxRestarts     \* bound: restarts of the API and of the levels consumer together

ASSUME ApiAssumption ==
    /\ Depth \in Nat \ {0}
    /\ {MaxEvents, MaxProduced, MaxGets, MaxRestarts} \subseteq Nat

VARIABLES
    events,     \* the events topic
    known,      \* STATE, by device
    fetched,    \* the message in work
    read,       \* messages read, by topic
    committed,  \* the group's committed positions
    lock,       \* STATE_LOCK: "free", or held by "http" while it answers
    gets,       \* requests so far
    restarts,   \* ghost: restarts so far
    resumed     \* ghost: events the group was past when this process started

apiVars == <<events, known, fetched, read, committed, lock, gets, restarts, resumed>>
vars == <<levelVars, apiVars>>

Topics == {"events", "levels"}
Nothing == [topic |-> "none"]

(* device(): an unknown device is listed with these values.                *)
NewDevice == [online |-> FALSE, segments |-> 0, frames |-> 0, tl |-> <<>>]

ApiInit ==
    /\ events = <<>>
    /\ known = <<>>
    /\ fetched = Nothing
    /\ read = [t \in Topics |-> 0]
    /\ committed = [t \in Topics |-> 0]
    /\ lock = "free"
    /\ gets = 0
    /\ restarts = 0
    /\ resumed = 0

(* Ingest and the segmenter.                                               *)
Event(d, kind) ==
    /\ Len(events) < MaxEvents
    /\ events' = Append(events, [dev |-> d, event |-> kind])
    /\ UNCHANGED <<known, fetched, read, committed, lock, gets, restarts, resumed>>

-----------------------------------------------------------------------------
(* The consumer thread. *)

Lookup(d) ==
    [c \in DOMAIN known \cup {d} |-> IF c \in DOMAIN known THEN known[c] ELSE NewDevice]

Topic(t) == IF t = "events" THEN events ELSE levels

(* poll() and device(): the device is listed from now on.                  *)
Fetch(t) ==
    /\ fetched = Nothing
    /\ lock = "free"
    /\ read[t] < Len(Topic(t))
    /\ LET msg == Topic(t)[read[t] + 1]
       IN  /\ fetched' = [topic |-> t, msg |-> msg]
           /\ known' = Lookup(msg.dev)
    /\ read' = [read EXCEPT ![t] = @ + 1]
    /\ UNCHANGED <<events, committed, lock, gets, restarts, resumed>>

\* variant: every event but a connect is taken for a disconnect
AppliedEventCoarse(s, e) ==
    IF e.event = "connect" THEN [s EXCEPT !.online = TRUE]
                           ELSE [s EXCEPT !.online = FALSE]

AppliedEvent(s, e) ==
    CASE e.event = "segment" -> [s EXCEPT !.segments = @ + 1]
      [] e.event = "connect" -> [s EXCEPT !.online = TRUE]
      [] OTHER               -> [s EXCEPT !.online = FALSE]

\* variant: a list without a bound
PushedUnbounded(tl, r) == Append(tl, r)

(* A deque of maxlen Depth: the oldest record gives way.                   *)
Pushed(tl, r) == IF Len(tl) = Depth THEN Append(Tail(tl), r) ELSE Append(tl, r)

AppliedLevel(s, r) == [s EXCEPT !.tl = Pushed(@, r), !.frames = @ + r.f]

Apply ==
    /\ fetched # Nothing
    /\ lock = "free"
    /\ LET m == fetched.msg
       IN  known' = [known EXCEPT ![m.dev] = IF fetched.topic = "events"
                                             THEN AppliedEvent(@, m)
                                             ELSE AppliedLevel(@, m)]
    /\ fetched' = Nothing
    /\ UNCHANGED <<events, read, committed, lock, gets, restarts, resumed>>

(* A STAT: the device is listed.                                           *)
Stat(d) ==
    /\ fetched = Nothing
    /\ lock = "free"
    /\ known' = Lookup(d)
    /\ UNCHANGED <<events, fetched, read, committed, lock, gets, restarts, resumed>>

(* The consumer's background commit; of no account without a restart.      *)
Commit ==
    /\ restarts < MaxRestarts
    /\ committed' = read
    /\ UNCHANGED <<events, known, fetched, read, lock, gets, restarts, resumed>>

-----------------------------------------------------------------------------
(* A request: the answer is sent with the lock held.                       *)
Get ==
    /\ gets < MaxGets
    /\ lock = "free"
    /\ lock' = "http"
    /\ gets' = gets + 1
    /\ UNCHANGED <<events, known, fetched, read, committed, restarts, resumed>>

\* variant: the lock is not given back
AnsweredHolding ==
    /\ lock = "http"
    /\ UNCHANGED apiVars

Answered ==
    /\ lock = "http"
    /\ lock' = "free"
    /\ UNCHANGED <<events, known, fetched, read, committed, gets, restarts, resumed>>

(* The process is stopped and started again: STATE is empty, reading goes  *)
(* on at the committed positions.                                          *)
Restart ==
    /\ restarts < MaxRestarts
    /\ restarts' = restarts + 1
    /\ known' = <<>>
    /\ fetched' = Nothing
    /\ lock' = "free"
    /\ read' = committed
    /\ resumed' = committed["events"]
    /\ UNCHANGED <<events, committed, gets>>

ApiNext ==
    \/ \E d \in Devices : Event(d, "connect") \/ Event(d, "disconnect") \/ Event(d, "segment")
    \/ \E t \in Topics : Fetch(t)
    \/ \E d \in Devices : Stat(d)
    \/ Apply
    \/ Commit
    \/ Get
    \/ Answered
    \/ Restart

Init == LevelsInit /\ ApiInit

Next ==
    /\ \/ LevelsNext /\ UNCHANGED apiVars
       \/ ApiNext /\ UNCHANGED levelVars
    /\ Len(events') + Cardinality(measured') <= MaxProduced
    /\ stops' + restarts' <= MaxRestarts

(* The consumer thread runs, and clients read their answers.               *)
Fairness ==
    /\ WF_vars((Apply \/ \E t \in Topics : Fetch(t)) /\ UNCHANGED levelVars)
    /\ WF_vars(Answered /\ UNCHANGED levelVars)

Spec == Init /\ [][Next]_vars
FairSpec == Spec /\ Fairness

-----------------------------------------------------------------------------
DeviceState == [online : BOOLEAN, segments : Nat, frames : Nat, tl : Seq(LevelRecord)]

EventRecord == [dev : Devices, event : {"connect", "disconnect", "segment"}]

TypeOK ==
    /\ LevelsTypeOK
    /\ events \in Seq(EventRecord)
    /\ DOMAIN known \subseteq Devices
    /\ \A d \in DOMAIN known : known[d] \in DeviceState /\ Len(known[d].tl) <= Depth
    /\ {read, committed} \subseteq [Topics -> Nat]
    /\ \A t \in Topics : read[t] <= Len(Topic(t)) /\ committed[t] <= read[t]
    /\ fetched \in {Nothing} \cup [topic : {"events"}, msg : EventRecord]
                             \cup [topic : {"levels"}, msg : LevelRecord]
    /\ lock \in {"free", "http"}
    /\ gets \in 0 .. MaxGets
    /\ restarts \in 0 .. MaxRestarts
    /\ resumed \in Nat

(* Where the messages of a topic about d are that are in STATE.            *)
Taken(t) == 1 .. (IF fetched.topic = t THEN read[t] - 1 ELSE read[t])
About(d, t) == {i \in Taken(t) : Topic(t)[i].dev = d}

State(d) == IF d \in DOMAIN known THEN known[d] ELSE NewDevice

(* The packets of d in records that are not yet in STATE.                  *)
Waiting(d) ==
    {p \in Of(d) : \E i \in DOMAIN levels \ Taken("levels") :
                       levels[i].dev = d /\ levels[i].t = p.sec}

(* Every frame decoded is counted once on its way to the API: it is shown, *)
(* in a record not yet taken, in the open meter, or was in a meter when    *)
(* the levels consumer stopped (levels.py:33-64, api.py:71-74).            *)
FramesShown ==
    restarts = 0 => \A d \in Devices :
        State(d).frames = Cardinality(Of(d) \ (Waiting(d) \cup Metered(d) \cup unsent))

(* n is the peak of the packets ps.                                        *)
IsPeak(n, ps) == (\A p \in ps : p.loud <= n) /\ (\E p \in ps : p.loud = n)

TrueRecord(r) ==
    r.f = Cardinality(In(r.dev, r.t)) /\ IsPeak(r.pk, In(r.dev, r.t))

(* A timeline shows seconds in order, each once, with the frames read in   *)
(* that second and their peak; it is the end of what was sent about the    *)
(* device, and until the API is restarted all of it, if it is shorter than *)
(* Depth (levels.py:33-64, api.py:71-74).                                  *)
TimelineTrue ==
    \A d \in DOMAIN known :
        LET tl   == known[d].tl
            sent == {levels[i] : i \in About(d, "levels")}
            past == sent \ {tl[i] : i \in DOMAIN tl}
        IN  /\ \A i, j \in DOMAIN tl : i < j => tl[i].t < tl[j].t
            /\ \A i \in DOMAIN tl : tl[i] \in sent /\ TrueRecord(tl[i])
            /\ \A r \in past : \A i \in DOMAIN tl : r.t < tl[i].t
            /\ restarts = 0 => past = {} \/ Len(tl) = Depth

(* The state s is what the events at the positions `is' make of a device:  *)
(* it is online if a connect is among them and no disconnect after it, and *)
(* every one of its segments is counted.                                   *)
Folds(s, is) ==
    /\ s.online <=> \E i \in is : /\ events[i].event = "connect"
                                  /\ \A j \in is : j > i => events[j].event # "disconnect"
    /\ s.segments = Cardinality({i \in is : events[i].event = "segment"})

(* Device state is rebuilt from the events (api.py:3-6): every device is   *)
(* what all its events so far make of it, also after a restart.            *)
Rebuilt == \A d \in Devices : Folds(State(d), About(d, "events"))

(* STATE is what the events that this process has taken make of it,        *)
(* wherever in the topic it started to read, and whatever comes between    *)
(* the two halves of the handling of a message (api.py:29-39, 55-67).      *)
ViewCurrent ==
    \A d \in Devices : Folds(State(d), {i \in About(d, "events") : i > resumed})

(* While clients read their answers, an event that the group was not past  *)
(* when the process started is taken into STATE, unless the process is     *)
(* restarted before that (api.py:46-67, 107-117).  An event that was read, *)
(* and its position committed, but that was not applied when the process   *)
(* ended is not promised to anybody.                                       *)
CatchesUp ==
    \A n \in 1 .. MaxEvents, k \in 0 .. MaxRestarts :
        restarts = k /\ resumed < n /\ n <= Len(events)
            ~> restarts > k \/ n \in Taken("events")
=============================================================================
