---------------------------- MODULE IngestProofs ----------------------------
(***************************************************************************)
(* What ingest guarantees for every number of connections, devices and     *)
(* addresses, every AUTH_MODE and every pair of caps.                      *)
(***************************************************************************)
EXTENDS Ingest, FiniteSetTheorems, TLAPS

LEMMA StepCases ==
    ASSUME Next
    PROVE  \/ \E c \in Conns : Accept(c)
           \/ \E c \in Conns : TurnAway(c)
           \/ \E c \in Conns : Authenticate(c)
           \/ \E c \in Conns : TakeLegacy(c)
           \/ \E c \in Conns : (Deny(c) \/ End(c))
           \/ \E c \in Conns : ReceivePushed(c)
           \/ \E c \in Conns : Receive(c)
           \/ \E c \in Conns : Vanish(c)
           \/ Drain
           \/ TimePasses
BY Zenon DEF Next

\* An announcement keeps the bus variables in their types.
LEMMA AnnounceTypes ==
    ASSUME TypeOK, NEW d \in Ids, NEW b \in BOOLEAN, Announce(d, b)
    PROVE  qlen' \in 0 .. QueueMax /\ shown' \subseteq Ids /\ missed' \subseteq Ids
BY IngestAssumption DEF TypeOK, Announce, Room

\* The record kinds a connection can receive or have pushed back.
LEMMA FrameTypes ==
    ASSUME NEW c \in Conns, NEW f \in FramesOf(c)
    PROVE  /\ f \in {NoFrame, Media} \cup {Hello(d) : d \in Ids}
           /\ f.id \in Ids
BY IngestAssumption DEF FramesOf, Media, Hello, Ids

\* Handling a frame keeps the types of what it changes.
LEMMA HandleTypes ==
    ASSUME TypeOK, NEW c \in Conns, NEW f, f.id \in Ids, HandleFrame(c, f)
    PROVE  /\ imei' \in [Conns -> Ids]
           /\ hello' \in [Conns -> BOOLEAN]
           /\ online' \subseteq Ids
           /\ qlen' \in 0 .. QueueMax
           /\ shown' \subseteq Ids
           /\ missed' \subseteq Ids
           /\ shared' \subseteq Ids
           /\ abandoned' \subseteq Ids
<1>1. CASE HandleHello(c, f.id)
  <2>1. qlen' \in 0 .. QueueMax /\ shown' \subseteq Ids /\ missed' \subseteq Ids
    BY <1>1, AnnounceTypes DEF HandleHello
  <2> QED
    BY <1>1, <2>1 DEF HandleHello, NoteHolder, TypeOK
<1>2. CASE HandleMedia
  BY <1>2, IngestAssumption DEF HandleMedia, TypeOK, Room, ghostVars
<1> QED
  BY <1>1, <1>2 DEF HandleFrame

\* The state components keep their types.
LEMMA TypeStep ==
    ASSUME TypeOK, [Next]_vars
    PROVE  TypeOK'
<1> USE ConnCapAssumption, IngestAssumption
<1>1. ASSUME NEW c \in Conns, Accept(c)
      PROVE  TypeOK'
  <2>1. Source[c] \in Addr
    OBVIOUS
  <2> QED
    BY <1>1, <2>1 DEF Accept, Admit, TypeOK, busVars, ghostVars
<1>2. ASSUME NEW c \in Conns, TurnAway(c)
      PROVE  TypeOK'
  BY <1>2 DEF TurnAway, Refuse, TypeOK, busVars, ghostVars
<1>3. ASSUME NEW c \in Conns, Authenticate(c)
      PROVE  TypeOK'
  <2>1. PICK d \in Ids : imei' = [imei EXCEPT ![c] = d] /\ NoteHolder(c, d)
    BY <1>3 DEF Authenticate, Ids
  <2>2. shared' \subseteq Ids
    BY <2>1 DEF NoteHolder, TypeOK
  <2> QED
    BY <1>3, <2>1, <2>2 DEF Authenticate, TypeOK, capVars, busVars
<1>4. ASSUME NEW c \in Conns, TakeLegacy(c)
      PROVE  TypeOK'
  <2>1. PICK f \in FramesOf(c) : /\ imei' = [imei EXCEPT ![c] = f.id]
                                 /\ pushed' = [pushed EXCEPT ![c] = f]
                                 /\ NoteHolder(c, f.id)
    BY <1>4 DEF TakeLegacy
  <2>2. /\ f \in {NoFrame, Media} \cup {Hello(d) : d \in Ids}
        /\ f.id \in Ids
    BY FrameTypes
  <2>3. imei' \in [Conns -> Ids]
    BY <2>1, <2>2 DEF TypeOK
  <2>4. pushed' \in [Conns -> {NoFrame, Media} \cup {Hello(d) : d \in Ids}]
    BY <2>1, <2>2 DEF TypeOK
  <2>5. shared' \subseteq Ids
    BY <2>1, <2>2 DEF NoteHolder, TypeOK
  <2> QED
    BY <1>4, <2>3, <2>4, <2>5 DEF TakeLegacy, TypeOK, capVars, busVars
<1>5. ASSUME NEW c \in Conns, Finish(c)
      PROVE  TypeOK'
  <2>1. imei[c] \in Ids /\ Unknown \in Ids
    BY DEF TypeOK, Ids
  <2>2. qlen' \in 0 .. QueueMax /\ shown' \subseteq Ids /\ missed' \subseteq Ids
    BY <1>5, <2>1, AnnounceTypes DEF Finish
  <2>3. live' \in [Addr -> Nat] /\ recent' = recent /\ rejected' = rejected
    BY <1>5 DEF Finish, Release, TypeOK
  <2> QED
    BY <1>5, <2>1, <2>2, <2>3 DEF Finish, TypeOK
<1>6. ASSUME NEW c \in Conns, ReceivePushed(c)
      PROVE  TypeOK'
  <2>1. pushed[c].id \in Ids
    BY <1>6 DEF ReceivePushed, TypeOK, NoFrame, Media, Hello, Ids
  <2>2. HandleFrame(c, pushed[c])
    BY <1>6 DEF ReceivePushed
  <2>3. /\ imei' \in [Conns -> Ids]
        /\ hello' \in [Conns -> BOOLEAN]
        /\ online' \subseteq Ids
        /\ qlen' \in 0 .. QueueMax
        /\ shown' \subseteq Ids
        /\ missed' \subseteq Ids
        /\ shared' \subseteq Ids
        /\ abandoned' \subseteq Ids
    BY <2>1, <2>2, HandleTypes
  <2> QED
    BY <1>6, <2>3 DEF ReceivePushed, TypeOK, capVars
<1>7. ASSUME NEW c \in Conns, Receive(c)
      PROVE  TypeOK'
  <2>1. PICK f \in FramesOf(c) : HandleFrame(c, f)
    BY <1>7 DEF Receive
  <2>2. f.id \in Ids
    BY FrameTypes
  <2>3. /\ imei' \in [Conns -> Ids]
        /\ hello' \in [Conns -> BOOLEAN]
        /\ online' \subseteq Ids
        /\ qlen' \in 0 .. QueueMax
        /\ shown' \subseteq Ids
        /\ missed' \subseteq Ids
        /\ shared' \subseteq Ids
        /\ abandoned' \subseteq Ids
    BY <2>1, <2>2, HandleTypes
  <2> QED
    BY <1>7, <2>3 DEF Receive, TypeOK, capVars
<1>8. ASSUME NEW c \in Conns, Vanish(c)
      PROVE  TypeOK'
  BY <1>8 DEF Vanish, TypeOK, capVars, busVars, ghostVars
<1>9. CASE Drain
  BY <1>9 DEF Drain, TypeOK, capVars, connVars, ghostVars
<1>10. CASE TimePasses
  <2>1. recent' \in [Addr -> Nat] /\ live' = live /\ rejected' = rejected
    BY <1>10 DEF TimePasses, Age
  <2> QED
    BY <1>10, <2>1 DEF TimePasses, TypeOK, connVars, busVars, ghostVars
<1>11. CASE UNCHANGED vars
  BY <1>11 DEF vars, capVars, connVars, busVars, TypeOK, ghostVars
<1> QED
  BY <1>1, <1>2, <1>3, <1>4, <1>5, <1>6, <1>7, <1>8, <1>9, <1>10, <1>11, StepCases
     DEF Deny, End

\* The components of the state always have their types.
THEOREM TypeCorrect == Spec => []TypeOK
<1>1. Init => TypeOK
  BY ConnCapAssumption, IngestAssumption DEF Init, CapInit, TypeOK, Ids
<1>2. TypeOK /\ [Next]_vars => TypeOK'
  BY TypeStep
<1> QED
  BY <1>1, <1>2, PTL DEF Spec
-----------------------------------------------------------------------------
\* A verified response was computed by the device at the far end, and for the
\* id it was verified against.
LEMMA VerifiedIsOwner ==
    ASSUME NEW c \in Conns, NEW d, NEW mac \in Responses, Verified(d, mac, c)
    PROVE  d = Owner[c]
<1>1. PICK x \in Conns : mac = <<Owner[x], x>>
  BY DEF Responses
<1> QED
  BY <1>1 DEF Verified

\* Handling a frame moves an authenticated connection to no other id, and
\* leaves the other connections' ids alone.
LEMMA HandleKeepsId ==
    ASSUME TypeOK, NEW c \in Conns, NEW f, HandleFrame(c, f), NEW o \in Conns, authed[o]
    PROVE  imei'[o] = imei[o]
BY DEF HandleFrame, HandleHello, HandleMedia, HelloIgnored, TypeOK

\* Authenticated connections stay with the id they proved.
LEMMA IdentityStep ==
    ASSUME TypeOK, IdentityProved, [Next]_vars
    PROVE  IdentityProved'
<1> USE IngestAssumption
<1>1. ASSUME NEW c \in Conns, Accept(c)
      PROVE  IdentityProved'
  BY <1>1 DEF Accept, IdentityProved, TypeOK
<1>2. ASSUME NEW c \in Conns, TurnAway(c)
      PROVE  IdentityProved'
  BY <1>2 DEF TurnAway, IdentityProved, TypeOK
<1>3. ASSUME NEW c \in Conns, Authenticate(c)
      PROVE  IdentityProved'
  <2>1. imei' = [imei EXCEPT ![c] = Owner[c]]
    BY <1>3, VerifiedIsOwner DEF Authenticate
  <2> QED
    BY <1>3, <2>1 DEF Authenticate, IdentityProved, TypeOK
<1>4. ASSUME NEW c \in Conns, TakeLegacy(c)
      PROVE  IdentityProved'
  <2>1. mode = "optional"
    BY <1>4 DEF TakeLegacy, LegacyAllowed
  <2>2. \A o \in Conns \ {c} : imei'[o] = imei[o]
    BY <1>4 DEF TakeLegacy, TypeOK
  <2>3. ~authed[c]
    BY <1>4 DEF TakeLegacy, IdentityProved
  <2> QED
    BY <1>4, <2>1, <2>2, <2>3 DEF TakeLegacy, IdentityProved, TypeOK
<1>5. ASSUME NEW c \in Conns, Finish(c)
      PROVE  IdentityProved'
  BY <1>5 DEF Finish, IdentityProved, TypeOK
<1>6. ASSUME NEW c \in Conns, ReceivePushed(c)
      PROVE  IdentityProved'
  <2>1. \A o \in Conns : authed[o] => imei'[o] = imei[o]
    BY <1>6, HandleKeepsId DEF ReceivePushed
  <2> QED
    BY <1>6, <2>1 DEF ReceivePushed, IdentityProved
<1>7. ASSUME NEW c \in Conns, Receive(c)
      PROVE  IdentityProved'
  <2>1. \A o \in Conns : authed[o] => imei'[o] = imei[o]
    BY <1>7, HandleKeepsId DEF Receive
  <2> QED
    BY <1>7, <2>1 DEF Receive, IdentityProved
<1>8. ASSUME NEW c \in Conns, Vanish(c)
      PROVE  IdentityProved'
  BY <1>8 DEF Vanish, IdentityProved
<1>9. CASE Drain
  BY <1>9 DEF Drain, connVars, IdentityProved
<1>10. CASE TimePasses
  BY <1>10 DEF TimePasses, connVars, IdentityProved
<1>11. CASE UNCHANGED vars
  BY <1>11 DEF vars, connVars, IdentityProved
<1> QED
  BY <1>1, <1>2, <1>3, <1>4, <1>5, <1>6, <1>7, <1>8, <1>9, <1>10, <1>11, StepCases
     DEF Deny, End

\* Audio of an authenticated connection is filed under the id of the device at
\* its far end, and required mode streams nothing else (auth.py:117-131,
\* ingest.py:90-102, 156-162).
THEOREM IdentityHolds == Spec => []IdentityProved
<1>1. Init => IdentityProved
  BY DEF Init, IdentityProved
<1>2. TypeOK /\ IdentityProved /\ [Next]_vars => IdentityProved'
  BY IdentityStep
<1> QED
  BY <1>1, <1>2, TypeCorrect, PTL DEF Spec

-----------------------------------------------------------------------------
\* The connections of an address that are being handled are finitely many.
LEMMA ActiveFinite ==
    ASSUME NEW ip \in Addr
    PROVE  IsFiniteSet(ActiveFrom(ip)) /\ Cardinality(ActiveFrom(ip)) \in Nat
<1>1. ActiveFrom(ip) \subseteq Conns
  BY DEF ActiveFrom
<1>2. IsFiniteSet(ActiveFrom(ip))
  BY <1>1, IngestAssumption, FS_Subset
<1> QED
  BY <1>2, FS_CardinalityType

\* While no connection starts or stops being handled and the limiter's count
\* stands still, the two agree as before.
LEMMA SlotsStand ==
    ASSUME SlotsExact, live' = live, \A c \in Conns : Active(c)' <=> Active(c)
    PROVE  SlotsExact'
<1>1. \A ip \in Addr : ActiveFrom(ip)' = ActiveFrom(ip)
  BY DEF ActiveFrom
<1> QED
  BY <1>1 DEF SlotsExact

\* Every path through handle() takes one slot and gives one slot back.
LEMMA SlotsStep ==
    ASSUME TypeOK, SlotsExact, [Next]_vars
    PROVE  SlotsExact'
<1> USE ConnCapAssumption, IngestAssumption
<1>1. ASSUME NEW c \in Conns, Accept(c)
      PROVE  SlotsExact'
  <2>1. /\ ~Active(c)
        /\ Active(c)'
        /\ \A o \in Conns \ {c} : Active(o)' <=> Active(o)
    BY <1>1 DEF Accept, Active, TypeOK
  <2>2. /\ ActiveFrom(Source[c])' = ActiveFrom(Source[c]) \cup {c}
        /\ c \notin ActiveFrom(Source[c])
        /\ \A ip \in Addr \ {Source[c]} : ActiveFrom(ip)' = ActiveFrom(ip)
    BY <2>1 DEF ActiveFrom
  <2>3. Cardinality(ActiveFrom(Source[c]))' = Cardinality(ActiveFrom(Source[c])) + 1
    BY <2>2, ActiveFinite, FS_AddElement
  <2>4. live' = [live EXCEPT ![Source[c]] = @ + 1]
    BY <1>1 DEF Accept, Admit
  <2>5. /\ live'[Source[c]] = live[Source[c]] + 1
        /\ \A ip \in Addr \ {Source[c]} : live'[ip] = live[ip]
    BY <2>4 DEF TypeOK
  <2> QED
    BY <2>2, <2>3, <2>5 DEF SlotsExact
<1>2. ASSUME NEW c \in Conns, TurnAway(c)
      PROVE  SlotsExact'
  BY <1>2, SlotsStand DEF TurnAway, Refuse, Active, TypeOK
<1>3. ASSUME NEW c \in Conns, Authenticate(c)
      PROVE  SlotsExact'
  BY <1>3, SlotsStand DEF Authenticate, Active, TypeOK, capVars
<1>4. ASSUME NEW c \in Conns, TakeLegacy(c)
      PROVE  SlotsExact'
  BY <1>4, SlotsStand DEF TakeLegacy, Active, TypeOK, capVars
<1>5. ASSUME NEW c \in Conns, Active(c), Finish(c)
      PROVE  SlotsExact'
  <2>1. /\ ~Active(c)'
        /\ \A o \in Conns \ {c} : Active(o)' <=> Active(o)
    BY <1>5 DEF Finish, Active, TypeOK
  <2>2. /\ ActiveFrom(Source[c])' = ActiveFrom(Source[c]) \ {c}
        /\ c \in ActiveFrom(Source[c])
        /\ \A ip \in Addr \ {Source[c]} : ActiveFrom(ip)' = ActiveFrom(ip)
    BY <1>5, <2>1 DEF ActiveFrom
  <2>3. Cardinality(ActiveFrom(Source[c]))' = Cardinality(ActiveFrom(Source[c])) - 1
    <3>1. IsFiniteSet(ActiveFrom(Source[c]))
      BY ActiveFinite
    <3>2. Cardinality(ActiveFrom(Source[c]) \ {c}) = Cardinality(ActiveFrom(Source[c])) - 1
      BY <3>1, <2>2, FS_RemoveElement
    <3> QED
      BY <3>2, <2>2
  <2>4. Cardinality(ActiveFrom(Source[c])) > 0
    BY <2>2, ActiveFinite, FS_EmptySet
  <2>5. live' = [live EXCEPT ![Source[c]] = IF @ > 0 THEN @ - 1 ELSE @]
    BY <1>5 DEF Finish, Release
  <2>6. /\ live'[Source[c]] = live[Source[c]] - 1
        /\ \A ip \in Addr \ {Source[c]} : live'[ip] = live[ip]
    BY <2>4, <2>5 DEF TypeOK, SlotsExact
  <2> QED
    BY <2>2, <2>3, <2>6 DEF SlotsExact
<1>6. ASSUME NEW c \in Conns, ReceivePushed(c) \/ Receive(c)
      PROVE  SlotsExact'
  BY <1>6, SlotsStand DEF ReceivePushed, Receive, Active, capVars
<1>7. ASSUME NEW c \in Conns, Vanish(c)
      PROVE  SlotsExact'
  BY <1>7, SlotsStand DEF Vanish, Active, capVars
<1>8. CASE Drain
  BY <1>8, SlotsStand DEF Drain, Active, capVars, connVars
<1>9. CASE TimePasses
  BY <1>9, SlotsStand DEF TimePasses, Age, Active, connVars
<1>10. CASE UNCHANGED vars
  BY <1>10, SlotsStand DEF vars, capVars, connVars, Active
<1> QED
  BY <1>1, <1>2, <1>3, <1>4, <1>5, <1>6, <1>7, <1>8, <1>9, <1>10, StepCases
     DEF Deny, End, Active

\* The limiter's count of an address is the number of its connections being
\* handled: no slot is leaked and none is given back twice (ingest.py:115-119,
\* 178-179).
THEOREM SlotsHold == Spec => []SlotsExact
<1>1. Init => SlotsExact
  <2> SUFFICES ASSUME Init
               PROVE  SlotsExact
    OBVIOUS
  <2>1. \A ip \in Addr : ActiveFrom(ip) = {} /\ live[ip] = 0
    BY DEF Init, CapInit, ActiveFrom, Active
  <2> QED
    BY <2>1, FS_EmptySet DEF SlotsExact
<1>2. TypeOK /\ SlotsExact /\ [Next]_vars => SlotsExact'
  BY SlotsStep
<1> QED
  BY <1>1, <1>2, TypeCorrect, PTL DEF Spec
-----------------------------------------------------------------------------
\* Whatever is produced, the set of ids shown online follows the set of ids
\* held online, except where the latest event was dropped.
LEMMA AnnounceTracks ==
    ASSUME TypeOK, PresenceTracked, NEW d \in Ids,
           \/ Announce(d, TRUE) /\ online' = online \cup {d}
           \/ Announce(d, FALSE) /\ online' = online \ {d}
    PROVE  PresenceTracked'
<1>1. CASE Room
  BY <1>1 DEF Announce, PresenceTracked
<1>2. CASE ~Room
  BY <1>2 DEF Announce, PresenceTracked
<1> QED
  BY <1>1, <1>2

\* Handling a frame keeps presence tracked.
LEMMA HandleTracks ==
    ASSUME TypeOK, PresenceTracked, NEW c \in Conns, NEW f, f.id \in Ids,
           HandleFrame(c, f)
    PROVE  PresenceTracked'
<1>1. CASE HandleHello(c, f.id)
  BY <1>1, AnnounceTracks DEF HandleHello
<1>2. CASE HandleMedia
  BY <1>2 DEF HandleMedia, PresenceTracked
<1> QED
  BY <1>1, <1>2 DEF HandleFrame

\* What a reader of the events shows of an id is what ingest holds, unless the
\* latest event about the id was dropped (ingest.py:44-53, 163-166, 180-182).
THEOREM PresenceHolds == Spec => []PresenceTracked
<1>1. Init => PresenceTracked
  BY DEF Init, PresenceTracked
<1>2. TypeOK /\ PresenceTracked /\ [Next]_vars => PresenceTracked'
  <2> SUFFICES ASSUME TypeOK, PresenceTracked, [Next]_vars
               PROVE  PresenceTracked'
    OBVIOUS
  <2>1. ASSUME NEW c \in Conns, Finish(c)
        PROVE  PresenceTracked'
    <3>1. imei[c] \in Ids
      BY DEF TypeOK
    <3> QED
      BY <2>1, <3>1, AnnounceTracks DEF Finish
  <2>2. ASSUME NEW c \in Conns, ReceivePushed(c)
        PROVE  PresenceTracked'
    <3>1. pushed[c].id \in Ids
      BY DEF TypeOK, NoFrame, Media, Hello, Ids
    <3> QED
      BY <2>2, <3>1, HandleTracks DEF ReceivePushed
  <2>3. ASSUME NEW c \in Conns, Receive(c)
        PROVE  PresenceTracked'
    BY <2>3, FrameTypes, HandleTracks DEF Receive
  <2>4. CASE UNCHANGED <<online, shown, missed>>
    BY <2>4 DEF PresenceTracked
  <2>5. \/ \E c \in Conns : Finish(c) \/ ReceivePushed(c) \/ Receive(c)
        \/ UNCHANGED <<online, shown, missed>>
    BY StepCases DEF Accept, TurnAway, Authenticate, TakeLegacy, Deny, End, Vanish,
                     Drain, TimePasses, vars, busVars
  <2> QED
    BY <2>1, <2>2, <2>3, <2>4, <2>5
<1> QED
  BY <1>1, <1>2, TypeCorrect, PTL DEF Spec

-----------------------------------------------------------------------------
(* A connection registers a device only while it streams, and holds no id  *)
(* before; a device's id is held by one streaming connection at a time     *)
(* until it counts as shared.                                              *)
Holds(c, d) == pc[c] = "stream" /\ imei[c] = d

OneHolder ==
    /\ \A c \in Conns : pc[c] # "stream" => ~hello[c] /\ imei[c] = Unknown
    /\ \A c, o \in Conns, d \in Devices :
          Holds(c, d) /\ Holds(o, d) /\ c # o => d \in shared

(* What is listed is what is registered, with the two exceptions.          *)
Listed == OneHolder /\ NoGhosts /\ OnlineExact

\* Nothing that Listed speaks of changes.
LEMMA ListedStands ==
    ASSUME Listed, UNCHANGED <<pc, imei, hello, online, shared, abandoned>>
    PROVE  Listed'
BY DEF Listed, OneHolder, Holds, NoGhosts, OnlineExact, Registrations

\* A connection that leaves the handshake with an id registers nothing yet.
LEMMA HandshakeListed ==
    ASSUME TypeOK, Listed, NEW c \in Conns, NEW d \in Ids,
           pc[c] # "stream",
           pc' = [pc EXCEPT ![c] = "stream"],
           imei' = [imei EXCEPT ![c] = d],
           NoteHolder(c, d) \/ (d = Unknown /\ shared' = shared),
           UNCHANGED <<hello, online, abandoned>>
    PROVE  Listed'
<1> USE IngestAssumption
<1>1. ~hello[c]
  BY DEF Listed, OneHolder
<1>2. OneHolder'
  <2>1. shared \subseteq shared'
    BY DEF NoteHolder
  <2>2. ASSUME NEW o \in Conns, o # c, NEW e \in Devices, Holds(o, e)', Holds(c, e)'
        PROVE  e \in shared'
    <3>1. Holds(o, e) /\ d = e /\ e # Unknown
      BY <2>2 DEF Holds, TypeOK
    <3> QED
      BY <2>2, <3>1 DEF NoteHolder, Holds
  <2>3. ASSUME NEW o \in Conns, NEW p \in Conns, o # c, p # c, o # p, NEW e \in Devices,
               Holds(o, e)', Holds(p, e)'
        PROVE  e \in shared'
    BY <2>1, <2>3 DEF Holds, TypeOK, Listed, OneHolder
  <2>4. \A o \in Conns : pc'[o] # "stream" => ~hello'[o] /\ imei'[o] = Unknown
    BY DEF TypeOK, Listed, OneHolder
  <2> QED
    BY <2>2, <2>3, <2>4 DEF OneHolder
<1>3. \A e \in Devices : Registrations(e)' = Registrations(e)
  BY <1>1 DEF Registrations, TypeOK
<1>4. shared \subseteq shared'
  BY DEF NoteHolder
<1> QED
  BY <1>2, <1>3, <1>4 DEF Listed, NoGhosts, OnlineExact

\* A frame registers its connection under the id listed, and a connection that
\* changes its id leaves the old one abandoned.
LEMMA HandleListed ==
    ASSUME TypeOK, Listed, NEW c \in Conns, NEW f, HandleFrame(c, f), pc[c] = "stream",
           pc' = pc
    PROVE  Listed'
<1>1. CASE HandleHello(c, f.id)
  <2> DEFINE d == f.id
  <2>1. /\ imei' = [imei EXCEPT ![c] = d]
        /\ hello' = [hello EXCEPT ![c] = TRUE]
        /\ online' = online \cup {d}
        /\ NoteHolder(c, d)
        /\ abandoned' = IF hello[c] /\ imei[c] # d
                        THEN abandoned \cup {imei[c]} ELSE abandoned
    BY <1>1 DEF HandleHello
  <2>2. shared \subseteq shared' /\ abandoned \subseteq abandoned'
    BY <2>1 DEF NoteHolder
  <2>3. c \in Registrations(d)'
    BY <2>1 DEF Registrations, TypeOK
  <2>4. \A e \in Devices \ {d} : Registrations(e)' = Registrations(e) \ {c}
    BY <2>1 DEF Registrations, TypeOK
  <2>5. \A e \in Devices \ {d} : c \in Registrations(e) => e \in abandoned'
    BY <2>1 DEF Registrations
  <2>6. OneHolder'
    <3>1. ASSUME NEW o \in Conns, o # c, NEW e \in Devices, Holds(o, e)', Holds(c, e)'
          PROVE  e \in shared'
      BY <2>1, <3>1 DEF Holds, TypeOK, NoteHolder
    <3>2. ASSUME NEW o \in Conns, NEW p \in Conns, o # c, p # c, o # p, NEW e \in Devices,
                 Holds(o, e)', Holds(p, e)'
          PROVE  e \in shared'
      BY <2>1, <2>2, <3>2 DEF Holds, TypeOK, Listed, OneHolder
    <3>3. \A o \in Conns : pc'[o] # "stream" => ~hello'[o] /\ imei'[o] = Unknown
      BY <2>1 DEF TypeOK, Listed, OneHolder
    <3> QED
      BY <3>1, <3>2, <3>3 DEF OneHolder
  <2>7. NoGhosts'
    BY <2>1, <2>2, <2>3, <2>4, <2>5 DEF Listed, NoGhosts
  <2>8. OnlineExact'
    BY <2>1, <2>2, <2>3, <2>4, <2>5 DEF Listed, OnlineExact
  <2> QED
    BY <2>6, <2>7, <2>8 DEF Listed
<1>2. CASE HandleMedia
  BY <1>2, ListedStands DEF HandleMedia, ghostVars
<1> QED
  BY <1>1, <1>2 DEF HandleFrame

\* A connection that ends takes its id off the list, which no other connection
\* holds unless the id is shared.
LEMMA FinishListed ==
    ASSUME TypeOK, Listed, NEW c \in Conns, Finish(c)
    PROVE  Listed'
<1> USE IngestAssumption
<1>1. /\ pc' = [pc EXCEPT ![c] = "closed"]
      /\ imei' = [imei EXCEPT ![c] = Unknown]
      /\ hello' = [hello EXCEPT ![c] = FALSE]
      /\ online' = online \ {imei[c]}
      /\ abandoned' = abandoned \ {imei[c]}
      /\ shared' = shared
  BY DEF Finish
<1>2. OneHolder'
  BY <1>1 DEF TypeOK, Listed, OneHolder, Holds
<1>3. \A d \in Devices : Registrations(d)' = Registrations(d) \ {c}
  BY <1>1 DEF Registrations, TypeOK
<1>4. \A d \in Devices : c \in Registrations(d) => d = imei[c]
  BY DEF Registrations
<1>5. NoGhosts'
  BY <1>1, <1>3, <1>4 DEF Listed, NoGhosts
<1>6. ASSUME NEW d \in Devices, d = imei[c], d \notin shared
      PROVE  Registrations(d)' = {}
  <2>1. Holds(c, d)
    BY <1>6 DEF Listed, OneHolder, Holds
  <2>2. \A o \in Registrations(d) : o = c
    BY <1>6, <2>1 DEF Registrations, Listed, OneHolder, Holds
  <2> QED
    BY <1>3, <2>2
<1>7. OnlineExact'
  BY <1>1, <1>3, <1>4, <1>6 DEF Listed, OnlineExact
<1> QED
  BY <1>2, <1>5, <1>7 DEF Listed

\* The list of devices online agrees with the registrations after every step.
LEMMA ListedStep ==
    ASSUME TypeOK, Listed, [Next]_vars
    PROVE  Listed'
<1> USE IngestAssumption
<1>1. ASSUME NEW c \in Conns, Accept(c)
      PROVE  Listed'
  <2>1. pc[c] # "stream" /\ imei[c] = Unknown /\ ~hello[c]
    BY <1>1 DEF Accept, Listed, OneHolder
  <2>2. CASE mode = "disabled"
    <3>1. /\ pc' = [pc EXCEPT ![c] = "stream"]
          /\ imei' = [imei EXCEPT ![c] = Unknown]
          /\ shared' = shared
          /\ UNCHANGED <<hello, online, abandoned>>
      BY <1>1, <2>1, <2>2 DEF Accept, ghostVars, TypeOK
    <3> QED
      BY <2>1, <3>1, HandshakeListed DEF Ids
  <2>3. CASE mode # "disabled"
    <3>1. \A o \in Conns, d \in Ids : Holds(o, d)' <=> Holds(o, d)
      BY <1>1, <2>1, <2>3 DEF Accept, Holds, TypeOK
    <3>2. \A d \in Devices : Registrations(d)' = Registrations(d)
      BY <1>1, <2>1, <2>3 DEF Accept, Registrations, TypeOK
    <3>3. UNCHANGED <<imei, hello, online, shared, abandoned>>
      BY <1>1 DEF Accept, ghostVars
    <3>4. \A o \in Conns : pc'[o] # "stream" => ~hello'[o] /\ imei'[o] = Unknown
      BY <1>1, <2>1 DEF Accept, Listed, OneHolder, TypeOK
    <3>5. OneHolder'
      BY <3>1, <3>3, <3>4 DEF Listed, OneHolder, Ids
    <3> QED
      BY <3>2, <3>3, <3>5 DEF Listed, NoGhosts, OnlineExact
  <2> QED
    BY <2>2, <2>3
<1>2. ASSUME NEW c \in Conns, TurnAway(c)
      PROVE  Listed'
  <2>1. pc[c] # "stream"
    BY <1>2 DEF TurnAway
  <2>2. \A o \in Conns, d \in Devices : Holds(o, d)' <=> Holds(o, d)
    BY <1>2, <2>1 DEF TurnAway, Holds, TypeOK
  <2>3. \A d \in Devices : Registrations(d)' = Registrations(d)
    BY <1>2, <2>1 DEF TurnAway, Registrations, TypeOK
  <2>4. UNCHANGED <<imei, hello, online, shared, abandoned>>
    BY <1>2 DEF TurnAway, ghostVars
  <2>5. \A o \in Conns : pc'[o] # "stream" => ~hello'[o] /\ imei'[o] = Unknown
    BY <1>2, <2>1 DEF TurnAway, Listed, OneHolder, TypeOK
  <2>6. OneHolder'
    BY <2>2, <2>4, <2>5 DEF Listed, OneHolder
  <2> QED
    BY <2>3, <2>4, <2>6 DEF Listed, NoGhosts, OnlineExact
<1>3. ASSUME NEW c \in Conns, Authenticate(c)
      PROVE  Listed'
  <2>1. PICK d \in Ids : imei' = [imei EXCEPT ![c] = d] /\ NoteHolder(c, d)
    BY <1>3 DEF Authenticate, Ids
  <2> QED
    BY <1>3, <2>1, HandshakeListed DEF Authenticate
<1>4. ASSUME NEW c \in Conns, TakeLegacy(c)
      PROVE  Listed'
  <2>1. PICK f \in FramesOf(c) : imei' = [imei EXCEPT ![c] = f.id] /\ NoteHolder(c, f.id)
    BY <1>4 DEF TakeLegacy
  <2>2. f.id \in Ids
    BY FrameTypes
  <2> QED
    BY <1>4, <2>1, <2>2, HandshakeListed DEF TakeLegacy
<1>5. ASSUME NEW c \in Conns, Finish(c)
      PROVE  Listed'
  BY <1>5, FinishListed
<1>6. ASSUME NEW c \in Conns, ReceivePushed(c)
      PROVE  Listed'
  BY <1>6, HandleListed DEF ReceivePushed
<1>7. ASSUME NEW c \in Conns, Receive(c)
      PROVE  Listed'
  BY <1>7, HandleListed DEF Receive
<1>8. CASE UNCHANGED <<pc, imei, hello, online, shared, abandoned>>
  BY <1>8, ListedStands
<1>9. \/ \E c \in Conns : \/ Accept(c) \/ TurnAway(c) \/ Authenticate(c)
                          \/ TakeLegacy(c) \/ Finish(c) \/ ReceivePushed(c)
                          \/ Receive(c)
      \/ UNCHANGED <<pc, imei, hello, online, shared, abandoned>>
  BY StepCases DEF Deny, End, Vanish, Drain, TimePasses, vars, connVars, ghostVars
<1> QED
  BY <1>1, <1>2, <1>3, <1>4, <1>5, <1>6, <1>7, <1>8, <1>9

\* The list of devices online agrees with the registrations.
LEMMA ListedHolds == Spec => []Listed
<1>1. Init => Listed
  BY DEF Init, Listed, OneHolder, Holds, NoGhosts, OnlineExact, Registrations
<1>2. TypeOK /\ Listed /\ [Next]_vars => Listed'
  BY ListedStep
<1> QED
  BY <1>1, <1>2, TypeCorrect, PTL DEF Spec

\* A device listed online has a connection that registered it, whatever peers
\* claim, however often and however abruptly they reconnect, unless a second
\* HELLO left its id behind (ingest.py:156-167, 178-182).
THEOREM NoGhostsHold == Spec => []NoGhosts
<1>1. Listed => NoGhosts
  BY DEF Listed
<1> QED
  BY <1>1, ListedHolds, PTL

\* A device whose id no two connections have streamed under at once is listed
\* online exactly while the connection that registered it is being served
\* (ingest.py:163, 180).
THEOREM OnlineExactHolds == Spec => []OnlineExact
<1>1. Listed => OnlineExact
  BY DEF Listed
<1> QED
  BY <1>1, ListedHolds, PTL
=============================================================================
