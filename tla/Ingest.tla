------------------------------- MODULE Ingest -------------------------------
(***************************************************************************)
(* The ingest server (server/ingest.py): one coroutine handle() per device *)
(* connection on a single event loop, sharing the connection limiter, the  *)
(* dictionary `online' and one Kafka producer with a bounded queue.        *)
(*                                                                         *)
(* Steps are the stretches of handle() between two awaits that can really  *)
(* wait: drain() on the few bytes of a handshake does not suspend.  Bytes  *)
(* and chunks are the subject of Framing: here a connection receives whole *)
(* frames, and a legacy device's first frame, which the handshake pushes   *)
(* back, stays in `pushed' until more bytes come in.  Counters that only   *)
(* feed the log line of report() are left out, as are frames that handle() *)
(* skips (a second AUTH, an unparsable STAT).                              *)
(*                                                                         *)
(* A connection is its own nonce: make_nonce() draws a fresh one for each. *)
(***************************************************************************)
EXTENDS ConnCap, FiniteSets

CONSTANTS
    Conns,      \* connections; each is opened once
    Devices,    \* device ids
    Unknown,    \* the id "unknown"
    Registered, \* ids with a key in the registry
    Owner,      \* the device at the far end of a connection
    Source,     \* the address it comes from
    Claims,     \* the ids it may put into an AUTH or HELLO
    Modes,      \* the values of AUTH_MODE considered
    Overlap,    \* devices that may reconnect before the server has closed
                \* their previous connection
    QueueMax    \* queue.buffering.max.messages, 1 000 000

Ids == Devices \cup {Unknown}

ASSUME IngestAssumption ==
    /\ IsFiniteSet(Conns)
    /\ Unknown \notin Devices
    /\ Registered \subseteq Devices
    /\ Owner \in [Conns -> Devices]
    /\ Source \in [Conns -> Addr]
    /\ Claims \in [Conns -> SUBSET Ids]
    /\ Modes \subseteq {"disabled", "optional", "required"}
    /\ Overlap \subseteq Devices
    /\ QueueMax \in Nat

VARIABLES
    mode,       \* AUTH_MODE, read once when ingest starts
    pc,         \* "new", "refused", "handshake", "stream" or "closed"
    up,         \* can bytes still arrive on this connection?
    imei,       \* the id its frames are filed under
    authed,     \* has it proved that id?
    hello,      \* ghost: a HELLO of it has been processed
    pushed,     \* the frame the handshake pushed back, or NoFrame
    online,     \* keys of Ingest.online
    qlen,       \* messages in the producer's queue
    shown,      \* ids shown online by a consumer that reads every event
                \* produced so far (api.py:58-67)
    missed,     \* ghost: ids whose latest presence event was dropped
    shared,     \* ghost: ids that two connections have streamed under at once
    abandoned   \* ghost: ids a connection registered and then left for another

connVars == <<pc, up, imei, authed, hello, pushed>>
busVars == <<qlen, shown, missed>>
ghostVars == <<shared, abandoned>>
vars == <<mode, capVars, connVars, online, busVars, ghostVars>>

NoFrame == [kind |-> "none", id |-> Unknown]
Media == [kind |-> "media", id |-> Unknown]    \* audio, or a STAT
Hello(d) == [kind |-> "hello", id |-> d]

(* What a peer may send that handle() acts on. *)
FramesOf(c) == {Media} \cup {Hello(d) : d \in Claims[c]}

Init ==
    /\ mode \in Modes
    /\ CapInit
    /\ pc = [c \in Conns |-> "new"]
    /\ up = [c \in Conns |-> TRUE]
    /\ imei = [c \in Conns |-> Unknown]
    /\ authed = [c \in Conns |-> FALSE]
    /\ hello = [c \in Conns |-> FALSE]
    /\ pushed = [c \in Conns |-> NoFrame]
    /\ online = {}
    /\ qlen = 0
    /\ shown = {}
    /\ missed = {}
    /\ shared = {}
    /\ abandoned = {}

Active(c) == pc[c] \in {"handshake", "stream"}

(* Connection c begins to stream under id d. *)
NoteHolder(c, d) ==
    shared' = IF \E o \in Conns \ {c} : pc[o] = "stream" /\ imei[o] = d
              THEN shared \cup {d} ELSE shared

-----------------------------------------------------------------------------
(* The producer: _produce and _poll_forever. *)

\* variant: one message too many
RoomLate == qlen <= QueueMax

Room == qlen < QueueMax

(* A connect or disconnect event; dropped when the local queue is full. *)
Announce(d, isUp) ==
    IF Room
    THEN /\ qlen' = qlen + 1
         /\ shown' = IF isUp THEN shown \cup {d} ELSE shown \ {d}
         /\ missed' = missed \ {d}
    ELSE /\ missed' = missed \cup {d}
         /\ UNCHANGED <<qlen, shown>>

(* The broker takes a message and poll() frees its slot. *)
Drain ==
    /\ qlen > 0
    /\ qlen' = qlen - 1
    /\ UNCHANGED <<mode, capVars, connVars, online, shown, missed, ghostVars>>

-----------------------------------------------------------------------------
(* Accepting a connection. *)

(* A device has one connection at a time: it opens the next one when it    *)
(* has closed or lost the last.  The server may not know that yet.         *)
MayOpen(c) ==
    \A o \in Conns :
        Owner[o] = Owner[c] /\ Active(o) => Owner[c] \in Overlap /\ ~up[o]

Accept(c) ==
    /\ pc[c] = "new"
    /\ MayOpen(c)
    /\ Admit(Source[c])
    /\ pc' = [pc EXCEPT ![c] = IF mode = "disabled" THEN "stream"
                                                     ELSE "handshake"]
    /\ UNCHANGED <<mode, up, imei, authed, hello, pushed, online, busVars, ghostVars>>

(* Over a cap: the socket is closed at once, before the try block. *)
TurnAway(c) ==
    /\ pc[c] = "new"
    /\ MayOpen(c)
    /\ Refuse(Source[c])
    /\ pc' = [pc EXCEPT ![c] = "refused"]
    /\ UNCHANGED <<mode, up, imei, authed, hello, pushed, online, busVars, ghostVars>>

-----------------------------------------------------------------------------
(* The end of a connection: the finally block of handle(). *)

\* variant: the slot is only given back after a completed handshake
FinishKeepingSlot(c) ==
    /\ IF pc[c] = "stream" THEN Release(Source[c]) ELSE UNCHANGED capVars
    /\ online' = online \ {imei[c]}
    /\ Announce(imei[c], FALSE)
    /\ pc' = [pc EXCEPT ![c] = "closed"]
    /\ imei' = [imei EXCEPT ![c] = Unknown]
    /\ authed' = [authed EXCEPT ![c] = FALSE]
    /\ hello' = [hello EXCEPT ![c] = FALSE]
    /\ pushed' = [pushed EXCEPT ![c] = NoFrame]
    /\ abandoned' = abandoned \ {imei[c]}
    /\ UNCHANGED <<mode, up, shared>>

\* variant: the id stays in `online'
FinishKeepingOnline(c) ==
    /\ Release(Source[c])
    /\ UNCHANGED online
    /\ Announce(imei[c], FALSE)
    /\ pc' = [pc EXCEPT ![c] = "closed"]
    /\ imei' = [imei EXCEPT ![c] = Unknown]
    /\ authed' = [authed EXCEPT ![c] = FALSE]
    /\ hello' = [hello EXCEPT ![c] = FALSE]
    /\ pushed' = [pushed EXCEPT ![c] = NoFrame]
    /\ abandoned' = abandoned \ {imei[c]}
    /\ UNCHANGED <<mode, up, shared>>

\* variant: no disconnect event
FinishUnannounced(c) ==
    /\ Release(Source[c])
    /\ online' = online \ {imei[c]}
    /\ UNCHANGED busVars
    /\ pc' = [pc EXCEPT ![c] = "closed"]
    /\ imei' = [imei EXCEPT ![c] = Unknown]
    /\ authed' = [authed EXCEPT ![c] = FALSE]
    /\ hello' = [hello EXCEPT ![c] = FALSE]
    /\ pushed' = [pushed EXCEPT ![c] = NoFrame]
    /\ abandoned' = abandoned \ {imei[c]}
    /\ UNCHANGED <<mode, up, shared>>

(* The locals of the coroutine die with it. *)
Finish(c) ==
    /\ Release(Source[c])
    /\ online' = online \ {imei[c]}
    /\ Announce(imei[c], FALSE)
    /\ pc' = [pc EXCEPT ![c] = "closed"]
    /\ imei' = [imei EXCEPT ![c] = Unknown]
    /\ authed' = [authed EXCEPT ![c] = FALSE]
    /\ hello' = [hello EXCEPT ![c] = FALSE]
    /\ pushed' = [pushed EXCEPT ![c] = NoFrame]
    /\ abandoned' = abandoned \ {imei[c]}
    /\ UNCHANGED <<mode, up, shared>>

(* The handshake fails: bad credentials, a first frame that is not AUTH in *)
(* required mode or cannot be parsed, end of stream, HANDSHAKE_TIMEOUT.    *)
Deny(c) == pc[c] = "handshake" /\ Finish(c)

(* The receive loop ends: end of stream, a reset, SERVER_RECV_TIMEOUT, or  *)
(* an exception (a STAT whose JSON is no object).                          *)
End(c) == pc[c] = "stream" /\ Finish(c)

(* The peer closes or vanishes: nothing more arrives. *)
Vanish(c) ==
    /\ Active(c)
    /\ up[c]
    /\ up' = [up EXCEPT ![c] = FALSE]
    /\ UNCHANGED <<mode, capVars, pc, imei, authed, hello, pushed, online, busVars, ghostVars>>

-----------------------------------------------------------------------------
(* The handshake. *)

(* Every response a device has ever computed, <<key, nonce>>: whoever has  *)
(* seen them may send one again.                                           *)
Responses == {<<Owner[c], c>> : c \in {x \in Conns : pc[x] \notin {"new", "refused"}}}

\* variant: the response not bound to this connection's nonce
VerifiedAnyNonce(d, mac, c) == d \in Registered /\ mac[1] = d

(* registry.get and verify: the key of d was used on this nonce. *)
Verified(d, mac, c) == d \in Registered /\ mac = <<d, c>>

Authenticate(c) ==
    /\ pc[c] = "handshake"
    /\ up[c]
    /\ \E d \in Claims[c] \cap Devices, mac \in Responses :
          /\ Verified(d, mac, c)
          /\ imei' = [imei EXCEPT ![c] = d]
          /\ NoteHolder(c, d)
    /\ authed' = [authed EXCEPT ![c] = TRUE]
    /\ pc' = [pc EXCEPT ![c] = "stream"]
    /\ UNCHANGED <<mode, capVars, up, hello, pushed, online, busVars, abandoned>>

LegacyAllowed == mode = "optional"

(* Optional mode: the first frame is not AUTH; its id is taken over and    *)
(* the frame itself goes back into the buffer.                             *)
TakeLegacy(c) ==
    /\ pc[c] = "handshake"
    /\ up[c]
    /\ LegacyAllowed
    /\ \E f \in FramesOf(c) :
          /\ imei' = [imei EXCEPT ![c] = f.id]
          /\ pushed' = [pushed EXCEPT ![c] = f]
          /\ NoteHolder(c, f.id)
    /\ pc' = [pc EXCEPT ![c] = "stream"]
    /\ UNCHANGED <<mode, capVars, up, authed, hello, online, busVars, abandoned>>

-----------------------------------------------------------------------------
(* The receive loop. *)

(* An authenticated connection keeps the id it proved. *)
HelloIgnored(c, d) == authed[c] /\ d # imei[c]

HandleHello(c, d) ==
    /\ ~HelloIgnored(c, d)
    /\ imei' = [imei EXCEPT ![c] = d]
    /\ hello' = [hello EXCEPT ![c] = TRUE]
    /\ online' = online \cup {d}
    /\ Announce(d, TRUE)
    /\ NoteHolder(c, d)
    /\ abandoned' = IF hello[c] /\ imei[c] # d
                    THEN abandoned \cup {imei[c]} ELSE abandoned

(* Audio or telemetry: one message, or one more drop. *)
HandleMedia ==
    /\ qlen' = IF Room THEN qlen + 1 ELSE qlen
    /\ UNCHANGED <<imei, hello, online, shown, missed, ghostVars>>

HandleFrame(c, f) ==
    \/ f.kind = "hello" /\ HandleHello(c, f.id)
    \/ f.kind = "media" /\ HandleMedia

(* More bytes arrive: the pushed back frame comes first. *)
ReceivePushed(c) ==
    /\ pc[c] = "stream"
    /\ up[c]
    /\ pushed[c] # NoFrame
    /\ HandleFrame(c, pushed[c])
    /\ pushed' = [pushed EXCEPT ![c] = NoFrame]
    /\ UNCHANGED <<mode, capVars, pc, up, authed>>

Receive(c) ==
    /\ pc[c] = "stream"
    /\ up[c]
    /\ pushed[c] = NoFrame
    /\ \E f \in FramesOf(c) : HandleFrame(c, f)
    /\ UNCHANGED <<mode, capVars, pc, up, authed, pushed>>

-----------------------------------------------------------------------------
TimePasses == Age /\ UNCHANGED <<mode, connVars, online, busVars, ghostVars>>

Next ==
    \/ \E c \in Conns :
          \/ Accept(c)
          \/ TurnAway(c)
          \/ Authenticate(c)
          \/ TakeLegacy(c)
          \/ Deny(c)
          \/ ReceivePushed(c)
          \/ Receive(c)
          \/ End(c)
          \/ Vanish(c)
    \/ Drain
    \/ TimePasses

(* The two timeouts: while there are connections on which nothing arrives  *)
(* any more, one of them is ended.  Nothing is assumed of a peer that still*)
(* sends.                                                                  *)
Fairness == WF_vars(\E c \in Conns : ~up[c] /\ (Deny(c) \/ End(c)))

Spec == Init /\ [][Next]_vars
FairSpec == Spec /\ Fairness

-----------------------------------------------------------------------------
TypeOK ==
    /\ mode \in Modes
    /\ live \in [Addr -> Nat]
    /\ recent \in [Addr -> Nat]
    /\ rejected \in Nat
    /\ pc \in [Conns -> {"new", "refused", "handshake", "stream", "closed"}]
    /\ up \in [Conns -> BOOLEAN]
    /\ imei \in [Conns -> Ids]
    /\ authed \in [Conns -> BOOLEAN]
    /\ hello \in [Conns -> BOOLEAN]
    /\ pushed \in [Conns -> {NoFrame, Media} \cup {Hello(d) : d \in Ids}]
    /\ online \subseteq Ids
    /\ qlen \in 0 .. QueueMax
    /\ shown \subseteq Ids
    /\ missed \subseteq Ids
    /\ shared \subseteq Ids
    /\ abandoned \subseteq Ids

(* The id under which an authenticated connection's audio is filed is the  *)
(* id of the device at its far end, whatever AUTH and HELLO frames were    *)
(* sent on any connection; in required mode no other connection streams    *)
(* (auth.py:117-131, ingest.py:90-102, 156-162).                           *)
IdentityProved ==
    \A c \in Conns :
        /\ authed[c] => pc[c] = "stream" /\ imei[c] = Owner[c]
        /\ mode = "required" /\ pc[c] = "stream" => authed[c]

(* The limiter's count of an address is the number of its connections that *)
(* are being handled: every path out of handle() gives the slot back, and  *)
(* gives it back once (ingest.py:115-119, 178-179).                        *)
ActiveFrom(ip) == {c \in Conns : Active(c) /\ Source[c] = ip}

SlotsExact == \A ip \in Addr : live[ip] = Cardinality(ActiveFrom(ip))

(* A device listed online has a connection that registered it, however     *)
(* connections of any peers overlap and end, unless a connection left it   *)
(* for another id with a second HELLO and none has ended under it since    *)
(* (ingest.py:156-167, 178-182).                                           *)
Registrations(d) == {c \in Conns : pc[c] = "stream" /\ hello[c] /\ imei[c] = d}

NoGhosts == \A d \in Devices \ abandoned : d \in online => Registrations(d) # {}

(* The other direction too, for a device under whose id no two connections *)
(* have streamed at once: it is listed online exactly while the connection *)
(* that registered it is being served (ingest.py:163, 180).                *)
OnlineExact ==
    \A d \in Devices \ (shared \cup abandoned) : d \in online <=> Registrations(d) # {}

(* A device whose HELLO has been taken on a connection that still works is *)
(* listed online: its HELLO "registers the device" (protocol.py:18).       *)
ConnectedListed ==
    \A c \in Conns :
        pc[c] = "stream" /\ hello[c] /\ up[c] => imei[c] \in online

(* What the API shows of an id is what ingest holds, unless the latest     *)
(* event about it was dropped (ingest.py:44-53, 163-166, 180-182).         *)
PresenceTracked == \A d \in Ids \ missed : d \in shown <=> d \in online

(* Once no device is left, every slot is given back, nobody is listed      *)
(* online but who was abandoned, and nobody else is shown online whose last*)
(* event got through (ingest.py:142-143, 178-182).                         *)
Drains ==
    (\A c \in Conns : pc[c] # "new" /\ (Active(c) => ~up[c]))
        ~> /\ \A ip \in Addr : live[ip] = 0
           /\ online \subseteq abandoned
           /\ shown \subseteq missed \cup abandoned
=============================================================================
