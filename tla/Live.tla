-------------------------------- MODULE Live --------------------------------
(***************************************************************************)
(* Live audio (server/live.py): two threads that share two dictionaries    *)
(* without a lock.                                                         *)
(*                                                                         *)
(*   - The event loop runs a coroutine handler() for every WebSocket.  It  *)
(*     joins in one step; its finally block runs without an await, so no   *)
(*     other coroutine gets in between, but the worker may.                *)
(*   - The worker reads the audio topic, decodes the packets of devices    *)
(*     that are listened to, and hands the PCM to the loop.                *)
(*                                                                         *)
(* A step is an access to a shared dictionary; the interpreter may switch  *)
(* threads between any two.  The topic is the sequence of the devices      *)
(* whose packets it holds, and a packet is its offset.                     *)
(***************************************************************************)
EXTENDS Naturals, Sequences

CONSTANTS
    Devices,    \* device ids
    Sockets,    \* WebSockets; each is opened and closed once
    Listens,    \* the device a socket asks for
    MaxPackets  \* bound: packets produced

ASSUME LiveAssumption ==
    /\ Listens \in [Sockets -> Devices]
    /\ MaxPackets \in Nat

VARIABLES
    log,        \* the audio topic: the device of every packet
    pos,        \* packets the worker has read
    listeners,  \* Live.listeners
    decoders,   \* the devices in Live.decoders
    pc,         \* a socket: "new", "in" or "out"
    leaving,    \* what is left to do of a finally block
    work,       \* what is left to do for the packet at pos
    calls,      \* broadcasts handed to the event loop
    heard,      \* packets sent to a socket
    skipped,    \* ghost: packets read that could not be parsed or decoded
    raced       \* ghost: see FreeDecoder

vars ==
    <<log, pos, listeners, decoders, pc, leaving, work, calls, heard, skipped, raced>>

Init ==
    /\ log = <<>>
    /\ pos = 0
    /\ listeners = [d \in Devices |-> {}]
    /\ decoders = {}
    /\ pc = [s \in Sockets |-> "new"]
    /\ leaving = <<>>
    /\ work = "poll"
    /\ calls = <<>>
    /\ heard = [s \in Sockets |-> <<>>]
    /\ skipped = {}
    /\ raced = {}

Produce(d) ==
    /\ Len(log) < MaxPackets
    /\ log' = Append(log, d)
    /\ UNCHANGED <<pos, listeners, decoders, pc, leaving, work, calls, heard,
                   skipped, raced>>

-----------------------------------------------------------------------------
(* The event loop. *)

LoopIdle == leaving = <<>>

(* The device of the packet the worker is at. *)
Current == log[pos]

Join(s) ==
    /\ LoopIdle
    /\ pc[s] = "new"
    /\ pc' = [pc EXCEPT ![s] = "in"]
    /\ listeners' = [listeners EXCEPT ![Listens[s]] = @ \cup {s}]
    /\ UNCHANGED <<log, pos, decoders, leaving, work, calls, heard, skipped, raced>>

\* variant: a socket's exit drops the other listeners of its device too
RemainingNone(d, s) == {}

(* The listeners of d without s. *)
Remaining(d, s) == listeners[d] \ {s}

(* wait_closed() returns: the socket is discarded, ... *)
Leave(s) ==
    /\ LoopIdle
    /\ pc[s] = "in"
    /\ pc' = [pc EXCEPT ![s] = "out"]
    /\ LET d == Listens[s]
       IN  /\ listeners' = [listeners EXCEPT ![d] = Remaining(d, s)]
           /\ leaving' = IF Remaining(d, s) = {} THEN <<d>> ELSE <<>>
    /\ UNCHANGED <<log, pos, decoders, work, calls, heard, skipped, raced>>

(* ... and the decoder goes with the last listener.  Not if the worker has *)
(* just found the device watched: it makes one for nobody.                 *)
FreeDecoder ==
    /\ leaving # <<>>
    /\ decoders' = decoders \ {leaving[1]}
    /\ leaving' = <<>>
    /\ raced' = IF work = "decoder" /\ Current = leaving[1]
                THEN raced \cup {leaving[1]}
                ELSE raced \ {leaving[1]}
    /\ UNCHANGED <<log, pos, listeners, pc, work, calls, heard, skipped>>

(* A broadcast: sockets that are closed by now are skipped. *)
Broadcast ==
    /\ LoopIdle
    /\ calls # <<>>
    /\ LET call == Head(calls)
       IN  heard' = [s \in Sockets |->
                        IF s \in call.targets /\ pc[s] = "in"
                        THEN Append(heard[s], call.packet)
                        ELSE heard[s]]
    /\ calls' = Tail(calls)
    /\ UNCHANGED <<log, pos, listeners, decoders, pc, leaving, work, skipped, raced>>

-----------------------------------------------------------------------------
(* The worker. *)

\* variant: every device is decoded
WatchedAlways(d) == TRUE

Watched(d) == listeners[d] # {}

\* variant: one packet too many
AvailableLate == pos <= Len(log)

Available == pos < Len(log)

Poll ==
    /\ work = "poll"
    /\ Available
    /\ pos' = pos + 1
    /\ work' = "check"
    /\ UNCHANGED <<log, listeners, decoders, pc, leaving, calls, heard, skipped, raced>>

(* Nobody listens: not decoded. *)
Check ==
    /\ work = "check"
    /\ work' = IF Watched(Current) THEN "decoder" ELSE "poll"
    /\ UNCHANGED <<log, pos, listeners, decoders, pc, leaving, calls, heard,
                   skipped, raced>>

(* The decoder is taken from the dictionary, or made. *)
GetDecoder ==
    /\ work = "decoder"
    /\ decoders' = decoders \cup {Current}
    /\ work' = "send"
    /\ UNCHANGED <<log, pos, listeners, pc, leaving, calls, heard, skipped, raced>>

\* variant: the new call overtakes those that wait
EnqueueFirst(call) == <<call>> \o calls

(* call_soon_threadsafe keeps the order of the calls. *)
Enqueue(call) == Append(calls, call)

(* The sockets are looked up again after decoding. *)
Send ==
    /\ work = "send"
    /\ calls' = IF listeners[Current] = {} THEN calls
                ELSE Enqueue([targets |-> listeners[Current], packet |-> pos])
    /\ work' = "poll"
    /\ UNCHANGED <<log, pos, listeners, decoders, pc, leaving, heard, skipped, raced>>

(* parse_audio() raises before there is a decoder, or decode() after.     *)
Skip ==
    /\ work \in {"decoder", "send"}
    /\ skipped' = skipped \cup {pos}
    /\ work' = "poll"
    /\ UNCHANGED <<log, pos, listeners, decoders, pc, leaving, calls, heard, raced>>

Next ==
    \/ \E d \in Devices : Produce(d)
    \/ \E s \in Sockets : Join(s) \/ Leave(s)
    \/ FreeDecoder
    \/ Broadcast
    \/ Poll
    \/ Check
    \/ GetDecoder
    \/ Send
    \/ Skip

(* Both threads run; nothing is assumed of devices and browsers.           *)
Fairness ==
    /\ WF_vars(FreeDecoder)
    /\ WF_vars(Broadcast)
    /\ WF_vars(Poll \/ Check \/ GetDecoder \/ Send \/ Skip)

Spec == Init /\ [][Next]_vars
FairSpec == Spec /\ Fairness

-----------------------------------------------------------------------------
Call == [targets : SUBSET Sockets, packet : 1 .. MaxPackets]

TypeOK ==
    /\ log \in Seq(Devices) /\ Len(log) <= MaxPackets
    /\ pos \in 0 .. Len(log)
    /\ listeners \in [Devices -> SUBSET Sockets]
    /\ decoders \subseteq Devices
    /\ pc \in [Sockets -> {"new", "in", "out"}]
    /\ leaving \in Seq(Devices) /\ Len(leaving) <= 1
    /\ work \in {"poll", "check", "decoder", "send"}
    /\ calls \in Seq(Call)
    /\ heard \in [Sockets -> Seq(1 .. MaxPackets)]
    /\ skipped \subseteq 1 .. Len(log)
    /\ raced \subseteq Devices

(* A listener hears its device and no other, each packet once, in order    *)
(* and from the first one it hears without a gap, while other listeners    *)
(* come and go and devices take turns; only packets that cannot be         *)
(* decoded are left out (live.py:37-46, 54-74).                            *)
Heard(s) == {heard[s][i] : i \in DOMAIN heard[s]}

Gapless ==
    \A s \in Sockets :
        /\ \A i \in DOMAIN heard[s] : log[heard[s][i]] = Listens[s]
        /\ \A i \in 1 .. Len(heard[s]) - 1 : heard[s][i] < heard[s][i + 1]
        /\ heard[s] # <<>> =>
              \A p \in heard[s][1] .. heard[s][Len(heard[s])] :
                  log[p] = Listens[s] => p \in Heard(s) \cup skipped

(* A packet produced while a socket listens is heard, unless the socket    *)
(* closes first: no exit of another listener cuts it off (live.py:58-74).  *)
Delivered ==
    \A s \in Sockets, p \in 1 .. MaxPackets :
        (/\ pc[s] = "in"
         /\ pos < p /\ p <= Len(log) /\ log[p] = Listens[s])
            ~> (p \in Heard(s) \cup skipped \/ pc[s] = "out")

(* "Decoding is lazy: a device with no listeners is never decoded"         *)
(* (live.py:7-9), and its decoder goes with the last listener: one without *)
(* listeners is about to be freed, or was made by a worker that found the  *)
(* device watched just before the last listener left and its decoder was   *)
(* freed; such a one stays until the device has been listened to again     *)
(* (live.py:44-46, 58-66).                                                 *)
DecodersLazy ==
    \A d \in decoders : listeners[d] # {} \/ leaving = <<d>> \/ d \in raced
=============================================================================
