------------------------------ MODULE Framing ------------------------------
(***************************************************************************)
(* The length-prefixed framing of the TCP hop, byte by byte, and the two   *)
(* places of the ingest server that cut a byte stream back into frames:    *)
(* the handshake (_read_frame, _handshake) and the receive loop (handle).  *)
(*                                                                         *)
(* One connection.  The device writes a sequence of payloads; TCP delivers *)
(* the bytes in order but in chunks of any size, and the last ones may     *)
(* never arrive.  What the server does with a frame after classify() is    *)
(* the subject of Ingest; here a frame is `delivered' once the receive     *)
(* loop has cut it out of its buffer.                                      *)
(***************************************************************************)
EXTENDS Naturals, SequencesExt

CONSTANTS
    Base,       \* values of a byte: 256 in the code
    Payloads,   \* payloads a device may frame
    MaxFrames,  \* bound: frames one device writes
    Kinds,      \* devices considered, a subset of AllKinds
    Pipelined   \* does a device write on before its handshake is over?

\* How the server treats the first frame of this device:
\*   "disabled"  AUTH_MODE=disabled, there is no handshake at all
\*   "auth"      a valid AUTH frame, consumed by the handshake
\*   "legacy"    anything else in optional mode, pushed back into the buffer
\*   "denied"    a bad AUTH frame, or no AUTH in required mode
AllKinds == {"disabled", "auth", "legacy", "denied"}

Byte == 0 .. Base - 1
MaxFrame == Base * Base - 1

ASSUME FramingAssumption ==
    /\ Base \in Nat \ {0, 1}
    /\ \A p \in Payloads : p \in Seq(Byte) /\ Len(p) <= MaxFrame
    /\ MaxFrames \in Nat
    /\ Kinds \subseteq AllKinds
    /\ Pipelined \in BOOLEAN

(* The definitions marked "variant" are slips one could make in the        *)
(* definition that follows; the properties are checked to notice them.     *)

\* variant: the high byte of the length forgotten
FrameOneByteLength(p) == <<0, Len(p)>> \o p

(* protocol.py: the length prefix is two bytes, the high one first. *)
Frame(p) == <<Len(p) \div Base, Len(p) % Base>> \o p

Framed(ps) == FlattenSeq([i \in DOMAIN ps |-> Frame(ps[i])])

\* variant: the length read low byte first
FrameLengthSwapped(b, off) == b[off + 2] * Base + b[off + 1]

FrameLength(b, off) == b[off + 1] * Base + b[off + 2]

\* variant: one byte more than the frame demanded
CompleteOffByOne(b, off) ==
    LET n == Len(b) - off
    IN  n >= 2 /\ n > 2 + FrameLength(b, off)

Complete(b, off) ==
    LET n == Len(b) - off
    IN  n >= 2 /\ n >= 2 + FrameLength(b, off)

(* iter_frames: every complete frame from the front, and the rest. *)
IterFrames(b) ==
    LET split[off \in 0 .. Len(b)] ==
          IF ~Complete(b, off)
          THEN [frames |-> <<>>, rest |-> SubSeq(b, off + 1, Len(b))]
          ELSE LET next == off + 2 + FrameLength(b, off)
                   tail == split[next]
               IN  [frames |-> <<SubSeq(b, off + 3, next)>> \o tail.frames,
                    rest   |-> tail.rest]
    IN  split[0]

(* What _read_frame hands back beside the first frame: the partial tail    *)
(* and THEN the other complete frames, framed again.                       *)
Leftover(split) == split.rest \o Framed(Tail(split.frames))

\* variant: the chunk put in front of the partial tail
ExtendInFront(b, chunk) == chunk \o b

(* A chunk goes behind what is already buffered. *)
Extend(b, chunk) == b \o chunk

-----------------------------------------------------------------------------
VARIABLES
    kind,       \* the kind of this connection's device
    frames,     \* the payloads the device has to write
    sent,       \* how many of them it has written
    linked,     \* device and network are still there
    wire,       \* bytes written and not yet read by the server
    got,        \* how many bytes the server has read
    phase,      \* "handshake", "stream" or "closed"
    buf,        \* the server's receive buffer
    delivered   \* payloads the receive loop has cut out of it

vars == <<kind, frames, sent, linked, wire, got, phase, buf, delivered>>

Init ==
    /\ kind \in Kinds
    /\ frames \in UNION {[1 .. n -> Payloads] : n \in 1 .. MaxFrames}
    /\ sent = 0
    /\ linked = TRUE
    /\ wire = <<>>
    /\ got = 0
    /\ phase = IF kind = "disabled" THEN "stream" ELSE "handshake"
    /\ buf = <<>>
    /\ delivered = <<>>

-----------------------------------------------------------------------------
(* The device and the network. *)

DeviceWrite ==
    /\ linked
    /\ sent < Len(frames)
    /\ Pipelined \/ sent = 0 \/ phase = "stream"
    /\ sent' = sent + 1
    /\ wire' = wire \o Frame(frames[sent + 1])
    /\ UNCHANGED <<kind, frames, linked, got, phase, buf, delivered>>

(* The device closes, or the link dies and some last bytes never arrive. *)
Hangup ==
    /\ linked
    /\ linked' = FALSE
    /\ \E k \in 0 .. Len(wire) : wire' = SubSeq(wire, 1, k)
    /\ UNCHANGED <<kind, frames, sent, got, phase, buf, delivered>>

-----------------------------------------------------------------------------
(* The server. *)

Read(n) ==
    /\ wire' = SubSeq(wire, n + 1, Len(wire))
    /\ got' = got + n
    /\ UNCHANGED <<kind, frames, sent, linked>>

(* _read_frame gets one chunk; with a complete frame the handshake is over.*)
HandshakeRead ==
    /\ phase = "handshake"
    /\ \E n \in 1 .. Len(wire) :
          LET b     == Extend(buf, SubSeq(wire, 1, n))
              split == IterFrames(b)
          IN  /\ Read(n)
              /\ \/ /\ split.frames = <<>>
                    /\ buf' = b
                    /\ UNCHANGED phase
                 \/ /\ split.frames # <<>>
                    /\ kind = "auth"
                    /\ phase' = "stream"
                    /\ buf' = Leftover(split)
                 \/ /\ split.frames # <<>>
                    /\ kind = "legacy"
                    /\ phase' = "stream"
                    /\ buf' = Frame(Head(split.frames)) \o Leftover(split)
                 \/ /\ split.frames # <<>>
                    /\ kind = "denied"
                    /\ phase' = "closed"
                    /\ buf' = <<>>
    /\ UNCHANGED delivered

(* One turn of the receive loop. *)
StreamRead ==
    /\ phase = "stream"
    /\ \E n \in 1 .. Len(wire) :
          LET split == IterFrames(Extend(buf, SubSeq(wire, 1, n)))
          IN  /\ Read(n)
              /\ buf' = split.rest
              /\ delivered' = delivered \o split.frames
    /\ UNCHANGED phase

Close ==
    /\ phase' = "closed"
    /\ buf' = <<>>
    /\ UNCHANGED <<kind, frames, sent, linked, wire, got, delivered>>

(* read() returns b"" or raises: nothing more will arrive. *)
EndOfStream == phase # "closed" /\ ~linked /\ wire = <<>> /\ Close

(* No byte for HANDSHAKE_TIMEOUT, respectively SERVER_RECV_TIMEOUT. *)
RecvTimeout == phase # "closed" /\ linked /\ wire = <<>> /\ Close

Next ==
    \/ DeviceWrite
    \/ Hangup
    \/ HandshakeRead
    \/ StreamRead
    \/ EndOfStream
    \/ RecvTimeout

(* The event loop serves a socket that has bytes to read. *)
Fairness == WF_vars(HandshakeRead) /\ WF_vars(StreamRead) /\ WF_vars(EndOfStream)

Spec == Init /\ [][Next]_vars
FairSpec == Spec /\ Fairness

-----------------------------------------------------------------------------
TypeOK ==
    /\ kind \in Kinds
    /\ frames \in Seq(Payloads)
    /\ sent \in 0 .. Len(frames)
    /\ linked \in BOOLEAN
    /\ wire \in Seq(Byte)
    /\ got \in Nat
    /\ phase \in {"handshake", "stream", "closed"}
    /\ buf \in Seq(Byte)
    /\ delivered \in Seq(Seq(Byte))

(* The handshake keeps an AUTH frame to itself. *)
Expected == IF kind = "auth" THEN Tail(frames) ELSE frames

(* The receive loop sees the frames the device wrote, unaltered and in the *)
(* order they were written, however TCP cuts the bytes                     *)
(* (protocol.py:81-83).                                                    *)
InOrder == IsPrefix(delivered, Expected)

(* How many of the device's frames have been read to their last byte. *)
Arrived ==
    CHOOSE k \in 0 .. Len(frames) :
        /\ Len(Framed(SubSeq(frames, 1, k))) <= got
        /\ k < Len(frames) => Len(Framed(SubSeq(frames, 1, k + 1))) > got

(* Of the first k frames of the device, those the receive loop has to see. *)
Due(k) == SubSeq(Expected, 1, IF kind = "auth" THEN k - 1 ELSE k)

(* The first frame of a legacy device is back in the buffer, where nothing *)
(* looks at it before the next chunk.                                      *)
PushedBack == kind = "legacy" /\ Arrived = 1 /\ delivered = <<>>

(* When the connection is closed, every frame read in full had been        *)
(* delivered: no frame dies in a buffer, a pushed back one excepted        *)
(* (ingest.py:141-148).                                                    *)
NothingHeldBack ==
    phase = "closed" /\ kind # "denied" => delivered = Due(Arrived) \/ PushedBack

(* The receive loop has delivered exactly the frames read so far, at every *)
(* moment of the streaming phase: its buffer is the partial tail, unless   *)
(* it holds the pushed back frame, and nothing else (ingest.py:146-147).   *)
Reassembled ==
    phase = "stream" =>
        \/ /\ delivered = Due(Arrived)
           /\ Len(Framed(SubSeq(frames, 1, Arrived))) + Len(buf) = got
        \/ PushedBack /\ Len(buf) = got

(* A frame whose bytes have all arrived is handed on without waiting for   *)
(* the next one, unless the link dies or the server gives up first; only a *)
(* legacy device's first frame waits (ingest.py:141-148).                  *)
Prompt ==
    \A i \in 1 .. MaxFrames :
        (sent >= i /\ linked /\ ~(kind = "legacy" /\ i = 1))
            ~> (Len(delivered) >= (IF kind = "auth" THEN i - 1 ELSE i)
                  \/ ~linked \/ phase = "closed")
=============================================================================
