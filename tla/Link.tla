-------------------------------- MODULE Link --------------------------------
(***************************************************************************)
(* The TCP connections of one device, one per session.  What is written on *)
(* one is read in order; when the link breaks, what had not arrived yet is *)
(* lost, a frame of which only a part arrives with it, and neither side is *)
(* told at once.                                                           *)
(***************************************************************************)
EXTENDS Naturals, Sequences

CONSTANT MaxSessions    \* bound: connections made

VARIABLES
    wire,       \* written and not read yet, per session
    link        \* "none", "up", "closed" by the device, or "dead"

linkVars == <<wire, link>>

(* What is written: frames, of which only the kind counts but for audio. *)
Hello == [kind |-> "hello"]
Stat == [kind |-> "stat"]
Audio(n) == [kind |-> "audio", n |-> n]

Sessions == 1 .. MaxSessions

LinkInit ==
    /\ wire = [s \in Sessions |-> <<>>]
    /\ link = [s \in Sessions |-> "none"]

OpenLink(s, items) ==
    /\ link[s] = "none"
    /\ link' = [link EXCEPT ![s] = "up"]
    /\ wire' = [wire EXCEPT ![s] = items]

(* What is written on a broken link does not arrive. *)
Write(s, items) ==
    /\ wire' = IF link[s] = "up" THEN [wire EXCEPT ![s] = @ \o items] ELSE wire
    /\ UNCHANGED link

CloseLink(s) ==
    /\ link' = [link EXCEPT ![s] = IF @ = "up" THEN "closed" ELSE @]
    /\ UNCHANGED wire

Break(s) ==
    /\ link[s] \in {"up", "closed"}
    /\ link' = [link EXCEPT ![s] = "dead"]
    /\ \E k \in 0 .. Len(wire[s]) : wire' = [wire EXCEPT ![s] = SubSeq(@, 1, k)]
=============================================================================
