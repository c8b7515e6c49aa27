------------------------------ MODULE MCIngest ------------------------------
(* Values for TLC: two connections of one device and one of another, all   *)
(* from one address.                                                       *)
EXTENDS Ingest

CONSTANTS c1, c2, c3, d1, d2, a1

MCOwner == [c \in Conns |-> IF c = c3 THEN d2 ELSE d1]
MCSource == [c \in Conns |-> a1]

(* Devices that say who they are, and a second device that also claims to  *)
(* be the first.                                                           *)
MCHonest == [c \in Conns |-> {MCOwner[c]}]
MCOneLies == [c \in Conns |-> IF c = c3 THEN {d1, d2} ELSE {d1}]
=============================================================================
