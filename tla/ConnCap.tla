------------------------------ MODULE ConnCap ------------------------------
(***************************************************************************)
(* What the connection limiter promises, without saying how: per source    *)
(* address at most MaxConcurrent connections at a time and at most         *)
(* MaxPerMinute admissions per window; it refuses only at one of the two   *)
(* caps, and what it counts as recent only shrinks as time passes.         *)
(*                                                                         *)
(* Limiter implements it with a clock and a deque of times; Ingest is      *)
(* built on it.                                                            *)
(***************************************************************************)
EXTENDS Naturals

CONSTANTS
    Addr,           \* source addresses
    MaxConcurrent,  \* MAX_CONNS_PER_IP
    MaxPerMinute    \* MAX_CONNS_PER_IP_PER_MIN

ASSUME ConnCapAssumption == MaxConcurrent \in Nat /\ MaxPerMinute \in Nat

VARIABLES
    live,       \* connections admitted and not released, per address
    recent,     \* admissions within the window, per address
    rejected    \* refusals so far

capVars == <<live, recent, rejected>>

CapInit ==
    /\ live = [ip \in Addr |-> 0]
    /\ recent = [ip \in Addr |-> 0]
    /\ rejected = 0

AtCap(ip) == live[ip] >= MaxConcurrent \/ recent[ip] >= MaxPerMinute

Admit(ip) ==
    /\ ~AtCap(ip)
    /\ live' = [live EXCEPT ![ip] = @ + 1]
    /\ recent' = [recent EXCEPT ![ip] = @ + 1]
    /\ UNCHANGED rejected

Refuse(ip) ==
    /\ AtCap(ip)
    /\ rejected' = rejected + 1
    /\ UNCHANGED <<live, recent>>

(* A release too many is ignored. *)
Release(ip) ==
    /\ live' = [live EXCEPT ![ip] = IF @ > 0 THEN @ - 1 ELSE @]
    /\ UNCHANGED <<recent, rejected>>

(* Time passes: some admissions leave the window. *)
Age ==
    /\ \E r \in [Addr -> 0 .. MaxPerMinute] :
          /\ \A ip \in Addr : r[ip] <= recent[ip]
          /\ recent' = r
    /\ UNCHANGED <<live, rejected>>

CapNext ==
    \/ \E ip \in Addr : Admit(ip) \/ Refuse(ip) \/ Release(ip)
    \/ Age

CapSpec == CapInit /\ [][CapNext]_capVars
=============================================================================
