------------------------------ MODULE Limiter ------------------------------
(***************************************************************************)
(* ConnectionLimiter of server/auth.py: per source address the number of   *)
(* live connections and a deque with the times of the recent admissions,   *)
(* from which old ones are popped only when the address is asked about     *)
(* again.                                                                  *)
(*                                                                         *)
(* The limiter runs on the event loop of ingest, so allow() and release()  *)
(* are atomic.  The clock is time.time() cut to whole units; it is taken   *)
(* not to run backwards (see README).                                      *)
(***************************************************************************)
EXTENDS Integers, Sequences, FiniteSets

CONSTANTS
    Addr,           \* source addresses
    MaxConcurrent,  \* MAX_CONNS_PER_IP, 64
    MaxPerMinute,   \* MAX_CONNS_PER_IP_PER_MIN, 120
    Window,         \* 60 s in the code
    MaxTime,        \* bound: last time of the clock
    MaxRejected     \* bound: refusals counted

ASSUME LimiterAssumption ==
    /\ MaxConcurrent \in Nat
    /\ MaxPerMinute \in Nat \ {0}
    /\ Window \in Nat
    /\ MaxTime \in Nat
    /\ MaxRejected \in Nat

VARIABLES
    now,        \* the clock
    window,     \* _recent: times of admissions, oldest first, per address
    live,       \* _live
    rejected,   \* refusals so far
    hist        \* ghost: the times of all admissions, per address

vars == <<now, window, live, rejected, hist>>

Init ==
    /\ now = 0
    /\ window = [ip \in Addr |-> <<>>]
    /\ live = [ip \in Addr |-> 0]
    /\ rejected = 0
    /\ hist = [ip \in Addr |-> <<>>]

Tick ==
    /\ now < MaxTime
    /\ now' = now + 1
    /\ UNCHANGED <<window, live, rejected, hist>>

\* variant: an admission forgotten one unit too early
StaleEarly(t) == now - t >= Window

Stale(t) == now - t > Window

\* variant: everything is popped as soon as the oldest entry is stale
PopsAll(w, k) == k = IF w # <<>> /\ Stale(w[1]) THEN Len(w) ELSE 0

(* The while loop of allow() stops after k pops. *)
Pops(w, k) ==
    /\ k \in 0 .. Len(w)
    /\ \A i \in 1 .. k : Stale(w[i])
    /\ k < Len(w) => ~Stale(w[k + 1])

\* variant: the concurrent cap off by one
AtConcurrentCapLate(ip) == live[ip] > MaxConcurrent

AtConcurrentCap(ip) == live[ip] >= MaxConcurrent

\* variant: the rate cap off by one
AtRateCapEarly(rest) == Len(rest) + 1 >= MaxPerMinute

AtRateCap(rest) == Len(rest) >= MaxPerMinute

(* allow() returning True. *)
Allow(ip) ==
    \E k \in 0 .. Len(window[ip]) :
        LET rest == SubSeq(window[ip], k + 1, Len(window[ip]))
        IN  /\ Pops(window[ip], k)
            /\ ~AtConcurrentCap(ip)
            /\ ~AtRateCap(rest)
            /\ window' = [window EXCEPT ![ip] = Append(rest, now)]
            /\ live' = [live EXCEPT ![ip] = @ + 1]
            /\ hist' = [hist EXCEPT ![ip] = Append(@, now)]
            /\ UNCHANGED <<now, rejected>>

(* allow() returning False, for either reason. *)
Refuse(ip) ==
    /\ rejected < MaxRejected
    /\ \E k \in 0 .. Len(window[ip]) :
          LET rest == SubSeq(window[ip], k + 1, Len(window[ip]))
          IN  /\ Pops(window[ip], k)
              /\ AtConcurrentCap(ip) \/ AtRateCap(rest)
              /\ window' = [window EXCEPT ![ip] = rest]
              /\ rejected' = rejected + 1
              /\ UNCHANGED <<now, live, hist>>

\* variant: no check that a connection is live
ReleaseUnchecked(ip) ==
    /\ live' = [live EXCEPT ![ip] = @ - 1]
    /\ UNCHANGED <<now, window, rejected, hist>>

(* release(): does nothing for an address without live connections. *)
Release(ip) ==
    /\ live[ip] > 0
    /\ live' = [live EXCEPT ![ip] = @ - 1]
    /\ UNCHANGED <<now, window, rejected, hist>>

Next ==
    \/ Tick
    \/ \E ip \in Addr : Allow(ip) \/ Refuse(ip) \/ Release(ip)

Spec == Init /\ [][Next]_vars

-----------------------------------------------------------------------------
TypeOK ==
    /\ now \in Nat
    /\ window \in [Addr -> Seq(Nat)]
    /\ live \in [Addr -> Nat]
    /\ rejected \in Nat
    /\ hist \in [Addr -> Seq(Nat)]

(* Never more than MaxConcurrent connections of one address at a time      *)
(* (auth.py:157-159).                                                      *)
ConcurrentCap == \A ip \in Addr : live[ip] <= MaxConcurrent

(* Of any MaxPerMinute + 1 consecutive admissions of one address, the last *)
(* is more than a window later than the first, although the deque is only  *)
(* cleaned when the address comes back (auth.py:155-163).                  *)
SlidingWindow ==
    \A ip \in Addr : \A i \in 1 .. Len(hist[ip]) :
        i + MaxPerMinute <= Len(hist[ip])
            => hist[ip][i + MaxPerMinute] - hist[ip][i] > Window

(* The deque is the end of the history, which is in order and not ahead of *)
(* the clock; whatever has left the deque is stale, and it is never longer *)
(* than the rate cap (auth.py:154-163).  SlidingWindow is not inductive    *)
(* without it.                                                             *)
Suffix(w, h) ==
    /\ Len(w) <= Len(h)
    /\ Len(w) <= MaxPerMinute
    /\ \A j \in 1 .. Len(w) : w[j] = h[Len(h) - Len(w) + j]
    /\ \A i \in 1 .. Len(h) - Len(w) : Stale(h[i])

Ordered(h) ==
    /\ \A i \in 1 .. Len(h) : h[i] <= now
    /\ \A i, j \in 1 .. Len(h) : i <= j => h[i] <= h[j]

WindowIsSuffix == \A ip \in Addr : Suffix(window[ip], hist[ip]) /\ Ordered(hist[ip])

(* What counts as recent, popped or not. *)
Fresh(h) == {i \in 1 .. Len(h) : ~Stale(h[i])}

recentOf == [ip \in Addr |-> Cardinality(Fresh(hist[ip]))]

Cap == INSTANCE ConnCap WITH recent <- recentOf

(* The limiter implements the two caps: the admissions that count are      *)
(* exactly those within the window of the clock, popped or not, and it     *)
(* refuses at a cap and nowhere else (auth.py:152-171).                    *)
ImplementsCap == Cap!CapSpec
=============================================================================
