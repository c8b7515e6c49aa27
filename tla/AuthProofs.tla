----------------------------- MODULE AuthProofs -----------------------------
(***************************************************************************)
(* Proofs about auth.py.                                                   *)
(*                                                                         *)
(* First the limiter alone: it keeps its two caps for every set of         *)
(* addresses, every pair of caps, every window length and every clock.     *)
(* What is popped from the deque is stale, and stays stale because the     *)
(* clock does not run backwards; so an admission with fewer than           *)
(* MaxPerMinute entries left after popping is more than a window later     *)
(* than the admission MaxPerMinute places before it.                       *)
(*                                                                         *)
(* Then the device keys, for every set of devices, every file that anyone  *)
(* may write and any number of edits; and the two objects on one event     *)
(* loop: the limiter and the registry do not disturb each other, so what   *)
(* is proved of each alone holds of the two together.                      *)
(***************************************************************************)
EXTENDS Auth, FiniteSetTheorems, TLAPS

LEMMA StepCases ==
    ASSUME Next
    PROVE  \/ Tick
           \/ \E ip \in Addr : Allow(ip)
           \/ \E ip \in Addr : Refuse(ip)
           \/ \E ip \in Addr : Release(ip)
BY Zenon DEF Next

\* The state components keep their types.
LEMMA TypeStep ==
    ASSUME TypeOK, [Next]_vars
    PROVE  TypeOK'
<1> USE LimiterAssumption DEF TypeOK
<1>1. CASE Tick
  BY <1>1 DEF Tick
<1>2. ASSUME NEW ip \in Addr, Allow(ip)
      PROVE  TypeOK'
  <2>1. PICK k \in 0 .. Len(window[ip]) :
          LET rest == SubSeq(window[ip], k + 1, Len(window[ip]))
          IN  /\ window' = [window EXCEPT ![ip] = Append(rest, now)]
              /\ live' = [live EXCEPT ![ip] = @ + 1]
              /\ hist' = [hist EXCEPT ![ip] = Append(@, now)]
              /\ UNCHANGED <<now, rejected>>
    BY <1>2 DEF Allow
  <2> DEFINE rest == SubSeq(window[ip], k + 1, Len(window[ip]))
  <2>2. rest \in Seq(Nat)
    OBVIOUS
  <2> HIDE DEF rest
  <2>3. /\ window' = [window EXCEPT ![ip] = Append(rest, now)]
        /\ live' = [live EXCEPT ![ip] = @ + 1]
        /\ hist' = [hist EXCEPT ![ip] = Append(@, now)]
        /\ UNCHANGED <<now, rejected>>
    BY <2>1 DEF rest
  <2>4. window' \in [Addr -> Seq(Nat)]
    <3>1. Append(rest, now) \in Seq(Nat)
      BY <2>2
    <3> QED
      BY <2>3, <3>1
  <2>5. hist' \in [Addr -> Seq(Nat)]
    <3>1. Append(hist[ip], now) \in Seq(Nat)
      OBVIOUS
    <3> QED
      BY <2>3, <3>1
  <2>6. live' \in [Addr -> Nat]
    BY <2>3
  <2> QED
    BY <2>3, <2>4, <2>5, <2>6
<1>3. ASSUME NEW ip \in Addr, Refuse(ip)
      PROVE  TypeOK'
  <2>1. PICK k \in 0 .. Len(window[ip]) :
          LET rest == SubSeq(window[ip], k + 1, Len(window[ip]))
          IN  /\ window' = [window EXCEPT ![ip] = rest]
              /\ rejected' = rejected + 1
              /\ UNCHANGED <<now, live, hist>>
    BY <1>3 DEF Refuse
  <2>2. SubSeq(window[ip], k + 1, Len(window[ip])) \in Seq(Nat)
    OBVIOUS
  <2> QED
    BY <2>1, <2>2
<1>4. ASSUME NEW ip \in Addr, Release(ip)
      PROVE  TypeOK'
  BY <1>4 DEF Release
<1>5. CASE UNCHANGED vars
  BY <1>5 DEF vars
<1> QED
  BY <1>1, <1>2, <1>3, <1>4, <1>5, StepCases

\* The components of the state always have their types.
THEOREM TypeCorrect == Spec => []TypeOK
<1>1. Init => TypeOK
  BY DEF Init, TypeOK
<1>2. TypeOK /\ [Next]_vars => TypeOK'
  BY TypeStep
<1> QED
  BY <1>1, <1>2, PTL DEF Spec

\* An address never has more than MaxConcurrent admitted connections
\* (auth.py:157-159).
THEOREM ConcurrentCapHolds == Spec => []ConcurrentCap
<1>1. Init => ConcurrentCap
  BY LimiterAssumption DEF Init, ConcurrentCap
<1>2. TypeOK /\ ConcurrentCap /\ [Next]_vars => ConcurrentCap'
  <2> SUFFICES ASSUME TypeOK, ConcurrentCap, [Next]_vars
               PROVE  ConcurrentCap'
    OBVIOUS
  <2> USE LimiterAssumption DEF TypeOK, ConcurrentCap
  <2>1. CASE Tick
    BY <2>1 DEF Tick
  <2>2. ASSUME NEW ip \in Addr, Allow(ip)
        PROVE  ConcurrentCap'
    <3>1. live[ip] < MaxConcurrent /\ live' = [live EXCEPT ![ip] = @ + 1]
      BY <2>2 DEF Allow, AtConcurrentCap
    <3> QED
      BY <3>1
  <2>3. ASSUME NEW ip \in Addr, Refuse(ip)
        PROVE  ConcurrentCap'
    BY <2>3 DEF Refuse
  <2>4. ASSUME NEW ip \in Addr, Release(ip)
        PROVE  ConcurrentCap'
    BY <2>4 DEF Release
  <2>5. CASE UNCHANGED vars
    BY <2>5 DEF vars
  <2> QED
    BY <2>1, <2>2, <2>3, <2>4, <2>5, StepCases
<1> QED
  BY <1>1, <1>2, TypeCorrect, PTL DEF Spec

-----------------------------------------------------------------------------
\* What is left of a sequence when its first k elements are popped.
LEMMA PopFront ==
    ASSUME NEW w \in Seq(Nat), NEW k \in 0 .. Len(w)
    PROVE  /\ SubSeq(w, k + 1, Len(w)) \in Seq(Nat)
           /\ Len(SubSeq(w, k + 1, Len(w))) = Len(w) - k
           /\ \A j \in 1 .. Len(SubSeq(w, k + 1, Len(w))) :
                 SubSeq(w, k + 1, Len(w))[j] = w[k + j]
<1>1. SubSeq(w, k + 1, Len(w)) \in Seq(Nat)
  OBVIOUS
<1>2. Len(SubSeq(w, k + 1, Len(w))) = Len(w) - k
  OBVIOUS
<1>3. ASSUME NEW j \in 1 .. Len(w) - k
      PROVE  SubSeq(w, k + 1, Len(w))[j] = w[k + j]
  OBVIOUS
<1> QED
  BY <1>1, <1>2, <1>3

\* Popping the front of the deque leaves the end of the history.
LEMMA PopKeepsSuffix ==
    ASSUME NEW w \in Seq(Nat), NEW h \in Seq(Nat), now \in Nat,
           Suffix(w, h), NEW k \in 0 .. Len(w), Pops(w, k)
    PROVE  /\ SubSeq(w, k + 1, Len(w)) \in Seq(Nat)
           /\ Len(SubSeq(w, k + 1, Len(w))) = Len(w) - k
           /\ Suffix(SubSeq(w, k + 1, Len(w)), h)
<1> DEFINE rest == SubSeq(w, k + 1, Len(w))
<1> USE LimiterAssumption
<1>1. /\ rest \in Seq(Nat)
      /\ Len(rest) = Len(w) - k
      /\ \A j \in 1 .. Len(rest) : rest[j] = w[k + j]
  BY PopFront
<1> HIDE DEF rest
<1>2. ASSUME NEW j \in 1 .. Len(rest)
      PROVE  rest[j] = h[Len(h) - Len(rest) + j]
  <2>1. k + j \in 1 .. Len(w) /\ rest[j] = w[k + j]
    BY <1>1
  <2>2. w[k + j] = h[Len(h) - Len(w) + (k + j)]
    BY <2>1 DEF Suffix
  <2>3. Len(h) - Len(w) + (k + j) = Len(h) - Len(rest) + j
    BY <1>1
  <2> QED
    BY <2>1, <2>2, <2>3
<1>3. ASSUME NEW i \in 1 .. Len(h) - Len(rest)
      PROVE  Stale(h[i])
  <2>1. CASE i <= Len(h) - Len(w)
    BY <2>1 DEF Suffix
  <2>2. CASE i > Len(h) - Len(w)
    <3> DEFINE j == i - (Len(h) - Len(w))
    <3>1. Len(w) <= Len(h)
      BY DEF Suffix
    <3>2. Len(w) \in Nat /\ Len(h) \in Nat /\ k \in Nat /\ k <= Len(w) /\ i \in Nat
      <4>1. Len(w) \in Nat /\ Len(h) \in Nat
        OBVIOUS
      <4>2. Len(rest) \in Nat
        BY <1>1
      <4> QED
        BY <4>1, <4>2
    <3>3. i <= Len(h) - Len(rest)
      BY <1>1, <3>2
    <3>4. i <= Len(h) - Len(w) + k
      BY <1>1, <3>2, <3>3
    <3>5. j \in 1 .. k /\ j \in 1 .. Len(w) /\ Len(h) - Len(w) + j = i
      BY SMTT(30), <2>2, <3>1, <3>2, <3>4
    <3> HIDE DEF j
    <3>6. h[i] = w[j]
      BY <3>5 DEF Suffix
    <3> QED
      BY <3>5, <3>6 DEF Pops
  <2> QED
    BY <2>1, <2>2
<1>4. Len(rest) <= Len(h) /\ Len(rest) <= MaxPerMinute
  BY <1>1 DEF Suffix
<1>5. Suffix(rest, h)
  BY <1>2, <1>3, <1>4 DEF Suffix
<1> QED
  BY <1>1, <1>5 DEF rest

\* An admission at time `now' extends history and deque alike.
LEMMA AdmitKeepsSuffix ==
    ASSUME NEW w \in Seq(Nat), NEW h \in Seq(Nat), now \in Nat,
           Suffix(w, h), Ordered(h), ~AtRateCap(w)
    PROVE  Suffix(Append(w, now), Append(h, now)) /\ Ordered(Append(h, now))
<1> DEFINE w1 == Append(w, now)
           h1 == Append(h, now)
<1> USE LimiterAssumption
<1>1. Len(w1) = Len(w) + 1 /\ Len(h1) = Len(h) + 1
  OBVIOUS
<1>2. /\ \A j \in 1 .. Len(w) : w1[j] = w[j]
      /\ w1[Len(w) + 1] = now
      /\ \A i \in 1 .. Len(h) : h1[i] = h[i]
      /\ h1[Len(h) + 1] = now
  OBVIOUS
<1> HIDE DEF w1, h1
<1>3. ASSUME NEW j \in 1 .. Len(w1)
      PROVE  w1[j] = h1[Len(h1) - Len(w1) + j]
  <2>1. Len(h1) - Len(w1) + j = Len(h) - Len(w) + j
    BY <1>1
  <2>2. CASE j \in 1 .. Len(w)
    <3>1. w[j] = h[Len(h) - Len(w) + j] /\ Len(h) - Len(w) + j \in 1 .. Len(h)
      BY <2>2 DEF Suffix
    <3> QED
      BY <1>2, <2>1, <2>2, <3>1
  <2>3. CASE j = Len(w) + 1
    BY <1>2, <2>1, <2>3
  <2> QED
    BY <1>1, <2>2, <2>3
<1>4. ASSUME NEW i \in 1 .. Len(h1) - Len(w1)
      PROVE  Stale(h1[i])
  <2>1. i \in 1 .. Len(h) - Len(w) /\ i \in 1 .. Len(h)
    BY <1>1 DEF Suffix
  <2>2. Stale(h[i])
    BY <2>1 DEF Suffix
  <2> QED
    BY <1>2, <2>1, <2>2
<1>5. Len(w1) <= Len(h1) /\ Len(w1) <= MaxPerMinute
  BY <1>1 DEF Suffix, AtRateCap
<1>6. ASSUME NEW i \in 1 .. Len(h1)
      PROVE  h1[i] <= now /\ \A j \in 1 .. Len(h1) : i <= j => h1[i] <= h1[j]
  <2>1. ASSUME NEW n \in 1 .. Len(h1)
        PROVE  h1[n] <= now /\ h1[n] \in Nat
    <3>1. CASE n = Len(h) + 1
      BY <3>1, <1>2
    <3>2. CASE n \in 1 .. Len(h)
      <4>1. h[n] <= now /\ h[n] \in Nat
        BY <3>2 DEF Ordered
      <4> QED
        BY <3>2, <4>1, <1>2
    <3> QED
      BY <1>1, <3>1, <3>2
  <2>2. ASSUME NEW j \in 1 .. Len(h1), i <= j
        PROVE  h1[i] <= h1[j]
    <3>1. CASE j = Len(h) + 1
      BY <3>1, <2>1, <1>2
    <3>2. CASE j \in 1 .. Len(h)
      <4>1. i \in 1 .. Len(h) /\ h[i] <= h[j]
        BY <2>2, <3>2 DEF Ordered
      <4> QED
        BY <4>1, <3>2, <1>2
    <3> QED
      BY <3>1, <3>2, <1>1
  <2> QED
    BY <2>1, <2>2
<1>7. Suffix(w1, h1)
  BY <1>3, <1>4, <1>5 DEF Suffix
<1>8. Ordered(h1)
  BY <1>6 DEF Ordered
<1> QED
  BY <1>7, <1>8 DEF w1, h1

\* The admission is more than a window later than the one MaxPerMinute
\* places before it.
LEMMA AdmitKeepsWindow ==
    ASSUME NEW w \in Seq(Nat), NEW h \in Seq(Nat), now \in Nat,
           Suffix(w, h), ~AtRateCap(w),
           \A i \in 1 .. Len(h) :
              i + MaxPerMinute <= Len(h) => h[i + MaxPerMinute] - h[i] > Window,
           NEW i \in 1 .. Len(Append(h, now)),
           i + MaxPerMinute <= Len(Append(h, now))
    PROVE  Append(h, now)[i + MaxPerMinute] - Append(h, now)[i] > Window
<1> DEFINE h1 == Append(h, now)
<1> USE LimiterAssumption
<1>1. /\ Len(h1) = Len(h) + 1
      /\ \A n \in 1 .. Len(h) : h1[n] = h[n]
      /\ h1[Len(h) + 1] = now
  OBVIOUS
<1>2. CASE i + MaxPerMinute <= Len(h)
  <2>1. i \in 1 .. Len(h) /\ i + MaxPerMinute \in 1 .. Len(h)
    BY <1>1, <1>2
  <2>2. h[i + MaxPerMinute] - h[i] > Window
    BY <1>2, <2>1
  <2> QED
    BY <1>1, <2>1, <2>2
<1> HIDE DEF h1
<1>3. CASE i + MaxPerMinute = Len(h) + 1
  <2>1. i \in 1 .. Len(h) - Len(w)
    BY <1>3, <1>1 DEF AtRateCap
  <2>2. now - h[i] > Window
    BY <2>1 DEF Suffix, Stale
  <2> QED
    BY <1>1, <1>3, <2>1, <2>2
<1>4. i + MaxPerMinute <= Len(h) \/ i + MaxPerMinute = Len(h) + 1
  BY <1>1
<1> QED
  BY <1>2, <1>3, <1>4 DEF h1
-----------------------------------------------------------------------------
\* Every step keeps the deque a suffix of an ordered history.
LEMMA SuffixStep ==
    ASSUME TypeOK, WindowIsSuffix, [Next]_vars
    PROVE  WindowIsSuffix'
<1> USE LimiterAssumption DEF TypeOK, WindowIsSuffix
<1>1. CASE Tick
  <2>1. now' = now + 1 /\ window' = window /\ hist' = hist
    BY <1>1 DEF Tick
  <2>2. ASSUME NEW ip \in Addr
        PROVE  Suffix(window[ip], hist[ip])' /\ Ordered(hist[ip])'
    <3>1. \A t \in Nat : Stale(t) => Stale(t)'
      BY <2>1 DEF Stale
    <3>2. Suffix(window[ip], hist[ip])'
      BY <2>1, <3>1 DEF Suffix
    <3>3. Ordered(hist[ip])'
      BY <2>1 DEF Ordered
    <3> QED
      BY <3>2, <3>3
  <2> QED
    BY <2>2
<1>2. ASSUME NEW a \in Addr, Allow(a)
      PROVE  WindowIsSuffix'
  <2>1. PICK k \in 0 .. Len(window[a]) :
          LET rest == SubSeq(window[a], k + 1, Len(window[a]))
          IN  /\ Pops(window[a], k)
              /\ ~AtRateCap(rest)
              /\ window' = [window EXCEPT ![a] = Append(rest, now)]
              /\ hist' = [hist EXCEPT ![a] = Append(@, now)]
              /\ now' = now
    BY <1>2 DEF Allow
  <2> DEFINE rest == SubSeq(window[a], k + 1, Len(window[a]))
  <2>2. rest \in Seq(Nat) /\ Suffix(rest, hist[a])
    BY <2>1, PopKeepsSuffix
  <2>3. Suffix(Append(rest, now), Append(hist[a], now)) /\ Ordered(Append(hist[a], now))
    BY <2>1, <2>2, AdmitKeepsSuffix
  <2> HIDE DEF rest
  <2>4. window'[a] = Append(rest, now) /\ hist'[a] = Append(hist[a], now)
    BY <2>1 DEF rest
  <2>5. \A ip \in Addr \ {a} : window'[ip] = window[ip] /\ hist'[ip] = hist[ip]
    BY <2>1
  <2>6. ASSUME NEW ip \in Addr
        PROVE  Suffix(window[ip], hist[ip])' /\ Ordered(hist[ip])'
    <3>1. now' = now
      BY <2>1
    <3>2. CASE ip = a
      BY <3>1, <3>2, <2>3, <2>4 DEF Suffix, Ordered, Stale
    <3>3. CASE ip # a
      BY <3>1, <3>3, <2>5 DEF Suffix, Ordered, Stale
    <3> QED
      BY <3>2, <3>3
  <2> QED
    BY <2>6
<1>3. ASSUME NEW a \in Addr, Refuse(a)
      PROVE  WindowIsSuffix'
  <2>1. PICK k \in 0 .. Len(window[a]) :
          LET rest == SubSeq(window[a], k + 1, Len(window[a]))
          IN  /\ Pops(window[a], k)
              /\ window' = [window EXCEPT ![a] = rest]
              /\ hist' = hist
              /\ now' = now
    BY <1>3 DEF Refuse
  <2> DEFINE rest == SubSeq(window[a], k + 1, Len(window[a]))
  <2>2. Suffix(rest, hist[a])
    BY <2>1, PopKeepsSuffix
  <2> HIDE DEF rest
  <2>3. window'[a] = rest
    BY <2>1 DEF rest
  <2>4. \A ip \in Addr \ {a} : window'[ip] = window[ip]
    BY <2>1
  <2>5. ASSUME NEW ip \in Addr
        PROVE  Suffix(window[ip], hist[ip])' /\ Ordered(hist[ip])'
    <3>1. now' = now /\ hist' = hist
      BY <2>1
    <3>2. CASE ip = a
      BY <3>1, <3>2, <2>2, <2>3 DEF Suffix, Ordered, Stale
    <3>3. CASE ip # a
      BY <3>1, <3>3, <2>4 DEF Suffix, Ordered, Stale
    <3> QED
      BY <3>2, <3>3
  <2> QED
    BY <2>5
<1>4. ASSUME NEW a \in Addr, Release(a)
      PROVE  WindowIsSuffix'
  BY <1>4 DEF Release, Suffix, Ordered, Stale
<1>5. CASE UNCHANGED vars
  BY <1>5 DEF vars, Suffix, Ordered, Stale
<1> QED
  BY <1>1, <1>2, <1>3, <1>4, <1>5, StepCases

\* The deque is always the end of the history of admissions, and what it has
\* lost is stale (auth.py:154-163).
THEOREM DequeIsSuffix == Spec => []WindowIsSuffix
<1>1. Init => WindowIsSuffix
  BY LimiterAssumption DEF Init, WindowIsSuffix, Suffix, Ordered
<1>2. TypeOK /\ WindowIsSuffix /\ [Next]_vars => WindowIsSuffix'
  BY SuffixStep
<1> QED
  BY <1>1, <1>2, TypeCorrect, PTL DEF Spec

\* More than MaxPerMinute consecutive admissions of one address never fall
\* into one window (auth.py:155-163).
THEOREM RateCapHolds == Spec => []SlidingWindow
<1>1. Init => SlidingWindow
  BY DEF Init, SlidingWindow
<1>2. TypeOK /\ WindowIsSuffix /\ SlidingWindow /\ [Next]_vars => SlidingWindow'
  <2> SUFFICES ASSUME TypeOK, WindowIsSuffix, SlidingWindow, [Next]_vars
               PROVE  SlidingWindow'
    OBVIOUS
  <2> USE LimiterAssumption DEF TypeOK
  <2>1. ASSUME NEW a \in Addr, Allow(a)
        PROVE  SlidingWindow'
    <3>1. PICK k \in 0 .. Len(window[a]) :
            LET rest == SubSeq(window[a], k + 1, Len(window[a]))
            IN  /\ Pops(window[a], k)
                /\ ~AtRateCap(rest)
                /\ hist' = [hist EXCEPT ![a] = Append(@, now)]
      BY <2>1 DEF Allow
    <3> DEFINE rest == SubSeq(window[a], k + 1, Len(window[a]))
    <3>2. rest \in Seq(Nat) /\ Suffix(rest, hist[a])
      BY <3>1, PopKeepsSuffix DEF WindowIsSuffix
    <3>3. ~AtRateCap(rest)
      BY <3>1
    <3> HIDE DEF rest
    <3>4. hist[a] \in Seq(Nat) /\ hist'[a] = Append(hist[a], now)
      BY <3>1
    <3>5. \A ip \in Addr \ {a} : hist'[ip] = hist[ip]
      BY <3>1
    <3>6. \A i \in 1 .. Len(hist[a]) :
             i + MaxPerMinute <= Len(hist[a])
                => hist[a][i + MaxPerMinute] - hist[a][i] > Window
      BY DEF SlidingWindow
    <3>7. \A i \in 1 .. Len(hist'[a]) :
             i + MaxPerMinute <= Len(hist'[a])
                => hist'[a][i + MaxPerMinute] - hist'[a][i] > Window
      BY <3>2, <3>3, <3>4, <3>6, AdmitKeepsWindow
    <3> QED
      BY <3>5, <3>7 DEF SlidingWindow
  <2>2. CASE hist' = hist
    BY <2>2 DEF SlidingWindow
  <2>3. hist' = hist \/ \E a \in Addr : Allow(a)
    BY StepCases DEF Tick, Refuse, Release, vars
  <2> QED
    BY <2>1, <2>2, <2>3
<1> QED
  BY <1>1, <1>2, TypeCorrect, DequeIsSuffix, PTL DEF Spec
-----------------------------------------------------------------------------
\* What is left of the deque after popping are exactly the fresh admissions.
LEMMA FreshIsRest ==
    ASSUME NEW w \in Seq(Nat), NEW h \in Seq(Nat), now \in Nat,
           Suffix(w, h), Ordered(h), NEW k \in 0 .. Len(w), Pops(w, k)
    PROVE  Cardinality(Fresh(h)) = Len(w) - k
<1> DEFINE first == Len(h) - (Len(w) - k) + 1
<1> USE LimiterAssumption
<1>1. Len(w) \in Nat /\ Len(h) \in Nat /\ Len(w) <= Len(h)
  BY DEF Suffix
<1>2. ASSUME NEW i \in 1 .. Len(h), i < first
      PROVE  Stale(h[i])
  <2>1. CASE i <= Len(h) - Len(w)
    BY <2>1, <1>1 DEF Suffix
  <2>2. CASE i > Len(h) - Len(w)
    <3> DEFINE j == i - (Len(h) - Len(w))
    <3>1. j \in 1 .. k /\ j \in 1 .. Len(w) /\ Len(h) - Len(w) + j = i
      BY <2>2, <1>1, <1>2
    <3> HIDE DEF j
    <3>2. h[i] = w[j]
      BY <3>1 DEF Suffix
    <3> QED
      BY <3>1, <3>2 DEF Pops
  <2> QED
    BY <2>1, <2>2, <1>1
<1>3. ASSUME NEW i \in 1 .. Len(h), i >= first
      PROVE  ~Stale(h[i])
  <2>1. k < Len(w) /\ first \in 1 .. Len(h)
    BY <1>1, <1>3
  <2>2. k + 1 \in 1 .. Len(w) /\ Len(h) - Len(w) + (k + 1) = first
    BY <2>1, <1>1
  <2> HIDE DEF first
  <2>3. h[first] = w[k + 1] /\ ~Stale(h[first])
    BY <2>1, <2>2 DEF Suffix, Pops
  <2>4. h[first] <= h[i] /\ h[first] \in Nat /\ h[i] \in Nat
    BY <2>1, <1>3 DEF Ordered
  <2> DEFINE x == h[first]
             y == h[i]
  <2>5. ~Stale(x) /\ x <= y /\ x \in Nat /\ y \in Nat
    BY <2>3, <2>4
  <2> HIDE DEF x, y
  <2>6. ~Stale(y)
    BY <2>5 DEF Stale
  <2> QED
    BY <2>6 DEF y
<1>4. first \in 1 .. Len(h) + 1 /\ Len(h) - first + 1 = Len(w) - k
  BY <1>1
<1> HIDE DEF first
<1>5. Fresh(h) = first .. Len(h)
  <2>1. Fresh(h) \subseteq first .. Len(h)
    BY <1>1, <1>2, <1>4 DEF Fresh
  <2>2. first .. Len(h) \subseteq Fresh(h)
    BY <1>1, <1>3, <1>4 DEF Fresh
  <2> QED
    BY <2>1, <2>2
<1>6. first \in Int /\ Len(h) \in Int
  BY <1>1, <1>4
<1>7. Cardinality(first .. Len(h)) = IF first > Len(h) THEN 0 ELSE Len(h) - first + 1
  BY <1>6, FS_Interval, Zenon
<1>8. (IF first > Len(h) THEN 0 ELSE Len(h) - first + 1) = Len(w) - k
  BY <1>1, <1>4
<1> QED
  BY <1>5, <1>7, <1>8

\* Fresh admissions are among those still in the deque, so at most
\* MaxPerMinute.
LEMMA FreshBound ==
    ASSUME NEW w \in Seq(Nat), NEW h \in Seq(Nat), Suffix(w, h)
    PROVE  /\ IsFiniteSet(Fresh(h))
           /\ Cardinality(Fresh(h)) \in 0 .. MaxPerMinute
<1> DEFINE first == Len(h) - Len(w) + 1
           kept  == first .. Len(h)
<1> USE LimiterAssumption
<1>1. Len(w) \in Nat /\ Len(h) \in Nat /\ Len(w) <= Len(h) /\ Len(w) <= MaxPerMinute
  BY DEF Suffix
<1>2. first \in 1 .. Len(h) + 1 /\ Len(h) - first + 1 = Len(w)
  BY <1>1
<1>3. Fresh(h) \subseteq kept
  <2>1. \A i \in 1 .. Len(h) : i \notin kept => i \in 1 .. Len(h) - Len(w)
    BY <1>1
  <2> QED
    BY <2>1 DEF Fresh, Suffix
<1> HIDE DEF first
<1>4. first \in Int /\ Len(h) \in Int
  BY <1>1, <1>2
<1>5. /\ IsFiniteSet(kept)
      /\ Cardinality(kept) = IF first > Len(h) THEN 0 ELSE Len(h) - first + 1
  BY <1>4, FS_Interval, Zenon
<1>6. Cardinality(kept) = Len(w)
  BY <1>1, <1>2, <1>5
<1>7. /\ IsFiniteSet(Fresh(h))
      /\ Cardinality(Fresh(h)) <= Cardinality(kept)
  BY <1>3, <1>5, FS_Subset
<1>8. Cardinality(Fresh(h)) \in Nat
  BY <1>7, FS_CardinalityType
<1> QED
  BY <1>1, <1>6, <1>7, <1>8

\* An admission adds itself to the fresh ones.
LEMMA FreshAdmit ==
    ASSUME NEW h \in Seq(Nat), now \in Nat, IsFiniteSet(Fresh(h))
    PROVE  Cardinality(Fresh(Append(h, now))) = Cardinality(Fresh(h)) + 1
<1> USE LimiterAssumption
<1> DEFINE h1 == Append(h, now)
<1>1. /\ Len(h1) = Len(h) + 1
      /\ \A i \in 1 .. Len(h) : h1[i] = h[i]
      /\ h1[Len(h) + 1] = now
      /\ Len(h) \in Nat
  OBVIOUS
<1> HIDE DEF h1
<1>2. ~Stale(now)
  BY DEF Stale
<1>3. Fresh(h1) = Fresh(h) \cup {Len(h) + 1}
  BY <1>1, <1>2 DEF Fresh
<1>4. Len(h) + 1 \notin Fresh(h)
  BY <1>1 DEF Fresh
<1> QED
  BY <1>3, <1>4, FS_AddElement DEF h1

\* Every step of the limiter is a step of its abstract specification or
\* leaves that one's state alone.
LEMMA CapStep ==
    ASSUME TypeOK, WindowIsSuffix, WindowIsSuffix', TypeOK', [Next]_vars
    PROVE  [Cap!CapNext]_(Cap!capVars)
<1> USE LimiterAssumption DEF TypeOK, WindowIsSuffix
<1>1. CASE Tick
  <2>1. now' = now + 1 /\ UNCHANGED <<window, live, rejected, hist>>
    BY <1>1 DEF Tick
  <2>2. ASSUME NEW ip \in Addr
        PROVE  /\ Cardinality(Fresh(hist[ip]))' \in 0 .. MaxPerMinute
               /\ Cardinality(Fresh(hist[ip]))' <= Cardinality(Fresh(hist[ip]))
    <3>1. Fresh(hist[ip])' \subseteq Fresh(hist[ip])
      BY <2>1 DEF Fresh, Stale
    <3>2. IsFiniteSet(Fresh(hist[ip])) /\ Cardinality(Fresh(hist[ip])) \in 0 .. MaxPerMinute
      BY FreshBound
    <3>3. /\ IsFiniteSet(Fresh(hist[ip])')
          /\ Cardinality(Fresh(hist[ip])') <= Cardinality(Fresh(hist[ip]))
      BY <3>1, <3>2, FS_Subset
    <3>4. Cardinality(Fresh(hist[ip])') \in Nat
      BY <3>3, FS_CardinalityType
    <3> QED
      BY <3>2, <3>3, <3>4
  <2>3. recentOf' \in [Addr -> 0 .. MaxPerMinute]
    BY <2>2 DEF recentOf
  <2>4. \A ip \in Addr : recentOf'[ip] <= recentOf[ip]
    BY <2>2 DEF recentOf
  <2>5. Cap!Age
    BY <2>1, <2>3, <2>4 DEF Cap!Age
  <2> QED
    BY <2>5 DEF Cap!CapNext
<1>2. ASSUME NEW a \in Addr, Allow(a)
      PROVE  Cap!CapNext
  <2>1. PICK k \in 0 .. Len(window[a]) :
          LET rest == SubSeq(window[a], k + 1, Len(window[a]))
          IN  /\ Pops(window[a], k)
              /\ ~AtRateCap(rest)
              /\ ~AtConcurrentCap(a)
              /\ live' = [live EXCEPT ![a] = @ + 1]
              /\ hist' = [hist EXCEPT ![a] = Append(@, now)]
              /\ UNCHANGED <<now, rejected>>
    BY <1>2 DEF Allow
  <2>2. Cardinality(Fresh(hist[a])) < MaxPerMinute
    BY <2>1, FreshIsRest, PopKeepsSuffix DEF AtRateCap
  <2>3. ~Cap!AtCap(a)
    BY <2>1, <2>2, FreshBound DEF Cap!AtCap, AtConcurrentCap, recentOf
  <2>4. hist'[a] = Append(hist[a], now) /\ \A ip \in Addr \ {a} : hist'[ip] = hist[ip]
    BY <2>1
  <2>5. Cardinality(Fresh(hist[a]))' = Cardinality(Fresh(hist[a])) + 1
    <3>1. Cardinality(Fresh(Append(hist[a], now))) = Cardinality(Fresh(hist[a])) + 1
      BY FreshAdmit, FreshBound
    <3> QED
      BY <3>1, <2>1, <2>4 DEF Fresh, Stale
  <2>6. \A ip \in Addr \ {a} : Cardinality(Fresh(hist[ip]))' = Cardinality(Fresh(hist[ip]))
    BY <2>1, <2>4 DEF Fresh, Stale
  <2>7. recentOf' = [recentOf EXCEPT ![a] = @ + 1]
    BY <2>5, <2>6 DEF recentOf
  <2>8. Cap!Admit(a)
    BY <2>1, <2>3, <2>7 DEF Cap!Admit
  <2> QED
    BY <2>8 DEF Cap!CapNext
<1>3. ASSUME NEW a \in Addr, Refuse(a)
      PROVE  Cap!CapNext
  <2>1. PICK k \in 0 .. Len(window[a]) :
          LET rest == SubSeq(window[a], k + 1, Len(window[a]))
          IN  /\ Pops(window[a], k)
              /\ AtConcurrentCap(a) \/ AtRateCap(rest)
              /\ rejected' = rejected + 1
              /\ UNCHANGED <<now, live, hist>>
    BY <1>3 DEF Refuse
  <2>2. Cap!AtCap(a)
    BY <2>1, FreshIsRest, PopKeepsSuffix DEF Cap!AtCap, AtConcurrentCap, AtRateCap, recentOf
  <2>3. recentOf' = recentOf
    BY <2>1 DEF recentOf, Fresh, Stale
  <2>4. Cap!Refuse(a)
    BY <2>1, <2>2, <2>3 DEF Cap!Refuse
  <2> QED
    BY <2>4 DEF Cap!CapNext
<1>4. ASSUME NEW a \in Addr, Release(a)
      PROVE  Cap!CapNext
  <2>1. recentOf' = recentOf
    BY <1>4 DEF Release, recentOf, Fresh, Stale
  <2>2. Cap!Release(a)
    BY <1>4, <2>1 DEF Release, Cap!Release
  <2> QED
    BY <2>2 DEF Cap!CapNext
<1>5. CASE UNCHANGED vars
  <2>1. recentOf' = recentOf
    BY <1>5 DEF vars, recentOf, Fresh, Stale
  <2> QED
    BY <1>5, <2>1 DEF vars, Cap!capVars
<1> QED
  BY <1>1, <1>2, <1>3, <1>4, <1>5, StepCases

\* The limiter implements the abstract caps: it counts exactly the admissions
\* within the window, admits only below both caps and refuses only at one
\* (auth.py:152-171).
THEOREM LimiterImplementsCap == Spec => ImplementsCap
<1>1. Init => Cap!CapInit
  <2> SUFFICES ASSUME Init
               PROVE  Cap!CapInit
    OBVIOUS
  <2>1. \A ip \in Addr : Fresh(hist[ip]) = {}
    BY DEF Init, Fresh
  <2>2. recentOf = [ip \in Addr |-> 0]
    BY <2>1, FS_EmptySet DEF recentOf
  <2> QED
    BY <2>2 DEF Init, Cap!CapInit
<1>2. TypeOK /\ TypeOK' /\ WindowIsSuffix /\ WindowIsSuffix' /\ [Next]_vars
        => [Cap!CapNext]_(Cap!capVars)
  BY CapStep
<1> QED
  BY <1>1, <1>2, TypeCorrect, DequeIsSuffix, PTL DEF Spec, ImplementsCap, Cap!CapSpec

-----------------------------------------------------------------------------
(* Every step of the two is a step of the limiter, or none of its business.*)
THEOREM LimiterUndisturbed == AuthSpec => Spec
<1>1. AuthInit => Init
  BY DEF AuthInit
<1>2. [AuthNext]_<<vars, registryVars>> => [Next]_vars
  <2> SUFFICES ASSUME [AuthNext]_<<vars, registryVars>> PROVE [Next]_vars
    OBVIOUS
  <2>1. CASE Reloading \/ Editing \/ \E ip \in Addr : Lookup(ip)
    BY <2>1 DEF Reloading, Editing, Lookup, limiterVars, vars, R!Reload, R!Absent,
       R!Present, R!Stat, R!Read, R!KeepKeys, R!Raise, R!Save, R!Delete, R!Edit, R!Look
  <2> QED
    BY <2>1 DEF AuthNext, Time, Admitted, Refused, Released, Next
<1> QED
  BY <1>1, <1>2, PTL DEF AuthSpec, Spec

(* Every step of the two is a step of the registry, or none of its         *)
(* business: lookups are as the registry has them, and the clock runs.     *)
THEOREM RegistryUndisturbed == AuthSpec => R!Spec
<1>1. AuthInit => R!Init
  BY DEF AuthInit
<1>2. [AuthNext]_<<vars, registryVars>> => [R!Next]_R!vars
  <2> SUFFICES ASSUME [AuthNext]_<<vars, registryVars>> PROVE [R!Next]_R!vars
    OBVIOUS
  <2>1. CASE Time
    BY <2>1 DEF Time, Tick, registryVars, R!Next, R!Tick, R!fileVars, R!cacheVars
  <2>2. CASE \E ip \in Addr : Admitted(ip) \/ Refused(ip) \/ Released(ip)
    BY <2>2 DEF Admitted, Refused, Released, Loop, Allow, Refuse, Release,
       registryVars, R!vars, R!fileVars, R!cacheVars
  <2>3. CASE UNCHANGED <<vars, registryVars>>
    BY <2>3 DEF vars, registryVars, R!vars, R!fileVars, R!cacheVars
  <2> QED
    BY <2>1, <2>2, <2>3 DEF AuthNext, Reloading, Editing, Lookup, R!Next
<1> QED
  BY <1>1, <1>2, PTL DEF AuthSpec, R!Spec

-----------------------------------------------------------------------------
(* The versions a reload may still take up are on record. *)
OnRecord == R!Parsing(file) => file \in history

LEMMA OnRecordHolds == OnRecord /\ [R!Next]_R!vars => OnRecord'
<1> SUFFICES ASSUME OnRecord, [R!Next]_R!vars PROVE OnRecord'
  OBVIOUS
<1>1. CASE UNCHANGED <<file, history>>
  BY <1>1 DEF OnRecord
<1>2. ASSUME NEW c, R!Edit(c) PROVE OnRecord'
  BY <1>2 DEF R!Edit, OnRecord
<1> QED
  BY <1>1, <1>2 DEF R!Next, R!vars, R!fileVars, R!Tick, R!Save, R!Delete, R!Look, R!Reload, R!Absent,
     R!Present, R!Stat, R!Read, R!KeepKeys, R!Raise

LEMMA GenuineHolds ==
    OnRecord /\ R!Genuine /\ [R!Next]_R!vars => R!Genuine'
<1> SUFFICES ASSUME OnRecord, R!Genuine, [R!Next]_R!vars PROVE R!Genuine'
  OBVIOUS
<1>1. CASE UNCHANGED <<keys, loaded, history>>
  BY <1>1 DEF R!Genuine
<1>2. ASSUME NEW c, R!Edit(c) PROVE R!Genuine'
  BY <1>2 DEF R!Edit, R!cacheVars, R!Genuine
<1>3. CASE R!Absent \/ R!Read
  <2>1. keys' = R!Merged(file) /\ file \in history /\ history' = history
    BY <1>3 DEF R!Absent, R!Read, R!Parses, R!Parsing, OnRecord, R!fileVars, R!NoFile
  <2> QED
    BY <2>1 DEF R!Genuine
<1> QED
  BY <1>1, <1>2, <1>3 DEF R!Next, R!vars, R!fileVars, R!cacheVars, R!Tick, R!Save, R!Delete, R!Look,
     R!Reload, R!Present, R!Stat, R!KeepKeys, R!Raise

(* The keys in use are always those of one whole version of the file.      *)
THEOREM GenuineAlways == R!Spec => []R!Genuine
<1>1. R!Init => OnRecord /\ R!Genuine
  BY DEF R!Init, OnRecord, R!Genuine
<1>2. OnRecord /\ R!Genuine /\ [R!Next]_R!vars => (OnRecord /\ R!Genuine)'
  BY OnRecordHolds, GenuineHolds
<1> QED
  BY <1>1, <1>2, PTL DEF R!Spec

-----------------------------------------------------------------------------
(* Between two lookups, and in one until it has asked for the mtime: a file*)
(* with the recorded mtime is the one that was read, ties apart.           *)
ReadBack ==
    step # "read" /\ mtime = filetime /\ ~tied /\ file.kind = "good"
        => keys = R!Merged(file)

(* If nobody has edited the file since the lookup began, the mtime that is *)
(* recorded when it is read, and when the lookup ends, is the file's.      *)
Recorded ==
    /\ step = "read" /\ quiet => mtime = filetime
    /\ step = "idle" /\ quiet /\ file.kind = "good" => mtime = filetime

LEMMA StepsInOrder ==
    /\ R!StepAfter("exists") = "stat"
    /\ R!StepAfter("stat") = "read"
    /\ R!StepAfter("read") = "idle"
BY DEF R!StepAfter

LEMMA ReadBackHolds ==
    ReadBack /\ [R!Next]_R!vars => ReadBack'
<1> SUFFICES ASSUME ReadBack, [R!Next]_R!vars PROVE ReadBack'
  OBVIOUS
<1>1. CASE R!Tick \/ R!Look \/ UNCHANGED R!vars
  BY <1>1 DEF R!Tick, R!Look, R!vars, R!fileVars, R!cacheVars, ReadBack
<1>2. ASSUME NEW c, R!Edit(c) PROVE ReadBack'
  BY <1>2 DEF R!Edit, R!cacheVars, ReadBack
<1>3. CASE R!Absent \/ R!KeepKeys \/ R!Raise
  BY <1>3 DEF R!Absent, R!KeepKeys, R!Raise, R!Advance, R!fileVars, ReadBack, R!NoFile
<1>4. CASE R!Present \/ R!Stat
  BY <1>4, StepsInOrder DEF R!Present, R!Stat, R!Advance, R!fileVars, ReadBack
<1>5. CASE R!Read
  BY <1>5 DEF R!Read, R!fileVars, ReadBack
<1> QED
  BY <1>1, <1>2, <1>3, <1>4, <1>5 DEF R!Next, R!Save, R!Delete, R!Reload

LEMMA RecordedHolds ==
    Recorded /\ [R!Next]_R!vars => Recorded'
<1> SUFFICES ASSUME Recorded, [R!Next]_R!vars PROVE Recorded'
  OBVIOUS
<1>1. CASE R!Tick \/ UNCHANGED R!vars
  BY <1>1 DEF R!Tick, R!vars, R!fileVars, R!cacheVars, Recorded
<1>2. CASE R!Look
  BY <1>2 DEF R!Look, R!Changed, R!fileVars, Recorded, R!NoFile
<1>3. ASSUME NEW c, R!Edit(c) PROVE Recorded'
  BY <1>3 DEF R!Edit, Recorded
<1>4. CASE R!Absent \/ R!KeepKeys \/ R!Raise
  BY <1>4 DEF R!Absent, R!KeepKeys, R!Raise, R!Advance, R!fileVars, Recorded, R!NoFile
<1>5. CASE R!Present \/ R!Stat \/ R!Read
  BY <1>5, StepsInOrder DEF R!Present, R!Stat, R!Read, R!Advance, R!fileVars, Recorded
<1> QED
  BY <1>1, <1>2, <1>3, <1>4, <1>5 DEF R!Next, R!Save, R!Delete, R!Reload

(* Whoever edits the key file sees the edit in force at the next lookup,   *)
(* whatever the accesses and the edits before it were interleaved with.    *)
THEOREM KeysCurrentAlways == R!Spec => []R!KeysCurrent
<1>1. R!Init => ReadBack /\ Recorded
  BY DEF R!Init, R!Never, ReadBack, Recorded
<1>2. ReadBack /\ Recorded /\ [R!Next]_R!vars => (ReadBack /\ Recorded)'
  BY ReadBackHolds, RecordedHolds
<1>3. ReadBack /\ Recorded => R!KeysCurrent
  BY DEF ReadBack, Recorded, R!KeysCurrent
<1> QED
  BY <1>1, <1>2, <1>3, PTL DEF R!Spec

(* The keys ingest answers with are those of a whole version of the file.  *)
THEOREM AuthGenuine == AuthSpec => []Genuine
BY RegistryUndisturbed, GenuineAlways, PTL DEF Genuine

(* A lookup answers from the file as it is, ties of mtime apart.           *)
THEOREM AuthKeysCurrent == AuthSpec => []KeysCurrent
BY RegistryUndisturbed, KeysCurrentAlways, PTL DEF KeysCurrent

-----------------------------------------------------------------------------
(* Types. *)

LEMMA InContents ==
    ASSUME NEW c
    PROVE  c \in R!Contents <=> c = R!NoFile \/ \E e \in 0 .. MaxEdits : c \in R!Version(e)
<1> DEFINE V(e) == R!Version(e)
<1>1. R!Contents = (UNION {V(e) : e \in 0 .. MaxEdits}) \cup {R!NoFile}
  BY DEF R!Contents
<1> HIDE DEF V
<1>2. c \in UNION {V(e) : e \in 0 .. MaxEdits} <=> \E e \in 0 .. MaxEdits : c \in V(e)
  OBVIOUS
<1>3. c \in R!Contents <=> c = R!NoFile \/ \E e \in 0 .. MaxEdits : c \in V(e)
  BY <1>1, <1>2
<1> QED
  BY <1>3 DEF V

LEMMA MergedTyped ==
    ASSUME NEW c \in R!Contents
    PROVE  \E D \in SUBSET Devices : R!Merged(c) \in [D -> 0 .. MaxEdits]
<1> USE KeysAssumption DEF R!RegistryAssumption
<1>1. c.ids \subseteq Devices /\ c.edit \in 0 .. MaxEdits
  <2>1. CASE c = R!NoFile
    BY <2>1 DEF R!NoFile
  <2>2. ASSUME NEW e \in 0 .. MaxEdits, c \in R!Version(e)
        PROVE  c.ids \subseteq Devices /\ c.edit \in 0 .. MaxEdits
    BY <2>2 DEF R!Version, R!Odd
  <2> QED
    BY <2>1, <2>2, InContents
<1>2. Inline \cup c.ids \in SUBSET Devices
  BY <1>1
<1>3. R!Merged(c) \in [Inline \cup c.ids -> 0 .. MaxEdits]
  BY <1>1 DEF R!Merged
<1> QED
  BY <1>2, <1>3

LEMMA EditTyped ==
    ASSUME R!TypeOK, NEW c \in R!Version(edits + 1) \cup {R!NoFile}, R!Edit(c)
    PROVE  R!TypeOK'
<1> USE KeysAssumption DEF R!RegistryAssumption
<1>1. edits' \in 0 .. MaxEdits /\ edits' = edits + 1
  BY DEF R!Edit, R!TypeOK
<1>2. c \in R!Contents
  BY <1>1, InContents
<1>3. file' \in R!Contents /\ history' \subseteq R!Contents /\ filetime' \in Nat
  BY <1>2 DEF R!Edit, R!TypeOK
<1>4. quiet' \in BOOLEAN /\ tied' \in BOOLEAN
  BY Zenon DEF R!Edit, R!TypeOK
<1>5. UNCHANGED <<now, keys, mtime, step, up, loaded>>
  BY DEF R!Edit, R!cacheVars
<1> QED
  BY <1>1, <1>3, <1>4, <1>5 DEF R!TypeOK

LEMMA RegistryTypes == R!TypeOK /\ [R!Next]_R!vars => R!TypeOK'
<1> SUFFICES ASSUME R!TypeOK, [R!Next]_R!vars PROVE R!TypeOK'
  OBVIOUS
<1>1. CASE R!Save \/ R!Delete
  BY <1>1, EditTyped DEF R!Save, R!Delete
<1>2. CASE R!Tick
  BY <1>2 DEF R!Tick, R!TypeOK, R!fileVars, R!cacheVars
<1>3. CASE R!Look
  BY <1>3 DEF R!Look, R!TypeOK, R!fileVars
<1>4. CASE R!Absent
  <2>1. R!NoFile \in R!Contents
    BY InContents
  <2>2. \E D \in SUBSET Devices : keys' \in [D -> 0 .. MaxEdits]
    BY <1>4, <2>1, MergedTyped DEF R!Absent
  <2>3. step' = "idle" /\ up' = TRUE /\ loaded' = TRUE
    BY <1>4 DEF R!Absent, R!Advance
  <2>4. UNCHANGED <<now, file, filetime, edits, history, mtime, quiet, tied>>
    BY <1>4 DEF R!Absent, R!fileVars
  <2> QED
    BY <2>2, <2>3, <2>4 DEF R!TypeOK
<1>5. CASE R!Present
  <2>1. step' = "stat" /\ up' \in BOOLEAN
    BY <1>5, StepsInOrder, Zenon DEF R!Present, R!Advance, R!TypeOK
  <2> QED
    BY <1>5, <2>1 DEF R!Present, R!TypeOK, R!fileVars
<1>6. CASE R!Stat
  <2>1. step' = "read" /\ up' \in BOOLEAN
    BY <1>6, StepsInOrder, Zenon DEF R!Stat, R!Advance, R!TypeOK
  <2> QED
    BY <1>6, <2>1 DEF R!Stat, R!TypeOK, R!fileVars
<1>7. CASE R!Read
  <2>1. step' = "idle" /\ up' = TRUE /\ loaded' = TRUE /\ tied' = FALSE
    BY <1>7, StepsInOrder DEF R!Read, R!Advance
  <2>2. \E D \in SUBSET Devices : keys' \in [D -> 0 .. MaxEdits]
    BY <1>7, MergedTyped DEF R!Read, R!TypeOK
  <2>3. UNCHANGED <<now, file, filetime, edits, history, mtime, quiet>>
    BY <1>7 DEF R!Read, R!fileVars
  <2> QED
    BY <2>1, <2>2, <2>3 DEF R!TypeOK
<1>8. CASE R!KeepKeys
  <2>1. step' = "idle" /\ up' = TRUE /\ tied' \in BOOLEAN
    BY <1>8, Zenon DEF R!KeepKeys, R!Advance, R!TypeOK
  <2> QED
    BY <1>8, <2>1 DEF R!KeepKeys, R!TypeOK, R!fileVars
<1>9. CASE R!Raise
  <2>1. step' \in {"idle", "exists"} /\ tied' = FALSE /\ mtime' \in {mtime, R!Never}
    BY <1>9 DEF R!Raise, R!Advance
  <2>2. up' \in BOOLEAN
    BY <1>9, Zenon DEF R!Raise, R!Advance, R!TypeOK
  <2> QED
    BY <1>9, <2>1, <2>2 DEF R!Raise, R!TypeOK, R!fileVars
<1>10. CASE UNCHANGED R!vars
  BY <1>10 DEF R!vars, R!TypeOK, R!fileVars, R!cacheVars
<1> QED
  BY <1>1, <1>2, <1>3, <1>4, <1>5, <1>6, <1>7, <1>8, <1>9, <1>10 DEF R!Next, R!Reload

(* Types, of both objects.                                                 *)
THEOREM AuthTypes == AuthSpec => []AuthTypeOK
<1>1. R!Init => R!TypeOK
  <2> SUFFICES ASSUME R!Init PROVE R!TypeOK
    OBVIOUS
  <2> USE KeysAssumption DEF R!RegistryAssumption
  <2>1. file \in R!Contents
    BY InContents DEF R!Init
  <2>2. \E D \in SUBSET Devices : keys \in [D -> 0 .. MaxEdits]
    <3>1. keys \in [{} -> 0 .. MaxEdits]
      BY DEF R!Init, R!NoKeys
    <3> QED
      BY <3>1
  <2>3. history \subseteq R!Contents /\ edits \in 0 .. MaxEdits
    BY <2>1 DEF R!Init
  <2> QED
    BY <2>1, <2>2, <2>3 DEF R!Init, R!TypeOK
<1>2. R!Spec => []R!TypeOK
  BY <1>1, RegistryTypes, PTL DEF R!Spec
<1> QED
  BY <1>2, LimiterUndisturbed, RegistryUndisturbed, TypeCorrect, PTL DEF AuthTypeOK
=============================================================================
