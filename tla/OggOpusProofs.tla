---------------------------- MODULE OggOpusProofs ----------------------------
(***************************************************************************)
(* Proofs about the Ogg Opus writer, for packets of every length and any   *)
(* number of them, and every size of a segment and of a page's table.      *)
(***************************************************************************)
EXTENDS OggOpus, WellFoundedInduction, TLAPS

-----------------------------------------------------------------------------
(* Induction and recursion over numbers. *)

(* A set of numbers has a least one. *)
LEMMA Least ==
    ASSUME NEW T \in SUBSET Nat, T # {}
    PROVE  \E x \in T : \A y \in T : x <= y
<1> DEFINE R == {ss \in Nat \X Nat : ss[1] < ss[2]}
<1>1. IsWellFoundedOn(R, Nat)
  BY NatLessThanWellFounded DEF OpToRel
<1>2. \E x \in T : \A y \in T : ~ (<<y, x>> \in R)
  <2> HIDE DEF R
  <2> QED
    BY <1>1, WFMin DEF R
<1>3. PICK x \in T : \A y \in T : ~ (<<y, x>> \in R)
  BY <1>2
<1>4. ASSUME NEW y \in T PROVE x <= y
  <2>1. ~(y < x)
    BY <1>3
  <2>2. x \in Nat /\ y \in Nat
    OBVIOUS
  <2> QED
    BY <2>1, <2>2
<1> QED
  BY <1>4

(* A set with 0 that has n + 1 with every n below m has all numbers to m.  *)
LEMMA UpTo ==
    ASSUME NEW m \in Nat, NEW S, 0 \in S, \A n \in 0 .. m - 1 : n \in S => n + 1 \in S
    PROVE  0 .. m \subseteq S
<1> SUFFICES ASSUME (0 .. m) \ S # {} PROVE FALSE
  OBVIOUS
<1>1. PICK x \in (0 .. m) \ S : \A y \in (0 .. m) \ S : x <= y
  <2>1. (0 .. m) \ S \in SUBSET Nat
    OBVIOUS
  <2> QED
    BY <2>1, Least
<1>2. x # 0 /\ x - 1 \in 0 .. m - 1 /\ (x - 1) + 1 = x
  BY <1>1
<1>3. x - 1 \in S
  BY <1>1, <1>2
<1> QED
  BY <1>1, <1>2, <1>3

(* A recursive function over 0 .. m, by its steps, exists. *)
Steps(m, V, step) == step \in [(1 .. m) \X V -> V]

Recursive(m, V, base, step, f) ==
    /\ f \in [0 .. m -> V]
    /\ f[0] = base
    /\ \A i \in 1 .. m : f[i] = step[<<i, f[i - 1]>>]

LEMMA Recursion ==
    ASSUME NEW m \in Nat, NEW V, NEW base \in V, NEW step, Steps(m, V, step)
    PROVE  \E f : Recursive(m, V, base, step, f)
<1> USE DEF Steps
<1> DEFINE Good(n, f) == /\ f \in [0 .. n -> V]
                         /\ f[0] = base
                         /\ \A i \in 1 .. n : f[i] = step[<<i, f[i - 1]>>]
           S == {n \in 0 .. m : \E f : Good(n, f)}
<1>1. 0 \in S
  <2> DEFINE f == [i \in 0 .. 0 |-> base]
  <2>1. f \in [0 .. 0 -> V] /\ f[0] = base
    OBVIOUS
  <2>2. Good(0, f)
    BY <2>1
  <2>3. 0 \in 0 .. m
    OBVIOUS
  <2> HIDE DEF Good
  <2> QED
    BY <2>2, <2>3
<1>2. ASSUME NEW n \in 0 .. m - 1, n \in S PROVE n + 1 \in S
  <2>1. PICK f : Good(n, f)
    BY <1>2
  <2> DEFINE v == step[<<n + 1, f[n]>>]
             g == [i \in 0 .. n + 1 |-> IF i = n + 1 THEN v ELSE f[i]]
  <2>2. f[n] \in V /\ v \in V
    BY <2>1
  <2>3. \A i \in 0 .. n : g[i] = f[i]
    OBVIOUS
  <2>4. g[n + 1] = v
    OBVIOUS
  <2>5. g \in [0 .. n + 1 -> V]
    BY <2>1, <2>2
  <2> HIDE DEF g
  <2>6. \A i \in 1 .. n + 1 : g[i] = step[<<i, g[i - 1]>>]
    <3> SUFFICES ASSUME NEW i \in 1 .. n + 1 PROVE g[i] = step[<<i, g[i - 1]>>]
      OBVIOUS
    <3>1. CASE i = n + 1
      BY <2>3, <2>4, <3>1
    <3>2. CASE i \in 1 .. n
      <4>1. i - 1 \in 0 .. n
        BY <3>2
      <4> QED
        BY <2>1, <2>3, <3>2, <4>1
    <3> QED
      BY <3>1, <3>2
  <2>7. Good(n + 1, g)
    BY <2>1, <2>3, <2>5, <2>6
  <2> HIDE DEF Good
  <2> QED
    BY <2>7
<1>3. m \in S
  <2> HIDE DEF S
  <2>1. 0 .. m \subseteq S
    BY <1>1, <1>2, UpTo
  <2> QED
    BY <2>1
<1>4. PICK f : Good(m, f)
  BY <1>3
<1> QED
  BY <1>4 DEF Recursive

-----------------------------------------------------------------------------
(* Sequences joined. *)

Joins(ps) ==
    LET join[i \in 0 .. Len(ps)] == IF i = 0 THEN <<>> ELSE join[i - 1] \o ps[i]
    IN  join

LEMMA JoinsFacts ==
    ASSUME NEW X, NEW ps \in Seq(Seq(X))
    PROVE  /\ Joined(ps) = Joins(ps)[Len(ps)]
           /\ Joins(ps)[0] = <<>>
           /\ \A i \in 1 .. Len(ps) : Joins(ps)[i] = Joins(ps)[i - 1] \o ps[i]
           /\ \A i \in 0 .. Len(ps) : Joins(ps)[i] \in Seq(X)
<1> DEFINE m == Len(ps)
           V == Seq(X)
           step == [x \in (1 .. m) \X V |-> x[2] \o ps[x[1]]]
           Good(f) == f = [i \in 0 .. m |-> IF i = 0 THEN <<>> ELSE f[i - 1] \o ps[i]]
<1>1. /\ m \in Nat /\ \A i \in 1 .. m : ps[i] \in V
      /\ <<>> \in V /\ \A v, w \in V : v \o w \in V
  OBVIOUS
<1>2. Joins(ps) = CHOOSE f : Good(f)
  BY DEF Joins
<1>3. Joined(ps) = Joins(ps)[m]
  BY DEF Joined, Joins
<1> HIDE DEF m, V
<1>4. step \in [(1 .. m) \X V -> V]
  <2>1. \A x \in (1 .. m) \X V : x[2] \o ps[x[1]] \in V
    BY <1>1
  <2> QED
    BY <2>1
<1>5. \E f : Good(f)
  <2> HIDE DEF step
  <2>1. PICK f : Recursive(m, V, <<>>, step, f)
    BY <1>1, <1>4, Recursion DEF Steps
  <2>5. /\ f \in [0 .. m -> V]
        /\ f[0] = <<>>
        /\ \A i \in 1 .. m : f[i] = step[<<i, f[i - 1]>>]
    BY <2>1 DEF Recursive
  <2>2. ASSUME NEW i \in 1 .. m PROVE f[i] = f[i - 1] \o ps[i]
    <3>1. i - 1 \in 0 .. m
      BY <1>1
    <3>2. f[i - 1] \in V
      BY <2>5, <3>1
    <3>3. step[<<i, f[i - 1]>>] = f[i - 1] \o ps[i]
      BY <3>2 DEF step
    <3> QED
      BY <2>5, <3>3
  <2>3. ASSUME NEW i \in 0 .. m PROVE f[i] = IF i = 0 THEN <<>> ELSE f[i - 1] \o ps[i]
    <3>1. CASE i = 0
      BY <2>5, <3>1
    <3>2. CASE i # 0
      <4>1. i \in 1 .. m
        BY <1>1, <3>2
      <4> QED
        BY <2>2, <3>2, <4>1
    <3> QED
      BY <3>1, <3>2
  <2>4. Good(f)
    BY <2>3, <2>5
  <2> HIDE DEF Good
  <2> QED
    BY <2>4
<1>6. Good(Joins(ps))
  <2> HIDE DEF Good
  <2> QED
    BY <1>2, <1>5
<1> DEFINE J == Joins(ps)
<1>7. \A i \in 0 .. m : J[i] = IF i = 0 THEN <<>> ELSE J[i - 1] \o ps[i]
  <2> HIDE DEF J
  <2>1. J = [i \in 0 .. m |-> IF i = 0 THEN <<>> ELSE J[i - 1] \o ps[i]]
    BY <1>6 DEF J
  <2> QED
    BY <2>1
<1> HIDE DEF J, Good
<1>8. J[0] = <<>>
  BY <1>1, <1>7
<1>9. ASSUME NEW i \in 1 .. m PROVE J[i] = J[i - 1] \o ps[i]
  <2>1. i \in 0 .. m /\ i # 0
    BY <1>1
  <2> QED
    BY <1>7, <2>1
<1>10. \A i \in 0 .. m : J[i] \in V
  <2> DEFINE S == {i \in 0 .. m : J[i] \in V}
  <2>1. 0 \in S
    BY <1>1, <1>8
  <2>2. ASSUME NEW n \in 0 .. m - 1, n \in S PROVE n + 1 \in S
    <3>1. n + 1 \in 1 .. m /\ n + 1 \in 0 .. m /\ (n + 1) - 1 = n
      BY <1>1
    <3>2. J[n + 1] = J[n] \o ps[n + 1]
      BY <1>9, <3>1
    <3>3. J[n] \in V /\ ps[n + 1] \in V
      BY <1>1, <2>2, <3>1
    <3> QED
      BY <1>1, <3>1, <3>2, <3>3
  <2> HIDE DEF S
  <2>3. 0 .. m \subseteq S
    BY <1>1, <2>1, <2>2, UpTo
  <2> QED
    BY <2>3 DEF S
<1> QED
  BY <1>3, <1>8, <1>9, <1>10 DEF J, m, V

LEMMA JoinedEmpty == Joined(<<>>) = <<>>
<1>1. <<>> \in Seq(Seq({})) /\ Len(<<>>) = 0
  OBVIOUS
<1> QED
  BY <1>1, JoinsFacts

(* One more is joined at the end. *)
LEMMA JoinedAppend ==
    ASSUME NEW X, NEW ps \in Seq(Seq(X)), NEW p \in Seq(X)
    PROVE  /\ Joined(ps) \in Seq(X)
           /\ Joined(Append(ps, p)) = Joined(ps) \o p
<1> DEFINE qs == Append(ps, p)
           m == Len(ps)
<1>1. /\ m \in Nat /\ qs \in Seq(Seq(X)) /\ Len(qs) = m + 1
      /\ \A i \in 1 .. m : qs[i] = ps[i]
      /\ qs[m + 1] = p
  OBVIOUS
<1>6. m = Len(ps)
  OBVIOUS
<1> HIDE DEF qs, m
<1>2. /\ Joined(ps) = Joins(ps)[m] /\ Joins(ps)[0] = <<>>
      /\ \A i \in 1 .. m : Joins(ps)[i] = Joins(ps)[i - 1] \o ps[i]
      /\ Joins(ps)[m] \in Seq(X)
  <2>1. m \in 0 .. m
    BY <1>1
  <2> QED
    BY <1>6, <2>1, JoinsFacts
<1>3. /\ Joined(qs) = Joins(qs)[m + 1] /\ Joins(qs)[0] = <<>>
      /\ \A i \in 1 .. m + 1 : Joins(qs)[i] = Joins(qs)[i - 1] \o qs[i]
  BY <1>1, JoinsFacts
<1>4. Joins(qs)[m] = Joins(ps)[m]
  <2> DEFINE S == {i \in 0 .. m : Joins(qs)[i] = Joins(ps)[i]}
  <2>1. 0 \in S
    BY <1>1, <1>2, <1>3
  <2>2. ASSUME NEW n \in 0 .. m - 1, n \in S PROVE n + 1 \in S
    <3>1. n + 1 \in 1 .. m /\ n + 1 \in 1 .. m + 1 /\ (n + 1) - 1 = n /\ n + 1 \in 0 .. m
      BY <1>1
    <3>2. Joins(qs)[n + 1] = Joins(qs)[n] \o qs[n + 1]
      BY <1>3, <3>1
    <3>3. Joins(ps)[n + 1] = Joins(ps)[n] \o ps[n + 1]
      BY <1>2, <3>1
    <3> QED
      BY <1>1, <2>2, <3>1, <3>2, <3>3
  <2> HIDE DEF S
  <2>3. 0 .. m \subseteq S
    BY <1>1, <2>1, <2>2, UpTo
  <2> QED
    BY <1>1, <2>3 DEF S
<1>5. (m + 1) - 1 = m /\ m + 1 \in 1 .. m + 1
  BY <1>1
<1> QED
  BY <1>1, <1>2, <1>3, <1>4, <1>5 DEF qs

-----------------------------------------------------------------------------
(* The reader of a page. *)

Readings(table, payload) ==
    LET read[i \in 0 .. Len(table)] ==
          IF i = 0 THEN Unread ELSE Cut(read[i - 1], table[i], payload)
    IN  read

(* Its reading, segment by segment.                                        *)
LEMMA ReadingFacts ==
    ASSUME NEW table, NEW payload, Len(table) \in Nat
    PROVE  /\ Reading(table, payload) = Readings(table, payload)[Len(table)]
           /\ Readings(table, payload)[0] = Unread
           /\ \A i \in 1 .. Len(table) :
                 Readings(table, payload)[i] =
                     Cut(Readings(table, payload)[i - 1], table[i], payload)
<1> DEFINE m == Len(table)
           Good(n, f) == f = [i \in 0 .. n |->
                                IF i = 0 THEN Unread ELSE Cut(f[i - 1], table[i], payload)]
           S == {n \in 0 .. m : \E f : Good(n, f)}
           R == Readings(table, payload)
<1>1. R = CHOOSE f : Good(m, f)
  BY DEF Readings
<1>2. Reading(table, payload) = R[m]
  BY DEF Reading, Readings
<1>3. m \in Nat
  OBVIOUS
<1> HIDE DEF m, R
<1>4. 0 \in S
  <2> DEFINE f == [i \in 0 .. 0 |-> Unread]
  <2>1. f = [i \in 0 .. 0 |-> IF i = 0 THEN Unread ELSE Cut(f[i - 1], table[i], payload)]
    <3> HIDE DEF Cut, Unread
    <3>1. \A i \in 0 .. 0 : i = 0
      OBVIOUS
    <3> QED
      BY <3>1
  <2>2. Good(0, f) /\ 0 \in 0 .. m
    BY <1>3, <2>1
  <2> HIDE DEF Good
  <2> QED
    BY <2>2
<1>5. ASSUME NEW n \in 0 .. m - 1, n \in S PROVE n + 1 \in S
  <2>1. PICK f : Good(n, f)
    BY <1>5
  <2> DEFINE g == [i \in 0 .. n + 1 |->
                     IF i = n + 1 THEN Cut(f[n], table[n + 1], payload) ELSE f[i]]
  <2>2. ASSUME NEW i \in 0 .. n + 1
        PROVE  g[i] = IF i = 0 THEN Unread ELSE Cut(g[i - 1], table[i], payload)
    <3>1. CASE i = n + 1
      <4>1. i - 1 = n /\ n \in 0 .. n + 1 /\ n # n + 1 /\ i # 0 /\ i \in 0 .. n + 1
        BY <1>3, <3>1
      <4>2. g[n] = f[n]
        BY <4>1
      <4>3. g[i] = Cut(f[n], table[n + 1], payload)
        BY <3>1
      <4> HIDE DEF g, Good, Cut
      <4> QED
        BY <3>1, <4>1, <4>2, <4>3
    <3>2. CASE i \in 1 .. n
      <4>1. i - 1 \in 0 .. n + 1 /\ i - 1 # n + 1 /\ i # n + 1 /\ i \in 0 .. n /\ i # 0
        BY <1>3, <3>2
      <4>2. g[i] = f[i] /\ g[i - 1] = f[i - 1]
        BY <4>1
      <4>3. f[i] = IF i = 0 THEN Unread ELSE Cut(f[i - 1], table[i], payload)
        <5> HIDE DEF Cut, Unread, g
        <5> QED
          BY <2>1, <4>1
      <4> HIDE DEF g, Good, Cut
      <4> QED
        BY <4>1, <4>2, <4>3
    <3>3. CASE i = 0
      <4>1. i # n + 1 /\ i \in 0 .. n
        BY <1>3, <3>3
      <4>2. g[i] = f[i]
        BY <4>1
      <4>3. f[i] = Unread
        <5> HIDE DEF Cut, Unread, g
        <5> QED
          BY <2>1, <3>3, <4>1
      <4> HIDE DEF g, Good, Cut
      <4> QED
        BY <3>3, <4>2, <4>3
    <3> QED
      BY <1>3, <3>1, <3>2, <3>3
  <2>3. g = [i \in 0 .. n + 1 |-> g[i]]
    OBVIOUS
  <2>4. Good(n + 1, g)
    <3> HIDE DEF g, Cut, Unread
    <3> QED
      BY <2>2, <2>3
  <2> HIDE DEF Good
  <2> QED
    BY <1>3, <2>4
<1>6. Good(m, R)
  <2> HIDE DEF S
  <2>1. 0 .. m \subseteq S
    BY <1>3, <1>4, <1>5, UpTo
  <2>2. m \in S
    BY <1>3, <2>1
  <2> USE DEF S
  <2> HIDE DEF Good
  <2> QED
    BY <1>1, <2>2
<1>7. \A i \in 0 .. m : R[i] = IF i = 0 THEN Unread ELSE Cut(R[i - 1], table[i], payload)
  <2> HIDE DEF Cut, Unread
  <2> QED
    BY <1>6
<1> HIDE DEF Good
<1>8. R[0] = Unread
  BY <1>3, <1>7
<1>9. ASSUME NEW i \in 1 .. m PROVE R[i] = Cut(R[i - 1], table[i], payload)
  <2>1. i \in 0 .. m /\ i # 0
    BY <1>3
  <2> HIDE DEF Cut
  <2> QED
    BY <1>7, <2>1
<1> HIDE DEF Cut
<1> QED
  BY <1>2, <1>8, <1>9 DEF R, m

(* A table that goes on is read alike as far as the shorter one.           *)
LEMMA ReadingPrefix ==
    ASSUME NEW t, NEW u, NEW payload, Len(t) \in Nat, Len(u) \in Nat, Len(t) <= Len(u),
           \A i \in 1 .. Len(t) : u[i] = t[i]
    PROVE  Readings(u, payload)[Len(t)] = Reading(t, payload)
<1> DEFINE m == Len(t)
           R == Readings(t, payload)
           Q == Readings(u, payload)
           S == {i \in 0 .. m : Q[i] = R[i]}
<1>1. /\ Reading(t, payload) = R[m] /\ R[0] = Unread
      /\ \A i \in 1 .. m : R[i] = Cut(R[i - 1], t[i], payload)
  BY ReadingFacts
<1>2. /\ Q[0] = Unread
      /\ \A i \in 1 .. Len(u) : Q[i] = Cut(Q[i - 1], u[i], payload)
  BY ReadingFacts
<1>3. m \in Nat /\ Len(u) \in Nat /\ m <= Len(u) /\ \A i \in 1 .. m : u[i] = t[i]
  OBVIOUS
<1> HIDE DEF m, R, Q
<1>4. 0 \in S
  BY <1>1, <1>2, <1>3
<1>5. ASSUME NEW i \in 0 .. m - 1, i \in S PROVE i + 1 \in S
  <2>1. i + 1 \in 1 .. m /\ i + 1 \in 1 .. Len(u) /\ (i + 1) - 1 = i /\ i + 1 \in 0 .. m
    BY <1>3
  <2>2. R[i + 1] = Cut(R[i], t[i + 1], payload)
    BY <1>1, <2>1
  <2>3. Q[i + 1] = Cut(Q[i], u[i + 1], payload)
    BY <1>2, <2>1
  <2> HIDE DEF Cut
  <2> QED
    BY <1>3, <1>5, <2>1, <2>2, <2>3
<1> HIDE DEF S
<1>6. m \in S
  <2>1. 0 .. m \subseteq S
    BY <1>3, <1>4, <1>5, UpTo
  <2> QED
    BY <1>3, <2>1
<1> QED
  BY <1>1, <1>6 DEF S, m, Q

-----------------------------------------------------------------------------
LEMMA Division ==
    ASSUME NEW n \in Nat, NEW l \in Nat \ {0}
    PROVE  /\ n \div l \in Nat /\ n % l \in 0 .. l - 1
           /\ l * (n \div l) <= n /\ n % l = n - l * (n \div l)
<1>1. n \div l \in Nat
  OBVIOUS
<1>2. n % l \in 0 .. l - 1
  OBVIOUS
<1>3. l * (n \div l) <= n
  OBVIOUS
<1>4. n % l = n - l * (n \div l)
  OBVIOUS
<1> QED
  BY <1>1, <1>2, <1>3, <1>4

(* The segments of a packet: full ones, and a smaller one. *)
LEMMA LaceFacts ==
    ASSUME NEW n \in Nat
    PROVE  \E k \in Nat :
              /\ k * LaceMax <= n /\ n - k * LaceMax \in 0 .. LaceMax - 1
              /\ Lace(n) \in Seq(0 .. LaceMax)
              /\ Len(Lace(n)) = k + 1
              /\ \A i \in 1 .. k : Lace(n)[i] = LaceMax
              /\ Lace(n)[k + 1] = n - k * LaceMax
<1> DEFINE k == n \div LaceMax
<1>1. /\ k \in Nat /\ n % LaceMax \in 0 .. LaceMax - 1
      /\ LaceMax * k <= n /\ n % LaceMax = n - LaceMax * k
  BY OggOpusAssumption, Division
<1>2. Lace(n) = [i \in 1 .. k + 1 |-> IF i <= k THEN LaceMax ELSE n % LaceMax]
  BY DEF Lace
<1> HIDE DEF k
<1> USE OggOpusAssumption
<1>3. k * LaceMax = LaceMax * k
  BY <1>1
<1>4. k * LaceMax <= n /\ n - k * LaceMax = n % LaceMax
  BY <1>1, <1>3
<1>5. \A i \in 1 .. k + 1 : IF i <= k THEN LaceMax \in 0 .. LaceMax ELSE n % LaceMax \in 0 .. LaceMax
  BY <1>1
<1>6. Lace(n) \in Seq(0 .. LaceMax) /\ Len(Lace(n)) = k + 1
  BY <1>1, <1>2, <1>5
<1>7. \A i \in 1 .. k : Lace(n)[i] = LaceMax
  BY <1>1, <1>2
<1>8. Lace(n)[k + 1] = n % LaceMax
  BY <1>1, <1>2
<1> QED
  BY <1>1, <1>4, <1>6, <1>7, <1>8

(* The bytes f + 1 to g of packet p are where the reader looks for them.   *)
Inside(payload, s, p, f, g) ==
    /\ SubSeq(payload, s + f + 1, s + g) = SubSeq(p, f + 1, g)
    /\ SubSeq(p, 1, f) \o SubSeq(p, f + 1, g) = SubSeq(p, 1, g)

LEMMA Concatenated ==
    ASSUME NEW X, NEW a \in Seq(X), NEW b \in Seq(X)
    PROVE  /\ a \o b \in Seq(X) /\ Len(a \o b) = Len(a) + Len(b)
           /\ \A i \in 1 .. Len(a) : (a \o b)[i] = a[i]
           /\ \A i \in 1 .. Len(b) : (a \o b)[Len(a) + i] = b[i]
OBVIOUS

(* The part of bytes before, then p, then q, which is of p.                *)
LEMMA PartOfPacket ==
    ASSUME NEW X, NEW b \in Seq(X), NEW p \in Seq(X), NEW q \in Seq(X),
           NEW f \in Nat, NEW g \in Nat, f <= g, g <= Len(p)
    PROVE  Inside((b \o p) \o q, Len(b), p, f, g)
<1> DEFINE w == (b \o p) \o q
<1>1. /\ Len(b) \in Nat /\ Len(p) \in Nat /\ w \in Seq(X) /\ Len(p) + Len(b) <= Len(w)
      /\ \A i \in 1 .. Len(p) : w[Len(b) + i] = p[i]
  OBVIOUS
<1> HIDE DEF w
<1>2. SubSeq(w, Len(b) + f + 1, Len(b) + g) = SubSeq(p, f + 1, g)
  <2> DEFINE u == SubSeq(w, Len(b) + f + 1, Len(b) + g)
             v == SubSeq(p, f + 1, g)
  <2>1. u \in Seq(X) /\ Len(u) = g - f /\ \A i \in 1 .. g - f : u[i] = w[Len(b) + f + i]
    BY <1>1
  <2>2. v \in Seq(X) /\ Len(v) = g - f /\ \A i \in 1 .. g - f : v[i] = p[f + i]
    BY <1>1
  <2> HIDE DEF u, v
  <2>3. \A i \in 1 .. g - f : f + i \in 1 .. Len(p) /\ Len(b) + f + i = Len(b) + (f + i)
    BY <1>1
  <2>4. \A i \in 1 .. g - f : u[i] = v[i]
    BY <1>1, <2>1, <2>2, <2>3
  <2>5. u = v
    BY <2>1, <2>2, <2>4
  <2> QED
    BY <2>5 DEF u, v
<1>3. SubSeq(p, 1, f) \o SubSeq(p, f + 1, g) = SubSeq(p, 1, g)
  <2> DEFINE a == SubSeq(p, 1, f)
             v == SubSeq(p, f + 1, g)
             u == SubSeq(p, 1, g)
  <2>1. a \in Seq(X) /\ Len(a) = f /\ \A i \in 1 .. f : a[i] = p[i]
    BY <1>1
  <2>2. v \in Seq(X) /\ Len(v) = g - f /\ \A i \in 1 .. g - f : v[i] = p[f + i]
    BY <1>1
  <2>3. u \in Seq(X) /\ Len(u) = g /\ \A i \in 1 .. g : u[i] = p[i]
    BY <1>1
  <2> HIDE DEF a, u, v
  <2>4. /\ a \o v \in Seq(X) /\ Len(a \o v) = g
        /\ \A i \in 1 .. f : (a \o v)[i] = a[i]
        /\ \A i \in 1 .. g - f : (a \o v)[f + i] = v[i]
    <3>1. a \in Seq(X) /\ v \in Seq(X)
      BY <2>1, <2>2
    <3>2. /\ a \o v \in Seq(X) /\ Len(a \o v) = Len(a) + Len(v)
          /\ \A i \in 1 .. Len(a) : (a \o v)[i] = a[i]
          /\ \A i \in 1 .. Len(v) : (a \o v)[Len(a) + i] = v[i]
      BY <3>1, Concatenated
    <3>3. Len(a) = f /\ Len(v) = g - f /\ f + (g - f) = g
      BY <2>1, <2>2
    <3> QED
      BY <3>2, <3>3
  <2>5. ASSUME NEW i \in 1 .. g PROVE (a \o v)[i] = u[i]
    <3>1. CASE i \in 1 .. f
      BY <2>1, <2>3, <2>4, <3>1
    <3>2. CASE i \notin 1 .. f
      <4>1. i - f \in 1 .. g - f /\ f + (i - f) = i
        BY <3>2
      <4>2. (a \o v)[i] = v[i - f]
        BY <2>4, <4>1
      <4>3. v[i - f] = p[i]
        BY <2>2, <4>1
      <4>4. u[i] = p[i]
        BY <2>3
      <4> QED
        BY <4>2, <4>3, <4>4
    <3> QED
      BY <3>1, <3>2
  <2>6. a \o v = u
    BY <2>3, <2>4, <2>5
  <2> QED
    BY <2>6 DEF a, u, v
<1> QED
  BY <1>2, <1>3 DEF w, Inside

LEMMA Multiples ==
    ASSUME NEW l \in Nat, NEW k \in Nat, NEW n \in Nat, k * l <= n, NEW i \in 0 .. k - 1
    PROVE  i * l \in Nat /\ (i + 1) * l = i * l + l /\ (i + 1) * l <= n
<1>1. i * l \in Nat /\ (k - i - 1) * l \in Nat
  OBVIOUS
<1>2. (i + 1) * l = i * l + l
  OBVIOUS
<1>3. k * l = (k - i - 1) * l + (i + 1) * l
  OBVIOUS
<1> QED
  BY <1>1, <1>2, <1>3

(* The reader r after n bytes, which were the packets ps. *)
AtEnd(r, n, ps) == r = [off |-> n, partial |-> <<>>, done |-> ps]

Complete(table, payload, n, ps) == AtEnd(Reading(table, payload), n, ps)

(* The reader r, f bytes into packet p, which starts behind s bytes.       *)
Reader(r, s, p, f, ps) == r = [off |-> s + f, partial |-> SubSeq(p, 1, f), done |-> ps]

(* A full segment of a packet, and the smaller one that ends it.           *)
LEMMA CutFull ==
    ASSUME NEW payload, NEW ps, NEW p, NEW r, NEW s \in Nat, NEW f \in Nat, NEW g \in Nat,
           f + LaceMax = g, Reader(r, s, p, f, ps), Inside(payload, s, p, f, g)
    PROVE  Reader(Cut(r, LaceMax, payload), s, p, g, ps)
<1> USE OggOpusAssumption
<1>1. r.off = s + f /\ r.partial = SubSeq(p, 1, f) /\ r.done = ps
  BY DEF Reader
<1>2. r.off + LaceMax = s + g
  BY <1>1
<1>3. r.partial \o SubSeq(payload, r.off + 1, r.off + LaceMax) = SubSeq(p, 1, g)
  BY <1>1, <1>2 DEF Inside
<1>4. Cut(r, LaceMax, payload) =
          [off |-> r.off + LaceMax, partial |-> SubSeq(p, 1, g), done |-> r.done]
  BY <1>3 DEF Cut
<1> QED
  BY <1>1, <1>2, <1>4 DEF Reader

LEMMA CutLast ==
    ASSUME NEW payload, NEW ps, NEW p, NEW r, NEW s \in Nat, NEW f \in Nat, NEW g \in Nat,
           NEW size \in Nat, size # LaceMax, f + size = g,
           Reader(r, s, p, f, ps), Inside(payload, s, p, f, g)
    PROVE  AtEnd(Cut(r, size, payload), s + g, Append(ps, SubSeq(p, 1, g)))
<1>1. r.off = s + f /\ r.partial = SubSeq(p, 1, f) /\ r.done = ps
  BY DEF Reader
<1>2. r.off + size = s + g
  BY <1>1
<1>3. r.partial \o SubSeq(payload, r.off + 1, r.off + size) = SubSeq(p, 1, g)
  BY <1>1, <1>2 DEF Inside
<1>4. Cut(r, size, payload) =
          [off |-> r.off + size, partial |-> <<>>, done |-> Append(r.done, SubSeq(p, 1, g))]
  BY <1>3 DEF Cut
<1> QED
  BY <1>1, <1>2, <1>4 DEF AtEnd

(* The segments of a packet yield it, whatever comes behind.               *)
LEMMA ReadingNext ==
    ASSUME NEW X, NEW b \in Seq(X), NEW p \in Seq(X), NEW q \in Seq(X),
           NEW table \in Seq(0 .. LaceMax), NEW done,
           Complete(table, (b \o p) \o q, Len(b), done)
    PROVE  Complete(table \o Lace(Len(p)), (b \o p) \o q, Len(b) + Len(p), Append(done, p))
<1> DEFINE w == (b \o p) \o q
           n == Len(p)
           lace == Lace(n)
           u == table \o lace
           m == Len(table)
           Q == Readings(u, w)
           start == Len(b)
<1>1. /\ n \in Nat /\ m \in Nat /\ start \in Nat
      /\ n = Len(p) /\ start = Len(b)
  OBVIOUS
<1>0. Reading(table, w) = [off |-> start, partial |-> <<>>, done |-> done]
  BY DEF Complete, AtEnd
<1>2. PICK k \in Nat :
              /\ k * LaceMax <= n /\ n - k * LaceMax \in 0 .. LaceMax - 1
              /\ lace \in Seq(0 .. LaceMax)
              /\ Len(lace) = k + 1
              /\ \A i \in 1 .. k : lace[i] = LaceMax
              /\ lace[k + 1] = n - k * LaceMax
  BY <1>1, LaceFacts
<1>3. /\ Len(u) = m + (k + 1)
      /\ \A i \in 1 .. m : u[i] = table[i]
      /\ \A i \in 1 .. k + 1 : u[m + i] = lace[i]
  <2> HIDE DEF lace
  <2>2. lace \in Seq(0 .. LaceMax)
    BY <1>2
  <2>1. /\ Len(u) = Len(table) + Len(lace)
        /\ \A i \in 1 .. Len(table) : u[i] = table[i]
        /\ \A i \in 1 .. Len(lace) : u[Len(table) + i] = lace[i]
    BY <2>2, Concatenated
  <2> QED
    BY <1>2, <2>1
<1> HIDE DEF w, n, lace, m, start
<1>4. Q[m] = [off |-> start, partial |-> <<>>, done |-> done]
  <2>1. Q[m] = Reading(table, w)
    <3> HIDE DEF u
    <3>1. Len(u) \in Nat /\ Len(table) \in Nat /\ Len(table) <= Len(u)
      BY <1>1, <1>3 DEF m
    <3>2. \A i \in 1 .. Len(table) : u[i] = table[i]
      BY <1>3 DEF m
    <3> QED
      BY <3>1, <3>2, ReadingPrefix DEF m
  <2> QED
    BY <1>0, <2>1
<1>5. \A i \in 1 .. Len(u) : Q[i] = Cut(Q[i - 1], u[i], w)
  <2> HIDE DEF u
  <2>1. Len(u) \in Nat
    BY <1>1, <1>3
  <2> QED
    BY <2>1, ReadingFacts
<1>11. Reading(u, w) = Q[Len(u)]
  <2> HIDE DEF u
  <2>1. Len(u) \in Nat
    BY <1>1, <1>3
  <2> QED
    BY <2>1, ReadingFacts
<1> HIDE DEF u, Q
<1> USE OggOpusAssumption
<1> DEFINE S == {i \in 0 .. k : Reader(Q[m + i], start, p, i * LaceMax, done)}
<1>6. 0 \in S
  <2>1. 0 * LaceMax = 0 /\ start + 0 = start /\ m + 0 = m /\ 0 \in 0 .. k
    BY <1>1, <1>2
  <2>2. SubSeq(p, 1, 0) = <<>>
    OBVIOUS
  <2> QED
    BY <1>4, <2>1, <2>2 DEF Reader
<1>7. ASSUME NEW i \in 0 .. k - 1, i \in S PROVE i + 1 \in S
  <2> DEFINE f == i * LaceMax
             g == (i + 1) * LaceMax
  <2>1. f \in Nat /\ g = f + LaceMax /\ g <= n /\ g \in Nat /\ f <= g
    <3>1. i * LaceMax \in Nat /\ (i + 1) * LaceMax = i * LaceMax + LaceMax
          /\ (i + 1) * LaceMax <= n
      BY <1>1, <1>2, Multiples
    <3> QED
      BY <3>1
  <2>2. Reader(Q[m + i], start, p, f, done)
    BY <1>7
  <2>3. Reader(Q[m + (i + 1)], start, p, g, done) /\ i + 1 \in 0 .. k => i + 1 \in S
    OBVIOUS
  <2> HIDE DEF f, g, S
  <2>4. /\ m + (i + 1) \in 1 .. Len(u) /\ (m + (i + 1)) - 1 = m + i
        /\ i + 1 \in 1 .. k + 1 /\ i + 1 \in 1 .. k /\ i + 1 \in 0 .. k
    BY <1>1, <1>2, <1>3
  <2>5. u[m + (i + 1)] = LaceMax
    BY <1>2, <1>3, <2>4
  <2>6. Q[m + (i + 1)] = Cut(Q[m + i], LaceMax, w)
    BY <1>5, <2>4, <2>5
  <2>7. Inside(w, start, p, f, g)
    BY <1>1, <2>1, PartOfPacket DEF w, start, n
  <2>8. Reader(Cut(Q[m + i], LaceMax, w), start, p, g, done)
    BY <1>1, <2>1, <2>2, <2>7, CutFull
  <2> QED
    BY <2>3, <2>4, <2>6, <2>8
<1>8. Reader(Q[m + k], start, p, k * LaceMax, done)
  <2> HIDE DEF S
  <2>1. 0 .. k \subseteq S
    BY <1>2, <1>6, <1>7, UpTo
  <2>2. k \in S
    BY <1>2, <2>1
  <2> QED
    BY <2>2 DEF S
<1>9. Q[m + (k + 1)] = Cut(Q[m + k], n - k * LaceMax, w)
  <2>1. m + (k + 1) \in 1 .. Len(u) /\ (m + (k + 1)) - 1 = m + k /\ k + 1 \in 1 .. k + 1
    BY <1>1, <1>2, <1>3
  <2>2. u[m + (k + 1)] = n - k * LaceMax
    BY <1>2, <1>3, <2>1
  <2> QED
    BY <1>5, <2>1, <2>2
<1>10. AtEnd(Cut(Q[m + k], n - k * LaceMax, w), start + n, Append(done, p))
  <2> DEFINE f == k * LaceMax
  <2>1. f \in Nat /\ f <= n /\ n - f \in Nat /\ n - f # LaceMax /\ f + (n - f) = n
    <3>1. k * LaceMax \in Nat
      BY <1>2
    <3> QED
      BY <1>1, <1>2, <3>1
  <2>2. Reader(Q[m + k], start, p, f, done)
    BY <1>8
  <2> DEFINE z == n - f
  <2>6. z \in Nat /\ z # LaceMax /\ f + z = n
    BY <2>1
  <2> HIDE DEF f, z
  <2>3. Inside(w, start, p, f, n)
    <3>1. f <= n /\ n <= Len(p) /\ f \in Nat /\ n \in Nat
      BY <1>1, <2>1
    <3> QED
      BY <3>1, PartOfPacket DEF w, start
  <2>4. SubSeq(p, 1, n) = p
    BY <1>1
  <2>5. AtEnd(Cut(Q[m + k], z, w), start + n, Append(done, SubSeq(p, 1, n)))
    <3>1. start \in Nat /\ f \in Nat /\ n \in Nat
      BY <1>1, <2>1
    <3> QED
      BY <2>2, <2>3, <2>6, <3>1, CutLast
  <2> QED
    BY <2>4, <2>5 DEF f, z
<1> QED
  BY <1>1, <1>3, <1>9, <1>10, <1>11 DEF Complete, u, w, lace, n, start

(* A page of one packet. *)
LEMMA LaceReads ==
    ASSUME NEW X, NEW p \in Seq(X)
    PROVE  Complete(Lace(Len(p)), p, Len(p), <<p>>)
<1>1. <<>> \in Seq(X) /\ <<>> \in Seq(0 .. LaceMax)
  OBVIOUS
<1>2. (<<>> \o p) \o <<>> = p
  OBVIOUS
<1>3. Complete(<<>>, p, 0, <<>>)
  <2>1. Len(<<>>) = 0
    OBVIOUS
  <2>2. Reading(<<>>, p) = Unread
    BY <2>1, ReadingFacts
  <2> QED
    BY <2>2 DEF Complete, AtEnd, Unread
<1>4. Complete(<<>>, (<<>> \o p) \o <<>>, Len(<<>>), <<>>)
  BY <1>2, <1>3
<1>5. Complete(<<>> \o Lace(Len(p)), (<<>> \o p) \o <<>>, Len(<<>>) + Len(p), Append(<<>>, p))
  BY <1>1, <1>4, ReadingNext
<1>6. Lace(Len(p)) \in Seq(0 .. LaceMax)
  BY LaceFacts
<1>7. <<>> \o Lace(Len(p)) = Lace(Len(p)) /\ Len(<<>>) + Len(p) = Len(p) /\ Append(<<>>, p) = <<p>>
  BY <1>6
<1> QED
  BY <1>2, <1>5, <1>7

(* A packet shorter than a segment has one. *)
LEMMA LaceSmall ==
    ASSUME NEW n \in 0 .. LaceMax - 1
    PROVE  Lace(n) = <<n>>
<1> USE OggOpusAssumption
<1>1. n \in Nat /\ n < LaceMax /\ LaceMax \in Nat \ {0}
  OBVIOUS
<1>2. n \div LaceMax = 0
  BY <1>1
<1>3. n % LaceMax = n - LaceMax * 0
  BY <1>1, <1>2, Division
<1>4. n % LaceMax = n
  BY <1>1, <1>3
<1>5. Lace(n) = [i \in 1 .. 0 + 1 |-> IF i <= 0 THEN LaceMax ELSE n]
  BY <1>2, <1>4 DEF Lace
<1> QED
  BY <1>1, <1>5

-----------------------------------------------------------------------------
(* What is played. *)

PlayedOf(ps, k) == Joined([i \in 1 .. k - 2 |-> Demuxed(ps[i + 2])])

(* The first k pages decide what is played up to the k-th.                 *)
LEMMA PlayedPrefix ==
    ASSUME NEW ps, NEW qs, NEW k \in Nat, \A i \in 1 .. k : qs[i] = ps[i]
    PROVE  PlayedOf(qs, k) = PlayedOf(ps, k)
<1>1. \A i \in 1 .. k - 2 : qs[i + 2] = ps[i + 2]
  OBVIOUS
<1>2. [i \in 1 .. k - 2 |-> Demuxed(qs[i + 2])] = [i \in 1 .. k - 2 |-> Demuxed(ps[i + 2])]
  BY <1>1
<1> QED
  BY <1>2 DEF PlayedOf

LEMMA Appended ==
    ASSUME NEW X, NEW f \in Seq(X), NEW g \in Seq(X), NEW d \in X,
           Len(g) = Len(f) + 1, \A i \in 1 .. Len(f) : g[i] = f[i], g[Len(f) + 1] = d
    PROVE  g = Append(f, d)
<1>1. Append(f, d) \in Seq(X) /\ Len(Append(f, d)) = Len(f) + 1
  OBVIOUS
<1>2. ASSUME NEW i \in 1 .. Len(f) + 1 PROVE Append(f, d)[i] = g[i]
  <2>1. CASE i \in 1 .. Len(f)
    BY <2>1
  <2>2. CASE i = Len(f) + 1
    BY <2>2
  <2> QED
    BY <2>1, <2>2
<1> QED
  BY <1>1, <1>2

(* One more page is played at the end. *)
LEMMA PlayedNext ==
    ASSUME NEW X, NEW ps, NEW k \in Nat, k >= 2,
           \A i \in 3 .. k + 1 : Demuxed(ps[i]) \in Seq(X)
    PROVE  /\ PlayedOf(ps, k + 1) = PlayedOf(ps, k) \o Demuxed(ps[k + 1])
           /\ PlayedOf(ps, k) \in Seq(X)
<1> DEFINE f == [i \in 1 .. k - 2 |-> Demuxed(ps[i + 2])]
           g == [i \in 1 .. (k + 1) - 2 |-> Demuxed(ps[i + 2])]
           d == Demuxed(ps[k + 1])
<1>1. \A i \in 1 .. (k + 1) - 2 : i + 2 \in 3 .. k + 1
  OBVIOUS
<1>2. \A i \in 1 .. (k + 1) - 2 : Demuxed(ps[i + 2]) \in Seq(X)
  BY <1>1
<1>3. k - 2 \in Nat /\ (k + 1) - 2 = (k - 2) + 1 /\ (k - 2) + 1 + 2 = k + 1 /\ d \in Seq(X)
  <2>1. k + 1 \in 3 .. k + 1
    OBVIOUS
  <2> QED
    BY <2>1
<1> HIDE DEF d
<1>4. f \in Seq(Seq(X)) /\ Len(f) = k - 2
  BY <1>2, <1>3
<1>5. g \in Seq(Seq(X)) /\ Len(g) = (k - 2) + 1
  BY <1>2, <1>3
<1>6. \A i \in 1 .. k - 2 : g[i] = f[i]
  BY <1>3
<1>7. g[(k - 2) + 1] = d
  BY <1>3 DEF d
<1>8. PlayedOf(ps, k + 1) = Joined(g) /\ PlayedOf(ps, k) = Joined(f)
  BY DEF PlayedOf
<1> HIDE DEF f, g
<1>9. g = Append(f, d)
  <2>1. /\ Len(g) = Len(f) + 1
        /\ \A i \in 1 .. Len(f) : g[i] = f[i]
        /\ g[Len(f) + 1] = d
    BY <1>4, <1>5, <1>6, <1>7
  <2>2. f \in Seq(Seq(X)) /\ g \in Seq(Seq(X)) /\ d \in Seq(X)
    BY <1>3, <1>4, <1>5
  <2> QED
    BY ONLY <2>1, <2>2, Appended
<1> QED
  BY <1>3, <1>4, <1>8, <1>9, JoinedAppend DEF d

-----------------------------------------------------------------------------
(* The writer. *)

(* The page being built: its table yields its packets, whatever comes      *)
(* behind, and is too long only because of one packet.                     *)
Built ==
    /\ packets = <<>> <=> segments = <<>>
    /\ packets # <<>> => Joined(packets) # <<>>
    /\ \A q \in Seq(Bytes) :
          Complete(segments, Joined(packets) \o q, Len(Joined(packets)), packets)
    /\ Len(segments) > MaxSegments =>
          \E i \in DOMAIN added : Len(Lace(Len(added[i]))) > MaxSegments

(* The stream so far. *)
Streamed ==
    /\ granule = FrameSamples * Len(added)
    /\ status = "raised" => Len(segments) > MaxSegments
    /\ Len(pages) >= 2
    /\ \A k \in 3 .. Len(pages) : Demuxed(pages[k]) \in Seq(Seq(Bytes))
    /\ RoundTrip
    /\ GranuleExact

WriterInv == TypeOK /\ Built /\ Streamed /\ WellFormed

LEMMA PacketTyped ==
    ASSUME NEW i \in 0 .. MaxPackets, NEW n \in 0 .. MaxLen + HeadLen + TagsLen
    PROVE  Packet(i, n) \in Seq(Bytes) /\ Len(Packet(i, n)) = n
<1> USE OggOpusAssumption
<1>1. n \in Nat
  OBVIOUS
<1>2. \A j \in 1 .. n : <<i, j>> \in Bytes
  <2>1. \A j \in 1 .. n : j \in 1 .. MaxLen + HeadLen + TagsLen
    OBVIOUS
  <2> QED
    BY <2>1 DEF Bytes
<1> QED
  BY <1>1, <1>2 DEF Packet

(* A page that ends the page being built, or an empty one, is well formed  *)
(* and yields what was on it.                                              *)
Sound(page) ==
    /\ page \in PageType
    /\ Demuxed(page) = packets
    /\ Len(page.segments) \in 1 .. MaxSegments
    /\ AtEnd(Reading(page.segments, page.payload), Len(page.payload), Reading(page.segments, page.payload).done)
    /\ page.seqno = Len(pages)
    /\ page.granule = granule
    /\ "BOS" \notin page.flags

LEMMA BuiltSound ==
    ASSUME TypeOK, Built, Writable, packets # <<>>, NEW flags \in SUBSET {"EOS"}
    PROVE  Sound(BuiltPage(flags)) /\ BuiltPage(flags).flags = flags
<1> DEFINE payload == Joined(packets)
           page == [flags |-> flags, granule |-> granule, segments |-> segments,
                    payload |-> payload, seqno |-> Len(pages)]
<1>1. BuiltPage(flags) = page
  BY DEF BuiltPage, Page
<1>2. /\ packets \in Seq(Seq(Bytes)) /\ segments \in Seq(0 .. LaceMax)
      /\ granule \in Nat /\ Len(pages) \in Nat /\ Len(segments) \in Nat
  BY OggOpusAssumption DEF TypeOK
<1>3. payload \in Seq(Bytes)
  <2>1. <<>> \in Seq(Bytes)
    OBVIOUS
  <2> QED
    BY <1>2, <2>1, JoinedAppend
<1>4. Complete(segments, payload, Len(payload), packets)
  <2>1. <<>> \in Seq(Bytes) /\ payload \o <<>> = payload
    BY <1>3
  <2> HIDE DEF payload
  <2>2. \A q \in Seq(Bytes) : Complete(segments, payload \o q, Len(payload), packets)
    BY DEF Built, payload
  <2>3. Complete(segments, payload \o <<>>, Len(payload), packets)
    BY <2>1, <2>2
  <2> QED
    BY <2>1, <2>3
<1>5. payload # <<>> /\ segments # <<>>
  BY DEF Built
<1> HIDE DEF payload
<1>6. /\ page.payload = payload /\ page.segments = segments /\ page.seqno = Len(pages)
      /\ page.granule = granule /\ page.flags = flags
  OBVIOUS
<1>7. page \in PageType
  <2>1. flags \in SUBSET {"BOS", "EOS"}
    OBVIOUS
  <2> QED
    BY <1>2, <1>3, <2>1 DEF PageType
<1> HIDE DEF page
<1>8. Reading(segments, payload).done = packets
  BY <1>4 DEF Complete, AtEnd
<1>9. Demuxed(page) = packets
  BY <1>5, <1>6, <1>8 DEF Demuxed
<1>10. AtEnd(Reading(segments, payload), Len(payload), packets)
  BY <1>4 DEF Complete
<1>11. Len(segments) \in 1 .. MaxSegments
  BY <1>2, <1>5, OggOpusAssumption DEF Writable
<1> QED
  BY <1>1, <1>6, <1>7, <1>8, <1>9, <1>10, <1>11 DEF Sound

LEMMA ClosingSound ==
    ASSUME TypeOK, Built, Writable
    PROVE  Sound(ClosingPage) /\ ClosingPage.flags = {"EOS"}
<1>1. CASE packets # <<>>
  <2>1. ClosingPage = BuiltPage({"EOS"})
    BY <1>1 DEF ClosingPage
  <2> QED
    BY <1>1, <2>1, BuiltSound
<1>2. CASE packets = <<>>
  <2> DEFINE page == [flags |-> {"EOS"}, granule |-> granule, segments |-> <<0>>,
                      payload |-> <<>>, seqno |-> Len(pages)]
  <2>1. ClosingPage = page
    BY <1>2 DEF ClosingPage, Page
  <2>2. /\ page.payload = <<>> /\ page.segments = <<0>> /\ page.seqno = Len(pages)
        /\ page.granule = granule /\ page.flags = {"EOS"}
    OBVIOUS
  <2>3. page \in PageType
    <3>1. granule \in Nat /\ Len(pages) \in Nat /\ <<0>> \in Seq(0 .. LaceMax) /\ <<>> \in Seq(Bytes)
      BY OggOpusAssumption DEF TypeOK
    <3>2. {"EOS"} \in SUBSET {"BOS", "EOS"}
      OBVIOUS
    <3> QED
      BY <3>1, <3>2 DEF PageType
  <2> HIDE DEF page
  <2>4. Demuxed(page) = packets
    BY <1>2, <2>2 DEF Demuxed
  <2>5. Len(<<0>>) \in 1 .. MaxSegments
    BY OggOpusAssumption
  <2>6. AtEnd(Reading(<<0>>, <<>>), Len(<<>>), Reading(<<0>>, <<>>).done)
    <3>1. Len(<<>>) = 0 /\ <<>> \in Seq(Bytes) /\ 0 \in 0 .. LaceMax - 1
      BY OggOpusAssumption
    <3>2. Complete(Lace(Len(<<>>)), <<>>, Len(<<>>), <<<<>>>>)
      BY <3>1, LaceReads
    <3>3. Lace(Len(<<>>)) = <<0>>
      BY <3>1, LaceSmall
    <3> QED
      BY <3>2, <3>3 DEF Complete, AtEnd
  <2>7. "BOS" \notin {"EOS"}
    OBVIOUS
  <2> QED
    BY <2>1, <2>2, <2>3, <2>4, <2>5, <2>6, <2>7 DEF Sound
<1> QED
  BY <1>1, <1>2

(* A sound page plays what was on it, and keeps what was written before.   *)
LEMMA PageEmitted ==
    ASSUME WriterInv, NEW page, Sound(page), pages' = Append(pages, page)
    PROVE  /\ pages' \in Seq(PageType) /\ Len(pages') = Len(pages) + 1 /\ Len(pages') >= 2
           /\ \A k \in 3 .. Len(pages') : Demuxed(pages'[k]) \in Seq(Seq(Bytes))
           /\ PlayedOf(pages', Len(pages')) = added
           /\ GranuleExact'
           /\ \A k \in 1 .. Len(pages) : pages'[k] = pages[k]
           /\ pages'[Len(pages) + 1] = page
<1> DEFINE m == Len(pages)
<1>1. /\ pages \in Seq(PageType) /\ page \in PageType /\ packets \in Seq(Seq(Bytes))
      /\ added \in Seq(Seq(Bytes))
  BY DEF WriterInv, TypeOK, Sound
<1>2. /\ m \in Nat /\ m = Len(pages) /\ m >= 2
  BY <1>1 DEF WriterInv, Streamed
<1> HIDE DEF m
<1>3. /\ pages' \in Seq(PageType) /\ Len(pages') = m + 1
      /\ \A k \in 1 .. m : pages'[k] = pages[k]
      /\ pages'[m + 1] = page
  BY <1>1, <1>2
<1>4. \A k \in 3 .. m + 1 : Demuxed(pages'[k]) \in Seq(Seq(Bytes))
  <2> SUFFICES ASSUME NEW k \in 3 .. m + 1 PROVE Demuxed(pages'[k]) \in Seq(Seq(Bytes))
    OBVIOUS
  <2>1. CASE k = m + 1
    BY <1>1, <1>3, <2>1 DEF Sound
  <2>2. CASE k # m + 1
    <3>1. k \in 3 .. m /\ k \in 1 .. m
      BY <1>2, <2>2
    <3> QED
      BY <1>2, <1>3, <3>1 DEF WriterInv, Streamed
  <2> QED
    BY <2>1, <2>2
<1>5. \A k \in 3 .. m : PlayedOf(pages', k) = PlayedOf(pages, k)
  <2> SUFFICES ASSUME NEW k \in 3 .. m PROVE PlayedOf(pages', k) = PlayedOf(pages, k)
    OBVIOUS
  <2>1. k \in Nat /\ \A i \in 1 .. k : pages'[i] = pages[i]
    BY <1>2, <1>3
  <2> QED
    BY <2>1, PlayedPrefix
<1>6. PlayedOf(pages', m) = PlayedOf(pages, m)
  BY <1>2, <1>3, PlayedPrefix
<1>7. PlayedOf(pages, m) \o packets = added
  BY <1>2 DEF WriterInv, Streamed, RoundTrip, Played, PlayedTo, PlayedOf
<1>8. PlayedOf(pages', m + 1) = added
  <2>1. PlayedOf(pages', m + 1) = PlayedOf(pages', m) \o Demuxed(pages'[m + 1])
    BY <1>2, <1>4, PlayedNext
  <2>2. Demuxed(pages'[m + 1]) = packets
    BY <1>3 DEF Sound
  <2> QED
    BY <1>6, <1>7, <2>1, <2>2
<1>9. GranuleExact'
  <2>1. \A k \in 3 .. m : pages[k].granule = FrameSamples * Len(PlayedOf(pages, k))
    BY <1>2 DEF WriterInv, Streamed, GranuleExact, PlayedTo, PlayedOf
  <2>2. page.granule = FrameSamples * Len(added)
    BY DEF Sound, WriterInv, Streamed
  <2>3. ASSUME NEW k \in 3 .. m + 1
        PROVE  pages'[k].granule = FrameSamples * Len(PlayedOf(pages', k))
    <3>1. CASE k = m + 1
      BY <1>3, <1>8, <2>2, <3>1
    <3>2. CASE k # m + 1
      <4>1. k \in 3 .. m /\ k \in 1 .. m
        BY <1>2, <3>2
      <4> QED
        BY <1>3, <1>5, <2>1, <4>1
    <3> QED
      BY <3>1, <3>2
  <2> QED
    BY <1>3, <2>3 DEF GranuleExact, PlayedTo, PlayedOf
<1> QED
  BY <1>2, <1>3, <1>4, <1>8, <1>9

(* Pages stay well formed. *)
LEMMA PageForm ==
    ASSUME WriterInv, status = "open", NEW page, Sound(page), pages' = Append(pages, page),
           "EOS" \in page.flags <=> status' = "finished"
    PROVE  WellFormed'
<1> DEFINE m == Len(pages)
<1>1. /\ m \in Nat /\ Len(pages') = m + 1 /\ pages' \in Seq(PageType)
      /\ \A k \in 1 .. m : pages'[k] = pages[k]
      /\ pages'[m + 1] = page
      /\ m >= 2
  <2>1. pages \in Seq(PageType) /\ m >= 2
    BY DEF WriterInv, TypeOK, Streamed
  <2> QED
    BY <2>1, PageEmitted
<1>2. DOMAIN pages = 1 .. m /\ DOMAIN pages' = 1 .. m + 1
  BY <1>1 DEF WriterInv, TypeOK
<1>5. m = Len(pages)
  OBVIOUS
<1> HIDE DEF m
<1>3. ASSUME NEW k \in 1 .. m + 1
      PROVE  /\ Len(pages'[k].segments) \in 1 .. MaxSegments
             /\ Reading(pages'[k].segments, pages'[k].payload).off = Len(pages'[k].payload)
             /\ Reading(pages'[k].segments, pages'[k].payload).partial = <<>>
             /\ pages'[k].seqno = k - 1
             /\ "BOS" \in pages'[k].flags <=> k = 1
             /\ "EOS" \in pages'[k].flags <=> k = Len(pages') /\ status' = "finished"
  <2>1. CASE k = m + 1
    <3>1. /\ Reading(page.segments, page.payload).off = Len(page.payload)
          /\ Reading(page.segments, page.payload).partial = <<>>
      BY DEF Sound, AtEnd
    <3>2. /\ Len(page.segments) \in 1 .. MaxSegments
          /\ page.seqno = m /\ "BOS" \notin page.flags
      BY <1>5 DEF Sound
    <3>3. k - 1 = m /\ k # 1 /\ k = Len(pages') /\ pages'[k] = page
      BY <1>1, <2>1
    <3>4. "EOS" \in page.flags <=> status' = "finished"
      OBVIOUS
    <3> HIDE DEF Sound
    <3>5. "BOS" \in page.flags <=> k = 1
      BY <3>2, <3>3
    <3>6. "EOS" \in page.flags <=> k = Len(pages') /\ status' = "finished"
      BY <3>3, <3>4
    <3> QED
      BY <3>1, <3>2, <3>3, <3>5, <3>6
  <2>2. CASE k # m + 1
    <3>1. k \in 1 .. m /\ k \in DOMAIN pages /\ k # Len(pages') /\ pages'[k] = pages[k]
      BY <1>1, <1>2, <2>2
    <3>2. /\ Len(pages[k].segments) \in 1 .. MaxSegments
          /\ Reading(pages[k].segments, pages[k].payload).off = Len(pages[k].payload)
          /\ Reading(pages[k].segments, pages[k].payload).partial = <<>>
          /\ pages[k].seqno = k - 1
      BY <3>1 DEF WriterInv, WellFormed
    <3>3. /\ "BOS" \in pages[k].flags <=> k = 1
          /\ "EOS" \notin pages[k].flags
      <4>1. status # "finished"
        OBVIOUS
      <4> QED
        BY <3>1, <4>1 DEF WriterInv, WellFormed
    <3> QED
      BY <3>1, <3>2, <3>3
  <2> QED
    BY <2>1, <2>2
<1> QED
  BY <1>2, <1>3 DEF WellFormed

(* Without a new page, and with no end of the stream, they stay as well.   *)
LEMMA FormStays ==
    ASSUME WellFormed, pages' = pages, status # "finished", status' # "finished"
    PROVE  WellFormed'
BY DEF WellFormed

(* A table that yields its packets, whatever comes behind.                 *)
Yields(segs, ps) ==
    \A q \in Seq(Bytes) : Complete(segs, Joined(ps) \o q, Len(Joined(ps)), ps)

LEMMA Associative ==
    ASSUME NEW X, NEW a \in Seq(X), NEW b \in Seq(X), NEW c \in Seq(X)
    PROVE  b \o c \in Seq(X) /\ a \o (b \o c) = (a \o b) \o c
<1>1. /\ b \o c \in Seq(X) /\ a \o b \in Seq(X)
      /\ a \o (b \o c) \in Seq(X) /\ (a \o b) \o c \in Seq(X)
  OBVIOUS
<1>2. /\ Len(a \o (b \o c)) = Len(a) + Len(b) + Len(c)
      /\ Len((a \o b) \o c) = Len(a) + Len(b) + Len(c)
  OBVIOUS
<1>3. ASSUME NEW i \in 1 .. Len(a) + Len(b) + Len(c)
      PROVE  (a \o (b \o c))[i] = ((a \o b) \o c)[i]
  <2>1. CASE i <= Len(a)
    BY <2>1
  <2>2. CASE i > Len(a) /\ i <= Len(a) + Len(b)
    BY <2>2
  <2>3. CASE i > Len(a) + Len(b)
    BY <2>3
  <2> QED
    BY <2>1, <2>2, <2>3
<1> QED
  BY <1>1, <1>2, <1>3

(* It does with one more packet. *)
LEMMA YieldsNext ==
    ASSUME NEW segs \in Seq(0 .. LaceMax), NEW ps \in Seq(Seq(Bytes)), NEW p \in Seq(Bytes),
           Yields(segs, ps)
    PROVE  Yields(segs \o Lace(Len(p)), Append(ps, p))
<1> DEFINE b == Joined(ps)
<1>1. b \in Seq(Bytes) /\ Joined(Append(ps, p)) = b \o p
  BY JoinedAppend
<1>2. \A q \in Seq(Bytes) : Complete(segs, b \o q, Len(b), ps)
  BY DEF Yields
<1> HIDE DEF b
<1>3. Len(b \o p) = Len(b) + Len(p)
  BY <1>1
<1>4. ASSUME NEW q \in Seq(Bytes)
      PROVE  Complete(segs \o Lace(Len(p)), (b \o p) \o q, Len(b) + Len(p), Append(ps, p))
  <2>0. b \in Seq(Bytes) /\ p \in Seq(Bytes) /\ q \in Seq(Bytes)
    BY <1>1
  <2>1. p \o q \in Seq(Bytes) /\ b \o (p \o q) = (b \o p) \o q
    BY ONLY <2>0, Associative
  <2>2. Complete(segs, b \o (p \o q), Len(b), ps)
    BY <1>2, <2>1
  <2>3. Complete(segs, (b \o p) \o q, Len(b), ps)
    BY <2>1, <2>2
  <2> QED
    BY <1>1, <2>3, ReadingNext
<1> QED
  BY <1>1, <1>3, <1>4 DEF Yields

LEMMA YieldsNothing == Yields(<<>>, <<>>)
<1>1. Joined(<<>>) = <<>> /\ Len(<<>>) = 0
  BY JoinedEmpty
<1>2. ASSUME NEW q \in Seq(Bytes) PROVE Complete(<<>>, <<>> \o q, 0, <<>>)
  <2>1. Reading(<<>>, <<>> \o q) = Unread
    BY <1>1, ReadingFacts
  <2> QED
    BY <2>1 DEF Complete, AtEnd, Unread
<1> QED
  BY <1>1, <1>2 DEF Yields

(* What is built after a packet p has been added to the packets ps.        *)
LEMMA BuiltNext ==
    ASSUME NEW ps \in Seq(Seq(Bytes)), NEW segs \in Seq(0 .. LaceMax), Yields(segs, ps),
           NEW p \in Seq(Bytes), p # <<>>, added \in Seq(Seq(Bytes)),
           packets' = Append(ps, p), segments' = segs \o Lace(Len(p)),
           added' = Append(added, p),
           Len(segs \o Lace(Len(p))) <= MaxSegments \/ segs = <<>>
    PROVE  /\ Built' /\ packets' # <<>>
           /\ packets' \in Seq(Seq(Bytes)) /\ segments' \in Seq(0 .. LaceMax)
<1>1. /\ Lace(Len(p)) \in Seq(0 .. LaceMax)
      /\ Len(Lace(Len(p))) >= 1 /\ Len(Lace(Len(p))) \in Nat
  <2>1. Len(p) \in Nat
    OBVIOUS
  <2>2. PICK k \in Nat : Lace(Len(p)) \in Seq(0 .. LaceMax) /\ Len(Lace(Len(p))) = k + 1
    BY <2>1, LaceFacts
  <2> QED
    BY <2>2
<1> DEFINE lace == Lace(Len(p))
<1> HIDE DEF lace
<1>2. /\ segments' \in Seq(0 .. LaceMax) /\ segments' # <<>>
      /\ segs = <<>> => segments' = lace
  <2>1. lace \in Seq(0 .. LaceMax) /\ Len(lace) >= 1 /\ segments' = segs \o lace
    BY <1>1 DEF lace
  <2>2. segments' \in Seq(0 .. LaceMax) /\ Len(segments') = Len(segs) + Len(lace)
    BY <2>1
  <2>3. Len(segments') # 0
    BY <2>1, <2>2
  <2>4. segs = <<>> => segments' = lace
    BY <2>1
  <2> QED
    BY <2>2, <2>3, <2>4
<1>3. packets' \in Seq(Seq(Bytes)) /\ packets' # <<>>
  <2>1. Append(ps, p) \in Seq(Seq(Bytes)) /\ Len(Append(ps, p)) = Len(ps) + 1 /\ Len(ps) \in Nat
    OBVIOUS
  <2>2. Len(packets') # 0
    BY <2>1
  <2> QED
    BY <2>1, <2>2
<1>4. Joined(packets') # <<>>
  <2>1. Joined(ps) \in Seq(Bytes) /\ Joined(packets') = Joined(ps) \o p
    BY JoinedAppend
  <2>2. Len(p) # 0
    OBVIOUS
  <2> HIDE DEF Joined
  <2>3. Len(Joined(ps) \o p) # 0
    BY <2>1, <2>2
  <2> QED
    BY <2>1, <2>3
<1>5. Yields(segments', packets')
  BY YieldsNext
<1>6. Len(segments') > MaxSegments =>
          \E i \in DOMAIN added' : Len(Lace(Len(added'[i]))) > MaxSegments
  <2> SUFFICES ASSUME Len(segments') > MaxSegments
               PROVE  \E i \in DOMAIN added' : Len(Lace(Len(added'[i]))) > MaxSegments
    OBVIOUS
  <2>1. segs = <<>>
    BY <1>2, OggOpusAssumption
  <2>2. Len(lace) > MaxSegments
    BY <1>2, <2>1
  <2>3. Len(added) + 1 \in DOMAIN added' /\ added'[Len(added) + 1] = p
    OBVIOUS
  <2> QED
    BY <2>2, <2>3 DEF lace
<1>7. \A q \in Seq(Bytes) :
          Complete(segments', Joined(packets') \o q, Len(Joined(packets')), packets')
  BY <1>5 DEF Yields
<1>8. packets' = <<>> <=> segments' = <<>>
  BY <1>2, <1>3
<1> QED
  BY <1>2, <1>3, <1>4, <1>6, <1>7, <1>8 DEF Built

LEMMA ConcatAppend ==
    ASSUME NEW X, NEW a \in Seq(X), NEW b \in Seq(X), NEW x \in X
    PROVE  a \o Append(b, x) = Append(a \o b, x)
<1>1. a \o b \in Seq(X) /\ Append(b, x) \in Seq(X) /\ a \o Append(b, x) \in Seq(X)
  OBVIOUS
<1>2. Len(a \o Append(b, x)) = Len(a \o b) + 1
  OBVIOUS
<1>3. \A i \in 1 .. Len(a \o b) : (a \o Append(b, x))[i] = (a \o b)[i]
  OBVIOUS
<1>4. (a \o Append(b, x))[Len(a \o b) + 1] = x
  OBVIOUS
<1> QED
  BY <1>1, <1>2, <1>3, <1>4, Appended

LEMMA PlayedTyped ==
    ASSUME WriterInv
    PROVE  PlayedOf(pages, Len(pages)) \in Seq(Seq(Bytes))
<1> DEFINE m == Len(pages)
           f == [i \in 1 .. m - 2 |-> Demuxed(pages[i + 2])]
<1>1. m >= 2 /\ m \in Nat /\ m = Len(pages)
  BY DEF WriterInv, TypeOK, Streamed
<1> HIDE DEF m
<1>2. \A i \in 1 .. m - 2 : Demuxed(pages[i + 2]) \in Seq(Seq(Bytes))
  <2>1. \A i \in 1 .. m - 2 : i + 2 \in 3 .. m
    BY <1>1
  <2> QED
    BY <1>1, <2>1 DEF WriterInv, Streamed
<1>3. f \in Seq(Seq(Seq(Bytes)))
  BY <1>1, <1>2
<1>4. PlayedOf(pages, m) = Joined(f)
  BY DEF PlayedOf
<1> HIDE DEF f
<1>5. <<>> \in Seq(Seq(Bytes))
  OBVIOUS
<1> QED
  BY <1>1, <1>3, <1>4, <1>5, JoinedAppend

LEMMA WriterStarts == Init => WriterInv
<1> SUFFICES ASSUME Init PROVE WriterInv
  OBVIOUS
<1> USE OggOpusAssumption
<1> DEFINE head == Packet(0, HeadLen)
           tags == Packet(0, TagsLen)
           first == Page({"BOS"}, 0, Lace(HeadLen), head, 0)
           second == Page({}, 0, Lace(TagsLen), tags, 1)
<1>1. /\ pages = <<first, second>> /\ packets = <<>> /\ segments = <<>> /\ granule = 0
      /\ status = "open" /\ added = <<>>
  BY DEF Init
<1>2. /\ head \in Seq(Bytes) /\ Len(head) = HeadLen
      /\ tags \in Seq(Bytes) /\ Len(tags) = TagsLen
  <2>1. /\ 0 \in 0 .. MaxPackets /\ HeadLen \in 0 .. MaxLen + HeadLen + TagsLen
        /\ TagsLen \in 0 .. MaxLen + HeadLen + TagsLen
    OBVIOUS
  <2> QED
    BY <2>1, PacketTyped
<1> HIDE DEF head, tags
<1>3. /\ Lace(HeadLen) = <<HeadLen>> /\ Lace(TagsLen) = <<TagsLen>>
  BY LaceSmall
<1>4. /\ first = [flags |-> {"BOS"}, granule |-> 0, segments |-> <<HeadLen>>,
                  payload |-> head, seqno |-> 0]
      /\ second = [flags |-> {}, granule |-> 0, segments |-> <<TagsLen>>,
                   payload |-> tags, seqno |-> 1]
  BY <1>3 DEF Page
<1> HIDE DEF first, second
<1>5. first \in PageType /\ second \in PageType
  <2>1. <<HeadLen>> \in Seq(0 .. LaceMax) /\ <<TagsLen>> \in Seq(0 .. LaceMax)
    OBVIOUS
  <2>2. {"BOS"} \in SUBSET {"BOS", "EOS"} /\ {} \in SUBSET {"BOS", "EOS"}
    OBVIOUS
  <2> QED
    BY <1>2, <1>4, <2>1, <2>2 DEF PageType
<1>6. pages \in Seq(PageType) /\ Len(pages) = 2 /\ pages[1] = first /\ pages[2] = second
  BY <1>1, <1>5
<1>7. TypeOK
  BY <1>1, <1>6 DEF TypeOK
<1>8. Built
  <2>1. \A q \in Seq(Bytes) :
            Complete(segments, Joined(packets) \o q, Len(Joined(packets)), packets)
    BY <1>1, YieldsNothing DEF Yields
  <2>2. Len(segments) = 0
    BY <1>1
  <2> QED
    BY <1>1, <2>1, <2>2 DEF Built
<1>9. Streamed
  <2>1. PlayedOf(pages, 2) = <<>>
    <3>1. [i \in 1 .. 2 - 2 |-> Demuxed(pages[i + 2])] = <<>>
      OBVIOUS
    <3> QED
      BY <3>1, JoinedEmpty DEF PlayedOf
  <2>2. RoundTrip
    BY <1>1, <1>6, <2>1 DEF RoundTrip, Played, PlayedTo, PlayedOf
  <2>3. GranuleExact /\ \A k \in 3 .. Len(pages) : Demuxed(pages[k]) \in Seq(Seq(Bytes))
    BY <1>6 DEF GranuleExact
  <2>4. granule = FrameSamples * Len(added)
    BY <1>1
  <2> QED
    BY <1>1, <1>6, <2>2, <2>3, <2>4 DEF Streamed
<1>10. WellFormed
  <2>1. AtEnd(Reading(<<HeadLen>>, head), Len(head), <<head>>)
    BY <1>2, <1>3, LaceReads DEF Complete
  <2>2. AtEnd(Reading(<<TagsLen>>, tags), Len(tags), <<tags>>)
    BY <1>2, <1>3, LaceReads DEF Complete
  <2>3. Len(<<HeadLen>>) \in 1 .. MaxSegments /\ Len(<<TagsLen>>) \in 1 .. MaxSegments
    OBVIOUS
  <2>4. DOMAIN pages = {1, 2} /\ Len(pages) = 2
    BY <1>6
  <2>5. /\ first.segments = <<HeadLen>> /\ first.payload = head /\ first.seqno = 0
        /\ first.flags = {"BOS"}
    BY <1>4
  <2>6. /\ second.segments = <<TagsLen>> /\ second.payload = tags /\ second.seqno = 1
        /\ second.flags = {}
    BY <1>4
  <2>7. /\ Reading(<<HeadLen>>, head).off = Len(head)
        /\ Reading(<<HeadLen>>, head).partial = <<>>
    BY <2>1 DEF AtEnd
  <2>8. /\ Reading(<<TagsLen>>, tags).off = Len(tags)
        /\ Reading(<<TagsLen>>, tags).partial = <<>>
    BY <2>2 DEF AtEnd
  <2>9. SUFFICES ASSUME NEW k \in {1, 2}
                 PROVE  LET page == pages[k]
                            read == Reading(page.segments, page.payload)
                        IN  /\ Len(page.segments) \in 1 .. MaxSegments
                            /\ read.off = Len(page.payload) /\ read.partial = <<>>
                            /\ page.seqno = k - 1
                            /\ "BOS" \in page.flags <=> k = 1
                            /\ "EOS" \in page.flags <=> k = Len(pages) /\ status = "finished"
    BY <2>4 DEF WellFormed
  <2>10. CASE k = 1
    <3> DEFINE page == first
    <3>1. pages[k] = page /\ status # "finished" /\ k - 1 = 0 /\ k = 1
      BY <1>1, <1>6, <2>10
    <3>2. "BOS" \in page.flags /\ "EOS" \notin page.flags /\ page.seqno = k - 1
      BY <2>5, <3>1
    <3>3. /\ Len(page.segments) \in 1 .. MaxSegments
          /\ Reading(page.segments, page.payload).off = Len(page.payload)
          /\ Reading(page.segments, page.payload).partial = <<>>
      BY <2>3, <2>5, <2>7
    <3> HIDE DEF page
    <3> QED
      BY <3>1, <3>2, <3>3
  <2>11. CASE k = 2
    <3> DEFINE page == second
    <3>1. pages[k] = page /\ status # "finished" /\ k - 1 = 1 /\ k # 1
      BY <1>1, <1>6, <2>11
    <3>2. "BOS" \notin page.flags /\ "EOS" \notin page.flags /\ page.seqno = k - 1
      BY <2>6, <3>1
    <3>3. /\ Len(page.segments) \in 1 .. MaxSegments
          /\ Reading(page.segments, page.payload).off = Len(page.payload)
          /\ Reading(page.segments, page.payload).partial = <<>>
      BY <2>3, <2>6, <2>8
    <3> HIDE DEF page
    <3> QED
      BY <3>1, <3>2, <3>3
  <2> QED
    BY <2>10, <2>11
<1> QED
  BY <1>7, <1>8, <1>9, <1>10 DEF WriterInv

(* Without a new page what is said of pages stays.                         *)
LEMMA PagesKept ==
    ASSUME WriterInv, status = "open", UNCHANGED <<pages, status>>
    PROVE  GranuleExact' /\ WellFormed' /\ status' = "open"
<1>1. pages' = pages /\ status' = "open" /\ status = "open"
  OBVIOUS
<1>2. GranuleExact'
  BY <1>1 DEF WriterInv, Streamed, GranuleExact, PlayedTo
<1>3. WellFormed'
  BY <1>1, FormStays DEF WriterInv
<1> QED
  BY <1>1, <1>2, <1>3

(* One more packet adds its samples. *)
LEMMA GranuleNext ==
    ASSUME WriterInv, NEW p \in Seq(Bytes),
           added' = Append(added, p), granule' = granule + FrameSamples
    PROVE  granule' = FrameSamples * Len(added')
<1>1. Len(added') = Len(added) + 1 /\ Len(added) \in Nat
  BY DEF WriterInv, TypeOK
<1>2. granule = FrameSamples * Len(added)
  BY DEF WriterInv, Streamed
<1>3. \A x \in Nat : FrameSamples * (x + 1) = FrameSamples * x + FrameSamples
  BY OggOpusAssumption
<1> QED
  BY <1>1, <1>2, <1>3

LEMMA AddPacketKeeps ==
    ASSUME WriterInv, Len(added) < MaxPackets, NEW n \in 1 .. MaxLen, AddPacket(n)
    PROVE  WriterInv'
<1> USE OggOpusAssumption
<1> DEFINE p == Packet(Len(added) + 1, n)
<1>1. /\ pages \in Seq(PageType) /\ packets \in Seq(Seq(Bytes)) /\ segments \in Seq(0 .. LaceMax)
      /\ granule \in Nat /\ added \in Seq(Seq(Bytes))
  BY DEF WriterInv, TypeOK
<1>2. p \in Seq(Bytes) /\ Len(p) = n
  <2>1. Len(added) + 1 \in 0 .. MaxPackets /\ n \in 0 .. MaxLen + HeadLen + TagsLen
    BY <1>1
  <2> QED
    BY <2>1, PacketTyped
<1>3. /\ status = "open"
      /\ AddHere(n) \/ AddNextPage(n)
      /\ granule' = granule + FrameSamples /\ added' = Append(added, p)
  BY DEF AddPacket
<1> HIDE DEF p
<1>4. p # <<>>
  BY <1>2
<1>5. granule' = FrameSamples * Len(added') /\ granule' \in Nat
  BY <1>1, <1>2, <1>3, GranuleNext
<1>6. added' \in Seq(Seq(Bytes))
  BY <1>1, <1>2, <1>3
<1>7. PlayedOf(pages, Len(pages)) \in Seq(Seq(Bytes))
      /\ PlayedOf(pages, Len(pages)) \o packets = added
  BY PlayedTyped DEF WriterInv, Streamed, RoundTrip, Played, PlayedTo, PlayedOf
<1>8. CASE AddHere(n)
  <2>1. /\ packets' = Append(packets, p) /\ segments' = segments \o Lace(Len(p))
        /\ Len(segments) + Len(Lace(Len(p))) <= MaxSegments
        /\ pages' = pages /\ status' = status
    BY <1>2, <1>8 DEF AddHere, Fits, p
  <2>2. Len(segments \o Lace(Len(p))) <= MaxSegments
    <3>1. Lace(Len(p)) \in Seq(0 .. LaceMax)
      BY <1>2, LaceFacts
    <3> DEFINE lace == Lace(Len(p))
    <3> HIDE DEF lace
    <3>2. Len(segments \o lace) = Len(segments) + Len(lace)
      BY <1>1, <3>1 DEF lace
    <3> QED
      BY <2>1, <3>2 DEF lace
  <2>3. Yields(segments, packets)
    BY DEF Yields, WriterInv, Built
  <2>4. /\ Built' /\ packets' \in Seq(Seq(Bytes)) /\ segments' \in Seq(0 .. LaceMax)
    BY <1>1, <1>2, <1>3, <1>4, <2>1, <2>2, <2>3, BuiltNext
  <2>5. TypeOK'
    BY <1>1, <1>3, <1>5, <1>6, <2>1, <2>4 DEF TypeOK
  <2>6. RoundTrip'
    <3>1. PlayedOf(pages, Len(pages)) \o Append(packets, p) = Append(added, p)
      <4> DEFINE a == PlayedOf(pages, Len(pages))
      <4> HIDE DEF a
      <4>1. a \in Seq(Seq(Bytes)) /\ a \o packets = added
        BY <1>7 DEF a
      <4>2. a \in Seq(Seq(Bytes)) /\ packets \in Seq(Seq(Bytes)) /\ p \in Seq(Bytes)
        BY <1>1, <1>2, <4>1
      <4>3. a \o Append(packets, p) = Append(a \o packets, p)
        BY ONLY <4>2, ConcatAppend
      <4> QED
        BY <4>1, <4>3 DEF a
    <3> QED
      BY <1>3, <2>1, <3>1 DEF RoundTrip, Played, PlayedTo, PlayedOf
  <2>7. GranuleExact' /\ WellFormed' /\ status' = "open"
    BY <1>3, <2>1, PagesKept
  <2>8. Streamed'
    BY <1>5, <2>1, <2>6, <2>7 DEF WriterInv, Streamed
  <2> QED
    BY <2>4, <2>5, <2>7, <2>8 DEF WriterInv
<1>9. CASE AddNextPage(n)
  <2>1. /\ packets' = <<p>> /\ segments' = Lace(Len(p)) /\ status' = status /\ Writable
        /\ pages' = IF packets = <<>> THEN pages ELSE Append(pages, BuiltPage({}))
    BY <1>2, <1>9 DEF AddNextPage, p
  <2>2. /\ Built' /\ packets' \in Seq(Seq(Bytes)) /\ segments' \in Seq(0 .. LaceMax)
    <3>1. <<>> \in Seq(Seq(Bytes)) /\ <<>> \in Seq(0 .. LaceMax)
      OBVIOUS
    <3>2. Lace(Len(p)) \in Seq(0 .. LaceMax)
      BY <1>2, LaceFacts
    <3>3. packets' = Append(<<>>, p) /\ segments' = <<>> \o Lace(Len(p))
      BY <2>1, <3>2
    <3> QED
      BY <1>2, <1>3, <1>1, <1>4, <3>1, <3>3, YieldsNothing, BuiltNext
  <2>3. CASE packets = <<>>
    <3>1. pages' = pages
      BY <2>1, <2>3
    <3>2. TypeOK'
      BY <1>1, <1>3, <1>5, <1>6, <2>1, <2>2, <3>1 DEF TypeOK
    <3>3. PlayedOf(pages, Len(pages)) = added
      <4> DEFINE a == PlayedOf(pages, Len(pages))
      <4> HIDE DEF a
      <4>1. a \in Seq(Seq(Bytes)) /\ a \o packets = added
        BY <1>7 DEF a
      <4>2. a \o packets = a
        BY <2>3, <4>1
      <4> QED
        BY <4>1, <4>2 DEF a
    <3>4. RoundTrip'
      <4>1. added \o <<p>> = Append(added, p)
        BY <1>1, <1>2
      <4> QED
        BY <1>3, <2>1, <3>1, <3>3, <4>1 DEF RoundTrip, Played, PlayedTo, PlayedOf
    <3>5. GranuleExact' /\ WellFormed' /\ status' = "open"
      BY <1>3, <2>1, <3>1, PagesKept
    <3>6. Streamed'
      BY <1>5, <3>1, <3>4, <3>5 DEF WriterInv, Streamed
    <3> QED
      BY <2>2, <3>2, <3>5, <3>6 DEF WriterInv
  <2>4. CASE packets # <<>>
    <3> DEFINE page == BuiltPage({})
    <3>1. Sound(page) /\ page.flags = {}
      <4>1. {} \in SUBSET {"EOS"}
        OBVIOUS
      <4> QED
        BY <2>1, <2>4, <4>1, BuiltSound DEF WriterInv
    <3> HIDE DEF page
    <3>2. pages' = Append(pages, page)
      BY <2>1, <2>4 DEF page
    <3>3. /\ pages' \in Seq(PageType) /\ Len(pages') >= 2
          /\ \A k \in 3 .. Len(pages') : Demuxed(pages'[k]) \in Seq(Seq(Bytes))
          /\ PlayedOf(pages', Len(pages')) = added
          /\ GranuleExact'
      BY <3>1, <3>2, PageEmitted
    <3>4. status' = "open" /\ status = "open"
      BY <1>3, <2>1
    <3>5. WellFormed'
      BY <3>1, <3>2, <3>4, PageForm
    <3>6. TypeOK'
      BY <1>1, <1>3, <1>5, <1>6, <2>1, <2>2, <3>3, <3>4 DEF TypeOK
    <3>7. RoundTrip'
      <4>1. added \o <<p>> = Append(added, p)
        BY <1>1, <1>2
      <4> QED
        BY <1>3, <2>1, <3>3, <4>1 DEF RoundTrip, Played, PlayedTo, PlayedOf
    <3>8. Streamed'
      BY <1>5, <3>3, <3>4, <3>7 DEF Streamed
    <3> QED
      BY <2>2, <3>5, <3>6, <3>8 DEF WriterInv
  <2> QED
    BY <2>3, <2>4
<1> QED
  BY <1>3, <1>8, <1>9

LEMMA RaiseKeeps ==
    ASSUME WriterInv, Raise
    PROVE  WriterInv'
<1>1. /\ status = "open" /\ status' = "raised" /\ ~Writable
      /\ UNCHANGED <<pages, packets, segments, granule, added>>
  BY DEF Raise
<1>2. TypeOK'
  BY <1>1 DEF WriterInv, TypeOK
<1>3. Built'
  BY <1>1 DEF WriterInv, Built
<1>4. WellFormed'
  BY <1>1, FormStays DEF WriterInv
<1>5. RoundTrip' /\ GranuleExact'
  BY <1>1 DEF WriterInv, Streamed, RoundTrip, Played, PlayedTo, GranuleExact
<1>6. Len(segments) > MaxSegments
  <2>1. Len(segments) \in Nat
    BY DEF WriterInv, TypeOK
  <2> QED
    BY <1>1, <2>1, OggOpusAssumption DEF Writable
<1>7. Streamed'
  BY <1>1, <1>5, <1>6 DEF WriterInv, Streamed
<1> QED
  BY <1>2, <1>3, <1>4, <1>7 DEF WriterInv

LEMMA FinishKeeps ==
    ASSUME WriterInv, Finish
    PROVE  WriterInv'
<1> DEFINE page == ClosingPage
<1>1. /\ status = "open" /\ status' = "finished" /\ Writable
      /\ pages' = Append(pages, page) /\ packets' = <<>> /\ segments' = <<>>
      /\ granule' = granule /\ added' = added
  BY DEF Finish
<1>2. Sound(page) /\ page.flags = {"EOS"}
  BY <1>1, ClosingSound DEF WriterInv
<1> HIDE DEF page
<1>3. /\ pages' \in Seq(PageType) /\ Len(pages') >= 2
      /\ \A k \in 3 .. Len(pages') : Demuxed(pages'[k]) \in Seq(Seq(Bytes))
      /\ PlayedOf(pages', Len(pages')) = added
      /\ GranuleExact'
  BY <1>1, <1>2, PageEmitted
<1>4. WellFormed'
  BY <1>1, <1>2, PageForm
<1>5. TypeOK'
  <2>1. packets' \in Seq(Seq(Bytes)) /\ segments' \in Seq(0 .. LaceMax)
    BY <1>1
  <2> QED
    BY <1>1, <1>3, <2>1 DEF WriterInv, TypeOK
<1>6. Built'
  <2>1. \A q \in Seq(Bytes) :
            Complete(segments', Joined(packets') \o q, Len(Joined(packets')), packets')
    BY <1>1, YieldsNothing DEF Yields
  <2>2. Len(segments') = 0
    BY <1>1
  <2> QED
    BY <1>1, <2>1, <2>2, OggOpusAssumption DEF Built
<1>7. RoundTrip'
  <2>1. added \o <<>> = added
    BY DEF WriterInv, TypeOK
  <2> QED
    BY <1>1, <1>3, <2>1 DEF RoundTrip, Played, PlayedTo, PlayedOf
<1>8. Streamed'
  BY <1>1, <1>3, <1>7 DEF WriterInv, Streamed
<1> QED
  BY <1>4, <1>5, <1>6, <1>8 DEF WriterInv

LEMMA WriterAlways == Spec => []WriterInv
<1>1. WriterInv /\ [Next]_vars => WriterInv'
  <2> SUFFICES ASSUME WriterInv, [Next]_vars PROVE WriterInv'
    OBVIOUS
  <2>1. ASSUME Len(added) < MaxPackets, NEW n \in 1 .. MaxLen, AddPacket(n) PROVE WriterInv'
    BY <2>1, AddPacketKeeps
  <2>2. CASE Raise
    BY <2>2, RaiseKeeps
  <2>3. CASE Finish
    BY <2>3, FinishKeeps
  <2>4. CASE UNCHANGED vars
    BY <2>4 DEF vars, WriterInv, TypeOK, Built, Streamed, RoundTrip, Played, PlayedTo,
       GranuleExact, WellFormed
  <2> QED
    BY <2>1, <2>2, <2>3, <2>4 DEF Next
<1> QED
  BY <1>1, WriterStarts, PTL DEF Spec

(* Pages, tables and positions have their types. *)
THEOREM TypeCorrect == Spec => []TypeOK
<1>1. WriterInv => TypeOK
  BY DEF WriterInv
<1> QED
  BY WriterAlways, <1>1, PTL

(* A player gets the packets that were added, in order and bit for bit,    *)
(* whatever their lengths: exact multiples of a segment among them.        *)
THEOREM RoundTripHolds == Spec => []RoundTrip
<1>1. WriterInv => RoundTrip
  BY DEF WriterInv, Streamed
<1> QED
  BY WriterAlways, <1>1, PTL

(* A page's granule position counts the samples up to its last packet.     *)
THEOREM GranuleExactHolds == Spec => []GranuleExact
<1>1. WriterInv => GranuleExact
  BY DEF WriterInv, Streamed
<1> QED
  BY WriterAlways, <1>1, PTL

(* Every page emitted is well formed. *)
THEOREM WellFormedHolds == Spec => []WellFormed
<1>1. WriterInv => WellFormed
  BY DEF WriterInv
<1> QED
  BY WriterAlways, <1>1, PTL

(* The writer raises only for a packet that no page can hold.              *)
THEOREM RaisesOnlyOversizedHolds == Spec => []RaisesOnlyOversized
<1>1. WriterInv => RaisesOnlyOversized
  BY DEF WriterInv, Streamed, Built, RaisesOnlyOversized
<1> QED
  BY WriterAlways, <1>1, PTL
=============================================================================
