--------------------------- MODULE FramingProofs ---------------------------
(***************************************************************************)
(* Proofs about the framing of the TCP hop, for every base of a byte,      *)
(* every payload, any number of frames and every way in which TCP may cut  *)
(* the bytes into chunks.                                                  *)
(***************************************************************************)
EXTENDS Framing, WellFoundedInduction, TLAPS

-----------------------------------------------------------------------------
(* Numbers. *)

(* A set of numbers has a least one. *)
LEMMA Least ==
    ASSUME NEW T \in SUBSET Nat, T # {}
    PROVE  \E x \in T : \A y \in T : x <= y
<1> DEFINE R == {ss \in Nat \X Nat : ss[1] < ss[2]}
<1>1. IsWellFoundedOn(R, Nat)
  BY NatLessThanWellFounded DEF OpToRel
<1>2. \E x \in T : \A y \in T : ~ (<<y, x>> \in R)
  <2> HIDE DEF R
  <2> QED
    BY <1>1, WFMin DEF R
<1>3. PICK x \in T : \A y \in T : ~ (<<y, x>> \in R)
  BY <1>2
<1>4. ASSUME NEW y \in T PROVE x <= y
  <2>1. ~(y < x)
    BY <1>3
  <2>2. x \in Nat /\ y \in Nat
    OBVIOUS
  <2> QED
    BY <2>1, <2>2
<1> QED
  BY <1>4

(* A set with 0 that has n + 1 with every n below m has all numbers to m.  *)
LEMMA UpTo ==
    ASSUME NEW m \in Nat, NEW S, 0 \in S, \A n \in 0 .. m - 1 : n \in S => n + 1 \in S
    PROVE  0 .. m \subseteq S
<1> SUFFICES ASSUME (0 .. m) \ S # {} PROVE FALSE
  OBVIOUS
<1>1. PICK x \in (0 .. m) \ S : \A y \in (0 .. m) \ S : x <= y
  <2>1. (0 .. m) \ S \in SUBSET Nat
    OBVIOUS
  <2> QED
    BY <2>1, Least
<1>2. x # 0 /\ x - 1 \in 0 .. m - 1 /\ (x - 1) + 1 = x
  BY <1>1
<1>3. x - 1 \in S
  BY <1>1, <1>2
<1> QED
  BY <1>1, <1>2, <1>3

LEMMA Division ==
    ASSUME NEW n \in Nat, NEW l \in Nat \ {0}
    PROVE  /\ n \div l \in Nat /\ n % l \in 0 .. l - 1
           /\ (n \div l) * l + (n % l) = n
<1>1. n \div l \in Nat
  OBVIOUS
<1>2. n % l \in 0 .. l - 1
  OBVIOUS
<1>3. n % l = n - l * (n \div l)
  OBVIOUS
<1>4. (n \div l) * l + (n % l) = n
  <2> DEFINE q == n \div l
             r == n % l
  <2>1. r = n - l * q /\ q \in Nat /\ r \in Nat
    BY <1>1, <1>2, <1>3
  <2> HIDE DEF q, r
  <2>2. l * q = q * l /\ q * l \in Nat
    BY <2>1
  <2>3. q * l + r = n
    BY <2>1, <2>2
  <2> QED
    BY <2>3 DEF q, r
<1> QED
  BY <1>1, <1>2, <1>4

-----------------------------------------------------------------------------
(* A frame and a run of frames. *)

\* What has a frame.
Chunk == {p \in Seq(Byte) : Len(p) <= MaxFrame}

(* Both bytes of a length prefix are bytes, and give the length back.      *)
LEMMA Prefix ==
    ASSUME NEW n \in Nat, n <= MaxFrame
    PROVE  /\ n \div Base \in Byte /\ n % Base \in Byte
           /\ (n \div Base) * Base + (n % Base) = n
<1> USE FramingAssumption
<1>1. /\ n \div Base \in Nat /\ n % Base \in 0 .. Base - 1
      /\ (n \div Base) * Base + (n % Base) = n
  BY Division
<1>2. n \div Base < Base
  <2> DEFINE q == n \div Base
  <2>1. q \in Nat /\ Base \in Nat /\ q * Base <= n /\ n < Base * Base
    <3>1. n <= Base * Base - 1 /\ Base * Base \in Nat
      BY DEF MaxFrame
    <3>2. (n \div Base) * Base \in Nat
      BY <1>1
    <3> QED
      BY <1>1, <3>1, <3>2
  <2> HIDE DEF q
  <2> SUFFICES ASSUME Base <= q PROVE FALSE
    BY <2>1 DEF q
  <2>2. q * Base = (q - Base) * Base + Base * Base
    BY <2>1
  <2>3. (q - Base) * Base \in Nat /\ Base * Base \in Nat /\ q * Base \in Nat
    BY <2>1
  <2> QED
    BY <2>1, <2>2, <2>3
<1> QED
  BY <1>1, <1>2 DEF Byte

LEMMA FrameFacts ==
    ASSUME NEW p \in Chunk
    PROVE  /\ Frame(p) \in Seq(Byte)
           /\ Len(Frame(p)) = 2 + Len(p)
           /\ Frame(p)[1] * Base + Frame(p)[2] = Len(p)
           /\ \A i \in 1 .. Len(p) : Frame(p)[2 + i] = p[i]
<1>1. p \in Seq(Byte) /\ Len(p) \in Nat /\ Len(p) <= MaxFrame
  BY DEF Chunk
<1>2. /\ Len(p) \div Base \in Byte /\ Len(p) % Base \in Byte
      /\ (Len(p) \div Base) * Base + (Len(p) % Base) = Len(p)
  BY <1>1, Prefix
<1> DEFINE h == Len(p) \div Base
           l == Len(p) % Base
<1>3. h \in Byte /\ l \in Byte /\ h * Base + l = Len(p)
  BY <1>2
<1>4. Frame(p) = <<h, l>> \o p
  BY DEF Frame
<1> HIDE DEF h, l
<1>5. <<h, l>> \in Seq(Byte) /\ Len(<<h, l>>) = 2
  BY <1>3
<1>6. Frame(p)[1] = h /\ Frame(p)[2] = l
  BY <1>1, <1>4, <1>5
<1>7. \A i \in 1 .. Len(p) : Frame(p)[2 + i] = p[i]
  BY <1>1, <1>4, <1>5
<1> QED
  BY <1>1, <1>3, <1>4, <1>5, <1>6, <1>7

Flattens(qs) ==
    LET flatten[i \in 1 .. Len(qs)] ==
          IF i = 1 THEN qs[i] ELSE flatten[i - 1] \o qs[i]
    IN  flatten

(* Flattening goes from sequence to sequence.                              *)
LEMMA FlattenFacts ==
    ASSUME NEW qs, Len(qs) \in Nat \ {0}
    PROVE  /\ FlattenSeq(qs) = Flattens(qs)[Len(qs)]
           /\ Flattens(qs)[1] = qs[1]
           /\ \A i \in 2 .. Len(qs) : Flattens(qs)[i] = Flattens(qs)[i - 1] \o qs[i]
<1> DEFINE m == Len(qs)
           Good(n, f) == f = [i \in 1 .. n |-> IF i = 1 THEN qs[i] ELSE f[i - 1] \o qs[i]]
           S == {n \in 0 .. m : \E f : Good(n, f)}
           R == Flattens(qs)
<1>1. R = CHOOSE f : Good(m, f)
  BY DEF Flattens
<1>2. FlattenSeq(qs) = R[m]
  BY DEF FlattenSeq, Flattens
<1>3. m \in Nat \ {0}
  OBVIOUS
<1> HIDE DEF m, R
<1>4. 0 \in S
  <2> DEFINE f == [i \in 1 .. 0 |-> <<>>]
  <2>1. f = [i \in 1 .. 0 |-> IF i = 1 THEN qs[i] ELSE f[i - 1] \o qs[i]]
    <3>1. \A i \in 1 .. 0 : FALSE
      OBVIOUS
    <3> QED
      BY <3>1
  <2>2. Good(0, f) /\ 0 \in 0 .. m
    BY <1>3, <2>1
  <2> HIDE DEF Good
  <2> QED
    BY <2>2
<1>5. ASSUME NEW n \in 0 .. m - 1, n \in S PROVE n + 1 \in S
  <2>1. PICK f : Good(n, f)
    BY <1>5
  <2> DEFINE v == IF n = 0 THEN qs[1] ELSE f[n] \o qs[n + 1]
             g == [i \in 1 .. n + 1 |-> IF i = n + 1 THEN v ELSE f[i]]
  <2>2. ASSUME NEW i \in 1 .. n + 1
        PROVE  g[i] = IF i = 1 THEN qs[i] ELSE g[i - 1] \o qs[i]
    <3>1. CASE i = n + 1
      <4>1. g[i] = v
        BY <3>1
      <4>2. CASE n = 0
        BY <3>1, <4>1, <4>2
      <4>3. CASE n # 0
        <5>1. i - 1 = n /\ n \in 1 .. n + 1 /\ n # n + 1 /\ i # 1
          BY <1>3, <3>1, <4>3
        <5>2. g[n] = f[n]
          BY <5>1
        <5> HIDE DEF g, Good
        <5> QED
          BY <3>1, <4>1, <4>3, <5>1, <5>2
      <4> QED
        BY <4>2, <4>3
    <3>2. CASE i \in 1 .. n
      <4>1. i # n + 1 /\ (i # 1 => i - 1 \in 1 .. n + 1 /\ i - 1 # n + 1)
        BY <1>3, <3>2
      <4>2. g[i] = f[i] /\ (i # 1 => g[i - 1] = f[i - 1])
        BY <4>1
      <4>3. f[i] = IF i = 1 THEN qs[i] ELSE f[i - 1] \o qs[i]
        <5> HIDE DEF g, v
        <5> QED
          BY <2>1, <3>2
      <4> HIDE DEF g, Good
      <4> QED
        BY <4>2, <4>3
    <3> QED
      BY <1>3, <3>1, <3>2
  <2>3. g = [i \in 1 .. n + 1 |-> g[i]]
    OBVIOUS
  <2>4. Good(n + 1, g)
    <3> HIDE DEF g, v
    <3> QED
      BY <2>2, <2>3
  <2> HIDE DEF Good
  <2> QED
    BY <1>3, <2>4
<1>6. Good(m, R)
  <2> HIDE DEF S
  <2>1. 0 .. m \subseteq S
    BY <1>3, <1>4, <1>5, UpTo
  <2>2. m \in S
    BY <1>3, <2>1
  <2> USE DEF S
  <2> HIDE DEF Good
  <2> QED
    BY <1>1, <2>2
<1>7. \A i \in 1 .. m : R[i] = IF i = 1 THEN qs[i] ELSE R[i - 1] \o qs[i]
  BY <1>6
<1> HIDE DEF Good
<1>8. R[1] = qs[1]
  BY <1>3, <1>7
<1>9. ASSUME NEW i \in 2 .. m PROVE R[i] = R[i - 1] \o qs[i]
  <2>1. i \in 1 .. m /\ i # 1
    BY <1>3
  <2> QED
    BY <1>7, <2>1
<1> QED
  BY <1>2, <1>8, <1>9 DEF R, m

\* How many bytes the first k of the payloads ps take on the wire.
Offset(ps, k) == Len(Framed(SubSeq(ps, 1, k)))

LEMMA FramedEmpty == Framed(<<>>) = <<>>
<1>1. [i \in DOMAIN <<>> |-> Frame(<<>>[i])] = <<>>
  OBVIOUS
<1>2. Len(<<>>) = 0
  OBVIOUS
<1> QED
  BY <1>1, <1>2 DEF Framed, FlattenSeq

(* One frame more is put behind the others.                                *)
LEMMA FramedNext ==
    ASSUME NEW ps \in Seq(Chunk), NEW k \in 0 .. Len(ps) - 1
    PROVE  Framed(SubSeq(ps, 1, k + 1)) = Framed(SubSeq(ps, 1, k)) \o Frame(ps[k + 1])
<1> DEFINE us == [i \in DOMAIN SubSeq(ps, 1, k + 1) |-> Frame(SubSeq(ps, 1, k + 1)[i])]
           ts == [i \in DOMAIN SubSeq(ps, 1, k) |-> Frame(SubSeq(ps, 1, k)[i])]
<1>1. k \in Nat /\ k + 1 \in Nat \ {0} /\ k + 1 \in 1 .. Len(ps) /\ Len(ps) \in Nat
  OBVIOUS
<1>2. /\ SubSeq(ps, 1, k + 1) \in Seq(Chunk) /\ Len(SubSeq(ps, 1, k + 1)) = k + 1
      /\ \A i \in 1 .. k + 1 : SubSeq(ps, 1, k + 1)[i] = ps[i]
  BY <1>1
<1>3. /\ SubSeq(ps, 1, k) \in Seq(Chunk) /\ Len(SubSeq(ps, 1, k)) = k
      /\ \A i \in 1 .. k : SubSeq(ps, 1, k)[i] = ps[i]
  BY <1>1
<1>4. /\ us = [i \in 1 .. k + 1 |-> Frame(ps[i])] /\ Len(us) = k + 1
      /\ \A i \in 1 .. k + 1 : us[i] = Frame(ps[i])
  BY <1>1, <1>2
<1>5. /\ ts = [i \in 1 .. k |-> Frame(ps[i])] /\ Len(ts) = k
      /\ \A i \in 1 .. k : ts[i] = Frame(ps[i])
  BY <1>1, <1>3
<1>6. Framed(SubSeq(ps, 1, k + 1)) = FlattenSeq(us) /\ Framed(SubSeq(ps, 1, k)) = FlattenSeq(ts)
  BY DEF Framed
<1> HIDE DEF us, ts
<1>7. /\ FlattenSeq(us) = Flattens(us)[k + 1]
      /\ Flattens(us)[1] = Frame(ps[1])
      /\ \A i \in 2 .. k + 1 : Flattens(us)[i] = Flattens(us)[i - 1] \o Frame(ps[i])
  <2>1. /\ FlattenSeq(us) = Flattens(us)[k + 1] /\ Flattens(us)[1] = us[1]
        /\ \A i \in 2 .. k + 1 : Flattens(us)[i] = Flattens(us)[i - 1] \o us[i]
    BY <1>1, <1>4, FlattenFacts
  <2>2. (\A i \in 2 .. k + 1 : i \in 1 .. k + 1) /\ 1 \in 1 .. k + 1
    BY <1>1
  <2>3. us[1] = Frame(ps[1])
    BY <1>4, <2>2
  <2>4. ASSUME NEW i \in 2 .. k + 1
        PROVE  Flattens(us)[i] = Flattens(us)[i - 1] \o Frame(ps[i])
    <3>1. us[i] = Frame(ps[i])
      BY <1>4, <2>2
    <3> QED
      BY <2>1, <3>1
  <2> QED
    BY <2>1, <2>3, <2>4
<1>8. CASE k = 0
  <2>1. Framed(SubSeq(ps, 1, k)) = <<>>
    <3>1. SubSeq(ps, 1, k) = <<>>
      BY <1>3, <1>8
    <3> QED
      BY <3>1, FramedEmpty
  <2>2. Frame(ps[1]) \in Seq(Byte)
    BY <1>1, <1>8, FrameFacts
  <2>3. <<>> \o Frame(ps[1]) = Frame(ps[1])
    BY <2>2
  <2>4. k + 1 = 1
    BY <1>8
  <2> QED
    BY <1>6, <1>7, <2>1, <2>3, <2>4
<1>9. CASE k # 0
  <2>1. /\ FlattenSeq(ts) = Flattens(ts)[k] /\ Flattens(ts)[1] = Frame(ps[1])
        /\ \A i \in 2 .. k : Flattens(ts)[i] = Flattens(ts)[i - 1] \o Frame(ps[i])
    <3>1. /\ FlattenSeq(ts) = Flattens(ts)[k] /\ Flattens(ts)[1] = ts[1]
          /\ \A i \in 2 .. k : Flattens(ts)[i] = Flattens(ts)[i - 1] \o ts[i]
      BY <1>1, <1>5, <1>9, FlattenFacts
    <3>2. (\A i \in 2 .. k : i \in 1 .. k) /\ 1 \in 1 .. k
      BY <1>1, <1>9
    <3> QED
      BY <1>5, <3>1, <3>2
  <2> DEFINE S == {i \in 0 .. k : i = 0 \/ Flattens(us)[i] = Flattens(ts)[i]}
  <2>2. 0 \in S
    BY <1>1
  <2>3. ASSUME NEW n \in 0 .. k - 1, n \in S PROVE n + 1 \in S
    <3>1. CASE n = 0
      BY <1>1, <1>7, <1>9, <2>1, <3>1
    <3>2. CASE n # 0
      <4>1. n + 1 \in 2 .. k /\ n + 1 \in 2 .. k + 1 /\ (n + 1) - 1 = n /\ n + 1 \in 0 .. k
        BY <1>1, <3>2
      <4>2. Flattens(us)[n + 1] = Flattens(us)[n] \o Frame(ps[n + 1])
        BY <1>7, <4>1
      <4>3. Flattens(ts)[n + 1] = Flattens(ts)[n] \o Frame(ps[n + 1])
        BY <2>1, <4>1
      <4>4. Flattens(us)[n] = Flattens(ts)[n]
        BY <2>3, <3>2
      <4> QED
        BY <4>1, <4>2, <4>3, <4>4
    <3> QED
      BY <3>1, <3>2
  <2> HIDE DEF S
  <2>4. 0 .. k \subseteq S
    BY <1>1, <2>2, <2>3, UpTo
  <2>5. Flattens(us)[k] = Flattens(ts)[k]
    BY <1>1, <1>9, <2>4 DEF S
  <2>6. k + 1 \in 2 .. k + 1 /\ (k + 1) - 1 = k
    BY <1>1, <1>9
  <2>7. Flattens(us)[k + 1] = Flattens(us)[k] \o Frame(ps[k + 1])
    BY <1>7, <2>6
  <2> QED
    BY <1>6, <1>7, <2>1, <2>5, <2>7
<1> QED
  BY <1>8, <1>9

\* w is how v begins.
Begins(w, v) == Len(w) <= Len(v) /\ w = SubSeq(v, 1, Len(w))

(* The frames of the first payloads are how the frames of all begin.       *)
LEMMA FramedTyped ==
    ASSUME NEW ps \in Seq(Chunk)
    PROVE  \A k \in 0 .. Len(ps) : Framed(SubSeq(ps, 1, k)) \in Seq(Byte)
<1> DEFINE m == Len(ps)
           S == {k \in 0 .. m : Framed(SubSeq(ps, 1, k)) \in Seq(Byte)}
<1>1. 0 \in S
  <2>1. SubSeq(ps, 1, 0) = <<>>
    OBVIOUS
  <2>2. Framed(SubSeq(ps, 1, 0)) \in Seq(Byte)
    <3>1. <<>> \in Seq(Byte)
      OBVIOUS
    <3> QED
      BY <2>1, <3>1, FramedEmpty
  <2> QED
    BY <2>2
<1>2. ASSUME NEW n \in 0 .. m - 1, n \in S PROVE n + 1 \in S
  <2>1. Framed(SubSeq(ps, 1, n + 1)) = Framed(SubSeq(ps, 1, n)) \o Frame(ps[n + 1])
    BY FramedNext
  <2>2. n + 1 \in 1 .. m /\ n + 1 \in 0 .. m
    OBVIOUS
  <2>3. Frame(ps[n + 1]) \in Seq(Byte)
    BY <2>2, FrameFacts
  <2>4. Framed(SubSeq(ps, 1, n)) \in Seq(Byte)
    BY <1>2
  <2>5. \A u, v \in Seq(Byte) : u \o v \in Seq(Byte)
    OBVIOUS
  <2>6. Framed(SubSeq(ps, 1, n + 1)) \in Seq(Byte)
    BY <2>1, <2>3, <2>4, <2>5, Zenon
  <2> QED
    BY <2>2, <2>6
<1> HIDE DEF S
<1>3. 0 .. m \subseteq S
  BY <1>1, <1>2, UpTo
<1> QED
  BY <1>3 DEF S

LEMMA OffsetNext ==
    ASSUME NEW ps \in Seq(Chunk), NEW k \in 0 .. Len(ps) - 1
    PROVE  /\ Offset(ps, k) \in Nat /\ Len(ps[k + 1]) \in Nat
           /\ Offset(ps, k + 1) = Offset(ps, k) + 2 + Len(ps[k + 1])
<1>1. /\ k \in 0 .. Len(ps) /\ k + 1 \in 1 .. Len(ps) /\ ps[k + 1] \in Chunk
  OBVIOUS
<1>2. Framed(SubSeq(ps, 1, k)) \in Seq(Byte)
  BY <1>1, FramedTyped
<1>3. /\ Frame(ps[k + 1]) \in Seq(Byte) /\ Len(Frame(ps[k + 1])) = 2 + Len(ps[k + 1])
      /\ Len(ps[k + 1]) \in Nat
  BY <1>1, FrameFacts DEF Chunk
<1>4. Framed(SubSeq(ps, 1, k + 1)) = Framed(SubSeq(ps, 1, k)) \o Frame(ps[k + 1])
  BY FramedNext
<1>5. /\ \A u, v \in Seq(Byte) : Len(u \o v) = Len(u) + Len(v)
      /\ \A u \in Seq(Byte) : Len(u) \in Nat
  OBVIOUS
<1> DEFINE w == Framed(SubSeq(ps, 1, k))
<1>6. Offset(ps, k) = Len(w) /\ Offset(ps, k + 1) = Len(w \o Frame(ps[k + 1]))
  BY <1>4 DEF Offset
<1>7. w \in Seq(Byte)
  BY <1>2
<1> HIDE DEF w
<1>8. Offset(ps, k + 1) = Len(w) + Len(Frame(ps[k + 1])) /\ Len(w) \in Nat
  BY <1>3, <1>5, <1>6, <1>7, Zenon
<1>9. Offset(ps, k + 1) = Len(w) + (2 + Len(ps[k + 1])) /\ Offset(ps, k) = Len(w)
  BY <1>3, <1>6, <1>8, Zenon
<1> DEFINE n == Len(ps[k + 1])
<1>10. n \in Nat /\ Offset(ps, k + 1) = Len(w) + (2 + n)
  BY <1>3, <1>9
<1> HIDE DEF n
<1>11. Offset(ps, k + 1) = Len(w) + 2 + n
  BY <1>8, <1>10
<1> QED
  BY <1>3, <1>8, <1>9, <1>11, Zenon DEF n

LEMMA SameBytes ==
    ASSUME NEW u \in Seq(Byte), NEW v \in Seq(Byte), NEW n, Len(u) = n, Len(v) = n,
           \A x \in 1 .. n : u[x] = v[x]
    PROVE  u = v
OBVIOUS

LEMMA BeginsJoined ==
    ASSUME NEW w \in Seq(Byte), NEW u \in Seq(Byte), NEW v \in Seq(Byte), Begins(w, u)
    PROVE  Begins(w, u \o v)
<1>1. Len(w) <= Len(u) /\ w = SubSeq(u, 1, Len(w))
  BY DEF Begins
<1>2. Len(w) \in Nat /\ Len(u) \in Nat /\ Len(u \o v) = Len(u) + Len(v) /\ Len(v) \in Nat
  OBVIOUS
<1>3. \A i \in 1 .. Len(u) : (u \o v)[i] = u[i]
  OBVIOUS
<1>4. \A i \in 1 .. Len(w) : w[i] = SubSeq(u \o v, 1, Len(w))[i]
  <2> SUFFICES ASSUME NEW i \in 1 .. Len(w) PROVE w[i] = SubSeq(u \o v, 1, Len(w))[i]
    OBVIOUS
  <2>1. i \in 1 .. Len(u)
    BY <1>1, <1>2
  <2>2. w[i] = u[i]
    BY <1>1, <1>2, <2>1
  <2>3. SubSeq(u \o v, 1, Len(w))[i] = (u \o v)[i]
    BY <1>1, <1>2
  <2> QED
    BY <1>3, <2>1, <2>2, <2>3
<1>5. SubSeq(u \o v, 1, Len(w)) \in Seq(Byte) /\ Len(SubSeq(u \o v, 1, Len(w))) = Len(w)
  BY <1>1, <1>2
<1>6. w = SubSeq(u \o v, 1, Len(w))
  <2> DEFINE x == SubSeq(u \o v, 1, Len(w))
  <2>1. x \in Seq(Byte) /\ Len(x) = Len(w) /\ \A i \in 1 .. Len(w) : w[i] = x[i]
    BY <1>4, <1>5
  <2> HIDE DEF x
  <2>2. w = x
    BY <2>1
  <2> QED
    BY <2>2 DEF x
<1> QED
  BY <1>1, <1>2, <1>6 DEF Begins

LEMMA FramedBegins ==
    ASSUME NEW ps \in Seq(Chunk), NEW i \in 0 .. Len(ps), NEW k \in i .. Len(ps)
    PROVE  Begins(Framed(SubSeq(ps, 1, i)), Framed(SubSeq(ps, 1, k)))
<1> DEFINE W(n) == Framed(SubSeq(ps, 1, n))
           m == Len(ps)
           S == {n \in 0 .. m : n >= i => Begins(W(i), W(n))}
<1>1. m \in Nat /\ \A n \in 0 .. m : W(n) \in Seq(Byte)
  BY FramedTyped
<1>2. Begins(W(i), W(i))
  <2>1. W(i) \in Seq(Byte)
    BY <1>1
  <2> HIDE DEF W
  <2> QED
    BY <2>1 DEF Begins
<1>3. 0 \in S
  BY <1>1, <1>2
<1>4. ASSUME NEW n \in 0 .. m - 1, n \in S PROVE n + 1 \in S
  <2>1. n + 1 \in 0 .. m /\ n \in 0 .. m /\ n + 1 \in 1 .. m /\ i \in 0 .. m
    BY <1>1
  <2>2. CASE n >= i
    <3>1. Begins(W(i), W(n))
      BY <1>4, <2>2
    <3>2. W(n + 1) = W(n) \o Frame(ps[n + 1])
      BY FramedNext
    <3>3. Frame(ps[n + 1]) \in Seq(Byte)
      BY <2>1, FrameFacts
    <3>4. Begins(W(i), W(n) \o Frame(ps[n + 1]))
      <4> HIDE DEF W
      <4> QED
        BY <1>1, <2>1, <3>1, <3>3, BeginsJoined
    <3> QED
      BY <2>1, <3>2, <3>4
  <2>3. CASE ~(n >= i)
    <3>1. n + 1 >= i => n + 1 = i
      BY <1>1, <2>1, <2>3
    <3> HIDE DEF W
    <3> QED
      BY <1>2, <2>1, <3>1
  <2> QED
    BY <2>2, <2>3
<1> HIDE DEF S, W
<1>5. 0 .. m \subseteq S
  BY <1>1, <1>3, <1>4, UpTo
<1>6. k \in S /\ k >= i
  BY <1>1, <1>5
<1> QED
  BY <1>6 DEF S, W

(* Where each frame lies in the stream.                                    *)
LEMMA StreamFacts ==
    ASSUME NEW ps \in Seq(Chunk)
    PROVE  /\ Framed(ps) \in Seq(Byte)
           /\ Offset(ps, 0) = 0 /\ Offset(ps, Len(ps)) = Len(Framed(ps))
           /\ \A i \in 0 .. Len(ps) :
                 /\ Offset(ps, i) \in Nat
                 /\ \A k \in i .. Len(ps) : Offset(ps, i) <= Offset(ps, k)
                 /\ Framed(SubSeq(ps, 1, i)) = SubSeq(Framed(ps), 1, Offset(ps, i))
<1> DEFINE m == Len(ps)
<1>1. m \in Nat /\ SubSeq(ps, 1, m) = ps /\ SubSeq(ps, 1, 0) = <<>> /\ m \in 0 .. m
  OBVIOUS
<1>2. \A n \in 0 .. m : Framed(SubSeq(ps, 1, n)) \in Seq(Byte)
  BY FramedTyped
<1>3. Framed(ps) \in Seq(Byte) /\ Offset(ps, 0) = 0 /\ Offset(ps, m) = Len(Framed(ps))
  <2>1. Framed(ps) \in Seq(Byte)
    BY <1>1, <1>2
  <2>2. Framed(SubSeq(ps, 1, 0)) = <<>> /\ Framed(SubSeq(ps, 1, m)) = Framed(ps)
    BY <1>1, FramedEmpty
  <2> QED
    BY <2>1, <2>2 DEF Offset
<1>4. ASSUME NEW i \in 0 .. m
      PROVE  /\ Offset(ps, i) \in Nat
             /\ \A k \in i .. m : Offset(ps, i) <= Offset(ps, k)
             /\ Framed(SubSeq(ps, 1, i)) = SubSeq(Framed(ps), 1, Offset(ps, i))
  <2>1. Offset(ps, i) \in Nat
    BY <1>2 DEF Offset
  <2>2. ASSUME NEW k \in i .. m PROVE Offset(ps, i) <= Offset(ps, k)
    BY FramedBegins DEF Offset, Begins
  <2>3. Framed(SubSeq(ps, 1, i)) = SubSeq(Framed(ps), 1, Offset(ps, i))
    <3>1. m \in i .. m
      BY <1>1
    <3>2. Begins(Framed(SubSeq(ps, 1, i)), Framed(SubSeq(ps, 1, m)))
      BY <3>1, FramedBegins
    <3> QED
      BY <1>1, <3>2 DEF Begins, Offset
  <2> QED
    BY <2>1, <2>2, <2>3
<1> QED
  BY <1>3, <1>4

\* What stands in s behind the first a, up to the g-th.
Slice(s, a, g) == SubSeq(s, a + 1, g)

(* Behind its offset stands a frame.                                       *)
LEMMA FrameThere ==
    ASSUME NEW ps \in Seq(Chunk), NEW k \in 0 .. Len(ps) - 1
    PROVE  /\ Frame(ps[k + 1]) = Slice(Framed(ps), Offset(ps, k), Offset(ps, k + 1))
           /\ \A j \in 1 .. 2 + Len(ps[k + 1]) :
                 Framed(ps)[Offset(ps, k) + j] = Frame(ps[k + 1])[j]
<1> DEFINE s == Framed(ps)
           o == Offset(ps, k)
           f == Frame(ps[k + 1])
           w == Framed(SubSeq(ps, 1, k))
           e == Offset(ps, k + 1)
<1>1. /\ k \in 0 .. Len(ps) /\ k + 1 \in 0 .. Len(ps) /\ k + 1 \in 1 .. Len(ps)
      /\ ps[k + 1] \in Chunk
  OBVIOUS
<1>2. /\ f \in Seq(Byte) /\ Len(f) = 2 + Len(ps[k + 1]) /\ Len(ps[k + 1]) \in Nat
      /\ f[1] * Base + f[2] = Len(ps[k + 1])
      /\ \A i \in 1 .. Len(ps[k + 1]) : f[2 + i] = ps[k + 1][i]
  BY SMTT(30), <1>1, FrameFacts DEF Chunk
<1>3. w \in Seq(Byte) /\ Len(w) = o
  BY <1>1, FramedTyped DEF Offset
<1>4. w \o f = SubSeq(s, 1, e)
  BY <1>1, FramedNext, StreamFacts
<1>5. s \in Seq(Byte) /\ e \in Nat /\ e <= Len(s) /\ o \in Nat /\ e = o + 2 + Len(ps[k + 1])
  <2>1. s \in Seq(Byte) /\ e \in Nat /\ e <= Len(s)
    <3>1. Len(ps) \in (k + 1) .. Len(ps)
      BY <1>1
    <3> QED
      BY <1>1, <3>1, StreamFacts
  <2> QED
    BY <2>1, OffsetNext
<1> HIDE DEF s, o, f, w, e
<1>6. ASSUME NEW j \in 1 .. 2 + Len(ps[k + 1]) PROVE s[o + j] = f[j]
  <2> DEFINE n == Len(ps[k + 1])
  <2>4. n \in Nat /\ j \in 1 .. 2 + n /\ e = o + 2 + n /\ o \in Nat /\ Len(f) = 2 + n
    BY <1>2, <1>5
  <2> HIDE DEF n
  <2>1. o + j \in 1 .. e /\ j \in 1 .. Len(f) /\ j \in Nat /\ o + j \in Nat
    BY <2>4
  <2>2. (w \o f)[o + j] = f[j]
    <3>1. \A x \in 1 .. Len(f) : (w \o f)[Len(w) + x] = f[x]
      <4>1. w \in Seq(Byte) /\ f \in Seq(Byte)
        BY <1>2, <1>3
      <4> QED
        BY <4>1
    <3> QED
      BY <1>3, <2>1, <3>1
  <2>3. SubSeq(s, 1, e)[o + j] = s[o + j]
    BY <1>5, <2>1
  <2> QED
    BY <1>4, <2>2, <2>3
<1>7. f = SubSeq(s, o + 1, e)
  <2> DEFINE n == Len(ps[k + 1])
             v == SubSeq(s, o + 1, e)
  <2>1. /\ n \in Nat /\ e = o + 2 + n /\ o \in Nat /\ e <= Len(s) /\ s \in Seq(Byte)
        /\ f \in Seq(Byte) /\ Len(f) = 2 + n
    BY <1>2, <1>5
  <2>2. \A x \in 1 .. 2 + n : s[o + x] = f[x]
    BY <1>6
  <2> HIDE DEF n
  <2>3. v \in Seq(Byte) /\ Len(v) = 2 + n /\ \A x \in 1 .. 2 + n : v[x] = s[o + x]
    BY <2>1
  <2> HIDE DEF v
  <2>4. \A x \in 1 .. 2 + n : v[x] = f[x]
    BY <2>2, <2>3
  <2>5. v = f
    BY <2>1, <2>3, <2>4, SameBytes
  <2> QED
    BY <2>5 DEF v
<1> QED
  BY <1>6, <1>7 DEF s, o, f, e, Slice

(* Its length and its payload.                                             *)
LEMMA FrameAt ==
    ASSUME NEW ps \in Seq(Chunk), NEW k \in 0 .. Len(ps) - 1
    PROVE  LET s == Framed(ps)
               o == Offset(ps, k)
           IN  /\ s[o + 1] * Base + s[o + 2] = Len(ps[k + 1])
               /\ \A i \in 1 .. Len(ps[k + 1]) : s[o + 2 + i] = ps[k + 1][i]
<1> DEFINE s == Framed(ps)
           o == Offset(ps, k)
           f == Frame(ps[k + 1])
<1>1. k + 1 \in 1 .. Len(ps) /\ ps[k + 1] \in Chunk
  OBVIOUS
<1>2. /\ Len(ps[k + 1]) \in Nat
      /\ f[1] * Base + f[2] = Len(ps[k + 1])
      /\ \A i \in 1 .. Len(ps[k + 1]) : f[2 + i] = ps[k + 1][i]
  <2> DEFINE p == ps[k + 1]
  <2>1. p \in Chunk
    BY <1>1
  <2> HIDE DEF p
  <2>2. Len(p) \in Nat
    BY <2>1 DEF Chunk
  <2>3. /\ Frame(p)[1] * Base + Frame(p)[2] = Len(p)
        /\ \A i \in 1 .. Len(p) : Frame(p)[2 + i] = p[i]
    BY <2>1, FrameFacts
  <2> QED
    BY <2>2, <2>3 DEF p
<1>5. o \in Nat
  BY OffsetNext
<1>6. \A j \in 1 .. 2 + Len(ps[k + 1]) : s[o + j] = f[j]
  BY FrameThere
<1> HIDE DEF s, o, f
<1>7. s[o + 1] = f[1] /\ s[o + 2] = f[2]
  BY <1>2, <1>6
<1>8. ASSUME NEW i \in 1 .. Len(ps[k + 1]) PROVE s[o + 2 + i] = ps[k + 1][i]
  <2>1. 2 + i \in 1 .. 2 + Len(ps[k + 1]) /\ o + (2 + i) = o + 2 + i
    BY <1>2, <1>5
  <2> QED
    BY <1>2, <1>6, <2>1
<1> QED
  BY <1>2, <1>7, <1>8 DEF s, o

-----------------------------------------------------------------------------
(* Cutting a buffer into frames. *)

Parsed == [frames : Seq(Chunk), rest : Seq(Byte)]

Splits(b) ==
    LET split[off \in 0 .. Len(b)] ==
          IF ~Complete(b, off)
          THEN [frames |-> <<>>, rest |-> SubSeq(b, off + 1, Len(b))]
          ELSE LET next == off + 2 + FrameLength(b, off)
                   tail == split[next]
               IN  [frames |-> <<SubSeq(b, off + 3, next)>> \o tail.frames,
                    rest   |-> tail.rest]
    IN  split

\* What is found from off on, tail being what is found behind the frame there.
Found(b, off, tail) ==
    IF ~Complete(b, off)
    THEN [frames |-> <<>>, rest |-> SubSeq(b, off + 1, Len(b))]
    ELSE [frames |-> <<SubSeq(b, off + 3, off + 2 + FrameLength(b, off))>> \o tail.frames,
          rest   |-> tail.rest]

(* A complete frame ends within the buffer.                                *)
LEMMA CompleteFacts ==
    ASSUME NEW b \in Seq(Byte), NEW off \in 0 .. Len(b), Complete(b, off)
    PROVE  /\ FrameLength(b, off) \in 0 .. MaxFrame
           /\ off + 2 + FrameLength(b, off) \in off + 2 .. Len(b)
<1> USE FramingAssumption
<1>1. off \in Nat /\ Len(b) \in Nat
  OBVIOUS
<1>2. Len(b) - off >= 2 /\ Len(b) - off >= 2 + FrameLength(b, off)
  BY DEF Complete
<1>3. off + 1 \in 1 .. Len(b) /\ off + 2 \in 1 .. Len(b)
  BY <1>1, <1>2
<1> DEFINE h == b[off + 1]
           l == b[off + 2]
<1>4. h \in Byte /\ l \in Byte
  BY <1>3
<1>5. FrameLength(b, off) = h * Base + l
  BY DEF FrameLength
<1> HIDE DEF h, l
<1>6. h * Base + l \in 0 .. MaxFrame
  <2>1. h \in Nat /\ l \in Nat /\ Base \in Nat \ {0} /\ h <= Base - 1 /\ l <= Base - 1
    BY <1>4 DEF Byte
  <2>2. (Base - 1 - h) * Base \in Nat /\ h * Base \in Nat /\ Base * Base \in Nat
    BY <2>1
  <2>3. Base * Base = (Base - 1 - h) * Base + h * Base + Base
    BY <2>1
  <2> QED
    BY <2>1, <2>2, <2>3 DEF MaxFrame
<1> QED
  BY <1>1, <1>2, <1>5, <1>6

LEMMA FoundTyped ==
    ASSUME NEW b \in Seq(Byte), NEW off \in 0 .. Len(b), NEW tail, 
           Complete(b, off) => tail \in Parsed
    PROVE  Found(b, off, tail) \in Parsed
<1>1. off \in Nat /\ Len(b) \in Nat
  OBVIOUS
<1>2. CASE ~Complete(b, off)
  <2>1. SubSeq(b, off + 1, Len(b)) \in Seq(Byte) /\ <<>> \in Seq(Chunk)
    BY <1>1
  <2> QED
    BY <1>2, <2>1 DEF Found, Parsed
<1>3. CASE Complete(b, off)
  <2> DEFINE n == FrameLength(b, off)
             p == SubSeq(b, off + 3, off + 2 + n)
  <2>1. n \in Nat /\ n <= MaxFrame /\ off + 2 + n <= Len(b)
    BY <1>3, CompleteFacts, FramingAssumption DEF MaxFrame
  <2> HIDE DEF n
  <2>2. p \in Seq(Byte) /\ Len(p) = n
    BY <1>1, <2>1
  <2>3. p \in Chunk
    BY <2>1, <2>2 DEF Chunk
  <2> HIDE DEF p
  <2>4. tail.frames \in Seq(Chunk) /\ tail.rest \in Seq(Byte)
    BY <1>3 DEF Parsed
  <2>5. <<p>> \o tail.frames \in Seq(Chunk)
    BY <2>3, <2>4
  <2>6. Found(b, off, tail) = [frames |-> <<p>> \o tail.frames, rest |-> tail.rest]
    BY <1>3 DEF Found, p, n
  <2> QED
    BY <2>4, <2>5, <2>6 DEF Parsed
<1> QED
  BY <1>2, <1>3

(* The cutting goes from frame to frame.                                   *)
LEMMA SplitFacts ==
    ASSUME NEW b \in Seq(Byte)
    PROVE  /\ IterFrames(b) = Splits(b)[0]
           /\ \A off \in 0 .. Len(b) :
                 /\ Splits(b)[off] \in Parsed
                 /\ Splits(b)[off] =
                       Found(b, off, Splits(b)[off + 2 + FrameLength(b, off)])
<1> DEFINE m == Len(b)
           After(off) == off + 2 + FrameLength(b, off)
           Good(n, f) == f = [off \in m - n .. m |-> Found(b, off, f[After(off)])]
           S == {n \in 0 .. m : \E f : Good(n, f)}
           R == Splits(b)
<1>1. R = CHOOSE f : f = [off \in 0 .. m |-> Found(b, off, f[After(off)])]
  BY DEF Splits, Found
<1>2. IterFrames(b) = R[0]
  BY DEF IterFrames, Splits
<1>3. m \in Nat /\ m = Len(b)
  OBVIOUS
<1>4. ASSUME NEW off \in 0 .. m, Complete(b, off) PROVE After(off) \in off + 2 .. m
  BY <1>4, CompleteFacts
<1>5. ASSUME NEW off, ~Complete(b, off), NEW t, NEW u PROVE Found(b, off, t) = Found(b, off, u)
  BY <1>5 DEF Found
<1>6. 0 \in S
  <2> DEFINE f == [off \in m - 0 .. m |-> Found(b, off, 0)]
  <2>1. \A off \in m - 0 .. m : off \in 0 .. m /\ ~Complete(b, off)
    <3> SUFFICES ASSUME NEW off \in m - 0 .. m, Complete(b, off) PROVE FALSE
      BY <1>3
    <3>1. off = m /\ off \in 0 .. m
      BY <1>3
    <3>2. After(off) \in off + 2 .. m
      BY <1>4, <3>1
    <3> HIDE DEF After
    <3> QED
      BY <1>3, <3>1, <3>2
  <2>2. \A off \in m - 0 .. m : Found(b, off, 0) = Found(b, off, f[After(off)])
    BY <1>5, <2>1
  <2>3. Good(0, f)
    BY <2>2
  <2>4. 0 \in 0 .. m
    BY <1>3
  <2> HIDE DEF Good, m, f
  <2> QED
    BY <2>3, <2>4
<1> HIDE DEF m, R, After
<1>7. ASSUME NEW n \in 0 .. m - 1, n \in S PROVE n + 1 \in S
  <2>1. PICK f : Good(n, f)
    BY <1>7
  <2> DEFINE a == m - (n + 1)
             g == [off \in a .. m |->
                     IF off = a THEN Found(b, off, f[After(off)]) ELSE f[off]]
  <2>2. a \in 0 .. m /\ m - n = a + 1 /\ m - (n + 1) = a
    BY <1>3
  <2> HIDE DEF a
  <2>3. \A off \in a + 1 .. m : f[off] = Found(b, off, f[After(off)])
    <3> HIDE DEF g
    <3> QED
      BY <2>1, <2>2
  <2>4. \A off \in a + 1 .. m : g[off] = f[off]
    BY <1>3, <2>2
  <2>5. g[a] = Found(b, a, f[After(a)])
    BY <1>3, <2>2
  <2>6. g = [off \in a .. m |-> g[off]]
    OBVIOUS
  <2> HIDE DEF g
  <2>7. ASSUME NEW off \in a .. m PROVE g[off] = Found(b, off, g[After(off)])
    <3>1. g[off] = Found(b, off, f[After(off)])
      <4>1. CASE off = a
        BY <2>5, <4>1
      <4>2. CASE off # a
        <5>1. off \in a + 1 .. m
          BY <1>3, <2>2, <4>2
        <5> QED
          BY <2>3, <2>4, <5>1
      <4> QED
        BY <4>1, <4>2
    <3>2. CASE Complete(b, off)
      <4>1. off \in 0 .. m
        BY <1>3, <2>2
      <4>2. After(off) \in off + 2 .. m
        BY <1>4, <3>2, <4>1
      <4>3. After(off) \in a + 1 .. m
        BY <1>3, <2>2, <4>1, <4>2
      <4>4. g[After(off)] = f[After(off)]
        BY <2>4, <4>3
      <4> QED
        BY <3>1, <4>4
    <3>3. CASE ~Complete(b, off)
      BY <1>5, <3>1, <3>3
    <3> QED
      BY <3>2, <3>3
  <2>8. Good(n + 1, g)
    BY <2>2, <2>6, <2>7
  <2> HIDE DEF Good
  <2> QED
    BY <1>3, <2>8
<1>8. Good(m, R)
  <2> HIDE DEF S
  <2>1. 0 .. m \subseteq S
    BY <1>3, <1>6, <1>7, UpTo
  <2>2. m \in S
    BY <1>3, <2>1
  <2>3. \E f : Good(m, f)
    <3> HIDE DEF Good
    <3> QED
      BY <2>2 DEF S
  <2>4. m - m = 0
    BY <1>3
  <2> QED
    BY <1>1, <2>3, <2>4
<1>9. \A off \in 0 .. m : R[off] = Found(b, off, R[After(off)])
  <2>1. m - m = 0
    BY <1>3
  <2> QED
    BY <1>8, <2>1
<1> HIDE DEF Good, S
<1>10. \A off \in 0 .. m : R[off] \in Parsed
  <2> DEFINE T == {n \in 0 .. m : \A off \in m - n .. m : R[off] \in Parsed}
  <2>1. ASSUME NEW n \in 0 .. m, \A off \in m - n + 1 .. m : R[off] \in Parsed
        PROVE  n \in T
    <3> SUFFICES ASSUME NEW off \in m - n .. m PROVE R[off] \in Parsed
      OBVIOUS
    <3>1. off \in 0 .. m
      BY <1>3
    <3>2. ASSUME Complete(b, off) PROVE R[After(off)] \in Parsed
      <4>1. After(off) \in off + 2 .. m
        BY <1>4, <3>1, <3>2
      <4>2. After(off) \in m - n + 1 .. m
        BY <1>3, <3>1, <4>1
      <4> QED
        BY <2>1, <4>2
    <3>3. Found(b, off, R[After(off)]) \in Parsed
      BY <1>3, <3>1, <3>2, FoundTyped
    <3> QED
      BY <1>9, <3>1, <3>3
  <2>2. 0 \in T
    <3>1. 0 \in 0 .. m /\ \A off \in m - 0 + 1 .. m : FALSE
      BY <1>3
    <3> HIDE DEF T
    <3> QED
      BY <2>1, <3>1
  <2>3. ASSUME NEW n \in 0 .. m - 1, n \in T PROVE n + 1 \in T
    <3>1. m - (n + 1) + 1 = m - n /\ n + 1 \in 0 .. m
      BY <1>3
    <3>2. \A off \in m - n .. m : R[off] \in Parsed
      BY <2>3
    <3> HIDE DEF T
    <3> QED
      BY <2>1, <3>1, <3>2
  <2> HIDE DEF T
  <2>4. m \in T
    <3>1. 0 .. m \subseteq T
      BY <1>3, <2>2, <2>3, UpTo
    <3> QED
      BY <1>3, <3>1
  <2>5. m - m = 0
    BY <1>3
  <2> QED
    BY <2>4, <2>5 DEF T
<1> QED
  BY <1>2, <1>9, <1>10 DEF m, R, After

\* b is what stands in s behind its first a bytes, up to the g-th.
Window(s, a, g, b) ==
    /\ s \in Seq(Byte) /\ a \in Nat /\ g \in Nat /\ a <= g /\ g <= Len(s)
    /\ b = Slice(s, a, g)

LEMMA WindowFacts ==
    ASSUME NEW s \in Seq(Byte), NEW a \in Nat, NEW g \in Nat, NEW b,
           Window(s, a, g, b)
    PROVE  /\ b \in Seq(Byte) /\ Len(b) = g - a /\ Len(b) \in Nat
           /\ \A x \in 1 .. g - a : b[x] = s[a + x]
<1>1. s \in Seq(Byte) /\ a \in Nat /\ g \in Nat /\ a <= g /\ g <= Len(s) /\ Len(s) \in Nat
  BY DEF Window
<1>2. b = SubSeq(s, a + 1, g)
  BY DEF Window, Slice
<1> QED
  BY <1>1, <1>2

LEMMA WindowEnd ==
    ASSUME NEW s \in Seq(Byte), NEW a \in Nat, NEW g \in Nat, NEW b,
           Window(s, a, g, b), NEW o \in 0 .. g - a
    PROVE  Slice(b, o, Len(b)) = Slice(s, a + o, g)
<1>1. s \in Seq(Byte) /\ a \in Nat /\ g \in Nat /\ a <= g /\ g <= Len(s) /\ Len(s) \in Nat
  BY DEF Window
<1>2. b \in Seq(Byte) /\ Len(b) = g - a /\ \A x \in 1 .. g - a : b[x] = s[a + x]
  BY WindowFacts
<1> DEFINE u == SubSeq(b, o + 1, Len(b))
           v == SubSeq(s, a + o + 1, g)
           n == g - a - o
<1>3. n \in Nat /\ o \in Nat
  BY <1>1
<1>4. u \in Seq(Byte) /\ Len(u) = n /\ \A x \in 1 .. n : u[x] = b[o + x]
  BY <1>1, <1>2
<1>5. v \in Seq(Byte) /\ Len(v) = n /\ \A x \in 1 .. n : v[x] = s[a + o + x]
  BY <1>1
<1>6. ASSUME NEW x \in 1 .. n PROVE b[o + x] = s[a + o + x]
  <2>1. o + x \in 1 .. g - a /\ a + (o + x) = a + o + x
    BY <1>1
  <2> QED
    BY <1>2, <2>1
<1>7. \A x \in 1 .. n : u[x] = v[x]
  BY <1>4, <1>5, <1>6
<1> HIDE DEF u, v, n
<1>8. u = v
  BY <1>4, <1>5, <1>7, SameBytes
<1> QED
  BY <1>8 DEF u, v, Slice

(* The two bytes o behind the start of the window are a length prefix.     *)
LEMMA WindowLength ==
    ASSUME NEW s \in Seq(Byte), NEW a \in Nat, NEW g \in Nat, NEW b,
           Window(s, a, g, b), NEW o \in Nat, a + o + 2 <= g,
           NEW n, s[a + o + 1] * Base + s[a + o + 2] = n
    PROVE  FrameLength(b, o) = n
<1>1. s \in Seq(Byte) /\ a \in Nat /\ g \in Nat /\ a <= g
  BY DEF Window
<1>2. \A x \in 1 .. g - a : b[x] = s[a + x]
  BY WindowFacts
<1>3. /\ o + 1 \in 1 .. g - a /\ a + (o + 1) = a + o + 1
      /\ o + 2 \in 1 .. g - a /\ a + (o + 2) = a + o + 2
  BY <1>1
<1>4. b[o + 1] = s[a + o + 1] /\ b[o + 2] = s[a + o + 2]
  BY <1>2, <1>3
<1> QED
  BY <1>4 DEF FrameLength

\* What is found when p stands before what r says.
Preceded(p, r) == [frames |-> <<p>> \o r.frames, rest |-> r.rest]

(* A whole frame in a window is found there.                               *)
WholeFrame(s, a, g, b, o, p) ==
    /\ Window(s, a, g, b) /\ o \in Nat /\ p \in Seq(Byte)
    /\ a + o + 2 + Len(p) <= g
    /\ s[a + o + 1] * Base + s[a + o + 2] = Len(p)
    /\ \A x \in 1 .. Len(p) : s[a + o + 2 + x] = p[x]

LEMMA WindowFrame ==
    ASSUME NEW s, NEW a, NEW g, NEW b, NEW o, NEW p, WholeFrame(s, a, g, b, o, p)
    PROVE  /\ o + 2 + FrameLength(b, o) = o + 2 + Len(p)
           /\ \A tail : Found(b, o, tail) = Preceded(p, tail)
<1>0. /\ s \in Seq(Byte) /\ a \in Nat /\ g \in Nat /\ Window(s, a, g, b) /\ o \in Nat
      /\ p \in Seq(Byte) /\ a + o + 2 + Len(p) <= g
      /\ s[a + o + 1] * Base + s[a + o + 2] = Len(p)
      /\ \A x \in 1 .. Len(p) : s[a + o + 2 + x] = p[x]
  BY DEF WholeFrame, Window
<1> DEFINE n == Len(p)
<1>1. s \in Seq(Byte) /\ a \in Nat /\ g \in Nat /\ a <= g /\ o \in Nat
  BY <1>0 DEF Window
<1>2. b \in Seq(Byte) /\ Len(b) = g - a /\ \A x \in 1 .. g - a : b[x] = s[a + x]
  BY <1>0, WindowFacts
<1>3. n \in Nat /\ a + o + 2 <= g /\ a + o + 2 + n <= g
  <2>1. n \in Nat
    BY <1>0
  <2>2. a + o + 2 + n <= g
    BY <1>0
  <2> HIDE DEF n
  <2> QED
    BY <1>1, <2>1, <2>2
<1>4. FrameLength(b, o) = n
  BY <1>0, <1>3, WindowLength
<1>5. \A x \in 1 .. n : s[a + o + 2 + x] = p[x]
  BY <1>0
<1>6. p \in Seq(Byte) /\ n = Len(p)
  BY <1>0
<1> HIDE DEF n
<1>7. Complete(b, o)
  BY <1>1, <1>2, <1>3, <1>4 DEF Complete
<1> DEFINE q == SubSeq(b, o + 3, o + 2 + n)
<1>8. q \in Seq(Byte) /\ Len(q) = n /\ \A x \in 1 .. n : q[x] = b[o + 2 + x]
  BY <1>1, <1>2, <1>3
<1>9. ASSUME NEW x \in 1 .. n PROVE b[o + 2 + x] = p[x]
  <2>1. o + 2 + x \in 1 .. g - a /\ a + (o + 2 + x) = a + o + 2 + x
    BY <1>1, <1>3
  <2> QED
    BY <1>2, <1>5, <2>1
<1>10. q = SubSeq(b, o + 3, o + 2 + n)
  OBVIOUS
<1> HIDE DEF q
<1>11. q = p
  <2>1. \A x \in 1 .. n : q[x] = p[x]
    BY <1>8, <1>9
  <2> QED
    BY <1>6, <1>8, <2>1, SameBytes
<1> QED
  BY <1>4, <1>6, <1>7, <1>10, <1>11 DEF Found, Preceded

(* Less than a frame at the end of a window is left there.                 *)
PartFrame(s, a, g, b, o, n) ==
    /\ Window(s, a, g, b) /\ o \in 0 .. g - a /\ n \in Nat
    /\ g < a + o + 2 + n
    /\ a + o + 2 <= g => s[a + o + 1] * Base + s[a + o + 2] = n

LEMMA WindowRest ==
    ASSUME NEW s, NEW a, NEW g, NEW b, NEW o, NEW n, PartFrame(s, a, g, b, o, n)
    PROVE  \A tail : Found(b, o, tail) = [frames |-> <<>>, rest |-> Slice(s, a + o, g)]
<1>0. /\ s \in Seq(Byte) /\ a \in Nat /\ g \in Nat /\ Window(s, a, g, b)
      /\ o \in 0 .. g - a /\ n \in Nat /\ g < a + o + 2 + n
      /\ a + o + 2 <= g => s[a + o + 1] * Base + s[a + o + 2] = n
  BY DEF PartFrame, Window
<1>1. a \in Nat /\ g \in Nat /\ a <= g /\ o \in Nat
  BY <1>0 DEF Window
<1>2. Len(b) = g - a
  BY <1>0, WindowFacts
<1>3. ~Complete(b, o)
  <2>1. CASE a + o + 2 <= g
    <3>1. FrameLength(b, o) = n
      BY <1>0, <2>1, WindowLength
    <3>2. ~(Len(b) - o >= 2 + n)
      BY <1>0, <1>1, <1>2
    <3> QED
      BY <3>1, <3>2 DEF Complete
  <2>2. CASE ~(a + o + 2 <= g)
    <3>1. ~(Len(b) - o >= 2)
      BY <1>0, <1>1, <1>2, <2>2
    <3> QED
      BY <3>1 DEF Complete
  <2> QED
    BY <2>1, <2>2
<1>4. SubSeq(b, o + 1, Len(b)) = Slice(s, a + o, g)
  BY SMTT(30), <1>0, WindowEnd DEF Slice
<1> QED
  BY <1>3, <1>4 DEF Found

(* From the first byte of frame k + 1 on, a buffer that ends within frame  *)
(* j + 1 gives the frames up to j, and the bytes of the one after it.      *)
LEMMA Recovered ==
    ASSUME NEW ps \in Seq(Chunk), NEW j \in 0 .. Len(ps), NEW k \in 0 .. j, NEW g \in Nat,
           Offset(ps, j) <= g, g <= Len(Framed(ps)),
           j < Len(ps) => g < Offset(ps, j + 1),
           NEW b, b = Slice(Framed(ps), Offset(ps, k), g)
    PROVE  /\ b \in Seq(Byte)
           /\ IterFrames(b).frames = Slice(ps, k, j)
           /\ IterFrames(b).rest = Slice(Framed(ps), Offset(ps, j), g)
<1> DEFINE s == Framed(ps)
           m == Len(ps)
           a == Offset(ps, k)
           e == Offset(ps, j)
           R == Splits(b)
           Pos(i) == Offset(ps, i) - a
           E(i) == [frames |-> SubSeq(ps, i + 1, j), rest |-> Slice(s, e, g)]
           T == {n \in 0 .. j - k : R[Pos(j - n)] = E(j - n)}
<1>1. m \in Nat /\ j \in Nat /\ k \in Nat /\ k <= j /\ j <= m /\ j \in 0 .. m /\ g \in Nat
  OBVIOUS
<1>2. /\ s \in Seq(Byte) /\ Len(s) \in Nat /\ Offset(ps, m) = Len(s)
      /\ a \in Nat /\ e \in Nat /\ a <= e /\ e <= g /\ a <= g /\ g <= Len(s)
  <2>1. j \in k .. m /\ k \in 0 .. m
    BY <1>1
  <2>2. s \in Seq(Byte) /\ Offset(ps, m) = Len(s) /\ a \in Nat /\ e \in Nat /\ a <= e
    BY <1>1, <2>1, StreamFacts
  <2>3. e <= g /\ g <= Len(s)
    OBVIOUS
  <2> HIDE DEF s, a, e
  <2> QED
    BY <1>1, <2>2, <2>3
<1>3. Window(s, a, g, b)
  BY <1>1, <1>2 DEF Window
<1>4. b \in Seq(Byte) /\ Len(b) = g - a
  <2> HIDE DEF s, a
  <2>1. s \in Seq(Byte) /\ a \in Nat /\ g \in Nat /\ Window(s, a, g, b)
    BY <1>1, <1>2, <1>3
  <2> QED
    BY <2>1, WindowFacts
<1>5. /\ IterFrames(b) = R[0]
      /\ \A o \in 0 .. g - a : R[o] = Found(b, o, R[o + 2 + FrameLength(b, o)])
  BY <1>4, SplitFacts
<1> HIDE DEF R
<1>6. 0 \in T
  <2> DEFINE o == e - a
             n == IF j = m THEN 0 ELSE Len(ps[j + 1])
  <2>1. o \in 0 .. g - a /\ a + o = e /\ o \in Nat
    <3> HIDE DEF e, a, s
    <3> QED
      BY <1>1, <1>2
  <2>2. n \in Nat /\ g < e + 2 + n /\ (e + 2 <= g => s[e + 1] * Base + s[e + 2] = n)
    <3>1. CASE j = m
      <4>1. e = Len(s)
        BY <1>2, <3>1
      <4> HIDE DEF e, s
      <4> QED
        BY <1>1, <1>2, <3>1, <4>1
    <3>2. CASE j # m
      <4>1. j \in 0 .. m - 1
        BY <1>1, <3>2
      <4>2. /\ n \in Nat /\ Offset(ps, j + 1) = e + 2 + n
            /\ s[e + 1] * Base + s[e + 2] = n
        BY <3>2, <4>1, OffsetNext, FrameAt
      <4>3. g < Offset(ps, j + 1)
        BY <1>1, <4>1
      <4> HIDE DEF n, e, s
      <4> QED
        BY <4>2, <4>3
    <3> QED
      BY <3>1, <3>2
  <2> HIDE DEF e, n, s, a
  <2>3. /\ g < a + o + 2 + n
        /\ a + o + 2 <= g => s[a + o + 1] * Base + s[a + o + 2] = n
    BY <2>1, <2>2
  <2> HIDE DEF o
  <2>4. R[o] = [frames |-> <<>>, rest |-> Slice(s, a + o, g)]
    <3> DEFINE t == R[o + 2 + FrameLength(b, o)]
    <3>1. Found(b, o, t) = [frames |-> <<>>, rest |-> Slice(s, a + o, g)]
      <4> HIDE DEF t
      <4>1. PartFrame(s, a, g, b, o, n)
        BY <1>3, <2>1, <2>2, <2>3 DEF PartFrame
      <4> QED
        BY <4>1, WindowRest
    <3>2. R[o] = Found(b, o, t)
      BY <1>5, <2>1
    <3> QED
      BY <3>1, <3>2
  <2>5. SubSeq(ps, j + 1, j) = <<>> /\ j - 0 = j /\ 0 \in 0 .. j - k
    BY <1>1
  <2>6. R[o] = E(j)
    BY <2>1, <2>4, <2>5
  <2>7. o = Pos(j)
    BY DEF o, e
  <2> HIDE DEF E, Pos
  <2> QED
    BY <2>5, <2>6, <2>7
<1>7. ASSUME NEW n \in 0 .. j - k - 1, n \in T PROVE n + 1 \in T
  <2> DEFINE i == j - (n + 1)
             f == Offset(ps, i)
             o == f - a
             p == ps[i + 1]
             t == o + 2 + Len(p)
  <2>1. /\ i \in k .. j /\ i \in 0 .. m - 1 /\ i + 1 \in k .. j /\ i + 1 \in 1 .. m
        /\ j - n = i + 1 /\ j - (n + 1) = i /\ n + 1 \in 0 .. j - k /\ i \in Nat
        /\ k \in 0 .. m /\ i \in k .. m /\ i \in 0 .. m /\ i + 1 \in 0 .. m /\ j \in i + 1 .. m
        /\ i + 2 = (i + 1) + 1
    BY <1>1
  <2> HIDE DEF i
  <2>2. p \in Chunk /\ p \in Seq(Byte) /\ Len(p) \in Nat
    BY <2>1 DEF Chunk
  <2>3. /\ f \in Nat /\ a <= f /\ Offset(ps, i + 1) = f + 2 + Len(p) /\ Offset(ps, i + 1) <= e
        /\ s[f + 1] * Base + s[f + 2] = Len(p)
        /\ \A x \in 1 .. Len(p) : s[f + 2 + x] = p[x]
    BY <2>1, StreamFacts, OffsetNext, FrameAt
  <2>4. /\ o \in 0 .. g - a /\ o \in Nat /\ a + o = f /\ a + o + 2 + Len(p) <= g
        /\ Offset(ps, i + 1) - a = t
    <3> DEFINE l == Len(p)
               h == Offset(ps, i + 1)
    <3>1. l \in Nat /\ f \in Nat /\ a <= f /\ h = f + 2 + l /\ h <= e
      BY <2>2, <2>3
    <3> HIDE DEF l, h, f, a, e, s
    <3>2. o \in 0 .. g - a /\ o \in Nat /\ a + o = f /\ a + o + 2 + l <= g /\ h - a = o + 2 + l
      BY <1>1, <1>2, <3>1
    <3> QED
      BY <3>2 DEF l, h
  <2>5. R[t] = E(i + 1)
    <3>1. R[Pos(i + 1)] = E(i + 1)
      <4> HIDE DEF Pos, E
      <4> QED
        BY <1>7, <2>1
    <3> QED
      BY <2>4, <3>1
  <2>6. /\ o + 2 + FrameLength(b, o) = t
        /\ Found(b, o, R[t]) = Preceded(p, R[t])
    <3> HIDE DEF f, a, p, s, o
    <3>1. /\ s[a + o + 1] * Base + s[a + o + 2] = Len(p)
          /\ \A x \in 1 .. Len(p) : s[a + o + 2 + x] = p[x]
      BY <2>3, <2>4
    <3> QED
      <4>1. WholeFrame(s, a, g, b, o, p)
        BY <1>3, <2>2, <2>4, <3>1 DEF WholeFrame
      <4> DEFINE u == R[t]
      <4> HIDE DEF t, u
      <4>2. /\ o + 2 + FrameLength(b, o) = o + 2 + Len(p)
            /\ Found(b, o, u) = Preceded(p, u)
        BY <4>1, WindowFrame
      <4> QED
        BY <4>2 DEF t, u
  <2>7. R[o] = Preceded(p, R[t])
    <3>1. R[o] = Found(b, o, R[o + 2 + FrameLength(b, o)])
      BY <1>5, <2>4
    <3> HIDE DEF o, t, p
    <3> QED
      BY <2>6, <3>1
  <2>8. <<p>> \o SubSeq(ps, i + 2, j) = SubSeq(ps, i + 1, j)
    <3>1. ps \in Seq(Chunk) /\ i \in Nat /\ i + 1 <= j /\ j <= Len(ps) /\ j \in Nat
      BY <1>1, <2>1
    <3> QED
      BY <3>1, <2>2
  <2>9. R[o] = E(i)
    <3>1. /\ E(i + 1).rest = Slice(s, e, g)
          /\ E(i + 1).frames = SubSeq(ps, i + 2, j)
      <4> HIDE DEF s, e
      <4> QED
        BY <2>1
    <3>2. R[o] = [frames |-> <<p>> \o E(i + 1).frames, rest |-> E(i + 1).rest]
      <4> HIDE DEF E, o, t, p
      <4> QED
        BY <2>5, <2>7, Zenon DEF Preceded
    <3> HIDE DEF o, t, p, s, e
    <3> QED
      BY <2>8, <3>1, <3>2, Zenon
  <2>10. o = Pos(i)
    OBVIOUS
  <2> HIDE DEF E, Pos, o
  <2> QED
    BY <2>1, <2>9, <2>10
<1>8. j - k \in T
  <2> HIDE DEF T
  <2>1. j - k \in Nat
    BY <1>1
  <2>2. 0 .. j - k \subseteq T
    BY <1>6, <1>7, <2>1, UpTo
  <2> QED
    BY <2>1, <2>2
<1>9. R[0] = E(k)
  <2>1. j - (j - k) = k /\ Pos(k) = 0
    BY <1>1, <1>2
  <2> HIDE DEF Pos, E
  <2> QED
    BY <1>8, <2>1
<1> QED
  BY <1>4, <1>5, <1>9 DEF Slice

-----------------------------------------------------------------------------
(* The connection. *)

At(k) == Offset(frames, k)

\* What is under way goes on where reading has got to.
Carried ==
    /\ Len(frames) >= 1
    /\ got + Len(wire) <= At(sent)
    /\ linked => got + Len(wire) = At(sent)
    /\ wire = Slice(Framed(frames), got, got + Len(wire))

\* The handshake is in the middle of the first frame, all of it in the buffer.
Shaking ==
    phase = "handshake" =>
        /\ sent <= 1
        /\ got < At(1)
        /\ buf = Slice(Framed(frames), 0, got)
        /\ delivered = <<>>

\* The receive loop has the bytes of the frame it is in, or the frame pushed back.
Streaming ==
    phase = "stream" =>
        /\ kind # "denied"
        /\ kind = "auth" => Arrived >= 1
        /\ \/ delivered = Due(Arrived) /\ buf = Slice(Framed(frames), At(Arrived), got)
           \/ PushedBack /\ got = At(1) /\ buf = Slice(Framed(frames), 0, got)

\* What had been delivered when the connection was closed.
Over ==
    phase = "closed" =>
        /\ kind # "denied" => delivered = Due(Arrived) \/ PushedBack
        /\ kind = "denied" => delivered = <<>>

FramingInv == TypeOK /\ Carried /\ Shaking /\ Streaming /\ Over

(* Slice of bytes, and bytes put together again.                           *)
LEMMA SliceTyped ==
    ASSUME NEW s \in Seq(Byte), NEW a \in Nat, NEW g \in Nat, a <= g, g <= Len(s)
    PROVE  /\ Slice(s, a, g) \in Seq(Byte) /\ Len(Slice(s, a, g)) = g - a
           /\ \A i \in 1 .. g - a : Slice(s, a, g)[i] = s[a + i]
BY DEF Slice

LEMMA SliceOfSlice ==
    ASSUME NEW s \in Seq(Byte), NEW a \in Nat, NEW g \in Nat, a <= g, g <= Len(s),
           NEW x \in Nat, NEW y \in Nat, x <= y, y <= g - a
    PROVE  Slice(Slice(s, a, g), x, y) = Slice(s, a + x, a + y)
<1> DEFINE u == Slice(s, a, g)
           v == Slice(u, x, y)
           w == Slice(s, a + x, a + y)
           n == y - x
<1>1. u \in Seq(Byte) /\ Len(u) = g - a /\ \A i \in 1 .. g - a : u[i] = s[a + i]
  BY SliceTyped
<1>2. a + x \in Nat /\ a + y \in Nat /\ a + x <= a + y /\ a + y <= Len(s) /\ Len(s) \in Nat
      /\ (a + y) - (a + x) = n
  OBVIOUS
<1>3. w \in Seq(Byte) /\ Len(w) = n /\ \A i \in 1 .. n : w[i] = s[(a + x) + i]
  <2> DEFINE b == a + x
             h == a + y
  <2>1. b \in Nat /\ h \in Nat /\ b <= h /\ h <= Len(s) /\ h - b = n
    BY <1>2
  <2> HIDE DEF b, h, n
  <2>2. /\ Slice(s, b, h) \in Seq(Byte) /\ Len(Slice(s, b, h)) = n
        /\ \A i \in 1 .. n : Slice(s, b, h)[i] = s[b + i]
    BY <2>1, SliceTyped
  <2> QED
    BY <2>2 DEF b, h
<1> HIDE DEF u, w
<1>4. v \in Seq(Byte) /\ Len(v) = n /\ \A i \in 1 .. n : v[i] = u[x + i]
  BY <1>1, SliceTyped
<1>5. ASSUME NEW i \in 1 .. n PROVE v[i] = w[i]
  <2>1. x + i \in 1 .. g - a /\ a + (x + i) = (a + x) + i
    OBVIOUS
  <2> QED
    BY <1>1, <1>3, <1>4, <2>1
<1> HIDE DEF v, n
<1>6. v = w
  BY <1>3, <1>4, <1>5, SameBytes
<1> QED
  BY <1>6 DEF u, v, w

LEMMA SlicesJoined ==
    ASSUME NEW s \in Seq(Byte), NEW a \in Nat, NEW g \in Nat, NEW h \in Nat,
           a <= g, g <= h, h <= Len(s)
    PROVE  Slice(s, a, g) \o Slice(s, g, h) = Slice(s, a, h)
<1> DEFINE u == Slice(s, a, g)
           v == Slice(s, g, h)
           w == Slice(s, a, h)
           x == u \o v
<1>1. a <= h /\ g <= Len(s) /\ Len(s) \in Nat
  OBVIOUS
<1>2. u \in Seq(Byte) /\ Len(u) = g - a /\ \A i \in 1 .. g - a : u[i] = s[a + i]
  BY <1>1, SliceTyped
<1>3. v \in Seq(Byte) /\ Len(v) = h - g /\ \A i \in 1 .. h - g : v[i] = s[g + i]
  BY <1>1, SliceTyped
<1>4. w \in Seq(Byte) /\ Len(w) = h - a /\ \A i \in 1 .. h - a : w[i] = s[a + i]
  BY <1>1, SliceTyped
<1> HIDE DEF u, v, w
<1>5. x \in Seq(Byte) /\ Len(x) = h - a
  <2>1. x \in Seq(Byte) /\ Len(x) = Len(u) + Len(v)
    <3>1. u \in Seq(Byte) /\ v \in Seq(Byte)
      BY <1>2, <1>3
    <3> QED
      BY <3>1
  <2>2. Len(u) + Len(v) = h - a
    BY <1>2, <1>3
  <2> QED
    BY <2>1, <2>2
<1>6. ASSUME NEW i \in 1 .. h - a PROVE x[i] = w[i]
  <2>1. CASE i <= g - a
    <3>1. i \in 1 .. Len(u)
      BY <1>2, <2>1
    <3>2. x[i] = u[i]
      BY <1>2, <1>3, <3>1
    <3> QED
      BY <1>2, <1>4, <2>1, <3>2
  <2>2. CASE ~(i <= g - a)
    <3> DEFINE k == i - (g - a)
    <3>1. k \in 1 .. h - g /\ i = (g - a) + k /\ g + k = a + i
      BY <2>2
    <3> HIDE DEF k
    <3>2. x[Len(u) + k] = v[k]
      <4>1. u \in Seq(Byte) /\ v \in Seq(Byte) /\ k \in 1 .. Len(v)
        BY <1>2, <1>3, <3>1
      <4> QED
        BY <4>1
    <3> QED
      BY <1>2, <1>3, <1>4, <3>1, <3>2
  <2> QED
    BY <2>1, <2>2
<1> HIDE DEF x
<1>7. x = w
  BY <1>4, <1>5, <1>6, SameBytes
<1> QED
  BY <1>7 DEF u, v, w, x

LEMMA FramesTyped ==
    ASSUME frames \in Seq(Payloads)
    PROVE  frames \in Seq(Chunk)
<1>1. Payloads \subseteq Chunk
  BY FramingAssumption DEF Chunk
<1> QED
  BY <1>1

\* With g bytes read, k of the frames ps have been read in full, and no more.
Behind(ps, g, k) ==
    /\ k \in 0 .. Len(ps)
    /\ Offset(ps, k) <= g
    /\ k < Len(ps) => g < Offset(ps, k + 1)

LEMMA OnlyBehind ==
    ASSUME NEW ps \in Seq(Chunk), NEW g \in Nat, NEW k, Behind(ps, g, k)
    PROVE  k = CHOOSE i \in 0 .. Len(ps) : Behind(ps, g, i)
<1>1. Len(ps) \in Nat
  OBVIOUS
<1>2. ASSUME NEW i, Behind(ps, g, i), NEW j, Behind(ps, g, j), i < j PROVE FALSE
  <2>1. i \in 0 .. Len(ps) /\ j \in 0 .. Len(ps) /\ i + 1 \in 0 .. Len(ps)
        /\ j \in i + 1 .. Len(ps) /\ i < Len(ps)
    BY <1>1, <1>2 DEF Behind
  <2>2. Offset(ps, i + 1) <= Offset(ps, j) /\ Offset(ps, i + 1) \in Nat /\ Offset(ps, j) \in Nat
    BY <1>1, <2>1, StreamFacts
  <2>3. g < Offset(ps, i + 1) /\ Offset(ps, j) <= g
    BY <1>2, <2>1 DEF Behind
  <2> QED
    BY <1>1, <2>2, <2>3
<1> DEFINE a == CHOOSE i \in 0 .. Len(ps) : Behind(ps, g, i)
<1>3. k \in 0 .. Len(ps)
  BY DEF Behind
<1>4. a \in 0 .. Len(ps) /\ Behind(ps, g, a)
  BY <1>3
<1> HIDE DEF a
<1>5. ~(a < k) /\ ~(k < a)
  BY <1>2, <1>4
<1>6. a = k
  BY <1>1, <1>3, <1>4, <1>5
<1> QED
  BY <1>6 DEF a

(* Some number of frames has been read in full.                            *)
LEMMA SomeBehind ==
    ASSUME NEW ps \in Seq(Chunk), NEW g \in Nat, g <= Len(Framed(ps)),
           NEW k \in 0 .. Len(ps), Offset(ps, k) <= g
    PROVE  \E j \in k .. Len(ps) : Behind(ps, g, j)
<1> DEFINE T == {i \in k .. Len(ps) : g < Offset(ps, i)}
           m == Len(ps)
<1>1. m \in Nat /\ \A i \in 0 .. m : Offset(ps, i) \in Nat
  BY StreamFacts
<1>2. CASE T = {}
  <2>1. m \in k .. m /\ m \in 0 .. m
    BY <1>1
  <2>2. Offset(ps, m) <= g
    BY <1>1, <1>2, <2>1
  <2> QED
    BY <1>1, <2>1, <2>2 DEF Behind
<1>3. CASE T # {}
  <2>1. PICK i \in T : \A y \in T : i <= y
    <3>1. T \in SUBSET Nat
      BY <1>1
    <3> HIDE DEF T
    <3> QED
      BY <1>3, <3>1, Least
  <2>2. i \in k .. m /\ g < Offset(ps, i)
    OBVIOUS
  <2>3. i # k
    <3>1. Offset(ps, k) \in Nat
      BY <1>1
    <3> QED
      BY <2>2, <3>1
  <2> DEFINE j == i - 1
  <2>4. j \in k .. m /\ j + 1 = i /\ j < i /\ j \in 0 .. m
    BY <1>1, <2>2, <2>3
  <2>5. j \notin T
    <3> HIDE DEF T
    <3> QED
      BY <2>1, <2>4
  <2>6. Offset(ps, j) <= g
    BY <1>1, <2>4, <2>5
  <2> HIDE DEF j
  <2> QED
    BY <2>2, <2>4, <2>6 DEF Behind
<1> QED
  BY <1>2, <1>3

-----------------------------------------------------------------------------
(* Types. *)

LEMMA IterTyped ==
    ASSUME NEW b \in Seq(Byte)
    PROVE  /\ IterFrames(b).frames \in Seq(Chunk)
           /\ IterFrames(b).frames \in Seq(Seq(Byte))
           /\ IterFrames(b).rest \in Seq(Byte)
<1>1. 0 \in 0 .. Len(b)
  OBVIOUS
<1>2. IterFrames(b) \in Parsed
  BY <1>1, SplitFacts
<1>3. Chunk \subseteq Seq(Byte)
  BY DEF Chunk
<1>4. IterFrames(b).frames \in Seq(Chunk) /\ IterFrames(b).rest \in Seq(Byte)
  BY <1>2 DEF Parsed
<1>5. IterFrames(b).frames \in Seq(Seq(Byte))
  <2> DEFINE q == IterFrames(b).frames
  <2>1. q \in Seq(Chunk)
    BY <1>4
  <2> HIDE DEF q
  <2>2. q \in Seq(Seq(Byte))
    BY <1>3, <2>1
  <2> QED
    BY <2>2 DEF q
<1> QED
  BY <1>4, <1>5

\* What the buffer holds at the end of a handshake.
LEMMA HandedOver ==
    ASSUME NEW split, split.frames \in Seq(Chunk), split.rest \in Seq(Byte),
           split.frames # <<>>
    PROVE  /\ Leftover(split) \in Seq(Byte)
           /\ Frame(Head(split.frames)) \o Leftover(split) \in Seq(Byte)
<1> DEFINE q == split.frames
           r == split.rest
           f == Framed(Tail(q))
           h == Frame(Head(q))
<1>1. q \in Seq(Chunk) /\ q # <<>> /\ r \in Seq(Byte)
  OBVIOUS
<1>2. Leftover(split) = r \o f
  BY DEF Leftover
<1> HIDE DEF q, r
<1>3. Tail(q) \in Seq(Chunk) /\ Head(q) \in Chunk
  BY <1>1
<1>4. f \in Seq(Byte)
  BY <1>3, StreamFacts
<1>5. h \in Seq(Byte)
  BY <1>3, FrameFacts
<1> HIDE DEF f, h
<1>6. r \o f \in Seq(Byte) /\ h \o (r \o f) \in Seq(Byte)
  BY <1>1, <1>4, <1>5
<1> QED
  BY <1>2, <1>6 DEF h, q

LEMMA TypeStarts == Init => TypeOK
<1> SUFFICES ASSUME Init PROVE TypeOK
  OBVIOUS
<1>1. PICK n \in 1 .. MaxFrames : frames \in [1 .. n -> Payloads]
  BY DEF Init
<1>2. frames \in Seq(Payloads) /\ Len(frames) \in Nat
  BY <1>1, FramingAssumption
<1>3. 0 \in 0 .. Len(frames)
  BY <1>2
<1> QED
  BY <1>2, <1>3 DEF Init, TypeOK

\* A read of the first n bytes that have arrived.
LEMMA ReadTypes ==
    ASSUME TypeOK, NEW n \in 1 .. Len(wire), Read(n)
    PROVE  /\ wire' \in Seq(Byte) /\ got' \in Nat
           /\ Extend(buf, SubSeq(wire, 1, n)) \in Seq(Byte)
           /\ kind' \in Kinds /\ frames' \in Seq(Payloads)
           /\ sent' \in 0 .. Len(frames') /\ linked' \in BOOLEAN
<1>1. wire \in Seq(Byte) /\ buf \in Seq(Byte) /\ got \in Nat
  BY DEF TypeOK
<1>2. wire' = SubSeq(wire, n + 1, Len(wire)) /\ got' = got + n
      /\ UNCHANGED <<kind, frames, sent, linked>>
  BY DEF Read
<1>3. SubSeq(wire, n + 1, Len(wire)) \in Seq(Byte) /\ SubSeq(wire, 1, n) \in Seq(Byte)
  BY <1>1
<1>4. Extend(buf, SubSeq(wire, 1, n)) \in Seq(Byte)
  BY <1>1, <1>3 DEF Extend
<1>5. got + n \in Nat
  BY <1>1
<1> QED
  BY <1>2, <1>3, <1>4, <1>5 DEF TypeOK

LEMMA TypeStep == TypeOK /\ [Next]_vars => TypeOK'
<1> SUFFICES ASSUME TypeOK, [Next]_vars PROVE TypeOK'
  OBVIOUS
<1>1. CASE DeviceWrite
  <2>1. /\ sent < Len(frames) /\ sent' = sent + 1 /\ wire' = wire \o Frame(frames[sent + 1])
        /\ UNCHANGED <<kind, frames, linked, got, phase, buf, delivered>>
    BY <1>1 DEF DeviceWrite
  <2>2. sent + 1 \in 1 .. Len(frames) /\ sent + 1 \in 0 .. Len(frames)
    BY <2>1 DEF TypeOK
  <2>3. Frame(frames[sent + 1]) \in Seq(Byte)
    <3>1. frames[sent + 1] \in Chunk
      BY <2>2, FramesTyped DEF TypeOK
    <3> QED
      BY <3>1, FrameFacts
  <2>4. wire \o Frame(frames[sent + 1]) \in Seq(Byte)
    BY <2>3 DEF TypeOK
  <2> QED
    BY <2>1, <2>2, <2>4 DEF TypeOK
<1>2. CASE Hangup
  <2>1. PICK k \in 0 .. Len(wire) : wire' = SubSeq(wire, 1, k)
    BY <1>2 DEF Hangup
  <2>2. SubSeq(wire, 1, k) \in Seq(Byte)
    BY DEF TypeOK
  <2> QED
    BY <1>2, <2>1, <2>2 DEF Hangup, TypeOK
<1>3. CASE HandshakeRead
  <2> DEFINE b(n) == Extend(buf, SubSeq(wire, 1, n))
  <2>1. PICK n \in 1 .. Len(wire) :
          /\ Read(n)
          /\ \/ buf' = b(n) /\ UNCHANGED phase
             \/ /\ IterFrames(b(n)).frames # <<>>
                /\ phase' = "stream"
                /\ \/ buf' = Leftover(IterFrames(b(n)))
                   \/ buf' = Frame(Head(IterFrames(b(n)).frames)) \o Leftover(IterFrames(b(n)))
             \/ phase' = "closed" /\ buf' = <<>>
    BY <1>3, Zenon DEF HandshakeRead
  <2>2. b(n) \in Seq(Byte) 
    BY <2>1, ReadTypes
  <2>3. IterFrames(b(n)).frames \in Seq(Chunk) /\ IterFrames(b(n)).rest \in Seq(Byte)
    BY <2>2, IterTyped
  <2>4. buf' \in Seq(Byte) /\ phase' \in {"handshake", "stream", "closed"}
    <3>1. CASE buf' = b(n) /\ UNCHANGED phase
      BY <2>2, <3>1 DEF TypeOK
    <3>2. CASE phase' = "closed" /\ buf' = <<>>
      BY <3>2
    <3>3. CASE /\ IterFrames(b(n)).frames # <<>>
               /\ phase' = "stream"
               /\ \/ buf' = Leftover(IterFrames(b(n)))
                  \/ buf' = Frame(Head(IterFrames(b(n)).frames)) \o Leftover(IterFrames(b(n)))
      <4> HIDE DEF b
      <4> QED
        BY <2>3, <3>3, HandedOver
    <3> QED
      BY <2>1, <3>1, <3>2, <3>3
  <2>5. UNCHANGED delivered
    BY <1>3 DEF HandshakeRead
  <2> QED
    BY <2>1, <2>4, <2>5, ReadTypes DEF TypeOK
<1>4. CASE StreamRead
  <2> DEFINE b(n) == Extend(buf, SubSeq(wire, 1, n))
  <2>1. PICK n \in 1 .. Len(wire) :
          /\ Read(n)
          /\ buf' = IterFrames(b(n)).rest
          /\ delivered' = delivered \o IterFrames(b(n)).frames
    BY <1>4, Zenon DEF StreamRead
  <2>2. b(n) \in Seq(Byte)
    BY <2>1, ReadTypes
  <2>3. IterFrames(b(n)).frames \in Seq(Seq(Byte)) /\ IterFrames(b(n)).rest \in Seq(Byte)
    BY <2>2, IterTyped
  <2>4. delivered' \in Seq(Seq(Byte))
    <3> DEFINE q == IterFrames(b(n)).frames
    <3>1. q \in Seq(Seq(Byte)) /\ delivered \in Seq(Seq(Byte)) /\ delivered' = delivered \o q
      BY <2>1, <2>3 DEF TypeOK
    <3> HIDE DEF q
    <3> QED
      BY <3>1
  <2>5. phase' \in {"handshake", "stream", "closed"}
    BY <1>4 DEF StreamRead
  <2> QED
    BY <2>1, <2>3, <2>4, <2>5, ReadTypes DEF TypeOK
<1>5. CASE EndOfStream \/ RecvTimeout
  BY <1>5 DEF EndOfStream, RecvTimeout, Close, TypeOK
<1>6. CASE UNCHANGED vars
  BY <1>6 DEF vars, TypeOK
<1> QED
  BY <1>1, <1>2, <1>3, <1>4, <1>5, <1>6 DEF Next

(* Types: whatever the device writes, and however it is cut into chunks,   *)
(* buffers hold bytes and what is delivered is payloads.                   *)
THEOREM TypeCorrect == Spec => []TypeOK
  BY TypeStarts, TypeStep, PTL DEF Spec

-----------------------------------------------------------------------------
(* What is under way. *)

LEMMA Reach ==
    ASSUME TypeOK, Carried
    PROVE  /\ frames \in Seq(Chunk) /\ Framed(frames) \in Seq(Byte)
           /\ Len(frames) \in Nat /\ Len(frames) >= 1 /\ sent \in 0 .. Len(frames)
           /\ got \in Nat /\ Len(wire) \in Nat /\ got + Len(wire) <= At(sent)
           /\ At(sent) <= Len(Framed(frames)) /\ got <= Len(Framed(frames))
           /\ Len(Framed(frames)) \in Nat
           /\ \A k \in 0 .. Len(frames) : At(k) \in Nat /\ At(k) <= Len(Framed(frames))
           /\ At(0) = 0 /\ At(1) > 0
<1> DEFINE s == Framed(frames)
           m == Len(frames)
<1>1. /\ frames \in Seq(Chunk) /\ m \in Nat /\ m >= 1 /\ sent \in 0 .. m /\ got \in Nat
      /\ Len(wire) \in Nat /\ got + Len(wire) <= At(sent)
  BY FramesTyped DEF TypeOK, Carried
<1>2. /\ s \in Seq(Byte) /\ At(0) = 0 /\ At(m) = Len(s) /\ Len(s) \in Nat
      /\ \A k \in 0 .. m : At(k) \in Nat /\ At(k) <= At(m)
  <2>1. s \in Seq(Byte) /\ At(0) = 0 /\ At(m) = Len(s)
    BY <1>1, StreamFacts DEF At
  <2>2. ASSUME NEW k \in 0 .. m PROVE At(k) \in Nat /\ At(k) <= At(m)
    <3>1. m \in k .. m
      BY <1>1
    <3> QED
      BY <1>1, <3>1, StreamFacts DEF At
  <2>3. Len(s) \in Nat
    BY <2>1
  <2> QED
    BY <2>1, <2>2, <2>3
<1>3. At(1) > 0
  <2>1. 0 \in 0 .. m - 1 /\ 0 + 1 = 1
    BY <1>1
  <2>2. Len(frames[1]) \in Nat /\ At(1) = At(0) + 2 + Len(frames[1])
    BY <1>1, <2>1, OffsetNext DEF At
  <2> QED
    BY <1>2, <2>2
<1> HIDE DEF s, m
<1>4. At(sent) \in Nat /\ At(sent) <= Len(s) /\ got <= Len(s)
  BY <1>1, <1>2
<1> QED
  BY <1>1, <1>2, <1>3, <1>4 DEF s, m

\* The bytes already known to lie from a to got, and the ones read behind them.
LEMMA ReadFacts ==
    ASSUME TypeOK, Carried, NEW n \in 1 .. Len(wire), Read(n)
    PROVE  /\ got' = got + n /\ got' \in Nat /\ got' <= At(sent) /\ got' <= Len(Framed(frames))
           /\ UNCHANGED <<kind, frames, sent, linked>>
           /\ Carried'
           /\ \A a \in 0 .. got :
                 buf = Slice(Framed(frames), a, got)
                    => Extend(buf, SubSeq(wire, 1, n)) = Slice(Framed(frames), a, got')
<1> DEFINE s == Framed(frames)
           l == Len(wire)
           g == got + l
           h == got + n
<1>1. /\ s \in Seq(Byte) /\ got \in Nat /\ l \in Nat /\ g <= At(sent) /\ At(sent) <= Len(s)
      /\ Len(s) \in Nat /\ At(sent) \in Nat
  BY Reach
<1>2. wire = Slice(s, got, g) /\ (linked => g = At(sent)) /\ Len(frames) >= 1
  BY DEF Carried
<1>3. /\ wire' = SubSeq(wire, n + 1, l) /\ got' = h
      /\ UNCHANGED <<kind, frames, sent, linked>>
  BY DEF Read
<1>4. n \in Nat /\ 1 <= n /\ n <= l
  BY <1>1
<1>5. l = Len(wire)
  OBVIOUS
<1> HIDE DEF s, l
<1>6. /\ g \in Nat /\ h \in Nat /\ got <= h /\ h <= g /\ g <= Len(s) /\ got <= g /\ g - got = l
      /\ h <= At(sent) /\ h <= Len(s)
  BY <1>1, <1>4
<1>7. g = got + l /\ h = got + n
  OBVIOUS
<1> HIDE DEF g, h
<1>8. wire' = Slice(s, h, g) /\ Len(wire') = g - h
  <2>1. wire' = Slice(Slice(s, got, g), n, l)
    BY <1>2, <1>3 DEF Slice
  <2>2. Slice(Slice(s, got, g), n, l) = Slice(s, got + n, got + l)
    BY <1>1, <1>4, <1>6, SliceOfSlice
  <2>3. wire' = Slice(s, h, g)
    BY <1>7, <2>1, <2>2
  <2>4. Len(Slice(s, h, g)) = g - h
    BY <1>1, <1>6, SliceTyped
  <2> QED
    BY <2>3, <2>4
<1>9. Carried'
  <2>1. got' + Len(wire') = g
    <3>1. h + (g - h) = g
      BY <1>6
    <3> QED
      BY <1>3, <1>8, <3>1
  <2>2. At(sent)' = At(sent) /\ Framed(frames)' = s /\ Len(frames)' >= 1 /\ linked' = linked
    BY <1>2, <1>3 DEF At, s
  <2>3. wire' = Slice(s, got', got' + Len(wire'))
    BY <1>3, <1>8, <2>1
  <2> QED
    BY <1>1, <1>2, <2>1, <2>2, <2>3 DEF Carried
<1>10. ASSUME NEW a \in 0 .. got, buf = Slice(s, a, got)
       PROVE  Extend(buf, SubSeq(wire, 1, n)) = Slice(s, a, h)
  <2>1. SubSeq(wire, 1, n) = Slice(Slice(s, got, g), 0, n)
    BY <1>2 DEF Slice
  <2>2. Slice(Slice(s, got, g), 0, n) = Slice(s, got + 0, got + n)
    BY <1>1, <1>4, <1>6, SliceOfSlice
  <2>3. got + 0 = got
    BY <1>1
  <2>4. SubSeq(wire, 1, n) = Slice(s, got, h)
    BY <1>7, <2>1, <2>2, <2>3
  <2>5. a \in Nat /\ a <= got
    BY <1>1
  <2>6. Slice(s, a, got) \o Slice(s, got, h) = Slice(s, a, h)
    BY SMTT(30), <1>1, <1>6, <2>5, SlicesJoined
  <2> QED
    BY <1>10, <2>4, <2>6 DEF Extend
<1>11. /\ got' = got + n /\ got' \in Nat /\ got' <= At(sent) /\ got' <= Len(s)
       /\ UNCHANGED <<kind, frames, sent, linked>>
  BY <1>3, <1>6, <1>7
<1>12. \A a \in 0 .. got :
          buf = Slice(s, a, got) => Extend(buf, SubSeq(wire, 1, n)) = Slice(s, a, got')
  BY <1>3, <1>10
<1> QED
  BY <1>9, <1>11, <1>12 DEF s

LEMMA CarriedStarts == Init => Carried
<1> SUFFICES ASSUME Init PROVE Carried
  OBVIOUS
<1>1. PICK n \in 1 .. MaxFrames : frames \in [1 .. n -> Payloads]
  BY DEF Init
<1>2. frames \in Seq(Payloads) /\ Len(frames) \in Nat /\ Len(frames) >= 1
  BY <1>1, FramingAssumption
<1>3. At(0) = 0
  BY <1>2, FramesTyped, StreamFacts DEF At
<1>4. got = 0 /\ sent = 0 /\ wire = <<>>
  BY DEF Init
<1>5. Slice(Framed(frames), 0, 0) = <<>> /\ Len(<<>>) = 0
  BY DEF Slice
<1> QED
  BY <1>2, <1>3, <1>4, <1>5 DEF Carried

LEMMA CarriedStep == TypeOK /\ Carried /\ [Next]_vars => Carried'
<1> SUFFICES ASSUME TypeOK, Carried, [Next]_vars PROVE Carried'
  OBVIOUS
<1> DEFINE s == Framed(frames)
           l == Len(wire)
<1>0. /\ frames \in Seq(Chunk) /\ s \in Seq(Byte) /\ Len(s) \in Nat /\ got \in Nat /\ l \in Nat
      /\ Len(frames) \in Nat /\ Len(frames) >= 1 /\ sent \in 0 .. Len(frames)
      /\ \A k \in 0 .. Len(frames) : At(k) \in Nat /\ At(k) <= Len(s)
      /\ got + l <= At(sent)
  BY Reach
<1>00. wire = Slice(s, got, got + l) /\ (linked => got + l = At(sent))
  BY DEF Carried
<1> HIDE DEF s, l
<1>1. CASE DeviceWrite
  <2> DEFINE e == At(sent)
             h == At(sent + 1)
  <2>1. /\ linked /\ sent < Len(frames) /\ sent' = sent + 1
        /\ wire' = wire \o Frame(frames[sent + 1])
        /\ UNCHANGED <<kind, frames, linked, got, phase, buf, delivered>>
    BY <1>1 DEF DeviceWrite
  <2>2. sent \in 0 .. Len(frames) - 1 /\ sent + 1 \in 0 .. Len(frames)
    BY <1>0, <2>1
  <2>3. Frame(frames[sent + 1]) = Slice(s, e, h)
    BY <1>0, <2>2, FrameThere DEF s, At
  <2>4. e \in Nat /\ h \in Nat /\ e <= h /\ h <= Len(s) /\ got <= e /\ got + l = e
    <3>1. e \in Nat /\ h \in Nat /\ h <= Len(s) /\ got + l = e
      BY <1>0, <1>00, <2>1, <2>2
    <3>2. e <= h
      <4> DEFINE n == Len(frames[sent + 1])
      <4>1. n \in Nat /\ h = e + 2 + n
        BY <1>0, <2>2, OffsetNext DEF At
      <4> HIDE DEF e, h, n
      <4> QED
        BY <3>1, <4>1
    <3> HIDE DEF e, h
    <3> QED
      BY <1>0, <3>1, <3>2
  <2> HIDE DEF e, h
  <2>5. wire' = Slice(s, got, h)
    <3>1. wire = Slice(s, got, e)
      BY <1>00, <2>4
    <3>2. Slice(s, got, e) \o Slice(s, e, h) = Slice(s, got, h)
      BY SMTT(30), <1>0, <2>4, SlicesJoined
    <3> QED
      BY <2>1, <2>3, <3>1, <3>2
  <2>6. Len(wire') = h - got
    <3>1. got <= h
      BY <1>0, <2>4
    <3> QED
      BY <1>0, <2>4, <2>5, <3>1, SliceTyped
  <2>7. got' + Len(wire') = h /\ got' = got
    BY <1>0, <2>1, <2>4, <2>6
  <2>8. At(sent)' = h /\ Framed(frames)' = s /\ Len(frames)' >= 1
    BY <1>0, <2>1 DEF At, s, h
  <2>9. got' + Len(wire') <= At(sent)'
    BY <2>4, <2>7, <2>8
  <2> QED
    BY <2>5, <2>7, <2>8, <2>9 DEF Carried
<1>2. CASE Hangup
  <2>1. /\ linked' = FALSE
        /\ UNCHANGED <<kind, frames, sent, got, phase, buf, delivered>>
    BY <1>2 DEF Hangup
  <2>2. PICK k \in 0 .. l : wire' = SubSeq(wire, 1, k)
    BY <1>2 DEF Hangup, l
  <2> DEFINE g == got + l
             h == got + k
  <2>3. /\ g \in Nat /\ got <= g /\ g <= Len(s) /\ g - got = l /\ k \in Nat /\ k <= l
        /\ h \in Nat /\ got <= h /\ h <= g /\ h <= Len(s) /\ h - got = k
    <3>1. At(sent) \in Nat /\ At(sent) <= Len(s)
      BY <1>0
    <3> QED
      BY <1>0, <3>1
  <2>4. wire' = Slice(Slice(s, got, g), 0, k)
    BY <1>00, <2>2 DEF Slice
  <2>5. g = got + l /\ h = got + k /\ got + 0 = got
    BY <1>0
  <2> HIDE DEF g, h
  <2>6. Slice(Slice(s, got, g), 0, k) = Slice(s, got + 0, got + k)
    BY <1>0, <2>3, SliceOfSlice
  <2>7. wire' = Slice(s, got, h)
    BY <2>4, <2>5, <2>6
  <2>8. Len(wire') = k
    BY <1>0, <2>3, <2>7, SliceTyped
  <2>9. got' + Len(wire') = h /\ got' = got
    BY <2>1, <2>5, <2>8
  <2>10. At(sent)' = At(sent) /\ Framed(frames)' = s /\ Len(frames)' >= 1
    BY <1>0, <2>1 DEF At, s
  <2>11. got' + Len(wire') <= At(sent)'
    <3>1. At(sent) \in Nat
      BY <1>0
    <3> QED
      BY <1>0, <2>3, <2>5, <2>9, <2>10, <3>1
  <2> QED
    BY <2>1, <2>7, <2>9, <2>10, <2>11 DEF Carried
<1>3. CASE HandshakeRead \/ StreamRead
  <2>1. PICK n \in 1 .. Len(wire) : Read(n)
    BY <1>3, Zenon DEF HandshakeRead, StreamRead
  <2> QED
    BY <2>1, ReadFacts
<1>4. CASE EndOfStream \/ RecvTimeout \/ UNCHANGED vars
  <2>1. UNCHANGED <<frames, sent, linked, wire, got>>
    BY <1>4 DEF EndOfStream, RecvTimeout, Close, vars
  <2> QED
    BY <2>1 DEF Carried, At
<1> QED
  BY <1>1, <1>2, <1>3, <1>4 DEF Next

-----------------------------------------------------------------------------
(* Frames read in full. *)

LEMMA ArrivedIs == Arrived = CHOOSE i \in 0 .. Len(frames) : Behind(frames, got, i)
<1>1. \A i \in 0 .. Len(frames) :
         Behind(frames, got, i) <=>
            /\ Len(Framed(SubSeq(frames, 1, i))) <= got
            /\ i < Len(frames) => Len(Framed(SubSeq(frames, 1, i + 1))) > got
  BY DEF Behind, Offset
<1> QED
  BY <1>1 DEF Arrived

LEMMA ArrivedFacts ==
    ASSUME TypeOK, Carried
    PROVE  Behind(frames, got, Arrived)
<1>1. /\ frames \in Seq(Chunk) /\ got \in Nat /\ got <= Len(Framed(frames))
      /\ 0 \in 0 .. Len(frames) /\ Offset(frames, 0) = 0
  BY Reach DEF At
<1>2. Offset(frames, 0) <= got
  BY <1>1
<1>3. \E j \in 0 .. Len(frames) : Behind(frames, got, j)
  BY <1>1, <1>2, SomeBehind
<1> QED
  BY <1>3, ArrivedIs

LEMMA SameArrived ==
    ASSUME UNCHANGED <<frames, got>>
    PROVE  Arrived' = Arrived
BY DEF Arrived

LEMMA SameDue ==
    ASSUME UNCHANGED <<frames, kind>>, NEW k
    PROVE  Due(k)' = Due(k)
BY DEF Due, Expected

LEMMA DueNothing == Due(0) = <<>> /\ (kind = "auth" => Due(1) = <<>>)
<1>1. \A q : SubSeq(q, 1, 0) = <<>> /\ SubSeq(q, 1, 0 - 1) = <<>> /\ 1 - 1 = 0
  OBVIOUS
<1> QED
  BY <1>1 DEF Due

(* What is due goes on with the frames that follow.                        *)
LEMMA Rejoined ==
    ASSUME NEW q \in Seq(Chunk), NEW j \in 0 .. Len(q), NEW k \in 0 .. j
    PROVE  SubSeq(q, 1, k) \o SubSeq(q, k + 1, j) = SubSeq(q, 1, j)
OBVIOUS

LEMMA TailParts ==
    ASSUME NEW q \in Seq(Chunk), NEW j \in 1 .. Len(q), NEW k \in 1 .. j
    PROVE  /\ Tail(q) \in Seq(Chunk) /\ Len(Tail(q)) = Len(q) - 1
           /\ SubSeq(q, k + 1, j) = SubSeq(Tail(q), k, j - 1)
<1>1. q # <<>> /\ Len(q) \in Nat
  OBVIOUS
<1>2. /\ Tail(q) \in Seq(Chunk) /\ Len(Tail(q)) = Len(q) - 1
      /\ \A i \in 1 .. Len(q) - 1 : Tail(q)[i] = q[i + 1]
  BY <1>1
<1> DEFINE t == Tail(q)
           u == SubSeq(q, k + 1, j)
           v == SubSeq(t, k, j - 1)
<1>3. u \in Seq(Chunk) /\ Len(u) = j - k /\ \A i \in 1 .. j - k : u[i] = q[k + i]
  OBVIOUS
<1> HIDE DEF t
<1>4. v \in Seq(Chunk) /\ Len(v) = j - k /\ \A i \in 1 .. j - k : v[i] = t[k - 1 + i]
  BY <1>2 DEF t
<1>5. ASSUME NEW i \in 1 .. j - k PROVE u[i] = v[i]
  <2>1. k - 1 + i \in 1 .. Len(q) - 1 /\ (k - 1 + i) + 1 = k + i
    BY <1>1
  <2> QED
    BY <1>2, <1>3, <1>4, <2>1 DEF t
<1> HIDE DEF u, v
<1>6. u = v
  BY <1>3, <1>4, <1>5
<1> QED
  BY <1>2, <1>6 DEF t, u, v

LEMMA DueNext ==
    ASSUME frames \in Seq(Chunk), NEW j \in 0 .. Len(frames), NEW k \in 0 .. j,
           kind = "auth" => k >= 1
    PROVE  Due(k) \o SubSeq(frames, k + 1, j) = Due(j)
<1>1. CASE kind # "auth"
  BY <1>1, Rejoined DEF Due, Expected
<1>2. CASE kind = "auth"
  <2>1. j \in 1 .. Len(frames) /\ k \in 1 .. j /\ Len(frames) \in Nat
    BY <1>2
  <2> DEFINE t == Tail(frames)
  <2>2. t \in Seq(Chunk) /\ Len(t) = Len(frames) - 1
        /\ SubSeq(frames, k + 1, j) = SubSeq(t, k, j - 1)
    BY <2>1, TailParts
  <2>3. Due(k) = SubSeq(t, 1, k - 1) /\ Due(j) = SubSeq(t, 1, j - 1)
    BY <1>2 DEF Due, Expected
  <2> HIDE DEF t
  <2> DEFINE a == k - 1
             b == j - 1
  <2>4. b \in 0 .. Len(t) /\ a \in 0 .. b /\ a + 1 = k
    BY <2>1, <2>2
  <2> HIDE DEF a, b
  <2>5. SubSeq(t, 1, a) \o SubSeq(t, a + 1, b) = SubSeq(t, 1, b)
    BY <2>2, <2>4, Rejoined
  <2> QED
    BY <2>2, <2>3, <2>4, <2>5 DEF a, b
<1> QED
  BY <1>1, <1>2

\* The receive loop's or the handshake's cut, after a read.
LEMMA CutAfterRead ==
    ASSUME NEW ps \in Seq(Chunk), NEW k \in 0 .. Len(ps), NEW g \in Nat,
           Offset(ps, k) <= g, g <= Len(Framed(ps)),
           NEW b, b = Slice(Framed(ps), Offset(ps, k), g)
    PROVE  \E j \in k .. Len(ps) :
              /\ Behind(ps, g, j)
              /\ IterFrames(b).frames = Slice(ps, k, j)
              /\ IterFrames(b).rest = Slice(Framed(ps), Offset(ps, j), g)
<1>1. PICK j \in k .. Len(ps) : Behind(ps, g, j)
  BY SomeBehind
<1>2. j \in 0 .. Len(ps) /\ k \in 0 .. j
  OBVIOUS
<1>3. Offset(ps, j) <= g /\ (j < Len(ps) => g < Offset(ps, j + 1))
  BY <1>1 DEF Behind
<1>4. /\ IterFrames(b).frames = Slice(ps, k, j)
      /\ IterFrames(b).rest = Slice(Framed(ps), Offset(ps, j), g)
  BY <1>2, <1>3, Recovered
<1> QED
  BY <1>1, <1>4

LEMMA OneRead ==
    ASSUME NEW ps \in Seq(Chunk), Len(ps) >= 1
    PROVE  Behind(ps, Offset(ps, 1), 1)
<1>1. Len(ps) \in Nat /\ 1 \in 0 .. Len(ps)
  OBVIOUS
<1>2. Offset(ps, 1) \in Nat
  BY <1>1, StreamFacts
<1>3. ASSUME 1 < Len(ps) PROVE Offset(ps, 1) < Offset(ps, 1 + 1)
  <2> DEFINE n == Len(ps[1 + 1])
  <2>1. 1 \in 0 .. Len(ps) - 1
    BY <1>1, <1>3
  <2>2. n \in Nat /\ Offset(ps, 1 + 1) = Offset(ps, 1) + 2 + n
    BY <2>1, OffsetNext
  <2> HIDE DEF n
  <2> QED
    BY <1>2, <2>2
<1> QED
  BY <1>1, <1>2, <1>3 DEF Behind

(* The handshake reads the first frame, and not a byte behind it, because  *)
(* the device waits.                                                       *)
LEMMA HandshakeCut ==
    ASSUME TypeOK, Carried, Shaking, phase = "handshake", NEW n \in 1 .. Len(wire), Read(n),
           NEW b, b = Extend(buf, SubSeq(wire, 1, n))
    PROVE  /\ b = Slice(Framed(frames), 0, got')
           /\ IterFrames(b).frames = <<>> => got' < At(1)
           /\ IterFrames(b).frames # <<>> =>
                 /\ got' = At(1) /\ Behind(frames, got', 1)
                 /\ IterFrames(b).frames = <<frames[1]>>
                 /\ Leftover(IterFrames(b)) = <<>>
<1> DEFINE s == Framed(frames)
           g == got'
           f == IterFrames(b)
<1>1. /\ frames \in Seq(Chunk) /\ s \in Seq(Byte) /\ Len(frames) \in Nat /\ Len(frames) >= 1
      /\ sent \in 0 .. Len(frames) /\ got \in Nat /\ At(0) = 0 /\ At(1) > 0
      /\ \A k \in 0 .. Len(frames) : At(k) \in Nat /\ At(k) <= Len(s)
  BY Reach
<1>2. g \in Nat /\ g <= At(sent) /\ g <= Len(s)
  BY ReadFacts
<1>3. b = Slice(s, 0, g)
  <2>1. 0 \in 0 .. got
    BY <1>1
  <2>2. buf = Slice(s, 0, got)
    BY DEF Shaking
  <2> QED
    BY <2>1, <2>2, ReadFacts
<1>4. At(1) \in Nat /\ g <= At(1)
  <2>1. sent = 0 \/ sent = 1
    BY <1>1 DEF Shaking
  <2>2. 1 \in 0 .. Len(frames)
    BY <1>1
  <2> HIDE DEF g
  <2> QED
    BY <1>1, <1>2, <2>1, <2>2
<1> HIDE DEF g
<1>5. PICK j \in 0 .. Len(frames) :
        /\ Behind(frames, g, j)
        /\ f.frames = Slice(frames, 0, j)
        /\ f.rest = Slice(s, At(j), g)
  <2>1. 0 \in 0 .. Len(frames) /\ Offset(frames, 0) = 0 /\ Offset(frames, 0) <= g
    BY <1>1, <1>2 DEF At
  <2>2. b = Slice(s, Offset(frames, 0), g)
    BY <1>3, <2>1
  <2> QED
    <3> HIDE DEF s
    <3>1. ASSUME NEW z \in 0 .. Len(frames), Offset(frames, z) <= g,
                 b = Slice(s, Offset(frames, z), g)
          PROVE  \E j \in z .. Len(frames) :
                    /\ Behind(frames, g, j)
                    /\ IterFrames(b).frames = Slice(frames, z, j)
                    /\ IterFrames(b).rest = Slice(s, Offset(frames, j), g)
      <4>1. frames \in Seq(Chunk) /\ g \in Nat /\ g <= Len(s)
        BY <1>1, <1>2
      <4> USE DEF s
      <4> QED
        BY <3>1, <4>1, CutAfterRead
    <3>2. \E j \in 0 .. Len(frames) :
             /\ Behind(frames, g, j)
             /\ IterFrames(b).frames = Slice(frames, 0, j)
             /\ IterFrames(b).rest = Slice(s, Offset(frames, j), g)
      BY <2>1, <2>2, <3>1
    <3> QED
      BY <3>2 DEF At
<1> HIDE DEF f
<1>6. CASE j = 0
  <2>1. f.frames = <<>>
    BY <1>1, <1>5, <1>6 DEF Slice
  <2>2. g < At(1)
    BY <1>1, <1>5, <1>6 DEF Behind, At
  <2> QED
    BY <1>3, <2>1, <2>2 DEF f, g, s
<1>7. CASE j # 0
  <2>1. g = At(1)
    <3>1. j \in 1 .. Len(frames) /\ 1 \in 0 .. Len(frames)
      BY <1>1, <1>7
    <3>2. At(1) <= At(j)
      BY <1>1, <3>1, StreamFacts DEF At
    <3>3. At(j) <= g /\ At(j) \in Nat
      BY <1>1, <1>5 DEF Behind, At
    <3> QED
      BY <1>2, <1>4, <3>2, <3>3
  <2>2. Behind(frames, g, 1)
    BY <1>1, <2>1, OneRead DEF At
  <2>3. j = 1
    BY <1>1, <1>2, <1>5, <2>2, OnlyBehind
  <2>4. f.frames = <<frames[1]>>
    <3>1. f.frames = SubSeq(frames, 1, 1)
      BY <1>5, <2>3 DEF Slice
    <3>2. SubSeq(frames, 1, 1) = <<frames[1]>>
      <4> DEFINE x == SubSeq(frames, 1, 1)
      <4>1. x \in Seq(Chunk) /\ Len(x) = 1 /\ x[1] = frames[1]
        BY <1>1
      <4> HIDE DEF x
      <4>2. x = <<frames[1]>>
        BY <4>1
      <4> QED
        BY <4>2 DEF x
    <3> QED
      BY <3>1, <3>2
  <2>5. f.rest = <<>>
    <3>1. f.rest = Slice(s, g, g)
      BY <1>5, <2>1, <2>3
    <3>2. Slice(s, g, g) = <<>>
      BY <1>2 DEF Slice
    <3> QED
      BY <3>1, <3>2
  <2>6. Leftover(f) = <<>>
    <3>1. Tail(<<frames[1]>>) = <<>>
      OBVIOUS
    <3>2. Leftover(f) = <<>> \o <<>>
      BY <2>4, <2>5, <3>1, FramedEmpty DEF Leftover
    <3> QED
      BY <3>2
  <2>7. f.frames # <<>>
    BY <2>4
  <2> QED
    BY <1>3, <2>1, <2>2, <2>4, <2>6, <2>7 DEF f, g, s
<1> QED
  BY <1>6, <1>7

(* A turn of the receive loop delivers the frames read in full with it.    *)
LEMMA StreamCut ==
    ASSUME TypeOK, Carried, NEW n \in 1 .. Len(wire), Read(n),
           NEW k \in 0 .. Len(frames), At(k) <= got, buf = Slice(Framed(frames), At(k), got),
           kind = "auth" => k >= 1, delivered = Due(k),
           NEW b, b = Extend(buf, SubSeq(wire, 1, n))
    PROVE  \E j \in k .. Len(frames) :
              /\ Behind(frames, got', j)
              /\ delivered \o IterFrames(b).frames = Due(j)
              /\ IterFrames(b).rest = Slice(Framed(frames), At(j), got')
<1> DEFINE s == Framed(frames)
           g == got'
           f == IterFrames(b)
<1>1. /\ frames \in Seq(Chunk) /\ s \in Seq(Byte) /\ Len(frames) \in Nat /\ got \in Nat
      /\ At(k) \in Nat
  BY Reach
<1>2. g \in Nat /\ g <= Len(s) /\ g = got + n /\ n \in Nat
  BY ReadFacts
<1>3. b = Slice(s, At(k), g)
  <2>1. At(k) \in 0 .. got
    BY <1>1
  <2> QED
    BY <2>1, ReadFacts
<1>4. At(k) <= g
  BY <1>1, <1>2
<1> HIDE DEF g
<1>5. PICK j \in k .. Len(frames) :
        /\ Behind(frames, g, j)
        /\ f.frames = Slice(frames, k, j)
        /\ f.rest = Slice(s, At(j), g)
  BY <1>1, <1>2, <1>3, <1>4, CutAfterRead DEF At
<1> HIDE DEF f
<1>6. delivered \o f.frames = Due(j)
  <2>1. j \in 0 .. Len(frames) /\ k \in 0 .. j
    BY <1>1
  <2>2. Due(k) \o SubSeq(frames, k + 1, j) = Due(j)
    BY <1>1, <2>1, DueNext
  <2> QED
    BY <1>5, <2>2 DEF Slice
<1> QED
  BY <1>5, <1>6 DEF f, g, s

-----------------------------------------------------------------------------
(* The invariant. *)

LEMMA PlacedStarts == Init => Shaking /\ Streaming /\ Over
<1> SUFFICES ASSUME Init PROVE Shaking /\ Streaming /\ Over
  OBVIOUS
<1>1. TypeOK /\ Carried
  BY TypeStarts, CarriedStarts
<1>2. /\ got = 0 /\ sent = 0 /\ buf = <<>> /\ delivered = <<>>
      /\ phase = IF kind = "disabled" THEN "stream" ELSE "handshake"
  BY DEF Init
<1>3. frames \in Seq(Chunk) /\ Len(frames) \in Nat /\ Len(frames) >= 1 /\ At(0) = 0 /\ At(1) > 0
  BY <1>1, Reach
<1>4. Slice(Framed(frames), 0, 0) = <<>>
  BY DEF Slice
<1>5. Arrived = 0
  <2>1. Behind(frames, 0, 0)
    BY <1>3 DEF Behind, At
  <2> QED
    BY <1>2, <1>3, <2>1, ArrivedIs, OnlyBehind
<1>6. Shaking
  BY <1>2, <1>3, <1>4 DEF Shaking
<1>7. Streaming
  <2> SUFFICES ASSUME kind = "disabled" PROVE Streaming
    BY <1>2 DEF Streaming
  <2>1. delivered = Due(Arrived) /\ buf = Slice(Framed(frames), At(Arrived), got)
    BY <1>2, <1>3, <1>4, <1>5, DueNothing
  <2> QED
    BY <2>1 DEF Streaming
<1>8. Over
  BY <1>2 DEF Over
<1> QED
  BY <1>6, <1>7, <1>8

LEMMA DeviceKeeps ==
    ASSUME ~Pipelined, FramingInv, DeviceWrite \/ Hangup \/ UNCHANGED vars
    PROVE  Shaking' /\ Streaming' /\ Over'
<1>1. UNCHANGED <<kind, frames, got, phase, buf, delivered>>
  BY DEF DeviceWrite, Hangup, vars
<1>2. Arrived' = Arrived /\ At(1)' = At(1) /\ At(Arrived)' = At(Arrived)
      /\ Due(Arrived)' = Due(Arrived) /\ Framed(frames)' = Framed(frames)
  <2>1. Arrived' = Arrived
    BY <1>1, SameArrived
  <2>2. \A k : Due(k)' = Due(k)
    BY <1>1 DEF Due, Expected
  <2> QED
    BY <1>1, <2>1, <2>2 DEF At, Due, Expected
<1>3. PushedBack' <=> PushedBack
  BY <1>1, <1>2 DEF PushedBack
<1>4. phase = "handshake" => sent' <= 1
  <2>1. ASSUME DeviceWrite, phase = "handshake" PROVE sent' = 1
    BY <2>1 DEF DeviceWrite
  <2>2. ASSUME Hangup \/ UNCHANGED vars, phase = "handshake" PROVE sent' <= 1
    BY <2>2 DEF Hangup, vars, FramingInv, Shaking
  <2> QED
    BY <2>1, <2>2
<1>5. Shaking'
  BY <1>1, <1>2, <1>4 DEF FramingInv, Shaking
<1>6. Streaming'
  BY <1>1, <1>2, <1>3, Zenon DEF FramingInv, Streaming
<1>7. Over'
  BY <1>1, <1>2, <1>3, Zenon DEF FramingInv, Over
<1> QED
  BY <1>5, <1>6, <1>7

LEMMA HandshakeKeeps ==
    ASSUME FramingInv, HandshakeRead
    PROVE  Shaking' /\ Streaming' /\ Over'
<1> DEFINE b(n) == Extend(buf, SubSeq(wire, 1, n))
<1>1. PICK n \in 1 .. Len(wire) :
        /\ Read(n)
        /\ \/ IterFrames(b(n)).frames = <<>> /\ buf' = b(n) /\ UNCHANGED phase
           \/ /\ IterFrames(b(n)).frames # <<>> /\ phase' = "stream"
              /\ kind = "auth" /\ buf' = Leftover(IterFrames(b(n)))
           \/ /\ IterFrames(b(n)).frames # <<>> /\ phase' = "stream"
              /\ kind = "legacy"
              /\ buf' = Frame(Head(IterFrames(b(n)).frames)) \o Leftover(IterFrames(b(n)))
           \/ phase' = "closed" /\ kind = "denied"
  BY Zenon DEF HandshakeRead
<1>2. phase = "handshake" /\ delivered' = delivered
  BY DEF HandshakeRead
<1>3. /\ delivered = <<>> /\ sent <= 1
  BY <1>2 DEF FramingInv, Shaking
<1>4. UNCHANGED <<kind, frames, sent, linked>>
  BY <1>1, ReadFacts DEF FramingInv
<1>5. /\ b(n) = Slice(Framed(frames), 0, got')
      /\ IterFrames(b(n)).frames = <<>> => got' < At(1)
      /\ IterFrames(b(n)).frames # <<>> =>
            /\ got' = At(1) /\ Behind(frames, got', 1)
            /\ IterFrames(b(n)).frames = <<frames[1]>>
            /\ Leftover(IterFrames(b(n))) = <<>>
  BY <1>1, <1>2, HandshakeCut DEF FramingInv
<1>6. /\ frames \in Seq(Chunk) /\ got' \in Nat /\ Framed(frames) \in Seq(Byte)
      /\ Len(frames) \in Nat /\ Len(frames) >= 1
  BY <1>1, Reach, ReadFacts DEF FramingInv
<1>7. At(1)' = At(1) /\ Framed(frames)' = Framed(frames)
  BY <1>4 DEF At
<1> HIDE DEF b
<1>8. CASE IterFrames(b(n)).frames = <<>> /\ buf' = b(n) /\ UNCHANGED phase
  <2>1. Shaking'
    BY <1>2, <1>3, <1>4, <1>5, <1>7, <1>8 DEF Shaking
  <2> QED
    BY <1>2, <1>8, <2>1 DEF Streaming, Over
<1>9. ASSUME IterFrames(b(n)).frames # <<>>, phase' = "stream", kind \in {"auth", "legacy"},
             kind = "auth" => buf' = Leftover(IterFrames(b(n))),
             kind = "legacy" => buf' = Frame(frames[1]) \o <<>>
      PROVE  Shaking' /\ Streaming' /\ Over'
  <2>1. Arrived' = 1
    <3>1. Arrived' = CHOOSE i \in 0 .. Len(frames) : Behind(frames, got', i)
      BY <1>4, ArrivedIs DEF Arrived, Behind, Offset
    <3> QED
      BY <1>5, <1>6, <1>9, <3>1, OnlyBehind
  <2>2. CASE kind = "auth"
    <3>1. Due(Arrived)' = <<>>
      BY <1>4, <2>1, <2>2, DueNothing DEF Due, Expected
    <3>2. Slice(Framed(frames), At(1), At(1)) = <<>>
      <4>1. At(1) \in Nat
        BY <1>5, <1>6, <1>9
      <4> QED
        BY <4>1 DEF Slice
    <3>3. /\ delivered' = Due(Arrived)'
          /\ buf' = Slice(Framed(frames), At(Arrived), got)'
      <4>1. At(Arrived)' = At(1)
        BY <1>4, <2>1 DEF At
      <4> QED
        BY <1>2, <1>3, <1>5, <1>7, <1>9, <2>2, <3>1, <3>2, <4>1
    <3>4. Streaming'
      BY <1>4, <2>1, <2>2, <3>3 DEF Streaming
    <3> QED
      BY <1>9, <3>4 DEF Shaking, Over
  <2>3. CASE kind = "legacy"
    <3>1. PushedBack'
      BY <1>2, <1>3, <1>4, <2>1, <2>3 DEF PushedBack
    <3>2. buf' = Slice(Framed(frames), 0, At(1))
      <4>1. 0 \in 0 .. Len(frames) - 1 /\ 0 + 1 = 1 /\ 1 \in 1 .. Len(frames)
        BY <1>6
      <4>2. Frame(frames[1]) = Slice(Framed(frames), At(0), At(1))
        BY <1>6, <4>1, FrameThere DEF At
      <4>3. At(0) = 0
        BY Reach DEF FramingInv
      <4>4. Frame(frames[1]) \in Seq(Byte)
        BY <1>6, <4>1, FrameFacts
      <4>5. Frame(frames[1]) \o <<>> = Frame(frames[1])
        BY <4>4
      <4> QED
        BY <1>9, <2>3, <4>2, <4>3, <4>5
    <3>3. got' = At(1)' /\ buf' = Slice(Framed(frames), 0, got)'
      BY <1>5, <1>7, <1>9, <3>2
    <3>4. Streaming'
      BY <1>4, <2>3, <3>1, <3>3 DEF Streaming
    <3> QED
      BY <1>9, <3>4 DEF Shaking, Over
  <2> QED
    BY <1>9, <2>2, <2>3
<1>10. CASE phase' = "closed" /\ kind = "denied"
  BY <1>2, <1>3, <1>4, <1>10 DEF Shaking, Streaming, Over
<1>11. CASE /\ IterFrames(b(n)).frames # <<>> /\ phase' = "stream"
            /\ kind = "auth" /\ buf' = Leftover(IterFrames(b(n)))
  BY <1>9, <1>11
<1>12. CASE /\ IterFrames(b(n)).frames # <<>> /\ phase' = "stream"
            /\ kind = "legacy"
            /\ buf' = Frame(Head(IterFrames(b(n)).frames)) \o Leftover(IterFrames(b(n)))
  <2>1. Head(IterFrames(b(n)).frames) = frames[1] /\ Leftover(IterFrames(b(n))) = <<>>
    BY <1>5, <1>12
  <2>2. buf' = Frame(frames[1]) \o <<>>
    BY <1>12, <2>1
  <2> QED
    BY <1>9, <1>12, <2>2
<1> QED
  BY <1>1, <1>8, <1>10, <1>11, <1>12 DEF b

LEMMA StreamKeeps ==
    ASSUME FramingInv, StreamRead
    PROVE  Shaking' /\ Streaming' /\ Over'
<1> DEFINE b(n) == Extend(buf, SubSeq(wire, 1, n))
<1>1. PICK n \in 1 .. Len(wire) :
        /\ Read(n)
        /\ buf' = IterFrames(b(n)).rest
        /\ delivered' = delivered \o IterFrames(b(n)).frames
  BY Zenon DEF StreamRead
<1>2. phase = "stream" /\ phase' = "stream"
  BY DEF StreamRead
<1>3. UNCHANGED <<kind, frames, sent, linked>> /\ got' \in Nat
  BY <1>1, ReadFacts DEF FramingInv
<1>4. /\ frames \in Seq(Chunk) /\ got \in Nat /\ Len(frames) \in Nat /\ Len(frames) >= 1
      /\ At(0) = 0 /\ At(1) \in Nat
  <2>1. Len(frames) \in Nat /\ Len(frames) >= 1
    BY Reach DEF FramingInv
  <2>2. 1 \in 0 .. Len(frames)
    BY <2>1
  <2> QED
    BY <2>1, <2>2, Reach DEF FramingInv
<1>5. \E k \in 0 .. Len(frames) :
         /\ At(k) <= got /\ buf = Slice(Framed(frames), At(k), got)
         /\ kind = "auth" => k >= 1
         /\ delivered = Due(k)
  <2>1. CASE delivered = Due(Arrived) /\ buf = Slice(Framed(frames), At(Arrived), got)
    <3>1. Arrived \in 0 .. Len(frames) /\ At(Arrived) <= got
      BY ArrivedFacts DEF FramingInv, Behind, At
    <3>2. kind = "auth" => Arrived >= 1
      BY <1>2 DEF FramingInv, Streaming
    <3> QED
      BY <2>1, <3>1, <3>2
  <2>2. CASE PushedBack /\ got = At(1) /\ buf = Slice(Framed(frames), 0, got)
    <3>1. kind = "legacy" /\ delivered = <<>>
      BY <2>2 DEF PushedBack
    <3>2. delivered = Due(0)
      BY <3>1, DueNothing
    <3>3. 0 \in 0 .. Len(frames) /\ At(0) <= got /\ buf = Slice(Framed(frames), At(0), got)
      BY <1>4, <2>2
    <3> QED
      BY <3>1, <3>2, <3>3
  <2> QED
    BY <1>2, <2>1, <2>2 DEF FramingInv, Streaming
<1>6. PICK k \in 0 .. Len(frames) :
         /\ At(k) <= got /\ buf = Slice(Framed(frames), At(k), got)
         /\ kind = "auth" => k >= 1
         /\ delivered = Due(k)
  BY <1>5
<1>7. PICK j \in k .. Len(frames) :
        /\ Behind(frames, got', j)
        /\ delivered \o IterFrames(b(n)).frames = Due(j)
        /\ IterFrames(b(n)).rest = Slice(Framed(frames), At(j), got')
  BY <1>1, <1>6, StreamCut DEF FramingInv
<1> HIDE DEF b
<1>8. Arrived' = j
  <2>1. Arrived' = CHOOSE i \in 0 .. Len(frames) : Behind(frames, got', i)
    BY <1>3, ArrivedIs DEF Arrived, Behind, Offset
  <2> QED
    BY <1>3, <1>4, <1>7, <2>1, OnlyBehind
<1>9. delivered' = Due(Arrived)'
  <2>1. Due(Arrived)' = Due(j)
    BY <1>3, <1>8 DEF Due, Expected
  <2> QED
    BY <1>1, <1>7, <2>1
<1>10. buf' = Slice(Framed(frames), At(Arrived), got)'
  <2>1. At(Arrived)' = At(j) /\ Framed(frames)' = Framed(frames)
    BY <1>3, <1>8 DEF At
  <2> QED
    BY <1>1, <1>7, <2>1
<1>11. kind' # "denied" /\ (kind' = "auth" => Arrived' >= 1)
  <2>1. kind # "denied"
    BY <1>2 DEF FramingInv, Streaming
  <2> QED
    BY <1>3, <1>6, <1>8, <2>1
<1> QED
  BY <1>2, <1>9, <1>10, <1>11 DEF Shaking, Streaming, Over

LEMMA CloseKeeps ==
    ASSUME FramingInv, EndOfStream \/ RecvTimeout
    PROVE  Shaking' /\ Streaming' /\ Over'
<1>1. phase # "closed" /\ phase' = "closed" /\ UNCHANGED <<kind, frames, got, delivered>>
  BY DEF EndOfStream, RecvTimeout, Close
<1>2. Arrived' = Arrived
  BY <1>1, SameArrived
<1>3. Due(Arrived)' = Due(Arrived) /\ (PushedBack' <=> PushedBack)
  BY <1>1, <1>2 DEF Due, Expected, PushedBack
<1>4. CASE phase = "handshake"
  <2>1. delivered = <<>> /\ got < At(1)
    BY <1>4 DEF FramingInv, Shaking
  <2>2. Arrived = 0
    <3>1. /\ frames \in Seq(Chunk) /\ got \in Nat /\ Len(frames) \in Nat /\ At(0) = 0
      BY Reach DEF FramingInv
    <3>2. Behind(frames, got, 0)
      BY <2>1, <3>1 DEF Behind, At
    <3> QED
      BY <3>1, <3>2, ArrivedIs, OnlyBehind
  <2>3. delivered = Due(Arrived)
    BY <2>1, <2>2, DueNothing
  <2> QED
    BY <1>1, <1>3, <2>1, <2>3 DEF Shaking, Streaming, Over
<1>5. CASE phase = "stream"
  <2>1. kind # "denied" /\ (delivered = Due(Arrived) \/ PushedBack)
    BY <1>5 DEF FramingInv, Streaming
  <2> QED
    BY <1>1, <1>3, <2>1 DEF Shaking, Streaming, Over
<1> QED
  BY <1>1, <1>4, <1>5 DEF FramingInv, TypeOK

LEMMA FramingAlways == ~Pipelined => (Spec => []FramingInv)
<1> SUFFICES ASSUME ~Pipelined PROVE Spec => []FramingInv
  OBVIOUS
<1>1. Init => FramingInv
  BY TypeStarts, CarriedStarts, PlacedStarts DEF FramingInv
<1>2. FramingInv /\ [Next]_vars => FramingInv'
  <2> SUFFICES ASSUME FramingInv, [Next]_vars PROVE FramingInv'
    OBVIOUS
  <2>1. TypeOK' /\ Carried'
    BY TypeStep, CarriedStep DEF FramingInv
  <2>2. Shaking' /\ Streaming' /\ Over'
    <3>1. CASE DeviceWrite \/ Hangup \/ UNCHANGED vars
      BY <3>1, DeviceKeeps
    <3>2. CASE HandshakeRead
      BY <3>2, HandshakeKeeps
    <3>3. CASE StreamRead
      BY <3>3, StreamKeeps
    <3>4. CASE EndOfStream \/ RecvTimeout
      BY <3>4, CloseKeeps
    <3> QED
      BY <3>1, <3>2, <3>3, <3>4 DEF Next
  <2> QED
    BY <2>1, <2>2 DEF FramingInv
<1> QED
  BY <1>1, <1>2, PTL DEF Spec

-----------------------------------------------------------------------------
(* The theorems, for devices that wait until their handshake is over; for  *)
(* the others InOrder is false.                                            *)

(* What is due is how the expected frames begin.                           *)
LEMMA DueFirst ==
    ASSUME frames \in Seq(Chunk), NEW k \in 0 .. Len(frames), kind = "auth" => k >= 1
    PROVE  IsPrefix(Due(k), Expected)
<1>1. ASSUME NEW q \in Seq(Chunk), NEW n \in 0 .. Len(q)
      PROVE  IsPrefix(SubSeq(q, 1, n), q)
  <2>1. Len(SubSeq(q, 1, n)) = n /\ n <= Len(q)
    OBVIOUS
  <2>2. SubSeq(SubSeq(q, 1, n), 1, n) = SubSeq(q, 1, n)
    OBVIOUS
  <2> QED
    BY <2>1, <2>2 DEF IsPrefix
<1>2. CASE kind # "auth"
  <2>1. Due(k) = SubSeq(frames, 1, k) /\ Expected = frames
    BY <1>2 DEF Due, Expected
  <2> QED
    BY <1>1, <2>1
<1>3. CASE kind = "auth"
  <2>1. Tail(frames) \in Seq(Chunk) /\ k - 1 \in 0 .. Len(Tail(frames))
    <3>1. k \in 1 .. Len(frames) /\ k \in 1 .. k
      BY <1>3
    <3>2. Tail(frames) \in Seq(Chunk) /\ Len(Tail(frames)) = Len(frames) - 1
      BY <3>1, TailParts
    <3> QED
      BY <3>1, <3>2
  <2>2. Due(k) = SubSeq(Tail(frames), 1, k - 1) /\ Expected = Tail(frames)
    BY <1>3 DEF Due, Expected
  <2> QED
    BY <1>1, <2>1, <2>2
<1> QED
  BY <1>2, <1>3

LEMMA NothingFirst ==
    ASSUME frames \in Seq(Chunk), Len(frames) >= 1
    PROVE  IsPrefix(<<>>, Expected)
<1>1. 0 \in 0 .. Len(frames) /\ 1 \in 0 .. Len(frames)
  OBVIOUS
<1>2. CASE kind = "auth"
  BY <1>1, <1>2, DueFirst, DueNothing
<1>3. CASE kind # "auth"
  BY <1>1, <1>3, DueFirst, DueNothing
<1> QED
  BY <1>2, <1>3

(* The receive loop sees the frames that the device wrote, unaltered and   *)
(* in their order, however TCP cuts them.                                  *)
THEOREM InOrderHolds ==
    ASSUME ~Pipelined PROVE Spec => []InOrder
<1>1. FramingInv => InOrder
  <2> SUFFICES ASSUME FramingInv PROVE IsPrefix(delivered, Expected)
    BY DEF InOrder
  <2>1. frames \in Seq(Chunk) /\ Len(frames) >= 1
    BY Reach DEF FramingInv
  <2>2. Arrived \in 0 .. Len(frames)
    BY ArrivedFacts DEF FramingInv, Behind
  <2>3. IsPrefix(<<>>, Expected)
    BY <2>1, NothingFirst
  <2>4. \/ delivered = <<>>
        \/ delivered = Due(Arrived)
    BY DEF FramingInv, TypeOK, Shaking, Streaming, Over, PushedBack
  <2>5. CASE delivered = Due(Arrived) /\ delivered # <<>>
    <3>1. kind = "auth" => Arrived >= 1
      <4> SUFFICES ASSUME kind = "auth", Arrived = 0 PROVE FALSE
        BY <2>1, <2>2
      <4> QED
        BY <2>5, DueNothing
    <3> QED
      BY <2>1, <2>2, <2>5, <3>1, DueFirst
  <2> QED
    BY <2>3, <2>4, <2>5
<1> QED
  BY <1>1, FramingAlways, PTL

(* While it streams, what was read is what was delivered and what is       *)
(* buffered, to the byte.                                                  *)
THEOREM ReassembledHolds ==
    ASSUME ~Pipelined PROVE Spec => []Reassembled
<1>1. FramingInv => Reassembled
  <2> SUFFICES ASSUME FramingInv, phase = "stream"
               PROVE  \/ /\ delivered = Due(Arrived)
                         /\ Len(Framed(SubSeq(frames, 1, Arrived))) + Len(buf) = got
                      \/ PushedBack /\ Len(buf) = got
    BY DEF Reassembled
  <2>1. /\ Framed(frames) \in Seq(Byte) /\ got \in Nat /\ got <= Len(Framed(frames))
        /\ \A k \in 0 .. Len(frames) : At(k) \in Nat
    BY Reach DEF FramingInv
  <2>2. Arrived \in 0 .. Len(frames) /\ At(Arrived) \in Nat /\ At(Arrived) <= got
    BY <2>1, ArrivedFacts DEF FramingInv, Behind, At
  <2>3. CASE delivered = Due(Arrived) /\ buf = Slice(Framed(frames), At(Arrived), got)
    <3>1. Len(buf) = got - At(Arrived)
      BY <2>1, <2>2, <2>3, SliceTyped
    <3>2. At(Arrived) + Len(buf) = got
      BY <2>1, <2>2, <3>1
    <3> QED
      BY <2>3, <3>2 DEF At, Offset
  <2>4. CASE PushedBack /\ got = At(1) /\ buf = Slice(Framed(frames), 0, got)
    <3>1. ASSUME NEW z \in Nat, z = 0 PROVE Len(Slice(Framed(frames), z, got)) = got - z
      BY <2>1, <3>1, SliceTyped
    <3>2. Len(buf) = got
      BY <2>1, <2>4, <3>1
    <3> QED
      BY <2>4, <3>2
  <2> QED
    BY <2>3, <2>4 DEF FramingInv, Streaming
<1> QED
  BY <1>1, FramingAlways, PTL

(* A connection that is closed takes no frame with it that had been read   *)
(* in full, but one pushed back.                                           *)
THEOREM NothingHeldBackHolds ==
    ASSUME ~Pipelined PROVE Spec => []NothingHeldBack
<1>1. FramingInv => NothingHeldBack
  BY DEF FramingInv, Over, NothingHeldBack
<1> QED
  BY <1>1, FramingAlways, PTL
=============================================================================
