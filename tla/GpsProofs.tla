------------------------------- MODULE GpsProofs -------------------------------
(***************************************************************************)
(* Proofs about Gps and its ring, UsbGps, for every size of the buffers    *)
(* and of the packets, every sentence and any number of lost characters.   *)
(*                                                                         *)
(* The ring is filled by a loop.  That a loop does n times what its body   *)
(* does is induction; it is drawn here from the fact that a set of natural *)
(* numbers has a least member.                                             *)
(***************************************************************************)
EXTENDS Gps, SequenceTheorems, WellFoundedInduction, TLAPS

LEMMA LeastMember ==
  ASSUME NEW T, T \subseteq Nat, T # {}
  PROVE  \E x \in T : \A y \in T : ~(y < x)
<1> DEFINE R == OpToRel(<, Nat)
<1>1. IsWellFoundedOn(R, Nat)
  BY NatLessThanWellFounded
<1>2. ASSUME NEW x \in Nat, NEW y \in Nat, y < x
      PROVE  <<y, x>> \in R
  BY <1>2 DEF OpToRel
<1> HIDE DEF R
<1>3. \E x \in T : \A y \in T : ~(<<y, x>> \in R)
  BY <1>1, WFMin
<1> QED
  BY <1>2, <1>3

\* Induction up to n, for a set.
LEMMA Induction ==
  ASSUME NEW n \in Nat, NEW S, 0 \in S, \A k \in 0 .. n - 1 : k \in S => k + 1 \in S
  PROVE  n \in S
<1> DEFINE T == (0 .. n) \ S
<1> SUFFICES ASSUME n \notin S PROVE FALSE
  OBVIOUS
<1>1. T \subseteq Nat /\ T # {}
  OBVIOUS
<1>2. PICK x \in T : \A y \in T : ~(y < x)
  <2> HIDE DEF T
  <2> QED
    BY <1>1, LeastMember
<1>3. x \in 1 .. n /\ x - 1 \in 0 .. n - 1 /\ x - 1 < x /\ (x - 1) + 1 = x
  BY <1>2
<1>4. x - 1 \in S
  BY <1>2, <1>3
<1> QED
  BY <1>2, <1>3, <1>4

-----------------------------------------------------------------------------
(* The ring *)

LEMMA RingSizes ==
  BufSize \in Nat \ {0} /\ Word \in Nat \ {0} /\ PacketMax \in 1 .. BufSize - 1
  /\ PacketMax % Word = 0
  BY RingAssumption

LEMMA ModOn ==
  ASSUME NEW x \in 0 .. BufSize - 1
  PROVE  x % BufSize = x
  BY RingSizes

LEMMA ModBelow ==
  ASSUME NEW x \in -BufSize .. -1
  PROVE  x % BufSize = x + BufSize
  BY RingSizes

LEMMA ModAbove ==
  ASSUME NEW x \in BufSize .. 2 * BufSize - 1
  PROVE  x % BufSize = x - BufSize
  BY RingSizes

\* A place further on.
LEMMA ModSum ==
  ASSUME NEW p \in 0 .. BufSize - 1, NEW k \in 0 .. BufSize
  PROVE  (p + k) % BufSize = IF p + k < BufSize THEN p + k ELSE (p + k) - BufSize
<1> DEFINE x == p + k
<1>1. x \in 0 .. 2 * BufSize - 1
  BY RingSizes
<1> HIDE DEF x
<1>2. x % BufSize = IF x < BufSize THEN x ELSE x - BufSize
  <2>1. CASE x < BufSize
    <3>1. x \in 0 .. BufSize - 1
      BY <1>1, <2>1, RingSizes
    <3> QED
      BY <2>1, <3>1, ModOn
  <2>2. CASE ~(x < BufSize)
    <3>1. x \in BufSize .. 2 * BufSize - 1
      BY <1>1, <2>2, RingSizes
    <3> QED
      BY <2>2, <3>1, ModAbove
  <2> QED
    BY <2>1, <2>2
<1> QED
  BY <1>2, Zenon DEF x

LEMMA ModType ==
  ASSUME NEW x \in Int
  PROVE  x % BufSize \in 0 .. BufSize - 1
  BY RingSizes

LEMMA LevelIs ==
  ASSUME NEW C, NEW r \in Ring(C)
  PROVE  /\ Level(r) = IF r.wr >= r.rd THEN r.wr - r.rd ELSE r.wr - r.rd + BufSize
         /\ Level(r) \in 0 .. BufSize - 1
<1>1. r.wr \in 0 .. BufSize - 1 /\ r.rd \in 0 .. BufSize - 1
  BY DEF Ring
<1>2. CASE r.wr >= r.rd
  <2>1. r.wr - r.rd \in 0 .. BufSize - 1
    BY <1>1, <1>2, RingSizes
  <2>2. Level(r) = r.wr - r.rd
    BY <2>1, ModOn DEF Level
  <2> QED
    BY <1>2, <2>1, <2>2
<1>3. CASE ~(r.wr >= r.rd)
  <2>1. r.wr - r.rd \in -BufSize .. -1
    BY <1>1, <1>3, RingSizes
  <2>2. Level(r) = r.wr - r.rd + BufSize
    BY <2>1, ModBelow DEF Level
  <2> QED
    BY <1>1, <1>3, <2>2, RingSizes
<1> QED
  BY <1>2, <1>3

\* The place after one.
LEMMA NextPlace ==
  ASSUME NEW x \in 0 .. BufSize - 1
  PROVE  (x + 1) % BufSize = IF x + 1 = BufSize THEN 0 ELSE x + 1
<1>1. CASE x + 1 = BufSize
  BY <1>1, RingSizes
<1>2. CASE x + 1 # BufSize
  BY <1>2, ModOn, RingSizes
<1> QED
  BY <1>1, <1>2

\* Places of the ring: where the next character goes is the place behind those
\* that wait, and the k-th place behind the next one is the k+1-st.
LEMMA FreePlace ==
  ASSUME NEW C, NEW r \in Ring(C), NEW k \in 0 .. BufSize - 1
  PROVE  /\ (r.rd + k) % BufSize \in 0 .. BufSize - 1
         /\ (r.rd + k) % BufSize = r.wr <=> k = Level(r)
<1>1. r.wr \in 0 .. BufSize - 1 /\ r.rd \in 0 .. BufSize - 1
  BY DEF Ring
<1>2. Level(r) = IF r.wr >= r.rd THEN r.wr - r.rd ELSE r.wr - r.rd + BufSize
  BY LevelIs
<1>3. (r.rd + k) % BufSize = IF r.rd + k < BufSize THEN r.rd + k ELSE (r.rd + k) - BufSize
  <2>1. k \in 0 .. BufSize
    BY RingSizes
  <2> QED
    BY <1>1, <2>1, ModSum
<1> QED
  BY <1>1, <1>2, <1>3, RingSizes

LEMMA PlaceBehind ==
  ASSUME NEW x \in 0 .. BufSize - 1, NEW k \in 0 .. BufSize - 1
  PROVE  (((x + 1) % BufSize) + k) % BufSize = (x + (k + 1)) % BufSize
<1> DEFINE y == (x + 1) % BufSize
<1>1. y = IF x + 1 = BufSize THEN 0 ELSE x + 1
  BY NextPlace
<1> HIDE DEF y
<1>2. y \in 0 .. BufSize - 1
  BY <1>1, RingSizes
<1>3. (y + k) % BufSize = IF y + k < BufSize THEN y + k ELSE (y + k) - BufSize
  BY <1>2, ModSum, RingSizes
<1>4. k + 1 \in 0 .. BufSize
  BY RingSizes
<1>5. (x + (k + 1)) % BufSize =
        IF x + (k + 1) < BufSize THEN x + (k + 1) ELSE (x + (k + 1)) - BufSize
  BY <1>4, ModSum
<1>6. (y + k) % BufSize = (x + (k + 1)) % BufSize
  <2>1. CASE x + 1 = BufSize
    <3>1. y = 0
      BY <1>1, <2>1
    <3>2. (y + k) % BufSize = k
      BY <1>3, <3>1, RingSizes
    <3>3. (x + (k + 1)) % BufSize = k
      BY <1>5, <2>1, RingSizes
    <3> QED
      BY <3>2, <3>3
  <2>2. CASE x + 1 # BufSize
    <3>1. y = x + 1 /\ y + k = x + (k + 1)
      BY <1>1, <2>2
    <3> QED
      BY <3>1
  <2> QED
    BY <2>1, <2>2
<1> QED
  BY <1>6 DEF y

LEMMA QueuedIs ==
  ASSUME NEW C, NEW r \in Ring(C)
  PROVE  /\ Queued(r) \in Seq(C) /\ Len(Queued(r)) = Level(r)
         /\ \A i \in 1 .. Level(r) : Queued(r)[i] = r.data[(r.rd + (i - 1)) % BufSize]
<1>1. Level(r) \in 0 .. BufSize - 1 /\ Level(r) \in Nat
  BY LevelIs, RingSizes
<1>2. \A i \in 1 .. Level(r) : r.data[(r.rd + (i - 1)) % BufSize] \in C
  <2>1. SUFFICES ASSUME NEW i \in 1 .. Level(r)
                 PROVE  r.data[(r.rd + (i - 1)) % BufSize] \in C
    OBVIOUS
  <2>2. i - 1 \in 0 .. BufSize - 1
    BY <1>1, RingSizes
  <2>3. (r.rd + (i - 1)) % BufSize \in 0 .. BufSize - 1
    BY <2>2, FreePlace
  <2>4. r.data \in [0 .. BufSize - 1 -> C]
    BY DEF Ring
  <2> QED
    BY <2>3, <2>4
<1>3. Queued(r) \in [1 .. Level(r) -> C]
  BY <1>2 DEF Queued
<1>4. Queued(r) \in Seq(C) /\ Len(Queued(r)) = Level(r)
  BY <1>1, <1>3
<1> QED
  BY <1>4 DEF Queued

\* Newest keeps the end of a sequence.
LEMMA NewestIs ==
  ASSUME NEW C, NEW s \in Seq(C)
  PROVE  /\ Newest(s) \in Seq(C)
         /\ Len(Newest(s)) = IF Len(s) < BufSize THEN Len(s) ELSE BufSize - 1
         /\ \A i \in 1 .. Len(Newest(s)) : Newest(s)[i] = s[i + (Len(s) - Len(Newest(s)))]
<1>1. CASE Len(s) < BufSize
  <2>1. Newest(s) = s
    BY <1>1 DEF Newest
  <2>2. \A i \in 1 .. Len(s) : i + (Len(s) - Len(s)) = i
    OBVIOUS
  <2> QED
    BY <1>1, <2>1, <2>2
<1>2. CASE ~(Len(s) < BufSize)
  <2> DEFINE m == Len(s) - BufSize + 2
             t == SubSeq(s, m, Len(s))
  <2>1. Newest(s) = t
    BY <1>2 DEF Newest
  <2>2. Len(s) \in Nat /\ m \in 1 .. Len(s) + 1 /\ Len(s) - m + 1 = BufSize - 1
    BY <1>2, RingSizes
  <2>3. \A i \in m .. Len(s) : s[i] \in C
    BY <2>2
  <2> HIDE DEF m
  <2>4. t \in Seq(C) /\ Len(t) = BufSize - 1 /\ \A i \in 1 .. BufSize - 1 : t[i] = s[m + i - 1]
    BY <2>2, <2>3, SubSeqProperties, RingSizes
  <2>5. ASSUME NEW i \in 1 .. BufSize - 1
        PROVE  m + i - 1 = i + (Len(s) - (BufSize - 1))
    BY <2>2, RingSizes
  <2> HIDE DEF t
  <2> QED
    BY <1>2, <2>1, <2>4, <2>5
<1> QED
  BY <1>1, <1>2

LEMMA NewestAppend ==
  ASSUME NEW C, NEW s \in Seq(C), NEW c \in C
  PROVE  Newest(Append(Newest(s), c)) = Newest(Append(s, c))
<1> DEFINE n == Newest(s)
           a == Append(n, c)
           b == Append(s, c)
           x == Newest(a)
           y == Newest(b)
<1>1. /\ n \in Seq(C) /\ Len(s) \in Nat
      /\ Len(n) = IF Len(s) < BufSize THEN Len(s) ELSE BufSize - 1
      /\ \A i \in 1 .. Len(n) : n[i] = s[i + (Len(s) - Len(n))]
  BY NewestIs
<1>0. n \in Seq(C)
  BY <1>1
<1> HIDE DEF n
<1>2. a \in Seq(C) /\ Len(a) = Len(n) + 1 /\ (\A i \in 1 .. Len(n) : a[i] = n[i]) /\ a[Len(n) + 1] = c
  BY <1>0, AppendProperties
<1>3. b \in Seq(C) /\ Len(b) = Len(s) + 1 /\ (\A i \in 1 .. Len(s) : b[i] = s[i]) /\ b[Len(s) + 1] = c
  BY AppendProperties
<1> HIDE DEF a, b
<1>4. /\ x \in Seq(C) /\ Len(x) = IF Len(a) < BufSize THEN Len(a) ELSE BufSize - 1
      /\ \A i \in 1 .. Len(x) : x[i] = a[i + (Len(a) - Len(x))]
  BY <1>2, NewestIs
<1>5. /\ y \in Seq(C) /\ Len(y) = IF Len(b) < BufSize THEN Len(b) ELSE BufSize - 1
      /\ \A i \in 1 .. Len(y) : y[i] = b[i + (Len(b) - Len(y))]
  BY <1>3, NewestIs
<1> HIDE DEF x, y
<1>6. Len(x) = Len(y) /\ Len(x) \in Nat
  BY <1>1, <1>2, <1>3, <1>4, <1>5, RingSizes
<1>7. ASSUME NEW i \in 1 .. Len(x)
      PROVE  x[i] = y[i]
  <2> DEFINE j == i + (Len(a) - Len(x))
             k == i + (Len(b) - Len(y))
             d == Len(s) - Len(n)
  <2>1. x[i] = a[j] /\ y[i] = b[k]
    BY <1>4, <1>5, <1>6
  <2>2. Len(n) \in Nat /\ d \in Nat /\ j \in 1 .. Len(n) + 1 /\ k = j + d /\ k \in 1 .. Len(s) + 1
    <3>1. /\ Len(s) \in Nat /\ Len(a) = Len(n) + 1 /\ Len(b) = Len(s) + 1 /\ Len(x) = Len(y)
          /\ Len(n) = IF Len(s) < BufSize THEN Len(s) ELSE BufSize - 1
          /\ Len(x) = IF Len(a) < BufSize THEN Len(a) ELSE BufSize - 1
      BY <1>1, <1>2, <1>3, <1>4, <1>6
    <3>2. CASE Len(s) < BufSize
      BY <3>1, <3>2, RingSizes
    <3>3. CASE ~(Len(s) < BufSize)
      <4>1. Len(n) = BufSize - 1 /\ Len(x) = BufSize - 1
        BY <3>1, <3>3, RingSizes
      <4> QED
        BY <3>1, <3>3, <4>1, RingSizes
    <3> QED
      BY <3>2, <3>3
  <2> HIDE DEF j, k
  <2>3. CASE j = Len(n) + 1
    BY <1>2, <1>3, <2>1, <2>2, <2>3
  <2>4. CASE j # Len(n) + 1
    <3>1. j \in 1 .. Len(n) /\ k \in 1 .. Len(s)
      BY <1>1, <2>2, <2>4
    <3>2. a[j] = n[j] /\ n[j] = s[j + d] /\ b[k] = s[k]
      BY <1>1, <1>2, <1>3, <3>1
    <3> QED
      BY <2>1, <2>2, <3>2
  <2> QED
    BY <2>3, <2>4
<1>8. x = y
  BY <1>4, <1>5, <1>6, <1>7, SeqEqual
<1> QED
  BY <1>8 DEF x, y, a, b, n

\* A character goes behind those that wait, or takes the place of the oldest.
LEMMA PutCharIs ==
  ASSUME NEW C, NEW r \in Ring(C), NEW c \in C
  PROVE  PutChar(r, c) \in Ring(C) /\ Queued(PutChar(r, c)) = Newest(Append(Queued(r), c))
<1> DEFINE nxt == (r.wr + 1) % BufSize
           old == (r.rd + 1) % BufSize
           p == PutChar(r, c)
           q == Queued(r)
           a == Append(q, c)
<1>1. /\ r.wr \in 0 .. BufSize - 1 /\ r.rd \in 0 .. BufSize - 1
      /\ r.data \in [0 .. BufSize - 1 -> C]
  BY DEF Ring
<1>2. /\ nxt = IF r.wr + 1 = BufSize THEN 0 ELSE r.wr + 1
      /\ old = IF r.rd + 1 = BufSize THEN 0 ELSE r.rd + 1
  BY <1>1, NextPlace
<1>3. p = [wr |-> nxt, rd |-> IF nxt = r.rd THEN old ELSE r.rd,
           data |-> [r.data EXCEPT ![r.wr] = c]]
  BY DEF PutChar, nxt, old
<1> HIDE DEF nxt, old
<1>4. nxt \in 0 .. BufSize - 1 /\ old \in 0 .. BufSize - 1
  BY <1>1, <1>2, RingSizes
<1>5. /\ p \in Ring(C) /\ p.wr = nxt /\ p.rd = IF nxt = r.rd THEN old ELSE r.rd
      /\ p.data = [r.data EXCEPT ![r.wr] = c]
  BY <1>1, <1>3, <1>4 DEF Ring
<1> HIDE DEF p
<1>6. /\ Level(p) = IF p.wr >= p.rd THEN p.wr - p.rd ELSE p.wr - p.rd + BufSize
      /\ Level(r) = IF r.wr >= r.rd THEN r.wr - r.rd ELSE r.wr - r.rd + BufSize
      /\ Level(r) \in 0 .. BufSize - 1
  BY <1>5, LevelIs
<1>7. /\ nxt = r.rd <=> Level(r) = BufSize - 1
      /\ Level(p) = IF nxt = r.rd THEN BufSize - 1 ELSE Level(r) + 1
  <2> DEFINE u == r.wr
             v == r.rd
  <2>1. /\ u \in 0 .. BufSize - 1 /\ v \in 0 .. BufSize - 1
        /\ Level(r) = IF u >= v THEN u - v ELSE u - v + BufSize
        /\ nxt = IF u + 1 = BufSize THEN 0 ELSE u + 1
        /\ old = IF v + 1 = BufSize THEN 0 ELSE v + 1
        /\ p.wr = nxt /\ p.rd = IF nxt = v THEN old ELSE v
    BY <1>1, <1>2, <1>5, <1>6
  <2> HIDE DEF u, v
  <2>2. nxt = v <=> Level(r) = BufSize - 1
    BY <2>1, RingSizes
  <2>3. CASE nxt = v
    <3>1. p.wr = nxt /\ p.rd = old
      BY <2>1, <2>3
    <3>2. Level(p) = IF nxt >= old THEN nxt - old ELSE nxt - old + BufSize
      BY <1>6, <3>1
    <3>3. Level(p) = BufSize - 1
      BY <2>1, <2>3, <3>2, RingSizes
    <3> QED
      BY <2>2, <2>3, <3>3 DEF v
  <2>4. CASE nxt # v
    <3>1. p.wr = nxt /\ p.rd = v
      BY <2>1, <2>4
    <3>2. Level(p) = IF nxt >= v THEN nxt - v ELSE nxt - v + BufSize
      BY <1>6, <3>1
    <3>3. Level(p) = Level(r) + 1
      BY <2>1, <2>4, <3>2, RingSizes
    <3> QED
      BY <2>2, <2>4, <3>3 DEF v
  <2> QED
    BY <2>3, <2>4
<1>8. /\ q \in Seq(C) /\ Len(q) = Level(r)
      /\ \A i \in 1 .. Level(r) : q[i] = r.data[(r.rd + (i - 1)) % BufSize]
  BY QueuedIs
<1>9. /\ Queued(p) \in Seq(C) /\ Len(Queued(p)) = Level(p)
      /\ \A i \in 1 .. Level(p) : Queued(p)[i] = p.data[(p.rd + (i - 1)) % BufSize]
  BY <1>5, QueuedIs
<1> HIDE DEF q
<1>10. a \in Seq(C) /\ Len(a) = Level(r) + 1 /\ (\A i \in 1 .. Level(r) : a[i] = q[i])
       /\ a[Level(r) + 1] = c
  BY <1>8, AppendProperties
<1> HIDE DEF a
<1>11. /\ Newest(a) \in Seq(C)
       /\ Len(Newest(a)) = IF Len(a) < BufSize THEN Len(a) ELSE BufSize - 1
       /\ \A i \in 1 .. Len(Newest(a)) : Newest(a)[i] = a[i + (Len(a) - Len(Newest(a)))]
  BY <1>10, NewestIs
\* What the buffer holds at the k-th place from the old read pointer.
<1>12. ASSUME NEW k \in 0 .. Level(r)
       PROVE  p.data[(r.rd + k) % BufSize] = a[k + 1]
  <2>1. k \in 0 .. BufSize - 1
    BY <1>6, RingSizes
  <2>2. /\ (r.rd + k) % BufSize \in 0 .. BufSize - 1
        /\ (r.rd + k) % BufSize = r.wr <=> k = Level(r)
    BY <2>1, FreePlace
  <2>3. CASE k = Level(r)
    BY <1>1, <1>5, <1>10, <2>2, <2>3
  <2>4. CASE k # Level(r)
    <3>1. k + 1 \in 1 .. Level(r) /\ (k + 1) - 1 = k
      BY <1>6, <2>4
    <3>2. p.data[(r.rd + k) % BufSize] = r.data[(r.rd + k) % BufSize]
      BY <1>1, <1>5, <2>2, <2>4
    <3>3. a[k + 1] = r.data[(r.rd + k) % BufSize]
      BY <1>8, <1>10, <3>1
    <3> QED
      BY <3>2, <3>3
  <2> QED
    BY <2>3, <2>4
<1>13. CASE nxt # r.rd
  <2>1. Level(p) = Level(r) + 1 /\ Level(r) + 1 < BufSize /\ p.rd = r.rd
    BY <1>5, <1>6, <1>7, <1>13, RingSizes
  <2>2. Newest(a) = a
    BY <1>10, <2>1 DEF Newest
  <2>3. ASSUME NEW i \in 1 .. Level(r) + 1
        PROVE  Queued(p)[i] = a[i]
    <3>1. i - 1 \in 0 .. Level(r) /\ (i - 1) + 1 = i
      BY <1>6
    <3> QED
      BY <1>9, <1>12, <2>1, <3>1
  <2>4. Queued(p) = a
    BY <1>9, <1>10, <2>1, <2>3, SeqEqual
  <2> QED
    BY <1>5, <2>2, <2>4 DEF p, a, q
<1>14. CASE nxt = r.rd
  <2>1. Level(p) = BufSize - 1 /\ Level(r) = BufSize - 1 /\ p.rd = old
    BY <1>5, <1>7, <1>14
  <2>2. Len(a) = BufSize /\ Len(Newest(a)) = BufSize - 1
    BY <1>10, <1>11, <2>1, RingSizes
  <2>3. ASSUME NEW i \in 1 .. BufSize - 1
        PROVE  Queued(p)[i] = Newest(a)[i]
    <3>1. i - 1 \in 0 .. BufSize - 1 /\ (i - 1) + 1 = i /\ i \in 0 .. Level(r)
          /\ BufSize - (BufSize - 1) = 1
      BY <2>1, RingSizes
    <3>2. (old + (i - 1)) % BufSize = (r.rd + i) % BufSize
      BY <1>1, <3>1, PlaceBehind DEF old
    <3>3. Queued(p)[i] = p.data[(r.rd + i) % BufSize]
      BY <1>9, <2>1, <3>2
    <3>4. Newest(a)[i] = a[i + 1]
      BY <1>11, <2>2, <3>1
    <3> QED
      BY <1>12, <3>1, <3>3, <3>4
  <2>4. Queued(p) = Newest(a)
    <3> DEFINE z == Queued(p)
               y == Newest(a)
    <3>1. z \in Seq(C) /\ y \in Seq(C) /\ Len(z) = Len(y) /\ Len(z) = BufSize - 1
      BY <1>9, <1>11, <2>1, <2>2
    <3>2. \A i \in 1 .. Len(z) : z[i] = y[i]
      BY <2>3, <3>1
    <3> HIDE DEF z, y
    <3>3. z = y
      BY <3>1, <3>2, SeqEqual
    <3> QED
      BY <3>3 DEF z, y
  <2> QED
    BY <1>5, <2>4 DEF p, a, q
<1> QED
  BY <1>13, <1>14

\* usb_gps_puts, character by character: its loop has a result for each of them.
LEMMA PutsExists ==
  ASSUME NEW C, NEW r \in Ring(C), NEW s \in Seq(C)
  PROVE  \E f \in [0 .. Len(s) -> Ring(C)] :
           f = [k \in 0 .. Len(s) |-> IF k = 0 THEN r ELSE PutChar(f[k - 1], s[k])]
<1> DEFINE Q(n, f) == f[0] = r /\ \A k \in 1 .. n : f[k] = PutChar(f[k - 1], s[k])
           S == {n \in 0 .. Len(s) : \E f \in [0 .. n -> Ring(C)] : Q(n, f)}
<1>1. Len(s) \in Nat
  OBVIOUS
<1>2. 0 \in S
  <2> DEFINE f == [k \in 0 .. 0 |-> r]
  <2>1. f \in [0 .. 0 -> Ring(C)] /\ Q(0, f) /\ 0 \in 0 .. Len(s)
    BY <1>1
  <2> HIDE DEF f, Q
  <2> QED
    BY <2>1
<1>3. ASSUME NEW n \in 0 .. Len(s) - 1, n \in S
      PROVE  n + 1 \in S
  <2>1. PICK f \in [0 .. n -> Ring(C)] : Q(n, f)
    BY <1>3
  <2> DEFINE g == [k \in 0 .. n + 1 |-> IF k <= n THEN f[k] ELSE PutChar(f[n], s[n + 1])]
  <2>2. n + 1 \in 1 .. Len(s) /\ s[n + 1] \in C /\ f[n] \in Ring(C)
    BY <1>1
  <2>3. PutChar(f[n], s[n + 1]) \in Ring(C)
    BY <2>2, PutCharIs
  <2>4. g \in [0 .. n + 1 -> Ring(C)]
    BY <2>3
  <2>5. Q(n + 1, g)
    <3>1. g[0] = r
      BY <2>1
    <3>2. ASSUME NEW k \in 1 .. n + 1
          PROVE  g[k] = PutChar(g[k - 1], s[k])
      <4>1. k - 1 \in 0 .. n /\ g[k - 1] = f[k - 1]
        OBVIOUS
      <4>2. CASE k <= n
        BY <2>1, <4>1, <4>2
      <4>3. CASE ~(k <= n)
        <5>1. k = n + 1 /\ k - 1 = n
          BY <4>3
        <5> QED
          BY <4>1, <5>1
      <4> QED
        BY <4>2, <4>3
    <3> QED
      BY <3>1, <3>2
  <2>6. n + 1 \in 0 .. Len(s)
    BY <2>2
  <2> HIDE DEF g, Q
  <2> QED
    BY <2>4, <2>5, <2>6
<1>4. Len(s) \in S
  <2> HIDE DEF S
  <2> QED
    BY <1>1, <1>2, <1>3, Induction
<1>5. PICK f \in [0 .. Len(s) -> Ring(C)] : Q(Len(s), f)
  BY <1>4
<1>6. \A k \in 0 .. Len(s) : f[k] = IF k = 0 THEN r ELSE PutChar(f[k - 1], s[k])
  BY <1>1, <1>5
<1> QED
  BY <1>6

\* The ring then holds the newest of what waited and what came.
LEMMA PutsIs ==
  ASSUME NEW C, NEW r \in Ring(C), NEW s \in Seq(C)
  PROVE  Puts(r, s) \in Ring(C) /\ Queued(Puts(r, s)) = Newest(Queued(r) \o s)
<1> DEFINE put[k \in 0 .. Len(s)] == IF k = 0 THEN r ELSE PutChar(put[k - 1], s[k])
<1>1. put = [k \in 0 .. Len(s) |-> IF k = 0 THEN r ELSE PutChar(put[k - 1], s[k])]
  <2>1. PICK f \in [0 .. Len(s) -> Ring(C)] :
          f = [k \in 0 .. Len(s) |-> IF k = 0 THEN r ELSE PutChar(f[k - 1], s[k])]
    BY PutsExists
  <2> QED
    BY <2>1
<1> DEFINE q == Queued(r)
           P(k) == put[k] \in Ring(C) /\ Queued(put[k]) = Newest(q \o SubSeq(s, 1, k))
           S == {k \in 0 .. Len(s) : P(k)}
<1> HIDE DEF put
<1>2. Len(s) \in Nat /\ q \in Seq(C) /\ Len(q) \in 0 .. BufSize - 1
  BY QueuedIs, LevelIs
<1> HIDE DEF q
<1>3. 0 \in S
  <2>1. put[0] = r
    BY <1>1, <1>2
  <2>2. q \o SubSeq(s, 1, 0) = q
    BY <1>2, SubSeqEmpty, ConcatEmptySeq
  <2>3. Newest(q) = q
    BY <1>2, RingSizes DEF Newest
  <2>4. Queued(put[0]) = Newest(q \o SubSeq(s, 1, 0))
    BY <2>1, <2>2, <2>3 DEF q
  <2> QED
    BY <1>2, <2>1, <2>4
<1>4. ASSUME NEW k \in 0 .. Len(s) - 1, k \in S
      PROVE  k + 1 \in S
  <2> DEFINE t == SubSeq(s, 1, k)
  <2>1. k + 1 \in 0 .. Len(s) /\ k + 1 # 0 /\ (k + 1) - 1 = k /\ k + 1 \in 1 .. Len(s)
    BY <1>2
  <2>2. put[k + 1] = PutChar(put[k], s[k + 1])
    BY <1>1, <2>1
  <2>3. P(k) /\ s[k + 1] \in C
    BY <1>4, <2>1
  <2>4. /\ put[k + 1] \in Ring(C)
        /\ Queued(put[k + 1]) = Newest(Append(Newest(q \o t), s[k + 1]))
    BY <2>2, <2>3, PutCharIs
  <2>5. t \in Seq(C) /\ q \o t \in Seq(C)
    <3>1. \A i \in 1 .. k : s[i] \in C
      BY <1>2
    <3> QED
      BY <1>2, <3>1, SubSeqProperties, ConcatProperties
  <2>6. SubSeq(s, 1, k + 1) = t \o <<s[k + 1]>>
    <3>1. 1 \in 1 .. Len(s) /\ k + 1 \in 1 .. Len(s)
      BY <2>1
    <3> QED
      BY <2>1, <3>1, SubSeqRecursiveSecond
  <2> HIDE DEF t
  <2>7. q \o SubSeq(s, 1, k + 1) = Append(q \o t, s[k + 1])
    <3>1. <<s[k + 1]>> \in Seq(C)
      BY <2>3
    <3>2. (q \o t) \o <<s[k + 1]>> = q \o (t \o <<s[k + 1]>>)
      <4> DEFINE u == <<s[k + 1]>>
      <4>1. q \in Seq(C) /\ t \in Seq(C) /\ u \in Seq(C)
        BY <1>2, <2>5, <3>1
      <4> HIDE DEF u
      <4>2. (q \o t) \o u = q \o (t \o u)
        BY <4>1, ConcatAssociative
      <4> QED
        BY <4>2 DEF u
    <3>3. Append(q \o t, s[k + 1]) = (q \o t) \o <<s[k + 1]>>
      BY <2>3, <2>5, AppendIsConcat
    <3> QED
      BY <2>6, <3>2, <3>3
  <2>8. Newest(Append(Newest(q \o t), s[k + 1])) = Newest(Append(q \o t, s[k + 1]))
    BY <2>3, <2>5, NewestAppend
  <2> QED
    BY <2>1, <2>4, <2>7, <2>8
<1>5. Len(s) \in S
  <2> HIDE DEF S
  <2> QED
    BY <1>2, <1>3, <1>4, Induction
<1>6. Puts(r, s) = put[Len(s)]
  BY DEF Puts, put
<1>7. SubSeq(s, 1, Len(s)) = s
  BY SubSeqFull
<1> QED
  BY <1>5, <1>6, <1>7 DEF q

\* A ring that starts afresh is empty, whatever its buffer holds.
LEMMA EmptiedIs ==
  ASSUME NEW C, NEW r \in Ring(C)
  PROVE  Emptied(r) \in Ring(C) /\ Queued(Emptied(r)) = <<>>
<1> DEFINE e == Emptied(r)
<1>1. e \in Ring(C) /\ e.wr = 0 /\ e.rd = 0
  <2>1. r.data \in [0 .. BufSize - 1 -> C]
    BY DEF Ring
  <2>3. e = [wr |-> 0, rd |-> 0, data |-> r.data]
    BY DEF Emptied
  <2>2. 0 \in 0 .. BufSize - 1
    BY RingSizes
  <2> HIDE DEF e
  <2> QED
    BY <2>1, <2>2, <2>3 DEF Ring
<1> HIDE DEF e
<1>2. Queued(e) \in Seq(C) /\ Len(Queued(e)) = 0
  BY <1>1, QueuedIs, LevelIs
<1>3. Queued(e) = <<>>
  BY <1>2, EmptySeq
<1> QED
  BY <1>1, <1>3 DEF e

\* A packet takes the oldest: all of them when the ring starts afresh.
LEMMA PacketIs ==
  ASSUME NEW C, NEW r \in Ring(C)
  PROVE  /\ FillPacket(r) \in Ring(C)
         /\ Queued(FillPacket(r)) = SubSeq(Queued(r), PacketLen(r) + 1, Level(r))
         /\ PacketLen(r) \in 0 .. Level(r)
<1> DEFINE l == Level(r)
           len == PacketLen(r)
           q == Queued(r)
           rest == SubSeq(q, len + 1, l)
<1>1. /\ r.wr \in 0 .. BufSize - 1 /\ r.rd \in 0 .. BufSize - 1
      /\ l = IF r.wr >= r.rd THEN r.wr - r.rd ELSE r.wr - r.rd + BufSize
      /\ l \in 0 .. BufSize - 1
  BY LevelIs DEF Ring
<1>2. len = IF l > PacketMax THEN PacketMax ELSE l
  BY DEF PacketLen
<1>3. /\ q \in Seq(C) /\ Len(q) = l
      /\ \A i \in 1 .. l : q[i] = r.data[(r.rd + (i - 1)) % BufSize]
  BY QueuedIs
<1> HIDE DEF l, len, q
<1>4. len \in 0 .. l
  BY <1>1, <1>2, RingSizes
<1>5. CASE len % Word # 0
  <2>1. len = l
    BY <1>2, <1>5, RingSizes
  <2>2. FillPacket(r) = Emptied(r)
    BY <1>5 DEF FillPacket, len
  <2>3. rest = <<>>
    BY <1>1, <2>1, SubSeqEmpty, RingSizes
  <2> QED
    BY <1>4, <2>2, <2>3, EmptiedIs DEF l, len, q
<1>6. CASE len % Word = 0
  <2> DEFINE x == (r.rd + len) % BufSize
             f == FillPacket(r)
  <2>1. len \in 0 .. BufSize /\ len \in 0 .. BufSize - 1
    BY <1>1, <1>4, RingSizes
  <2>2. x = IF r.rd + len < BufSize THEN r.rd + len ELSE (r.rd + len) - BufSize
    BY <1>1, <2>1, ModSum, Zenon DEF x
  <2>3. f = [r EXCEPT !.rd = x]
    BY <1>6 DEF FillPacket, len
  <2> HIDE DEF x, f
  <2>4. x \in 0 .. BufSize - 1
    BY <1>1, <1>4, <2>2, RingSizes
  <2>5. f \in Ring(C) /\ f.wr = r.wr /\ f.rd = x /\ f.data = r.data
    BY <2>3, <2>4 DEF Ring
  <2>6. Level(f) = IF f.wr >= f.rd THEN f.wr - f.rd ELSE f.wr - f.rd + BufSize
    BY <2>5, LevelIs
  <2>7. Level(f) = l - len
    BY <1>1, <1>4, <2>2, <2>5, <2>6, RingSizes
  <2>8. /\ Queued(f) \in Seq(C) /\ Len(Queued(f)) = l - len
        /\ \A i \in 1 .. l - len : Queued(f)[i] = f.data[(x + (i - 1)) % BufSize]
    BY <2>5, <2>7, QueuedIs
  <2>9. /\ rest \in Seq(C) /\ Len(rest) = l - len
        /\ \A i \in 1 .. l - len : rest[i] = q[len + i]
    <3>1. len + 1 \in Int /\ l \in Int /\ l - (len + 1) + 1 = l - len
      BY <1>1, <1>4
    <3>2. \A i \in len + 1 .. l : q[i] \in C
      BY <1>1, <1>3, <1>4
    <3>3. /\ rest \in Seq(C) /\ Len(rest) = IF len + 1 <= l THEN l - len ELSE 0
          /\ \A i \in 1 .. l - len : rest[i] = q[(len + 1) + i - 1]
      BY <3>1, <3>2, SubSeqProperties
    <3>4. ASSUME NEW i \in 1 .. l - len
          PROVE  (len + 1) + i - 1 = len + i
      BY <1>1, <1>4
    <3>5. Len(rest) = l - len
      BY <1>1, <1>4, <3>3
    <3> QED
      BY <3>3, <3>4, <3>5
  <2> HIDE DEF rest
  <2>10. ASSUME NEW i \in 1 .. l - len
         PROVE  Queued(f)[i] = rest[i]
    <3>1. len + i \in 1 .. l /\ i - 1 \in 0 .. BufSize /\ len + (i - 1) \in 0 .. BufSize
          /\ (len + i) - 1 = len + (i - 1)
      BY <1>1, <1>4, RingSizes
    <3>2. (x + (i - 1)) % BufSize = IF x + (i - 1) < BufSize THEN x + (i - 1) ELSE (x + (i - 1)) - BufSize
      BY <2>4, <3>1, ModSum
    <3>3. (r.rd + (len + (i - 1))) % BufSize =
            IF r.rd + (len + (i - 1)) < BufSize THEN r.rd + (len + (i - 1))
            ELSE (r.rd + (len + (i - 1))) - BufSize
      BY <1>1, <3>1, ModSum
    <3>4. (x + (i - 1)) % BufSize = (r.rd + (len + (i - 1))) % BufSize
      BY <1>1, <1>4, <2>2, <2>4, <3>1, <3>2, <3>3, RingSizes
    <3>5. q[len + i] = r.data[(r.rd + (len + (i - 1))) % BufSize]
      BY <1>3, <3>1
    <3> QED
      BY <2>5, <2>8, <2>9, <3>4, <3>5
  <2>11. Queued(f) = rest
    BY <2>8, <2>9, <2>10, SeqEqual
  <2> QED
    BY <1>4, <2>5, <2>11 DEF l, len, q, f, rest
<1> QED
  BY <1>5, <1>6

-----------------------------------------------------------------------------
(* The reader *)

LEMMA Sizes ==
  BufLen \in Nat \ {0} /\ Fillers \subseteq Nat /\ \A n \in Fillers : n + 7 < BufLen
  BY GpsAssumption

LEMMA KindIsField ==
  ASSUME NEW k \in Kinds
  PROVE  k # "$" /\ k # "*" /\ k # "LF" /\ k # "CR"
  BY GpsAssumption

\* The state behind a character that is no '$'.
Follow(state, c) ==
  CASE state = "READ" -> IF c = "*" THEN "CK_HI" ELSE "READ"
    [] state = "CK_HI" -> "CK_LO"
    [] state = "CK_LO" -> "END_CR"
    [] state = "END_CR" -> IF c = "CR" THEN "END_LF" ELSE "WAIT"
    [] state = "END_LF" -> "WAIT"

LEMMA StoredIs ==
  ASSUME NEW r \in Reader, NEW c \in Character
  PROVE  Stored(r, c) = IF Len(r.buf) = BufLen THEN [state |-> "WAIT", buf |-> r.buf]
                        ELSE [state |-> r.state, buf |-> Append(r.buf, c)]
  BY SMTT(30) DEF Stored, Reader

LEMMA Restate ==
  ASSUME NEW a, NEW b, NEW s, s = [state |-> a, buf |-> b], NEW x
  PROVE  [s EXCEPT !.state = x] = [state |-> x, buf |-> b]
  OBVIOUS

\* What a character does, in three cases.
LEMMA StepIs ==
  ASSUME NEW r \in Reader, NEW c \in Character
  PROVE  /\ c = "$" => Step(r, c) = [state |-> "READ", buf |-> <<"$">>]
         /\ c # "$" /\ (Len(r.buf) = BufLen \/ r.state = "WAIT") =>
              Step(r, c) = [state |-> "WAIT", buf |-> <<>>]
         /\ c # "$" /\ Len(r.buf) # BufLen /\ r.state # "WAIT" =>
              Step(r, c) = [state |-> Follow(r.state, c), buf |-> Append(r.buf, c)]
<1>1. ASSUME c = "$"
      PROVE  Step(r, c) = [state |-> "READ", buf |-> <<"$">>]
  BY <1>1 DEF Step
<1>2. ASSUME c # "$", Len(r.buf) = BufLen
      PROVE  Step(r, c) = [state |-> "WAIT", buf |-> <<>>]
  BY <1>2, StoredIs DEF Step
<1>3. ASSUME c # "$", Len(r.buf) # BufLen
      PROVE  Stored(r, c) = [state |-> r.state, buf |-> Append(r.buf, c)]
  BY <1>3, StoredIs
<1>4. ASSUME c # "$", Len(r.buf) # BufLen, r.state = "WAIT"
      PROVE  Step(r, c) = [state |-> "WAIT", buf |-> <<>>]
  BY <1>3, <1>4 DEF Step
<1>5. ASSUME c # "$", Len(r.buf) # BufLen, r.state # "WAIT"
      PROVE  Step(r, c) = [state |-> Follow(r.state, c), buf |-> Append(r.buf, c)]
  <2>1. Stored(r, c) = [state |-> r.state, buf |-> Append(r.buf, c)]
    BY <1>3, <1>5
  <2>2. r.state \in {"READ", "CK_HI", "CK_LO", "END_CR", "END_LF"}
    BY <1>5 DEF Reader, NmeaState
  <2> DEFINE s == Stored(r, c)
             b == Append(r.buf, c)
  <2>3. s = [state |-> r.state, buf |-> b] /\ s.state = r.state
    BY <2>1
  <2>4. ASSUME NEW x PROVE [s EXCEPT !.state = x] = [state |-> x, buf |-> b]
    <3> HIDE DEF s, b
    <3> QED
      BY <2>3, Restate
  <2>5. /\ r.state = "READ" => Step(r, c) = IF c = "*" THEN [s EXCEPT !.state = "CK_HI"] ELSE s
        /\ r.state = "CK_HI" => Step(r, c) = [s EXCEPT !.state = "CK_LO"]
        /\ r.state = "CK_LO" => Step(r, c) = [s EXCEPT !.state = "END_CR"]
        /\ r.state = "END_CR" =>
             Step(r, c) = [s EXCEPT !.state = IF c = "CR" THEN "END_LF" ELSE "WAIT"]
        /\ r.state = "END_LF" => Step(r, c) = [s EXCEPT !.state = "WAIT"]
    <3> HIDE DEF b
    <3> DEFINE res == Step(r, c)
    <3>1. res = CASE c = "$" -> [state |-> "READ", buf |-> <<"$">>]
                  [] c # "$" /\ s.state = "READ" ->
                       IF c = "*" THEN [s EXCEPT !.state = "CK_HI"] ELSE s
                  [] c # "$" /\ s.state = "CK_HI" -> [s EXCEPT !.state = "CK_LO"]
                  [] c # "$" /\ s.state = "CK_LO" -> [s EXCEPT !.state = "END_CR"]
                  [] c # "$" /\ s.state = "END_CR" ->
                       [s EXCEPT !.state = IF c = "CR" THEN "END_LF" ELSE "WAIT"]
                  [] c # "$" /\ s.state = "END_LF" -> [s EXCEPT !.state = "WAIT"]
                  [] c # "$" /\ s.state = "WAIT" -> [state |-> "WAIT", buf |-> <<>>]
      BY Zenon DEF Step
    <3> HIDE DEF s, res
    <3>2. s.state = r.state
      BY <2>3 DEF s
    <3> QED
      BY <1>5, <3>1, <3>2 DEF res
  <2>6. /\ r.state = "READ" => Follow(r.state, c) = IF c = "*" THEN "CK_HI" ELSE "READ"
        /\ r.state = "CK_HI" => Follow(r.state, c) = "CK_LO"
        /\ r.state = "CK_LO" => Follow(r.state, c) = "END_CR"
        /\ r.state = "END_CR" => Follow(r.state, c) = IF c = "CR" THEN "END_LF" ELSE "WAIT"
        /\ r.state = "END_LF" => Follow(r.state, c) = "WAIT"
    BY DEF Follow
  <2> HIDE DEF s, b
  <2>7. Step(r, c) = [state |-> Follow(r.state, c), buf |-> b]
    BY <2>2, <2>3, <2>4, <2>5, <2>6
  <2> QED
    BY <2>7 DEF b
<1> QED
  BY <1>1, <1>2, <1>4, <1>5

\* Whatever comes, what is held is the start of a sentence.
LEMMA StepPrefix ==
  ASSUME NEW r \in Reader, NEW c \in Character, Prefix(r)
  PROVE  Step(r, c) \in Reader /\ Prefix(Step(r, c))
<1>1. CASE c = "$"
  <2> DEFINE s == Step(r, c)
  <2>1. s = [state |-> "READ", buf |-> <<"$">>]
    BY <1>1, StepIs
  <2> HIDE DEF s
  <2>2. <<"$">> \in Seq(Character) /\ Len(<<"$">>) = 1 /\ <<"$">>[1] = "$"
    BY DEF Character
  <2>3. s \in Reader
    BY <2>1, <2>2 DEF Reader, NmeaState
  <2>4. Prefix(s)
    BY <2>1, <2>2, Sizes DEF Prefix
  <2> QED
    BY <2>3, <2>4 DEF s
<1>2. CASE c # "$" /\ (Len(r.buf) = BufLen \/ r.state = "WAIT")
  <2> DEFINE s == Step(r, c)
  <2>1. s = [state |-> "WAIT", buf |-> <<>>]
    BY <1>2, StepIs
  <2> HIDE DEF s
  <2>2. s \in Reader
    BY <2>1 DEF Reader, NmeaState
  <2>3. Prefix(s)
    BY <2>1, Sizes DEF Prefix
  <2> QED
    BY <2>2, <2>3 DEF s
<1>3. CASE c # "$" /\ Len(r.buf) # BufLen /\ r.state # "WAIT"
  <2> DEFINE s == Step(r, c)
             b == Append(r.buf, c)
             l == Len(r.buf)
  <2>1. s = [state |-> Follow(r.state, c), buf |-> b]
    BY <1>3, StepIs
  <2>2. r.buf \in Seq(Character) /\ r.state \in {"READ", "CK_HI", "CK_LO", "END_CR", "END_LF"}
    BY <1>3 DEF Reader, NmeaState
  <2>3. /\ b \in Seq(Character) /\ l \in Nat /\ Len(b) = l + 1 /\ b[l + 1] = c
        /\ \A i \in 1 .. l : b[i] = r.buf[i]
    BY <2>2
  <2>4. /\ l < BufLen /\ l >= 1 /\ r.buf[1] = "$" /\ \A i \in 2 .. l : r.buf[i] # "$"
        /\ r.state = "CK_HI" => l >= 2 /\ r.buf[l] = "*"
        /\ r.state = "CK_LO" => l >= 3 /\ r.buf[l - 1] = "*"
        /\ r.state = "END_CR" => l >= 4 /\ r.buf[l - 2] = "*"
    BY <1>3, <2>3, Sizes DEF Prefix
  <2> HIDE DEF s, b, l
  <2>5. Follow(r.state, c) \in NmeaState
    BY <2>2 DEF Follow, NmeaState
  <2>6. s.state = Follow(r.state, c) /\ s.buf = b /\ s \in Reader
    BY <2>1, <2>3, <2>5 DEF Reader
  <2>7. Len(b) <= BufLen /\ b[1] = "$" /\ \A i \in 2 .. Len(b) : b[i] # "$"
    BY <1>3, <2>3, <2>4, Sizes
  <2>8. /\ s.state = "CK_HI" => l >= 1 /\ b[l + 1] = "*"
        /\ s.state = "CK_LO" => l >= 2 /\ b[l] = "*"
        /\ s.state = "END_CR" => l >= 3 /\ b[l - 1] = "*"
        /\ s.state = "END_LF" => l >= 4 /\ b[l - 2] = "*" /\ b[l + 1] = "CR"
    BY <2>2, <2>3, <2>4, <2>6, SMTT(30) DEF Follow
  <2>9. Prefix(s)
    BY <2>3, <2>6, <2>7, <2>8 DEF Prefix
  <2> QED
    BY <2>6, <2>9 DEF s
<1> QED
  BY <1>1, <1>2, <1>3

-----------------------------------------------------------------------------
(* Sentences *)

LEMMA CharAtIs ==
  ASSUME NEW kind, NEW n \in Nat, NEW i \in 1 .. n + 7
  PROVE  /\ i = 1 => CharAt(kind, n, i) = "$"
         /\ i = 2 => CharAt(kind, n, i) = kind
         /\ i \in 3 .. n + 2 => CharAt(kind, n, i) = "x"
         /\ i = n + 3 => CharAt(kind, n, i) = "*"
         /\ i \in {n + 4, n + 5} => CharAt(kind, n, i) = "h"
         /\ i = n + 6 => CharAt(kind, n, i) = "CR"
         /\ i = n + 7 => CharAt(kind, n, i) = "LF"
  BY DEF CharAt

LEMMA StateAtIs ==
  ASSUME NEW n \in Nat, NEW j \in 1 .. n + 6
  PROVE  /\ j \in 1 .. n + 2 => StateAt(n, j) = "READ"
         /\ j = n + 3 => StateAt(n, j) = "CK_HI"
         /\ j = n + 4 => StateAt(n, j) = "CK_LO"
         /\ j = n + 5 => StateAt(n, j) = "END_CR"
         /\ j = n + 6 => StateAt(n, j) = "END_LF"
  BY DEF StateAt

\* Only the first character is a '$', only the last a LF.
LEMMA Delimiters ==
  ASSUME NEW kind \in Kinds, NEW n \in Nat, NEW i \in 1 .. n + 7
  PROVE  /\ CharAt(kind, n, i) = "$" <=> i = 1
         /\ CharAt(kind, n, i) = "LF" <=> i = n + 7
         /\ CharAt(kind, n, i) \in Character
<1>1. i = 1 \/ i = 2 \/ i \in 3 .. n + 2 \/ i = n + 3 \/ i \in {n + 4, n + 5} \/ i = n + 6
      \/ i = n + 7
  OBVIOUS
<1> QED
  BY <1>1, CharAtIs, KindIsField DEF Character

LEMMA Joined ==
  ASSUME NEW S, NEW s \in Seq(S), NEW t \in Seq(S)
  PROVE  /\ s \o t \in Seq(S) /\ Len(s \o t) = Len(s) + Len(t)
         /\ \A i \in 1 .. Len(s) : (s \o t)[i] = s[i]
         /\ \A i \in 1 .. Len(t) : (s \o t)[Len(s) + i] = t[i]
  OBVIOUS

LEMMA SentenceIs ==
  ASSUME NEW kind \in Kinds, NEW n \in Nat
  PROVE  /\ Sentence(kind, n) \in Seq(Character) /\ Sentence(kind, n) # <<>>
         /\ Ends(kind, n, Sentence(kind, n), 0)
<1> DEFINE a == <<"$", kind>>
           b == [i \in 1 .. n |-> "x"]
           c == <<"*", "h", "h", "CR", "LF">>
           s == Sentence(kind, n)
<1>1. /\ a \in Seq(Character) /\ Len(a) = 2 /\ a[1] = "$" /\ a[2] = kind
      /\ b \in Seq(Character) /\ Len(b) = n /\ \A i \in 1 .. n : b[i] = "x"
      /\ c \in Seq(Character) /\ Len(c) = 5 /\ c[1] = "*" /\ c[2] = "h" /\ c[3] = "h"
      /\ c[4] = "CR" /\ c[5] = "LF"
  BY DEF Character
<1>2. s = (a \o b) \o c
  BY DEF Sentence
<1> HIDE DEF a, b, c, s
<1>3. a \o b \in Seq(Character) /\ Len(a \o b) = 2 + n
      /\ (a \o b)[1] = "$" /\ (a \o b)[2] = kind /\ \A i \in 3 .. n + 2 : (a \o b)[i] = "x"
  <2>1. /\ a \o b \in Seq(Character) /\ Len(a \o b) = 2 + n
        /\ \A i \in 1 .. 2 : (a \o b)[i] = a[i]
        /\ \A i \in 1 .. n : (a \o b)[2 + i] = b[i]
    <3>0. a \in Seq(Character) /\ b \in Seq(Character)
      BY <1>1
    <3>1. /\ a \o b \in Seq(Character) /\ Len(a \o b) = Len(a) + Len(b)
          /\ \A i \in 1 .. Len(a) : (a \o b)[i] = a[i]
          /\ \A i \in 1 .. Len(b) : (a \o b)[Len(a) + i] = b[i]
      BY <3>0, Joined
    <3> QED
      BY <1>1, <3>1, Zenon
  <2>2. ASSUME NEW i \in 3 .. n + 2
        PROVE  (a \o b)[i] = "x"
    <3>1. i - 2 \in 1 .. n /\ 2 + (i - 2) = i
      OBVIOUS
    <3>2. (a \o b)[2 + (i - 2)] = b[i - 2] /\ b[i - 2] = "x"
      BY <1>1, <2>1, <3>1
    <3> QED
      BY <3>1, <3>2
  <2> QED
    BY <1>1, <2>1, <2>2
<1>4. /\ s \in Seq(Character) /\ Len(s) = n + 7
      /\ s[1] = "$" /\ s[2] = kind /\ \A i \in 3 .. n + 2 : s[i] = "x"
      /\ s[n + 3] = "*" /\ s[n + 4] = "h" /\ s[n + 5] = "h" /\ s[n + 6] = "CR"
      /\ s[n + 7] = "LF"
  <2> DEFINE d == a \o b
  <2>1. d \in Seq(Character) /\ Len(d) = n + 2 /\ d[1] = "$" /\ d[2] = kind
        /\ \A i \in 3 .. n + 2 : d[i] = "x"
    BY <1>3
  <2>2. s = d \o c
    BY <1>2
  <2> HIDE DEF d
  <2>3. /\ s \in Seq(Character) /\ Len(s) = (n + 2) + 5
        /\ \A i \in 1 .. n + 2 : s[i] = d[i]
        /\ \A i \in 1 .. 5 : s[(n + 2) + i] = c[i]
    <3>0. d \in Seq(Character) /\ c \in Seq(Character)
      BY <1>1, <2>1
    <3>1. /\ d \o c \in Seq(Character) /\ Len(d \o c) = Len(d) + Len(c)
          /\ \A i \in 1 .. Len(d) : (d \o c)[i] = d[i]
          /\ \A i \in 1 .. Len(c) : (d \o c)[Len(d) + i] = c[i]
      BY <3>0, Joined
    <3> QED
      BY <1>1, <2>1, <2>2, <3>1, Zenon
  <2>4. /\ s[(n + 2) + 1] = "*" /\ s[(n + 2) + 2] = "h" /\ s[(n + 2) + 3] = "h"
        /\ s[(n + 2) + 4] = "CR" /\ s[(n + 2) + 5] = "LF"
    BY <1>1, <2>3
  <2>5. /\ (n + 2) + 1 = n + 3 /\ (n + 2) + 2 = n + 4 /\ (n + 2) + 3 = n + 5
        /\ (n + 2) + 4 = n + 6 /\ (n + 2) + 5 = n + 7
    OBVIOUS
  <2>6. s[1] = "$" /\ s[2] = kind /\ \A i \in 3 .. n + 2 : s[i] = "x"
    BY <2>1, <2>3
  <2> QED
    BY <2>3, <2>4, <2>5, <2>6
<1>5. ASSUME NEW i \in 1 .. n + 7
      PROVE  s[i] = CharAt(kind, n, 0 + i)
  BY <1>4, CharAtIs
<1>6. s # <<>>
  BY <1>4
<1> QED
  BY <1>4, <1>5, <1>6 DEF Ends, s

\* A character is sent, or lost.
LEMMA RestShorter ==
  ASSUME NEW kind \in Kinds, NEW n \in Nat, NEW s \in Seq(Character), s # <<>>,
         NEW j \in 0 .. n + 6, Ends(kind, n, s, j)
  PROVE  /\ Head(s) = CharAt(kind, n, j + 1) /\ Tail(s) \in Seq(Character)
         /\ Tail(s) # <<>> => j + 1 \in 0 .. n + 6 /\ Ends(kind, n, Tail(s), j + 1)
<1>1. Len(s) = n + 7 - j /\ \A i \in 1 .. Len(s) : s[i] = CharAt(kind, n, j + i)
  BY DEF Ends
<1>2. Head(s) = s[1] /\ 1 \in 1 .. Len(s)
  BY <1>1
<1>3. Head(s) = CharAt(kind, n, j + 1)
  BY <1>1, <1>2
<1>4. Tail(s) \in Seq(Character) /\ Len(Tail(s)) = n + 7 - (j + 1)
      /\ \A i \in 1 .. Len(Tail(s)) : Tail(s)[i] = s[i + 1] /\ i + 1 \in 1 .. Len(s)
  BY <1>1
<1>5. ASSUME NEW i \in 1 .. Len(Tail(s))
      PROVE  Tail(s)[i] = CharAt(kind, n, j + 1 + i)
  <2>1. Tail(s)[i] = s[i + 1] /\ i + 1 \in 1 .. Len(s)
    BY <1>4, <1>5
  <2>2. s[i + 1] = CharAt(kind, n, j + (i + 1))
    BY <1>1, <2>1
  <2>3. j + (i + 1) = j + 1 + i
    BY <1>4
  <2> QED
    BY <2>1, <2>2, <2>3
<1>6. ASSUME Tail(s) # <<>>
      PROVE  j + 1 \in 0 .. n + 6
  BY <1>4, <1>6
<1> QED
  BY <1>3, <1>4, <1>5, <1>6 DEF Ends

\* The reader in step stays in step.
LEMMA StepInStep ==
  ASSUME NEW kind \in Kinds, NEW n \in Fillers, NEW r \in Reader, NEW j \in 0 .. n + 5,
         InStep(kind, n, r, j)
  PROVE  InStep(kind, n, Step(r, CharAt(kind, n, j + 1)), j + 1)
<1> DEFINE c == CharAt(kind, n, j + 1)
           s == Step(r, c)
<1>1. n \in Nat /\ n + 7 < BufLen /\ BufLen \in Nat
  BY Sizes
<1>2. c \in Character /\ (c = "$" <=> j = 0)
  BY <1>1, Delimiters
<1>3. CASE j = 0
  <2>1. s = [state |-> "READ", buf |-> <<"$">>]
    BY <1>2, <1>3, StepIs
  <2>2. StateAt(n, j + 1) = "READ"
    BY <1>1, <1>3, StateAtIs
  <2>3. Len(<<"$">>) = 1
    OBVIOUS
  <2> HIDE DEF s
  <2> QED
    BY <1>3, <2>1, <2>2, <2>3 DEF InStep, s
<1>4. CASE j > 0
  <2>1. Len(r.buf) = j /\ r.state = StateAt(n, j) /\ (j > 1 => r.buf[2] = kind)
    BY <1>4 DEF InStep
  <2>2. r.state # "WAIT"
    BY <1>1, <1>4, <2>1, StateAtIs
  <2>3. s = [state |-> Follow(r.state, c), buf |-> Append(r.buf, c)]
    <3>1. c # "$" /\ Len(r.buf) # BufLen
      BY <1>1, <1>2, <1>4, <2>1
    <3> HIDE DEF c
    <3> QED
      BY <1>2, <2>2, <3>1, StepIs
  <2> DEFINE b == Append(r.buf, c)
  <2>4. Len(b) = j + 1 /\ (j + 1 > 1 => b[2] = kind)
    <3>1. r.buf \in Seq(Character)
      BY DEF Reader
    <3>2. CASE j = 1
      <4>1. c = kind
        BY <1>1, <3>2, CharAtIs
      <4>2. c \in Character
        BY <1>2
      <4> HIDE DEF c
      <4>3. Len(b) = Len(r.buf) + 1 /\ b[Len(r.buf) + 1] = c
        BY <3>1, <4>2
      <4> HIDE DEF b
      <4>4. Len(r.buf) = 1 /\ 1 + 1 = 2 /\ j + 1 = 2
        BY <2>1, <3>2
      <4> QED
        BY <4>1, <4>3, <4>4
    <3>3. CASE j > 1
      <4> HIDE DEF c
      <4> QED
        BY <1>2, <2>1, <3>1, <3>3
    <3> QED
      BY <1>4, <3>2, <3>3
  <2>5. Follow(r.state, c) = StateAt(n, j + 1)
    <3>1. CASE j \in 1 .. n + 1
      <4>1. r.state = "READ" /\ StateAt(n, j + 1) = "READ"
        <5>1. j \in 1 .. n + 6 /\ j + 1 \in 1 .. n + 6 /\ j \in 1 .. n + 2
              /\ j + 1 \in 1 .. n + 2
          BY <1>1, <3>1
        <5> QED
          BY <1>1, <2>1, <5>1, StateAtIs
      <4>2. c # "*"
        <5>1. CASE j = 1
          BY <1>1, <5>1, CharAtIs, KindIsField
        <5>2. CASE j # 1
          BY <1>1, <3>1, <5>2, CharAtIs
        <5> QED
          BY <5>1, <5>2
      <4> QED
        BY <4>1, <4>2 DEF Follow
    <3>2. CASE j = n + 2
      <4>1. r.state = "READ" /\ StateAt(n, j + 1) = "CK_HI" /\ c = "*"
        BY <1>1, <1>4, <2>1, <3>2, StateAtIs, CharAtIs
      <4> QED
        BY <4>1 DEF Follow
    <3>3. CASE j = n + 3
      <4>1. r.state = "CK_HI" /\ StateAt(n, j + 1) = "CK_LO"
        BY <1>1, <2>1, <3>3, StateAtIs
      <4> QED
        BY <4>1 DEF Follow
    <3>4. CASE j = n + 4
      <4>1. r.state = "CK_LO" /\ StateAt(n, j + 1) = "END_CR"
        BY <1>1, <2>1, <3>4, StateAtIs
      <4> QED
        BY <4>1 DEF Follow
    <3>5. CASE j = n + 5
      <4>1. r.state = "END_CR" /\ StateAt(n, j + 1) = "END_LF" /\ c = "CR"
        BY <1>1, <2>1, <3>5, StateAtIs, CharAtIs
      <4> QED
        BY <4>1 DEF Follow
    <3> QED
      BY <1>1, <1>4, <3>1, <3>2, <3>3, <3>4, <3>5
  <2>6. s.state = StateAt(n, j + 1) /\ s.buf = b
    BY <2>3, <2>5
  <2> HIDE DEF s, b
  <2> QED
    BY <2>4, <2>6 DEF InStep, s
<1> QED
  BY <1>3, <1>4

\* A sentence is whole when its LF comes where the reader waits for it.
LEMMA WholeIs ==
  ASSUME NEW r \in Reader, NEW c \in Character
  PROVE  /\ Whole(r, c) <=> c = "LF" /\ Len(r.buf) # BufLen /\ r.state = "END_LF"
         /\ Whole(r, c) => Stored(r, c).buf = Append(r.buf, c)
         /\ NulHitsFix(r, c) => c # "$" /\ Len(r.buf) # BufLen /\ r.state = "END_LF"
                                /\ Len(r.buf) + 1 = BufLen
<1>1. CASE Len(r.buf) = BufLen
  <2>1. Stored(r, c).state = "WAIT"
    BY <1>1, StoredIs
  <2>2. ~Whole(r, c) /\ ~NulHitsFix(r, c)
    BY <2>1 DEF Whole, NulHitsFix
  <2> QED
    BY <1>1, <2>2
<1>2. CASE Len(r.buf) # BufLen
  <2>1. Stored(r, c).state = r.state /\ Stored(r, c).buf = Append(r.buf, c)
    BY <1>2, StoredIs
  <2>2. Whole(r, c) <=> r.state = "END_LF" /\ c = "LF"
    BY <2>1 DEF Whole
  <2>3. NulHitsFix(r, c) <=> c # "$" /\ r.state = "END_LF" /\ Len(Append(r.buf, c)) = BufLen
    BY <2>1 DEF NulHitsFix
  <2>4. Len(Append(r.buf, c)) = Len(r.buf) + 1
    BY DEF Reader
  <2> QED
    BY <1>2, <2>1, <2>2, <2>3, <2>4
<1> QED
  BY <1>1, <1>2

-----------------------------------------------------------------------------
(* The parts of the invariant, step by step *)

LEMMA NewRest ==
  ASSUME NEW r \in Receiver, NEW s \in Seq(Character), NEW q, q = [r EXCEPT !.rest = s]
  PROVE  /\ q \in Receiver /\ q.rest = s
         /\ q.alive = r.alive /\ q.baud = r.baud /\ q.kind = r.kind
  BY DEF Receiver

LEMMA ReadIs ==
  ASSUME TypeOK, ReadChar
  PROVE  /\ Char \in Character
         /\ Char = IF rx.baud = baud THEN Head(rx.rest) ELSE "x"
         /\ rx.rest \in Seq(Character) /\ rx.rest # <<>>
         /\ rx' \in Receiver /\ rx'.rest = Tail(rx.rest)
         /\ rx'.baud = rx.baud /\ rx'.kind = rx.kind
<1>1. rx \in Receiver /\ rx.rest \in Seq(Character) /\ rx.rest # <<>>
  BY DEF TypeOK, Receiver, ReadChar
<1>2. Head(rx.rest) \in Character /\ Tail(rx.rest) \in Seq(Character) /\ "x" \in Character
  BY <1>1 DEF Character
<1>3. rx' = [rx EXCEPT !.rest = Tail(rx.rest)]
  BY DEF ReadChar
<1>4. /\ rx' \in Receiver /\ rx'.rest = Tail(rx.rest)
      /\ rx'.baud = rx.baud /\ rx'.kind = rx.kind
  <2> DEFINE q == rx'
             s == Tail(rx.rest)
  <2>1. q = [rx EXCEPT !.rest = s]
    BY <1>3
  <2>2. s \in Seq(Character)
    BY <1>2
  <2> HIDE DEF q, s
  <2>3. q \in Receiver /\ q.rest = s /\ q.baud = rx.baud /\ q.kind = rx.kind
    BY <1>1, <2>1, <2>2, NewRest
  <2> QED
    BY <2>3 DEF q, s
<1> QED
  BY <1>1, <1>2, <1>4 DEF Char

\* A new ring is empty.
LEMMA NewRingIs == NewRing \in Ring(Character) /\ Queued(NewRing) = <<>>
<1> DEFINE e == NewRing
<1>1. e \in Ring(Character) /\ e.wr = 0 /\ e.rd = 0
  BY RingSizes DEF NewRing, Ring, Character
<1> HIDE DEF e
<1>2. Queued(e) \in Seq(Character) /\ Len(Queued(e)) = 0
  BY <1>1, QueuedIs, LevelIs
<1>3. Queued(e) = <<>>
  BY <1>2, EmptySeq
<1> QED
  BY <1>1, <1>3 DEF e

LEMMA TypeInit == Init => TypeOK
<1> SUFFICES ASSUME Init PROVE TypeOK
  OBVIOUS
<1>1. <<>> \in Seq(Character)
  OBVIOUS
<1>6. NewRing \in Ring(Character)
  BY NewRingIs
<1>2. rx \in Receiver
  BY <1>1 DEF Init, Receiver
<1>3. nmea \in Reader
  BY <1>1 DEF Init, Reader, NmeaState
<1>4. /\ pc = "reset" /\ try = 0 /\ ready = FALSE /\ baud = "none" /\ eol = FALSE
      /\ fix = FALSE /\ antenna = "unknown" /\ active = FALSE /\ ring = NewRing /\ full = FALSE
      /\ lost = 0 /\ handed = <<>> /\ truth = FALSE /\ unread = <<>>
  BY Zenon DEF Init, UsbInit
<1>5. lost \in Nat
  BY <1>4
<1> QED
  BY <1>1, <1>2, <1>3, <1>4, <1>5, <1>6, Zenon DEF TypeOK

LEMMA TypeStep ==
  ASSUME TypeOK, Prefix(nmea), UnreadExact, [Next]_vars
  PROVE  TypeOK'
<1>1. CASE UNCHANGED vars
  BY <1>1 DEF TypeOK, vars, init, gps, usb, hist
<1>2. CASE TryReset
  <2>1. baud' \in {"9600", "115200"}
    BY <1>2 DEF TryReset, Bauds, TypeOK
  <2>2. rx' \in Receiver
    <3>1. rx \in Receiver /\ <<>> \in Seq(Character)
      BY DEF TypeOK
    <3> QED
      BY <1>2, <3>1, NewRest DEF TryReset
  <2> QED
    BY <1>2, <2>1, <2>2, Zenon DEF TryReset, TypeOK, gps, usb, hist
<1>3. CASE FirstChar
  <2>1. ReadChar /\ nmea' = Step(nmea, Char)
    BY <1>3 DEF FirstChar
  <2>2. rx' \in Receiver /\ nmea' \in Reader
    BY <2>1, ReadIs, StepPrefix, Zenon DEF TypeOK
  <2>3. fix' \in BOOLEAN
    BY <1>3, Zenon DEF FirstChar, TypeOK
  <2>4. pc' \in {"first", "speed", "usb"} /\ ready' \in BOOLEAN
    BY <1>3, Zenon DEF FirstChar, TypeOK
  <2> QED
    BY <1>3, <2>2, <2>3, <2>4, ZenonT(60) DEF FirstChar, TypeOK, usb, hist
<1>4. CASE FirstTimeout
  BY <1>4, Zenon DEF FirstTimeout, TypeOK, gps, usb, hist
<1>5. CASE SpeedUp
  <2>1. rx' \in Receiver
    BY <1>5, Zenon DEF SpeedUp, GpsSend, TypeOK, Receiver
  <2> QED
    BY <1>5, <2>1, Zenon DEF SpeedUp, TypeOK, gps, usb, hist
<1>6. CASE EolChar
  <2>1. rx' \in Receiver
    BY <1>6, ReadIs DEF EolChar
  <2> QED
    BY <1>6, <2>1, Zenon DEF EolChar, TypeOK, gps, usb, hist
<1>7. CASE EolEmpty
  BY <1>7, Zenon DEF EolEmpty, TypeOK, gps, usb, hist
<1>8. CASE NoRequest
  BY <1>8, ZenonT(60) DEF NoRequest, TypeOK, init, gps, usb, hist
<1>9. ASSUME NEW on \in BOOLEAN, SetActive(on)
      PROVE  TypeOK'
  <2>1. ring' \in Ring(Character) /\ unread' \in Seq(Character)
    <3>1. ring \in Ring(Character) /\ unread \in Seq(Character) /\ <<>> \in Seq(Character)
      BY DEF TypeOK
    <3>2. Emptied(ring) \in Ring(Character)
      BY <3>1, EmptiedIs
    <3> QED
      BY <1>9, <3>1, <3>2, Zenon DEF SetActive
  <2>2. active' \in BOOLEAN
    BY <1>9 DEF SetActive
  <2> QED
    BY <1>9, <2>1, <2>2, Zenon DEF SetActive, TypeOK, init, gps
<1>10. CASE SetConf
  BY <1>10, Zenon DEF SetConf, TypeOK, init, gps, hist
<1>11. CASE QueryEmpty
  BY <1>11, ZenonT(60) DEF QueryEmpty, TypeOK, init, gps, usb, hist
<1>12. CASE QueryChar
  <2>1. ReadChar /\ nmea' = Step(nmea, Char)
    BY <1>12 DEF QueryChar
  <2>2. rx' \in Receiver /\ nmea' \in Reader
    BY <2>1, ReadIs, StepPrefix, Zenon DEF TypeOK
  <2>3. fix' \in BOOLEAN
    BY <1>12, Zenon DEF QueryChar, TypeOK
  <2>4. truth' \in BOOLEAN
    BY <1>12, Zenon DEF QueryChar, TruthAfter, TypeOK
  <2> QED
    BY <1>12, <2>2, <2>3, <2>4, Zenon DEF QueryChar, TypeOK, init, usb
<1>13. CASE QuerySentence
  <2> DEFINE s == Stored(nmea, Char).buf
  <2>1. ReadChar /\ nmea' = Step(nmea, Char) /\ Whole(nmea, Char)
    BY <1>13 DEF QuerySentence
  <2>2. rx' \in Receiver /\ nmea' \in Reader
    BY <2>1, ReadIs, StepPrefix, Zenon DEF TypeOK
  <2>3. s \in Seq(Character) /\ Len(s) \in Nat
    <3>1. nmea.buf \in Seq(Character) /\ nmea \in Reader
      BY Zenon DEF TypeOK, Reader
    <3>2. s = Append(nmea.buf, Char) /\ Char \in Character
      BY <2>1, <3>1, ReadIs, WholeIs
    <3> QED
      BY <3>1, <3>2
  <2> HIDE DEF s
  <2>4. /\ handed' = s /\ fix' = FixAfter(s[2], fix /\ ~NulHitsFix(nmea, Char))
        /\ antenna' = AntennaAfter(s[2], antenna)
        /\ ring' = IF active THEN Puts(ring, s) ELSE ring
        /\ unread' = IF active THEN Newest(unread \o s) ELSE unread
    BY <1>13 DEF QuerySentence, s
  <2>5. fix' \in BOOLEAN
    BY <2>4, Zenon DEF FixAfter, TypeOK
  <2>6. antenna' \in {"unknown", "ok", "open", "short"}
    BY <2>4, Zenon DEF AntennaAfter, TypeOK
  <2>7. ring' \in Ring(Character)
    BY <2>3, <2>4, PutsIs, Zenon DEF TypeOK
  <2>8. unread' \in Seq(Character)
    <3>1. unread \in Seq(Character)
      BY DEF TypeOK
    <3>2. Newest(unread \o s) \in Seq(Character)
      BY <2>3, <3>1, ConcatProperties, NewestIs
    <3> QED
      BY <2>4, <3>1, <3>2, Zenon
  <2>9. truth' \in BOOLEAN
    BY <1>13, Zenon DEF QuerySentence, TruthAfter, TypeOK
  <2> QED
    BY <1>13, <2>2, <2>3, <2>4, <2>5, <2>6, <2>7, <2>8, <2>9,
       Zenon DEF QuerySentence, TypeOK, init
<1>14. CASE SendNothing
  <2>1. handed' \in Seq(Character)
    BY <1>14 DEF SendNothing
  <2> QED
    BY <1>14, <2>1, ZenonT(60) DEF SendNothing, TypeOK, init, gps, usb
<1>15. CASE SendPacket
  <2>1. handed' \in Seq(Character)
    BY <1>15 DEF SendPacket
  <2>2. ring \in Ring(Character) /\ unread \in Seq(Character) /\ Queued(ring) = unread
    BY Zenon DEF TypeOK, UnreadExact
  <2>3. ring' \in Ring(Character) /\ PacketLen(ring) \in 0 .. Level(ring) /\ Len(unread) = Level(ring)
    BY <1>15, <2>2, PacketIs, QueuedIs DEF SendPacket
  <2>4. unread' \in Seq(Character)
    <3> DEFINE m == PacketLen(ring) + 1
    <3>1. unread' = SubSeq(unread, m, Len(unread))
      BY <1>15, Zenon DEF SendPacket
    <3>2. m \in Nat \ {0} /\ Len(unread) \in Nat
      BY <2>2, <2>3, LevelIs, RingSizes
    <3> HIDE DEF m
    <3>3. \A i \in m .. Len(unread) : unread[i] \in Character
      BY <2>2, <3>2
    <3> QED
      BY <3>1, <3>2, <3>3, SubSeqProperties
  <2> QED
    BY <1>15, <2>1, <2>3, <2>4, Zenon DEF SendPacket, TypeOK, init, gps
<1>16. CASE NewSentence
  <2>1. rx' \in Receiver
    <3>1. PICK k \in Kinds, n \in Fillers :
            rx' = [rx EXCEPT !.kind = k, !.rest = Sentence(k, n)]
      BY <1>16 DEF NewSentence
    <3>2. Sentence(k, n) \in Seq(Character)
      BY Sizes, SentenceIs
    <3> QED
      BY <3>1, <3>2, Zenon DEF TypeOK, Receiver
  <2> QED
    BY <1>16, <2>1 DEF NewSentence, TypeOK, init, gps, usb, hist
<1>17. CASE LoseChar
  <2>1. rx' \in Receiver
    <3>1. rx \in Receiver /\ Tail(rx.rest) \in Seq(Character)
      BY <1>17 DEF LoseChar, TypeOK, Receiver
    <3> QED
      BY <1>17, <3>1, NewRest DEF LoseChar
  <2> QED
    BY <1>17, <2>1 DEF LoseChar, TypeOK, init, gps, usb, hist
<1>18. CASE HostReads
  BY <1>18, ZenonT(60) DEF HostReads, TypeOK, init, gps, hist
<1> QED
  BY <1>1, <1>2, <1>3, <1>4, <1>5, <1>6, <1>7, <1>8, <1>9, <1>10, <1>11, <1>12, <1>13,
     <1>14, <1>15, <1>16, <1>17, <1>18 DEF Next, Start, Main

\* What is unread is what the ring holds.
LEMMA UnreadStep ==
  ASSUME TypeOK, Prefix(nmea), UnreadExact, [Next]_vars
  PROVE  UnreadExact'
<1>1. Queued(ring) = unread /\ ring \in Ring(Character)
  BY DEF UnreadExact, TypeOK
<1>2. CASE UNCHANGED <<ring, unread>>
  BY <1>1, <1>2 DEF UnreadExact
<1>3. ASSUME NEW on \in BOOLEAN, SetActive(on)
      PROVE  UnreadExact'
  <2>1. CASE on
    BY <1>1, <1>3, <2>1 DEF SetActive, UnreadExact
  <2>2. CASE ~on
    <3>1. ring' = Emptied(ring) /\ unread' = <<>>
      BY <1>3, <2>2 DEF SetActive
    <3> QED
      BY <1>1, <3>1, EmptiedIs DEF UnreadExact
  <2> QED
    BY <2>1, <2>2
<1>4. CASE QuerySentence
  <2> DEFINE s == Stored(nmea, Char).buf
  <2>1. s \in Seq(Character)
    <3>1. ReadChar /\ Whole(nmea, Char)
      BY <1>4 DEF QuerySentence
    <3>2. nmea.buf \in Seq(Character) /\ nmea \in Reader
      BY DEF TypeOK, Reader
    <3>3. Stored(nmea, Char).buf = Append(nmea.buf, Char) /\ Char \in Character
      BY <3>1, <3>2, ReadIs, WholeIs
    <3> QED
      BY <3>2, <3>3
  <2>2. /\ ring' = IF active THEN Puts(ring, s) ELSE ring
        /\ unread' = IF active THEN Newest(unread \o s) ELSE unread
    BY <1>4 DEF QuerySentence
  <2> HIDE DEF s
  <2>3. Queued(Puts(ring, s)) = Newest(unread \o s)
    BY <1>1, <2>1, PutsIs
  <2> QED
    BY <1>1, <2>2, <2>3 DEF UnreadExact
<1>5. CASE SendPacket
  <2>1. ring' = FillPacket(ring) /\ unread' = SubSeq(unread, PacketLen(ring) + 1, Len(unread))
    BY <1>5 DEF SendPacket
  <2> QED
    BY <1>1, <2>1, PacketIs, QueuedIs DEF UnreadExact
<1>6. ASSUME TryReset \/ FirstChar \/ FirstTimeout \/ SpeedUp \/ EolChar \/ EolEmpty
             \/ NoRequest \/ SetConf \/ QueryEmpty \/ QueryChar \/ SendNothing
             \/ NewSentence \/ LoseChar \/ HostReads \/ UNCHANGED vars
      PROVE  UNCHANGED <<ring, unread>>
  BY <1>6 DEF TryReset, FirstChar, FirstTimeout, SpeedUp, EolChar, EolEmpty, NoRequest, SetConf,
       QueryEmpty, QueryChar, SendNothing, NewSentence, LoseChar, HostReads, vars, usb, hist
<1> QED
  BY <1>2, <1>3, <1>4, <1>5, <1>6 DEF Next, Start, Main

LEMMA PrefixStep ==
  ASSUME TypeOK, Prefix(nmea), [Next]_vars
  PROVE  Prefix(nmea)'
<1>1. CASE nmea' = nmea
  BY <1>1
<1>2. CASE ReadChar /\ nmea' = Step(nmea, Char)
  <2>1. nmea \in Reader /\ Char \in Character
    BY <1>2, ReadIs DEF TypeOK
  <2>2. Prefix(Step(nmea, Char))
    BY <2>1, StepPrefix
  <2> QED
    BY <1>2, <2>2
<1>3. ASSUME FirstChar \/ QueryChar \/ QuerySentence
      PROVE  ReadChar /\ nmea' = Step(nmea, Char)
  BY <1>3 DEF FirstChar, QueryChar, QuerySentence
<1>4. ASSUME NEW on \in BOOLEAN, SetActive(on)
      PROVE  nmea' = nmea
  BY <1>4 DEF SetActive, gps
<1>5. ASSUME TryReset \/ FirstTimeout \/ SpeedUp \/ EolChar \/ EolEmpty
             \/ NoRequest \/ SetConf \/ QueryEmpty \/ SendNothing \/ SendPacket
             \/ NewSentence \/ LoseChar \/ HostReads \/ UNCHANGED vars
      PROVE  nmea' = nmea
  BY <1>5 DEF TryReset, FirstTimeout, SpeedUp, EolChar, EolEmpty, NoRequest, SetConf,
       QueryEmpty, SendNothing, SendPacket, NewSentence, LoseChar, HostReads, vars, gps
<1> QED
  BY <1>1, <1>2, <1>3, <1>4, <1>5 DEF Next, Start, Main

\* Where the line is: the sentence on it, and how far it has come.
LEMMA LineIs ==
  ASSUME TypeOK, LineInv, rx.rest # <<>>
  PROVE  /\ rx.kind \in Kinds
         /\ \E n \in Fillers : \E j \in 0 .. n + 6 :
              /\ n \in Nat /\ Ends(rx.kind, n, rx.rest, j)
              /\ lost = 0 /\ rx.baud = baud =>
                   IF pc = "eol" THEN eol => j = 0 ELSE InStep(rx.kind, n, nmea, j)
  BY Sizes DEF LineInv

LEMMA LineKept ==
  ASSUME LineInv, UNCHANGED <<rx, nmea, baud, lost>>,
         (pc' = pc /\ eol' = eol) \/ (pc # "eol" /\ pc' # "eol")
  PROVE  LineInv'
<1> SUFFICES ASSUME rx'.rest # <<>>
             PROVE  \E n \in Fillers : \E j \in 0 .. n + 6 :
                      /\ rx'.kind \in Kinds /\ Ends(rx'.kind, n, rx'.rest, j)
                      /\ lost' = 0 /\ rx'.baud = baud' =>
                           IF pc' = "eol" THEN eol' => j = 0 ELSE InStep(rx'.kind, n, nmea', j)
  BY DEF LineInv
<1>1. rx.rest # <<>>
  OBVIOUS
<1>2. \E n \in Fillers : \E j \in 0 .. n + 6 :
        /\ rx.kind \in Kinds /\ Ends(rx.kind, n, rx.rest, j)
        /\ lost = 0 /\ rx.baud = baud =>
             IF pc = "eol" THEN eol => j = 0 ELSE InStep(rx.kind, n, nmea, j)
  BY <1>1 DEF LineInv
<1>3. CASE pc' = pc /\ eol' = eol
  BY <1>2, <1>3, Zenon
<1>4. CASE pc # "eol" /\ pc' # "eol"
  BY <1>2, <1>4, Zenon
<1> QED
  BY <1>3, <1>4

LEMMA LineRead ==
  ASSUME TypeOK, LineInv, ReadChar, nmea' = Step(nmea, Char), UNCHANGED <<baud, lost>>,
         pc # "eol", pc' # "eol"
  PROVE  LineInv'
<1> SUFFICES ASSUME rx'.rest # <<>>
             PROVE  \E n \in Fillers : \E j \in 0 .. n + 6 :
                      /\ rx'.kind \in Kinds /\ Ends(rx'.kind, n, rx'.rest, j)
                      /\ lost' = 0 /\ rx'.baud = baud' => InStep(rx'.kind, n, nmea', j)
  BY DEF LineInv
<1>1. /\ Char = IF rx.baud = baud THEN Head(rx.rest) ELSE "x"
      /\ rx.rest \in Seq(Character) /\ rx.rest # <<>> /\ rx'.rest = Tail(rx.rest)
      /\ rx'.baud = rx.baud /\ rx'.kind = rx.kind /\ nmea \in Reader
  BY ReadIs DEF TypeOK
<1>2. PICK n \in Fillers : \E j \in 0 .. n + 6 :
        /\ n \in Nat /\ Ends(rx.kind, n, rx.rest, j)
        /\ lost = 0 /\ rx.baud = baud => InStep(rx.kind, n, nmea, j)
  BY <1>1, LineIs
<1>3. PICK j \in 0 .. n + 6 :
        /\ n \in Nat /\ Ends(rx.kind, n, rx.rest, j)
        /\ lost = 0 /\ rx.baud = baud => InStep(rx.kind, n, nmea, j)
  BY <1>2
<1>4. rx.kind \in Kinds
  BY <1>1, LineIs
<1>5. /\ Head(rx.rest) = CharAt(rx.kind, n, j + 1)
      /\ j + 1 \in 0 .. n + 6 /\ Ends(rx.kind, n, Tail(rx.rest), j + 1)
  BY <1>1, <1>3, <1>4, RestShorter
<1>6. ASSUME lost' = 0, rx'.baud = baud'
      PROVE  InStep(rx'.kind, n, nmea', j + 1)
  <2>1. InStep(rx.kind, n, nmea, j) /\ Char = CharAt(rx.kind, n, j + 1)
    BY <1>1, <1>3, <1>5, <1>6
  <2>2. j \in 0 .. n + 5
    BY <1>3, <1>5
  <2>3. InStep(rx.kind, n, Step(nmea, CharAt(rx.kind, n, j + 1)), j + 1)
    BY <1>1, <1>4, <2>1, <2>2, StepInStep
  <2> QED
    BY <1>1, <2>1, <2>3
<1> QED
  BY <1>1, <1>4, <1>5, <1>6

LEMMA LineStep ==
  ASSUME TypeOK, LineInv, [Next]_vars
  PROVE  LineInv'
<1>1. CASE UNCHANGED vars \/ HostReads
  <2>1. UNCHANGED <<rx, nmea, baud, lost>> /\ (pc' = pc /\ eol' = eol)
    BY <1>1 DEF HostReads, vars, init, gps
  <2> QED
    BY <2>1, LineKept
<1>2. CASE TryReset
  <2>1. rx'.rest = <<>>
    BY <1>2 DEF TryReset, TypeOK, Receiver
  <2> QED
    BY <2>1 DEF LineInv
<1>3. CASE FirstChar
  <2>1. /\ ReadChar /\ nmea' = Step(nmea, Char) /\ UNCHANGED <<baud, lost>>
        /\ pc # "eol" /\ pc' # "eol"
    BY <1>3 DEF FirstChar
  <2> QED
    BY <2>1, LineRead
<1>4. CASE FirstTimeout
  BY <1>4, LineKept DEF FirstTimeout, gps
<1>5. CASE SpeedUp
  <2>1. rx'.rest = rx.rest /\ rx'.kind = rx.kind
    BY <1>5 DEF SpeedUp, GpsSend, TypeOK, Receiver
  <2>2. pc' = "eol" /\ ~eol'
    BY <1>5 DEF SpeedUp
  <2> QED
    BY <2>1, <2>2, Zenon DEF LineInv
<1>6. CASE EolChar
  <2> SUFFICES ASSUME rx'.rest # <<>>
               PROVE  \E n \in Fillers : \E j \in 0 .. n + 6 :
                        /\ rx'.kind \in Kinds /\ Ends(rx'.kind, n, rx'.rest, j)
                        /\ rx'.baud = baud' => ~eol'
    BY <1>6, Zenon DEF LineInv, EolChar
  <2>1. /\ ReadChar /\ eol' = (Char = "LF") /\ baud' = baud
    BY <1>6 DEF EolChar
  <2>2. /\ Char = IF rx.baud = baud THEN Head(rx.rest) ELSE "x"
        /\ rx.rest \in Seq(Character) /\ rx.rest # <<>> /\ rx'.rest = Tail(rx.rest)
        /\ rx'.baud = rx.baud /\ rx'.kind = rx.kind
    BY <2>1, ReadIs
  <2>3. PICK n \in Fillers : \E j \in 0 .. n + 6 : n \in Nat /\ Ends(rx.kind, n, rx.rest, j)
    BY <2>2, LineIs
  <2>4. PICK j \in 0 .. n + 6 : n \in Nat /\ Ends(rx.kind, n, rx.rest, j)
    BY <2>3
  <2>5. rx.kind \in Kinds
    BY <2>2, LineIs
  <2>6. /\ Head(rx.rest) = CharAt(rx.kind, n, j + 1)
        /\ j + 1 \in 0 .. n + 6 /\ Ends(rx.kind, n, Tail(rx.rest), j + 1)
    BY <2>2, <2>4, <2>5, RestShorter
  <2>7. ASSUME rx'.baud = baud'
        PROVE  ~eol'
    <3>1. j + 1 \in 1 .. n + 7 /\ j + 1 # n + 7
      BY <2>4, <2>6
    <3>2. CharAt(rx.kind, n, j + 1) # "LF"
      BY <2>4, <2>5, <3>1, Delimiters
    <3> QED
      BY <2>1, <2>2, <2>6, <2>7, <3>2
  <2> QED
    BY <2>2, <2>5, <2>6, <2>7
<1>7. CASE EolEmpty
  <2> SUFFICES ASSUME rx'.rest # <<>>
               PROVE  \E n \in Fillers : \E j \in 0 .. n + 6 :
                        /\ rx'.kind \in Kinds /\ Ends(rx'.kind, n, rx'.rest, j)
                        /\ lost' = 0 /\ rx'.baud = baud' => InStep(rx'.kind, n, nmea', j)
    BY <1>7, Zenon DEF LineInv, EolEmpty
  <2>1. pc = "eol" /\ eol /\ UNCHANGED <<rx, nmea, baud, lost>> /\ rx.rest # <<>>
    BY <1>7 DEF EolEmpty, gps
  <2>2. PICK n \in Fillers : \E j \in 0 .. n + 6 :
          /\ Ends(rx.kind, n, rx.rest, j)
          /\ lost = 0 /\ rx.baud = baud => j = 0
    BY <2>1, LineIs
  <2>3. PICK j \in 0 .. n + 6 :
          /\ Ends(rx.kind, n, rx.rest, j)
          /\ lost = 0 /\ rx.baud = baud => j = 0
    BY <2>2
  <2>4. rx.kind \in Kinds
    BY <2>1, LineIs
  <2>5. j = 0 => InStep(rx.kind, n, nmea, j)
    BY DEF InStep
  <2> QED
    BY <2>1, <2>3, <2>4, <2>5
<1>8. ASSUME NoRequest \/ SetConf \/ QueryEmpty \/ SendNothing \/ SendPacket
             \/ \E on \in BOOLEAN : SetActive(on)
      PROVE  LineInv'
  <2>1. UNCHANGED <<rx, nmea, baud, lost>> /\ pc # "eol" /\ pc' # "eol"
    BY <1>8 DEF NoRequest, SetConf, QueryEmpty, SendNothing, SendPacket, SetActive, gps, init
  <2> QED
    BY <2>1, LineKept
<1>9. CASE QueryChar \/ QuerySentence
  <2>1. /\ ReadChar /\ nmea' = Step(nmea, Char) /\ UNCHANGED <<baud, lost>>
        /\ pc # "eol" /\ pc' # "eol"
    BY <1>9 DEF QueryChar, QuerySentence, init
  <2> QED
    BY <2>1, LineRead
<1>10. CASE NewSentence
  <2>1. PICK k \in Kinds, n \in Fillers :
          rx' = [rx EXCEPT !.kind = k, !.rest = Sentence(k, n)]
    BY <1>10 DEF NewSentence
  <2>2. rx'.kind = k /\ rx'.rest = Sentence(k, n)
    BY <2>1 DEF TypeOK, Receiver
  <2>3. n \in Nat /\ 0 \in 0 .. n + 6 /\ Ends(k, n, Sentence(k, n), 0)
    BY Sizes, SentenceIs
  <2>4. InStep(k, n, nmea', 0)
    BY DEF InStep
  <2> QED
    BY <2>2, <2>3, <2>4 DEF LineInv
<1>11. CASE LoseChar
  <2> SUFFICES ASSUME rx'.rest # <<>>
               PROVE  \E n \in Fillers : \E j \in 0 .. n + 6 :
                        rx'.kind \in Kinds /\ Ends(rx'.kind, n, rx'.rest, j)
    <3>1. lost' # 0
      BY <1>11 DEF LoseChar, TypeOK
    <3> QED
      BY <3>1, Zenon DEF LineInv
  <2>1. /\ rx.rest \in Seq(Character) /\ rx.rest # <<>> /\ rx'.rest = Tail(rx.rest)
        /\ rx'.kind = rx.kind
    BY <1>11 DEF LoseChar, TypeOK, Receiver
  <2>2. PICK n \in Fillers : \E j \in 0 .. n + 6 : n \in Nat /\ Ends(rx.kind, n, rx.rest, j)
    BY <2>1, LineIs
  <2>3. PICK j \in 0 .. n + 6 : n \in Nat /\ Ends(rx.kind, n, rx.rest, j)
    BY <2>2
  <2>4. rx.kind \in Kinds
    BY <2>1, LineIs
  <2>5. j + 1 \in 0 .. n + 6 /\ Ends(rx.kind, n, Tail(rx.rest), j + 1)
    BY <2>1, <2>3, <2>4, RestShorter
  <2> QED
    BY <2>1, <2>4, <2>5
<1> QED
  BY <1>1, <1>2, <1>3, <1>4, <1>5, <1>6, <1>7, <1>8, <1>9, <1>10, <1>11 DEF Next, Start, Main

\* A character read where the reader is in step: it is whole at the LF of the
\* sentence sent, which is then held entire, and its NUL fits behind it.
LEMMA InStepWhole ==
  ASSUME TypeOK, LineInv, ReadChar, lost = 0, rx.baud = baud, pc # "eol"
  PROVE  /\ Whole(nmea, Char) <=> rx.rest = <<"LF">>
         /\ Whole(nmea, Char) => Len(nmea.buf) + 1 < BufLen /\ nmea.buf[2] = rx.kind
                                 /\ Len(nmea.buf) >= 2
         /\ ~NulHitsFix(nmea, Char)
<1>1. /\ Char = Head(rx.rest) /\ Char \in Character
      /\ rx.rest \in Seq(Character) /\ rx.rest # <<>> /\ nmea \in Reader
  BY ReadIs DEF TypeOK
<1>2. PICK n \in Fillers : \E j \in 0 .. n + 6 :
        n \in Nat /\ Ends(rx.kind, n, rx.rest, j) /\ InStep(rx.kind, n, nmea, j)
  BY <1>1, LineIs
<1>3. PICK j \in 0 .. n + 6 :
        n \in Nat /\ Ends(rx.kind, n, rx.rest, j) /\ InStep(rx.kind, n, nmea, j)
  BY <1>2
<1>4. rx.kind \in Kinds
  BY <1>1, LineIs
<1>5. Char = CharAt(rx.kind, n, j + 1) /\ j + 1 \in 1 .. n + 7
  BY <1>1, <1>3, <1>4, RestShorter
<1>6. Char = "LF" <=> j = n + 6
  <2>1. Char = "LF" <=> j + 1 = n + 7
    BY <1>3, <1>4, <1>5, Delimiters
  <2> QED
    BY <1>3, <2>1
<1>7. n + 7 < BufLen /\ BufLen \in Nat
  BY Sizes
<1>8. j > 0 => Len(nmea.buf) = j /\ nmea.state = StateAt(n, j) /\ (j > 1 => nmea.buf[2] = rx.kind)
  BY <1>3 DEF InStep
<1>9. rx.rest = <<"LF">> <=> j = n + 6
  <2>1. Len(rx.rest) = n + 7 - j
    BY <1>3 DEF Ends
  <2>2. ASSUME rx.rest = <<"LF">>
        PROVE  j = n + 6
    <3>1. Len(<<"LF">>) = 1
      OBVIOUS
    <3>2. n + 7 - j = 1
      BY <2>1, <2>2, <3>1
    <3> QED
      BY <1>3, <3>2
  <2>3. ASSUME j = n + 6
        PROVE  rx.rest = <<"LF">>
    <3>1. Head(rx.rest) = "LF"
      BY <1>1, <1>6, <2>3
    <3>2. Len(rx.rest) = 1
      BY <1>3, <2>1, <2>3
    <3> QED
      BY <1>1, <3>1, <3>2
  <2> QED
    BY <2>2, <2>3
<1>10. j = n + 6 => nmea.state = "END_LF" /\ Len(nmea.buf) = n + 6 /\ nmea.buf[2] = rx.kind
  <2> SUFFICES ASSUME j = n + 6
               PROVE  nmea.state = "END_LF" /\ Len(nmea.buf) = n + 6 /\ nmea.buf[2] = rx.kind
    OBVIOUS
  <2>1. j > 0 /\ j > 1 /\ j \in 1 .. n + 6
    BY <1>3
  <2>2. StateAt(n, j) = "END_LF"
    BY <1>3, <2>1, StateAtIs
  <2> QED
    BY <1>8, <2>1, <2>2
<1>11. Whole(nmea, Char) <=> Char = "LF" /\ Len(nmea.buf) # BufLen /\ nmea.state = "END_LF"
  BY <1>1, WholeIs
<1>12. Whole(nmea, Char) <=> j = n + 6
  BY <1>3, <1>6, <1>7, <1>10, <1>11
<1>13. ~NulHitsFix(nmea, Char)
  <2>1. SUFFICES ASSUME NulHitsFix(nmea, Char) PROVE FALSE
    OBVIOUS
  <2>2. Char # "$" /\ Len(nmea.buf) + 1 = BufLen
    BY <1>1, <2>1, WholeIs
  <2>3. j # 0
    BY <1>3, <1>4, <1>5, <2>2, Delimiters
  <2>4. Len(nmea.buf) = j
    BY <1>3, <1>8, <2>3
  <2> QED
    BY <1>3, <1>7, <2>2, <2>4
<1> QED
  BY <1>3, <1>7, <1>9, <1>10, <1>12, <1>13

\* At another speed nothing is whole.
LEMMA NoiseNotWhole ==
  ASSUME TypeOK, ReadChar, rx.baud # baud
  PROVE  ~Whole(nmea, Char)
<1>1. Char = "x" /\ Char \in Character /\ nmea \in Reader
  BY ReadIs DEF TypeOK
<1> QED
  BY <1>1, WholeIs

LEMMA FixStep ==
  ASSUME TypeOK, LineInv, FixInv, [Next]_vars
  PROVE  FixInv'
<1>1. /\ fix \/ truth => rx.baud = baud /\ pc \in {"usb", "query", "send"}
      /\ lost = 0 => fix = truth
      /\ fix \in BOOLEAN /\ truth \in BOOLEAN /\ lost \in Nat
  BY DEF FixInv, FixIsLatest, TypeOK
<1>2. ASSUME UNCHANGED <<fix, truth, lost, baud>>, rx'.baud = rx.baud,
             pc' = pc \/ pc' \in {"usb", "query", "send"}
      PROVE  FixInv'
  <2>1. fix' \/ truth' => rx'.baud = baud' /\ pc' \in {"usb", "query", "send"}
    BY <1>1, <1>2
  <2> QED
    BY <1>1, <1>2, <2>1 DEF FixInv, FixIsLatest
<1>3. ASSUME ~fix', ~truth', fix' \in BOOLEAN, truth' \in BOOLEAN
      PROVE  FixInv'
  BY <1>3, Zenon DEF FixInv, FixIsLatest
<1>4. ASSUME TryReset \/ FirstChar \/ FirstTimeout \/ SpeedUp \/ EolChar
      PROVE  FixInv'
  <2>1. pc \in {"reset", "first", "speed", "eol"}
    BY <1>4 DEF TryReset, FirstChar, FirstTimeout, SpeedUp, EolChar
  <2>2. fix = FALSE /\ truth = FALSE
    BY <1>1, <2>1
  <2>3. truth' = truth /\ (fix' = fix \/ \E b \in BOOLEAN : fix' = (fix /\ b))
    BY <1>4, Zenon DEF TryReset, FirstChar, FirstTimeout, SpeedUp, EolChar, gps, hist
  <2>4. fix' = FALSE /\ truth' = FALSE
    BY <2>2, <2>3
  <2> QED
    BY <1>3, <2>4
<1>5. ASSUME NoRequest \/ SetConf \/ QueryEmpty \/ SendNothing \/ SendPacket \/ EolEmpty
             \/ HostReads \/ UNCHANGED vars \/ \E on \in BOOLEAN : SetActive(on)
      PROVE  FixInv'
  <2>1. UNCHANGED <<fix, truth, lost, baud, rx>> /\ (pc' = pc \/ pc' \in {"usb", "query", "send"})
    BY <1>5 DEF NoRequest, SetConf, QueryEmpty, SendNothing, SendPacket, EolEmpty, HostReads,
         SetActive, vars, gps, init, hist
  <2> QED
    BY <1>2, <2>1
<1>6. CASE NewSentence
  <2>1. UNCHANGED <<fix, truth, lost, baud, pc>>
    BY <1>6 DEF NewSentence, gps, init, hist
  <2>2. rx'.baud = rx.baud
    BY <1>6 DEF NewSentence, TypeOK, Receiver
  <2> QED
    BY <1>2, <2>1, <2>2
<1>7. CASE LoseChar
  <2>1. UNCHANGED <<fix, truth, baud, pc>>
    BY <1>7 DEF LoseChar, gps, init, hist
  <2>2. rx'.baud = rx.baud
    BY <1>7 DEF LoseChar, TypeOK, Receiver
  <2>3. lost' # 0
    BY <1>1, <1>7 DEF LoseChar
  <2>4. fix' \/ truth' => rx'.baud = baud' /\ pc' \in {"usb", "query", "send"}
    BY <1>1, <2>1, <2>2
  <2> QED
    BY <2>3, <2>4 DEF FixInv, FixIsLatest
<1>8. CASE QueryChar
  <2>1. /\ ReadChar /\ ~Whole(nmea, Char) /\ pc = "query" /\ UNCHANGED <<pc, baud, lost>>
        /\ truth' = TruthAfter
    BY <1>8 DEF QueryChar, init
  <2>2. fix' = (fix /\ ~NulHitsFix(nmea, Char))
    BY <1>8, Zenon DEF QueryChar
  <2>3. rx'.baud = rx.baud
    BY <2>1, ReadIs
  <2>4. CASE rx.baud = baud
    <3>1. lost = 0 => fix' = truth'
      <4> SUFFICES ASSUME lost = 0 PROVE fix' = truth'
        OBVIOUS
      <4>1. ~NulHitsFix(nmea, Char) /\ rx.rest # <<"LF">>
        BY <2>1, <2>4, InStepWhole
      <4>2. truth' = truth
        BY <2>1, <4>1, Zenon DEF TruthAfter
      <4>3. fix' = fix
        BY <1>1, <2>2, <4>1
      <4> QED
        BY <1>1, <4>2, <4>3
    <3> QED
      BY <2>1, <2>3, <2>4, <3>1 DEF FixInv, FixIsLatest
  <2>5. CASE rx.baud # baud
    <3>1. fix = FALSE /\ truth = FALSE
      BY <1>1, <2>5
    <3>2. truth' = FALSE
      BY <2>1, <2>5, <3>1, Zenon DEF TruthAfter
    <3>3. fix' = FALSE
      BY <2>2, <3>1
    <3> QED
      BY <1>3, <3>2, <3>3
  <2> QED
    BY <2>4, <2>5
<1>9. CASE QuerySentence
  <2> DEFINE s == Stored(nmea, Char).buf
  <2>1. /\ ReadChar /\ Whole(nmea, Char) /\ pc = "query" /\ pc' = "send" /\ UNCHANGED <<baud, lost>>
        /\ truth' = TruthAfter
    BY <1>9 DEF QuerySentence, init
  <2>2. fix' = FixAfter(s[2], fix /\ ~NulHitsFix(nmea, Char))
    BY <1>9, Zenon DEF QuerySentence
  <2>3. rx'.baud = rx.baud /\ rx.baud = baud
    BY <2>1, ReadIs, NoiseNotWhole
  <2>4. lost = 0 => fix' = truth'
    <3> SUFFICES ASSUME lost = 0 PROVE fix' = truth'
      OBVIOUS
    <3>1. /\ ~NulHitsFix(nmea, Char) /\ rx.rest = <<"LF">>
          /\ nmea.buf[2] = rx.kind /\ Len(nmea.buf) >= 2
      BY <2>1, <2>3, InStepWhole
    <3>2. s = Append(nmea.buf, Char) /\ nmea.buf \in Seq(Character) /\ Char \in Character
      BY <2>1, ReadIs, WholeIs DEF TypeOK, Reader
    <3> HIDE DEF s
    <3>3. s[2] = rx.kind
      BY <3>1, <3>2
    <3>4. truth' = IF rx.kind \in {"fix", "nofix"} THEN rx.kind = "fix" ELSE truth
      BY <2>1, <2>3, <3>1, Zenon DEF TruthAfter
    <3>5. fix' = IF rx.kind \in {"fix", "nofix"} THEN rx.kind = "fix"
                 ELSE fix /\ ~NulHitsFix(nmea, Char)
      BY <2>2, <3>3, Zenon DEF FixAfter
    <3> QED
      BY <1>1, <3>1, <3>4, <3>5
  <2> QED
    BY <2>1, <2>3, <2>4 DEF FixInv, FixIsLatest
<1> QED
  BY <1>4, <1>5, <1>6, <1>7, <1>8, <1>9 DEF Next, Start, Main

\* A sentence handed on is the start that was held, and the LF.
LEMMA WholeStep ==
  ASSUME TypeOK, Prefix(nmea), LineInv, WholeSentences, [Next]_vars
  PROVE  WholeSentences'
<1>1. CASE QuerySentence
  <2> DEFINE b == nmea.buf
             l == Len(nmea.buf)
             s == Append(nmea.buf, "LF")
  <2>1. /\ ReadChar /\ Whole(nmea, Char) /\ pc = "query" /\ lost' = lost
        /\ handed' = Stored(nmea, Char).buf
    BY <1>1 DEF QuerySentence, init
  <2>2. /\ nmea \in Reader /\ Char \in Character /\ Char = "LF" /\ l # BufLen
        /\ nmea.state = "END_LF" /\ handed' = s /\ rx.baud = baud
    BY <2>1, ReadIs, WholeIs, NoiseNotWhole DEF TypeOK
  <2>3. b \in Seq(Character) /\ l \in Nat /\ "LF" \in Character
    BY <2>2 DEF Reader
  <2>4. /\ l < BufLen /\ l >= 5 /\ b[1] = "$" /\ \A i \in 2 .. l : b[i] # "$"
        /\ b[l - 3] = "*" /\ b[l] = "CR"
    BY <2>2, <2>3, Sizes, SMTT(30) DEF Prefix
  <2>5. /\ s \in Seq(Character) /\ Len(s) = l + 1 /\ s[l + 1] = "LF"
        /\ \A i \in 1 .. l : s[i] = b[i]
    BY <2>3
  <2>6. lost = 0 => l + 1 < BufLen
    BY <2>1, <2>2, InStepWhole
  <2> HIDE DEF b, l, s
  <2>7. Head(s) = "$" /\ \A i \in 2 .. Len(s) : s[i] # "$"
    BY <2>3, <2>4, <2>5
  <2>8. Len(s) \in 6 .. BufLen /\ (lost = 0 => Len(s) < BufLen)
    BY <2>3, <2>4, <2>5, <2>6, Sizes
  <2>9. l - 3 \in 2 .. Len(s) /\ s[l - 3] = "*" /\ (l - 3) + 4 = Len(s)
    BY <2>3, <2>4, <2>5
  <2>10. SubSeq(s, Len(s) - 1, Len(s)) = <<"CR", "LF">>
    <3> DEFINE t == SubSeq(s, l, l + 1)
    <3>1. t \in Seq(Character) /\ Len(t) = 2 /\ t[1] = s[l] /\ t[2] = s[l + 1]
      BY <2>3, <2>4, <2>5
    <3>2. s[l] = "CR"
      BY <2>3, <2>4, <2>5
    <3> HIDE DEF t
    <3>3. t = <<"CR", "LF">>
      BY <2>5, <3>1, <3>2
    <3>4. Len(s) - 1 = l
      BY <2>3, <2>5
    <3> QED
      BY <2>5, <3>3, <3>4 DEF t
  <2> QED
    BY <2>1, <2>2, <2>7, <2>8, <2>9, <2>10, Zenon DEF WholeSentences
<1>2. ASSUME handed' = <<>>
      PROVE  WholeSentences'
  BY <1>2, Zenon DEF WholeSentences
<1>3. ASSUME handed' = handed, lost' = lost \/ lost' # 0
      PROVE  WholeSentences'
  BY <1>3 DEF WholeSentences
<1>4. ASSUME SendNothing \/ SendPacket
      PROVE  handed' = <<>>
  BY <1>4 DEF SendNothing, SendPacket
<1>5. ASSUME TryReset \/ FirstChar \/ FirstTimeout \/ SpeedUp \/ EolChar \/ EolEmpty
             \/ NoRequest \/ SetConf \/ QueryEmpty \/ QueryChar \/ NewSentence \/ HostReads
             \/ UNCHANGED vars \/ \E on \in BOOLEAN : SetActive(on)
      PROVE  handed' = handed /\ lost' = lost
  BY <1>5 DEF TryReset, FirstChar, FirstTimeout, SpeedUp, EolChar, EolEmpty, NoRequest, SetConf,
       QueryEmpty, QueryChar, NewSentence, HostReads, SetActive, vars, hist
<1>6. ASSUME LoseChar
      PROVE  handed' = handed /\ lost' # 0
  BY <1>6 DEF LoseChar, hist, TypeOK
<1> QED
  BY <1>1, <1>2, <1>3, <1>4, <1>5, <1>6 DEF Next, Start, Main

-----------------------------------------------------------------------------
(* The theorems *)

LEMMA InvInit == Init => GpsInv
<1> SUFFICES ASSUME Init PROVE GpsInv
  OBVIOUS
<1>1. TypeOK
  BY TypeInit
<1>2. /\ nmea = [state |-> "WAIT", buf |-> <<>>] /\ rx.rest = <<>> /\ fix = FALSE
      /\ truth = FALSE /\ handed = <<>> /\ unread = <<>> /\ ring = NewRing
  BY DEF Init, UsbInit
<1>3. Prefix(nmea)
  BY <1>2, Sizes DEF Prefix
<1>4. Queued(ring) = <<>>
  BY <1>2, NewRingIs
<1> QED
  BY <1>1, <1>2, <1>3, <1>4, Zenon
     DEF GpsInv, LineInv, FixInv, FixIsLatest, UnreadExact, WholeSentences

\* The invariant holds in every state: what the reader holds is the start of a
\* sentence, the one on the line as long as nothing is lost, and the ring holds
\* what is unread.
THEOREM GpsInvariant == Spec => []GpsInv
<1>1. GpsInv /\ [Next]_vars => GpsInv'
  BY TypeStep, PrefixStep, LineStep, FixStep, UnreadStep, WholeStep, Zenon DEF GpsInv
<1> QED
  BY InvInit, <1>1, PTL DEF Spec

\* Whatever the line loses, gps_query hands on whole sentences only.
THEOREM OnlyWhole == Spec => []WholeSentences
<1>1. GpsInv => WholeSentences
  BY Zenon DEF GpsInv
<1> QED
  BY GpsInvariant, <1>1, PTL

\* The fix that steers the oscillator is that of the last fix sentence sent, as
\* long as the line loses nothing.
THEOREM FixFollows == Spec => []FixIsLatest
<1>1. GpsInv => FixIsLatest
  BY Zenon DEF GpsInv, FixInv
<1> QED
  BY GpsInvariant, <1>1, PTL

\* What waits in the ring of usb_gps.c is, character by character, the newest of
\* what was queued and not yet sent: it loses nothing but its oldest characters.
THEOREM RingKeeps == Spec => []UnreadExact
<1>1. GpsInv => UnreadExact
  BY Zenon DEF GpsInv
<1> QED
  BY GpsInvariant, <1>1, PTL

=============================================================================
