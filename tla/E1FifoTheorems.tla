--------------------------- MODULE E1FifoTheorems ---------------------------
(***************************************************************************)
(* Facts about the pointer arithmetic of E1Fifo for zones of any size.     *)
(* Everything rests on one observation: the pointers stay in one lap of    *)
(* the zone, so `%' is at most one addition or subtraction of FifoLen.     *)
(***************************************************************************)
EXTENDS E1Fifo, TLAPS

LEMMA LenFacts == FifoLen \in Nat \ {0} /\ MF \in Nat \ {0} /\ MF <= FifoLen
  BY FifoAssumption DEF FifoLen

\* `%' on one lap below, on, and above the zone.
LEMMA ModBelow ==
  ASSUME NEW L \in Nat \ {0}, NEW x \in -L .. -1
  PROVE  x % L = x + L
  OBVIOUS

LEMMA ModOn ==
  ASSUME NEW L \in Nat \ {0}, NEW x \in 0 .. L - 1
  PROVE  x % L = x
  OBVIOUS

LEMMA ModAbove ==
  ASSUME NEW L \in Nat \ {0}, NEW x \in L .. 2 * L - 1
  PROVE  x % L = x - L
  OBVIOUS

LEMMA OneLap ==
  ASSUME NEW L \in Nat \ {0}, NEW x \in 0 .. 2 * L - 1, NEW b \in 0 .. L - 1
  PROVE  (x - b) % L = IF x < b THEN x - b + L
                       ELSE IF x - b < L THEN x - b ELSE x - b - L
<1>1. CASE x < b
  <2>1. x - b \in -L .. -1
    BY <1>1
  <2> QED
    BY <1>1, <2>1, ModBelow
<1>2. CASE ~(x < b) /\ x - b < L
  <2>1. x - b \in 0 .. L - 1
    BY <1>2
  <2> QED
    BY <1>2, <2>1, ModOn
<1>3. CASE ~(x < b) /\ ~(x - b < L)
  <2>1. x - b \in L .. 2 * L - 1
    BY <1>3
  <2> QED
    BY <1>3, <2>1, ModAbove
<1> QED
  BY <1>1, <1>2, <1>3

LEMMA ModType ==
  ASSUME NEW x \in Int
  PROVE  x % FifoLen \in Pointer
  BY LenFacts DEF Pointer

\* The distance from one pointer to another, going up.
LEMMA Distance ==
  ASSUME NEW a \in Pointer, NEW b \in Pointer
  PROVE  (a - b) % FifoLen = IF a >= b THEN a - b ELSE a - b + FifoLen
<1>1. FifoLen \in Nat \ {0} /\ a \in 0 .. FifoLen - 1 /\ b \in 0 .. FifoLen - 1
  BY LenFacts DEF Pointer
<1>2. CASE a >= b
  <2>1. a - b \in 0 .. FifoLen - 1
    BY <1>1, <1>2
  <2> QED
    BY <1>1, <1>2, <2>1, ModOn
<1>3. CASE ~(a >= b)
  <2>1. a - b \in -FifoLen .. -1
    BY <1>1, <1>3
  <2> QED
    BY <1>1, <1>3, <2>1, ModBelow
<1> QED
  BY <1>2, <1>3

\* A pointer moved up by less than a lap.
LEMMA Advance ==
  ASSUME NEW a \in Pointer, NEW n \in 0 .. FifoLen
  PROVE  (a + n) % FifoLen = IF a + n < FifoLen THEN a + n ELSE a + n - FifoLen
<1>1. FifoLen \in Nat \ {0} /\ a \in 0 .. FifoLen - 1
  BY LenFacts DEF Pointer
<1>2. CASE a + n < FifoLen
  <2>1. a + n \in 0 .. FifoLen - 1
    BY <1>1, <1>2
  <2> QED
    BY <1>1, <1>2, <2>1, ModOn
<1>3. CASE ~(a + n < FifoLen)
  <2>1. a + n \in FifoLen .. 2 * FifoLen - 1
    BY <1>1, <1>3
  <2>2. (a + n) % FifoLen = (a + n) - FifoLen
    BY <1>1, <2>1, ModAbove
  <2> QED
    BY <1>1, <1>3, <2>2
<1> QED
  BY <1>2, <1>3

\* Moving the upper end of a distance up by n adds n to it, as long as the
\* distance stays below a lap; moving the lower end up takes n away.
LEMMA DistanceUp ==
  ASSUME NEW a \in Pointer, NEW b \in Pointer, NEW n \in Nat,
         ((a - b) % FifoLen) + n < FifoLen
  PROVE  (((a + n) % FifoLen) - b) % FifoLen = ((a - b) % FifoLen) + n
<1> DEFINE c == (a + n) % FifoLen
<1>1. FifoLen \in Nat \ {0} /\ a \in 0 .. FifoLen - 1 /\ b \in 0 .. FifoLen - 1
  BY LenFacts DEF Pointer
<1>2. (a - b) % FifoLen = IF a >= b THEN a - b ELSE a - b + FifoLen
  BY Distance
<1>3. n \in 0 .. FifoLen
  BY <1>1, <1>2
<1>4. c \in Pointer /\ c = IF a + n < FifoLen THEN a + n ELSE a + n - FifoLen
  <2>1. a + n \in Int
    BY <1>1, <1>3
  <2>2. c \in Pointer
    BY <2>1, ModType
  <2> QED
    BY <1>3, <2>2, Advance
<1>5. (c - b) % FifoLen = IF c >= b THEN c - b ELSE c - b + FifoLen
  BY <1>4, Distance
<1> QED
  BY <1>1, <1>2, <1>3, <1>4, <1>5

LEMMA DistanceDown ==
  ASSUME NEW a \in Pointer, NEW b \in Pointer, NEW n \in Nat,
         n <= (a - b) % FifoLen
  PROVE  (a - ((b + n) % FifoLen)) % FifoLen = ((a - b) % FifoLen) - n
<1> DEFINE c == (b + n) % FifoLen
<1>1. FifoLen \in Nat \ {0} /\ a \in 0 .. FifoLen - 1 /\ b \in 0 .. FifoLen - 1
  BY LenFacts DEF Pointer
<1>2. (a - b) % FifoLen = IF a >= b THEN a - b ELSE a - b + FifoLen
  BY Distance
<1>3. n \in 0 .. FifoLen
  BY <1>1, <1>2
<1>4. c \in Pointer /\ c = IF b + n < FifoLen THEN b + n ELSE b + n - FifoLen
  <2>1. b + n \in Int
    BY <1>1, <1>3
  <2>2. c \in Pointer
    BY <2>1, ModType
  <2> QED
    BY <1>3, <2>2, Advance
<1>5. (a - c) % FifoLen = IF a >= c THEN a - c ELSE a - c + FifoLen
  BY <1>4, Distance
<1> QED
  BY <1>1, <1>2, <1>3, <1>4, <1>5

\* Three pointers in order: the distances add up.
LEMMA DistanceSplit ==
  ASSUME NEW a \in Pointer, NEW b \in Pointer, NEW c \in Pointer, NEW n \in Nat,
         (a - c) % FifoLen = ((a - b) % FifoLen) + n
  PROVE  (b - c) % FifoLen = n
<1>1. FifoLen \in Nat \ {0} /\ a \in 0 .. FifoLen - 1 /\ b \in 0 .. FifoLen - 1
      /\ c \in 0 .. FifoLen - 1
  BY LenFacts DEF Pointer
<1>2. (a - c) % FifoLen = IF a >= c THEN a - c ELSE a - c + FifoLen
  BY Distance
<1>3. (a - b) % FifoLen = IF a >= b THEN a - b ELSE a - b + FifoLen
  BY Distance
<1>4. (b - c) % FifoLen = IF b >= c THEN b - c ELSE b - c + FifoLen
  BY Distance
<1> QED
  BY <1>1, <1>2, <1>3, <1>4

LEMMA DistanceRest ==
  ASSUME NEW a \in Pointer, NEW b \in Pointer, NEW c \in Pointer, NEW n \in Nat,
         (a - c) % FifoLen = ((b - c) % FifoLen) + n
  PROVE  (a - b) % FifoLen = n
<1>1. FifoLen \in Nat \ {0} /\ a \in 0 .. FifoLen - 1 /\ b \in 0 .. FifoLen - 1
      /\ c \in 0 .. FifoLen - 1
  BY LenFacts DEF Pointer
<1>2. (a - c) % FifoLen = IF a >= c THEN a - c ELSE a - c + FifoLen
  BY Distance
<1>3. (a - b) % FifoLen = IF a >= b THEN a - b ELSE a - b + FifoLen
  BY Distance
<1>4. (b - c) % FifoLen = IF b >= c THEN b - c ELSE b - c + FifoLen
  BY Distance
<1> QED
  BY <1>1, <1>2, <1>3, <1>4

\* Two steps up are one.
LEMMA ModLap ==
  ASSUME NEW L \in Nat \ {0}, NEW x \in Int
  PROVE  (x + L) % L = x % L
<1> DEFINE q == x \div L
           r == x % L
           p == (x + L) \div L
           s == (x + L) % L
           d == p - q - 1
<1>1. /\ q \in Int /\ r \in 0 .. L - 1 /\ x = L * q + r
      /\ p \in Int /\ s \in 0 .. L - 1 /\ x + L = L * p + s
  OBVIOUS
<1> HIDE DEF q, r, p, s
<1>2. d \in Int /\ L * d = r - s
  BY <1>1
<1> HIDE DEF d
<1>3. CASE d >= 1
  <2>1. L * d >= L
    BY <1>2, <1>3
  <2> QED
    BY <1>1, <1>2, <2>1
<1>4. CASE d <= -1
  <2>1. L * d <= -L
    BY <1>2, <1>4
  <2> QED
    BY <1>1, <1>2, <2>1
<1>5. CASE d = 0
  BY <1>1, <1>2, <1>5 DEF r, s
<1> QED
  BY <1>2, <1>3, <1>4, <1>5

LEMMA AdvanceTwice ==
  ASSUME NEW a \in Pointer, NEW m \in 0 .. FifoLen, NEW n \in Int
  PROVE  (((a + m) % FifoLen) + n) % FifoLen = (a + (m + n)) % FifoLen
<1>1. FifoLen \in Nat \ {0} /\ a \in 0 .. FifoLen - 1
  BY LenFacts DEF Pointer
<1>2. CASE a + m < FifoLen
  <2>1. (a + m) % FifoLen = a + m
    BY <1>1, <1>2, Advance
  <2> QED
    BY <1>1, <2>1
<1>3. CASE ~(a + m < FifoLen)
  <2>1. (a + m) % FifoLen = a + m - FifoLen
    BY <1>1, <1>3, Advance
  <2> DEFINE x == a + m - FifoLen + n
  <2>2. (x + FifoLen) % FifoLen = x % FifoLen
    <3>1. x \in Int
      BY <1>1
    <3> HIDE DEF x
    <3> QED
      BY <1>1, <3>1, ModLap
  <2>3. x + FifoLen = a + (m + n)
    BY <1>1
  <2> QED
    BY <2>1, <2>2, <2>3
<1> QED
  BY <1>2, <1>3

\* A place d above b, seen from the pointer a that is further above b.
LEMMA DistanceBetween ==
  ASSUME NEW a \in Pointer, NEW b \in Pointer, NEW x \in Nat, x < 2 * FifoLen,
         NEW d \in Nat, d < (a - b) % FifoLen, (x - b) % FifoLen = d
  PROVE  (x - a) % FifoLen = (d - ((a - b) % FifoLen)) + FifoLen
<1> DEFINE V == (a - b) % FifoLen
<1>1. FifoLen \in Nat \ {0} /\ a \in 0 .. FifoLen - 1 /\ b \in 0 .. FifoLen - 1
  BY LenFacts DEF Pointer
<1>2. V = IF a >= b THEN a - b ELSE a - b + FifoLen
  BY Distance
<1> HIDE DEF V
<1>3. (x - b) % FifoLen = IF x < b THEN x - b + FifoLen
                          ELSE IF x - b < FifoLen THEN x - b ELSE x - b - FifoLen
  BY <1>1, OneLap
<1>4. (x - a) % FifoLen = IF x < a THEN x - a + FifoLen
                          ELSE IF x - a < FifoLen THEN x - a ELSE x - a - FifoLen
  BY <1>1, OneLap, SMTT(30)
<1> QED
  BY <1>1, <1>2, <1>3, <1>4 DEF V

-----------------------------------------------------------------------------
(* Multiframe alignment: `& ~15' leaves the start of a multiframe alone,   *)
(* and the next multiframe starts one MF on, or at the zone's start.       *)

LEMMA RoundDownFacts ==
  ASSUME NEW x \in Nat
  PROVE  \E k \in Nat : RoundDown(x) = k * MF /\ k * MF <= x /\ x < k * MF + MF
<1> DEFINE k == x \div MF
<1>1. MF \in Nat \ {0}
  BY LenFacts
<1>2. k \in Nat /\ x % MF \in 0 .. MF - 1 /\ x = MF * k + (x % MF)
  BY <1>1
<1> HIDE DEF k
<1>3. RoundDown(x) = k * MF
  BY <1>1, <1>2 DEF RoundDown
<1> QED
  BY <1>1, <1>2, <1>3

LEMMA MfStartFacts ==
  ASSUME NEW s \in MfStart
  PROVE  s \in Pointer /\ s + MF <= FifoLen /\ RoundDown(s) = s
<1>1. MF \in Nat \ {0} /\ NMF \in Nat \ {0}
  BY FifoAssumption
<1>2. PICK k \in 0 .. NMF - 1 : s = k * MF
  BY DEF MfStart
<1>3. s \in Nat /\ s + MF = (k + 1) * MF
  BY <1>1, <1>2
<1>4. (k + 1) * MF <= NMF * MF
  BY <1>1, <1>2
<1>5. s % MF = 0
  BY <1>1, <1>2
<1> QED
  BY <1>1, <1>3, <1>4, <1>5 DEF FifoLen, Pointer, RoundDown

LEMMA MfStartNext ==
  ASSUME NEW s \in MfStart
  PROVE  (s + MF) % FifoLen \in MfStart
<1>1. MF \in Nat \ {0} /\ NMF \in Nat \ {0}
  BY FifoAssumption
<1>2. PICK k \in 0 .. NMF - 1 : s = k * MF
  BY DEF MfStart
<1>3. s \in Pointer /\ MF \in 0 .. FifoLen /\ s + MF <= FifoLen
  BY MfStartFacts, LenFacts
<1>4. (s + MF) % FifoLen = IF s + MF < FifoLen THEN s + MF ELSE s + MF - FifoLen
  BY <1>3, Advance
<1>5. CASE s + MF < FifoLen
  <2>1. (k + 1) * MF < NMF * MF
    BY <1>1, <1>2, <1>5 DEF FifoLen
  <2>2. k + 1 \in 0 .. NMF - 1
    BY <1>1, <1>2, <2>1
  <2>3. (s + MF) % FifoLen = (k + 1) * MF
    BY <1>1, <1>2, <1>4, <1>5
  <2> QED
    BY <2>2, <2>3 DEF MfStart
<1>6. CASE ~(s + MF < FifoLen)
  <2>1. (s + MF) % FifoLen = 0 * MF
    BY <1>1, <1>3, <1>4, <1>6, LenFacts DEF Pointer
  <2> QED
    BY <1>1, <2>1 DEF MfStart
<1> QED
  BY <1>5, <1>6

LEMMA ZeroIsMfStart == 0 \in MfStart
  BY FifoAssumption DEF MfStart

\* Rounding a pointer up stays in the zone or lands on its end.
LEMMA RoundUpInZone ==
  ASSUME NEW x \in 0 .. FifoLen
  PROVE  RoundDown(x + MF - 1) \in 0 .. FifoLen
<1>1. MF \in Nat \ {0} /\ NMF \in Nat \ {0} /\ FifoLen \in Nat
  BY FifoAssumption, LenFacts
<1>2. x + MF - 1 \in Nat
  BY <1>1
<1>3. PICK k \in Nat : RoundDown(x + MF - 1) = k * MF /\ k * MF <= x + MF - 1
  BY <1>2, RoundDownFacts
<1>4. k * MF < (NMF + 1) * MF
  BY <1>1, <1>3 DEF FifoLen
<1>5. k <= NMF
  BY <1>1, <1>4
<1>6. k * MF <= NMF * MF /\ k * MF \in Nat
  BY <1>1, <1>5
<1> QED
  BY <1>1, <1>3, <1>6 DEF FifoLen

-----------------------------------------------------------------------------
(* Levels under the FIFO operations *)

LEMMA LevelTypes ==
  ASSUME NEW f \in Fifo
  PROVE  Allocd(f) \in Pointer /\ Valid(f) \in Pointer /\ Unseen(f) \in Pointer
         /\ Free(f) \in Pointer
  <1>1. FifoLen \in Nat
    BY LenFacts
  <1>2. f.w0 \in Int /\ f.w1 \in Int /\ f.r0 \in Int /\ f.r1 \in Int
    BY <1>1 DEF Fifo
  <1>3. /\ f.w1 - f.r0 \in Int /\ f.w0 - f.r0 \in Int
        /\ f.w0 - f.r1 \in Int /\ f.r0 - f.w1 - 1 \in Int
    BY <1>2
  <1> QED
    BY <1>3, ModType DEF Allocd, Valid, Unseen, Free

\* One frame of the zone always stays free.
LEMMA FreeIsRest ==
  ASSUME NEW f \in Fifo, f.w1 \in Pointer, f.r0 \in Pointer
  PROVE  Free(f) = FifoLen - 1 - Allocd(f)
<1>1. FifoLen \in Nat \ {0} /\ f.w1 \in 0 .. FifoLen - 1 /\ f.r0 \in 0 .. FifoLen - 1
  BY LenFacts DEF Pointer
<1>2. Allocd(f) = IF f.w1 >= f.r0 THEN f.w1 - f.r0 ELSE f.w1 - f.r0 + FifoLen
  BY Distance DEF Allocd
<1> DEFINE x == f.r0 - f.w1 - 1
<1>3. CASE f.r0 > f.w1
  <2>1. x \in 0 .. FifoLen - 1
    BY <1>1, <1>3
  <2>2. x % FifoLen = x
    BY <1>1, <2>1, ModOn
  <2> QED
    BY <1>1, <1>2, <1>3, <2>2 DEF Free
<1>4. CASE ~(f.r0 > f.w1)
  <2>1. x \in -FifoLen .. -1
    BY <1>1, <1>4
  <2>2. x % FifoLen = x + FifoLen
    BY <1>1, <2>1, ModBelow
  <2> QED
    BY <1>1, <1>2, <1>4, <2>2 DEF Free
<1> QED
  BY <1>3, <1>4

\* Writing adds the same number of frames to what is valid and to what is
\* unseen, and never touches the read pointers.
LEMMA FrameWriteLevels ==
  ASSUME NEW f \in Fifo, NEW n \in Nat,
         f.w0 = f.w1, f.w0 \in Pointer, f.r0 \in Pointer, f.r1 \in Pointer,
         Unseen(f) <= Valid(f)
  PROVE  LET g == FrameWrite(f, n)
         IN  /\ g \in Fifo /\ g.w0 = g.w1 /\ g.w0 \in Pointer
             /\ g.r0 = f.r0 /\ g.r1 = f.r1
             /\ Valid(g) - Unseen(g) = Valid(f) - Unseen(f)
             /\ Unseen(g) <= Valid(g) /\ Unseen(f) <= Unseen(g)
             /\ n - WriteRun(f, n) \in Nat
<1> DEFINE d == WriteRun(f, n)
           w == (f.w0 + d) % FifoLen
           g == [f EXCEPT !.w0 = w, !.w1 = w]
<1>1. FifoLen \in Nat \ {0} /\ f.w0 \in 0 .. FifoLen - 1
  BY LenFacts DEF Pointer
<1>2. /\ Valid(f) \in 0 .. FifoLen - 1 /\ Unseen(f) \in 0 .. FifoLen - 1
      /\ Free(f) = FifoLen - 1 - Valid(f)
  BY LevelTypes, FreeIsRest DEF Pointer, Allocd, Valid
<1>3. d \in Nat /\ d <= Free(f) /\ n - d \in Nat
  BY <1>1, <1>2 DEF WriteRun, Lower
<1>4. w \in Pointer
  <2>1. f.w0 + d \in Int
    BY <1>1, <1>3
  <2> QED
    BY <2>1, ModType
<1> HIDE DEF d
<1>5. (w - f.r0) % FifoLen = Valid(f) + d
  BY <1>1, <1>2, <1>3, DistanceUp DEF Valid
<1>6. (w - f.r1) % FifoLen = Unseen(f) + d
  <2>1. Unseen(f) + d < FifoLen
    BY <1>1, <1>2, <1>3
  <2> QED
    BY <1>3, <2>1, DistanceUp DEF Unseen
<1> HIDE DEF w
<1>7. g \in Fifo /\ g.w0 = w /\ g.w1 = w /\ g.r0 = f.r0 /\ g.r1 = f.r1
  <2>1. w \in 0 .. FifoLen
    BY <1>1, <1>4 DEF Pointer
  <2> QED
    BY <2>1 DEF Fifo
<1>8. Valid(g) = Valid(f) + d /\ Unseen(g) = Unseen(f) + d
  BY <1>5, <1>6, <1>7 DEF Valid, Unseen
<1>9. FrameWrite(f, n) = g
  BY DEF FrameWrite, w, d
<1> HIDE DEF g
<1> QED
  BY <1>2, <1>3, <1>4, <1>7, <1>8, <1>9 DEF d

LEMMA WriteFramesLevels ==
  ASSUME NEW f \in Fifo, NEW n \in Nat,
         f.w0 = f.w1, f.w0 \in Pointer, f.r0 \in Pointer, f.r1 \in Pointer,
         Unseen(f) <= Valid(f)
  PROVE  LET g == WriteFrames(f, n)
         IN  /\ g \in Fifo /\ g.w0 = g.w1 /\ g.w0 \in Pointer
             /\ g.r0 = f.r0 /\ g.r1 = f.r1
             /\ Valid(g) - Unseen(g) = Valid(f) - Unseen(f)
             /\ Unseen(f) <= Unseen(g)
<1> DEFINE h == FrameWrite(f, n)
           m == n - WriteRun(f, n)
<1>1. /\ h \in Fifo /\ h.w0 = h.w1 /\ h.w0 \in Pointer
      /\ h.r0 = f.r0 /\ h.r1 = f.r1 /\ m \in Nat
      /\ Valid(h) - Unseen(h) = Valid(f) - Unseen(f) /\ Unseen(h) <= Valid(h)
      /\ Unseen(f) <= Unseen(h)
  BY FrameWriteLevels
<1> HIDE DEF h, m
<1> DEFINE g == FrameWrite(h, m)
<1>2. /\ g \in Fifo /\ g.w0 = g.w1 /\ g.w0 \in Pointer
      /\ g.r0 = h.r0 /\ g.r1 = h.r1 /\ Valid(g) - Unseen(g) = Valid(h) - Unseen(h)
      /\ Unseen(h) <= Unseen(g)
  BY <1>1, FrameWriteLevels
<1>3. Unseen(f) \in Int /\ Unseen(g) \in Int /\ Unseen(h) \in Int
  BY <1>1, <1>2, LevelTypes, LenFacts DEF Pointer
<1> HIDE DEF g
<1> QED
  BY <1>1, <1>2, <1>3 DEF WriteFrames, g, h, m

\* Reading takes the same number of frames from what is valid and from what
\* is allocated, and never touches the write pointers.
LEMMA FrameReadLevels ==
  ASSUME NEW f \in Fifo, NEW n \in Nat,
         f.r0 = f.r1, f.r0 \in Pointer, f.w0 \in Pointer, f.w1 \in Pointer,
         Valid(f) <= Allocd(f)
  PROVE  LET g == FrameRead(f, n)
         IN  /\ g \in Fifo /\ g.r0 = g.r1 /\ g.r0 \in Pointer
             /\ g.w0 = f.w0 /\ g.w1 = f.w1
             /\ Allocd(g) - Valid(g) = Allocd(f) - Valid(f)
             /\ Valid(g) <= Allocd(g) /\ Valid(g) <= Valid(f)
             /\ n - ReadRun(f, n) \in Nat
<1> DEFINE d == ReadRun(f, n)
           r == (f.r1 + d) % FifoLen
           g == [f EXCEPT !.r0 = r, !.r1 = r]
<1>1. FifoLen \in Nat \ {0} /\ f.r1 \in 0 .. FifoLen - 1
  BY LenFacts DEF Pointer
<1>2. /\ Valid(f) \in 0 .. FifoLen - 1 /\ Allocd(f) \in 0 .. FifoLen - 1
      /\ Unseen(f) = Valid(f)
  BY LevelTypes DEF Pointer, Unseen, Valid
<1>3. d \in Nat /\ d <= Valid(f) /\ n - d \in Nat
  BY <1>1, <1>2 DEF ReadRun, Lower
<1>4. r \in Pointer
  <2>1. f.r1 + d \in Int
    BY <1>1, <1>3
  <2> QED
    BY <2>1, ModType
<1> HIDE DEF d
<1>5. (f.w0 - r) % FifoLen = Valid(f) - d
  <2>1. d <= (f.w0 - f.r1) % FifoLen
    BY <1>3 DEF Valid
  <2>2. (f.w0 - ((f.r1 + d) % FifoLen)) % FifoLen = ((f.w0 - f.r1) % FifoLen) - d
    BY <1>3, <2>1, DistanceDown
  <2>3. (f.w0 - r) % FifoLen = ((f.w0 - f.r1) % FifoLen) - d
    BY <2>2 DEF r
  <2> QED
    BY <2>3, Zenon DEF Valid
<1>6. (f.w1 - r) % FifoLen = Allocd(f) - d
  <2>1. d <= (f.w1 - f.r1) % FifoLen
    BY <1>2, <1>3 DEF Allocd, Pointer
  <2>2. (f.w1 - ((f.r1 + d) % FifoLen)) % FifoLen = ((f.w1 - f.r1) % FifoLen) - d
    BY <1>3, <2>1, DistanceDown
  <2>3. (f.w1 - r) % FifoLen = ((f.w1 - f.r1) % FifoLen) - d
    BY <2>2 DEF r
  <2> QED
    BY <2>3, Zenon DEF Allocd
<1> HIDE DEF r
<1>7. g \in Fifo /\ g.r0 = r /\ g.r1 = r /\ g.w0 = f.w0 /\ g.w1 = f.w1
  <2>1. r \in 0 .. FifoLen
    BY <1>1, <1>4 DEF Pointer
  <2> QED
    BY <2>1 DEF Fifo
<1>8. Valid(g) = Valid(f) - d /\ Allocd(g) = Allocd(f) - d
  BY <1>5, <1>6, <1>7 DEF Valid, Allocd
<1>9. FrameRead(f, n) = g
  BY DEF FrameRead, r, d
<1> HIDE DEF g
<1> QED
  BY <1>2, <1>3, <1>4, <1>7, <1>8, <1>9 DEF d

LEMMA ReadFramesLevels ==
  ASSUME NEW f \in Fifo, NEW n \in Nat,
         f.r0 = f.r1, f.r0 \in Pointer, f.w0 \in Pointer, f.w1 \in Pointer,
         Valid(f) <= Allocd(f)
  PROVE  LET g == ReadFrames(f, n)
         IN  /\ g \in Fifo /\ g.r0 = g.r1 /\ g.r0 \in Pointer
             /\ g.w0 = f.w0 /\ g.w1 = f.w1
             /\ Allocd(g) - Valid(g) = Allocd(f) - Valid(f)
             /\ Valid(g) <= Valid(f)
<1> DEFINE h == FrameRead(f, n)
           m == n - ReadRun(f, n)
<1>1. /\ h \in Fifo /\ h.r0 = h.r1 /\ h.r0 \in Pointer
      /\ h.w0 = f.w0 /\ h.w1 = f.w1 /\ m \in Nat
      /\ Allocd(h) - Valid(h) = Allocd(f) - Valid(f) /\ Valid(h) <= Allocd(h)
      /\ Valid(h) <= Valid(f)
  BY FrameReadLevels
<1> HIDE DEF h, m
<1> DEFINE g == FrameRead(h, m)
<1>2. /\ g \in Fifo /\ g.r0 = g.r1 /\ g.r0 \in Pointer
      /\ g.w0 = h.w0 /\ g.w1 = h.w1 /\ Allocd(g) - Valid(g) = Allocd(h) - Valid(h)
      /\ Valid(g) <= Valid(h)
  BY <1>1, FrameReadLevels
<1>3. Valid(f) \in Int /\ Valid(g) \in Int /\ Valid(h) \in Int
  BY <1>1, <1>2, LevelTypes, LenFacts DEF Pointer
<1> HIDE DEF g
<1> QED
  BY <1>1, <1>2, <1>3 DEF ReadFrames, g, h, m

-----------------------------------------------------------------------------
(* The operations keep a FIFO a FIFO, whatever its pointers are.           *)

LEMMA FrameReadType ==
  ASSUME NEW f \in Fifo, NEW n \in Int
  PROVE  FrameRead(f, n) \in Fifo /\ n - ReadRun(f, n) \in Int
<1> DEFINE d == ReadRun(f, n)
           r == (f.r1 + d) % FifoLen
<1>1. FifoLen \in Nat \ {0} /\ f.r1 \in Int
  BY LenFacts DEF Fifo
<1>2. Unseen(f) \in Int
  BY <1>1, LevelTypes DEF Pointer
<1>3. d \in Int
  BY <1>1, <1>2 DEF ReadRun, Lower
<1> HIDE DEF d
<1>4. f.r1 + d \in Int
  BY <1>1, <1>3
<1>5. r \in 0 .. FifoLen
  BY <1>1, <1>4, ModType, SMTT(30) DEF Pointer
<1> HIDE DEF r
<1>6. [f EXCEPT !.r0 = r, !.r1 = r] \in Fifo
  BY <1>5 DEF Fifo
<1> QED
  BY <1>3, <1>6 DEF FrameRead, r, d

LEMMA ReadFramesType ==
  ASSUME NEW f \in Fifo, NEW n \in Int
  PROVE  ReadFrames(f, n) \in Fifo
  BY FrameReadType DEF ReadFrames

LEMMA CommitType ==
  ASSUME NEW f \in Fifo
  PROVE  Commit(f) \in Fifo
<1> DEFINE w == (f.w0 + MF) % FifoLen
<1>1. FifoLen \in Nat \ {0} /\ f.w0 + MF \in Int
  BY LenFacts DEF Fifo
<1>2. w \in 0 .. FifoLen
  BY <1>1, ModType DEF Pointer
<1> HIDE DEF w
<1>3. [f EXCEPT !.w0 = w] \in Fifo
  BY <1>2 DEF Fifo
<1> QED
  BY <1>3 DEF Commit, w

LEMMA PrepareType ==
  ASSUME NEW f \in Fifo
  PROVE  Prepare(f) \in Fifo
<1> DEFINE w == (f.w1 + MF) % FifoLen
<1>1. FifoLen \in Nat \ {0} /\ f.w1 + MF \in Int
  BY LenFacts DEF Fifo
<1>2. w \in 0 .. FifoLen
  BY <1>1, ModType DEF Pointer
<1> HIDE DEF w
<1>3. [f EXCEPT !.w1 = w] \in Fifo
  BY <1>2 DEF Fifo
<1> QED
  BY <1>3 DEF Prepare, w

LEMMA EmptyTailType ==
  ASSUME NEW f \in Fifo
  PROVE  EmptyTail(f) \in Fifo
<1> DEFINE r == RoundDown(f.w0)
<1>1. FifoLen \in Nat \ {0} /\ f.w0 \in 0 .. FifoLen
  BY LenFacts DEF Fifo
<1>2. r \in 0 .. FifoLen
  <2>1. PICK k \in Nat : r = k * MF /\ k * MF <= f.w0
    BY <1>1, RoundDownFacts
  <2>2. k * MF \in Nat
    BY LenFacts
  <2> QED
    BY <1>1, <2>1, <2>2
<1> HIDE DEF r
<1>3. [f EXCEPT !.r0 = r, !.r1 = r] \in Fifo
  BY <1>2 DEF Fifo
<1> QED
  BY <1>3 DEF EmptyTail, r

LEMMA EmptyHeadType ==
  ASSUME NEW f \in Fifo
  PROVE  EmptyHead(f) \in Fifo
<1> DEFINE w == RoundDown(f.r1 + MF - 1)
<1>1. w \in 0 .. FifoLen
  BY RoundUpInZone DEF Fifo
<1> HIDE DEF w
<1>2. [f EXCEPT !.w0 = w, !.w1 = w] \in Fifo
  BY <1>1 DEF Fifo
<1> QED
  BY <1>2 DEF EmptyHead, w

\* Cutting the head of a fresh FIFO changes nothing.
LEMMA EmptyHeadOfReset == EmptyHead(Reset) = Reset
<1>1. MF \in Nat \ {0}
  BY LenFacts
<1>2. 0 + MF - 1 \in 0 .. MF - 1
  BY <1>1
<1>3. (0 + MF - 1) % MF = 0 + MF - 1
  BY <1>1, <1>2, ModOn
<1>4. RoundDown(0 + MF - 1) = 0
  BY <1>1, <1>3 DEF RoundDown
<1>5. Reset.r1 = 0
  BY DEF Reset
<1>6. EmptyHead(Reset) = [Reset EXCEPT !.w0 = 0, !.w1 = 0]
  BY <1>4, <1>5, Zenon DEF EmptyHead
<1>7. [Reset EXCEPT !.w0 = 0, !.w1 = 0] = Reset
  <2> DEFINE z == [Reset EXCEPT !.w0 = 0, !.w1 = 0]
  <2>1. Reset \in Fifo /\ Reset.w0 = 0 /\ Reset.w1 = 0 /\ Reset.r0 = 0 /\ Reset.r1 = 0
    BY LenFacts DEF Reset, Fifo
  <2> HIDE DEF Reset
  <2>2. z \in Fifo /\ z.w0 = 0 /\ z.w1 = 0 /\ z.r0 = 0 /\ z.r1 = 0
    BY <2>1, LenFacts DEF Fifo
  <2> HIDE DEF z
  <2>3. z = [w0 |-> z.w0, w1 |-> z.w1, r0 |-> z.r0, r1 |-> z.r1]
    BY <2>2 DEF Fifo
  <2> QED
    BY <2>2, <2>3, Zenon DEF Reset, z
<1> QED
  BY <1>6, <1>7

=============================================================================
