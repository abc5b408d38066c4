----------------------------- MODULE TracerProofs -----------------------------
(***************************************************************************)
(* Proofs about TracerE1, for every size of its zone, every number of      *)
(* descriptors and every packet size, and whichever channel has a line.    *)
(*                                                                         *)
(* e1_poll treats the channels alike, so what it does to one is proved of  *)
(* an arbitrary channel value `e' and core value `k' first.                *)
(***************************************************************************)
EXTENDS TracerE1, TLAPS

F == INSTANCE E1FifoTheorems

-----------------------------------------------------------------------------
(* The pointer arithmetic, from the lemmas about the icE1usb's FIFO.       *)

LEMMA Sizes ==
  /\ MF \in Nat \ {0} /\ NMF \in Nat \ {0} /\ FifoLen \in Nat \ {0} /\ MF <= FifoLen
  /\ MaxInFlight \in Nat \ {0} /\ MaxFrames \in 1 .. FifoLen - 1
<1>1. MF \in Nat \ {0} /\ NMF \in Nat \ {0} /\ MaxInFlight \in Nat \ {0}
  BY TracerAssumption
<1>2. FifoLen \in Nat \ {0} /\ MF <= FifoLen
  BY <1>1 DEF FifoLen
<1> QED
  BY <1>1, <1>2, TracerAssumption

LEMMA SameZone ==
  FifoLen = F!FifoLen /\ Pointer = F!Pointer /\ MfStart = F!MfStart
  BY DEF FifoLen, F!FifoLen, Pointer, F!Pointer, MfStart, F!MfStart

LEMMA ModType ==
  ASSUME NEW x \in Int
  PROVE  x % FifoLen \in Pointer
  BY Sizes DEF Pointer

LEMMA Distance ==
  ASSUME NEW a \in Pointer, NEW b \in Pointer
  PROVE  (a - b) % FifoLen = IF a >= b THEN a - b ELSE a - b + FifoLen
  BY Sizes, SameZone, F!Distance

LEMMA Advance ==
  ASSUME NEW a \in Pointer, NEW n \in 0 .. FifoLen
  PROVE  (a + n) % FifoLen = IF a + n < FifoLen THEN a + n ELSE a + n - FifoLen
  BY Sizes, SameZone, F!Advance

LEMMA DistanceUp ==
  ASSUME NEW a \in Pointer, NEW b \in Pointer, NEW n \in Nat,
         ((a - b) % FifoLen) + n < FifoLen
  PROVE  (((a + n) % FifoLen) - b) % FifoLen = ((a - b) % FifoLen) + n
  BY Sizes, SameZone, F!DistanceUp

LEMMA DistanceDown ==
  ASSUME NEW a \in Pointer, NEW b \in Pointer, NEW n \in Nat,
         n <= (a - b) % FifoLen
  PROVE  (a - ((b + n) % FifoLen)) % FifoLen = ((a - b) % FifoLen) - n
  BY Sizes, SameZone, F!DistanceDown

LEMMA DistanceRest ==
  ASSUME NEW a \in Pointer, NEW b \in Pointer, NEW c \in Pointer, NEW n \in Nat,
         (a - c) % FifoLen = ((b - c) % FifoLen) + n
  PROVE  (a - b) % FifoLen = n
  BY Sizes, SameZone, F!DistanceRest

LEMMA AdvanceTwice ==
  ASSUME NEW a \in Pointer, NEW m \in 0 .. FifoLen, NEW n \in Int
  PROVE  (((a + m) % FifoLen) + n) % FifoLen = (a + (m + n)) % FifoLen
  BY Sizes, SameZone, F!AdvanceTwice

\* A multiple of the multiframe's size is a number; so is a smaller one.
LEMMA Multiples ==
  ASSUME NEW n \in Nat, NEW m \in Nat, m <= n
  PROVE  n * MF \in Nat /\ m * MF \in Nat /\ m * MF <= n * MF
         /\ (n - m) * MF = n * MF - m * MF /\ (n + m) * MF = n * MF + m * MF
  BY Sizes

LEMMA StartIsPointer ==
  ASSUME NEW s \in MfStart
  PROVE  s \in Pointer /\ s - (s % MF) = s
<1>1. PICK k \in 0 .. NMF - 1 : s = k * MF
  BY DEF MfStart
<1>2. s % MF = 0 /\ s \in Nat
  BY <1>1, Sizes
<1>3. s + MF = (k + 1) * MF /\ (k + 1) * MF <= NMF * MF
  BY <1>1, Sizes
<1> QED
  BY <1>2, <1>3, Sizes DEF Pointer, FifoLen

LEMMA ZeroIsStart == 0 \in MfStart
<1>1. 0 \in 0 .. NMF - 1 /\ 0 = 0 * MF
  BY Sizes
<1> QED
  BY <1>1 DEF MfStart

LEMMA Wrapped ==
  ASSUME NEW a \in Nat, NEW j \in 0 .. NMF - 1,
         FifoLen <= a, a < 2 * FifoLen, a - FifoLen = j * MF
  PROVE  a % FifoLen \in MfStart
<1>1. a % FifoLen = a - FifoLen
  <2>1. a \in FifoLen .. 2 * FifoLen - 1
    BY Sizes
  <2> QED
    BY <2>1, Sizes, F!ModAbove
<1> QED
  BY <1>1 DEF MfStart

\* n multiframes on from the start of a multiframe, another one starts.
LEMMA StartPlus ==
  ASSUME NEW s \in MfStart, NEW n \in Nat, n * MF <= FifoLen
  PROVE  (s + n * MF) % FifoLen \in MfStart
<1>1. PICK k \in 0 .. NMF - 1 : s = k * MF
  BY DEF MfStart
<1>2. n * MF \in 0 .. FifoLen /\ s \in Pointer
  BY Sizes, StartIsPointer
<1>3. s + n * MF = (k + n) * MF
  BY <1>1, Sizes
<1>4. n <= NMF
  BY Sizes DEF FifoLen
<1>5. CASE s + n * MF < FifoLen
  <2>1. (k + n) * MF < NMF * MF
    BY <1>3, <1>5 DEF FifoLen
  <2>2. k + n \in 0 .. NMF - 1
    BY <2>1, Sizes
  <2>3. (s + n * MF) % FifoLen = (k + n) * MF
    BY <1>2, <1>3, <1>5, Advance
  <2> QED
    BY <2>2, <2>3 DEF MfStart
<1>6. CASE ~(s + n * MF < FifoLen)
  <2>1. (k + n) * MF >= NMF * MF
    BY <1>2, <1>3, <1>6, Sizes DEF FifoLen, Pointer
  <2>2. k + n >= NMF
    BY <2>1, Sizes
  <2>3. k + n - NMF \in 0 .. NMF - 1
    BY <1>4, <2>2, Sizes
  <2>4. (k + n - NMF) * MF = (k + n) * MF - NMF * MF
    BY Sizes
  <2>5. (s + n * MF) - FifoLen = (k + n - NMF) * MF
    BY <1>3, <2>4 DEF FifoLen
  <2>6. s + n * MF \in Nat /\ FifoLen <= s + n * MF /\ s + n * MF < 2 * FifoLen
    BY <1>2, <1>6, Sizes DEF Pointer
  <2> QED
    BY <2>3, <2>5, <2>6, Wrapped
<1> QED
  BY <1>5, <1>6

\* The k-th descriptor from a pointer n multiframes on is the (n+k)-th.
LEMMA DescriptorOn ==
  ASSUME NEW f, NEW p \in Pointer, NEW n \in Nat, NEW k \in Nat \ {0}, n * MF <= FifoLen
  PROVE  OfsToMf(f, (p + n * MF) % FifoLen, k) = OfsToMf(f, p, n + k)
<1>1. n * MF \in 0 .. FifoLen /\ (k - 1) * MF \in Int
  BY Sizes
<1>2. n * MF + (k - 1) * MF = ((n + k) - 1) * MF
  BY Sizes
<1>3. (((p + n * MF) % FifoLen) + (k - 1) * MF) % FifoLen = (p + (n * MF + (k - 1) * MF)) % FifoLen
  BY <1>1, AdvanceTwice
<1> QED
  BY <1>2, <1>3 DEF OfsToMf

\* A descriptor is a multiframe number.
LEMMA DescriptorType ==
  ASSUME NEW f, f.base = 0, NEW p \in Pointer, NEW k \in Nat \ {0}
  PROVE  OfsToMf(f, p, k) \in Nat
<1>1. p + (k - 1) * MF \in Int
  BY Sizes DEF Pointer
<1>2. (p + (k - 1) * MF) % FifoLen \in Pointer
  BY <1>1, ModType
<1>3. f.base + ((p + (k - 1) * MF) % FifoLen) \in Nat
  BY <1>2 DEF Pointer
<1> QED
  BY <1>3, Sizes DEF OfsToMf

\* What is allocated, valid and free are levels of the zone, and one frame
\* always stays free.
LEMMA Levels ==
  ASSUME NEW f, f.w0 \in Pointer, f.w1 \in Pointer, f.r0 \in Pointer
  PROVE  /\ AllocdFrames(f) \in 0 .. FifoLen - 1 /\ ValidFrames(f) \in 0 .. FifoLen - 1
         /\ FreeFrames(f) = FifoLen - 1 - AllocdFrames(f)
         /\ FreeFrames(f) \in 0 .. FifoLen - 1
<1>1. f.w0 - f.r0 \in Int /\ f.w1 - f.r0 \in Int
  BY DEF Pointer
<1>2. AllocdFrames(f) \in 0 .. FifoLen - 1 /\ ValidFrames(f) \in 0 .. FifoLen - 1
  BY <1>1, ModType DEF AllocdFrames, ValidFrames, Pointer
<1>3. AllocdFrames(f) = IF f.w1 >= f.r0 THEN f.w1 - f.r0 ELSE f.w1 - f.r0 + FifoLen
  BY Distance DEF AllocdFrames
<1>4. f.w1 \in 0 .. FifoLen - 1 /\ f.r0 \in 0 .. FifoLen - 1 /\ FifoLen \in Nat \ {0}
  BY Sizes DEF Pointer
<1>5. CASE f.r0 > f.w1
  <2>1. f.r0 - f.w1 - 1 \in 0 .. FifoLen - 1
    BY <1>4, <1>5
  <2>2. (f.r0 - f.w1 - 1) % FifoLen = f.r0 - f.w1 - 1
    BY <1>4, <2>1, F!ModOn
  <2> QED
    BY <1>2, <1>3, <1>4, <1>5, <2>2 DEF FreeFrames
<1>6. CASE ~(f.r0 > f.w1)
  <2>1. f.r0 - f.w1 - 1 \in -FifoLen .. -1
    BY <1>4, <1>6
  <2>2. (f.r0 - f.w1 - 1) % FifoLen = f.r0 - f.w1 - 1 + FifoLen
    BY <1>4, <2>1, F!ModBelow, SMTT(30)
  <2> QED
    BY <1>2, <1>3, <1>4, <1>6, <2>2 DEF FreeFrames
<1> QED
  BY <1>5, <1>6

-----------------------------------------------------------------------------
(* e1_poll on one channel *)

LEMMA Joined ==
  ASSUME NEW s \in Seq(Nat), NEW t \in Seq(Nat)
  PROVE  s \o t \in Seq(Nat) /\ Len(s \o t) = Len(s) + Len(t)
  OBVIOUS

\* A sequence without its first d members.
LEMMA CutFront ==
  ASSUME NEW s \in Seq(Nat), NEW d \in 0 .. Len(s)
  PROVE  LET t == SubSeq(s, d + 1, Len(s))
         IN  /\ t \in Seq(Nat) /\ Len(t) = Len(s) - d
             /\ \A i \in 1 .. Len(s) - d : t[i] = s[d + i]
<1>1. Len(s) \in Nat
  OBVIOUS
<1>2. Len(SubSeq(s, d + 1, Len(s))) = Len(s) - d
  BY <1>1
<1>3. SubSeq(s, d + 1, Len(s)) \in Seq(Nat)
  OBVIOUS
<1>4. ASSUME NEW i \in 1 .. Len(s) - d
      PROVE  SubSeq(s, d + 1, Len(s))[i] = s[d + i]
  BY <1>1, SMTT(30)
<1> QED
  BY <1>2, <1>3, <1>4

LEMMA MatchedFacts ==
  ASSUME NEW e \in Channel, NEW k \in Core, Matched(e, k)
  PROVE  /\ e.fifo.w0 \in MfStart /\ e.fifo.w1 \in MfStart /\ e.fifo.r0 \in Pointer
         /\ e.fifo.w0 \in Pointer /\ e.fifo.w1 \in Pointer /\ e.fifo.base = 0
         /\ e.inFlight \in Nat /\ k.bds \in Seq(Nat) /\ Len(k.bds) \in Nat
         /\ k.done \in 0 .. Len(k.bds) /\ k.done * MF \in 0 .. FifoLen
<1>1. /\ e.fifo.w0 \in MfStart /\ e.fifo.w1 \in MfStart /\ e.fifo.r0 \in Pointer
      /\ e.fifo.base = 0 /\ e.inFlight \in Nat /\ k.bds \in Seq(Nat) /\ Len(k.bds) \in Nat
  BY Sizes DEF Channel, Core
<1>2. e.fifo.w0 \in Pointer /\ e.fifo.w1 \in Pointer
  BY <1>1, StartIsPointer
<1>3. CASE k.on
  <2>1. /\ Holds(e, k) /\ k.done \in 0 .. Len(k.bds) /\ k.done <= e.inFlight
    BY <1>3 DEF Matched, Holds
  <2>2. e.inFlight * MF <= FifoLen
    <3>1. /\ AllocdFrames(e.fifo) \in 0 .. FifoLen - 1 /\ ValidFrames(e.fifo) \in 0 .. FifoLen - 1
          /\ AllocdFrames(e.fifo) = ValidFrames(e.fifo) + e.inFlight * MF
      BY <1>1, <1>2, <2>1, Levels DEF Holds
    <3>2. e.inFlight * MF \in Nat
      BY <1>1, Sizes
    <3> QED
      BY <3>1, <3>2, Sizes
  <2>3. k.done * MF \in 0 .. FifoLen
    <3>1. k.done * MF \in Nat /\ k.done * MF <= e.inFlight * MF
      BY <1>1, <2>1, Multiples
    <3> QED
      BY <1>1, <2>2, <3>1, Sizes
  <2> QED
    BY <1>1, <1>2, <2>1, <2>3
<1>4. CASE ~k.on
  <2>1. k.bds = <<>> /\ k.done = 0
    BY <1>4 DEF Matched, CoreOff
  <2>2. 0 * MF \in 0 .. FifoLen
    BY Sizes
  <2> QED
    BY <1>1, <1>2, <2>1, <2>2
<1> QED
  BY <1>3, <1>4 DEF Core

\* Giving back completed descriptors.
LEMMA ReapMatched ==
  ASSUME NEW e \in Channel, NEW k \in Core, Matched(e, k), NEW bad \in BOOLEAN
  PROVE  LET r == Reaped(e, k.done, bad)
         IN  /\ r \in Channel /\ Taken(k) \in Core /\ Matched(r, Taken(k))
             /\ r.cr = e.cr /\ r.state = e.state /\ e.flags \subseteq r.flags
<1> DEFINE d == k.done
           f == e.fifo
           g == WriteCommit(f, d)
           r == Reaped(e, d, bad)
           t == Taken(k)
<1>1. /\ f.w0 \in MfStart /\ f.w1 \in MfStart /\ f.r0 \in Pointer
      /\ f.w0 \in Pointer /\ f.w1 \in Pointer /\ f.base = 0
      /\ e.inFlight \in Nat /\ k.bds \in Seq(Nat) /\ Len(k.bds) \in Nat
      /\ d \in 0 .. Len(k.bds) /\ d * MF \in 0 .. FifoLen
  BY MatchedFacts
<1>2. g = [f EXCEPT !.w0 = (f.w0 + d * MF) % FifoLen]
  BY DEF WriteCommit
<1> DEFINE w == (f.w0 + d * MF) % FifoLen
<1>3. w \in MfStart /\ w \in Pointer
  BY <1>1, StartPlus, StartIsPointer
<1> HIDE DEF w
<1>4. /\ g \in [base : {0}, w0 : MfStart, w1 : MfStart, r0 : Pointer]
      /\ g.w0 = w /\ g.w1 = f.w1 /\ g.r0 = f.r0 /\ g.base = f.base
  <2>1. f \in [base : {0}, w0 : MfStart, w1 : MfStart, r0 : Pointer]
    BY DEF Channel
  <2>2. g = [f EXCEPT !.w0 = w]
    BY <1>2 DEF w
  <2> HIDE DEF f, g
  <2> QED
    BY <1>3, <2>1, <2>2
<1> HIDE DEF g
<1>5. /\ d <= e.inFlight
      /\ k.on => AllocdFrames(f) = ValidFrames(f) + e.inFlight * MF
  <2>1. CASE k.on
    BY <1>1, <2>1 DEF Matched, Holds
  <2>2. CASE ~k.on
    BY <1>1, <2>2 DEF Matched, CoreOff
  <2> QED
    BY <2>1, <2>2 DEF Core
<1>6. /\ r \in Channel /\ r.cr = e.cr /\ r.state = e.state /\ e.flags \subseteq r.flags
      /\ r.fifo = g /\ r.inFlight = e.inFlight - d
  <2>1. e.inFlight - d \in 0 .. MaxInFlight
    BY <1>1, <1>5, Sizes DEF Channel
  <2>2. r = [e EXCEPT !.fifo = g, !.inFlight = e.inFlight - d,
                      !.flags = IF bad THEN e.flags \union {"crc"} ELSE e.flags]
    BY DEF Reaped, g
  <2> HIDE DEF r
  <2> QED
    BY <1>4, <2>1, <2>2 DEF Channel
<1> HIDE DEF r
<1>7. /\ t \in Core /\ t.on = k.on /\ t.done = 0 /\ t.line = k.line /\ t.ovfl = k.ovfl
      /\ t.bds = SubSeq(k.bds, d + 1, Len(k.bds))
  <2>1. SubSeq(k.bds, d + 1, Len(k.bds)) \in Seq(Nat)
    BY <1>1, CutFront
  <2>2. t = [k EXCEPT !.bds = SubSeq(k.bds, d + 1, Len(k.bds)), !.done = 0]
    BY DEF Taken
  <2> HIDE DEF t
  <2> QED
    BY <2>1, <2>2 DEF Core
<1> HIDE DEF t
<1>8. ASSUME k.on PROVE Matched(r, t)
  <2>1. Holds(e, k)
    BY <1>8 DEF Matched
  <2>2. e.inFlight = Len(k.bds)
    BY <2>1 DEF Holds
  <2>3. /\ Len(t.bds) = e.inFlight - d
        /\ \A i \in 1 .. e.inFlight - d : t.bds[i] = k.bds[d + i]
    <3>1. k.bds \in Seq(Nat) /\ d \in 0 .. Len(k.bds)
      BY <1>1, <2>2
    <3>2. /\ Len(SubSeq(k.bds, d + 1, Len(k.bds))) = Len(k.bds) - d
          /\ \A i \in 1 .. Len(k.bds) - d : SubSeq(k.bds, d + 1, Len(k.bds))[i] = k.bds[d + i]
      BY <3>1, CutFront
    <3> QED
      BY <1>7, <2>2, <3>2
  <2>4. AllocdFrames(g) = ValidFrames(g) + (e.inFlight - d) * MF
    <3>1. AllocdFrames(f) \in 0 .. FifoLen - 1 /\ ValidFrames(f) \in 0 .. FifoLen - 1
      BY <1>1, Levels
    <3>2. /\ d * MF \in Nat /\ e.inFlight * MF \in Nat /\ d * MF <= e.inFlight * MF
          /\ (e.inFlight - d) * MF = e.inFlight * MF - d * MF
      <4> DEFINE n == e.inFlight
      <4>1. n \in Nat /\ d \in Nat /\ d <= n
        BY <1>1, <1>5
      <4> HIDE DEF n, d
      <4>2. d * MF \in Nat /\ n * MF \in Nat /\ d * MF <= n * MF /\ (n - d) * MF = n * MF - d * MF
        BY ONLY <4>1, Multiples
      <4> QED
        BY <4>2 DEF n
    <3>3. ValidFrames(f) + d * MF < FifoLen
      BY <1>5, <1>8, <3>1, <3>2, Sizes
    <3>4. (w - f.r0) % FifoLen = ValidFrames(f) + d * MF
      BY <1>1, <3>2, <3>3, DistanceUp DEF ValidFrames, w
    <3>5. ValidFrames(g) = ValidFrames(f) + d * MF /\ AllocdFrames(g) = AllocdFrames(f)
      BY <1>4, <3>4 DEF ValidFrames, AllocdFrames
    <3> QED
      BY <1>5, <1>8, <3>1, <3>2, <3>5
  <2>5. ASSUME NEW i \in 1 .. e.inFlight - d
        PROVE  t.bds[i] = OfsToMf(g, g.w0, i)
    <3>1. t.bds[i] = k.bds[d + i]
      BY <2>3
    <3>2. d + i \in 1 .. e.inFlight
      BY <1>1
    <3>3. k.bds[d + i] = OfsToMf(f, f.w0, d + i)
      BY <2>1, <3>2 DEF Holds
    <3>4. OfsToMf(f, w, i) = OfsToMf(f, f.w0, d + i)
      BY <1>1, DescriptorOn DEF w
    <3>5. OfsToMf(g, g.w0, i) = OfsToMf(f, w, i)
      BY <1>4 DEF OfsToMf
    <3> QED
      BY <3>1, <3>3, <3>4, <3>5
  <2>6. Holds(r, t)
    BY <1>6, <2>3, <2>4, <2>5 DEF Holds
  <2> QED
    BY <1>7, <1>8, <2>6 DEF Matched, Core
<1>9. ASSUME ~k.on PROVE Matched(r, t)
  <2>1. k = CoreOff
    BY <1>9 DEF Matched
  <2>2. SubSeq(k.bds, d + 1, Len(k.bds)) = <<>>
    BY <2>1 DEF CoreOff
  <2>3. t = CoreOff
    BY <1>7, <2>1, <2>2 DEF CoreOff, Core
  <2> QED
    BY <1>6, <1>7, <2>1, <2>3 DEF Matched, CoreOff
<1>10. Matched(r, t)
  BY <1>8, <1>9 DEF Core
<1> QED
  BY <1>6, <1>7, <1>10 DEF r, t

\* Dropping what is committed and unread, when the core holds nothing.
LEMMA EmptyMatched ==
  ASSUME NEW e \in Channel, NEW k \in Core, Matched(e, k),
         e.state = "RECOVER" => e.inFlight = 0
  PROVE  LET r == Emptied(e)
         IN  /\ r \in Channel /\ Matched(r, k)
             /\ r.cr = e.cr /\ r.state = e.state /\ r.flags = e.flags /\ r.inFlight = e.inFlight
<1> DEFINE f == e.fifo
           g == MultiframeEmpty(f)
           r == [e EXCEPT !.fifo = g]
<1>1. CASE e.state # "RECOVER"
  BY <1>1 DEF Emptied
<1>2. CASE e.state = "RECOVER"
  <2>1. /\ f.w0 \in MfStart /\ f.w1 \in MfStart /\ f.r0 \in Pointer
        /\ f.w0 \in Pointer /\ f.w1 \in Pointer /\ f.base = 0
    BY MatchedFacts
  <2>2. g = [f EXCEPT !.r0 = f.w0]
    BY <2>1, StartIsPointer DEF MultiframeEmpty
  <2>3. /\ g \in [base : {0}, w0 : MfStart, w1 : MfStart, r0 : Pointer]
        /\ g.w0 = f.w0 /\ g.w1 = f.w1 /\ g.r0 = f.w0 /\ g.base = f.base
    <3>1. f \in [base : {0}, w0 : MfStart, w1 : MfStart, r0 : Pointer]
      BY DEF Channel
    <3> HIDE DEF f, g
    <3> QED
      BY <2>1, <2>2, <3>1
  <2> HIDE DEF g
  <2>4. /\ r \in Channel /\ r.cr = e.cr /\ r.state = e.state /\ r.flags = e.flags
        /\ r.inFlight = e.inFlight /\ r.fifo = g
    BY <2>3 DEF Channel
  <2> HIDE DEF r
  <2>5. ASSUME k.on PROVE Matched(r, k)
    <3>1. Holds(e, k) /\ e.inFlight = 0
      BY <1>2, <2>5 DEF Matched
    <3>2. (f.w1 - f.r0) % FifoLen = (f.w0 - f.r0) % FifoLen
      <4>1. AllocdFrames(f) = ValidFrames(f) + 0 * MF
        BY <3>1 DEF Holds
      <4>2. AllocdFrames(f) \in 0 .. FifoLen - 1 /\ ValidFrames(f) \in 0 .. FifoLen - 1 /\ 0 * MF = 0
        BY <2>1, Levels, Sizes
      <4>3. AllocdFrames(f) = ValidFrames(f)
        BY <4>1, <4>2, Sizes
      <4> QED
        BY <4>3 DEF AllocdFrames, ValidFrames
    <3>3. f.w1 = f.w0
      <4>1. (f.w1 - f.r0) % FifoLen = IF f.w1 >= f.r0 THEN f.w1 - f.r0 ELSE f.w1 - f.r0 + FifoLen
        BY <2>1, Distance
      <4>2. (f.w0 - f.r0) % FifoLen = IF f.w0 >= f.r0 THEN f.w0 - f.r0 ELSE f.w0 - f.r0 + FifoLen
        BY <2>1, Distance
      <4>3. f.w0 \in 0 .. FifoLen - 1 /\ f.w1 \in 0 .. FifoLen - 1 /\ f.r0 \in 0 .. FifoLen - 1
        BY <2>1 DEF Pointer
      <4> QED
        BY <3>2, <4>1, <4>2, <4>3, Sizes
    <3>4. AllocdFrames(g) = ValidFrames(g) + 0 * MF
      <4>1. AllocdFrames(g) = ValidFrames(g)
        BY <2>3, <3>3 DEF AllocdFrames, ValidFrames
      <4>2. ValidFrames(g) \in 0 .. FifoLen - 1
        BY <2>1, <2>3, Levels
      <4> QED
        BY <4>1, <4>2, Sizes
    <3>5. Holds(r, k)
      BY <2>4, <3>1, <3>4 DEF Holds
    <3> QED
      BY <2>5, <3>1, <3>5 DEF Matched
  <2>6. ASSUME ~k.on PROVE Matched(r, k)
    BY <2>6 DEF Matched
  <2>7. Matched(r, k)
    BY <2>5, <2>6 DEF Core
  <2>8. Emptied(e) = r
    BY <1>2 DEF Emptied, r, g
  <2> QED
    BY <2>4, <2>7, <2>8
<1> QED
  BY <1>1, <1>2

\* How many multiframes a poll allocates fits what the FIFO has free.
LEMMA FillFits ==
  ASSUME NEW e \in Channel
  PROVE  /\ FillCount(e) \in Nat /\ e.inFlight + FillCount(e) \in 0 .. MaxInFlight
         /\ FillCount(e) * MF \in 0 .. FreeFrames(e.fifo)
         /\ FreeFrames(e.fifo) \in 0 .. FifoLen - 1
<1> DEFINE f == e.fifo
           n == FillCount(e)
           m == FreeFrames(f) \div MF
<1>1. /\ f.w0 \in Pointer /\ f.w1 \in Pointer /\ f.r0 \in Pointer /\ e.inFlight \in 0 .. MaxInFlight
  BY StartIsPointer DEF Channel
<1>2. FreeFrames(f) \in 0 .. FifoLen - 1
  BY <1>1, Levels
<1>3. m \in Nat /\ m * MF <= FreeFrames(f)
  <2> DEFINE x == FreeFrames(f)
  <2>1. x \in Nat
    BY <1>2
  <2> HIDE DEF x
  <2>2. x \div MF \in Nat /\ (x \div MF) * MF <= x
    BY <2>1, Sizes
  <2> QED
    BY <2>2 DEF x
<1>4. n = IF MaxInFlight - e.inFlight < m THEN MaxInFlight - e.inFlight ELSE m
  BY DEF FillCount, Lower
<1> HIDE DEF m, n
<1>5. n \in Nat /\ n <= m /\ n <= MaxInFlight - e.inFlight
  BY <1>1, <1>3, <1>4, Sizes
<1>6. n * MF \in Nat /\ n * MF <= m * MF
  BY <1>3, <1>5, Multiples
<1>7. m * MF \in Nat
  BY <1>3, Sizes
<1>8. n * MF \in 0 .. FreeFrames(f)
  BY <1>2, <1>3, <1>6, <1>7, Sizes
<1> QED
  BY <1>1, <1>2, <1>5, <1>8, Sizes DEF n

\* Filling the core up, and what is written to it.
LEMMA FillMatched ==
  ASSUME NEW e \in Channel, NEW k \in Core, Matched(e, k), e.cr => k.on
  PROVE  LET r == Filled(e)
             t == Fed(k, e)
         IN  /\ r \in Channel /\ t \in Core /\ Matched(r, t)
             /\ r.cr = e.cr /\ r.state = "RUN" /\ r.flags = e.flags
             /\ e.cr => t.on
             /\ t.on => e.cr \/ (k.on /\ e.state = "RUN")
<1> DEFINE f == e.fifo
           n == FillCount(e)
           g == WritePrepare(f, n)
           r == Filled(e)
           new == [i \in 1 .. n |-> OfsToMf(f, f.w1, i)]
           q == IF k.on THEN [k EXCEPT !.bds = @ \o new] ELSE k
           t == Fed(k, e)
<1>1. /\ f.w0 \in MfStart /\ f.w1 \in MfStart /\ f.r0 \in Pointer
      /\ f.w0 \in Pointer /\ f.w1 \in Pointer /\ f.base = 0
      /\ e.inFlight \in Nat /\ k.bds \in Seq(Nat) /\ Len(k.bds) \in Nat
      /\ k.done \in 0 .. Len(k.bds)
  BY MatchedFacts
<1>2. /\ n \in Nat /\ e.inFlight + n \in 0 .. MaxInFlight
      /\ n * MF \in 0 .. FreeFrames(f) /\ FreeFrames(f) \in 0 .. FifoLen - 1
  BY FillFits
<1>3. n * MF \in 0 .. FifoLen
  BY <1>2, Sizes
<1>4. /\ r = [e EXCEPT !.fifo = g, !.inFlight = e.inFlight + n, !.state = "RUN"]
      /\ t = IF e.state = "RUN" THEN q ELSE WriteCsr(q, e.cr)
  BY DEF Filled, Fed
<1> HIDE DEF r, t, n
<1> DEFINE w == (f.w1 + n * MF) % FifoLen
<1>5. w \in MfStart /\ w \in Pointer
  BY <1>1, <1>2, <1>3, StartPlus, StartIsPointer
<1>6. /\ g \in [base : {0}, w0 : MfStart, w1 : MfStart, r0 : Pointer]
      /\ g.w0 = f.w0 /\ g.w1 = w /\ g.r0 = f.r0 /\ g.base = f.base
  <2>1. f \in [base : {0}, w0 : MfStart, w1 : MfStart, r0 : Pointer]
    BY DEF Channel
  <2>2. g = [f EXCEPT !.w1 = w]
    BY DEF WritePrepare
  <2> HIDE DEF f, g, w
  <2> QED
    BY <1>5, <2>1, <2>2
<1> HIDE DEF g
<1>7. /\ r \in Channel /\ r.cr = e.cr /\ r.state = "RUN" /\ r.flags = e.flags
      /\ r.fifo = g /\ r.inFlight = e.inFlight + n
  BY <1>2, <1>4, <1>6 DEF Channel
<1>8. new \in Seq(Nat) /\ Len(new) = n /\ \A i \in 1 .. n : new[i] = OfsToMf(f, f.w1, i)
  <2>1. \A i \in 1 .. n : OfsToMf(f, f.w1, i) \in Nat
    BY <1>1, <1>2, DescriptorType
  <2>2. new \in [1 .. n -> Nat]
    BY <2>1
  <2> QED
    BY <1>2, <2>2
<1> HIDE DEF new
<1>9. /\ q \in Core /\ q.on = k.on /\ q.done = k.done
      /\ k.on => q.bds = k.bds \o new
      /\ ~k.on => q = k
  <2>1. k.bds \o new \in Seq(Nat)
    BY <1>1, <1>8
  <2> QED
    BY <2>1 DEF Core
<1> HIDE DEF q
<1>10. ASSUME k.on
       PROVE  Holds(r, q) /\ q.done \in 0 .. Len(q.bds)
  <2>1. Holds(e, k) /\ k.done \in 0 .. Len(k.bds)
    BY <1>10 DEF Matched
  <2>2. e.inFlight = Len(k.bds)
    BY <2>1 DEF Holds
  <2>3. Len(q.bds) = e.inFlight + n
    <3>1. q.bds = k.bds \o new /\ k.bds \in Seq(Nat) /\ new \in Seq(Nat) /\ Len(new) = n
      BY <1>1, <1>8, <1>9, <1>10
    <3>2. Len(k.bds \o new) = Len(k.bds) + Len(new)
      BY <3>1, Joined
    <3> QED
      BY <2>2, <3>1, <3>2
  <2>4. /\ AllocdFrames(f) \in 0 .. FifoLen - 1 /\ ValidFrames(f) \in 0 .. FifoLen - 1
        /\ FreeFrames(f) = FifoLen - 1 - AllocdFrames(f)
        /\ AllocdFrames(f) = ValidFrames(f) + e.inFlight * MF
    BY <1>1, <2>1, Levels DEF Holds
  <2>5. AllocdFrames(g) = ValidFrames(g) + (e.inFlight + n) * MF
    <3>1. AllocdFrames(f) + n * MF < FifoLen
      BY <1>2, <2>4, Sizes
    <3>2. n * MF \in Nat /\ e.inFlight * MF \in Nat
      BY <1>1, <1>2, Sizes
    <3>3. (w - f.r0) % FifoLen = AllocdFrames(f) + n * MF
      BY <1>1, <3>1, <3>2, DistanceUp DEF AllocdFrames
    <3>4. AllocdFrames(g) = AllocdFrames(f) + n * MF /\ ValidFrames(g) = ValidFrames(f)
      BY <1>6, <3>3 DEF AllocdFrames, ValidFrames
    <3>5. (e.inFlight + n) * MF = e.inFlight * MF + n * MF
      BY <1>1, <1>2, Sizes
    <3> QED
      BY <2>4, <3>2, <3>4, <3>5
  <2>6. f.w1 = (f.w0 + e.inFlight * MF) % FifoLen /\ e.inFlight * MF \in 0 .. FifoLen
    <3> DEFINE m == e.inFlight * MF
    <3>1. m \in Nat
      BY <1>1, Sizes
    <3>2. (f.w1 - f.r0) % FifoLen = ((f.w0 - f.r0) % FifoLen) + m
      BY <2>4 DEF AllocdFrames, ValidFrames
    <3> HIDE DEF m
    <3>3. (f.w1 - f.w0) % FifoLen = m
      BY <1>1, <3>1, <3>2, DistanceRest
    <3>4. (f.w1 - f.w0) % FifoLen = IF f.w1 >= f.w0 THEN f.w1 - f.w0 ELSE f.w1 - f.w0 + FifoLen
      BY <1>1, Distance
    <3>5. f.w0 \in 0 .. FifoLen - 1 /\ f.w1 \in 0 .. FifoLen - 1
      BY <1>1 DEF Pointer
    <3>6. m \in 0 .. FifoLen
      BY <3>1, <3>3, <3>4, <3>5, Sizes
    <3>7. (f.w0 + m) % FifoLen = IF f.w0 + m < FifoLen THEN f.w0 + m ELSE f.w0 + m - FifoLen
      BY <1>1, <3>6, Advance
    <3>8. f.w1 = (f.w0 + m) % FifoLen
      BY <3>1, <3>3, <3>4, <3>5, <3>7, Sizes
    <3> QED
      BY <3>6, <3>8 DEF m
  <2>7. ASSUME NEW i \in 1 .. e.inFlight + n
        PROVE  q.bds[i] = OfsToMf(g, g.w0, i)
    <3>1. OfsToMf(g, g.w0, i) = OfsToMf(f, f.w0, i)
      BY <1>6 DEF OfsToMf
    <3>2. CASE i <= e.inFlight
      <4>1. q.bds[i] = k.bds[i]
        BY <1>1, <1>8, <1>9, <1>10, <2>2, <3>2
      <4>2. k.bds[i] = OfsToMf(f, f.w0, i)
        BY <1>2, <2>1, <3>2 DEF Holds
      <4> QED
        BY <3>1, <4>1, <4>2
    <3>3. CASE ~(i <= e.inFlight)
      <4> DEFINE j == i - e.inFlight
      <4>1. j \in 1 .. n /\ j \in Nat \ {0} /\ e.inFlight + j = i
        BY <1>1, <1>2, <3>3, SMTT(30)
      <4>2. q.bds[i] = new[j]
        BY <1>1, <1>2, <1>8, <1>9, <1>10, <2>2, <3>3
      <4> HIDE DEF j
      <4>3. new[j] = OfsToMf(f, f.w1, j)
        BY <1>8, <4>1
      <4>4. e.inFlight * MF <= FifoLen
        BY <2>6, Sizes
      <4>5. OfsToMf(f, (f.w0 + e.inFlight * MF) % FifoLen, j) = OfsToMf(f, f.w0, e.inFlight + j)
        BY <1>1, <4>1, <4>4, DescriptorOn
      <4> QED
        BY <2>6, <3>1, <4>1, <4>2, <4>3, <4>5
    <3> QED
      BY <1>1, <3>2, <3>3
  <2>8. Holds(r, q)
    BY <1>7, <2>3, <2>5, <2>7 DEF Holds
  <2> QED
    BY <1>1, <1>2, <1>9, <2>2, <2>3, <2>8
<1>11. CASE e.state = "RUN"
  <2>1. t = q
    BY <1>4, <1>11
  <2>2. Matched(r, q)
    <3>1. ASSUME k.on PROVE Matched(r, q)
      BY <1>9, <1>10, <3>1 DEF Matched
    <3>2. ASSUME ~k.on PROVE Matched(r, q)
      BY <1>9, <3>2 DEF Matched
    <3> QED
      BY <3>1, <3>2 DEF Core
  <2> QED
    BY <1>7, <1>9, <1>11, <2>1, <2>2 DEF r, t
<1>12. CASE e.state # "RUN" /\ e.cr
  <2>1. t = [q EXCEPT !.on = TRUE, !.ovfl = FALSE]
    BY <1>4, <1>12 DEF WriteCsr
  <2>2. t \in Core /\ t.on /\ t.bds = q.bds /\ t.done = q.done
    BY <1>9, <2>1 DEF Core
  <2>3. Holds(r, q) /\ q.done \in 0 .. Len(q.bds)
    BY <1>10, <1>12
  <2>4. Matched(r, t)
    BY <2>2, <2>3 DEF Matched, Holds
  <2> QED
    BY <1>7, <1>12, <2>2, <2>4 DEF r, t
<1>13. CASE e.state # "RUN" /\ ~e.cr
  <2>1. t = CoreOff
    BY <1>4, <1>13 DEF WriteCsr
  <2>2. t \in Core /\ ~t.on
    BY <2>1 DEF Core, CoreOff
  <2>3. Matched(r, t)
    BY <2>1, <2>2 DEF Matched
  <2> QED
    BY <1>7, <1>13, <2>2, <2>3 DEF r, t
<1> QED
  BY <1>11, <1>12, <1>13 DEF Channel

\* What e1_poll makes of a channel and of its core, its three parts together.
SeenAt(e, k, bad) == Checked(Reaped(e, k.done, bad), k)
Polled(e, k, bad) ==
  LET s == SeenAt(e, k, bad) IN IF Serves(s) THEN Filled(Emptied(s)) ELSE s
PolledCore(e, k, bad) ==
  LET s == SeenAt(e, k, bad)
      t == Seen(Taken(k))
  IN  IF Serves(s) THEN Fed(t, Emptied(s)) ELSE t

LoudFlags == {"misaligned", "overflow"}

\* Looking at the line and at the overflow bit: a channel that starts to
\* recover has a flag that says so.
LEMMA CheckMatched ==
  ASSUME NEW e \in Channel, NEW k \in Core, Matched(e, k), NEW bad \in BOOLEAN
  PROVE  LET s == SeenAt(e, k, bad)
             t == Seen(Taken(k))
         IN  /\ s \in Channel /\ t \in Core /\ Matched(s, t)
             /\ s.cr = e.cr /\ t.on = k.on /\ e.flags \subseteq s.flags
             /\ e.state = "IDLE" <=> s.state = "IDLE"
             /\ s.state = "RECOVER" =>
                  e.state = "RECOVER" \/ s.flags \intersect LoudFlags # {}
<1> DEFINE r == Reaped(e, k.done, bad)
           s == SeenAt(e, k, bad)
           u == Taken(k)
           t == Seen(Taken(k))
<1>1. /\ r \in Channel /\ u \in Core /\ Matched(r, u)
      /\ r.cr = e.cr /\ r.state = e.state /\ e.flags \subseteq r.flags
  BY ReapMatched
<1>2. s = Checked(r, k)
  BY DEF SeenAt
<1>3. u.on = k.on
  BY DEF Taken, Core
<1>4. t = IF u.line = "lost" THEN [u EXCEPT !.line = "down"] ELSE u
  BY DEF Seen
<1> HIDE DEF r, s, u, t
<1>5. /\ s \in Channel /\ s.cr = r.cr /\ s.fifo = r.fifo /\ s.inFlight = r.inFlight
      /\ r.flags \subseteq s.flags
      /\ r.state = "IDLE" <=> s.state = "IDLE"
      /\ s.state = "RECOVER" => r.state = "RECOVER" \/ s.flags \intersect LoudFlags # {}
  <2>1. CASE r.state = "RUN" /\ ~Aligned(k)
    <3>1. s = [r EXCEPT !.state = "RECOVER", !.flags = r.flags \union {"misaligned"}]
      BY <1>2, <2>1 DEF Checked
    <3> QED
      BY <1>1, <2>1, <3>1 DEF Channel, LoudFlags
  <2>2. CASE r.state = "RUN" /\ Aligned(k) /\ k.ovfl
    <3>1. s = [r EXCEPT !.state = "RECOVER", !.flags = r.flags \union {"overflow"}]
      BY <1>2, <2>2 DEF Checked
    <3> QED
      BY <1>1, <2>2, <3>1 DEF Channel, LoudFlags
  <2>3. CASE ~(r.state = "RUN" /\ ~Aligned(k)) /\ ~(r.state = "RUN" /\ Aligned(k) /\ k.ovfl)
    <3>1. s = r
      BY <1>2, <2>3 DEF Checked
    <3> QED
      BY <1>1, <3>1
  <2> QED
    BY <2>1, <2>2, <2>3
<1>6. t \in Core /\ t.on = u.on /\ t.bds = u.bds /\ t.done = u.done /\ (~u.on => t = u)
  <2>1. ~u.on => u.line = "down"
    BY <1>1 DEF Matched, CoreOff
  <2> QED
    BY <1>1, <1>4, <2>1 DEF Core
<1>7. Matched(s, t)
  BY <1>1, <1>5, <1>6 DEF Matched, Holds
<1> QED
  BY <1>1, <1>3, <1>5, <1>6, <1>7 DEF s, t

LEMMA PollMatched ==
  ASSUME NEW e \in Channel, NEW k \in Core, Matched(e, k), NEW bad \in BOOLEAN,
         e.cr => k.on, k.on /\ ~e.cr => e.state = "IDLE"
  PROVE  LET r == Polled(e, k, bad)
             t == PolledCore(e, k, bad)
             s == SeenAt(e, k, bad)
         IN  /\ r \in Channel /\ t \in Core /\ Matched(r, t)
             /\ r.cr = e.cr /\ t.on = e.cr
             /\ r.flags = s.flags /\ e.flags \subseteq s.flags
             /\ r.state = "IDLE" => e.state = "IDLE"
             /\ r.state = "RECOVER" => s.state = "RECOVER" /\ ~Serves(s)
             /\ s.state = "RECOVER" =>
                  e.state = "RECOVER" \/ s.flags \intersect LoudFlags # {}
<1> DEFINE s == SeenAt(e, k, bad)
           u == Seen(Taken(k))
           r == Polled(e, k, bad)
           t == PolledCore(e, k, bad)
<1>1. /\ s \in Channel /\ u \in Core /\ Matched(s, u)
      /\ s.cr = e.cr /\ u.on = k.on /\ e.flags \subseteq s.flags
      /\ e.state = "IDLE" <=> s.state = "IDLE"
      /\ s.state = "RECOVER" => e.state = "RECOVER" \/ s.flags \intersect LoudFlags # {}
  BY CheckMatched
<1>2. /\ r = IF Serves(s) THEN Filled(Emptied(s)) ELSE s
      /\ t = IF Serves(s) THEN Fed(u, Emptied(s)) ELSE u
  BY DEF Polled, PolledCore
<1> HIDE DEF s, u, r, t
<1>3. CASE Serves(s)
  <2>1. s.state = "RECOVER" => s.inFlight = 0
    BY <1>3 DEF Serves, Waits
  <2> DEFINE m == Emptied(s)
  <2>2. /\ m \in Channel /\ Matched(m, u)
        /\ m.cr = s.cr /\ m.state = s.state /\ m.flags = s.flags
    BY <1>1, <2>1, EmptyMatched
  <2>3. r = Filled(m) /\ t = Fed(u, m)
    BY <1>2, <1>3
  <2> HIDE DEF m
  <2>4. /\ r \in Channel /\ t \in Core /\ Matched(r, t)
        /\ r.cr = m.cr /\ r.state = "RUN" /\ r.flags = m.flags
        /\ m.cr => t.on
        /\ t.on => m.cr \/ (u.on /\ m.state = "RUN")
    BY <1>1, <2>2, <2>3, FillMatched
  <2>5. t.on = e.cr
    BY <1>1, <2>2, <2>4 DEF Channel, Core
  <2> QED
    BY <1>1, <1>3, <2>2, <2>4, <2>5 DEF r, s, t
<1>4. CASE ~Serves(s)
  <2>1. r = s /\ t = u
    BY <1>2, <1>4
  <2>2. s.state = "RECOVER"
    BY <1>4 DEF Serves, Waits
  <2>3. t.on = e.cr
    BY <1>1, <2>1, <2>2 DEF Channel, Core
  <2> QED
    BY <1>1, <1>4, <2>1, <2>3 DEF r, s, t
<1> QED
  BY <1>3, <1>4

-----------------------------------------------------------------------------
(* usb_e1_run on one channel *)

\* Reading moves the read pointer past what it took, which was valid, so what
\* is allocated shrinks by as much as what is valid.
LEMMA ReadOnce ==
  ASSUME NEW f \in [base : {0}, w0 : MfStart, w1 : MfStart, r0 : Pointer], NEW n \in Nat,
         ValidFrames(f) <= AllocdFrames(f)
  PROVE  LET g == FrameRead(f, n)
         IN  /\ g \in [base : {0}, w0 : MfStart, w1 : MfStart, r0 : Pointer]
             /\ g.w0 = f.w0 /\ g.base = f.base
             /\ ValidFrames(g) <= AllocdFrames(g)
             /\ AllocdFrames(g) - ValidFrames(g) = AllocdFrames(f) - ValidFrames(f)
             /\ n - ReadRun(f, n) \in Nat
<1> DEFINE d == ReadRun(f, n)
           r == (f.r0 + d) % FifoLen
           g == FrameRead(f, n)
<1>1. f.w0 \in Pointer /\ f.w1 \in Pointer /\ f.r0 \in Pointer /\ f.r0 \in 0 .. FifoLen - 1
  BY StartIsPointer DEF Pointer
<1>2. AllocdFrames(f) \in 0 .. FifoLen - 1 /\ ValidFrames(f) \in 0 .. FifoLen - 1
  BY <1>1, Levels
<1>3. d \in Nat /\ d <= ValidFrames(f) /\ n - d \in Nat
  BY <1>1, <1>2, Sizes DEF ReadRun, Lower
<1>4. g = [f EXCEPT !.r0 = r]
  BY DEF FrameRead
<1> HIDE DEF d, g
<1>5. r \in Pointer
  <2>1. f.r0 + d \in Int
    BY <1>1, <1>3, Sizes
  <2> QED
    BY <2>1, ModType
<1>6. (f.w0 - r) % FifoLen = ValidFrames(f) - d
  <2>1. d <= (f.w0 - f.r0) % FifoLen
    BY <1>3 DEF ValidFrames
  <2>2. (f.w0 - ((f.r0 + d) % FifoLen)) % FifoLen = ((f.w0 - f.r0) % FifoLen) - d
    BY <1>1, <1>3, <2>1, DistanceDown
  <2> QED
    BY <2>2, Zenon DEF ValidFrames, r
<1>7. (f.w1 - r) % FifoLen = AllocdFrames(f) - d
  <2>1. d <= (f.w1 - f.r0) % FifoLen
    BY <1>2, <1>3 DEF AllocdFrames
  <2>2. (f.w1 - ((f.r0 + d) % FifoLen)) % FifoLen = ((f.w1 - f.r0) % FifoLen) - d
    BY <1>1, <1>3, <2>1, DistanceDown
  <2> QED
    BY <2>2, Zenon DEF AllocdFrames, r
<1> HIDE DEF r
<1>8. /\ g \in [base : {0}, w0 : MfStart, w1 : MfStart, r0 : Pointer]
      /\ g.w0 = f.w0 /\ g.w1 = f.w1 /\ g.r0 = r /\ g.base = f.base
  BY <1>4, <1>5
<1>9. ValidFrames(g) = ValidFrames(f) - d /\ AllocdFrames(g) = AllocdFrames(f) - d
  BY <1>6, <1>7, <1>8 DEF ValidFrames, AllocdFrames
<1> QED
  BY <1>2, <1>3, <1>8, <1>9 DEF d, g

LEMMA ReadMatched ==
  ASSUME NEW e \in Channel, NEW k \in Core, Matched(e, k), k.on
  PROVE  /\ NeedData(e) \in Channel /\ Matched(NeedData(e), k)
         /\ NeedData(e).cr = e.cr /\ NeedData(e).state = e.state /\ NeedData(e).flags = {}
<1> DEFINE f == e.fifo
           h == FrameRead(f, MaxFrames)
           m == MaxFrames - ReadRun(f, MaxFrames)
           g == FrameRead(h, m)
           r == NeedData(e)
<1>1. f \in [base : {0}, w0 : MfStart, w1 : MfStart, r0 : Pointer] /\ MaxFrames \in Nat
  BY Sizes DEF Channel
<1>2. Holds(e, k) /\ e.inFlight * MF \in Nat
  BY Sizes DEF Matched, Channel
<1>3. ValidFrames(f) \in Nat /\ AllocdFrames(f) \in Nat
  BY <1>1, Levels, StartIsPointer, Sizes
<1>4. AllocdFrames(f) = ValidFrames(f) + e.inFlight * MF /\ ValidFrames(f) <= AllocdFrames(f)
  BY <1>2, <1>3 DEF Holds
<1>5. /\ h \in [base : {0}, w0 : MfStart, w1 : MfStart, r0 : Pointer]
      /\ h.w0 = f.w0 /\ h.base = f.base
      /\ ValidFrames(h) <= AllocdFrames(h)
      /\ AllocdFrames(h) - ValidFrames(h) = AllocdFrames(f) - ValidFrames(f)
      /\ m \in Nat
  BY <1>1, <1>4, ReadOnce
<1> HIDE DEF h, m
<1>6. /\ g \in [base : {0}, w0 : MfStart, w1 : MfStart, r0 : Pointer]
      /\ g.w0 = h.w0 /\ g.base = h.base
      /\ AllocdFrames(g) - ValidFrames(g) = AllocdFrames(h) - ValidFrames(h)
  BY <1>5, ReadOnce
<1>7. r = [e EXCEPT !.fifo = g, !.flags = {}]
  BY DEF NeedData, ReadFrames, g, h, m
<1> HIDE DEF g, r
<1>8. /\ r \in Channel /\ r.cr = e.cr /\ r.state = e.state /\ r.flags = {}
      /\ r.inFlight = e.inFlight /\ r.fifo = g
  BY <1>6, <1>7 DEF Channel
<1>9. ValidFrames(g) \in Nat /\ AllocdFrames(g) \in Nat
  BY <1>6, Levels, StartIsPointer, Sizes
<1>10. AllocdFrames(g) = ValidFrames(g) + e.inFlight * MF
  BY <1>2, <1>3, <1>4, <1>5, <1>6, <1>9
<1>11. \A i \in 1 .. e.inFlight : OfsToMf(g, g.w0, i) = OfsToMf(f, f.w0, i)
  BY <1>5, <1>6 DEF OfsToMf
<1>12. Matched(r, k)
  BY <1>2, <1>8, <1>10, <1>11 DEF Matched, Holds
<1> QED
  BY <1>8, <1>12 DEF r

-----------------------------------------------------------------------------
(* The steps *)

LEMMA StartTypes == Stopped \in Channel /\ Started \in Channel /\ CoreOff \in Core
<1>1. Stopped \in Channel /\ CoreOff \in Core
  BY ZeroIsStart, StartIsPointer, Sizes
  DEF Stopped, E1fReset, Channel, CoreOff, Core
<1>2. [Stopped EXCEPT !.cr = TRUE, !.state = "BOOT"] \in Channel
  <2> HIDE DEF Stopped
  <2> QED
    BY <1>1 DEF Channel
<1> QED
  BY <1>1, <1>2 DEF Started

LEMMA InvInit == Init => TracerInv
<1> SUFFICES ASSUME Init PROVE TracerInv
  OBVIOUS
<1>1. Stopped \in Channel /\ CoreOff \in Core /\ Matched(Stopped, CoreOff)
  BY StartTypes DEF CoreOff, Matched
<1>2. TypeOK
  BY <1>1 DEF Init, TypeOK
<1>3. ASSUME NEW c \in Chan
      PROVE  Matched(e1[c], core[c]) /\ Powered(c) /\ LossTold(c)
  BY <1>1 DEF Init, Powered, LossTold, Stopped, CoreOff
<1> QED
  BY <1>2, <1>3 DEF TracerInv

\* A step of the core that is on: it keeps its descriptors.
LEMMA CoreStep ==
  ASSUME TracerInv, NEW c \in Chan, NEW k \in Core,
         core[c].on, k.on, k.bds = core[c].bds, k.done \in 0 .. Len(k.bds),
         core' = [core EXCEPT ![c] = k],
         UNCHANGED <<pc, conf, running, full, e1, told>>,
         gap' = gap \/ gap' = [gap EXCEPT ![c] = Mark(@)]
  PROVE  TracerInv'
<1>1. gap' \in [Chan -> {"no", "ahead", "cut"}]
      /\ \A d \in Chan : gap'[d] = "cut" <=> gap[d] = "cut"
  BY DEF TracerInv, TypeOK, Mark
<1>2. TypeOK'
  BY <1>1 DEF TracerInv, TypeOK
<1>3. ASSUME NEW d \in Chan
      PROVE  Matched(e1[d], core[d])' /\ Powered(d)' /\ LossTold(d)'
  <2>1. Matched(e1[d], core[d]) /\ Powered(d) /\ LossTold(d)
    BY DEF TracerInv
  <2>2. core'[d] = IF d = c THEN k ELSE core[d]
    BY DEF TracerInv, TypeOK
  <2>3. Matched(e1[d], core[d])'
    BY <2>1, <2>2 DEF Matched, Holds
  <2>4. core'[d].on = core[d].on
    BY <2>2 DEF TracerInv, TypeOK, Core
  <2>5. Powered(d)'
    BY <2>1, <2>4 DEF Powered
  <2>6. LossTold(d)'
    BY <1>1, <2>1 DEF LossTold, Loud
  <2> QED
    BY <2>3, <2>5, <2>6
<1> QED
  BY <1>2, <1>3 DEF TracerInv

LEMMA CoreIsOn ==
  ASSUME TracerInv, NEW c \in Chan, Aligned(core[c])
  PROVE  core[c].on
<1>1. Matched(e1[c], core[c]) /\ core[c] \in Core
  BY DEF TracerInv, TypeOK
<1> QED
  BY <1>1 DEF Matched, Aligned, CoreOff, Core

LEMMA EnvironmentStep == TracerInv /\ Environment => TracerInv'
<1> SUFFICES ASSUME TracerInv, NEW c \in Chan,
                    CoreDone(c) \/ CoreOverflow(c) \/ LineLost(c) \/ LineUp(c) \/ HostTakes(c)
             PROVE  TracerInv'
  BY DEF Environment
<1> DEFINE k == core[c]
<1>1. core[c] \in Core /\ Matched(e1[c], core[c]) /\ Len(core[c].bds) \in Nat
  BY DEF TracerInv, TypeOK, Core
<1>2. core[c].on => core[c].done \in 0 .. Len(core[c].bds)
  BY <1>1 DEF Matched
<1>3. CASE CoreDone(c)
  <2> DEFINE x == [core[c] EXCEPT !.done = core[c].done + 1]
  <2>1. core[c].on /\ core[c].done < Len(core[c].bds)
    BY <1>3, CoreIsOn DEF CoreDone
  <2>2. x \in Core /\ x.on /\ x.bds = core[c].bds /\ x.done \in 0 .. Len(x.bds)
    BY <1>1, <1>2, <2>1 DEF Core
  <2>3. core' = [core EXCEPT ![c] = x]
    BY <1>3 DEF CoreDone
  <2> HIDE DEF x
  <2>4. UNCHANGED <<pc, conf, running, full, e1, told>> /\ gap' = gap
    BY <1>3 DEF CoreDone
  <2> QED
    BY <2>1, <2>2, <2>3, <2>4, CoreStep
<1>4. CASE CoreOverflow(c)
  <2> DEFINE x == [core[c] EXCEPT !.ovfl = TRUE]
  <2>1. core[c].on
    BY <1>4, CoreIsOn DEF CoreOverflow
  <2>2. x \in Core /\ x.on /\ x.bds = core[c].bds /\ x.done \in 0 .. Len(x.bds)
    BY <1>1, <1>2, <2>1 DEF Core
  <2>3. core' = [core EXCEPT ![c] = x]
    BY <1>4 DEF CoreOverflow
  <2> HIDE DEF x
  <2>4. UNCHANGED <<pc, conf, running, full, e1, told>> /\ gap' = [gap EXCEPT ![c] = Mark(@)]
    BY <1>4 DEF CoreOverflow
  <2> QED
    BY <2>1, <2>2, <2>3, <2>4, CoreStep
<1>5. CASE LineLost(c)
  <2> DEFINE x == [core[c] EXCEPT !.line = "lost"]
  <2>1. core[c].on
    BY <1>5, CoreIsOn DEF LineLost
  <2>2. x \in Core /\ x.on /\ x.bds = core[c].bds /\ x.done \in 0 .. Len(x.bds)
    BY <1>1, <1>2, <2>1 DEF Core
  <2>3. core' = [core EXCEPT ![c] = x]
    BY <1>5 DEF LineLost
  <2> HIDE DEF x
  <2>4. UNCHANGED <<pc, conf, running, full, e1, told>> /\ gap' = [gap EXCEPT ![c] = Mark(@)]
    BY <1>5 DEF LineLost
  <2> QED
    BY <2>1, <2>2, <2>3, <2>4, CoreStep
<1>6. CASE LineUp(c)
  <2> DEFINE x == [core[c] EXCEPT !.line = "up"]
  <2>1. core[c].on
    BY <1>6 DEF LineUp
  <2>2. x \in Core /\ x.on /\ x.bds = core[c].bds /\ x.done \in 0 .. Len(x.bds)
    BY <1>1, <1>2, <2>1 DEF Core
  <2>3. core' = [core EXCEPT ![c] = x]
    BY <1>6 DEF LineUp
  <2> HIDE DEF x
  <2>4. UNCHANGED <<pc, conf, running, full, e1, told>> /\ gap' = gap
    BY <1>6 DEF LineUp
  <2> QED
    BY <2>1, <2>2, <2>3, <2>4, CoreStep
<1>7. CASE HostTakes(c)
  <2>1. TypeOK'
    BY <1>7 DEF TracerInv, TypeOK, HostTakes
  <2>2. UNCHANGED <<pc, conf, running, e1, core, gap, told>>
    BY <1>7 DEF HostTakes
  <2> QED
    BY <2>1, <2>2 DEF TracerInv, Powered, LossTold, Loud
<1> QED
  BY <1>3, <1>4, <1>5, <1>6, <1>7

\* What a request may do to one channel.
LEMMA RequestStep ==
  ASSUME TracerInv, pc = "usb", pc' = "poll", TypeOK',
         NEW c \in Chan,
         \/ UNCHANGED <<e1[c], core[c], running[c], gap[c], told[c]>>
         \/ /\ ~running[c] /\ running'[c] /\ e1'[c] = Started
            /\ core'[c] = WriteCsr(core[c], TRUE) /\ gap'[c] = "no" /\ ~told'[c]
         \/ /\ running[c] /\ ~running'[c] /\ e1'[c] = [e1[c] EXCEPT !.cr = FALSE, !.state = "IDLE"]
            /\ core'[c] = core[c] \/ core'[c] = CoreOff
            /\ core'[c] = core[c] => \E d \in Chan : running'[d]
            /\ gap'[c] = gap[c] /\ told'[c] = told[c]
  PROVE  Matched(e1[c], core[c])' /\ Powered(c)' /\ LossTold(c)'
<1>1. /\ Matched(e1[c], core[c]) /\ Powered(c) /\ LossTold(c)
      /\ e1[c] \in Channel /\ core[c] \in Core /\ running[c] \in BOOLEAN
  BY DEF TracerInv, TypeOK
<1>2. CASE UNCHANGED <<e1[c], core[c], running[c], gap[c], told[c]>>
  <2>1. core[c].on => running[c]
    BY <1>1 DEF Powered
  <2>2. Matched(e1[c], core[c])'
    BY <1>1, <1>2
  <2>3. LossTold(c)'
    BY <1>1, <1>2 DEF LossTold, Loud
  <2>4. Powered(c)'
    BY <1>1, <1>2, <2>1 DEF Powered
  <2> QED
    BY <2>2, <2>3, <2>4
<1>3. CASE /\ ~running[c] /\ running'[c] /\ e1'[c] = Started
           /\ core'[c] = WriteCsr(core[c], TRUE) /\ gap'[c] = "no" /\ ~told'[c]
  <2>1. core[c] = CoreOff
    BY <1>1, <1>3 DEF Powered, Matched
  <2> DEFINE x == [CoreOff EXCEPT !.on = TRUE, !.ovfl = FALSE]
  <2>2. core'[c] = x
    BY <1>3, <2>1 DEF WriteCsr
  <2>3. x.on /\ x.bds = <<>> /\ x.done = 0
    BY DEF CoreOff
  <2> HIDE DEF x
  <2>4. /\ e1'[c].cr /\ e1'[c].state = "BOOT" /\ e1'[c].inFlight = 0
        /\ e1'[c].fifo = E1fReset(0) /\ e1'[c].flags = {}
    BY <1>3 DEF Started, Stopped
  <2>5. AllocdFrames(E1fReset(0)) = ValidFrames(E1fReset(0)) + 0 * MF
    <3>1. AllocdFrames(E1fReset(0)) = ValidFrames(E1fReset(0))
      BY DEF AllocdFrames, ValidFrames, E1fReset
    <3>2. ValidFrames(E1fReset(0)) \in Nat
      BY Sizes, StartIsPointer, ZeroIsStart, Levels DEF E1fReset
    <3> QED
      BY <3>1, <3>2, Sizes
  <2>6. Matched(e1'[c], x)
    BY <2>3, <2>4, <2>5 DEF Matched, Holds
  <2>7. LossTold(c)'
    BY <1>3, <2>4 DEF LossTold
  <2>8. Powered(c)'
    BY <1>3, <2>2, <2>3, <2>4 DEF Powered, TypeOK, Channel
  <2> QED
    BY <2>2, <2>6, <2>7, <2>8
<1>4. CASE /\ running[c] /\ ~running'[c] /\ e1'[c] = [e1[c] EXCEPT !.cr = FALSE, !.state = "IDLE"]
           /\ core'[c] = core[c] \/ core'[c] = CoreOff
           /\ core'[c] = core[c] => \E d \in Chan : running'[d]
           /\ gap'[c] = gap[c] /\ told'[c] = told[c]
  <2>1. /\ e1'[c].cr = FALSE /\ e1'[c].state = "IDLE" /\ e1'[c].fifo = e1[c].fifo
        /\ e1'[c].inFlight = e1[c].inFlight /\ e1'[c].flags = e1[c].flags
    BY <1>1, <1>4 DEF Channel
  <2>2. Matched(e1[c], core[c])'
    BY <1>1, <1>4, <2>1 DEF Matched, Holds, CoreOff
  <2>3. LossTold(c)'
    BY <1>1, <1>4, <2>1 DEF LossTold, Loud
  <2>4. e1'[c].cr = running'[c]
    BY <1>4, <2>1 DEF TypeOK
  <2>5. core'[c].on => \E d \in Chan : running'[d]
    BY <1>4 DEF CoreOff
  <2>6. Powered(c)'
    BY <1>4, <2>1, <2>4, <2>5, Zenon DEF Powered
  <2> QED
    BY <2>2, <2>3, <2>6
<1> QED
  BY <1>2, <1>3, <1>4

LEMMA UsbPollStep == TracerInv /\ UsbPoll => TracerInv'
<1> SUFFICES ASSUME TracerInv, UsbPoll PROVE TracerInv'
  OBVIOUS
<1>1. TypeOK /\ pc = "usb" /\ pc' = "poll" /\ CoreOff \in Core /\ Started \in Channel
  BY StartTypes DEF TracerInv, UsbPoll
<1>2. \A k \in Core : WriteCsr(k, TRUE) \in Core
  BY DEF WriteCsr, Core
<1>3. CASE NoRequest \/ \E k \in 0 .. 2 : SetConf(k)
  <2>1. UNCHANGED <<running, e1, core, gap, told>>
    BY <1>3 DEF NoRequest, SetConf
  <2>2. TypeOK'
    BY <1>1, <1>3, <2>1 DEF NoRequest, SetConf, TypeOK
  <2>3. \A c \in Chan : UNCHANGED <<e1[c], core[c], running[c], gap[c], told[c]>>
    BY <2>1
  <2> QED
    BY <1>1, <2>2, <2>3, RequestStep DEF TracerInv
<1>4. ASSUME NEW intf \in Chan, SetIntf(intf, 1)
      PROVE  TracerInv'
  <2> DEFINE new == {c \in Channels(intf) : ~running[c]}
  <2>1. /\ Enable(Channels(intf)) /\ conf' = conf
    BY <1>4 DEF SetIntf
  <2>2. new \subseteq Chan
    BY DEF Channels, Chan
  <2>3. /\ running' = [c \in Chan |-> running[c] \/ c \in new]
        /\ full' = [c \in Chan |-> IF c \in new THEN 0 ELSE full[c]]
        /\ e1' = [c \in Chan |-> IF c \in new THEN Started ELSE e1[c]]
        /\ core' = [c \in Chan |-> IF c \in new THEN WriteCsr(core[c], TRUE) ELSE core[c]]
        /\ gap' = [c \in Chan |-> IF c \in new THEN "no" ELSE gap[c]]
        /\ told' = [c \in Chan |-> c \notin new /\ told[c]]
    BY <2>1 DEF Enable
  <2>4. \A c \in new : ~running[c]
    OBVIOUS
  <2> HIDE DEF new
  <2>5. TypeOK'
    <3>1. e1' \in [Chan -> Channel] /\ core' \in [Chan -> Core]
      BY <1>1, <1>2, <2>3 DEF TypeOK
    <3>2. gap' \in [Chan -> {"no", "ahead", "cut"}] /\ full' \in [Chan -> 0 .. 2]
      BY <1>1, <2>3 DEF TypeOK
    <3>3. running' \in [Chan -> BOOLEAN] /\ told' \in [Chan -> BOOLEAN]
      BY <2>3
    <3> QED
      BY <1>1, <2>1, <3>1, <3>2, <3>3 DEF TypeOK
  <2>6. ASSUME NEW c \in Chan
        PROVE  \/ UNCHANGED <<e1[c], core[c], running[c], gap[c], told[c]>>
               \/ /\ ~running[c] /\ running'[c] /\ e1'[c] = Started
                  /\ core'[c] = WriteCsr(core[c], TRUE) /\ gap'[c] = "no" /\ ~told'[c]
    <3>1. CASE c \in new
      BY <2>3, <2>4, <3>1
    <3>2. CASE c \notin new
      <4>1. e1'[c] = e1[c] /\ core'[c] = core[c] /\ gap'[c] = gap[c]
        BY <2>3, <3>2
      <4>2. running'[c] = running[c] /\ told'[c] = told[c]
        BY <1>1, <2>3, <3>2 DEF TypeOK
      <4> QED
        BY <4>1, <4>2
    <3> QED
      BY <3>1, <3>2
  <2> QED
    BY <1>1, <2>5, <2>6, RequestStep DEF TracerInv
<1>5. ASSUME NEW intf \in Chan, SetIntf(intf, 0)
      PROVE  TracerInv'
  <2> DEFINE old == {c \in Channels(intf) : running[c]}
             cr0 == e1[0].cr /\ 0 \notin old
  <2>1. /\ Disable(Channels(intf)) /\ conf' = conf
    BY <1>5 DEF SetIntf
  <2>2. /\ running' = [c \in Chan |-> running[c] /\ c \notin old]
        /\ full' = [c \in Chan |-> IF c \in old THEN 0 ELSE full[c]]
        /\ e1' = [c \in Chan |-> IF c \in old THEN [e1[c] EXCEPT !.cr = FALSE, !.state = "IDLE"]
                                              ELSE e1[c]]
        /\ core' = [c \in Chan |-> IF c \in old /\ ~cr0 THEN CoreOff ELSE core[c]]
        /\ UNCHANGED <<gap, told>>
    BY <2>1 DEF Disable
  <2>3. \A c \in old : running[c]
    OBVIOUS
  <2> HIDE DEF old
  <2>4. \A e \in Channel : [e EXCEPT !.cr = FALSE, !.state = "IDLE"] \in Channel
    BY DEF Channel
  <2>5. TypeOK'
    <3>1. e1' \in [Chan -> Channel]
      BY <1>1, <2>2, <2>4 DEF TypeOK
    <3>2. core' \in [Chan -> Core]
      BY <1>1, <2>2 DEF TypeOK
    <3>3. full' \in [Chan -> 0 .. 2]
      <4>1. full \in [Chan -> 0 .. 2] /\ 0 \in 0 .. 2
        BY <1>1 DEF TypeOK
      <4>2. full' = [c \in Chan |-> IF c \in old THEN 0 ELSE full[c]]
        BY <2>2
      <4> QED
        BY <4>1, <4>2
    <3>4. running' \in [Chan -> BOOLEAN]
      BY <2>2
    <3> QED
      BY <1>1, <2>1, <2>2, <3>1, <3>2, <3>3, <3>4 DEF TypeOK
  <2>6. cr0 => \E d \in Chan : running'[d]
    <3>1. 0 \in Chan /\ Powered(0)
      BY DEF TracerInv, Chan
    <3>2. cr0 => running'[0]
      BY <2>2, <3>1 DEF Powered
    <3> QED
      BY <3>1, <3>2
  <2> HIDE DEF cr0
  <2>7. ASSUME NEW c \in Chan
        PROVE  \/ UNCHANGED <<e1[c], core[c], running[c], gap[c], told[c]>>
               \/ /\ running[c] /\ ~running'[c]
                  /\ e1'[c] = [e1[c] EXCEPT !.cr = FALSE, !.state = "IDLE"]
                  /\ core'[c] = core[c] \/ core'[c] = CoreOff
                  /\ core'[c] = core[c] => \E d \in Chan : running'[d]
                  /\ gap'[c] = gap[c] /\ told'[c] = told[c]
    <3>1. CASE c \in old
      <4>1. running[c] /\ ~running'[c] /\ gap'[c] = gap[c] /\ told'[c] = told[c]
        BY <2>2, <2>3, <3>1
      <4>2. e1'[c] = [e1[c] EXCEPT !.cr = FALSE, !.state = "IDLE"]
        BY <2>2, <3>1
      <4>3. core'[c] = IF ~cr0 THEN CoreOff ELSE core[c]
        BY <2>2, <3>1
      <4>4. core[c].on /\ ~CoreOff.on
        BY <4>1 DEF TracerInv, Powered, CoreOff
      <4>5. core'[c] = core[c] => cr0
        BY <4>3, <4>4
      <4>6. core'[c] = core[c] \/ core'[c] = CoreOff
        BY <4>3
      <4> QED
        BY <2>6, <4>1, <4>2, <4>5, <4>6
    <3>2. CASE c \notin old
      <4>1. e1'[c] = e1[c] /\ core'[c] = core[c] /\ gap'[c] = gap[c] /\ told'[c] = told[c]
        BY <2>2, <3>2
      <4>2. running'[c] = running[c]
        BY <1>1, <2>2, <3>2 DEF TypeOK
      <4> QED
        BY <4>1, <4>2
    <3> QED
      BY <3>1, <3>2
  <2> QED
    BY <1>1, <2>5, <2>7, RequestStep DEF TracerInv
<1> QED
  BY <1>3, <1>4, <1>5 DEF UsbPoll

\* e1_poll, as what it does to each channel.
LEMMA PollAtEach ==
  ASSUME PollActive
  PROVE  \E bad \in [Chan -> BOOLEAN] :
           /\ e1' = [c \in Chan |-> Polled(e1[c], core[c], bad[c])]
           /\ core' = [c \in Chan |-> PolledCore(e1[c], core[c], bad[c])]
           /\ \A c \in Chan : gap'[c] # gap[c] =>
                /\ gap'[c] = "cut"
                /\ SeenAt(e1[c], core[c], bad[c]).state = "RECOVER"
                /\ Serves(SeenAt(e1[c], core[c], bad[c]))
           /\ gap' \in [Chan -> {"cut"} \union {gap[c] : c \in Chan}]
<1> DEFINE seen(B) == [c \in Chan |-> Checked(Reaped(e1[c], core[c].done, c \in B), core[c])]
           ready(B) == [c \in Chan |-> Emptied(seen(B)[c])]
           fed(B) == {c \in Chan : Serves(seen(B)[c])}
<1>1. PICK B \in SUBSET {c \in Chan : core[c].done > 0} :
        /\ e1' = [c \in Chan |-> IF c \in fed(B) THEN Filled(ready(B)[c]) ELSE seen(B)[c]]
        /\ core' = [c \in Chan |-> LET k == Seen(Taken(core[c]))
                                   IN  IF c \in fed(B) THEN Fed(k, ready(B)[c]) ELSE k]
        /\ gap' = [c \in Chan |->
                     IF c \in fed(B) /\ seen(B)[c].state = "RECOVER"
                          /\ (gap[c] = "ahead" \/ ValidFrames(seen(B)[c].fifo) > 0)
                     THEN "cut" ELSE gap[c]]
  BY DEF PollActive
<1> DEFINE bad == [c \in Chan |-> c \in B]
<1>2. bad \in [Chan -> BOOLEAN]
  OBVIOUS
<1>3. ASSUME NEW c \in Chan
      PROVE  /\ seen(B)[c] = SeenAt(e1[c], core[c], bad[c])
             /\ ready(B)[c] = Emptied(seen(B)[c])
             /\ c \in fed(B) <=> Serves(SeenAt(e1[c], core[c], bad[c]))
  BY DEF SeenAt
<1> HIDE DEF bad, seen, ready, fed
<1>4. e1' = [c \in Chan |-> Polled(e1[c], core[c], bad[c])]
  BY <1>1, <1>3 DEF Polled
<1>5. core' = [c \in Chan |-> PolledCore(e1[c], core[c], bad[c])]
  BY <1>1, <1>3 DEF PolledCore
<1>6. \A c \in Chan : gap'[c] # gap[c] =>
        /\ gap'[c] = "cut" /\ SeenAt(e1[c], core[c], bad[c]).state = "RECOVER"
        /\ Serves(SeenAt(e1[c], core[c], bad[c]))
  BY <1>1, <1>3
<1>7. gap' \in [Chan -> {"cut"} \union {gap[c] : c \in Chan}]
  BY <1>1
<1> QED
  BY <1>2, <1>4, <1>5, <1>6, <1>7

LEMMA PollStep == TracerInv /\ (PollIdle \/ PollActive) => TracerInv'
<1>1. ASSUME TracerInv, PollIdle PROVE TracerInv'
  <2>1. TypeOK' /\ UNCHANGED <<running, e1, core, gap, told>>
    BY <1>1 DEF TracerInv, TypeOK, PollIdle
  <2>2. ASSUME NEW c \in Chan PROVE Powered(c)'
    <3>1. Powered(c) /\ \A d \in Chan : ~running[d]
      BY <1>1 DEF TracerInv, PollIdle, Quiet, Powered
    <3> QED
      BY <2>1, <3>1 DEF Powered
  <2> QED
    BY <1>1, <2>1, <2>2 DEF TracerInv, LossTold, Loud
<1>2. ASSUME TracerInv, PollActive PROVE TracerInv'
  <2>1. PICK bad \in [Chan -> BOOLEAN] :
          /\ e1' = [c \in Chan |-> Polled(e1[c], core[c], bad[c])]
          /\ core' = [c \in Chan |-> PolledCore(e1[c], core[c], bad[c])]
          /\ \A c \in Chan : gap'[c] # gap[c] =>
               /\ gap'[c] = "cut" /\ SeenAt(e1[c], core[c], bad[c]).state = "RECOVER"
               /\ Serves(SeenAt(e1[c], core[c], bad[c]))
          /\ gap' \in [Chan -> {"cut"} \union {gap[c] : c \in Chan}]
    BY <1>2, PollAtEach
  <2>2. UNCHANGED <<conf, running, full, told>> /\ pc' = "run"
    BY <1>2 DEF PollActive
  <2>3. ASSUME NEW c \in Chan
        PROVE  LET s == SeenAt(e1[c], core[c], bad[c])
               IN  /\ e1'[c] \in Channel /\ core'[c] \in Core /\ Matched(e1'[c], core'[c])
                   /\ e1'[c].cr = e1[c].cr /\ core'[c].on = e1[c].cr
                   /\ e1'[c].flags = s.flags /\ e1[c].flags \subseteq s.flags
                   /\ e1'[c].state = "IDLE" => e1[c].state = "IDLE"
                   /\ e1'[c].state = "RECOVER" => s.state = "RECOVER" /\ ~Serves(s)
                   /\ s.state = "RECOVER" =>
                        e1[c].state = "RECOVER" \/ s.flags \intersect LoudFlags # {}
    <3>1. /\ e1[c] \in Channel /\ core[c] \in Core /\ Matched(e1[c], core[c]) /\ bad[c] \in BOOLEAN
          /\ e1[c].cr => core[c].on
          /\ core[c].on /\ ~e1[c].cr => e1[c].state = "IDLE"
      BY <1>2 DEF TracerInv, TypeOK, Powered
    <3>2. e1'[c] = Polled(e1[c], core[c], bad[c]) /\ core'[c] = PolledCore(e1[c], core[c], bad[c])
      BY <2>1
    <3> QED
      BY <3>1, <3>2, PollMatched
  <2>4. TypeOK'
    <3>1. e1' \in [Chan -> Channel] /\ core' \in [Chan -> Core]
      BY <2>1, <2>3
    <3>2. gap' \in [Chan -> {"no", "ahead", "cut"}]
      BY <1>2, <2>1 DEF TracerInv, TypeOK
    <3> QED
      BY <1>2, <2>2, <3>1, <3>2 DEF TracerInv, TypeOK
  <2>5. ASSUME NEW c \in Chan
        PROVE  Powered(c)' /\ LossTold(c)'
    <3> DEFINE s == SeenAt(e1[c], core[c], bad[c])
    <3>1. /\ e1'[c].cr = e1[c].cr /\ core'[c].on = e1[c].cr
          /\ e1'[c].flags = s.flags /\ e1[c].flags \subseteq s.flags
          /\ e1'[c].state = "IDLE" => e1[c].state = "IDLE"
          /\ e1'[c].state = "RECOVER" => s.state = "RECOVER" /\ ~Serves(s)
          /\ s.state = "RECOVER" => e1[c].state = "RECOVER" \/ s.flags \intersect LoudFlags # {}
      BY <2>3
    <3>2. /\ Powered(c) /\ LossTold(c)
          /\ gap'[c] # gap[c] => gap'[c] = "cut" /\ s.state = "RECOVER" /\ Serves(s)
      BY <1>2, <2>1 DEF TracerInv
    <3>3. told'[c] = told[c] /\ running'[c] = running[c]
      BY <2>2
    <3> HIDE DEF s
    <3>4. Powered(c)'
      BY <3>1, <3>2, <3>3 DEF Powered
    <3>5. Loud(c) => Loud(c)'
      BY <3>1 DEF Loud
    <3>6. s.state = "RECOVER" => Loud(c)' \/ e1[c].state = "RECOVER"
      BY <3>1 DEF Loud, LoudFlags
    <3>7. (gap[c] = "cut" => told[c] \/ Loud(c)')
      BY <3>2, <3>5 DEF LossTold
    <3>8. e1[c].state = "RECOVER" => Loud(c)' \/ told[c]
      BY <3>2, <3>5 DEF LossTold
    <3>9. gap'[c] = "cut" => told'[c] \/ Loud(c)'
      BY <3>2, <3>3, <3>6, <3>7, <3>8
    <3>10. e1'[c].state = "RECOVER" => Loud(c)' \/ (told'[c] /\ gap'[c] # "cut")
      BY <3>1, <3>2, <3>3, <3>5, <3>6 DEF LossTold
    <3> QED
      BY <3>4, <3>9, <3>10 DEF LossTold
  <2> QED
    BY <2>3, <2>4, <2>5 DEF TracerInv
<1> QED
  BY <1>1, <1>2

LEMMA RunStep == TracerInv /\ ((\E c \in Chan : SendPacket(c)) \/ RunDone) => TracerInv'
<1>1. ASSUME TracerInv, NEW c \in Chan, SendPacket(c) PROVE TracerInv'
  <2> DEFINE e == NeedData(e1[c])
  <2>1. /\ pc = "run" /\ running[c] /\ full[c] < 2 /\ full' = [full EXCEPT ![c] = @ + 1]
        /\ e1' = [e1 EXCEPT ![c] = e]
        /\ gap' = [gap EXCEPT ![c] = IF @ = "cut" THEN "no" ELSE @]
        /\ told' = [told EXCEPT ![c] = Loud(c) \/ (@ /\ gap[c] # "cut")]
        /\ UNCHANGED <<pc, conf, running, core>>
    BY <1>1 DEF SendPacket, CanSend
  <2>2. e1[c] \in Channel /\ core[c] \in Core /\ Matched(e1[c], core[c]) /\ core[c].on
    BY <1>1, <2>1 DEF TracerInv, TypeOK, Powered
  <2>3. /\ e \in Channel /\ Matched(e, core[c])
        /\ e.cr = e1[c].cr /\ e.state = e1[c].state /\ e.flags = {}
    BY <2>2, ReadMatched
  <2> HIDE DEF e
  <2>4. TypeOK'
    <3>1. TypeOK
      BY <1>1 DEF TracerInv
    <3>2. e1' \in [Chan -> Channel]
      BY <2>1, <2>3, <3>1 DEF TypeOK
    <3>3. gap' \in [Chan -> {"no", "ahead", "cut"}]
      BY <2>1, <3>1 DEF TypeOK
    <3>4. told' \in [Chan -> BOOLEAN]
      BY <2>1, <3>1 DEF TypeOK, Loud
    <3>5. full' \in [Chan -> 0 .. 2]
      BY <2>1, <3>1 DEF TypeOK
    <3> QED
      BY <2>1, <3>1, <3>2, <3>3, <3>4, <3>5 DEF TypeOK
  <2>5. ASSUME NEW d \in Chan
        PROVE  Matched(e1[d], core[d])' /\ Powered(d)' /\ LossTold(d)'
    <3>1. /\ Matched(e1[d], core[d]) /\ Powered(d) /\ LossTold(d)
          /\ e1 \in [Chan -> Channel] /\ gap \in [Chan -> {"no", "ahead", "cut"}]
          /\ told \in [Chan -> BOOLEAN]
      BY <1>1 DEF TracerInv, TypeOK
    <3>2. CASE d = c
      <4>1. e1'[d] = e
        BY <2>1, <3>1, <3>2
      <4>2. Matched(e1[d], core[d])' /\ Powered(d)'
        BY <2>1, <2>3, <3>1, <3>2, <4>1 DEF Powered
      <4>3. gap'[d] # "cut"
        BY <2>1, <3>1, <3>2
      <4>4. told'[d] = (Loud(d) \/ (told[d] /\ gap[d] # "cut"))
        BY <2>1, <3>1, <3>2
      <4>5. LossTold(d)'
        BY <2>3, <3>1, <3>2, <4>1, <4>3, <4>4 DEF LossTold
      <4> QED
        BY <4>2, <4>5
    <3>3. CASE d # c
      <4>1. e1'[d] = e1[d] /\ gap'[d] = gap[d] /\ told'[d] = told[d]
        BY <2>1, <3>1, <3>3
      <4> QED
        BY <2>1, <3>1, <4>1 DEF Powered, LossTold, Loud
    <3> QED
      BY <3>2, <3>3
  <2> QED
    BY <2>4, <2>5 DEF TracerInv
<1>2. ASSUME TracerInv, RunDone PROVE TracerInv'
  <2>1. TypeOK' /\ UNCHANGED <<running, e1, core, gap, told>> /\ pc = "run"
    BY <1>2 DEF TracerInv, TypeOK, RunDone
  <2> QED
    BY <1>2, <2>1 DEF TracerInv, Powered, LossTold, Loud
<1> QED
  BY <1>1, <1>2

LEMMA InvStep == TracerInv /\ [Next]_vars => TracerInv'
<1>1. TracerInv /\ UNCHANGED vars => TracerInv'
  BY DEF vars, TracerInv, TypeOK, Powered, LossTold, Loud
<1> QED
  BY <1>1, UsbPollStep, PollStep, RunStep, EnvironmentStep DEF Next, MainLoop

-----------------------------------------------------------------------------
(* Results *)

\* The inductive invariant, for every zone, descriptor budget and packet size.
THEOREM TracerInvariant == Spec => []TracerInv
  BY InvInit, InvStep, PTL DEF Spec

\* A selected channel and its core agree, descriptor by descriptor.
THEOREM SlotsAgree == Spec => []SlotsInOrder
<1>1. TracerInv => SlotsInOrder
  BY DEF TracerInv, Powered, Matched, Holds, SlotsInOrder, RxLevel
<1> QED
  BY <1>1, TracerInvariant, PTL

\* The core of a deselected channel is off when the main loop comes round.
THEOREM StopsCore == Spec => []StoppedIsOff
<1>1. TracerInv => StoppedIsOff
  BY DEF TracerInv, Powered, StoppedIsOff
<1> QED
  BY <1>1, TracerInvariant, PTL

\* The host learns of every loss, no later than with the first packet after it.
THEOREM LossIsAnnounced == Spec => LossAnnounced
<1>1. TracerInv =>
        [\A c \in Chan : full'[c] > full[c] /\ gap[c] = "cut" => told[c] \/ Loud(c)]_vars
  BY DEF TracerInv, LossTold
<1> QED
  BY <1>1, TracerInvariant, PTL DEF LossAnnounced

=============================================================================
