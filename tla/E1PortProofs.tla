---------------------------- MODULE E1PortProofs ----------------------------
(***************************************************************************)
(* Proofs about E1Port, for every size of the FIFO zones, every number of  *)
(* descriptors and every packet size.                                      *)
(*                                                                         *)
(* PortInv is split into what is said of the receive side, of the transmit *)
(* side, and of the control state, as almost every action disturbs only    *)
(* one of them.  The refinement of E1Channel comes last.                   *)
(***************************************************************************)
EXTENDS E1Port, E1FifoTheorems

RxPart == RxType /\ RxPointers /\ RxInOrder
TxPart == TxType /\ TxPointers /\ TxInOrder
CtlPart == CtlType /\ IdleDrained /\ UpWhileRunning

-----------------------------------------------------------------------------
(* Slots *)

\* Counting slots from the next multiframe is counting one further.
LEMMA SlotNext ==
  ASSUME NEW p \in Pointer, NEW k \in Nat \ {0}
  PROVE  Slot((p + MF) % FifoLen, k) = Slot(p, k + 1)
<1>1. MF \in Nat /\ MF \in 0 .. FifoLen /\ (k - 1) * MF \in Int
  BY LenFacts
<1>2. (((p + MF) % FifoLen) + (k - 1) * MF) % FifoLen = (p + (MF + (k - 1) * MF)) % FifoLen
  BY <1>1, AdvanceTwice
<1>3. MF + (k - 1) * MF = ((k + 1) - 1) * MF
  BY <1>1
<1> QED
  BY <1>2, <1>3 DEF Slot

\* The slot after n slots is reached when a pointer is n multiframes ahead.
LEMMA SlotAtDistance ==
  ASSUME NEW p \in Pointer, NEW q \in Pointer, NEW n \in Nat,
         (q - p) % FifoLen = n * MF
  PROVE  Slot(p, n + 1) = q
<1> DEFINE m == n * MF
<1>1. FifoLen \in Nat \ {0} /\ p \in 0 .. FifoLen - 1 /\ q \in 0 .. FifoLen - 1 /\ MF \in Nat
  BY LenFacts DEF Pointer
<1>2. m \in Nat /\ ((n + 1) - 1) * MF = m
  BY <1>1
<1> HIDE DEF m
<1>3. m = IF q >= p THEN q - p ELSE q - p + FifoLen
  BY Distance DEF m
<1>4. m \in 0 .. FifoLen
  BY <1>1, <1>3
<1>5. (p + m) % FifoLen = IF p + m < FifoLen THEN p + m ELSE p + m - FifoLen
  BY <1>4, Advance
<1>6. (p + m) % FifoLen = q
  BY <1>1, <1>3, <1>5
<1> QED
  BY <1>2, <1>6 DEF Slot

\* A descriptor in the middle of the slots lent from p on.
LEMMA SlotDistance ==
  ASSUME NEW p \in Pointer, NEW k \in Nat \ {0}, NEW i \in 0 .. MF - 1,
         (k - 1) * MF + i < FifoLen
  PROVE  /\ Slot(p, k) \in Pointer
         /\ ((Slot(p, k) + i) - p) % FifoLen = (k - 1) * MF + i
<1> DEFINE m == (k - 1) * MF
           s == (p + m) % FifoLen
<1>1. FifoLen \in Nat \ {0} /\ p \in 0 .. FifoLen - 1 /\ MF \in Nat \ {0} /\ i \in 0 .. MF - 1
  BY LenFacts DEF Pointer
<1>2. m \in Nat /\ m + i < FifoLen
  BY <1>1
<1> HIDE DEF m
<1>3. s = IF p + m < FifoLen THEN p + m ELSE p + m - FifoLen
  BY <1>1, <1>2, Advance
<1>4. s \in Pointer
  BY <1>1, <1>2, <1>3 DEF Pointer
<1>5. ((s + i) - p) % FifoLen = m + i
  <2>1. CASE p + m < FifoLen
    <3>1. (s + i) - p = m + i
      BY <1>1, <1>2, <1>3, <2>1
    <3>2. m + i \in 0 .. FifoLen - 1
      BY <1>1, <1>2
    <3> QED
      BY <1>1, <3>1, <3>2, ModOn
  <2>2. CASE ~(p + m < FifoLen)
    <3>1. (s + i) - p = (m + i) - FifoLen
      BY <1>1, <1>2, <1>3, <2>2
    <3>2. (m + i) - FifoLen \in -FifoLen .. -1
      BY <1>1, <1>2
    <3>3. ((m + i) - FifoLen) % FifoLen = ((m + i) - FifoLen) + FifoLen
      BY <1>1, <3>2, ModBelow
    <3> QED
      BY <1>1, <1>2, <3>1, <3>3
  <2> QED
    BY <2>1, <2>2
<1>6. Slot(p, k) = s
  BY DEF Slot, m
<1> QED
  BY <1>4, <1>5, <1>6 DEF m

-----------------------------------------------------------------------------
(* The transmit side *)

\* What the transmit invariant says once its pointers are known to be in the
\* zone.
LEMMA TxFacts ==
  ASSUME TxPart
  PROVE  /\ FifoLen \in Nat \ {0} /\ MF \in Nat \ {0}
         /\ txInFlight \in Nat /\ txInFlight * MF \in Nat
         /\ txFifo \in Fifo
         /\ txFifo.w0 \in Pointer /\ txFifo.w1 = txFifo.w0
         /\ txFifo.r0 \in Pointer /\ txFifo.r1 \in Pointer
         /\ Valid(txFifo) \in 0 .. FifoLen - 1 /\ Unseen(txFifo) \in 0 .. FifoLen - 1
         /\ Unseen(txFifo) <= Valid(txFifo)
         /\ Free(txFifo) = FifoLen - 1 - Valid(txFifo)
<1>1. FifoLen \in Nat \ {0} /\ MF \in Nat \ {0}
  BY LenFacts
<1>2. txInFlight \in Nat
  BY DEF TxPart, TxType
<1>3. txInFlight * MF \in Nat
  BY <1>1, <1>2
<1>4. /\ txFifo \in Fifo /\ txFifo.w0 \in Pointer /\ txFifo.w1 = txFifo.w0
      /\ txFifo.r0 \in Pointer /\ txFifo.r1 \in Pointer
  BY MfStartFacts DEF TxPart, TxType, TxPointers
<1>5. Valid(txFifo) \in 0 .. FifoLen - 1 /\ Unseen(txFifo) \in 0 .. FifoLen - 1
  BY <1>4, LevelTypes DEF Pointer
<1>6. Valid(txFifo) = Unseen(txFifo) + txInFlight * MF
  BY DEF TxPart, TxInOrder
<1>7. Unseen(txFifo) <= Valid(txFifo)
  BY <1>3, <1>5, <1>6
<1>8. Free(txFifo) = FifoLen - 1 - Valid(txFifo)
  BY <1>4, FreeIsRest DEF Allocd, Valid
<1> QED
  BY <1>1, <1>2, <1>3, <1>4, <1>5, <1>7, <1>8

\* Steps that leave the FIFO and the descriptors alone.
LEMMA TxKept ==
  ASSUME TxPart, UNCHANGED <<txFifo, txInFlight, txBds>>,
         txDone' \in 0 .. txInFlight, txUnfl' \in BOOLEAN
  PROVE  TxPart'
  BY DEF TxPart, TxType, TxPointers, TxInOrder, Valid, Unseen

LEMMA TxReset ==
  ASSUME TxPart, txInFlight = 0, txFifo' = Reset,
         UNCHANGED <<txInFlight, txBds, txDone>>, txUnfl' \in BOOLEAN
  PROVE  TxPart'
<1>1. FifoLen \in Nat \ {0} /\ MF \in Nat \ {0}
  BY LenFacts
<1>2. Reset \in Fifo /\ 0 \in Pointer
  BY <1>1 DEF Reset, Fifo, Pointer
<1>3. TxType'
  BY <1>2 DEF TxPart, TxType
<1>4. TxPointers'
  BY <1>2, ZeroIsMfStart DEF TxPointers, Reset
<1>5. Valid(Reset) = Unseen(Reset)
  BY DEF Valid, Unseen, Reset
<1>6. Unseen(Reset) \in Int
  BY <1>1, <1>2, LevelTypes DEF Pointer
<1>7. TxInOrder'
  BY <1>1, <1>5, <1>6 DEF TxInOrder
<1> QED
  BY <1>3, <1>4, <1>7 DEF TxPart

LEMMA TxFeed ==
  ASSUME TxPart, NEW n \in 1 .. MaxChunk, FeedData(n)
  PROVE  TxPart'
<1> DEFINE g == WriteFrames(txFifo, n)
<1>1. n \in Nat
  BY PortAssumption, LenFacts
<1>2. /\ g \in Fifo /\ g.w0 = g.w1 /\ g.w0 \in Pointer
      /\ g.r0 = txFifo.r0 /\ g.r1 = txFifo.r1
      /\ Valid(g) - Unseen(g) = Valid(txFifo) - Unseen(txFifo)
  BY <1>1, TxFacts, WriteFramesLevels
<1>3. txFifo' = g /\ UNCHANGED <<txInFlight, txBds, txDone, txUnfl>>
  BY DEF FeedData, txCore
<1> HIDE DEF g
<1>4. TxType'
  BY <1>2, <1>3 DEF TxPart, TxType
<1>5. TxPointers'
  BY <1>2, <1>3 DEF TxPart, TxPointers
<1>6. Valid(g) = Unseen(g) + txInFlight * MF
  <2>1. Valid(g) \in Int /\ Unseen(g) \in Int
    BY <1>2, LevelTypes, LenFacts DEF Pointer
  <2>2. Valid(txFifo) = Unseen(txFifo) + txInFlight * MF
    BY DEF TxPart, TxInOrder
  <2> QED
    BY <1>2, <2>1, <2>2, TxFacts
<1>7. TxInOrder'
  BY <1>2, <1>3, <1>6 DEF TxPart, TxInOrder
<1> QED
  BY <1>4, <1>5, <1>7 DEF TxPart

LEMMA TxReap ==
  ASSUME TxPart, ReapTx
  PROVE  TxPart'
<1> DEFINE f == txFifo
           g == Discard(txFifo)
           r == (txFifo.r0 + MF) % FifoLen
           n == txInFlight
<1>1. /\ txFifo' = g /\ txInFlight' = n - 1 /\ txBds' = Tail(txBds)
      /\ txDone' = txDone - 1 /\ txUnfl' = txUnfl /\ txDone > 0
  BY DEF ReapTx
<1>2. n \in Nat \ {0} /\ txDone \in 1 .. n /\ txBds \in Seq(DataOfs) /\ Len(txBds) = n
  BY <1>1 DEF TxPart, TxType
<1>3. r \in MfStart /\ r \in 0 .. FifoLen
  BY MfStartNext, MfStartFacts, LenFacts DEF TxPart, TxPointers, Pointer
<1>4. g \in Fifo /\ g.w0 = f.w0 /\ g.w1 = f.w1 /\ g.r0 = r /\ g.r1 = f.r1
  BY <1>3, TxFacts DEF Fifo, Discard
<1>5. /\ Len(Tail(txBds)) = n - 1 /\ Tail(txBds) \in Seq(DataOfs)
      /\ \A k \in 1 .. n - 1 : Tail(txBds)[k] = txBds[k + 1]
  BY <1>2
<1>6. TxType'
  BY <1>1, <1>2, <1>4, <1>5, PortAssumption DEF TxPart, TxType
<1>7. TxPointers'
  BY <1>1, <1>3, <1>4 DEF TxPart, TxPointers
<1>8. Valid(g) = Unseen(g) + (n - 1) * MF
  <2>1. Valid(f) = Unseen(f) + n * MF
    BY DEF TxPart, TxInOrder
  <2>2. n * MF = (n - 1) * MF + MF /\ (n - 1) * MF \in Nat
    BY <1>2, LenFacts
  <2>3. MF <= Valid(f)
    BY <2>1, <2>2, TxFacts
  <2>4. (f.w0 - r) % FifoLen = ((f.w0 - f.r0) % FifoLen) - MF
    BY <2>3, TxFacts, DistanceDown DEF Valid
  <2>5. Valid(g) = Valid(f) - MF /\ Unseen(g) = Unseen(f)
    BY <1>4, <2>4 DEF Valid, Unseen
  <2> QED
    BY <2>1, <2>2, <2>5, TxFacts
<1>9. \A k \in 1 .. n - 1 : Tail(txBds)[k] = TxBase + Slot(g.r0, k)
  <2> TAKE k \in 1 .. n - 1
  <2>1. k \in Nat \ {0} /\ k + 1 \in 1 .. n
    BY <1>2
  <2>2. txBds[k + 1] = TxBase + Slot(f.r0, k + 1)
    BY <2>1 DEF TxPart, TxInOrder
  <2>3. Slot(f.r0, k + 1) = Slot(r, k)
    BY <2>1, SlotNext, TxFacts
  <2> QED
    BY <1>4, <1>5, <2>2, <2>3
<1>10. TxInOrder'
  BY <1>1, <1>8, <1>9 DEF TxInOrder
<1> QED
  BY <1>6, <1>7, <1>10 DEF TxPart

LEMMA TxSubmit ==
  ASSUME TxPart, TxFill
  PROVE  TxPart'
<1> DEFINE f == txFifo
           g == Peek(txFifo)
           r == (txFifo.r1 + MF) % FifoLen
           n == txInFlight
           bd == TxBase + f.r1
<1>1. /\ txFifo' = g /\ txInFlight' = n + 1 /\ txBds' = Append(txBds, bd)
      /\ txDone' = txDone /\ txUnfl' = txUnfl
      /\ n < MaxInFlight /\ MF <= Unseen(f)
  BY DEF TxFill, TxMayFill, CanPeek
<1>2. n \in Nat /\ txDone \in 0 .. n /\ txBds \in Seq(DataOfs) /\ Len(txBds) = n
  BY DEF TxPart, TxType
<1>3. r \in MfStart /\ r \in 0 .. FifoLen
  BY MfStartNext, MfStartFacts, LenFacts DEF TxPart, TxPointers, Pointer
<1>4. g \in Fifo /\ g.w0 = f.w0 /\ g.w1 = f.w1 /\ g.r0 = f.r0 /\ g.r1 = r
  BY <1>3, TxFacts DEF Fifo, Peek
<1>5. bd \in DataOfs
  BY TxFacts DEF TxBase, DataOfs, Pointer
<1>6. /\ Len(Append(txBds, bd)) = n + 1 /\ Append(txBds, bd) \in Seq(DataOfs)
      /\ \A k \in 1 .. n : Append(txBds, bd)[k] = txBds[k]
      /\ Append(txBds, bd)[n + 1] = bd
  BY <1>2, <1>5
<1>7. TxType'
  BY <1>1, <1>2, <1>4, <1>6, PortAssumption DEF TxPart, TxType
<1>8. TxPointers'
  BY <1>1, <1>3, <1>4 DEF TxPart, TxPointers
<1>9. Valid(f) = Unseen(f) + n * MF
  BY DEF TxPart, TxInOrder
<1>10. Valid(g) = Unseen(g) + (n + 1) * MF
  <2>1. (f.w0 - r) % FifoLen = ((f.w0 - f.r1) % FifoLen) - MF
    BY <1>1, TxFacts, DistanceDown DEF Unseen
  <2>2. Valid(g) = Valid(f) /\ Unseen(g) = Unseen(f) - MF
    BY <1>4, <2>1 DEF Valid, Unseen
  <2>3. (n + 1) * MF = n * MF + MF
    BY <1>2, LenFacts
  <2> QED
    BY <1>9, <2>2, <2>3, TxFacts
<1>11. \A k \in 1 .. n + 1 : Append(txBds, bd)[k] = TxBase + Slot(f.r0, k)
  <2>1. Slot(f.r0, n + 1) = f.r1
    <3>1. (f.w0 - f.r0) % FifoLen = ((f.w0 - f.r1) % FifoLen) + n * MF
      BY <1>9 DEF Valid, Unseen
    <3>2. (f.r1 - f.r0) % FifoLen = n * MF
      BY <3>1, TxFacts, DistanceSplit
    <3> QED
      BY <1>2, <3>2, TxFacts, SlotAtDistance
  <2> TAKE k \in 1 .. n + 1
  <2>2. CASE k \in 1 .. n
    BY <1>6, <2>2 DEF TxPart, TxInOrder
  <2>3. CASE k = n + 1
    BY <1>6, <2>1, <2>3
  <2> QED
    BY <1>2, <2>2, <2>3
<1>12. TxInOrder'
  BY <1>1, <1>4, <1>10, <1>11 DEF TxInOrder
<1> QED
  BY <1>7, <1>8, <1>12 DEF TxPart

\* The slots in the core are apart from where USB writes next.
LEMMA TxPartApart ==
  ASSUME TxPart
  PROVE  TxNotShared
<1> SUFFICES ASSUME NEW k \in 1 .. txInFlight, NEW i \in 0 .. MF - 1
             PROVE  ~Writable(txFifo, txBds[k] - TxBase + i)
  BY DEF TxNotShared
<1> DEFINE f == txFifo
           s == Slot(f.r0, k)
           d == (k - 1) * MF + i
           V == Valid(f)
<1>1. /\ k \in Nat \ {0} /\ k <= txInFlight /\ txInFlight \in Nat
      /\ MF \in Nat \ {0} /\ FifoLen \in Nat \ {0}
      /\ f.r0 \in Pointer /\ f.w0 \in Pointer /\ f.w1 = f.w0
      /\ V \in 0 .. FifoLen - 1 /\ Free(f) = FifoLen - 1 - V
  BY TxFacts
<1>2. d \in Nat /\ d < V
  <2>1. (k - 1) * MF + MF = k * MF /\ (k - 1) * MF \in Nat
    BY <1>1
  <2>2. k * MF <= txInFlight * MF
    BY <1>1
  <2>3. txInFlight * MF <= V
    BY TxFacts DEF TxPart, TxInOrder
  <2> QED
    BY <1>1, <2>1, <2>2, <2>3
<1>3. s \in Pointer /\ ((s + i) - f.r0) % FifoLen = d
  BY <1>1, <1>2, SlotDistance
<1>4. txBds[k] = TxBase + s
  BY DEF TxPart, TxInOrder
<1>5. txBds[k] - TxBase + i = s + i
  BY <1>1, <1>3, <1>4 DEF Pointer, TxBase
<1> HIDE DEF s, d, V
<1>6. ((s + i) - f.w1) % FifoLen = (d - V) + FifoLen
  <2> DEFINE x == s + i
  <2>1. x \in Nat /\ x < 2 * FifoLen
    BY <1>1, <1>3, LenFacts DEF Pointer
  <2>2. V = (f.w0 - f.r0) % FifoLen
    BY DEF V, Valid
  <2>3. (x - f.r0) % FifoLen = d /\ d < (f.w0 - f.r0) % FifoLen
    BY <1>2, <1>3, <2>2
  <2> HIDE DEF x
  <2>4. (x - f.w0) % FifoLen = (d - ((f.w0 - f.r0) % FifoLen)) + FifoLen
    BY <1>1, <1>2, <2>1, <2>3, DistanceBetween
  <2> QED
    BY <1>1, <2>2, <2>4 DEF x
<1> QED
  BY <1>1, <1>2, <1>5, <1>6 DEF Writable

-----------------------------------------------------------------------------
(* The receive side.  Once a restart has cut the head of the FIFO only the *)
(* types are left to preserve.                                             *)

\* What the receive invariant says once its pointers are known to be in the
\* zone.
LEMMA RxFacts ==
  ASSUME RxPart, ~pruned
  PROVE  /\ FifoLen \in Nat \ {0} /\ MF \in Nat \ {0}
         /\ rxInFlight \in Nat /\ rxInFlight * MF \in Nat
         /\ rxFifo \in Fifo
         /\ rxFifo.r0 \in Pointer /\ rxFifo.r1 = rxFifo.r0
         /\ rxFifo.w0 \in Pointer /\ rxFifo.w1 \in Pointer
         /\ Valid(rxFifo) \in 0 .. FifoLen - 1 /\ Allocd(rxFifo) \in 0 .. FifoLen - 1
         /\ Allocd(rxFifo) = Valid(rxFifo) + rxInFlight * MF
         /\ Valid(rxFifo) <= Allocd(rxFifo)
         /\ Free(rxFifo) = FifoLen - 1 - Allocd(rxFifo)
<1>1. FifoLen \in Nat \ {0} /\ MF \in Nat \ {0}
  BY LenFacts
<1>2. rxInFlight \in Nat
  BY DEF RxPart, RxType
<1>3. rxInFlight * MF \in Nat
  BY <1>1, <1>2
<1>4. /\ rxFifo \in Fifo /\ rxFifo.r0 \in Pointer /\ rxFifo.r1 = rxFifo.r0
      /\ rxFifo.w0 \in Pointer /\ rxFifo.w1 \in Pointer
  BY MfStartFacts DEF RxPart, RxType, RxPointers
<1>5. Valid(rxFifo) \in 0 .. FifoLen - 1 /\ Allocd(rxFifo) \in 0 .. FifoLen - 1
  BY <1>4, LevelTypes DEF Pointer
<1>6. Allocd(rxFifo) = Valid(rxFifo) + rxInFlight * MF
  BY DEF RxPart, RxInOrder
<1>7. Valid(rxFifo) <= Allocd(rxFifo)
  BY <1>3, <1>5, <1>6
<1>8. Free(rxFifo) = FifoLen - 1 - Allocd(rxFifo)
  BY <1>4, FreeIsRest
<1> QED
  BY <1>1, <1>2, <1>3, <1>4, <1>5, <1>6, <1>7, <1>8

LEMMA RxTypesSuffice ==
  ASSUME RxType', pruned'
  PROVE  RxPart'
  BY DEF RxPart, RxPointers, RxInOrder

\* Steps that leave the FIFO and the descriptors alone.
LEMMA RxKept ==
  ASSUME RxPart, UNCHANGED <<rxFifo, rxInFlight, rxBds, pruned>>,
         rxDone' \in 0 .. rxInFlight, rxOvfl' \in BOOLEAN
  PROVE  RxPart'
  BY DEF RxPart, RxType, RxPointers, RxInOrder, Valid, Allocd

LEMMA RxReset ==
  ASSUME RxPart, rxInFlight = 0, rxFifo' = Reset,
         UNCHANGED <<rxInFlight, rxBds, rxDone>>, rxOvfl' \in BOOLEAN
  PROVE  RxPart'
<1>1. FifoLen \in Nat \ {0} /\ MF \in Nat \ {0}
  BY LenFacts
<1>2. Reset \in Fifo /\ 0 \in Pointer
  BY <1>1 DEF Reset, Fifo, Pointer
<1>3. RxType'
  BY <1>2 DEF RxPart, RxType
<1>4. RxPointers'
  BY <1>2, ZeroIsMfStart DEF RxPointers, Reset
<1>5. Valid(Reset) = Allocd(Reset)
  BY DEF Valid, Allocd, Reset
<1>6. Allocd(Reset) \in Int
  BY <1>1, <1>2, LevelTypes DEF Pointer
<1>7. RxInOrder'
  BY <1>1, <1>5, <1>6 DEF RxInOrder
<1> QED
  BY <1>3, <1>4, <1>7 DEF RxPart

LEMMA RxRead ==
  ASSUME RxPart, NEW n \in 1 .. MaxChunk, NeedData(n)
  PROVE  RxPart'
<1> DEFINE g == ReadFrames(rxFifo, n)
<1>1. n \in Nat /\ n \in Int
  BY PortAssumption, LenFacts
<1>2. rxFifo' = g /\ UNCHANGED <<rxInFlight, rxBds, rxDone, rxOvfl, pruned>>
  BY DEF NeedData, rxCore
<1>3. rxFifo \in Fifo
  BY DEF RxPart, RxType
<1>4. g \in Fifo
  BY <1>1, <1>3, ReadFramesType
<1> HIDE DEF g
<1>5. RxType'
  BY <1>2, <1>4 DEF RxPart, RxType
<1>6. CASE pruned
  BY <1>2, <1>5, <1>6, RxTypesSuffice
<1>7. CASE ~pruned
  <2>1. /\ g.r0 = g.r1 /\ g.r0 \in Pointer
        /\ g.w0 = rxFifo.w0 /\ g.w1 = rxFifo.w1
        /\ Allocd(g) - Valid(g) = Allocd(rxFifo) - Valid(rxFifo)
    BY <1>1, <1>7, RxFacts, ReadFramesLevels DEF g
  <2>2. RxPointers'
    BY <1>2, <1>7, <2>1 DEF RxPart, RxPointers
  <2>3. Allocd(g) = Valid(g) + rxInFlight * MF
    <3>1. Valid(g) \in Int /\ Allocd(g) \in Int
      BY <1>4, LevelTypes, LenFacts DEF Pointer
    <3> QED
      BY <1>7, <2>1, <3>1, RxFacts
  <2>4. RxInOrder'
    BY <1>2, <1>7, <2>1, <2>3 DEF RxPart, RxInOrder
  <2> QED
    BY <1>5, <2>2, <2>4 DEF RxPart
<1> QED
  BY <1>6, <1>7

LEMMA RxReap ==
  ASSUME RxPart, ReapRx
  PROVE  RxPart'
<1> DEFINE f == rxFifo
           g == Commit(rxFifo)
           w == (rxFifo.w0 + MF) % FifoLen
           n == rxInFlight
<1>1. /\ rxFifo' = g /\ rxInFlight' = n - 1 /\ rxBds' = Tail(rxBds)
      /\ rxDone' = rxDone - 1 /\ rxOvfl' = rxOvfl /\ rxDone > 0 /\ pruned' = pruned
  BY DEF ReapRx
<1>2. /\ n \in Nat \ {0} /\ rxDone \in 1 .. n /\ rxBds \in Seq(DataOfs)
      /\ Len(rxBds) = n /\ f \in Fifo
  BY <1>1 DEF RxPart, RxType
<1>3. /\ Len(Tail(rxBds)) = n - 1 /\ Tail(rxBds) \in Seq(DataOfs)
      /\ \A k \in 1 .. n - 1 : Tail(rxBds)[k] = rxBds[k + 1]
  BY <1>2
<1>4. g \in Fifo
  BY <1>2, CommitType
<1>5. RxType'
  BY <1>1, <1>2, <1>3, <1>4, PortAssumption DEF RxPart, RxType
<1>6. CASE pruned
  BY <1>1, <1>5, <1>6, RxTypesSuffice
<1>7. CASE ~pruned
  <2>1. w \in MfStart
    BY <1>7, MfStartNext DEF RxPart, RxPointers
  <2>2. g.w0 = w /\ g.w1 = f.w1 /\ g.r0 = f.r0 /\ g.r1 = f.r1
    BY <1>2 DEF Fifo, Commit
  <2>3. RxPointers'
    BY <1>1, <1>7, <2>1, <2>2 DEF RxPart, RxPointers
  <2>4. Allocd(g) = Valid(g) + (n - 1) * MF
    <3>1. n * MF = (n - 1) * MF + MF /\ (n - 1) * MF \in Nat
      BY <1>2, LenFacts
    <3>2. Valid(f) + MF < FifoLen
      BY <1>7, <3>1, RxFacts
    <3>3. (w - f.r0) % FifoLen = ((f.w0 - f.r0) % FifoLen) + MF
      BY <1>7, <3>2, RxFacts, DistanceUp DEF Valid
    <3>4. Valid(g) = Valid(f) + MF /\ Allocd(g) = Allocd(f)
      BY <2>2, <3>3 DEF Valid, Allocd
    <3> QED
      BY <1>7, <3>1, <3>4, RxFacts
  <2>5. \A k \in 1 .. n - 1 : Tail(rxBds)[k] = RxBase + Slot(g.w0, k)
    <3> TAKE k \in 1 .. n - 1
    <3>1. k \in Nat \ {0} /\ k + 1 \in 1 .. n
      BY <1>2
    <3>2. rxBds[k + 1] = RxBase + Slot(f.w0, k + 1)
      BY <1>7, <3>1 DEF RxPart, RxInOrder
    <3>3. Slot(f.w0, k + 1) = Slot(w, k)
      BY <1>7, <3>1, SlotNext, RxFacts
    <3> QED
      BY <1>3, <2>2, <3>2, <3>3
  <2>6. RxInOrder'
    BY <1>1, <2>4, <2>5 DEF RxInOrder
  <2> QED
    BY <1>5, <2>3, <2>6 DEF RxPart
<1> QED
  BY <1>6, <1>7

LEMMA RxSubmit ==
  ASSUME RxPart, RxFill
  PROVE  RxPart'
<1> DEFINE f == rxFifo
           g == Prepare(rxFifo)
           w == (rxFifo.w1 + MF) % FifoLen
           n == rxInFlight
           bd == RxBase + f.w1
<1>1. /\ rxFifo' = g /\ rxInFlight' = n + 1 /\ rxBds' = Append(rxBds, bd)
      /\ rxDone' = rxDone /\ rxOvfl' = rxOvfl /\ pruned' = pruned
      /\ n < MaxInFlight /\ MF <= Free(f)
  BY DEF RxFill, RxMayFill, CanPrepare
<1>2. /\ n \in Nat /\ rxDone \in 0 .. n /\ rxBds \in Seq(DataOfs)
      /\ Len(rxBds) = n /\ f \in Fifo
  BY DEF RxPart, RxType
<1>3. bd \in DataOfs
  BY <1>2, LenFacts DEF RxBase, DataOfs, Fifo
<1>4. /\ Len(Append(rxBds, bd)) = n + 1 /\ Append(rxBds, bd) \in Seq(DataOfs)
      /\ \A k \in 1 .. n : Append(rxBds, bd)[k] = rxBds[k]
      /\ Append(rxBds, bd)[n + 1] = bd
  BY <1>2, <1>3
<1>5. g \in Fifo
  BY <1>2, PrepareType
<1>6. RxType'
  BY <1>1, <1>2, <1>4, <1>5, PortAssumption DEF RxPart, RxType
<1>7. CASE pruned
  BY <1>1, <1>6, <1>7, RxTypesSuffice
<1>8. CASE ~pruned
  <2>1. w \in MfStart
    BY <1>8, MfStartNext DEF RxPart, RxPointers
  <2>2. g.w0 = f.w0 /\ g.w1 = w /\ g.r0 = f.r0 /\ g.r1 = f.r1
    BY <1>2 DEF Fifo, Prepare
  <2>3. RxPointers'
    BY <1>1, <1>8, <2>1, <2>2 DEF RxPart, RxPointers
  <2>4. Allocd(g) = Valid(g) + (n + 1) * MF
    <3>1. (n + 1) * MF = n * MF + MF
      BY <1>2, LenFacts
    <3>2. Allocd(f) + MF < FifoLen
      <4>1. MF <= Free(f)
        BY <1>1
      <4> QED
        BY <1>8, <4>1, RxFacts
    <3>3. (w - f.r0) % FifoLen = ((f.w1 - f.r0) % FifoLen) + MF
      BY <1>8, <3>2, RxFacts, DistanceUp DEF Allocd
    <3>4. Valid(g) = Valid(f) /\ Allocd(g) = Allocd(f) + MF
      BY <2>2, <3>3 DEF Valid, Allocd
    <3> QED
      BY <1>8, <3>1, <3>4, RxFacts
  <2>5. \A k \in 1 .. n + 1 : Append(rxBds, bd)[k] = RxBase + Slot(f.w0, k)
    <3>1. Slot(f.w0, n + 1) = f.w1
      <4>1. (f.w1 - f.r0) % FifoLen = ((f.w0 - f.r0) % FifoLen) + n * MF
        BY <1>8, RxFacts DEF Valid, Allocd
      <4>2. (f.w1 - f.w0) % FifoLen = n * MF
        BY <1>8, <4>1, RxFacts, DistanceRest
      <4> QED
        BY <1>2, <1>8, <4>2, RxFacts, SlotAtDistance
    <3> TAKE k \in 1 .. n + 1
    <3>2. CASE k \in 1 .. n
      BY <1>4, <1>8, <3>2 DEF RxPart, RxInOrder
    <3>3. CASE k = n + 1
      BY <1>4, <3>1, <3>3
    <3> QED
      BY <1>2, <3>2, <3>3
  <2>6. RxInOrder'
    BY <1>1, <2>2, <2>4, <2>5 DEF RxInOrder
  <2> QED
    BY <1>6, <2>3, <2>6 DEF RxPart
<1> QED
  BY <1>7, <1>8

\* Dropping the unread frames once the core has given everything back.
LEMMA RxTailDropped ==
  ASSUME RxPart, rxInFlight = 0, rxFifo' = EmptyTail(rxFifo),
         UNCHANGED <<rxInFlight, rxBds, rxDone, rxOvfl, pruned>>
  PROVE  RxPart'
<1> DEFINE f == rxFifo
           g == EmptyTail(rxFifo)
<1>1. f \in Fifo
  BY DEF RxPart, RxType
<1>2. g \in Fifo
  BY <1>1, EmptyTailType
<1>3. RxType'
  BY <1>2 DEF RxPart, RxType
<1>4. CASE pruned
  BY <1>3, <1>4, RxTypesSuffice
<1>5. CASE ~pruned
  <2>1. f.w0 \in MfStart /\ f.w1 \in MfStart
    BY <1>5 DEF RxPart, RxPointers
  <2>2. RoundDown(f.w0) = f.w0
    BY <2>1, MfStartFacts
  <2>3. g = [f EXCEPT !.r0 = f.w0, !.r1 = f.w0]
    BY <2>2 DEF EmptyTail
  <2>4. g.w0 = f.w0 /\ g.w1 = f.w1 /\ g.r0 = f.w0 /\ g.r1 = f.w0
    BY <1>1, <2>3 DEF Fifo
  <2>5. RxPointers'
    BY <1>5, <2>1, <2>4, MfStartFacts DEF RxPointers
  <2>6. (f.w1 - f.w0) % FifoLen = 0
    <3>1. (f.w1 - f.r0) % FifoLen = ((f.w0 - f.r0) % FifoLen) + 0
      BY <1>5, RxFacts DEF Valid, Allocd
    <3> QED
      BY <1>5, <3>1, RxFacts, DistanceRest
  <2>7. (f.w0 - f.w0) % FifoLen = 0
    <3>1. f.w0 \in Pointer /\ f.w0 >= f.w0 /\ f.w0 - f.w0 = 0
      BY <1>5, RxFacts DEF Pointer
    <3> QED
      BY <3>1, Distance
  <2>8. Allocd(g) = 0 /\ Valid(g) = 0
    BY <2>4, <2>6, <2>7 DEF Valid, Allocd
  <2>9. RxInOrder'
    BY <2>8, LenFacts DEF RxInOrder
  <2> QED
    BY <1>3, <2>5, <2>9 DEF RxPart
<1> QED
  BY <1>4, <1>5

\* e1_start: a reset, a cut head, or nothing.
LEMMA RxStart ==
  ASSUME RxPart, CtlPart, StartPort
  PROVE  RxPart'
<1>1. UNCHANGED <<rxInFlight, rxBds, rxDone>> /\ rxOvfl' = FALSE
  BY DEF StartPort
<1>2. rxFifo \in Fifo
  BY DEF RxPart, RxType
<1>3. CASE rxState = "IDLE"
  <2>1. rxInFlight = 0
    BY <1>3 DEF CtlPart, IdleDrained
  <2>2. CleanIfIdle(rxState, rxFifo) = Reset
    BY <1>3 DEF CleanIfIdle
  <2>3. rxFifo' = Reset
    BY <2>2, EmptyHeadOfReset DEF StartPort
  <2> QED
    BY <1>1, <2>1, <2>3, RxReset
<1>4. CASE rxState # "IDLE" /\ txState = "SHUTDOWN"
  <2>1. rxFifo' = EmptyHead(rxFifo) /\ pruned'
    BY <1>4 DEF StartPort, CleanIfIdle
  <2>2. EmptyHead(rxFifo) \in Fifo
    BY <1>2, EmptyHeadType
  <2>3. RxType'
    BY <1>1, <2>1, <2>2 DEF RxPart, RxType
  <2> QED
    BY <2>1, <2>3, RxTypesSuffice
<1>5. CASE rxState # "IDLE" /\ txState # "SHUTDOWN"
  <2>1. rxFifo' = rxFifo /\ pruned' = pruned
    BY <1>5 DEF StartPort, CleanIfIdle, CtlPart, CtlType
  <2> QED
    BY <1>1, <2>1, RxKept DEF RxPart, RxType
<1> QED
  BY <1>3, <1>4, <1>5

\* The slots in the core are apart from what the host reads.
LEMMA RxPartApart ==
  ASSUME RxPart
  PROVE  RxNotShared
<1> SUFFICES ASSUME ~pruned, NEW k \in 1 .. rxInFlight, NEW i \in 0 .. MF - 1
             PROVE  ~Readable(rxFifo, rxBds[k] - RxBase + i)
  BY DEF RxNotShared
<1> DEFINE f == rxFifo
           s == Slot(f.w0, k)
           d == (k - 1) * MF + i
           V == Valid(f)
<1>1. /\ k \in Nat \ {0} /\ k <= rxInFlight /\ rxInFlight \in Nat
      /\ MF \in Nat \ {0} /\ FifoLen \in Nat \ {0}
      /\ f.r0 \in Pointer /\ f.w0 \in Pointer
      /\ V \in 0 .. FifoLen - 1 /\ Allocd(f) \in 0 .. FifoLen - 1
      /\ Allocd(f) = V + rxInFlight * MF
  BY RxFacts
<1>2. d \in Nat /\ V + d < FifoLen
  <2>1. (k - 1) * MF + MF = k * MF /\ (k - 1) * MF \in Nat
    BY <1>1
  <2>2. k * MF <= rxInFlight * MF
    BY <1>1
  <2> QED
    BY <1>1, <2>1, <2>2
<1>3. s \in Pointer /\ ((s + i) - f.w0) % FifoLen = d
  BY <1>1, <1>2, SlotDistance
<1>4. rxBds[k] = RxBase + s
  BY DEF RxPart, RxInOrder
<1>5. rxBds[k] - RxBase + i = s + i
  BY <1>1, <1>3, <1>4 DEF Pointer, RxBase
<1> DEFINE x == s + i
<1>6. x \in 0 .. 2 * FifoLen - 1
  BY <1>1, <1>3, LenFacts DEF Pointer
<1>7. V = (f.w0 - f.r0) % FifoLen
  BY DEF Valid
<1> HIDE DEF s, d, V
<1>8. (x - f.w0) % FifoLen = d
  BY <1>3
<1> HIDE DEF x
<1>9. (x - f.r0) % FifoLen = V + d
  <2>1. /\ FifoLen \in Nat \ {0} /\ f.r0 \in 0 .. FifoLen - 1 /\ f.w0 \in 0 .. FifoLen - 1
    BY <1>1 DEF Pointer
  <2>2. V = IF f.w0 >= f.r0 THEN f.w0 - f.r0 ELSE f.w0 - f.r0 + FifoLen
    BY <1>1, <1>7, Distance
  <2>3. d = IF x < f.w0 THEN x - f.w0 + FifoLen
            ELSE IF x - f.w0 < FifoLen THEN x - f.w0 ELSE x - f.w0 - FifoLen
    BY <1>6, <1>8, <2>1, OneLap
  <2>4. (x - f.r0) % FifoLen = IF x < f.r0 THEN x - f.r0 + FifoLen
                               ELSE IF x - f.r0 < FifoLen THEN x - f.r0
                               ELSE x - f.r0 - FifoLen
    BY <1>6, <2>1, OneLap
  <2> QED
    BY <1>2, <1>6, <2>1, <2>2, <2>3, <2>4
<1>10. (rxBds[k] - RxBase + i) - f.r0 = x - f.r0
  BY <1>5 DEF x
<1>11. ~(V + d < Valid(f))
  BY <1>1, <1>2 DEF V
<1> QED
  BY <1>9, <1>10, <1>11 DEF Readable

LEMMA TxStart ==
  ASSUME TxPart, CtlPart, StartPort
  PROVE  TxPart'
<1>1. UNCHANGED <<txInFlight, txBds, txDone>> /\ txUnfl' = FALSE
  BY DEF StartPort
<1>2. CASE txState = "IDLE"
  <2>1. txInFlight = 0 /\ txFifo' = Reset
    BY <1>2 DEF CtlPart, IdleDrained, StartPort, CleanIfIdle
  <2> QED
    BY <1>1, <2>1, TxReset
<1>3. CASE txState # "IDLE"
  <2>1. txFifo' = txFifo
    BY <1>3 DEF StartPort, CleanIfIdle
  <2> QED
    BY <1>1, <2>1, TxKept DEF TxPart, TxType
<1> QED
  BY <1>2, <1>3

-----------------------------------------------------------------------------
(* One step of the whole port *)

\* Every step keeps the receive side in order.
LEMMA RxStep ==
  ASSUME RxPart, CtlPart, [Next]_vars
  PROVE  RxPart'
<1>type. rxDone \in 0 .. rxInFlight /\ rxInFlight = Len(rxBds) /\ rxOvfl \in BOOLEAN /\ rxInFlight \in Nat
  BY DEF RxPart, RxType
<1>1. CASE StartPort
  BY <1>1, RxStart
<1>2. CASE StopPort
  BY <1>type, <1>2, RxKept DEF StopPort, rxVars, txVars, rxCore, txCore
<1>3. ASSUME NEW n \in 1 .. MaxChunk, NeedData(n) PROVE RxPart'
  BY <1>3, RxRead
<1>4. ASSUME NEW n \in 1 .. MaxChunk, FeedData(n) PROVE RxPart'
  BY <1>type, <1>4, RxKept DEF FeedData, rxVars, txVars, rxCore, txCore
<1>5. CASE PollBegin
  BY <1>type, <1>5, RxKept DEF PollBegin, rxVars, txVars, rxCore, txCore
<1>6. CASE ReapTx
  BY <1>type, <1>6, RxKept DEF ReapTx, rxVars, txVars, rxCore, txCore
<1>7. CASE ReapTxEnd
  BY <1>type, <1>7, RxKept DEF ReapTxEnd, rxVars, txVars, rxCore, txCore
<1>8. CASE ReapRx
  BY <1>8, RxReap
<1>9. CASE ReapRxEnd
  BY <1>type, <1>9, RxKept DEF ReapRxEnd, rxVars, txVars, rxCore, txCore
<1>10. CASE RxIdle
  BY <1>type, <1>10, RxKept DEF RxIdle, rxVars, txVars, rxCore, txCore
<1>11. CASE RxShutdown
  BY <1>type, <1>11, RxKept DEF RxShutdown, Drained, rxVars, txVars, rxCore, txCore
<1>12. CASE RxWait
  BY <1>type, <1>12, RxKept DEF RxWait, rxVars, txVars, rxCore, txCore
<1>13. CASE RxService
  <2>1. UNCHANGED <<rxInFlight, rxBds, rxDone, rxOvfl, pruned>>
    BY <1>13 DEF RxService, rxCore
  <2>2. CASE RxChecked = "RECOVER"
    <3>1. rxInFlight = 0 /\ rxFifo' = EmptyTail(rxFifo)
      BY <1>13, <2>2 DEF RxService
    <3> QED
      BY <2>1, <3>1, RxTailDropped
  <2>3. CASE RxChecked # "RECOVER"
    <3>1. rxFifo' = rxFifo
      BY <1>13, <2>3 DEF RxService
    <3> QED
      BY <1>type, <2>1, <3>1, RxKept
  <2> QED
    BY <2>2, <2>3
<1>14. CASE RxFill
  BY <1>14, RxSubmit
<1>15. CASE RxFillEnd
  BY <1>type, <1>15, RxKept DEF RxFillEnd, rxVars, txVars, rxCore, txCore
<1>16. CASE TxIdle
  BY <1>type, <1>16, RxKept DEF TxIdle, rxVars, txVars, rxCore, txCore
<1>17. CASE TxShutdown
  BY <1>type, <1>17, RxKept DEF TxShutdown, Drained, rxVars, txVars, rxCore, txCore
<1>18. CASE TxWait
  BY <1>type, <1>18, RxKept DEF TxWait, rxVars, txVars, rxCore, txCore
<1>19. CASE TxService
  BY <1>type, <1>19, RxKept DEF TxService, rxVars, txVars, rxCore, txCore
<1>20. CASE TxFill
  BY <1>type, <1>20, RxKept DEF TxFill, rxVars, txVars, rxCore, txCore
<1>21. CASE TxFillEnd
  BY <1>type, <1>21, RxKept DEF TxFillEnd, rxVars, txVars, rxCore, txCore
<1>22. CASE CoreRxDone
  BY <1>type, <1>22, RxKept DEF CoreRxDone, rxVars, txVars, rxCore, txCore
<1>23. CASE CoreRxOverflow
  BY <1>type, <1>23, RxKept DEF CoreRxOverflow, rxVars, txVars, rxCore, txCore
<1>24. CASE CoreTxDone
  BY <1>type, <1>24, RxKept DEF CoreTxDone, rxVars, txVars, rxCore, txCore
<1>25. CASE CoreTxUnderflow
  BY <1>type, <1>25, RxKept DEF CoreTxUnderflow, rxVars, txVars, rxCore, txCore
<1>26. CASE LineChange
  BY <1>type, <1>26, RxKept DEF LineChange, rxVars, txVars, rxCore, txCore
<1>27. CASE UNCHANGED vars
  BY <1>type, <1>27, RxKept DEF vars, rxVars, txVars, rxCore, txCore
<1> QED
  BY <1>1, <1>2, <1>3, <1>4, <1>5, <1>6, <1>7, <1>8, <1>9, <1>10, <1>11, <1>12, <1>13, <1>14,
     <1>15, <1>16, <1>17, <1>18, <1>19, <1>20, <1>21, <1>22, <1>23, <1>24, <1>25, <1>26, <1>27
  DEF Next, Usb, Poll, Core

\* Every step keeps the transmit side in order.
LEMMA TxStep ==
  ASSUME TxPart, CtlPart, [Next]_vars
  PROVE  TxPart'
<1>type. txDone \in 0 .. txInFlight /\ txInFlight = Len(txBds) /\ txUnfl \in BOOLEAN /\ txInFlight \in Nat
  BY DEF TxPart, TxType
<1>1. CASE StartPort
  BY <1>1, TxStart
<1>2. CASE StopPort
  BY <1>type, <1>2, TxKept DEF StopPort, rxVars, txVars, rxCore, txCore
<1>3. ASSUME NEW n \in 1 .. MaxChunk, NeedData(n) PROVE TxPart'
  BY <1>type, <1>3, TxKept DEF NeedData, rxVars, txVars, rxCore, txCore
<1>4. ASSUME NEW n \in 1 .. MaxChunk, FeedData(n) PROVE TxPart'
  BY <1>4, TxFeed
<1>5. CASE PollBegin
  BY <1>type, <1>5, TxKept DEF PollBegin, rxVars, txVars, rxCore, txCore
<1>6. CASE ReapTx
  BY <1>6, TxReap
<1>7. CASE ReapTxEnd
  BY <1>type, <1>7, TxKept DEF ReapTxEnd, rxVars, txVars, rxCore, txCore
<1>8. CASE ReapRx
  BY <1>type, <1>8, TxKept DEF ReapRx, rxVars, txVars, rxCore, txCore
<1>9. CASE ReapRxEnd
  BY <1>type, <1>9, TxKept DEF ReapRxEnd, rxVars, txVars, rxCore, txCore
<1>10. CASE RxIdle
  BY <1>type, <1>10, TxKept DEF RxIdle, rxVars, txVars, rxCore, txCore
<1>11. CASE RxShutdown
  BY <1>type, <1>11, TxKept DEF RxShutdown, Drained, rxVars, txVars, rxCore, txCore
<1>12. CASE RxWait
  BY <1>type, <1>12, TxKept DEF RxWait, rxVars, txVars, rxCore, txCore
<1>13. CASE RxService
  BY <1>type, <1>13, TxKept DEF RxService, rxVars, txVars, rxCore, txCore
<1>14. CASE RxFill
  BY <1>type, <1>14, TxKept DEF RxFill, rxVars, txVars, rxCore, txCore
<1>15. CASE RxFillEnd
  BY <1>type, <1>15, TxKept DEF RxFillEnd, rxVars, txVars, rxCore, txCore
<1>16. CASE TxIdle
  BY <1>type, <1>16, TxKept DEF TxIdle, rxVars, txVars, rxCore, txCore
<1>17. CASE TxShutdown
  BY <1>type, <1>17, TxKept DEF TxShutdown, Drained, rxVars, txVars, rxCore, txCore
<1>18. CASE TxWait
  BY <1>type, <1>18, TxKept DEF TxWait, rxVars, txVars, rxCore, txCore
<1>19. CASE TxService
  BY <1>type, <1>19, TxKept DEF TxService, rxVars, txVars, rxCore, txCore
<1>20. CASE TxFill
  BY <1>20, TxSubmit
<1>21. CASE TxFillEnd
  BY <1>type, <1>21, TxKept DEF TxFillEnd, rxVars, txVars, rxCore, txCore
<1>22. CASE CoreRxDone
  BY <1>type, <1>22, TxKept DEF CoreRxDone, rxVars, txVars, rxCore, txCore
<1>23. CASE CoreRxOverflow
  BY <1>type, <1>23, TxKept DEF CoreRxOverflow, rxVars, txVars, rxCore, txCore
<1>24. CASE CoreTxDone
  BY <1>type, <1>24, TxKept DEF CoreTxDone, rxVars, txVars, rxCore, txCore
<1>25. CASE CoreTxUnderflow
  BY <1>type, <1>25, TxKept DEF CoreTxUnderflow, rxVars, txVars, rxCore, txCore
<1>26. CASE LineChange
  BY <1>type, <1>26, TxKept DEF LineChange, rxVars, txVars, rxCore, txCore
<1>27. CASE UNCHANGED vars
  BY <1>type, <1>27, TxKept DEF vars, rxVars, txVars, rxCore, txCore
<1> QED
  BY <1>1, <1>2, <1>3, <1>4, <1>5, <1>6, <1>7, <1>8, <1>9, <1>10, <1>11, <1>12, <1>13, <1>14,
     <1>15, <1>16, <1>17, <1>18, <1>19, <1>20, <1>21, <1>22, <1>23, <1>24, <1>25, <1>26, <1>27
  DEF Next, Usb, Poll, Core

\* Every step keeps the pipes' states, the host's selection and the position
\* in e1_poll in agreement.
LEMMA CtlStep ==
  ASSUME RxPart, TxPart, CtlPart, [Next]_vars
  PROVE  CtlPart'
<1>counts. /\ rxInFlight \in Nat /\ rxDone \in 0 .. rxInFlight
           /\ txInFlight \in Nat /\ txDone \in 0 .. txInFlight
  BY DEF RxPart, RxType, TxPart, TxType
<1>1. CASE StartPort
  BY <1>counts, <1>1 DEF StartPort, CtlPart, CtlType, PipeState,
     IdleDrained, UpWhileRunning, Down, rxVars, txVars, rxCore, txCore, Restarted
<1>2. CASE StopPort
  BY <1>counts, <1>2 DEF StopPort, CtlPart, CtlType, PipeState,
     IdleDrained, UpWhileRunning, Down, rxVars, txVars, rxCore, txCore
<1>3. ASSUME NEW n \in 1 .. MaxChunk, NeedData(n) PROVE CtlPart'
  BY <1>counts, <1>3 DEF NeedData, CtlPart, CtlType, PipeState,
     IdleDrained, UpWhileRunning, Down, rxVars, txVars, rxCore, txCore
<1>4. ASSUME NEW n \in 1 .. MaxChunk, FeedData(n) PROVE CtlPart'
  BY <1>counts, <1>4 DEF FeedData, CtlPart, CtlType, PipeState,
     IdleDrained, UpWhileRunning, Down, rxVars, txVars, rxCore, txCore
<1>5. CASE PollBegin
  BY <1>counts, <1>5 DEF PollBegin, CtlPart, CtlType, PipeState,
     IdleDrained, UpWhileRunning, Down, rxVars, txVars, rxCore, txCore
<1>6. CASE ReapTx
  BY <1>counts, <1>6 DEF ReapTx, CtlPart, CtlType, PipeState,
     IdleDrained, UpWhileRunning, Down, rxVars, txVars, rxCore, txCore
<1>7. CASE ReapTxEnd
  BY <1>counts, <1>7 DEF ReapTxEnd, CtlPart, CtlType, PipeState,
     IdleDrained, UpWhileRunning, Down, rxVars, txVars, rxCore, txCore
<1>8. CASE ReapRx
  BY <1>counts, <1>8 DEF ReapRx, CtlPart, CtlType, PipeState,
     IdleDrained, UpWhileRunning, Down, rxVars, txVars, rxCore, txCore
<1>9. CASE ReapRxEnd
  BY <1>counts, <1>9 DEF ReapRxEnd, CtlPart, CtlType, PipeState,
     IdleDrained, UpWhileRunning, Down, rxVars, txVars, rxCore, txCore
<1>10. CASE RxIdle
  BY <1>counts, <1>10 DEF RxIdle, CtlPart, CtlType, PipeState,
     IdleDrained, UpWhileRunning, Down, rxVars, txVars, rxCore, txCore
<1>11. CASE RxShutdown
  BY <1>counts, <1>11 DEF RxShutdown, Drained, CtlPart, CtlType, PipeState,
     IdleDrained, UpWhileRunning, Down, rxVars, txVars, rxCore, txCore
<1>12. CASE RxWait
  BY <1>counts, <1>12 DEF RxWait, CtlPart, CtlType, PipeState,
     IdleDrained, UpWhileRunning, Down, rxVars, txVars, rxCore, txCore, RxChecked
<1>13. CASE RxService
  BY <1>counts, <1>13 DEF RxService, Served, CtlPart, CtlType, PipeState,
     IdleDrained, UpWhileRunning, Down, rxVars, txVars, rxCore, txCore, RxChecked
<1>14. CASE RxFill
  BY <1>counts, <1>14 DEF RxFill, CtlPart, CtlType, PipeState,
     IdleDrained, UpWhileRunning, Down, rxVars, txVars, rxCore, txCore
<1>15. CASE RxFillEnd
  BY <1>counts, <1>15 DEF RxFillEnd, CtlPart, CtlType, PipeState,
     IdleDrained, UpWhileRunning, Down, rxVars, txVars, rxCore, txCore
<1>16. CASE TxIdle
  BY <1>counts, <1>16 DEF TxIdle, CtlPart, CtlType, PipeState,
     IdleDrained, UpWhileRunning, Down, rxVars, txVars, rxCore, txCore
<1>17. CASE TxShutdown
  BY <1>counts, <1>17 DEF TxShutdown, Drained, CtlPart, CtlType, PipeState,
     IdleDrained, UpWhileRunning, Down, rxVars, txVars, rxCore, txCore
<1>18. CASE TxWait
  BY <1>counts, <1>18 DEF TxWait, CtlPart, CtlType, PipeState,
     IdleDrained, UpWhileRunning, Down, rxVars, txVars, rxCore, txCore, TxChecked
<1>19. CASE TxService
  BY <1>counts, <1>19 DEF TxService, Served, CtlPart, CtlType, PipeState,
     IdleDrained, UpWhileRunning, Down, rxVars, txVars, rxCore, txCore, TxChecked
<1>20. CASE TxFill
  BY <1>counts, <1>20 DEF TxFill, CtlPart, CtlType, PipeState,
     IdleDrained, UpWhileRunning, Down, rxVars, txVars, rxCore, txCore
<1>21. CASE TxFillEnd
  BY <1>counts, <1>21 DEF TxFillEnd, CtlPart, CtlType, PipeState,
     IdleDrained, UpWhileRunning, Down, rxVars, txVars, rxCore, txCore
<1>22. CASE CoreRxDone
  BY <1>counts, <1>22 DEF CoreRxDone, CtlPart, CtlType, PipeState,
     IdleDrained, UpWhileRunning, Down, rxVars, txVars, rxCore, txCore
<1>23. CASE CoreRxOverflow
  BY <1>counts, <1>23 DEF CoreRxOverflow, CtlPart, CtlType, PipeState,
     IdleDrained, UpWhileRunning, Down, rxVars, txVars, rxCore, txCore
<1>24. CASE CoreTxDone
  BY <1>counts, <1>24 DEF CoreTxDone, CtlPart, CtlType, PipeState,
     IdleDrained, UpWhileRunning, Down, rxVars, txVars, rxCore, txCore
<1>25. CASE CoreTxUnderflow
  BY <1>counts, <1>25 DEF CoreTxUnderflow, CtlPart, CtlType, PipeState,
     IdleDrained, UpWhileRunning, Down, rxVars, txVars, rxCore, txCore
<1>26. CASE LineChange
  BY <1>counts, <1>26 DEF LineChange, CtlPart, CtlType, PipeState,
     IdleDrained, UpWhileRunning, Down, rxVars, txVars, rxCore, txCore
<1>27. CASE UNCHANGED vars
  BY <1>27 DEF vars, CtlPart, CtlType, PipeState,
     IdleDrained, UpWhileRunning, Down, rxVars, txVars, rxCore, txCore
<1> QED
  BY <1>1, <1>2, <1>3, <1>4, <1>5, <1>6, <1>7, <1>8, <1>9, <1>10, <1>11, <1>12, <1>13, <1>14,
     <1>15, <1>16, <1>17, <1>18, <1>19, <1>20, <1>21, <1>22, <1>23, <1>24, <1>25, <1>26, <1>27
  DEF Next, Usb, Poll, Core

\* Between e1_poll's check and its use of it nothing takes frames from the TX
\* FIFO: the host's calls wait for the thread.
LEMMA TxGatheredStep ==
  ASSUME TxPart, CtlPart, TxGathered, [Next]_vars
  PROVE  TxGathered'
<1>levels. Unseen(txFifo) \in Nat /\ Valid(txFifo) \in Nat /\ Prime \in Nat
  BY TxFacts, PortAssumption
<1>1. CASE StartPort
  BY <1>1 DEF StartPort, TxGathered, Unseen, Valid, rxVars, txVars, Restarted
<1>2. CASE StopPort
  BY <1>2 DEF StopPort, TxGathered, Unseen, Valid, rxVars, txVars, Restarted
<1>3. ASSUME NEW n \in 1 .. MaxChunk, NeedData(n) PROVE TxGathered'
  BY <1>3 DEF NeedData, TxGathered, Unseen, Valid, rxVars, txVars, Restarted
<1>4. ASSUME NEW n \in 1 .. MaxChunk, FeedData(n) PROVE TxGathered'
  BY <1>4 DEF FeedData, TxGathered, Unseen, Valid, rxVars, txVars, Restarted
<1>5. CASE PollBegin
  BY <1>5 DEF PollBegin, TxGathered, Unseen, Valid, rxVars, txVars, Restarted
<1>6. CASE ReapTx
  BY <1>6 DEF ReapTx, TxGathered, Unseen, Valid, rxVars, txVars, Restarted
<1>7. CASE ReapTxEnd
  BY <1>7 DEF ReapTxEnd, TxGathered, Unseen, Valid, rxVars, txVars, Restarted
<1>8. CASE ReapRx
  BY <1>8 DEF ReapRx, TxGathered, Unseen, Valid, rxVars, txVars, Restarted
<1>9. CASE ReapRxEnd
  BY <1>levels, <1>9 DEF ReapRxEnd, BootWait, TxGathered, Unseen, Valid, txVars
<1>10. CASE RxIdle
  BY <1>10 DEF RxIdle, TxGathered, Unseen, Valid, rxVars, txVars, Restarted
<1>11. CASE RxShutdown
  BY <1>11 DEF RxShutdown, Drained, TxGathered, Unseen, Valid, rxVars, txVars, Restarted
<1>12. CASE RxWait
  BY <1>12 DEF RxWait, TxGathered, Unseen, Valid, rxVars, txVars, Restarted
<1>13. CASE RxService
  BY <1>13 DEF RxService, TxGathered, Unseen, Valid, rxVars, txVars, Restarted
<1>14. CASE RxFill
  BY <1>14 DEF RxFill, TxGathered, Unseen, Valid, rxVars, txVars, Restarted
<1>15. CASE RxFillEnd
  BY <1>15 DEF RxFillEnd, TxGathered, Unseen, Valid, rxVars, txVars, Restarted
<1>16. CASE TxIdle
  BY <1>16 DEF TxIdle, TxGathered, Unseen, Valid, rxVars, txVars, Restarted
<1>17. CASE TxShutdown
  BY <1>17 DEF TxShutdown, Drained, TxGathered, Unseen, Valid, rxVars, txVars, Restarted
<1>18. CASE TxWait
  BY <1>18 DEF TxWait, TxGathered, Unseen, Valid, rxVars, txVars, Restarted
<1>19. CASE TxService
  <2>1. Unseen(txFifo) >= Prime \/ txState = "RUN"
    BY <1>levels, <1>19 DEF TxService, Served, TxChecked, TxGathered, CtlPart, CtlType, PipeState
  <2>2. Unseen(txFifo) >= Prime => Valid(txFifo) >= Prime
    BY TxFacts, PortAssumption
  <2>3. txState = "RUN" /\ TxChecked # "RUN" => Unseen(txFifo) >= Prime
    BY <1>levels, <1>19 DEF TxService, Served, TxChecked
  <2>4. txState' = TxChecked /\ txFifo' = txFifo /\ pc' = "txFill"
    BY <1>19 DEF TxService
  <2> QED
    BY <2>1, <2>2, <2>3, <2>4 DEF TxGathered, Valid, TxChecked
<1>20. CASE TxFill
  <2>1. Valid(txFifo') = Valid(txFifo)
    BY <1>20, TxFacts DEF TxFill, Peek, Valid, Fifo
  <2> QED
    BY <1>20, <2>1 DEF TxFill, TxGathered
<1>21. CASE TxFillEnd
  BY <1>21 DEF TxFillEnd, TxGathered, Unseen, Valid, rxVars, txVars, Restarted
<1>22. CASE CoreRxDone
  BY <1>22 DEF CoreRxDone, TxGathered, Unseen, Valid, rxVars, txVars, Restarted
<1>23. CASE CoreRxOverflow
  BY <1>23 DEF CoreRxOverflow, TxGathered, Unseen, Valid, rxVars, txVars, Restarted
<1>24. CASE CoreTxDone
  BY <1>24 DEF CoreTxDone, TxGathered, Unseen, Valid, rxVars, txVars, Restarted
<1>25. CASE CoreTxUnderflow
  BY <1>25 DEF CoreTxUnderflow, TxGathered, Unseen, Valid, rxVars, txVars, Restarted
<1>26. CASE LineChange
  BY <1>26 DEF LineChange, TxGathered, Unseen, Valid, rxVars, txVars, Restarted
<1>27. CASE UNCHANGED vars
  BY <1>27 DEF vars, TxGathered, Unseen, Valid, rxVars, txVars, Restarted
<1> QED
  BY <1>1, <1>2, <1>3, <1>4, <1>5, <1>6, <1>7, <1>8, <1>9, <1>10, <1>11, <1>12, <1>13, <1>14,
     <1>15, <1>16, <1>17, <1>18, <1>19, <1>20, <1>21, <1>22, <1>23, <1>24, <1>25, <1>26, <1>27
  DEF Next, Usb, Poll, Core

\* From the emptied FIFO on, RX only allocates until it is running.
LEMMA RxEmptiedStep ==
  ASSUME RxPart, CtlPart, RxEmptied, [Next]_vars
  PROVE  RxEmptied'
<1>1. CASE StartPort
  BY <1>1 DEF StartPort, RxEmptied, Valid, rxVars, txVars
<1>2. CASE StopPort
  BY <1>2 DEF StopPort, RxEmptied, Valid, rxVars, txVars
<1>3. ASSUME NEW n \in 1 .. MaxChunk, NeedData(n) PROVE RxEmptied'
  BY <1>3 DEF NeedData, RxEmptied, Valid, rxVars, txVars
<1>4. ASSUME NEW n \in 1 .. MaxChunk, FeedData(n) PROVE RxEmptied'
  BY <1>4 DEF FeedData, RxEmptied, Valid, rxVars, txVars
<1>5. CASE PollBegin
  BY <1>5 DEF PollBegin, RxEmptied, Valid, rxVars, txVars
<1>6. CASE ReapTx
  BY <1>6 DEF ReapTx, RxEmptied, Valid, rxVars, txVars
<1>7. CASE ReapTxEnd
  BY <1>7 DEF ReapTxEnd, RxEmptied, Valid, rxVars, txVars
<1>8. CASE ReapRx
  BY <1>8 DEF ReapRx, RxEmptied, Valid, rxVars, txVars
<1>9. CASE ReapRxEnd
  BY <1>9 DEF ReapRxEnd, RxEmptied, Valid, rxVars, txVars
<1>10. CASE RxIdle
  BY <1>10 DEF RxIdle, RxEmptied, Valid, rxVars, txVars
<1>11. CASE RxShutdown
  BY <1>11 DEF RxShutdown, Drained, RxEmptied, Valid, rxVars, txVars
<1>12. CASE RxWait
  BY <1>12 DEF RxWait, RxEmptied, Valid, rxVars, txVars
<1>13. CASE RxService
  <2>1. SUFFICES ASSUME RxChecked = "RECOVER", ~pruned
                 PROVE  Valid(EmptyTail(rxFifo)) = 0
    BY <1>13 DEF RxService, RxEmptied
  <2>2. rxFifo.w0 \in MfStart /\ rxFifo.w0 \in Pointer /\ rxFifo \in Fifo
    BY <2>1, RxFacts DEF RxPart, RxPointers
  <2>3. RoundDown(rxFifo.w0) = rxFifo.w0
    BY <2>2, MfStartFacts
  <2>4. EmptyTail(rxFifo).w0 = rxFifo.w0 /\ EmptyTail(rxFifo).r0 = rxFifo.w0
    BY <2>2, <2>3 DEF EmptyTail, Fifo
  <2>5. rxFifo.w0 >= rxFifo.w0 /\ rxFifo.w0 - rxFifo.w0 = 0
    BY <2>2, LenFacts DEF Pointer
  <2>6. (rxFifo.w0 - rxFifo.w0) % FifoLen = 0
    BY <2>2, <2>5, Distance
  <2> QED
    BY <2>4, <2>6 DEF Valid
<1>14. CASE RxFill
  <2>1. rxFifo \in Fifo
    BY DEF RxPart, RxType
  <2>2. Valid(rxFifo') = Valid(rxFifo)
    BY <1>14, <2>1 DEF RxFill, Prepare, Valid, Fifo
  <2> QED
    BY <1>14, <2>2 DEF RxFill, RxEmptied
<1>15. CASE RxFillEnd
  BY <1>15 DEF RxFillEnd, RxEmptied, Valid, rxVars, txVars
<1>16. CASE TxIdle
  BY <1>16 DEF TxIdle, RxEmptied, Valid, rxVars, txVars
<1>17. CASE TxShutdown
  BY <1>17 DEF TxShutdown, Drained, RxEmptied, Valid, rxVars, txVars
<1>18. CASE TxWait
  BY <1>18 DEF TxWait, RxEmptied, Valid, rxVars, txVars
<1>19. CASE TxService
  BY <1>19 DEF TxService, RxEmptied, Valid, rxVars, txVars
<1>20. CASE TxFill
  BY <1>20 DEF TxFill, RxEmptied, Valid, rxVars, txVars
<1>21. CASE TxFillEnd
  BY <1>21 DEF TxFillEnd, RxEmptied, Valid, rxVars, txVars
<1>22. CASE CoreRxDone
  BY <1>22 DEF CoreRxDone, RxEmptied, Valid, rxVars, txVars
<1>23. CASE CoreRxOverflow
  BY <1>23 DEF CoreRxOverflow, RxEmptied, Valid, rxVars, txVars
<1>24. CASE CoreTxDone
  BY <1>24 DEF CoreTxDone, RxEmptied, Valid, rxVars, txVars
<1>25. CASE CoreTxUnderflow
  BY <1>25 DEF CoreTxUnderflow, RxEmptied, Valid, rxVars, txVars
<1>26. CASE LineChange
  BY <1>26 DEF LineChange, RxEmptied, Valid, rxVars, txVars
<1>27. CASE UNCHANGED vars
  BY <1>27 DEF vars, RxEmptied, Valid, rxVars, txVars
<1> QED
  BY <1>1, <1>2, <1>3, <1>4, <1>5, <1>6, <1>7, <1>8, <1>9, <1>10, <1>11, <1>12, <1>13, <1>14,
     <1>15, <1>16, <1>17, <1>18, <1>19, <1>20, <1>21, <1>22, <1>23, <1>24, <1>25, <1>26, <1>27
  DEF Next, Usb, Poll, Core

-----------------------------------------------------------------------------
(* Theorems *)

\* The parts of PortInv, each preserved by a lemma above.
LEMMA PortInvParts == PortInv <=> RxPart /\ TxPart /\ CtlPart /\ RxEmptied /\ TxGathered
  BY DEF PortInv, RxPart, TxPart, CtlPart, TypeOK

LEMMA PortInvPartsNext ==
  PortInv' <=> RxPart' /\ TxPart' /\ CtlPart' /\ RxEmptied' /\ TxGathered'
  BY DEF PortInv, RxPart, TxPart, CtlPart, TypeOK

LEMMA PortInvInit == Init => PortInv
<1> SUFFICES ASSUME Init PROVE PortInv
  OBVIOUS
<1>1. FifoLen \in Nat \ {0} /\ MF \in Nat \ {0} /\ 0 \in Pointer
  BY LenFacts DEF Pointer
<1>2. Reset \in Fifo /\ Reset.w0 = 0 /\ Reset.w1 = 0 /\ Reset.r0 = 0 /\ Reset.r1 = 0
  BY <1>1 DEF Reset, Fifo
<1>3. Valid(Reset) \in Int /\ Valid(Reset) = Allocd(Reset) /\ Valid(Reset) = Unseen(Reset)
  BY <1>1, <1>2, LevelTypes DEF Pointer, Valid, Allocd, Unseen
<1>4. <<>> \in Seq(DataOfs) /\ Len(<<>>) = 0
  OBVIOUS
<1>5. RxPart
  <2>1. RxType
    <3>1. rxBds \in Seq(DataOfs) /\ Len(rxBds) = 0
      BY <1>4 DEF Init
    <3>2. rxInFlight = 0 /\ rxDone = 0 /\ rxOvfl = FALSE /\ rxFifo \in Fifo
      BY <1>2 DEF Init
    <3>3. 0 <= MaxInFlight /\ 0 \in 0 .. 0
      BY PortAssumption
    <3> QED
      BY <3>1, <3>2, <3>3 DEF RxType
  <2>2. RxPointers
    BY <1>1, <1>2, ZeroIsMfStart DEF Init, RxPointers
  <2>3. rxInFlight = 0 /\ 0 * MF = 0
    BY <1>1 DEF Init
  <2>4. RxInOrder
    BY <1>3, <2>3 DEF Init, RxInOrder
  <2> QED
    BY <2>1, <2>2, <2>4 DEF RxPart
<1>6. TxPart
  <2>1. TxType
    <3>1. txBds \in Seq(DataOfs) /\ Len(txBds) = 0
      BY <1>4 DEF Init
    <3>2. txInFlight = 0 /\ txDone = 0 /\ txUnfl = FALSE /\ txFifo \in Fifo
      BY <1>2 DEF Init
    <3>3. 0 <= MaxInFlight /\ 0 \in 0 .. 0
      BY PortAssumption
    <3> QED
      BY <3>1, <3>2, <3>3 DEF TxType
  <2>2. TxPointers
    BY <1>1, <1>2, ZeroIsMfStart DEF Init, TxPointers
  <2>3. txInFlight = 0 /\ 0 * MF = 0
    BY <1>1 DEF Init
  <2>4. TxInOrder
    BY <1>3, <2>3 DEF Init, TxInOrder
  <2> QED
    BY <2>1, <2>2, <2>4 DEF TxPart
<1>7. CtlPart /\ RxEmptied /\ TxGathered
  BY DEF Init, CtlPart, CtlType, PipeState, IdleDrained, UpWhileRunning, Down,
         RxEmptied, TxGathered
<1> QED
  BY <1>5, <1>6, <1>7, PortInvParts

LEMMA PortInvStep == PortInv /\ [Next]_vars => PortInv'
<1> SUFFICES ASSUME PortInv, [Next]_vars PROVE PortInv'
  OBVIOUS
<1>1. RxPart /\ TxPart /\ CtlPart /\ RxEmptied /\ TxGathered
  BY PortInvParts
<1>2. RxPart' /\ TxPart' /\ CtlPart'
  BY <1>1, RxStep, TxStep, CtlStep
<1>3. RxEmptied' /\ TxGathered'
  BY <1>1, RxEmptiedStep, TxGatheredStep
<1> QED
  BY <1>2, <1>3, PortInvPartsNext

\* The inductive invariant holds in every reachable state of the port.
THEOREM PortInvariant == Spec => []PortInv
  BY PortInvInit, PortInvStep, PTL DEF Spec

\* Every variable keeps its type, and in_flight is the number of descriptors
\* the core holds.
THEOREM TypeCorrect == Spec => []TypeOK
<1>1. PortInv => TypeOK
  BY DEF PortInv
<1> QED
  BY <1>1, PortInvariant, PTL

\* The receive FIFO hands its slots to the core and back in order, for any zone
\* size, descriptor limit and packet size (e1.c:180-216, 693-774).
THEOREM RxOrder == Spec => []RxInOrder
<1>1. PortInv => RxInOrder
  BY DEF PortInv
<1> QED
  BY <1>1, PortInvariant, PTL

\* So does the transmit FIFO, whatever restarts happen.
THEOREM TxOrder == Spec => []TxInOrder
<1>1. PortInv => TxInOrder
  BY DEF PortInv
<1> QED
  BY <1>1, PortInvariant, PTL

\* No frame the host reads is still being received.
THEOREM RxApart == Spec => []RxNotShared
<1>1. PortInv => RxNotShared
  BY PortInvParts, RxPartApart
<1> QED
  BY <1>1, PortInvariant, PTL

\* No frame being sent is overwritten by what comes from USB.
THEOREM TxApart == Spec => []TxNotShared
<1>1. PortInv => TxNotShared
  BY PortInvParts, TxPartApart
<1> QED
  BY <1>1, PortInvariant, PTL

\* A pipe is IDLE only when the core holds none of its descriptors.
THEOREM IdleIsDrained == Spec => []IdleDrained
<1>1. PortInv => IdleDrained
  BY DEF PortInv
<1> QED
  BY <1>1, PortInvariant, PTL

\* A slot counted from a multiframe start is a multiframe start.
LEMMA SlotIsMfStart ==
  ASSUME NEW s \in MfStart, NEW k \in Nat \ {0},
         NEW V \in 0 .. FifoLen - 1, k * MF <= V
  PROVE  Slot(s, k) \in MfStart
<1>1. MF \in Nat \ {0} /\ NMF \in Nat \ {0}
  BY FifoAssumption
<1>2. PICK j \in 0 .. NMF - 1 : s = j * MF
  BY DEF MfStart
<1>3. s \in Pointer /\ s \in Nat
  BY MfStartFacts DEF Pointer
<1>4. (k - 1) * MF \in 0 .. FifoLen
  <2>1. (k - 1) * MF + MF = k * MF /\ (k - 1) * MF \in Nat
    BY <1>1
  <2> QED
    BY <1>1, <2>1, LenFacts
<1> DEFINE m == (k - 1) * MF
           h == j + (k - 1)
<1>5. h \in Nat /\ s + m = h * MF
  BY <1>1, <1>2
<1> HIDE DEF m, h
<1>6. (s + m) % FifoLen = IF s + m < FifoLen THEN s + m ELSE s + m - FifoLen
  BY <1>3, <1>4, Advance DEF m
<1>7. CASE s + m < FifoLen
  <2>1. h * MF < NMF * MF
    BY <1>5, <1>7 DEF FifoLen
  <2>2. h \in 0 .. NMF - 1
    BY <1>1, <1>5, <2>1
  <2> QED
    BY <1>5, <1>6, <1>7, <2>2 DEF Slot, m, MfStart
<1>8. CASE ~(s + m < FifoLen)
  <2>1. m \in 0 .. FifoLen - 1 /\ s \in 0 .. FifoLen - 1
    BY <1>1, <1>3, <1>4, LenFacts DEF Pointer, m
  <2>2. s + m - FifoLen = (h - NMF) * MF
    <3>1. (h - NMF) * MF = h * MF - NMF * MF
      BY <1>1, <1>5
    <3> QED
      BY <1>3, <1>5, <2>1, <3>1, LenFacts DEF FifoLen
  <2>3. 0 * MF <= (h - NMF) * MF /\ (h - NMF) * MF < NMF * MF
    BY <1>1, <1>8, <2>1, <2>2, LenFacts DEF FifoLen
  <2>4. h - NMF \in 0 .. NMF - 1
    BY <1>1, <1>5, <2>3
  <2> QED
    BY <1>6, <1>8, <2>2, <2>4 DEF Slot, m, MfStart
<1> QED
  BY <1>7, <1>8

\* Every descriptor starts at a multiframe of the zone.
THEOREM BdsAligned == Spec => []BdsMfAligned
<1>1. PortInv => BdsMfAligned
  <2> SUFFICES ASSUME PortInv PROVE BdsMfAligned
    OBVIOUS
  <2>1. ASSUME NEW k \in 1 .. txInFlight
        PROVE  txBds[k] - TxBase \in MfStart
    <3>1. TxPart /\ k \in Nat \ {0} /\ k <= txInFlight
      BY PortInvParts DEF TxPart, TxType
    <3>2. k * MF <= Valid(txFifo) /\ Valid(txFifo) \in 0 .. FifoLen - 1
      <4>1. k * MF <= txInFlight * MF
        BY <3>1, TxFacts
      <4> QED
        BY <3>1, <4>1, TxFacts DEF TxPart, TxInOrder
    <3>3. Slot(txFifo.r0, k) \in MfStart
      BY <3>1, <3>2, SlotIsMfStart DEF TxPart, TxPointers
    <3>4. txBds[k] = TxBase + Slot(txFifo.r0, k) /\ Slot(txFifo.r0, k) \in Int /\ TxBase \in Int
      BY <3>1, <3>3, MfStartFacts, LenFacts DEF TxPart, TxInOrder, Pointer, TxBase
    <3> QED
      BY <3>3, <3>4
  <2>2. ASSUME ~pruned, NEW k \in 1 .. rxInFlight
        PROVE  rxBds[k] - RxBase \in MfStart
    <3>1. RxPart /\ k \in Nat \ {0} /\ k <= rxInFlight
      BY PortInvParts DEF RxPart, RxType
    <3>2. k * MF <= Allocd(rxFifo) /\ Allocd(rxFifo) \in 0 .. FifoLen - 1
      <4>1. k * MF <= rxInFlight * MF
        BY <2>2, <3>1, RxFacts
      <4> QED
        BY <2>2, <3>1, <4>1, RxFacts
    <3>3. Slot(rxFifo.w0, k) \in MfStart
      BY <2>2, <3>1, <3>2, SlotIsMfStart DEF RxPart, RxPointers
    <3>4. rxBds[k] = RxBase + Slot(rxFifo.w0, k) /\ Slot(rxFifo.w0, k) \in Int /\ RxBase \in Int
      BY <2>2, <3>1, <3>3, MfStartFacts, LenFacts DEF RxPart, RxInOrder, Pointer, RxBase
    <3> QED
      BY <3>3, <3>4
  <2> QED
    BY <2>1, <2>2 DEF BdsMfAligned
<1> QED
  BY <1>1, PortInvariant, PTL

\* The step behind each action property.
NoSubmitStep == /\ ~running => Len(rxBds') <= Len(rxBds)
                /\ ~running => Len(txBds') <= Len(txBds)

PrimedStep == (txState = "STARTING" \/ txState = "RECOVER") /\ txState' = "RUN" =>
                Valid(txFifo) >= Prime

ResyncStep == rxState = "RECOVER" /\ rxState' = "RUN" /\ ~pruned =>
                Valid(rxFifo) = 0 /\ (rxBds # <<>> => rxFifo.r0 = rxBds[1] - RxBase)

LEMMA NoSubmitHolds ==
  ASSUME PortInv, [Next]_vars
  PROVE  NoSubmitStep
<1>parts. /\ rxBds \in Seq(DataOfs) /\ txBds \in Seq(DataOfs) /\ UpWhileRunning
          /\ rxInFlight = Len(rxBds) /\ rxDone \in 0 .. rxInFlight
          /\ txInFlight = Len(txBds) /\ txDone \in 0 .. txInFlight
  BY DEF PortInv, TypeOK, RxType, TxType
<1>lens. /\ Len(rxBds) \in Nat /\ Len(txBds) \in Nat
         /\ rxBds # <<>> => Len(Tail(rxBds)) <= Len(rxBds)
         /\ txBds # <<>> => Len(Tail(txBds)) <= Len(txBds)
  BY <1>parts
<1>1. CASE StartPort
  BY <1>lens, <1>1 DEF StartPort, NoSubmitStep, rxCore, txCore
<1>2. CASE StopPort
  BY <1>lens, <1>2 DEF StopPort, NoSubmitStep, rxCore, txCore
<1>3. ASSUME NEW n \in 1 .. MaxChunk, NeedData(n) PROVE NoSubmitStep
  BY <1>lens, <1>3 DEF NeedData, NoSubmitStep, rxCore, txCore
<1>4. ASSUME NEW n \in 1 .. MaxChunk, FeedData(n) PROVE NoSubmitStep
  BY <1>lens, <1>4 DEF FeedData, NoSubmitStep, rxCore, txCore
<1>5. CASE PollBegin
  BY <1>lens, <1>5 DEF PollBegin, NoSubmitStep, rxCore, txCore
<1>6. CASE ReapTx
  <2>1. txBds # <<>> /\ txBds' = Tail(txBds) /\ rxBds' = rxBds
    BY <1>lens, <1>6, <1>parts DEF ReapTx, rxCore
  <2> QED
    BY <1>lens, <2>1 DEF NoSubmitStep
<1>7. CASE ReapTxEnd
  BY <1>lens, <1>7 DEF ReapTxEnd, NoSubmitStep, rxCore, txCore
<1>8. CASE ReapRx
  <2>1. rxBds # <<>> /\ rxBds' = Tail(rxBds) /\ txBds' = txBds
    BY <1>lens, <1>8, <1>parts DEF ReapRx, txCore
  <2> QED
    BY <1>lens, <2>1 DEF NoSubmitStep
<1>9. CASE ReapRxEnd
  BY <1>lens, <1>9 DEF ReapRxEnd, NoSubmitStep, rxCore, txCore
<1>10. CASE RxIdle
  BY <1>lens, <1>10 DEF RxIdle, NoSubmitStep, rxCore, txCore
<1>11. CASE RxShutdown
  BY <1>lens, <1>11 DEF RxShutdown, Drained, NoSubmitStep, rxCore, txCore
<1>12. CASE RxWait
  BY <1>lens, <1>12 DEF RxWait, NoSubmitStep, rxCore, txCore
<1>13. CASE RxService
  BY <1>lens, <1>13 DEF RxService, NoSubmitStep, rxCore, txCore
<1>14. CASE RxFill
  <2>1. running
    BY <1>lens, <1>14, <1>parts DEF RxFill, UpWhileRunning
  <2> QED
    BY <2>1 DEF NoSubmitStep
<1>15. CASE RxFillEnd
  BY <1>lens, <1>15 DEF RxFillEnd, NoSubmitStep, rxCore, txCore
<1>16. CASE TxIdle
  BY <1>lens, <1>16 DEF TxIdle, NoSubmitStep, rxCore, txCore
<1>17. CASE TxShutdown
  BY <1>lens, <1>17 DEF TxShutdown, Drained, NoSubmitStep, rxCore, txCore
<1>18. CASE TxWait
  BY <1>lens, <1>18 DEF TxWait, NoSubmitStep, rxCore, txCore
<1>19. CASE TxService
  BY <1>lens, <1>19 DEF TxService, NoSubmitStep, rxCore, txCore
<1>20. CASE TxFill
  <2>1. running
    BY <1>lens, <1>20, <1>parts DEF TxFill, UpWhileRunning
  <2> QED
    BY <2>1 DEF NoSubmitStep
<1>21. CASE TxFillEnd
  BY <1>lens, <1>21 DEF TxFillEnd, NoSubmitStep, rxCore, txCore
<1>22. CASE CoreRxDone
  BY <1>lens, <1>22 DEF CoreRxDone, NoSubmitStep, rxCore, txCore
<1>23. CASE CoreRxOverflow
  BY <1>lens, <1>23 DEF CoreRxOverflow, NoSubmitStep, rxCore, txCore
<1>24. CASE CoreTxDone
  BY <1>lens, <1>24 DEF CoreTxDone, NoSubmitStep, rxCore, txCore
<1>25. CASE CoreTxUnderflow
  BY <1>lens, <1>25 DEF CoreTxUnderflow, NoSubmitStep, rxCore, txCore
<1>26. CASE LineChange
  BY <1>lens, <1>26 DEF LineChange, NoSubmitStep, rxCore, txCore
<1>27. CASE UNCHANGED vars
  BY <1>lens, <1>27 DEF vars, NoSubmitStep, rxCore, txCore
<1> QED
  BY <1>1, <1>2, <1>3, <1>4, <1>5, <1>6, <1>7, <1>8, <1>9, <1>10, <1>11, <1>12, <1>13, <1>14,
     <1>15, <1>16, <1>17, <1>18, <1>19, <1>20, <1>21, <1>22, <1>23, <1>24, <1>25, <1>26, <1>27
  DEF Next, Usb, Poll, Core

LEMMA PrimedHolds ==
  ASSUME PortInv, [Next]_vars
  PROVE  PrimedStep
<1>parts. TxGathered /\ CtlType
  BY DEF PortInv, TypeOK
<1>1. CASE StartPort
  BY <1>1 DEF StartPort, PrimedStep, Restarted
<1>2. CASE StopPort
  BY <1>2 DEF StopPort, PrimedStep, txVars
<1>3. ASSUME NEW n \in 1 .. MaxChunk, NeedData(n) PROVE PrimedStep
  BY <1>3 DEF NeedData, PrimedStep, txVars
<1>4. ASSUME NEW n \in 1 .. MaxChunk, FeedData(n) PROVE PrimedStep
  BY <1>4 DEF FeedData, PrimedStep, txVars
<1>5. CASE PollBegin
  BY <1>5 DEF PollBegin, PrimedStep, txVars
<1>6. CASE ReapTx
  BY <1>6 DEF ReapTx, PrimedStep, txVars
<1>7. CASE ReapTxEnd
  BY <1>7 DEF ReapTxEnd, PrimedStep, txVars
<1>8. CASE ReapRx
  BY <1>8 DEF ReapRx, PrimedStep, txVars
<1>9. CASE ReapRxEnd
  BY <1>9 DEF ReapRxEnd, PrimedStep, txVars
<1>10. CASE RxIdle
  BY <1>10 DEF RxIdle, PrimedStep, txVars
<1>11. CASE RxShutdown
  BY <1>11 DEF RxShutdown, Drained, PrimedStep, txVars
<1>12. CASE RxWait
  BY <1>12 DEF RxWait, PrimedStep, txVars
<1>13. CASE RxService
  BY <1>13 DEF RxService, PrimedStep, txVars
<1>14. CASE RxFill
  BY <1>14 DEF RxFill, PrimedStep, txVars
<1>15. CASE RxFillEnd
  BY <1>15 DEF RxFillEnd, PrimedStep, txVars
<1>16. CASE TxIdle
  BY <1>16 DEF TxIdle, PrimedStep, txVars
<1>17. CASE TxShutdown
  BY <1>17 DEF TxShutdown, Drained, PrimedStep, txVars
<1>18. CASE TxWait
  BY <1>18 DEF TxWait, PrimedStep
<1>19. CASE TxService
  BY <1>19 DEF TxService, Served, TxChecked, PrimedStep
<1>20. CASE TxFill
  BY <1>20 DEF TxFill, PrimedStep, txVars
<1>21. CASE TxFillEnd
  BY <1>parts, <1>21 DEF TxFillEnd, PrimedStep, TxGathered
<1>22. CASE CoreRxDone
  BY <1>22 DEF CoreRxDone, PrimedStep, txVars
<1>23. CASE CoreRxOverflow
  BY <1>23 DEF CoreRxOverflow, PrimedStep, txVars
<1>24. CASE CoreTxDone
  BY <1>24 DEF CoreTxDone, PrimedStep, txVars
<1>25. CASE CoreTxUnderflow
  BY <1>25 DEF CoreTxUnderflow, PrimedStep, txVars
<1>26. CASE LineChange
  BY <1>26 DEF LineChange, PrimedStep, txVars
<1>27. CASE UNCHANGED vars
  BY <1>27 DEF vars, PrimedStep, txVars
<1> QED
  BY <1>1, <1>2, <1>3, <1>4, <1>5, <1>6, <1>7, <1>8, <1>9, <1>10, <1>11, <1>12, <1>13, <1>14,
     <1>15, <1>16, <1>17, <1>18, <1>19, <1>20, <1>21, <1>22, <1>23, <1>24, <1>25, <1>26, <1>27
  DEF Next, Usb, Poll, Core

LEMMA ResyncHolds ==
  ASSUME PortInv, [Next]_vars
  PROVE  ResyncStep
<1>parts. RxEmptied /\ CtlType /\ RxPart
  BY PortInvParts DEF CtlPart
<1>1. CASE StartPort
  BY <1>1 DEF StartPort, ResyncStep, Restarted
<1>2. CASE StopPort
  BY <1>2 DEF StopPort, ResyncStep, rxVars
<1>3. ASSUME NEW n \in 1 .. MaxChunk, NeedData(n) PROVE ResyncStep
  BY <1>3 DEF NeedData, ResyncStep, rxVars
<1>4. ASSUME NEW n \in 1 .. MaxChunk, FeedData(n) PROVE ResyncStep
  BY <1>4 DEF FeedData, ResyncStep, rxVars
<1>5. CASE PollBegin
  BY <1>5 DEF PollBegin, ResyncStep, rxVars
<1>6. CASE ReapTx
  BY <1>6 DEF ReapTx, ResyncStep, rxVars
<1>7. CASE ReapTxEnd
  BY <1>7 DEF ReapTxEnd, ResyncStep, rxVars
<1>8. CASE ReapRx
  BY <1>8 DEF ReapRx, ResyncStep, rxVars
<1>9. CASE ReapRxEnd
  BY <1>9 DEF ReapRxEnd, ResyncStep, rxVars
<1>10. CASE RxIdle
  BY <1>10 DEF RxIdle, ResyncStep, rxVars
<1>11. CASE RxShutdown
  BY <1>11 DEF RxShutdown, Drained, ResyncStep, rxVars
<1>12. CASE RxWait
  BY <1>12 DEF RxWait, ResyncStep, rxVars
<1>13. CASE RxService
  BY <1>13 DEF RxService, Served, RxChecked, ResyncStep
<1>14. CASE RxFill
  BY <1>14 DEF RxFill, ResyncStep, rxVars
<1>15. CASE RxFillEnd
  <2> SUFFICES ASSUME rxState = "RECOVER", ~pruned
               PROVE  Valid(rxFifo) = 0 /\ (rxBds # <<>> => rxFifo.r0 = rxBds[1] - RxBase)
    BY DEF ResyncStep
  <2>1. Valid(rxFifo) = 0
    BY <1>15, <1>parts DEF RxFillEnd, RxEmptied
  <2>2. rxFifo.w0 \in Pointer /\ rxFifo.r0 \in Pointer /\ FifoLen \in Nat \ {0} /\ MF \in Nat
    BY <1>parts, RxFacts
  <2>3. rxFifo.w0 = rxFifo.r0
    <3>1. (rxFifo.w0 - rxFifo.r0) % FifoLen = 0
      BY <2>1 DEF Valid
    <3> QED
      BY <2>2, <3>1, Distance DEF Pointer
  <2>4. ASSUME rxBds # <<>> PROVE rxFifo.r0 = rxBds[1] - RxBase
    <3>1. 1 \in 1 .. rxInFlight
      BY <1>parts, <2>4 DEF RxPart, RxType
    <3>2. rxBds[1] = RxBase + Slot(rxFifo.w0, 1)
      BY <1>parts, <3>1 DEF RxPart, RxInOrder
    <3>3. (1 - 1) * MF = 0 /\ rxFifo.w0 \in 0 .. FifoLen - 1 /\ rxFifo.w0 + 0 = rxFifo.w0
      BY <2>2 DEF Pointer
    <3>4. rxFifo.w0 % FifoLen = rxFifo.w0
      BY <2>2, <3>3, ModOn
    <3>5. Slot(rxFifo.w0, 1) = rxFifo.w0
      BY <3>3, <3>4 DEF Slot
    <3> QED
      BY <2>3, <3>2, <3>3, <3>5 DEF RxBase
  <2> QED
    BY <2>1, <2>4
<1>16. CASE TxIdle
  BY <1>16 DEF TxIdle, ResyncStep, rxVars
<1>17. CASE TxShutdown
  BY <1>17 DEF TxShutdown, Drained, ResyncStep, rxVars
<1>18. CASE TxWait
  BY <1>18 DEF TxWait, ResyncStep, rxVars
<1>19. CASE TxService
  BY <1>19 DEF TxService, ResyncStep, rxVars
<1>20. CASE TxFill
  BY <1>20 DEF TxFill, ResyncStep, rxVars
<1>21. CASE TxFillEnd
  BY <1>21 DEF TxFillEnd, ResyncStep, rxVars
<1>22. CASE CoreRxDone
  BY <1>22 DEF CoreRxDone, ResyncStep, rxVars
<1>23. CASE CoreRxOverflow
  BY <1>23 DEF CoreRxOverflow, ResyncStep, rxVars
<1>24. CASE CoreTxDone
  BY <1>24 DEF CoreTxDone, ResyncStep, rxVars
<1>25. CASE CoreTxUnderflow
  BY <1>25 DEF CoreTxUnderflow, ResyncStep, rxVars
<1>26. CASE LineChange
  BY <1>26 DEF LineChange, ResyncStep, rxVars
<1>27. CASE UNCHANGED vars
  BY <1>27 DEF vars, ResyncStep, rxVars
<1> QED
  BY <1>1, <1>2, <1>3, <1>4, <1>5, <1>6, <1>7, <1>8, <1>9, <1>10, <1>11, <1>12, <1>13, <1>14,
     <1>15, <1>16, <1>17, <1>18, <1>19, <1>20, <1>21, <1>22, <1>23, <1>24, <1>25, <1>26, <1>27
  DEF Next, Usb, Poll, Core

\* After e1_stop no descriptor reaches the core until the next e1_start.
THEOREM NoSubmitAfterStop == Spec => NoSubmitWhenStopped
<1>1. PortInv /\ [Next]_vars => NoSubmitStep
  BY NoSubmitHolds
<1>2. PortInv /\ [Next]_vars => [NoSubmitStep]_vars
  BY <1>1
<1> QED
  BY <1>2, PortInvariant, PTL DEF Spec, NoSubmitWhenStopped, NoSubmitStep

\* TX runs only with its priming level collected, which e1_poll checks long
\* before it changes the state.
THEOREM StartsPrimed == Spec => TxPrimed
<1>1. PortInv /\ [Next]_vars => [PrimedStep]_vars
  BY PrimedHolds
<1> QED
  BY <1>1, PortInvariant, PTL DEF Spec, TxPrimed, PrimedStep

\* After an error, while no restart has cut the FIFO, the host's next frame is
\* the first of the descriptors given after the error.
THEOREM ResyncsClean == Spec => RxResyncsClean
<1>1. PortInv /\ [Next]_vars => [ResyncStep]_vars
  BY ResyncHolds
<1> QED
  BY <1>1, PortInvariant, PTL DEF Spec, RxResyncsClean, ResyncStep

-----------------------------------------------------------------------------
(* The port implements E1Channel, in both directions: a step of the port   *)
(* is a step of the channel or leaves it alone.  Transmit.                 *)

\* A step that keeps the FIFO and the count of descriptors is a stutter.
LEMMA TxQuiet ==
  ASSUME UNCHANGED <<txFifo, txInFlight>>
  PROVE  UNCHANGED Channel!tx
  BY DEF Channel!tx, Unseen

\* e1_tx_feed_data is a write of the channel.
LEMMA TxFeedIsWrite ==
  ASSUME TxPart, NEW n \in 1 .. MaxChunk, FeedData(n)
  PROVE  Channel!TxWrite
<1> DEFINE g == WriteFrames(txFifo, n)
<1>1. n \in Nat
  BY PortAssumption, LenFacts
<1>2. txFifo' = g /\ txInFlight' = txInFlight
  BY DEF FeedData
<1>3. g \in Fifo /\ Unseen(txFifo) <= Unseen(g)
      /\ Valid(g) - Unseen(g) = Valid(txFifo) - Unseen(txFifo)
  BY <1>1, TxFacts, WriteFramesLevels
<1> HIDE DEF g
<1>4. Unseen(g) \in 0 .. FifoLen - 1 /\ Valid(g) \in 0 .. FifoLen - 1
  BY <1>3, LevelTypes DEF Pointer
<1>5. Valid(txFifo) = Unseen(txFifo) + txInFlight * MF
  BY DEF TxPart, TxInOrder
<1>6. Unseen(g) \in Unseen(txFifo) .. ((FifoLen - 1) - txInFlight * MF)
  BY <1>3, <1>4, <1>5, TxFacts
<1> QED
  BY <1>2, <1>6 DEF Channel!TxWrite

LEMMA TxReapIsReturn ==
  ASSUME TxPart, ReapTx
  PROVE  Channel!TxReturn
<1>1. txFifo' = Discard(txFifo) /\ txInFlight' = txInFlight - 1 /\ txDone > 0
  BY DEF ReapTx
<1>2. txInFlight \in Nat \ {0}
  BY <1>1 DEF TxPart, TxType
<1>3. txInFlight * MF = (txInFlight - 1) * MF + MF /\ (txInFlight - 1) * MF \in Nat
  BY <1>2, LenFacts
<1>4. Discard(txFifo).w0 = txFifo.w0 /\ Discard(txFifo).r1 = txFifo.r1
  BY TxFacts DEF Discard, Fifo
<1>5. Unseen(txFifo)' = Unseen(txFifo)
  BY <1>1, <1>4 DEF Unseen
<1>6. (txInFlight * MF)' = txInFlight * MF - MF /\ txInFlight * MF >= MF
  BY <1>1, <1>3, LenFacts
<1> QED
  BY <1>5, <1>6 DEF Channel!TxReturn

LEMMA TxSubmitIsLend ==
  ASSUME TxPart, TxFill
  PROVE  Channel!TxLend
<1>1. txFifo' = Peek(txFifo) /\ txInFlight' = txInFlight + 1 /\ Unseen(txFifo) >= MF
  BY DEF TxFill, TxMayFill, CanPeek
<1> DEFINE r == (txFifo.r1 + MF) % FifoLen
<1>2. Peek(txFifo).w0 = txFifo.w0 /\ Peek(txFifo).r1 = r
  BY TxFacts DEF Peek, Fifo
<1>3. (txFifo.w0 - r) % FifoLen = ((txFifo.w0 - txFifo.r1) % FifoLen) - MF
  BY <1>1, TxFacts, DistanceDown DEF Unseen
<1>4. Unseen(txFifo)' = Unseen(txFifo) - MF
  BY <1>1, <1>2, <1>3 DEF Unseen
<1>5. (txInFlight * MF)' = txInFlight * MF + MF
  BY <1>1, TxFacts
<1> QED
  BY <1>1, <1>4, <1>5 DEF Channel!TxLend

LEMMA TxStartIsClear ==
  ASSUME TxPart, CtlPart, StartPort
  PROVE  Channel!TxClear \/ UNCHANGED Channel!tx
<1>1. txInFlight' = txInFlight
  BY DEF StartPort
<1>2. CASE txState = "IDLE"
  <2>1. txInFlight = 0 /\ txFifo' = Reset
    BY <1>2 DEF CtlPart, IdleDrained, StartPort, CleanIfIdle
  <2>2. 0 \in 0 .. FifoLen - 1 /\ FifoLen \in Nat \ {0} /\ 0 * MF = 0
    BY LenFacts
  <2>3. Unseen(Reset) = 0
    BY <2>2, ModOn DEF Unseen, Reset
  <2>4. Unseen(txFifo)' = 0
    BY <2>1, <2>3 DEF Unseen
  <2> QED
    BY <1>1, <2>1, <2>2, <2>4 DEF Channel!TxClear
<1>3. CASE txState # "IDLE"
  <2>1. txFifo' = txFifo
    BY <1>3 DEF StartPort, CleanIfIdle
  <2> QED
    BY <1>1, <2>1, TxQuiet
<1> QED
  BY <1>2, <1>3

LEMMA TxChannelStep ==
  ASSUME TxPart, CtlPart, [Next]_vars
  PROVE  Channel!TxNext \/ UNCHANGED Channel!tx
<1>1. CASE StartPort
  BY <1>1, TxStartIsClear DEF Channel!TxNext
<1>2. CASE StopPort
  BY <1>2, TxQuiet DEF StopPort, txVars
<1>3. ASSUME NEW n \in 1 .. MaxChunk, NeedData(n) PROVE Channel!TxNext \/ UNCHANGED Channel!tx
  BY <1>3, TxQuiet DEF NeedData, txVars
<1>4. ASSUME NEW n \in 1 .. MaxChunk, FeedData(n) PROVE Channel!TxNext \/ UNCHANGED Channel!tx
  BY <1>4, TxFeedIsWrite DEF Channel!TxNext
<1>5. CASE PollBegin
  BY <1>5, TxQuiet DEF PollBegin, txVars
<1>6. CASE ReapTx
  BY <1>6, TxReapIsReturn DEF Channel!TxNext
<1>7. CASE ReapTxEnd
  BY <1>7, TxQuiet DEF ReapTxEnd, txVars
<1>8. CASE ReapRx
  BY <1>8, TxQuiet DEF ReapRx, txVars
<1>9. CASE ReapRxEnd
  BY <1>9, TxQuiet DEF ReapRxEnd, txVars
<1>10. CASE RxIdle
  BY <1>10, TxQuiet DEF RxIdle, txVars
<1>11. CASE RxShutdown
  BY <1>11, TxQuiet DEF RxShutdown, txVars
<1>12. CASE RxWait
  BY <1>12, TxQuiet DEF RxWait, txVars
<1>13. CASE RxService
  BY <1>13, TxQuiet DEF RxService, txVars
<1>14. CASE RxFill
  BY <1>14, TxQuiet DEF RxFill, txVars
<1>15. CASE RxFillEnd
  BY <1>15, TxQuiet DEF RxFillEnd, txVars
<1>16. CASE TxIdle
  BY <1>16, TxQuiet DEF TxIdle, txVars
<1>17. CASE TxShutdown
  BY <1>17, TxQuiet DEF TxShutdown, txVars
<1>18. CASE TxWait
  BY <1>18, TxQuiet DEF TxWait, txVars
<1>19. CASE TxService
  BY <1>19, TxQuiet DEF TxService, txVars
<1>20. CASE TxFill
  BY <1>20, TxSubmitIsLend DEF Channel!TxNext
<1>21. CASE TxFillEnd
  BY <1>21, TxQuiet DEF TxFillEnd, txVars
<1>22. CASE CoreRxDone
  BY <1>22, TxQuiet DEF CoreRxDone, txVars
<1>23. CASE CoreRxOverflow
  BY <1>23, TxQuiet DEF CoreRxOverflow, txVars
<1>24. CASE CoreTxDone
  BY <1>24, TxQuiet DEF CoreTxDone, txVars
<1>25. CASE CoreTxUnderflow
  BY <1>25, TxQuiet DEF CoreTxUnderflow, txVars
<1>26. CASE LineChange
  BY <1>26, TxQuiet DEF LineChange, txVars
<1>27. CASE UNCHANGED vars
  BY <1>27, TxQuiet DEF vars, txVars
<1> QED
  BY <1>1, <1>2, <1>3, <1>4, <1>5, <1>6, <1>7, <1>8, <1>9, <1>10, <1>11, <1>12, <1>13, <1>14,
     <1>15, <1>16, <1>17, <1>18, <1>19, <1>20, <1>21, <1>22, <1>23, <1>24, <1>25, <1>26, <1>27
  DEF Next, Usb, Poll, Core

\* The transmit side of a port is a channel, for every size of zone.
THEOREM PortImplementsTxChannel == Spec => TxChannel
<1>1. Init => Channel!TxInit
  <2> SUFFICES ASSUME Init PROVE Channel!TxInit
    OBVIOUS
  <2>1. 0 \in 0 .. FifoLen - 1 /\ FifoLen \in Nat \ {0} /\ 0 * MF = 0
    BY LenFacts
  <2>2. Unseen(Reset) = 0
    BY <2>1, ModOn DEF Unseen, Reset
  <2> QED
    BY <2>1, <2>2 DEF Init, Channel!TxInit
<1>2. PortInv /\ [Next]_vars => [Channel!TxNext]_(Channel!tx)
  BY TxChannelStep, PortInvParts
<1> QED
  BY <1>1, <1>2, PortInvariant, PTL DEF Spec, TxChannel, Channel!TxSpec

-----------------------------------------------------------------------------
(* Receive.  Once the head of the FIFO is cut the channel is broken and    *)
(* allows any step that leaves it so.                                      *)

\* A step that keeps the FIFO, the count of descriptors and the cut.
LEMMA RxQuiet ==
  ASSUME UNCHANGED <<rxFifo, rxInFlight, pruned>>
  PROVE  UNCHANGED Channel!rx
  BY DEF Channel!rx, Valid

\* While the cut lasts nothing is promised.
LEMMA RxBroken ==
  ASSUME pruned'
  PROVE  Channel!RxNext
  BY DEF Channel!RxNext

\* e1_rx_need_data is a read of the channel.
LEMMA RxReadIsRead ==
  ASSUME RxPart, ~pruned, NEW n \in 1 .. MaxChunk, NeedData(n)
  PROVE  Channel!RxNext
<1> DEFINE g == ReadFrames(rxFifo, n)
<1>1. n \in Nat
  BY PortAssumption, LenFacts
<1>2. rxFifo' = g /\ rxInFlight' = rxInFlight /\ pruned' = pruned
  BY DEF NeedData
<1>3. g \in Fifo /\ Valid(g) <= Valid(rxFifo)
  BY <1>1, RxFacts, ReadFramesLevels
<1> HIDE DEF g
<1>4. Valid(g) \in 0 .. FifoLen - 1
  BY <1>3, LevelTypes DEF Pointer
<1>5. Valid(g) \in 0 .. Valid(rxFifo)
  BY <1>3, <1>4, RxFacts
<1> QED
  BY <1>2, <1>5 DEF Channel!RxRead, Channel!RxNext

\* Reaping a descriptor returns a multiframe.
LEMMA RxReapIsReturn ==
  ASSUME RxPart, ~pruned, ReapRx
  PROVE  Channel!RxNext
<1> DEFINE w == (rxFifo.w0 + MF) % FifoLen
<1>1. rxFifo' = Commit(rxFifo) /\ rxInFlight' = rxInFlight - 1 /\ rxDone > 0 /\ pruned' = pruned
  BY DEF ReapRx
<1>2. rxInFlight \in Nat \ {0}
  BY <1>1 DEF RxPart, RxType
<1>3. rxInFlight * MF = (rxInFlight - 1) * MF + MF /\ (rxInFlight - 1) * MF \in Nat
  BY <1>2, LenFacts
<1>4. Commit(rxFifo).w0 = w /\ Commit(rxFifo).r0 = rxFifo.r0
  BY RxFacts DEF Commit, Fifo
<1>5. Valid(rxFifo) + MF < FifoLen
  BY <1>3, RxFacts
<1>6. (w - rxFifo.r0) % FifoLen = ((rxFifo.w0 - rxFifo.r0) % FifoLen) + MF
  BY <1>5, RxFacts, DistanceUp DEF Valid
<1>7. Valid(rxFifo)' = Valid(rxFifo) + MF
  BY <1>1, <1>4, <1>6 DEF Valid
<1>8. (rxInFlight * MF)' = rxInFlight * MF - MF /\ rxInFlight * MF >= MF
  BY <1>1, <1>3, LenFacts
<1> QED
  BY <1>1, <1>7, <1>8 DEF Channel!RxReturn, Channel!RxNext

\* Giving the core a descriptor lends it a multiframe, of the free ones.
LEMMA RxSubmitIsLend ==
  ASSUME RxPart, ~pruned, RxFill
  PROVE  Channel!RxNext
<1>1. rxFifo' = Prepare(rxFifo) /\ rxInFlight' = rxInFlight + 1 /\ Free(rxFifo) >= MF /\ pruned' = pruned
  BY DEF RxFill, RxMayFill, CanPrepare
<1>2. Prepare(rxFifo).w0 = rxFifo.w0 /\ Prepare(rxFifo).r0 = rxFifo.r0
  BY RxFacts DEF Prepare, Fifo
<1>3. Valid(rxFifo)' = Valid(rxFifo)
  BY <1>1, <1>2 DEF Valid
<1>4. (rxInFlight * MF)' = rxInFlight * MF + MF
  BY <1>1, RxFacts
<1>5. Valid(rxFifo) + rxInFlight * MF + MF <= FifoLen - 1
  BY <1>1, RxFacts
<1> QED
  BY <1>1, <1>3, <1>4, <1>5 DEF Channel!RxLend, Channel!RxNext

\* Recovery drops what is unread once the core has given everything back.
LEMMA RxServiceIsClear ==
  ASSUME RxPart, ~pruned, RxService
  PROVE  Channel!RxNext \/ UNCHANGED Channel!rx
<1>1. rxInFlight' = rxInFlight /\ pruned' = pruned
  BY DEF RxService
<1>2. CASE RxChecked = "RECOVER"
  <2>1. rxInFlight = 0 /\ rxFifo' = EmptyTail(rxFifo)
    BY <1>2 DEF RxService
  <2>2. rxFifo.w0 \in MfStart /\ rxFifo \in Fifo
    BY DEF RxPart, RxType, RxPointers
  <2>3. RoundDown(rxFifo.w0) = rxFifo.w0
    BY <2>2, MfStartFacts
  <2>4. rxFifo'.w0 = rxFifo.w0 /\ rxFifo'.r0 = rxFifo.w0
    BY <2>1, <2>2, <2>3 DEF EmptyTail, Fifo
  <2>5. (rxFifo.w0 - rxFifo.w0) % FifoLen = 0
    <3>1. rxFifo.w0 \in Pointer /\ rxFifo.w0 >= rxFifo.w0 /\ rxFifo.w0 - rxFifo.w0 = 0
      BY RxFacts DEF Pointer
    <3> QED
      BY <3>1, LenFacts, Distance
  <2>6. Valid(rxFifo)' = 0 /\ 0 * MF = 0
    BY <2>4, <2>5, LenFacts DEF Valid
  <2> QED
    BY <1>1, <2>1, <2>6 DEF Channel!RxClear, Channel!RxNext
<1>3. CASE RxChecked # "RECOVER"
  BY <1>1, <1>3, RxQuiet DEF RxService
<1> QED
  BY <1>2, <1>3

\* e1_start clears an idle pipe, breaks one whose head it cuts, or does nothing.
LEMMA RxStartIsClear ==
  ASSUME RxPart, CtlPart, StartPort
  PROVE  Channel!RxNext \/ UNCHANGED Channel!rx
<1>1. rxInFlight' = rxInFlight
  BY DEF StartPort
<1>2. CASE rxState = "IDLE"
  <2>1. rxInFlight = 0 /\ ~pruned'
    BY <1>2 DEF CtlPart, IdleDrained, StartPort
  <2>2. rxFifo' = Reset
    BY <1>2, EmptyHeadOfReset DEF StartPort, CleanIfIdle
  <2>3. 0 \in 0 .. FifoLen - 1 /\ FifoLen \in Nat \ {0} /\ 0 * MF = 0
    BY LenFacts
  <2>4. Valid(Reset) = 0
    BY <2>3, ModOn DEF Valid, Reset
  <2>5. Valid(rxFifo)' = 0
    BY <2>2, <2>4 DEF Valid
  <2> QED
    BY <1>1, <2>1, <2>3, <2>5 DEF Channel!RxClear, Channel!RxNext
<1>3. CASE rxState # "IDLE" /\ txState = "SHUTDOWN"
  BY <1>3, RxBroken DEF StartPort
<1>4. CASE rxState # "IDLE" /\ txState # "SHUTDOWN"
  <2>1. rxFifo' = rxFifo /\ pruned' = pruned
    BY <1>4 DEF StartPort, CleanIfIdle, CtlPart, CtlType
  <2> QED
    BY <1>1, <2>1, RxQuiet
<1> QED
  BY <1>2, <1>3, <1>4

\* Every step of the port is a step of the receive channel, or none.
LEMMA RxChannelStep ==
  ASSUME RxPart, CtlPart, [Next]_vars
  PROVE  Channel!RxNext \/ UNCHANGED Channel!rx
<1>1. CASE StartPort
  BY <1>1, RxStartIsClear
<1>2. CASE StopPort
  BY <1>2, RxQuiet DEF StopPort, rxVars
<1>3. ASSUME NEW n \in 1 .. MaxChunk, NeedData(n) PROVE Channel!RxNext \/ UNCHANGED Channel!rx
  <2>1. CASE pruned
    BY <1>3, <2>1, RxBroken DEF NeedData
  <2> QED
    BY <1>3, <2>1, RxReadIsRead
<1>4. ASSUME NEW n \in 1 .. MaxChunk, FeedData(n) PROVE Channel!RxNext \/ UNCHANGED Channel!rx
  BY <1>4, RxQuiet DEF FeedData, rxVars
<1>5. CASE PollBegin
  BY <1>5, RxQuiet DEF PollBegin, rxVars
<1>6. CASE ReapTx
  BY <1>6, RxQuiet DEF ReapTx, rxVars
<1>7. CASE ReapTxEnd
  BY <1>7, RxQuiet DEF ReapTxEnd, rxVars
<1>8. CASE ReapRx
  <2>1. CASE pruned
    BY <1>8, <2>1, RxBroken DEF ReapRx
  <2> QED
    BY <1>8, <2>1, RxReapIsReturn
<1>9. CASE ReapRxEnd
  BY <1>9, RxQuiet DEF ReapRxEnd, rxVars
<1>10. CASE RxIdle
  BY <1>10, RxQuiet DEF RxIdle, rxVars
<1>11. CASE RxShutdown
  BY <1>11, RxQuiet DEF RxShutdown, rxVars
<1>12. CASE RxWait
  BY <1>12, RxQuiet DEF RxWait, rxVars
<1>13. CASE RxService
  <2>1. CASE pruned
    BY <1>13, <2>1, RxBroken DEF RxService
  <2> QED
    BY <1>13, <2>1, RxServiceIsClear
<1>14. CASE RxFill
  <2>1. CASE pruned
    BY <1>14, <2>1, RxBroken DEF RxFill
  <2> QED
    BY <1>14, <2>1, RxSubmitIsLend
<1>15. CASE RxFillEnd
  BY <1>15, RxQuiet DEF RxFillEnd, rxVars
<1>16. CASE TxIdle
  BY <1>16, RxQuiet DEF TxIdle, rxVars
<1>17. CASE TxShutdown
  BY <1>17, RxQuiet DEF TxShutdown, rxVars
<1>18. CASE TxWait
  BY <1>18, RxQuiet DEF TxWait, rxVars
<1>19. CASE TxService
  BY <1>19, RxQuiet DEF TxService, rxVars
<1>20. CASE TxFill
  BY <1>20, RxQuiet DEF TxFill, rxVars
<1>21. CASE TxFillEnd
  BY <1>21, RxQuiet DEF TxFillEnd, rxVars
<1>22. CASE CoreRxDone
  BY <1>22, RxQuiet DEF CoreRxDone, rxVars
<1>23. CASE CoreRxOverflow
  BY <1>23, RxQuiet DEF CoreRxOverflow, rxVars
<1>24. CASE CoreTxDone
  BY <1>24, RxQuiet DEF CoreTxDone, rxVars
<1>25. CASE CoreTxUnderflow
  BY <1>25, RxQuiet DEF CoreTxUnderflow, rxVars
<1>26. CASE LineChange
  BY <1>26, RxQuiet DEF LineChange, rxVars
<1>27. CASE UNCHANGED vars
  BY <1>27, RxQuiet DEF vars, rxVars
<1> QED
  BY <1>1, <1>2, <1>3, <1>4, <1>5, <1>6, <1>7, <1>8, <1>9, <1>10, <1>11, <1>12, <1>13, <1>14,
     <1>15, <1>16, <1>17, <1>18, <1>19, <1>20, <1>21, <1>22, <1>23, <1>24, <1>25, <1>26, <1>27
  DEF Next, Usb, Poll, Core

\* The receive side of a port is a channel, for every size of zone, until a
\* restart cuts its head, and again after the next clean start.
THEOREM PortImplementsRxChannel == Spec => RxChannel
<1>1. Init => Channel!RxInit
  <2> SUFFICES ASSUME Init PROVE Channel!RxInit
    OBVIOUS
  <2>1. 0 \in 0 .. FifoLen - 1 /\ FifoLen \in Nat \ {0} /\ 0 * MF = 0
    BY LenFacts
  <2>2. Valid(Reset) = 0
    BY <2>1, ModOn DEF Valid, Reset
  <2> QED
    BY <2>1, <2>2 DEF Init, Channel!RxInit
<1>2. PortInv /\ [Next]_vars => [Channel!RxNext]_(Channel!rx)
  BY RxChannelStep, PortInvParts
<1> QED
  BY <1>1, <1>2, PortInvariant, PTL DEF Spec, RxChannel, Channel!RxSpec

=============================================================================
