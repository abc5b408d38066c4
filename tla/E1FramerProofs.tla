--------------------------- MODULE E1FramerProofs ---------------------------
(***************************************************************************)
(* Proofs about E1Framer, whatever the frames carry, for every length of   *)
(* an outage and number of disturbances, and every limit of the multiframe *)
(* search from 25: on a line undisturbed since a reset the receiver aligns *)
(* with the far end's numbers; it notices when it is out of step; isolated *)
(* errors never cost it alignment; and its CRC verdicts are true.          *)
(***************************************************************************)
EXTENDS E1Framer, TLAPS

-----------------------------------------------------------------------------
(* The inductive invariant *)

Transmitter ==
  [version : {"old", "new", "basic"}, crc4 : BOOLEAN, ra : BOOLEAN, err : BOOLEAN,
   nr : FrameNr, crc : Nibble, last : Nibble]

Receiver ==
  [state : State, n : Nat, nr : FrameNr, hist : [FrameNr -> Octet],
   ra : BOOLEAN, re : BOOLEAN, err : BOOLEAN, crc : Nibble, last : Nibble]

TypeOK ==
  /\ tx \in Transmitter /\ rx \in Receiver
  /\ line.pure \in BOOLEAN /\ line.calm \in Nat /\ line.held \in Nat /\ line.bad \in 0 .. 3

\* The octet the receiver took d frames ago, and that frame's number at the
\* far end.
Past(d)   == rx.hist[(rx.nr + (16 - d)) % 16]
Number(d) == (tx.nr + (16 - d)) % 16

\* Out of step, every other octet of the calm frames is judged and is no FAS:
\* three of them are too many.
LossInv ==
  Aligned /\ ~FrameInStep =>
    /\ line.calm <= 5 /\ (rx.nr % 2 = 1 => line.calm <= 4)
    /\ \A d \in 1 .. 5 : d <= line.calm /\ (rx.nr + (16 - d)) % 2 = 0 => ~IsFas(Past(d))

\* In step, every FAS that is missing since alignment was spoiled.
HoldInv ==
  Aligned /\ FrameInStep =>
    \A e \in {1, 2} : e <= line.held /\ (rx.nr + (16 - e)) % 2 = 0 /\ ~IsFas(Past(e)) =>
      /\ line.bad >= 1
      /\ e + 2 <= line.held /\ ~IsFas(Past(e + 2)) => line.bad >= 2

\* The octet of d frames ago is the far end's, and says no other number.
Genuine(d) ==
  /\ IsFas(Past(d)) <=> Number(d) % 2 = 0
  /\ Number(d) \in {1, 3, 7} => Top(Past(d)) = 0
  /\ Number(d) \in {5, 9, 11} => Top(Past(d)) = 1

\* The first frames after a reset: the second FAS ends the search.
Beginning ==
  /\ rx.nr \in 0 .. 3 /\ rx.n = 0 /\ (rx.nr = 3 => tx.nr % 2 = 0)
  /\ \A d \in 1 .. 3 : d <= rx.nr => Genuine(d)
  /\ \A p \in FrameNr : p >= rx.nr => rx.hist[p] = 0

\* The multiframe search: since n frames the history is true; what is left of
\* older numbers cannot be taken for the signal, and after ten frames the next
\* one ends the search.
Searching ==
  /\ rx.n \in 0 .. 25 /\ rx.nr = (3 + rx.n) % 16 /\ FrameInStep
  /\ \A d \in 1 .. 10 : d <= rx.n => Genuine(d)
  /\ rx.n <= 2 => rx.hist[13] = 0 /\ rx.hist[15] = 0
  /\ rx.n >= 10 => rx.n - 10 <= (tx.nr + 4) % 16

TrueInv ==
  line.pure =>
    /\ tx.version = "basic" => ~Aligned
    /\ tx.version # "basic" =>
         /\ rx.state = "SEARCH_FRAME" => Beginning
         /\ rx.state = "SEARCH_CRC_MFRAME" => Searching
         /\ rx.state = "ALIGNED_CRC_MFRAME" => InStep

FramerInv == TypeOK /\ LossInv /\ HoldInv /\ TrueInv

-----------------------------------------------------------------------------
(* CRC-4 stays within its four bits. *)

LEMMA Powers == 2^0 = 1 /\ 2^1 = 2 /\ 2^2 = 4 /\ 2^3 = 8 /\ 2^5 = 32
OBVIOUS

LEMMA BitIs ==
  ASSUME NEW n \in Nat, NEW k \in {0, 1, 2, 3, 5}
  PROVE  Bit(n, k) \in {0, 1}
<1>1. \A p \in {1, 2, 4, 8, 32} : (n \div p) % 2 \in {0, 1}
  OBVIOUS
<1> QED BY <1>1, Powers DEF Bit

LEMMA XorIs == \A a, b \in Nibble : Xor[a][b] \in Nibble
<1> SUFFICES ASSUME NEW a \in Nibble, NEW b \in Nibble PROVE Xor[a][b] \in Nibble
  OBVIOUS
<1> DEFINE bit(k) == ((Bit(a, k) + Bit(b, k)) % 2) * 2^k
<1>1. Xor[a][b] = bit(0) + bit(1) + bit(2) + bit(3)
  BY DEF Xor
<1>2. bit(0) \in {0, 1} /\ bit(1) \in {0, 2} /\ bit(2) \in {0, 4} /\ bit(3) \in {0, 8}
  <2>1. \A k \in {0, 1, 2, 3} : Bit(a, k) \in {0, 1} /\ Bit(b, k) \in {0, 1}
    BY BitIs DEF Nibble
  <2>2. \A x, y \in {0, 1} : (x + y) % 2 \in {0, 1}
    OBVIOUS
  <2>3. \A k \in {0, 1, 2, 3} : (Bit(a, k) + Bit(b, k)) % 2 \in {0, 1}
    BY <2>1, <2>2
  <2> QED BY <2>3, Powers
<1> HIDE DEF bit
<1> QED BY <1>1, <1>2 DEF Nibble

LEMMA TimesXIs == \A a \in Nibble : TimesX[a] \in Nibble
<1> SUFFICES ASSUME NEW a \in Nibble PROVE TimesX[a] \in Nibble
  OBVIOUS
<1>1. TimesX[a] = IF a < 8 THEN 2 * a ELSE Xor[2 * a - 16][3]
  BY DEF TimesX
<1>2. CASE a < 8
  BY <1>1, <1>2 DEF Nibble
<1>3. CASE ~(a < 8)
  <2>1. 2 * a - 16 \in Nibble /\ 3 \in Nibble
    BY <1>3 DEF Nibble
  <2> QED BY <1>1, <1>3, <2>1, XorIs
<1> QED BY <1>2, <1>3

LEMMA TimesX12Is == \A a \in Nibble : TimesX12[a] \in Nibble
BY XorIs, TimesXIs DEF TimesX12

LEMMA CrcIs ==
  ASSUME NEW crc \in Nibble, NEW ts0 \in Octet, NEW rest \in Nibble
  PROVE  UpdateCrc(crc, ts0, rest) \in Nibble
<1>1. ASSUME NEW o \in Octet PROVE FrameCrc(crc, o, rest) \in Nibble
  <2>1. o \div 16 \in Nibble /\ o % 16 \in Nibble
    BY DEF Octet, Nibble
  <2>2. TimesX[Xor[crc][o \div 16]] \in Nibble
    BY <2>1, XorIs, TimesXIs
  <2>3. Xor[TimesX12[o % 16]][rest] \in Nibble
    BY <2>1, XorIs, TimesX12Is
  <2> QED BY <2>2, <2>3, XorIs DEF FrameCrc
<1>2. ts0 % 128 \in Octet
  BY DEF Octet
<1> QED BY <1>1, <1>2 DEF UpdateCrc

-----------------------------------------------------------------------------
(* CRC-4 is linear, and no bit of a frame is without effect. *)

LEMMA OfBits ==
  ASSUME NEW b0 \in {0, 1}, NEW b1 \in {0, 1}, NEW b2 \in {0, 1}, NEW b3 \in {0, 1},
         NEW n, n = b0 + 2 * b1 + 4 * b2 + 8 * b3
  PROVE  /\ n \in Nibble
         /\ Bit(n, 0) = b0 /\ Bit(n, 1) = b1 /\ Bit(n, 2) = b2 /\ Bit(n, 3) = b3
<1>1. n \in Nibble
  BY DEF Nibble
<1>2. (n \div 1) % 2 = b0 /\ (n \div 2) % 2 = b1 /\ (n \div 4) % 2 = b2 /\ (n \div 8) % 2 = b3
  OBVIOUS
<1> QED BY <1>1, <1>2, Powers DEF Bit

LEMMA BitsOf ==
  ASSUME NEW n \in Nibble
  PROVE  n = Bit(n, 0) + 2 * Bit(n, 1) + 4 * Bit(n, 2) + 8 * Bit(n, 3)
<1>1. n = ((n \div 1) % 2) + 2 * ((n \div 2) % 2) + 4 * ((n \div 4) % 2) + 8 * ((n \div 8) % 2)
  BY DEF Nibble
<1> QED BY <1>1, Powers DEF Bit

\* A nibble is its bits.
LEMMA SameBits ==
  ASSUME NEW a \in Nibble, NEW b \in Nibble, \A k \in {0, 1, 2, 3} : Bit(a, k) = Bit(b, k)
  PROVE  a = b
BY BitsOf

LEMMA XorBits ==
  ASSUME NEW a \in Nibble, NEW b \in Nibble, NEW k \in {0, 1, 2, 3}
  PROVE  Bit(Xor[a][b], k) = (Bit(a, k) + Bit(b, k)) % 2
<1> DEFINE x(j) == (Bit(a, j) + Bit(b, j)) % 2
<1>1. \A j \in {0, 1, 2, 3} : Bit(a, j) \in {0, 1} /\ Bit(b, j) \in {0, 1}
  BY BitIs DEF Nibble
<1>2. \A j \in {0, 1, 2, 3} : x(j) \in {0, 1}
  <2>1. \A u, v \in {0, 1} : (u + v) % 2 \in {0, 1}
    OBVIOUS
  <2> QED BY <1>1, <2>1
<1>3. Xor[a][b] = x(0) * 2^0 + x(1) * 2^1 + x(2) * 2^2 + x(3) * 2^3
  BY DEF Xor
<1> HIDE DEF x
<1>4. Xor[a][b] = x(0) + 2 * x(1) + 4 * x(2) + 8 * x(3)
  BY <1>2, <1>3, Powers
<1>5. /\ Bit(Xor[a][b], 0) = x(0) /\ Bit(Xor[a][b], 1) = x(1)
      /\ Bit(Xor[a][b], 2) = x(2) /\ Bit(Xor[a][b], 3) = x(3)
  BY <1>2, <1>4, OfBits
<1> QED BY <1>5 DEF x

LEMMA XorCancels ==
  ASSUME NEW a \in Nibble, NEW b \in Nibble, NEW c \in Nibble
  PROVE  /\ Xor[a][b] = Xor[a][c] => b = c
         /\ Xor[b][a] = Xor[c][a] => b = c
<1>1. \A k \in {0, 1, 2, 3} : Bit(a, k) \in {0, 1} /\ Bit(b, k) \in {0, 1} /\ Bit(c, k) \in {0, 1}
  BY BitIs DEF Nibble
<1>2. \A u, v, w \in {0, 1} : /\ (u + v) % 2 = (u + w) % 2 => v = w
                              /\ (v + u) % 2 = (w + u) % 2 => v = w
  OBVIOUS
<1>3. ASSUME Xor[a][b] = Xor[a][c] PROVE b = c
  <2>1. \A k \in {0, 1, 2, 3} : (Bit(a, k) + Bit(b, k)) % 2 = (Bit(a, k) + Bit(c, k)) % 2
    BY <1>3, XorBits
  <2>2. \A k \in {0, 1, 2, 3} : Bit(b, k) = Bit(c, k)
    BY <1>1, <1>2, <2>1
  <2> QED BY <2>2, SameBits
<1>4. ASSUME Xor[b][a] = Xor[c][a] PROVE b = c
  <2>1. \A k \in {0, 1, 2, 3} : (Bit(b, k) + Bit(a, k)) % 2 = (Bit(c, k) + Bit(a, k)) % 2
    BY <1>4, XorBits
  <2>2. \A k \in {0, 1, 2, 3} : Bit(b, k) = Bit(c, k)
    BY <1>1, <1>2, <2>1
  <2> QED BY <2>2, SameBits
<1> QED BY <1>3, <1>4

\* Multiplying by x shifts, and x^4 is x + 1.
LEMMA TimesXBits ==
  ASSUME NEW a \in Nibble
  PROVE  /\ Bit(TimesX[a], 0) = Bit(a, 3)
         /\ Bit(TimesX[a], 1) = (Bit(a, 0) + Bit(a, 3)) % 2
         /\ Bit(TimesX[a], 2) = Bit(a, 1)
         /\ Bit(TimesX[a], 3) = Bit(a, 2)
<1> DEFINE b0 == Bit(a, 0)
           b1 == Bit(a, 1)
           b2 == Bit(a, 2)
           b3 == Bit(a, 3)
<1>1. b0 \in {0, 1} /\ b1 \in {0, 1} /\ b2 \in {0, 1} /\ b3 \in {0, 1}
  BY BitIs DEF Nibble
<1>2. a = b0 + 2 * b1 + 4 * b2 + 8 * b3
  BY BitsOf
<1>3. TimesX[a] = IF a < 8 THEN 2 * a ELSE Xor[2 * a - 16][3]
  BY DEF TimesX
<1> HIDE DEF b0, b1, b2, b3
<1>4. CASE a < 8
  <2>1. b3 = 0 /\ TimesX[a] = 0 + 2 * b0 + 4 * b1 + 8 * b2
    BY <1>1, <1>2, <1>3, <1>4
  <2>2. (b0 + b3) % 2 = b0 /\ 0 \in {0, 1}
    BY <1>1, <2>1
  <2> QED BY <1>1, <2>1, <2>2, OfBits DEF b0, b1, b2, b3
<1>5. CASE ~(a < 8)
  <2> DEFINE s == 2 * a - 16
             x == Xor[s][3]
  <2>1. b3 = 1 /\ s = 0 + 2 * b0 + 4 * b1 + 8 * b2
    BY <1>1, <1>2, <1>5
  <2>2. TimesX[a] = x
    BY <1>3, <1>5
  <2> HIDE DEF s
  <2>3. s \in Nibble /\ Bit(s, 0) = 0 /\ Bit(s, 1) = b0 /\ Bit(s, 2) = b1 /\ Bit(s, 3) = b2
    BY <1>1, <2>1, OfBits
  <2>4. 3 \in Nibble /\ Bit(3, 0) = 1 /\ Bit(3, 1) = 1 /\ Bit(3, 2) = 0 /\ Bit(3, 3) = 0
    <3>1. 3 = 1 + 2 * 1 + 4 * 0 + 8 * 0 /\ 1 \in {0, 1} /\ 0 \in {0, 1}
      OBVIOUS
    <3> QED BY <3>1, OfBits
  <2>5. /\ Bit(x, 0) = (0 + 1) % 2 /\ Bit(x, 1) = (b0 + 1) % 2
        /\ Bit(x, 2) = (b1 + 0) % 2 /\ Bit(x, 3) = (b2 + 0) % 2
    BY <2>3, <2>4, XorBits
  <2>6. (0 + 1) % 2 = 1 /\ (b1 + 0) % 2 = b1 /\ (b2 + 0) % 2 = b2
    BY <1>1
  <2> QED BY <2>1, <2>2, <2>5, <2>6 DEF b0, b1, b2, b3
<1> QED BY <1>4, <1>5

LEMMA TimesXCancels ==
  ASSUME NEW a \in Nibble, NEW b \in Nibble, TimesX[a] = TimesX[b]
  PROVE  a = b
<1>1. /\ Bit(a, 3) = Bit(b, 3) /\ Bit(a, 2) = Bit(b, 2) /\ Bit(a, 1) = Bit(b, 1)
      /\ (Bit(a, 0) + Bit(a, 3)) % 2 = (Bit(b, 0) + Bit(b, 3)) % 2
  BY TimesXBits
<1>2. Bit(a, 0) \in {0, 1} /\ Bit(b, 0) \in {0, 1} /\ Bit(a, 3) \in {0, 1}
  BY BitIs DEF Nibble
<1>3. \A u, v, w \in {0, 1} : (u + w) % 2 = (v + w) % 2 => u = v
  OBVIOUS
<1>4. Bit(a, 0) = Bit(b, 0)
  BY <1>1, <1>2, <1>3
<1> QED BY <1>1, <1>4, SameBits

LEMMA TimesX12Bit ==
  ASSUME NEW a \in Nibble
  PROVE  Bit(TimesX12[a], 3) = (Bit(a, 0) + Bit(a, 1) + Bit(a, 2)) % 2
<1> DEFINE x1 == TimesX[a]
           x2 == TimesX[x1]
           x3 == TimesX[x2]
<1>1. x1 \in Nibble /\ x2 \in Nibble /\ x3 \in Nibble
  BY TimesXIs
<1>2. TimesX12[a] = Xor[Xor[a][x1]][Xor[x2][x3]]
  BY DEF TimesX12
<1>3. /\ Bit(x1, 3) = Bit(a, 2) /\ Bit(x1, 2) = Bit(a, 1)
      /\ Bit(x1, 1) = (Bit(a, 0) + Bit(a, 3)) % 2
  BY TimesXBits
<1> HIDE DEF x1
<1>4. Bit(x2, 3) = Bit(x1, 2) /\ Bit(x2, 2) = Bit(x1, 1)
  BY <1>1, TimesXBits
<1> HIDE DEF x2
<1>5. Bit(x3, 3) = Bit(x2, 2)
  BY <1>1, TimesXBits
<1> HIDE DEF x3
<1>6. Xor[a][x1] \in Nibble /\ Xor[x2][x3] \in Nibble
  BY <1>1, XorIs
<1>7. Bit(TimesX12[a], 3) = (((Bit(a, 3) + Bit(x1, 3)) % 2) + ((Bit(x2, 3) + Bit(x3, 3)) % 2)) % 2
  BY <1>1, <1>2, <1>6, XorBits
<1>8. Bit(a, 0) \in {0, 1} /\ Bit(a, 1) \in {0, 1} /\ Bit(a, 2) \in {0, 1} /\ Bit(a, 3) \in {0, 1}
  BY BitIs DEF Nibble
<1>9. \A p, q, u, v \in {0, 1} :
        (((v + u) % 2) + ((q + ((p + v) % 2)) % 2)) % 2 = (p + q + u) % 2
  OBVIOUS
<1> QED BY <1>3, <1>4, <1>5, <1>7, <1>8, <1>9

-----------------------------------------------------------------------------
(* What the far end sends *)

\* Starting a sub-multiframe concerns the CRC only.
LEMMA StartIs ==
  ASSUME NEW t \in Transmitter
  PROVE  StartSmf(t) \in Transmitter /\ StartSmf(t).nr = t.nr /\ StartSmf(t).version = t.version
<1>1. 0 \in Nibble /\ t.crc \in Nibble
  BY DEF Transmitter, Nibble
<1>2. ASSUME NEW z \in Nibble, NEW u, u = [t EXCEPT !.last = t.crc, !.crc = z]
      PROVE  u \in Transmitter /\ u.nr = t.nr /\ u.version = t.version
  BY <1>1, <1>2 DEF Transmitter
<1>3. CASE t.nr \in {0, 8}
  BY <1>1, <1>2, <1>3 DEF StartSmf
<1>4. CASE t.nr \notin {0, 8}
  BY <1>4 DEF StartSmf
<1> QED BY <1>3, <1>4

\* Every other octet of TS0 is a FAS; of the rest, the top bits are those of
\* the multiframe, except on a line without.
LEMMA FarEndSends ==
  ASSUME NEW t \in Transmitter
  PROVE  /\ PullTs0(t) \in Octet
         /\ IsFas(PullTs0(t)) <=> t.nr % 2 = 0
         /\ t.version = "basic" /\ t.nr % 2 # 0 => Top(PullTs0(t)) = 0
         /\ t.version # "basic" /\ t.nr \in {1, 3, 7} => Top(PullTs0(t)) = 0
         /\ t.version # "basic" /\ t.nr \in {5, 9, 11} => Top(PullTs0(t)) = 1
<1>1. t.nr \in FrameNr /\ t.last \in Nibble /\ t.crc \in Nibble
  BY DEF Transmitter
<1>2. ASSUME NEW u \in Transmitter, u.nr = t.nr, NEW sa \in {0, 31}, NEW e \in {0, 1}
      PROVE  /\ Ts0(u, sa, e) \in Octet
             /\ IsFas(Ts0(u, sa, e)) <=> t.nr % 2 = 0
             /\ t.nr \in {1, 3, 7} => Top(Ts0(u, sa, e)) = 0
             /\ t.nr \in {5, 9, 11} => Top(Ts0(u, sa, e)) = 1
  <2>1. CASE t.nr % 2 = 0
    <3>1. CrcBit(u) \in {0, 1}
      <4>1. (u.nr % 8) \div 2 \in {0, 1, 2, 3}
        BY <1>1, <1>2 DEF FrameNr
      <4>2. 3 - (u.nr % 8) \div 2 \in {0, 1, 2, 3, 5}
        BY <4>1
      <4>3. u.last \in Nat
        BY DEF Transmitter, Nibble
      <4> QED BY <4>2, <4>3, BitIs DEF CrcBit
    <3>2. Ts0(u, sa, e) = 27 + 128 * CrcBit(u)
      BY <1>2, <2>1 DEF Ts0
    <3>3. Ts0(u, sa, e) \in {27, 155}
      BY <3>1, <3>2
    <3> QED BY <1>1, <2>1, <3>3 DEF IsFas, Octet, FrameNr
  <2>2. CASE t.nr % 2 # 0
    <3>1. t.nr \in {1, 3, 5, 7, 9, 11, 13, 15}
      BY <1>1, <2>2 DEF FrameNr
    <3>2. /\ MfBit(t.nr, e) \in {0, 1}
          /\ t.nr \in {1, 3, 7} => MfBit(t.nr, e) = 0
          /\ t.nr \in {5, 9, 11} => MfBit(t.nr, e) = 1
      BY <3>1 DEF MfBit
    <3>3. Flag(u.ra) \in {0, 1}
      BY DEF Flag
    <3>4. Ts0(u, sa, e) = 64 + 128 * MfBit(t.nr, e) + 32 * Flag(u.ra) + sa
      BY <1>2, <2>2 DEF Ts0
    <3> DEFINE m == MfBit(t.nr, e)
               o == Ts0(u, sa, e)
    <3>5. o \in Octet /\ o % 128 # 27 /\ o \div 128 = m
      <4> HIDE DEF m, o
      <4>1. o \in {64 + 128 * m, 64 + 128 * m + 32, 64 + 128 * m + 31, 64 + 128 * m + 63}
        BY <3>2, <3>3, <3>4 DEF m, o
      <4> QED BY <3>2, <4>1 DEF m, Octet
    <3> QED BY <2>2, <3>2, <3>5 DEF IsFas, Top
  <2> QED BY <2>1, <2>2
<1>3. StartSmf(t) \in Transmitter /\ StartSmf(t).nr = t.nr
  BY StartIs
<1>4. Flag(t.err) \in {0, 1} /\ Flag(~t.err) \in {0, 1}
  BY DEF Flag
<1>5. CASE t.version = "old"
  BY <1>2, <1>3, <1>4, <1>5 DEF PullTs0, OldTs0
<1>6. CASE t.version = "new"
  BY <1>2, <1>4, <1>6 DEF PullTs0, NewTs0
<1>7. CASE t.version = "basic"
  BY <1>1, <1>7 DEF PullTs0, BasicTs0, IsFas, Top, Octet, FrameNr
<1> QED BY <1>5, <1>6, <1>7 DEF Transmitter

\* Sending a frame moves to the next number.
LEMMA FarEndMoves ==
  ASSUME NEW t \in Transmitter, NEW p \in Nibble
  PROVE  /\ PullTx(t, p) \in Transmitter /\ PullTx(t, p).version = t.version
         /\ PullTx(t, p).nr = (t.nr + 1) % 16
<1>1. t.nr \in FrameNr /\ t.last \in Nibble /\ t.crc \in Nibble
  BY DEF Transmitter, Nibble
<1>2. ASSUME NEW u \in Transmitter, u.nr = t.nr, u.version = t.version, NEW ts0 \in Octet
      PROVE  /\ Sent(u, ts0, p) \in Transmitter /\ Sent(u, ts0, p).version = t.version
             /\ Sent(u, ts0, p).nr = (t.nr + 1) % 16
  <2>1. UpdateCrc(u.crc, ts0, p) \in Nibble
    BY <1>1, CrcIs DEF Transmitter
  <2>2. (u.nr + 1) % 16 \in FrameNr
    BY <1>1, <1>2 DEF FrameNr
  <2> QED BY <1>2, <2>1, <2>2 DEF Sent, Transmitter
<1>3. StartSmf(t) \in Transmitter /\ StartSmf(t).nr = t.nr /\ StartSmf(t).version = t.version
  BY StartIs
<1>4. PullTs0(t) \in Octet
  BY FarEndSends
<1>5. CASE t.version = "old"
  BY <1>2, <1>3, <1>4, <1>5 DEF PullTx, OldSent, PullTs0
<1>6. CASE t.version = "new"
  BY <1>2, <1>3, <1>4, <1>6 DEF PullTx, NewSent, PullTs0
<1>7. CASE t.version = "basic"
  BY <1>2, <1>7 DEF PullTx, Octet
<1> QED BY <1>5, <1>6, <1>7 DEF Transmitter

-----------------------------------------------------------------------------
(* What arrives *)

What == {"none", "ts0", "top", "data", "ones"}

LEMMA PayloadIs == Payloads \subseteq Nibble /\ \A p \in Payloads : Xor[p][1] \in Nibble
<1>1. Payloads \subseteq Nibble /\ 1 \in Nibble
  BY FramerAssumption DEF Nibble
<1> QED BY <1>1, XorIs

\* What the line does to an octet and the rest of its frame: one bit, or all.
Spoiled(o, p, ts0, rest, what) ==
  /\ what = "none" => ts0 = o /\ rest = p
  /\ what = "ts0"  => ts0 = FlipLow(o) /\ rest = p
  /\ what = "top"  => ts0 = FlipTop(o) /\ rest = p
  /\ what = "data" => ts0 = o /\ rest = Xor[p][1]

\* The line delivers this octet, having done what it says: an octet it did not
\* touch is the far end's, and no FAS is made or lost by the top bit or data.
Arrives(ts0, rest, what) ==
  /\ ts0 \in Octet /\ rest \in Nibble /\ what \in What
  /\ what = "none" => ts0 = PullTs0(tx)
  /\ what \in {"none", "top", "data"} => (IsFas(ts0) <=> tx.nr % 2 = 0)
  /\ \E p \in Payloads : Spoiled(PullTs0(tx), p, ts0, rest, what) /\ Deliver(p, ts0, rest, what)

\* A step delivers a frame, or is one of the three that do not.
LEMMA Steps ==
  ASSUME TypeOK, Next
  PROVE  \/ \E ts0, rest, what : Arrives(ts0, rest, what)
         \/ Outage \/ Slip \/ Reset
<1>1. PullTs0(tx) \in Octet /\ (IsFas(PullTs0(tx)) <=> tx.nr % 2 = 0)
  <2>1. tx \in Transmitter
    BY DEF TypeOK
  <2> QED BY <2>1, FarEndSends
<1>2. FlipLow(PullTs0(tx)) \in Octet
  BY <1>1 DEF FlipLow, Octet
<1>3. FlipTop(PullTs0(tx)) \in Octet /\ (IsFas(FlipTop(PullTs0(tx))) <=> IsFas(PullTs0(tx)))
  <2>1. \A o \in Octet : (o + 128) % 256 \in Octet /\ ((o + 128) % 256) % 128 = o % 128
    BY DEF Octet
  <2> QED BY <1>1, <2>1 DEF FlipTop, IsFas
<1>4. CASE Clean
  <2>1. PICK p \in Payloads : Deliver(p, PullTs0(tx), p, "none")
    BY <1>4 DEF Clean
  <2>2. Arrives(PullTs0(tx), p, "none")
    BY <1>1, <2>1, PayloadIs DEF Arrives, What, Spoiled
  <2> QED BY <2>2
<1>5. CASE SpoilTs0
  <2>1. PICK p \in Payloads : Deliver(p, FlipLow(PullTs0(tx)), p, "ts0")
    BY <1>5 DEF SpoilTs0
  <2>2. Arrives(FlipLow(PullTs0(tx)), p, "ts0")
    BY <1>1, <1>2, <2>1, PayloadIs DEF Arrives, What, Spoiled
  <2> QED BY <2>2
<1>6. CASE SpoilTop
  <2>1. PICK p \in Payloads : Deliver(p, FlipTop(PullTs0(tx)), p, "top")
    BY <1>6 DEF SpoilTop
  <2>2. Arrives(FlipTop(PullTs0(tx)), p, "top")
    BY <1>1, <1>3, <2>1, PayloadIs DEF Arrives, What, Spoiled
  <2> QED BY <2>2
<1>7. CASE SpoilData
  <2>1. PICK p \in Payloads : Deliver(p, PullTs0(tx), Xor[p][1], "data")
    BY <1>7 DEF SpoilData
  <2>2. Arrives(PullTs0(tx), Xor[p][1], "data")
    BY <1>1, <2>1, PayloadIs DEF Arrives, What, Spoiled
  <2> QED BY <2>2
<1>8. CASE Ones
  <2>1. PICK p \in Payloads : Deliver(p, 255, OnesRest, "ones")
    BY <1>8 DEF Ones
  <2>2. 255 \in Octet /\ OnesRest \in Nibble
    BY DEF Octet, OnesRest, Nibble
  <2>3. Arrives(255, OnesRest, "ones")
    BY <2>2, <2>1, PayloadIs DEF Arrives, What, Spoiled
  <2> QED BY <2>3
<1> QED BY <1>4, <1>5, <1>6, <1>7, <1>8 DEF Next

-----------------------------------------------------------------------------
(* A spoiled bit and the CRC *)

\* CRCs that agree, or do not, with none or one bit spoiled between them; of
\* more bits there is nothing to be said.
Differ(a, b, n) == (n = 0 => a = b) /\ (n = 1 => a # b)

Covered(o) == IF IsFas(o) THEN o % 128 ELSE o

LEMMA UpdateIs ==
  ASSUME NEW crc, NEW o, NEW rest
  PROVE  UpdateCrc(crc, o, rest) =
           Xor[TimesX[Xor[crc][Covered(o) \div 16]]][Xor[TimesX12[Covered(o) % 16]][rest]]
BY DEF UpdateCrc, FrameCrc, Covered

LEMMA CoveredIs ==
  ASSUME NEW o \in Octet
  PROVE  Covered(o) \in Octet /\ Covered(o) \div 16 \in Nibble /\ Covered(o) % 16 \in Nibble
BY DEF Covered, Octet, Nibble

\* Two CRCs stay the same, or different, over a frame that is the same.
LEMMA SameFrame ==
  ASSUME NEW a \in Nibble, NEW b \in Nibble, NEW o \in Octet, NEW q \in Octet, NEW rest \in Nibble,
         Covered(o) = Covered(q), UpdateCrc(a, o, rest) = UpdateCrc(b, q, rest)
  PROVE  a = b
<1> DEFINE h == Covered(o) \div 16
           l == Covered(o) % 16
           z == Xor[TimesX12[l]][rest]
<1>1. h \in Nibble /\ l \in Nibble
  BY CoveredIs
<1>2. z \in Nibble /\ Xor[a][h] \in Nibble /\ Xor[b][h] \in Nibble
  BY <1>1, XorIs, TimesX12Is
<1>3. Xor[TimesX[Xor[a][h]]][z] = Xor[TimesX[Xor[b][h]]][z]
  BY UpdateIs
<1> HIDE DEF h, l, z
<1>4. TimesX[Xor[a][h]] = TimesX[Xor[b][h]]
  BY <1>2, <1>3, TimesXIs, XorCancels
<1>5. Xor[a][h] = Xor[b][h]
  BY <1>2, <1>4, TimesXCancels
<1> QED BY <1>1, <1>5, XorCancels

\* The top bit of the CRC, as far as the low bits of TS0 go into it.
LEMMA TopOfCrc ==
  ASSUME NEW c \in Nibble, NEW o \in Octet, NEW rest \in Nibble
  PROVE  LET h == Covered(o) \div 16
             l == Covered(o) % 16
         IN  Bit(UpdateCrc(c, o, rest), 3) =
               (((Bit(c, 2) + Bit(h, 2)) % 2)
                + ((((Bit(l, 0) + Bit(l, 1) + Bit(l, 2)) % 2) + Bit(rest, 3)) % 2)) % 2
<1> DEFINE h == Covered(o) \div 16
           l == Covered(o) % 16
           y == Xor[c][h]
           u == TimesX12[l]
           z == Xor[u][rest]
<1>1. h \in Nibble /\ l \in Nibble
  BY CoveredIs
<1>2. y \in Nibble /\ u \in Nibble /\ z \in Nibble /\ TimesX[y] \in Nibble
  BY <1>1, XorIs, TimesX12Is, TimesXIs
<1>3. UpdateCrc(c, o, rest) = Xor[TimesX[y]][z]
  BY UpdateIs
<1>4. Bit(y, 2) = (Bit(c, 2) + Bit(h, 2)) % 2
  BY <1>1, XorBits
<1>5. Bit(u, 3) = (Bit(l, 0) + Bit(l, 1) + Bit(l, 2)) % 2
  BY <1>1, TimesX12Bit
<1>6. Bit(z, 3) = (Bit(u, 3) + Bit(rest, 3)) % 2
  BY <1>2, XorBits
<1> HIDE DEF y, u, z
<1>7. Bit(TimesX[y], 3) = Bit(y, 2)
  BY <1>2, TimesXBits
<1>8. Bit(Xor[TimesX[y]][z], 3) = (Bit(TimesX[y], 3) + Bit(z, 3)) % 2
  BY <1>2, XorBits
<1> QED BY <1>3, <1>4, <1>5, <1>6, <1>7, <1>8

\* One spoiled bit that is covered makes one CRC two.
LEMMA OneBit ==
  ASSUME NEW c \in Nibble, NEW o \in {27, 155, 95, 127, 223, 255},
         NEW p \in Nibble, NEW ts0, NEW rest, NEW what, Spoiled(o, p, ts0, rest, what),
         what \in {"ts0", "data"} \/ (what = "top" /\ ~IsFas(o))
  PROVE  UpdateCrc(c, ts0, rest) # UpdateCrc(c, o, p)
<1>1. o \in Octet
  BY DEF Octet
<1>2. \A k \in {0, 1, 2, 3} : Bit(p, k) \in {0, 1} /\ Bit(c, k) \in {0, 1}
  BY <1>1, BitIs DEF Nibble
<1>3. CASE what = "data"
  <2> DEFINE h == Covered(o) \div 16
             u == TimesX12[Covered(o) % 16]
             y == TimesX[Xor[c][h]]
  <2>1. u \in Nibble /\ y \in Nibble
    BY <1>1, CoveredIs, TimesX12Is, XorIs, TimesXIs
  <2>2. /\ UpdateCrc(c, o, p) = Xor[y][Xor[u][p]]
        /\ UpdateCrc(c, o, Xor[p][1]) = Xor[y][Xor[u][Xor[p][1]]]
    BY UpdateIs
  <2>3. 1 \in Nibble /\ Xor[p][1] \in Nibble
    <3>1. 1 \in Nibble
      BY DEF Nibble
    <3> QED BY <3>1, XorIs
  <2>4. Xor[p][1] # p
    <3>1. Bit(1, 0) = 1
      BY Powers DEF Bit
    <3>2. Bit(Xor[p][1], 0) = (Bit(p, 0) + 1) % 2
      BY <1>1, <2>3, <3>1, XorBits
    <3> QED BY <1>2, <3>2
  <2> HIDE DEF u, y
  <2>5. Xor[u][p] \in Nibble /\ Xor[u][Xor[p][1]] \in Nibble
    BY <1>1, <2>1, <2>3, XorIs
  <2>6. Xor[u][p] # Xor[u][Xor[p][1]]
    BY <1>1, <2>1, <2>3, <2>4, XorCancels
  <2>7. Xor[y][Xor[u][p]] # Xor[y][Xor[u][Xor[p][1]]]
    BY <2>1, <2>5, <2>6, XorCancels
  <2> QED BY <1>3, <2>2, <2>7 DEF Spoiled
<1>4. CASE what = "top"
  <2>1. rest = p /\ ts0 = (o + 128) % 256 /\ o \in {95, 127, 223, 255}
    BY <1>4 DEF Spoiled, FlipTop, IsFas
  <2>2. ts0 \in Octet /\ Covered(o) = o /\ Covered(ts0) = ts0 /\ ts0 % 16 = o % 16 /\ ts0 \div 16 # o \div 16
    BY <2>1 DEF Covered, IsFas, Octet
  <2> DEFINE h == o \div 16
             g == ts0 \div 16
             z == Xor[TimesX12[o % 16]][p]
  <2>3. h \in Nibble /\ g \in Nibble /\ z \in Nibble /\ h # g
    <3>1. h \in Nibble /\ g \in Nibble /\ o % 16 \in Nibble
      BY <1>1, <2>2 DEF Octet, Nibble
    <3> QED BY <1>1, <2>2, <3>1, XorIs, TimesX12Is
  <2>4. /\ UpdateCrc(c, o, p) = Xor[TimesX[Xor[c][h]]][z]
        /\ UpdateCrc(c, ts0, rest) = Xor[TimesX[Xor[c][g]]][z]
    <3>1. UpdateCrc(c, o, p) = Xor[TimesX[Xor[c][o \div 16]]][Xor[TimesX12[o % 16]][p]]
      BY <2>2, UpdateIs
    <3>2. UpdateCrc(c, ts0, p) = Xor[TimesX[Xor[c][ts0 \div 16]]][Xor[TimesX12[ts0 % 16]][p]]
      BY <2>2, UpdateIs
    <3> QED BY <2>1, <2>2, <3>1, <3>2, SMTT(30)
  <2> HIDE DEF h, g, z
  <2>5. Xor[c][h] \in Nibble /\ Xor[c][g] \in Nibble /\ Xor[c][h] # Xor[c][g]
    BY <2>3, XorIs, XorCancels
  <2>6. /\ TimesX[Xor[c][h]] \in Nibble /\ TimesX[Xor[c][g]] \in Nibble
        /\ TimesX[Xor[c][h]] # TimesX[Xor[c][g]]
    BY <2>5, TimesXIs, TimesXCancels
  <2> QED BY <2>3, <2>4, <2>6, XorCancels
<1>5. CASE what = "ts0"
  <2>1. rest = p /\ ts0 = FlipLow(o)
    BY <1>5 DEF Spoiled
  <2>2. ts0 = CASE o = 27 -> 26 [] o = 155 -> 154 [] o = 95 -> 94 [] o = 127 -> 126
                [] o = 223 -> 222 [] o = 255 -> 254
    BY <2>1 DEF FlipLow
  <2> DEFINE h == Covered(o) \div 16
             l == Covered(o) % 16
             g == Covered(ts0) \div 16
             m == Covered(ts0) % 16
  <2>3. /\ ts0 \in Octet
        /\ <<h, l, g, m>> \in {<<1, 11, 1, 10>>, <<1, 11, 9, 10>>, <<5, 15, 5, 14>>, <<7, 15, 7, 14>>,
                               <<13, 15, 13, 14>>, <<15, 15, 15, 14>>}
    BY <2>2 DEF Covered, IsFas, Octet
  <2> HIDE DEF h, l, g, m
  <2>4. /\ Bit(h, 2) = Bit(g, 2) /\ Bit(h, 2) \in {0, 1}
        /\ (Bit(l, 0) + Bit(l, 1) + Bit(l, 2)) % 2 # (Bit(m, 0) + Bit(m, 1) + Bit(m, 2)) % 2
        /\ (Bit(l, 0) + Bit(l, 1) + Bit(l, 2)) % 2 \in {0, 1}
        /\ (Bit(m, 0) + Bit(m, 1) + Bit(m, 2)) % 2 \in {0, 1}
    <3>1. \A n : /\ Bit(n, 0) = (n \div 1) % 2 /\ Bit(n, 1) = (n \div 2) % 2 /\ Bit(n, 2) = (n \div 4) % 2
      BY Powers DEF Bit
    <3>2. /\ (h \div 4) % 2 = (g \div 4) % 2 /\ (h \div 4) % 2 \in {0, 1}
          /\ (((l \div 1) % 2) + ((l \div 2) % 2) + ((l \div 4) % 2)) % 2
               # (((m \div 1) % 2) + ((m \div 2) % 2) + ((m \div 4) % 2)) % 2
          /\ (((l \div 1) % 2) + ((l \div 2) % 2) + ((l \div 4) % 2)) % 2 \in {0, 1}
          /\ (((m \div 1) % 2) + ((m \div 2) % 2) + ((m \div 4) % 2)) % 2 \in {0, 1}
      BY <2>3
    <3> QED BY <3>1, <3>2
  <2>5. /\ Bit(UpdateCrc(c, o, p), 3) =
             (((Bit(c, 2) + Bit(h, 2)) % 2)
              + ((((Bit(l, 0) + Bit(l, 1) + Bit(l, 2)) % 2) + Bit(p, 3)) % 2)) % 2
        /\ Bit(UpdateCrc(c, ts0, p), 3) =
             (((Bit(c, 2) + Bit(g, 2)) % 2)
              + ((((Bit(m, 0) + Bit(m, 1) + Bit(m, 2)) % 2) + Bit(p, 3)) % 2)) % 2
    BY <1>1, <2>3, TopOfCrc DEF h, l, g, m
  <2>6. \A d, e, x, y \in {0, 1} :
          x # y => (d + ((x + e) % 2)) % 2 # (d + ((y + e) % 2)) % 2
    OBVIOUS
  <2>7. (Bit(c, 2) + Bit(h, 2)) % 2 \in {0, 1} /\ (Bit(c, 2) + Bit(g, 2)) % 2 = (Bit(c, 2) + Bit(h, 2)) % 2
    BY <1>2, <2>4
  <2>8. Bit(UpdateCrc(c, o, p), 3) # Bit(UpdateCrc(c, ts0, p), 3)
    BY <1>2, <2>4, <2>5, <2>6, <2>7
  <2> QED BY <2>1, <2>8
<1> QED BY <1>3, <1>4, <1>5

\* The CRCs with which the transmitter computes a frame.
SmfCrc(t)  == IF t.nr \in {0, 8} THEN 0 ELSE t.crc
SmfLast(t) == IF t.nr \in {0, 8} THEN t.crc ELSE t.last

LEMMA SmfIs ==
  ASSUME NEW t \in Transmitter
  PROVE  /\ SmfCrc(t) \in Nibble /\ SmfLast(t) \in Nibble
         /\ StartSmf(t) \in Transmitter
         /\ StartSmf(t).crc = SmfCrc(t) /\ StartSmf(t).last = SmfLast(t)
         /\ StartSmf(t).nr = t.nr /\ StartSmf(t).crc4 = t.crc4 /\ StartSmf(t).err = t.err
<1>1. 0 \in Nibble /\ t.crc \in Nibble /\ t.last \in Nibble
  BY DEF Transmitter, Nibble
<1>2. CASE t.nr \in {0, 8}
  <2>1. StartSmf(t) = [t EXCEPT !.last = t.crc, !.crc = 0]
    BY <1>2 DEF StartSmf
  <2>2. /\ StartSmf(t).crc = 0 /\ StartSmf(t).last = t.crc
        /\ StartSmf(t).nr = t.nr /\ StartSmf(t).crc4 = t.crc4 /\ StartSmf(t).err = t.err
    BY <1>1, <2>1 DEF Transmitter
  <2> QED BY <1>1, <1>2, <2>2, StartIs DEF SmfCrc, SmfLast
<1>3. CASE t.nr \notin {0, 8}
  BY <1>1, <1>3, StartIs DEF StartSmf, SmfCrc, SmfLast
<1> QED BY <1>2, <1>3

\* What the earlier version of the transmitter sends, and what it becomes.
LEMMA OldSends ==
  ASSUME NEW t \in Transmitter, NEW p \in Nibble, t.version = "old", t.crc4
  PROVE  /\ PullTs0(t) \in {27, 155, 95, 127, 223, 255}
         /\ t.nr % 2 = 0 => Top(PullTs0(t)) = Bit(SmfLast(t), 3 - (t.nr % 8) \div 2)
         /\ t.nr \in {13, 15} => Top(PullTs0(t)) = Flag(~t.err)
         /\ PullTx(t, p).crc = UpdateCrc(SmfCrc(t), PullTs0(t), p)
         /\ PullTx(t, p).last = SmfLast(t) /\ PullTx(t, p).err = t.err
<1> DEFINE u == StartSmf(t)
           o == PullTs0(t)
           c == UpdateCrc(u.crc, o, p)
<1>1. /\ u \in Transmitter /\ u.crc = SmfCrc(t) /\ u.last = SmfLast(t)
      /\ u.nr = t.nr /\ u.crc4 = t.crc4 /\ u.err = t.err
  BY SmfIs
<1>2. t.nr \in 0 .. 15
  BY DEF Transmitter, FrameNr
<1>3. o = Ts0(u, 31, Flag(~t.err))
  BY DEF PullTs0, OldTs0
<1>4. PullTx(t, p) = [u EXCEPT !.nr = (u.nr + 1) % 16, !.crc = c]
  BY DEF PullTx, OldSent, PullTs0, Sent
<1>5. SmfLast(t) \in Nat
  BY SmfIs DEF Nibble
<1>6. /\ PullTx(t, p).crc = c /\ PullTx(t, p).last = u.last /\ PullTx(t, p).err = u.err
  <2> HIDE DEF u, c, o
  <2> QED BY <1>1, <1>4 DEF Transmitter
<1>7. c = UpdateCrc(SmfCrc(t), PullTs0(t), p)
  BY <1>1
<1> HIDE DEF u, c, o
<1>8. CASE t.nr % 2 = 0
  <2>1. o = 27 + 128 * Bit(SmfLast(t), 3 - (t.nr % 8) \div 2)
    BY <1>1, <1>3, <1>8 DEF Ts0, CrcBit
  <2>2. 3 - (t.nr % 8) \div 2 \in {0, 1, 2, 3, 5}
    BY <1>2
  <2>3. Bit(SmfLast(t), 3 - (t.nr % 8) \div 2) \in {0, 1}
    BY <1>5, <2>2, BitIs
  <2>4. o \in {27, 155} /\ Top(o) = Bit(SmfLast(t), 3 - (t.nr % 8) \div 2)
    BY <2>1, <2>3 DEF Top
  <2>5. t.nr \notin {13, 15}
    BY <1>8
  <2> QED BY <1>1, <1>6, <1>7, <1>8, <2>4, <2>5 DEF o
<1>9. CASE t.nr % 2 # 0
  <2> DEFINE e == MfBit(t.nr, Flag(~t.err))
             f == Flag(u.ra)
  <2>1. t.nr \in {1, 3, 5, 7, 9, 11, 13, 15}
    BY <1>2, <1>9
  <2>2. f \in {0, 1} /\ Flag(~t.err) \in {0, 1}
    BY DEF Flag
  <2>3. e \in {0, 1} /\ (t.nr \in {13, 15} => e = Flag(~t.err))
    BY <2>1, <2>2 DEF MfBit
  <2>4. o = 64 + 128 * e + 32 * f + 31
    BY <1>1, <1>3, <1>9 DEF Ts0
  <2> HIDE DEF e, f
  <2>5. o \in {95, 127, 223, 255} /\ Top(o) = e
    BY <2>2, <2>3, <2>4 DEF Top
  <2> QED BY <1>1, <1>6, <1>7, <1>9, <2>3, <2>5 DEF o
<1> QED BY <1>8, <1>9

LEMMA PullCrc4 ==
  ASSUME NEW t \in Transmitter, NEW p \in Nibble, t.version = "old"
  PROVE  PullTx(t, p).crc4 = t.crc4
<1> DEFINE u == StartSmf(t)
           c == UpdateCrc(u.crc, OldTs0(t), p)
<1>1. u \in Transmitter /\ u.crc4 = t.crc4
  BY SmfIs
<1>2. PullTx(t, p) = [u EXCEPT !.nr = (u.nr + 1) % 16, !.crc = c]
  BY DEF PullTx, OldSent, Sent
<1> HIDE DEF u, c
<1> QED BY <1>1, <1>2 DEF Transmitter

\* How many bits of a frame's CRC the line spoiled, and whether its C bit.
Weight(what) ==
  IF what = "ones" THEN 2
  ELSE IF what \in {"ts0", "data"} \/ (what = "top" /\ tx.nr % 2 = 1) THEN 1 ELSE 0
SpoiledC(what) == tx.nr % 2 = 0 /\ what \in {"ts0", "top", "ones"}

\* Both ends take a frame into their CRCs: they differ by the bits spoiled.
LEMMA CrcStep ==
  ASSUME tx \in Transmitter, tx.version = "old", tx.crc4, NEW p \in Payloads, NEW ts0, NEW rest, NEW what,
         Arrives(ts0, rest, what), Spoiled(PullTs0(tx), p, ts0, rest, what),
         NEW a \in Nibble, NEW b \in Nibble, NEW n \in 0 .. 2, Differ(a, b, n)
  PROVE  Differ(UpdateCrc(a, ts0, rest), UpdateCrc(b, PullTs0(tx), p), Cap(n + Weight(what), 2))
<1> DEFINE o == PullTs0(tx)
           w == Weight(what)
<1>1. /\ p \in Nibble /\ o \in {27, 155, 95, 127, 223, 255} /\ o \in Octet /\ (IsFas(o) <=> tx.nr % 2 = 0)
      /\ ts0 \in Octet /\ rest \in Nibble /\ what \in What /\ Spoiled(o, p, ts0, rest, what)
      /\ tx.nr % 2 \in {0, 1}
  BY PayloadIs, OldSends, FarEndSends DEF Arrives, Transmitter, FrameNr
<1>2. w \in {0, 1, 2}
  BY DEF Weight
<1> HIDE DEF o
<1>3. CASE w = 0
  <2>1. what = "none" \/ (what = "top" /\ IsFas(o))
    BY <1>1, <1>3 DEF Weight, What
  <2>2. Covered(ts0) = Covered(o) /\ rest = p
    <3>1. CASE what = "none"
      BY <1>1, <3>1 DEF Spoiled
    <3>2. CASE what = "top" /\ IsFas(o)
      BY <1>1, <3>2 DEF Spoiled, FlipTop, Covered, IsFas
    <3> QED BY <2>1, <3>1, <3>2
  <2>3. Cap(n + w, 2) = n
    BY <1>3 DEF Cap
  <2>4. UpdateCrc(a, ts0, rest) = UpdateCrc(b, o, p) => a = b
    BY <1>1, <2>2, SameFrame
  <2>5. a = b => UpdateCrc(a, ts0, rest) = UpdateCrc(b, o, p)
    BY <2>2, UpdateIs
  <2> QED BY <2>3, <2>4, <2>5 DEF Differ, o
<1>4. CASE w = 1 /\ n = 0
  <2>1. a = b /\ Cap(n + w, 2) = 1
    BY <1>4 DEF Differ, Cap
  <2>2. what \in {"ts0", "data"} \/ (what = "top" /\ ~IsFas(o))
    BY <1>1, <1>4 DEF Weight
  <2>3. UpdateCrc(a, ts0, rest) # UpdateCrc(a, o, p)
    BY <1>1, <2>2, OneBit
  <2> QED BY <2>1, <2>3 DEF Differ, o
<1>5. CASE w + n >= 2
  <2>1. Cap(n + w, 2) = 2
    BY <1>2, <1>5 DEF Cap
  <2> QED BY <2>1 DEF Differ
<1> QED BY <1>2, <1>3, <1>4, <1>5

-----------------------------------------------------------------------------
(* What the receiver does with it *)

\* A receiver with another number, state and count, and one with other findings.
MovedTo(r, k, s, n) == [r EXCEPT !.nr = k, !.state = s, !.n = n]
Found(r, e, l, c, x, a) == [r EXCEPT !.err = e, !.last = l, !.crc = c, !.re = x, !.ra = a]

LEMMA MovedIs ==
  ASSUME NEW r \in Receiver, NEW k \in FrameNr, NEW s \in State, NEW n \in Nat
  PROVE  /\ MovedTo(r, k, s, n) \in Receiver /\ MovedTo(r, k, s, n).hist = r.hist
         /\ MovedTo(r, k, s, n).nr = k /\ MovedTo(r, k, s, n).state = s
         /\ MovedTo(r, k, s, n).n = n
BY DEF MovedTo, Receiver

LEMMA FoundIs ==
  ASSUME NEW r \in Receiver, NEW e \in BOOLEAN, NEW l \in Nibble, NEW c \in Nibble,
         NEW x \in BOOLEAN, NEW a \in BOOLEAN
  PROVE  /\ Found(r, e, l, c, x, a) \in Receiver /\ Found(r, e, l, c, x, a).hist = r.hist
         /\ Found(r, e, l, c, x, a).nr = r.nr /\ Found(r, e, l, c, x, a).state = r.state
         /\ Found(r, e, l, c, x, a).err = e /\ Found(r, e, l, c, x, a).last = l
         /\ Found(r, e, l, c, x, a).crc = c /\ Found(r, e, l, c, x, a).re = x
BY DEF Found, Receiver

\* What state and number the receiver's state machine moves to.
LEMMA FsmMoves ==
  ASSUME NEW r \in Receiver
  PROVE  /\ Fsm(r) \in Receiver /\ Fsm(r).hist = r.hist
         /\ r.state = "SEARCH_FRAME" =>
              IF FrameAlignmentRecovered(r)
              THEN Fsm(r).nr = 2 /\ Fsm(r).state = "SEARCH_CRC_MFRAME" /\ Fsm(r).n = r.n
              ELSE Fsm(r).nr = r.nr /\ Fsm(r).state = r.state /\ Fsm(r).n = r.n
         /\ r.state = "SEARCH_CRC_MFRAME" =>
              IF CrcMframeAchieved(r)
              THEN Fsm(r).nr = 11 /\ Fsm(r).state = "ALIGNED_CRC_MFRAME"
              ELSE /\ Fsm(r).nr = r.nr
                   /\ IF r.n >= SearchLimit THEN Fsm(r).state = "SEARCH_FRAME"
                      ELSE Fsm(r).state = r.state /\ Fsm(r).n = r.n + 1
         /\ r.state = "ALIGNED_CRC_MFRAME" =>
              /\ Fsm(r).nr = r.nr
              /\ Fsm(r).state = IF FrameAlignmentLost(r) THEN "SEARCH_FRAME" ELSE r.state
<1>1. /\ r.nr \in FrameNr /\ r.n \in Nat /\ r.state \in State /\ r.hist \in [FrameNr -> Octet]
      /\ r.crc \in Nibble /\ r.last \in Nibble
      /\ r.ra \in BOOLEAN /\ r.re \in BOOLEAN /\ r.err \in BOOLEAN
  BY DEF Receiver
<1>s. {"SEARCH_FRAME", "SEARCH_CRC_MFRAME", "ALIGNED_CRC_MFRAME"} = State
  BY DEF State
<1>3. CASE r.state = "SEARCH_FRAME"
  <2>1. Fsm(r) = SearchFrame(r)
    BY <1>3 DEF Fsm
  <2>2. CASE FrameAlignmentRecovered(r)
    <3>1. 2 \in FrameNr /\ "SEARCH_CRC_MFRAME" \in State
      BY <1>s DEF FrameNr
    <3>2. Fsm(r) = MovedTo(r, 2, "SEARCH_CRC_MFRAME", r.n)
      BY <2>1, <2>2 DEF SearchFrame, Receiver, MovedTo
    <3>3. /\ Fsm(r) \in Receiver /\ Fsm(r).hist = r.hist /\ Fsm(r).nr = 2
          /\ Fsm(r).state = "SEARCH_CRC_MFRAME" /\ Fsm(r).n = r.n
      <4> QED BY <1>1, <3>1, <3>2, MovedIs, SMTT(30)
    <3> QED BY <1>3, <2>2, <3>3
  <2>3. CASE ~FrameAlignmentRecovered(r)
    BY <1>3, <2>1, <2>3 DEF SearchFrame
  <2> QED BY <2>2, <2>3
<1>4. CASE r.state = "SEARCH_CRC_MFRAME"
  <2>1. Fsm(r) = SearchCrcMframe(r)
    BY <1>4 DEF Fsm
  <2>2. CASE CrcMframeAchieved(r)
    <3>1. 11 \in FrameNr /\ "ALIGNED_CRC_MFRAME" \in State
      BY <1>s DEF FrameNr
    <3>2. Fsm(r) = MovedTo(r, 11, "ALIGNED_CRC_MFRAME", r.n)
      BY <2>1, <2>2 DEF SearchCrcMframe, Receiver, MovedTo
    <3>3. /\ Fsm(r) \in Receiver /\ Fsm(r).hist = r.hist /\ Fsm(r).nr = 11
          /\ Fsm(r).state = "ALIGNED_CRC_MFRAME"
      <4>1. r.n \in Nat
        BY <1>1
      <4> QED BY <3>1, <3>2, <4>1, MovedIs
    <3> QED BY <1>4, <2>2, <3>3
  <2>3. CASE ~CrcMframeAchieved(r) /\ r.n >= SearchLimit
    <3>1. 1 \in Nat /\ "SEARCH_FRAME" \in State
      BY <1>s
    <3>2. Fsm(r) = MovedTo(r, r.nr, "SEARCH_FRAME", 1)
      BY <2>1, <2>3 DEF SearchCrcMframe, Receiver, MovedTo
    <3>3. /\ Fsm(r) \in Receiver /\ Fsm(r).hist = r.hist /\ Fsm(r).nr = r.nr
          /\ Fsm(r).state = "SEARCH_FRAME"
      <4> QED BY <1>1, <3>1, <3>2, MovedIs
    <3> QED BY <1>4, <2>3, <3>3
  <2>4. CASE ~CrcMframeAchieved(r) /\ ~(r.n >= SearchLimit)
    <3>1. r.n + 1 \in Nat
      BY <1>1
    <3>2. Fsm(r) = MovedTo(r, r.nr, r.state, r.n + 1)
      BY <2>1, <2>4 DEF SearchCrcMframe, Receiver, MovedTo
    <3>3. /\ Fsm(r) \in Receiver /\ Fsm(r).hist = r.hist /\ Fsm(r).nr = r.nr
          /\ Fsm(r).state = r.state /\ Fsm(r).n = r.n + 1
      <4> QED BY <1>1, <3>1, <3>2, MovedIs
    <3> QED BY <1>4, <2>4, <3>3
  <2> QED BY <2>2, <2>3, <2>4
<1>5. CASE r.state = "ALIGNED_CRC_MFRAME"
  <2>1. Fsm(r) = AlignedCrcMframe(r)
    BY <1>5 DEF Fsm
  <2>2. CASE FrameAlignmentLost(r)
    <3>1. "SEARCH_FRAME" \in State
      BY <1>s
    <3>2. Fsm(r) = MovedTo(r, r.nr, "SEARCH_FRAME", r.n)
      BY <2>1, <2>2 DEF AlignedCrcMframe, Receiver, MovedTo
    <3>3. /\ Fsm(r) \in Receiver /\ Fsm(r).hist = r.hist /\ Fsm(r).nr = r.nr
          /\ Fsm(r).state = "SEARCH_FRAME"
      <4> QED BY <1>1, <3>1, <3>2, MovedIs
    <3> QED BY <1>5, <2>2, <3>3
  <2>3. CASE ~FrameAlignmentLost(r)
    <3>1. /\ CrcError(r) \in BOOLEAN /\ RemoteError(r) \in BOOLEAN /\ RemoteAlarm(r) \in BOOLEAN
      BY <1>1 DEF CrcError, RemoteError, RemoteAlarm
    <3>3. 0 \in Nibble
      BY DEF Nibble
    <3>4. Fsm(r) = Found(r, CrcError(r), IF SmfEnd(r) THEN r.crc ELSE r.last,
                         IF SmfEnd(r) THEN 0 ELSE r.crc, RemoteError(r), RemoteAlarm(r))
      BY <2>1, <2>3 DEF AlignedCrcMframe, Found
    <3>5. Fsm(r) \in Receiver /\ Fsm(r).hist = r.hist /\ Fsm(r).nr = r.nr /\ Fsm(r).state = r.state
      <4>1. (IF SmfEnd(r) THEN r.crc ELSE r.last) \in Nibble /\ (IF SmfEnd(r) THEN 0 ELSE r.crc) \in Nibble
        BY <1>1, <3>3
      <4>2. PICK l \in Nibble, c \in Nibble :
              Fsm(r) = Found(r, CrcError(r), l, c, RemoteError(r), RemoteAlarm(r))
        BY <3>4, <4>1
      <4> QED BY <3>1, <4>2, FoundIs
    <3> QED BY <1>5, <2>3, <3>5
  <2> QED BY <2>2, <2>3
<1> QED BY <1>1, <1>3, <1>4, <1>5, <1>s

\* A frame that arrives: the receiver stores its octet and moves on.
Stored(r, ts0) ==
  /\ r \in Receiver /\ r.nr = rx.nr /\ r.state = rx.state /\ r.n = rx.n
  /\ r.hist = [rx.hist EXCEPT ![rx.nr] = ts0]
  /\ rx' \in Receiver /\ rx'.hist = r.hist /\ rx'.nr = (Fsm(r).nr + 1) % 16
  /\ rx'.state = Fsm(r).state /\ rx'.n = Fsm(r).n

WithHistory(q, c, h) == [q EXCEPT !.crc = c, !.hist = h]

LEMMA WithHistoryIs ==
  ASSUME NEW q \in Receiver, NEW c \in Nibble, NEW h \in [FrameNr -> Octet]
  PROVE  /\ WithHistory(q, c, h) \in Receiver /\ WithHistory(q, c, h).nr = q.nr
         /\ WithHistory(q, c, h).state = q.state /\ WithHistory(q, c, h).n = q.n
         /\ WithHistory(q, c, h).hist = h /\ WithHistory(q, c, h).crc = c
         /\ WithHistory(q, c, h).last = q.last /\ WithHistory(q, c, h).re = q.re
BY DEF WithHistory, Receiver

LEMMA NextFrameIs ==
  ASSUME NEW q \in Receiver
  PROVE  /\ NextFrame(q) \in Receiver /\ NextFrame(q).nr = (q.nr + 1) % 16
         /\ NextFrame(q).state = q.state /\ NextFrame(q).n = q.n /\ NextFrame(q).hist = q.hist
         /\ NextFrame(q).crc = q.crc /\ NextFrame(q).last = q.last
         /\ NextFrame(q).err = q.err /\ NextFrame(q).re = q.re
<1>1. (q.nr + 1) % 16 \in FrameNr
  BY DEF Receiver, FrameNr
<1>2. ASSUME NEW k \in FrameNr
      PROVE  /\ [q EXCEPT !.nr = k] \in Receiver /\ [q EXCEPT !.nr = k].nr = k
             /\ [q EXCEPT !.nr = k].state = q.state /\ [q EXCEPT !.nr = k].n = q.n
             /\ [q EXCEPT !.nr = k].hist = q.hist
             /\ [q EXCEPT !.nr = k].crc = q.crc /\ [q EXCEPT !.nr = k].last = q.last
             /\ [q EXCEPT !.nr = k].err = q.err /\ [q EXCEPT !.nr = k].re = q.re
  BY DEF Receiver
<1> QED BY <1>1, <1>2 DEF NextFrame

LEMMA Delivered ==
  ASSUME TypeOK, NEW ts0, NEW rest, NEW what, Arrives(ts0, rest, what)
  PROVE  /\ \E r : Stored(r, ts0)
         /\ tx' \in Transmitter /\ tx'.version = tx.version /\ tx'.nr = (tx.nr + 1) % 16
         /\ line' = Carried(what)
<1>1. PICK p \in Nibble : Deliver(p, ts0, rest, what) /\ ts0 \in Octet /\ rest \in Nibble
  BY PayloadIs DEF Arrives
<1>2. rx \in Receiver /\ tx \in Transmitter
  BY DEF TypeOK
<1>3. tx' = PullTx(tx, p) /\ line' = Carried(what) /\ rx' = NextFrame(Fsm(Heard(rx, ts0, rest)))
  BY <1>1 DEF Deliver
<1> DEFINE r == Heard(rx, ts0, rest)
           h == [rx.hist EXCEPT ![rx.nr] = ts0]
           c == UpdateCrc(rx.crc, ts0, rest)
<1>4. rx.hist \in [FrameNr -> Octet] /\ rx.nr \in FrameNr /\ rx.crc \in Nibble
  BY <1>2 DEF Receiver
<1>5. h \in [FrameNr -> Octet] /\ c \in Nibble
  BY <1>1, <1>4, CrcIs
<1>6. r = WithHistory(rx, c, h)
  BY <1>2 DEF Heard, Receiver, WithHistory
<1>7. r \in Receiver /\ r.nr = rx.nr /\ r.state = rx.state /\ r.n = rx.n /\ r.hist = h
  <2> HIDE DEF r, h, c
  <2> QED BY <1>2, <1>5, <1>6, WithHistoryIs
<1>8. Stored(r, ts0)
  <2> HIDE DEF r
  <2>1. Fsm(r) \in Receiver /\ Fsm(r).hist = r.hist
    BY <1>7, FsmMoves
  <2>2. rx' = NextFrame(Fsm(r))
    BY <1>3 DEF r
  <2> QED BY <1>7, <2>1, <2>2, NextFrameIs DEF Stored
<1> QED BY <1>2, <1>3, <1>8, FarEndMoves

\* Positions of the history wrap at its end.
LEMMA Back ==
  ASSUME NEW k \in 0 .. 15, NEW d \in 1 .. 15
  PROVE  /\ (k + (16 - d)) % 16 \in 0 .. 15 /\ (k + (16 - d)) % 16 # k
         /\ (k + (16 - d)) % 16 = IF d <= k THEN k - d ELSE k + 16 - d
<1>1. CASE d <= k
  <2>1. k + (16 - d) = (k - d) + 16 /\ k - d \in 0 .. 15
    BY <1>1
  <2>2. \A x \in 0 .. 15 : (x + 16) % 16 = x
    OBVIOUS
  <2>3. (k + (16 - d)) % 16 = k - d
    BY <2>1, <2>2
  <2> QED BY <1>1, <2>1, <2>3
<1>2. CASE ~(d <= k)
  <2>1. k + (16 - d) \in 0 .. 15 /\ k + (16 - d) = k + 16 - d
    BY <1>2
  <2>2. \A x \in 0 .. 15 : x % 16 = x
    OBVIOUS
  <2> QED BY <1>2, <2>1, <2>2
<1> QED BY <1>1, <1>2

\* The history seen from the receiver's position, before and after it moves on.
LEMMA HistIs ==
  ASSUME TypeOK, NEW ts0 \in Octet, NEW r, Stored(r, ts0)
  PROVE  /\ Hist(r, 0) = ts0
         /\ \A d \in 1 .. 15 : Hist(r, d) = Past(d)
         /\ Fsm(r).nr = rx.nr =>
              /\ rx'.nr = (rx.nr + 1) % 16
              /\ Past(1)' = ts0 /\ \A d \in 1 .. 14 : Past(d + 1)' = Past(d)
<1>1. rx.nr \in 0 .. 15 /\ DOMAIN rx.hist = 0 .. 15
  BY DEF TypeOK, Receiver, FrameNr
<1>2. r.nr = rx.nr /\ r.hist = [rx.hist EXCEPT ![rx.nr] = ts0] /\ rx'.hist = r.hist
      /\ rx'.nr = (Fsm(r).nr + 1) % 16
  BY DEF Stored
<1>3. (rx.nr + (16 - 0)) % 16 = rx.nr
  BY <1>1
<1>4. \A d \in 1 .. 15 : /\ (rx.nr + (16 - d)) % 16 \in 0 .. 15
                         /\ (rx.nr + (16 - d)) % 16 # rx.nr
  BY <1>1, Back
<1>5. ASSUME Fsm(r).nr = rx.nr
      PROVE  /\ rx'.nr = (rx.nr + 1) % 16
             /\ Past(1)' = ts0 /\ \A d \in 1 .. 14 : Past(d + 1)' = Past(d)
  <2>1. rx'.nr = (rx.nr + 1) % 16
    BY <1>2, <1>5
  <2>2. (rx'.nr + (16 - 1)) % 16 = rx.nr
    BY <1>1, <2>1
  <2>3. Past(1)' = ts0
    BY <1>1, <1>2, <2>2 DEF Past
  <2>4. ASSUME NEW d \in 1 .. 14 PROVE Past(d + 1)' = Past(d)
    <3>1. (rx'.nr + (16 - (d + 1))) % 16 = (rx.nr + (16 - d)) % 16
      BY <1>1, <2>1
    <3>2. (rx.nr + (16 - d)) % 16 \in 0 .. 15 /\ (rx.nr + (16 - d)) % 16 # rx.nr
      <4>1. d \in 1 .. 15
        OBVIOUS
      <4> QED BY <1>4, <4>1
    <3>3. Past(d + 1)' = rx'.hist[(rx'.nr + (16 - (d + 1))) % 16]
      BY DEF Past
    <3> QED BY <1>1, <1>2, <3>1, <3>2, <3>3 DEF Past
  <2> QED BY <2>1, <2>3, <2>4
<1>6. Hist(r, 0) = ts0
  BY <1>1, <1>2, <1>3 DEF Hist
<1>7. ASSUME NEW d \in 1 .. 15 PROVE Hist(r, d) = Past(d)
  BY <1>1, <1>2, <1>4 DEF Hist, Past
<1> QED BY <1>5, <1>6, <1>7

-----------------------------------------------------------------------------
(* The invariant is kept. *)

LEMMA InvInit == Init => FramerInv
<1> SUFFICES ASSUME Init PROVE FramerInv
  OBVIOUS
<1>1. PICK f \in FarEnds, k \in FrameNr :
        tx = [version |-> f.version, crc4 |-> f.crc4, ra |-> f.ra, err |-> f.err,
              nr |-> k, crc |-> 0, last |-> 0]
  BY DEF Init
<1>2. 0 \in Nibble /\ 0 \in Octet /\ 0 \in FrameNr /\ "SEARCH_FRAME" \in State
  BY DEF Nibble, Octet, FrameNr, State
<1>3. tx \in Transmitter
  <2>1. f \in [version : {"old", "new", "basic"}, crc4 : BOOLEAN, ra : BOOLEAN,
               err : BOOLEAN, trouble : Nat]
    BY FramerAssumption
  <2> QED BY <1>1, <1>2, <2>1 DEF Transmitter
<1>4. rx = [state |-> "SEARCH_FRAME", n |-> 0, nr |-> 0, hist |-> [p \in FrameNr |-> 0],
            ra |-> FALSE, re |-> FALSE, err |-> FALSE, crc |-> 0, last |-> 0]
  BY DEF Init
<1>5. rx \in Receiver
  BY <1>2, <1>4 DEF Receiver
<1>6. line = NoHistory
  BY DEF Init
<1>7. TypeOK
  BY <1>3, <1>5, <1>6 DEF TypeOK, NoHistory
<1>8. rx.state = "SEARCH_FRAME" /\ rx.n = 0 /\ rx.nr = 0 /\ rx.hist = [p \in FrameNr |-> 0]
  BY <1>4
<1>9. ~Aligned
  BY <1>8 DEF Aligned
<1>10. Beginning
  BY <1>8 DEF Beginning
<1> QED BY <1>7, <1>8, <1>9, <1>10 DEF FramerInv, LossInv, HoldInv, TrueInv

LEMMA TypeStep == TypeOK /\ [Next]_vars => TypeOK'
<1> SUFFICES ASSUME TypeOK, Next PROVE TypeOK'
  BY DEF TypeOK, vars
<1>1. ASSUME NEW ts0, NEW rest, NEW what, Arrives(ts0, rest, what) PROVE TypeOK'
  <2>1. tx' \in Transmitter /\ rx' \in Receiver /\ line' = Carried(what)
    BY <1>1, Delivered DEF Stored
  <2>2. line.pure \in BOOLEAN /\ line.calm \in Nat /\ line.held \in Nat /\ line.bad \in 0 .. 3
    BY DEF TypeOK
  <2>3. line'.pure \in BOOLEAN /\ line'.calm \in Nat /\ line'.held \in Nat /\ line'.bad \in 0 .. 3
    BY <2>1, <2>2 DEF Carried, Cap, HistoryCap
  <2> QED BY <2>1, <2>3 DEF TypeOK
<1>2. CASE Outage
  <2>1. line' = [line EXCEPT !.out = OutageLen] /\ tx' = tx /\ rx' = rx
    BY <1>2 DEF Outage
  <2>2. line'.pure = line.pure /\ line'.calm = line.calm /\ line'.held = line.held /\ line'.bad = line.bad
    BY <2>1
  <2> QED BY <2>1, <2>2 DEF TypeOK
<1>3. CASE Slip
  <2>1. tx' \in Transmitter
    BY <1>3, FarEndMoves, PayloadIs DEF Slip, TypeOK
  <2>2. /\ line'.pure \in BOOLEAN /\ line'.calm \in Nat /\ line'.held \in Nat /\ line'.bad \in 0 .. 3
        /\ rx' = rx
    BY <1>3 DEF Slip, NoHistory
  <2> QED BY <2>1, <2>2 DEF TypeOK
<1>4. CASE Reset
  <2>1. 0 \in Octet /\ 0 \in FrameNr /\ "SEARCH_FRAME" \in State
    BY DEF Octet, FrameNr, State
  <2>2. rx' = ResetRx(rx) /\ rx \in Receiver
    BY <1>4 DEF Reset, TypeOK
  <2>3. rx' \in Receiver
    BY <2>1, <2>2 DEF ResetRx, Receiver
  <2>4. /\ line'.pure \in BOOLEAN /\ line'.calm \in Nat /\ line'.held \in Nat /\ line'.bad \in 0 .. 3
        /\ tx' = tx
    BY <1>4 DEF Reset, NoHistory
  <2> QED BY <2>3, <2>4 DEF TypeOK
<1> QED BY <1>1, <1>2, <1>3, <1>4, Steps

\* What the steps that deliver no frame do to the histories.
LEMMA NoFrame ==
  ASSUME TypeOK
  PROVE  /\ Outage => /\ tx' = tx /\ rx' = rx /\ line'.pure = line.pure /\ line'.calm = line.calm
                      /\ line'.held = line.held /\ line'.bad = line.bad
         /\ Slip => rx' = rx /\ ~line'.pure /\ line'.calm = 0 /\ line'.held = 0
         /\ Reset => /\ rx'.state = "SEARCH_FRAME" /\ rx'.n = 0 /\ rx'.nr = 0
                     /\ rx'.hist = [p \in FrameNr |-> 0] /\ tx' = tx
<1>1. ASSUME Outage
      PROVE  /\ tx' = tx /\ rx' = rx /\ line'.pure = line.pure /\ line'.calm = line.calm
             /\ line'.held = line.held /\ line'.bad = line.bad
  <2>1. line' = [line EXCEPT !.out = OutageLen] /\ tx' = tx /\ rx' = rx
    BY <1>1 DEF Outage
  <2> QED BY <2>1
<1>2. ASSUME Slip
      PROVE  rx' = rx /\ ~line'.pure /\ line'.calm = 0 /\ line'.held = 0
  BY <1>2 DEF Slip, NoHistory
<1>3. ASSUME Reset
      PROVE  /\ rx'.state = "SEARCH_FRAME" /\ rx'.n = 0 /\ rx'.nr = 0
             /\ rx'.hist = [p \in FrameNr |-> 0] /\ tx' = tx
  <2>1. rx' = ResetRx(rx) /\ tx' = tx /\ rx \in Receiver
    BY <1>3 DEF Reset, TypeOK
  <2>2. /\ ResetRx(rx).state = "SEARCH_FRAME" /\ ResetRx(rx).n = 0 /\ ResetRx(rx).nr = 0
        /\ ResetRx(rx).hist = [p \in FrameNr |-> 0]
    BY <2>1 DEF ResetRx, Receiver
  <2> QED BY <2>1, <2>2
<1> QED BY <1>1, <1>2, <1>3

\* In step as far as frames go means: FAS are looked for where they are.
LEMMA Parity ==
  ASSUME TypeOK
  PROVE  /\ rx.nr \in 0 .. 15 /\ tx.nr \in 0 .. 15
         /\ \A k \in 0 .. 15 : /\ ((k + 1) % 16) % 2 = 0 <=> k % 2 = 1
                               /\ ((k + 1) % 16) % 2 = 1 <=> k % 2 = 0
                               /\ k % 2 \in {0, 1}
BY DEF TypeOK, Receiver, Transmitter, FrameNr

LEMMA LossStep == FramerInv /\ [Next]_vars => LossInv'
<1> SUFFICES ASSUME FramerInv, Next PROVE LossInv'
  BY DEF FramerInv, LossInv, vars, Aligned, FrameInStep, Past
<1>1. TypeOK /\ LossInv
  BY DEF FramerInv
<1>2. ASSUME NEW ts0, NEW rest, NEW what, Arrives(ts0, rest, what) PROVE LossInv'
  <2> SUFFICES ASSUME Aligned', ~FrameInStep'
               PROVE  /\ line'.calm <= 5 /\ (rx'.nr % 2 = 1 => line'.calm <= 4)
                      /\ \A d \in 1 .. 5 : d <= line'.calm /\ (rx'.nr + (16 - d)) % 2 = 0
                                             => ~IsFas(Past(d)')
    BY DEF LossInv
  <2>1. /\ ts0 \in Octet /\ (what = "none" => (IsFas(ts0) <=> tx.nr % 2 = 0))
        /\ line' = Carried(what) /\ tx'.nr = (tx.nr + 1) % 16 /\ line.calm \in Nat
    BY <1>1, <1>2, Delivered DEF Arrives, TypeOK
  <2>2. PICK r : Stored(r, ts0)
    BY <1>1, <1>2, Delivered
  <2>3. /\ Hist(r, 0) = ts0 /\ \A d \in 1 .. 15 : Hist(r, d) = Past(d)
        /\ Fsm(r).nr = rx.nr => /\ rx'.nr = (rx.nr + 1) % 16
                                /\ Past(1)' = ts0 /\ \A d \in 1 .. 14 : Past(d + 1)' = Past(d)
    BY <1>1, <2>1, <2>2, HistIs
  <2>4. CASE what # "none"
    <3>1. line'.calm = 0
      BY <2>1, <2>4 DEF Carried
    <3> QED BY <3>1
  <2>5. CASE what = "none"
    <3>1. line'.calm <= line.calm + 1
      BY <2>1, <2>5 DEF Carried, Cap, HistoryCap
    <3>2. r \in Receiver /\ r.state = rx.state /\ r.nr = rx.nr
          /\ rx'.state = Fsm(r).state /\ rx'.nr = (Fsm(r).nr + 1) % 16
      BY <2>2 DEF Stored
    <3>3. CASE ~Aligned
      <4>1. rx.state = "SEARCH_CRC_MFRAME" /\ CrcMframeAchieved(r) /\ Fsm(r).nr = 11
        BY <1>1, <3>2, <3>3, FsmMoves DEF Aligned, TypeOK, Receiver, State
      <4>2. ~IsFas(ts0)
        BY <2>3, <4>1 DEF CrcMframeAchieved
      <4>3. tx.nr % 2 = 1 /\ rx'.nr = 12
        BY <1>1, <2>1, <2>5, <3>2, <4>1, <4>2, Parity
      <4>4. FrameInStep'
        BY <1>1, <2>1, <4>3, Parity DEF FrameInStep
      <4> QED BY <4>4
    <3>4. CASE Aligned
      <4>1. Fsm(r).nr = rx.nr /\ ~FrameAlignmentLost(r)
        BY <3>2, <3>4, FsmMoves DEF Aligned
      <4>2. rx'.nr = (rx.nr + 1) % 16 /\ Past(1)' = ts0 /\ \A d \in 1 .. 14 : Past(d + 1)' = Past(d)
        BY <2>3, <4>1
      <4>3. ~FrameInStep
        BY <1>1, <2>1, <4>2, Parity DEF FrameInStep
      <4>4. /\ line.calm <= 5 /\ (rx.nr % 2 = 1 => line.calm <= 4)
            /\ \A d \in 1 .. 5 : d <= line.calm /\ (rx.nr + (16 - d)) % 2 = 0 => ~IsFas(Past(d))
        BY <1>1, <3>4, <4>3 DEF LossInv
      <4>5. rx.nr % 2 = 0 => ~IsFas(ts0)
        BY <1>1, <2>1, <2>5, <4>3, Parity DEF FrameInStep
      <4>6. rx.nr % 2 = 0 => line.calm <= 3
        <5> SUFFICES ASSUME rx.nr % 2 = 0, line.calm >= 4 PROVE FALSE
          BY <2>1
        <5>1. (rx.nr + (16 - 2)) % 2 = 0 /\ (rx.nr + (16 - 4)) % 2 = 0
          BY <1>1, Parity
        <5>2. ~IsFas(Past(2)) /\ ~IsFas(Past(4))
          BY <2>1, <4>4, <5>1
        <5>3. ~IsFas(Hist(r, 0)) /\ ~IsFas(Hist(r, 2)) /\ ~IsFas(Hist(r, 4))
          BY <2>3, <4>5, <5>2
        <5> QED BY <3>2, <4>1, <5>3 DEF FrameAlignmentLost
      <4>7. line'.calm <= 5 /\ (rx'.nr % 2 = 1 => line'.calm <= 4) /\ line'.calm \in Nat
        <5>1. line'.calm \in Nat
          BY <2>1, <2>5 DEF Carried, Cap, HistoryCap
        <5> QED BY <1>1, <2>1, <3>1, <4>2, <4>4, <4>6, <5>1, Parity
      <4>8. ASSUME NEW d \in 1 .. 5, d <= line'.calm, (rx'.nr + (16 - d)) % 2 = 0
            PROVE  ~IsFas(Past(d)')
        <5>1. CASE d = 1
          <6>1. rx.nr % 2 = 0
            BY <1>1, <4>2, <4>8, <5>1, Parity
          <6> QED BY <4>2, <4>5, <5>1, <6>1
        <5>2. CASE d # 1
          <6>1. d - 1 \in 1 .. 5 /\ d - 1 \in 1 .. 14 /\ (d - 1) + 1 = d
            BY <5>2
          <6>2. d - 1 <= line.calm
            BY <2>1, <3>1, <4>7, <4>8
          <6>3. (rx.nr + (16 - (d - 1))) % 2 = 0
            BY <1>1, <4>2, <4>8, Parity
          <6>4. ~IsFas(Past(d - 1))
            BY <4>4, <6>1, <6>2, <6>3
          <6>5. Past((d - 1) + 1)' = Past(d - 1)
            BY <4>2, <6>1
          <6> QED BY <6>1, <6>4, <6>5
        <5> QED BY <5>1, <5>2
      <4> QED BY <4>7, <4>8
    <3> QED BY <3>3, <3>4
  <2> QED BY <2>4, <2>5
<1>3. CASE Outage
  BY <1>1, <1>3, NoFrame DEF LossInv, Aligned, FrameInStep, Past
<1>4. CASE Slip
  BY <1>1, <1>4, NoFrame DEF LossInv
<1>5. CASE Reset
  BY <1>1, <1>5, NoFrame DEF LossInv, Aligned
<1> QED BY <1>1, <1>2, <1>3, <1>4, <1>5, Steps

\* In step, a FAS that does not arrive was spoiled.
LEMMA SpoiledFas ==
  ASSUME TypeOK, NEW ts0, NEW rest, NEW what, Arrives(ts0, rest, what), tx.nr % 2 = 0, ~IsFas(ts0)
  PROVE  line'.bad = Cap(line.bad + 1, 3)
<1>1. line' = Carried(what)
  BY Delivered
<1>2. what \in {"ts0", "ones"}
  BY DEF Arrives, What
<1> QED BY <1>1, <1>2 DEF Carried

LEMMA HoldStep == FramerInv /\ [Next]_vars => HoldInv'
<1> SUFFICES ASSUME FramerInv, Next PROVE HoldInv'
  BY DEF FramerInv, HoldInv, vars, Aligned, FrameInStep, Past
<1>1. TypeOK /\ HoldInv
  BY DEF FramerInv
<1>2. ASSUME NEW ts0, NEW rest, NEW what, Arrives(ts0, rest, what) PROVE HoldInv'
  <2> SUFFICES ASSUME Aligned', FrameInStep', NEW e \in {1, 2}, e <= line'.held,
                      (rx'.nr + (16 - e)) % 2 = 0, ~IsFas(Past(e)')
               PROVE  /\ line'.bad >= 1
                      /\ e + 2 <= line'.held /\ ~IsFas(Past(e + 2)') => line'.bad >= 2
    BY DEF HoldInv
  <2>1. /\ ts0 \in Octet /\ line' = Carried(what) /\ tx'.nr = (tx.nr + 1) % 16
        /\ line.held \in Nat /\ line.bad \in 0 .. 3
    BY <1>1, <1>2, Delivered DEF Arrives, TypeOK
  <2>2. PICK r : Stored(r, ts0)
    BY <1>1, <1>2, Delivered
  <2>3. Aligned /\ line'.held <= line.held + 1 /\ line'.held \in Nat
    BY <2>1 DEF Carried, Cap, HistoryCap
  <2>4. Fsm(r).nr = rx.nr
    BY <2>2, <2>3, FsmMoves DEF Aligned, Stored
  <2>5. rx'.nr = (rx.nr + 1) % 16 /\ Past(1)' = ts0 /\ \A d \in 1 .. 14 : Past(d + 1)' = Past(d)
    BY <1>1, <2>1, <2>2, <2>4, HistIs
  <2>6. FrameInStep
    BY <1>1, <2>1, <2>5, Parity DEF FrameInStep
  <2>7. \A d \in {1, 2} : d <= line.held /\ (rx.nr + (16 - d)) % 2 = 0 /\ ~IsFas(Past(d)) =>
          /\ line.bad >= 1
          /\ d + 2 <= line.held /\ ~IsFas(Past(d + 2)) => line.bad >= 2
    BY <1>1, <2>3, <2>6 DEF HoldInv
  <2>8. CASE rx.nr % 2 = 0
    <3>1. e = 1 /\ tx.nr % 2 = 0
      BY <1>1, <2>5, <2>6, <2>8, Parity DEF FrameInStep
    <3>2. line'.bad = Cap(line.bad + 1, 3)
      BY <1>1, <1>2, <2>5, <3>1, SpoiledFas
    <3>3. ASSUME 3 <= line'.held, ~IsFas(Past(2)) PROVE line.bad >= 1
      <4>1. 2 <= line.held /\ (rx.nr + (16 - 2)) % 2 = 0
        BY <1>1, <2>1, <2>3, <2>8, <3>3, Parity
      <4> QED BY <2>7, <3>3, <4>1
    <3>4. Past(2 + 1)' = Past(2)
      BY <2>5
    <3> QED BY <2>1, <3>1, <3>2, <3>3, <3>4 DEF Cap
  <2>9. CASE rx.nr % 2 = 1
    <3>1. e = 2 /\ tx.nr % 2 = 1
      BY <1>1, <2>5, <2>6, <2>9, Parity DEF FrameInStep
    <3>2. line'.bad = line.bad
      BY <2>1, <3>1 DEF Carried
    <3>3. 1 <= line.held /\ (rx.nr + (16 - 1)) % 2 = 0
      BY <1>1, <2>1, <2>3, <2>9, <3>1, Parity
    <3>4. Past(1 + 1)' = Past(1) /\ Past(3 + 1)' = Past(3)
      BY <2>5
    <3>5. ~IsFas(Past(1))
      BY <3>1, <3>4
    <3>6. line.bad >= 1 /\ (1 + 2 <= line.held /\ ~IsFas(Past(1 + 2)) => line.bad >= 2)
      BY <2>7, <3>3, <3>5
    <3> QED BY <2>1, <2>3, <3>1, <3>2, <3>4, <3>6
  <2> QED BY <1>1, <2>8, <2>9, Parity
<1>3. CASE Outage
  BY <1>1, <1>3, NoFrame DEF HoldInv, Aligned, FrameInStep, Past
<1>4. CASE Slip
  BY <1>1, <1>4, NoFrame DEF HoldInv
<1>5. CASE Reset
  BY <1>1, <1>5, NoFrame DEF HoldInv, Aligned
<1> QED BY <1>1, <1>2, <1>3, <1>4, <1>5, Steps

\* What the far end sends undisturbed stays true in the history.
LEMMA GenuineMoves ==
  ASSUME TypeOK, tx.version # "basic", NEW ts0, NEW rest, Arrives(ts0, rest, "none"),
         NEW r, Stored(r, ts0), Fsm(r).nr = rx.nr
  PROVE  Genuine(1)' /\ \A d \in 1 .. 14 : Genuine(d) => Genuine(d + 1)'
<1>1. ts0 \in Octet /\ ts0 = PullTs0(tx) /\ tx'.nr = (tx.nr + 1) % 16 /\ tx.nr \in 0 .. 15
  BY Delivered, Parity DEF Arrives
<1>2. Past(1)' = ts0 /\ \A d \in 1 .. 14 : Past(d + 1)' = Past(d)
  BY <1>1, HistIs
<1>3. Number(1)' = tx.nr
  BY <1>1 DEF Number
<1>4. ASSUME NEW d \in 1 .. 14 PROVE Number(d + 1)' = Number(d)
  BY <1>1 DEF Number
<1>5. tx \in Transmitter
  BY DEF TypeOK
<1>6. /\ IsFas(ts0) <=> tx.nr % 2 = 0
      /\ tx.nr \in {1, 3, 7} => Top(ts0) = 0
      /\ tx.nr \in {5, 9, 11} => Top(ts0) = 1
  BY <1>1, <1>5, FarEndSends
<1>7. Genuine(1)'
  BY <1>2, <1>3, <1>6 DEF Genuine
<1>8. ASSUME NEW d \in 1 .. 14, Genuine(d) PROVE Genuine(d + 1)'
  BY <1>2, <1>4, <1>8 DEF Genuine
<1> QED BY <1>7, <1>8

\* The first FAS of the history that is all zeros is one that arrived.
LEMMA NoneBefore == ~IsFas(0) /\ Top(0) = 0
BY DEF IsFas, Top

LEMMA BeginningStep ==
  ASSUME TypeOK, tx.version # "basic", rx.state = "SEARCH_FRAME", Beginning,
         NEW ts0, NEW rest, Arrives(ts0, rest, "none")
  PROVE  \/ rx'.state = "SEARCH_FRAME" /\ Beginning'
         \/ rx'.state = "SEARCH_CRC_MFRAME" /\ Searching'
<1>1. /\ ts0 \in Octet /\ ts0 = PullTs0(tx) /\ tx'.nr = (tx.nr + 1) % 16 /\ tx.nr \in 0 .. 15
      /\ IsFas(ts0) <=> tx.nr % 2 = 0
  BY Delivered, Parity DEF Arrives
<1>2. PICK r : Stored(r, ts0)
  BY Delivered
<1>3. Hist(r, 0) = ts0 /\ Hist(r, 1) = Past(1) /\ Hist(r, 2) = Past(2)
  BY <1>1, <1>2, HistIs
<1>4. /\ r \in Receiver /\ r.nr = rx.nr /\ r.state = rx.state /\ r.n = rx.n /\ rx.hist \in [FrameNr -> Octet]
      /\ rx'.hist = [rx.hist EXCEPT ![rx.nr] = ts0] /\ rx'.nr = (Fsm(r).nr + 1) % 16
      /\ rx'.state = Fsm(r).state /\ rx'.n = Fsm(r).n
  BY <1>2 DEF Stored, TypeOK, Receiver
<1>5. rx.nr \in 0 .. 3 /\ rx.n = 0 /\ (rx.nr = 3 => tx.nr % 2 = 0)
  BY DEF Beginning
<1>6. CASE FrameAlignmentRecovered(r)
  <2>1. rx'.nr = 3 /\ rx'.n = 0 /\ rx'.state = "SEARCH_CRC_MFRAME"
    BY <1>4, <1>5, <1>6, FsmMoves
  <2>2. tx.nr % 2 = 0
    BY <1>1, <1>3, <1>6 DEF FrameAlignmentRecovered
  <2>3. FrameInStep'
    BY <1>1, <2>1, <2>2 DEF FrameInStep
  <2>4. rx.hist[13] = 0 /\ rx.hist[15] = 0
    BY <1>5 DEF Beginning, FrameNr
  <2>5. rx'.hist[13] = 0 /\ rx'.hist[15] = 0
    BY <1>4, <1>5, <2>4 DEF FrameNr
  <2>6. Searching'
    BY <2>1, <2>3, <2>5 DEF Searching
  <2> QED BY <2>1, <2>6
<1>7. CASE ~FrameAlignmentRecovered(r)
  <2>1. Fsm(r).nr = rx.nr /\ rx'.n = 0 /\ rx'.state = "SEARCH_FRAME" /\ rx'.nr = (rx.nr + 1) % 16
    BY <1>4, <1>5, <1>7, FsmMoves
  <2>2. rx.nr = 3 => FALSE
    <3> SUFFICES ASSUME rx.nr = 3 PROVE FALSE
      OBVIOUS
    <3>1. Genuine(1) /\ Genuine(2)
      BY DEF Beginning
    <3>2. Number(1) % 2 = 1 /\ Number(2) % 2 = 0
      BY <1>1, <1>5 DEF Number
    <3>3. ~IsFas(Past(1)) /\ IsFas(Past(2))
      BY <3>1, <3>2 DEF Genuine
    <3> QED BY <1>1, <1>3, <1>5, <1>7, <3>3 DEF FrameAlignmentRecovered
  <2>3. rx.nr = 2 => tx.nr % 2 = 1
    <3> SUFFICES ASSUME rx.nr = 2, tx.nr % 2 = 0 PROVE FALSE
      BY <1>1
    <3>1. Genuine(1) /\ Genuine(2)
      BY DEF Beginning
    <3>2. Number(1) % 2 = 1 /\ Number(2) % 2 = 0
      BY <1>1 DEF Number
    <3>3. ~IsFas(Past(1)) /\ IsFas(Past(2))
      BY <3>1, <3>2 DEF Genuine
    <3> QED BY <1>1, <1>3, <1>7, <3>3 DEF FrameAlignmentRecovered
  <2>4. rx'.nr = rx.nr + 1 /\ rx'.nr \in 1 .. 3 /\ (rx'.nr = 3 => tx'.nr % 2 = 0)
    BY <1>1, <1>5, <2>1, <2>2, <2>3
  <2>5. Genuine(1)' /\ \A d \in 1 .. 14 : Genuine(d) => Genuine(d + 1)'
    BY <1>2, <2>1, GenuineMoves
  <2>6. ASSUME NEW d \in 1 .. 3, d <= rx'.nr PROVE Genuine(d)'
    <3>1. CASE d = 1
      BY <2>5, <3>1
    <3>2. CASE d # 1
      <4>1. d - 1 \in 1 .. 3 /\ d - 1 \in 1 .. 14 /\ d - 1 <= rx.nr /\ (d - 1) + 1 = d
        BY <1>5, <2>4, <2>6, <3>2
      <4>2. Genuine(d - 1)
        BY <4>1 DEF Beginning
      <4>3. Genuine((d - 1) + 1)'
        BY <2>5, <4>1, <4>2
      <4> QED BY <4>1, <4>3
    <3> QED BY <3>1, <3>2
  <2>7. ASSUME NEW p \in FrameNr, p >= rx'.nr PROVE rx'.hist[p] = 0
    <3>1. p >= rx.nr /\ p # rx.nr
      BY <1>5, <2>4, <2>7 DEF FrameNr
    <3>2. rx.hist[p] = 0
      BY <3>1 DEF Beginning
    <3> QED BY <1>4, <3>1, <3>2
  <2>8. Beginning'
    BY <2>1, <2>4, <2>6, <2>7 DEF Beginning
  <2> QED BY <2>1, <2>8
<1> QED BY <1>6, <1>7

\* In a true history the signal is found where it is: four frames tell frame
\* 11 from the others.
LEMMA FoundTruly ==
  ASSUME TypeOK, tx.version # "basic", rx.state = "SEARCH_CRC_MFRAME", Searching,
         NEW ts0, NEW rest, Arrives(ts0, rest, "none"), NEW r, Stored(r, ts0)
  PROVE  /\ CrcMframeAchieved(r) => tx.nr = 11
         /\ rx.n >= 10 /\ tx.nr = 11 => CrcMframeAchieved(r)
<1>1. /\ ts0 \in Octet /\ ts0 = PullTs0(tx) /\ tx.nr \in 0 .. 15 /\ rx.nr \in 0 .. 15
      /\ IsFas(ts0) <=> tx.nr % 2 = 0
  BY Delivered, Parity DEF Arrives
<1>2. tx.nr \in {1, 3, 7} => Top(ts0) = 0
  BY <1>1, FarEndSends DEF TypeOK
<1>3. tx.nr \in {5, 9, 11} => Top(ts0) = 1
  BY <1>1, FarEndSends DEF TypeOK
<1>4. Hist(r, 0) = ts0 /\ \A d \in 1 .. 15 : Hist(r, d) = Past(d)
  BY <1>1, HistIs
<1>5. rx.n \in 0 .. 25 /\ rx.nr = (3 + rx.n) % 16 /\ rx.nr % 2 = tx.nr % 2
  BY DEF Searching, FrameInStep
<1>6. ASSUME CrcMframeAchieved(r) PROVE tx.nr = 11
  <2>1. /\ ~IsFas(ts0) /\ Top(ts0) = 1 /\ Top(Past(2)) = 1 /\ Top(Past(6)) = 1 /\ Top(Past(4)) = 0
    BY <1>4, <1>6 DEF CrcMframeAchieved
  <2>2. tx.nr % 2 = 1
    BY <1>1, <2>1
  <2>3. rx.n # 0
    <3> SUFFICES ASSUME rx.n = 0 PROVE FALSE
      OBVIOUS
    <3>1. (rx.nr + (16 - 6)) % 16 = 13
      BY <1>5
    <3>2. Past(6) = 0
      BY <3>1 DEF Past, Searching
    <3> QED BY <2>1, <3>2, NoneBefore
  <2>4. rx.n # 2
    <3> SUFFICES ASSUME rx.n = 2 PROVE FALSE
      OBVIOUS
    <3>1. (rx.nr + (16 - 6)) % 16 = 15
      BY <1>5
    <3>2. Past(6) = 0
      BY <3>1 DEF Past, Searching
    <3> QED BY <2>1, <3>2, NoneBefore
  <2>5. rx.n >= 4
    BY <1>5, <2>2, <2>3, <2>4
  <2>6. Genuine(2) /\ Genuine(4)
    BY <2>5 DEF Searching
  <2>7. Number(2) \notin {1, 3, 7} /\ Number(4) \notin {5, 9, 11}
    BY <2>1, <2>6 DEF Genuine
  <2>8. tx.nr \in {5, 9, 11, 13, 15}
    BY <1>1, <1>2, <2>1, <2>2
  <2> QED BY <2>7, <2>8 DEF Number
<1>7. ASSUME rx.n >= 10, tx.nr = 11 PROVE CrcMframeAchieved(r)
  <2>1. \A d \in 1 .. 10 : Genuine(d)
    BY <1>7, <1>5 DEF Searching
  <2>2. Number(2) = 9 /\ Number(6) = 5 /\ Number(4) = 7 /\ Number(8) = 3 /\ Number(10) = 1
    BY <1>7 DEF Number
  <2>3. Top(Past(2)) = 1 /\ Top(Past(6)) = 1
    BY <2>1, <2>2 DEF Genuine
  <2>4. Top(Past(4)) = 0 /\ Top(Past(8)) = 0 /\ Top(Past(10)) = 0
    BY <2>1, <2>2 DEF Genuine
  <2>5. ~IsFas(ts0) /\ Top(ts0) = 1
    BY <1>1, <1>3, <1>7
  <2> QED BY <1>4, <2>3, <2>4, <2>5 DEF CrcMframeAchieved
<1> QED BY <1>6, <1>7

LEMMA SearchingStep ==
  ASSUME TypeOK, tx.version # "basic", rx.state = "SEARCH_CRC_MFRAME", Searching,
         NEW ts0, NEW rest, Arrives(ts0, rest, "none")
  PROVE  \/ rx'.state = "SEARCH_CRC_MFRAME" /\ Searching'
         \/ rx'.state = "ALIGNED_CRC_MFRAME" /\ InStep'
<1>1. /\ ts0 \in Octet /\ tx'.nr = (tx.nr + 1) % 16 /\ tx.nr \in 0 .. 15 /\ rx.nr \in 0 .. 15
  BY Delivered, Parity DEF Arrives
<1>2. PICK r : Stored(r, ts0)
  BY Delivered
<1>3. /\ r \in Receiver /\ r.nr = rx.nr /\ r.state = rx.state /\ r.n = rx.n /\ rx.hist \in [FrameNr -> Octet]
      /\ rx'.hist = [rx.hist EXCEPT ![rx.nr] = ts0] /\ rx'.nr = (Fsm(r).nr + 1) % 16
      /\ rx'.state = Fsm(r).state /\ rx'.n = Fsm(r).n
  BY <1>2 DEF Stored, TypeOK, Receiver
<1>4. rx.n \in 0 .. 25 /\ rx.nr = (3 + rx.n) % 16 /\ FrameInStep /\ (rx.n >= 10 => rx.n - 10 <= (tx.nr + 4) % 16)
  BY DEF Searching
<1>5. CASE CrcMframeAchieved(r)
  <2>1. tx.nr = 11
    BY <1>2, <1>5, FoundTruly
  <2>2. rx'.state = "ALIGNED_CRC_MFRAME" /\ rx'.nr = 12
    BY <1>3, <1>5, FsmMoves
  <2>3. tx'.nr = 12
    BY <1>1, <2>1
  <2> QED BY <2>2, <2>3 DEF InStep
<1>6. CASE ~CrcMframeAchieved(r)
  <2>1. rx.n >= 10 => tx.nr # 11
    BY <1>2, <1>6, FoundTruly
  <2>2. rx.n >= 10 => (tx'.nr + 4) % 16 = ((tx.nr + 4) % 16) + 1
    <3>1. \A k \in 0 .. 15 : k # 11 => (((k + 1) % 16) + 4) % 16 = ((k + 4) % 16) + 1
      OBVIOUS
    <3> QED BY <1>1, <2>1, <3>1
  <2>3. rx.n \in 0 .. 24
    BY <1>1, <1>4, <2>1
  <2>4. ~(r.n >= SearchLimit)
    BY <1>3, <2>3, FramerAssumption
  <2>5. Fsm(r).nr = rx.nr /\ rx'.n = rx.n + 1 /\ rx'.state = "SEARCH_CRC_MFRAME"
    BY <1>3, <1>6, <2>4, FsmMoves
  <2>6. rx'.nr = (rx.nr + 1) % 16
    BY <1>3, <2>5
  <2>7. rx'.nr = (3 + rx'.n) % 16
    <3>1. \A n \in 0 .. 24 : (((3 + n) % 16) + 1) % 16 = (3 + (n + 1)) % 16
      OBVIOUS
    <3> QED BY <1>4, <2>3, <2>5, <2>6, <3>1
  <2>8. FrameInStep'
    BY <1>1, <1>4, <2>6, Parity DEF FrameInStep
  <2>9. Genuine(1)' /\ \A d \in 1 .. 14 : Genuine(d) => Genuine(d + 1)'
    BY <1>2, <2>5, GenuineMoves
  <2>10. ASSUME NEW d \in 1 .. 10, d <= rx'.n PROVE Genuine(d)'
    <3>1. CASE d = 1
      BY <2>9, <3>1
    <3>2. CASE d # 1
      <4>1. d - 1 \in 1 .. 10 /\ d - 1 \in 1 .. 14 /\ d - 1 <= rx.n /\ (d - 1) + 1 = d
        BY <2>3, <2>5, <2>10, <3>2
      <4>2. Genuine(d - 1)
        BY <4>1 DEF Searching
      <4>3. Genuine((d - 1) + 1)'
        BY <2>9, <4>1, <4>2
      <4> QED BY <4>1, <4>3
    <3> QED BY <3>1, <3>2
  <2>11. rx'.n <= 2 => rx'.hist[13] = 0 /\ rx'.hist[15] = 0
    <3> SUFFICES ASSUME rx'.n <= 2 PROVE rx'.hist[13] = 0 /\ rx'.hist[15] = 0
      OBVIOUS
    <3>1. rx.n \in {0, 1} /\ rx.nr \in {3, 4}
      BY <1>4, <2>3, <2>5
    <3>2. rx.hist[13] = 0 /\ rx.hist[15] = 0
      BY <3>1 DEF Searching
    <3> QED BY <1>3, <3>1, <3>2 DEF FrameNr
  <2>12. rx'.n >= 10 => rx'.n - 10 <= (tx'.nr + 4) % 16
    <3>1. (tx'.nr + 4) % 16 \in 0 .. 15
      BY <1>1
    <3> QED BY <1>1, <1>4, <2>2, <2>3, <2>5, <3>1
  <2>13. rx'.n \in 0 .. 25
    BY <2>3, <2>5
  <2>14. Searching'
    BY <2>7, <2>8, <2>10, <2>11, <2>12, <2>13 DEF Searching
  <2> QED BY <2>5, <2>14
<1> QED BY <1>5, <1>6

LEMMA TrueStep == FramerInv /\ [Next]_vars => TrueInv'
<1> SUFFICES ASSUME FramerInv, Next PROVE TrueInv'
  BY ZenonT(60) DEF FramerInv, TrueInv, vars, Aligned, FrameInStep, InStep, Past, Number, Genuine, Beginning,
         Searching
<1>1. TypeOK /\ TrueInv
  BY DEF FramerInv
<1>2. ASSUME NEW ts0, NEW rest, NEW what, Arrives(ts0, rest, what) PROVE TrueInv'
  <2> SUFFICES ASSUME line'.pure PROVE TrueInv'
    BY DEF TrueInv
  <2>1. line' = Carried(what) /\ tx'.version = tx.version /\ tx'.nr = (tx.nr + 1) % 16
    BY <1>1, <1>2, Delivered
  <2>2. line.pure /\ what = "none"
    BY <2>1 DEF Carried
  <2>3. Arrives(ts0, rest, "none")
    BY <1>2, <2>2
  <2>4. ts0 \in Octet /\ ts0 = PullTs0(tx)
    BY <2>3 DEF Arrives
  <2>5. PICK r : Stored(r, ts0)
    BY <1>1, <1>2, Delivered
  <2>6. /\ r \in Receiver /\ r.nr = rx.nr /\ r.state = rx.state /\ r.n = rx.n
        /\ rx'.nr = (Fsm(r).nr + 1) % 16 /\ rx'.state = Fsm(r).state /\ r.state \in State
    BY <2>5 DEF Stored, Receiver
  <2>7. Hist(r, 0) = ts0
    BY <1>1, <2>4, <2>5, HistIs
  <2>8. CASE tx.version = "basic"
    <3>1. ~Aligned
      BY <1>1, <2>2, <2>8 DEF TrueInv
    <3>2. ~CrcMframeAchieved(r)
      <4> SUFFICES ASSUME CrcMframeAchieved(r) PROVE FALSE
        OBVIOUS
      <4>1. ~IsFas(ts0) /\ Top(ts0) = 1
        BY <2>7 DEF CrcMframeAchieved
      <4>2. tx \in Transmitter
        BY <1>1 DEF TypeOK
      <4>3. Top(ts0) = 0
        BY <2>4, <2>8, <4>1, <4>2, FarEndSends
      <4> QED BY <4>1, <4>3
    <3>3. Fsm(r).state # "ALIGNED_CRC_MFRAME"
      BY <2>6, <3>1, <3>2, FsmMoves DEF Aligned, State
    <3> QED BY <2>1, <2>6, <2>8, <3>3 DEF TrueInv, Aligned
  <2>9. CASE tx.version # "basic"
    <3>1. CASE rx.state = "SEARCH_FRAME"
      <4>1. Beginning
        BY <1>1, <2>2, <2>9, <3>1 DEF TrueInv
      <4>2. \/ rx'.state = "SEARCH_FRAME" /\ Beginning'
            \/ rx'.state = "SEARCH_CRC_MFRAME" /\ Searching'
        BY <1>1, <2>3, <2>9, <3>1, <4>1, BeginningStep
      <4> QED BY <2>1, <2>9, <4>2 DEF TrueInv
    <3>2. CASE rx.state = "SEARCH_CRC_MFRAME"
      <4>1. Searching
        BY <1>1, <2>2, <2>9, <3>2 DEF TrueInv
      <4>2. \/ rx'.state = "SEARCH_CRC_MFRAME" /\ Searching'
            \/ rx'.state = "ALIGNED_CRC_MFRAME" /\ InStep'
        BY <1>1, <2>3, <2>9, <3>2, <4>1, SearchingStep
      <4> QED BY <2>1, <2>9, <4>2 DEF TrueInv
    <3>3. CASE rx.state = "ALIGNED_CRC_MFRAME"
      <4>1. InStep
        BY <1>1, <2>2, <2>9, <3>3 DEF TrueInv
      <4>2. IsFas(ts0) <=> tx.nr % 2 = 0
        BY <2>3 DEF Arrives
      <4>3. ~FrameAlignmentLost(r)
        BY <2>6, <2>7, <4>1, <4>2 DEF FrameAlignmentLost, InStep
      <4>4. rx'.state = "ALIGNED_CRC_MFRAME" /\ rx'.nr = (rx.nr + 1) % 16
        BY <2>6, <3>3, <4>3, FsmMoves
      <4>5. InStep'
        BY <2>1, <4>1, <4>4 DEF InStep
      <4> QED BY <2>1, <2>9, <4>4, <4>5 DEF TrueInv
    <3> QED BY <2>6, <3>1, <3>2, <3>3 DEF State
  <2> QED BY <2>8, <2>9
<1>3. CASE Outage
  BY <1>1, <1>3, NoFrame, ZenonT(60) DEF TrueInv, Aligned, FrameInStep, InStep, Past, Number, Genuine, Beginning,
     Searching
<1>4. CASE Slip
  BY <1>1, <1>4, NoFrame DEF TrueInv
<1>5. CASE Reset
  <2>1. rx'.state = "SEARCH_FRAME" /\ rx'.n = 0 /\ rx'.nr = 0 /\ rx'.hist = [p \in FrameNr |-> 0]
    BY <1>1, <1>5, NoFrame
  <2>2. Beginning'
    BY <2>1 DEF Beginning
  <2> QED BY <2>1, <2>2 DEF TrueInv, Aligned
<1> QED BY <1>1, <1>2, <1>3, <1>4, <1>5, Steps

-----------------------------------------------------------------------------
(* The verdict on a sub-multiframe *)

\* The CRC bits of the sub-multiframe that starts at this position.
Received(h, o) == 8 * Top(h[o]) + 4 * Top(h[o + 2]) + 2 * Top(h[o + 4]) + Top(h[o + 6])

\* An aligned receiver that stays so.
LEMMA AlignedStep ==
  ASSUME TypeOK, Aligned, NEW ts0, NEW rest, NEW what, Arrives(ts0, rest, what), Aligned'
  PROVE  /\ rx'.nr = (rx.nr + 1) % 16 /\ rx'.hist = [rx.hist EXCEPT ![rx.nr] = ts0]
         /\ rx.nr \in {7, 15} =>
              /\ rx'.crc = 0 /\ rx'.last = UpdateCrc(rx.crc, ts0, rest)
              /\ rx'.err <=> Received(rx'.hist, IF rx.nr = 15 THEN 8 ELSE 0) # rx.last
         /\ rx.nr \notin {7, 15} =>
              rx'.crc = UpdateCrc(rx.crc, ts0, rest) /\ rx'.last = rx.last
         /\ rx'.re = IF rx.nr \in {13, 15} THEN Top(ts0) = 0 ELSE rx.re
<1> DEFINE r == Heard(rx, ts0, rest)
           h == [rx.hist EXCEPT ![rx.nr] = ts0]
           v == UpdateCrc(rx.crc, ts0, rest)
<1>1. /\ rx \in Receiver /\ ts0 \in Octet /\ rest \in Nibble /\ rx.state = "ALIGNED_CRC_MFRAME"
      /\ rx.hist \in [FrameNr -> Octet] /\ rx.nr \in FrameNr /\ rx.crc \in Nibble /\ rx.last \in Nibble
      /\ rx.re \in BOOLEAN
  BY DEF Arrives, TypeOK, Aligned, Receiver
<1>2. rx' = NextFrame(Fsm(r))
  BY DEF Arrives, Deliver
<1>3. h \in [FrameNr -> Octet] /\ v \in Nibble
  BY <1>1, CrcIs
<1>4. r = WithHistory(rx, v, h)
  BY <1>1 DEF Heard, Receiver, WithHistory
<1>5. /\ r \in Receiver /\ r.nr = rx.nr /\ r.state = rx.state /\ r.hist = h /\ r.crc = v
      /\ r.last = rx.last /\ r.re = rx.re
  <2> HIDE DEF r, h, v
  <2> QED BY <1>1, <1>3, <1>4, WithHistoryIs, SMTT(30)
<1> HIDE DEF r
<1>6. ~FrameAlignmentLost(r)
  <2>1. Fsm(r) \in Receiver
    BY <1>5, FsmMoves
  <2>2. rx'.state = Fsm(r).state
    BY <1>2, <2>1, NextFrameIs
  <2> QED BY <1>1, <1>5, <2>2, FsmMoves DEF Aligned
<1> DEFINE l == IF SmfEnd(r) THEN r.crc ELSE r.last
           c == IF SmfEnd(r) THEN 0 ELSE r.crc
<1>7. Fsm(r) = Found(r, CrcError(r), l, c, RemoteError(r), RemoteAlarm(r))
  BY <1>1, <1>5, <1>6 DEF Fsm, AlignedCrcMframe, Found
<1>8. /\ CrcError(r) \in BOOLEAN /\ RemoteError(r) \in BOOLEAN /\ RemoteAlarm(r) \in BOOLEAN
      /\ l \in Nibble /\ c \in Nibble
  <2>1. 0 \in Nibble
    BY DEF Nibble
  <2> QED BY <1>5, <2>1 DEF CrcError, RemoteError, RemoteAlarm, Receiver
<1> HIDE DEF l, c
<1>9. /\ Fsm(r) \in Receiver /\ Fsm(r).hist = r.hist /\ Fsm(r).nr = r.nr
      /\ Fsm(r).err = CrcError(r) /\ Fsm(r).last = l /\ Fsm(r).crc = c /\ Fsm(r).re = RemoteError(r)
  BY <1>5, <1>7, <1>8, FoundIs
<1>10. /\ rx'.nr = (rx.nr + 1) % 16 /\ rx'.hist = h /\ rx'.crc = c /\ rx'.last = l
       /\ rx'.err = CrcError(r) /\ rx'.re = RemoteError(r)
  BY <1>2, <1>5, <1>9, NextFrameIs
<1>11. Hist(r, 0) = ts0
  <2>1. rx.nr \in 0 .. 15 /\ (rx.nr + 16 - 0) % 16 = rx.nr
    BY <1>1 DEF FrameNr
  <2> QED BY <1>1, <1>5, <2>1 DEF Hist
<1>12. rx'.re = IF rx.nr \in {13, 15} THEN Top(ts0) = 0 ELSE rx.re
  BY <1>5, <1>10, <1>11 DEF RemoteError
<1>13. CASE rx.nr \in {7, 15}
  <2>1. SmfEnd(r)
    BY <1>5, <1>13 DEF SmfEnd
  <2>2. l = v /\ c = 0
    BY <1>5, <2>1 DEF l, c
  <2>3. ReceivedCrc(r) = Received(h, IF rx.nr = 15 THEN 8 ELSE 0)
    BY <1>5 DEF ReceivedCrc, Received
  <2>4. CrcError(r) <=> ReceivedCrc(r) # rx.last
    BY <1>5, <2>1 DEF CrcError
  <2> HIDE DEF h, v
  <2> QED BY <1>10, <1>12, <1>13, <2>2, <2>3, <2>4 DEF h, v
<1>14. CASE rx.nr \notin {7, 15}
  <2>1. ~SmfEnd(r)
    BY <1>5, <1>14 DEF SmfEnd
  <2>2. l = rx.last /\ c = v
    BY <1>5, <2>1 DEF l, c
  <2> QED BY <1>10, <1>12, <1>14, <2>2
<1> QED BY <1>13, <1>14

\* Spoiled bits of the sub-multiframe being received, and of the one before.
Spoilt       == IF tx.nr % 8 = 0 THEN 0 ELSE line.cur
SpoiltBefore == IF tx.nr % 8 = 0 THEN line.cur ELSE line.prev
CSpoilt      == tx.nr % 8 # 0 /\ line.cbad

CountsOK == line.cur \in 0 .. 2 /\ line.prev \in 0 .. 2 /\ line.cbad \in BOOLEAN

\* Aligned since this sub-multiframe began, or the one before: the CRC that both
\* ends compute over it differs by the bits that were spoiled.
CrcsAgree ==
  /\ line.held > tx.nr % 8 => Differ(rx.crc, SmfCrc(tx), Spoilt)
  /\ line.held > (tx.nr % 8) + 8 => Differ(rx.last, SmfLast(tx), SpoiltBefore)

\* The C bits received so far are those of the CRC before.
BitsAgree ==
  line.held >= tx.nr % 8 /\ ~CSpoilt =>
    \A j \in {0, 2, 4, 6} :
      j < tx.nr % 8 => Top(rx.hist[8 * (tx.nr \div 8) + j]) = Bit(SmfLast(tx), 3 - j \div 2)

\* The E bits came with the sub-multiframe that ended the last multiframe.
RemoteAgrees ==
  /\ tx.nr = 0 /\ line.held > 0 /\ line.cur = 0 => rx.re = tx.err
  /\ tx.nr \in 1 .. 8 /\ line.held > tx.nr /\ line.prev = 0 => rx.re = tx.err

Judged ==
  tx.nr % 8 = 0 /\ line.held > 16 =>
    /\ rx.err => line.prev > 0 \/ line.cbad
    /\ line.prev = 1 /\ ~line.cbad => rx.err

CrcInv ==
  /\ CountsOK
  /\ tx.version = "old" /\ tx.crc4 /\ Aligned /\ InStep =>
       CrcsAgree /\ BitsAgree /\ RemoteAgrees /\ Judged

LEMMA LineCounts ==
  ASSUME CountsOK, TypeOK, NEW ts0, NEW rest, NEW what, Arrives(ts0, rest, what)
  PROVE  /\ line'.held <= line.held + 1 /\ line'.held \in Nat /\ (~Aligned => line'.held = 0)
         /\ line'.cur = IF tx.nr \in {0, 8} THEN Weight(what) ELSE Cap(line.cur + Weight(what), 2)
         /\ line'.prev = IF tx.nr \in {0, 8} THEN line.cur ELSE line.prev
         /\ line'.cbad <=> (tx.nr \notin {0, 8} /\ line.cbad) \/ SpoiledC(what)
         /\ CountsOK'
<1>1. line' = Carried(what) /\ line.held \in Nat
  BY Delivered DEF TypeOK
<1>2. Weight(what) \in 0 .. 2
  BY DEF Weight
<1>3. line'.held <= line.held + 1 /\ line'.held \in Nat /\ (~Aligned => line'.held = 0)
  BY <1>1 DEF Carried, Cap, HistoryCap
<1>4. /\ line'.cur = IF tx.nr \in {0, 8} THEN Weight(what) ELSE Cap(line.cur + Weight(what), 2)
      /\ line'.prev = IF tx.nr \in {0, 8} THEN line.cur ELSE line.prev
      /\ line'.cbad <=> (tx.nr \notin {0, 8} /\ line.cbad) \/ SpoiledC(what)
  BY <1>1 DEF Carried, Weight, SpoiledC
<1>5. line'.cbad \in BOOLEAN
  BY <1>1 DEF Carried, CountsOK
<1>6. CountsOK'
  BY <1>2, <1>4, <1>5 DEF CountsOK, Cap
<1> QED BY <1>3, <1>4, <1>6

LEMMA VerdictStep ==
  ASSUME TypeOK, CrcInv, NEW ts0, NEW rest, NEW what, Arrives(ts0, rest, what),
         tx'.version = "old", tx'.crc4, Aligned, Aligned', InStep'
  PROVE  CrcsAgree' /\ BitsAgree' /\ RemoteAgrees' /\ Judged'
<1>0. PICK q \in Payloads : Spoiled(PullTs0(tx), q, ts0, rest, what) /\ Deliver(q, ts0, rest, what)
  BY DEF Arrives
<1> DEFINE o == PullTs0(tx)
           w == Weight(what)
           u == UpdateCrc(SmfCrc(tx), o, q)
           v == UpdateCrc(rx.crc, ts0, rest)
           k == tx.nr
<1>1. /\ tx \in Transmitter /\ rx \in Receiver /\ k \in 0 .. 15 /\ rx.nr \in 0 .. 15 /\ line.held \in Nat
      /\ DOMAIN rx.hist = 0 .. 15 /\ CountsOK
  BY DEF TypeOK, Transmitter, Receiver, FrameNr, CrcInv
<1>2. /\ tx'.nr = (k + 1) % 16 /\ tx.version = "old" /\ tx' = PullTx(tx, q) /\ q \in Nibble
  BY <1>0, Delivered, PayloadIs DEF Deliver
<1>3. tx.crc4
  BY <1>1, <1>2, PullCrc4
<1>4. /\ tx'.crc = u /\ tx'.last = SmfLast(tx) /\ tx'.err = tx.err
      /\ k % 2 = 0 => Top(o) = Bit(SmfLast(tx), 3 - (k % 8) \div 2)
      /\ k \in {13, 15} => Top(o) = Flag(~tx.err)
  BY <1>1, <1>2, <1>3, OldSends
<1>5. /\ rx'.nr = (rx.nr + 1) % 16 /\ rx'.hist = [rx.hist EXCEPT ![rx.nr] = ts0]
      /\ rx.nr \in {7, 15} =>
           /\ rx'.crc = 0 /\ rx'.last = v
           /\ rx'.err <=> Received(rx'.hist, IF rx.nr = 15 THEN 8 ELSE 0) # rx.last
      /\ rx.nr \notin {7, 15} => rx'.crc = v /\ rx'.last = rx.last
      /\ rx'.re = IF rx.nr \in {13, 15} THEN Top(ts0) = 0 ELSE rx.re
  BY AlignedStep
<1>6. rx.nr = k
  <2>1. \A a, b \in 0 .. 15 : (a + 1) % 16 = (b + 1) % 16 => a = b
    OBVIOUS
  <2> QED BY <1>1, <1>2, <1>5, <2>1 DEF InStep
<1>7. CrcsAgree /\ BitsAgree /\ RemoteAgrees
  BY <1>2, <1>3, <1>6 DEF CrcInv, InStep
<1>8. /\ line'.held <= line.held + 1 /\ line'.held \in Nat
      /\ line'.cur = IF k \in {0, 8} THEN w ELSE Cap(line.cur + w, 2)
      /\ line'.prev = IF k \in {0, 8} THEN line.cur ELSE line.prev
      /\ line'.cbad <=> (k \notin {0, 8} /\ line.cbad) \/ SpoiledC(what)
  BY <1>1, LineCounts
<1>9. /\ w \in 0 .. 2 /\ Spoilt \in 0 .. 2 /\ SpoiltBefore \in 0 .. 2
      /\ SmfCrc(tx) \in Nibble /\ SmfLast(tx) \in Nibble /\ rx.crc \in Nibble /\ rx.last \in Nibble
  BY <1>1, SmfIs DEF Weight, Spoilt, SpoiltBefore, CountsOK, Receiver
<1>10. line.held > k % 8 => Differ(v, u, Cap(Spoilt + w, 2))
  BY <1>0, <1>1, <1>2, <1>3, <1>7, <1>9, CrcStep DEF CrcsAgree
<1>11. Top(ts0) \in Nat /\ (~SpoiledC(what) /\ k % 2 = 0 => Top(ts0) = Top(o))
       /\ (w = 0 /\ k % 2 = 1 => Top(ts0) = Top(o))
  <2>1. ts0 \in Octet /\ what \in What /\ Spoiled(o, q, ts0, rest, what)
    BY <1>0 DEF Arrives
  <2>2. what = "none" \/ what = "data" => ts0 = o
    BY <2>1 DEF Spoiled
  <2>3. ~SpoiledC(what) /\ k % 2 = 0 => what = "none" \/ what = "data"
    BY <2>1 DEF SpoiledC, What
  <2>4. w = 0 /\ k % 2 = 1 => what = "none"
    BY <2>1 DEF Weight, What
  <2> QED BY <2>1, <2>2, <2>3, <2>4 DEF Top, Octet
<1> HIDE DEF o, w, u, v
<1>12. Cap(Spoilt + w, 2) = line'.cur
  BY <1>1, <1>8, <1>9 DEF Spoilt, Cap
<1>13. CASE k \in {7, 15}
  <2>1. /\ tx'.nr \in {0, 8} /\ tx'.nr % 8 = 0 /\ k % 8 = 7 /\ k \notin {0, 8} /\ k % 2 = 1
        /\ tx'.nr = IF k = 15 THEN 0 ELSE 8
    BY <1>2, <1>13
  <2>2. /\ SmfCrc(tx)' = 0 /\ SmfLast(tx)' = u /\ Spoilt' = 0 /\ SpoiltBefore' = line'.cur
    BY <1>4, <2>1 DEF SmfCrc, SmfLast, Spoilt, SpoiltBefore
  <2>3. rx'.crc = 0 /\ rx'.last = v
    BY <1>5, <1>6, <1>13
  <2>4. CrcsAgree'
    <3>1. Differ(rx'.crc, SmfCrc(tx)', Spoilt')
      BY <2>2, <2>3 DEF Differ
    <3>2. line'.held > 8 => Differ(rx'.last, SmfLast(tx)', SpoiltBefore')
      BY <1>1, <1>8, <1>10, <1>12, <2>1, <2>2, <2>3
    <3> QED BY <2>1, <3>1, <3>2 DEF CrcsAgree
  <2>5. BitsAgree'
    BY <2>1 DEF BitsAgree
  <2>6. RemoteAgrees'
    <3>1. ASSUME k = 15, line'.cur = 0 PROVE rx'.re = tx'.err
      <4>1. w = 0
        BY <1>1, <1>8, <1>9, <3>1 DEF Cap, CountsOK
      <4>2. Top(ts0) = Flag(~tx.err)
        BY <1>4, <1>11, <2>1, <3>1, <4>1
      <4>3. tx.err \in BOOLEAN
        BY <1>1 DEF Transmitter
      <4> QED BY <1>4, <1>5, <1>6, <3>1, <4>2, <4>3 DEF Flag
    <3>2. ASSUME k = 7, line'.held > 8, line'.prev = 0 PROVE rx'.re = tx'.err
      <4>1. line.prev = 0 /\ line.held > 7
        BY <1>1, <1>8, <3>2
      <4>2. rx.re = tx.err
        BY <1>7, <3>2, <4>1 DEF RemoteAgrees
      <4> QED BY <1>4, <1>5, <1>6, <3>2, <4>2
    <3> QED BY <1>13, <2>1, <3>1, <3>2 DEF RemoteAgrees
  <2>7. Judged'
    <3> SUFFICES ASSUME line'.held > 16, ~line'.cbad
                 PROVE  /\ rx'.err => line'.prev > 0
                        /\ line'.prev = 1 => rx'.err
      BY DEF Judged
    <3> DEFINE p == IF k = 15 THEN 8 ELSE 0
    <3>1. line.held > 15 /\ ~line.cbad /\ line'.prev = SpoiltBefore
      BY <1>1, <1>8, <2>1 DEF SpoiltBefore
    <3>2. Differ(rx.last, SmfLast(tx), line'.prev)
      BY <1>7, <2>1, <3>1 DEF CrcsAgree
    <3>3. \A j \in {0, 2, 4, 6} : Top(rx.hist[p + j]) = Bit(SmfLast(tx), 3 - j \div 2)
      <4>1. 8 * (k \div 8) = p /\ \A j \in {0, 2, 4, 6} : j < k % 8
        BY <1>13
      <4>2. line.held >= k % 8 /\ ~CSpoilt
        BY <1>1, <2>1, <3>1 DEF CSpoilt
      <4>3. \A j \in {0, 2, 4, 6} : Top(rx.hist[8 * (k \div 8) + j]) = Bit(SmfLast(tx), 3 - j \div 2)
        BY <1>7, <4>1, <4>2 DEF BitsAgree
      <4> HIDE DEF p
      <4> QED BY <4>1, <4>3
    <3>4. \A j \in {0, 2, 4, 6} : rx'.hist[p + j] = rx.hist[p + j]
      BY <1>1, <1>5, <1>6, <1>13
    <3>5. /\ Top(rx'.hist[p]) = Bit(SmfLast(tx), 3) /\ Top(rx'.hist[p + 2]) = Bit(SmfLast(tx), 2)
          /\ Top(rx'.hist[p + 4]) = Bit(SmfLast(tx), 1) /\ Top(rx'.hist[p + 6]) = Bit(SmfLast(tx), 0)
      <4>1. 3 - 0 \div 2 = 3 /\ 3 - 2 \div 2 = 2 /\ 3 - 4 \div 2 = 1 /\ 3 - 6 \div 2 = 0 /\ p + 0 = p
        OBVIOUS
      <4> HIDE DEF p
      <4> QED BY <3>3, <3>4, <4>1
    <3>6. Received(rx'.hist, p) = SmfLast(tx)
      <4>1. \A j \in {0, 1, 2, 3} : Bit(SmfLast(tx), j) \in {0, 1}
        BY <1>9, BitIs DEF Nibble
      <4> HIDE DEF p
      <4> QED BY <1>9, <3>5, <4>1, BitsOf DEF Received
    <3>7. rx'.err <=> SmfLast(tx) # rx.last
      BY <1>5, <1>6, <1>13, <3>6
    <3>8. line'.prev \in 0 .. 2
      BY <1>9, <3>1
    <3> QED BY <3>2, <3>7, <3>8 DEF Differ
  <2> QED BY <2>4, <2>5, <2>6, <2>7
<1>14. CASE k \notin {7, 15}
  <2>1. /\ tx'.nr = k + 1 /\ tx'.nr \in 1 .. 15 /\ tx'.nr \notin {0, 8} /\ tx'.nr % 8 = (k % 8) + 1
        /\ tx'.nr \div 8 = k \div 8 /\ tx'.nr % 8 # 0 /\ (k % 8 = 0 <=> k \in {0, 8})
    BY <1>1, <1>2, <1>14
  <2>2. SmfCrc(tx)' = u /\ SmfLast(tx)' = SmfLast(tx) /\ Spoilt' = line'.cur /\ SpoiltBefore' = SpoiltBefore
    BY <1>4, <1>8, <2>1 DEF SmfCrc, SmfLast, Spoilt, SpoiltBefore
  <2>3. rx'.crc = v /\ rx'.last = rx.last
    BY <1>5, <1>6, <1>14
  <2>4. CrcsAgree'
    <3>1. line'.held > tx'.nr % 8 => Differ(rx'.crc, SmfCrc(tx)', Spoilt')
      BY <1>1, <1>8, <1>10, <1>12, <2>1, <2>2, <2>3
    <3>2. line'.held > (tx'.nr % 8) + 8 => Differ(rx'.last, SmfLast(tx)', SpoiltBefore')
      BY <1>1, <1>7, <1>8, <2>1, <2>2, <2>3 DEF CrcsAgree
    <3> QED BY <3>1, <3>2 DEF CrcsAgree
  <2>5. BitsAgree'
    <3> SUFFICES ASSUME line'.held >= tx'.nr % 8, ~line'.cbad, NEW j \in {0, 2, 4, 6}, j < tx'.nr % 8
                 PROVE  Top(rx'.hist[8 * (k \div 8) + j]) = Bit(SmfLast(tx), 3 - j \div 2)
      BY <2>1, <2>2 DEF BitsAgree, CSpoilt
    <3>1. line.held >= k % 8 /\ ~SpoiledC(what) /\ ~CSpoilt
      BY <1>1, <1>8, <2>1 DEF CSpoilt
    <3>2. CASE j = k % 8
      <4>1. 8 * (k \div 8) + j = k /\ k % 2 = 0
        BY <1>1, <3>2
      <4>2. rx'.hist[k] = ts0
        BY <1>1, <1>5, <1>6
      <4> QED BY <1>4, <1>11, <3>1, <3>2, <4>1, <4>2
    <3>3. CASE j # k % 8
      <4>1. j < k % 8
        BY <1>1, <2>1, <3>3
      <4>2. 8 * (k \div 8) + j \in 0 .. 15 /\ 8 * (k \div 8) + j # k
        BY <1>1, <4>1
      <4>3. rx'.hist[8 * (k \div 8) + j] = rx.hist[8 * (k \div 8) + j]
        BY <1>1, <1>5, <1>6, <4>2
      <4> QED BY <1>7, <3>1, <4>1, <4>3 DEF BitsAgree
    <3> QED BY <3>2, <3>3
  <2>6. RemoteAgrees'
    <3> SUFFICES ASSUME tx'.nr \in 1 .. 8, line'.held > tx'.nr, line'.prev = 0 PROVE rx'.re = tx'.err
      BY <2>1 DEF RemoteAgrees
    <3>1. k \in 0 .. 6 /\ line.held > k
      BY <1>1, <1>8, <1>14, <2>1
    <3>2. rx.re = tx.err
      BY <1>7, <1>8, <3>1 DEF RemoteAgrees
    <3> QED BY <1>4, <1>5, <1>6, <3>1, <3>2
  <2>7. Judged'
    BY <2>1 DEF Judged
  <2> QED BY <2>4, <2>5, <2>6, <2>7
<1> QED BY <1>13, <1>14

LEMMA CrcInvInit == Init => CrcInv
<1> SUFFICES ASSUME Init PROVE CrcInv
  OBVIOUS
<1>1. line = NoHistory
  BY DEF Init
<1>2. rx.state = "SEARCH_FRAME"
  BY DEF Init
<1>3. ~Aligned
  BY <1>2 DEF Aligned
<1>4. CountsOK
  BY <1>1 DEF CountsOK, NoHistory
<1> QED BY <1>3, <1>4 DEF CrcInv

\* Nothing is said of a sub-multiframe that began before alignment.
LEMMA NotYet ==
  ASSUME line'.held = 0, tx' \in Transmitter
  PROVE  CrcsAgree' /\ BitsAgree' /\ RemoteAgrees' /\ Judged'
<1>1. tx'.nr \in 0 .. 15 /\ tx'.nr % 8 \in 0 .. 7
  BY DEF Transmitter, FrameNr
<1>2. CrcsAgree'
  BY <1>1 DEF CrcsAgree
<1>3. BitsAgree'
  BY <1>1 DEF BitsAgree
<1>4. RemoteAgrees'
  BY <1>1 DEF RemoteAgrees
<1>5. Judged'
  BY DEF Judged
<1> QED BY <1>2, <1>3, <1>4, <1>5

LEMMA CrcInvStep == TypeOK /\ CrcInv /\ [Next]_vars => CrcInv'
<1> SUFFICES ASSUME TypeOK, CrcInv, Next PROVE CrcInv'
  BY DEF vars, CrcInv, CountsOK, Aligned, InStep, CrcsAgree, BitsAgree, RemoteAgrees, Judged,
         Spoilt, SpoiltBefore, CSpoilt
<1>1. CountsOK /\ line.held \in Nat
  BY DEF CrcInv, TypeOK
<1>2. ASSUME NEW ts0, NEW rest, NEW what, Arrives(ts0, rest, what) PROVE CrcInv'
  <2>1. CountsOK' /\ (~Aligned => line'.held = 0)
    BY <1>1, <1>2, LineCounts
  <2> SUFFICES ASSUME tx'.version = "old", tx'.crc4, Aligned', InStep'
               PROVE  CrcsAgree' /\ BitsAgree' /\ RemoteAgrees' /\ Judged'
    BY <2>1 DEF CrcInv
  <2>2. CASE Aligned
    BY <1>2, <2>2, VerdictStep
  <2>3. CASE ~Aligned
    <3>1. line'.held = 0 /\ tx' \in Transmitter
      BY <1>2, <2>1, <2>3, Delivered
    <3> QED BY <3>1, NotYet
  <2> QED BY <2>2, <2>3
<1>3. CASE Outage
  <2>1. line' = [line EXCEPT !.out = OutageLen] /\ tx' = tx /\ rx' = rx
    BY <1>3 DEF Outage
  <2>2. line'.held = line.held /\ line'.cur = line.cur /\ line'.prev = line.prev /\ line'.cbad = line.cbad
    BY <2>1
  <2> QED BY <2>1, <2>2 DEF CrcInv, CountsOK, Aligned, InStep, CrcsAgree, BitsAgree, RemoteAgrees, Judged,
        Spoilt, SpoiltBefore, CSpoilt
<1>4. CASE Slip
  <2>1. line'.held = 0 /\ CountsOK' /\ tx' \in Transmitter
    BY <1>4, FarEndMoves, PayloadIs DEF Slip, TypeOK, NoHistory, CountsOK
  <2> QED BY <2>1, NotYet DEF CrcInv
<1>5. CASE Reset
  <2>1. CountsOK' /\ ~Aligned'
    BY <1>5, NoFrame DEF Reset, NoHistory, CountsOK, Aligned
  <2> QED BY <2>1 DEF CrcInv
<1> QED BY <1>2, <1>3, <1>4, <1>5, Steps

-----------------------------------------------------------------------------
(* Theorems *)

\* Every reachable state of the framer has the inductive invariant: what the
\* history of TS0 holds is what the far end sent and the line let through.
THEOREM FramerInvariant == Spec => []FramerInv
<1>1. Init => FramerInv
  BY InvInit
<1>2. FramerInv /\ [Next]_vars => FramerInv'
  BY TypeStep, LossStep, HoldStep, TrueStep DEF FramerInv
<1> QED BY <1>1, <1>2, PTL DEF Spec

\* On a line that nothing disturbed since the receiver was reset
\* (osmo_e1f.c:431 to 465), alignment is declared only where there are
\* multiframes, and with the far end's frame numbers.
THEOREM AlignsTruly == Spec => []AlignedTruly
<1>1. FramerInv => AlignedTruly
  <2> SUFFICES ASSUME FramerInv, Aligned, line.pure PROVE tx.version # "basic" /\ InStep
    BY DEF AlignedTruly
  <2> QED BY DEF FramerInv, TrueInv, Aligned
<1> QED BY <1>1, FramerInvariant, PTL

\* Frame alignment that is wrong, after frames were lost, is given up within
\* six undisturbed frames (osmo_e1f.c:356): the receiver looks at every other
\* octet, and those hold no FAS.
THEOREM NoticesLoss == Spec => []FrameLossNoticed
<1>1. FramerInv => FrameLossNoticed
  <2> SUFFICES ASSUME FramerInv, Aligned, line.calm >= 6, ~FrameInStep PROVE FALSE
    BY DEF FrameLossNoticed
  <2>1. line.calm <= 5 /\ line.calm \in Nat
    BY DEF FramerInv, LossInv, TypeOK
  <2> QED BY <2>1
<1> QED BY <1>1, FramerInvariant, PTL

\* Three FAS in a row have to be spoiled before alignment is dropped
\* (osmo_e1f.c:356): isolated errors never cost it.
THEOREM KeepsHold == Spec => KeepsAlignment
<1>1. FramerInv /\ [Next]_vars =>
        [Aligned /\ InStep /\ line.held >= 6 /\ ~Aligned' => line'.bad = 3 \/ Reset]_vars
  <2> SUFFICES ASSUME FramerInv, Next, Aligned, InStep, line.held >= 6, ~Aligned', ~Reset
               PROVE  line'.bad = 3
    OBVIOUS
  <2>1. TypeOK /\ HoldInv
    BY DEF FramerInv
  <2>2. ~Outage /\ ~Slip
    BY <2>1, NoFrame DEF Aligned
  <2>3. PICK ts0, rest, what : Arrives(ts0, rest, what)
    BY <2>1, <2>2, Steps
  <2>4. ts0 \in Octet /\ line.held \in Nat /\ line.bad \in 0 .. 3
    BY <2>1, <2>3 DEF Arrives, TypeOK
  <2>5. PICK r : Stored(r, ts0)
    BY <2>1, <2>3, Delivered
  <2>6. FrameAlignmentLost(r) /\ r.nr = rx.nr
    BY <2>5, FsmMoves DEF Aligned, Stored
  <2>7. Hist(r, 0) = ts0 /\ Hist(r, 2) = Past(2) /\ Hist(r, 4) = Past(4)
    BY <2>1, <2>4, <2>5, HistIs
  <2>8. rx.nr % 2 = 0 /\ tx.nr % 2 = 0 /\ ~IsFas(ts0) /\ ~IsFas(Past(2)) /\ ~IsFas(Past(4))
    BY <2>6, <2>7 DEF FrameAlignmentLost, InStep
  <2>9. line'.bad = Cap(line.bad + 1, 3)
    BY <2>1, <2>3, <2>8, SpoiledFas
  <2>10. (rx.nr + (16 - 2)) % 2 = 0 /\ FrameInStep
    BY <2>1, <2>8, Parity DEF FrameInStep
  <2>11. ~IsFas(Past(2 + 2))
    BY <2>8
  <2>12. line.bad >= 2
    BY <2>1, <2>4, <2>8, <2>10, <2>11 DEF HoldInv
  <2> QED BY <2>4, <2>9, <2>12 DEF Cap
<1> QED BY <1>1, FramerInvariant, PTL DEF Spec, KeepsAlignment

\* In step with a far end that computes CRCs, the receiver (osmo_e1f.c:417 to
\* 517) finds no error where nothing was spoiled and finds every single bit that
\* was, and it understands the far end's verdict (osmo_e1f.c:519), whatever the
\* payload, the outages and the frames lost before.
THEOREM JudgesTruly == Spec => []CrcVerdict
<1>1. Init => CrcInv
  BY CrcInvInit
<1>2. FramerInv /\ CrcInv /\ [Next]_vars => CrcInv'
  BY CrcInvStep DEF FramerInv
<1>3. FramerInv /\ CrcInv => CrcVerdict
  <2> SUFFICES ASSUME FramerInv, CrcInv, tx.version = "old", tx.crc4, Aligned, InStep, line.held >= 24, tx.nr % 8 = 0
               PROVE  /\ rx.err => line.prev > 0 \/ line.cbad
                      /\ line.prev = 1 /\ ~line.cbad => rx.err
                      /\ line.prev = 0 /\ line.cur = 0 => rx.re = tx.err
    BY DEF CrcVerdict
  <2>1. Judged /\ RemoteAgrees
    BY DEF CrcInv
  <2>2. line.held \in Nat /\ tx.nr \in {0, 8}
    <3>1. tx.nr \in 0 .. 15 /\ line.held \in Nat
      BY DEF FramerInv, TypeOK, Transmitter, FrameNr
    <3> QED BY <3>1
  <2> QED BY <2>1, <2>2 DEF Judged, RemoteAgrees
<1> QED BY <1>1, <1>2, <1>3, FramerInvariant, PTL DEF Spec

=============================================================================
