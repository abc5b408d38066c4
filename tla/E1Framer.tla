------------------------------ MODULE E1Framer ------------------------------
(***************************************************************************)
(* The software E1 framer (software/e1-tracer/analyze/osmo_e1f.c): a far   *)
(* end that transmits frames, a line that spoils or loses some, and the    *)
(* receiver that looks for frame and CRC multiframe alignment in TS0.      *)
(*                                                                         *)
(* A frame is its TS0 octet and one number: the CRC-4 remainder of the     *)
(* other 31 timeslots.  CRC-4 is linear, so this is all of them that the   *)
(* framer can tell apart.  The transmitter comes in two versions, that of  *)
(* osmo_e1f.c and that of software/obsolete/osmo_e1f.c.                    *)
(***************************************************************************)
EXTENDS Integers

CONSTANTS
  FarEnds,      \* configurations of the transmitter: [version, crc4, ra, err, trouble]
  Payloads,     \* CRC remainders that timeslots 1 to 31 of a frame may have
  SearchLimit,  \* TS0s after which the multiframe search gives up (64)
  OutageLen     \* frames that an outage of the line replaces by ones

VARIABLES
  tx,       \* far end: configuration, frame_nr, crc4, crc4_last_smf
  rx,       \* receiver: state, frame_nr, ts0_history, CRCs, alarms, counter
  line,     \* history: what the line did lately
  trouble   \* disturbances still to come, at most

vars == <<tx, rx, line, trouble>>

\* A search of a multiframe and a half finds the signal if there is one.
ASSUME FramerAssumption ==
  /\ FarEnds \subseteq [version : {"old", "new", "basic"}, crc4 : BOOLEAN, ra : BOOLEAN,
                       err : BOOLEAN, trouble : Nat]
  /\ Payloads \subseteq 0 .. 15 /\ Payloads # {}
  /\ SearchLimit \in Nat /\ SearchLimit >= 25
  /\ OutageLen \in Nat

State == {"SEARCH_FRAME", "SEARCH_CRC_MFRAME", "ALIGNED_CRC_MFRAME"}

FrameNr == 0 .. 15
Nibble  == 0 .. 15
Octet   == 0 .. 255

-----------------------------------------------------------------------------
(* CRC-4: remainders modulo x^4 + x + 1.                                   *)

Bit(n, k) == (n \div 2^k) % 2

Xor == [a \in Nibble |-> [b \in Nibble |->
  LET bit(k) == ((Bit(a, k) + Bit(b, k)) % 2) * 2^k
  IN  bit(0) + bit(1) + bit(2) + bit(3)]]

TimesX == [a \in Nibble |-> IF a < 8 THEN 2 * a ELSE Xor[2 * a - 16][3]]

\* x^12 = x^3 + x^2 + x + 1
TimesX12 == [a \in Nibble |->
  LET x1 == TimesX[a]  x2 == TimesX[x1]  x3 == TimesX[x2]
  IN  Xor[Xor[a][x1]][Xor[x2][x3]]]

\* The remainder after one more frame: 256 bits multiply by x^256 = x, TS0
\* stands 31 octets before its end.
FrameCrc(crc, ts0, rest) ==
  Xor[TimesX[Xor[crc][ts0 \div 16]]][Xor[TimesX12[ts0 % 16]][rest]]

IsFas(ts0) == ts0 % 128 = 27
Top(ts0)   == ts0 \div 128

\* Fault: the C bits count.
UpdateCrcWithC(crc, ts0, rest) == FrameCrc(crc, ts0, rest)

\* The CRC covers a FAS without its C bit.
UpdateCrc(crc, ts0, rest) ==
  FrameCrc(crc, IF IsFas(ts0) THEN ts0 % 128 ELSE ts0, rest)

-----------------------------------------------------------------------------
(* Transmitter                                                             *)

CrcBit(t) ==
  IF t.crc4 THEN Bit(t.last, 3 - (t.nr % 8) \div 2) ELSE 1

Flag(b) == IF b THEN 1 ELSE 0

\* Bit 1 of TS0 without FAS: the multiframe alignment signal 001011 and two
\* E bits.
MfBit(nr, e) ==
  CASE nr \in {1, 3, 7}   -> 0
    [] nr \in {5, 9, 11}  -> 1
    [] nr \in {13, 15}    -> e

\* A line with frames but no multiframes, as e1_test.c makes one.
BasicTs0(t) == IF t.nr % 2 = 0 THEN 155 ELSE 64

Ts0(t, sa, e) ==
  IF t.nr % 2 = 0 THEN 27 + 128 * CrcBit(t)
  ELSE 64 + 128 * MfBit(t.nr, e) + 32 * Flag(t.ra) + sa

StartSmf(t) ==
  IF t.nr \in {0, 8} THEN [t EXCEPT !.last = t.crc, !.crc = 0] ELSE t

\* The octet, and the transmitter once it has sent the frame.
Sent(t, ts0, rest) ==
  [t EXCEPT !.nr = (t.nr + 1) % 16, !.crc = UpdateCrc(t.crc, ts0, rest)]

\* The current version takes the octet before it starts the sub-multiframe,
\* so C1 is a bit of the CRC before the last; its E bit is 1 on an error.
NewTs0(t)        == Ts0(t, 0, Flag(t.err))
NewSent(t, rest) == Sent(StartSmf(t), NewTs0(t), rest)

OldTs0(t)        == Ts0(StartSmf(t), 31, Flag(~t.err))
OldSent(t, rest) == Sent(StartSmf(t), OldTs0(t), rest)

PullTs0(t) ==
  CASE t.version = "old"   -> OldTs0(t)
    [] t.version = "new"   -> NewTs0(t)
    [] t.version = "basic" -> BasicTs0(t)

PullTx(t, rest) ==
  CASE t.version = "old"   -> OldSent(t, rest)
    [] t.version = "new"   -> NewSent(t, rest)
    [] t.version = "basic" -> Sent(t, 0, rest)

-----------------------------------------------------------------------------
(* Receiver                                                                *)

Hist(r, delta) == r.hist[(r.nr + 16 - delta) % 16]

\* Faults: one bad signal is enough; the signals in odd frames are judged.
LostAtOnce(r) == r.nr % 2 = 0 /\ ~IsFas(Hist(r, 0))
LostOdd(r)    == r.nr % 2 = 1 /\ \A d \in {0, 2, 4} : ~IsFas(Hist(r, d))

FrameAlignmentLost(r) ==
  r.nr % 2 = 0 /\ \A d \in {0, 2, 4} : ~IsFas(Hist(r, d))

FrameAlignmentRecovered(r) ==
  IsFas(Hist(r, 0)) /\ ~IsFas(Hist(r, 1)) /\ IsFas(Hist(r, 2))

\* Faults: a bit of the signal is not looked at; the signal is compared with
\* the first bit first.
MframeFive(r) ==
  /\ ~IsFas(Hist(r, 0))
  /\ \A d \in {0, 2} : Top(Hist(r, d)) = 1
  /\ \A d \in {4, 8, 10} : Top(Hist(r, d)) = 0
MframeReversed(r) ==
  /\ ~IsFas(Hist(r, 0))
  /\ \A d \in {4, 8, 10} : Top(Hist(r, d)) = 1
  /\ \A d \in {0, 2, 6} : Top(Hist(r, d)) = 0

CrcMframeAchieved(r) ==
  /\ ~IsFas(Hist(r, 0))
  /\ \A d \in {0, 2, 6} : Top(Hist(r, d)) = 1
  /\ \A d \in {4, 8, 10} : Top(Hist(r, d)) = 0

ReceivedCrc(r) ==
  LET o == IF r.nr = 15 THEN 8 ELSE 0
  IN  8 * Top(r.hist[o]) + 4 * Top(r.hist[o + 2]) + 2 * Top(r.hist[o + 4]) + Top(r.hist[o + 6])

SearchFrame(r) ==
  IF FrameAlignmentRecovered(r)
  THEN [r EXCEPT !.nr = 2, !.state = "SEARCH_CRC_MFRAME"]
  ELSE r

\* Fault: the search never gives up.
SearchOn(r) ==
  IF CrcMframeAchieved(r)
  THEN [r EXCEPT !.nr = 11, !.state = "ALIGNED_CRC_MFRAME"]
  ELSE r

\* The counter is not reset when the search succeeds.
SearchCrcMframe(r) ==
  IF CrcMframeAchieved(r)
  THEN [r EXCEPT !.nr = 11, !.state = "ALIGNED_CRC_MFRAME"]
  ELSE IF r.n >= SearchLimit
       THEN [r EXCEPT !.n = 1, !.state = "SEARCH_FRAME"]
       ELSE [r EXCEPT !.n = r.n + 1]

SmfEnd(r) == r.nr \in {7, 15}

\* Fault: the CRC of the sub-multiframe being received, not of the one before.
CrcErrorNow(r) == IF SmfEnd(r) THEN ReceivedCrc(r) # r.crc ELSE r.err

CrcError(r)    == IF SmfEnd(r) THEN ReceivedCrc(r) # r.last ELSE r.err
RemoteError(r) == IF r.nr \in {13, 15} THEN Top(Hist(r, 0)) = 0 ELSE r.re
RemoteAlarm(r) == IF IsFas(Hist(r, 0)) THEN r.ra ELSE Bit(Hist(r, 0), 5) = 1

AlignedCrcMframe(r) ==
  IF FrameAlignmentLost(r)
  THEN [r EXCEPT !.state = "SEARCH_FRAME"]
  ELSE [r EXCEPT !.err  = CrcError(r),
                 !.last = IF SmfEnd(r) THEN r.crc ELSE @,
                 !.crc  = IF SmfEnd(r) THEN 0 ELSE @,
                 !.re   = RemoteError(r),
                 !.ra   = RemoteAlarm(r)]

Fsm(r) ==
  CASE r.state = "SEARCH_FRAME"       -> SearchFrame(r)
    [] r.state = "SEARCH_CRC_MFRAME"  -> SearchCrcMframe(r)
    [] r.state = "ALIGNED_CRC_MFRAME" -> AlignedCrcMframe(r)

\* The CRC is updated before TS0 is looked at, so it covers this frame.
Heard(r, ts0, rest) ==
  [r EXCEPT !.crc = UpdateCrc(r.crc, ts0, rest), !.hist[r.nr] = ts0]

NextFrame(r) == [r EXCEPT !.nr = (r.nr + 1) % 16]

ResetRx(r) ==
  [r EXCEPT !.state = "SEARCH_FRAME", !.n = 0, !.nr = 0, !.hist = [k \in FrameNr |-> 0],
            !.ra = FALSE, !.re = FALSE, !.err = FALSE]

-----------------------------------------------------------------------------
(* The line                                                                *)

\* History: whether nothing disturbed the line since the receiver was reset;
\* frames since the last disturbance, and since alignment; frame alignment
\* signals spoiled in a row; and of the sub-multiframe being received and the
\* one before how many bits of its CRC were spoiled, at most two, as many of a
\* frame of ones may be; and whether a C bit was.
HistoryCap == 24
NoHistory == [out |-> 0, pure |-> TRUE, calm |-> 0, held |-> 0, bad |-> 0, cur |-> 0, prev |-> 0, cbad |-> FALSE]

Cap(n, m) == IF n < m THEN n ELSE m

Aligned == rx.state = "ALIGNED_CRC_MFRAME"

\* The history after a frame; what says which part of it was spoiled.
Carried(what) ==
  LET new == tx.nr \in {0, 8}
      n   == IF what = "ones" THEN 2
             ELSE IF what \in {"ts0", "data"} \/ (what = "top" /\ tx.nr % 2 = 1) THEN 1 ELSE 0
      c   == tx.nr % 2 = 0 /\ what \in {"ts0", "top", "ones"}
  IN [out  |-> IF what = "ones" THEN line.out - 1 ELSE 0,
      pure |-> line.pure /\ what = "none",
      calm |-> IF what = "none" THEN Cap(line.calm + 1, HistoryCap) ELSE 0,
      held |-> IF Aligned THEN Cap(line.held + 1, HistoryCap) ELSE 0,
      bad  |-> IF tx.nr % 2 = 1 THEN line.bad
               ELSE IF what \in {"ts0", "ones"} THEN Cap(line.bad + 1, 3) ELSE 0,
      cur  |-> IF new THEN n ELSE Cap(line.cur + n, 2),
      prev |-> IF new THEN line.cur ELSE line.prev,
      cbad |-> (~new /\ line.cbad) \/ c]

\* The remainder of 31 octets of ones.
OnesRest == 4

FlipLow(ts0) == IF ts0 % 2 = 0 THEN ts0 + 1 ELSE ts0 - 1
FlipTop(ts0) == (ts0 + 128) % 256

\* The far end sends p after TS0; the receiver gets ts0 and rest.
Deliver(p, ts0, rest, what) ==
  /\ (line.out > 0) <=> (what = "ones")
  /\ tx' = PullTx(tx, p)
  /\ \E r \in {Heard(rx, ts0, rest)} : rx' = NextFrame(Fsm(r))
  /\ line' = Carried(what)

Clean == UNCHANGED trouble /\ \E p \in Payloads : Deliver(p, PullTs0(tx), p, "none")

Disturb == trouble > 0 /\ trouble' = trouble - 1

SpoilTs0  == Disturb /\ \E p \in Payloads : Deliver(p, FlipLow(PullTs0(tx)), p, "ts0")
SpoilTop  == Disturb /\ \E p \in Payloads : Deliver(p, FlipTop(PullTs0(tx)), p, "top")
SpoilData == Disturb /\ \E p \in Payloads : Deliver(p, PullTs0(tx), Xor[p][1], "data")

Ones == UNCHANGED trouble /\ \E p \in Payloads : Deliver(p, 255, OnesRest, "ones")

Outage ==
  /\ Disturb
  /\ line.out = 0
  /\ line' = [line EXCEPT !.out = OutageLen]
  /\ UNCHANGED <<tx, rx>>

\* The line loses one frame or two.
Slip ==
  /\ Disturb
  /\ line.out = 0
  /\ \E p, q \in Payloads : tx' \in {PullTx(tx, p), PullTx(PullTx(tx, p), q)}
  /\ line' = [NoHistory EXCEPT !.pure = FALSE]
  /\ UNCHANGED rx

Reset ==
  /\ Disturb
  /\ line.out = 0
  /\ rx' = ResetRx(rx)
  /\ line' = NoHistory
  /\ UNCHANGED tx

Init ==
  /\ \E f \in FarEnds, k \in FrameNr :
       /\ trouble = f.trouble
       /\ tx = [version |-> f.version, crc4 |-> f.crc4, ra |-> f.ra, err |-> f.err,
               nr |-> k, crc |-> 0, last |-> 0]
  /\ rx = [state |-> "SEARCH_FRAME", n |-> 0, nr |-> 0, hist |-> [k \in FrameNr |-> 0],
           ra |-> FALSE, re |-> FALSE, err |-> FALSE, crc |-> 0, last |-> 0]
  /\ line = NoHistory

Next == Clean \/ Outage \/ Ones \/ SpoilTs0 \/ SpoilTop \/ SpoilData \/ Slip \/ Reset

Spec == Init /\ [][Next]_vars /\ WF_vars(Clean \/ Ones)

-----------------------------------------------------------------------------
(* Properties                                                              *)

FrameInStep == rx.nr % 2 = tx.nr % 2
InStep      == rx.nr = tx.nr

\* On a line that nothing disturbed since the receiver was reset, multiframe
\* alignment is only declared where the far end sends multiframes, and then
\* the receiver numbers the frames as the far end does.
AlignedTruly == Aligned /\ line.pure => tx.version # "basic" /\ InStep

\* Whatever happened to the line, six undisturbed frames later a receiver that
\* takes itself for aligned knows FAS frames from the others.
FrameLossNoticed == Aligned /\ line.calm >= 6 => FrameInStep

\* A receiver in step for three FAS only drops alignment when three FAS in a
\* row were spoiled: isolated errors never cost alignment.
KeepsAlignment ==
  [][Aligned /\ InStep /\ line.held >= 6 /\ ~Aligned' => line'.bad = 3 \/ Reset]_vars

\* In step with a far end that computes CRCs, the verdict at the end of a
\* sub-multiframe is true: no error is found where nothing was spoiled, one
\* spoiled bit is always found, and what the far end says of the other
\* direction is understood.  (Four bits do not tell every frame of ones from the
\* one it replaces.)
CrcVerdict ==
  tx.version = "old" /\ tx.crc4 /\ Aligned /\ InStep /\ line.held >= 24 /\ tx.nr % 8 = 0 =>
    /\ rx.err => line.prev > 0 \/ line.cbad
    /\ line.prev = 1 /\ ~line.cbad => rx.err
    /\ line.prev = 0 /\ line.cur = 0 => rx.re = tx.err

\* Once disturbances are over, the receiver ends up aligned for good, as far
\* as frames are concerned.
Realigns == tx.version # "basic" => <>[](Aligned /\ FrameInStep)

\* On a line without multiframes the receiver keeps returning to the search
\* for frames.
FallsBack == tx.version = "basic" => []<>(rx.state = "SEARCH_FRAME")

\* "if we detected the 6-bit CRC multiframe signal, we must be in FN 11"
\* (osmo_e1f.c:450): the frame numbers end up right.  They may never.
EndsInStep == tx.version # "basic" => <>[](Aligned /\ InStep)

=============================================================================
