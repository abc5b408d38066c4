------------------------------- MODULE E1Fifo -------------------------------
(***************************************************************************)
(* The frame FIFO between the E1 core and USB: a zone of the E1 data       *)
(* memory with two write pointers and two read pointers, all counted in    *)
(* 32-byte frames (firmware/ice40-riscv/icE1usb/e1.c).                     *)
(*                                                                         *)
(*   w0  frames below are committed      r0  frames below are discarded    *)
(*   w1  frames below are allocated      r1  frames below are peeked       *)
(*                                                                         *)
(* A FIFO value is a record of the four pointers.  The zone is FifoLen     *)
(* frames long; x & mask is x % FifoLen, as the code makes mask = len - 1  *)
(* with len a power of two.  The code's constants are MF = 16 and          *)
(* NMF = 16 (256 frames per zone).                                         *)
(***************************************************************************)
EXTENDS Integers

CONSTANTS
  MF,    \* frames per multiframe, the unit of a buffer descriptor
  NMF    \* multiframes per FIFO zone

ASSUME FifoAssumption == MF \in Nat \ {0} /\ NMF \in Nat \ {0}

FifoLen == NMF * MF

Pointer == 0 .. FifoLen - 1

\* Offsets at which a multiframe of the zone starts.
MfStart == {k * MF : k \in 0 .. NMF - 1}

\* A pointer of FifoLen only comes out of EmptyHead below.
Fifo == [w0 : 0 .. FifoLen, w1 : 0 .. FifoLen, r0 : 0 .. FifoLen, r1 : 0 .. FifoLen]

Reset == [w0 |-> 0, w1 |-> 0, r0 |-> 0, r1 |-> 0]

-----------------------------------------------------------------------------
(* Levels *)

Allocd(f) == (f.w1 - f.r0) % FifoLen
Valid(f)  == (f.w0 - f.r0) % FifoLen
Unseen(f) == (f.w0 - f.r1) % FifoLen
\* Fault: frames the core still sends count as free.
FreeFromPeeked(f) == (f.r1 - f.w1 - 1) % FifoLen

Free(f)   == (f.r0 - f.w1 - 1) % FifoLen

Lower(a, b) == IF a < b THEN a ELSE b

-----------------------------------------------------------------------------
(* Frame level access.  One call moves a contiguous run: it stops at the   *)
(* end of the zone, and at the level the other side allows.                *)

WriteRun(f, max) == Lower(Lower(max, FifoLen - f.w0), Free(f))
ReadRun(f, max)  == Lower(Lower(max, FifoLen - f.r1), Unseen(f))

FrameWrite(f, max) ==
  LET w == (f.w0 + WriteRun(f, max)) % FifoLen
  IN  [f EXCEPT !.w0 = w, !.w1 = w]

FrameRead(f, max) ==
  LET r == (f.r1 + ReadRun(f, max)) % FifoLen
  IN  [f EXCEPT !.r0 = r, !.r1 = r]

\* The callers loop until max frames are moved or a call moves none.  As
\* max is below FifoLen, a second run exhausts one of the two.
WriteFrames(f, max) ==
  FrameWrite(FrameWrite(f, max), max - WriteRun(f, max))

ReadFrames(f, max) ==
  FrameRead(FrameRead(f, max), max - ReadRun(f, max))

-----------------------------------------------------------------------------
(* Multiframe level access, split in two halves around the hardware.       *)

\* Faults: both second halves catch up with the first instead of moving by one
\* multiframe.
CommitAll(f)    == [f EXCEPT !.w0 = f.w1]
DiscardAll(f)   == [f EXCEPT !.r0 = f.r1]

CanPrepare(f) == Free(f) >= MF
Prepare(f)    == [f EXCEPT !.w1 = (f.w1 + MF) % FifoLen]
Commit(f)     == [f EXCEPT !.w0 = (f.w0 + MF) % FifoLen]

CanPeek(f)    == Unseen(f) >= MF
Peek(f)       == [f EXCEPT !.r1 = (f.r1 + MF) % FifoLen]
Discard(f)    == [f EXCEPT !.r0 = (f.r0 + MF) % FifoLen]

\* x & ~15
RoundDown(x) == x - (x % MF)

\* Fault: nothing is dropped.
KeepTail(f) == f

\* Drop what is committed and unread.
EmptyTail(f) == LET r == RoundDown(f.w0)
                IN  [f EXCEPT !.r0 = r, !.r1 = r]

\* Drop what is written and not peeked; the result is not masked, so it can
\* be FifoLen.
EmptyHead(f) == LET w == RoundDown(f.r1 + MF - 1)
                IN  [f EXCEPT !.w0 = w, !.w1 = w]

=============================================================================
