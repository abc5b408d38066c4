------------------------------- MODULE E1Port -------------------------------
(***************************************************************************)
(* One E1 port of the icE1usb firmware: the receive and transmit pipes of  *)
(* e1.c, the buffer-descriptor queues of the E1 core they feed, and the    *)
(* calls usb_e1.c makes into them.                                         *)
(*                                                                         *)
(* The firmware is one thread: a call from USB runs to completion, but     *)
(* e1_poll reads the core's registers several times while the core keeps   *)
(* completing descriptors.  So every call is one action, and e1_poll is    *)
(* one action per register access that the core can overtake; `pc' says    *)
(* where in e1_poll the thread is, "main" standing for outside of it.      *)
(*                                                                         *)
(* The core (gateware of a submodule, external here) owns, per direction,  *)
(* a queue of descriptors it fills or sends in order, and a sticky         *)
(* overflow / underflow flag it raises when it needs a descriptor and has  *)
(* none.  rxBds[1..rxDone] are complete and wait to be reaped.             *)
(*                                                                         *)
(* Error counters, alarm flags, control registers and LEDs are left to     *)
(* module E1Alarms, which conjoins them to these actions.                  *)
(***************************************************************************)
EXTENDS E1Fifo, Sequences

CONSTANTS
  MaxInFlight,   \* descriptors kept in the core (4)
  Prime,         \* frames TX gathers before it starts or resumes (16 * 5)
  MaxChunk       \* largest frame count of one USB packet (9)

ASSUME PortAssumption ==
  /\ MaxInFlight \in Nat \ {0}
  /\ Prime \in Nat
  /\ MaxChunk \in 1 .. FifoLen - 1

VARIABLES
  running,                                        \* usb_e1.c: altsetting 1 selected
  pc,                                             \* position in e1_poll
  rxState, rxFifo, rxInFlight,                    \* struct e1_state.rx
  txState, txFifo, txInFlight,                    \* struct e1_state.tx
  rxBds, rxDone, rxOvfl, aligned,                 \* E1 core, receiver
  txBds, txDone, txUnfl,                          \* E1 core, transmitter
  pruned         \* history: e1_start cut the RX FIFO head while RX was not idle

rxVars == <<rxState, rxFifo, rxInFlight>>
txVars == <<txState, txFifo, txInFlight>>
rxCore == <<rxBds, rxDone, rxOvfl>>
txCore == <<txBds, txDone, txUnfl>>
vars   == <<running, pc, rxVars, txVars, rxCore, aligned, txCore, pruned>>

PipeState == {"IDLE", "STARTING", "RUN", "RECOVER", "SHUTDOWN"}

\* The port's two FIFO zones lie one after the other in the E1 data memory.
RxBase == 0
TxBase == FifoLen
DataOfs == 0 .. 2 * FifoLen

-----------------------------------------------------------------------------
Init ==
  /\ running = FALSE /\ pc = "main"
  /\ rxState = "IDLE" /\ rxFifo = Reset /\ rxInFlight = 0
  /\ txState = "IDLE" /\ txFifo = Reset /\ txInFlight = 0
  /\ rxBds = <<>> /\ rxDone = 0 /\ rxOvfl = FALSE /\ aligned = FALSE
  /\ txBds = <<>> /\ txDone = 0 /\ txUnfl = FALSE
  /\ pruned = FALSE

-----------------------------------------------------------------------------
(* Calls from USB *)

\* A pipe in SHUTDOWN goes to RECOVER, "a shutdown with auto-restart".
Restarted(state) ==
  CASE state = "IDLE"     -> "STARTING"
    [] state = "SHUTDOWN" -> "RECOVER"
    [] OTHER              -> state

CleanIfIdle(state, fifo) == IF state = "IDLE" THEN Reset ELSE fifo

\* e1_start.  It cuts the head of the RX FIFO when it is TX that was
\* shutting down.  Both sticky flags are cleared.
StartPort ==
  /\ pc = "main" /\ ~running
  /\ running' = TRUE
  /\ rxState' = Restarted(rxState)
  /\ txState' = Restarted(txState)
  /\ rxFifo' = LET f == CleanIfIdle(rxState, rxFifo)
               IN  IF txState = "SHUTDOWN" THEN EmptyHead(f) ELSE f
  /\ txFifo' = CleanIfIdle(txState, txFifo)
  /\ rxOvfl' = FALSE
  /\ txUnfl' = FALSE
  /\ pruned' = (rxState # "IDLE" /\ (pruned \/ txState = "SHUTDOWN"))
  /\ UNCHANGED <<pc, rxInFlight, txInFlight, rxBds, rxDone, aligned, txBds, txDone>>

StopPort ==
  /\ pc = "main" /\ running
  /\ running' = FALSE
  /\ rxState' = "SHUTDOWN"
  /\ txState' = "SHUTDOWN"
  /\ UNCHANGED <<pc, rxFifo, rxInFlight, txFifo, txInFlight, rxCore, aligned, txCore, pruned>>

\* e1_rx_need_data: up to n frames of the RX FIFO go to a USB IN packet.
NeedData(n) ==
  /\ pc = "main" /\ running
  /\ Valid(rxFifo) > 0
  /\ rxFifo' = ReadFrames(rxFifo, n)
  /\ UNCHANGED <<running, pc, rxState, rxInFlight, txVars, rxCore, aligned, txCore, pruned>>

\* e1_tx_feed_data: a USB OUT packet of n frames goes to the TX FIFO; what
\* does not fit is dropped.
FeedData(n) ==
  /\ pc = "main" /\ running
  /\ txFifo' = WriteFrames(txFifo, n)
  /\ UNCHANGED <<running, pc, rxVars, txState, txInFlight, rxCore, aligned, txCore, pruned>>

-----------------------------------------------------------------------------
(* e1_poll *)

\* Fault: a port with one idle pipe is skipped.
QuietHalf == rxState = "IDLE" \/ txState = "IDLE"

\* Nothing more is done for a port that is idle both ways.
Quiet == rxState = "IDLE" /\ txState = "IDLE"

PollBegin ==
  /\ pc = "main"
  /\ ~Quiet
  /\ pc' = "reapTx"
  /\ UNCHANGED <<running, rxVars, txVars, rxCore, aligned, txCore, pruned>>

ReapTx ==
  /\ pc = "reapTx" /\ txDone > 0
  /\ txFifo' = Discard(txFifo)
  /\ txInFlight' = txInFlight - 1
  /\ txBds' = Tail(txBds) /\ txDone' = txDone - 1
  /\ UNCHANGED <<running, pc, rxVars, txState, rxCore, aligned, txUnfl, pruned>>

ReapTxEnd ==
  /\ pc = "reapTx" /\ txDone = 0
  /\ pc' = "reapRx"
  /\ UNCHANGED <<running, rxVars, txVars, rxCore, aligned, txCore, pruned>>

ReapRx ==
  /\ pc = "reapRx" /\ rxDone > 0
  /\ rxFifo' = Commit(rxFifo)
  /\ rxInFlight' = rxInFlight - 1
  /\ rxBds' = Tail(rxBds) /\ rxDone' = rxDone - 1
  /\ UNCHANGED <<running, pc, rxState, txVars, rxOvfl, aligned, txCore, pruned>>

\* Faults: boot waits for one multiframe only, or after an underflow as well.
BootWaitShort == txState = "STARTING" /\ Unseen(txFifo) < MF
BootWaitAny   == txState \in {"STARTING", "RECOVER"} /\ Unseen(txFifo) < Prime

\* Boot procedure: until TX has its first Prime frames, neither pipe moves.
BootWait == txState = "STARTING" /\ Unseen(txFifo) < Prime

ReapRxEnd ==
  /\ pc = "reapRx" /\ rxDone = 0
  /\ pc' = IF BootWait THEN "main" ELSE "rx"
  /\ UNCHANGED <<running, rxVars, txVars, rxCore, aligned, txCore, pruned>>

RxIdle ==
  /\ pc = "rx" /\ rxState = "IDLE"
  /\ pc' = "tx"
  /\ UNCHANGED <<running, rxVars, txVars, rxCore, aligned, txCore, pruned>>

\* Fault: a stopped pipe is served like a running one.
ServedUnlessIdle(state) == state # "IDLE"

\* The state of a stopped pipe, and the states that go on to the refill.
Drained(inFlight) == IF inFlight = 0 THEN "IDLE" ELSE "SHUTDOWN"
Served(state)     == state \notin {"IDLE", "SHUTDOWN"}

RxShutdown ==
  /\ pc = "rx" /\ rxState = "SHUTDOWN"
  /\ rxState' = Drained(rxInFlight)
  /\ pc' = "tx"
  /\ UNCHANGED <<running, rxFifo, rxInFlight, txVars, rxCore, aligned, txCore, pruned>>

\* A misaligned or overflown receiver has to drain before it is refilled.
RxChecked ==
  IF rxState = "RUN" /\ (~aligned \/ rxOvfl) THEN "RECOVER" ELSE rxState

RxWait ==
  /\ pc = "rx" /\ RxChecked = "RECOVER" /\ rxInFlight # 0
  /\ rxState' = "RECOVER"
  /\ pc' = "tx"
  /\ UNCHANGED <<running, rxFifo, rxInFlight, txVars, rxCore, aligned, txCore, pruned>>

RxService ==
  /\ pc = "rx" /\ Served(rxState)
  /\ ~(RxChecked = "RECOVER" /\ rxInFlight # 0)
  /\ rxState' = RxChecked
  /\ rxFifo' = IF RxChecked = "RECOVER" THEN EmptyTail(rxFifo) ELSE rxFifo
  /\ pc' = "rxFill"
  /\ UNCHANGED <<running, rxInFlight, txVars, rxCore, aligned, txCore, pruned>>

RxMayFill == rxInFlight < MaxInFlight /\ CanPrepare(rxFifo)

RxFill ==
  /\ pc = "rxFill" /\ RxMayFill
  /\ rxBds' = Append(rxBds, RxBase + rxFifo.w1)
  /\ rxFifo' = Prepare(rxFifo)
  /\ rxInFlight' = rxInFlight + 1
  /\ UNCHANGED <<running, pc, rxState, txVars, rxDone, rxOvfl, aligned, txCore, pruned>>

RxFillEnd ==
  /\ pc = "rxFill" /\ ~RxMayFill
  /\ rxState' = "RUN"
  /\ rxOvfl' = IF rxState = "RUN" THEN rxOvfl ELSE FALSE
  /\ pc' = "tx"
  /\ UNCHANGED <<running, rxFifo, rxInFlight, txVars, rxBds, rxDone, aligned, txCore, pruned>>

TxIdle ==
  /\ pc = "tx" /\ txState = "IDLE"
  /\ pc' = "main"
  /\ UNCHANGED <<running, rxVars, txVars, rxCore, aligned, txCore, pruned>>

TxShutdown ==
  /\ pc = "tx" /\ txState = "SHUTDOWN"
  /\ txState' = Drained(txInFlight)
  /\ pc' = "main"
  /\ UNCHANGED <<running, rxVars, txFifo, txInFlight, rxCore, aligned, txCore, pruned>>

TxChecked == IF txState = "RUN" /\ txUnfl THEN "RECOVER" ELSE txState

\* After an underflow TX gathers Prime frames again.
TxWait ==
  /\ pc = "tx" /\ TxChecked = "RECOVER" /\ Unseen(txFifo) < Prime
  /\ txState' = "RECOVER"
  /\ pc' = "main"
  /\ UNCHANGED <<running, rxVars, txFifo, txInFlight, rxCore, aligned, txCore, pruned>>

TxService ==
  /\ pc = "tx" /\ Served(txState)
  /\ ~(TxChecked = "RECOVER" /\ Unseen(txFifo) < Prime)
  /\ txState' = TxChecked
  /\ pc' = "txFill"
  /\ UNCHANGED <<running, rxVars, txFifo, txInFlight, rxCore, aligned, txCore, pruned>>

TxMayFill == txInFlight < MaxInFlight /\ CanPeek(txFifo)

TxFill ==
  /\ pc = "txFill" /\ TxMayFill
  /\ txBds' = Append(txBds, TxBase + txFifo.r1)
  /\ txFifo' = Peek(txFifo)
  /\ txInFlight' = txInFlight + 1
  /\ UNCHANGED <<running, pc, rxVars, txState, rxCore, aligned, txDone, txUnfl, pruned>>

TxFillEnd ==
  /\ pc = "txFill" /\ ~TxMayFill
  /\ txState' = "RUN"
  /\ txUnfl' = IF txState = "RUN" THEN txUnfl ELSE FALSE
  /\ pc' = "main"
  /\ UNCHANGED <<running, rxVars, txFifo, txInFlight, rxCore, aligned, txBds, txDone, pruned>>

Poll ==
  \/ PollBegin \/ ReapTx \/ ReapTxEnd \/ ReapRx \/ ReapRxEnd
  \/ RxIdle \/ RxShutdown \/ RxWait \/ RxService \/ RxFill \/ RxFillEnd
  \/ TxIdle \/ TxShutdown \/ TxWait \/ TxService \/ TxFill \/ TxFillEnd

-----------------------------------------------------------------------------
(* The E1 core (external): it works on its own clock, between any two      *)
(* steps of the firmware.                                                  *)

\* Frames are captured only while the deframer is aligned.
CoreRxDone ==
  /\ aligned /\ rxDone < Len(rxBds)
  /\ rxDone' = rxDone + 1
  /\ UNCHANGED <<running, pc, rxVars, txVars, rxBds, rxOvfl, aligned, txCore, pruned>>

CoreRxOverflow ==
  /\ aligned /\ rxDone = Len(rxBds) /\ ~rxOvfl
  /\ rxOvfl' = TRUE
  /\ UNCHANGED <<running, pc, rxVars, txVars, rxBds, rxDone, aligned, txCore, pruned>>

CoreTxDone ==
  /\ txDone < Len(txBds)
  /\ txDone' = txDone + 1
  /\ UNCHANGED <<running, pc, rxVars, txVars, rxCore, aligned, txBds, txUnfl, pruned>>

CoreTxUnderflow ==
  /\ txDone = Len(txBds) /\ ~txUnfl
  /\ txUnfl' = TRUE
  /\ UNCHANGED <<running, pc, rxVars, txVars, rxCore, aligned, txBds, txDone, pruned>>

LineChange ==
  /\ aligned' = ~aligned
  /\ UNCHANGED <<running, pc, rxVars, txVars, rxCore, txCore, pruned>>

Core == CoreRxDone \/ CoreRxOverflow \/ CoreTxDone \/ CoreTxUnderflow \/ LineChange

-----------------------------------------------------------------------------
Usb == StartPort \/ StopPort \/ (\E n \in 1 .. MaxChunk : NeedData(n) \/ FeedData(n))

Next == Usb \/ Poll \/ Core

Spec == Init /\ [][Next]_vars

\* The main loop polls for ever, and the transmitter is clocked for ever;
\* the receiver makes progress while it is aligned.
FairSpec == Spec /\ WF_vars(Poll) /\ WF_vars(CoreRxDone) /\ WF_vars(CoreTxDone)

-----------------------------------------------------------------------------
(* Correctness *)

\* Types.  in_flight counts exactly the descriptors the core holds.
CtlType ==
  /\ running \in BOOLEAN /\ aligned \in BOOLEAN /\ pruned \in BOOLEAN
  /\ pc \in {"main", "reapTx", "reapRx", "rx", "rxFill", "tx", "txFill"}
  /\ rxState \in PipeState /\ txState \in PipeState

RxType ==
  /\ rxFifo \in Fifo /\ rxBds \in Seq(DataOfs) /\ rxOvfl \in BOOLEAN
  /\ rxInFlight = Len(rxBds) /\ rxInFlight <= MaxInFlight
  /\ rxDone \in 0 .. rxInFlight

TxType ==
  /\ txFifo \in Fifo /\ txBds \in Seq(DataOfs) /\ txUnfl \in BOOLEAN
  /\ txInFlight = Len(txBds) /\ txInFlight <= MaxInFlight
  /\ txDone \in 0 .. txInFlight

TypeOK == CtlType /\ RxType /\ TxType

\* The frames of a FIFO's zone that the host side reads (committed, not
\* discarded) and those it may write next.
Readable(f, x) == (x - f.r0) % FifoLen < Valid(f)
Writable(f, x) == (x - f.w1) % FifoLen < Free(f)

\* The k-th multiframe slot from a pointer on.
Slot(ptr, k) == (ptr + (k - 1) * MF) % FifoLen

\* While no restart has cut its head, the receive FIFO hands its slots to the
\* core and back in order: the k-th descriptor in the core covers the k-th
\* uncommitted multiframe, and allocated frames are those readable plus those
\* in the core.  (e1f_multiframe_write_prepare / _commit against rx.in_flight.)
RxInOrder ==
  ~pruned =>
    /\ \A k \in 1 .. rxInFlight :
         rxBds[k] = RxBase + Slot(rxFifo.w0, k)
    /\ Allocd(rxFifo) = Valid(rxFifo) + rxInFlight * MF

\* The transmit FIFO hands its slots to the core and back in order, whatever
\* restarts happen: the k-th descriptor in the core covers the k-th frame
\* group that is peeked and not discarded.
TxInOrder ==
  /\ \A k \in 1 .. txInFlight :
       txBds[k] = TxBase + Slot(txFifo.r0, k)
  /\ Valid(txFifo) = Unseen(txFifo) + txInFlight * MF

\* A slot the receiver is writing holds no frame that the host reads, so that
\* a USB packet never carries half-received frames.
RxNotShared ==
  ~pruned => \A k \in 1 .. rxInFlight : \A i \in 0 .. MF - 1 :
    ~Readable(rxFifo, rxBds[k] - RxBase + i)

\* A slot the transmitter is sending is never where the next frames from USB
\* go.
TxNotShared ==
  \A k \in 1 .. txInFlight : \A i \in 0 .. MF - 1 :
    ~Writable(txFifo, txBds[k] - TxBase + i)

\* A pipe is IDLE only once the core has given every descriptor back, so the
\* reset in e1_start cannot pull a FIFO from under the core.
IdleDrained ==
  /\ rxState = "IDLE" => rxInFlight = 0
  /\ txState = "IDLE" => txInFlight = 0

\* Every descriptor starts at a multiframe: e1f_ofs_to_mf drops the low bits
\* of the offset, so any other start would move the slot.
BdsMfAligned ==
  /\ \A k \in 1 .. txInFlight : txBds[k] - TxBase \in MfStart
  /\ ~pruned => \A k \in 1 .. rxInFlight : rxBds[k] - RxBase \in MfStart

\* The inductive strengthening.  The pointers that descriptors are cut at stay
\* on multiframe starts, the host side moves both its pointers together, and
\* the pipes are up exactly while the host has the port selected.
RxPointers ==
  ~pruned => /\ rxFifo.w0 \in MfStart /\ rxFifo.w1 \in MfStart
             /\ rxFifo.r0 \in Pointer /\ rxFifo.r1 = rxFifo.r0

TxPointers ==
  /\ txFifo.r0 \in MfStart /\ txFifo.r1 \in MfStart
  /\ txFifo.w0 \in Pointer /\ txFifo.w1 = txFifo.w0

\* Past its boot wait, e1_poll finds the frames TX waited for still there;
\* past its wait for the core, it finds the RX FIFO empty.
TxGathered ==
  /\ pc \in {"rx", "rxFill", "tx"} /\ txState = "STARTING" => Unseen(txFifo) >= Prime
  /\ pc = "txFill" /\ txState # "RUN" => Valid(txFifo) >= Prime

RxEmptied ==
  pc = "rxFill" /\ rxState = "RECOVER" /\ ~pruned => Valid(rxFifo) = 0

Down == {"IDLE", "SHUTDOWN"}

UpWhileRunning ==
  /\ running <=> rxState \notin Down
  /\ running <=> txState \notin Down
  /\ pc \in {"rxFill", "txFill"} => running

PortInv ==
  /\ TypeOK /\ IdleDrained /\ UpWhileRunning
  /\ RxPointers /\ RxInOrder /\ RxEmptied
  /\ TxPointers /\ TxInOrder /\ TxGathered

\* After e1_stop no new descriptor reaches the core until e1_start.
NoSubmitWhenStopped ==
  [][/\ ~running => Len(rxBds') <= Len(rxBds)
     /\ ~running => Len(txBds') <= Len(txBds)]_vars

\* When reception resumes after an error the host reads nothing from before
\* it: the FIFO is empty and the next frame is the first of a descriptor.
RxResyncsClean ==
  [][rxState = "RECOVER" /\ rxState' = "RUN" /\ ~pruned =>
       Valid(rxFifo) = 0 /\ (rxBds # <<>> => rxFifo.r0 = rxBds[1] - RxBase)]_vars

\* Transmission starts or resumes only with Prime frames collected.
TxPrimed ==
  [][(txState = "STARTING" \/ txState = "RECOVER") /\ txState' = "RUN" =>
       Valid(txFifo) >= Prime]_vars

\* A stopped transmitter always goes idle; a stopped receiver does while the
\* line stays aligned.
StopDrains ==
  /\ txState = "SHUTDOWN" ~> txState # "SHUTDOWN"
  /\ <>[]aligned => (rxState = "SHUTDOWN" ~> rxState # "SHUTDOWN")

\* A receiver that lost alignment or overflowed runs again once the line is
\* aligned, unless TX is still waiting for its first frames.
RxRecovers ==
  <>[]aligned => (rxState = "RECOVER" ~> rxState # "RECOVER" \/ txState = "STARTING")

\* The port implements the channel that USB sees.
Channel == INSTANCE E1Channel WITH
  Unit <- MF, Cap <- FifoLen - 1,
  ready <- Valid(rxFifo), rxLent <- rxInFlight * MF, broken <- pruned,
  queued <- Unseen(txFifo), txLent <- txInFlight * MF

\* The host reads every received frame at most once, and only when the core
\* has finished with it.
RxChannel == Channel!RxSpec

\* Every frame the host wrote is sent at most once, in units the core takes.
TxChannel == Channel!TxSpec

-----------------------------------------------------------------------------
(* What the source says and the code does not do: e1_start cuts the head   *)
(* of the RX FIFO in its TX branch (e1.c:491).                             *)

\* "Buffer zone associated with the FIFO": a descriptor given to the
\* receiver lies inside the receive zone.
RxBdsInZone ==
  \A k \in 1 .. rxInFlight : rxBds[k] - RxBase \in 0 .. FifoLen - MF

\* "a shutdown with auto-restart": a port that stays selected, with an
\* aligned line and a host that reads and writes, keeps the receiver fed.
RxAutoRestarts ==
  <>[](running /\ aligned) => []<>(rxBds # <<>>)

HostSpec == FairSpec /\ SF_vars(\E n \in 1 .. MaxChunk : NeedData(n))
                     /\ SF_vars(\E n \in 1 .. MaxChunk : FeedData(n))

=============================================================================
