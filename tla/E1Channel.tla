----------------------------- MODULE E1Channel ------------------------------
(***************************************************************************)
(* What a port promises to USB about its frames, in each direction: a      *)
(* buffer of Cap frames of which the E1 core holds some, always a multiple *)
(* of Unit, and the host side the rest.  Frames leave the host side only   *)
(* by being read or lent, and the core's side only by being returned, so   *)
(* none is lost or counted twice in between.                               *)
(*                                                                         *)
(* E1Port implements both directions.  The receive direction has a state   *)
(* `broken' in which nothing is promised, until the next clean start: a    *)
(* restart that cuts the FIFO under the core leads into it.                *)
(***************************************************************************)
EXTENDS Integers

CONSTANTS Unit, Cap

VARIABLES
  ready,      \* received frames the host can read
  rxLent,     \* frames the receiver is writing
  broken,
  queued,     \* frames from the host, not yet given to the transmitter
  txLent      \* frames the transmitter is sending

rx == <<ready, rxLent, broken>>
tx == <<queued, txLent>>

-----------------------------------------------------------------------------
RxInit == ready = 0 /\ rxLent = 0 /\ ~broken

RxLend ==
  /\ ready + rxLent + Unit <= Cap
  /\ rxLent' = rxLent + Unit
  /\ UNCHANGED ready

RxReturn ==
  /\ rxLent >= Unit
  /\ rxLent' = rxLent - Unit
  /\ ready' = ready + Unit

RxRead ==
  /\ ready' \in 0 .. ready
  /\ UNCHANGED rxLent

\* Reading nothing more, as after an error, is allowed once the core is done.
RxClear ==
  /\ rxLent = 0 /\ rxLent' = 0 /\ ready' = 0

RxNext ==
  \/ ~broken /\ ~broken' /\ (RxLend \/ RxReturn \/ RxRead \/ RxClear)
  \/ broken'
  \/ broken /\ ~broken' /\ rxLent' = 0 /\ ready' = 0

RxSpec == RxInit /\ [][RxNext]_rx

-----------------------------------------------------------------------------
TxInit == queued = 0 /\ txLent = 0

TxWrite ==
  /\ queued' \in queued .. Cap - txLent
  /\ UNCHANGED txLent

TxLend ==
  /\ queued >= Unit
  /\ queued' = queued - Unit
  /\ txLent' = txLent + Unit

TxReturn ==
  /\ txLent >= Unit
  /\ txLent' = txLent - Unit
  /\ UNCHANGED queued

TxClear ==
  /\ txLent = 0 /\ txLent' = 0 /\ queued' = 0

TxNext == TxWrite \/ TxLend \/ TxReturn \/ TxClear

TxSpec == TxInit /\ [][TxNext]_tx

=============================================================================
