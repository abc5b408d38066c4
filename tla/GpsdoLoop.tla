----------------------------- MODULE GpsdoLoop -----------------------------
(***************************************************************************)
(* The GPS-disciplined oscillator in its loop: what the next measurement   *)
(* shows follows from the tuning words through the oscillator (external),  *)
(* which is off by `base' ticks a second at mid-tuning and moves by        *)
(* Slope / 100 ticks a second for each step of the coarse word.            *)
(*                                                                         *)
(* Trouble is rationed: MaxTrouble times, a pulse is late, early or        *)
(* implausible, is missing for some seconds, the fix is lost, the          *)
(* oscillator drifts, or USB sets the tuning words.  In all other seconds  *)
(* the measurement is exact.                                               *)
(***************************************************************************)
EXTENDS Gpsdo

CONSTANTS
  Bases,        \* how far off the oscillator can be
  Jitter,       \* errors of a disturbed measurement
  Slope,        \* of the oscillator, per 100 coarse steps
  Outages,      \* seconds the pulse can be missing
  MaxTrouble,
  DriftPeriod, MaxBase,
  LockTime      \* calm seconds after which fine tuning is on

VARIABLES base, trouble, calm,
  silence     \* seconds of an outage still to come

loopVars == <<vars, base, trouble, calm, silence>>

\* The PDM outputs take 12 bits of each word.
Pdm(w) == w % 4096

Offset ==
  base + (Slope * (64 * (Pdm(coarse) - Mid) + Pdm(fine) - Mid)) \div 6400

LoopInit == Init /\ base \in Bases /\ trouble = 0 /\ calm = 0 /\ silence = 0

CalmSecond ==
  /\ silence = 0
  /\ Second(TRUE, Offset)
  /\ calm' = Lower(calm + 1, LockTime)
  /\ UNCHANGED <<base, trouble, silence>>

SilentSecond ==
  /\ silence > 0 /\ silence' = silence - 1
  /\ Second(FALSE, 0)
  /\ UNCHANGED <<base, trouble, calm>>

Troubled == trouble < MaxTrouble /\ trouble' = trouble + 1 /\ calm' = 0

Disturbed ==
  /\ Troubled
  /\ \/ \E j \in Jitter : Second(TRUE, Offset + j) /\ UNCHANGED <<base, silence>>
     \/ Second(TRUE, MaxDevValid) /\ UNCHANGED <<base, silence>>
     \/ fix /\ FixChange /\ UNCHANGED <<base, silence>>
     \/ \E c, f \in TuneWords : SetTune(c, f) /\ UNCHANGED <<base, silence>>
     \/ \E b \in {base - 1, base + 1} : base' = b /\ UNCHANGED <<vars, silence>>
     \/ \E n \in Outages : silence' = n /\ UNCHANGED <<vars, base>>

FixFound == ~fix /\ FixChange /\ calm' = 0 /\ UNCHANGED <<base, trouble, silence>>

LoopPoll == Poll /\ UNCHANGED <<base, trouble, calm, silence>>

LoopNext == CalmSecond \/ SilentSecond \/ Disturbed \/ FixFound \/ LoopPoll

LoopSpec ==
  /\ LoopInit /\ [][LoopNext]_loopVars
  /\ WF_loopVars(CalmSecond \/ SilentSecond) /\ WF_loopVars(FixFound) /\ WF_loopVars(LoopPoll)

\* The oscillator alone moves, by one tick every DriftPeriod seconds.
DriftSecond ==
  /\ base < MaxBase
  /\ Second(TRUE, Offset)
  /\ calm' = (calm + 1) % DriftPeriod
  /\ base' = IF calm' = 0 THEN base + 1 ELSE base
  /\ UNCHANGED <<trouble, silence>>

DriftSpec ==
  LoopInit /\ [][DriftSecond \/ FixFound \/ LoopPoll]_loopVars

-----------------------------------------------------------------------------
\* With an oscillator whose pull range covers its offset, the loop ends up
\* tuning fine and stays there once trouble is over.
Locks == <>[](state = "TUNE_FINE")

\* And it does so within LockTime calm seconds.
LocksInTime == calm = LockTime /\ ~due /\ fix => state = "TUNE_FINE"

\* "If fine tune is getting close to boundary, do our best to transfer part of
\* it to coarse tuning": an oscillator that drifts slowly is followed by fine
\* tuning without losing it.
TransferKeepsFine == [][~FineLost]_vars

=============================================================================
