------------------------------- MODULE Gpsdo -------------------------------
(***************************************************************************)
(* The GPS-disciplined oscillator of the icE1usb (gpsdo.c): a state        *)
(* machine that measures its own clock against the receiver's pulse per    *)
(* second (PPS) and steers the oscillator with a coarse and a fine word.   *)
(*                                                                         *)
(* Time goes by in seconds.  In each there may be a pulse, and the main    *)
(* loop, which turns many times a second, polls at least once (`due').     *)
(* A measurement is the distance of two pulses, kept as whole seconds      *)
(* and, where that is one second, as a deviation in clock ticks.           *)
(*                                                                         *)
(* The clock register is compared on 31 bits (time_elapsed), which lap     *)
(* every Wrap seconds (2^31 / 30720000, just under 70).  A whole number of *)
(* laps is no whole number of seconds, so after a lap no distance looks    *)
(* like one second again; `since' therefore returns to Wrap and not to 0.  *)
(***************************************************************************)
EXTENDS Integers

CONSTANTS
  Dev,           \* deviations a measurement can have, in ticks
  TuneWords,     \* tuning words USB may set, of the 16-bit ones
  Wrap,          \* seconds after which time_elapsed laps (70)
  MaxDevValid,   \* a larger deviation is no measurement (1000)
  MaxDevFine,    \* a smaller deviation is good enough for fine tuning (3)
  MaxInvalid,    \* invalid measurements until tracking stops (5)
  iKv, Kp, Ki, Kd  \* of vctxo_params, as fitted to the board

\* uint16_t
WordSize == 65536
Words == 0 .. WordSize - 1

ASSUME GpsdoAssumption ==
  /\ Dev \subseteq Int
  /\ TuneWords \subseteq Words
  /\ Wrap \in Nat /\ Wrap > 4
  /\ MaxDevValid \in Nat /\ MaxDevFine \in Nat /\ MaxInvalid \in Nat \ {0}
  /\ iKv \in Int /\ Kp \in Int /\ Ki \in Int /\ Kd \in Int

VARIABLES
  state, coarse, fine,     \* g_gpsdo.state, .tune
  skip, invalid,           \* g_gpsdo.meas
  acc, integral,           \* g_gpsdo.fine
  fix,                     \* gps.c: the receiver has a valid fix
  since,                   \* seconds from the pulse in tick_prev until now
  fresh, age, dev,         \* a pulse not yet read, how long ago, its deviation
  due,                     \* the main loop has not polled yet in this second
  silent, settled, misses  \* history: see TracksLivePps, UsesSettled

tune    == <<coarse, fine>>
pid     == <<acc, integral>>
pulse   == <<since, fresh, age, dev>>
history == <<silent, settled, misses>>
vars    == <<state, tune, skip, invalid, pid, fix, pulse, due, history>>

State == {"DISABLED", "HOLD_OVER", "TUNE_COARSE", "TUNE_FINE"}

Mid == 2048

Word(x) == x % WordSize

\* Bounds of the history counters.
SilentMax  == 5
SettledMax == 5
MissesMax  == MaxInvalid + 5

Lower(a, b) == IF a < b THEN a ELSE b

-----------------------------------------------------------------------------
Init ==
  /\ state = "HOLD_OVER" /\ coarse = Mid /\ fine = Mid
  /\ skip = 0 /\ invalid = 0 /\ acc = 0 /\ integral = 0
  /\ fix = FALSE
  /\ since = 0 /\ fresh = FALSE /\ age = 0 /\ dev = 0
  /\ due = FALSE
  /\ silent = 0 /\ settled = 0 /\ misses = 0

-----------------------------------------------------------------------------
(* Time and the receiver *)

Later(s) == IF s = 2 * Wrap - 1 THEN Wrap ELSE s + 1

Second(pps, d) ==
  /\ ~due /\ due' = TRUE
  /\ since' = Later(since)
  /\ \/ /\ pps /\ fresh' = TRUE /\ age' = 0 /\ dev' = d
        /\ silent' = 0 /\ settled' = Lower(settled + 1, SettledMax)
     \/ /\ ~pps /\ age' = IF fresh THEN Later(age) ELSE 0
        /\ silent' = Lower(silent + 1, SilentMax)
        /\ UNCHANGED <<fresh, dev, settled>>
  /\ UNCHANGED <<state, tune, skip, invalid, pid, fix, misses>>

FixChange ==
  /\ fix' = ~fix
  /\ UNCHANGED <<state, tune, skip, invalid, pid, pulse, due, history>>

-----------------------------------------------------------------------------
(* Tuning *)

\* The fine word's excursion in coarse steps, 64 fine to one coarse.
Excess(f) == (f - Mid) \div 64

\* Measurements to drop: a few to be safe, or the one under way.
StartSkip == 3

\* Fault: the measurement under way is used.
NoSkip == 0

CoarseSkip == 1

CoarseStart ==
  /\ state' = "TUNE_COARSE"
  /\ skip' = StartSkip
  /\ coarse' = Word(coarse + Excess(fine))
  /\ fine' = Mid

\* The state, too, is only reset when tuning fine.
SetTune(c, f) ==
  /\ IF state = "TUNE_FINE"
       THEN /\ state' = "TUNE_COARSE" /\ skip' = StartSkip
            /\ coarse' = Word(c + Excess(f)) /\ fine' = Mid
       ELSE /\ coarse' = c /\ fine' = f
            /\ UNCHANGED <<state, skip>>
  /\ UNCHANGED <<invalid, pid, fix, pulse, due, history>>

Enable(on) ==
  /\ state' = IF ~on THEN "DISABLED"
              ELSE IF state = "DISABLED" THEN "HOLD_OVER" ELSE state
  /\ UNCHANGED <<tune, skip, invalid, pid, fix, pulse, due, history>>

-----------------------------------------------------------------------------
(* gpsdo_poll *)

\* Faults: a second late, and never lapping.
ElapsedUncut == since
ElapsedLate == (since % Wrap) - 1

Elapsed == since % Wrap

HoldOver == state' = "HOLD_OVER" /\ invalid' = 0 /\ skip' = 0

\* No pulse read for 3 seconds.  This returns before a new pulse is read.
PollTimeout ==
  /\ due /\ state # "DISABLED" /\ Elapsed >= 3
  /\ HoldOver
  /\ due' = FALSE
  /\ UNCHANGED <<tune, pid, fix, pulse, history>>

\* A pulse right on the third second can be read before that.
NotTimedOut ==
  state = "DISABLED" \/ Elapsed < 3 \/ (Elapsed = 3 /\ fresh /\ age = 0)

PollNoPulse ==
  /\ due /\ NotTimedOut /\ ~fresh
  /\ due' = FALSE
  /\ UNCHANGED <<state, tune, skip, invalid, pid, fix, pulse, history>>

\* A new pulse is read: tick_prev moves to it.
Read ==
  /\ due /\ NotTimedOut /\ fresh
  /\ due' = FALSE /\ fresh' = FALSE /\ since' = age
  /\ age' = 0 /\ dev' = 0
  /\ UNCHANGED <<fix, silent>>

\* One second apart, and close to it.
Valid == since - age = 1 /\ dev > -MaxDevValid /\ dev < MaxDevValid

CountMisses == misses' = IF Valid THEN 0 ELSE Lower(misses + 1, MissesMax)

MeasureSkipped ==
  /\ Read /\ CountMisses
  /\ skip > 0 /\ skip' = skip - 1
  /\ UNCHANGED <<state, tune, invalid, pid, settled>>

MeasureDisabled ==
  /\ Read /\ CountMisses
  /\ skip = 0 /\ state = "DISABLED"
  /\ UNCHANGED <<state, tune, skip, invalid, pid, settled>>

Active == skip = 0 /\ state # "DISABLED"

MeasureNoFix ==
  /\ Read /\ CountMisses
  /\ Active /\ ~fix
  /\ HoldOver
  /\ UNCHANGED <<tune, pid, settled>>

\* Fault: beyond instead of at the limit.
TooManyLate(n) == n > MaxInvalid

TooMany(n) == n >= MaxInvalid

\* `invalid' saturates: the code's counter only grows past MaxInvalid.
MeasureInvalid ==
  /\ Read /\ CountMisses
  /\ Active /\ fix /\ ~Valid
  /\ LET n == Lower(invalid + 1, MaxInvalid) IN
     \/ /\ ~TooMany(n)
        /\ invalid' = n /\ UNCHANGED <<state, tune, settled>>
     \/ /\ TooMany(n) /\ state # "HOLD_OVER"
        /\ state' = "HOLD_OVER" /\ invalid' = 0 /\ UNCHANGED <<tune, settled>>
     \/ /\ TooMany(n) /\ state = "HOLD_OVER"
        /\ coarse' = Mid /\ fine' = Mid /\ settled' = 0
        /\ invalid' = n /\ UNCHANGED state
  /\ UNCHANGED <<skip, pid>>

MeasureUsed == Read /\ CountMisses /\ Active /\ fix /\ Valid

LeaveHoldOver ==
  /\ MeasureUsed /\ state = "HOLD_OVER"
  /\ CoarseStart /\ settled' = 0
  /\ UNCHANGED <<invalid, pid>>

CoarseGood == dev > -MaxDevFine /\ dev < MaxDevFine

FineStart ==
  /\ MeasureUsed /\ state = "TUNE_COARSE" /\ CoarseGood
  /\ state' = "TUNE_FINE" /\ invalid' = 0 /\ acc' = 0 /\ integral' = 0
  /\ UNCHANGED <<tune, skip, settled>>

Correction(d) == (d * iKv) \div 256

CoarseTune ==
  /\ MeasureUsed /\ state = "TUNE_COARSE" /\ ~CoarseGood
  /\ coarse' = Word(coarse - Correction(dev))
  /\ skip' = CoarseSkip /\ invalid' = 0 /\ settled' = 0
  /\ UNCHANGED <<state, fine, pid>>

FineBad == dev < -2 * MaxDevFine \/ dev > 2 * MaxDevFine

FineLost ==
  /\ MeasureUsed /\ state = "TUNE_FINE" /\ FineBad
  /\ CoarseStart /\ invalid' = 0 /\ settled' = 0
  /\ UNCHANGED pid

\* Fault: the error is fed back with the wrong sign.
PidWordPlus(a, i, d) == Word(Mid + (Kp * a + Ki * i + Kd * d) \div 4096)

\* The PID's fine word, and its excursion handed over near the bounds.
PidWord(a, i, d) == Word(Mid - (Kp * a + Ki * i + Kd * d) \div 4096)

NearBound(f) == f < 512 \/ f > 3584

FineTrack ==
  /\ MeasureUsed /\ state = "TUNE_FINE" /\ ~FineBad
  /\ acc' = acc + dev
  /\ integral' = integral + acc'
  /\ LET f == PidWord(acc', integral', dev)
         e == IF NearBound(f) THEN Excess(f) ELSE 0
     IN  coarse' = Word(coarse + e) /\ fine' = Word(f - 64 * e)
  /\ invalid' = 0
  /\ UNCHANGED <<state, skip, settled>>

Poll ==
  \/ PollTimeout \/ PollNoPulse
  \/ MeasureSkipped \/ MeasureDisabled \/ MeasureNoFix \/ MeasureInvalid
  \/ LeaveHoldOver \/ FineStart \/ CoarseTune \/ FineLost \/ FineTrack

-----------------------------------------------------------------------------
(* Requests from USB *)

\* _get_gpsdo_mode, and the mode that gpsdo_get_status reports.
GetMode    == IF state # "DISABLED" THEN "DISABLED" ELSE "AUTO"
StatusMode == IF state = "DISABLED" THEN "DISABLED" ELSE "AUTO"

Usb ==
  \/ \E on \in BOOLEAN : Enable(on)
  \/ \E c, f \in TuneWords : SetTune(c, f)

Next ==
  \/ \E pps \in BOOLEAN, d \in Dev : Second(pps, d)
  \/ FixChange \/ Usb \/ Poll

Spec == Init /\ [][Next]_vars

-----------------------------------------------------------------------------
(* Correctness *)

FlagType ==
  state \in State /\ fix \in BOOLEAN /\ fresh \in BOOLEAN /\ due \in BOOLEAN

TuneType ==
  coarse \in Words /\ fine \in Words /\ acc \in Int /\ integral \in Int

CountType ==
  /\ skip \in 0 .. 3 /\ invalid \in 0 .. MaxInvalid
  /\ since \in 0 .. 2 * Wrap - 1 /\ age \in 0 .. 2 * Wrap - 1
  /\ dev \in Dev \cup {0}
  /\ silent \in 0 .. SilentMax /\ settled \in 0 .. SettledMax
  /\ misses \in 0 .. MissesMax

TypeOK == FlagType /\ TuneType /\ CountType

Tuning == state \in {"TUNE_COARSE", "TUNE_FINE"}

\* The oscillator is only steered while pulses come: once three seconds in a
\* row were silent and the main loop has polled, tuning has stopped.
TracksLivePps == Tuning /\ ~due => silent < 3

\* Nor is it steered through a run of implausible pulses, however skipping,
\* hold-over and settings from USB are mixed with them.
TracksGoodPps == Tuning => misses < MaxInvalid + 3

\* A coarse correction is computed from a measurement that began after the
\* tuning loop's previous change of the oscillator had taken effect.
UsesSettled == [][CoarseTune => settled >= 2]_vars

\* "If more than 3 sec elapsed since last PPS, go to hold-over": past
\* the third second, the timeout is taken only when no pulse came for that long.
TimeoutIsSilence == [][PollTimeout /\ Elapsed > 3 => silent >= 3]_vars

\* "Current configured operating mode": both requests report the same one.
ModesAgree == GetMode = StatusMode

-----------------------------------------------------------------------------
(* The inductive strengthening *)

\* `silent' is the age of the last pulse.  A pulse is left unread only while
\* the timeout is on, from its third second; a lap of the clock then ends it.
PulseInv ==
  /\ silent = Lower(IF fresh THEN age ELSE since, SilentMax)
  /\ fresh /\ ~due => age <= Elapsed - 3
  /\ fresh /\ due /\ age > 0 =>
       age <= Elapsed - 3 \/ (since = Wrap /\ age <= Wrap - 3)

LiveInv ==
  /\ Tuning => since <= IF due THEN 3 ELSE 2
  /\ Tuning /\ fresh => due /\ age = 0

GoodInv ==
  /\ Tuning =>
       \/ misses <= 3 - skip
       \/ invalid < MaxInvalid /\ misses <= invalid + 3 - skip
  /\ state = "TUNE_FINE" =>
       skip = 0 /\ invalid < MaxInvalid /\ misses <= invalid

SettledInv ==
  state = "TUNE_COARSE" => settled + skip >= IF fresh THEN 2 ELSE 1

GpsdoInv == TypeOK /\ PulseInv /\ LiveInv /\ GoodInv /\ SettledInv

=============================================================================
