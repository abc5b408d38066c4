---------------------------- MODULE GpsdoProofs ----------------------------
(***************************************************************************)
(* Proofs about the GPS-disciplined oscillator, for every set of           *)
(* deviations, every lap of the clock and every choice of the limits and   *)
(* gains.                                                                  *)
(***************************************************************************)
EXTENDS Gpsdo, TLAPS

LEMMA WordType ==
  ASSUME NEW x \in Int PROVE Word(x) \in Words
  <1>1. WordSize \in Nat \ {0}
    BY DEF WordSize
  <1> QED BY <1>1 DEF Word, Words

LEMMA MidType == Mid \in Words
  BY DEF Mid, Words, WordSize

LEMMA PidType ==
  ASSUME NEW a \in Int, NEW i \in Int, NEW d \in Int
  PROVE  PidWord(a, i, d) \in Words
  <1> DEFINE v == Mid - (Kp * a + Ki * i + Kd * d) \div 4096
  <1>1. Kp * a \in Int /\ Ki * i \in Int /\ Kd * d \in Int
    BY GpsdoAssumption DEF GpsdoAssumption
  <1>2. v \in Int
    BY <1>1 DEF Mid
  <1>3. PidWord(a, i, d) = Word(v)
    BY DEF PidWord
  <1> HIDE DEF v
  <1> QED BY <1>2, <1>3, WordType

LEMMA InitInv == Init => GpsdoInv
  <1> SUFFICES ASSUME Init PROVE GpsdoInv
    OBVIOUS
  <1> USE GpsdoAssumption DEF Init, GpsdoAssumption
  <1>0. 0 \in 0 .. 2 * Wrap - 1 /\ 0 \in 0 .. MaxInvalid /\ 0 \in 0 .. MissesMax
    BY DEF MissesMax
  <1>1. FlagType
    BY DEF FlagType, State
  <1>2. TuneType
    BY MidType DEF TuneType
  <1>3. CountType
    BY <1>0 DEF CountType, SilentMax, SettledMax
  <1>4. PulseInv /\ LiveInv /\ GoodInv /\ SettledInv
    BY DEF PulseInv, LiveInv, GoodInv, SettledInv, Tuning, Lower, SilentMax
  <1> QED BY <1>1, <1>2, <1>3, <1>4 DEF GpsdoInv, TypeOK

LEMMA LapIs ==
  ASSUME NEW s \in 0 .. 2 * Wrap - 1
  PROVE  s % Wrap = IF s < Wrap THEN s ELSE s - Wrap
  <1>1. Wrap \in Nat /\ Wrap > 4
    BY GpsdoAssumption DEF GpsdoAssumption
  <1>2. CASE s < Wrap
    BY <1>1, <1>2
  <1>3. CASE s >= Wrap
    <2>1. s = (s - Wrap) + 1 * Wrap /\ s - Wrap \in 0 .. Wrap - 1
      BY <1>1, <1>3
    <2>2. s % Wrap = s - Wrap
      BY <1>1, <2>1
    <2> QED BY <1>1, <1>3, <2>2
  <1> QED BY <1>1, <1>2, <1>3

LEMMA ElapsedIs ==
  ASSUME since \in 0 .. 2 * Wrap - 1
  PROVE  Elapsed = IF since < Wrap THEN since ELSE since - Wrap
  BY LapIs DEF Elapsed

-----------------------------------------------------------------------------
(* Facts every step uses *)

LEMMA Numbers ==
  ASSUME CountType
  PROVE  /\ skip \in 0 .. 3 /\ invalid \in Nat /\ invalid <= MaxInvalid
         /\ since \in Nat /\ since <= 2 * Wrap - 1 /\ age \in Nat /\ age <= 2 * Wrap - 1
         /\ silent \in 0 .. 5 /\ settled \in 0 .. 5
         /\ misses \in Nat /\ misses <= MaxInvalid + 5
         /\ Wrap \in Nat /\ Wrap > 4 /\ MaxInvalid \in Nat /\ MaxInvalid > 0
         /\ dev \in Int
  <1>1. Wrap \in Nat /\ Wrap > 4 /\ MaxInvalid \in Nat /\ MaxInvalid > 0 /\ Dev \subseteq Int
    BY GpsdoAssumption DEF GpsdoAssumption
  <1>2. dev \in Int
    BY <1>1 DEF CountType
  <1> QED BY <1>1, <1>2 DEF CountType, SilentMax, SettledMax, MissesMax

\* An unread pulse that is not new belongs to no measurement of one second,
\* and no pulse is read late while tuning.
LEMMA NewPulse ==
  ASSUME TypeOK, PulseInv, LiveInv, Read
  PROVE  (Valid \/ Tuning) => age = 0
  <1>1. since \in Nat /\ since <= 2 * Wrap - 1 /\ age \in Nat /\ Wrap \in Nat /\ Wrap > 4
    BY Numbers DEF TypeOK
  <1>2. due /\ fresh
    BY DEF Read
  <1>3. CASE Tuning
    BY <1>2, <1>3 DEF LiveInv
  <1>4. CASE Valid /\ age > 0
    <2>1. since - age = 1
      BY <1>4 DEF Valid
    <2>2. age <= Elapsed - 3 \/ (since = Wrap /\ age <= Wrap - 3)
      BY <1>2, <1>4 DEF PulseInv
    <2>3. Elapsed \in Int /\ Elapsed <= since
      BY <1>1, ElapsedIs
    <2> QED BY <1>1, <2>1, <2>2, <2>3
  <1> QED BY <1>1, <1>3, <1>4

\* What reading a pulse does to the time, whatever is made of it.
LEMMA ReadStep ==
  ASSUME TypeOK, PulseInv, LiveInv, Read, CountMisses
  PROVE  /\ since' \in 0 .. 2 * Wrap - 1 /\ age' = 0 /\ dev' \in Dev \cup {0}
         /\ silent' \in 0 .. SilentMax /\ misses' \in 0 .. MissesMax
         /\ fresh' = FALSE /\ due' = FALSE /\ fix' = fix
         /\ PulseInv'
         /\ Valid \/ Tuning => since' = 0
         /\ misses' = (IF Valid THEN 0 ELSE IF misses + 1 < MissesMax THEN misses + 1 ELSE MissesMax)
  <1>1. /\ silent \in 0 .. 5 /\ misses \in Nat /\ misses <= MaxInvalid + 5 /\ MaxInvalid \in Nat
        /\ Wrap \in Nat /\ Wrap > 4
    BY Numbers DEF TypeOK
  <1>2. fresh /\ since' = age /\ age' = 0 /\ dev' = 0 /\ silent' = silent /\ ~fresh' /\ ~due'
    BY DEF Read
  <1>3. silent' \in 0 .. SilentMax /\ since' \in 0 .. 2 * Wrap - 1 /\ dev' \in Dev \cup {0}
    BY <1>2 DEF TypeOK, CountType
  <1>4. misses' = IF Valid THEN 0 ELSE IF misses + 1 < MissesMax THEN misses + 1 ELSE MissesMax
    BY <1>1 DEF CountMisses, Lower, MissesMax
  <1>5. misses' \in 0 .. MissesMax
    BY <1>1, <1>4 DEF MissesMax
  <1>6. silent = Lower(age, SilentMax)
    BY <1>2 DEF PulseInv
  <1>7. silent' = Lower(since', SilentMax)
    BY <1>2, <1>6
  <1>8. PulseInv'
    BY <1>2, <1>7 DEF PulseInv
  <1>9. Valid \/ Tuning => since' = 0
    BY <1>2, NewPulse
  <1>10. fresh' = FALSE /\ due' = FALSE /\ fix' = fix
    BY DEF Read
  <1> QED BY <1>2, <1>3, <1>4, <1>5, <1>8, <1>9, <1>10

\* What is left to show for one way of using a measurement.
LEMMA MeasureStep ==
  ASSUME GpsdoInv, Read, CountMisses,
         state' \in State, TuneType',
         skip' \in 0 .. 3, invalid' \in 0 .. MaxInvalid, settled' \in 0 .. SettledMax,
         Tuning' => Valid \/ Tuning, GoodInv', SettledInv'
  PROVE  GpsdoInv'
  <1>1. TypeOK /\ PulseInv /\ LiveInv
    BY DEF GpsdoInv
  <1>2. FlagType'
    BY <1>1, ReadStep DEF FlagType, TypeOK
  <1>3. CountType'
    <2>1. 0 \in 0 .. 2 * Wrap - 1
      BY <1>1, Numbers DEF TypeOK
    <2> QED BY <1>1, <2>1, ReadStep DEF CountType
  <1>4. LiveInv'
    <2>1. Tuning' => since' = 0
      BY <1>1, ReadStep
    <2>2. ~fresh' /\ ~due'
      BY <1>1, ReadStep
    <2> QED BY <2>1, <2>2 DEF LiveInv
  <1>5. PulseInv'
    BY <1>1, ReadStep
  <1> QED BY <1>2, <1>3, <1>4, <1>5 DEF GpsdoInv, TypeOK

\* Parts of the invariant as they stand when a pulse is read.
LEMMA AtRead ==
  ASSUME GpsdoInv, Read, CountMisses
  PROVE  /\ Valid => misses' = 0
         /\ misses' \in Nat /\ misses' <= misses + 1
         /\ ~fresh' /\ fresh
  <1>1. TypeOK /\ PulseInv /\ LiveInv
    BY DEF GpsdoInv
  <1>2. misses \in Nat /\ MaxInvalid \in Nat
    BY <1>1, Numbers DEF TypeOK
  <1>3. fresh
    BY DEF Read
  <1> QED BY <1>1, <1>2, <1>3, ReadStep DEF MissesMax

LEMMA SkippedStep ==
  ASSUME GpsdoInv, MeasureSkipped PROVE GpsdoInv'
  <1> USE DEF MeasureSkipped
  <1>1. /\ skip \in 1 .. 3 /\ skip' = skip - 1 /\ invalid' = invalid /\ state' = state
        /\ invalid \in 0 .. MaxInvalid /\ settled' = settled /\ settled \in 0 .. 5
        /\ state \in State /\ misses \in Nat /\ invalid \in Nat /\ MaxInvalid \in Nat
    BY Numbers DEF GpsdoInv, TypeOK, FlagType, CountType
  <1>2. TuneType'
    BY DEF GpsdoInv, TypeOK, TuneType, tune, pid
  <1>3. skip' \in 0 .. 3 /\ settled' \in 0 .. SettledMax
    BY <1>1 DEF SettledMax
  <1>4. Tuning' => Tuning
    BY <1>1 DEF Tuning
  <1>5. GoodInv'
    <2>1. misses' \in Nat /\ misses' <= misses + 1
      BY AtRead
    <2>2. GoodInv
      BY DEF GpsdoInv
    <2> QED BY <1>1, <2>1, <2>2 DEF GoodInv, Tuning
  <1>6. SettledInv'
    <2>1. ~fresh' /\ fresh /\ SettledInv
      BY AtRead DEF GpsdoInv
    <2> QED BY <1>1, <2>1 DEF SettledInv
  <1> QED BY <1>1, <1>2, <1>3, <1>4, <1>5, <1>6, MeasureStep

LEMMA DisabledStep ==
  ASSUME GpsdoInv, MeasureDisabled PROVE GpsdoInv'
  <1> USE DEF MeasureDisabled
  <1>1. /\ skip' = skip /\ invalid' = invalid /\ state' = "DISABLED" /\ settled' = settled
        /\ skip \in 0 .. 3 /\ invalid \in 0 .. MaxInvalid /\ settled \in 0 .. SettledMax
    BY DEF GpsdoInv, TypeOK, CountType
  <1>2. TuneType'
    BY DEF GpsdoInv, TypeOK, TuneType, tune, pid
  <1>3. state' \in State /\ ~Tuning'
    BY <1>1 DEF Tuning, State
  <1>4. GoodInv' /\ SettledInv'
    BY <1>1, <1>3 DEF GoodInv, SettledInv
  <1> QED BY <1>1, <1>2, <1>3, <1>4, MeasureStep

LEMMA NoFixStep ==
  ASSUME GpsdoInv, MeasureNoFix PROVE GpsdoInv'
  <1> USE DEF MeasureNoFix
  <1>1. /\ skip' = 0 /\ invalid' = 0 /\ state' = "HOLD_OVER" /\ settled' = settled
        /\ settled \in 0 .. SettledMax /\ MaxInvalid \in Nat
    BY Numbers DEF GpsdoInv, TypeOK, CountType, HoldOver
  <1>2. TuneType'
    BY DEF GpsdoInv, TypeOK, TuneType, tune, pid
  <1>3. state' \in State /\ ~Tuning' /\ skip' \in 0 .. 3 /\ invalid' \in 0 .. MaxInvalid
    BY <1>1 DEF Tuning, State
  <1>4. GoodInv' /\ SettledInv'
    BY <1>1, <1>3 DEF GoodInv, SettledInv
  <1> QED BY <1>1, <1>2, <1>3, <1>4, MeasureStep

LEMMA InvalidStep ==
  ASSUME GpsdoInv, MeasureInvalid PROVE GpsdoInv'
  <1> DEFINE n == Lower(invalid + 1, MaxInvalid)
  <1>1. /\ skip = 0 /\ skip' = 0 /\ invalid \in Nat /\ invalid <= MaxInvalid /\ MaxInvalid \in Nat \ {0}
        /\ misses \in Nat /\ settled \in 0 .. SettledMax /\ state \in State
    BY Numbers DEF GpsdoInv, TypeOK, FlagType, CountType, MeasureInvalid, Active
  <1>2. Read /\ CountMisses /\ ~Valid
    BY DEF MeasureInvalid
  <1>3. n \in 1 .. MaxInvalid /\ n >= invalid /\ n <= invalid + 1 /\ (n < MaxInvalid => n = invalid + 1)
    BY <1>1 DEF Lower
  <1>4. \/ /\ n < MaxInvalid /\ invalid' = n /\ state' = state /\ settled' = settled
           /\ UNCHANGED <<coarse, fine>>
        \/ /\ state' = "HOLD_OVER" /\ invalid' = 0 /\ settled' = settled
           /\ UNCHANGED <<coarse, fine>>
        \/ /\ state' = "HOLD_OVER" /\ invalid' = n /\ settled' = 0
           /\ coarse' = Mid /\ fine' = Mid
    BY <1>1, <1>3 DEF MeasureInvalid, TooMany, tune
  <1> HIDE DEF n
  <1>5. TuneType'
    BY <1>4, MidType DEF GpsdoInv, TypeOK, TuneType, MeasureInvalid, pid
  <1>6. state' \in State /\ (Tuning' => Tuning)
    BY <1>1, <1>4 DEF State, Tuning
  <1>7. skip' \in 0 .. 3 /\ invalid' \in 0 .. MaxInvalid /\ settled' \in 0 .. SettledMax
    BY <1>1, <1>3, <1>4 DEF SettledMax
  <1>8. GoodInv'
    <2>1. misses' \in Nat /\ misses' <= misses + 1
      BY <1>2, AtRead
    <2>2. GoodInv
      BY DEF GpsdoInv
    <2>3. CASE state' = "HOLD_OVER"
      BY <2>3 DEF GoodInv, Tuning
    <2>4. CASE n < MaxInvalid /\ invalid' = n /\ state' = state
      BY <1>1, <1>3, <2>1, <2>2, <2>4 DEF GoodInv, Tuning
    <2> QED BY <1>4, <2>3, <2>4
  <1>9. SettledInv'
    <2>1. ~fresh' /\ fresh /\ SettledInv
      BY <1>2, AtRead DEF GpsdoInv
    <2> QED BY <1>1, <1>4, <2>1 DEF SettledInv, SettledMax
  <1> QED BY <1>2, <1>5, <1>6, <1>7, <1>8, <1>9, MeasureStep

LEMMA StartType ==
  ASSUME NEW c \in Words, NEW f \in Words
  PROVE  Word(c + Excess(f)) \in Words
  <1>1. WordSize \in Nat
    BY DEF WordSize
  <1>2. c \in Int /\ f \in Int
    BY <1>1 DEF Words
  <1>3. Excess(f) \in Int
    BY <1>2 DEF Excess, Mid
  <1>4. c + Excess(f) \in Int
    BY <1>2, <1>3
  <1> QED BY <1>4, WordType

\* A valid measurement that starts coarse tuning over.
LEMMA StartStep ==
  ASSUME GpsdoInv, MeasureUsed, CoarseStart, settled' = 0, UNCHANGED pid,
         invalid' \in 0 .. MaxInvalid
  PROVE  GpsdoInv'
  <1>1. Read /\ CountMisses /\ Valid
    BY DEF MeasureUsed
  <1>2. state' = "TUNE_COARSE" /\ skip' = 3
    BY DEF CoarseStart, StartSkip
  <1>3. TuneType'
    <2>1. coarse \in Words /\ fine \in Words
      BY DEF GpsdoInv, TypeOK, TuneType
    <2>2. coarse' \in Words /\ fine' \in Words
      BY <2>1, StartType, MidType DEF CoarseStart
    <2> QED BY <2>2 DEF GpsdoInv, TypeOK, TuneType, pid
  <1>4. state' \in State /\ skip' \in 0 .. 3 /\ settled' \in 0 .. SettledMax
    BY <1>2 DEF State, SettledMax
  <1>5. misses' = 0 /\ ~fresh'
    BY <1>1, AtRead
  <1>6. GoodInv'
    BY <1>2, <1>5 DEF GoodInv
  <1>7. SettledInv'
    BY <1>2, <1>5 DEF SettledInv
  <1> QED BY <1>1, <1>3, <1>4, <1>6, <1>7, MeasureStep

\* A valid measurement that keeps the oscillator tuning.
LEMMA TuneStep ==
  ASSUME GpsdoInv, MeasureUsed, TuneType', invalid' = 0,
         \/ state' = "TUNE_FINE" /\ skip' = 0 /\ settled' = settled
         \/ state' = "TUNE_COARSE" /\ skip' = 1 /\ settled' = 0
  PROVE  GpsdoInv'
  <1>1. Read /\ CountMisses /\ Valid
    BY DEF MeasureUsed
  <1>2. settled \in 0 .. SettledMax /\ MaxInvalid \in Nat /\ MaxInvalid > 0
    BY Numbers DEF GpsdoInv, TypeOK, CountType
  <1>3. /\ state' \in State /\ skip' \in 0 .. 3 /\ settled' \in 0 .. SettledMax
        /\ invalid' \in 0 .. MaxInvalid
    BY <1>2 DEF State, SettledMax
  <1>4. misses' = 0 /\ ~fresh'
    BY <1>1, AtRead
  <1>5. GoodInv'
    BY <1>2, <1>4 DEF GoodInv
  <1>6. SettledInv'
    BY <1>4 DEF SettledInv
  <1> QED BY <1>1, <1>3, <1>5, <1>6, MeasureStep

LEMMA UsedSteps ==
  ASSUME GpsdoInv, LeaveHoldOver \/ FineStart \/ CoarseTune \/ FineLost \/ FineTrack
  PROVE  GpsdoInv'
  <1>1. /\ invalid \in 0 .. MaxInvalid /\ 0 \in 0 .. MaxInvalid /\ dev \in Int
        /\ coarse \in Words /\ fine \in Words /\ acc \in Int /\ integral \in Int
    BY Numbers DEF GpsdoInv, TypeOK, CountType, TuneType
  <1>2. coarse \in Int
    <2>1. WordSize \in Nat
      BY DEF WordSize
    <2> QED BY <1>1, <2>1 DEF Words
  <1>3. CASE LeaveHoldOver
    BY <1>1, <1>3, StartStep DEF LeaveHoldOver
  <1>4. CASE FineLost
    BY <1>1, <1>4, StartStep DEF FineLost
  <1>5. CASE FineStart
    <2>1. TuneType'
      BY <1>1, <1>5 DEF FineStart, TuneType, tune
    <2>2. skip = 0
      BY <1>5 DEF FineStart, MeasureUsed, Active
    <2> QED BY <1>5, <2>1, <2>2, TuneStep DEF FineStart
  <1>6. CASE CoarseTune
    <2>1. iKv \in Int
      BY GpsdoAssumption DEF GpsdoAssumption
    <2>2. dev * iKv \in Int
      BY <1>1, <2>1
    <2>3. Correction(dev) \in Int
      BY <2>2 DEF Correction
    <2>4. coarse - Correction(dev) \in Int
      BY <1>2, <2>3
    <2>5. TuneType'
      BY <1>1, <1>6, <2>4, WordType DEF CoarseTune, TuneType, pid
    <2> QED BY <1>6, <2>5, TuneStep DEF CoarseTune, CoarseSkip
  <1>7. CASE FineTrack
    <2> DEFINE f == PidWord(acc', integral', dev)
               e == IF NearBound(f) THEN Excess(f) ELSE 0
    <2>1. acc' \in Int /\ integral' \in Int
      BY <1>1, <1>7 DEF FineTrack
    <2>2. f \in Words
      BY <1>1, <2>1, PidType
    <2>3. coarse' = Word(coarse + e) /\ fine' = Word(f - 64 * e)
      BY <1>7 DEF FineTrack
    <2> HIDE DEF f
    <2>4. f \in Int
      <3>1. WordSize \in Nat
        BY DEF WordSize
      <3> QED BY <2>2, <3>1 DEF Words
    <2>5. Excess(f) \in Int
      BY <2>4 DEF Excess, Mid
    <2>6. e \in Int
      BY <2>5
    <2> HIDE DEF e
    <2>7. coarse + e \in Int /\ f - 64 * e \in Int
      BY <1>2, <2>4, <2>6
    <2>8. TuneType'
      BY <2>1, <2>3, <2>7, WordType DEF TuneType
    <2>9. skip = 0 /\ skip' = skip /\ state' = "TUNE_FINE" /\ settled' = settled /\ invalid' = 0
      BY <1>7 DEF FineTrack, MeasureUsed, Active
    <2> QED BY <1>7, <2>8, <2>9, TuneStep DEF FineTrack
  <1> QED BY <1>3, <1>4, <1>5, <1>6, <1>7

-----------------------------------------------------------------------------
(* The other steps *)

LEMMA TimeoutStep ==
  ASSUME GpsdoInv, PollTimeout PROVE GpsdoInv'
  <1>1. /\ state' = "HOLD_OVER" /\ invalid' = 0 /\ skip' = 0 /\ due' = FALSE /\ due
        /\ UNCHANGED <<coarse, fine, acc, integral, fix, since, fresh, age, dev, silent, settled, misses>>
    BY DEF PollTimeout, HoldOver, tune, pid, pulse, history
  <1>2. TypeOK /\ PulseInv
    BY DEF GpsdoInv
  <1>3. FlagType'
    BY <1>1, <1>2 DEF TypeOK, FlagType, State
  <1>4. TuneType'
    BY <1>1, <1>2 DEF TypeOK, TuneType
  <1>5. MaxInvalid \in Nat /\ since \in Nat /\ age \in Nat /\ Wrap \in Nat /\ Wrap > 4
    BY <1>2, Numbers DEF TypeOK
  <1>6. CountType'
    BY <1>1, <1>2, <1>5 DEF TypeOK, CountType
  <1>7. ~Tuning'
    BY <1>1 DEF Tuning
  <1>8. PulseInv'
    <2>1. Elapsed' = Elapsed
      BY <1>1 DEF Elapsed
    <2>2. silent' = Lower(IF fresh' THEN age' ELSE since', SilentMax)
      BY <1>1, <1>2 DEF PulseInv
    <2>3. ASSUME fresh PROVE age <= Elapsed - 3
      <3>1. Elapsed >= 3 /\ Elapsed \in Int /\ (since = Wrap => Elapsed = 0)
        <4>1. Elapsed = IF since < Wrap THEN since ELSE since - Wrap
          BY <1>2, ElapsedIs DEF TypeOK, CountType
        <4> QED BY <1>5, <4>1 DEF PollTimeout
      <3>2. CASE age > 0
        BY <1>1, <1>2, <2>3, <3>1, <3>2 DEF PulseInv
      <3> QED BY <1>5, <3>1, <3>2
    <2> QED BY <1>1, <2>1, <2>2, <2>3 DEF PulseInv
  <1>9. LiveInv' /\ GoodInv' /\ SettledInv'
    BY <1>1, <1>7 DEF LiveInv, GoodInv, SettledInv
  <1> QED BY <1>3, <1>4, <1>6, <1>8, <1>9 DEF GpsdoInv, TypeOK

LEMMA NoPulseStep ==
  ASSUME GpsdoInv, PollNoPulse PROVE GpsdoInv'
  <1>1. /\ due' = FALSE /\ due /\ ~fresh
        /\ UNCHANGED <<state, skip, invalid, coarse, fine, acc, integral, fix, since, fresh, age, dev,
                       silent, settled, misses>>
    BY DEF PollNoPulse, tune, pid, pulse, history
  <1>2. TypeOK /\ PulseInv /\ LiveInv /\ GoodInv /\ SettledInv
    BY DEF GpsdoInv
  <1>3. TypeOK'
    BY <1>1, <1>2 DEF TypeOK, FlagType, TuneType, CountType
  <1>4. PulseInv'
    BY <1>1, <1>2 DEF PulseInv
  <1>5. LiveInv'
    <2>1. since \in Nat /\ Wrap \in Nat /\ Wrap > 4
      BY <1>2, Numbers DEF TypeOK
    <2>2. Elapsed = IF since < Wrap THEN since ELSE since - Wrap
      BY <1>2, ElapsedIs DEF TypeOK, CountType
    <2>3. Tuning => Elapsed < 3
      BY <1>1 DEF PollNoPulse, NotTimedOut, Tuning
    <2>4. Tuning => since <= 3
      BY <1>1, <1>2 DEF LiveInv
    <2>5. Tuning => since <= 2
      BY <2>1, <2>2, <2>3, <2>4
    <2> QED BY <1>1, <2>5 DEF LiveInv, Tuning
  <1>6. GoodInv' /\ SettledInv'
    BY <1>1, <1>2 DEF GoodInv, SettledInv, Tuning
  <1> QED BY <1>3, <1>4, <1>5, <1>6 DEF GpsdoInv

LEMMA LaterType ==
  ASSUME NEW s \in 0 .. 2 * Wrap - 1
  PROVE  /\ Later(s) \in 0 .. 2 * Wrap - 1
         /\ Later(s) = s + 1 \/ (s = 2 * Wrap - 1 /\ Later(s) = Wrap)
         /\ Lower(Later(s), 5) = Lower(Lower(s, 5) + 1, 5)
  BY GpsdoAssumption DEF GpsdoAssumption, Later, Lower

LEMMA SecondStep ==
  ASSUME GpsdoInv, NEW pps \in BOOLEAN, NEW d \in Dev, Second(pps, d)
  PROVE  GpsdoInv'
  <1>1. /\ ~due /\ due' = TRUE /\ since' = Later(since)
        /\ UNCHANGED <<state, skip, invalid, coarse, fine, acc, integral, fix, misses>>
    BY DEF Second, tune, pid
  <1>2. TypeOK /\ PulseInv /\ LiveInv /\ GoodInv /\ SettledInv
    BY DEF GpsdoInv
  <1>3. \/ /\ fresh' = TRUE /\ age' = 0 /\ dev' = d
           /\ silent' = 0 /\ settled' = Lower(settled + 1, SettledMax)
        \/ /\ age' = (IF fresh THEN Later(age) ELSE 0)
           /\ silent' = Lower(silent + 1, SilentMax)
           /\ UNCHANGED <<fresh, dev, settled>>
    BY DEF Second
  <1>4. since \in 0 .. 2 * Wrap - 1 /\ age \in 0 .. 2 * Wrap - 1
    BY <1>2 DEF TypeOK, CountType
  <1>5. /\ since \in Nat /\ age \in Nat /\ Wrap \in Nat /\ Wrap > 4
        /\ settled \in 0 .. 5 /\ silent \in 0 .. 5
    BY <1>2, Numbers DEF TypeOK
  <1>6. FlagType' /\ TuneType'
    BY <1>1, <1>2, <1>3 DEF TypeOK, FlagType, TuneType
  <1>7. since' \in 0 .. 2 * Wrap - 1 /\ age' \in 0 .. 2 * Wrap - 1
    <2>1. Later(since) \in 0 .. 2 * Wrap - 1 /\ Later(age) \in 0 .. 2 * Wrap - 1
      BY <1>4, LaterType
    <2>2. 0 \in 0 .. 2 * Wrap - 1
      BY <1>5
    <2> QED BY <1>1, <1>3, <2>1, <2>2
  <1>8. silent' \in 0 .. SilentMax /\ settled' \in 0 .. SettledMax
    BY <1>3, <1>5 DEF Lower, SilentMax, SettledMax
  <1>9. CountType'
    BY <1>1, <1>2, <1>3, <1>7, <1>8 DEF TypeOK, CountType
  <1>10. PulseInv'
    <2>1. CASE fresh' = TRUE /\ age' = 0 /\ silent' = 0
      BY <1>1, <2>1 DEF PulseInv, Lower, SilentMax
    <2>2. CASE /\ age' = (IF fresh THEN Later(age) ELSE 0)
               /\ silent' = Lower(silent + 1, SilentMax) /\ fresh' = fresh
      <3>1. silent' = Lower(IF fresh' THEN age' ELSE since', SilentMax)
        <4>1. Lower(Later(age), 5) = Lower(Lower(age, 5) + 1, 5)
          BY <1>4, LaterType
        <4>2. Lower(Later(since), 5) = Lower(Lower(since, 5) + 1, 5)
          BY <1>4, LaterType
        <4>3. silent = Lower(IF fresh THEN age ELSE since, 5)
          BY <1>2 DEF PulseInv, SilentMax
        <4> QED BY <1>1, <2>2, <4>1, <4>2, <4>3 DEF SilentMax
      <3>2. ASSUME fresh PROVE age' <= Elapsed' - 3 \/ (since' = Wrap /\ age' <= Wrap - 3)
        <4>1. age <= Elapsed - 3
          BY <1>1, <1>2, <3>2 DEF PulseInv
        <4>2. Elapsed = IF since < Wrap THEN since ELSE since - Wrap
          BY <1>4, ElapsedIs
        <4>3. Elapsed' = IF since' < Wrap THEN since' ELSE since' - Wrap
          BY <1>7, LapIs DEF Elapsed
        <4>4. since' = since + 1 \/ (since = 2 * Wrap - 1 /\ since' = Wrap)
          BY <1>1, <1>4, LaterType
        <4>5. age' = age + 1
          <5>1. Later(age) = age + 1 \/ (age = 2 * Wrap - 1 /\ Later(age) = Wrap)
            BY <1>4, LaterType
          <5>2. age < 2 * Wrap - 1
            BY <1>4, <1>5, <4>1, <4>2
          <5> QED BY <1>5, <2>2, <3>2, <5>1, <5>2
        <4> QED BY <1>4, <1>5, <4>1, <4>2, <4>3, <4>4, <4>5
      <3> QED BY <1>1, <2>2, <3>1, <3>2 DEF PulseInv
    <2> QED BY <1>3, <2>1, <2>2
  <1>11. LiveInv'
    <2>1. Tuning' = Tuning
      BY <1>1 DEF Tuning
    <2>2. Tuning => since <= 2 /\ ~fresh
      BY <1>1, <1>2 DEF LiveInv
    <2>3. Tuning => since' <= 3
      <3>1. since' = since + 1 \/ (since = 2 * Wrap - 1 /\ since' = Wrap)
        BY <1>1, <1>4, LaterType
      <3> QED BY <1>5, <2>2, <3>1
    <2>4. Tuning /\ fresh' => age' = 0
      BY <1>3, <2>2
    <2> QED BY <1>1, <2>1, <2>3, <2>4 DEF LiveInv
  <1>12. GoodInv'
    BY <1>1, <1>2 DEF GoodInv, Tuning
  <1>13. SettledInv'
    <2>1. state = "TUNE_COARSE" => ~fresh
      BY <1>1, <1>2 DEF LiveInv, Tuning
    <2>2. skip \in 0 .. 3
      BY <1>2, Numbers DEF TypeOK
    <2>3. state = "TUNE_COARSE" => settled + skip >= 1
      BY <1>2, <2>1 DEF SettledInv
    <2>4. CASE fresh' = TRUE /\ settled' = Lower(settled + 1, SettledMax)
      BY <1>1, <1>5, <2>2, <2>3, <2>4 DEF SettledInv, Lower, SettledMax
    <2>5. CASE UNCHANGED <<fresh, settled>>
      BY <1>1, <1>2, <2>5 DEF SettledInv
    <2> QED BY <1>3, <2>4, <2>5
  <1> QED BY <1>6, <1>9, <1>10, <1>11, <1>12, <1>13 DEF GpsdoInv, TypeOK

LEMMA FixStep ==
  ASSUME GpsdoInv, FixChange PROVE GpsdoInv'
  <1>1. /\ fix' = ~fix
        /\ UNCHANGED <<state, skip, invalid, coarse, fine, acc, integral, since, fresh, age, dev,
                       due, silent, settled, misses>>
    BY DEF FixChange, tune, pid, pulse, history
  <1>2. TypeOK'
    BY <1>1 DEF GpsdoInv, TypeOK, FlagType, TuneType, CountType
  <1>3. PulseInv' /\ LiveInv' /\ GoodInv' /\ SettledInv'
    BY <1>1 DEF GpsdoInv, PulseInv, LiveInv, GoodInv, SettledInv, Tuning, Elapsed
  <1> QED BY <1>2, <1>3 DEF GpsdoInv

LEMMA EnableStep ==
  ASSUME GpsdoInv, NEW on \in BOOLEAN, Enable(on) PROVE GpsdoInv'
  <1>1. /\ state' = "DISABLED" \/ state' = "HOLD_OVER" \/ state' = state
        /\ UNCHANGED <<skip, invalid, coarse, fine, acc, integral, fix, since, fresh, age, dev,
                       due, silent, settled, misses>>
    BY DEF Enable, tune, pid, pulse, history
  <1>2. TypeOK'
    BY <1>1 DEF GpsdoInv, TypeOK, FlagType, State, TuneType, CountType
  <1>3. PulseInv'
    BY <1>1 DEF GpsdoInv, PulseInv, Elapsed
  <1>4. LiveInv' /\ GoodInv' /\ SettledInv'
    BY <1>1 DEF GpsdoInv, LiveInv, GoodInv, SettledInv, Tuning
  <1> QED BY <1>2, <1>3, <1>4 DEF GpsdoInv

LEMMA SetTuneStep ==
  ASSUME GpsdoInv, NEW c \in TuneWords, NEW f \in TuneWords, SetTune(c, f)
  PROVE  GpsdoInv'
  <1>1. c \in Words /\ f \in Words
    BY GpsdoAssumption DEF GpsdoAssumption
  <1>2. UNCHANGED <<invalid, acc, integral, fix, since, fresh, age, dev,
                    due, silent, settled, misses>>
    BY DEF SetTune, pid, pulse, history
  <1>3. \/ /\ state = "TUNE_FINE" /\ state' = "TUNE_COARSE" /\ skip' = 3
           /\ coarse' = Word(c + Excess(f)) /\ fine' = Mid
        \/ coarse' = c /\ fine' = f /\ state' = state /\ skip' = skip
    BY DEF SetTune, StartSkip
  <1>4. coarse' \in Words /\ fine' \in Words
    BY <1>1, <1>3, StartType, MidType
  <1>5. TypeOK'
    BY <1>2, <1>3, <1>4 DEF GpsdoInv, TypeOK, FlagType, State, TuneType, CountType
  <1>6. PulseInv'
    BY <1>2 DEF GpsdoInv, PulseInv, Elapsed
  <1>7. LiveInv'
    BY <1>2, <1>3 DEF GpsdoInv, LiveInv, Tuning
  <1>8. GoodInv'
    <2>1. misses \in Nat /\ invalid \in Nat
      BY Numbers DEF GpsdoInv, TypeOK
    <2> QED BY <1>2, <1>3, <2>1 DEF GpsdoInv, GoodInv, Tuning
  <1>9. SettledInv'
    <2>1. settled \in 0 .. 5
      BY Numbers DEF GpsdoInv, TypeOK
    <2> QED BY <1>2, <1>3, <2>1 DEF GpsdoInv, SettledInv
  <1> QED BY <1>5, <1>6, <1>7, <1>8, <1>9 DEF GpsdoInv

LEMMA NextInv == GpsdoInv /\ [Next]_vars => GpsdoInv'
  <1> SUFFICES ASSUME GpsdoInv, [Next]_vars PROVE GpsdoInv'
    OBVIOUS
  <1>1. CASE \E pps \in BOOLEAN, d \in Dev : Second(pps, d)
    BY <1>1, SecondStep
  <1>2. CASE FixChange
    BY <1>2, FixStep
  <1>3. CASE Usb
    BY <1>3, EnableStep, SetTuneStep DEF Usb
  <1>4. CASE Poll
    BY <1>4, TimeoutStep, NoPulseStep, SkippedStep, DisabledStep, NoFixStep,
       InvalidStep, UsedSteps DEF Poll
  <1>5. CASE UNCHANGED vars
    <2>1. UNCHANGED <<state, skip, invalid, coarse, fine, acc, integral, fix, since, fresh, age, dev,
                      due, silent, settled, misses>>
      BY <1>5 DEF vars, tune, pid, pulse, history
    <2>2. TypeOK'
      BY <2>1 DEF GpsdoInv, TypeOK, FlagType, TuneType, CountType
    <2>3. PulseInv' /\ LiveInv' /\ GoodInv' /\ SettledInv'
      BY <2>1 DEF GpsdoInv, PulseInv, LiveInv, GoodInv, SettledInv, Tuning, Elapsed
    <2> QED BY <2>2, <2>3 DEF GpsdoInv
  <1> QED BY <1>1, <1>2, <1>3, <1>4, <1>5 DEF Next

-----------------------------------------------------------------------------
\* The inductive invariant of gpsdo_poll, the requests from USB and time.
THEOREM GpsdoInvariant == Spec => []GpsdoInv
  BY InitInv, NextInv, PTL DEF Spec

\* The tuning words stay 16-bit words and the counters in their ranges.
THEOREM GpsdoTypes == Spec => []TypeOK
  <1>1. GpsdoInv => TypeOK
    BY DEF GpsdoInv
  <1> QED BY <1>1, GpsdoInvariant, PTL

\* Tuning has stopped by the third silent second (gpsdo_poll's timeout).
THEOREM TracksLive == Spec => []TracksLivePps
  <1>1. GpsdoInv => TracksLivePps
    <2> SUFFICES ASSUME GpsdoInv, Tuning, ~due PROVE silent < 3
      BY DEF TracksLivePps
    <2>1. ~fresh /\ since <= 2
      BY DEF GpsdoInv, LiveInv
    <2>2. since \in Nat /\ silent = Lower(since, 5)
      BY <2>1, Numbers DEF GpsdoInv, TypeOK, PulseInv, SilentMax
    <2> QED BY <2>1, <2>2 DEF Lower
  <1> QED BY <1>1, GpsdoInvariant, PTL

\* Tuning has stopped after MaxInvalid implausible pulses, and three more
\* where they were being skipped.
THEOREM TracksGood == Spec => []TracksGoodPps
  <1>1. GpsdoInv => TracksGoodPps
    <2> SUFFICES ASSUME GpsdoInv, Tuning PROVE misses < MaxInvalid + 3
      BY DEF TracksGoodPps
    <2>1. /\ skip \in 0 .. 3 /\ invalid \in Nat /\ misses \in Nat
          /\ MaxInvalid \in Nat /\ MaxInvalid > 0
      BY Numbers DEF GpsdoInv, TypeOK
    <2> QED BY <2>1 DEF GpsdoInv, GoodInv
  <1> QED BY <1>1, GpsdoInvariant, PTL

\* A coarse correction only uses measurements begun after the last change.
THEOREM Settled == Spec => UsesSettled
  <1>1. GpsdoInv /\ [Next]_vars => [CoarseTune => settled >= 2]_vars
    <2> SUFFICES ASSUME GpsdoInv, CoarseTune PROVE settled >= 2
      OBVIOUS
    <2>1. state = "TUNE_COARSE" /\ skip = 0 /\ fresh
      BY DEF CoarseTune, MeasureUsed, Active, Read
    <2>2. settled \in 0 .. 5
      BY Numbers DEF GpsdoInv, TypeOK
    <2> QED BY <2>1, <2>2 DEF GpsdoInv, SettledInv
  <1> QED BY <1>1, GpsdoInvariant, PTL DEF Spec, UsesSettled

=============================================================================
