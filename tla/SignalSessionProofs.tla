------------------------ MODULE SignalSessionProofs ------------------------
(***************************************************************************)
(* The safety of an engine fed with samples, for every configuration and   *)
(* every sequence of z-scores.  What the session remembers of the samples  *)
(* bounds what the engine knows of them: its counter wraps and so may be   *)
(* behind, but is never ahead, and a deviation takes two samples.          *)
(***************************************************************************)
EXTENDS SignalSession, StageProofs

CountsBehind ==
    \A i \in Instruments :
        /\ engine[i].count <= samples[i]
        /\ engine[i].has_std => samples[i] >= 2

SessionInv == TypeOK /\ CountsBehind /\ SilentUntilWarm /\ ExposureIsPosition

-----------------------------------------------------------------------------
(* The counter after a sample: the next number, or zero at the wrap. *)
LEMMA NextCount ==
  ASSUME NEW c \in 0 .. CountRange - 1
  PROVE  LET next == (c + 1) % CountRange
         IN  /\ next \in 0 .. CountRange - 1
             /\ next <= c + 1
             /\ c + 1 < CountRange => next = c + 1
<1>1. CountRange \in Nat \ {0} /\ c \in Int /\ 0 <= c /\ c <= CountRange - 1
  BY SignalConfigAssumption
<1>2. CASE c + 1 < CountRange
  <2>1. (c + 1) % CountRange = c + 1
    BY <1>1, <1>2, SMTT(30)
  <2> QED BY <1>1, <1>2, <2>1
<1>3. CASE c + 1 = CountRange
  <2>1. (c + 1) % CountRange = 0
    BY <1>1, <1>3, SMTT(30)
  <2> QED BY <1>1, <1>3, <2>1
<1> QED BY <1>1, <1>2, <1>3

LEMMA InitHolds == Init => SessionInv
<1> SUFFICES ASSUME Init PROVE SessionInv
  OBVIOUS
<1>1. engine \in Engine
  BY SignalNewType DEF Init
<1>2. last \in Option([instrument : Instruments, z : ZScores, fired : Option(Signal)])
  BY DEF Init, None, Option
<1>3. TypeOK
  BY <1>1, <1>2, SignalSessionAssumption DEF TypeOK, Init
<1>4. CountsBehind /\ ExposureIsPosition
  BY DEF CountsBehind, ExposureIsPosition, Init, SignalNew, Direction, Flat, Long, Short
<1>5. SilentUntilWarm
  BY DEF SilentUntilWarm, Init
<1> QED BY <1>3, <1>4, <1>5 DEF SessionInv

LEMMA SampleHolds ==
  ASSUME SessionInv, NEW i \in Instruments, NEW z \in ZScores,
         NEW has_std \in BOOLEAN, Sample(i, z, has_std)
  PROVE  SessionInv'
<1> DEFINE fired == Fired(engine, i, z)
           sample == [instrument |-> i, z |-> z, fired |-> fired]
<1>1. /\ engine \in Engine /\ z \in Int
      /\ samples \in [Instruments -> 0 .. MaxSamples] /\ MaxSamples \in Nat
      /\ exposure \in [Instruments -> -1 .. 1]
  BY SignalSessionAssumption DEF SessionInv, TypeOK
<1>2. engine[i] \in SignalState /\ engine[i].count \in 0 .. CountRange - 1
  BY <1>1 DEF Engine, SignalState
<1>3. /\ engine' \in Engine
      /\ \A j \in Instruments \ {i} : engine'[j] = engine[j]
      /\ engine'[i].count = (engine[i].count + 1) % CountRange
      /\ engine'[i].has_std = (engine[i].count > 0 /\ has_std)
      /\ engine'[i].pos = Moved(engine[i], z)
  BY <1>1, UpdateFacts, UpdatedState DEF Sample
<1>4. /\ samples' \in [Instruments -> 0 .. MaxSamples]
      /\ samples'[i] = samples[i] + 1
      /\ \A j \in Instruments \ {i} : samples'[j] = samples[j]
  BY <1>1 DEF Sample
<1>5. CountsBehind'
  <2>1. engine'[i].count <= samples'[i]
    BY <1>1, <1>2, <1>3, <1>4, NextCount DEF SessionInv, CountsBehind
  <2>2. ASSUME engine'[i].has_std PROVE samples'[i] >= 2
    <3>1. engine[i].count > 0
      BY <1>3, <2>2, Zenon
    <3> QED BY <1>1, <1>2, <1>4, <3>1 DEF SessionInv, CountsBehind
  <2> QED BY <1>3, <1>4, <2>1, <2>2 DEF SessionInv, CountsBehind
<1>6. ExposureIsPosition' /\ exposure' \in [Instruments -> -1 .. 1]
  <2>1. /\ fired = None => engine'[i].pos = engine[i].pos
        /\ fired # None => Sign(fired[1].side) = Direction(engine'[i].pos)
                                                  - Direction(engine[i].pos)
    BY <1>1, <1>3, FiredFacts
  <2>2. engine'[i].pos \in {Flat, Long, Short}
    BY <1>3 DEF Engine, SignalState
  <2>3. Direction(engine'[i].pos) \in -1 .. 1
    BY <2>2 DEF Direction, Flat, Long, Short
  <2>4. exposure[i] = Direction(engine[i].pos) /\ exposure[i] \in Int
    BY <1>1 DEF SessionInv, ExposureIsPosition
  <2>5. exposure' = [exposure EXCEPT ![i] =
                        IF fired = None THEN exposure[i]
                        ELSE exposure[i] + Sign(fired[1].side)]
    BY DEF Sample
  <2> HIDE DEF fired
  <2>6. exposure'[i] = Direction(engine'[i].pos)
    <3>1. CASE fired = None
      BY <1>1, <2>1, <2>4, <2>5, <3>1
    <3>2. CASE fired # None
      <4>1. exposure'[i] = exposure[i] + Sign(fired[1].side)
        BY <1>1, <2>5, <3>2
      <4> QED BY <2>1, <2>3, <2>4, <3>2, <4>1
    <3> QED BY <3>1, <3>2
  <2>7. \A j \in Instruments \ {i} : exposure'[j] = exposure[j]
    BY <1>1, <2>5
  <2>8. DOMAIN exposure' = Instruments /\ exposure' = [j \in Instruments |-> exposure'[j]]
    BY <1>1, <2>5
  <2> QED BY <1>1, <1>3, <2>3, <2>6, <2>7, <2>8 DEF SessionInv, ExposureIsPosition
<1>7. last' = Some(sample)
  BY DEF Sample
<1>8. fired \in Option(Signal)
  BY <1>1, FiredType
<1>9. SilentUntilWarm'
  <2>1. last'[1].instrument = i /\ last'[1].fired = fired
    BY <1>7 DEF Some
  <2> SUFFICES ASSUME fired # None PROVE samples'[i] > Warmup /\ samples'[i] > 2
    BY <2>1 DEF SilentUntilWarm
  <2>2. (engine[i].count + 1) % CountRange > Warmup /\ engine[i].has_std
    BY <1>1, FiredWhenWarm DEF Warm
  <2>3. samples[i] >= 2 /\ engine[i].count <= samples[i]
    BY <2>2 DEF SessionInv, CountsBehind
  <2> HIDE DEF fired
  <2>4. (engine[i].count + 1) % CountRange <= engine[i].count + 1
    BY <1>2, NextCount
  <2> QED BY <1>1, <1>2, <1>4, <2>2, <2>3, <2>4, NextCount, SignalConfigAssumption
<1>10. TypeOK'
  <2>1. sample \in [instrument : Instruments, z : ZScores, fired : Option(Signal)]
    BY <1>8
  <2> HIDE DEF sample
  <2>2. last' \in Option([instrument : Instruments, z : ZScores, fired : Option(Signal)])
    BY <1>7, <2>1, SomeType
  <2> QED BY <1>3, <1>4, <1>6, <2>2 DEF TypeOK
<1> QED BY <1>5, <1>6, <1>9, <1>10 DEF SessionInv

LEMMA NextHolds == SessionInv /\ [Next]_vars => SessionInv'
<1> SUFFICES ASSUME SessionInv, [Next]_vars PROVE SessionInv'
  OBVIOUS
<1>1. CASE Next
  BY <1>1, SampleHolds DEF Next
<1>2. CASE UNCHANGED vars
  BY <1>2 DEF vars, SessionInv, TypeOK, CountsBehind, SilentUntilWarm, ExposureIsPosition
<1> QED BY <1>1, <1>2

LEMMA SessionInvariant == Spec => []SessionInv
BY InitHolds, NextHolds, PTL DEF Spec

(* The engine's states and the signals it fires are well formed, and a     *)
(* follower is never more than one order long or short, for any settings.  *)
THEOREM SignalTypeCorrect == Spec => []TypeOK
<1>1. SessionInv => TypeOK
  BY DEF SessionInv
<1> QED BY <1>1, SessionInvariant, PTL

(* No signal before the warm-up, whatever its length and however the       *)
(* counter wraps, and none on the first two samples of an instrument.      *)
THEOREM SignalsAwaitWarmUp == Spec => []SilentUntilWarm
<1>1. SessionInv => SilentUntilWarm
  BY DEF SessionInv
<1> QED BY <1>1, SessionInvariant, PTL

(* A follower of the signals holds what the engine believes, for any       *)
(* sequence of samples and any order of the thresholds.                    *)
THEOREM FollowersHoldThePosition == Spec => []ExposureIsPosition
<1>1. SessionInv => ExposureIsPosition
  BY DEF SessionInv
<1> QED BY <1>1, SessionInvariant, PTL

-----------------------------------------------------------------------------
(* While the counter does not wrap it is the number of samples. *)
CountsExact == \A i \in Instruments : engine[i].count = samples[i]

LEMMA CountsStayExact ==
  ASSUME MaxSamples < CountRange
  PROVE  SessionInv /\ CountsExact /\ [Next]_vars => CountsExact'
<1> SUFFICES ASSUME SessionInv, CountsExact, [Next]_vars PROVE CountsExact'
  OBVIOUS
<1>1. ASSUME NEW i \in Instruments, NEW z \in ZScores, NEW has_std \in BOOLEAN,
             Sample(i, z, has_std)
      PROVE  CountsExact'
  <2>1. /\ engine \in Engine /\ z \in Int
        /\ samples \in [Instruments -> 0 .. MaxSamples] /\ MaxSamples \in Nat
    BY SignalSessionAssumption DEF SessionInv, TypeOK
  <2>2. engine[i].count \in 0 .. CountRange - 1
    BY <2>1 DEF Engine, SignalState
  <2>3. /\ \A j \in Instruments \ {i} : engine'[j] = engine[j] /\ samples'[j] = samples[j]
        /\ engine'[i].count = (engine[i].count + 1) % CountRange
        /\ samples'[i] = samples[i] + 1 /\ samples[i] < MaxSamples
    BY <1>1, <2>1, UpdateFacts, UpdatedState DEF Sample
  <2>4. engine'[i].count = samples'[i]
    BY <2>1, <2>2, <2>3, NextCount, SignalConfigAssumption DEF CountsExact
  <2> QED BY <2>3, <2>4 DEF CountsExact
<1>2. CASE UNCHANGED vars
  BY <1>2 DEF vars, CountsExact
<1> QED BY <1>1, <1>2 DEF Next

LEMMA SampleStopsOut ==
  ASSUME MaxSamples < CountRange, SessionInv, CountsExact,
         NEW i \in Instruments, NEW z \in ZScores, NEW has_std \in BOOLEAN,
         Sample(i, z, has_std),
         samples[i] >= Warmup, engine[i].has_std, engine[i].pos # Flat,
         Abs(last'[1].z) >= ZStop
  PROVE  engine'[i].pos = Flat
<1>1. /\ engine \in Engine /\ z \in Int
      /\ samples \in [Instruments -> 0 .. MaxSamples] /\ MaxSamples \in Nat
  BY SignalSessionAssumption DEF SessionInv, TypeOK
<1>2. engine[i].count \in 0 .. CountRange - 1 /\ samples[i] < MaxSamples
  BY <1>1 DEF Engine, SignalState, Sample
<1>3. (engine[i].count + 1) % CountRange > Warmup
  BY <1>1, <1>2, NextCount, SignalConfigAssumption DEF CountsExact
<1>4. Warm(engine[i])
  BY <1>3 DEF Warm
<1>5. Reverts(z)
  BY DEF Sample, Some, Reverts
<1>6. Step(engine[i].pos, z) = Flat
  BY <1>5 DEF Step
<1>7. engine'[i].pos = Moved(engine[i], z)
  BY <1>1, UpdatedState DEF Sample
<1> QED BY <1>4, <1>6, <1>7 DEF Moved

(* As long as the counter does not wrap, a sample at or beyond the stop    *)
(* flattens an instrument that holds a position after its warm-up, for any *)
(* thresholds.  Past the wrap it need not: the averages start again.       *)
THEOREM PositionsAreStoppedOut ==
  ASSUME MaxSamples < CountRange
  PROVE  Spec => StopsOut
<1>1. Init => CountsExact
  <2> SUFFICES ASSUME Init, NEW i \in Instruments PROVE engine[i].count = samples[i]
    BY DEF CountsExact
  <2>1. engine[i] = [count |-> 0, has_std |-> FALSE, pos |-> Flat]
    BY DEF Init, SignalNew
  <2>2. engine[i].count = 0 /\ samples[i] = 0
    BY <2>1 DEF Init
  <2> QED BY <2>2
<1>2. SessionInv /\ CountsExact /\ [Next]_vars =>
        [\A i \in Instruments :
            /\ samples[i] >= Warmup
            /\ engine[i].has_std
            /\ engine[i].pos # Flat
            /\ samples'[i] > samples[i]
            /\ Abs(last'[1].z) >= ZStop
            => engine'[i].pos = Flat]_vars
  <2> SUFFICES ASSUME SessionInv, CountsExact, Next, NEW i \in Instruments,
                      samples[i] >= Warmup, engine[i].has_std, engine[i].pos # Flat,
                      samples'[i] > samples[i], Abs(last'[1].z) >= ZStop
               PROVE  engine'[i].pos = Flat
    OBVIOUS
  <2>1. PICK j \in Instruments, z \in ZScores, has_std \in BOOLEAN : Sample(j, z, has_std)
    BY DEF Next
  <2>2. samples \in [Instruments -> 0 .. MaxSamples] /\ MaxSamples \in Nat
    BY SignalSessionAssumption DEF SessionInv, TypeOK
  <2>3. i = j
    BY <2>1, <2>2 DEF Sample
  <2> QED BY <2>1, <2>3, SampleStopsOut
<1> QED BY <1>1, <1>2, CountsStayExact, SessionInvariant, PTL DEF Spec, StopsOut
=============================================================================
