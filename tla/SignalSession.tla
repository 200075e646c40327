--------------------------- MODULE SignalSession ---------------------------
(***************************************************************************)
(* An engine fed with samples.  The session remembers what the engine does *)
(* not: how many samples each instrument has really had, the exposure a    *)
(* follower of every signal would hold, and the last sample.               *)
(***************************************************************************)
EXTENDS SignalEngine

CONSTANTS ZScores, MaxSamples

ASSUME SignalSessionAssumption == ZScores \subseteq Int /\ MaxSamples \in Nat

VARIABLES engine, samples, exposure, last

vars == <<engine, samples, exposure, last>>

Init ==
    /\ engine = SignalNew
    /\ samples = [i \in Instruments |-> 0]
    /\ exposure = [i \in Instruments |-> 0]
    /\ last = None

Sample(i, z, has_std) ==
    LET fired == Fired(engine, i, z)
    IN  /\ samples[i] < MaxSamples
        /\ engine' = Update(engine, i, z, has_std)
        /\ samples' = [samples EXCEPT ![i] = @ + 1]
        /\ exposure' = [exposure EXCEPT ![i] =
                           IF fired = None THEN @ ELSE @ + Sign(fired[1].side)]
        /\ last' = Some([instrument |-> i, z |-> z, fired |-> fired])

Next == \E i \in Instruments, z \in ZScores, has_std \in BOOLEAN : Sample(i, z, has_std)

Spec == Init /\ [][Next]_vars

-----------------------------------------------------------------------------
(* A state per instrument, a well-formed signal, one unit of exposure.     *)
TypeOK ==
    /\ engine \in Engine
    /\ samples \in [Instruments -> 0 .. MaxSamples]
    /\ exposure \in [Instruments -> -1 .. 1]
    /\ last \in Option([instrument : Instruments, z : ZScores, fired : Option(Signal)])

(* No signal before the warm-up samples have been observed, and none       *)
(* before the third sample whatever the warm-up: the first sample only     *)
(* sets the mean and the second only the deviation.                        *)
SilentUntilWarm ==
    last # None /\ last[1].fired # None =>
        samples[last[1].instrument] > Warmup /\ samples[last[1].instrument] > 2

(* A follower of the signals is never more than one unit long or short,    *)
(* and holds exactly what the engine believes: an exit undoes the entry it *)
(* follows and nothing else.                                               *)
ExposureIsPosition ==
    \A i \in Instruments : exposure[i] = Direction(engine[i].pos)

(* README: "stop at |z| >= 3".  An instrument that has had its warm-up and *)
(* holds a position is flattened by a sample at or beyond the stop.        *)
StopsOut ==
    [][\A i \in Instruments :
          /\ samples[i] >= Warmup
          /\ engine[i].has_std
          /\ engine[i].pos # Flat
          /\ samples'[i] > samples[i]
          /\ Abs(last'[1].z) >= ZStop
          => engine'[i].pos = Flat]_vars
=============================================================================
