---------------------------- MODULE SignalEngine ----------------------------
(***************************************************************************)
(* The mean-reversion signal (src/signal.rs).  Of an instrument's EWMA the *)
(* model keeps what the decisions depend on: the u32 sample count and      *)
(* whether the standard deviation is usable (not below 1e-9).  The z-score *)
(* of a sample and the deviation it leaves behind are inputs: any numbers  *)
(* the moving averages could produce.                                      *)
(***************************************************************************)
EXTENDS ConnectorLib

CONSTANTS
    ZEntry, ZExit, ZStop,       \* thresholds, on the scale of the z-scores
    Warmup,                     \* samples before any signal
    CountRange                  \* the counter wraps here: 2^32 for u32

ASSUME SignalConfigAssumption ==
    /\ ZEntry \in Int /\ ZExit \in Int /\ ZStop \in Int
    /\ Warmup \in Nat
    /\ CountRange \in Nat \ {0}

Flat == "Flat"
Long == "Long"
Short == "Short"

(* The exposure of a position, in units of one order. *)
Direction(pos) == CASE pos = Long -> 1 [] pos = Short -> -1 [] pos = Flat -> 0

SignalState ==
    [count : 0 .. CountRange - 1, has_std : BOOLEAN, pos : {Flat, Long, Short}]
Engine == [Instruments -> SignalState]

Enter == "Enter"
Exit == "Exit"
Signal == [instrument : Instruments, kind : {Enter, Exit}, side : OrderSides]

SignalNew ==
    [i \in Instruments |-> [count |-> 0, has_std |-> FALSE, pos |-> Flat]]

-----------------------------------------------------------------------------
(* The first sample sets the mean and a zero variance; every later one     *)
(* leaves whatever deviation the average now has.                          *)
Absorb(s, has_std) ==
    [s EXCEPT !.count = (@ + 1) % CountRange,
              !.has_std = s.count > 0 /\ has_std]

(* Whether the sample absorbed into s' may fire: past warm-up, against a   *)
(* deviation that was usable before it.                                    *)
FaultyWarmEarly(s) == (s.count + 1) % CountRange >= Warmup /\ s.has_std
Warm(s) == (s.count + 1) % CountRange > Warmup /\ s.has_std

FaultyRevertsLate(z) == Abs(z) <= ZExit \/ Abs(z) > ZStop
Reverts(z) == Abs(z) <= ZExit \/ Abs(z) >= ZStop

(* The position the state machine moves to on a z-score. *)
FaultyStepFlips(pos, z) ==      \* a stop reverses instead of flattening
    CASE z >= ZEntry /\ pos = Flat -> Short
      [] z <= -ZEntry /\ pos = Flat -> Long
      [] pos = Long /\ Reverts(z) -> Short
      [] pos = Short /\ Reverts(z) -> Long
      [] OTHER -> pos
Step(pos, z) ==
    CASE pos = Flat /\ z >= ZEntry -> Short
      [] pos = Flat /\ z < ZEntry /\ z <= -ZEntry -> Long
      [] pos # Flat /\ Reverts(z) -> Flat
      [] OTHER -> pos

(* The signal of a move: entries trade towards the new position, exits     *)
(* away from the old one.                                                  *)
FaultySignalOf(i, from, to) ==      \* exits repeat the side of the entry
    IF from = to THEN None
    ELSE Some([instrument |-> i,
               kind |-> IF from = Flat THEN Enter ELSE Exit,
               side |-> IF Long \in {from, to} THEN Buy ELSE Sell])
SignalOf(i, from, to) ==
    IF from = to THEN None
    ELSE Some([instrument |-> i,
               kind |-> IF from = Flat THEN Enter ELSE Exit,
               side |-> IF from = Short \/ to = Long THEN Buy ELSE Sell])

(* update: the engine after a sample, and the signal it fires, if any.     *)
Moved(s, z) == IF Warm(s) THEN Step(s.pos, z) ELSE s.pos

Update(engine, i, z, has_std) ==
    [engine EXCEPT ![i] = [Absorb(@, has_std) EXCEPT !.pos = Moved(engine[i], z)]]

Fired(engine, i, z) == SignalOf(i, engine[i].pos, Moved(engine[i], z))
=============================================================================
