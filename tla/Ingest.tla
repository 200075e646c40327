------------------------------- MODULE Ingest -------------------------------
(***************************************************************************)
(* What the ingest ring promises, without threads, flags or counters that  *)
(* lag: packets are handled in the order they were emitted, each once; one *)
(* is dropped only when as many wait as the ring holds, it is always the   *)
(* newest, and every drop is counted.                                      *)
(***************************************************************************)
EXTENDS Naturals, Sequences

CONSTANT Capacity

VARIABLES emitted, waiting, handling, dropped

vars == <<emitted, waiting, handling, dropped>>

Init == emitted = 0 /\ waiting = <<>> /\ handling = 0 /\ dropped = 0

Accept ==
    /\ Len(waiting) < Capacity
    /\ emitted' = emitted + 1
    /\ waiting' = Append(waiting, emitted')
    /\ UNCHANGED <<handling, dropped>>

Drop ==
    /\ Len(waiting) = Capacity
    /\ emitted' = emitted + 1
    /\ dropped' = dropped + 1
    /\ UNCHANGED <<waiting, handling>>

Handle ==
    /\ waiting # <<>>
    /\ handling' = Head(waiting)
    /\ waiting' = Tail(waiting)
    /\ UNCHANGED <<emitted, dropped>>

Next == Accept \/ Drop \/ Handle

Spec == Init /\ [][Next]_vars
=============================================================================
