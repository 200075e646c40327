-------------------------------- MODULE Desk --------------------------------
(***************************************************************************)
(* What the connector promises as a trading desk, without books, signals   *)
(* or prices: on each instrument it is flat or holds one order's quantity, *)
(* long or short; it opens from flat, closes to flat, never adds to or     *)
(* reverses a position; and once it has halted it only closes.             *)
(***************************************************************************)
EXTENDS Integers

CONSTANTS Instruments, OrderQty

VARIABLES net, halted

vars == <<net, halted>>

Init == net = [i \in Instruments |-> 0] /\ halted = FALSE

MayHalt == halted' \in {halted, TRUE}

Open(i) ==
    /\ net[i] = 0
    /\ ~ halted
    /\ \E dir \in {-1, 1} : net' = [net EXCEPT ![i] = dir * OrderQty]
    /\ MayHalt

Close(i) ==
    /\ net[i] # 0
    /\ net' = [net EXCEPT ![i] = 0]
    /\ MayHalt

Halt == halted' = TRUE /\ UNCHANGED net

Next == Halt \/ \E i \in Instruments : Open(i) \/ Close(i)

Spec == Init /\ [][Next]_vars
=============================================================================
