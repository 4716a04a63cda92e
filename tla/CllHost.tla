------------------------------ MODULE CllHost ------------------------------
(***************************************************************************)
(* What the runners share besides the store: the wall clock they read.     *)
(***************************************************************************)
EXTENDS CllEngine

CONSTANT MaxTime   \* bound: the last clock reading

ASSUME ClockAssumption == MaxTime \in Nat

VARIABLE clock

ClockInit == clock = 0

ClockTicks ==
    /\ clock < MaxTime
    /\ clock' = clock + 1
    /\ UNCHANGED storeVars
=============================================================================
