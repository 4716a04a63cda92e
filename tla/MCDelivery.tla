----------------------------- MODULE MCDelivery -----------------------------
(***************************************************************************)
(* Instances of WitnessDelivery for TLC.                                   *)
(***************************************************************************)
EXTENDS WitnessDelivery, TLC

CONSTANTS d1, d2, w1, w2, v1, v2, v3, k1

ValueAndCourierSymmetry == Permutations(Value) \cup Permutations(Courier)

AllClients == [d \in Courier |-> Witness]
=============================================================================
