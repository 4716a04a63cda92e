------------------------------ MODULE MCRunner ------------------------------
(***************************************************************************)
(* Instances of CheckpointRunner for TLC.                                  *)
(***************************************************************************)
EXTENDS CheckpointRunner, TLC

CONSTANTS r1, r2, k1, k2, w1, v1, v2, v3

ValueSymmetry == Permutations(Value)
ValueAndRunnerSymmetry == Permutations(Value) \cup Permutations(Runner)

SameKey == [r \in Runner |-> k1]
TwoKeys == [r \in Runner |-> IF r = r1 THEN k1 ELSE k2]
OneWitness == [r \in Runner |-> {w1}]
=============================================================================
