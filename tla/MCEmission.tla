----------------------------- MODULE MCEmission -----------------------------
(***************************************************************************)
(* Instances of CheckpointEmission for TLC.                                *)
(***************************************************************************)
EXTENDS CheckpointEmission

CONSTANTS p1, p2, r1, r2, t1

EmissionSymmetry == Permutations(Producer) \cup Permutations(RecordId)

\* The terms of a log that holds its own checkpoints are much larger: it has
\* one fault or two overlaps, the directory two of either.
Faults == [s \in Stores |-> 2]
Cost == [s \in Stores |-> IF s = "stamps" THEN 2 ELSE 1]
=============================================================================
