----------------------------- MODULE MCJournal -----------------------------
(***************************************************************************)
(* Instances of JsonlJournal for TLC.                                      *)
(***************************************************************************)
EXTENDS JsonlJournal, TLC

CONSTANTS k1, w1, v1, v2

ValueSymmetry == Permutations(Value)
=============================================================================
