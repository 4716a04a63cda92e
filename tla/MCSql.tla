------------------------------- MODULE MCSql -------------------------------
(***************************************************************************)
(* Instances of SqlBackend for TLC.                                        *)
(***************************************************************************)
EXTENDS SqlBackend, TLC

CONSTANTS h1, h2, k1, w1, v1, v2

SqlSymmetry == Permutations(Value) \cup Permutations(Handle)
=============================================================================
