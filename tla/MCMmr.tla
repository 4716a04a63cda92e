------------------------------- MODULE MCMmr -------------------------------
(***************************************************************************)
(* Instances of MmrLog for TLC.                                            *)
(***************************************************************************)
EXTENDS MmrLog

CONSTANTS x1, x2

DigestSymmetry == Permutations(Digest)
=============================================================================
