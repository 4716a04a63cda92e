----------------------------- MODULE MCService -----------------------------
(***************************************************************************)
(* Instances of CllService for TLC.                                        *)
(***************************************************************************)
EXTENDS CllService, TLC

CONSTANTS r1, r2, d1, w1, v1, v2, k1

SameKey == [r \in Runner |-> k1]
AllWitnesses == [r \in Runner |-> Witness]
AllClients == [d \in Courier |-> Witness]
=============================================================================
