-------------------------- MODULE CheckpointChain --------------------------
(***************************************************************************)
(* What the checkpoint runners promise together, without loads, commits,   *)
(* contention or crashes: a log that only grows, an index that moves       *)
(* forward along it, and a chain of checkpoints in which each new one      *)
(* covers the whole index, more than the one before, and names that one    *)
(* by size and root.                                                       *)
(***************************************************************************)
EXTENDS Integers, Sequences

CONSTANTS Value, Key, Time

VARIABLES log, indexed, sealed

chainVars == <<log, indexed, sealed>>

ChainInit == log = <<>> /\ indexed = 0 /\ sealed = <<>>

LastSize == IF sealed = <<>> THEN 0 ELSE sealed[Len(sealed)].size
LastRoot == IF sealed = <<>> THEN <<>> ELSE sealed[Len(sealed)].root

\* A new value enters the log.
Grow ==
    /\ \E v \in Value :
          /\ \A i \in DOMAIN log : log[i] # v
          /\ log' = Append(log, v)
    /\ UNCHANGED <<indexed, sealed>>

\* The index advances, by any number of entries.
Index ==
    /\ indexed' \in (indexed + 1)..Len(log)
    /\ UNCHANGED <<log, sealed>>

\* The index may advance, and a checkpoint over all of it is added.
Seal ==
    /\ indexed' \in indexed..Len(log)
    /\ indexed' > LastSize
    /\ \E k \in Key, t \in Time :
          sealed' = Append(sealed,
                       [size |-> indexed', root |-> SubSeq(log, 1, indexed'),
                        prev_size |-> LastSize, prev_root |-> LastRoot,
                        key_id |-> k, issued_at |-> t])
    /\ UNCHANGED log

ChainNext == Grow \/ Index \/ Seal

Spec == ChainInit /\ [][ChainNext]_chainVars
=============================================================================
