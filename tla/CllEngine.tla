----------------------------- MODULE CllEngine -----------------------------
(***************************************************************************)
(* The shared backend engine of the checkpointed local log                 *)
(* (python/log/engine.py): the entry log, the CLL state kept next to it,   *)
(* and the compare-and-set rules every backend applies to them.            *)
(*                                                                         *)
(* What is abstracted.  An entry value is an element of Value (32 opaque   *)
(* bytes in the code); its seq is its position.  The MMR nodes are         *)
(* represented by the leaves they were built from, and every size is       *)
(* counted in leaves: the node array is a function of the leaves, appended *)
(* to and never rewritten, and the map from leaves to nodes is one to one. *)
(* A root is the sequence of leaves it commits to (a hash without          *)
(* collisions).  A signed checkpoint statement is the record it encodes;   *)
(* signing is deterministic, so equal records are equal bytes.             *)
(***************************************************************************)
EXTENDS Integers, Sequences, FiniteSets

CONSTANTS
    Value,        \* entry values
    Witness,      \* witness identifiers
    Key,          \* signing keys of checkpoint runners
    None,         \* Python's None
    MaxSeq,       \* MAX_PORTABLE_INTEGER, the largest entry sequence
    MaxAttempts   \* MAX_ATTEMPTS, the largest witness attempt counter

ASSUME EngineAssumption ==
    /\ None \notin Nat
    /\ None \notin Key
    /\ MaxSeq \in Nat \ {0}
    /\ MaxAttempts \in Nat \ {0}

VARIABLES
    entries,      \* Engine._entries: position i holds the entry of seq i
    cll           \* Engine._state

storeVars == <<entries, cll>>

(***************************************************************************)
(* Values.                                                                 *)
(***************************************************************************)
Entry == [value : Value, appended_at : Nat]

Checkpoint ==
    [size : Nat, root : Seq(Value), prev_size : Nat, prev_root : Seq(Value),
     key_id : Key \cup {None}, issued_at : Nat]

\* The absent checkpoint: it covers nothing, so the first checkpoint's
\* prev_size and prev_root are its size and root.
NoCheckpoint ==
    [size |-> 0, root |-> <<>>, prev_size |-> 0, prev_root |-> <<>>,
     key_id |-> None, issued_at |-> 0]

\* receipt: whether the witness's verified receipt is stored on the row.
WitnessState ==
    [checkpoint : Checkpoint, attempts : Nat, next_attempt_at : Nat,
     receipt : BOOLEAN, permanent : BOOLEAN]

\* Rows are keyed by witness and checkpoint size (witness_key).
WitnessKey == Witness \X Nat

IsRowMap(f) == DOMAIN f \subseteq WitnessKey /\ f \in [DOMAIN f -> WitnessState]

NoRows == [k \in {} |-> None]

\* A CllState; size and indexed_seq are both Len(nodes).
IsCllState(s) ==
    /\ s = [nodes |-> s.nodes, first_pending_at |-> s.first_pending_at,
            checkpoint |-> s.checkpoint, witnesses |-> s.witnesses]
    /\ s.nodes \in Seq(Value)
    /\ s.first_pending_at \in Nat \cup {None}
    /\ s.checkpoint \in Checkpoint
    /\ IsRowMap(s.witnesses)

EmptyState ==
    [nodes |-> <<>>, first_pending_at |-> None,
     checkpoint |-> NoCheckpoint, witnesses |-> NoRows]

Prefix(s, t) == Len(s) <= Len(t) /\ \A i \in 1..Len(s) : s[i] = t[i]

Least(a, b) == IF a <= b THEN a ELSE b

StoreInit == entries = <<>> /\ cll = EmptyState

-----------------------------------------------------------------------------
(***************************************************************************)
(* The entry log.                                                          *)
(***************************************************************************)

\* Mutant: a repeated append refreshes the stored time stamp.
AppendRefreshes(v, t) ==
    /\ entries' =
         IF \E i \in DOMAIN entries : entries[i].value = v
         THEN [i \in DOMAIN entries |->
                 IF entries[i].value = v
                 THEN [value |-> v, appended_at |-> t] ELSE entries[i]]
         ELSE IF Len(entries) + 1 > MaxSeq THEN entries
         ELSE Append(entries, [value |-> v, appended_at |-> t])
    /\ UNCHANGED cll

\* Mutant: the value index is not consulted.
AppendTwice(v, t) ==
    /\ entries' = IF Len(entries) + 1 > MaxSeq THEN entries
                  ELSE Append(entries, [value |-> v, appended_at |-> t])
    /\ UNCHANGED cll

\* Engine.append.  A known value returns the entry already stored, and an
\* append past the portable range is refused; both leave the log alone.
AppendEntry(v, t) ==
    /\ entries' =
         IF \/ \E i \in DOMAIN entries : entries[i].value = v
            \/ Len(entries) + 1 > MaxSeq
         THEN entries
         ELSE Append(entries, [value |-> v, appended_at |-> t])
    /\ UNCHANGED cll

\* Mutant: the scan starts one entry too late.
ScanSkipsOne(after, limit) ==
    SubSeq(entries, after + 2, Least(after + limit + 1, Len(entries)))

\* Engine.scan_entries(after_seq, limit): the entries after after_seq.
ScanEntries(after, limit) ==
    SubSeq(entries, after + 1, Least(after + limit, Len(entries)))

-----------------------------------------------------------------------------
(***************************************************************************)
(* commit_cll.                                                             *)
(***************************************************************************)

\* Mutant: no compare before the set.
ExpectedUnchecked(current, size, checkpoint) == TRUE

\* _check_expected
Expected(current, size, checkpoint) ==
    Len(current.nodes) = size /\ current.checkpoint = checkpoint

\* validate_witness, of what the model keeps of a row.
ValidWitness(key, row) == key[2] > 0 /\ row.attempts \in 0..MaxAttempts

\* validate_state
ValidState(next) ==
    /\ next.checkpoint = NoCheckpoint
         \/ next.checkpoint.size \in 1..Len(next.nodes)
    /\ \A k \in DOMAIN next.witnesses : ValidWitness(k, next.witnesses[k])

\* The append-only rule of apply_cll.
Extends(current, next) == Prefix(current.nodes, next.nodes)

\* The checkpoint rules of added_witnesses: never removed, never moved
\* backward, never changed at an existing size.
CheckpointForward(current, next) ==
    \/ next.checkpoint = current.checkpoint
    \/ next.checkpoint.size > current.checkpoint.size

\* The witness rule of added_witnesses: a repeated key names the same bytes.
SameWitnessCheckpoints(current, next) ==
    \A k \in DOMAIN current.witnesses \cap DOMAIN next.witnesses :
        next.witnesses[k].checkpoint = current.witnesses[k].checkpoint

\* Mutant: the rows next adds are forgotten.
MergeForgetsAdded(current, next) == current.witnesses

\* Mutant: the row of next wins.
MergePrefersNext(current, next) ==
    [k \in DOMAIN current.witnesses \cup DOMAIN next.witnesses |->
        IF k \in DOMAIN next.witnesses
        THEN next.witnesses[k] ELSE current.witnesses[k]]

\* The stored row of a repeated key wins, rows that next omits are kept.
MergeWitnesses(current, next) ==
    [k \in DOMAIN current.witnesses \cup DOMAIN next.witnesses |->
        IF k \in DOMAIN current.witnesses
        THEN current.witnesses[k] ELSE next.witnesses[k]]

\* apply_cll: the error it raises, checked in this order ...
CommitCllError(current, size, checkpoint, next) ==
    IF ~Expected(current, size, checkpoint) THEN "contention"
    ELSE IF ~ValidState(next) \/ ~Extends(current, next) THEN "invalid"
    ELSE IF \/ ~CheckpointForward(current, next)
            \/ ~SameWitnessCheckpoints(current, next) THEN "contention"
    ELSE "none"

\* ... and the state it returns otherwise.
ApplyCll(current, next) ==
    [next EXCEPT !.witnesses = MergeWitnesses(current, next)]

-----------------------------------------------------------------------------
(***************************************************************************)
(* Witness rows.                                                           *)
(***************************************************************************)

\* pending(rows, now, limit, witness_id): the due rows of one witness, the
\* limit smallest checkpoint sizes, as a map from size to row.
PendingFor(rows, now, limit, w) ==
    LET Due == {k \in DOMAIN rows :
                  /\ k[1] = w
                  /\ ~rows[k].receipt
                  /\ ~rows[k].permanent
                  /\ rows[k].next_attempt_at <= now}
        Taken == {k \in Due : Cardinality({j \in Due : j[2] <= k[2]}) <= limit}
    IN  [n \in {k[2] : k \in Taken} |-> rows[<<w, n>>]]

\* Mutant: the attempts are not compared.
CommitWitnessBlindly(rows, key, expectedAttempts, next) ==
    IF ~ValidWitness(key, next) THEN "invalid"
    ELSE IF \/ key \notin DOMAIN rows
            \/ rows[key].checkpoint # next.checkpoint THEN "contention"
    ELSE "none"

\* apply_witness: the error commit_witness raises.  The row named by key is
\* replaced whole, so nothing else of next is compared with it.
CommitWitnessError(rows, key, expectedAttempts, next) ==
    IF ~ValidWitness(key, next) THEN "invalid"
    ELSE IF \/ key \notin DOMAIN rows
            \/ rows[key].attempts # expectedAttempts
            \/ rows[key].checkpoint # next.checkpoint THEN "contention"
    ELSE "none"

\* Engine.commit_witness on success.
CommitWitness(key, next) ==
    /\ cll' = [cll EXCEPT !.witnesses[key] = next]
    /\ UNCHANGED entries

-----------------------------------------------------------------------------
\* What a checkpoint runner that loaded s commits over the next entry: the
\* longer index alone, or with a checkpoint over it and a row per witness.
NextStates(s) ==
    LET n == Len(s.nodes) + 1
        nodes == Append(s.nodes, entries[n].value)
        cp == [size |-> n, root |-> nodes, prev_size |-> s.checkpoint.size,
               prev_root |-> s.checkpoint.root,
               key_id |-> CHOOSE k \in Key : TRUE, issued_at |-> 0]
        row == [checkpoint |-> cp, attempts |-> 0, next_attempt_at |-> 0,
                receipt |-> FALSE, permanent |-> FALSE]
        keys == DOMAIN s.witnesses \cup {<<w, n>> : w \in Witness}
    IN  IF n > Len(entries) THEN {}
        ELSE {[nodes |-> nodes,
               first_pending_at |-> IF s.first_pending_at = None
                                    THEN entries[n].appended_at ELSE s.first_pending_at,
               checkpoint |-> s.checkpoint, witnesses |-> s.witnesses],
              [nodes |-> nodes, first_pending_at |-> None, checkpoint |-> cp,
               witnesses |-> [k \in keys |-> IF k \in DOMAIN s.witnesses
                                             THEN s.witnesses[k] ELSE row]]}
=============================================================================
