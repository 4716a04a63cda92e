-------------------------- MODULE CheckpointRunner --------------------------
(***************************************************************************)
(* Checkpoint runners over one backend (python/checkpoint/runner.py).      *)
(* Several runners, in one or several processes and languages, take turns  *)
(* on one durable log: each loads the CLL state, scans the entries that    *)
(* are not indexed yet, and commits the next state by compare-and-set.     *)
(* load_cll, scan_entries and commit_cll are separate store calls, so the  *)
(* other runners, the host's appends and the clock move between them.      *)
(***************************************************************************)
EXTENDS CllHost

CONSTANTS
    Runner,           \* runner instances
    KeyOf,            \* [Runner -> Key]: the signer each runner is given
    WitnessIds,       \* [Runner -> SUBSET Witness]: witness_ids
    Once,             \* the runners whose host calls run_once, not run
    Notified,         \* the runners the host calls notify on
    CadenceEntries,   \* cadence_entries
    CadenceAge,       \* cadence_age
    ScanLimit,        \* scan_limit
    MaxCrashes        \* bound: process crashes in a behaviour

ASSUME RunnerAssumption ==
    /\ KeyOf \in [Runner -> Key]
    /\ WitnessIds \in [Runner -> SUBSET Witness]
    /\ Once \subseteq Runner /\ Notified \subseteq Runner
    /\ CadenceEntries \in Nat \ {0}
    /\ CadenceAge \in Nat \ {0}
    /\ ScanLimit \in Nat \ {0}
    /\ MaxCrashes \in Nat

VARIABLES
    pc,         \* where each runner is
    now,        \* the evaluation time of its pass
    view,       \* loaded.state: the state its pass works from
    next,       \* next_state, between scan_entries and commit_cll
    reloaded,   \* whether its last attempt already ended in contention
    wake,       \* its wake event
    crashes,    \* how many crashes happened (bounded)
    chain       \* history: every checkpoint committed, in order

runnerVars == <<pc, now, view, next, reloaded, wake, crashes, chain>>
vars == <<entries, cll, clock, runnerVars>>

Init ==
    /\ StoreInit
    /\ ClockInit
    /\ pc = [r \in Runner |-> "woken"]
    /\ now = [r \in Runner |-> 0]
    /\ view = [r \in Runner |-> EmptyState]
    /\ next = [r \in Runner |-> EmptyState]
    /\ reloaded = [r \in Runner |-> FALSE]
    /\ wake = [r \in Runner |-> FALSE]
    /\ crashes = 0
    /\ chain = <<>>

-----------------------------------------------------------------------------
(***************************************************************************)
(* The host: it appends entries with any time stamp, may notify a runner,  *)
(* and the clock advances.                                                 *)
(***************************************************************************)

\* Stamps leave room for cadence_age to pass before MaxTime.
AppendStep ==
    /\ \E v \in Value, t \in 0..(MaxTime - CadenceAge) : AppendEntry(v, t)
    /\ UNCHANGED <<clock, runnerVars>>

Tick ==
    /\ ClockTicks
    /\ UNCHANGED runnerVars

\* notify
Notify(r) ==
    /\ r \in Notified
    /\ wake' = [wake EXCEPT ![r] = TRUE]
    /\ UNCHANGED <<entries, cll, clock, pc, now, view, next, reloaded, crashes, chain>>

-----------------------------------------------------------------------------
(***************************************************************************)
(* The run loop.  A pass starts by clearing the event and reading the      *)
(* clock, and ends by waiting for the event or the poll interval.          *)
(***************************************************************************)

\* Mutant: the event is cleared before it is waited for, so that a notify
\* between the end of the pass and the wait may be lost.
ClearThenWait(r) ==
    /\ pc[r] = "wait"
    /\ wake[r]
    /\ \/ pc' = [pc EXCEPT ![r] = "woken"] /\ UNCHANGED wake
       \/ wake' = [wake EXCEPT ![r] = FALSE] /\ UNCHANGED pc
    /\ UNCHANGED <<entries, cll, clock, now, view, next, reloaded, crashes, chain>>

\* _wake.wait returns because the event is set ...
Woken(r) ==
    /\ pc[r] = "wait"
    /\ wake[r]
    /\ pc' = [pc EXCEPT ![r] = "woken"]
    /\ UNCHANGED <<entries, cll, clock, now, view, next, reloaded, wake, crashes, chain>>

\* ... or because the poll interval elapsed (or the host calls run_once again).
Poll(r) ==
    /\ pc[r] = "wait"
    /\ pc' = [pc EXCEPT ![r] = "woken"]
    /\ UNCHANGED <<entries, cll, clock, now, view, next, reloaded, wake, crashes, chain>>

\* _wake.clear(), then the next turn of the loop: one time for the whole pass.
Begin(r) ==
    /\ pc[r] = "woken"
    /\ wake' = [wake EXCEPT ![r] = FALSE]
    /\ now' = [now EXCEPT ![r] = clock]
    /\ reloaded' = [reloaded EXCEPT ![r] = FALSE]
    /\ pc' = [pc EXCEPT ![r] = "load"]
    /\ UNCHANGED <<entries, cll, clock, view, next, crashes, chain>>

\* The pass is over; what it loaded is dropped.
EndPass(r, where) ==
    /\ pc' = [pc EXCEPT ![r] = where]
    /\ view' = [view EXCEPT ![r] = EmptyState]
    /\ next' = [next EXCEPT ![r] = EmptyState]

-----------------------------------------------------------------------------
(***************************************************************************)
(* One pass.                                                               *)
(***************************************************************************)

\* Mutant: any key's checkpoint will do.
VerifyAnyKey(r, state) ==
    \/ state.checkpoint = NoCheckpoint
    \/ Prefix(state.checkpoint.root, state.nodes)

\* Mutant: the checkpoint is expected to cover the whole index.
VerifyWholeIndex(r, state) ==
    \/ state.checkpoint = NoCheckpoint
    \/ /\ state.checkpoint.root = state.nodes
       /\ state.checkpoint.key_id = KeyOf[r]

\* _verify_checkpoint: the stored checkpoint is one this runner's key signed
\* over the nodes next to it.
VerifyCheckpoint(r, state) ==
    LET cp == state.checkpoint
    IN  \/ cp = NoCheckpoint
        \/ /\ cp.size \in 1..Len(state.nodes)
           /\ Len(cp.root) = cp.size
           /\ Prefix(cp.root, state.nodes)
           /\ cp.key_id = KeyOf[r]

\* _load: a state that does not verify raises CorruptError, which run does
\* not catch.
Load(r) ==
    /\ pc[r] = "load"
    /\ \/ /\ VerifyCheckpoint(r, cll)
          /\ pc' = [pc EXCEPT ![r] = "scan"]
          /\ view' = [view EXCEPT ![r] = cll]
          /\ UNCHANGED next
       \/ /\ ~VerifyCheckpoint(r, cll)
          /\ EndPass(r, "failed")
    /\ UNCHANGED <<entries, cll, clock, now, reloaded, wake, crashes, chain>>

\* The leaves after indexing batch on top of state.
IndexedNodes(state, batch) ==
    [i \in 1..(Len(state.nodes) + Len(batch)) |->
        IF i <= Len(state.nodes) THEN state.nodes[i]
        ELSE batch[i - Len(state.nodes)].value]

\* appended_at of the oldest entry no checkpoint covers.
FirstPending(state, batch) ==
    IF state.first_pending_at = None /\ batch # <<>>
    THEN batch[1].appended_at ELSE state.first_pending_at

\* Mutant: one entry too many before a checkpoint is due.
DueTooLate(state, batch, time) ==
    LET pending == FirstPending(state, batch)
        uncheckpointed == Len(state.nodes) + Len(batch) - state.checkpoint.size
    IN  /\ pending # None
        /\ uncheckpointed > 0
        /\ \/ uncheckpointed > CadenceEntries
           \/ time - pending >= CadenceAge

\* Mutant: the age of the oldest entry is not considered.
DueByCountOnly(state, batch, time) ==
    Len(state.nodes) + Len(batch) - state.checkpoint.size >= CadenceEntries

Due(state, batch, time) ==
    LET pending == FirstPending(state, batch)
        uncheckpointed == Len(state.nodes) + Len(batch) - state.checkpoint.size
    IN  /\ pending # None
        /\ uncheckpointed > 0
        /\ \/ uncheckpointed >= CadenceEntries
           \/ time - pending >= CadenceAge

\* Mutant: stamped with the start of the age window.
IssuedEarly(r, state, batch, time) ==
    [size |-> Len(state.nodes) + Len(batch),
     root |-> IndexedNodes(state, batch),
     prev_size |-> state.checkpoint.size,
     prev_root |-> state.checkpoint.root,
     key_id |-> KeyOf[r], issued_at |-> time - CadenceAge]

\* CheckpointRecord and its signed statement.
NewCheckpoint(r, state, batch, time) ==
    [size |-> Len(state.nodes) + Len(batch),
     root |-> IndexedNodes(state, batch),
     prev_size |-> state.checkpoint.size,
     prev_root |-> state.checkpoint.root,
     key_id |-> KeyOf[r], issued_at |-> time]

\* Mutant: the rows hold a statement signed a second time.
QueueResigned(r, state, cp, time) ==
    LET new == {<<w, cp.size>> : w \in WitnessIds[r]}
    IN  [k \in DOMAIN state.witnesses \cup new |->
            IF k \in DOMAIN state.witnesses THEN state.witnesses[k]
            ELSE [checkpoint |-> [cp EXCEPT !.issued_at = @ + 1], attempts |-> 0,
                  next_attempt_at |-> time, receipt |-> FALSE, permanent |-> FALSE]]

\* One undelivered row per configured witness.  A key that were already there
\* would make the state invalid; RowsMatchChain rules it out.
QueueRows(r, state, cp, time) ==
    LET new == {<<w, cp.size>> : w \in WitnessIds[r]}
    IN  [k \in DOMAIN state.witnesses \cup new |->
            IF k \in DOMAIN state.witnesses THEN state.witnesses[k]
            ELSE [checkpoint |-> cp, attempts |-> 0, next_attempt_at |-> time,
                  receipt |-> FALSE, permanent |-> FALSE]]

\* Mutant: first_pending_at is not reset by a checkpoint.
PendingNotReset(r, state, batch, time) ==
    LET cp == NewCheckpoint(r, state, batch, time)
        due == Due(state, batch, time)
    IN  [nodes |-> IndexedNodes(state, batch),
         first_pending_at |-> FirstPending(state, batch),
         checkpoint |-> IF due THEN cp ELSE state.checkpoint,
         witnesses |-> IF due THEN QueueRows(r, state, cp, time)
                       ELSE state.witnesses]

\* The state _advance commits.
Advanced(r, state, batch, time) ==
    IF Due(state, batch, time)
    THEN LET cp == NewCheckpoint(r, state, batch, time)
         IN  [nodes |-> IndexedNodes(state, batch), first_pending_at |-> None,
              checkpoint |-> cp, witnesses |-> QueueRows(r, state, cp, time)]
    ELSE [nodes |-> IndexedNodes(state, batch),
          first_pending_at |-> FirstPending(state, batch),
          checkpoint |-> state.checkpoint, witnesses |-> state.witnesses]

\* _advance up to its commit: read a batch and decide.
Scan(r) ==
    LET batch == ScanEntries(Len(view[r].nodes), ScanLimit)
    IN  /\ pc[r] = "scan"
        /\ \/ /\ batch = <<>> /\ ~Due(view[r], batch, now[r])
              /\ EndPass(r, "wait")
           \/ /\ batch # <<>> \/ Due(view[r], batch, now[r])
              /\ next' = [next EXCEPT ![r] = Advanced(r, view[r], batch, now[r])]
              /\ pc' = [pc EXCEPT ![r] = "commit"]
              /\ UNCHANGED view
        /\ UNCHANGED <<entries, cll, clock, now, reloaded, wake, crashes, chain>>

RunnerCommitError(r) ==
    CommitCllError(cll, Len(view[r].nodes), view[r].checkpoint, next[r])

\* commit_cll succeeds.  The pass goes on from the state it committed, which
\* may hold older witness rows than the store; run_once ends here.
CommitOk(r) ==
    /\ pc[r] = "commit"
    /\ RunnerCommitError(r) = "none"
    /\ cll' = ApplyCll(cll, next[r])
    /\ chain' = IF next[r].checkpoint = cll.checkpoint THEN chain
                ELSE Append(chain, next[r].checkpoint)
    /\ \/ /\ r \in Once
          /\ EndPass(r, "wait")
          /\ UNCHANGED reloaded
       \/ /\ r \notin Once
          /\ view' = [view EXCEPT ![r] = next[r]]
          /\ next' = [next EXCEPT ![r] = EmptyState]
          /\ reloaded' = [reloaded EXCEPT ![r] = FALSE]
          /\ pc' = [pc EXCEPT ![r] = "scan"]
    /\ UNCHANGED <<entries, clock, now, wake, crashes>>

\* commit_cll raises.  _catch_up reloads after the first contention in a row;
\* run swallows the second and waits; any other error ends the runner.
CommitFails(r) ==
    /\ pc[r] = "commit"
    /\ RunnerCommitError(r) # "none"
    /\ \/ /\ RunnerCommitError(r) = "contention"
          /\ r \notin Once /\ ~reloaded[r]
          /\ EndPass(r, "load")
          /\ reloaded' = [reloaded EXCEPT ![r] = TRUE]
       \/ /\ RunnerCommitError(r) = "contention"
          /\ r \in Once \/ reloaded[r]
          /\ EndPass(r, "wait")
          /\ UNCHANGED reloaded
       \/ /\ RunnerCommitError(r) = "invalid"
          /\ EndPass(r, "failed")
          /\ UNCHANGED reloaded
    /\ UNCHANGED <<entries, cll, clock, now, wake, crashes, chain>>

\* The process dies before or after any store call, or stop ends its pass
\* between two batches, and it is started again.
Crash(r) ==
    /\ pc[r] # "failed"
    /\ crashes < MaxCrashes
    /\ crashes' = crashes + 1
    /\ EndPass(r, "woken")
    /\ now' = [now EXCEPT ![r] = 0]
    /\ reloaded' = [reloaded EXCEPT ![r] = FALSE]
    /\ wake' = [wake EXCEPT ![r] = FALSE]
    /\ UNCHANGED <<entries, cll, clock, chain>>

RunnerStep(r) ==
    \/ Woken(r) \/ Poll(r) \/ Begin(r) \/ Load(r) \/ Scan(r)
    \/ CommitOk(r) \/ CommitFails(r) \/ Crash(r)

Next ==
    \/ AppendStep
    \/ Tick
    \/ \E r \in Runner : Notify(r) \/ RunnerStep(r)

Spec == Init /\ [][Next]_vars

-----------------------------------------------------------------------------
(***************************************************************************)
(* Fairness.  A host thread keeps running its pass, and a set event ends   *)
(* its wait.                                                               *)
(***************************************************************************)
LiveSpec ==
    /\ Spec
    /\ \A r \in Runner :
          /\ WF_vars(Begin(r) \/ Load(r) \/ Scan(r) \/ CommitOk(r) \/ CommitFails(r))
          /\ WF_vars(Woken(r))

\* The poll interval elapses (Event.wait has a timeout, or the host calls
\* run_once again) and time passes.
Polled == WF_vars(Tick) /\ \A r \in Runner : WF_vars(Poll(r))

-----------------------------------------------------------------------------
(***************************************************************************)
(* Correctness.                                                            *)
(***************************************************************************)
TypeOK ==
    /\ entries \in Seq(Entry)
    /\ IsCllState(cll)
    /\ clock \in 0..MaxTime
    /\ pc \in [Runner -> {"wait", "woken", "load", "scan", "commit", "failed"}]
    /\ now \in [Runner -> 0..MaxTime]
    /\ DOMAIN view = Runner /\ DOMAIN next = Runner
    /\ \A r \in Runner : IsCllState(view[r]) /\ IsCllState(next[r])
    /\ reloaded \in [Runner -> BOOLEAN]
    /\ wake \in [Runner -> BOOLEAN]
    /\ crashes \in 0..MaxCrashes
    /\ chain \in Seq(Checkpoint)

LastOf(s) == IF s = <<>> THEN NoCheckpoint ELSE s[Len(s)]

Predecessor(i) == IF i = 1 THEN NoCheckpoint ELSE chain[i - 1]

\* Whatever the interleaving of runners, the committed checkpoints form one
\* chain: each covers more entries than the one before, names exactly that
\* one as its predecessor, and commits to a prefix of the entry log.
ChainSound ==
    \A i \in DOMAIN chain :
        /\ chain[i].size > Predecessor(i).size
        /\ chain[i].prev_size = Predecessor(i).size
        /\ chain[i].prev_root = Predecessor(i).root
        /\ Len(chain[i].root) = chain[i].size
        /\ chain[i].size <= Len(entries)
        /\ \A j \in 1..Len(chain[i].root) : chain[i].root[j] = entries[j].value

\* A state whose index is a prefix of the entry log and whose checkpoint is
\* within that index.
FollowsLog(s) ==
    /\ Len(s.nodes) <= Len(entries)
    /\ \A i \in 1..Len(s.nodes) : s.nodes[i] = entries[i].value
    /\ s.checkpoint.size <= Len(s.nodes)

PendingExact(s) ==
    s.first_pending_at =
        IF Len(s.nodes) = s.checkpoint.size THEN None
        ELSE entries[s.checkpoint.size + 1].appended_at

WithinCadence(s) == Len(s.nodes) - s.checkpoint.size < CadenceEntries

\* The stored index is a prefix of the entry log, no entry skipped or taken
\* twice, and the stored checkpoint is the end of the chain and within it.
IndexFollowsLog == FollowsLog(cll) /\ cll.checkpoint = LastOf(chain)

\* first_pending_at survives restarts, batches and other runners' commits as
\* the time stamp of the first indexed entry that no checkpoint covers.
FirstPendingExact == PendingExact(cll)

\* The index never holds cadence_entries entries past the last checkpoint:
\* a pass cannot commit nodes and leave the checkpoint they make due to a
\* later pass.
BacklogBounded == WithinCadence(cll)

\* Every committed checkpoint is queued for every witness all runners are
\* configured with, and no row holds a statement that is not in the chain,
\* so a commit that loses the race leaves no row behind.
RowsMatchChain ==
    /\ \A i \in DOMAIN chain, w \in Witness :
          (\A r \in Runner : w \in WitnessIds[r]) =>
              /\ <<w, chain[i].size>> \in DOMAIN cll.witnesses
              /\ cll.witnesses[<<w, chain[i].size>>].checkpoint = chain[i]
    /\ \A k \in DOMAIN cll.witnesses :
          \E i \in DOMAIN chain :
              k[2] = chain[i].size /\ cll.witnesses[k].checkpoint = chain[i]

\* Runners given different keys cannot mix signatures in one chain: the
\* first to commit a checkpoint wins the log, also when both started on an
\* empty one.
OneSigner ==
    \A i, j \in DOMAIN chain : chain[i].key_id = chain[j].key_id

\* A runner stops on an error only when its key is not the chain's: no
\* interleaving makes an honest runner see corrupt state or commit an
\* invalid one.
OnlyForeignKeyFails ==
    \A r \in Runner :
        pc[r] = "failed" => chain # <<>> /\ chain[1].key_id # KeyOf[r]

\* No step rewrites or drops an entry, an indexed leaf, a committed
\* checkpoint or a queued witness row.
AppendOnly ==
    [][/\ Prefix(entries, entries')
       /\ Prefix(cll.nodes, cll'.nodes)
       /\ Prefix(chain, chain')
       /\ DOMAIN cll.witnesses \subseteq DOMAIN cll'.witnesses]_vars

\* The detailed specification implements the abstract checkpoint chain.
Abstract ==
    INSTANCE CheckpointChain WITH
        log <- [i \in DOMAIN entries |-> entries[i].value],
        indexed <- Len(cll.nodes),
        sealed <- chain,
        Time <- 0..MaxTime

ImplementsChain == Abstract!Spec

\* Every entry is eventually covered by a checkpoint, by count or by age,
\* despite contention, crashes and runners with a foreign key, if all runners
\* poll.
EveryEntryCheckpointed ==
    Polled => \A n \in 1..MaxSeq : Len(entries) >= n ~> cll.checkpoint.size >= n

\* An append the host follows by notify is indexed without the poll interval,
\* unless the log has turned out to be another key's: clearing the event
\* before the pass loses no wakeup.
NotifyIndexes ==
    \A r \in Notified, n \in 1..MaxSeq :
        (Len(entries) >= n /\ wake[r]) ~> (Len(cll.nodes) >= n \/ pc[r] = "failed")
=============================================================================
