---------------------------- MODULE JsonlJournal ----------------------------
(***************************************************************************)
(* The JSONL v4 backend (python/log/jsonl.py): an engine in memory and a   *)
(* journal of events on disk, one line per mutation, written and fsynced   *)
(* before the mutation returns, truncated again when that fails, replayed  *)
(* when the journal is opened.  The lock and the flock make a mutation     *)
(* exclusive, so the steps of one are interleaved with failures, process   *)
(* crashes and power losses only.                                          *)
(*                                                                         *)
(* A line is an event; torn says that an incomplete line follows the       *)
(* complete ones.  file is what a read returns (the page cache).  images   *)
(* is what a power loss may leave: every content the file has had since    *)
(* the last successful fsync, with a written line possibly incomplete.     *)
(***************************************************************************)
EXTENDS CllEngine

CONSTANTS
    Time,        \* time stamps of entries and attempts
    MaxLines,    \* bound: lines in the journal
    MaxFaults    \* bound: failed calls, crashes and power losses

ASSUME JournalAssumption ==
    /\ Time \subseteq Nat /\ Time # {}
    /\ MaxLines \in Nat /\ MaxFaults \in Nat

VARIABLES
    file,        \* the journal as the process sees it
    images,      \* the journals a power loss may leave
    status,      \* what the store is doing
    event,       \* the event being written
    start,       \* the offset it is written at, in lines
    snapshot,    \* the engine before the mutation
    acked,       \* history: the lines of the mutations that returned
    returned,    \* history: the values append has returned
    faults       \* how many faults happened (bounded)

journalVars == <<file, images, status, event, start, snapshot, acked, returned, faults>>
jvars == <<entries, cll, journalVars>>

EmptyFile == [lines |-> <<>>, torn |-> FALSE]

JournalInit ==
    /\ StoreInit
    /\ file = EmptyFile
    /\ images = {EmptyFile}
    /\ status = "closed"
    /\ event = None
    /\ start = 0
    /\ snapshot = [count |-> 0, cll |-> EmptyState]
    /\ acked = <<>>
    /\ returned = {}
    /\ faults = 0

-----------------------------------------------------------------------------
(***************************************************************************)
(* Events and their replay.                                                *)
(***************************************************************************)
InitEvent == [type |-> "cll.init"]

AppendEvent(seq, entry) == [type |-> "entry.append", seq |-> seq, entry |-> entry]

\* Mutant: the rows a commit adds are not written.
DeltaWithoutRows(before, after) ==
    [nodes |-> SubSeq(after.nodes, Len(before.nodes) + 1, Len(after.nodes)),
     first_pending_at |-> after.first_pending_at,
     checkpoint |-> after.checkpoint, witnesses |-> NoRows]

\* delta_since: the nodes and the witness rows a commit adds.
DeltaSince(before, after) ==
    [nodes |-> SubSeq(after.nodes, Len(before.nodes) + 1, Len(after.nodes)),
     first_pending_at |-> after.first_pending_at,
     checkpoint |-> after.checkpoint,
     witnesses |-> [k \in DOMAIN after.witnesses \ DOMAIN before.witnesses |->
                       after.witnesses[k]]]

CommitEvent(before, after) ==
    [type |-> "cll.commit", expected_size |-> Len(before.nodes),
     expected_checkpoint |-> before.checkpoint, state |-> DeltaSince(before, after)]

WitnessEvent(key, attempts, row) ==
    [type |-> "witness.commit", expected_attempts |-> attempts, key |-> key,
     witness |-> row]

\* What replay has built so far, and whether a line was corrupt.
Blank == [ok |-> TRUE, entries |-> <<>>, cll |-> EmptyState]
Corrupt == [Blank EXCEPT !.ok = FALSE]

\* apply_cll_delta: delta on top of the current state.
ApplyDelta(current, e) ==
    LET d == e.state
        nodes == current.nodes \o d.nodes
        next == [d EXCEPT !.nodes = nodes]
    IN  IF \/ ~Expected(current, e.expected_size, e.expected_checkpoint)
           \/ ~ValidState(next)
           \/ ~CheckpointForward(current, next)
           \/ ~SameWitnessCheckpoints(current, next)
        THEN [ok |-> FALSE, cll |-> current]
        ELSE [ok |-> TRUE, cll |-> ApplyCll(current, next)]

\* _apply_event, with replay_entry, commit_cll_delta and commit_witness.
ApplyEvent(s, e) ==
    CASE ~s.ok -> s
      [] e.type = "cll.init" ->
            IF s.entries # <<>> \/ s.cll.nodes # <<>> THEN Corrupt ELSE s
      [] e.type = "entry.append" ->
            IF \/ e.seq # Len(s.entries) + 1
               \/ \E i \in DOMAIN s.entries : s.entries[i].value = e.entry.value
            THEN Corrupt ELSE [s EXCEPT !.entries = Append(@, e.entry)]
      [] e.type = "cll.commit" ->
            LET applied == ApplyDelta(s.cll, e)
            IN  IF applied.ok THEN [s EXCEPT !.cll = applied.cll] ELSE Corrupt
      [] e.type = "witness.commit" ->
            IF CommitWitnessError(s.cll.witnesses, e.key, e.expected_attempts,
                                  e.witness) # "none"
            THEN Corrupt ELSE [s EXCEPT !.cll.witnesses[e.key] = e.witness]

\* What is built after each of the lines.
Replayed(lines) ==
    LET built[n \in 0..Len(lines)] ==
          IF n = 0 THEN Blank ELSE ApplyEvent(built[n - 1], lines[n])
    IN  built

\* _replay of the complete lines.
Replay(lines) ==
    IF lines # <<>> /\ lines[1].type # "cll.init" THEN Corrupt
    ELSE Replayed(lines)[Len(lines)]

-----------------------------------------------------------------------------
(***************************************************************************)
(* Opening and closing.                                                    *)
(***************************************************************************)
Closed ==
    /\ status' = "closed"
    /\ entries' = <<>>
    /\ cll' = EmptyState

BeginEvent(e, at) ==
    /\ event' = e
    /\ start' = at
    /\ status' = "write"

\* init on a journal it can replay.  An incomplete line is cut off first; an
\* empty file gets its first line; any other is left as it is.
Provision ==
    /\ status = "closed"
    /\ Replay(file.lines).ok
    /\ \/ /\ file.torn
          /\ file' = [file EXCEPT !.torn = FALSE]
          /\ images' = images \cup {file'}
          /\ status' = "repair"
          /\ UNCHANGED <<event, start>>
       \/ /\ file = EmptyFile
          /\ BeginEvent(InitEvent, 0)
          /\ UNCHANGED <<file, images>>
    /\ UNCHANGED <<entries, cll, snapshot, acked, returned, faults>>

\* The fsync after the cut; init goes on and closes the store.
Repaired ==
    /\ status = "repair"
    /\ images' = {file}
    /\ \/ /\ file.lines = <<>>
          /\ BeginEvent(InitEvent, 0)
       \/ /\ file.lines # <<>>
          /\ status' = "closed"
          /\ UNCHANGED <<event, start>>
    /\ UNCHANGED <<entries, cll, file, snapshot, acked, returned, faults>>

\* open: an empty file, an incomplete or a corrupt line is refused.
Open ==
    /\ status = "closed"
    /\ file.lines # <<>> /\ ~file.torn
    /\ Replay(file.lines).ok
    /\ status' = "open"
    /\ entries' = Replay(file.lines).entries
    /\ cll' = Replay(file.lines).cll
    /\ UNCHANGED <<file, images, event, start, snapshot, acked, returned, faults>>

Close ==
    /\ status = "open"
    /\ Closed
    /\ UNCHANGED <<file, images, event, start, snapshot, acked, returned, faults>>

-----------------------------------------------------------------------------
(***************************************************************************)
(* Mutations (_mutate).  The engine moves first; then the event is written *)
(* at the end of the file.                                                 *)
(***************************************************************************)

\* _mutate around an operation that succeeded, up to the first write.
Persist(e) ==
    /\ Len(file.lines) < MaxLines
    /\ BeginEvent(e, Len(file.lines))
    /\ snapshot' = [count |-> Len(entries), cll |-> cll]

\* append of a known value returns its entry and writes nothing.
JournalAppend(v, t) ==
    /\ status = "open"
    /\ AppendEntry(v, t)
    /\ \/ /\ \E i \in DOMAIN entries : entries[i].value = v
          /\ returned' = returned \cup {v}
          /\ UNCHANGED <<status, event, start, snapshot>>
       \/ /\ entries' # entries
          /\ Persist(AppendEvent(Len(entries'), entries'[Len(entries')]))
          /\ UNCHANGED returned
    /\ UNCHANGED <<file, images, acked, faults>>

JournalCommitCll(size, checkpoint, next) ==
    /\ status = "open"
    /\ CommitCllError(cll, size, checkpoint, next) = "none"
    /\ cll' = ApplyCll(cll, next)
    /\ Persist(CommitEvent(cll, cll'))
    /\ UNCHANGED <<entries, file, images, acked, returned, faults>>

JournalCommitWitness(key, row, attempts) ==
    /\ status = "open"
    /\ CommitWitnessError(cll.witnesses, key, attempts, row) = "none"
    /\ CommitWitness(key, row)
    /\ Persist(WitnessEvent(key, attempts, row))
    /\ UNCHANGED <<file, images, acked, returned, faults>>

-----------------------------------------------------------------------------
(***************************************************************************)
(* _append_event and _rollback.                                            *)
(***************************************************************************)

\* os.write returns before the whole line is written; the loop goes on.
WritePart ==
    /\ status = "write"
    /\ ~file.torn
    /\ file' = [file EXCEPT !.torn = TRUE]
    /\ images' = images \cup {file'}
    /\ UNCHANGED <<entries, cll, status, event, start, snapshot, acked, returned, faults>>

WriteAll ==
    /\ status = "write"
    /\ file' = [lines |-> Append(file.lines, event), torn |-> FALSE]
    /\ images' = images \cup {file', [file EXCEPT !.torn = TRUE]}
    /\ status' = "sync"
    /\ UNCHANGED <<entries, cll, event, start, snapshot, acked, returned, faults>>

\* Mutant: the store is not fsynced before the mutation returns.
ReturnUnsynced ==
    /\ status = "sync"
    /\ acked' = file.lines
    /\ returned' = IF event.type = "entry.append"
                   THEN returned \cup {event.entry.value} ELSE returned
    /\ \/ event.type = "cll.init" /\ Closed
       \/ /\ event.type # "cll.init"
          /\ status' = "open"
          /\ UNCHANGED <<entries, cll>>
    /\ UNCHANGED <<file, images, event, start, snapshot, faults>>

\* os.fsync, and the mutation returns; init closes the store it opened.
Sync ==
    /\ status = "sync"
    /\ images' = {file}
    /\ acked' = file.lines
    /\ returned' = IF event.type = "entry.append"
                   THEN returned \cup {event.entry.value} ELSE returned
    /\ \/ event.type = "cll.init" /\ Closed
       \/ /\ event.type # "cll.init"
          /\ status' = "open"
          /\ UNCHANGED <<entries, cll>>
    /\ UNCHANGED <<file, event, start, snapshot, faults>>

Fault == faults < MaxFaults /\ faults' = faults + 1

\* Engine.restore
Restore ==
    /\ entries' = SubSeq(entries, 1, snapshot.count)
    /\ cll' = snapshot.cll

\* The event is longer than MAX_JOURNAL_EVENT_BYTES: nothing is written.
Oversized ==
    /\ status = "write"
    /\ event.type # "cll.init"
    /\ ~file.torn
    /\ Fault
    /\ Restore
    /\ status' = "open"
    /\ UNCHANGED <<file, images, event, start, snapshot, acked, returned>>

\* os.write or os.fsync raises.
WriteFails ==
    /\ status \in {"write", "sync"}
    /\ Fault
    /\ status' = "rollback"
    /\ UNCHANGED <<entries, cll, file, images, event, start, snapshot, acked, returned>>

\* The first half of _rollback: ftruncate to the offset the event began at.
Truncate ==
    /\ status = "rollback"
    /\ file' = [lines |-> SubSeq(file.lines, 1, start), torn |-> FALSE]
    /\ images' = images \cup {file'}
    /\ status' = "resync"
    /\ UNCHANGED <<entries, cll, event, start, snapshot, acked, returned, faults>>

\* The second half, fsync; the engine is restored and the error raised.
RolledBack ==
    /\ status = "resync"
    /\ images' = {file}
    /\ \/ event.type = "cll.init" /\ Closed
       \/ /\ event.type # "cll.init"
          /\ Restore
          /\ status' = "open"
    /\ UNCHANGED <<file, event, start, snapshot, acked, returned, faults>>

\* Either half fails, or the fsync of a repair: the store is closed.
RollbackFails ==
    /\ status \in {"rollback", "resync", "repair"}
    /\ Fault
    /\ Closed
    /\ UNCHANGED <<file, images, event, start, snapshot, acked, returned>>

\* The process dies; what it wrote stays in the page cache.
ProcessCrash ==
    /\ status # "closed"
    /\ Fault
    /\ Closed
    /\ UNCHANGED <<file, images, event, start, snapshot, acked, returned>>

\* The machine dies; one of the possible images is left.
PowerLoss ==
    /\ Fault
    /\ Closed
    /\ file' \in images
    /\ images' = {file'}
    /\ UNCHANGED <<event, start, snapshot, acked, returned>>

-----------------------------------------------------------------------------
(***************************************************************************)
(* A host that appends, and runners that commit: one more leaf with or     *)
(* without a checkpoint, from rows as they are stored or as they once were *)
(* queued, and outcomes of deliveries.                                     *)
(***************************************************************************)
Queued(rows) == [k \in DOMAIN rows |-> [rows[k] EXCEPT !.attempts = 0, !.receipt = FALSE]]

JournalNext ==
    \/ Provision \/ Repaired \/ Open \/ Close
    \/ \E v \in Value, t \in Time : JournalAppend(v, t)
    \/ \E s \in {cll, [cll EXCEPT !.witnesses = Queued(cll.witnesses)]} :
       \E next \in NextStates(s) :
          JournalCommitCll(Len(cll.nodes), cll.checkpoint, next)
    \/ \E k \in DOMAIN cll.witnesses, got \in BOOLEAN :
          LET row == cll.witnesses[k]
          IN  ~row.receipt /\ JournalCommitWitness(k,
                 [row EXCEPT !.attempts = @ + 1, !.receipt = got], row.attempts)
    \/ WritePart \/ WriteAll \/ Sync
    \/ Oversized \/ WriteFails \/ Truncate \/ RolledBack \/ RollbackFails
    \/ ProcessCrash \/ PowerLoss

JournalSpec == JournalInit /\ [][JournalNext]_jvars

-----------------------------------------------------------------------------
(***************************************************************************)
(* Correctness.                                                            *)
(***************************************************************************)

\* While the store is open and no mutation runs, replaying its journal gives
\* exactly the engine: after appends, commits from stale rows, deliveries,
\* failed and rolled back writes, crashes and repairs.
ReplayMatches ==
    status = "open" =>
        Replay(file.lines) = [ok |-> TRUE, entries |-> entries, cll |-> cll]

\* docs/backend-contract.md: an event is durable once its line is written
\* and fsynced.  Whatever a power loss leaves begins with every line whose
\* mutation returned, and replays without a corrupt line.
AcknowledgedSurvives ==
    \A f \in images \cup {file} :
        Prefix(acked, f.lines) /\ Replay(f.lines).ok

\* AppendResult is "the durable entry": no power loss may lose an entry that
\* append has returned, whether it inserted it or found it.
ReturnedIsDurable ==
    \A v \in returned, f \in images :
        LET stored == Replay(f.lines).entries
        IN  \E i \in DOMAIN stored : stored[i].value = v
=============================================================================
