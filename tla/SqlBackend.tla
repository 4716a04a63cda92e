----------------------------- MODULE SqlBackend -----------------------------
(***************************************************************************)
(* The relational backends (python/log/sql.py, sqlite.py and mysql.py):    *)
(* several handles, in one process or in many, run the operations of       *)
(* cll.log.Backend as transactions on one log of a shared database.        *)
(*                                                                         *)
(* entries and cll are the committed tables: cll.nodes is cll_nodes,       *)
(* cll.witnesses is cll_witnesses, and the rest of cll is the state column *)
(* of cll_meta.  An operation is a sequence of statements, one step each.  *)
(* A consistent read sees the read view of its transaction; an UPDATE and  *)
(* a locking read see the tables as they are.  What a transaction writes   *)
(* becomes visible when it commits.  A single-statement read (get_entry,   *)
(* entry_count, scan_entries, pending_witnesses, get_witness) sees the     *)
(* tables of one moment and has no step of its own.  The database, its     *)
(* locks, its durability and the network are external.                     *)
(***************************************************************************)
EXTENDS CllEngine

CONSTANTS
    Handle,      \* open or closed handles on the log
    Dialects,    \* a subset of {"sqlite", "mysql"}
    Time,        \* bound: the time stamps a host appends with
    MaxFaults    \* bound: dropped connections and crashed processes

ASSUME SqlAssumption ==
    /\ None \notin Handle /\ None \notin Entry
    /\ Dialects \subseteq {"sqlite", "mysql"}
    /\ Time \subseteq Nat
    /\ MaxFaults \in Nat

VARIABLES
    dialect,      \* which of the two backends the handles are
    provisioned,  \* the log has its cll_meta row
    status,       \* status[h] \in {"closed", "open"}
    writer,       \* the handle with SQLite's write lock or the meta row lock
    txn,          \* txn[h]: the operation h executes
    loaded,       \* loaded[h]: the state the caller of h last loaded, or None
    acked,        \* what appends have returned: pairs of seq and value
    faults

sqlVars == <<entries, cll, dialect, provisioned, status, writer, txn, loaded, acked, faults>>

\* A transaction that has read and written nothing.  view holds the tables of
\* its read view, once it has one.
Fresh(op, arg, at, view) ==
    [op |-> op, arg |-> arg, at |-> at, view |-> view, seen |-> None, writes |-> None]

\* Between operations; the lock of the handle admits one operation at a time.
Idle == Fresh("none", None, "idle", {})

SqlInit ==
    /\ StoreInit
    /\ dialect \in Dialects
    /\ provisioned = FALSE
    /\ status = [h \in Handle |-> "closed"]
    /\ writer = None
    /\ txn = [h \in Handle |-> Idle]
    /\ loaded = [h \in Handle |-> None]
    /\ acked = {}
    /\ faults = 0

-----------------------------------------------------------------------------
(***************************************************************************)
(* Handles.                                                                *)
(***************************************************************************)

\* init: tables IF NOT EXISTS, then the metadata row unless there is one.  A
\* failure on the way leaves a log without metadata, as before.
Provision(h) ==
    /\ status[h] = "closed"
    /\ provisioned' = TRUE
    /\ cll' = IF provisioned THEN cll ELSE EmptyState
    /\ UNCHANGED <<entries, dialect, status, writer, txn, loaded, acked, faults>>

\* validate_entries
DenseEntries == \A i \in DOMAIN entries : i \in 1..Cardinality(DOMAIN entries)

\* open: requires the metadata and validates everything, and writes nothing.
OpenHandle(h) ==
    /\ status[h] = "closed"
    /\ provisioned /\ DenseEntries /\ ValidState(cll)
    /\ status' = [status EXCEPT ![h] = "open"]
    /\ UNCHANGED <<entries, cll, dialect, provisioned, writer, txn, loaded, acked, faults>>

CloseHandle(h) ==
    /\ status[h] = "open" /\ txn[h] = Idle
    /\ status' = [status EXCEPT ![h] = "closed"]
    /\ UNCHANGED <<entries, cll, dialect, provisioned, writer, txn, loaded, acked, faults>>

-----------------------------------------------------------------------------
(***************************************************************************)
(* Transactions.                                                           *)
(***************************************************************************)
Tables == [entries |-> entries, cll |-> cll]

\* SqliteStore._transaction: a writer begins with BEGIN IMMEDIATE, which
\* waits for the write lock of the database and takes its view with it (a
\* wait that times out is contention and changes nothing); a reader's view
\* is that of its first statement.
SqliteBegin(h, op, arg) ==
    /\ dialect = "sqlite"
    /\ op # "load" => writer = None
    /\ writer' = IF op = "load" THEN writer ELSE h
    /\ txn' = [txn EXCEPT ![h] =
                 Fresh(op, arg, "read", IF op = "load" THEN {} ELSE {Tables})]

\* MysqlStore._transaction: append and commit_cll lock the metadata row with
\* their first statement, and only a later read takes their view; load_cll
\* takes its view as it begins; commit_witness locks nothing beforehand.
MysqlBegin(h, op, arg) ==
    /\ dialect = "mysql"
    /\ txn' = [txn EXCEPT ![h] =
                 Fresh(op, arg, IF op \in {"append", "commit_cll"} THEN "lock" ELSE "read",
                       IF op = "load" THEN {Tables} ELSE {})]
    /\ UNCHANGED writer

Begin(h, op, arg) ==
    /\ status[h] = "open" /\ txn[h] = Idle
    /\ SqliteBegin(h, op, arg) \/ MysqlBegin(h, op, arg)
    /\ UNCHANGED <<entries, cll, dialect, provisioned, status, loaded, acked, faults>>

\* Mutant: each statement reads the tables as they are (READ COMMITTED).
ReadCommitted(t) == Tables

\* What a consistent read of t sees: its view, or the view it takes now.
ViewOf(t) == IF t.view = {} THEN Tables ELSE CHOOSE v \in t.view : TRUE

\* ROLLBACK, by the error path of _transaction or by the server when the
\* session ends: nothing was written, and the locks are released.
Rollback(h) ==
    /\ txn' = [txn EXCEPT ![h] = Idle]
    /\ writer' = IF writer = h THEN None ELSE writer

Aborts(h) ==
    /\ Rollback(h)
    /\ UNCHANGED <<entries, cll, dialect, provisioned, status, loaded, acked, faults>>

\* The transaction of h goes on: t is what it is now.
Continues(h, t) ==
    /\ txn' = [txn EXCEPT ![h] = t]
    /\ UNCHANGED <<entries, cll, dialect, provisioned, status, writer, loaded, acked, faults>>

-----------------------------------------------------------------------------
(***************************************************************************)
(* load_state, in load_cll and commit_cll.                                 *)
(***************************************************************************)
MetaOf(s) == [size |-> Len(s.nodes), first_pending_at |-> s.first_pending_at,
              checkpoint |-> s.checkpoint]

\* SELECT state FROM cll_meta ... FOR UPDATE: waits for the row, and reads
\* it as it is, without taking a view.
LockMeta(h) ==
    LET t == txn[h]
    IN  /\ t.at = "lock" /\ writer = None
        /\ writer' = h
        /\ txn' = [txn EXCEPT ![h] =
                     IF t.op = "append" THEN [t EXCEPT !.at = "read"]
                     ELSE [t EXCEPT !.at = "nodes", !.seen = [meta |-> MetaOf(cll)]]]
        /\ UNCHANGED <<entries, cll, dialect, provisioned, status, loaded, acked, faults>>

ReadMeta(h) ==
    LET t == txn[h]
    IN  /\ t.at = "read" /\ t.op \in {"load", "commit_cll"}
        /\ Continues(h, [t EXCEPT !.at = "nodes", !.view = {ViewOf(t)},
                                  !.seen = [meta |-> MetaOf(ViewOf(t).cll)]])

ReadNodes(h) ==
    LET t == txn[h]
    IN  /\ t.at = "nodes"
        /\ Continues(h, [t EXCEPT !.at = "rows", !.view = {ViewOf(t)},
                           !.seen = [meta |-> t.seen.meta, nodes |-> ViewOf(t).cll.nodes]])

\* load_witnesses
ReadRows(h) ==
    LET t == txn[h]
    IN  /\ t.at = "rows"
        /\ Continues(h, [t EXCEPT !.at = "apply", !.view = {ViewOf(t)},
                           !.seen = [meta |-> t.seen.meta, nodes |-> t.seen.nodes,
                                     rows |-> ViewOf(t).cll.witnesses]])

\* The state load_state puts together, unless it is CorruptError.
StateOf(seen) ==
    [nodes |-> seen.nodes, first_pending_at |-> seen.meta.first_pending_at,
     checkpoint |-> seen.meta.checkpoint, witnesses |-> seen.rows]

Sound(seen) == seen.meta.size = Len(seen.nodes) /\ ValidState(StateOf(seen))

\* load_cll returns.
ReturnLoad(h) ==
    /\ txn[h].at = "apply" /\ txn[h].op = "load"
    /\ loaded' = [loaded EXCEPT ![h] =
                    IF Sound(txn[h].seen) THEN StateOf(txn[h].seen) ELSE @]
    /\ Rollback(h)
    /\ UNCHANGED <<entries, cll, dialect, provisioned, status, acked, faults>>

-----------------------------------------------------------------------------
(***************************************************************************)
(* The writing operations.                                                 *)
(***************************************************************************)

\* Mutant: the value is neither looked up nor unique.
NoneFound(es, v) == {}

\* _find_entry, and the rows a UNIQUE(log_id, value) key would collide with.
FoundIn(es, v) == {i \in DOMAIN es : es[i].value = v}

\* append: the entry of a known value, or an INSERT at MAX(seq) + 1.
\* A duplicate key is contention.
Append1(h) ==
    LET t == txn[h]
        es == ViewOf(t).entries
        found == FoundIn(es, t.arg.value)
        seq == Len(es) + 1
        writes == IF found = {} THEN [seq |-> seq, entry |-> t.arg]
                  ELSE [seq |-> CHOOSE i \in found : TRUE, entry |-> None]
    IN  /\ t.at = "read" /\ t.op = "append"
        /\ IF found = {} /\ (\/ seq > MaxSeq
                             \/ seq \in DOMAIN entries
                             \/ FoundIn(entries, t.arg.value) # {})
           THEN Aborts(h)
           ELSE Continues(h, [t EXCEPT !.at = "commit", !.view = {ViewOf(t)},
                                       !.writes = writes])

\* Mutant: every row of the merged state is written.
WritesAllRows(current, next) ==
    LET updated == ApplyCll(current, next)
    IN  [meta |-> MetaOf(updated),
         nodes |-> SubSeq(updated.nodes, Len(current.nodes) + 1, Len(updated.nodes)),
         rows |-> updated.witnesses]

\* What commit_cll writes: the metadata, the nodes and the witness rows that
\* are new.
WritesOf(current, next) ==
    LET updated == ApplyCll(current, next)
    IN  [meta |-> MetaOf(updated),
         nodes |-> SubSeq(updated.nodes, Len(current.nodes) + 1, Len(updated.nodes)),
         rows |-> [k \in DOMAIN updated.witnesses \ DOMAIN current.witnesses |->
                     updated.witnesses[k]]]

\* commit_cll, after load_state: the engine's rules on what was read, and a
\* duplicate key is contention.
CommitCll1(h) ==
    LET t == txn[h]
        current == StateOf(t.seen)
        writes == WritesOf(current, t.arg.next)
    IN  /\ t.at = "apply" /\ t.op = "commit_cll"
        /\ IF \/ ~Sound(t.seen)
              \/ CommitCllError(current, t.arg.size, t.arg.checkpoint, t.arg.next) # "none"
              \/ Len(current.nodes) # Len(cll.nodes)
           THEN Aborts(h)
           ELSE Continues(h, [t EXCEPT !.at = "commit", !.writes = writes])

\* commit_witness, its read: the engine's rules on the row of the view.
ReadWitness(h) ==
    LET t == txn[h]
        error == CommitWitnessError(ViewOf(t).cll.witnesses, t.arg.key,
                                    t.arg.attempts, t.arg.next)
    IN  /\ t.at = "read" /\ t.op = "commit_witness"
        /\ IF error # "none" THEN Aborts(h)
           ELSE Continues(h, [t EXCEPT !.at = "update", !.view = {ViewOf(t)}])

\* The row is locked by another transaction that has updated it.
RowLocked(h) ==
    \E g \in Handle \ {h} :
        /\ txn[g].op = "commit_witness" /\ txn[g].at = "commit"
        /\ txn[g].arg.key = txn[h].arg.key

\* The row count of the UPDATE: whether its attempts predicate matches the
\* row as it is.
Matched(t) == cll.witnesses[t.arg.key].attempts = t.arg.attempts

\* commit_witness, its UPDATE, once the row is not locked.
UpdateWitness(h) ==
    LET t == txn[h]
    IN  /\ t.at = "update" /\ ~RowLocked(h)
        /\ IF Matched(t)
           THEN Continues(h, [t EXCEPT !.at = "commit",
                                       !.writes = [key |-> t.arg.key, row |-> t.arg.next]])
           ELSE Aborts(h)

\* A wait for a lock that times out is contention.
LockTimeout(h) ==
    /\ \/ txn[h].at = "lock" /\ writer # None
       \/ txn[h].at = "update" /\ RowLocked(h)
    /\ Aborts(h)

-----------------------------------------------------------------------------
(***************************************************************************)
(* COMMIT, and what may go wrong.                                          *)
(***************************************************************************)

\* The writes of t reach the tables.
Visible(t) ==
    /\ entries' = IF t.op = "append" /\ t.writes.entry # None
                  THEN [i \in DOMAIN entries \cup {t.writes.seq} |->
                          IF i = t.writes.seq THEN t.writes.entry ELSE entries[i]]
                  ELSE entries
    /\ cll' = CASE t.op = "commit_cll" ->
                     [nodes |-> cll.nodes \o t.writes.nodes,
                      first_pending_at |-> t.writes.meta.first_pending_at,
                      checkpoint |-> t.writes.meta.checkpoint,
                      witnesses |-> [k \in DOMAIN cll.witnesses \cup DOMAIN t.writes.rows |->
                                       IF k \in DOMAIN t.writes.rows
                                       THEN t.writes.rows[k] ELSE cll.witnesses[k]]]
                [] t.op = "commit_witness" ->
                     [cll EXCEPT !.witnesses[t.writes.key] = t.writes.row]
                [] OTHER -> cll

\* COMMIT, and the operation returns to its caller.
Commit(h) ==
    /\ txn[h].at = "commit"
    /\ Visible(txn[h])
    /\ Rollback(h)
    /\ acked' = IF txn[h].op = "append"
                THEN acked \cup {<<txn[h].writes.seq, txn[h].arg.value>>} ELSE acked
    /\ UNCHANGED <<dialect, provisioned, status, loaded, faults>>

\* The session ends inside a transaction: the server rolls back, or has
\* already executed the COMMIT whose answer is lost.
SessionEnds(h) ==
    /\ faults < MaxFaults
    /\ faults' = faults + 1
    /\ txn[h] # Idle
    /\ \/ UNCHANGED storeVars
       \/ txn[h].at = "commit" /\ Visible(txn[h])
    /\ Rollback(h)

\* MySQL: a dropped connection fails the operation; the next one reconnects.
Dropped(h) ==
    /\ dialect = "mysql"
    /\ SessionEnds(h)
    /\ UNCHANGED <<dialect, provisioned, status, loaded, acked>>

Crashed(h) ==
    /\ SessionEnds(h)
    /\ status' = [status EXCEPT ![h] = "closed"]
    /\ loaded' = [loaded EXCEPT ![h] = None]
    /\ UNCHANGED <<dialect, provisioned, acked>>

-----------------------------------------------------------------------------
(***************************************************************************)
(* Callers: a host appends; runners commit from what they last loaded,     *)
(* however old; deliveries commit the outcome of an attempt.               *)
(***************************************************************************)
CallAppend(h) ==
    \E v \in Value, at \in Time : Begin(h, "append", [value |-> v, appended_at |-> at])

CallLoad(h) == Begin(h, "load", None)

CallCommitCll(h) ==
    /\ loaded[h] # None
    /\ \E next \in NextStates(loaded[h]) :
          Begin(h, "commit_cll", [size |-> Len(loaded[h].nodes),
                                  checkpoint |-> loaded[h].checkpoint, next |-> next])

CallCommitWitness(h) ==
    /\ loaded[h] # None
    /\ \E k \in DOMAIN loaded[h].witnesses, got \in BOOLEAN :
          LET row == loaded[h].witnesses[k]
          IN  /\ ~row.receipt
              /\ Begin(h, "commit_witness",
                       [key |-> k, attempts |-> row.attempts,
                        next |-> [row EXCEPT !.attempts = @ + 1, !.receipt = got]])

SqlNext ==
    \E h \in Handle :
        \/ Provision(h) \/ OpenHandle(h) \/ CloseHandle(h)
        \/ CallAppend(h) \/ CallLoad(h) \/ CallCommitCll(h) \/ CallCommitWitness(h)
        \/ LockMeta(h) \/ ReadMeta(h) \/ ReadNodes(h) \/ ReadRows(h) \/ ReturnLoad(h)
        \/ Append1(h) \/ CommitCll1(h) \/ ReadWitness(h) \/ UpdateWitness(h)
        \/ LockTimeout(h) \/ Commit(h) \/ Dropped(h) \/ Crashed(h)

SqlSpec == SqlInit /\ [][SqlNext]_sqlVars

-----------------------------------------------------------------------------
(***************************************************************************)
(* Correctness.                                                            *)
(***************************************************************************)

\* The engine's operation with the arguments of t, on the tables as they are.
EngineOperation(t) ==
    \/ t.op = "append" /\ AppendEntry(t.arg.value, t.arg.appended_at)
    \/ /\ t.op = "commit_cll"
       /\ CommitCllError(cll, t.arg.size, t.arg.checkpoint, t.arg.next) = "none"
       /\ cll' = ApplyCll(cll, t.arg.next)
       /\ UNCHANGED entries
    \/ /\ t.op = "commit_witness"
       /\ CommitWitnessError(cll.witnesses, t.arg.key, t.arg.attempts, t.arg.next) = "none"
       /\ CommitWitness(t.arg.key, t.arg.next)

\* Every change of the tables is the engine's operation that some handle was
\* called with, applied to the tables as they are at that moment: whatever a
\* transaction read before, at any interleaving with others, and with lost
\* connections, commit_cll undoes no delivery that commits meanwhile and two
\* outcomes of one attempt are never both stored (sql.py commit_cll,
\* commit_witness).
CommitsAsEngine ==
    [][\E h \in Handle : EngineOperation(txn[h])]_storeVars

\* load_state never puts together tables of two moments, in load_cll or
\* under commit_cll's lock: the nodes are those of the metadata, every row
\* belongs to the chain up to its checkpoint, and so no reader of a healthy
\* database reports CorruptError.
LoadedTogether ==
    \A h \in Handle :
        txn[h].at = "apply" =>
            /\ Sound(txn[h].seen)
            /\ \A k \in DOMAIN txn[h].seen.rows :
                  k[2] <= txn[h].seen.meta.checkpoint.size

\* get_entry, entry_count and scan_entries, one statement each: the sequence a
\* value is found at, the highest one, and a page of values.
GetEntry(v) == FoundIn(entries, v)
EntryCount == Len(entries)
SelectPage(after, limit) ==
    LET last == IF after + limit < EntryCount THEN after + limit ELSE EntryCount
    IN  [k \in 1..(last - after) |-> entries[after + k].value]

\* What append returned stays: the value is found at its sequence alone, in the
\* index and in the page there, also when the caller repeats an append whose
\* answer was lost; and no value has two sequences, so that entry_count is how
\* many there are.
AppendsOnce ==
    /\ \A a \in acked : GetEntry(a[2]) = {a[1]} /\ SelectPage(a[1] - 1, 1) = <<a[2]>>
    /\ EntryCount = Cardinality({entries[i].value : i \in DOMAIN entries})

=============================================================================
