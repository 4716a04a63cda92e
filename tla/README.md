# The checkpointed local log: a verification project

TLA+ models, TLC runs and TLAPS proofs for the Python implementation of the
checkpointed local log (CLL), `src/python`. The Go, TypeScript and Rust ports are
held to the same conformance vectors; they are not modelled separately.

## 1. The system

A host application appends 32-byte entries to a durable **backend**. **Checkpoint
runners** read the entries in order, add them to a Merkle mountain range (MMR) and,
by count or by age, sign a **checkpoint** over it that names the one before.
Each checkpoint is queued for every configured **witness**; **delivery runners**
send the queue to the witnesses and store their receipts. A second, older half of
the package, the **ledger**, keeps whole records in JSONL segments with SQLite
indexes beside them, rotates segments on checkpoints, and can serve its records to
the runner as entries.

| part | source | state | operations | hard behaviour | what makes it correct |
|---|---|---|---|---|---|
| backend engine | `log/engine.py` | entries, CLL state (nodes, first_pending_at, checkpoint, witness rows) | append, scan_entries, load_cll, commit_cll, pending_witnesses_for, get_witness, commit_witness | compare-and-set against stale callers; merging rows a caller loaded long ago | append-only; one winner per race; no row lost |
| checkpoint runner | `checkpoint/runner.py` | wake event, loaded state of the current pass | run, run_once, notify | several runners on one log; contention; crash between store calls; foreign keys | one linked chain over prefixes of the log; exact cadence; every entry gets covered |
| witness delivery | `checkpoint/witness.py` | the rows of the current pass, one thread per witness | run_once, run, notify | lost, late and repeated requests; racing deliverers; crash after submit | ordered, gapless, never lost receipts; every row gets one |
| external witness | service behind `HttpWitnessClient` | last accepted checkpoint | POST /checkpoints | refusals, repeats | – |
| memory backend | `log/memory.py` | an engine and a lock | the engine's | – | each call is atomic |
| JSONL backend | `log/jsonl.py` | engine, journal file | open, init, append, commit | short writes, failed fsync, failed rollback, torn tail, replay | replay gives back what was acknowledged |
| SQL backends | `log/sql.py`, `sqlite.py`, `mysql.py` | four tables, one transaction per handle | the engine's, in transactions | read views and row locks, lock timeouts, connections lost in COMMIT | every change is an engine operation on the tables as they are |
| MMR core | `checkpoint/core.py` | – (pure) | add_leaf, peaks, proofs and their verification | positions and sizes at powers of two | proofs verify exactly for the committed leaves |
| MMR index | `checkpoint/index.py`, `store.py` | node store, digests | sync, root_at, proofs | behind the ledger | index equals the records |
| checkpoint emission | `checkpoint/emit.py`, `ledger/checkpoint.py` | the newest stored checkpoint, files or log entries, stamps | emit, register, save, load latest | several producers, torn files, restored backups, lost answers | stored checkpoints describe one history |
| statements and bundles | `checkpoint/cose_wire.py`, `bundle.py` | – (pure) | encode, bundle, verify | peaks of a later moment, stamps out of order, parts of different bundles | verifies exactly for what is true |
| ledger store | `ledger/store.py`, `segments.py`, `lookup.py` | segments, two SQLite indexes, manifest | append, recover, reindex, rotate, mount, unmount, look-ups | crash between file and indexes; failed manifest save; archived segments | indexes agree with the segments; seqs are stable |
| admission | `ledger/admission.py` | – (pure) | resolve_admission | the state is recorded in one index and derived from the line elsewhere | read as admitted |
| ledger as a source | `log/ledger.py` | – | scan_entries, get_entry, append | lookup index behind or off | dense pages of the log |
| revocation | `revocation.py` | – (pure) | build_key_timeline, check_time_fenced_revocation | time fences | – |
| wire formats, crypto, CLI | `log/wire.py`, `cbor.py`, `ed25519.py`, `signing.py`, `cli.py` | – | encode, decode, verify | byte parsing | conformance vectors |

The runners meet in one place, the backend: runners and deliverers never talk to each
other. A pass is a *sequence* of store calls (`load_cll`, `scan_entries`,
`commit_cll`; `pending_witnesses_for`, `get_witness`, `commit_witness`), and
everything that can go wrong happens between two of them: another runner commits, a
deliverer stores a receipt, the host appends, the clock moves, the process dies, an
answer is late. Checkpoint emission is the same work done by hand, without a backend: its
producers meet in the log or the directory that holds their checkpoints. `PROJECT.json` lists these hazards at their lines.

## 2. The modules

| module | what it models |
|---|---|
| `CllEngine` | the engine: values, `AppendEntry`, `ScanEntries`, the error and the result of `commit_cll` (`CommitCllError`, `ApplyCll`), `PendingFor`, the error and the effect of `commit_witness`. Variables `entries`, `cll`. |
| `CllHost` | the wall clock the runners read (bounded by `MaxTime`). |
| `CheckpointRunner` | any number of checkpoint runners over one engine. One action per stretch of code between two store calls: `Begin` (clear the event, read the clock), `Load` (`_load` with `_verify_checkpoint`), `Scan` (`_advance` up to its commit), `CommitOk`/`CommitFails` (`commit_cll` and what `_advance`, `_catch_up` and `run` do with its outcome), `Woken`/`Poll` (the wait), `Notify`, `Crash`. `chain` is a history variable: the checkpoints committed, in order. |
| `CheckpointChain` | the abstract specification: a log that grows, an index that follows it, a chain of linked checkpoints. `CheckpointRunner!ImplementsChain` is the refinement. |
| `WitnessDelivery` | delivery runners, the network and the external witness. A thread per (courier, witness): `BeginDelivery` (take the due rows), `Deliver` (`_deliver` up to `submit`), `WitnessHandles`, `RetryableFailure`, `SpuriousRefusal`, `Record` (`_deliver`'s or `_fail`'s `commit_witness`), `CrashDelivery`, and the operator's procedure of `docs/backend-contract.md`. |
| `JsonlJournal` | the JSONL backend below the engine: `Provision` (`init`) and `Repaired`, `Open`, `Close`, the three mutations up to their first write, then `WritePart`, `WriteAll`, `Sync` (`_append_event`), `Oversized`, `WriteFails`, `Truncate`, `RolledBack`, `RollbackFails` (`_rollback`), `ProcessCrash`, `PowerLoss`. `file` is what a read returns, `images` what a power loss may leave; `acked` and `returned` are history. |
| `SqlBackend` | handles of the SQLite and MySQL backends: `Provision`, `OpenHandle`, `CloseHandle`; each operation from `Begin` over `LockMeta`, `ReadMeta`, `ReadNodes`, `ReadRows` (`load_state`), `Append1`, `CommitCll1`, `ReadWitness`, `UpdateWitness` to `Commit`; `LockTimeout`, `Dropped`, `Crashed`. `txn[h].view` is the read view of a transaction, `writer` holds SQLite's write lock or MySQL's lock on the metadata row. |
| `LedgerStore` | the managed ledger store: `Open`/`CreateSave` (`__init__`); `AppendLine`, `InsertRecord`, `AppendLookup` and their failures (`append`), with `Admitted` and `Stored` for admission; `Rotate`, `RotateRaises`, `Save`, `SaveFails` (`_rotate_segment`); `RecoverStart`, `CatchUpLookup`, `RecoverLine`, `RecoverLookup`, `RecoverEnd` (`recover`); `Reindex`, `RebuildLookup`, `Unmount`, `Mount`; `Stop` and `PowerLoss` at any step. `Scan`, `Fetch`, `ByDigest`, `BySeqRange` and `VerifySegmentStandalone` are the reads, `ScanEntries`, `ScanSource`, `GetEntry` and `AppendEntry` the two adapters of `log/ledger.py`. `acked`, `moveCut`, `manifestLost` and `passedOver` are history. |
| `CheckpointStatements` | what a checkpoint says and what can be checked of it offline: `EmitCheckpoint` and when it raises (`Emittable`), stamps and their verdicts, the COSE statement (`StatementOf`, `Decoded`, `StatementVerifies`), bundles (`BundleOf`, `BundleIntact`, `StampsAcceptable`). Operators only. |
| `CheckpointEmission` | producers that checkpoint one log by hand: `Load`, `Emit`, `Encode`, `Register`, `RegisterDigest`, `RegisterStub`, then `PersistStamp` (an entry of the log) or `SaveBegin`/`SaveEnd` (a file written in place), `Finish`; `CrashProducer`, `RestoreLog` (an older backup of the log), `RemoveTorn` (an operator). `emitted` is history. |
| `MmrCore` | the MMR's arithmetic of positions (`HeightAt`, `NodeCount`, `Peaks`, `LeafCount`), `AddLeaf`, and the three kinds of proof with their verifiers. Operators only; hashes are terms. |
| `MmrLog` | `MmrLedger` over a log with other writers: `LogAppend`, `MmrAppend`, `Sync`, `Reopen`, and the reference forest the properties compare with. |
| `CllService` | both kinds of runner on one store. |
| `CheckpointRunnerProofs`, `WitnessDeliveryProofs`, `CllServiceProofs`, `SqlBackendProofs`, `JsonlJournalProofs`, `LedgerStoreProofs` | the theorems about the module each is named after (section 5). |
| `LedgerReadProofs` | the second half for `LedgerStore`: closed segments, the bound, the lookup index, authenticity and the adapters. |
| `NatRecursion` | induction and definition by recursion on the naturals, in the form the proofs about `Backoff`, `Replay` and the ledger's `Leaves` use. |
| `MCRunner`, `MCDelivery`, `MCService`, `MCJournal`, `MCSql`, `MCLedger`, `MCEmission`, `MCMmr` | the constants and symmetry sets of the TLC runs. |

Definitions whose comment begins with "Mutant:" are plausible bugs used to show that
each property can fail; no specification uses them.

### What is abstracted

* An entry value is an element of `Value`; its seq is its position.
* In the runner, delivery, journal and ledger modules the MMR node array is represented by the leaves it was built from and sizes are
  counted in leaves. The array is a one-to-one function of the leaves (what `NodesAreForest` of the run `mmr` checks), `add_leaf` only
  appends to it, so prefix, equality and order of sizes carry over. A root is the
  sequence of leaves it commits to (no hash collisions).
* A signed statement is the record it encodes. Ed25519 signing is deterministic, so
  equal records are equal bytes, which is what `commit_cll` compares.
* `None` for "no checkpoint" is the record `NoCheckpoint` of size 0, because the code
  uses `0` and `""` for `prev_size` and `prev_root` in exactly that case.
* Times are naturals. A pass uses one time for all its work, as the code does.
* Argument checks of widths, identifiers and formats are left out: they reject a call
  before it touches the state.
* The witness is external: it accepts what continues the last checkpoint it accepted,
  and answers a repeat with the same receipt or refuses it (`Idempotent`). Late
  requests, lost answers, refusals for other reasons and receipts that do not verify for
  the submitted checkpoint are steps of the model.
* A journal line is the event it encodes. Writes go to the end of one file, so what a
  power loss leaves is taken to be a content the file has had since its last successful
  fsync, or one with the line then being written incomplete: later bytes do not reach
  the disk without earlier ones.
* In the SQL backends a transaction's statements are steps, and what it writes becomes
  visible when it commits. The read views and locks are those the code asks for: SQLite's
  BEGIN IMMEDIATE, InnoDB's REPEATABLE READ with `FOR UPDATE` on the metadata row. An
  INSERT of a value that is stored since, or of a node or row another transaction has
  inserted, fails on its key. Reads that are one statement have no step of their own.
* In the ledger a line is the capsule id of its record and whether the envelope it carries
  verifies, a byte offset the number of the
  line, a segment its number, an MMR its leaves. SQLite commits and manifest
  replacements are durable when they return; a power loss takes unsynced lines from the
  end of a segment. One lock makes each method exclusive, so the interleavings are those
  of a call with failures, process ends and restarts. The host calls `recover()` after
  every open and whenever `append` asks for it, as the docstrings of both require;
  `RebuildLookup` may come before it, as `cll index rebuild` does. If the saves of a
  rotation and of a later `unmount_segment` both fail, a restart finds the file of its active
  segment archived; the empty file that the next append creates in its place is not followed.
* In checkpoint emission a signature is the key and what it covers, a receipt the
  service's signature over the digest of a checkpoint (the entry hash, a hash of that
  digest, is represented by it). The order of a producer's calls is its caller's; the model
  takes the one the docstrings show. A record is found by its whole id. Producers read an
  MMR built from the whole log, as `bundle` does. There is one `log_id`: `Emittable` and
  `CheckpointConsistent` compare it as `checkpoint/emit.py` does, `ledger/checkpoint.py` does
  not, and with one log both are the same.
* The witness rows of a CLL state are a function of witness and size, so the check for
  duplicate keys in a loaded list is implicit. `BeginDelivery` takes the due rows of all
  witnesses in one step, where the code asks once per witness: nothing a delivery does for
  one witness depends on the rows of another.
* In `MmrCore` a hash is the term it was computed from, so there are no collisions; the
  bytes hashed for leaves, interior nodes and bagged peaks have different lengths, so
  terms of different kinds differ as well. `MAX_MMR_SIZE` (2^50) is out of reach. The
  proof constructors are called within the ranges they accept; a verifier that catches an
  exception and one that returns `False` are the same here.

## 3. The runs

| run | instance | what it shows |
|---|---|---|
| `runner_safety` | 2 runners, 1 key, 3 entries, cadence 3 or age 1, scan limit 2, 1 crash | `TypeOK`, `ChainSound`, `IndexFollowsLog`, `FirstPendingExact`, `BacklogBounded`, `RowsMatchChain`, `AppendOnly`, and that the whole implements `CheckpointChain` |
| `runner_liveness` | a notified runner and one driven by `run_once`, with different keys, 2 entries, 1 crash, fairness | `OneSigner`, `OnlyForeignKeyFails`, `EveryEntryCheckpointed`, `NotifyIndexes` |
| `delivery_safety` | 2 deliverers, 1 witness that refuses repeats, 3 checkpoints, one of them stored damaged, jitter, 1 fault, 1 refusal, 1 clearing, 2 attempts at most | `ReceiptSound`, `ReceiptsGapless`, `ReceiptsKept`, `PermanentUntilCleared` |
| `service` | 1 runner and 1 deliverer, a witness that answers repeats, 2 crashes, 2 faults, 1 refusal, 1 clearing, fairness | `WitnessFollowsChain`, `ReceiptsKept` (also against `commit_cll` with rows loaded earlier), `EveryEntryWitnessed` |
| `journal_crash` | 2 entries, 1 witness, 6 lines, 3 faults | `ReplayMatches`, `AcknowledgedSurvives` |
| `journal_idempotent` | the same | `ReturnedIsDurable` fails (see below) |
| `sql` | 2 handles of either dialect, 2 entries, 1 witness, 1 lost connection or crash | `LoadedTogether`, `AppendsOnce`, `CommitsAsEngine` |
| `ledger` | 4 records, segments of 2, signed or not; 2 process ends, 1 power loss, 1 failing write, 1 failing manifest save and 1 rebuild, or 3 moves of a segment with 1 process end, 1 failing write, 1 failing save and 1 rebuild, or 2 moves with 1 process end, 1 power loss, 1 failing write and 2 failing saves | `SeqsStable`, `ReadsExplained`, `DigestFound`, `EntriesServed`, `AuthenticityKept`, `SegmentsVerify`, `BoundedUntilArchival` |
| `ledger_authenticity` | declared-unsigned capsules that carry an envelope | `AuthenticityKept` fails (see below) |
| `ledger_full` | 4 records, 1 move | `SegmentBounded` fails (see below) |
| `emission` | 2 producers, 2 record ids, 1 service, logs of up to 3 entries and the stamps, 3 checkpoints; 1 fault or 2 overlaps for checkpoints in the log, 2 of either for files | `OneHistory`, `BundlesHold`, `BundlesSound`, `StatementsExact` |
| `mmr` | every log of up to 8 records over 2 digests | `NodesAreForest`, `SizesExact`, `InclusionExact`, `ConsistencyExact`, `RangeExact` |

### Findings

`journal_idempotent` is expected to fail. `AppendResult` is documented as "the durable
entry", inserted or found. A writer killed between `os.write` and `os.fsync` leaves a
complete line in the page cache; `open` replays it without an fsync, and a repeated
`append` of that value finds it and writes nothing. A power loss before the kernel
writes the page back then loses an entry that `append` has returned. The next inserted
event closes the window, since its fsync covers the whole file.

`ledger_full` is expected to fail too. `docs/module-map.md` says that crossing
`max_segment_bytes` forces a checkpoint and closes the segment. After one
`unmount_segment`, `MmrCheckpointer` can make no checkpoint, because `sync` scans every
record and the scan raises `SegmentUnmounted`: no segment is ever closed again, and every
append past the threshold raises although it stored its record.

`ledger_authenticity` is the third. The recorded state of an entry is documented as
explicit and never derived, and the derivation of `_reindex_authenticity` as lossless. A
capsule that carries an envelope of its own and is submitted as declared-unsigned is
recorded as unsigned; `by_digest` derives the state from the line and answers signed, and
after `reindex`, or a recovery that indexes the line, every read does. The `ledger` run
leaves this submission out and shows that all others are read back as they were admitted.

### Named exceptions

Some traces break what the properties would say without their exceptions. Each exception is
named, so that the properties can be checked in the same runs. The first three are history
variables of `LedgerStore`, set by `Remember` from the state in which the thing happens:

* `manifestLost`, in `SeqsStable`, `DigestFound`, `EntriesServed`, `AuthenticityKept`,
  `SegmentsVerify` and `BoundedUntilArchival`, and together with a power loss in
  `ReadsExplained`. It is set when the process ends (`Stop` or `PowerLoss`) while a segment
  that `manifest.json` does not list has a line. A rotation whose manifest save raises goes on
  in memory with such a segment; a save that succeeds before the process ends mends it, and
  then nothing is excepted. Records appended there are
  durable and indexed, but after a restart `reindex` reads only the listed segments and drops
  them, and the reopened old segment is closed with records of both. The bound fails
  differently: if a power loss takes an unsynced line of the unlisted segment, its row stays,
  no recovery looks at that segment, every later `sync` of the checkpointer stops at the row,
  and the reopened segment is never closed again; a read of that row is the exception of
  `ReadsExplained`.
* `moveCut`, the segments whose file is elsewhere than `manifest.json` says when the process
  ends: the window between the rename and the manifest save of `unmount_segment` or
  `mount_segment`, and a save that failed there and was not made up for. A restart after a saved move is
  not excepted. Such a segment is
  marked mounted and has no file (or the reverse): reads of it raise `FileNotFoundError`, `mount_segment` returns
  without moving it back, and `verify_segment_standalone` misses the file. `ReadsExplained`
  excepts the records of these segments and no others, `SegmentsVerify` asks of them that the
  lines verify, `DigestFound` and `EntriesServed`, which scan everything, want no such segment.
* `passedOver`, in `DigestFound` and `EntriesServed`: the rows of unmounted segments that the
  last `_catch_up_lookup` did not write. A failed lookup write turns the lookup index off for
  the process, which goes on appending, closes the segment and archives it; at the next open
  the index is on again, `recover` passes over the rows of the archived segment, and
  `by_digest` answers `None` for its records, although `docs/module-map.md` and the docstring
  of `unmount_segment` promise `SegmentUnmounted`. A page of `scan_entries` that lies wholly in
  such records is empty, as at the end of the log. The exception ends when the rows are
  written, by a rebuild or by a catch-up with the segment mounted.
* A power loss may take lines that `reindex` then drops from the records index without
  touching the lookup index; `DigestFound` and `EntriesServed` are about behaviours without
  one.
* `StubOnly`, in `BundlesHold`: a stub's stamp is invalid, and a bundle whose checkpoint has
  no other stamp under a key the verifier trusts is refused, although the record and the log
  are sound.
* `Ambiguous`, in `BundlesHold`: two producers that checkpoint the same size from different
  predecessors leave two stamps of that size. `bundle` takes the record of the first and the
  wire form of the last (`checkpoint_cose_by_size`), which then do not match.

Two observations that no run is about. `verify_checkpoint_consistency` compares
`current.prev_root` with the live nodes and never with the root of `prev` itself; within
`StatementsExact` both are the same, since the claim copies it. The docstring of
`build_key_timeline` says the earliest rotation that touches a key sets its `activated_at`;
the code lets each later rotation to the key overwrite it.

### Bounds and why they are enough

Three entries with a scan limit of two and a cadence of three make a pass need two
batches before its checkpoint is due, let the age rule fire first, last or never, and
leave room for two checkpoints and so for a predecessor. Two runners suffice for
every race of load, scan and commit, since contention is always between one stale
caller and the store; the theorems remove this bound. One crash is enough because a
runner keeps nothing across passes. `MaxTime` 2 lets `cadence_age` pass and a retry
come due. One fault, one refusal and one clearing hit every place of a delivery, since
faults at different rows are independent except through the store.
Three faults let a failed write be followed by a failed rollback and a power loss, or a
crash by a reopening and a power loss; six lines hold the init line, two entries, a
commit with its row, its delivery and one more commit.
Four ledger records with segments of two make two closed segments or one and a half;
two process ends let one interrupt an append or a rotation and the other the
recovery. Two SQL handles suffice for every pair of overlapping transactions, and one lost
connection for every place in one of them; one entry already makes a commit with a row to
deliver, the second a commit over it. Three emitted checkpoints make a checkpoint, its
successor and a rival of either; a fault of the emission run is a crash, a lost answer, a
restored backup or a missing wire form, an overlap the start of a producer while the other is
busy. Two overlaps let two stamps of one size continue different checkpoints (`Ambiguous`); a
stub's stamp beside the one of the service exercises the any-of rule of a bundle's stamps. Eight MMR leaves make every tree up to height three and every carry up to
three merges, with one to three peaks; two digests make equal and different subtrees.
Appended time stamps stop `CadenceAge` before `MaxTime`, so that the age rule can
still fire: a bound of the model, not of the code. `Value` and `Runner` are symmetric
in the safety runs only.

### Fairness

Each disjunct is weak fairness of something the code or its host keeps doing: a pass
that has begun goes on (threads are scheduled, `submit` has a timeout), the poll
interval elapses (`Event.wait` has a timeout), time passes, a request in flight
reaches a witness that is up. `EveryEntryWitnessed` also
assumes that the operator clears a permanent row sooner or later, the procedure the backend
contract prescribes; without it such a row holds its witness for ever, which is what
`PermanentUntilCleared` says. `LiveSpec` leaves out the poll interval and the
clock on purpose, so that `NotifyIndexes` rests on the wake event alone;
`EveryEntryCheckpointed` assumes them by its premise `Polled`. `FairServiceSpec` has all.
Crashes, faults and refusals are never fair and are bounded in number: unboundedly
many would starve any retry loop.

## 4. Reading the properties

`ChainSound` and `IndexFollowsLog` are about the race between `load_cll` and
`commit_cll`; `FirstPendingExact` and `BacklogBounded` about the cadence across batches,
restarts and runners; `RowsMatchChain` about the queue when a commit loses;
`OneSigner` about two keys starting on an empty log, where there is no checkpoint yet
to compare a key with; `ReceiptsKept` about stale rows in `commit_cll` and late
outcomes in `commit_witness`; `ReceiptSound` about answers that are late, repeated or not of this
checkpoint; `ReceiptsGapless` about order at one
witness; `WitnessFollowsChain` about a checkpoint that is sent before it is final.
`ReplayMatches` is about the engine and the journal taking two different paths to one
state: `commit_cll` merges a whole next state, the journal a delta against a snapshot,
and a failed write takes both back. `AcknowledgedSurvives` covers every content a power
loss may leave, also between the two halves of a rollback or a repair.
`CommitsAsEngine` is the refinement of the engine by the SQL backends: whatever a
transaction read, each change of the tables is an engine operation on the tables as they
are when it commits. `LoadedTogether` is about three SELECTs with commits between them,
`AppendsOnce` about an append that is repeated because its answer was lost.
`ReadsExplained`, `SeqsStable`, `DigestFound` and `EntriesServed` relate the ledger's three
stores, each written by its own step: whatever a crash leaves, `recover`, `reindex` and
`rebuild_lookup_index` must agree with each other, with the seqs that appends returned and
with the pages a checkpoint runner reads through the adapter. `AuthenticityKept` follows one
bit through admission, both indexes, recovery and rebuilds.
`OneHistory` is about producers with nothing but the newest stored checkpoint to go by.
`BundlesHold` and `BundlesSound` are the two directions for bundles: honest ones verify, and
what verifies is true, also when a part is taken from another bundle. `StatementsExact` takes
any two emitted checkpoints, also of different histories (the log was restored and grew
differently), and lets the larger claim to continue the smaller. If its log does extend it,
the signer's proof must convince `verify_checkpoint_cose_offline`; if not, no proof may: not the
signer's, not one made on the older log with the newer leaves grafted on, and not one with
old peaks, paths and new peaks taken from the one or the other. The code's reason is that
`prev_root` comes from the statement's own `prev_commitment` and not from the old peaks of the
proof; the mutant takes it from the proof. `ConsistencyExact` asks the same of the proof alone.
`SegmentsVerify` relates a segment sealed at one moment to the seqs and the checkpoint of
that moment after everything that follows.
`NodesAreForest` compares `add_leaf` with a definition that knows no carries;
`InclusionExact`, `ConsistencyExact` and `RangeExact` quantify over claims as well as
proofs: a proof is offered for other leaves and sizes, for logs with a record replaced,
with digests replaced or missing, and with a witness too many or too few. The root and the
size of a claim come from one checkpoint, which signs both.

## 5. The proofs

Every theorem is for every set of runners, deliverers, handles, values, keys and
witnesses and every value of the bounds, and rests on the named assumptions on the
constants only, which TLC evaluates in every run: `EngineAssumption`, `ClockAssumption`,
`RunnerAssumption`, `DeliveryAssumption`, `SqlAssumption`, `JournalAssumption`,
`LedgerAssumption`. `AuthenticityIsKept` alone has one more hypothesis, `EnvelopesHeeded`
(below). Each inductive invariant was also checked with TLC on the instance of the
corresponding run, those of the ledger with their unbounded quantifiers over the beginnings
of the segments and over records replaced by bounded ones.

| theorem | statement | module |
|---|---|---|
| `TypeCorrect` | `Spec => []TypeOK` | `CheckpointRunnerProofs` |
| `ChainIsSound` | `Spec => []ChainSound` | |
| `IndexIsSound` | `Spec => []IndexFollowsLog` | |
| `PendingIsExact` | `Spec => []FirstPendingExact` | |
| `BacklogIsBounded` | `Spec => []BacklogBounded` | |
| `StoreIsAppendOnly` | `Spec => AppendOnly` | |
| `RowsAreOfChain` | `Spec => []RowsMatchChain` | |
| `OneKeySigns` | `Spec => []OneSigner` | |
| `OnlyForeignKeysFail` | `Spec => []OnlyForeignKeyFails` | |
| `RunnersImplementChain` | `Spec => ImplementsChain` | |
| `ReceiptsSound` | `DeliverySpec => []ReceiptSound` | `WitnessDeliveryProofs` |
| `NoReceiptAfterGap` | `DeliverySpec => []ReceiptsGapless` | |
| `ReceiptsStay` | `DeliverySpec => ReceiptsKept` | |
| `PermanentRowsStay` | `DeliverySpec => PermanentUntilCleared` | |
| `WitnessesFollowChain` | `ServiceSpec => []WitnessFollowsChain` | `CllServiceProofs` |
| `ServiceKeepsReceipts` | `ServiceSpec => ReceiptsKept` | |
| `ServiceReceiptsSound` | `ServiceSpec => [](ReceiptSound /\ ReceiptsGapless)` | |
| `ServiceImplementsChain` | `ServiceSpec => ImplementsChain` | |
| `ServiceKeepsChain` | `ServiceSpec => [](ChainSound /\ RowsMatchChain /\ OneSigner /\ OnlyForeignKeyFails)` | |
| `SqlIsEngine` | `SqlSpec => CommitsAsEngine` | `SqlBackendProofs` |
| `LoadsAreTogether` | `SqlSpec => []LoadedTogether` | |
| `AppendsAreOnce` | `SqlSpec => []AppendsOnce` | |
| `JournalIsEngine` | `JournalSpec => []ReplayMatches` | `JsonlJournalProofs` |
| `JournalSurvives` | `JournalSpec => []AcknowledgedSurvives` | |
| `SeqsAreStable` | `LedgerSpec => []SeqsStable` | `LedgerStoreProofs` |
| `ReadsAreExplained` | `LedgerSpec => []ReadsExplained` | |
| `SegmentsDoVerify` | `LedgerSpec => []SegmentsVerify` | `LedgerReadProofs` |
| `SegmentsAreBounded` | `LedgerSpec => []BoundedUntilArchival` | |
| `DigestsAreFound` | `LedgerSpec => []DigestFound` | |
| `AuthenticityIsKept` | `EnvelopesHeeded` implies `LedgerSpec => []AuthenticityKept` | |
| `EntriesAreServed` | `LedgerSpec => []EntriesServed` | |

### The checkpoint runners

None of the state invariants is inductive alone: a commit installs what a runner
has in hand, so nothing can be said of the store without saying the same of every
runner's hand. `Inductive` therefore adds, for a runner between load and commit, that
what it loaded is sound and a prefix of what is stored, and, before its commit, that
what it built is sound and *advances* what it loaded (extends its nodes, and keeps its
checkpoint or adds one that follows it). The heart is `CommitInductive`: `_check_expected`
makes the loaded checkpoint the stored one, hence the end of the chain, so a checkpoint
that follows the first follows the second. `AdvancedSound` is the corresponding fact
about `_advance` itself, and the `*Stable` lemmas say that appends to the log disturb
neither.

`RowsAndKeys` adds what the queue and the keys need. A row in a runner's hand may be older
than the stored one, so all that is known of it is that it is valid and that the stored
row has the same checkpoint (`KnownRows`); what `_advance` built either leaves checkpoint
and rows alone or seals the whole index with a checkpoint of the runner's own key and one
fresh row per witness (`Queues`). A runner with a loaded state has found its own key on the
checkpoint, or no checkpoint at all (`SignedBy`). Two runners with different keys may both
be in the second case; the compare-and-set then lets one of them in, which is the argument
of `OneSigner`. The refinement maps the values of `entries`, the number of leaves and
`chain` to `CheckpointChain`; every step of a runner but an append and a commit is a
stutter, and a commit is an abstract step because of what `Inductive` says of the
committing runner's hand.

### Delivery

`DeliveryInductive` relates three places the same fact is in: the rows, what a thread has
taken of them, and the witness. A stored row is filed under the size of its checkpoint, and
its receipt is of an accepted checkpoint and not the first after a gap (`RowSound`,
`ReceiptOk`). A row in the hands of a thread is the stored one or an older version of it,
and only a version with the stored `attempts` can still be committed, in which case the
stored row has neither a receipt nor a refusal (`ItemSound`): the comparison in
`commit_witness` is what keeps a late outcome from replacing a receipt. A thread that waits
for an answer has seen the receipt of the predecessor, which stays (`AwaitSound`). `Sealed`
is a fact about the environment of this model, whose commits each seal one more entry.
`Key # {}` in `DeliveryAssumption` says that there is a key to sign with.

### Both on one store

`ServiceInductive` is the conjunction of the two invariants (without `Sealed`) and
`WitnessChain`: what is on the wire was committed, and what a witness accepted is a run of
consecutive checkpoints of `chain`. Each component's steps
must keep the other's invariant. A delivery step changes the contents of rows that a
runner may have loaded, never their checkpoints, and the runners' invariant speaks of
nothing else; a runner's `commit_cll` merges rows it loaded long ago, and since the stored
row wins for every known key, it only adds rows at the end of each witness's queue.

### The SQL backends

`SqlInductive` says of each transaction what still holds of the tables although others
have committed since it read: a read view holds the tables of one moment; what a
transaction with `writer` has read is the tables as they are, except for the contents of
witness rows, which `commit_witness` changes without that lock (`SameIndex`); a
`commit_witness` that has updated its row finds it unchanged, because no two transactions
hold one row (`RowLocks`). `SameErrors` closes the gap that remains: `apply_cll` looks at
nothing of the stored state that `commit_witness` changes, so the decision it made on a
stale row content is the decision on the tables. `SqlIsEngine` is a refinement of the
engine by an action property: each change of the tables is an engine operation on them.

### The journal

`Replay` is a recursion over the lines. Its graph exists and is unique (`ReplayedBuilds`,
`BuildsAgree`, by induction in the form of `NatRecursion`), so one more line applies one
more event to what the others replay to (`ReplayOneMore`). `DeltaReplays` is the heart of
the rest: the delta that `delta_since` takes of a merged state, applied by
`apply_cll_delta`, which checks and merges again, gives the merged state. `JournalInductive`
says that every journal a power loss may leave replays to an engine and begins with the
acknowledged lines, and, while an event is being written, that the file is the lines before
it with or without it, that the snapshot is what the former replay to, and the engine what
both replay to. The second half is needed because the engine moves before the line is
written and is taken back when writing fails; the first, because a crash forgets the
second.

### The ledger

All seven invariants of the ledger are theorems: for any set of records, any threshold and
any scenario of process ends, losses of power, failing writes and saves, rebuilds and moves.
`LedgerAssumption` says that the threshold is positive, what a scenario is, and that `None`
is no manifest. The invariants build on each other, each proved with the ones before it:

* `Sound`: the types, and what is known at each point of `append`, `_rotate_segment` and
  `recover` (`Working`); no id is indexed twice; until power is lost, every row of either
  index names a line that holds its record. It suffices for the first half of `SeqsStable`.
* `Unborn` and `Mounts`: what is there before the first manifest is saved, and that a file is
  where the manifest that governs says, but for `moveCut`, so that a restart after a saved move
  needs no exception.
* `Laid`: unless `manifestLost`, the files up to the active segment of the manifest that
  governs (the instance's, or the one on disk while there is none) hold the records in the
  order of their seqs: with `b[s]` lines before segment `s`, the row at `b[s] + o` is of line
  `o` of that segment, no record is on two lines, closed segments are durable, and the
  manifest on disk lags by one empty segment at most (`Layout`, `DiskLags`). `TailOk` says how
  far the index is behind the active segment at each point, `Keeps` that a record which
  `append` has returned, or will return if nothing fails, is where it was returned to be.
  `SeqsStable` speaks of the records index alone and cannot be inductive: `reindex`
  computes that index from the lines, so the lines must be known to give the same seqs. The
  recursion over the segments in `Leaves` is solved once, by induction (`LeavesLaid`).
* `Seals`: the checkpointer has a prefix of the records, and every closed segment of either
  manifest verifies. A seal has the leaves of its moment, so it needs that seqs never change
  below it, which is `Laid` again.
* `Bound`: one more line for each failure and each end of the process, in the segment of
  either manifest; it needs `Seals` to know that the next rotation closes at its boundary.
* `Looked`: without the named exceptions, a row of the lookup index is at the seq of its line
  (`Placed`), and the index has every record but the ones passed over and those the current
  point of `append` or `recover` is about to add (`Covers`). `DigestFound` and `EntriesServed` then follow for both
  sources of a read: the lookup index, and the scan when it is off.
* `Auth`: a row has the state its line proves, and the row of a promised record the state it
  was admitted with. It is kept only if no capsule that is declared unsigned carries an
  envelope that verifies, which is `EnvelopesHeeded`; the run `ledger_authenticity` shows that
  the theorem is false without it.

### Only model-checked

All liveness properties (`EveryEntryCheckpointed`, `NotifyIndexes`, `EveryEntryWitnessed`):
fairness and ENABLED are out of the prover's reach. The properties of `MmrLog`: what the
recursive functions of `MmrCore` compute for every size is an induction over their
definitions that is not done. The properties of
`CheckpointEmission` (`OneHistory`, `BundlesHold`, `BundlesSound`, `StatementsExact`) say
what the proofs in statements and bundles establish, so they rest on the same operators.

## 6. Not modelled, and the plan

Not modelled: byte formats (CBOR, JSON, the receipt encoding rules), cryptography, the
HTTP exchange below its outcome, the CLI, the conformance driver and vector generators, the
ports. Of the ledger: the unmanaged mode, the queries by record fields, `verify` and
`find_gaps`. Key revocation is a fold over rotation records without state of its own.
`PROJECT.json` says so part by part. The plan, in order:

1. Proofs about the recursive functions of `MmrCore`, in the form of `NatRecursion`, and with
   them `NodesAreForest` and checkpoint emission.
2. Key revocation and the ledger's `verify` as operators over its records.
3. The runner over a ledger source, composed with `LedgerStore` instead of the engine's
   entries.
