---------------------------- MODULE LedgerStore ----------------------------
(***************************************************************************)
(* The managed ledger store (python/ledger/store.py, segments.py,          *)
(* lookup.py and admission.py, with the MmrCheckpointer): JSONL segments,  *)
(* the records index and the lookup index in two SQLite files, and the     *)
(* store manifest.                                                         *)
(* append writes a line, a records row and a lookup row, one after the     *)
(* other, and closes the segment on a checkpoint when it is full.  One     *)
(* lock makes every method exclusive; between its steps a call may fail,   *)
(* the process end or the machine lose power.                              *)
(*                                                                         *)
(* A line is the capsule id of its record and whether the signature and    *)
(* key_id it carries are a producer envelope that verifies; a byte offset  *)
(* is the number of the line, a segment its number (its name is its        *)
(* position in the manifest).                                              *)
(* records is the table in the order of seq: SQLite gives the next row the *)
(* highest seq plus one, and rows are only deleted all together.  An MMR   *)
(* is the sequence of its leaves.  SQLite commits are durable.             *)
(*                                                                         *)
(* The host opens the store, runs recover() before anything else, as its   *)
(* doc asks after a crash, and runs it again when append asks for it.      *)
(***************************************************************************)
EXTENDS Integers, Sequences, FiniteSets, SequencesExt

CONSTANTS
    Capsule,       \* capsule ids
    Threshold,     \* max_segment_bytes, in lines
    None,          \* Python's None
    Scenarios      \* bounds: the submissions that are made and how often each
                   \* kind of event happens

EventKind == {"stop", "power", "fault", "save", "move", "rebuild"}

\* embedded: the capsule carries an envelope that verifies; offered: the
\* request does.
Submission == [consequential : BOOLEAN, mode : {"signed", "unsigned"},
               embedded : BOOLEAN, offered : BOOLEAN]

\* A stored line, a SegmentManifest, a SegmentEntry and the store manifest.
Line == [id : Capsule, proof : BOOLEAN]
SealType == [first : Nat, last : Nat, count : Nat, lines : Seq(Line), leaves : Seq(Capsule)]
EntryType == [mounted : BOOLEAN, sealed : SealType \cup {None}]
ManifestType == [active : Nat, segs : Seq(EntryType)]

ASSUME LedgerAssumption ==
    /\ None \notin ManifestType
    /\ Threshold \in Nat \ {0}
    /\ Scenarios \subseteq [submissions : SUBSET Submission, events : [EventKind -> Nat]]

VARIABLES
    files,         \* segment files: [lines, torn, synced]
    archived,      \* segments whose file is in .archived
    disk,          \* manifest.json
    records,       \* index.sqlite3: rows by seq
    lookup,        \* index.sqlite: rows by seq, possibly with gaps
    status,        \* what the instance is doing
    manifest,      \* _manifest
    needsRecover,  \* _needs_recover
    lookupOn,      \* _lookup is not None
    mmr,           \* the checkpointer's MmrLedger
    pending,       \* the record being appended
    cursor,        \* recover's next line
    acked,         \* history: the records append has returned
    moveCut,       \* history: segments whose file an end of the process left
                   \* elsewhere than manifest.json says
    manifestLost,  \* history: one left a segment with lines out of it
    passedOver,    \* history: rows of archived segments the last catch-up of
                   \* the lookup index did not write
    used,          \* how often each kind of event happened
    scenario       \* the one of this behaviour

diskVars == <<files, archived, disk, records, lookup>>
memVars == <<manifest, needsRecover, lookupOn, mmr>>
historyVars == <<moveCut, manifestLost, passedOver>>
ledgerVars == <<diskVars, status, memVars, pending, cursor, acked, historyVars, used, scenario>>

Use(kind) == used[kind] < scenario.events[kind] /\ used' = [used EXCEPT ![kind] = @ + 1]

EmptyFile == [lines |-> <<>>, torn |-> FALSE, synced |-> 0]
NewEntry == [mounted |-> TRUE, sealed |-> None]
NoLookup == [s \in {} |-> None]

LedgerInit ==
    /\ files = <<>>
    /\ archived = {}
    /\ disk = None
    /\ records = <<>>
    /\ lookup = NoLookup
    /\ status = "down"
    /\ manifest = None
    /\ needsRecover = FALSE
    /\ lookupOn = FALSE
    /\ mmr = <<>>
    /\ pending = None
    /\ cursor = 0
    /\ acked = {}
    /\ moveCut = {}
    /\ manifestLost = FALSE
    /\ passedOver = {}
    /\ used = [k \in EventKind |-> 0]
    /\ scenario \in Scenarios

-----------------------------------------------------------------------------
(***************************************************************************)
(* Segments and rows.                                                      *)
(***************************************************************************)
Active == manifest.active
Segments == DOMAIN manifest.segs

\* A records row, and the lookup row of the same record.
Row(line, s, off, signed) == [id |-> line.id, seg |-> s, off |-> off, signed |-> signed]
LookupRow(row) == [id |-> row.id, seg |-> row.seg, off |-> row.off]
Ids == {records[i].id : i \in DOMAIN records}

\* The offsets of a segment's rows, and the seqs.
Offsets(s) == {records[i].off : i \in {j \in DOMAIN records : records[j].seg = s}}
Seqs(s) == {i \in DOMAIN records : records[i].seg = s}

\* entry(name) is not None and not mounted: reading raises SegmentUnmounted.
Unmounted(s) == s \in Segments /\ ~manifest.segs[s].mounted

\* What reading the line of a row meets: "unmounted" is SegmentUnmounted, and
\* "error" a file or a line that is not there.
Read(row) ==
    CASE Unmounted(row.seg) -> "unmounted"
      [] ~Unmounted(row.seg) /\ row.seg \notin archived
           /\ row.off <= Len(files[row.seg].lines) -> "found"
      [] OTHER -> "error"

LineOf(row) == files[row.seg].lines[row.off]
Readable(row) == Read(row) = "found"

\* scan() raises nothing.
CanScan == \A i \in DOMAIN records : Readable(records[i])

\* _reindex_authenticity: whether the envelope on the line verifies.
ReindexAuthenticity(line) == line.proof

\* A record as it is read, or why it is not; its capsule is the line's.
Found(seq, id, row, signed) ==
    [outcome |-> "found", seq |-> seq, id |-> id, capsule |-> LineOf(row).id, signed |-> signed]
NoAnswer(outcome) ==
    [outcome |-> outcome, seq |-> 0, id |-> None, capsule |-> None, signed |-> FALSE]

\* _row_to_record: id and authenticity are the row's.
RowToRecord(seq) ==
    LET row == records[seq]
    IN  IF Readable(row) THEN Found(seq, row.id, row, row.signed) ELSE NoAnswer(Read(row))

\* _resolve_lookup_hit: both are the line's.
ResolveLookupHit(seq) ==
    LET row == lookup[seq]
    IN  IF Readable(row)
        THEN Found(seq, LineOf(row).id, row, ReindexAuthenticity(LineOf(row)))
        ELSE NoAnswer(Read(row))

\* A list of records, or what the first of them that cannot be read raises.
Listed(answers) ==
    LET unread == {k \in DOMAIN answers : answers[k].outcome # "found"}
    IN  IF unread = {} THEN [outcome |-> "found", list |-> answers]
        ELSE [outcome |-> answers[Min(unread)].outcome, list |-> <<>>]
NoList(outcome) == [outcome |-> outcome, list |-> <<>>]

\* scan(), which reads every record or raises.
Scan == Listed([i \in DOMAIN records |-> RowToRecord(i)])

\* fetch.
Fetch(c) == IF c \in Ids THEN RowToRecord(Min({i \in DOMAIN records : records[i].id = c}))
            ELSE NoAnswer("none")

\* ORDER BY seq.
Ordered(seqs) ==
    [k \in 1..Cardinality(seqs) |->
        CHOOSE i \in seqs : Cardinality({j \in seqs : j <= i}) = k]

\* The lookup index's by_digest and by_seq_range: the seqs of its rows.
LookupHits(c) == {i \in DOMAIN lookup : lookup[i].id = c}
LookupRange(first, last) == Ordered({i \in DOMAIN lookup : first <= i /\ i <= last})

\* by_digest: from the lookup index, or by a scan when there is none.
ByDigest(c) ==
    CASE lookupOn /\ LookupHits(c) # {} -> ResolveLookupHit(Min(LookupHits(c)))
      [] ~lookupOn /\ Scan.outcome # "found" -> NoAnswer(Scan.outcome)
      [] ~lookupOn /\ Scan.outcome = "found" -> Fetch(c)
      [] OTHER -> NoAnswer("none")

\* The records of a list whose seq is in the range.
InRange(list, first, last) ==
    LET at == Ordered({k \in DOMAIN list : first <= list[k].seq /\ list[k].seq <= last})
    IN  [k \in DOMAIN at |-> list[at[k]]]

\* by_seq_range, the same way.
BySeqRange(first, last) ==
    IF lookupOn
    THEN LET hits == LookupRange(first, last)
         IN  Listed([k \in DOMAIN hits |-> ResolveLookupHit(hits[k])])
    ELSE [Scan EXCEPT !.list = InRange(@, first, last)]

IdsOf(lines) == [i \in DOMAIN lines |-> lines[i].id]

\* verify_segment: the lines are the ones sealed, as many as the seqs, and
\* leaves of the closing checkpoint at those seqs.
VerifySegment(lines, m) ==
    /\ lines = m.lines
    /\ Len(lines) = m.count
    /\ m.last - m.first + 1 = m.count
    /\ m.last <= Len(m.leaves)
    /\ SubSeq(m.leaves, m.first, m.last) = IdsOf(lines)

\* verify_segment_standalone, of the file where the manifest says it is.
VerifySegmentStandalone(s) ==
    /\ manifest.segs[s].sealed # None
    /\ s \in archived <=> Unmounted(s)
    /\ VerifySegment(files[s].lines, manifest.segs[s].sealed)

\* _leaves can read every line of the manifest's segments.
LeavesReadable ==
    \A s \in Segments : (s \in archived <=> Unmounted(s)) /\ ~files[s].torn

\* _leaves: one row per line, segment by segment in the manifest's order, the
\* first line of a capsule id only.
Lines(s) ==
    [i \in DOMAIN files[s].lines |->
        Row(files[s].lines[i], s, i, ReindexAuthenticity(files[s].lines[i]))]
FirstOnly(rows, row) ==
    IF \E i \in DOMAIN rows : rows[i].id = row.id THEN rows ELSE Append(rows, row)

\* The lines of the first segments, and the rows the first of some lines give.
Flattened ==
    LET upTo[n \in 0..Len(manifest.segs)] == IF n = 0 THEN <<>> ELSE upTo[n - 1] \o Lines(n)
    IN  upTo
Firsts(rows) ==
    LET upTo[k \in 0..Len(rows)] == IF k = 0 THEN <<>> ELSE FirstOnly(upTo[k - 1], rows[k])
    IN  upTo

Leaves ==
    LET rows == Flattened[Len(manifest.segs)]
    IN  Firsts(rows)[Len(rows)]

-----------------------------------------------------------------------------
(***************************************************************************)
(* Opening, and the ends of an instance.                                   *)
(***************************************************************************)

\* __init__.  A store without manifest must have no segments; its first one is
\* created here and its manifest saved by CreateSave.
Open ==
    /\ status = "down"
    /\ \/ /\ disk # None
          /\ manifest' = disk
          /\ status' = "opened"
          /\ UNCHANGED files
       \/ /\ disk = None /\ files = <<>>
          /\ files' = <<EmptyFile>>
          /\ manifest' = [active |-> 1, segs |-> <<NewEntry>>]
          /\ status' = "create"
    /\ lookupOn' = TRUE
    /\ UNCHANGED <<archived, disk, records, lookup, needsRecover, mmr, pending, cursor, acked, used>>

CreateSave ==
    /\ status = "create"
    /\ disk' = manifest
    /\ status' = "opened"
    /\ UNCHANGED <<files, archived, records, lookup, memVars, pending, cursor, acked, used>>

\* The instance is gone and its memory with it.
Down ==
    /\ status' = "down"
    /\ manifest' = None
    /\ needsRecover' = FALSE
    /\ lookupOn' = FALSE
    /\ mmr' = <<>>
    /\ pending' = None
    /\ cursor' = 0

\* The process ends: close, or a crash at any step.
Stop ==
    /\ status # "down"
    /\ Use("stop")
    /\ Down
    /\ UNCHANGED <<diskVars, acked>>

\* The machine loses power: of one segment, lines that were not fsynced are
\* lost, the first of them perhaps in part.
PowerLoss ==
    /\ Use("power")
    /\ \E s \in DOMAIN files, torn \in BOOLEAN :
         \E n \in files[s].synced..Len(files[s].lines) :
            /\ torn => n < Len(files[s].lines) \/ files[s].torn
            /\ files' = [files EXCEPT ![s] = [lines |-> SubSeq(@.lines, 1, n),
                                              torn |-> torn, synced |-> n]]
    /\ Down
    /\ UNCHANGED <<archived, disk, records, lookup, acked>>

-----------------------------------------------------------------------------
(***************************************************************************)
(* append.                                                                 *)
(***************************************************************************)

\* resolve_admission: an unsigned submission is admitted as it is, a signed one
\* needs an envelope that verifies, the request's or the capsule's own.  An
\* unsigned request with envelopes is refused when it is made.
Admitted(sub) ==
    IF sub.mode = "unsigned" THEN ~sub.offered ELSE sub.embedded \/ sub.offered

\* Mutant: the envelope is verified and not stored.
StoredUnbundled(c, sub) == [id |-> c, proof |-> sub.embedded]

\* to_store: a signed capsule is stored with the envelope that verified, an
\* unsigned one as submitted.
Stored(c, sub) == [id |-> c, proof |-> sub.mode = "signed" \/ sub.embedded]

AddLine(f, line) == [f EXCEPT !.lines = Append(@, line)]

Synced(f) == [f EXCEPT !.synced = Len(f.lines)]

\* Mutant: a consequential line is not fsynced.
WrittenUnsynced(f, line, consequential) == AddLine(f, line)

\* The line is written, and fsynced when it is consequential.
Written(f, line, consequential) ==
    IF consequential THEN Synced(AddLine(f, line)) ELSE AddLine(f, line)

\* A submission that is not admitted is refused before any write, as are a
\* capsule id that is indexed (DuplicateRecord) and any append before the
\* recovery an earlier failure needs.
MayAppend(c, sub) == Admitted(sub) /\ status = "ready" /\ ~needsRecover /\ c \notin Ids

AppendLine(c, sub) ==
    /\ MayAppend(c, sub)
    /\ files' = [files EXCEPT ![Active] = Written(@, Stored(c, sub), sub.consequential)]
    /\ pending' = [id |-> c, seq |-> 0, consequential |-> sub.consequential,
                   signed |-> sub.mode = "signed"]
    /\ status' = "insert"
    /\ UNCHANGED <<archived, disk, records, lookup, memVars, cursor, acked, used>>

\* Writing or fsyncing raises: the line is there in whole, in part or not.
AppendFails(c, sub) ==
    /\ MayAppend(c, sub)
    /\ Use("fault")
    /\ files' \in {files, [files EXCEPT ![Active].torn = TRUE],
                   [files EXCEPT ![Active] = AddLine(@, Stored(c, sub))]}
    /\ needsRecover' = TRUE
    /\ UNCHANGED <<archived, disk, records, lookup, status, manifest, lookupOn, mmr,
                   pending, cursor, acked>>

\* Where the pending line starts.
PendingOffset == Len(files[Active].lines)

\* _insert_record commits its row.
InsertRecord ==
    /\ status = "insert"
    /\ records' = Append(records, Row(pending, Active, PendingOffset, pending.signed))
    /\ pending' = [pending EXCEPT !.seq = Len(records')]
    /\ status' = "lookup"
    /\ UNCHANGED <<files, archived, disk, lookup, memVars, cursor, acked, used>>

InsertFails ==
    /\ status = "insert"
    /\ Use("fault")
    /\ needsRecover' = TRUE
    /\ pending' = None
    /\ status' = "ready"
    /\ UNCHANGED <<diskVars, manifest, lookupOn, mmr, cursor, acked>>

LookupPut(seq, row) == [i \in DOMAIN lookup \cup {seq} |-> IF i = seq THEN row ELSE lookup[i]]

\* Mutant: the lookup index numbers its rows itself.
LookupOwnSeq(seq) ==
    \/ /\ lookupOn
       /\ lookup' = LookupPut(Cardinality(DOMAIN lookup) + 1, LookupRow(records[seq]))
       /\ UNCHANGED <<lookupOn, used>>
    \/ /\ lookupOn
       /\ Use("fault")
       /\ lookupOn' = FALSE
       /\ UNCHANGED lookup
    \/ /\ ~lookupOn
       /\ UNCHANGED <<lookup, lookupOn, used>>

\* _lookup_record: the row is written, or the lookup index disabled.
LookupRecord(seq) ==
    \/ /\ lookupOn
       /\ lookup' = LookupPut(seq, LookupRow(records[seq]))
       /\ UNCHANGED <<lookupOn, used>>
    \/ /\ lookupOn
       /\ Use("fault")
       /\ lookupOn' = FALSE
       /\ UNCHANGED lookup
    \/ /\ ~lookupOn
       /\ UNCHANGED <<lookup, lookupOn, used>>

\* append returns its record.
Returns ==
    /\ acked' = acked \cup {pending}
    /\ pending' = None
    /\ status' = "ready"

\* append raises after its record is stored.
Raises ==
    /\ pending' = None
    /\ status' = "ready"
    /\ UNCHANGED acked

\* Mutant: the segment is closed one record late.
FullLate == Len(files[Active].lines) > Threshold

Full == Len(files[Active].lines) >= Threshold

\* The lookup row; a segment that is now full is closed next.
AppendLookup ==
    /\ status = "lookup"
    /\ LookupRecord(pending.seq)
    /\ \/ /\ Full
          /\ status' = "rotate"
          /\ UNCHANGED <<pending, acked>>
       \/ /\ ~Full
          /\ Returns
    /\ UNCHANGED <<files, archived, disk, records, manifest, needsRecover, mmr, cursor>>

-----------------------------------------------------------------------------
(***************************************************************************)
(* _rotate_segment.                                                        *)
(***************************************************************************)

\* MmrLedger.sync scans every record of the store and adds the new ones.
SyncedMmr ==
    mmr \o [i \in 1..(Len(records) - Len(mmr)) |-> records[Len(mmr) + i].id]

\* Mutant: every segment starts at the first seq.
SealFromOne(s, leaves) ==
    [first |-> 1, last |-> Max(Seqs(s)), count |-> Cardinality(Seqs(s)),
     lines |-> files[s].lines, leaves |-> leaves]

\* The checkpoint's size is that of the range proof, which ends at the segment's
\* last record.
ClosesAtBoundary == Max(Seqs(Active)) = Len(SyncedMmr)

\* The SegmentManifest: the segment's digest stands for its lines, the root
\* of the checkpoint for the leaves it commits to.
Seal(s, leaves) ==
    [first |-> Min(Seqs(s)), last |-> Max(Seqs(s)), count |-> Cardinality(Seqs(s)),
     lines |-> files[s].lines, leaves |-> leaves]

\* Up to the save: the checkpoint is made, the segment's manifest is written,
\* and the next segment opened in memory.
Rotate ==
    /\ status = "rotate"
    /\ CanScan /\ ClosesAtBoundary
    /\ mmr' = SyncedMmr
    /\ LET next == Len(manifest.segs) + 1
       IN  /\ manifest' = [active |-> next,
                           segs |-> Append([manifest.segs EXCEPT ![Active].sealed =
                                              Seal(Active, mmr')], NewEntry)]
           /\ files' = LET closed == [files EXCEPT ![Active] = Synced(@)]
                       IN  IF next \in DOMAIN files THEN closed
                           ELSE Append(closed, EmptyFile)
    /\ status' = "save"
    /\ UNCHANGED <<archived, disk, records, lookup, needsRecover, lookupOn, pending, cursor,
                   acked, used>>

\* The rotation raises.  sync cannot read a record; the checkpoint does not
\* close at the segment's boundary; the fsync, the signing or
\* the write of the segment's manifest fails; or the next segment's file cannot
\* be created, when the store manifest in memory already calls this one closed.
RotateRaises ==
    /\ status = "rotate"
    /\ LET synced == [files EXCEPT ![Active] = Synced(@)]
       IN  \/ /\ ~CanScan \/ ~ClosesAtBoundary
              /\ files' = synced
              /\ mmr' = IF CanScan THEN SyncedMmr ELSE mmr
              /\ UNCHANGED <<manifest, used>>
           \/ /\ Use("fault")
              /\ \/ UNCHANGED <<files, mmr>>
                 \/ CanScan /\ files' = synced /\ mmr' = SyncedMmr
              /\ UNCHANGED manifest
           \/ /\ CanScan /\ ClosesAtBoundary
              /\ Use("save")
              /\ files' = synced
              /\ mmr' = SyncedMmr
              /\ manifest' = [manifest EXCEPT !.segs[Active].sealed = Seal(Active, mmr')]
    /\ Raises
    /\ UNCHANGED <<archived, disk, records, lookup, needsRecover, lookupOn, cursor>>

\* _save_store_manifest, for a rotation or an archival.
Save ==
    /\ status = "save"
    /\ disk' = manifest
    /\ \/ pending # None /\ Returns
       \/ pending = None /\ Raises
    /\ UNCHANGED <<files, archived, records, lookup, memVars, cursor, used>>

\* It raises, before the file is replaced or in the fsync of the directory.
SaveFails ==
    /\ status = "save"
    /\ Use("save")
    /\ disk' \in {disk, manifest}
    /\ Raises
    /\ UNCHANGED <<files, archived, records, lookup, memVars, cursor>>

-----------------------------------------------------------------------------
(***************************************************************************)
(* recover.                                                                *)
(***************************************************************************)
LastIndexed == IF Offsets(Active) = {} THEN 0 ELSE Max(Offsets(Active))

\* The active segment holds bytes after its last indexed line.
HasTail == LastIndexed < Len(files[Active].lines) \/ files[Active].torn

\* Mutant: the highest seqs alone are compared.
BehindByMax == DOMAIN lookup # {} /\ Max(DOMAIN lookup) # Len(records)

\* seqs_summary differs from the records index.
Behind ==
    \/ Cardinality(DOMAIN lookup) # Len(records)
    \/ DOMAIN lookup # {} /\ Max(DOMAIN lookup) # Len(records)

\* The segment does not hold the last indexed line, or its file was archived
\* and an empty one takes its place: LedgerCorrupt.
IndexedLineMissing == Active \in archived \/ LastIndexed > Len(files[Active].lines)

\* Up to the fsync of the unindexed tail.
RecoverStart ==
    /\ \/ status = "opened"
       \/ status = "ready" /\ needsRecover
    /\ needsRecover' = TRUE
    /\ \/ /\ IndexedLineMissing
          /\ status' = "opened"
          /\ UNCHANGED <<files, cursor>>
       \/ /\ ~IndexedLineMissing
          /\ files' = [files EXCEPT ![Active] = IF HasTail THEN Synced(@) ELSE @]
          /\ cursor' = LastIndexed + 1
          /\ status' = IF lookupOn /\ Behind THEN "catchup" ELSE "tail"
    /\ UNCHANGED <<archived, disk, records, lookup, manifest, lookupOn, mmr, pending, acked, used>>

\* The records rows the lookup index lacks; archived ones are passed over.
Missing == {i \in DOMAIN records : i \notin DOMAIN lookup /\ ~Unmounted(records[i].seg)}

\* _catch_up_lookup, one row at a time.
CatchUpLookup ==
    /\ status = "catchup"
    /\ \/ /\ Missing # {} /\ lookupOn
          /\ Readable(records[Min(Missing)])
          /\ LookupRecord(Min(Missing))
          /\ UNCHANGED <<status, cursor>>
       \/ /\ Missing # {} /\ lookupOn
          /\ ~Readable(records[Min(Missing)])
          /\ status' = "opened"
          /\ cursor' = 0
          /\ UNCHANGED <<lookup, lookupOn, used>>
       \/ /\ Missing = {} \/ ~lookupOn
          /\ status' = "tail"
          /\ UNCHANGED <<lookup, lookupOn, used, cursor>>
    /\ UNCHANGED <<files, archived, disk, records, manifest, needsRecover, mmr, pending, acked>>

\* A complete line of the tail: known ids are skipped, others indexed.
RecoverLine ==
    /\ status = "tail"
    /\ cursor <= Len(files[Active].lines)
    /\ LET line == files[Active].lines[cursor]
       IN  \/ /\ line.id \in Ids
              /\ cursor' = cursor + 1
              /\ UNCHANGED <<records, status, used>>
           \/ /\ line.id \notin Ids
              /\ records' = Append(records, Row(line, Active, cursor, ReindexAuthenticity(line)))
              /\ status' = "taillookup"
              /\ UNCHANGED <<cursor, used>>
           \/ /\ line.id \notin Ids
              /\ Use("fault")
              /\ status' = "opened"
              /\ cursor' = 0
              /\ UNCHANGED records
    /\ UNCHANGED <<files, archived, disk, lookup, memVars, pending, acked>>

RecoverLookup ==
    /\ status = "taillookup"
    /\ LookupRecord(Len(records))
    /\ cursor' = cursor + 1
    /\ status' = "tail"
    /\ UNCHANGED <<files, archived, disk, records, manifest, needsRecover, mmr, pending, acked>>

\* The torn line is cut off and the instance appends again.
RecoverEnd ==
    /\ status = "tail"
    /\ cursor > Len(files[Active].lines)
    /\ files' = [files EXCEPT ![Active].torn = FALSE]
    /\ needsRecover' = FALSE
    /\ cursor' = 0
    /\ status' = "ready"
    /\ UNCHANGED <<archived, disk, records, lookup, manifest, lookupOn, mmr, pending, acked, used>>

-----------------------------------------------------------------------------
(***************************************************************************)
(* Rebuilding the indexes, and archival.                                   *)
(***************************************************************************)

\* reindex, in one transaction: of an idle store, or after a recover() that
\* raised.  A line that cannot be read rolls it back.
Reindex ==
    /\ Use("rebuild")
    /\ \/ status = "ready" /\ ~needsRecover
       \/ status = "opened" /\ needsRecover
    /\ files' = [s \in DOMAIN files |-> IF s \in Segments THEN Synced(files[s]) ELSE files[s]]
    /\ records' = IF LeavesReadable THEN Leaves ELSE records
    /\ needsRecover' = (needsRecover /\ ~LeavesReadable)
    /\ UNCHANGED <<archived, disk, lookup, status, manifest, lookupOn, mmr, pending, cursor, acked>>

\* rebuild_lookup_index, also from the command line, which runs no recover().
\* The old index is deleted first: a line that cannot be read leaves none.
RebuildLookup ==
    /\ Use("rebuild")
    /\ status \in {"opened", "ready"}
    /\ lookup' = IF LeavesReadable THEN [i \in DOMAIN Leaves |-> LookupRow(Leaves[i])] ELSE NoLookup
    /\ lookupOn' = TRUE
    /\ UNCHANGED <<files, archived, disk, records, status, manifest, needsRecover, mmr, pending,
                   cursor, acked>>

\* Mutant: the segment stays marked as mounted.
MarkedMounted(s, mounted) == [manifest EXCEPT !.segs[s].mounted = TRUE]

Marked(s, mounted) == [manifest EXCEPT !.segs[s].mounted = mounted]

\* unmount_segment and mount_segment: the file is moved, then the manifest
\* saved.
Unmount(s) ==
    /\ status = "ready"
    /\ Use("move")
    /\ s # Active /\ manifest.segs[s].mounted
    /\ s \notin archived
    /\ archived' = archived \cup {s}
    /\ manifest' = Marked(s, FALSE)
    /\ status' = "save"
    /\ UNCHANGED <<files, disk, records, lookup, needsRecover, lookupOn, mmr, pending, cursor, acked>>

Mount(s) ==
    /\ status = "ready"
    /\ Use("move")
    /\ ~manifest.segs[s].mounted
    /\ s \in archived
    /\ archived' = archived \ {s}
    /\ manifest' = Marked(s, TRUE)
    /\ status' = "save"
    /\ UNCHANGED <<files, disk, records, lookup, needsRecover, lookupOn, mmr, pending, cursor, acked>>

-----------------------------------------------------------------------------
(***************************************************************************)
(* The ledger as the entry log of a backend (log/ledger.py).               *)
(***************************************************************************)

\* record_entry: the seq, and the capsule id as the value.
RecordEntry(r) == [seq |-> r.seq, value |-> r.id]
Entries(list) == [outcome |-> "found", list |-> [k \in DOMAIN list |-> RecordEntry(list[k])]]

\* LedgerEntryStore.scan_entries: entries that are not dense are corrupt.
ScanEntries(after, limit) ==
    LET read == BySeqRange(after + 1, after + limit)
    IN  CASE read.outcome # "found" -> read
          [] read.outcome = "found"
               /\ \E k \in DOMAIN read.list : read.list[k].seq # after + k -> NoList("corrupt")
          [] OTHER -> Entries(read.list)

\* LogSourceEntries.scan_entries: the whole source is read, and the entries
\* after after_seq taken up to limit.
ScanSource(after, limit) ==
    LET scan == Scan
    IN  CASE scan.outcome # "found" -> scan
          [] scan.outcome = "found"
               /\ \E k \in DOMAIN scan.list : scan.list[k].seq # k -> NoList("corrupt")
          [] OTHER -> Entries(SubSeq(scan.list, after + 1, Min({after + limit, Len(scan.list)})))

\* get_entry, and append, which stores nothing: a digest the ledger lacks is
\* not found, or unsupported.
GetEntry(c) ==
    LET r == ByDigest(c)
    IN  CASE r.outcome = "found" -> [outcome |-> "found", entry |-> RecordEntry(r)]
          [] r.outcome = "none" -> [outcome |-> "not_found", entry |-> None]
          [] OTHER -> [outcome |-> r.outcome, entry |-> None]

AppendEntry(c) ==
    LET r == GetEntry(c)
    IN  CASE r.outcome = "found" -> [r EXCEPT !.outcome = "idempotent"]
          [] r.outcome = "not_found" -> [r EXCEPT !.outcome = "unsupported"]
          [] OTHER -> r

-----------------------------------------------------------------------------
LedgerStep ==
    \/ Open \/ CreateSave \/ Stop \/ PowerLoss
    \/ \E c \in Capsule, sub \in scenario.submissions : AppendLine(c, sub) \/ AppendFails(c, sub)
    \/ InsertRecord \/ InsertFails \/ AppendLookup
    \/ Rotate \/ RotateRaises \/ Save \/ SaveFails
    \/ RecoverStart \/ CatchUpLookup \/ RecoverLine \/ RecoverLookup \/ RecoverEnd
    \/ Reindex \/ RebuildLookup
    \/ status = "ready" /\ \E s \in Segments : Unmount(s) \/ Mount(s)

(***************************************************************************)
(* What the properties except is remembered when it happens.               *)
(***************************************************************************)

\* The segments whose file is not where manifest.json says.
Misplaced ==
    {s \in DOMAIN files :
        ~(s \in archived <=> disk # None /\ s \in DOMAIN disk.segs /\ ~disk.segs[s].mounted)}

\* The segment files that manifest.json does not list.
Unlisted == {s \in DOMAIN files : disk = None \/ s \notin DOMAIN disk.segs}

\* When the process ends, a segment may be misplaced (the move was not followed
\* by its save), and a line may be in an unlisted segment (the save of a
\* rotation failed, and an append went on in the new segment).  When a catch-up
\* of the lookup index is done, rows of archived segments may still be missing.
Remember ==
    /\ moveCut' = IF status' = "down" THEN moveCut \cup Misplaced ELSE moveCut
    /\ manifestLost' =
          (\/ manifestLost
           \/ /\ status' = "down"
              /\ \E s \in Unlisted : files[s].lines # <<>> \/ files[s].torn)
    /\ passedOver' =
          IF status = "catchup" /\ status' = "tail"
          THEN {i \in DOMAIN records : i \notin DOMAIN lookup /\ Unmounted(records[i].seg)}
          ELSE passedOver

LedgerNext == LedgerStep /\ Remember /\ UNCHANGED scenario

LedgerSpec == LedgerInit /\ [][LedgerNext]_ledgerVars

-----------------------------------------------------------------------------
(***************************************************************************)
(* Correctness.                                                            *)
(***************************************************************************)

\* No record is indexed twice, and a consequential one that append has
\* returned keeps the seq it was returned with: through crashes, recovery,
\* rotation and a rebuilt index, unless manifestLost.
SeqsStable ==
    /\ \A i, j \in DOMAIN records : records[i].id = records[j].id => i = j
    /\ ~manifestLost =>
          \A a \in acked : a.consequential =>
             a.seq \in DOMAIN records /\ records[a.seq].id = a.id

\* The store has recovered from its failures, no power was lost, no segment is
\* moveCut or the manifest lost, and every row that was passed over has been
\* written since, by a rebuild or by a catch-up with its segment mounted.
Recovered ==
    /\ status = "ready" /\ ~needsRecover
    /\ used["power"] = 0 /\ ~manifestLost /\ moveCut = {}
    /\ lookupOn => passedOver \subseteq DOMAIN lookup

\* by_digest finds every record of a recovered store, and get_entry serves it at
\* its seq, or both are told that a segment is unmounted; they never answer
\* that there is none.  An append through the adapter then returns that entry,
\* and is refused for every other digest.
DigestFound ==
    Recovered =>
        \A c \in Capsule :
            LET got == GetEntry(c)
                appended == AppendEntry(c)
            IN  IF c \in Ids
                THEN \/ /\ got.outcome = "found" /\ appended.outcome = "idempotent"
                        /\ got.entry = appended.entry
                        /\ got.entry.value = c /\ records[got.entry.seq].id = c
                     \/ got.outcome = "unmounted"
                ELSE appended.outcome \in {"unsupported", "unmounted"}

\* What a checkpoint runner reads of a recovered ledger is the log: any page of
\* entries is exactly the records at those seqs, from the lookup index or from
\* a scan, or the read is told that a segment is unmounted.  No page is short,
\* empty before the end, or of other seqs.
EntriesServed ==
    Recovered =>
        \A after \in 0..Len(records), limit \in 1..Len(records) :
            LET last == Min({after + limit, Len(records)})
                log == [k \in 1..(last - after) |->
                           [seq |-> after + k, value |-> records[after + k].id]]
            IN  \A page \in {ScanEntries(after, limit), ScanSource(after, limit)} :
                    \/ page.outcome = "unmounted"
                    \/ page.outcome = "found" /\ page.list = log

\* A record is read as signed if and only if append admitted it as signed, from
\* either index, after a recovery and after a rebuild: the state is stored in
\* one index, and derived from the line wherever that index is rebuilt or
\* passed by.  Excepted is a record that a loss of power may have taken, since
\* it can be submitted again in the other mode.
AuthenticityKept ==
    status = "ready" /\ ~manifestLost =>
        \A a \in {x \in acked : x.consequential \/ used["power"] = 0} :
            /\ \A i \in DOMAIN records : records[i].id = a.id => records[i].signed = a.signed
            /\ LET answer == ByDigest(a.id)
               IN  answer.outcome = "found" /\ answer.id = a.id => answer.signed = a.signed

\* verify_segment_standalone accepts every closed segment, mounted or archived,
\* unless manifestLost; of a moveCut segment it may miss the file, whose lines
\* still verify.
SegmentsVerify ==
    status \in {"opened", "ready"} /\ ~manifestLost =>
        \A s \in Segments \ {Active} :
            manifest.segs[s].sealed # None =>
                IF s \in moveCut THEN VerifySegment(files[s].lines, manifest.segs[s].sealed)
                ELSE VerifySegmentStandalone(s)

\* A full segment is closed by the append that filled it; each failure and
\* each end of the process lets in one more line at most.
SegmentBounded ==
    status = "ready" =>
        Len(files[Active].lines) <=
            Threshold - 1 + used["fault"] + used["save"] + used["stop"] + used["power"]

\* The same while no segment is archived and the manifest is not lost: a rotation
\* then always finds every record it scans, and closes at its boundary.
BoundedUntilArchival == used["move"] = 0 /\ ~manifestLost => SegmentBounded

\* A read of a stored record finds that record, or is told that its segment is
\* unmounted: every row of a recovered index names a line that holds its
\* record.  Excepted are the records of a moveCut segment, whose file the reader
\* looks for in the wrong place, and all of them once power was lost and the
\* manifest lost.
ReadsExplained ==
    status = "ready" /\ ~(manifestLost /\ used["power"] > 0) =>
        \A i \in DOMAIN records :
            records[i].seg \notin moveCut =>
                LET c == records[i].id
                    r == Fetch(c)
                IN  r.outcome = "unmounted" \/ (r.outcome = "found" /\ r.capsule = c)
=============================================================================
