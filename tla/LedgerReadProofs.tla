------------------------- MODULE LedgerReadProofs -------------------------
(***************************************************************************)
(* More proofs about LedgerStore, on top of the inductive invariants of    *)
(* LedgerStoreProofs: closed segments verify, the active one is bounded,   *)
(* the lookup index has the records at their seqs, what is read as signed  *)
(* was admitted so, and the adapters serve the log.                        *)
(***************************************************************************)
EXTENDS LedgerStoreProofs

-----------------------------------------------------------------------------
(***************************************************************************)
(* Closed segments and the checkpoints they were sealed with.              *)
(***************************************************************************)
\* The segments of a manifest that are closed verify.
SealsOk(m, fs) ==
    \A s \in 1..m.active :
        s < m.active /\ m.segs[s].sealed # None => VerifySegment(fs[s].lines, m.segs[s].sealed)

\* The checkpointer has the first records.
MmrPrefix == Len(mmr) <= Len(records) /\ \A i \in 1..Len(mmr) : mmr[i] = records[i].id

\* The invariant of closed segments, for the manifest in memory and the one on disk.
Seals ==
    ~manifestLost =>
        /\ MmrPrefix
        /\ status # "down" => SealsOk(manifest, files)
        /\ disk # None => SealsOk(disk, files)

\* A closed segment is not written again.
LEMMA ClosedLines ==
    ASSUME Sound, LedgerNext, ~Fresh, NEW n, n = View.active, NEW b, Layout(files, records, n, b),
           NEW s \in 1..n, s < n
    PROVE  files'[s].lines = files[s].lines
<1>1. FilesOk(files) /\ FilesOk(files') /\ RowsTyped(records, files)
  BY SoundFacts, SoundFiles
<1>2. n \in Nat /\ n \in 1..Len(files) /\ s \in 1..Len(files) /\ files[s].synced = Len(files[s].lines)
  BY <1>1, LayoutFacts DEF Layout, ClosedOk
<1>3. status # "down" => n = Active
  BY DEF View, Active
<1>4. s # n
  BY <1>2
<1>5. CASE Open
  BY <1>5 DEF Open, Fresh
<1>6. CASE PowerLoss
  <2>1. Survives(files, files')
    BY <1>1, <1>6, PowerFiles
  <2>2. Len(files') = Len(files) /\ Len(files[s].lines) \in Nat /\ Len(files'[s].lines) \in Nat
        /\ files[s].lines \in Seq(Line) /\ files'[s].lines \in Seq(Line)
    BY <1>1, <1>2, <2>1, FileOf DEF Survives
  <2>3. Len(files'[s].lines) = Len(files[s].lines)
        /\ \A o \in 1..Len(files'[s].lines) : files'[s].lines[o] = files[s].lines[o]
    BY <1>2, <2>1, <2>2 DEF Survives
  <2> QED  BY <2>2, <2>3, SeqEqual
<1>7. CASE Rotate
  <2>1. n = Active
    BY <1>3, <1>7 DEF Rotate
  <2> QED  BY <1>2, <1>4, <1>7, <2>1, RotatedFiles
<1>8. CASE RotateRaises
  BY <1>2, <1>8, RaisedFiles DEF SameLines
<1>9. CASE RecoverStart
  BY <1>2, <1>9, RecoverStartFiles DEF SameLines
<1>10. CASE RecoverEnd
  BY <1>2, <1>10, RecoverEndFiles DEF SameLines
<1>11. CASE Reindex
  BY <1>2, <1>11, ReindexedFiles DEF SameLines
<1>12. ASSUME NEW c \in Capsule, NEW sub \in scenario.submissions,
              AppendLine(c, sub) \/ AppendFails(c, sub)
       PROVE  files'[s].lines = files[s].lines
  <2>1. n = Active
    BY <1>3, <1>12 DEF AppendLine, AppendFails, MayAppend
  <2>2. SameLines(files, files', n) \/ LineAdded(files, files', n, Stored(c, sub))
    BY <1>12, <2>1, AppendedFiles, FailedFiles
  <2> QED  BY <1>2, <1>4, <2>2 DEF SameLines, LineAdded
<1> QED  BY <1>5, <1>6, <1>7, <1>8, <1>9, <1>10, <1>11, <1>12, FilesChange

\* The checkpoint that closes a segment commits to its lines.
LEMMA NewSeal ==
    ASSUME Sound, status = "rotate", MmrPrefix, NEW n, n = Active, NEW b, Layout(files, records, n, b),
           Len(records) = EndOf(files, n, b)
    PROVE  /\ Max(Seqs(n)) = Len(SyncedMmr)
           /\ VerifySegment(files[n].lines, Seal(n, SyncedMmr))
<1>1. FilesOk(files) /\ RowsTyped(records, files) /\ mmr \in Seq(Capsule)
      /\ DOMAIN records = 1..Len(records)
  BY SoundFacts
<1>2. /\ n \in Nat /\ n \in 1..n /\ n \in 1..Len(files) /\ Len(records) \in Nat /\ b[n] \in Nat
      /\ \A i \in 1..Len(records) :
            /\ records[i].off \in Nat /\ records[i].off >= 1
            /\ i = b[records[i].seg] + records[i].off
            /\ records[i].off <= Len(files[records[i].seg].lines) => Names(files, records[i])
            /\ i <= EndOf(files, n, b) => records[i].off <= Len(files[records[i].seg].lines)
            /\ i > b[n] => records[i].seg = n
            /\ records[i].seg = n => i > b[n]
  BY <1>1, LayoutFacts
<1>3. PICK r \in Nat : r = Len(records)
  BY <1>2
<1>4. PICK m \in Nat : m = b[n]
  BY <1>2
<1>5. PICK lines : lines = files[n].lines
  OBVIOUS
<1>6. lines \in Seq(Line) /\ Len(lines) \in Nat /\ DOMAIN lines = 1..Len(lines) /\ r = m + Len(lines)
  BY <1>1, <1>2, <1>3, <1>4, <1>5, FileOf, LenProperties DEF EndOf
<1>7. r >= 1 /\ records[r].seg = n
  BY <1>3 DEF Sound, Working
<1>8. m < r
  BY <1>2, <1>3, <1>4, <1>7
<1>9. Seqs(n) = (m + 1)..r
  BY <1>1, <1>2, <1>3, <1>4 DEF Seqs
<1>10. Max(Seqs(n)) = r /\ Min(Seqs(n)) = m + 1
  <2>1. r \in (m + 1)..r /\ m + 1 \in (m + 1)..r /\ \A y \in (m + 1)..r : r >= y /\ m + 1 <= y
    BY <1>8
  <2>2. \A x \in (m + 1)..r : /\ (\A y \in (m + 1)..r : x >= y) => x = r
                              /\ (\A y \in (m + 1)..r : x <= y) => x = m + 1
    BY <2>1
  <2> QED  BY <1>9, <2>1, <2>2 DEF Max, Min
<1>11. Cardinality(Seqs(n)) = r - m
  <2>1. m + 1 \in Int /\ r \in Int /\ ~(m + 1 > r)
    BY <1>8
  <2>2. Cardinality((m + 1)..r) = r - (m + 1) + 1
    BY <2>1, FS_Interval
  <2> QED  BY <1>9, <2>2
<1>12. PICK t : t = SyncedMmr
  OBVIOUS
<1>13. /\ t \in Seq(Capsule) /\ Len(t) = r
       /\ \A i \in 1..r : t[i] = records[i].id
  <2>1. /\ t \in Seq(Capsule) /\ Len(t) = r
        /\ \A i \in 1..Len(mmr) : t[i] = mmr[i]
        /\ \A i \in 1..r : i > Len(mmr) => t[i] = records[i].id
    BY <1>1, <1>3, <1>12, SyncedMmrOf DEF MmrPrefix
  <2>2. \A i \in 1..Len(mmr) : mmr[i] = records[i].id
    BY DEF MmrPrefix
  <2>3. Len(mmr) \in Nat
    BY <1>1, LenProperties
  <2>4. ASSUME NEW i \in 1..r PROVE t[i] = records[i].id
    <3>1. i > Len(mmr) \/ i \in 1..Len(mmr)
      BY <2>3
    <3> QED  BY <2>1, <2>2, <3>1
  <2> QED  BY <2>1, <2>4
<1>14. ASSUME NEW k \in 1..Len(lines)
       PROVE  m + k \in 1..r /\ records[m + k].id = lines[k].id
  <2>1. PICK i : i = m + k
    OBVIOUS
  <2>2. i \in 1..Len(records) /\ i > b[n] /\ i <= EndOf(files, n, b)
    BY <1>3, <1>4, <1>6, <2>1
  <2>3. records[i].seg = n
    BY <1>2, <2>2
  <2>4. i = b[n] + records[i].off /\ records[i].off \in Nat
    BY <1>2, <2>2, <2>3
  <2>5. records[i].off = k
    BY <1>4, <2>1, <2>4
  <2>6. Names(files, records[i])
    BY <1>2, <2>2
  <2>7. records[i].id = lines[k].id
    BY <1>5, <2>3, <2>5, <2>6 DEF Names
  <2> QED  BY <1>3, <2>1, <2>2, <2>7
<1>15. SubSeq(t, m + 1, r) = IdsOf(lines)
  <2>1. PICK u : u = SubSeq(t, m + 1, r)
    OBVIOUS
  <2>2. \A i \in (m + 1)..r : t[i] \in Capsule
    <3>1. \A i \in 1..r : t[i] \in Capsule
      BY <1>13, ElementOfSeq
    <3> QED  BY <3>1
  <2>3. m + 1 \in Int /\ r \in Int /\ m + 1 <= r /\ r - (m + 1) + 1 = Len(lines)
    BY <1>6, <1>8
  <2>4. /\ u \in Seq(Capsule) /\ Len(u) = Len(lines)
        /\ \A i \in 1..Len(lines) : u[i] = t[m + 1 + i - 1]
    BY <2>1, <2>2, <2>3, SubSeqProperties
  <2>5. ASSUME NEW i \in 1..Len(lines) PROVE u[i] = lines[i].id
    <3>1. m + 1 + i - 1 = m + i
      OBVIOUS
    <3>2. u[i] = t[m + i] /\ m + i \in 1..r /\ records[m + i].id = lines[i].id
      BY <1>14, <2>4, <3>1
    <3> QED  BY <1>13, <3>2
  <2>6. u = [i \in 1..Len(lines) |-> u[i]]
    <3>1. u \in [1..Len(u) -> Capsule]
      BY <2>4, LenProperties
    <3> QED  BY <2>4, <3>1
  <2>7. IdsOf(lines) = [i \in 1..Len(lines) |-> lines[i].id]
    BY <1>6 DEF IdsOf
  <2> QED  BY <2>1, <2>5, <2>6, <2>7
<1>16. PICK seal : seal = Seal(n, SyncedMmr)
  OBVIOUS
<1>17. seal.first = m + 1 /\ seal.last = r /\ seal.count = r - m /\ seal.lines = lines
       /\ seal.leaves = t
  BY <1>5, <1>10, <1>11, <1>12, <1>16 DEF Seal
<1>18. VerifySegment(lines, seal)
  <2>1. Len(lines) = r - m /\ r - (m + 1) + 1 = r - m /\ r <= r
    BY <1>6
  <2> QED  BY <1>13, <1>15, <1>17, <2>1 DEF VerifySegment
<1> QED  BY <1>3, <1>5, <1>10, <1>12, <1>13, <1>16, <1>18

\* The checkpointer's leaves change when it syncs and when the process ends.
LEMMA MmrChange ==
    ASSUME LedgerNext
    PROVE  \/ mmr' = mmr
           \/ (Stop \/ PowerLoss) /\ mmr' = <<>>
           \/ (Rotate \/ RotateRaises) /\ mmr' = SyncedMmr /\ records' = records /\ status = "rotate"
<1>1. CASE Stop \/ PowerLoss
  BY <1>1 DEF Stop, PowerLoss, Down
<1>2. CASE Rotate
  BY <1>2 DEF Rotate
<1>3. CASE RotateRaises
  <2> HIDE DEF SyncedMmr
  <2> QED  BY <1>3, Zenon DEF RotateRaises
<1>4. CASE ~Stop /\ ~PowerLoss /\ ~Rotate /\ ~RotateRaises
  BY <1>4, Zenon DEF LedgerNext, LedgerStep, Open, CreateSave, AppendLine, AppendFails, InsertRecord,
        InsertFails, AppendLookup, Save, SaveFails, RecoverStart, CatchUpLookup, RecoverLine,
        RecoverLookup, RecoverEnd, Reindex, RebuildLookup, Unmount, Mount, memVars
<1> QED  BY <1>1, <1>2, <1>3, <1>4

\* It keeps being a prefix of the records.
LEMMA MmrStep ==
    ASSUME Sound, Laid, ~manifestLost, MmrPrefix, LedgerNext
    PROVE  MmrPrefix'
<1>1. /\ FilesOk(files) /\ RowsTyped(records, files) /\ mmr \in Seq(Capsule)
      /\ DOMAIN records = 1..Len(records)
      /\ Len(records) \in Nat
  BY SoundFacts
<1>2. Len(mmr) \in Nat
  BY <1>1, LenProperties
<1>3. CASE Stop \/ PowerLoss
  <2>1. mmr' = <<>> /\ records' = records
    BY <1>3 DEF Stop, PowerLoss, Down, diskVars
  <2>2. Len(mmr') = 0
    BY <2>1, EmptySeq
  <2> QED  BY <1>1, <2>1, <2>2 DEF MmrPrefix
<1>4. CASE mmr' = SyncedMmr /\ records' = records
  <2>1. PICK t : t = SyncedMmr
    OBVIOUS
  <2>2. /\ Len(t) = Len(records)
        /\ \A i \in 1..Len(mmr) : t[i] = mmr[i]
        /\ \A i \in 1..Len(records) : i > Len(mmr) => t[i] = records[i].id
    BY <1>1, <2>1, SyncedMmrOf DEF MmrPrefix
  <2>3. \A i \in 1..Len(mmr) : mmr[i] = records[i].id
    BY DEF MmrPrefix
  <2>4. ASSUME NEW i \in 1..Len(records) PROVE t[i] = records[i].id
    <3>1. i > Len(mmr) \/ i \in 1..Len(mmr)
      BY <1>1, <1>2
    <3> QED  BY <2>2, <2>3, <3>1
  <2>5. mmr' = t
    BY <1>4, <2>1
  <2> QED  BY <1>1, <1>4, <2>2, <2>4, <2>5 DEF MmrPrefix
<1>5. CASE mmr' = mmr /\ ~Reindex
  <2>1. /\ Len(records) <= Len(records') /\ Len(records') \in Nat
        /\ \A i \in 1..Len(records) : records'[i] = records[i]
    BY <1>5, RecordsGrow
  <2>2. \A i \in 1..Len(mmr) : i \in 1..Len(records) /\ mmr[i] = records[i].id
    BY <1>1, <1>2 DEF MmrPrefix
  <2>3. Len(mmr) <= Len(records')
    BY <1>1, <1>2, <2>1 DEF MmrPrefix
  <2> QED  BY <1>5, <2>1, <2>2, <2>3 DEF MmrPrefix
<1>6. CASE mmr' = mmr /\ Reindex
  <2>1. records' = records \/ records' = Leaves
    BY <1>6 DEF Reindex
  <2>2. CASE records' = records
    BY <1>6, <2>2 DEF MmrPrefix
  <2>3. CASE records' = Leaves /\ mmr = <<>>
    <3>1. Len(mmr) = 0
      BY <2>3, EmptySeq
    <3>2. status # "down"
      BY <1>6 DEF Reindex
    <3>3. PICK rs : rs = Leaves
      OBVIOUS
    <3>4. Len(rs) \in Nat
      BY <3>2, <3>3, LeavesSound, RowOf
    <3> HIDE DEF Leaves
    <3> QED  BY <1>6, <2>3, <3>1, <3>3, <3>4 DEF MmrPrefix
  <2>4. CASE records' = Leaves /\ mmr # <<>>
    <3>1. status # "down" /\ Len(manifest.segs) = Active /\ View = manifest
      BY <1>6, SoundFacts DEF Reindex, View
    <3>2. PICK n : n = Active
      OBVIOUS
    <3>3. PICK b : Layout(files, records, n, b)
      BY <3>1, <3>2 DEF Laid, LaidBy, Fresh, Active
    <3>4. \A i \in 1..Len(records) : Names(files, records[i])
      BY <2>4, <3>1, NamesAll
    <3>5. PICK rs : rs = Leaves
      OBVIOUS
    <3>6. \A i \in 1..Len(records) : records[i].off <= Len(files[records[i].seg].lines)
      BY <3>4 DEF Names
    <3>7. \A i \in 1..Len(records) : i \in 1..Len(rs) /\ rs[i].id = records[i].id
      BY <1>1, <3>1, <3>2, <3>3, <3>5, <3>6, LeavesAgree
    <3>8. Len(rs) \in Nat
      BY <3>1, <3>5, LeavesSound, RowOf
    <3>9. /\ Len(mmr) <= Len(records)
          /\ \A i \in 1..Len(mmr) : i \in 1..Len(records) /\ mmr[i] = records[i].id
      BY <1>1, <1>2 DEF MmrPrefix
    <3>10. Len(mmr) <= Len(rs)
      <4>1. CASE Len(records) = 0
        BY <1>1, <1>2, <3>8, <3>9, <4>1
      <4>2. CASE Len(records) # 0
        <5>1. Len(records) \in 1..Len(records)
          BY <1>1, <4>2
        <5>2. Len(records) \in 1..Len(rs)
          BY <3>7, <5>1
        <5> QED  BY <1>1, <1>2, <3>8, <3>9, <5>2
      <4> QED  BY <4>1, <4>2
    <3>11. \A i \in 1..Len(mmr) : mmr[i] = rs[i].id
      BY <3>7, <3>9
    <3>12. records' = rs /\ mmr' = mmr
      BY <1>6, <2>4, <3>5
    <3> HIDE DEF Leaves
    <3> QED  BY <3>10, <3>11, <3>12 DEF MmrPrefix
  <2> QED  BY <2>1, <2>2, <2>3, <2>4
<1> QED  BY <1>3, <1>4, <1>5, <1>6, MmrChange

\* The seal of a closed segment is not written again.
LEMMA SealedKept ==
    ASSUME Sound, LedgerNext, status # "down", ~Rotate, ~Stop, ~PowerLoss, NEW t \in 1..Active,
           t < Active
    PROVE  manifest'.segs[t].sealed = manifest.segs[t].sealed
<1>1. Active \in Nat /\ t # Active
  <2>1. Active \in 1..Len(files)
    BY SoundFacts
  <2> QED  BY <2>1
<1>2. CASE RotateRaises
  <2>1. \/ manifest' = manifest
        \/ manifest'.segs[t].sealed = IF t = Active THEN Seal(Active, SyncedMmr)
           ELSE manifest.segs[t].sealed
    BY <1>2, RaisedManifest
  <2> HIDE DEF Active, Seal
  <2> QED  BY <1>1, <2>1
<1>3. CASE status = "ready" /\ \E s \in Segments : Unmount(s) \/ Mount(s)
  <2>1. PICK s \in Segments, v \in BOOLEAN : manifest' = Marked(s, v)
    BY <1>3 DEF Unmount, Mount
  <2> QED  BY <1>3, <2>1, MarkedManifest
<1>4. ~Open
  BY DEF Open
<1> QED  BY <1>2, <1>3, <1>4, ManifestChange

\* The seals of a manifest are those of another that has the same closed segments.
LEMMA SealsKept ==
    ASSUME NEW m, NEW fs, SealsOk(m, fs), NEW q, NEW gs, q.active = m.active,
           \A s \in 1..m.active : s < m.active => q.segs[s].sealed = m.segs[s].sealed,
           \A s \in 1..m.active : s < m.active => gs[s].lines = fs[s].lines
    PROVE  SealsOk(q, gs)
<1>1. SUFFICES ASSUME NEW s \in 1..m.active, s < m.active, q.segs[s].sealed # None
               PROVE  VerifySegment(gs[s].lines, q.segs[s].sealed)
  BY DEF SealsOk
<1>2. q.segs[s].sealed = m.segs[s].sealed /\ gs[s].lines = fs[s].lines
  BY <1>1
<1>3. VerifySegment(fs[s].lines, m.segs[s].sealed)
  BY <1>1, <1>2 DEF SealsOk
<1> QED  BY <1>2, <1>3

\* The segments before the active one, and the active one when it is closed.
LEMMA RotateSeals ==
    ASSUME Sound, LedgerNext, Rotate, MmrPrefix, SealsOk(manifest, files), NEW n, n = Active,
           NEW b, LaidBy(n, b)
    PROVE  SealsOk(manifest', files')
<1>1. status = "rotate" /\ status # "down"
  BY DEF Rotate
<1>2. Layout(files, records, n, b) /\ Len(records) = EndOf(files, n, b)
  BY <1>1 DEF LaidBy, TailOk, Settled
<1>3. /\ manifest'.active = n + 1
      /\ \A t \in 1..n : manifest'.segs[t].sealed = IF t = n THEN Seal(n, SyncedMmr)
         ELSE manifest.segs[t].sealed
  BY RotateManifest
<1>4. n \in 1..Len(files) /\ n \in Nat
  BY <1>1, SoundFacts
<1>5. files'[n].lines = files[n].lines /\ \A s \in 1..n : s # n => files'[s].lines = files[s].lines
  <2>1. n = View.active /\ ~Fresh
    BY <1>1 DEF View, Active, Fresh
  <2>2. \A s \in 1..n : s < n => files'[s].lines = files[s].lines
    BY <1>2, <2>1, ClosedLines
  <2>3. \A s \in 1..n : s # n => s < n
    BY <1>4
  <2> QED  BY <2>2, <2>3, RotatedFiles
<1>6. VerifySegment(files[n].lines, Seal(n, SyncedMmr))
  BY <1>1, <1>2, NewSeal
<1>7. SUFFICES ASSUME NEW s \in 1..(n + 1), s < n + 1, manifest'.segs[s].sealed # None
               PROVE  VerifySegment(files'[s].lines, manifest'.segs[s].sealed)
  BY <1>3 DEF SealsOk
<1>8. s \in 1..n
  BY <1>4, <1>7
<1>9. CASE s = n
  <2>1. manifest'.segs[s].sealed = Seal(n, SyncedMmr)
    BY <1>3, <1>8, <1>9
  <2> QED  BY <1>5, <1>6, <1>9, <2>1
<1>10. CASE s # n
  <2>1. manifest'.segs[s].sealed = manifest.segs[s].sealed /\ files'[s].lines = files[s].lines
    BY <1>3, <1>5, <1>8, <1>10
  <2>2. s < n /\ n = manifest.active
    BY <1>4, <1>8, <1>10 DEF Active
  <2>3. VerifySegment(files[s].lines, manifest.segs[s].sealed)
    BY <1>7, <1>8, <2>1, <2>2 DEF SealsOk
  <2> QED  BY <2>1, <2>3
<1> QED  BY <1>9, <1>10

\* Every step keeps Seals.
LEMMA SealsStep ==
    ASSUME Sound, Unborn, Mounts, Laid, Seals, LedgerNext
    PROVE  Seals'
<1>1. SUFFICES ASSUME ~manifestLost'
               PROVE  /\ MmrPrefix'
                      /\ status' # "down" => SealsOk(manifest', files')
                      /\ disk' # None => SealsOk(disk', files')
  BY DEF Seals
<1>2. ~manifestLost /\ MmrPrefix /\ (status # "down" => SealsOk(manifest, files))
  BY <1>1, LostStays DEF Seals
<1>3. MmrPrefix'
  BY <1>2, MmrStep
<1>5. status = "down" /\ disk # None => SealsOk(disk, files)
  BY <1>2 DEF Seals
<1>6. ASSUME status' # "down" PROVE SealsOk(manifest', files')
  <2>1. CASE status = "down"
    <3>1. Open
      BY <1>6, <2>1 DEF LedgerNext, LedgerStep, CreateSave, Stop, PowerLoss, Down, AppendLine,
          AppendFails, MayAppend, InsertRecord, InsertFails, AppendLookup, Rotate, RotateRaises,
          Save, SaveFails, RecoverStart, CatchUpLookup, RecoverLine, RecoverLookup, RecoverEnd,
          Reindex, RebuildLookup
    <3>2. CASE disk # None
      BY <1>5, <2>1, <3>1, <3>2 DEF Open
    <3>3. CASE disk = None
      <4>1. manifest'.active = 1
        BY <3>1, <3>3 DEF Open
      <4> QED  BY <4>1 DEF SealsOk
    <3> QED  BY <3>2, <3>3
  <2>2. CASE status # "down"
    <3>1. PICK n : n = Active
      OBVIOUS
    <3>2. ~Fresh /\ View = manifest /\ n = View.active
      BY <2>2, <3>1 DEF Fresh, View, Active
    <3>3. PICK b : LaidBy(n, b)
      BY <1>2, <3>2 DEF Laid
    <3>4. CASE Rotate
      BY <1>2, <2>2, <3>1, <3>3, <3>4, RotateSeals
    <3>5. CASE ~Rotate
      <4>1. ~Stop /\ ~PowerLoss
        BY <1>6 DEF Stop, PowerLoss, Down
      <4>2. manifest'.active = n
        BY <2>2, <3>1, <3>5, <4>1, ActiveKept DEF Active
      <4>3. \A s \in 1..n : s < n => files'[s].lines = files[s].lines
        BY <3>2, <3>3, ClosedLines DEF LaidBy
      <4>4. \A s \in 1..n : s < n => manifest'.segs[s].sealed = manifest.segs[s].sealed
        BY <2>2, <3>1, <3>5, <4>1, SealedKept
      <4>5. PICK m : m = manifest
        OBVIOUS
      <4>6. PICK q : q = manifest'
        OBVIOUS
      <4>7. PICK gs : gs = files'
        OBVIOUS
      <4>8. SealsOk(q, gs)
        BY <1>2, <2>2, <3>2, <4>2, <4>3, <4>4, <4>5, <4>6, <4>7, SealsKept
      <4> QED  BY <4>6, <4>7, <4>8
    <3> QED  BY <3>4, <3>5
  <2> QED  BY <2>1, <2>2
<1>7. ASSUME disk' # None PROVE SealsOk(disk', files')
  <2>2. CASE disk' = disk
    <3>1. SealsOk(disk, files)
      BY <1>2, <1>7, <2>2 DEF Seals
    <3>2. PICK n : n = View.active
      OBVIOUS
    <3>3. ~Fresh
      BY <1>7, <2>2 DEF Fresh
    <3>4. PICK b : LaidBy(n, b)
      BY <1>2, <3>2, <3>3 DEF Laid
    <3>5. PICK m : m = disk
      OBVIOUS
    <3>6. ManifestOk(m, files)
      BY <1>7, <2>2, <3>5 DEF Sound, Manifests
    <3>7. n \in Nat /\ m.active \in Nat /\ m.active <= n
      <4>1. n \in Nat /\ m.active \in Nat
        BY <3>4, <3>6, ManifestOf, SoundFacts, LayoutFacts DEF LaidBy
      <4>2. m.active = n \/ m.active <= n
        BY <1>7, <2>2, <3>2, <3>4, <3>5 DEF LaidBy, DiskLags, View
      <4> QED  BY <4>1, <4>2
    <3>8. \A s \in 1..n : s < n => files'[s].lines = files[s].lines
      BY <3>2, <3>3, <3>4, ClosedLines DEF LaidBy
    <3>9. PICK gs : gs = files'
      OBVIOUS
    <3>10. \A s \in 1..m.active : s < m.active => gs[s].lines = files[s].lines
      <4>1. \A s \in 1..m.active : s < m.active => s \in 1..n /\ s < n
        BY <3>7
      <4> QED  BY <3>8, <3>9, <4>1
    <3>11. SealsOk(m, gs)
      BY <3>1, <3>5, <3>10, SealsKept
    <3> QED  BY <2>2, <3>5, <3>9, <3>11
  <2>3. CASE disk' # disk /\ (CreateSave \/ Save \/ SaveFails)
    <3>1. disk' = manifest /\ files' = files /\ status # "down"
      BY <2>3 DEF CreateSave, Save, SaveFails
    <3> QED  BY <1>2, <3>1
  <2> QED  BY <2>2, <2>3, DiskChange
<1> QED  BY <1>3, <1>6, <1>7

\* Seals is an invariant.
LEMMA SealsInvariant == LedgerSpec => []Seals
<1>1. LedgerInit => Seals
  <2> SUFFICES ASSUME LedgerInit PROVE Seals
    OBVIOUS
  <2>1. mmr = <<>> /\ records = <<>> /\ status = "down" /\ disk = None
    BY DEF LedgerInit
  <2>2. Len(mmr) = 0 /\ Len(records) = 0
    BY <2>1, EmptySeq
  <2> QED  BY <2>1, <2>2 DEF Seals, MmrPrefix
<1>2. ASSUME Sound, Unborn, Mounts, Laid, Seals, [LedgerNext]_ledgerVars
      PROVE  Seals'
  <2>1. CASE LedgerNext
    BY <1>2, <2>1, SealsStep
  <2>2. CASE UNCHANGED ledgerVars
    <3>1. UNCHANGED <<files, disk, records, status, manifest, mmr, manifestLost>>
      BY <2>2 DEF ledgerVars, diskVars, memVars, historyVars
    <3> QED  BY <1>2, <3>1, Zenon DEF Seals, MmrPrefix, SealsOk
  <2> QED  BY <1>2, <2>1, <2>2
<1> QED  BY <1>1, <1>2, SoundInvariant, UnbornInvariant, MountsInvariant, LaidInvariant, PTL
    DEF LedgerSpec

\* verify_segment_standalone accepts every segment that _rotate_segment closed: its lines and
\* the leaves of the checkpoint taken then are not changed by anything the store does later.
THEOREM SegmentsDoVerify == LedgerSpec => []SegmentsVerify
<1>1. Sound /\ Mounts /\ Seals => SegmentsVerify
  <2> SUFFICES ASSUME Sound, Mounts, Seals, status \in {"opened", "ready"}, ~manifestLost,
                      NEW s \in Segments \ {Active}, manifest.segs[s].sealed # None
               PROVE  IF s \in moveCut THEN VerifySegment(files[s].lines, manifest.segs[s].sealed)
                      ELSE VerifySegmentStandalone(s)
    BY DEF SegmentsVerify
  <2>1. status # "down" /\ Segments = 1..Active /\ Active \in 1..Len(files) /\ Len(files) \in Nat
    BY SoundFacts
  <2>2. s \in 1..manifest.active /\ s < manifest.active
    BY <2>1 DEF Active
  <2>3. VerifySegment(files[s].lines, manifest.segs[s].sealed)
    BY <2>1, <2>2 DEF Seals, SealsOk
  <2>4. s \notin moveCut => (s \in archived <=> Unmounted(s))
    BY <2>1, ArchivedUnmounted
  <2> QED  BY <2>3, <2>4 DEF VerifySegmentStandalone
<1> QED  BY <1>1, SoundInvariant, MountsInvariant, SealsInvariant, PTL

-----------------------------------------------------------------------------
(***************************************************************************)
(* The bound of the active segment.                                        *)
(***************************************************************************)
\* What lets a segment grow past its threshold.
Slack == used["fault"] + used["save"] + used["stop"] + used["power"]

\* A line is written that the append has not closed the segment after.
Filling == status \in {"insert", "lookup", "rotate"}

\* The active segment, and the one that a rotation in progress would give back.
Bound ==
    used["move"] = 0 /\ ~manifestLost =>
        /\ View # None => Len(files[View.active].lines) <=
                             Threshold - 1 + Slack + (IF Filling THEN 1 ELSE 0)
        /\ status # "down" /\ disk # None => Len(files[disk.active].lines) <= Threshold + Slack

\* The lines a segment may have beyond its bound: each failure and each end allows one more.
LEMMA SlackChange ==
    ASSUME Sound, LedgerNext
    PROVE  /\ Slack \in Nat /\ Slack' \in Nat /\ Slack <= Slack'
           /\ \A k \in {"fault", "save", "stop", "power"} : Use(k) => Slack' >= Slack + 1
<1>1. used \in [EventKind -> Nat]
  BY DEF Sound, Memory
<1>2. used' \in [EventKind -> Nat] /\ \A k \in EventKind : used[k] <= used'[k]
  BY <1>1, UsedChange
<1>3. /\ used["fault"] \in Nat /\ used["save"] \in Nat /\ used["stop"] \in Nat /\ used["power"] \in Nat
      /\ used'["fault"] \in Nat /\ used'["save"] \in Nat /\ used'["stop"] \in Nat
      /\ used'["power"] \in Nat
      /\ used["fault"] <= used'["fault"] /\ used["save"] <= used'["save"]
      /\ used["stop"] <= used'["stop"] /\ used["power"] <= used'["power"]
  BY <1>1, <1>2 DEF EventKind
<1>4. \A k \in {"fault", "save", "stop", "power"} : Use(k) => used'[k] = used[k] + 1
  BY <1>1 DEF Use, EventKind
<1> QED  BY <1>3, <1>4 DEF Slack

\* Before any archival a rotation finds every record and closes at its boundary.
LEMMA RotationSucceeds ==
    ASSUME Sound, Mounts, Laid, Seals, ~manifestLost, used["move"] = 0, status = "rotate"
    PROVE  CanScan /\ ClosesAtBoundary
<1>1. CanScan
  <2>1. \A i \in 1..Len(records) : Names(files, records[i])
    BY NamesAll
  <2>2. archived = {} /\ AllMounted(manifest) /\ DOMAIN records = 1..Len(records)
        /\ Segments = 1..manifest.active
    BY SoundFacts DEF Mounts, Active
  <2>3. \A s : ~Unmounted(s)
    BY <2>2 DEF Unmounted, AllMounted
  <2>4. \A i \in 1..Len(records) : Read(records[i]) = "found"
    BY <2>1, <2>2, <2>3, ReadOf
  <2> QED  BY <2>2, <2>4 DEF CanScan, Readable
<1>2. ClosesAtBoundary
  <2>1. PICK n : n = Active
    OBVIOUS
  <2>2. n = View.active /\ ~Fresh
    BY <2>1 DEF View, Active, Fresh
  <2>3. PICK b : LaidBy(n, b)
    BY <2>2 DEF Laid
  <2>4. Layout(files, records, n, b) /\ Len(records) = EndOf(files, n, b)
    BY <2>3 DEF LaidBy, TailOk, Settled
  <2>5. MmrPrefix
    BY DEF Seals
  <2> QED  BY <2>1, <2>4, <2>5, NewSeal DEF ClosesAtBoundary
<1> QED  BY <1>1, <1>2

\* What a step adds to the active segment of an instance.
LEMMA ActiveGrows ==
    ASSUME Sound, LedgerNext, status # "down", ~Rotate, ~Stop, ~PowerLoss, NEW n, n = Active
    PROVE  /\ Len(files[n].lines) \in Nat /\ Len(files'[n].lines) \in Nat
           /\ \/ Len(files'[n].lines) = Len(files[n].lines)
              \/ /\ Len(files'[n].lines) = Len(files[n].lines) + 1
                 /\ \/ status' = "insert" /\ status = "ready"
                    \/ Use("fault") /\ status = "ready" /\ status' = "ready"
<1>1. n \in 1..Len(files) /\ FilesOk(files) /\ FilesOk(files') /\ n \in 1..Len(files')
  <2>1. n \in 1..Len(files) /\ FilesOk(files) /\ FilesOk(files')
    BY SoundFacts, SoundFiles
  <2>2. Len(files') = Len(files)
    BY ActiveKept
  <2> QED  BY <2>1, <2>2
<1>2. Len(files[n].lines) \in Nat /\ Len(files'[n].lines) \in Nat
  BY <1>1, FileOf
<1>3. CASE SameLines(files, files', n) \/ files' = files
  BY <1>1, <1>2, <1>3 DEF SameLines
<1>4. ASSUME NEW c \in Capsule, NEW sub \in scenario.submissions, AppendLine(c, sub)
      PROVE  /\ Len(files'[n].lines) = Len(files[n].lines) + 1 /\ status' = "insert" /\ status = "ready"
  BY <1>4, AppendedFiles DEF LineAdded, AppendLine, MayAppend
<1>5. ASSUME NEW c \in Capsule, NEW sub \in scenario.submissions, AppendFails(c, sub)
      PROVE  /\ SameLines(files, files', n) \/ Len(files'[n].lines) = Len(files[n].lines) + 1
             /\ Use("fault") /\ status = "ready" /\ status' = "ready"
  BY <1>5, FailedFiles DEF LineAdded, AppendFails, MayAppend
<1>6. CASE RotateRaises
  BY <1>3, <1>6, <1>2, RaisedFiles
<1>7. CASE RecoverStart
  BY <1>3, <1>7, <1>2, RecoverStartFiles
<1>8. CASE RecoverEnd
  BY <1>3, <1>8, <1>2, RecoverEndFiles
<1>9. CASE Reindex
  BY <1>3, <1>9, <1>2, ReindexedFiles
<1>10. ~Open
  BY DEF Open
<1> HIDE DEF Use
<1> QED  BY <1>2, <1>3, <1>4, <1>5, <1>6, <1>7, <1>8, <1>9, <1>10, FilesChange

\* When an append ends, it has closed a full segment or something failed.
LEMMA FillingEnds ==
    ASSUME Sound, Mounts, Laid, Seals, ~manifestLost, used["move"] = 0, LedgerNext, ~Rotate, ~Stop,
           ~PowerLoss,
           Filling, ~Filling'
    PROVE  Use("fault") \/ Use("save") \/ (files' = files /\ Len(files[Active].lines) < Threshold)
<1>1. CASE AppendLookup
  <2>1. files' = files /\ ~Full
    BY <1>1 DEF AppendLookup, Filling
  <2>2. Len(files[Active].lines) \in Nat /\ Threshold \in Nat
    <3>1. FilesOk(files) /\ Active \in 1..Len(files)
      BY SoundFacts DEF Filling
    <3> QED  BY <3>1, FileOf, LedgerAssumption
  <2> QED  BY <2>1, <2>2 DEF Full
<1>2. CASE InsertFails
  BY <1>2 DEF InsertFails
<1>3. CASE RotateRaises
  <2>1. CanScan /\ ClosesAtBoundary
    BY <1>3, RotationSucceeds DEF RotateRaises
  <2> HIDE DEF CanScan, ClosesAtBoundary, Use
  <2> QED  BY <1>3, <2>1 DEF RotateRaises
<1>4. CASE InsertRecord
  BY <1>4 DEF InsertRecord, Filling
<1>5. AppendLookup \/ InsertFails \/ RotateRaises \/ InsertRecord
  BY DEF Filling, LedgerNext, LedgerStep, Open, CreateSave, AppendLine, AppendFails,
        MayAppend, Save, SaveFails, RecoverStart, CatchUpLookup, RecoverLine, RecoverLookup,
        RecoverEnd, Reindex, RebuildLookup
<1> HIDE DEF Use
<1> QED  BY <1>1, <1>2, <1>3, <1>4, <1>5

\* The active segment of an instance, after a step that stays in it.
LEMMA BoundActive ==
    ASSUME Sound, Mounts, Laid, Seals, ~manifestLost, used["move"] = 0, LedgerNext, status # "down",
           ~Rotate, ~Stop, ~PowerLoss, NEW n, n = Active,
           Len(files[n].lines) <= Threshold - 1 + Slack + (IF Filling THEN 1 ELSE 0)
    PROVE  Len(files'[n].lines) <= Threshold - 1 + Slack' + (IF Filling' THEN 1 ELSE 0)
<1>1. /\ Len(files[n].lines) \in Nat /\ Len(files'[n].lines) \in Nat
      /\ \/ Len(files'[n].lines) = Len(files[n].lines)
         \/ /\ Len(files'[n].lines) = Len(files[n].lines) + 1
            /\ \/ status' = "insert" /\ status = "ready"
               \/ Use("fault") /\ status = "ready" /\ status' = "ready"
  BY ActiveGrows
<1>2. PICK l \in Nat, k \in Nat, x \in Nat, y \in Nat, T \in Nat :
         /\ l = Len(files[n].lines) /\ k = Len(files'[n].lines) /\ x = Slack /\ y = Slack'
         /\ T = Threshold
  BY <1>1, SlackChange, LedgerAssumption
<1>3. /\ x <= y
      /\ Use("fault") \/ Use("save") => y >= x + 1
  BY <1>2, SlackChange
<1> HIDE DEF Use, Slack
<1>4. CASE k = l
  <2>1. CASE Filling /\ ~Filling'
    <3>1. Use("fault") \/ Use("save") \/ (files' = files /\ l < T)
      BY <1>2, <2>1, FillingEnds
    <3>2. l <= T - 1 + x + 1
      BY <1>2, <2>1
    <3>3. k <= T - 1 + y
      BY <1>3, <1>4, <3>1, <3>2
    <3> QED  BY <1>2, <2>1, <3>3
  <2>2. CASE ~(Filling /\ ~Filling')
    <3>1. (IF Filling THEN 1 ELSE 0) \in {0, 1} /\ (IF Filling' THEN 1 ELSE 0) \in {0, 1}
          /\ (IF Filling THEN 1 ELSE 0) <= (IF Filling' THEN 1 ELSE 0)
      BY <2>2
    <3>2. PICK u \in {0, 1}, v \in {0, 1} : u = (IF Filling THEN 1 ELSE 0)
               /\ v = (IF Filling' THEN 1 ELSE 0)
      BY <3>1
    <3>3. l <= T - 1 + x + u /\ u <= v
      BY <1>2, <3>1, <3>2
    <3>4. k <= T - 1 + y + v
      BY <1>3, <1>4, <3>3
    <3> QED  BY <1>2, <3>2, <3>4
  <2> QED  BY <2>1, <2>2
<1>5. CASE k = l + 1 /\ status' = "insert" /\ status = "ready"
  <2>1. ~Filling /\ Filling'
    BY <1>5 DEF Filling
  <2>2. l <= T - 1 + x
    BY <1>2, <2>1
  <2>3. k <= T - 1 + y + 1
    BY <1>3, <1>5, <2>2
  <2> QED  BY <1>2, <2>1, <2>3
<1>6. CASE k = l + 1 /\ Use("fault") /\ status = "ready" /\ status' = "ready"
  <2>1. ~Filling /\ ~Filling'
    BY <1>6 DEF Filling
  <2>2. l <= T - 1 + x
    BY <1>2, <2>1
  <2>3. k <= T - 1 + y
    BY <1>3, <1>6, <2>2
  <2> QED  BY <1>2, <2>1, <2>3
<1> QED  BY <1>1, <1>2, <1>4, <1>5, <1>6

\* Every step keeps Bound.
LEMMA BoundStep ==
    ASSUME Sound, Sound', Unborn, Mounts, Laid, Laid', Seals, Bound, LedgerNext
    PROVE  Bound'
<1>1. SUFFICES ASSUME used'["move"] = 0, ~manifestLost'
               PROVE  /\ View' # None => Len(files'[View'.active].lines) <=
                             Threshold - 1 + Slack' + (IF Filling' THEN 1 ELSE 0)
                      /\ status' # "down" /\ disk' # None =>
                            Len(files'[disk'.active].lines) <= Threshold + Slack'
  BY DEF Bound
<1>2. ~manifestLost
  BY <1>1, LostStays
<1>3. used["move"] = 0
  <2>1. used["move"] \in Nat /\ used'["move"] \in Nat /\ used["move"] <= used'["move"]
    BY UsedChange DEF Sound, Memory, EventKind
  <2> QED  BY <1>1, <2>1
<1>4. /\ View # None => Len(files[View.active].lines) <= Threshold - 1 + Slack + (IF Filling THEN 1 ELSE 0)
      /\ status # "down" /\ disk # None => Len(files[disk.active].lines) <= Threshold + Slack
  BY <1>2, <1>3 DEF Bound
<1>5. FilesOk(files) /\ FilesOk(files') /\ Len(files) <= Len(files')
  BY SoundFacts, SoundFiles
<1>6. PICK x \in Nat, y \in Nat, T \in Nat : x = Slack /\ y = Slack' /\ x <= y /\ T = Threshold
           /\ T >= 1
  BY SlackChange, LedgerAssumption
<1>61. T >= 1
  BY <1>6
<1> HIDE DEF Slack
<1>7. CASE Stop \/ PowerLoss
  <2>1. status' = "down" /\ disk' = disk /\ View' = disk /\ ~Filling' /\ (files' = files \/ PowerLoss)
    BY <1>7 DEF Stop, PowerLoss, Down, diskVars, View, Filling
  <2>2. SUFFICES ASSUME disk # None PROVE Len(files'[disk.active].lines) <= T - 1 + y
    BY <1>6, <2>1
  <2>3. PICK m \in 1..Len(files) : m = disk.active
    BY <2>2 DEF Sound, Manifests, ManifestOk
  <2>4. Len(files[m].lines) \in Nat /\ Len(files'[m].lines) \in Nat
        /\ Len(files'[m].lines) <= Len(files[m].lines)
    <3>1. Len(files') \in Nat /\ m \in 1..Len(files')
      BY <1>5, <2>3, SoundFacts, SoundFiles
    <3>2. Len(files[m].lines) \in Nat /\ Len(files'[m].lines) \in Nat
      BY <1>5, <2>3, <3>1, FileOf
    <3>3. PowerLoss => Survives(files, files')
      BY <1>5, PowerFiles
    <3> QED  BY <2>1, <2>3, <3>2, <3>3 DEF Survives
  <2>5. y >= x + 1
    BY <1>6, <1>7, SlackChange DEF Stop, PowerLoss
  <2>6. Len(files[m].lines) <= T + x
    <3>1. CASE status = "down"
      <4>1. View = disk /\ ~Filling
        BY <3>1 DEF View, Filling
      <4>2. Len(files[m].lines) <= T - 1 + x + 0
        BY <1>4, <1>6, <2>2, <2>3, <4>1
      <4> QED  BY <2>4, <4>2
    <3>2. CASE status # "down"
      BY <1>2, <1>4, <1>6, <1>7, <2>2, <2>3, <3>2
    <3> QED  BY <3>1, <3>2
  <2>7. Len(files'[m].lines) <= T - 1 + y
    BY <2>4, <2>5, <2>6
  <2> QED  BY <2>3, <2>7
<1>8. CASE ~Stop /\ ~PowerLoss
  <2>1. ~Fresh' /\ status' # "down"
    BY <1>8, StatusChange DEF Fresh
  <2>2. PICK n : n = View'.active
    OBVIOUS
  <2>3. PICK b : LaidBy(n, b)'
    BY <1>1, <2>1, <2>2 DEF Laid
  <2>4. View' = manifest' /\ manifest' # None /\ n \in 1..Len(files') /\ Len(files'[n].lines) \in Nat
    <3>1. ManifestOk(manifest', files')
      BY <2>1 DEF Sound, Manifests
    <3>2. manifest' # None
      BY <3>1, ManifestThere
    <3>3. View' = manifest'
      BY <2>1 DEF View
    <3>4. n \in 1..Len(files')
      BY <2>2, <3>1, <3>3 DEF ManifestOk
    <3> QED  BY <1>5, <3>2, <3>3, <3>4, FileOf
  <2>5. Len(files'[n].lines) <= T - 1 + y + (IF Filling' THEN 1 ELSE 0)
    <3>1. CASE Open
      <4>1. ~Filling /\ ~Filling' /\ View = disk
        BY <3>1 DEF Open, Filling, View
      <4>2. CASE disk # None
        <5>1. manifest' = disk /\ files' = files
          BY <3>1, <4>2 DEF Open
        <5>2. Len(files[disk.active].lines) <= T - 1 + x + 0
          BY <1>4, <1>6, <4>1, <4>2
        <5>3. Len(files'[n].lines) <= T - 1 + x
          BY <2>2, <2>4, <5>1, <5>2
        <5> QED  BY <1>6, <2>4, <4>1, <5>3
      <4>3. CASE disk = None
        <5>1. n = 1 /\ files' = <<EmptyFile>>
          BY <2>2, <2>4, <3>1, <4>3 DEF Open
        <5>2. files'[1].lines = <<>>
          BY <5>1 DEF EmptyFile
        <5>3. Len(files'[n].lines) = 0
          BY <5>1, <5>2, EmptySeq
        <5>4. 0 <= T - 1 + y + 0
          BY ONLY <1>61, T \in Nat, y \in Nat
        <5> QED  BY <4>1, <5>3, <5>4
      <4> QED  BY <4>2, <4>3
    <3>2. CASE Rotate
      <4>1. PICK m : m = Active
        OBVIOUS
      <4>2. View = manifest /\ m = View.active /\ ~Fresh
        BY <3>2, <4>1 DEF Rotate, View, Fresh, Active
      <4>3. PICK a : Layout(files, records, m, a)
        BY <1>2, <4>2 DEF Laid, LaidBy
      <4>4. files'[m + 1].lines = <<>>
        BY <3>2, <4>1, <4>3, RotatedNew
      <4>5. n = m + 1
        BY <2>2, <2>4, <3>2, <4>1, RotateManifest
      <4>6. Len(files'[n].lines) = 0
        BY <4>4, <4>5, EmptySeq
      <4>7. 0 <= T - 1 + y + 0 /\ 0 <= T - 1 + y + 1
        BY ONLY <1>61, T \in Nat, y \in Nat
      <4> QED  BY <4>6, <4>7
    <3>3. CASE ~Open /\ ~Rotate
      <4>1. status # "down"
        BY <1>8, <3>3 DEF LedgerNext, LedgerStep, CreateSave, AppendLine, AppendFails,
          MayAppend, InsertRecord, InsertFails, AppendLookup, RotateRaises, Save, SaveFails,
          RecoverStart, CatchUpLookup, RecoverLine, RecoverLookup, RecoverEnd, Reindex, RebuildLookup
      <4>2. n = Active
        BY <1>8, <2>2, <2>4, <3>3, <4>1, ActiveKept DEF Active
      <4>3. View # None /\ n = View.active
        <5>1. ManifestOk(manifest, files)
          BY <4>1, SoundFacts
        <5> QED  BY <4>1, <4>2, <5>1, ManifestThere DEF View, Active
      <4>4. Len(files[n].lines) <= Threshold - 1 + Slack + (IF Filling THEN 1 ELSE 0)
        BY <1>4, <4>3
      <4>5. Len(files'[n].lines) <= Threshold - 1 + Slack' + (IF Filling' THEN 1 ELSE 0)
        BY <1>2, <1>3, <1>8, <3>3, <4>1, <4>2, <4>4, BoundActive
      <4> QED  BY <1>6, <4>5
    <3> QED  BY <3>1, <3>2, <3>3
  <2>6. ASSUME disk' # None PROVE Len(files'[disk'.active].lines) <= T + y
    <3>1. CASE disk'.active = n
      <4>1. (IF Filling' THEN 1 ELSE 0) = 1 \/ (IF Filling' THEN 1 ELSE 0) = 0
        OBVIOUS
      <4>2. Len(files'[n].lines) <= T + y
        BY <1>6, <2>4, <2>5, <4>1
      <4> QED  BY <3>1, <4>2
    <3>2. CASE disk'.active # n
      <4>1. status # "down"
        <5>1. SUFFICES ASSUME status = "down" PROVE FALSE
          OBVIOUS
        <5>2. Open
          BY <1>8, <5>1 DEF LedgerNext, LedgerStep, CreateSave, AppendLine, AppendFails,
            MayAppend, InsertRecord, InsertFails, AppendLookup, Rotate, RotateRaises, Save, SaveFails,
            RecoverStart, CatchUpLookup, RecoverLine, RecoverLookup, RecoverEnd, Reindex, RebuildLookup
        <5> QED  BY <2>2, <2>4, <2>6, <3>2, <5>2 DEF Open
      <4>2. disk' = disk
        <5>1. SUFFICES ASSUME disk' = manifest, ~Rotate PROVE FALSE
          BY DiskChange DEF CreateSave, Save, SaveFails, Rotate
        <5>2. manifest'.active = manifest.active
          BY <1>8, <4>1, <5>1, ActiveKept
        <5> QED  BY <2>2, <2>4, <3>2, <5>1, <5>2
      <4>3. PICK d : d = disk.active
        OBVIOUS
      <4>4. d \in 1..Len(files)
        BY <2>6, <4>2, <4>3 DEF Sound, Manifests, ManifestOk
      <4>5. PICK k : k = Active
        OBVIOUS
      <4>6. k = View.active /\ ~Fresh /\ k \in 1..Len(files) /\ Len(files) \in Nat
        BY <4>1, <4>5, SoundFacts DEF View, Fresh, Active
      <4>7. PICK a : LaidBy(k, a)
        BY <1>2, <4>6 DEF Laid
      <4>8. d <= k
        BY <2>6, <4>1, <4>2, <4>3, <4>7 DEF LaidBy, DiskLags
      <4>9. files'[d].lines = files[d].lines
        <5>1. CASE Rotate
          BY <4>4, <4>5, <5>1, RotatedFiles
        <5>2. CASE ~Rotate
          <6>1. n = k
            BY <1>8, <2>2, <2>4, <4>1, <4>5, <5>2, ActiveKept DEF Active
          <6>2. d \in 1..k /\ d < k
            BY <3>2, <4>2, <4>3, <4>4, <4>6, <4>8, <6>1
          <6> QED  BY <4>6, <4>7, <6>2, ClosedLines DEF LaidBy
        <5> QED  BY <5>1, <5>2
      <4>10. Len(files[d].lines) <= T + x /\ Len(files[d].lines) \in Nat
        BY <1>4, <1>5, <1>6, <2>6, <4>1, <4>2, <4>3, <4>4, FileOf
      <4>11. Len(files'[d].lines) <= T + y
        BY <1>6, <4>9, <4>10
      <4> QED  BY <4>2, <4>3, <4>11
    <3> QED  BY <3>1, <3>2
  <2> QED  BY <1>6, <2>2, <2>5, <2>6
<1> QED  BY <1>7, <1>8

\* Bound is an invariant.
LEMMA BoundInvariant == LedgerSpec => []Bound
<1>1. LedgerInit => Bound
  BY DEF LedgerInit, Bound, View
<1>2. ASSUME Sound, Sound', Unborn, Mounts, Laid, Laid', Seals, Bound, [LedgerNext]_ledgerVars
      PROVE  Bound'
  <2>1. CASE LedgerNext
    BY <1>2, <2>1, BoundStep
  <2>2. CASE UNCHANGED ledgerVars
    <3>1. UNCHANGED <<files, disk, status, manifest, used, manifestLost>>
      BY <2>2 DEF ledgerVars, diskVars, memVars, historyVars
    <3> QED  BY <1>2, <3>1, Zenon DEF Bound, View, Slack, Filling
  <2> QED  BY <1>2, <2>1, <2>2
<1> QED  BY <1>1, <1>2, SoundInvariant, UnbornInvariant, MountsInvariant, LaidInvariant,
    SealsInvariant, PTL
      DEF LedgerSpec

\* Until a segment is archived, or the manifest lost, the active segment has fewer lines than the
\* threshold at which append rotates, but for one more for each failed write or save and each end
\* of the process between an append's line and its rotation.
THEOREM SegmentsAreBounded == LedgerSpec => []BoundedUntilArchival
<1>1. Sound /\ Bound => BoundedUntilArchival
  <2> SUFFICES ASSUME Sound, Bound, used["move"] = 0, ~manifestLost, status = "ready"
               PROVE  Len(files[Active].lines) <=
                        Threshold - 1 + used["fault"] + used["save"] + used["stop"] + used["power"]
    BY DEF BoundedUntilArchival, SegmentBounded
  <2>1. View = manifest /\ ~Filling
    BY DEF View, Filling
  <2>2. manifest # None
    BY SoundFacts, ManifestThere
  <2>3. Len(files[manifest.active].lines) <= Threshold - 1 + Slack + 0
    BY <2>1, <2>2 DEF Bound
  <2>4. /\ used["fault"] \in Nat /\ used["save"] \in Nat /\ used["stop"] \in Nat
        /\ used["power"] \in Nat
        /\ Threshold \in Nat
    BY LedgerAssumption DEF Sound, Memory, EventKind
  <2>5. Threshold - 1 + Slack + 0 = Threshold - 1 + used["fault"] + used["save"] + used["stop"] + used["power"]
    BY <2>4 DEF Slack
  <2> QED  BY <2>3, <2>5 DEF Active
<1> QED  BY <1>1, SoundInvariant, BoundInvariant, PTL

-----------------------------------------------------------------------------
(***************************************************************************)
(* The lookup index: where its rows are, which it has, and what by_digest  *)
(* reads.                                                                  *)
(***************************************************************************)
\* Where a row of the lookup index stands follows from its line.
Placed(lk, n, b) == \A i \in DOMAIN lk : lk[i].seg \in 1..n /\ i = b[lk[i].seg] + lk[i].off

\* The segments before n have the same lines.
SameClosed(fs, gs, n) == \A s \in 1..n : s < n => gs[s].lines = fs[s].lines

\* The bases of two layouts of the same closed segments are the same.
LEMMA BasesAgree ==
    ASSUME NEW fs, NEW gs, NEW n \in Nat, NEW m \in Nat, n <= m, NEW b, Bases(fs, n, b), NEW c,
           Bases(gs, m, c),
           SameClosed(fs, gs, n)
    PROVE  \A s \in 1..n : c[s] = b[s]
<1> DEFINE A == {k \in Nat : k + 1 <= n => c[k + 1] = b[k + 1]}
<1>1. 0 \in A
  <2>1. b[1] = 0 /\ c[1] = 0
    BY DEF Bases
  <2> QED  BY <2>1
<1>2. ASSUME NEW k \in Nat, k \in A PROVE k + 1 \in A
  <2>1. SUFFICES ASSUME k + 1 + 1 <= n PROVE c[k + 1 + 1] = b[k + 1 + 1]
    OBVIOUS
  <2>2. PICK j : j = k + 1
    OBVIOUS
  <2>3. j \in 1..n /\ j < n /\ j \in 1..m /\ j < m
    BY <2>1, <2>2
  <2>4. c[j] = b[j]
    BY <1>2, <2>1, <2>2
  <2>5. b[j + 1] = b[j] + Len(fs[j].lines) /\ c[j + 1] = c[j] + Len(gs[j].lines)
        /\ gs[j].lines = fs[j].lines
    BY <2>3 DEF Bases, SameClosed
  <2>6. c[j + 1] = b[j + 1]
    BY <2>4, <2>5
  <2> QED  BY <2>2, <2>6
<1> HIDE DEF A
<1>3. Nat \subseteq A
  BY <1>1, <1>2, SetInduction
<1>4. ASSUME NEW s \in 1..n PROVE c[s] = b[s]
  <2>1. PICK k \in Nat : k + 1 = s
    <3>1. s - 1 \in Nat /\ (s - 1) + 1 = s
      OBVIOUS
    <3> QED  BY <3>1
  <2>2. k \in A /\ k + 1 <= n
    BY <1>3, <2>1
  <2>3. c[k + 1] = b[k + 1]
    BY <2>2 DEF A
  <2> QED  BY <2>1, <2>3
<1> QED  BY <1>4

\* No step moves the beginning of a segment.
LEMMA BasesStep ==
    ASSUME Sound, LedgerNext, ~Fresh, NEW n, n = View.active, NEW b, Layout(files, records, n, b),
           NEW q, NEW c, Layout(files', records', q, c)
    PROVE  \A s \in 1..n : s \in 1..q => c[s] = b[s]
<1>1. FilesOk(files) /\ FilesOk(files') /\ Len(files) \in Nat /\ Len(files') \in Nat
  BY SoundFacts, SoundFiles
<1>2. n \in Nat /\ q \in Nat /\ n \in 1..Len(files) /\ q \in 1..Len(files')
  BY <1>1 DEF Layout
<1>3. \A s \in 1..n : s < n => files'[s].lines = files[s].lines
  BY ClosedLines
<1>4. Bases(files, n, b) /\ Bases(files', q, c)
  BY DEF Layout
<1>5. PICK gs : gs = files'
  OBVIOUS
<1>6. Bases(gs, q, c)
  BY <1>4, <1>5
<1>7. CASE n <= q
  <2>1. SameClosed(files, gs, n)
    BY <1>3, <1>5 DEF SameClosed
  <2>2. \A s \in 1..n : c[s] = b[s]
    BY <1>2, <1>4, <1>6, <1>7, <2>1, BasesAgree
  <2> QED  BY <2>2
<1>8. CASE ~(n <= q)
  <2>1. q <= n /\ \A s \in 1..q : s < q => s \in 1..n /\ s < n
    BY <1>2, <1>8
  <2>2. SameClosed(gs, files, q)
    BY <1>3, <1>5, <2>1 DEF SameClosed
  <2>3. \A s \in 1..q : b[s] = c[s]
    BY <1>2, <1>4, <1>6, <2>1, <2>2, BasesAgree
  <2> QED  BY <2>3
<1> QED  BY <1>7, <1>8

\* What a step within an instance, or one that ends it, does to the active segment's number.
LEMMA ViewStep ==
    ASSUME Sound, Laid, ~manifestLost', ~Fresh, ~Fresh', LedgerNext, NEW n, n = View.active
    PROVE  \/ View'.active = n
           \/ View'.active = n + 1
           \/ View'.active + 1 = n /\ files[n].lines = <<>>
<1>1. ~manifestLost
  BY LostStays
<1>2. PICK b : LaidBy(n, b)
  BY <1>1 DEF Laid
<1>3. CASE Stop \/ PowerLoss
  <2>1. status' = "down" /\ disk' = disk /\ View' = disk /\ disk # None
    BY <1>3 DEF Stop, PowerLoss, Down, diskVars, View, Fresh
  <2>2. CASE status = "down"
    BY <2>1, <2>2 DEF View
  <2>3. CASE status # "down"
    <3>1. n = Active /\ DiskLags(n)
      BY <1>2, <2>3 DEF LaidBy, View, Active
    <3> QED  BY <1>3, <2>1, <2>3, <3>1, DiskAtEnd
  <2> QED  BY <2>2, <2>3
<1>4. CASE Open
  BY <1>4 DEF Open, View, Fresh
<1>5. CASE Rotate
  <2>1. n = Active /\ View' = manifest'
    BY <1>5 DEF Rotate, View, Active
  <2> QED  BY <1>5, <2>1, RotateManifest
<1>6. CASE ~Stop /\ ~PowerLoss /\ ~Open /\ ~Rotate
  <2>1. status # "down"
    BY <1>6 DEF LedgerNext, LedgerStep, CreateSave, AppendLine, AppendFails,
        MayAppend, InsertRecord, InsertFails, AppendLookup, RotateRaises, Save, SaveFails,
        RecoverStart, CatchUpLookup, RecoverLine, RecoverLookup, RecoverEnd, Reindex, RebuildLookup
  <2> QED  BY <1>6, <2>1, ActiveKept DEF View
<1> QED  BY <1>3, <1>4, <1>5, <1>6

\* A row of the lookup index stays at the seq of its line.
LEMMA PlacedStep ==
    ASSUME Sound, Laid, used["power"] = 0, ~manifestLost', ~Fresh, ~Fresh', LedgerNext, NEW n,
           n = View.active,
           NEW b, Layout(files, records, n, b), Placed(lookup, n, b),
           NEW q, q = View'.active, NEW c, Layout(files', records', q, c)
    PROVE  Placed(lookup', q, c)
<1>1. \A s \in 1..n : s \in 1..q => c[s] = b[s]
  BY BasesStep
<1>2. /\ FilesOk(files) /\ FilesOk(files') /\ Len(files) \in Nat /\ Len(files') \in Nat
      /\ RowsTyped(records, files)
  BY SoundFacts, SoundFiles
<1>3. n \in Nat /\ q \in Nat
  BY <1>2 DEF Layout
<1>4. CASE lookup' = lookup
  <2>1. SUFFICES ASSUME NEW i \in DOMAIN lookup
                 PROVE  lookup[i].seg \in 1..q /\ i = c[lookup[i].seg] + lookup[i].off
    BY <1>4 DEF Placed
  <2>2. PICK row : row = lookup[i]
    OBVIOUS
  <2>3. row.seg \in 1..n /\ i = b[row.seg] + row.off
    BY <2>1, <2>2 DEF Placed
  <2>4. row.seg \in 1..q
    <3>1. CASE q = n \/ q = n + 1
      BY <1>3, <2>3, <3>1
    <3>2. CASE q + 1 = n /\ files[n].lines = <<>>
      <4>1. Names(files, row) /\ row.off >= 1 /\ row.off \in Nat
        BY <2>1, <2>2 DEF Sound, Rows, LookupTyped, LookupRowType
      <4>2. Len(files[n].lines) = 0
        BY <3>2, EmptySeq
      <4>3. row.seg # n
        BY <4>1, <4>2 DEF Names
      <4> QED  BY <1>3, <2>3, <3>2, <4>3
    <3> QED  BY <3>1, <3>2, ViewStep
  <2>5. c[row.seg] = b[row.seg]
    BY <1>1, <2>3, <2>4
  <2> QED  BY <2>2, <2>3, <2>4, <2>5
<1>5. CASE lookup' # lookup
  <2>1. status # "down" /\ ~Rotate /\ ~Stop /\ ~PowerLoss
    BY <1>5, LookupChange DEF AppendLookup, CatchUpLookup, RecoverLookup, RebuildLookup, Stop,
        PowerLoss, Rotate, diskVars
  <2>2. q = n /\ n = Active
    BY <2>1, ActiveKept DEF View, Active
  <2>3. \A s \in 1..n : c[s] = b[s]
    BY <1>1, <2>2
  <2>4. CASE RebuildLookup
    <3>1. CASE LeavesReadable
      <4>1. PICK rs : rs = Leaves
        OBVIOUS
      <4>2. Layout(files, rs, n, b)
        BY <1>2, <2>1, <2>2, <4>1, SoundFacts, LayoutLeaves
      <4>3. RowsTyped(rs, files)
        BY <2>1, <4>1, LeavesSound
      <4>4. DOMAIN rs = 1..Len(rs)
        BY <4>3, RowOf
      <4>5. \A i \in 1..Len(rs) : rs[i].seg \in 1..n /\ i = b[rs[i].seg] + rs[i].off
        BY <1>2, <4>2, <4>3, LayoutFacts
      <4>6. lookup' = [i \in DOMAIN rs |-> LookupRow(rs[i])]
        BY <2>4, <3>1, <4>1 DEF RebuildLookup
      <4>7. ASSUME NEW i \in DOMAIN lookup'
            PROVE  lookup'[i].seg \in 1..q /\ i = c[lookup'[i].seg] + lookup'[i].off
        <5>1. i \in 1..Len(rs) /\ lookup'[i] = LookupRow(rs[i])
          BY <4>4, <4>6
        <5>2. lookup'[i].seg = rs[i].seg /\ lookup'[i].off = rs[i].off
          BY <5>1 DEF LookupRow
        <5> QED  BY <2>2, <2>3, <4>5, <5>1, <5>2
      <4> QED  BY <4>7 DEF Placed
    <3>2. CASE ~LeavesReadable
      <4>1. DOMAIN lookup' = {}
        BY <2>4, <3>2 DEF RebuildLookup, NoLookup
      <4> QED  BY <4>1 DEF Placed
    <3> QED  BY <3>1, <3>2
  <2>5. CASE files' = files /\ \E seq \in 1..Len(records) : lookup' = LookupPut(seq, LookupRow(records[seq]))
    <3>1. PICK seq \in 1..Len(records) : lookup' = LookupPut(seq, LookupRow(records[seq]))
      BY <2>5
    <3>2. records[seq].seg \in 1..n /\ seq = b[records[seq].seg] + records[seq].off
      BY <1>2, LayoutFacts
    <3>3. PICK row : row = LookupRow(records[seq])
      OBVIOUS
    <3>4. row.seg = records[seq].seg /\ row.off = records[seq].off
      BY <3>3 DEF LookupRow
    <3>5. ASSUME NEW i \in DOMAIN lookup'
          PROVE  lookup'[i].seg \in 1..q /\ i = c[lookup'[i].seg] + lookup'[i].off
      <4>1. lookup' = [j \in DOMAIN lookup \cup {seq} |-> IF j = seq THEN row ELSE lookup[j]]
        BY <3>1, <3>3 DEF LookupPut
      <4>2. CASE i = seq
        <5>1. lookup'[i] = row
          BY <4>1, <4>2
        <5> QED  BY <2>2, <2>3, <3>2, <3>4, <4>2, <5>1
      <4>3. CASE i # seq
        <5>1. i \in DOMAIN lookup /\ lookup'[i] = lookup[i]
          BY <4>1, <4>3
        <5>2. lookup[i].seg \in 1..n /\ i = b[lookup[i].seg] + lookup[i].off
          BY <5>1 DEF Placed
        <5> QED  BY <2>2, <2>3, <5>1, <5>2
      <4> QED  BY <4>2, <4>3
    <3> QED  BY <3>5 DEF Placed
  <2> QED  BY <1>5, <2>4, <2>5, LookupWritten
<1> QED  BY <1>4, <1>5

\* None of the exceptions of DigestFound and EntriesServed happened.
Quiet == used["power"] = 0 /\ ~manifestLost /\ moveCut = {}

\* The seqs that the lookup index has, or that its last catch-up passed over.
Known == DOMAIN lookup \cup passedOver

\* Which records the lookup index has.
Covers ==
    lookupOn =>
        /\ Settled => DOMAIN lookup \subseteq 1..Len(records)
        /\ Settled /\ status # "lookup" => 1..Len(records) \subseteq Known
        /\ status = "tail" => 1..Len(records) \subseteq Known
        /\ status \in {"lookup", "taillookup"} => 1..(Len(records) - 1) \subseteq Known

\* The invariant of the lookup index.
Looked ==
    Quiet /\ ~Fresh =>
        /\ \A b : Layout(files, records, View.active, b) => Placed(lookup, View.active, b)
        /\ Covers

\* A row of the lookup index stands no higher than its line.
LEMMA PlacedBound ==
    ASSUME NEW fs, FilesOk(fs), NEW rs, RowsTyped(rs, fs), NEW n, NEW b, Layout(fs, rs, n, b),
           NEW lk, LookupTyped(lk, fs), Placed(lk, n, b), NEW i \in DOMAIN lk, Names(fs, lk[i])
    PROVE  i \in 1..EndOf(fs, n, b) /\ EndOf(fs, n, b) \in Nat
<1>1. /\ n \in Nat /\ n \in 1..n /\ b[n] \in Nat /\ EndOf(fs, n, b) \in Nat
      /\ \A s \in 1..n : s \in 1..Len(fs) /\ b[s] \in Nat /\ Len(fs[s].lines) \in Nat
      /\ \A s \in 1..n : s < n => b[s] + Len(fs[s].lines) <= b[n]
  BY LayoutFacts
<1>2. i \in Nat /\ i >= 1
  BY DEF LookupTyped
<1>3. PICK s \in 1..n : s = lk[i].seg
  BY DEF Placed
<1>4. PICK o \in Nat : o = lk[i].off
  BY DEF LookupTyped, LookupRowType
<1>5. i = b[s] + o /\ o <= Len(fs[s].lines)
  BY <1>3, <1>4 DEF Placed, Names
<1>6. EndOf(fs, n, b) = b[n] + Len(fs[n].lines)
  BY DEF EndOf
<1>7. i <= EndOf(fs, n, b)
  <2>1. CASE s = n
    BY <1>1, <1>5, <1>6, <2>1
  <2>2. CASE s # n
    <3>1. b[s] + Len(fs[s].lines) <= b[n] /\ Len(fs[s].lines) \in Nat /\ b[s] \in Nat
          /\ Len(fs[n].lines) \in Nat
      BY <1>1, <2>2
    <3>2. PICK x \in Nat, y \in Nat, l \in Nat, m \in Nat :
               x = b[s] /\ y = b[n] /\ l = Len(fs[s].lines) /\ m = Len(fs[n].lines)
      BY <1>1, <3>1
    <3>3. i = x + o /\ o <= l /\ x + l <= y /\ EndOf(fs, n, b) = y + m /\ o \in Nat
      BY <1>5, <1>6, <3>1, <3>2
    <3> QED  BY ONLY <3>2, <3>3, SMTT(30)
  <2> QED  BY <2>1, <2>2
<1> QED  BY <1>1, <1>2, <1>7

\* An index that is not behind has exactly the seqs of the records.
LEMMA NotBehind ==
    ASSUME Len(records) \in Nat, NEW B \in Nat, DOMAIN lookup \subseteq 1..B, ~Behind
    PROVE  DOMAIN lookup = 1..Len(records)
<1>1. PICK S : S = DOMAIN lookup
  OBVIOUS
<1>2. PICK r \in Nat : r = Len(records)
  OBVIOUS
<1>3. S \subseteq 1..B /\ Cardinality(S) = r /\ (S # {} => Max(S) = r)
  BY <1>1, <1>2 DEF Behind
<1>4. CASE S = {}
  <2>1. r = 0
    BY <1>3, <1>4, FS_EmptySet
  <2>2. 1..0 = {}
    OBVIOUS
  <2> QED  BY <1>1, <1>2, <1>4, <2>1, <2>2
<1>5. CASE S # {}
  <2>1. S \in SUBSET (0..B)
    BY <1>3
  <2>2. \A y \in S : y <= r
    BY <1>3, <1>5, <2>1, GreatestOfNats
  <2>3. S \subseteq 1..r
    BY <1>3, <2>2
  <2>4. IsFiniteSet(1..r) /\ Cardinality(1..r) = r
    <3>1. 1 \in Int /\ r \in Int
      OBVIOUS
    <3>2. IsFiniteSet(1..r) /\ Cardinality(1..r) = IF 1 > r THEN 0 ELSE r - 1 + 1
      BY <3>1, FS_Interval
    <3> QED  BY <3>2
  <2>5. S = 1..r
    BY <1>3, <2>3, <2>4, FS_Subset
  <2> QED  BY <1>1, <1>2, <2>5
<1> QED  BY <1>4, <1>5

\* How the store becomes ready and recovered.
LEMMA ReadyChange ==
    ASSUME LedgerNext, status' = "ready", ~needsRecover'
    PROVE  \/ AppendLookup \/ RotateRaises \/ Save \/ SaveFails \/ RecoverEnd
           \/ (Reindex \/ RebuildLookup) /\ status = "ready" /\ ~needsRecover
<1>1. CASE Open \/ CreateSave \/ Stop \/ PowerLoss
  BY <1>1 DEF Open, CreateSave, Stop, PowerLoss, Down
<1>2. CASE InsertRecord \/ InsertFails \/ Rotate \/ RecoverStart \/ CatchUpLookup \/ RecoverLine
           \/ RecoverLookup
  BY <1>2 DEF InsertRecord, InsertFails, Rotate, RecoverStart, CatchUpLookup, RecoverLine,
      RecoverLookup, memVars
<1>3. CASE Reindex \/ RebuildLookup
  BY <1>3 DEF Reindex, RebuildLookup
<1>4. ASSUME NEW c \in Capsule, NEW sub \in scenario.submissions,
             AppendLine(c, sub) \/ AppendFails(c, sub)
      PROVE  FALSE
  BY <1>4 DEF AppendLine, AppendFails
<1>5. ASSUME NEW s \in Segments, Unmount(s) \/ Mount(s)
      PROVE  FALSE
  BY <1>5 DEF Unmount, Mount
<1> QED  BY <1>1, <1>2, <1>3, <1>4, <1>5, Zenon DEF LedgerNext, LedgerStep

\* The exceptions, once they happened, remain.
LEMMA QuietBefore ==
    ASSUME Sound, LedgerNext, Quiet'
    PROVE  Quiet
<1>1. used["power"] \in Nat /\ used'["power"] \in Nat /\ used["power"] <= used'["power"]
  BY UsedChange DEF Sound, Memory, EventKind
<1>2. moveCut' = moveCut \/ moveCut' = moveCut \cup Misplaced
  BY DEF LedgerNext, Remember
<1>3. moveCut' = {} => moveCut = {}
  BY <1>2
<1>4. ~manifestLost
  BY LostStays DEF Quiet
<1> QED  BY <1>1, <1>3, <1>4 DEF Quiet

\* Rows are passed over by a catch-up only.
LEMMA PassedKept ==
    ASSUME LedgerNext
    PROVE  passedOver' = IF status = "catchup" /\ status' = "tail"
                         THEN {i \in DOMAIN records : i \notin DOMAIN lookup /\ Unmounted(records[i].seg)}
                         ELSE passedOver
BY DEF LedgerNext, Remember

\* A lookup row that is written, or the index is off.
LEMMA LookupAdded ==
    ASSUME NEW seq, LookupRecord(seq), lookupOn'
    PROVE  lookupOn /\ used' = used /\ DOMAIN lookup' = DOMAIN lookup \cup {seq}
<1>1. lookupOn /\ lookup' = LookupPut(seq, LookupRow(records[seq])) /\ used' = used
  BY Zenon DEF LookupRecord
<1> QED  BY <1>1 DEF LookupPut

\* While append works through its steps the index knows the rows before the new one.
LEMMA CoversAppend ==
    ASSUME Sound, Covers, LedgerNext, lookupOn', status' \in {"insert", "lookup", "rotate", "save"},
           status' = "save" => ~needsRecover'
    PROVE  /\ DOMAIN lookup' \subseteq 1..Len(records')
           /\ IF status' = "lookup" THEN 1..(Len(records') - 1) \subseteq Known'
              ELSE 1..Len(records') \subseteq Known'
<1>1. Len(records) \in Nat /\ passedOver' = passedOver
  BY SoundFacts, PassedKept
<1>2. CASE status' = "insert"
  <2>1. PICK c \in Capsule, sub \in scenario.submissions : AppendLine(c, sub)
    BY <1>2, StatusChange
  <2>2. status = "ready" /\ ~needsRecover /\ lookup' = lookup /\ records' = records /\ lookupOn
    BY <2>1 DEF AppendLine, MayAppend, memVars
  <2>3. DOMAIN lookup \subseteq 1..Len(records) /\ 1..Len(records) \subseteq Known
    BY <2>2 DEF Covers, Settled
  <2> QED  BY <1>1, <1>2, <2>2, <2>3 DEF Known
<1>3. CASE status' = "lookup"
  <2>1. InsertRecord
    BY <1>3, StatusChange
  <2>2. status = "insert" /\ lookup' = lookup /\ lookupOn
    BY <2>1 DEF InsertRecord, memVars
  <2>3. DOMAIN lookup \subseteq 1..Len(records) /\ 1..Len(records) \subseteq Known
    BY <2>2 DEF Covers, Settled
  <2>4. Len(records') = Len(records) + 1
    <3>1. PICK row : row \in RowType /\ row.seg \in 1..Len(files) /\ row.off >= 1 /\ row.id \notin Ids
                     /\ records' = Append(records, row)
      BY <2>1, InsertRow
    <3>2. RowsTyped(records, files) /\ DistinctIds(records) /\ Len(files) \in Nat
      BY SoundFacts DEF Sound, Rows
    <3> QED  BY <3>1, <3>2, RowAdded
  <2>5. Known' = Known
    BY <1>1, <2>2 DEF Known
  <2> QED  BY <1>1, <1>3, <2>2, <2>3, <2>4, <2>5
<1>4. CASE status' = "rotate"
  <2>1. AppendLookup
    BY <1>4, StatusChange
  <2>2. status = "lookup" /\ LookupRecord(pending.seq) /\ records' = records
        /\ pending.seq = Len(records) /\ Len(records) >= 1
    BY <2>1 DEF AppendLookup, Sound, Working
  <2>3. lookupOn /\ DOMAIN lookup' = DOMAIN lookup \cup {Len(records)}
    BY <2>2, LookupAdded
  <2>4. DOMAIN lookup \subseteq 1..Len(records) /\ 1..(Len(records) - 1) \subseteq Known
    BY <2>2, <2>3 DEF Covers, Settled
  <2>5. Known' = Known \cup {Len(records)}
    BY <1>1, <2>3 DEF Known
  <2> QED  BY <1>1, <1>4, <2>2, <2>3, <2>4, <2>5
<1>5. CASE status' = "save"
  <2>1. Rotate \/ (status = "ready" /\ \E s \in Segments : Unmount(s) \/ Mount(s))
    BY <1>5, StatusChange
  <2>2. lookup' = lookup /\ records' = records /\ lookupOn' = lookupOn /\ needsRecover' = needsRecover
        /\ status \in {"rotate", "ready"}
    BY <2>1 DEF Rotate, Unmount, Mount
  <2>3. DOMAIN lookup \subseteq 1..Len(records) /\ 1..Len(records) \subseteq Known
    BY <1>5, <2>2 DEF Covers, Settled
  <2> QED  BY <1>1, <1>5, <2>2, <2>3 DEF Known
<1> QED  BY <1>2, <1>3, <1>4, <1>5

\* No row of the lookup index is beyond the lines.
LEMMA LookupBounded ==
    ASSUME Sound, used["power"] = 0, NEW n, NEW b, Layout(files, records, n, b), Placed(lookup, n, b)
    PROVE  EndOf(files, n, b) \in Nat /\ DOMAIN lookup \subseteq 1..EndOf(files, n, b)
<1>1. FilesOk(files) /\ RowsTyped(records, files)
  BY SoundFacts
<1>2. LookupTyped(lookup, files) /\ \A i \in DOMAIN lookup : Names(files, lookup[i])
  BY DEF Sound, Rows
<1>3. EndOf(files, n, b) \in Nat
  BY <1>1, LayoutFacts
<1>4. ASSUME NEW i \in DOMAIN lookup PROVE i \in 1..EndOf(files, n, b)
  BY <1>1, <1>2, PlacedBound
<1> QED  BY <1>3, <1>4

\* recover() goes on to the tail with an index that has every row, or has passed it over.
LEMMA CoversTail ==
    ASSUME Sound, Covers, LedgerNext, lookupOn', used["power"] = 0,
           NEW b, Layout(files, records, Active, b), Placed(lookup, Active, b),
           status' = "tail"
    PROVE  1..Len(records') \subseteq Known'
<1>1. Len(records) \in Nat /\ DOMAIN records = 1..Len(records)
  BY SoundFacts
<1>2. CASE RecoverStart
  <2>1. records' = records /\ lookup' = lookup /\ lookupOn' = lookupOn /\ ~(lookupOn /\ Behind)
    BY <1>2 DEF RecoverStart
  <2>2. EndOf(files, Active, b) \in Nat /\ DOMAIN lookup \subseteq 1..EndOf(files, Active, b)
    BY LookupBounded
  <2>3. DOMAIN lookup = 1..Len(records)
    BY <1>1, <2>1, <2>2, NotBehind
  <2> QED  BY <2>1, <2>3 DEF Known
<1>3. CASE CatchUpLookup
  <2>1. status = "catchup" /\ records' = records /\ lookup' = lookup /\ lookupOn' = lookupOn
        /\ (Missing = {} \/ ~lookupOn)
    BY <1>3 DEF CatchUpLookup
  <2>2. passedOver' = {i \in DOMAIN records : i \notin DOMAIN lookup /\ Unmounted(records[i].seg)}
    BY <2>1, PassedKept
  <2>4. Missing = {}
    BY <2>1
  <2>5. \A i \in 1..Len(records) : i \in DOMAIN lookup \/ i \in passedOver'
    BY <1>1, <2>2, <2>4 DEF Missing
  <2> QED  BY <2>1, <2>5 DEF Known
<1>4. CASE RecoverLine
  <2>1. status = "tail" /\ records' = records /\ lookup' = lookup /\ lookupOn' = lookupOn
        /\ passedOver' = passedOver
    BY <1>4, PassedKept DEF RecoverLine, memVars
  <2> QED  BY <2>1 DEF Covers, Known
<1>5. CASE RecoverLookup
  <2>1. status = "taillookup" /\ records' = records /\ LookupRecord(Len(records))
        /\ passedOver' = passedOver
    BY <1>5, PassedKept DEF RecoverLookup
  <2>2. lookupOn /\ DOMAIN lookup' = DOMAIN lookup \cup {Len(records)}
    BY <2>1, LookupAdded
  <2>3. 1..(Len(records) - 1) \subseteq Known
    BY <2>1, <2>2 DEF Covers
  <2>4. Known' = Known \cup {Len(records)}
    BY <2>1, <2>2 DEF Known
  <2> QED  BY <1>1, <2>1, <2>3, <2>4
<1> QED  BY <1>2, <1>3, <1>4, <1>5, StatusChange

\* The lookup index lacks no record but the one that recover has just indexed.
LEMMA CoversTailLookup ==
    ASSUME Sound, Covers, LedgerNext, lookupOn', status' = "taillookup"
    PROVE  1..(Len(records') - 1) \subseteq Known'
<1>1. RecoverLine
  BY StatusChange
<1>2. Len(records) \in Nat
  BY SoundFacts
<1>3. status = "tail" /\ lookup' = lookup /\ lookupOn /\ records' # records
  <2>1. status = "tail" /\ lookup' = lookup /\ lookupOn
        /\ records' = Append(records, Row(files[Active].lines[cursor], Active, cursor,
                                          ReindexAuthenticity(files[Active].lines[cursor])))
    BY <1>1 DEF RecoverLine, memVars
  <2>2. records \in Seq(RowType)
    BY SoundFacts DEF RowsTyped
  <2>3. Len(records') = Len(records) + 1
    BY <2>1, <2>2
  <2> QED  BY <1>2, <2>1, <2>3
<1>4. Len(records') = Len(records) + 1
  <2>1. PICK row : row \in RowType /\ row.seg \in 1..Len(files) /\ row.off >= 1 /\ row.id \notin Ids
                   /\ records' = Append(records, row)
    BY <1>1, <1>3, RecoveredRow
  <2>2. RowsTyped(records, files) /\ DistinctIds(records) /\ Len(files) \in Nat
    BY SoundFacts DEF Sound, Rows
  <2> QED  BY <2>1, <2>2, RowAdded
<1>5. 1..Len(records) \subseteq Known
  BY <1>3 DEF Covers
<1>6. Known' = Known
  BY <1>3, PassedKept DEF Known
<1> QED  BY <1>2, <1>4, <1>5, <1>6

\* An idle store that nothing unusual happened to can read all of its lines.
LEMMA SettledReadable ==
    ASSUME Sound, Mounts, moveCut = {}, status = "ready", ~needsRecover,
           NEW b, Layout(files, records, Active, b), TailOk(Active, b)
    PROVE  LeavesReadable
<1>1. \A s : s \in archived <=> Unmounted(s)
  BY ArchivedUnmounted
<1>2. Segments = 1..Active
  BY SoundFacts
<1>3. ~files[Active].torn
  BY DEF TailOk, Settled
<1>4. \A s \in 1..Active : s < Active => ~files[s].torn
  BY DEF Layout, ClosedOk
<1>5. Active \in Nat
  BY SoundFacts
<1>6. \A s \in 1..Active : ~files[s].torn
  BY <1>3, <1>4, <1>5
<1> QED  BY <1>1, <1>2, <1>6 DEF LeavesReadable

\* The index of an idle store has the records' rows and no others, or has passed them over.
LEMMA CoversReady ==
    ASSUME Sound, Mounts, Covers, LedgerNext, lookupOn', used["power"] = 0, moveCut = {},
           NEW b, Layout(files, records, Active, b), TailOk(Active, b), Placed(lookup, Active, b),
           status' = "ready", ~needsRecover'
    PROVE  DOMAIN lookup' \subseteq 1..Len(records') /\ 1..Len(records') \subseteq Known'
<1>1. Len(records) \in Nat /\ FilesOk(files) /\ RowsTyped(records, files) /\ passedOver' = passedOver
  BY SoundFacts, PassedKept
<1>2. CASE AppendLookup
  <2>2. status = "lookup" /\ LookupRecord(pending.seq) /\ records' = records
        /\ pending.seq = Len(records) /\ Len(records) >= 1
    BY <1>2 DEF AppendLookup, Sound, Working
  <2>3. lookupOn /\ DOMAIN lookup' = DOMAIN lookup \cup {Len(records)}
    BY <2>2, LookupAdded
  <2>4. DOMAIN lookup \subseteq 1..Len(records) /\ 1..(Len(records) - 1) \subseteq Known
    BY <2>2, <2>3 DEF Covers, Settled
  <2>5. Known' = Known \cup {Len(records)}
    BY <1>1, <2>3 DEF Known
  <2> QED  BY <1>1, <2>2, <2>3, <2>4, <2>5
<1>3. CASE RotateRaises \/ Save \/ SaveFails
  <2>1. status \in {"rotate", "save"} /\ lookup' = lookup /\ records' = records
        /\ lookupOn' = lookupOn /\ needsRecover' = needsRecover
    BY <1>3 DEF RotateRaises, Save, SaveFails, memVars
  <2> QED  BY <1>1, <2>1 DEF Covers, Settled, Known
<1>4. CASE RecoverEnd
  <2>1. status = "tail" /\ cursor > Len(files[Active].lines) /\ lookup' = lookup
        /\ records' = records /\ lookupOn' = lookupOn
    BY <1>4 DEF RecoverEnd
  <2>2. 1..Len(records) \subseteq Known /\ Known' = Known
    BY <1>1, <2>1 DEF Covers, Known
  <2>3. EndOf(files, Active, b) \in Nat /\ DOMAIN lookup \subseteq 1..EndOf(files, Active, b)
    BY LookupBounded
  <2>4. b[Active] \in Nat /\ Active \in 1..Active
    BY <1>1, LayoutFacts
  <2>5. cursor = Len(records) - b[Active] + 1
    BY <2>1 DEF TailOk
  <2>6. Len(files[Active].lines) \in Nat
    BY <1>1, FileOf DEF Layout
  <2>7. EndOf(files, Active, b) <= Len(records)
    BY <1>1, <2>1, <2>4, <2>5, <2>6 DEF EndOf
  <2>8. DOMAIN lookup \subseteq 1..Len(records)
    BY <1>1, <2>3, <2>7
  <2> QED  BY <2>1, <2>2, <2>8
<1>5. CASE (Reindex \/ RebuildLookup) /\ status = "ready" /\ ~needsRecover
  <2>1. LeavesReadable
    BY <1>5, SettledReadable
  <2>2. Len(manifest.segs) = Active
    BY <1>5, SoundFacts
  <2>3. PICK rs : rs = Leaves
    OBVIOUS
  <2>4. Len(rs) = EndOf(files, Active, b)
    BY <1>1, <2>2, <2>3, LayoutLeaves
  <2>5. EndOf(files, Active, b) = Len(records)
    BY <1>5 DEF TailOk, Settled
  <2>6. CASE Reindex
    <3>1. records' = rs /\ lookup' = lookup /\ lookupOn' = lookupOn
      BY <2>1, <2>3, <2>6 DEF Reindex
    <3>2. DOMAIN lookup \subseteq 1..Len(records) /\ 1..Len(records) \subseteq Known
      BY <1>5, <3>1 DEF Covers, Settled
    <3>3. Known' = Known
      BY <1>1, <3>1 DEF Known
    <3> QED  BY <2>4, <2>5, <3>1, <3>2, <3>3
  <2>7. CASE RebuildLookup
    <3>1. records' = records /\ lookup' = [i \in DOMAIN rs |-> LookupRow(rs[i])]
      BY <2>1, <2>3, <2>7 DEF RebuildLookup
    <3>2. RowsTyped(rs, files)
      BY <1>5, <2>3, LeavesSound
    <3>3. DOMAIN rs = 1..Len(rs)
      BY <3>2, RowOf
    <3>4. DOMAIN lookup' = 1..Len(records')
      BY <2>4, <2>5, <3>1, <3>3
    <3> QED  BY <3>4 DEF Known
  <2> QED  BY <1>5, <2>6, <2>7
<1> QED  BY <1>2, <1>3, <1>4, <1>5, ReadyChange

\* Every step keeps Looked.
LEMMA LookedStep ==
    ASSUME Sound, Unborn, Mounts, Laid, Looked, LedgerNext
    PROVE  Looked'
<1>3. ASSUME Quiet', ~Fresh'
      PROVE  /\ \A c : Layout(files', records', View'.active, c) => Placed(lookup', View'.active, c)
             /\ Covers'
  <2>1. Quiet /\ used["power"] = 0 /\ ~manifestLost' /\ ~manifestLost /\ moveCut = {}
    BY <1>3, QuietBefore DEF Quiet
  <2>2. CASE Fresh
    <3>1. Open
      BY <1>3, <2>2 DEF Fresh, LedgerNext, LedgerStep, CreateSave, Stop, PowerLoss, Down,
          AppendLine, AppendFails, MayAppend, InsertRecord, InsertFails, AppendLookup, Rotate,
          RotateRaises, Save, SaveFails, RecoverStart, CatchUpLookup, RecoverLine, RecoverLookup,
          RecoverEnd, Reindex, RebuildLookup
    <3>2. status' = "create" /\ lookup' = lookup
      BY <2>2, <3>1 DEF Fresh, Open
    <3>3. DOMAIN lookup' = {}
      BY <2>2, <3>2 DEF Fresh, Unborn
    <3>4. Covers'
      BY <3>2 DEF Covers, Settled
    <3> QED  BY <3>3, <3>4 DEF Placed
  <2>3. CASE ~Fresh
    <3>1. PICK b : LaidBy(View.active, b)
      BY <2>1, <2>3 DEF Laid
    <3>2. Layout(files, records, View.active, b) /\ TailOk(View.active, b)
      BY <3>1 DEF LaidBy
    <3>3. Placed(lookup, View.active, b) /\ Covers
      BY <2>1, <2>3, <3>2 DEF Looked
    <3>4. PICK n, q : n = View.active /\ q = View'.active
      OBVIOUS
    <3>5. ASSUME NEW c, Layout(files', records', q, c)
          PROVE  Placed(lookup', q, c)
      BY <1>3, <2>1, <2>3, <3>2, <3>3, <3>4, <3>5, PlacedStep
    <3>6. Covers'
      <4>1. CASE status = "down" \/ status' = "down"
        <5>1. status' \in {"down", "opened", "create"}
          BY <4>1, StatusChange DEF LedgerNext, LedgerStep, Open, CreateSave, Stop, PowerLoss,
              Down, AppendLine, AppendFails, MayAppend, InsertRecord, InsertFails, AppendLookup,
              Rotate, RotateRaises, Save, SaveFails, RecoverStart, CatchUpLookup, RecoverLine,
              RecoverLookup, RecoverEnd, Reindex, RebuildLookup
        <5> QED  BY <5>1 DEF Covers, Settled
      <4>2. CASE status # "down" /\ status' # "down"
        <5>1. View.active = Active
          BY <4>2 DEF View, Active
        <5>2. Layout(files, records, Active, b) /\ TailOk(Active, b) /\ Placed(lookup, Active, b)
          BY <3>2, <3>3, <5>1
        <5>3. SUFFICES ASSUME lookupOn'
                       PROVE  /\ Settled' => DOMAIN lookup' \subseteq 1..Len(records')
                              /\ Settled' /\ status' # "lookup" => 1..Len(records') \subseteq Known'
                              /\ status' = "tail" => 1..Len(records') \subseteq Known'
                              /\ status' \in {"lookup", "taillookup"}
                                 => 1..(Len(records') - 1) \subseteq Known'
          BY DEF Covers
        <5>4. CASE Settled' /\ status' = "ready"
          <6>1. ~needsRecover'
            BY <5>4 DEF Settled
          <6>2. DOMAIN lookup' \subseteq 1..Len(records') /\ 1..Len(records') \subseteq Known'
            BY <2>1, <3>3, <5>2, <5>3, <5>4, <6>1, CoversReady
          <6> QED  BY <5>4, <6>2
        <5>5. CASE Settled' /\ status' # "ready"
          <6>1. status' \in {"insert", "lookup", "rotate", "save"}
                /\ (status' = "save" => ~needsRecover')
            BY <5>5 DEF Settled
          <6> QED  BY <3>3, <5>3, <6>1, CoversAppend
        <5>6. CASE ~Settled'
          <6>1. status' # "lookup"
            BY <5>6 DEF Settled
          <6>2. status' = "tail" => 1..Len(records') \subseteq Known'
            BY <2>1, <3>3, <5>2, <5>3, CoversTail
          <6>3. status' = "taillookup" => 1..(Len(records') - 1) \subseteq Known'
            BY <3>3, <5>3, CoversTailLookup
          <6> QED  BY <5>6, <6>1, <6>2, <6>3
        <5> QED  BY <5>4, <5>5, <5>6
      <4> QED  BY <4>1, <4>2
    <3> QED  BY <3>4, <3>5, <3>6
  <2> QED  BY <2>2, <2>3
<1> QED  BY <1>3 DEF Looked

\* Looked is an invariant.
LEMMA LookedInvariant == LedgerSpec => []Looked
<1>1. LedgerInit => Looked
  BY DEF LedgerInit, Looked, Fresh
<1>2. ASSUME Sound, Unborn, Mounts, Laid, Looked, [LedgerNext]_ledgerVars
      PROVE  Looked'
  <2>1. CASE LedgerNext
    BY <1>2, <2>1, LookedStep
  <2>2. CASE UNCHANGED ledgerVars
    <3>1. UNCHANGED <<files, disk, records, lookup, status, manifest, needsRecover, lookupOn, used,
          moveCut, manifestLost, passedOver>>
      BY <2>2 DEF ledgerVars, diskVars, memVars, historyVars
    <3> QED  BY <1>2, <3>1, Zenon DEF Looked, Quiet, Fresh, View, Covers, Known, Settled, Placed
  <2> QED  BY <1>2, <2>1, <2>2
<1> QED  BY <1>1, <1>2, SoundInvariant, UnbornInvariant, MountsInvariant, LaidInvariant, PTL
    DEF LedgerSpec

\* Two rows at the same place of the layout name the same line.
LEMMA PlaceUnique ==
    ASSUME NEW fs, FilesOk(fs), NEW rs, RowsTyped(rs, fs), NEW n, NEW b, Layout(fs, rs, n, b),
           NEW s \in 1..n, NEW o \in 1..Len(fs[s].lines), NEW t \in 1..n, NEW p \in 1..Len(fs[t].lines),
           b[s] + o = b[t] + p
    PROVE  s = t /\ o = p
<1>1. n \in Nat /\ \A u \in 1..n : b[u] \in Nat /\ Len(fs[u].lines) \in Nat
  BY LayoutFacts
<1>2. s < t => b[s] + Len(fs[s].lines) <= b[t]
  BY DEF Layout, Bases
<1>3. t < s => b[t] + Len(fs[t].lines) <= b[s]
  BY DEF Layout, Bases
<1>4. b[s] \in Nat /\ b[t] \in Nat /\ Len(fs[s].lines) \in Nat /\ Len(fs[t].lines) \in Nat
  BY <1>1
<1>5. PICK x \in Nat, y \in Nat, l \in Nat, m \in Nat : x = b[s] /\ y = b[t]
           /\ l = Len(fs[s].lines) /\ m = Len(fs[t].lines)
  BY <1>4
<1>6. /\ x + o = y + p /\ o \in 1..l /\ p \in 1..m /\ s \in Int /\ t \in Int
      /\ s < t => x + l <= y
      /\ t < s => y + m <= x
  BY <1>1, <1>2, <1>3, <1>5
<1>7. s = t
  BY ONLY <1>6, x \in Nat, y \in Nat, l \in Nat, m \in Nat
<1> QED  BY <1>5, <1>6, <1>7

\* The lookup row of a recovered store is of the record at its seq.
LEMMA SameRecord ==
    ASSUME Sound, Laid, Looked, Recovered, lookupOn
    PROVE  /\ DOMAIN lookup = 1..Len(records)
           /\ \A i \in 1..Len(records) : Names(files, lookup[i]) /\ lookup[i].id = records[i].id
<1>1. Quiet /\ ~Fresh /\ status = "ready" /\ ~needsRecover /\ used["power"] = 0 /\ ~manifestLost
  BY DEF Recovered, Quiet, Fresh
<1>2. DOMAIN lookup = 1..Len(records)
  <2>1. DOMAIN lookup \subseteq 1..Len(records) /\ 1..Len(records) \subseteq Known
    BY <1>1 DEF Looked, Covers, Settled
  <2>2. passedOver \subseteq DOMAIN lookup
    BY DEF Recovered
  <2> QED  BY <2>1, <2>2 DEF Known
<1>3. PICK n : n = View.active
  OBVIOUS
<1>4. PICK b : Layout(files, records, n, b)
  BY <1>1, <1>3 DEF Laid, LaidBy
<1>5. Placed(lookup, n, b)
  BY <1>1, <1>3, <1>4 DEF Looked
<1>6. FilesOk(files) /\ RowsTyped(records, files)
  BY SoundFacts
<1>7. ASSUME NEW i \in 1..Len(records)
      PROVE  Names(files, lookup[i]) /\ lookup[i].id = records[i].id
  <2>1. PICK r, k : r = records[i] /\ k = lookup[i]
    OBVIOUS
  <2>2. Names(files, r) /\ Names(files, k)
    BY <1>1, <1>2, <2>1 DEF Sound, Rows
  <2>3. r.seg \in 1..n /\ i = b[r.seg] + r.off /\ r.off \in Nat /\ r.off >= 1
    BY <1>4, <1>6, <2>1, LayoutFacts
  <2>4. k.seg \in 1..n /\ i = b[k.seg] + k.off /\ k.off \in Nat /\ k.off >= 1
    BY <1>2, <1>5, <2>1 DEF Placed, Sound, Rows, LookupTyped, LookupRowType
  <2>5. \A s \in 1..n : Len(files[s].lines) \in Nat
    BY <1>4, <1>6, LayoutFacts
  <2>6. r.off \in 1..Len(files[r.seg].lines) /\ k.off \in 1..Len(files[k.seg].lines)
    BY <2>2, <2>3, <2>4, <2>5 DEF Names
  <2>7. r.seg = k.seg /\ r.off = k.off
    <3>1. PICK s \in 1..n, t \in 1..n : s = r.seg /\ t = k.seg
      BY <2>3, <2>4
    <3>2. PICK o \in 1..Len(files[s].lines), p \in 1..Len(files[t].lines) : o = r.off /\ p = k.off
      BY <2>6, <3>1
    <3>3. b[s] + o = b[t] + p
      BY <2>3, <2>4, <3>1, <3>2
    <3>4. s = t /\ o = p
      BY <1>4, <1>6, <3>3, PlaceUnique
    <3> QED  BY <3>1, <3>2, <3>4
  <2>8. k.id = r.id
    BY <2>2, <2>7 DEF Names
  <2> QED  BY <2>1, <2>2, <2>8
<1> QED  BY <1>2, <1>7

\* A row of the records index is read, or its segment is unmounted.
LEMMA RowRead ==
    ASSUME Sound, Mounts, Laid, Recovered, NEW i \in 1..Len(records)
    PROVE  \/ /\ RowToRecord(i).outcome = "found" /\ RowToRecord(i).id = records[i].id
              /\ RowToRecord(i).seq = i
           \/ RowToRecord(i).outcome = "unmounted"
<1>1. PICK row : row = records[i]
  OBVIOUS
<1>2. Names(files, row)
  BY <1>1 DEF Recovered, Sound, Rows
<1>3. row.seg \in archived => Unmounted(row.seg)
  BY ArchivedUnmounted DEF Recovered
<1>4. Read(row) = "unmounted" \/ Read(row) = "found"
  BY <1>2, <1>3, ReadOf
<1>5. CASE Read(row) = "found"
  <2>1. RowToRecord(i) = Found(i, row.id, row, row.signed)
    BY <1>1, <1>5 DEF RowToRecord, Readable
  <2> QED  BY <1>1, <2>1 DEF Found
<1>6. CASE Read(row) = "unmounted"
  <2>1. RowToRecord(i) = NoAnswer("unmounted")
    BY <1>1, <1>6 DEF RowToRecord, Readable
  <2> QED  BY <2>1 DEF NoAnswer
<1> QED  BY <1>4, <1>5, <1>6

\* So is a row of the lookup index.
LEMMA HitRead ==
    ASSUME Sound, Mounts, Laid, Looked, Recovered, lookupOn, NEW i \in 1..Len(records)
    PROVE  \/ /\ ResolveLookupHit(i).outcome = "found" /\ ResolveLookupHit(i).id = records[i].id
              /\ ResolveLookupHit(i).seq = i
           \/ ResolveLookupHit(i).outcome = "unmounted"
<1>1. PICK row : row = lookup[i]
  OBVIOUS
<1>2. Names(files, row) /\ row.id = records[i].id
  BY <1>1, SameRecord
<1>3. row.seg \in archived => Unmounted(row.seg)
  BY ArchivedUnmounted DEF Recovered
<1>4. (Read(row) = "unmounted" \/ Read(row) = "found") /\ LineOf(row).id = row.id
  BY <1>2, <1>3, ReadOf
<1>5. CASE Read(row) = "found"
  <2>1. ResolveLookupHit(i) = Found(i, LineOf(row).id, row, ReindexAuthenticity(LineOf(row)))
    BY <1>1, <1>5 DEF ResolveLookupHit, Readable
  <2> QED  BY <1>2, <1>4, <2>1 DEF Found
<1>6. CASE Read(row) = "unmounted"
  <2>1. ResolveLookupHit(i) = NoAnswer("unmounted")
    BY <1>1, <1>6 DEF ResolveLookupHit, Readable
  <2> QED  BY <2>1 DEF NoAnswer
<1> QED  BY <1>4, <1>5, <1>6

\* scan() reads every record or is told that a segment is unmounted.
LEMMA ScanRead ==
    ASSUME Sound, Mounts, Laid, Recovered
    PROVE  Scan.outcome \in {"found", "unmounted"}
<1>1. DOMAIN records = 1..Len(records) /\ Len(records) \in Nat
  BY SoundFacts
<1>2. PICK answers : answers = [i \in DOMAIN records |-> RowToRecord(i)]
  OBVIOUS
<1>3. DOMAIN answers = 1..Len(records) /\ \A i \in 1..Len(records) : answers[i] = RowToRecord(i)
  BY <1>1, <1>2
<1>4. \A i \in 1..Len(records) : answers[i].outcome \in {"found", "unmounted"}
  BY <1>3, RowRead
<1>5. PICK unread : unread = {k \in DOMAIN answers : answers[k].outcome # "found"}
  OBVIOUS
<1>6. Scan = IF unread = {} THEN [outcome |-> "found", list |-> answers]
             ELSE [outcome |-> answers[Min(unread)].outcome, list |-> <<>>]
  BY <1>2, <1>5 DEF Scan, Listed
<1>7. CASE unread = {}
  BY <1>6, <1>7
<1>8. CASE unread # {}
  <2>1. PICK k \in unread : \A y \in unread : k <= y
    <3>1. unread \in SUBSET Nat
      BY <1>1, <1>3, <1>5
    <3> QED  BY <1>8, <3>1, LeastOfNats
  <2>2. unread \subseteq 1..Len(records)
    BY <1>3, <1>5
  <2>3. Min(unread) \in unread
    BY <2>1 DEF Min
  <2>4. answers[Min(unread)].outcome \in {"found", "unmounted"}
    BY <1>4, <2>2, <2>3
  <2> QED  BY <1>6, <1>8, <2>4
<1> QED  BY <1>7, <1>8

\* by_digest answers for an indexed id with its record, for another with none.
LEMMA ByDigestRead ==
    ASSUME Sound, Mounts, Laid, Looked, Recovered, NEW c, NEW r, r = ByDigest(c)
    PROVE  IF c \in Ids
           THEN (r.outcome = "found" /\ r.id = c /\ records[r.seq].id = c) \/ r.outcome = "unmounted"
           ELSE r.outcome \in {"none", "unmounted"}
<1>1. DOMAIN records = 1..Len(records) /\ lookupOn \in BOOLEAN
  BY SoundFacts DEF Sound, Memory
<1>2. c \in Ids => \E i \in 1..Len(records) : records[i].id = c
  BY <1>1 DEF Ids
<1>3. NoAnswer("none").outcome = "none" /\ NoAnswer("unmounted").outcome = "unmounted"
  BY DEF NoAnswer
<1>4. CASE lookupOn
  <2>1. LookupHits(c) = {j \in DOMAIN records : records[j].id = c}
    BY <1>1, <1>4, SameRecord DEF LookupHits
  <2>2. CASE c \in Ids
    <3>1. PICK i \in 1..Len(records) : records[i].id = c
      BY <1>2, <2>2
    <3>2. LookupHits(c) # {} /\ Min(LookupHits(c)) = i
      BY <1>1, <2>1, <3>1, FirstOfId
    <3>3. ByDigest(c) = ResolveLookupHit(i)
      BY <1>4, <3>2 DEF ByDigest
    <3>4. \/ r.outcome = "found" /\ r.id = records[i].id /\ r.seq = i
          \/ r.outcome = "unmounted"
      BY <1>4, <3>3, HitRead
    <3> QED  BY <2>2, <3>1, <3>4
  <2>3. CASE c \notin Ids
    <3>1. LookupHits(c) = {}
      BY <2>1, <2>3 DEF Ids
    <3>2. ByDigest(c) = NoAnswer("none")
      BY <1>4, <3>1 DEF ByDigest
    <3> QED  BY <1>3, <2>3, <3>2
  <2> QED  BY <2>2, <2>3
<1>5. CASE ~lookupOn /\ Scan.outcome # "found"
  <2>1. Scan.outcome = "unmounted"
    BY <1>5, ScanRead
  <2>2. ByDigest(c) = NoAnswer("unmounted")
    BY <1>5, <2>1 DEF ByDigest
  <2> QED  BY <1>3, <2>2
<1>6. CASE ~lookupOn /\ Scan.outcome = "found"
  <2>1. ByDigest(c) = Fetch(c)
    BY <1>6 DEF ByDigest
  <2>2. CASE c \in Ids
    <3>1. PICK i \in 1..Len(records) : records[i].id = c
      BY <1>2, <2>2
    <3>2. Fetch(c) = RowToRecord(i)
      BY <2>2, <3>1, FirstOfId DEF Fetch
    <3>3. \/ r.outcome = "found" /\ r.id = records[i].id /\ r.seq = i
          \/ r.outcome = "unmounted"
      BY <2>1, <3>2, RowRead
    <3> QED  BY <2>2, <3>1, <3>3
  <2>3. CASE c \notin Ids
    <3>1. Fetch(c) = NoAnswer("none")
      BY <2>3 DEF Fetch
    <3> QED  BY <1>3, <2>1, <2>3, <3>1
  <2> QED  BY <2>2, <2>3
<1> QED  BY <1>1, <1>4, <1>5, <1>6

\* DigestFound holds of every store: by_digest (store.py) and the adapter's
\* get_entry and append (log/ledger.py) never answer that a record of a recovered
\* store is missing, from the lookup index or from a scan.
THEOREM DigestsAreFound == LedgerSpec => []DigestFound
<1>1. Sound /\ Mounts /\ Laid /\ Looked => DigestFound
  <2> SUFFICES ASSUME Sound, Mounts, Laid, Looked, Recovered, NEW c \in Capsule,
                      NEW got, got = GetEntry(c), NEW appended, appended = AppendEntry(c)
               PROVE  IF c \in Ids
                      THEN \/ /\ got.outcome = "found" /\ appended.outcome = "idempotent"
                              /\ got.entry = appended.entry
                              /\ got.entry.value = c /\ records[got.entry.seq].id = c
                           \/ got.outcome = "unmounted"
                      ELSE appended.outcome \in {"unsupported", "unmounted"}
    BY DEF DigestFound
  <2>1. PICK r : r = ByDigest(c)
    OBVIOUS
  <2>2. IF c \in Ids
        THEN (r.outcome = "found" /\ r.id = c /\ records[r.seq].id = c) \/ r.outcome = "unmounted"
        ELSE r.outcome \in {"none", "unmounted"}
    BY <2>1, ByDigestRead
  <2>3. CASE r.outcome = "found"
    <3>1. got = [outcome |-> "found", entry |-> RecordEntry(r)]
      BY <2>1, <2>3 DEF GetEntry
    <3>2. got.outcome = "found" /\ got.entry.seq = r.seq /\ got.entry.value = r.id
      BY <3>1 DEF RecordEntry
    <3>3. appended = [got EXCEPT !.outcome = "idempotent"]
      BY <3>2 DEF AppendEntry
    <3>4. appended.outcome = "idempotent" /\ appended.entry = got.entry
      BY <3>1, <3>3
    <3> QED  BY <2>2, <2>3, <3>2, <3>4
  <2>4. CASE r.outcome = "none"
    <3>1. got = [outcome |-> "not_found", entry |-> None]
      BY <2>1, <2>4 DEF GetEntry
    <3>2. appended = [got EXCEPT !.outcome = "unsupported"]
      BY <3>1 DEF AppendEntry
    <3>3. appended.outcome = "unsupported"
      BY <3>1, <3>2
    <3> QED  BY <2>2, <2>4, <3>3
  <2>5. CASE r.outcome = "unmounted"
    <3>1. got = [outcome |-> "unmounted", entry |-> None]
      BY <2>1, <2>5 DEF GetEntry
    <3>2. appended = got
      BY <3>1 DEF AppendEntry
    <3> QED  BY <2>2, <3>1, <3>2
  <2> QED  BY <2>2, <2>3, <2>4, <2>5
<1> QED  BY <1>1, SoundInvariant, MountsInvariant, LaidInvariant, LookedInvariant, PTL

-----------------------------------------------------------------------------
(***************************************************************************)
(* Authenticity.                                                           *)
(***************************************************************************)
\* No submission is declared unsigned while its capsule carries an envelope that verifies.
EnvelopesHeeded ==
    \A e \in Scenarios : \A sub \in e.submissions : sub.mode = "unsigned" => ~sub.embedded

\* The state of a row is that of its line.
Proved(rs, fs) ==
    \A i \in 1..Len(rs) : rs[i].off <= Len(fs[rs[i].seg].lines) =>
        fs[rs[i].seg].lines[rs[i].off].proof = rs[i].signed

\* The row of a promised record has the state append admitted it with.
Vouched ==
    \A a : Promised(a) /\ (a.consequential \/ used["power"] = 0) => records[a.seq].signed = a.signed

\* The invariant of authenticity: of the line being indexed, of every row, of every promised record.
Auth ==
    ~manifestLost =>
        /\ status = "insert" => files[Active].lines[Len(files[Active].lines)].proof = pending.signed
        /\ Proved(records, files)
        /\ Vouched

\* The line of a row that is there after a step was there before it.
LEMMA RowLineKept ==
    ASSUME Sound, Laid, ~manifestLost, ~Fresh, LedgerNext, NEW i \in 1..Len(records),
           records[i].off <= Len(files'[records[i].seg].lines)
    PROVE  /\ records[i].off <= Len(files[records[i].seg].lines)
           /\ files'[records[i].seg].lines[records[i].off] = files[records[i].seg].lines[records[i].off]
<1>1. PICK s \in 1..Len(files), o \in Nat : s = records[i].seg /\ o = records[i].off /\ o >= 1
  BY SoundFacts
<1>2. FilesOk(files) /\ FilesOk(files') /\ s \in 1..Len(files')
  BY <1>1, SoundFacts, SoundFiles
<1>3. Len(files[s].lines) \in Nat /\ Len(files'[s].lines) \in Nat
  BY <1>1, <1>2, FileOf
<1>4. o <= Len(files'[s].lines)
  BY <1>1
<1>5. CASE PowerLoss
  <2>1. Survives(files, files')
    BY <1>2, <1>5, PowerFiles
  <2>2. Len(files'[s].lines) <= Len(files[s].lines) /\ files'[s].lines[o] = files[s].lines[o]
    BY <1>1, <1>3, <1>4, <2>1 DEF Survives
  <2> QED  BY <1>1, <1>3, <1>4, <2>2, SMTT(30)
<1>6. CASE ~PowerLoss /\ o <= Len(files[s].lines)
  <2>1. Extends(files, files')
    BY <1>6, SoundFiles
  <2>2. o \in 1..Len(files[s].lines)
    BY <1>1, <1>3, <1>6
  <2>3. files'[s].lines[o] = files[s].lines[o]
    BY <2>1, <2>2, Zenon DEF Extends
  <2> QED  BY <1>1, <1>6, <2>3
<1>7. CASE ~PowerLoss /\ status \notin {"down", "opened"}
  <2>1. Names(files, records[i])
    BY <1>7, NamesAll
  <2>2. o <= Len(files[s].lines)
    BY <1>1, <2>1 DEF Names
  <2> QED  BY <1>6, <1>7, <2>2
<1>8. CASE ~PowerLoss /\ status \in {"down", "opened"}
  <2>1. Open \/ Stop \/ RecoverStart \/ Reindex \/ RebuildLookup
    BY <1>8 DEF LedgerNext, LedgerStep, CreateSave, AppendLine, AppendFails,
      MayAppend, InsertRecord, InsertFails, AppendLookup, Rotate, RotateRaises, Save, SaveFails,
      CatchUpLookup, RecoverLine, RecoverLookup, RecoverEnd
  <2>2. CASE Open \/ Stop \/ RebuildLookup
    <3>1. files' = files
      BY <2>2 DEF Open, Stop, RebuildLookup, diskVars, Fresh
    <3> QED  BY <3>1
  <2>3. CASE RecoverStart
    <3>1. SameLines(files, files', Active)
      BY <2>3, RecoverStartFiles
    <3>2. files'[s].lines = files[s].lines
      BY <1>1, <3>1 DEF SameLines
    <3> QED  BY <1>1, <1>4, <3>2
  <2>4. CASE Reindex
    <3>1. SameLines(files, files', Active)
      BY <2>4, ReindexedFiles
    <3>2. files'[s].lines = files[s].lines
      BY <1>1, <3>1 DEF SameLines
    <3> QED  BY <1>1, <1>4, <3>2
  <2> QED  BY <2>1, <2>2, <2>3, <2>4
<1> QED  BY <1>5, <1>7, <1>8

\* A row that is added has the state of its line.
LEMMA AddedProved ==
    ASSUME NEW fs, NEW rs, RowsTyped(rs, fs), Proved(rs, fs), NEW row,
           row.signed = fs[row.seg].lines[row.off].proof,
           NEW qs, Len(qs) = Len(rs) + 1, \A i \in 1..Len(rs) : qs[i] = rs[i], qs[Len(rs) + 1] = row
    PROVE  Proved(qs, fs)
<1>1. Len(rs) \in Nat
  BY RowOf
<1>2. ASSUME NEW i \in 1..Len(qs), qs[i].off <= Len(fs[qs[i].seg].lines)
      PROVE  fs[qs[i].seg].lines[qs[i].off].proof = qs[i].signed
  <2>1. CASE i = Len(rs) + 1
    BY <2>1
  <2>2. CASE i # Len(rs) + 1
    <3>1. i \in 1..Len(rs) /\ qs[i] = rs[i]
      BY <1>1, <2>2
    <3> QED  BY <1>2, <3>1 DEF Proved
  <2> QED  BY <2>1, <2>2
<1> QED  BY <1>2 DEF Proved

\* Every step keeps the state of a row that of its line,
LEMMA ProvedStep ==
    ASSUME Sound, Laid, Auth, ~manifestLost, ~Fresh, LedgerNext
    PROVE  Proved(records', files')
<1>1. /\ RowsTyped(records, files) /\ DistinctIds(records) /\ Len(files) \in Nat
      /\ Proved(records, files)
      /\ FilesOk(files)
  BY SoundFacts DEF Sound, Rows, Auth
<1>2. CASE records' = records
  <2>1. ASSUME NEW i \in 1..Len(records), records[i].off <= Len(files'[records[i].seg].lines)
        PROVE  files'[records[i].seg].lines[records[i].off].proof = records[i].signed
    <3>1. /\ records[i].off <= Len(files[records[i].seg].lines)
          /\ files'[records[i].seg].lines[records[i].off] = files[records[i].seg].lines[records[i].off]
      BY <2>1, RowLineKept
    <3> QED  BY <1>1, <3>1 DEF Proved
  <2> QED  BY <1>2, <2>1 DEF Proved
<1>3. CASE InsertRecord
  <2>1. PICK row : /\ row \in RowType /\ row.seg \in 1..Len(files) /\ row.off >= 1 /\ row.id \notin Ids
                   /\ records' = Append(records, row) /\ files' = files
                   /\ row.seg = Active /\ row.off = Len(files[Active].lines)
                   /\ row.signed = pending.signed
    BY <1>3, InsertRow
  <2>2. /\ Len(records') = Len(records) + 1
        /\ \A i \in 1..Len(records) : records'[i] = records[i]
        /\ records'[Len(records) + 1] = row
    BY <1>1, <2>1, RowAdded
  <2>3. files[Active].lines[Len(files[Active].lines)].proof = pending.signed
    BY <1>3 DEF Auth, InsertRecord
  <2>4. row.signed = files[row.seg].lines[row.off].proof
    BY <2>1, <2>3
  <2>5. PICK qs : qs = records'
    OBVIOUS
  <2>6. Len(qs) = Len(records) + 1 /\ (\A i \in 1..Len(records) : qs[i] = records[i])
        /\ qs[Len(records) + 1] = row
    BY <2>2, <2>5
  <2>7. Proved(qs, files)
    BY <1>1, <2>4, <2>6, AddedProved
  <2> QED  BY <2>1, <2>5, <2>7
<1>4. CASE RecoverLine /\ records' # records
  <2>1. PICK row : /\ row \in RowType /\ row.seg \in 1..Len(files) /\ row.off >= 1 /\ row.id \notin Ids
                   /\ records' = Append(records, row) /\ files' = files
                   /\ row.seg = Active /\ row.off = cursor
                   /\ row.signed = files[Active].lines[cursor].proof
    BY <1>4, RecoveredRow
  <2>2. /\ Len(records') = Len(records) + 1
        /\ \A i \in 1..Len(records) : records'[i] = records[i]
        /\ records'[Len(records) + 1] = row
    BY <1>1, <2>1, RowAdded
  <2>4. row.signed = files[row.seg].lines[row.off].proof
    BY <2>1
  <2>5. PICK qs : qs = records'
    OBVIOUS
  <2>6. Len(qs) = Len(records) + 1 /\ (\A i \in 1..Len(records) : qs[i] = records[i])
        /\ qs[Len(records) + 1] = row
    BY <2>2, <2>5
  <2>7. Proved(qs, files)
    BY <1>1, <2>4, <2>6, AddedProved
  <2> QED  BY <2>1, <2>5, <2>7
<1>5. CASE Reindex /\ records' # records
  <2>1. PICK rs : rs = Leaves
    OBVIOUS
  <2>2. records' = rs /\ status # "down"
    BY <1>5, <2>1 DEF Reindex
  <2>3. files \in Seq(FileType) /\ Active \in 1..Len(files) /\ Len(manifest.segs) = Active
    BY <1>1, <2>2, SoundFacts DEF FilesOk
  <2>4. \A k \in 1..Len(rs) : \E s \in 1..Active : \E o \in 1..Len(files[s].lines) : rs[k] = LineRow(s, o)
    BY <2>1, <2>3, LeavesRows
  <2>5. SameLines(files, files', Active)
    BY <1>5, ReindexedFiles
  <2>6. ASSUME NEW k \in 1..Len(rs) PROVE files'[rs[k].seg].lines[rs[k].off].proof = rs[k].signed
    <3>1. PICK s \in 1..Active : \E o \in 1..Len(files[s].lines) : rs[k] = LineRow(s, o)
      BY <2>4
    <3>11. PICK o \in 1..Len(files[s].lines) : rs[k] = LineRow(s, o)
      BY <3>1
    <3>2. rs[k].seg = s /\ rs[k].off = o /\ rs[k].signed = files[s].lines[o].proof
      BY <3>11 DEF LineRow, Row, ReindexAuthenticity
    <3>3. s \in 1..Len(files)
      BY <1>1, <2>3
    <3>4. files'[s].lines = files[s].lines
      BY <2>5, <3>3 DEF SameLines
    <3> QED  BY <3>2, <3>4
  <2> QED  BY <2>2, <2>6 DEF Proved
<1> QED  BY <1>2, <1>3, <1>4, <1>5, RecordsChange

\* and that of a promised record the one it was admitted with.
LEMMA VouchedStep ==
    ASSUME Sound, Laid, Auth, ~manifestLost, ~Fresh, LedgerNext
    PROVE  Vouched'
<1>1. SUFFICES ASSUME NEW a, Promised(a)', a.consequential \/ used'["power"] = 0
               PROVE  records'[a.seq].signed = a.signed
  BY DEF Vouched
<1>2. PICK n, b : n = View.active /\ LaidBy(n, b)
  BY DEF Laid
<1>3. Keeps /\ Layout(files, records, n, b)
  BY <1>2 DEF LaidBy
<1>4. /\ RowsTyped(records, files) /\ DistinctIds(records) /\ Len(files) \in Nat /\ Len(records) \in Nat
      /\ FilesOk(files)
  BY SoundFacts DEF Sound, Rows
<1>5. a.consequential \/ used["power"] = 0
  <2>1. used["power"] \in Nat /\ used'["power"] \in Nat /\ used["power"] <= used'["power"]
    BY UsedChange DEF Sound, Memory, EventKind
  <2> QED  BY <1>1, <2>1
<1>6. Promised(a) => /\ a.seq \in 1..Len(records) /\ records[a.seq].signed = a.signed
                     /\ records[a.seq].off <= Len(files[records[a.seq].seg].lines)
  <2>1. SUFFICES ASSUME Promised(a)
                 PROVE  /\ a.seq \in 1..Len(records) /\ records[a.seq].signed = a.signed
                        /\ records[a.seq].off <= Len(files[records[a.seq].seg].lines)
    OBVIOUS
  <2>2. /\ a.seq \in 1..Len(records)
        /\ a.consequential => records[a.seq].off <= files[records[a.seq].seg].synced
    BY <1>3, <1>5, <2>1 DEF Keeps, KeptIn
  <2>3. records[a.seq].signed = a.signed
    BY <1>5, <2>1 DEF Auth, Vouched
  <2>4. records[a.seq].off <= Len(files[records[a.seq].seg].lines)
    <3>1. CASE used["power"] = 0
      BY <2>2, <3>1 DEF Sound, Rows, Names
    <3>2. CASE a.consequential
      <4>1. PICK s \in 1..Len(files), o \in Nat : s = records[a.seq].seg /\ o = records[a.seq].off
        BY <2>2, SoundFacts
      <4>2. files[s].synced \in Nat /\ files[s].synced <= Len(files[s].lines)
            /\ Len(files[s].lines) \in Nat
        BY <1>4, FileOf
      <4>3. o <= files[s].synced
        BY <2>2, <3>2, <4>1
      <4> QED  BY <4>1, <4>2, <4>3
    <3> QED  BY <1>5, <3>1, <3>2
  <2> QED  BY <2>2, <2>3, <2>4
<1>7. CASE InsertRecord
  <2>1. PICK row : /\ row \in RowType /\ row.seg \in 1..Len(files) /\ row.off >= 1 /\ row.id \notin Ids
                   /\ records' = Append(records, row) /\ row.signed = pending.signed
                   /\ pending' = [pending EXCEPT !.seq = Len(records')]
    BY <1>7, InsertRow
  <2>2. /\ Len(records') = Len(records) + 1
        /\ \A i \in 1..Len(records) : records'[i] = records[i]
        /\ records'[Len(records) + 1] = row
    BY <1>4, <2>1, RowAdded
  <2>3. CASE a \in acked'
    <3>1. a \in acked
      BY <1>7, <2>3 DEF InsertRecord
    <3>2. Promised(a)
      BY <3>1 DEF Promised
    <3> QED  BY <1>6, <2>2, <3>2
  <2>4. CASE a = pending'
    <3>1. pending \in PendingType
      BY <1>7 DEF InsertRecord, Sound, Working
    <3>2. a.seq = Len(records) + 1 /\ a.signed = pending.signed
      BY <2>1, <2>2, <2>4, <3>1 DEF PendingType
    <3> QED  BY <2>1, <2>2, <3>2
  <2> QED  BY <1>1, <2>3, <2>4 DEF Promised
<1>8. CASE ~InsertRecord /\ ~Reindex
  <2>1. Promised(a)
    BY <1>1, <1>8, PromisedChange
  <2>2. \A i \in 1..Len(records) : records'[i] = records[i]
    BY <1>8, RecordsGrow
  <2> QED  BY <1>6, <2>1, <2>2
<1>9. CASE Reindex
  <2>1. ~InsertRecord
    BY <1>9 DEF Reindex, InsertRecord
  <2>2. Promised(a)
    BY <1>1, <2>1, PromisedChange
  <2>3. PICK i \in 1..Len(records) : i = a.seq /\ records[i].signed = a.signed
                                     /\ records[i].off <= Len(files[records[i].seg].lines)
    BY <1>6, <2>2
  <2>4. CASE records' = records
    BY <2>3, <2>4
  <2>5. CASE records' = Leaves
    <3>1. status # "down"
      BY <1>9 DEF Reindex
    <3>2. n = Active /\ Len(manifest.segs) = n
      BY <1>2, <3>1, SoundFacts DEF View, Active
    <3>3. Leaves[i].signed = files[records[i].seg].lines[records[i].off].proof
      BY <1>3, <1>4, <2>3, <3>2, LeavesAgree
    <3>4. files[records[i].seg].lines[records[i].off].proof = records[i].signed
      BY <2>3 DEF Auth, Proved
    <3> QED  BY <2>3, <2>5, <3>3, <3>4
  <2> QED  BY <1>9, <2>4, <2>5 DEF Reindex
<1> QED  BY <1>7, <1>8, <1>9

\* Every step keeps Auth.
LEMMA AuthStep ==
    ASSUME EnvelopesHeeded, Sound, Unborn, Unborn', Laid, Auth, LedgerNext
    PROVE  Auth'
<1>1. SUFFICES ASSUME ~manifestLost'
               PROVE  /\ status' = "insert" =>
                            files'[Active'].lines[Len(files'[Active'].lines)].proof = pending'.signed
                      /\ Proved(records', files')
                      /\ Vouched'
  BY DEF Auth
<1>2. ~manifestLost
  BY <1>1, LostStays
<1>3. ASSUME status' = "insert"
      PROVE  files'[Active'].lines[Len(files'[Active'].lines)].proof = pending'.signed
  <2>1. PICK c \in Capsule, sub \in scenario.submissions : AppendLine(c, sub)
    BY <1>3, StatusChange
  <2>2. /\ manifest' = manifest /\ pending'.signed = (sub.mode = "signed")
        /\ Len(files[Active].lines) \in Nat
        /\ Len(files'[Active].lines) = Len(files[Active].lines) + 1
        /\ files'[Active].lines[Len(files[Active].lines) + 1] = Stored(c, sub)
    BY <2>1, AppendedLine
  <2>3. Active' = Active
    BY <2>2 DEF Active
  <2>4. /\ sub \in Submission /\ (sub.mode = "unsigned" => ~sub.embedded)
        /\ Stored(c, sub).proof = (sub.mode = "signed" \/ sub.embedded)
    BY StoredLine, SoundFacts DEF EnvelopesHeeded
  <2>5. Stored(c, sub).proof = (sub.mode = "signed")
    BY <2>4 DEF Submission
  <2> QED  BY <2>2, <2>3, <2>5
<1>4. CASE Fresh
  <2>1. disk' = None
    BY <1>4, DiskChange DEF Fresh, CreateSave, Save, SaveFails
  <2>2. records' = <<>> /\ acked' = {} /\ status' \in {"down", "create"}
    BY <2>1 DEF Unborn
  <2>3. Proved(records', files')
    BY <2>2 DEF Proved
  <2>4. Vouched'
    BY <2>2 DEF Vouched, Promised
  <2> QED  BY <1>3, <2>3, <2>4
<1>5. CASE ~Fresh
  BY <1>2, <1>3, <1>5, ProvedStep, VouchedStep
<1> QED  BY <1>4, <1>5

\* Auth is an invariant.
LEMMA AuthInvariant ==
    ASSUME EnvelopesHeeded
    PROVE  LedgerSpec => []Auth
<1>1. LedgerInit => Auth
  BY DEF LedgerInit, Auth, Proved, Vouched, Promised
<1>2. ASSUME Sound, Unborn, Unborn', Laid, Auth, [LedgerNext]_ledgerVars
      PROVE  Auth'
  <2>1. CASE LedgerNext
    BY <1>2, <2>1, AuthStep
  <2>2. CASE UNCHANGED ledgerVars
    <3>1. UNCHANGED <<files, records, status, manifest, pending, acked, used, manifestLost>>
      BY <2>2 DEF ledgerVars, diskVars, memVars, historyVars
    <3> QED  BY <1>2, <3>1, Zenon DEF Auth, Active, Proved, Vouched, Promised
  <2> QED  BY <1>2, <2>1, <2>2
<1> QED  BY <1>1, <1>2, SoundInvariant, UnbornInvariant, LaidInvariant, PTL DEF LedgerSpec

\* The line a lookup row leads to, when it is of a record the records index
\* has on a line, is that line.
LEMMA HitLine ==
    ASSUME Sound, NEW n, NEW b, Layout(files, records, n, b), NEW k \in DOMAIN lookup,
           Readable(lookup[k]),
           NEW i \in 1..Len(records), Names(files, records[i]), LineOf(lookup[k]).id = records[i].id
    PROVE  LineOf(lookup[k]) = LineOf(records[i])
<1>1. FilesOk(files) /\ RowsTyped(records, files)
  BY SoundFacts
<1>2. PICK s \in 1..Len(files), o \in Nat : s = lookup[k].seg /\ o = lookup[k].off /\ o >= 1
  BY DEF Sound, Rows, LookupTyped, LookupRowType
<1>3. o <= Len(files[s].lines)
  BY <1>2 DEF Readable, Read
<1>4. Len(files[s].lines) \in Nat
  BY <1>1, FileOf
<1>5. o \in 1..Len(files[s].lines)
  BY <1>2, <1>3, <1>4
<1>6. n \in Nat /\ n \in 1..Len(files) /\ Len(files) \in Nat
  BY <1>1, LayoutFacts
<1>7. s \in 1..n
  <2>1. SUFFICES ASSUME s > n PROVE FALSE
    BY <1>6
  <2>2. files[s].lines = <<>>
    BY <2>1 DEF Layout, ClosedOk
  <2>3. Len(files[s].lines) = 0
    BY <2>2, EmptySeq
  <2> QED  BY <1>2, <1>3, <2>3
<1>8. PICK t \in 1..n, p \in Nat : t = records[i].seg /\ p = records[i].off /\ p >= 1
  BY <1>1, LayoutFacts
<1>9. Len(files[t].lines) \in Nat
  BY <1>1, LayoutFacts
<1>10. p \in 1..Len(files[t].lines) /\ files[t].lines[p].id = records[i].id
  BY <1>8, <1>9 DEF Names
<1>11. files[s].lines[o].id = files[t].lines[p].id
  BY <1>2, <1>10 DEF LineOf
<1>12. s = t /\ o = p
  BY <1>5, <1>7, <1>10, <1>11 DEF Layout, OneLine
<1> QED  BY <1>2, <1>8, <1>12 DEF LineOf

\* AuthenticityKept holds of every store that is given no declared-unsigned
\* capsule with an envelope of its own: fetch takes the state from the row,
\* by_digest from the line (_row_to_record and _resolve_lookup_hit, store.py),
\* and both are what resolve_admission admitted.
THEOREM AuthenticityIsKept ==
    ASSUME EnvelopesHeeded
    PROVE  LedgerSpec => []AuthenticityKept
<1>1. Sound /\ Laid /\ Auth => AuthenticityKept
  <2> SUFFICES ASSUME Sound, Laid, Auth, status = "ready", ~manifestLost, NEW a \in acked,
                      a.consequential \/ used["power"] = 0
               PROVE  /\ \A i \in DOMAIN records : records[i].id = a.id => records[i].signed = a.signed
                      /\ ByDigest(a.id).outcome = "found" /\ ByDigest(a.id).id = a.id =>
                            ByDigest(a.id).signed = a.signed
    BY DEF AuthenticityKept
  <2>1. DOMAIN records = 1..Len(records) /\ DistinctIds(records) /\ lookupOn \in BOOLEAN
    BY SoundFacts DEF Sound, Rows, Memory
  <2>2. PICK n, b : n = View.active /\ LaidBy(n, b)
    BY DEF Laid, Fresh
  <2>3. Keeps /\ Layout(files, records, n, b)
    BY <2>2 DEF LaidBy
  <2>4. Promised(a)
    BY DEF Promised
  <2>5. PICK i \in 1..Len(records) : i = a.seq /\ records[i].id = a.id
    BY <2>3, <2>4 DEF Keeps, KeptIn
  <2>6. records[i].signed = a.signed
    BY <2>4, <2>5 DEF Auth, Vouched
  <2>7. \A j \in DOMAIN records : records[j].id = a.id => j = i
    BY <2>1, <2>5 DEF DistinctIds
  <2>8. Names(files, records[i])
    BY NamesAll
  <2>9. LineOf(records[i]).proof = a.signed
    BY <2>6, <2>8 DEF Auth, Proved, Names, LineOf
  <2>10. ASSUME ByDigest(a.id).outcome = "found", ByDigest(a.id).id = a.id
         PROVE  ByDigest(a.id).signed = a.signed
    <3>1. NoAnswer("none").outcome = "none" /\ \A x : NoAnswer(x).outcome = x
      BY DEF NoAnswer
    <3>2. CASE lookupOn
      <4>1. LookupHits(a.id) # {}
        BY <2>10, <3>1, <3>2 DEF ByDigest
      <4>2. PICK k : k = Min(LookupHits(a.id))
        OBVIOUS
      <4>3. k \in DOMAIN lookup
        <5>1. LookupHits(a.id) \in SUBSET Nat /\ LookupHits(a.id) \subseteq DOMAIN lookup
          BY DEF LookupHits, Sound, Rows, LookupTyped
        <5>2. PICK m \in LookupHits(a.id) : \A y \in LookupHits(a.id) : m <= y
          BY <4>1, <5>1, LeastOfNats
        <5>3. Min(LookupHits(a.id)) \in LookupHits(a.id)
          BY <5>2 DEF Min
        <5> QED  BY <4>2, <5>1, <5>3
      <4>4. ByDigest(a.id) = ResolveLookupHit(k)
        BY <3>2, <4>1, <4>2 DEF ByDigest
      <4>5. PICK row : row = lookup[k]
        OBVIOUS
      <4>6. CASE Readable(row)
        <5>1. ByDigest(a.id) = Found(k, LineOf(row).id, row, ReindexAuthenticity(LineOf(row)))
          BY <4>4, <4>5, <4>6 DEF ResolveLookupHit
        <5>2. ByDigest(a.id).id = LineOf(row).id /\ ByDigest(a.id).signed = LineOf(row).proof
          BY <5>1 DEF Found, ReindexAuthenticity
        <5>3. Readable(lookup[k]) /\ LineOf(lookup[k]).id = records[i].id
          BY <2>5, <2>10, <4>5, <4>6, <5>2
        <5>4. LineOf(lookup[k]) = LineOf(records[i])
          BY <2>3, <2>8, <4>3, <5>3, HitLine
        <5> QED  BY <2>9, <4>5, <5>2, <5>4
      <4>7. CASE ~Readable(row)
        <5>1. ByDigest(a.id) = NoAnswer(Read(row))
          BY <4>4, <4>5, <4>7 DEF ResolveLookupHit
        <5> QED  BY <2>10, <3>1, <4>7, <5>1 DEF Readable
      <4> QED  BY <4>6, <4>7
    <3>3. CASE ~lookupOn
      <4>1. ByDigest(a.id) = Fetch(a.id)
        BY <2>10, <3>1, <3>3 DEF ByDigest
      <4>2. Fetch(a.id) = RowToRecord(i)
        BY <2>1, <2>5, FirstOfId DEF Fetch, Ids
      <4>3. CASE Readable(records[i])
        <5>1. ByDigest(a.id) = Found(i, records[i].id, records[i], records[i].signed)
          BY <4>1, <4>2, <4>3 DEF RowToRecord
        <5> QED  BY <2>6, <5>1 DEF Found
      <4>4. CASE ~Readable(records[i])
        <5>1. ByDigest(a.id) = NoAnswer(Read(records[i]))
          BY <4>1, <4>2, <4>4 DEF RowToRecord
        <5> QED  BY <2>10, <3>1, <4>4, <5>1 DEF Readable
      <4> QED  BY <4>3, <4>4
    <3> QED  BY <2>1, <3>2, <3>3
  <2> QED  BY <2>6, <2>7, <2>10
<1> QED  BY <1>1, SoundInvariant, LaidInvariant, AuthInvariant, PTL

-----------------------------------------------------------------------------
(***************************************************************************)
(* Pages of entries.                                                       *)
(***************************************************************************)
\* The seqs of an interval, in order.
LEMMA OrderedInterval ==
    ASSUME NEW x \in Nat, NEW m \in Nat, NEW S, S = (x + 1)..(x + m)
    PROVE  Ordered(S) = [k \in 1..m |-> x + k]
<1>1. \A i \in Nat : Cardinality((x + 1)..(x + i)) = i
  <2>1. SUFFICES ASSUME NEW i \in Nat PROVE Cardinality((x + 1)..(x + i)) = i
    OBVIOUS
  <2>2. x + 1 \in Int /\ x + i \in Int
    OBVIOUS
  <2>3. Cardinality((x + 1)..(x + i)) = IF x + 1 > x + i THEN 0 ELSE (x + i) - (x + 1) + 1
    BY <2>2, FS_Interval
  <2> QED  BY <2>3
<1>2. Cardinality(S) = m
  BY <1>1
<1>3. ASSUME NEW k \in 1..m
      PROVE  (CHOOSE i \in S : Cardinality({j \in S : j <= i}) = k) = x + k
  <2>1. ASSUME NEW i \in S PROVE Cardinality({j \in S : j <= i}) = i - x
    <3>1. PICK d \in Nat : i = x + d /\ d >= 1 /\ d <= m
      <4>1. i - x \in Nat /\ i = x + (i - x) /\ i - x >= 1 /\ i - x <= m
        OBVIOUS
      <4> QED  BY <4>1
    <3>2. {j \in S : j <= i} = (x + 1)..(x + d)
      BY <3>1
    <3>3. Cardinality((x + 1)..(x + d)) = d
      BY <1>1
    <3>4. Cardinality({j \in S : j <= i}) = d
      BY <3>2, <3>3, Zenon
    <3>5. i - x = d
      BY <3>1
    <3> QED  BY <3>4, <3>5, Zenon
  <2>2. x + k \in S /\ Cardinality({j \in S : j <= x + k}) = k
    BY <2>1
  <2>3. ASSUME NEW i \in S, Cardinality({j \in S : j <= i}) = k PROVE i = x + k
    BY <2>1, <2>3
  <2> QED  BY <2>2, <2>3
<1>4. Ordered(S) = [k \in 1..m |-> CHOOSE i \in S : Cardinality({j \in S : j <= i}) = k]
  BY <1>2 DEF Ordered
<1> QED  BY <1>3, <1>4

\* A list of answers that are records or unmounted segments.
LEMMA ListedOf ==
    ASSUME NEW m \in Nat, NEW answers, DOMAIN answers = 1..m,
           \A k \in 1..m : answers[k].outcome \in {"found", "unmounted"}
    PROVE  \/ Listed(answers).outcome = "unmounted"
           \/ /\ Listed(answers) = [outcome |-> "found", list |-> answers]
              /\ \A k \in 1..m : answers[k].outcome = "found"
<1>1. PICK unread : unread = {k \in DOMAIN answers : answers[k].outcome # "found"}
  OBVIOUS
<1>2. Listed(answers) = IF unread = {} THEN [outcome |-> "found", list |-> answers]
                        ELSE [outcome |-> answers[Min(unread)].outcome, list |-> <<>>]
  BY <1>1 DEF Listed
<1>3. CASE unread = {}
  BY <1>1, <1>2, <1>3
<1>4. CASE unread # {}
  <2>1. unread \in SUBSET Nat
    BY <1>1
  <2>2. PICK k \in unread : \A y \in unread : k <= y
    BY <1>4, <2>1, LeastOfNats
  <2>3. Min(unread) \in unread
    BY <2>2 DEF Min
  <2>4. answers[Min(unread)].outcome = "unmounted"
    BY <1>1, <2>3
  <2> QED  BY <1>2, <1>4, <2>4
<1> QED  BY <1>3, <1>4

\* The last seq of a page, and the page's length.
LEMMA PageEnd ==
    ASSUME NEW r \in Nat, NEW after \in 0..r, NEW limit \in 1..r
    PROVE  \E m \in Nat :
              /\ Min({after + limit, r}) = after + m /\ after + m <= r /\ m <= limit
              /\ m = limit \/ after + m = r
<1>1. CASE after + limit <= r
  <2>1. Min({after + limit, r}) = after + limit
    BY <1>1 DEF Min
  <2> QED  BY <1>1, <2>1
<1>2. CASE after + limit > r
  <2>1. Min({after + limit, r}) = r
    BY <1>2 DEF Min
  <2>2. r - after \in Nat /\ after + (r - after) = r /\ r - after <= limit
    BY <1>2
  <2> QED  BY <2>1, <2>2
<1> QED  BY <1>1, <1>2

\* The seqs of a page.
LEMMA PageSeqs ==
    ASSUME NEW r \in Nat, NEW after \in 0..r, NEW limit \in 1..r, NEW m \in Nat,
           after + m <= r, m <= limit, m = limit \/ after + m = r
    PROVE  {i \in 1..r : after + 1 <= i /\ i <= after + limit} = (after + 1)..(after + m)
OBVIOUS

\* What scan() lists: the records at their seqs.
LEMMA ScanListed ==
    ASSUME Sound, Mounts, Laid, Recovered
    PROVE  \/ Scan.outcome = "unmounted"
           \/ /\ Scan = [outcome |-> "found", list |-> [i \in 1..Len(records) |-> RowToRecord(i)]]
              /\ \A i \in 1..Len(records) : RowToRecord(i).seq = i /\ RowToRecord(i).id = records[i].id
<1>1. DOMAIN records = 1..Len(records) /\ Len(records) \in Nat
  BY SoundFacts
<1>2. PICK answers : answers = [i \in 1..Len(records) |-> RowToRecord(i)]
  OBVIOUS
<1>3. DOMAIN answers = 1..Len(records) /\ \A i \in 1..Len(records) : answers[i] = RowToRecord(i)
  BY <1>2
<1>4. \A i \in 1..Len(records) : answers[i].outcome \in {"found", "unmounted"}
  BY <1>3, RowRead
<1>5. Scan = Listed(answers)
  BY <1>1, <1>2 DEF Scan
<1>6. \/ Listed(answers).outcome = "unmounted"
      \/ /\ Listed(answers) = [outcome |-> "found", list |-> answers]
         /\ \A k \in 1..Len(records) : answers[k].outcome = "found"
  BY <1>1, <1>3, <1>4, ListedOf
<1>7. ASSUME \A k \in 1..Len(records) : answers[k].outcome = "found", NEW i \in 1..Len(records)
      PROVE  RowToRecord(i).seq = i /\ RowToRecord(i).id = records[i].id
  <2>1. RowToRecord(i).outcome = "found"
    BY <1>3, <1>7
  <2> QED  BY <2>1, RowRead
<1> QED  BY <1>2, <1>5, <1>6, <1>7

\* A list of the records at the m seqs after a seq.
PageOf(list, after, m) ==
    /\ DOMAIN list = 1..m
    /\ \A k \in 1..m : list[k].seq = after + k /\ list[k].id = records[after + k].id

\* by_seq_range reads a page from the lookup index,
LEMMA LookupPage ==
    ASSUME Sound, Mounts, Laid, Looked, Recovered, lookupOn,
           NEW after \in 0..Len(records), NEW limit \in 1..Len(records), NEW m \in Nat,
           after + m <= Len(records), m <= limit, m = limit \/ after + m = Len(records),
           NEW r, r = BySeqRange(after + 1, after + limit)
    PROVE  \/ r.outcome = "unmounted"
           \/ r.outcome = "found" /\ PageOf(r.list, after, m)
<1>1. Len(records) \in Nat /\ DOMAIN lookup = 1..Len(records)
  BY SoundFacts, SameRecord
<1>2. PICK hits : hits = LookupRange(after + 1, after + limit)
  OBVIOUS
<1>3. hits = [k \in 1..m |-> after + k]
  <2>1. {i \in DOMAIN lookup : after + 1 <= i /\ i <= after + limit} = (after + 1)..(after + m)
    BY <1>1, PageSeqs
  <2>2. hits = Ordered((after + 1)..(after + m))
    BY <1>2, <2>1, Zenon DEF LookupRange
  <2>3. after \in Nat
    BY <1>1
  <2> QED  BY <2>2, <2>3, OrderedInterval
<1>4. PICK answers : answers = [k \in DOMAIN hits |-> ResolveLookupHit(hits[k])]
  OBVIOUS
<1>5. DOMAIN answers = 1..m /\ \A k \in 1..m : answers[k] = ResolveLookupHit(after + k)
  BY <1>3, <1>4
<1>6. \A k \in 1..m : after + k \in 1..Len(records)
  BY <1>1
<1>7. \A k \in 1..m : \/ /\ answers[k].outcome = "found" /\ answers[k].id = records[after + k].id
                         /\ answers[k].seq = after + k
                      \/ answers[k].outcome = "unmounted"
  BY <1>5, <1>6, HitRead
<1>8. r = Listed(answers)
  BY <1>2, <1>4 DEF BySeqRange
<1>9. \/ Listed(answers).outcome = "unmounted"
      \/ /\ Listed(answers) = [outcome |-> "found", list |-> answers]
         /\ \A k \in 1..m : answers[k].outcome = "found"
  BY <1>5, <1>7, ListedOf
<1>10. CASE Listed(answers).outcome = "unmounted"
  BY <1>8, <1>10
<1>11. CASE /\ Listed(answers) = [outcome |-> "found", list |-> answers]
            /\ \A k \in 1..m : answers[k].outcome = "found"
  <2>1. r.outcome = "found" /\ r.list = answers
    BY <1>8, <1>11
  <2>2. \A k \in 1..m : answers[k].seq = after + k /\ answers[k].id = records[after + k].id
    BY <1>7, <1>11
  <2> QED  BY <1>5, <2>1, <2>2 DEF PageOf
<1> QED  BY <1>9, <1>10, <1>11

\* or, without the index, from a scan.
LEMMA ScanPage ==
    ASSUME Sound, Mounts, Laid, Recovered, ~lookupOn,
           NEW after \in 0..Len(records), NEW limit \in 1..Len(records), NEW m \in Nat,
           after + m <= Len(records), m <= limit, m = limit \/ after + m = Len(records),
           NEW r, r = BySeqRange(after + 1, after + limit)
    PROVE  \/ r.outcome = "unmounted"
           \/ r.outcome = "found" /\ PageOf(r.list, after, m)
<1>0. Len(records) \in Nat
  BY SoundFacts
<1>1. Len(records) \in Nat /\ after \in Nat
  BY <1>0
<1>2. r = [Scan EXCEPT !.list = InRange(@, after + 1, after + limit)]
  BY DEF BySeqRange
<1>3. r.outcome = Scan.outcome /\ r.list = InRange(Scan.list, after + 1, after + limit)
  <2>1. \E x, y : Scan = [outcome |-> x, list |-> y]
    BY DEF Scan, Listed
  <2> QED  BY <1>2, <2>1
<1>4. CASE Scan.outcome = "unmounted"
  BY <1>3, <1>4
<1>5. CASE /\ Scan = [outcome |-> "found", list |-> [i \in 1..Len(records) |-> RowToRecord(i)]]
           /\ \A i \in 1..Len(records) : RowToRecord(i).seq = i /\ RowToRecord(i).id = records[i].id
  <2>1. PICK list : list = Scan.list
    OBVIOUS
  <2>2. DOMAIN list = 1..Len(records) /\ \A i \in 1..Len(records) : list[i].seq = i
        /\ list[i].id = records[i].id
    BY <1>5, <2>1
  <2>3. {k \in DOMAIN list : after + 1 <= list[k].seq /\ list[k].seq <= after + limit}
           = {i \in 1..Len(records) : after + 1 <= i /\ i <= after + limit}
    BY <2>2
  <2>4. {i \in 1..Len(records) : after + 1 <= i /\ i <= after + limit} = (after + 1)..(after + m)
    BY <1>1, PageSeqs
  <2>5. PICK at : at = Ordered({k \in DOMAIN list : after + 1 <= list[k].seq /\ list[k].seq <= after + limit})
    OBVIOUS
  <2>6. at = [k \in 1..m |-> after + k]
    <3>1. at = Ordered((after + 1)..(after + m))
      BY <2>3, <2>4, <2>5, Zenon
    <3> QED  BY <1>1, <3>1, OrderedInterval
  <2>7. r.list = [k \in DOMAIN at |-> list[at[k]]]
    BY <1>3, <2>1, <2>5 DEF InRange
  <2>8. DOMAIN r.list = 1..m /\ \A k \in 1..m : r.list[k] = list[after + k]
    BY <2>6, <2>7
  <2>9. \A k \in 1..m : after + k \in 1..Len(records)
    BY <1>1
  <2>10. PageOf(r.list, after, m)
    BY <2>2, <2>8, <2>9 DEF PageOf
  <2>11. r.outcome = "found"
    BY <1>3, <1>5
  <2> QED  BY <2>10, <2>11
<1> QED  BY <1>4, <1>5, ScanListed

\* The log's entries at those seqs.
LogPage(after, m) == [k \in 1..m |-> [seq |-> after + k, value |-> records[after + k].id]]

\* The entries of a page are the log's.
LEMMA PageEntries ==
    ASSUME NEW after, NEW m, NEW list, PageOf(list, after, m)
    PROVE  Entries(list).outcome = "found" /\ Entries(list).list = LogPage(after, m)
<1>1. Entries(list).list = [k \in DOMAIN list |-> RecordEntry(list[k])]
      /\ Entries(list).outcome = "found"
  BY DEF Entries
<1>2. \A k \in 1..m : RecordEntry(list[k]) = [seq |-> after + k, value |-> records[after + k].id]
  BY DEF PageOf, RecordEntry
<1>3. DOMAIN list = 1..m
  BY DEF PageOf
<1> QED  BY <1>1, <1>2, <1>3 DEF LogPage

\* EntriesServed holds of every store: both adapters of log/ledger.py serve a
\* checkpoint runner exactly the records after a seq, or the error of a segment
\* that is unmounted.
THEOREM EntriesAreServed == LedgerSpec => []EntriesServed
<1>1. Sound /\ Mounts /\ Laid /\ Looked => EntriesServed
  <2> SUFFICES ASSUME Sound, Mounts, Laid, Looked, Recovered,
                      NEW after \in 0..Len(records), NEW limit \in 1..Len(records)
               PROVE  LET last == Min({after + limit, Len(records)})
                          log == [k \in 1..(last - after) |->
                                     [seq |-> after + k, value |-> records[after + k].id]]
                      IN  \A page \in {ScanEntries(after, limit), ScanSource(after, limit)} :
                              \/ page.outcome = "unmounted"
                              \/ page.outcome = "found" /\ page.list = log
    BY DEF EntriesServed
  <2>1. Len(records) \in Nat /\ after \in Nat /\ lookupOn \in BOOLEAN
    BY SoundFacts DEF Sound, Memory
  <2>2. PICK m \in Nat : /\ Min({after + limit, Len(records)}) = after + m /\ after + m <= Len(records)
                         /\ m <= limit /\ (m = limit \/ after + m = Len(records))
    <3>1. PICK r \in Nat : r = Len(records)
      BY <2>1
    <3>2. after \in 0..r /\ limit \in 1..r
      BY <3>1
    <3>3. PICK m \in Nat : Min({after + limit, r}) = after + m /\ after + m <= r /\ m <= limit
                           /\ (m = limit \/ after + m = r)
      BY <3>2, PageEnd
    <3> QED  BY <3>1, <3>3, Zenon
  <2>3. PICK log : log = LogPage(after, m)
    OBVIOUS
  <2>4. ASSUME NEW page, page = ScanEntries(after, limit)
        PROVE  page.outcome = "unmounted" \/ (page.outcome = "found" /\ page.list = log)
    <3>1. PICK r : r = BySeqRange(after + 1, after + limit)
      OBVIOUS
    <3>2. r.outcome = "unmounted" \/ (r.outcome = "found" /\ PageOf(r.list, after, m))
      <4>1. CASE lookupOn
        BY <2>2, <3>1, <4>1, LookupPage
      <4>2. CASE ~lookupOn
        BY <2>2, <3>1, <4>2, ScanPage
      <4> QED  BY <2>1, <4>1, <4>2
    <3>3. CASE r.outcome = "unmounted"
      BY <2>4, <3>1, <3>3 DEF ScanEntries
    <3>4. CASE r.outcome = "found" /\ PageOf(r.list, after, m)
      <4>1. ~\E k \in DOMAIN r.list : r.list[k].seq # after + k
        BY <3>4 DEF PageOf
      <4>2. page = Entries(r.list)
        BY <2>4, <3>1, <3>4, <4>1 DEF ScanEntries
      <4> QED  BY <2>3, <3>4, <4>2, PageEntries
    <3> QED  BY <3>2, <3>3, <3>4
  <2>5. ASSUME NEW page, page = ScanSource(after, limit)
        PROVE  page.outcome = "unmounted" \/ (page.outcome = "found" /\ page.list = log)
    <3>1. PICK scan : scan = Scan
      OBVIOUS
    <3>2. CASE scan.outcome = "unmounted"
      BY <2>5, <3>1, <3>2 DEF ScanSource
    <3>3. CASE /\ scan = [outcome |-> "found", list |-> [i \in 1..Len(records) |-> RowToRecord(i)]]
               /\ \A i \in 1..Len(records) : RowToRecord(i).seq = i /\ RowToRecord(i).id = records[i].id
      <4>1. PICK list : list = scan.list
        OBVIOUS
      <4>2. /\ DOMAIN list = 1..Len(records) /\ list = [i \in 1..Len(records) |-> list[i]]
            /\ \A i \in 1..Len(records) : list[i].seq = i /\ list[i].id = records[i].id
            /\ scan.outcome = "found"
        BY <3>3, <4>1
      <4>3. ~\E k \in DOMAIN list : list[k].seq # k
        BY <4>2
      <4>4. page = Entries(SubSeq(list, after + 1, Min({after + limit, Len(list)})))
        BY <2>5, <3>1, <4>1, <4>2, <4>3 DEF ScanSource
      <4>5. Len(list) = Len(records)
        BY <2>1, <4>2
      <4>6. page = Entries(SubSeq(list, after + 1, after + m))
        BY <2>2, <4>4, <4>5
      <4>7. PICK part : part = SubSeq(list, after + 1, after + m)
        OBVIOUS
      <4>8. part = [k \in 1..m |-> list[after + k]]
        BY <2>1, <2>2, <4>7
      <4>9. \A k \in 1..m : after + k \in 1..Len(records)
        BY <2>1, <2>2
      <4>10. PageOf(part, after, m)
        BY <4>2, <4>8, <4>9 DEF PageOf
      <4>11. Entries(part).outcome = "found" /\ Entries(part).list = log
        BY <2>3, <4>10, PageEntries, Zenon
      <4> QED  BY <4>6, <4>7, <4>11, Zenon
    <3> QED  BY <3>1, <3>2, <3>3, ScanListed
  <2>6. Min({after + limit, Len(records)}) - after = m
    BY <2>1, <2>2
  <2>7. log = [k \in 1..(Min({after + limit, Len(records)}) - after) |->
                  [seq |-> after + k, value |-> records[after + k].id]]
    BY <2>3, <2>6 DEF LogPage
  <2> QED  BY <2>4, <2>5, <2>7
<1> QED  BY <1>1, SoundInvariant, MountsInvariant, LaidInvariant, LookedInvariant, PTL
=============================================================================
