----------------------- MODULE CheckpointRunnerProofs -----------------------
(***************************************************************************)
(* Proofs about CheckpointRunner, for any number of runners, entries,      *)
(* witnesses and keys, any cadence, scan limit and bounds.                 *)
(***************************************************************************)
EXTENDS CheckpointRunner, SequenceTheorems, TLAPS

-----------------------------------------------------------------------------
(***************************************************************************)
(* Facts about the operators.                                              *)
(***************************************************************************)

\* scan_entries returns the entries right after after_seq, and none exactly
\* when there is nothing after it.
LEMMA ScanFacts ==
    ASSUME entries \in Seq(Entry), NEW n \in Nat, n <= Len(entries),
           NEW limit \in Nat \ {0}
    PROVE  /\ ScanEntries(n, limit) \in Seq(Entry)
           /\ n + Len(ScanEntries(n, limit)) <= Len(entries)
           /\ \A i \in 1..Len(ScanEntries(n, limit)) :
                 ScanEntries(n, limit)[i] = entries[n + i]
           /\ ScanEntries(n, limit) # <<>> => Len(ScanEntries(n, limit)) > 0
<1> DEFINE last == Least(n + limit, Len(entries))
<1>1. last \in Nat /\ n <= last /\ last <= Len(entries)
  BY LenProperties DEF Least
<1>2. \A i \in (n + 1)..last : entries[i] \in Entry
  BY <1>1
<1>3. /\ SubSeq(entries, n + 1, last) \in Seq(Entry)
      /\ Len(SubSeq(entries, n + 1, last)) =
           IF n + 1 <= last THEN last - (n + 1) + 1 ELSE 0
      /\ \A i \in 1..(last - (n + 1) + 1) :
            SubSeq(entries, n + 1, last)[i] = entries[n + 1 + i - 1]
  <2> HIDE DEF last
  <2> QED  BY <1>1, <1>2, SubSeqProperties
<1> QED  BY <1>1, <1>3, EmptySeq DEF ScanEntries

\* scan_entries returns entries for any cursor.
LEMMA ScanType ==
    ASSUME entries \in Seq(Entry), NEW n \in Nat, NEW limit \in Nat \ {0}
    PROVE  ScanEntries(n, limit) \in Seq(Entry)
<1> DEFINE last == Least(n + limit, Len(entries))
<1>1. last \in Nat /\ last <= Len(entries)
  BY LenProperties DEF Least
<1>2. \A i \in (n + 1)..last : entries[i] \in Entry
  BY <1>1
<1>3. SubSeq(entries, n + 1, last) \in Seq(Entry)
  <2> HIDE DEF last
  <2> QED  BY <1>1, <1>2, SubSeqProperties
<1> QED  BY <1>3 DEF ScanEntries

\* The index after a batch: the old leaves, then the batch's values.
LEMMA IndexedFacts ==
    ASSUME NEW s, IsCllState(s), NEW batch \in Seq(Entry)
    PROVE  /\ IndexedNodes(s, batch) \in Seq(Value)
           /\ Len(IndexedNodes(s, batch)) = Len(s.nodes) + Len(batch)
           /\ \A i \in 1..Len(s.nodes) : IndexedNodes(s, batch)[i] = s.nodes[i]
           /\ \A i \in (Len(s.nodes) + 1)..(Len(s.nodes) + Len(batch)) :
                 IndexedNodes(s, batch)[i] = batch[i - Len(s.nodes)].value
<1> DEFINE n == Len(s.nodes) + Len(batch)
<1>1. s.nodes \in Seq(Value) /\ n \in Nat /\ Len(s.nodes) \in Nat /\ Len(batch) \in Nat
  BY LenProperties DEF IsCllState
<1>2. IndexedNodes(s, batch) \in [1..n -> Value]
  <2>1. \A i \in 1..Len(s.nodes) : s.nodes[i] \in Value
    BY <1>1
  <2>2. \A i \in 1..Len(batch) : batch[i] \in Entry
    BY ElementOfSeq
  <2>3. \A i \in 1..n : ~(i <= Len(s.nodes)) => i - Len(s.nodes) \in 1..Len(batch)
    BY <1>1
  <2>4. \A i \in 1..Len(batch) : batch[i].value \in Value
    BY <2>2 DEF Entry
  <2> QED  BY <1>1, <2>1, <2>3, <2>4 DEF IndexedNodes
<1>3. IndexedNodes(s, batch) \in Seq(Value) /\ Len(IndexedNodes(s, batch)) = n
  <2> HIDE DEF n
  <2>1. IndexedNodes(s, batch) \in Seq(Value)
    BY <1>1, <1>2, SeqDef
  <2> QED  BY <1>1, <1>2, <2>1, LenProperties
<1> QED  BY <1>1, <1>3 DEF IndexedNodes

\* The absent checkpoint is one of Checkpoint.
LEMMA NoCheckpointType == NoCheckpoint \in Checkpoint
  BY DEF NoCheckpoint, Checkpoint

\* The state a store starts with is a CLL state.
LEMMA EmptyStateType == IsCllState(EmptyState)
<1>1. IsRowMap(NoRows)
  BY DEF IsRowMap, NoRows
<1> QED  BY <1>1, NoCheckpointType DEF EmptyState, IsCllState

\* What _advance builds is a state again.
LEMMA AdvancedType ==
    ASSUME NEW r \in Runner, NEW s, IsCllState(s), NEW batch \in Seq(Entry),
           NEW time \in Nat
    PROVE  IsCllState(Advanced(r, s, batch, time))
<1> DEFINE cp == NewCheckpoint(r, s, batch, time)
<1>1. /\ s.nodes \in Seq(Value) /\ s.checkpoint \in Checkpoint
      /\ s.first_pending_at \in Nat \cup {None} /\ IsRowMap(s.witnesses)
  BY DEF IsCllState
<1>2. FirstPending(s, batch) \in Nat \cup {None}
  <2>1. batch # <<>> => batch[1] \in Entry
    BY EmptySeq
  <2> QED  BY <1>1, <2>1 DEF FirstPending, Entry
<1>3. cp \in Checkpoint
  BY <1>1, IndexedFacts, RunnerAssumption DEF NewCheckpoint, Checkpoint
<1>4. IsRowMap(QueueRows(r, s, cp, time))
  <2> HIDE DEF cp
  <2>0. cp.size \in Nat
    BY <1>3 DEF Checkpoint
  <2> DEFINE new == {<<w, cp.size>> : w \in WitnessIds[r]}
             f == QueueRows(r, s, cp, time)
             row == [checkpoint |-> cp, attempts |-> 0, next_attempt_at |-> time,
                     receipt |-> FALSE, permanent |-> FALSE]
  <2>1. row \in WitnessState
    BY <1>3 DEF WitnessState
  <2>2. new \subseteq WitnessKey
    BY <2>0, RunnerAssumption DEF WitnessKey
  <2>3. f = [k \in DOMAIN s.witnesses \cup new |->
               IF k \in DOMAIN s.witnesses THEN s.witnesses[k] ELSE row]
    BY DEF QueueRows
  <2>4. \A k \in DOMAIN s.witnesses : s.witnesses[k] \in WitnessState
    BY <1>1 DEF IsRowMap
  <2>5. DOMAIN s.witnesses \subseteq WitnessKey
    BY <1>1 DEF IsRowMap
  <2> HIDE DEF f, new, row
  <2>6. DOMAIN f = DOMAIN s.witnesses \cup new
    BY <2>3
  <2>7. \A k \in DOMAIN f : f[k] \in WitnessState
    BY <2>1, <2>3, <2>4, <2>6
  <2>8. f \in [DOMAIN f -> WitnessState]
    BY <2>3, <2>6, <2>7
  <2>9. IsRowMap(f)
    BY <2>2, <2>5, <2>6, <2>8 DEF IsRowMap
  <2> QED  BY <2>9 DEF f
<1> QED  BY <1>1, <1>2, <1>3, <1>4, IndexedFacts DEF Advanced, IsCllState

\* What apply_cll returns is a state with next's index and checkpoint.
LEMMA ApplyFacts ==
    ASSUME NEW c, NEW n, IsCllState(c), IsCllState(n)
    PROVE  /\ IsCllState(ApplyCll(c, n))
           /\ ApplyCll(c, n).nodes = n.nodes
           /\ ApplyCll(c, n).first_pending_at = n.first_pending_at
           /\ ApplyCll(c, n).checkpoint = n.checkpoint
           /\ ApplyCll(c, n).witnesses = MergeWitnesses(c, n)
<1>1. IsRowMap(MergeWitnesses(c, n))
  <2>1. IsRowMap(c.witnesses) /\ IsRowMap(n.witnesses)
    BY DEF IsCllState
  <2> QED  BY <2>1 DEF IsRowMap, MergeWitnesses
<1> QED  BY <1>1 DEF ApplyCll, IsCllState

-----------------------------------------------------------------------------
(***************************************************************************)
(* Type correctness.                                                       *)
(***************************************************************************)
Places == {"wait", "woken", "load", "scan", "commit", "failed"}

LocalType ==
    /\ pc \in [Runner -> Places]
    /\ DOMAIN view = Runner /\ DOMAIN next = Runner
    /\ \A r \in Runner : IsCllState(view[r]) /\ IsCllState(next[r])

\* Ending a pass keeps the runners' local state well typed.
LEMMA EndPassType ==
    ASSUME LocalType, NEW r \in Runner, NEW where \in Places, EndPass(r, where)
    PROVE  LocalType'
  BY EmptyStateType DEF EndPass, LocalType

\* An append leaves a log of entries and does not touch the CLL state.
LEMMA AppendType ==
    ASSUME TypeOK, AppendStep
    PROVE  entries' \in Seq(Entry) /\ cll' = cll
<1>1. PICK v \in Value, t \in 0..(MaxTime - CadenceAge) : AppendEntry(v, t)
  BY DEF AppendStep
<1>2. [value |-> v, appended_at |-> t] \in Entry
  BY ClockAssumption, RunnerAssumption DEF Entry
<1> QED  BY <1>1, <1>2 DEF AppendEntry, TypeOK

\* Every step keeps TypeOK.
LEMMA TypeStep == TypeOK /\ [Next]_vars => TypeOK'
<1> SUFFICES ASSUME TypeOK, [Next]_vars PROVE TypeOK'
  OBVIOUS
<1> USE ClockAssumption, RunnerAssumption
<1>a. LocalType
  BY DEF TypeOK, LocalType, Places
<1>1. CASE AppendStep
  BY <1>1, AppendType DEF AppendStep, TypeOK, runnerVars
<1>2. CASE Tick
  BY <1>2 DEF Tick, ClockTicks, TypeOK, runnerVars, storeVars
<1>3. ASSUME NEW r \in Runner, Notify(r) PROVE TypeOK'
  BY <1>3 DEF Notify, TypeOK
<1>4. ASSUME NEW r \in Runner, Woken(r) \/ Poll(r) PROVE TypeOK'
  BY <1>4 DEF Woken, Poll, TypeOK
<1>5. ASSUME NEW r \in Runner, Begin(r) PROVE TypeOK'
  BY <1>5 DEF Begin, TypeOK
<1>6. ASSUME NEW r \in Runner, Load(r) PROVE TypeOK'
  <2>1. LocalType'
    <3>1. CASE VerifyCheckpoint(r, cll)
      BY <1>6, <1>a, <3>1 DEF Load, TypeOK, LocalType, Places
    <3>2. CASE ~VerifyCheckpoint(r, cll)
      BY <1>6, <1>a, <3>2, EndPassType DEF Load, Places
    <3> QED  BY <3>1, <3>2
  <2> QED  BY <1>6, <2>1 DEF Load, TypeOK, LocalType, Places
<1>7. ASSUME NEW r \in Runner, Scan(r) PROVE TypeOK'
  <2> DEFINE batch == ScanEntries(Len(view[r].nodes), ScanLimit)
  <2>1. batch \in Seq(Entry)
    <3>1. Len(view[r].nodes) \in Nat
      BY <1>a, LenProperties DEF LocalType, IsCllState
    <3> QED  BY <3>1, ScanType DEF TypeOK
  <2>2. IsCllState(Advanced(r, view[r], batch, now[r]))
    <3>1. now[r] \in Nat /\ IsCllState(view[r])
      BY <1>a DEF TypeOK, LocalType
    <3> HIDE DEF batch
    <3> QED  BY <2>1, <3>1, AdvancedType
  <2>3. \/ EndPass(r, "wait")
        \/ /\ next' = [next EXCEPT ![r] = Advanced(r, view[r], batch, now[r])]
           /\ pc' = [pc EXCEPT ![r] = "commit"]
           /\ view' = view
    BY <1>7 DEF Scan
  <2>4. LocalType'
    <3> HIDE DEF batch
    <3> QED  BY <1>a, <2>2, <2>3, EndPassType DEF LocalType, Places
  <2> QED  BY <1>7, <2>4 DEF Scan, TypeOK, LocalType, Places
<1>8. ASSUME NEW r \in Runner, CommitOk(r) PROVE TypeOK'
  <2>1. IsCllState(cll') /\ chain' \in Seq(Checkpoint)
    <3>1. next[r].checkpoint \in Checkpoint
      BY <1>a DEF LocalType, IsCllState
    <3> QED  BY <1>8, <1>a, <3>1, ApplyFacts DEF CommitOk, LocalType, TypeOK
  <2>2. LocalType'
    <3>1. CASE r \in Once
      BY <1>8, <1>a, <3>1, EndPassType DEF CommitOk, Places
    <3>2. CASE r \notin Once
      BY <1>8, <1>a, <3>2, EmptyStateType DEF CommitOk, LocalType, Places
    <3> QED  BY <3>1, <3>2
  <2>3. reloaded' \in [Runner -> BOOLEAN]
    BY <1>8 DEF CommitOk, TypeOK
  <2>4. UNCHANGED <<entries, clock, now, wake, crashes>>
    BY <1>8 DEF CommitOk
  <2> QED  BY <2>1, <2>2, <2>3, <2>4 DEF TypeOK, LocalType, Places
<1>9. ASSUME NEW r \in Runner, CommitFails(r) PROVE TypeOK'
  <2>1. LocalType' /\ reloaded' \in [Runner -> BOOLEAN]
    BY <1>9, <1>a, EndPassType DEF CommitFails, TypeOK, Places
  <2> QED  BY <1>9, <2>1 DEF CommitFails, TypeOK, LocalType, Places
<1>10. ASSUME NEW r \in Runner, Crash(r) PROVE TypeOK'
  <2>1. LocalType'
    BY <1>10, <1>a, EndPassType DEF Crash, Places
  <2>2. now' \in [Runner -> 0..MaxTime] /\ crashes' \in 0..MaxCrashes
    BY <1>10 DEF Crash, TypeOK
  <2>3. reloaded' \in [Runner -> BOOLEAN] /\ wake' \in [Runner -> BOOLEAN]
    BY <1>10 DEF Crash, TypeOK
  <2>4. UNCHANGED <<entries, cll, clock, chain>>
    BY <1>10 DEF Crash
  <2> QED  BY <2>1, <2>2, <2>3, <2>4 DEF TypeOK, LocalType, Places
<1>11. CASE UNCHANGED vars
  BY <1>11 DEF vars, runnerVars, TypeOK
<1> QED
  BY <1>1, <1>2, <1>3, <1>4, <1>5, <1>6, <1>7, <1>8, <1>9, <1>10, <1>11
  DEF Next, RunnerStep

\* Every initial state is well typed.
LEMMA TypeStart == Init => TypeOK
<1> SUFFICES ASSUME Init PROVE TypeOK
  OBVIOUS
<1> USE ClockAssumption, RunnerAssumption, EmptyStateType
<1>1. entries \in Seq(Entry) /\ chain \in Seq(Checkpoint)
  BY EmptySeq DEF Init, StoreInit
<1> QED  BY <1>1 DEF Init, StoreInit, ClockInit, TypeOK

\* Every reachable state is well typed (TypeOK of CheckpointRunner): what a
\* pass builds from stored entries and commits is again a state that
\* validate_state's structural rules admit.
THEOREM TypeCorrect == Spec => []TypeOK
  BY TypeStart, TypeStep, PTL DEF Spec

-----------------------------------------------------------------------------
(***************************************************************************)
(* The inductive invariant.  The stored state is sound, and so is every    *)
(* state a runner has in hand: what it loaded is a prefix of what is       *)
(* stored, and what it is about to commit extends what it loaded, by one   *)
(* linked checkpoint at most.  Compare-and-set then turns "extends what I  *)
(* loaded" into "extends what is stored".  The predicates take the log and *)
(* the chain as parameters so that the lemmas can speak of two of them.    *)
(***************************************************************************)
SoundOver(s, log) ==
    /\ Len(s.nodes) <= Len(log)
    /\ \A i \in 1..Len(s.nodes) : s.nodes[i] = log[i].value
    /\ s.checkpoint.size <= Len(s.nodes)
    /\ s.first_pending_at =
          IF Len(s.nodes) = s.checkpoint.size THEN None
          ELSE log[s.checkpoint.size + 1].appended_at
    /\ Len(s.nodes) - s.checkpoint.size < CadenceEntries

\* cp is a checkpoint that may follow prev on this log.
Follows(cp, prev, log) ==
    /\ cp.size > prev.size
    /\ cp.prev_size = prev.size
    /\ cp.prev_root = prev.root
    /\ Len(cp.root) = cp.size
    /\ cp.size <= Len(log)
    /\ \A j \in 1..Len(cp.root) : cp.root[j] = log[j].value

ChainOver(c, log) ==
    \A i \in 1..Len(c) :
        Follows(c[i], IF i = 1 THEN NoCheckpoint ELSE c[i - 1], log)

\* n is what one _advance may commit on top of s.
Advances(s, n, log) ==
    /\ Prefix(s.nodes, n.nodes)
    /\ n.checkpoint = s.checkpoint \/ Follows(n.checkpoint, s.checkpoint, log)

StoreSound ==
    /\ SoundOver(cll, entries)
    /\ cll.checkpoint = LastOf(chain)
    /\ ChainOver(chain, entries)

\* What runner r has in hand, between its load and its commit.
HandSound(r) ==
    /\ pc[r] \in {"scan", "commit"} =>
          SoundOver(view[r], entries) /\ Prefix(view[r].nodes, cll.nodes)
    /\ pc[r] = "commit" =>
          SoundOver(next[r], entries) /\ Advances(view[r], next[r], entries)

Inductive == StoreSound /\ \A r \in Runner : HandSound(r)

\* A prefix of a prefix is a prefix.
LEMMA PrefixTransitive ==
    ASSUME NEW S, NEW a \in Seq(S), NEW b \in Seq(S), NEW c \in Seq(S),
           Prefix(a, b), Prefix(b, c)
    PROVE  Prefix(a, c)
  BY LenProperties DEF Prefix

\* Appending to the log disturbs nothing that was said of its beginning.
LEMMA SoundStable ==
    ASSUME NEW s, IsCllState(s), NEW e \in Seq(Entry), NEW f \in Seq(Entry),
           Prefix(e, f), SoundOver(s, e)
    PROVE  SoundOver(s, f)
<1>1. /\ s.nodes \in Seq(Value) /\ Len(s.nodes) \in Nat /\ s.checkpoint.size \in Nat
      /\ Len(e) \in Nat /\ Len(f) \in Nat
  BY LenProperties DEF IsCllState, Checkpoint
<1>2. \A i \in 1..Len(s.nodes) : e[i] = f[i]
  BY <1>1 DEF SoundOver, Prefix
<1>3. Len(s.nodes) # s.checkpoint.size => s.checkpoint.size + 1 \in 1..Len(s.nodes)
  BY <1>1 DEF SoundOver
<1>4. Len(s.nodes) <= Len(f)
  BY <1>1 DEF SoundOver, Prefix
<1>5. \A i \in 1..Len(s.nodes) : s.nodes[i] = f[i].value
  BY <1>2 DEF SoundOver
<1>6. Len(s.nodes) # s.checkpoint.size =>
        e[s.checkpoint.size + 1] = f[s.checkpoint.size + 1]
  BY <1>2, <1>3
<1> QED  BY <1>4, <1>5, <1>6 DEF SoundOver

\* A checkpoint that may follow another still may on a longer log.
LEMMA FollowsStable ==
    ASSUME NEW cp \in Checkpoint, NEW prev \in Checkpoint,
           NEW e \in Seq(Entry), NEW f \in Seq(Entry),
           Prefix(e, f), Follows(cp, prev, e)
    PROVE  Follows(cp, prev, f)
<1>1. /\ cp.size \in Nat /\ cp.root \in Seq(Value) /\ Len(cp.root) \in Nat
      /\ Len(e) \in Nat /\ Len(f) \in Nat
  BY LenProperties DEF Checkpoint
<1>2. cp.size <= Len(f)
  BY <1>1 DEF Follows, Prefix
<1>3. \A j \in 1..Len(cp.root) : j \in 1..Len(e)
  BY <1>1 DEF Follows
<1>4. \A j \in 1..Len(cp.root) : cp.root[j] = f[j].value
  BY <1>3 DEF Follows, Prefix
<1> QED  BY <1>2, <1>4 DEF Follows

\* A sound chain is sound over a longer log.
LEMMA ChainStable ==
    ASSUME NEW c \in Seq(Checkpoint), NEW e \in Seq(Entry), NEW f \in Seq(Entry),
           Prefix(e, f), ChainOver(c, e)
    PROVE  ChainOver(c, f)
<1> SUFFICES ASSUME NEW i \in 1..Len(c)
             PROVE  Follows(c[i], IF i = 1 THEN NoCheckpoint ELSE c[i - 1], f)
  BY DEF ChainOver
<1>1. c[i] \in Checkpoint /\ (IF i = 1 THEN NoCheckpoint ELSE c[i - 1]) \in Checkpoint
  BY NoCheckpointType, LenProperties
<1> QED  BY <1>1, FollowsStable DEF ChainOver

\* Adding a checkpoint that follows the last one keeps the chain sound.
LEMMA ChainGrows ==
    ASSUME NEW c \in Seq(Checkpoint), NEW cp \in Checkpoint, NEW log \in Seq(Entry),
           ChainOver(c, log), Follows(cp, LastOf(c), log)
    PROVE  ChainOver(Append(c, cp), log) /\ LastOf(Append(c, cp)) = cp
<1> DEFINE d == Append(c, cp)
<1>1. /\ Len(c) \in Nat /\ Len(d) = Len(c) + 1 /\ d[Len(c) + 1] = cp
      /\ \A i \in 1..Len(c) : d[i] = c[i]
  BY LenProperties
<1>2. d # <<>> /\ d \in Seq(Checkpoint)
  BY <1>1
<1>3. LastOf(c) = IF Len(c) + 1 = 1 THEN NoCheckpoint ELSE c[Len(c)]
  BY EmptySeq, <1>1 DEF LastOf
<1> HIDE DEF d
<1>4. ChainOver(d, log)
  <2> SUFFICES ASSUME NEW i \in 1..Len(d)
               PROVE  Follows(d[i], IF i = 1 THEN NoCheckpoint ELSE d[i - 1], log)
    BY DEF ChainOver
  <2>1. CASE i = Len(c) + 1
    BY <1>1, <1>3, <2>1
  <2>2. CASE i \in 1..Len(c)
    BY <1>1, <2>2 DEF ChainOver
  <2> QED  BY <1>1, <2>1, <2>2
<1>5. LastOf(d) = cp
  BY <1>1, <1>2 DEF LastOf
<1> QED  BY <1>4, <1>5 DEF d

\* What _advance builds from a sound state is sound, and extends that state
\* by one linked checkpoint at most.
LEMMA AdvancedSound ==
    ASSUME entries \in Seq(Entry), NEW s, IsCllState(s), SoundOver(s, entries),
           NEW r \in Runner, NEW time \in Nat
    PROVE  LET n == Advanced(r, s, ScanEntries(Len(s.nodes), ScanLimit), time)
           IN  SoundOver(n, entries) /\ Advances(s, n, entries)
<1> DEFINE batch == ScanEntries(Len(s.nodes), ScanLimit)
           n == Advanced(r, s, batch, time)
           nodes == IndexedNodes(s, batch)
           total == Len(s.nodes) + Len(batch)
<1>0. \A i \in 1..Len(entries) : entries[i].appended_at \in Nat
  <2>1. \A i \in 1..Len(entries) : entries[i] \in Entry
    BY ElementOfSeq
  <2> QED  BY <2>1 DEF Entry
<1>1. /\ s.nodes \in Seq(Value) /\ Len(s.nodes) \in Nat
      /\ s.checkpoint \in Checkpoint /\ s.checkpoint.size \in Nat
      /\ s.checkpoint.size <= Len(s.nodes) /\ Len(s.nodes) <= Len(entries)
      /\ Len(entries) \in Nat
  BY LenProperties DEF IsCllState, Checkpoint, SoundOver
<1>2. /\ batch \in Seq(Entry) /\ Len(batch) \in Nat
      /\ total <= Len(entries)
      /\ \A i \in 1..Len(batch) : batch[i] = entries[Len(s.nodes) + i]
  BY <1>1, ScanFacts, RunnerAssumption, LenProperties
<1>3. /\ nodes \in Seq(Value) /\ Len(nodes) = total
      /\ \A i \in 1..Len(s.nodes) : nodes[i] = s.nodes[i]
      /\ \A i \in (Len(s.nodes) + 1)..total : nodes[i] = batch[i - Len(s.nodes)].value
  <2> HIDE DEF batch
  <2> QED  BY <1>2, IndexedFacts
<1> HIDE DEF batch, nodes
<1>4. \A i \in 1..total : nodes[i] = entries[i].value
  <2> SUFFICES ASSUME NEW i \in 1..total PROVE nodes[i] = entries[i].value
    OBVIOUS
  <2>1. CASE i <= Len(s.nodes)
    BY <1>1, <1>3, <2>1 DEF SoundOver
  <2>2. CASE i > Len(s.nodes)
    <3>1. i - Len(s.nodes) \in 1..Len(batch) /\ Len(s.nodes) + (i - Len(s.nodes)) = i
      BY <1>1, <1>2, <2>2
    <3>2. batch[i - Len(s.nodes)] = entries[i]
      BY <1>2, <3>1
    <3> QED  BY <1>1, <1>3, <2>2, <3>2
  <2> QED  BY <1>1, <2>1, <2>2
<1>5. Prefix(s.nodes, nodes)
  BY <1>1, <1>2, <1>3 DEF Prefix
\* The oldest entry without a checkpoint is already known, or it is the
\* first of the batch, or there is none.
<1>6. FirstPending(s, batch) =
        IF total = s.checkpoint.size THEN None
        ELSE entries[s.checkpoint.size + 1].appended_at
  <2>1. CASE Len(s.nodes) = s.checkpoint.size /\ batch = <<>>
    BY <1>1, <1>2, <2>1, EmptySeq DEF FirstPending, SoundOver
  <2>2. CASE Len(s.nodes) = s.checkpoint.size /\ batch # <<>>
    <3>1. Len(batch) > 0 /\ batch[1] = entries[Len(s.nodes) + 1]
      BY <1>2, <2>2, EmptySeq
    <3> QED  BY <1>1, <1>2, <2>2, <3>1 DEF FirstPending, SoundOver
  <2>3. CASE Len(s.nodes) # s.checkpoint.size
    <3>1. s.checkpoint.size + 1 \in 1..Len(entries)
      BY <1>1, <2>3
    <3>2. entries[s.checkpoint.size + 1].appended_at \in Nat
      BY <1>0, <3>1
    <3>3. total # s.checkpoint.size
      BY <1>1, <1>2, <2>3
    <3>4. s.first_pending_at = entries[s.checkpoint.size + 1].appended_at
      BY <2>3 DEF SoundOver
    <3>5. s.first_pending_at # None
      BY <3>2, <3>4, EngineAssumption
    <3> QED  BY <3>3, <3>4, <3>5 DEF FirstPending
  <2> QED  BY <2>1, <2>2, <2>3
<1>7. CASE Due(s, batch, time)
  <2> DEFINE cp == NewCheckpoint(r, s, batch, time)
  <2>1. /\ cp.size = total /\ cp.root = nodes
        /\ cp.prev_size = s.checkpoint.size /\ cp.prev_root = s.checkpoint.root
    BY DEF NewCheckpoint, nodes
  <2>2. total > s.checkpoint.size
    BY <1>1, <1>2, <1>7 DEF Due
  <2>3. /\ n.nodes = nodes /\ n.checkpoint = cp /\ n.first_pending_at = None
    BY <1>7 DEF Advanced, nodes
  <2> HIDE DEF cp, n
  <2>4. Follows(cp, s.checkpoint, entries)
    BY <1>2, <1>3, <1>4, <2>1, <2>2 DEF Follows
  <2>5. SoundOver(n, entries)
    BY <1>1, <1>2, <1>3, <1>4, <2>1, <2>3, RunnerAssumption DEF SoundOver
  <2>6. Advances(s, n, entries)
    BY <1>5, <2>3, <2>4 DEF Advances
  <2> QED  BY <2>5, <2>6 DEF n, batch
<1>8. CASE ~Due(s, batch, time)
  <2>1. /\ n.nodes = nodes /\ n.checkpoint = s.checkpoint
        /\ n.first_pending_at = FirstPending(s, batch)
    BY <1>8 DEF Advanced, nodes
  \* Nothing pending, or fewer entries than the cadence.
  <2>2. total - s.checkpoint.size < CadenceEntries
    <3>1. CASE total = s.checkpoint.size
      BY <1>1, <3>1, RunnerAssumption
    <3>2. CASE total # s.checkpoint.size
      <4>1. total > s.checkpoint.size
        BY <1>1, <1>2, <3>2
      <4>2. s.checkpoint.size + 1 \in 1..Len(entries)
        BY <1>1, <1>2, <4>1
      <4>3. entries[s.checkpoint.size + 1].appended_at \in Nat
        BY <1>0, <4>2
      <4>4. FirstPending(s, batch) # None
        BY <1>6, <3>2, <4>3, EngineAssumption
      <4>5. ~(total - s.checkpoint.size >= CadenceEntries)
        BY <1>8, <4>1, <4>4, <1>1, <1>2 DEF Due
      <4> QED
        BY <1>1, <1>2, <4>5, RunnerAssumption
    <3> QED  BY <3>1, <3>2
  <2> HIDE DEF n
  <2>a. total \in Nat /\ s.checkpoint.size <= total
    BY <1>1, <1>2
  <2>b. /\ Len(n.nodes) = total /\ n.checkpoint.size = s.checkpoint.size
        /\ \A i \in 1..Len(n.nodes) : n.nodes[i] = entries[i].value
    BY <1>3, <1>4, <2>1
  <2>c. n.first_pending_at = IF Len(n.nodes) = n.checkpoint.size THEN None
                             ELSE entries[n.checkpoint.size + 1].appended_at
    BY <1>6, <2>1, <2>b
  <2> HIDE DEF total
  <2>3. SoundOver(n, entries)
    BY <1>2, <2>a, <2>b, <2>c, <2>2 DEF SoundOver
  <2>4. Advances(s, n, entries)
    BY <1>5, <2>1 DEF Advances
  <2> QED  BY <2>3, <2>4 DEF n, batch
<1> QED  BY <1>7, <1>8

-----------------------------------------------------------------------------
(***************************************************************************)
(* Every step keeps the inductive invariant.                               *)
(***************************************************************************)

\* A step of one runner that leaves the store alone.
LEMMA LocalStep ==
    ASSUME Inductive, NEW r \in Runner, UNCHANGED <<entries, cll, chain>>,
           \A q \in Runner \ {r} : /\ pc'[q] = pc[q]
                                   /\ view'[q] = view[q]
                                   /\ next'[q] = next[q],
           HandSound(r)'
    PROVE  Inductive'
<1>1. StoreSound'
  BY DEF Inductive, StoreSound
<1>2. ASSUME NEW q \in Runner \ {r} PROVE HandSound(q)'
  BY DEF Inductive, HandSound
<1> QED  BY <1>1, <1>2 DEF Inductive

\* A pass that ends without a commit keeps the invariant.
LEMMA EndPassStep ==
    ASSUME TypeOK, Inductive, NEW r \in Runner,
           NEW where \in {"wait", "woken", "load", "failed"},
           EndPass(r, where), UNCHANGED <<entries, cll, chain>>
    PROVE  Inductive'
<1>1. \A q \in Runner \ {r} : /\ pc'[q] = pc[q]
                               /\ view'[q] = view[q]
                               /\ next'[q] = next[q]
  BY DEF EndPass, TypeOK
<1>2. pc'[r] \notin {"scan", "commit"}
  BY DEF EndPass, TypeOK
<1>3. HandSound(r)'
  BY <1>2 DEF HandSound
<1> QED  BY <1>1, <1>3, LocalStep

\* Engine.append extends the log or leaves it alone.
LEMMA AppendExtends ==
    ASSUME TypeOK, AppendStep
    PROVE  Prefix(entries, entries')
<1>1. entries \in Seq(Entry)
  BY DEF TypeOK
<1>2. PICK v \in Value, t \in 0..(MaxTime - CadenceAge) : AppendEntry(v, t)
  BY DEF AppendStep
<1>3. CASE entries' = entries
  BY <1>1, <1>3, LenProperties DEF Prefix
<1>4. CASE entries' = Append(entries, [value |-> v, appended_at |-> t])
  <2>1. [value |-> v, appended_at |-> t] \in Entry
    BY ClockAssumption, RunnerAssumption DEF Entry
  <2> QED  BY <1>1, <1>4, <2>1, AppendProperties, LenProperties DEF Prefix
<1> QED  BY <1>2, <1>3, <1>4 DEF AppendEntry

\* The host's append keeps the invariant.
LEMMA AppendInductive ==
    ASSUME TypeOK, Inductive, AppendStep
    PROVE  Inductive'
<1>1. /\ entries \in Seq(Entry) /\ entries' \in Seq(Entry)
      /\ UNCHANGED <<cll, chain, pc, view, next>>
      /\ IsCllState(cll) /\ chain \in Seq(Checkpoint)
      /\ \A r \in Runner : IsCllState(view[r]) /\ IsCllState(next[r])
  BY AppendType DEF AppendStep, runnerVars, TypeOK
<1>2. Prefix(entries, entries')
  BY AppendExtends
<1>3. StoreSound'
  <2>1. SoundOver(cll, entries')
    BY <1>1, <1>2, SoundStable DEF Inductive, StoreSound
  <2>2. ChainOver(chain, entries')
    BY <1>1, <1>2, ChainStable DEF Inductive, StoreSound
  <2> QED  BY <1>1, <2>1, <2>2 DEF Inductive, StoreSound
<1>4. ASSUME NEW r \in Runner PROVE HandSound(r)'
  <2>1. SoundOver(view[r], entries) => SoundOver(view[r], entries')
    BY <1>1, <1>2, SoundStable
  <2>2. SoundOver(next[r], entries) => SoundOver(next[r], entries')
    BY <1>1, <1>2, SoundStable
  <2>3. Advances(view[r], next[r], entries) => Advances(view[r], next[r], entries')
    <3>1. view[r].checkpoint \in Checkpoint /\ next[r].checkpoint \in Checkpoint
      BY <1>1 DEF IsCllState
    <3> QED  BY <1>1, <1>2, <3>1, FollowsStable DEF Advances
  <2>4. HandSound(r)
    BY DEF Inductive
  <2> QED  BY <1>1, <2>1, <2>2, <2>3, <2>4 DEF HandSound
<1> QED  BY <1>3, <1>4 DEF Inductive

\* The compare-and-set: what the runner loaded is what is stored, so its
\* linked checkpoint continues the stored chain.
LEMMA CommitInductive ==
    ASSUME TypeOK, Inductive, NEW r \in Runner, CommitOk(r)
    PROVE  Inductive'
<1>1. /\ IsCllState(cll) /\ IsCllState(view[r]) /\ IsCllState(next[r])
      /\ entries \in Seq(Entry) /\ chain \in Seq(Checkpoint)
      /\ entries' = entries
  BY DEF TypeOK, CommitOk
<1>2. /\ cll.checkpoint = view[r].checkpoint
      /\ Prefix(cll.nodes, next[r].nodes)
  BY DEF CommitOk, RunnerCommitError, CommitCllError, Expected, Extends
<1>3. /\ cll'.nodes = next[r].nodes /\ cll'.checkpoint = next[r].checkpoint
      /\ cll'.first_pending_at = next[r].first_pending_at
  BY <1>1, ApplyFacts DEF CommitOk
<1>4. SoundOver(next[r], entries) /\ Advances(view[r], next[r], entries)
  BY DEF Inductive, HandSound, CommitOk
<1>5. SoundOver(cll', entries')
  BY <1>1, <1>3, <1>4 DEF SoundOver
<1>6. cll'.checkpoint = LastOf(chain') /\ ChainOver(chain', entries')
  <2>1. cll.checkpoint = LastOf(chain) /\ ChainOver(chain, entries)
    BY DEF Inductive, StoreSound
  <2>2. CASE next[r].checkpoint = cll.checkpoint
    BY <1>1, <1>3, <2>1, <2>2 DEF CommitOk
  <2>3. CASE next[r].checkpoint # cll.checkpoint
    <3>1. Follows(next[r].checkpoint, LastOf(chain), entries)
      BY <1>2, <1>4, <2>1, <2>3 DEF Advances
    <3>2. chain' = Append(chain, next[r].checkpoint)
      BY <2>3 DEF CommitOk
    <3>3. next[r].checkpoint \in Checkpoint
      BY <1>1 DEF IsCllState
    <3> QED  BY <1>1, <1>3, <2>1, <3>1, <3>2, <3>3, ChainGrows
  <2> QED  BY <2>2, <2>3
<1>7. Prefix(cll.nodes, cll'.nodes) /\ Prefix(next[r].nodes, cll'.nodes)
  BY <1>1, <1>2, <1>3, LenProperties DEF Prefix, IsCllState
<1>8. HandSound(r)'
  <2>1. CASE r \in Once
    <3>1. pc'[r] = "wait"
      BY <2>1 DEF CommitOk, EndPass, TypeOK
    <3> QED  BY <3>1 DEF HandSound
  <2>2. CASE r \notin Once
    <3>1. pc'[r] = "scan" /\ view'[r] = next[r]
      BY <2>2 DEF CommitOk, TypeOK
    <3> QED  BY <1>1, <1>4, <1>7, <3>1 DEF HandSound
  <2> QED  BY <2>1, <2>2
<1>9. ASSUME NEW q \in Runner \ {r} PROVE HandSound(q)'
  <2>1. pc'[q] = pc[q] /\ view'[q] = view[q] /\ next'[q] = next[q]
    BY DEF CommitOk, EndPass, TypeOK
  <2>2. Prefix(view[q].nodes, cll.nodes) => Prefix(view[q].nodes, cll'.nodes)
    <3>1. /\ view[q].nodes \in Seq(Value) /\ cll.nodes \in Seq(Value)
          /\ cll'.nodes \in Seq(Value)
      BY <1>1, <1>3 DEF TypeOK, IsCllState
    <3> QED  BY <1>7, <3>1, PrefixTransitive
  <2>3. HandSound(q)
    BY DEF Inductive
  <2> QED  BY <1>1, <2>1, <2>2, <2>3 DEF HandSound
<1> QED  BY <1>5, <1>6, <1>8, <1>9 DEF Inductive, StoreSound

\* Every step keeps the invariant.
LEMMA InductiveStep == TypeOK /\ Inductive /\ [Next]_vars => Inductive'
<1> SUFFICES ASSUME TypeOK, Inductive, [Next]_vars PROVE Inductive'
  OBVIOUS
<1>1. CASE AppendStep
  BY <1>1, AppendInductive
<1>2. CASE Tick
  BY <1>2 DEF Tick, ClockTicks, storeVars, runnerVars, Inductive, StoreSound, HandSound
<1>3. ASSUME NEW r \in Runner, Notify(r) PROVE Inductive'
  BY <1>3 DEF Notify, Inductive, StoreSound, HandSound
<1>4. ASSUME NEW r \in Runner, Woken(r) \/ Poll(r) \/ Begin(r) PROVE Inductive'
  <2>1. /\ UNCHANGED <<entries, cll, chain, view, next>>
        /\ pc' = [pc EXCEPT ![r] = "woken"] \/ pc' = [pc EXCEPT ![r] = "load"]
    BY <1>4 DEF Woken, Poll, Begin
  <2>2. pc'[r] \notin {"scan", "commit"} /\ \A q \in Runner \ {r} : pc'[q] = pc[q]
    BY <2>1 DEF TypeOK
  <2>3. HandSound(r)'
    BY <2>2 DEF HandSound
  <2> QED  BY <2>1, <2>2, <2>3, LocalStep
<1>5. ASSUME NEW r \in Runner, Load(r) PROVE Inductive'
  <2>1. CASE EndPass(r, "failed")
    BY <1>5, <2>1, EndPassStep DEF Load
  <2>2. CASE /\ pc' = [pc EXCEPT ![r] = "scan"]
             /\ view' = [view EXCEPT ![r] = cll]
             /\ UNCHANGED next
    <3>1. UNCHANGED <<entries, cll, chain>>
      BY <1>5 DEF Load
    <3>2. pc'[r] = "scan" /\ view'[r] = cll
      BY <2>2 DEF TypeOK
    <3>3. \A q \in Runner \ {r} : pc'[q] = pc[q] /\ view'[q] = view[q] /\ next'[q] = next[q]
      BY <2>2 DEF TypeOK
    <3>4. SoundOver(cll, entries) /\ Prefix(cll.nodes, cll.nodes)
      BY LenProperties DEF Inductive, StoreSound, TypeOK, IsCllState, Prefix
    <3>5. HandSound(r)'
      BY <3>1, <3>2, <3>4 DEF HandSound
    <3> QED  BY <3>1, <3>3, <3>5, LocalStep
  <2> QED  BY <1>5, <2>1, <2>2 DEF Load
<1>6. ASSUME NEW r \in Runner, Scan(r) PROVE Inductive'
  <2> DEFINE batch == ScanEntries(Len(view[r].nodes), ScanLimit)
             n == Advanced(r, view[r], batch, now[r])
  <2>1. CASE EndPass(r, "wait")
    BY <1>6, <2>1, EndPassStep DEF Scan
  <2>2. CASE /\ next' = [next EXCEPT ![r] = n]
             /\ pc' = [pc EXCEPT ![r] = "commit"]
             /\ UNCHANGED view
    <3>1. UNCHANGED <<entries, cll, chain>> /\ pc[r] = "scan"
      BY <1>6 DEF Scan
    <3>2. SoundOver(view[r], entries) /\ Prefix(view[r].nodes, cll.nodes)
      BY <3>1 DEF Inductive, HandSound
    <3>3. SoundOver(n, entries) /\ Advances(view[r], n, entries)
      <4>1. entries \in Seq(Entry) /\ IsCllState(view[r]) /\ now[r] \in Nat
        BY ClockAssumption DEF TypeOK
      <4> QED  BY <3>2, <4>1, AdvancedSound
    <3> HIDE DEF batch, n
    <3>4. pc'[r] = "commit" /\ next'[r] = n /\ view'[r] = view[r]
      BY <2>2 DEF TypeOK
    <3>5. \A q \in Runner \ {r} : pc'[q] = pc[q] /\ view'[q] = view[q] /\ next'[q] = next[q]
      BY <2>2 DEF TypeOK
    <3>6. HandSound(r)'
      BY <3>1, <3>2, <3>3, <3>4 DEF HandSound
    <3> QED  BY <3>1, <3>5, <3>6, LocalStep
  <2> QED  BY <1>6, <2>1, <2>2 DEF Scan
<1>7. ASSUME NEW r \in Runner, CommitOk(r) PROVE Inductive'
  BY <1>7, CommitInductive
<1>8. ASSUME NEW r \in Runner, CommitFails(r) PROVE Inductive'
  BY <1>8, EndPassStep DEF CommitFails
<1>9. ASSUME NEW r \in Runner, Crash(r) PROVE Inductive'
  BY <1>9, EndPassStep DEF Crash
<1>10. CASE UNCHANGED vars
  BY <1>10 DEF vars, runnerVars, Inductive, StoreSound, HandSound
<1> QED
  BY <1>1, <1>2, <1>3, <1>4, <1>5, <1>6, <1>7, <1>8, <1>9, <1>10
  DEF Next, RunnerStep

\* The invariant holds in every initial state ...
LEMMA InductiveStart == Init => Inductive
<1> SUFFICES ASSUME Init PROVE Inductive
  OBVIOUS
<1>1. SoundOver(cll, entries) /\ cll.checkpoint = LastOf(chain)
  BY RunnerAssumption, EmptySeq
  DEF Init, StoreInit, SoundOver, EmptyState, NoCheckpoint, LastOf
<1>2. ChainOver(chain, entries)
  BY EmptySeq DEF Init, ChainOver
<1>3. \A r \in Runner : HandSound(r)
  BY DEF Init, HandSound
<1> QED  BY <1>1, <1>2, <1>3 DEF Inductive, StoreSound

\* ... and in every reachable one.
LEMMA InductiveHolds == Spec => []Inductive
  BY InductiveStart, TypeCorrect, InductiveStep, PTL DEF Spec

-----------------------------------------------------------------------------
(***************************************************************************)
(* The safety theorems.                                                    *)
(***************************************************************************)

\* The invariant contains the soundness of the chain.
LEMMA InductiveChain == TypeOK /\ Inductive => ChainSound
<1> SUFFICES ASSUME TypeOK, Inductive, NEW i \in DOMAIN chain
             PROVE  /\ chain[i].size > Predecessor(i).size
                    /\ chain[i].prev_size = Predecessor(i).size
                    /\ chain[i].prev_root = Predecessor(i).root
                    /\ Len(chain[i].root) = chain[i].size
                    /\ chain[i].size <= Len(entries)
                    /\ \A j \in 1..Len(chain[i].root) :
                          chain[i].root[j] = entries[j].value
  BY DEF ChainSound
<1>1. i \in 1..Len(chain)
  BY LenProperties DEF TypeOK
<1>2. Follows(chain[i], Predecessor(i), entries)
  BY <1>1 DEF Inductive, StoreSound, ChainOver, Predecessor
<1> QED  BY <1>2 DEF Follows

\* Runners that race on one log, whatever their number, cadence, scan limit,
\* keys and crashes, commit one linked chain of checkpoints over prefixes of
\* the log (_advance and the compare-and-set of commit_cll).
THEOREM ChainIsSound == Spec => []ChainSound
  BY InductiveChain, TypeCorrect, InductiveHolds, PTL

\* The index a commit leaves is always a prefix of the entry log, and the
\* stored checkpoint is the last of the chain (load, scan and commit of one
\* pass never skip or repeat an entry).
THEOREM IndexIsSound == Spec => []IndexFollowsLog
<1>1. Inductive => IndexFollowsLog
  BY DEF Inductive, StoreSound, SoundOver, IndexFollowsLog, FollowsLog
<1> QED  BY <1>1, InductiveHolds, PTL

\* first_pending_at is exact in every stored state, so the age rule of
\* _advance measures the age of the right entry after any restart.
THEOREM PendingIsExact == Spec => []FirstPendingExact
<1>1. Inductive => FirstPendingExact
  BY DEF Inductive, StoreSound, SoundOver, FirstPendingExact, PendingExact
<1> QED  BY <1>1, InductiveHolds, PTL

\* No commit leaves cadence_entries indexed entries without a checkpoint,
\* also when a pass indexes them in several batches.
THEOREM BacklogIsBounded == Spec => []BacklogBounded
<1>1. Inductive => BacklogBounded
  BY DEF Inductive, StoreSound, SoundOver, BacklogBounded, WithinCadence
<1> QED  BY <1>1, InductiveHolds, PTL

\* Nothing a host or a reader has seen is rewritten or dropped: entries,
\* leaves, checkpoints and witness rows are only added (append and apply_cll).
THEOREM StoreIsAppendOnly == Spec => AppendOnly
<1> DEFINE Grows == /\ Prefix(entries, entries')
                    /\ Prefix(cll.nodes, cll'.nodes)
                    /\ Prefix(chain, chain')
                    /\ DOMAIN cll.witnesses \subseteq DOMAIN cll'.witnesses
<1>1. TypeOK /\ [Next]_vars => [Grows]_vars
  <2> SUFFICES ASSUME TypeOK, Next PROVE Grows
    OBVIOUS
  <2>1. ASSUME NEW S, NEW q \in Seq(S) PROVE Prefix(q, q)
    BY LenProperties DEF Prefix
  <2>2. /\ entries \in Seq(Entry) /\ cll.nodes \in Seq(Value)
        /\ chain \in Seq(Checkpoint)
    BY DEF TypeOK, IsCllState
  <2>3. CASE UNCHANGED <<entries, cll, chain>>
    BY <2>1, <2>2, <2>3
  <2>4. CASE AppendStep
    <3>1. UNCHANGED <<cll, chain>>
      BY <2>4, AppendType DEF AppendStep, runnerVars
    <3>2. Prefix(entries, entries')
      BY <2>4, AppendExtends
    <3> QED  BY <2>1, <2>2, <3>1, <3>2
  <2>5. ASSUME NEW r \in Runner, CommitOk(r) PROVE Grows
    <3>1. IsCllState(next[r]) /\ IsCllState(cll) /\ next[r].checkpoint \in Checkpoint
      BY DEF TypeOK, IsCllState
    <3>2. /\ cll'.nodes = next[r].nodes
          /\ cll'.witnesses = MergeWitnesses(cll, next[r])
      BY <2>5, <3>1, ApplyFacts DEF CommitOk
    <3>3. Prefix(cll.nodes, next[r].nodes)
      BY <2>5 DEF CommitOk, RunnerCommitError, CommitCllError, Extends
    <3>4. Prefix(chain, chain')
      BY <2>1, <2>2, <2>5, <3>1, AppendProperties, LenProperties DEF CommitOk, Prefix
    <3>5. DOMAIN cll.witnesses \subseteq DOMAIN cll'.witnesses
      BY <3>2 DEF MergeWitnesses
    <3>6. entries' = entries
      BY <2>5 DEF CommitOk
    <3> QED  BY <2>1, <2>2, <3>2, <3>3, <3>4, <3>5, <3>6
  <2>6. AppendStep \/ (\E r \in Runner : CommitOk(r)) \/ UNCHANGED <<entries, cll, chain>>
    BY DEF Next, RunnerStep, Tick, ClockTicks, storeVars, runnerVars, Notify,
           Woken, Poll, Begin, Load, Scan, CommitFails, Crash
  <2> QED  BY <2>3, <2>4, <2>5, <2>6
<1> QED  BY <1>1, TypeCorrect, PTL DEF Spec, AppendOnly

-----------------------------------------------------------------------------
(***************************************************************************)
(* On top of the inductive invariant: the witness rows are those of the    *)
(* chain, one key signs it, only a runner with another key fails, and the  *)
(* runners implement CheckpointChain.                                      *)
(***************************************************************************)

(***************************************************************************)
(* The second inductive invariant.  It speaks of the rows and the keys in  *)
(* the store and in the hands of the runners.  A row in hand may be older  *)
(* than the stored one, so it is only known to be valid and to hold the    *)
(* checkpoint that is stored.                                              *)
(***************************************************************************)
ValidRows(rows) == \A k \in DOMAIN rows : ValidWitness(k, rows[k])

\* Every row of rows is stored too, with the same checkpoint.
KnownRows(rows) ==
    \A k \in DOMAIN rows :
        /\ k \in DOMAIN cll.witnesses
        /\ cll.witnesses[k].checkpoint = rows[k].checkpoint

SignedBy(r, s) ==
    \/ s.checkpoint = NoCheckpoint
    \/ s.checkpoint.size > 0 /\ s.checkpoint.key_id = KeyOf[r]

FreshRow(row, cp) ==
    row.checkpoint = cp /\ row.attempts = 0 /\ ~row.receipt /\ ~row.permanent

NewKeys(r, cp) == {<<w, cp.size>> : w \in WitnessIds[r]}

\* n adds to s a checkpoint of r over the whole index, with its rows.
Seals(r, s, n) ==
    /\ n.checkpoint.size > s.checkpoint.size
    /\ n.checkpoint.size = Len(n.nodes)
    /\ n.checkpoint.key_id = KeyOf[r]
    /\ n.checkpoint.issued_at \in 0..MaxTime
    /\ DOMAIN n.witnesses = DOMAIN s.witnesses \cup NewKeys(r, n.checkpoint)
    /\ \A k \in DOMAIN s.witnesses : n.witnesses[k] = s.witnesses[k]
    /\ \A k \in DOMAIN n.witnesses \ DOMAIN s.witnesses :
          FreshRow(n.witnesses[k], n.checkpoint)

\* What one _advance does to the rows and the checkpoint.
Queues(r, s, n) ==
    \/ n.checkpoint = s.checkpoint /\ n.witnesses = s.witnesses
    \/ Seals(r, s, n)

StoreRows ==
    /\ \A i, j \in 1..Len(chain) : i < j => chain[i].size < chain[j].size
    /\ \A i \in 1..Len(chain) : chain[i].key_id = chain[1].key_id
    /\ ValidRows(cll.witnesses)
    /\ RowsMatchChain

HandRows(r) ==
    /\ pc[r] \in {"scan", "commit"} =>
          /\ SignedBy(r, view[r])
          /\ ValidRows(view[r].witnesses)
          /\ KnownRows(view[r].witnesses)
    /\ pc[r] = "commit" => Queues(r, view[r], next[r])
    /\ pc[r] = "failed" => chain # <<>> /\ chain[1].key_id # KeyOf[r]

RowsAndKeys == StoreRows /\ \A r \in Runner : HandRows(r)

-----------------------------------------------------------------------------
(***************************************************************************)
(* Facts about one pass.                                                   *)
(***************************************************************************)

\* What _advance builds queues one fresh row per witness with a new
\* checkpoint, and touches no row otherwise.
LEMMA AdvancedQueues ==
    ASSUME NEW r \in Runner, NEW s, IsCllState(s), NEW batch \in Seq(Entry),
           NEW time \in 0..MaxTime
    PROVE  Queues(r, s, Advanced(r, s, batch, time))
<1> DEFINE n == Advanced(r, s, batch, time)
           cp == NewCheckpoint(r, s, batch, time)
<1>1. CASE ~Due(s, batch, time)
  <2>1. n.checkpoint = s.checkpoint /\ n.witnesses = s.witnesses
    BY <1>1 DEF Advanced
  <2> QED  BY <2>1 DEF Queues
<1>2. CASE Due(s, batch, time)
  <2>1. /\ n.nodes = IndexedNodes(s, batch) /\ n.checkpoint = cp
        /\ n.witnesses = QueueRows(r, s, cp, time)
    BY <1>2 DEF Advanced
  <2>2. /\ cp.size = Len(s.nodes) + Len(batch) /\ cp.key_id = KeyOf[r]
        /\ cp.issued_at = time
    BY DEF NewCheckpoint
  <2>3. /\ Len(s.nodes) \in Nat /\ Len(batch) \in Nat /\ s.checkpoint.size \in Nat
    BY LenProperties DEF IsCllState, Checkpoint
  <2>4. cp.size > s.checkpoint.size
    BY <1>2, <2>2, <2>3 DEF Due
  <2>5. cp.size = Len(n.nodes)
    BY <2>1, <2>2, IndexedFacts
  <2> HIDE DEF cp, n
  <2>6. /\ DOMAIN n.witnesses = DOMAIN s.witnesses \cup NewKeys(r, cp)
        /\ \A k \in DOMAIN s.witnesses : n.witnesses[k] = s.witnesses[k]
        /\ \A k \in DOMAIN n.witnesses \ DOMAIN s.witnesses : FreshRow(n.witnesses[k], cp)
    BY <2>1 DEF QueueRows, NewKeys, FreshRow
  <2>7. Seals(r, s, n)
    BY <2>1, <2>2, <2>4, <2>5, <2>6 DEF Seals
  <2> QED  BY <2>7 DEF Queues, n
<1> QED  BY <1>1, <1>2

\* The last checkpoint of a chain, and what is known of it.
LEMMA LastFacts ==
    ASSUME TypeOK, Inductive
    PROVE  /\ chain = <<>> => cll.checkpoint = NoCheckpoint
           /\ chain # <<>> => /\ Len(chain) \in Nat \ {0}
                              /\ cll.checkpoint = chain[Len(chain)]
                              /\ cll.checkpoint.size > 0
                              /\ Len(cll.checkpoint.root) = cll.checkpoint.size
                              /\ \A j \in 1..Len(cll.checkpoint.root) :
                                    cll.checkpoint.root[j] = entries[j].value
<1>1. cll.checkpoint = LastOf(chain) /\ ChainOver(chain, entries)
  BY DEF Inductive, StoreSound
<1>2. chain = <<>> => cll.checkpoint = NoCheckpoint
  BY <1>1 DEF LastOf
<1>3. ASSUME chain # <<>>
      PROVE  /\ Len(chain) \in Nat \ {0}
             /\ cll.checkpoint = chain[Len(chain)]
             /\ cll.checkpoint.size > 0
             /\ Len(cll.checkpoint.root) = cll.checkpoint.size
             /\ \A j \in 1..Len(cll.checkpoint.root) :
                   cll.checkpoint.root[j] = entries[j].value
  <2>1. Len(chain) \in Nat \ {0} /\ chain \in Seq(Checkpoint)
    BY <1>3, EmptySeq, LenProperties DEF TypeOK
  <2>2. cll.checkpoint = chain[Len(chain)]
    BY <1>1, <1>3 DEF LastOf
  <2> DEFINE last == Len(chain)
             prev == IF last = 1 THEN NoCheckpoint ELSE chain[last - 1]
  <2>b. last \in Nat /\ last >= 1
    BY <2>1
  <2>a. last \in 1..last /\ (last # 1 => last - 1 \in 1..last)
    <3> HIDE DEF last
    <3> QED  BY <2>b
  <2> HIDE DEF last
  <2>3. Follows(cll.checkpoint, prev, entries)
    <3>1. Follows(chain[last], prev, entries)
      BY <1>1, <2>a DEF ChainOver, last
    <3> QED  BY <2>2, <3>1 DEF last
  <2>4. prev \in Checkpoint /\ cll.checkpoint \in Checkpoint
    <3>1. \A i \in 1..Len(chain) : chain[i] \in Checkpoint
      BY <2>1, ElementOfSeq
    <3>2. chain[last] \in Checkpoint /\ prev \in Checkpoint
      BY <2>a, <3>1, NoCheckpointType DEF last
    <3> QED  BY <2>2, <3>2 DEF last
  <2> HIDE DEF prev
  <2>5. prev.size \in Nat /\ cll.checkpoint.size \in Nat
    BY <2>4 DEF Checkpoint
  <2> QED  BY <2>1, <2>2, <2>3, <2>5 DEF Follows
<1> QED  BY <1>2, <1>3

\* _verify_checkpoint fails on a state the runners made only because its
\* checkpoint is another key's.
LEMMA OnlyKeyFailsVerification ==
    ASSUME TypeOK, Inductive, StoreRows, NEW r \in Runner, ~VerifyCheckpoint(r, cll)
    PROVE  chain # <<>> /\ chain[1].key_id # KeyOf[r]
<1>1. cll.checkpoint # NoCheckpoint
  BY DEF VerifyCheckpoint
<1>2. chain # <<>>
  BY <1>1, LastFacts
<1>3. /\ Len(chain) \in Nat \ {0} /\ cll.checkpoint = chain[Len(chain)]
      /\ cll.checkpoint.size > 0 /\ Len(cll.checkpoint.root) = cll.checkpoint.size
      /\ \A j \in 1..Len(cll.checkpoint.root) : cll.checkpoint.root[j] = entries[j].value
  BY <1>2, LastFacts
<1>4. /\ cll.checkpoint.size <= Len(cll.nodes)
      /\ \A i \in 1..Len(cll.nodes) : cll.nodes[i] = entries[i].value
  BY DEF Inductive, StoreSound, SoundOver
<1>5. Len(cll.nodes) \in Nat /\ cll.checkpoint.size \in Nat
  BY LenProperties DEF TypeOK, IsCllState, Checkpoint
<1>6. Prefix(cll.checkpoint.root, cll.nodes)
  BY <1>3, <1>4, <1>5 DEF Prefix
<1>7. cll.checkpoint.key_id # KeyOf[r]
  BY <1>1, <1>3, <1>4, <1>5, <1>6 DEF VerifyCheckpoint
<1> QED  BY <1>2, <1>3, <1>7 DEF StoreRows

\* What a load that verifies puts in a runner's hands.
LEMMA VerifiedSigned ==
    ASSUME TypeOK, NEW r \in Runner, VerifyCheckpoint(r, cll)
    PROVE  SignedBy(r, cll)
  BY DEF VerifyCheckpoint, SignedBy, TypeOK, IsCllState, Checkpoint

\* What _advance makes of a state with valid rows, signed by its runner, is
\* such a state again.
LEMMA QueuedFacts ==
    ASSUME NEW r \in Runner, NEW v, NEW n, IsCllState(v), IsCllState(n),
           SignedBy(r, v), ValidRows(v.witnesses), Queues(r, v, n)
    PROVE  SignedBy(r, n) /\ ValidRows(n.witnesses)
<1>1. v.checkpoint.size \in Nat /\ n.checkpoint.size \in Nat
  BY DEF IsCllState, Checkpoint
<1>2. CASE n.checkpoint = v.checkpoint /\ n.witnesses = v.witnesses
  BY <1>2 DEF SignedBy
<1>3. CASE Seals(r, v, n)
  <2>1. n.checkpoint.size > 0
    BY <1>1, <1>3 DEF Seals
  <2>2. SignedBy(r, n)
    BY <1>3, <2>1 DEF Seals, SignedBy
  <2>3. ASSUME NEW k \in DOMAIN n.witnesses PROVE ValidWitness(k, n.witnesses[k])
    <3>1. CASE k \in DOMAIN v.witnesses
      BY <1>3, <3>1 DEF Seals, ValidRows
    <3>2. CASE k \notin DOMAIN v.witnesses
      <4>1. k \in NewKeys(r, n.checkpoint) /\ FreshRow(n.witnesses[k], n.checkpoint)
        BY <1>3, <3>2 DEF Seals
      <4>2. k[2] = n.checkpoint.size
        BY <4>1 DEF NewKeys
      <4> QED  BY <2>1, <4>1, <4>2, EngineAssumption DEF FreshRow, ValidWitness
    <3> QED  BY <3>1, <3>2
  <2> QED  BY <2>2, <2>3 DEF ValidRows
<1> QED  BY <1>2, <1>3 DEF Queues

\* commit_cll never rejects as invalid what _advance built.
LEMMA NeverInvalid ==
    ASSUME TypeOK, Inductive, RowsAndKeys, NEW r \in Runner, pc[r] = "commit"
    PROVE  RunnerCommitError(r) # "invalid"
<1> DEFINE v == view[r]
           n == next[r]
<1>1. /\ IsCllState(v) /\ IsCllState(n) /\ IsCllState(cll)
      /\ SoundOver(n, entries) /\ Advances(v, n, entries) /\ Prefix(v.nodes, cll.nodes)
      /\ SignedBy(r, v) /\ ValidRows(v.witnesses) /\ Queues(r, v, n)
  BY DEF TypeOK, Inductive, HandSound, RowsAndKeys, HandRows
<1> HIDE DEF v, n
<1>2. /\ v.checkpoint.size \in Nat /\ n.checkpoint.size \in Nat
      /\ Len(v.nodes) \in Nat /\ Len(n.nodes) \in Nat /\ Len(cll.nodes) \in Nat
  BY <1>1, LenProperties DEF IsCllState, Checkpoint
<1>3. n.checkpoint = NoCheckpoint \/ n.checkpoint.size \in 1..Len(n.nodes)
  BY <1>1, <1>2 DEF SoundOver, SignedBy, Queues, Seals
<1>4. ValidRows(n.witnesses)
  BY <1>1, QueuedFacts
<1>5. ValidState(n)
  BY <1>3, <1>4 DEF ValidState, ValidRows
<1>6. Expected(cll, Len(v.nodes), v.checkpoint) => Extends(cll, n)
  <2> SUFFICES ASSUME Len(cll.nodes) = Len(v.nodes) PROVE Prefix(cll.nodes, n.nodes)
    BY DEF Expected, Extends
  <2> QED  BY <1>1, <1>2 DEF Advances, Prefix
<1> QED  BY <1>5, <1>6 DEF RunnerCommitError, CommitCllError, v, n

-----------------------------------------------------------------------------
(***************************************************************************)
(* Every step keeps the invariant.                                         *)
(***************************************************************************)

\* A step of one runner that leaves the store alone.
LEMMA LocalRows ==
    ASSUME RowsAndKeys, NEW r \in Runner, UNCHANGED <<cll, chain>>,
           \A q \in Runner \ {r} : pc'[q] = pc[q] /\ view'[q] = view[q] /\ next'[q] = next[q],
           HandRows(r)'
    PROVE  RowsAndKeys'
<1>1. StoreRows'
  BY DEF RowsAndKeys, StoreRows, ValidRows, RowsMatchChain
<1>2. ASSUME NEW q \in Runner \ {r} PROVE HandRows(q)'
  <2>1. HandRows(q)
    BY DEF RowsAndKeys
  <2>2. KnownRows(view[q].witnesses) => KnownRows(view[q].witnesses)'
    BY DEF KnownRows
  <2> QED  BY <2>1, <2>2 DEF HandRows, SignedBy, ValidRows, Queues, Seals, KnownRows
<1> QED  BY <1>1, <1>2 DEF RowsAndKeys

\* A pass that ends without a commit; it may fail only on a foreign key.
LEMMA EndPassRows ==
    ASSUME TypeOK, RowsAndKeys, NEW r \in Runner,
           NEW where \in {"wait", "woken", "load", "failed"},
           EndPass(r, where), UNCHANGED <<cll, chain>>,
           where = "failed" => chain # <<>> /\ chain[1].key_id # KeyOf[r]
    PROVE  RowsAndKeys'
<1>1. \A q \in Runner \ {r} : pc'[q] = pc[q] /\ view'[q] = view[q] /\ next'[q] = next[q]
  BY DEF EndPass, TypeOK
<1>2. pc'[r] = where
  BY DEF EndPass, TypeOK
<1>3. HandRows(r)'
  BY <1>2 DEF HandRows
<1> QED  BY <1>1, <1>3, LocalRows

\* The rows a commit leaves: the stored ones as they were, and the fresh rows
\* of the checkpoint it adds.
LEMMA MergedRows ==
    ASSUME TypeOK, RowsAndKeys, NEW r \in Runner, CommitOk(r)
    PROVE  /\ DOMAIN cll'.witnesses = DOMAIN cll.witnesses \cup DOMAIN next[r].witnesses
           /\ \A k \in DOMAIN cll.witnesses : cll'.witnesses[k] = cll.witnesses[k]
           /\ \A k \in DOMAIN cll'.witnesses \ DOMAIN cll.witnesses :
                 /\ Seals(r, view[r], next[r])
                 /\ k \in NewKeys(r, next[r].checkpoint)
                 /\ cll'.witnesses[k] = next[r].witnesses[k]
                 /\ FreshRow(cll'.witnesses[k], next[r].checkpoint)
           /\ \A k \in DOMAIN next[r].witnesses :
                 cll'.witnesses[k].checkpoint = next[r].witnesses[k].checkpoint
<1> DEFINE v == view[r]
           n == next[r]
<1>1. IsCllState(cll) /\ IsCllState(n)
  BY DEF TypeOK
<1>2. cll'.witnesses = MergeWitnesses(cll, n)
  BY <1>1, ApplyFacts DEF CommitOk
<1>3. SameWitnessCheckpoints(cll, n)
  BY DEF CommitOk, RunnerCommitError, CommitCllError
<1>4. KnownRows(v.witnesses) /\ Queues(r, v, n)
  BY DEF CommitOk, RowsAndKeys, HandRows
<1> HIDE DEF v, n
<1>5. /\ DOMAIN cll'.witnesses = DOMAIN cll.witnesses \cup DOMAIN n.witnesses
      /\ \A k \in DOMAIN cll.witnesses : cll'.witnesses[k] = cll.witnesses[k]
      /\ \A k \in DOMAIN n.witnesses \ DOMAIN cll.witnesses :
            cll'.witnesses[k] = n.witnesses[k]
  BY <1>2 DEF MergeWitnesses
<1>6. ASSUME NEW k \in DOMAIN cll'.witnesses \ DOMAIN cll.witnesses
      PROVE  /\ Seals(r, v, n) /\ k \in NewKeys(r, n.checkpoint)
             /\ cll'.witnesses[k] = n.witnesses[k]
             /\ FreshRow(cll'.witnesses[k], n.checkpoint)
  <2>1. k \in DOMAIN n.witnesses /\ k \notin DOMAIN v.witnesses
    BY <1>4, <1>5 DEF KnownRows
  <2>2. Seals(r, v, n)
    BY <1>4, <2>1 DEF Queues
  <2>3. k \in NewKeys(r, n.checkpoint) /\ FreshRow(n.witnesses[k], n.checkpoint)
    BY <2>1, <2>2 DEF Seals
  <2> QED  BY <1>5, <2>1, <2>2, <2>3
<1>7. \A k \in DOMAIN n.witnesses : cll'.witnesses[k].checkpoint = n.witnesses[k].checkpoint
  BY <1>3, <1>5 DEF SameWitnessCheckpoints
<1> QED  BY <1>5, <1>6, <1>7 DEF v, n

\* What a commit does to the chain.
LEMMA CommittedChain ==
    ASSUME TypeOK, Inductive, RowsAndKeys, NEW r \in Runner, CommitOk(r)
    PROVE  \/ /\ chain' = chain /\ next[r].checkpoint = cll.checkpoint
              /\ next[r].witnesses = view[r].witnesses
           \/ /\ Seals(r, view[r], next[r])
              /\ chain' = Append(chain, next[r].checkpoint)
              /\ chain' \in Seq(Checkpoint) /\ Len(chain) \in Nat
              /\ Len(chain') = Len(chain) + 1
              /\ chain'[Len(chain) + 1] = next[r].checkpoint
              /\ \A i \in 1..Len(chain) : chain'[i] = chain[i]
              /\ \A i \in 1..Len(chain) : chain[i].size < next[r].checkpoint.size
              /\ \A i \in 1..Len(chain) : chain[i].key_id = KeyOf[r]
<1> DEFINE v == view[r]
           n == next[r]
<1>1. /\ Queues(r, v, n) /\ SignedBy(r, v) /\ v.checkpoint = cll.checkpoint
  BY DEF CommitOk, RowsAndKeys, HandRows, RunnerCommitError, CommitCllError, Expected
<1>2. /\ IsCllState(n) /\ n.checkpoint \in Checkpoint /\ cll.checkpoint \in Checkpoint
      /\ chain \in Seq(Checkpoint)
  BY DEF TypeOK, IsCllState
<1>3. chain' = IF n.checkpoint = cll.checkpoint THEN chain ELSE Append(chain, n.checkpoint)
  BY DEF CommitOk
<1> HIDE DEF v, n
<1>4. n.checkpoint.size \in Nat /\ cll.checkpoint.size \in Nat
  BY <1>2 DEF Checkpoint
<1>5. CASE ~Seals(r, v, n)
  BY <1>1, <1>3, <1>5 DEF Queues, v, n
<1>6. CASE Seals(r, v, n)
  <2>1. n.checkpoint.size > cll.checkpoint.size /\ n.checkpoint # cll.checkpoint
    BY <1>1, <1>4, <1>6 DEF Seals
  <2>2. chain' = Append(chain, n.checkpoint)
    BY <1>3, <2>1
  <2>3. /\ chain' \in Seq(Checkpoint) /\ Len(chain) \in Nat
        /\ Len(chain') = Len(chain) + 1
        /\ chain'[Len(chain) + 1] = n.checkpoint
        /\ \A i \in 1..Len(chain) : chain'[i] = chain[i]
    BY <1>2, <2>2, LenProperties
  <2>4. ASSUME NEW i \in 1..Len(chain)
        PROVE  chain[i].size < n.checkpoint.size /\ chain[i].key_id = KeyOf[r]
    <3>1. chain # <<>>
      BY <2>3, EmptySeq
    <3>2. /\ Len(chain) \in Nat \ {0} /\ cll.checkpoint = chain[Len(chain)]
          /\ cll.checkpoint.size > 0
      BY <3>1, LastFacts
    <3>3. chain[i] \in Checkpoint
      BY <1>2, ElementOfSeq
    <3>4. chain[i].size \in Nat
      BY <3>3 DEF Checkpoint
    <3>5. \A j \in 1..Len(chain) : i < j => chain[i].size < chain[j].size
      BY DEF RowsAndKeys, StoreRows
    <3>6. i = Len(chain) \/ chain[i].size < chain[Len(chain)].size
      BY <3>2, <3>5
    <3>7. chain[i].size <= cll.checkpoint.size
      BY <1>4, <3>2, <3>4, <3>6
    <3>8. cll.checkpoint.key_id = KeyOf[r]
      BY <1>1, <3>2 DEF SignedBy, NoCheckpoint
    <3>9. chain[i].key_id = chain[1].key_id /\ chain[Len(chain)].key_id = chain[1].key_id
      BY <3>2 DEF RowsAndKeys, StoreRows
    <3> QED  BY <1>4, <2>1, <3>2, <3>4, <3>7, <3>8, <3>9
  <2> QED  BY <1>6, <2>2, <2>3, <2>4 DEF v, n
<1> QED  BY <1>5, <1>6

\* A commit keeps the rows of the chain, and its signer.
LEMMA CommitStoreRows ==
    ASSUME TypeOK, Inductive, RowsAndKeys, NEW r \in Runner, CommitOk(r)
    PROVE  StoreRows'
<1> DEFINE v == view[r]
           n == next[r]
           w0 == cll.witnesses
           w1 == cll'.witnesses
<1>1. StoreRows /\ chain \in Seq(Checkpoint) /\ IsCllState(v) /\ IsCllState(n)
  BY DEF RowsAndKeys, TypeOK
<1>2. SignedBy(r, v) /\ ValidRows(v.witnesses) /\ Queues(r, v, n) /\ KnownRows(v.witnesses)
  BY DEF CommitOk, RowsAndKeys, HandRows
<1>3. ValidRows(n.witnesses)
  BY <1>1, <1>2, QueuedFacts
<1>4. /\ DOMAIN w1 = DOMAIN w0 \cup DOMAIN n.witnesses
      /\ \A k \in DOMAIN w0 : w1[k] = w0[k]
      /\ \A k \in DOMAIN w1 \ DOMAIN w0 :
            /\ Seals(r, v, n) /\ k \in NewKeys(r, n.checkpoint)
            /\ w1[k] = n.witnesses[k] /\ FreshRow(w1[k], n.checkpoint)
  BY MergedRows
<1>5. DOMAIN chain = 1..Len(chain)
  BY <1>1, LenProperties
<1>6. CASE chain' = chain /\ n.witnesses = v.witnesses
  <2>1. DOMAIN w1 = DOMAIN w0
    BY <1>2, <1>4, <1>6 DEF KnownRows
  <2> QED  BY <1>1, <1>4, <1>6, <2>1 DEF StoreRows, ValidRows, RowsMatchChain
<1>7. CASE /\ Seals(r, v, n) /\ chain' \in Seq(Checkpoint) /\ Len(chain) \in Nat
           /\ Len(chain') = Len(chain) + 1 /\ chain'[Len(chain) + 1] = n.checkpoint
           /\ \A i \in 1..Len(chain) : chain'[i] = chain[i]
           /\ \A i \in 1..Len(chain) : chain[i].size < n.checkpoint.size
           /\ \A i \in 1..Len(chain) : chain[i].key_id = KeyOf[r]
  <2> HIDE DEF v, n, w0, w1
  <2>1. DOMAIN chain' = 1..Len(chain')
    BY <1>7, LenProperties
  <2>2. ASSUME NEW i \in 1..Len(chain'), NEW j \in 1..Len(chain'), i < j
        PROVE  chain'[i].size < chain'[j].size
    <3>1. i \in 1..Len(chain) /\ (j \in 1..Len(chain) \/ j = Len(chain) + 1)
      BY <1>7, <2>2
    <3>2. CASE j \in 1..Len(chain)
      BY <1>1, <1>7, <2>2, <3>1, <3>2 DEF StoreRows
    <3>3. CASE j = Len(chain) + 1
      BY <1>7, <3>1, <3>3
    <3> QED  BY <3>1, <3>2, <3>3
  <2>3. \A i \in 1..Len(chain') : chain'[i].key_id = chain'[1].key_id
    <3>1. \A i \in 1..Len(chain') : chain'[i].key_id = KeyOf[r]
      BY <1>7 DEF Seals
    <3>2. 1 \in 1..Len(chain')
      BY <1>7
    <3> QED  BY <3>1, <3>2
  <2>4. ValidRows(w1)
    <3>1. ValidRows(w0)
      BY <1>1 DEF StoreRows, w0
    <3> QED  BY <1>3, <1>4, <3>1 DEF ValidRows
  <2>5. ASSUME NEW i \in 1..Len(chain'), NEW w \in Witness,
               \A q \in Runner : w \in WitnessIds[q]
        PROVE  <<w, chain'[i].size>> \in DOMAIN w1 /\ w1[<<w, chain'[i].size>>].checkpoint = chain'[i]
    <3>1. CASE i \in 1..Len(chain)
      BY <1>1, <1>4, <1>5, <1>7, <2>5, <3>1 DEF StoreRows, RowsMatchChain, w0
    <3>2. CASE i = Len(chain) + 1
      <4> DEFINE k == <<w, n.checkpoint.size>>
      <4>1. k \in NewKeys(r, n.checkpoint)
        BY <2>5 DEF NewKeys
      <4>2. k \in DOMAIN n.witnesses
        BY <1>7, <4>1 DEF Seals
      \* No stored row has the new size yet.
      <4>3. k \notin DOMAIN w0
        <5>1. SUFFICES ASSUME k \in DOMAIN w0 PROVE FALSE
          OBVIOUS
        <5>2. PICK j \in 1..Len(chain) : k[2] = chain[j].size
          BY <1>1, <1>5, <5>1 DEF StoreRows, RowsMatchChain, w0
        <5>3. chain[j].size < n.checkpoint.size /\ chain[j].size = n.checkpoint.size
          BY <1>7, <5>2
        <5>4. chain[j] \in Checkpoint
          BY <1>1, ElementOfSeq
        <5>5. chain[j].size \in Nat
          BY <5>4 DEF Checkpoint
        <5> QED  BY <5>3, <5>5
      <4>4. k \in DOMAIN w1 /\ w1[k].checkpoint = n.checkpoint
        BY <1>4, <4>2, <4>3 DEF FreshRow
      <4> QED  BY <1>7, <3>2, <4>4
    <3> QED  BY <1>7, <3>1, <3>2
  <2>6. ASSUME NEW k \in DOMAIN w1
        PROVE  \E i \in 1..Len(chain') : k[2] = chain'[i].size /\ w1[k].checkpoint = chain'[i]
    <3>1. CASE k \in DOMAIN w0
      <4>1. PICK i \in 1..Len(chain) : k[2] = chain[i].size /\ w0[k].checkpoint = chain[i]
        BY <1>1, <1>5, <3>1 DEF StoreRows, RowsMatchChain, w0
      <4>2. i \in 1..Len(chain') /\ chain'[i] = chain[i]
        BY <1>7
      <4> QED  BY <1>4, <3>1, <4>1, <4>2
    <3>2. CASE k \notin DOMAIN w0
      <4>1. k \in NewKeys(r, n.checkpoint) /\ FreshRow(w1[k], n.checkpoint)
        BY <1>4, <3>2
      <4>2. k[2] = n.checkpoint.size /\ w1[k].checkpoint = n.checkpoint
        BY <4>1 DEF NewKeys, FreshRow
      <4>3. Len(chain) + 1 \in 1..Len(chain')
        BY <1>7
      <4> QED  BY <1>7, <4>2, <4>3
    <3> QED  BY <3>1, <3>2
  <2>7. RowsMatchChain'
    BY <2>1, <2>5, <2>6 DEF RowsMatchChain, w1
  <2> QED  BY <2>2, <2>3, <2>4, <2>7 DEF StoreRows, ValidRows, w1
<1> QED  BY <1>6, <1>7, CommittedChain

\* A commit keeps what the runners have in hand.
LEMMA CommitRows ==
    ASSUME TypeOK, Inductive, RowsAndKeys, NEW r \in Runner, CommitOk(r)
    PROVE  RowsAndKeys'
<1>1. /\ DOMAIN cll.witnesses \subseteq DOMAIN cll'.witnesses
      /\ DOMAIN next[r].witnesses \subseteq DOMAIN cll'.witnesses
      /\ \A k \in DOMAIN cll.witnesses : cll'.witnesses[k] = cll.witnesses[k]
      /\ \A k \in DOMAIN next[r].witnesses :
            cll'.witnesses[k].checkpoint = next[r].witnesses[k].checkpoint
  BY MergedRows
<1>2. HandRows(r)'
  <2>1. CASE r \in Once
    <3>1. pc'[r] = "wait"
      BY <2>1 DEF CommitOk, EndPass, TypeOK
    <3> QED  BY <3>1 DEF HandRows
  <2>2. CASE r \notin Once
    <3>1. pc'[r] = "scan" /\ view'[r] = next[r]
      BY <2>2 DEF CommitOk, TypeOK
    <3>2. /\ IsCllState(view[r]) /\ IsCllState(next[r])
          /\ SignedBy(r, view[r]) /\ ValidRows(view[r].witnesses)
          /\ Queues(r, view[r], next[r])
      BY DEF CommitOk, RowsAndKeys, HandRows, TypeOK
    <3>3. SignedBy(r, next[r]) /\ ValidRows(next[r].witnesses)
      BY <3>2, QueuedFacts
    <3>4. KnownRows(view[r].witnesses)'
      BY <1>1, <3>1 DEF KnownRows
    <3>5. SignedBy(r, view[r])' /\ ValidRows(view[r].witnesses)'
      BY <3>1, <3>3 DEF SignedBy, ValidRows
    <3> QED  BY <3>1, <3>4, <3>5 DEF HandRows
  <2> QED  BY <2>1, <2>2
<1>3. ASSUME NEW q \in Runner \ {r} PROVE HandRows(q)'
  <2>1. pc'[q] = pc[q] /\ view'[q] = view[q] /\ next'[q] = next[q]
    BY DEF CommitOk, EndPass, TypeOK
  <2>2. HandRows(q)
    BY DEF RowsAndKeys
  <2>3. KnownRows(view[q].witnesses) => KnownRows(view[q].witnesses)'
    BY <1>1, <2>1 DEF KnownRows
  <2>4. chain # <<>> => chain' # <<>> /\ chain'[1] = chain[1]
    <3>1. chain \in Seq(Checkpoint)
      BY DEF TypeOK
    <3>2. chain # <<>> => 1 \in 1..Len(chain)
      BY <3>1, EmptySeq, LenProperties
    <3>3. chain' = chain \/ (/\ chain' \in Seq(Checkpoint) /\ Len(chain) \in Nat
                            /\ Len(chain') = Len(chain) + 1
                            /\ \A i \in 1..Len(chain) : chain'[i] = chain[i])
      BY CommittedChain
    <3> QED  BY <3>2, <3>3, EmptySeq
  <2> QED
    BY <2>1, <2>2, <2>3, <2>4
    DEF HandRows, SignedBy, ValidRows, Queues, Seals, KnownRows
<1> QED  BY <1>2, <1>3, CommitStoreRows DEF RowsAndKeys

\* Every step keeps the invariant.
LEMMA RowsStep == TypeOK /\ Inductive /\ RowsAndKeys /\ [Next]_vars => RowsAndKeys'
<1> SUFFICES ASSUME TypeOK, Inductive, RowsAndKeys, [Next]_vars PROVE RowsAndKeys'
  OBVIOUS
<1>1. CASE UNCHANGED <<cll, chain, pc, view, next>>
  BY <1>1 DEF RowsAndKeys, StoreRows, HandRows, ValidRows, KnownRows, SignedBy,
              Queues, Seals, RowsMatchChain
<1>2. ASSUME NEW r \in Runner, Woken(r) \/ Poll(r) \/ Begin(r) PROVE RowsAndKeys'
  <2>1. /\ UNCHANGED <<cll, chain, view, next>>
        /\ pc' = [pc EXCEPT ![r] = "woken"] \/ pc' = [pc EXCEPT ![r] = "load"]
    BY <1>2 DEF Woken, Poll, Begin
  <2>2. pc'[r] \in {"woken", "load"} /\ \A q \in Runner \ {r} : pc'[q] = pc[q]
    BY <2>1 DEF TypeOK
  <2>3. HandRows(r)'
    BY <2>2 DEF HandRows
  <2> QED  BY <2>1, <2>2, <2>3, LocalRows
<1>3. ASSUME NEW r \in Runner, Load(r) PROVE RowsAndKeys'
  <2>1. CASE ~VerifyCheckpoint(r, cll)
    <3>1. chain # <<>> /\ chain[1].key_id # KeyOf[r]
      BY <2>1, OnlyKeyFailsVerification DEF RowsAndKeys
    <3> QED  BY <1>3, <2>1, <3>1, EndPassRows DEF Load
  <2>2. CASE VerifyCheckpoint(r, cll)
    <3>1. /\ UNCHANGED <<cll, chain, next>> /\ pc' = [pc EXCEPT ![r] = "scan"]
          /\ view' = [view EXCEPT ![r] = cll]
      BY <1>3, <2>2 DEF Load
    <3>2. pc'[r] = "scan" /\ view'[r] = cll
      BY <3>1 DEF TypeOK
    <3>3. \A q \in Runner \ {r} : pc'[q] = pc[q] /\ view'[q] = view[q] /\ next'[q] = next[q]
      BY <3>1 DEF TypeOK
    <3>4. SignedBy(r, view[r])'
      BY <2>2, <3>2, VerifiedSigned DEF SignedBy
    <3>5. ValidRows(view[r].witnesses)' /\ KnownRows(view[r].witnesses)'
      BY <3>1, <3>2 DEF RowsAndKeys, StoreRows, ValidRows, KnownRows
    <3>6. HandRows(r)'
      BY <3>2, <3>4, <3>5 DEF HandRows
    <3> QED  BY <3>1, <3>3, <3>6, LocalRows
  <2> QED  BY <2>1, <2>2
<1>4. ASSUME NEW r \in Runner, Scan(r) PROVE RowsAndKeys'
  <2> DEFINE batch == ScanEntries(Len(view[r].nodes), ScanLimit)
             n == Advanced(r, view[r], batch, now[r])
  <2>1. CASE EndPass(r, "wait")
    BY <1>4, <2>1, EndPassRows DEF Scan
  <2>2. CASE /\ next' = [next EXCEPT ![r] = n]
             /\ pc' = [pc EXCEPT ![r] = "commit"]
             /\ UNCHANGED view
    <3>1. UNCHANGED <<cll, chain>> /\ pc[r] = "scan"
      BY <1>4 DEF Scan
    <3>2. Queues(r, view[r], n)
      <4>1. /\ IsCllState(view[r]) /\ now[r] \in 0..MaxTime /\ entries \in Seq(Entry)
            /\ Len(view[r].nodes) \in Nat
        BY LenProperties DEF TypeOK, IsCllState
      <4>2. batch \in Seq(Entry)
        BY <4>1, ScanType, RunnerAssumption
      <4> HIDE DEF batch
      <4> QED  BY <4>1, <4>2, AdvancedQueues
    <3>3. SignedBy(r, view[r]) /\ ValidRows(view[r].witnesses) /\ KnownRows(view[r].witnesses)
      BY <3>1 DEF RowsAndKeys, HandRows
    <3> HIDE DEF batch, n
    <3>4. pc'[r] = "commit" /\ next'[r] = n /\ view'[r] = view[r]
      BY <2>2 DEF TypeOK
    <3>5. \A q \in Runner \ {r} : pc'[q] = pc[q] /\ view'[q] = view[q] /\ next'[q] = next[q]
      BY <2>2 DEF TypeOK
    <3>6. Queues(r, view[r], next[r])'
      BY <3>2, <3>4 DEF Queues, Seals
    <3>7. (SignedBy(r, view[r]) /\ ValidRows(view[r].witnesses) /\ KnownRows(view[r].witnesses))'
      BY <3>1, <3>3, <3>4 DEF SignedBy, ValidRows, KnownRows
    <3>8. HandRows(r)'
      BY <3>4, <3>6, <3>7 DEF HandRows
    <3> QED  BY <3>1, <3>5, <3>8, LocalRows
  <2> QED  BY <1>4, <2>1, <2>2 DEF Scan
<1>5. ASSUME NEW r \in Runner, CommitOk(r) PROVE RowsAndKeys'
  BY <1>5, CommitRows
<1>6. ASSUME NEW r \in Runner, CommitFails(r) PROVE RowsAndKeys'
  <2>1. RunnerCommitError(r) # "invalid"
    BY <1>6, NeverInvalid DEF CommitFails
  <2> QED  BY <1>6, <2>1, EndPassRows DEF CommitFails
<1>7. ASSUME NEW r \in Runner, Crash(r) PROVE RowsAndKeys'
  BY <1>7, EndPassRows DEF Crash
<1>8. ASSUME AppendStep \/ Tick \/ (\E r \in Runner : Notify(r)) \/ UNCHANGED vars
      PROVE  UNCHANGED <<cll, chain, pc, view, next>>
  BY <1>8 DEF AppendStep, AppendEntry, Tick, ClockTicks, Notify, vars, runnerVars, storeVars
<1> QED
  BY <1>1, <1>2, <1>3, <1>4, <1>5, <1>6, <1>7, <1>8 DEF Next, RunnerStep

\* It holds in every initial state.
LEMMA RowsInit == Init => RowsAndKeys
<1> SUFFICES ASSUME Init PROVE RowsAndKeys
  OBVIOUS
<1>1. chain = <<>> /\ cll.witnesses = NoRows /\ DOMAIN NoRows = {} /\ Len(chain) = 0
  BY EmptySeq DEF Init, StoreInit, EmptyState, NoRows
<1>2. DOMAIN chain = {}
  BY <1>1
<1>3. StoreRows
  BY <1>1, <1>2 DEF StoreRows, ValidRows, RowsMatchChain
<1>4. \A r \in Runner : HandRows(r)
  BY DEF Init, HandRows
<1> QED  BY <1>3, <1>4 DEF RowsAndKeys

\* The invariant holds in every reachable state.
LEMMA RowsHold == Spec => []RowsAndKeys
  BY RowsInit, RowsStep, TypeCorrect, InductiveHolds, PTL DEF Spec

-----------------------------------------------------------------------------
(***************************************************************************)
(* The theorems.                                                           *)
(***************************************************************************)

\* Every committed checkpoint is queued for every witness all runners have,
\* and every row holds a checkpoint of the chain (the rows _advance adds, and
\* added_witnesses): a runner that loses the race leaves no row behind.
THEOREM RowsAreOfChain == Spec => []RowsMatchChain
<1>1. RowsAndKeys => RowsMatchChain
  BY DEF RowsAndKeys, StoreRows
<1> QED  BY <1>1, RowsHold, PTL

\* The invariant contains that of the single signer.
LEMMA RowsOneSigner == TypeOK /\ RowsAndKeys => OneSigner
<1> SUFFICES ASSUME TypeOK, RowsAndKeys PROVE OneSigner
  OBVIOUS
<1>1. DOMAIN chain = 1..Len(chain)
  BY LenProperties DEF TypeOK
<1>2. \A i \in 1..Len(chain) : chain[i].key_id = chain[1].key_id
  BY DEF RowsAndKeys, StoreRows
<1> QED  BY <1>1, <1>2 DEF OneSigner

\* One key signs the whole chain, also when runners with different keys start
\* on an empty log (_verify_checkpoint and the compare-and-set).
THEOREM OneKeySigns == Spec => []OneSigner
  BY RowsOneSigner, TypeCorrect, RowsHold, PTL

\* A runner fails (CorruptError or InvalidError out of run) only if the chain
\* is signed with another key than its own.
THEOREM OnlyForeignKeysFail == Spec => []OnlyForeignKeyFails
<1>1. RowsAndKeys => OnlyForeignKeyFails
  BY DEF RowsAndKeys, HandRows, OnlyForeignKeyFails
<1> QED  BY <1>1, RowsHold, PTL

-----------------------------------------------------------------------------
(***************************************************************************)
(* The refinement.  LogOf(entries) is the log CheckpointChain sees.        *)
(***************************************************************************)
LogOf(e) == [i \in DOMAIN e |-> e[i].value]

\* The values of a log of entries, and of the log with one entry more.
LEMMA LogFacts ==
    ASSUME NEW e \in Seq(Entry)
    PROVE  /\ LogOf(e) \in Seq(Value)
           /\ Len(LogOf(e)) = Len(e)
           /\ \A i \in 1..Len(e) : LogOf(e)[i] = e[i].value
           /\ \A x \in Entry : LogOf(Append(e, x)) = Append(LogOf(e), x.value)
<1>1. Len(e) \in Nat /\ DOMAIN e = 1..Len(e) /\ \A i \in 1..Len(e) : e[i] \in Entry
  BY LenProperties, ElementOfSeq
<1>2. \A i \in 1..Len(e) : e[i].value \in Value
  BY <1>1 DEF Entry
<1>3. LogOf(e) \in [1..Len(e) -> Value]
  BY <1>1, <1>2 DEF LogOf
<1>4. LogOf(e) \in Seq(Value) /\ Len(LogOf(e)) = Len(e)
  <2>1. LogOf(e) \in Seq(Value)
    BY <1>1, <1>3, SeqDef
  <2> QED  BY <1>1, <1>3, <2>1, LenProperties
<1>5. \A i \in 1..Len(e) : LogOf(e)[i] = e[i].value
  BY <1>1 DEF LogOf
<1>6. ASSUME NEW x \in Entry PROVE LogOf(Append(e, x)) = Append(LogOf(e), x.value)
  <2> DEFINE a == Append(e, x)
             b == Append(LogOf(e), x.value)
  <2>1. x.value \in Value
    BY DEF Entry
  <2>2. /\ DOMAIN a = 1..(Len(e) + 1) /\ a[Len(e) + 1] = x
        /\ \A i \in 1..Len(e) : a[i] = e[i]
    BY <1>1, AppendProperties
  <2>3. /\ b \in Seq(Value) /\ DOMAIN b = 1..(Len(e) + 1) /\ b[Len(e) + 1] = x.value
        /\ \A i \in 1..Len(e) : b[i] = LogOf(e)[i]
    BY <1>4, <2>1, AppendProperties, LenProperties
  <2> HIDE DEF a, b
  <2>4. \A i \in 1..(Len(e) + 1) : a[i].value = b[i]
    BY <1>1, <1>5, <2>2, <2>3
  <2>5. b = [i \in DOMAIN b |-> b[i]]
    BY <2>3, LenProperties
  <2>6. LogOf(a) = b
    BY <2>2, <2>3, <2>4, <2>5 DEF LogOf
  <2> QED  BY <2>6 DEF a, b
<1> QED  BY <1>4, <1>5, <1>6

\* An append is a Grow, or nothing when the value is known or the log full.
LEMMA AppendRefines ==
    ASSUME TypeOK, AppendStep
    PROVE  [Abstract!ChainNext]_(Abstract!chainVars)
<1>1. PICK v \in Value, t \in 0..(MaxTime - CadenceAge) : AppendEntry(v, t)
  BY DEF AppendStep
<1>2. cll' = cll /\ chain' = chain
  BY <1>1 DEF AppendStep, AppendEntry, runnerVars
<1>3. CASE entries' = entries
  BY <1>2, <1>3 DEF Abstract!chainVars
<1>4. CASE entries' # entries
  <2> DEFINE x == [value |-> v, appended_at |-> t]
  <2>1. x \in Entry /\ x.value = v
    BY ClockAssumption, RunnerAssumption DEF Entry
  <2>2. /\ entries' = Append(entries, x)
        /\ \A i \in DOMAIN entries : entries[i].value # v
    BY <1>1, <1>4 DEF AppendEntry
  <2>3. entries \in Seq(Entry) /\ DOMAIN entries = 1..Len(entries)
    BY LenProperties DEF TypeOK
  <2> HIDE DEF x
  <2>4. LogOf(entries)' = Append(LogOf(entries), v)
    BY <2>1, <2>2, <2>3, LogFacts DEF LogOf
  <2>5. \A i \in DOMAIN LogOf(entries) : LogOf(entries)[i] # v
    BY <2>2 DEF LogOf
  <2>6. Abstract!Grow
    BY <1>2, <2>4, <2>5 DEF Abstract!Grow, LogOf
  <2> QED  BY <2>6 DEF Abstract!ChainNext
<1> QED  BY <1>3, <1>4

\* A commit is an Index when it adds leaves only, a Seal when it adds a
\* checkpoint: one over the whole index, linked to the last one.
LEMMA CommitRefines ==
    ASSUME TypeOK, Inductive, RowsAndKeys, NEW r \in Runner, CommitOk(r)
    PROVE  [Abstract!ChainNext]_(Abstract!chainVars)
<1> DEFINE v == view[r]
           n == next[r]
           log == LogOf(entries)
<1>1. /\ IsCllState(v) /\ IsCllState(n) /\ IsCllState(cll) /\ entries \in Seq(Entry)
      /\ SoundOver(n, entries) /\ Advances(v, n, entries)
      /\ Len(cll.nodes) = Len(v.nodes) /\ v.checkpoint = cll.checkpoint
      /\ entries' = entries
  BY DEF CommitOk, TypeOK, Inductive, HandSound, RunnerCommitError, CommitCllError, Expected
<1>2. cll'.nodes = n.nodes
  BY <1>1, ApplyFacts DEF CommitOk
<1>3. log \in Seq(Value) /\ Len(log) = Len(entries)
      /\ \A i \in 1..Len(entries) : log[i] = entries[i].value
  BY <1>1, LogFacts
<1>4. log' = log
  BY <1>1 DEF LogOf
<1> HIDE DEF v, n, log
<1>5. /\ Len(v.nodes) \in Nat /\ Len(n.nodes) \in Nat /\ Len(entries) \in Nat
      /\ Len(v.nodes) <= Len(n.nodes) /\ Len(n.nodes) <= Len(entries)
  BY <1>1, LenProperties DEF IsCllState, Advances, Prefix, SoundOver
<1>6. Len(cll'.nodes) = Len(n.nodes)
  BY <1>2
<1>7. CASE chain' = chain
  <2>1. CASE Len(n.nodes) = Len(cll.nodes)
    BY <1>4, <1>6, <1>7, <2>1 DEF Abstract!chainVars, log, LogOf
  <2>2. CASE Len(n.nodes) # Len(cll.nodes)
    <3>1. Len(cll'.nodes) \in (Len(cll.nodes) + 1)..Len(log)
      BY <1>1, <1>3, <1>5, <1>6, <2>2
    <3>2. Abstract!Index
      BY <1>4, <1>7, <3>1 DEF Abstract!Index, log, LogOf
    <3> QED  BY <3>2 DEF Abstract!ChainNext
  <2> QED  BY <2>1, <2>2
<1>8. CASE Seals(r, v, n) /\ chain' = Append(chain, n.checkpoint)
  <2> DEFINE cp == n.checkpoint
             m == Len(cll'.nodes)
  <2>1. /\ cp \in Checkpoint /\ cll.checkpoint \in Checkpoint /\ KeyOf[r] \in Key
    BY <1>1, RunnerAssumption DEF IsCllState
  <2>2. cp.size \in Nat /\ cll.checkpoint.size \in Nat /\ cp.root \in Seq(Value)
    BY <2>1 DEF Checkpoint
  <2>3. cp.size = m /\ cp.key_id = KeyOf[r] /\ cp.issued_at \in 0..MaxTime
    BY <1>6, <1>8 DEF Seals
  <2>4. Follows(cp, cll.checkpoint, entries)
    <3>1. cp # v.checkpoint
      BY <1>1, <1>8, <2>2 DEF Seals
    <3> QED  BY <1>1, <3>1 DEF Advances
  <2>5. /\ Abstract!LastSize = cll.checkpoint.size
        /\ Abstract!LastRoot = cll.checkpoint.root
    <3>1. chain = <<>> => cll.checkpoint = NoCheckpoint
      BY LastFacts
    <3>2. chain # <<>> => cll.checkpoint = chain[Len(chain)]
      BY LastFacts
    <3> QED  BY <3>1, <3>2 DEF Abstract!LastSize, Abstract!LastRoot, NoCheckpoint
  <2>6. cp.root = SubSeq(log, 1, m)
    <3> DEFINE s == SubSeq(log, 1, m)
    <3>1. m \in Nat /\ m <= Len(log) /\ m > 0
      BY <1>3, <1>5, <1>6, <2>2, <2>3, <2>4 DEF Follows
    <3> HIDE DEF m
    <3>2. \A i \in 1..m : log[i] \in Value
      BY <1>3, <3>1, ElementOfSeq
    <3>3. /\ s \in Seq(Value) /\ Len(s) = m /\ \A i \in 1..m : s[i] = log[i]
      BY <3>1, <3>2, SubSeqProperties
    <3>4. Len(cp.root) = m /\ \A i \in 1..m : cp.root[i] = log[i]
      BY <1>3, <1>5, <2>3, <2>4, <3>1 DEF Follows
    <3> HIDE DEF s
    <3>5. cp.root = s
      BY <2>2, <3>3, <3>4, SeqEqual
    <3> QED  BY <3>5 DEF s
  <2>7. cp = [size |-> m, root |-> SubSeq(log, 1, m),
              prev_size |-> Abstract!LastSize, prev_root |-> Abstract!LastRoot,
              key_id |-> cp.key_id, issued_at |-> cp.issued_at]
    BY <2>1, <2>3, <2>4, <2>5, <2>6 DEF Checkpoint, Follows
  <2>8. m \in Len(cll.nodes)..Len(log) /\ m > Abstract!LastSize
    BY <1>1, <1>3, <1>5, <1>6, <2>2, <2>3, <2>4, <2>5 DEF Follows
  <2>9. Abstract!Seal
    <3>1. \E k \in Key, t \in 0..MaxTime :
             chain' = Append(chain, [size |-> m, root |-> SubSeq(log, 1, m),
                        prev_size |-> Abstract!LastSize, prev_root |-> Abstract!LastRoot,
                        key_id |-> k, issued_at |-> t])
      BY <1>8, <2>1, <2>3, <2>7
    <3> QED  BY <1>4, <2>8, <3>1 DEF Abstract!Seal, log, LogOf
  <2> QED  BY <2>9 DEF Abstract!ChainNext
<1> QED  BY <1>7, <1>8, CommittedChain DEF v, n

\* An initial state is one of the abstract chain ...
LEMMA InitRefines == Init => Abstract!ChainInit
<1> SUFFICES ASSUME Init PROVE Abstract!ChainInit
  OBVIOUS
<1>1. entries = <<>> /\ chain = <<>> /\ Len(cll.nodes) = 0
  BY EmptySeq DEF Init, StoreInit, EmptyState
<1>2. LogOf(<<>>) = <<>>
  <2>1. DOMAIN <<>> = {}
    OBVIOUS
  <2> QED  BY <2>1 DEF LogOf
<1> QED  BY <1>1, <1>2 DEF Abstract!ChainInit, LogOf

\* ... and every step is one of its steps or invisible.
LEMMA StepRefines ==
    TypeOK /\ Inductive /\ RowsAndKeys /\ [Next]_vars
        => [Abstract!ChainNext]_(Abstract!chainVars)
<1> SUFFICES ASSUME TypeOK, Inductive, RowsAndKeys, [Next]_vars
             PROVE  [Abstract!ChainNext]_(Abstract!chainVars)
  OBVIOUS
<1>1. CASE UNCHANGED <<entries, cll, chain>>
  BY <1>1 DEF Abstract!chainVars
<1>2. CASE AppendStep
  BY <1>2, AppendRefines
<1>3. ASSUME NEW r \in Runner, CommitOk(r)
      PROVE  [Abstract!ChainNext]_(Abstract!chainVars)
  BY <1>3, CommitRefines
<1>4. ASSUME NEW r \in Runner,
             Notify(r) \/ Woken(r) \/ Poll(r) \/ Begin(r) \/ Load(r) \/ Scan(r)
                       \/ CommitFails(r) \/ Crash(r)
      PROVE  UNCHANGED <<entries, cll, chain>>
  BY <1>4 DEF Notify, Woken, Poll, Begin, Load, Scan, CommitFails, Crash
<1>5. Tick \/ UNCHANGED vars => UNCHANGED <<entries, cll, chain>>
  BY DEF Tick, ClockTicks, vars, runnerVars, storeVars
<1> QED  BY <1>1, <1>2, <1>3, <1>4, <1>5 DEF Next, RunnerStep

\* The runners together implement the abstract chain (CheckpointChain): an
\* append is a Grow, a successful commit an Index or a Seal, and everything
\* else a runner, the host, the clock or a crash does is invisible.
THEOREM RunnersImplementChain == Spec => ImplementsChain
  BY InitRefines, StepRefines, TypeCorrect, InductiveHolds, RowsHold, PTL
  DEF Spec, ImplementsChain, Abstract!Spec
=============================================================================
