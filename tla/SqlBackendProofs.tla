--------------------------- MODULE SqlBackendProofs ---------------------------
(***************************************************************************)
(* Proofs about SqlBackend, for any number of handles, values, witnesses   *)
(* and faults, and for either dialect.                                     *)
(***************************************************************************)
EXTENDS SqlBackend, FiniteSetTheorems, SequenceTheorems, TLAPS

(***************************************************************************)
(* The inductive invariant.  The tables of any one moment are sound; a     *)
(* read view holds the tables of one moment; and what a transaction has    *)
(* read under its lock still describes the tables, except for the contents *)
(* of witness rows, which commit_witness changes under no common lock.     *)
(***************************************************************************)
IsState(s) ==
    /\ s = [nodes |-> s.nodes, first_pending_at |-> s.first_pending_at,
            checkpoint |-> s.checkpoint, witnesses |-> s.witnesses]
    /\ s.nodes \in Seq(Value)
    /\ s.checkpoint.size \in Nat
    /\ s.witnesses = [k \in DOMAIN s.witnesses |-> s.witnesses[k]]

StateOk(s) ==
    /\ IsState(s) /\ ValidState(s)
    /\ \A k \in DOMAIN s.witnesses : k[2] \in Nat /\ k[2] <= s.checkpoint.size

\* Every row of s is one of c, for the same checkpoint.
RowsKnown(s, c) ==
    /\ DOMAIN s.witnesses \subseteq DOMAIN c.witnesses
    /\ \A k \in DOMAIN s.witnesses : c.witnesses[k].checkpoint = s.witnesses[k].checkpoint

\* s and c differ in the contents of rows at most.
SameIndex(s, c) ==
    /\ s.nodes = c.nodes
    /\ s.first_pending_at = c.first_pending_at
    /\ s.checkpoint = c.checkpoint
    /\ DOMAIN s.witnesses = DOMAIN c.witnesses
    /\ RowsKnown(s, c)

Distinct(es) ==
    \A i \in 1..Len(es) : \A j \in 1..Len(es) : es[i].value = es[j].value => i = j

TablesSound ==
    /\ entries \in Seq(Entry) /\ Distinct(entries)
    /\ StateOk(cll)
    /\ \A a \in acked : a[1] \in 1..Len(entries) /\ entries[a[1]].value = a[2]

IsTxn(t) ==
    t = [op |-> t.op, arg |-> t.arg, at |-> t.at, view |-> t.view, seen |-> t.seen,
         writes |-> t.writes]

PlaceOk(t) ==
    \/ t.op = "none" /\ t = Idle
    \/ t.op = "load" /\ t.at \in {"read", "nodes", "rows", "apply"}
    \/ t.op = "append" /\ t.at \in {"lock", "read", "commit"}
    \/ t.op = "commit_cll" /\ t.at \in {"lock", "read", "nodes", "rows", "apply", "commit"}
    \/ t.op = "commit_witness" /\ t.at \in {"read", "update", "commit"}

\* append and commit_cll exclude each other from their first read on.
Locking(t) == t.op \in {"append", "commit_cll"} /\ t.at # "lock"

ViewSound(t) ==
    /\ t.at = "lock" => t.view = {}
    /\ \A v \in t.view :
          /\ t.view = {v}
          /\ StateOk(v.cll) /\ RowsKnown(v.cll, cll)
          /\ t.op = "append" => v.entries = entries
          /\ t.op = "commit_cll" => SameIndex(v.cll, cll)

ArgSound(t) ==
    /\ t.op = "append" => t.arg \in Entry
    /\ t.op = "commit_cll" => StateOk(t.arg.next)
    /\ t.op = "commit_witness" =>
          /\ t.arg.key \in DOMAIN cll.witnesses
          /\ t.arg.next.checkpoint = cll.witnesses[t.arg.key].checkpoint

\* Where load_state reads from.
Source(t) == IF t.op = "load" THEN ViewOf(t).cll ELSE cll

SeenSound(t) ==
    /\ t.op = "load" /\ t.at \in {"nodes", "rows", "apply"} => t.view # {}
    /\ t.at \in {"nodes", "rows", "apply"} => t.seen.meta = MetaOf(Source(t))
    /\ t.at \in {"rows", "apply"} => t.seen.nodes = Source(t).nodes
    /\ t.at = "apply" =>
          /\ StateOk(StateOf(t.seen)) /\ RowsKnown(StateOf(t.seen), cll)
          /\ t.op = "commit_cll" => SameIndex(StateOf(t.seen), cll)

WriteSound(t) ==
    /\ t.op = "append" /\ t.at = "commit" =>
          \/ /\ t.writes.entry = None
             /\ t.writes.seq \in 1..Len(entries)
             /\ entries[t.writes.seq].value = t.arg.value
          \/ /\ t.writes.entry = t.arg
             /\ t.writes.seq = Len(entries) + 1
             /\ t.writes.seq <= MaxSeq
             /\ FoundIn(entries, t.arg.value) = {}
    /\ t.op = "commit_cll" /\ t.at = "commit" =>
          /\ CommitCllError(cll, t.arg.size, t.arg.checkpoint, t.arg.next) = "none"
          /\ t.writes.meta = MetaOf(t.arg.next)
          /\ t.writes.nodes =
                SubSeq(t.arg.next.nodes, Len(cll.nodes) + 1, Len(t.arg.next.nodes))
          /\ t.writes.rows =
                [k \in DOMAIN t.arg.next.witnesses \ DOMAIN cll.witnesses |->
                    t.arg.next.witnesses[k]]
    /\ t.op = "commit_witness" /\ t.at \in {"update", "commit"} =>
          ValidWitness(t.arg.key, t.arg.next)
    /\ t.op = "commit_witness" /\ t.at = "commit" =>
          /\ t.writes = [key |-> t.arg.key, row |-> t.arg.next]
          /\ cll.witnesses[t.arg.key].attempts = t.arg.attempts

Carries(t) == ViewSound(t) /\ ArgSound(t) /\ SeenSound(t) /\ WriteSound(t)

TxnSound(h) ==
    /\ IsTxn(txn[h]) /\ PlaceOk(txn[h])
    /\ txn[h].op # "none" => status[h] = "open"
    /\ Locking(txn[h]) => writer = h
    /\ Carries(txn[h])

\* Two transactions that have both updated a row have updated two rows.
RowLocks ==
    \A g \in Handle : \A h \in Handle :
        (/\ g # h
         /\ txn[g].op = "commit_witness" /\ txn[g].at = "commit"
         /\ txn[h].op = "commit_witness" /\ txn[h].at = "commit")
        => txn[g].arg.key # txn[h].arg.key

LoadedSound(h) ==
    loaded[h] = None \/ (StateOk(loaded[h]) /\ RowsKnown(loaded[h], cll))

HandlesSound ==
    /\ DOMAIN txn = Handle /\ DOMAIN status = Handle /\ DOMAIN loaded = Handle
    /\ ~provisioned => cll = EmptyState /\ \A h \in Handle : status[h] # "open"

SqlInductive ==
    /\ TablesSound /\ HandlesSound /\ RowLocks
    /\ \A h \in Handle : TxnSound(h) /\ LoadedSound(h)

-----------------------------------------------------------------------------
(***************************************************************************)
(* Facts about states.                                                     *)
(***************************************************************************)

\* The relations between states compose.
LEMMA KnownTrans ==
    ASSUME NEW a, NEW b, NEW c, RowsKnown(a, b), RowsKnown(b, c)
    PROVE  RowsKnown(a, c)
  BY DEF RowsKnown

\* So does equality up to the contents of rows.
LEMMA SameTrans ==
    ASSUME NEW a, NEW b, NEW c, SameIndex(a, b), SameIndex(b, c)
    PROVE  SameIndex(a, c)
  BY KnownTrans DEF SameIndex

\* Both relations are reflexive.
LEMMA SameSelf ==
    ASSUME NEW s
    PROVE  SameIndex(s, s) /\ RowsKnown(s, s)
  BY DEF SameIndex, RowsKnown

\* apply_cll looks at nothing of the stored state that commit_witness changes.
LEMMA SameErrors ==
    ASSUME NEW a, NEW b, SameIndex(a, b), NEW size, NEW cp, NEW n
    PROVE  CommitCllError(a, size, cp, n) = CommitCllError(b, size, cp, n)
<1>1. Expected(a, size, cp) <=> Expected(b, size, cp)
  BY DEF SameIndex, Expected
<1>2. Extends(a, n) <=> Extends(b, n)
  BY DEF SameIndex, Extends
<1>3. CheckpointForward(a, n) <=> CheckpointForward(b, n)
  BY DEF SameIndex, CheckpointForward
<1>4. SameWitnessCheckpoints(a, n) <=> SameWitnessCheckpoints(b, n)
  BY DEF SameIndex, RowsKnown, SameWitnessCheckpoints
<1> QED  BY <1>1, <1>2, <1>3, <1>4 DEF CommitCllError

\* The empty tables are sound.
LEMMA EmptyOk == StateOk(EmptyState)
<1>1. EmptyState.nodes \in Seq(Value)
  BY EmptySeq DEF EmptyState
<1>2. DOMAIN NoRows = {} /\ NoRows = [k \in DOMAIN NoRows |-> NoRows[k]]
  BY DEF NoRows
<1> QED  BY <1>1, <1>2 DEF StateOk, IsState, ValidState, EmptyState, NoCheckpoint

\* What a runner commits over sound tables is sound.
LEMMA NextOk ==
    ASSUME NEW s, StateOk(s), entries \in Seq(Entry), NEW n \in NextStates(s)
    PROVE  StateOk(n)
<1> DEFINE m == Len(s.nodes) + 1
           nodes == Append(s.nodes, entries[m].value)
           cp == [size |-> m, root |-> nodes, prev_size |-> s.checkpoint.size,
                  prev_root |-> s.checkpoint.root,
                  key_id |-> CHOOSE k \in Key : TRUE, issued_at |-> 0]
           row == [checkpoint |-> cp, attempts |-> 0, next_attempt_at |-> 0,
                   receipt |-> FALSE, permanent |-> FALSE]
           new == {<<w, m>> : w \in Witness}
           rows == [k \in DOMAIN s.witnesses \cup new |->
                      IF k \in DOMAIN s.witnesses THEN s.witnesses[k] ELSE row]
           fpa == IF s.first_pending_at = None
                  THEN entries[m].appended_at ELSE s.first_pending_at
<1>1. /\ m <= Len(entries)
      /\ \/ n = [nodes |-> nodes, first_pending_at |-> fpa,
                 checkpoint |-> s.checkpoint, witnesses |-> s.witnesses]
         \/ n = [nodes |-> nodes, first_pending_at |-> None, checkpoint |-> cp,
                 witnesses |-> rows]
  <2>1. /\ ~(m > Len(entries))
        /\ n \in {[nodes |-> nodes, first_pending_at |-> fpa,
                   checkpoint |-> s.checkpoint, witnesses |-> s.witnesses],
                  [nodes |-> nodes, first_pending_at |-> None, checkpoint |-> cp,
                   witnesses |-> rows]}
    BY Zenon DEF NextStates
  <2>2. m \in Nat /\ Len(entries) \in Nat
    BY LenProperties DEF StateOk, IsState
  <2> QED  BY <2>1, <2>2
<1>2. /\ s.nodes \in Seq(Value) /\ Len(s.nodes) \in Nat /\ m \in Nat /\ Len(entries) \in Nat
  BY LenProperties DEF StateOk, IsState
<1>3. nodes \in Seq(Value) /\ Len(nodes) = m
  <2>1. m \in 1..Len(entries)
    BY <1>1, <1>2
  <2>2. entries[m] \in Entry
    BY <2>1, ElementOfSeq
  <2>3. entries[m].value \in Value
    BY <2>2 DEF Entry
  <2> QED  BY <1>2, <2>3, AppendProperties
<1>4. /\ s.checkpoint.size \in Nat
      /\ s.checkpoint = NoCheckpoint \/ s.checkpoint.size \in 1..Len(s.nodes)
      /\ s.witnesses = [k \in DOMAIN s.witnesses |-> s.witnesses[k]]
      /\ \A k \in DOMAIN s.witnesses :
            /\ k[2] \in Nat /\ k[2] <= s.checkpoint.size
            /\ ValidWitness(k, s.witnesses[k])
  BY DEF StateOk, IsState, ValidState
<1>5. s.checkpoint.size < m
  BY <1>2, <1>4 DEF NoCheckpoint
<1>6. cp.size = m /\ row.attempts = 0
  OBVIOUS
<1>7. \A k \in new : k[2] = m
  OBVIOUS
<1> HIDE DEF m, nodes, cp, row, new, fpa
<1>8. CASE n = [nodes |-> nodes, first_pending_at |-> fpa,
                checkpoint |-> s.checkpoint, witnesses |-> s.witnesses]
  <2>1. IsState(n)
    BY <1>3, <1>4, <1>8 DEF IsState
  <2>2. s.checkpoint = NoCheckpoint \/ s.checkpoint.size \in 1..m
    BY <1>2, <1>4, <1>5
  <2>3. ValidState(n)
    BY <1>3, <1>4, <1>8, <2>2 DEF ValidState
  <2> QED  BY <1>4, <1>8, <2>1, <2>3 DEF StateOk
<1>9. CASE n = [nodes |-> nodes, first_pending_at |-> None, checkpoint |-> cp,
                witnesses |-> rows]
  <2>1. DOMAIN rows = DOMAIN s.witnesses \cup new /\ rows = [k \in DOMAIN rows |-> rows[k]]
    OBVIOUS
  <2>2. ASSUME NEW k \in DOMAIN rows
        PROVE  k[2] \in Nat /\ k[2] <= m /\ ValidWitness(k, rows[k])
    <3>1. CASE k \in DOMAIN s.witnesses
      <4>1. rows[k] = s.witnesses[k]
        BY <2>1, <3>1
      <4> QED  BY <1>2, <1>4, <1>5, <3>1, <4>1
    <3>2. CASE k \notin DOMAIN s.witnesses
      <4>1. rows[k] = row /\ k[2] = m
        BY <1>7, <2>1, <3>2
      <4>2. m > 0 /\ 0 \in 0..MaxAttempts
        BY <1>2, EngineAssumption DEF m
      <4> QED  BY <1>2, <1>6, <4>1, <4>2 DEF ValidWitness
    <3> QED  BY <3>1, <3>2
  <2> HIDE DEF rows
  <2>3. IsState(n)
    BY <1>2, <1>3, <1>6, <1>9, <2>1 DEF IsState
  <2>4. m \in 1..m
    BY <1>2 DEF m
  <2>5. ValidState(n)
    BY <1>3, <1>6, <1>9, <2>2, <2>4 DEF ValidState
  <2> QED  BY <1>6, <1>9, <2>2, <2>3, <2>5 DEF StateOk
<1> QED  BY <1>1, <1>8, <1>9

\* What apply_cll returns.
LEMMA ApplyOk ==
    ASSUME NEW c, NEW n, StateOk(c), StateOk(n), NEW size, NEW cp,
           CommitCllError(c, size, cp, n) = "none"
    PROVE  /\ StateOk(ApplyCll(c, n)) /\ RowsKnown(c, ApplyCll(c, n))
           /\ Prefix(c.nodes, n.nodes)
           /\ ApplyCll(c, n) =
                 [nodes |-> n.nodes, first_pending_at |-> n.first_pending_at,
                  checkpoint |-> n.checkpoint, witnesses |-> MergeWitnesses(c, n)]
<1> DEFINE r == MergeWitnesses(c, n)
           a == [nodes |-> n.nodes, first_pending_at |-> n.first_pending_at,
                 checkpoint |-> n.checkpoint, witnesses |-> r]
<1>1. Extends(c, n) /\ CheckpointForward(c, n)
  BY DEF CommitCllError
<1>2. ApplyCll(c, n) = a
  BY DEF ApplyCll, StateOk, IsState
<1>3. /\ DOMAIN r = DOMAIN c.witnesses \cup DOMAIN n.witnesses
      /\ r = [k \in DOMAIN r |-> r[k]]
      /\ \A k \in DOMAIN c.witnesses : r[k] = c.witnesses[k]
      /\ \A k \in DOMAIN n.witnesses : k \notin DOMAIN c.witnesses => r[k] = n.witnesses[k]
  BY DEF MergeWitnesses
<1>4. /\ n.nodes \in Seq(Value) /\ n.checkpoint.size \in Nat /\ c.checkpoint.size \in Nat
      /\ n.checkpoint = NoCheckpoint \/ n.checkpoint.size \in 1..Len(n.nodes)
  BY DEF StateOk, IsState, ValidState
<1>5. c.checkpoint.size <= n.checkpoint.size
  BY <1>1, <1>4 DEF CheckpointForward
<1>6. ASSUME NEW k \in DOMAIN r
      PROVE  k[2] \in Nat /\ k[2] <= n.checkpoint.size /\ ValidWitness(k, r[k])
  <2>1. CASE k \in DOMAIN c.witnesses
    <3>1. /\ k[2] \in Nat /\ k[2] <= c.checkpoint.size
          /\ ValidWitness(k, c.witnesses[k]) /\ r[k] = c.witnesses[k]
      BY <1>3, <2>1 DEF StateOk, ValidState
    <3> QED  BY <1>4, <1>5, <3>1
  <2>2. CASE k \notin DOMAIN c.witnesses
    BY <1>3, <2>2 DEF StateOk, ValidState
  <2> QED  BY <2>1, <2>2
<1> HIDE DEF r
<1>7. IsState(a)
  BY <1>3, <1>4 DEF IsState
<1>8. ValidState(a)
  BY <1>4, <1>6 DEF ValidState
<1>9. StateOk(a)
  BY <1>6, <1>7, <1>8 DEF StateOk
<1>10. RowsKnown(c, a)
  BY <1>3 DEF RowsKnown
<1> QED  BY <1>1, <1>2, <1>9, <1>10 DEF Extends, r

\* commit_cll inserts the nodes the table does not have.
LEMMA InsertedNodes ==
    ASSUME NEW a \in Seq(Value), NEW b \in Seq(Value), Prefix(a, b)
    PROVE  a \o SubSeq(b, Len(a) + 1, Len(b)) = b
<1> DEFINE m == Len(a)
           n == Len(b)
           c == SubSeq(b, m + 1, n)
<1>1. m \in Nat /\ n \in Nat /\ m <= n /\ \A i \in 1..m : a[i] = b[i]
  BY LenProperties DEF Prefix
<1>2. \A i \in (m + 1)..n : b[i] \in Value
  <2>1. \A i \in (m + 1)..n : i \in 1..n
    BY <1>1
  <2> QED  BY <2>1, ElementOfSeq
<1> HIDE DEF m, n
<1>3. /\ c \in Seq(Value)
      /\ Len(c) = IF m + 1 <= n THEN n - (m + 1) + 1 ELSE 0
      /\ \A i \in 1..(n - (m + 1) + 1) : c[i] = b[m + 1 + i - 1]
  <2>1. PICK q : q = m + 1
    OBVIOUS
  <2>2. q \in Int /\ n \in Int /\ \A i \in q..n : b[i] \in Value
    BY <1>1, <1>2, <2>1
  <2>3. /\ SubSeq(b, q, n) \in Seq(Value)
        /\ Len(SubSeq(b, q, n)) = IF q <= n THEN n - q + 1 ELSE 0
        /\ \A i \in 1..(n - q + 1) : SubSeq(b, q, n)[i] = b[q + i - 1]
    BY <2>2, SubSeqProperties
  <2> QED  BY <2>1, <2>3
<1>4. Len(c) = n - m /\ \A i \in 1..(n - m) : c[i] = b[m + i]
  BY <1>1, <1>3
<1> HIDE DEF c
<1>5. /\ a \o c \in Seq(Value) /\ Len(a \o c) = Len(a) + Len(c)
      /\ \A i \in 1..(Len(a) + Len(c)) :
            (a \o c)[i] = IF i <= Len(a) THEN a[i] ELSE c[i - Len(a)]
  BY <1>3, ConcatProperties
<1>6. Len(a \o c) = n
  BY <1>1, <1>4, <1>5 DEF m
<1>7. ASSUME NEW i \in 1..n PROVE (a \o c)[i] = b[i]
  <2>1. CASE i <= m
    BY <1>1, <1>4, <1>5, <2>1 DEF m
  <2>2. CASE ~(i <= m)
    <3>1. i - m \in 1..(n - m) /\ m + (i - m) = i
      BY <1>1, <2>2
    <3>2. c[i - m] = b[i]
      BY <1>4, <3>1
    <3>3. i \in 1..(Len(a) + Len(c))
      BY <1>5, <1>6
    <3> QED  BY <1>5, <2>2, <3>2, <3>3 DEF m
  <2> QED  BY <2>1, <2>2
<1> QED  BY <1>5, <1>6, <1>7, SeqEqual DEF m, n, c

-----------------------------------------------------------------------------
(***************************************************************************)
(* Facts about transactions.                                               *)
(***************************************************************************)

\* A consistent read sees the tables of one moment, and a transaction with
\* the lock sees the tables as they are, but for the contents of rows.
LEMMA ViewFacts ==
    ASSUME StateOk(cll), NEW t, ViewSound(t)
    PROVE  /\ StateOk(ViewOf(t).cll) /\ RowsKnown(ViewOf(t).cll, cll)
           /\ t.op = "append" => ViewOf(t).entries = entries
           /\ t.op = "commit_cll" => SameIndex(ViewOf(t).cll, cll)
           /\ t.view # {} => t.view = {ViewOf(t)}
<1>1. CASE t.view = {}
  BY <1>1, SameSelf DEF ViewOf, Tables
<1>2. CASE t.view # {}
  <2>1. ViewOf(t) \in t.view
    BY <1>2 DEF ViewOf
  <2> QED  BY <1>2, <2>1 DEF ViewSound
<1> QED  BY <1>1, <1>2

\* What a transaction carries stays sound while others change the tables, as
\* long as its locks are respected.
LEMMA CarriesKept ==
    ASSUME StateOk(cll), NEW t, PlaceOk(t), Carries(t),
           RowsKnown(cll, cll'),
           Locking(t) => entries' = entries /\ SameIndex(cll, cll'),
           t.op = "commit_witness" /\ t.at = "commit" =>
              cll'.witnesses[t.arg.key].attempts = cll.witnesses[t.arg.key].attempts
    PROVE  Carries(t)'
<1>1. ViewSound(t)'
  <2>1. ASSUME NEW v \in t.view
        PROVE  /\ t.view = {v} /\ StateOk(v.cll) /\ RowsKnown(v.cll, cll')
               /\ t.op = "append" => v.entries = entries'
               /\ t.op = "commit_cll" => SameIndex(v.cll, cll')
    <3>1. t.at # "lock" /\ t.view = {v} /\ StateOk(v.cll) /\ RowsKnown(v.cll, cll)
      BY DEF Carries, ViewSound
    <3>2. RowsKnown(v.cll, cll')
      BY <3>1, KnownTrans
    <3>3. t.op = "append" => v.entries = entries'
      BY <3>1 DEF Carries, ViewSound, Locking
    <3>4. t.op = "commit_cll" => SameIndex(v.cll, cll')
      BY <3>1, SameTrans DEF Carries, ViewSound, Locking
    <3> QED  BY <3>1, <3>2, <3>3, <3>4
  <2> QED  BY <2>1 DEF ViewSound, Carries
<1>2. ArgSound(t)'
  <2>1. t.op = "commit_witness" =>
           /\ t.arg.key \in DOMAIN cll'.witnesses
           /\ t.arg.next.checkpoint = cll'.witnesses[t.arg.key].checkpoint
    BY DEF Carries, ArgSound, RowsKnown
  <2> QED  BY <2>1 DEF Carries, ArgSound
<1>3. SeenSound(t)'
  <2>1. CASE t.op = "load" /\ t.view # {}
    <3>1. Source(t)' = Source(t)
      BY <2>1 DEF Source, ViewOf
    <3>2. t.at = "apply" => RowsKnown(StateOf(t.seen), cll')
      BY KnownTrans DEF Carries, SeenSound
    <3> QED  BY <2>1, <3>1, <3>2 DEF Carries, SeenSound
  <2>2. CASE t.op = "load" /\ t.view = {}
    <3>1. t.at \notin {"nodes", "rows", "apply"}
      BY <2>2 DEF Carries, SeenSound
    <3> QED  BY <3>1 DEF SeenSound
  <2>3. CASE t.op = "commit_cll" /\ t.at # "lock"
    <3>1. SameIndex(cll, cll')
      BY <2>3 DEF Locking
    <3>2. MetaOf(cll') = MetaOf(cll) /\ cll'.nodes = cll.nodes
      BY <3>1 DEF SameIndex, MetaOf
    <3>3. Source(t) = cll /\ Source(t)' = cll'
      BY <2>3 DEF Source
    <3>4. t.at = "apply" => SameIndex(StateOf(t.seen), cll')
      BY <2>3, <3>1, SameTrans DEF Carries, SeenSound
    <3>5. t.at = "apply" => RowsKnown(StateOf(t.seen), cll')
      BY <3>4 DEF SameIndex
    <3> QED  BY <2>3, <3>2, <3>3, <3>4, <3>5 DEF Carries, SeenSound
  <2>4. CASE t.at \notin {"nodes", "rows", "apply"}
    BY <2>4 DEF SeenSound
  <2>5. t.at \in {"nodes", "rows", "apply"} => t.op \in {"load", "commit_cll"} /\ t.at # "lock"
    BY DEF PlaceOk, Idle, Fresh
  <2> QED  BY <2>1, <2>2, <2>3, <2>4, <2>5
<1>4. WriteSound(t)'
  <2>1. CASE t.op = "append" /\ t.at = "commit"
    <3>1. entries' = entries
      BY <2>1 DEF Locking
    <3> QED  BY <2>1, <3>1 DEF Carries, WriteSound
  <2>2. CASE t.op = "commit_cll" /\ t.at = "commit"
    <3>1. SameIndex(cll, cll')
      BY <2>2 DEF Locking
    <3>2. CommitCllError(cll', t.arg.size, t.arg.checkpoint, t.arg.next)
             = CommitCllError(cll, t.arg.size, t.arg.checkpoint, t.arg.next)
      BY <3>1, SameErrors
    <3>3. cll'.nodes = cll.nodes /\ DOMAIN cll'.witnesses = DOMAIN cll.witnesses
      BY <3>1 DEF SameIndex
    <3> QED  BY <2>2, <3>2, <3>3 DEF Carries, WriteSound
  <2>3. CASE t.op = "commit_witness"
    BY <2>3 DEF Carries, WriteSound
  <2>4. CASE /\ ~(t.op = "append" /\ t.at = "commit")
             /\ ~(t.op = "commit_cll" /\ t.at = "commit")
             /\ t.op # "commit_witness"
    BY <2>4 DEF WriteSound
  <2> QED  BY <2>1, <2>2, <2>3, <2>4
<1> QED  BY <1>1, <1>2, <1>3, <1>4 DEF Carries

\* A handle between operations carries nothing.
LEMMA IdleFacts ==
    IsTxn(Idle) /\ PlaceOk(Idle) /\ ~Locking(Idle) /\ Carries(Idle) /\ Idle.op = "none"
  BY DEF IsTxn, PlaceOk, Locking, Carries, ViewSound, ArgSound, SeenSound, WriteSound, Idle, Fresh

\* A step of one handle h that leaves the tables alone keeps the invariant if
\* what h executes next is sound.
LEMMA LocalStep ==
    ASSUME SqlInductive, NEW h \in Handle, NEW t, txn' = [txn EXCEPT ![h] = t],
           UNCHANGED <<entries, cll, provisioned, acked>>,
           writer' = writer \/ writer \in {None, h},
           DOMAIN status' = Handle, DOMAIN loaded' = Handle,
           \A g \in Handle \ {h} : status'[g] = status[g] /\ loaded'[g] = loaded[g],
           ~provisioned => status'[h] # "open",
           LoadedSound(h)',
           IsTxn(t), PlaceOk(t), t.op # "none" => status'[h] = "open",
           Locking(t) => writer' = h, Carries(t),
           t.op = "commit_witness" /\ t.at = "commit" =>
              \A g \in Handle \ {h} :
                 txn[g].op = "commit_witness" /\ txn[g].at = "commit" =>
                    txn[g].arg.key # t.arg.key
    PROVE  SqlInductive'
<1>1. /\ entries' = entries /\ cll' = cll /\ acked' = acked /\ provisioned' = provisioned
      /\ DOMAIN txn = Handle /\ DOMAIN txn' = Handle
  BY DEF SqlInductive, HandlesSound
<1>2. txn'[h] = t /\ \A g \in Handle \ {h} : txn'[g] = txn[g]
  BY <1>1
<1>3. TablesSound'
  BY <1>1 DEF SqlInductive, TablesSound, Distinct
<1>4. HandlesSound'
  <2>1. ~provisioned => \A g \in Handle : status'[g] # "open"
    BY DEF SqlInductive, HandlesSound
  <2> QED  BY <1>1, <2>1 DEF SqlInductive, HandlesSound
<1>5. RowLocks'
  BY <1>2 DEF SqlInductive, RowLocks
<1>6. ASSUME NEW c, Carries(c), PlaceOk(c) PROVE Carries(c)'
  <2>1. StateOk(cll) /\ RowsKnown(cll, cll') /\ SameIndex(cll, cll')
    BY <1>1, SameSelf DEF SqlInductive, TablesSound
  <2> QED  BY <1>1, <1>6, <2>1, CarriesKept
<1>7. TxnSound(h)'
  BY <1>2, <1>6 DEF TxnSound
<1>8. ASSUME NEW g \in Handle \ {h} PROVE TxnSound(g)' /\ LoadedSound(g)'
  <2>1. TxnSound(g) /\ LoadedSound(g)
    BY DEF SqlInductive
  <2>2. PICK c : c = txn[g]
    OBVIOUS
  <2>3. txn'[g] = c /\ status'[g] = status[g] /\ loaded'[g] = loaded[g]
    BY <1>2, <2>2
  <2>4. IsTxn(c) /\ PlaceOk(c) /\ Carries(c)'
    BY <1>6, <2>1, <2>2 DEF TxnSound
  <2>5. Locking(c) => writer' = g
    <3>1. Locking(c) => writer = g
      BY <2>1, <2>2 DEF TxnSound
    <3> QED  BY <3>1, SqlAssumption
  <2>6. c.op # "none" => status'[g] = "open"
    BY <2>1, <2>2, <2>3 DEF TxnSound
  <2>7. TxnSound(g)'
    BY <2>3, <2>4, <2>5, <2>6 DEF TxnSound
  <2>8. LoadedSound(g)'
    BY <1>1, <2>1, <2>3 DEF LoadedSound
  <2> QED  BY <2>7, <2>8
<1> QED  BY <1>3, <1>4, <1>5, <1>7, <1>8 DEF SqlInductive

\* A step that only changes what h executes.
LEMMA ContinueStep ==
    ASSUME SqlInductive, NEW h \in Handle, NEW t, Continues(h, t),
           IsTxn(t), PlaceOk(t), t.op # "none" => status[h] = "open",
           Locking(t) => writer = h, Carries(t),
           t.op = "commit_witness" /\ t.at = "commit" =>
              \A g \in Handle \ {h} :
                 txn[g].op = "commit_witness" /\ txn[g].at = "commit" =>
                    txn[g].arg.key # t.arg.key
    PROVE  SqlInductive'
<1>1. /\ txn' = [txn EXCEPT ![h] = t] /\ writer' = writer /\ status' = status
      /\ loaded' = loaded /\ UNCHANGED <<entries, cll, provisioned, acked>>
  BY DEF Continues
<1>2. /\ DOMAIN status' = Handle /\ DOMAIN loaded' = Handle
      /\ ~provisioned => status'[h] # "open"
  BY <1>1 DEF SqlInductive, HandlesSound
<1>3. LoadedSound(h)'
  BY <1>1 DEF SqlInductive, LoadedSound
<1> QED  BY <1>1, <1>2, <1>3, LocalStep

\* An operation that fails leaves everything as it was but its own locks.
LEMMA AbortStep ==
    ASSUME SqlInductive, NEW h \in Handle, Aborts(h)
    PROVE  SqlInductive'
<1>1. /\ txn' = [txn EXCEPT ![h] = Idle] /\ status' = status
      /\ writer' = writer \/ writer = h
      /\ loaded' = loaded /\ UNCHANGED <<entries, cll, provisioned, acked>>
  BY DEF Aborts, Rollback
<1>2. /\ DOMAIN status' = Handle /\ DOMAIN loaded' = Handle
      /\ ~provisioned => status'[h] # "open"
  BY <1>1 DEF SqlInductive, HandlesSound
<1>3. LoadedSound(h)'
  BY <1>1 DEF SqlInductive, LoadedSound
<1>4. PICK t : t = Idle /\ txn' = [txn EXCEPT ![h] = t]
  BY <1>1
<1>5. IsTxn(t) /\ PlaceOk(t) /\ ~Locking(t) /\ Carries(t) /\ t.op = "none"
  BY <1>4, IdleFacts, Zenon
<1>6. /\ writer' = writer \/ writer \in {None, h}
      /\ \A g \in Handle \ {h} : status'[g] = status[g] /\ loaded'[g] = loaded[g]
  BY <1>1
<1> QED  BY <1>1, <1>2, <1>3, <1>4, <1>5, <1>6, LocalStep

\* What a handle executes, in one place.
LEMMA TxnFacts ==
    ASSUME SqlInductive, NEW h \in Handle, NEW t, t = txn[h]
    PROVE  /\ IsTxn(t) /\ PlaceOk(t) /\ (t.op # "none" => status[h] = "open")
           /\ (Locking(t) => writer = h)
           /\ ViewSound(t) /\ ArgSound(t) /\ SeenSound(t) /\ WriteSound(t)
           /\ StateOk(cll) /\ entries \in Seq(Entry)
  BY DEF SqlInductive, TxnSound, Carries, TablesSound

\* An operation begins.
LEMMA BeginStep ==
    ASSUME SqlInductive, NEW h \in Handle,
           NEW op \in {"append", "load", "commit_cll", "commit_witness"}, NEW arg,
           Begin(h, op, arg), \A t : t.op = op /\ t.arg = arg => ArgSound(t)
    PROVE  SqlInductive'
<1>0. StateOk(cll) /\ DOMAIN txn = Handle
  BY DEF SqlInductive, TablesSound, HandlesSound
<1>1. PICK at \in {"lock", "read"}, view \in {{}, {Tables}} :
         /\ txn' = [txn EXCEPT ![h] = Fresh(op, arg, at, view)]
         /\ at = "lock" => view = {} /\ op \in {"append", "commit_cll"}
         /\ writer' = writer \/ writer = None
         /\ op \in {"append", "commit_cll"} /\ at # "lock" => writer' = h
  <2>1. CASE SqliteBegin(h, op, arg)
    <3> DEFINE view == IF op = "load" THEN {} ELSE {Tables}
    <3>2. txn' = [txn EXCEPT ![h] = Fresh(op, arg, "read", view)]
      BY <2>1 DEF SqliteBegin
    <3>3. view \in {{}, {Tables}}
      OBVIOUS
    <3>4. /\ writer' = writer \/ writer = None
          /\ op \in {"append", "commit_cll"} => writer' = h
      BY <2>1 DEF SqliteBegin
    <3> HIDE DEF view
    <3> QED  BY <3>2, <3>3, <3>4
  <2>2. CASE MysqlBegin(h, op, arg)
    <3> DEFINE view == IF op = "load" THEN {Tables} ELSE {}
               at == IF op \in {"append", "commit_cll"} THEN "lock" ELSE "read"
    <3>2. txn' = [txn EXCEPT ![h] = Fresh(op, arg, at, view)]
      BY <2>2 DEF MysqlBegin
    <3>3. /\ view \in {{}, {Tables}} /\ at \in {"lock", "read"}
          /\ at = "lock" => view = {} /\ op \in {"append", "commit_cll"}
          /\ op \in {"append", "commit_cll"} => at = "lock"
      OBVIOUS
    <3>4. writer' = writer
      BY <2>2 DEF MysqlBegin
    <3> HIDE DEF view, at
    <3> QED  BY <3>2, <3>3, <3>4
  <2> QED  BY <2>1, <2>2 DEF Begin
<1>2. /\ status' = status /\ loaded' = loaded /\ UNCHANGED <<entries, cll, provisioned, acked>>
      /\ status[h] = "open"
  BY DEF Begin
<1>3. PICK u : u = Fresh(op, arg, at, view) /\ txn' = [txn EXCEPT ![h] = u]
  BY <1>1
<1>5. u.op = op /\ u.arg = arg /\ u.at = at /\ u.view = view /\ IsTxn(u)
  BY <1>3 DEF IsTxn, Fresh
<1>6. PlaceOk(u)
  BY <1>1, <1>5 DEF PlaceOk
<1>7. Locking(u) => writer' = h
  BY <1>1, <1>5 DEF Locking
<1>8. ViewSound(u)
  <2>1. Tables.cll = cll /\ Tables.entries = entries
    BY DEF Tables
  <2>2. SameIndex(cll, cll) /\ RowsKnown(cll, cll)
    BY SameSelf
  <2>3. \A v \in view : v = Tables /\ view = {v}
    BY <1>1
  <2> QED  BY <1>0, <1>1, <1>5, <2>1, <2>2, <2>3 DEF ViewSound
<1>9. Carries(u)
  BY <1>1, <1>5, <1>8 DEF Carries, SeenSound, WriteSound
<1>10. /\ DOMAIN status' = Handle /\ DOMAIN loaded' = Handle
       /\ ~provisioned => status'[h] # "open"
  BY <1>2 DEF SqlInductive, HandlesSound
<1>11. LoadedSound(h)'
  BY <1>2 DEF SqlInductive, LoadedSound
<1>12. ~(u.op = "commit_witness" /\ u.at = "commit")
  BY <1>1, <1>5
<1> QED
  BY <1>1, <1>2, <1>3, <1>5, <1>6, <1>7, <1>9, <1>10, <1>11, <1>12, LocalStep

\* The calls of hosts, runners and deliveries.
LEMMA CallStep ==
    ASSUME SqlInductive, NEW h \in Handle,
           CallAppend(h) \/ CallLoad(h) \/ CallCommitCll(h) \/ CallCommitWitness(h)
    PROVE  SqlInductive'
<1>0. LoadedSound(h) /\ entries \in Seq(Entry)
  BY DEF SqlInductive, TablesSound
<1>1. CASE CallAppend(h)
  <2>1. PICK v \in Value, at \in Time : Begin(h, "append", [value |-> v, appended_at |-> at])
    BY <1>1 DEF CallAppend
  <2>2. [value |-> v, appended_at |-> at] \in Entry
    BY SqlAssumption DEF Entry
  <2>3. \A t : t.op = "append" /\ t.arg = [value |-> v, appended_at |-> at] => ArgSound(t)
    BY <2>2 DEF ArgSound
  <2> QED  BY <2>1, <2>3, BeginStep
<1>2. CASE CallLoad(h)
  BY <1>2, BeginStep DEF CallLoad, ArgSound
<1>3. CASE CallCommitCll(h)
  <2>1. PICK n \in NextStates(loaded[h]) :
           Begin(h, "commit_cll", [size |-> Len(loaded[h].nodes),
                                   checkpoint |-> loaded[h].checkpoint, next |-> n])
    BY <1>3 DEF CallCommitCll
  <2>2. StateOk(loaded[h])
    BY <1>0, <1>3 DEF CallCommitCll, LoadedSound
  <2>3. StateOk(n)
    BY <1>0, <2>2, NextOk
  <2>4. \A t : t.op = "commit_cll"
               /\ t.arg = [size |-> Len(loaded[h].nodes),
                           checkpoint |-> loaded[h].checkpoint, next |-> n]
            => ArgSound(t)
    BY <2>3 DEF ArgSound
  <2> QED  BY <2>1, <2>4, BeginStep
<1>4. CASE CallCommitWitness(h)
  <2>1. PICK k \in DOMAIN loaded[h].witnesses, got \in BOOLEAN :
           Begin(h, "commit_witness",
                 [key |-> k, attempts |-> loaded[h].witnesses[k].attempts,
                  next |-> [loaded[h].witnesses[k] EXCEPT !.attempts = @ + 1,
                                                          !.receipt = got]])
    BY <1>4 DEF CallCommitWitness
  <2>2. PICK n : n = [loaded[h].witnesses[k] EXCEPT !.attempts = @ + 1, !.receipt = got]
    OBVIOUS
  <2>3. n.checkpoint = loaded[h].witnesses[k].checkpoint
    BY <2>2
  <2>4. k \in DOMAIN cll.witnesses /\ n.checkpoint = cll.witnesses[k].checkpoint
    BY <1>0, <1>4, <2>3 DEF CallCommitWitness, LoadedSound, RowsKnown
  <2>5. \A t : t.op = "commit_witness"
               /\ t.arg = [key |-> k, attempts |-> loaded[h].witnesses[k].attempts, next |-> n]
            => ArgSound(t)
    BY <2>4 DEF ArgSound
  <2> QED  BY <2>1, <2>2, <2>5, BeginStep
<1> QED  BY <1>1, <1>2, <1>3, <1>4

-----------------------------------------------------------------------------
(***************************************************************************)
(* load_state.                                                             *)
(***************************************************************************)

\* A transaction after a statement.
After(t, at, view, seen) == [t EXCEPT !.at = at, !.view = view, !.seen = seen]

\* The fields of a transaction after a read.
LEMMA ReadTxn ==
    ASSUME NEW t, IsTxn(t), NEW at, NEW view, NEW seen, NEW u, u = After(t, at, view, seen)
    PROVE  /\ IsTxn(u) /\ u.op = t.op /\ u.arg = t.arg /\ u.writes = t.writes
           /\ u.at = at /\ u.view = view /\ u.seen = seen
<1>1. PICK a, b, c, d : t = [op |-> a, arg |-> b, at |-> t.at, view |-> c, seen |-> d,
                             writes |-> t.writes]
  BY DEF IsTxn
<1>2. u = [op |-> t.op, arg |-> t.arg, at |-> at, view |-> view, seen |-> seen,
           writes |-> t.writes]
  BY <1>1 DEF After
<1> QED  BY <1>2 DEF IsTxn

\* The view a transaction has after a consistent read.
LEMMA ViewTaken ==
    ASSUME StateOk(cll), NEW t, ViewSound(t), NEW u, u.op = t.op, u.at # "lock",
           u.view = {ViewOf(t)}
    PROVE  ViewSound(u) /\ ViewOf(u) = ViewOf(t)
<1>1. PICK v : v = ViewOf(t)
  OBVIOUS
<1>2. /\ StateOk(v.cll) /\ RowsKnown(v.cll, cll)
      /\ t.op = "append" => v.entries = entries
      /\ t.op = "commit_cll" => SameIndex(v.cll, cll)
  BY <1>1, ViewFacts
<1>3. ViewSound(u)
  BY <1>1, <1>2 DEF ViewSound
<1>4. ViewOf(u) = v
  BY <1>1 DEF ViewOf
<1> QED  BY <1>1, <1>3, <1>4

\* SELECT ... FOR UPDATE on the metadata row.
LEMMA LockMetaStep ==
    ASSUME SqlInductive, NEW h \in Handle, LockMeta(h)
    PROVE  SqlInductive'
<1>1. PICK t : t = txn[h]
  OBVIOUS
<1>2. /\ IsTxn(t) /\ PlaceOk(t) /\ (t.op # "none" => status[h] = "open")
      /\ ViewSound(t) /\ ArgSound(t) /\ StateOk(cll)
  BY <1>1, TxnFacts
<1>3. PICK u : /\ txn' = [txn EXCEPT ![h] = u]
               /\ u = IF t.op = "append" THEN [t EXCEPT !.at = "read"]
                      ELSE [t EXCEPT !.at = "nodes", !.seen = [meta |-> MetaOf(cll)]]
  BY <1>1 DEF LockMeta
<1>4. /\ t.at = "lock" /\ writer = None /\ writer' = h
      /\ status' = status /\ loaded' = loaded /\ UNCHANGED <<entries, cll, provisioned, acked>>
  BY <1>1 DEF LockMeta
<1>5. t.op \in {"append", "commit_cll"} /\ t.view = {}
  BY <1>2, <1>4 DEF PlaceOk, ViewSound, Idle, Fresh
<1>6. /\ IsTxn(u) /\ u.op = t.op /\ u.arg = t.arg /\ u.view = {}
      /\ t.op = "append" => u.at = "read"
      /\ t.op # "append" => u.at = "nodes" /\ u.seen = [meta |-> MetaOf(cll)]
  <2>1. CASE t.op = "append"
    <3>1. u = After(t, "read", t.view, t.seen)
      BY <1>2, <1>3, <2>1 DEF IsTxn, After
    <3> QED  BY <1>2, <1>5, <2>1, <3>1, ReadTxn
  <2>2. CASE t.op # "append"
    <3>1. u = After(t, "nodes", t.view, [meta |-> MetaOf(cll)])
      BY <1>2, <1>3, <2>2 DEF IsTxn, After
    <3>2. PICK seen : seen = [meta |-> MetaOf(cll)]
      OBVIOUS
    <3> QED  BY <1>2, <1>5, <2>2, <3>1, <3>2, ReadTxn
  <2> QED  BY <2>1, <2>2
<1>7. PlaceOk(u) /\ u.at # "lock" /\ u.at # "commit"
  BY <1>5, <1>6 DEF PlaceOk
<1>8. Carries(u)
  <2>1. ViewSound(u)
    BY <1>6, <1>7 DEF ViewSound
  <2>2. ArgSound(u)
    BY <1>2, <1>6 DEF ArgSound
  <2>3. SeenSound(u)
    <3>1. t.op # "append" => u.seen.meta = MetaOf(cll)
      BY <1>6
    <3> QED  BY <1>5, <1>6, <3>1 DEF SeenSound, Source
  <2>4. WriteSound(u)
    BY <1>5, <1>6, <1>7 DEF WriteSound
  <2> QED  BY <2>1, <2>2, <2>3, <2>4 DEF Carries
<1>9. /\ DOMAIN status' = Handle /\ DOMAIN loaded' = Handle
      /\ ~provisioned => status'[h] # "open"
  BY <1>4 DEF SqlInductive, HandlesSound
<1>10. LoadedSound(h)'
  BY <1>4 DEF SqlInductive, LoadedSound
<1>11. u.op # "none" => status'[h] = "open"
  BY <1>2, <1>4, <1>6
<1> QED
  BY <1>3, <1>4, <1>6, <1>7, <1>8, <1>9, <1>10, <1>11, LocalStep

\* The statements of load_state that read a view: the metadata, the nodes, the
\* witness rows.
LEMMA ReadStep ==
    ASSUME SqlInductive, NEW h \in Handle, ReadMeta(h) \/ ReadNodes(h) \/ ReadRows(h)
    PROVE  SqlInductive'
<1>1. PICK t : t = txn[h]
  OBVIOUS
<1>2. /\ IsTxn(t) /\ PlaceOk(t) /\ (t.op # "none" => status[h] = "open")
      /\ (Locking(t) => writer = h)
      /\ ViewSound(t) /\ ArgSound(t) /\ SeenSound(t) /\ StateOk(cll)
  BY <1>1, TxnFacts
<1>3. PICK v : v = ViewOf(t)
  OBVIOUS
<1>4. PICK at, seen, u :
         /\ at \in {"nodes", "rows", "apply"}
         /\ Continues(h, u)
         /\ u = After(t, at, {v}, seen)
         /\ t.op \in {"load", "commit_cll"} /\ t.at # "lock"
         /\ at = "nodes" => t.at = "read" /\ seen = [meta |-> MetaOf(v.cll)]
         /\ at = "rows" => /\ t.at = "nodes"
                           /\ seen = [meta |-> t.seen.meta, nodes |-> v.cll.nodes]
         /\ at = "apply" => /\ t.at = "rows"
                            /\ seen = [meta |-> t.seen.meta, nodes |-> t.seen.nodes,
                                       rows |-> v.cll.witnesses]
  <2>1. CASE ReadMeta(h)
    <3> DEFINE seen == [meta |-> MetaOf(v.cll)]
    <3>1. /\ Continues(h, After(t, "nodes", {v}, seen))
          /\ t.op \in {"load", "commit_cll"} /\ t.at = "read"
      BY <1>1, <1>3, <2>1 DEF ReadMeta, After
    <3> HIDE DEF seen
    <3> QED  BY <3>1 DEF seen
  <2>2. CASE ReadNodes(h)
    <3> DEFINE seen == [meta |-> t.seen.meta, nodes |-> v.cll.nodes]
    <3>1. /\ Continues(h, After(t, "rows", {v}, seen))
          /\ t.at = "nodes"
      BY <1>1, <1>3, <2>2 DEF ReadNodes, After
    <3>2. t.op \in {"load", "commit_cll"}
      BY <1>2, <3>1 DEF PlaceOk, Idle, Fresh
    <3> HIDE DEF seen
    <3> QED  BY <3>1, <3>2 DEF seen
  <2>3. CASE ReadRows(h)
    <3> DEFINE seen == [meta |-> t.seen.meta, nodes |-> t.seen.nodes,
                        rows |-> v.cll.witnesses]
    <3>1. /\ Continues(h, After(t, "apply", {v}, seen))
          /\ t.at = "rows"
      BY <1>1, <1>3, <2>3 DEF ReadRows, After
    <3>2. t.op \in {"load", "commit_cll"}
      BY <1>2, <3>1 DEF PlaceOk, Idle, Fresh
    <3> HIDE DEF seen
    <3> QED  BY <3>1, <3>2 DEF seen
  <2> QED  BY <2>1, <2>2, <2>3
<1>5. /\ IsTxn(u) /\ u.op = t.op /\ u.arg = t.arg /\ u.at = at /\ u.view = {v}
      /\ u.seen = seen
  BY <1>2, <1>4, ReadTxn
<1>6. ViewSound(u) /\ ViewOf(u) = v
  BY <1>2, <1>3, <1>4, <1>5, ViewTaken
<1>7. /\ StateOk(v.cll) /\ RowsKnown(v.cll, cll)
      /\ t.op = "commit_cll" => SameIndex(v.cll, cll)
  BY <1>2, <1>3, ViewFacts
<1>8. /\ MetaOf(Source(u)) = MetaOf(v.cll) /\ Source(u).nodes = v.cll.nodes
  <2>1. CASE t.op = "load"
    BY <1>5, <1>6, <2>1 DEF Source
  <2>2. CASE t.op = "commit_cll"
    BY <1>5, <1>7, <2>2 DEF Source, SameIndex, MetaOf
  <2> QED  BY <1>4, <2>1, <2>2
<1>9. /\ t.at \in {"nodes", "rows"} => t.seen.meta = MetaOf(v.cll)
      /\ t.at = "rows" => t.seen.nodes = v.cll.nodes
  <2>1. CASE t.op = "load"
    BY <1>2, <1>3, <2>1 DEF SeenSound, Source
  <2>2. CASE t.op = "commit_cll"
    BY <1>2, <1>7, <2>2 DEF SeenSound, Source, SameIndex, MetaOf
  <2> QED  BY <1>4, <2>1, <2>2
<1>10. /\ seen.meta = MetaOf(v.cll)
       /\ at \in {"rows", "apply"} => seen.nodes = v.cll.nodes
       /\ at = "apply" => seen.rows = v.cll.witnesses
  BY <1>4, <1>9
<1>11. at = "apply" => StateOf(seen) = v.cll
  BY <1>7, <1>10 DEF StateOf, MetaOf, StateOk, IsState
<1>12. SeenSound(u)
  BY <1>4, <1>5, <1>7, <1>8, <1>10, <1>11 DEF SeenSound
<1>13. ArgSound(u) /\ WriteSound(u)
  BY <1>2, <1>4, <1>5 DEF ArgSound, WriteSound
<1>14. PlaceOk(u) /\ (Locking(u) => writer = h)
  BY <1>2, <1>4, <1>5 DEF PlaceOk, Locking
<1> QED
  BY <1>2, <1>4, <1>5, <1>6, <1>12, <1>13, <1>14, ContinueStep DEF Carries

\* load_cll returns a state that the tables had at one moment.
LEMMA ReturnLoadStep ==
    ASSUME SqlInductive, NEW h \in Handle, ReturnLoad(h)
    PROVE  SqlInductive'
<1>1. PICK t : t = txn[h]
  OBVIOUS
<1>2. SeenSound(t) /\ t.at = "apply"
  BY <1>1, TxnFacts DEF ReturnLoad
<1>3. /\ loaded' = [loaded EXCEPT ![h] = IF Sound(t.seen) THEN StateOf(t.seen) ELSE @]
      /\ status' = status /\ UNCHANGED <<entries, cll, provisioned, acked>>
      /\ txn' = [txn EXCEPT ![h] = Idle]
  BY <1>1 DEF ReturnLoad, Rollback
<1>4. writer' = writer \/ writer \in {None, h}
  BY DEF ReturnLoad, Rollback
<1>5. /\ DOMAIN status = Handle /\ DOMAIN loaded = Handle /\ DOMAIN loaded' = Handle
      /\ ~provisioned => status'[h] # "open"
  BY <1>3 DEF SqlInductive, HandlesSound
<1>6. \A g \in Handle \ {h} : status'[g] = status[g] /\ loaded'[g] = loaded[g]
  BY <1>3, <1>5
<1>7. LoadedSound(h)'
  <2>1. LoadedSound(h)
    BY DEF SqlInductive
  <2>2. StateOk(StateOf(t.seen)) /\ RowsKnown(StateOf(t.seen), cll)
    BY <1>2 DEF SeenSound
  <2>3. loaded'[h] = loaded[h] \/ loaded'[h] = StateOf(t.seen)
    BY <1>3, <1>5
  <2>4. cll' = cll
    BY <1>3
  <2> QED  BY <2>1, <2>2, <2>3, <2>4 DEF LoadedSound
<1>8. PICK u : u = Idle /\ txn' = [txn EXCEPT ![h] = u]
  BY <1>3
<1>9. IsTxn(u) /\ PlaceOk(u) /\ ~Locking(u) /\ Carries(u) /\ u.op = "none"
  BY <1>8, IdleFacts, Zenon
<1> QED
  BY <1>3, <1>4, <1>5, <1>6, <1>7, <1>8, <1>9, LocalStep

-----------------------------------------------------------------------------
(***************************************************************************)
(* The writing operations.                                                 *)
(***************************************************************************)

\* A transaction that has written.
Ready(t, view, writes) == [t EXCEPT !.at = "commit", !.view = view, !.writes = writes]

\* The fields of a transaction that is ready to commit.
LEMMA ReadyTxn ==
    ASSUME NEW t, IsTxn(t), NEW view, NEW writes, NEW u, u = Ready(t, view, writes)
    PROVE  /\ IsTxn(u) /\ u.op = t.op /\ u.arg = t.arg /\ u.seen = t.seen
           /\ u.at = "commit" /\ u.view = view /\ u.writes = writes
<1>1. PICK a, b, c, d : t = [op |-> t.op, arg |-> t.arg, at |-> a, view |-> b, seen |-> c,
                             writes |-> d]
  BY DEF IsTxn
<1>2. u = [op |-> t.op, arg |-> t.arg, at |-> "commit", view |-> view, seen |-> t.seen,
           writes |-> writes]
  BY <1>1 DEF Ready
<1> QED  BY <1>2 DEF IsTxn

\* append: under the lock, what the view has is what there is, so a value that
\* is not found has no entry, and MAX(seq) + 1 is free.
LEMMA AppendStep ==
    ASSUME SqlInductive, NEW h \in Handle, Append1(h)
    PROVE  SqlInductive'
<1>1. PICK t : t = txn[h]
  OBVIOUS
<1>2. /\ IsTxn(t) /\ PlaceOk(t) /\ (t.op # "none" => status[h] = "open")
      /\ (Locking(t) => writer = h)
      /\ ViewSound(t) /\ ArgSound(t) /\ StateOk(cll) /\ entries \in Seq(Entry)
  BY <1>1, TxnFacts
<1>3. t.op = "append" /\ t.at = "read"
  BY <1>1 DEF Append1
<1>4. PICK v : v = ViewOf(t)
  OBVIOUS
<1>5. v.entries = entries
  BY <1>2, <1>3, <1>4, ViewFacts
<1> DEFINE found == FoundIn(entries, t.arg.value)
<1>6. PICK writes :
         /\ found = {} => writes = [seq |-> Len(entries) + 1, entry |-> t.arg]
         /\ found # {} => writes = [seq |-> CHOOSE i \in found : TRUE, entry |-> None]
         /\ \/ Aborts(h)
            \/ /\ Continues(h, Ready(t, {v}, writes))
               /\ found = {} => ~(Len(entries) + 1 > MaxSeq)
  <2> DEFINE w == IF found = {} THEN [seq |-> Len(entries) + 1, entry |-> t.arg]
                  ELSE [seq |-> CHOOSE i \in found : TRUE, entry |-> None]
  <2>1. \/ Aborts(h)
        \/ /\ Continues(h, Ready(t, {v}, w))
           /\ found = {} => ~(Len(entries) + 1 > MaxSeq)
    BY <1>1, <1>4, <1>5 DEF Append1, Ready
  <2>2. /\ found = {} => w = [seq |-> Len(entries) + 1, entry |-> t.arg]
        /\ found # {} => w = [seq |-> CHOOSE i \in found : TRUE, entry |-> None]
    OBVIOUS
  <2> HIDE DEF w, found
  <2> QED  BY <2>1, <2>2
<1>7. CASE Aborts(h)
  BY <1>7, AbortStep
<1>8. CASE /\ Continues(h, Ready(t, {v}, writes))
           /\ found = {} => ~(Len(entries) + 1 > MaxSeq)
  <2>1. PICK u : u = Ready(t, {v}, writes)
    OBVIOUS
  <2>2. /\ IsTxn(u) /\ u.op = t.op /\ u.arg = t.arg /\ u.at = "commit" /\ u.view = {v}
        /\ u.writes = writes
    BY <1>2, <2>1, ReadyTxn
  <2>3. ViewSound(u)
    BY <1>2, <1>4, <2>2, ViewTaken
  <2>4. ArgSound(u) /\ SeenSound(u)
    BY <1>2, <1>3, <2>2 DEF ArgSound, SeenSound
  <2>5. WriteSound(u)
    <3>1. CASE found = {}
      <4>1. writes.seq = Len(entries) + 1 /\ writes.entry = t.arg
        BY <1>6, <3>1
      <4>2. Len(entries) + 1 <= MaxSeq
        BY <1>2, <1>8, <3>1, LenProperties, EngineAssumption
      <4> QED  BY <1>3, <2>2, <3>1, <4>1, <4>2 DEF WriteSound
    <3>2. CASE found # {}
      <4>1. writes.seq \in found /\ writes.entry = None
        BY <1>6, <3>2
      <4>2. writes.seq \in 1..Len(entries) /\ entries[writes.seq].value = t.arg.value
        BY <1>2, <4>1, LenProperties DEF FoundIn
      <4> QED  BY <1>3, <2>2, <4>1, <4>2 DEF WriteSound
    <3> QED  BY <3>1, <3>2
  <2>6. PlaceOk(u) /\ (Locking(u) => writer = h)
    BY <1>2, <1>3, <2>2 DEF PlaceOk, Locking
  <2> QED
    BY <1>2, <1>3, <1>8, <2>1, <2>2, <2>3, <2>4, <2>5, <2>6, ContinueStep DEF Carries
<1> QED  BY <1>6, <1>7, <1>8

\* commit_cll: what it decided on the state it read holds of the tables.
LEMMA CommitCllStep ==
    ASSUME SqlInductive, NEW h \in Handle, CommitCll1(h)
    PROVE  SqlInductive'
<1>1. PICK t : t = txn[h]
  OBVIOUS
<1>2. /\ IsTxn(t) /\ PlaceOk(t) /\ (t.op # "none" => status[h] = "open")
      /\ (Locking(t) => writer = h)
      /\ ViewSound(t) /\ ArgSound(t) /\ SeenSound(t) /\ StateOk(cll)
  BY <1>1, TxnFacts
<1>3. t.op = "commit_cll" /\ t.at = "apply"
  BY <1>1 DEF CommitCll1
<1>4. PICK c : c = StateOf(t.seen)
  OBVIOUS
<1>5. StateOk(c) /\ SameIndex(c, cll)
  BY <1>2, <1>3, <1>4 DEF SeenSound
<1>6. \/ Aborts(h)
      \/ /\ CommitCllError(c, t.arg.size, t.arg.checkpoint, t.arg.next) = "none"
         /\ Continues(h, Ready(t, t.view, WritesOf(c, t.arg.next)))
  <2>1. [t EXCEPT !.at = "commit", !.writes = WritesOf(c, t.arg.next)]
           = Ready(t, t.view, WritesOf(c, t.arg.next))
    BY <1>2 DEF Ready, IsTxn
  <2>2. \/ Aborts(h)
        \/ /\ CommitCllError(c, t.arg.size, t.arg.checkpoint, t.arg.next) = "none"
           /\ Continues(h, [t EXCEPT !.at = "commit", !.writes = WritesOf(c, t.arg.next)])
    BY <1>1, <1>4 DEF CommitCll1
  <2> QED  BY <2>1, <2>2
<1>7. CASE Aborts(h)
  BY <1>7, AbortStep
<1>8. CASE /\ CommitCllError(c, t.arg.size, t.arg.checkpoint, t.arg.next) = "none"
           /\ Continues(h, Ready(t, t.view, WritesOf(c, t.arg.next)))
  <2>1. PICK u : u = Ready(t, t.view, WritesOf(c, t.arg.next))
    OBVIOUS
  <2>2. /\ IsTxn(u) /\ u.op = t.op /\ u.arg = t.arg /\ u.at = "commit" /\ u.view = t.view
        /\ u.writes = WritesOf(c, t.arg.next)
    BY <1>2, <2>1, ReadyTxn
  <2>3. ViewSound(u)
    BY <1>2, <1>3, <2>2 DEF ViewSound
  <2>4. ArgSound(u) /\ SeenSound(u)
    BY <1>2, <1>3, <2>2 DEF ArgSound, SeenSound
  <2>5. CommitCllError(cll, t.arg.size, t.arg.checkpoint, t.arg.next) = "none"
    BY <1>5, <1>8, SameErrors
  <2>6. PICK n : n = t.arg.next
    OBVIOUS
  <2>7. StateOk(n)
    BY <1>2, <1>3, <2>6 DEF ArgSound
  <2>8. ApplyCll(c, n) = [nodes |-> n.nodes, first_pending_at |-> n.first_pending_at,
                          checkpoint |-> n.checkpoint, witnesses |-> MergeWitnesses(c, n)]
    BY <1>5, <1>8, <2>6, <2>7, ApplyOk
  <2>9. c.nodes = cll.nodes /\ DOMAIN c.witnesses = DOMAIN cll.witnesses
    BY <1>5 DEF SameIndex
  <2>10. PICK m : m = MergeWitnesses(c, n)
    OBVIOUS
  <2>11. /\ DOMAIN m \ DOMAIN c.witnesses = DOMAIN n.witnesses \ DOMAIN cll.witnesses
         /\ \A k \in DOMAIN n.witnesses \ DOMAIN cll.witnesses : m[k] = n.witnesses[k]
    BY <2>9, <2>10 DEF MergeWitnesses
  <2>12. /\ u.writes.meta = MetaOf(n)
         /\ u.writes.nodes = SubSeq(n.nodes, Len(cll.nodes) + 1, Len(n.nodes))
         /\ u.writes.rows = [k \in DOMAIN m \ DOMAIN c.witnesses |-> m[k]]
    BY <2>2, <2>6, <2>8, <2>9, <2>10 DEF WritesOf, MetaOf
  <2>13. u.writes.rows = [k \in DOMAIN n.witnesses \ DOMAIN cll.witnesses |->
                            n.witnesses[k]]
    BY <2>11, <2>12
  <2>14. WriteSound(u)
    <3>1. u.arg.next = n /\ u.arg.size = t.arg.size /\ u.arg.checkpoint = t.arg.checkpoint
      BY <2>2, <2>6
    <3>2. CommitCllError(cll, u.arg.size, u.arg.checkpoint, u.arg.next) = "none"
      BY <2>5, <2>6, <3>1
    <3>3. u.writes.rows = [k \in DOMAIN u.arg.next.witnesses \ DOMAIN cll.witnesses |->
                             u.arg.next.witnesses[k]]
      BY <2>13, <3>1
    <3> QED  BY <1>3, <2>2, <2>12, <3>1, <3>2, <3>3 DEF WriteSound
  <2>15. PlaceOk(u) /\ (Locking(u) => writer = h)
    BY <1>2, <1>3, <2>2 DEF PlaceOk, Locking
  <2> QED
    BY <1>2, <1>3, <1>8, <2>1, <2>2, <2>3, <2>4, <2>14, <2>15, ContinueStep DEF Carries
<1> QED  BY <1>6, <1>7, <1>8

\* commit_witness: the read, on a view that may be old, only decides whether
\* to go on, and that the new row is valid.
LEMMA ReadWitnessStep ==
    ASSUME SqlInductive, NEW h \in Handle, ReadWitness(h)
    PROVE  SqlInductive'
<1>1. PICK t : t = txn[h]
  OBVIOUS
<1>2. /\ IsTxn(t) /\ PlaceOk(t) /\ (t.op # "none" => status[h] = "open")
      /\ ViewSound(t) /\ ArgSound(t) /\ StateOk(cll)
  BY <1>1, TxnFacts
<1>3. t.op = "commit_witness" /\ t.at = "read"
  BY <1>1 DEF ReadWitness
<1>4. PICK v : v = ViewOf(t)
  OBVIOUS
<1>5. \/ Aborts(h)
      \/ /\ CommitWitnessError(v.cll.witnesses, t.arg.key, t.arg.attempts, t.arg.next)
               = "none"
         /\ Continues(h, [t EXCEPT !.at = "update", !.view = {v}])
  BY <1>1, <1>4 DEF ReadWitness
<1>6. CASE Aborts(h)
  BY <1>6, AbortStep
<1>7. CASE /\ CommitWitnessError(v.cll.witnesses, t.arg.key, t.arg.attempts, t.arg.next)
                 = "none"
           /\ Continues(h, [t EXCEPT !.at = "update", !.view = {v}])
  <2>1. PICK u : Continues(h, u) /\ u = After(t, "update", {v}, t.seen)
    <3>1. [t EXCEPT !.at = "update", !.view = {v}] = After(t, "update", {v}, t.seen)
      BY <1>2 DEF After, IsTxn
    <3> QED  BY <1>7, <3>1
  <2>2. /\ IsTxn(u) /\ u.op = t.op /\ u.arg = t.arg /\ u.at = "update" /\ u.view = {v}
    BY <1>2, <2>1, ReadTxn
  <2>3. ViewSound(u)
    BY <1>2, <1>4, <2>2, ViewTaken
  <2>4. ValidWitness(u.arg.key, u.arg.next)
    BY <1>7, <2>2 DEF CommitWitnessError
  <2>5. ArgSound(u) /\ SeenSound(u) /\ WriteSound(u)
    BY <1>2, <1>3, <2>2, <2>4 DEF ArgSound, SeenSound, WriteSound
  <2>6. PlaceOk(u) /\ ~Locking(u)
    BY <1>3, <2>2 DEF PlaceOk, Locking
  <2> QED
    BY <1>2, <1>3, <2>1, <2>2, <2>3, <2>5, <2>6, ContinueStep DEF Carries
<1> QED  BY <1>5, <1>6, <1>7

\* commit_witness: the UPDATE finds the attempts as they are, and no other
\* transaction has updated the row.
LEMMA UpdateWitnessStep ==
    ASSUME SqlInductive, NEW h \in Handle, UpdateWitness(h)
    PROVE  SqlInductive'
<1>1. PICK t : t = txn[h]
  OBVIOUS
<1>2. /\ IsTxn(t) /\ PlaceOk(t) /\ (t.op # "none" => status[h] = "open")
      /\ ViewSound(t) /\ ArgSound(t) /\ WriteSound(t) /\ StateOk(cll)
  BY <1>1, TxnFacts
<1>3. t.at = "update" /\ ~RowLocked(h)
  BY <1>1 DEF UpdateWitness
<1>4. t.op = "commit_witness"
  BY <1>2, <1>3 DEF PlaceOk, Idle, Fresh
<1>5. CASE Aborts(h)
  BY <1>5, AbortStep
<1>6. CASE Matched(t) /\ Continues(h, Ready(t, t.view, [key |-> t.arg.key,
                                                        row |-> t.arg.next]))
  <2>1. PICK u : u = Ready(t, t.view, [key |-> t.arg.key, row |-> t.arg.next])
    OBVIOUS
  <2>2. /\ IsTxn(u) /\ u.op = t.op /\ u.arg = t.arg /\ u.at = "commit" /\ u.view = t.view
        /\ u.writes = [key |-> t.arg.key, row |-> t.arg.next]
    <3>1. PICK w : w = [key |-> t.arg.key, row |-> t.arg.next]
      OBVIOUS
    <3>2. u = Ready(t, t.view, w)
      BY <2>1, <3>1
    <3> QED  BY <1>2, <3>1, <3>2, ReadyTxn
  <2>3. ViewSound(u)
    BY <1>2, <1>3, <2>2 DEF ViewSound
  <2>4. ValidWitness(u.arg.key, u.arg.next)
    BY <1>2, <1>3, <1>4, <2>2 DEF WriteSound
  <2>5. cll.witnesses[u.arg.key].attempts = u.arg.attempts
    BY <1>6, <2>2 DEF Matched
  <2>6. u.writes = [key |-> u.arg.key, row |-> u.arg.next]
    BY <2>2
  <2>7. ArgSound(u) /\ SeenSound(u)
    BY <1>2, <1>4, <2>2 DEF ArgSound, SeenSound
  <2>8. WriteSound(u)
    BY <1>4, <2>2, <2>4, <2>5, <2>6 DEF WriteSound
  <2>9. PlaceOk(u) /\ ~Locking(u)
    BY <1>4, <2>2 DEF PlaceOk, Locking
  <2>10. \A g \in Handle \ {h} :
            txn[g].op = "commit_witness" /\ txn[g].at = "commit" =>
               txn[g].arg.key # u.arg.key
    BY <1>1, <1>3, <2>2 DEF RowLocked
  <2> QED
    BY <1>2, <1>4, <1>6, <2>1, <2>2, <2>3, <2>7, <2>8, <2>9, <2>10, ContinueStep
       DEF Carries
<1>7. \/ Aborts(h)
      \/ Matched(t) /\ Continues(h, Ready(t, t.view, [key |-> t.arg.key, row |-> t.arg.next]))
  <2> DEFINE w == [key |-> t.arg.key, row |-> t.arg.next]
  <2>1. \/ Aborts(h)
        \/ Matched(t) /\ Continues(h, [t EXCEPT !.at = "commit", !.writes = w])
    BY <1>1 DEF UpdateWitness
  <2> HIDE DEF w
  <2>2. [t EXCEPT !.at = "commit", !.writes = w] = Ready(t, t.view, w)
    BY <1>2 DEF Ready, IsTxn
  <2>3. Aborts(h) \/ (Matched(t) /\ Continues(h, Ready(t, t.view, w)))
    BY <2>1, <2>2
  <2> QED  BY <2>3 DEF w
<1> QED  BY <1>5, <1>6, <1>7

-----------------------------------------------------------------------------
(***************************************************************************)
(* Handles.                                                                *)
(***************************************************************************)

\* init, open and close leave what the tables hold alone.
LEMMA HandleStep ==
    ASSUME SqlInductive, NEW h \in Handle, Provision(h) \/ OpenHandle(h) \/ CloseHandle(h)
    PROVE  SqlInductive'
<1>1. /\ cll' = cll /\ entries' = entries /\ acked' = acked /\ txn' = txn
      /\ loaded' = loaded /\ writer' = writer
  BY DEF SqlInductive, HandlesSound, Provision, OpenHandle, CloseHandle
<1>2. TablesSound' /\ RowLocks'
  BY <1>1 DEF SqlInductive, TablesSound, RowLocks, Distinct
<1>3. /\ DOMAIN status' = Handle
      /\ \A g \in Handle \ {h} : status'[g] = status[g]
      /\ status[h] = "open" => txn[h] = Idle
      /\ ~provisioned' => \A g \in Handle : status'[g] # "open"
      /\ ~provisioned' => ~provisioned
  BY DEF SqlInductive, HandlesSound, Provision, OpenHandle, CloseHandle
<1>4. HandlesSound'
  BY <1>1, <1>3 DEF SqlInductive, HandlesSound
<1>5. ASSUME NEW g \in Handle PROVE TxnSound(g)' /\ LoadedSound(g)'
  <2>1. PICK t : t = txn[g]
    OBVIOUS
  <2>2. /\ IsTxn(t) /\ PlaceOk(t) /\ (t.op # "none" => status[g] = "open")
        /\ (Locking(t) => writer = g)
        /\ Carries(t) /\ StateOk(cll) /\ LoadedSound(g)
    BY <2>1 DEF SqlInductive, TxnSound, TablesSound
  <2>3. Carries(t)'
    <3>1. RowsKnown(cll, cll') /\ SameIndex(cll, cll')
      BY <1>1, SameSelf
    <3> QED  BY <1>1, <2>2, <3>1, CarriesKept
  <2>4. t.op # "none" => status'[g] = "open"
    <3>1. CASE g = h
      <4>1. t.op # "none" => status[h] = "open" /\ t # Idle
        BY <2>2, <3>1, IdleFacts
      <4> QED  BY <1>3, <2>1, <3>1, <4>1
    <3>2. CASE g # h
      BY <1>3, <2>2, <3>2
    <3> QED  BY <3>1, <3>2
  <2>5. txn'[g] = t
    BY <1>1, <2>1
  <2>6. TxnSound(g)'
    BY <1>1, <2>2, <2>3, <2>4, <2>5 DEF TxnSound
  <2>7. LoadedSound(g)'
    BY <1>1, <2>2 DEF LoadedSound
  <2> QED  BY <2>6, <2>7
<1> QED  BY <1>2, <1>4, <1>5 DEF SqlInductive

-----------------------------------------------------------------------------
(***************************************************************************)
(* COMMIT.  What becomes visible is the engine's operation on the tables.  *)
(***************************************************************************)
Grows == /\ Len(entries) \in Nat /\ Len(entries') \in Nat /\ Len(entries) <= Len(entries')
         /\ \A i \in 1..Len(entries) : entries'[i] = entries[i]

\* append.
LEMMA VisibleAppend ==
    ASSUME SqlInductive, NEW h \in Handle, NEW t, t = txn[h], t.at = "commit",
           t.op = "append", Visible(t)
    PROVE  /\ entries' \in Seq(Entry) /\ Distinct(entries') /\ cll' = cll /\ Grows
           /\ t.writes.seq \in 1..Len(entries') /\ entries'[t.writes.seq].value = t.arg.value
           /\ UNCHANGED storeVars \/ EngineOperation(t)
<1>1. /\ entries \in Seq(Entry) /\ Distinct(entries) /\ t.arg \in Entry /\ WriteSound(t)
      /\ Len(entries) \in Nat
  BY TxnFacts, LenProperties DEF SqlInductive, TablesSound, ArgSound
<1>2. /\ cll' = cll
      /\ entries' = IF t.writes.entry # None
                    THEN [i \in DOMAIN entries \cup {t.writes.seq} |->
                            IF i = t.writes.seq THEN t.writes.entry ELSE entries[i]]
                    ELSE entries
  BY DEF Visible
<1>3. CASE t.writes.entry = None
  <2>1. entries' = entries
    BY <1>2, <1>3
  <2>2. t.writes.entry # t.arg
    BY <1>1, <1>3, SqlAssumption
  <2>3. t.writes.seq \in 1..Len(entries) /\ entries[t.writes.seq].value = t.arg.value
    BY <1>1, <2>2 DEF WriteSound
  <2> QED  BY <1>1, <1>2, <2>1, <2>3 DEF storeVars, Grows
<1>4. CASE t.writes.entry # None
  <2>1. /\ t.writes.entry = t.arg /\ t.writes.seq = Len(entries) + 1
        /\ Len(entries) + 1 <= MaxSeq /\ FoundIn(entries, t.arg.value) = {}
    BY <1>1, <1>4 DEF WriteSound
  <2>2. PICK n : n = Len(entries)
    OBVIOUS
  <2>3. n \in Nat /\ DOMAIN entries = 1..n /\ \A i \in 1..n : entries[i] \in Entry
    BY <1>1, <2>2, LenProperties, ElementOfSeq
  <2>4. DOMAIN entries \cup {n + 1} = 1..(n + 1)
    BY <2>3
  <2>5. entries' = [i \in 1..(n + 1) |-> IF i = n + 1 THEN t.arg ELSE entries[i]]
    BY <1>2, <1>4, <2>1, <2>2, <2>4
  <2>6. entries' \in [1..(n + 1) -> Entry]
    <3>1. \A i \in 1..(n + 1) : i # n + 1 => i \in 1..n
      BY <2>3
    <3> QED  BY <1>1, <2>3, <2>5, <3>1
  <2>7. entries' \in Seq(Entry) /\ Len(entries') = n + 1
    <3>1. PICK m \in Nat : m = n + 1
      BY <2>3
    <3>2. entries' \in Seq(Entry)
      BY <2>6, <3>1, SeqDef
    <3> QED  BY <2>6, <3>1, <3>2, LenProperties
  <2>8. entries'[n + 1] = t.arg /\ \A i \in 1..n : entries'[i] = entries[i]
    BY <2>3, <2>5
  <2>9. entries' = Append(entries, t.arg)
    <3>1. /\ Append(entries, t.arg) \in Seq(Entry) /\ Len(Append(entries, t.arg)) = n + 1
          /\ Append(entries, t.arg)[n + 1] = t.arg
          /\ \A i \in 1..n : Append(entries, t.arg)[i] = entries[i]
      BY <1>1, <2>2, AppendProperties
    <3>2. \A i \in 1..(n + 1) : i = n + 1 \/ i \in 1..n
      BY <2>3
    <3>3. \A i \in 1..Len(entries') : entries'[i] = Append(entries, t.arg)[i]
      BY <2>7, <2>8, <3>1, <3>2
    <3> QED  BY <2>7, <3>1, <3>3, SeqEqual
  <2>10. \A i \in 1..n : entries[i].value # t.arg.value
    BY <2>1, <2>3 DEF FoundIn
  <2>11. Distinct(entries')
    <3> SUFFICES ASSUME NEW i \in 1..(n + 1), NEW j \in 1..(n + 1),
                        entries'[i].value = entries'[j].value
                 PROVE  i = j
      BY <2>7 DEF Distinct
    <3>1. /\ i # n + 1 => i \in 1..n
          /\ j # n + 1 => j \in 1..n
      BY <2>3
    <3> QED  BY <1>1, <2>2, <2>8, <2>10, <3>1 DEF Distinct
  <2>12. EngineOperation(t)
    <3>1. t.arg = [value |-> t.arg.value, appended_at |-> t.arg.appended_at]
      BY <1>1 DEF Entry
    <3>2. ~(\E i \in DOMAIN entries : entries[i].value = t.arg.value)
      BY <2>3, <2>10
    <3>3. ~(Len(entries) + 1 > MaxSeq)
      BY <1>1, <2>1, EngineAssumption
    <3>4. AppendEntry(t.arg.value, t.arg.appended_at)
      BY <1>2, <2>9, <3>1, <3>2, <3>3 DEF AppendEntry
    <3> QED  BY <3>4 DEF EngineOperation
  <2>13. t.writes.seq \in 1..Len(entries') /\ entries'[t.writes.seq].value = t.arg.value
    BY <2>1, <2>2, <2>3, <2>7, <2>8
  <2>14. Grows
    BY <2>2, <2>3, <2>7, <2>8 DEF Grows
  <2> QED  BY <1>2, <2>7, <2>11, <2>12, <2>13, <2>14
<1> QED  BY <1>3, <1>4

\* commit_cll.
LEMMA VisibleCll ==
    ASSUME SqlInductive, NEW h \in Handle, NEW t, t = txn[h], t.at = "commit",
           t.op = "commit_cll", Visible(t)
    PROVE  /\ entries' = entries /\ StateOk(cll') /\ RowsKnown(cll, cll')
           /\ \A k \in DOMAIN cll.witnesses : cll'.witnesses[k] = cll.witnesses[k]
           /\ EngineOperation(t)
<1>1. PICK n : n = t.arg.next
  OBVIOUS
<1>2. /\ StateOk(cll) /\ StateOk(n) /\ cll.nodes \in Seq(Value) /\ n.nodes \in Seq(Value)
      /\ CommitCllError(cll, t.arg.size, t.arg.checkpoint, n) = "none"
      /\ t.writes.meta = MetaOf(n)
      /\ t.writes.nodes = SubSeq(n.nodes, Len(cll.nodes) + 1, Len(n.nodes))
      /\ t.writes.rows = [k \in DOMAIN n.witnesses \ DOMAIN cll.witnesses |-> n.witnesses[k]]
  <2>1. /\ StateOk(cll) /\ ArgSound(t) /\ WriteSound(t)
    BY TxnFacts
  <2>2. StateOk(n)
    BY <1>1, <2>1 DEF ArgSound
  <2>3. /\ CommitCllError(cll, t.arg.size, t.arg.checkpoint, t.arg.next) = "none"
        /\ t.writes.meta = MetaOf(t.arg.next)
        /\ t.writes.nodes =
              SubSeq(t.arg.next.nodes, Len(cll.nodes) + 1, Len(t.arg.next.nodes))
        /\ t.writes.rows = [k \in DOMAIN t.arg.next.witnesses \ DOMAIN cll.witnesses |->
                              t.arg.next.witnesses[k]]
    BY <2>1 DEF WriteSound
  <2>4. cll.nodes \in Seq(Value) /\ n.nodes \in Seq(Value)
    BY <2>1, <2>2 DEF StateOk, IsState
  <2> QED  BY <1>1, <2>1, <2>2, <2>3, <2>4
<1>3. /\ StateOk(ApplyCll(cll, n)) /\ RowsKnown(cll, ApplyCll(cll, n))
      /\ Prefix(cll.nodes, n.nodes)
      /\ ApplyCll(cll, n) =
            [nodes |-> n.nodes, first_pending_at |-> n.first_pending_at,
             checkpoint |-> n.checkpoint, witnesses |-> MergeWitnesses(cll, n)]
  BY <1>2, ApplyOk
<1>4. cll.nodes \o t.writes.nodes = n.nodes
  BY <1>2, <1>3, InsertedNodes
<1> DEFINE rows == t.writes.rows
           merged == [k \in DOMAIN cll.witnesses \cup DOMAIN rows |->
                        IF k \in DOMAIN rows THEN rows[k] ELSE cll.witnesses[k]]
<1>5. merged = MergeWitnesses(cll, n)
  <2>1. /\ DOMAIN rows = DOMAIN n.witnesses \ DOMAIN cll.witnesses
        /\ \A k \in DOMAIN rows : rows[k] = n.witnesses[k]
    BY <1>2
  <2> HIDE DEF rows
  <2>2. DOMAIN cll.witnesses \cup DOMAIN rows = DOMAIN cll.witnesses \cup DOMAIN n.witnesses
    BY <2>1
  <2>3. \A k \in DOMAIN cll.witnesses \cup DOMAIN n.witnesses :
           (IF k \in DOMAIN rows THEN rows[k] ELSE cll.witnesses[k])
              = (IF k \in DOMAIN cll.witnesses THEN cll.witnesses[k] ELSE n.witnesses[k])
    BY <2>1
  <2> QED  BY <2>2, <2>3 DEF MergeWitnesses
<1>6. /\ entries' = entries
      /\ cll' = [nodes |-> cll.nodes \o t.writes.nodes,
                 first_pending_at |-> t.writes.meta.first_pending_at,
                 checkpoint |-> t.writes.meta.checkpoint,
                 witnesses |-> merged]
  BY DEF Visible
<1>7. /\ t.writes.meta.first_pending_at = n.first_pending_at
      /\ t.writes.meta.checkpoint = n.checkpoint
  BY <1>2 DEF MetaOf
<1> HIDE DEF merged, rows
<1>8. cll' = ApplyCll(cll, n)
  BY <1>3, <1>4, <1>5, <1>6, <1>7
<1>9. EngineOperation(t)
  BY <1>1, <1>2, <1>6, <1>8 DEF EngineOperation
<1>10. cll'.witnesses = MergeWitnesses(cll, n)
  BY <1>3, <1>8
<1>11. \A k \in DOMAIN cll.witnesses : cll'.witnesses[k] = cll.witnesses[k]
  BY <1>10 DEF MergeWitnesses
<1> QED  BY <1>3, <1>6, <1>8, <1>9, <1>11

\* commit_witness.
LEMMA VisibleWitness ==
    ASSUME SqlInductive, NEW h \in Handle, NEW t, t = txn[h], t.at = "commit",
           t.op = "commit_witness", Visible(t)
    PROVE  /\ entries' = entries /\ StateOk(cll') /\ SameIndex(cll, cll')
           /\ \A k \in DOMAIN cll.witnesses :
                 k # t.arg.key => cll'.witnesses[k] = cll.witnesses[k]
           /\ EngineOperation(t)
<1>1. PICK key, row : key = t.arg.key /\ row = t.arg.next
  OBVIOUS
<1>2. /\ StateOk(cll) /\ key \in DOMAIN cll.witnesses
      /\ row.checkpoint = cll.witnesses[key].checkpoint /\ ValidWitness(key, row)
      /\ t.writes = [key |-> key, row |-> row]
      /\ cll.witnesses[key].attempts = t.arg.attempts
  BY <1>1, TxnFacts DEF ArgSound, WriteSound
<1>3. /\ entries' = entries
      /\ cll' = [cll EXCEPT !.witnesses[t.writes.key] = t.writes.row]
  BY DEF Visible
<1>4. t.writes.key = key /\ t.writes.row = row
  BY <1>2
<1>5. cll' = [cll EXCEPT !.witnesses[key] = row]
  BY <1>3, <1>4
<1>6. EngineOperation(t)
  <2>1. CommitWitnessError(cll.witnesses, key, t.arg.attempts, row) = "none"
    BY <1>2 DEF CommitWitnessError
  <2>2. CommitWitness(key, row)
    BY <1>3, <1>5 DEF CommitWitness
  <2> QED  BY <1>1, <2>1, <2>2 DEF EngineOperation
<1> DEFINE rows == [cll.witnesses EXCEPT ![key] = row]
<1>7. cll' = [nodes |-> cll.nodes, first_pending_at |-> cll.first_pending_at,
              checkpoint |-> cll.checkpoint, witnesses |-> rows]
  BY <1>2, <1>5 DEF StateOk, IsState
<1>8. cll.witnesses = [k \in DOMAIN cll.witnesses |-> cll.witnesses[k]]
  BY <1>2 DEF StateOk, IsState
<1>9. /\ DOMAIN rows = DOMAIN cll.witnesses /\ rows[key] = row
      /\ \A k \in DOMAIN cll.witnesses : k # key => rows[k] = cll.witnesses[k]
      /\ rows = [k \in DOMAIN rows |-> rows[k]]
  BY <1>2, <1>8
<1> HIDE DEF rows
<1>10. StateOk(cll')
  <2>1. IsState(cll')
    BY <1>2, <1>7, <1>9 DEF StateOk, IsState
  <2>2. ASSUME NEW k \in DOMAIN rows
        PROVE  ValidWitness(k, rows[k]) /\ k[2] \in Nat /\ k[2] <= cll.checkpoint.size
    BY <1>2, <1>9 DEF StateOk, ValidState
  <2>3. ValidState(cll')
    BY <1>2, <1>7, <2>2 DEF StateOk, ValidState
  <2> QED  BY <1>7, <2>1, <2>2, <2>3 DEF StateOk
<1>11. SameIndex(cll, cll')
  BY <1>2, <1>7, <1>9 DEF SameIndex, RowsKnown
<1> QED  BY <1>1, <1>3, <1>6, <1>7, <1>9, <1>10, <1>11

\* What COMMIT does to the tables, for any of the three.
LEMMA VisibleFacts ==
    ASSUME SqlInductive, NEW h \in Handle, NEW t, t = txn[h], t.at = "commit", Visible(t)
    PROVE  /\ entries' \in Seq(Entry) /\ Distinct(entries') /\ Grows
           /\ StateOk(cll') /\ RowsKnown(cll, cll')
           /\ t.op = "append" =>
                 /\ t.writes.seq \in 1..Len(entries')
                 /\ entries'[t.writes.seq].value = t.arg.value
           /\ \A k \in DOMAIN cll.witnesses :
                 ~(t.op = "commit_witness" /\ k = t.arg.key)
                    => cll'.witnesses[k] = cll.witnesses[k]
           /\ ~Locking(t) => entries' = entries /\ SameIndex(cll, cll')
           /\ UNCHANGED storeVars \/ EngineOperation(t)
<1>1. /\ entries \in Seq(Entry) /\ Distinct(entries) /\ StateOk(cll)
      /\ Len(entries) \in Nat /\ PlaceOk(t)
  BY TxnFacts, LenProperties DEF SqlInductive, TablesSound
<1>2. entries' = entries => Grows /\ Distinct(entries') /\ entries' \in Seq(Entry)
  BY <1>1 DEF Grows
<1>3. CASE t.op = "append"
  <2>1. cll' = cll /\ Locking(t)
    BY <1>3, VisibleAppend DEF Locking
  <2> QED  BY <1>1, <1>3, <2>1, VisibleAppend, SameSelf
<1>4. CASE t.op = "commit_cll"
  <2>1. Locking(t)
    BY <1>4 DEF Locking
  <2> QED  BY <1>2, <1>4, <2>1, VisibleCll
<1>5. CASE t.op = "commit_witness"
  BY <1>2, <1>5, VisibleWitness DEF SameIndex
<1> QED  BY <1>1, <1>3, <1>4, <1>5 DEF PlaceOk, Idle, Fresh

\* A COMMIT respects the locks of all others, and keeps the invariant, whether
\* or not its answer arrives and the handle survives.
LEMMA StoreStep ==
    ASSUME SqlInductive, NEW h \in Handle, NEW t, t = txn[h], t.at = "commit", Visible(t),
           Rollback(h), provisioned' = provisioned,
           DOMAIN status' = Handle, DOMAIN loaded' = Handle,
           \A g \in Handle \ {h} : status'[g] = status[g] /\ loaded'[g] = loaded[g],
           loaded'[h] = loaded[h] \/ loaded'[h] = None,
           \A a \in acked' : a \in acked
                            \/ (t.op = "append" /\ a = <<t.writes.seq, t.arg.value>>)
    PROVE  SqlInductive'
<1>1. /\ entries' \in Seq(Entry) /\ Distinct(entries') /\ Grows
      /\ StateOk(cll') /\ RowsKnown(cll, cll')
      /\ t.op = "append" => /\ t.writes.seq \in 1..Len(entries')
                            /\ entries'[t.writes.seq].value = t.arg.value
      /\ \A k \in DOMAIN cll.witnesses :
            ~(t.op = "commit_witness" /\ k = t.arg.key)
               => cll'.witnesses[k] = cll.witnesses[k]
      /\ ~Locking(t) => entries' = entries /\ SameIndex(cll, cll')
  BY VisibleFacts
<1>2. /\ IsTxn(t) /\ PlaceOk(t) /\ (t.op # "none" => status[h] = "open")
      /\ (Locking(t) => writer = h) /\ StateOk(cll)
  BY TxnFacts
<1>3. txn' = [txn EXCEPT ![h] = Idle] /\ DOMAIN txn = Handle
  BY DEF Rollback, SqlInductive, HandlesSound
<1>4. /\ DOMAIN txn' = Handle /\ txn'[h] = Idle
      /\ \A g \in Handle \ {h} : txn'[g] = txn[g]
  BY <1>3
<1>5. TablesSound'
  <2>1. ASSUME NEW a \in acked'
        PROVE  a[1] \in 1..Len(entries') /\ entries'[a[1]].value = a[2]
    <3>1. CASE a \in acked
      <4>1. a[1] \in 1..Len(entries) /\ entries[a[1]].value = a[2]
        BY <3>1 DEF SqlInductive, TablesSound
      <4> QED  BY <1>1, <4>1 DEF Grows
    <3>2. CASE t.op = "append" /\ a = <<t.writes.seq, t.arg.value>>
      BY <1>1, <3>2
    <3> QED  BY <3>1, <3>2
  <2> QED  BY <1>1, <2>1 DEF TablesSound
<1>6. HandlesSound'
  <2>1. t.op # "none"
    BY <1>2 DEF PlaceOk, Idle, Fresh
  <2>2. provisioned
    BY <1>2, <2>1 DEF SqlInductive, HandlesSound
  <2> QED  BY <1>4, <2>2 DEF HandlesSound
<1>7. RowLocks'
  <2>1. txn'[h].op = "none"
    BY <1>4, IdleFacts
  <2> QED  BY <1>4, <2>1 DEF SqlInductive, RowLocks
<1>8. ASSUME NEW g \in Handle PROVE LoadedSound(g)'
  <2>1. LoadedSound(g) /\ (loaded'[g] = loaded[g] \/ loaded'[g] = None)
    BY DEF SqlInductive
  <2>2. RowsKnown(loaded[g], cll) => RowsKnown(loaded[g], cll')
    BY <1>1, KnownTrans
  <2> QED  BY <2>1, <2>2 DEF LoadedSound
<1>9. TxnSound(h)'
  <2>1. PICK u : u = Idle
    OBVIOUS
  <2>2. IsTxn(u) /\ PlaceOk(u) /\ ~Locking(u) /\ Carries(u)' /\ u.op = "none"
    <3>1. IsTxn(u) /\ PlaceOk(u) /\ ~Locking(u) /\ u.op = "none"
      BY <2>1, IdleFacts, Zenon
    <3>2. u.view = {} /\ u.at = "idle"
      BY <2>1 DEF Idle, Fresh
    <3>3. Carries(u)'
      BY <3>1, <3>2 DEF Carries, ViewSound, ArgSound, SeenSound, WriteSound
    <3> QED  BY <3>1, <3>3
  <2>3. txn'[h] = u
    BY <1>4, <2>1
  <2> QED  BY <2>2, <2>3 DEF TxnSound
<1>10. ASSUME NEW g \in Handle \ {h} PROVE TxnSound(g)'
  <2>1. PICK c : c = txn[g]
    OBVIOUS
  <2>2. /\ IsTxn(c) /\ PlaceOk(c) /\ (c.op # "none" => status[g] = "open")
        /\ (Locking(c) => writer = g) /\ Carries(c)
    BY <2>1 DEF SqlInductive, TxnSound
  <2>3. Locking(c) => entries' = entries /\ SameIndex(cll, cll')
    BY <1>1, <1>2, <2>2
  <2>4. c.op = "commit_witness" /\ c.at = "commit" =>
           cll'.witnesses[c.arg.key].attempts = cll.witnesses[c.arg.key].attempts
    <3> SUFFICES ASSUME c.op = "commit_witness", c.at = "commit"
                 PROVE  cll'.witnesses[c.arg.key] = cll.witnesses[c.arg.key]
      OBVIOUS
    <3>1. c.arg.key \in DOMAIN cll.witnesses
      BY <2>2 DEF Carries, ArgSound
    <3>2. ~(t.op = "commit_witness" /\ c.arg.key = t.arg.key)
      BY <2>1 DEF SqlInductive, RowLocks
    <3> QED  BY <1>1, <3>1, <3>2
  <2>5. Carries(c)'
    BY <1>1, <1>2, <2>2, <2>3, <2>4, CarriesKept
  <2>6. Locking(c) => writer' = g
    BY <2>2 DEF Rollback
  <2>7. txn'[g] = c /\ (c.op # "none" => status'[g] = "open")
    BY <1>4, <2>1, <2>2
  <2> QED  BY <2>2, <2>5, <2>6, <2>7 DEF TxnSound
<1> QED  BY <1>5, <1>6, <1>7, <1>8, <1>9, <1>10 DEF SqlInductive

\* COMMIT returns, the connection is dropped, or the process crashes.
LEMMA CommitStep ==
    ASSUME SqlInductive, NEW h \in Handle, Commit(h) \/ Dropped(h) \/ Crashed(h)
    PROVE  SqlInductive' /\ (UNCHANGED storeVars \/ EngineOperation(txn[h]))
<1>1. PICK t : t = txn[h]
  OBVIOUS
<1>2. DOMAIN status = Handle /\ DOMAIN loaded = Handle
  BY DEF SqlInductive, HandlesSound
<1>3. /\ Rollback(h) /\ provisioned' = provisioned
      /\ DOMAIN status' = Handle /\ DOMAIN loaded' = Handle
      /\ \A g \in Handle \ {h} : status'[g] = status[g] /\ loaded'[g] = loaded[g]
      /\ loaded'[h] = loaded[h] \/ loaded'[h] = None
      /\ status'[h] = status[h] \/ status'[h] = "closed"
  BY <1>2 DEF Commit, Dropped, Crashed, SessionEnds
<1>4. \/ /\ t.at = "commit" /\ Visible(t)
         /\ \A a \in acked' : \/ a \in acked
                              \/ t.op = "append" /\ a = <<t.writes.seq, t.arg.value>>
      \/ UNCHANGED storeVars /\ acked' = acked
  BY <1>1 DEF Commit, Dropped, Crashed, SessionEnds
<1>5. CASE /\ t.at = "commit" /\ Visible(t)
           /\ \A a \in acked' : \/ a \in acked
                                \/ t.op = "append" /\ a = <<t.writes.seq, t.arg.value>>
  <2>1. SqlInductive'
    BY <1>1, <1>3, <1>5, StoreStep
  <2>2. UNCHANGED storeVars \/ EngineOperation(t)
    BY <1>1, <1>5, VisibleFacts
  <2> QED  BY <1>1, <2>1, <2>2
<1>6. CASE UNCHANGED storeVars /\ acked' = acked
  <2>1. UNCHANGED <<entries, cll, provisioned, acked>>
    BY <1>3, <1>6 DEF storeVars
  <2>2. LoadedSound(h)'
    BY <1>3, <2>1 DEF SqlInductive, LoadedSound
  <2>3. /\ writer' = writer \/ writer \in {None, h}
        /\ ~provisioned => status'[h] # "open"
    BY <1>3 DEF Rollback, SqlInductive, HandlesSound
  <2>4. PICK u : u = Idle /\ txn' = [txn EXCEPT ![h] = u]
    BY <1>3 DEF Rollback
  <2>5. IsTxn(u) /\ PlaceOk(u) /\ ~Locking(u) /\ Carries(u) /\ u.op = "none"
    BY <2>4, IdleFacts, Zenon
  <2>6. SqlInductive'
    BY <1>3, <2>1, <2>2, <2>3, <2>4, <2>5, LocalStep
  <2> QED  BY <1>6, <2>6
<1> QED  BY <1>4, <1>5, <1>6

-----------------------------------------------------------------------------
(***************************************************************************)
(* The invariant.                                                          *)
(***************************************************************************)

\* It holds of an unprovisioned database without handles.
LEMMA SqlStart == SqlInit => SqlInductive
<1> SUFFICES ASSUME SqlInit PROVE SqlInductive
  OBVIOUS
<1>1. entries = <<>> /\ cll = EmptyState /\ acked = {}
  BY DEF SqlInit, StoreInit
<1>2. TablesSound
  BY <1>1, EmptyOk, EmptySeq DEF TablesSound, Distinct
<1>3. \A h \in Handle : txn[h] = Idle /\ status[h] = "closed" /\ loaded[h] = None
  BY DEF SqlInit
<1>4. HandlesSound
  BY <1>1, <1>3 DEF SqlInit, HandlesSound
<1>5. RowLocks
  <2>1. \A h \in Handle : txn[h].op = "none"
    BY <1>3, IdleFacts
  <2> QED  BY <2>1 DEF RowLocks
<1>6. \A h \in Handle : TxnSound(h) /\ LoadedSound(h)
  BY <1>3, IdleFacts, Zenon DEF TxnSound, LoadedSound
<1> QED  BY <1>2, <1>4, <1>5, <1>6 DEF SqlInductive

\* Every step keeps it, and changes the tables by an operation of the engine.
LEMMA SqlStep ==
    SqlInductive /\ [SqlNext]_sqlVars =>
        /\ SqlInductive'
        /\ UNCHANGED storeVars \/ \E h \in Handle : EngineOperation(txn[h])
<1> SUFFICES ASSUME SqlInductive, [SqlNext]_sqlVars
             PROVE  /\ SqlInductive'
                    /\ UNCHANGED storeVars \/ \E h \in Handle : EngineOperation(txn[h])
  OBVIOUS
<1>1. CASE UNCHANGED sqlVars
  <2>1. UNCHANGED storeVars
    BY <1>1 DEF sqlVars, storeVars
  <2>2. TablesSound' /\ HandlesSound' /\ RowLocks'
    BY <1>1 DEF sqlVars, SqlInductive, TablesSound, Distinct, HandlesSound, RowLocks
  <2>3. ASSUME NEW g \in Handle PROVE TxnSound(g)' /\ LoadedSound(g)'
    <3>1. PICK t : t = txn[g]
      OBVIOUS
    <3>2. /\ IsTxn(t) /\ PlaceOk(t) /\ (t.op # "none" => status[g] = "open")
          /\ (Locking(t) => writer = g)
          /\ Carries(t) /\ StateOk(cll) /\ LoadedSound(g)
      BY <3>1 DEF SqlInductive, TxnSound, TablesSound
    <3>3. cll' = cll /\ entries' = entries
      BY <1>1 DEF sqlVars
    <3>4. RowsKnown(cll, cll') /\ SameIndex(cll, cll')
      BY <3>3, SameSelf
    <3>5. Carries(t)'
      BY <3>2, <3>3, <3>4, CarriesKept
    <3>6. txn'[g] = t /\ status'[g] = status[g] /\ writer' = writer /\ loaded'[g] = loaded[g]
      BY <1>1, <3>1 DEF sqlVars
    <3>7. TxnSound(g)'
      BY <3>2, <3>5, <3>6 DEF TxnSound
    <3>8. LoadedSound(g)'
      BY <3>2, <3>3, <3>6 DEF LoadedSound
    <3> QED  BY <3>7, <3>8
  <2>4. SqlInductive'
    BY <2>2, <2>3 DEF SqlInductive
  <2> QED  BY <2>1, <2>4
<1>2. ASSUME NEW h \in Handle, Provision(h) \/ OpenHandle(h) \/ CloseHandle(h)
      PROVE  SqlInductive' /\ UNCHANGED storeVars
  <2>1. UNCHANGED storeVars
    BY <1>2 DEF storeVars, SqlInductive, HandlesSound, Provision, OpenHandle, CloseHandle
  <2> QED  BY <1>2, <2>1, HandleStep
<1>3. ASSUME NEW h \in Handle,
             CallAppend(h) \/ CallLoad(h) \/ CallCommitCll(h) \/ CallCommitWitness(h)
      PROVE  SqlInductive' /\ UNCHANGED storeVars
  <2>1. UNCHANGED storeVars
    BY <1>3 DEF storeVars, CallAppend, CallLoad, CallCommitCll, CallCommitWitness, Begin
  <2> QED  BY <1>3, <2>1, CallStep
<1>4. ASSUME NEW h \in Handle, Aborts(h) \/ \E t : Continues(h, t)
      PROVE  UNCHANGED storeVars
  BY <1>4 DEF storeVars, Aborts, Continues
<1>5. ASSUME NEW h \in Handle,
             LockMeta(h) \/ ReadMeta(h) \/ ReadNodes(h) \/ ReadRows(h) \/ ReturnLoad(h)
      PROVE  SqlInductive' /\ UNCHANGED storeVars
  <2>1. UNCHANGED storeVars
    BY <1>5 DEF storeVars, LockMeta, ReadMeta, ReadNodes, ReadRows, ReturnLoad, Continues
  <2> QED  BY <1>5, <2>1, LockMetaStep, ReadStep, ReturnLoadStep
<1>6. ASSUME NEW h \in Handle,
             Append1(h) \/ CommitCll1(h) \/ ReadWitness(h) \/ UpdateWitness(h) \/ LockTimeout(h)
      PROVE  SqlInductive' /\ UNCHANGED storeVars
  <2>1. UNCHANGED storeVars
    <3>1. Aborts(h) \/ \E t : Continues(h, t)
      BY <1>6 DEF Append1, CommitCll1, ReadWitness, UpdateWitness, LockTimeout
    <3> QED  BY <1>4, <3>1
  <2>2. LockTimeout(h) => SqlInductive'
    BY AbortStep DEF LockTimeout
  <2> QED
    BY <1>6, <2>1, <2>2, AppendStep, CommitCllStep, ReadWitnessStep, UpdateWitnessStep
<1>7. ASSUME NEW h \in Handle, Commit(h) \/ Dropped(h) \/ Crashed(h)
      PROVE  SqlInductive' /\ (UNCHANGED storeVars \/ EngineOperation(txn[h]))
  BY <1>7, CommitStep
<1> QED  BY <1>1, <1>2, <1>3, <1>5, <1>6, <1>7 DEF SqlNext

\* The invariant of the relational backends.
LEMMA SqlHolds == SqlSpec => []SqlInductive
  BY SqlStart, SqlStep, PTL DEF SqlSpec

-----------------------------------------------------------------------------
(***************************************************************************)
(* The theorems.                                                           *)
(***************************************************************************)

\* Every change of the tables is an operation of the engine on the tables as
\* they are (sql.py append, commit_cll and commit_witness), whatever views and
\* locks the handles hold, however connections drop and processes crash.
THEOREM SqlIsEngine == SqlSpec => CommitsAsEngine
<1>1. SqlInductive /\ [SqlNext]_sqlVars =>
         [\E h \in Handle : EngineOperation(txn[h])]_storeVars
  BY SqlStep
<1> QED  BY <1>1, SqlHolds, PTL DEF SqlSpec, CommitsAsEngine

\* load_state never puts together tables of two moments, so no reader of a
\* healthy database reports CorruptError.
THEOREM LoadsAreTogether == SqlSpec => []LoadedTogether
<1>1. SqlInductive => LoadedTogether
  <2> SUFFICES ASSUME SqlInductive, NEW h \in Handle, txn[h].at = "apply"
               PROVE  /\ Sound(txn[h].seen)
                      /\ \A k \in DOMAIN txn[h].seen.rows :
                            k[2] <= txn[h].seen.meta.checkpoint.size
    BY DEF LoadedTogether
  <2>1. PICK t : t = txn[h]
    OBVIOUS
  <2>2. SeenSound(t) /\ t.at = "apply"
    BY <2>1, TxnFacts
  <2>3. t.seen.meta = MetaOf(Source(t)) /\ t.seen.nodes = Source(t).nodes
    BY <2>2 DEF SeenSound
  <2>4. t.seen.meta.size = Len(t.seen.nodes)
    BY <2>3 DEF MetaOf
  <2>5. StateOk(StateOf(t.seen))
    BY <2>2 DEF SeenSound
  <2>6. /\ StateOf(t.seen).witnesses = t.seen.rows
        /\ StateOf(t.seen).checkpoint = t.seen.meta.checkpoint
    BY DEF StateOf
  <2> QED  BY <2>1, <2>4, <2>5, <2>6 DEF Sound, StateOk
<1> QED  BY <1>1, SqlHolds, PTL

\* Distinct entries have as many values as there are entries.
LEMMA CountDistinct ==
    ASSUME NEW es \in Seq(Entry), Distinct(es)
    PROVE  Cardinality({es[i].value : i \in DOMAIN es}) = Len(es)
<1> DEFINE n == Len(es)
           V == {es[i].value : i \in DOMAIN es}
           f == [i \in 1..n |-> es[i].value]
<1>1. n \in Nat /\ DOMAIN es = 1..n
  BY LenProperties
<1>2. f \in Bijection(1..n, V)
  <2>1. f \in [1..n -> V]
    BY <1>1
  <2>2. \A i \in 1..n : \A j \in 1..n : f[i] = f[j] => i = j
    BY DEF Distinct
  <2>3. \A v \in V : \E i \in 1..n : f[i] = v
    BY <1>1
  <2> HIDE DEF f, V, n
  <2> QED  BY <2>1, <2>2, <2>3 DEF Bijection, Injection, Surjection, IsInjective
<1>3. IsFiniteSet(1..n) /\ Cardinality(1..n) = n
  BY <1>1, FS_Interval
<1> HIDE DEF f, V, n
<1>4. ExistsBijection(1..n, V)
  BY <1>2 DEF ExistsBijection
<1>5. Cardinality(V) = n
  BY <1>3, <1>4, FS_Bijection
<1> QED  BY <1>5 DEF V, n

\* What append returned is what get_entry, scan_entries and entry_count serve
\* from then on, and no value gets two sequences, also when a caller repeats
\* an append whose answer was lost.
THEOREM AppendsAreOnce == SqlSpec => []AppendsOnce
<1>1. SqlInductive => AppendsOnce
  <2> SUFFICES ASSUME SqlInductive PROVE AppendsOnce
    OBVIOUS
  <2>1. /\ entries \in Seq(Entry) /\ Distinct(entries) /\ Len(entries) \in Nat
        /\ DOMAIN entries = 1..Len(entries)
    BY LenProperties DEF SqlInductive, TablesSound
  <2>2. EntryCount = Cardinality({entries[i].value : i \in DOMAIN entries})
    BY <2>1, CountDistinct DEF EntryCount
  <2>3. ASSUME NEW a \in acked
        PROVE  GetEntry(a[2]) = {a[1]} /\ SelectPage(a[1] - 1, 1) = <<a[2]>>
    <3>1. a[1] \in 1..Len(entries) /\ entries[a[1]].value = a[2]
      BY DEF SqlInductive, TablesSound
    <3>2. GetEntry(a[2]) = {a[1]}
      BY <2>1, <3>1 DEF GetEntry, FoundIn, Distinct
    <3>3. PICK n : n = a[1]
      OBVIOUS
    <3>4. /\ n \in Nat /\ n <= Len(entries) /\ n - 1 + 1 = n
      BY <2>1, <3>1, <3>3
    <3>5. SelectPage(n - 1, 1) = [k \in 1..1 |-> entries[n - 1 + k].value]
      <4>1. (IF n - 1 + 1 < Len(entries) THEN n - 1 + 1 ELSE Len(entries)) = n
        <5>1. PICK m \in Nat : m = Len(entries)
          BY <2>1
        <5>2. n <= m => (IF n < m THEN n ELSE m) = n
          BY <3>4
        <5> QED  BY <3>4, <5>1, <5>2
      <4>2. n - (n - 1) = 1
        BY <3>4
      <4> QED  BY <4>1, <4>2 DEF SelectPage, EntryCount
    <3>6. [k \in 1..1 |-> entries[n - 1 + k].value] = <<a[2]>>
      <4>1. \A k \in 1..1 : entries[n - 1 + k].value = a[2]
        BY <3>1, <3>3, <3>4
      <4> QED  BY <4>1
    <3> QED  BY <3>2, <3>3, <3>5, <3>6
  <2> QED  BY <2>2, <2>3 DEF AppendsOnce
<1> QED  BY <1>1, SqlHolds, PTL
=============================================================================
