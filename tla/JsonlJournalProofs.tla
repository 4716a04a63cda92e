-------------------------- MODULE JsonlJournalProofs --------------------------
(***************************************************************************)
(* Proofs about JsonlJournal, for any number of lines, values, witnesses   *)
(* and faults.                                                             *)
(***************************************************************************)
EXTENDS JsonlJournal, NatRecursion, SequenceTheorems

(***************************************************************************)
(* The inductive invariant.  Every journal that is in the file or that a   *)
(* power loss may leave replays to a sound engine and begins with what was *)
(* acknowledged; and while an event is being written, the file is what it  *)
(* was before, with or without the event, the engine is what replaying the *)
(* event gives, and the snapshot is what replaying the rest gives.         *)
(***************************************************************************)
IsLines(l) == l \in Seq({l[i] : i \in DOMAIN l})

IsState(s) ==
    /\ s = [nodes |-> s.nodes, first_pending_at |-> s.first_pending_at,
            checkpoint |-> s.checkpoint, witnesses |-> s.witnesses]
    /\ s.nodes \in Seq(Value)
    /\ s.witnesses = [k \in DOMAIN s.witnesses |-> s.witnesses[k]]

\* The engine with these entries and this state.
EngineOf(es, s) == [ok |-> TRUE, entries |-> es, cll |-> s]

IsEngine(r) ==
    /\ r = EngineOf(r.entries, r.cll)
    /\ r.entries \in Seq(Entry)
    /\ IsState(r.cll)

JournalOk(f) ==
    /\ f = [lines |-> f.lines, torn |-> f.torn]
    /\ IsLines(f.lines)
    /\ Prefix(acked, f.lines)
    /\ IsEngine(Replay(f.lines))

\* The lines before the event that is being written.
Base == SubSeq(file.lines, 1, start)

Writing == status \in {"write", "sync", "rollback", "resync"}

FileOk ==
    /\ start \in Nat
    /\ status \in {"write", "resync"} => Len(file.lines) = start
    /\ status = "sync" => Len(file.lines) = start + 1
    /\ Len(file.lines) = start \/ file.lines = Append(Base, event)
    /\ IsLines(Base) /\ Len(Base) = start
    /\ Len(acked) <= start
    /\ IsEngine(Replay(Base))

EventOk ==
    \/ /\ event = InitEvent /\ start = 0
    \/ /\ event.type # "cll.init" /\ start > 0
       /\ Replay(Base) = EngineOf(SubSeq(entries, 1, snapshot.count), snapshot.cll)
       /\ ApplyEvent(Replay(Base), event) = EngineOf(entries, cll)
       /\ IsEngine(EngineOf(entries, cll))

JournalInductive ==
    /\ IsLines(acked)
    /\ \A f \in images \cup {file} : JournalOk(f)
    /\ status \in {"closed", "repair", "open", "write", "sync", "rollback", "resync"}
    /\ status = "open" => /\ file.lines # <<>>
                          /\ Replay(file.lines) = EngineOf(entries, cll)
    /\ Writing => FileOk /\ EventOk

-----------------------------------------------------------------------------
(***************************************************************************)
(* Facts about replay.                                                     *)
(***************************************************************************)

\* g is what replay has built after each of the first n lines.
Builds(g, lines, n) ==
    g = [i \in 0..n |-> IF i = 0 THEN Blank ELSE ApplyEvent(g[i - 1], lines[i])]

\* Replay of the same lines builds the same.
LEMMA BuildsAgree ==
    ASSUME NEW n \in Nat, NEW m \in Nat, n <= m, NEW l, NEW k,
           \A i \in 1..n : l[i] = k[i],
           NEW g, NEW h, Builds(g, l, n), Builds(h, k, m)
    PROVE  \A i \in 0..n : g[i] = h[i]
<1> DEFINE A == {i \in Nat : i <= n => g[i] = h[i]}
<1>1. /\ \A i \in 0..n : g[i] = IF i = 0 THEN Blank ELSE ApplyEvent(g[i - 1], l[i])
      /\ \A i \in 0..m : h[i] = IF i = 0 THEN Blank ELSE ApplyEvent(h[i - 1], k[i])
  BY DEF Builds
<1>2. 0 \in A
  BY <1>1
<1>3. ASSUME NEW i \in Nat, i \in A PROVE i + 1 \in A
  <2> SUFFICES ASSUME i + 1 <= n PROVE g[i + 1] = h[i + 1]
    OBVIOUS
  <2>1. /\ i + 1 \in 0..n /\ i + 1 \in 0..m /\ i + 1 \in 1..n /\ i + 1 # 0 /\ (i + 1) - 1 = i
    OBVIOUS
  <2>2. g[i] = h[i] /\ l[i + 1] = k[i + 1]
    BY <1>3, <2>1
  <2>3. g[i + 1] = ApplyEvent(g[i], l[i + 1]) /\ h[i + 1] = ApplyEvent(h[i], k[i + 1])
    BY <1>1, <2>1
  <2> QED  BY <2>2, <2>3
<1> HIDE DEF A
<1>4. Nat \subseteq A
  BY <1>2, <1>3, SetInduction
<1> QED  BY <1>4 DEF A

\* The recursion of replay has a solution, which Replayed is.
LEMMA ReplayedBuilds ==
    ASSUME NEW l, Len(l) \in Nat
    PROVE  Builds(Replayed(l), l, Len(l))
<1> DEFINE A == {n \in Nat : \E g : Builds(g, l, n)}
<1>1. 0 \in A
  <2> DEFINE g == [i \in 0..0 |-> Blank]
  <2>1. Builds(g, l, 0)
    BY DEF Builds
  <2> QED  BY <2>1
<1>2. ASSUME NEW n \in Nat, n \in A PROVE n + 1 \in A
  <2>1. PICK g : Builds(g, l, n)
    BY <1>2
  <2> DEFINE h == [i \in 0..(n + 1) |-> IF i <= n THEN g[i] ELSE ApplyEvent(g[n], l[n + 1])]
  <2>2. \A i \in 0..n : g[i] = IF i = 0 THEN Blank ELSE ApplyEvent(g[i - 1], l[i])
    BY <2>1 DEF Builds
  <2>3. ASSUME NEW i \in 0..(n + 1)
        PROVE  h[i] = IF i = 0 THEN Blank ELSE ApplyEvent(h[i - 1], l[i])
    <3>1. CASE i = 0
      BY <2>2, <3>1
    <3>2. CASE i # 0 /\ i <= n
      <4>1. i \in 0..n /\ i - 1 \in 0..(n + 1) /\ i - 1 <= n
        BY <3>2
      <4>2. h[i] = g[i] /\ h[i - 1] = g[i - 1]
        BY <4>1
      <4> HIDE DEF h
      <4> QED  BY <2>2, <3>2, <4>1, <4>2
    <3>3. CASE i = n + 1
      <4>1. i # 0 /\ ~(i <= n) /\ i - 1 = n /\ n \in 0..(n + 1) /\ n <= n
        BY <3>3
      <4>2. h[i] = ApplyEvent(g[n], l[n + 1]) /\ h[n] = g[n]
        BY <4>1
      <4> HIDE DEF h
      <4> QED  BY <3>3, <4>1, <4>2
    <3> QED  BY <3>1, <3>2, <3>3
  <2>4. h = [i \in 0..(n + 1) |-> h[i]]
    OBVIOUS
  <2> HIDE DEF h
  <2>5. Builds(h, l, n + 1)
    BY <2>3, <2>4 DEF Builds
  <2> QED  BY <2>5
<1> HIDE DEF A
<1>3. Nat \subseteq A
  BY <1>1, <1>2, SetInduction
<1>4. \E g : Builds(g, l, Len(l))
  BY <1>3 DEF A
<1>5. Replayed(l) = CHOOSE g : Builds(g, l, Len(l))
  BY DEF Replayed, Builds
<1> QED  BY <1>4, <1>5

\* A sequence is a sequence of its own elements.
LEMMA LinesOf ==
    ASSUME NEW S, NEW l \in Seq(S)
    PROVE  IsLines(l)
<1>1. Len(l) \in Nat /\ l \in [1..Len(l) -> S] /\ DOMAIN l = 1..Len(l)
  BY LenProperties
<1> DEFINE T == {l[i] : i \in DOMAIN l}
<1>2. l \in [1..Len(l) -> T]
  BY <1>1
<1> HIDE DEF T
<1>3. l \in Seq(T)
  BY <1>1, <1>2, SeqDef
<1> QED  BY <1>3 DEF IsLines, T

\* The lines of a journal, and those with one more.
LEMMA OneMoreLine ==
    ASSUME NEW l, IsLines(l), NEW e
    PROVE  /\ Len(l) \in Nat /\ SubSeq(l, 1, Len(l)) = l
           /\ l # <<>> <=> Len(l) > 0
           /\ IsLines(Append(l, e)) /\ Len(Append(l, e)) = Len(l) + 1
           /\ \A i \in 1..Len(l) : Append(l, e)[i] = l[i]
           /\ Append(l, e)[Len(l) + 1] = e
           /\ SubSeq(Append(l, e), 1, Len(l)) = l
<1> DEFINE S == {l[i] : i \in DOMAIN l}
           T == S \cup {e}
           m == Append(l, e)
<1>1. l \in Seq(S)
  BY DEF IsLines
<1> HIDE DEF S
<1>2. S \subseteq T /\ e \in T
  OBVIOUS
<1> HIDE DEF T
<1>3. l \in Seq(T)
  BY <1>1, <1>2, SeqMonotonic
<1>4. /\ m \in Seq(T) /\ Len(m) = Len(l) + 1 /\ m[Len(l) + 1] = e
      /\ \A i \in 1..Len(l) : m[i] = l[i]
  BY <1>2, <1>3, AppendProperties
<1>5. Len(l) \in Nat
  BY <1>3, LenProperties
<1>6. SubSeq(l, 1, Len(l)) = l
  BY <1>3, SubSeqFull
<1>7. l # <<>> <=> Len(l) > 0
  BY <1>3, <1>5, EmptySeq
<1> HIDE DEF m
<1>8. SubSeq(m, 1, Len(l)) = l
  <2>1. PICK n : n = Len(l)
    OBVIOUS
  <2>2. \A i \in 1..n : m[i] \in T
    <3>1. \A i \in 1..n : i \in 1..Len(m)
      BY <1>4, <1>5, <2>1
    <3> QED  BY <1>4, <3>1, ElementOfSeq
  <2>3. n \in Int /\ 1 \in Int
    BY <1>5, <2>1
  <2>4. /\ SubSeq(m, 1, n) \in Seq(T)
        /\ Len(SubSeq(m, 1, n)) = IF 1 <= n THEN n - 1 + 1 ELSE 0
        /\ \A i \in 1..(n - 1 + 1) : SubSeq(m, 1, n)[i] = m[1 + i - 1]
    BY <2>2, <2>3, SubSeqProperties
  <2>5. Len(SubSeq(m, 1, n)) = Len(l) /\ \A i \in 1..n : SubSeq(m, 1, n)[i] = l[i]
    BY <1>4, <1>5, <2>1, <2>4
  <2> QED  BY <1>3, <2>1, <2>4, <2>5, SeqEqual
<1>9. IsLines(m)
  BY <1>4, LinesOf
<1> QED  BY <1>4, <1>5, <1>6, <1>7, <1>8, <1>9 DEF m

\* An empty journal replays to the empty engine.
LEMMA ReplayNothing == Replay(<<>>) = Blank
<1>1. Len(<<>>) = 0
  BY EmptySeq
<1>2. Builds(Replayed(<<>>), <<>>, 0)
  BY <1>1, ReplayedBuilds
<1>3. Replayed(<<>>)[0] = Blank
  BY <1>2 DEF Builds
<1> QED  BY <1>1, <1>3 DEF Replay

\* One more line applies its event to what the others replay to.
LEMMA ReplayOneMore ==
    ASSUME NEW l, IsLines(l), NEW e,
           IF l = <<>> THEN e.type = "cll.init" ELSE l[1].type = "cll.init"
    PROVE  Replay(Append(l, e)) = ApplyEvent(Replay(l), e)
<1> DEFINE m == Append(l, e)
           n == Len(l)
<1>1. /\ n \in Nat /\ Len(m) = n + 1 /\ \A i \in 1..n : m[i] = l[i]
      /\ m[n + 1] = e /\ IsLines(m) /\ (l # <<>> <=> n > 0)
  BY OneMoreLine
<1> HIDE DEF m
<1>2. Builds(Replayed(l), l, n) /\ Builds(Replayed(m), m, n + 1)
  BY <1>1, ReplayedBuilds
<1>3. \A i \in 0..n : Replayed(l)[i] = Replayed(m)[i]
  <2>1. n + 1 \in Nat /\ n <= n + 1 /\ \A i \in 1..n : l[i] = m[i]
    BY <1>1
  <2>2. PICK q : q = n + 1
    OBVIOUS
  <2> HIDE DEF n
  <2>3. q \in Nat /\ n \in Nat /\ n <= q /\ Builds(Replayed(m), m, q)
    BY <1>1, <1>2, <2>1, <2>2
  <2>4. PICK g : g = Replayed(l)
    OBVIOUS
  <2>5. PICK h : h = Replayed(m)
    OBVIOUS
  <2>6. Builds(g, l, n) /\ Builds(h, m, q)
    BY <1>2, <2>3, <2>4, <2>5
  <2>7. \A i \in 0..n : g[i] = h[i]
    <3>1. \A i \in 1..n : l[i] = m[i]
      BY <2>1
    <3>2. n \in Nat /\ q \in Nat /\ n <= q
      BY <2>3
    <3> QED BY ONLY <2>6, <3>1, <3>2, BuildsAgree
  <2> QED  BY <2>4, <2>5, <2>7
<1>4. Replayed(m)[n + 1] = ApplyEvent(Replayed(m)[n], m[n + 1])
  <2>1. n + 1 \in 0..(n + 1) /\ n + 1 # 0 /\ (n + 1) - 1 = n
    BY <1>1
  <2> QED  BY <1>2, <2>1 DEF Builds
<1>5. Replayed(m)[n + 1] = ApplyEvent(Replayed(l)[n], e)
  BY <1>1, <1>3, <1>4
<1>6. m[1].type = "cll.init" /\ (l # <<>> => l[1].type = "cll.init")
  <2>1. CASE n = 0
    BY <1>1, <2>1
  <2>2. CASE n > 0
    BY <1>1, <2>2
  <2> QED  BY <1>1, <2>1, <2>2
<1>7. Replay(m) = Replayed(m)[n + 1] /\ Replay(l) = Replayed(l)[n]
  BY <1>1, <1>6 DEF Replay
<1> QED  BY <1>5, <1>7 DEF m

\* apply_cll_delta appends the nodes delta_since kept.
LEMMA InsertedNodes ==
    ASSUME NEW a \in Seq(Value), NEW b \in Seq(Value), Prefix(a, b)
    PROVE  a \o SubSeq(b, Len(a) + 1, Len(b)) = b
<1> DEFINE m == Len(a)
           n == Len(b)
           c == SubSeq(b, m + 1, n)
<1>1. m \in Nat /\ n \in Nat /\ m <= n /\ \A i \in 1..m : a[i] = b[i]
  BY LenProperties DEF Prefix
<1>2. \A i \in (m + 1)..n : b[i] \in Value
  <2>1. \A i \in (m + 1)..n : i \in 1..n
    BY <1>1
  <2> QED  BY <2>1, ElementOfSeq
<1> HIDE DEF m, n
<1>3. /\ c \in Seq(Value)
      /\ Len(c) = IF m + 1 <= n THEN n - (m + 1) + 1 ELSE 0
      /\ \A i \in 1..(n - (m + 1) + 1) : c[i] = b[m + 1 + i - 1]
  <2>1. PICK q : q = m + 1
    OBVIOUS
  <2>2. q \in Int /\ n \in Int /\ \A i \in q..n : b[i] \in Value
    BY <1>1, <1>2, <2>1
  <2>3. /\ SubSeq(b, q, n) \in Seq(Value)
        /\ Len(SubSeq(b, q, n)) = IF q <= n THEN n - q + 1 ELSE 0
        /\ \A i \in 1..(n - q + 1) : SubSeq(b, q, n)[i] = b[q + i - 1]
    BY <2>2, SubSeqProperties
  <2> QED  BY <2>1, <2>3
<1>4. Len(c) = n - m /\ \A i \in 1..(n - m) : c[i] = b[m + i]
  BY <1>1, <1>3
<1> HIDE DEF c
<1>5. /\ a \o c \in Seq(Value) /\ Len(a \o c) = Len(a) + Len(c)
      /\ \A i \in 1..(Len(a) + Len(c)) :
            (a \o c)[i] = IF i <= Len(a) THEN a[i] ELSE c[i - Len(a)]
  BY <1>3, ConcatProperties
<1>6. Len(a \o c) = n
  BY <1>1, <1>4, <1>5 DEF m
<1>7. ASSUME NEW i \in 1..n PROVE (a \o c)[i] = b[i]
  <2>1. CASE i <= m
    BY <1>1, <1>4, <1>5, <2>1 DEF m
  <2>2. CASE ~(i <= m)
    <3>1. i - m \in 1..(n - m) /\ m + (i - m) = i
      BY <1>1, <2>2
    <3>2. c[i - m] = b[i]
      BY <1>4, <3>1
    <3>3. i \in 1..(Len(a) + Len(c))
      BY <1>5, <1>6
    <3> QED  BY <1>5, <2>2, <3>2, <3>3 DEF m
  <2> QED  BY <2>1, <2>2
<1> QED  BY <1>5, <1>6, <1>7, SeqEqual DEF m, n, c

-----------------------------------------------------------------------------
(***************************************************************************)
(* The event a mutation writes replays to the engine the mutation left.    *)
(***************************************************************************)

\* cll.init leaves the empty engine as it is.
LEMMA InitReplays == ApplyEvent(Blank, InitEvent) = Blank
  BY DEF ApplyEvent, Blank, InitEvent, EmptyState

\* The empty engine is sound.
LEMMA BlankIsEngine == IsEngine(Blank) /\ Blank = EngineOf(<<>>, EmptyState)
<1>1. EmptyState.nodes \in Seq(Value) /\ <<>> \in Seq(Entry)
  BY EmptySeq DEF EmptyState
<1>2. DOMAIN NoRows = {} /\ NoRows = [k \in DOMAIN NoRows |-> NoRows[k]]
  BY DEF NoRows
<1>3. IsState(EmptyState)
  BY <1>1, <1>2 DEF IsState, EmptyState
<1> QED  BY <1>1, <1>3 DEF IsEngine, EngineOf, Blank

\* Replacing one part of an engine.
LEMMA EngineEntries ==
    ASSUME NEW es, NEW c, NEW s, s = EngineOf(es, c), NEW x
    PROVE  [s EXCEPT !.entries = x] = EngineOf(x, c)
<1>1. /\ s.ok = TRUE /\ s.entries = es /\ s.cll = c
      /\ s = [ok |-> s.ok, entries |-> s.entries, cll |-> s.cll]
  BY DEF EngineOf
<1>2. [s EXCEPT !.entries = x] = [ok |-> s.ok, entries |-> x, cll |-> s.cll]
  BY ONLY <1>1
<1> QED  BY <1>1, <1>2, Zenon DEF EngineOf

\* The same for the other part.
LEMMA EngineCll ==
    ASSUME NEW es, NEW c, NEW s, s = EngineOf(es, c), NEW x
    PROVE  [s EXCEPT !.cll = x] = EngineOf(es, x)
<1>1. /\ s.ok = TRUE /\ s.entries = es /\ s.cll = c
      /\ s = [ok |-> s.ok, entries |-> s.entries, cll |-> s.cll]
  BY DEF EngineOf
<1>2. [s EXCEPT !.cll = x] = [ok |-> s.ok, entries |-> s.entries, cll |-> x]
  BY ONLY <1>1
<1> QED  BY <1>1, <1>2, Zenon DEF EngineOf

\* entry.append: the entry is appended again at the same sequence.
LEMMA AppendReplays ==
    ASSUME NEW es \in Seq(Entry), NEW c, IsState(c), NEW x \in Entry,
           ~\E i \in DOMAIN es : es[i].value = x.value
    PROVE  /\ ApplyEvent(EngineOf(es, c), AppendEvent(Len(es) + 1, x)) =
                 EngineOf(Append(es, x), c)
           /\ IsEngine(EngineOf(Append(es, x), c))
<1> DEFINE s == EngineOf(es, c)
           e == AppendEvent(Len(es) + 1, x)
<1>1. /\ s.ok = TRUE /\ s.entries = es /\ s.cll = c
      /\ e.type = "entry.append" /\ e.seq = Len(es) + 1 /\ e.entry = x
  BY DEF EngineOf, AppendEvent
<1>2. [s EXCEPT !.entries = Append(@, x)] = EngineOf(Append(es, x), c)
  <2>1. PICK y : y = Append(es, x)
    OBVIOUS
  <2> HIDE DEF s
  <2>2. [s EXCEPT !.entries = Append(@, x)] = [s EXCEPT !.entries = y]
    BY <1>1, <2>1
  <2>3. [s EXCEPT !.entries = y] = EngineOf(y, c)
    <3>1. s = EngineOf(es, c)
      BY DEF s
    <3> QED  BY ONLY <3>1, EngineEntries
  <2> QED  BY <2>1, <2>2, <2>3, Zenon
<1>3. Append(es, x) \in Seq(Entry)
  BY AppendProperties
<1>4. IsEngine(EngineOf(Append(es, x), c))
  BY <1>3 DEF IsEngine, EngineOf
<1> HIDE DEF s, e
<1>5. ApplyEvent(s, e) = [s EXCEPT !.entries = Append(@, x)]
  BY <1>1 DEF ApplyEvent
<1> QED  BY <1>2, <1>4, <1>5 DEF s, e

\* What apply_cll returns is a state.
LEMMA AppliedState ==
    ASSUME NEW c, NEW n, IsState(n)
    PROVE  /\ IsState(ApplyCll(c, n))
           /\ ApplyCll(c, n) =
                 [nodes |-> n.nodes, first_pending_at |-> n.first_pending_at,
                  checkpoint |-> n.checkpoint, witnesses |-> MergeWitnesses(c, n)]
<1> DEFINE r == MergeWitnesses(c, n)
           a == [nodes |-> n.nodes, first_pending_at |-> n.first_pending_at,
                 checkpoint |-> n.checkpoint, witnesses |-> r]
<1>1. ApplyCll(c, n) = a
  BY DEF ApplyCll, IsState
<1>2. r = [k \in DOMAIN r |-> r[k]]
  BY DEF MergeWitnesses
<1>3. n.nodes \in Seq(Value)
  BY DEF IsState
<1> HIDE DEF r
<1>4. IsState(a)
  BY <1>2, <1>3 DEF IsState
<1> QED  BY <1>1, <1>4 DEF r

\* cll.commit: the delta that delta_since takes of the state apply_cll
\* returned gives that state again.
LEMMA DeltaReplays ==
    ASSUME NEW c, NEW n, IsState(c), IsState(n), NEW size, NEW cp,
           CommitCllError(c, size, cp, n) = "none"
    PROVE  ApplyDelta(c, CommitEvent(c, ApplyCll(c, n))) =
              [ok |-> TRUE, cll |-> ApplyCll(c, n)]
<1> DEFINE r == MergeWitnesses(c, n)
           a == [nodes |-> n.nodes, first_pending_at |-> n.first_pending_at,
                 checkpoint |-> n.checkpoint, witnesses |-> r]
           rows == [k \in DOMAIN r \ DOMAIN c.witnesses |-> r[k]]
           new == SubSeq(n.nodes, Len(c.nodes) + 1, Len(n.nodes))
           d == [nodes |-> new, first_pending_at |-> n.first_pending_at,
                 checkpoint |-> n.checkpoint, witnesses |-> rows]
           m == [nodes |-> n.nodes, first_pending_at |-> n.first_pending_at,
                 checkpoint |-> n.checkpoint, witnesses |-> rows]
           e == CommitEvent(c, a)
<1>1. ApplyCll(c, n) = a
  BY AppliedState
<1>2. /\ ValidState(n) /\ Extends(c, n) /\ CheckpointForward(c, n)
  BY DEF CommitCllError
<1>3. c.nodes \o new = n.nodes
  BY <1>2, InsertedNodes DEF Extends, IsState
<1>4. /\ DOMAIN r = DOMAIN c.witnesses \cup DOMAIN n.witnesses
      /\ r = [k \in DOMAIN r |-> r[k]]
      /\ \A k \in DOMAIN c.witnesses : r[k] = c.witnesses[k]
      /\ \A k \in DOMAIN n.witnesses : k \notin DOMAIN c.witnesses => r[k] = n.witnesses[k]
  BY DEF MergeWitnesses
<1>5. DOMAIN rows = DOMAIN r \ DOMAIN c.witnesses /\ \A k \in DOMAIN rows : rows[k] = r[k]
  OBVIOUS
<1>6. /\ e.expected_size = Len(c.nodes) /\ e.expected_checkpoint = c.checkpoint
      /\ e.state = d
  BY DEF CommitEvent, DeltaSince
<1>7. [d EXCEPT !.nodes = c.nodes \o d.nodes] = m
  <2>1. PICK f : f = d
    OBVIOUS
  <2>2. /\ f.nodes = new /\ f.first_pending_at = n.first_pending_at
        /\ f.checkpoint = n.checkpoint /\ f.witnesses = rows
        /\ f = [nodes |-> f.nodes, first_pending_at |-> f.first_pending_at,
                checkpoint |-> f.checkpoint, witnesses |-> f.witnesses]
    BY <2>1
  <2>3. PICK x : x = n.nodes
    OBVIOUS
  <2>4. [f EXCEPT !.nodes = x] =
           [nodes |-> x, first_pending_at |-> f.first_pending_at,
            checkpoint |-> f.checkpoint, witnesses |-> f.witnesses]
    BY ONLY <2>2
  <2> QED  BY <1>3, <2>1, <2>2, <2>3, <2>4, Zenon
<1> HIDE DEF r, rows, new, e
<1>8. Expected(c, e.expected_size, e.expected_checkpoint)
  BY <1>6 DEF Expected
<1>9. ValidState(m)
  <2>1. \A k \in DOMAIN rows : k \in DOMAIN n.witnesses /\ rows[k] = n.witnesses[k]
    BY <1>4, <1>5
  <2> QED  BY <1>2, <2>1 DEF ValidState
<1>10. CheckpointForward(c, m)
  BY <1>2 DEF CheckpointForward
<1>11. SameWitnessCheckpoints(c, m)
  BY <1>5 DEF SameWitnessCheckpoints
<1>12. MergeWitnesses(c, m) = r
  <2>1. DOMAIN c.witnesses \cup DOMAIN rows = DOMAIN r
    BY <1>4, <1>5
  <2>2. \A k \in DOMAIN r :
           (IF k \in DOMAIN c.witnesses THEN c.witnesses[k] ELSE rows[k]) = r[k]
    BY <1>4, <1>5
  <2>3. MergeWitnesses(c, m) =
           [k \in DOMAIN r |-> IF k \in DOMAIN c.witnesses THEN c.witnesses[k] ELSE rows[k]]
    BY <2>1 DEF MergeWitnesses
  <2>4. [k \in DOMAIN r |-> IF k \in DOMAIN c.witnesses THEN c.witnesses[k] ELSE rows[k]] =
        [k \in DOMAIN r |-> r[k]]
    BY <2>2
  <2> QED  BY <1>4, <2>3, <2>4
<1>13. ApplyCll(c, m) = a
  <2>1. ApplyCll(c, m) = [m EXCEPT !.witnesses = r]
    BY <1>12 DEF ApplyCll
  <2> QED  BY <2>1
<1>14. ApplyDelta(c, e) = [ok |-> TRUE, cll |-> ApplyCll(c, m)]
  <2> HIDE DEF m, d
  <2> QED  BY <1>6, <1>7, <1>8, <1>9, <1>10, <1>11 DEF ApplyDelta
<1> QED  BY <1>1, <1>13, <1>14 DEF e

\* ... and so does the whole event.
LEMMA CommitReplays ==
    ASSUME NEW es \in Seq(Entry), NEW c, NEW n, IsState(c), IsState(n), NEW size, NEW cp,
           CommitCllError(c, size, cp, n) = "none"
    PROVE  /\ ApplyEvent(EngineOf(es, c), CommitEvent(c, ApplyCll(c, n))) =
                 EngineOf(es, ApplyCll(c, n))
           /\ IsEngine(EngineOf(es, ApplyCll(c, n)))
<1> DEFINE s == EngineOf(es, c)
           a == ApplyCll(c, n)
           e == CommitEvent(c, a)
<1>1. /\ s.ok = TRUE /\ s.entries = es /\ s.cll = c /\ e.type = "cll.commit"
  BY DEF EngineOf, CommitEvent
<1>2. [s EXCEPT !.cll = a] = EngineOf(es, a)
  <2>1. PICK x : x = a
    OBVIOUS
  <2>2. s = EngineOf(es, c)
    OBVIOUS
  <2> HIDE DEF s
  <2>3. [s EXCEPT !.cll = x] = EngineOf(es, x)
    BY ONLY <2>2, EngineCll
  <2> QED  BY <2>1, <2>3, Zenon
<1>3. IsState(a)
  BY AppliedState
<1>4. ApplyDelta(c, e) = [ok |-> TRUE, cll |-> a]
  BY DeltaReplays
<1>5. IsEngine(EngineOf(es, a))
  BY <1>3 DEF IsEngine, EngineOf
<1> HIDE DEF s, e, a
<1>6. ApplyDelta(c, e).ok = TRUE /\ ApplyDelta(c, e).cll = a
  BY <1>4
<1>7. ApplyEvent(s, e) = [s EXCEPT !.cll = a]
  BY <1>1, <1>6 DEF ApplyEvent
<1> QED  BY <1>2, <1>5, <1>7 DEF s, e, a

\* witness.commit: the row is replaced again.
LEMMA WitnessReplays ==
    ASSUME NEW es \in Seq(Entry), NEW c, IsState(c), NEW key, NEW attempts, NEW row,
           CommitWitnessError(c.witnesses, key, attempts, row) = "none"
    PROVE  LET a == [c EXCEPT !.witnesses[key] = row]
           IN  /\ ApplyEvent(EngineOf(es, c), WitnessEvent(key, attempts, row)) = EngineOf(es, a)
               /\ IsEngine(EngineOf(es, a))
<1> DEFINE a == [c EXCEPT !.witnesses[key] = row]
           s == EngineOf(es, c)
           e == WitnessEvent(key, attempts, row)
<1>1. /\ s.ok = TRUE /\ s.entries = es /\ s.cll = c /\ e.type = "witness.commit"
      /\ e.key = key /\ e.expected_attempts = attempts /\ e.witness = row
  BY DEF EngineOf, WitnessEvent
<1>2. [s EXCEPT !.cll.witnesses[key] = row] = EngineOf(es, a)
  <2>1. [s EXCEPT !.cll.witnesses[key] = row] = [s EXCEPT !.cll = a]
    <3> HIDE DEF s
    <3> QED  BY <1>1
  <2>2. [s EXCEPT !.cll = a] = EngineOf(es, a)
    <3>1. PICK x : x = a
      OBVIOUS
    <3>2. s = EngineOf(es, c)
      OBVIOUS
    <3> HIDE DEF s
    <3>3. [s EXCEPT !.cll = x] = EngineOf(es, x)
      BY ONLY <3>2, EngineCll
    <3> QED  BY <3>1, <3>3, Zenon
  <2> QED  BY <2>1, <2>2, Zenon
<1>3. IsState(a)
  <2> DEFINE r == [c.witnesses EXCEPT ![key] = row]
  <2>1. /\ c = [nodes |-> c.nodes, first_pending_at |-> c.first_pending_at,
                checkpoint |-> c.checkpoint, witnesses |-> c.witnesses]
        /\ c.nodes \in Seq(Value)
    BY DEF IsState
  <2>2. a = [nodes |-> c.nodes, first_pending_at |-> c.first_pending_at,
             checkpoint |-> c.checkpoint, witnesses |-> r]
    BY <2>1
  <2>3. r = [k \in DOMAIN r |-> r[k]]
    OBVIOUS
  <2> HIDE DEF r, a
  <2> QED  BY <2>1, <2>2, <2>3 DEF IsState
<1>4. IsEngine(EngineOf(es, a))
  <2> HIDE DEF a
  <2> QED  BY <1>3 DEF IsEngine, EngineOf
<1> HIDE DEF s, e
<1>5. ApplyEvent(s, e) = [s EXCEPT !.cll.witnesses[e.key] = e.witness]
  BY <1>1 DEF ApplyEvent
<1>6. ApplyEvent(s, e) = EngineOf(es, a)
  BY <1>1, <1>2, <1>5
<1> QED  BY <1>4, <1>6 DEF s, e

\* What a runner commits over a state is a state.
LEMMA NextIsState ==
    ASSUME NEW s, IsState(s), entries \in Seq(Entry), NEW n \in NextStates(s)
    PROVE  IsState(n)
<1> DEFINE m == Len(s.nodes) + 1
           nodes == Append(s.nodes, entries[m].value)
           cp == [size |-> m, root |-> nodes, prev_size |-> s.checkpoint.size,
                  prev_root |-> s.checkpoint.root,
                  key_id |-> CHOOSE k \in Key : TRUE, issued_at |-> 0]
           row == [checkpoint |-> cp, attempts |-> 0, next_attempt_at |-> 0,
                   receipt |-> FALSE, permanent |-> FALSE]
           new == {<<w, m>> : w \in Witness}
           rows == [k \in DOMAIN s.witnesses \cup new |->
                      IF k \in DOMAIN s.witnesses THEN s.witnesses[k] ELSE row]
           fpa == IF s.first_pending_at = None
                  THEN entries[m].appended_at ELSE s.first_pending_at
<1>1. /\ ~(m > Len(entries))
      /\ n \in {[nodes |-> nodes, first_pending_at |-> fpa,
                 checkpoint |-> s.checkpoint, witnesses |-> s.witnesses],
                [nodes |-> nodes, first_pending_at |-> None, checkpoint |-> cp,
                 witnesses |-> rows]}
  BY Zenon DEF NextStates
<1>2. s.nodes \in Seq(Value) /\ m \in Nat \ {0} /\ Len(entries) \in Nat
  BY LenProperties DEF IsState
<1>3. nodes \in Seq(Value)
  <2>1. m \in 1..Len(entries)
    BY <1>1, <1>2
  <2>2. entries[m] \in Entry
    BY <2>1, ElementOfSeq
  <2>3. entries[m].value \in Value
    BY <2>2 DEF Entry
  <2> QED  BY <1>2, <2>3, AppendProperties
<1>4. s.witnesses = [k \in DOMAIN s.witnesses |-> s.witnesses[k]]
  BY DEF IsState
<1>5. rows = [k \in DOMAIN rows |-> rows[k]]
  OBVIOUS
<1> HIDE DEF m, nodes, cp, row, new, fpa, rows
<1> QED  BY <1>1, <1>3, <1>4, <1>5 DEF IsState

\* So is one with the rows as they were queued.
LEMMA QueuedIsState ==
    ASSUME NEW c, IsState(c)
    PROVE  IsState([c EXCEPT !.witnesses = Queued(c.witnesses)])
<1> DEFINE r == Queued(c.witnesses)
           a == [c EXCEPT !.witnesses = r]
<1>1. r = [k \in DOMAIN r |-> r[k]]
  BY DEF Queued
<1> HIDE DEF r
<1>2. /\ a = [nodes |-> c.nodes, first_pending_at |-> c.first_pending_at,
              checkpoint |-> c.checkpoint, witnesses |-> r]
      /\ c.nodes \in Seq(Value)
  BY DEF IsState
<1> HIDE DEF a
<1>3. IsState(a)
  BY <1>1, <1>2 DEF IsState
<1> QED  BY <1>3 DEF a, r

-----------------------------------------------------------------------------
(***************************************************************************)
(* Facts about journals.                                                   *)
(***************************************************************************)

\* A replay that succeeds began with cll.init, if there was a line at all.
LEMMA FirstLine ==
    ASSUME NEW l, IsEngine(Replay(l)), l # <<>>
    PROVE  l[1].type = "cll.init"
<1>1. Replay(l).ok = TRUE
  BY DEF IsEngine, EngineOf
<1>2. Corrupt.ok = FALSE
  BY DEF Corrupt, Blank
<1> QED  BY <1>1, <1>2 DEF Replay

\* The empty journal has no line, and is sound.
LEMMA NoLines ==
    /\ IsLines(<<>>) /\ Len(<<>>) = 0 /\ SubSeq(<<>>, 1, 0) = <<>>
    /\ IsEngine(Replay(<<>>))
<1>1. <<>> \in Seq({}) /\ Len(<<>>) = 0
  BY EmptySeq
<1>2. IsLines(<<>>)
  BY <1>1, LinesOf
<1>3. SubSeq(<<>>, 1, 0) = <<>>
  BY SubSeqEmpty
<1> QED  BY <1>1, <1>2, <1>3, ReplayNothing, BlankIsEngine

\* Only the lines of a journal matter.
LEMMA SameLinesOk ==
    ASSUME NEW f, JournalOk(f), NEW b
    PROVE  JournalOk([f EXCEPT !.torn = b]) /\ [f EXCEPT !.torn = b].lines = f.lines
<1>1. [f EXCEPT !.torn = b] = [lines |-> f.lines, torn |-> b]
  BY DEF JournalOk
<1>2. PICK g : g = [f EXCEPT !.torn = b]
  OBVIOUS
<1>3. g.lines = f.lines /\ g = [lines |-> g.lines, torn |-> g.torn]
  BY <1>1, <1>2
<1>4. JournalOk(g)
  BY <1>3 DEF JournalOk
<1> QED  BY <1>2, <1>3, <1>4

\* A journal stays sound while nothing more is acknowledged.
LEMMA JournalsKept ==
    ASSUME JournalInductive, acked' = acked,
           \A f \in images' \cup {file'} : f \in images \cup {file} \/ JournalOk(f)
    PROVE  (IsLines(acked) /\ \A f \in images \cup {file} : JournalOk(f))'
<1>1. IsLines(acked) /\ \A f \in images \cup {file} : JournalOk(f)
  BY DEF JournalInductive
<1>2. ASSUME NEW f, JournalOk(f) PROVE JournalOk(f)'
  BY <1>2 DEF JournalOk
<1> QED  BY <1>1, <1>2

\* The event of a mutation replays, on top of the lines before it.
LEMMA EventReplays ==
    ASSUME FileOk, EventOk
    PROVE  /\ Replay(Append(Base, event)) = ApplyEvent(Replay(Base), event)
           /\ IsEngine(Replay(Append(Base, event)))
           /\ event.type # "cll.init" =>
                 Replay(Append(Base, event)) = EngineOf(entries, cll)
<1>1. IsLines(Base) /\ Len(Base) = start /\ IsEngine(Replay(Base)) /\ start \in Nat
  BY DEF FileOk
<1>2. Base # <<>> <=> start > 0
  BY <1>1, OneMoreLine
<1>3. CASE event = InitEvent /\ start = 0
  <2>1. Base = <<>> /\ event.type = "cll.init"
    BY <1>2, <1>3 DEF InitEvent
  <2>2. Replay(Append(Base, event)) = ApplyEvent(Replay(Base), event)
    BY <1>1, <2>1, ReplayOneMore
  <2>3. Replay(Base) = Blank
    BY <2>1, ReplayNothing
  <2> QED  BY <1>3, <2>1, <2>2, <2>3, InitReplays, BlankIsEngine
<1>4. CASE /\ event.type # "cll.init" /\ start > 0
           /\ ApplyEvent(Replay(Base), event) = EngineOf(entries, cll)
           /\ IsEngine(EngineOf(entries, cll))
  <2>1. Base # <<>> /\ Base[1].type = "cll.init"
    BY <1>1, <1>2, <1>4, FirstLine
  <2>2. Replay(Append(Base, event)) = ApplyEvent(Replay(Base), event)
    BY <1>1, <2>1, ReplayOneMore
  <2> QED  BY <1>4, <2>2
<1> QED  BY <1>3, <1>4 DEF EventOk

\* A file that ends where the event would begin holds the lines before it.
LEMMA FileIsBase ==
    ASSUME JournalInductive, Len(file.lines) = start
    PROVE  Base = file.lines
<1>1. IsLines(file.lines)
  BY DEF JournalInductive, JournalOk
<1> QED  BY <1>1, OneMoreLine DEF Base

-----------------------------------------------------------------------------
(***************************************************************************)
(* Each action keeps the invariant.                                        *)
(***************************************************************************)

\* Nothing but the journals matters while the store is closed or repairing.
LEMMA IdleKeeps ==
    ASSUME JournalInductive, acked' = acked, status' \in {"closed", "repair"},
           \A f \in images' \cup {file'} : f \in images \cup {file} \/ JournalOk(f)
    PROVE  JournalInductive'
  BY JournalsKept DEF JournalInductive, Writing

\* init begins to write the first line of an empty file.
LEMMA BeginInit ==
    ASSUME JournalInductive, file.lines = <<>>, UNCHANGED <<file, acked>>,
           images' \subseteq images \cup {file}, BeginEvent(InitEvent, 0)
    PROVE  JournalInductive'
<1>1. start' = 0 /\ event' = InitEvent /\ status' = "write"
  BY DEF BeginEvent
<1>2. (IsLines(acked) /\ \A f \in images \cup {file} : JournalOk(f))'
  BY JournalsKept
<1>3. Len(acked) <= 0
  BY NoLines DEF JournalInductive, JournalOk, Prefix
<1>4. Base' = <<>> /\ file'.lines = <<>>
  BY <1>1, NoLines DEF Base
<1>5. FileOk'
  BY <1>1, <1>3, <1>4, NoLines DEF FileOk
<1>6. EventOk'
  BY <1>1 DEF EventOk
<1> QED  BY <1>1, <1>2, <1>5, <1>6 DEF JournalInductive

\* A mutation of the open store begins to write its event.
LEMMA BeginMutation ==
    ASSUME JournalInductive, status = "open", NEW e, e.type # "cll.init", Persist(e),
           UNCHANGED <<file, images, acked>>,
           SubSeq(entries', 1, Len(entries)) = entries,
           ApplyEvent(EngineOf(entries, cll), e) = EngineOf(entries', cll'),
           IsEngine(EngineOf(entries', cll'))
    PROVE  JournalInductive'
<1>1. /\ start' = Len(file.lines) /\ event' = e /\ status' = "write"
      /\ snapshot' = [count |-> Len(entries), cll |-> cll]
  BY DEF BeginEvent, Persist
<1>2. (IsLines(acked) /\ \A f \in images \cup {file} : JournalOk(f))'
  BY JournalsKept
<1>3. /\ IsLines(file.lines) /\ IsEngine(Replay(file.lines)) /\ Len(acked) <= Len(file.lines)
      /\ file.lines # <<>> /\ Replay(file.lines) = EngineOf(entries, cll)
  BY DEF JournalInductive, JournalOk, Prefix
<1>4. /\ Len(file.lines) \in Nat /\ Len(file.lines) > 0
      /\ SubSeq(file.lines, 1, Len(file.lines)) = file.lines
  BY <1>3, OneMoreLine
<1>5. Base' = file.lines
  BY <1>1, <1>4 DEF Base
<1>6. FileOk'
  BY <1>1, <1>3, <1>4, <1>5 DEF FileOk
<1>7. EventOk'
  <2>1. snapshot'.count = Len(entries) /\ snapshot'.cll = cll
    BY <1>1
  <2>2. Replay(Base') = EngineOf(SubSeq(entries', 1, snapshot'.count), snapshot'.cll)
    BY <1>3, <1>5, <2>1
  <2>3. ApplyEvent(Replay(Base'), event') = EngineOf(entries', cll')
    BY <1>1, <1>3, <1>5
  <2> QED  BY <1>1, <1>4, <2>2, <2>3 DEF EventOk
<1> QED  BY <1>1, <1>2, <1>6, <1>7 DEF JournalInductive

\* append: the new entry is on no line yet.
LEMMA AppendKeeps ==
    ASSUME JournalInductive, NEW v \in Value, NEW t \in Time, JournalAppend(v, t)
    PROVE  JournalInductive'
<1>1. /\ status = "open" /\ AppendEntry(v, t) /\ UNCHANGED <<file, images, acked, cll>>
  BY DEF JournalAppend, AppendEntry
<1>2. CASE /\ \E i \in DOMAIN entries : entries[i].value = v
           /\ status' = status
  <2>1. entries' = entries
    BY <1>1, <1>2 DEF AppendEntry
  <2>2. (IsLines(acked) /\ \A f \in images \cup {file} : JournalOk(f))'
    BY <1>1, JournalsKept
  <2> QED  BY <1>1, <1>2, <2>1, <2>2 DEF JournalInductive, Writing
<1>3. CASE /\ entries' # entries
           /\ Persist(AppendEvent(Len(entries'), entries'[Len(entries')]))
  <2> DEFINE x == [value |-> v, appended_at |-> t]
  <2>1. /\ ~\E i \in DOMAIN entries : entries[i].value = v
        /\ entries' = Append(entries, x)
    BY <1>1, <1>3 DEF AppendEntry
  <2>2. x \in Entry /\ x.value = v
    BY JournalAssumption DEF Entry
  <2>3. /\ Replay(file.lines) = EngineOf(entries, cll) /\ IsEngine(Replay(file.lines))
    BY <1>1 DEF JournalInductive, JournalOk
  <2>4. entries \in Seq(Entry) /\ IsState(cll)
    BY <2>3 DEF IsEngine, EngineOf
  <2> HIDE DEF x
  <2>5. IsLines(entries)
    BY <2>4, LinesOf
  <2>6. /\ Len(entries') = Len(entries) + 1 /\ entries'[Len(entries')] = x
        /\ SubSeq(entries', 1, Len(entries)) = entries
    BY <2>1, <2>5, OneMoreLine
  <2>7. /\ ApplyEvent(EngineOf(entries, cll), AppendEvent(Len(entries) + 1, x)) =
              EngineOf(Append(entries, x), cll)
        /\ IsEngine(EngineOf(Append(entries, x), cll))
    BY <2>1, <2>2, <2>4, AppendReplays
  <2>8. PICK e : e = AppendEvent(Len(entries) + 1, x)
    OBVIOUS
  <2>9. e.type # "cll.init" /\ Persist(e)
    BY <1>3, <2>6, <2>8 DEF AppendEvent
  <2>10. /\ ApplyEvent(EngineOf(entries, cll), e) = EngineOf(entries', cll')
         /\ IsEngine(EngineOf(entries', cll'))
    BY <1>1, <2>1, <2>7, <2>8
  <2> QED  BY <1>1, <2>6, <2>9, <2>10, BeginMutation
<1> QED  BY <1>2, <1>3 DEF JournalAppend

\* commit_cll, of any state a runner may commit.
LEMMA CommitCllKeeps ==
    ASSUME JournalInductive, NEW size, NEW cp, NEW n, IsState(n),
           JournalCommitCll(size, cp, n)
    PROVE  JournalInductive'
<1>1. /\ status = "open" /\ CommitCllError(cll, size, cp, n) = "none"
      /\ cll' = ApplyCll(cll, n) /\ Persist(CommitEvent(cll, cll'))
      /\ UNCHANGED <<entries, file, images, acked>>
  BY DEF JournalCommitCll
<1>2. Replay(file.lines) = EngineOf(entries, cll) /\ IsEngine(Replay(file.lines))
  BY <1>1 DEF JournalInductive, JournalOk
<1>3. entries \in Seq(Entry) /\ IsState(cll)
  BY <1>2 DEF IsEngine, EngineOf
<1>4. SubSeq(entries', 1, Len(entries)) = entries
  BY <1>1, <1>3, SubSeqFull
<1>5. /\ ApplyEvent(EngineOf(entries, cll), CommitEvent(cll, ApplyCll(cll, n))) =
            EngineOf(entries, ApplyCll(cll, n))
      /\ IsEngine(EngineOf(entries, ApplyCll(cll, n)))
  BY <1>1, <1>3, CommitReplays
<1>6. PICK e : e = CommitEvent(cll, cll')
  OBVIOUS
<1>7. e.type # "cll.init" /\ Persist(e)
  BY <1>1, <1>6 DEF CommitEvent
<1>8. /\ ApplyEvent(EngineOf(entries, cll), e) = EngineOf(entries', cll')
      /\ IsEngine(EngineOf(entries', cll'))
  BY <1>1, <1>5, <1>6
<1> QED  BY <1>1, <1>4, <1>7, <1>8, BeginMutation

\* commit_witness, of any row that it accepts.
LEMMA CommitWitnessKeeps ==
    ASSUME JournalInductive, NEW key, NEW row, NEW attempts,
           JournalCommitWitness(key, row, attempts)
    PROVE  JournalInductive'
<1>1. /\ status = "open" /\ CommitWitnessError(cll.witnesses, key, attempts, row) = "none"
      /\ cll' = [cll EXCEPT !.witnesses[key] = row]
      /\ Persist(WitnessEvent(key, attempts, row))
      /\ UNCHANGED <<entries, file, images, acked>>
  BY DEF JournalCommitWitness, CommitWitness
<1>2. Replay(file.lines) = EngineOf(entries, cll) /\ IsEngine(Replay(file.lines))
  BY <1>1 DEF JournalInductive, JournalOk
<1>3. entries \in Seq(Entry) /\ IsState(cll)
  BY <1>2 DEF IsEngine, EngineOf
<1>4. SubSeq(entries', 1, Len(entries)) = entries
  BY <1>1, <1>3, SubSeqFull
<1>5. /\ ApplyEvent(EngineOf(entries, cll), WitnessEvent(key, attempts, row)) =
            EngineOf(entries, [cll EXCEPT !.witnesses[key] = row])
      /\ IsEngine(EngineOf(entries, [cll EXCEPT !.witnesses[key] = row]))
  BY <1>1, <1>3, WitnessReplays
<1>6. PICK e : e = WitnessEvent(key, attempts, row)
  OBVIOUS
<1>7. e.type # "cll.init" /\ Persist(e)
  BY <1>1, <1>6 DEF WitnessEvent
<1>8. /\ ApplyEvent(EngineOf(entries, cll), e) = EngineOf(entries', cll')
      /\ IsEngine(EngineOf(entries', cll'))
  BY <1>1, <1>5, <1>6
<1> QED  BY <1>1, <1>4, <1>7, <1>8, BeginMutation

\* A torn line is after the complete ones.
LEMMA WritePartKeeps ==
    ASSUME JournalInductive, WritePart
    PROVE  JournalInductive'
<1>1. /\ status = "write" /\ file' = [file EXCEPT !.torn = TRUE]
      /\ images' = images \cup {file'}
      /\ UNCHANGED <<entries, cll, status, event, start, snapshot, acked>>
  BY DEF WritePart
<1>2. JournalOk(file) /\ FileOk /\ EventOk
  BY <1>1 DEF JournalInductive, Writing
<1>3. file'.lines = file.lines /\ JournalOk([file EXCEPT !.torn = TRUE])
  BY <1>1, <1>2, SameLinesOk
<1>4. PICK g : g = file'
  OBVIOUS
<1>5. (IsLines(acked) /\ \A f \in images \cup {file} : JournalOk(f))'
  <2>1. JournalOk(g)
    BY <1>1, <1>3, <1>4
  <2> QED  BY <1>1, <1>4, <2>1, JournalsKept
<1>6. Base' = Base
  BY <1>1, <1>3 DEF Base
<1>7. FileOk' /\ EventOk'
  BY <1>1, <1>2, <1>3, <1>6 DEF FileOk, EventOk
<1> QED  BY <1>1, <1>5, <1>7 DEF JournalInductive

\* The whole line makes the journal one that replays to the new engine.
LEMMA WriteAllKeeps ==
    ASSUME JournalInductive, WriteAll
    PROVE  JournalInductive'
<1>1. /\ status = "write" /\ file' = [lines |-> Append(file.lines, event), torn |-> FALSE]
      /\ images' = images \cup {file', [file EXCEPT !.torn = TRUE]}
      /\ status' = "sync"
      /\ UNCHANGED <<entries, cll, event, start, snapshot, acked>>
  BY DEF WriteAll
<1>2. JournalOk(file) /\ FileOk /\ EventOk /\ Len(file.lines) = start
  BY <1>1 DEF JournalInductive, Writing, FileOk
<1>3. Base = file.lines
  BY <1>2, FileIsBase
<1>4. PICK l : l = file.lines
  OBVIOUS
<1>5. PICK g : g = file'
  OBVIOUS
<1>6. PICK e : e = event
  OBVIOUS
<1>7. IsLines(l) /\ Prefix(acked, l) /\ IsEngine(Replay(Append(l, e))) /\ start = Len(l)
  BY <1>2, <1>3, <1>4, <1>6, EventReplays DEF JournalOk
<1>8. /\ Len(l) \in Nat /\ IsLines(Append(l, e)) /\ Len(Append(l, e)) = Len(l) + 1
      /\ \A i \in 1..Len(l) : Append(l, e)[i] = l[i]
      /\ SubSeq(Append(l, e), 1, Len(l)) = l
  BY <1>7, OneMoreLine
<1>9. g.lines = Append(l, e) /\ g = [lines |-> g.lines, torn |-> g.torn]
  BY <1>1, <1>4, <1>5, <1>6
<1>10. JournalOk(g)
  <2>1. Len(acked) \in Nat
    BY OneMoreLine DEF JournalInductive
  <2>2. Prefix(acked, Append(l, e))
    BY <1>7, <1>8, <2>1 DEF Prefix
  <2> QED  BY <1>7, <1>8, <1>9, <2>2 DEF JournalOk
<1>11. (IsLines(acked) /\ \A f \in images \cup {file} : JournalOk(f))'
  <2>1. JournalOk([file EXCEPT !.torn = TRUE])
    BY <1>2, SameLinesOk
  <2>2. PICK h : h = [file EXCEPT !.torn = TRUE]
    OBVIOUS
  <2>3. JournalOk(h) /\ images' \cup {file'} = images \cup {g, h}
    BY <1>1, <1>5, <2>1, <2>2
  <2> QED  BY <1>1, <1>10, <2>3, JournalsKept
<1>12. Base' = l /\ file'.lines = Append(Base', event')
  BY <1>1, <1>4, <1>5, <1>6, <1>7, <1>8, <1>9 DEF Base
<1>13. FileOk'
  <2>1. Base' = Base /\ Len(file'.lines) = start + 1
    BY <1>3, <1>4, <1>5, <1>7, <1>8, <1>9, <1>12
  <2> QED  BY <1>1, <1>2, <1>12, <2>1 DEF FileOk
<1>14. EventOk'
  BY <1>1, <1>2, <1>3, <1>4, <1>12 DEF EventOk
<1> QED  BY <1>1, <1>11, <1>13, <1>14 DEF JournalInductive

\* fsync: the file is the only journal left, and its lines are acknowledged.
LEMMA SyncKeeps ==
    ASSUME JournalInductive, Sync
    PROVE  JournalInductive'
<1>1. /\ status = "sync" /\ images' = {file} /\ acked' = file.lines
      /\ UNCHANGED <<file, event, start, snapshot>>
      /\ \/ event.type = "cll.init" /\ Closed
         \/ event.type # "cll.init" /\ status' = "open" /\ UNCHANGED <<entries, cll>>
  BY DEF Sync
<1>2. JournalOk(file) /\ FileOk /\ EventOk /\ Len(file.lines) = start + 1 /\ start \in Nat
  BY <1>1 DEF JournalInductive, Writing, FileOk
<1>3. file.lines = Append(Base, event)
  BY <1>2 DEF FileOk
<1>4. (IsLines(acked) /\ \A f \in images \cup {file} : JournalOk(f))'
  <2>1. PICK g : g = file
    OBVIOUS
  <2>2. JournalOk(g)'
    BY <1>1, <1>2, <2>1 DEF JournalOk, Prefix
  <2>3. IsLines(acked')
    BY <1>1, <1>2 DEF JournalOk
  <2>4. images' \cup {file'} = {g}
    BY <1>1, <2>1
  <2> QED  BY <2>2, <2>3, <2>4
<1>5. CASE Closed
  BY <1>4, <1>5 DEF Closed, JournalInductive, Writing
<1>6. CASE event.type # "cll.init" /\ status' = "open" /\ UNCHANGED <<entries, cll>>
  <2>1. Replay(file.lines) = EngineOf(entries, cll)
    BY <1>2, <1>3, <1>6, EventReplays
  <2>2. file.lines # <<>>
    BY <1>2, NoLines
  <2> QED  BY <1>1, <1>4, <1>6, <2>1, <2>2 DEF JournalInductive, Writing
<1> QED  BY <1>1, <1>5, <1>6

\* After a roll back the engine is again what the file replays to.
LEMMA RestoreKeeps ==
    ASSUME JournalInductive, Writing, Len(file.lines) = start,
           event.type # "cll.init", Restore, status' = "open",
           UNCHANGED <<file, acked>>, images' \subseteq images \cup {file}
    PROVE  JournalInductive'
<1>1. (IsLines(acked) /\ \A f \in images \cup {file} : JournalOk(f))'
  BY JournalsKept
<1>2. Base = file.lines
  BY FileIsBase
<1>3. /\ start > 0
      /\ Replay(Base) = EngineOf(SubSeq(entries, 1, snapshot.count), snapshot.cll)
  BY DEF JournalInductive, EventOk, InitEvent
<1>4. file.lines # <<>>
  BY <1>3, NoLines
<1>5. Replay(file.lines) = EngineOf(entries', cll')
  BY <1>2, <1>3 DEF Restore
<1> QED  BY <1>1, <1>4, <1>5 DEF JournalInductive, Writing

\* A failed write: what was written stays until it is truncated.
LEMMA WriteFailsKeeps ==
    ASSUME JournalInductive, WriteFails
    PROVE  JournalInductive'
<1>1. /\ status \in {"write", "sync"} /\ status' = "rollback"
      /\ UNCHANGED <<entries, cll, file, images, event, start, snapshot, acked>>
  BY DEF WriteFails
<1>2. (IsLines(acked) /\ \A f \in images \cup {file} : JournalOk(f))'
  BY <1>1, JournalsKept
<1>3. FileOk /\ EventOk
  BY <1>1 DEF JournalInductive, Writing
<1>4. Base' = Base
  BY <1>1 DEF Base
<1>5. FileOk' /\ EventOk'
  BY <1>1, <1>3, <1>4 DEF FileOk, EventOk
<1> QED  BY <1>1, <1>2, <1>5 DEF JournalInductive

\* Truncation cuts the file back to the lines before the event, and nothing
\* that was acknowledged.
LEMMA TruncateKeeps ==
    ASSUME JournalInductive, Truncate
    PROVE  JournalInductive'
<1>1. /\ status = "rollback" /\ file' = [lines |-> Base, torn |-> FALSE]
      /\ images' = images \cup {file'} /\ status' = "resync"
      /\ UNCHANGED <<entries, cll, event, start, snapshot, acked>>
  BY DEF Truncate, Base
<1>2. JournalOk(file) /\ FileOk /\ EventOk
  BY <1>1 DEF JournalInductive, Writing
<1>3. PICK b : b = Base
  OBVIOUS
<1>4. PICK g : g = file'
  OBVIOUS
<1>5. /\ IsLines(b) /\ Len(b) = start /\ IsEngine(Replay(b)) /\ Len(acked) <= start
      /\ start \in Nat /\ SubSeq(b, 1, Len(b)) = b
  BY <1>2, <1>3, OneMoreLine DEF FileOk
<1>6. g.lines = b /\ g = [lines |-> g.lines, torn |-> g.torn]
  BY <1>1, <1>3, <1>4
<1>7. \A i \in 1..start : b[i] = file.lines[i]
  <2>1. CASE Len(file.lines) = start
    BY <1>3, <2>1, FileIsBase
  <2>2. CASE file.lines = Append(b, event)
    BY <1>5, <2>2, OneMoreLine
  <2> QED  BY <1>2, <1>3, <2>1, <2>2 DEF FileOk
<1>8. Prefix(acked, b)
  <2>1. Len(acked) \in Nat
    BY OneMoreLine DEF JournalInductive
  <2>2. \A i \in 1..Len(acked) : acked[i] = file.lines[i]
    BY <1>2 DEF JournalOk, Prefix
  <2> QED  BY <1>5, <1>7, <2>1, <2>2 DEF Prefix
<1>9. JournalOk(g)
  BY <1>5, <1>6, <1>8 DEF JournalOk
<1>10. (IsLines(acked) /\ \A f \in images \cup {file} : JournalOk(f))'
  BY <1>1, <1>4, <1>9, JournalsKept
<1>11. Base' = Base /\ Len(file'.lines) = start
  BY <1>1, <1>3, <1>4, <1>5, <1>6 DEF Base
<1>12. FileOk' /\ EventOk'
  BY <1>1, <1>2, <1>11 DEF FileOk, EventOk
<1> QED  BY <1>1, <1>10, <1>12 DEF JournalInductive

\* init cuts off a torn line, or begins an empty file.
LEMMA ProvisionKeeps ==
    ASSUME JournalInductive, Provision
    PROVE  JournalInductive'
<1>1. CASE /\ file' = [file EXCEPT !.torn = FALSE]
           /\ images' = images \cup {file'} /\ status' = "repair" /\ acked' = acked
  <2>1. JournalOk([file EXCEPT !.torn = FALSE])
    BY SameLinesOk DEF JournalInductive
  <2>2. PICK g : g = [file EXCEPT !.torn = FALSE]
    OBVIOUS
  <2>3. JournalOk(g) /\ file' = g
    BY <1>1, <2>1, <2>2
  <2> QED  BY <1>1, <2>3, IdleKeeps
<1>2. CASE file = EmptyFile /\ BeginEvent(InitEvent, 0) /\ UNCHANGED <<file, images, acked>>
  <2>1. file.lines = <<>>
    BY <1>2 DEF EmptyFile
  <2> QED  BY <1>2, <2>1, BeginInit
<1> QED  BY <1>1, <1>2 DEF Provision

\* Every step of the journal keeps the invariant.
LEMMA JournalStep ==
    ASSUME JournalInductive, [JournalNext]_jvars
    PROVE  JournalInductive'
<1>1. CASE Provision
  BY <1>1, ProvisionKeeps
<1>2. CASE Repaired
  <2>1. images' = {file} /\ UNCHANGED <<file, acked>>
    BY <1>2 DEF Repaired
  <2>2. CASE file.lines = <<>> /\ BeginEvent(InitEvent, 0)
    BY <2>1, <2>2, BeginInit
  <2>3. CASE status' = "closed"
    BY <2>1, <2>3, IdleKeeps
  <2> QED  BY <1>2, <2>2, <2>3 DEF Repaired
<1>3. CASE Open
  <2>1. /\ status' = "open" /\ file.lines # <<>>
        /\ entries' = Replay(file.lines).entries /\ cll' = Replay(file.lines).cll
        /\ UNCHANGED <<file, images, acked>>
    BY <1>3 DEF Open
  <2>2. (IsLines(acked) /\ \A f \in images \cup {file} : JournalOk(f))'
    BY <2>1, JournalsKept
  <2>3. Replay(file.lines) = EngineOf(entries', cll')
    BY <2>1 DEF JournalInductive, JournalOk, IsEngine
  <2> QED  BY <2>1, <2>2, <2>3 DEF JournalInductive, Writing
<1>4. CASE Close \/ RollbackFails \/ ProcessCrash
  <2>1. status' = "closed" /\ UNCHANGED <<file, images, acked>>
    BY <1>4 DEF Close, RollbackFails, ProcessCrash, Closed
  <2> QED  BY <2>1, IdleKeeps
<1>5. CASE \E v \in Value, t \in Time : JournalAppend(v, t)
  BY <1>5, AppendKeeps
<1>6. CASE \E s \in {cll, [cll EXCEPT !.witnesses = Queued(cll.witnesses)]} :
           \E n \in NextStates(s) : JournalCommitCll(Len(cll.nodes), cll.checkpoint, n)
  <2>1. PICK s \in {cll, [cll EXCEPT !.witnesses = Queued(cll.witnesses)]} :
           \E n \in NextStates(s) : JournalCommitCll(Len(cll.nodes), cll.checkpoint, n)
    BY <1>6
  <2>2. PICK n \in NextStates(s) : JournalCommitCll(Len(cll.nodes), cll.checkpoint, n)
    BY <2>1
  <2>3. status = "open"
    BY <2>2 DEF JournalCommitCll
  <2>4. Replay(file.lines) = EngineOf(entries, cll) /\ IsEngine(Replay(file.lines))
    BY <2>3 DEF JournalInductive, JournalOk
  <2>5. entries \in Seq(Entry) /\ IsState(cll)
    BY <2>4 DEF IsEngine, EngineOf
  <2>6. IsState(s)
    BY <2>1, <2>5, QueuedIsState
  <2>7. IsState(n)
    BY <2>2, <2>5, <2>6, NextIsState
  <2> QED  BY <2>2, <2>7, CommitCllKeeps
<1>7. CASE \E k \in DOMAIN cll.witnesses, got \in BOOLEAN :
              LET row == cll.witnesses[k]
              IN  ~row.receipt /\ JournalCommitWitness(k,
                     [row EXCEPT !.attempts = @ + 1, !.receipt = got], row.attempts)
  BY <1>7, CommitWitnessKeeps
<1>8. CASE WritePart
  BY <1>8, WritePartKeeps
<1>9. CASE WriteAll
  BY <1>9, WriteAllKeeps
<1>10. CASE Sync
  BY <1>10, SyncKeeps
<1>11. CASE Oversized
  <2>1. /\ status = "write" /\ event.type # "cll.init" /\ Restore /\ status' = "open"
        /\ UNCHANGED <<file, images, acked>>
    BY <1>11 DEF Oversized
  <2>2. Writing /\ Len(file.lines) = start
    BY <2>1 DEF JournalInductive, Writing, FileOk
  <2> QED  BY <2>1, <2>2, RestoreKeeps
<1>12. CASE WriteFails
  BY <1>12, WriteFailsKeeps
<1>13. CASE Truncate
  BY <1>13, TruncateKeeps
<1>14. CASE RolledBack
  <2>1. status = "resync" /\ images' = {file} /\ UNCHANGED <<file, acked>>
    BY <1>14 DEF RolledBack
  <2>2. Writing /\ Len(file.lines) = start
    BY <2>1 DEF JournalInductive, Writing, FileOk
  <2>3. CASE Closed
    <3>1. status' = "closed"
      BY <2>3 DEF Closed
    <3> QED  BY <2>1, <3>1, IdleKeeps
  <2>4. CASE event.type # "cll.init" /\ Restore /\ status' = "open"
    BY <2>1, <2>2, <2>4, RestoreKeeps
  <2> QED  BY <1>14, <2>3, <2>4 DEF RolledBack
<1>15. CASE PowerLoss
  <2>1. status' = "closed" /\ file' \in images /\ images' = {file'} /\ acked' = acked
    BY <1>15 DEF PowerLoss, Closed
  <2> QED  BY <2>1, IdleKeeps
<1>16. CASE UNCHANGED jvars
  <2>1. UNCHANGED <<entries, cll, file, images, status, event, start, snapshot, acked>>
    BY <1>16 DEF jvars, journalVars
  <2>2. (IsLines(acked) /\ \A f \in images \cup {file} : JournalOk(f))'
    BY <2>1, JournalsKept
  <2>3. Base' = Base
    BY <2>1 DEF Base
  <2>4. FileOk' = FileOk /\ EventOk' = EventOk /\ Writing' = Writing
    BY <2>1, <2>3 DEF FileOk, EventOk, Writing
  <2> QED  BY <2>1, <2>2, <2>4 DEF JournalInductive
<1> QED  BY <1>1, <1>2, <1>3, <1>4, <1>5, <1>6, <1>7, <1>8, <1>9, <1>10, <1>11, <1>12,
            <1>13, <1>14, <1>15, <1>16 DEF JournalNext

\* An absent journal is sound.
LEMMA JournalStart == JournalInit => JournalInductive
<1> SUFFICES ASSUME JournalInit PROVE JournalInductive
  OBVIOUS
<1>1. /\ file = EmptyFile /\ images = {EmptyFile} /\ acked = <<>> /\ status = "closed"
  BY DEF JournalInit
<1>2. PICK f : f = EmptyFile
  OBVIOUS
<1>3. f.lines = <<>> /\ f = [lines |-> f.lines, torn |-> f.torn]
  BY <1>2 DEF EmptyFile
<1>4. JournalOk(f)
  BY <1>1, <1>3, NoLines DEF JournalOk, Prefix
<1> QED  BY <1>1, <1>2, <1>4, NoLines DEF JournalInductive, Writing

-----------------------------------------------------------------------------
(***************************************************************************)
(* The theorems.                                                           *)
(***************************************************************************)

\* The invariant holds in every reachable state.
LEMMA JournalInvariant == JournalSpec => []JournalInductive
  BY JournalStart, JournalStep, PTL DEF JournalSpec

\* JsonlBackend: at every moment at which the store is open and idle,
\* _replay of its file gives exactly the engine in memory, whatever appends,
\* commits, failed writes, roll backs, crashes and repairs came before.
THEOREM JournalIsEngine == JournalSpec => []ReplayMatches
<1>1. JournalInductive => ReplayMatches
  BY DEF JournalInductive, ReplayMatches, EngineOf
<1> QED  BY <1>1, JournalInvariant, PTL

\* _append_event and _rollback: whatever a crash or a power loss leaves
\* begins with every line whose mutation returned, and replays without a
\* corrupt line, so that the store can be opened again.
THEOREM JournalSurvives == JournalSpec => []AcknowledgedSurvives
<1>1. ASSUME NEW f, JournalOk(f) PROVE Prefix(acked, f.lines) /\ Replay(f.lines).ok
  <2>1. PICK r : r = Replay(f.lines)
    OBVIOUS
  <2>2. r = EngineOf(r.entries, r.cll)
    BY <1>1, <2>1 DEF JournalOk, IsEngine
  <2>3. r.ok = TRUE
    BY <2>2 DEF EngineOf
  <2> QED  BY <1>1, <2>1, <2>3 DEF JournalOk
<1>2. JournalInductive => AcknowledgedSurvives
  BY <1>1 DEF JournalInductive, AcknowledgedSurvives
<1> QED  BY <1>2, JournalInvariant, PTL
=============================================================================
