--------------------------- MODULE CllServiceProofs ---------------------------
(***************************************************************************)
(* Proofs about CllService: the checkpoint runners and the delivery        *)
(* runners on one store keep each other's invariants, and what a witness   *)
(* has accepted is the chain.                                              *)
(***************************************************************************)
EXTENDS CllService, CheckpointRunnerProofs, WitnessDeliveryProofs

(***************************************************************************)
(* The invariant is the conjunction of the two components' invariants and  *)
(* of one that relates them: what is on the wire, and what was accepted,   *)
(* is of the chain.                                                        *)
(***************************************************************************)
Committed(cp) == \E j \in 1..Len(chain) : chain[j] = cp

\* The n-th checkpoint a witness accepted is of the chain, right after the
\* one before.
AcceptedInOrder(w) ==
    \A i \in 1..Len(accepted[w]) :
        \E j \in 1..Len(chain) :
            /\ accepted[w][i] = chain[j]
            /\ i > 1 => j > 1 /\ accepted[w][i - 1] = chain[j - 1]

WitnessChain ==
    /\ \A m \in wire : Committed(m.checkpoint)
    /\ \A w \in Witness : AcceptedInOrder(w)

ServiceInductive ==
    /\ TypeOK /\ Inductive /\ RowsAndKeys
    /\ DeliveryTypeOK /\ DeliverySound
    /\ WitnessChain

-----------------------------------------------------------------------------
(***************************************************************************)
(* What the two components do to each other.                               *)
(***************************************************************************)

\* Deliveries are invisible to the checkpoint runners' invariants, which
\* speak of a row's checkpoint and validity only.
LEMMA DeliveryKeepsRunners ==
    ASSUME TypeOK, Inductive, RowsAndKeys, DeliveryTypeOK, DeliverySound,
           DeliveryNext, UNCHANGED runnerVars
    PROVE  TypeOK' /\ Inductive' /\ RowsAndKeys'
<1>1. /\ pc' = pc /\ now' = now /\ view' = view /\ next' = next /\ reloaded' = reloaded
      /\ wake' = wake /\ crashes' = crashes /\ chain' = chain
  BY DEF runnerVars
<1>2. /\ entries' = entries /\ clock' = clock
      /\ cll'.nodes = cll.nodes /\ cll'.checkpoint = cll.checkpoint
      /\ cll'.first_pending_at = cll.first_pending_at
      /\ DOMAIN cll'.witnesses = DOMAIN cll.witnesses
      /\ \A j \in DOMAIN cll.witnesses :
            /\ cll'.witnesses[j].checkpoint = cll.witnesses[j].checkpoint
            /\ ValidWitness(j, cll.witnesses[j]) => ValidWitness(j, cll'.witnesses[j])
  BY DeliveryWrites
<1>3. IsCllState(cll')
  BY DeliveryNextStep DEF DeliveryTypeOK
<1>4. TypeOK'
  BY <1>1, <1>2, <1>3 DEF TypeOK
<1>5. Inductive'
  <2>1. StoreSound'
    BY <1>1, <1>2 DEF Inductive, StoreSound, SoundOver, ChainOver, Follows
  <2>2. \A r \in Runner : HandSound(r)'
    BY <1>1, <1>2 DEF Inductive, HandSound, SoundOver, Advances, Follows
  <2> QED  BY <2>1, <2>2 DEF Inductive
<1>6. RowsAndKeys'
  <2>1. RowsMatchChain'
    BY <1>1, <1>2 DEF RowsAndKeys, StoreRows, RowsMatchChain
  <2>2. ValidRows(cll.witnesses)'
    BY <1>2 DEF RowsAndKeys, StoreRows, ValidRows
  <2>3. StoreRows'
    BY <1>1, <2>1, <2>2 DEF RowsAndKeys, StoreRows
  <2>4. ASSUME NEW r \in Runner PROVE HandRows(r)'
    <3>1. HandRows(r)
      BY DEF RowsAndKeys
    <3>2. KnownRows(view[r].witnesses) => KnownRows(view[r].witnesses)'
      BY <1>1, <1>2 DEF KnownRows
    <3> QED  BY <1>1, <3>1, <3>2 DEF HandRows, SignedBy, ValidRows, Queues, Seals
  <2> QED  BY <2>3, <2>4 DEF RowsAndKeys
<1> QED  BY <1>4, <1>5, <1>6

\* A checkpoint runner's commit keeps the stored rows, receipts included, and
\* adds undelivered rows ahead of them.
LEMMA RunnersQueue ==
    ASSUME TypeOK, Inductive, RowsAndKeys, DeliveryTypeOK, [Next]_vars
    PROVE  RowsQueued
<1>1. CASE cll' = cll
  BY <1>1 DEF RowsQueued, DeliveryTypeOK, IsCllState, Checkpoint
<1>2. ASSUME NEW r \in Runner, CommitOk(r) PROVE RowsQueued
  <2> DEFINE n == next[r]
             cp == n.checkpoint
  <2>1. /\ IsCllState(n) /\ IsCllState(cll) /\ Advances(view[r], n, entries)
        /\ view[r].checkpoint = cll.checkpoint
    BY <1>2 DEF CommitOk, TypeOK, Inductive, HandSound, RunnerCommitError,
                CommitCllError, Expected
  <2>2. IsCllState(cll') /\ cll'.checkpoint = cp
    BY <1>2, <2>1, ApplyFacts DEF CommitOk
  <2>3. cp.size \in Nat /\ cp.prev_size \in Nat /\ cll.checkpoint.size \in Nat
    BY <2>1 DEF IsCllState, Checkpoint
  <2>4. cp = cll.checkpoint \/ Follows(cp, cll.checkpoint, entries)
    BY <2>1 DEF Advances
  <2>5. cp.size >= cll.checkpoint.size
    BY <2>3, <2>4 DEF Follows
  <2>6. /\ DOMAIN cll.witnesses \subseteq DOMAIN cll'.witnesses
        /\ \A k \in DOMAIN cll.witnesses : cll'.witnesses[k] = cll.witnesses[k]
    BY <1>2, MergedRows
  <2>7. ASSUME NEW k \in DOMAIN cll'.witnesses \ DOMAIN cll.witnesses
        PROVE  k[2] > cll.checkpoint.size /\ RowSound(k)' /\ ~cll'.witnesses[k].receipt
    <3>1. /\ Seals(r, view[r], n) /\ k \in NewKeys(r, cp)
          /\ FreshRow(cll'.witnesses[k], cp)
      BY <1>2, MergedRows
    <3>2. k[2] = cp.size /\ cp.size > cll.checkpoint.size
      BY <2>1, <3>1 DEF NewKeys, Seals
    <3>3. Follows(cp, cll.checkpoint, entries)
      BY <2>3, <2>4, <3>2
    <3>4. cll'.witnesses[k].checkpoint = cp /\ ~cll'.witnesses[k].receipt
      BY <3>1 DEF FreshRow
    <3> HIDE DEF cp
    <3>5. cp.prev_size < k[2] /\ k[2] <= cp.size
      BY <2>3, <3>2, <3>3 DEF Follows
    <3> QED  BY <2>2, <3>2, <3>4, <3>5 DEF RowSound
  <2> QED  BY <2>2, <2>5, <2>6, <2>7 DEF RowsQueued
<1>3. AppendStep \/ Tick \/ UNCHANGED vars => cll' = cll
  BY DEF AppendStep, AppendEntry, Tick, ClockTicks, storeVars, vars
<1>4. ASSUME NEW r \in Runner,
             Notify(r) \/ Woken(r) \/ Poll(r) \/ Begin(r) \/ Load(r) \/ Scan(r)
                       \/ CommitFails(r) \/ Crash(r)
      PROVE  cll' = cll
  BY <1>4 DEF Notify, Woken, Poll, Begin, Load, Scan, CommitFails, Crash
<1> QED  BY <1>1, <1>2, <1>3, <1>4 DEF Next, RunnerStep

\* The chain only grows.
LEMMA ChainKept ==
    ASSUME TypeOK, Inductive, RowsAndKeys, [Next]_vars
    PROVE  /\ Len(chain) \in Nat /\ Len(chain') \in Nat
           /\ Len(chain) <= Len(chain')
           /\ \A i \in 1..Len(chain) : chain'[i] = chain[i]
<1>0. Len(chain) \in Nat
  BY LenProperties DEF TypeOK
<1>1. CASE chain' = chain
  BY <1>0, <1>1
<1>2. ASSUME NEW r \in Runner, CommitOk(r), chain' # chain
      PROVE  Len(chain') = Len(chain) + 1 /\ \A i \in 1..Len(chain) : chain'[i] = chain[i]
  BY <1>2, CommittedChain
<1>3. AppendStep \/ Tick \/ UNCHANGED vars => chain' = chain
  BY DEF AppendStep, Tick, vars, runnerVars
<1>4. ASSUME NEW r \in Runner,
             Notify(r) \/ Woken(r) \/ Poll(r) \/ Begin(r) \/ Load(r) \/ Scan(r)
                       \/ CommitFails(r) \/ Crash(r)
      PROVE  chain' = chain
  BY <1>4 DEF Notify, Woken, Poll, Begin, Load, Scan, CommitFails, Crash
<1>5. chain' = chain \/ \E r \in Runner : CommitOk(r) /\ chain' # chain
  BY <1>3, <1>4 DEF Next, RunnerStep
<1> QED  BY <1>0, <1>1, <1>2, <1>5

\* The runners leave the wire and the witnesses alone, and the chain they
\* refer to is only extended.
LEMMA RunnersKeepWitnessChain ==
    ASSUME TypeOK, Inductive, RowsAndKeys, WitnessChain, [Next]_vars,
           UNCHANGED deliveryVars
    PROVE  WitnessChain'
<1>1. wire' = wire /\ accepted' = accepted
  BY DEF deliveryVars
<1>2. /\ Len(chain) \in Nat /\ Len(chain') \in Nat /\ Len(chain) <= Len(chain')
      /\ \A i \in 1..Len(chain) : chain'[i] = chain[i]
  BY ChainKept
<1>3. \A j \in 1..Len(chain) : j \in 1..Len(chain')
  BY <1>2
<1>4. ASSUME NEW m \in wire PROVE Committed(m.checkpoint)'
  BY <1>2, <1>3 DEF WitnessChain, Committed
<1>5. ASSUME NEW w \in Witness PROVE AcceptedInOrder(w)'
  <2> SUFFICES ASSUME NEW i \in 1..Len(accepted[w])
               PROVE  \E j \in 1..Len(chain') :
                         /\ accepted[w][i] = chain'[j]
                         /\ i > 1 => j > 1 /\ accepted[w][i - 1] = chain'[j - 1]
    BY <1>1 DEF AcceptedInOrder
  <2>1. PICK j \in 1..Len(chain) :
           /\ accepted[w][i] = chain[j]
           /\ i > 1 => j > 1 /\ accepted[w][i - 1] = chain[j - 1]
    BY DEF WitnessChain, AcceptedInOrder
  <2>2. j > 1 => j - 1 \in 1..Len(chain)
    BY <1>2
  <2> QED  BY <1>2, <1>3, <2>1, <2>2
<1> QED  BY <1>1, <1>4, <1>5 DEF WitnessChain

\* What a thread has in hand is of the chain.
LEMMA ItemsCommitted ==
    ASSUME TypeOK, RowsAndKeys, DeliverySound, NEW d \in Courier, NEW w \in Witness,
           NEW n \in DOMAIN items[d][w]
    PROVE  Committed(items[d][w][n].checkpoint)
<1>1. ItemSound(w, n, items[d][w][n])
  BY DEF DeliverySound, ThreadSound
<1>2. DOMAIN chain = 1..Len(chain)
  BY LenProperties DEF TypeOK
<1> QED
  BY <1>1, <1>2 DEF ItemSound, HasRow, RowsAndKeys, StoreRows, RowsMatchChain, Committed

\* A witness takes a committed checkpoint only right after the one it names
\* as its predecessor, and sizes increase along the chain.
LEMMA NextInChain ==
    ASSUME TypeOK, Inductive, RowsAndKeys, NEW j \in 1..Len(chain), NEW l \in 1..Len(chain),
           chain[j].prev_size = chain[l].size
    PROVE  j > 1 /\ chain[j - 1] = chain[l]
<1>1. chain \in Seq(Checkpoint) /\ Len(chain) \in Nat
  BY LenProperties DEF TypeOK
<1>2. \A i \in 1..Len(chain) : chain[i].size \in Nat
  <2>1. \A i \in 1..Len(chain) : chain[i] \in Checkpoint
    BY <1>1, ElementOfSeq
  <2> QED  BY <2>1 DEF Checkpoint
<1>3. \A i \in 1..Len(chain) :
         /\ chain[i].size > (IF i = 1 THEN NoCheckpoint ELSE chain[i - 1]).size
         /\ chain[i].prev_size = (IF i = 1 THEN NoCheckpoint ELSE chain[i - 1]).size
  BY DEF Inductive, StoreSound, ChainOver, Follows
<1>4. chain[l].size > 0
  <2>1. CASE l = 1
    BY <1>3, <2>1 DEF NoCheckpoint
  <2>2. CASE l # 1
    <3>1. l - 1 \in 1..Len(chain)
      BY <1>1, <2>2
    <3> QED  BY <1>2, <1>3, <2>2, <3>1
  <2> QED  BY <2>1, <2>2
<1>5. j # 1
  BY <1>3, <1>4 DEF NoCheckpoint
<1>6. j - 1 \in 1..Len(chain) /\ chain[j - 1].size = chain[l].size
  BY <1>1, <1>3, <1>5
<1>7. \A a, b \in 1..Len(chain) : a < b => chain[a].size < chain[b].size
  BY DEF RowsAndKeys, StoreRows
<1>8. ~(j - 1 < l) /\ ~(l < j - 1)
  BY <1>2, <1>6, <1>7
<1>9. j - 1 = l
  BY <1>1, <1>6, <1>8
<1> QED  BY <1>1, <1>5, <1>9

\* Deliveries post only what is stored, and witnesses accept in the order of
\* the chain.
LEMMA DeliveryKeepsWitnessChain ==
    ASSUME TypeOK, Inductive, RowsAndKeys, DeliveryTypeOK, DeliverySound, WitnessChain,
           DeliveryNext, UNCHANGED runnerVars
    PROVE  WitnessChain'
<1>1. chain' = chain
  BY DEF runnerVars
<1>2. CASE UNCHANGED <<wire, accepted>>
  BY <1>1, <1>2 DEF WitnessChain, Committed, AcceptedInOrder
<1>3. ASSUME NEW d \in Courier, NEW w \in Witness, Deliver(d, w) PROVE WitnessChain'
  <2> DEFINE cp == items[d][w][Current(d, w)].checkpoint
  <2>1. accepted' = accepted /\ DOMAIN items[d][w] # {}
    BY <1>3 DEF Deliver
  <2>2. wire' = wire \/ wire' = wire \cup {[from |-> d, to |-> w, checkpoint |-> cp]}
    BY <1>3 DEF Deliver
  <2>3. Current(d, w) \in DOMAIN items[d][w]
    BY <2>1, CurrentFacts DEF DeliveryTypeOK, IsItemMap
  <2>4. Committed(cp)
    BY <2>3, ItemsCommitted
  <2> HIDE DEF cp
  <2>5. ASSUME NEW m \in wire' PROVE Committed(m.checkpoint)
    BY <2>2, <2>4 DEF WitnessChain
  <2> QED  BY <1>1, <2>1, <2>5 DEF WitnessChain, Committed, AcceptedInOrder
<1>4. ASSUME NEW m \in wire, WitnessHandles(m) PROVE WitnessChain'
  <2> DEFINE w == m.to
             cp == m.checkpoint
  <2>1. wire' \subseteq wire /\ w \in Witness /\ cp \in Checkpoint /\ Committed(cp)
    BY <1>4 DEF WitnessHandles, DeliveryTypeOK, Request, WitnessChain
  <2>2. \A p \in wire' : Committed(p.checkpoint)'
    BY <1>1, <2>1 DEF WitnessChain, Committed
  <2>3. CASE accepted' = accepted
    BY <1>1, <2>2, <2>3 DEF WitnessChain, AcceptedInOrder
  <2>4. CASE accepted' # accepted
    <3> DEFINE a == accepted[w]
               b == Append(a, cp)
    <3>1. Continues(w, cp) /\ accepted' = [accepted EXCEPT ![w] = b]
      BY <1>4, <2>4 DEF WitnessHandles
    <3> HIDE DEF w, cp
    <3>2. a \in Seq(Checkpoint) /\ accepted \in [Witness -> Seq(Checkpoint)]
      BY <2>1 DEF DeliveryTypeOK
    <3>3. Len(a) \in Nat /\ (a # <<>> => Len(a) >= 1)
      BY <3>2, EmptySeq, LenProperties
    <3>4. /\ Len(b) = Len(a) + 1 /\ b[Len(a) + 1] = cp
          /\ \A i \in 1..Len(a) : b[i] = a[i]
      BY <2>1, <3>2, AppendProperties
    <3>5. accepted'[w] = b /\ \A x \in Witness \ {w} : accepted'[x] = accepted[x]
      BY <2>1, <3>1, <3>2
    <3>6. AcceptedInOrder(w)
      BY <2>1 DEF WitnessChain
    <3>7. PICK j \in 1..Len(chain) : chain[j] = cp
      BY <2>1 DEF Committed
    <3>8. ASSUME Len(a) >= 1 PROVE j > 1 /\ a[Len(a)] = chain[j - 1]
      <4>1. a # <<>>
        BY <3>2, <3>8, EmptySeq
      <4>2. cp.prev_size = a[Len(a)].size
        BY <3>1, <4>1 DEF Continues, LastAccepted
      <4>3. Len(a) \in 1..Len(a)
        BY <3>3, <3>8
      <4>4. PICK l \in 1..Len(chain) : a[Len(a)] = chain[l]
        BY <3>6, <4>3 DEF AcceptedInOrder
      <4>5. chain[j].prev_size = chain[l].size
        BY <3>7, <4>2, <4>4
      <4> QED  BY <4>4, <4>5, NextInChain
    <3> HIDE DEF a, b
    <3>9. ASSUME NEW i \in 1..Len(b)
          PROVE  \E q \in 1..Len(chain) :
                    b[i] = chain[q] /\ (i > 1 => q > 1 /\ b[i - 1] = chain[q - 1])
      <4>1. CASE i \in 1..Len(a)
        <5>1. PICK q \in 1..Len(chain) :
                 a[i] = chain[q] /\ (i > 1 => q > 1 /\ a[i - 1] = chain[q - 1])
          BY <3>6, <4>1 DEF AcceptedInOrder, a
        <5>2. i > 1 => i - 1 \in 1..Len(a)
          BY <3>3, <4>1
        <5> QED  BY <3>4, <4>1, <5>1, <5>2
      <4>2. CASE i = Len(a) + 1
        <5>1. b[i] = chain[j]
          BY <3>4, <3>7, <4>2
        <5>2. i > 1 => Len(a) >= 1 /\ i - 1 = Len(a) /\ i - 1 \in 1..Len(a)
          BY <3>3, <4>2
        <5>3. i > 1 => j > 1 /\ b[i - 1] = chain[j - 1]
          BY <3>4, <3>8, <5>2
        <5> QED  BY <5>1, <5>3
      <4> QED  BY <3>3, <3>4, <4>1, <4>2
    <3>10. ASSUME NEW x \in Witness PROVE AcceptedInOrder(x)'
      <4>1. CASE x = w
        BY <1>1, <3>5, <3>9, <4>1 DEF AcceptedInOrder
      <4>2. CASE x # w
        <5>1. AcceptedInOrder(x) /\ accepted'[x] = accepted[x]
          BY <3>5, <4>2 DEF WitnessChain
        <5> QED  BY <1>1, <5>1 DEF AcceptedInOrder
      <4> QED  BY <4>1, <4>2
    <3> QED  BY <2>2, <3>10 DEF WitnessChain
  <2> QED  BY <2>3, <2>4
<1>5. ASSUME NEW d \in Courier, BeginDelivery(d) \/ CrashDelivery(d)
      PROVE  UNCHANGED <<wire, accepted>>
  BY <1>5 DEF BeginDelivery, CrashDelivery
<1>6. ASSUME NEW d \in Courier, NEW w \in Witness,
             \/ DeliveredAll(d, w) \/ Record(d, w)
             \/ RetryableFailure(d, w) \/ SpuriousRefusal(d, w)
      PROVE  UNCHANGED <<wire, accepted>>
  BY <1>6 DEF DeliveredAll, Record, RetryableFailure, SpuriousRefusal
<1>7. ASSUME NEW k \in DOMAIN cll.witnesses, OperatorClears(k)
      PROVE  UNCHANGED <<wire, accepted>>
  BY <1>7 DEF OperatorClears
<1> QED
  BY <1>2, <1>3, <1>4, <1>5, <1>6, <1>7 DEF DeliveryNext, DeliveryStep

-----------------------------------------------------------------------------
(***************************************************************************)
(* The invariant of the service.                                           *)
(***************************************************************************)

\* It holds of an empty store with nothing under way.
LEMMA ServiceStart == ServiceInit => ServiceInductive
<1> SUFFICES ASSUME Init, DeliveryInit PROVE ServiceInductive
  BY DEF ServiceInit
<1>1. TypeOK /\ Inductive /\ RowsAndKeys
  BY TypeStart, InductiveStart, RowsInit
<1>2. IsCllState(cll) /\ cll.witnesses = NoRows /\ clock \in Nat
  BY <1>1 DEF TypeOK, Init, StoreInit, ClockInit, EmptyState
<1>3. DeliveryTypeOK /\ DeliverySound
  BY <1>2, FreshDelivery
<1>4. WitnessChain
  <2>1. wire = {} /\ \A w \in Witness : accepted[w] = <<>>
    BY DEF DeliveryInit
  <2> QED  BY <2>1, EmptySeq DEF WitnessChain, AcceptedInOrder
<1> QED  BY <1>1, <1>3, <1>4 DEF ServiceInductive

\* Every step of either kind of runner keeps it, and lets rows only evolve.
LEMMA ServiceStep ==
    ServiceInductive /\ [ServiceNext]_serviceVars => ServiceInductive' /\ Evolves
<1> SUFFICES ASSUME TypeOK, Inductive, RowsAndKeys, DeliveryTypeOK, DeliverySound,
                    WitnessChain, [ServiceNext]_serviceVars
             PROVE  ServiceInductive' /\ Evolves
  BY DEF ServiceInductive
<1>1. CASE [Next]_vars /\ UNCHANGED deliveryVars
  <2>1. TypeOK' /\ Inductive' /\ RowsAndKeys'
    BY <1>1, TypeStep, InductiveStep, RowsStep
  <2>2. RowsQueued
    BY <1>1, RunnersQueue
  <2>3. clock' \in Nat
    BY <2>1 DEF TypeOK
  <2>4. DeliveryTypeOK' /\ DeliverySound' /\ Evolves
    BY <1>1, <2>2, <2>3, QueueStep
  <2>5. WitnessChain'
    BY <1>1, RunnersKeepWitnessChain
  <2> QED  BY <2>1, <2>4, <2>5 DEF ServiceInductive
<1>2. CASE DeliveryNext /\ UNCHANGED runnerVars
  BY <1>2, DeliveryKeepsRunners, DeliveryNextStep, DeliveryKeepsWitnessChain
     DEF ServiceInductive
<1>3. UNCHANGED serviceVars => [Next]_vars /\ UNCHANGED deliveryVars
  BY DEF serviceVars, vars
<1> QED  BY <1>1, <1>2, <1>3 DEF ServiceNext

\* The invariant of the service.
LEMMA ServiceHolds == ServiceSpec => []ServiceInductive
  BY ServiceStart, ServiceStep, PTL DEF ServiceSpec

-----------------------------------------------------------------------------
(***************************************************************************)
(* The theorems.                                                           *)
(***************************************************************************)

\* What a witness has accepted is a run of the chain, in the chain's order:
\* nothing is posted that was not committed first (_advance and commit_cll,
\* then deliver_once), also while a checkpoint runner commits the rows it
\* loaded before a delivery changed them.
THEOREM WitnessesFollowChain == ServiceSpec => []WitnessFollowsChain
<1>1. ServiceInductive => WitnessFollowsChain
  <2> SUFFICES ASSUME ServiceInductive, NEW w \in Witness, NEW i \in DOMAIN accepted[w]
               PROVE  \E j \in DOMAIN chain :
                         /\ accepted[w][i] = chain[j]
                         /\ i > 1 => accepted[w][i - 1] = chain[j - 1]
    BY DEF WitnessFollowsChain
  <2>1. chain \in Seq(Checkpoint) /\ accepted[w] \in Seq(Checkpoint)
    BY DEF ServiceInductive, TypeOK, DeliveryTypeOK
  <2>2. DOMAIN chain = 1..Len(chain) /\ i \in 1..Len(accepted[w])
    BY <2>1, LenProperties
  <2>3. AcceptedInOrder(w)
    BY DEF ServiceInductive, WitnessChain
  <2> QED  BY <2>2, <2>3 DEF AcceptedInOrder
<1> QED  BY <1>1, ServiceHolds, PTL

\* No step of either kind of runner loses or replaces a stored receipt: a
\* checkpoint runner commits the rows it loaded, and added_witnesses keeps
\* the stored ones.
THEOREM ServiceKeepsReceipts == ServiceSpec => ReceiptsKept
<1>1. Evolves =>
         [\A k \in DOMAIN cll.witnesses :
             cll.witnesses[k].receipt => cll'.witnesses[k] = cll.witnesses[k]]_cll
  BY DEF Evolves, RowEvolves
<1> QED  BY <1>1, ServiceStart, ServiceStep, PTL DEF ServiceSpec, ReceiptsKept

\* The receipts of the whole service: each is of a checkpoint its witness did
\* accept and none is stored after a gap, when the rows are queued by real
\* runners instead of the delivery model's commits.
THEOREM ServiceReceiptsSound == ServiceSpec => [](ReceiptSound /\ ReceiptsGapless)
<1>1. ServiceInductive => ReceiptSound /\ ReceiptsGapless
  <2> SUFFICES ASSUME StoredSound PROVE ReceiptSound /\ ReceiptsGapless
    BY DEF ServiceInductive, DeliverySound
  <2>1. ReceiptSound
    BY DEF StoredSound, ReceiptOk, Accepted, ReceiptSound
  <2>2. ReceiptsGapless
    BY DEF StoredSound, ReceiptOk, NoGap, ReceiptsGapless
  <2> QED  BY <2>1, <2>2
<1> QED  BY <1>1, ServiceHolds, PTL

\* With deliveries running, the checkpoint runners still produce the abstract
\* chain: a delivery step (commit_witness) is a stutter of CheckpointChain.
THEOREM ServiceImplementsChain == ServiceSpec => ImplementsChain
<1>1. ServiceInit => Abstract!ChainInit
  BY InitRefines DEF ServiceInit
<1>2. ServiceInductive /\ [ServiceNext]_serviceVars
         => [Abstract!ChainNext]_(Abstract!chainVars)
  <2> SUFFICES ASSUME TypeOK, Inductive, RowsAndKeys, DeliveryTypeOK, DeliverySound,
                      [ServiceNext]_serviceVars
               PROVE  [Abstract!ChainNext]_(Abstract!chainVars)
    BY DEF ServiceInductive
  <2>1. CASE [Next]_vars
    BY <2>1, StepRefines
  <2>2. CASE DeliveryNext /\ UNCHANGED runnerVars
    <3>1. entries' = entries /\ cll'.nodes = cll.nodes /\ chain' = chain
      BY <2>2, DeliveryWrites DEF runnerVars
    <3> QED  BY <3>1 DEF Abstract!chainVars
  <2>3. UNCHANGED serviceVars => [Next]_vars
    BY DEF serviceVars, vars
  <2> QED  BY <2>1, <2>2, <2>3 DEF ServiceNext
<1> QED
  BY <1>1, <1>2, ServiceHolds, PTL DEF ServiceSpec, ImplementsChain, Abstract!Spec

\* With deliveries running, the runners' own guarantees hold as without them:
\* the chain is sound, every checkpoint is queued for its witnesses under one
\* key, and a runner fails only over a foreign key.
THEOREM ServiceKeepsChain ==
    ServiceSpec => [](ChainSound /\ RowsMatchChain /\ OneSigner /\ OnlyForeignKeyFails)
<1>1. ServiceInductive => ChainSound /\ RowsMatchChain /\ OneSigner /\ OnlyForeignKeyFails
  <2> SUFFICES ASSUME TypeOK, Inductive, RowsAndKeys
               PROVE  ChainSound /\ RowsMatchChain /\ OneSigner /\ OnlyForeignKeyFails
    BY DEF ServiceInductive
  <2>1. ChainSound /\ OneSigner
    BY InductiveChain, RowsOneSigner
  <2>2. RowsMatchChain /\ OnlyForeignKeyFails
    BY DEF RowsAndKeys, StoreRows, HandRows, OnlyForeignKeyFails
  <2> QED  BY <2>1, <2>2
<1> QED  BY <1>1, ServiceHolds, PTL
=============================================================================
