------------------------ MODULE WitnessDeliveryProofs ------------------------
(***************************************************************************)
(* Proofs about WitnessDelivery, for any number of delivery runners,       *)
(* witnesses and checkpoints, any limit, backoff and bounds, and for       *)
(* witnesses that answer a repeated submission or refuse it.               *)
(***************************************************************************)
EXTENDS WitnessDelivery, NatRecursion, SequenceTheorems

-----------------------------------------------------------------------------
(***************************************************************************)
(* The inductive invariant.                                                *)
(***************************************************************************)
Place == {"idle", "next", "await"}
Reply == {"none", "receipt", "rejected", "unbound", "retry"}
Request == [from : Courier, to : Witness, checkpoint : Checkpoint]

IsItemMap(f) == DOMAIN f \subseteq Nat /\ f \in [DOMAIN f -> WitnessState]

DeliveryTypeOK ==
    /\ IsCllState(cll)
    /\ clock \in Nat
    /\ dpc \in [Courier -> [Witness -> Place]]
    /\ dnow \in [Courier -> Nat]
    /\ DOMAIN items = Courier
    /\ \A d \in Courier : DOMAIN items[d] = Witness
    /\ \A d \in Courier : \A w \in Witness : IsItemMap(items[d][w])
    /\ reply \in [Courier -> [Witness -> Reply]]
    /\ wire \subseteq Request
    /\ accepted \in [Witness -> Seq(Checkpoint)]

\* A row is filed under its checkpoint's size, links backward, and is not
\* ahead of the stored checkpoint.
RowSound(k) ==
    /\ k[2] = cll.witnesses[k].checkpoint.size
    /\ cll.witnesses[k].checkpoint.prev_size < k[2]
    /\ k[2] <= cll.checkpoint.size

Accepted(w, cp) == \E i \in DOMAIN accepted[w] : accepted[w][i] = cp

NoGap(w, cp) ==
    HasRow(w, cp.prev_size) => cll.witnesses[<<w, cp.prev_size>>].receipt

\* A receipt is of an accepted checkpoint, and not the first after a gap.
ReceiptOk(k) ==
    cll.witnesses[k].receipt =>
        /\ Accepted(k[1], cll.witnesses[k].checkpoint)
        /\ NoGap(k[1], cll.witnesses[k].checkpoint)

\* A row in the hands of a thread is the stored one or an older version of
\* it; only the version with the stored attempts can still be committed, and
\* then the stored row is open.
ItemSound(w, n, item) ==
    /\ HasRow(w, n)
    /\ ~item.receipt
    /\ item.checkpoint = cll.witnesses[<<w, n>>].checkpoint
    /\ item.attempts <= cll.witnesses[<<w, n>>].attempts
    /\ item.attempts = cll.witnesses[<<w, n>>].attempts =>
          ~cll.witnesses[<<w, n>>].receipt /\ ~cll.witnesses[<<w, n>>].permanent

\* A thread that waits for an answer.
AwaitSound(d, w) ==
    LET n == Current(d, w)
        cp == items[d][w][n].checkpoint
    IN  /\ DOMAIN items[d][w] # {}
        /\ n \in Corrupted => reply[d][w] = "rejected"
        /\ n \notin Corrupted => NoGap(w, cp)
        /\ reply[d][w] = "receipt" => Accepted(w, cp)

ThreadSound(d, w) ==
    /\ \A n \in DOMAIN items[d][w] : ItemSound(w, n, items[d][w][n])
    /\ dpc[d][w] = "await" => AwaitSound(d, w)
    /\ dpc[d][w] # "await" => reply[d][w] = "none"

StoredSound == \A k \in DOMAIN cll.witnesses : RowSound(k) /\ ReceiptOk(k)

DeliverySound == StoredSound /\ \A d \in Courier : \A w \in Witness : ThreadSound(d, w)

-----------------------------------------------------------------------------
(***************************************************************************)
(* Facts about the operators.                                              *)
(***************************************************************************)

\* The row a thread is at is one it has.
LEMMA CurrentFacts ==
    ASSUME NEW d, NEW w, DOMAIN items[d][w] \subseteq Nat, DOMAIN items[d][w] # {}
    PROVE  Current(d, w) \in DOMAIN items[d][w]
<1>1. \E n \in DOMAIN items[d][w] : \A m \in DOMAIN items[d][w] : n <= m
  BY LeastOfNats
<1> QED  BY <1>1 DEF Current

\* _backoff doubles the delay and caps it: it is a number within the bounds
\* the runner was given, whatever the number of attempts.
LEMMA BackoffFacts ==
    /\ Backoff \in [Nat -> BaseBackoff..MaxBackoff]
    /\ Backoff[0] = BaseBackoff
    /\ \A n \in Nat : Backoff[n + 1] = Least(2 * Backoff[n], MaxBackoff)
<1> DEFINE S == BaseBackoff..MaxBackoff
           step == [p \in Nat \X S |-> Least(2 * p[2], MaxBackoff)]
           Eq(f) == f = [attempts \in Nat |->
                            IF attempts = 0 THEN BaseBackoff
                            ELSE Least(2 * f[attempts - 1], MaxBackoff)]
<1>1. BaseBackoff \in S /\ \A x \in S : Least(2 * x, MaxBackoff) \in S
  BY DeliveryAssumption DEF Least
<1>2. step \in [Nat \X S -> S]
  BY <1>1
<1>3. \A n \in Nat, x \in S : step[<<n, x>>] = Least(2 * x, MaxBackoff)
  OBVIOUS
<1> HIDE DEF S, step
<1>a. BaseBackoff \in S
  BY <1>1
<1>b. PICK f : f \in Recursions(S, BaseBackoff, step)
  BY <1>2, <1>a, RecursionExists, Zenon
<1>4. /\ f \in [Nat -> S]
      /\ f[0] = BaseBackoff /\ \A n \in Nat : f[n + 1] = step[<<n, f[n]>>]
  BY <1>b DEF Recursions
<1>5. Eq(f)
  <2>1. ASSUME NEW n \in Nat
        PROVE  f[n] = IF n = 0 THEN BaseBackoff ELSE Least(2 * f[n - 1], MaxBackoff)
    <3>1. CASE n # 0
      <4>1. n - 1 \in Nat /\ n = (n - 1) + 1
        BY <3>1
      <4>2. f[(n - 1) + 1] = step[<<n - 1, f[n - 1]>>]
        BY <1>4, <4>1
      <4>3. f[n - 1] \in S
        BY <1>4, <4>1
      <4>4. step[<<n - 1, f[n - 1]>>] = Least(2 * f[n - 1], MaxBackoff)
        BY <1>3, <4>1, <4>3
      <4> QED  BY <3>1, <4>1, <4>2, <4>4
    <3>2. CASE n = 0
      BY <1>4, <3>2
    <3> QED  BY <3>1, <3>2
  <2> QED  BY <1>4, <2>1
<1>6. Backoff = CHOOSE g : Eq(g)
  BY DEF Backoff
<1>7. Eq(Backoff)
  <2> HIDE DEF Eq
  <2> QED  BY <1>5, <1>6
<1>8. \A n \in Nat : Backoff[n + 1] = Least(2 * Backoff[n], MaxBackoff)
  <2>1. ASSUME NEW n \in Nat PROVE Backoff[n + 1] = Least(2 * Backoff[n], MaxBackoff)
    <3>1. n + 1 \in Nat /\ n + 1 # 0 /\ (n + 1) - 1 = n
      OBVIOUS
    <3> QED  BY <1>7, <3>1
  <2> QED  BY <2>1
<1>9. Backoff[0] = BaseBackoff /\ DOMAIN Backoff = Nat
  BY <1>7
<1>10. \A n \in Nat : Backoff[n] \in S
  <2> DEFINE A == {n \in Nat : Backoff[n] \in S}
  <2>1. 0 \in A
    BY <1>1, <1>9
  <2>2. \A n \in Nat : n \in A => n + 1 \in A
    BY <1>1, <1>8
  <2> HIDE DEF A
  <2>3. Nat \subseteq A
    BY <2>1, <2>2, SetInduction
  <2> QED  BY <2>3 DEF A
<1>11. Backoff \in [Nat -> S]
  <2>1. Backoff = [n \in Nat |-> Backoff[n]]
    BY <1>7
  <2> QED  BY <1>10, <2>1
<1> QED  BY <1>8, <1>9, <1>11 DEF S

\* pending returns open rows of the witness, as they are stored.
LEMMA PendingFacts ==
    ASSUME NEW rows, IsRowMap(rows), NEW time, NEW limit, NEW w
    PROVE  LET p == PendingFor(rows, time, limit, w)
           IN  /\ IsItemMap(p)
               /\ \A n \in DOMAIN p :
                     /\ <<w, n>> \in DOMAIN rows
                     /\ p[n] = rows[<<w, n>>]
                     /\ ~p[n].receipt /\ ~p[n].permanent
<1> DEFINE p == PendingFor(rows, time, limit, w)
           Due == {k \in DOMAIN rows :
                     /\ k[1] = w
                     /\ ~rows[k].receipt
                     /\ ~rows[k].permanent
                     /\ rows[k].next_attempt_at <= time}
           Taken == {k \in Due : Cardinality({j \in Due : j[2] <= k[2]}) <= limit}
<1>1. p = [n \in {k[2] : k \in Taken} |-> rows[<<w, n>>]]
  BY DEF PendingFor
<1>2. Taken \subseteq Due
  OBVIOUS
<1> HIDE DEF p, Taken
<1>3. ASSUME NEW n \in DOMAIN p
      PROVE  /\ n \in Nat /\ <<w, n>> \in DOMAIN rows /\ p[n] = rows[<<w, n>>]
             /\ ~p[n].receipt /\ ~p[n].permanent /\ p[n] \in WitnessState
  <2>1. PICK k \in Taken : n = k[2]
    BY <1>1
  <2>2. k \in Due
    BY <1>2
  <2>3. k \in Witness \X Nat /\ k[1] = w
    BY <2>2 DEF IsRowMap, WitnessKey
  <2>4. k = <<w, n>> /\ n \in Nat
    BY <2>1, <2>3
  <2>5. p[n] = rows[<<w, n>>]
    BY <1>1
  <2> QED  BY <2>2, <2>4, <2>5 DEF IsRowMap
<1>4. IsItemMap(p)
  <2>1. p = [n \in DOMAIN p |-> p[n]]
    BY <1>1
  <2> QED  BY <1>3, <2>1 DEF IsItemMap
<1> QED  BY <1>3, <1>4 DEF p

\* The row an outcome writes: one attempt more, for the same checkpoint, and
\* with a receipt only if the answer was one.
LEMMA OutcomeFacts ==
    ASSUME NEW d, NEW item \in WitnessState, NEW answer \in Reply, dnow[d] \in Nat,
           NEW row \in Outcomes(d, item, answer)
    PROVE  /\ row \in WitnessState
           /\ row.checkpoint = item.checkpoint
           /\ row.attempts = item.attempts + 1
           /\ row.receipt /\ ~item.receipt => answer = "receipt"
<1>0. /\ item.checkpoint \in Checkpoint /\ item.attempts \in Nat
      /\ item.receipt \in BOOLEAN /\ item.permanent \in BOOLEAN
      /\ item = [checkpoint |-> item.checkpoint, attempts |-> item.attempts,
                 next_attempt_at |-> item.next_attempt_at,
                 receipt |-> item.receipt, permanent |-> item.permanent]
  BY DEF WitnessState
<1>1. CASE VerifyReceipt(answer)
  <2>1. row = [checkpoint |-> item.checkpoint, attempts |-> item.attempts + 1,
               next_attempt_at |-> dnow[d], receipt |-> TRUE, permanent |-> FALSE]
    BY <1>0, <1>1 DEF Outcomes
  <2> QED  BY <1>0, <1>1, <2>1 DEF VerifyReceipt, WitnessState
<1>2. CASE ~VerifyReceipt(answer)
  <2>1. Delays(item.attempts) \subseteq Nat
    <3>1. item.attempts \in Nat
      BY DEF WitnessState
    <3>2. Backoff[item.attempts] \in Nat
      BY <3>1, BackoffFacts, DeliveryAssumption
    <3> QED  BY <3>2 DEF Delays
  <2>2. PICK delay \in Nat :
           row = [item EXCEPT !.attempts = @ + 1, !.next_attempt_at = dnow[d] + delay,
                              !.permanent = (answer # "retry")]
    BY <1>2, <2>1 DEF Outcomes
  <2>3. PICK p \in BOOLEAN : p = (answer # "retry")
    OBVIOUS
  <2>4. row = [checkpoint |-> item.checkpoint, attempts |-> item.attempts + 1,
               next_attempt_at |-> dnow[d] + delay, receipt |-> item.receipt,
               permanent |-> p]
    BY <1>0, <2>2, <2>3
  <2>5. row \in WitnessState
    BY <1>0, <2>3, <2>4 DEF WitnessState
  <2> QED  BY <2>4, <2>5
<1> QED  BY <1>1, <1>2

-----------------------------------------------------------------------------
(***************************************************************************)
(* What any step may do to the rows and to what the witnesses accepted,    *)
(* and why that leaves alone what is known of the rows and threads the     *)
(* step does not write.                                                    *)
(***************************************************************************)
RowEvolves(old, new) ==
    /\ new.checkpoint = old.checkpoint
    /\ new.attempts >= old.attempts
    /\ new.attempts = old.attempts =>
          (new.receipt => old.receipt) /\ (new.permanent => old.permanent)
    /\ old.receipt => new = old

Evolves ==
    /\ cll'.checkpoint.size >= cll.checkpoint.size
    /\ DOMAIN cll.witnesses \subseteq DOMAIN cll'.witnesses
    /\ \A k \in DOMAIN cll.witnesses : RowEvolves(cll.witnesses[k], cll'.witnesses[k])
    /\ \A k \in DOMAIN cll'.witnesses \ DOMAIN cll.witnesses : k[2] > cll.checkpoint.size
    /\ \A w \in Witness : \A i \in DOMAIN accepted[w] :
          i \in DOMAIN accepted'[w] /\ accepted'[w][i] = accepted[w][i]

\* A row is typed and filed under a size not above the stored checkpoint's.
LEMMA RowFacts ==
    ASSUME DeliveryTypeOK, StoredSound, NEW k \in DOMAIN cll.witnesses
    PROVE  /\ k \in WitnessKey /\ k[1] \in Witness /\ k[2] \in Nat
           /\ k = <<k[1], k[2]>>
           /\ cll.witnesses[k] \in WitnessState
           /\ cll.witnesses[k].checkpoint \in Checkpoint
           /\ cll.witnesses[k].checkpoint.prev_size \in Nat
           /\ cll.witnesses[k].attempts \in Nat
           /\ cll.witnesses[k].checkpoint.prev_size < cll.checkpoint.size
           /\ cll.checkpoint.size \in Nat
<1>1. IsRowMap(cll.witnesses) /\ cll.checkpoint \in Checkpoint
  BY DEF DeliveryTypeOK, IsCllState
<1>2. k \in WitnessKey /\ cll.witnesses[k] \in WitnessState
  BY <1>1 DEF IsRowMap
<1>3. k[1] \in Witness /\ k[2] \in Nat /\ k = <<k[1], k[2]>>
  BY <1>2 DEF WitnessKey
<1>4. cll.witnesses[k].checkpoint \in Checkpoint /\ cll.witnesses[k].attempts \in Nat
  BY <1>2 DEF WitnessState
<1>5. cll.witnesses[k].checkpoint.prev_size \in Nat /\ cll.checkpoint.size \in Nat
  BY <1>1, <1>4 DEF Checkpoint
<1>6. RowSound(k)
  BY DEF StoredSound
<1>7. cll.witnesses[k].checkpoint.prev_size < cll.checkpoint.size
  BY <1>3, <1>5, <1>6 DEF RowSound
<1> QED  BY <1>2, <1>3, <1>4, <1>5, <1>7

\* No step opens a gap behind a checkpoint: receipts are kept, and the rows a
\* step adds are all ahead.
LEMMA NoGapKept ==
    ASSUME DeliveryTypeOK, Evolves, NEW w \in Witness, NEW cp, cp.prev_size \in Nat,
           cp.prev_size < cll.checkpoint.size, NoGap(w, cp)
    PROVE  NoGap(w, cp)'
<1> DEFINE k == <<w, cp.prev_size>>
<1>1. k[2] = cp.prev_size
  OBVIOUS
<1>2. SUFFICES ASSUME k \in DOMAIN cll'.witnesses PROVE cll'.witnesses[k].receipt
  BY DEF NoGap, HasRow
<1>3. cll.checkpoint.size \in Nat
  BY DEF DeliveryTypeOK, IsCllState, Checkpoint
<1> HIDE DEF k
<1>4. k \in DOMAIN cll.witnesses
  BY <1>1, <1>2, <1>3 DEF Evolves
<1>5. cll.witnesses[k].receipt
  BY <1>4 DEF NoGap, HasRow, k
<1> QED  BY <1>4, <1>5 DEF Evolves, RowEvolves

\* What a witness accepted stays accepted.
LEMMA AcceptedKept ==
    ASSUME Evolves, NEW w \in Witness, NEW cp, Accepted(w, cp)
    PROVE  Accepted(w, cp)'
  BY DEF Evolves, Accepted

\* A row that gets no receipt in a step stays sound.
LEMMA StoredKept ==
    ASSUME DeliveryTypeOK, StoredSound, Evolves, cll'.checkpoint.size \in Nat,
           NEW k \in DOMAIN cll.witnesses,
           cll'.witnesses[k].receipt => cll.witnesses[k].receipt
    PROVE  RowSound(k)' /\ ReceiptOk(k)'
<1>1. /\ k \in WitnessKey /\ k[1] \in Witness /\ k[2] \in Nat
      /\ cll.witnesses[k].checkpoint.prev_size \in Nat
      /\ cll.witnesses[k].checkpoint.prev_size < cll.checkpoint.size
      /\ cll.checkpoint.size \in Nat
  BY RowFacts
<1>2. RowSound(k) /\ ReceiptOk(k)
  BY DEF StoredSound
<1> DEFINE cp == cll.witnesses[k].checkpoint
<1>3. cll'.witnesses[k].checkpoint = cp
  BY DEF Evolves, RowEvolves
<1>4. RowSound(k)'
  BY <1>1, <1>2, <1>3 DEF RowSound, Evolves
<1>5. ASSUME cll'.witnesses[k].receipt PROVE Accepted(k[1], cp)' /\ NoGap(k[1], cp)'
  <2>1. Accepted(k[1], cp) /\ NoGap(k[1], cp)
    BY <1>2, <1>5 DEF ReceiptOk
  <2> HIDE DEF cp
  <2>2. \A c : Accepted(k[1], c) => Accepted(k[1], c)'
    BY <1>1, AcceptedKept
  <2>3. \A c : c.prev_size \in Nat /\ c.prev_size < cll.checkpoint.size /\ NoGap(k[1], c)
              => NoGap(k[1], c)'
    BY <1>1, NoGapKept
  <2> QED  BY <1>1, <1>3, <2>1, <2>2, <2>3 DEF cp, Accepted, NoGap
<1> QED  BY <1>3, <1>4, <1>5 DEF ReceiptOk, Accepted, NoGap

\* A row in hand stays an older version of the stored one when others act.
LEMMA ItemKept ==
    ASSUME DeliveryTypeOK, StoredSound, Evolves, NEW w, NEW n,
           NEW item \in WitnessState, ItemSound(w, n, item),
           HasRow(w, n) => cll'.witnesses[<<w, n>>].attempts \in Nat
    PROVE  ItemSound(w, n, item)'
<1> DEFINE k == <<w, n>>
<1>1. k \in DOMAIN cll.witnesses
  BY DEF ItemSound, HasRow
<1>2. RowEvolves(cll.witnesses[k], cll'.witnesses[k]) /\ k \in DOMAIN cll'.witnesses
  BY <1>1 DEF Evolves
<1>3. /\ cll.witnesses[k].attempts \in Nat /\ cll'.witnesses[k].attempts \in Nat
      /\ item.attempts \in Nat
  BY <1>1, RowFacts DEF HasRow, WitnessState
<1>4. /\ ~item.receipt
      /\ item.checkpoint = cll.witnesses[k].checkpoint
      /\ item.attempts <= cll.witnesses[k].attempts
      /\ item.attempts = cll.witnesses[k].attempts =>
            ~cll.witnesses[k].receipt /\ ~cll.witnesses[k].permanent
  BY DEF ItemSound
<1> HIDE DEF k
<1>5. item.attempts <= cll'.witnesses[k].attempts
  BY <1>2, <1>3, <1>4 DEF RowEvolves
<1>6. ASSUME item.attempts = cll'.witnesses[k].attempts
      PROVE  ~cll'.witnesses[k].receipt /\ ~cll'.witnesses[k].permanent
  <2>1. /\ cll'.witnesses[k].attempts = cll.witnesses[k].attempts
        /\ item.attempts = cll.witnesses[k].attempts
    BY <1>2, <1>3, <1>4, <1>6 DEF RowEvolves
  <2> QED  BY <1>2, <1>4, <2>1 DEF RowEvolves
<1>7. item.checkpoint = cll'.witnesses[k].checkpoint
  BY <1>2, <1>4 DEF RowEvolves
<1> QED  BY <1>2, <1>4, <1>5, <1>6, <1>7 DEF ItemSound, HasRow, k

\* A thread that does not move stays sound when others act.
LEMMA ThreadKept ==
    ASSUME DeliveryTypeOK, StoredSound, Evolves, DeliveryTypeOK',
           NEW d \in Courier, NEW w \in Witness, ThreadSound(d, w),
           dpc'[d][w] = dpc[d][w], items'[d][w] = items[d][w],
           reply'[d][w] = reply[d][w]
    PROVE  ThreadSound(d, w)'
<1>1. IsItemMap(items[d][w]) /\ IsRowMap(cll'.witnesses)
  BY DEF DeliveryTypeOK, IsCllState
<1>2. \A k \in DOMAIN cll'.witnesses : cll'.witnesses[k].attempts \in Nat
  BY <1>1 DEF IsRowMap, WitnessState
<1>3. ASSUME NEW n \in DOMAIN items[d][w] PROVE ItemSound(w, n, items[d][w][n])'
  <2> DEFINE item == items[d][w][n]
  <2>1. item \in WitnessState /\ ItemSound(w, n, item)
    BY <1>1 DEF IsItemMap, ThreadSound
  <2>2. HasRow(w, n) => cll'.witnesses[<<w, n>>].attempts \in Nat
    BY <1>2 DEF HasRow, Evolves
  <2>3. \A i \in WitnessState : ItemSound(w, n, i) => ItemSound(w, n, i)'
    BY <2>2, ItemKept
  <2> HIDE DEF item
  <2>4. \A i : i = item /\ ItemSound(w, n, i)' => ItemSound(w, n, items[d][w][n])'
    BY DEF item, ItemSound
  <2> QED  BY <2>1, <2>3, <2>4
<1>4. Current(d, w)' = Current(d, w)
  BY DEF Current
<1>5. ASSUME dpc[d][w] = "await" PROVE AwaitSound(d, w)'
  <2> DEFINE n == Current(d, w)
             cp == items[d][w][n].checkpoint
  <2>1. AwaitSound(d, w) /\ n \in DOMAIN items[d][w]
    BY <1>1, <1>5, CurrentFacts DEF ThreadSound, AwaitSound, IsItemMap
  <2>2. /\ <<w, n>> \in DOMAIN cll.witnesses
        /\ cp = cll.witnesses[<<w, n>>].checkpoint
    BY <2>1 DEF ThreadSound, ItemSound, HasRow
  <2>3. cp.prev_size \in Nat /\ cp.prev_size < cll.checkpoint.size
    BY <2>2, RowFacts
  <2>4. items'[d][w][Current(d, w)'].checkpoint = cp
    BY <1>4
  <2>5. n \notin Corrupted => NoGap(w, cp)
    BY <2>1 DEF AwaitSound
  <2>6. reply[d][w] = "receipt" => Accepted(w, cp)
    BY <2>1 DEF AwaitSound
  <2> HIDE DEF n, cp
  <2>7. \A c : NoGap(w, c) /\ c.prev_size \in Nat /\ c.prev_size < cll.checkpoint.size
                => NoGap(w, c)'
    BY NoGapKept
  <2>8. \A c : Accepted(w, c) => Accepted(w, c)'
    BY AcceptedKept
  <2>9. n \notin Corrupted => \A c : c = cp => NoGap(w, c)'
    BY <2>3, <2>5, <2>7
  <2>10. reply[d][w] = "receipt" => \A c : c = cp => Accepted(w, c)'
    BY <2>6, <2>8
  <2>11. n \in Corrupted => reply[d][w] = "rejected"
    BY <2>1 DEF AwaitSound, n
  <2>12. DOMAIN items[d][w] # {}
    BY <2>1
  <2> QED
    BY <1>4, <2>4, <2>9, <2>10, <2>11, <2>12 DEF AwaitSound, NoGap, Accepted, HasRow, n
<1>6. dpc[d][w] # "await" => reply[d][w] = "none"
  BY DEF ThreadSound
<1> QED  BY <1>3, <1>5, <1>6 DEF ThreadSound

-----------------------------------------------------------------------------
(***************************************************************************)
(* One lemma per kind of step.                                             *)
(***************************************************************************)

\* commit_witness replaces one row and nothing else.
LEMMA WriteFacts ==
    ASSUME IsCllState(cll), NEW k \in DOMAIN cll.witnesses, NEW row \in WitnessState,
           CommitWitness(k, row)
    PROVE  /\ IsCllState(cll') /\ entries' = entries
           /\ cll'.nodes = cll.nodes /\ cll'.checkpoint = cll.checkpoint
           /\ cll'.first_pending_at = cll.first_pending_at
           /\ DOMAIN cll'.witnesses = DOMAIN cll.witnesses
           /\ cll'.witnesses[k] = row
           /\ \A j \in DOMAIN cll.witnesses \ {k} : cll'.witnesses[j] = cll.witnesses[j]
<1> DEFINE f == [cll.witnesses EXCEPT ![k] = row]
<1>1. cll' = [cll EXCEPT !.witnesses = f] /\ entries' = entries
  BY DEF CommitWitness
<1>2. IsRowMap(cll.witnesses)
  BY DEF IsCllState
<1>3. /\ DOMAIN f = DOMAIN cll.witnesses /\ f[k] = row
      /\ \A j \in DOMAIN cll.witnesses \ {k} : f[j] = cll.witnesses[j]
      /\ IsRowMap(f)
  BY <1>2 DEF IsRowMap
<1> HIDE DEF f
<1>4. /\ cll'.witnesses = f /\ cll'.nodes = cll.nodes /\ cll'.checkpoint = cll.checkpoint
      /\ cll'.first_pending_at = cll.first_pending_at
      /\ cll' = [nodes |-> cll.nodes, first_pending_at |-> cll.first_pending_at,
                 checkpoint |-> cll.checkpoint, witnesses |-> f]
  BY <1>1 DEF IsCllState
<1>5. IsCllState(cll')
  BY <1>3, <1>4 DEF IsCllState
<1> QED  BY <1>1, <1>3, <1>4, <1>5

\* A step that leaves the rows alone.
LEMMA QuietEvolves ==
    ASSUME DeliveryTypeOK, cll' = cll,
           \A w \in Witness : \A i \in DOMAIN accepted[w] :
              i \in DOMAIN accepted'[w] /\ accepted'[w][i] = accepted[w][i]
    PROVE  Evolves
<1>1. IsRowMap(cll.witnesses) /\ cll.checkpoint.size \in Nat
  BY DEF DeliveryTypeOK, IsCllState, Checkpoint
<1>2. \A k \in DOMAIN cll.witnesses : cll.witnesses[k].attempts \in Nat
  BY <1>1 DEF IsRowMap, WitnessState
<1> QED  BY <1>1, <1>2 DEF Evolves, RowEvolves

\* A step of one thread.
LEMMA OneThread ==
    ASSUME DeliveryTypeOK, DeliverySound, DeliveryTypeOK', Evolves, StoredSound',
           NEW d \in Courier, NEW w \in Witness,
           \A e \in Courier : \A x \in Witness : ~(e = d /\ x = w) =>
              /\ dpc'[e][x] = dpc[e][x] /\ items'[e][x] = items[e][x]
              /\ reply'[e][x] = reply[e][x],
           ThreadSound(d, w)'
    PROVE  DeliverySound'
<1>1. StoredSound
  BY DEF DeliverySound
<1>2. ASSUME NEW e \in Courier, NEW x \in Witness, ~(e = d /\ x = w)
      PROVE  ThreadSound(e, x)'
  <2>1. ThreadSound(e, x)
    BY DEF DeliverySound
  <2> QED  BY <1>1, <1>2, <2>1, ThreadKept
<1> QED  BY <1>2 DEF DeliverySound

\* The rows stay sound when none is written.
LEMMA QuietStored ==
    ASSUME DeliveryTypeOK, StoredSound, Evolves, cll' = cll
    PROVE  StoredSound'
<1>1. cll'.checkpoint.size \in Nat
  BY DEF DeliveryTypeOK, IsCllState, Checkpoint
<1>2. \A k \in DOMAIN cll.witnesses : RowSound(k)' /\ ReceiptOk(k)'
  BY <1>1, StoredKept
<1> QED  BY <1>2 DEF StoredSound

\* No rows, no items.
LEMMA NoItemsFacts == IsItemMap(NoItems) /\ DOMAIN NoItems = {}
  BY DEF IsItemMap, NoItems

\* A pass takes open rows as they are stored.
LEMMA BeginStep ==
    ASSUME DeliveryTypeOK, DeliverySound, NEW d \in Courier, BeginDelivery(d)
    PROVE  DeliveryTypeOK' /\ Evolves /\ DeliverySound'
<1> DEFINE p(w) == IF w \in Clients[d]
                   THEN PendingFor(cll.witnesses, clock, Limit, w) ELSE NoItems
<1>1. /\ UNCHANGED <<cll, clock, reply, wire, accepted>>
      /\ dnow' = [dnow EXCEPT ![d] = clock]
      /\ items' = [items EXCEPT ![d] = [w \in Witness |-> p(w)]]
      /\ dpc' = [dpc EXCEPT ![d] = [w \in Witness |->
                    IF DOMAIN items'[d][w] # {} THEN "next" ELSE "idle"]]
  BY DEF BeginDelivery
<1>2. IsRowMap(cll.witnesses)
  BY DEF DeliveryTypeOK, IsCllState
<1>3. ASSUME NEW w \in Witness
      PROVE  /\ IsItemMap(p(w))
             /\ \A n \in DOMAIN p(w) : /\ HasRow(w, n) /\ p(w)[n] = cll.witnesses[<<w, n>>]
                                       /\ ~p(w)[n].receipt /\ ~p(w)[n].permanent
  BY <1>2, PendingFacts, NoItemsFacts DEF HasRow
<1> HIDE DEF p
<1>4. /\ DOMAIN items' = Courier /\ \A w \in Witness : items'[d][w] = p(w)
      /\ DOMAIN items'[d] = Witness
      /\ \A e \in Courier \ {d} : items'[e] = items[e] /\ dpc'[e] = dpc[e]
      /\ \A w \in Witness : dpc'[d][w] \in {"next", "idle"}
  BY <1>1 DEF DeliveryTypeOK
<1>5. DeliveryTypeOK'
  <2>1. /\ dpc' \in [Courier -> [Witness -> Place]]
    BY <1>1 DEF DeliveryTypeOK, Place
  <2>2. dnow' \in [Courier -> Nat]
    BY <1>1 DEF DeliveryTypeOK
  <2>3. \A e \in Courier : DOMAIN items'[e] = Witness
    BY <1>4 DEF DeliveryTypeOK
  <2>4. \A e \in Courier : \A w \in Witness : IsItemMap(items'[e][w])
    <3>1. \A w \in Witness : IsItemMap(items'[d][w])
      BY <1>3, <1>4
    <3>2. \A e \in Courier \ {d} : \A w \in Witness : IsItemMap(items'[e][w])
      BY <1>4 DEF DeliveryTypeOK
    <3> QED  BY <3>1, <3>2
  <2> QED  BY <1>1, <1>4, <2>1, <2>2, <2>3, <2>4 DEF DeliveryTypeOK, IsItemMap
<1>6. Evolves
  BY <1>1, QuietEvolves
<1>7. StoredSound /\ StoredSound'
  BY <1>1, <1>6, QuietStored DEF DeliverySound
<1>8. ASSUME NEW e \in Courier \ {d}, NEW w \in Witness PROVE ThreadSound(e, w)'
  <2>1. ThreadSound(e, w) /\ dpc'[e][w] = dpc[e][w] /\ items'[e][w] = items[e][w]
        /\ reply'[e][w] = reply[e][w]
    BY <1>1, <1>4 DEF DeliverySound
  <2> QED  BY <1>5, <1>6, <1>7, <2>1, ThreadKept
<1>9. ASSUME NEW w \in Witness PROVE ThreadSound(d, w)'
  <2>1. items'[d][w] = p(w) /\ dpc'[d][w] \in {"next", "idle"}
    BY <1>4
  <2>2. reply'[d][w] = "none"
    BY <1>1 DEF BeginDelivery, DeliverySound, ThreadSound
  <2>3. ASSUME NEW n \in DOMAIN p(w) PROVE ItemSound(w, n, items[d][w][n])'
    <3>1. /\ <<w, n>> \in DOMAIN cll.witnesses
          /\ p(w)[n] = cll.witnesses[<<w, n>>]
          /\ ~p(w)[n].receipt /\ ~p(w)[n].permanent
      BY <1>3 DEF HasRow
    <3>2. cll.witnesses[<<w, n>>].attempts \in Nat
      BY <1>7, <3>1, RowFacts
    <3> QED  BY <1>1, <2>1, <3>1, <3>2 DEF ItemSound, HasRow
  <2> QED  BY <2>1, <2>2, <2>3 DEF ThreadSound
<1> QED  BY <1>5, <1>6, <1>7, <1>8, <1>9 DEF DeliverySound

\* A process that dies forgets what its threads had in hand.
LEMMA CrashStep ==
    ASSUME DeliveryTypeOK, DeliverySound, NEW d \in Courier, CrashDelivery(d)
    PROVE  DeliveryTypeOK' /\ Evolves /\ DeliverySound'
<1>1. /\ UNCHANGED <<cll, clock, dnow, wire, accepted>>
      /\ dpc' = [dpc EXCEPT ![d] = [w \in Witness |-> "idle"]]
      /\ items' = [items EXCEPT ![d] = [w \in Witness |-> NoItems]]
      /\ reply' = [reply EXCEPT ![d] = [w \in Witness |-> "none"]]
  BY DEF CrashDelivery
<1>2. /\ DOMAIN items' = Courier /\ DOMAIN items'[d] = Witness
      /\ \A w \in Witness : /\ items'[d][w] = NoItems
                            /\ dpc'[d][w] = "idle" /\ reply'[d][w] = "none"
      /\ \A e \in Courier \ {d} :
            items'[e] = items[e] /\ dpc'[e] = dpc[e] /\ reply'[e] = reply[e]
  BY <1>1 DEF DeliveryTypeOK
<1>3. DeliveryTypeOK'
  <2>1. dpc' \in [Courier -> [Witness -> Place]] /\ reply' \in [Courier -> [Witness -> Reply]]
    BY <1>1 DEF DeliveryTypeOK, Place, Reply
  <2>2. \A e \in Courier : DOMAIN items'[e] = Witness
    BY <1>2 DEF DeliveryTypeOK
  <2>3. \A e \in Courier : \A w \in Witness : IsItemMap(items'[e][w])
    BY <1>2, NoItemsFacts DEF DeliveryTypeOK
  <2> QED  BY <1>1, <1>2, <2>1, <2>2, <2>3 DEF DeliveryTypeOK, IsItemMap
<1>4. Evolves
  BY <1>1, QuietEvolves
<1>5. StoredSound /\ StoredSound'
  BY <1>1, <1>4, QuietStored DEF DeliverySound
<1>6. ASSUME NEW e \in Courier \ {d}, NEW w \in Witness PROVE ThreadSound(e, w)'
  <2>1. ThreadSound(e, w) /\ dpc'[e][w] = dpc[e][w] /\ items'[e][w] = items[e][w]
        /\ reply'[e][w] = reply[e][w]
    BY <1>2 DEF DeliverySound
  <2> QED  BY <1>3, <1>4, <1>5, <2>1, ThreadKept
<1>7. ASSUME NEW w \in Witness PROVE ThreadSound(d, w)'
  BY <1>2, NoItemsFacts DEF ThreadSound
<1> QED  BY <1>3, <1>4, <1>5, <1>6, <1>7 DEF DeliverySound

\* A thread ends: it has nothing in hand.
LEMMA EndThreadFacts ==
    ASSUME DeliveryTypeOK, NEW d \in Courier, NEW w \in Witness, EndThread(d, w)
    PROVE  /\ dpc' \in [Courier -> [Witness -> Place]]
           /\ reply' \in [Courier -> [Witness -> Reply]]
           /\ DOMAIN items' = Courier
           /\ \A e \in Courier : DOMAIN items'[e] = Witness
           /\ \A e \in Courier : \A x \in Witness : IsItemMap(items'[e][x])
           /\ \A e \in Courier : \A x \in Witness : ~(e = d /\ x = w) =>
                 /\ dpc'[e][x] = dpc[e][x] /\ items'[e][x] = items[e][x]
                 /\ reply'[e][x] = reply[e][x]
           /\ ThreadSound(d, w)'
<1>1. /\ dpc' = [dpc EXCEPT ![d][w] = "idle"] /\ items' = [items EXCEPT ![d][w] = NoItems]
      /\ reply' = [reply EXCEPT ![d][w] = "none"]
  BY DEF EndThread
<1>2. dpc' \in [Courier -> [Witness -> Place]] /\ reply' \in [Courier -> [Witness -> Reply]]
  BY <1>1 DEF DeliveryTypeOK, Place, Reply
<1>3. DOMAIN items' = Courier /\ \A e \in Courier : DOMAIN items'[e] = Witness
  BY <1>1 DEF DeliveryTypeOK
<1>4. \A e \in Courier : \A x \in Witness : ~(e = d /\ x = w) =>
         /\ dpc'[e][x] = dpc[e][x] /\ items'[e][x] = items[e][x]
         /\ reply'[e][x] = reply[e][x]
  BY <1>1 DEF DeliveryTypeOK
<1>5. dpc'[d][w] = "idle" /\ items'[d][w] = NoItems /\ reply'[d][w] = "none"
  BY <1>1 DEF DeliveryTypeOK
<1>6. \A e \in Courier : \A x \in Witness : IsItemMap(items'[e][x])
  BY <1>4, <1>5, NoItemsFacts DEF DeliveryTypeOK
<1>7. ThreadSound(d, w)'
  BY <1>5, NoItemsFacts DEF ThreadSound
<1> QED  BY <1>2, <1>3, <1>4, <1>6, <1>7

\* A thread that ends without writing.
LEMMA QuitStep ==
    ASSUME DeliveryTypeOK, DeliverySound, NEW d \in Courier, NEW w \in Witness,
           EndThread(d, w), UNCHANGED <<cll, clock, dnow, wire, accepted>>
    PROVE  DeliveryTypeOK' /\ Evolves /\ DeliverySound'
<1>1. DeliveryTypeOK'
  BY EndThreadFacts DEF DeliveryTypeOK, IsItemMap
<1>2. Evolves
  BY QuietEvolves
<1>3. StoredSound'
  BY <1>2, QuietStored DEF DeliverySound
<1> QED  BY <1>1, <1>2, <1>3, EndThreadFacts, OneThread

\* _deliver: what is posted is not held, so it opens no gap.
LEMMA DeliverStep ==
    ASSUME DeliveryTypeOK, DeliverySound, NEW d \in Courier, NEW w \in Witness,
           Deliver(d, w)
    PROVE  DeliveryTypeOK' /\ Evolves /\ DeliverySound'
<1> DEFINE n == Current(d, w)
           cp == items[d][w][n].checkpoint
<1>1. /\ UNCHANGED <<cll, clock, dnow, accepted>> /\ DOMAIN items[d][w] # {}
      /\ dpc[d][w] = "next"
  BY DEF Deliver
<1>2. n \in DOMAIN items[d][w] /\ items[d][w][n] \in WitnessState
  BY <1>1, CurrentFacts DEF DeliveryTypeOK, IsItemMap
<1>3. cp \in Checkpoint
  BY <1>2 DEF WitnessState
<1>4. ThreadSound(d, w) /\ reply[d][w] = "none" /\ StoredSound
  BY <1>1 DEF DeliverySound, ThreadSound
<1>5. Evolves
  BY <1>1, QuietEvolves
<1>6. StoredSound'
  BY <1>1, <1>4, <1>5, QuietStored
<1>7. CASE EndThread(d, w) /\ UNCHANGED wire
  BY <1>1, <1>7, QuitStep
<1>8. CASE /\ n \in Corrupted /\ dpc' = [dpc EXCEPT ![d][w] = "await"]
           /\ reply' = [reply EXCEPT ![d][w] = "rejected"] /\ UNCHANGED <<items, wire>>
  <2> HIDE DEF n, cp
  <2>1. DeliveryTypeOK'
    BY <1>1, <1>8 DEF DeliveryTypeOK, Place, Reply, IsItemMap
  <2>2. /\ dpc'[d][w] = "await" /\ reply'[d][w] = "rejected" /\ items' = items
        /\ \A e \in Courier : \A x \in Witness : ~(e = d /\ x = w) =>
              dpc'[e][x] = dpc[e][x] /\ reply'[e][x] = reply[e][x]
    BY <1>8 DEF DeliveryTypeOK
  <2>3. Current(d, w)' = n
    BY <2>2 DEF Current, n
  <2>4. \A m \in DOMAIN items[d][w] : ItemSound(w, m, items[d][w][m])'
    BY <1>1, <1>4, <2>2 DEF ThreadSound, ItemSound, HasRow
  <2>5. AwaitSound(d, w)'
    BY <1>1, <1>8, <2>2, <2>3 DEF AwaitSound
  <2>6. ThreadSound(d, w)'
    BY <2>2, <2>4, <2>5 DEF ThreadSound
  <2> QED  BY <1>5, <1>6, <2>1, <2>2, <2>6, OneThread
<1>9. CASE /\ n \notin Corrupted /\ ~Held(w, cp)
           /\ dpc' = [dpc EXCEPT ![d][w] = "await"]
           /\ wire' = wire \cup {[from |-> d, to |-> w, checkpoint |-> cp]}
           /\ UNCHANGED <<items, reply>>
  <2>0. NoGap(w, cp)
    <3>1. \A k \in DOMAIN cll.witnesses : k[2] > 0
      <4>1. ASSUME NEW k \in DOMAIN cll.witnesses PROVE k[2] > 0
        <5>1. RowSound(k)
          BY <1>4 DEF StoredSound
        <5>2. k[2] \in Nat /\ cll.witnesses[k].checkpoint.prev_size \in Nat
          BY <1>4, RowFacts
        <5> QED  BY <5>1, <5>2 DEF RowSound
      <4> QED  BY <4>1
    <3>2. cp.prev_size \in Nat /\ <<w, cp.prev_size>>[2] = cp.prev_size
      BY <1>3 DEF Checkpoint
    <3> HIDE DEF cp
    <3> QED  BY <1>9, <3>1, <3>2 DEF Held, NoGap, HasRow
  <2> HIDE DEF n
  <2>1. DeliveryTypeOK'
    <3>1. dpc' \in [Courier -> [Witness -> Place]]
      BY <1>9 DEF DeliveryTypeOK, Place
    <3>2. wire' \subseteq Request
      BY <1>3, <1>9 DEF DeliveryTypeOK, Request
    <3> QED  BY <1>1, <1>9, <3>1, <3>2 DEF DeliveryTypeOK, IsItemMap
  <2>2. /\ dpc'[d][w] = "await" /\ reply' = reply /\ items' = items
        /\ \A e \in Courier : \A x \in Witness : ~(e = d /\ x = w) => dpc'[e][x] = dpc[e][x]
    BY <1>9 DEF DeliveryTypeOK
  <2>3. Current(d, w)' = n
    BY <2>2 DEF Current, n
  <2>4. \A m \in DOMAIN items[d][w] : ItemSound(w, m, items[d][w][m])'
    BY <1>1, <1>4, <2>2 DEF ThreadSound, ItemSound, HasRow
  <2>5. AwaitSound(d, w)'
    BY <1>1, <1>4, <1>9, <2>0, <2>2, <2>3 DEF AwaitSound, NoGap, HasRow
  <2>6. ThreadSound(d, w)'
    BY <2>2, <2>4, <2>5 DEF ThreadSound
  <2> QED  BY <1>5, <1>6, <2>1, <2>2, <2>6, OneThread
<1> QED  BY <1>7, <1>8, <1>9 DEF Deliver

\* A waiting thread gets an answer, which is a receipt only for what the
\* witness has accepted.
LEMMA AnswerStep ==
    ASSUME DeliveryTypeOK, DeliverySound, NEW d \in Courier, NEW w \in Witness,
           dpc[d][w] = "await", Current(d, w) \notin Corrupted,
           NEW what \in Reply, reply' = [reply EXCEPT ![d][w] = what],
           UNCHANGED <<cll, clock, dpc, dnow, items>>, wire' \subseteq wire,
           accepted' \in [Witness -> Seq(Checkpoint)],
           \A x \in Witness : \A i \in DOMAIN accepted[x] :
              i \in DOMAIN accepted'[x] /\ accepted'[x][i] = accepted[x][i],
           what = "receipt" => \E i \in DOMAIN accepted'[w] :
              accepted'[w][i] = items[d][w][Current(d, w)].checkpoint
    PROVE  DeliveryTypeOK' /\ Evolves /\ DeliverySound'
<1>1. Evolves
  BY QuietEvolves
<1>2. StoredSound /\ StoredSound' /\ ThreadSound(d, w)
  BY <1>1, QuietStored DEF DeliverySound
<1>3. DeliveryTypeOK'
  BY DEF DeliveryTypeOK, IsItemMap
<1>4. /\ reply'[d][w] = what
      /\ \A e \in Courier : \A x \in Witness : ~(e = d /\ x = w) => reply'[e][x] = reply[e][x]
  BY DEF DeliveryTypeOK
<1>5. Current(d, w)' = Current(d, w)
  BY DEF Current
<1>6. \A m \in DOMAIN items[d][w] : ItemSound(w, m, items[d][w][m])'
  BY <1>2 DEF ThreadSound, ItemSound, HasRow
<1>7. AwaitSound(d, w)
  BY <1>2 DEF ThreadSound
<1>8. AwaitSound(d, w)'
  BY <1>4, <1>5, <1>7 DEF AwaitSound, NoGap, HasRow, Accepted
<1>9. ThreadSound(d, w)'
  BY <1>6, <1>8 DEF ThreadSound
<1> QED  BY <1>1, <1>2, <1>3, <1>4, <1>9, OneThread

\* The witness reads a request: it only ever adds to what it accepted, and
\* its answer reaches the thread that still waits for this very checkpoint.
LEMMA WitnessStep ==
    ASSUME DeliveryTypeOK, DeliverySound, NEW m \in wire, WitnessHandles(m)
    PROVE  DeliveryTypeOK' /\ Evolves /\ DeliverySound'
<1> DEFINE d == m.from
           w == m.to
<1>1. d \in Courier /\ w \in Witness /\ m.checkpoint \in Checkpoint
  BY DEF DeliveryTypeOK, Request
<1>2. UNCHANGED <<cll, clock, dpc, dnow, items>> /\ wire' \subseteq wire
  BY DEF WitnessHandles
<1>3. accepted \in [Witness -> Seq(Checkpoint)]
  BY DEF DeliveryTypeOK
<1>4. accepted' = accepted \/ accepted' = [accepted EXCEPT ![w] = Append(@, m.checkpoint)]
  BY DEF WitnessHandles
<1> HIDE DEF d, w
<1>5. accepted[w] \in Seq(Checkpoint)
  BY <1>1, <1>3
<1>6. /\ Append(accepted[w], m.checkpoint) \in Seq(Checkpoint)
      /\ \A i \in DOMAIN accepted[w] :
            /\ i \in DOMAIN Append(accepted[w], m.checkpoint)
            /\ Append(accepted[w], m.checkpoint)[i] = accepted[w][i]
      /\ \E i \in DOMAIN Append(accepted[w], m.checkpoint) :
            Append(accepted[w], m.checkpoint)[i] = m.checkpoint
  <2>1. Len(accepted[w]) \in Nat /\ DOMAIN accepted[w] = 1..Len(accepted[w])
    BY <1>5, LenProperties
  <2> QED  BY <1>1, <1>5, <2>1, AppendProperties
<1>7. /\ accepted' \in [Witness -> Seq(Checkpoint)]
      /\ \A x \in Witness : \A i \in DOMAIN accepted[x] :
            i \in DOMAIN accepted'[x] /\ accepted'[x][i] = accepted[x][i]
  <2>1. CASE accepted' = accepted
    BY <1>3, <2>1
  <2>2. CASE accepted' = [accepted EXCEPT ![w] = Append(@, m.checkpoint)]
    <3>1. /\ accepted' \in [Witness -> Seq(Checkpoint)]
          /\ accepted'[w] = Append(accepted[w], m.checkpoint)
          /\ \A x \in Witness \ {w} : accepted'[x] = accepted[x]
      BY <1>1, <1>3, <1>6, <2>2
    <3> QED  BY <1>6, <3>1
  <2> QED  BY <1>4, <2>1, <2>2
<1>8. CASE reply' = reply
  <2>1. Evolves
    BY <1>2, <1>7, QuietEvolves
  <2>2. StoredSound /\ StoredSound'
    BY <1>2, <2>1, QuietStored DEF DeliverySound
  <2>3. DeliveryTypeOK'
    BY <1>2, <1>7, <1>8 DEF DeliveryTypeOK, IsItemMap
  <2>4. \A e \in Courier : \A x \in Witness : ThreadSound(e, x)'
    BY <1>2, <1>8, <2>1, <2>2, <2>3, ThreadKept DEF DeliverySound
  <2> QED  BY <2>1, <2>2, <2>3, <2>4 DEF DeliverySound
<1>9. CASE reply' # reply
  <2>1. PICK what \in {"receipt", "rejected"} : Answer(m, what)
    BY DEF WitnessHandles
  <2>2. Awaits(m) /\ reply' = [reply EXCEPT ![d][w] = what]
    BY <1>9, <2>1 DEF Answer, d, w
  <2>3. /\ dpc[d][w] = "await" /\ reply[d][w] = "none"
        /\ items[d][w][Current(d, w)].checkpoint = m.checkpoint
    BY <2>2 DEF Awaits, d, w
  <2>4. Current(d, w) \notin Corrupted
    <3>1. ThreadSound(d, w)
      BY <1>1 DEF DeliverySound
    <3> QED  BY <2>3, <3>1 DEF ThreadSound, AwaitSound
  <2>5. ASSUME what = "receipt" PROVE \E i \in DOMAIN accepted'[w] : accepted'[w][i] = m.checkpoint
    <3>0. reply[d][w] # "rejected" /\ Answer(m, "receipt")
      BY <2>1, <2>3, <2>5
    <3>1. CASE accepted' = [accepted EXCEPT ![w] = Append(@, m.checkpoint)]
      <4>1. accepted'[w] = Append(accepted[w], m.checkpoint)
        BY <1>1, <1>3, <3>1
      <4> QED  BY <1>6, <4>1
    <3>2. CASE Repeated(w, m.checkpoint) /\ accepted' = accepted
      BY <3>2 DEF Repeated
    <3>3. CASE Answer(m, "rejected")
      <4>1. reply' = [reply EXCEPT ![d][w] = "rejected"]
        BY <2>2, <3>3 DEF Answer, d, w
      <4>2. reply'[d][w] = "rejected" /\ reply'[d][w] = "receipt"
        BY <1>1, <2>2, <2>5, <4>1 DEF DeliveryTypeOK
      <4> QED  BY <4>2
    <3> QED  BY <3>1, <3>2, <3>3 DEF WitnessHandles, w
  <2>6. what \in Reply
    BY DEF Reply
  <2>7. what = "receipt" => \E i \in DOMAIN accepted'[w] :
           accepted'[w][i] = items[d][w][Current(d, w)].checkpoint
    BY <2>3, <2>5
  <2>8. reply' = [reply EXCEPT ![d][w] = what] /\ dpc[d][w] = "await"
    BY <2>2, <2>3
  <2>9. d \in Courier /\ w \in Witness
    BY <1>1
  <2> QED  BY <1>2, <1>7, <2>4, <2>6, <2>7, <2>8, <2>9, AnswerStep
<1> QED  BY <1>8, <1>9

\* What an operator's clearing does to a row.
LEMMA ClearStep ==
    ASSUME DeliveryTypeOK, DeliverySound, NEW k \in DOMAIN cll.witnesses, OperatorClears(k)
    PROVE  DeliveryTypeOK' /\ Evolves /\ DeliverySound'
<1> DEFINE old == cll.witnesses[k]
           row == [old EXCEPT !.permanent = FALSE, !.next_attempt_at = clock]
<1>1. /\ UNCHANGED <<clock, dpc, dnow, items, reply, wire, accepted>>
      /\ CommitWitness(k, row) /\ ~old.receipt
  BY DEF OperatorClears
<1>2. StoredSound /\ old \in WitnessState /\ clock \in Nat
  BY RowFacts DEF DeliverySound, DeliveryTypeOK
<1>3. /\ row \in WitnessState /\ row.checkpoint = old.checkpoint
      /\ row.attempts = old.attempts /\ row.receipt = old.receipt /\ ~row.permanent
  BY <1>2 DEF WitnessState
<1> HIDE DEF row
<1>4. /\ IsCllState(cll') /\ cll'.checkpoint = cll.checkpoint
      /\ DOMAIN cll'.witnesses = DOMAIN cll.witnesses /\ cll'.witnesses[k] = row
      /\ \A j \in DOMAIN cll.witnesses \ {k} : cll'.witnesses[j] = cll.witnesses[j]
  BY <1>1, <1>3, WriteFacts DEF DeliveryTypeOK
<1>5. DeliveryTypeOK'
  BY <1>1, <1>4 DEF DeliveryTypeOK, IsItemMap
<1>6. cll.checkpoint.size \in Nat /\ \A j \in DOMAIN cll.witnesses : cll.witnesses[j].attempts \in Nat
  BY <1>2, RowFacts
<1>7. Evolves
  <2>1. \A j \in DOMAIN cll.witnesses : RowEvolves(cll.witnesses[j], cll'.witnesses[j])
    <3>1. RowEvolves(old, row)
      BY <1>1, <1>3, <1>6 DEF RowEvolves
    <3>2. \A j \in DOMAIN cll.witnesses \ {k} : RowEvolves(cll.witnesses[j], cll'.witnesses[j])
      BY <1>4, <1>6 DEF RowEvolves
    <3> QED  BY <1>4, <3>1, <3>2
  <2> QED  BY <1>1, <1>4, <1>6, <2>1 DEF Evolves
<1>8. StoredSound'
  <2>1. \A j \in DOMAIN cll.witnesses : cll'.witnesses[j].receipt => cll.witnesses[j].receipt
    BY <1>1, <1>3, <1>4
  <2>2. \A j \in DOMAIN cll.witnesses : RowSound(j)' /\ ReceiptOk(j)'
    BY <1>2, <1>4, <1>6, <1>7, <2>1, StoredKept
  <2> QED  BY <1>4, <2>2 DEF StoredSound
<1>9. \A e \in Courier : \A x \in Witness : ThreadSound(e, x)'
  BY <1>1, <1>2, <1>5, <1>7, ThreadKept DEF DeliverySound
<1> QED  BY <1>5, <1>7, <1>8, <1>9 DEF DeliverySound

\* The thread goes on to its next row.
GoesOn(d, w) ==
    /\ dpc' = [dpc EXCEPT ![d][w] = "next"]
    /\ items' = [items EXCEPT ![d][w] = [m \in DOMAIN @ \ {Current(d, w)} |-> @[m]]]
    /\ reply' = [reply EXCEPT ![d][w] = "none"]

\* A thread that records an outcome either writes nothing and ends, or writes
\* on an open row the next version of it.
LEMMA RecordFacts ==
    ASSUME DeliveryTypeOK, DeliverySound, NEW d \in Courier, NEW w \in Witness,
           Record(d, w)
    PROVE  LET k == <<w, Current(d, w)>>
           IN  /\ UNCHANGED <<clock, dnow, wire, accepted>>
               /\ \/ EndThread(d, w) /\ UNCHANGED <<entries, cll>>
                  \/ /\ \E row \in WitnessState :
                          /\ CommitWitness(k, row)
                          /\ ValidWitness(k, row)
                          /\ row.checkpoint = cll.witnesses[k].checkpoint
                          /\ row.attempts = cll.witnesses[k].attempts + 1
                          /\ row.receipt => reply[d][w] = "receipt"
                     /\ k \in DOMAIN cll.witnesses
                     /\ ~cll.witnesses[k].receipt /\ ~cll.witnesses[k].permanent
                     /\ EndThread(d, w) \/ GoesOn(d, w)
<1> DEFINE n == Current(d, w)
           k == <<w, n>>
           item == items[d][w][n]
           answer == reply[d][w]
<1>1. UNCHANGED <<clock, dnow, wire, accepted>> /\ dpc[d][w] = "await"
  BY DEF Record
<1>2. ThreadSound(d, w) /\ answer \in Reply /\ dnow[d] \in Nat
  BY DEF DeliverySound, DeliveryTypeOK
<1>3. DOMAIN items[d][w] # {}
  BY <1>1, <1>2 DEF ThreadSound, AwaitSound
<1>4. n \in DOMAIN items[d][w] /\ item \in WitnessState
  BY <1>3, CurrentFacts DEF DeliveryTypeOK, IsItemMap
<1>5. ItemSound(w, n, item)
  BY <1>2, <1>4 DEF ThreadSound
<1>6. PICK row \in Outcomes(d, item, answer) :
         \/ /\ CommitWitnessError(cll.witnesses, k, item.attempts, row) = "none"
            /\ CommitWitness(k, row)
            /\ EndThread(d, w) \/ GoesOn(d, w)
         \/ EndThread(d, w) /\ UNCHANGED storeVars
  BY DEF Record, GoesOn
<1> HIDE DEF n, item, answer
<1>7. /\ row \in WitnessState /\ row.checkpoint = item.checkpoint
      /\ row.attempts = item.attempts + 1
      /\ row.receipt /\ ~item.receipt => answer = "receipt"
  BY <1>2, <1>4, OutcomeFacts
<1>8. CASE EndThread(d, w) /\ UNCHANGED storeVars
  BY <1>1, <1>8 DEF storeVars, n
<1>9. CASE /\ CommitWitnessError(cll.witnesses, k, item.attempts, row) = "none"
           /\ CommitWitness(k, row)
           /\ EndThread(d, w) \/ GoesOn(d, w)
  <2>1. /\ ValidWitness(k, row) /\ k \in DOMAIN cll.witnesses
        /\ cll.witnesses[k].attempts = item.attempts
        /\ cll.witnesses[k].checkpoint = row.checkpoint
    BY <1>9 DEF CommitWitnessError
  <2>2. ~cll.witnesses[k].receipt /\ ~cll.witnesses[k].permanent /\ ~item.receipt
    BY <1>5, <2>1 DEF ItemSound
  <2>3. row.attempts = cll.witnesses[k].attempts + 1 /\ (row.receipt => answer = "receipt")
    BY <1>7, <2>1, <2>2
  <2> HIDE DEF k
  <2>4. \E r \in WitnessState :
           /\ CommitWitness(k, r) /\ ValidWitness(k, r)
           /\ r.checkpoint = cll.witnesses[k].checkpoint
           /\ r.attempts = cll.witnesses[k].attempts + 1
           /\ r.receipt => answer = "receipt"
    BY <1>7, <1>9, <2>1, <2>3
  <2> QED  BY <1>1, <1>9, <2>1, <2>2, <2>4 DEF k, n, answer
<1> QED  BY <1>6, <1>8, <1>9

\* What a thread that goes on still has in hand.
LEMMA GoesOnFacts ==
    ASSUME DeliveryTypeOK, NEW d \in Courier, NEW w \in Witness, GoesOn(d, w)
    PROVE  /\ dpc' \in [Courier -> [Witness -> Place]]
           /\ reply' \in [Courier -> [Witness -> Reply]]
           /\ DOMAIN items' = Courier
           /\ \A e \in Courier : DOMAIN items'[e] = Witness
           /\ \A e \in Courier : \A x \in Witness : IsItemMap(items'[e][x])
           /\ \A e \in Courier : \A x \in Witness : ~(e = d /\ x = w) =>
                 /\ dpc'[e][x] = dpc[e][x] /\ items'[e][x] = items[e][x]
                 /\ reply'[e][x] = reply[e][x]
           /\ dpc'[d][w] = "next" /\ reply'[d][w] = "none"
           /\ DOMAIN items'[d][w] = DOMAIN items[d][w] \ {Current(d, w)}
           /\ \A m \in DOMAIN items'[d][w] : items'[d][w][m] = items[d][w][m]
<1> DEFINE f == items[d][w]
           g == [m \in DOMAIN f \ {Current(d, w)} |-> f[m]]
<1>1. /\ dpc' = [dpc EXCEPT ![d][w] = "next"] /\ items' = [items EXCEPT ![d][w] = g]
      /\ reply' = [reply EXCEPT ![d][w] = "none"]
  BY DEF GoesOn
<1>2. IsItemMap(f)
  BY DEF DeliveryTypeOK
<1>3. IsItemMap(g) /\ DOMAIN g = DOMAIN f \ {Current(d, w)} /\ \A m \in DOMAIN g : g[m] = f[m]
  BY <1>2 DEF IsItemMap
<1> HIDE DEF g
<1>4. dpc' \in [Courier -> [Witness -> Place]] /\ reply' \in [Courier -> [Witness -> Reply]]
  BY <1>1 DEF DeliveryTypeOK, Place, Reply
<1>5. DOMAIN items' = Courier /\ \A e \in Courier : DOMAIN items'[e] = Witness
  BY <1>1 DEF DeliveryTypeOK
<1>6. \A e \in Courier : \A x \in Witness : ~(e = d /\ x = w) =>
         /\ dpc'[e][x] = dpc[e][x] /\ items'[e][x] = items[e][x]
         /\ reply'[e][x] = reply[e][x]
  BY <1>1 DEF DeliveryTypeOK
<1>7. dpc'[d][w] = "next" /\ reply'[d][w] = "none" /\ items'[d][w] = g
  BY <1>1 DEF DeliveryTypeOK
<1>8. \A e \in Courier : \A x \in Witness : IsItemMap(items'[e][x])
  BY <1>3, <1>6, <1>7 DEF DeliveryTypeOK
<1> QED  BY <1>3, <1>4, <1>5, <1>6, <1>7, <1>8

\* Recording an outcome keeps the invariant.  The thread's other rows are
\* filed under other sizes; every other thread's version of the row written
\* is now too old to be committed.
LEMMA RecordStep ==
    ASSUME DeliveryTypeOK, DeliverySound, NEW d \in Courier, NEW w \in Witness,
           Record(d, w)
    PROVE  DeliveryTypeOK' /\ Evolves /\ DeliverySound'
<1>0. PICK n : n = Current(d, w)
  OBVIOUS
<1> DEFINE k == <<w, n>>
<1>1. UNCHANGED <<clock, dnow, wire, accepted>>
  BY RecordFacts
<1>2. CASE EndThread(d, w) /\ UNCHANGED <<entries, cll>>
  BY <1>1, <1>2, QuitStep
<1>3. CASE /\ \E row \in WitnessState :
                /\ CommitWitness(k, row) /\ ValidWitness(k, row)
                /\ row.checkpoint = cll.witnesses[k].checkpoint
                /\ row.attempts = cll.witnesses[k].attempts + 1
                /\ row.receipt => reply[d][w] = "receipt"
           /\ k \in DOMAIN cll.witnesses
           /\ ~cll.witnesses[k].receipt /\ ~cll.witnesses[k].permanent
           /\ EndThread(d, w) \/ GoesOn(d, w)
  <2>1. PICK row \in WitnessState :
           /\ CommitWitness(k, row)
           /\ row.checkpoint = cll.witnesses[k].checkpoint
           /\ row.attempts = cll.witnesses[k].attempts + 1
           /\ row.receipt => reply[d][w] = "receipt"
    BY <1>3
  <2>2. StoredSound /\ ThreadSound(d, w) /\ IsCllState(cll)
    BY DEF DeliverySound, DeliveryTypeOK
  <2>3. /\ IsCllState(cll') /\ cll'.checkpoint = cll.checkpoint
        /\ DOMAIN cll'.witnesses = DOMAIN cll.witnesses /\ cll'.witnesses[k] = row
        /\ \A j \in DOMAIN cll.witnesses \ {k} : cll'.witnesses[j] = cll.witnesses[j]
    BY <1>3, <2>1, <2>2, WriteFacts
  <2>4. /\ cll.checkpoint.size \in Nat
        /\ \A j \in DOMAIN cll.witnesses : cll.witnesses[j].attempts \in Nat
    BY <1>3, <2>2, RowFacts
  <2>5. Evolves
    <3>1. RowEvolves(cll.witnesses[k], row)
      BY <1>3, <2>1, <2>4 DEF RowEvolves
    <3>2. \A j \in DOMAIN cll.witnesses \ {k} : RowEvolves(cll.witnesses[j], cll'.witnesses[j])
      BY <2>3, <2>4 DEF RowEvolves
    <3>3. \A j \in DOMAIN cll.witnesses : RowEvolves(cll.witnesses[j], cll'.witnesses[j])
      <4> HIDE DEF k
      <4> QED  BY <2>3, <3>1, <3>2
    <3> QED  BY <1>1, <2>3, <2>4, <3>3 DEF Evolves
  <2>6. DeliveryTypeOK'
    <3>1. CASE EndThread(d, w)
      BY <1>1, <2>3, <3>1, EndThreadFacts DEF DeliveryTypeOK, IsItemMap
    <3>2. CASE GoesOn(d, w)
      BY <1>1, <2>3, <3>2, GoesOnFacts DEF DeliveryTypeOK, IsItemMap
    <3> QED  BY <1>3, <3>1, <3>2
  <2>7. StoredSound'
    <3>1. \A j \in DOMAIN cll.witnesses \ {k} : RowSound(j)' /\ ReceiptOk(j)'
      BY <2>2, <2>3, <2>4, <2>5, StoredKept
    <3>2. CASE ~row.receipt
      <4>1. RowSound(k)' /\ ReceiptOk(k)'
        BY <1>3, <2>2, <2>3, <2>4, <2>5, <3>2, StoredKept
      <4> HIDE DEF k
      <4> QED  BY <2>3, <3>1, <4>1 DEF StoredSound
    <3>3. CASE row.receipt
      <4> DEFINE cp == cll.witnesses[k].checkpoint
      <4>1. reply[d][w] = "receipt" /\ dpc[d][w] = "await"
        BY <2>1, <3>3 DEF Record
      <4>2. AwaitSound(d, w)
        BY <2>2, <4>1 DEF ThreadSound
      <4>3. n \in DOMAIN items[d][w] /\ items[d][w][n].checkpoint = cp
        <5>1. DOMAIN items[d][w] # {} /\ DOMAIN items[d][w] \subseteq Nat
          BY <4>2 DEF AwaitSound, DeliveryTypeOK, IsItemMap
        <5>2. n \in DOMAIN items[d][w]
          BY <1>0, <5>1, CurrentFacts
        <5> QED  BY <2>2, <5>2 DEF ThreadSound, ItemSound
      <4>4. Accepted(w, cp) /\ NoGap(w, cp)
        BY <1>0, <4>1, <4>2, <4>3 DEF AwaitSound
      <4>5. cp.prev_size \in Nat /\ cp.prev_size < cll.checkpoint.size
        BY <1>3, <2>2, RowFacts
      <4>6. RowSound(k)
        BY <1>3, <2>2 DEF StoredSound
      <4> HIDE DEF cp
      <4>7. \A c : c = cp => Accepted(w, c)' /\ NoGap(w, c)'
        BY <2>5, <4>4, <4>5, AcceptedKept, NoGapKept
      <4>8. cll'.witnesses[k].checkpoint = cp
        BY <2>1, <2>3 DEF cp
      <4>9. RowSound(k)'
        BY <2>3, <4>6, <4>8 DEF RowSound, cp
      <4>10. k[1] = w
        OBVIOUS
      <4> HIDE DEF k
      <4>11. ReceiptOk(k)'
        BY <4>7, <4>8, <4>10 DEF ReceiptOk, Accepted, NoGap, HasRow
      <4> QED  BY <2>3, <3>1, <4>9, <4>11 DEF StoredSound
    <3> QED  BY <3>2, <3>3
  <2>8. CASE EndThread(d, w)
    BY <2>5, <2>6, <2>7, <2>8, EndThreadFacts, OneThread
  <2>9. CASE GoesOn(d, w)
    <3>1. /\ dpc'[d][w] = "next" /\ reply'[d][w] = "none"
          /\ DOMAIN items'[d][w] = DOMAIN items[d][w] \ {n}
          /\ \A m \in DOMAIN items'[d][w] : items'[d][w][m] = items[d][w][m]
      BY <1>0, <2>9, GoesOnFacts
    <3>2. ASSUME NEW m \in DOMAIN items'[d][w] PROVE ItemSound(w, m, items[d][w][m])'
      <4>1. m \in DOMAIN items[d][w] /\ <<w, m>> # k /\ items'[d][w][m] = items[d][w][m]
        BY <3>1
      <4>2. ItemSound(w, m, items[d][w][m])
        BY <2>2, <4>1 DEF ThreadSound
      <4>3. cll'.witnesses[<<w, m>>] = cll.witnesses[<<w, m>>]
        BY <2>3, <4>1, <4>2 DEF ItemSound, HasRow
      <4> QED  BY <2>3, <4>1, <4>2, <4>3 DEF ItemSound, HasRow
    <3>3. ThreadSound(d, w)'
      BY <3>1, <3>2 DEF ThreadSound
    <3> QED  BY <2>5, <2>6, <2>7, <2>9, <3>3, GoesOnFacts, OneThread
  <2> QED  BY <1>3, <2>5, <2>6, <2>8, <2>9
<1> QED  BY <1>0, <1>2, <1>3, RecordFacts

\* Every step of the delivery runners, the witnesses, the network and the
\* operator keeps the invariant.
LEMMA DeliveryNextStep ==
    ASSUME DeliveryTypeOK, DeliverySound, DeliveryNext
    PROVE  DeliveryTypeOK' /\ Evolves /\ DeliverySound'
<1>1. ASSUME NEW d \in Courier, BeginDelivery(d) \/ CrashDelivery(d)
      PROVE  DeliveryTypeOK' /\ Evolves /\ DeliverySound'
  BY <1>1, BeginStep, CrashStep
<1>2. ASSUME NEW d \in Courier, NEW w \in Witness, DeliveryStep(d, w)
      PROVE  DeliveryTypeOK' /\ Evolves /\ DeliverySound'
  <2>1. CASE Deliver(d, w)
    BY <2>1, DeliverStep
  <2>2. CASE DeliveredAll(d, w)
    BY <2>2, QuitStep DEF DeliveredAll
  <2>3. CASE Record(d, w)
    BY <2>3, RecordStep
  <2> QED  BY <1>2, <2>1, <2>2, <2>3 DEF DeliveryStep
<1>3. ASSUME NEW d \in Courier, NEW w \in Witness,
             RetryableFailure(d, w) \/ SpuriousRefusal(d, w)
      PROVE  DeliveryTypeOK' /\ Evolves /\ DeliverySound'
  <2>1. PICK what \in {"retry", "rejected", "unbound"} : reply' = [reply EXCEPT ![d][w] = what]
    BY <1>3 DEF RetryableFailure, SpuriousRefusal
  <2>2. /\ dpc[d][w] = "await" /\ Current(d, w) \notin Corrupted
        /\ UNCHANGED <<cll, clock, dpc, dnow, items>> /\ wire' \subseteq wire
        /\ accepted' = accepted
    BY <1>3 DEF RetryableFailure, SpuriousRefusal
  <2>3. what \in Reply /\ what # "receipt" /\ accepted' \in [Witness -> Seq(Checkpoint)]
    BY <2>2 DEF Reply, DeliveryTypeOK
  <2> QED  BY <2>1, <2>2, <2>3, AnswerStep
<1>4. ASSUME NEW m \in wire, WitnessHandles(m)
      PROVE  DeliveryTypeOK' /\ Evolves /\ DeliverySound'
  BY <1>4, WitnessStep
<1>5. ASSUME NEW k \in DOMAIN cll.witnesses, OperatorClears(k)
      PROVE  DeliveryTypeOK' /\ Evolves /\ DeliverySound'
  BY <1>5, ClearStep
<1> QED  BY <1>1, <1>2, <1>3, <1>4, <1>5 DEF DeliveryNext

\* What deliveries leave alone: the log, the index, the checkpoint, which
\* rows there are and for which checkpoint; and who may change a permanent
\* row.
LEMMA DeliveryWrites ==
    ASSUME DeliveryTypeOK, DeliverySound, DeliveryNext
    PROVE  /\ entries' = entries /\ clock' = clock
           /\ cll'.nodes = cll.nodes /\ cll'.checkpoint = cll.checkpoint
           /\ cll'.first_pending_at = cll.first_pending_at
           /\ DOMAIN cll'.witnesses = DOMAIN cll.witnesses
           /\ \A j \in DOMAIN cll.witnesses :
                 /\ cll'.witnesses[j].checkpoint = cll.witnesses[j].checkpoint
                 /\ ValidWitness(j, cll.witnesses[j]) => ValidWitness(j, cll'.witnesses[j])
                 /\ cll.witnesses[j].permanent =>
                       \/ cll'.witnesses[j] = cll.witnesses[j]
                       \/ /\ clears' = clears + 1
                          /\ cll'.witnesses[j].attempts = cll.witnesses[j].attempts
                          /\ ~cll'.witnesses[j].receipt
<1>1. CASE UNCHANGED <<entries, cll, clock>>
  BY <1>1
<1>2. ASSUME NEW d \in Courier, NEW w \in Witness, Record(d, w), cll' # cll
      PROVE  /\ entries' = entries /\ clock' = clock
             /\ cll'.nodes = cll.nodes /\ cll'.checkpoint = cll.checkpoint
             /\ cll'.first_pending_at = cll.first_pending_at
             /\ DOMAIN cll'.witnesses = DOMAIN cll.witnesses
             /\ \A j \in DOMAIN cll.witnesses :
                   /\ cll'.witnesses[j].checkpoint = cll.witnesses[j].checkpoint
                   /\ ValidWitness(j, cll.witnesses[j]) => ValidWitness(j, cll'.witnesses[j])
                   /\ cll.witnesses[j].permanent => cll'.witnesses[j] = cll.witnesses[j]
  <2>0. PICK k : k = <<w, Current(d, w)>>
    OBVIOUS
  <2>1. PICK row \in WitnessState :
           /\ CommitWitness(k, row) /\ ValidWitness(k, row)
           /\ row.checkpoint = cll.witnesses[k].checkpoint
    BY <1>2, <2>0, RecordFacts
  <2>2. k \in DOMAIN cll.witnesses /\ ~cll.witnesses[k].permanent /\ clock' = clock
    BY <1>2, <2>0, RecordFacts
  <2>3. /\ entries' = entries
        /\ cll'.nodes = cll.nodes /\ cll'.checkpoint = cll.checkpoint
        /\ cll'.first_pending_at = cll.first_pending_at
        /\ DOMAIN cll'.witnesses = DOMAIN cll.witnesses /\ cll'.witnesses[k] = row
        /\ \A j \in DOMAIN cll.witnesses \ {k} : cll'.witnesses[j] = cll.witnesses[j]
    BY <2>1, <2>2, WriteFacts DEF DeliveryTypeOK
  <2>4. ASSUME NEW j \in DOMAIN cll.witnesses
        PROVE  /\ cll'.witnesses[j].checkpoint = cll.witnesses[j].checkpoint
               /\ ValidWitness(j, cll.witnesses[j]) => ValidWitness(j, cll'.witnesses[j])
               /\ cll.witnesses[j].permanent => cll'.witnesses[j] = cll.witnesses[j]
    <3>1. CASE j = k
      BY <2>1, <2>2, <2>3, <3>1
    <3>2. CASE j # k
      BY <2>3, <3>2
    <3> QED  BY <3>1, <3>2
  <2> QED  BY <2>2, <2>3, <2>4
<1>3. ASSUME NEW k \in DOMAIN cll.witnesses, OperatorClears(k)
      PROVE  /\ entries' = entries /\ clock' = clock
             /\ cll'.nodes = cll.nodes /\ cll'.checkpoint = cll.checkpoint
             /\ cll'.first_pending_at = cll.first_pending_at
             /\ DOMAIN cll'.witnesses = DOMAIN cll.witnesses
             /\ \A j \in DOMAIN cll.witnesses :
                   /\ cll'.witnesses[j].checkpoint = cll.witnesses[j].checkpoint
                   /\ ValidWitness(j, cll.witnesses[j]) => ValidWitness(j, cll'.witnesses[j])
                   /\ \/ cll'.witnesses[j] = cll.witnesses[j]
                      \/ /\ clears' = clears + 1
                         /\ cll'.witnesses[j].attempts = cll.witnesses[j].attempts
                         /\ ~cll'.witnesses[j].receipt
  <2> DEFINE old == cll.witnesses[k]
             row == [old EXCEPT !.permanent = FALSE, !.next_attempt_at = clock]
  <2>1. CommitWitness(k, row) /\ ~old.receipt /\ clock' = clock /\ clears' = clears + 1
    BY <1>3 DEF OperatorClears
  <2>2. old \in WitnessState /\ clock \in Nat
    BY RowFacts DEF DeliverySound, DeliveryTypeOK
  <2>3. /\ row \in WitnessState /\ row.checkpoint = old.checkpoint
        /\ row.attempts = old.attempts /\ row.receipt = old.receipt
    BY <2>2 DEF WitnessState
  <2> HIDE DEF row
  <2>4. /\ entries' = entries
        /\ cll'.nodes = cll.nodes /\ cll'.checkpoint = cll.checkpoint
        /\ cll'.first_pending_at = cll.first_pending_at
        /\ DOMAIN cll'.witnesses = DOMAIN cll.witnesses /\ cll'.witnesses[k] = row
        /\ \A j \in DOMAIN cll.witnesses \ {k} : cll'.witnesses[j] = cll.witnesses[j]
    BY <2>1, <2>3, WriteFacts DEF DeliveryTypeOK
  <2>5. ASSUME NEW j \in DOMAIN cll.witnesses
        PROVE  /\ cll'.witnesses[j].checkpoint = cll.witnesses[j].checkpoint
               /\ ValidWitness(j, cll.witnesses[j]) => ValidWitness(j, cll'.witnesses[j])
               /\ \/ cll'.witnesses[j] = cll.witnesses[j]
                  \/ /\ clears' = clears + 1
                     /\ cll'.witnesses[j].attempts = cll.witnesses[j].attempts
                     /\ ~cll'.witnesses[j].receipt
    <3>1. CASE j = k
      BY <2>1, <2>3, <2>4, <3>1 DEF ValidWitness
    <3>2. CASE j # k
      BY <2>4, <3>2
    <3> QED  BY <3>1, <3>2
  <2> QED  BY <2>1, <2>4, <2>5
<1>4. ASSUME NEW d \in Courier, NEW w \in Witness, Record(d, w), cll' = cll
      PROVE  UNCHANGED <<entries, cll, clock>>
  <2>1. UNCHANGED clock /\ (UNCHANGED entries \/ \E row : CommitWitness(<<w, Current(d, w)>>, row))
    BY <1>4, RecordFacts
  <2> QED  BY <1>4, <2>1 DEF CommitWitness
<1>5. ASSUME NEW d \in Courier, NEW w \in Witness,
             \/ Deliver(d, w) \/ DeliveredAll(d, w)
             \/ RetryableFailure(d, w) \/ SpuriousRefusal(d, w)
      PROVE  UNCHANGED <<entries, cll, clock>>
  BY <1>5 DEF Deliver, DeliveredAll, RetryableFailure, SpuriousRefusal
<1>6. ASSUME NEW d \in Courier, BeginDelivery(d) \/ CrashDelivery(d)
      PROVE  UNCHANGED <<entries, cll, clock>>
  BY <1>6 DEF BeginDelivery, CrashDelivery
<1>7. ASSUME NEW m \in wire, WitnessHandles(m) PROVE UNCHANGED <<entries, cll, clock>>
  BY <1>7 DEF WitnessHandles
<1>8. CASE \E d \in Courier, w \in Witness : Record(d, w)
  BY <1>1, <1>2, <1>4, <1>8
<1>9. CASE \E k \in DOMAIN cll.witnesses : OperatorClears(k)
  BY <1>3, <1>9
<1> QED
  BY <1>1, <1>5, <1>6, <1>7, <1>8, <1>9 DEF DeliveryNext, DeliveryStep

-----------------------------------------------------------------------------
(***************************************************************************)
(* Checkpoint commits.  All that deliveries need to know of one is that it *)
(* keeps the rows and adds undelivered rows ahead of them.                 *)
(***************************************************************************)
RowsQueued ==
    /\ IsCllState(cll')
    /\ cll'.checkpoint.size >= cll.checkpoint.size
    /\ DOMAIN cll.witnesses \subseteq DOMAIN cll'.witnesses
    /\ \A k \in DOMAIN cll.witnesses : cll'.witnesses[k] = cll.witnesses[k]
    /\ \A k \in DOMAIN cll'.witnesses \ DOMAIN cll.witnesses :
          k[2] > cll.checkpoint.size /\ RowSound(k)' /\ ~cll'.witnesses[k].receipt

\* Such a commit keeps the invariant.
LEMMA QueueStep ==
    ASSUME DeliveryTypeOK, DeliverySound, RowsQueued, clock' \in Nat,
           UNCHANGED deliveryVars
    PROVE  DeliveryTypeOK' /\ Evolves /\ DeliverySound'
<1>1. /\ dpc' = dpc /\ dnow' = dnow /\ items' = items /\ reply' = reply /\ wire' = wire
      /\ accepted' = accepted
  BY DEF deliveryVars
<1>2. DeliveryTypeOK'
  BY <1>1 DEF DeliveryTypeOK, IsItemMap, RowsQueued
<1>3. StoredSound
  BY DEF DeliverySound
<1>4. Evolves
  <2>1. \A k \in DOMAIN cll.witnesses : cll.witnesses[k].attempts \in Nat
    BY <1>3, RowFacts
  <2> QED  BY <1>1, <2>1 DEF Evolves, RowEvolves, RowsQueued
<1>5. StoredSound'
  <2>1. cll'.checkpoint.size \in Nat
    BY DEF RowsQueued, IsCllState, Checkpoint
  <2>2. \A k \in DOMAIN cll.witnesses : RowSound(k)' /\ ReceiptOk(k)'
    BY <1>3, <1>4, <2>1, StoredKept DEF RowsQueued
  <2>3. \A k \in DOMAIN cll'.witnesses \ DOMAIN cll.witnesses : RowSound(k)' /\ ReceiptOk(k)'
    BY DEF RowsQueued, ReceiptOk
  <2> QED  BY <2>2, <2>3 DEF StoredSound
<1>6. \A e \in Courier : \A x \in Witness : ThreadSound(e, x)'
  BY <1>1, <1>2, <1>3, <1>4, ThreadKept DEF DeliverySound
<1> QED  BY <1>2, <1>4, <1>5, <1>6 DEF DeliverySound

\* Every commit of the delivery model seals the whole index.
Sealed == cll.checkpoint.size = Len(cll.nodes)

\* Its commit is one of these.
LEMMA CommittedQueues ==
    ASSUME DeliveryTypeOK, DeliverySound, Sealed, CheckpointCommitted
    PROVE  RowsQueued /\ Sealed'
<1> DEFINE n == Len(cll.nodes) + 1
           new == {<<w, n>> : w \in Witness}
<1> DEFINE Cp(v) == [size |-> n, root |-> Append(cll.nodes, v),
                     prev_size |-> cll.checkpoint.size,
                     prev_root |-> cll.checkpoint.root,
                     key_id |-> CHOOSE k \in Key : TRUE, issued_at |-> clock]
           Row(cp) == [checkpoint |-> cp, attempts |-> 0, next_attempt_at |-> clock,
                       receipt |-> FALSE, permanent |-> FALSE]
           State(cp, row) == [nodes |-> cp.root, first_pending_at |-> None,
                              checkpoint |-> cp, witnesses |-> [k \in new |-> row]]
<1>a. PICK v \in Value : cll' = ApplyCll(cll, State(Cp(v), Row(Cp(v))))
  BY DEF CheckpointCommitted
<1>b. PICK cp : cp = Cp(v)
  OBVIOUS
<1>c. PICK row : row = Row(cp)
  OBVIOUS
<1>1. cll' = ApplyCll(cll, State(cp, row))
  BY <1>a, <1>b, <1>c
<1>2. /\ cll.nodes \in Seq(Value) /\ cll.checkpoint \in Checkpoint /\ IsRowMap(cll.witnesses)
      /\ clock \in Nat
  BY DEF DeliveryTypeOK, IsCllState
<1>3. /\ Len(cll.nodes) \in Nat /\ n \in Nat /\ n > Len(cll.nodes)
      /\ Append(cll.nodes, v) \in Seq(Value) /\ Len(Append(cll.nodes, v)) = n
  BY <1>2, AppendProperties, LenProperties
<1>4. cll.checkpoint.size \in Nat /\ cll.checkpoint.root \in Seq(Value)
  BY <1>2 DEF Checkpoint
<1>5. (CHOOSE k \in Key : TRUE) \in Key
  BY DeliveryAssumption
<1> HIDE DEF n
<1>6. /\ cp \in Checkpoint /\ cp.size = n /\ cp.prev_size = cll.checkpoint.size
      /\ cp.root = Append(cll.nodes, v)
  BY <1>b, <1>2, <1>3, <1>4, <1>5 DEF Checkpoint
<1>7. row \in WitnessState /\ row.checkpoint = cp /\ ~row.receipt
  BY <1>c, <1>2, <1>6 DEF WitnessState
<1> DEFINE rows == MergeWitnesses(cll, State(cp, row))
<1>8. cll' = [nodes |-> cp.root, first_pending_at |-> None, checkpoint |-> cp,
              witnesses |-> rows]
  BY <1>1 DEF ApplyCll
<1>9. rows = [k \in DOMAIN cll.witnesses \cup new |->
                IF k \in DOMAIN cll.witnesses THEN cll.witnesses[k] ELSE row]
  BY DEF MergeWitnesses
<1>10. new \subseteq WitnessKey /\ \A k \in new : k[2] = n
  BY <1>3 DEF WitnessKey
<1> HIDE DEF rows, new
<1>11. /\ DOMAIN rows = DOMAIN cll.witnesses \cup new
       /\ \A k \in DOMAIN cll.witnesses : rows[k] = cll.witnesses[k]
       /\ \A k \in DOMAIN rows \ DOMAIN cll.witnesses : k \in new /\ rows[k] = row
  BY <1>9
<1>12. IsRowMap(rows)
  <2>1. \A k \in DOMAIN cll.witnesses : cll.witnesses[k] \in WitnessState
    BY <1>2 DEF IsRowMap
  <2> QED  BY <1>2, <1>7, <1>9, <1>10, <1>11, <2>1 DEF IsRowMap
<1>13. /\ cll'.nodes = cp.root /\ cll'.checkpoint = cp /\ cll'.witnesses = rows
       /\ IsCllState(cll')
  BY <1>3, <1>6, <1>8, <1>12 DEF IsCllState
<1>14. cp.size >= cll.checkpoint.size /\ n > cll.checkpoint.size
  BY <1>3, <1>4, <1>6 DEF Sealed
<1>15. ASSUME NEW k \in DOMAIN rows \ DOMAIN cll.witnesses
       PROVE  k[2] > cll.checkpoint.size /\ RowSound(k)' /\ ~rows[k].receipt
  <2>1. k[2] = n /\ rows[k] = row
    BY <1>10, <1>11
  <2> QED  BY <1>3, <1>4, <1>6, <1>7, <1>13, <1>14, <2>1 DEF RowSound
<1>16. Sealed'
  BY <1>3, <1>6, <1>13 DEF Sealed
<1>17. RowsQueued
  BY <1>11, <1>13, <1>14, <1>15 DEF RowsQueued
<1> QED  BY <1>16, <1>17

\* The invariant of the delivery model.
DeliveryInductive == DeliveryTypeOK /\ DeliverySound /\ Sealed

\* Every step of it keeps the invariant and lets rows only evolve.
LEMMA DeliverySpecStep ==
    DeliveryInductive /\ [DeliverySpecNext]_deliverySpecVars => DeliveryInductive' /\ Evolves
<1> SUFFICES ASSUME DeliveryTypeOK, DeliverySound, Sealed,
                    [DeliverySpecNext]_deliverySpecVars
             PROVE  DeliveryTypeOK' /\ DeliverySound' /\ Sealed' /\ Evolves
  BY DEF DeliveryInductive
<1>1. CASE CheckpointCommitted
  <2>1. RowsQueued /\ Sealed'
    BY <1>1, CommittedQueues
  <2>2. clock' \in Nat /\ UNCHANGED deliveryVars
    BY <1>1 DEF CheckpointCommitted, DeliveryTypeOK
  <2> QED  BY <2>1, <2>2, QueueStep
<1>2. CASE DeliveryNext
  <2>1. Sealed'
    BY <1>2, DeliveryWrites DEF Sealed
  <2> QED  BY <1>2, <2>1, DeliveryNextStep
<1>3. CASE (ClockTicks /\ UNCHANGED deliveryVars) \/ UNCHANGED deliverySpecVars
  <2>1. cll' = cll /\ clock' \in Nat /\ UNCHANGED deliveryVars
    BY <1>3 DEF ClockTicks, storeVars, deliverySpecVars, DeliveryTypeOK
  <2>2. RowsQueued
    BY <2>1 DEF RowsQueued, DeliveryTypeOK, IsCllState, Checkpoint
  <2>3. Sealed'
    BY <2>1 DEF Sealed
  <2> QED  BY <2>1, <2>2, <2>3, QueueStep
<1> QED  BY <1>1, <1>2, <1>3 DEF DeliverySpecNext

\* What a fresh set of threads and witnesses satisfies.
LEMMA FreshDelivery ==
    ASSUME DeliveryInit, IsCllState(cll), cll.witnesses = NoRows, clock \in Nat
    PROVE  DeliveryTypeOK /\ DeliverySound
<1>1. DOMAIN NoRows = {}
  BY DEF NoRows
<1>2. <<>> \in Seq(Checkpoint)
  BY EmptySeq
<1>3. DeliveryTypeOK
  BY <1>2, NoItemsFacts DEF DeliveryInit, DeliveryTypeOK, Place, Reply
<1>4. StoredSound
  BY <1>1 DEF StoredSound
<1>5. \A d \in Courier : \A w \in Witness : ThreadSound(d, w)
  BY NoItemsFacts DEF DeliveryInit, ThreadSound
<1> QED  BY <1>3, <1>4, <1>5 DEF DeliverySound

\* The invariant holds at the start.
LEMMA DeliverySpecStart == DeliverySpecInit => DeliveryInductive
<1> SUFFICES ASSUME DeliverySpecInit PROVE DeliveryInductive
  OBVIOUS
<1>1. cll = EmptyState /\ clock = 0 /\ DeliveryInit
  BY DEF DeliverySpecInit, StoreInit, ClockInit
<1>2. IsCllState(EmptyState) /\ EmptyState.witnesses = NoRows
  <2>1. IsRowMap(NoRows)
    BY DEF IsRowMap, NoRows
  <2>2. NoCheckpoint \in Checkpoint
    BY DEF NoCheckpoint, Checkpoint
  <2> QED  BY <2>1, <2>2 DEF EmptyState, IsCllState
<1>3. DeliveryTypeOK /\ DeliverySound
  BY <1>1, <1>2, FreshDelivery
<1>4. Sealed
  BY <1>1, EmptySeq DEF Sealed, EmptyState, NoCheckpoint
<1> QED  BY <1>3, <1>4 DEF DeliveryInductive

-----------------------------------------------------------------------------
(***************************************************************************)
(* The theorems.                                                           *)
(***************************************************************************)

\* A stored receipt is of a checkpoint its witness did accept (_deliver,
\* ReceiptVerifier.verify and commit_witness): no late, lost or repeated
\* answer ends up on another row.
THEOREM ReceiptsSound == DeliverySpec => []ReceiptSound
<1>1. DeliveryInductive => ReceiptSound
  <2> SUFFICES ASSUME StoredSound PROVE ReceiptSound
    BY DEF DeliveryInductive, DeliverySound
  <2> QED  BY DEF StoredSound, ReceiptOk, Accepted, ReceiptSound
<1> QED  BY <1>1, DeliverySpecStart, DeliverySpecStep, PTL DEF DeliverySpec

\* No row has a receipt while the row of its prev_size has none (_deliver's
\* predecessor rule), however passes, couriers and operators interleave.
THEOREM NoReceiptAfterGap == DeliverySpec => []ReceiptsGapless
<1>1. DeliveryInductive => ReceiptsGapless
  <2> SUFFICES ASSUME StoredSound PROVE ReceiptsGapless
    BY DEF DeliveryInductive, DeliverySound
  <2> QED  BY DEF StoredSound, ReceiptOk, NoGap, ReceiptsGapless
<1> QED  BY <1>1, DeliverySpecStart, DeliverySpecStep, PTL DEF DeliverySpec

\* A stored receipt is never lost or replaced (commit_witness's comparison of
\* attempts, and added_witnesses, which keeps the stored row).
THEOREM ReceiptsStay == DeliverySpec => ReceiptsKept
<1>1. Evolves =>
         [\A k \in DOMAIN cll.witnesses :
             cll.witnesses[k].receipt => cll'.witnesses[k] = cll.witnesses[k]]_cll
  BY DEF Evolves, RowEvolves
<1> QED  BY <1>1, DeliverySpecStart, DeliverySpecStep, PTL DEF DeliverySpec, ReceiptsKept

\* Only an operator's clearing changes a permanent row, and it leaves the
\* attempts alone: no runner, however stale what it has in hand, writes one.
THEOREM PermanentRowsStay == DeliverySpec => PermanentUntilCleared
<1>1. DeliveryInductive /\ [DeliverySpecNext]_deliverySpecVars =>
         [\A k \in DOMAIN cll.witnesses :
             cll.witnesses[k].permanent =>
                 \/ cll'.witnesses[k] = cll.witnesses[k]
                 \/ /\ clears' = clears + 1
                    /\ cll'.witnesses[k].attempts = cll.witnesses[k].attempts
                    /\ ~cll'.witnesses[k].receipt]_cll
  <2> SUFFICES ASSUME DeliveryTypeOK, DeliverySound, Sealed, cll' # cll,
                      [DeliverySpecNext]_deliverySpecVars,
                      NEW k \in DOMAIN cll.witnesses, cll.witnesses[k].permanent
               PROVE  \/ cll'.witnesses[k] = cll.witnesses[k]
                      \/ /\ clears' = clears + 1
                         /\ cll'.witnesses[k].attempts = cll.witnesses[k].attempts
                         /\ ~cll'.witnesses[k].receipt
    BY DEF DeliveryInductive
  <2>1. CASE CheckpointCommitted
    BY <2>1, CommittedQueues DEF RowsQueued
  <2>2. CASE DeliveryNext
    BY <2>2, DeliveryWrites
  <2>3. CASE ClockTicks \/ UNCHANGED deliverySpecVars
    BY <2>3 DEF ClockTicks, storeVars, deliverySpecVars
  <2> QED  BY <2>1, <2>2, <2>3 DEF DeliverySpecNext
<1> QED
  BY <1>1, DeliverySpecStart, DeliverySpecStep, PTL DEF DeliverySpec, PermanentUntilCleared
=============================================================================
