--------------------------- MODULE WitnessDelivery ---------------------------
(***************************************************************************)
(* Delivery of queued checkpoints to witnesses (python/checkpoint/         *)
(* witness.py).  A delivery runner takes the due rows of each witness it   *)
(* has a client for, sends them in order of size, one thread per witness,  *)
(* and records every outcome with commit_witness's compare-and-set on the  *)
(* row's attempts.  Several runners may serve one log.  Between a runner's *)
(* reading of a row and its commit the request travels to the witness, is  *)
(* answered, refused, delayed or lost, and other runners, an operator or a *)
(* crash may come in between.                                              *)
(*                                                                         *)
(* The witness itself is external: it accepts a checkpoint that continues  *)
(* the last one it accepted and answers 409 otherwise (the refusal         *)
(* emit.py parses as WitnessContinuityRefused).  Whether it answers a      *)
(* repeated submission with a receipt is the constant Idempotent.          *)
(***************************************************************************)
EXTENDS CllHost

CONSTANTS
    Courier,       \* delivery runners
    Clients,       \* [Courier -> SUBSET Witness]: the witnesses of each
    Limit,         \* run_once's limit of rows per witness
    BaseBackoff,   \* base_backoff
    MaxBackoff,    \* max_backoff
    Jitter,        \* jitter
    Corrupted,     \* checkpoint sizes whose stored statement does not verify
    Idempotent,    \* external: a repeated submission gets its receipt again
    MaxFaults,     \* bound: lost answers and crashes
    MaxRefusals,   \* bound: refusals for another reason than continuity
    MaxClears      \* bound: permanent rows cleared by an operator

ASSUME DeliveryAssumption ==
    /\ Clients \in [Courier -> SUBSET Witness]
    /\ Limit \in Nat \ {0}
    /\ BaseBackoff \in Nat \ {0}
    /\ MaxBackoff \in Nat /\ MaxBackoff >= BaseBackoff
    /\ Jitter \in BOOLEAN /\ Idempotent \in BOOLEAN
    /\ Corrupted \subseteq Nat
    /\ Key # {}
    /\ MaxFaults \in Nat /\ MaxRefusals \in Nat /\ MaxClears \in Nat

VARIABLES
    dpc,        \* where each thread (courier, witness) is
    dnow,       \* the time of each courier's pass
    items,      \* the rows each thread still has to deliver, by size
    reply,      \* what submit and verify returned to a waiting thread
    wire,       \* requests on their way to a witness
    accepted,   \* external: the checkpoints each witness accepted, in order
    faults,     \* how many faults happened (bounded)
    refusals,   \* how many such refusals happened (bounded)
    clears      \* how many rows an operator cleared (bounded)

deliveryVars == <<dpc, dnow, items, reply, wire, accepted, faults, refusals, clears>>

NoItems == [n \in {} |-> None]

DeliveryInit ==
    /\ dpc = [d \in Courier |-> [w \in Witness |-> "idle"]]
    /\ dnow = [d \in Courier |-> 0]
    /\ items = [d \in Courier |-> [w \in Witness |-> NoItems]]
    /\ reply = [d \in Courier |-> [w \in Witness |-> "none"]]
    /\ wire = {}
    /\ accepted = [w \in Witness |-> <<>>]
    /\ faults = 0
    /\ refusals = 0
    /\ clears = 0

-----------------------------------------------------------------------------
(***************************************************************************)
(* A pass.                                                                 *)
(***************************************************************************)

\* run_once: it runs alone in its runner (the lock, and the pool that waits
\* for every thread), and takes the due rows of each configured witness.
BeginDelivery(d) ==
    /\ \A w \in Witness : dpc[d][w] = "idle"
    /\ dnow' = [dnow EXCEPT ![d] = clock]
    /\ items' = [items EXCEPT ![d] =
                   [w \in Witness |->
                      IF w \in Clients[d]
                      THEN PendingFor(cll.witnesses, clock, Limit, w)
                      ELSE NoItems]]
    /\ dpc' = [dpc EXCEPT ![d] =
                 [w \in Witness |->
                    IF DOMAIN items'[d][w] # {} THEN "next" ELSE "idle"]]
    /\ UNCHANGED <<entries, cll, clock, reply, wire, accepted, faults, refusals, clears>>

\* The row a thread is at: the smallest size it still has.
Current(d, w) ==
    CHOOSE n \in DOMAIN items[d][w] : \A m \in DOMAIN items[d][w] : n <= m

\* Mutant: nothing is held.
HeldNever(w, cp) == FALSE

\* Mutant: any predecessor row holds, with or without receipt.
HeldForever(w, cp) ==
    cp.prev_size > 0 /\ <<w, cp.prev_size>> \in DOMAIN cll.witnesses

\* _deliver's predecessor rule: the row of prev_size has no receipt yet.
Held(w, cp) ==
    /\ cp.prev_size > 0
    /\ <<w, cp.prev_size>> \in DOMAIN cll.witnesses
    /\ ~cll.witnesses[<<w, cp.prev_size>>].receipt

\* The thread ends; what it had left stays queued in the store.
EndThread(d, w) ==
    /\ dpc' = [dpc EXCEPT ![d][w] = "idle"]
    /\ items' = [items EXCEPT ![d][w] = NoItems]
    /\ reply' = [reply EXCEPT ![d][w] = "none"]

\* _deliver up to the answer: a statement that does not verify fails without
\* being sent, a held row ends the thread, any other row is posted.
Deliver(d, w) ==
    /\ dpc[d][w] = "next"
    /\ DOMAIN items[d][w] # {}
    /\ LET n == Current(d, w)
           cp == items[d][w][n].checkpoint
       IN  \/ /\ n \in Corrupted
              /\ dpc' = [dpc EXCEPT ![d][w] = "await"]
              /\ reply' = [reply EXCEPT ![d][w] = "rejected"]
              /\ UNCHANGED <<items, wire>>
           \/ /\ n \notin Corrupted
              /\ Held(w, cp)
              /\ EndThread(d, w)
              /\ UNCHANGED wire
           \/ /\ n \notin Corrupted
              /\ ~Held(w, cp)
              /\ dpc' = [dpc EXCEPT ![d][w] = "await"]
              /\ wire' = wire \cup {[from |-> d, to |-> w, checkpoint |-> cp]}
              /\ UNCHANGED <<items, reply>>
    /\ UNCHANGED <<entries, cll, clock, dnow, accepted, faults, refusals, clears>>

\* _deliver_all has no row left.
DeliveredAll(d, w) ==
    /\ dpc[d][w] = "next"
    /\ DOMAIN items[d][w] = {}
    /\ EndThread(d, w)
    /\ UNCHANGED <<entries, cll, clock, dnow, wire, accepted, faults, refusals, clears>>

-----------------------------------------------------------------------------
(***************************************************************************)
(* The witness and the network (external).                                 *)
(***************************************************************************)
LastAccepted(w) ==
    IF accepted[w] = <<>> THEN NoCheckpoint ELSE accepted[w][Len(accepted[w])]

\* A witness that has accepted nothing for the log takes any checkpoint.
Continues(w, cp) ==
    \/ accepted[w] = <<>>
    \/ /\ cp.prev_size = LastAccepted(w).size
       /\ cp.prev_root = LastAccepted(w).root

Repeated(w, cp) == Idempotent /\ \E i \in DOMAIN accepted[w] : accepted[w][i] = cp

\* Whether the thread that sent m is still waiting for its answer.
Awaits(m) ==
    /\ dpc[m.from][m.to] = "await"
    /\ reply[m.from][m.to] = "none"
    /\ items[m.from][m.to][Current(m.from, m.to)].checkpoint = m.checkpoint

Answer(m, what) ==
    reply' = IF Awaits(m) THEN [reply EXCEPT ![m.from][m.to] = what] ELSE reply

\* The witness reads a request, however late, and answers it.
WitnessHandles(m) ==
    /\ wire' = wire \ {m}
    /\ \/ /\ ~Repeated(m.to, m.checkpoint) /\ Continues(m.to, m.checkpoint)
          /\ accepted' = [accepted EXCEPT ![m.to] = Append(@, m.checkpoint)]
          /\ Answer(m, "receipt")
       \/ /\ Repeated(m.to, m.checkpoint)
          /\ Answer(m, "receipt")
          /\ UNCHANGED accepted
       \/ /\ ~Repeated(m.to, m.checkpoint) /\ ~Continues(m.to, m.checkpoint)
          /\ Answer(m, "rejected")
          /\ UNCHANGED accepted
    /\ UNCHANGED <<entries, cll, clock, dpc, dnow, items, faults, refusals, clears>>

\* The bound keeps every retry time within the clock's range.
MayFail == faults < MaxFaults /\ clock + MaxBackoff <= MaxTime

\* submit raises ContentionError: a timeout, a reset, a 408, 429 or 5xx.  The
\* request may still be on its way, or its answer may be the one that is lost.
RetryableFailure(d, w) ==
    /\ MayFail
    /\ dpc[d][w] = "await"
    /\ Current(d, w) \notin Corrupted
    /\ reply' = [reply EXCEPT ![d][w] = "retry"]
    /\ faults' = faults + 1
    /\ UNCHANGED <<entries, cll, clock, dpc, dnow, items, wire, accepted, refusals, clears>>

\* submit raises RejectedError for another reason (any other status, a
\* malformed answer), or the answer is the receipt of another checkpoint or of
\* another authority.
SpuriousRefusal(d, w) ==
    /\ refusals < MaxRefusals
    /\ dpc[d][w] = "await"
    /\ Current(d, w) \notin Corrupted
    /\ \E what \in {"rejected", "unbound"} : reply' = [reply EXCEPT ![d][w] = what]
    /\ refusals' = refusals + 1
    /\ UNCHANGED <<entries, cll, clock, dpc, dnow, items, wire, accepted, faults, clears>>

-----------------------------------------------------------------------------
(***************************************************************************)
(* Recording the outcome.                                                  *)
(***************************************************************************)

\* _backoff without jitter: doubled per earlier attempt, capped.
Backoff[attempts \in Nat] ==
    IF attempts = 0 THEN BaseBackoff
    ELSE Least(2 * Backoff[attempts - 1], MaxBackoff)

\* The delays _backoff may return.
Delays(attempts) == IF Jitter THEN 0..Backoff[attempts] ELSE {Backoff[attempts]}

\* Mutant: any receipt will do.
VerifyAnyReceipt(answer) == answer \in {"receipt", "unbound"}

\* ReceiptVerifier.verify: the entry hash is of the submitted checkpoint, and
\* the receipt, with its position, is signed by the pinned authority.
VerifyReceipt(answer) == answer = "receipt"

\* The row _deliver or _fail writes.
Outcomes(d, item, answer) ==
    IF VerifyReceipt(answer)
    THEN {[item EXCEPT !.attempts = @ + 1, !.next_attempt_at = dnow[d],
                       !.receipt = TRUE, !.permanent = FALSE]}
    ELSE {[item EXCEPT !.attempts = @ + 1, !.next_attempt_at = dnow[d] + delay,
                       !.permanent = (answer # "retry")] :
             delay \in Delays(item.attempts)}

\* commit_witness.  A retryable failure ends the thread, a receipt or a
\* permanent failure goes on to the next row.  An error is raised and ends the
\* thread, then run_once: contention, which run swallows, or an invalid row
\* (the attempt counter is exhausted), after which the host calls again.
Record(d, w) ==
    /\ dpc[d][w] = "await"
    /\ reply[d][w] # "none"
    /\ LET n == Current(d, w)
           item == items[d][w][n]
       IN  \E row \in Outcomes(d, item, reply[d][w]) :
             LET error == CommitWitnessError(cll.witnesses, <<w, n>>, item.attempts, row)
             IN  \/ /\ error = "none"
                    /\ CommitWitness(<<w, n>>, row)
                    /\ \/ /\ reply[d][w] = "retry"
                          /\ EndThread(d, w)
                       \/ /\ reply[d][w] # "retry"
                          /\ dpc' = [dpc EXCEPT ![d][w] = "next"]
                          /\ items' = [items EXCEPT ![d][w] =
                                         [m \in DOMAIN @ \ {n} |-> @[m]]]
                          /\ reply' = [reply EXCEPT ![d][w] = "none"]
                 \/ /\ error # "none"
                    /\ EndThread(d, w)
                    /\ UNCHANGED storeVars
    /\ UNCHANGED <<clock, dnow, wire, accepted, faults, refusals, clears>>

\* The runner's process dies and is started again.
CrashDelivery(d) ==
    /\ MayFail
    /\ \E w \in Witness : dpc[d][w] # "idle"
    /\ dpc' = [dpc EXCEPT ![d] = [w \in Witness |-> "idle"]]
    /\ items' = [items EXCEPT ![d] = [w \in Witness |-> NoItems]]
    /\ reply' = [reply EXCEPT ![d] = [w \in Witness |-> "none"]]
    /\ faults' = faults + 1
    /\ UNCHANGED <<entries, cll, clock, dnow, wire, accepted, refusals, clears>>

\* An operator clears a permanent row with commit_witness, as
\* docs/backend-contract.md ("Held and permanent witness rows") prescribes:
\* expectedAttempts is the stored attempts, which the write leaves alone.
OperatorClears(k) ==
    /\ clears < MaxClears
    /\ cll.witnesses[k].permanent /\ ~cll.witnesses[k].receipt
    /\ CommitWitness(k, [cll.witnesses[k] EXCEPT !.permanent = FALSE,
                                                 !.next_attempt_at = clock])
    /\ clears' = clears + 1
    /\ UNCHANGED <<clock, dpc, dnow, items, reply, wire, accepted, faults, refusals>>

DeliveryStep(d, w) == Deliver(d, w) \/ DeliveredAll(d, w) \/ Record(d, w)

DeliveryNext ==
    \/ \E d \in Courier : BeginDelivery(d) \/ CrashDelivery(d)
    \/ \E d \in Courier, w \in Witness :
          DeliveryStep(d, w) \/ RetryableFailure(d, w) \/ SpuriousRefusal(d, w)
    \/ \E m \in wire : WitnessHandles(m)
    \/ \E k \in DOMAIN cll.witnesses : OperatorClears(k)

-----------------------------------------------------------------------------
(***************************************************************************)
(* Delivery over a chain that grows by itself.  A committed checkpoint is  *)
(* one step here (CheckpointRunner shows that this is all the runners'     *)
(* commits amount to): one more entry, a checkpoint over it chained to the *)
(* stored one, and a row for every witness.                                *)
(***************************************************************************)
CheckpointCommitted ==
    \E v \in Value :
        LET n == Len(cll.nodes) + 1
            cp == [size |-> n, root |-> Append(cll.nodes, v),
                   prev_size |-> cll.checkpoint.size,
                   prev_root |-> cll.checkpoint.root,
                   key_id |-> CHOOSE k \in Key : TRUE, issued_at |-> clock]
            row == [checkpoint |-> cp, attempts |-> 0, next_attempt_at |-> clock,
                    receipt |-> FALSE, permanent |-> FALSE]
            next == [nodes |-> cp.root, first_pending_at |-> None, checkpoint |-> cp,
                     witnesses |-> [k \in {<<w, n>> : w \in Witness} |-> row]]
        IN  /\ n <= MaxSeq
            /\ \A i \in DOMAIN entries : entries[i].value # v
            /\ entries' = Append(entries, [value |-> v, appended_at |-> clock])
            /\ cll' = ApplyCll(cll, next)
            /\ UNCHANGED <<clock, deliveryVars>>

deliverySpecVars == <<entries, cll, clock, deliveryVars>>

DeliverySpecInit == StoreInit /\ ClockInit /\ DeliveryInit

DeliverySpecNext ==
    \/ CheckpointCommitted
    \/ DeliveryNext
    \/ ClockTicks /\ UNCHANGED deliveryVars

DeliverySpec == DeliverySpecInit /\ [][DeliverySpecNext]_deliverySpecVars

-----------------------------------------------------------------------------
(***************************************************************************)
(* Correctness.                                                            *)
(***************************************************************************)

\* A stored receipt is for a checkpoint the witness did accept: a late answer
\* is never recorded on a row it does not belong to.
ReceiptSound ==
    \A k \in DOMAIN cll.witnesses :
        cll.witnesses[k].receipt =>
            \E i \in DOMAIN accepted[k[1]] :
                accepted[k[1]][i] = cll.witnesses[k].checkpoint

HasRow(w, n) == <<w, n>> \in DOMAIN cll.witnesses

\* Receipts are gapless: no row has one while the row of its prev_size has
\* none.
ReceiptsGapless ==
    \A k \in DOMAIN cll.witnesses :
        LET row == cll.witnesses[k]
        IN  row.receipt /\ HasRow(k[1], row.checkpoint.prev_size) =>
                cll.witnesses[<<k[1], row.checkpoint.prev_size>>].receipt

\* A receipt, once stored, is never lost or replaced: not by another runner's
\* failure, a late refusal, an operator, or a commit_cll that carries the row
\* as it was before.
ReceiptsKept ==
    [][\A k \in DOMAIN cll.witnesses :
          cll.witnesses[k].receipt => cll'.witnesses[k] = cll.witnesses[k]]_cll

\* docs/backend-contract.md: a permanent row holds its witness until the row
\* changes, and the runners never change it; an operator's clearing leaves
\* its attempts as they were.
PermanentUntilCleared ==
    [][\A k \in DOMAIN cll.witnesses :
          cll.witnesses[k].permanent =>
              \/ cll'.witnesses[k] = cll.witnesses[k]
              \/ /\ clears' = clears + 1
                 /\ cll'.witnesses[k].attempts = cll.witnesses[k].attempts
                 /\ ~cll'.witnesses[k].receipt]_cll

=============================================================================
