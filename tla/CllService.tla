----------------------------- MODULE CllService -----------------------------
(***************************************************************************)
(* The whole service over one store: hosts append, checkpoint runners      *)
(* index and sign, delivery runners carry the checkpoints to witnesses.    *)
(* The two kinds of runner meet in the witness rows: a checkpoint runner   *)
(* commits the rows as it loaded them, while deliveries change the stored  *)
(* ones under it.                                                          *)
(***************************************************************************)
EXTENDS CheckpointRunner, WitnessDelivery

serviceVars == <<entries, cll, clock, runnerVars, deliveryVars>>

ServiceInit == Init /\ DeliveryInit

ServiceNext ==
    \/ Next /\ UNCHANGED deliveryVars
    \/ DeliveryNext /\ UNCHANGED runnerVars

ServiceSpec == ServiceInit /\ [][ServiceNext]_serviceVars

(***************************************************************************)
(* Fairness: time passes and the runners poll, a pass that has begun goes  *)
(* on, delivery threads run (submit times out, so waiting ends), requests  *)
(* reach a witness that is up, and an operator clears a permanent row      *)
(* sooner or later.                                                        *)
(***************************************************************************)
FairServiceSpec ==
    /\ ServiceSpec
    /\ WF_serviceVars(Tick /\ UNCHANGED deliveryVars)
    /\ \A r \in Runner :
          /\ WF_serviceVars(Poll(r) /\ UNCHANGED deliveryVars)
          /\ WF_serviceVars(/\ \/ Begin(r) \/ Load(r) \/ Scan(r)
                               \/ CommitOk(r) \/ CommitFails(r)
                            /\ UNCHANGED deliveryVars)
    /\ \A d \in Courier : WF_serviceVars(BeginDelivery(d) /\ UNCHANGED runnerVars)
    /\ \A d \in Courier, w \in Witness :
          /\ WF_serviceVars(DeliveryStep(d, w) /\ UNCHANGED runnerVars)
          /\ WF_serviceVars(/\ \E m \in wire :
                                 m.from = d /\ m.to = w /\ WitnessHandles(m)
                            /\ UNCHANGED runnerVars)
    /\ WF_serviceVars(/\ \E k \in DOMAIN cll.witnesses : OperatorClears(k)
                      /\ UNCHANGED runnerVars)

-----------------------------------------------------------------------------
\* What a witness has accepted is a chain the log stands by: a checkpoint is
\* accepted only after it was committed, so no answer can be a receipt for a
\* checkpoint that lost the race to be stored, and the witness's own order is
\* the chain's.
WitnessFollowsChain ==
    \A w \in Witness : \A i \in DOMAIN accepted[w] :
        \E j \in DOMAIN chain :
            /\ accepted[w][i] = chain[j]
            /\ i > 1 => accepted[w][i - 1] = chain[j - 1]

\* The promise of the service: every entry ends up under a checkpoint that
\* each configured witness has given a receipt for.
EveryEntryWitnessed ==
    \A n \in 1..MaxSeq, w \in Witness :
        Len(entries) >= n ~>
            \E k \in DOMAIN cll.witnesses :
                k[1] = w /\ k[2] >= n /\ cll.witnesses[k].receipt
=============================================================================
