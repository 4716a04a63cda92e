------------------------- MODULE CheckpointEmission -------------------------
(***************************************************************************)
(* Producers that checkpoint one log by hand, without a CLL backend: each  *)
(* takes the newest checkpoint it finds, emits the next one, registers it  *)
(* with Transparency Services and stores it.  Two ways to store one:       *)
(*                                                                         *)
(*  "stamps"     the checkpoint, its stamps and its COSE statement become  *)
(*               an entry of the log (python/checkpoint/emit.py, bundle.py *)
(*               and cose_wire.py); services check continuity.             *)
(*  "directory"  one file per checkpoint, named by its size and written in *)
(*               place (python/ledger/checkpoint.py); services are sent    *)
(*               the digest alone.                                         *)
(*                                                                         *)
(* A producer may crash anywhere, the log may be restored from an older    *)
(* backup, answers may be lost.  The order of a producer's calls is its    *)
(* caller's, and the services are external.                                *)
(***************************************************************************)
EXTENDS CheckpointStatements

CONSTANTS
    Producer,        \* producers on the log
    RecordId,        \* ids of content records
    Service,         \* Transparency Services
    Stores,          \* a subset of {"stamps", "directory"}
    CadenceEntries,  \* cadence_entries
    MaxLog,          \* bound: entries of a log that records are appended to
    MaxEmits,        \* bound: checkpoints emitted, the time of each
    MaxFaults,       \* bound, for each store: the faults and overlaps that happen
    FaultCost        \* how many overlaps (a start while another producer is
                     \* busy) a fault counts for: a crash, a lost answer, a
                     \* restored backup, a checkpoint without a wire form

ASSUME EmissionAssumption ==
    /\ Stores \subseteq {"stamps", "directory"}
    /\ CadenceEntries \in Nat \ {0}
    /\ MaxLog \in Nat /\ MaxEmits \in Nat
    /\ MaxFaults \in [Stores -> Nat] /\ FaultCost \in [Stores -> Nat]

VARIABLES
    store,     \* how checkpoints are stored
    log,       \* the entries
    files,     \* the checkpoint files: size -> {its checkpoint}, {} if torn
    prod,      \* what each producer is doing
    accepted,  \* external: the checkpoints each service accepted, in order
    emitted,   \* every checkpoint emitted, with the MMR it was emitted from
    faults     \* what the faults and overlaps so far count for

emissionVars == <<store, log, files, prod, accepted, emitted, faults>>

\* A fault or an overlap, while the bound lasts.
Fault(cost) == faults + cost <= MaxFaults[store] /\ faults' = faults + cost

Resting == [at |-> "idle", prev |-> {}, cp |-> {}, cose |-> {}, tried |-> {}]

EmissionInit ==
    /\ store \in Stores
    /\ log = <<>>
    /\ files = [n \in {} |-> {}]
    /\ prod = [p \in Producer |-> Resting]
    /\ accepted = [t \in Service |-> <<>>]
    /\ emitted = {}
    /\ faults = 0

-----------------------------------------------------------------------------
(***************************************************************************)
(* The log and what is stored of its checkpoints.                          *)
(***************************************************************************)
AppendRecord(id) ==
    /\ Len(log) < MaxLog
    /\ log' = Append(log, RecordEntry(id))
    /\ UNCHANGED <<store, files, prod, accepted, emitted, faults>>

\* load_latest_checkpoint: the file of the largest size, whatever it holds.
\* In the log, the last stamp.
Newest ==
    IF store = "directory"
    THEN IF DOMAIN files = {} THEN {} ELSE files[Max(DOMAIN files)]
    ELSE IF StampsOf(log) = {} THEN {} ELSE {CheckpointIn(log, Max(StampsOf(log)))}

\* It raises for a file that holds no checkpoint.
NewestReadable == store = "directory" /\ DOMAIN files # {} => Newest # {}

\* due_for_checkpoint; aged says that the oldest entry is cadence_seconds old.
Due(since, aged) == since > 0 /\ (since >= CadenceEntries \/ aged)

Since(prev) ==
    Cardinality({i \in DOMAIN log :
        log[i].kind = "record" /\ \A q \in prev : i > LeafCount(q.mmr_size)})

Load(p) ==
    /\ prod[p].at = "idle"
    /\ NewestReadable
    /\ \E aged \in BOOLEAN : Due(Since(Newest), aged)
    /\ prod' = [prod EXCEPT ![p] = [Resting EXCEPT !.at = "loaded", !.prev = Newest]]
    /\ Fault(IF \A q \in Producer : prod[q].at = "idle" THEN 0 ELSE 1)
    /\ UNCHANGED <<store, log, files, accepted, emitted>>

\* emit_checkpoint, from an MMR of the whole log.
Emit(p) ==
    /\ prod[p].at = "loaded"
    /\ LET nodes == NodesOf(log)
           cp == EmitCheckpoint(nodes, prod[p].prev, Cardinality(emitted) + 1)
       IN  \/ /\ Emittable(nodes, prod[p].prev)
              /\ Cardinality(emitted) < MaxEmits
              /\ emitted' = emitted \cup {[cp |-> cp, nodes |-> nodes]}
              /\ prod' = [prod EXCEPT ![p].at = "emitted", ![p].cp = {cp}]
           \/ /\ ~Emittable(nodes, prod[p].prev)
              /\ prod' = [prod EXCEPT ![p] = Resting]
              /\ UNCHANGED emitted
    /\ UNCHANGED <<store, log, files, accepted, faults>>

TheCheckpoint(p) == CHOOSE cp \in prod[p].cp : TRUE

-----------------------------------------------------------------------------
(***************************************************************************)
(* Registration.                                                           *)
(***************************************************************************)

\* The statement of a checkpoint, from an MMR that may have grown since.
WireForm(nodes, cp) ==
    StatementOf(cp, Peaked(nodes, cp.mmr_size),
                IF cp.prev_size = 0 THEN <<>> ELSE Peaked(nodes, cp.prev_size),
                ProofFor(nodes, cp))

\* checkpoint_to_cose; a signer without sign_cose_statement raises, and the
\* checkpoint goes on without a wire form.
Encode(p) ==
    /\ store = "stamps" /\ prod[p].at = "emitted"
    /\ \/ /\ LET nodes == NodesOf(log)
                 cp == TheCheckpoint(p)
             IN  /\ Encodable(cp, Peaked(nodes, cp.mmr_size),
                              IF cp.prev_size = 0 THEN <<>> ELSE Peaked(nodes, cp.prev_size),
                              ProofFor(nodes, cp))
                 /\ prod' = [prod EXCEPT ![p].at = "encoded", ![p].cose = {WireForm(nodes, cp)}]
          /\ UNCHANGED faults
       \/ /\ prod' = [prod EXCEPT ![p].at = "encoded"]
          /\ Fault(FaultCost[store])
    /\ UNCHANGED <<store, log, files, accepted, emitted>>

\* What t answers is a receipt that becomes a stamp of the checkpoint, or the
\* answer is lost.
Accepted(p, t) ==
    /\ accepted' = [accepted EXCEPT ![t] = Append(@, TheCheckpoint(p))]
    /\ \/ /\ prod' = [prod EXCEPT ![p].tried = @ \cup {t},
                           ![p].cp = {[TheCheckpoint(p) EXCEPT
                                         !.witnesses = Append(@, WitnessStamp(TheCheckpoint(p), t))]}]
          /\ UNCHANGED faults
       \/ /\ prod' = [prod EXCEPT ![p].tried = @ \cup {t}]
          /\ Fault(FaultCost[store])

\* External: the /checkpoints route verifies the statement and that it
\* continues the last one it accepted of this log.
Continuous(t, s) ==
    /\ StatementVerifies(s)
    /\ accepted[t] # <<>> =>
          /\ Decoded(s).prev_size = Last(accepted[t]).mmr_size
          /\ Decoded(s).prev_root = Last(accepted[t]).root

\* register_checkpoint of checkpoint/emit.py; an error status, the continuity
\* refusal (409) or another, raises.
Register(p, t) ==
    /\ store = "stamps" /\ prod[p].at = "encoded" /\ t \notin prod[p].tried
    /\ \E s \in prod[p].cose :
          \/ Continuous(t, s) /\ Accepted(p, t)
          \/ /\ ~Continuous(t, s)
             /\ prod' = [prod EXCEPT ![p].tried = @ \cup {t}]
             /\ UNCHANGED <<accepted, faults>>
    /\ UNCHANGED <<store, log, files, emitted>>

\* register_checkpoint of ledger/checkpoint.py: the digest route takes any
\* digest.
RegisterDigest(p, t) ==
    /\ store = "directory" /\ prod[p].at = "emitted" /\ t \notin prod[p].tried
    /\ Accepted(p, t)
    /\ UNCHANGED <<store, log, files, emitted>>

\* register_checkpoint_stub: nothing is sent, t is a label.  The caller takes
\* one stamp at most, before it asks a service.
RegisterStub(p, t) ==
    /\ store = "stamps" /\ prod[p].at = "encoded"
    /\ prod[p].tried = {} /\ TheCheckpoint(p).witnesses = <<>>
    /\ prod' = [prod EXCEPT ![p].cp = {[TheCheckpoint(p) EXCEPT
                                 !.witnesses = Append(@, StubStamp(TheCheckpoint(p), t))]}]
    /\ UNCHANGED <<store, log, files, accepted, emitted, faults>>

-----------------------------------------------------------------------------
(***************************************************************************)
(* Storing.                                                                *)
(***************************************************************************)

\* The stamp entry; its leaf covers the checkpoint as persisted.
PersistStamp(p) ==
    /\ store = "stamps" /\ prod[p].at = "encoded"
    /\ log' = Append(log, StampEntry(TheCheckpoint(p), prod[p].cose))
    /\ prod' = [prod EXCEPT ![p] = Resting]
    /\ UNCHANGED <<store, files, accepted, emitted, faults>>

\* save_checkpoint: write_text truncates the file and then writes it.
SaveBegin(p) ==
    /\ store = "directory" /\ prod[p].at = "emitted"
    /\ files' = [n \in DOMAIN files \cup {TheCheckpoint(p).mmr_size} |->
                    IF n = TheCheckpoint(p).mmr_size THEN {} ELSE files[n]]
    /\ prod' = [prod EXCEPT ![p].at = "saving"]
    /\ UNCHANGED <<store, log, accepted, emitted, faults>>

SaveEnd(p) ==
    /\ prod[p].at = "saving"
    /\ files' = [n \in DOMAIN files \cup {TheCheckpoint(p).mmr_size} |->
                    IF n = TheCheckpoint(p).mmr_size THEN prod[p].cp ELSE files[n]]
    /\ prod' = [prod EXCEPT ![p].at = "emitted"]
    /\ UNCHANGED <<store, log, accepted, emitted, faults>>

\* The caller has saved the checkpoint and is done with it.
Finish(p) ==
    /\ store = "directory" /\ prod[p].at = "emitted"
    /\ TheCheckpoint(p).mmr_size \in DOMAIN files
    /\ prod' = [prod EXCEPT ![p] = Resting]
    /\ UNCHANGED <<store, log, files, accepted, emitted, faults>>

-----------------------------------------------------------------------------
(***************************************************************************)
(* Faults.                                                                 *)
(***************************************************************************)
CrashProducer(p) ==
    /\ prod[p].at # "idle"
    /\ Fault(FaultCost[store])
    /\ prod' = [prod EXCEPT ![p] = Resting]
    /\ UNCHANGED <<store, log, files, accepted, emitted>>

\* External: the log is restored from an older copy while nothing runs.
RestoreLog ==
    /\ \A p \in Producer : prod[p].at = "idle"
    /\ Fault(FaultCost[store])
    /\ \E n \in 0..(Len(log) - 1) : log' = SubSeq(log, 1, n)
    /\ UNCHANGED <<store, files, prod, accepted, emitted>>

\* External: an operator deletes a file that holds no checkpoint and that no
\* producer is writing.
RemoveTorn ==
    /\ \A p \in Producer : prod[p].at # "saving"
    /\ \E n \in DOMAIN files :
          /\ files[n] = {}
          /\ files' = [k \in DOMAIN files \ {n} |-> files[k]]
    /\ UNCHANGED <<store, log, prod, accepted, emitted, faults>>

-----------------------------------------------------------------------------
EmissionNext ==
    \/ \E id \in RecordId : AppendRecord(id)
    \/ \E p \in Producer :
          \/ Load(p) \/ Emit(p) \/ Encode(p) \/ PersistStamp(p)
          \/ SaveBegin(p) \/ SaveEnd(p) \/ Finish(p) \/ CrashProducer(p)
          \/ \E t \in Service : Register(p, t) \/ RegisterDigest(p, t) \/ RegisterStub(p, t)
    \/ RestoreLog
    \/ RemoveTorn

EmissionSpec == EmissionInit /\ [][EmissionNext]_emissionVars

-----------------------------------------------------------------------------
(***************************************************************************)
(* Properties.                                                             *)
(***************************************************************************)

\* The checkpoints that can be read back.
Stored == UNION {files[n] : n \in DOMAIN files}
             \cup UNION {log[i].checkpoint : i \in DOMAIN log}

\* The root a checkpoint names, and the one it continues, are those of nodes.
PrefixOf(cp, nodes) ==
    /\ cp.mmr_size <= Len(nodes) /\ RootAt(nodes, cp.mmr_size) = cp.root
    /\ cp.prev_size > 0 => RootAt(nodes, cp.prev_size) = cp.prev_root

(***************************************************************************)
(* All checkpoints that are stored describe one history, each the prefix   *)
(* of the longest, although the log was cut back to an older copy and grew *)
(* differently or two producers raced: emit_checkpoint refuses to continue *)
(* a checkpoint its MMR does not extend.  A file that holds no checkpoint, *)
(* torn by a crash, is no part of what is stored.                          *)
(***************************************************************************)
OneHistory ==
    \A a, b \in Stored :
       a # b /\ a.mmr_size <= b.mmr_size =>
          \E e \in emitted : PrefixOf(b, e.nodes) /\ PrefixOf(a, e.nodes)

\* A stub's stamp verifies for nobody; on its own it is fatal to a bundle.
StubOnly(cp, anchors) ==
    /\ \E i \in DOMAIN cp.witnesses : cp.witnesses[i].is_stub
    /\ "witnessed" \notin VerdictsOf(cp, anchors)

\* Two producers stored checkpoints of one size that continue different ones:
\* bundle() then joins the first record with the last wire form.
Ambiguous(cp) ==
    \E i \in StampsOfSize(log, cp.mmr_size) : CheckpointIn(log, i).prev_size # cp.prev_size

(***************************************************************************)
(* Every record of the log that a stored checkpoint covers has a bundle,   *)
(* the bundle verifies offline, and it brackets the record: the prior      *)
(* checkpoint does not hold it yet.  Two exceptions the code makes: two    *)
(* stored checkpoints of one size, and a stub's stamp with none beside it  *)
(* that is witnessed under a key the verifier trusts.                      *)
(***************************************************************************)
BundlesHold ==
    \A id \in RecordId :
       (Matches(log, id) # {} /\ CoveringStamps(log, Min(Matches(log, id))) # {}) =>
          /\ Bundleable(log, id)
          /\ LET b == BundleOf(log, id)
             IN  /\ \A q \in b.prior : LeafCount(q.mmr_size) < b.seq
                 /\ Ambiguous(b.checkpoint) \/ BundleIntact(b)
                 /\ \A anchors \in SUBSET Service :
                       StubOnly(b.checkpoint, anchors) \/ StampsAcceptable(b.checkpoint, anchors)

\* What a bundle says.
Truthful(b) ==
    /\ log[b.seq].id = b.id
    /\ \E cp \in Stored : CheckpointDigest(cp) = CheckpointDigest(b.checkpoint)
    /\ \A q \in b.prior : q \in Stored /\ q.mmr_size = b.checkpoint.prev_size
    /\ \A s \in b.cose : Decoded(s).mmr_size = b.checkpoint.mmr_size
                            /\ Decoded(s).prev_size = b.checkpoint.prev_size

\* The services that accepted the checkpoint with this digest.
SeenBy(cp) ==
    {t \in Service : \E i \in DOMAIN accepted[t] :
        CheckpointDigest(accepted[t][i]) = CheckpointDigest(cp)}

\* The grades and Receipts of a checkpoint are of services that accepted it.
GradedTruly(cp) ==
    /\ \A anchors \in SUBSET Service :
          "witnessed" \in VerdictsOf(cp, anchors) => SeenBy(cp) \cap anchors # {}
    /\ \A t \in Service : Grade(cp, {t}) = "witnessed" => t \in SeenBy(cp)
    /\ \A i \in DOMAIN cp.witnesses :
          LET w == cp.witnesses[i]
          IN  ReceiptVerifies(w, {}) =>
                 \E a \in Range(accepted[w.ts_url]) : CheckpointDigest(a) = w.entry_hash

(***************************************************************************)
(* A bundle that is intact is true, also when one of its parts was taken   *)
(* from the bundle of another record, as a careless assembly would: the    *)
(* record is the seq-th entry, the checkpoints are stored ones, the wire   *)
(* form is of this checkpoint.  And a checkpoint grades witnessed only if  *)
(* a service with a known key did accept it, also with the stamps of       *)
(* another; a Receipt that verifies under the key its service publishes is *)
(* of a checkpoint that service accepted.                                  *)
(***************************************************************************)
BundlesSound ==
    LET held == {BundleOf(log, id) : id \in {i \in RecordId : Bundleable(log, i)}}
    IN  \A b, c \in held :
           /\ \A f \in DOMAIN b :
                 LET mixed == [b EXCEPT ![f] = c[f]]
                 IN  Truthful(mixed) \/ ~BundleIntact(mixed)
           /\ GradedTruly([b.checkpoint EXCEPT !.witnesses = c.checkpoint.witnesses])

\* The log of a, continued with the leaves b has behind a's size.
Grafted(a, b) ==
    LET old == LeafCount(a.cp.mmr_size)
        tail == [i \in 1..(LeafCount(b.cp.mmr_size) - old) |-> Node(b.nodes, LeafPos(old + i - 1))]
    IN  FoldLeft(AddLeaf, a.nodes, tail)

\* The proofs from a's size to b's that can be put together from either log:
\* the old peaks, the paths and the new peaks of the one or the other.
Offered(a, b) ==
    LET honest == {ConsistencyProof(nodes, a.cp.mmr_size, b.cp.mmr_size) :
                      nodes \in {Grafted(a, b), b.nodes}}
    IN  {[x[1] EXCEPT !.witness = x[2].witness, !.newPeaks = x[3].newPeaks] :
            x \in honest \X honest \X honest}

\* Whether b's statement can be made to say that it continues a.
ContinuesExactly(a, b) ==
    LET claim == [b.cp EXCEPT !.prev_size = a.cp.mmr_size, !.prev_root = a.cp.root]
        extends == RootAt(b.nodes, a.cp.mmr_size) = a.cp.root
        Convinces(proof) ==
            StatementVerifies(StatementOf(claim, Peaked(b.nodes, b.cp.mmr_size),
                                          Peaked(a.nodes, a.cp.mmr_size), proof))
    IN  /\ IF extends THEN Convinces(ProofFor(b.nodes, claim))
           ELSE \A proof \in Offered(a, b) : ~Convinces({proof})
        /\ CheckpointConsistent(a.cp, claim, b.nodes) <=> extends

(***************************************************************************)
(* Of any two checkpoints ever emitted (the pairs an emission adds), a     *)
(* statement of the larger that claims to continue the smaller verifies    *)
(* with the signer's proof when the signer's log extends it, and with no   *)
(* proof when it does not: a rewritten tail cannot be passed off under     *)
(* copied prev fields, neither with its own proof, nor with one made on    *)
(* the old log, nor with one put together from both, since cose_wire.py    *)
(* takes prev_root from the statement's own commitment and not from the    *)
(* proof.  verify_checkpoint_consistency on the signer's nodes agrees.     *)
(***************************************************************************)
StatementsExact ==
    [][\A a, b \in emitted' :
          /\ Cardinality(emitted) + 1 \in {a.cp.timestamp, b.cp.timestamp}
          /\ a.cp.mmr_size < b.cp.mmr_size
          => ContinuesExactly(a, b)]_emissionVars
=============================================================================
