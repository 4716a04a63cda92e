------------------------ MODULE CheckpointStatements ------------------------
(***************************************************************************)
(* What a checkpoint says and what can be checked of it offline: signed    *)
(* records and witness stamps (python/checkpoint/emit.py), the COSE        *)
(* statement of a checkpoint (python/checkpoint/cose_wire.py) and the      *)
(* evidence bundle of one record (python/checkpoint/bundle.py).            *)
(*                                                                         *)
(* A digest is the value it was computed from and a signature names its    *)
(* key and what it covers.  An optional part is a set of at most one       *)
(* element.  CBOR, JSON, hexadecimal and the types of decoded fields are   *)
(* left out; a conversion keeps every field the verifiers look at.         *)
(***************************************************************************)
EXTENDS MmrCore

CONSTANTS
    LogId,   \* the log_id of the producer's configuration
    Signer   \* the key_id of its checkpoint signer

\* prev_root of the first checkpoint, the empty string.
NoRoot == <<"">>

Signed(key, body) == [key |-> key, body |-> body]

-----------------------------------------------------------------------------
(***************************************************************************)
(* CheckpointRecord.                                                       *)
(***************************************************************************)
SigningBody(cp) ==
    [log_id |-> cp.log_id, mmr_size |-> cp.mmr_size, root |-> cp.root,
     prev_size |-> cp.prev_size, prev_root |-> cp.prev_root,
     key_id |-> cp.key_id, timestamp |-> cp.timestamp]

\* What the signature covers and a witness stamps.
CheckpointDigest(cp) == <<"digest", SigningBody(cp)>>

\* What the leaf of the checkpoint's own entry covers: the signature and the
\* witness stamps too.
EntryDigest(cp) == <<"entry", cp>>

\* Mutant: the root at the previous size is not compared.
EmittableBySize(nodes, prev) ==
    /\ nodes # <<>>
    /\ \A q \in prev : q.log_id = LogId /\ Len(nodes) > q.mmr_size

\* emit_checkpoint raises CheckpointError or RollbackError otherwise.
Emittable(nodes, prev) ==
    /\ nodes # <<>>
    /\ \A q \in prev :
          /\ q.log_id = LogId
          /\ Len(nodes) > q.mmr_size
          /\ RootAt(nodes, q.mmr_size) = q.root

EmitCheckpoint(nodes, prev, time) ==
    LET unsigned == [log_id |-> LogId,
                     mmr_size |-> Len(nodes),
                     root |-> RootAt(nodes, Len(nodes)),
                     prev_size |-> IF prev = {} THEN 0 ELSE (CHOOSE q \in prev : TRUE).mmr_size,
                     prev_root |-> IF prev = {} THEN NoRoot ELSE (CHOOSE q \in prev : TRUE).root,
                     key_id |-> Signer,
                     timestamp |-> time,
                     signature |-> {},
                     witnesses |-> <<>>]
    IN  [unsigned EXCEPT !.signature = {Signed(Signer, SigningBody(unsigned))}]

\* verify_checkpoint_signature_offline: the key is read from the record.
SignatureVerifies(cp) == cp.signature = {Signed(cp.key_id, SigningBody(cp))}

\* verify_checkpoint_consistency; the root of prev itself is not compared.
CheckpointConsistent(prev, current, nodes) ==
    /\ current.log_id = prev.log_id
    /\ current.prev_size = prev.mmr_size
    /\ current.mmr_size > prev.mmr_size
    /\ RootAt(nodes, prev.mmr_size) = current.prev_root

-----------------------------------------------------------------------------
(***************************************************************************)
(* Witness stamps.  A Receipt of a Transparency Service is its signature   *)
(* over the entry hash; a stub's placeholder is no Receipt.                *)
(***************************************************************************)
WitnessStamp(cp, ts) ==
    [ts_url |-> ts, entry_hash |-> CheckpointDigest(cp),
     receipt |-> {Signed(ts, CheckpointDigest(cp))}, is_stub |-> FALSE]

StubStamp(cp, ts) ==
    [ts_url |-> ts, entry_hash |-> CheckpointDigest(cp), receipt |-> {}, is_stub |-> TRUE]

\* Mutant: the stamp need not be bound to this checkpoint.
StampVerdictUnbound(cp, w, pin) ==
    IF \A r \in w.receipt : r.body # w.entry_hash THEN "invalid"
    ELSE IF pin = {} THEN "unverified"
    ELSE IF \A r \in w.receipt : r.key \in pin THEN "witnessed"
    ELSE "invalid"

\* verify_witness_stamp_tristate; pin holds the witness's key if it is known.
StampVerdict(cp, w, pin) ==
    IF w.entry_hash # CheckpointDigest(cp) THEN "invalid"
    ELSE IF \A r \in w.receipt : r.body # w.entry_hash THEN "invalid"
    ELSE IF pin = {} THEN "unverified"
    ELSE IF \A r \in w.receipt : r.key \in pin THEN "witnessed"
    ELSE "invalid"

\* verify_witness_stamp_offline
StampVerifies(cp, w, pin) == StampVerdict(cp, w, pin) = "witnessed"

\* verify_receipt_offline: without a pinned key, the one the service publishes.
ReceiptVerifies(w, pin) ==
    LET keys == IF pin = {} THEN {w.ts_url} ELSE pin
    IN  \E r \in w.receipt : r.body = w.entry_hash /\ r.key \in keys

\* CheckpointRecord.grade, under the one key its caller has pinned.
Grade(cp, pin) ==
    IF \E i \in DOMAIN cp.witnesses :
          ~cp.witnesses[i].is_stub /\ StampVerifies(cp, cp.witnesses[i], pin)
    THEN "witnessed" ELSE "self-attested"

-----------------------------------------------------------------------------
(***************************************************************************)
(* The COSE statement of a checkpoint.                                     *)
(***************************************************************************)

\* encode_checkpoint_claims and checkpoint_to_cose raise otherwise: the peaks
\* must bag to the roots of the record, and a prior needs its proof.
Encodable(cp, peaks, prevPeaks, proof) ==
    /\ (cp.prev_size > 0) <=> (proof # {})
    /\ \A p \in proof : p.sizeA = cp.prev_size /\ p.sizeB = cp.mmr_size
    /\ RootFromPeaks(peaks) = cp.root
    /\ cp.prev_size > 0 => RootFromPeaks(prevPeaks) = cp.prev_root

ClaimsOf(cp, peaks, prevPeaks, proof) ==
    [log_size |-> cp.mmr_size, commitment |-> peaks,
     prev_size |-> cp.prev_size,
     prev_commitment |-> IF cp.prev_size > 0 THEN {prevPeaks} ELSE {},
     issued_at |-> cp.timestamp, proof |-> proof]

\* A COSE_Sign1 signature covers the protected header and the payload.
ToBeSigned(s) == <<s.kid, s.issuer, s.subject, s.claims>>

StatementOf(cp, peaks, prevPeaks, proof) ==
    LET unsigned == [kid |-> Signer, issuer |-> cp.log_id,
                     subject |-> <<cp.log_id, cp.mmr_size>>,
                     claims |-> ClaimsOf(cp, peaks, prevPeaks, proof), signature |-> {}]
    IN  [unsigned EXCEPT !.signature = {Signed(Signer, ToBeSigned(unsigned))}]

\* What the producer passes to them, from its MMR.
Peaked(nodes, size) == NodesAt(nodes, Peaks(size))
ProofFor(nodes, cp) ==
    IF cp.prev_size = 0 THEN {} ELSE {ConsistencyProof(nodes, cp.prev_size, cp.mmr_size)}

\* _decode_claims: the roots are derived from the commitments.
Decoded(s) ==
    [log_id |-> s.issuer, mmr_size |-> s.claims.log_size,
     root |-> RootFromPeaks(s.claims.commitment),
     prev_size |-> s.claims.prev_size,
     prev_root |-> IF s.claims.prev_commitment = {} THEN NoRoot
                   ELSE RootFromPeaks(CHOOSE c \in s.claims.prev_commitment : TRUE),
     key_id |-> s.kid]

\* _decode_claims raises otherwise.
Decodable(s) ==
    /\ s.subject = <<s.issuer, s.claims.log_size>>
    /\ \A p \in s.claims.proof : p.sizeA = s.claims.prev_size /\ p.sizeB = s.claims.log_size

\* Mutant: the old root is the one the proof brings along.
StatementVerifiesByProof(s) ==
    /\ s.signature = {Signed(s.kid, ToBeSigned(s))}
    /\ Decodable(s)
    /\ s.claims.proof = {} => s.claims.prev_size = 0
    /\ \A p \in s.claims.proof :
          VerifyConsistency(RootFromPeaks(p.oldPeaks), s.claims.prev_size,
                            Decoded(s).root, s.claims.log_size, p)

\* verify_checkpoint_cose_offline
StatementVerifies(s) ==
    /\ s.signature = {Signed(s.kid, ToBeSigned(s))}
    /\ Decodable(s)
    /\ s.claims.proof = {} => s.claims.prev_size = 0
    /\ \A p \in s.claims.proof :
          VerifyConsistency(Decoded(s).prev_root, s.claims.prev_size,
                            Decoded(s).root, s.claims.log_size, p)

-----------------------------------------------------------------------------
(***************************************************************************)
(* The log as bundle() reads it: content records and checkpoint stamps, in *)
(* append order, all of them leaves of the MMR.                            *)
(***************************************************************************)
RecordEntry(id) == [kind |-> "record", id |-> id, checkpoint |-> {}, cose |-> {}]
StampEntry(cp, cose) ==
    [kind |-> "checkpoint_stamp", id |-> EntryDigest(cp), checkpoint |-> {cp}, cose |-> cose]

AddEntry(nodes, e) == AddLeaf(nodes, LeafHash(e.id))
NodesOf(entries) == FoldLeft(AddEntry, <<>>, entries)

StampsOf(entries) == {i \in DOMAIN entries : entries[i].kind = "checkpoint_stamp"}
CheckpointIn(entries, i) == CHOOSE cp \in entries[i].checkpoint : TRUE

\* _find_record: the first exact match; prefixes are not modelled.
Matches(entries, id) == {i \in DOMAIN entries : entries[i].kind = "record" /\ entries[i].id = id}

\* The stamps whose checkpoint covers the seq-th entry, and those of a size.
CoveringStamps(entries, seq) ==
    {i \in StampsOf(entries) : LeafCount(CheckpointIn(entries, i).mmr_size) >= seq}
StampsOfSize(entries, size) ==
    {i \in StampsOf(entries) : CheckpointIn(entries, i).mmr_size = size}

\* The wire form kept for a size: checkpoint_cose_by_size, where a later
\* stamp of that size replaces an earlier one.
CoseOfSize(entries, size) ==
    LET with == {i \in StampsOfSize(entries, size) : entries[i].cose # {}}
    IN  IF with = {} THEN {} ELSE entries[Max(with)].cose

\* Mutant: the prior is the stamp written before the covering one.
PriorStampBefore(entries, i) == {j \in StampsOf(entries) : j < i}

\* The stamps that can be the prior of the i-th entry, a stamp with one.
PriorStamps(entries, i) == StampsOfSize(entries, CheckpointIn(entries, i).prev_size)

\* bundle raises BundleError otherwise.
Bundleable(entries, id) ==
    /\ Matches(entries, id) # {}
    /\ LET stamps == CoveringStamps(entries, Min(Matches(entries, id)))
           covering == CheckpointIn(entries, Min(stamps))
       IN  /\ stamps # {}
           /\ covering.prev_size > 0 => PriorStamps(entries, Min(stamps)) # {}
           /\ LeafCount(covering.mmr_size) <= Len(entries)

BundleOf(entries, id) ==
    LET seq == Min(Matches(entries, id))
        i == Min(CoveringStamps(entries, seq))
        covering == CheckpointIn(entries, i)
        prior == IF covering.prev_size = 0 THEN {}
                 ELSE {CheckpointIn(entries, Min(PriorStamps(entries, i)))}
        nodes == NodesOf(SubSeq(entries, 1, LeafCount(covering.mmr_size)))
    IN  [id |-> id, seq |-> seq, checkpoint |-> covering, prior |-> prior,
         inclusion |-> InclusionProof(nodes, seq - 1, covering.mmr_size),
         consistency |-> {ConsistencyProof(nodes, q.mmr_size, covering.mmr_size) : q \in prior},
         cose |-> CoseOfSize(entries, covering.mmr_size)]

-----------------------------------------------------------------------------
(***************************************************************************)
(* verify_bundle_log_integrity; anchors are the witnesses whose key the    *)
(* caller trusts.                                                          *)
(***************************************************************************)
PriorVerifies(b) ==
    IF b.prior = {} THEN b.checkpoint.prev_size = 0 /\ b.consistency = {}
    ELSE \A q \in b.prior :
            /\ SignatureVerifies(q)
            /\ b.checkpoint.prev_size = q.mmr_size
            /\ b.checkpoint.prev_root = q.root
            /\ \E p \in b.consistency :
                  VerifyConsistency(q.root, q.mmr_size, b.checkpoint.root,
                                    b.checkpoint.mmr_size, p)

CoseMatches(b) ==
    \A s \in b.cose :
       /\ StatementVerifies(s)
       /\ Decoded(s) = [f \in DOMAIN Decoded(s) |-> b.checkpoint[f]]

VerdictsOf(cp, anchors) ==
    {StampVerdict(cp, cp.witnesses[i], {cp.witnesses[i].ts_url} \cap anchors) :
        i \in DOMAIN cp.witnesses}

\* Any-of: an invalid stamp is fatal unless another one is witnessed.
StampsAcceptable(cp, anchors) ==
    "invalid" \in VerdictsOf(cp, anchors) => "witnessed" \in VerdictsOf(cp, anchors)

\* The bundle verifies if it is intact and its stamps are acceptable.
BundleIntact(b) ==
    /\ VerifyInclusion(b.checkpoint.root, b.checkpoint.mmr_size, b.seq - 1, b.id, b.inclusion)
    /\ SignatureVerifies(b.checkpoint)
    /\ PriorVerifies(b)
    /\ CoseMatches(b)
=============================================================================
