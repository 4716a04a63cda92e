------------------------------- MODULE MmrLog -------------------------------
(***************************************************************************)
(* MmrLedger (python/checkpoint/index.py): the MMR index of a log that     *)
(* other writers append to as well, with its node store                    *)
(* (python/checkpoint/store.py), and the proofs it gives.  The log is the  *)
(* sequence of the body digests of its records, in the order of seq.       *)
(***************************************************************************)
EXTENDS MmrCore

CONSTANTS
    Digest,     \* body digests
    MaxRecords  \* bound: records in the log

ASSUME MmrAssumption == MaxRecords \in Nat

VARIABLES
    records,    \* the wrapped log
    digests,    \* _body_digests
    nodes       \* _nodes

mmrVars == <<records, digests, nodes>>

MmrInit == records = <<>> /\ digests = <<>> /\ nodes = <<>>

\* _index_record raises for any other record.
Expected(seq) == seq = Len(digests) + 1

\* _index_record of the record that was just appended to the log.
IndexRecord(d) ==
    /\ digests' = Append(digests, d)
    /\ nodes' = AddLeaf(nodes, LeafHash(d))

\* Another writer appends to the log.
LogAppend(d) ==
    /\ Len(records) < MaxRecords
    /\ records' = Append(records, d)
    /\ UNCHANGED <<digests, nodes>>

\* append: the record is stored, and indexed unless it is out of order.
MmrAppend(d) ==
    /\ Len(records) < MaxRecords
    /\ records' = Append(records, d)
    /\ \/ Expected(Len(records')) /\ IndexRecord(d)
       \/ ~Expected(Len(records')) /\ UNCHANGED <<digests, nodes>>

\* sync: the records that are not indexed yet, in their order.
Sync ==
    /\ Len(digests) < Len(records)
    /\ digests' = digests \o SubSeq(records, Len(digests) + 1, Len(records))
    /\ nodes' = FoldLeft(AddLeaf, nodes,
                         [i \in 1..(Len(records) - Len(digests)) |->
                             LeafHash(records[Len(digests) + i])])
    /\ UNCHANGED records

\* A new instance on the same log: nothing of the index is stored.
Reopen ==
    /\ digests' = <<>> /\ nodes' = <<>>
    /\ UNCHANGED records

MmrNext ==
    \/ \E d \in Digest : LogAppend(d) \/ MmrAppend(d)
    \/ Sync
    \/ Reopen

MmrSpec == MmrInit /\ [][MmrNext]_mmrVars

-----------------------------------------------------------------------------
(***************************************************************************)
(* What the index answers: range_proof is against the MMR as it was when   *)
(* to_seq was appended.                                                    *)
(***************************************************************************)
Root(leaves) == RootAt(nodes, NodeCount(leaves))
SeqRangeProof(from, to) == RangeProof(nodes, from - 1, to - 1, NodeCount(to))

\* verify_range of the index.
VerifySeqRange(root, from, to, body, proof) ==
    /\ 1 <= from /\ from <= to
    /\ ValidSize(proof.size) /\ LeafCount(proof.size) = to
    /\ VerifyRange(root, proof.size, from - 1, to - 1, body, proof)

-----------------------------------------------------------------------------
(***************************************************************************)
(* The reference: perfect trees in post-order, one for each binary digit   *)
(* of the number of leaves, the largest first.                             *)
(***************************************************************************)
Tree[leaves \in Seq(Digest), start \in Nat] ==
    IF Len(leaves) = 1 THEN <<LeafHash(leaves[1])>>
    ELSE LET half == Len(leaves) \div 2
             l == Tree[SubSeq(leaves, 1, half), start]
             r == Tree[SubSeq(leaves, half + 1, Len(leaves)), start + Len(l)]
         IN  l \o r \o <<InteriorHash(Last(l), Last(r), start + 2 * Len(l))>>

Forest[leaves \in Seq(Digest), start \in Nat] ==
    IF leaves = <<>> THEN <<>>
    ELSE LET first == 2^Max({h \in 0..Len(leaves) : 2^h <= Len(leaves)})
             t == Tree[SubSeq(leaves, 1, first), start]
         IN  t \o Forest[SubSeq(leaves, first + 1, Len(leaves)), start + Len(t)]

\* The node store that holds other digests.
Nodes(leaves) == Forest[leaves, 0]

-----------------------------------------------------------------------------
(***************************************************************************)
(* Correctness.                                                            *)
(***************************************************************************)

\* Whatever appends, other writers, catch-ups and restarts went before, the
\* index holds a prefix of the log, and add_leaf's node array is that of the
\* reference for these leaves.
NodesAreForest ==
    /\ IsPrefix(digests, records)
    /\ nodes = Forest[digests, 0]

Counts == 0..Len(digests)

\* The sizes that peaks accepts are exactly the node counts of whole numbers
\* of leaves, and leaf_count, node_count and leaf_index_to_pos agree on them.
SizesExact ==
    /\ \A size \in 0..Len(nodes) :
          ValidSize(size) <=> \E n \in Counts : NodeCount(n) = size
    /\ \A n \in Counts : LeafCount(NodeCount(n)) = n
    /\ \A n \in 1..Len(digests) : Node(nodes, LeafPos(n - 1)) = LeafHash(digests[n])

\* An inclusion proof verifies for its leaf, and a proof that is given for
\* another leaf or size is accepted only if the digest is the one of the leaf
\* it is given for.  Root and size come from one checkpoint.
InclusionExact ==
    \A n \in Counts : \A i \in 0..(n - 1) :
        LET proof == InclusionProof(nodes, i, NodeCount(n))
        IN  /\ VerifyInclusion(Root(n), NodeCount(n), i, digests[i + 1], proof)
            /\ \A m \in Counts, d \in Digest : \A j \in 0..(m - 1) :
                  VerifyInclusion(Root(m), NodeCount(m), j, d,
                                  [proof EXCEPT !.size = NodeCount(m), !.index = j])
                     => d = digests[j + 1]

\* The digests with one of them replaced.
Altered(n) == {[SubSeq(digests, 1, n) EXCEPT ![k] = d] : k \in 1..n, d \in Digest}
                 \ {SubSeq(digests, 1, n)}

\* A consistency proof verifies between any two sizes of the index.  Between
\* the index and a log that differs from it in one earlier record, as the
\* older or as the newer of the two, neither log's proof is accepted.
ConsistencyExact ==
    \A b \in Counts : \A a \in 0..b :
        LET sa == NodeCount(a)
            sb == NodeCount(b)
            proof == ConsistencyProof(nodes, sa, sb)
        IN  /\ VerifyConsistency(Root(a), sa, Root(b), sb, proof)
            /\ \A other \in Altered(a) :
                  LET new == Nodes(other \o SubSeq(digests, a + 1, b))
                      oldPeaks == NodesAt(new, Peaks(sa))
                  IN  /\ ~VerifyConsistency(RootAt(new, sa), sa, Root(b), sb,
                                            [proof EXCEPT !.oldPeaks = oldPeaks])
                      /\ ~VerifyConsistency(Root(a), sa, RootAt(new, sb), sb,
                                            [ConsistencyProof(new, sa, sb)
                                                EXCEPT !.oldPeaks = proof.oldPeaks])

\* A range proof verifies with the digests of its records, and with no others
\* in number or value, nor with a witness missing or left over.
RangeExact ==
    \A to \in Counts \ {0} : \A from \in 1..to :
        LET proof == SeqRangeProof(from, to)
            body == SubSeq(digests, from, to)
            Accepts(ds, w) ==
                VerifySeqRange(Root(to), from, to, ds, [proof EXCEPT !.witness = w])
        IN  /\ Accepts(body, proof.witness)
            /\ \A other \in Altered(to) :
                  SubSeq(other, from, to) # body =>
                      ~Accepts(SubSeq(other, from, to), proof.witness)
            /\ ~Accepts(Tail(body), proof.witness)
            /\ ~Accepts(body, Append(proof.witness, LeafHash(digests[to])))
            /\ proof.witness # <<>> => ~Accepts(body, Front(proof.witness))
=============================================================================
