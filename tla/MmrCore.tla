------------------------------ MODULE MmrCore ------------------------------
(***************************************************************************)
(* The Merkle Mountain Range of python/checkpoint/core.py: the arithmetic  *)
(* of positions, add_leaf, and the inclusion, consistency and range proofs *)
(* with their verifiers.                                                   *)
(*                                                                         *)
(* Positions and leaf indexes start at 0, as in the code; the node at      *)
(* position p is nodes[p + 1].  A hash is the term it was computed from:   *)
(* sha256 has no collisions, and its inputs (33 bytes for a leaf, 72 for   *)
(* an interior node, 64 for two bagged peaks) are never confused.  Checks  *)
(* of Python types, versions and hexadecimal digits are left out.          *)
(***************************************************************************)
EXTENDS Integers, Sequences, FiniteSets, SequencesExt

LeafHash(digest) == <<"leaf", digest>>

InteriorHash(left, right, pos) == <<"interior", pos + 1, left, right>>

\* root_from_peaks: bagged from the right; the empty MMR has the zero root.
Bag(peak, acc) == <<"bag", acc, peak>>
RootFromPeaks(hashes) ==
    IF hashes = <<>> THEN <<"zero">> ELSE FoldRight(Bag, Front(hashes), Last(hashes))

-----------------------------------------------------------------------------
(***************************************************************************)
(* Positions.                                                              *)
(***************************************************************************)

\* The nodes of a perfect tree of height h.
TreeSize(h) == 2^(h + 1) - 1

\* height_at: the smallest tree that holds the position ends in it, or its
\* right subtree is a copy of its left one.
HeightAt[pos \in Nat] ==
    LET h == Min({n \in 0..pos : pos + 1 <= TreeSize(n)})
    IN  IF pos + 1 = TreeSize(h) THEN h ELSE HeightAt[pos - TreeSize(h - 1)]

PopCount[n \in Nat] == IF n = 0 THEN 0 ELSE (n % 2) + PopCount[n \div 2]
NodeCount(leaves) == 2 * leaves - PopCount[leaves]

\* The heights of the mountains of peaks(size), the largest that fits first.
Mountains[size \in Nat] ==
    IF size = 0 THEN <<>>
    ELSE LET h == Max({n \in 0..size : TreeSize(n) <= size})
         IN  <<h>> \o Mountains[size - TreeSize(h)]

\* Mutant: two mountains of one height are let through.
WeaklyDecreasing(size) ==
    \A i \in 2..Len(Mountains[size]) : Mountains[size][i] <= Mountains[size][i - 1]

\* peaks raises unless the heights decrease.
ValidSize(size) ==
    \A i \in 2..Len(Mountains[size]) : Mountains[size][i] < Mountains[size][i - 1]

PeakAfter(ps, h) == Append(ps, (IF ps = <<>> THEN 0 ELSE Last(ps) + 1) + TreeSize(h) - 1)
Peaks(size) == FoldLeft(PeakAfter, <<>>, Mountains[size])

AddLeaves(n, peak) == n + 2^HeightAt[peak]
LeafCount(size) == FoldLeft(AddLeaves, 0, Peaks(size))

\* leaf_index_to_pos
LeafPos(index) == NodeCount(index)

Node(nodes, pos) == nodes[pos + 1]
NodesAt(nodes, positions) == [i \in DOMAIN positions |-> Node(nodes, positions[i])]
RootAt(nodes, size) == RootFromPeaks(NodesAt(nodes, Peaks(size)))

-----------------------------------------------------------------------------
(***************************************************************************)
(* add_leaf.                                                               *)
(***************************************************************************)

\* Mutant: at most one parent is completed.
MergeOnce(pks) == IF pks # <<>> /\ HeightAt[Last(pks)] = 0 THEN 1 ELSE 0

\* How many peaks, from the right, the new leaf completes a parent with.
Merges(pks) ==
    Max({k \in 0..Len(pks) : \A i \in 1..k : HeightAt[pks[Len(pks) - i + 1]] = i - 1})

AddLeaf(nodes, leaf) ==
    LET pks == Peaks(Len(nodes))
        new[k \in Nat] ==
            IF k = 0 THEN <<leaf>>
            ELSE Append(new[k - 1],
                        InteriorHash(Node(nodes, pks[Len(pks) - k + 1]), Last(new[k - 1]),
                                     Len(nodes) + k))
    IN  nodes \o new[Merges(pks)]

-----------------------------------------------------------------------------
(***************************************************************************)
(* Paths.                                                                  *)
(***************************************************************************)

\* _find_containing_peak: the peaks whose mountain holds the position.
Containing(pos, pks) ==
    {i \in DOMAIN pks : pks[i] - TreeSize(HeightAt[pks[i]]) < pos /\ pos <= pks[i]}
ContainingPeak(pos, pks) == CHOOSE i \in Containing(pos, pks) : TRUE

\* _locate_path, bottom-up.
LocatePath(root, target) ==
    LET path[pos \in Nat, h \in Nat] ==
            LET left == pos - 2^h
                right == pos - 1
            IN  IF h = 0 \/ pos = target THEN <<>>
                ELSE IF target <= left
                     THEN Append(path[left, h - 1],
                                 [sibling |-> right, isRight |-> FALSE, parent |-> pos])
                     ELSE Append(path[right, h - 1],
                                 [sibling |-> left, isRight |-> TRUE, parent |-> pos])
    IN  path[root, HeightAt[root]]

PathTo(pos, pks) == LocatePath(pks[ContainingPeak(pos, pks)], pos)
Siblings(nodes, path) == [k \in DOMAIN path |-> Node(nodes, path[k].sibling)]

\* The verifiers' fold of a path with its witnesses.
Climb(start, path, witness) ==
    LET acc[k \in 0..Len(path)] ==
            IF k = 0 THEN start
            ELSE IF path[k].isRight
                 THEN InteriorHash(witness[k], acc[k - 1], path[k].parent)
                 ELSE InteriorHash(acc[k - 1], witness[k], path[k].parent)
    IN  acc[Len(path)]

-----------------------------------------------------------------------------
(***************************************************************************)
(* Inclusion.                                                              *)
(***************************************************************************)
InclusionProof(nodes, index, size) ==
    LET pks == Peaks(size)
        p == ContainingPeak(LeafPos(index), pks)
    IN  [size |-> size, index |-> index,
         witness |-> Siblings(nodes, PathTo(LeafPos(index), pks)),
         left |-> NodesAt(nodes, SubSeq(pks, 1, p - 1)),
         right |-> NodesAt(nodes, SubSeq(pks, p + 1, Len(pks)))]

\* Mutant: the shape of the proof is not compared with the claim.
VerifyInclusionUnshaped(root, size, index, digest, proof) ==
    /\ ValidSize(size)
    /\ index < LeafCount(size)
    /\ LET path == PathTo(LeafPos(index), Peaks(size))
           steps == SubSeq(path, 1, Min({Len(path), Len(proof.witness)}))
       IN  RootFromPeaks(proof.left \o <<Climb(LeafHash(digest), steps, proof.witness)>>
                         \o proof.right) = root

VerifyInclusion(root, size, index, digest, proof) ==
    /\ proof.size = size /\ proof.index = index
    /\ ValidSize(size)
    /\ index < LeafCount(size)
    /\ LET pks == Peaks(size)
           p == ContainingPeak(LeafPos(index), pks)
           path == PathTo(LeafPos(index), pks)
       IN  /\ Len(proof.witness) = Len(path)
           /\ Len(proof.left) = p - 1
           /\ Len(proof.right) = Len(pks) - p
           /\ RootFromPeaks(proof.left \o <<Climb(LeafHash(digest), path, proof.witness)>>
                            \o proof.right) = root

-----------------------------------------------------------------------------
(***************************************************************************)
(* Consistency.                                                            *)
(***************************************************************************)
ConsistencyProof(nodes, sizeA, sizeB) ==
    LET old == Peaks(sizeA)
    IN  [sizeA |-> sizeA, sizeB |-> sizeB,
         oldPeaks |-> NodesAt(nodes, old),
         witness |-> [i \in DOMAIN old |-> Siblings(nodes, PathTo(old[i], Peaks(sizeB)))],
         newPeaks |-> NodesAt(nodes, Peaks(sizeB))]

\* Mutant: only the first old peak is carried to a new one.
VerifyConsistencyFirst(rootA, sizeA, rootB, sizeB, proof) ==
    /\ proof.sizeA = sizeA /\ proof.sizeB = sizeB
    /\ sizeA <= sizeB
    /\ RootFromPeaks(proof.oldPeaks) = rootA
    /\ RootFromPeaks(proof.newPeaks) = rootB
    /\ LET path == PathTo(Peaks(sizeA)[1], Peaks(sizeB))
       IN  sizeA > 0 => Climb(proof.oldPeaks[1], path, proof.witness[1]) = proof.newPeaks[1]

VerifyConsistency(rootA, sizeA, rootB, sizeB, proof) ==
    /\ proof.sizeA = sizeA /\ proof.sizeB = sizeB
    /\ sizeA <= sizeB
    /\ ValidSize(sizeA) /\ ValidSize(sizeB)
    /\ LET old == Peaks(sizeA)
           new == Peaks(sizeB)
       IN  /\ Len(proof.oldPeaks) = Len(old)
           /\ Len(proof.newPeaks) = Len(new)
           /\ Len(proof.witness) = Len(old)
           /\ RootFromPeaks(proof.oldPeaks) = rootA
           /\ RootFromPeaks(proof.newPeaks) = rootB
           /\ \A i \in DOMAIN old :
                 /\ Containing(old[i], new) # {}
                 /\ Len(proof.witness[i]) = Len(PathTo(old[i], new))
                 /\ Climb(proof.oldPeaks[i], PathTo(old[i], new), proof.witness[i]) =
                       proof.newPeaks[ContainingPeak(old[i], new)]

-----------------------------------------------------------------------------
(***************************************************************************)
(* Ranges.                                                                 *)
(***************************************************************************)

\* The first leaf under each peak.
FirstLeaf(pks, i) == FoldLeft(AddLeaves, 0, SubSeq(pks, 1, i - 1))
Outside(first, h, from, to) == first + 2^h - 1 < from \/ first > to
Inside(first, h, from, to) == first >= from /\ first + 2^h - 1 <= to

\* _range_witnesses, for every peak: the largest subtrees outside the range.
RangeProof(nodes, from, to, size) ==
    LET pks == Peaks(size)
        walk[pos \in Nat, h \in Nat, first \in Nat] ==
            IF Outside(first, h, from, to) THEN <<Node(nodes, pos)>>
            ELSE IF Inside(first, h, from, to) THEN <<>>
            ELSE walk[pos - 2^h, h - 1, first] \o walk[pos - 1, h - 1, first + 2^(h - 1)]
    IN  [size |-> size, from |-> from, to |-> to,
         witness |-> FlattenSeq([i \in DOMAIN pks |->
                                    walk[pks[i], HeightAt[pks[i]], FirstLeaf(pks, i)]])]

\* _reconstruct_range_subtree: a subtree outside the range takes the next
\* witness; [hash, the next witness], or next = 0 when there is none left.
Rebuild(root, first0, from, to, digests, witness, next0) ==
    LET build[pos \in Nat, h \in Nat, first \in Nat, next \in Nat] ==
            IF next = 0 THEN [hash |-> <<"zero">>, next |-> 0]
            ELSE IF Outside(first, h, from, to)
            THEN IF next > Len(witness) THEN [hash |-> <<"zero">>, next |-> 0]
                 ELSE [hash |-> witness[next], next |-> next + 1]
            ELSE IF h = 0
            THEN [hash |-> LeafHash(digests[first - from + 1]), next |-> next]
            ELSE LET l == build[pos - 2^h, h - 1, first, next]
                     r == build[pos - 1, h - 1, first + 2^(h - 1), l.next]
                 IN  [hash |-> InteriorHash(l.hash, r.hash, pos), next |-> r.next]
    IN  build[root, HeightAt[root], first0, next0]

\* The rebuilt peaks: one result for each of them.
RebuiltPeaks(pks, from, to, digests, witness) ==
    LET peak[i \in 1..Len(pks)] ==
            Rebuild(pks[i], FirstLeaf(pks, i), from, to, digests, witness,
                    IF i = 1 THEN 1 ELSE peak[i - 1].next)
    IN  peak

\* Mutant: witnesses may be left over.
AllUsedUnchecked(rebuilt, witness) == Last(rebuilt).next # 0

\* Every witness is used, and none is missing.
AllUsed(rebuilt, witness) == Last(rebuilt).next = Len(witness) + 1

VerifyRange(root, size, from, to, digests, proof) ==
    /\ proof.size = size /\ proof.from = from /\ proof.to = to
    /\ 0 <= from /\ from <= to
    /\ Len(digests) = to - from + 1
    /\ ValidSize(size)
    /\ to < LeafCount(size)
    /\ LET rebuilt == RebuiltPeaks(Peaks(size), from, to, digests, proof.witness)
       IN  /\ AllUsed(rebuilt, proof.witness)
           /\ RootFromPeaks([i \in DOMAIN rebuilt |-> rebuilt[i].hash]) = root
=============================================================================
