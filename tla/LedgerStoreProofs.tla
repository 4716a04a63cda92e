------------------------ MODULE LedgerStoreProofs -------------------------
(***************************************************************************)
(* Proofs about LedgerStore, for any set of records, any threshold and any *)
(* scenario of failures, process ends, losses of power and moves: that the *)
(* segments hold the records in the order of their seqs, that a record     *)
(* which append returned keeps its seq, and that every indexed record is   *)
(* found.                                                                  *)
(***************************************************************************)
EXTENDS LedgerStore, NatRecursion, SequenceTheorems, FiniteSetTheorems

-----------------------------------------------------------------------------
(***************************************************************************)
(* Lines, rows and the flattened segments that reindex and                 *)
(* rebuild_lookup_index read.                                              *)
(***************************************************************************)
\* What the variables hold: a segment file,
FileType == [lines : Seq(Line), torn : BOOLEAN, synced : Nat]
\* a row of records.sqlite,
RowType == [id : Capsule, seg : Nat, off : Nat, signed : BOOLEAN]
\* a row of lookup.sqlite,
LookupRowType == [id : Capsule, seg : Nat, off : Nat]
\* and a record that append has admitted.
PendingType == [id : Capsule, seq : Nat, consequential : BOOLEAN, signed : BOOLEAN]

\* The row a line gives in a rebuilt index.
LineRow(s, o) == Row(files[s].lines[o], s, o, ReindexAuthenticity(files[s].lines[o]))

\* g holds the flattened lines of the first 0, 1, ... n segments.
Flattens(g, n) ==
    /\ g = [i \in 0..n |-> g[i]]
    /\ \A i \in 0..n : g[i] = IF i = 0 THEN <<>> ELSE g[i - 1] \o Lines(i)

\* The recursion over the segments has a solution, which Flattened is.
LEMMA FlattenedFlattens ==
    ASSUME Len(manifest.segs) \in Nat
    PROVE  Flattens(Flattened, Len(manifest.segs))
<1> DEFINE A == {n \in Nat : \E g : Flattens(g, n)}
<1>1. 0 \in A
  <2> DEFINE g == [i \in 0..0 |-> <<>>]
  <2>1. Flattens(g, 0)
    BY DEF Flattens
  <2> QED  BY <2>1
<1>2. ASSUME NEW n \in Nat, n \in A PROVE n + 1 \in A
  <2>1. PICK g : Flattens(g, n)
    BY <1>2
  <2> DEFINE h == [i \in 0..(n + 1) |-> IF i <= n THEN g[i] ELSE g[n] \o Lines(n + 1)]
  <2>2. \A i \in 0..n : g[i] = IF i = 0 THEN <<>> ELSE g[i - 1] \o Lines(i)
    BY <2>1 DEF Flattens
  <2>3. ASSUME NEW i \in 0..(n + 1)
        PROVE  h[i] = IF i = 0 THEN <<>> ELSE h[i - 1] \o Lines(i)
    <3>1. CASE i = 0
      BY <2>2, <3>1
    <3>2. CASE i # 0 /\ i <= n
      <4>1. i \in 0..n /\ i - 1 \in 0..(n + 1) /\ i - 1 <= n
        BY <3>2
      <4>2. h[i] = g[i] /\ h[i - 1] = g[i - 1]
        BY <4>1
      <4> HIDE DEF h
      <4> QED  BY <2>2, <3>2, <4>1, <4>2
    <3>3. CASE i = n + 1
      <4>1. i # 0 /\ ~(i <= n) /\ i - 1 = n /\ n \in 0..(n + 1) /\ n <= n
        BY <3>3
      <4>2. h[i] = g[n] \o Lines(n + 1) /\ h[n] = g[n]
        BY <4>1
      <4> HIDE DEF h
      <4> QED  BY <3>3, <4>1, <4>2
    <3> QED  BY <3>1, <3>2, <3>3
  <2>4. h = [i \in 0..(n + 1) |-> h[i]]
    OBVIOUS
  <2> HIDE DEF h
  <2>5. Flattens(h, n + 1)
    BY <2>3, <2>4 DEF Flattens
  <2> QED  BY <2>5
<1> HIDE DEF A
<1>3. Nat \subseteq A
  BY <1>1, <1>2, SetInduction
<1>4. PICK g : Flattens(g, Len(manifest.segs))
  BY <1>3 DEF A
<1>5. g = [n \in 0..Len(manifest.segs) |-> IF n = 0 THEN <<>> ELSE g[n - 1] \o Lines(n)]
  BY <1>4 DEF Flattens
<1>6. Flattened = [n \in 0..Len(manifest.segs) |->
                     IF n = 0 THEN <<>> ELSE Flattened[n - 1] \o Lines(n)]
  BY <1>5, Zenon DEF Flattened
<1> QED  BY <1>6 DEF Flattens

\* g holds the rows that the first 0, 1, ... n of some lines give.
Selects(g, rows, n) ==
    /\ g = [i \in 0..n |-> g[i]]
    /\ \A i \in 0..n : g[i] = IF i = 0 THEN <<>> ELSE FirstOnly(g[i - 1], rows[i])

\* The recursion over the lines has a solution, which Firsts is.
LEMMA FirstsSelects ==
    ASSUME NEW rows, Len(rows) \in Nat
    PROVE  Selects(Firsts(rows), rows, Len(rows))
<1> DEFINE A == {n \in Nat : \E g : Selects(g, rows, n)}
<1>1. 0 \in A
  <2> DEFINE g == [i \in 0..0 |-> <<>>]
  <2>1. Selects(g, rows, 0)
    BY DEF Selects
  <2> QED  BY <2>1
<1>2. ASSUME NEW n \in Nat, n \in A PROVE n + 1 \in A
  <2>1. PICK g : Selects(g, rows, n)
    BY <1>2
  <2> DEFINE h == [i \in 0..(n + 1) |-> IF i <= n THEN g[i] ELSE FirstOnly(g[n], rows[n + 1])]
  <2>2. \A i \in 0..n : g[i] = IF i = 0 THEN <<>> ELSE FirstOnly(g[i - 1], rows[i])
    BY <2>1 DEF Selects
  <2>3. ASSUME NEW i \in 0..(n + 1)
        PROVE  h[i] = IF i = 0 THEN <<>> ELSE FirstOnly(h[i - 1], rows[i])
    <3>1. CASE i = 0
      BY <2>2, <3>1
    <3>2. CASE i # 0 /\ i <= n
      <4>1. i \in 0..n /\ i - 1 \in 0..(n + 1) /\ i - 1 <= n
        BY <3>2
      <4>2. h[i] = g[i] /\ h[i - 1] = g[i - 1]
        BY <4>1
      <4> HIDE DEF h
      <4> QED  BY <2>2, <3>2, <4>1, <4>2
    <3>3. CASE i = n + 1
      <4>1. i # 0 /\ ~(i <= n) /\ i - 1 = n /\ n \in 0..(n + 1) /\ n <= n
        BY <3>3
      <4>2. h[i] = FirstOnly(g[n], rows[n + 1]) /\ h[n] = g[n]
        BY <4>1
      <4> HIDE DEF h
      <4> QED  BY <3>3, <4>1, <4>2
    <3> QED  BY <3>1, <3>2, <3>3
  <2>4. h = [i \in 0..(n + 1) |-> h[i]]
    OBVIOUS
  <2> HIDE DEF h
  <2>5. Selects(h, rows, n + 1)
    BY <2>3, <2>4 DEF Selects
  <2> QED  BY <2>5
<1> HIDE DEF A
<1>3. Nat \subseteq A
  BY <1>1, <1>2, SetInduction
<1>4. PICK g : Selects(g, rows, Len(rows))
  BY <1>3 DEF A
<1>5. g = [k \in 0..Len(rows) |-> IF k = 0 THEN <<>> ELSE FirstOnly(g[k - 1], rows[k])]
  BY <1>4 DEF Selects
<1>6. Firsts(rows) = [k \in 0..Len(rows) |->
                        IF k = 0 THEN <<>> ELSE FirstOnly(Firsts(rows)[k - 1], rows[k])]
  BY <1>5, Zenon DEF Firsts
<1> QED  BY <1>6 DEF Selects

\* No two of the rows are of the same id.
DistinctIds(rows) == \A i, j \in 1..Len(rows) : rows[i].id = rows[j].id => i = j

\* FirstOnly adds a row of a new id at the end, or nothing.
LEMMA FirstOnlyAdds ==
    ASSUME NEW T, NEW g \in Seq(T), DistinctIds(g), NEW row \in T
    PROVE  /\ FirstOnly(g, row) \in Seq(T) /\ DistinctIds(FirstOnly(g, row))
           /\ \A j \in 1..Len(FirstOnly(g, row)) :
                 \/ j \in 1..Len(g) /\ FirstOnly(g, row)[j] = g[j]
                 \/ FirstOnly(g, row)[j] = row
           /\ (\A i \in 1..Len(g) : g[i].id # row.id) => FirstOnly(g, row) = Append(g, row)
<1>1. Len(g) \in Nat /\ DOMAIN g = 1..Len(g)
  BY LenProperties
<1>2. /\ Append(g, row) \in Seq(T) /\ Len(Append(g, row)) = Len(g) + 1
      /\ \A i \in 1..Len(g) : Append(g, row)[i] = g[i]
      /\ Append(g, row)[Len(g) + 1] = row
  BY AppendProperties
<1>3. CASE \E i \in DOMAIN g : g[i].id = row.id
  BY <1>1, <1>3 DEF FirstOnly
<1>4. CASE ~\E i \in DOMAIN g : g[i].id = row.id
  <2>1. FirstOnly(g, row) = Append(g, row)
    BY <1>4 DEF FirstOnly
  <2>2. PICK h : h = Append(g, row)
    OBVIOUS
  <2>3. DistinctIds(h)
    BY <1>1, <1>2, <1>4, <2>2 DEF DistinctIds
  <2>4. \A j \in 1..Len(h) : (j \in 1..Len(g) /\ h[j] = g[j]) \/ h[j] = row
    BY <1>1, <1>2, <2>2
  <2> QED  BY <1>1, <1>2, <2>1, <2>2, <2>3, <2>4
<1> QED  BY <1>3, <1>4

\* The rows of some lines: a row of each id, all of them rows of the lines.
LEMMA FirstsRows ==
    ASSUME NEW T, NEW rows \in Seq(T)
    PROVE  LET g == Firsts(rows)[Len(rows)]
           IN  /\ g \in Seq(T) /\ DistinctIds(g)
               /\ \A j \in 1..Len(g) : \E i \in 1..Len(rows) : g[j] = rows[i]
               /\ DistinctIds(rows) => g = rows
<1>1. Len(rows) \in Nat /\ \A i \in 1..Len(rows) : rows[i] \in T
  BY LenProperties, ElementOfSeq
<1>2. PICK h : h = Firsts(rows)
  OBVIOUS
<1>3. /\ h[0] = <<>>
      /\ \A i \in 1..Len(rows) : h[i] = FirstOnly(h[i - 1], rows[i])
  <2>1. Selects(h, rows, Len(rows))
    BY <1>1, <1>2, FirstsSelects
  <2> QED  BY <1>1, <2>1 DEF Selects
<1> DEFINE Good(k) == /\ h[k] \in Seq(T) /\ DistinctIds(h[k])
                      /\ \A j \in 1..Len(h[k]) : \E i \in 1..k : h[k][j] = rows[i]
                      /\ DistinctIds(rows) => Len(h[k]) = k /\ \A j \in 1..k : h[k][j] = rows[j]
           A == {k \in Nat : k <= Len(rows) => Good(k)}
<1>4. 0 \in A
  <2>1. Len(h[0]) = 0 /\ h[0] \in Seq(T)
    BY <1>3, EmptySeq
  <2> QED  BY <2>1 DEF DistinctIds
<1>5. ASSUME NEW k \in Nat, k \in A PROVE k + 1 \in A
  <2> SUFFICES ASSUME k + 1 <= Len(rows) PROVE Good(k + 1)
    <3> HIDE DEF Good
    <3> QED  OBVIOUS
  <2>1. k + 1 \in 1..Len(rows) /\ (k + 1) - 1 = k /\ k <= Len(rows)
    BY <1>1
  <2>2. Good(k) /\ h[k + 1] = FirstOnly(h[k], rows[k + 1]) /\ rows[k + 1] \in T
    BY <1>1, <1>3, <1>5, <2>1
  <2>3. PICK g : g = h[k]
    OBVIOUS
  <2>4. PICK e : e = rows[k + 1]
    OBVIOUS
  <2>5. PICK f : f = h[k + 1]
    OBVIOUS
  <2>6. g \in Seq(T) /\ DistinctIds(g) /\ e \in T /\ f = FirstOnly(g, e) /\ Len(g) \in Nat
    BY <2>2, <2>3, <2>4, <2>5, LenProperties
  <2>7. /\ f \in Seq(T) /\ DistinctIds(f)
        /\ \A j \in 1..Len(f) : (j \in 1..Len(g) /\ f[j] = g[j]) \/ f[j] = e
        /\ (\A i \in 1..Len(g) : g[i].id # e.id) => f = Append(g, e)
    <3>1. g \in Seq(T) /\ DistinctIds(g) /\ e \in T
      BY <2>6
    <3>2. /\ FirstOnly(g, e) \in Seq(T) /\ DistinctIds(FirstOnly(g, e))
          /\ \A j \in 1..Len(FirstOnly(g, e)) :
                (j \in 1..Len(g) /\ FirstOnly(g, e)[j] = g[j]) \/ FirstOnly(g, e)[j] = e
          /\ (\A i \in 1..Len(g) : g[i].id # e.id) => FirstOnly(g, e) = Append(g, e)
      BY ONLY <3>1, FirstOnlyAdds
    <3>3. f = FirstOnly(g, e)
      BY <2>6
    <3> HIDE DEF FirstOnly
    <3> QED  BY ONLY <3>2, <3>3
  <2>8. \A j \in 1..Len(f) : \E i \in 1..(k + 1) : f[j] = rows[i]
    BY <2>2, <2>3, <2>4, <2>7
  <2>9. ASSUME DistinctIds(rows) PROVE Len(f) = k + 1 /\ \A j \in 1..(k + 1) : f[j] = rows[j]
    <3>1. Len(g) = k /\ \A j \in 1..k : g[j] = rows[j]
      BY <2>2, <2>3, <2>9
    <3>2. \A i \in 1..Len(g) : g[i].id # e.id
      BY <1>1, <2>1, <2>4, <2>9, <3>1 DEF DistinctIds
    <3>3. f = Append(g, e)
      BY <2>7, <3>2
    <3>4. /\ Len(f) = Len(g) + 1 /\ \A i \in 1..Len(g) : f[i] = g[i]
          /\ f[Len(g) + 1] = e
      BY <2>6, <3>3, AppendProperties
    <3> QED  BY <2>4, <3>1, <3>4
  <2> QED  BY <2>5, <2>7, <2>8, <2>9
<1> HIDE DEF A
<1>6. Nat \subseteq A
  BY <1>4, <1>5, SetInduction
<1>7. Good(Len(rows))
  <2>1. Len(rows) \in A
    BY <1>1, <1>6
  <2> QED  BY <1>1, <2>1 DEF A
<1>8. ASSUME DistinctIds(rows) PROVE h[Len(rows)] = rows
  <2>1. PICK g : g = h[Len(rows)]
    OBVIOUS
  <2>2. g \in Seq(T) /\ Len(g) = Len(rows) /\ \A j \in 1..Len(rows) : g[j] = rows[j]
    BY <1>7, <1>8, <2>1
  <2>3. \A i \in 1..Len(g) : g[i] = rows[i]
    BY <2>2
  <2>4. g = rows
    BY ONLY <2>2, <2>3, SeqEqual, rows \in Seq(T)
  <2> QED  BY <2>1, <2>4
<1> QED  BY <1>2, <1>7, <1>8

-----------------------------------------------------------------------------
\* The lines of a segment file, and their types.
LEMMA FileLines ==
    ASSUME NEW fs \in Seq(FileType), NEW s \in 1..Len(fs)
    PROVE  /\ Len(fs) \in Nat /\ DOMAIN fs = 1..Len(fs)
           /\ fs[s] \in FileType /\ fs[s].lines \in Seq(Line) /\ Len(fs[s].lines) \in Nat
           /\ DOMAIN fs[s].lines = 1..Len(fs[s].lines)
           /\ \A o \in 1..Len(fs[s].lines) :
                 fs[s].lines[o].id \in Capsule /\ fs[s].lines[o].proof \in BOOLEAN
<1>1. Len(fs) \in Nat /\ DOMAIN fs = 1..Len(fs) /\ fs[s] \in FileType
  BY LenProperties, ElementOfSeq
<1>2. fs[s].lines \in Seq(Line)
  BY <1>1 DEF FileType
<1>3. PICK l : l = fs[s].lines
  OBVIOUS
<1>4. Len(l) \in Nat /\ DOMAIN l = 1..Len(l) /\ \A o \in 1..Len(l) : l[o] \in Line
  BY <1>2, <1>3, LenProperties, ElementOfSeq
<1> QED  BY <1>1, <1>2, <1>3, <1>4 DEF Line

\* The rows of a segment's lines.
LEMMA LinesRows ==
    ASSUME files \in Seq(FileType), NEW s \in 1..Len(files)
    PROVE  /\ Lines(s) \in Seq(RowType) /\ Len(Lines(s)) = Len(files[s].lines)
           /\ \A o \in 1..Len(files[s].lines) : Lines(s)[o] = LineRow(s, o) /\ LineRow(s, o) \in RowType
<1>1. /\ Len(files[s].lines) \in Nat /\ DOMAIN files[s].lines = 1..Len(files[s].lines) /\ s \in Nat
      /\ \A o \in 1..Len(files[s].lines) :
            files[s].lines[o].id \in Capsule /\ files[s].lines[o].proof \in BOOLEAN
  BY FileLines
<1>2. \A o \in 1..Len(files[s].lines) : LineRow(s, o) \in RowType
  BY <1>1 DEF LineRow, Row, RowType, ReindexAuthenticity
<1>3. Lines(s) = [o \in 1..Len(files[s].lines) |-> LineRow(s, o)]
  BY <1>1 DEF Lines, LineRow
<1>4. PICK n : n = Len(files[s].lines)
  OBVIOUS
<1>5. Lines(s) \in [1..n -> RowType] /\ n \in Nat
  BY <1>1, <1>2, <1>3, <1>4
<1>6. Lines(s) \in Seq(RowType) /\ Len(Lines(s)) = n
  BY <1>5, SeqDef, LenProperties
<1> QED  BY <1>2, <1>3, <1>4, <1>6

\* b holds the number of lines before each of the first n segments.
Bases(fs, n, b) ==
    /\ b \in [1..n -> Nat] /\ b[1] = 0
    /\ \A s \in 1..n : s < n => b[s + 1] = b[s] + Len(fs[s].lines)
    /\ \A s, t \in 1..n : s < t => b[s] + Len(fs[s].lines) <= b[t]

\* The flattened lines: all of them are rows of lines, and every line is where
\* the number of lines before its segment puts it.
LEMMA FlattenedRows ==
    ASSUME files \in Seq(FileType), NEW n \in 1..Len(files), Len(manifest.segs) = n
    PROVE  LET rows == Flattened[n]
           IN  /\ rows \in Seq(RowType)
               /\ \A k \in 1..Len(rows) :
                     \E s \in 1..n : \E o \in 1..Len(files[s].lines) : rows[k] = LineRow(s, o)
               /\ \A b : Bases(files, n, b) =>
                     /\ Len(rows) = b[n] + Len(files[n].lines)
                     /\ \A s \in 1..n : \A o \in 1..Len(files[s].lines) :
                           rows[b[s] + o] = LineRow(s, o)
                     /\ \A k \in 1..Len(rows) :
                           \E s \in 1..n : \E o \in 1..Len(files[s].lines) : k = b[s] + o
<1>1. Len(files) \in Nat /\ n \in Nat /\ \A s \in 1..n : s \in 1..Len(files)
  BY LenProperties
<1>2. PICK h : h = Flattened
  OBVIOUS
<1>3. h[0] = <<>> /\ \A i \in 1..n : h[i] = h[i - 1] \o Lines(i)
  <2>1. Flattens(h, n)
    BY <1>1, <1>2, FlattenedFlattens
  <2> QED  BY <1>1, <2>1 DEF Flattens
<1>4. \A s \in 1..n : /\ Lines(s) \in Seq(RowType) /\ Len(Lines(s)) = Len(files[s].lines)
                      /\ Len(files[s].lines) \in Nat
                      /\ \A o \in 1..Len(files[s].lines) : Lines(s)[o] = LineRow(s, o)
  BY <1>1, LinesRows, FileLines
<1> HIDE DEF LineRow, Lines
<1> DEFINE At(k, b) ==
             /\ Len(h[k]) = IF k = 0 THEN 0 ELSE b[k] + Len(files[k].lines)
             /\ \A s \in 1..k : \A o \in 1..Len(files[s].lines) : h[k][b[s] + o] = LineRow(s, o)
             /\ \A j \in 1..Len(h[k]) :
                   \E s \in 1..k : \E o \in 1..Len(files[s].lines) : j = b[s] + o
           Good(k) ==
             /\ h[k] \in Seq(RowType)
             /\ \A j \in 1..Len(h[k]) :
                   \E s \in 1..k : \E o \in 1..Len(files[s].lines) : h[k][j] = LineRow(s, o)
             /\ \A b : Bases(files, n, b) => At(k, b)
           A == {k \in Nat : k <= n => Good(k)}
<1>5. 0 \in A
  <2>1. Len(h[0]) = 0 /\ h[0] \in Seq(RowType)
    BY <1>3, EmptySeq
  <2> QED  BY <2>1
<1>6. ASSUME NEW k \in Nat, k \in A PROVE k + 1 \in A
  <2> SUFFICES ASSUME k + 1 <= n PROVE Good(k + 1)
    <3> HIDE DEF Good
    <3> QED  OBVIOUS
  <2>1. k + 1 \in 1..n /\ (k + 1) - 1 = k /\ k <= n
    BY <1>1
  <2>2. Good(k) /\ h[k + 1] = h[k] \o Lines(k + 1)
    BY <1>3, <1>6, <2>1
  <2>3. PICK g : g = h[k]
    OBVIOUS
  <2>4. PICK l : l = Lines(k + 1)
    OBVIOUS
  <2>5. PICK f : f = h[k + 1]
    OBVIOUS
  <2>6. /\ g \in Seq(RowType) /\ l \in Seq(RowType) /\ f = g \o l
        /\ Len(l) = Len(files[k + 1].lines)
        /\ \A o \in 1..Len(l) : l[o] = LineRow(k + 1, o)
    BY <1>4, <2>1, <2>2, <2>3, <2>4, <2>5
  <2>7. /\ f \in Seq(RowType) /\ Len(f) = Len(g) + Len(l) /\ Len(g) \in Nat /\ Len(l) \in Nat
        /\ \A i \in 1..Len(f) : f[i] = IF i <= Len(g) THEN g[i] ELSE l[i - Len(g)]
    <3>1. g \in Seq(RowType) /\ l \in Seq(RowType)
      BY <2>6
    <3>2. Len(g) \in Nat /\ Len(l) \in Nat
      BY <3>1, LenProperties
    <3>3. /\ g \o l \in Seq(RowType) /\ Len(g \o l) = Len(g) + Len(l)
          /\ \A i \in 1..(Len(g) + Len(l)) : (g \o l)[i] = IF i <= Len(g) THEN g[i] ELSE l[i - Len(g)]
      BY ONLY <3>1, ConcatProperties
    <3> QED  BY <2>6, <3>2, <3>3
  <2>8. \A j \in 1..Len(f) :
           \E s \in 1..(k + 1) : \E o \in 1..Len(files[s].lines) : f[j] = LineRow(s, o)
    <3>1. ASSUME NEW j \in 1..Len(f)
          PROVE \E s \in 1..(k + 1) : \E o \in 1..Len(files[s].lines) : f[j] = LineRow(s, o)
      <4>1. CASE j <= Len(g)
        <5>1. j \in 1..Len(g) /\ f[j] = g[j]
          BY <2>7, <4>1
        <5>2. PICK s \in 1..k : \E o \in 1..Len(files[s].lines) : g[j] = LineRow(s, o)
          BY <2>2, <2>3, <5>1
        <5> QED  BY <5>1, <5>2
      <4>2. CASE ~(j <= Len(g))
        <5>1. j - Len(g) \in 1..Len(l) /\ f[j] = l[j - Len(g)]
          BY <2>7, <4>2
        <5>2. f[j] = LineRow(k + 1, j - Len(g)) /\ j - Len(g) \in 1..Len(files[k + 1].lines)
          BY <2>6, <5>1
        <5> QED  BY <2>1, <5>2
      <4> QED  BY <4>1, <4>2
    <3> QED  BY <3>1
  <2>9. ASSUME NEW b, Bases(files, n, b) PROVE At(k + 1, b)
    <3>1. At(k, b)
      BY <2>2, <2>9
    <3>2. Len(g) = b[k + 1] /\ b[k + 1] \in Nat
      <4>1. CASE k = 0
        BY <1>1, <2>3, <2>9, <3>1, <4>1 DEF Bases
      <4>2. CASE k # 0
        <5>1. k \in 1..n /\ k < n
          BY <2>1, <4>2
        <5> QED  BY <2>1, <2>3, <2>9, <3>1, <4>2, <5>1 DEF Bases
      <4> QED  BY <4>1, <4>2
    <3>3. ASSUME NEW s \in 1..(k + 1), NEW o \in 1..Len(files[s].lines)
          PROVE f[b[s] + o] = LineRow(s, o)
      <4>1. s \in 1..n /\ b[s] \in Nat /\ Len(files[s].lines) \in Nat
        BY <1>4, <2>1, <2>9 DEF Bases
      <4>2. CASE s = k + 1
        <5>1. b[s] + o \in 1..Len(f) /\ ~(b[s] + o <= Len(g)) /\ (b[s] + o) - Len(g) = o
          BY <2>6, <2>7, <3>2, <4>1, <4>2, SMTT(30)
        <5> QED  BY <2>6, <2>7, <4>2, <5>1
      <4>3. CASE s # k + 1
        <5>1. s \in 1..k /\ b[s] + Len(files[s].lines) <= b[k + 1]
          BY <2>1, <2>9, <4>1, <4>3 DEF Bases
        <5>2. b[s] + o \in 1..Len(f) /\ b[s] + o <= Len(g)
          <6>1. o \in Nat /\ o >= 1 /\ o <= Len(files[s].lines) /\ Len(f) >= Len(g) /\ Len(f) \in Nat
            BY <2>7, <4>1
          <6>2. b[s] + o <= b[k + 1]
            BY <3>2, <4>1, <5>1, <6>1
          <6> QED  BY <2>7, <3>2, <4>1, <6>1, <6>2, SMTT(30)
        <5>3. g[b[s] + o] = LineRow(s, o)
          BY <2>3, <3>1, <5>1
        <5> QED  BY <2>7, <5>2, <5>3
      <4> QED  BY <4>2, <4>3
    <3>4. Len(f) = b[k + 1] + Len(files[k + 1].lines)
      BY <2>6, <2>7, <3>2
    <3>5. ASSUME NEW j \in 1..Len(f)
          PROVE \E s \in 1..(k + 1) : \E o \in 1..Len(files[s].lines) : j = b[s] + o
      <4>1. CASE j <= Len(g)
        <5>1. j \in 1..Len(g)
          BY <2>7, <4>1
        <5>2. PICK s \in 1..k : \E o \in 1..Len(files[s].lines) : j = b[s] + o
          BY <2>3, <3>1, <5>1
        <5> QED  BY <5>2
      <4>2. CASE ~(j <= Len(g))
        <5>1. j - Len(g) \in 1..Len(files[k + 1].lines) /\ j = b[k + 1] + (j - Len(g))
          <6>1. j \in Nat /\ j <= Len(g) + Len(l) /\ Len(l) \in Nat /\ Len(g) \in Nat
            BY <2>7
          <6>2. j - Len(g) \in 1..Len(l) /\ j = Len(g) + (j - Len(g))
            BY <4>2, <6>1
          <6> QED  BY <2>6, <3>2, <6>2
        <5> QED  BY <2>1, <5>1
      <4> QED  BY <4>1, <4>2
    <3> QED  BY <2>1, <2>5, <3>3, <3>4, <3>5
  <2> HIDE DEF At
  <2> QED  BY <2>5, <2>7, <2>8, <2>9
<1> HIDE DEF A
<1>7. Nat \subseteq A
  BY <1>5, <1>6, SetInduction
<1>8. Good(n)
  <2>1. n \in A
    BY <1>1, <1>7
  <2> HIDE DEF Good
  <2> QED  BY <1>1, <2>1 DEF A
<1>9. \A b : Bases(files, n, b) => /\ Len(h[n]) = b[n] + Len(files[n].lines)
                                   /\ \A s \in 1..n : \A o \in 1..Len(files[s].lines) :
                                         h[n][b[s] + o] = LineRow(s, o)
                                   /\ \A k \in 1..Len(h[n]) :
                                         \E s \in 1..n : \E o \in 1..Len(files[s].lines) : k = b[s] + o
  <2> SUFFICES ASSUME NEW b, Bases(files, n, b)
               PROVE  /\ Len(h[n]) = b[n] + Len(files[n].lines)
                      /\ \A s \in 1..n : \A o \in 1..Len(files[s].lines) :
                            h[n][b[s] + o] = LineRow(s, o)
                      /\ \A k \in 1..Len(h[n]) :
                            \E s \in 1..n : \E o \in 1..Len(files[s].lines) : k = b[s] + o
    OBVIOUS
  <2>1. At(n, b) /\ n # 0
    <3>1. \A c : Bases(files, n, c) => At(n, c)
      BY <1>8
    <3> HIDE DEF At, Bases
    <3> QED  BY <1>1, <3>1
  <2> QED  BY <2>1
<1> QED  BY <1>2, <1>8, <1>9

-----------------------------------------------------------------------------
\* The rows are those of the lines of the first n segments in their order, as far
\* as the lines are still there; only rows of the last segment may lack theirs.
InOrder(fs, rs, n, b) ==
    \A i \in 1..Len(rs) :
        /\ rs[i].seg \in 1..n /\ rs[i].off >= 1 /\ i = b[rs[i].seg] + rs[i].off
        /\ rs[i].seg < n => rs[i].off <= Len(fs[rs[i].seg].lines)
        /\ rs[i].off <= Len(fs[rs[i].seg].lines) => fs[rs[i].seg].lines[rs[i].off].id = rs[i].id

\* No record is on two lines.
OneLine(fs, n) ==
    \A s, t \in 1..n : \A o \in 1..Len(fs[s].lines) : \A p \in 1..Len(fs[t].lines) :
        fs[s].lines[o].id = fs[t].lines[p].id => s = t /\ o = p

\* The segments before the last are durable and whole, those after it empty.
ClosedOk(fs, n) ==
    /\ \A s \in 1..n : s < n => fs[s].synced = Len(fs[s].lines) /\ ~fs[s].torn
    /\ \A s \in 1..Len(fs) : s > n => fs[s].lines = <<>> /\ ~fs[s].torn
    /\ Len(fs) <= n + 1

\* The first n files hold the records in order: b[s] of them stand before segment s.
Layout(fs, rs, n, b) ==
    /\ n \in 1..Len(fs)
    /\ Bases(fs, n, b) /\ InOrder(fs, rs, n, b) /\ OneLine(fs, n) /\ ClosedOk(fs, n)
    /\ b[n] <= Len(rs)

\* A rebuilt index: one row per id, each of a line.
LEMMA LeavesRows ==
    ASSUME files \in Seq(FileType), NEW n \in 1..Len(files), Len(manifest.segs) = n
    PROVE  /\ Leaves \in Seq(RowType) /\ DistinctIds(Leaves)
           /\ \A k \in 1..Len(Leaves) :
                 \E s \in 1..n : \E o \in 1..Len(files[s].lines) : Leaves[k] = LineRow(s, o)
<1>1. PICK rows : rows = Flattened[n]
  OBVIOUS
<1>2. /\ rows \in Seq(RowType)
      /\ \A k \in 1..Len(rows) :
            \E s \in 1..n : \E o \in 1..Len(files[s].lines) : rows[k] = LineRow(s, o)
  BY <1>1, FlattenedRows
<1>3. Leaves = Firsts(rows)[Len(rows)]
  BY <1>1 DEF Leaves
<1>4. /\ Leaves \in Seq(RowType) /\ DistinctIds(Leaves)
      /\ \A j \in 1..Len(Leaves) : \E i \in 1..Len(rows) : Leaves[j] = rows[i]
  BY <1>2, <1>3, FirstsRows
<1> HIDE DEF LineRow, Leaves
<1>5. ASSUME NEW k \in 1..Len(Leaves)
      PROVE  \E s \in 1..n : \E o \in 1..Len(files[s].lines) : Leaves[k] = LineRow(s, o)
  <2>1. PICK i \in 1..Len(rows) : Leaves[k] = rows[i]
    BY <1>4
  <2>2. PICK s \in 1..n : \E o \in 1..Len(files[s].lines) : rows[i] = LineRow(s, o)
    BY <1>2
  <2> QED  BY <2>1, <2>2
<1> QED  BY <1>4, <1>5

\* A rebuilt index of lines of different ids: a row per line, in their order.
LEMMA LeavesLaid ==
    ASSUME files \in Seq(FileType), NEW n \in 1..Len(files), Len(manifest.segs) = n,
           NEW b, Bases(files, n, b), OneLine(files, n)
    PROVE  /\ Len(Leaves) = b[n] + Len(files[n].lines)
           /\ \A s \in 1..n : \A o \in 1..Len(files[s].lines) : Leaves[b[s] + o] = LineRow(s, o)
           /\ \A k \in 1..Len(Leaves) : \E s \in 1..n : \E o \in 1..Len(files[s].lines) :
                 k = b[s] + o /\ Leaves[k] = LineRow(s, o)
<1>1. PICK rows : rows = Flattened[n]
  OBVIOUS
<1>2. /\ rows \in Seq(RowType)
      /\ Len(rows) = b[n] + Len(files[n].lines)
      /\ \A s \in 1..n : \A o \in 1..Len(files[s].lines) : rows[b[s] + o] = LineRow(s, o)
      /\ \A k \in 1..Len(rows) : \E s \in 1..n : \E o \in 1..Len(files[s].lines) : k = b[s] + o
  <2> HIDE DEF LineRow, Flattened, Bases
  <2>1. /\ rows \in Seq(RowType)
        /\ \A c : Bases(files, n, c) =>
              /\ Len(rows) = c[n] + Len(files[n].lines)
              /\ \A s \in 1..n : \A o \in 1..Len(files[s].lines) : rows[c[s] + o] = LineRow(s, o)
              /\ \A k \in 1..Len(rows) :
                    \E s \in 1..n : \E o \in 1..Len(files[s].lines) : k = c[s] + o
    BY <1>1, FlattenedRows
  <2>2. PICK c : c = b
    OBVIOUS
  <2>3. Bases(files, n, c)
    BY <2>2
  <2>4. /\ Len(rows) = c[n] + Len(files[n].lines)
        /\ \A s \in 1..n : \A o \in 1..Len(files[s].lines) : rows[c[s] + o] = LineRow(s, o)
        /\ \A k \in 1..Len(rows) :
              \E s \in 1..n : \E o \in 1..Len(files[s].lines) : k = c[s] + o
    BY ONLY <2>1, <2>3
  <2> QED  BY <2>1, <2>2, <2>4
<1>3. \A k \in 1..Len(rows) : \E s \in 1..n : \E o \in 1..Len(files[s].lines) :
         k = b[s] + o /\ rows[k] = LineRow(s, o)
  <2> HIDE DEF LineRow
  <2> QED  BY <1>2
<1>4. DistinctIds(rows)
  <2>1. SUFFICES ASSUME NEW i \in 1..Len(rows), NEW j \in 1..Len(rows), rows[i].id = rows[j].id
                 PROVE  i = j
    BY DEF DistinctIds
  <2>2. PICK s \in 1..n : \E o \in 1..Len(files[s].lines) : i = b[s] + o /\ rows[i] = LineRow(s, o)
    BY <1>3
  <2>3. PICK o \in 1..Len(files[s].lines) : i = b[s] + o /\ rows[i] = LineRow(s, o)
    BY <2>2
  <2>4. PICK t \in 1..n : \E p \in 1..Len(files[t].lines) : j = b[t] + p /\ rows[j] = LineRow(t, p)
    BY <1>3
  <2>5. PICK p \in 1..Len(files[t].lines) : j = b[t] + p /\ rows[j] = LineRow(t, p)
    BY <2>4
  <2>6. rows[i].id = files[s].lines[o].id /\ rows[j].id = files[t].lines[p].id
    BY <2>3, <2>5 DEF LineRow, Row
  <2>7. s = t /\ o = p
    <3>1. \A x, y \in 1..n : \A u \in 1..Len(files[x].lines) : \A v \in 1..Len(files[y].lines) :
             files[x].lines[u].id = files[y].lines[v].id => x = y /\ u = v
      BY DEF OneLine
    <3>2. files[s].lines[o].id = files[t].lines[p].id
      BY <2>1, <2>6
    <3> QED  BY <3>1, <3>2, SMTT(30)
  <2> QED  BY <2>3, <2>5, <2>7
<1>5. Leaves = rows
  <2>1. Leaves = Firsts(rows)[Len(rows)]
    BY <1>1 DEF Leaves
  <2> QED  BY <1>2, <1>4, <2>1, FirstsRows
<1> HIDE DEF Leaves
<1> QED  BY <1>2, <1>3, <1>5

-----------------------------------------------------------------------------
(***************************************************************************)
(* Which steps change which variable, and what they make of the files.     *)
(***************************************************************************)
\* A file has no more durable lines than lines.
FileOk(f) == f \in FileType /\ f.synced <= Len(f.lines)

\* All files are such.
FilesOk(fs) == fs \in Seq(FileType) /\ \A s \in 1..Len(fs) : fs[s].synced <= Len(fs[s].lines)

\* Every line of fs is one of gs.
Extends(fs, gs) ==
    /\ Len(fs) <= Len(gs)
    /\ \A s \in 1..Len(fs) :
          /\ Len(fs[s].lines) <= Len(gs[s].lines)
          /\ \A o \in 1..Len(fs[s].lines) : gs[s].lines[o] = fs[s].lines[o]

\* Only opening, closing, rotating and moving a segment change the manifest in memory,
LEMMA ManifestChange ==
    ASSUME LedgerNext
    PROVE  \/ manifest' = manifest \/ Open \/ Stop \/ PowerLoss \/ Rotate \/ RotateRaises
           \/ status = "ready" /\ \E s \in Segments : Unmount(s) \/ Mount(s)
BY Zenon DEF LedgerNext, LedgerStep, CreateSave, AppendLine, AppendFails, InsertRecord, InsertFails,
       AppendLookup, Save, SaveFails, RecoverStart, CatchUpLookup, RecoverLine, RecoverLookup,
       RecoverEnd, Reindex, RebuildLookup, memVars

\* only a save changes the one on disk,
LEMMA DiskChange ==
    ASSUME LedgerNext
    PROVE  disk' = disk \/ CreateSave \/ Save \/ SaveFails
BY Zenon DEF LedgerNext, LedgerStep, Open, Stop, PowerLoss, AppendLine, AppendFails, InsertRecord,
       InsertFails, AppendLookup, Rotate, RotateRaises, RecoverStart, CatchUpLookup, RecoverLine,
       RecoverLookup, RecoverEnd, Reindex, RebuildLookup, Unmount, Mount, Down, diskVars

\* only append, recover and reindex change the records index,
LEMMA RecordsChange ==
    ASSUME LedgerNext
    PROVE  records' = records \/ InsertRecord \/ RecoverLine \/ Reindex
BY Zenon DEF LedgerNext, LedgerStep, Open, CreateSave, Stop, PowerLoss, AppendLine, AppendFails,
       InsertFails, AppendLookup, Rotate, RotateRaises, Save, SaveFails, RecoverStart,
       CatchUpLookup, RecoverLookup, RecoverEnd, RebuildLookup, Unmount, Mount, diskVars

\* only append, recover and rebuild_lookup_index change the lookup index,
LEMMA LookupChange ==
    ASSUME LedgerNext
    PROVE  lookup' = lookup \/ AppendLookup \/ CatchUpLookup \/ RecoverLookup \/ RebuildLookup
BY Zenon DEF LedgerNext, LedgerStep, Open, CreateSave, Stop, PowerLoss, AppendLine, AppendFails,
       InsertRecord, InsertFails, Rotate, RotateRaises, Save, SaveFails, RecoverStart,
       RecoverLine, RecoverEnd, Reindex, Unmount, Mount, diskVars

\* and only these steps change the segment files.
LEMMA FilesChange ==
    ASSUME LedgerNext
    PROVE  \/ files' = files \/ Open \/ PowerLoss \/ Rotate \/ RotateRaises \/ RecoverStart
           \/ RecoverEnd \/ Reindex
           \/ \E c \in Capsule, sub \in scenario.submissions : AppendLine(c, sub) \/ AppendFails(c, sub)
BY Zenon DEF LedgerNext, LedgerStep, CreateSave, Stop, InsertRecord, InsertFails, AppendLookup,
       Save, SaveFails, CatchUpLookup, RecoverLine, RecoverLookup, RebuildLookup, Unmount, Mount,
       diskVars

\* The counts of failures only grow, each by the step it counts.
LEMMA UsedChange ==
    ASSUME LedgerNext, used \in [EventKind -> Nat]
    PROVE  /\ used' \in [EventKind -> Nat]
           /\ \A k \in EventKind : used[k] <= used'[k]
           /\ used'["power"] = used["power"] \/ PowerLoss
           /\ used'["stop"] = used["stop"] \/ Stop
           /\ used'["save"] = used["save"] \/ SaveFails \/ RotateRaises
           /\ used'["move"] = used["move"]
              \/ (status = "ready" /\ \E s \in Segments : Unmount(s) \/ Mount(s))
<1>1. \/ used' = used \/ Use("fault") \/ Use("rebuild")
      \/ Use("power") /\ PowerLoss
      \/ Use("stop") /\ Stop
      \/ Use("save") /\ (SaveFails \/ RotateRaises)
      \/ Use("move") /\ status = "ready" /\ \E s \in Segments : Unmount(s) \/ Mount(s)
  BY Zenon DEF LedgerNext, LedgerStep, Open, CreateSave, Stop, PowerLoss, AppendLine, AppendFails,
       InsertRecord, InsertFails, AppendLookup, LookupRecord, Rotate, RotateRaises, Save, SaveFails,
       RecoverStart, CatchUpLookup, RecoverLine, RecoverLookup, RecoverEnd, Reindex, RebuildLookup,
       Unmount, Mount
<1>2. ASSUME NEW k \in EventKind, Use(k)
      PROVE  /\ used' \in [EventKind -> Nat] /\ \A j \in EventKind : used[j] <= used'[j]
             /\ \A j \in EventKind \ {k} : used'[j] = used[j]
             /\ used'[k] = used[k] + 1
  BY <1>2 DEF Use
<1> HIDE DEF Use
<1>3. {"fault", "rebuild", "power", "stop", "save", "move"} = EventKind
  BY DEF EventKind
<1>4. CASE used' = used
  BY <1>4
<1>5. CASE Use("fault") \/ Use("rebuild")
  BY <1>2, <1>3, <1>5
<1>6. CASE Use("power") /\ PowerLoss
  BY <1>2, <1>3, <1>6
<1>7. CASE Use("stop") /\ Stop
  BY <1>2, <1>3, <1>7
<1>8. CASE Use("save") /\ (SaveFails \/ RotateRaises)
  BY <1>2, <1>3, <1>8
<1>9. CASE Use("move") /\ status = "ready" /\ \E s \in Segments : Unmount(s) \/ Mount(s)
  BY <1>2, <1>3, <1>9
<1> QED  BY <1>1, <1>4, <1>5, <1>6, <1>7, <1>8, <1>9

-----------------------------------------------------------------------------
\* gs is fs with another file at s.
PutAt(gs, fs, s, f) == gs = [fs EXCEPT ![s] = f]

\* Replacing a file,
LEMMA FilesPut ==
    ASSUME NEW fs, FilesOk(fs), NEW s \in 1..Len(fs), NEW f, FileOk(f),
           NEW gs, PutAt(gs, fs, s, f)
    PROVE  /\ FilesOk(gs) /\ Len(gs) = Len(fs)
           /\ \A t \in 1..Len(fs) : gs[t] = IF t = s THEN f ELSE fs[t]
<1>1. fs \in Seq(FileType) /\ f \in FileType
  BY DEF FilesOk, FileOk
<1>2. Len(fs) \in Nat /\ DOMAIN fs = 1..Len(fs) /\ fs \in [1..Len(fs) -> FileType]
  BY <1>1, LenProperties
<1>3. PICK n : n = Len(fs)
  OBVIOUS
<1>5. gs \in [1..n -> FileType] /\ n \in Nat /\ \A t \in 1..n : gs[t] = IF t = s THEN f ELSE fs[t]
  BY <1>1, <1>2, <1>3 DEF PutAt
<1>6. gs \in Seq(FileType) /\ Len(gs) = n
  BY <1>5, SeqDef, LenProperties
<1>7. \A t \in 1..n : gs[t].synced <= Len(gs[t].lines)
  BY <1>3, <1>5 DEF FilesOk, FileOk
<1> QED  BY <1>3, <1>5, <1>6, <1>7 DEF FilesOk

\* adding one,
LEMMA FilesAdd ==
    ASSUME NEW fs, FilesOk(fs), NEW f, FileOk(f)
    PROVE  /\ FilesOk(Append(fs, f)) /\ Len(Append(fs, f)) = Len(fs) + 1 /\ Len(fs) \in Nat
           /\ \A t \in 1..Len(fs) : Append(fs, f)[t] = fs[t]
           /\ Append(fs, f)[Len(fs) + 1] = f
<1>1. fs \in Seq(FileType) /\ f \in FileType
  BY DEF FilesOk, FileOk
<1>2. /\ Append(fs, f) \in Seq(FileType) /\ Len(Append(fs, f)) = Len(fs) + 1 /\ Len(fs) \in Nat
      /\ \A t \in 1..Len(fs) : Append(fs, f)[t] = fs[t]
      /\ Append(fs, f)[Len(fs) + 1] = f
  BY <1>1, AppendProperties, LenProperties
<1> QED  BY <1>2 DEF FilesOk, FileOk

\* and what is known of each.
LEMMA FileOf ==
    ASSUME NEW fs, FilesOk(fs), NEW s \in 1..Len(fs)
    PROVE  /\ FileOk(fs[s]) /\ Len(fs) \in Nat /\ DOMAIN fs = 1..Len(fs)
           /\ fs[s].lines \in Seq(Line) /\ Len(fs[s].lines) \in Nat
           /\ fs[s].torn \in BOOLEAN /\ fs[s].synced \in Nat /\ fs[s].synced <= Len(fs[s].lines)
           /\ DOMAIN fs[s].lines = 1..Len(fs[s].lines)
           /\ \A o \in 1..Len(fs[s].lines) :
                 fs[s].lines[o].id \in Capsule /\ fs[s].lines[o].proof \in BOOLEAN
<1>1. fs \in Seq(FileType)
  BY DEF FilesOk
<1>2. /\ Len(fs) \in Nat /\ DOMAIN fs = 1..Len(fs)
      /\ fs[s] \in FileType /\ fs[s].lines \in Seq(Line) /\ Len(fs[s].lines) \in Nat
      /\ DOMAIN fs[s].lines = 1..Len(fs[s].lines)
      /\ \A o \in 1..Len(fs[s].lines) :
            fs[s].lines[o].id \in Capsule /\ fs[s].lines[o].proof \in BOOLEAN
  BY <1>1, FileLines
<1>3. fs[s].torn \in BOOLEAN /\ fs[s].synced \in Nat
  BY <1>2 DEF FileType
<1> QED  BY <1>2, <1>3 DEF FilesOk, FileOk

\* What the writes do to one file.
LEMMA AddLineOk ==
    ASSUME NEW f, FileOk(f), NEW line \in Line
    PROVE  /\ FileOk(AddLine(f, line)) /\ Len(f.lines) \in Nat
           /\ AddLine(f, line).torn = f.torn /\ AddLine(f, line).synced = f.synced
           /\ Len(AddLine(f, line).lines) = Len(f.lines) + 1
           /\ \A o \in 1..Len(f.lines) : AddLine(f, line).lines[o] = f.lines[o]
           /\ AddLine(f, line).lines[Len(f.lines) + 1] = line
<1>1. f \in FileType /\ f.lines \in Seq(Line) /\ f.torn \in BOOLEAN /\ f.synced \in Nat
  BY DEF FileOk, FileType
<1>2. PICK l : l = Append(f.lines, line)
  OBVIOUS
<1>3. /\ l \in Seq(Line) /\ Len(l) = Len(f.lines) + 1 /\ Len(f.lines) \in Nat
      /\ \A o \in 1..Len(f.lines) : l[o] = f.lines[o]
      /\ l[Len(f.lines) + 1] = line
  BY <1>1, <1>2, AppendProperties, LenProperties
<1>4. AddLine(f, line) = [f EXCEPT !.lines = l]
  BY <1>2 DEF AddLine
<1>5. [f EXCEPT !.lines = l] = [lines |-> l, torn |-> f.torn, synced |-> f.synced]
  BY <1>1 DEF FileType
<1>6. [lines |-> l, torn |-> f.torn, synced |-> f.synced] \in FileType
  BY <1>1, <1>3 DEF FileType
<1>7. f.synced <= Len(l) /\ f.synced \in Nat
  BY <1>1, <1>3 DEF FileOk
<1>8. PICK g : g = AddLine(f, line)
  OBVIOUS
<1>9. /\ g \in FileType /\ g.lines = l /\ g.torn = f.torn /\ g.synced = f.synced
  BY <1>4, <1>5, <1>6, <1>8
<1> QED  BY <1>3, <1>7, <1>8, <1>9 DEF FileOk

\* An fsync makes every line durable and changes none,
LEMMA SyncedOk ==
    ASSUME NEW f, FileOk(f)
    PROVE  /\ FileOk(Synced(f)) /\ Synced(f).torn = f.torn /\ Synced(f).lines = f.lines
           /\ Synced(f).synced = Len(f.lines) /\ Len(f.lines) \in Nat
<1>1. f \in FileType /\ f.lines \in Seq(Line) /\ f.torn \in BOOLEAN
  BY DEF FileOk, FileType
<1>2. Len(f.lines) \in Nat
  BY <1>1, LenProperties
<1>3. Synced(f) = [lines |-> f.lines, torn |-> f.torn, synced |-> Len(f.lines)]
  BY <1>1 DEF Synced, FileType
<1> QED  BY <1>1, <1>2, <1>3 DEF FileOk, FileType

\* a torn end is set apart from the complete lines,
LEMMA TornOk ==
    ASSUME NEW f, FileOk(f), NEW t \in BOOLEAN
    PROVE  /\ FileOk([f EXCEPT !.torn = t]) /\ [f EXCEPT !.torn = t].torn = t
           /\ [f EXCEPT !.torn = t].lines = f.lines /\ [f EXCEPT !.torn = t].synced = f.synced
<1>1. f \in FileType /\ f.lines \in Seq(Line) /\ f.synced \in Nat
  BY DEF FileOk, FileType
<1>2. [f EXCEPT !.torn = t] = [lines |-> f.lines, torn |-> t, synced |-> f.synced]
  BY <1>1 DEF FileType
<1> QED  BY <1>1, <1>2 DEF FileOk, FileType

\* append_line adds a line at the end, durable if it is consequential,
LEMMA WrittenOk ==
    ASSUME NEW f, FileOk(f), NEW line \in Line, NEW consequential \in BOOLEAN
    PROVE  LET w == Written(f, line, consequential)
           IN  /\ FileOk(w) /\ Len(f.lines) \in Nat /\ w.torn = f.torn
               /\ Len(w.lines) = Len(f.lines) + 1
               /\ \A o \in 1..Len(f.lines) : w.lines[o] = f.lines[o]
               /\ w.lines[Len(f.lines) + 1] = line
               /\ f.synced <= w.synced
               /\ consequential => w.synced = Len(w.lines)
<1>1. PICK g : g = AddLine(f, line)
  OBVIOUS
<1>2. /\ FileOk(g) /\ Len(f.lines) \in Nat
      /\ g.torn = f.torn /\ g.synced = f.synced
      /\ Len(g.lines) = Len(f.lines) + 1
      /\ \A o \in 1..Len(f.lines) : g.lines[o] = f.lines[o]
      /\ g.lines[Len(f.lines) + 1] = line
  BY <1>1, AddLineOk
<1>3. FileOk(Synced(g)) /\ Synced(g).torn = g.torn /\ Synced(g).lines = g.lines
      /\ Synced(g).synced = Len(g.lines)
  BY <1>2, SyncedOk
<1>4. f.synced \in Nat /\ f.synced <= Len(f.lines)
  BY DEF FileOk, FileType
<1>5. Written(f, line, consequential) = IF consequential THEN Synced(g) ELSE g
  BY <1>1 DEF Written
<1> HIDE DEF Written, Synced
<1> QED  BY <1>2, <1>3, <1>4, <1>5

\* and a new segment is empty.
LEMMA EmptyFileOk == FileOk(EmptyFile) /\ EmptyFile.lines = <<>> /\ EmptyFile.torn = FALSE
                     /\ EmptyFile.synced = 0 /\ Len(EmptyFile.lines) = 0
<1>1. <<>> \in Seq(Line) /\ Len(<<>>) = 0
  BY EmptySeq
<1> QED  BY <1>1 DEF EmptyFile, FileOk, FileType

\* What a loss of power leaves of one file.
LEMMA TruncatedOk ==
    ASSUME NEW f, FileOk(f), NEW n \in f.synced..Len(f.lines), NEW t \in BOOLEAN
    PROVE  LET g == [lines |-> SubSeq(f.lines, 1, n), torn |-> t, synced |-> n]
           IN  /\ FileOk(g) /\ Len(g.lines) = n /\ n \in Nat /\ n <= Len(f.lines) /\ f.synced <= n
               /\ g.torn = t /\ g.synced = n
               /\ \A o \in 1..n : g.lines[o] = f.lines[o]
               /\ n = Len(f.lines) => g.lines = f.lines
<1>1. f.lines \in Seq(Line) /\ f.synced \in Nat
  BY DEF FileOk, FileType
<1>2. Len(f.lines) \in Nat /\ n \in Nat /\ n <= Len(f.lines) /\ f.synced <= n
  BY <1>1, LenProperties
<1>3. \A i \in 1..n : i \in 1..Len(f.lines)
  BY <1>2
<1>4. /\ SubSeq(f.lines, 1, n) \in Seq(Line) /\ Len(SubSeq(f.lines, 1, n)) = n
      /\ \A o \in 1..n : SubSeq(f.lines, 1, n)[o] = f.lines[o]
  <2>1. PICK l : l = f.lines
    OBVIOUS
  <2>2. 1 \in 1..(Len(l) + 1) /\ n \in 0..Len(l)
    BY <1>2, <2>1
  <2>3. n - 1 + 1 = n
    BY <1>2
  <2>4. /\ SubSeq(l, 1, n) \in Seq(Line)
        /\ Len(SubSeq(l, 1, n)) = IF 1 <= n THEN n - 1 + 1 ELSE 0
        /\ \A i \in 1..(n - 1 + 1) : SubSeq(l, 1, n)[i] = l[1 + i - 1]
    BY <1>1, <1>2, <2>1, <2>2, SubSeqProperties
  <2> QED  BY <1>2, <2>1, <2>4
<1>5. n = Len(f.lines) => SubSeq(f.lines, 1, n) = f.lines
  BY <1>1, SubSeqFull
<1> QED  BY <1>2, <1>4, <1>5 DEF FileOk, FileType

\* A file of which no line is lost.
LEMMA PutExtends ==
    ASSUME NEW fs, FilesOk(fs), NEW s \in 1..Len(fs), NEW f, FileOk(f),
           Len(fs[s].lines) <= Len(f.lines),
           \A o \in 1..Len(fs[s].lines) : f.lines[o] = fs[s].lines[o],
           NEW gs, PutAt(gs, fs, s, f)
    PROVE  FilesOk(gs) /\ Extends(fs, gs) /\ Len(gs) = Len(fs)
<1>2. FilesOk(gs) /\ Len(gs) = Len(fs) /\ \A t \in 1..Len(fs) : gs[t] = IF t = s THEN f ELSE fs[t]
  BY FilesPut
<1>3. \A t \in 1..Len(fs) : Len(fs[t].lines) \in Nat /\ Len(fs) \in Nat
  BY FileOf
<1>4. Extends(fs, gs)
  BY <1>2, <1>3 DEF Extends
<1> QED  BY <1>2, <1>4

\* Extends is reflexive,
LEMMA SameExtends ==
    ASSUME NEW fs, FilesOk(fs)
    PROVE  Extends(fs, fs)
<1>1. Len(fs) \in Nat
  BY LenProperties DEF FilesOk
<1>2. \A t \in 1..Len(fs) : Len(fs[t].lines) \in Nat
  BY FileOf
<1> QED  BY <1>1, <1>2 DEF Extends

\* and transitive,
LEMMA ExtendsTrans ==
    ASSUME NEW fs, FilesOk(fs), NEW gs, FilesOk(gs), NEW hs, FilesOk(hs),
           Extends(fs, gs), Extends(gs, hs)
    PROVE  Extends(fs, hs)
<1>1. Len(fs) \in Nat /\ Len(gs) \in Nat /\ Len(hs) \in Nat
  BY LenProperties DEF FilesOk
<1>2. /\ \A t \in 1..Len(fs) : Len(fs[t].lines) \in Nat
      /\ \A t \in 1..Len(gs) : Len(gs[t].lines) \in Nat
      /\ \A t \in 1..Len(hs) : Len(hs[t].lines) \in Nat
  BY FileOf
<1> SUFFICES ASSUME NEW s \in 1..Len(fs)
             PROVE  /\ Len(fs[s].lines) <= Len(hs[s].lines)
                    /\ \A o \in 1..Len(fs[s].lines) : hs[s].lines[o] = fs[s].lines[o]
  BY <1>1 DEF Extends
<1>3. s \in 1..Len(gs) /\ s \in 1..Len(hs)
  BY <1>1 DEF Extends
<1>4. /\ Len(fs[s].lines) <= Len(gs[s].lines) /\ Len(gs[s].lines) <= Len(hs[s].lines)
      /\ \A o \in 1..Len(fs[s].lines) : gs[s].lines[o] = fs[s].lines[o]
      /\ \A o \in 1..Len(gs[s].lines) : hs[s].lines[o] = gs[s].lines[o]
  BY <1>3 DEF Extends
<1>5. Len(fs[s].lines) <= Len(hs[s].lines)
  BY <1>2, <1>3, <1>4
<1>6. \A o \in 1..Len(fs[s].lines) : o \in 1..Len(gs[s].lines)
  BY <1>2, <1>3, <1>4
<1> QED  BY <1>4, <1>5, <1>6

\* and a new segment keeps it.
LEMMA AddExtends ==
    ASSUME NEW fs, FilesOk(fs), NEW f, FileOk(f)
    PROVE  FilesOk(Append(fs, f)) /\ Extends(fs, Append(fs, f))
<1>1. PICK gs : gs = Append(fs, f)
  OBVIOUS
<1>2. FilesOk(gs) /\ Len(gs) = Len(fs) + 1 /\ Len(fs) \in Nat /\ \A t \in 1..Len(fs) : gs[t] = fs[t]
  BY <1>1, FilesAdd
<1>3. \A t \in 1..Len(fs) : Len(fs[t].lines) \in Nat
  BY FileOf
<1> QED  BY <1>1, <1>2, <1>3 DEF Extends

\* Closing a segment, as a rotation and its failures do.
LEMMA SyncedExtends ==
    ASSUME NEW fs, FilesOk(fs), NEW s \in 1..Len(fs),
           NEW gs, PutAt(gs, fs, s, Synced(fs[s]))
    PROVE  FilesOk(gs) /\ Extends(fs, gs) /\ Len(gs) = Len(fs)
<1>1. FileOk(fs[s]) /\ Len(fs[s].lines) \in Nat
  BY FileOf
<1>2. PICK f : f = Synced(fs[s])
  OBVIOUS
<1>3. FileOk(f) /\ f.lines = fs[s].lines
  BY <1>1, <1>2, SyncedOk
<1>4. PutAt(gs, fs, s, f)
  BY <1>2
<1>5. Len(fs[s].lines) <= Len(f.lines) /\ \A o \in 1..Len(fs[s].lines) : f.lines[o] = fs[s].lines[o]
  BY <1>1, <1>3
<1> QED  BY <1>3, <1>4, <1>5, PutExtends

\* reindex flushes every segment of the manifest.
LEMMA ReindexFiles ==
    ASSUME NEW fs, FilesOk(fs), NEW S,
           NEW gs, gs = [s \in DOMAIN fs |-> IF s \in S THEN Synced(fs[s]) ELSE fs[s]]
    PROVE  /\ FilesOk(gs) /\ Len(gs) = Len(fs) /\ Extends(fs, gs)
           /\ \A s \in 1..Len(fs) : /\ gs[s].lines = fs[s].lines /\ gs[s].torn = fs[s].torn
                                    /\ fs[s].synced <= gs[s].synced
<1>1. Len(fs) \in Nat /\ DOMAIN fs = 1..Len(fs)
  BY LenProperties DEF FilesOk
<1>2. \A s \in 1..Len(fs) : FileOk(fs[s]) /\ fs[s].synced <= Len(fs[s].lines)
      /\ Len(fs[s].lines) \in Nat
                            /\ fs[s].synced \in Nat
  BY FileOf
<1>3. \A s \in 1..Len(fs) : /\ FileOk(gs[s]) /\ gs[s].lines = fs[s].lines /\ gs[s].torn = fs[s].torn
                            /\ fs[s].synced <= gs[s].synced
  <2>1. SUFFICES ASSUME NEW s \in 1..Len(fs)
                 PROVE  /\ FileOk(gs[s]) /\ gs[s].lines = fs[s].lines /\ gs[s].torn = fs[s].torn
                        /\ fs[s].synced <= gs[s].synced
    OBVIOUS
  <2>2. gs[s] = IF s \in S THEN Synced(fs[s]) ELSE fs[s]
    BY <1>1
  <2>3. /\ FileOk(Synced(fs[s])) /\ Synced(fs[s]).torn = fs[s].torn
        /\ Synced(fs[s]).lines = fs[s].lines /\ Synced(fs[s]).synced = Len(fs[s].lines)
    BY <1>2, SyncedOk
  <2> HIDE DEF Synced
  <2> QED  BY <1>2, <2>2, <2>3
<1>4. gs \in [1..Len(fs) -> FileType]
  BY <1>1, <1>3 DEF FileOk
<1>5. gs \in Seq(FileType) /\ Len(gs) = Len(fs)
  <2>1. PICK n : n = Len(fs)
    OBVIOUS
  <2> QED  BY <1>1, <1>4, <2>1, SeqDef, LenProperties
<1>6. FilesOk(gs)
  BY <1>3, <1>5 DEF FilesOk, FileOk
<1>7. Extends(fs, gs)
  BY <1>1, <1>2, <1>3, <1>5 DEF Extends
<1> QED  BY <1>3, <1>5, <1>6, <1>7

\* A submission, and the line it is stored as.
LEMMA StoredLine ==
    ASSUME scenario \in Scenarios, NEW c \in Capsule, NEW sub \in scenario.submissions
    PROVE  /\ sub \in Submission /\ sub.consequential \in BOOLEAN /\ Stored(c, sub) \in Line
           /\ Stored(c, sub).id = c /\ (sub.mode = "signed") \in BOOLEAN
           /\ Stored(c, sub).proof = (sub.mode = "signed" \/ sub.embedded)
<1>1. sub \in Submission
  BY LedgerAssumption
<1>2. sub.consequential \in BOOLEAN /\ sub.embedded \in BOOLEAN
  BY <1>1 DEF Submission
<1> QED  BY <1>1, <1>2 DEF Stored, Line

\* append's write, and its failures.
LEMMA WriteFiles ==
    ASSUME FilesOk(files), Active \in 1..Len(files), NEW line \in Line, NEW q \in BOOLEAN,
           NEW gs, \/ gs = files \/ PutAt(gs, files, Active, Written(files[Active], line, q))
                   \/ PutAt(gs, files, Active, AddLine(files[Active], line))
                   \/ PutAt(gs, files, Active, [files[Active] EXCEPT !.torn = TRUE])
                   \/ PutAt(gs, files, Active, [files[Active] EXCEPT !.torn = FALSE])
    PROVE  FilesOk(gs) /\ Len(gs) = Len(files) /\ Extends(files, gs)
<1>1. PICK n : n = Active
  OBVIOUS
<1>2. FileOk(files[n]) /\ Len(files[n].lines) \in Nat /\ n \in 1..Len(files)
  BY <1>1, FileOf
<1>3. CASE gs = files
  BY <1>3, SameExtends
<1>4. CASE PutAt(gs, files, Active, Written(files[Active], line, q))
  <2>1. PICK f : f = Written(files[n], line, q)
    OBVIOUS
  <2>2. /\ FileOk(f) /\ Len(f.lines) = Len(files[n].lines) + 1
        /\ \A o \in 1..Len(files[n].lines) : f.lines[o] = files[n].lines[o]
    BY <1>2, <2>1, WrittenOk
  <2>3. PutAt(gs, files, n, f) /\ Len(files[n].lines) <= Len(f.lines)
    BY <1>1, <1>2, <1>4, <2>1, <2>2
  <2> QED  BY <1>2, <2>2, <2>3, PutExtends
<1>5. CASE PutAt(gs, files, Active, AddLine(files[Active], line))
  <2>1. PICK f : f = AddLine(files[n], line)
    OBVIOUS
  <2>2. /\ FileOk(f) /\ Len(f.lines) = Len(files[n].lines) + 1
        /\ \A o \in 1..Len(files[n].lines) : f.lines[o] = files[n].lines[o]
    BY <1>2, <2>1, AddLineOk
  <2>3. PutAt(gs, files, n, f) /\ Len(files[n].lines) <= Len(f.lines)
    BY <1>1, <1>2, <1>5, <2>1, <2>2
  <2> QED  BY <1>2, <2>2, <2>3, PutExtends
<1>6. ASSUME NEW t \in BOOLEAN, PutAt(gs, files, Active, [files[Active] EXCEPT !.torn = t])
      PROVE  FilesOk(gs) /\ Len(gs) = Len(files) /\ Extends(files, gs)
  <2>1. PICK f : f = [files[n] EXCEPT !.torn = t]
    OBVIOUS
  <2>2. FileOk(f) /\ f.lines = files[n].lines
    BY <1>2, <2>1, TornOk
  <2>3. PutAt(gs, files, n, f) /\ Len(files[n].lines) <= Len(f.lines)
        /\ \A o \in 1..Len(files[n].lines) : f.lines[o] = files[n].lines[o]
    BY <1>1, <1>2, <1>6, <2>1, <2>2
  <2> QED  BY <1>2, <2>2, <2>3, PutExtends
<1> QED  BY <1>3, <1>4, <1>5, <1>6

\* The file a rotation opens, or finds.
LEMMA RotateFiles ==
    ASSUME FilesOk(files), Active \in 1..Len(files), Rotate
    PROVE  /\ FilesOk(files') /\ Extends(files, files')
           /\ Len(files) <= Len(files')
           /\ Len(files') = IF Len(manifest.segs) + 1 \in 1..Len(files) THEN Len(files)
              ELSE Len(files) + 1
           /\ \A s \in 1..Len(files) : files'[s] = IF s = Active THEN Synced(files[s]) ELSE files[s]
           /\ Len(manifest.segs) + 1 \notin 1..Len(files) => files'[Len(files) + 1] = EmptyFile
<1>1. PICK gs : PutAt(gs, files, Active, Synced(files[Active]))
  BY DEF PutAt
<1>2. /\ FilesOk(gs) /\ Extends(files, gs) /\ Len(gs) = Len(files)
  BY <1>1, SyncedExtends
<1>3. \A s \in 1..Len(files) : gs[s] = IF s = Active THEN Synced(files[s]) ELSE files[s]
  <2>1. FileOk(files[Active])
    BY FileOf
  <2>2. FileOk(Synced(files[Active]))
    BY <2>1, SyncedOk
  <2> HIDE DEF Synced, Active
  <2>3. \A s \in 1..Len(files) : gs[s] = IF s = Active THEN Synced(files[Active]) ELSE files[s]
    BY <1>1, <2>2, FilesPut
  <2> QED  BY <2>3
<1>4. /\ Len(files) \in Nat /\ DOMAIN files = 1..Len(files)
  BY LenProperties DEF FilesOk
<1>5. files' = IF Len(manifest.segs) + 1 \in 1..Len(files) THEN gs ELSE Append(gs, EmptyFile)
  BY <1>1, <1>4 DEF Rotate, PutAt
<1>6. /\ FilesOk(Append(gs, EmptyFile)) /\ Extends(gs, Append(gs, EmptyFile))
      /\ Len(Append(gs, EmptyFile)) = Len(gs) + 1
      /\ \A t \in 1..Len(gs) : Append(gs, EmptyFile)[t] = gs[t]
      /\ Append(gs, EmptyFile)[Len(gs) + 1] = EmptyFile
  BY <1>2, AddExtends, FilesAdd, EmptyFileOk
<1>7. Extends(files, Append(gs, EmptyFile))
  BY <1>2, <1>6, ExtendsTrans
<1>8. CASE Len(manifest.segs) + 1 \in 1..Len(files)
  <2>1. files' = gs
    BY <1>5, <1>8
  <2> HIDE DEF Synced, Active
  <2> QED  BY <1>2, <1>3, <1>4, <1>8, <2>1
<1>9. CASE Len(manifest.segs) + 1 \notin 1..Len(files)
  <2>1. PICK hs : hs = Append(gs, EmptyFile)
    OBVIOUS
  <2>2. files' = hs
    BY <1>5, <1>9, <2>1
  <2> HIDE DEF Synced, Active
  <2> QED  BY <1>2, <1>3, <1>4, <1>6, <1>7, <1>9, <2>1, <2>2
<1> QED  BY <1>8, <1>9

\* What a loss of power leaves: of each file the lines that were fsynced, and
\* perhaps more.
Survives(fs, gs) ==
    /\ Len(gs) = Len(fs)
    /\ \A s \in 1..Len(fs) :
          /\ fs[s].synced <= Len(gs[s].lines) /\ Len(gs[s].lines) <= Len(fs[s].lines)
          /\ fs[s].synced <= gs[s].synced
          /\ \A o \in 1..Len(gs[s].lines) : gs[s].lines[o] = fs[s].lines[o]
          /\ gs[s].torn => Len(gs[s].lines) < Len(fs[s].lines) \/ fs[s].torn

\* A loss of power leaves of each file a prefix with its durable lines.
LEMMA PowerFiles ==
    ASSUME FilesOk(files), PowerLoss
    PROVE  FilesOk(files') /\ Survives(files, files')
<1>1. /\ Len(files) \in Nat /\ DOMAIN files = 1..Len(files)
  BY LenProperties DEF FilesOk
<1>2. PICK s \in 1..Len(files), torn \in BOOLEAN :
        \E n \in files[s].synced..Len(files[s].lines) :
            /\ torn => n < Len(files[s].lines) \/ files[s].torn
            /\ files' = [files EXCEPT ![s] = [lines |-> SubSeq(files[s].lines, 1, n),
                                              torn |-> torn, synced |-> n]]
  BY <1>1 DEF PowerLoss
<1>3. PICK n \in files[s].synced..Len(files[s].lines) :
            /\ torn => n < Len(files[s].lines) \/ files[s].torn
            /\ files' = [files EXCEPT ![s] = [lines |-> SubSeq(files[s].lines, 1, n),
                                              torn |-> torn, synced |-> n]]
  BY <1>2
<1>4. FileOk(files[s])
  BY FileOf
<1>5. PICK f : f = [lines |-> SubSeq(files[s].lines, 1, n), torn |-> torn, synced |-> n]
  OBVIOUS
<1>6. /\ FileOk(f) /\ Len(f.lines) = n /\ n \in Nat /\ n <= Len(files[s].lines) /\ files[s].synced <= n
      /\ f.torn = torn /\ f.synced = n
      /\ \A o \in 1..n : f.lines[o] = files[s].lines[o]
  BY <1>4, <1>5, TruncatedOk
<1>7. PICK gs : gs = files'
  OBVIOUS
<1>8. PutAt(gs, files, s, f)
  BY <1>3, <1>5, <1>7 DEF PutAt
<1>9. FilesOk(gs) /\ Len(gs) = Len(files)
      /\ \A t \in 1..Len(files) : gs[t] = IF t = s THEN f ELSE files[t]
  BY <1>6, <1>8, FilesPut
<1>10. \A t \in 1..Len(files) : /\ files[t].synced <= Len(files[t].lines) /\ files[t].synced \in Nat
                               /\ Len(files[t].lines) \in Nat
  BY FileOf
<1>11. Survives(files, gs)
  <2>1. SUFFICES ASSUME NEW t \in 1..Len(files)
                 PROVE  /\ files[t].synced <= Len(gs[t].lines)
                        /\ Len(gs[t].lines) <= Len(files[t].lines)
                        /\ files[t].synced <= gs[t].synced
                        /\ \A o \in 1..Len(gs[t].lines) : gs[t].lines[o] = files[t].lines[o]
                        /\ gs[t].torn => Len(gs[t].lines) < Len(files[t].lines) \/ files[t].torn
    BY <1>9 DEF Survives
  <2>2. CASE t = s
    BY <1>3, <1>6, <1>9, <2>2
  <2>3. CASE t # s
    BY <1>9, <1>10, <2>3
  <2> QED  BY <2>2, <2>3
<1> QED  BY <1>7, <1>9, <1>11

\* The files after any step.
LEMMA FilesStep ==
    ASSUME FilesOk(files), status # "down" => Active \in 1..Len(files), scenario \in Scenarios,
           LedgerNext
    PROVE  /\ FilesOk(files') /\ Len(files) <= Len(files')
           /\ PowerLoss \/ Extends(files, files')
<1>1. /\ Len(files) \in Nat /\ DOMAIN files = 1..Len(files)
  BY LenProperties DEF FilesOk
<1> SUFFICES FilesOk(files') /\ ((PowerLoss /\ Len(files) <= Len(files')) \/ Extends(files, files'))
  BY DEF Extends
<1>2. CASE files' = files
  BY <1>2, SameExtends
<1>3. CASE Open
  <2>1. files' = files \/ (files = <<>> /\ files' = <<EmptyFile>>)
    BY <1>3 DEF Open
  <2>2. CASE files = <<>> /\ files' = <<EmptyFile>>
    <3>1. Append(<<>>, EmptyFile) = <<EmptyFile>>
      OBVIOUS
    <3> QED  BY <2>2, <3>1, AddExtends, EmptyFileOk
  <2> QED  BY <1>2, <2>1, <2>2
<1>4. CASE PowerLoss
  <2>1. FilesOk(files') /\ Len(files') = Len(files)
    BY <1>4, PowerFiles DEF Survives
  <2> QED  BY <1>1, <1>4, <2>1
<1>5. CASE Rotate
  BY <1>5, RotateFiles DEF Rotate
<1>6. CASE RotateRaises
  <2>1. status # "down" /\ (files' = files \/ PutAt(files', files, Active, Synced(files[Active])))
    BY <1>6 DEF RotateRaises, PutAt
  <2> QED  BY <2>1, SyncedExtends, SameExtends
<1>7. CASE RecoverStart
  <2>1. status # "down" /\ (\/ files' = files \/ PutAt(files', files, Active, Synced(files[Active]))
                            \/ PutAt(files', files, Active, files[Active]))
    BY <1>7 DEF RecoverStart, PutAt
  <2>2. FileOk(files[Active]) /\ Len(files[Active].lines) \in Nat
    BY <2>1, FileOf
  <2>3. ASSUME PutAt(files', files, Active, files[Active])
        PROVE  FilesOk(files') /\ Extends(files, files')
    BY <2>1, <2>2, <2>3, PutExtends
  <2> QED  BY <2>1, <2>3, SyncedExtends, SameExtends
<1>8. CASE RecoverEnd
  <2>1. status # "down" /\ PutAt(files', files, Active, [files[Active] EXCEPT !.torn = FALSE])
    BY <1>8 DEF RecoverEnd, PutAt
  <2>3. FileOk(files[Active]) /\ FileOk([files[Active] EXCEPT !.torn = FALSE])
        /\ [files[Active] EXCEPT !.torn = FALSE].lines = files[Active].lines
    BY <2>1, FileOf, TornOk
  <2>4. PICK f : f = [files[Active] EXCEPT !.torn = FALSE]
    OBVIOUS
  <2>5. /\ FileOk(f) /\ PutAt(files', files, Active, f) /\ Len(files[Active].lines) <= Len(f.lines)
        /\ \A o \in 1..Len(files[Active].lines) : f.lines[o] = files[Active].lines[o]
    BY <2>1, <2>3, <2>4, FileOf
  <2> QED  BY <2>1, <2>5, PutExtends
<1>9. CASE Reindex
  <2>1. PICK gs : gs = files'
    OBVIOUS
  <2>2. PICK S : S = Segments
    OBVIOUS
  <2>3. gs = [s \in DOMAIN files |-> IF s \in S THEN Synced(files[s]) ELSE files[s]]
    BY <1>9, <2>1, <2>2 DEF Reindex
  <2>4. FilesOk(gs) /\ Extends(files, gs)
    BY <2>3, ReindexFiles
  <2> QED  BY <2>1, <2>4
<1>10. ASSUME NEW c \in Capsule, NEW sub \in scenario.submissions,
              AppendLine(c, sub) \/ AppendFails(c, sub)
       PROVE  FilesOk(files') /\ Extends(files, files')
  <2>1. Stored(c, sub) \in Line /\ sub.consequential \in BOOLEAN
    BY StoredLine
  <2>2. /\ status # "down"
        /\ \/ files' = files
           \/ PutAt(files', files, Active, Written(files[Active], Stored(c, sub), sub.consequential))
           \/ PutAt(files', files, Active, AddLine(files[Active], Stored(c, sub)))
           \/ PutAt(files', files, Active, [files[Active] EXCEPT !.torn = TRUE])
    BY <1>10 DEF AppendLine, AppendFails, MayAppend, PutAt
  <2>3. PICK gs : gs = files'
    OBVIOUS
  <2>4. PICK line : line = Stored(c, sub)
    OBVIOUS
  <2>5. PICK q : q = sub.consequential
    OBVIOUS
  <2>6. FilesOk(gs) /\ Extends(files, gs)
    <3>1. /\ line \in Line /\ q \in BOOLEAN
          /\ \/ gs = files
             \/ PutAt(gs, files, Active, Written(files[Active], line, q))
             \/ PutAt(gs, files, Active, AddLine(files[Active], line))
             \/ PutAt(gs, files, Active, [files[Active] EXCEPT !.torn = TRUE])
      BY <2>1, <2>2, <2>3, <2>4, <2>5
    <3> QED  BY <2>2, <3>1, WriteFiles
  <2> QED  BY <2>3, <2>6
<1> QED  BY <1>2, <1>3, <1>4, <1>5, <1>6, <1>7, <1>8, <1>9, <1>10, FilesChange

-----------------------------------------------------------------------------
(***************************************************************************)
(* Manifests, rows and seals.                                              *)
(***************************************************************************)
\* A manifest lists the segments up to the active one, and their files are there.
ManifestOk(m, fs) == m \in ManifestType /\ m.active = Len(m.segs) /\ m.active \in 1..Len(fs)

\* What is known of a manifest and its entries.
LEMMA ManifestOf ==
    ASSUME NEW fs, NEW m, ManifestOk(m, fs)
    PROVE  /\ m.active \in Nat /\ m.active >= 1 /\ Len(m.segs) = m.active /\ DOMAIN m.segs = 1..m.active
           /\ m.segs \in Seq(EntryType) /\ m = [active |-> m.active, segs |-> m.segs]
           /\ \A s \in 1..m.active : /\ m.segs[s] \in EntryType /\ m.segs[s].mounted \in BOOLEAN
                                     /\ m.segs[s].sealed \in SealType \cup {None}
                                     /\ m.segs[s] = [mounted |-> m.segs[s].mounted,
                                        sealed |-> m.segs[s].sealed]
<1>1. m.segs \in Seq(EntryType) /\ m.active \in Nat /\ m = [active |-> m.active, segs |-> m.segs]
  BY DEF ManifestOk, ManifestType
<1>2. DOMAIN m.segs = 1..Len(m.segs) /\ \A s \in 1..Len(m.segs) : m.segs[s] \in EntryType
  BY <1>1, LenProperties, ElementOfSeq
<1>3. \A e \in EntryType : /\ e.mounted \in BOOLEAN /\ e.sealed \in SealType \cup {None}
                           /\ e = [mounted |-> e.mounted, sealed |-> e.sealed]
  BY DEF EntryType
<1> QED  BY <1>1, <1>2, <1>3 DEF ManifestOk

\* A manifest with another entry for one of its segments.
EntryAt(ms, m, s, e) == ms = [active |-> m.active, segs |-> [m.segs EXCEPT ![s] = e]]

\* A manifest with one entry replaced,
LEMMA EntryPut ==
    ASSUME NEW fs, NEW m, ManifestOk(m, fs), NEW s \in 1..m.active, NEW e \in EntryType,
           NEW ms, EntryAt(ms, m, s, e)
    PROVE  /\ ManifestOk(ms, fs) /\ ms.active = m.active
           /\ \A t \in 1..m.active : ms.segs[t] = IF t = s THEN e ELSE m.segs[t]
<1>1. m.active \in Nat /\ Len(m.segs) = m.active /\ DOMAIN m.segs = 1..m.active
      /\ m.segs \in Seq(EntryType)
  BY ManifestOf
<1>2. PICK q : q = [m.segs EXCEPT ![s] = e]
  OBVIOUS
<1>3. PICK n : n = m.active
  OBVIOUS
<1>4. m.segs \in [1..n -> EntryType]
  BY <1>1, <1>3, LenProperties
<1>5. q \in [1..n -> EntryType] /\ n \in Nat /\ \A t \in 1..n : q[t] = IF t = s THEN e ELSE m.segs[t]
  BY <1>1, <1>2, <1>3, <1>4
<1>6. q \in Seq(EntryType) /\ Len(q) = n
  BY <1>5, SeqDef, LenProperties
<1>7. ms = [active |-> n, segs |-> q]
  BY <1>2, <1>3 DEF EntryAt
<1> QED  BY <1>3, <1>5, <1>6, <1>7 DEF ManifestOk, ManifestType

\* A manifest with a new active segment.
EntryAdded(ms, m) == ms = [active |-> Len(m.segs) + 1, segs |-> Append(m.segs, NewEntry)]

\* with a new active segment,
LEMMA ManifestAdd ==
    ASSUME NEW fs, NEW m, ManifestOk(m, fs), NEW gs, Len(gs) \in Nat, m.active + 1 <= Len(gs),
           NEW ms, EntryAdded(ms, m)
    PROVE  /\ ManifestOk(ms, gs) /\ ms.active = m.active + 1
           /\ \A t \in 1..m.active : ms.segs[t] = m.segs[t]
           /\ ms.segs[m.active + 1] = NewEntry
<1>1. m.active \in Nat /\ m.active >= 1 /\ Len(m.segs) = m.active /\ m.segs \in Seq(EntryType)
  BY ManifestOf
<1>2. NewEntry \in EntryType
  BY DEF NewEntry, EntryType
<1>3. PICK q : q = Append(m.segs, NewEntry)
  OBVIOUS
<1>4. /\ q \in Seq(EntryType) /\ Len(q) = m.active + 1
      /\ \A t \in 1..m.active : q[t] = m.segs[t]
      /\ q[m.active + 1] = NewEntry
  BY <1>1, <1>2, <1>3, AppendProperties
<1>5. ms = [active |-> m.active + 1, segs |-> q]
  BY <1>1, <1>3 DEF EntryAdded
<1> HIDE DEF NewEntry
<1> QED  BY <1>1, <1>4, <1>5 DEF ManifestOk, ManifestType

\* or beside more files is one again.
LEMMA ManifestKept ==
    ASSUME NEW fs, NEW m, ManifestOk(m, fs), NEW gs, Len(fs) \in Nat, Len(gs) \in Nat,
           Len(fs) <= Len(gs)
    PROVE  ManifestOk(m, gs)
<1>1. m.active \in Nat
  BY ManifestOf
<1> QED  BY <1>1 DEF ManifestOk

-----------------------------------------------------------------------------

\* The rows of the records index name segments that are there.
RowsTyped(rs, fs) ==
    rs \in Seq(RowType) /\ \A i \in 1..Len(rs) : rs[i].seg \in 1..Len(fs) /\ rs[i].off >= 1

\* What is known of each row.
LEMMA RowOf ==
    ASSUME NEW fs, NEW rs, RowsTyped(rs, fs)
    PROVE  /\ Len(rs) \in Nat /\ DOMAIN rs = 1..Len(rs)
           /\ \A i \in 1..Len(rs) :
                 /\ rs[i] \in RowType /\ rs[i].id \in Capsule /\ rs[i].seg \in 1..Len(fs)
                 /\ rs[i].seg \in Nat /\ rs[i].off \in Nat /\ rs[i].off >= 1 /\ rs[i].signed \in BOOLEAN
<1>1. rs \in Seq(RowType)
  BY DEF RowsTyped
<1>2. Len(rs) \in Nat /\ DOMAIN rs = 1..Len(rs) /\ \A i \in 1..Len(rs) : rs[i] \in RowType
  BY <1>1, LenProperties, ElementOfSeq
<1>3. \A r \in RowType : r.id \in Capsule /\ r.seg \in Nat /\ r.off \in Nat /\ r.signed \in BOOLEAN
  BY DEF RowType
<1> QED  BY <1>2, <1>3 DEF RowsTyped

\* The ids of the records, one sequence.
LEMMA SyncedMmrOf ==
    ASSUME NEW fs, RowsTyped(records, fs), mmr \in Seq(Capsule)
    PROVE  /\ SyncedMmr \in Seq(Capsule) /\ Len(SyncedMmr) >= Len(records)
           /\ Len(mmr) <= Len(records) =>
                /\ Len(SyncedMmr) = Len(records)
                /\ \A i \in 1..Len(mmr) : SyncedMmr[i] = mmr[i]
                /\ \A i \in 1..Len(records) : i > Len(mmr) => SyncedMmr[i] = records[i].id
<1>1. /\ Len(records) \in Nat /\ Len(mmr) \in Nat
      /\ \A i \in 1..Len(records) : records[i].id \in Capsule
  BY RowOf, LenProperties
<1>2. PICK n : n = Len(records) - Len(mmr)
  OBVIOUS
<1>3. PICK t : t = [i \in 1..n |-> records[Len(mmr) + i].id]
  OBVIOUS
<1>4. SyncedMmr = mmr \o t
  BY <1>2, <1>3 DEF SyncedMmr
<1>5. PICK k : k = IF n < 0 THEN 0 ELSE n
  OBVIOUS
<1>6. k \in Nat /\ 1..n = 1..k /\ \A i \in 1..k : Len(mmr) + i \in 1..Len(records)
  BY <1>1, <1>2, <1>5
<1>7. t \in [1..k -> Capsule]
  BY <1>1, <1>3, <1>6
<1>8. t \in Seq(Capsule) /\ Len(t) = k
  BY <1>6, <1>7, SeqDef, LenProperties
<1>9. /\ mmr \o t \in Seq(Capsule) /\ Len(mmr \o t) = Len(mmr) + Len(t)
      /\ \A i \in 1..(Len(mmr) + Len(t)) : (mmr \o t)[i] = IF i <= Len(mmr) THEN mmr[i]
         ELSE t[i - Len(mmr)]
  BY ONLY <1>8, mmr \in Seq(Capsule), ConcatProperties
<1>10. ASSUME Len(mmr) <= Len(records)
       PROVE  /\ Len(mmr \o t) = Len(records)
              /\ \A i \in 1..Len(mmr) : (mmr \o t)[i] = mmr[i]
              /\ \A i \in 1..Len(records) : i > Len(mmr) => (mmr \o t)[i] = records[i].id
  <2>1. k = n /\ Len(mmr) + Len(t) = Len(records)
    BY <1>1, <1>2, <1>5, <1>8, <1>10
  <2>2. ASSUME NEW i \in 1..Len(records), i > Len(mmr) PROVE (mmr \o t)[i] = records[i].id
    <3>1. (mmr \o t)[i] = t[i - Len(mmr)]
      BY <1>1, <1>9, <2>1, <2>2
    <3>2. i - Len(mmr) \in 1..n /\ Len(mmr) + (i - Len(mmr)) = i
      BY <1>1, <1>2, <2>2
    <3> QED  BY <1>3, <3>1, <3>2
  <2> QED  BY <1>1, <1>9, <2>1, <2>2
<1>11. Len(mmr \o t) >= Len(records)
  BY <1>1, <1>2, <1>5, <1>8, <1>9
<1> QED  BY <1>4, <1>9, <1>10, <1>11

\* The seqs of the active segment: the newest record is one of them.
LEMMA NewestSeq ==
    ASSUME NEW fs, RowsTyped(records, fs), NEW s, records # <<>>, records[Len(records)].seg = s
    PROVE  /\ Seqs(s) \subseteq 1..Len(records) /\ Len(records) \in Seqs(s) /\ Len(records) >= 1
           /\ Max(Seqs(s)) = Len(records) /\ Min(Seqs(s)) \in Seqs(s)
           /\ \A i \in Seqs(s) : Min(Seqs(s)) <= i
           /\ IsFiniteSet(Seqs(s)) /\ Cardinality(Seqs(s)) \in Nat
<1>1. Len(records) \in Nat /\ DOMAIN records = 1..Len(records)
  BY RowOf
<1>2. Len(records) >= 1
  BY <1>1, EmptySeq DEF RowsTyped
<1>3. Seqs(s) \subseteq 1..Len(records) /\ Len(records) \in Seqs(s)
  BY <1>1, <1>2 DEF Seqs
<1>4. PICK S : S = Seqs(s)
  OBVIOUS
<1>5. Max(S) = Len(records)
  <2>1. \A x \in S : (\A y \in S : x >= y) <=> x = Len(records)
    BY <1>1, <1>3, <1>4
  <2> QED  BY <1>3, <1>4, <2>1 DEF Max
<1>6. Min(S) \in S /\ \A i \in S : Min(S) <= i
  <2>1. S \in SUBSET Nat /\ S # {}
    BY <1>1, <1>3, <1>4
  <2>2. \E m \in S : \A k \in S : m <= k
    BY <2>1, LeastOfNats
  <2> QED  BY <2>2 DEF Min
<1>7. IsFiniteSet(S) /\ Cardinality(S) \in Nat
  <2>1. IsFiniteSet(1..Len(records))
    BY <1>1, FS_Interval
  <2>2. S \in SUBSET (1..Len(records))
    BY <1>3, <1>4
  <2>3. IsFiniteSet(S)
    BY <2>1, <2>2, FS_Subset
  <2> QED  BY <2>3, FS_CardinalityType
<1> QED  BY <1>2, <1>3, <1>4, <1>5, <1>6, <1>7

\* What _rotate_segment writes when it closes a segment is a seal.
LEMMA SealTyped ==
    ASSUME FilesOk(files), RowsTyped(records, files), NEW s \in 1..Len(files), records # <<>>,
           records[Len(records)].seg = s, NEW leaves \in Seq(Capsule)
    PROVE  Seal(s, leaves) \in SealType
<1>1. /\ Seqs(s) \subseteq 1..Len(records) /\ Max(Seqs(s)) = Len(records) /\ Min(Seqs(s)) \in Seqs(s)
      /\ Cardinality(Seqs(s)) \in Nat
  BY NewestSeq
<1>2. files[s].lines \in Seq(Line) /\ Len(records) \in Nat
  BY FileOf, RowOf
<1>3. Min(Seqs(s)) \in Nat /\ Max(Seqs(s)) \in Nat
  BY <1>1, <1>2
<1> QED  BY <1>1, <1>2, <1>3 DEF Seal, SealType

-----------------------------------------------------------------------------
(***************************************************************************)
(* The first inductive invariant: types, and what each index row names.    *)
(***************************************************************************)
\* A set of numbers up to a bound has a greatest one.
LEMMA GreatestOfNats ==
    ASSUME NEW B \in Nat, NEW S \in SUBSET (0..B), S # {}
    PROVE  Max(S) \in S /\ \A y \in S : y <= Max(S)
<1> DEFINE T == {k \in 0..B : B - k \in S}
<1>1. T \in SUBSET Nat /\ T # {}
  <2>1. PICK x \in S : TRUE
    OBVIOUS
  <2>2. PICK z : z = B - x
    OBVIOUS
  <2>3. z \in 0..B /\ B - z = x
    BY <2>1, <2>2
  <2>4. z \in T
    BY <2>1, <2>3
  <2>5. \A k \in T : k \in Nat
    OBVIOUS
  <2> HIDE DEF T
  <2> QED  BY <2>4, <2>5
<1>2. PICK m \in T : \A k \in T : m <= k
  BY <1>1, LeastOfNats
<1>3. B - m \in S /\ \A y \in S : B - m >= y
  <2>1. ASSUME NEW y \in S PROVE B - m >= y
    <3>1. PICK z : z = B - y
      OBVIOUS
    <3>2. z \in 0..B /\ B - z = y
      BY <2>1, <3>1
    <3>3. z \in T
      BY <2>1, <3>2
    <3>4. m <= z
      BY <1>2, <3>3
    <3> QED  BY <3>1, <3>2, <3>4
  <2> QED  BY <2>1
<1>4. \E x \in S : \A y \in S : x >= y
  BY <1>3
<1>5. Max(S) \in S /\ \A y \in S : Max(S) >= y
  BY <1>4 DEF Max
<1> QED  BY <1>5

\* The last indexed line of the active segment: 0, or the offset of a row.
LEMMA LastIndexedOf ==
    ASSUME NEW fs, RowsTyped(records, fs)
    PROVE  /\ LastIndexed \in Nat
           /\ \A i \in 1..Len(records) : records[i].seg = Active => records[i].off <= LastIndexed
           /\ \/ LastIndexed = 0
              \/ \E i \in 1..Len(records) : records[i].seg = Active /\ records[i].off = LastIndexed
<1>1. /\ Len(records) \in Nat /\ DOMAIN records = 1..Len(records)
      /\ \A i \in 1..Len(records) : records[i].off \in Nat /\ records[i].off >= 1
  BY RowOf
<1>2. PICK B \in Nat : \A i \in 1..Len(records) : records[i].off <= B
  <2> DEFINE Bounded(k) == \E B \in Nat : \A i \in 1..k : records[i].off <= B
             A == {k \in Nat : k <= Len(records) => Bounded(k)}
  <2>1. 0 \in A
    <3>1. Bounded(0)
      OBVIOUS
    <3> QED  BY <3>1
  <2>2. ASSUME NEW k \in Nat, k \in A PROVE k + 1 \in A
    <3> HIDE DEF Bounded
    <3>1. SUFFICES ASSUME k + 1 <= Len(records) PROVE Bounded(k + 1)
      OBVIOUS
    <3>21. Bounded(k)
      BY <1>1, <2>2, <3>1
    <3> USE DEF Bounded
    <3>2. PICK B \in Nat : \A i \in 1..k : records[i].off <= B
      BY <3>21
    <3>3. k + 1 \in 1..Len(records)
      BY <1>1, <3>1
    <3>4. B + records[k + 1].off \in Nat
      BY <1>1, <3>3
    <3>5. \A i \in 1..(k + 1) : records[i].off <= B + records[k + 1].off
      <4>1. ASSUME NEW i \in 1..(k + 1) PROVE records[i].off <= B + records[k + 1].off
        <5>1. i = k + 1 \/ i \in 1..k
          OBVIOUS
        <5>2. i \in 1..Len(records) /\ records[i].off \in Nat /\ records[k + 1].off \in Nat
          BY <1>1, <3>1, <3>3
        <5> QED  BY <3>2, <5>1, <5>2
      <4> QED  BY <4>1
    <3> QED  BY <3>4, <3>5
  <2> HIDE DEF A
  <2>3. Nat \subseteq A
    BY <2>1, <2>2, SetInduction
  <2>4. Len(records) \in A
    BY <1>1, <2>3
  <2> HIDE DEF Bounded
  <2>5. Bounded(Len(records))
    BY <1>1, <2>4 DEF A
  <2> QED  BY <2>5 DEF Bounded
<1>3. PICK S : S = Offsets(Active)
  OBVIOUS
<1>4. /\ \A i \in 1..Len(records) : records[i].seg = Active => records[i].off \in S
      /\ \A x \in S : \E i \in 1..Len(records) : records[i].seg = Active /\ records[i].off = x
  BY <1>1, <1>3 DEF Offsets
<1>5. S \in SUBSET (0..B)
  BY <1>1, <1>2, <1>4
<1>6. LastIndexed = IF S = {} THEN 0 ELSE Max(S)
  BY <1>3 DEF LastIndexed
<1>7. S # {} => Max(S) \in S /\ \A y \in S : y <= Max(S)
  BY <1>5, GreatestOfNats
<1>8. S # {} => Max(S) \in Nat
  <2>1. \A x \in S : x \in Nat
    BY <1>5
  <2> QED  BY <1>7, <2>1, Zenon
<1> HIDE DEF Active
<1> QED  BY <1>4, <1>6, <1>7, <1>8

-----------------------------------------------------------------------------

\* The points between two steps of the store.
Statuses == {"down", "create", "opened", "ready", "insert", "lookup", "rotate", "save", "catchup",
             "tail", "taillookup"}

\* The line a row names is there, and of the row's record.
Names(fs, row) == row.off <= Len(fs[row.seg].lines) /\ fs[row.seg].lines[row.off].id = row.id

\* The lookup index is finite, and its rows name segments that are there.
LookupTyped(lk, fs) ==
    /\ DOMAIN lk \in SUBSET (Nat \ {0}) /\ IsFiniteSet(DOMAIN lk)
    /\ \A i \in DOMAIN lk : lk[i] \in LookupRowType /\ lk[i].seg \in 1..Len(fs) /\ lk[i].off >= 1

\* What append and recover are doing.
Working ==
    /\ status = "insert" =>
          /\ pending \in PendingType /\ pending.id \notin Ids /\ ~needsRecover
          /\ Len(files[Active].lines) >= 1
          /\ files[Active].lines[Len(files[Active].lines)].id = pending.id
    /\ status \in {"lookup", "rotate"} =>
          /\ pending \in PendingType /\ pending.seq = Len(records) /\ Len(records) >= 1
          /\ records[Len(records)].id = pending.id /\ records[Len(records)].seg = Active
          /\ ~needsRecover
    /\ status = "save" =>
          \/ pending = None
          \/ /\ pending \in PendingType /\ pending.seq \in 1..Len(records)
             /\ records[pending.seq].id = pending.id
    /\ status \notin {"insert", "lookup", "rotate", "save"} => pending = None
    /\ status = "taillookup" => Len(records) >= 1
    /\ status \in {"catchup", "tail", "taillookup"} => cursor >= 1

\* The variables of the instance and the history have their types.
Memory ==
    /\ status \in Statuses
    /\ needsRecover \in BOOLEAN /\ lookupOn \in BOOLEAN
    /\ mmr \in Seq(Capsule)
    /\ cursor \in Nat
    /\ acked \in SUBSET PendingType
    /\ used \in [EventKind -> Nat]
    /\ scenario \in Scenarios

\* The manifests on disk and in memory.
Manifests ==
    /\ disk = None \/ ManifestOk(disk, files)
    /\ status # "down" => ManifestOk(manifest, files)

\* No id is indexed twice, and until power is lost each row of either index names its line.
Rows ==
    /\ RowsTyped(records, files) /\ DistinctIds(records)
    /\ LookupTyped(lookup, files)
    /\ used["power"] = 0 => /\ \A i \in 1..Len(records) : Names(files, records[i])
                            /\ \A i \in DOMAIN lookup : Names(files, lookup[i])

\* The first inductive invariant.
Sound == FilesOk(files) /\ Manifests /\ Rows /\ Memory /\ Working

\* A row still names its line when files are only added to.
LEMMA NamesKept ==
    ASSUME NEW fs, FilesOk(fs), NEW gs, FilesOk(gs), Extends(fs, gs), NEW row, row.seg \in 1..Len(fs),
           row.off \in Nat, row.off >= 1, Names(fs, row)
    PROVE  Names(gs, row)
<1>1. Len(fs) \in Nat /\ Len(gs) \in Nat
  BY LenProperties DEF FilesOk
<1>2. row.seg \in 1..Len(gs)
  BY <1>1 DEF Extends
<1>3. Len(fs[row.seg].lines) \in Nat /\ Len(gs[row.seg].lines) \in Nat
  BY <1>2, FileOf
<1>4. /\ Len(fs[row.seg].lines) <= Len(gs[row.seg].lines)
      /\ \A o \in 1..Len(fs[row.seg].lines) : gs[row.seg].lines[o] = fs[row.seg].lines[o]
  BY DEF Extends
<1>5. row.off \in 1..Len(fs[row.seg].lines)
  BY <1>3 DEF Names
<1>6. gs[row.seg].lines[row.off] = fs[row.seg].lines[row.off]
  BY <1>4, <1>5
<1> QED  BY <1>3, <1>4, <1>5, <1>6 DEF Names

\* It holds at the start.
LEMMA SoundInit == LedgerInit => Sound
<1> SUFFICES ASSUME LedgerInit PROVE Sound
  OBVIOUS
<1>1. FilesOk(files)
  BY EmptySeq DEF LedgerInit, FilesOk
<1>2. Manifests
  BY DEF LedgerInit, Manifests
<1>3. Rows
  <2>1. records = <<>> /\ lookup = NoLookup
    BY DEF LedgerInit
  <2>2. records \in Seq(RowType) /\ Len(records) = 0
    BY <2>1, EmptySeq
  <2>3. DOMAIN lookup = {}
    BY <2>1 DEF NoLookup
  <2>4. IsFiniteSet({})
    BY FS_EmptySet
  <2> QED  BY <2>2, <2>3, <2>4 DEF Rows, RowsTyped, DistinctIds, LookupTyped
<1>4. Memory
  BY EmptySeq DEF LedgerInit, Memory, Statuses
<1>5. Working
  BY DEF LedgerInit, Working
<1> QED  BY <1>1, <1>2, <1>3, <1>4, <1>5 DEF Sound

\* What the parts of the invariant say of one state.
LEMMA SoundFacts ==
    ASSUME Sound
    PROVE  /\ FilesOk(files) /\ Len(files) \in Nat /\ DOMAIN files = 1..Len(files)
           /\ Len(records) \in Nat /\ DOMAIN records = 1..Len(records) /\ RowsTyped(records, files)
           /\ \A i \in 1..Len(records) : records[i].seg \in 1..Len(files)
              /\ records[i].off \in Nat /\ records[i].off >= 1
           /\ mmr \in Seq(Capsule) /\ scenario \in Scenarios
           /\ status # "down" => /\ ManifestOk(manifest, files) /\ Active \in 1..Len(files)
                                 /\ Len(manifest.segs) = Active /\ Segments = 1..Active
<1>1. FilesOk(files) /\ RowsTyped(records, files) /\ mmr \in Seq(Capsule) /\ scenario \in Scenarios
      /\ (status # "down" => ManifestOk(manifest, files))
  BY DEF Sound, Manifests, Rows, Memory
<1>2. Len(files) \in Nat /\ DOMAIN files = 1..Len(files)
  BY <1>1, LenProperties DEF FilesOk
<1>3. /\ Len(records) \in Nat /\ DOMAIN records = 1..Len(records)
      /\ \A i \in 1..Len(records) : records[i].seg \in 1..Len(files) /\ records[i].off \in Nat
         /\ records[i].off >= 1
  BY <1>1, RowOf
<1>4. status # "down" => Len(manifest.segs) = manifest.active
      /\ DOMAIN manifest.segs = 1..manifest.active
                         /\ manifest.active \in 1..Len(files)
  BY <1>1, ManifestOf DEF ManifestOk
<1> QED  BY <1>1, <1>2, <1>3, <1>4 DEF Active, Segments

\* No step but a loss of power takes a line away.
LEMMA SoundFiles ==
    ASSUME Sound, LedgerNext
    PROVE  FilesOk(files') /\ Len(files) <= Len(files') /\ Len(files') \in Nat
           /\ (PowerLoss \/ Extends(files, files'))
<1>1. FilesOk(files') /\ Len(files) <= Len(files') /\ (PowerLoss \/ Extends(files, files'))
  BY SoundFacts, FilesStep
<1> QED  BY <1>1, LenProperties DEF FilesOk

-----------------------------------------------------------------------------

\* The seal of the segment that append filled.
LEMMA SealTypedHere ==
    ASSUME Sound, status = "rotate"
    PROVE  Seal(Active, SyncedMmr) \in SealType
<1>1. records[Len(records)].seg = Active /\ Len(records) >= 1
  BY DEF Sound, Working
<1>2. records # <<>>
  BY <1>1, EmptySeq
<1>3. PICK l : l = SyncedMmr
  OBVIOUS
<1>4. l \in Seq(Capsule)
  BY <1>3, SoundFacts, SyncedMmrOf
<1>5. PICK s : s = Active
  OBVIOUS
<1>6. Seal(s, l) \in SealType
  BY <1>1, <1>2, <1>4, <1>5, SoundFacts, SealTyped
<1> QED  BY <1>3, <1>5, <1>6

\* The manifest a rotation leaves.
LEMMA RotateManifest ==
    ASSUME Sound, LedgerNext, Rotate
    PROVE  /\ ManifestOk(manifest', files') /\ manifest'.active = Active + 1
           /\ \A t \in 1..Active :
                 /\ manifest'.segs[t].mounted = manifest.segs[t].mounted
                 /\ manifest'.segs[t].sealed = IF t = Active THEN Seal(Active, SyncedMmr)
                    ELSE manifest.segs[t].sealed
           /\ manifest'.segs[Active + 1] = NewEntry
<1>1. status = "rotate" /\ ManifestOk(manifest, files) /\ Active \in 1..Len(files) /\ FilesOk(files)
  BY SoundFacts DEF Rotate
<1>2. PICK n : n = Active
  OBVIOUS
<1>3. PICK e : e = [mounted |-> manifest.segs[n].mounted, sealed |-> Seal(n, SyncedMmr)]
  OBVIOUS
<1>4. /\ Active = manifest.active /\ n \in Nat /\ n >= 1 /\ n \in 1..manifest.active
      /\ Len(manifest.segs) = n /\ DOMAIN manifest.segs = 1..n
      /\ manifest.segs[n] \in EntryType /\ manifest.segs[n].mounted \in BOOLEAN
      /\ manifest.segs[n] = [mounted |-> manifest.segs[n].mounted, sealed |-> manifest.segs[n].sealed]
  BY <1>1, <1>2, ManifestOf DEF Active
<1>5. e \in EntryType
  BY <1>1, <1>2, <1>3, <1>4, SealTypedHere DEF EntryType
<1>6. PICK q : q = [manifest.segs EXCEPT ![n] = e]
  OBVIOUS
<1>7. [manifest.segs EXCEPT ![n].sealed = Seal(n, SyncedMmr)] = q
  <2>1. [manifest.segs[n] EXCEPT !.sealed = Seal(n, SyncedMmr)] = e
    BY <1>3, <1>4
  <2> QED  BY <1>6, <2>1
<1>8. manifest' = [active |-> n + 1, segs |-> Append(q, NewEntry)]
  BY <1>2, <1>4, <1>7 DEF Rotate
<1>9. PICK m : m = [active |-> n, segs |-> q]
  OBVIOUS
<1>10. EntryAt(m, manifest, n, e)
  BY <1>2, <1>4, <1>6, <1>9 DEF EntryAt
<1>11. /\ ManifestOk(m, files) /\ m.active = n
       /\ \A t \in 1..n : m.segs[t] = IF t = n THEN e ELSE manifest.segs[t]
  BY <1>1, <1>2, <1>4, <1>5, <1>10, EntryPut
<1>12. Len(files') \in Nat /\ n + 1 <= Len(files')
  <2>1. Len(files') \in Nat /\ Len(files) \in Nat
    BY SoundFacts, SoundFiles
  <2>2. Len(files') = IF n + 1 \in 1..Len(files) THEN Len(files) ELSE Len(files) + 1
    BY <1>1, <1>4, RotateFiles
  <2> QED  BY <1>1, <1>2, <1>4, <2>1, <2>2
<1>13. PICK ms : ms = manifest'
  OBVIOUS
<1>14. PICK gs : gs = files'
  OBVIOUS
<1>15. m.segs = q /\ Len(m.segs) = n
  <2>1. Len(m.segs) = m.active
    BY <1>11 DEF ManifestOk
  <2> QED  BY <1>9, <1>11, <2>1
<1>16. EntryAdded(ms, m)
  BY <1>8, <1>13, <1>15 DEF EntryAdded
<1>17. /\ ManifestOk(ms, gs) /\ ms.active = m.active + 1
       /\ \A t \in 1..m.active : ms.segs[t] = m.segs[t]
       /\ ms.segs[m.active + 1] = NewEntry
  <2>1. ManifestOk(m, files) /\ Len(gs) \in Nat /\ m.active + 1 <= Len(gs)
    BY <1>11, <1>12, <1>14
  <2> QED  BY ONLY <1>16, <2>1, ManifestAdd
<1> HIDE DEF Active, Seal, SyncedMmr, NewEntry
<1>18. e.mounted = manifest.segs[n].mounted /\ e.sealed = Seal(n, SyncedMmr)
  BY <1>3
<1> QED  BY <1>2, <1>4, <1>11, <1>13, <1>14, <1>17, <1>18

\* The manifest after a rotation that raised.
LEMMA RaisedManifest ==
    ASSUME Sound, LedgerNext, RotateRaises
    PROVE  \/ manifest' = manifest
           \/ /\ used'["save"] > 0 /\ ManifestOk(manifest', files) /\ manifest'.active = Active
              /\ mmr' = SyncedMmr /\ ClosesAtBoundary /\ CanScan
              /\ \A t \in 1..Active :
                    /\ manifest'.segs[t].mounted = manifest.segs[t].mounted
                    /\ manifest'.segs[t].sealed = IF t = Active THEN Seal(Active, SyncedMmr)
                       ELSE manifest.segs[t].sealed
<1>1. status = "rotate" /\ ManifestOk(manifest, files) /\ Active \in 1..Len(files) /\ FilesOk(files)
  BY SoundFacts DEF RotateRaises
<1>2. CASE manifest' = manifest
  BY <1>2
<1>3. CASE /\ Use("save") /\ mmr' = SyncedMmr /\ ClosesAtBoundary /\ CanScan
           /\ manifest' = [manifest EXCEPT !.segs[Active].sealed = Seal(Active, SyncedMmr)]
  <2>1. PICK n : n = Active
    OBVIOUS
  <2>2. PICK e : e = [mounted |-> manifest.segs[n].mounted, sealed |-> Seal(n, SyncedMmr)]
    OBVIOUS
  <2>3. /\ Active = manifest.active /\ n \in Nat /\ n >= 1 /\ n \in 1..manifest.active
        /\ Len(manifest.segs) = n /\ DOMAIN manifest.segs = 1..n
        /\ manifest.segs[n] \in EntryType /\ manifest.segs[n].mounted \in BOOLEAN
        /\ manifest.segs[n] = [mounted |-> manifest.segs[n].mounted, sealed |-> manifest.segs[n].sealed]
        /\ manifest = [active |-> manifest.active, segs |-> manifest.segs]
    BY <1>1, <2>1, ManifestOf DEF Active
  <2>4. e \in EntryType
    BY <1>1, <2>1, <2>2, <2>3, SealTypedHere DEF EntryType
  <2>5. PICK ms : ms = manifest'
    OBVIOUS
  <2>6. EntryAt(ms, manifest, n, e)
    <3>1. [manifest.segs[n] EXCEPT !.sealed = Seal(n, SyncedMmr)] = e
      BY <2>2, <2>3
    <3>2. PICK q : q = [manifest.segs EXCEPT ![n] = e]
      OBVIOUS
    <3>3. [manifest.segs EXCEPT ![n] = [manifest.segs[n] EXCEPT !.sealed = Seal(n, SyncedMmr)]] = q
      BY <3>1, <3>2
    <3>4. ms = [manifest EXCEPT !.segs = q]
      BY <1>3, <2>1, <2>5, <3>3
    <3>5. ms = [active |-> manifest.active, segs |-> q]
      BY <2>3, <3>4
    <3> QED  BY <3>2, <3>5 DEF EntryAt
  <2>7. /\ ManifestOk(ms, files) /\ ms.active = manifest.active
        /\ \A t \in 1..manifest.active : ms.segs[t] = IF t = n THEN e ELSE manifest.segs[t]
    BY <1>1, <2>3, <2>4, <2>6, EntryPut
  <2>8. used'["save"] > 0
    <3>1. used \in [EventKind -> Nat] /\ "save" \in EventKind
      BY DEF Sound, Memory, EventKind
    <3> QED  BY <1>3, <3>1 DEF Use
  <2> HIDE DEF Seal, SyncedMmr, Use, ClosesAtBoundary, CanScan, Active
  <2>9. e.mounted = manifest.segs[n].mounted /\ e.sealed = Seal(n, SyncedMmr)
    BY <2>2
  <2> QED  BY <1>3, <2>1, <2>3, <2>5, <2>7, <2>8, <2>9
<1>4. \/ manifest' = manifest
      \/ /\ Use("save") /\ mmr' = SyncedMmr /\ ClosesAtBoundary /\ CanScan
         /\ manifest' = [manifest EXCEPT !.segs[Active].sealed = Seal(Active, SyncedMmr)]
  BY DEF RotateRaises
<1> QED  BY <1>2, <1>3, <1>4

\* The manifest that an archival leaves.
LEMMA MarkedManifest ==
    ASSUME Sound, status = "ready", NEW s \in Segments, NEW v \in BOOLEAN, manifest' = Marked(s, v)
    PROVE  /\ ManifestOk(manifest', files) /\ manifest'.active = Active
           /\ \A t \in 1..Active :
                 /\ manifest'.segs[t].mounted = IF t = s THEN v ELSE manifest.segs[t].mounted
                 /\ manifest'.segs[t].sealed = manifest.segs[t].sealed
<1>1. ManifestOk(manifest, files) /\ Active \in 1..Len(files) /\ Active = manifest.active
  BY SoundFacts DEF Active
<1>2. PICK e : e = [mounted |-> v, sealed |-> manifest.segs[s].sealed]
  OBVIOUS
<1>3. /\ s \in 1..manifest.active /\ DOMAIN manifest.segs = 1..manifest.active
      /\ manifest.segs[s] \in EntryType /\ manifest.segs[s].sealed \in SealType \cup {None}
      /\ manifest.segs[s] = [mounted |-> manifest.segs[s].mounted, sealed |-> manifest.segs[s].sealed]
      /\ manifest = [active |-> manifest.active, segs |-> manifest.segs]
  BY <1>1, ManifestOf, SoundFacts
<1>4. e \in EntryType
  BY <1>2, <1>3 DEF EntryType
<1>5. PICK ms : ms = manifest'
  OBVIOUS
<1>6. EntryAt(ms, manifest, s, e)
  <2>1. [manifest.segs[s] EXCEPT !.mounted = v] = e
    BY <1>2, <1>3
  <2>2. PICK q : q = [manifest.segs EXCEPT ![s] = e]
    OBVIOUS
  <2>3. [manifest.segs EXCEPT ![s] = [manifest.segs[s] EXCEPT !.mounted = v]] = q
    BY <2>1, <2>2
  <2>4. ms = [manifest EXCEPT !.segs = q]
    BY <1>5, <2>3 DEF Marked
  <2>5. ms = [active |-> manifest.active, segs |-> q]
    BY <1>3, <2>4
  <2> QED  BY <2>2, <2>5 DEF EntryAt
<1>7. /\ ManifestOk(ms, files) /\ ms.active = manifest.active
      /\ \A t \in 1..manifest.active : ms.segs[t] = IF t = s THEN e ELSE manifest.segs[t]
  BY <1>1, <1>3, <1>4, <1>6, EntryPut
<1> HIDE DEF Active
<1>8. e.mounted = v /\ e.sealed = manifest.segs[s].sealed
  BY <1>2
<1> QED  BY <1>1, <1>5, <1>7, <1>8

\* Every step keeps the manifests,
LEMMA ManifestsStep ==
    ASSUME Sound, LedgerNext
    PROVE  Manifests'
<1>1. Len(files) \in Nat /\ Len(files') \in Nat /\ Len(files) <= Len(files')
  BY SoundFacts, SoundFiles
<1>2. \A m : ManifestOk(m, files) => ManifestOk(m, files')
  BY <1>1, ManifestKept
<1>3. /\ disk = None \/ ManifestOk(disk, files)
      /\ status # "down" => ManifestOk(manifest, files)
  BY DEF Sound, Manifests
<1>4. disk' = None \/ ManifestOk(disk', files')
  <2>1. disk' = disk \/ (status # "down" /\ disk' = manifest)
    <3>1. CreateSave \/ Save \/ SaveFails => disk' = disk \/ (status # "down" /\ disk' = manifest)
      BY DEF CreateSave, Save, SaveFails
    <3> QED  BY <3>1, DiskChange
  <2> QED  BY <1>2, <1>3, <2>1
<1>5. ASSUME status' # "down" PROVE ManifestOk(manifest', files')
  <2>2. CASE Open
    <3>2. \/ manifest' = disk /\ disk # None
          \/ manifest' = [active |-> 1, segs |-> <<NewEntry>>] /\ files' = <<EmptyFile>>
      BY <2>2 DEF Open
    <3>3. ASSUME manifest' = [active |-> 1, segs |-> <<NewEntry>>], files' = <<EmptyFile>>
          PROVE ManifestOk(manifest', files')
      BY <3>3 DEF ManifestOk, ManifestType, EntryType, NewEntry
    <3> QED  BY <1>2, <1>3, <3>2, <3>3
  <2>1. CASE manifest' = manifest
    <3>1. status # "down" \/ Open
      BY <1>5 DEF LedgerNext, LedgerStep, CreateSave, Stop, PowerLoss, Down, AppendLine, AppendFails,
        MayAppend, InsertRecord, InsertFails, AppendLookup, Rotate, RotateRaises, Save, SaveFails,
        RecoverStart, CatchUpLookup, RecoverLine, RecoverLookup, RecoverEnd, Reindex, RebuildLookup
    <3> QED  BY <1>2, <1>3, <2>1, <2>2, <3>1
  <2>3. CASE Stop \/ PowerLoss
    BY <1>5, <2>3 DEF Stop, PowerLoss, Down
  <2>4. CASE Rotate
    BY <2>4, RotateManifest
  <2>5. CASE RotateRaises
    <3>1. status # "down"
      BY <2>5 DEF RotateRaises
    <3> QED  BY <1>2, <1>3, <2>5, <3>1, RaisedManifest
  <2>6. CASE status = "ready" /\ \E s \in Segments : Unmount(s) \/ Mount(s)
    <3>1. PICK s \in Segments : manifest' = Marked(s, TRUE) \/ manifest' = Marked(s, FALSE)
      BY <2>6 DEF Unmount, Mount
    <3> QED  BY <1>2, <2>6, <3>1, MarkedManifest
  <2> QED  BY <2>1, <2>2, <2>3, <2>4, <2>5, <2>6, ManifestChange
<1> QED  BY <1>4, <1>5 DEF Manifests

\* and the types of the rest.
LEMMA MemoryStep ==
    ASSUME Sound, LedgerNext
    PROVE  Memory'
<1>1. Memory /\ Working
  BY DEF Sound
<1>2. status' \in Statuses
  BY <1>1 DEF Memory, Statuses, LedgerNext, LedgerStep, Open, CreateSave, Stop, PowerLoss, Down,
      AppendLine, AppendFails, MayAppend, InsertRecord, InsertFails, AppendLookup, Returns, Raises,
      Rotate, RotateRaises, Save, SaveFails, RecoverStart, CatchUpLookup, RecoverLine,
      RecoverLookup, RecoverEnd, Reindex, RebuildLookup, Unmount, Mount
<1>3. \/ needsRecover' = needsRecover \/ needsRecover' = TRUE \/ needsRecover' = FALSE
      \/ needsRecover' = (needsRecover /\ ~LeavesReadable)
  BY Zenon DEF memVars, LedgerNext, LedgerStep, Open, CreateSave, Stop, PowerLoss, Down,
      AppendLine, AppendFails, InsertRecord, InsertFails, AppendLookup, Rotate, RotateRaises, Save,
      SaveFails, RecoverStart, CatchUpLookup, RecoverLine, RecoverLookup, RecoverEnd, Reindex,
      RebuildLookup, Unmount, Mount
<1>4. lookupOn' = lookupOn \/ lookupOn' = TRUE \/ lookupOn' = FALSE
  BY Zenon DEF memVars, LedgerNext, LedgerStep, Open, CreateSave, Stop, PowerLoss, Down,
      AppendLine, AppendFails, InsertRecord, InsertFails, AppendLookup, LookupRecord, Rotate,
      RotateRaises, Save, SaveFails, RecoverStart, CatchUpLookup, RecoverLine, RecoverLookup,
      RecoverEnd, Reindex, RebuildLookup, Unmount, Mount
<1>5. mmr' = mmr \/ mmr' = <<>> \/ mmr' = SyncedMmr
  BY Zenon DEF memVars, LedgerNext, LedgerStep, Open, CreateSave, Stop, PowerLoss, Down,
      AppendLine, AppendFails, InsertRecord, InsertFails, AppendLookup, Rotate, RotateRaises, Save,
      SaveFails, RecoverStart, CatchUpLookup, RecoverLine, RecoverLookup, RecoverEnd, Reindex,
      RebuildLookup, Unmount, Mount
<1>6. cursor' = cursor \/ cursor' = 0 \/ cursor' = cursor + 1 \/ cursor' = LastIndexed + 1
  BY Zenon DEF memVars, LedgerNext, LedgerStep, Open, CreateSave, Stop, PowerLoss, Down,
      AppendLine, AppendFails, InsertRecord, InsertFails, AppendLookup, Rotate, RotateRaises, Save,
      SaveFails, RecoverStart, CatchUpLookup, RecoverLine, RecoverLookup, RecoverEnd, Reindex,
      RebuildLookup, Unmount, Mount
<1>7. \/ acked' = acked
      \/ acked' = acked \cup {pending} /\ (status = "lookup" \/ (status = "save" /\ pending # None))
  BY Zenon DEF LedgerNext, LedgerStep, Open, CreateSave, Stop, PowerLoss, AppendLine, AppendFails,
        InsertRecord, InsertFails, AppendLookup, Returns, Raises, Rotate, RotateRaises, Save,
        SaveFails, RecoverStart, CatchUpLookup, RecoverLine, RecoverLookup, RecoverEnd, Reindex,
        RebuildLookup, Unmount, Mount
<1>8. LastIndexed \in Nat
  BY SoundFacts, LastIndexedOf
<1>9. mmr' \in Seq(Capsule)
  BY <1>1, <1>5, SoundFacts, SyncedMmrOf, EmptySeq DEF Memory
<1>10. acked' \in SUBSET PendingType
  BY <1>1, <1>7 DEF Memory, Working
<1>11. used' \in [EventKind -> Nat]
  BY <1>1, UsedChange DEF Memory
<1>12. scenario' = scenario
  BY DEF LedgerNext
<1>13. needsRecover' \in BOOLEAN /\ lookupOn' \in BOOLEAN
  BY <1>1, <1>3, <1>4 DEF Memory
<1>14. cursor' \in Nat
  BY <1>1, <1>6, <1>8 DEF Memory
<1> QED  BY <1>1, <1>2, <1>9, <1>10, <1>11, <1>12, <1>13, <1>14 DEF Memory

\* A row of a new id at the end of the records.
LEMMA RowAdded ==
    ASSUME NEW fs, RowsTyped(records, fs), DistinctIds(records), Len(fs) \in Nat,
           NEW row \in RowType, row.seg \in 1..Len(fs), row.off >= 1, row.id \notin Ids
    PROVE  /\ RowsTyped(Append(records, row), fs) /\ DistinctIds(Append(records, row))
           /\ Len(Append(records, row)) = Len(records) + 1 /\ Len(records) \in Nat
           /\ \A i \in 1..Len(records) : Append(records, row)[i] = records[i]
           /\ Append(records, row)[Len(records) + 1] = row
<1>1. records \in Seq(RowType) /\ Len(records) \in Nat /\ DOMAIN records = 1..Len(records)
  BY LenProperties DEF RowsTyped
<1>2. PICK rs : rs = Append(records, row)
  OBVIOUS
<1>3. /\ rs \in Seq(RowType) /\ Len(rs) = Len(records) + 1
      /\ \A i \in 1..Len(records) : rs[i] = records[i]
      /\ rs[Len(records) + 1] = row
  BY <1>1, <1>2, AppendProperties
<1>4. \A i \in 1..Len(rs) : i \in 1..Len(records) \/ i = Len(records) + 1
  BY <1>1, <1>3
<1>5. RowsTyped(rs, fs)
  BY <1>3, <1>4 DEF RowsTyped
<1>6. \A i \in 1..Len(records) : records[i].id # row.id
  BY <1>1 DEF Ids
<1>7. DistinctIds(rs)
  <2>1. SUFFICES ASSUME NEW i \in 1..Len(rs), NEW j \in 1..Len(rs), rs[i].id = rs[j].id PROVE i = j
    BY DEF DistinctIds
  <2>2. CASE i \in 1..Len(records) /\ j \in 1..Len(records)
    BY <1>3, <2>1, <2>2 DEF DistinctIds
  <2> QED  BY <1>3, <1>4, <1>6, <2>1, <2>2
<1> QED  BY <1>1, <1>2, <1>3, <1>5, <1>7

\* The row that append adds, and the one recover adds.
LEMMA InsertRow ==
    ASSUME Sound, InsertRecord
    PROVE  LET row == Row(pending, Active, PendingOffset, pending.signed)
           IN  /\ row \in RowType /\ row.seg \in 1..Len(files) /\ row.off >= 1 /\ row.id \notin Ids
               /\ Names(files, row) /\ records' = Append(records, row) /\ files' = files
               /\ row.seg = Active /\ row.off = Len(files[Active].lines) /\ row.id = pending.id
               /\ row.signed = pending.signed
               /\ pending' = [pending EXCEPT !.seq = Len(records')]
<1>1. /\ status = "insert" /\ pending \in PendingType /\ pending.id \notin Ids
      /\ Len(files[Active].lines) >= 1
      /\ files[Active].lines[Len(files[Active].lines)].id = pending.id
      /\ records' = Append(records, Row(pending, Active, PendingOffset, pending.signed))
      /\ files' = files /\ pending' = [pending EXCEPT !.seq = Len(records')]
  BY DEF InsertRecord, Sound, Working
<1>2. Active \in 1..Len(files) /\ Len(files) \in Nat
  BY <1>1, SoundFacts
<1>3. Len(files[Active].lines) \in Nat
  BY <1>2, SoundFacts, FileOf
<1>4. pending.id \in Capsule /\ pending.signed \in BOOLEAN
  BY <1>1 DEF PendingType
<1> HIDE DEF Active
<1> QED  BY <1>1, <1>2, <1>3, <1>4 DEF Row, RowType, PendingOffset, Names

\* The row that recover gives a line it found without one.
LEMMA RecoveredRow ==
    ASSUME Sound, RecoverLine, records' # records
    PROVE  LET line == files[Active].lines[cursor]
               row == Row(line, Active, cursor, ReindexAuthenticity(line))
           IN  /\ row \in RowType /\ row.seg \in 1..Len(files) /\ row.off >= 1 /\ row.id \notin Ids
               /\ Names(files, row) /\ records' = Append(records, row) /\ files' = files
               /\ row.seg = Active /\ row.off = cursor /\ row.id = line.id
               /\ row.signed = line.proof
<1>1. PICK line : line = files[Active].lines[cursor]
  OBVIOUS
<1>2. /\ status = "tail" /\ line.id \notin Ids /\ cursor <= Len(files[Active].lines)
      /\ records' = Append(records, Row(line, Active, cursor, ReindexAuthenticity(line)))
      /\ files' = files
  BY <1>1 DEF RecoverLine
<1>3. Active \in 1..Len(files) /\ Len(files) \in Nat
  BY <1>2, SoundFacts
<1>4. cursor \in Nat /\ cursor >= 1
  BY <1>2 DEF Sound, Memory, Working
<1>5. cursor \in 1..Len(files[Active].lines)
  <2>1. Len(files[Active].lines) \in Nat
    BY <1>3, SoundFacts, FileOf
  <2> QED  BY <1>2, <1>4, <2>1
<1>6. line.id \in Capsule /\ line.proof \in BOOLEAN
  BY <1>1, <1>3, <1>5, SoundFacts, FileOf
<1> HIDE DEF Active
<1> QED  BY <1>1, <1>2, <1>3, <1>4, <1>5, <1>6 DEF Row, RowType, Names, ReindexAuthenticity

\* A rebuilt index is one of rows of lines.
LEMMA LeavesSound ==
    ASSUME Sound, status # "down"
    PROVE  /\ RowsTyped(Leaves, files) /\ DistinctIds(Leaves)
           /\ \A k \in 1..Len(Leaves) : Names(files, Leaves[k])
<1>1. FilesOk(files) /\ files \in Seq(FileType) /\ Active \in 1..Len(files)
      /\ Len(manifest.segs) = Active
      /\ Len(files) \in Nat
  BY SoundFacts DEF FilesOk
<1>2. PICK n : n = Active
  OBVIOUS
<1>3. PICK rs : rs = Leaves
  OBVIOUS
<1>4. /\ rs \in Seq(RowType) /\ DistinctIds(rs)
      /\ \A k \in 1..Len(rs) :
             \E s \in 1..n : \E o \in 1..Len(files[s].lines) : rs[k] = LineRow(s, o)
  BY <1>1, <1>2, <1>3, LeavesRows
<1>5. ASSUME NEW k \in 1..Len(rs)
      PROVE  rs[k].seg \in 1..Len(files) /\ rs[k].off >= 1 /\ Names(files, rs[k])
  <2>1. PICK s \in 1..n : \E o \in 1..Len(files[s].lines) : rs[k] = LineRow(s, o)
    BY <1>4, <1>5
  <2>2. PICK o \in 1..Len(files[s].lines) : rs[k] = LineRow(s, o)
    BY <2>1
  <2>3. s \in 1..Len(files)
    BY <1>1, <1>2
  <2>4. Len(files[s].lines) \in Nat
    BY <1>1, <2>3, FileOf
  <2>5. rs[k].seg = s /\ rs[k].off = o /\ rs[k].id = files[s].lines[o].id
    BY <2>2 DEF LineRow, Row
  <2> QED  BY <2>3, <2>4, <2>5 DEF Names
<1> QED  BY <1>3, <1>4, <1>5 DEF RowsTyped

\* The records after a step.
LEMMA RecordsStep ==
    ASSUME Sound, LedgerNext
    PROVE  /\ RowsTyped(records', files') /\ DistinctIds(records')
           /\ used'["power"] = 0 => \A i \in 1..Len(records') : Names(files', records'[i])
<1>1. Len(files) \in Nat /\ Len(files') \in Nat /\ Len(files) <= Len(files') /\ FilesOk(files')
      /\ FilesOk(files)
  BY SoundFacts, SoundFiles
<1>2. RowsTyped(records, files) /\ DistinctIds(records) /\ Len(records) \in Nat
      /\ \A i \in 1..Len(records) : records[i].seg \in 1..Len(files) /\ records[i].off \in Nat
         /\ records[i].off >= 1
  BY SoundFacts DEF Sound, Rows
<1>3. \A rs : RowsTyped(rs, files) => RowsTyped(rs, files')
  BY <1>1 DEF RowsTyped
<1>4. ASSUME used'["power"] = 0
      PROVE /\ Extends(files, files') /\ \A i \in 1..Len(records) : Names(files, records[i])
            /\ \A i \in 1..Len(records) : Names(files', records[i])
  <2>1. used \in [EventKind -> Nat] /\ "power" \in EventKind
    BY DEF Sound, Memory, EventKind
  <2>2. used["power"] = 0
    BY <1>4, <2>1, UsedChange
  <2>3. ~PowerLoss
    <3>1. ASSUME Use("power") PROVE FALSE
      BY <1>4, <2>1, <3>1 DEF Use
    <3> QED  BY <3>1 DEF PowerLoss
  <2>4. Extends(files, files') /\ \A i \in 1..Len(records) : Names(files, records[i])
    BY <2>2, <2>3, SoundFiles DEF Sound, Rows
  <2> QED  BY <1>1, <1>2, <2>4, NamesKept
<1>5. CASE records' = records
  BY <1>2, <1>3, <1>4, <1>5
<1>6. ASSUME NEW row \in RowType, row.seg \in 1..Len(files), row.off >= 1, row.id \notin Ids,
             Names(files, row), records' = Append(records, row), files' = files
      PROVE  /\ RowsTyped(records', files') /\ DistinctIds(records')
             /\ used'["power"] = 0 => \A i \in 1..Len(records') : Names(files', records'[i])
  <2>1. PICK rs : rs = Append(records, row)
    OBVIOUS
  <2>2. /\ RowsTyped(rs, files) /\ DistinctIds(rs)
        /\ Len(rs) = Len(records) + 1
        /\ \A i \in 1..Len(records) : rs[i] = records[i]
        /\ rs[Len(records) + 1] = row
    BY <1>1, <1>2, <1>6, <2>1, RowAdded
  <2>3. ASSUME used'["power"] = 0, NEW i \in 1..Len(rs) PROVE Names(files, rs[i])
    <3>1. i \in 1..Len(records) \/ i = Len(records) + 1
      BY <1>2, <2>2
    <3> QED  BY <1>4, <1>6, <2>2, <2>3, <3>1
  <2> QED  BY <1>6, <2>1, <2>2, <2>3
<1>7. CASE InsertRecord
  <2>1. PICK row : row = Row(pending, Active, PendingOffset, pending.signed)
    OBVIOUS
  <2> HIDE DEF Row, PendingOffset
  <2>2. /\ row \in RowType /\ row.seg \in 1..Len(files) /\ row.off >= 1 /\ row.id \notin Ids
        /\ Names(files, row) /\ records' = Append(records, row) /\ files' = files
    BY <1>7, <2>1, InsertRow
  <2> QED  BY <1>6, <2>2
<1>8. CASE RecoverLine /\ records' # records
  <2>1. PICK row : row = Row(files[Active].lines[cursor], Active, cursor, ReindexAuthenticity(files[Active].lines[cursor]))
    OBVIOUS
  <2> HIDE DEF Row, ReindexAuthenticity
  <2>2. /\ row \in RowType /\ row.seg \in 1..Len(files) /\ row.off >= 1 /\ row.id \notin Ids
        /\ Names(files, row) /\ records' = Append(records, row) /\ files' = files
    BY <1>8, <2>1, RecoveredRow
  <2> QED  BY <1>6, <2>2
<1>9. CASE Reindex /\ records' # records
  <2>1. status # "down" /\ records' = Leaves
    BY <1>9 DEF Reindex
  <2>2. PICK rs : rs = Leaves
    OBVIOUS
  <2>3. RowsTyped(rs, files) /\ DistinctIds(rs) /\ \A k \in 1..Len(rs) : Names(files, rs[k])
    BY <2>1, <2>2, LeavesSound
  <2>4. \A k \in 1..Len(rs) : rs[k].seg \in 1..Len(files) /\ rs[k].off \in Nat /\ rs[k].off >= 1
    BY <2>3, RowOf
  <2>5. ASSUME used'["power"] = 0 PROVE \A k \in 1..Len(rs) : Names(files', rs[k])
    BY <1>1, <1>4, <2>3, <2>4, <2>5, NamesKept
  <2> QED  BY <1>3, <2>1, <2>2, <2>3, <2>5
<1> QED  BY <1>5, <1>7, <1>8, <1>9, RecordsChange

\* The seq that _catch_up_lookup takes next is of a record the lookup index lacks.
LEMMA LeastMissing ==
    ASSUME NEW fs, RowsTyped(records, fs), Missing # {}
    PROVE  /\ Min(Missing) \in Missing /\ Min(Missing) \in 1..Len(records)
           /\ \A i \in Missing : Min(Missing) <= i
<1>1. Len(records) \in Nat /\ DOMAIN records = 1..Len(records)
  BY RowOf
<1>2. PICK S : S = Missing
  OBVIOUS
<1>3. \A i \in S : i \in 1..Len(records)
  BY <1>1, <1>2 DEF Missing
<1>4. S \in SUBSET Nat /\ S # {}
  BY <1>1, <1>2, <1>3
<1>5. \E m \in S : \A k \in S : m <= k
  BY <1>4, LeastOfNats
<1>6. Min(S) \in S /\ \A i \in S : Min(S) <= i
  BY <1>5 DEF Min
<1> QED  BY <1>2, <1>3, <1>6

\* A row written to the lookup index is that of a record.
LEMMA LookupWritten ==
    ASSUME Sound, LedgerNext, lookup' # lookup
    PROVE  \/ RebuildLookup
           \/ /\ files' = files
              /\ \E seq \in 1..Len(records) : lookup' = LookupPut(seq, LookupRow(records[seq]))
<1>1. AppendLookup \/ CatchUpLookup \/ RecoverLookup \/ RebuildLookup
  BY LookupChange
<1>2. \A seq : LookupRecord(seq) => lookup' = LookupPut(seq, LookupRow(records[seq]))
  BY Zenon DEF LookupRecord
<1> HIDE DEF LookupRecord
<1>3. CASE AppendLookup
  <2>1. LookupRecord(pending.seq) /\ files' = files /\ status = "lookup"
    BY <1>3 DEF AppendLookup
  <2>2. pending.seq = Len(records) /\ Len(records) >= 1 /\ Len(records) \in Nat
    BY <2>1, SoundFacts DEF Sound, Working
  <2>3. pending.seq \in 1..Len(records)
    BY <2>2
  <2> HIDE DEF LookupPut, LookupRow
  <2> QED  BY <1>2, <2>1, <2>3
<1>4. CASE CatchUpLookup
  <2>1. LookupRecord(Min(Missing)) /\ files' = files /\ Missing # {}
    BY <1>4 DEF CatchUpLookup
  <2>2. Min(Missing) \in 1..Len(records)
    BY <2>1, SoundFacts, LeastMissing
  <2> HIDE DEF LookupPut, LookupRow
  <2> QED  BY <1>2, <2>1, <2>2
<1>5. CASE RecoverLookup
  <2>1. LookupRecord(Len(records)) /\ files' = files /\ status = "taillookup"
    BY <1>5 DEF RecoverLookup
  <2>2. Len(records) >= 1 /\ Len(records) \in Nat
    BY <2>1, SoundFacts DEF Sound, Working
  <2>3. Len(records) \in 1..Len(records)
    BY <2>2
  <2> HIDE DEF LookupPut, LookupRow
  <2> QED  BY <1>2, <2>1, <2>3
<1> QED  BY <1>1, <1>3, <1>4, <1>5

\* Every step keeps the lookup index,
LEMMA LookupStep ==
    ASSUME Sound, LedgerNext
    PROVE  /\ LookupTyped(lookup', files')
           /\ used'["power"] = 0 => \A i \in DOMAIN lookup' : Names(files', lookup'[i])
<1>1. Len(files) \in Nat /\ Len(files') \in Nat /\ Len(files) <= Len(files') /\ FilesOk(files')
      /\ FilesOk(files)
  BY SoundFacts, SoundFiles
<1>2. LookupTyped(lookup, files) /\ RowsTyped(records, files)
  BY DEF Sound, Rows
<1>3. \A lk : LookupTyped(lk, files) => LookupTyped(lk, files')
  BY <1>1 DEF LookupTyped
<1>4. \A r \in LookupRowType : r.off \in Nat
  BY DEF LookupRowType
<1>5. ASSUME used'["power"] = 0
      PROVE /\ Extends(files, files') /\ \A i \in DOMAIN lookup : Names(files, lookup[i])
            /\ \A i \in DOMAIN lookup : Names(files', lookup[i])
            /\ \A i \in 1..Len(records) : Names(files, records[i])
  <2>1. used \in [EventKind -> Nat] /\ "power" \in EventKind
    BY DEF Sound, Memory, EventKind
  <2>2. used["power"] = 0
    BY <1>5, <2>1, UsedChange
  <2>3. ~PowerLoss
    <3>1. ASSUME Use("power") PROVE FALSE
      BY <1>5, <2>1, <3>1 DEF Use
    <3> QED  BY <3>1 DEF PowerLoss
  <2>4. /\ Extends(files, files') /\ \A i \in DOMAIN lookup : Names(files, lookup[i])
        /\ \A i \in 1..Len(records) : Names(files, records[i])
    BY <2>2, <2>3, SoundFiles DEF Sound, Rows
  <2>5. \A i \in DOMAIN lookup : lookup[i].seg \in 1..Len(files) /\ lookup[i].off \in Nat
        /\ lookup[i].off >= 1
    BY <1>2, <1>4 DEF LookupTyped
  <2> QED  BY <1>1, <2>4, <2>5, NamesKept
<1>6. CASE lookup' = lookup
  BY <1>2, <1>3, <1>5, <1>6
<1>7. ASSUME NEW seq \in 1..Len(records), files' = files,
             lookup' = LookupPut(seq, LookupRow(records[seq]))
      PROVE  /\ LookupTyped(lookup', files')
             /\ used'["power"] = 0 => \A i \in DOMAIN lookup' : Names(files', lookup'[i])
  <2>1. PICK row : row = LookupRow(records[seq])
    OBVIOUS
  <2>2. PICK lk : lk = LookupPut(seq, row)
    OBVIOUS
  <2>3. /\ records[seq].id \in Capsule /\ records[seq].seg \in 1..Len(files)
        /\ records[seq].seg \in Nat /\ records[seq].off \in Nat /\ records[seq].off >= 1
        /\ Len(records) \in Nat
    BY <1>2, RowOf
  <2>4. row \in LookupRowType /\ row.seg \in 1..Len(files) /\ row.off >= 1
        /\ (Names(files, records[seq]) => Names(files, row))
    BY <2>1, <2>3 DEF LookupRow, LookupRowType, Names
  <2>5. /\ DOMAIN lk = DOMAIN lookup \cup {seq} /\ lk[seq] = row
        /\ \A i \in DOMAIN lookup : i # seq => lk[i] = lookup[i]
    BY <2>2 DEF LookupPut
  <2>6. IsFiniteSet(DOMAIN lk)
    BY <1>2, <2>5, FS_AddElement DEF LookupTyped
  <2>7. DOMAIN lk \in SUBSET (Nat \ {0})
    BY <1>2, <2>3, <2>5 DEF LookupTyped
  <2>8. LookupTyped(lk, files)
    BY <1>2, <2>4, <2>5, <2>6, <2>7 DEF LookupTyped
  <2>9. used'["power"] = 0 => \A i \in DOMAIN lk : Names(files, lk[i])
    BY <1>5, <2>4, <2>5
  <2> QED  BY <1>7, <2>1, <2>2, <2>8, <2>9
<1>8. CASE RebuildLookup
  <2>1. /\ status # "down" /\ files' = files
        /\ lookup' = [i \in DOMAIN Leaves |-> LookupRow(Leaves[i])] \/ lookup' = NoLookup
    BY <1>8 DEF RebuildLookup
  <2>2. ASSUME lookup' = NoLookup
        PROVE  /\ LookupTyped(lookup', files')
               /\ used'["power"] = 0 => \A i \in DOMAIN lookup' : Names(files', lookup'[i])
    <3>1. DOMAIN lookup' = {}
      BY <2>2 DEF NoLookup
    <3>2. IsFiniteSet(DOMAIN lookup')
      BY <3>1, FS_EmptySet
    <3> QED  BY <3>1, <3>2 DEF LookupTyped
  <2>3. PICK rs : rs = Leaves
    OBVIOUS
  <2>4. RowsTyped(rs, files) /\ \A k \in 1..Len(rs) : Names(files, rs[k])
    BY <2>1, <2>3, LeavesSound
  <2>5. /\ Len(rs) \in Nat /\ DOMAIN rs = 1..Len(rs)
        /\ \A k \in 1..Len(rs) : /\ rs[k].id \in Capsule /\ rs[k].seg \in 1..Len(files)
           /\ rs[k].seg \in Nat
                                 /\ rs[k].off \in Nat /\ rs[k].off >= 1
    BY <2>4, RowOf
  <2>6. \A k \in 1..Len(rs) : /\ LookupRow(rs[k]) \in LookupRowType
        /\ LookupRow(rs[k]).seg \in 1..Len(files)
                              /\ LookupRow(rs[k]).off >= 1 /\ Names(files, LookupRow(rs[k]))
    BY <2>4, <2>5 DEF LookupRow, LookupRowType, Names
  <2> HIDE DEF LookupRow, Leaves
  <2>7. ASSUME lookup' = [i \in DOMAIN Leaves |-> LookupRow(Leaves[i])]
        PROVE  /\ LookupTyped(lookup', files')
               /\ used'["power"] = 0 => \A i \in DOMAIN lookup' : Names(files', lookup'[i])
    <3>1. PICK lk : lk = lookup'
      OBVIOUS
    <3>2. DOMAIN lk = 1..Len(rs) /\ \A i \in 1..Len(rs) : lk[i] = LookupRow(rs[i])
      BY <2>3, <2>5, <2>7, <3>1
    <3>3. IsFiniteSet(DOMAIN lk)
      BY <2>5, <3>2, FS_Interval
    <3>4. DOMAIN lk \in SUBSET (Nat \ {0})
      BY <2>5, <3>2
    <3> QED  BY <2>1, <2>6, <3>1, <3>2, <3>3, <3>4 DEF LookupTyped
  <2> QED  BY <2>1, <2>2, <2>7
<1> QED  BY <1>6, <1>7, <1>8, LookupWritten

\* and both indexes,
LEMMA RowsStep ==
    ASSUME Sound, LedgerNext
    PROVE  Rows'
BY RecordsStep, LookupStep DEF Rows

\* How each state of the instance is reached.
LEMMA StatusChange ==
    ASSUME LedgerNext
    PROVE  /\ status' = "create" => Open
           /\ status' = "insert" => \E c \in Capsule, sub \in scenario.submissions : AppendLine(c, sub)
           /\ status' = "lookup" => InsertRecord
           /\ status' = "rotate" => AppendLookup
           /\ status' = "save" => Rotate
              \/ (status = "ready" /\ \E s \in Segments : Unmount(s) \/ Mount(s))
           /\ status' = "taillookup" => RecoverLine
           /\ status' = "catchup" => RecoverStart \/ CatchUpLookup
           /\ status' = "tail" => RecoverStart \/ CatchUpLookup \/ RecoverLine \/ RecoverLookup
           /\ status' = "down" => Stop \/ PowerLoss
<1>1. CASE Open \/ CreateSave \/ Stop \/ PowerLoss
  BY <1>1 DEF Open, CreateSave, Stop, PowerLoss, Down
<1>2. CASE InsertRecord \/ InsertFails \/ AppendLookup \/ Rotate \/ RotateRaises \/ Save \/ SaveFails
  BY <1>2 DEF InsertRecord, InsertFails, AppendLookup, Returns, Raises, Rotate, RotateRaises, Save,
      SaveFails
<1>3. CASE RecoverStart \/ CatchUpLookup \/ RecoverLine \/ RecoverLookup \/ RecoverEnd
  BY <1>3 DEF RecoverStart, CatchUpLookup, RecoverLine, RecoverLookup, RecoverEnd
<1>4. CASE Reindex \/ RebuildLookup
  BY <1>4 DEF Reindex, RebuildLookup
<1>5. ASSUME NEW c \in Capsule, NEW sub \in scenario.submissions,
             AppendLine(c, sub) \/ AppendFails(c, sub)
      PROVE  (status' = "insert" /\ AppendLine(c, sub)) \/ status' = "ready"
  BY <1>5 DEF AppendLine, AppendFails, MayAppend
<1>6. ASSUME status = "ready", NEW s \in Segments, Unmount(s) \/ Mount(s)
      PROVE  status' = "save"
  BY <1>6 DEF Unmount, Mount
<1>7. \/ Open \/ CreateSave \/ Stop \/ PowerLoss
      \/ \E c \in Capsule, sub \in scenario.submissions : AppendLine(c, sub) \/ AppendFails(c, sub)
      \/ InsertRecord \/ InsertFails \/ AppendLookup
      \/ Rotate \/ RotateRaises \/ Save \/ SaveFails
      \/ RecoverStart \/ CatchUpLookup \/ RecoverLine \/ RecoverLookup \/ RecoverEnd
      \/ Reindex \/ RebuildLookup
      \/ status = "ready" /\ \E s \in Segments : Unmount(s) \/ Mount(s)
  BY DEF LedgerNext, LedgerStep
<1> QED  BY <1>1, <1>2, <1>3, <1>4, <1>5, <1>6, <1>7

\* append's line is the last of the active segment.
LEMMA AppendedLine ==
    ASSUME Sound, NEW c \in Capsule, NEW sub \in scenario.submissions, AppendLine(c, sub)
    PROVE  /\ status = "ready" /\ ~needsRecover /\ ~needsRecover' /\ c \notin Ids
           /\ records' = records /\ manifest' = manifest
           /\ pending' \in PendingType /\ pending'.id = c /\ pending'.seq = 0
           /\ pending'.consequential = sub.consequential /\ pending'.signed = (sub.mode = "signed")
           /\ FilesOk(files') /\ Len(files') = Len(files)
           /\ \A s \in 1..Len(files) : s # Active => files'[s] = files[s]
           /\ files'[Active].torn = files[Active].torn
           /\ Len(files[Active].lines) \in Nat
           /\ Len(files'[Active].lines) = Len(files[Active].lines) + 1
           /\ \A o \in 1..Len(files[Active].lines) : files'[Active].lines[o] = files[Active].lines[o]
           /\ files'[Active].lines[Len(files[Active].lines) + 1] = Stored(c, sub)
           /\ files[Active].synced <= files'[Active].synced
           /\ sub.consequential => files'[Active].synced = Len(files'[Active].lines)
<1>1. /\ status = "ready" /\ ~needsRecover /\ ~needsRecover' /\ c \notin Ids
      /\ records' = records /\ manifest' = manifest
      /\ pending' = [id |-> c, seq |-> 0, consequential |-> sub.consequential,
         signed |-> sub.mode = "signed"]
      /\ PutAt(files', files, Active, Written(files[Active], Stored(c, sub), sub.consequential))
  BY DEF AppendLine, MayAppend, memVars, PutAt
<1>2. Active \in 1..Len(files) /\ FilesOk(files) /\ scenario \in Scenarios
  BY <1>1, SoundFacts
<1>3. Stored(c, sub) \in Line /\ sub.consequential \in BOOLEAN
  BY <1>2, StoredLine
<1>4. PICK line : line = Stored(c, sub)
  OBVIOUS
<1>5. PICK q : q = sub.consequential
  OBVIOUS
<1>6. PICK n : n = Active
  OBVIOUS
<1>7. PICK gs : gs = files'
  OBVIOUS
<1>8. PICK w : w = Written(files[n], line, q)
  OBVIOUS
<1>9. FileOk(files[n]) /\ n \in 1..Len(files)
  BY <1>2, <1>6, FileOf
<1>10. /\ FileOk(w) /\ Len(files[n].lines) \in Nat /\ w.torn = files[n].torn
       /\ Len(w.lines) = Len(files[n].lines) + 1
       /\ \A o \in 1..Len(files[n].lines) : w.lines[o] = files[n].lines[o]
       /\ w.lines[Len(files[n].lines) + 1] = line
       /\ files[n].synced <= w.synced
       /\ q => w.synced = Len(w.lines)
  BY <1>3, <1>4, <1>5, <1>8, <1>9, WrittenOk
<1>11. PutAt(gs, files, n, w)
  BY <1>1, <1>4, <1>5, <1>6, <1>7, <1>8
<1>12. FilesOk(gs) /\ Len(gs) = Len(files)
       /\ \A t \in 1..Len(files) : gs[t] = IF t = n THEN w ELSE files[t]
  BY <1>2, <1>9, <1>10, <1>11, FilesPut
<1>13. gs[n] = w /\ \A t \in 1..Len(files) : t # n => gs[t] = files[t]
  BY <1>9, <1>12
<1>14. pending' \in PendingType /\ pending'.id = c /\ pending'.seq = 0
       /\ pending'.consequential = sub.consequential /\ pending'.signed = (sub.mode = "signed")
  BY <1>1, <1>3 DEF PendingType
<1> HIDE DEF Active, Stored
<1> QED  BY <1>1, <1>4, <1>5, <1>6, <1>7, <1>10, <1>12, <1>13, <1>14

\* and what is known at each point of append, rotate and recover.
LEMMA WorkingStep ==
    ASSUME Sound, LedgerNext
    PROVE  Working'
<1>1. Working /\ Memory
  BY DEF Sound
<1>2. ASSUME status' = "insert"
      PROVE  /\ pending' \in PendingType /\ pending'.id \notin Ids' /\ ~needsRecover'
             /\ Len(files'[Active'].lines) >= 1
             /\ files'[Active'].lines[Len(files'[Active'].lines)].id = pending'.id
  <2>1. PICK c \in Capsule, sub \in scenario.submissions : AppendLine(c, sub)
    BY <1>2, StatusChange
  <2>2. scenario \in Scenarios
    BY <1>1 DEF Memory
  <2>3. Stored(c, sub).id = c
    BY <2>2, StoredLine
  <2>4. /\ ~needsRecover' /\ c \notin Ids /\ records' = records /\ manifest' = manifest
        /\ pending' \in PendingType /\ pending'.id = c
        /\ Len(files[Active].lines) \in Nat
        /\ Len(files'[Active].lines) = Len(files[Active].lines) + 1
        /\ files'[Active].lines[Len(files[Active].lines) + 1] = Stored(c, sub)
    BY <2>1, AppendedLine
  <2>5. Ids' = Ids /\ Active' = Active
    BY <2>4 DEF Ids, Active
  <2> HIDE DEF Active, Ids, Stored
  <2> QED  BY <2>3, <2>4, <2>5
<1>3. ASSUME status' = "lookup"
      PROVE  /\ pending' \in PendingType /\ pending'.seq = Len(records') /\ Len(records') >= 1
             /\ records'[Len(records')].id = pending'.id /\ records'[Len(records')].seg = Active'
             /\ ~needsRecover'
  <2>1. InsertRecord
    BY <1>3, StatusChange
  <2>2. PICK row : row = Row(pending, Active, PendingOffset, pending.signed)
    OBVIOUS
  <2>3. /\ row \in RowType /\ row.seg \in 1..Len(files) /\ row.off >= 1 /\ row.id \notin Ids
        /\ records' = Append(records, row) /\ row.seg = Active /\ row.id = pending.id
        /\ pending' = [pending EXCEPT !.seq = Len(records')]
    BY <2>1, <2>2, InsertRow
  <2>4. RowsTyped(records, files) /\ DistinctIds(records) /\ Len(files) \in Nat
    BY SoundFacts DEF Sound, Rows
  <2>5. /\ Len(Append(records, row)) = Len(records) + 1 /\ Len(records) \in Nat
        /\ Append(records, row)[Len(records) + 1] = row
    BY <2>3, <2>4, RowAdded
  <2>6. pending \in PendingType /\ ~needsRecover /\ needsRecover' = needsRecover /\ manifest' = manifest
    BY <1>1, <2>1 DEF Working, InsertRecord, memVars
  <2>7. pending' = [id |-> pending.id, seq |-> Len(records'),
        consequential |-> pending.consequential, signed |-> pending.signed]
    BY <2>3, <2>6 DEF PendingType
  <2>8. pending' \in PendingType /\ pending'.seq = Len(records') /\ pending'.id = pending.id
    BY <2>3, <2>5, <2>6, <2>7 DEF PendingType
  <2>9. Active' = Active
    BY <2>6 DEF Active
  <2> HIDE DEF Active
  <2> QED  BY <2>3, <2>5, <2>6, <2>8, <2>9
<1>4. ASSUME status' = "rotate"
      PROVE  /\ pending' \in PendingType /\ pending'.seq = Len(records') /\ Len(records') >= 1
             /\ records'[Len(records')].id = pending'.id /\ records'[Len(records')].seg = Active'
             /\ ~needsRecover'
  <2>1. AppendLookup
    BY <1>4, StatusChange
  <2>2. status = "lookup" /\ pending' = pending /\ records' = records /\ manifest' = manifest
        /\ needsRecover' = needsRecover
    BY <1>4, <2>1 DEF AppendLookup, Returns
  <2> QED  BY <1>1, <2>2 DEF Working, Active
<1>5. ASSUME status' = "save"
      PROVE  \/ pending' = None
             \/ /\ pending' \in PendingType /\ pending'.seq \in 1..Len(records')
                /\ records'[pending'.seq].id = pending'.id
  <2>1. pending' = pending /\ records' = records /\ (status = "rotate" \/ status = "ready")
    BY <1>5, StatusChange DEF Rotate, Unmount, Mount
  <2>3. Len(records) \in Nat
    BY SoundFacts
  <2> QED  BY <1>1, <2>1, <2>3 DEF Working
<1>6. ASSUME status' \notin {"insert", "lookup", "rotate", "save"} PROVE pending' = None
  BY <1>1, <1>6 DEF Working, LedgerNext, LedgerStep, Open, CreateSave, Stop, PowerLoss, Down,
      AppendLine, AppendFails, MayAppend, InsertRecord, InsertFails, AppendLookup, Returns, Raises,
      Rotate, RotateRaises, Save, SaveFails, RecoverStart, CatchUpLookup, RecoverLine,
      RecoverLookup, RecoverEnd, Reindex, RebuildLookup, Unmount, Mount
<1>7. ASSUME status' = "taillookup" PROVE Len(records') >= 1
  <2>1. RecoverLine /\ records' # records
    <3>1. RecoverLine
      BY <1>7, StatusChange
    <3>2. PICK row : records' = Append(records, row)
      BY <1>7, <3>1 DEF RecoverLine
    <3>3. records \in Seq(RowType)
      BY SoundFacts DEF RowsTyped
    <3>4. Append(records, row) # records
      BY <3>3
    <3> QED  BY <3>1, <3>2, <3>4
  <2>2. PICK row : row = Row(files[Active].lines[cursor], Active, cursor, ReindexAuthenticity(files[Active].lines[cursor]))
    OBVIOUS
  <2>3. row \in RowType /\ records' = Append(records, row)
    BY <2>1, <2>2, RecoveredRow
  <2>4. records \in Seq(RowType) /\ Len(records) \in Nat
    BY SoundFacts DEF RowsTyped
  <2>5. Len(Append(records, row)) = Len(records) + 1
    BY <2>3, <2>4, AppendProperties
  <2> QED  BY <2>3, <2>4, <2>5
<1>8. ASSUME status' \in {"catchup", "tail", "taillookup"} PROVE cursor' >= 1
  <2>1. LastIndexed \in Nat /\ cursor \in Nat
    BY <1>1, SoundFacts, LastIndexedOf DEF Memory
  <2>2. \/ cursor' = LastIndexed + 1
        \/ cursor' \in {cursor, cursor + 1} /\ status \in {"catchup", "tail", "taillookup"}
    BY <1>8, StatusChange DEF RecoverStart, CatchUpLookup, RecoverLine, RecoverLookup
  <2> QED  BY <1>1, <2>1, <2>2 DEF Working
<1> QED  BY <1>2, <1>3, <1>4, <1>5, <1>6, <1>7, <1>8 DEF Working

-----------------------------------------------------------------------------

\* So does a step that changes nothing.
LEMMA SoundStutter ==
    ASSUME Sound, UNCHANGED ledgerVars
    PROVE  Sound'
BY DEF Sound, Manifests, Rows, Memory, Working, ledgerVars, diskVars, memVars, Active, Ids

\* Sound is an invariant.
LEMMA SoundInvariant == LedgerSpec => []Sound
<1>1. ASSUME Sound, LedgerNext PROVE Sound'
  BY <1>1, SoundFiles, ManifestsStep, RowsStep, MemoryStep, WorkingStep DEF Sound
<1>2. ASSUME Sound, [LedgerNext]_ledgerVars PROVE Sound'
  BY <1>1, <1>2, SoundStutter
<1> QED  BY <1>2, SoundInit, PTL DEF LedgerSpec

-----------------------------------------------------------------------------
(***************************************************************************)
(* The store before its first manifest, and which segments are mounted.    *)
(***************************************************************************)
\* A manifest is there.
LEMMA ManifestThere ==
    ASSUME NEW m, NEW fs, ManifestOk(m, fs)
    PROVE  m # None
BY LedgerAssumption DEF ManifestOk

\* The store before its first manifest is saved.
Unborn ==
    /\ disk = None => /\ status \in {"down", "create"} /\ records = <<>> /\ acked = {}
                      /\ DOMAIN lookup = {} /\ archived = {}
    /\ status = "create" => disk = None

\* Every step keeps Unborn.
LEMMA UnbornStep ==
    ASSUME Sound, Unborn, LedgerNext
    PROVE  Unborn'
<1>1. disk' = disk \/ (status \in {"create", "save"} /\ ManifestOk(disk', files) /\ disk' # None)
  <2>1. disk' = disk \/ (status \in {"create", "save"} /\ disk' = manifest)
    BY DiskChange DEF CreateSave, Save, SaveFails
  <2> QED  BY <2>1, SoundFacts, ManifestThere
<1>2. ASSUME disk' = None
      PROVE  /\ status' \in {"down", "create"} /\ records' = <<>> /\ acked' = {}
             /\ DOMAIN lookup' = {} /\ archived' = {}
  <2>1. disk = None /\ status \in {"down", "create"}
    BY <1>1, <1>2 DEF Unborn
  <2>2. Open \/ CreateSave \/ Stop \/ PowerLoss
    BY <2>1 DEF LedgerNext, LedgerStep, AppendLine, AppendFails, MayAppend,
        InsertRecord, InsertFails, AppendLookup, Rotate, RotateRaises, Save, SaveFails, RecoverStart,
        CatchUpLookup, RecoverLine, RecoverLookup, RecoverEnd, Reindex, RebuildLookup, Unmount, Mount
  <2>3. ~CreateSave
    <3>1. CreateSave => ManifestOk(manifest, files) /\ disk' = manifest
      BY SoundFacts DEF CreateSave
    <3> QED  BY <1>2, <3>1, ManifestThere
  <2>4. status' \in {"down", "create"}
    BY <2>1, <2>2, <2>3 DEF Open, Stop, PowerLoss, Down
  <2>5. records' = records /\ acked' = acked /\ lookup' = lookup /\ archived' = archived
    BY <2>2 DEF Open, CreateSave, Stop, PowerLoss, diskVars
  <2> QED  BY <2>1, <2>4, <2>5 DEF Unborn
<1>3. ASSUME status' = "create" PROVE disk' = None
  <2>1. Open
    BY <1>3, StatusChange
  <2> QED  BY <1>3, <2>1 DEF Open
<1> QED  BY <1>2, <1>3 DEF Unborn

\* Unborn is an invariant.
LEMMA UnbornInvariant == LedgerSpec => []Unborn
<1>1. LedgerInit => Unborn
  BY DEF LedgerInit, Unborn, NoLookup
<1>2. ASSUME Sound, Unborn, [LedgerNext]_ledgerVars PROVE Unborn'
  <2>1. CASE UNCHANGED ledgerVars
    BY <1>2, <2>1 DEF Unborn, ledgerVars, diskVars, memVars
  <2> QED  BY <1>2, <2>1, UnbornStep
<1> QED  BY <1>1, <1>2, SoundInvariant, PTL DEF LedgerSpec

-----------------------------------------------------------------------------

\* Only unmount and mount move a segment file.
LEMMA ArchivedChange ==
    ASSUME LedgerNext
    PROVE  archived' = archived \/ (status = "ready" /\ \E s \in Segments : Unmount(s) \/ Mount(s))
BY Zenon DEF diskVars, LedgerNext, LedgerStep, Open, CreateSave, Stop, PowerLoss, AppendLine,
    AppendFails, InsertRecord, InsertFails, AppendLookup, Rotate, RotateRaises, Save, SaveFails,
    RecoverStart, CatchUpLookup, RecoverLine, RecoverLookup, RecoverEnd, Reindex, RebuildLookup

\* The manifest calls no segment archived.
AllMounted(m) == \A s \in 1..m.active : m.segs[s].mounted

\* The manifest calls archived what is, but for the segments whose move was cut.
Archives(ar, m, cut) ==
    \A s : s \in cut \/ (s \in ar <=> s \in 1..m.active /\ ~m.segs[s].mounted)

\* Until a segment is moved all are mounted; the manifest that governs says which are.
Mounts ==
    /\ used["move"] = 0 => /\ archived = {}
                           /\ status # "down" => AllMounted(manifest)
                           /\ disk # None => AllMounted(disk)
    /\ status = "down" /\ disk # None => Archives(archived, disk, moveCut)
    /\ status # "down" => Archives(archived, manifest, moveCut)

\* What a step does to the marks of the manifest, when no segment is moved.
LEMMA MarksKept ==
    ASSUME Sound, LedgerNext, status # "down", status' # "down",
           ~\E s \in Segments : Unmount(s) \/ Mount(s)
    PROVE  /\ manifest'.active \in 1..(Active + 1) /\ manifest'.active >= Active
           /\ \A s \in 1..Active : manifest'.segs[s].mounted = manifest.segs[s].mounted
           /\ \A s \in 1..manifest'.active : s > Active => manifest'.segs[s].mounted
<1>1. Active \in 1..Len(files) /\ Len(files) \in Nat
  BY SoundFacts
<1>2. CASE manifest' = manifest
  BY <1>1, <1>2 DEF Active
<1>3. CASE Rotate
  <2>1. /\ manifest'.active = Active + 1
        /\ \A t \in 1..Active : manifest'.segs[t].mounted = manifest.segs[t].mounted
        /\ manifest'.segs[Active + 1] = NewEntry
    BY <1>3, RotateManifest
  <2> HIDE DEF Active
  <2> QED  BY <1>1, <2>1 DEF NewEntry
<1>4. CASE RotateRaises
  <2>1. \/ manifest' = manifest
        \/ /\ manifest'.active = Active
           /\ \A t \in 1..Active : manifest'.segs[t].mounted = manifest.segs[t].mounted
    BY <1>4, RaisedManifest
  <2>2. CASE manifest' # manifest
    <3> HIDE DEF Active
    <3> QED  BY <1>1, <2>1, <2>2
  <2> QED  BY <1>2, <2>2
<1>5. ~Open /\ ~Stop /\ ~PowerLoss
  BY DEF Open, Stop, PowerLoss, Down
<1> QED  BY <1>2, <1>3, <1>4, <1>5, ManifestChange

\* When the process ends, the manifest and the place of the files are left alone.
LEMMA DownStep ==
    ASSUME LedgerNext, status' = "down"
    PROVE  /\ Stop \/ PowerLoss
           /\ disk' = disk /\ archived' = archived
<1>1. Stop \/ PowerLoss
  BY StatusChange
<1> QED  BY <1>1 DEF Stop, PowerLoss, diskVars

\* Every step keeps Mounts.
LEMMA MountsStep ==
    ASSUME Sound, Unborn, Mounts, LedgerNext
    PROVE  Mounts'
<1>1. used \in [EventKind -> Nat] /\ {"move", "stop", "power"} \subseteq EventKind
  BY DEF Sound, Memory, EventKind
<1>2. \A k \in EventKind : used[k] <= used'[k]
  BY <1>1, UsedChange
<1>3. used' \in [EventKind -> Nat]
  BY <1>1, UsedChange
<1>4. disk' = disk \/ (status # "down" /\ disk' = manifest)
  BY DiskChange DEF CreateSave, Save, SaveFails
<1>5. status = "down" => Open \/ PowerLoss
  BY DEF LedgerNext, LedgerStep, CreateSave, Stop, AppendLine, AppendFails, MayAppend,
        InsertRecord, InsertFails, AppendLookup, Rotate, RotateRaises, Save, SaveFails, RecoverStart,
        CatchUpLookup, RecoverLine, RecoverLookup, RecoverEnd, Reindex, RebuildLookup, Unmount, Mount
<1>6. Open => \/ disk # None /\ manifest' = disk
              \/ disk = None /\ manifest' = [active |-> 1, segs |-> <<NewEntry>>]
  BY DEF Open
<1>7. LET m == [active |-> 1, segs |-> <<NewEntry>>]
      IN  AllMounted(m) /\ Archives({}, m, moveCut)
  BY DEF AllMounted, Archives, NewEntry
<1>8. status # "down" => Active \in 1..Len(files) /\ Len(files) \in Nat /\ Segments = 1..Active
  BY SoundFacts
<1>9. ASSUME used'["move"] = 0
      PROVE  /\ archived' = {}
             /\ status' # "down" => AllMounted(manifest')
             /\ disk' # None => AllMounted(disk')
  <2>1. used["move"] = 0
    BY <1>1, <1>2, <1>3, <1>9
  <2>2. archived = {} /\ (status # "down" => AllMounted(manifest)) /\ (disk # None => AllMounted(disk))
    BY <2>1 DEF Mounts
  <2>3. ~(status = "ready" /\ \E s \in Segments : Unmount(s) \/ Mount(s))
    <3>1. ASSUME Use("move") PROVE FALSE
      BY <1>1, <1>9, <2>1, <3>1 DEF Use
    <3> QED  BY <3>1 DEF Unmount, Mount
  <2>4. archived' = {}
    BY <2>2, <2>3, ArchivedChange
  <2>5. disk' # None => AllMounted(disk')
    BY <1>4, <2>2
  <2>6. ASSUME status' # "down" PROVE AllMounted(manifest')
    <3>1. CASE status = "down"
      <4>1. Open
        BY <1>5, <2>6, <3>1 DEF PowerLoss, Down
      <4> QED  BY <1>6, <1>7, <2>2, <4>1
    <3>2. CASE status # "down"
      <4>1. ~\E s \in Segments : Unmount(s) \/ Mount(s)
        BY <2>3 DEF Unmount, Mount
      <4>2. /\ manifest'.active \in 1..(Active + 1)
            /\ \A s \in 1..Active : manifest'.segs[s].mounted = manifest.segs[s].mounted
            /\ \A s \in 1..manifest'.active : s > Active => manifest'.segs[s].mounted
        BY <2>6, <3>2, <4>1, MarksKept
      <4>3. \A s \in 1..Active : manifest.segs[s].mounted
        BY <2>2, <3>2 DEF AllMounted, Active
      <4> HIDE DEF Active
      <4> QED  BY <1>8, <3>2, <4>2, <4>3 DEF AllMounted
    <3> QED  BY <3>1, <3>2
  <2> QED  BY <2>4, <2>5, <2>6
<1>10. ASSUME status' = "down", disk' # None PROVE Archives(archived, disk, moveCut')
  <2>1. moveCut' = moveCut \cup Misplaced
    BY <1>10 DEF LedgerNext, Remember
  <2>2. disk # None
    BY <1>10, DownStep
  <2>3. ManifestOk(disk, files) /\ DOMAIN files = 1..Len(files) /\ Len(files) \in Nat
    BY <2>2, SoundFacts DEF Sound, Manifests
  <2>4. DOMAIN disk.segs = 1..disk.active /\ disk.active \in 1..Len(files)
    BY <2>3, ManifestOf DEF ManifestOk
  <2>5. ASSUME NEW s, s \notin moveCut' PROVE s \in archived <=> s \in 1..disk.active /\ ~disk.segs[s].mounted
    <3>1. s \notin moveCut /\ s \notin Misplaced
      BY <2>1, <2>5
    <3>2. CASE s \in 1..Len(files)
      BY <2>2, <2>3, <2>4, <3>1, <3>2 DEF Misplaced
    <3>3. CASE s \notin 1..Len(files)
      <4>1. s \notin 1..disk.active
        BY <2>3, <2>4, <3>3
      <4>2. CASE status = "down"
        BY <2>2, <3>1, <4>1, <4>2 DEF Mounts, Archives
      <4>3. CASE status # "down"
        <5>1. s \notin 1..manifest.active
          BY <1>8, <2>3, <3>3, <4>3 DEF Active
        <5> QED  BY <3>1, <4>1, <4>3, <5>1 DEF Mounts, Archives
      <4> QED  BY <4>2, <4>3
    <3> QED  BY <3>2, <3>3
  <2> QED  BY <2>5 DEF Archives
<1>11. ASSUME status' # "down" PROVE Archives(archived', manifest', moveCut')
  <2>1. moveCut' = moveCut
    BY <1>11 DEF LedgerNext, Remember
  <2>3. ~Stop /\ ~PowerLoss
    BY <1>11 DEF Stop, PowerLoss, Down
  <2>5. CASE status = "down"
    <3>1. Open /\ archived' = archived
      BY <1>5, <2>3, <2>5 DEF Open
    <3>2. CASE disk = None
      <4>1. archived' = {} /\ manifest' = [active |-> 1, segs |-> <<NewEntry>>]
        BY <1>6, <3>1, <3>2 DEF Unborn
      <4> QED  BY <1>7, <2>1, <4>1
    <3>3. CASE disk # None
      BY <1>6, <2>1, <2>5, <3>1, <3>3 DEF Mounts
    <3> QED  BY <3>2, <3>3
  <2>6. CASE status # "down" /\ ~\E s \in Segments : Unmount(s) \/ Mount(s)
    <3>1. archived' = archived
      BY <2>6, ArchivedChange
    <3>2. /\ manifest'.active \in 1..(Active + 1) /\ manifest'.active >= Active
          /\ \A s \in 1..Active : manifest'.segs[s].mounted = manifest.segs[s].mounted
          /\ \A s \in 1..manifest'.active : s > Active => manifest'.segs[s].mounted
      BY <1>11, <2>6, MarksKept
    <3>3. \A s : s \in moveCut \/ (s \in archived <=> s \in 1..Active /\ ~manifest.segs[s].mounted)
      BY <2>6 DEF Mounts, Archives, Active
    <3>4. ASSUME NEW s, s \notin moveCut
          PROVE  s \in archived <=> s \in 1..manifest'.active /\ ~manifest'.segs[s].mounted
      <4> HIDE DEF Active
      <4>1. CASE s \in 1..Active
        BY <1>8, <2>6, <3>2, <3>3, <3>4, <4>1
      <4>2. CASE s \notin 1..Active
        BY <1>8, <2>6, <3>2, <3>3, <3>4, <4>2
      <4> QED  BY <4>1, <4>2
    <3> QED  BY <2>1, <3>1, <3>4 DEF Archives
  <2>7. ASSUME status # "down", NEW s \in Segments, Unmount(s) \/ Mount(s)
        PROVE  Archives(archived', manifest', moveCut')
    <3>1. status = "ready"
      BY <2>7 DEF Unmount, Mount
    <3>2. PICK v \in BOOLEAN : /\ manifest' = Marked(s, v)
                               /\ archived' = IF v THEN archived \ {s} ELSE archived \cup {s}
      BY <2>7 DEF Unmount, Mount
    <3>3. /\ manifest'.active = Active
          /\ \A t \in 1..Active : manifest'.segs[t].mounted = IF t = s THEN v
             ELSE manifest.segs[t].mounted
      BY <3>1, <3>2, MarkedManifest
    <3>4. \A t : t \in moveCut \/ (t \in archived <=> t \in 1..Active /\ ~manifest.segs[t].mounted)
      BY <2>7 DEF Mounts, Archives, Active
    <3>6. s \in 1..Active
      BY <1>8, <2>7
    <3> HIDE DEF Active
    <3> QED  BY <2>1, <3>2, <3>3, <3>4, <3>6 DEF Archives
  <2> QED  BY <2>5, <2>6, <2>7
<1>12. status' = "down" => disk' = disk /\ archived' = archived
  BY DownStep
<1> QED  BY <1>9, <1>10, <1>11, <1>12 DEF Mounts

\* Mounts is an invariant.
LEMMA MountsInvariant == LedgerSpec => []Mounts
<1>1. LedgerInit => Mounts
  BY DEF LedgerInit, Mounts
<1>2. ASSUME Sound, Unborn, Mounts, [LedgerNext]_ledgerVars PROVE Mounts'
  <2>1. CASE UNCHANGED ledgerVars
    BY <1>2, <2>1 DEF Mounts, ledgerVars, diskVars, memVars, historyVars
  <2> QED  BY <1>2, <2>1, MountsStep
<1> QED  BY <1>1, <1>2, SoundInvariant, UnbornInvariant, PTL DEF LedgerSpec

-----------------------------------------------------------------------------
(***************************************************************************)
(* Files that hold the records in order, and what keeps them so.           *)
(***************************************************************************)
\* Where the lines of the first n segments end.
EndOf(fs, n, b) == b[n] + Len(fs[n].lines)

\* The same lines, of which more may be durable.
SameLines(fs, gs, n) ==
    /\ Len(gs) = Len(fs)
    /\ \A s \in 1..Len(fs) : /\ gs[s].lines = fs[s].lines /\ fs[s].synced <= gs[s].synced
                             /\ s # n => gs[s].torn = fs[s].torn

\* What is known of files and records in order.
LEMMA LayoutFacts ==
    ASSUME NEW fs, FilesOk(fs), NEW rs, RowsTyped(rs, fs), NEW n, NEW b, Layout(fs, rs, n, b)
    PROVE  /\ n \in Nat /\ n \in 1..n /\ n \in 1..Len(fs) /\ Len(fs) \in Nat /\ Len(rs) \in Nat
           /\ b[n] \in Nat /\ EndOf(fs, n, b) \in Nat /\ b[n] <= Len(rs)
           /\ \A s \in 1..n : s \in 1..Len(fs) /\ b[s] \in Nat /\ Len(fs[s].lines) \in Nat
           /\ \A s \in 1..n : s < n => b[s] + Len(fs[s].lines) <= b[n]
           /\ \A i \in 1..Len(rs) :
                 /\ rs[i].seg \in 1..n /\ rs[i].off \in Nat /\ rs[i].off >= 1
                 /\ i = b[rs[i].seg] + rs[i].off
                 /\ rs[i].off <= Len(fs[rs[i].seg].lines) => Names(fs, rs[i])
                 /\ i <= EndOf(fs, n, b) => rs[i].off <= Len(fs[rs[i].seg].lines)
                 /\ i > b[n] => rs[i].seg = n
                 /\ rs[i].seg = n => i > b[n]
<1>1. /\ n \in 1..Len(fs) /\ Bases(fs, n, b) /\ InOrder(fs, rs, n, b) /\ b[n] <= Len(rs)
  BY DEF Layout
<1>2. Len(fs) \in Nat
  BY LenProperties DEF FilesOk
<1>3. n \in Nat /\ n \in 1..n
  BY <1>1, <1>2
<1>4. \A s \in 1..n : s \in 1..Len(fs)
  BY <1>1, <1>2, <1>3
<1>5. \A s \in 1..n : Len(fs[s].lines) \in Nat
  BY <1>4, FileOf
<1>6. \A s \in 1..n : b[s] \in Nat
  BY <1>1 DEF Bases
<1>7. /\ Len(rs) \in Nat /\ \A i \in 1..Len(rs) : rs[i].off \in Nat
  BY RowOf
<1>8. \A s \in 1..n : s < n => b[s] + Len(fs[s].lines) <= b[n]
  BY <1>1, <1>3 DEF Bases
<1>9. ASSUME NEW i \in 1..Len(rs)
      PROVE  /\ rs[i].seg \in 1..n /\ rs[i].off \in Nat /\ rs[i].off >= 1
             /\ i = b[rs[i].seg] + rs[i].off
             /\ rs[i].off <= Len(fs[rs[i].seg].lines) => Names(fs, rs[i])
             /\ i <= EndOf(fs, n, b) => rs[i].off <= Len(fs[rs[i].seg].lines)
             /\ i > b[n] => rs[i].seg = n
             /\ rs[i].seg = n => i > b[n]
  <2>1. /\ rs[i].seg \in 1..n /\ rs[i].off >= 1 /\ i = b[rs[i].seg] + rs[i].off /\ rs[i].off \in Nat
        /\ rs[i].seg < n => rs[i].off <= Len(fs[rs[i].seg].lines)
        /\ rs[i].off <= Len(fs[rs[i].seg].lines) => fs[rs[i].seg].lines[rs[i].off].id = rs[i].id
    BY <1>1, <1>7 DEF InOrder
  <2>2. PICK s : s = rs[i].seg
    OBVIOUS
  <2>3. s \in 1..n /\ b[s] \in Nat /\ Len(fs[s].lines) \in Nat /\ b[n] \in Nat
        /\ (s < n => b[s] + Len(fs[s].lines) <= b[n])
    BY <1>3, <1>5, <1>6, <1>8, <2>1, <2>2
  <2>4. s = n \/ s < n
    BY <1>3, <2>3
  <2>5. PICK o : o = rs[i].off
    OBVIOUS
  <2>6. /\ o \in Nat /\ o >= 1 /\ i = b[s] + o /\ i \in Nat
        /\ s < n => o <= Len(fs[s].lines)
    BY <1>7, <2>1, <2>2, <2>5
  <2>7. i <= EndOf(fs, n, b) => o <= Len(fs[s].lines)
    BY <2>3, <2>4, <2>6 DEF EndOf
  <2>8. (i > b[n] => s = n) /\ (s = n => i > b[n])
    BY <2>3, <2>4, <2>6
  <2>9. rs[i].off <= Len(fs[rs[i].seg].lines) => Names(fs, rs[i])
    BY <2>1 DEF Names
  <2> QED  BY <2>1, <2>2, <2>5, <2>7, <2>8, <2>9
<1> QED  BY <1>1, <1>2, <1>3, <1>4, <1>5, <1>6, <1>7, <1>8, <1>9 DEF EndOf

\* Flushing, or a mark on the last segment, leaves the layout.
LEMMA LayoutFlushed ==
    ASSUME NEW fs, FilesOk(fs), NEW gs, FilesOk(gs), NEW rs, NEW n, NEW b, Layout(fs, rs, n, b),
           SameLines(fs, gs, n)
    PROVE  Layout(gs, rs, n, b)
<1>1. /\ n \in 1..Len(fs) /\ Bases(fs, n, b) /\ InOrder(fs, rs, n, b) /\ OneLine(fs, n)
      /\ ClosedOk(fs, n)
      /\ b[n] <= Len(rs)
  BY DEF Layout
<1>2. Len(fs) \in Nat /\ Len(gs) = Len(fs)
  BY LenProperties DEF FilesOk, SameLines
<1>3. \A s \in 1..n : s \in 1..Len(fs)
  BY <1>1, <1>2
<1>4. \A s \in 1..Len(fs) : /\ gs[s].lines = fs[s].lines /\ fs[s].synced <= gs[s].synced
                            /\ s # n => gs[s].torn = fs[s].torn
  BY DEF SameLines
<1>5. Bases(gs, n, b)
  BY <1>1, <1>3, <1>4 DEF Bases
<1>6. InOrder(gs, rs, n, b)
  <2>1. ASSUME NEW i \in 1..Len(rs)
        PROVE  /\ rs[i].seg \in 1..n /\ rs[i].off >= 1 /\ i = b[rs[i].seg] + rs[i].off
               /\ rs[i].seg < n => rs[i].off <= Len(gs[rs[i].seg].lines)
               /\ rs[i].off <= Len(gs[rs[i].seg].lines) => gs[rs[i].seg].lines[rs[i].off].id = rs[i].id
    BY <1>1, <1>3, <1>4 DEF InOrder
  <2> QED  BY <2>1 DEF InOrder
<1>7. OneLine(gs, n)
  <2>1. SUFFICES ASSUME NEW s \in 1..n, NEW t \in 1..n, NEW o \in 1..Len(gs[s].lines),
                        NEW p \in 1..Len(gs[t].lines), gs[s].lines[o].id = gs[t].lines[p].id
                 PROVE  s = t /\ o = p
    BY DEF OneLine
  <2>2. gs[s].lines = fs[s].lines /\ gs[t].lines = fs[t].lines
    BY <1>3, <1>4
  <2> QED  BY <1>1, <2>1, <2>2 DEF OneLine
<1>8. ClosedOk(gs, n)
  <2>1. \A s \in 1..Len(fs) : /\ gs[s].synced \in Nat /\ fs[s].synced \in Nat
                              /\ gs[s].synced <= Len(gs[s].lines) /\ Len(gs[s].lines) \in Nat
    BY <1>2, FileOf
  <2>2. ASSUME NEW s \in 1..n, s < n PROVE gs[s].synced = Len(gs[s].lines) /\ ~gs[s].torn
    <3>1. fs[s].synced = Len(fs[s].lines) /\ ~fs[s].torn /\ s \in 1..Len(fs) /\ s # n
      BY <1>1, <1>3, <2>2 DEF ClosedOk
    <3> QED  BY <1>4, <2>1, <3>1
  <2>3. ASSUME NEW s \in 1..Len(gs), s > n PROVE gs[s].lines = <<>> /\ ~gs[s].torn
    <3>1. s \in 1..Len(fs) /\ s # n
      BY <1>1, <1>2, <2>3
    <3>2. fs[s].lines = <<>> /\ ~fs[s].torn
      BY <1>1, <2>3, <3>1 DEF ClosedOk
    <3> QED  BY <1>4, <3>1, <3>2
  <2> QED  BY <1>1, <1>2, <2>2, <2>3 DEF ClosedOk
<1> QED  BY <1>1, <1>2, <1>5, <1>6, <1>7, <1>8 DEF Layout

\* A row for the first line that has none.
LEMMA LayoutRow ==
    ASSUME NEW fs, FilesOk(fs), NEW rs, RowsTyped(rs, fs), NEW n, NEW b, Layout(fs, rs, n, b),
           NEW row, row.seg = n, row.off \in Nat, row.off >= 1, Len(rs) + 1 = b[n] + row.off,
           Names(fs, row),
           NEW qs, Len(qs) = Len(rs) + 1, \A i \in 1..Len(rs) : qs[i] = rs[i], qs[Len(rs) + 1] = row
    PROVE  Layout(fs, qs, n, b)
<1>1. /\ n \in 1..Len(fs) /\ Bases(fs, n, b) /\ InOrder(fs, rs, n, b) /\ OneLine(fs, n)
      /\ ClosedOk(fs, n)
      /\ b[n] <= Len(rs)
  BY DEF Layout
<1>2. n \in Nat /\ n \in 1..n /\ Len(rs) \in Nat /\ b[n] \in Nat
  BY LayoutFacts
<1>3. InOrder(fs, qs, n, b)
  <2>1. SUFFICES ASSUME NEW i \in 1..Len(qs)
        PROVE  /\ qs[i].seg \in 1..n /\ qs[i].off >= 1 /\ i = b[qs[i].seg] + qs[i].off
               /\ qs[i].seg < n => qs[i].off <= Len(fs[qs[i].seg].lines)
               /\ qs[i].off <= Len(fs[qs[i].seg].lines) => fs[qs[i].seg].lines[qs[i].off].id = qs[i].id
    BY DEF InOrder
  <2>2. CASE i \in 1..Len(rs)
    BY <1>1, <2>2 DEF InOrder
  <2>3. CASE i = Len(rs) + 1
    BY <1>2, <2>3 DEF Names
  <2> QED  BY <1>2, <2>2, <2>3
<1> QED  BY <1>1, <1>2, <1>3 DEF Layout

\* A line before the last record's has a row: the one that its place gives.
LEMMA LineHasRow ==
    ASSUME NEW fs, FilesOk(fs), NEW rs, RowsTyped(rs, fs), NEW n, NEW b, Layout(fs, rs, n, b),
           NEW s \in 1..n, NEW o \in 1..Len(fs[s].lines), b[s] + o <= Len(rs)
    PROVE  /\ b[s] + o \in 1..Len(rs) /\ rs[b[s] + o].seg = s /\ rs[b[s] + o].off = o
           /\ rs[b[s] + o].id = fs[s].lines[o].id
<1>1. /\ n \in Nat /\ n \in 1..n /\ Len(rs) \in Nat /\ b[n] \in Nat
      /\ \A t \in 1..n : b[t] \in Nat /\ Len(fs[t].lines) \in Nat
      /\ \A i \in 1..Len(rs) : /\ rs[i].seg \in 1..n /\ rs[i].off \in Nat /\ rs[i].off >= 1
                               /\ i = b[rs[i].seg] + rs[i].off
                               /\ rs[i].off <= Len(fs[rs[i].seg].lines) => Names(fs, rs[i])
  BY LayoutFacts
<1>2. /\ \A t \in 1..n : \A u \in 1..n : t < u => b[t] + Len(fs[t].lines) <= b[u]
      /\ \A i \in 1..Len(rs) : rs[i].seg < n => rs[i].off <= Len(fs[rs[i].seg].lines)
  BY DEF Layout, Bases, InOrder
<1>3. PICK i : i = b[s] + o
  OBVIOUS
<1>4. i \in 1..Len(rs) /\ b[s] \in Nat /\ o \in Nat /\ o <= Len(fs[s].lines) /\ o >= 1
  BY <1>1, <1>3
<1>5. PICK t : t = rs[i].seg
  OBVIOUS
<1>6. PICK p : p = rs[i].off
  OBVIOUS
<1>7. /\ t \in 1..n /\ p \in Nat /\ p >= 1 /\ i = b[t] + p /\ b[t] \in Nat /\ Len(fs[t].lines) \in Nat
      /\ t < n => p <= Len(fs[t].lines)
      /\ Len(fs[s].lines) \in Nat
  BY <1>1, <1>2, <1>4, <1>5, <1>6
<1>8. ~(t < s)
  <2>1. SUFFICES ASSUME t < s PROVE FALSE
    OBVIOUS
  <2>2. b[t] + Len(fs[t].lines) <= b[s]
    BY <1>2, <1>7, <2>1
  <2>3. t < n
    BY <1>1, <1>7, <2>1
  <2>4. PICK x \in Nat, y \in Nat, l \in Nat : x = b[s] /\ y = b[t] /\ l = Len(fs[t].lines)
    BY <1>4, <1>7
  <2>5. i = x + o /\ o >= 1 /\ i = y + p /\ p <= l /\ y + l <= x /\ o \in Nat /\ p \in Nat
    BY <1>3, <1>4, <1>7, <2>2, <2>3, <2>4
  <2> QED  BY ONLY <2>4, <2>5, SMTT(30)
<1>9. ~(s < t)
  <2>1. SUFFICES ASSUME s < t PROVE FALSE
    OBVIOUS
  <2>2. b[s] + Len(fs[s].lines) <= b[t]
    BY <1>2, <1>7, <2>1
  <2>3. PICK x \in Nat, y \in Nat, l \in Nat : x = b[s] /\ y = b[t] /\ l = Len(fs[s].lines)
    BY <1>4, <1>7
  <2>4. i = x + o /\ o <= l /\ i = y + p /\ p >= 1 /\ x + l <= y /\ o \in Nat /\ p \in Nat
    BY <1>3, <1>4, <1>7, <2>2, <2>3
  <2> QED  BY ONLY <2>3, <2>4, SMTT(30)
<1>10. t = s
  BY <1>7, <1>8, <1>9
<1>11. p = o
  BY <1>3, <1>4, <1>7, <1>10
<1>12. Names(fs, rs[i])
  BY <1>1, <1>4, <1>5, <1>6, <1>10, <1>11
<1> QED  BY <1>3, <1>4, <1>5, <1>6, <1>10, <1>11, <1>12 DEF Names

\* A line of a new id at the end, when every line has its row.
LEMMA LayoutLine ==
    ASSUME NEW fs, FilesOk(fs), NEW gs, FilesOk(gs), NEW rs, RowsTyped(rs, fs), NEW n, NEW b,
           Layout(fs, rs, n, b), Len(rs) = EndOf(fs, n, b), NEW c,
           \A i \in 1..Len(rs) : rs[i].id # c,
           Len(gs) = Len(fs), \A s \in 1..Len(fs) : s # n => gs[s] = fs[s],
           Len(gs[n].lines) = Len(fs[n].lines) + 1,
           \A o \in 1..Len(fs[n].lines) : gs[n].lines[o] = fs[n].lines[o],
           gs[n].lines[Len(fs[n].lines) + 1].id = c
    PROVE  Layout(gs, rs, n, b)
<1>1. /\ n \in 1..Len(fs) /\ Bases(fs, n, b) /\ InOrder(fs, rs, n, b) /\ OneLine(fs, n)
      /\ ClosedOk(fs, n)
      /\ b[n] <= Len(rs)
  BY DEF Layout
<1>2. /\ n \in Nat /\ n \in 1..n /\ Len(rs) \in Nat /\ b[n] \in Nat /\ Len(fs) \in Nat
      /\ \A s \in 1..n : s \in 1..Len(fs) /\ b[s] \in Nat /\ Len(fs[s].lines) \in Nat
      /\ \A s \in 1..n : s < n => b[s] + Len(fs[s].lines) <= b[n]
      /\ \A i \in 1..Len(rs) : /\ rs[i].seg \in 1..n /\ rs[i].off \in Nat /\ rs[i].off >= 1
                               /\ i <= EndOf(fs, n, b) => rs[i].off <= Len(fs[rs[i].seg].lines)
  BY LayoutFacts
<1>3. Bases(gs, n, b)
  <2>1. \A s \in 1..n : s < n => gs[s].lines = fs[s].lines
    BY <1>2, SMTT(30)
  <2> QED  BY <1>1, <2>1, SMTT(30) DEF Bases
<1>4. \A s \in 1..n : \A o \in 1..Len(fs[s].lines) : gs[s].lines[o] = fs[s].lines[o]
  BY <1>2
<1>5. InOrder(gs, rs, n, b)
  <2>1. SUFFICES ASSUME NEW i \in 1..Len(rs)
        PROVE  /\ rs[i].seg \in 1..n /\ rs[i].off >= 1 /\ i = b[rs[i].seg] + rs[i].off
               /\ rs[i].seg < n => rs[i].off <= Len(gs[rs[i].seg].lines)
               /\ rs[i].off <= Len(gs[rs[i].seg].lines) => gs[rs[i].seg].lines[rs[i].off].id = rs[i].id
    BY DEF InOrder
  <2>2. /\ rs[i].seg \in 1..n /\ rs[i].off >= 1 /\ i = b[rs[i].seg] + rs[i].off
        /\ rs[i].off <= Len(fs[rs[i].seg].lines)
        /\ fs[rs[i].seg].lines[rs[i].off].id = rs[i].id
    <3>1. i <= EndOf(fs, n, b)
      BY <1>2
    <3>2. /\ rs[i].seg \in 1..n /\ rs[i].off >= 1 /\ i = b[rs[i].seg] + rs[i].off
          /\ rs[i].off <= Len(fs[rs[i].seg].lines) => fs[rs[i].seg].lines[rs[i].off].id = rs[i].id
      BY <1>1 DEF InOrder
    <3>3. rs[i].off <= Len(fs[rs[i].seg].lines)
      BY <1>2, <3>1
    <3> QED  BY <3>2, <3>3
  <2>3. rs[i].off \in 1..Len(fs[rs[i].seg].lines)
    BY <1>2, <2>2
  <2>4. gs[rs[i].seg].lines[rs[i].off] = fs[rs[i].seg].lines[rs[i].off]
    BY <1>4, <2>2, <2>3
  <2>5. rs[i].seg < n => Len(gs[rs[i].seg].lines) = Len(fs[rs[i].seg].lines)
    BY <1>2, <2>2, SMTT(30)
  <2> QED  BY <2>2, <2>4, <2>5
<1>6. \A s \in 1..n : \A o \in 1..Len(fs[s].lines) : fs[s].lines[o].id # c
  <2>1. SUFFICES ASSUME NEW s \in 1..n, NEW o \in 1..Len(fs[s].lines) PROVE fs[s].lines[o].id # c
    OBVIOUS
  <2>2. b[s] + o <= Len(rs)
    <3>1. s = n \/ s < n
      BY <1>2
    <3>2. b[s] \in Nat /\ Len(fs[s].lines) \in Nat /\ o <= Len(fs[s].lines) /\ o \in Nat
      BY <1>2
    <3>3. s < n => b[s] + Len(fs[s].lines) <= b[n]
      BY <1>2
    <3> QED  BY <1>2, <3>1, <3>2, <3>3, SMTT(30) DEF EndOf
  <2>3. b[s] + o \in 1..Len(rs) /\ rs[b[s] + o].id = fs[s].lines[o].id
    BY <2>2, LineHasRow
  <2> QED  BY <2>3
<1>7. OneLine(gs, n)
  <2>1. SUFFICES ASSUME NEW s \in 1..n, NEW t \in 1..n, NEW o \in 1..Len(gs[s].lines),
                        NEW p \in 1..Len(gs[t].lines), gs[s].lines[o].id = gs[t].lines[p].id
                 PROVE  s = t /\ o = p
    BY DEF OneLine
  <2>2. \A u \in 1..n : \A v \in 1..Len(gs[u].lines) :
           v \in 1..Len(fs[u].lines) \/ (u = n /\ v = Len(fs[n].lines) + 1)
    <3>1. ASSUME NEW u \in 1..n, NEW v \in 1..Len(gs[u].lines)
          PROVE v \in 1..Len(fs[u].lines) \/ (u = n /\ v = Len(fs[n].lines) + 1)
      <4>1. CASE u = n
        BY <1>2, <4>1, SMTT(30)
      <4>2. CASE u # n
        BY <1>2, <4>2
      <4> QED  BY <4>1, <4>2
    <3> QED  BY <3>1
  <2>3. CASE o \in 1..Len(fs[s].lines) /\ p \in 1..Len(fs[t].lines)
    <3>1. gs[s].lines[o] = fs[s].lines[o] /\ gs[t].lines[p] = fs[t].lines[p]
      BY <1>4, <2>3
    <3>2. fs[s].lines[o].id = fs[t].lines[p].id
      BY <2>1, <3>1
    <3>3. \A x \in 1..Len(fs[s].lines) : \A y \in 1..Len(fs[t].lines) :
             fs[s].lines[x].id = fs[t].lines[y].id => s = t /\ x = y
      BY <1>1 DEF OneLine
    <3> QED  BY <2>3, <3>2, <3>3
  <2>4. ASSUME o \in 1..Len(fs[s].lines), t = n, p = Len(fs[n].lines) + 1 PROVE FALSE
    <3>1. gs[s].lines[o] = fs[s].lines[o] /\ fs[s].lines[o].id # c
      BY <1>4, <1>6, <2>4
    <3> QED  BY <2>1, <2>4, <3>1
  <2>5. ASSUME p \in 1..Len(fs[t].lines), s = n, o = Len(fs[n].lines) + 1 PROVE FALSE
    <3>1. gs[t].lines[p] = fs[t].lines[p] /\ fs[t].lines[p].id # c
      BY <1>4, <1>6, <2>5
    <3> QED  BY <2>1, <2>5, <3>1
  <2>6. /\ o \in 1..Len(fs[s].lines) \/ (s = n /\ o = Len(fs[n].lines) + 1)
        /\ p \in 1..Len(fs[t].lines) \/ (t = n /\ p = Len(fs[n].lines) + 1)
    BY <2>2
  <2> QED  BY <2>3, <2>4, <2>5, <2>6
<1>8. ClosedOk(gs, n)
  <2>1. \A s \in 1..n : s < n => gs[s] = fs[s]
    BY <1>2
  <2>2. \A s \in 1..Len(gs) : s > n => s \in 1..Len(fs) /\ gs[s] = fs[s]
    BY <1>2
  <2> QED  BY <1>1, <2>1, <2>2 DEF ClosedOk
<1> QED  BY <1>1, <1>3, <1>5, <1>7, <1>8 DEF Layout

\* A rotation, when every line has its row: the next segment follows.
LEMMA LayoutRotated ==
    ASSUME NEW fs, FilesOk(fs), NEW gs, FilesOk(gs), NEW rs, RowsTyped(rs, fs), NEW n, NEW b,
           Layout(fs, rs, n, b), Len(rs) = EndOf(fs, n, b), ~fs[n].torn,
           Len(gs) = n + 1,
           \A s \in 1..Len(fs) : s # n => gs[s] = fs[s],
           gs[n].lines = fs[n].lines, gs[n].torn = fs[n].torn, gs[n].synced = Len(fs[n].lines),
           gs[n + 1].lines = <<>>, ~gs[n + 1].torn
    PROVE  \E c : Layout(gs, rs, n + 1, c) /\ EndOf(gs, n + 1, c) = Len(rs)
<1>1. /\ n \in 1..Len(fs) /\ Bases(fs, n, b) /\ InOrder(fs, rs, n, b) /\ OneLine(fs, n)
      /\ ClosedOk(fs, n)
      /\ b[n] <= Len(rs)
  BY DEF Layout
<1>2. /\ n \in Nat /\ n \in 1..n /\ Len(rs) \in Nat /\ b[n] \in Nat /\ Len(fs) \in Nat
      /\ \A s \in 1..n : s \in 1..Len(fs) /\ b[s] \in Nat /\ Len(fs[s].lines) \in Nat
      /\ \A i \in 1..Len(rs) : /\ rs[i].seg \in 1..n /\ rs[i].off \in Nat /\ rs[i].off >= 1
                               /\ i <= EndOf(fs, n, b) => rs[i].off <= Len(fs[rs[i].seg].lines)
  BY LayoutFacts
<1>3. PICK c : c = [s \in 1..(n + 1) |-> IF s = n + 1 THEN Len(rs) ELSE b[s]]
  OBVIOUS
<1>4. /\ c \in [1..(n + 1) -> Nat] /\ c[n + 1] = Len(rs) /\ \A s \in 1..n : c[s] = b[s]
  <2>1. \A s \in 1..(n + 1) : s = n + 1 \/ s \in 1..n
    BY <1>2
  <2>2. \A s \in 1..n : s \in 1..(n + 1) /\ s # n + 1
    BY <1>2
  <2> QED  BY <1>2, <1>3, <2>1, <2>2
<1>5. \A s \in 1..n : gs[s].lines = fs[s].lines
  BY <1>2
<1>6. Len(gs[n + 1].lines) = 0
  BY EmptySeq
<1>7. Bases(gs, n + 1, c)
  <2>1. /\ b[1] = 0
        /\ \A s \in 1..n : s < n => b[s + 1] = b[s] + Len(fs[s].lines)
        /\ \A s, t \in 1..n : s < t => b[s] + Len(fs[s].lines) <= b[t]
    BY <1>1 DEF Bases
  <2>2. c[1] = 0
    BY <1>2, <1>4, <2>1
  <2>3. ASSUME NEW s \in 1..(n + 1), s < n + 1 PROVE c[s + 1] = c[s] + Len(gs[s].lines)
    <3>1. s \in 1..n /\ (s = n \/ (s < n /\ s + 1 \in 1..n))
      BY <1>2, <2>3
    <3>2. CASE s = n
      BY <1>2, <1>4, <1>5, <3>2 DEF EndOf
    <3>3. CASE s < n /\ s + 1 \in 1..n
      BY <1>4, <1>5, <2>1, <3>1, <3>3
    <3> QED  BY <3>1, <3>2, <3>3
  <2>4. ASSUME NEW s \in 1..(n + 1), NEW t \in 1..(n + 1), s < t PROVE c[s] + Len(gs[s].lines) <= c[t]
    <3>1. s \in 1..n /\ (t \in 1..n \/ t = n + 1)
      BY <1>2, <2>4
    <3>2. CASE t \in 1..n
      BY <1>4, <1>5, <2>1, <2>4, <3>1, <3>2
    <3>3. CASE t = n + 1 /\ s = n
      BY <1>2, <1>4, <1>5, <3>3 DEF EndOf
    <3>4. CASE t = n + 1 /\ s < n
      <4>1. b[s] + Len(fs[s].lines) <= b[n] /\ b[s] \in Nat /\ Len(fs[s].lines) \in Nat
        BY <1>2, <2>1, <3>1, <3>4
      <4>2. b[s] + Len(fs[s].lines) <= Len(rs)
        BY <1>1, <1>2, <4>1
      <4> QED  BY <1>4, <1>5, <3>1, <3>4, <4>2
    <3> QED  BY <1>2, <3>1, <3>2, <3>3, <3>4
  <2> QED  BY <1>4, <2>2, <2>3, <2>4 DEF Bases
<1>8. InOrder(gs, rs, n + 1, c)
  <2>1. SUFFICES ASSUME NEW i \in 1..Len(rs)
        PROVE  /\ rs[i].seg \in 1..(n + 1) /\ rs[i].off >= 1 /\ i = c[rs[i].seg] + rs[i].off
               /\ rs[i].seg < n + 1 => rs[i].off <= Len(gs[rs[i].seg].lines)
               /\ rs[i].off <= Len(gs[rs[i].seg].lines) => gs[rs[i].seg].lines[rs[i].off].id = rs[i].id
    BY DEF InOrder
  <2>2. /\ rs[i].seg \in 1..n /\ rs[i].off >= 1 /\ i = b[rs[i].seg] + rs[i].off
        /\ rs[i].off <= Len(fs[rs[i].seg].lines)
        /\ fs[rs[i].seg].lines[rs[i].off].id = rs[i].id
    <3>1. i <= EndOf(fs, n, b)
      BY <1>2
    <3>2. /\ rs[i].seg \in 1..n /\ rs[i].off >= 1 /\ i = b[rs[i].seg] + rs[i].off
          /\ rs[i].off <= Len(fs[rs[i].seg].lines) => fs[rs[i].seg].lines[rs[i].off].id = rs[i].id
      BY <1>1 DEF InOrder
    <3>3. rs[i].off <= Len(fs[rs[i].seg].lines)
      BY <1>2, <3>1
    <3> QED  BY <3>2, <3>3
  <2>3. rs[i].seg \in 1..(n + 1)
    BY <1>2, <2>2
  <2> QED  BY <1>4, <1>5, <2>2, <2>3
<1>9. OneLine(gs, n + 1)
  <2>1. SUFFICES ASSUME NEW s \in 1..(n + 1), NEW t \in 1..(n + 1), NEW o \in 1..Len(gs[s].lines),
                        NEW p \in 1..Len(gs[t].lines), gs[s].lines[o].id = gs[t].lines[p].id
                 PROVE  s = t /\ o = p
    BY DEF OneLine
  <2>2. s \in 1..n /\ t \in 1..n
    BY <1>2, <1>6
  <2>3. gs[s].lines = fs[s].lines /\ gs[t].lines = fs[t].lines
    BY <1>5, <2>2
  <2> QED  BY <1>1, <2>1, <2>2, <2>3 DEF OneLine
<1>10. ClosedOk(gs, n + 1)
  <2>1. ASSUME NEW s \in 1..(n + 1), s < n + 1 PROVE gs[s].synced = Len(gs[s].lines) /\ ~gs[s].torn
    <3>1. s \in 1..n /\ (s = n \/ s < n)
      BY <1>2, <2>1
    <3>2. s < n => fs[s].synced = Len(fs[s].lines) /\ ~fs[s].torn
      BY <1>1, <3>1 DEF ClosedOk
    <3>3. s < n => gs[s] = fs[s]
      BY <1>2, <3>1
    <3> QED  BY <3>1, <3>2, <3>3
  <2>2. \A s \in 1..Len(gs) : ~(s > n + 1)
    BY <1>2
  <2> QED  BY <1>2, <2>1, <2>2 DEF ClosedOk
<1>11. n + 1 \in 1..Len(gs)
  BY <1>2
<1>12. EndOf(gs, n + 1, c) = Len(rs)
  BY <1>2, <1>4, <1>6 DEF EndOf
<1>13. Layout(gs, rs, n + 1, c)
  BY <1>2, <1>4, <1>7, <1>8, <1>9, <1>10, <1>11 DEF Layout
<1> QED  BY <1>12, <1>13

\* The layout by the manifest on disk, when a rotation was not saved: the next
\* segment is still empty.
LEMMA LayoutUnrotated ==
    ASSUME NEW fs, FilesOk(fs), NEW rs, RowsTyped(rs, fs), NEW n, NEW b, Layout(fs, rs, n, b),
           NEW m \in Nat, m >= 1, m + 1 = n, fs[n].lines = <<>>, ~fs[n].torn, Len(fs) <= m + 1,
           Len(rs) <= EndOf(fs, n, b)
    PROVE  \E c : Layout(fs, rs, m, c)
<1>1. /\ n \in 1..Len(fs) /\ Bases(fs, n, b) /\ InOrder(fs, rs, n, b) /\ OneLine(fs, n)
      /\ ClosedOk(fs, n)
      /\ b[n] <= Len(rs)
  BY DEF Layout
<1>2. /\ n \in Nat /\ n \in 1..n /\ Len(rs) \in Nat /\ b[n] \in Nat /\ Len(fs) \in Nat
      /\ \A s \in 1..n : s \in 1..Len(fs) /\ b[s] \in Nat /\ Len(fs[s].lines) \in Nat
      /\ \A s \in 1..n : s < n => b[s] + Len(fs[s].lines) <= b[n]
      /\ \A i \in 1..Len(rs) : /\ rs[i].seg \in 1..n /\ rs[i].off \in Nat /\ rs[i].off >= 1
                               /\ i = b[rs[i].seg] + rs[i].off /\ (rs[i].seg = n => i > b[n])
  BY LayoutFacts
<1>3. Len(fs[n].lines) = 0
  BY EmptySeq
<1>4. \A i \in 1..Len(rs) : rs[i].seg \in 1..m
  <2>1. SUFFICES ASSUME NEW i \in 1..Len(rs) PROVE rs[i].seg \in 1..m
    OBVIOUS
  <2>2. i <= b[n]
    BY <1>2, <1>3 DEF EndOf
  <2>3. rs[i].seg # n
    BY <1>2, <2>2
  <2>4. rs[i].seg \in 1..n
    BY <1>2
  <2> QED  BY <2>3, <2>4
<1>5. \A s \in 1..m : s \in 1..n /\ s < n
  OBVIOUS
<1>6. PICK c : c = [s \in 1..m |-> b[s]]
  OBVIOUS
<1>7. c \in [1..m -> Nat] /\ \A s \in 1..m : c[s] = b[s]
  BY <1>2, <1>5, <1>6
<1>8. Bases(fs, m, c)
  <2>1. /\ b[1] = 0
        /\ \A s \in 1..n : s < n => b[s + 1] = b[s] + Len(fs[s].lines)
        /\ \A s, t \in 1..n : s < t => b[s] + Len(fs[s].lines) <= b[t]
    BY <1>1 DEF Bases
  <2>2. \A s \in 1..m : s < m => s + 1 \in 1..m
    OBVIOUS
  <2>3. 1 \in 1..m
    OBVIOUS
  <2>4. \A s \in 1..m : s < m => c[s + 1] = c[s] + Len(fs[s].lines)
    BY <1>5, <1>7, <2>1, <2>2
  <2>5. \A s, t \in 1..m : s < t => c[s] + Len(fs[s].lines) <= c[t]
    BY <1>5, <1>7, <2>1
  <2> QED  BY <1>7, <2>1, <2>3, <2>4, <2>5 DEF Bases
<1>9. InOrder(fs, rs, m, c)
  <2>1. SUFFICES ASSUME NEW i \in 1..Len(rs)
        PROVE  /\ rs[i].seg \in 1..m /\ rs[i].off >= 1 /\ i = c[rs[i].seg] + rs[i].off
               /\ rs[i].seg < m => rs[i].off <= Len(fs[rs[i].seg].lines)
               /\ rs[i].off <= Len(fs[rs[i].seg].lines) => fs[rs[i].seg].lines[rs[i].off].id = rs[i].id
    BY DEF InOrder
  <2>2. rs[i].seg \in 1..m /\ c[rs[i].seg] = b[rs[i].seg] /\ rs[i].seg < n
    BY <1>4, <1>5, <1>7
  <2> QED  BY <1>1, <2>2 DEF InOrder
<1>10. OneLine(fs, m)
  BY <1>1, <1>5 DEF OneLine
<1>11. ClosedOk(fs, m)
  <2>1. \A s \in 1..m : fs[s].synced = Len(fs[s].lines) /\ ~fs[s].torn
    BY <1>1, <1>5 DEF ClosedOk
  <2>2. \A s \in 1..Len(fs) : s > m => s = n
    BY <1>2
  <2> QED  BY <1>2, <2>1, <2>2 DEF ClosedOk
<1>12. m \in 1..Len(fs)
  BY <1>1, <1>2
<1>13. c[m] <= Len(rs)
  <2>1. m \in 1..m /\ m < n /\ m \in 1..n
    OBVIOUS
  <2>2. b[m] + Len(fs[m].lines) <= b[n] /\ b[m] \in Nat /\ Len(fs[m].lines) \in Nat /\ c[m] = b[m]
    BY <1>2, <1>7, <2>1
  <2> QED  BY <1>1, <1>2, <2>2
<1> QED  BY <1>8, <1>9, <1>10, <1>11, <1>12, <1>13 DEF Layout

\* A loss of power takes lines of the last segment only.
LEMMA LayoutPower ==
    ASSUME NEW fs, FilesOk(fs), NEW gs, FilesOk(gs), NEW rs, RowsTyped(rs, fs), NEW n, NEW b,
           Layout(fs, rs, n, b), Survives(fs, gs)
    PROVE  Layout(gs, rs, n, b)
<1>1. /\ n \in 1..Len(fs) /\ Bases(fs, n, b) /\ InOrder(fs, rs, n, b) /\ OneLine(fs, n)
      /\ ClosedOk(fs, n)
      /\ b[n] <= Len(rs)
  BY DEF Layout
<1>2. /\ n \in Nat /\ n \in 1..n /\ Len(rs) \in Nat /\ Len(fs) \in Nat
      /\ \A s \in 1..n : s \in 1..Len(fs)
      /\ \A i \in 1..Len(rs) : rs[i].seg \in 1..n /\ rs[i].off \in Nat /\ rs[i].off >= 1
  BY LayoutFacts
<1>3. /\ Len(gs) = Len(fs)
      /\ \A s \in 1..Len(fs) :
            /\ fs[s].synced <= Len(gs[s].lines) /\ Len(gs[s].lines) <= Len(fs[s].lines)
            /\ fs[s].synced <= gs[s].synced
            /\ \A o \in 1..Len(gs[s].lines) : gs[s].lines[o] = fs[s].lines[o]
            /\ gs[s].torn => Len(gs[s].lines) < Len(fs[s].lines) \/ fs[s].torn
  BY DEF Survives
<1>4. \A s \in 1..Len(fs) : /\ Len(fs[s].lines) \in Nat /\ Len(gs[s].lines) \in Nat
                            /\ gs[s].synced <= Len(gs[s].lines) /\ gs[s].synced \in Nat
                            /\ fs[s].synced \in Nat
  BY <1>3, FileOf
<1>5. \A s \in 1..n : s < n => /\ Len(gs[s].lines) = Len(fs[s].lines) /\ ~gs[s].torn
                               /\ gs[s].synced = Len(gs[s].lines)
  <2>1. ASSUME NEW s \in 1..n, s < n
        PROVE  /\ Len(gs[s].lines) = Len(fs[s].lines) /\ ~gs[s].torn
               /\ gs[s].synced = Len(gs[s].lines)
    <3>1. fs[s].synced = Len(fs[s].lines) /\ ~fs[s].torn /\ s \in 1..Len(fs)
      BY <1>1, <1>2, <2>1 DEF ClosedOk
    <3> QED  BY <1>3, <1>4, <3>1
  <2> QED  BY <2>1
<1>6. Bases(gs, n, b)
  <2>1. /\ b \in [1..n -> Nat] /\ b[1] = 0
        /\ \A s \in 1..n : s < n => b[s + 1] = b[s] + Len(fs[s].lines)
        /\ \A s, t \in 1..n : s < t => b[s] + Len(fs[s].lines) <= b[t]
    BY <1>1 DEF Bases
  <2>2. \A s, t \in 1..n : s < t => s < n
    BY <1>2
  <2> QED  BY <1>5, <2>1, <2>2 DEF Bases
<1>7. InOrder(gs, rs, n, b)
  <2>1. SUFFICES ASSUME NEW i \in 1..Len(rs)
        PROVE  /\ rs[i].seg \in 1..n /\ rs[i].off >= 1 /\ i = b[rs[i].seg] + rs[i].off
               /\ rs[i].seg < n => rs[i].off <= Len(gs[rs[i].seg].lines)
               /\ rs[i].off <= Len(gs[rs[i].seg].lines) => gs[rs[i].seg].lines[rs[i].off].id = rs[i].id
    BY DEF InOrder
  <2>2. /\ rs[i].seg \in 1..n /\ rs[i].off >= 1 /\ i = b[rs[i].seg] + rs[i].off
        /\ rs[i].seg < n => rs[i].off <= Len(fs[rs[i].seg].lines)
        /\ rs[i].off <= Len(fs[rs[i].seg].lines) => fs[rs[i].seg].lines[rs[i].off].id = rs[i].id
    BY <1>1 DEF InOrder
  <2>3. rs[i].seg < n => rs[i].off <= Len(gs[rs[i].seg].lines)
    BY <1>5, <2>2
  <2>4. ASSUME rs[i].off <= Len(gs[rs[i].seg].lines)
        PROVE  gs[rs[i].seg].lines[rs[i].off].id = rs[i].id
    <3>1. rs[i].seg \in 1..Len(fs) /\ rs[i].off \in Nat
      BY <1>2, <2>2
    <3>2. rs[i].off \in 1..Len(gs[rs[i].seg].lines) /\ rs[i].off <= Len(fs[rs[i].seg].lines)
      BY <1>3, <1>4, <2>2, <2>4, <3>1, SMTT(30)
    <3>3. gs[rs[i].seg].lines[rs[i].off] = fs[rs[i].seg].lines[rs[i].off]
      BY <1>3, <3>1, <3>2
    <3> QED  BY <2>2, <3>2, <3>3
  <2> QED  BY <2>2, <2>3, <2>4
<1>8. OneLine(gs, n)
  <2>1. SUFFICES ASSUME NEW s \in 1..n, NEW t \in 1..n, NEW o \in 1..Len(gs[s].lines),
                        NEW p \in 1..Len(gs[t].lines), gs[s].lines[o].id = gs[t].lines[p].id
                 PROVE  s = t /\ o = p
    BY DEF OneLine
  <2>2. s \in 1..Len(fs) /\ t \in 1..Len(fs)
    BY <1>2
  <2>3. /\ o \in 1..Len(fs[s].lines) /\ p \in 1..Len(fs[t].lines)
        /\ gs[s].lines[o] = fs[s].lines[o] /\ gs[t].lines[p] = fs[t].lines[p]
    BY <1>3, <1>4, <2>2, SMTT(30)
  <2>4. fs[s].lines[o].id = fs[t].lines[p].id
    BY <2>1, <2>3
  <2>5. \A x \in 1..Len(fs[s].lines) : \A y \in 1..Len(fs[t].lines) :
             fs[s].lines[x].id = fs[t].lines[y].id => s = t /\ x = y
    BY <1>1 DEF OneLine
  <2> QED  BY <2>3, <2>4, <2>5
<1>9. ClosedOk(gs, n)
  <2>1. ASSUME NEW s \in 1..Len(gs), s > n PROVE gs[s].lines = <<>> /\ ~gs[s].torn
    <3>1. s \in 1..Len(fs) /\ fs[s].lines = <<>> /\ ~fs[s].torn
      BY <1>1, <1>3, <2>1 DEF ClosedOk
    <3>2. Len(fs[s].lines) = 0
      BY <3>1, EmptySeq
    <3>3. Len(gs[s].lines) = 0 /\ ~gs[s].torn
      BY <1>3, <1>4, <3>1, <3>2
    <3>4. gs[s].lines \in Seq(Line)
      BY <2>1, FileOf
    <3> QED  BY <3>3, <3>4, EmptySeq
  <2>2. Len(gs) <= n + 1
    BY <1>1, <1>3 DEF ClosedOk
  <2> QED  BY <1>5, <2>1, <2>2 DEF ClosedOk
<1> QED  BY <1>1, <1>3, <1>6, <1>7, <1>8, <1>9 DEF Layout

\* A rebuilt index has the layout.
LEMMA LayoutLeaves ==
    ASSUME FilesOk(files), NEW rs, RowsTyped(rs, files), NEW n, NEW b, Layout(files, rs, n, b),
           Len(manifest.segs) = n
    PROVE  /\ Layout(files, Leaves, n, b) /\ Len(Leaves) = EndOf(files, n, b)
           /\ \A s \in 1..n : \A o \in 1..Len(files[s].lines) :
                 /\ b[s] + o \in 1..Len(Leaves) /\ Leaves[b[s] + o] = LineRow(s, o)
<1>1. /\ n \in 1..Len(files) /\ Bases(files, n, b) /\ OneLine(files, n) /\ ClosedOk(files, n)
  BY DEF Layout
<1>2. /\ n \in Nat /\ n \in 1..n /\ b[n] \in Nat
      /\ \A s \in 1..n : b[s] \in Nat /\ Len(files[s].lines) \in Nat
      /\ \A s \in 1..n : s < n => b[s] + Len(files[s].lines) <= b[n]
  BY LayoutFacts
<1>3. files \in Seq(FileType)
  BY DEF FilesOk
<1>4. PICK ls : ls = Leaves
  OBVIOUS
<1>5. /\ Len(ls) = b[n] + Len(files[n].lines)
      /\ \A s \in 1..n : \A o \in 1..Len(files[s].lines) : ls[b[s] + o] = LineRow(s, o)
      /\ \A k \in 1..Len(ls) : \E s \in 1..n : \E o \in 1..Len(files[s].lines) :
            k = b[s] + o /\ ls[k] = LineRow(s, o)
  BY <1>1, <1>3, <1>4, LeavesLaid
<1>6. InOrder(files, ls, n, b)
  <2>1. SUFFICES ASSUME NEW i \in 1..Len(ls)
        PROVE  /\ ls[i].seg \in 1..n /\ ls[i].off >= 1 /\ i = b[ls[i].seg] + ls[i].off
               /\ ls[i].seg < n => ls[i].off <= Len(files[ls[i].seg].lines)
               /\ ls[i].off <= Len(files[ls[i].seg].lines)
                  => files[ls[i].seg].lines[ls[i].off].id = ls[i].id
    BY DEF InOrder
  <2>2. PICK s \in 1..n : \E o \in 1..Len(files[s].lines) : i = b[s] + o /\ ls[i] = LineRow(s, o)
    BY <1>5
  <2>3. PICK o \in 1..Len(files[s].lines) : i = b[s] + o /\ ls[i] = LineRow(s, o)
    BY <2>2
  <2>4. ls[i].seg = s /\ ls[i].off = o /\ ls[i].id = files[s].lines[o].id
    BY <2>3 DEF LineRow, Row
  <2>5. Len(files[s].lines) \in Nat
    BY <1>2
  <2> QED  BY <2>3, <2>4, <2>5
<1>7. \A s \in 1..n : \A o \in 1..Len(files[s].lines) : b[s] + o \in 1..Len(ls)
  <2>1. SUFFICES ASSUME NEW s \in 1..n, NEW o \in 1..Len(files[s].lines) PROVE b[s] + o \in 1..Len(ls)
    OBVIOUS
  <2>2. /\ b[s] \in Nat /\ Len(files[s].lines) \in Nat /\ o \in Nat /\ o <= Len(files[s].lines)
        /\ o >= 1
        /\ s < n => b[s] + Len(files[s].lines) <= b[n]
        /\ s = n \/ s < n
        /\ Len(files[n].lines) \in Nat
    BY <1>2
  <2>3. b[s] + o <= Len(ls)
    <3>1. CASE s = n
      BY <1>5, <2>2, <3>1
    <3>2. CASE s < n
      <4>1. b[s] + Len(files[s].lines) <= b[n] /\ b[n] \in Nat
        BY <1>2, <2>2, <3>2
      <4> QED  BY <1>5, <2>2, <4>1, SMTT(30)
    <3> QED  BY <2>2, <3>1, <3>2
  <2> QED  BY <1>2, <1>5, <2>2, <2>3
<1>8. b[n] <= Len(ls)
  BY <1>2, <1>5
<1> HIDE DEF Leaves
<1> QED  BY <1>1, <1>4, <1>5, <1>6, <1>7, <1>8 DEF Layout, EndOf

\* A new store.
LEMMA LayoutNew ==
    ASSUME NEW fs, fs = <<EmptyFile>>
    PROVE  \E b : Layout(fs, <<>>, 1, b) /\ EndOf(fs, 1, b) = 0
<1>1. Len(fs) = 1 /\ fs[1].lines = <<>> /\ ~fs[1].torn /\ Len(fs[1].lines) = 0 /\ fs[1].synced = 0
  BY EmptyFileOk, EmptySeq
<1>2. PICK b : b = [s \in 1..1 |-> 0]
  OBVIOUS
<1>3. b \in [1..1 -> Nat] /\ b[1] = 0
  BY <1>2
<1>4. \A s \in 1..1 : s = 1
  OBVIOUS
<1>5. Bases(fs, 1, b)
  BY <1>3, <1>4 DEF Bases
<1>6. Len(<<>>) = 0
  BY EmptySeq
<1>7. InOrder(fs, <<>>, 1, b) /\ OneLine(fs, 1) /\ ClosedOk(fs, 1)
  BY <1>1, <1>4, <1>6 DEF InOrder, OneLine, ClosedOk
<1>8. Layout(fs, <<>>, 1, b) /\ EndOf(fs, 1, b) = 0
  BY <1>1, <1>3, <1>5, <1>6, <1>7 DEF Layout, EndOf
<1> QED  BY <1>8

\* The last indexed line is that of the last record, if it is of this segment.
LEMMA LastIndexedIs ==
    ASSUME FilesOk(files), RowsTyped(records, files), NEW b, Layout(files, records, Active, b)
    PROVE  LastIndexed \in Nat /\ LastIndexed = Len(records) - b[Active]
<1>1. PICK n : n = Active
  OBVIOUS
<1>2. /\ LastIndexed \in Nat
      /\ \A i \in 1..Len(records) : records[i].seg = n => records[i].off <= LastIndexed
      /\ \/ LastIndexed = 0
         \/ \E i \in 1..Len(records) : records[i].seg = n /\ records[i].off = LastIndexed
  BY <1>1, LastIndexedOf
<1>3. Layout(files, records, n, b)
  BY <1>1
<1>4. /\ b[n] \in Nat /\ Len(records) \in Nat /\ b[n] <= Len(records)
      /\ \A i \in 1..Len(records) :
            /\ records[i].seg \in 1..n /\ records[i].off \in Nat /\ records[i].off >= 1
            /\ i = b[records[i].seg] + records[i].off
            /\ i > b[n] => records[i].seg = n
            /\ records[i].seg = n => i > b[n]
  BY <1>3, LayoutFacts
<1>5. PICK l : l = LastIndexed
  OBVIOUS
<1>6. l <= Len(records) - b[n]
  <2>1. CASE l = 0
    BY <1>4, <2>1
  <2>2. ASSUME NEW i \in 1..Len(records), records[i].seg = n, records[i].off = l
        PROVE  l <= Len(records) - b[n]
    <3>1. i = b[n] + l /\ l \in Nat
      BY <1>4, <2>2
    <3> QED  BY <1>4, <3>1
  <2> QED  BY <1>2, <1>5, <2>1, <2>2
<1>7. l >= Len(records) - b[n]
  <2>1. CASE Len(records) = b[n]
    BY <1>2, <1>4, <1>5, <2>1
  <2>2. CASE Len(records) > b[n]
    <3>1. PICK i : i = Len(records)
      OBVIOUS
    <3>2. i \in 1..Len(records) /\ i > b[n]
      BY <1>4, <2>2, <3>1
    <3>3. records[i].seg = n /\ i = b[n] + records[i].off /\ records[i].off \in Nat
      BY <1>4, <3>2
    <3>4. records[i].off <= l
      BY <1>2, <1>5, <3>2, <3>3
    <3> QED  BY <1>2, <1>4, <1>5, <3>1, <3>3, <3>4
  <2> QED  BY <1>4, <2>1, <2>2
<1>8. l = Len(records) - b[n]
  BY <1>2, <1>4, <1>5, <1>6, <1>7
<1> HIDE DEF Active, LastIndexed
<1> QED  BY <1>1, <1>2, <1>5, <1>8

-----------------------------------------------------------------------------
(***************************************************************************)
(* The second inductive invariant: unless the manifest is lost, the        *)
(* segments hold the records in order, at any point of append, rotate and  *)
(* recover, and every record that append returned is where it was returned *)
(* to be.                                                                  *)
(***************************************************************************)
\* The manifest that governs: the instance's, or the one the next instance opens.
View == IF status = "down" THEN disk ELSE manifest

\* Every line has its row, but for the one that append is about to index.
Settled ==
    \/ status \in {"insert", "lookup", "rotate"}
    \/ status \in {"ready", "save"} /\ ~needsRecover

\* How far the records index is behind the active segment at each point of append and recover.
TailOk(n, b) ==
    /\ status \notin {"down", "opened"} \/ mmr # <<>> => Len(records) <= EndOf(files, n, b)
    /\ status = "insert" => EndOf(files, n, b) = Len(records) + 1
    /\ Settled /\ status # "insert" => EndOf(files, n, b) = Len(records)
    /\ Settled => ~files[n].torn
    /\ status \in {"catchup", "tail"} => cursor = Len(records) - b[n] + 1
    /\ status = "taillookup" => cursor = Len(records) - b[n]
    /\ status = "insert" /\ pending.consequential => files[n].synced = Len(files[n].lines)

\* A record that append has returned, or will return if nothing fails.
Promised(a) ==
    \/ a \in acked
    \/ /\ status \in {"lookup", "rotate", "save"} /\ pending \in PendingType
       /\ pending # None \/ status # "save"
       /\ a = pending

\* It is where it was returned to be, a consequential one on a durable line.
KeptIn(a, rs, fs, p) ==
    /\ a.consequential \/ p = 0 => a.seq \in 1..Len(rs) /\ rs[a.seq].id = a.id
    /\ a.consequential => rs[a.seq].off <= fs[rs[a.seq].seg].synced

\* Every promised record is kept.
Keeps == \A a : Promised(a) => KeptIn(a, records, files, used["power"])

\* The manifest on disk is that of the instance, or lags by the rotations of this instance,
\* each of which closed a segment with lines.
DiskLags(n) ==
    status # "down" /\ disk # None =>
        /\ disk.active <= n
        /\ \A s \in 1..n : disk.active < s /\ s < n => Len(files[s].lines) >= 1
        /\ disk.active < n => Len(files) = n /\ mmr # <<>>

\* The files and the records with the segments beginning at b.
LaidBy(n, b) == Layout(files, records, n, b) /\ TailOk(n, b) /\ Keeps /\ DiskLags(n)

\* No store has been created.
Fresh == status = "down" /\ disk = None

\* The invariant: unless the manifest is lost, the files hold the records in order.
Laid == manifestLost \/ Fresh \/ \E b : LaidBy(View.active, b)

-----------------------------------------------------------------------------
\* fs with one more line in segment n.
LineAdded(fs, gs, n, line) ==
    /\ Len(gs) = Len(fs) /\ \A s \in 1..Len(fs) : s # n => gs[s] = fs[s]
    /\ Len(gs[n].lines) = Len(fs[n].lines) + 1
    /\ \A o \in 1..Len(fs[n].lines) : gs[n].lines[o] = fs[n].lines[o]
    /\ gs[n].lines[Len(fs[n].lines) + 1] = line
    /\ gs[n].torn = fs[n].torn /\ fs[n].synced <= gs[n].synced

\* Replacing a file by one with the same lines,
LEMMA PutSame ==
    ASSUME NEW fs, FilesOk(fs), NEW n \in 1..Len(fs), NEW f, FileOk(f), f.lines = fs[n].lines,
           fs[n].synced <= f.synced, NEW gs, PutAt(gs, fs, n, f)
    PROVE  SameLines(fs, gs, n) /\ gs[n].torn = f.torn
<1>1. Len(gs) = Len(fs) /\ \A t \in 1..Len(fs) : gs[t] = IF t = n THEN f ELSE fs[t]
  BY FilesPut
<1>2. \A t \in 1..Len(fs) : fs[t].synced \in Nat
  BY FileOf
<1>3. ASSUME NEW t \in 1..Len(fs)
      PROVE  gs[t].lines = fs[t].lines /\ fs[t].synced <= gs[t].synced
             /\ (t # n => gs[t].torn = fs[t].torn)
  <2>1. CASE t = n
    BY <1>1, <2>1
  <2>2. CASE t # n
    BY <1>1, <1>2, <2>2
  <2> QED  BY <2>1, <2>2
<1> QED  BY <1>1, <1>3 DEF SameLines

\* by the synced one,
LEMMA PutSynced ==
    ASSUME NEW fs, FilesOk(fs), NEW n \in 1..Len(fs), NEW gs, PutAt(gs, fs, n, Synced(fs[n]))
    PROVE  SameLines(fs, gs, n) /\ gs[n].torn = fs[n].torn
<1>1. FileOk(fs[n]) /\ fs[n].synced <= Len(fs[n].lines)
  BY FileOf
<1>2. PICK f : f = Synced(fs[n])
  OBVIOUS
<1>3. FileOk(f) /\ f.torn = fs[n].torn /\ f.lines = fs[n].lines /\ f.synced = Len(fs[n].lines)
  BY <1>1, <1>2, SyncedOk
<1>4. PutAt(gs, fs, n, f)
  BY <1>2
<1> QED  BY <1>1, <1>3, <1>4, PutSame

\* or by one with or without a torn end leaves the lines alone,
LEMMA PutTorn ==
    ASSUME NEW fs, FilesOk(fs), NEW n \in 1..Len(fs), NEW t \in BOOLEAN, NEW gs,
           PutAt(gs, fs, n, [fs[n] EXCEPT !.torn = t])
    PROVE  SameLines(fs, gs, n) /\ gs[n].torn = t
<1>1. FileOk(fs[n]) /\ fs[n].synced \in Nat
  BY FileOf
<1>2. PICK f : f = [fs[n] EXCEPT !.torn = t]
  OBVIOUS
<1>3. FileOk(f) /\ f.torn = t /\ f.lines = fs[n].lines /\ f.synced = fs[n].synced
  BY <1>1, <1>2, TornOk
<1>4. PutAt(gs, fs, n, f) /\ fs[n].synced <= f.synced
  BY <1>1, <1>2, <1>3
<1> QED  BY <1>3, <1>4, PutSame

\* as does leaving all files alone.
LEMMA SameSame ==
    ASSUME NEW fs, FilesOk(fs), NEW n
    PROVE  SameLines(fs, fs, n)
<1>1. \A t \in 1..Len(fs) : fs[t].synced \in Nat
  BY FileOf
<1> QED  BY <1>1 DEF SameLines

\* A rotation that raises leaves the lines alone,
LEMMA RaisedFiles ==
    ASSUME Sound, RotateRaises
    PROVE  SameLines(files, files', Active) /\ files'[Active].torn = files[Active].torn
<1>1. status # "down" /\ (files' = files \/ PutAt(files', files, Active, Synced(files[Active])))
  BY DEF RotateRaises, PutAt
<1>2. FilesOk(files) /\ Active \in 1..Len(files)
  BY <1>1, SoundFacts
<1> QED  BY <1>1, <1>2, PutSynced, SameSame

\* as does the start of recover,
LEMMA RecoverStartFiles ==
    ASSUME Sound, RecoverStart
    PROVE  SameLines(files, files', Active)
<1>1. status # "down" /\ (\/ files' = files \/ PutAt(files', files, Active, Synced(files[Active]))
                          \/ PutAt(files', files, Active, files[Active]))
  BY DEF RecoverStart, PutAt
<1>2. FilesOk(files) /\ Active \in 1..Len(files)
  BY <1>1, SoundFacts
<1>3. FileOk(files[Active]) /\ files[Active].synced <= files[Active].synced
  BY <1>2, FileOf
<1> QED  BY <1>1, <1>2, <1>3, PutSynced, PutSame, SameSame

\* its end, which cuts the torn end off,
LEMMA RecoverEndFiles ==
    ASSUME Sound, RecoverEnd
    PROVE  SameLines(files, files', Active) /\ ~files'[Active].torn
<1>1. status # "down" /\ PutAt(files', files, Active, [files[Active] EXCEPT !.torn = FALSE])
  BY DEF RecoverEnd, PutAt
<1>2. FilesOk(files) /\ Active \in 1..Len(files)
  BY <1>1, SoundFacts
<1> QED  BY <1>1, <1>2, PutTorn

\* and reindex.
LEMMA ReindexedFiles ==
    ASSUME Sound, Reindex, NEW n
    PROVE  SameLines(files, files', n) /\ \A s \in 1..Len(files) : files'[s].torn = files[s].torn
<1>1. PICK gs : gs = files'
  OBVIOUS
<1>2. PICK S : S = Segments
  OBVIOUS
<1>3. gs = [s \in DOMAIN files |-> IF s \in S THEN Synced(files[s]) ELSE files[s]]
  BY <1>1, <1>2 DEF Reindex
<1>4. FilesOk(files)
  BY SoundFacts
<1>5. /\ Len(gs) = Len(files)
      /\ \A s \in 1..Len(files) : /\ gs[s].lines = files[s].lines /\ gs[s].torn = files[s].torn
                                  /\ files[s].synced <= gs[s].synced
  BY <1>3, <1>4, ReindexFiles, SMTT(30)
<1> QED  BY <1>1, <1>5 DEF SameLines

\* An append that fails adds its line or none,
LEMMA FailedFiles ==
    ASSUME Sound, NEW c \in Capsule, NEW sub \in scenario.submissions, AppendFails(c, sub)
    PROVE  SameLines(files, files', Active) \/ LineAdded(files, files', Active, Stored(c, sub))
<1>1. /\ status # "down"
      /\ \/ files' = files
         \/ PutAt(files', files, Active, AddLine(files[Active], Stored(c, sub)))
         \/ PutAt(files', files, Active, [files[Active] EXCEPT !.torn = TRUE])
  BY DEF AppendFails, MayAppend, PutAt
<1>2. FilesOk(files) /\ Active \in 1..Len(files) /\ scenario \in Scenarios
  BY <1>1, SoundFacts
<1>3. PICK line : line = Stored(c, sub)
  OBVIOUS
<1>4. line \in Line
  BY <1>2, <1>3, StoredLine
<1>5. CASE PutAt(files', files, Active, AddLine(files[Active], Stored(c, sub)))
  <2>1. PICK n : n = Active
    OBVIOUS
  <2>2. PICK gs : gs = files'
    OBVIOUS
  <2>3. PICK f : f = AddLine(files[n], line)
    OBVIOUS
  <2>4. FileOk(files[n]) /\ n \in 1..Len(files) /\ files[n].synced \in Nat
    BY <1>2, <2>1, FileOf
  <2>5. /\ FileOk(f) /\ f.torn = files[n].torn /\ f.synced = files[n].synced
        /\ Len(f.lines) = Len(files[n].lines) + 1
        /\ \A o \in 1..Len(files[n].lines) : f.lines[o] = files[n].lines[o]
        /\ f.lines[Len(files[n].lines) + 1] = line
    BY <1>4, <2>3, <2>4, AddLineOk
  <2>6. PutAt(gs, files, n, f)
    BY <1>3, <1>5, <2>1, <2>2, <2>3
  <2>7. Len(gs) = Len(files) /\ \A t \in 1..Len(files) : gs[t] = IF t = n THEN f ELSE files[t]
    BY <1>2, <2>4, <2>5, <2>6, FilesPut
  <2>8. gs[n] = f /\ \A t \in 1..Len(files) : t # n => gs[t] = files[t]
    BY <2>4, <2>7
  <2>9. LineAdded(files, gs, n, line)
    BY <2>4, <2>5, <2>7, <2>8 DEF LineAdded
  <2> QED  BY <1>3, <2>1, <2>2, <2>9
<1>6. CASE files' = files
  BY <1>2, <1>6, SameSame
<1>7. CASE PutAt(files', files, Active, [files[Active] EXCEPT !.torn = TRUE])
  <2>1. TRUE \in BOOLEAN
    OBVIOUS
  <2> QED  BY <1>2, <1>7, <2>1, PutTorn
<1> QED  BY <1>1, <1>5, <1>6, <1>7

\* one that does not adds it,
LEMMA AppendedFiles ==
    ASSUME Sound, NEW c \in Capsule, NEW sub \in scenario.submissions, AppendLine(c, sub)
    PROVE  LineAdded(files, files', Active, Stored(c, sub))
BY AppendedLine DEF LineAdded

\* and a rotation syncs the active segment and begins the next.
LEMMA RotatedFiles ==
    ASSUME Sound, Rotate
    PROVE  /\ \A s \in 1..Len(files) : s # Active => files'[s] = files[s]
           /\ files'[Active].lines = files[Active].lines /\ files'[Active].torn = files[Active].torn
           /\ files'[Active].synced = Len(files[Active].lines)
           /\ Len(files') = IF Active + 1 \in 1..Len(files) THEN Len(files) ELSE Len(files) + 1
           /\ Active + 1 \notin 1..Len(files) => files'[Len(files) + 1] = EmptyFile
<1>1. status # "down"
  BY DEF Rotate
<1>2. FilesOk(files) /\ Active \in 1..Len(files) /\ Len(manifest.segs) = Active
  BY <1>1, SoundFacts
<1>3. FileOk(files[Active])
  BY <1>2, FileOf
<1>4. Synced(files[Active]).torn = files[Active].torn
      /\ Synced(files[Active]).lines = files[Active].lines
      /\ Synced(files[Active]).synced = Len(files[Active].lines)
  BY <1>3, SyncedOk
<1>5. /\ \A s \in 1..Len(files) : files'[s] = IF s = Active THEN Synced(files[s]) ELSE files[s]
      /\ Len(files') = IF Active + 1 \in 1..Len(files) THEN Len(files) ELSE Len(files) + 1
      /\ Active + 1 \notin 1..Len(files) => files'[Len(files) + 1] = EmptyFile
  BY <1>2, RotateFiles
<1> HIDE DEF Active, Synced, EmptyFile
<1> QED  BY <1>2, <1>4, <1>5

\* What was fsynced stays.
LEMMA SyncedGrows ==
    ASSUME Sound, LedgerNext
    PROVE  \A s \in 1..Len(files) : files[s].synced <= files'[s].synced
<1>1. FilesOk(files) /\ Len(files) \in Nat
  BY SoundFacts
<1>2. \A s \in 1..Len(files) : files[s].synced \in Nat /\ files[s].synced <= Len(files[s].lines)
  BY <1>1, FileOf
<1>3. CASE files' = files
  BY <1>2, <1>3
<1>4. CASE Open
  <2>1. files' = files \/ files = <<>>
    BY <1>4 DEF Open
  <2>2. files = <<>> => Len(files) = 0
    BY EmptySeq
  <2> QED  BY <1>2, <2>1, <2>2
<1>5. CASE PowerLoss
  BY <1>1, <1>5, PowerFiles DEF Survives
<1>6. CASE Rotate
  <2>1. /\ \A s \in 1..Len(files) : s # Active => files'[s] = files[s]
        /\ files'[Active].synced = Len(files[Active].lines)
    BY <1>6, RotatedFiles
  <2> HIDE DEF Active
  <2> QED  BY <1>2, <2>1
<1>7. CASE RotateRaises
  BY <1>7, RaisedFiles DEF SameLines
<1>8. CASE RecoverStart
  BY <1>8, RecoverStartFiles DEF SameLines
<1>9. CASE RecoverEnd
  BY <1>9, RecoverEndFiles DEF SameLines
<1>10. CASE Reindex
  BY <1>10, ReindexedFiles DEF SameLines
<1>11. ASSUME NEW c \in Capsule, NEW sub \in scenario.submissions,
              AppendLine(c, sub) \/ AppendFails(c, sub)
       PROVE  \A s \in 1..Len(files) : files[s].synced <= files'[s].synced
  <2>1. SameLines(files, files', Active) \/ LineAdded(files, files', Active, Stored(c, sub))
    BY <1>11, AppendedFiles, FailedFiles
  <2>2. ASSUME LineAdded(files, files', Active, Stored(c, sub))
        PROVE  \A s \in 1..Len(files) : files[s].synced <= files'[s].synced
    <3>1. /\ \A s \in 1..Len(files) : s # Active => files'[s] = files[s]
          /\ files[Active].synced <= files'[Active].synced
      BY <2>2 DEF LineAdded
    <3> HIDE DEF Active
    <3> QED  BY <1>2, <3>1
  <2> QED  BY <2>1, <2>2 DEF SameLines
<1> QED  BY <1>3, <1>4, <1>5, <1>6, <1>7, <1>8, <1>9, <1>10, <1>11, FilesChange

\* What is kept stays kept when rows are added and lines made durable.
LEMMA KeptGrows ==
    ASSUME NEW fs, FilesOk(fs), NEW gs, FilesOk(gs), Len(fs) <= Len(gs), NEW rs, RowsTyped(rs, fs),
           NEW qs,
           Len(qs) \in Nat, Len(rs) <= Len(qs), \A i \in 1..Len(rs) : qs[i] = rs[i],
           \A s \in 1..Len(fs) : fs[s].synced <= gs[s].synced,
           NEW p \in Nat, NEW q \in Nat, p <= q, NEW a, KeptIn(a, rs, fs, p)
    PROVE  KeptIn(a, qs, gs, q)
<1>1. Len(fs) \in Nat /\ Len(gs) \in Nat
  BY LenProperties DEF FilesOk
<1>2. Len(rs) \in Nat /\ \A i \in 1..Len(rs) : rs[i].seg \in 1..Len(fs) /\ rs[i].off \in Nat
  BY RowOf
<1>3. /\ \A s \in 1..Len(fs) : fs[s].synced \in Nat
      /\ \A s \in 1..Len(gs) : gs[s].synced \in Nat
  BY FileOf
<1>4. ASSUME a.consequential \/ q = 0
      PROVE  a.seq \in 1..Len(qs) /\ qs[a.seq].id = a.id
  <2>1. a.consequential \/ p = 0
    BY <1>4
  <2>2. a.seq \in 1..Len(rs) /\ rs[a.seq].id = a.id
    BY <2>1 DEF KeptIn
  <2> QED  BY <1>2, <2>2
<1>5. ASSUME a.consequential
      PROVE  qs[a.seq].off <= gs[qs[a.seq].seg].synced
  <2>1. a.seq \in 1..Len(rs) /\ rs[a.seq].off <= fs[rs[a.seq].seg].synced
    BY <1>5 DEF KeptIn
  <2>2. PICK s \in 1..Len(fs) : s = rs[a.seq].seg
    BY <1>2, <2>1
  <2>3. fs[s].synced <= gs[s].synced /\ fs[s].synced \in Nat /\ gs[s].synced \in Nat
        /\ rs[a.seq].off \in Nat
    BY <1>1, <1>2, <1>3, <2>1
  <2>4. rs[a.seq].off <= gs[s].synced
    BY <2>1, <2>2, <2>3, SMTT(30)
  <2> QED  BY <2>1, <2>2, <2>4
<1> QED  BY <1>4, <1>5 DEF KeptIn

\* Only InsertRecord promises a record.
LEMMA PromisedChange ==
    ASSUME Sound, LedgerNext, ~InsertRecord, NEW a, Promised(a)'
    PROVE  Promised(a)
<1>1. CASE status' \in {"lookup", "rotate", "save"} /\ pending' \in PendingType
           /\ (pending' # None \/ status' # "save") /\ a = pending'
  <2>1. CASE status' = "lookup"
    BY <2>1, StatusChange
  <2>2. CASE status' = "rotate"
    <3>1. AppendLookup
      BY <2>2, StatusChange
    <3>2. status = "lookup" /\ pending' = pending
      BY <2>2, <3>1 DEF AppendLookup, Returns
    <3> QED  BY <1>1, <3>2 DEF Promised
  <2>3. CASE status' = "save"
    <3>1. Rotate \/ (status = "ready" /\ \E s \in Segments : Unmount(s) \/ Mount(s))
      BY <2>3, StatusChange
    <3>2. CASE Rotate
      <4>1. status = "rotate" /\ pending' = pending
        BY <3>2 DEF Rotate
      <4> QED  BY <1>1, <4>1 DEF Promised
    <3>3. CASE status = "ready" /\ \E s \in Segments : Unmount(s) \/ Mount(s)
      <4>1. pending' = pending
        BY <3>3 DEF Unmount, Mount
      <4>2. pending = None
        BY <3>3 DEF Sound, Working
      <4> QED  BY <1>1, <2>3, <4>1, <4>2
    <3> QED  BY <3>1, <3>2, <3>3
  <2> QED  BY <1>1, <2>1, <2>2, <2>3
<1>2. CASE a \in acked'
  <2>1. acked' = acked \/ (AppendLookup /\ Returns) \/ (Save /\ Returns /\ pending # None)
    BY Zenon DEF LedgerNext, LedgerStep, Open, CreateSave, Stop, PowerLoss, AppendLine, AppendFails,
        InsertRecord, InsertFails, AppendLookup, Rotate, RotateRaises, Save, SaveFails, RecoverStart,
        CatchUpLookup, RecoverLine, RecoverLookup, RecoverEnd, Reindex, RebuildLookup, Unmount,
        Mount, Raises
  <2>2. CASE acked' = acked
    BY <1>2, <2>2 DEF Promised
  <2>3. CASE AppendLookup /\ Returns
    <3>1. status = "lookup" /\ acked' = acked \cup {pending}
      BY <2>3 DEF AppendLookup, Returns
    <3>2. pending \in PendingType
      BY <3>1 DEF Sound, Working
    <3> QED  BY <1>2, <3>1, <3>2 DEF Promised
  <2>4. CASE Save /\ Returns /\ pending # None
    <3>1. status = "save" /\ acked' = acked \cup {pending}
      BY <2>4 DEF Save, Returns
    <3>2. pending \in PendingType
      BY <2>4, <3>1 DEF Sound, Working
    <3> QED  BY <1>2, <2>4, <3>1, <3>2 DEF Promised
  <2> QED  BY <2>1, <2>2, <2>3, <2>4
<1> QED  BY <1>1, <1>2 DEF Promised

\* Every record that append returns stays where it is as long as rows are only added.
LEMMA KeepsStep ==
    ASSUME Sound, LedgerNext, Keeps, ~InsertRecord, Len(records) <= Len(records'),
           Len(records') \in Nat, \A i \in 1..Len(records) : records'[i] = records[i]
    PROVE  Keeps'
<1>1. \A s \in 1..Len(files) : files[s].synced <= files'[s].synced
  BY SyncedGrows
<1>2. FilesOk(files) /\ RowsTyped(records, files)
  BY SoundFacts
<1>3. FilesOk(files') /\ Len(files) <= Len(files')
  BY SoundFiles
<1>4. used["power"] \in Nat /\ used'["power"] \in Nat /\ used["power"] <= used'["power"]
  BY UsedChange DEF Sound, Memory, EventKind
<1>5. ASSUME NEW a, Promised(a)'
      PROVE  KeptIn(a, records', files', used'["power"])
  <2>1. Promised(a)
    BY <1>5, PromisedChange
  <2>2. KeptIn(a, records, files, used["power"])
    BY <2>1 DEF Keeps
  <2> QED  BY <1>1, <1>2, <1>3, <1>4, <2>2, KeptGrows
<1> QED  BY <1>5 DEF Keeps

\* The active segment changes with a rotation only.
LEMMA ActiveKept ==
    ASSUME Sound, LedgerNext, status # "down", ~Rotate, ~Stop, ~PowerLoss
    PROVE  manifest'.active = manifest.active /\ status' # "down" /\ Len(files') = Len(files)
<1>1. ~Open
  BY DEF Open
<1>2. status' # "down"
  BY StatusChange
<1>3. manifest'.active = manifest.active
  <2>1. CASE RotateRaises
    BY <2>1, RaisedManifest DEF Active
  <2>2. CASE status = "ready" /\ \E s \in Segments : Unmount(s) \/ Mount(s)
    <3>1. PICK s \in Segments, v \in BOOLEAN : manifest' = Marked(s, v)
      BY <2>2 DEF Unmount, Mount
    <3> QED  BY <2>2, <3>1, MarkedManifest DEF Active
  <2> QED  BY <1>1, <2>1, <2>2, ManifestChange
<1>4. Len(files') = Len(files)
  <2>1. CASE RotateRaises
    BY <2>1, RaisedFiles DEF SameLines
  <2>2. CASE RecoverStart
    BY <2>2, RecoverStartFiles DEF SameLines
  <2>3. CASE RecoverEnd
    BY <2>3, RecoverEndFiles DEF SameLines
  <2>4. CASE Reindex
    BY <2>4, ReindexedFiles DEF SameLines
  <2>5. ASSUME NEW c \in Capsule, NEW sub \in scenario.submissions,
               AppendLine(c, sub) \/ AppendFails(c, sub)
        PROVE  Len(files') = Len(files)
    BY <2>5, AppendedFiles, FailedFiles DEF SameLines, LineAdded
  <2> QED  BY <1>1, <2>1, <2>2, <2>3, <2>4, <2>5, FilesChange
<1> QED  BY <1>2, <1>3, <1>4

\* A checkpointer with leaves keeps them, and a rotation gives it some.
LEMMA MmrKept ==
    ASSUME Sound, LedgerNext, status # "down", ~Stop, ~PowerLoss
    PROVE  /\ mmr # <<>> => mmr' # <<>>
           /\ Rotate => mmr' # <<>>
<1>1. ASSUME status = "rotate" PROVE SyncedMmr # <<>>
  <2>1. Len(records) >= 1 /\ Len(records) \in Nat /\ RowsTyped(records, files) /\ mmr \in Seq(Capsule)
    BY <1>1, SoundFacts DEF Sound, Working
  <2>2. PICK l : l = SyncedMmr
    OBVIOUS
  <2>3. l \in Seq(Capsule) /\ Len(l) >= Len(records)
    BY <2>1, <2>2, SyncedMmrOf
  <2>4. Len(l) \in Nat /\ Len(<<>>) = 0
    BY <2>3, LenProperties, EmptySeq
  <2>5. l # <<>>
    BY <2>1, <2>3, <2>4
  <2> QED  BY <2>2, <2>5
<1>2. mmr' = mmr \/ (status = "rotate" /\ mmr' = SyncedMmr)
  BY Zenon DEF LedgerNext, LedgerStep, Open, CreateSave, AppendLine, AppendFails, InsertRecord,
      InsertFails, AppendLookup, Rotate, RotateRaises, Save, SaveFails, RecoverStart, CatchUpLookup,
      RecoverLine, RecoverLookup, RecoverEnd, Reindex, RebuildLookup, Unmount, Mount, memVars
<1>3. Rotate => status = "rotate" /\ mmr' = SyncedMmr
  BY DEF Rotate
<1> QED  BY <1>1, <1>2, <1>3

\* The manifest on disk follows the instance's.
LEMMA DiskStep ==
    ASSUME Sound, Unborn, LedgerNext, status # "down", ~Rotate, ~Stop, ~PowerLoss,
           NEW n, n = Active, DiskLags(n)
    PROVE  DiskLags(n)'
<1>1. Len(files') = Len(files) /\ n \in 1..Len(files) /\ Len(files) \in Nat
  BY ActiveKept, SoundFacts
<1>2. ASSUME NEW s \in 1..n, Len(files[s].lines) >= 1 PROVE Len(files'[s].lines) >= 1
  <2>1. Extends(files, files') /\ FilesOk(files) /\ FilesOk(files') /\ s \in 1..Len(files)
    BY <1>1, SoundFacts, SoundFiles
  <2>2. Len(files[s].lines) <= Len(files'[s].lines)
    BY <2>1 DEF Extends
  <2>3. Len(files[s].lines) \in Nat /\ Len(files'[s].lines) \in Nat
    BY <1>1, <2>1, FileOf
  <2> QED  BY <1>2, <2>2, <2>3
<1>3. CASE disk' = manifest
  <2>1. disk'.active = n
    BY <1>3 DEF Active
  <2> QED  BY <1>1, <2>1 DEF DiskLags
<1>4. CASE disk' = disk
  BY <1>1, <1>2, <1>4, MmrKept DEF DiskLags
<1> QED  BY <1>3, <1>4, DiskChange DEF CreateSave, Save, SaveFails

\* A line that recover meets is not indexed yet: the skip of a known one is not needed.
LEMMA TailUnindexed ==
    ASSUME NEW fs, FilesOk(fs), NEW rs, RowsTyped(rs, fs), NEW n, NEW b, Layout(fs, rs, n, b),
           Len(rs) <= EndOf(fs, n, b), NEW o \in 1..Len(fs[n].lines), o > Len(rs) - b[n],
           NEW i \in 1..Len(rs)
    PROVE  rs[i].id # fs[n].lines[o].id
<1>1. /\ n \in Nat /\ n \in 1..n /\ Len(rs) \in Nat /\ b[n] \in Nat /\ EndOf(fs, n, b) \in Nat
      /\ \A s \in 1..n : s \in 1..Len(fs) /\ b[s] \in Nat /\ Len(fs[s].lines) \in Nat
      /\ rs[i].seg \in 1..n /\ rs[i].off \in Nat /\ rs[i].off >= 1
      /\ i = b[rs[i].seg] + rs[i].off
      /\ rs[i].off <= Len(fs[rs[i].seg].lines) => Names(fs, rs[i])
      /\ i <= EndOf(fs, n, b) => rs[i].off <= Len(fs[rs[i].seg].lines)
  BY LayoutFacts
<1>2. PICK s \in 1..n : s = rs[i].seg
  BY <1>1
<1>3. PICK p \in Nat : p = rs[i].off
  BY <1>1
<1>4. i <= EndOf(fs, n, b)
  BY <1>1
<1>5. p \in 1..Len(fs[s].lines)
  BY <1>1, <1>2, <1>3, <1>4
<1>6. fs[s].lines[p].id = rs[i].id
  BY <1>1, <1>2, <1>3, <1>4 DEF Names
<1>7. \A x \in 1..Len(fs[s].lines) : \A y \in 1..Len(fs[n].lines) :
         fs[s].lines[x].id = fs[n].lines[y].id => s = n /\ x = y
  BY <1>1, <1>2 DEF Layout, OneLine
<1>8. fs[s].lines[p].id = fs[n].lines[o].id => s = n /\ p = o
  BY <1>5, <1>7
<1>9. s = n /\ p = o => i = b[n] + o
  BY <1>1, <1>2, <1>3
<1>10. o \in Nat /\ i \in Nat /\ i <= Len(rs)
  BY <1>1, <1>2
<1> QED  BY <1>1, <1>6, <1>8, <1>9, <1>10

\* The steps that write no line and no row.
LEMMA TailQuiet ==
    ASSUME NEW n, NEW b, TailOk(n, b), files' = files, records' = records,
           EndOf(files, n, b) \in Nat, Len(records) \in Nat, b[n] \in Nat, cursor \in Nat,
           \/ CreateSave \/ InsertFails \/ AppendLookup \/ Save \/ SaveFails \/ CatchUpLookup
           \/ RecoverLine \/ RecoverLookup \/ RebuildLookup \/ \E s : Unmount(s) \/ Mount(s),
           RecoverLine => status' = "opened"
    PROVE  TailOk(n, b)'
<1>1. PICK e \in Nat : e = EndOf(files, n, b)
  OBVIOUS
<1>2. PICK r \in Nat : r = Len(records)
  OBVIOUS
<1>3. PICK t : t = files[n].torn
  OBVIOUS
<1>4. EndOf(files', n, b) = e /\ Len(records') = r /\ files'[n].torn = t
  BY <1>1, <1>2, <1>3
<1>5. /\ status \notin {"down", "opened"} \/ mmr # <<>> => r <= e
      /\ status = "insert" => e = r + 1
      /\ Settled /\ status # "insert" => e = r
      /\ Settled => ~t
      /\ status \in {"catchup", "tail"} => cursor = r - b[n] + 1
      /\ status = "taillookup" => cursor = r - b[n]
  BY <1>1, <1>2, <1>3 DEF TailOk
<1> HIDE DEF EndOf
<1>6. SUFFICES /\ status' \notin {"down", "opened"} \/ mmr' # <<>> => r <= e
               /\ status' # "insert"
               /\ Settled' => e = r
               /\ Settled' => ~t
               /\ status' \in {"catchup", "tail"} => cursor' = r - b[n] + 1
               /\ status' # "taillookup"
  BY <1>4 DEF TailOk
<1>7. CASE CreateSave
  BY <1>5, <1>7 DEF CreateSave, Settled, memVars
<1>8. CASE InsertFails
  BY <1>5, <1>8 DEF InsertFails, Settled
<1>9. CASE AppendLookup
  BY <1>5, <1>9 DEF AppendLookup, Settled, Returns
<1>10. CASE Save \/ SaveFails
  BY <1>5, <1>10 DEF Save, SaveFails, Settled, Returns, Raises, memVars
<1>11. CASE CatchUpLookup
  BY <1>5, <1>11 DEF CatchUpLookup, Settled
<1>12. CASE RecoverLine
  BY <1>5, <1>12 DEF RecoverLine, Settled, memVars
<1>13. CASE RecoverLookup
  BY <1>5, <1>13 DEF RecoverLookup, Settled
<1>14. CASE RebuildLookup
  BY <1>5, <1>14 DEF RebuildLookup, Settled
<1>15. CASE \E s : Unmount(s) \/ Mount(s)
  <2>1. status = "ready" /\ status' = "save" /\ needsRecover' = needsRecover
    BY <1>15 DEF Unmount, Mount
  <2> QED  BY <1>5, <2>1 DEF Settled
<1> QED  BY <1>7, <1>8, <1>9, <1>10, <1>11, <1>12, <1>13, <1>14, <1>15

-----------------------------------------------------------------------------
\* A step within an instance that does not rotate keeps the layout.
LEMMA TailStep ==
    ASSUME Sound, LedgerNext, status # "down", ~Rotate, ~Stop, ~PowerLoss,
           NEW n, n = Active, NEW b, Layout(files, records, n, b), TailOk(n, b)
    PROVE  Layout(files', records', n, b) /\ TailOk(n, b)'
<1>1. /\ FilesOk(files) /\ RowsTyped(records, files) /\ FilesOk(files') /\ n \in 1..Len(files)
      /\ Len(manifest.segs) = n /\ DOMAIN records = 1..Len(records)
  BY SoundFacts, SoundFiles
<1>2. /\ n \in Nat /\ n \in 1..n /\ n \in 1..Len(files) /\ Len(records) \in Nat
      /\ b[n] \in Nat /\ EndOf(files, n, b) \in Nat /\ b[n] <= Len(records)
      /\ Len(files[n].lines) \in Nat /\ cursor \in Nat
  BY <1>1, LayoutFacts DEF Sound, Memory
<1>3. EndOf(files, n, b) = b[n] + Len(files[n].lines)
  BY DEF EndOf
<1>4. ASSUME SameLines(files, files', n)
      PROVE  EndOf(files', n, b) = EndOf(files, n, b) /\ Layout(files', records, n, b)
  <2>1. files'[n].lines = files[n].lines
    BY <1>2, <1>4 DEF SameLines
  <2>2. Layout(files', records, n, b)
    BY <1>1, <1>4, LayoutFlushed
  <2> QED  BY <2>1, <2>2 DEF EndOf
<1>5. ASSUME NEW row \in RowType, row.seg = n, row.off >= 1, Len(records) + 1 = b[n] + row.off,
             Names(files, row), records' = Append(records, row), files' = files
      PROVE  Layout(files', records', n, b) /\ Len(records') = Len(records) + 1
  <2>1. records \in Seq(RowType) /\ row.off \in Nat
    BY <1>1, <1>5 DEF RowsTyped, RowType
  <2>2. /\ Len(records') = Len(records) + 1 /\ \A i \in 1..Len(records) : records'[i] = records[i]
        /\ records'[Len(records) + 1] = row
    BY <1>2, <1>5, <2>1, AppendProperties
  <2>3. PICK qs : qs = records'
    OBVIOUS
  <2>4. Layout(files, qs, n, b)
    BY <1>1, <1>5, <2>1, <2>2, <2>3, LayoutRow
  <2> QED  BY <1>5, <2>2, <2>3, <2>4
<1>6. ASSUME NEW c, LineAdded(files, files', n, c), c.id \notin Ids, Len(records) = EndOf(files, n, b)
      PROVE  Layout(files', records, n, b) /\ EndOf(files', n, b) = EndOf(files, n, b) + 1
  <2>1. \A i \in 1..Len(records) : records[i].id # c.id
    BY <1>1, <1>6 DEF Ids
  <2>2. EndOf(files', n, b) = EndOf(files, n, b) + 1
    BY <1>2, <1>6 DEF LineAdded, EndOf
  <2>3. PICK gs : gs = files'
    OBVIOUS
  <2>4. /\ Len(gs) = Len(files) /\ \A s \in 1..Len(files) : s # n => gs[s] = files[s]
        /\ Len(gs[n].lines) = Len(files[n].lines) + 1
        /\ \A o \in 1..Len(files[n].lines) : gs[n].lines[o] = files[n].lines[o]
        /\ gs[n].lines[Len(files[n].lines) + 1].id = c.id
    BY <1>6, <2>3 DEF LineAdded
  <2>5. Layout(gs, records, n, b)
    BY <1>1, <1>6, <2>1, <2>3, <2>4, LayoutLine
  <2> QED  BY <2>2, <2>3, <2>5
<1>7. ASSUME files' = files, records' = records,
             \/ CreateSave \/ InsertFails \/ AppendLookup \/ Save \/ SaveFails \/ CatchUpLookup
             \/ RecoverLine \/ RecoverLookup \/ RebuildLookup \/ \E s : Unmount(s) \/ Mount(s),
             RecoverLine => status' = "opened"
      PROVE  Layout(files', records', n, b) /\ TailOk(n, b)'
  <2>1. TailOk(n, b)'
    BY <1>2, <1>7, TailQuiet
  <2> QED  BY <1>7, <2>1
<1>8. CASE RotateRaises
  <2>1. SameLines(files, files', n) /\ files'[n].torn = files[n].torn
    BY <1>8, RaisedFiles
  <2>2. status = "rotate" /\ status' = "ready" /\ records' = records /\ needsRecover' = needsRecover
    BY <1>8 DEF RotateRaises, Raises
  <2>3. Len(records) = EndOf(files, n, b) /\ ~files[n].torn
    BY <2>2 DEF TailOk, Settled
  <2>4. TailOk(n, b)'
    BY <1>2, <1>4, <2>1, <2>2, <2>3 DEF TailOk
  <2> QED  BY <1>4, <2>1, <2>2, <2>4
<1>9. CASE RecoverStart
  <2>1. SameLines(files, files', n)
    BY <1>9, RecoverStartFiles
  <2>2. LastIndexed \in Nat /\ LastIndexed = Len(records) - b[n]
    BY <1>1, LastIndexedIs
  <2>3. /\ status \in {"opened", "ready"} /\ records' = records /\ needsRecover' /\ mmr' = mmr
        /\ \/ status' = "opened"
           \/ /\ LastIndexed <= Len(files[n].lines) /\ cursor' = LastIndexed + 1
              /\ status' \in {"catchup", "tail"}
    BY <1>2, <1>9, <2>2 DEF RecoverStart, IndexedLineMissing
  <2>4. EndOf(files', n, b) = EndOf(files, n, b) /\ ~Settled'
    BY <1>4, <2>1, <2>3 DEF Settled
  <2>5. TailOk(n, b)'
    <3>1. CASE status' = "opened"
      BY <2>3, <2>4, <3>1 DEF TailOk
    <3>2. CASE status' # "opened"
      <4>1. Len(records) <= EndOf(files, n, b) /\ cursor' = Len(records) - b[n] + 1
        BY <1>2, <1>3, <2>2, <2>3, <3>2, SMTT(30)
      <4> HIDE DEF EndOf
      <4> QED  BY <2>3, <2>4, <3>2, <4>1 DEF TailOk
    <3> QED  BY <3>1, <3>2
  <2> QED  BY <1>4, <2>1, <2>3, <2>5
<1>10. CASE RecoverEnd
  <2>1. SameLines(files, files', n) /\ ~files'[n].torn
    BY <1>10, RecoverEndFiles
  <2>2. /\ status = "tail" /\ status' = "ready" /\ records' = records /\ cursor > Len(files[n].lines)
    BY <1>10 DEF RecoverEnd
  <2>3. Len(records) = EndOf(files, n, b)
    <3>1. cursor = Len(records) - b[n] + 1 /\ Len(records) <= EndOf(files, n, b)
      BY <2>2 DEF TailOk
    <3> QED  BY <1>2, <1>3, <2>2, <3>1
  <2>4. TailOk(n, b)'
    BY <1>2, <1>4, <2>1, <2>2, <2>3 DEF TailOk
  <2> QED  BY <1>4, <2>1, <2>2, <2>4
<1>11. CASE RecoverLine
  <2>1. /\ status = "tail" /\ files' = files /\ cursor <= Len(files[n].lines)
        /\ \/ files[n].lines[cursor].id \in Ids
           \/ records' # records /\ status' = "taillookup" /\ cursor' = cursor
           \/ records' = records /\ status' = "opened"
           \/ records' = records /\ records' = Append(records, Row(files[n].lines[cursor], n, cursor,
                                                 ReindexAuthenticity(files[n].lines[cursor])))
    BY <1>11 DEF RecoverLine
  <2>2. cursor = Len(records) - b[n] + 1 /\ Len(records) <= EndOf(files, n, b)
    BY <2>1 DEF TailOk
  <2>3. cursor \in 1..Len(files[n].lines) /\ cursor > Len(records) - b[n]
    BY <1>2, <2>1, <2>2
  <2>4. \A i \in 1..Len(records) : records[i].id # files[n].lines[cursor].id
    BY <1>1, <2>2, <2>3, TailUnindexed
  <2>5. files[n].lines[cursor].id \notin Ids
    BY <1>1, <2>4 DEF Ids
  <2>6. ~(records' = records /\ records' = Append(records, Row(files[n].lines[cursor], n, cursor,
                                                 ReindexAuthenticity(files[n].lines[cursor]))))
    <3>1. PICK row : row = Row(files[n].lines[cursor], n, cursor, ReindexAuthenticity(files[n].lines[cursor]))
      OBVIOUS
    <3>2. Len(Append(records, row)) = Len(records) + 1
      <4>1. records \in Seq(RowType \cup {row}) /\ row \in RowType \cup {row}
        <5>1. records \in Seq(RowType)
          BY <1>1 DEF RowsTyped
        <5>2. RowType \subseteq RowType \cup {row}
          OBVIOUS
        <5> QED  BY <5>1, <5>2
      <4> QED  BY <4>1, AppendProperties
    <3> QED  BY <1>2, <3>1, <3>2
  <2>7. CASE records' # records /\ status' = "taillookup" /\ cursor' = cursor
    <3>1. PICK row : row = Row(files[n].lines[cursor], n, cursor, ReindexAuthenticity(files[n].lines[cursor]))
      OBVIOUS
    <3>2. /\ row \in RowType /\ row.off >= 1 /\ Names(files, row) /\ records' = Append(records, row)
          /\ row.seg = n /\ row.off = cursor
      BY <1>11, <2>7, <3>1, RecoveredRow
    <3>3. Len(records) + 1 = b[n] + row.off
      BY <1>2, <2>2, <3>2
    <3>4. Layout(files', records', n, b) /\ Len(records') = Len(records) + 1
      BY <1>5, <2>1, <3>2, <3>3
    <3>5. /\ Len(records') <= EndOf(files, n, b) /\ cursor' = Len(records') - b[n]
          /\ EndOf(files', n, b) = EndOf(files, n, b) /\ ~Settled'
      <4>1. Len(records') <= EndOf(files, n, b) /\ cursor' = Len(records') - b[n]
        <5>1. PICK bn \in Nat, r \in Nat, l \in Nat : bn = b[n] /\ r = Len(records)
                   /\ l = Len(files[n].lines)
          BY <1>2
        <5>2. cursor = r - bn + 1 /\ cursor <= l /\ cursor \in Nat
          BY <1>2, <2>1, <2>2, <5>1
        <5>3. EndOf(files, n, b) = bn + l /\ Len(records') = r + 1
          BY <1>3, <3>4, <5>1
        <5>4. r + 1 <= bn + l /\ cursor = (r + 1) - bn
          BY <5>2
        <5> QED  BY <2>7, <5>1, <5>3, <5>4
      <4>2. EndOf(files', n, b) = EndOf(files, n, b)
        BY <2>1
      <4>3. ~Settled'
        BY <2>7 DEF Settled
      <4> QED  BY <4>1, <4>2, <4>3
    <3> HIDE DEF EndOf
    <3>6. TailOk(n, b)'
      BY <2>7, <3>5 DEF TailOk
    <3> QED  BY <3>4, <3>6
  <2>8. CASE records' = records /\ status' = "opened"
    BY <1>7, <1>11, <2>1, <2>8
  <2> QED  BY <2>1, <2>5, <2>6, <2>7, <2>8
<1>12. ASSUME NEW c \in Capsule, NEW sub \in scenario.submissions, AppendLine(c, sub)
       PROVE  Layout(files', records', n, b) /\ TailOk(n, b)'
  <2>1. PICK line : line = Stored(c, sub)
    OBVIOUS
  <2>2. line.id = c
    BY <2>1 DEF Stored
  <2>3. LineAdded(files, files', n, line)
    BY <1>12, <2>1, AppendedFiles
  <2>4. /\ status = "ready" /\ ~needsRecover /\ c \notin Ids /\ records' = records
        /\ files'[n].torn = files[n].torn /\ pending'.consequential = sub.consequential
        /\ sub.consequential => files'[n].synced = Len(files'[n].lines)
    BY <1>12, AppendedLine
  <2>5. status' = "insert"
    BY <1>12 DEF AppendLine
  <2>6. Len(records) = EndOf(files, n, b) /\ ~files[n].torn
    BY <2>4 DEF TailOk, Settled
  <2>7. Layout(files', records, n, b) /\ EndOf(files', n, b) = EndOf(files, n, b) + 1
    BY <1>6, <2>2, <2>3, <2>4, <2>6
  <2> HIDE DEF EndOf
  <2>8. TailOk(n, b)'
    BY <1>2, <2>4, <2>5, <2>6, <2>7 DEF TailOk
  <2> QED  BY <2>4, <2>7, <2>8
<1>13. ASSUME NEW c \in Capsule, NEW sub \in scenario.submissions, AppendFails(c, sub)
       PROVE  Layout(files', records', n, b) /\ TailOk(n, b)'
  <2>1. PICK line : line = Stored(c, sub)
    OBVIOUS
  <2>2. line.id = c
    BY <2>1 DEF Stored
  <2>3. SameLines(files, files', n) \/ LineAdded(files, files', n, line)
    BY <1>13, <2>1, FailedFiles
  <2>4. status = "ready" /\ ~needsRecover /\ c \notin Ids /\ records' = records
        /\ status' = status /\ needsRecover'
    BY <1>13 DEF AppendFails, MayAppend
  <2>5. Len(records) = EndOf(files, n, b)
    BY <2>4 DEF TailOk, Settled
  <2>6. /\ Layout(files', records, n, b)
        /\ EndOf(files', n, b) = EndOf(files, n, b) + 1 \/ EndOf(files', n, b) = EndOf(files, n, b)
    BY <1>4, <1>6, <2>2, <2>3, <2>4, <2>5
  <2> HIDE DEF EndOf
  <2>7. TailOk(n, b)'
    BY <1>2, <2>4, <2>5, <2>6 DEF TailOk, Settled
  <2> QED  BY <2>4, <2>6, <2>7
<1>14. CASE InsertRecord
  <2>1. PICK row : row = Row(pending, Active, PendingOffset, pending.signed)
    OBVIOUS
  <2>2. /\ row \in RowType /\ row.off >= 1 /\ Names(files, row) /\ records' = Append(records, row)
        /\ row.seg = n /\ row.off = Len(files[n].lines) /\ files' = files
    BY <1>14, <2>1, InsertRow
  <2>3. status = "insert" /\ status' = "lookup"
    BY <1>14 DEF InsertRecord
  <2>4. EndOf(files, n, b) = Len(records) + 1 /\ ~files[n].torn
    BY <2>3 DEF TailOk, Settled
  <2>5. Len(records) + 1 = b[n] + row.off
    BY <1>3, <2>2, <2>4
  <2>6. Layout(files', records', n, b) /\ Len(records') = Len(records) + 1
    BY <1>5, <2>2, <2>5
  <2>7. EndOf(files', n, b) = EndOf(files, n, b)
    BY <2>2
  <2> HIDE DEF EndOf
  <2>8. TailOk(n, b)'
    BY <1>2, <2>2, <2>3, <2>4, <2>6, <2>7 DEF TailOk
  <2> QED  BY <2>6, <2>8
<1>15. CASE Reindex
  <2>1. SameLines(files, files', n) /\ files'[n].torn = files[n].torn
    BY <1>2, <1>15, ReindexedFiles
  <2>2. /\ status' = status /\ mmr' = mmr
        /\ \/ status = "ready" /\ ~needsRecover
           \/ status = "opened" /\ needsRecover
        /\ records' \in {records, Leaves}
    BY <1>15 DEF Reindex
  <2>3. EndOf(files', n, b) = EndOf(files, n, b) /\ Layout(files', records, n, b)
    BY <1>4, <2>1
  <2>4. CASE records' = records
    <3> HIDE DEF EndOf, Leaves
    <3>1. TailOk(n, b)'
      BY <1>2, <2>1, <2>2, <2>3, <2>4 DEF TailOk, Settled
    <3> QED  BY <2>3, <2>4, <3>1
  <2>5. CASE records' = Leaves
    <3>1. PICK rs : rs = Leaves
      OBVIOUS
    <3>2. Layout(files, rs, n, b) /\ Len(rs) = EndOf(files, n, b)
      BY <1>1, <3>1, LayoutLeaves
    <3>3. Layout(files', rs, n, b)
      BY <1>1, <2>1, <3>2, LayoutFlushed
    <3>4. records' = rs
      BY <2>5, <3>1
    <3> HIDE DEF EndOf, Leaves
    <3>5. TailOk(n, b)'
      BY <1>2, <2>1, <2>2, <2>3, <3>2, <3>4 DEF TailOk, Settled
    <3> QED  BY <3>3, <3>4, <3>5
  <2> QED  BY <2>2, <2>4, <2>5
<1>16. CASE \/ CreateSave \/ InsertFails \/ AppendLookup \/ Save \/ SaveFails \/ CatchUpLookup
            \/ RecoverLookup \/ RebuildLookup
               \/ (status = "ready" /\ \E s \in Segments : Unmount(s) \/ Mount(s))
  <2>1. files' = files /\ records' = records
    BY <1>16, Zenon DEF CreateSave, InsertFails, AppendLookup, Save, SaveFails, CatchUpLookup,
        RecoverLookup, RebuildLookup, Unmount, Mount, diskVars
  <2>2. ~RecoverLine
    BY <1>16 DEF CreateSave, InsertFails, AppendLookup, Save, SaveFails, CatchUpLookup, RecoverLine,
        RecoverLookup, RebuildLookup, Unmount, Mount
  <2> QED  BY <1>7, <1>16, <2>1, <2>2
<1>17. ~Open
  BY DEF Open
<1> QED  BY <1>8, <1>9, <1>10, <1>11, <1>12, <1>13, <1>14, <1>15, <1>16, <1>17 DEF LedgerNext,
    LedgerStep

\* The append that indexes its line promises the record of that row.
LEMMA InsertKeeps ==
    ASSUME Sound, LedgerNext, InsertRecord, NEW n, n = Active, NEW b, TailOk(n, b), Keeps
    PROVE  Keeps'
<1>1. PICK row : row = Row(pending, Active, PendingOffset, pending.signed)
  OBVIOUS
<1>2. /\ row \in RowType /\ records' = Append(records, row) /\ row.id = pending.id
      /\ row.seg = n /\ row.off = Len(files[n].lines) /\ files' = files
      /\ pending' = [pending EXCEPT !.seq = Len(records')] /\ row.id \notin Ids
      /\ row.seg \in 1..Len(files) /\ row.off >= 1
  BY <1>1, InsertRow
<1>3. status = "insert" /\ status' = "lookup" /\ acked' = acked /\ used' = used
  BY DEF InsertRecord
<1>4. pending \in PendingType
  BY <1>3 DEF Sound, Working
<1>5. /\ FilesOk(files) /\ RowsTyped(records, files) /\ Len(files) \in Nat /\ DistinctIds(records)
  BY SoundFacts DEF Sound, Rows
<1>6. /\ Len(records') = Len(records) + 1 /\ Len(records) \in Nat
      /\ \A i \in 1..Len(records) : records'[i] = records[i]
      /\ records'[Len(records) + 1] = row
  BY <1>2, <1>5, RowAdded
<1>7. ASSUME NEW a \in acked
      PROVE  KeptIn(a, records', files', used'["power"])
  <2>1. KeptIn(a, records, files, used["power"])
    BY <1>7 DEF Keeps, Promised
  <2>2. used["power"] \in Nat
    BY DEF Sound, Memory, EventKind
  <2>3. \A s \in 1..Len(files) : files[s].synced <= files[s].synced
    BY <1>5, FileOf
  <2>4. PICK qs : qs = records'
    OBVIOUS
  <2>5. KeptIn(a, qs, files, used["power"])
    BY <1>5, <1>6, <2>1, <2>2, <2>3, <2>4, KeptGrows
  <2> QED  BY <1>2, <1>3, <2>4, <2>5
<1>8. KeptIn(pending', records', files', used'["power"])
  <2>1. /\ pending'.seq = Len(records) + 1 /\ pending'.id = pending.id
        /\ pending'.consequential = pending.consequential
    BY <1>2, <1>4, <1>6 DEF PendingType
  <2>2. pending'.seq \in 1..Len(records') /\ records'[pending'.seq] = row
    BY <1>6, <2>1
  <2>3. pending.consequential => files[n].synced = Len(files[n].lines)
    BY <1>3 DEF TailOk
  <2>4. Len(files[n].lines) \in Nat
    BY <1>2, <1>5, FileOf
  <2>5. pending.consequential => row.off <= files'[row.seg].synced
    BY <1>2, <2>3, <2>4
  <2> QED  BY <1>2, <2>1, <2>2, <2>5 DEF KeptIn
<1> QED  BY <1>3, <1>7, <1>8 DEF Keeps, Promised

\* A rebuilt index has every row whose line is there at its seq.
LEMMA LeavesAgree ==
    ASSUME FilesOk(files), RowsTyped(records, files), NEW n, NEW b, Layout(files, records, n, b),
           Len(manifest.segs) = n,
           NEW i \in 1..Len(records), records[i].off <= Len(files[records[i].seg].lines)
    PROVE  /\ i \in 1..Len(Leaves) /\ Leaves[i].id = records[i].id /\ Leaves[i].seg = records[i].seg
           /\ Leaves[i].off = records[i].off
           /\ Leaves[i].signed = files[records[i].seg].lines[records[i].off].proof
<1>1. PICK rs : rs = Leaves
  OBVIOUS
<1>2. \A s \in 1..n : \A o \in 1..Len(files[s].lines) :
         b[s] + o \in 1..Len(rs) /\ rs[b[s] + o] = LineRow(s, o)
  BY <1>1, LayoutLeaves
<1>3. /\ records[i].seg \in 1..n /\ records[i].off \in Nat /\ records[i].off >= 1
      /\ i = b[records[i].seg] + records[i].off /\ Names(files, records[i])
  BY LayoutFacts
<1>4. PICK s \in 1..n : s = records[i].seg
  BY <1>3
<1>5. PICK o \in 1..Len(files[s].lines) : o = records[i].off
  <2>1. Len(files[s].lines) \in Nat
    BY <1>4, FileOf, LayoutFacts
  <2> QED  BY <1>3, <1>4, <2>1
<1>6. i \in 1..Len(rs) /\ rs[i] = LineRow(s, o)
  BY <1>2, <1>3, <1>4, <1>5
<1>7. /\ LineRow(s, o).id = files[s].lines[o].id /\ LineRow(s, o).seg = s /\ LineRow(s, o).off = o
      /\ LineRow(s, o).signed = files[s].lines[o].proof
  BY DEF LineRow, Row, ReindexAuthenticity
<1>8. files[s].lines[o].id = records[i].id
  BY <1>3, <1>4, <1>5 DEF Names
<1> HIDE DEF Leaves
<1> QED  BY <1>1, <1>4, <1>5, <1>6, <1>7, <1>8

\* A rebuilt index has every record it promised at the same seq.
LEMMA ReindexKeeps ==
    ASSUME Sound, LedgerNext, Reindex, NEW n, n = Active, NEW b, Layout(files, records, n, b), Keeps
    PROVE  Keeps'
<1>1. /\ FilesOk(files) /\ RowsTyped(records, files) /\ Len(manifest.segs) = n /\ status # "down"
      /\ FilesOk(files') /\ Len(files) <= Len(files') /\ Len(files) \in Nat
  BY SoundFacts, SoundFiles DEF Reindex
<1>2. CASE records' = records
  <2>1. Len(records) \in Nat /\ ~InsertRecord
    BY SoundFacts DEF Reindex, InsertRecord
  <2> QED  BY <1>2, <2>1, KeepsStep
<1>3. CASE records' = Leaves
  <2>1. PICK rs : rs = Leaves
    OBVIOUS
  <2>3. \A i \in 1..Len(records) : records[i].off <= Len(files[records[i].seg].lines) =>
               /\ i \in 1..Len(rs) /\ rs[i].id = records[i].id /\ rs[i].seg = records[i].seg
               /\ rs[i].off = records[i].off
    BY <1>1, <2>1, LeavesAgree
  <2>4. \A s \in 1..Len(files) : /\ files[s].synced <= files'[s].synced /\ files[s].synced \in Nat
                                 /\ files[s].synced <= Len(files[s].lines)
                                 /\ Len(files[s].lines) \in Nat
                                 /\ files'[s].synced \in Nat
    <3>1. \A s \in 1..Len(files) : files[s].synced <= files'[s].synced
      BY SyncedGrows
    <3>2. Len(files') \in Nat /\ \A s \in 1..Len(files) : s \in 1..Len(files')
      BY <1>1, SoundFiles
    <3> QED  BY <1>1, <3>1, <3>2, FileOf
  <2>5. used' ["power"] = used["power"] /\ used["power"] \in Nat
    <3>1. used \in [EventKind -> Nat] /\ "power" \in EventKind /\ "rebuild" # "power"
      BY DEF Sound, Memory, EventKind
    <3>2. used' = [used EXCEPT !["rebuild"] = @ + 1]
      BY DEF Reindex, Use
    <3> QED  BY <3>1, <3>2
  <2>6. ASSUME NEW a, Promised(a)'
        PROVE  KeptIn(a, rs, files', used["power"])
    <3>1. ~InsertRecord
      BY DEF Reindex, InsertRecord
    <3>2. KeptIn(a, records, files, used["power"])
      BY <2>6, <3>1, PromisedChange DEF Keeps
    <3>3. \A i \in 1..Len(records) : records[i].seg \in 1..Len(files) /\ records[i].off \in Nat
      BY <1>1, RowOf
    <3>4. ASSUME a.consequential
          PROVE  /\ a.seq \in 1..Len(rs) /\ rs[a.seq].id = a.id
                 /\ rs[a.seq].off <= files'[rs[a.seq].seg].synced
      <4>1. /\ a.seq \in 1..Len(records) /\ records[a.seq].id = a.id
            /\ records[a.seq].off <= files[records[a.seq].seg].synced
        BY <3>2, <3>4 DEF KeptIn
      <4>2. PICK s \in 1..Len(files) : s = records[a.seq].seg
        BY <3>3, <4>1
      <4>3. records[a.seq].off <= Len(files[s].lines) /\ records[a.seq].off <= files'[s].synced
        <5>1. PICK o \in Nat : o = records[a.seq].off
          BY <3>3, <4>1
        <5>2. o <= files[s].synced
          BY <4>1, <4>2, <5>1
        <5>3. /\ files[s].synced <= files'[s].synced /\ files[s].synced \in Nat
              /\ files[s].synced <= Len(files[s].lines) /\ Len(files[s].lines) \in Nat
              /\ files'[s].synced \in Nat
          BY <2>4
        <5>4. o <= Len(files[s].lines) /\ o <= files'[s].synced
          BY <5>2, <5>3
        <5> QED  BY <5>1, <5>4
      <4> QED  BY <2>3, <4>1, <4>2, <4>3
    <3>5. ASSUME used["power"] = 0
          PROVE  a.seq \in 1..Len(rs) /\ rs[a.seq].id = a.id
      <4>1. a.seq \in 1..Len(records) /\ records[a.seq].id = a.id
        BY <3>2, <3>5 DEF KeptIn
      <4>2. records[a.seq].off <= Len(files[records[a.seq].seg].lines)
        BY <3>5, <4>1 DEF Sound, Rows, Names
      <4> QED  BY <2>3, <4>1, <4>2
    <3> QED  BY <3>4, <3>5 DEF KeptIn
  <2>7. records' = rs
    BY <1>3, <2>1
  <2> QED  BY <2>5, <2>6, <2>7 DEF Keeps
<1> QED  BY <1>2, <1>3 DEF Reindex

\* What follows a row is added behind it, but for a rebuild.
LEMMA RecordsGrow ==
    ASSUME Sound, LedgerNext, ~Reindex
    PROVE  /\ Len(records) <= Len(records') /\ Len(records') \in Nat
           /\ \A i \in 1..Len(records) : records'[i] = records[i]
<1>1. /\ FilesOk(files) /\ RowsTyped(records, files) /\ Len(files) \in Nat /\ DistinctIds(records)
      /\ Len(records) \in Nat
  BY SoundFacts DEF Sound, Rows
<1>2. CASE records' = records
  BY <1>1, <1>2
<1>3. CASE records' # records
  <2>1. PICK row : /\ records' = Append(records, row) /\ row \in RowType /\ row.seg \in 1..Len(files)
                   /\ row.off >= 1 /\ row.id \notin Ids
    <3>1. CASE InsertRecord
      BY <3>1, InsertRow
    <3>2. CASE RecoverLine
      BY <1>3, <3>2, RecoveredRow
    <3> QED  BY <1>3, <3>1, <3>2, RecordsChange
  <2> QED  BY <1>1, <2>1, RowAdded
<1> QED  BY <1>2, <1>3

\* A manifest that is not lost was not lost before, and no line is in a segment it lacks when
\* the process ends.
LEMMA LostStays ==
    ASSUME LedgerNext, ~manifestLost'
    PROVE  /\ ~manifestLost
           /\ Stop \/ PowerLoss =>
                 \A s \in DOMAIN files :
                     disk = None \/ s \notin DOMAIN disk.segs => files[s].lines = <<>> /\ ~files[s].torn
<1>1. manifestLost' =
          (\/ manifestLost
           \/ /\ status' = "down"
              /\ \E s \in Unlisted : files[s].lines # <<>> \/ files[s].torn)
  BY DEF LedgerNext, Remember
<1>2. Stop \/ PowerLoss => status' = "down"
  BY DEF Stop, PowerLoss, Down
<1>3. ~manifestLost /\ (status' = "down" => \A s \in Unlisted : files[s].lines = <<>> /\ ~files[s].torn)
  BY <1>1
<1> QED  BY <1>2, <1>3 DEF Unlisted

\* The manifest on disk is that of the instance when the process ends, or only the empty
\* segment of the last rotation is not in it.
LEMMA DiskAtEnd ==
    ASSUME Sound, LedgerNext, Stop \/ PowerLoss, ~manifestLost', disk # None, status # "down",
           NEW n, n = Active, DiskLags(n), NEW m, m = disk.active
    PROVE  /\ m \in 1..Len(files)
           /\ \/ m = n
              \/ /\ m + 1 = n /\ Len(files) = m + 1 /\ mmr # <<>>
                 /\ files[n].lines = <<>> /\ ~files[n].torn
<1>1. ManifestOk(disk, files) /\ n \in 1..Len(files) /\ Len(files) \in Nat /\ DOMAIN files = 1..Len(files)
  BY SoundFacts DEF Sound, Manifests
<1>2. DOMAIN disk.segs = 1..m /\ m \in 1..Len(files)
  BY <1>1, ManifestOf DEF ManifestOk
<1>3. \A s \in 1..Len(files) : s > m => files[s].lines = <<>> /\ ~files[s].torn
  <2>1. \A s \in DOMAIN files : s \notin DOMAIN disk.segs => files[s].lines = <<>> /\ ~files[s].torn
    BY LostStays
  <2> QED  BY <1>1, <1>2, <2>1
<1>4. m <= n /\ (m < n => Len(files) = n /\ mmr # <<>>)
      /\ \A s \in 1..n : m < s /\ s < n => Len(files[s].lines) >= 1
  BY DEF DiskLags
<1>5. ASSUME m < n PROVE m + 1 = n
  <2>1. SUFFICES ASSUME m + 1 # n PROVE FALSE
    OBVIOUS
  <2>2. m + 1 \in 1..n /\ m < m + 1 /\ m + 1 < n /\ m + 1 \in 1..Len(files)
    BY <1>1, <1>2, <1>5, <2>1
  <2>3. files[m + 1].lines = <<>> /\ Len(files[m + 1].lines) >= 1
    BY <1>3, <1>4, <2>2
  <2>4. Len(<<>>) = 0
    BY EmptySeq
  <2> QED  BY <2>3, <2>4
<1>6. ASSUME m # n
      PROVE  /\ m + 1 = n /\ Len(files) = m + 1 /\ mmr # <<>>
             /\ files[n].lines = <<>> /\ ~files[n].torn
  <2>1. m \in Nat /\ n \in Nat /\ m <= n
    <3>1. n \in 1..Len(files) /\ m \in 1..Len(files) /\ Len(files) \in Nat
      BY <1>1, <1>2
    <3>2. m <= n
      BY <1>4
    <3> QED  BY ONLY <3>1, <3>2
  <2>2. m < n /\ n > m
    BY ONLY <1>6, <2>1
  <2> QED  BY <1>1, <1>3, <1>4, <1>5, <2>2
<1> QED  BY <1>2, <1>6

\* A new store lays out its first segment.
LEMMA LaidFresh ==
    ASSUME Sound, Unborn, LedgerNext, Fresh
    PROVE  Laid'
<1>1. Open \/ PowerLoss
  BY DEF Fresh, LedgerNext, LedgerStep, Open, CreateSave, Stop, PowerLoss, AppendLine, AppendFails,
        MayAppend, InsertRecord, InsertFails, AppendLookup, Rotate, RotateRaises, Save, SaveFails,
        RecoverStart, CatchUpLookup, RecoverLine, RecoverLookup, RecoverEnd, Reindex, RebuildLookup
<1>2. CASE PowerLoss
  BY <1>2 DEF PowerLoss, Down, Fresh, Laid
<1>3. CASE Open
  <2>1. /\ files' = <<EmptyFile>> /\ manifest' = [active |-> 1, segs |-> <<NewEntry>>]
        /\ status' = "create" /\ records' = records /\ acked' = acked /\ disk' = None
    BY <1>3 DEF Open, Fresh
  <2>2. records = <<>> /\ acked = {}
    BY DEF Fresh, Unborn
  <2>3. PICK gs : gs = files'
    OBVIOUS
  <2>4. PICK b : Layout(gs, <<>>, 1, b) /\ EndOf(gs, 1, b) = 0
    BY <2>1, <2>3, LayoutNew
  <2>5. records' = <<>> /\ Len(records') = 0
    BY <2>1, <2>2, EmptySeq
  <2>6. Layout(files', records', 1, b) /\ EndOf(files', 1, b) = 0
    BY <2>3, <2>4, <2>5
  <2> HIDE DEF Layout, EndOf
  <2>7. TailOk(1, b)'
    BY <2>1, <2>5, <2>6 DEF TailOk, Settled
  <2>8. Keeps'
    BY <2>1, <2>2 DEF Keeps, Promised
  <2>9. DiskLags(1)'
    BY <2>1 DEF DiskLags
  <2>10. View'.active = 1
    BY <2>1 DEF View
  <2> QED  BY <2>6, <2>7, <2>8, <2>9, <2>10 DEF Laid, LaidBy
<1> QED  BY <1>1, <1>2, <1>3

\* What is on disk is laid out when the process ends.
LEMMA LaidDown ==
    ASSUME Sound, Unborn, LedgerNext, Stop \/ PowerLoss, disk # None, ~manifestLost',
           NEW n, n = View.active, NEW b, LaidBy(n, b)
    PROVE  Laid'
<1>1. /\ status' = "down" /\ disk' = disk /\ records' = records /\ mmr' = <<>>
      /\ files' = files \/ PowerLoss
  BY DEF Stop, PowerLoss, Down, diskVars
<1>2. /\ FilesOk(files) /\ RowsTyped(records, files) /\ FilesOk(files') /\ Len(files) \in Nat
      /\ DOMAIN files = 1..Len(files) /\ Len(records) \in Nat
  BY SoundFacts, SoundFiles
<1>3. ManifestOk(disk, files)
  BY DEF Sound, Manifests
<1>4. PICK m : m = disk.active
  OBVIOUS
<1>5. m \in 1..Len(files)
  BY <1>3, <1>4 DEF ManifestOk
<1>6. \E c : Layout(files, records, m, c)
  <2>1. CASE status = "down" \/ m = n
    BY <1>4, <2>1 DEF View, LaidBy
  <2>2. CASE status # "down" /\ m # n
    <3>1. n = Active /\ DiskLags(n)
      BY <2>2 DEF View, Active, LaidBy
    <3>2. /\ Len(files) = m + 1 /\ m + 1 = n /\ files[n].lines = <<>> /\ ~files[n].torn
          /\ mmr # <<>>
      BY <1>4, <2>2, <3>1, DiskAtEnd
    <3>3. Len(records) <= EndOf(files, n, b) /\ Layout(files, records, n, b)
      BY <3>1, <3>2 DEF LaidBy, TailOk
    <3>4. m \in Nat /\ m >= 1 /\ Len(files) <= m + 1
      BY <1>2, <1>5, <3>2
    <3> QED  BY <1>2, <3>2, <3>3, <3>4, LayoutUnrotated
  <2> QED  BY <2>1, <2>2
<1>7. PICK c : Layout(files, records, m, c)
  BY <1>6
<1>8. Layout(files', records', m, c)
  <2>1. CASE files' = files
    BY <1>1, <1>7, <2>1
  <2>2. CASE PowerLoss
    <3>1. Survives(files, files')
      BY <1>2, <2>2, PowerFiles
    <3>2. PICK gs : gs = files'
      OBVIOUS
    <3>3. Layout(gs, records, m, c)
      BY <1>2, <1>7, <3>1, <3>2, LayoutPower
    <3> QED  BY <1>1, <3>2, <3>3
  <2> QED  BY <1>1, <2>1, <2>2
<1>9. TailOk(m, c)'
  BY <1>1 DEF TailOk, Settled
<1>10. Keeps'
  <2>1. Keeps /\ ~InsertRecord
    BY <1>1 DEF LaidBy, InsertRecord
  <2> QED  BY <1>1, <1>2, <2>1, KeepsStep
<1>11. DiskLags(m)'
  BY <1>1 DEF DiskLags
<1>12. View'.active = m
  BY <1>1, <1>4 DEF View
<1> HIDE DEF Layout, TailOk, Keeps, DiskLags, View
<1> QED  BY <1>8, <1>9, <1>10, <1>11, <1>12 DEF Laid, LaidBy

\* The segment that a rotation opens is empty and the last.
LEMMA RotatedNew ==
    ASSUME Sound, LedgerNext, Rotate, NEW n, n = Active, NEW b, Layout(files, records, n, b)
    PROVE  Len(files') = n + 1 /\ files'[n + 1].lines = <<>> /\ ~files'[n + 1].torn
<1>1. status = "rotate"
  BY DEF Rotate
<1>2. Len(files) \in Nat /\ n \in 1..Len(files)
  BY <1>1, SoundFacts
<1>3. /\ \A s \in 1..Len(files) : s # n => files'[s] = files[s]
      /\ files'[n].lines = files[n].lines /\ files'[n].torn = files[n].torn
      /\ files'[n].synced = Len(files[n].lines)
      /\ Len(files') = IF n + 1 \in 1..Len(files) THEN Len(files) ELSE Len(files) + 1
      /\ n + 1 \notin 1..Len(files) => files'[Len(files) + 1] = EmptyFile
  BY RotatedFiles
<1>4. Len(files) <= n + 1 /\ \A s \in 1..Len(files) : s > n => files[s].lines = <<>> /\ ~files[s].torn
  BY DEF Layout, ClosedOk
<1>5. Len(files') = n + 1
  BY <1>2, <1>3, <1>4
<1>6. files'[n + 1].lines = <<>> /\ ~files'[n + 1].torn
  <2>1. CASE n + 1 \in 1..Len(files)
    <3>1. n + 1 # n /\ n + 1 > n
      BY <1>2
    <3>2. files'[n + 1] = files[n + 1] /\ files[n + 1].lines = <<>> /\ ~files[n + 1].torn
      BY <1>3, <1>4, <2>1, <3>1
    <3> QED  BY <3>2
  <2>2. CASE n + 1 \notin 1..Len(files)
    <3>1. Len(files) = n
      BY <1>2, <1>4, <2>2
    <3>2. files'[n + 1] = EmptyFile
      BY <1>3, <2>2, <3>1
    <3> QED  BY <3>2 DEF EmptyFile
  <2> QED  BY <2>1, <2>2
<1> QED  BY <1>5, <1>6

\* The store lays out a segment more when it rotates.
LEMMA LaidRotated ==
    ASSUME Sound, Unborn, LedgerNext, Rotate, NEW n, n = Active, NEW b, LaidBy(n, b)
    PROVE  Laid'
<1>1. /\ status = "rotate" /\ status' = "save" /\ records' = records /\ needsRecover' = needsRecover
      /\ disk' = disk /\ used' = used /\ pending' = pending
  BY DEF Rotate
<1>2. /\ FilesOk(files) /\ RowsTyped(records, files) /\ FilesOk(files') /\ Len(files) \in Nat
      /\ Len(records) \in Nat /\ n \in 1..Len(files)
  BY <1>1, SoundFacts, SoundFiles
<1>3. Layout(files, records, n, b) /\ Len(records) = EndOf(files, n, b) /\ ~files[n].torn
  BY <1>1 DEF LaidBy, TailOk, Settled
<1>4. /\ \A s \in 1..Len(files) : s # n => files'[s] = files[s]
      /\ files'[n].lines = files[n].lines /\ files'[n].torn = files[n].torn
      /\ files'[n].synced = Len(files[n].lines)
  BY RotatedFiles
<1>6. Len(files') = n + 1 /\ files'[n + 1].lines = <<>> /\ ~files'[n + 1].torn
  BY <1>3, RotatedNew
<1>8. PICK gs : gs = files'
  OBVIOUS
<1>9. PICK c : Layout(gs, records, n + 1, c) /\ EndOf(gs, n + 1, c) = Len(records)
  <2>1. /\ FilesOk(gs) /\ Len(gs) = n + 1 /\ gs[n + 1].lines = <<>> /\ ~gs[n + 1].torn
        /\ gs[n].lines = files[n].lines /\ gs[n].torn = files[n].torn
        /\ gs[n].synced = Len(files[n].lines)
        /\ \A s \in 1..Len(files) : s # n => gs[s] = files[s]
    BY <1>2, <1>4, <1>6, <1>8
  <2> QED  BY <1>2, <1>3, <2>1, LayoutRotated, SMTT(30)
<1>10. Layout(files', records', n + 1, c) /\ EndOf(files', n + 1, c) = Len(records')
  BY <1>1, <1>8, <1>9
<1> HIDE DEF EndOf, Layout
<1>11. TailOk(n + 1, c)'
  BY <1>1, <1>2, <1>6, <1>10 DEF TailOk, Settled
<1>12. Keeps'
  <2>1. Keeps /\ ~InsertRecord
    BY <1>1 DEF LaidBy, InsertRecord
  <2> QED  BY <1>1, <1>2, <2>1, KeepsStep
<1>13. DiskLags(n + 1)'
  <2>1. Len(files[n].lines) >= 1
    <3>1. Len(records) \in 1..Len(records) /\ records[Len(records)].seg = n
      BY <1>1, <1>2 DEF Sound, Working
    <3>2. b[n] < Len(records)
      BY <1>2, <1>3, <3>1, LayoutFacts
    <3> QED  BY <1>2, <1>3, <3>2, LayoutFacts DEF EndOf
  <2>2. \A s \in 1..n : Len(files[s].lines) >= 1 => Len(files'[s].lines) >= 1
    BY <1>2, <1>4
  <2>3. ASSUME disk' # None
        PROVE  disk.active <= n /\ \A s \in 1..n : disk.active < s => Len(files[s].lines) >= 1
    <3>1. /\ disk.active <= n
          /\ \A s \in 1..n : disk.active < s /\ s < n => Len(files[s].lines) >= 1
      BY <1>1, <2>3 DEF LaidBy, DiskLags
    <3> QED  BY <1>2, <2>1, <3>1
  <2>4. disk' # None => disk.active \in Nat
    BY <1>1, ManifestOf DEF Sound, Manifests, ManifestOk
  <2>5. mmr' # <<>>
    BY <1>1, MmrKept DEF Stop, PowerLoss, Down
  <2> QED  BY <1>1, <1>2, <1>6, <2>2, <2>3, <2>4, <2>5 DEF DiskLags
<1>14. View'.active = n + 1
  BY <1>1, RotateManifest DEF View
<1> HIDE DEF TailOk, Keeps, DiskLags, View
<1>15. LaidBy(n + 1, c)'
  BY <1>10, <1>11, <1>12, <1>13 DEF LaidBy
<1> QED  BY <1>14, <1>15 DEF Laid

\* Any step keeps the store laid out.
LEMMA LaidStep ==
    ASSUME Sound, Unborn, Laid, LedgerNext
    PROVE  Laid'
<1>1. SUFFICES ASSUME ~manifestLost' PROVE Laid'
  BY DEF Laid
<1>2. CASE Fresh
  BY <1>2, LaidFresh
<1>3. CASE ~Fresh
  <2>1. ~manifestLost
    BY <1>1, LostStays
  <2>2. PICK n : n = View.active
    OBVIOUS
  <2>3. PICK b : LaidBy(n, b)
    BY <1>3, <2>1, <2>2 DEF Laid
  <2>4. CASE Stop \/ PowerLoss
    <3>1. CASE disk = None
      BY <2>4, <3>1 DEF Stop, PowerLoss, Down, diskVars, Laid, Fresh
    <3>2. CASE disk # None
      BY <1>1, <2>2, <2>3, <2>4, <3>2, LaidDown
    <3> QED  BY <3>1, <3>2
  <2>5. CASE Open
    <3>1. status = "down" /\ disk # None
      BY <1>3, <2>5 DEF Open, Fresh
    <3>2. /\ manifest' = disk /\ status' = "opened" /\ files' = files /\ records' = records
          /\ mmr' = mmr
          /\ disk' = disk
      BY <2>5, <3>1 DEF Open
    <3>3. n = disk.active /\ View'.active = n
      BY <2>2, <3>1, <3>2 DEF View
    <3>4. Layout(files', records', n, b)
      BY <2>3, <3>2 DEF LaidBy
    <3>5. TailOk(n, b)'
      BY <2>3, <3>1, <3>2 DEF LaidBy, TailOk, Settled
    <3>6. Keeps'
      <4>1. Keeps /\ ~InsertRecord /\ Len(records) \in Nat
        BY <2>3, <3>1, SoundFacts DEF LaidBy, InsertRecord
      <4> QED  BY <3>2, <4>1, KeepsStep
    <3>7. DiskLags(n)'
      <4>1. n \in Nat
        BY <2>3, SoundFacts, LayoutFacts DEF LaidBy
      <4> QED  BY <3>2, <3>3, <4>1 DEF DiskLags
    <3> HIDE DEF Layout, TailOk, Keeps, DiskLags, View
    <3>8. LaidBy(n, b)'
      BY <3>4, <3>5, <3>6, <3>7 DEF LaidBy
    <3> QED  BY <3>3, <3>8 DEF Laid
  <2>6. CASE Rotate
    <3>1. n = Active
      BY <2>2, <2>6 DEF Rotate, View, Active
    <3> QED  BY <2>3, <2>6, <3>1, LaidRotated
  <2>7. CASE ~Stop /\ ~PowerLoss /\ ~Open /\ ~Rotate
    <3>1. status # "down"
      BY <2>7 DEF LedgerNext, LedgerStep, CreateSave, AppendLine, AppendFails,
        MayAppend, InsertRecord, InsertFails, AppendLookup, RotateRaises, Save, SaveFails,
        RecoverStart, CatchUpLookup, RecoverLine, RecoverLookup, RecoverEnd, Reindex, RebuildLookup
    <3>2. n = Active
      BY <2>2, <3>1 DEF View, Active
    <3>3. Layout(files, records, n, b) /\ TailOk(n, b) /\ Keeps /\ DiskLags(n)
      BY <2>3 DEF LaidBy
    <3>5. Layout(files', records', n, b) /\ TailOk(n, b)'
      BY <2>7, <3>1, <3>2, <3>3, TailStep
    <3>6. Keeps'
      <4>1. CASE InsertRecord
        BY <3>2, <3>3, <4>1, InsertKeeps
      <4>2. CASE Reindex
        BY <3>2, <3>3, <4>2, ReindexKeeps
      <4>3. CASE ~InsertRecord /\ ~Reindex
        BY <3>3, <4>3, RecordsGrow, KeepsStep
      <4> QED  BY <4>1, <4>2, <4>3
    <3>7. DiskLags(n)'
      BY <2>7, <3>1, <3>2, <3>3, DiskStep
    <3>8. View'.active = n
      BY <2>7, <3>1, <3>2, ActiveKept DEF View, Active
    <3> HIDE DEF Layout, TailOk, Keeps, DiskLags, View
    <3>9. LaidBy(n, b)'
      BY <3>5, <3>6, <3>7 DEF LaidBy
    <3> QED  BY <3>8, <3>9 DEF Laid
  <2> QED  BY <2>4, <2>5, <2>6, <2>7
<1> QED  BY <1>2, <1>3

\* Laid is an invariant.
LEMMA LaidInvariant == LedgerSpec => []Laid
<1>1. LedgerInit => Laid
  BY DEF LedgerInit, Laid, Fresh
<1>2. ASSUME Sound, Unborn, Laid, [LedgerNext]_ledgerVars
      PROVE  Laid'
  <2>1. CASE LedgerNext
    BY <1>2, <2>1, LaidStep
  <2>2. CASE UNCHANGED ledgerVars
    <3>1. UNCHANGED <<files, disk, records, status, manifest, needsRecover, mmr, pending, cursor,
          acked, used, manifestLost>>
      BY <2>2 DEF ledgerVars, diskVars, memVars, historyVars
    <3>2. manifestLost' = manifestLost /\ Fresh' = Fresh /\ View' = View
      BY <3>1 DEF Fresh, View
    <3>3. ASSUME NEW n, NEW b, LaidBy(n, b) PROVE LaidBy(n, b)'
      BY <3>1, <3>3, Zenon DEF LaidBy, TailOk, Keeps, DiskLags, Promised, Settled, KeptIn
    <3> HIDE DEF LaidBy, Fresh, View
    <3> QED  BY <1>2, <3>2, <3>3 DEF Laid
  <2> QED  BY <1>2, <2>1, <2>2
<1> QED  BY <1>1, <1>2, SoundInvariant, UnbornInvariant, PTL DEF LedgerSpec

\* No record is indexed twice, and a consequential one that append returned keeps the seq
\* it was returned with: through crashes, recover, rotation and reindex, which each write the
\* files and the indexes in steps of their own.
THEOREM SeqsAreStable == LedgerSpec => []SeqsStable
<1>1. Sound /\ Unborn /\ Laid => SeqsStable
  <2> SUFFICES ASSUME Sound, Unborn, Laid PROVE SeqsStable
    OBVIOUS
  <2>1. DOMAIN records = 1..Len(records) /\ DistinctIds(records)
    BY SoundFacts DEF Sound, Rows
  <2>2. \A i, j \in DOMAIN records : records[i].id = records[j].id => i = j
    BY <2>1 DEF DistinctIds
  <2>3. ASSUME ~manifestLost, NEW a \in acked, a.consequential
        PROVE  a.seq \in DOMAIN records /\ records[a.seq].id = a.id
    <3>1. ~Fresh
      BY <2>3 DEF Fresh, Unborn
    <3>2. Keeps
      BY <2>3, <3>1 DEF Laid, LaidBy
    <3>3. KeptIn(a, records, files, used["power"])
      BY <2>3, <3>2 DEF Keeps, Promised
    <3> QED  BY <2>1, <2>3, <3>3 DEF KeptIn
  <2> QED  BY <2>2, <2>3 DEF SeqsStable
<1> QED  BY <1>1, SoundInvariant, UnbornInvariant, LaidInvariant, PTL

-----------------------------------------------------------------------------
(***************************************************************************)
(* Reads through the records index.                                        *)
(***************************************************************************)
\* A row that names its line is read, unless the file is elsewhere.
LEMMA ReadOf ==
    ASSUME NEW row, Names(files, row), row.seg \in archived => Unmounted(row.seg)
    PROVE  /\ Read(row) = IF Unmounted(row.seg) THEN "unmounted" ELSE "found"
           /\ LineOf(row).id = row.id
<1>1. CASE Unmounted(row.seg)
  BY <1>1 DEF Read, Names, LineOf
<1>2. CASE ~Unmounted(row.seg)
  BY <1>2 DEF Read, Names, LineOf
<1> QED  BY <1>1, <1>2

\* The archived files are those of the unmounted segments, but for the moves that were cut.
LEMMA ArchivedUnmounted ==
    ASSUME Sound, Mounts, status # "down"
    PROVE  \A s : s \notin moveCut => (s \in archived <=> Unmounted(s))
<1>1. Segments = 1..Active /\ manifest.active = Active
  BY SoundFacts DEF Active
<1>2. Archives(archived, manifest, moveCut)
  BY DEF Mounts
<1> QED  BY <1>1, <1>2 DEF Archives, Unmounted

\* Every row names its line once the store has recovered.
LEMMA NamesAll ==
    ASSUME Sound, Laid, ~manifestLost, status \notin {"down",
           "opened"} \/ (status # "down" /\ mmr # <<>>)
    PROVE  \A i \in 1..Len(records) : Names(files, records[i])
<1>1. PICK n : n = View.active
  OBVIOUS
<1>2. PICK b : LaidBy(n, b)
  BY <1>1 DEF Laid, Fresh
<1>3. Layout(files, records, n, b) /\ Len(records) <= EndOf(files, n, b)
  BY <1>2 DEF LaidBy, TailOk
<1>4. FilesOk(files) /\ RowsTyped(records, files)
  BY SoundFacts
<1>5. /\ EndOf(files, n, b) \in Nat /\ Len(records) \in Nat
      /\ \A i \in 1..Len(records) :
           /\ records[i].off <= Len(files[records[i].seg].lines) => Names(files, records[i])
           /\ i <= EndOf(files, n, b) => records[i].off <= Len(files[records[i].seg].lines)
  BY <1>3, <1>4, LayoutFacts
<1>6. \A i \in 1..Len(records) : i <= EndOf(files, n, b)
  BY <1>3, <1>5
<1> QED  BY <1>5, <1>6

\* The row of an indexed id is the only one.
LEMMA FirstOfId ==
    ASSUME Sound, NEW i \in 1..Len(records)
    PROVE  Min({j \in DOMAIN records : records[j].id = records[i].id}) = i
<1>1. DOMAIN records = 1..Len(records) /\ Len(records) \in Nat /\ DistinctIds(records)
  BY SoundFacts DEF Sound, Rows
<1>2. {j \in DOMAIN records : records[j].id = records[i].id} = {i}
  BY <1>1 DEF DistinctIds
<1>3. Min({i}) = i
  <2>1. i \in {i} /\ \A y \in {i} : i <= y
    BY <1>1
  <2>2. \A x \in {i} : x = i
    OBVIOUS
  <2> QED  BY <2>1, <2>2 DEF Min
<1> QED  BY <1>2, <1>3

\* A read of an indexed record finds that record where records.sqlite says it is, or is told
\* that its segment is unmounted: append writes the line before its row, recover refuses to
\* serve while the line of a row is missing, and reindex drops such a row.  Excepted are the
\* records of a segment whose move an end of the process cut from its save, and every record
\* once power was lost and a line was left in a segment that manifest.json lacks.
THEOREM ReadsAreExplained == LedgerSpec => []ReadsExplained
<1>1. Sound /\ Mounts /\ Laid => ReadsExplained
  <2> SUFFICES ASSUME Sound, Mounts, Laid, status = "ready", ~(manifestLost /\ used["power"] > 0),
                      NEW i \in DOMAIN records, records[i].seg \notin moveCut,
                      NEW c, c = records[i].id
               PROVE  Fetch(c).outcome = "unmounted"
                      \/ (Fetch(c).outcome = "found" /\ Fetch(c).capsule = c)
    BY DEF ReadsExplained
  <2>1. DOMAIN records = 1..Len(records)
    BY SoundFacts
  <2>2. i \in 1..Len(records) /\ c \in Ids
    BY <2>1 DEF Ids
  <2>3. Names(files, records[i])
    <3>1. used["power"] \in Nat
      BY DEF Sound, Memory, EventKind
    <3>2. CASE used["power"] = 0
      BY <2>2, <3>2 DEF Sound, Rows
    <3>3. CASE ~manifestLost
      BY <2>2, <3>3, NamesAll
    <3> QED  BY <3>1, <3>2, <3>3
  <2>4. PICK row : row = records[i]
    OBVIOUS
  <2>5. row.seg \in archived => Unmounted(row.seg)
    BY <2>4, ArchivedUnmounted
  <2>6. /\ Read(row) = "unmounted" \/ Read(row) = "found"
        /\ LineOf(row).id = c
    BY <2>2, <2>3, <2>4, <2>5, ReadOf
  <2>7. Fetch(c) = RowToRecord(i)
    BY <2>2, FirstOfId DEF Fetch
  <2>8. CASE Read(row) = "found"
    <3>1. Fetch(c) = Found(i, row.id, row, row.signed)
      BY <2>4, <2>7, <2>8 DEF RowToRecord, Readable
    <3> QED  BY <2>6, <3>1 DEF Found
  <2>9. CASE Read(row) = "unmounted"
    <3>1. Fetch(c) = NoAnswer("unmounted")
      BY <2>4, <2>7, <2>9 DEF RowToRecord, Readable
    <3> QED  BY <3>1 DEF NoAnswer
  <2> QED  BY <2>6, <2>8, <2>9
<1> QED  BY <1>1, SoundInvariant, MountsInvariant, LaidInvariant, PTL
=============================================================================
