---------------------------- MODULE NatRecursion ----------------------------
(***************************************************************************)
(* Induction and recursion on the naturals in the form the proofs of this  *)
(* project use them.  The library states them with operator parameters,    *)
(* which the installed provers cannot instantiate; here the parameters are *)
(* sets and functions.                                                     *)
(***************************************************************************)
EXTENDS Integers, WellFoundedInduction, TLAPS

\* Every nonempty set of naturals has a least element: Current, which picks
\* the smallest queued size, picks one that is queued.
LEMMA LeastOfNats ==
    ASSUME NEW T \in SUBSET Nat, T # {}
    PROVE  \E m \in T : \A k \in T : m <= k
<1>1. \A x, y \in Nat : x < y => <<x, y>> \in OpToRel(<, Nat)
  BY DEF OpToRel
<1>2. IsWellFoundedOn(OpToRel(<, Nat), Nat)
  BY NatLessThanWellFounded, Zenon
<1>3. \E R : IsWellFoundedOn(R, Nat) /\ \A x, y \in Nat : x < y => <<x, y>> \in R
  BY <1>1, <1>2, Zenon
<1>4. PICK R : IsWellFoundedOn(R, Nat) /\ \A x, y \in Nat : x < y => <<x, y>> \in R
  BY <1>3
<1>5. IsWellFoundedOn(R, Nat) /\ T \subseteq Nat
  BY <1>4, Zenon
<1>6. PICK m \in T : \A y \in T : ~(<<y, m>> \in R)
  BY <1>5, WFMin, Zenon
<1>7. \A y \in T : ~(y < m)
  BY <1>4, <1>6
<1> QED  BY <1>7

\* Induction on the naturals, the predicate being a set.
LEMMA SetInduction ==
    ASSUME NEW S, 0 \in S, \A n \in Nat : n \in S => n + 1 \in S
    PROVE  Nat \subseteq S
<1> SUFFICES ASSUME Nat \ S # {} PROVE FALSE
  OBVIOUS
<1>1. PICK m \in Nat \ S : \A k \in Nat \ S : m <= k
  BY LeastOfNats
<1>2. m # 0 /\ m - 1 \in Nat /\ m - 1 \in S
  BY <1>1
<1> QED  BY <1>1, <1>2

\* The first n steps of the recursion f[0] = a, f[i + 1] = step[i, f[i]].
Steps(S, a, step, n) ==
    {g \in [0..n -> S] :
        g[0] = a /\ \A i \in 0..n : i < n => g[i + 1] = step[<<i, g[i]>>]}

\* Two such functions agree where both are defined.
LEMMA StepsAgree ==
    ASSUME NEW S, NEW a, NEW step, NEW n \in Nat, NEW m \in Nat, n <= m,
           NEW g \in Steps(S, a, step, n), NEW h \in Steps(S, a, step, m)
    PROVE  \A i \in 0..n : g[i] = h[i]
<1> DEFINE A == {i \in Nat : i <= n => g[i] = h[i]}
<1>1. 0 \in A
  BY DEF Steps
<1>2. ASSUME NEW i \in Nat, i \in A PROVE i + 1 \in A
  <2> SUFFICES ASSUME i + 1 <= n PROVE g[i + 1] = h[i + 1]
    OBVIOUS
  <2>1. i \in 0..n /\ i < n /\ i \in 0..m /\ i < m
    OBVIOUS
  <2>2. g[i] = h[i]
    BY <1>2
  <2> QED  BY <2>1, <2>2 DEF Steps
<1> HIDE DEF A
<1>3. Nat \subseteq A
  BY <1>1, <1>2, SetInduction
<1> QED  BY <1>3 DEF A

\* The functions that satisfy the recursion for every natural.
Recursions(S, a, step) ==
    {f \in [Nat -> S] : f[0] = a /\ \A n \in Nat : f[n + 1] = step[<<n, f[n]>>]}

\* A function on the naturals may be defined by recursion.
LEMMA RecursionExists ==
    ASSUME NEW S, NEW a \in S, NEW step \in [Nat \X S -> S]
    PROVE  \E f : f \in Recursions(S, a, step)
<1> DEFINE A == {n \in Nat : Steps(S, a, step, n) # {}}
           f == [n \in Nat |-> (CHOOSE g \in Steps(S, a, step, n) : TRUE)[n]]
<1>1. 0 \in A
  <2>1. [i \in 0..0 |-> a] \in Steps(S, a, step, 0)
    BY DEF Steps
  <2> QED  BY <2>1
<1>2. ASSUME NEW n \in Nat, n \in A PROVE n + 1 \in A
  <2>1. PICK g \in Steps(S, a, step, n) : TRUE
    BY <1>2
  <2>2. g \in [0..n -> S] /\ g[0] = a /\ \A i \in 0..n : i < n => g[i + 1] = step[<<i, g[i]>>]
    BY <2>1 DEF Steps
  <2> DEFINE h == [i \in 0..(n + 1) |-> IF i <= n THEN g[i] ELSE step[<<n, g[n]>>]]
  <2>3. n \in 0..n /\ g[n] \in S /\ step[<<n, g[n]>>] \in S
    BY <2>2
  <2>4. h \in [0..(n + 1) -> S]
    BY <2>2, <2>3
  <2>5. h[0] = a
    BY <2>2
  <2>6. ASSUME NEW i \in 0..(n + 1), i < n + 1 PROVE h[i + 1] = step[<<i, h[i]>>]
    <3>1. i \in 0..n /\ h[i] = g[i]
      BY <2>6
    <3>2. CASE i < n
      <4>1. h[i + 1] = g[i + 1]
        BY <3>1, <3>2
      <4> QED  BY <2>2, <3>1, <3>2, <4>1
    <3>3. CASE i = n
      BY <3>1, <3>3
    <3> QED  BY <3>1, <3>2, <3>3
  <2>7. h \in Steps(S, a, step, n + 1)
    <3> HIDE DEF h
    <3> QED  BY <2>4, <2>5, <2>6 DEF Steps
  <2> QED  BY <2>7
<1> HIDE DEF A
<1>3. Nat \subseteq A
  BY <1>1, <1>2, SetInduction
<1>4. \A n \in Nat : (CHOOSE g \in Steps(S, a, step, n) : TRUE) \in Steps(S, a, step, n)
  BY <1>3 DEF A
<1>5. ASSUME NEW n \in Nat, NEW g \in Steps(S, a, step, n) PROVE f[n] = g[n]
  BY <1>4, StepsAgree
<1>6. f \in [Nat -> S]
  <2>1. ASSUME NEW n \in Nat PROVE f[n] \in S
    <3>1. PICK g \in Steps(S, a, step, n) : TRUE
      BY <1>4
    <3>2. n \in 0..n /\ g \in [0..n -> S]
      BY <3>1 DEF Steps
    <3> QED  BY <1>5, <3>1, <3>2
  <2> QED  BY <2>1
<1> HIDE DEF f
<1>7. f[0] = a
  <2>1. PICK g \in Steps(S, a, step, 0) : TRUE
    BY <1>4
  <2> QED  BY <1>5, <2>1 DEF Steps
<1>8. ASSUME NEW n \in Nat PROVE f[n + 1] = step[<<n, f[n]>>]
  <2>1. PICK g \in Steps(S, a, step, n + 1) : TRUE
    BY <1>4
  <2>2. PICK h \in Steps(S, a, step, n) : TRUE
    BY <1>4
  <2>3. f[n] = h[n] /\ h[n] = g[n] /\ f[n + 1] = g[n + 1]
    BY <1>5, <2>1, <2>2, StepsAgree
  <2>4. g[n + 1] = step[<<n, g[n]>>]
    BY <2>1 DEF Steps
  <2> QED  BY <2>3, <2>4
<1> QED  BY <1>6, <1>7, <1>8 DEF Recursions
=============================================================================
