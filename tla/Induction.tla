------------------------------ MODULE Induction ------------------------------
(***************************************************************************)
(* Facts about the naturals that the proofs of several components share.   *)
(* The induction theorems of the library quantify over an operator, which  *)
(* none of the provers can instantiate; here the property to be proved is  *)
(* a set, and a recursion step is a function.                              *)
(***************************************************************************)
EXTENDS Naturals, WellFoundedInduction, TLAPS

\* "Less than" on the naturals, as a set of pairs.
Before == {p \in Nat \X Nat : p[1] < p[2]}

\* Every non-empty set of naturals has a least element.
LEMMA LeastNatural ==
    ASSUME NEW S \in SUBSET Nat, S # {}
    PROVE  \E n \in S : \A m \in S : n <= m
<1>1. OpToRel(<, Nat) = Before
  BY DEF OpToRel, Before
<1>2. IsWellFoundedOn(Before, Nat)
  BY <1>1, NatLessThanWellFounded
<1>3. PICK n \in S : \A m \in S : <<m, n>> \notin Before
  BY <1>2, WFMin
<1>4. ASSUME NEW m \in S
      PROVE  n <= m
  <2>1. <<m, n>> \notin Before /\ m \in Nat /\ n \in Nat
    BY <1>3
  <2>2. ~ (m < n)
    BY <2>1 DEF Before
  <2>. QED  BY <2>1, <2>2
<1>. QED  BY <1>4

\* A set that contains 0 and is closed under successor contains every natural.
LEMMA NaturalInduction ==
    ASSUME NEW F, 0 \in F, \A n \in Nat : n \in F => n + 1 \in F
    PROVE  \A n \in Nat : n \in F
<1>. SUFFICES ASSUME NEW n \in Nat, n \notin F
              PROVE  FALSE
  OBVIOUS
<1>. DEFINE S == {k \in Nat : k \notin F}
<1>1. PICK k \in S : \A m \in S : k <= m
  <2>1. S \in SUBSET Nat /\ S # {}
    OBVIOUS
  <2>. HIDE DEF S
  <2>. QED  BY <2>1, LeastNatural
<1>2. k \in Nat /\ k # 0
  OBVIOUS
<1>3. k - 1 \in Nat /\ k - 1 \notin S
  BY <1>1, <1>2
<1>4. k - 1 \in F /\ (k - 1) + 1 = k
  BY <1>2, <1>3
<1>. QED  BY <1>3, <1>4

\* Every non-empty finite interval's subset has a greatest element.
LEMMA GreatestNatural ==
    ASSUME NEW n \in Nat, NEW S \in SUBSET (0..n), S # {}
    PROVE  \E k \in S : \A m \in S : m <= k
<1>. DEFINE T == {n - k : k \in S}
<1>1. PICK t \in T : \A u \in T : t <= u
  <2>1. \A k \in S : n - k \in Nat
    OBVIOUS
  <2>2. T \in SUBSET Nat /\ T # {}
    BY <2>1
  <2>. HIDE DEF T
  <2>. QED  BY <2>2, LeastNatural
<1>2. PICK k \in S : t = n - k
  OBVIOUS
<1>3. ASSUME NEW m \in S
      PROVE  m <= k
  <2>1. n - k <= n - m
    BY <1>1, <1>2
  <2>. QED  BY <2>1
<1>. QED  BY <1>3

\* A function on 0..n defined from its predecessor exists.
LEMMA RecursionExists ==
    ASSUME NEW T, NEW base \in T, NEW step \in [Nat -> [T -> T]], NEW n \in Nat
    PROVE  \E g \in [0..n -> T] :
              g = [i \in 0..n |-> IF i = 0 THEN base ELSE step[i][g[i - 1]]]
<1>. DEFINE IsRec(g, k) == g = [i \in 0..k |-> IF i = 0 THEN base ELSE step[i][g[i - 1]]]
            F == {k \in Nat : \E g \in [0..k -> T] : IsRec(g, k)}
<1>1. 0 \in F
  <2>. DEFINE g == [i \in 0..0 |-> base]
  <2>1. g \in [0..0 -> T]
    OBVIOUS
  <2>2. IsRec(g, 0)
    OBVIOUS
  <2>. QED  BY <2>1, <2>2
<1>2. ASSUME NEW k \in Nat, k \in F
      PROVE  k + 1 \in F
  <2>1. PICK g \in [0..k -> T] : IsRec(g, k)
    BY <1>2
  <2>. DEFINE h == [i \in 0..(k + 1) |-> IF i <= k THEN g[i] ELSE step[k + 1][g[k]]]
  <2>2. g[k] \in T /\ step[k + 1] \in [T -> T] /\ step[k + 1][g[k]] \in T
    <3>1. k \in 0..k /\ k + 1 \in Nat
      OBVIOUS
    <3>. HIDE DEF IsRec, F
    <3>. QED  BY <3>1
  <2>3. h \in [0..(k + 1) -> T]
    BY <2>2
  <2>4. ASSUME NEW i \in 0..(k + 1)
        PROVE  h[i] = IF i = 0 THEN base ELSE step[i][h[i - 1]]
    <3>1. CASE i = 0
      BY <2>1, <3>1
    <3>2. CASE i # 0 /\ i <= k
      <4>1. h[i] = g[i] /\ i - 1 \in 0..k /\ i \in 0..k /\ h[i - 1] = g[i - 1]
        BY <3>2
      <4>. QED  BY <4>1, <3>2, <2>1
    <3>3. CASE i = k + 1
      <4>1. i - 1 = k /\ h[k] = g[k] /\ i # 0
        BY <3>3
      <4>. QED  BY <4>1, <3>3
    <3>. QED  BY <3>1, <3>2, <3>3
  <2>5. IsRec(h, k + 1)
    <3>. HIDE DEF h
    <3>1. h = [i \in 0..(k + 1) |-> h[i]]
      BY <2>3
    <3>. QED  BY <2>4, <3>1
  <2>6. \E x \in [0..(k + 1) -> T] : IsRec(x, k + 1)
    <3>. HIDE DEF h, IsRec, F
    <3>. QED  BY <2>3, <2>5
  <2>. HIDE DEF h, IsRec
  <2>. QED  BY <2>6
<1>3. \A k \in Nat : k \in F
  <2>. HIDE DEF F
  <2>. QED  BY <1>1, <1>2, NaturalInduction
<1>. QED  BY <1>3

\* The rules of a recursion on 0..n: step[i] computes the value at i from the
\* whole function, but looks no further than below i.
RulesOn(T, n) == [0..n -> [[0..n -> T] -> T]]

LooksBelow(T, n, step) ==
    \A i \in 0..n : \A f, g \in [0..n -> T] :
        (\A j \in 0..(i - 1) : f[j] = g[j]) => step[i][f] = step[i][g]

Solves(T, n, step, g) ==
    g \in [0..n -> T] /\ \A i \in 0..n : g[i] = step[i][g]

\* Such a recursion has a solution.
LEMMA StrongRecursionExists ==
    ASSUME NEW T, NEW base \in T, NEW n \in Nat, NEW step \in RulesOn(T, n),
           LooksBelow(T, n, step)
    PROVE  \E g : Solves(T, n, step, g)
<1>a. step \in [0..n -> [[0..n -> T] -> T]]
  BY DEF RulesOn
<1>b. \A i \in 0..n : \A f, g \in [0..n -> T] :
          (\A j \in 0..(i - 1) : f[j] = g[j]) => step[i][f] = step[i][g]
  BY DEF LooksBelow
<1>. DEFINE Upto(g, k) == \A i \in 0..n : i < k => g[i] = step[i][g]
            F == {k \in Nat : k <= n + 1 => \E g \in [0..n -> T] : Upto(g, k)}
<1>1. 0 \in F
  <2>. DEFINE g == [i \in 0..n |-> base]
  <2>1. g \in [0..n -> T] /\ Upto(g, 0)
    OBVIOUS
  <2>. HIDE DEF g, Upto
  <2>. QED  BY <2>1
<1>2. ASSUME NEW k \in Nat, k \in F
      PROVE  k + 1 \in F
  <2>. SUFFICES ASSUME k + 1 <= n + 1
                PROVE  \E g \in [0..n -> T] : Upto(g, k + 1)
    OBVIOUS
  <2>1. PICK g \in [0..n -> T] : Upto(g, k)
    BY <1>2
  <2>. DEFINE h == [g EXCEPT ![k] = step[k][g]]
  <2>2. k \in 0..n /\ step[k][g] \in T
    BY <1>a
  <2>3. /\ h \in [0..n -> T] /\ h[k] = step[k][g]
        /\ \A i \in 0..n : i # k => h[i] = g[i]
    BY <2>2
  <2>. HIDE DEF h
  <2>4. ASSUME NEW i \in 0..n, i < k + 1
        PROVE  h[i] = step[i][h]
    <3>1. \A j \in 0..(i - 1) : g[j] = h[j]
      BY <2>3, <2>4
    <3>2. step[i][g] = step[i][h]
      BY <1>b, <2>3, <3>1
    <3>3. CASE i = k
      BY <2>3, <3>2, <3>3
    <3>4. CASE i # k
      BY <2>1, <2>3, <2>4, <3>2, <3>4
    <3>. QED  BY <3>3, <3>4
  <2>5. Upto(h, k + 1)
    BY <2>4
  <2>. HIDE DEF Upto
  <2>. QED  BY <2>3, <2>5
<1>3. \A k \in Nat : k \in F
  <2>. HIDE DEF F
  <2>. QED  BY <1>1, <1>2, NaturalInduction
<1>4. PICK g \in [0..n -> T] : Upto(g, n + 1)
  <2>1. n + 1 \in F
    <3>. HIDE DEF F
    <3>. QED  BY <1>3
  <2>. QED  BY <2>1
<1>5. \A i \in 0..n : g[i] = step[i][g]
  BY <1>4
<1>. QED  BY <1>5 DEF Solves

=============================================================================
