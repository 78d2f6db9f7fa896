-------------------------- MODULE Algorithms_proofs --------------------------
(***************************************************************************)
(* What is computed by functions of one case, for inputs of any size: the  *)
(* numbers of an evaluation, the profile of a document, retrieval, and the *)
(* chunks of a document.                                                   *)
(***************************************************************************)
EXTENDS EvalMetrics, ParseProfiles, Retrieval, Chunking, FiniteSetTheorems,
        SequenceTheorems, TLAPS

-----------------------------------------------------------------------------
(* Induction.  A statement about every natural number, or every subset of  *)
(* a finite set, is a set of which all of them are members.                *)

NatLess == {p \in Nat \X Nat : p[1] < p[2]}

LEMMA NatLessIsWellFounded == IsWellFoundedOn(NatLess, Nat)
BY NatLessThanWellFounded DEF OpToRel, NatLess

LEMMA LeastOf ==
  ASSUME NEW T \in SUBSET Nat, T # {}
  PROVE  \E x \in T : \A y \in T : x <= y
<1>1. PICK x \in T : \A y \in T : <<y, x>> \notin NatLess
  BY NatLessIsWellFounded, WFMin
<1>2. \A y \in T : ~ (y < x)
  BY <1>1 DEF NatLess
<1> QED
  BY <1>2

LEMMA NatInd ==
  ASSUME NEW T, 0 \in T, \A n \in Nat : n \in T => n + 1 \in T
  PROVE  Nat \subseteq T
<1>1. SUFFICES ASSUME Nat \ T # {} PROVE FALSE
  OBVIOUS
<1>2. PICK x \in Nat \ T : \A y \in Nat \ T : x <= y
  BY <1>1, LeastOf
<1>3. x # 0 /\ x - 1 \in Nat
  BY <1>2
<1>4. x - 1 \in T
  BY <1>2, <1>3
<1> QED
  BY <1>2, <1>3, <1>4

\* T has a subset of S if it has those with an element less.
Grows(S, T) == \A s \in SUBSET S : (\A x \in s : s \ {x} \in T) => s \in T

LEMMA SubsetInd ==
  ASSUME NEW S, IsFiniteSet(S), NEW T, Grows(S, T)
  PROVE  SUBSET S \subseteq T
<1> DEFINE Good == {n \in Nat : \A s \in SUBSET S : Cardinality(s) = n => s \in T}
<1>1. \A s \in SUBSET S : IsFiniteSet(s) /\ Cardinality(s) \in Nat
  BY FS_Subset, FS_CardinalityType
<1>2. 0 \in Good
  <2>1. \A s \in SUBSET S : Cardinality(s) = 0 => s = {}
    BY <1>1, FS_EmptySet
  <2>2. {} \in T
    BY DEF Grows
  <2> QED
    BY <2>1, <2>2
<1>3. ASSUME NEW n \in Nat, n \in Good PROVE n + 1 \in Good
  <2>1. ASSUME NEW s \in SUBSET S, Cardinality(s) = n + 1 PROVE s \in T
    <3>1. ASSUME NEW x \in s PROVE s \ {x} \in T
      <4>1. Cardinality(s \ {x}) = n + 1 - 1
        BY <1>1, <2>1, FS_RemoveElement
      <4>2. Cardinality(s \ {x}) = n
        BY <4>1
      <4> QED
        BY <1>3, <4>2
    <3> QED
      BY <3>1 DEF Grows
  <2> QED
    BY <2>1
<1> HIDE DEF Good
<1>4. Nat \subseteq Good
  BY <1>2, <1>3, NatInd
<1> QED
  BY <1>1, <1>4 DEF Good

\* A fold over a finite set, which takes the elements in the order pick says,
\* is well defined: there is the function that defines it by recursion.
Picks(pick, S) == \A s \in SUBSET S : s # {} => pick[s] \in s

Folds(h, S, base, step, pick) ==
  \A s \in SUBSET S :
    h[s] = IF s = {} THEN base ELSE step[<<pick[s], h[s \ {pick[s]}]>>]

LEMMA FoldExists ==
  ASSUME NEW S, IsFiniteSet(S), NEW Y, NEW base \in Y,
         NEW step \in [S \X Y -> Y], NEW pick, Picks(pick, S)
  PROVE  \E h \in [SUBSET S -> Y] : Folds(h, S, base, step, pick)
<1>0. \A s \in SUBSET S : s # {} => pick[s] \in s
  BY DEF Picks
<1> DEFINE Upto(n) == {s \in SUBSET S : Cardinality(s) <= n}
           Good == {n \in Nat : \E h \in [Upto(n) -> Y] :
                      \A s \in Upto(n) :
                        h[s] = IF s = {} THEN base
                               ELSE step[<<pick[s], h[s \ {pick[s]}]>>]}
<1>1. \A s \in SUBSET S : IsFiniteSet(s) /\ Cardinality(s) \in Nat
  BY FS_Subset, FS_CardinalityType
<1>2. 0 \in Good
  <2>1. \A s \in Upto(0) : s = {}
    BY <1>1, FS_EmptySet
  <2>2. [s \in Upto(0) |-> base] \in [Upto(0) -> Y]
    OBVIOUS
  <2> QED
    BY <2>1, <2>2
<1>3. ASSUME NEW n \in Nat, n \in Good PROVE n + 1 \in Good
  <2>1. PICK h \in [Upto(n) -> Y] :
          \A s \in Upto(n) :
            h[s] = IF s = {} THEN base
                   ELSE step[<<pick[s], h[s \ {pick[s]}]>>]
    BY <1>3
  <2> DEFINE g == [s \in Upto(n + 1) |->
                     IF s = {} THEN base
                     ELSE step[<<pick[s], h[s \ {pick[s]}]>>]]
  <2>2. \A s \in Upto(n + 1) : s # {} => s \ {pick[s]} \in Upto(n)
    BY <1>0, <1>1, FS_RemoveElement
  <2>3. \A s \in Upto(n) : s \in Upto(n + 1) /\ g[s] = h[s]
    BY <1>1, <2>1
  <2>4. g \in [Upto(n + 1) -> Y]
    BY <1>0, <2>2
  <2> HIDE DEF g
  <2>5. \A s \in Upto(n + 1) :
          g[s] = IF s = {} THEN base ELSE step[<<pick[s], g[s \ {pick[s]}]>>]
    BY <2>2, <2>3 DEF g
  <2>6. \E k \in [Upto(n + 1) -> Y] :
          \A s \in Upto(n + 1) :
            k[s] = IF s = {} THEN base ELSE step[<<pick[s], k[s \ {pick[s]}]>>]
    BY <2>4, <2>5
  <2>7. n + 1 \in Nat
    OBVIOUS
  <2> HIDE DEF Upto
  <2> QED
    BY <2>6, <2>7
<1> HIDE DEF Good
<1>4. Cardinality(S) \in Good
  BY <1>1, <1>2, <1>3, NatInd
<1>5. Upto(Cardinality(S)) = SUBSET S
  BY <1>1, FS_Subset
<1> QED
  BY <1>4, <1>5 DEF Good, Folds

\* The sum of a finite set does not depend on the order it is taken in.
Adds(h, w, S) ==
  \A s \in SUBSET S : s # {} => \E x \in s : h[s] = w[x] + h[s \ {x}]

AddsAny(h, w, S) == \A s \in SUBSET S : \A x \in s : h[s] = w[x] + h[s \ {x}]

LEMMA SumAnyOrder ==
  ASSUME NEW S, IsFiniteSet(S), NEW w \in [S -> Int],
         NEW h \in [SUBSET S -> Int], Adds(h, w, S)
  PROVE  AddsAny(h, w, S)
<1> DEFINE Good == {n \in Nat : \A s \in SUBSET S : Cardinality(s) = n =>
                                  \A x \in s : h[s] = w[x] + h[s \ {x}]}
<1>1. \A s \in SUBSET S : IsFiniteSet(s) /\ Cardinality(s) \in Nat
  BY FS_Subset, FS_CardinalityType
<1>2. 0 \in Good
  BY <1>1, FS_EmptySet
<1>3. ASSUME NEW n \in Nat, n \in Good PROVE n + 1 \in Good
  <2>1. ASSUME NEW s \in SUBSET S, Cardinality(s) = n + 1, NEW x \in s
        PROVE  h[s] = w[x] + h[s \ {x}]
    <3>1. PICK y \in s : h[s] = w[y] + h[s \ {y}]
      BY <2>1 DEF Adds
    <3>2. CASE x = y
      BY <3>1, <3>2
    <3>3. CASE x # y
      <4>0. IsFiniteSet(s)
        BY <1>1
      <4>a. Cardinality(s \ {x}) = Cardinality(s) - 1
        BY <4>0, FS_RemoveElement
      <4>b. Cardinality(s \ {y}) = Cardinality(s) - 1
        BY <4>0, <3>1, FS_RemoveElement
      <4>1. Cardinality(s \ {x}) = n /\ Cardinality(s \ {y}) = n
        BY <2>1, <4>a, <4>b
      <4>2. h[s \ {y}] = w[x] + h[(s \ {y}) \ {x}]
        BY <1>3, <3>3, <4>1
      <4>3. h[s \ {x}] = w[y] + h[(s \ {x}) \ {y}]
        BY <1>3, <3>3, <4>1
      <4>4. (s \ {y}) \ {x} = (s \ {x}) \ {y}
        OBVIOUS
      <4> DEFINE rest == h[(s \ {x}) \ {y}]
      <4>5. w[x] \in Int /\ w[y] \in Int /\ rest \in Int
        OBVIOUS
      <4>6. h[s] = w[y] + (w[x] + rest) /\ h[s \ {x}] = w[y] + rest
        BY <3>1, <4>2, <4>3, <4>4
      <4> HIDE DEF rest
      <4> QED
        BY <4>5, <4>6
    <3> QED
      BY <3>2, <3>3
  <2> QED
    BY <2>1
<1> HIDE DEF Good
<1>4. Nat \subseteq Good
  BY <1>2, <1>3, NatInd
<1> QED
  BY <1>1, <1>4 DEF Good, AddsAny

\* The function of a sum, and that it is the only one.
Sums(h, w, S) ==
  /\ h \in [SUBSET S -> Int] /\ h[{}] = 0
  /\ AddsAny(h, w, S)

LEMMA SumsFromOne ==
  ASSUME NEW S, IsFiniteSet(S), NEW w \in [S -> Int],
         NEW h, h = [s \in SUBSET S |-> h[s]], h[{}] = 0, Adds(h, w, S)
  PROVE  Sums(h, w, S)
<1> DEFINE T == {s \in SUBSET S : h[s] \in Int}
<1>1. ASSUME NEW s \in SUBSET S, \A x \in s : s \ {x} \in T PROVE s \in T
  <2>1. CASE s = {}
    BY <2>1
  <2>2. CASE s # {}
    <3>1. PICK x \in s : h[s] = w[x] + h[s \ {x}]
      BY <2>2 DEF Adds
    <3>2. w[x] \in Int /\ h[s \ {x}] \in Int
      BY <1>1
    <3> QED
      BY <3>1, <3>2
  <2> QED
    BY <2>1, <2>2
<1>2. Grows(S, T)
  BY <1>1 DEF Grows
<1> HIDE DEF T
<1>3. SUBSET S \subseteq T
  BY <1>2, SubsetInd
<1>4. h \in [SUBSET S -> Int]
  BY <1>3 DEF T
<1>5. AddsAny(h, w, S)
  BY <1>4, SumAnyOrder
<1> QED
  BY <1>4, <1>5 DEF Sums

LEMMA SumsAgree ==
  ASSUME NEW S, IsFiniteSet(S), NEW R \in SUBSET S,
         NEW w, NEW h, Sums(h, w, S), NEW v, NEW g, Sums(g, v, R),
         \A x \in R : w[x] = v[x]
  PROVE  h[R] = g[R]
<1>0. IsFiniteSet(R)
  BY FS_Subset
<1> DEFINE T == {s \in SUBSET R : h[s] = g[s]}
<1>1. ASSUME NEW s \in SUBSET R, \A x \in s : s \ {x} \in T PROVE s \in T
  <2>1. CASE s = {}
    BY <2>1 DEF Sums
  <2>2. CASE s # {}
    <3>1. PICK x \in s : TRUE
      BY <2>2
    <3>2. h[s] = w[x] + h[s \ {x}] /\ g[s] = v[x] + g[s \ {x}]
      BY DEF Sums, AddsAny
    <3> QED
      BY <1>1, <3>2
  <2> QED
    BY <2>1, <2>2
<1>2. Grows(R, T)
  BY <1>1 DEF Grows
<1> HIDE DEF T
<1>3. R \in T
  BY <1>0, <1>2, SubsetInd
<1> QED
  BY <1>3 DEF T

\* The recursive definition of a sum has a solution, whatever picks the elements.
FoldsSum(h, S, w, pick) ==
  \A s \in SUBSET S :
    h[s] = IF s = {} THEN 0 ELSE w[pick[s]] + h[s \ {pick[s]}]

LEMMA SumExists ==
  ASSUME NEW S, IsFiniteSet(S), NEW w \in [S -> Int], NEW pick, Picks(pick, S)
  PROVE  \E h \in [SUBSET S -> Int] : FoldsSum(h, S, w, pick)
<1> DEFINE step == [p \in S \X Int |-> w[p[1]] + p[2]]
<1>1. step \in [S \X Int -> Int]
  OBVIOUS
<1>2. \A x \in S, n \in Int : step[<<x, n>>] = w[x] + n
  OBVIOUS
<1> HIDE DEF step
<1>3. 0 \in Int
  OBVIOUS
<1>4. PICK h \in [SUBSET S -> Int] : Folds(h, S, 0, step, pick)
  BY <1>1, <1>3, FoldExists
<1>5. ASSUME NEW s \in SUBSET S
      PROVE  h[s] = IF s = {} THEN 0 ELSE w[pick[s]] + h[s \ {pick[s]}]
  <2>1. s # {} => pick[s] \in S /\ s \ {pick[s]} \in SUBSET S
    BY DEF Picks
  <2>2. h[s] = IF s = {} THEN 0 ELSE step[<<pick[s], h[s \ {pick[s]}]>>]
    BY <1>4 DEF Folds
  <2> QED
    BY <1>2, <2>1, <2>2
<1> QED
  BY <1>5 DEF FoldsSum

-----------------------------------------------------------------------------
(* The gain of a ranking.                                                  *)

Ranks == 1 .. Len(Discounts)

LEMMA DiscountType ==
  /\ IsFiniteSet(Ranks)
  /\ \A i \in Ranks : Discounts[i] \in Nat \ {0}
  /\ \A i, j \in Ranks : i <= j => Discounts[j] <= Discounts[i]
<1>1. Len(Discounts) \in Nat /\ \A i \in Ranks : Discounts[i] \in Nat \ {0}
  BY EvalMetricsAssumption DEF Ranks
<1>2. \A i, j \in Ranks : i < j => Discounts[i] > Discounts[j]
  BY EvalMetricsAssumption DEF Ranks
<1>3. \A i, j \in Ranks : i <= j => Discounts[j] <= Discounts[i]
  <2> SUFFICES ASSUME NEW i \in Ranks, NEW j \in Ranks, i <= j
               PROVE  Discounts[j] <= Discounts[i]
    OBVIOUS
  <2>1. i \in Nat /\ j \in Nat /\ (i = j \/ i < j)
    BY <1>1 DEF Ranks
  <2> QED
    BY <1>1, <1>2, <2>1
<1>4. IsFiniteSet(Ranks)
  BY <1>1, FS_Interval DEF Ranks
<1> QED
  BY <1>1, <1>3, <1>4

\* GainOf is a sum by recursion.
LEMMA GainFold ==
  ASSUME NEW S \in SUBSET Ranks
  PROVE  \E h \in [SUBSET S -> Int] :
           /\ GainOf(S) = h[S] /\ h[{}] = 0
           /\ \A s \in SUBSET S : s # {} =>
                \E x \in s : h[s] = Discounts[x] + h[s \ {x}]
<1>0. IsFiniteSet(S) /\ \A i \in S : Discounts[i] \in Int
  BY DiscountType, FS_Subset
<1> DEFINE pick == [s \in SUBSET S |-> CHOOSE x \in s : TRUE]
           step == [p \in S \X Int |-> Discounts[p[1]] + p[2]]
           Eq(g) == g = [s \in SUBSET S |->
                           IF s = {} THEN 0
                           ELSE Discounts[CHOOSE x \in s : TRUE]
                                  + g[s \ {CHOOSE x \in s : TRUE}]]
<1>1. \A s \in SUBSET S : s # {} => pick[s] \in s
  OBVIOUS
<1>2. step \in [S \X Int -> Int]
  BY <1>0
<1>a. 0 \in Int /\ IsFiniteSet(S)
  BY <1>0
<1> HIDE DEF step, Eq
<1>3. \E h \in [SUBSET S -> Int] : Folds(h, S, 0, step, pick)
  <2>1. Picks(pick, S)
    BY <1>1 DEF Picks
  <2> HIDE DEF pick
  <2> QED
    BY <1>a, <2>1, <1>2, FoldExists
<1>b. PICK h \in [SUBSET S -> Int] : Folds(h, S, 0, step, pick)
  BY <1>3
<1>4. Eq(h)
  <2>1. ASSUME NEW s \in SUBSET S, s # {}
        PROVE  h[s] = Discounts[CHOOSE x \in s : TRUE]
                        + h[s \ {CHOOSE x \in s : TRUE}]
    <3>1. pick[s] \in S /\ s \ {pick[s]} \in SUBSET S
      BY <1>1, <2>1
    <3> QED
      BY <1>b, <2>1, <3>1 DEF step, Folds
  <2>2. h[{}] = 0
    BY <1>b DEF Folds
  <2> QED
    BY <2>1, <2>2 DEF Eq
<1> DEFINE iter == CHOOSE g : Eq(g)
<1>5. Eq(iter)
  BY <1>4
<1>6. GainOf(S) = iter[S]
  BY DEF Eq, GainOf, Discount, MapThenSumSet, MapThenFoldSet
<1> HIDE DEF iter
<1>7. /\ iter[{}] = 0
      /\ \A s \in SUBSET S : s # {} =>
           \E x \in s : iter[s] = Discounts[x] + iter[s \ {x}]
  BY <1>5 DEF Eq
<1> DEFINE T == {s \in SUBSET S : iter[s] \in Int}
<1>8. SUBSET S \subseteq T
  <2>1. ASSUME NEW s \in SUBSET S, \A x \in s : s \ {x} \in T PROVE s \in T
    <3>1. CASE s = {}
      BY <1>7, <3>1
    <3>2. CASE s # {}
      <4>1. PICK x \in s : iter[s] = Discounts[x] + iter[s \ {x}]
        BY <1>7, <3>2
      <4> QED
        BY <1>0, <2>1, <4>1
    <3> QED
      BY <3>1, <3>2
  <2>2. Grows(S, T)
    BY <2>1 DEF Grows
  <2> HIDE DEF T
  <2> QED
    BY <1>a, <2>2, SubsetInd
<1>9. iter \in [SUBSET S -> Int]
  BY <1>5, <1>8 DEF Eq
<1> QED
  BY <1>6, <1>7, <1>9

LEMMA GainSums ==
  ASSUME NEW S \in SUBSET Ranks
  PROVE  \E h : Sums(h, Discounts, S) /\ GainOf(S) = h[S]
<1>0. IsFiniteSet(S) /\ \A i \in S : Discounts[i] \in Int
  BY DiscountType, FS_Subset
<1>1. PICK h \in [SUBSET S -> Int] :
        /\ GainOf(S) = h[S] /\ h[{}] = 0
        /\ \A s \in SUBSET S : s # {} =>
             \E x \in s : h[s] = Discounts[x] + h[s \ {x}]
  BY GainFold
<1> DEFINE w == [i \in S |-> Discounts[i]]
<1>2. w \in [S -> Int] /\ \A i \in S : w[i] = Discounts[i]
  BY <1>0
<1> HIDE DEF w
<1>3. Adds(h, w, S)
  BY <1>1, <1>2 DEF Adds
<1>4. AddsAny(h, w, S)
  BY <1>0, <1>2, <1>3, SumAnyOrder
<1> QED
  BY <1>1, <1>2, <1>4 DEF Sums, AddsAny

\* The gain of no ranks is nothing, and each rank adds its discount.
LEMMA GainLaw ==
  /\ GainOf({}) = 0
  /\ \A S \in SUBSET Ranks : GainOf(S) \in Nat
  /\ \A S \in SUBSET Ranks : \A x \in S :
       GainOf(S) = Discounts[x] + GainOf(S \ {x})
<1>1. GainOf({}) = 0
  <2>1. PICK h : Sums(h, Discounts, {}) /\ GainOf({}) = h[{}]
    BY GainSums
  <2> QED
    BY <2>1 DEF Sums
<1>2. ASSUME NEW S \in SUBSET Ranks, NEW x \in S
      PROVE  GainOf(S) = Discounts[x] + GainOf(S \ {x})
  <2>1. PICK h : Sums(h, Discounts, S) /\ GainOf(S) = h[S]
    BY GainSums
  <2>2. PICK g : Sums(g, Discounts, S \ {x}) /\ GainOf(S \ {x}) = g[S \ {x}]
    BY GainSums
  <2>3. h[S \ {x}] = g[S \ {x}]
    <3>1. IsFiniteSet(S)
      BY DiscountType, FS_Subset
    <3> QED
      BY <2>1, <2>2, <3>1, SumsAgree
  <2> QED
    BY <2>1, <2>2, <2>3 DEF Sums, AddsAny
<1>3. ASSUME NEW S \in SUBSET Ranks PROVE GainOf(S) \in Nat
  <2> DEFINE T == {s \in SUBSET Ranks : GainOf(s) \in Nat}
  <2>1. ASSUME NEW s \in SUBSET Ranks, \A x \in s : s \ {x} \in T PROVE s \in T
    <3>1. CASE s = {}
      BY <1>1, <3>1
    <3>2. CASE s # {}
      <4>1. PICK x \in s : TRUE
        BY <3>2
      <4>2. GainOf(s) = Discounts[x] + GainOf(s \ {x}) /\ GainOf(s \ {x}) \in Nat
        BY <1>2, <2>1
      <4>3. Discounts[x] \in Nat
        BY DiscountType
      <4> QED
        BY <4>2, <4>3
    <3> QED
      BY <3>1, <3>2
  <2>2. Grows(Ranks, T)
    BY <2>1 DEF Grows
  <2> HIDE DEF T
  <2>3. S \in T
    BY DiscountType, <2>2, SubsetInd
  <2> QED
    BY <2>3 DEF T
<1> QED
  BY <1>1, <1>2, <1>3

\* More hits gain no less.
LEMMA GainMono ==
  ASSUME NEW S \in SUBSET Ranks, NEW R \in SUBSET S
  PROVE  GainOf(R) <= GainOf(S)
<1> DEFINE T == {s \in SUBSET Ranks : \A r \in SUBSET s : GainOf(r) <= GainOf(s)}
<1>1. ASSUME NEW s \in SUBSET Ranks, \A x \in s : s \ {x} \in T PROVE s \in T
  <2> SUFFICES ASSUME NEW r \in SUBSET s PROVE GainOf(r) <= GainOf(s)
    OBVIOUS
  <2>1. CASE r = s
    BY <2>1, GainLaw
  <2>2. CASE r # s
    <3>1. PICK x \in s : x \notin r
      BY <2>2
    <3>2. GainOf(r) <= GainOf(s \ {x})
      BY <1>1, <3>1
    <3>3. GainOf(s) = Discounts[x] + GainOf(s \ {x})
      BY GainLaw
    <3>4. Discounts[x] \in Nat /\ GainOf(r) \in Nat /\ GainOf(s \ {x}) \in Nat
      BY DiscountType, GainLaw
    <3> QED
      BY <3>2, <3>3, <3>4
  <2> QED
    BY <2>1, <2>2
<1>2. Grows(Ranks, T)
  BY <1>1 DEF Grows
<1> HIDE DEF T
<1>3. S \in T
  BY DiscountType, <1>2, SubsetInd
<1> QED
  BY <1>3 DEF T

\* No set of hits gains more than as many hits at the top.
LEMMA GainIdeal ==
  ASSUME NEW S \in SUBSET Ranks
  PROVE  GainOf(S) <= GainOf(1 .. Cardinality(S))
<1>0. \A s \in SUBSET Ranks : IsFiniteSet(s) /\ Cardinality(s) \in Nat
  BY DiscountType, FS_Subset, FS_CardinalityType
<1>00. Len(Discounts) \in Nat
  BY EvalMetricsAssumption
<1> DEFINE T == {s \in SUBSET Ranks : GainOf(s) <= GainOf(1 .. Cardinality(s))}
<1>1. ASSUME NEW s \in SUBSET Ranks, \A x \in s : s \ {x} \in T PROVE s \in T
  <2>1. CASE s = {}
    <3>1. Cardinality(s) = 0
      BY <2>1, FS_EmptySet
    <3>2. 1 .. 0 = {}
      OBVIOUS
    <3> QED
      BY <2>1, <3>1, <3>2, GainLaw
  <2>2. CASE s # {}
    <3> DEFINE n == Cardinality(s)
    <3>1. n \in Nat /\ n # 0
      BY <1>0, <2>2, FS_EmptySet
    <3>2. n - 1 \in Nat
      BY <3>1
    <3>3. PICK m \in s : m >= n
      <4>1. SUFFICES ASSUME \A m \in s : ~ (m >= n) PROVE FALSE
        OBVIOUS
      <4>2. s \subseteq 1 .. (n - 1)
        BY <3>1, <4>1 DEF Ranks
      <4>3. IsFiniteSet(1 .. (n - 1)) /\ Cardinality(1 .. (n - 1)) = n - 1
        BY <3>2, FS_Interval
      <4>4. Cardinality(s) <= Cardinality(1 .. (n - 1))
        BY <4>2, <4>3, FS_Subset
      <4> QED
        BY <3>1, <4>3, <4>4
    <3>4. n \in Ranks /\ m \in Ranks /\ 1 .. n \subseteq Ranks
      BY <1>00, <3>1, <3>3 DEF Ranks
    <3>5. Cardinality(s \ {m}) = n - 1
      BY <1>0, <3>3, FS_RemoveElement
    <3>6. GainOf(s \ {m}) <= GainOf(1 .. (n - 1))
      BY <1>1, <3>5
    <3>7. (1 .. n) \ {n} = 1 .. (n - 1) /\ n \in 1 .. n
      BY <3>1
    <3> HIDE DEF n
    <3>8. GainOf(1 .. n) = Discounts[n] + GainOf(1 .. (n - 1))
      BY <3>4, <3>7, GainLaw
    <3>9. GainOf(s) = Discounts[m] + GainOf(s \ {m})
      BY GainLaw
    <3>10. Discounts[m] <= Discounts[n]
      BY <3>3, <3>4, DiscountType
    <3>11. 1 .. (n - 1) \in SUBSET Ranks /\ s \ {m} \in SUBSET Ranks
      BY <3>4, <3>7
    <3>12. /\ Discounts[m] \in Nat /\ Discounts[n] \in Nat
           /\ GainOf(1 .. (n - 1)) \in Nat /\ GainOf(s \ {m}) \in Nat
      BY <3>4, <3>11, DiscountType, GainLaw
    <3>13. GainOf(s) <= GainOf(1 .. n)
      BY <3>6, <3>8, <3>9, <3>10, <3>12
    <3> QED
      BY <3>13 DEF n
  <2> QED
    BY <2>1, <2>2
<1>2. Grows(Ranks, T)
  BY <1>1 DEF Grows
<1> HIDE DEF T
<1>3. S \in T
  BY DiscountType, <1>2, SubsetInd
<1> QED
  BY <1>3 DEF T

-----------------------------------------------------------------------------
(* The metrics of one ranking.                                             *)

RankType ==
  scoring.kind = "rank" =>
    /\ scoring.ids \in Lists
    /\ scoring.wanted \in SUBSET Rankable \ {{}}
    /\ scoring.runs \in [RecallChannels -> SUBSET Rankable]

LEMMA ListType ==
  ASSUME NEW ids \in Lists
  PROVE  /\ Len(ids) \in Nat /\ 1 .. Len(ids) \subseteq Ranks
         /\ ids \in [1 .. Len(ids) -> Rankable]
         /\ \A i, j \in 1 .. Len(ids) : ids[i] = ids[j] => i = j
         /\ ToSet(ids) \subseteq Rankable
<1>0. Cardinality(Rankable) \in Nat /\ Len(Discounts) \in Nat
      /\ Cardinality(Rankable) <= Len(Discounts)
  BY EvalMetricsAssumption, FS_CardinalityType
<1>1. PICK n \in 0 .. Cardinality(Rankable) : ids \in [1 .. n -> Rankable]
  BY DEF Lists
<1>2. n \in Nat /\ n <= Cardinality(Rankable)
  BY <1>0, <1>1
<1>3. Len(ids) = n /\ DOMAIN ids = 1 .. n
  BY <1>1, <1>2, LenProperties, SeqDef
<1>4. IsInjective(ids)
  BY DEF Lists
<1>5. \A i, j \in 1 .. n : ids[i] = ids[j] => i = j
  BY <1>3, <1>4 DEF IsInjective
<1>6. 1 .. n \subseteq Ranks
  BY <1>0, <1>2 DEF Ranks
<1>7. ToSet(ids) \subseteq Rankable
  BY <1>1, <1>3 DEF ToSet
<1> QED
  BY <1>1, <1>2, <1>3, <1>5, <1>6, <1>7

\* The hits are at most as many as the ids expected.
LEMMA HitsBounded ==
  ASSUME NEW ids \in Lists, NEW wanted \in SUBSET Rankable
  PROVE  LET hits == Relevant(ids, wanted)
         IN /\ hits \in SUBSET Ranks /\ IsFiniteSet(wanted) /\ IsFiniteSet(hits)
            /\ Cardinality(hits) \in Nat /\ Cardinality(wanted) \in Nat
            /\ Cardinality(hits) <= Cardinality(wanted)
            /\ Cardinality(hits) <= Len(ids)
            /\ Cardinality(wanted) <= Len(Discounts)
<1> DEFINE hits == Relevant(ids, wanted)
<1>1. hits \subseteq 1 .. Len(ids) /\ hits \in SUBSET Ranks
  BY ListType DEF Relevant
<1>2. IsFiniteSet(hits) /\ IsFiniteSet(wanted)
  BY <1>1, DiscountType, FS_Subset, EvalMetricsAssumption
<1>3. Cardinality(hits) \in Nat /\ Cardinality(wanted) \in Nat
  BY <1>2, FS_CardinalityType
<1> DEFINE at == [i \in hits |-> ids[i]]
<1>4. at \in [hits -> wanted]
  BY <1>1 DEF Relevant
<1>5. \A i, j \in hits : at[i] = at[j] => i = j
  BY <1>1, ListType
<1>6. at \in Injection(hits, wanted)
  BY <1>4, <1>5 DEF Injection, IsInjective
<1> HIDE DEF at
<1>7. Cardinality(hits) <= Cardinality(wanted)
  BY <1>2, <1>6, FS_Injection
<1>8. IsFiniteSet(1 .. Len(ids)) /\ Cardinality(1 .. Len(ids)) = Len(ids)
  <2>1. 1 \in Int /\ Len(ids) \in Int /\ Len(ids) \in Nat
    BY ListType
  <2>2. IsFiniteSet(1 .. Len(ids)) /\ Cardinality(1 .. Len(ids))
          = IF 1 > Len(ids) THEN 0 ELSE Len(ids) - 1 + 1
    BY <2>1, FS_Interval
  <2> QED
    BY <2>1, <2>2
<1>9. Cardinality(hits) <= Len(ids)
  BY <1>1, <1>8, FS_Subset
<1>10. Cardinality(wanted) <= Len(Discounts)
  <2>1. Cardinality(wanted) <= Cardinality(Rankable) /\ Cardinality(Rankable) \in Nat
    BY EvalMetricsAssumption, FS_Subset, FS_CardinalityType
  <2> QED
    BY <1>3, <2>1, EvalMetricsAssumption
<1> QED
  BY <1>1, <1>2, <1>3, <1>7, <1>9, <1>10

LEMMA MulMono ==
  ASSUME NEW a \in Nat, NEW b \in Nat, NEW c \in Nat, a <= b
  PROVE  a * c <= b * c /\ c * a <= c * b
OBVIOUS

LEMMA MeanInUnit ==
  ASSUME NEW a \in Nat \X Nat, NEW b \in Nat \X Nat, InUnit(a), InUnit(b)
  PROVE  InUnit(MeanOf(a, b))
<1> DEFINE x == a[1] y == a[2] u == b[1] v == b[2]
<1>1. x \in Nat /\ y \in Nat /\ u \in Nat /\ v \in Nat /\ x <= y /\ u <= v
  BY DEF InUnit
<1> HIDE DEF x, y, u, v
<1>2. x * v <= y * v /\ u * y <= v * y
  BY <1>1, MulMono
<1>3. x * v \in Nat /\ y * v \in Nat /\ u * y \in Nat /\ v * y \in Nat /\ v * y = y * v
  BY <1>1
<1>4. 2 * y * v = y * v + y * v
  BY <1>1
<1>5. 0 <= x * v + u * y /\ x * v + u * y <= 2 * y * v
  BY <1>2, <1>3, <1>4
<1> QED
  BY <1>5 DEF InUnit, MeanOf, x, y, u, v

\* The first of a set of ranks is its least.
LEMMA FirstIsLeast ==
  ASSUME NEW R \in SUBSET Ranks, R # {}
  PROVE  FirstHit(R) \in R /\ \A j \in R : FirstHit(R) <= j
<1>1. R \in SUBSET Nat
  BY EvalMetricsAssumption DEF Ranks
<1>2. \E i \in R : \A j \in R : i <= j
  BY <1>1, LeastOf
<1> QED
  BY <1>2 DEF FirstHit

LEMMA IdealBound ==
  ASSUME NEW ids \in Lists, NEW wanted \in SUBSET Rankable
  PROVE  /\ IdealCount(ids, wanted) \in Nat
         /\ 1 .. IdealCount(ids, wanted) \subseteq Ranks
         /\ Cardinality(Relevant(ids, wanted)) <= IdealCount(ids, wanted)
<1> DEFINE c == Cardinality(wanted) l == Len(ids) n == IdealCount(ids, wanted)
           h == Cardinality(Relevant(ids, wanted))
<1>1. /\ c \in Nat /\ l \in Nat /\ h \in Nat /\ h <= c /\ h <= l
      /\ c <= Len(Discounts) /\ Len(Discounts) \in Nat
  BY HitsBounded, ListType, EvalMetricsAssumption
<1>2. n = Min({c, l})
  BY DEF IdealCount
<1> HIDE DEF c, l, n, h
<1>3. \E x \in {c, l} : \A y \in {c, l} : x <= y
  BY <1>1
<1>4. n \in {c, l} /\ n <= c /\ n <= l
  BY <1>2, <1>3 DEF Min
<1>5. n \in Nat /\ h <= n /\ 1 .. n \subseteq Ranks
  BY <1>1, <1>4 DEF Ranks
<1> QED
  BY <1>5 DEF n, h

LEMMA MetricsBounded ==
  ASSUME NEW ids \in Lists, NEW wanted \in SUBSET Rankable
  PROVE  LET m == RankingMetrics(ids, wanted)
         IN /\ m.recall \in Nat \X Nat /\ InUnit(m.recall)
            /\ m.mrr \in Nat \X Nat /\ InUnit(m.mrr)
            /\ m.ndcg \in Nat \X Nat /\ InUnit(m.ndcg)
<1> DEFINE hits == Relevant(ids, wanted)
           n == IdealCount(ids, wanted)
           ideal == GainOf(1 .. n)
           m == RankingMetrics(ids, wanted)
<1>1. /\ hits \in SUBSET Ranks /\ Cardinality(hits) \in Nat
      /\ Cardinality(wanted) \in Nat /\ Cardinality(hits) <= Cardinality(wanted)
  BY HitsBounded
<1>2. n \in Nat /\ 1 .. n \in SUBSET Ranks /\ Cardinality(hits) <= n
  BY IdealBound
<1>3. GainOf(hits) \in Nat /\ ideal \in Nat
  BY <1>1, <1>2, GainLaw
<1>4. GainOf(hits) <= ideal
  <2>1. GainOf(hits) <= GainOf(1 .. Cardinality(hits))
    BY <1>1, GainIdeal
  <2>2. 1 .. Cardinality(hits) \subseteq 1 .. n
    BY <1>1, <1>2
  <2>3. GainOf(1 .. Cardinality(hits)) <= ideal
    BY <1>2, <2>2, GainMono
  <2>4. GainOf(1 .. Cardinality(hits)) \in Nat
    BY <1>2, <2>2, GainLaw
  <2> QED
    BY <1>3, <2>1, <2>3, <2>4
<1>5. hits # {} => FirstHit(hits) \in Nat /\ 1 <= FirstHit(hits)
  <2>1. hits # {} => FirstHit(hits) \in hits
    BY <1>1, FirstIsLeast
  <2>2. \A i \in Ranks : i \in Nat /\ 1 <= i
    BY EvalMetricsAssumption DEF Ranks
  <2> QED
    BY <1>1, <2>1, <2>2
<1>6. /\ m.recall = <<Cardinality(hits), Cardinality(wanted)>>
      /\ m.mrr = IF hits = {} THEN <<0, 1>> ELSE <<1, FirstHit(hits)>>
      /\ m.ndcg = IF ideal = 0 THEN <<0, 1>> ELSE <<GainOf(hits), ideal>>
  BY DEF RankingMetrics
<1> HIDE DEF hits, ideal, m
<1>7. m.recall \in Nat \X Nat /\ InUnit(m.recall)
  BY <1>1, <1>6 DEF InUnit
<1>8. m.mrr \in Nat \X Nat /\ InUnit(m.mrr)
  BY <1>5, <1>6 DEF InUnit
<1>9. m.ndcg \in Nat \X Nat /\ InUnit(m.ndcg)
  BY <1>3, <1>4, <1>6 DEF InUnit
<1> QED
  BY <1>7, <1>8, <1>9 DEF m

\* A question's shares, alone or with one that expects nothing.
LEMMA SharesBounded ==
  ASSUME NEW ids \in Lists, NEW wanted \in SUBSET Rankable,
         NEW runs \in [RecallChannels -> SUBSET Rankable], NEW c \in RecallChannels
  PROVE  LET a == ChannelAttribution(runs, ids, wanted)
             b == ChannelAttribution(runs, Reverse(ids), {})
         IN /\ a.hits[c] <= a.found[c]
            /\ InUnit(HitShare(a, b, c)) /\ InUnit(RawRecall(a, b, c))
<1> DEFINE a == ChannelAttribution(runs, ids, wanted)
           b == ChannelAttribution(runs, Reverse(ids), {})
           final == wanted \cap ToSet(ids)
<1>1. /\ a.hits[c] = Cardinality(final \cap runs[c])
      /\ a.found[c] = Cardinality(wanted \cap runs[c])
      /\ a.hits_total = Cardinality(final) /\ a.wanted_total = Cardinality(wanted)
  BY DEF ChannelAttribution
<1>2. /\ b.hits[c] = Cardinality({}) /\ b.found[c] = Cardinality({})
      /\ b.hits_total = Cardinality({}) /\ b.wanted_total = Cardinality({})
  <2>1. {} \cap ToSet(Reverse(ids)) = {} /\ {} \cap runs[c] = {}
    OBVIOUS
  <2> QED
    BY <2>1 DEF ChannelAttribution
<1>3. Cardinality({}) = 0
  BY FS_EmptySet
<1>4. \A s \in SUBSET Rankable : IsFiniteSet(s) /\ Cardinality(s) \in Nat
  BY EvalMetricsAssumption, FS_Subset, FS_CardinalityType
<1>5. /\ final \in SUBSET Rankable /\ final \cap runs[c] \in SUBSET Rankable
      /\ wanted \cap runs[c] \in SUBSET Rankable
  OBVIOUS
<1>6. /\ Cardinality(final \cap runs[c]) <= Cardinality(wanted \cap runs[c])
      /\ Cardinality(final \cap runs[c]) <= Cardinality(final)
      /\ Cardinality(wanted \cap runs[c]) <= Cardinality(wanted)
  <2>1. final \cap runs[c] \subseteq wanted \cap runs[c]
    OBVIOUS
  <2>2. final \cap runs[c] \subseteq final /\ wanted \cap runs[c] \subseteq wanted
    OBVIOUS
  <2> HIDE DEF final
  <2>3. Cardinality(final \cap runs[c]) <= Cardinality(wanted \cap runs[c])
    BY <1>4, <1>5, <2>1, FS_Subset
  <2>4. Cardinality(final \cap runs[c]) <= Cardinality(final)
    BY <1>4, <1>5, <2>2, FS_Subset
  <2>5. Cardinality(wanted \cap runs[c]) <= Cardinality(wanted)
    BY <1>4, <2>2, FS_Subset
  <2> QED
    BY <2>3, <2>4, <2>5
<1>7. /\ a.hits[c] \in Nat /\ a.found[c] \in Nat
      /\ a.hits_total \in Nat /\ a.wanted_total \in Nat
  BY <1>1, <1>4, <1>5
<1>8. /\ a.hits[c] <= a.found[c] /\ a.hits[c] <= a.hits_total
      /\ a.found[c] <= a.wanted_total
  BY <1>1, <1>6
<1> HIDE DEF a, b
<1>9. InUnit(HitShare(a, b, c)) /\ InUnit(RawRecall(a, b, c))
  BY <1>2, <1>3, <1>7, <1>8 DEF InUnit, HitShare, RawRecall
<1> QED
  BY <1>8, <1>9 DEF a, b

\* A hit that changes places with what is above it, and nothing else does.
Raised(ids, i) == [ids EXCEPT ![i] = ids[i + 1], ![i + 1] = ids[i]]

LEMMA SwapHits ==
  ASSUME NEW ids \in Lists, NEW wanted \in SUBSET Rankable,
         NEW i \in 1 .. Len(ids) - 1, ids[i] \notin wanted, ids[i + 1] \in wanted
  PROVE  LET hits == Relevant(ids, wanted)
         IN /\ i \in Ranks /\ i + 1 \in Ranks /\ i \notin hits /\ i + 1 \in hits
            /\ Relevant(Raised(ids, i), wanted) = (hits \ {i + 1}) \cup {i}
            /\ IdealCount(Raised(ids, i), wanted) = IdealCount(ids, wanted)
<1> DEFINE n == Len(ids) up == Raised(ids, i)
<1>1. /\ n \in Nat /\ 1 .. n \subseteq Ranks /\ ids \in [1 .. n -> Rankable]
  BY ListType
<1>2. i \in Int /\ i \in 1 .. n /\ i + 1 \in 1 .. n /\ i # i + 1
  BY <1>1
<1>3. up \in [1 .. n -> Rankable]
  BY <1>1, <1>2 DEF Raised
<1>4. Len(up) = n
  BY <1>1, <1>3, LenProperties, SeqDef
<1>5. /\ up[i] = ids[i + 1] /\ up[i + 1] = ids[i]
      /\ \A j \in 1 .. n : j # i /\ j # i + 1 => up[j] = ids[j]
  BY <1>1, <1>2 DEF Raised
<1> HIDE DEF n, up
<1>6. Relevant(up, wanted) = {j \in 1 .. n : up[j] \in wanted}
  BY <1>4 DEF Relevant
<1>7. Relevant(ids, wanted) = {j \in 1 .. n : ids[j] \in wanted}
  BY DEF Relevant, n
<1>8. Relevant(up, wanted) = (Relevant(ids, wanted) \ {i + 1}) \cup {i}
  BY <1>2, <1>5, <1>6, <1>7
<1>9. IdealCount(up, wanted) = IdealCount(ids, wanted)
  BY <1>4 DEF IdealCount, n
<1> QED
  BY <1>1, <1>2, <1>7, <1>8, <1>9 DEF up

LEMMA RaisedHitScores ==
  ASSUME NEW ids \in Lists, NEW wanted \in SUBSET Rankable,
         NEW i \in 1 .. Len(ids) - 1, ids[i] \notin wanted, ids[i + 1] \in wanted
  PROVE  LET m == RankingMetrics(ids, wanted)
             n == RankingMetrics(Raised(ids, i), wanted)
         IN Leq(m.recall, n.recall) /\ Leq(m.mrr, n.mrr) /\ Leq(m.ndcg, n.ndcg)
<1> DEFINE old == Relevant(ids, wanted)
           up == Raised(ids, i)
           new == Relevant(up, wanted)
           ideal == GainOf(1 .. IdealCount(ids, wanted))
           m == RankingMetrics(ids, wanted)
           n == RankingMetrics(up, wanted)
<1>1. /\ old \in SUBSET Ranks /\ IsFiniteSet(old)
      /\ Cardinality(old) \in Nat /\ Cardinality(wanted) \in Nat
  BY HitsBounded
<1>2. /\ i \in Ranks /\ i + 1 \in Ranks /\ i \notin old /\ i + 1 \in old
      /\ new = (old \ {i + 1}) \cup {i} /\ new \in SUBSET Ranks
      /\ IdealCount(up, wanted) = IdealCount(ids, wanted)
  <2>1. /\ i \in Ranks /\ i + 1 \in Ranks /\ i \notin old /\ i + 1 \in old
        /\ new = (old \ {i + 1}) \cup {i}
        /\ IdealCount(up, wanted) = IdealCount(ids, wanted)
    BY SwapHits
  <2> HIDE DEF old, new
  <2> QED
    BY <1>1, <2>1
<1>0. \A j \in Ranks : j \in Nat
  BY EvalMetricsAssumption DEF Ranks
<1>3. ideal \in Nat
  BY IdealBound, GainLaw
<1>4. /\ m.recall = <<Cardinality(old), Cardinality(wanted)>>
      /\ m.mrr = IF old = {} THEN <<0, 1>> ELSE <<1, FirstHit(old)>>
      /\ m.ndcg = IF ideal = 0 THEN <<0, 1>> ELSE <<GainOf(old), ideal>>
  BY DEF RankingMetrics
<1>5. /\ n.recall = <<Cardinality(new), Cardinality(wanted)>>
      /\ n.mrr = IF new = {} THEN <<0, 1>> ELSE <<1, FirstHit(new)>>
      /\ n.ndcg = IF ideal = 0 THEN <<0, 1>> ELSE <<GainOf(new), ideal>>
  BY <1>2 DEF RankingMetrics
<1> HIDE DEF old, new, up, ideal, m, n
<1> DEFINE rest == old \ {i + 1}
<1>6. Cardinality(new) = Cardinality(old)
  <2>1. IsFiniteSet(rest) /\ Cardinality(rest) = Cardinality(old) - 1
    BY <1>1, <1>2, FS_RemoveElement
  <2>2. Cardinality(rest \cup {i}) = Cardinality(rest) + 1
    BY <1>2, <2>1, FS_AddElement
  <2> HIDE DEF rest
  <2>3. Cardinality(new) = Cardinality(rest) + 1
    BY <1>2, <2>2 DEF rest
  <2> QED
    BY <1>1, <2>1, <2>3
<1>7. FirstHit(new) \in Nat /\ FirstHit(old) \in Nat /\ FirstHit(new) <= FirstHit(old)
  <2>1. FirstHit(old) \in old /\ \A j \in old : FirstHit(old) <= j
    BY <1>1, <1>2, FirstIsLeast
  <2>2. FirstHit(new) \in new /\ \A j \in new : FirstHit(new) <= j
    BY <1>2, FirstIsLeast
  <2>3. FirstHit(new) \in Nat /\ FirstHit(old) \in Nat /\ i \in Nat
    BY <1>0, <1>1, <1>2, <2>1, <2>2
  <2>4. FirstHit(new) <= i
    BY <1>2, <2>2
  <2>5. FirstHit(old) = i + 1 \/ FirstHit(old) \in new
    BY <1>2, <2>1
  <2> QED
    BY <2>2, <2>3, <2>4, <2>5
<1>8. GainOf(old) \in Nat /\ GainOf(new) \in Nat /\ GainOf(old) <= GainOf(new)
  <2>1. rest \in SUBSET Ranks /\ new \ {i} = rest /\ i \in new
    BY <1>1, <1>2
  <2>2. GainOf(old) = Discounts[i + 1] + GainOf(rest)
    BY <1>1, <1>2, GainLaw
  <2> HIDE DEF rest
  <2>3. GainOf(new) = Discounts[i] + GainOf(rest)
    BY <1>2, <2>1, GainLaw
  <2>4. Discounts[i + 1] <= Discounts[i]
    <3>1. i <= i + 1
      BY <1>0, <1>2
    <3> QED
      BY <1>2, <3>1, DiscountType
  <2>5. Discounts[i] \in Nat /\ Discounts[i + 1] \in Nat /\ GainOf(rest) \in Nat
    BY <1>2, <2>1, DiscountType, GainLaw
  <2> QED
    BY <2>2, <2>3, <2>4, <2>5
<1>9. Leq(m.recall, n.recall)
  <2>1. Cardinality(old) * Cardinality(wanted) \in Nat
    BY <1>1
  <2> QED
    BY <1>4, <1>5, <1>6, <2>1 DEF Leq
<1>10. Leq(m.mrr, n.mrr)
  BY <1>2, <1>4, <1>5, <1>7 DEF Leq
<1>11. Leq(m.ndcg, n.ndcg)
  <2>1. CASE ideal = 0
    BY <1>4, <1>5, <2>1 DEF Leq
  <2>2. CASE ideal # 0
    <3>1. GainOf(old) * ideal <= GainOf(new) * ideal
      BY <1>3, <1>8, MulMono
    <3> QED
      BY <1>4, <1>5, <2>2, <3>1 DEF Leq
  <2> QED
    BY <2>1, <2>2
<1> QED
  BY <1>9, <1>10, <1>11 DEF m, n, up

-----------------------------------------------------------------------------
(* Trials.                                                                 *)

LEMMA UnmeasuredFails ==
  ASSUME NEW g, NEW base, NEW baselined, GateAccepted(g, baselined)
  PROVE  ~GatePasses(g, Unmeasured, base)
  BY DEF GateAccepted, GatePasses, FloorViolated, DropViolated

LEMMA VerdictRises ==
  ASSUME NEW g, g.min \in Int, g.drop \in Int, NEW base \in Int,
         NEW low \in Int, low # Unmeasured, NEW high \in Int, high # Unmeasured,
         low <= high, GatePasses(g, low, base)
  PROVE  GatePasses(g, high, base)
  BY DEF GatePasses, FloorViolated, DropViolated

GateTrialType ==
  scoring.kind = "gate" =>
    /\ scoring.gate.min \in Grades \cup {NoCriterion}
    /\ scoring.gate.drop \in Grades \cup {NoCriterion}
    /\ scoring.value \in Grades \cup {Unmeasured}
    /\ scoring.base \in Grades \cup {Unmeasured}

LEMMA VerdictsAreMonotone == GateTrialType => VerdictMonotone
<1> SUFFICES ASSUME GateTrialType, scoring.kind = "gate", GateAccepted(scoring.gate, scoring.baselined)
             PROVE VerdictMonotone
  BY DEF VerdictMonotone
<1> DEFINE base == IF scoring.baselined THEN scoring.base ELSE Unmeasured
           Pass(v) == GatePasses(scoring.gate, v, base)
<1>1. /\ Grades \subseteq Nat /\ Unmeasured = -1 /\ NoCriterion = -2
      /\ \A v \in Grades : v \in Int /\ v # Unmeasured
  BY EvalMetricsAssumption DEF Unmeasured, NoCriterion
<1>2. /\ scoring.gate.min \in Int /\ scoring.gate.drop \in Int
      /\ scoring.value \in Int /\ base \in Int
  <2>1. \A v \in Grades \cup {Unmeasured, NoCriterion} : v \in Int
    BY <1>1
  <2>2. scoring.base \in Int /\ Unmeasured \in Int
    BY <2>1 DEF GateTrialType
  <2> QED
    BY <2>1, <2>2 DEF GateTrialType
<1>3. ~Pass(Unmeasured)
  BY UnmeasuredFails
<1>4. ASSUME NEW v \in Grades, v > scoring.value, Pass(scoring.value) PROVE Pass(v)
  <2>1. scoring.value # Unmeasured
    BY <1>3, <1>4
  <2> HIDE DEF base
  <2> QED
    BY <1>1, <1>2, <1>4, <2>1, VerdictRises
<1>5. (scoring.gate.drop # NoCriterion /\ base = Unmeasured) => ~Pass(scoring.value)
  BY DEF GatePasses, DropViolated
<1> QED
  BY <1>3, <1>4, <1>5 DEF VerdictMonotone

ScoringType == RankType /\ GateTrialType

LEMMA ScoringTyped == MetricsInit /\ [][MetricsNext]_scoring => []ScoringType
<1>1. MetricsInit => ScoringType
  BY DEF MetricsInit, NoScoring, ScoringType, RankType, GateTrialType
<1>2. ScoringType /\ [MetricsNext]_scoring => ScoringType'
  <2>1. ASSUME scoring' \in RankTrials PROVE ScoringType'
    BY <2>1 DEF RankTrials, ScoringType, RankType, GateTrialType
  <2>2. ASSUME scoring' \in GateTrials PROVE ScoringType'
    BY <2>2 DEF GateTrials, ScoringType, RankType, GateTrialType
  <2> QED
    BY <2>1, <2>2 DEF MetricsNext, ScoringType, RankType, GateTrialType
<1> QED
  BY <1>1, <1>2, PTL

LEMMA RanksAreShares == RankType => MetricsAreShares
<1> SUFFICES ASSUME RankType, scoring.kind = "rank" PROVE MetricsAreShares
  BY DEF MetricsAreShares
<1> DEFINE m == RankingMetrics(scoring.ids, scoring.wanted)
           a == ChannelAttribution(scoring.runs, scoring.ids, scoring.wanted)
           b == ChannelAttribution(scoring.runs, Reverse(scoring.ids), {})
<1>1. /\ scoring.ids \in Lists /\ scoring.wanted \in SUBSET Rankable
      /\ scoring.runs \in [RecallChannels -> SUBSET Rankable]
  BY DEF RankType
<1>2. /\ m.recall \in Nat \X Nat /\ InUnit(m.recall)
      /\ m.mrr \in Nat \X Nat /\ InUnit(m.mrr)
      /\ m.ndcg \in Nat \X Nat /\ InUnit(m.ndcg)
  BY <1>1, MetricsBounded
<1>3. \A c \in RecallChannels :
        /\ a.hits[c] <= a.found[c]
        /\ InUnit(HitShare(a, b, c)) /\ InUnit(RawRecall(a, b, c))
  BY <1>1, SharesBounded
<1> HIDE DEF m, a, b
<1>4. InUnit(MeanOf(m.recall, m.ndcg))
  BY <1>2, MeanInUnit
<1> QED
  BY <1>2, <1>3, <1>4 DEF MetricsAreShares, m, a, b

LEMMA RaisedHitsScoreNoLess == RankType => BetterRankScoresNoLess
<1> SUFFICES ASSUME RankType, scoring.kind = "rank" PROVE BetterRankScoresNoLess
  BY DEF BetterRankScoresNoLess
<1>1. scoring.ids \in Lists /\ scoring.wanted \in SUBSET Rankable
  BY DEF RankType
<1> QED
  BY <1>1, RaisedHitScores DEF BetterRankScoresNoLess, Raised

\* For rankings of any length, any discounts that fall with the rank, channels and
\* grades: metrics, means and shares are between zero and one, a hit one place
\* higher scores no less, and a verdict does not turn when the value rises
\* (_ranking_metrics, _channel_attribution, _summarize, _evaluate_gate).
THEOREM MetricsStaySound == MetricsInit /\ [][MetricsNext]_scoring => []MetricsSound
<1>1. ScoringType => MetricsSound
  BY RanksAreShares, RaisedHitsScoreNoLess, VerdictsAreMonotone DEF ScoringType, MetricsSound
<1> QED
  BY <1>1, ScoringTyped, PTL

-----------------------------------------------------------------------------
(* The profile of a document.                                              *)

ProbingType == probing = NoProbe \/ probing \in [request : ProfileRequests, of : Documents]

LEMMA ProbingTyped == ProbeInit /\ [][ProbeNext]_probing => []ProbingType
<1>1. ProbeInit => ProbingType
  BY DEF ProbeInit, ProbingType
<1>2. ProbingType /\ [ProbeNext]_probing => ProbingType'
  BY DEF ProbeNext, ProbingType
<1> QED
  BY <1>1, <1>2, PTL

\* For documents of any length: the profile auto chooses leaves at most a tenth of
\* the pages of a readable PDF unread, and the number of pages the parser reports
\* as recognised is one the pipeline that ran can have recognised (ProfilesSound).
THEOREM ProfilesStaySound == ProbeInit /\ [][ProbeNext]_probing => []ProfilesSound
<1>1. ProbingType => ProfilesSound
  <2> SUFFICES ASSUME ProbingType PROVE ProfilesSound
    OBVIOUS
  <2>1. CASE probing = NoProbe
    BY <2>1 DEF ProfilesSound, AutoReadsPages, OcrReported, NoProbe
  <2>2. CASE probing \in [request : ProfileRequests, of : Documents]
    <3> DEFINE d == probing.of
    <3>1. /\ probing.request \in ProfileRequests /\ d \in Documents
          /\ d.mime \in {"pdf", "image", "office"} /\ d.readable \in BOOLEAN
          /\ d.pages \in 1 .. ProbePages /\ d.digital \in 0 .. ProbePages
          /\ d.digital <= d.pages
          /\ d.mime # "pdf" => (~d.readable /\ d.digital = 0)
      BY <2>2 DEF Documents
    <3>2. d.pages \in Int /\ d.digital \in Int /\ 1 <= d.pages /\ 0 <= d.digital
      BY <3>1, ParseProfilesAssumption
    <3>3. IsDigital(d) <=> d.digital * 10 >= 9 * d.pages
      BY DEF IsDigital, DigitalRatio
    <3>4. AutoReadsPages
      BY <3>1, <3>2, <3>3 DEF AutoReadsPages, OcrPages, ResolveProfile, AutoProfile, ProbeKind
    <3>5. OcrReported
      BY <3>1, <3>2, <3>3 DEF OcrReported, OcrPages, ResolveProfile, AutoProfile,
         ProbeKind, HasOcrStage, ProfileRequests
    <3> QED
      BY <3>4, <3>5 DEF ProfilesSound
  <2> QED
    BY <2>1, <2>2 DEF ProbingType
<1> QED
  BY <1>1, ProbingTyped, PTL

-----------------------------------------------------------------------------
(* Rankings.                                                               *)

Distinct(tie, S) == \A x, y \in S : tie[x] = tie[y] => x = y

\* r has every element of S once.
IsOrder(r, S) ==
  /\ Cardinality(S) \in Nat /\ Len(r) = Cardinality(S)
  /\ r \in [1 .. Cardinality(S) -> S]
  /\ \A x \in S : \E i \in 1 .. Cardinality(S) : r[i] = x
  /\ \A i, j \in 1 .. Cardinality(S) : r[i] = r[j] => i = j

IsRanking(r, S, score, tie) ==
  /\ IsOrder(r, S)
  /\ \A i, j \in 1 .. Cardinality(S) : i < j => Precedes(score, tie, r[i], r[j])

\* The place of an element is how many precede it: Ranked is a sorted
\* permutation of the set.
LEMMA RankedLaw ==
  ASSUME NEW S, IsFiniteSet(S), NEW score \in [S -> Int], NEW tie \in [S -> Int],
         Distinct(tie, S)
  PROVE  IsRanking(Ranked(S, score, tie), S, score, tie)
<1> DEFINE n == Cardinality(S)
           R(x, y) == Precedes(score, tie, x, y)
           Under(x) == {y \in S : R(y, x)}
           below == [x \in S |-> Cardinality(Under(x))]
           r == Ranked(S, score, tie)
<1>1. /\ \A x \in S : ~ R(x, x)
      /\ \A x, y, z \in S : R(x, y) /\ R(y, z) => R(x, z)
      /\ \A x, y \in S : R(x, y) \/ R(y, x) \/ x = y
  <2>1. \A x \in S : score[x] \in Int /\ tie[x] \in Int
    OBVIOUS
  <2>2. \A x, y \in S : tie[x] = tie[y] => x = y
    BY DEF Distinct
  <2> QED
    BY <2>1, <2>2 DEF Precedes
<1>2. n \in Nat
  BY FS_CardinalityType
<1> HIDE DEF R
<1>3. \A x \in S : IsFiniteSet(Under(x)) /\ Cardinality(Under(x)) \in Nat
  <2>1. \A x \in S : Under(x) \subseteq S
    OBVIOUS
  <2> HIDE DEF Under
  <2> QED
    BY <2>1, FS_Subset, FS_CardinalityType
<1>4. \A x \in S : Cardinality(Under(x)) < n
  <2> SUFFICES ASSUME NEW x \in S PROVE Cardinality(Under(x)) < n
    OBVIOUS
  <2>1. Under(x) \subseteq S /\ Under(x) # S
    BY <1>1
  <2> HIDE DEF Under
  <2>2. Cardinality(Under(x)) <= Cardinality(S) /\ Cardinality(Under(x)) # Cardinality(S)
    BY <2>1, FS_Subset
  <2> QED
    BY <1>2, <1>3, <2>2
<1>5. \A x, y \in S : R(x, y) => Cardinality(Under(x)) < Cardinality(Under(y))
  <2> SUFFICES ASSUME NEW x \in S, NEW y \in S, R(x, y)
               PROVE  Cardinality(Under(x)) < Cardinality(Under(y))
    OBVIOUS
  <2>1. Under(x) \subseteq Under(y) /\ Under(x) # Under(y)
    BY <1>1
  <2> HIDE DEF Under
  <2>2. /\ Cardinality(Under(x)) <= Cardinality(Under(y))
        /\ Cardinality(Under(x)) # Cardinality(Under(y))
    BY <1>3, <2>1, FS_Subset
  <2> QED
    BY <1>3, <2>2
<1>6. \A x \in S : below[x] \in Nat /\ below[x] < n
  BY <1>3, <1>4
<1>7. \A x, y \in S : R(x, y) => below[x] < below[y]
  BY <1>5
<1>10. /\ r = [i \in 1 .. n |-> CHOOSE x \in S : Cardinality(Under(x)) = i - 1]
       /\ \A x \in S : below[x] = Cardinality(Under(x))
  BY DEF Ranked, R
<1> HIDE DEF Under, below, n, r
<1>8. ASSUME NEW x \in S, NEW y \in S, below[x] < below[y] PROVE R(x, y)
  <2>1. below[x] \in Nat /\ below[y] \in Nat
    BY <1>6
  <2>2. x # y /\ ~ (below[y] < below[x])
    BY <1>8, <2>1
  <2> QED
    BY <1>1, <1>7, <2>2
<1>9. ASSUME NEW x \in S, NEW y \in S, below[x] = below[y] PROVE x = y
  <2>1. below[x] \in Nat /\ below[y] \in Nat
    BY <1>6
  <2>2. ~ (below[y] < below[x]) /\ ~ (below[x] < below[y])
    BY <1>9, <2>1
  <2> QED
    BY <1>1, <1>7, <2>2
<1> DEFINE at == [x \in S |-> below[x] + 1]
<1>11. at \in [S -> 1 .. n] /\ \A x \in S : at[x] = below[x] + 1
  BY <1>2, <1>6
<1>12. \A i \in 1 .. n : \E x \in S : at[x] = i
  <2>1. at \in Injection(S, 1 .. n)
    BY <1>6, <1>9, <1>11 DEF Injection, IsInjective
  <2>2. IsFiniteSet(1 .. n) /\ Cardinality(1 .. n) = n
    <3>1. 1 \in Int /\ n \in Int
      BY <1>2
    <3>2. IsFiniteSet(1 .. n) /\ Cardinality(1 .. n) = IF 1 > n THEN 0 ELSE n - 1 + 1
      BY <3>1, FS_Interval
    <3> QED
      BY <1>2, <3>2
  <2> HIDE DEF at
  <2>3. at \in Surjection(S, 1 .. n)
    BY <2>1, <2>2, FS_Injection DEF n
  <2> QED
    BY <2>3 DEF Surjection
<1>13. \A i \in 1 .. n : r[i] \in S /\ below[r[i]] = i - 1
  <2> SUFFICES ASSUME NEW i \in 1 .. n PROVE r[i] \in S /\ below[r[i]] = i - 1
    OBVIOUS
  <2>1. PICK x \in S : at[x] = i
    BY <1>12
  <2>2. at[x] = below[x] + 1 /\ below[x] \in Nat
    BY <1>6, <1>11
  <2> HIDE DEF at
  <2>3. below[x] = i - 1
    BY <2>1, <2>2
  <2>4. \E y \in S : Cardinality(Under(y)) = i - 1
    BY <1>10, <2>3
  <2> QED
    BY <1>10, <2>4
<1>14. r \in [1 .. n -> S]
  BY <1>10, <1>13
<1>15. Len(r) = n
  BY <1>2, <1>14, LenProperties, SeqDef
<1>16. ASSUME NEW x \in S PROVE \E i \in 1 .. n : r[i] = x
  <2>1. at[x] \in 1 .. n /\ at[x] = below[x] + 1
    BY <1>11
  <2>2. r[at[x]] \in S /\ below[r[at[x]]] = below[x]
    BY <1>6, <1>13, <2>1
  <2> QED
    BY <1>9, <2>1, <2>2
<1>17. \A i, j \in 1 .. n : i < j => R(r[i], r[j])
  <2> SUFFICES ASSUME NEW i \in 1 .. n, NEW j \in 1 .. n, i < j
               PROVE  R(r[i], r[j])
    OBVIOUS
  <2>1. below[r[i]] < below[r[j]]
    BY <1>2, <1>13
  <2> QED
    BY <1>8, <1>13, <2>1
<1>18. \A i, j \in 1 .. n : r[i] = r[j] => i = j
  <2> SUFFICES ASSUME NEW i \in 1 .. n, NEW j \in 1 .. n, r[i] = r[j] PROVE i = j
    OBVIOUS
  <2>1. i - 1 = j - 1
    BY <1>13
  <2> QED
    BY <1>2, <2>1
<1> QED
  BY <1>2, <1>14, <1>15, <1>16, <1>17, <1>18 DEF IsRanking, IsOrder, n, r, R

LEMMA OrderType ==
  ASSUME NEW S, NEW s, IsOrder(s, S)
  PROVE  /\ Len(s) \in Nat /\ s \in [1 .. Len(s) -> S] /\ s \in Seq(S)
         /\ DOMAIN s = 1 .. Len(s) /\ ToSet(s) = S
         /\ \A i, j \in 1 .. Len(s) : s[i] = s[j] => i = j
<1>1. /\ Len(s) \in Nat /\ s \in [1 .. Len(s) -> S]
      /\ \A x \in S : \E i \in 1 .. Len(s) : s[i] = x
      /\ \A i, j \in 1 .. Len(s) : s[i] = s[j] => i = j
  BY DEF IsOrder
<1>2. DOMAIN s = 1 .. Len(s)
  BY <1>1
<1>3. s \in Seq(S)
  BY <1>1, SeqDef
<1>4. ToSet(s) = S
  BY <1>1, <1>2 DEF ToSet
<1> QED
  BY <1>1, <1>2, <1>3, <1>4

\* An injective list is an order of its elements.
LEMMA ListIsOrder ==
  ASSUME NEW n \in Nat, NEW T, NEW s \in [1 .. n -> T],
         \A i, j \in 1 .. n : s[i] = s[j] => i = j
  PROVE  IsOrder(s, ToSet(s)) /\ Len(s) = n /\ ToSet(s) \subseteq T
         /\ IsFiniteSet(ToSet(s))
<1>1. Len(s) = n /\ DOMAIN s = 1 .. n
  BY LenProperties, SeqDef
<1> DEFINE S == ToSet(s)
<1>2. S \subseteq T /\ s \in [1 .. n -> S] /\ \A x \in S : \E i \in 1 .. n : s[i] = x
  BY <1>1 DEF ToSet
<1> HIDE DEF S
<1>3. IsFiniteSet(1 .. n) /\ Cardinality(1 .. n) = n
  <2>1. 1 \in Int /\ n \in Int
    OBVIOUS
  <2>2. IsFiniteSet(1 .. n) /\ Cardinality(1 .. n) = IF 1 > n THEN 0 ELSE n - 1 + 1
    BY <2>1, FS_Interval
  <2> QED
    BY <2>2
<1>4. s \in Surjection(1 .. n, S)
  BY <1>2 DEF Surjection
<1>5. IsFiniteSet(S)
  BY <1>3, <1>4, FS_Surjection
<1>6. s \in Injection(1 .. n, S)
  BY <1>2 DEF Injection, IsInjective
<1>7. Cardinality(S) = n
  BY <1>3, <1>4, <1>5, <1>6, FS_Injection
<1> QED
  BY <1>1, <1>2, <1>5, <1>7 DEF IsOrder, S

\* The first places of a list.
IsList(s, S) == Len(s) \in Nat /\ s \in [1 .. Len(s) -> S]

Shorter(k, s) == IF k < Len(s) THEN k ELSE Len(s)

LEMMA FirstLaw ==
  ASSUME NEW S, NEW s, IsList(s, S), NEW k \in Nat
  PROVE  /\ Shorter(k, s) \in Nat /\ Shorter(k, s) <= Len(s)
         /\ Len(First(s, k)) = Shorter(k, s)
         /\ First(s, k) \in [1 .. Shorter(k, s) -> S]
         /\ \A i \in 1 .. Shorter(k, s) : First(s, k)[i] = s[i]
<1> DEFINE m == Shorter(k, s)
           f == First(s, k)
<1>1. m \in Nat /\ m <= Len(s)
  BY DEF IsList, Shorter
<1>2. f = SubSeq(s, 1, m)
  BY DEF First, Shorter
<1> HIDE DEF m, f
<1>3. \A i \in 1 .. m : s[i] \in S
  BY <1>1 DEF IsList
<1>4. /\ f \in Seq(S) /\ Len(f) = IF 1 <= m THEN m - 1 + 1 ELSE 0
      /\ \A i \in 1 .. m - 1 + 1 : f[i] = s[1 + i - 1]
  <2>1. m \in Int /\ 1 \in Int
    BY <1>1
  <2> QED
    BY <1>2, <1>3, <2>1, SubSeqProperties
<1>5. Len(f) = m /\ \A i \in 1 .. m : f[i] = s[i]
  BY <1>1, <1>4
<1>6. f \in [1 .. m -> S]
  <2>1. f \in [1 .. Len(f) -> S]
    BY <1>4, LenProperties, SeqDef
  <2> QED
    BY <1>5, <2>1
<1> QED
  BY <1>1, <1>5, <1>6 DEF m, f

LEMMA FirstOfOrder ==
  ASSUME NEW S, NEW s, IsOrder(s, S), NEW k \in Nat
  PROVE  /\ IsOrder(First(s, k), ToSet(First(s, k)))
         /\ ToSet(First(s, k)) \subseteq S
         /\ IsFiniteSet(ToSet(First(s, k)))
         /\ Len(First(s, k)) = Shorter(k, s)
         /\ \A i \in 1 .. Len(First(s, k)) : First(s, k)[i] = s[i]
<1> DEFINE m == Shorter(k, s)
           f == First(s, k)
<1>1. /\ Len(s) \in Nat /\ s \in [1 .. Len(s) -> S]
      /\ \A i, j \in 1 .. Len(s) : s[i] = s[j] => i = j
  BY OrderType
<1>0. IsList(s, S)
  BY <1>1 DEF IsList
<1>2. /\ m \in Nat /\ m <= Len(s) /\ Len(f) = m /\ f \in [1 .. m -> S]
      /\ \A i \in 1 .. m : f[i] = s[i]
  BY <1>0, FirstLaw
<1>3. 1 .. m \subseteq 1 .. Len(s)
  BY <1>1, <1>2
<1> HIDE DEF m, f
<1>4. \A i, j \in 1 .. m : f[i] = f[j] => i = j
  BY <1>1, <1>2, <1>3
<1>5. IsOrder(f, ToSet(f)) /\ ToSet(f) \subseteq S /\ IsFiniteSet(ToSet(f))
  BY <1>2, <1>4, ListIsOrder
<1> QED
  BY <1>2, <1>5 DEF m, f

\* The first place of what a list has.
LEMMA PlaceLaw ==
  ASSUME NEW n \in Nat, NEW s, DOMAIN s = 1 .. n, NEW i \in 1 .. n
  PROVE  Place(s, s[i]) \in 1 .. n /\ s[Place(s, s[i])] = s[i] /\ Place(s, s[i]) <= i
<1> DEFINE T == {j \in 1 .. n : s[j] = s[i]}
<1>1. T \in SUBSET Nat /\ T # {}
  OBVIOUS
<1>2. PICK p \in T : \A j \in T : p <= j
  BY <1>1, LeastOf
<1>3. \E q \in 1 .. n : s[q] = s[i] /\ \A j \in 1 .. n : s[j] = s[i] => q <= j
  BY <1>2
<1> DEFINE q == Place(s, s[i])
<1>4. q = CHOOSE p_1 \in 1 .. n : s[p_1] = s[i] /\ \A j \in 1 .. n : s[j] = s[i] => p_1 <= j
  BY DEF Place
<1> HIDE DEF q
<1>5. q \in 1 .. n /\ s[q] = s[i] /\ \A j \in 1 .. n : s[j] = s[i] => q <= j
  BY <1>3, <1>4
<1> QED
  BY <1>5 DEF q

LEMMA PlaceInOrder ==
  ASSUME NEW S, NEW s, IsOrder(s, S)
  PROVE  /\ \A i \in 1 .. Len(s) : Place(s, s[i]) = i
         /\ \A x \in S : Place(s, x) \in 1 .. Len(s) /\ s[Place(s, x)] = x
<1>1. /\ Len(s) \in Nat /\ DOMAIN s = 1 .. Len(s)
      /\ \A x \in S : \E i \in 1 .. Len(s) : s[i] = x
      /\ \A i, j \in 1 .. Len(s) : s[i] = s[j] => i = j
  BY OrderType DEF IsOrder
<1>2. \A i \in 1 .. Len(s) : Place(s, s[i]) \in 1 .. Len(s) /\ s[Place(s, s[i])] = s[i]
  BY <1>1, PlaceLaw
<1> QED
  BY <1>1, <1>2

\* A subset of a list, in the list's order.
LEMMA InOrderLaw ==
  ASSUME NEW T, NEW order, IsOrder(order, T), IsFiniteSet(T), NEW S \in SUBSET T
  PROVE  /\ IsOrder(InOrder(S, order), S)
         /\ \A i, j \in 1 .. Len(InOrder(S, order)) : i < j =>
              Place(order, InOrder(S, order)[i]) < Place(order, InOrder(S, order)[j])
<1> DEFINE zero == [x \in S |-> 0]
           tie == [x \in S |-> Place(order, x)]
           r == InOrder(S, order)
<1>1. /\ Len(order) \in Nat
      /\ \A x \in T : Place(order, x) \in 1 .. Len(order) /\ order[Place(order, x)] = x
  BY OrderType, PlaceInOrder
<1>2. tie \in [S -> Int] /\ zero \in [S -> Int]
  BY <1>1
<1>3. Distinct(tie, S)
  BY <1>1 DEF Distinct
<1>4. IsFiniteSet(S)
  BY FS_Subset
<1>5. r = Ranked(S, zero, tie)
  BY DEF InOrder
<1>6. \A x \in S : zero[x] = 0 /\ tie[x] = Place(order, x)
  OBVIOUS
<1> HIDE DEF zero, tie, r
<1>7. IsRanking(r, S, zero, tie)
  BY <1>2, <1>3, <1>4, <1>5, RankedLaw
<1>8. IsOrder(r, S) /\ Len(r) \in Nat /\ r \in [1 .. Len(r) -> S]
      /\ Len(r) = Cardinality(S)
  BY <1>7 DEF IsRanking, IsOrder
<1>9. \A i, j \in 1 .. Len(r) : i < j => tie[r[i]] < tie[r[j]]
  BY <1>6, <1>7, <1>8 DEF IsRanking, Precedes
<1> QED
  BY <1>6, <1>8, <1>9 DEF r

-----------------------------------------------------------------------------
(* Totals.                                                                 *)

LEMMA RangeFinite ==
  ASSUME NEW n \in Nat
  PROVE  IsFiniteSet(1 .. n) /\ Cardinality(1 .. n) = n
<1>1. 1 \in Int /\ n \in Int
  OBVIOUS
<1>2. IsFiniteSet(1 .. n) /\ Cardinality(1 .. n) = IF 1 > n THEN 0 ELSE n - 1 + 1
  BY <1>1, FS_Interval
<1> QED
  BY <1>2

LEMMA GreatestOf ==
  ASSUME NEW n \in Nat, NEW T \in SUBSET (1 .. n), T # {}
  PROVE  Max(T) \in T /\ \A y \in T : y <= Max(T)
<1> DEFINE U == {n - x : x \in T}
<1>1. U \in SUBSET Nat /\ U # {}
  <2>1. \A x \in T : x \in Int /\ 1 <= x /\ x <= n
    OBVIOUS
  <2>2. \A x \in T : n - x \in Nat
    BY <2>1
  <2> QED
    BY <2>2
<1>2. PICK u \in U : \A v \in U : u <= v
  BY <1>1, LeastOf
<1>3. PICK x \in T : u = n - x
  BY <1>2
<1>4. \A y \in T : n - x <= n - y
  BY <1>2, <1>3
<1>5. \A y \in T : x >= y
  BY <1>4
<1> QED
  BY <1>5 DEF Max

\* The total of a list is the sum of its places, in any order of them.
LEMMA TotalSums ==
  ASSUME NEW n \in Nat, NEW t \in [1 .. n -> Int]
  PROVE  \E h : Sums(h, t, 1 .. n) /\ Total(t) = h[1 .. n]
<1> DEFINE S == 1 .. n
           pick == [s \in SUBSET S |-> Max(s)]
           Eq(g) == g = [s \in SUBSET S |-> IF s = {} THEN 0
                                            ELSE g[s \ {Max(s)}] + t[Max(s)]]
<1>1. IsFiniteSet(S)
  BY RangeFinite
<1>2. \A s \in SUBSET S : s # {} => Max(s) \in s
  BY GreatestOf
<1> HIDE DEF S
<1>3. t \in [S -> Int] /\ DOMAIN t = S
  BY DEF S
<1>4. PICK h \in [SUBSET S -> Int] : FoldsSum(h, S, t, pick)
  <2>1. Picks(pick, S)
    BY <1>2 DEF Picks
  <2> HIDE DEF pick
  <2> QED
    BY <1>1, <1>3, <2>1, SumExists
<1>5. Eq(h)
  <2>1. ASSUME NEW s \in SUBSET S, s # {}
        PROVE  h[s] = h[s \ {Max(s)}] + t[Max(s)]
    <3>1. Max(s) \in S /\ s \ {Max(s)} \in SUBSET S /\ pick[s] = Max(s)
      BY <1>2, <2>1
    <3>2. h[s] = t[pick[s]] + h[s \ {pick[s]}]
      BY <1>4, <2>1 DEF FoldsSum
    <3> HIDE DEF pick
    <3> QED
      BY <1>3, <3>1, <3>2
  <2>2. h[{}] = 0
    BY <1>4 DEF FoldsSum
  <2> QED
    BY <2>1, <2>2
<1> DEFINE iter == CHOOSE g : Eq(g)
<1>6. Total(t) = iter[S]
  BY <1>3 DEF Total, FoldLeft, MapThenFoldSet
<1> HIDE DEF Eq
<1>7. Eq(iter)
  BY <1>5
<1> HIDE DEF iter
<1> DEFINE T == {s \in SUBSET S : iter[s] = h[s]}
<1>8. ASSUME NEW s \in SUBSET S, \A x \in s : s \ {x} \in T PROVE s \in T
  <2>1. CASE s = {}
    BY <1>4, <1>7, <2>1 DEF Eq, FoldsSum
  <2>2. CASE s # {}
    <3>1. Max(s) \in s
      BY <1>2, <2>2
    <3>2. iter[s \ {Max(s)}] = h[s \ {Max(s)}]
      BY <1>8, <3>1
    <3>3. iter[s] = iter[s \ {Max(s)}] + t[Max(s)]
      BY <1>7, <2>2 DEF Eq
    <3>4. h[s] = h[s \ {Max(s)}] + t[Max(s)]
      BY <1>5, <2>2 DEF Eq
    <3> QED
      BY <3>2, <3>3, <3>4
  <2> QED
    BY <2>1, <2>2
<1>9. Grows(S, T)
  BY <1>8 DEF Grows
<1> HIDE DEF T
<1>10. iter[S] = h[S]
  <2>1. S \in T
    BY <1>1, <1>9, SubsetInd
  <2> QED
    BY <2>1 DEF T
<1>11. Sums(h, t, S)
  <2>1. h = [s \in SUBSET S |-> h[s]] /\ h[{}] = 0
    BY <1>4 DEF FoldsSum
  <2>2. Adds(h, t, S)
    <3> SUFFICES ASSUME NEW s \in SUBSET S, s # {}
                 PROVE  \E x \in s : h[s] = t[x] + h[s \ {x}]
      BY DEF Adds
    <3>1. pick[s] \in s
      BY <1>2
    <3> HIDE DEF pick
    <3>2. h[s] = t[pick[s]] + h[s \ {pick[s]}]
      BY <1>4 DEF FoldsSum
    <3> QED
      BY <3>1, <3>2
  <2> QED
    BY <1>1, <1>3, <2>1, <2>2, SumsFromOne
<1> QED
  BY <1>6, <1>10, <1>11 DEF S

LEMMA TotalLaw ==
  /\ Total(<<>>) = 0
  /\ \A t \in Seq(Int) : Total(t) \in Int
  /\ \A t \in Seq(Int) : \A x \in Int : Total(Append(t, x)) = Total(t) + x
<1>1. \A t \in Seq(Int) : Len(t) \in Nat /\ t \in [1 .. Len(t) -> Int]
  BY LenProperties
<1>2. Total(<<>>) = 0
  <2>1. <<>> \in [1 .. 0 -> Int] /\ 1 .. 0 = {}
    OBVIOUS
  <2>2. PICK h : Sums(h, <<>>, 1 .. 0) /\ Total(<<>>) = h[1 .. 0]
    BY <2>1, TotalSums
  <2> QED
    BY <2>1, <2>2 DEF Sums
<1>3. ASSUME NEW t \in Seq(Int) PROVE Total(t) \in Int
  <2>1. PICK h : Sums(h, t, 1 .. Len(t)) /\ Total(t) = h[1 .. Len(t)]
    BY <1>1, TotalSums
  <2> QED
    BY <2>1 DEF Sums
<1>4. ASSUME NEW t \in Seq(Int), NEW x \in Int
      PROVE  Total(Append(t, x)) = Total(t) + x
  <2> DEFINE n == Len(t) u == Append(t, x)
  <2>1. n \in Nat /\ t \in [1 .. n -> Int]
    BY <1>1
  <2>2. /\ u \in Seq(Int) /\ Len(u) = n + 1 /\ u[n + 1] = x
        /\ \A i \in 1 .. n : u[i] = t[i]
    BY AppendProperties
  <2> DEFINE R == 1 .. n S == 1 .. (n + 1)
  <2> HIDE DEF n, u
  <2>3. n + 1 \in Nat /\ u \in [1 .. (n + 1) -> Int]
    BY <1>1, <2>1, <2>2
  <2>4. PICK h : Sums(h, t, R) /\ Total(t) = h[R]
    BY <2>1, TotalSums
  <2>5. PICK g : Sums(g, u, S) /\ Total(u) = g[S]
    BY <2>3, TotalSums
  <2>6. /\ n + 1 \in S /\ S \ {n + 1} = R /\ R \subseteq S
        /\ \A i \in R : u[i] = t[i]
    BY <2>1, <2>2
  <2>7. IsFiniteSet(S)
    BY <2>3, RangeFinite
  <2> HIDE DEF R, S
  <2>8. g[S] = u[n + 1] + g[S \ {n + 1}]
    BY <2>5, <2>6 DEF Sums, AddsAny
  <2>9. g[R] = h[R]
    BY <2>4, <2>5, <2>6, <2>7, SumsAgree
  <2>10. h[R] \in Int
    BY <2>4 DEF Sums
  <2>11. Total(u) = Total(t) + x
    <3>1. u[n + 1] = x /\ S \ {n + 1} = R
      BY <2>2, <2>6
    <3>2. g[S] = x + h[R]
      BY <2>8, <2>9, <3>1
    <3>3. g[S] = h[R] + x
      BY <2>10, <3>2
    <3> QED
      BY <2>4, <2>5, <3>3
  <2> QED
    BY <2>11 DEF u
<1> QED
  BY <1>2, <1>3, <1>4

-----------------------------------------------------------------------------
(* Fusion of two legs.                                                     *)

LEMMA FlattenTwo ==
  ASSUME NEW s, Len(s) = 2
  PROVE  FlattenSeq(s) = s[1] \o s[2]
<1> DEFINE Eq(f) == f = [i \in 1 .. 2 |-> IF i = 1 THEN s[i] ELSE f[i - 1] \o s[i]]
           w == [i \in 1 .. 2 |-> IF i = 1 THEN s[1] ELSE s[1] \o s[2]]
           flat == CHOOSE f : Eq(f)
<1>1. FlattenSeq(s) = flat[2]
  BY DEF FlattenSeq
<1>2. w[1] = s[1] /\ w[2] = s[1] \o s[2]
  OBVIOUS
<1>3. Eq(w)
  <2>1. \A i \in 1 .. 2 : i = 1 \/ i = 2
    OBVIOUS
  <2> QED
    BY <2>1
<1> HIDE DEF w, Eq
<1>4. Eq(flat)
  BY <1>3
<1> HIDE DEF flat
<1>5. flat[1] = s[1] /\ flat[2] = flat[1] \o s[2]
  BY <1>4 DEF Eq
<1> QED
  BY <1>1, <1>5

LEMMA TotalTwo ==
  ASSUME NEW t \in [1 .. 2 -> Int]
  PROVE  Total(t) = t[1] + t[2]
<1>1. t[1] \in Int /\ t[2] \in Int
  OBVIOUS
<1> DEFINE u == Append(<<>>, t[1])
<1>2. <<>> \in Seq(Int) /\ u \in Seq(Int) /\ u = <<t[1]>>
  BY <1>1
<1>3. t = Append(u, t[2])
  BY <1>2
<1> HIDE DEF u
<1>4. Total(Append(u, t[2])) = Total(u) + t[2]
  BY <1>1, <1>2, TotalLaw
<1>5. Total(u) = Total(<<>>) + t[1]
  BY <1>1, <1>2, TotalLaw DEF u
<1>6. Total(<<>>) = 0
  BY TotalLaw
<1>7. Total(u) = t[1]
  BY <1>1, <1>5, <1>6
<1>8. Total(t) = Total(Append(u, t[2]))
  BY <1>3
<1> QED
  BY <1>4, <1>7, <1>8

\* Two legs, which found D and B.
Legs(runs, d, b) ==
  /\ Len(runs) = 2 /\ DOMAIN runs = 1 .. 2
  /\ runs[1].hits = d /\ runs[2].hits = b

LEMMA ConcatPlaces ==
  ASSUME NEW D, NEW B, NEW d, NEW b, IsOrder(d, D), IsOrder(b, B)
  PROVE  /\ Len(d) \in Nat /\ Len(b) \in Nat
         /\ DOMAIN (d \o b) = 1 .. Len(d) + Len(b)
         /\ \A i \in 1 .. Len(d) : (d \o b)[i] = d[i]
         /\ \A i \in 1 .. Len(b) : (d \o b)[Len(d) + i] = b[i]
         /\ ToSet(d \o b) = D \cup B
<1> DEFINE m == Len(d) n == Len(b) s == d \o b
<1>1. /\ m \in Nat /\ n \in Nat /\ d \in Seq(D \cup B) /\ b \in Seq(D \cup B)
      /\ d \in [1 .. m -> D] /\ b \in [1 .. n -> B]
  <2>1. m \in Nat /\ n \in Nat /\ d \in [1 .. m -> D] /\ b \in [1 .. n -> B]
    BY OrderType
  <2>2. d \in [1 .. m -> D \cup B] /\ b \in [1 .. n -> D \cup B]
    BY <2>1
  <2> HIDE DEF m, n
  <2>3. /\ \E k \in Nat : d \in [1 .. k -> D \cup B]
        /\ \E k \in Nat : b \in [1 .. k -> D \cup B]
    BY <2>1, <2>2
  <2>4. d \in Seq(D \cup B) /\ b \in Seq(D \cup B)
    BY <2>3, SeqDef
  <2> QED
    BY <2>1, <2>4
<1>2. /\ s \in Seq(D \cup B) /\ Len(s) = m + n
      /\ \A i \in 1 .. m + n : s[i] = IF i <= m THEN d[i] ELSE b[i - m]
  BY <1>1, ConcatProperties
<1> HIDE DEF m, n, s
<1>3. DOMAIN s = 1 .. m + n
  BY <1>2
<1>4. \A i \in 1 .. m : s[i] = d[i]
  BY <1>1, <1>2
<1>5. \A i \in 1 .. n : s[m + i] = b[i]
  <2> SUFFICES ASSUME NEW i \in 1 .. n PROVE s[m + i] = b[i]
    OBVIOUS
  <2> DEFINE j == m + i
  <2>1. j \in 1 .. m + n /\ ~ (j <= m) /\ j - m = i
    BY <1>1
  <2> HIDE DEF j
  <2>2. s[j] = b[j - m]
    BY <1>2, <2>1
  <2>3. s[j] = b[i]
    BY <2>1, <2>2
  <2> QED
    BY <2>3 DEF j
<1>6. ToSet(s) = D \cup B
  <2>1. \A i \in 1 .. m + n : s[i] \in D \cup B
    BY <1>2, <1>3
  <2>2. \A x \in D : \E i \in 1 .. m + n : s[i] = x
    <3>1. \A x \in D : \E i \in 1 .. m : d[i] = x
      BY DEF IsOrder, m
    <3>2. 1 .. m \subseteq 1 .. m + n
      BY <1>1
    <3> QED
      BY <1>4, <3>1, <3>2
  <2>3. \A x \in B : \E i \in 1 .. m + n : s[i] = x
    <3>1. \A x \in B : \E i \in 1 .. n : b[i] = x
      BY DEF IsOrder, n
    <3>2. \A i \in 1 .. n : m + i \in 1 .. m + n
      BY <1>1
    <3> QED
      BY <1>5, <3>1, <3>2
  <2> QED
    BY <1>3, <2>1, <2>2, <2>3 DEF ToSet
<1> QED
  BY <1>1, <1>3, <1>4, <1>5, <1>6 DEF m, n, s

\* The order of first sight: the first leg's, then what only the second found.
SeenBy(seen, d, b, D, B) ==
  /\ seen \in [D \cup B -> Int] /\ Distinct(seen, D \cup B)
  /\ \A x \in D : seen[x] = Place(d, x)
  /\ \A x \in B \ D : seen[x] = Len(d) + Place(b, x)

LEMMA SeenLaw ==
  ASSUME NEW D, NEW B, NEW d, NEW b, IsOrder(d, D), IsOrder(b, B),
         NEW runs, Legs(runs, d, b)
  PROVE  SeenBy(FirstSeen(runs), d, b, D, B)
<1> DEFINE m == Len(d) n == Len(b) s == d \o b seen == FirstSeen(runs)
<1>1. /\ m \in Nat /\ n \in Nat /\ DOMAIN s = 1 .. m + n /\ ToSet(s) = D \cup B
      /\ \A i \in 1 .. m : s[i] = d[i]
      /\ \A i \in 1 .. n : s[m + i] = b[i]
  BY ConcatPlaces
<1>2. seen = [x \in D \cup B |-> Place(s, x)]
  <2> DEFINE hits == [i \in DOMAIN runs |-> runs[i].hits]
  <2>1. Len(hits) = 2 /\ hits[1] = d /\ hits[2] = b
    <3>1. hits \in [1 .. 2 -> {d, b}]
      BY DEF Legs
    <3>2. Len(hits) = 2
      BY <3>1, LenProperties, SeqDef
    <3> QED
      BY <3>2 DEF Legs
  <2> HIDE DEF hits
  <2>2. FlattenSeq(hits) = s
    BY <2>1, FlattenTwo
  <2> QED
    BY <1>1, <2>2 DEF FirstSeen, hits
<1> HIDE DEF m, n, s, seen
<1>3. m + n \in Nat
  BY <1>1
<1>4. \A i \in 1 .. m + n : /\ Place(s, s[i]) \in 1 .. m + n
                            /\ s[Place(s, s[i])] = s[i] /\ Place(s, s[i]) <= i
  BY <1>1, <1>3, PlaceLaw
<1>5. \A x \in D : Place(d, x) \in 1 .. m /\ d[Place(d, x)] = x
  BY PlaceInOrder DEF m
<1>6. \A x \in B : Place(b, x) \in 1 .. n /\ b[Place(b, x)] = x
  BY PlaceInOrder DEF n
<1>7. ASSUME NEW x \in D
      PROVE  Place(s, x) = Place(d, x) /\ s[Place(s, x)] = x
  <2> DEFINE p == Place(s, x) q == Place(d, x)
  <2>1. q \in 1 .. m /\ q \in 1 .. m + n /\ s[q] = x /\ d[q] = x
    BY <1>1, <1>5
  <2>2. p \in 1 .. m + n /\ s[p] = x /\ p <= q
    BY <1>4, <2>1
  <2> HIDE DEF p, q
  <2>3. p \in 1 .. m
    BY <1>1, <2>1, <2>2
  <2>4. d[p] = d[q]
    BY <1>1, <2>1, <2>2, <2>3
  <2>5. p = q
    BY <2>1, <2>3, <2>4, OrderType DEF m
  <2> QED
    BY <2>2, <2>5 DEF p, q
<1>8. ASSUME NEW x \in B \ D
      PROVE  Place(s, x) = m + Place(b, x) /\ s[Place(s, x)] = x
  <2> DEFINE p == Place(s, x) q == Place(b, x)
  <2>1. q \in 1 .. n /\ m + q \in 1 .. m + n /\ s[m + q] = x /\ b[q] = x
    BY <1>1, <1>6
  <2>2. p \in 1 .. m + n /\ s[p] = x
    BY <1>4, <2>1
  <2> HIDE DEF p, q
  <2>3. ~ (p <= m)
    <3>1. SUFFICES ASSUME p <= m PROVE FALSE
      OBVIOUS
    <3>2. p \in 1 .. m
      BY <1>1, <2>2, <3>1
    <3>3. d[p] = x
      BY <1>1, <2>2, <3>2
    <3>4. d \in [1 .. m -> D]
      BY OrderType DEF m
    <3> QED
      BY <3>2, <3>3, <3>4
  <2>4. p - m \in 1 .. n /\ m + (p - m) = p
    BY <1>1, <2>2, <2>3
  <2>5. b[p - m] = x
    BY <1>1, <2>2, <2>4
  <2>6. p - m = q
    BY <2>1, <2>4, <2>5, OrderType DEF n
  <2>7. p = m + q
    BY <2>4, <2>6
  <2> QED
    BY <2>2, <2>7 DEF p, q
<1>9. \A x \in D \cup B : seen[x] = Place(s, x) /\ s[seen[x]] = x
  BY <1>2, <1>7, <1>8
<1>10. seen \in [D \cup B -> Int]
  <2>1. \A x \in D \cup B : Place(s, x) \in Int
    BY <1>1, <1>5, <1>6, <1>7, <1>8
  <2> QED
    BY <1>2, <2>1
<1>11. Distinct(seen, D \cup B)
  BY <1>9 DEF Distinct
<1>12. \A x \in D : seen[x] = Place(d, x)
  BY <1>7, <1>9
<1>13. \A x \in B \ D : seen[x] = Len(d) + Place(b, x)
  BY <1>8, <1>9 DEF m
<1>14. SeenBy(seen, d, b, D, B)
  BY <1>10, <1>11, <1>12, <1>13 DEF SeenBy
<1> QED
  BY <1>14 DEF seen

\* The fused list has what the legs found, once, by the sum of their shares.
LEMMA FuseLaw ==
  ASSUME NEW D, NEW B, IsFiniteSet(D), IsFiniteSet(B),
         NEW d, NEW b, IsOrder(d, D), IsOrder(b, B),
         NEW runs, Legs(runs, d, b), NEW H, D \cup B \in SUBSET H, NEW share,
         share[1] \in [H -> Int], share[2] \in [H -> Int]
  PROVE  IsRanking(Fuse(runs, share), D \cup B,
                   [x \in D \cup B |-> share[1][x] + share[2][x]], FirstSeen(runs))
<1> DEFINE S == D \cup B
           seen == FirstSeen(runs)
           score == [x \in S |-> share[1][x] + share[2][x]]
<1>1. seen \in [S -> Int] /\ Distinct(seen, S) /\ DOMAIN seen = S
  <2>1. seen \in [S -> Int] /\ Distinct(seen, S)
    BY SeenLaw DEF SeenBy
  <2> HIDE DEF seen
  <2> QED
    BY <2>1
<1>2. IsFiniteSet(S)
  BY FS_Union
<1>3. \A x \in S : Total([i \in DOMAIN runs |-> share[i][x]]) = share[1][x] + share[2][x]
  <2> SUFFICES ASSUME NEW x \in S
               PROVE  Total([i \in DOMAIN runs |-> share[i][x]])
                        = share[1][x] + share[2][x]
    OBVIOUS
  <2> DEFINE t == [i \in DOMAIN runs |-> share[i][x]]
  <2>1. share[1][x] \in Int /\ share[2][x] \in Int
    OBVIOUS
  <2>2. t[1] = share[1][x] /\ t[2] = share[2][x] /\ t \in [1 .. 2 -> Int]
    <3>1. DOMAIN runs = 1 .. 2
      BY DEF Legs
    <3>2. \A i \in 1 .. 2 : i = 1 \/ i = 2
      OBVIOUS
    <3> QED
      BY <2>1, <3>1, <3>2
  <2> HIDE DEF t
  <2>3. Total(t) = t[1] + t[2]
    BY <2>2, TotalTwo
  <2> QED
    BY <2>2, <2>3 DEF t
<1>4. score \in [S -> Int]
  OBVIOUS
<1>5. Fuse(runs, share) = Ranked(S, score, seen)
  <2>1. Fuse(runs, share) =
          Ranked(DOMAIN seen,
                 [x \in DOMAIN seen |-> Total([i \in DOMAIN runs |-> share[i][x]])],
                 seen)
    BY DEF Fuse
  <2>2. [x \in DOMAIN seen |-> Total([i \in DOMAIN runs |-> share[i][x]])] = score
    BY <1>1, <1>3
  <2> QED
    BY <1>1, <2>1, <2>2
<1> HIDE DEF S, seen, score
<1>6. IsRanking(Ranked(S, score, seen), S, score, seen)
  BY <1>1, <1>2, <1>4, RankedLaw
<1> QED
  BY <1>5, <1>6 DEF S, seen, score

\* What a leg gives, and that it never gives more to the later of two.
LEMMA QuotientFalls ==
  ASSUME NEW u \in Nat, NEW a \in Nat, NEW b \in Nat, 0 < a, a <= b
  PROVE  u \div b <= u \div a
<1> DEFINE p == u \div a q == u \div b
<1>1. /\ p \in Int /\ q \in Int
      /\ u = a * p + (u % a) /\ 0 <= u % a /\ u % a < a
      /\ u = b * q + (u % b) /\ 0 <= u % b /\ u % b < b
  OBVIOUS
<1>2. q >= 0
  OBVIOUS
<1> HIDE DEF p, q
<1>3. SUFFICES ASSUME q >= p + 1 PROVE FALSE
  BY <1>1 DEF p, q
<1>4. b * q >= a * q
  BY <1>1, <1>2
<1>5. a * q >= a * (p + 1)
  BY <1>1, <1>3
<1>6. a * (p + 1) = a * p + a
  BY <1>1
<1> QED
  BY <1>1, <1>4, <1>5, <1>6

LEMMA QuotientRises ==
  ASSUME NEW u \in Nat, NEW v \in Nat, NEW a \in Nat, 0 < a, u <= v
  PROVE  0 <= u \div a /\ u \div a <= v \div a /\ u \div a \in Int /\ v \div a \in Int
OBVIOUS

LEMMA ProductRises ==
  ASSUME NEW u \in Nat, NEW a \in Nat, NEW b \in Nat, a <= b
  PROVE  u * a \in Nat /\ u * b \in Nat /\ u * a <= u * b
OBVIOUS

LEMMA RrfFalls ==
  ASSUME NEW D, NEW run, IsOrder(run.hits, D), NEW x, NEW y
  PROVE  /\ RrfShare(run, x) \in Int
         /\ Better(run, x, y) => RrfShare(run, y) <= RrfShare(run, x)
<1> DEFINE s == run.hits
<1>1. ToSet(s) = D /\ Len(s) \in Nat
      /\ \A z \in D : Place(s, z) \in 1 .. Len(s)
  BY OrderType, PlaceInOrder
<1>2. Unit \in Nat /\ RrfK \in Nat
  BY RetrievalAssumption
<1>3. \A z \in D : /\ RrfK + Place(s, z) \in Nat /\ 0 < RrfK + Place(s, z)
                   /\ RrfShare(run, z) = Unit \div (RrfK + Place(s, z))
  BY <1>1, <1>2 DEF RrfShare
<1>4. \A z : z \notin D => RrfShare(run, z) = 0
  BY <1>1 DEF RrfShare
<1>5. \A z \in D : RrfShare(run, z) \in Int /\ 0 <= RrfShare(run, z)
  BY <1>2, <1>3
<1>6. ASSUME Better(run, x, y) PROVE RrfShare(run, y) <= RrfShare(run, x)
  <2>1. CASE y \notin D
    BY <2>1, <1>4, <1>5
  <2>2. CASE y \in D
    <3>1. x \in D /\ Place(s, x) < Place(s, y)
      BY <1>1, <1>6, <2>2 DEF Better
    <3>2. RrfK + Place(s, x) <= RrfK + Place(s, y)
      BY <1>1, <1>2, <2>2, <3>1
    <3> DEFINE p == RrfK + Place(s, x) q == RrfK + Place(s, y)
    <3>3. p \in Nat /\ q \in Nat /\ 0 < p /\ p <= q
      BY <1>3, <2>2, <3>1, <3>2
    <3>4. RrfShare(run, x) = Unit \div p /\ RrfShare(run, y) = Unit \div q
      BY <1>3, <2>2, <3>1
    <3> HIDE DEF p, q
    <3>5. Unit \div q <= Unit \div p
      BY <1>2, <3>3, QuotientFalls
    <3> QED
      BY <3>4, <3>5
  <2> QED
    BY <2>1, <2>2
<1> QED
  BY <1>4, <1>5, <1>6

LEMMA WeightedFalls ==
  ASSUME NEW D, NEW run, IsOrder(run.hits, D), NEW x, NEW y, NEW flat \in BOOLEAN,
         NEW weight, weight[run.channel] \in Nat
  PROVE  /\ WeightedShare(weight, flat, run, x) \in Int
         /\ Better(run, x, y) =>
              WeightedShare(weight, flat, run, y) <= WeightedShare(weight, flat, run, x)
<1> DEFINE s == run.hits n == Len(run.hits) w == weight[run.channel]
           part(z) == IF flat \/ n = 1 THEN Unit \div 2
                      ELSE (Unit * (n - Place(s, z))) \div (n - 1)
           S(z) == WeightedShare(weight, flat, run, z)
<1>1. /\ ToSet(s) = D /\ n \in Nat /\ w \in Nat
      /\ \A z \in D : Place(s, z) \in 1 .. n
  BY OrderType, PlaceInOrder
<1>2. Unit \in Nat
  BY RetrievalAssumption
<1>3. \A z : z \notin D => S(z) = 0
  BY <1>1 DEF WeightedShare
<1>4. \A z : z \in D => S(z) = w * part(z)
  BY <1>1 DEF WeightedShare
<1> HIDE DEF s, n, w, S
<1>5. \A z \in D : part(z) \in Nat
  <2> SUFFICES ASSUME NEW z \in D PROVE part(z) \in Nat
    OBVIOUS
  <2>1. CASE flat \/ n = 1
    BY <1>2, <2>1
  <2>2. CASE ~ (flat \/ n = 1)
    <3> DEFINE a == n - Place(s, z) c == n - 1
    <3>1. a \in Nat /\ c \in Nat /\ 0 < c
      BY <1>1, <2>2
    <3>2. part(z) = (Unit * a) \div c
      BY <2>2
    <3> HIDE DEF a, c
    <3>3. Unit * a \in Nat
      BY <1>2, <3>1
    <3>4. (Unit * a) \div c \in Int /\ 0 <= (Unit * a) \div c
      BY <3>1, <3>3, QuotientRises
    <3> QED
      BY <3>2, <3>4
  <2> QED
    BY <2>1, <2>2
<1>6. ASSUME NEW z \in D, NEW v \in D, Place(s, z) < Place(s, v)
      PROVE  part(v) <= part(z)
  <2>1. CASE flat \/ n = 1
    BY <1>2, <2>1
  <2>2. CASE ~ (flat \/ n = 1)
    <3> DEFINE a == n - Place(s, z) e == n - Place(s, v) c == n - 1
    <3>1. a \in Nat /\ e \in Nat /\ e <= a /\ c \in Nat /\ 0 < c
      BY <1>1, <1>6, <2>2
    <3>2. part(z) = (Unit * a) \div c /\ part(v) = (Unit * e) \div c
      BY <2>2
    <3> HIDE DEF a, e, c
    <3> DEFINE f == Unit * a g == Unit * e
    <3>3. f \in Nat /\ g \in Nat /\ g <= f
      BY <1>2, <3>1, ProductRises
    <3> HIDE DEF f, g
    <3>4. g \div c <= f \div c
      BY <3>1, <3>3, QuotientRises
    <3> QED
      BY <3>2, <3>4 DEF f, g
  <2> QED
    BY <2>1, <2>2
<1> HIDE DEF part
<1>7. \A z : S(z) \in Int /\ 0 <= S(z)
  <2> SUFFICES ASSUME NEW z PROVE S(z) \in Int /\ 0 <= S(z)
    OBVIOUS
  <2>1. CASE z \notin D
    BY <1>3, <2>1
  <2>2. CASE z \in D
    <3>1. part(z) \in Nat
      BY <1>5, <2>2
    <3>2. w * part(z) \in Nat
      BY <1>1, <3>1
    <3> QED
      BY <1>4, <2>2, <3>2
  <2> QED
    BY <2>1, <2>2
<1>8. ASSUME Better(run, x, y) PROVE S(y) <= S(x)
  <2>1. CASE y \notin D
    BY <2>1, <1>3, <1>7
  <2>2. CASE y \in D
    <3>1. x \in D /\ Place(s, x) < Place(s, y)
      BY <1>1, <1>8, <2>2 DEF Better, s
    <3>2. part(y) <= part(x) /\ part(y) \in Nat /\ part(x) \in Nat
      BY <1>5, <1>6, <2>2, <3>1
    <3>3. w * part(y) <= w * part(x)
      BY <1>1, <3>2, ProductRises
    <3> QED
      BY <1>4, <2>2, <3>1, <3>3
  <2> QED
    BY <2>1, <2>2
<1> QED
  BY <1>7, <1>8 DEF S

\* What no leg ranks after another, and some leg before it, is first in the fused list:
\* it has no less from each leg, and was seen first.
LEMMA DominanceLaw ==
  ASSUME NEW D, NEW B, IsFiniteSet(D), IsFiniteSet(B),
         NEW d, NEW b, IsOrder(d, D), IsOrder(b, B),
         NEW runs, Legs(runs, d, b), NEW H, D \cup B \in SUBSET H, NEW share,
         share[1] \in [H -> Int], share[2] \in [H -> Int],
         NEW x \in D \cup B, NEW y \in D \cup B, x # y,
         Better(runs[1], x, y), Better(runs[2], x, y),
         share[1][y] <= share[1][x], share[2][y] <= share[2][x]
  PROVE  Place(Fuse(runs, share), x) < Place(Fuse(runs, share), y)
<1> DEFINE S == D \cup B
           seen == FirstSeen(runs)
           score == [z \in S |-> share[1][z] + share[2][z]]
           r == Fuse(runs, share)
<1>1. IsRanking(r, S, score, seen)
  BY FuseLaw
<1>2. score[y] <= score[x] /\ score[x] \in Int /\ score[y] \in Int
  <2>1. /\ share[1][x] \in Int /\ share[1][y] \in Int
        /\ share[2][x] \in Int /\ share[2][y] \in Int
    OBVIOUS
  <2>2. score[x] = share[1][x] + share[2][x] /\ score[y] = share[1][y] + share[2][y]
    OBVIOUS
  <2> HIDE DEF score
  <2> QED
    BY <2>1, <2>2
<1>3. seen[x] < seen[y] /\ seen[x] \in Int /\ seen[y] \in Int
  <2>1. /\ seen \in [S -> Int]
        /\ \A z \in D : seen[z] = Place(d, z)
        /\ \A z \in B \ D : seen[z] = Len(d) + Place(b, z)
    <3>1. SeenBy(seen, d, b, D, B)
      BY SeenLaw
    <3> QED
      BY <3>1 DEF SeenBy
  <2>2. /\ Len(d) \in Nat /\ Len(b) \in Nat /\ ToSet(d) = D /\ ToSet(b) = B
        /\ \A z \in D : Place(d, z) \in 1 .. Len(d)
        /\ \A z \in B : Place(b, z) \in 1 .. Len(b)
    BY OrderType, PlaceInOrder
  <2>3. /\ y \in D => x \in D /\ Place(d, x) < Place(d, y)
        /\ y \in B => x \in B /\ Place(b, x) < Place(b, y)
    BY <2>2 DEF Better, Legs
  <2> HIDE DEF seen
  <2>4. CASE y \in D
    BY <2>1, <2>2, <2>3, <2>4
  <2>5. CASE y \notin D
    <3>1. y \in B \ D /\ x \in B /\ Place(b, x) < Place(b, y)
      BY <2>3, <2>5
    <3>2. CASE x \in D
      <4>1. seen[x] = Place(d, x) /\ seen[y] = Len(d) + Place(b, y)
        BY <2>1, <3>1, <3>2
      <4>2. Place(d, x) \in 1 .. Len(d) /\ Place(b, y) \in 1 .. Len(b)
        BY <2>2, <3>1, <3>2
      <4> QED
        BY <2>2, <4>1, <4>2
    <3>3. CASE x \notin D
      <4>1. seen[x] = Len(d) + Place(b, x) /\ seen[y] = Len(d) + Place(b, y)
        BY <2>1, <3>1, <3>3
      <4>2. Place(b, x) \in 1 .. Len(b) /\ Place(b, y) \in 1 .. Len(b)
        BY <2>2, <3>1
      <4> QED
        BY <2>2, <3>1, <4>1, <4>2
    <3> QED
      BY <3>2, <3>3
  <2> QED
    BY <2>4, <2>5
<1>4. ~ Precedes(score, seen, y, x)
  BY <1>2, <1>3 DEF Precedes
<1> HIDE DEF score, seen, r, S
<1>5. IsOrder(r, S) /\ Len(r) = Cardinality(S)
      /\ \A i, j \in 1 .. Len(r) : i < j => Precedes(score, seen, r[i], r[j])
  BY <1>1 DEF IsRanking, IsOrder
<1>6. /\ Len(r) \in Nat
      /\ Place(r, x) \in 1 .. Len(r) /\ r[Place(r, x)] = x
      /\ Place(r, y) \in 1 .. Len(r) /\ r[Place(r, y)] = y
  <2>1. x \in S /\ y \in S
    BY DEF S
  <2> QED
    BY <1>5, <2>1, OrderType, PlaceInOrder
<1>7. ~ (Place(r, y) < Place(r, x))
  BY <1>4, <1>5, <1>6
<1>8. Place(r, x) # Place(r, y)
  BY <1>6
<1>9. Place(r, x) \in Int /\ Place(r, y) \in Int
  BY <1>6
<1> QED
  BY <1>7, <1>8, <1>9 DEF r

\* The inputs: lists without repetitions.
LEMMA OrdersLaw ==
  ASSUME NEW H, IsFiniteSet(H)
  PROVE  /\ \A s \in Orders(H) : IsOrder(s, ToSet(s)) /\ IsFiniteSet(ToSet(s))
                                 /\ ToSet(s) \subseteq H
         /\ \A s \in SetToSeqs(H) : IsOrder(s, H)
         /\ SetToSeqs(H) \subseteq Orders(H)
<1>1. ASSUME NEW T \in SUBSET H, NEW s \in SetToSeqs(T)
      PROVE  IsOrder(s, ToSet(s)) /\ IsFiniteSet(ToSet(s)) /\ ToSet(s) = T
  <2> DEFINE n == Cardinality(T)
  <2>1. IsFiniteSet(T) /\ n \in Nat
    BY FS_Subset, FS_CardinalityType
  <2>2. s \in [1 .. n -> T] /\ \A i, j \in 1 .. n : s[i] = s[j] => i = j
    BY DEF SetToSeqs
  <2> HIDE DEF n
  <2>3. IsOrder(s, ToSet(s)) /\ Len(s) = n /\ ToSet(s) \subseteq T
        /\ IsFiniteSet(ToSet(s))
    BY <2>1, <2>2, ListIsOrder
  <2>4. Cardinality(ToSet(s)) = Cardinality(T)
    BY <2>3 DEF IsOrder, n
  <2>5. ToSet(s) = T
    BY <2>1, <2>3, <2>4, FS_Subset
  <2> QED
    BY <2>3, <2>5
<1>2. \A s \in Orders(H) : \E T \in SUBSET H : s \in SetToSeqs(T)
  BY DEF Orders
<1>3. H \in SUBSET H /\ SetToSeqs(H) \subseteq Orders(H)
  BY DEF Orders
<1> QED
  BY <1>1, <1>2, <1>3

-----------------------------------------------------------------------------
(* The cases, and what each kind of them has.                              *)

FusionOf(dense, bm25, method, wd, wb, flat) ==
  [kind |-> "fusion",
   runs |-> <<[channel |-> "dense", hits |-> dense],
              [channel |-> "bm25", hits |-> bm25]>>,
   method |-> method, flat |-> flat,
   weight |-> [c \in {"dense", "bm25"} |-> IF c = "dense" THEN wd ELSE wb]]

FusionCase ==
  \E dense, bm25 \in Orders(Hits), method \in {"rrf", "weighted"},
     wd, wb \in Nat, flat \in BOOLEAN :
    case = FusionOf(dense, bm25, method, wd, wb, flat)

LEMMA FusionDominates == ASSUME FusionCase PROVE DominanceKept
<1>0. PICK dense \in Orders(Hits), bm25 \in Orders(Hits),
           method \in {"rrf", "weighted"}, wd \in Nat, wb \in Nat,
           flat \in BOOLEAN :
        case = FusionOf(dense, bm25, method, wd, wb, flat)
  BY DEF FusionCase
<1>1. case = [kind |-> "fusion",
              runs |-> <<[channel |-> "dense", hits |-> dense],
                         [channel |-> "bm25", hits |-> bm25]>>,
              method |-> method, flat |-> flat,
              weight |-> [c \in {"dense", "bm25"} |->
                            IF c = "dense" THEN wd ELSE wb]]
  BY <1>0 DEF FusionOf
<1> DEFINE runs == case.runs D == ToSet(dense) B == ToSet(bm25)
           share == SharesOf(runs)
<1>2. /\ runs[1].hits = dense /\ runs[2].hits = bm25
      /\ runs[1].channel = "dense" /\ runs[2].channel = "bm25"
      /\ DOMAIN runs = 1 .. 2 /\ Len(runs) = 2 /\ ToSet(runs) = {runs[1], runs[2]}
  <2>1. runs = <<[channel |-> "dense", hits |-> dense],
                 [channel |-> "bm25", hits |-> bm25]>>
    BY <1>1
  <2> HIDE DEF runs
  <2>2. /\ DOMAIN runs = 1 .. 2 /\ Len(runs) = 2
        /\ runs[1] = [channel |-> "dense", hits |-> dense]
        /\ runs[2] = [channel |-> "bm25", hits |-> bm25]
    BY <2>1
  <2>3. ToSet(runs) = {runs[1], runs[2]}
    <3>1. \A i \in 1 .. 2 : i = 1 \/ i = 2
      OBVIOUS
    <3> QED
      BY <2>2, <3>1 DEF ToSet
  <2> QED
    BY <2>2, <2>3
<1>3. /\ case.kind = "fusion" /\ case.method = method /\ case.flat = flat
      /\ case.weight["dense"] = wd /\ case.weight["bm25"] = wb
  BY <1>1
<1>4. Legs(runs, dense, bm25)
  BY <1>2 DEF Legs
<1>5. /\ IsFiniteSet(D) /\ IsFiniteSet(B) /\ D \cup B \subseteq Hits
      /\ IsOrder(dense, D) /\ IsOrder(bm25, B)
  <2>1. IsFiniteSet(Hits)
    BY RetrievalAssumption
  <2> QED
    BY <2>1, OrdersLaw
<1> DEFINE weigh == case.weight
           give(i, x) == IF case.method = "weighted"
                         THEN WeightedShare(weigh, case.flat, runs[i], x)
                         ELSE RrfShare(runs[i], x)
<1>6. share = [i \in 1 .. 2 |-> [x \in Hits |-> give(i, x)]]
  BY <1>2, <1>3 DEF SharesOf
<1>7. ASSUME NEW i \in 1 .. 2, NEW x, NEW y
      PROVE  /\ give(i, x) \in Int
             /\ Better(runs[i], x, y) => give(i, y) <= give(i, x)
  <2>1. \E E : IsOrder(runs[i].hits, E)
    <3>1. i = 1 \/ i = 2
      OBVIOUS
    <3> QED
      BY <1>2, <1>5, <3>1
  <2>2. PICK E : IsOrder(runs[i].hits, E)
    BY <2>1
  <2>3. weigh[runs[i].channel] \in Nat /\ case.flat \in BOOLEAN
    <3>1. i = 1 \/ i = 2
      OBVIOUS
    <3> QED
      BY <1>2, <1>3, <3>1
  <2> DEFINE run == runs[i] f == case.flat
  <2>4. IsOrder(run.hits, E) /\ weigh[run.channel] \in Nat /\ f \in BOOLEAN
    BY <2>2, <2>3
  <2> HIDE DEF weigh, run, f
  <2>5. /\ WeightedShare(weigh, f, run, x) \in Int
        /\ Better(run, x, y) =>
             WeightedShare(weigh, f, run, y) <= WeightedShare(weigh, f, run, x)
    BY <2>4, WeightedFalls
  <2>6. /\ RrfShare(run, x) \in Int
        /\ Better(run, x, y) => RrfShare(run, y) <= RrfShare(run, x)
    BY <2>4, RrfFalls
  <2> QED
    BY <2>5, <2>6 DEF run, f
<1> HIDE DEF give, D, B, share
<1>8. /\ share[1] \in [Hits -> Int] /\ share[2] \in [Hits -> Int]
      /\ \A i \in 1 .. 2 : \A x \in Hits : share[i][x] = give(i, x)
  BY <1>6, <1>7
<1> HIDE DEF runs
<1>9. ToSet(Fuse(runs, share)) = D \cup B
  <2> DEFINE r == Fuse(runs, share)
             score == [x \in D \cup B |-> share[1][x] + share[2][x]]
  <2>1. IsRanking(r, D \cup B, score, FirstSeen(runs))
    BY <1>4, <1>5, <1>8, FuseLaw
  <2> HIDE DEF r, score
  <2>2. IsOrder(r, D \cup B)
    BY <2>1 DEF IsRanking
  <2>3. ToSet(r) = D \cup B
    BY <2>2, OrderType
  <2> QED
    BY <2>3 DEF r
<1>10. ASSUME NEW x \in D \cup B, NEW y \in D \cup B, x # y,
              Better(runs[1], x, y), Better(runs[2], x, y)
       PROVE  Place(Fuse(runs, share), x) < Place(Fuse(runs, share), y)
  <2>1. 1 \in 1 .. 2 /\ 2 \in 1 .. 2 /\ x \in Hits /\ y \in Hits
    BY <1>5
  <2>2. share[1][y] <= share[1][x]
    BY <1>7, <1>8, <1>10, <2>1
  <2>3. share[2][y] <= share[2][x]
    BY <1>7, <1>8, <1>10, <2>1
  <2> QED
    BY <1>4, <1>5, <1>8, <1>10, <2>2, <2>3, DominanceLaw
<1> QED
  BY <1>2, <1>9, <1>10 DEF DominanceKept, share, runs

-----------------------------------------------------------------------------
(* The legs under the filter.                                              *)

\* The store's best under the filter, and the graph's.
LEMMA StoreLegLaw ==
  ASSUME NEW T, IsFiniteSet(T), NEW order, IsOrder(order, T), NEW f, NEW limit \in Nat,
         NEW name
  PROVE  /\ \A x \in ToSet(StoreLeg(name, order, f, limit).hits) :
              x \in T /\ StoreAllows(f, x)
         /\ StoreLeg(name, order, f, limit).channel = name
<1> DEFINE X == {x \in ToSet(order) : StoreAllows(f, x)}
           s == InOrder(X, order)
           leg == StoreLeg(name, order, f, limit)
<1>1. X \in SUBSET T /\ ToSet(order) = T
  BY OrderType
<1>2. /\ leg.channel = name
      /\ leg.hits = IF Matches(f) THEN First(s, limit) ELSE <<>>
  BY DEF StoreLeg
<1>3. \A x \in X : x \in T /\ StoreAllows(f, x)
  BY <1>1
<1> HIDE DEF X, s, leg
<1>4. IsOrder(s, X)
  BY <1>1, InOrderLaw DEF s
<1>5. ToSet(First(s, limit)) \subseteq X
  BY <1>4, FirstOfOrder
<1>6. ToSet(<<>>) = {}
  BY DEF ToSet
<1>7. ToSet(leg.hits) \subseteq X
  BY <1>2, <1>5, <1>6
<1> QED
  BY <1>2, <1>3, <1>7 DEF leg

LEMMA BiggestOf ==
  ASSUME NEW S \in SUBSET (1 .. 2), S # {}
  PROVE  Biggest(S) \in S
<1>1. \E n \in S : \A m \in S : m <= n
  <2>1. CASE 2 \in S
    BY <2>1
  <2>2. CASE 2 \notin S
    <3>1. \A m \in S : m \in 1 .. 2 /\ m # 2
      BY <2>2
    <3>2. \A m \in S : m = 1
      BY <3>1
    <3>3. PICK n \in S : n = 1
      BY <3>2
    <3> QED
      BY <3>2, <3>3
  <2> QED
    BY <2>1, <2>2
<1> QED
  BY <1>1 DEF Biggest

LEMMA ScoredLaw ==
  ASSUME NEW S, NEW g \in Scored(S), NEW n \in DOMAIN g
  PROVE  g[n] \in 1 .. 2
<1>1. PICK T \in SUBSET S : g \in [T -> 1 .. 2]
  BY DEF Scored
<1> QED
  BY <1>1

LEMMA GraphLegLaw ==
  ASSUME NEW nodes \in Scored(Nodes), NEW groups \in Scored(Groups), NEW f
  PROVE  /\ \A x \in ToSet(GraphLeg(nodes, groups, f).hits) :
              x \in Hits /\ GraphAllows(f, x)
         /\ GraphLeg(nodes, groups, f).channel = "graph"
<1> DEFINE score == [x \in Hits |-> GraphScores(nodes, groups, x)]
           found == {x \in Hits : score[x] # {} /\ GraphAllows(f, x) /\ Matches(f)}
           best == [x \in found |-> Biggest(score[x])]
           tie == [x \in found |-> x]
           leg == GraphLeg(nodes, groups, f)
<1>1. leg.channel = "graph" /\ leg.hits = Ranked(found, best, tie)
  BY DEF GraphLeg
<1>2. \A x \in Hits : score[x] \in SUBSET (1 .. 2)
  BY ScoredLaw DEF GraphScores
<1>3. best \in [found -> Int]
  <2>1. \A x \in found : score[x] \in SUBSET (1 .. 2) /\ score[x] # {}
    BY <1>2
  <2> HIDE DEF score, found
  <2>2. \A x \in found : Biggest(score[x]) \in score[x]
    BY <2>1, BiggestOf
  <2>3. \A x \in found : Biggest(score[x]) \in Int
    BY <2>1, <2>2
  <2> QED
    BY <2>3
<1>4. IsFiniteSet(found) /\ tie \in [found -> Int] /\ Distinct(tie, found)
  <2>1. IsFiniteSet(Hits) /\ Hits \subseteq Nat
    BY RetrievalAssumption
  <2>2. found \subseteq Hits
    OBVIOUS
  <2> HIDE DEF found
  <2>3. IsFiniteSet(found)
    BY <2>1, <2>2, FS_Subset
  <2> QED
    BY <2>1, <2>2, <2>3 DEF Distinct
<1>5. \A x \in found : x \in Hits /\ GraphAllows(f, x)
  OBVIOUS
<1> HIDE DEF best, found, tie, leg
<1>6. IsRanking(Ranked(found, best, tie), found, best, tie)
  BY <1>3, <1>4, RankedLaw
<1>7. ToSet(leg.hits) = found
  <2>1. IsOrder(leg.hits, found)
    BY <1>1, <1>6 DEF IsRanking
  <2> QED
    BY <2>1, OrderType
<1> QED
  BY <1>1, <1>5, <1>7 DEF leg

RecallCase ==
  \E f \in [doc : {NoFile} \cup Files, files : SUBSET Files, below : Nat],
     dense, bm25 \in Orders(Hits), limit \in Nat,
     nodes \in Scored(Nodes), groups \in Scored(Groups) :
    case = [kind |-> "recall", filter |-> f,
            runs |-> <<StoreLeg("dense", dense, f, limit),
                       StoreLeg("bm25", bm25, f, limit),
                       GraphLeg(nodes, groups, f)>>]

LEMMA RecallHoldsFilter == ASSUME RecallCase PROVE FilterHeld
<1>1. PICK f \in [doc : {NoFile} \cup Files, files : SUBSET Files, below : Nat],
           dense \in Orders(Hits), bm25 \in Orders(Hits), limit \in Nat,
           nodes \in Scored(Nodes), groups \in Scored(Groups) :
        case = [kind |-> "recall", filter |-> f,
                runs |-> <<StoreLeg("dense", dense, f, limit),
                           StoreLeg("bm25", bm25, f, limit),
                           GraphLeg(nodes, groups, f)>>]
  BY DEF RecallCase
<1> DEFINE one == StoreLeg("dense", dense, f, limit)
           two == StoreLeg("bm25", bm25, f, limit)
           three == GraphLeg(nodes, groups, f)
<1>2. /\ IsOrder(dense, ToSet(dense)) /\ IsFiniteSet(ToSet(dense))
      /\ IsOrder(bm25, ToSet(bm25)) /\ IsFiniteSet(ToSet(bm25))
  <2>1. IsFiniteSet(Hits)
    BY RetrievalAssumption
  <2> QED
    BY <2>1, OrdersLaw
<1>3. /\ \A x \in ToSet(one.hits) : StoreAllows(f, x)
      /\ one.channel = "dense"
  BY <1>2, StoreLegLaw
<1>4. /\ \A x \in ToSet(two.hits) : StoreAllows(f, x)
      /\ two.channel = "bm25"
  BY <1>2, StoreLegLaw
<1>5. /\ \A x \in ToSet(three.hits) : GraphAllows(f, x)
      /\ three.channel = "graph"
  BY GraphLegLaw
<1>6. case.filter = f /\ case.runs = <<one, two, three>>
  BY <1>1
<1> HIDE DEF one, two, three
<1>7. ToSet(case.runs) \subseteq {one, two, three}
  <2> DEFINE runs == <<one, two, three>>
  <2>1. DOMAIN runs = 1 .. 3 /\ runs[1] = one /\ runs[2] = two /\ runs[3] = three
    OBVIOUS
  <2> HIDE DEF runs
  <2>2. \A i \in 1 .. 3 : i = 1 \/ i = 2 \/ i = 3
    OBVIOUS
  <2>3. ToSet(runs) \subseteq {one, two, three}
    BY <2>1, <2>2 DEF ToSet
  <2> QED
    BY <1>6, <2>3 DEF runs
<1>8. ASSUME NEW run \in ToSet(case.runs), NEW x \in ToSet(run.hits)
      PROVE  /\ FileOf[x] \in f.files /\ IndexOf[x] < f.below
             /\ run.channel # "graph" => f.doc \in {NoFile, FileOf[x]}
  <2>1. CASE run = one
    BY <1>3, <1>8, <2>1 DEF StoreAllows
  <2>2. CASE run = two
    BY <1>4, <1>8, <2>2 DEF StoreAllows
  <2>3. CASE run = three
    BY <1>5, <1>8, <2>3 DEF GraphAllows
  <2> QED
    BY <1>7, <2>1, <2>2, <2>3
<1> QED
  BY <1>6, <1>8 DEF FilterHeld

-----------------------------------------------------------------------------
(* The answer.                                                             *)

IsFused(fused, F) == F \in SUBSET Hits /\ IsFiniteSet(F) /\ IsOrder(fused, F)

\* Diversity and the cut before the reranker: how many are left.
LEMMA GivenLaw ==
  ASSUME NEW F, NEW s, IsFused(s, F), NEW order, IsOrder(order, Hits)
  PROVE  /\ IsFused(Given(order, s), F) /\ Len(Given(order, s)) = Len(s)
         /\ \A i, j \in 1 .. Len(Given(order, s)) : i < j =>
              Place(order, Given(order, s)[i]) < Place(order, Given(order, s)[j])
<1>1. IsFiniteSet(Hits)
  BY RetrievalAssumption
<1>2. ToSet(s) = F /\ Len(s) = Cardinality(F) /\ F \in SUBSET Hits /\ IsFiniteSet(F)
  <2>1. IsOrder(s, F) /\ F \in SUBSET Hits /\ IsFiniteSet(F)
    BY DEF IsFused
  <2> QED
    BY <2>1, OrderType DEF IsOrder
<1> DEFINE r == InOrder(F, order)
<1>3. Given(order, s) = r
  BY <1>2 DEF Given
<1> HIDE DEF r
<1>4. /\ IsOrder(r, F)
      /\ \A i, j \in 1 .. Len(r) : i < j => Place(order, r[i]) < Place(order, r[j])
  BY <1>1, <1>2, InOrderLaw DEF r
<1>5. Len(r) = Len(s)
  BY <1>2, <1>4 DEF IsOrder
<1>6. IsFused(r, F)
  BY <1>2, <1>4 DEF IsFused
<1> QED
  BY <1>3, <1>4, <1>5, <1>6

LEMMA CutLaw ==
  ASSUME NEW F, NEW s, IsFused(s, F), NEW k \in Nat
  PROVE  /\ IsFused(First(s, k), ToSet(First(s, k)))
         /\ ToSet(First(s, k)) \subseteq F
         /\ Len(s) \in Nat
         /\ Len(First(s, k)) = Shorter(k, s)
         /\ \A i \in 1 .. Len(First(s, k)) : First(s, k)[i] = s[i]
<1>1. IsOrder(s, F) /\ F \in SUBSET Hits
  BY DEF IsFused
<1> DEFINE f == First(s, k)
<1>2. /\ IsOrder(f, ToSet(f)) /\ ToSet(f) \subseteq F /\ IsFiniteSet(ToSet(f))
      /\ Len(f) = Shorter(k, s)
      /\ \A i \in 1 .. Len(f) : f[i] = s[i]
  BY <1>1, FirstOfOrder
<1>3. Len(s) \in Nat
  BY <1>1, OrderType
<1> HIDE DEF f
<1>4. IsFused(f, ToSet(f))
  BY <1>1, <1>2 DEF IsFused
<1> QED
  BY <1>2, <1>3, <1>4 DEF f

AnswerParams(q) ==
  /\ q.top \in Nat /\ q.pool \in Nat /\ q.mmr \in BOOLEAN /\ q.rerank \in BOOLEAN
  /\ IsOrder(q.diverse, Hits) /\ IsOrder(q.reranked, Hits)
  /\ q.rerank => q.top <= q.pool

LEMMA DiversifiedLaw ==
  ASSUME NEW q, AnswerParams(q), NEW F, NEW s, IsFused(s, F)
  PROVE  /\ IsFused(Diversified(q, s), ToSet(Diversified(q, s)))
         /\ ToSet(Diversified(q, s)) \subseteq F
         /\ Len(Diversified(q, s)) = IF q.mmr THEN Shorter(SelectCount(q), s) ELSE Len(s)
<1>1. CASE ~ q.mmr
  <2>1. Diversified(q, s) = s
    BY <1>1 DEF Diversified
  <2>2. ToSet(s) = F
    <3>1. IsOrder(s, F)
      BY DEF IsFused
    <3> QED
      BY <3>1, OrderType
  <2> QED
    BY <1>1, <2>1, <2>2
<1>2. CASE q.mmr
  <2> DEFINE n == SelectCount(q)
             k == IF 2 * n > MmrFloor THEN 2 * n ELSE MmrFloor
             p == First(s, k)
             g == Given(q.diverse, p)
             d == First(g, n)
  <2>1. Diversified(q, s) = d
    <3>1. MmrPool(q, s) = p
      BY DEF MmrPool
    <3> QED
      BY <1>2, <3>1 DEF Diversified
  <2>2. n \in Nat /\ IsOrder(q.diverse, Hits)
    BY DEF AnswerParams, SelectCount
  <2>a. k \in Nat /\ n <= k
    <3>1. MmrFloor \in Nat
      BY RetrievalAssumption
    <3> HIDE DEF n
    <3> QED
      BY <2>2, <3>1
  <2> HIDE DEF k, n
  <2>b. /\ IsFused(p, ToSet(p)) /\ ToSet(p) \subseteq F
        /\ Len(s) \in Nat /\ Len(p) = Shorter(k, s)
    BY <2>a, CutLaw
  <2> HIDE DEF p
  <2>3. IsFused(g, ToSet(p)) /\ Len(g) = Len(p)
    BY <2>2, <2>b, GivenLaw
  <2> HIDE DEF g
  <2>4. /\ IsFused(d, ToSet(d)) /\ ToSet(d) \subseteq F
        /\ Len(d) = Shorter(n, g)
    BY <2>2, <2>3, <2>b, CutLaw
  <2>5. Shorter(n, g) = Shorter(n, s)
    BY <2>2, <2>3, <2>a, <2>b DEF Shorter
  <2> HIDE DEF d
  <2> QED
    BY <1>2, <2>1, <2>4, <2>5 DEF n
<1> QED
  BY <1>1, <1>2

LEMMA InputLaw ==
  ASSUME NEW q, AnswerParams(q), NEW F, NEW s, IsFused(s, F)
  PROVE  /\ IsFused(RerankInput(q, s), ToSet(RerankInput(q, s)))
         /\ ToSet(RerankInput(q, s)) \subseteq F
         /\ q.rerank => Len(RerankInput(q, s)) = Shorter(q.pool, s)
<1> DEFINE d == Diversified(q, s) r == First(d, q.pool)
<1>1. RerankInput(q, s) = r
  BY DEF RerankInput
<1>2. q.pool \in Nat /\ q.mmr \in BOOLEAN
  BY DEF AnswerParams
<1>3. IsFused(d, ToSet(d)) /\ ToSet(d) \subseteq F
      /\ Len(d) = IF q.mmr THEN Shorter(SelectCount(q), s) ELSE Len(s)
  BY DiversifiedLaw
<1> HIDE DEF d
<1>4. IsFused(r, ToSet(r)) /\ ToSet(r) \subseteq ToSet(d) /\ Len(r) = Shorter(q.pool, d)
  BY <1>2, <1>3, CutLaw
<1>5. Len(s) \in Nat
  BY <1>2, CutLaw
<1>6. q.rerank => Shorter(q.pool, d) = Shorter(q.pool, s)
  BY <1>2, <1>3, <1>5 DEF Shorter, SelectCount
<1> HIDE DEF r
<1> QED
  BY <1>1, <1>3, <1>4, <1>6

\* The cuts cost the answer no place.
LEMMA AnswerLaw ==
  ASSUME NEW q, AnswerParams(q), NEW F, NEW s, IsFused(s, F)
  PROVE  /\ IsFused(AnswerLeaves(q, s), ToSet(AnswerLeaves(q, s)))
         /\ ToSet(AnswerLeaves(q, s)) \subseteq F
         /\ Len(AnswerLeaves(q, s)) = Shorter(q.top, s)
         /\ q.rerank => \A i, j \in 1 .. Len(AnswerLeaves(q, s)) : i < j =>
              Place(q.reranked, AnswerLeaves(q, s)[i])
                < Place(q.reranked, AnswerLeaves(q, s)[j])
         /\ ~ q.mmr /\ ~ q.rerank => AnswerLeaves(q, s) = First(s, q.top)
<1>1. /\ q.top \in Nat /\ q.pool \in Nat /\ q.mmr \in BOOLEAN /\ q.rerank \in BOOLEAN
      /\ IsOrder(q.reranked, Hits)
      /\ q.rerank => q.top <= q.pool
  BY DEF AnswerParams
<1>2. Len(s) \in Nat
  BY <1>1, CutLaw
<1> DEFINE a == AnswerLeaves(q, s)
<1>3. CASE ~ q.rerank
  <2> DEFINE d == Diversified(q, s)
  <2>1. a = First(d, q.top)
    BY <1>3 DEF AnswerLeaves
  <2>2. IsFused(d, ToSet(d)) /\ ToSet(d) \subseteq F
        /\ Len(d) = IF q.mmr THEN Shorter(SelectCount(q), s) ELSE Len(s)
    BY DiversifiedLaw
  <2>3. ~ q.mmr => d = s
    BY DEF Diversified
  <2> HIDE DEF d, a
  <2>4. IsFused(a, ToSet(a)) /\ ToSet(a) \subseteq ToSet(d) /\ Len(a) = Shorter(q.top, d)
    BY <1>1, <2>1, <2>2, CutLaw
  <2>5. Shorter(q.top, d) = Shorter(q.top, s)
    BY <1>1, <1>2, <1>3, <2>2 DEF Shorter, SelectCount
  <2> QED
    BY <1>3, <2>1, <2>2, <2>3, <2>4, <2>5 DEF a
<1>4. CASE q.rerank
  <2> DEFINE p == RerankInput(q, s) g == Given(q.reranked, p) c == First(g, q.top)
  <2>1. a = c
    BY <1>4 DEF AnswerLeaves
  <2>2. IsFused(p, ToSet(p)) /\ ToSet(p) \subseteq F /\ Len(p) = Shorter(q.pool, s)
    BY <1>4, InputLaw
  <2> HIDE DEF p
  <2>3. /\ IsFused(g, ToSet(p)) /\ Len(g) = Len(p)
        /\ \A i, j \in 1 .. Len(g) : i < j =>
             Place(q.reranked, g[i]) < Place(q.reranked, g[j])
    BY <1>1, <2>2, GivenLaw
  <2> HIDE DEF g
  <2>4. /\ IsFused(c, ToSet(c)) /\ ToSet(c) \subseteq ToSet(p)
        /\ Len(g) \in Nat /\ Len(c) = Shorter(q.top, g)
        /\ \A i \in 1 .. Len(c) : c[i] = g[i]
    BY <1>1, <2>3, CutLaw
  <2> HIDE DEF a, c
  <2>5. Shorter(q.top, g) = Shorter(q.top, s)
    BY <1>1, <1>2, <1>4, <2>2, <2>3 DEF Shorter
  <2>6. \A i \in 1 .. Len(c) : i \in 1 .. Len(g)
    BY <1>1, <2>4 DEF Shorter
  <2>7. \A i, j \in 1 .. Len(c) : i < j =>
             Place(q.reranked, c[i]) < Place(q.reranked, c[j])
    BY <2>3, <2>4, <2>6
  <2>8. /\ IsFused(a, ToSet(a)) /\ ToSet(a) \subseteq F /\ Len(a) = Shorter(q.top, s)
        /\ \A i, j \in 1 .. Len(a) : i < j =>
             Place(q.reranked, a[i]) < Place(q.reranked, a[j])
    BY <2>1, <2>2, <2>4, <2>5, <2>7
  <2> QED
    BY <1>4, <2>8 DEF a
<1> QED
  BY <1>1, <1>3, <1>4

AnswerOf(dense, bm25, top, pool, mmr, rerank, diverse, reranked) ==
  [kind |-> "answer",
   runs |-> <<[channel |-> "dense", hits |-> dense],
              [channel |-> "bm25", hits |-> bm25]>>,
   q |-> [top |-> top, pool |-> pool, mmr |-> mmr, rerank |-> rerank,
          diverse |-> diverse, reranked |-> reranked]]

AnswerCase ==
  \E dense, bm25 \in Orders(Hits), top, pool \in Nat, mmr, rerank \in BOOLEAN,
     diverse, reranked \in SetToSeqs(Hits) :
    /\ rerank => top <= pool
    /\ case = AnswerOf(dense, bm25, top, pool, mmr, rerank, diverse, reranked)

LEMMA AnswerIsFilled == ASSUME AnswerCase PROVE AnswerFilled
<1>a. PICK dense \in Orders(Hits), bm25 \in Orders(Hits), top \in Nat, pool \in Nat,
           mmr \in BOOLEAN, rerank \in BOOLEAN,
           diverse \in SetToSeqs(Hits), reranked \in SetToSeqs(Hits) :
        /\ rerank => top <= pool
        /\ case = AnswerOf(dense, bm25, top, pool, mmr, rerank, diverse, reranked)
  BY DEF AnswerCase
<1>1. /\ rerank => top <= pool
      /\ case = [kind |-> "answer",
                 runs |-> <<[channel |-> "dense", hits |-> dense],
                            [channel |-> "bm25", hits |-> bm25]>>,
                 q |-> [top |-> top, pool |-> pool, mmr |-> mmr, rerank |-> rerank,
                        diverse |-> diverse, reranked |-> reranked]]
  BY <1>a DEF AnswerOf
<1> DEFINE runs == case.runs q == case.q D == ToSet(dense) B == ToSet(bm25)
           share == SharesOf(runs) fused == Fuse(runs, share)
<1>0. IsFiniteSet(Hits)
  BY RetrievalAssumption
<1>2. /\ runs[1].hits = dense /\ runs[2].hits = bm25
      /\ DOMAIN runs = 1 .. 2 /\ Len(runs) = 2
  <2>1. runs = <<[channel |-> "dense", hits |-> dense],
                 [channel |-> "bm25", hits |-> bm25]>>
    BY <1>1
  <2> HIDE DEF runs
  <2> QED
    BY <2>1
<1>3. AnswerParams(q)
  <2>1. IsOrder(diverse, Hits) /\ IsOrder(reranked, Hits)
    BY <1>0, OrdersLaw
  <2>2. q = [top |-> top, pool |-> pool, mmr |-> mmr, rerank |-> rerank,
             diverse |-> diverse, reranked |-> reranked]
    BY <1>1
  <2> HIDE DEF q
  <2> QED
    BY <1>1, <2>1, <2>2 DEF AnswerParams
<1>4. /\ IsFiniteSet(D) /\ IsFiniteSet(B) /\ D \cup B \subseteq Hits
      /\ IsOrder(dense, D) /\ IsOrder(bm25, B)
  BY <1>0, OrdersLaw
<1>5. share[1] \in [Hits -> Int] /\ share[2] \in [Hits -> Int]
  <2>1. case.kind # "fusion"
    BY <1>1
  <2>2. /\ share[1] = [x \in Hits |-> RrfShare(runs[1], x)]
        /\ share[2] = [x \in Hits |-> RrfShare(runs[2], x)]
    BY <1>2, <2>1 DEF SharesOf
  <2> HIDE DEF share, runs, D, B
  <2>3. \A x : RrfShare(runs[1], x) \in Int /\ RrfShare(runs[2], x) \in Int
    BY <1>2, <1>4, RrfFalls
  <2> QED
    BY <2>2, <2>3
<1>6. IsFused(fused, D \cup B)
  <2> DEFINE score == [x \in D \cup B |-> share[1][x] + share[2][x]]
  <2>1. Legs(runs, dense, bm25)
    BY <1>2 DEF Legs
  <2> HIDE DEF runs, D, B, share
  <2>2. IsRanking(fused, D \cup B, score, FirstSeen(runs))
    BY <1>4, <1>5, <2>1, FuseLaw
  <2>3. IsOrder(fused, D \cup B)
    BY <2>2 DEF IsRanking
  <2>4. IsFiniteSet(D \cup B)
    BY <1>4, FS_Union
  <2> QED
    BY <1>4, <2>3, <2>4 DEF IsFused
<1> DEFINE F == D \cup B answer == AnswerLeaves(q, fused)
<1> HIDE DEF q, F, fused
<1>7. IsFused(fused, F)
  BY <1>6 DEF F
<1>8. /\ IsFused(answer, ToSet(answer))
      /\ ToSet(answer) \subseteq F
      /\ Len(answer) = Shorter(q.top, fused)
      /\ q.rerank => \A i, j \in 1 .. Len(answer) : i < j =>
           Place(q.reranked, answer[i]) < Place(q.reranked, answer[j])
      /\ ~ q.mmr /\ ~ q.rerank => answer = First(fused, q.top)
  BY <1>3, <1>7, AnswerLaw
<1>9. q.rerank => Len(RerankInput(q, fused)) = Shorter(q.pool, fused)
  BY <1>3, <1>7, InputLaw
<1> HIDE DEF answer
<1>10. ToSet(fused) = F
  BY <1>7, OrderType DEF IsFused
<1>11. DOMAIN answer = 1 .. Len(answer) /\ IsInjective(answer)
  <2>1. IsOrder(answer, ToSet(answer))
    BY <1>8 DEF IsFused
  <2>2. DOMAIN answer = 1 .. Len(answer)
        /\ \A i, j \in 1 .. Len(answer) : answer[i] = answer[j] => i = j
    BY <2>1, OrderType
  <2> QED
    BY <2>2 DEF IsInjective
<1>12. ASSUME ~ q.mmr, ~ q.rerank PROVE IsPrefix(answer, fused)
  <2> DEFINE m == Shorter(q.top, fused)
  <2>1. answer = First(fused, q.top) /\ Len(answer) = m
    BY <1>8, <1>12
  <2>2. answer = SubSeq(fused, 1, m)
    BY <2>1 DEF First, Shorter
  <2>3. Len(fused) \in Nat /\ q.top \in Nat
    BY <1>3, <1>7, CutLaw DEF AnswerParams
  <2>4. m \in Nat /\ m <= Len(fused)
    BY <2>3 DEF Shorter
  <2> HIDE DEF m
  <2>5. answer \in Seq(ToSet(answer))
    <3>1. IsOrder(answer, ToSet(answer))
      BY <1>8 DEF IsFused
    <3> QED
      BY <3>1, OrderType
  <2>6. SubSeq(answer, 1, Len(answer)) = answer
    BY <2>5, SubSeqFull
  <2> QED
    BY <2>1, <2>2, <2>4, <2>6 DEF IsPrefix
<1> QED
  BY <1>8, <1>9, <1>10, <1>11, <1>12 DEF AnswerFilled, answer, fused, q, Shorter

-----------------------------------------------------------------------------
(* The context.                                                            *)

\* What the sizes from m to j add up to grows by one size at a time.
LEMMA SumStep ==
  ASSUME NEW s \in Seq(Nat), NEW m \in 1 .. Len(s), NEW j \in m .. Len(s)
  PROVE  /\ Total(SubSeq(s, m, j - 1)) \in Int
         /\ Total(SubSeq(s, m, j)) = Total(SubSeq(s, m, j - 1)) + s[j]
<1> DEFINE t == SubSeq(s, m, j - 1)
<1>0. Len(s) \in Nat /\ m \in Int /\ j \in Int /\ j \in 1 .. Len(s) /\ s[j] \in Nat
  BY LenProperties
<1>1. t \in Seq(Int)
  <2>1. \A i \in m .. j - 1 : s[i] \in Int
    BY <1>0, LenProperties
  <2>2. j - 1 \in Int
    BY <1>0
  <2> QED
    BY <1>0, <2>1, <2>2, SubSeqProperties
<1>2. SubSeq(s, m, j) = t \o <<s[j]>>
  BY SubSeqRecursiveSecond
<1> HIDE DEF t
<1>3. t \o <<s[j]>> = Append(t, s[j])
  BY <1>0, <1>1, AppendIsConcat
<1>4. Total(t) \in Int /\ Total(Append(t, s[j])) = Total(t) + s[j]
  <2>1. s[j] \in Int
    BY <1>0
  <2> QED
    BY <1>1, <2>1, TotalLaw
<1> QED
  BY <1>2, <1>3, <1>4 DEF t

\* The sums of all sizes, and of those after the first.
LEMMA SumsOfSizes ==
  ASSUME NEW s \in Seq(Nat), Len(s) >= 1
  PROVE  /\ Total(SubSeq(s, 2, 1)) = 0
         /\ \A j \in 1 .. Len(s) :
              /\ Total(SubSeq(s, 2, j)) \in Int
              /\ Total(SubSeq(s, 1, j)) = s[1] + Total(SubSeq(s, 2, j))
         /\ \A j \in 2 .. Len(s) :
              Total(SubSeq(s, 2, j)) = Total(SubSeq(s, 2, j - 1)) + s[j]
<1> DEFINE n == Len(s)
           one == [j \in 0 .. n |-> Total(SubSeq(s, 1, j))]
           two == [j \in 1 .. n |-> Total(SubSeq(s, 2, j))]
<1>0. n \in Nat /\ n >= 1 /\ \A j \in 1 .. n : s[j] \in Nat
  BY LenProperties
<1>1. two[1] = 0 /\ one[0] = 0
  <2>1. 1 \in Int /\ 2 \in Int /\ 0 \in Int /\ 1 < 2 /\ 0 < 1
    OBVIOUS
  <2>2. SubSeq(s, 2, 1) = <<>>
    BY <2>1, SubSeqEmpty
  <2>3. SubSeq(s, 1, 0) = <<>>
    BY <2>1, SubSeqEmpty
  <2>4. Total(SubSeq(s, 2, 1)) = 0 /\ Total(SubSeq(s, 1, 0)) = 0
    BY <2>2, <2>3, TotalLaw
  <2>5. 1 \in 1 .. n /\ 0 \in 0 .. n
    BY <1>0
  <2> QED
    BY <2>4, <2>5
<1>2. \A j \in 1 .. n : one[j] = one[j - 1] + s[j] /\ one[j - 1] \in Int
  <2> SUFFICES ASSUME NEW j \in 1 .. n
               PROVE  one[j] = one[j - 1] + s[j] /\ one[j - 1] \in Int
    OBVIOUS
  <2>1. 1 \in 1 .. n /\ j - 1 \in 0 .. n /\ j \in 0 .. n
    BY <1>0
  <2>2. Total(SubSeq(s, 1, j)) = Total(SubSeq(s, 1, j - 1)) + s[j]
        /\ Total(SubSeq(s, 1, j - 1)) \in Int
    BY <2>1, SumStep
  <2> QED
    BY <2>1, <2>2
<1>3. \A j \in 2 .. n : two[j] = two[j - 1] + s[j] /\ two[j - 1] \in Int
  <2> SUFFICES ASSUME NEW j \in 2 .. n
               PROVE  two[j] = two[j - 1] + s[j] /\ two[j - 1] \in Int
    OBVIOUS
  <2>1. 2 \in 1 .. n /\ j - 1 \in 1 .. n /\ j \in 1 .. n
    BY <1>0
  <2>2. Total(SubSeq(s, 2, j)) = Total(SubSeq(s, 2, j - 1)) + s[j]
        /\ Total(SubSeq(s, 2, j - 1)) \in Int
    BY <2>1, SumStep
  <2> QED
    BY <2>1, <2>2
<1>4. \A j \in 1 .. n : /\ two[j] = Total(SubSeq(s, 2, j))
                        /\ one[j] = Total(SubSeq(s, 1, j))
  BY <1>0
<1>5. \A j \in 2 .. n : two[j - 1] = Total(SubSeq(s, 2, j - 1))
  BY <1>0
<1> HIDE DEF one, two, n
<1> DEFINE Good == {j \in Nat : j \in 1 .. n => two[j] \in Int /\ one[j] = s[1] + two[j]}
<1>6. ASSUME NEW j \in Nat, j \in Good PROVE j + 1 \in Good
  <2>1. CASE j = 0
    <3>1. one[1] = one[0] + s[1]
      BY <1>0, <1>2
    <3>2. s[1] \in Nat
      BY <1>0
    <3> QED
      BY <1>1, <2>1, <3>1, <3>2
  <2>2. CASE j # 0
    <3> SUFFICES ASSUME j + 1 \in 1 .. n
                 PROVE  two[j + 1] \in Int /\ one[j + 1] = s[1] + two[j + 1]
      OBVIOUS
    <3>1. j \in 1 .. n /\ j + 1 \in 2 .. n /\ j + 1 - 1 = j
      BY <1>0, <2>2
    <3>2. two[j] \in Int /\ one[j] = s[1] + two[j]
      BY <1>6, <3>1
    <3>3. two[j + 1] = two[j] + s[j + 1]
      BY <1>3, <3>1
    <3>4. one[j + 1] = one[j] + s[j + 1]
      BY <1>2, <3>1
    <3>5. s[1] \in Int /\ s[j + 1] \in Int
      BY <1>0, <3>1
    <3> QED
      BY <3>2, <3>3, <3>4, <3>5
  <2> QED
    BY <2>1, <2>2
<1>7. 0 \in Good
  OBVIOUS
<1> HIDE DEF Good
<1>8. Nat \subseteq Good
  BY <1>6, <1>7, NatInd
<1>9. \A j \in 1 .. n : two[j] \in Int /\ one[j] = s[1] + two[j]
  BY <1>0, <1>8 DEF Good
<1>10. Total(SubSeq(s, 2, 1)) = 0
  BY <1>0, <1>1, <1>4
<1>11. \A j \in 1 .. n : /\ Total(SubSeq(s, 2, j)) \in Int
                         /\ Total(SubSeq(s, 1, j)) = s[1] + Total(SubSeq(s, 2, j))
  BY <1>4, <1>9
<1>12. \A j \in 2 .. n : Total(SubSeq(s, 2, j)) = Total(SubSeq(s, 2, j - 1)) + s[j]
  <2>1. \A j \in 2 .. n : j \in 1 .. n
    BY <1>0
  <2> QED
    BY <1>3, <1>4, <1>5, <2>1
<1> QED
  BY <1>10, <1>11, <1>12 DEF n

\* What _compress_to_budget keeps is below the budget, and with the next it is not.
LEMMA CompressedLaw ==
  ASSUME NEW s \in Seq(Nat), Len(s) >= 1, NEW budget \in Nat
  PROVE  LET kept == Compressed(s, budget)
             start == IF s[1] > budget THEN 2 ELSE 1
         IN /\ kept \in Nat /\ kept >= 1
            /\ Total(SubSeq(s, 2, kept)) > 0 => Total(SubSeq(s, start, kept)) < budget
            /\ kept < Len(s) => Total(SubSeq(s, start, kept + 1)) >= budget
<1> DEFINE n == Len(s)
           start == IF s[1] > budget THEN 2 ELSE 1
           forgiven == IF s[1] > budget THEN s[1] ELSE 0
           rest(j) == Total(SubSeq(s, 2, j))
           used(j) == Total(SubSeq(s, 1, j)) - forgiven
           stops == {i \in 2 .. n : s[i] > 0 /\ used(i) >= budget}
           kept == Compressed(s, budget)
<1>1. kept = IF stops = {} THEN n ELSE (CHOOSE i \in stops : \A j \in stops : i <= j) - 1
  BY DEF Compressed
<1>2. n \in Nat /\ n >= 1 /\ 1 \in 1 .. n /\ \A j \in 1 .. n : s[j] \in Nat
  BY LenProperties
<1>3. /\ rest(1) = 0
      /\ \A j \in 1 .. n : rest(j) \in Int /\ Total(SubSeq(s, 1, j)) = s[1] + rest(j)
      /\ \A j \in 2 .. n : rest(j) = rest(j - 1) + s[j]
  BY SumsOfSizes
<1>4. \A j \in 1 .. n : used(j) \in Int /\ used(j) = s[1] + rest(j) - forgiven
  BY <1>2, <1>3
<1>5. \A j \in 1 .. n : Total(SubSeq(s, start, j)) = used(j)
  <2> SUFFICES ASSUME NEW j \in 1 .. n PROVE Total(SubSeq(s, start, j)) = used(j)
    OBVIOUS
  <2>1. /\ rest(j) \in Int /\ Total(SubSeq(s, 1, j)) = s[1] + rest(j)
        /\ used(j) = s[1] + rest(j) - forgiven /\ s[1] \in Int
    BY <1>2, <1>3, <1>4
  <2>2. CASE s[1] > budget
    <3>1. used(j) = rest(j)
      BY <2>1, <2>2
    <3> QED
      BY <2>2, <3>1
  <2>3. CASE ~ (s[1] > budget)
    <3>1. used(j) = Total(SubSeq(s, 1, j))
      BY <2>1, <2>3
    <3> QED
      BY <2>3, <3>1
  <2> QED
    BY <2>2, <2>3
<1>6. \A j \in 2 .. n : used(j) = used(j - 1) + s[j]
  <2> SUFFICES ASSUME NEW j \in 2 .. n PROVE used(j) = used(j - 1) + s[j]
    OBVIOUS
  <2>1. j \in 1 .. n /\ j - 1 \in 1 .. n
    BY <1>2
  <2>2. /\ used(j) = s[1] + rest(j) - forgiven
        /\ used(j - 1) = s[1] + rest(j - 1) - forgiven
        /\ rest(j) = rest(j - 1) + s[j]
        /\ rest(j - 1) \in Int /\ s[j] \in Int /\ s[1] \in Int
    BY <1>2, <1>3, <1>4, <2>1
  <2>3. forgiven \in Int
    BY <2>2
  <2> HIDE DEF used, rest, forgiven
  <2> QED
    BY <2>2, <2>3
<1>7. \A i \in 2 .. n : i \in stops <=> s[i] > 0 /\ used(i) >= budget
  OBVIOUS
<1>8. stops \subseteq 2 .. n
  OBVIOUS
<1> HIDE DEF used, rest, stops, kept, start, forgiven, n
<1> DEFINE Fits(j) == rest(j) > 0 => used(j) < budget
           Good == {j \in Nat : j \in 1 .. n /\ (\A i \in 2 .. j : i \notin stops)
                                  => Fits(j)}
<1>9. ASSUME NEW j \in Nat, j \in Good PROVE j + 1 \in Good
  <2> SUFFICES ASSUME j + 1 \in 1 .. n, \A i \in 2 .. j + 1 : i \notin stops
               PROVE  Fits(j + 1)
    OBVIOUS
  <2>1. CASE j = 0
    <3>1. rest(j + 1) = 0
      BY <1>3, <2>1
    <3> QED
      BY <3>1
  <2>2. CASE j # 0
    <3>1. j \in 1 .. n /\ j + 1 \in 2 .. n /\ j + 1 \in 2 .. j + 1 /\ j + 1 - 1 = j
      BY <1>2, <2>2
    <3>2. \A i \in 2 .. j : i \notin stops
      <4>1. \A i \in 2 .. j : i \in 2 .. j + 1
        OBVIOUS
      <4> QED
        BY <4>1
    <3>3. Fits(j)
      BY <1>9, <3>1, <3>2
    <3>4. /\ rest(j + 1) = rest(j) + s[j + 1] /\ used(j + 1) = used(j) + s[j + 1]
          /\ rest(j) \in Int /\ used(j) \in Int /\ s[j + 1] \in Nat /\ used(j + 1) \in Int
      BY <1>2, <1>3, <1>4, <1>6, <3>1
    <3>5. CASE s[j + 1] > 0
      <4>1. ~ (used(j + 1) >= budget)
        BY <1>7, <3>1, <3>5
      <4> QED
        BY <3>4, <4>1
    <3>6. CASE s[j + 1] = 0
      BY <3>3, <3>4, <3>6
    <3> QED
      BY <3>4, <3>5, <3>6
  <2> QED
    BY <2>1, <2>2
<1>10. 0 \in Good
  OBVIOUS
<1> HIDE DEF Good
<1>11. Nat \subseteq Good
  BY <1>9, <1>10, NatInd
<1>12. ASSUME NEW j \in 1 .. n, \A i \in 2 .. j : i \notin stops PROVE Fits(j)
  BY <1>2, <1>11, <1>12 DEF Good
<1>13. CASE stops = {}
  <2>1. kept = n /\ n \in 1 .. n
    BY <1>1, <1>2, <1>13
  <2>2. Fits(n)
    BY <1>12, <1>13, <2>1
  <2>3. kept \in Nat /\ kept >= 1 /\ ~ (kept < n)
    BY <1>2, <2>1
  <2>4. Total(SubSeq(s, start, kept)) = used(kept)
    BY <1>5, <2>1
  <2>5. /\ kept \in Nat /\ kept >= 1
        /\ Total(SubSeq(s, 2, kept)) > 0 => Total(SubSeq(s, start, kept)) < budget
        /\ kept < n => Total(SubSeq(s, start, kept + 1)) >= budget
    BY <2>1, <2>2, <2>3, <2>4 DEF rest
  <2> QED
    BY <2>5 DEF start, kept, n
<1>14. CASE stops # {}
  <2> DEFINE i0 == CHOOSE i \in stops : \A j \in stops : i <= j
  <2>1. \E i \in stops : \A j \in stops : i <= j
    <3>1. stops \in SUBSET Nat
      BY <1>8
    <3> QED
      BY <1>14, <3>1, LeastOf
  <2>2. i0 \in stops /\ \A j \in stops : i0 <= j
    BY <2>1
  <2>3. kept = i0 - 1
    BY <1>1, <1>14
  <2> HIDE DEF i0
  <2>4. i0 \in 2 .. n /\ used(i0) >= budget
    BY <1>7, <1>8, <2>2
  <2>5. /\ kept \in Nat /\ kept >= 1 /\ kept \in 1 .. n /\ kept + 1 = i0 /\ i0 \in 1 .. n
    BY <1>2, <2>3, <2>4
  <2>6. \A i \in 2 .. kept : i \notin stops
    BY <1>8, <2>2, <2>3, <2>4
  <2>7. Fits(kept)
    BY <1>12, <2>5, <2>6
  <2>8. Total(SubSeq(s, start, kept)) = used(kept)
    BY <1>5, <2>5
  <2>9. Total(SubSeq(s, start, kept + 1)) >= budget
    BY <1>5, <2>4, <2>5
  <2>10. /\ kept \in Nat /\ kept >= 1
         /\ Total(SubSeq(s, 2, kept)) > 0 => Total(SubSeq(s, start, kept)) < budget
         /\ kept < n => Total(SubSeq(s, start, kept + 1)) >= budget
    BY <2>5, <2>7, <2>8, <2>9 DEF rest
  <2> QED
    BY <2>10 DEF start, kept, n
<1> QED
  BY <1>13, <1>14

\* Every leaf is in the context or its section is, once.
Context(x, known) == IF x \in known THEN SectionOf[x] ELSE x

LEMMA ExpandedLaw ==
  ASSUME NEW L \in SUBSET Hits, NEW leaves, IsOrder(leaves, L), NEW known
  PROVE  /\ IsInjective(Expanded(leaves, known))
         /\ \A x \in L : Context(x, known) \in ToSet(Expanded(leaves, known))
<1> DEFINE n == Len(leaves)
           same(i, j) == /\ leaves[i] \in known /\ leaves[j] \in known
                         /\ SectionOf[leaves[i]] = SectionOf[leaves[j]]
           fresh(i) == leaves[i] \notin known
                       \/ \A j \in 1 .. (i - 1) :
                            leaves[j] \notin known
                              \/ SectionOf[leaves[j]] # SectionOf[leaves[i]]
           id == [i \in DOMAIN leaves |-> i]
           K == {i \in DOMAIN leaves : fresh(i)}
           kept == InOrder(K, id)
           e == Expanded(leaves, known)
<1>1. /\ n \in Nat /\ DOMAIN leaves = 1 .. n
      /\ \A i \in 1 .. n : leaves[i] \in Hits
      /\ \A x \in L : \E i \in 1 .. n : leaves[i] = x
      /\ \A i, j \in 1 .. n : leaves[i] = leaves[j] => i = j
  <2>1. /\ Len(leaves) \in Nat /\ DOMAIN leaves = 1 .. Len(leaves)
        /\ leaves \in [1 .. Len(leaves) -> L]
        /\ \A i, j \in 1 .. Len(leaves) : leaves[i] = leaves[j] => i = j
    BY OrderType
  <2>2. \A x \in L : \E i \in 1 .. Len(leaves) : leaves[i] = x
    BY DEF IsOrder
  <2> QED
    BY <2>1, <2>2
<1>2. e = [m \in DOMAIN kept |-> Context(leaves[kept[m]], known)]
  BY DEF Expanded, Context
<1>3. K \subseteq 1 .. n /\ \A i \in 1 .. n : i \in K <=> fresh(i)
  BY <1>1
<1> HIDE DEF K, kept, e
<1>4. IsOrder(kept, K)
  <2>1. id \in [1 .. n -> 1 .. n] /\ \A i, j \in 1 .. n : id[i] = id[j] => i = j
    BY <1>1
  <2>2. \A i \in 1 .. n : id[i] = i
    BY <1>1
  <2> HIDE DEF id, n
  <2>3. IsOrder(id, ToSet(id)) /\ ToSet(id) \subseteq 1 .. n /\ IsFiniteSet(ToSet(id))
    BY <1>1, <2>1, ListIsOrder
  <2>4. 1 .. n \subseteq ToSet(id)
    <3>1. DOMAIN id = 1 .. n
      BY <2>1
    <3> QED
      BY <2>2, <3>1 DEF ToSet
  <2>5. K \in SUBSET ToSet(id)
    BY <1>3, <2>4
  <2> QED
    BY <2>3, <2>5, InOrderLaw DEF kept
<1>5. /\ DOMAIN kept = 1 .. Len(kept)
      /\ \A a \in 1 .. Len(kept) : kept[a] \in K
      /\ \A i \in K : \E a \in 1 .. Len(kept) : kept[a] = i
      /\ \A a, b \in 1 .. Len(kept) : kept[a] = kept[b] => a = b
  <2>1. /\ kept \in [1 .. Len(kept) -> K] /\ DOMAIN kept = 1 .. Len(kept)
        /\ \A a, b \in 1 .. Len(kept) : kept[a] = kept[b] => a = b
    BY <1>4, OrderType
  <2>2. \A i \in K : \E a \in 1 .. Len(kept) : kept[a] = i
    BY <1>4 DEF IsOrder
  <2> QED
    BY <2>1, <2>2
<1>6. DOMAIN e = 1 .. Len(kept)
      /\ \A a \in 1 .. Len(kept) : e[a] = Context(leaves[kept[a]], known)
  BY <1>2, <1>5
<1>7. ASSUME NEW i \in K, NEW j \in K,
             Context(leaves[i], known) = Context(leaves[j], known)
      PROVE  i = j
  <2>1. /\ i \in 1 .. n /\ j \in 1 .. n /\ leaves[i] \in Hits /\ leaves[j] \in Hits
        /\ fresh(i) /\ fresh(j)
    BY <1>1, <1>3
  <2>2. \A x \in Hits : SectionOf[x] \notin Hits
    BY RetrievalAssumption
  <2>3. CASE leaves[i] \notin known \/ leaves[j] \notin known
    <3>1. leaves[i] = leaves[j]
      BY <1>7, <2>1, <2>2, <2>3 DEF Context
    <3> QED
      BY <1>1, <2>1, <3>1
  <2>4. CASE leaves[i] \in known /\ leaves[j] \in known
    <3>1. SectionOf[leaves[i]] = SectionOf[leaves[j]]
      BY <1>7, <2>4 DEF Context
    <3>2. ~ (i < j)
      <4>1. SUFFICES ASSUME i < j PROVE FALSE
        OBVIOUS
      <4>2. i \in 1 .. (j - 1)
        BY <1>1, <2>1, <4>1
      <4> QED
        BY <2>1, <2>4, <3>1, <4>2
    <3>3. ~ (j < i)
      <4>1. SUFFICES ASSUME j < i PROVE FALSE
        OBVIOUS
      <4>2. j \in 1 .. (i - 1)
        BY <1>1, <2>1, <4>1
      <4> QED
        BY <2>1, <2>4, <3>1, <4>2
    <3>4. i \in Int /\ j \in Int
      BY <1>1, <2>1
    <3> QED
      BY <3>2, <3>3, <3>4
  <2> QED
    BY <2>3, <2>4
<1>8. IsInjective(e)
  BY <1>5, <1>6, <1>7 DEF IsInjective
<1>9. ASSUME NEW x \in L PROVE \E i \in K : Context(leaves[i], known) = Context(x, known)
  <2>1. PICK i \in 1 .. n : leaves[i] = x
    BY <1>1
  <2>2. CASE x \notin known
    <3>1. i \in K
      BY <1>3, <2>1, <2>2
    <3> QED
      BY <2>1, <3>1
  <2>3. CASE x \in known
    <3> DEFINE T == {j \in 1 .. n : same(j, i)}
    <3>1. T \in SUBSET Nat /\ T # {}
      <4>1. i \in T
        BY <2>1, <2>3
      <4>2. \A j \in 1 .. n : j \in Nat
        BY <1>1
      <4> QED
        BY <4>1, <4>2
    <3>2. PICK p \in T : \A j \in T : p <= j
      BY <3>1, LeastOf
    <3>3. p \in 1 .. n /\ same(p, i)
      OBVIOUS
    <3>4. ASSUME NEW j \in 1 .. (p - 1)
          PROVE  leaves[j] \notin known \/ SectionOf[leaves[j]] # SectionOf[leaves[p]]
      <4>1. j \in 1 .. n /\ ~ (p <= j)
        BY <1>1, <3>3
      <4>2. ~ same(j, i)
        BY <3>2, <4>1
      <4> QED
        BY <2>1, <2>3, <3>3, <4>2
    <3>5. fresh(p)
      BY <3>4
    <3>6. p \in K
      BY <1>3, <3>3, <3>5
    <3>7. Context(leaves[p], known) = Context(x, known)
      BY <2>1, <3>3 DEF Context
    <3> QED
      BY <3>6, <3>7
  <2> QED
    BY <2>2, <2>3
<1>10. ASSUME NEW x \in L PROVE Context(x, known) \in ToSet(e)
  <2>1. PICK i \in K : Context(leaves[i], known) = Context(x, known)
    BY <1>9
  <2>2. PICK a \in 1 .. Len(kept) : kept[a] = i
    BY <1>5
  <2>3. e[a] = Context(x, known) /\ a \in DOMAIN e
    BY <1>6, <2>1, <2>2
  <2> QED
    BY <2>3 DEF ToSet
<1> QED
  BY <1>8, <1>10 DEF e

\* A list that is not empty has a context for its first leaf.
LEMMA ExpandedType ==
  ASSUME NEW L \in SUBSET Hits, NEW leaves, IsOrder(leaves, L), L # {}, NEW known
  PROVE  LET e == Expanded(leaves, known)
         IN /\ e \in Seq(L \cup {SectionOf[x] : x \in L}) /\ Len(e) >= 1
<1> DEFINE D == L \cup {SectionOf[x] : x \in L}
           fresh(i) == leaves[i] \notin known
                       \/ \A j \in 1 .. (i - 1) :
                            leaves[j] \notin known
                              \/ SectionOf[leaves[j]] # SectionOf[leaves[i]]
           id == [i \in DOMAIN leaves |-> i]
           K == {i \in DOMAIN leaves : fresh(i)}
           kept == InOrder(K, id)
           e == Expanded(leaves, known)
           n == Len(leaves)
<1>1. /\ n \in Nat /\ DOMAIN leaves = 1 .. n
      /\ \A i \in 1 .. n : leaves[i] \in L
  <2>1. /\ Len(leaves) \in Nat /\ DOMAIN leaves = 1 .. Len(leaves)
        /\ leaves \in [1 .. Len(leaves) -> L]
    BY OrderType
  <2> QED
    BY <2>1
<1>2. e = [m \in DOMAIN kept |-> Context(leaves[kept[m]], known)]
  BY DEF Expanded, Context
<1>3. K \subseteq 1 .. n
  BY <1>1
<1> HIDE DEF K, kept, e
<1>4. IsOrder(kept, K)
  <2>1. id \in [1 .. n -> 1 .. n] /\ \A i, j \in 1 .. n : id[i] = id[j] => i = j
    BY <1>1
  <2>2. \A i \in 1 .. n : id[i] = i
    BY <1>1
  <2> HIDE DEF id, n
  <2>3. IsOrder(id, ToSet(id)) /\ ToSet(id) \subseteq 1 .. n /\ IsFiniteSet(ToSet(id))
    BY <1>1, <2>1, ListIsOrder
  <2>4. 1 .. n \subseteq ToSet(id)
    <3>1. DOMAIN id = 1 .. n
      BY <2>1
    <3> QED
      BY <2>2, <3>1 DEF ToSet
  <2>5. K \in SUBSET ToSet(id)
    BY <1>3, <2>4
  <2> QED
    BY <2>3, <2>5, InOrderLaw DEF kept
<1>5. /\ Len(kept) \in Nat /\ DOMAIN kept = 1 .. Len(kept)
      /\ \A a \in 1 .. Len(kept) : kept[a] \in K
  <2>1. /\ Len(kept) \in Nat /\ DOMAIN kept = 1 .. Len(kept)
        /\ kept \in [1 .. Len(kept) -> K]
    BY <1>4, OrderType
  <2> QED
    BY <2>1
<1>6. e \in [1 .. Len(kept) -> D]
  <2>1. \A a \in 1 .. Len(kept) : Context(leaves[kept[a]], known) \in D
    BY <1>1, <1>3, <1>5 DEF Context
  <2> QED
    BY <1>2, <1>5, <2>1
<1>7. e \in Seq(D) /\ Len(e) = Len(kept)
  <2> HIDE DEF D
  <2> QED
    BY <1>5, <1>6, LenProperties, SeqDef
<1>8. e # <<>>
  <2>1. PICK x \in L : TRUE
    OBVIOUS
  <2>2. Context(x, known) \in ToSet(e)
    BY <2>1, ExpandedLaw DEF e
  <2> QED
    BY <2>2 DEF ToSet
<1>9. Len(e) >= 1
  BY <1>7, <1>8, EmptySeq
<1> QED
  BY <1>7, <1>9 DEF e

ContextCase ==
  \E leaves \in Orders(Hits) \ {<<>>}, known \in SUBSET Hits, budget \in Budgets :
    case = [kind |-> "context", leaves |-> leaves, known |-> known,
            budget |-> budget]

LEMMA ContextIsFitting == ASSUME ContextCase PROVE ContextFits
<1>1. PICK leaves \in Orders(Hits) \ {<<>>}, known \in SUBSET Hits, budget \in Budgets :
        case = [kind |-> "context", leaves |-> leaves, known |-> known,
                budget |-> budget]
  BY DEF ContextCase
<1> DEFINE L == ToSet(leaves)
           D == L \cup {SectionOf[x] : x \in L}
           e == Expanded(leaves, known)
           sizes == SizesOf(e)
<1>2. case.leaves = leaves /\ case.known = known /\ case.budget = budget
  BY <1>1
<1>3. IsOrder(leaves, L) /\ L \in SUBSET Hits
  <2>1. IsFiniteSet(Hits)
    BY RetrievalAssumption
  <2> QED
    BY <2>1, OrdersLaw
<1>4. /\ Len(leaves) \in Nat /\ DOMAIN leaves = 1 .. Len(leaves)
      /\ leaves \in [1 .. Len(leaves) -> L] /\ leaves \in Seq(L) /\ leaves # <<>>
  BY <1>3, OrderType
<1>5. L # {}
  <2>1. Len(leaves) >= 1
    BY <1>4, EmptySeq
  <2>2. leaves[1] \in L
    BY <1>4, <2>1
  <2> QED
    BY <2>2
<1>6. budget \in Nat /\ \A x \in D : Tokens[x] \in Nat
  BY <1>3, RetrievalAssumption
<1> HIDE DEF D, L
<1>7. e \in Seq(D) /\ Len(e) >= 1
  BY <1>3, <1>5, ExpandedType DEF D
<1>8. sizes \in Seq(Nat) /\ Len(sizes) >= 1
  <2> HIDE DEF e
  <2>1. Len(e) \in Nat /\ DOMAIN e = 1 .. Len(e) /\ \A i \in 1 .. Len(e) : e[i] \in D
    BY <1>7, LenProperties
  <2>2. sizes = [i \in 1 .. Len(e) |-> Tokens[e[i]]]
    BY <2>1 DEF SizesOf
  <2>3. \A i \in 1 .. Len(e) : Tokens[e[i]] \in Nat
    BY <1>6, <2>1
  <2>4. sizes \in [1 .. Len(e) -> Nat]
    BY <2>2, <2>3
  <2> HIDE DEF sizes
  <2>5. sizes \in Seq(Nat) /\ Len(sizes) = Len(e)
    BY <2>1, <2>4, LenProperties, SeqDef
  <2> QED
    BY <1>7, <2>5
<1> HIDE DEF sizes
<1> DEFINE kept == Compressed(sizes, budget)
           start == IF sizes[1] > budget THEN 2 ELSE 1
<1>9. /\ kept \in Nat /\ kept >= 1
      /\ Total(SubSeq(sizes, 2, kept)) > 0 => Total(SubSeq(sizes, start, kept)) < budget
      /\ kept < Len(sizes) => Total(SubSeq(sizes, start, kept + 1)) >= budget
  BY <1>6, <1>8, CompressedLaw
<1>10. /\ IsInjective(Expanded(leaves, known))
       /\ \A x \in L : Context(x, known) \in ToSet(Expanded(leaves, known))
  BY <1>3, ExpandedLaw
<1>11. /\ IsInjective(Expanded(case.leaves, case.known))
       /\ \A x \in ToSet(case.leaves) :
            (IF x \in case.known THEN SectionOf[x] ELSE x)
               \in ToSet(Expanded(case.leaves, case.known))
  BY <1>2, <1>10 DEF Context, L
<1>12. SizesOf(Expanded(case.leaves, case.known)) = sizes
  BY <1>2 DEF sizes
<1> HIDE DEF kept, start
<1> QED
  BY <1>2, <1>9, <1>11, <1>12 DEF ContextFits, kept, start

-----------------------------------------------------------------------------
(* Diversity.                                                              *)

Best(i, S, score) == \A j \in S : score[i] > score[j] \/ (score[i] = score[j] /\ i <= j)

LEMMA BestLaw ==
  ASSUME NEW S \in SUBSET Int, IsFiniteSet(S), S # {}, NEW score \in [S -> Int]
  PROVE  BestOf(S, score) \in S /\ Best(BestOf(S, score), S, score)
<1> DEFINE tie == [x \in S |-> x] r == Ranked(S, score, tie) n == Cardinality(S)
<1>1. tie \in [S -> Int] /\ Distinct(tie, S) /\ \A x \in S : tie[x] = x
  BY DEF Distinct
<1> HIDE DEF tie, r
<1>2. IsRanking(r, S, score, tie)
  BY <1>1, RankedLaw DEF r
<1>3. /\ n \in Nat /\ r \in [1 .. n -> S]
      /\ \A x \in S : \E i \in 1 .. n : r[i] = x
      /\ \A i, j \in 1 .. n : i < j => Precedes(score, tie, r[i], r[j])
  BY <1>2 DEF IsRanking, IsOrder
<1> HIDE DEF n
<1>4. 1 \in 1 .. n
  <2>1. PICK x \in S : TRUE
    OBVIOUS
  <2>2. PICK i \in 1 .. n : r[i] = x
    BY <1>3, <2>1
  <2> QED
    BY <1>3, <2>2
<1>5. r[1] \in S
  BY <1>3, <1>4
<1>6. ASSUME NEW j \in S
      PROVE  score[r[1]] > score[j] \/ (score[r[1]] = score[j] /\ r[1] <= j)
  <2>1. PICK k \in 1 .. n : r[k] = j
    BY <1>3
  <2>2. CASE k = 1
    <3>1. r[1] = j /\ j \in Int
      BY <2>1, <2>2
    <3> QED
      BY <3>1
  <2>3. CASE k # 1
    <3>1. 1 < k
      BY <1>3, <2>3
    <3>2. Precedes(score, tie, r[1], j)
      BY <1>3, <1>4, <2>1, <3>1
    <3>3. r[1] \in Int /\ j \in Int /\ tie[r[1]] = r[1] /\ tie[j] = j
      BY <1>1, <1>5
    <3> QED
      BY <3>2, <3>3 DEF Precedes
  <2> QED
    BY <2>2, <2>3
<1>7. \E i \in S : \A j \in S : score[i] > score[j] \/ (score[i] = score[j] /\ i <= j)
  BY <1>5, <1>6
<1> QED
  BY <1>7 DEF BestOf, Best

\* A list one longer.
Longer(u, t, c) ==
  /\ Len(u) = Len(t) + 1 /\ u[Len(t) + 1] = c /\ DOMAIN u = 1 .. Len(u)
  /\ \A i \in 1 .. Len(t) : u[i] = t[i]

LEMMA AppendLonger ==
  ASSUME NEW S, NEW t \in Seq(S), NEW c \in S
  PROVE  Append(t, c) \in Seq(S) /\ Longer(Append(t, c), t, c)
<1> DEFINE u == Append(t, c)
<1>1. /\ u \in Seq(S) /\ Len(u) = Len(t) + 1 /\ u[Len(t) + 1] = c
      /\ \A i \in 1 .. Len(t) : u[i] = t[i]
  BY AppendProperties
<1> HIDE DEF u
<1>2. DOMAIN u = 1 .. Len(u)
  BY <1>1, LenProperties
<1>3. Longer(u, t, c)
  BY <1>1, <1>2 DEF Longer
<1> QED
  BY <1>1, <1>3 DEF u

MmrCase ==
  \E relevance \in [1 .. 3 -> Int], alike \in [1 .. 3 -> [1 .. 3 -> Int]],
     lambda \in Int :
    /\ case.kind = "mmr" /\ case.relevance = relevance /\ case.alike = alike
    /\ case.lambda = lambda

\* One round of mmr after the first.
NextPick(relevance, alike, lambda, before) ==
  LET rest == DOMAIN relevance \ ToSet(before)
  IN BestOf(rest, [i \in rest |->
              MmrScore(relevance, alike, lambda, ToSet(before), i)])

\* mmr unrolled, for three picks.
LEMMA MmrOfThree ==
  ASSUME NEW relevance, NEW alike, NEW lambda
  PROVE  LET one == <<MostRelevant(relevance)>>
             two == Append(one, NextPick(relevance, alike, lambda, one))
         IN Mmr(relevance, alike, lambda, 3)
              = Append(two, NextPick(relevance, alike, lambda, two))
<1> DEFINE Next(p) == NextPick(relevance, alike, lambda, p)
           one == <<MostRelevant(relevance)>>
           two == Append(one, Next(one))
           three == Append(two, Next(two))
           Eq(f) == f = [n \in 1 .. 3 |-> IF n = 1 THEN one
                                          ELSE Append(f[n - 1], Next(f[n - 1]))]
           w == [n \in 1 .. 3 |-> IF n = 1 THEN one ELSE IF n = 2 THEN two ELSE three]
           pick == CHOOSE f : Eq(f)
<1>1. Mmr(relevance, alike, lambda, 3) = pick[3]
  BY DEF Mmr, NextPick
<1> HIDE DEF Next, one
<1>2. w[1] = one /\ w[2] = two /\ w[3] = three
  OBVIOUS
<1>3. Eq(w)
  <2>1. \A n \in 1 .. 3 : n = 1 \/ n = 2 \/ n = 3
    OBVIOUS
  <2>2. \A n \in 1 .. 3 : w[n] = IF n = 1 THEN one ELSE Append(w[n - 1], Next(w[n - 1]))
    BY <1>2, <2>1
  <2> QED
    BY <2>2
<1> HIDE DEF w, Eq
<1>4. Eq(pick)
  BY <1>3
<1> HIDE DEF pick
<1>5. /\ pick[1] = one /\ pick[2] = Append(pick[1], Next(pick[1]))
      /\ pick[3] = Append(pick[2], Next(pick[2]))
  <2>1. \A n \in 1 .. 3 : pick[n] = IF n = 1 THEN one
                                    ELSE Append(pick[n - 1], Next(pick[n - 1]))
    BY <1>4 DEF Eq
  <2>2. /\ 1 \in 1 .. 3 /\ 2 \in 1 .. 3 /\ 3 \in 1 .. 3
        /\ 2 - 1 = 1 /\ 3 - 1 = 2 /\ 2 # 1 /\ 3 # 1
    OBVIOUS
  <2>3. pick[1] = one
    BY <2>1, <2>2
  <2>4. pick[2] = Append(pick[1], Next(pick[1]))
    BY <2>1, <2>2
  <2>5. pick[3] = Append(pick[2], Next(pick[2]))
    BY <2>1, <2>2
  <2> QED
    BY <2>3, <2>4, <2>5
<1> QED
  BY <1>1, <1>5 DEF Next, one

LEMMA DiversityIsKept == ASSUME MmrCase PROVE DiversityKeepsBest
<1>1. PICK relevance \in [1 .. 3 -> Int], alike \in [1 .. 3 -> [1 .. 3 -> Int]],
           lambda \in Int :
        /\ case.kind = "mmr" /\ case.relevance = relevance /\ case.alike = alike
        /\ case.lambda = lambda
  BY DEF MmrCase
<1> DEFINE All == 1 .. 3
           m1 == MostRelevant(relevance)
           one == <<m1>>
           m2 == NextPick(relevance, alike, lambda, one)
           two == Append(one, m2)
           m3 == NextPick(relevance, alike, lambda, two)
           picks == Mmr(relevance, alike, lambda, 3)
<1>2. picks = Append(two, m3)
  BY MmrOfThree
<1>3. All \subseteq Int /\ IsFiniteSet(All)
  <2>1. 3 \in Nat
    OBVIOUS
  <2>2. IsFiniteSet(1 .. 3)
    BY <2>1, RangeFinite
  <2> QED
    BY <2>2
<1>4. m1 \in All /\ Best(m1, All, relevance)
  <2>1. m1 = BestOf(All, relevance)
    <3>1. DOMAIN relevance = All
      OBVIOUS
    <3> QED
      BY <3>1 DEF MostRelevant, BestOf
  <2>2. 1 \in All
    OBVIOUS
  <2> HIDE DEF All, m1
  <2>3. All # {} /\ relevance \in [All -> Int]
    BY <2>2 DEF All
  <2> QED
    BY <1>3, <2>1, <2>3, BestLaw
<1> HIDE DEF m1
<1>5. ToSet(one) = {m1}
  <2>1. DOMAIN one = {1} /\ one[1] = m1
    OBVIOUS
  <2> HIDE DEF one
  <2> QED
    BY <2>1 DEF ToSet
<1> DEFINE R1 == All \ {m1}
           s1 == [i \in R1 |-> MmrScore(relevance, alike, lambda, {m1}, i)]
<1>6. \A i \in All : MmrScore(relevance, alike, lambda, {m1}, i)
                       = lambda * relevance[i] - (10 - lambda) * alike[i][m1]
  <2> SUFFICES ASSUME NEW i \in All
               PROVE  MmrScore(relevance, alike, lambda, {m1}, i)
                        = lambda * relevance[i] - (10 - lambda) * alike[i][m1]
    OBVIOUS
  <2>1. {alike[i][j] : j \in {m1}} = {alike[i][m1]}
    OBVIOUS
  <2>2. alike[i][m1] \in Int
    BY <1>4
  <2>3. Biggest({alike[i][m1]}) = alike[i][m1]
    BY <2>2 DEF Biggest
  <2> QED
    BY <2>1, <2>3 DEF MmrScore
<1>7. s1 \in [R1 -> Int]
  <2>1. ASSUME NEW i \in R1 PROVE s1[i] \in Int
    <3>1. relevance[i] \in Int /\ alike[i][m1] \in Int /\ 10 - lambda \in Int
      BY <1>4
    <3>2. lambda * relevance[i] \in Int /\ (10 - lambda) * alike[i][m1] \in Int
      BY <3>1
    <3>3. s1[i] = lambda * relevance[i] - (10 - lambda) * alike[i][m1]
      BY <1>6
    <3> QED
      BY <3>2, <3>3
  <2> HIDE DEF R1
  <2> QED
    BY <2>1
<1>8. m2 \in R1 /\ Best(m2, R1, s1)
  <2>1. m2 = BestOf(R1, s1)
    BY <1>5 DEF NextPick
  <2>2. R1 # {} /\ R1 \subseteq Int /\ R1 \subseteq All
    <3>1. 1 \in All /\ 2 \in All
      OBVIOUS
    <3> QED
      BY <1>3, <3>1
  <2>3. IsFiniteSet(R1)
    BY <1>3, <2>2, FS_Subset
  <2> HIDE DEF m2, R1, s1
  <2> QED
    BY <1>7, <2>1, <2>2, <2>3, BestLaw
<1>9. s1 = [i \in R1 |-> lambda * relevance[i] - (10 - lambda) * alike[i][m1]]
  BY <1>6
<1> HIDE DEF m2, s1
<1>10. /\ two \in Seq(All) /\ Len(two) = 2 /\ two[1] = m1 /\ two[2] = m2
       /\ ToSet(two) = {m1, m2}
  <2>1. m2 \in All
    BY <1>8
  <2>2. one \in Seq(All) /\ Len(one) = 1 /\ one[1] = m1
    BY <1>4
  <2> HIDE DEF All, one
  <2>3. two \in Seq(All) /\ Longer(two, one, m2)
    BY <2>1, <2>2, AppendLonger
  <2> HIDE DEF two
  <2>4. Len(two) = 2 /\ two[1] = m1 /\ two[2] = m2 /\ DOMAIN two = 1 .. 2
    BY <2>2, <2>3 DEF Longer
  <2>5. \A i \in 1 .. 2 : i = 1 \/ i = 2
    OBVIOUS
  <2>6. ToSet(two) = {m1, m2}
    BY <2>4, <2>5 DEF ToSet
  <2> QED
    BY <2>3, <2>4, <2>6
<1> DEFINE R2 == All \ {m1, m2}
           s2 == [i \in R2 |-> MmrScore(relevance, alike, lambda, {m1, m2}, i)]
<1>11. PICK z : R2 = {z} /\ z \in All /\ z # m1 /\ z # m2
  <2>1. m1 \in {1, 2, 3} /\ m2 \in {1, 2, 3} /\ m1 # m2
    <3>1. \A i \in 1 .. 3 : i = 1 \/ i = 2 \/ i = 3
      OBVIOUS
    <3> QED
      BY <1>4, <1>8, <3>1
  <2>2. 1 .. 3 = {1, 2, 3}
    OBVIOUS
  <2> QED
    BY <2>1, <2>2
<1>12. m3 = z
  <2>1. m3 = BestOf(R2, s2)
    BY <1>10 DEF NextPick
  <2>2. z \in R2 /\ z \in Int /\ s2[z] \in Int
    <3>1. /\ relevance[z] \in Int /\ alike[z][m1] \in Int /\ alike[z][m2] \in Int
          /\ 10 - lambda \in Int
      BY <1>4, <1>8, <1>11
    <3> DEFINE T == {alike[z][j] : j \in {m1, m2}}
    <3>2. T = {alike[z][m1], alike[z][m2]}
      OBVIOUS
    <3> HIDE DEF T
    <3>3. \E n \in T : \A m \in T : m <= n
      BY <3>1, <3>2
    <3>4. Biggest(T) \in Int
      BY <3>1, <3>2, <3>3 DEF Biggest
    <3>5. MmrScore(relevance, alike, lambda, {m1, m2}, z)
            = lambda * relevance[z] - (10 - lambda) * Biggest(T)
      BY DEF MmrScore, T
    <3> DEFINE p == lambda * relevance[z] q == (10 - lambda) * Biggest(T)
    <3>6. p \in Int /\ q \in Int
      BY <3>1, <3>4
    <3> HIDE DEF p, q
    <3>7. p - q \in Int
      BY <3>6
    <3>8. z \in R2 /\ z \in Int
      BY <1>11
    <3> QED
      BY <3>5, <3>7, <3>8 DEF p, q
  <2> HIDE DEF R2, s2, m3
  <2>3. s2[z] = s2[z] /\ z <= z
    BY <2>2
  <2>4. \A x \in R2 : x = z
    BY <1>11
  <2>5. \A j \in R2 : s2[z] > s2[j] \/ (s2[z] = s2[j] /\ z <= j)
    BY <2>3, <2>4
  <2>6. BestOf(R2, s2) \in R2
    BY <2>2, <2>5 DEF BestOf
  <2> QED
    BY <2>1, <2>4, <2>6
<1> HIDE DEF m3
<1>13. /\ ToSet(picks) = {m1, m2, z} /\ picks[1] = m1 /\ picks[2] = m2 /\ picks[3] = z
  <2>1. z \in All /\ picks = Append(two, z)
    BY <1>2, <1>11, <1>12
  <2> HIDE DEF All, two, picks
  <2>a. Longer(picks, two, z)
    BY <1>10, <2>1, AppendLonger
  <2>2. DOMAIN picks = 1 .. 3 /\ picks[1] = m1 /\ picks[2] = m2 /\ picks[3] = z
    BY <1>10, <2>a DEF Longer
  <2>3. \A i \in 1 .. 3 : i = 1 \/ i = 2 \/ i = 3
    OBVIOUS
  <2>4. 1 \in 1 .. 3 /\ 2 \in 1 .. 3 /\ 3 \in 1 .. 3
    OBVIOUS
  <2> QED
    BY <2>2, <2>3, <2>4 DEF ToSet
<1>14. {m1, m2, z} = 1 .. 3
  <2>1. \A i \in All : i \in R2 \/ i \in {m1, m2}
    OBVIOUS
  <2>2. \A i \in All : i \in {m1, m2, z}
    BY <1>11, <2>1
  <2>3. m1 \in All /\ m2 \in All /\ z \in All
    BY <1>4, <1>8, <1>11
  <2> QED
    BY <2>2, <2>3
<1>15. \A i \in 1 .. 3 : relevance[m1] >= relevance[i]
  <2> SUFFICES ASSUME NEW i \in 1 .. 3 PROVE relevance[m1] >= relevance[i]
    OBVIOUS
  <2>1. relevance[m1] > relevance[i] \/ relevance[m1] = relevance[i]
    BY <1>4 DEF Best
  <2>2. relevance[m1] \in Int /\ relevance[i] \in Int
    BY <1>4
  <2> QED
    BY <2>1, <2>2
<1>16. ASSUME lambda = 10
       PROVE  \A i \in 1 .. 2 : relevance[picks[i]] >= relevance[picks[i + 1]]
  <2>1. relevance[m1] >= relevance[m2]
    BY <1>8, <1>15
  <2>2. relevance[m2] >= relevance[z]
    <3>1. z \in R1 /\ m2 \in R1
      BY <1>8, <1>11
    <3>2. \A i \in R1 : s1[i] = 10 * relevance[i]
      <4> SUFFICES ASSUME NEW i \in R1 PROVE s1[i] = 10 * relevance[i]
        OBVIOUS
      <4>1. relevance[i] \in Int /\ alike[i][m1] \in Int
        BY <1>4
      <4>2. s1[i] = 10 * relevance[i] - (10 - 10) * alike[i][m1]
        BY <1>9, <1>16
      <4> QED
        BY <4>1, <4>2
    <3>3. s1[m2] > s1[z] \/ s1[m2] = s1[z]
      BY <1>8, <3>1 DEF Best
    <3>4. relevance[m2] \in Int /\ relevance[z] \in Int
      BY <1>8, <1>11
    <3>5. 10 * relevance[m2] > 10 * relevance[z] \/ 10 * relevance[m2] = 10 * relevance[z]
      BY <3>1, <3>2, <3>3
    <3> QED
      BY <3>4, <3>5
  <2>3. \A i \in 1 .. 2 : i = 1 \/ i = 2
    OBVIOUS
  <2>4. 1 + 1 = 2 /\ 2 + 1 = 3
    OBVIOUS
  <2> HIDE DEF picks
  <2> QED
    BY <1>13, <2>1, <2>2, <2>3, <2>4
<1>17. /\ ToSet(picks) = 1 .. 3
       /\ \A i \in 1 .. 3 : relevance[picks[1]] >= relevance[i]
       /\ lambda = 10 => \A i \in 1 .. 2 : relevance[picks[i]] >= relevance[picks[i + 1]]
  BY <1>13, <1>14, <1>15, <1>16
<1> HIDE DEF picks
<1> QED
  BY <1>1, <1>17 DEF DiversityKeepsBest, picks

-----------------------------------------------------------------------------
(* Every case is one of these.                                             *)

LEMMA ContentLegAnswers ==
  ASSUME NEW intents, NEW exclusive \in BOOLEAN, NEW available
  PROVE  LET wanted == Decide(intents, exclusive)
             legs == Channels([routed |-> TRUE, wanted |-> wanted,
                               available |-> available])
         IN /\ wanted \cap {"dense", "bm25"} # {}
            /\ legs \cap {"dense", "bm25"} # {}
                 \/ (exclusive /\ "bm25" \notin available)
BY DEF Decide, Channels

RoutingCase == case.exclusive \in BOOLEAN

TypedCase ==
  /\ Kind_("recall") => RecallCase
  /\ Kind_("fusion") => FusionCase
  /\ Kind_("answer") => AnswerCase
  /\ Kind_("mmr") => MmrCase
  /\ Kind_("context") => ContextCase
  /\ Kind_("routing") => RoutingCase

LEMMA RecallTyped == TryRecall => case'.kind = "recall" /\ RecallCase'
<1> SUFFICES ASSUME TryRecall PROVE case'.kind = "recall" /\ RecallCase'
  OBVIOUS
<1>1. PICK f \in Filters, dense \in SetToSeqs(Hits), bm25 \in Orders(Hits),
           nodes \in Scored(Nodes), groups \in Scored(Groups) :
        case' = [kind |-> "recall", filter |-> f,
                 runs |-> <<StoreLeg("dense", dense, f, 2),
                            StoreLeg("bm25", bm25, f, 2),
                            GraphLeg(nodes, groups, f)>>]
  BY DEF TryRecall
<1>2. dense \in Orders(Hits)
  <2>1. IsFiniteSet(Hits)
    BY RetrievalAssumption
  <2> QED
    BY <2>1, OrdersLaw
<1>3. f \in [doc : {NoFile} \cup Files, files : SUBSET Files, below : Nat]
  BY DEF Filters
<1>4. 2 \in Nat
  OBVIOUS
<1>5. RecallCase'
  BY <1>1, <1>2, <1>3, <1>4 DEF RecallCase
<1> QED
  BY <1>1, <1>5

LEMMA FusionTyped == TryFusion => case'.kind = "fusion" /\ FusionCase'
<1> SUFFICES ASSUME TryFusion PROVE case'.kind = "fusion" /\ FusionCase'
  OBVIOUS
<1>1. PICK dense \in Orders(Hits), bm25 \in Orders(Hits),
           method \in {"rrf", "weighted"}, wd \in 0 .. 2, wb \in 0 .. 2,
           flat \in BOOLEAN :
        /\ method = "rrf" => wd = 1 /\ wb = 1 /\ ~ flat
        /\ case' = FusionOf(dense, bm25, method, wd, wb, flat)
  BY Zenon DEF TryFusion, FusionOf
<1>2. wd \in Nat /\ wb \in Nat
  OBVIOUS
<1>3. FusionCase'
  BY <1>1, <1>2 DEF FusionCase
<1>4. case'.kind = "fusion"
  BY <1>1 DEF FusionOf
<1> QED
  BY <1>3, <1>4

LEMMA AnswerTyped == TryAnswer => case'.kind = "answer" /\ AnswerCase'
<1> SUFFICES ASSUME TryAnswer PROVE case'.kind = "answer" /\ AnswerCase'
  OBVIOUS
<1>1. PICK dense \in Orders(Hits), bm25 \in Orders(Hits), top \in 1 .. 3,
           pool \in 1 .. 3, mmr \in BOOLEAN, rerank \in BOOLEAN,
           diverse \in SetToSeqs(Hits), reranked \in SetToSeqs(Hits) :
        /\ rerank => top <= pool
        /\ ~ mmr => diverse = CHOOSE s \in SetToSeqs(Hits) : TRUE
        /\ ~ rerank => reranked = CHOOSE s \in SetToSeqs(Hits) : TRUE
        /\ case' = AnswerOf(dense, bm25, top, pool, mmr, rerank, diverse, reranked)
  BY Zenon DEF TryAnswer, AnswerOf
<1>2. top \in Nat /\ pool \in Nat
  OBVIOUS
<1>3. AnswerCase'
  BY <1>1, <1>2 DEF AnswerCase
<1>4. case'.kind = "answer"
  BY <1>1 DEF AnswerOf
<1> QED
  BY <1>3, <1>4

LEMMA MmrTyped == TryDiversity => case'.kind = "mmr" /\ MmrCase'
<1> SUFFICES ASSUME TryDiversity PROVE case'.kind = "mmr" /\ MmrCase'
  OBVIOUS
<1>1. PICK relevance \in [1 .. 3 -> 1 .. 3], a \in {0, 2}, b \in {0, 2},
           c \in {0, 2}, lambda \in {0, 5, 10} :
        case' = [kind |-> "mmr", relevance |-> relevance, lambda |-> lambda,
                 alike |-> <<<<3, a, b>>, <<a, 3, c>>, <<b, c, 3>>>>]
  BY DEF TryDiversity
<1>2. relevance \in [1 .. 3 -> Int] /\ lambda \in Int
  OBVIOUS
<1> DEFINE p == <<3, a, b>> q == <<a, 3, c>> r == <<b, c, 3>> alike == <<p, q, r>>
<1>3. p \in [1 .. 3 -> Int] /\ q \in [1 .. 3 -> Int] /\ r \in [1 .. 3 -> Int]
  OBVIOUS
<1>4. case'.kind = "mmr" /\ case'.relevance = relevance /\ case'.alike = alike
      /\ case'.lambda = lambda
  BY <1>1
<1> HIDE DEF p, q, r
<1>5. alike \in [1 .. 3 -> [1 .. 3 -> Int]]
  BY <1>3
<1> HIDE DEF alike
<1>6. MmrCase'
  BY <1>2, <1>4, <1>5 DEF MmrCase
<1> QED
  BY <1>4, <1>6

LEMMA ContextTyped == TryContext => case'.kind = "context" /\ ContextCase'
<1> SUFFICES ASSUME TryContext PROVE case'.kind = "context" /\ ContextCase'
  OBVIOUS
<1>1. ContextCase'
  BY Zenon DEF TryContext, ContextCase
<1>2. PICK leaves \in Orders(Hits) \ {<<>>}, known \in SUBSET Hits, budget \in Budgets :
        case' = [kind |-> "context", leaves |-> leaves, known |-> known,
                 budget |-> budget]
  BY Zenon DEF TryContext
<1> QED
  BY <1>1, <1>2

LEMMA RoutingTyped == TryRouting => case'.kind = "routing" /\ RoutingCase'
<1> SUFFICES ASSUME TryRouting PROVE case'.kind = "routing" /\ RoutingCase'
  OBVIOUS
<1>1. PICK intents, router, codeLike :
        case'.kind = "routing" /\ case'.exclusive = Exclusive(router, intents, codeLike)
  BY DEF TryRouting
<1>2. Exclusive(router, intents, codeLike) \in BOOLEAN
  <2>1. CASE router = "llm"
    BY <2>1 DEF Exclusive
  <2>2. CASE router # "llm"
    BY <2>2 DEF Exclusive
  <2> QED
    BY <2>1, <2>2
<1> QED
  BY <1>1, <1>2 DEF RoutingCase

\* A case is of the kind it says and has the inputs of that kind.
LEMMA CasesTyped == RetrievalInit /\ [][RetrievalNext]_case => []TypedCase
<1>1. RetrievalInit => TypedCase
  BY DEF RetrievalInit, NoCase, TypedCase, Kind_
<1>2. TypedCase /\ [RetrievalNext]_case => TypedCase'
  <2> SUFFICES ASSUME TypedCase, [RetrievalNext]_case PROVE TypedCase'
    OBVIOUS
  <2>1. CASE UNCHANGED case
    BY <2>1 DEF TypedCase, Kind_, RecallCase, FusionCase, AnswerCase, MmrCase,
                ContextCase, RoutingCase
  <2>2. CASE TryRecall
    BY <2>2, RecallTyped DEF TypedCase, Kind_
  <2>3. CASE TryFusion
    BY <2>3, FusionTyped DEF TypedCase, Kind_
  <2>4. CASE TryAnswer
    BY <2>4, AnswerTyped DEF TypedCase, Kind_
  <2>5. CASE TryDiversity
    BY <2>5, MmrTyped DEF TypedCase, Kind_
  <2>6. CASE TryContext
    BY <2>6, ContextTyped DEF TypedCase, Kind_
  <2>7. CASE TryRouting
    BY <2>7, RoutingTyped DEF TypedCase, Kind_
  <2> QED
    BY <2>1, <2>2, <2>3, <2>4, <2>5, <2>6, <2>7 DEF RetrievalNext
<1> QED
  BY <1>1, <1>2, PTL

\* Whatever the leaves of the corpus, their documents, sizes and sections are: no leg
\* returns what the filter excludes; what every leg ranks before another stays before
\* it in the fused list; the first pick of diversity is the most relevant; an answer
\* has as many leaves as were found and asked for; its contexts have each of them once,
\* what is kept of them is below the budget and is cut where it would be reached; and a
\* routed query reaches a content leg (retrieval/).
THEOREM RetrievalStaysSound == RetrievalInit /\ [][RetrievalNext]_case => []RetrievalSound
<1>1. TypedCase => RetrievalSound
  <2> SUFFICES ASSUME TypedCase PROVE RetrievalSound
    OBVIOUS
  <2>1. FilterHeld
    BY RecallHoldsFilter DEF TypedCase, FilterHeld, Kind_
  <2>2. DominanceKept
    BY FusionDominates DEF TypedCase, DominanceKept, Kind_
  <2>3. DiversityKeepsBest
    BY DiversityIsKept DEF TypedCase, DiversityKeepsBest, Kind_
  <2>4. AnswerFilled
    BY AnswerIsFilled DEF TypedCase, AnswerFilled, Kind_
  <2>5. ContextFits
    BY ContextIsFitting DEF TypedCase, ContextFits, Kind_
  <2>6. SomeLegAnswers
    BY ContentLegAnswers DEF TypedCase, SomeLegAnswers, Kind_, RoutingCase
  <2> QED
    BY <2>1, <2>2, <2>3, <2>4, <2>5, <2>6 DEF RetrievalSound
<1> QED
  BY <1>1, CasesTyped, PTL

-----------------------------------------------------------------------------
(* Chunking.  What is packed, cut or put in rows keeps what it is made of. *)

\* What _window_text may be given: a size, an overlap below it, a minimum.
IsConf(c) == /\ c.size \in Nat \ {0} /\ c.overlap \in 0..(c.size - 1)
             /\ c.min \in 1..c.size

Start(c, i) == (i - 1) * (c.size - c.overlap)

\* r are full windows, one every step, but for the last one, which ends at n.
AreWindows(r, n, c) ==
  /\ Len(r) \in Nat \ {0} /\ r = [i \in 1..Len(r) |-> r[i]]
  /\ \A i \in 1..Len(r) : r[i].from = Start(c, i)
  /\ \A i \in 1..Len(r) : r[i].to = IF i < Len(r) THEN Start(c, i) + c.size ELSE n
  /\ \A i \in 1..Len(r) : i < Len(r) => Start(c, i) + c.size < n
  /\ Start(c, Len(r)) + c.size >= n

\* Consecutive windows start a step apart, the first one at 0, and n windows
\* reach over n tokens.
LEMMA StartLaw ==
  ASSUME NEW c, IsConf(c)
  PROVE  /\ Start(c, 1) = 0
         /\ \A i \in Int : Start(c, i) \in Int
         /\ \A i \in Int : Start(c, i + 1) = Start(c, i) + c.size - c.overlap
         /\ \A n \in Nat \ {0} : Start(c, n) + c.size >= n
<1> DEFINE d == c.size - c.overlap
<1>1. c.size \in Int /\ c.overlap \in Int /\ d \in Int /\ d >= 1 /\ c.size >= 1
  BY DEF IsConf
<1>2. \A i \in Int : Start(c, i) = (i - 1) * d
  BY DEF Start
<1> HIDE DEF d
<1>3. Start(c, 1) = 0
  BY <1>1, <1>2
<1>4. \A i \in Int : Start(c, i) \in Int
  BY <1>1, <1>2
<1>5. \A i \in Int : Start(c, i + 1) = Start(c, i) + d
  BY <1>1, <1>2
<1>6. ASSUME NEW n \in Nat \ {0} PROVE Start(c, n) + c.size >= n
  <2>1. (n - 1) * d >= n - 1
    BY <1>1
  <2> QED
    BY <2>1, <1>1, <1>2
<1> QED
  BY <1>3, <1>4, <1>5, <1>6, <1>1 DEF d

LEMMA RangesLaw ==
  ASSUME NEW c, IsConf(c), NEW n \in Nat \ {0}
  PROVE  AreWindows(Ranges(n, c), n, c)
<1> DEFINE reaching == {i \in 1..n : Start(c, i) + c.size >= n}
           count == CHOOSE k \in reaching : \A i \in reaching : k <= i
           r == Ranges(n, c)
<1>1. reaching \in SUBSET Nat /\ n \in reaching
  BY StartLaw
<1>2. \E k \in reaching : \A i \in reaching : k <= i
  BY <1>1, LeastOf
<1>3. count \in reaching /\ \A i \in reaching : count <= i
  BY <1>2
<1>4. r = [i \in 1..count |->
        [from |-> Start(c, i), to |-> IF i < count THEN Start(c, i) + c.size ELSE n]]
  BY DEF Ranges, Start
<1> HIDE DEF count, r
<1>5. count \in 1..n /\ count \in Nat \ {0} /\ Start(c, count) + c.size >= n
  BY <1>3
<1>6. Len(r) = count
  BY <1>4, <1>5
<1>7. ASSUME NEW i \in 1..count, i < count PROVE Start(c, i) + c.size < n
  <2>1. i \in 1..n /\ ~ (count <= i)
    BY <1>5, <1>7
  <2>2. i \notin reaching
    BY <2>1, <1>3
  <2>3. Start(c, i) \in Int /\ c.size \in Int
    BY StartLaw DEF IsConf
  <2> QED
    BY <2>1, <2>2, <2>3
<1>8. \A i \in 1..count : /\ r[i].from = Start(c, i)
                          /\ r[i].to = IF i < count THEN Start(c, i) + c.size ELSE n
  BY <1>4
<1> QED
  BY <1>4, <1>5, <1>6, <1>7, <1>8 DEF AreWindows, r

\* The windows of n tokens cover them, overlap as they should and are full,
\* the last one but for a tail that is not too small.
Covering(r, n, c) ==
  LET k == Len(r)
      size(i) == r[i].to - r[i].from
  IN /\ r[1].from = 0 /\ r[k].to = n
     /\ \A i \in 1 .. (k - 1) :
          r[i + 1].from = r[i].to - c.overlap /\ size(i) = c.size
     /\ size(k) < c.size + c.min
     /\ k > 1 => size(k) >= c.min

LEMMA WindowsLaw ==
  ASSUME NEW c, IsConf(c), NEW n \in Nat \ {0}
  PROVE  Covering(Windows(n, c), n, c)
<1> DEFINE r == Ranges(n, c)
           k == Len(r)
<1>1. AreWindows(r, n, c)
  BY RangesLaw
<1>2. c.size \in Int /\ c.overlap \in Int /\ c.min \in Int /\ c.overlap >= 0
      /\ c.min >= 1 /\ c.min <= c.size /\ c.overlap < c.size
  BY DEF IsConf
<1> HIDE DEF r
<1>3. k \in Nat \ {0} /\ r = [i \in 1..k |-> r[i]]
  BY <1>1 DEF AreWindows
<1>4. \A i \in 1..k : r[i].from = Start(c, i) /\ Start(c, i) \in Int
  BY <1>1, <1>3, StartLaw DEF AreWindows
<1>5. \A i \in 1..k : i < k => r[i].to = Start(c, i) + c.size /\ Start(c, i) + c.size < n
  BY <1>1 DEF AreWindows
<1>6. r[k].to = n /\ Start(c, k) + c.size >= n
  BY <1>1, <1>3 DEF AreWindows
<1>7. r[1].from = 0
  <2>1. 1 \in 1..k
    BY <1>3
  <2> QED
    BY <2>1, <1>4, StartLaw
<1>8. \A i \in 1 .. (k - 1) : Start(c, i + 1) = Start(c, i) + c.size - c.overlap
  BY <1>3, StartLaw
<1>9. \A i \in 1 .. (k - 1) :
        r[i + 1].from = r[i].to - c.overlap /\ r[i].to - r[i].from = c.size
  BY <1>2, <1>3, <1>4, <1>5, <1>8
<1>10. r[k].to - r[k].from <= c.size
  BY <1>2, <1>3, <1>4, <1>6
<1>11. CASE k >= 2 /\ r[k].to - r[k].from < c.min
  <2> DEFINE last == [from |-> r[k - 1].from, to |-> r[k].to]
             w == Append(SubSeq(r, 1, k - 2), last)
  <2>1. Windows(n, c) = w
    BY <1>11 DEF Windows, r
  <2>2. r \in Seq({r[i] : i \in 1..k})
    BY <1>3
  <2>3. Len(w) = k - 1 /\ w[k - 1] = last /\ \A i \in 1 .. (k - 2) : w[i] = r[i]
    BY <2>2, <1>3, <1>11
  <2>4. last.from = Start(c, k - 1) /\ last.to = n
    BY <1>3, <1>4, <1>6, <1>11
  <2> HIDE DEF last, w
  <2>5. w[1].from = 0
    BY <2>3, <2>4, <1>3, <1>7, <1>11, <1>4
  <2>6. w[k - 1].to = n
    BY <2>3, <2>4
  <2>7. \A i \in 1 .. (k - 2) : w[i + 1].from = r[i + 1].from
    BY <2>3, <2>4, <1>3, <1>4, <1>11
  <2>8. \A i \in 1 .. (k - 2) :
          w[i + 1].from = w[i].to - c.overlap /\ w[i].to - w[i].from = c.size
    BY <2>3, <2>7, <1>9, <1>3
  <2>9. Start(c, k) = Start(c, k - 1) + c.size - c.overlap /\ Start(c, k - 1) \in Int
        /\ Start(c, k) \in Int
    BY <1>3, <1>4, <1>8, <1>11
  <2>10. n - Start(c, k) < c.min
    BY <1>3, <1>4, <1>6, <1>11
  <2>11. Start(c, k - 1) + c.size < n
    BY <1>3, <1>5, <1>11
  <2>12. w[k - 1].to - w[k - 1].from = n - Start(c, k - 1)
    BY <2>3, <2>4
  <2>13. w[k - 1].to - w[k - 1].from < c.size + c.min
         /\ w[k - 1].to - w[k - 1].from >= c.min
    BY <2>9, <2>10, <2>11, <2>12, <1>2
  <2> QED
    BY <2>1, <2>3, <2>5, <2>6, <2>8, <2>13, <1>3 DEF Covering
<1>12. CASE ~ (k >= 2 /\ r[k].to - r[k].from < c.min)
  <2>1. Windows(n, c) = r
    BY <1>12 DEF Windows, r
  <2>2. r[k].to - r[k].from \in Int
    BY <1>3, <1>4, <1>6
  <2>3. k > 1 => r[k].to - r[k].from >= c.min
    BY <2>2, <1>12, <1>3, <1>2
  <2>4. r[k].to - r[k].from < c.size + c.min
    BY <2>2, <1>10, <1>2
  <2> QED
    BY <2>1, <2>3, <2>4, <1>6, <1>7, <1>9 DEF Covering
<1> QED
  BY <1>11, <1>12

-----------------------------------------------------------------------------
(* Chunks are runs of places, and a run rises.                             *)

Rises(s) == \A i, j \in 1 .. Len(s) : i < j => s[i] < s[j]
Runs == {s \in Seq(Nat) : Rises(s)}

LEMMA AscendingLaw ==
  ASSUME NEW S \in SUBSET Nat, IsFiniteSet(S)
  PROVE  /\ Ascending(S) \in Runs /\ ToSet(Ascending(S)) = S
         /\ Len(Ascending(S)) = Cardinality(S)
<1> DEFINE score == [x \in S |-> 0]
           tie == [x \in S |-> x]
           r == Ascending(S)
           n == Cardinality(S)
<1>1. \A x, y \in S : Precedes(score, tie, y, x) <=> y < x
  BY DEF Precedes
<1>2. r = Ranked(S, score, tie)
  <2>1. \A x \in S : {y \in S : Precedes(score, tie, y, x)} = {y \in S : y < x}
    BY <1>1
  <2>2. \A x \in S : Cardinality({y \in S : Precedes(score, tie, y, x)})
                       = Cardinality({y \in S : y < x})
    BY <2>1
  <2> HIDE DEF score, tie
  <2> DEFINE A(i) == CHOOSE x \in S : Cardinality({y \in S : y < x}) = i - 1
             B(i) == CHOOSE x \in S :
                       Cardinality({y \in S : Precedes(score, tie, y, x)}) = i - 1
  <2>3. \A i : A(i) = B(i)
    BY <2>2
  <2>4. r = [i \in 1 .. n |-> A(i)] /\ Ranked(S, score, tie) = [i \in 1 .. n |-> B(i)]
    BY Zenon DEF Ascending, Ranked
  <2> HIDE DEF A, B
  <2> QED
    BY <2>3, <2>4
<1>3. score \in [S -> Int] /\ tie \in [S -> Int] /\ Distinct(tie, S)
  BY DEF Distinct
<1> HIDE DEF r, score, tie
<1>4. IsRanking(r, S, score, tie)
  BY <1>2, <1>3, RankedLaw
<1>5. n \in Nat /\ r \in [1 .. n -> S] /\ Len(r) = n
  BY <1>4 DEF IsRanking, IsOrder
<1>6. \A x \in S : \E i \in 1 .. n : r[i] = x
  BY <1>4 DEF IsRanking, IsOrder
<1>7. \A i, j \in 1 .. n : i < j => Precedes(score, tie, r[i], r[j])
  BY <1>4 DEF IsRanking
<1>8. \A i, j \in 1 .. n : i < j => r[i] < r[j]
  BY <1>1, <1>5, <1>7
<1>9. r \in Seq(Nat)
  <2>1. r \in [1 .. n -> Nat]
    BY <1>5
  <2> QED
    BY <2>1, <1>5, SeqDef
<1>10. ToSet(r) = S
  BY <1>5, <1>6 DEF ToSet
<1> QED
  BY <1>5, <1>8, <1>9, <1>10 DEF Runs, Rises, r

LEMMA IndicesFinite ==
  ASSUME NEW s, Len(s) \in Nat, DOMAIN s = 1 .. Len(s), NEW I \in SUBSET DOMAIN s
  PROVE  I \in SUBSET Nat /\ IsFiniteSet(I)
<1>1. IsFiniteSet(1 .. Len(s))
  BY RangeFinite
<1> QED
  BY <1>1, FS_Subset

\* k has what s has at the places I, in the order of s, at the places at.
KeptAt(k, s, I, at) ==
  /\ at \in Runs /\ ToSet(at) = I /\ Len(at) = Cardinality(I)
  /\ Len(k) = Len(at) /\ DOMAIN k = 1 .. Len(at)
  /\ \A n \in 1 .. Len(at) : at[n] \in I /\ k[n] = s[at[n]]

LEMMA KeptLaw ==
  ASSUME NEW s, Len(s) \in Nat, DOMAIN s = 1 .. Len(s), NEW I \in SUBSET DOMAIN s
  PROVE  KeptAt(Kept(s, I), s, I, Ascending(I))
<1> DEFINE at == Ascending(I)
<1>1. I \in SUBSET Nat /\ IsFiniteSet(I)
  BY IndicesFinite
<1>2. at \in Runs /\ ToSet(at) = I /\ Len(at) = Cardinality(I)
  BY <1>1, AscendingLaw
<1>3. Kept(s, I) = [n \in DOMAIN at |-> s[at[n]]]
  BY DEF Kept
<1> HIDE DEF at
<1>4. Len(at) \in Nat /\ DOMAIN at = 1 .. Len(at)
  BY <1>2 DEF Runs
<1>5. \A n \in 1 .. Len(at) : at[n] \in I
  BY <1>2, <1>4 DEF ToSet
<1>6. Len(Kept(s, I)) = Len(at) /\ DOMAIN Kept(s, I) = 1 .. Len(at)
  BY <1>3, <1>4
<1>7. \A n \in 1 .. Len(at) : Kept(s, I)[n] = s[at[n]]
  BY <1>3, <1>4
<1> QED
  BY <1>2, <1>5, <1>6, <1>7 DEF KeptAt, at

LEMMA RunType ==
  ASSUME NEW s \in Runs
  PROVE  /\ s \in Seq(Nat) /\ Len(s) \in Nat /\ DOMAIN s = 1 .. Len(s)
         /\ \A i \in 1 .. Len(s) : s[i] \in Nat /\ s[i] \in ToSet(s)
         /\ \A i, j \in 1 .. Len(s) : i < j => s[i] < s[j]
         /\ \A x \in ToSet(s) : \E i \in 1 .. Len(s) : x = s[i]
         /\ ToSet(s) \in SUBSET Nat
<1>1. s \in Seq(Nat) /\ Rises(s)
  BY DEF Runs
<1>2. Len(s) \in Nat /\ DOMAIN s = 1 .. Len(s) /\ \A i \in 1 .. Len(s) : s[i] \in Nat
  BY <1>1
<1>3. ToSet(s) = {s[i] : i \in 1 .. Len(s)}
  BY <1>2 DEF ToSet
<1> QED
  BY <1>1, <1>2, <1>3 DEF Rises

\* A run is what its set is, in order.
LEMMA RunWithin ==
  ASSUME NEW s \in Runs, NEW t \in Runs, ToSet(s) = ToSet(t)
  PROVE  \A i \in 1 .. Len(s) : i \in 1 .. Len(t) /\ t[i] = s[i]
<1> DEFINE T == {i \in 1 .. Len(s) : ~ (i \in 1 .. Len(t) /\ t[i] = s[i])}
<1>1. SUFFICES ASSUME T # {} PROVE FALSE
  OBVIOUS
<1>2. T \in SUBSET Nat
  BY RunType
<1>3. PICK i \in T : \A j \in T : i <= j
  BY <1>1, <1>2, LeastOf
<1>4. \A j \in 1 .. Len(s) : j < i => j \in 1 .. Len(t) /\ t[j] = s[j]
  BY <1>2, <1>3
<1>5. i \in 1 .. Len(s) /\ Len(s) \in Nat /\ Len(t) \in Nat
  BY <1>3, RunType
<1>6. PICK k \in 1 .. Len(t) : t[k] = s[i]
  BY <1>5, RunType
<1>7. ~ (k < i)
  <2>1. SUFFICES ASSUME k < i PROVE FALSE
    OBVIOUS
  <2>2. k \in 1 .. Len(s)
    BY <2>1, <1>5
  <2>3. t[k] = s[k] /\ s[k] < s[i] /\ s[i] \in Nat
    BY <2>1, <2>2, <1>4, <1>5, RunType
  <2> QED
    BY <2>3, <1>6
<1>8. i \in 1 .. Len(t)
  BY <1>5, <1>7
<1>9. t[i] # s[i]
  BY <1>3, <1>8
<1>10. i # k
  BY <1>6, <1>9
<1>11. t[i] < s[i]
  <2>1. i < k
    BY <1>5, <1>7, <1>10
  <2> QED
    BY <2>1, <1>6, <1>8, RunType
<1>12. PICK m \in 1 .. Len(s) : s[m] = t[i]
  BY <1>8, RunType
<1>13. m < i
  <2>1. SUFFICES ASSUME ~ (m < i) PROVE FALSE
    OBVIOUS
  <2>2. m = i \/ i < m
    BY <2>1, <1>5
  <2>3. s[m] = s[i] \/ s[i] < s[m]
    BY <2>2, <1>5, RunType
  <2>4. s[m] \in Nat /\ s[i] \in Nat
    BY <1>5, RunType
  <2> QED
    BY <2>3, <2>4, <1>11, <1>12
<1>14. m \in 1 .. Len(t) /\ t[m] = s[m]
  BY <1>4, <1>13
<1>15. t[m] < t[i] /\ t[i] \in Nat
  BY <1>8, <1>13, <1>14, RunType
<1> QED
  BY <1>12, <1>14, <1>15

LEMMA RunOfSet ==
  ASSUME NEW s \in Runs, NEW t \in Runs, ToSet(s) = ToSet(t)
  PROVE  s = t
<1>1. s \in Seq(Nat) /\ t \in Seq(Nat) /\ Len(s) \in Nat /\ Len(t) \in Nat
  BY RunType
<1>2. \A i \in 1 .. Len(s) : i \in 1 .. Len(t) /\ t[i] = s[i]
  BY RunWithin
<1>3. \A i \in 1 .. Len(t) : i \in 1 .. Len(s) /\ s[i] = t[i]
  BY RunWithin
<1>4. Len(s) = Len(t)
  BY <1>1, <1>2, <1>3
<1> QED
  BY <1>1, <1>2, <1>4, SeqEqual

\* Some of the places of a run are a run.
LEMMA KeptRun ==
  ASSUME NEW s \in Runs, NEW I \in SUBSET DOMAIN s
  PROVE  Kept(s, I) \in Runs /\ ToSet(Kept(s, I)) = {s[i] : i \in I}
<1> DEFINE k == Kept(s, I)
           at == Ascending(I)
<1>1. Len(s) \in Nat /\ DOMAIN s = 1 .. Len(s)
  BY RunType
<1>2. KeptAt(k, s, I, at)
  BY <1>1, KeptLaw
<1> HIDE DEF k, at
<1>3. at \in Runs /\ ToSet(at) = I /\ Len(k) = Len(at) /\ DOMAIN k = 1 .. Len(at)
      /\ \A n \in 1 .. Len(at) : at[n] \in I /\ k[n] = s[at[n]]
  BY <1>2 DEF KeptAt
<1>4. Len(at) \in Nat /\ \A i, j \in 1 .. Len(at) : i < j => at[i] < at[j]
  BY <1>3, RunType
<1>5. \A n \in 1 .. Len(at) : at[n] \in 1 .. Len(s)
  BY <1>1, <1>3
<1>6. \A n \in 1 .. Len(at) : k[n] \in Nat
  BY <1>3, <1>5, RunType
<1>7. k \in Seq(Nat)
  <2>1. k = [n \in 1 .. Len(at) |-> s[at[n]]]
    BY DEF Kept, k, at, KeptAt
  <2>2. k \in [1 .. Len(at) -> Nat]
    BY <2>1, <1>3, <1>6
  <2> QED
    BY <2>2, <1>4, SeqDef
<1>8. \A i, j \in 1 .. Len(at) : i < j => k[i] < k[j]
  BY <1>3, <1>4, <1>5, RunType
<1>9. ToSet(k) = {s[i] : i \in I}
  <2>1. \A i \in I : \E n \in 1 .. Len(at) : i = at[n]
    BY <1>3, RunType
  <2> QED
    BY <2>1, <1>3 DEF ToSet
<1> QED
  BY <1>3, <1>7, <1>8, <1>9 DEF Runs, Rises, k

LEMMA PartLaw ==
  ASSUME NEW s \in Runs, NEW a \in 1 .. Len(s), NEW b \in 1 .. Len(s), a <= b
  PROVE  /\ SubSeq(s, a, b) \in Runs /\ SubSeq(s, a, b) # <<>>
         /\ ToSet(SubSeq(s, a, b)) = {s[i] : i \in a .. b}
<1> DEFINE u == SubSeq(s, a, b)
           m == b - a + 1
<1>1. s \in Seq(Nat) /\ Len(s) \in Nat /\ a \in Int /\ b \in Int /\ m \in Nat /\ m >= 1
  BY RunType
<1>2. u \in Seq(Nat) /\ Len(u) = m
  BY <1>1
<1>3. \A i \in 1 .. m : u[i] = s[a + i - 1]
  BY <1>1
<1> HIDE DEF u
<1>4. \A i \in 1 .. m : a + i - 1 \in 1 .. Len(s) /\ a + i - 1 \in a .. b
  BY <1>1
<1>5. DOMAIN u = 1 .. m /\ u # <<>>
  BY <1>1, <1>2
<1>6. Rises(u)
  <2> SUFFICES ASSUME NEW i \in 1 .. m, NEW j \in 1 .. m, i < j PROVE u[i] < u[j]
    BY <1>2 DEF Rises
  <2>1. a + i - 1 < a + j - 1
    BY <1>1
  <2> QED
    BY <2>1, <1>3, <1>4, RunType
<1>7. ToSet(u) = {s[i] : i \in a .. b}
  <2>1. \A i \in a .. b : i - a + 1 \in 1 .. m /\ a + (i - a + 1) - 1 = i
    BY <1>1
  <2>2. \A i \in a .. b : \E k \in 1 .. m : u[k] = s[i]
    BY <2>1, <1>3
  <2>3. \A k \in 1 .. m : \E i \in a .. b : u[k] = s[i]
    BY <1>3, <1>4
  <2>4. ToSet(u) = {u[k] : k \in 1 .. m}
    BY <1>5 DEF ToSet
  <2> DEFINE D == 1 .. m
             E == a .. b
  <2> HIDE DEF D, E
  <2>5. {u[k] : k \in D} = {s[i] : i \in E}
    <3>1. \A i \in E : \E k \in D : u[k] = s[i]
      BY <2>2 DEF D, E
    <3>2. \A k \in D : \E i \in E : u[k] = s[i]
      BY <2>3 DEF D, E
    <3> QED
      BY <3>1, <3>2
  <2> QED
    BY <2>4, <2>5 DEF D, E
<1> QED
  BY <1>2, <1>5, <1>6, <1>7 DEF Runs, u

\* Runs in a row: what is in one is before what is in a later one.
Above(s, t) == \A x \in ToSet(s), y \in ToSet(t) : x < y
InRow(ss) == ss \in Seq(Runs) /\ \A i, j \in 1 .. Len(ss) : i < j => Above(ss[i], ss[j])

Within(ss, S) == \A i \in 1 .. Len(ss) : ToSet(ss[i]) \subseteq S
Reached(ss, p) == \E i \in 1 .. Len(ss) : p \in ToSet(ss[i])
Full(ss) == \A i \in 1 .. Len(ss) : ss[i] # <<>>

\* A row of runs with all of S, and with all of it but blanks.
Spans(ss, S) == InRow(ss) /\ Within(ss, S) /\ \A p \in S : Reached(ss, p)
Covers(doc, ss, S) ==
  InRow(ss) /\ Within(ss, S) /\ \A p \in S : doc[p] # "blank" => Reached(ss, p)

LEMMA RowType ==
  ASSUME NEW ss, InRow(ss)
  PROVE  /\ ss \in Seq(Runs) /\ Len(ss) \in Nat /\ DOMAIN ss = 1 .. Len(ss)
         /\ \A i \in 1 .. Len(ss) : ss[i] \in Runs
         /\ \A i, j \in 1 .. Len(ss) : i < j => Above(ss[i], ss[j])
BY DEF InRow

LEMMA SplitLaw ==
  ASSUME NEW s \in Runs, NEW cuts
  PROVE  Spans(SplitBefore(s, cuts), ToSet(s)) /\ Full(SplitBefore(s, cuts))
<1> DEFINE I == {i \in DOMAIN s : i = 1 \/ i \in cuts}
           at == Ascending(I)
           k == Len(at)
           end(n) == IF n = k THEN Len(s) ELSE at[n + 1] - 1
           ss == SplitBefore(s, cuts)
<1>1. Len(s) \in Nat /\ DOMAIN s = 1 .. Len(s)
  BY RunType
<1>2. at \in Runs /\ ToSet(at) = I
  BY <1>1, IndicesFinite, AscendingLaw
<1>3. ss = [n \in DOMAIN at |-> SubSeq(s, at[n], end(n))]
  BY DEF SplitBefore
<1> HIDE DEF at, ss
<1>0. k \in Nat
  BY <1>2, RunType
<1>4. /\ k \in Nat /\ DOMAIN at = 1 .. k /\ \A n \in 1 .. k : at[n] \in 1 .. Len(s)
      /\ \A n, m \in 1 .. k : n < m => at[n] < at[m]
  BY <1>1, <1>2, RunType
<1>5. \A n \in 1 .. k : end(n) \in 1 .. Len(s) /\ at[n] <= end(n)
  <2> SUFFICES ASSUME NEW n \in 1 .. k
               PROVE  end(n) \in 1 .. Len(s) /\ at[n] <= end(n)
    OBVIOUS
  <2>1. CASE n = k
    BY <2>1, <1>1, <1>4
  <2>2. CASE n # k
    <3>1. n + 1 \in 1 .. k /\ n < n + 1
      BY <2>2, <1>0
    <3>2. at[n] < at[n + 1] /\ at[n + 1] \in 1 .. Len(s) /\ at[n] \in 1 .. Len(s)
      BY <3>1, <1>4
    <3> QED
      BY <2>2, <3>2, <1>1
  <2> QED
    BY <2>1, <2>2
<1>6. \A n, m \in 1 .. k : n < m => end(n) < at[m]
  <2> SUFFICES ASSUME NEW n \in 1 .. k, NEW m \in 1 .. k, n < m PROVE end(n) < at[m]
    OBVIOUS
  <2>1. n # k /\ n + 1 \in 1 .. k /\ (n + 1 = m \/ n + 1 < m)
    BY <1>0
  <2>a. at[n + 1] \in 1 .. Len(s) /\ at[m] \in 1 .. Len(s)
    BY <2>1, <1>4
  <2>b. n + 1 < m => at[n + 1] < at[m]
    BY <2>1, <1>4
  <2>2. at[n + 1] \in Int /\ at[m] \in Int /\ (n + 1 < m => at[n + 1] < at[m])
    BY <2>a, <2>b, <1>1
  <2>3. at[n + 1] <= at[m]
    BY <2>1, <2>2
  <2> QED
    BY <2>1, <2>2, <2>3
<1> HIDE DEF end
<1>7. Len(ss) = k /\ DOMAIN ss = 1 .. k
  BY <1>3, <1>4
<1>8. \A n \in 1 .. k : ss[n] = SubSeq(s, at[n], end(n))
  BY <1>3, <1>4
<1>9. \A n \in 1 .. k : /\ ss[n] \in Runs /\ ss[n] # <<>>
                        /\ ToSet(ss[n]) = {s[i] : i \in at[n] .. end(n)}
  BY <1>4, <1>5, <1>8, PartLaw
<1>10. ss \in Seq(Runs)
  <2>1. ss \in [1 .. k -> Runs]
    BY <1>3, <1>4, <1>8, <1>9
  <2> QED
    BY <2>1, <1>4, SeqDef
<1>11. \A n, m \in 1 .. k : n < m => Above(ss[n], ss[m])
  <2> SUFFICES ASSUME NEW n \in 1 .. k, NEW m \in 1 .. k, n < m
               PROVE  Above(ss[n], ss[m])
    OBVIOUS
  <2>1. end(n) < at[m] /\ end(n) \in 1 .. Len(s) /\ at[m] \in 1 .. Len(s)
        /\ at[n] \in 1 .. Len(s) /\ end(m) \in 1 .. Len(s)
    BY <1>4, <1>5, <1>6
  <2>2. ASSUME NEW i \in at[n] .. end(n), NEW j \in at[m] .. end(m)
        PROVE  s[i] < s[j]
    <3>1. i \in 1 .. Len(s) /\ j \in 1 .. Len(s) /\ i < j
      BY <2>1, <1>1
    <3> QED
      BY <3>1, RunType
  <2>3. ToSet(ss[n]) = {s[i] : i \in at[n] .. end(n)}
    BY <1>9
  <2>4. ToSet(ss[m]) = {s[i] : i \in at[m] .. end(m)}
    BY <1>9
  <2> QED
    BY <2>2, <2>3, <2>4 DEF Above
<1>12. Within(ss, ToSet(s))
  <2> SUFFICES ASSUME NEW n \in 1 .. k, NEW i \in at[n] .. end(n)
               PROVE  s[i] \in ToSet(s)
    BY <1>7, <1>9 DEF Within
  <2>1. i \in 1 .. Len(s)
    BY <1>1, <1>4, <1>5
  <2> QED
    BY <2>1, RunType
<1>13. ASSUME NEW p \in ToSet(s) PROVE Reached(ss, p)
  <2>1. PICK i \in 1 .. Len(s) : p = s[i]
    BY RunType
  <2> DEFINE T == {x \in Nat : \E n \in 1 .. k : at[n] <= i /\ x = i - at[n]}
  <2>2. T \in SUBSET Nat
    OBVIOUS
  <2>3. T # {}
    <3>1. 1 \in I
      BY <1>1
    <3>2. PICK n \in 1 .. k : 1 = at[n]
      BY <3>1, <1>2, RunType
    <3>3. at[n] <= i /\ i - at[n] \in Nat
      BY <3>2, <1>1
    <3> QED
      BY <3>3
  <2>4. PICK x \in T : \A y \in T : x <= y
    BY <2>2, <2>3, LeastOf
  <2>5. PICK n \in 1 .. k : at[n] <= i /\ x = i - at[n]
    BY <2>4
  <2>6. i <= end(n)
    <3>1. CASE n = k
      BY <3>1, <1>1 DEF end
    <3>2. CASE n # k
      <4>0. n + 1 \in 1 .. k /\ n < n + 1
        BY <3>2, <1>0
      <4>1. at[n] < at[n + 1] /\ at[n] \in Int /\ at[n + 1] \in Int
        BY <4>0, <1>4
      <4>2. ~ (at[n + 1] <= i)
        <5>1. SUFFICES ASSUME at[n + 1] <= i PROVE FALSE
          OBVIOUS
        <5>2. i - at[n + 1] \in T
          BY <5>1, <4>0, <4>1, <1>1
        <5>3. x <= i - at[n + 1]
          BY <5>2, <2>4
        <5> QED
          BY <5>3, <4>1, <2>5, <1>1
      <4>3. i <= at[n + 1] - 1
        BY <4>1, <4>2, <1>1
      <4> QED
        BY <4>3, <3>2 DEF end
    <3> QED
      BY <3>1, <3>2
  <2>7. i \in at[n] .. end(n)
    BY <2>5, <2>6, <1>1, <1>4, <1>5
  <2> QED
    BY <2>1, <2>7, <1>7, <1>9 DEF Reached
<1> QED
  BY <1>7, <1>9, <1>10, <1>11, <1>12, <1>13 DEF Spans, InRow, Full, ss

LEMMA StripLaw ==
  ASSUME NEW doc, NEW s \in Runs
  PROVE  /\ Strip(doc, s) \in Runs /\ ToSet(Strip(doc, s)) \subseteq ToSet(s)
         /\ \A p \in ToSet(s) : doc[p] # "blank" => p \in ToSet(Strip(doc, s))
<1> DEFINE I == Solid(doc, s)
           at == Ascending(I)
           k == Len(at)
<1>1. Len(s) \in Nat /\ DOMAIN s = 1 .. Len(s) /\ I \in SUBSET DOMAIN s
  BY RunType DEF Solid
<1>2. at \in Runs /\ ToSet(at) = I
  BY <1>1, IndicesFinite, AscendingLaw
<1>3. Strip(doc, s) = IF at = <<>> THEN <<>> ELSE SubSeq(s, at[1], at[k])
  BY DEF Strip
<1> HIDE DEF at
<1>4. \A i \in 1 .. Len(s) : doc[s[i]] # "blank" => \E n \in 1 .. k : i = at[n]
  <2>1. \A i \in 1 .. Len(s) : doc[s[i]] # "blank" => i \in I
    BY <1>1 DEF Solid
  <2> QED
    BY <2>1, <1>2, RunType
<1>5. k \in Nat /\ at \in Seq(Nat)
  BY <1>2, RunType
<1>6. CASE at = <<>>
  <2>1. Strip(doc, s) = <<>> /\ k = 0
    BY <1>3, <1>6
  <2>2. <<>> \in Runs /\ ToSet(<<>>) = {}
    BY DEF Runs, Rises, ToSet
  <2>3. \A p \in ToSet(s) : doc[p] = "blank"
    BY <2>1, <1>4, RunType
  <2> QED
    BY <2>1, <2>2, <2>3
<1>7. CASE at # <<>>
  <2>1. k >= 1
    BY <1>5, <1>7
  <2>2. 1 \in 1 .. k /\ k \in 1 .. k
    BY <2>1, <1>5
  <2>3. \A n \in 1 .. k : at[n] \in 1 .. Len(s)
    BY <1>1, <1>2, RunType
  <2>4. \A n \in 1 .. k : at[1] <= at[n] /\ at[n] <= at[k]
    <3>1. \A n \in 1 .. k : at[n] \in Nat
      BY <1>2, RunType
    <3>2. \A n \in 1 .. k : (n = 1 \/ 1 < n) /\ (n = k \/ n < k)
      BY <1>5
    <3>3. \A n, m \in 1 .. k : n < m => at[n] < at[m]
      BY <1>2, RunType
    <3>4. \A n \in 1 .. k : (n = 1 \/ at[1] < at[n]) /\ (n = k \/ at[n] < at[k])
      BY <2>2, <3>2, <3>3
    <3> QED
      BY <3>1, <3>4, <2>2
  <2> DEFINE u == SubSeq(s, at[1], at[k])
  <2>5. u \in Runs /\ ToSet(u) = {s[i] : i \in at[1] .. at[k]}
    BY <2>2, <2>3, <2>4, PartLaw
  <2>6. Strip(doc, s) = u
    BY <1>3, <1>7
  <2> HIDE DEF u
  <2>7. ToSet(u) \subseteq ToSet(s)
    <3>1. \A i \in at[1] .. at[k] : i \in 1 .. Len(s)
      BY <1>1, <2>2, <2>3
    <3> QED
      BY <3>1, <2>5, RunType
  <2>8. ASSUME NEW p \in ToSet(s), doc[p] # "blank" PROVE p \in ToSet(u)
    <3>1. PICK i \in 1 .. Len(s) : p = s[i]
      BY RunType
    <3>2. PICK n \in 1 .. k : i = at[n]
      BY <2>8, <3>1, <1>4
    <3>3. i \in at[1] .. at[k]
      BY <3>1, <3>2, <2>2, <2>3, <2>4
    <3> QED
      BY <3>1, <3>3, <2>5
  <2> QED
    BY <2>5, <2>6, <2>7, <2>8
<1> QED
  BY <1>6, <1>7

LEMMA StripsLaw ==
  ASSUME NEW doc, NEW ss, NEW S, Covers(doc, ss, S)
  PROVE  Covers(doc, [n \in DOMAIN ss |-> Strip(doc, ss[n])], S)
<1> DEFINE tt == [n \in DOMAIN ss |-> Strip(doc, ss[n])]
           k == Len(ss)
<1>1. InRow(ss) /\ Within(ss, S) /\ \A p \in S : doc[p] # "blank" => Reached(ss, p)
  BY DEF Covers
<1>2. k \in Nat /\ DOMAIN ss = 1 .. k /\ \A i \in 1 .. k : ss[i] \in Runs
  BY <1>1, RowType
<1>3. \A i \in 1 .. k : tt[i] = Strip(doc, ss[i])
  BY <1>2
<1>4. Len(tt) = k /\ DOMAIN tt = 1 .. k
  BY <1>2
<1>5. \A i \in 1 .. k : /\ tt[i] \in Runs /\ ToSet(tt[i]) \subseteq ToSet(ss[i])
                        /\ \A p \in ToSet(ss[i]) : doc[p] # "blank" => p \in ToSet(tt[i])
  BY <1>2, <1>3, StripLaw
<1>6. tt \in Seq(Runs)
  <2>1. tt \in [1 .. k -> Runs]
    BY <1>2, <1>3, <1>5
  <2> QED
    BY <2>1, <1>2, SeqDef
<1> HIDE DEF tt
<1>7. \A i, j \in 1 .. k : i < j => Above(tt[i], tt[j])
  <2>1. \A i, j \in 1 .. k : i < j => Above(ss[i], ss[j])
    BY <1>1, RowType
  <2> QED
    BY <2>1, <1>5 DEF Above
<1>8. Within(tt, S)
  BY <1>1, <1>4, <1>5 DEF Within
<1>9. \A p \in S : doc[p] # "blank" => Reached(tt, p)
  BY <1>1, <1>4, <1>5 DEF Reached
<1> QED
  BY <1>4, <1>6, <1>7, <1>8, <1>9 DEF Covers, InRow, tt

LEMMA NonEmptyLaw ==
  ASSUME NEW doc, NEW ss, NEW S, Covers(doc, ss, S)
  PROVE  Covers(doc, NonEmpty(ss), S) /\ Full(NonEmpty(ss))
<1> DEFINE I == {n \in DOMAIN ss : ss[n] # <<>>}
           tt == NonEmpty(ss)
           at == Ascending(I)
           m == Len(at)
           k == Len(ss)
<1>1. InRow(ss) /\ Within(ss, S) /\ \A p \in S : doc[p] # "blank" => Reached(ss, p)
  BY DEF Covers
<1>2. k \in Nat /\ DOMAIN ss = 1 .. k /\ \A i \in 1 .. k : ss[i] \in Runs
  BY <1>1, RowType
<1>3. KeptAt(tt, ss, I, at)
  BY <1>2, KeptLaw DEF NonEmpty
<1> HIDE DEF tt, at
<1>4. at \in Runs /\ ToSet(at) = I /\ Len(tt) = m /\ DOMAIN tt = 1 .. m
      /\ \A n \in 1 .. m : at[n] \in I /\ tt[n] = ss[at[n]]
  BY <1>3 DEF KeptAt
<1>5. m \in Nat /\ \A i, j \in 1 .. m : i < j => at[i] < at[j]
  BY <1>4, RunType
<1>6. \A n \in 1 .. m : at[n] \in 1 .. k /\ tt[n] = ss[at[n]] /\ tt[n] # <<>>
  BY <1>2, <1>4
<1>7. \A n \in 1 .. m : tt[n] \in Runs
  BY <1>2, <1>6
<1>8. tt \in Seq(Runs)
  <2>1. tt = [n \in 1 .. m |-> tt[n]]
    <3>1. tt = [n \in DOMAIN at |-> ss[at[n]]]
      BY DEF tt, at, NonEmpty, Kept
    <3>2. DOMAIN at = 1 .. m
      BY <1>4, RunType
    <3> QED
      BY <3>1, <3>2
  <2>2. tt \in [1 .. m -> Runs]
    BY <2>1, <1>7
  <2> QED
    BY <2>2, <1>5, SeqDef
<1>9. \A i, j \in 1 .. m : i < j => Above(tt[i], tt[j])
  BY <1>1, <1>5, <1>6, RowType
<1>10. Within(tt, S)
  BY <1>1, <1>4, <1>6 DEF Within
<1>11. ASSUME NEW p \in S, doc[p] # "blank" PROVE Reached(tt, p)
  <2>1. PICK i \in 1 .. k : p \in ToSet(ss[i])
    BY <1>1, <1>11 DEF Reached
  <2>2. ss[i] # <<>>
    BY <2>1 DEF ToSet
  <2>3. i \in I
    BY <2>2, <1>2
  <2>4. PICK n \in 1 .. m : i = at[n]
    BY <2>3, <1>4, RunType
  <2> QED
    BY <2>1, <2>4, <1>4, <1>6 DEF Reached
<1> QED
  BY <1>4, <1>6, <1>8, <1>9, <1>10, <1>11 DEF Covers, InRow, Full, tt

\* flat has the concatenations of the first, the first two, ... of ss.
Flattens(flat, ss, n) ==
  flat = [i \in 1 .. n |-> IF i = 1 THEN ss[i] ELSE flat[i - 1] \o ss[i]]

FlatTo(f, ss, m) ==
  \A i \in 1 .. m : f[i] = IF i = 1 THEN ss[i] ELSE f[i - 1] \o ss[i]
HasFlat(X, ss, m) == \E f \in [1 .. m -> Seq(X)] : FlatTo(f, ss, m)

LEMMA FlattensExist ==
  ASSUME NEW X, NEW n \in Nat, NEW ss \in [1 .. n -> Seq(X)]
  PROVE  \E flat \in [1 .. n -> Seq(X)] : Flattens(flat, ss, n)
<1> DEFINE Good == {m \in Nat : m <= n => HasFlat(X, ss, m)}
<1>1. 0 \in Good
  <2>1. 1 .. 0 = {}
    OBVIOUS
  <2>2. [i \in 1 .. 0 |-> <<>>] \in [1 .. 0 -> Seq(X)]
    BY <2>1
  <2> QED
    BY <2>1, <2>2 DEF HasFlat, FlatTo
<1>2. ASSUME NEW m \in Nat, m \in Good PROVE m + 1 \in Good
  <2> SUFFICES ASSUME m + 1 <= n
               PROVE  HasFlat(X, ss, m + 1)
    OBVIOUS
  <2>1. PICK g \in [1 .. m -> Seq(X)] :
          \A i \in 1 .. m : g[i] = IF i = 1 THEN ss[i] ELSE g[i - 1] \o ss[i]
    BY <1>2 DEF HasFlat, FlatTo
  <2> DEFINE new == IF m = 0 THEN ss[1] ELSE g[m] \o ss[m + 1]
             f == [i \in 1 .. m + 1 |-> IF i = m + 1 THEN new ELSE g[i]]
  <2>2. new \in Seq(X)
    <3>1. m + 1 \in 1 .. n
      OBVIOUS
    <3>2. ss[m + 1] \in Seq(X)
      BY <3>1
    <3>3. m # 0 => g[m] \in Seq(X)
      BY <2>1
    <3>4. m # 0 => g[m] \o ss[m + 1] \in Seq(X)
      BY <3>2, <3>3, ConcatProperties
    <3> QED
      BY <3>2, <3>4
  <2> HIDE DEF new
  <2>3. \A i \in 1 .. m + 1 : i # m + 1 => i \in 1 .. m
    OBVIOUS
  <2>4. f \in [1 .. m + 1 -> Seq(X)]
    BY <2>1, <2>2, <2>3
  <2>5. \A i \in 1 .. m : f[i] = g[i]
    BY <2>3
  <2>6. f[m + 1] = new
    OBVIOUS
  <2> HIDE DEF f
  <2>7. ASSUME NEW i \in 1 .. m + 1
        PROVE  f[i] = IF i = 1 THEN ss[i] ELSE f[i - 1] \o ss[i]
    <3>1. CASE i = m + 1 /\ m = 0
      BY <3>1, <2>6 DEF new
    <3>2. CASE i = m + 1 /\ m # 0
      <4>1. m \in 1 .. m /\ i - 1 = m /\ i # 1
        BY <3>2
      <4> QED
        BY <3>2, <4>1, <2>5, <2>6 DEF new
    <3>3. CASE i # m + 1
      <4>1. i \in 1 .. m /\ (i # 1 => i - 1 \in 1 .. m)
        BY <3>3
      <4> QED
        BY <4>1, <2>1, <2>5
    <3> QED
      BY <3>1, <3>2, <3>3
  <2> QED
    BY <2>4, <2>7 DEF HasFlat, FlatTo
<1> HIDE DEF Good
<1>3. Nat \subseteq Good
  BY <1>1, <1>2, NatInd
<1>4. HasFlat(X, ss, n)
  BY <1>3 DEF Good
<1>5. PICK f \in [1 .. n -> Seq(X)] : FlatTo(f, ss, n)
  BY <1>4 DEF HasFlat
<1>6. f = [i \in 1 .. n |-> f[i]]
  OBVIOUS
<1>7. Flattens(f, ss, n)
  BY <1>5, <1>6 DEF Flattens, FlatTo
<1> QED
  BY <1>7

\* f lists what the first m of ss have: its place k is place col[k] of row[k].
Lays(f, ss, m, row, col) ==
  /\ \A k \in 1 .. Len(f) : row[k] \in 1 .. m /\ col[k] \in 1 .. Len(ss[row[k]])
  /\ \A k \in 1 .. Len(f) : f[k] = ss[row[k]][col[k]]
  /\ \A k, l \in 1 .. Len(f) : k < l =>
       row[k] < row[l] \/ (row[k] = row[l] /\ col[k] < col[l])
  /\ \A i \in 1 .. m : \A j \in 1 .. Len(ss[i]) :
       \E k \in 1 .. Len(f) : row[k] = i /\ col[k] = j

Listed(f, ss, m) == \E row, col : Lays(f, ss, m, row, col)

\* One sequence more.
LEMMA ListsOneMore ==
  ASSUME NEW X, NEW ss, NEW m \in Nat, NEW f \in Seq(X), Listed(f, ss, m),
         ss[m + 1] \in Seq(X)
  PROVE  f \o ss[m + 1] \in Seq(X) /\ Listed(f \o ss[m + 1], ss, m + 1)
<1> DEFINE t == ss[m + 1]
           a == Len(f)
           b == Len(t)
           g == f \o t
<1>1. PICK row, col : Lays(f, ss, m, row, col)
  BY DEF Listed
<1>2. a \in Nat /\ b \in Nat /\ t \in Seq(X)
  OBVIOUS
<1>3. /\ g \in Seq(X) /\ Len(g) = a + b
      /\ \A k \in 1 .. a + b : g[k] = IF k <= a THEN f[k] ELSE t[k - a]
  BY <1>2, ConcatProperties
<1> DEFINE R == [k \in 1 .. a + b |-> IF k <= a THEN row[k] ELSE m + 1]
           C == [k \in 1 .. a + b |-> IF k <= a THEN col[k] ELSE k - a]
<1> HIDE DEF t, g, a, b
<1>4. \A k \in 1 .. a + b : k <= a =>
        k \in 1 .. a /\ R[k] = row[k] /\ C[k] = col[k] /\ g[k] = f[k]
  BY <1>2, <1>3
<1>5. \A k \in 1 .. a + b : ~ (k <= a) =>
        k - a \in 1 .. b /\ R[k] = m + 1 /\ C[k] = k - a /\ g[k] = t[k - a]
  BY <1>2, <1>3
<1>6. \A k \in 1 .. a : k \in 1 .. a + b /\ k <= a
  BY <1>2
<1>7. \A j \in 1 .. b : a + j \in 1 .. a + b /\ ~ (a + j <= a) /\ (a + j) - a = j
  BY <1>2
<1> HIDE DEF R, C
<1>8. /\ \A k \in 1 .. a : row[k] \in 1 .. m /\ col[k] \in 1 .. Len(ss[row[k]])
      /\ \A k \in 1 .. a : f[k] = ss[row[k]][col[k]]
      /\ \A k, l \in 1 .. a : k < l =>
           row[k] < row[l] \/ (row[k] = row[l] /\ col[k] < col[l])
      /\ \A i \in 1 .. m : \A j \in 1 .. Len(ss[i]) :
           \E k \in 1 .. a : row[k] = i /\ col[k] = j
  BY <1>1 DEF Lays, a
<1>9. ASSUME NEW k \in 1 .. a + b
      PROVE  /\ R[k] \in 1 .. m + 1 /\ C[k] \in 1 .. Len(ss[R[k]])
             /\ g[k] = ss[R[k]][C[k]]
  <2>1. CASE k <= a
    <3>1. k \in 1 .. a /\ R[k] = row[k] /\ C[k] = col[k] /\ g[k] = f[k]
      BY <2>1, <1>4
    <3>2. row[k] \in 1 .. m
      BY <3>1, <1>8
    <3>3. row[k] \in 1 .. m + 1
      BY <3>2
    <3> QED
      BY <3>1, <3>3, <1>8
  <2>2. CASE ~ (k <= a)
    <3>1. k - a \in 1 .. b /\ R[k] = m + 1 /\ C[k] = k - a /\ g[k] = t[k - a]
      BY <2>2, <1>5
    <3> QED
      BY <3>1 DEF t, b
  <2> QED
    BY <2>1, <2>2
<1>10. ASSUME NEW k \in 1 .. a + b, NEW l \in 1 .. a + b, k < l
       PROVE  R[k] < R[l] \/ (R[k] = R[l] /\ C[k] < C[l])
  <2>1. CASE l <= a
    <3>1. k <= a
      BY <2>1, <1>10, <1>2
    <3> QED
      BY <2>1, <3>1, <1>4, <1>8, <1>10
  <2>2. CASE k <= a /\ ~ (l <= a)
    <3>1. R[k] \in 1 .. m /\ R[l] = m + 1
      BY <2>2, <1>4, <1>5, <1>8
    <3> QED
      BY <3>1
  <2>3. CASE ~ (k <= a)
    <3>1. ~ (l <= a)
      BY <2>3, <1>10, <1>2
    <3>2. R[k] = m + 1 /\ R[l] = m + 1 /\ C[k] = k - a /\ C[l] = l - a
      BY <2>3, <3>1, <1>5
    <3>3. k - a < l - a
      BY <1>2, <1>10
    <3> QED
      BY <3>2, <3>3
  <2> QED
    BY <2>1, <2>2, <2>3
<1>11. ASSUME NEW i \in 1 .. m + 1, NEW j \in 1 .. Len(ss[i])
       PROVE  \E k \in 1 .. a + b : R[k] = i /\ C[k] = j
  <2>1. CASE i = m + 1
    <3>1. j \in 1 .. b
      BY <2>1 DEF b, t
    <3>2. R[a + j] = m + 1 /\ C[a + j] = j /\ a + j \in 1 .. a + b
      BY <3>1, <1>5, <1>7
    <3> QED
      BY <3>2, <2>1
  <2>2. CASE i # m + 1
    <3>1. i \in 1 .. m
      BY <2>2
    <3>2. PICK k \in 1 .. a : row[k] = i /\ col[k] = j
      BY <3>1, <1>8
    <3> QED
      BY <3>2, <1>4, <1>6
  <2> QED
    BY <2>1, <2>2
<1>12. Lays(g, ss, m + 1, R, C)
  <2> DEFINE c == a + b
  <2>1. Len(g) = c
    BY <1>3
  <2>2. \A k \in 1 .. c : R[k] \in 1 .. m + 1 /\ C[k] \in 1 .. Len(ss[R[k]])
    BY <1>9
  <2>3. \A k \in 1 .. c : g[k] = ss[R[k]][C[k]]
    BY <1>9
  <2>4. \A k, l \in 1 .. c : k < l => R[k] < R[l] \/ (R[k] = R[l] /\ C[k] < C[l])
    BY <1>10
  <2>5. \A i \in 1 .. m + 1 : \A j \in 1 .. Len(ss[i]) :
          \E k \in 1 .. c : R[k] = i /\ C[k] = j
    BY <1>11
  <2> HIDE DEF c
  <2> QED
    BY <2>1, <2>2, <2>3, <2>4, <2>5 DEF Lays
<1> QED
  BY <1>3, <1>12 DEF Listed, g, t

LEMMA FlattenLaw ==
  ASSUME NEW X, NEW ss \in Seq(Seq(X))
  PROVE  FlattenSeq(ss) \in Seq(X) /\ Listed(FlattenSeq(ss), ss, Len(ss))
<1> DEFINE n == Len(ss)
<1>1. n \in Nat /\ ss \in [1 .. n -> Seq(X)]
  OBVIOUS
<1>2. CASE n = 0
  <2>1. FlattenSeq(ss) = ss
    BY <1>2 DEF FlattenSeq
  <2>2. ss = <<>>
    BY <1>2
  <2>3. <<>> \in Seq(X) /\ Len(<<>>) = 0
    OBVIOUS
  <2>4. Lays(<<>>, ss, 0, <<>>, <<>>)
    BY <2>3 DEF Lays
  <2> QED
    BY <1>2, <2>1, <2>2, <2>3, <2>4 DEF Listed
<1>3. CASE n # 0
  <2> DEFINE flat == CHOOSE f : Flattens(f, ss, n)
  <2>1. FlattenSeq(ss) = flat[n]
    BY <1>3 DEF FlattenSeq, Flattens
  <2>2. Flattens(flat, ss, n)
    BY <1>1, FlattensExist
  <2> HIDE DEF flat
  <2>3. \A i \in 1 .. n : flat[i] = IF i = 1 THEN ss[i] ELSE flat[i - 1] \o ss[i]
    BY <2>2 DEF Flattens
  <2> DEFINE T == {i \in Nat : i + 1 \in 1 .. n =>
                     flat[i + 1] \in Seq(X) /\ Listed(flat[i + 1], ss, i + 1)}
  <2>4. 0 \in T
    <3>1. 1 \in 1 .. n
      BY <1>1, <1>3
    <3>2. flat[1] = ss[1] /\ ss[1] \in Seq(X)
      BY <3>1, <2>3, <1>1
    <3> DEFINE s == ss[1]
               row == [k \in 1 .. Len(s) |-> 1]
               col == [k \in 1 .. Len(s) |-> k]
    <3>3. Len(s) \in Nat
      BY <3>2
    <3>4. \A k \in 1 .. Len(s) : row[k] = 1 /\ col[k] = k
      OBVIOUS
    <3> HIDE DEF row, col
    <3>5. \A i \in 1 .. 1 : i = 1
      OBVIOUS
    <3> DEFINE c == Len(s)
    <3>6. \A k \in 1 .. c : row[k] \in 1 .. 1 /\ col[k] \in 1 .. Len(ss[row[k]])
                             /\ s[k] = ss[row[k]][col[k]]
      BY <3>4
    <3>7. \A k, l \in 1 .. c : k < l => row[k] = row[l] /\ col[k] < col[l]
      BY <3>4
    <3>8. \A i \in 1 .. 1 : \A j \in 1 .. Len(ss[i]) :
            \E k \in 1 .. c : row[k] = i /\ col[k] = j
      BY <3>4, <3>5
    <3>9. Lays(s, ss, 1, row, col)
      BY <3>6, <3>7, <3>8 DEF Lays
    <3> QED
      BY <3>2, <3>9 DEF Listed
  <2>5. ASSUME NEW i \in Nat, i \in T PROVE i + 1 \in T
    <3> SUFFICES ASSUME i + 2 \in 1 .. n
                 PROVE  flat[i + 2] \in Seq(X) /\ Listed(flat[i + 2], ss, i + 2)
      <4>1. (i + 1) + 1 = i + 2
        OBVIOUS
      <4> QED
        BY <4>1
    <3>1. i + 1 \in 1 .. n /\ i + 2 # 1 /\ (i + 2) - 1 = i + 1 /\ (i + 1) + 1 = i + 2
      BY <1>1
    <3>2. flat[i + 1] \in Seq(X) /\ Listed(flat[i + 1], ss, i + 1)
      BY <3>1, <2>5
    <3>3. flat[i + 2] = flat[i + 1] \o ss[i + 2] /\ ss[i + 2] \in Seq(X)
      BY <3>1, <2>3, <1>1
    <3>4. i + 1 \in Nat
      OBVIOUS
    <3> QED
      BY <3>1, <3>2, <3>3, <3>4, ListsOneMore
  <2> HIDE DEF T
  <2>6. Nat \subseteq T
    BY <2>4, <2>5, NatInd
  <2>7. n - 1 \in Nat /\ (n - 1) + 1 = n /\ n \in 1 .. n
    BY <1>1, <1>3
  <2>8. flat[n] \in Seq(X) /\ Listed(flat[n], ss, n)
    BY <2>6, <2>7 DEF T
  <2> QED
    BY <2>1, <2>8
<1> QED
  BY <1>2, <1>3

\* A row of runs, one after the other, is a run.
LEMMA FlattenRow ==
  ASSUME NEW ss, InRow(ss)
  PROVE  /\ FlattenSeq(ss) \in Runs
         /\ \A p : p \in ToSet(FlattenSeq(ss)) <=> Reached(ss, p)
<1> DEFINE f == FlattenSeq(ss)
           n == Len(ss)
<1>1. /\ ss \in Seq(Runs) /\ n \in Nat
      /\ \A i \in 1 .. n : ss[i] \in Runs
      /\ \A i, j \in 1 .. n : i < j => Above(ss[i], ss[j])
  BY RowType
<1>2. ss \in Seq(Seq(Nat))
  <2>1. Runs \subseteq Seq(Nat)
    BY DEF Runs
  <2> QED
    BY <1>1, <2>1, SeqMonotonic
<1>3. f \in Seq(Nat) /\ Listed(f, ss, n)
  BY <1>2, FlattenLaw
<1> HIDE DEF f
<1>4. PICK row, col : Lays(f, ss, n, row, col)
  BY <1>3 DEF Listed
<1>5. /\ \A k \in 1 .. Len(f) : row[k] \in 1 .. n /\ col[k] \in 1 .. Len(ss[row[k]])
      /\ \A k \in 1 .. Len(f) : f[k] = ss[row[k]][col[k]]
      /\ \A k, l \in 1 .. Len(f) : k < l =>
           row[k] < row[l] \/ (row[k] = row[l] /\ col[k] < col[l])
      /\ \A i \in 1 .. n : \A j \in 1 .. Len(ss[i]) :
           \E k \in 1 .. Len(f) : row[k] = i /\ col[k] = j
  BY <1>4 DEF Lays
<1>6. \A k \in 1 .. Len(f) : ss[row[k]] \in Runs /\ f[k] \in ToSet(ss[row[k]])
  BY <1>1, <1>5, RunType
<1>7. Rises(f)
  <2> SUFFICES ASSUME NEW k \in 1 .. Len(f), NEW l \in 1 .. Len(f), k < l
               PROVE  f[k] < f[l]
    BY DEF Rises
  <2>1. CASE row[k] < row[l]
    <3>1. Above(ss[row[k]], ss[row[l]])
      BY <2>1, <1>1, <1>5
    <3> QED
      BY <3>1, <1>6 DEF Above
  <2>2. CASE row[k] = row[l] /\ col[k] < col[l]
    <3> DEFINE s == ss[row[k]]
    <3>1. s \in Runs /\ col[k] \in 1 .. Len(s) /\ col[l] \in 1 .. Len(s)
          /\ f[k] = s[col[k]] /\ f[l] = s[col[l]]
      BY <2>2, <1>5, <1>6
    <3> HIDE DEF s
    <3>2. s[col[k]] < s[col[l]]
      BY <2>2, <3>1, RunType
    <3> QED
      BY <3>1, <3>2
  <2> QED
    BY <2>1, <2>2, <1>5
<1>8. f \in Runs
  BY <1>3, <1>7 DEF Runs
<1>9. ASSUME NEW p, p \in ToSet(f) PROVE Reached(ss, p)
  <2>1. PICK k \in 1 .. Len(f) : p = f[k]
    BY <1>8, <1>9, RunType
  <2> QED
    BY <2>1, <1>5, <1>6 DEF Reached
<1>10. ASSUME NEW p, Reached(ss, p) PROVE p \in ToSet(f)
  <2>1. PICK i \in 1 .. n : p \in ToSet(ss[i])
    BY <1>10 DEF Reached
  <2>2. ss[i] \in Runs
    BY <1>1
  <2>3. PICK j \in 1 .. Len(ss[i]) : p = ss[i][j]
    BY <2>1, <2>2, RunType
  <2>4. PICK k \in 1 .. Len(f) : row[k] = i /\ col[k] = j
    BY <1>5
  <2>5. f[k] = p
    BY <2>3, <2>4, <1>5
  <2> QED
    BY <2>5, <1>8, RunType
<1> QED
  BY <1>8, <1>9, <1>10 DEF f

LEMMA CoverType ==
  ASSUME NEW doc, NEW ss, NEW S, Covers(doc, ss, S)
  PROVE  /\ ss \in Seq(Runs) /\ Len(ss) \in Nat /\ DOMAIN ss = 1 .. Len(ss)
         /\ \A i \in 1 .. Len(ss) : ss[i] \in Runs /\ ToSet(ss[i]) \subseteq S
         /\ \A i, j \in 1 .. Len(ss) : i < j => Above(ss[i], ss[j])
         /\ \A p \in S : doc[p] # "blank" => \E i \in 1 .. Len(ss) : p \in ToSet(ss[i])
BY RowType DEF Covers, Within, Reached

\* Where each run of a row is cut in turn, the cuts one after the other are a row.
LEMMA DeepLaw ==
  ASSUME NEW doc, NEW ss, NEW S, Covers(doc, ss, S),
         NEW F, DOMAIN F = 1 .. Len(ss),
         F = [n \in 1 .. Len(ss) |-> F[n]],
         \A n \in 1 .. Len(ss) : Covers(doc, F[n], ToSet(ss[n]))
  PROVE  /\ Covers(doc, FlattenSeq(F), S)
         /\ (\A n \in 1 .. Len(ss) : Full(F[n])) => Full(FlattenSeq(F))
<1> DEFINE f == FlattenSeq(F)
           n == Len(ss)
<1>1. /\ ss \in Seq(Runs) /\ n \in Nat
      /\ \A i \in 1 .. n : ss[i] \in Runs /\ ToSet(ss[i]) \subseteq S
      /\ \A i, j \in 1 .. n : i < j => Above(ss[i], ss[j])
      /\ \A p \in S : doc[p] # "blank" => \E i \in 1 .. n : p \in ToSet(ss[i])
  BY CoverType
<1>2. \A i \in 1 .. n : /\ F[i] \in Seq(Runs) /\ Len(F[i]) \in Nat
                        /\ \A j \in 1 .. Len(F[i]) :
                             F[i][j] \in Runs /\ ToSet(F[i][j]) \subseteq ToSet(ss[i])
                        /\ \A j, k \in 1 .. Len(F[i]) : j < k => Above(F[i][j], F[i][k])
                        /\ \A p \in ToSet(ss[i]) : doc[p] # "blank" =>
                             \E j \in 1 .. Len(F[i]) : p \in ToSet(F[i][j])
  <2> TAKE i \in 1 .. n
  <2>1. Covers(doc, F[i], ToSet(ss[i]))
    OBVIOUS
  <2> QED
    BY <2>1, CoverType
<1>3. F \in Seq(Seq(Runs)) /\ Len(F) = n
  <2>1. F \in [1 .. n -> Seq(Runs)]
    BY <1>2
  <2> QED
    BY <2>1, <1>1, SeqDef
<1>4. f \in Seq(Runs) /\ Listed(f, F, n)
  BY <1>3, FlattenLaw
<1> HIDE DEF f
<1>5. PICK row, col : Lays(f, F, n, row, col)
  BY <1>4 DEF Listed
<1>6. /\ \A k \in 1 .. Len(f) : row[k] \in 1 .. n /\ col[k] \in 1 .. Len(F[row[k]])
      /\ \A k \in 1 .. Len(f) : f[k] = F[row[k]][col[k]]
      /\ \A k, l \in 1 .. Len(f) : k < l =>
           row[k] < row[l] \/ (row[k] = row[l] /\ col[k] < col[l])
      /\ \A i \in 1 .. n : \A j \in 1 .. Len(F[i]) :
           \E k \in 1 .. Len(f) : row[k] = i /\ col[k] = j
  BY <1>5 DEF Lays
<1>7. \A k \in 1 .. Len(f) : f[k] \in Runs /\ ToSet(f[k]) \subseteq ToSet(ss[row[k]])
  <2> TAKE k \in 1 .. Len(f)
  <2>1. PICK i \in 1 .. n : i = row[k]
    BY <1>6
  <2>2. PICK j \in 1 .. Len(F[i]) : j = col[k]
    BY <2>1, <1>6
  <2>3. f[k] = F[i][j]
    BY <2>1, <2>2, <1>6
  <2>4. F[i][j] \in Runs /\ ToSet(F[i][j]) \subseteq ToSet(ss[i])
    BY <1>2
  <2> QED
    BY <2>1, <2>3, <2>4
<1>8. ASSUME NEW k \in 1 .. Len(f), NEW l \in 1 .. Len(f), k < l
      PROVE  Above(f[k], f[l])
  <2>1. CASE row[k] < row[l]
    <3>1. Above(ss[row[k]], ss[row[l]])
      BY <2>1, <1>1, <1>6
    <3>2. ToSet(f[k]) \subseteq ToSet(ss[row[k]]) /\ ToSet(f[l]) \subseteq ToSet(ss[row[l]])
      BY <1>7
    <3> QED
      BY <3>1, <3>2 DEF Above
  <2>2. CASE row[k] = row[l] /\ col[k] < col[l]
    <3>1. /\ row[k] \in 1 .. n /\ col[k] \in 1 .. Len(F[row[k]])
          /\ col[l] \in 1 .. Len(F[row[k]])
          /\ f[k] = F[row[k]][col[k]] /\ f[l] = F[row[k]][col[l]]
      BY <2>2, <1>6
    <3> QED
      BY <2>2, <3>1, <1>2
  <2> QED
    BY <2>1, <2>2, <1>6, <1>8
<1>9. Within(f, S)
  <2>1. \A k \in 1 .. Len(f) : ToSet(ss[row[k]]) \subseteq S
    BY <1>1, <1>6
  <2> QED
    BY <2>1, <1>7 DEF Within
<1>10. ASSUME NEW p \in S, doc[p] # "blank" PROVE Reached(f, p)
  <2>1. PICK i \in 1 .. n : p \in ToSet(ss[i])
    BY <1>1, <1>10
  <2>2. PICK j \in 1 .. Len(F[i]) : p \in ToSet(F[i][j])
    BY <2>1, <1>2, <1>10
  <2>3. PICK k \in 1 .. Len(f) : row[k] = i /\ col[k] = j
    BY <1>6
  <2>4. f[k] = F[i][j]
    BY <2>3, <1>6
  <2> QED
    BY <2>2, <2>4 DEF Reached
<1>11. ASSUME \A i \in 1 .. n : Full(F[i]) PROVE Full(f)
  <2> SUFFICES ASSUME NEW k \in 1 .. Len(f) PROVE f[k] # <<>>
    BY DEF Full
  <2>1. row[k] \in 1 .. n /\ col[k] \in 1 .. Len(F[row[k]]) /\ f[k] = F[row[k]][col[k]]
    BY <1>6
  <2>2. Full(F[row[k]])
    BY <2>1, <1>11
  <2> QED
    BY <2>1, <2>2 DEF Full
<1>12. Covers(doc, f, S)
  BY <1>4, <1>8, <1>9, <1>10 DEF Covers, InRow
<1> QED
  BY <1>11, <1>12 DEF f

LEMMA SpansCovers ==
  ASSUME NEW doc, NEW ss, NEW S, Spans(ss, S)
  PROVE  Covers(doc, ss, S)
BY DEF Spans, Covers

LEMMA OneCovers ==
  ASSUME NEW doc, NEW s \in Runs, NEW S, ToSet(s) \subseteq S,
         \A p \in S : doc[p] # "blank" => p \in ToSet(s)
  PROVE  Covers(doc, <<s>>, S) /\ (s # <<>> => Full(<<s>>))
<1> DEFINE ss == <<s>>
<1>1. ss \in Seq(Runs) /\ Len(ss) = 1 /\ ss[1] = s
  OBVIOUS
<1> HIDE DEF ss
<1>2. \A i \in 1 .. Len(ss) : i = 1
  BY <1>1
<1>3. 1 \in 1 .. Len(ss)
  BY <1>1
<1>4. InRow(ss)
  BY <1>1, <1>2 DEF InRow
<1>5. Within(ss, S)
  BY <1>1, <1>2 DEF Within
<1>6. \A p \in S : doc[p] # "blank" => Reached(ss, p)
  BY <1>1, <1>3 DEF Reached
<1>7. s # <<>> => Full(ss)
  BY <1>1, <1>2 DEF Full
<1> QED
  BY <1>4, <1>5, <1>6, <1>7 DEF Covers, ss

-----------------------------------------------------------------------------
(* Units.                                                                  *)

LEMMA ParagraphsLaw ==
  ASSUME NEW doc, NEW s \in Runs
  PROVE  Covers(doc, Paragraphs(doc, s), ToSet(s)) /\ Full(Paragraphs(doc, s))
<1> DEFINE parts == SplitBefore(s, {i \in DOMAIN s : doc[s[i]] = "blank"})
           bare == [n \in DOMAIN parts |-> Strip(doc, parts[n])]
<1>1. Paragraphs(doc, s) = NonEmpty(bare)
  BY DEF Paragraphs
<1>2. Covers(doc, parts, ToSet(s))
  BY SplitLaw, SpansCovers
<1> HIDE DEF parts
<1>3. Covers(doc, bare, ToSet(s))
  BY <1>2, StripsLaw
<1> HIDE DEF bare
<1> QED
  BY <1>1, <1>3, NonEmptyLaw

LEMMA SentencesLaw ==
  ASSUME NEW doc, NEW s \in Runs
  PROVE  Covers(doc, Sentences(doc, s), ToSet(s)) /\ Full(Sentences(doc, s))
<1> DEFINE parts == SplitBefore(s, {i \in 2 .. Len(s) : doc[s[i - 1]] = "stop"})
           bare == [n \in DOMAIN parts |-> Strip(doc, parts[n])]
<1>1. Sentences(doc, s) = NonEmpty(bare)
  BY DEF Sentences
<1>2. Covers(doc, parts, ToSet(s))
  BY SplitLaw, SpansCovers
<1> HIDE DEF parts
<1>3. Covers(doc, bare, ToSet(s))
  BY <1>2, StripsLaw
<1> HIDE DEF bare
<1> QED
  BY <1>1, <1>3, NonEmptyLaw

LEMMA DegradeLaw ==
  ASSUME NEW doc, NEW s \in Runs, NEW size
  PROVE  Covers(doc, Degrade(doc, s, size), ToSet(s)) /\ Full(Degrade(doc, s, size))
<1> DEFINE packs(t) == IF Len(t) <= size THEN <<t>>
                       ELSE SplitBefore(t, {i \in DOMAIN t : (i - 1) % size = 0})
           ss == Sentences(doc, s)
           F == [n \in DOMAIN ss |-> packs(ss[n])]
<1>1. Degrade(doc, s, size) = FlattenSeq(F)
  BY DEF Degrade
<1>2. Covers(doc, ss, ToSet(s)) /\ Full(ss)
  BY SentencesLaw
<1> HIDE DEF ss
<1>3. DOMAIN ss = 1 .. Len(ss) /\ \A n \in 1 .. Len(ss) : ss[n] \in Runs /\ ss[n] # <<>>
  BY <1>2, CoverType DEF Full
<1>4. ASSUME NEW t \in Runs, t # <<>>
      PROVE  Covers(doc, packs(t), ToSet(t)) /\ Full(packs(t))
  <2>1. CASE Len(t) <= size
    <3>1. Covers(doc, <<t>>, ToSet(t)) /\ Full(<<t>>)
      BY <1>4, OneCovers
    <3> QED
      BY <2>1, <3>1
  <2>2. CASE ~ (Len(t) <= size)
    <3> DEFINE u == SplitBefore(t, {i \in DOMAIN t : (i - 1) % size = 0})
    <3>1. Covers(doc, u, ToSet(t)) /\ Full(u)
      BY SplitLaw, SpansCovers
    <3>2. packs(t) = u
      BY <2>2
    <3> HIDE DEF u, packs
    <3> QED
      BY <3>1, <3>2
  <2> QED
    BY <2>1, <2>2
<1> HIDE DEF packs
<1>5. DOMAIN F = 1 .. Len(ss) /\ F = [n \in 1 .. Len(ss) |-> F[n]]
  BY <1>3
<1>6. \A n \in 1 .. Len(ss) : Covers(doc, F[n], ToSet(ss[n])) /\ Full(F[n])
  BY <1>3, <1>4
<1> HIDE DEF F
<1> QED
  BY <1>1, <1>2, <1>5, <1>6, DeepLaw

LEMMA UnitsLaw ==
  ASSUME NEW doc, NEW s \in Runs, NEW size
  PROVE  Covers(doc, UnitsOf(doc, s, size), ToSet(s)) /\ Full(UnitsOf(doc, s, size))
<1> DEFINE pieces == Pieces(doc, s)
           ofProse(para) == IF Len(para) <= size THEN <<para>>
                            ELSE Degrade(doc, para, size)
           prose(p) == [n \in DOMAIN Paragraphs(doc, p) |-> ofProse(Paragraphs(doc, p)[n])]
           units(p) == IF doc[p[1]] = "fence" THEN <<Strip(doc, p)>>
                       ELSE FlattenSeq(prose(p))
           F == [n \in DOMAIN pieces |-> units(pieces[n])]
<1>1. UnitsOf(doc, s, size) = FlattenSeq(F)
  BY DEF UnitsOf
<1>2. Covers(doc, pieces, ToSet(s)) /\ Full(pieces)
  BY SplitLaw, SpansCovers DEF Pieces
<1> HIDE DEF pieces
<1>3. /\ DOMAIN pieces = 1 .. Len(pieces)
      /\ \A n \in 1 .. Len(pieces) : pieces[n] \in Runs /\ pieces[n] # <<>>
  BY <1>2, CoverType DEF Full
<1>4. ASSUME NEW t \in Runs, t # <<>>
      PROVE  Covers(doc, ofProse(t), ToSet(t)) /\ Full(ofProse(t))
  <2>1. CASE Len(t) <= size
    <3>1. Covers(doc, <<t>>, ToSet(t)) /\ Full(<<t>>)
      BY <1>4, OneCovers
    <3> QED
      BY <2>1, <3>1
  <2>2. CASE ~ (Len(t) <= size)
    <3>1. Covers(doc, Degrade(doc, t, size), ToSet(t)) /\ Full(Degrade(doc, t, size))
      BY DegradeLaw
    <3> QED
      BY <2>2, <3>1
  <2> QED
    BY <2>1, <2>2
<1> HIDE DEF ofProse
<1>5. ASSUME NEW p \in Runs
      PROVE  Covers(doc, FlattenSeq(prose(p)), ToSet(p)) /\ Full(FlattenSeq(prose(p)))
  <2> DEFINE ps == Paragraphs(doc, p)
             G == prose(p)
  <2>1. Covers(doc, ps, ToSet(p)) /\ Full(ps)
    BY ParagraphsLaw
  <2>2. G = [n \in DOMAIN ps |-> ofProse(ps[n])]
    OBVIOUS
  <2> HIDE DEF ps, G
  <2>3. DOMAIN ps = 1 .. Len(ps) /\ \A n \in 1 .. Len(ps) : ps[n] \in Runs /\ ps[n] # <<>>
    BY <2>1, CoverType DEF Full
  <2>4. DOMAIN G = 1 .. Len(ps) /\ G = [n \in 1 .. Len(ps) |-> G[n]]
    BY <2>2, <2>3
  <2>5. \A n \in 1 .. Len(ps) : Covers(doc, G[n], ToSet(ps[n])) /\ Full(G[n])
    BY <2>2, <2>3, <1>4
  <2>6. Covers(doc, FlattenSeq(G), ToSet(p)) /\ Full(FlattenSeq(G))
    BY <2>1, <2>4, <2>5, DeepLaw
  <2> QED
    BY <2>6 DEF G
<1>6. ASSUME NEW p \in Runs, p # <<>>
      PROVE  Covers(doc, units(p), ToSet(p)) /\ Full(units(p))
  <2>1. CASE doc[p[1]] = "fence"
    <3> DEFINE u == Strip(doc, p)
    <3>1. u \in Runs /\ ToSet(u) \subseteq ToSet(p)
          /\ \A q \in ToSet(p) : doc[q] # "blank" => q \in ToSet(u)
      BY StripLaw
    <3>2. p[1] \in ToSet(p)
      <4>1. p \in Seq(Nat) /\ p # <<>>
        BY <1>6, RunType
      <4>2. 1 \in 1 .. Len(p)
        BY <4>1
      <4> QED
        BY <4>2, RunType
    <3>3. p[1] \in ToSet(u)
      BY <2>1, <3>1, <3>2
    <3>4. u # <<>>
      BY <3>3 DEF ToSet
    <3> HIDE DEF u
    <3>5. Covers(doc, <<u>>, ToSet(p)) /\ Full(<<u>>)
      BY <3>1, <3>4, OneCovers
    <3>6. units(p) = <<u>>
      BY <2>1 DEF u
    <3> QED
      BY <3>5, <3>6
  <2>2. CASE doc[p[1]] # "fence"
    <3>1. units(p) = FlattenSeq(prose(p))
      BY <2>2
    <3> HIDE DEF units, prose
    <3> QED
      BY <3>1, <1>5
  <2> QED
    BY <2>1, <2>2
<1> HIDE DEF units
<1>7. DOMAIN F = 1 .. Len(pieces) /\ F = [n \in 1 .. Len(pieces) |-> F[n]]
  BY <1>3
<1>8. \A n \in 1 .. Len(pieces) : Covers(doc, F[n], ToSet(pieces[n])) /\ Full(F[n])
  BY <1>3, <1>6
<1> HIDE DEF F
<1> QED
  BY <1>1, <1>2, <1>7, <1>8, DeepLaw

-----------------------------------------------------------------------------
(* Packing.                                                                *)

UnitRecs == [own : Runs, head : Seq(Nat)]
Parts_ == [units : Nat, size : Nat]
ChunkRecs == [text : Seq(Nat), own : Runs, ord : Int, parts : Seq(Parts_)]
PackState == [out : Seq(ChunkRecs), buf : Seq(UnitRecs), prefix : Seq(Nat)]

\* Of units or chunks: their own places rise, and what they have.
Ordered(xs) == \A i, j \in 1 .. Len(xs) : i < j => Above(xs[i].own, xs[j].own)
Has(xs, p) == \E i \in 1 .. Len(xs) : p \in ToSet(xs[i].own)
Solids(xs) == \A i \in 1 .. Len(xs) : xs[i].own # <<>>

\* All of xs is before u.
Before(xs, u) == \A i \in 1 .. Len(xs) : Above(xs[i].own, u.own)

LEMMA OwnsInRow ==
  ASSUME NEW R, NEW xs \in Seq(R), \A x \in R : x.own \in Runs, Ordered(xs)
  PROVE  /\ InRow([i \in DOMAIN xs |-> xs[i].own])
         /\ \A p : Reached([i \in DOMAIN xs |-> xs[i].own], p) <=> Has(xs, p)
<1> DEFINE n == Len(xs)
           row == [i \in DOMAIN xs |-> xs[i].own]
<1>1. n \in Nat /\ DOMAIN xs = 1 .. n /\ \A i \in 1 .. n : xs[i].own \in Runs
  OBVIOUS
<1>2. /\ row \in [1 .. n -> Runs] /\ Len(row) = n
      /\ \A i \in 1 .. n : row[i] = xs[i].own
  BY <1>1
<1>3. row \in Seq(Runs)
  BY <1>1, <1>2, SeqDef
<1> HIDE DEF row
<1>4. InRow(row)
  BY <1>2, <1>3 DEF InRow, Ordered
<1>5. \A p : Reached(row, p) <=> Has(xs, p)
  BY <1>2 DEF Reached, Has
<1> QED
  BY <1>4, <1>5 DEF row

LEMMA UnitType ==
  ASSUME NEW buf \in Seq(UnitRecs)
  PROVE  /\ Len(buf) \in Nat /\ DOMAIN buf = 1 .. Len(buf)
         /\ \A i \in 1 .. Len(buf) : /\ buf[i] \in UnitRecs /\ buf[i].own \in Runs
                                     /\ buf[i].own \in Seq(Nat)
                                     /\ buf[i].head \in Seq(Nat)
<1>1. \A u \in UnitRecs : u.own \in Runs /\ u.head \in Seq(Nat)
  BY DEF UnitRecs
<1>2. Len(buf) \in Nat /\ DOMAIN buf = 1 .. Len(buf)
      /\ \A i \in 1 .. Len(buf) : buf[i] \in UnitRecs
  OBVIOUS
<1>3. Runs \subseteq Seq(Nat)
  BY DEF Runs
<1> QED
  BY <1>1, <1>2, <1>3

LEMMA OwnLaw ==
  ASSUME NEW buf \in Seq(UnitRecs), Ordered(buf)
  PROVE  /\ OwnOf(buf) \in Runs
         /\ \A p : p \in ToSet(OwnOf(buf)) <=> Has(buf, p)
<1> DEFINE row == [i \in DOMAIN buf |-> buf[i].own]
<1>0. \A u \in UnitRecs : u.own \in Runs
  BY DEF UnitRecs
<1>1. InRow(row) /\ \A p : Reached(row, p) <=> Has(buf, p)
  BY <1>0, OwnsInRow
<1>2. OwnOf(buf) = FlattenSeq(row)
  BY DEF OwnOf
<1> HIDE DEF row
<1> QED
  BY <1>1, <1>2, FlattenRow

LEMMA NonEmptyHas ==
  ASSUME NEW t \in Runs
  PROVE  t # <<>> <=> \E p : p \in ToSet(t)
<1>1. t \in Seq(Nat) /\ Len(t) \in Nat
  BY RunType
<1>2. t # <<>> => 1 \in 1 .. Len(t)
  BY <1>1
<1>3. t # <<>> => t[1] \in ToSet(t)
  BY <1>2, RunType
<1>4. t = <<>> => ToSet(t) = {}
  BY DEF ToSet
<1> QED
  BY <1>3, <1>4

LEMMA OwnFull ==
  ASSUME NEW buf \in Seq(UnitRecs), Ordered(buf), Solids(buf)
  PROVE  (OwnOf(buf) = <<>>) <=> (buf = <<>>)
<1>1. OwnOf(buf) \in Runs /\ \A p : p \in ToSet(OwnOf(buf)) <=> Has(buf, p)
  BY OwnLaw
<1>2. CASE buf = <<>>
  <2>1. \A p : ~ Has(buf, p)
    BY <1>2 DEF Has
  <2> QED
    BY <2>1, <1>1, <1>2, NonEmptyHas
<1>3. CASE buf # <<>>
  <2>1. 1 \in 1 .. Len(buf)
    BY <1>3
  <2>2. buf[1].own \in Runs /\ buf[1].own # <<>>
    BY <2>1, UnitType DEF Solids
  <2>3. \E p : p \in ToSet(buf[1].own)
    BY <2>2, NonEmptyHas
  <2>4. \E p : Has(buf, p)
    BY <2>1, <2>3 DEF Has
  <2> QED
    BY <2>4, <1>1, <1>3, NonEmptyHas
<1> QED
  BY <1>2, <1>3

\* The text of a buffer, and that there is some when it has a unit.
LEMMA TextLaw ==
  ASSUME NEW buf \in Seq(UnitRecs), Solids(buf)
  PROVE  /\ TextOf(buf) \in Seq(Nat)
         /\ (TextOf(buf) = <<>>) <=> (buf = <<>>)
<1> DEFINE n == Len(buf)
           row == [i \in DOMAIN buf |-> buf[i].head \o buf[i].own]
           f == TextOf(buf)
<1>1. /\ n \in Nat /\ DOMAIN buf = 1 .. n
      /\ \A i \in 1 .. n : /\ buf[i].head \in Seq(Nat) /\ buf[i].own \in Seq(Nat)
                           /\ buf[i].own # <<>>
  BY UnitType DEF Solids
<1>2. f = FlattenSeq(row)
  BY DEF TextOf
<1>3. \A i \in 1 .. n : row[i] = buf[i].head \o buf[i].own
  BY <1>1
<1>a. row = [i \in 1 .. n |-> row[i]]
  BY <1>1
<1> HIDE DEF row
<1>4. \A i \in 1 .. n : row[i] \in Seq(Nat) /\ Len(row[i]) >= 1
  <2> TAKE i \in 1 .. n
  <2> DEFINE h == buf[i].head
             o == buf[i].own
  <2>1. h \in Seq(Nat) /\ o \in Seq(Nat) /\ o # <<>> /\ row[i] = h \o o
    BY <1>1, <1>3
  <2> HIDE DEF h, o
  <2>2. Len(h) \in Nat /\ Len(o) \in Nat /\ Len(o) >= 1
    BY <2>1
  <2>3. h \o o \in Seq(Nat) /\ Len(h \o o) = Len(h) + Len(o)
    BY <2>1, ConcatProperties
  <2> QED
    BY <2>1, <2>2, <2>3
<1>5. row \in Seq(Seq(Nat)) /\ Len(row) = n
  <2>1. row \in [1 .. n -> Seq(Nat)]
    BY <1>a, <1>4
  <2> QED
    BY <2>1, <1>1, SeqDef
<1> HIDE DEF f
<1>6. f \in Seq(Nat) /\ Listed(f, row, n)
  BY <1>2, <1>5, FlattenLaw
<1>7. PICK r, c : Lays(f, row, n, r, c)
  BY <1>6 DEF Listed
<1>8. buf = <<>> => f = <<>>
  <2>1. SUFFICES ASSUME buf = <<>>, f # <<>> PROVE FALSE
    OBVIOUS
  <2>2. n = 0 /\ 1 \in 1 .. Len(f)
    BY <2>1, <1>6
  <2>3. r[1] \in 1 .. n
    BY <2>2, <1>7 DEF Lays
  <2> QED
    BY <2>2, <2>3
<1>9. buf # <<>> => f # <<>>
  <2>1. SUFFICES ASSUME buf # <<>> PROVE Len(f) # 0
    BY <1>6
  <2>2. 1 \in 1 .. n
    BY <2>1, <1>1
  <2>3. 1 \in 1 .. Len(row[1])
    BY <2>2, <1>4
  <2>4. \E k \in 1 .. Len(f) : r[k] = 1 /\ c[k] = 1
    BY <2>2, <2>3, <1>7 DEF Lays
  <2> QED
    BY <2>4, <1>6
<1> QED
  BY <1>6, <1>8, <1>9 DEF f

LEMMA AppendOrdered ==
  ASSUME NEW R, NEW xs \in Seq(R), NEW u \in R, Ordered(xs), Before(xs, u)
  PROVE  /\ Append(xs, u) \in Seq(R) /\ Ordered(Append(xs, u))
         /\ \A p : Has(Append(xs, u), p) <=> (Has(xs, p) \/ p \in ToSet(u.own))
<1> DEFINE n == Len(xs)
           ys == Append(xs, u)
<1>1. n \in Nat
  OBVIOUS
<1>2. ys \in Seq(R) /\ Len(ys) = n + 1 /\ ys[n + 1] = u /\ \A i \in 1 .. n : ys[i] = xs[i]
  BY AppendProperties
<1> HIDE DEF ys
<1>3. \A i \in 1 .. n + 1 : i = n + 1 \/ i \in 1 .. n
  BY <1>1
<1>4. \A i \in 1 .. n : i \in 1 .. n + 1
  BY <1>1
<1>5. n + 1 \in 1 .. n + 1
  BY <1>1
<1>6. Ordered(ys)
  <2> SUFFICES ASSUME NEW i \in 1 .. n + 1, NEW j \in 1 .. n + 1, i < j
               PROVE  Above(ys[i].own, ys[j].own)
    BY <1>2 DEF Ordered
  <2>1. i \in 1 .. n
    BY <1>1
  <2>2. CASE j = n + 1
    BY <2>1, <2>2, <1>2 DEF Before
  <2>3. CASE j \in 1 .. n
    BY <2>1, <2>3, <1>2 DEF Ordered
  <2> QED
    BY <2>2, <2>3, <1>3
<1>7. ASSUME NEW p PROVE Has(ys, p) <=> (Has(xs, p) \/ p \in ToSet(u.own))
  BY <1>2, <1>3, <1>4, <1>5 DEF Has
<1> QED
  BY <1>2, <1>6, <1>7 DEF ys

\* What was packed after n of the runs.
Packing(s, runs, n) ==
  /\ s \in PackState /\ Ordered(s.out) /\ Ordered(s.buf) /\ Solids(s.buf)
  /\ \A j \in 1 .. Len(s.buf) : Before(s.out, s.buf[j])
  /\ \A p : (Has(s.out, p) \/ Has(s.buf, p)) <=> \E i \in 1 .. n : p \in ToSet(runs[i])

\* The units of runs.
UnitsFor(units, runs) ==
  /\ Len(runs) \in Nat /\ Len(units) = Len(runs)
  /\ \A i \in 1 .. Len(runs) :
       /\ units[i] \in UnitRecs /\ units[i].own = runs[i] /\ runs[i] # <<>>
       /\ \A j \in 1 .. Len(runs) : j < i => Above(runs[j], runs[i])

LEMMA PushPacks ==
  ASSUME NEW s, NEW runs, NEW n \in Nat, Packing(s, runs, n),
         NEW units, UnitsFor(units, runs), n + 1 \in 1 .. Len(runs)
  PROVE  Packing(Push(s, units[n + 1]), runs, n + 1)
<1> DEFINE u == units[n + 1]
           t == Push(s, u)
<1>1. /\ s.out \in Seq(ChunkRecs) /\ s.buf \in Seq(UnitRecs) /\ s.prefix \in Seq(Nat)
      /\ s = [out |-> s.out, buf |-> s.buf, prefix |-> s.prefix]
      /\ Ordered(s.out) /\ Ordered(s.buf) /\ Solids(s.buf)
      /\ \A j \in 1 .. Len(s.buf) : Before(s.out, s.buf[j])
  BY DEF Packing, PackState
<1>2. \A p : (Has(s.out, p) \/ Has(s.buf, p)) <=> \E i \in 1 .. n : p \in ToSet(runs[i])
  BY DEF Packing
<1>3. /\ u \in UnitRecs /\ u.own = runs[n + 1] /\ u.own # <<>>
      /\ \A j \in 1 .. n : Above(runs[j], u.own)
  <2>1. /\ u \in UnitRecs /\ u.own = runs[n + 1] /\ runs[n + 1] # <<>>
        /\ \A j \in 1 .. Len(runs) : j < n + 1 => Above(runs[j], runs[n + 1])
    BY DEF UnitsFor
  <2>2. Len(runs) \in Nat
    BY DEF UnitsFor
  <2>3. \A j \in 1 .. n : j \in 1 .. Len(runs) /\ j < n + 1
    BY <2>2
  <2> QED
    BY <2>1, <2>3
<1>4. t.out = s.out /\ t.prefix = s.prefix /\ t.buf = Append(s.buf, u)
      /\ t = [out |-> s.out, buf |-> Append(s.buf, u), prefix |-> s.prefix]
  <2>1. s \in PackState
    BY DEF Packing
  <2>2. t = [s EXCEPT !.buf = Append(s.buf, u)]
    BY DEF Push
  <2> QED
    BY <2>1, <2>2 DEF PackState
<1> HIDE DEF t, u
<1>5. \A p : (Has(s.out, p) \/ Has(s.buf, p)) => \A y \in ToSet(u.own) : p < y
  BY <1>2, <1>3 DEF Above
<1>6. Before(s.buf, u) /\ Before(s.out, u)
  BY <1>5 DEF Before, Above, Has
<1>7. /\ t.buf \in Seq(UnitRecs) /\ Ordered(t.buf)
      /\ \A p : Has(t.buf, p) <=> (Has(s.buf, p) \/ p \in ToSet(u.own))
  BY <1>1, <1>3, <1>4, <1>6, AppendOrdered
<1>8. /\ Len(t.buf) = Len(s.buf) + 1 /\ t.buf[Len(s.buf) + 1] = u
      /\ Len(s.buf) \in Nat /\ \A j \in 1 .. Len(s.buf) : t.buf[j] = s.buf[j]
  BY <1>1, <1>3, <1>4, AppendProperties
<1>9. \A j \in 1 .. Len(t.buf) : j \in 1 .. Len(s.buf) \/ j = Len(s.buf) + 1
  BY <1>8
<1>10. Solids(t.buf) /\ \A j \in 1 .. Len(t.buf) : Before(t.out, t.buf[j])
  BY <1>1, <1>3, <1>4, <1>6, <1>8, <1>9 DEF Solids
<1>11. ASSUME NEW p
       PROVE  (Has(t.out, p) \/ Has(t.buf, p)) <=> \E i \in 1 .. n + 1 : p \in ToSet(runs[i])
  <2>1. (\E i \in 1 .. n + 1 : p \in ToSet(runs[i]))
          <=> (\E i \in 1 .. n : p \in ToSet(runs[i])) \/ p \in ToSet(runs[n + 1])
    <3>1. \A i \in 1 .. n + 1 : i \in 1 .. n \/ i = n + 1
      OBVIOUS
    <3>2. \A i \in 1 .. n : i \in 1 .. n + 1
      OBVIOUS
    <3>3. n + 1 \in 1 .. n + 1
      OBVIOUS
    <3> QED
      BY <3>1, <3>2, <3>3
  <2> QED
    BY <2>1, <1>2, <1>3, <1>4, <1>7
<1>12. t \in PackState
  BY <1>1, <1>4, <1>7 DEF PackState
<1> QED
  BY <1>1, <1>4, <1>7, <1>10, <1>11, <1>12 DEF Packing, t, u

LEMMA KeptType ==
  ASSUME NEW X, NEW s \in Seq(X), NEW I \in SUBSET DOMAIN s
  PROVE  /\ Kept(s, I) \in Seq(X) /\ Len(Kept(s, I)) = Cardinality(I)
         /\ Cardinality(I) \in Nat
         /\ \A x \in ToSet(Kept(s, I)) : \E i \in I : x = s[i]
         /\ \A i \in I : s[i] \in ToSet(Kept(s, I))
<1> DEFINE at == Ascending(I)
           k == Kept(s, I)
<1>1. Len(s) \in Nat /\ DOMAIN s = 1 .. Len(s) /\ \A i \in 1 .. Len(s) : s[i] \in X
  OBVIOUS
<1>2. KeptAt(k, s, I, at)
  BY <1>1, KeptLaw
<1>3. k = [n \in DOMAIN at |-> s[at[n]]]
  BY DEF Kept
<1> HIDE DEF at, k
<1>4. /\ at \in Runs /\ ToSet(at) = I /\ Len(at) = Cardinality(I)
      /\ Len(k) = Len(at) /\ DOMAIN k = 1 .. Len(at)
      /\ \A n \in 1 .. Len(at) : at[n] \in I /\ k[n] = s[at[n]]
  BY <1>2 DEF KeptAt
<1>5. Len(at) \in Nat /\ DOMAIN at = 1 .. Len(at)
  BY <1>4, RunType
<1>6. \A n \in 1 .. Len(at) : k[n] \in X
  BY <1>1, <1>4
<1>7. k \in [1 .. Len(at) -> X]
  BY <1>3, <1>5, <1>6, <1>4
<1>8. k \in Seq(X)
  BY <1>5, <1>7, SeqDef
<1>9. ASSUME NEW x, x \in ToSet(k) PROVE \E i \in I : x = s[i]
  BY <1>4, <1>9 DEF ToSet
<1>10. ASSUME NEW i \in I PROVE s[i] \in ToSet(k)
  <2>1. PICK n \in 1 .. Len(at) : i = at[n]
    BY <1>4, RunType
  <2> QED
    BY <2>1, <1>4 DEF ToSet
<1> QED
  BY <1>4, <1>5, <1>8, <1>9, <1>10 DEF k

LEMMA SolidType ==
  ASSUME NEW doc, NEW s \in Seq(Nat)
  PROVE  /\ Solid(doc, s) \in SUBSET DOMAIN s /\ Count(doc, s) \in Nat
         /\ Stripped(doc, s) \in Seq(Nat) /\ Len(Stripped(doc, s)) = Count(doc, s)
<1>1. Solid(doc, s) \in SUBSET DOMAIN s
  BY DEF Solid
<1> QED
  BY <1>1, KeptType DEF Count, Stripped

LEMMA LastOfType ==
  ASSUME NEW s \in Seq(Nat), NEW n \in Nat
  PROVE  /\ LastOf(s, n) \in Seq(Nat)
         /\ Len(LastOf(s, n)) = IF Len(s) > n THEN n ELSE Len(s)
<1> DEFINE lo == IF Len(s) > n THEN Len(s) - n + 1 ELSE 1
<1>1. Len(s) \in Nat /\ lo \in Nat \ {0} /\ lo <= Len(s) + 1
      /\ Len(s) - lo + 1 = IF Len(s) > n THEN n ELSE Len(s)
  OBVIOUS
<1> HIDE DEF lo
<1>2. \A i \in lo .. Len(s) : i \in 1 .. Len(s)
  BY <1>1
<1>3. SubSeq(s, lo, Len(s)) \in Seq(Nat)
  BY <1>1
<1>4. Len(SubSeq(s, lo, Len(s))) = Len(s) - lo + 1
  BY <1>1
<1>5. LastOf(s, n) = SubSeq(s, lo, Len(s))
  BY DEF LastOf, lo
<1> QED
  BY <1>1, <1>3, <1>4, <1>5

LEMMA StateType ==
  ASSUME NEW s \in PackState, Solids(s.buf)
  PROVE  /\ s.out \in Seq(ChunkRecs) /\ s.buf \in Seq(UnitRecs) /\ s.prefix \in Seq(Nat)
         /\ s = [out |-> s.out, buf |-> s.buf, prefix |-> s.prefix]
         /\ Render(s) \in Seq(Nat)
         /\ Render(s) = <<>> => s.buf = <<>>
<1>1. /\ s.out \in Seq(ChunkRecs) /\ s.buf \in Seq(UnitRecs) /\ s.prefix \in Seq(Nat)
      /\ s = [out |-> s.out, buf |-> s.buf, prefix |-> s.prefix]
  BY DEF PackState
<1> DEFINE t == TextOf(s.buf)
<1>2. t \in Seq(Nat) /\ (t = <<>> <=> s.buf = <<>>)
  BY <1>1, TextLaw
<1>3. Render(s) = s.prefix \o t
  BY DEF Render
<1> HIDE DEF t
<1>4. s.prefix \o t \in Seq(Nat) /\ Len(s.prefix \o t) = Len(s.prefix) + Len(t)
  BY <1>1, <1>2, ConcatProperties
<1>5. Len(s.prefix) \in Nat /\ Len(t) \in Nat
  BY <1>1, <1>2
<1>6. s.prefix \o t = <<>> => Len(t) = 0
  BY <1>4, <1>5
<1>7. s.prefix \o t = <<>> => t = <<>>
  BY <1>6, <1>2
<1> QED
  BY <1>1, <1>2, <1>3, <1>4, <1>7

\* What _flush makes of a state.
LEMMA FlushLaw ==
  ASSUME NEW doc, NEW c, IsConf(c), NEW ord \in Int,
         NEW s \in PackState, Ordered(s.buf), Solids(s.buf)
  PROVE  LET text == Render(s)
             chunk == [text |-> text, own |-> OwnOf(s.buf), ord |-> ord,
                       parts |-> <<[units |-> Len(s.buf), size |-> Count(doc, text)]>>]
             t == Flush(doc, s, c, ord)
         IN /\ chunk \in ChunkRecs /\ t \in PackState
            /\ t.buf = <<>>
            /\ t.out = IF text = <<>> THEN s.out ELSE Append(s.out, chunk)
<1> DEFINE text == Render(s)
           part == [units |-> Len(s.buf), size |-> Count(doc, text)]
           own == OwnOf(s.buf)
           chunk == [text |-> text, own |-> own, ord |-> ord, parts |-> <<part>>]
           out == IF text = <<>> THEN s.out ELSE Append(s.out, chunk)
           prefix == IF c.overlap = 0 THEN <<>>
                     ELSE LastOf(Stripped(doc, text), c.overlap)
           t == Flush(doc, s, c, ord)
<1>1. t = [out |-> out, buf |-> <<>>, prefix |-> prefix]
  BY DEF Flush
<1>2. s.out \in Seq(ChunkRecs) /\ s.buf \in Seq(UnitRecs) /\ text \in Seq(Nat)
  BY StateType
<1>3. own \in Runs
  BY <1>2, OwnLaw
<1> HIDE DEF text, own
<1>4. part \in Parts_
  <2>1. Count(doc, text) \in Nat /\ Len(s.buf) \in Nat
    BY <1>2, SolidType
  <2> QED
    BY <2>1 DEF Parts_
<1> HIDE DEF part
<1>5. chunk \in ChunkRecs
  <2>1. <<part>> \in Seq(Parts_)
    BY <1>4
  <2> QED
    BY <2>1, <1>2, <1>3 DEF ChunkRecs
<1>6. prefix \in Seq(Nat)
  <2>1. c.overlap \in Nat
    BY DEF IsConf
  <2>2. Stripped(doc, text) \in Seq(Nat)
    BY <1>2, SolidType
  <2>3. LastOf(Stripped(doc, text), c.overlap) \in Seq(Nat)
    BY <2>1, <2>2, LastOfType
  <2> QED
    BY <2>3
<1> HIDE DEF chunk, prefix
<1>7. out \in Seq(ChunkRecs)
  BY <1>2, <1>5
<1> HIDE DEF out
<1>8. t \in PackState /\ t.buf = <<>> /\ t.out = out
  BY <1>1, <1>6, <1>7 DEF PackState
<1> QED
  BY <1>5, <1>8 DEF out, chunk, text, own, part

LEMMA FlushPacks ==
  ASSUME NEW doc, NEW c, IsConf(c), NEW ord \in Int,
         NEW s, NEW runs, NEW n, Packing(s, runs, n)
  PROVE  Packing(Flush(doc, s, c, ord), runs, n)
<1> DEFINE text == Render(s)
           chunk == [text |-> text, own |-> OwnOf(s.buf), ord |-> ord,
                     parts |-> <<[units |-> Len(s.buf), size |-> Count(doc, text)]>>]
           t == Flush(doc, s, c, ord)
<1>1. /\ s \in PackState /\ Ordered(s.out) /\ Ordered(s.buf) /\ Solids(s.buf)
      /\ \A j \in 1 .. Len(s.buf) : Before(s.out, s.buf[j])
      /\ \A p : (Has(s.out, p) \/ Has(s.buf, p)) <=> \E i \in 1 .. n : p \in ToSet(runs[i])
  BY DEF Packing
<1>2. /\ chunk \in ChunkRecs /\ t \in PackState /\ t.buf = <<>>
      /\ t.out = IF text = <<>> THEN s.out ELSE Append(s.out, chunk)
  BY <1>1, FlushLaw
<1>3. /\ s.out \in Seq(ChunkRecs) /\ s.buf \in Seq(UnitRecs)
      /\ text = <<>> => s.buf = <<>>
  BY <1>1, StateType
<1>4. \A p : p \in ToSet(OwnOf(s.buf)) <=> Has(s.buf, p)
  BY <1>1, <1>3, OwnLaw
<1>5. chunk.own = OwnOf(s.buf)
  OBVIOUS
<1> HIDE DEF chunk, text, t
<1>6. Before(s.out, chunk)
  BY <1>1, <1>4, <1>5 DEF Before, Above, Has
<1>7. /\ Append(s.out, chunk) \in Seq(ChunkRecs) /\ Ordered(Append(s.out, chunk))
      /\ \A p : Has(Append(s.out, chunk), p) <=> (Has(s.out, p) \/ p \in ToSet(chunk.own))
  BY <1>1, <1>2, <1>3, <1>6, AppendOrdered
<1>8. \A i : i \notin 1 .. Len(t.buf)
  BY <1>2
<1>9. Ordered(t.buf) /\ Solids(t.buf) /\ \A p : ~ Has(t.buf, p)
  BY <1>8 DEF Ordered, Solids, Has
<1>10. CASE text = <<>>
  <2>1. \A p : ~ Has(s.buf, p)
    BY <1>10, <1>3 DEF Has
  <2> QED
    BY <2>1, <1>1, <1>2, <1>8, <1>9, <1>10 DEF Packing, t
<1>11. CASE text # <<>>
  <2>1. t.out = Append(s.out, chunk)
    BY <1>2, <1>11
  <2>2. \A p : Has(t.out, p) <=> (Has(s.out, p) \/ Has(s.buf, p))
    BY <2>1, <1>4, <1>5, <1>7
  <2> QED
    BY <2>1, <2>2, <1>1, <1>2, <1>7, <1>8, <1>9 DEF Packing, t
<1> QED
  BY <1>10, <1>11

LEMMA BarePacks ==
  ASSUME NEW s, NEW runs, NEW n, Packing(s, runs, n)
  PROVE  Packing([s EXCEPT !.prefix = <<>>], runs, n)
<1> DEFINE t == [s EXCEPT !.prefix = <<>>]
<1>1. s \in PackState
  BY DEF Packing
<1>2. s = [out |-> s.out, buf |-> s.buf, prefix |-> s.prefix]
      /\ s.out \in Seq(ChunkRecs) /\ s.buf \in Seq(UnitRecs)
  BY <1>1 DEF PackState
<1>3. t = [out |-> s.out, buf |-> s.buf, prefix |-> <<>>]
  BY <1>2
<1>4. t \in PackState /\ t.out = s.out /\ t.buf = s.buf
  <2>1. <<>> \in Seq(Nat)
    OBVIOUS
  <2> HIDE DEF t
  <2> QED
    BY <2>1, <1>2, <1>3 DEF PackState
<1> HIDE DEF t
<1>5. Packing(t, runs, n)
  BY <1>4 DEF Packing
<1> QED
  BY <1>5 DEF t

LEMMA AddPacks ==
  ASSUME NEW doc, NEW c, IsConf(c), NEW ord \in Int,
         NEW s, NEW runs, NEW n \in Nat, Packing(s, runs, n),
         NEW units, UnitsFor(units, runs), n + 1 \in 1 .. Len(runs)
  PROVE  Packing(AddUnit(doc, s, units[n + 1], c, ord), runs, n + 1)
<1> DEFINE u == units[n + 1]
           t == IF s.buf # <<>> /\ Over(doc, Push(s, u), c)
                THEN Push(Flush(doc, s, c, ord), u) ELSE Push(s, u)
           bare == IF Over(doc, t, c) THEN [t EXCEPT !.prefix = <<>>] ELSE t
<1>1. AddUnit(doc, s, u, c, ord)
        = IF Over(doc, bare, c) THEN Flush(doc, bare, c, ord) ELSE bare
  BY DEF AddUnit
<1>2. Packing(Push(s, u), runs, n + 1)
  BY PushPacks
<1>3. Packing(Flush(doc, s, c, ord), runs, n)
  BY FlushPacks
<1>4. Packing(Push(Flush(doc, s, c, ord), u), runs, n + 1)
  BY <1>3, PushPacks
<1>5. Packing(t, runs, n + 1)
  BY <1>2, <1>4
<1> HIDE DEF t
<1>6. Packing(bare, runs, n + 1)
  BY <1>5, BarePacks
<1> HIDE DEF bare
<1>7. Packing(Flush(doc, bare, c, ord), runs, n + 1)
  BY <1>6, FlushPacks
<1> QED
  BY <1>1, <1>6, <1>7 DEF u

\* What has been packed before any unit, and f the states up to m units.
NothingPacked == [out |-> <<>>, buf |-> <<>>, prefix |-> <<>>]
PacksTo(f, doc, units, c, ord, m) ==
  /\ f[0] = NothingPacked
  /\ \A i \in 1 .. m : f[i] = AddUnit(doc, f[i - 1], units[i], c, ord)
PackFcn(f, doc, units, c, ord, m) ==
  f = [i \in 0 .. m |-> IF i = 0 THEN [out |-> <<>>, buf |-> <<>>, prefix |-> <<>>]
                        ELSE AddUnit(doc, f[i - 1], units[i], c, ord)]

\* The recursive function of Pack has its values.
LEMMA PackSteps ==
  ASSUME NEW doc, NEW units, NEW c, NEW ord, Len(units) \in Nat
  PROVE  \E f : /\ PacksTo(f, doc, units, c, ord, Len(units))
                /\ Pack(doc, units, c, ord) = Flush(doc, f[Len(units)], c, ord).out
<1> DEFINE n == Len(units)
           Add(s, i) == AddUnit(doc, s, units[i], c, ord)
           Good == {m \in Nat : \E f : PackFcn(f, doc, units, c, ord, m)}
<1>1. 0 \in Good
  <2> DEFINE f == [i \in 0 .. 0 |-> [out |-> <<>>, buf |-> <<>>, prefix |-> <<>>]]
  <2>1. \A i \in 0 .. 0 : i = 0
    OBVIOUS
  <2>2. PackFcn(f, doc, units, c, ord, 0)
    BY <2>1 DEF PackFcn
  <2> QED
    BY <2>2
<1>2. ASSUME NEW m \in Nat, m \in Good PROVE m + 1 \in Good
  <2>1. PICK f : PackFcn(f, doc, units, c, ord, m)
    BY <1>2
  <2> DEFINE new == Add(f[m], m + 1)
             zero == [out |-> <<>>, buf |-> <<>>, prefix |-> <<>>]
             g == [i \in 0 .. m + 1 |-> IF i = m + 1 THEN new ELSE f[i]]
             h == [i \in 0 .. m + 1 |-> IF i = 0 THEN zero ELSE Add(g[i - 1], i)]
  <2>2. \A i \in 0 .. m : f[i] = IF i = 0 THEN zero ELSE Add(f[i - 1], i)
    <3>1. f = [i \in 0 .. m |-> IF i = 0 THEN zero ELSE Add(f[i - 1], i)]
      BY <2>1, Zenon DEF PackFcn
    <3> HIDE DEF zero, Add
    <3> QED
      BY <3>1
  <2> HIDE DEF new, zero, Add
  <2>3. \A i \in 0 .. m + 1 : g[i] = IF i = m + 1 THEN new ELSE f[i]
    OBVIOUS
  <2>4. \A i \in 0 .. m + 1 : h[i] = IF i = 0 THEN zero ELSE Add(g[i - 1], i)
    OBVIOUS
  <2>5. DOMAIN g = 0 .. m + 1 /\ DOMAIN h = 0 .. m + 1
        /\ g = [i \in 0 .. m + 1 |-> g[i]] /\ h = [i \in 0 .. m + 1 |-> h[i]]
    OBVIOUS
  <2> HIDE DEF g
  <2>6. ASSUME NEW i \in 0 .. m + 1 PROVE g[i] = h[i]
    <3>1. CASE i = m + 1
      <4>1. m \in 0 .. m + 1 /\ i # 0 /\ i - 1 = m /\ m # m + 1
        BY <3>1
      <4>2. g[m] = f[m] /\ g[i] = new /\ h[i] = Add(g[m], i)
        BY <3>1, <4>1, <2>3, <2>4
      <4> QED
        BY <3>1, <4>2 DEF new
    <3>2. CASE i = 0
      BY <3>2, <2>2, <2>3, <2>4
    <3>3. CASE i # m + 1 /\ i # 0
      <4>1. i \in 0 .. m /\ i - 1 \in 0 .. m + 1 /\ i - 1 # m + 1
        BY <3>3
      <4>2. g[i] = f[i] /\ g[i - 1] = f[i - 1]
        BY <3>3, <4>1, <2>3
      <4>3. f[i] = Add(f[i - 1], i)
        BY <3>3, <4>1, <2>2
      <4>4. h[i] = Add(g[i - 1], i)
        BY <3>3, <2>4
      <4> QED
        BY <4>2, <4>3, <4>4
    <3> QED
      BY <3>1, <3>2, <3>3
  <2> HIDE DEF h
  <2>7. g = h
    BY <2>5, <2>6
  <2>8. PackFcn(g, doc, units, c, ord, m + 1)
    BY <2>7, Zenon DEF PackFcn, h, zero, Add
  <2> QED
    BY <2>8
<1> HIDE DEF Good
<1>3. Nat \subseteq Good
  BY <1>1, <1>2, NatInd
<1>4. \E f : PackFcn(f, doc, units, c, ord, n)
  BY <1>3 DEF Good
<1> DEFINE p == CHOOSE f : PackFcn(f, doc, units, c, ord, n)
<1>5. PackFcn(p, doc, units, c, ord, n)
  BY <1>4
<1>6. Pack(doc, units, c, ord) = Flush(doc, p[n], c, ord).out
  BY Zenon DEF Pack, PackFcn
<1> HIDE DEF p
<1> DEFINE zero == [out |-> <<>>, buf |-> <<>>, prefix |-> <<>>]
<1>7. p = [i \in 0 .. n |-> IF i = 0 THEN zero ELSE Add(p[i - 1], i)]
  BY <1>5, Zenon DEF PackFcn
<1> HIDE DEF zero, Add
<1>8. \A i \in 0 .. n : p[i] = IF i = 0 THEN zero ELSE Add(p[i - 1], i)
  BY <1>7
<1>9. 0 \in 0 .. n /\ \A i \in 1 .. n : i \in 0 .. n /\ i # 0
  OBVIOUS
<1>10. p[0] = zero /\ \A i \in 1 .. n : p[i] = Add(p[i - 1], i)
  BY <1>8, <1>9
<1>11. PacksTo(p, doc, units, c, ord, n)
  BY <1>10 DEF PacksTo, NothingPacked, zero, Add
<1> QED
  BY <1>6, <1>11

\* Every unit is in one chunk, and the chunks keep the order of the units.
LEMMA PackLaw ==
  ASSUME NEW doc, NEW c, IsConf(c), NEW ord \in Int,
         NEW units, NEW runs, UnitsFor(units, runs)
  PROVE  LET out == Pack(doc, units, c, ord)
         IN /\ out \in Seq(ChunkRecs) /\ Ordered(out)
            /\ \A p : Has(out, p) <=> Reached(runs, p)
<1> DEFINE n == Len(units)
<1>1. n \in Nat /\ n = Len(runs)
  BY DEF UnitsFor
<1>2. PICK f : /\ PacksTo(f, doc, units, c, ord, n)
               /\ Pack(doc, units, c, ord) = Flush(doc, f[n], c, ord).out
  BY <1>1, PackSteps
<1> DEFINE T == {i \in Nat : i <= n => Packing(f[i], runs, i)}
<1>3. 0 \in T
  <2> DEFINE z == NothingPacked
  <2>1. z.out = <<>> /\ z.buf = <<>> /\ z.prefix = <<>>
        /\ z = [out |-> <<>>, buf |-> <<>>, prefix |-> <<>>]
    BY DEF NothingPacked
  <2>2. <<>> \in Seq(ChunkRecs) /\ <<>> \in Seq(UnitRecs) /\ <<>> \in Seq(Nat)
    OBVIOUS
  <2> HIDE DEF z
  <2>3. z \in PackState
    BY <2>1, <2>2 DEF PackState
  <2>4. \A i : i \notin 1 .. Len(z.out) /\ i \notin 1 .. Len(z.buf) /\ i \notin 1 .. 0
    BY <2>1
  <2>5. Packing(z, runs, 0)
    BY <2>3, <2>4 DEF Packing, Ordered, Solids, Has
  <2>6. f[0] = z
    BY <1>2 DEF PacksTo, z
  <2> QED
    BY <2>5, <2>6
<1>4. ASSUME NEW i \in Nat, i \in T PROVE i + 1 \in T
  <2> SUFFICES ASSUME i + 1 <= n PROVE Packing(f[i + 1], runs, i + 1)
    OBVIOUS
  <2>1. i + 1 \in 1 .. Len(runs) /\ i + 1 \in 1 .. n /\ (i + 1) - 1 = i /\ i <= n
    BY <1>1
  <2>2. Packing(f[i], runs, i)
    BY <1>4, <2>1
  <2>3. f[i + 1] = AddUnit(doc, f[i], units[i + 1], c, ord)
    BY <1>2, <2>1 DEF PacksTo
  <2> QED
    BY <2>1, <2>2, <2>3, AddPacks
<1> HIDE DEF T
<1>5. Nat \subseteq T
  BY <1>3, <1>4, NatInd
<1>6. Packing(f[n], runs, n)
  BY <1>1, <1>5 DEF T
<1> DEFINE s == Flush(doc, f[n], c, ord)
<1>7. Packing(s, runs, n)
  BY <1>6, FlushPacks
<1>8. s.buf = <<>>
  BY DEF Flush
<1> HIDE DEF s
<1>9. s.out \in Seq(ChunkRecs) /\ Ordered(s.out)
  BY <1>7 DEF Packing, PackState
<1>10. \A p : ~ Has(s.buf, p)
  BY <1>8 DEF Has
<1>11. \A p : Has(s.out, p) <=> Reached(runs, p)
  BY <1>1, <1>7, <1>10 DEF Packing, Reached
<1> QED
  BY <1>2, <1>9, <1>11 DEF s

\* A recursive function over the places of a sequence has its values, when
\* each step is a function on the set they are in.
StepsOn(G, n, S) == \A i \in 1 .. n : G[i] \in [S -> S]
Iterated(G, n, S, z) ==
  \E f \in [0 .. n -> S] : f[0] = z /\ \A i \in 1 .. n : f[i] = G[i][f[i - 1]]

LEMMA Iterates ==
  ASSUME NEW S, NEW z \in S, NEW n \in Nat, NEW G, StepsOn(G, n, S)
  PROVE  Iterated(G, n, S, z)
<1> USE DEF StepsOn, Iterated
<1> DEFINE Steps(f, m) == f[0] = z /\ \A i \in 1 .. m : f[i] = G[i][f[i - 1]]
           Good == {m \in Nat : m <= n => \E f \in [0 .. m -> S] : Steps(f, m)}
<1>1. 0 \in Good
  <2> DEFINE f == [i \in 0 .. 0 |-> z]
  <2>1. f \in [0 .. 0 -> S] /\ f[0] = z /\ \A i : i \notin 1 .. 0
    OBVIOUS
  <2> QED
    BY <2>1
<1>2. ASSUME NEW m \in Nat, m \in Good PROVE m + 1 \in Good
  <2> SUFFICES ASSUME m + 1 <= n PROVE \E f \in [0 .. m + 1 -> S] : Steps(f, m + 1)
    OBVIOUS
  <2>1. PICK f \in [0 .. m -> S] : Steps(f, m)
    BY <1>2
  <2> DEFINE new == G[m + 1][f[m]]
             g == [i \in 0 .. m + 1 |-> IF i = m + 1 THEN new ELSE f[i]]
  <2>2. new \in S
    <3>1. m \in 0 .. m /\ m + 1 \in 1 .. n
      OBVIOUS
    <3> QED
      BY <2>1, <3>1
  <2> HIDE DEF new
  <2>3. \A i \in 0 .. m + 1 : i = m + 1 \/ i \in 0 .. m
    OBVIOUS
  <2>4. g \in [0 .. m + 1 -> S]
    BY <2>1, <2>2, <2>3
  <2>5. g[m + 1] = new /\ \A i \in 0 .. m : g[i] = f[i]
    OBVIOUS
  <2> HIDE DEF g
  <2>6. g[0] = z
    BY <2>1, <2>5
  <2>7. ASSUME NEW i \in 1 .. m + 1 PROVE g[i] = G[i][g[i - 1]]
    <3>1. CASE i = m + 1
      <4>1. i - 1 = m /\ m \in 0 .. m
        BY <3>1
      <4> QED
        BY <3>1, <4>1, <2>5 DEF new
    <3>2. CASE i # m + 1
      <4>1. i \in 1 .. m /\ i \in 0 .. m /\ i - 1 \in 0 .. m
        BY <3>2
      <4> QED
        BY <4>1, <2>1, <2>5
    <3> QED
      BY <3>1, <3>2
  <2> QED
    BY <2>4, <2>6, <2>7
<1> HIDE DEF Good
<1>3. Nat \subseteq Good
  BY <1>1, <1>2, NatInd
<1> QED
  BY <1>3 DEF Good

\* The header path is made of headers above.
LEMMA PushedType ==
  ASSUME NEW doc, NEW X, NEW path \in Seq(X), NEW h \in X
  PROVE  Pushed(doc, path, h) \in Seq(X)
<1> DEFINE k == Kept(path, {i \in DOMAIN path : ~ Pops(doc, path[i], h)})
<1>1. k \in Seq(X)
  BY KeptType
<1>2. Pushed(doc, path, h) = Append(k, h)
  BY DEF Pushed
<1> HIDE DEF k
<1> QED
  BY <1>1, <1>2

LEMMA BreadcrumbSteps ==
  ASSUME NEW doc, NEW X, NEW headers \in Seq(X)
  PROVE  \E f \in [0 .. Len(headers) -> Seq(X)] :
           /\ f[0] = <<>>
           /\ \A i \in 1 .. Len(headers) : f[i] = Pushed(doc, f[i - 1], headers[i])
           /\ Breadcrumb(doc, headers) = f[Len(headers)]
<1> DEFINE n == Len(headers)
           S == Seq(X)
           G == [i \in 1 .. n |-> [p \in S |-> Pushed(doc, p, headers[i])]]
           Fcn(f) == f = [i \in 0 .. n |-> IF i = 0 THEN <<>>
                                           ELSE Pushed(doc, f[i - 1], headers[i])]
           p == CHOOSE f : Fcn(f)
<1>1. n \in Nat /\ \A i \in 1 .. n : headers[i] \in X
  OBVIOUS
<1>2. \A i \in 1 .. n : G[i] \in [S -> S]
  BY <1>1, PushedType
<1>3. <<>> \in S
  OBVIOUS
<1>4. \A i \in 1 .. n : \A q \in S : G[i][q] = Pushed(doc, q, headers[i])
  OBVIOUS
<1> HIDE DEF S, G, n
<1>5. PICK f \in [0 .. n -> S] : f[0] = <<>> /\ \A i \in 1 .. n : f[i] = G[i][f[i - 1]]
  <2>1. StepsOn(G, n, S)
    BY <1>2 DEF StepsOn
  <2>2. Iterated(G, n, S, <<>>)
    BY <2>1, <1>1, <1>3, Iterates
  <2> QED
    BY <2>2 DEF Iterated
<1>6. \A i \in 1 .. n : f[i] = Pushed(doc, f[i - 1], headers[i])
  <2> TAKE i \in 1 .. n
  <2>1. i - 1 \in 0 .. n
    BY <1>1
  <2>2. f[i - 1] \in S
    BY <2>1, <1>5
  <2> QED
    BY <2>2, <1>4, <1>5
<1>7. \A i \in 0 .. n : f[i] = IF i = 0 THEN <<>> ELSE Pushed(doc, f[i - 1], headers[i])
  <2>1. \A i \in 0 .. n : i # 0 => i \in 1 .. n
    BY <1>1
  <2> QED
    BY <2>1, <1>5, <1>6
<1>8. Fcn(f)
  <2>1. f = [i \in 0 .. n |-> f[i]]
    OBVIOUS
  <2> QED
    BY <2>1, <1>7
<1>9. Fcn(p)
  BY <1>8, Zenon
<1>10. Breadcrumb(doc, headers) = p[n]
  BY Zenon DEF Breadcrumb, n
<1> HIDE DEF p
<1>11. DOMAIN p = 0 .. n /\ \A i \in 0 .. n :
         p[i] = IF i = 0 THEN <<>> ELSE Pushed(doc, p[i - 1], headers[i])
  BY <1>9
<1> HIDE DEF Fcn
<1>12. \A i \in 0 .. n : p[i] = f[i]
  <2> DEFINE T == {i \in Nat : i <= n => p[i] = f[i]}
  <2>1. 0 \in T
    BY <1>1, <1>5, <1>11
  <2>2. ASSUME NEW i \in Nat, i \in T PROVE i + 1 \in T
    <3> SUFFICES ASSUME i + 1 <= n PROVE p[i + 1] = f[i + 1]
      OBVIOUS
    <3>1. i + 1 \in 1 .. n /\ i + 1 \in 0 .. n /\ i + 1 # 0 /\ (i + 1) - 1 = i /\ i <= n
      BY <1>1
    <3> QED
      BY <3>1, <2>2, <1>6, <1>11
  <2> HIDE DEF T
  <2>3. Nat \subseteq T
    BY <2>1, <2>2, NatInd
  <2> QED
    BY <2>3, <1>1 DEF T
<1>13. n \in 0 .. n
  BY <1>1
<1> QED
  BY <1>5, <1>6, <1>10, <1>12, <1>13 DEF S, n

LEMMA BreadcrumbType ==
  ASSUME NEW doc, NEW X, NEW headers \in Seq(X)
  PROVE  Breadcrumb(doc, headers) \in Seq(X)
<1>1. Len(headers) \in 0 .. Len(headers)
  OBVIOUS
<1> QED
  BY <1>1, BreadcrumbSteps

LEMMA RangeLaw ==
  ASSUME NEW lo \in Nat, NEW hi \in Int, lo <= hi + 1
  PROVE  Range_(lo, hi) \in Runs /\ ToSet(Range_(lo, hi)) = lo .. hi
<1> DEFINE r == Range_(lo, hi)
           n == hi - lo + 1
<1>1. n \in Nat /\ r = [i \in 1 .. n |-> lo + i - 1]
  BY DEF Range_
<1>2. \A i \in 1 .. n : lo + i - 1 \in Nat /\ lo + i - 1 \in lo .. hi
  OBVIOUS
<1> HIDE DEF r
<1>3. r \in [1 .. n -> Nat] /\ Len(r) = n /\ \A i \in 1 .. n : r[i] = lo + i - 1
  BY <1>1, <1>2
<1>4. r \in Seq(Nat)
  BY <1>1, <1>3, SeqDef
<1>5. r \in Runs
  BY <1>3, <1>4 DEF Runs, Rises
<1>6. \A x \in lo .. hi : x - lo + 1 \in 1 .. n /\ r[x - lo + 1] = x
  BY <1>1, <1>3
<1>7. ToSet(r) = lo .. hi
  BY <1>2, <1>3, <1>6 DEF ToSet
<1> QED
  BY <1>5, <1>7 DEF r

SectionRecs == [path : Seq(Nat), start : Int, end : Int, body : Runs]

\* The text of a section is in its range, and the ranges follow each other.
Placed(secs) ==
  /\ secs \in Seq(SectionRecs)
  /\ \A i \in 1 .. Len(secs) : \A p \in ToSet(secs[i].body) :
       secs[i].start <= p /\ p <= secs[i].end
  /\ \A i, j \in 1 .. Len(secs) : i < j => secs[i].end < secs[j].start

LEMMA BodyLaw ==
  ASSUME NEW doc, NEW lo \in Nat, NEW hi \in Int, lo <= hi + 1
  PROVE  /\ Strip(doc, Range_(lo, hi)) \in Runs
         /\ \A p \in ToSet(Strip(doc, Range_(lo, hi))) : lo <= p /\ p <= hi
<1> DEFINE r == Range_(lo, hi)
<1>1. r \in Runs /\ ToSet(r) = lo .. hi
  BY RangeLaw
<1> HIDE DEF r
<1>2. Strip(doc, r) \in Runs /\ ToSet(Strip(doc, r)) \subseteq lo .. hi
  BY <1>1, StripLaw
<1> QED
  BY <1>2 DEF r

HeadersOf(doc) == Ascending({p \in DOMAIN doc : doc[p] \in Headers})
NextOf(doc, i) == IF i = Len(HeadersOf(doc)) THEN Len(doc) + 1 ELSE HeadersOf(doc)[i + 1]

LEMMA HeadersLaw ==
  ASSUME NEW doc, Len(doc) \in Nat, DOMAIN doc = 1 .. Len(doc)
  PROVE  LET h == HeadersOf(doc)
         IN /\ h \in Runs /\ ToSet(h) = {p \in DOMAIN doc : doc[p] \in Headers}
            /\ \A i \in 1 .. Len(h) : /\ h[i] \in 1 .. Len(doc) /\ doc[h[i]] \in Headers
                                      /\ NextOf(doc, i) \in 1 .. Len(doc) + 1
                                      /\ h[i] < NextOf(doc, i)
                                      /\ \A j \in 1 .. Len(h) : i < j => NextOf(doc, i) <= h[j]
<1> DEFINE S == {p \in DOMAIN doc : doc[p] \in Headers}
           h == HeadersOf(doc)
<1>1. S \in SUBSET DOMAIN doc
  OBVIOUS
<1>2. S \in SUBSET Nat /\ IsFiniteSet(S)
  BY <1>1, IndicesFinite
<1> HIDE DEF S
<1>3. h = Ascending(S)
  BY DEF HeadersOf, S
<1> HIDE DEF h
<1>4. h \in Runs /\ ToSet(h) = S
  BY <1>2, <1>3, AscendingLaw
<1>5. Len(h) \in Nat /\ \A i \in 1 .. Len(h) : h[i] \in S
      /\ \A j \in 1 .. Len(h) : i < j => h[i] < h[j]
  BY <1>4, RunType
<1>6. \A i \in 1 .. Len(h) : h[i] \in 1 .. Len(doc) /\ doc[h[i]] \in Headers
  BY <1>5 DEF S
<1>7. \A i \in 1 .. Len(h) : NextOf(doc, i) = IF i = Len(h) THEN Len(doc) + 1 ELSE h[i + 1]
  BY DEF NextOf, h
<1>8. ASSUME NEW i \in 1 .. Len(h)
      PROVE  /\ NextOf(doc, i) \in 1 .. Len(doc) + 1
             /\ h[i] < NextOf(doc, i)
             /\ \A j \in 1 .. Len(h) : i < j => NextOf(doc, i) <= h[j]
  <2>1. CASE i = Len(h)
    <3>1. NextOf(doc, i) = Len(doc) + 1
      BY <2>1, <1>7
    <3>2. \A j \in 1 .. Len(h) : ~ (i < j)
      BY <2>1, <1>5
    <3> QED
      BY <3>1, <3>2, <1>6
  <2>2. CASE i # Len(h)
    <3>1. i + 1 \in 1 .. Len(h) /\ i < i + 1
      BY <2>2, <1>5
    <3>2. NextOf(doc, i) = h[i + 1]
      BY <2>2, <1>7
    <3>3. h[i] < h[i + 1] /\ h[i + 1] \in 1 .. Len(doc)
      BY <3>1, <1>5, <1>6
    <3>4. ASSUME NEW j \in 1 .. Len(h), i < j PROVE h[i + 1] <= h[j]
      <4>1. j = i + 1 \/ i + 1 < j
        BY <3>4
      <4>2. h[i + 1] \in Int /\ h[j] \in Int
        BY <3>1, <1>6
      <4> QED
        BY <4>1, <4>2, <3>1, <1>5
    <3> QED
      BY <3>2, <3>3, <3>4
  <2> QED
    BY <2>1, <2>2
<1> QED
  BY <1>4, <1>6, <1>8 DEF h, S

ScopeOf(doc, i) ==
  [path |-> Breadcrumb(doc, SubSeq(HeadersOf(doc), 1, i)),
   start |-> HeadersOf(doc)[i], end |-> NextOf(doc, i) - 1,
   body |-> Strip(doc, Range_(HeadersOf(doc)[i] + 1, NextOf(doc, i) - 1))]
LeadOf(doc) ==
  [path |-> <<>>, start |-> 1, end |-> HeadersOf(doc)[1] - 1,
   body |-> Strip(doc, Range_(1, HeadersOf(doc)[1] - 1))]
WholeOf(doc) ==
  [path |-> <<>>, start |-> 1, end |-> Len(doc), body |-> Strip(doc, Range_(1, Len(doc)))]

LEMMA SectionsForm ==
  ASSUME NEW doc
  PROVE  Sections(doc) =
           IF HeadersOf(doc) = <<>> THEN <<WholeOf(doc)>>
           ELSE (IF LeadOf(doc).body = <<>> THEN <<>> ELSE <<LeadOf(doc)>>)
                  \o [i \in DOMAIN HeadersOf(doc) |-> ScopeOf(doc, i)]
BY DEF Sections, HeadersOf, NextOf, ScopeOf, LeadOf, WholeOf

LEMMA WholeLaw ==
  ASSUME NEW doc, Len(doc) \in Nat
  PROVE  /\ WholeOf(doc) \in SectionRecs
         /\ \A p \in ToSet(WholeOf(doc).body) :
              WholeOf(doc).start <= p /\ p <= WholeOf(doc).end
<1> DEFINE b == Strip(doc, Range_(1, Len(doc)))
<1>0. 1 \in Nat /\ Len(doc) \in Int /\ 1 <= Len(doc) + 1
  OBVIOUS
<1>1. b \in Runs /\ \A p \in ToSet(b) : 1 <= p /\ p <= Len(doc)
  BY <1>0, BodyLaw
<1>2. WholeOf(doc) = [path |-> <<>>, start |-> 1, end |-> Len(doc), body |-> b]
  BY DEF WholeOf
<1> HIDE DEF b
<1>3. <<>> \in Seq(Nat)
  OBVIOUS
<1> QED
  BY <1>1, <1>2, <1>3 DEF SectionRecs

LEMMA LeadLaw ==
  ASSUME NEW doc, HeadersOf(doc)[1] \in Nat \ {0}
  PROVE  /\ LeadOf(doc) \in SectionRecs
         /\ LeadOf(doc).end = HeadersOf(doc)[1] - 1
         /\ \A p \in ToSet(LeadOf(doc).body) :
              LeadOf(doc).start <= p /\ p <= LeadOf(doc).end
<1> DEFINE hi == HeadersOf(doc)[1] - 1
           b == Strip(doc, Range_(1, hi))
<1>0. hi \in Nat /\ hi \in Int /\ 1 \in Nat /\ 1 <= hi + 1
  OBVIOUS
<1>2. LeadOf(doc) = [path |-> <<>>, start |-> 1, end |-> hi, body |-> b]
  BY DEF LeadOf
<1>a. hi = HeadersOf(doc)[1] - 1
  OBVIOUS
<1> HIDE DEF hi
<1>1. b \in Runs /\ \A p \in ToSet(b) : 1 <= p /\ p <= hi
  BY <1>0, BodyLaw
<1> HIDE DEF b
<1>3. <<>> \in Seq(Nat)
  OBVIOUS
<1> QED
  BY <1>0, <1>1, <1>2, <1>3, <1>a DEF SectionRecs

LEMMA ScopeLaw ==
  ASSUME NEW doc, NEW i \in Nat, HeadersOf(doc) \in Runs,
         HeadersOf(doc)[i] \in Nat, NextOf(doc, i) \in Nat, HeadersOf(doc)[i] < NextOf(doc, i),
         i \in 1 .. Len(HeadersOf(doc))
  PROVE  /\ ScopeOf(doc, i) \in SectionRecs
         /\ ScopeOf(doc, i).start = HeadersOf(doc)[i]
         /\ ScopeOf(doc, i).end = NextOf(doc, i) - 1
         /\ \A p \in ToSet(ScopeOf(doc, i).body) :
              ScopeOf(doc, i).start <= p /\ p <= ScopeOf(doc, i).end
<1> DEFINE h == HeadersOf(doc)
           lo == h[i]
           hi == NextOf(doc, i) - 1
           b == Strip(doc, Range_(lo + 1, hi))
           path == Breadcrumb(doc, SubSeq(h, 1, i))
<1>0. hi \in Int /\ lo \in Nat /\ lo \in Int /\ lo + 1 \in Nat /\ lo + 1 <= hi + 1
      /\ hi = NextOf(doc, i) - 1 /\ lo = HeadersOf(doc)[i]
  OBVIOUS
<1>2. ScopeOf(doc, i) = [path |-> path, start |-> lo, end |-> hi, body |-> b]
  BY DEF ScopeOf
<1>3. path \in Seq(Nat)
  <2>1. h \in Seq(Nat) /\ Len(h) \in Nat
    BY RunType
  <2>2. SubSeq(h, 1, i) \in Seq(Nat)
    <3> HIDE DEF h
    <3> QED
      BY <2>1 DEF h
  <2> QED
    BY <2>2, BreadcrumbType
<1> HIDE DEF hi, lo, path
<1>1. b \in Runs /\ \A p \in ToSet(b) : lo + 1 <= p /\ p <= hi
  BY <1>0, BodyLaw
<1> HIDE DEF b
<1>4. \A p \in ToSet(b) : p \in Nat
  BY <1>1, RunType
<1>5. \A p \in ToSet(b) : lo <= p /\ p <= hi
  BY <1>0, <1>1, <1>4
<1> QED
  BY <1>0, <1>2, <1>3, <1>1, <1>5 DEF SectionRecs

LEMMA SectionsLaw ==
  ASSUME NEW doc, Len(doc) \in Nat, DOMAIN doc = 1 .. Len(doc)
  PROVE  Placed(Sections(doc))
<1> DEFINE h == HeadersOf(doc)
           k == Len(h)
           lead == LeadOf(doc)
           A == IF lead.body = <<>> THEN <<>> ELSE <<lead>>
           B == [i \in DOMAIN h |-> ScopeOf(doc, i)]
           secs == Sections(doc)
<1>1. /\ h \in Runs /\ k \in Nat /\ DOMAIN h = 1 .. k
      /\ \A i \in 1 .. k : h[i] \in Nat \ {0}
  <2>1. h \in Runs /\ \A i \in 1 .. k : h[i] \in 1 .. Len(doc)
    BY HeadersLaw
  <2> HIDE DEF h
  <2> QED
    BY <2>1, RunType
<1>a. /\ \A i \in 1 .. k : NextOf(doc, i) \in Nat /\ h[i] < NextOf(doc, i)
      /\ \A i, j \in 1 .. k : i < j => NextOf(doc, i) <= h[j]
  BY HeadersLaw
<1>2. CASE h = <<>>
  <2> DEFINE w == WholeOf(doc)
  <2>1. w \in SectionRecs /\ \A p \in ToSet(w.body) : w.start <= p /\ p <= w.end
    BY WholeLaw
  <2>2. secs = <<w>>
    BY <1>2, SectionsForm
  <2> HIDE DEF secs, w
  <2>3. secs \in Seq(SectionRecs) /\ Len(secs) = 1 /\ secs[1] = w
    BY <2>1, <2>2
  <2>4. \A i \in 1 .. Len(secs) : i = 1
    BY <2>3
  <2>5. Placed(secs)
    BY <2>1, <2>3, <2>4 DEF Placed
  <2> QED
    BY <2>5 DEF secs
<1>3. CASE h # <<>>
  <2>1. secs = A \o B
    BY <1>3, SectionsForm
  <2>2. 1 \in 1 .. k
    <3>1. h \in Seq(Nat) /\ h # <<>>
      BY <1>1, <1>3, RunType
    <3> HIDE DEF h
    <3> QED
      BY <3>1
  <2>3. /\ lead \in SectionRecs /\ lead.end = h[1] - 1
        /\ \A p \in ToSet(lead.body) : lead.start <= p /\ p <= lead.end
    BY <1>1, <2>2, LeadLaw
  <2>4. A = <<>> \/ A = <<lead>>
    OBVIOUS
  <2>5. \A i \in 1 .. k : /\ ScopeOf(doc, i) \in SectionRecs
                          /\ ScopeOf(doc, i).start = h[i]
                          /\ ScopeOf(doc, i).end = NextOf(doc, i) - 1
                          /\ \A p \in ToSet(ScopeOf(doc, i).body) :
                               ScopeOf(doc, i).start <= p /\ p <= ScopeOf(doc, i).end
    <3> TAKE i \in 1 .. k
    <3>1. i \in Nat /\ HeadersOf(doc)[i] \in Nat
      BY <1>1
    <3> QED
      BY <3>1, <1>1, <1>a, ScopeLaw
  <2>6. B = [i \in 1 .. k |-> ScopeOf(doc, i)]
    BY <1>1
  <2> HIDE DEF A, B, secs, lead, h, k
  <2>7. B \in [1 .. k -> SectionRecs] /\ Len(B) = k /\ \A i \in 1 .. k : B[i] = ScopeOf(doc, i)
    BY <1>1, <2>5, <2>6
  <2>8. B \in Seq(SectionRecs)
    BY <1>1, <2>7, SeqDef
  <2> DEFINE a == Len(A)
  <2>9. /\ A \in Seq(SectionRecs) /\ a \in {0, 1} /\ \A i \in 1 .. a : A[i] = lead /\ i = 1
    <3>1. CASE A = <<>>
      <4>1. A \in Seq(SectionRecs) /\ a = 0
        BY <3>1
      <4> QED
        BY <4>1
    <3>2. CASE A = <<lead>>
      <4>1. A \in Seq(SectionRecs) /\ a = 1 /\ A[1] = lead
        BY <2>3, <3>2
      <4> QED
        BY <4>1
    <3> QED
      BY <2>4, <3>1, <3>2
  <2>10. /\ secs \in Seq(SectionRecs) /\ Len(secs) = a + k
         /\ \A i \in 1 .. a : secs[i] = A[i]
         /\ \A i \in 1 .. k : secs[a + i] = B[i]
    <3>1. Len(A \o B) = a + k
          /\ \A i \in 1 .. a + k : (A \o B)[i] = IF i <= a THEN A[i] ELSE B[i - a]
      BY <2>7, <2>8, <2>9, ConcatProperties
    <3>2. A \o B \in Seq(SectionRecs)
      BY <2>8, <2>9, ConcatProperties
    <3> HIDE DEF a
    <3>3. \A i \in 1 .. a : i \in 1 .. a + k /\ i <= a
      BY <2>9, <1>1
    <3>4. \A i \in 1 .. k : a + i \in 1 .. a + k /\ ~ (a + i <= a) /\ (a + i) - a = i
      BY <2>9, <1>1
    <3> QED
      BY <3>1, <3>2, <3>3, <3>4, <2>1
  <2> HIDE DEF a
  <2>11. \A i \in 1 .. Len(secs) :
           \/ i \in 1 .. a /\ secs[i] = lead /\ i = 1
           \/ a + 1 <= i /\ i - a \in 1 .. k /\ secs[i] = ScopeOf(doc, i - a)
    <3> TAKE i \in 1 .. Len(secs)
    <3>1. CASE i \in 1 .. a
      BY <3>1, <2>9, <2>10
    <3>2. CASE i \notin 1 .. a
      <4>1. a + 1 <= i /\ i - a \in 1 .. k /\ a + (i - a) = i
        BY <3>2, <2>9, <2>10, <1>1
      <4> QED
        BY <4>1, <2>7, <2>10
    <3> QED
      BY <3>1, <3>2
  <2>12. \A i \in 1 .. Len(secs) : \A p \in ToSet(secs[i].body) :
           secs[i].start <= p /\ p <= secs[i].end
    <3> TAKE i \in 1 .. Len(secs)
    <3> QED
      BY <2>3, <2>5, <2>11
  <2>13. ASSUME NEW i \in 1 .. Len(secs), NEW j \in 1 .. Len(secs), i < j
         PROVE  secs[i].end < secs[j].start
    <3>1. a + 1 <= j /\ j - a \in 1 .. k /\ secs[j].start = h[j - a]
      <4>1. j # 1
        BY <2>13
      <4> QED
        BY <4>1, <2>11, <2>5
    <3>2. CASE i \in 1 .. a /\ secs[i] = lead
      <4>1. secs[i].end = h[1] - 1
        BY <3>2, <2>3
      <4>2. 1 = j - a \/ 1 < j - a
        BY <3>1
      <4>3. h[1] <= h[j - a] /\ h[1] \in Int /\ h[j - a] \in Int
        BY <4>2, <3>1, <2>2, <1>1, RunType DEF k
      <4> QED
        BY <4>1, <4>3, <3>1
    <3>3. CASE a + 1 <= i /\ i - a \in 1 .. k /\ secs[i] = ScopeOf(doc, i - a)
      <4>1. secs[i].end = NextOf(doc, i - a) - 1
        BY <3>3, <2>5
      <4>2. i - a < j - a
        BY <2>13, <2>9
      <4>3. NextOf(doc, i - a) <= h[j - a] /\ NextOf(doc, i - a) \in Int /\ h[j - a] \in Int
        BY <4>2, <3>1, <3>3, <1>1, <1>a
      <4> QED
        BY <4>1, <4>3, <3>1
    <3> QED
      BY <3>2, <3>3, <2>11
  <2>14. Placed(secs)
    BY <2>10, <2>12, <2>13 DEF Placed
  <2> QED
    BY <2>14 DEF secs
<1> QED
  BY <1>2, <1>3

\* The bodies of the sections follow each other.
LEMMA BodiesInRow ==
  ASSUME NEW secs, Placed(secs)
  PROVE  InRow([n \in DOMAIN secs |-> secs[n].body])
<1> DEFINE row == [n \in DOMAIN secs |-> secs[n].body]
           n == Len(secs)
<1>1. /\ secs \in Seq(SectionRecs) /\ n \in Nat /\ DOMAIN secs = 1 .. n
      /\ \A i \in 1 .. n : secs[i] \in SectionRecs
  BY DEF Placed
<1>2. \A i \in 1 .. n : secs[i].body \in Runs /\ secs[i].start \in Int /\ secs[i].end \in Int
  BY <1>1 DEF SectionRecs
<1>3. row \in [1 .. n -> Runs] /\ Len(row) = n /\ \A i \in 1 .. n : row[i] = secs[i].body
  BY <1>1, <1>2
<1>4. row \in Seq(Runs)
  BY <1>1, <1>3, SeqDef
<1>5. ASSUME NEW i \in 1 .. n, NEW j \in 1 .. n, i < j
      PROVE  Above(secs[i].body, secs[j].body)
  <2> SUFFICES ASSUME NEW x \in ToSet(secs[i].body), NEW y \in ToSet(secs[j].body)
               PROVE  x < y
    BY DEF Above
  <2>1. x \in Nat /\ y \in Nat
    BY <1>2, RunType
  <2>2. x <= secs[i].end /\ secs[j].start <= y /\ secs[i].end < secs[j].start
    BY <1>5 DEF Placed
  <2> QED
    BY <2>1, <2>2, <1>2
<1> HIDE DEF row
<1>6. InRow(row)
  BY <1>3, <1>4, <1>5 DEF InRow
<1> QED
  BY <1>6 DEF row

\* Rows of chunks, each with its own range of places.
RowsApart(F) ==
  /\ \A i \in 1 .. Len(F) : Ordered(F[i])
  /\ \A i, j \in 1 .. Len(F) : i < j => \A p, q : Has(F[i], p) /\ Has(F[j], q) => p < q

LEMMA FlattenChunks ==
  ASSUME NEW R, NEW F \in Seq(Seq(R)), RowsApart(F)
  PROVE  /\ FlattenSeq(F) \in Seq(R) /\ Ordered(FlattenSeq(F))
         /\ \A p : Has(FlattenSeq(F), p) <=> \E i \in 1 .. Len(F) : Has(F[i], p)
<1> DEFINE f == FlattenSeq(F)
           n == Len(F)
<1>1. f \in Seq(R) /\ Listed(f, F, n)
  BY FlattenLaw
<1> HIDE DEF f
<1>2. PICK row, col : Lays(f, F, n, row, col)
  BY <1>1 DEF Listed
<1>3. /\ \A k \in 1 .. Len(f) : row[k] \in 1 .. n /\ col[k] \in 1 .. Len(F[row[k]])
      /\ \A k \in 1 .. Len(f) : f[k] = F[row[k]][col[k]]
      /\ \A k, l \in 1 .. Len(f) : k < l =>
           row[k] < row[l] \/ (row[k] = row[l] /\ col[k] < col[l])
      /\ \A i \in 1 .. n : \A j \in 1 .. Len(F[i]) :
           \E k \in 1 .. Len(f) : row[k] = i /\ col[k] = j
  BY <1>2 DEF Lays
<1>4. ASSUME NEW k \in 1 .. Len(f)
      PROVE  \A p \in ToSet(f[k].own) : Has(F[row[k]], p)
  <2>1. PICK i \in 1 .. n : i = row[k]
    BY <1>3
  <2>2. PICK j \in 1 .. Len(F[i]) : j = col[k]
    BY <2>1, <1>3
  <2>3. f[k] = F[i][j]
    BY <2>1, <2>2, <1>3
  <2> QED
    BY <2>1, <2>3 DEF Has
<1>5. ASSUME NEW k \in 1 .. Len(f), NEW l \in 1 .. Len(f), k < l
      PROVE  Above(f[k].own, f[l].own)
  <2>1. CASE row[k] < row[l]
    <3>1. \A p, q : Has(F[row[k]], p) /\ Has(F[row[l]], q) => p < q
      BY <2>1, <1>3 DEF RowsApart
    <3> QED
      BY <3>1, <1>4 DEF Above
  <2>2. CASE row[k] = row[l] /\ col[k] < col[l]
    <3>1. PICK i \in 1 .. n : i = row[k]
      BY <1>3
    <3>2. PICK a \in 1 .. Len(F[i]) : a = col[k]
      BY <3>1, <1>3
    <3>3. PICK b \in 1 .. Len(F[i]) : b = col[l]
      BY <2>2, <3>1, <1>3
    <3>4. f[k] = F[i][a] /\ f[l] = F[i][b] /\ a < b
      BY <2>2, <3>1, <3>2, <3>3, <1>3
    <3>5. Ordered(F[i])
      BY DEF RowsApart
    <3> QED
      BY <3>4, <3>5 DEF Ordered
  <2> QED
    BY <2>1, <2>2, <1>3, <1>5
<1>6. ASSUME NEW p, NEW i \in 1 .. n, Has(F[i], p) PROVE Has(f, p)
  <2>1. PICK j \in 1 .. Len(F[i]) : p \in ToSet(F[i][j].own)
    BY <1>6 DEF Has
  <2>2. PICK k \in 1 .. Len(f) : row[k] = i /\ col[k] = j
    BY <1>3
  <2>3. f[k] = F[i][j]
    BY <2>2, <1>3
  <2> QED
    BY <2>1, <2>3 DEF Has
<1>7. ASSUME NEW p, Has(f, p) PROVE \E i \in 1 .. n : Has(F[i], p)
  <2>1. PICK k \in 1 .. Len(f) : p \in ToSet(f[k].own)
    BY <1>7 DEF Has
  <2> QED
    BY <2>1, <1>3, <1>4
<1>8. Ordered(f)
  BY <1>5 DEF Ordered
<1> QED
  BY <1>1, <1>6, <1>7, <1>8 DEF f

-----------------------------------------------------------------------------
(* The merge.                                                              *)

LEMMA ConcatRuns ==
  ASSUME NEW a \in Runs, NEW b \in Runs, Above(a, b)
  PROVE  a \o b \in Runs /\ ToSet(a \o b) = ToSet(a) \cup ToSet(b)
<1> DEFINE m == Len(a)
           n == Len(b)
           s == a \o b
<1>1. a \in Seq(Nat) /\ b \in Seq(Nat) /\ m \in Nat /\ n \in Nat
  BY RunType
<1>2. /\ s \in Seq(Nat) /\ Len(s) = m + n
      /\ \A k \in 1 .. m + n : s[k] = IF k <= m THEN a[k] ELSE b[k - m]
  BY <1>1, ConcatProperties
<1> HIDE DEF s, m, n
<1>3. \A k \in 1 .. m + n : \/ k \in 1 .. m /\ s[k] = a[k]
                            \/ k > m /\ k - m \in 1 .. n /\ s[k] = b[k - m]
  BY <1>1, <1>2
<1>4. /\ \A i \in 1 .. m : a[i] \in ToSet(a) /\ \A j \in 1 .. m : i < j => a[i] < a[j]
      /\ \A i \in 1 .. n : b[i] \in ToSet(b) /\ \A j \in 1 .. n : i < j => b[i] < b[j]
      /\ \A x \in ToSet(a) : \E i \in 1 .. m : x = a[i]
      /\ \A x \in ToSet(b) : \E i \in 1 .. n : x = b[i]
  BY RunType DEF m, n
<1>5. ASSUME NEW k \in 1 .. m + n, NEW l \in 1 .. m + n, k < l PROVE s[k] < s[l]
  <2>1. CASE l \in 1 .. m
    <3>1. k \in 1 .. m
      BY <2>1, <1>1, <1>5
    <3>2. ~ (k > m) /\ ~ (l > m)
      BY <3>1, <2>1, <1>1
    <3> QED
      BY <2>1, <3>1, <3>2, <1>3, <1>4, <1>5
  <2>2. CASE l > m /\ k \in 1 .. m
    <3>1. ~ (k > m) /\ l \notin 1 .. m
      BY <2>2, <1>1
    <3>2. s[k] \in ToSet(a) /\ s[l] \in ToSet(b)
      BY <2>2, <3>1, <1>3, <1>4
    <3> QED
      BY <3>2 DEF Above
  <2>3. CASE l > m /\ k > m
    <3>1. k \notin 1 .. m /\ l \notin 1 .. m /\ k - m < l - m
      BY <2>3, <1>1, <1>5
    <3> QED
      BY <3>1, <1>3, <1>4
  <2> QED
    BY <2>1, <2>2, <2>3, <1>3
<1>6. s \in Runs
  BY <1>2, <1>5 DEF Runs, Rises
<1>7. ASSUME NEW x, x \in ToSet(s) PROVE x \in ToSet(a) \cup ToSet(b)
  <2>1. PICK k \in 1 .. m + n : x = s[k]
    BY <1>2, <1>6, <1>7, RunType
  <2> QED
    BY <2>1, <1>3, <1>4
<1>8. ASSUME NEW x, x \in ToSet(a) \cup ToSet(b) PROVE x \in ToSet(s)
  <2>1. CASE x \in ToSet(a)
    <3>1. PICK i \in 1 .. m : x = a[i]
      BY <2>1, <1>4
    <3>2. i \in 1 .. m + n /\ i <= m
      BY <1>1
    <3> QED
      BY <3>1, <3>2, <1>2, <1>6, RunType
  <2>2. CASE x \in ToSet(b)
    <3>1. PICK i \in 1 .. n : x = b[i]
      BY <2>2, <1>4
    <3>2. m + i \in 1 .. m + n /\ ~ (m + i <= m) /\ (m + i) - m = i
      BY <1>1
    <3>3. s[m + i] = b[i]
      BY <3>2, <1>2
    <3> QED
      BY <3>1, <3>2, <3>3, <1>2, <1>6, RunType
  <2> QED
    BY <2>1, <2>2, <1>8
<1> QED
  BY <1>6, <1>7, <1>8 DEF s

LEMMA ChunkType ==
  ASSUME NEW x \in ChunkRecs
  PROVE  /\ x.text \in Seq(Nat) /\ x.own \in Runs /\ x.ord \in Int /\ x.parts \in Seq(Parts_)
         /\ x = [text |-> x.text, own |-> x.own, ord |-> x.ord, parts |-> x.parts]
BY DEF ChunkRecs

LEMMA JoinType ==
  ASSUME NEW a \in ChunkRecs, NEW b \in ChunkRecs, Above(a.own, b.own)
  PROVE  /\ Join(a, b) \in ChunkRecs
         /\ Join(a, b).own = a.own \o b.own
         /\ ToSet(Join(a, b).own) = ToSet(a.own) \cup ToSet(b.own)
<1> DEFINE t == a.text \o b.text
           o == a.own \o b.own
           p == a.parts \o b.parts
<1>1. Join(a, b) = [text |-> t, own |-> o, ord |-> a.ord, parts |-> p]
  BY DEF Join
<1>2. o \in Runs /\ ToSet(o) = ToSet(a.own) \cup ToSet(b.own)
  BY ChunkType, ConcatRuns
<1>3. t \in Seq(Nat) /\ p \in Seq(Parts_)
  BY ChunkType, ConcatProperties
<1>4. a.ord \in Int
  BY ChunkType
<1> HIDE DEF t, o, p
<1>5. [text |-> t, own |-> o, ord |-> a.ord, parts |-> p] \in ChunkRecs
  BY <1>2, <1>3, <1>4 DEF ChunkRecs
<1>6. Join(a, b).own = o
  BY <1>1
<1> QED
  BY <1>1, <1>2, <1>5, <1>6 DEF o

\* The first k of xs, the last of them with u joined to it.
Joined(xs, k, u) == Append(SubSeq(xs, 1, k - 1), Join(xs[k], u))

LEMMA JoinedLaw ==
  ASSUME NEW xs \in Seq(ChunkRecs), NEW k \in 1 .. Len(xs), NEW u \in ChunkRecs,
         Ordered(xs), \A i \in 1 .. k : Above(xs[i].own, u.own)
  PROVE  /\ Joined(xs, k, u) \in Seq(ChunkRecs) /\ Len(Joined(xs, k, u)) = k
         /\ Joined(xs, k, u)[k] = Join(xs[k], u)
         /\ \A i \in 1 .. k - 1 : Joined(xs, k, u)[i] = xs[i]
         /\ Ordered(Joined(xs, k, u))
         /\ \A p : Has(Joined(xs, k, u), p)
                     <=> (\E i \in 1 .. k : p \in ToSet(xs[i].own)) \/ p \in ToSet(u.own)
<1> DEFINE v == Join(xs[k], u)
           a == SubSeq(xs, 1, k - 1)
           ys == Joined(xs, k, u)
<1>1. /\ Len(xs) \in Nat /\ \A i \in 1 .. Len(xs) : xs[i] \in ChunkRecs
      /\ k \in Nat /\ k - 1 \in Nat
  OBVIOUS
<1>2. /\ v \in ChunkRecs /\ ToSet(v.own) = ToSet(xs[k].own) \cup ToSet(u.own)
  <2>1. Above(xs[k].own, u.own)
    BY <1>1
  <2> QED
    BY <2>1, <1>1, JoinType
<1> HIDE DEF v
<1>3. a \in Seq(ChunkRecs) /\ Len(a) = k - 1 /\ \A i \in 1 .. k - 1 : a[i] = xs[i]
  BY <1>1
<1>4. ys = Append(a, v)
  BY DEF Joined, v
<1> HIDE DEF a, ys
<1>5. /\ ys \in Seq(ChunkRecs) /\ Len(ys) = k /\ ys[k] = v
      /\ \A i \in 1 .. k - 1 : ys[i] = xs[i]
  <2>1. /\ Append(a, v) \in Seq(ChunkRecs) /\ Len(Append(a, v)) = (k - 1) + 1
        /\ Append(a, v)[(k - 1) + 1] = v /\ \A i \in 1 .. k - 1 : Append(a, v)[i] = a[i]
    BY <1>2, <1>3, AppendProperties
  <2>2. (k - 1) + 1 = k
    BY <1>1
  <2> QED
    BY <2>1, <2>2, <1>3, <1>4
<1>6. \A i \in 1 .. k : i = k \/ i \in 1 .. k - 1
  BY <1>1
<1>7. \A i \in 1 .. k - 1 : i \in 1 .. Len(xs) /\ i \in 1 .. k /\ i < k
  BY <1>1
<1>8. ASSUME NEW i \in 1 .. k, NEW j \in 1 .. k, i < j PROVE Above(ys[i].own, ys[j].own)
  <2>1. i \in 1 .. k - 1
    BY <1>8
  <2>2. CASE j = k
    <3>1. Above(xs[i].own, xs[k].own) /\ Above(xs[i].own, u.own)
      BY <2>1, <1>7 DEF Ordered
    <3>2. Above(xs[i].own, v.own)
      BY <3>1, <1>2 DEF Above
    <3> QED
      BY <2>1, <2>2, <3>2, <1>5
  <2>3. CASE j # k
    BY <2>1, <2>3, <1>5, <1>6, <1>7, <1>8 DEF Ordered
  <2> QED
    BY <2>2, <2>3
<1>9. k \in 1 .. k
  BY <1>1
<1>10. ASSUME NEW p
       PROVE  Has(ys, p) <=> (\E i \in 1 .. k : p \in ToSet(xs[i].own)) \/ p \in ToSet(u.own)
  <2>1. ASSUME NEW i \in 1 .. k, p \in ToSet(ys[i].own)
        PROVE  (\E j \in 1 .. k : p \in ToSet(xs[j].own)) \/ p \in ToSet(u.own)
    BY <2>1, <1>2, <1>5, <1>6, <1>7, <1>9
  <2>2. ASSUME NEW i \in 1 .. k, p \in ToSet(xs[i].own) PROVE Has(ys, p)
    BY <2>2, <1>2, <1>5, <1>6, <1>7, <1>9 DEF Has
  <2>3. ASSUME p \in ToSet(u.own) PROVE Has(ys, p)
    BY <2>3, <1>2, <1>5, <1>9 DEF Has
  <2> QED
    BY <2>1, <2>2, <2>3, <1>5 DEF Has
<1>11. Ordered(ys)
  BY <1>5, <1>8 DEF Ordered
<1> QED
  BY <1>5, <1>10, <1>11 DEF ys, v

\* out holds the first i of chunks, some of them joined.
Merging(out, chunks, i) ==
  /\ out \in Seq(ChunkRecs) /\ Ordered(out) /\ (out = <<>> <=> i = 0)
  /\ \A p : Has(out, p) <=> \E k \in 1 .. i : p \in ToSet(chunks[k].own)

LEMMA LastFront ==
  ASSUME NEW X, NEW s \in Seq(X), s # <<>>
  PROVE  /\ Len(s) \in 1 .. Len(s) /\ Last(s) = s[Len(s)]
         /\ Front(s) = SubSeq(s, 1, Len(s) - 1)
<1>1. Len(s) \in Nat /\ Len(s) # 0
  OBVIOUS
<1> QED
  BY <1>1 DEF Last, Front

LEMMA AbsorbMerges ==
  ASSUME NEW doc, NEW c, NEW chunks \in Seq(ChunkRecs), Ordered(chunks),
         NEW i \in Nat, i + 1 \in 1 .. Len(chunks), NEW out, Merging(out, chunks, i)
  PROVE  Merging(Absorb(doc, out, chunks[i + 1], c), chunks, i + 1)
<1> DEFINE u == chunks[i + 1]
           n == Len(out)
           t == Absorb(doc, out, u, c)
<1>1. u \in ChunkRecs /\ out \in Seq(ChunkRecs) /\ Ordered(out) /\ n \in Nat
  BY DEF Merging
<1>2. \A p : Has(out, p) <=> \E k \in 1 .. i : p \in ToSet(chunks[k].own)
  BY DEF Merging
<1>3. \A k \in 1 .. i : Above(chunks[k].own, u.own)
  <2>1. \A k \in 1 .. i : k \in 1 .. Len(chunks) /\ k < i + 1
    OBVIOUS
  <2> QED
    BY <2>1 DEF Ordered
<1>4. Before(out, u)
  BY <1>2, <1>3 DEF Before, Above, Has
<1> HIDE DEF u
<1>5. t \in Seq(ChunkRecs) /\ Ordered(t) /\ t # <<>>
      /\ \A p : Has(t, p) <=> (Has(out, p) \/ p \in ToSet(u.own))
  <2>1. CASE out # <<>> /\ Absorbs(doc, Last(out), u, c)
    <3>1. n \in 1 .. n /\ Last(out) = out[n] /\ Front(out) = SubSeq(out, 1, n - 1)
      BY <2>1, <1>1, LastFront
    <3>2. t = Joined(out, n, u)
      BY <2>1, <3>1 DEF Absorb, Joined
    <3>3. \A k \in 1 .. n : Above(out[k].own, u.own)
      BY <1>4 DEF Before
    <3> DEFINE ys == Joined(out, n, u)
    <3>4. ys \in Seq(ChunkRecs) /\ Len(ys) = n /\ Ordered(ys)
          /\ \A p : Has(ys, p) <=> (\E k \in 1 .. n : p \in ToSet(out[k].own)) \/ p \in ToSet(u.own)
      BY <1>1, <3>1, <3>3, JoinedLaw
    <3> HIDE DEF ys, n, t
    <3>5. ys # <<>>
      BY <3>1, <3>4
    <3>6. \A p : Has(out, p) <=> \E k \in 1 .. n : p \in ToSet(out[k].own)
      BY DEF Has, n
    <3> QED
      BY <3>2, <3>4, <3>5, <3>6 DEF ys
  <2>2. CASE ~ (out # <<>> /\ Absorbs(doc, Last(out), u, c))
    <3>1. t = Append(out, u)
      BY <2>2 DEF Absorb
    <3>2. Append(out, u) # <<>>
      BY <1>1
    <3> QED
      BY <3>1, <3>2, <1>1, <1>4, AppendOrdered
  <2> QED
    BY <2>1, <2>2
<1> HIDE DEF t
<1>6. ASSUME NEW p
      PROVE  Has(t, p) <=> \E k \in 1 .. i + 1 : p \in ToSet(chunks[k].own)
  <2>1. \A k \in 1 .. i + 1 : k \in 1 .. i \/ k = i + 1
    OBVIOUS
  <2>2. (\A k \in 1 .. i : k \in 1 .. i + 1) /\ i + 1 \in 1 .. i + 1
    OBVIOUS
  <2> QED
    BY <2>1, <2>2, <1>2, <1>5 DEF u
<1>7. i + 1 # 0
  OBVIOUS
<1> QED
  BY <1>5, <1>6, <1>7 DEF Merging, t, u

MergesTo(f, doc, chunks, c, m) ==
  /\ f[0] = <<>>
  /\ \A i \in 1 .. m : f[i] = Absorb(doc, f[i - 1], chunks[i], c)
MergeFcn(f, doc, chunks, c, m) ==
  f = [i \in 0 .. m |-> IF i = 0 THEN <<>> ELSE Absorb(doc, f[i - 1], chunks[i], c)]
\* What MergeSmall makes of what was merged.
MergeEnd(doc, chunks, out, c) ==
  LET n == Len(out)
  IN IF c.min <= 1 THEN chunks
     ELSE IF n >= 2 /\ out[n].ord = out[n - 1].ord /\ Small(doc, out[n], c)
     THEN Append(SubSeq(out, 1, n - 2), Join(out[n - 1], out[n]))
     ELSE out

\* The recursive function of MergeSmall has its values.
LEMMA MergeSteps ==
  ASSUME NEW doc, NEW chunks, NEW c, Len(chunks) \in Nat
  PROVE  \E f : /\ MergesTo(f, doc, chunks, c, Len(chunks))
                /\ MergeSmall(doc, chunks, c) = MergeEnd(doc, chunks, f[Len(chunks)], c)
<1> DEFINE n == Len(chunks)
           Take(s, i) == Absorb(doc, s, chunks[i], c)
           Good == {m \in Nat : \E f : MergeFcn(f, doc, chunks, c, m)}
<1>1. 0 \in Good
  <2> DEFINE f == [i \in 0 .. 0 |-> <<>>]
  <2>1. \A i \in 0 .. 0 : i = 0
    OBVIOUS
  <2>2. MergeFcn(f, doc, chunks, c, 0)
    BY <2>1 DEF MergeFcn
  <2> QED
    BY <2>2
<1>2. ASSUME NEW m \in Nat, m \in Good PROVE m + 1 \in Good
  <2>1. PICK f : MergeFcn(f, doc, chunks, c, m)
    BY <1>2
  <2> DEFINE new == Take(f[m], m + 1)
             zero == <<>>
             g == [i \in 0 .. m + 1 |-> IF i = m + 1 THEN new ELSE f[i]]
             h == [i \in 0 .. m + 1 |-> IF i = 0 THEN zero ELSE Take(g[i - 1], i)]
  <2>2. \A i \in 0 .. m : f[i] = IF i = 0 THEN zero ELSE Take(f[i - 1], i)
    <3>1. f = [i \in 0 .. m |-> IF i = 0 THEN zero ELSE Take(f[i - 1], i)]
      BY <2>1, Zenon DEF MergeFcn
    <3> HIDE DEF zero, Take
    <3> QED
      BY <3>1
  <2> HIDE DEF new, zero, Take
  <2>3. \A i \in 0 .. m + 1 : g[i] = IF i = m + 1 THEN new ELSE f[i]
    OBVIOUS
  <2>4. \A i \in 0 .. m + 1 : h[i] = IF i = 0 THEN zero ELSE Take(g[i - 1], i)
    OBVIOUS
  <2>5. DOMAIN g = 0 .. m + 1 /\ DOMAIN h = 0 .. m + 1
        /\ g = [i \in 0 .. m + 1 |-> g[i]] /\ h = [i \in 0 .. m + 1 |-> h[i]]
    OBVIOUS
  <2> HIDE DEF g
  <2>6. ASSUME NEW i \in 0 .. m + 1 PROVE g[i] = h[i]
    <3>1. CASE i = m + 1
      <4>1. m \in 0 .. m + 1 /\ i # 0 /\ i - 1 = m /\ m # m + 1
        BY <3>1
      <4>2. g[m] = f[m] /\ g[i] = new /\ h[i] = Take(g[m], i)
        BY <3>1, <4>1, <2>3, <2>4
      <4> QED
        BY <3>1, <4>2 DEF new
    <3>2. CASE i = 0
      BY <3>2, <2>2, <2>3, <2>4
    <3>3. CASE i # m + 1 /\ i # 0
      <4>1. i \in 0 .. m /\ i - 1 \in 0 .. m + 1 /\ i - 1 # m + 1
        BY <3>3
      <4>2. g[i] = f[i] /\ g[i - 1] = f[i - 1]
        BY <3>3, <4>1, <2>3
      <4>3. f[i] = Take(f[i - 1], i)
        BY <3>3, <4>1, <2>2
      <4>4. h[i] = Take(g[i - 1], i)
        BY <3>3, <2>4
      <4> QED
        BY <4>2, <4>3, <4>4
    <3> QED
      BY <3>1, <3>2, <3>3
  <2> HIDE DEF h
  <2>7. g = h
    BY <2>5, <2>6
  <2>8. MergeFcn(g, doc, chunks, c, m + 1)
    BY <2>7, Zenon DEF MergeFcn, h, zero, Take
  <2> QED
    BY <2>8
<1> HIDE DEF Good
<1>3. Nat \subseteq Good
  BY <1>1, <1>2, NatInd
<1>4. \E f : MergeFcn(f, doc, chunks, c, n)
  BY <1>3 DEF Good
<1> DEFINE p == CHOOSE f : MergeFcn(f, doc, chunks, c, n)
<1>5. MergeFcn(p, doc, chunks, c, n)
  BY <1>4
<1>6. MergeSmall(doc, chunks, c) = MergeEnd(doc, chunks, p[n], c)
  BY Zenon DEF MergeSmall, MergeEnd, MergeFcn
<1> HIDE DEF p
<1> DEFINE zero == <<>>
<1>7. p = [i \in 0 .. n |-> IF i = 0 THEN zero ELSE Take(p[i - 1], i)]
  BY <1>5, Zenon DEF MergeFcn
<1> HIDE DEF zero, Take
<1>8. \A i \in 0 .. n : p[i] = IF i = 0 THEN zero ELSE Take(p[i - 1], i)
  BY <1>7
<1>9. 0 \in 0 .. n /\ \A i \in 1 .. n : i \in 0 .. n /\ i # 0
  OBVIOUS
<1>10. p[0] = zero /\ \A i \in 1 .. n : p[i] = Take(p[i - 1], i)
  BY <1>8, <1>9
<1>11. MergesTo(p, doc, chunks, c, n)
  BY <1>10 DEF MergesTo, zero, Take
<1> QED
  BY <1>6, <1>11

\* A merge loses nothing and keeps the order.
LEMMA MergedAll ==
  ASSUME NEW doc, NEW c, NEW chunks \in Seq(ChunkRecs), Ordered(chunks),
         NEW f, MergesTo(f, doc, chunks, c, Len(chunks))
  PROVE  Merging(f[Len(chunks)], chunks, Len(chunks))
<1> DEFINE n == Len(chunks)
           T == {i \in Nat : i <= n => Merging(f[i], chunks, i)}
<1>1. n \in Nat
  OBVIOUS
<1>2. 0 \in T
  <2>1. f[0] = <<>> /\ <<>> \in Seq(ChunkRecs)
    BY DEF MergesTo
  <2>2. Merging(<<>>, chunks, 0)
    BY <2>1 DEF Merging, Ordered, Has
  <2> QED
    BY <2>1, <2>2
<1>3. ASSUME NEW i \in Nat, i \in T PROVE i + 1 \in T
  <2> SUFFICES ASSUME i + 1 <= n PROVE Merging(f[i + 1], chunks, i + 1)
    OBVIOUS
  <2>1. i + 1 \in 1 .. n /\ (i + 1) - 1 = i /\ i <= n
    BY <1>1
  <2>2. Merging(f[i], chunks, i)
    BY <1>3, <2>1
  <2>3. f[i + 1] = Absorb(doc, f[i], chunks[i + 1], c)
    BY <2>1 DEF MergesTo
  <2> QED
    BY <2>1, <2>2, <2>3, AbsorbMerges
<1> HIDE DEF T
<1>4. Nat \subseteq T
  BY <1>2, <1>3, NatInd
<1> QED
  BY <1>1, <1>4 DEF T

LEMMA MergeLaw ==
  ASSUME NEW doc, NEW c, NEW chunks \in Seq(ChunkRecs), Ordered(chunks)
  PROVE  LET out == MergeSmall(doc, chunks, c)
         IN /\ out \in Seq(ChunkRecs) /\ Ordered(out)
            /\ \A p : Has(out, p) <=> Has(chunks, p)
<1>1. PICK f : /\ MergesTo(f, doc, chunks, c, Len(chunks))
               /\ MergeSmall(doc, chunks, c) = MergeEnd(doc, chunks, f[Len(chunks)], c)
  BY MergeSteps
<1> DEFINE out == f[Len(chunks)]
           n == Len(out)
           end == MergeEnd(doc, chunks, out, c)
<1>2. Merging(out, chunks, Len(chunks))
  BY <1>1, MergedAll
<1> HIDE DEF out
<1>3. out \in Seq(ChunkRecs) /\ Ordered(out) /\ \A p : Has(out, p) <=> Has(chunks, p)
  BY <1>2 DEF Merging, Has
<1>4. end \in Seq(ChunkRecs) /\ Ordered(end) /\ \A p : Has(end, p) <=> Has(out, p)
  <2>1. CASE c.min <= 1
    <3>1. end = chunks
      BY <2>1 DEF MergeEnd
    <3> QED
      BY <3>1, <1>3
  <2>2. CASE ~ (c.min <= 1) /\ n >= 2 /\ out[n].ord = out[n - 1].ord /\ Small(doc, out[n], c)
    <3>1. n \in Nat /\ n - 1 \in 1 .. n /\ n \in 1 .. n /\ (n - 1) - 1 = n - 2
          /\ \A i \in 1 .. n - 1 : i \in 1 .. n /\ i < n
      BY <1>3, <2>2
    <3>2. end = Joined(out, n - 1, out[n])
      BY <2>2, <3>1 DEF MergeEnd, Joined
    <3>3. \A i \in 1 .. n - 1 : Above(out[i].own, out[n].own)
      BY <1>3, <3>1 DEF Ordered
    <3>4. out[n] \in ChunkRecs
      BY <1>3, <3>1
    <3> DEFINE ys == Joined(out, n - 1, out[n])
    <3>5. /\ ys \in Seq(ChunkRecs) /\ Ordered(ys)
          /\ \A p : Has(ys, p) <=> (\E i \in 1 .. n - 1 : p \in ToSet(out[i].own))
                                   \/ p \in ToSet(out[n].own)
      BY <1>3, <3>1, <3>3, <3>4, JoinedLaw
    <3>6. \A i \in 1 .. n : i = n \/ i \in 1 .. n - 1
      <4>1. n \in Nat
        BY <3>1
      <4> HIDE DEF n
      <4> QED
        BY <4>1
    <3> HIDE DEF ys, end
    <3>7. \A p : Has(ys, p) <=> Has(out, p)
      BY <3>1, <3>5, <3>6 DEF Has
    <3> QED
      BY <3>2, <3>5, <3>7 DEF ys
  <2>3. CASE ~ (c.min <= 1)
             /\ ~ (n >= 2 /\ out[n].ord = out[n - 1].ord /\ Small(doc, out[n], c))
    <3>1. end = out
      BY <2>3 DEF MergeEnd
    <3> QED
      BY <3>1, <1>3
  <2> QED
    BY <2>1, <2>2, <2>3
<1> HIDE DEF end
<1> QED
  BY <1>1, <1>3, <1>4 DEF end, out

LEMMA WithHeaderLaw ==
  ASSUME NEW section \in SectionRecs, NEW runs, InRow(runs), Full(runs)
  PROVE  UnitsFor(WithHeader(section, runs), runs)
<1> DEFINE n == Len(runs)
           units == WithHeader(section, runs)
           head(i) == IF i = 1 THEN section.path ELSE <<>>
<1>1. /\ n \in Nat /\ DOMAIN runs = 1 .. n /\ \A i \in 1 .. n : runs[i] \in Runs
      /\ \A i, j \in 1 .. n : i < j => Above(runs[i], runs[j])
  BY RowType
<1>2. \A i \in 1 .. n : head(i) \in Seq(Nat)
  <2>1. section.path \in Seq(Nat) /\ <<>> \in Seq(Nat)
    BY DEF SectionRecs
  <2> QED
    BY <2>1
<1>3. units = [i \in 1 .. n |-> [own |-> runs[i], head |-> head(i)]]
  BY <1>1 DEF WithHeader
<1> HIDE DEF head, units
<1>4. DOMAIN units = 1 .. n /\ Len(units) = n
      /\ \A i \in 1 .. n : units[i] = [own |-> runs[i], head |-> head(i)]
  BY <1>1, <1>3
<1>5. \A i \in 1 .. n : units[i] \in UnitRecs /\ units[i].own = runs[i]
  BY <1>1, <1>2, <1>4 DEF UnitRecs
<1>6. \A i \in 1 .. n : runs[i] # <<>>
  BY DEF Full
<1>7. UnitsFor(units, runs)
  BY <1>1, <1>4, <1>5, <1>6 DEF UnitsFor
<1> QED
  BY <1>7 DEF units

PackedOf(doc, section, c, ord) ==
  IF section.body = <<>> THEN <<>>
  ELSE Pack(doc, WithHeader(section, UnitsOf(doc, section.body, c.size)), c, ord)

\* What xs have of a text: all of it but for blanks, and nothing else.
HoldsOf(doc, xs, S) ==
  /\ \A p : Has(xs, p) => p \in S
  /\ \A p \in S : doc[p] # "blank" => Has(xs, p)

LEMMA PackedLaw ==
  ASSUME NEW doc, NEW c, IsConf(c), NEW ord \in Int, NEW section \in SectionRecs
  PROVE  LET out == PackedOf(doc, section, c, ord)
         IN out \in Seq(ChunkRecs) /\ Ordered(out) /\ HoldsOf(doc, out, ToSet(section.body))
<1> DEFINE body == section.body
           runs == UnitsOf(doc, body, c.size)
           units == WithHeader(section, runs)
           out == PackedOf(doc, section, c, ord)
<1>1. body \in Runs
  BY DEF SectionRecs
<1>2. CASE body = <<>>
  <2>1. out = <<>> /\ ToSet(body) = {} /\ <<>> \in Seq(ChunkRecs)
    BY <1>2 DEF PackedOf, ToSet
  <2> HIDE DEF out, body
  <2>2. Len(out) = 0
    BY <2>1
  <2>3. out \in Seq(ChunkRecs) /\ Ordered(out) /\ HoldsOf(doc, out, ToSet(body))
    BY <2>1, <2>2 DEF Ordered, HoldsOf, Has
  <2> QED
    BY <2>3 DEF out, body
<1>3. CASE body # <<>>
  <2>1. Covers(doc, runs, ToSet(body)) /\ Full(runs)
    BY <1>1, UnitsLaw
  <2>2. out = Pack(doc, units, c, ord)
    BY <1>3 DEF PackedOf
  <2> HIDE DEF runs, body
  <2>3. InRow(runs) /\ Within(runs, ToSet(body))
        /\ \A p \in ToSet(body) : doc[p] # "blank" => Reached(runs, p)
    BY <2>1 DEF Covers
  <2>4. UnitsFor(units, runs)
    BY <2>1, <2>3, WithHeaderLaw
  <2> HIDE DEF units
  <2>5. /\ Pack(doc, units, c, ord) \in Seq(ChunkRecs) /\ Ordered(Pack(doc, units, c, ord))
        /\ \A p : Has(Pack(doc, units, c, ord), p) <=> Reached(runs, p)
    BY <2>4, PackLaw
  <2> HIDE DEF out
  <2>6. HoldsOf(doc, out, ToSet(body))
    BY <2>2, <2>3, <2>5 DEF HoldsOf, Reached, Within
  <2> QED
    BY <2>2, <2>5, <2>6 DEF out, body
<1> QED
  BY <1>2, <1>3

OrdOf(strategy, n) == IF strategy = "recursive" THEN n - 1 ELSE NoSection
RowsOf(doc, strategy, c) ==
  [n \in DOMAIN Sections(doc) |-> PackedOf(doc, Sections(doc)[n], c, OrdOf(strategy, n))]

LEMMA LeavesForm ==
  ASSUME NEW doc, NEW strategy, NEW c
  PROVE  Leaves_(doc, strategy, c)
           = MergeSmall(doc, FlattenSeq(RowsOf(doc, strategy, c)), c)
BY DEF Leaves_, RowsOf, PackedOf, OrdOf

\* The rows of the sections, each with the text of its own.
LEMMA RowsLaw ==
  ASSUME NEW doc, Len(doc) \in Nat, DOMAIN doc = 1 .. Len(doc),
         NEW strategy, NEW c, IsConf(c)
  PROVE  LET secs == Sections(doc)
             F == RowsOf(doc, strategy, c)
         IN /\ F \in Seq(Seq(ChunkRecs)) /\ Len(F) = Len(secs) /\ RowsApart(F)
            /\ \A n \in 1 .. Len(secs) :
                 /\ F[n] = PackedOf(doc, secs[n], c, OrdOf(strategy, n))
                 /\ HoldsOf(doc, F[n], ToSet(secs[n].body))
<1> DEFINE secs == Sections(doc)
           m == Len(secs)
           F == RowsOf(doc, strategy, c)
<1>1. Placed(secs)
  BY SectionsLaw
<1>2. F = [n \in DOMAIN secs |-> PackedOf(doc, secs[n], c, OrdOf(strategy, n))]
  BY DEF RowsOf
<1> HIDE DEF secs, F
<1>3. /\ m \in Nat /\ DOMAIN secs = 1 .. m /\ \A n \in 1 .. m : secs[n] \in SectionRecs
  BY <1>1 DEF Placed
<1>4. \A n \in 1 .. m : F[n] = PackedOf(doc, secs[n], c, OrdOf(strategy, n))
  BY <1>2, <1>3
<1>5. \A n \in 1 .. m : /\ F[n] \in Seq(ChunkRecs) /\ Ordered(F[n])
                        /\ HoldsOf(doc, F[n], ToSet(secs[n].body))
  <2> TAKE n \in 1 .. m
  <2>1. OrdOf(strategy, n) \in Int
    BY <1>3 DEF OrdOf, NoSection
  <2> QED
    BY <2>1, <1>3, <1>4, PackedLaw
<1>6. F \in [1 .. m -> Seq(ChunkRecs)] /\ Len(F) = m
  BY <1>2, <1>3, <1>4, <1>5
<1>7. F \in Seq(Seq(ChunkRecs))
  BY <1>3, <1>6, SeqDef
<1>8. ASSUME NEW i \in 1 .. m, NEW j \in 1 .. m, i < j, NEW p, NEW q,
             Has(F[i], p), Has(F[j], q)
      PROVE  p < q
  <2>1. p \in ToSet(secs[i].body) /\ q \in ToSet(secs[j].body)
    BY <1>5, <1>8 DEF HoldsOf
  <2>2. p <= secs[i].end /\ secs[j].start <= q /\ secs[i].end < secs[j].start
    BY <1>1, <1>8, <2>1 DEF Placed
  <2>3. secs[i].body \in Runs /\ secs[j].body \in Runs
        /\ secs[i].end \in Int /\ secs[j].start \in Int
    BY <1>3 DEF SectionRecs
  <2>4. p \in Nat /\ q \in Nat
    BY <2>1, <2>3, RunType
  <2> QED
    BY <2>2, <2>3, <2>4
<1>9. RowsApart(F)
  BY <1>5, <1>6, <1>8 DEF RowsApart
<1> QED
  BY <1>4, <1>5, <1>6, <1>7, <1>9 DEF secs, F

\* The non-blank places of a run.
LEMMA StrippedLaw ==
  ASSUME NEW doc, NEW s \in Runs
  PROVE  /\ Stripped(doc, s) \in Runs
         /\ ToSet(Stripped(doc, s)) = {p \in ToSet(s) : doc[p] # "blank"}
<1> DEFINE I == Solid(doc, s)
<1>1. I \in SUBSET DOMAIN s /\ I = {i \in DOMAIN s : doc[s[i]] # "blank"}
  BY DEF Solid
<1> HIDE DEF I
<1>2. Stripped(doc, s) = Kept(s, I)
  BY DEF Stripped, I
<1>3. Kept(s, I) \in Runs /\ ToSet(Kept(s, I)) = {s[i] : i \in I}
  BY <1>1, KeptRun
<1>4. {s[i] : i \in I} = {p \in ToSet(s) : doc[p] # "blank"}
  BY <1>1, RunType
<1> QED
  BY <1>2, <1>3, <1>4

\* The chunks' own places, but for blanks, are those of the bodies, in order.
CoverIs(doc, leaves) ==
  Stripped(doc, FlattenSeq([i \in DOMAIN leaves |-> leaves[i].own]))
    = Stripped(doc, FlattenSeq([n \in DOMAIN Sections(doc) |-> Sections(doc)[n].body]))

LEMMA CoverLaw ==
  ASSUME NEW doc, Len(doc) \in Nat, DOMAIN doc = 1 .. Len(doc),
         NEW strategy, NEW c, IsConf(c)
  PROVE  CoverIs(doc, Leaves_(doc, strategy, c))
<1> DEFINE secs == Sections(doc)
           F == RowsOf(doc, strategy, c)
           chunks == FlattenSeq(F)
           leaves == Leaves_(doc, strategy, c)
           owns == [i \in DOMAIN leaves |-> leaves[i].own]
           bodies == [n \in DOMAIN secs |-> secs[n].body]
           a == FlattenSeq(owns)
           b == FlattenSeq(bodies)
<1>1. /\ F \in Seq(Seq(ChunkRecs)) /\ Len(F) = Len(secs) /\ RowsApart(F)
      /\ \A n \in 1 .. Len(secs) : HoldsOf(doc, F[n], ToSet(secs[n].body))
  BY RowsLaw
<1>2. leaves = MergeSmall(doc, chunks, c)
  BY LeavesForm
<1>3. Placed(secs)
  BY SectionsLaw
<1> HIDE DEF F, leaves
<1>4. /\ chunks \in Seq(ChunkRecs) /\ Ordered(chunks)
      /\ \A p : Has(chunks, p) <=> \E i \in 1 .. Len(F) : Has(F[i], p)
  BY <1>1, FlattenChunks
<1> HIDE DEF chunks
<1>5. /\ leaves \in Seq(ChunkRecs) /\ Ordered(leaves)
      /\ \A p : Has(leaves, p) <=> Has(chunks, p)
  BY <1>2, <1>4, MergeLaw
<1>6. InRow(owns) /\ \A p : Reached(owns, p) <=> Has(leaves, p)
  <2>1. \A x \in ChunkRecs : x.own \in Runs
    BY ChunkType
  <2> QED
    BY <2>1, <1>5, OwnsInRow
<1>7. InRow(bodies)
  BY <1>3, BodiesInRow
<1>8. \A p : Reached(bodies, p) <=> \E n \in 1 .. Len(secs) : p \in ToSet(secs[n].body)
  <2>1. Len(secs) \in Nat /\ DOMAIN secs = 1 .. Len(secs)
    BY <1>3 DEF Placed
  <2>2. Len(bodies) = Len(secs) /\ \A n \in 1 .. Len(secs) : bodies[n] = secs[n].body
    BY <2>1
  <2> QED
    BY <2>2 DEF Reached
<1>0. CoverIs(doc, leaves) <=> Stripped(doc, a) = Stripped(doc, b)
  BY DEF CoverIs
<1> HIDE DEF owns, bodies
<1>9. a \in Runs /\ \A p : p \in ToSet(a) <=> Has(leaves, p)
  BY <1>6, FlattenRow
<1>10. b \in Runs /\ \A p : p \in ToSet(b) <=> \E n \in 1 .. Len(secs) : p \in ToSet(secs[n].body)
  BY <1>7, <1>8, FlattenRow
<1> HIDE DEF a, b, secs
<1>11. \A p : doc[p] # "blank" => (p \in ToSet(a) <=> p \in ToSet(b))
  BY <1>1, <1>4, <1>5, <1>9, <1>10 DEF HoldsOf
<1>12. Stripped(doc, a) \in Runs /\ Stripped(doc, b) \in Runs
       /\ ToSet(Stripped(doc, a)) = ToSet(Stripped(doc, b))
  <2>1. /\ Stripped(doc, a) \in Runs
        /\ ToSet(Stripped(doc, a)) = {p \in ToSet(a) : doc[p] # "blank"}
    BY <1>9, StrippedLaw
  <2>2. /\ Stripped(doc, b) \in Runs
        /\ ToSet(Stripped(doc, b)) = {p \in ToSet(b) : doc[p] # "blank"}
    BY <1>10, StrippedLaw
  <2>3. {p \in ToSet(a) : doc[p] # "blank"} = {p \in ToSet(b) : doc[p] # "blank"}
    BY <1>11
  <2> QED
    BY <2>1, <2>2, <2>3
<1>13. Stripped(doc, a) = Stripped(doc, b)
  BY <1>12, RunOfSet
<1> QED
  BY <1>0, <1>13 DEF leaves

-----------------------------------------------------------------------------
(* Cuts.                                                                   *)

\* How many places of s have a number below v, and one up to v.
Below(s, v) == {i \in DOMAIN s : s[i] < v}
UpTo(s, v) == {i \in DOMAIN s : s[i] <= v}

LEMMA CountsFinite ==
  ASSUME NEW n \in Nat, NEW s \in [1 .. n -> Nat], NEW I \in SUBSET (1 .. n)
  PROVE  IsFiniteSet(I) /\ Cardinality(I) \in Nat /\ Cardinality(I) <= n
BY RangeFinite, FS_Subset, FS_CardinalityType

LEMMA HasBound ==
  ASSUME NEW n \in Nat, NEW s \in [1 .. n -> Nat]
  PROVE  \E b \in Nat : \A i \in 1 .. n : s[i] <= b
<1> DEFINE T == {m \in Nat : m <= n => \E b \in Nat : \A i \in 1 .. m : s[i] <= b}
<1>1. 0 \in T
  <2>1. \A i \in 1 .. 0 : s[i] <= 0
    OBVIOUS
  <2> QED
    BY <2>1
<1>2. ASSUME NEW m \in Nat, m \in T PROVE m + 1 \in T
  <2> SUFFICES ASSUME m + 1 <= n PROVE \E b \in Nat : \A i \in 1 .. m + 1 : s[i] <= b
    OBVIOUS
  <2>1. PICK b \in Nat : \A i \in 1 .. m : s[i] <= b
    BY <1>2
  <2>2. s[m + 1] \in Nat /\ \A i \in 1 .. m : s[i] \in Nat
    OBVIOUS
  <2>3. \A i \in 1 .. m + 1 : i \in 1 .. m \/ i = m + 1
    OBVIOUS
  <2>4. \A i \in 1 .. m + 1 : s[i] <= b + s[m + 1]
    BY <2>1, <2>2, <2>3
  <2>5. b + s[m + 1] \in Nat
    BY <2>2
  <2> QED
    BY <2>4, <2>5
<1> HIDE DEF T
<1>3. Nat \subseteq T
  BY <1>1, <1>2, NatInd
<1>4. n \in T /\ n <= n
  BY <1>3
<1> QED
  BY <1>4 DEF T

LEMMA SmallestLaw ==
  ASSUME NEW n \in Nat, NEW s \in [1 .. n -> Nat], NEW k \in 1 .. n
  PROVE  /\ Smallest(s, k) \in Nat
         /\ Cardinality(Below(s, Smallest(s, k))) < k
         /\ k <= Cardinality(UpTo(s, Smallest(s, k)))
<1> DEFINE Enough == {v \in Nat : k <= Cardinality(UpTo(s, v))}
<1>1. DOMAIN s = 1 .. n /\ \A i \in 1 .. n : s[i] \in Nat
  OBVIOUS
<1>2. \A v : /\ UpTo(s, v) \in SUBSET (1 .. n) /\ Below(s, v) \in SUBSET (1 .. n)
             /\ Cardinality(UpTo(s, v)) \in Nat /\ Cardinality(Below(s, v)) \in Nat
  BY <1>1, CountsFinite DEF UpTo, Below
<1>3. PICK b \in Nat : \A i \in 1 .. n : s[i] <= b
  BY HasBound
<1>4. b \in Enough
  <2>1. UpTo(s, b) = 1 .. n
    BY <1>1, <1>3 DEF UpTo
  <2> QED
    BY <2>1, RangeFinite
<1>5. PICK v \in Enough : \A w \in Enough : v <= w
  BY <1>4, LeastOf
<1>6. Cardinality(Below(s, v)) < k
  <2>1. CASE v = 0
    <3>1. Below(s, v) = {}
      BY <2>1, <1>1 DEF Below
    <3>2. Cardinality({}) = 0
      BY FS_EmptySet
    <3> QED
      BY <3>1, <3>2
  <2>2. CASE v # 0
    <3>1. v - 1 \in Nat /\ ~ (v <= v - 1)
      BY <2>2
    <3>2. v - 1 \notin Enough
      BY <3>1, <1>5
    <3>3. Below(s, v) = UpTo(s, v - 1)
      BY <1>1 DEF Below, UpTo
    <3> QED
      BY <3>1, <3>2, <3>3, <1>2
  <2> QED
    BY <2>1, <2>2
<1>7. v \in ToSet(s)
  <2>1. Below(s, v) # UpTo(s, v)
    BY <1>2, <1>5, <1>6
  <2>2. PICK i \in 1 .. n : s[i] <= v /\ ~ (s[i] < v)
    BY <2>1, <1>1 DEF Below, UpTo
  <2>3. s[i] = v
    BY <2>2, <1>1
  <2> QED
    BY <2>3, <1>1 DEF ToSet
<1> DEFINE P(x) == Cardinality(Below(s, x)) < k /\ k <= Cardinality(UpTo(s, x))
<1>8. P(v)
  BY <1>5, <1>6
<1>9. Smallest(s, k) = CHOOSE x \in ToSet(s) : P(x)
  BY DEF Smallest, Below, UpTo
<1> HIDE DEF P
<1>10. Smallest(s, k) \in ToSet(s) /\ P(Smallest(s, k))
  BY <1>7, <1>8, <1>9
<1>11. \A x \in ToSet(s) : x \in Nat
  BY <1>1 DEF ToSet
<1> QED
  BY <1>10, <1>11 DEF P

LEMMA SmallestRises ==
  ASSUME NEW n \in Nat, NEW s \in [1 .. n -> Nat], NEW k \in 1 .. n, NEW l \in 1 .. n, k <= l
  PROVE  Smallest(s, k) <= Smallest(s, l)
<1> DEFINE v == Smallest(s, k)
           w == Smallest(s, l)
<1>1. v \in Nat /\ w \in Nat
  BY SmallestLaw
<1>2. Cardinality(Below(s, v)) < k
  BY SmallestLaw
<1>3. l <= Cardinality(UpTo(s, w))
  BY SmallestLaw
<1> HIDE DEF v, w
<1>4. SUFFICES ASSUME w < v PROVE FALSE
  BY <1>1 DEF v, w
<1>5. UpTo(s, w) \subseteq Below(s, v) /\ Below(s, v) \in SUBSET (1 .. n)
  BY <1>1, <1>4 DEF UpTo, Below
<1>6. /\ IsFiniteSet(Below(s, v)) /\ Cardinality(Below(s, v)) \in Nat
      /\ UpTo(s, w) \in SUBSET (1 .. n) /\ Cardinality(UpTo(s, w)) \in Nat
  BY <1>5, CountsFinite
<1>7. Cardinality(UpTo(s, w)) <= Cardinality(Below(s, v))
  BY <1>5, <1>6, FS_Subset
<1> QED
  BY <1>2, <1>3, <1>6, <1>7

\* The cuts of m distances at a percentile.
CutsAtTop(d, cuts, percentile) ==
  /\ \A i \in cuts, j \in DOMAIN d \ cuts : d[i] > d[j]
  /\ Cardinality(cuts) <= Len(d) - 1 - (percentile * (Len(d) - 1)) \div 100

LEMMA ShiftsLaw ==
  ASSUME NEW m \in Nat \ {0}, NEW d \in [1 .. m -> Nat], NEW percentile \in 0 .. 100
  PROVE  CutsAtTop(d, Shifts(d, percentile), percentile)
<1> DEFINE rank == percentile * (m - 1)
           lo == rank \div 100
           hi == (rank + 99) \div 100
           low == Smallest(d, lo + 1)
           high == Smallest(d, hi + 1)
           rest == rank % 100
           x == Percentile(d, percentile)
           cuts == Shifts(d, percentile)
<1>1. Len(d) = m /\ DOMAIN d = 1 .. m /\ \A i \in 1 .. m : d[i] \in Nat
  OBVIOUS
<1>2. x = 100 * low + rest * (high - low)
  BY <1>1 DEF Percentile
<1>3. rank \in Nat /\ rank <= 100 * (m - 1)
  <2>1. percentile \in Nat /\ m - 1 \in Nat /\ percentile <= 100
    OBVIOUS
  <2>2. rank \in Nat
    BY <2>1
  <2>3. percentile * (m - 1) <= 100 * (m - 1)
    BY <2>1
  <2> QED
    BY <2>2, <2>3
<1> HIDE DEF rank
<1>4. rest \in 0 .. 99 /\ lo \in Nat /\ hi \in Nat /\ lo <= hi /\ hi <= m - 1
  BY <1>3
<1> HIDE DEF lo, hi, rest
<1>5. lo + 1 \in 1 .. m /\ hi + 1 \in 1 .. m /\ lo + 1 <= hi + 1
  BY <1>4
<1>6. low \in Nat /\ high \in Nat /\ low <= high
  BY <1>5, SmallestLaw, SmallestRises
<1>7. lo + 1 <= Cardinality(UpTo(d, low))
  BY <1>5, SmallestLaw
<1> HIDE DEF low, high, x
<1>8. x \in Int /\ x >= 100 * low
  <2>1. high - low \in Nat
    BY <1>6
  <2>2. rest * (high - low) \in Nat
    BY <2>1, <1>4
  <2> QED
    BY <2>2, <1>2, <1>6
<1>9. cuts = {i \in 1 .. m : 100 * d[i] > x}
  BY <1>1 DEF Shifts, x
<1> HIDE DEF cuts
<1>10. ASSUME NEW i \in cuts, NEW j \in (1 .. m) \ cuts PROVE d[i] > d[j]
  <2>1. 100 * d[i] > x /\ ~ (100 * d[j] > x) /\ d[i] \in Nat /\ d[j] \in Nat
    BY <1>1, <1>9
  <2> QED
    BY <2>1, <1>8
<1>11. Cardinality(cuts) <= m - 1 - lo
  <2> DEFINE U == UpTo(d, low)
  <2>1. U \in SUBSET (1 .. m) /\ cuts \in SUBSET (1 .. m)
    BY <1>1, <1>9 DEF UpTo
  <2>2. U \cap cuts = {}
    <3>1. ASSUME NEW i \in 1 .. m, i \in U, i \in cuts PROVE FALSE
      <4>1. d[i] <= low /\ 100 * d[i] > x /\ d[i] \in Nat
        BY <3>1, <1>1, <1>9 DEF UpTo
      <4> QED
        BY <4>1, <1>6, <1>8
    <3> HIDE DEF U
    <3> QED
      BY <3>1, <2>1
  <2> HIDE DEF U
  <2>3. /\ IsFiniteSet(U) /\ Cardinality(U) \in Nat
        /\ IsFiniteSet(cuts) /\ Cardinality(cuts) \in Nat
    BY <2>1, CountsFinite
  <2>4. Cardinality(U \cup cuts) = Cardinality(U) + Cardinality(cuts)
    <3>1. Cardinality(U \cup cuts) = Cardinality(U) + Cardinality(cuts) - Cardinality(U \cap cuts)
      BY <2>3, FS_Union
    <3>2. Cardinality(U \cap cuts) = 0
      BY <2>2, FS_EmptySet
    <3> QED
      BY <3>1, <3>2, <2>3
  <2>5. U \cup cuts \in SUBSET (1 .. m)
    BY <2>1
  <2>6. Cardinality(U \cup cuts) <= m
    BY <2>5, CountsFinite
  <2>7. lo + 1 <= Cardinality(U)
    BY <1>7 DEF U
  <2> QED
    BY <2>3, <2>4, <2>6, <2>7, <1>4
<1>12. lo = (percentile * (m - 1)) \div 100
  BY DEF lo, rank
<1> QED
  BY <1>1, <1>10, <1>11, <1>12 DEF CutsAtTop, cuts

\* What sentences weigh, one by one.
LEMMA WeightSteps ==
  ASSUME NEW n \in Nat, NEW sizes \in [1 .. n -> Nat], NEW s \in Seq(1 .. n)
  PROVE  \E f \in [0 .. Len(s) -> Nat] :
           /\ f[0] = 0 /\ \A i \in 1 .. Len(s) : f[i] = f[i - 1] + sizes[s[i]]
           /\ Weight(sizes, s) = f[Len(s)]
<1> DEFINE m == Len(s)
           G == [i \in 1 .. m |-> [x \in Nat |-> x + sizes[s[i]]]]
           Fcn(f) == f = [i \in 0 .. m |-> IF i = 0 THEN 0 ELSE f[i - 1] + sizes[s[i]]]
           p == CHOOSE f : Fcn(f)
<1>1. m \in Nat /\ \A i \in 1 .. m : sizes[s[i]] \in Nat
  OBVIOUS
<1>2. \A i \in 1 .. m : G[i] \in [Nat -> Nat]
  BY <1>1
<1>3. \A i \in 1 .. m : \A x \in Nat : G[i][x] = x + sizes[s[i]]
  OBVIOUS
<1>10. Weight(sizes, s) = p[m]
  BY Zenon DEF Weight
<1> HIDE DEF G, m
<1>4. PICK f \in [0 .. m -> Nat] : f[0] = 0 /\ \A i \in 1 .. m : f[i] = G[i][f[i - 1]]
  <2>1. StepsOn(G, m, Nat)
    BY <1>2 DEF StepsOn
  <2>2. Iterated(G, m, Nat, 0)
    BY <2>1, <1>1, Iterates
  <2> QED
    BY <2>2 DEF Iterated
<1>5. \A i \in 1 .. m : f[i] = f[i - 1] + sizes[s[i]]
  <2> TAKE i \in 1 .. m
  <2>1. i - 1 \in 0 .. m
    BY <1>1
  <2>2. f[i - 1] \in Nat
    BY <2>1, <1>4
  <2> QED
    BY <2>2, <1>3, <1>4
<1>6. \A i \in 0 .. m : f[i] = IF i = 0 THEN 0 ELSE f[i - 1] + sizes[s[i]]
  <2>1. \A i \in 0 .. m : i # 0 => i \in 1 .. m
    BY <1>1
  <2> QED
    BY <2>1, <1>4, <1>5
<1>7. Fcn(f)
  <2>1. f = [i \in 0 .. m |-> f[i]]
    OBVIOUS
  <2> QED
    BY <2>1, <1>6
<1>8. Fcn(p)
  BY <1>7, Zenon
<1> HIDE DEF p
<1>11. \A i \in 0 .. m : p[i] = IF i = 0 THEN 0 ELSE p[i - 1] + sizes[s[i]]
  BY <1>8
<1> HIDE DEF Fcn
<1>12. \A i \in 0 .. m : p[i] = f[i]
  <2> DEFINE T == {i \in Nat : i <= m => p[i] = f[i]}
  <2>1. 0 \in T
    BY <1>1, <1>4, <1>11
  <2>2. ASSUME NEW i \in Nat, i \in T PROVE i + 1 \in T
    <3> SUFFICES ASSUME i + 1 <= m PROVE p[i + 1] = f[i + 1]
      OBVIOUS
    <3>1. i + 1 \in 1 .. m /\ i + 1 \in 0 .. m /\ i + 1 # 0 /\ (i + 1) - 1 = i /\ i <= m
      BY <1>1
    <3> QED
      BY <3>1, <2>2, <1>5, <1>11
  <2> HIDE DEF T
  <2>3. Nat \subseteq T
    BY <2>1, <2>2, NatInd
  <2> QED
    BY <2>3, <1>1 DEF T
<1>13. m \in 0 .. m
  BY <1>1
<1> QED
  BY <1>4, <1>5, <1>10, <1>12, <1>13 DEF m

LEMMA WeightLaw ==
  ASSUME NEW n \in Nat, NEW sizes \in [1 .. n -> Nat], NEW s \in Seq(1 .. n)
  PROVE  /\ Weight(sizes, s) \in Nat
         /\ s = <<>> => Weight(sizes, s) = 0
         /\ \A k \in 1 .. n : Weight(sizes, Append(s, k)) = Weight(sizes, s) + sizes[k]
<1> DEFINE m == Len(s)
<1>1. m \in Nat /\ \A i \in 1 .. m : s[i] \in 1 .. n
  OBVIOUS
<1>2. PICK f \in [0 .. m -> Nat] :
        /\ f[0] = 0 /\ \A i \in 1 .. m : f[i] = f[i - 1] + sizes[s[i]]
        /\ Weight(sizes, s) = f[m]
  BY WeightSteps
<1>3. m \in 0 .. m
  BY <1>1
<1>4. Weight(sizes, s) \in Nat /\ (s = <<>> => Weight(sizes, s) = 0)
  BY <1>2, <1>3
<1>5. ASSUME NEW k \in 1 .. n PROVE Weight(sizes, Append(s, k)) = Weight(sizes, s) + sizes[k]
  <2> DEFINE t == Append(s, k)
  <2>1. t \in Seq(1 .. n) /\ Len(t) = m + 1 /\ t[m + 1] = k /\ \A i \in 1 .. m : t[i] = s[i]
    BY AppendProperties
  <2> HIDE DEF t
  <2>2. PICK g \in [0 .. Len(t) -> Nat] :
          /\ g[0] = 0 /\ \A i \in 1 .. Len(t) : g[i] = g[i - 1] + sizes[t[i]]
          /\ Weight(sizes, t) = g[Len(t)]
    BY <2>1, WeightSteps
  <2> HIDE DEF m
  <2>3. \A i \in 1 .. m : i \in 1 .. m + 1
    BY <1>1
  <2> DEFINE T == {i \in Nat : i <= m => g[i] = f[i]}
  <2>4. 0 \in T
    BY <1>2, <2>2
  <2>5. ASSUME NEW i \in Nat, i \in T PROVE i + 1 \in T
    <3> SUFFICES ASSUME i + 1 <= m PROVE g[i + 1] = f[i + 1]
      OBVIOUS
    <3>1. i + 1 \in 1 .. m /\ (i + 1) - 1 = i /\ i <= m
      BY <1>1
    <3>2. g[i + 1] = g[i] + sizes[t[i + 1]] /\ t[i + 1] = s[i + 1]
      BY <3>1, <2>1, <2>2, <2>3
    <3>3. f[i + 1] = f[i] + sizes[s[i + 1]]
      BY <3>1, <1>2
    <3> QED
      BY <3>1, <3>2, <3>3, <2>5
  <2> HIDE DEF T
  <2>6. Nat \subseteq T
    BY <2>4, <2>5, NatInd
  <2>7. g[m] = f[m]
    BY <2>6, <1>1 DEF T
  <2>8. m + 1 \in 1 .. m + 1 /\ (m + 1) - 1 = m
    BY <1>1
  <2>9. g[m + 1] = g[m] + sizes[k]
    BY <2>1, <2>2, <2>8
  <2> QED
    BY <2>1, <2>2, <2>7, <2>9, <1>2 DEF t
<1> QED
  BY <1>4, <1>5

LEMMA RowAppend ==
  ASSUME NEW ss, InRow(ss), NEW t \in Runs, \A i \in 1 .. Len(ss) : Above(ss[i], t)
  PROVE  /\ InRow(Append(ss, t)) /\ Len(Append(ss, t)) = Len(ss) + 1
         /\ Append(ss, t)[Len(ss) + 1] = t
         /\ \A i \in 1 .. Len(ss) : Append(ss, t)[i] = ss[i]
         /\ \A p : Reached(Append(ss, t), p) <=> Reached(ss, p) \/ p \in ToSet(t)
<1> DEFINE n == Len(ss)
           ys == Append(ss, t)
<1>1. /\ ss \in Seq(Runs) /\ n \in Nat
      /\ \A i, j \in 1 .. n : i < j => Above(ss[i], ss[j])
  BY RowType
<1>2. ys \in Seq(Runs) /\ Len(ys) = n + 1 /\ ys[n + 1] = t /\ \A i \in 1 .. n : ys[i] = ss[i]
  BY <1>1, AppendProperties
<1> HIDE DEF ys
<1>3. /\ \A i \in 1 .. n + 1 : i = n + 1 \/ i \in 1 .. n
      /\ \A i \in 1 .. n : i \in 1 .. n + 1
      /\ n + 1 \in 1 .. n + 1
  BY <1>1
<1>4. ASSUME NEW i \in 1 .. n + 1, NEW j \in 1 .. n + 1, i < j
      PROVE  Above(ys[i], ys[j])
  <2>1. i \in 1 .. n
    BY <1>1, <1>4
  <2> QED
    BY <2>1, <1>1, <1>2, <1>3, <1>4
<1>5. InRow(ys)
  BY <1>2, <1>4 DEF InRow
<1>6. \A p : Reached(ys, p) <=> Reached(ss, p) \/ p \in ToSet(t)
  BY <1>2, <1>3 DEF Reached
<1> QED
  BY <1>2, <1>5, <1>6 DEF ys

\* A place appended to a run of places before it.
LEMMA RunAppend ==
  ASSUME NEW s \in Runs, NEW x \in Nat, \A y \in ToSet(s) : y < x
  PROVE  /\ Append(s, x) \in Runs /\ ToSet(Append(s, x)) = ToSet(s) \cup {x}
         /\ Append(s, x) # <<>> /\ Len(Append(s, x)) = Len(s) + 1
         /\ s # <<>> => Append(s, x)[1] = s[1]
         /\ s = <<>> => Append(s, x)[1] = x
<1> DEFINE n == Len(s)
           t == Append(s, x)
<1>1. /\ s \in Seq(Nat) /\ n \in Nat
      /\ \A i \in 1 .. n : s[i] \in Nat /\ s[i] \in ToSet(s)
      /\ \A i, j \in 1 .. n : i < j => s[i] < s[j]
      /\ \A z \in ToSet(s) : \E i \in 1 .. n : z = s[i]
  BY RunType
<1>2. t \in Seq(Nat) /\ Len(t) = n + 1 /\ t[n + 1] = x /\ \A i \in 1 .. n : t[i] = s[i]
  BY <1>1, AppendProperties
<1> HIDE DEF t
<1>3. /\ \A i \in 1 .. n + 1 : i = n + 1 \/ i \in 1 .. n
      /\ \A i \in 1 .. n : i \in 1 .. n + 1
      /\ n + 1 \in 1 .. n + 1
  BY <1>1
<1>4. ASSUME NEW i \in 1 .. n + 1, NEW j \in 1 .. n + 1, i < j
      PROVE  t[i] < t[j]
  <2>1. i \in 1 .. n
    BY <1>1, <1>4
  <2>2. CASE j = n + 1
    BY <2>1, <2>2, <1>1, <1>2
  <2>3. CASE j \in 1 .. n
    BY <2>1, <2>3, <1>1, <1>2, <1>4
  <2> QED
    BY <2>2, <2>3, <1>3
<1>5. t \in Runs
  BY <1>2, <1>4 DEF Runs, Rises
<1>6. ToSet(t) = ToSet(s) \cup {x}
  <2>1. \A z \in ToSet(t) : \E i \in 1 .. n + 1 : z = t[i]
    BY <1>2, <1>5, RunType
  <2>2. \A i \in 1 .. n + 1 : t[i] \in ToSet(t)
    BY <1>2, <1>5, RunType
  <2>3. \A z \in ToSet(t) : z \in ToSet(s) \cup {x}
    BY <2>1, <1>1, <1>2, <1>3
  <2>4. \A z \in ToSet(s) \cup {x} : z \in ToSet(t)
    BY <2>2, <1>1, <1>2, <1>3
  <2> QED
    BY <2>3, <2>4
<1>7. t # <<>>
  BY <1>1, <1>2
<1>8. s # <<>> => 1 \in 1 .. n
  BY <1>1
<1>9. s = <<>> => n = 0
  OBVIOUS
<1> QED
  BY <1>2, <1>5, <1>6, <1>7, <1>8, <1>9 DEF t

LEMMA RunIn ==
  ASSUME NEW s \in Runs, NEW S, ToSet(s) \subseteq S
  PROVE  s \in Seq(S)
<1>1. s \in Seq(Nat) /\ Len(s) \in Nat /\ \A i \in 1 .. Len(s) : s[i] \in S
  BY RunType
<1>2. s \in [1 .. Len(s) -> S]
  BY <1>1
<1> QED
  BY <1>1, <1>2, SeqDef

\* Prompts within the budget, that could not have taken a sentence more.
Fits(ps, sizes, budget) ==
  /\ \A k \in 1 .. Len(ps) : Weight(sizes, ps[k]) <= budget \/ Len(ps[k]) = 1
  /\ \A k \in 1 .. Len(ps) : k < Len(ps) =>
       Weight(sizes, ps[k]) + sizes[ps[k + 1][1]] > budget

\* The last prompt of ps is full for the sentence that now begins with.
Closed(ps, now, sizes, budget) ==
  ps # <<>> => Weight(sizes, ps[Len(ps)]) + sizes[now[1]] > budget

\* s holds the first i sentences.
Filled(s, sizes, budget, i) ==
  /\ s = [done |-> s.done, now |-> s.now, used |-> s.used]
  /\ InRow(s.done) /\ Full(s.done) /\ Fits(s.done, sizes, budget)
  /\ s.now \in Runs /\ s.used = Weight(sizes, s.now)
  /\ \A k \in 1 .. Len(s.done) : Above(s.done[k], s.now)
  /\ \A q : (Reached(s.done, q) \/ q \in ToSet(s.now)) <=> q \in 1 .. i
  /\ (s.now = <<>>) <=> (i = 0)
  /\ i = 0 => s.done = <<>>
  /\ s.used <= budget \/ Len(s.now) <= 1
  /\ i # 0 => Closed(s.done, s.now, sizes, budget)

\* A prompt closed, or the last one.
LEMMA CloseLaw ==
  ASSUME NEW s, NEW sizes, NEW budget \in Nat, NEW i \in Nat \ {0}, Filled(s, sizes, budget, i)
  PROVE  LET ps == Append(s.done, s.now)
         IN /\ InRow(ps) /\ Full(ps) /\ Fits(ps, sizes, budget) /\ Len(ps) = Len(s.done) + 1
            /\ ps[Len(s.done) + 1] = s.now
            /\ \A q : Reached(ps, q) <=> q \in 1 .. i
<1> DEFINE n == Len(s.done)
           ps == Append(s.done, s.now)
<1>1. /\ InRow(s.done) /\ Full(s.done) /\ Fits(s.done, sizes, budget)
      /\ s.now \in Runs /\ s.used = Weight(sizes, s.now) /\ s.now # <<>>
      /\ \A k \in 1 .. n : Above(s.done[k], s.now)
      /\ \A q : (Reached(s.done, q) \/ q \in ToSet(s.now)) <=> q \in 1 .. i
      /\ s.used <= budget \/ Len(s.now) <= 1
      /\ Closed(s.done, s.now, sizes, budget)
  BY DEF Filled
<1>2. /\ InRow(ps) /\ Len(ps) = n + 1 /\ ps[n + 1] = s.now
      /\ \A k \in 1 .. n : ps[k] = s.done[k]
      /\ \A p : Reached(ps, p) <=> Reached(s.done, p) \/ p \in ToSet(s.now)
  BY <1>1, RowAppend
<1> HIDE DEF ps
<1>3. n \in Nat /\ s.done \in Seq(Runs)
  BY <1>1, RowType
<1>4. \A k \in 1 .. n + 1 : k = n + 1 \/ k \in 1 .. n
  BY <1>3
<1>5. Full(ps)
  BY <1>1, <1>2, <1>4 DEF Full
<1>6. Len(s.now) \in Nat /\ Len(s.now) # 0
  BY <1>1, RunType
<1>7. ASSUME NEW k \in 1 .. n + 1 PROVE Weight(sizes, ps[k]) <= budget \/ Len(ps[k]) = 1
  <2>1. CASE k = n + 1
    <3>1. ps[k] = s.now
      BY <2>1, <1>2
    <3>2. Len(s.now) <= 1 => Len(s.now) = 1
      <4> DEFINE m == Len(s.now)
      <4>1. m \in Nat /\ m # 0
        BY <1>6
      <4> HIDE DEF m
      <4>2. m <= 1 => m = 1
        BY <4>1
      <4> QED
        BY <4>2 DEF m
    <3>3. Weight(sizes, s.now) <= budget \/ Len(s.now) = 1
      BY <3>2, <1>1
    <3> QED
      BY <3>1, <3>3
  <2>2. CASE k \in 1 .. n
    BY <2>2, <1>1, <1>2 DEF Fits
  <2> QED
    BY <2>1, <2>2, <1>4
<1>8. ASSUME NEW k \in 1 .. n + 1, k < n + 1
      PROVE  Weight(sizes, ps[k]) + sizes[ps[k + 1][1]] > budget
  <2>1. k \in 1 .. n
    BY <1>3, <1>8
  <2>2. CASE k = n
    <3>1. s.done # <<>>
      BY <2>1, <2>2
    <3>2. Weight(sizes, s.done[n]) + sizes[s.now[1]] > budget
      BY <3>1, <1>1 DEF Closed
    <3> QED
      BY <2>1, <2>2, <3>2, <1>2
  <2>3. CASE k # n
    <3>1. k < n /\ k + 1 \in 1 .. n
      BY <2>1, <2>3, <1>3
    <3>2. ps[k] = s.done[k] /\ ps[k + 1] = s.done[k + 1]
      BY <2>1, <3>1, <1>2
    <3>3. Weight(sizes, s.done[k]) + sizes[s.done[k + 1][1]] > budget
      BY <2>1, <3>1, <1>1 DEF Fits
    <3> QED
      BY <3>2, <3>3
  <2> QED
    BY <2>2, <2>3
<1>9. Fits(ps, sizes, budget)
  BY <1>2, <1>7, <1>8 DEF Fits
<1> QED
  BY <1>1, <1>2, <1>5, <1>9 DEF ps

LEMMA OneRun ==
  ASSUME NEW x \in Nat
  PROVE  <<x>> \in Runs /\ ToSet(<<x>>) = {x} /\ <<x>> # <<>> /\ Len(<<x>>) = 1 /\ <<x>>[1] = x
<1>1. <<>> \in Runs /\ ToSet(<<>>) = {}
  BY DEF Runs, Rises, ToSet
<1>2. Append(<<>>, x) = <<x>>
  OBVIOUS
<1> QED
  BY <1>1, <1>2, RunAppend

LEMMA AddFills ==
  ASSUME NEW n \in Nat, NEW sizes \in [1 .. n -> Nat], NEW budget \in Nat,
         NEW i \in Nat, i + 1 \in 1 .. n, NEW s, Filled(s, sizes, budget, i)
  PROVE  Filled(AddSentence(s, sizes, i + 1, budget), sizes, budget, i + 1)
<1> DEFINE x == i + 1
           t == AddSentence(s, sizes, x, budget)
<1>1. /\ s = [done |-> s.done, now |-> s.now, used |-> s.used]
      /\ InRow(s.done) /\ Full(s.done) /\ Fits(s.done, sizes, budget)
      /\ s.now \in Runs /\ s.used = Weight(sizes, s.now)
      /\ \A k \in 1 .. Len(s.done) : Above(s.done[k], s.now)
      /\ \A q : (Reached(s.done, q) \/ q \in ToSet(s.now)) <=> q \in 1 .. i
      /\ (s.now = <<>>) <=> (i = 0)
      /\ i = 0 => s.done = <<>>
      /\ s.used <= budget \/ Len(s.now) <= 1
      /\ i # 0 => Closed(s.done, s.now, sizes, budget)
  BY DEF Filled
<1>2. x \in Nat /\ x # 0 /\ x \in 1 .. n /\ sizes[x] \in Nat
      /\ \A q \in 1 .. i : q < x /\ q \in 1 .. n /\ q \in 1 .. x
  OBVIOUS
<1>a. \A q : q \in 1 .. x <=> q \in 1 .. i \/ q = x
  OBVIOUS
<1>3. s.now \in Seq(1 .. n)
  <2>1. ToSet(s.now) \subseteq 1 .. n
    BY <1>1, <1>2
  <2> QED
    BY <2>1, <1>1, RunIn
<1>4. Weight(sizes, s.now) \in Nat
      /\ Weight(sizes, Append(s.now, x)) = Weight(sizes, s.now) + sizes[x]
  BY <1>2, <1>3, WeightLaw
<1>5. /\ Weight(sizes, <<x>>) = sizes[x]
      /\ <<x>> \in Runs /\ ToSet(<<x>>) = {x} /\ <<x>> # <<>> /\ Len(<<x>>) = 1 /\ <<x>>[1] = x
  <2>1. <<>> \in Seq(1 .. n) /\ Append(<<>>, x) = <<x>>
    OBVIOUS
  <2>2. Weight(sizes, <<>>) = 0 /\ Weight(sizes, Append(<<>>, x)) = Weight(sizes, <<>>) + sizes[x]
    BY <2>1, <1>2, WeightLaw
  <2> HIDE DEF x
  <2> QED
    BY <2>1, <2>2, <1>2, OneRun
<1> HIDE DEF x
<1>6. CASE s.now # <<>> /\ s.used + sizes[x] > budget
  <2> DEFINE ps == Append(s.done, s.now)
  <2>1. t = [done |-> ps, now |-> <<x>>, used |-> sizes[x]]
    BY <1>6 DEF AddSentence
  <2>2. i # 0
    BY <1>1, <1>6
  <2>3. /\ InRow(ps) /\ Full(ps) /\ Fits(ps, sizes, budget) /\ Len(ps) = Len(s.done) + 1
        /\ ps[Len(s.done) + 1] = s.now
        /\ \A q : Reached(ps, q) <=> q \in 1 .. i
    BY <2>2, CloseLaw
  <2> HIDE DEF ps
  <2>4. Closed(ps, <<x>>, sizes, budget)
    BY <2>3, <1>1, <1>5, <1>6 DEF Closed
  <2>5. \A k \in 1 .. Len(ps) : Above(ps[k], <<x>>)
    BY <2>3, <1>2, <1>5 DEF Above, Reached
  <2>6. t.done = ps /\ t.now = <<x>> /\ t.used = sizes[x]
        /\ t = [done |-> t.done, now |-> t.now, used |-> t.used]
    BY <2>1
  <2> HIDE DEF t
  <2>7. \A q : (Reached(t.done, q) \/ q \in ToSet(t.now)) <=> q \in 1 .. x
    BY <2>3, <2>6, <1>5, <1>a
  <2>8. Len(t.now) <= 1 /\ t.now # <<>> /\ t.now \in Runs
    BY <2>6, <1>5
  <2>9. Filled(t, sizes, budget, x)
    BY <2>3, <2>4, <2>5, <2>6, <2>7, <2>8, <1>2, <1>5 DEF Filled
  <2> QED
    BY <2>9 DEF t, x
<1>7. CASE ~ (s.now # <<>> /\ s.used + sizes[x] > budget)
  <2> DEFINE now == Append(s.now, x)
  <2>1. t = [s EXCEPT !.now = now, !.used = s.used + sizes[x]]
    BY <1>7 DEF AddSentence
  <2>2. t = [done |-> s.done, now |-> now, used |-> s.used + sizes[x]]
    BY <2>1, <1>1
  <2>3. t.done = s.done /\ t.now = now /\ t.used = s.used + sizes[x]
        /\ t = [done |-> t.done, now |-> t.now, used |-> t.used]
    BY <2>2
  <2>4. \A y \in ToSet(s.now) : y < x
    BY <1>1, <1>2
  <2>5. /\ now \in Runs /\ ToSet(now) = ToSet(s.now) \cup {x}
        /\ now # <<>> /\ Len(now) = Len(s.now) + 1
        /\ s.now # <<>> => now[1] = s.now[1]
    BY <2>4, <1>1, <1>2, RunAppend
  <2>6. t.used = Weight(sizes, now)
    BY <2>3, <1>1, <1>4
  <2> HIDE DEF now, t
  <2>7. \A k \in 1 .. Len(s.done) : Above(s.done[k], now)
    <3>1. \A k \in 1 .. Len(s.done) : \A q \in ToSet(s.done[k]) : q < x
      BY <1>1, <1>2 DEF Reached
    <3> QED
      BY <3>1, <2>5, <1>1 DEF Above
  <2>8. \A q : (Reached(t.done, q) \/ q \in ToSet(t.now)) <=> q \in 1 .. x
    BY <2>3, <2>5, <1>1, <1>a
  <2>9. t.used <= budget \/ Len(t.now) <= 1
    <3>1. CASE s.now = <<>>
      BY <3>1, <2>3, <2>5
    <3>2. CASE s.now # <<>>
      <4>1. ~ (s.used + sizes[x] > budget) /\ s.used \in Nat
        BY <3>2, <1>1, <1>4, <1>7
      <4> QED
        BY <4>1, <2>3, <1>2
    <3> QED
      BY <3>1, <3>2
  <2>10. Closed(t.done, t.now, sizes, budget)
    <3>1. CASE i = 0
      BY <3>1, <1>1, <2>3 DEF Closed
    <3>2. CASE i # 0
      <4>1. t.now[1] = s.now[1]
        BY <3>2, <1>1, <2>3, <2>5
      <4> QED
        BY <3>2, <4>1, <1>1, <2>3 DEF Closed
    <3> QED
      BY <3>1, <3>2
  <2>11. Filled(t, sizes, budget, x)
    BY <2>3, <2>5, <2>6, <2>7, <2>8, <2>9, <2>10, <1>1, <1>2 DEF Filled
  <2> QED
    BY <2>11 DEF t, x
<1> QED
  BY <1>6, <1>7

NothingFilled == [done |-> <<>>, now |-> <<>>, used |-> 0]
FillsTo(f, sizes, budget, m) ==
  /\ f[0] = NothingFilled
  /\ \A i \in 1 .. m : f[i] = AddSentence(f[i - 1], sizes, i, budget)
FillFcn(f, sizes, budget, m) ==
  f = [i \in 0 .. m |-> IF i = 0 THEN [done |-> <<>>, now |-> <<>>, used |-> 0]
                        ELSE AddSentence(f[i - 1], sizes, i, budget)]
FillEnd(s) == IF s.now = <<>> THEN s.done ELSE Append(s.done, s.now)

\* The recursive function of Prompts has its values.
LEMMA PromptSteps ==
  ASSUME NEW sizes, NEW budget, Len(sizes) \in Nat
  PROVE  \E f : /\ FillsTo(f, sizes, budget, Len(sizes))
                /\ Prompts(sizes, budget) = FillEnd(f[Len(sizes)])
<1> DEFINE n == Len(sizes)
           Add(s, i) == AddSentence(s, sizes, i, budget)
           Good == {m \in Nat : \E f : FillFcn(f, sizes, budget, m)}
<1>1. 0 \in Good
  <2> DEFINE f == [i \in 0 .. 0 |-> [done |-> <<>>, now |-> <<>>, used |-> 0]]
  <2>1. \A i \in 0 .. 0 : i = 0
    OBVIOUS
  <2>2. FillFcn(f, sizes, budget, 0)
    BY <2>1 DEF FillFcn
  <2> QED
    BY <2>2
<1>2. ASSUME NEW m \in Nat, m \in Good PROVE m + 1 \in Good
  <2>1. PICK f : FillFcn(f, sizes, budget, m)
    BY <1>2
  <2> DEFINE new == Add(f[m], m + 1)
             zero == [done |-> <<>>, now |-> <<>>, used |-> 0]
             g == [i \in 0 .. m + 1 |-> IF i = m + 1 THEN new ELSE f[i]]
             h == [i \in 0 .. m + 1 |-> IF i = 0 THEN zero ELSE Add(g[i - 1], i)]
  <2>2. \A i \in 0 .. m : f[i] = IF i = 0 THEN zero ELSE Add(f[i - 1], i)
    <3>1. f = [i \in 0 .. m |-> IF i = 0 THEN zero ELSE Add(f[i - 1], i)]
      BY <2>1, Zenon DEF FillFcn
    <3> HIDE DEF zero, Add
    <3> QED
      BY <3>1
  <2> HIDE DEF new, zero, Add
  <2>3. \A i \in 0 .. m + 1 : g[i] = IF i = m + 1 THEN new ELSE f[i]
    OBVIOUS
  <2>4. \A i \in 0 .. m + 1 : h[i] = IF i = 0 THEN zero ELSE Add(g[i - 1], i)
    OBVIOUS
  <2>5. DOMAIN g = 0 .. m + 1 /\ DOMAIN h = 0 .. m + 1
        /\ g = [i \in 0 .. m + 1 |-> g[i]] /\ h = [i \in 0 .. m + 1 |-> h[i]]
    OBVIOUS
  <2> HIDE DEF g
  <2>6. ASSUME NEW i \in 0 .. m + 1 PROVE g[i] = h[i]
    <3>1. CASE i = m + 1
      <4>1. m \in 0 .. m + 1 /\ i # 0 /\ i - 1 = m /\ m # m + 1
        BY <3>1
      <4>2. g[m] = f[m] /\ g[i] = new /\ h[i] = Add(g[m], i)
        BY <3>1, <4>1, <2>3, <2>4
      <4> QED
        BY <3>1, <4>2 DEF new
    <3>2. CASE i = 0
      BY <3>2, <2>2, <2>3, <2>4
    <3>3. CASE i # m + 1 /\ i # 0
      <4>1. i \in 0 .. m /\ i - 1 \in 0 .. m + 1 /\ i - 1 # m + 1
        BY <3>3
      <4>2. g[i] = f[i] /\ g[i - 1] = f[i - 1]
        BY <3>3, <4>1, <2>3
      <4>3. f[i] = Add(f[i - 1], i)
        BY <3>3, <4>1, <2>2
      <4>4. h[i] = Add(g[i - 1], i)
        BY <3>3, <2>4
      <4> QED
        BY <4>2, <4>3, <4>4
    <3> QED
      BY <3>1, <3>2, <3>3
  <2> HIDE DEF h
  <2>7. g = h
    BY <2>5, <2>6
  <2>8. FillFcn(g, sizes, budget, m + 1)
    BY <2>7, Zenon DEF FillFcn, h, zero, Add
  <2> QED
    BY <2>8
<1> HIDE DEF Good
<1>3. Nat \subseteq Good
  BY <1>1, <1>2, NatInd
<1>4. \E f : FillFcn(f, sizes, budget, n)
  BY <1>3 DEF Good
<1> DEFINE p == CHOOSE f : FillFcn(f, sizes, budget, n)
<1>5. FillFcn(p, sizes, budget, n)
  BY <1>4
<1>6. Prompts(sizes, budget) = FillEnd(p[n])
  BY Zenon DEF Prompts, FillEnd, FillFcn
<1> HIDE DEF p
<1> DEFINE zero == [done |-> <<>>, now |-> <<>>, used |-> 0]
<1>7. p = [i \in 0 .. n |-> IF i = 0 THEN zero ELSE Add(p[i - 1], i)]
  BY <1>5, Zenon DEF FillFcn
<1> HIDE DEF zero, Add
<1>8. \A i \in 0 .. n : p[i] = IF i = 0 THEN zero ELSE Add(p[i - 1], i)
  BY <1>7
<1>9. 0 \in 0 .. n /\ \A i \in 1 .. n : i \in 0 .. n /\ i # 0
  OBVIOUS
<1>10. p[0] = zero /\ \A i \in 1 .. n : p[i] = Add(p[i - 1], i)
  BY <1>8, <1>9
<1>11. FillsTo(p, sizes, budget, n)
  BY <1>10 DEF FillsTo, NothingFilled, zero, Add
<1> QED
  BY <1>6, <1>11

\* The prompts are the sentences, cut where a prompt is full.
LEMMA PromptsLaw ==
  ASSUME NEW n \in Nat \ {0}, NEW sizes \in [1 .. n -> Nat], NEW budget \in Nat
  PROVE  LET ps == Prompts(sizes, budget)
         IN /\ InRow(ps) /\ Full(ps) /\ Fits(ps, sizes, budget)
            /\ \A q : Reached(ps, q) <=> q \in 1 .. n
<1>1. Len(sizes) = n
  OBVIOUS
<1>2. PICK f : FillsTo(f, sizes, budget, n) /\ Prompts(sizes, budget) = FillEnd(f[n])
  BY <1>1, PromptSteps
<1> DEFINE T == {i \in Nat : i <= n => Filled(f[i], sizes, budget, i)}
<1>3. 0 \in T
  <2> DEFINE z == NothingFilled
  <2>1. z.done = <<>> /\ z.now = <<>> /\ z.used = 0
        /\ z = [done |-> z.done, now |-> z.now, used |-> z.used]
    BY DEF NothingFilled
  <2> HIDE DEF z
  <2>2. <<>> \in Seq(Runs) /\ Len(<<>>) = 0 /\ <<>> \in Runs /\ ToSet(<<>>) = {}
    BY DEF Runs, Rises, ToSet
  <2>3. \A k : k \notin 1 .. 0
    OBVIOUS
  <2>4. Weight(sizes, <<>>) = 0
    <3>1. <<>> \in Seq(1 .. n)
      OBVIOUS
    <3> QED
      BY <3>1, WeightLaw
  <2>5. InRow(z.done) /\ Full(z.done) /\ Fits(z.done, sizes, budget)
        /\ \A q : ~ Reached(z.done, q)
    BY <2>1, <2>2, <2>3 DEF InRow, Full, Fits, Reached
  <2>6. \A q : ~ (Reached(z.done, q) \/ q \in ToSet(z.now)) /\ q \notin 1 .. 0
    BY <2>1, <2>2, <2>3, <2>5
  <2>7. Filled(z, sizes, budget, 0)
    BY <2>1, <2>2, <2>3, <2>4, <2>5, <2>6 DEF Filled
  <2>8. f[0] = z
    BY <1>2 DEF FillsTo, z
  <2> QED
    BY <2>7, <2>8
<1>4. ASSUME NEW i \in Nat, i \in T PROVE i + 1 \in T
  <2> SUFFICES ASSUME i + 1 <= n PROVE Filled(f[i + 1], sizes, budget, i + 1)
    OBVIOUS
  <2>1. i + 1 \in 1 .. n /\ (i + 1) - 1 = i /\ i <= n
    OBVIOUS
  <2>2. Filled(f[i], sizes, budget, i)
    BY <1>4, <2>1
  <2>3. f[i + 1] = AddSentence(f[i], sizes, i + 1, budget)
    BY <1>2, <2>1 DEF FillsTo
  <2> QED
    BY <2>1, <2>2, <2>3, AddFills
<1> HIDE DEF T
<1>5. Nat \subseteq T
  BY <1>3, <1>4, NatInd
<1>6. Filled(f[n], sizes, budget, n)
  <2>1. n \in T /\ n <= n
    BY <1>5
  <2> QED
    BY <2>1 DEF T
<1> DEFINE s == f[n]
<1>7. s.now # <<>>
  BY <1>6 DEF Filled
<1>8. FillEnd(s) = Append(s.done, s.now)
  BY <1>7 DEF FillEnd
<1> HIDE DEF s
<1>9. LET ps == Append(s.done, s.now)
      IN /\ InRow(ps) /\ Full(ps) /\ Fits(ps, sizes, budget) /\ Len(ps) = Len(s.done) + 1
         /\ ps[Len(s.done) + 1] = s.now
         /\ \A q : Reached(ps, q) <=> q \in 1 .. n
  BY <1>6, CloseLaw DEF s
<1> QED
  BY <1>2, <1>8, <1>9 DEF s

LEMMA GroupsLaw ==
  ASSUME NEW prompt \in Runs, NEW answer
  PROVE  FlattenSeq(Groups_(prompt, answer)) = prompt /\ Full(Groups_(prompt, answer))
<1> DEFINE cuts == answer \cap 1 .. (Len(prompt) - 1)
           g == SplitBefore(prompt, {i \in DOMAIN prompt : i - 1 \in cuts})
<1>1. Groups_(prompt, answer) = g
  BY DEF Groups_
<1>2. Spans(g, ToSet(prompt)) /\ Full(g)
  BY SplitLaw
<1> HIDE DEF g
<1>3. InRow(g) /\ \A p : Reached(g, p) <=> p \in ToSet(prompt)
  BY <1>2 DEF Spans, Within, Reached
<1>4. FlattenSeq(g) \in Runs /\ \A p : p \in ToSet(FlattenSeq(g)) <=> Reached(g, p)
  BY <1>3, FlattenRow
<1>5. ToSet(FlattenSeq(g)) = ToSet(prompt)
  BY <1>3, <1>4
<1>6. FlattenSeq(g) = prompt
  BY <1>4, <1>5, RunOfSet
<1> QED
  BY <1>1, <1>2, <1>6

\* What CutsSound says of the prompts.
PromptsSound(p, sizes, budget, answer) ==
  LET groups(n) == Groups_(p[n], answer)
  IN /\ FlattenSeq([n \in DOMAIN p |-> FlattenSeq(groups(n))]) = Range_(1, Len(sizes))
     /\ \A n \in DOMAIN p :
          /\ Weight(sizes, p[n]) <= budget \/ Len(p[n]) = 1
          /\ n < Len(p) => Weight(sizes, p[n]) + sizes[p[n + 1][1]] > budget
          /\ \A g \in DOMAIN groups(n) : groups(n)[g] # <<>>

LEMMA PromptsHold ==
  ASSUME NEW n \in Nat \ {0}, NEW sizes \in [1 .. n -> Nat], NEW budget \in Nat, NEW answer
  PROVE  PromptsSound(Prompts(sizes, budget), sizes, budget, answer)
<1> DEFINE p == Prompts(sizes, budget)
           groups(k) == Groups_(p[k], answer)
           flat == [k \in DOMAIN p |-> FlattenSeq(groups(k))]
<1>1. /\ InRow(p) /\ Full(p) /\ Fits(p, sizes, budget)
      /\ \A q : Reached(p, q) <=> q \in 1 .. n
  BY PromptsLaw
<1> HIDE DEF p
<1>2. /\ p \in Seq(Runs) /\ Len(p) \in Nat /\ DOMAIN p = 1 .. Len(p)
      /\ \A k \in 1 .. Len(p) : p[k] \in Runs
  BY <1>1, RowType
<1>3. \A k \in 1 .. Len(p) : FlattenSeq(groups(k)) = p[k] /\ Full(groups(k))
  BY <1>2, GroupsLaw
<1>4. \A k \in 1 .. Len(p) : \A g \in DOMAIN groups(k) : groups(k)[g] # <<>>
  <2> TAKE k \in 1 .. Len(p)
  <2> DEFINE G == groups(k)
             cuts == answer \cap 1 .. (Len(p[k]) - 1)
  <2>1. Full(G)
    BY <1>3
  <2>2. Spans(G, ToSet(p[k]))
    BY <1>2, SplitLaw DEF Groups_
  <2> HIDE DEF G
  <2>3. DOMAIN G = 1 .. Len(G)
    BY <2>2, RowType DEF Spans
  <2>4. \A g \in DOMAIN G : G[g] # <<>>
    BY <2>1, <2>3 DEF Full
  <2> QED
    BY <2>4 DEF G
<1> HIDE DEF groups
<1>5. flat = p
  <2>1. p = [k \in DOMAIN p |-> p[k]]
    BY <1>2
  <2> QED
    BY <2>1, <1>2, <1>3
<1>6. FlattenSeq(p) = Range_(1, n)
  <2>1. FlattenSeq(p) \in Runs /\ \A q : q \in ToSet(FlattenSeq(p)) <=> Reached(p, q)
    BY <1>1, FlattenRow
  <2>2. 1 \in Nat /\ n \in Int /\ 1 <= n + 1
    OBVIOUS
  <2>3. Range_(1, n) \in Runs /\ ToSet(Range_(1, n)) = 1 .. n
    BY <2>2, RangeLaw
  <2>4. ToSet(FlattenSeq(p)) = ToSet(Range_(1, n))
    BY <2>1, <2>3, <1>1
  <2> QED
    BY <2>1, <2>3, <2>4, RunOfSet
<1>7. FlattenSeq(flat) = Range_(1, Len(sizes))
  <2>1. Len(sizes) = n
    OBVIOUS
  <2> HIDE DEF flat
  <2> QED
    BY <2>1, <1>5, <1>6
<1>8. \A k \in 1 .. Len(p) :
        /\ Weight(sizes, p[k]) <= budget \/ Len(p[k]) = 1
        /\ k < Len(p) => Weight(sizes, p[k]) + sizes[p[k + 1][1]] > budget
  BY <1>1 DEF Fits
<1> HIDE DEF flat
<1> QED
  BY <1>2, <1>4, <1>7, <1>8 DEF PromptsSound, p, flat, groups

-----------------------------------------------------------------------------
(* The header path.                                                        *)

\* The headers among the first j of h that none of them closed.
OpenAt(doc, h, j) ==
  {g \in {h[a] : a \in 1 .. j} :
     \A k \in 1 .. j : g < h[k] => ~ (Level(doc[h[k]]) <= Level(doc[g]))}

LEMMA PushedLaw ==
  ASSUME NEW doc, NEW path \in Seq(Nat), NEW h \in Nat
  PROVE  ToSet(Pushed(doc, path, h)) = {g \in ToSet(path) : ~ Pops(doc, g, h)} \cup {h}
<1> DEFINE I == {i \in DOMAIN path : ~ Pops(doc, path[i], h)}
           k == Kept(path, I)
<1>1. I \in SUBSET DOMAIN path
  OBVIOUS
<1>a. \A i \in DOMAIN path : i \in I <=> ~ Pops(doc, path[i], h)
  OBVIOUS
<1>2. Pushed(doc, path, h) = Append(k, h)
  BY DEF Pushed
<1> HIDE DEF I
<1>3. /\ k \in Seq(Nat)
      /\ \A x \in ToSet(k) : \E i \in I : x = path[i]
      /\ \A i \in I : path[i] \in ToSet(k)
  BY <1>1, KeptType
<1> HIDE DEF k
<1>4. ToSet(k) = {g \in ToSet(path) : ~ Pops(doc, g, h)}
  BY <1>1, <1>3, <1>a DEF ToSet
<1>5. ToSet(Append(k, h)) = ToSet(k) \cup {h}
  <2> DEFINE n == Len(k)
             t == Append(k, h)
  <2>1. n \in Nat /\ DOMAIN k = 1 .. n
    BY <1>3
  <2>2. DOMAIN t = 1 .. n + 1 /\ t[n + 1] = h /\ \A i \in 1 .. n : t[i] = k[i]
    BY <1>3, AppendProperties
  <2> HIDE DEF t, n
  <2>3. /\ \A i \in 1 .. n + 1 : i = n + 1 \/ i \in 1 .. n
        /\ \A i \in 1 .. n : i \in 1 .. n + 1
        /\ n + 1 \in 1 .. n + 1
    BY <2>1
  <2>4. ToSet(t) = ToSet(k) \cup {h}
    BY <2>1, <2>2, <2>3 DEF ToSet
  <2> QED
    BY <2>4 DEF t
<1> QED
  BY <1>2, <1>4, <1>5

LEMMA OpenLaw ==
  ASSUME NEW doc, NEW h \in Runs,
         \A i \in 1 .. Len(h) : doc[h[i]] \in Headers
  PROVE  ToSet(Breadcrumb(doc, h)) = OpenAt(doc, h, Len(h))
<1> DEFINE n == Len(h)
<1>1. /\ h \in Seq(Nat) /\ n \in Nat /\ \A i \in 1 .. n : h[i] \in Nat
      /\ \A i, j \in 1 .. n : i < j => h[i] < h[j]
  BY RunType
<1>2. PICK f \in [0 .. n -> Seq(Nat)] :
        /\ f[0] = <<>>
        /\ \A i \in 1 .. n : f[i] = Pushed(doc, f[i - 1], h[i])
        /\ Breadcrumb(doc, h) = f[n]
  BY <1>1, BreadcrumbSteps
<1>3. \A m : Level(m) \in {1, 2}
  BY DEF Level
<1> DEFINE T == {j \in Nat : j <= n => ToSet(f[j]) = OpenAt(doc, h, j)}
<1>4. 0 \in T
  <2>1. ToSet(f[0]) = {}
    BY <1>2 DEF ToSet
  <2>2. OpenAt(doc, h, 0) = {}
    BY DEF OpenAt
  <2> QED
    BY <2>1, <2>2
<1>5. ASSUME NEW j \in Nat, j \in T PROVE j + 1 \in T
  <2> SUFFICES ASSUME j + 1 <= n PROVE ToSet(f[j + 1]) = OpenAt(doc, h, j + 1)
    OBVIOUS
  <2>1. /\ j + 1 \in 1 .. n /\ (j + 1) - 1 = j /\ j <= n /\ j \in 0 .. n
        /\ \A a \in 1 .. j : a \in 1 .. n /\ a < j + 1 /\ a \in 1 .. j + 1
        /\ \A a \in 1 .. j + 1 : a = j + 1 \/ a \in 1 .. j
        /\ j + 1 \in 1 .. j + 1
    BY <1>1
  <2> DEFINE x == h[j + 1]
  <2>2. f[j] \in Seq(Nat) /\ x \in Nat /\ f[j + 1] = Pushed(doc, f[j], x)
    BY <2>1, <1>1, <1>2
  <2>3. ToSet(f[j]) = OpenAt(doc, h, j)
    BY <2>1, <1>5
  <2>4. ToSet(f[j + 1]) = {g \in OpenAt(doc, h, j) : ~ Pops(doc, g, x)} \cup {x}
    <3> HIDE DEF x
    <3> QED
      BY <2>2, <2>3, PushedLaw
  <2>5. \A a \in 1 .. j : h[a] < x /\ h[a] \in Nat
    BY <2>1, <1>1
  <2>6. \A g : Pops(doc, g, x) <=> Level(doc[x]) <= Level(doc[g])
    <3> TAKE g
    <3>1. Level(doc[x]) \in Int /\ Level(doc[g]) \in Int
      BY <1>3
    <3> QED
      BY <3>1 DEF Pops
  <2> HIDE DEF x
  <2>7. ASSUME NEW g \in OpenAt(doc, h, j), ~ Pops(doc, g, x) PROVE g \in OpenAt(doc, h, j + 1)
    <3>1. PICK a \in 1 .. j : g = h[a]
      BY <2>7 DEF OpenAt
    <3>2. \A k \in 1 .. j : g < h[k] => ~ (Level(doc[h[k]]) <= Level(doc[g]))
      BY <2>7 DEF OpenAt
    <3>3. ~ (Level(doc[h[j + 1]]) <= Level(doc[g]))
      BY <2>6, <2>7 DEF x
    <3>4. \A k \in 1 .. j + 1 : g < h[k] => ~ (Level(doc[h[k]]) <= Level(doc[g]))
      BY <2>1, <3>2, <3>3
    <3> QED
      BY <2>1, <3>1, <3>4 DEF OpenAt
  <2>8. x \in OpenAt(doc, h, j + 1)
    <3>1. \A k \in 1 .. j + 1 : ~ (x < h[k])
      BY <2>1, <2>2, <2>5 DEF x
    <3> QED
      BY <2>1, <3>1 DEF OpenAt, x
  <2>9. ASSUME NEW g \in OpenAt(doc, h, j + 1), g # x
        PROVE  g \in OpenAt(doc, h, j) /\ ~ Pops(doc, g, x)
    <3>1. PICK a \in 1 .. j + 1 : g = h[a]
      BY <2>9 DEF OpenAt
    <3>2. a \in 1 .. j /\ g < x
      BY <2>1, <2>5, <2>9, <3>1 DEF x
    <3>3. \A k \in 1 .. j + 1 : g < h[k] => ~ (Level(doc[h[k]]) <= Level(doc[g]))
      BY <2>9 DEF OpenAt
    <3>4. ~ (Level(doc[x]) <= Level(doc[g]))
      BY <2>1, <3>2, <3>3 DEF x
    <3> QED
      BY <2>1, <2>6, <3>1, <3>2, <3>3, <3>4 DEF OpenAt
  <2> QED
    BY <2>4, <2>7, <2>8, <2>9
<1> HIDE DEF T
<1>6. Nat \subseteq T
  BY <1>4, <1>5, NatInd
<1>7. n \in T /\ n <= n
  BY <1>1, <1>6
<1> QED
  BY <1>2, <1>7 DEF T

\* What ParentsHold says of a section's path.
PathHolds(doc, s) ==
  LET closes(g, k, h) == g < k /\ k <= h /\ doc[k] \in Headers
                           /\ Level(doc[k]) <= Level(doc[g])
  IN s.path # <<>> =>
       ToSet(s.path) =
         {g \in 1 .. s.start : doc[g] \in Headers /\
            \A k \in 1 .. Len(doc) : ~ closes(g, k, s.start)}

LEMMA PathLaw ==
  ASSUME NEW doc, Len(doc) \in Nat, DOMAIN doc = 1 .. Len(doc),
         NEW i \in 1 .. Len(HeadersOf(doc))
  PROVE  PathHolds(doc, ScopeOf(doc, i))
<1> DEFINE h == HeadersOf(doc)
           t == SubSeq(h, 1, i)
           path == Breadcrumb(doc, t)
           top == h[i]
           closes(g, k) == g < k /\ k <= top /\ doc[k] \in Headers
                             /\ Level(doc[k]) <= Level(doc[g])
           open == {g \in 1 .. top : doc[g] \in Headers /\ \A k \in 1 .. Len(doc) : ~ closes(g, k)}
<1>1. /\ h \in Runs /\ ToSet(h) = {p \in DOMAIN doc : doc[p] \in Headers}
      /\ \A a \in 1 .. Len(h) : h[a] \in 1 .. Len(doc) /\ doc[h[a]] \in Headers
  BY HeadersLaw
<1>2. ScopeOf(doc, i).path = path /\ ScopeOf(doc, i).start = top
  BY DEF ScopeOf
<1> HIDE DEF h
<1>3. /\ h \in Seq(Nat) /\ Len(h) \in Nat /\ \A a \in 1 .. Len(h) : h[a] \in Nat
      /\ \A a, b \in 1 .. Len(h) : a < b => h[a] < h[b]
      /\ \A x \in ToSet(h) : \E a \in 1 .. Len(h) : x = h[a]
  BY <1>1, RunType
<1>4. i \in 1 .. Len(h) /\ 1 \in 1 .. Len(h) /\ 1 <= i /\ i \in Nat
  BY <1>3 DEF h
<1>5. t \in Runs /\ Len(t) = i /\ \A a \in 1 .. i : t[a] = h[a] /\ a \in 1 .. Len(h)
  <2>1. t \in Runs
    BY <1>1, <1>4, PartLaw
  <2> QED
    BY <2>1, <1>3, <1>4
<1> HIDE DEF t
<1>6. ToSet(path) = OpenAt(doc, t, i)
  <2>1. \A a \in 1 .. Len(t) : doc[t[a]] \in Headers
    BY <1>1, <1>5
  <2> QED
    BY <2>1, <1>5, OpenLaw
<1>7. OpenAt(doc, t, i) = {g \in {h[a] : a \in 1 .. i} :
        \A k \in 1 .. i : g < h[k] => ~ (Level(doc[h[k]]) <= Level(doc[g]))}
  BY <1>5 DEF OpenAt
<1>8. \A a \in 1 .. i : h[a] \in 1 .. top /\ h[a] \in 1 .. Len(doc) /\ h[a] <= top
  <2> TAKE a \in 1 .. i
  <2>1. a = i \/ a < i
    BY <1>4
  <2>2. h[a] <= top /\ h[a] \in Nat /\ h[a] \in 1 .. Len(doc) /\ top \in Nat
    BY <2>1, <1>1, <1>3, <1>4, <1>5
  <2> QED
    BY <2>2
<1>9. ASSUME NEW g \in 1 .. Len(doc), g <= top, doc[g] \in Headers
      PROVE  \E a \in 1 .. i : g = h[a]
  <2>1. PICK a \in 1 .. Len(h) : g = h[a]
    BY <1>1, <1>3, <1>9
  <2>2. ~ (i < a)
    <3>1. i < a => h[i] < h[a]
      BY <1>3, <1>4
    <3>2. top \in Nat /\ g \in Nat
      BY <1>3, <1>4
    <3> QED
      BY <3>1, <3>2, <2>1, <1>9
  <2>3. a \in 1 .. i
    BY <2>2, <1>4
  <2> QED
    BY <2>1, <2>3
<1>10. top \in 1 .. Len(doc)
  BY <1>1, <1>4
<1> HIDE DEF top
<1>11. ASSUME NEW g \in OpenAt(doc, t, i) PROVE g \in open
  <2>1. PICK a \in 1 .. i : g = h[a]
    BY <1>7, <1>11
  <2>2. g \in 1 .. top /\ doc[g] \in Headers
    BY <2>1, <1>1, <1>5, <1>8
  <2>3. ASSUME NEW k \in 1 .. Len(doc), closes(g, k) PROVE FALSE
    <3>1. PICK b \in 1 .. i : k = h[b]
      BY <2>3, <1>9
    <3> QED
      BY <2>3, <3>1, <1>7, <1>11
  <2> QED
    BY <2>2, <2>3
<1>12. ASSUME NEW g \in open PROVE g \in OpenAt(doc, t, i)
  <2>1. g \in 1 .. Len(doc) /\ g <= top
    BY <1>10, <1>12
  <2>2. PICK a \in 1 .. i : g = h[a]
    BY <2>1, <1>9, <1>12
  <2>3. \A k \in 1 .. i : g < h[k] => ~ (Level(doc[h[k]]) <= Level(doc[g]))
    <3> SUFFICES ASSUME NEW k \in 1 .. i, g < h[k], Level(doc[h[k]]) <= Level(doc[g])
                 PROVE  FALSE
      OBVIOUS
    <3>1. h[k] \in 1 .. Len(doc) /\ h[k] <= top /\ doc[h[k]] \in Headers
      BY <1>1, <1>5, <1>8
    <3>2. closes(g, h[k])
      BY <3>1
    <3> QED
      BY <3>1, <3>2, <1>12
  <2> QED
    BY <2>2, <2>3, <1>7
<1>13. ToSet(path) = open
  BY <1>6, <1>11, <1>12
<1> HIDE DEF path
<1> QED
  BY <1>2, <1>13 DEF PathHolds

-----------------------------------------------------------------------------
(* The size of a text.                                                     *)

LEMMA CountOf ==
  ASSUME NEW doc, NEW s \in Seq(Nat)
  PROVE  /\ IsFiniteSet(Solid(doc, s)) /\ Count(doc, s) \in Nat /\ Count(doc, s) <= Len(s)
         /\ s = <<>> => Count(doc, s) = 0
<1> DEFINE n == Len(s)
<1>1. n \in Nat /\ DOMAIN s = 1 .. n
  OBVIOUS
<1>2. Solid(doc, s) \in SUBSET (1 .. n)
  BY <1>1 DEF Solid
<1> HIDE DEF n
<1>3. IsFiniteSet(1 .. n) /\ Cardinality(1 .. n) = n
  <2>1. IsFiniteSet(1 .. n) /\ Cardinality(1 .. n) = IF 1 > n THEN 0 ELSE n - 1 + 1
    BY <1>1, FS_Interval
  <2> QED
    BY <2>1, <1>1
<1>4. /\ IsFiniteSet(Solid(doc, s)) /\ Cardinality(Solid(doc, s)) <= n
      /\ Cardinality(Solid(doc, s)) \in Nat
  BY <1>2, <1>3, FS_Subset, FS_CardinalityType
<1> QED
  BY <1>1, <1>4 DEF Count, n

\* The tokens of two texts, one after the other, are those of both.
LEMMA CountJoin ==
  ASSUME NEW doc, NEW a \in Seq(Nat), NEW b \in Seq(Nat)
  PROVE  /\ a \o b \in Seq(Nat)
         /\ Count(doc, a \o b) = Count(doc, a) + Count(doc, b)
<1> DEFINE m == Len(a)
           n == Len(b)
           s == a \o b
           A == Solid(doc, a)
           B == Solid(doc, b)
           T == {i \in 1 .. m + n : i > m /\ i - m \in B}
           f == [j \in B |-> m + j]
<1>1. m \in Nat /\ n \in Nat /\ DOMAIN a = 1 .. m /\ DOMAIN b = 1 .. n
  OBVIOUS
<1>2. /\ s \in Seq(Nat) /\ Len(s) = m + n
      /\ \A i \in 1 .. m + n : s[i] = IF i <= m THEN a[i] ELSE b[i - m]
  BY ConcatProperties
<1>3. DOMAIN s = 1 .. m + n
  BY <1>2
<1> HIDE DEF s, m, n
<1>4. /\ A = {i \in 1 .. m : doc[a[i]] # "blank"} /\ B = {i \in 1 .. n : doc[b[i]] # "blank"}
      /\ Solid(doc, s) = {i \in 1 .. m + n : doc[s[i]] # "blank"}
  BY <1>1, <1>3 DEF Solid
<1>5. IsFiniteSet(A) /\ IsFiniteSet(B) /\ Cardinality(A) \in Nat /\ Cardinality(B) \in Nat
  BY CountOf DEF Count
<1> HIDE DEF A, B
<1>6. Solid(doc, s) = A \cup T
  <2>1. ASSUME NEW i \in 1 .. m + n PROVE i \in Solid(doc, s) <=> i \in A \cup T
    <3>1. CASE i <= m
      <4>1. i \in 1 .. m /\ s[i] = a[i] /\ i \notin T
        BY <3>1, <1>1, <1>2
      <4> QED
        BY <4>1, <1>4
    <3>2. CASE ~ (i <= m)
      <4>1. i \notin 1 .. m /\ i - m \in 1 .. n /\ s[i] = b[i - m] /\ i > m
        BY <3>2, <1>1, <1>2
      <4> QED
        BY <4>1, <1>4
    <3> QED
      BY <3>1, <3>2
  <2>2. \A i \in 1 .. m : i \in 1 .. m + n
    BY <1>1
  <2> QED
    BY <2>1, <2>2, <1>4
<1>7. A \cap T = {}
  BY <1>1, <1>4
<1>8. f \in Bijection(B, T)
  <2>1. \A j \in B : m + j \in T /\ (m + j) - m = j
    BY <1>1, <1>4
  <2>2. f \in [B -> T] /\ \A j \in B : f[j] = m + j
    BY <2>1
  <2>3. \A j, k \in B : f[j] = f[k] => j = k
    BY <2>2, <1>1, <1>4
  <2>4. \A i \in T : \E j \in B : f[j] = i
    <3> TAKE i \in T
    <3>1. i - m \in B /\ m + (i - m) = i
      BY <1>1
    <3> QED
      BY <3>1, <2>2
  <2> HIDE DEF f, T
  <2> QED
    BY <2>2, <2>3, <2>4 DEF Bijection, Injection, Surjection, IsInjective
<1> HIDE DEF T, f
<1>9. IsFiniteSet(T) /\ Cardinality(T) = Cardinality(B)
  BY <1>5, <1>8, FS_Bijection DEF ExistsBijection
<1>10. Cardinality(A \cup T) = Cardinality(A) + Cardinality(T)
  <2>1. Cardinality(A \cup T) = Cardinality(A) + Cardinality(T) - Cardinality(A \cap T)
    BY <1>5, <1>9, FS_Union
  <2>2. Cardinality(A \cap T) = 0
    BY <1>7, FS_EmptySet
  <2> QED
    BY <2>1, <2>2, <1>5, <1>9
<1> QED
  BY <1>2, <1>6, <1>9, <1>10 DEF Count, A, B, s

LEMMA CountLast ==
  ASSUME NEW doc, NEW s \in Seq(Nat), NEW n \in Nat
  PROVE  Count(doc, LastOf(s, n)) <= n
<1> DEFINE t == LastOf(s, n)
<1>1. t \in Seq(Nat) /\ Len(t) = IF Len(s) > n THEN n ELSE Len(s)
  BY LastOfType
<1> HIDE DEF t
<1>2. Count(doc, t) \in Nat /\ Count(doc, t) <= Len(t)
  BY <1>1, CountOf
<1>3. Len(s) \in Nat
  OBVIOUS
<1> QED
  BY <1>1, <1>2, <1>3 DEF t

-----------------------------------------------------------------------------
(* The sizes of packed chunks.                                             *)

\* A chunk as it was packed: one that is too large is one unit.
Made(doc, c, ord, x) ==
  /\ x.ord = ord /\ Len(x.parts) = 1 /\ x.parts[1].size = Count(doc, x.text)
  /\ Count(doc, x.text) > c.size => x.parts[1].units = 1
Makes(doc, c, ord, xs) == \A i \in 1 .. Len(xs) : Made(doc, c, ord, xs[i])

\* Between two units the buffer fits, and there is an overlap without a unit
\* only after a chunk that is too large.
Sized(doc, c, ord, s) ==
  /\ Makes(doc, c, ord, s.out) /\ Solids(s.out)
  /\ Count(doc, Render(s)) <= c.size
  /\ s.buf = <<>> /\ s.prefix # <<>> =>
       c.overlap > 0 /\ s.out # <<>> /\ Count(doc, s.out[Len(s.out)].text) > c.size

LEMMA AppendEach ==
  ASSUME NEW R, NEW xs \in Seq(R), NEW u \in R
  PROVE  LET ys == Append(xs, u)
         IN /\ ys # <<>> /\ Len(ys) = Len(xs) + 1 /\ ys[Len(ys)] = u /\ Len(xs) \in Nat
            /\ \A i \in 1 .. Len(ys) : (i = Len(ys) /\ ys[i] = u)
                                        \/ (i \in 1 .. Len(xs) /\ ys[i] = xs[i])
<1> DEFINE ys == Append(xs, u)
           n == Len(xs)
<1>1. /\ n \in Nat /\ Len(ys) = n + 1 /\ ys[n + 1] = u
      /\ \A i \in 1 .. n : ys[i] = xs[i]
  BY AppendProperties
<1> HIDE DEF ys
<1>2. ys # <<>>
  <2>1. Len(ys) # 0
    BY <1>1
  <2> QED
    BY <2>1
<1> HIDE DEF n
<1>3. \A i \in 1 .. n + 1 : i = n + 1 \/ i \in 1 .. n
  BY <1>1
<1> QED
  BY <1>1, <1>2, <1>3 DEF ys, n

\* What is left of a flushed state fits.
LEMMA FlushLeaves ==
  ASSUME NEW doc, NEW c, IsConf(c), NEW ord \in Int,
         NEW s \in PackState, Ordered(s.buf), Solids(s.buf)
  PROVE  LET t == Flush(doc, s, c, ord)
         IN /\ t.buf = <<>> /\ Count(doc, Render(t)) <= c.size
            /\ t.prefix # <<>> => c.overlap > 0
<1> DEFINE text == Render(s)
           last == LastOf(Stripped(doc, text), c.overlap)
           prefix == IF c.overlap = 0 THEN <<>> ELSE last
           t == Flush(doc, s, c, ord)
<1>1. t.buf = <<>> /\ t.prefix = prefix
  BY DEF Flush
<1>2. /\ c.overlap \in Nat /\ c.size \in Nat /\ c.overlap <= c.size
      /\ (c.overlap # 0 => c.overlap > 0)
  BY DEF IsConf
<1>3. Stripped(doc, text) \in Seq(Nat)
  BY StateType, SolidType
<1>4. Render(t) = t.prefix \o TextOf(t.buf)
  BY DEF Render
<1> HIDE DEF text, t
<1>5. last \in Seq(Nat) /\ Count(doc, last) <= c.overlap
  BY <1>2, <1>3, CountLast, LastOfType
<1> HIDE DEF last
<1>6. /\ prefix \in Seq(Nat) /\ Count(doc, prefix) <= c.size /\ Count(doc, prefix) \in Nat
      /\ prefix # <<>> => c.overlap > 0
  <2>1. CASE c.overlap = 0
    <3>1. prefix = <<>> /\ prefix \in Seq(Nat)
      BY <2>1
    <3> HIDE DEF prefix
    <3>2. Count(doc, prefix) = 0
      BY <3>1, CountOf
    <3> QED
      BY <3>1, <3>2, <1>2
  <2>2. CASE c.overlap # 0
    <3>1. prefix = last
      BY <2>2
    <3>2. Count(doc, last) \in Nat
      BY <1>5, CountOf
    <3> QED
      BY <2>2, <3>1, <3>2, <1>2, <1>5
  <2> QED
    BY <2>1, <2>2
<1> HIDE DEF prefix
<1>7. TextOf(t.buf) \in Seq(Nat) /\ TextOf(t.buf) = <<>>
  <2>1. <<>> \in Seq(UnitRecs) /\ Solids(<<>>)
    BY DEF Solids
  <2> QED
    BY <2>1, <1>1, TextLaw
<1>8. Count(doc, Render(t)) = Count(doc, prefix) + Count(doc, TextOf(t.buf))
      /\ Count(doc, TextOf(t.buf)) = 0
  BY <1>1, <1>4, <1>6, <1>7, CountJoin, CountOf
<1>9. Count(doc, Render(t)) = Count(doc, prefix)
  BY <1>6, <1>8
<1> QED
  BY <1>1, <1>6, <1>9 DEF t

\* What a flush adds.
LEMMA FlushMakes ==
  ASSUME NEW doc, NEW c, IsConf(c), NEW ord \in Int,
         NEW s \in PackState, Ordered(s.buf), Solids(s.buf), Makes(doc, c, ord, s.out),
         Render(s) # <<>>, Count(doc, Render(s)) <= c.size \/ Len(s.buf) = 1
  PROVE  LET t == Flush(doc, s, c, ord)
             n == Len(s.out)
         IN /\ t.out \in Seq(ChunkRecs) /\ t.out # <<>> /\ Len(t.out) = n + 1 /\ n \in Nat
            /\ Makes(doc, c, ord, t.out)
            /\ t.out[n + 1].text = Render(s)
            /\ (t.out[n + 1].own = <<>> <=> s.buf = <<>>)
            /\ \A i \in 1 .. n : t.out[i] = s.out[i]
<1> DEFINE text == Render(s)
           t == Flush(doc, s, c, ord)
           part == [units |-> Len(s.buf), size |-> Count(doc, text)]
           chunk == [text |-> text, own |-> OwnOf(s.buf), ord |-> ord, parts |-> <<part>>]
           n == Len(s.out)
<1>1. chunk \in ChunkRecs /\ t.out = Append(s.out, chunk)
  BY FlushLaw
<1>2. s.out \in Seq(ChunkRecs) /\ s.buf \in Seq(UnitRecs) /\ text \in Seq(Nat)
  BY StateType
<1>3. OwnOf(s.buf) = <<>> <=> s.buf = <<>>
  BY <1>2, OwnFull
<1>4. c.size \in Nat /\ Count(doc, text) \in Nat
  BY <1>2, CountOf DEF IsConf
<1>5. chunk.text = text /\ chunk.own = OwnOf(s.buf) /\ chunk.ord = ord
      /\ chunk.parts = <<part>> /\ part.units = Len(s.buf) /\ part.size = Count(doc, text)
  OBVIOUS
<1> HIDE DEF chunk, part, text, t, n
<1>6. Made(doc, c, ord, chunk)
  <2>1. Len(chunk.parts) = 1 /\ chunk.parts[1] = part
    BY <1>5
  <2>2. Count(doc, text) > c.size => Len(s.buf) = 1
    BY <1>4 DEF text
  <2> QED
    BY <2>1, <2>2, <1>5 DEF Made
<1>7. /\ Append(s.out, chunk) \in Seq(ChunkRecs) /\ Append(s.out, chunk) # <<>>
      /\ Len(Append(s.out, chunk)) = n + 1 /\ n \in Nat
      /\ Append(s.out, chunk)[n + 1] = chunk
      /\ \A i \in 1 .. n : Append(s.out, chunk)[i] = s.out[i]
      /\ \A i \in 1 .. n + 1 : i \in 1 .. n \/ i = n + 1
  <2>1. n \in Nat
    BY <1>2 DEF n
  <2>2. \A i \in 1 .. n + 1 : i \in 1 .. n \/ i = n + 1
    BY <2>1
  <2> QED
    BY <2>1, <2>2, <1>1, <1>2, AppendProperties DEF n
<1>8. Makes(doc, c, ord, t.out)
  <2>1. \A i \in 1 .. n : Made(doc, c, ord, s.out[i])
    BY DEF Makes, n
  <2> QED
    BY <2>1, <1>1, <1>6, <1>7 DEF Makes
<1>9. t.out[n + 1].text = text /\ (t.out[n + 1].own = <<>> <=> s.buf = <<>>)
  BY <1>1, <1>3, <1>5, <1>7
<1> QED
  BY <1>1, <1>7, <1>8, <1>9 DEF t, n, text

\* With a unit in the buffer, which is the only one when it does not fit.
Loaded(doc, c, ord, s) ==
  /\ Makes(doc, c, ord, s.out) /\ Solids(s.out) /\ s.buf # <<>>
  /\ Over(doc, s, c) => Len(s.buf) = 1

LEMMA PackingType ==
  ASSUME NEW s, NEW runs, NEW n, Packing(s, runs, n)
  PROVE  /\ s \in PackState /\ Ordered(s.buf) /\ Solids(s.buf)
         /\ s.out \in Seq(ChunkRecs) /\ s.buf \in Seq(UnitRecs) /\ s.prefix \in Seq(Nat)
         /\ s = [out |-> s.out, buf |-> s.buf, prefix |-> s.prefix]
         /\ Render(s) \in Seq(Nat) /\ (s.buf # <<>> => Render(s) # <<>>)
<1>1. s \in PackState /\ Ordered(s.buf) /\ Solids(s.buf)
  BY DEF Packing
<1> QED
  BY <1>1, StateType

LEMMA PushForm ==
  ASSUME NEW s \in PackState, NEW u \in UnitRecs
  PROVE  /\ Push(s, u).out = s.out /\ Push(s, u).prefix = s.prefix
         /\ Push(s, u).buf = Append(s.buf, u) /\ Push(s, u).buf # <<>>
         /\ s.buf = <<>> => Len(Push(s, u).buf) = 1
<1>1. s.buf \in Seq(UnitRecs)
      /\ s = [out |-> s.out, buf |-> s.buf, prefix |-> s.prefix]
  BY DEF PackState
<1>2. /\ Push(s, u).out = s.out /\ Push(s, u).prefix = s.prefix
      /\ Push(s, u).buf = Append(s.buf, u)
  BY <1>1 DEF Push
<1>3. Append(s.buf, u) # <<>> /\ Len(Append(s.buf, u)) = Len(s.buf) + 1
  BY <1>1, AppendEach
<1>4. s.buf = <<>> => Len(s.buf) = 0
  OBVIOUS
<1> QED
  BY <1>2, <1>3, <1>4

LEMMA FlushSolids ==
  ASSUME NEW doc, NEW c, IsConf(c), NEW ord \in Int,
         NEW s, NEW runs, NEW n, Packing(s, runs, n), Makes(doc, c, ord, s.out),
         Solids(s.out), s.buf # <<>>, Count(doc, Render(s)) <= c.size \/ Len(s.buf) = 1
  PROVE  LET t == Flush(doc, s, c, ord)
         IN /\ Makes(doc, c, ord, t.out) /\ Solids(t.out) /\ t.out # <<>>
            /\ t.out[Len(t.out)].text = Render(s)
<1> DEFINE t == Flush(doc, s, c, ord)
           m == Len(s.out)
<1>1. /\ s \in PackState /\ Ordered(s.buf) /\ Solids(s.buf) /\ Render(s) # <<>>
  BY PackingType
<1>2. /\ t.out \in Seq(ChunkRecs) /\ t.out # <<>> /\ Len(t.out) = m + 1 /\ m \in Nat
      /\ Makes(doc, c, ord, t.out)
      /\ t.out[m + 1].text = Render(s)
      /\ (t.out[m + 1].own = <<>> <=> s.buf = <<>>)
      /\ \A i \in 1 .. m : t.out[i] = s.out[i]
  BY <1>1, FlushMakes
<1> HIDE DEF t
<1>3. \A i \in 1 .. m : s.out[i].own # <<>>
  BY DEF Solids
<1> HIDE DEF m
<1>4. \A i \in 1 .. m + 1 : i = m + 1 \/ i \in 1 .. m
  BY <1>2
<1>5. Solids(t.out)
  BY <1>2, <1>3, <1>4 DEF Solids
<1> QED
  BY <1>2, <1>5 DEF t

LEMMA AddSized ==
  ASSUME NEW doc, NEW c, IsConf(c), NEW ord \in Int,
         NEW s, NEW runs, NEW n \in Nat, Packing(s, runs, n), Sized(doc, c, ord, s),
         NEW units, UnitsFor(units, runs), n + 1 \in 1 .. Len(runs)
  PROVE  Sized(doc, c, ord, AddUnit(doc, s, units[n + 1], c, ord))
<1> DEFINE u == units[n + 1]
           f == Flush(doc, s, c, ord)
           p == Push(s, u)
           q == Push(f, u)
           t == IF s.buf # <<>> /\ Over(doc, p, c) THEN q ELSE p
           bare == IF Over(doc, t, c) THEN [t EXCEPT !.prefix = <<>>] ELSE t
           r == Flush(doc, bare, c, ord)
<1>1. AddUnit(doc, s, u, c, ord) = IF Over(doc, bare, c) THEN r ELSE bare
  BY DEF AddUnit
<1>2. u \in UnitRecs
  BY DEF UnitsFor
<1>3. /\ Makes(doc, c, ord, s.out) /\ Solids(s.out) /\ Count(doc, Render(s)) <= c.size
  BY DEF Sized
<1>4. Packing(p, runs, n + 1) /\ Packing(f, runs, n)
  BY PushPacks, FlushPacks
<1>5. Packing(q, runs, n + 1)
  BY <1>4, PushPacks
<1>6. f.buf = <<>>
  BY DEF Flush
<1>7. s \in PackState /\ f \in PackState
  BY <1>4, PackingType
<1>8. /\ p.out = s.out /\ p.buf # <<>> /\ (s.buf = <<>> => Len(p.buf) = 1)
      /\ q.out = f.out /\ q.buf # <<>> /\ Len(q.buf) = 1
  <2> HIDE DEF f, u
  <2>1. /\ p.out = s.out /\ p.buf # <<>> /\ (s.buf = <<>> => Len(p.buf) = 1)
    BY <1>2, <1>7, PushForm
  <2>2. q.out = f.out /\ q.buf # <<>> /\ Len(q.buf) = 1
    BY <1>2, <1>6, <1>7, PushForm
  <2> QED
    BY <2>1, <2>2
<1>9. s.buf # <<>> => Makes(doc, c, ord, f.out) /\ Solids(f.out)
  BY <1>3, FlushSolids
<1> HIDE DEF f, p, q
<1>10. Packing(t, runs, n + 1) /\ Loaded(doc, c, ord, t)
  <2>1. CASE s.buf # <<>> /\ Over(doc, p, c)
    <3>1. t = q
      BY <2>1
    <3> HIDE DEF t
    <3> QED
      BY <2>1, <3>1, <1>5, <1>8, <1>9 DEF Loaded
  <2>2. CASE ~ (s.buf # <<>> /\ Over(doc, p, c))
    <3>1. t = p
      BY <2>2
    <3>2. Over(doc, p, c) => Len(p.buf) = 1
      BY <2>2, <1>8
    <3> HIDE DEF t
    <3> QED
      BY <3>1, <3>2, <1>3, <1>4, <1>8 DEF Loaded
  <2> QED
    BY <2>1, <2>2
<1> HIDE DEF t
<1>11. Packing(bare, runs, n + 1) /\ Loaded(doc, c, ord, bare)
  <2>1. CASE Over(doc, t, c)
    <3>1. bare = [t EXCEPT !.prefix = <<>>]
      BY <2>1
    <3>2. bare.out = t.out /\ bare.buf = t.buf
      <4>1. t = [out |-> t.out, buf |-> t.buf, prefix |-> t.prefix]
        BY <1>10, PackingType
      <4> QED
        BY <3>1, <4>1
    <3>3. Packing(bare, runs, n + 1)
      BY <1>10, <3>1, BarePacks
    <3> HIDE DEF bare
    <3> QED
      BY <2>1, <3>2, <3>3, <1>10 DEF Loaded
  <2>2. CASE ~ Over(doc, t, c)
    <3>1. bare = t
      BY <2>2
    <3> QED
      BY <3>1, <1>10
  <2> QED
    BY <2>1, <2>2
<1> HIDE DEF bare
<1>12. /\ bare \in PackState /\ Ordered(bare.buf) /\ Solids(bare.buf)
       /\ Render(bare) \in Seq(Nat) /\ Render(bare) # <<>>
  BY <1>11, PackingType DEF Loaded
<1>13. Over(doc, bare, c) <=> Count(doc, Render(bare)) > c.size
  BY DEF Over
<1>14. CASE Over(doc, bare, c)
  <2>1. /\ Makes(doc, c, ord, r.out) /\ Solids(r.out) /\ r.out # <<>>
        /\ r.out[Len(r.out)].text = Render(bare)
    BY <1>11, <1>14, FlushSolids DEF Loaded
  <2>2. /\ Count(doc, Render(r)) <= c.size /\ (r.prefix # <<>> => c.overlap > 0)
    BY <1>12, FlushLeaves
  <2> HIDE DEF r
  <2>3. Sized(doc, c, ord, r)
    BY <2>1, <2>2, <1>13, <1>14 DEF Sized
  <2> QED
    BY <2>3, <1>1, <1>14 DEF u
<1>15. CASE ~ Over(doc, bare, c)
  <2>1. Count(doc, Render(bare)) <= c.size
    <3>1. Count(doc, Render(bare)) \in Nat /\ c.size \in Nat
      BY <1>12, CountOf DEF IsConf
    <3> QED
      BY <3>1, <1>13, <1>15
  <2>2. Sized(doc, c, ord, bare)
    BY <2>1, <1>11 DEF Sized, Loaded
  <2> QED
    BY <2>2, <1>1, <1>15 DEF u
<1> QED
  BY <1>14, <1>15

\* In what was packed only a chunk behind one that is too large has nothing
\* of its own.
Huge(doc, c, x) == Count(doc, x.text) > c.size
Spills(doc, c, xs) ==
  \A i \in 1 .. Len(xs) : xs[i].own = <<>> =>
    c.overlap > 0 /\ i > 1 /\ Huge(doc, c, xs[i - 1])

LEMMA PackSized ==
  ASSUME NEW doc, NEW c, IsConf(c), NEW ord \in Int,
         NEW units, NEW runs, UnitsFor(units, runs)
  PROVE  LET out == Pack(doc, units, c, ord)
         IN Makes(doc, c, ord, out) /\ Spills(doc, c, out)
<1> DEFINE n == Len(units)
<1>1. n \in Nat /\ n = Len(runs)
  BY DEF UnitsFor
<1>2. PICK f : /\ PacksTo(f, doc, units, c, ord, n)
               /\ Pack(doc, units, c, ord) = Flush(doc, f[n], c, ord).out
  BY <1>1, PackSteps
<1> DEFINE T == {i \in Nat : i <= n => Packing(f[i], runs, i) /\ Sized(doc, c, ord, f[i])}
<1>3. 0 \in T
  <2> DEFINE z == NothingPacked
  <2>1. z.out = <<>> /\ z.buf = <<>> /\ z.prefix = <<>>
        /\ z = [out |-> <<>>, buf |-> <<>>, prefix |-> <<>>]
    BY DEF NothingPacked
  <2>2. <<>> \in Seq(ChunkRecs) /\ <<>> \in Seq(UnitRecs) /\ <<>> \in Seq(Nat)
    OBVIOUS
  <2> HIDE DEF z
  <2>3. z \in PackState
    BY <2>1, <2>2 DEF PackState
  <2>4. \A i : i \notin 1 .. Len(z.out) /\ i \notin 1 .. Len(z.buf) /\ i \notin 1 .. 0
    BY <2>1
  <2>5. Packing(z, runs, 0)
    BY <2>3, <2>4 DEF Packing, Ordered, Solids, Has
  <2>6. Sized(doc, c, ord, z)
    <3>1. TextOf(z.buf) \in Seq(Nat) /\ TextOf(z.buf) = <<>>
      BY <2>1, <2>2, <2>4, TextLaw DEF Solids
    <3>2. Render(z) = z.prefix \o TextOf(z.buf)
      BY DEF Render
    <3>3. Count(doc, Render(z)) = Count(doc, z.prefix) + Count(doc, TextOf(z.buf))
          /\ Count(doc, z.prefix) = 0 /\ Count(doc, TextOf(z.buf)) = 0
      BY <2>1, <2>2, <3>1, <3>2, CountJoin, CountOf
    <3>4. Count(doc, Render(z)) <= c.size
      BY <3>3 DEF IsConf
    <3> QED
      BY <2>1, <2>4, <3>4 DEF Sized, Makes, Solids
  <2>7. f[0] = z
    BY <1>2 DEF PacksTo, z
  <2> QED
    BY <2>5, <2>6, <2>7
<1>4. ASSUME NEW i \in Nat, i \in T PROVE i + 1 \in T
  <2> SUFFICES ASSUME i + 1 <= n
               PROVE  Packing(f[i + 1], runs, i + 1) /\ Sized(doc, c, ord, f[i + 1])
    OBVIOUS
  <2>1. i + 1 \in 1 .. Len(runs) /\ i + 1 \in 1 .. n /\ (i + 1) - 1 = i /\ i <= n
    BY <1>1
  <2>2. Packing(f[i], runs, i) /\ Sized(doc, c, ord, f[i])
    BY <1>4, <2>1
  <2>3. f[i + 1] = AddUnit(doc, f[i], units[i + 1], c, ord)
    BY <1>2, <2>1 DEF PacksTo
  <2> QED
    BY <2>1, <2>2, <2>3, AddPacks, AddSized
<1> HIDE DEF T
<1>5. Nat \subseteq T
  BY <1>3, <1>4, NatInd
<1> DEFINE s == f[n]
           t == Flush(doc, s, c, ord)
           m == Len(s.out)
<1>6. Packing(s, runs, n) /\ Sized(doc, c, ord, s)
  BY <1>1, <1>5 DEF T
<1> HIDE DEF s, n
<1>7. /\ s \in PackState /\ Ordered(s.buf) /\ Solids(s.buf) /\ Render(s) \in Seq(Nat)
      /\ s.prefix \in Seq(Nat) /\ s.buf \in Seq(UnitRecs)
  BY <1>6, PackingType
<1>8. /\ Makes(doc, c, ord, s.out) /\ \A i \in 1 .. m : s.out[i].own # <<>>
      /\ Count(doc, Render(s)) <= c.size
      /\ s.buf = <<>> /\ s.prefix # <<>> =>
           c.overlap > 0 /\ s.out # <<>> /\ Count(doc, s.out[m].text) > c.size
  BY <1>6 DEF Sized, Solids
<1>9. CASE Render(s) = <<>>
  <2>1. t.out = s.out
    BY <1>9, <1>7, FlushLaw
  <2> HIDE DEF t, m
  <2>2. Spills(doc, c, t.out)
    BY <2>1, <1>8 DEF Spills, m
  <2> QED
    BY <2>1, <2>2, <1>2, <1>8 DEF t, s, n
<1>10. CASE Render(s) # <<>>
  <2>1. /\ Len(t.out) = m + 1 /\ m \in Nat
        /\ Makes(doc, c, ord, t.out)
        /\ (t.out[m + 1].own = <<>> <=> s.buf = <<>>)
        /\ \A i \in 1 .. m : t.out[i] = s.out[i]
    BY <1>7, <1>8, <1>10, FlushMakes
  <2>2. s.buf = <<>> => s.prefix # <<>>
    <3> SUFFICES ASSUME s.buf = <<>>, s.prefix = <<>> PROVE FALSE
      OBVIOUS
    <3>1. TextOf(s.buf) = <<>>
      BY <1>7, TextLaw
    <3>2. Render(s) = <<>> \o <<>>
      BY <3>1 DEF Render
    <3> QED
      BY <3>2, <1>10
  <2>3. s.out # <<>> => m # 0
    <3>1. s.out \in Seq(ChunkRecs)
      BY <1>6, PackingType
    <3> QED
      BY <3>1
  <2> HIDE DEF t, m
  <2>4. ASSUME NEW i \in 1 .. m + 1, t.out[i].own = <<>>
        PROVE  c.overlap > 0 /\ i > 1 /\ Huge(doc, c, t.out[i - 1])
    <3>1. i = m + 1
      <4>1. i = m + 1 \/ i \in 1 .. m
        BY <2>1
      <4> QED
        BY <4>1, <2>1, <2>4, <1>8
    <3>2. s.buf = <<>> /\ s.prefix # <<>>
      BY <2>1, <2>2, <2>4, <3>1
    <3>3. c.overlap > 0 /\ s.out # <<>> /\ Count(doc, s.out[m].text) > c.size
      BY <3>2, <1>8
    <3>4. m \in 1 .. m /\ i > 1 /\ i - 1 = m
      BY <2>1, <2>3, <3>1, <3>3
    <3>5. t.out[i - 1] = s.out[m]
      BY <2>1, <3>4
    <3> QED
      BY <3>3, <3>4, <3>5 DEF Huge
  <2>5. Spills(doc, c, t.out)
    BY <2>1, <2>4 DEF Spills
  <2> QED
    BY <2>1, <2>5, <1>2 DEF t, s, n
<1> QED
  BY <1>9, <1>10

LEMMA FlatEach ==
  ASSUME NEW R, NEW F \in Seq(Seq(R)), NEW k \in 1 .. Len(FlattenSeq(F))
  PROVE  \E n \in 1 .. Len(F) : \E j \in 1 .. Len(F[n]) : FlattenSeq(F)[k] = F[n][j]
<1> DEFINE f == FlattenSeq(F)
<1>1. f \in Seq(R) /\ Listed(f, F, Len(F))
  BY FlattenLaw
<1>2. k \in 1 .. Len(f)
  OBVIOUS
<1> HIDE DEF f
<1>3. PICK row, col : Lays(f, F, Len(F), row, col)
  BY <1>1 DEF Listed
<1>4. PICK n \in 1 .. Len(F) : n = row[k]
  BY <1>2, <1>3 DEF Lays
<1>5. PICK j \in 1 .. Len(F[n]) : j = col[k]
  BY <1>2, <1>3, <1>4 DEF Lays
<1>6. f[k] = F[n][j]
  BY <1>2, <1>3, <1>4, <1>5 DEF Lays
<1> QED
  BY <1>6 DEF f

\* In a row after the other, the place before one that is not the first of its
\* row has what is before it in the row.
LEMMA FlatSpills ==
  ASSUME NEW doc, NEW c, NEW R, NEW F \in Seq(Seq(R)),
         \A n \in 1 .. Len(F) : Spills(doc, c, F[n])
  PROVE  Spills(doc, c, FlattenSeq(F))
<1> DEFINE f == FlattenSeq(F)
           m == Len(F)
<1>1. f \in Seq(R) /\ Listed(f, F, m)
  BY FlattenLaw
<1> HIDE DEF f
<1>2. PICK row, col : Lays(f, F, m, row, col)
  BY <1>1 DEF Listed
<1>3. /\ \A k \in 1 .. Len(f) : row[k] \in 1 .. m /\ col[k] \in 1 .. Len(F[row[k]])
      /\ \A k \in 1 .. Len(f) : f[k] = F[row[k]][col[k]]
      /\ \A k, l \in 1 .. Len(f) : k < l =>
           row[k] < row[l] \/ (row[k] = row[l] /\ col[k] < col[l])
      /\ \A i \in 1 .. m : \A j \in 1 .. Len(F[i]) :
           \E k \in 1 .. Len(f) : row[k] = i /\ col[k] = j
  BY <1>2 DEF Lays
<1>4. Len(f) \in Nat /\ m \in Nat /\ \A i \in 1 .. m : Len(F[i]) \in Nat
  BY <1>1
<1>5. \A k \in 1 .. Len(f) : row[k] \in Int /\ col[k] \in Int
  BY <1>3, <1>4
<1> SUFFICES ASSUME NEW k \in 1 .. Len(f), f[k].own = <<>>
             PROVE  c.overlap > 0 /\ k > 1 /\ Huge(doc, c, f[k - 1])
  BY DEF Spills, f
<1>6. PICK i \in 1 .. m : i = row[k]
  BY <1>3
<1>7. PICK j \in 1 .. Len(F[i]) : j = col[k]
  BY <1>3, <1>6
<1>8. F[i][j].own = <<>>
  BY <1>3, <1>6, <1>7
<1>9. c.overlap > 0 /\ j > 1 /\ Huge(doc, c, F[i][j - 1])
  BY <1>8 DEF Spills
<1>10. j - 1 \in 1 .. Len(F[i])
  BY <1>4, <1>9
<1>11. PICK l \in 1 .. Len(f) : row[l] = i /\ col[l] = j - 1
  BY <1>3, <1>10
<1>12. l < k
  <2>1. ~ (k < l)
    <3>1. k < l => row[k] < row[l] \/ (row[k] = row[l] /\ col[k] < col[l])
      BY <1>3
    <3> QED
      BY <3>1, <1>4, <1>6, <1>7, <1>11
  <2>2. k # l
    BY <1>4, <1>7, <1>11
  <2> QED
    BY <2>1, <2>2, <1>4
<1>13. l = k - 1
  <2> SUFFICES ASSUME l # k - 1 PROVE FALSE
    OBVIOUS
  <2>1. k - 1 \in 1 .. Len(f) /\ l < k - 1 /\ k - 1 < k
    BY <1>4, <1>12
  <2> DEFINE a == row[k - 1]
             b == col[k - 1]
  <2>2. /\ i < a \/ (i = a /\ j - 1 < b)
        /\ a < i \/ (a = i /\ b < j)
        /\ a \in Int /\ b \in Int
    <3>1. row[l] < row[k - 1] \/ (row[l] = row[k - 1] /\ col[l] < col[k - 1])
      BY <2>1, <1>3
    <3>2. row[k - 1] < row[k] \/ (row[k - 1] = row[k] /\ col[k - 1] < col[k])
      BY <2>1, <1>3
    <3>3. a \in Int /\ b \in Int
      BY <2>1, <1>5
    <3> QED
      BY <3>1, <3>2, <3>3, <1>6, <1>7, <1>11
  <2> HIDE DEF a, b
  <2> QED
    BY <2>2, <1>4
<1>14. f[k - 1] = F[i][j - 1]
  <2>1. f[l] = F[row[l]][col[l]]
    BY <1>3
  <2>2. F[row[l]][col[l]] = F[i][j - 1]
    BY <1>11
  <2> QED
    BY <2>1, <2>2, <1>13
<1>15. k > 1
  BY <1>4, <1>12, <1>13
<1> QED
  BY <1>9, <1>14, <1>15

\* A leaf is from one section, whose body has its own places, or from none.
WholeBody(doc) == Strip(doc, Range_(1, Len(doc)))
InSection(doc, x, n) ==
  /\ n \in Nat /\ n \in 1 .. Len(Sections(doc)) /\ Sections(doc)[n].body # <<>>
  /\ x.ord = n - 1 /\ ToSet(x.own) \subseteq ToSet(Sections(doc)[n].body)
Homed(doc, x) ==
  IF x.ord = NoSection THEN ToSet(x.own) \subseteq ToSet(WholeBody(doc))
  ELSE \E n : InSection(doc, x, n)

\* What merge_small_chunks is given.
Packs(doc, c, chunks) ==
  /\ chunks \in Seq(ChunkRecs) /\ Ordered(chunks)
  /\ \A k \in 1 .. Len(chunks) : Made(doc, c, chunks[k].ord, chunks[k]) /\ Homed(doc, chunks[k])
  /\ Spills(doc, c, chunks)

\* The places between two that are not blank.
Between(doc, s, p) ==
  \E x, y \in ToSet(s) : doc[x] # "blank" /\ doc[y] # "blank" /\ x <= p /\ p <= y

LEMMA StripBetween ==
  ASSUME NEW doc, NEW s \in Runs
  PROVE  \A p : p \in ToSet(Strip(doc, s)) <=> p \in ToSet(s) /\ Between(doc, s, p)
<1> DEFINE I == Solid(doc, s)
           at == Ascending(I)
           k == Len(at)
<1>1. /\ s \in Seq(Nat) /\ Len(s) \in Nat /\ DOMAIN s = 1 .. Len(s)
      /\ \A i \in 1 .. Len(s) : s[i] \in Nat /\ s[i] \in ToSet(s)
      /\ \A i, j \in 1 .. Len(s) : i < j => s[i] < s[j]
      /\ \A x \in ToSet(s) : \E i \in 1 .. Len(s) : x = s[i]
  BY RunType
<1>2. I \in SUBSET DOMAIN s /\ I = {i \in 1 .. Len(s) : doc[s[i]] # "blank"}
  BY <1>1 DEF Solid
<1> HIDE DEF I
<1>3. at \in Runs /\ ToSet(at) = I
  BY <1>1, <1>2, IndicesFinite, AscendingLaw
<1>4. Strip(doc, s) = IF at = <<>> THEN <<>> ELSE SubSeq(s, at[1], at[k])
  BY DEF Strip, I
<1> HIDE DEF at
<1>5. /\ at \in Seq(Nat) /\ k \in Nat
      /\ \A i \in 1 .. k : at[i] \in I
      /\ \A i, j \in 1 .. k : i < j => at[i] < at[j]
      /\ \A x \in I : \E i \in 1 .. k : x = at[i]
  BY <1>3, RunType
<1>6. CASE at = <<>>
  <2>1. I = {} /\ Strip(doc, s) = <<>>
    <3>1. k = 0
      BY <1>6
    <3>2. Strip(doc, s) = <<>>
      BY <1>4, <1>6
    <3> QED
      BY <3>1, <3>2, <1>5
  <2>2. ToSet(Strip(doc, s)) = {}
    BY <2>1 DEF ToSet
  <2>3. \A p : ~ Between(doc, s, p)
    BY <2>1, <1>1, <1>2 DEF Between
  <2> QED
    BY <2>2, <2>3
<1>7. CASE at # <<>>
  <2> DEFINE a == at[1]
             b == at[k]
             t == SubSeq(s, a, b)
  <2>1. 1 \in 1 .. k /\ k \in 1 .. k
    BY <1>5, <1>7
  <2>2. a \in I /\ b \in I
    BY <2>1, <1>5
  <2>3. \A i \in I : a <= i /\ i <= b
    <3> TAKE i \in I
    <3>1. PICK j \in 1 .. k : i = at[j]
      BY <1>5
    <3>2. (1 = j \/ 1 < j) /\ (j = k \/ j < k)
      BY <1>5
    <3>3. a <= at[j] /\ at[j] <= b
      BY <3>2, <2>1, <1>5
    <3> QED
      BY <3>1, <3>3
  <2>4. Strip(doc, s) = t
    BY <1>4, <1>7
  <2> HIDE DEF a, b
  <2>5. a \in 1 .. Len(s) /\ b \in 1 .. Len(s) /\ a <= b
        /\ doc[s[a]] # "blank" /\ doc[s[b]] # "blank"
    BY <2>2, <2>3, <1>2
  <2>6. ToSet(t) = {s[i] : i \in a .. b}
    BY <2>5, PartLaw
  <2> HIDE DEF t
  <2>7. ASSUME NEW p, p \in ToSet(t) PROVE p \in ToSet(s) /\ Between(doc, s, p)
    <3>1. PICK i \in a .. b : p = s[i]
      BY <2>6, <2>7
    <3>2. i \in 1 .. Len(s) /\ (a = i \/ a < i) /\ (i = b \/ i < b)
      BY <2>5, <1>1
    <3>3. s[a] <= p /\ p <= s[b]
      BY <3>1, <3>2, <2>5, <1>1
    <3> QED
      BY <3>1, <3>2, <3>3, <2>5, <1>1 DEF Between
  <2>8. ASSUME NEW p, p \in ToSet(s), Between(doc, s, p) PROVE p \in ToSet(t)
    <3>1. PICK i \in 1 .. Len(s) : p = s[i]
      BY <2>8, <1>1
    <3>2. PICK x \in ToSet(s), y \in ToSet(s) :
            doc[x] # "blank" /\ doc[y] # "blank" /\ x <= p /\ p <= y
      BY <2>8 DEF Between
    <3>3. PICK u \in 1 .. Len(s) : x = s[u]
      BY <1>1
    <3>4. PICK v \in 1 .. Len(s) : y = s[v]
      BY <1>1
    <3>5. u \in I /\ v \in I
      BY <3>2, <3>3, <3>4, <1>2
    <3>6. a <= u /\ v <= b
      BY <3>5, <2>3
    <3>7. u <= i /\ i <= v
      <4>1. (i < u => s[i] < s[u]) /\ (v < i => s[v] < s[i])
        BY <1>1
      <4>2. s[i] \in Nat /\ s[u] \in Nat /\ s[v] \in Nat
        BY <1>1
      <4>3. i \in Nat /\ u \in Nat /\ v \in Nat
        BY <1>1
      <4> QED
        BY <4>1, <4>2, <4>3, <3>1, <3>2, <3>3, <3>4
    <3>8. i \in a .. b
      BY <3>6, <3>7, <2>5
    <3> QED
      BY <3>1, <3>8, <2>6
  <2> QED
    BY <2>4, <2>7, <2>8
<1> QED
  BY <1>6, <1>7

-----------------------------------------------------------------------------
(* The sizes of merged chunks.                                             *)

Fit(doc, c, x) ==
  /\ Len(x.parts) # 0 /\ x.parts[Len(x.parts)].size <= Count(doc, x.text)
  /\ Huge(doc, c, x) => Len(x.parts) = 1 /\ x.parts[1].units = 1

\* A small chunk was left as it is because it did not fit with the next one.
Merged(doc, c, xs) ==
  /\ \A k \in 1 .. Len(xs) : Fit(doc, c, xs[k]) /\ Homed(doc, xs[k])
  /\ \A k \in 1 .. Len(xs) - 1 :
       xs[k].ord = xs[k + 1].ord /\ Small(doc, xs[k], c) =>
         Count(doc, xs[k].text) + Count(doc, xs[k + 1].text) > c.size
  /\ Spills(doc, c, xs)

\* After i chunks; one that is too large is still there as it was.
MergedTo(doc, c, chunks, i, out) ==
  /\ Merging(out, chunks, i) /\ Merged(doc, c, out)
  /\ i >= 1 /\ Huge(doc, c, chunks[i]) => out[Len(out)] = chunks[i]

LEMMA TokensType ==
  ASSUME NEW doc, NEW x \in ChunkRecs
  PROVE  Count(doc, x.text) \in Nat
BY ChunkType, CountOf

LEMMA MadeFits ==
  ASSUME NEW doc, NEW c, NEW x \in ChunkRecs, Made(doc, c, x.ord, x)
  PROVE  Fit(doc, c, x)
<1>1. Count(doc, x.text) \in Nat
  BY TokensType
<1> QED
  BY <1>1 DEF Made, Fit, Huge

LEMMA JoinFits ==
  ASSUME NEW doc, NEW c, NEW a \in ChunkRecs, NEW b \in ChunkRecs, Above(a.own, b.own),
         Fit(doc, c, a), Fit(doc, c, b), Homed(doc, a), Homed(doc, b), a.ord = b.ord
  PROVE  LET j == Join(a, b)
         IN /\ j \in ChunkRecs /\ j.ord = a.ord
            /\ Count(doc, j.text) = Count(doc, a.text) + Count(doc, b.text)
            /\ Len(j.parts) # 0 /\ j.parts[Len(j.parts)] = b.parts[Len(b.parts)]
            /\ b.parts[Len(b.parts)].size <= Count(doc, b.text)
            /\ j.parts[Len(j.parts)].size <= Count(doc, j.text)
            /\ Homed(doc, j) /\ (j.own = <<>> => a.own = <<>>)
<1> DEFINE j == Join(a, b)
           m == Len(a.parts)
           n == Len(b.parts)
<1>1. /\ a.text \in Seq(Nat) /\ a.parts \in Seq(Parts_) /\ a.own \in Runs
      /\ b.text \in Seq(Nat) /\ b.parts \in Seq(Parts_) /\ b.own \in Runs
  BY ChunkType
<1>2. /\ j \in ChunkRecs /\ j.own = a.own \o b.own
      /\ ToSet(j.own) = ToSet(a.own) \cup ToSet(b.own)
  BY JoinType
<1>3. j.ord = a.ord /\ j.text = a.text \o b.text /\ j.parts = a.parts \o b.parts
  BY DEF Join
<1> HIDE DEF j
<1>4. Count(doc, j.text) = Count(doc, a.text) + Count(doc, b.text)
  BY <1>1, <1>3, CountJoin
<1>5. m \in Nat /\ n \in Nat /\ n # 0 /\ b.parts[n].size <= Count(doc, b.text)
  BY <1>1 DEF Fit
<1>6. b.parts[n] \in Parts_
  BY <1>1, <1>5
<1>7. Len(j.parts) = m + n /\ j.parts[m + n] = b.parts[n]
  <2> HIDE DEF m, n
  <2>1. m + n \in 1 .. m + n /\ ~ (m + n <= m) /\ (m + n) - m = n
    BY <1>5
  <2>2. /\ Len(a.parts \o b.parts) = m + n
        /\ \A i \in 1 .. m + n :
             (a.parts \o b.parts)[i] = IF i <= m THEN a.parts[i] ELSE b.parts[i - m]
    BY <1>1, ConcatProperties DEF m, n
  <2> QED
    BY <2>1, <2>2, <1>3
<1>8. b.parts[n].size \in Nat
  BY <1>6 DEF Parts_
<1>9. Count(doc, a.text) \in Nat /\ Count(doc, b.text) \in Nat
  BY TokensType
<1> HIDE DEF m, n
<1>10. /\ m + n # 0 /\ b.parts[n].size <= Count(doc, j.text)
  BY <1>4, <1>5, <1>8, <1>9
<1>11. Homed(doc, j)
  <2>1. CASE a.ord = NoSection
    BY <2>1, <1>2, <1>3 DEF Homed
  <2>2. CASE a.ord # NoSection
    <3>1. PICK i : InSection(doc, a, i)
      BY <2>2 DEF Homed
    <3>2. PICK k : InSection(doc, b, k)
      BY <2>2 DEF Homed
    <3>3. i = k
      <4>1. i \in Nat /\ a.ord = i - 1
        BY <3>1 DEF InSection
      <4>2. k \in Nat /\ b.ord = k - 1
        BY <3>2 DEF InSection
      <4>3. a.ord \in Int /\ b.ord = a.ord
        BY ChunkType
      <4>4. i = a.ord + 1
        BY <4>1, <4>3
      <4>5. k = a.ord + 1
        BY <4>2, <4>3
      <4> QED
        BY <4>4, <4>5
    <3>4. InSection(doc, j, i)
      BY <3>1, <3>2, <3>3, <1>2, <1>3 DEF InSection
    <3> QED
      BY <2>2, <3>4, <1>3 DEF Homed
  <2> QED
    BY <2>1, <2>2
<1>12. j.own = <<>> => a.own = <<>>
  <2>1. a.own \in Seq(Nat) /\ b.own \in Seq(Nat)
    BY <1>1, RunType
  <2> DEFINE x == Len(a.own)
             y == Len(b.own)
  <2>2. Len(j.own) = x + y
    BY <2>1, <1>2, ConcatProperties
  <2>3. x \in Nat /\ y \in Nat
    BY <2>1
  <2> HIDE DEF x, y
  <2> SUFFICES ASSUME j.own = <<>> PROVE x = 0
    BY <2>1 DEF x
  <2>4. Len(j.own) = 0
    OBVIOUS
  <2> QED
    BY <2>2, <2>3, <2>4
<1> QED
  BY <1>2, <1>3, <1>4, <1>5, <1>7, <1>10, <1>11, <1>12 DEF j, m, n

\* The last of the first k takes u in: what holds of the others still does.
TakenIn(doc, c, xs, k, u, ys) ==
  /\ Len(ys) = k /\ ys[k] = Join(xs[k], u) /\ ys[k] \in ChunkRecs
  /\ Count(doc, ys[k].text) = Count(doc, xs[k].text) + Count(doc, u.text)
  /\ ys[k].parts[Len(ys[k].parts)] = u.parts[Len(u.parts)]
  /\ Len(ys[k].parts) # 0
  /\ u.parts[Len(u.parts)].size <= Count(doc, u.text)
  /\ ys[k].parts[Len(ys[k].parts)].size <= Count(doc, ys[k].text)
  /\ ys[k].ord = xs[k].ord
  /\ \A i \in 1 .. k - 1 : ys[i] = xs[i] /\ Fit(doc, c, ys[i])
  /\ \A i \in 1 .. k : Homed(doc, ys[i])
  /\ \A i \in 1 .. k - 1 :
       ys[i].ord = ys[i + 1].ord /\ Small(doc, ys[i], c) =>
         Count(doc, ys[i].text) + Count(doc, ys[i + 1].text) > c.size
  /\ Spills(doc, c, ys)

LEMMA JoinedSizes ==
  ASSUME NEW doc, NEW c, c.size \in Nat, NEW xs \in Seq(ChunkRecs), Ordered(xs),
         Merged(doc, c, xs),
         NEW k \in 1 .. Len(xs), NEW u \in ChunkRecs, Fit(doc, c, u), Homed(doc, u),
         xs[k].ord = u.ord, Before(SubSeq(xs, 1, k), u)
  PROVE  TakenIn(doc, c, xs, k, u, Joined(xs, k, u))
<1> DEFINE ys == Joined(xs, k, u)
           a == xs[k]
<1>0. \A i \in 1 .. k : Above(xs[i].own, u.own)
  <2>1. Len(SubSeq(xs, 1, k)) = k /\ \A i \in 1 .. k : SubSeq(xs, 1, k)[i] = xs[i]
    OBVIOUS
  <2> QED
    BY <2>1 DEF Before
<1>1. /\ ys \in Seq(ChunkRecs) /\ Len(ys) = k /\ ys[k] = Join(a, u)
      /\ \A i \in 1 .. k - 1 : ys[i] = xs[i]
  BY <1>0, JoinedLaw
<1>2. /\ Len(xs) \in Nat /\ k \in Nat /\ k \in 1 .. k /\ a \in ChunkRecs
      /\ \A i \in 1 .. k : i \in 1 .. Len(xs) /\ (i = k \/ i \in 1 .. k - 1)
      /\ \A i \in 1 .. k - 1 : i \in 1 .. Len(xs) - 1 /\ i \in 1 .. k
  OBVIOUS
<1> HIDE DEF ys
<1>3. /\ \A i \in 1 .. Len(xs) : Fit(doc, c, xs[i]) /\ Homed(doc, xs[i])
      /\ \A i \in 1 .. Len(xs) - 1 :
           xs[i].ord = xs[i + 1].ord /\ Small(doc, xs[i], c) =>
             Count(doc, xs[i].text) + Count(doc, xs[i + 1].text) > c.size
      /\ Spills(doc, c, xs)
  BY DEF Merged
<1>4. /\ Join(a, u) \in ChunkRecs /\ Join(a, u).ord = a.ord
      /\ Count(doc, Join(a, u).text) = Count(doc, a.text) + Count(doc, u.text)
      /\ Len(Join(a, u).parts) # 0
      /\ Join(a, u).parts[Len(Join(a, u).parts)] = u.parts[Len(u.parts)]
      /\ u.parts[Len(u.parts)].size <= Count(doc, u.text)
      /\ Join(a, u).parts[Len(Join(a, u).parts)].size <= Count(doc, Join(a, u).text)
      /\ Homed(doc, Join(a, u)) /\ (Join(a, u).own = <<>> => a.own = <<>>)
  <2>1. Above(a.own, u.own) /\ Fit(doc, c, a) /\ Homed(doc, a) /\ a.ord = u.ord
    BY <1>0, <1>2, <1>3
  <2> HIDE DEF a
  <2> QED
    BY <2>1, <1>2, JoinFits
<1>5. ASSUME NEW i \in 1 .. k - 1, ys[i].ord = ys[i + 1].ord, Small(doc, ys[i], c)
      PROVE  Count(doc, ys[i].text) + Count(doc, ys[i + 1].text) > c.size
  <2>1. ys[i] = xs[i] /\ i \in 1 .. Len(xs) - 1 /\ i + 1 \in 1 .. k
    BY <1>1, <1>2
  <2>2. CASE i + 1 = k
    <3>1. ys[i + 1].ord = xs[i + 1].ord
      BY <2>2, <1>1, <1>4
    <3>2. Count(doc, xs[i].text) + Count(doc, a.text) > c.size
      BY <2>1, <2>2, <3>1, <1>3, <1>5
    <3>3. Count(doc, ys[i + 1].text) = Count(doc, a.text) + Count(doc, u.text)
      BY <2>2, <1>1, <1>4
    <3>4. /\ Count(doc, a.text) \in Nat /\ Count(doc, u.text) \in Nat
          /\ Count(doc, xs[i].text) \in Nat
      <4>1. xs[i] \in ChunkRecs
        BY <2>1
      <4> QED
        BY <4>1, <1>2, TokensType
    <3> QED
      BY <2>1, <3>2, <3>3, <3>4
  <2>3. CASE i + 1 # k
    <3>1. i + 1 \in 1 .. k - 1
      BY <2>1, <2>3
    <3>2. ys[i + 1] = xs[i + 1]
      BY <3>1, <1>1
    <3> QED
      BY <2>1, <3>2, <1>3, <1>5
  <2> QED
    BY <2>2, <2>3
<1>6. ASSUME NEW i \in 1 .. k, ys[i].own = <<>>
      PROVE  c.overlap > 0 /\ i > 1 /\ Huge(doc, c, ys[i - 1])
  <2>1. xs[i].own = <<>>
    <3>1. CASE i = k
      BY <3>1, <1>1, <1>4, <1>6
    <3>2. CASE i \in 1 .. k - 1
      BY <3>2, <1>1, <1>6
    <3> QED
      BY <3>1, <3>2, <1>2
  <2>2. c.overlap > 0 /\ i > 1 /\ Huge(doc, c, xs[i - 1])
    BY <2>1, <1>2, <1>3 DEF Spills
  <2>3. i - 1 \in 1 .. k - 1
    BY <2>2
  <2>4. ys[i - 1] = xs[i - 1]
    BY <2>3, <1>1
  <2> QED
    BY <2>2, <2>4
<1>7. Spills(doc, c, ys)
  BY <1>1, <1>6 DEF Spills
<1>8. \A i \in 1 .. k : Homed(doc, ys[i])
  BY <1>1, <1>2, <1>3, <1>4
<1>9. \A i \in 1 .. k - 1 : Fit(doc, c, ys[i])
  BY <1>1, <1>2, <1>3
<1> QED
  BY <1>1, <1>4, <1>5, <1>7, <1>8, <1>9 DEF ys, TakenIn

LEMMA PacksType ==
  ASSUME NEW doc, NEW c, NEW chunks, Packs(doc, c, chunks), NEW k \in 1 .. Len(chunks)
  PROVE  /\ chunks[k] \in ChunkRecs /\ Fit(doc, c, chunks[k]) /\ Homed(doc, chunks[k])
         /\ Count(doc, chunks[k].text) \in Nat
<1>1. chunks[k] \in ChunkRecs
      /\ Made(doc, c, chunks[k].ord, chunks[k]) /\ Homed(doc, chunks[k])
  BY DEF Packs
<1> QED
  BY <1>1, MadeFits, TokensType

LEMMA AbsorbSized ==
  ASSUME NEW doc, NEW c, c.size \in Nat, NEW chunks, Packs(doc, c, chunks),
         NEW i \in Nat, i + 1 \in 1 .. Len(chunks), NEW out,
         MergedTo(doc, c, chunks, i, out)
  PROVE  MergedTo(doc, c, chunks, i + 1, Absorb(doc, out, chunks[i + 1], c))
<1> DEFINE u == chunks[i + 1]
           n == Len(out)
           t == Absorb(doc, out, u, c)
<1>1. /\ chunks \in Seq(ChunkRecs) /\ Ordered(chunks) /\ Spills(doc, c, chunks)
  BY DEF Packs
<1>2. /\ Merging(out, chunks, i) /\ Merged(doc, c, out)
      /\ i >= 1 /\ Huge(doc, c, chunks[i]) => out[n] = chunks[i]
  BY DEF MergedTo
<1>3. Merging(t, chunks, i + 1)
  BY <1>1, <1>2, AbsorbMerges
<1>4. /\ out \in Seq(ChunkRecs) /\ Ordered(out) /\ n \in Nat /\ (out = <<>> <=> i = 0)
  BY <1>2 DEF Merging
<1>5. u \in ChunkRecs /\ Fit(doc, c, u) /\ Homed(doc, u) /\ Count(doc, u.text) \in Nat
  BY PacksType
<1>6. Before(out, u)
  <2>1. \A p : Has(out, p) <=> \E k \in 1 .. i : p \in ToSet(chunks[k].own)
    BY <1>2 DEF Merging
  <2>2. \A k \in 1 .. i : k \in 1 .. Len(chunks) /\ k < i + 1
    OBVIOUS
  <2>3. \A k \in 1 .. i : Above(chunks[k].own, u.own)
    BY <2>2, <1>1 DEF Ordered
  <2> QED
    BY <2>1, <2>3 DEF Before, Above, Has
<1>7. u.own = <<>> => /\ c.overlap > 0 /\ i >= 1 /\ Huge(doc, c, chunks[i])
  <2>1. u.own = <<>> => c.overlap > 0 /\ i + 1 > 1 /\ Huge(doc, c, chunks[(i + 1) - 1])
    BY <1>1 DEF Spills
  <2>2. (i + 1) - 1 = i /\ (i + 1 > 1 => i >= 1)
    OBVIOUS
  <2> QED
    BY <2>1, <2>2
<1>a. u = chunks[i + 1] /\ n = Len(out)
  OBVIOUS
<1> HIDE DEF u, n
<1>8. /\ \A k \in 1 .. n : Fit(doc, c, out[k]) /\ Homed(doc, out[k])
      /\ \A k \in 1 .. n - 1 :
           out[k].ord = out[k + 1].ord /\ Small(doc, out[k], c) =>
             Count(doc, out[k].text) + Count(doc, out[k + 1].text) > c.size
      /\ Spills(doc, c, out)
  BY <1>2, <1>a DEF Merged
<1>9. out # <<>> => n \in 1 .. n /\ Last(out) = out[n] /\ Front(out) = SubSeq(out, 1, n - 1)
  BY <1>4, <1>a, LastFront
<1>10. out # <<>> => out[n] \in ChunkRecs /\ Count(doc, out[n].text) \in Nat
                     /\ Above(out[n].own, u.own)
  <2> SUFFICES ASSUME out # <<>>
               PROVE  out[n] \in ChunkRecs /\ Count(doc, out[n].text) \in Nat
                      /\ Above(out[n].own, u.own)
    OBVIOUS
  <2>1. out[n] \in ChunkRecs
    BY <1>4, <1>9, <1>a
  <2>2. Above(out[n].own, u.own)
    BY <1>6, <1>9, <1>a DEF Before
  <2> QED
    BY <2>1, <2>2, TokensType
<1>11. CASE out # <<>> /\ Absorbs(doc, Last(out), u, c)
  <2> DEFINE ys == Joined(out, n, u)
  <2>1. t = ys
    BY <1>11, <1>9 DEF Absorb, Joined
  <2>2. out[n].ord = u.ord /\ Count(doc, Join(out[n], u).text) <= c.size
    BY <1>9, <1>11 DEF Absorbs
  <2>3. Before(SubSeq(out, 1, n), u)
    <3>1. Len(SubSeq(out, 1, n)) = n /\ \A k \in 1 .. n : SubSeq(out, 1, n)[k] = out[k]
      BY <1>4, <1>a
    <3> QED
      BY <3>1, <1>6, <1>a DEF Before
  <2>4. /\ Len(ys) = n /\ ys[n] = Join(out[n], u) /\ ys[n] \in ChunkRecs
        /\ Count(doc, ys[n].text) = Count(doc, out[n].text) + Count(doc, u.text)
        /\ Len(ys[n].parts) # 0
        /\ ys[n].parts[Len(ys[n].parts)].size <= Count(doc, ys[n].text)
        /\ \A k \in 1 .. n - 1 : ys[k] = out[k] /\ Fit(doc, c, ys[k])
        /\ \A k \in 1 .. n : Homed(doc, ys[k])
        /\ \A k \in 1 .. n - 1 :
             ys[k].ord = ys[k + 1].ord /\ Small(doc, ys[k], c) =>
               Count(doc, ys[k].text) + Count(doc, ys[k + 1].text) > c.size
        /\ Spills(doc, c, ys)
    <3>1. n \in 1 .. Len(out)
      BY <1>9, <1>11, <1>a
    <3>2. TakenIn(doc, c, out, n, u, Joined(out, n, u))
      BY <3>1, <2>2, <2>3, <1>2, <1>4, <1>5, JoinedSizes
    <3> QED
      BY <3>2 DEF TakenIn
  <2> HIDE DEF ys, t
  <2>5. ~ Huge(doc, c, ys[n])
    <3>1. Count(doc, ys[n].text) \in Nat
      BY <2>4, TokensType
    <3> QED
      BY <3>1, <2>2, <2>4 DEF Huge
  <2>6. Fit(doc, c, ys[n])
    BY <2>4, <2>5 DEF Fit
  <2>7. \A k \in 1 .. n : k = n \/ k \in 1 .. n - 1
    BY <1>4
  <2>8. Merged(doc, c, ys)
    BY <2>4, <2>6, <2>7 DEF Merged
  <2>9. ~ Huge(doc, c, u)
    BY <2>2, <2>4, <1>5, <1>10, <1>11 DEF Huge
  <2> QED
    BY <2>1, <2>8, <2>9, <1>3, <1>a DEF MergedTo, t
<1>12. CASE ~ (out # <<>> /\ Absorbs(doc, Last(out), u, c))
  <2> DEFINE ys == Append(out, u)
  <2>1. t = ys
    BY <1>12 DEF Absorb
  <2>2. /\ Len(ys) = n + 1 /\ ys[n + 1] = u /\ \A k \in 1 .. n : ys[k] = out[k]
    BY <1>4, <1>5, <1>a, AppendProperties
  <2> HIDE DEF ys, t
  <2>3. /\ \A k \in 1 .. n + 1 : k = n + 1 \/ k \in 1 .. n
        /\ \A k \in 1 .. n : k = n \/ (k \in 1 .. n - 1 /\ k + 1 \in 1 .. n)
        /\ (n + 1) - 1 = n
    BY <1>4
  <2>4. \A k \in 1 .. n + 1 : Fit(doc, c, ys[k]) /\ Homed(doc, ys[k])
    BY <2>2, <2>3, <1>5, <1>8
  <2>5. ASSUME NEW k \in 1 .. n, ys[k].ord = ys[k + 1].ord, Small(doc, ys[k], c)
        PROVE  Count(doc, ys[k].text) + Count(doc, ys[k + 1].text) > c.size
    <3>1. CASE k = n
      <4>1. out # <<>>
        <5>1. n # 0
          BY <3>1, <1>4
        <5> QED
          BY <5>1, <1>a
      <4>2. ys[k] = out[n] /\ ys[k + 1] = u
        BY <3>1, <2>2
      <4>3. ~ (Count(doc, Join(out[n], u).text) <= c.size)
        BY <4>1, <4>2, <1>9, <1>12, <2>5 DEF Absorbs
      <4>4. Count(doc, Join(out[n], u).text) = Count(doc, out[n].text) + Count(doc, u.text)
        <5>1. out[n].ord = u.ord /\ Fit(doc, c, out[n]) /\ Homed(doc, out[n])
          BY <4>1, <4>2, <1>8, <1>9, <2>5
        <5> QED
          BY <5>1, <4>1, <1>5, <1>10, JoinFits
      <4> QED
        BY <4>1, <4>2, <4>3, <4>4, <1>5, <1>10
    <3>2. CASE k # n
      <4>1. k \in 1 .. n - 1 /\ k + 1 \in 1 .. n
        BY <3>2, <2>3
      <4>2. ys[k] = out[k] /\ ys[k + 1] = out[k + 1]
        BY <4>1, <2>2
      <4> QED
        BY <4>1, <4>2, <1>8, <2>5
    <3> QED
      BY <3>1, <3>2
  <2>6. ASSUME NEW k \in 1 .. n + 1, ys[k].own = <<>>
        PROVE  c.overlap > 0 /\ k > 1 /\ Huge(doc, c, ys[k - 1])
    <3>1. CASE k = n + 1
      <4>1. c.overlap > 0 /\ i >= 1 /\ Huge(doc, c, chunks[i])
        BY <3>1, <2>2, <2>6, <1>7
      <4>2. out # <<>> /\ out[n] = chunks[i]
        BY <4>1, <1>2, <1>4, <1>a
      <4>3. n \in 1 .. n /\ k > 1 /\ k - 1 = n
        BY <3>1, <4>2, <1>4, <1>9
      <4>4. ys[k - 1] = out[n]
        BY <4>3, <2>2
      <4> QED
        BY <4>1, <4>2, <4>3, <4>4
    <3>2. CASE k \in 1 .. n
      <4>1. c.overlap > 0 /\ k > 1 /\ Huge(doc, c, out[k - 1])
        BY <3>2, <2>2, <2>6, <1>8, <1>a DEF Spills
      <4>2. k - 1 \in 1 .. n
        BY <3>2, <4>1, <1>4
      <4> QED
        BY <4>1, <4>2, <2>2
    <3> QED
      BY <3>1, <3>2, <2>3
  <2>7. Spills(doc, c, ys)
    BY <2>2, <2>6 DEF Spills
  <2>8. Merged(doc, c, ys)
    BY <2>2, <2>3, <2>4, <2>5, <2>7 DEF Merged
  <2> QED
    BY <2>1, <2>2, <2>8, <1>3, <1>a DEF MergedTo, t
<1> QED
  BY <1>11, <1>12

LEMMA MergedSized ==
  ASSUME NEW doc, NEW c, c.size \in Nat, NEW chunks, Packs(doc, c, chunks),
         NEW f, MergesTo(f, doc, chunks, c, Len(chunks))
  PROVE  MergedTo(doc, c, chunks, Len(chunks), f[Len(chunks)])
<1> DEFINE n == Len(chunks)
           T == {i \in Nat : i <= n => MergedTo(doc, c, chunks, i, f[i])}
<1>1. n \in Nat
  BY DEF Packs
<1>2. 0 \in T
  <2>1. f[0] = <<>> /\ <<>> \in Seq(ChunkRecs)
    BY DEF MergesTo
  <2>2. Merging(<<>>, chunks, 0)
    BY <2>1 DEF Merging, Ordered, Has
  <2>3. Merged(doc, c, <<>>)
    BY DEF Merged, Spills
  <2>4. MergedTo(doc, c, chunks, 0, <<>>)
    BY <2>2, <2>3 DEF MergedTo
  <2> QED
    BY <2>1, <2>4
<1>3. ASSUME NEW i \in Nat, i \in T PROVE i + 1 \in T
  <2> SUFFICES ASSUME i + 1 <= n PROVE MergedTo(doc, c, chunks, i + 1, f[i + 1])
    OBVIOUS
  <2>1. i + 1 \in 1 .. n /\ (i + 1) - 1 = i /\ i <= n
    BY <1>1
  <2>2. MergedTo(doc, c, chunks, i, f[i])
    BY <1>3, <2>1
  <2>3. f[i + 1] = Absorb(doc, f[i], chunks[i + 1], c)
    BY <2>1 DEF MergesTo
  <2> QED
    BY <2>1, <2>2, <2>3, AbsorbSized
<1> HIDE DEF T
<1>4. Nat \subseteq T
  BY <1>2, <1>3, NatInd
<1> QED
  BY <1>1, <1>4 DEF T

\* What PackedToSize says of the leaves.
SizesHold(doc, c, leaves) ==
  LET tokens(i) == Count(doc, leaves[i].text)
      last(i) == i = Len(leaves)
      next(i) == i < Len(leaves) /\ leaves[i + 1].ord = leaves[i].ord
      prior(i) == i > 1 /\ leaves[i - 1].ord = leaves[i].ord
  IN \A i \in DOMAIN leaves :
       /\ tokens(i) > c.size =>
            \/ Len(leaves[i].parts) = 1 /\ leaves[i].parts[1].units = 1
            \/ last(i) /\ Last(leaves[i].parts).size < c.min
       /\ c.min > 1 /\ tokens(i) < c.min =>
            /\ next(i) => tokens(i) + tokens(i + 1) > c.size
            /\ last(i) => ~ prior(i)
       /\ leaves[i].own = <<>> =>
            /\ c.overlap > 0 /\ i > 1 /\ tokens(i - 1) > c.size
            /\ Last(leaves[i - 1].parts).units = 1

\* One that is too large is one unit, or the last and ends in a small one.
FitLast(doc, c, xs) ==
  LET x == xs[Len(xs)]
  IN /\ Len(x.parts) # 0
     /\ Huge(doc, c, x) => \/ Len(x.parts) = 1 /\ x.parts[1].units = 1
                           \/ x.parts[Len(x.parts)].size < c.min

\* All of it in one form: the leaves of which PackedToSize holds.
Settled(doc, c, xs) ==
  /\ xs \in Seq(ChunkRecs)
  /\ \A k \in 1 .. Len(xs) - 1 : Fit(doc, c, xs[k])
  /\ xs # <<>> => FitLast(doc, c, xs)
  /\ c.min > 1 =>
       /\ \A k \in 1 .. Len(xs) - 1 :
            xs[k].ord = xs[k + 1].ord /\ Small(doc, xs[k], c) =>
              Count(doc, xs[k].text) + Count(doc, xs[k + 1].text) > c.size
       /\ Len(xs) > 1 /\ Small(doc, xs[Len(xs)], c) => xs[Len(xs) - 1].ord # xs[Len(xs)].ord
  /\ Spills(doc, c, xs)

LEMMA SettledHolds ==
  ASSUME NEW doc, NEW c, NEW xs, Settled(doc, c, xs)
  PROVE  SizesHold(doc, c, xs)
<1> DEFINE n == Len(xs)
<1>1. /\ xs \in Seq(ChunkRecs)
      /\ \A k \in 1 .. n - 1 : Fit(doc, c, xs[k])
      /\ xs # <<>> => FitLast(doc, c, xs)
      /\ Spills(doc, c, xs)
  BY DEF Settled
<1>2. c.min > 1 =>
       /\ \A k \in 1 .. n - 1 :
            xs[k].ord = xs[k + 1].ord /\ Small(doc, xs[k], c) =>
              Count(doc, xs[k].text) + Count(doc, xs[k + 1].text) > c.size
       /\ n > 1 /\ Small(doc, xs[n], c) => xs[n - 1].ord # xs[n].ord
  BY DEF Settled
<1>3. DOMAIN xs = 1 .. n /\ n \in Nat /\ \A i \in 1 .. n : xs[i].parts \in Seq(Parts_)
  BY <1>1, ChunkType
<1>4. \A i \in 1 .. n : i = n \/ i \in 1 .. n - 1
  <2> HIDE DEF n
  <2> QED
    BY <1>3
<1> SUFFICES ASSUME NEW i \in 1 .. n
             PROVE
               /\ Count(doc, xs[i].text) > c.size =>
                    \/ Len(xs[i].parts) = 1 /\ xs[i].parts[1].units = 1
                    \/ i = n /\ Last(xs[i].parts).size < c.min
               /\ c.min > 1 /\ Count(doc, xs[i].text) < c.min =>
                    /\ i < n /\ xs[i + 1].ord = xs[i].ord =>
                         Count(doc, xs[i].text) + Count(doc, xs[i + 1].text) > c.size
                    /\ i = n => ~ (i > 1 /\ xs[i - 1].ord = xs[i].ord)
               /\ xs[i].own = <<>> =>
                    /\ c.overlap > 0 /\ i > 1 /\ Count(doc, xs[i - 1].text) > c.size
                    /\ Last(xs[i - 1].parts).units = 1
  BY <1>3 DEF SizesHold
<1>5. \A s : Last(s) = s[Len(s)]
  BY DEF Last
<1> HIDE DEF n
<1>6. ASSUME Count(doc, xs[i].text) > c.size
      PROVE  \/ Len(xs[i].parts) = 1 /\ xs[i].parts[1].units = 1
             \/ i = n /\ Last(xs[i].parts).size < c.min
  <2>1. Huge(doc, c, xs[i])
    BY <1>6 DEF Huge
  <2>2. CASE i = n
    <3>1. xs # <<>>
      BY <2>2, <1>3 DEF n
    <3> QED
      BY <2>1, <2>2, <3>1, <1>1, <1>5 DEF FitLast, n
  <2>3. CASE i \in 1 .. n - 1
    BY <2>1, <2>3, <1>1 DEF Fit, n
  <2> QED
    BY <2>2, <2>3, <1>4
<1>7. ASSUME c.min > 1, Count(doc, xs[i].text) < c.min, i < n, xs[i + 1].ord = xs[i].ord
      PROVE  Count(doc, xs[i].text) + Count(doc, xs[i + 1].text) > c.size
  <2>1. i \in 1 .. n - 1
    BY <1>3, <1>7
  <2> QED
    BY <2>1, <1>2, <1>7 DEF Small
<1>8. ASSUME c.min > 1, Count(doc, xs[i].text) < c.min, i = n, i > 1, xs[i - 1].ord = xs[i].ord
      PROVE  FALSE
  BY <1>2, <1>8 DEF Small
<1>9. ASSUME xs[i].own = <<>>
      PROVE  /\ c.overlap > 0 /\ i > 1 /\ Count(doc, xs[i - 1].text) > c.size
             /\ Last(xs[i - 1].parts).units = 1
  <2>1. c.overlap > 0 /\ i > 1 /\ Huge(doc, c, xs[i - 1])
    BY <1>1, <1>9 DEF Spills, n
  <2>2. i - 1 \in 1 .. n - 1
    BY <2>1, <1>3
  <2>3. Len(xs[i - 1].parts) = 1 /\ xs[i - 1].parts[1].units = 1
    BY <2>1, <2>2, <1>1 DEF Fit, n
  <2> QED
    BY <2>1, <2>3, <1>5 DEF Huge
<1> QED
  BY <1>6, <1>7, <1>8, <1>9

LEMMA SizesLaw ==
  ASSUME NEW doc, NEW c, IsConf(c), NEW chunks, Packs(doc, c, chunks)
  PROVE  LET leaves == MergeSmall(doc, chunks, c)
         IN Settled(doc, c, leaves) /\ \A i \in 1 .. Len(leaves) : Homed(doc, leaves[i])
<1>1. Len(chunks) \in Nat /\ chunks \in Seq(ChunkRecs)
  BY DEF Packs
<1>2. PICK f : /\ MergesTo(f, doc, chunks, c, Len(chunks))
               /\ MergeSmall(doc, chunks, c) = MergeEnd(doc, chunks, f[Len(chunks)], c)
  BY <1>1, MergeSteps
<1> DEFINE out == f[Len(chunks)]
           n == Len(out)
           end == MergeEnd(doc, chunks, out, c)
<1>3. c.size \in Nat /\ c.min \in Nat /\ c.min <= c.size
  BY DEF IsConf
<1>4. MergedTo(doc, c, chunks, Len(chunks), out)
  BY <1>2, <1>3, MergedSized
<1>b. MergeSmall(doc, chunks, c) = end
  BY <1>2
<1> HIDE DEF out
<1>5. /\ out \in Seq(ChunkRecs) /\ Ordered(out) /\ Merged(doc, c, out)
  BY <1>4 DEF MergedTo, Merging
<1>6. /\ \A k \in 1 .. n : Fit(doc, c, out[k]) /\ Homed(doc, out[k])
      /\ \A k \in 1 .. n - 1 :
           out[k].ord = out[k + 1].ord /\ Small(doc, out[k], c) =>
             Count(doc, out[k].text) + Count(doc, out[k + 1].text) > c.size
      /\ Spills(doc, c, out)
  BY <1>5 DEF Merged
<1>7. \A xs \in Seq(ChunkRecs) : xs # <<>> => Len(xs) \in 1 .. Len(xs)
  OBVIOUS
<1>8. \A xs \in Seq(ChunkRecs) : \A k \in 1 .. Len(xs) - 1 : k \in 1 .. Len(xs)
  OBVIOUS
<1>9. CASE c.min <= 1
  <2>1. end = chunks
    BY <1>9 DEF MergeEnd
  <2>2. \A k \in 1 .. Len(chunks) : Fit(doc, c, chunks[k]) /\ Homed(doc, chunks[k])
    BY PacksType
  <2>3. ~ (c.min > 1)
    BY <1>3, <1>9
  <2>4. chunks # <<>> => FitLast(doc, c, chunks)
    BY <2>2, <1>1, <1>7 DEF FitLast, Fit
  <2>5. Settled(doc, c, chunks)
    BY <2>2, <2>3, <2>4, <1>1, <1>8 DEF Settled, Packs
  <2> QED
    BY <2>1, <2>2, <2>5, <1>b
<1>10. CASE ~ (c.min <= 1) /\ n >= 2 /\ out[n].ord = out[n - 1].ord /\ Small(doc, out[n], c)
  <2> DEFINE k == n - 1
             u == out[n]
             ys == Joined(out, k, u)
  <2>1. n \in Nat /\ k \in 1 .. n /\ n \in 1 .. n /\ k - 1 = n - 2 /\ k \in Nat
        /\ k \in 1 .. n - 1 /\ k + 1 = n /\ \A i \in 1 .. k : i \in 1 .. n /\ i < n
    BY <1>5, <1>10
  <2>2. end = ys
    BY <1>10, <2>1 DEF MergeEnd, Joined
  <2>a. k = n - 1 /\ u = out[n] /\ n = Len(out)
    OBVIOUS
  <2>b. out[n].ord = out[k].ord /\ Small(doc, u, c)
    BY <1>10
  <2> HIDE DEF k, u, n, end
  <2>3. u \in ChunkRecs /\ Fit(doc, c, u) /\ Homed(doc, u) /\ out[k].ord = u.ord
    BY <2>1, <2>a, <2>b, <1>5, <1>6
  <2>4. Before(SubSeq(out, 1, k), u)
    <3>1. Len(SubSeq(out, 1, k)) = k /\ \A i \in 1 .. k : SubSeq(out, 1, k)[i] = out[i]
      BY <2>1, <2>a, <1>5
    <3>2. \A i \in 1 .. k : Above(out[i].own, u.own)
      BY <2>1, <2>a, <1>5 DEF Ordered
    <3> QED
      BY <3>1, <3>2 DEF Before
  <2>5. TakenIn(doc, c, out, k, u, ys)
    <3>1. k \in 1 .. Len(out)
      BY <2>1, <2>a
    <3> QED
      BY <3>1, <2>3, <2>4, <1>3, <1>5, JoinedSizes
  <2>c. ys \in Seq(ChunkRecs)
    <3>1. k \in 1 .. Len(out)
      BY <2>1, <2>a
    <3>2. \A i \in 1 .. k : Above(out[i].own, u.own)
      BY <2>1, <2>a, <1>5 DEF Ordered
    <3> QED
      BY <3>1, <3>2, <2>3, <1>5, JoinedLaw
  <2> HIDE DEF ys
  <2>6. /\ Len(ys) = k /\ ys[k] \in ChunkRecs
        /\ Count(doc, ys[k].text) = Count(doc, out[k].text) + Count(doc, u.text)
        /\ ys[k].parts[Len(ys[k].parts)] = u.parts[Len(u.parts)]
        /\ Len(ys[k].parts) # 0
        /\ u.parts[Len(u.parts)].size <= Count(doc, u.text)
        /\ \A i \in 1 .. k - 1 : ys[i] = out[i] /\ Fit(doc, c, ys[i])
        /\ \A i \in 1 .. k : Homed(doc, ys[i])
        /\ \A i \in 1 .. k - 1 :
             ys[i].ord = ys[i + 1].ord /\ Small(doc, ys[i], c) =>
               Count(doc, ys[i].text) + Count(doc, ys[i + 1].text) > c.size
        /\ Spills(doc, c, ys)
    BY <2>5 DEF TakenIn
  <2>7. /\ Count(doc, out[k].text) \in Nat /\ Count(doc, u.text) \in Nat
        /\ Count(doc, u.text) < c.min
    <3>1. out[k] \in ChunkRecs
      BY <2>1, <2>a, <1>5
    <3> QED
      BY <3>1, <2>3, <2>b, TokensType DEF Small
  <2>8. u.parts[Len(u.parts)].size \in Nat
    <3>1. u.parts \in Seq(Parts_) /\ Len(u.parts) # 0
      BY <2>3, ChunkType DEF Fit
    <3>2. Len(u.parts) \in 1 .. Len(u.parts)
      BY <3>1
    <3>3. u.parts[Len(u.parts)] \in Parts_
      BY <3>1, <3>2
    <3> QED
      BY <3>3 DEF Parts_
  <2>9. FitLast(doc, c, ys)
    <3>1. ys[k].parts[Len(ys[k].parts)].size < c.min
      BY <2>6, <2>7, <2>8, <1>3
    <3> QED
      BY <3>1, <2>6 DEF FitLast
  <2>10. ~ Small(doc, ys[k], c)
    <3>1. CASE Small(doc, out[k], c)
      <4>1. Count(doc, out[k].text) + Count(doc, u.text) > c.size
        BY <2>1, <2>3, <2>a, <3>1, <1>6
      <4> QED
        BY <4>1, <2>6, <2>7, <1>3 DEF Small
    <3>2. CASE ~ Small(doc, out[k], c)
      BY <3>2, <2>6, <2>7, <1>3 DEF Small
    <3> QED
      BY <3>1, <3>2
  <2>11. Settled(doc, c, ys)
    BY <2>c, <2>6, <2>9, <2>10 DEF Settled
  <2> QED
    BY <2>2, <2>6, <2>11, <1>b DEF end, n
<1>11. CASE ~ (c.min <= 1)
            /\ ~ (n >= 2 /\ out[n].ord = out[n - 1].ord /\ Small(doc, out[n], c))
  <2>1. end = out
    BY <1>11 DEF MergeEnd
  <2>2. n \in Nat /\ (n > 1 => n >= 2)
    BY <1>5
  <2>3. n > 1 /\ Small(doc, out[n], c) => out[n - 1].ord # out[n].ord
    BY <1>11, <2>2
  <2> HIDE DEF n, end
  <2>4. out # <<>> => FitLast(doc, c, out)
    BY <1>5, <1>6, <1>7 DEF FitLast, Fit, n
  <2>5. Settled(doc, c, out)
    BY <2>3, <2>4, <1>5, <1>6, <1>8 DEF Settled, n
  <2> QED
    BY <2>1, <2>5, <1>b, <1>6 DEF end, n
<1> QED
  BY <1>9, <1>10, <1>11

-----------------------------------------------------------------------------
(* The parents.                                                            *)

LEMMA SectionIs ==
  ASSUME NEW doc, Len(doc) \in Nat, DOMAIN doc = 1 .. Len(doc),
         NEW i \in 1 .. Len(Sections(doc))
  PROVE  \/ Sections(doc)[i] = WholeOf(doc)
         \/ HeadersOf(doc) # <<>> /\ Sections(doc)[i] = LeadOf(doc)
         \/ \E j \in 1 .. Len(HeadersOf(doc)) : Sections(doc)[i] = ScopeOf(doc, j)
<1> DEFINE h == HeadersOf(doc)
           k == Len(h)
           lead == LeadOf(doc)
           A == IF lead.body = <<>> THEN <<>> ELSE <<lead>>
           B == [j \in DOMAIN h |-> ScopeOf(doc, j)]
           a == Len(A)
           R == {lead} \cup {ScopeOf(doc, j) : j \in 1 .. k}
           secs == Sections(doc)
<1>1. h \in Runs
  BY HeadersLaw
<1>2. CASE h = <<>>
  <2>1. secs = <<WholeOf(doc)>>
    BY <1>2, SectionsForm
  <2>2. i = 1
    BY <2>1
  <2> QED
    BY <2>1, <2>2
<1>3. CASE h # <<>>
  <2>1. secs = A \o B
    BY <1>3, SectionsForm
  <2> HIDE DEF secs
  <2>2. k \in Nat /\ DOMAIN h = 1 .. k
    BY <1>1, RunType
  <2>3. A = <<>> \/ A = <<lead>>
    OBVIOUS
  <2>4. B = [j \in 1 .. k |-> ScopeOf(doc, j)]
    BY <2>2
  <2> HIDE DEF A, B, lead, k, h
  <2>5. lead \in R /\ \A j \in 1 .. k : ScopeOf(doc, j) \in R
    OBVIOUS
  <2>6. \A x \in R : x = lead \/ \E j \in 1 .. k : x = ScopeOf(doc, j)
    OBVIOUS
  <2> HIDE DEF R
  <2>7. A \in Seq(R)
    <3>1. CASE A = <<>>
      BY <3>1
    <3>2. CASE A = <<lead>>
      BY <3>2, <2>5
    <3> QED
      BY <2>3, <3>1, <3>2
  <2>8. B \in [1 .. k -> R]
    BY <2>4, <2>5
  <2>9. B \in Seq(R)
    BY <2>2, <2>8, SeqDef
  <2>10. A \o B \in Seq(R)
    BY <2>7, <2>9, ConcatProperties
  <2>11. secs \in Seq(R)
    BY <2>1, <2>10
  <2>12. i \in 1 .. Len(secs)
    BY DEF secs
  <2>13. secs[i] \in R
    BY <2>11, <2>12
  <2>14. secs[i] = lead \/ \E j \in 1 .. k : secs[i] = ScopeOf(doc, j)
    BY <2>6, <2>13
  <2> QED
    BY <2>14, <1>3 DEF secs, lead, k, h
<1> QED
  BY <1>2, <1>3

LEMMA BodyWithin ==
  ASSUME NEW doc, Len(doc) \in Nat, NEW lo \in Nat \ {0}, NEW hi \in Int,
         lo <= hi + 1, hi <= Len(doc)
  PROVE  ToSet(Strip(doc, Range_(lo, hi))) \subseteq ToSet(WholeBody(doc))
<1> DEFINE r == Range_(lo, hi)
           w == Range_(1, Len(doc))
<1>1. r \in Runs /\ ToSet(r) = lo .. hi
  <2>1. lo \in Nat
    OBVIOUS
  <2> QED
    BY <2>1, RangeLaw
<1>2. w \in Runs /\ ToSet(w) = 1 .. Len(doc)
  <2>1. 1 \in Nat /\ Len(doc) \in Int /\ 1 <= Len(doc) + 1
    OBVIOUS
  <2> QED
    BY <2>1, RangeLaw
<1>3. ToSet(r) \subseteq ToSet(w)
  BY <1>1, <1>2
<1> HIDE DEF r, w
<1>4. \A p : Between(doc, r, p) => Between(doc, w, p)
  BY <1>3 DEF Between
<1>5. \A p : p \in ToSet(Strip(doc, r)) => p \in ToSet(Strip(doc, w))
  BY <1>1, <1>2, <1>3, <1>4, StripBetween
<1> QED
  BY <1>5 DEF WholeBody, r, w

LEMMA BodiesWithin ==
  ASSUME NEW doc, Len(doc) \in Nat, DOMAIN doc = 1 .. Len(doc),
         NEW i \in 1 .. Len(Sections(doc))
  PROVE  ToSet(Sections(doc)[i].body) \subseteq ToSet(WholeBody(doc))
<1> DEFINE h == HeadersOf(doc)
<1>1. /\ h \in Runs
      /\ \A j \in 1 .. Len(h) : /\ h[j] \in 1 .. Len(doc)
                                /\ NextOf(doc, j) \in 1 .. Len(doc) + 1
                                /\ h[j] < NextOf(doc, j)
  BY HeadersLaw
<1>2. CASE Sections(doc)[i] = WholeOf(doc)
  BY <1>2 DEF WholeOf, WholeBody
<1>3. CASE h # <<>> /\ Sections(doc)[i] = LeadOf(doc)
  <2> DEFINE hi == h[1] - 1
  <2>1. 1 \in 1 .. Len(h)
    <3>1. h \in Seq(Nat)
      BY <1>1, RunType
    <3> HIDE DEF h
    <3> QED
      BY <3>1, <1>3
  <2>2. hi \in Int /\ 1 <= hi + 1 /\ hi <= Len(doc) /\ 1 \in Nat \ {0}
    BY <1>1, <2>1
  <2>3. LeadOf(doc).body = Strip(doc, Range_(1, hi))
    BY DEF LeadOf
  <2> HIDE DEF hi
  <2> QED
    BY <2>2, <2>3, <1>3, BodyWithin
<1>4. CASE \E j \in 1 .. Len(h) : Sections(doc)[i] = ScopeOf(doc, j)
  <2>1. PICK j \in 1 .. Len(h) : Sections(doc)[i] = ScopeOf(doc, j)
    BY <1>4
  <2> DEFINE lo == h[j] + 1
             hi == NextOf(doc, j) - 1
  <2>2. lo \in Nat \ {0} /\ hi \in Int /\ lo <= hi + 1 /\ hi <= Len(doc)
    BY <1>1
  <2>3. ScopeOf(doc, j).body = Strip(doc, Range_(lo, hi))
    BY DEF ScopeOf
  <2> HIDE DEF lo, hi
  <2> QED
    BY <2>1, <2>2, <2>3, BodyWithin
<1> QED
  BY <1>2, <1>3, <1>4, SectionIs

LEMMA PathsHold ==
  ASSUME NEW doc, Len(doc) \in Nat, DOMAIN doc = 1 .. Len(doc),
         NEW i \in 1 .. Len(Sections(doc))
  PROVE  PathHolds(doc, Sections(doc)[i])
<1>1. CASE Sections(doc)[i] = WholeOf(doc)
  BY <1>1 DEF PathHolds, WholeOf
<1>2. CASE Sections(doc)[i] = LeadOf(doc)
  BY <1>2 DEF PathHolds, LeadOf
<1>3. CASE \E j \in 1 .. Len(HeadersOf(doc)) : Sections(doc)[i] = ScopeOf(doc, j)
  BY <1>3, PathLaw
<1> QED
  BY <1>1, <1>2, <1>3, SectionIs

LEMMA PackedSizes ==
  ASSUME NEW doc, NEW c, IsConf(c), NEW ord \in Int, NEW section \in SectionRecs
  PROVE  LET out == PackedOf(doc, section, c, ord)
         IN /\ Makes(doc, c, ord, out) /\ Spills(doc, c, out)
            /\ section.body = <<>> => out = <<>>
<1> DEFINE body == section.body
           runs == UnitsOf(doc, body, c.size)
           units == WithHeader(section, runs)
           out == PackedOf(doc, section, c, ord)
<1>1. body \in Runs
  BY DEF SectionRecs
<1>2. CASE body = <<>>
  <2>1. out = <<>>
    BY <1>2 DEF PackedOf
  <2> HIDE DEF out
  <2>2. Makes(doc, c, ord, out) /\ Spills(doc, c, out)
    BY <2>1 DEF Makes, Spills
  <2> QED
    BY <2>1, <2>2 DEF out
<1>3. CASE body # <<>>
  <2>1. Covers(doc, runs, ToSet(body)) /\ Full(runs)
    BY <1>1, UnitsLaw
  <2>2. out = Pack(doc, units, c, ord)
    BY <1>3 DEF PackedOf
  <2> HIDE DEF runs
  <2>3. InRow(runs)
    BY <2>1 DEF Covers
  <2>4. UnitsFor(units, runs)
    BY <2>1, <2>3, WithHeaderLaw
  <2> HIDE DEF units
  <2>5. Makes(doc, c, ord, Pack(doc, units, c, ord)) /\ Spills(doc, c, Pack(doc, units, c, ord))
    BY <2>4, PackSized
  <2> QED
    BY <2>2, <2>5, <1>3
<1> QED
  BY <1>2, <1>3

LEMMA PacksLaw ==
  ASSUME NEW doc, Len(doc) \in Nat, DOMAIN doc = 1 .. Len(doc),
         NEW strategy, NEW c, IsConf(c)
  PROVE  Packs(doc, c, FlattenSeq(RowsOf(doc, strategy, c)))
<1> DEFINE secs == Sections(doc)
           F == RowsOf(doc, strategy, c)
           chunks == FlattenSeq(F)
<1>1. /\ F \in Seq(Seq(ChunkRecs)) /\ Len(F) = Len(secs) /\ RowsApart(F)
      /\ \A n \in 1 .. Len(secs) :
           /\ F[n] = PackedOf(doc, secs[n], c, OrdOf(strategy, n))
           /\ HoldsOf(doc, F[n], ToSet(secs[n].body))
  BY RowsLaw
<1>2. Len(secs) \in Nat /\ \A n \in 1 .. Len(secs) : secs[n] \in SectionRecs
  BY SectionsLaw DEF Placed
<1>3. \A n \in 1 .. Len(secs) : ToSet(secs[n].body) \subseteq ToSet(WholeBody(doc))
  BY BodiesWithin
<1> HIDE DEF F
<1>4. ASSUME NEW n \in 1 .. Len(secs)
      PROVE  /\ Makes(doc, c, OrdOf(strategy, n), F[n]) /\ Spills(doc, c, F[n])
             /\ secs[n].body = <<>> => F[n] = <<>>
  <2>1. OrdOf(strategy, n) \in Int
    BY <1>2 DEF OrdOf, NoSection
  <2> QED
    BY <2>1, <1>1, <1>2, PackedSizes
<1>5. /\ chunks \in Seq(ChunkRecs) /\ Ordered(chunks)
  BY <1>1, FlattenChunks
<1>6. Spills(doc, c, chunks)
  BY <1>1, <1>4, FlatSpills
<1>7. \A k \in 1 .. Len(chunks) :
        \E n \in 1 .. Len(F) : \E j \in 1 .. Len(F[n]) : chunks[k] = F[n][j]
  BY <1>1, FlatEach
<1> HIDE DEF chunks
<1>8. ASSUME NEW k \in 1 .. Len(chunks)
      PROVE  Made(doc, c, chunks[k].ord, chunks[k]) /\ Homed(doc, chunks[k])
  <2>1. PICK n \in 1 .. Len(F) : \E j \in 1 .. Len(F[n]) : chunks[k] = F[n][j]
    BY <1>7
  <2>2. PICK j \in 1 .. Len(F[n]) : chunks[k] = F[n][j]
    BY <2>1
  <2> DEFINE x == chunks[k]
  <2>3. n \in 1 .. Len(secs)
    BY <1>1
  <2>4. Made(doc, c, OrdOf(strategy, n), x)
    BY <2>2, <2>3, <1>4 DEF Makes
  <2>5. x.ord = OrdOf(strategy, n)
    BY <2>4 DEF Made
  <2>6. ToSet(x.own) \subseteq ToSet(secs[n].body)
    <3>1. \A p \in ToSet(x.own) : Has(F[n], p)
      BY <2>2 DEF Has
    <3> QED
      BY <3>1, <2>3, <1>1 DEF HoldsOf
  <2>7. secs[n].body # <<>>
    <3>1. F[n] # <<>>
      BY <2>2
    <3> QED
      BY <3>1, <2>3, <1>4
  <2> HIDE DEF x
  <2>8. Homed(doc, x)
    <3>1. CASE strategy = "recursive"
      <4>1. x.ord = n - 1 /\ n \in Nat /\ n \in 1 .. Len(Sections(doc))
        BY <2>3, <2>5, <3>1, <1>2 DEF OrdOf
      <4>2. x.ord # NoSection
        BY <4>1, <2>3, <1>2 DEF NoSection
      <4>3. InSection(doc, x, n)
        BY <4>1, <2>6, <2>7 DEF InSection
      <4> QED
        BY <4>2, <4>3 DEF Homed
    <3>2. CASE strategy # "recursive"
      <4>1. x.ord = NoSection
        BY <2>5, <3>2 DEF OrdOf
      <4>2. ToSet(x.own) \subseteq ToSet(WholeBody(doc))
        BY <2>3, <2>6, <1>3
      <4> QED
        BY <4>1, <4>2 DEF Homed
    <3> QED
      BY <3>1, <3>2
  <2> QED
    BY <2>4, <2>5, <2>8 DEF x
<1> QED
  BY <1>5, <1>6, <1>8 DEF Packs, chunks, F

LEMMA LeavesSettle ==
  ASSUME NEW doc, Len(doc) \in Nat, DOMAIN doc = 1 .. Len(doc),
         NEW strategy, NEW c, IsConf(c)
  PROVE  LET leaves == Leaves_(doc, strategy, c)
         IN /\ leaves \in Seq(ChunkRecs) /\ SizesHold(doc, c, leaves)
            /\ \A i \in 1 .. Len(leaves) : Homed(doc, leaves[i])
<1> DEFINE chunks == FlattenSeq(RowsOf(doc, strategy, c))
           leaves == Leaves_(doc, strategy, c)
<1>1. Packs(doc, c, chunks)
  BY PacksLaw
<1>2. leaves = MergeSmall(doc, chunks, c)
  BY LeavesForm
<1> HIDE DEF chunks, leaves
<1>3. Settled(doc, c, leaves) /\ \A i \in 1 .. Len(leaves) : Homed(doc, leaves[i])
  BY <1>1, <1>2, SizesLaw
<1>4. leaves \in Seq(ChunkRecs)
  BY <1>3 DEF Settled
<1> QED
  BY <1>3, <1>4, SettledHolds DEF leaves

SolidOf(doc) == Ascending({n \in DOMAIN Sections(doc) : Sections(doc)[n].body # <<>>})
DocumentRow(doc) ==
  [key |-> <<"document">>, parent |-> <<>>, text |-> Strip(doc, Range_(1, Len(doc)))]
SectionRow(doc, i) ==
  [key |-> <<"section", SolidOf(doc)[i] - 1>>, parent |-> <<"document">>,
   text |-> Sections(doc)[SolidOf(doc)[i]].path \o Sections(doc)[SolidOf(doc)[i]].body]
LeafRow(leaves, i) ==
  [key |-> <<"chunk", i - 1>>, text |-> leaves[i].text,
   parent |-> IF leaves[i].ord = NoSection THEN <<"document">>
              ELSE <<"section", leaves[i].ord>>]

\* The rows: the document, m sections, l leaves.
RowsAre(rows, doc, leaves, m, l) ==
  /\ m \in Nat /\ l \in Nat /\ Len(rows) = 1 + m + l /\ DOMAIN rows = 1 .. 1 + m + l
  /\ rows[1] = DocumentRow(doc)
  /\ \A i \in 1 .. m : rows[1 + i] = SectionRow(doc, i)
  /\ \A i \in 1 .. l : rows[1 + m + i] = LeafRow(leaves, i)

LEMMA HierarchyForm ==
  ASSUME NEW doc, NEW leaves
  PROVE  Hierarchy(doc, leaves)
           = <<DocumentRow(doc)>> \o [i \in DOMAIN SolidOf(doc) |-> SectionRow(doc, i)]
               \o [i \in DOMAIN leaves |-> LeafRow(leaves, i)]
BY DEF Hierarchy, DocumentRow, SectionRow, LeafRow, SolidOf

Parted(r, s, t) ==
  /\ Len(r) = Len(s) + Len(t)
  /\ \A i \in 1 .. Len(s) : r[i] = s[i]
  /\ \A i \in 1 .. Len(t) : r[Len(s) + i] = t[i]

LEMMA BothParts ==
  ASSUME NEW R, NEW s \in Seq(R), NEW t \in Seq(R)
  PROVE  s \o t \in Seq(R) /\ Parted(s \o t, s, t)
<1> DEFINE m == Len(s)
           n == Len(t)
           r == s \o t
<1>1. m \in Nat /\ n \in Nat
  OBVIOUS
<1>2. /\ r \in Seq(R) /\ Len(r) = m + n
      /\ \A i \in 1 .. m + n : r[i] = IF i <= m THEN s[i] ELSE t[i - m]
  BY ConcatProperties
<1> HIDE DEF m, n, r
<1>3. \A i \in 1 .. m : i \in 1 .. m + n /\ i <= m
  BY <1>1
<1>4. \A i \in 1 .. n : m + i \in 1 .. m + n /\ ~ (m + i <= m) /\ (m + i) - m = i
  BY <1>1
<1> QED
  BY <1>2, <1>3, <1>4 DEF m, n, r, Parted

LEMMA ThreeParts ==
  ASSUME NEW R, NEW x \in R, NEW b \in Seq(R), NEW c \in Seq(R),
         NEW r, r = <<x>> \o b \o c
  PROVE  /\ Len(r) = 1 + Len(b) + Len(c) /\ DOMAIN r = 1 .. 1 + Len(b) + Len(c)
         /\ r[1] = x
         /\ \A i \in 1 .. Len(b) : r[1 + i] = b[i]
         /\ \A i \in 1 .. Len(c) : r[1 + Len(b) + i] = c[i]
<1> DEFINE a == <<x>>
           d == a \o b
           m == Len(b)
           l == Len(c)
<1>1. a \in Seq(R) /\ Len(a) = 1 /\ a[1] = x
  OBVIOUS
<1>2. m \in Nat /\ l \in Nat
  OBVIOUS
<1> HIDE DEF a
<1>a. d \in Seq(R) /\ Parted(d, a, b)
  BY <1>1, BothParts
<1>3. /\ d \in Seq(R) /\ Len(d) = Len(a) + m
      /\ \A i \in 1 .. Len(a) : d[i] = a[i]
      /\ \A i \in 1 .. m : d[Len(a) + i] = b[i]
  BY <1>a DEF Parted
<1>0. r = d \o c
  BY DEF a
<1> HIDE DEF d
<1>b. r \in Seq(R) /\ Parted(r, d, c)
  BY <1>0, <1>3, BothParts
<1>4. /\ r \in Seq(R) /\ Len(r) = Len(d) + l
      /\ \A i \in 1 .. Len(d) : r[i] = d[i]
      /\ \A i \in 1 .. l : r[Len(d) + i] = c[i]
  BY <1>b DEF Parted
<1>5. Len(d) = 1 + m
  BY <1>1, <1>3
<1> HIDE DEF m, l
<1>6. Len(r) = 1 + m + l /\ DOMAIN r = 1 .. 1 + m + l
  BY <1>2, <1>4, <1>5
<1>7. r[1] = x
  <2>1. 1 \in 1 .. 1 + m /\ 1 \in 1 .. 1
    BY <1>2
  <2> QED
    BY <2>1, <1>1, <1>3, <1>4, <1>5
<1>8. \A i \in 1 .. m : r[1 + i] = b[i]
  <2>1. \A i \in 1 .. m : 1 + i \in 1 .. 1 + m
    BY <1>2
  <2> QED
    BY <2>1, <1>1, <1>3, <1>4, <1>5
<1>9. \A i \in 1 .. l : r[1 + m + i] = c[i]
  BY <1>4, <1>5
<1> QED
  BY <1>6, <1>7, <1>8, <1>9 DEF m, l

LEMMA HierarchyLaw ==
  ASSUME NEW doc, NEW leaves, Len(leaves) \in Nat, DOMAIN leaves = 1 .. Len(leaves),
         SolidOf(doc) \in Runs
  PROVE  RowsAre(Hierarchy(doc, leaves), doc, leaves, Len(SolidOf(doc)), Len(leaves))
<1> DEFINE h == SolidOf(doc)
           m == Len(h)
           l == Len(leaves)
           x == DocumentRow(doc)
           b == [i \in 1 .. m |-> SectionRow(doc, i)]
           c == [i \in 1 .. l |-> LeafRow(leaves, i)]
           R == {x} \cup {SectionRow(doc, i) : i \in 1 .. m} \cup {LeafRow(leaves, i) : i \in 1 .. l}
           r == Hierarchy(doc, leaves)
<1>1. m \in Nat /\ DOMAIN h = 1 .. m /\ l \in Nat
  BY RunType
<1>2. r = <<x>> \o b \o c
  <2>1. r = <<x>> \o [i \in DOMAIN h |-> SectionRow(doc, i)]
               \o [i \in DOMAIN leaves |-> LeafRow(leaves, i)]
    BY HierarchyForm
  <2> HIDE DEF r, x, h
  <2> QED
    BY <2>1, <1>1
<1>3. x \in R /\ \A i \in 1 .. m : SectionRow(doc, i) \in R
  OBVIOUS
<1>4. \A i \in 1 .. l : LeafRow(leaves, i) \in R
  OBVIOUS
<1> HIDE DEF R, r, x, m, l
<1>5. b \in [1 .. m -> R] /\ Len(b) = m /\ \A i \in 1 .. m : b[i] = SectionRow(doc, i)
  BY <1>1, <1>3
<1>6. c \in [1 .. l -> R] /\ Len(c) = l /\ \A i \in 1 .. l : c[i] = LeafRow(leaves, i)
  BY <1>1, <1>4
<1>7. b \in Seq(R) /\ c \in Seq(R)
  BY <1>1, <1>5, <1>6, SeqDef
<1> HIDE DEF b, c
<1>8. /\ Len(r) = 1 + Len(b) + Len(c) /\ DOMAIN r = 1 .. 1 + Len(b) + Len(c)
      /\ r[1] = x
      /\ \A i \in 1 .. Len(b) : r[1 + i] = b[i]
      /\ \A i \in 1 .. Len(c) : r[1 + Len(b) + i] = c[i]
  BY <1>2, <1>3, <1>7, ThreeParts
<1> QED
  BY <1>1, <1>5, <1>6, <1>8 DEF RowsAre, r, x, m, l

\* What ParentsHold says of the rows.
ParentAt(rows, leaves, i, j) ==
  /\ rows[j].key = rows[i].parent
  /\ rows[i].key[1] = "chunk" =>
       ToSet(leaves[rows[i].key[2] + 1].own) \subseteq ToSet(rows[j].text)
RowsHold(rows, leaves) ==
  /\ \A i \in DOMAIN rows : rows[i].parent # <<>> => \E j \in 1 .. (i - 1) : ParentAt(rows, leaves, i, j)
  /\ \A i, j \in DOMAIN rows : rows[i].key = rows[j].key => i = j

LEMMA SolidLaw ==
  ASSUME NEW doc, Len(Sections(doc)) \in Nat, DOMAIN Sections(doc) = 1 .. Len(Sections(doc))
  PROVE  /\ SolidOf(doc) \in Runs
         /\ \A i \in 1 .. Len(SolidOf(doc)) :
              /\ SolidOf(doc)[i] \in 1 .. Len(Sections(doc)) /\ SolidOf(doc)[i] \in Nat
              /\ \A j \in 1 .. Len(SolidOf(doc)) : SolidOf(doc)[i] = SolidOf(doc)[j] => i = j
         /\ \A n \in 1 .. Len(Sections(doc)) : Sections(doc)[n].body # <<>> =>
              \E i \in 1 .. Len(SolidOf(doc)) : SolidOf(doc)[i] = n
<1> DEFINE secs == Sections(doc)
           I == {n \in DOMAIN secs : secs[n].body # <<>>}
           h == SolidOf(doc)
<1>1. I \in SUBSET DOMAIN secs
  OBVIOUS
<1>2. h = Ascending(I)
  BY DEF SolidOf
<1>3. \A n \in 1 .. Len(secs) : n \in I <=> secs[n].body # <<>>
  OBVIOUS
<1> HIDE DEF I, h, secs
<1>4. I \in SUBSET Nat /\ IsFiniteSet(I)
  BY <1>1, IndicesFinite DEF secs
<1>5. h \in Runs /\ ToSet(h) = I
  BY <1>2, <1>4, AscendingLaw
<1>6. /\ Len(h) \in Nat
      /\ \A i \in 1 .. Len(h) : h[i] \in I /\ h[i] \in Nat
      /\ \A i, j \in 1 .. Len(h) : i < j => h[i] < h[j]
      /\ \A x \in I : \E i \in 1 .. Len(h) : x = h[i]
  BY <1>5, RunType
<1>7. ASSUME NEW i \in 1 .. Len(h), NEW j \in 1 .. Len(h), h[i] = h[j] PROVE i = j
  <2>1. ~ (i < j) /\ ~ (j < i)
    BY <1>6, <1>7
  <2> QED
    BY <2>1, <1>6
<1>8. \A i \in 1 .. Len(h) : h[i] \in 1 .. Len(secs)
  BY <1>1, <1>6 DEF secs
<1> QED
  BY <1>3, <1>5, <1>6, <1>7, <1>8 DEF h, secs

LEMMA SectionRowLaw ==
  ASSUME NEW doc, Placed(Sections(doc)), NEW i \in 1 .. Len(SolidOf(doc)),
         SolidOf(doc)[i] \in 1 .. Len(Sections(doc))
  PROVE  LET r == SectionRow(doc, i)
         IN /\ r.key = <<"section", SolidOf(doc)[i] - 1>> /\ r.parent = <<"document">>
            /\ ToSet(Sections(doc)[SolidOf(doc)[i]].body) \subseteq ToSet(r.text)
<1> DEFINE s == Sections(doc)[SolidOf(doc)[i]]
           p == s.path
           b == s.body
<1>1. s \in SectionRecs
  BY DEF Placed
<1>2. p \in Seq(Nat) /\ b \in Seq(Nat)
  <2>1. p \in Seq(Nat) /\ b \in Runs
    BY <1>1 DEF SectionRecs
  <2> QED
    BY <2>1, RunType
<1>3. SectionRow(doc, i).text = p \o b
  BY DEF SectionRow
<1> HIDE DEF p, b
<1>4. p \o b \in Seq(Nat) /\ Parted(p \o b, p, b)
  BY <1>2, BothParts
<1> DEFINE t == p \o b
           m == Len(p)
           n == Len(b)
<1>5. t \in Seq(Nat) /\ Len(t) = m + n /\ \A k \in 1 .. n : t[m + k] = b[k]
  BY <1>4 DEF Parted
<1>6. m \in Nat /\ n \in Nat /\ DOMAIN b = 1 .. n /\ DOMAIN t = 1 .. Len(t)
  <2>1. m \in Nat /\ n \in Nat /\ DOMAIN b = 1 .. n
    BY <1>2
  <2>2. DOMAIN t = 1 .. Len(t)
    BY <1>4
  <2> QED
    BY <2>1, <2>2
<1> HIDE DEF t, m, n
<1>7. \A k \in 1 .. n : m + k \in DOMAIN t
  BY <1>5, <1>6
<1>8. ToSet(b) \subseteq ToSet(t)
  BY <1>5, <1>6, <1>7 DEF ToSet
<1> QED
  BY <1>3, <1>8 DEF SectionRow, t, b

LEMMA RowsLaw_ ==
  ASSUME NEW doc, Len(doc) \in Nat, DOMAIN doc = 1 .. Len(doc),
         NEW leaves \in Seq(ChunkRecs), \A i \in 1 .. Len(leaves) : Homed(doc, leaves[i])
  PROVE  RowsHold(Hierarchy(doc, leaves), leaves)
<1> DEFINE secs == Sections(doc)
           h == SolidOf(doc)
           m == Len(h)
           l == Len(leaves)
           rows == Hierarchy(doc, leaves)
<1>1. Placed(secs) /\ Len(secs) \in Nat /\ DOMAIN secs = 1 .. Len(secs)
  <2>1. Placed(secs)
    BY SectionsLaw
  <2> HIDE DEF secs
  <2>2. secs \in Seq(SectionRecs)
    BY <2>1 DEF Placed
  <2> QED
    BY <2>1, <2>2
<1>2. /\ h \in Runs
      /\ \A i \in 1 .. m : /\ h[i] \in 1 .. Len(secs) /\ h[i] \in Nat
                           /\ \A j \in 1 .. m : h[i] = h[j] => i = j
      /\ \A n \in 1 .. Len(secs) : secs[n].body # <<>> => \E i \in 1 .. m : h[i] = n
  BY <1>1, SolidLaw
<1>3. RowsAre(rows, doc, leaves, m, l)
  <2>1. l \in Nat /\ DOMAIN leaves = 1 .. l
    OBVIOUS
  <2> QED
    BY <2>1, <1>2, HierarchyLaw
<1> HIDE DEF rows
<1>4. /\ m \in Nat /\ l \in Nat /\ DOMAIN rows = 1 .. 1 + m + l
      /\ rows[1] = DocumentRow(doc)
      /\ \A i \in 1 .. m : rows[1 + i] = SectionRow(doc, i)
      /\ \A i \in 1 .. l : rows[1 + m + i] = LeafRow(leaves, i)
  BY <1>3 DEF RowsAre
<1>5. \A i \in 1 .. m : /\ SectionRow(doc, i).key = <<"section", h[i] - 1>>
                        /\ SectionRow(doc, i).parent = <<"document">>
                        /\ ToSet(secs[h[i]].body) \subseteq ToSet(SectionRow(doc, i).text)
  BY <1>1, <1>2, SectionRowLaw
<1>6. /\ DocumentRow(doc).key = <<"document">> /\ DocumentRow(doc).parent = <<>>
      /\ DocumentRow(doc).text = WholeBody(doc)
  BY DEF DocumentRow, WholeBody
<1>7. \A i \in 1 .. l : /\ LeafRow(leaves, i).key = <<"chunk", i - 1>>
                        /\ LeafRow(leaves, i).parent
                             = IF leaves[i].ord = NoSection THEN <<"document">>
                               ELSE <<"section", leaves[i].ord>>
  BY DEF LeafRow
<1>8. \A i \in 1 .. l : Homed(doc, leaves[i])
  OBVIOUS
<1> HIDE DEF secs, h, m, l
<1>9. \A i \in 1 .. 1 + m + l :
        \/ i = 1 /\ rows[i] = DocumentRow(doc)
        \/ i - 1 \in 1 .. m /\ rows[i] = SectionRow(doc, i - 1)
        \/ i - 1 - m \in 1 .. l /\ rows[i] = LeafRow(leaves, i - 1 - m)
  <2> TAKE i \in 1 .. 1 + m + l
  <2>1. CASE i = 1
    BY <2>1, <1>4
  <2>2. CASE i # 1 /\ i <= 1 + m
    <3>1. i - 1 \in 1 .. m /\ 1 + (i - 1) = i
      BY <2>2, <1>4
    <3> QED
      BY <3>1, <1>4
  <2>3. CASE i > 1 + m
    <3>1. i - 1 - m \in 1 .. l /\ 1 + m + (i - 1 - m) = i
      BY <2>3, <1>4
    <3> QED
      BY <3>1, <1>4
  <2>4. i # 1 => i <= 1 + m \/ i > 1 + m
    BY <1>4
  <2> QED
    BY <2>1, <2>2, <2>3, <2>4
<1>10. ASSUME NEW i \in 1 .. 1 + m + l, rows[i].parent # <<>>
       PROVE  \E j \in 1 .. (i - 1) : ParentAt(rows, leaves, i, j)
  <2>1. ASSUME i - 1 \in 1 .. m, rows[i] = SectionRow(doc, i - 1)
        PROVE  \E j \in 1 .. (i - 1) : ParentAt(rows, leaves, i, j)
    <3>1. 1 \in 1 .. (i - 1)
      BY <2>1, <1>4
    <3>2. rows[i].parent = <<"document">> /\ rows[i].key = <<"section", h[i - 1] - 1>>
      BY <2>1, <1>5
    <3>3. rows[i].key[1] = "section"
      BY <3>2
    <3>4. "section" # "chunk"
      OBVIOUS
    <3>5. ParentAt(rows, leaves, i, 1)
      BY <3>2, <3>3, <3>4, <1>4, <1>6 DEF ParentAt
    <3> QED
      BY <3>1, <3>5
  <2>2. ASSUME i - 1 - m \in 1 .. l, rows[i] = LeafRow(leaves, i - 1 - m)
        PROVE  \E j \in 1 .. (i - 1) : ParentAt(rows, leaves, i, j)
    <3> DEFINE x == leaves[i - 1 - m]
    <3>a. rows[i].parent = IF x.ord = NoSection THEN <<"document">> ELSE <<"section", x.ord>>
      BY <2>2, <1>7
    <3>b. leaves[rows[i].key[2] + 1] = x
      <4> DEFINE z == i - 1 - m
      <4>0. z \in Nat
        BY <2>2, <1>4
      <4>1. rows[i].key = <<"chunk", z - 1>> /\ z \in Nat
        BY <2>2, <1>7, <4>0
      <4>2. x = leaves[z]
        OBVIOUS
      <4> HIDE DEF z, x
      <4>3. rows[i].key[2] = z - 1 /\ (z - 1) + 1 = z
        BY <4>1
      <4> QED
        BY <4>2, <4>3
    <3>1. /\ leaves[rows[i].key[2] + 1].own = x.own
          /\ rows[i].parent = IF x.ord = NoSection THEN <<"document">> ELSE <<"section", x.ord>>
      BY <3>a, <3>b
    <3>2. Homed(doc, x)
      BY <2>2, <1>8
    <3> HIDE DEF x
    <3>3. CASE x.ord = NoSection
      <4>1. 1 \in 1 .. (i - 1)
        BY <2>2, <1>4
      <4>2. ToSet(x.own) \subseteq ToSet(WholeBody(doc))
        BY <3>2, <3>3 DEF Homed
      <4>3. ParentAt(rows, leaves, i, 1)
        BY <3>1, <3>3, <4>2, <1>4, <1>6 DEF ParentAt
      <4> QED
        BY <4>1, <4>3
    <3>4. CASE x.ord # NoSection
      <4>1. PICK n : InSection(doc, x, n)
        BY <3>2, <3>4 DEF Homed
      <4>2. /\ n \in Nat /\ n \in 1 .. Len(secs) /\ secs[n].body # <<>>
            /\ x.ord = n - 1 /\ ToSet(x.own) \subseteq ToSet(secs[n].body)
        BY <4>1 DEF InSection, secs
      <4>3. PICK k \in 1 .. m : h[k] = n
        BY <4>2, <1>2
      <4>4. 1 + k \in 1 .. (i - 1)
        BY <2>2, <1>4
      <4>5. rows[1 + k] = SectionRow(doc, k)
        BY <1>4
      <4>6. rows[1 + k].key = <<"section", n - 1>>
            /\ ToSet(secs[n].body) \subseteq ToSet(rows[1 + k].text)
        BY <4>3, <4>5, <1>5
      <4>7. rows[i].parent = <<"section", n - 1>>
        BY <3>1, <3>4, <4>2
      <4>8. ToSet(x.own) \subseteq ToSet(rows[1 + k].text)
        BY <4>2, <4>6
      <4>9. ParentAt(rows, leaves, i, 1 + k)
        BY <3>1, <4>6, <4>7, <4>8 DEF ParentAt
      <4> QED
        BY <4>4, <4>9
    <3> QED
      BY <3>3, <3>4
  <2> QED
    BY <2>1, <2>2, <1>6, <1>9, <1>10
<1>11. \A i \in 1 .. 1 + m + l :
         \/ i = 1 /\ rows[i].key[1] = "document"
         \/ /\ i - 1 \in 1 .. m /\ rows[i].key[1] = "section"
            /\ rows[i].key[2] = h[i - 1] - 1
         \/ /\ i - 1 - m \in 1 .. l /\ rows[i].key[1] = "chunk"
            /\ rows[i].key[2] = i - 1 - m - 1
  <2> TAKE i \in 1 .. 1 + m + l
  <2>1. CASE i = 1
    <3>1. rows[i].key = <<"document">>
      BY <2>1, <1>4, <1>6
    <3> QED
      BY <2>1, <3>1
  <2>2. CASE i - 1 \in 1 .. m /\ rows[i] = SectionRow(doc, i - 1)
    <3> DEFINE x == h[i - 1] - 1
    <3>1. rows[i].key = <<"section", x>>
      BY <2>2, <1>5
    <3> HIDE DEF x
    <3>2. rows[i].key[1] = "section" /\ rows[i].key[2] = x
      BY <3>1
    <3> QED
      BY <2>2, <3>2 DEF x
  <2>3. CASE i - 1 - m \in 1 .. l /\ rows[i] = LeafRow(leaves, i - 1 - m)
    <3> DEFINE x == i - 1 - m - 1
    <3>1. rows[i].key = <<"chunk", x>>
      BY <2>3, <1>7
    <3> HIDE DEF x
    <3>2. rows[i].key[1] = "chunk" /\ rows[i].key[2] = x
      BY <3>1
    <3> QED
      BY <2>3, <3>2 DEF x
  <2> QED
    BY <2>1, <2>2, <2>3, <1>9
<1>12. ASSUME NEW i \in 1 .. 1 + m + l, NEW j \in 1 .. 1 + m + l, rows[i].key = rows[j].key
       PROVE  i = j
  <2> DEFINE a == rows[i].key[1]
             b == rows[i].key[2]
  <2>1. a = rows[j].key[1] /\ b = rows[j].key[2]
    BY <1>12
  <2>2. "document" # "section" /\ "document" # "chunk" /\ "section" # "chunk"
    OBVIOUS
  <2> HIDE DEF a, b
  <2>3. \/ i = 1 /\ a = "document"
        \/ i - 1 \in 1 .. m /\ a = "section" /\ b = h[i - 1] - 1
        \/ i - 1 - m \in 1 .. l /\ a = "chunk" /\ b = i - 1 - m - 1
    BY <1>11 DEF a, b
  <2>4. \/ j = 1 /\ a = "document"
        \/ j - 1 \in 1 .. m /\ a = "section" /\ b = h[j - 1] - 1
        \/ j - 1 - m \in 1 .. l /\ a = "chunk" /\ b = j - 1 - m - 1
    BY <1>11, <2>1
  <2>5. CASE a = "document"
    BY <2>2, <2>3, <2>4, <2>5
  <2>6. CASE a = "section"
    <3>1. i - 1 \in 1 .. m /\ j - 1 \in 1 .. m /\ h[i - 1] - 1 = h[j - 1] - 1
      BY <2>2, <2>3, <2>4, <2>6
    <3>2. h[i - 1] \in Nat /\ h[j - 1] \in Nat
      BY <3>1, <1>2
    <3>3. h[i - 1] = h[j - 1]
      BY <3>1, <3>2
    <3>4. i - 1 = j - 1
      BY <3>1, <3>3, <1>2
    <3> QED
      BY <3>4, <1>4
  <2>7. CASE a = "chunk"
    <3>1. i - 1 - m - 1 = j - 1 - m - 1
      BY <2>2, <2>3, <2>4, <2>7
    <3> QED
      BY <3>1, <1>4
  <2> QED
    BY <2>3, <2>5, <2>6, <2>7
<1> QED
  BY <1>4, <1>10, <1>12 DEF RowsHold, rows

\* The cases: what was given, and what the code made of it.
DocumentTried ==
  /\ chunking.kind = "document"
  /\ Len(chunking.doc) \in Nat /\ DOMAIN chunking.doc = 1 .. Len(chunking.doc)
  /\ IsConf(chunking.conf)
  /\ chunking.leaves = Leaves_(chunking.doc, chunking.strategy, chunking.conf)
WindowsTried ==
  /\ chunking.kind = "windows"
  /\ chunking.tokens \in Nat \ {0} /\ IsConf(chunking.conf)
  /\ chunking.ranges = Windows(chunking.tokens, chunking.conf)
ShiftsTried ==
  /\ chunking.kind = "shifts"
  /\ \E m \in Nat \ {0} : chunking.distances \in [1 .. m -> Nat]
  /\ chunking.percentile \in 0 .. 100
  /\ chunking.cuts = Shifts(chunking.distances, chunking.percentile)
PromptsTried ==
  /\ chunking.kind = "prompts"
  /\ \E n \in Nat \ {0} : chunking.sizes \in [1 .. n -> Nat]
  /\ chunking.budget \in Nat
  /\ chunking.prompts = Prompts(chunking.sizes, chunking.budget)
Tried ==
  chunking.kind = "none" \/ DocumentTried \/ WindowsTried \/ ShiftsTried \/ PromptsTried

LEMMA ConfTaken == ASSUME NEW c \in PackSizes PROVE IsConf(c)
BY ChunkingAssumption DEF IsConf

LEMMA DocumentTyped == ASSUME TryDocument PROVE DocumentTried'
<1>1. PICK n \in 1 .. MaxMarks : \E doc \in [1 .. n -> Marks], c \in PackSizes,
                                    strategy \in {"recursive", "paragraph"} :
        chunking' = [kind |-> "document", doc |-> doc, conf |-> c,
                     strategy |-> strategy, leaves |-> Leaves_(doc, strategy, c)]
  BY DEF TryDocument
<1>2. PICK doc \in [1 .. n -> Marks], c \in PackSizes, strategy \in {"recursive", "paragraph"} :
        chunking' = [kind |-> "document", doc |-> doc, conf |-> c,
                     strategy |-> strategy, leaves |-> Leaves_(doc, strategy, c)]
  BY <1>1
<1> DEFINE x == Leaves_(doc, strategy, c)
<1>3. chunking' = [kind |-> "document", doc |-> doc, conf |-> c,
                   strategy |-> strategy, leaves |-> x]
  BY <1>2
<1>4. n \in Nat
  BY ChunkingAssumption
<1>5. Len(doc) = n /\ DOMAIN doc = 1 .. n
  BY <1>4
<1>6. IsConf(c)
  BY ConfTaken
<1> HIDE DEF x
<1>7. /\ chunking'.kind = "document" /\ chunking'.doc = doc /\ chunking'.conf = c
      /\ chunking'.strategy = strategy /\ chunking'.leaves = x
  BY <1>3
<1> QED
  BY <1>4, <1>5, <1>6, <1>7 DEF DocumentTried, x

LEMMA WindowsTyped == ASSUME TryWindows PROVE WindowsTried'
<1>1. PICK n \in 1 .. MaxTokens, c \in PackSizes :
        chunking' = [kind |-> "windows", tokens |-> n, conf |-> c, ranges |-> Windows(n, c)]
  BY DEF TryWindows
<1> QED
  BY <1>1, ConfTaken, ChunkingAssumption DEF WindowsTried

LEMMA ShiftsTyped == ASSUME TryShifts PROVE ShiftsTried'
<1>1. PICK n \in 1 .. (MaxSentences - 1), percentile \in {20, 50, 95, 100} :
        \E distances \in [1 .. n -> 0 .. 2] :
          chunking' = [kind |-> "shifts", distances |-> distances, percentile |-> percentile,
                       cuts |-> Shifts(distances, percentile)]
  BY DEF TryShifts
<1>2. PICK distances \in [1 .. n -> 0 .. 2] :
        chunking' = [kind |-> "shifts", distances |-> distances, percentile |-> percentile,
                     cuts |-> Shifts(distances, percentile)]
  BY <1>1
<1>3. n \in Nat \ {0} /\ distances \in [1 .. n -> Nat] /\ percentile \in 0 .. 100
  BY ChunkingAssumption
<1> QED
  BY <1>2, <1>3 DEF ShiftsTried

LEMMA PromptsTyped == ASSUME TryPrompts PROVE PromptsTried'
<1>1. PICK n \in 1 .. MaxSentences, budget \in 1 .. 3 :
        \E sizes \in [1 .. n -> 1 .. 3], answer \in SUBSET (0 .. MaxSentences) :
          chunking' = [kind |-> "prompts", sizes |-> sizes, budget |-> budget,
                       prompts |-> Prompts(sizes, budget), answer |-> answer]
  BY DEF TryPrompts
<1>2. PICK sizes \in [1 .. n -> 1 .. 3], answer \in SUBSET (0 .. MaxSentences) :
        chunking' = [kind |-> "prompts", sizes |-> sizes, budget |-> budget,
                     prompts |-> Prompts(sizes, budget), answer |-> answer]
  BY <1>1
<1>3. n \in Nat \ {0} /\ sizes \in [1 .. n -> Nat] /\ budget \in Nat
  BY ChunkingAssumption
<1> QED
  BY <1>2, <1>3 DEF PromptsTried

\* What is tried is of one kind, and what was made of it is what the code makes.
LEMMA TriesTyped == ChunkingInit /\ [][ChunkingNext]_chunking => []Tried
<1>1. ChunkingInit => Tried
  BY DEF ChunkingInit, NothingChunked, Tried
<1>2. Tried /\ [ChunkingNext]_chunking => Tried'
  <2> SUFFICES ASSUME Tried, [ChunkingNext]_chunking PROVE Tried'
    OBVIOUS
  <2>1. CASE UNCHANGED chunking
    BY <2>1 DEF Tried, DocumentTried, WindowsTried, ShiftsTried, PromptsTried
  <2>2. CASE TryDocument
    BY <2>2, DocumentTyped DEF Tried
  <2>3. CASE TryWindows
    BY <2>3, WindowsTyped DEF Tried
  <2>4. CASE TryShifts
    BY <2>4, ShiftsTyped DEF Tried
  <2>5. CASE TryPrompts
    BY <2>5, PromptsTyped DEF Tried
  <2> QED
    BY <2>1, <2>2, <2>3, <2>4, <2>5 DEF ChunkingNext
<1> QED
  BY <1>1, <1>2, PTL

LEMMA DocumentsSound == ASSUME DocumentTried PROVE LeavesCover /\ PackedToSize /\ ParentsHold
<1> DEFINE doc == chunking.doc
           c == chunking.conf
           leaves == chunking.leaves
<1>1. /\ Len(doc) \in Nat /\ DOMAIN doc = 1 .. Len(doc) /\ IsConf(c)
      /\ leaves = Leaves_(doc, chunking.strategy, c)
  BY DEF DocumentTried
<1>2. CoverIs(doc, leaves)
  BY <1>1, CoverLaw
<1>3. /\ leaves \in Seq(ChunkRecs) /\ SizesHold(doc, c, leaves)
      /\ \A i \in 1 .. Len(leaves) : Homed(doc, leaves[i])
  BY <1>1, LeavesSettle
<1>4. RowsHold(Hierarchy(doc, leaves), leaves)
  BY <1>1, <1>3, RowsLaw_
<1>5. \A n \in DOMAIN Sections(doc) : PathHolds(doc, Sections(doc)[n])
  <2>1. Placed(Sections(doc))
    BY <1>1, SectionsLaw
  <2>2. DOMAIN Sections(doc) = 1 .. Len(Sections(doc))
    BY <2>1 DEF Placed
  <2> QED
    BY <1>1, <2>2, PathsHold
<1>6. LeavesCover
  BY <1>2 DEF LeavesCover, CoverIs
<1>7. PackedToSize
  BY <1>3 DEF PackedToSize, SizesHold
<1>8. ParentsHold
  BY <1>4, <1>5, Zenon DEF ParentsHold, RowsHold, ParentAt, PathHolds
<1> QED
  BY <1>6, <1>7, <1>8

LEMMA WindowsSound == ASSUME WindowsTried PROVE WindowsCover
<1>1. Covering(chunking.ranges, chunking.tokens, chunking.conf)
  BY WindowsLaw DEF WindowsTried
<1> QED
  BY <1>1 DEF WindowsCover, Covering

LEMMA ShiftsSound == ASSUME ShiftsTried PROVE CutsSound
<1>1. CutsAtTop(chunking.distances, chunking.cuts, chunking.percentile)
  BY ShiftsLaw DEF ShiftsTried
<1>2. ~ IsTry("prompts")
  BY DEF ShiftsTried, IsTry
<1> QED
  BY <1>1, <1>2 DEF CutsSound, CutsAtTop

LEMMA PromptsKeep == ASSUME PromptsTried PROVE CutsSound
<1>1. PromptsSound(chunking.prompts, chunking.sizes, chunking.budget, chunking.answer)
  BY PromptsHold DEF PromptsTried
<1>2. ~ IsTry("shifts")
  BY DEF PromptsTried, IsTry
<1> QED
  BY <1>1, <1>2 DEF CutsSound, PromptsSound

\* Whatever the document, the sizes, the windows, the distances and the sentences are:
\* the chunks keep the text of the sections once, to the size that was asked for, and
\* each has its parent row; windows cover every token and share the overlap; semantic
\* cuts are at the largest distances, and prompts keep the sentences in order and
\* within the budget (chunking/).
THEOREM ChunkingStaysSound == ChunkingInit /\ [][ChunkingNext]_chunking => []ChunkingSound
<1>1. Tried => ChunkingSound
  <2> SUFFICES ASSUME Tried PROVE ChunkingSound
    OBVIOUS
  <2>1. CASE chunking.kind = "none"
    BY <2>1 DEF ChunkingSound, LeavesCover, PackedToSize, ParentsHold, WindowsCover,
                CutsSound, IsTry
  <2>2. CASE DocumentTried
    <3>1. ~ IsTry("windows") /\ ~ IsTry("shifts") /\ ~ IsTry("prompts")
      BY <2>2 DEF DocumentTried, IsTry
    <3>2. WindowsCover /\ CutsSound
      BY <3>1 DEF WindowsCover, CutsSound
    <3> QED
      BY <2>2, <3>2, DocumentsSound DEF ChunkingSound
  <2>3. CASE ~ DocumentTried /\ chunking.kind # "none"
    <3>1. WindowsTried \/ ShiftsTried \/ PromptsTried
      BY <2>3 DEF Tried
    <3>2. ~ IsTry("document")
      BY <3>1 DEF WindowsTried, ShiftsTried, PromptsTried, IsTry
    <3>3. LeavesCover /\ PackedToSize /\ ParentsHold
      BY <3>2 DEF LeavesCover, PackedToSize, ParentsHold
    <3>4. CASE WindowsTried
      <4>1. ~ IsTry("shifts") /\ ~ IsTry("prompts")
        BY <3>4 DEF WindowsTried, IsTry
      <4>2. CutsSound
        BY <4>1 DEF CutsSound
      <4> QED
        BY <3>3, <3>4, <4>2, WindowsSound DEF ChunkingSound
    <3>5. CASE ShiftsTried \/ PromptsTried
      <4>1. ~ IsTry("windows")
        BY <3>5 DEF ShiftsTried, PromptsTried, IsTry
      <4>2. WindowsCover
        BY <4>1 DEF WindowsCover
      <4> QED
        BY <3>3, <3>5, <4>2, ShiftsSound, PromptsKeep DEF ChunkingSound
    <3> QED
      BY <3>1, <3>4, <3>5
  <2> QED
    BY <2>1, <2>2, <2>3
<1> QED
  BY <1>1, TriesTyped, PTL
=============================================================================
