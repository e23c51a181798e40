--------------------------- MODULE PlannerProofs ---------------------------
(***************************************************************************)
(* An accepted plan suits every member: the merged limits of a group are   *)
(* at least as strict as those of each, the rules are checked against the  *)
(* merged limits, and what is chosen is one of the plans that passed.  The *)
(* answers of a review leave all of the checks as they were but that of    *)
(* the budget.                                                             *)
(*                                                                         *)
(* The recommendation keeps everybody's hard limits, takes the ranking of  *)
(* the model as a hint, and finds a plan among what was signed.  All three *)
(* rest on one fact: every list that it sorts is sorted by a key that      *)
(* tells the places apart, so that the lists hold each place once and do   *)
(* not depend on how the places were found.                                *)
(*                                                                         *)
(* Sums, least elements and choices are proved to be what they are meant   *)
(* to be by a smallest counterexample: the folds of the community modules  *)
(* are functions that are defined by recursion on a set.                   *)
(***************************************************************************)
EXTENDS PlanRequests, Recommendation, FiniteSetTheorems, SequenceTheorems,
        WellFoundedInduction, TLAPS

-----------------------------------------------------------------------------
(* Least elements. *)

\* A set of natural numbers has a least one.
LEMMA LeastNatural ==
  ASSUME NEW T \in SUBSET Nat, T # {}
  PROVE  \E n \in T : \A m \in T : n <= m
<1>1. PICK n \in T : \A m \in T : <<m, n>> \notin OpToRel(<, Nat)
  BY NatLessThanWellFounded, WFMin
<1>2. ASSUME NEW m \in T PROVE n <= m
  <2>1. ~(m < n)
    BY <1>1 DEF OpToRel
  <2> QED  BY <2>1
<1> QED  BY <1>2

\* A finite set has a least element in any total order.
LEMMA LeastOfOrder ==
  ASSUME NEW R, NEW K, IsFiniteSet(K), K # {},
         \A k, l \in K : k = l \/ <<k, l>> \in R \/ <<l, k>> \in R,
         \A k, l, m \in K : <<k, l>> \in R /\ <<l, m>> \in R => <<k, m>> \in R
  PROVE  \E k \in K : \A l \in K : l = k \/ <<k, l>> \in R
<1> DEFINE HasLeast(J) == \E k \in J : \A l \in J : l = k \/ <<k, l>> \in R
           Bad == {n \in Nat : \E J \in SUBSET K : J # {} /\ Cardinality(J) = n /\ ~HasLeast(J)}
<1> SUFFICES ASSUME ~HasLeast(K) PROVE FALSE
  OBVIOUS
<1>1. Cardinality(K) \in Bad /\ Bad \in SUBSET Nat
  BY FS_CardinalityType
<1>2. PICK n \in Nat : n \in Bad /\ \A m \in Bad : n <= m
  <2> HIDE DEF Bad
  <2> QED  BY <1>1, LeastNatural
<1>3. PICK J \in SUBSET K : J # {} /\ Cardinality(J) = n /\ ~HasLeast(J)
  BY <1>2
<1>4. PICK x \in J : TRUE
  BY <1>3
<1>5. IsFiniteSet(J)
  BY FS_Subset
<1>6. Cardinality(J \ {x}) = n - 1 /\ n - 1 \in Nat
  <2>1. Cardinality(J \ {x}) = n - 1 /\ IsFiniteSet(J \ {x})
    BY <1>3, <1>4, <1>5, FS_RemoveElement
  <2> QED  BY <2>1, FS_CardinalityType
<1>7. J \ {x} # {}
  <2> SUFFICES ASSUME J \ {x} = {} PROVE FALSE
    OBVIOUS
  <2>1. HasLeast(J)
    BY <1>4
  <2> QED  BY <2>1, <1>3
<1>8. HasLeast(J \ {x})
  <2>1. n - 1 \in Bad => n <= n - 1
    BY <1>2
  <2> HIDE DEF Bad
  <2>2. n - 1 \notin Bad
    BY <2>1, <1>6
  <2> USE DEF Bad
  <2>3. J \ {x} \in SUBSET K
    OBVIOUS
  <2> QED  BY <2>2, <2>3, <1>6, <1>7
<1>9. PICK k \in J \ {x} : \A l \in J \ {x} : l = k \/ <<k, l>> \in R
  BY <1>8
<1>10. CASE <<k, x>> \in R
  <2>1. HasLeast(J)
    BY <1>9, <1>10
  <2> QED  BY <2>1, <1>3
<1>11. CASE <<x, k>> \in R
  <2>1. \A l \in J : l = x \/ <<x, l>> \in R
    BY <1>9, <1>11, <1>4
  <2>2. HasLeast(J)
    BY <2>1, <1>4
  <2> QED  BY <2>2, <1>3
<1> QED  BY <1>9, <1>10, <1>11, <1>4

\* Min is the least number of a finite set.
LEMMA MinOfSet ==
  ASSUME NEW S \in SUBSET Int, IsFiniteSet(S), S # {}
  PROVE  Min(S) \in S /\ \A x \in S : Min(S) <= x
<1> DEFINE R == {p \in Int \X Int : p[1] < p[2]}
<1>1. \E k \in S : \A l \in S : l = k \/ <<k, l>> \in R
  <2>1. \A k, l \in S : k \in Int /\ l \in Int /\ (<<k, l>> \in R <=> k < l)
    OBVIOUS
  <2> HIDE DEF R
  <2>2. ASSUME NEW k \in S, NEW l \in S
        PROVE  k = l \/ <<k, l>> \in R \/ <<l, k>> \in R
    <3>1. k < l \/ k = l \/ l < k
      BY <2>1
    <3> QED  BY <2>1, <3>1
  <2>3. \A k, l, m \in S : <<k, l>> \in R /\ <<l, m>> \in R => <<k, m>> \in R
    BY <2>1
  <2> QED  BY <2>2, <2>3, LeastOfOrder
<1>2. \A k, l \in S : <<k, l>> \in R \/ l = k => k <= l
  OBVIOUS
<1>3. \E k \in S : \A l \in S : k <= l
  BY <1>1, <1>2
<1> QED  BY <1>3 DEF Min

\* Max is the greatest number of a finite set.
LEMMA MaxOfSet ==
  ASSUME NEW S \in SUBSET Int, IsFiniteSet(S), S # {}
  PROVE  Max(S) \in S /\ \A x \in S : x <= Max(S)
<1> DEFINE R == {p \in Int \X Int : p[2] < p[1]}
<1>1. \E k \in S : \A l \in S : l = k \/ <<k, l>> \in R
  <2>1. \A k, l \in S : k \in Int /\ l \in Int /\ (<<k, l>> \in R <=> l < k)
    OBVIOUS
  <2> HIDE DEF R
  <2>2. ASSUME NEW k \in S, NEW l \in S
        PROVE  k = l \/ <<k, l>> \in R \/ <<l, k>> \in R
    <3>1. k < l \/ k = l \/ l < k
      BY <2>1
    <3> QED  BY <2>1, <3>1
  <2>3. \A k, l, m \in S : <<k, l>> \in R /\ <<l, m>> \in R => <<k, m>> \in R
    BY <2>1
  <2> QED  BY <2>2, <2>3, LeastOfOrder
<1>2. \A k, l \in S : <<k, l>> \in R \/ l = k => k >= l /\ l <= k
  OBVIOUS
<1>3. \E k \in S : \A l \in S : k >= l
  BY <1>1, <1>2
<1> QED  BY <1>3 DEF Max

\* The smaller of two numbers.
LEMMA MinOfTwo ==
  ASSUME NEW a \in Int, NEW b \in Int
  PROVE  /\ Min({a, b}) = IF a <= b THEN a ELSE b
         /\ Min({a, b}) \in {a, b} /\ Min({a, b}) <= a /\ Min({a, b}) <= b
<1>1. IsFiniteSet({a}) /\ IsFiniteSet({b}) /\ {a, b} = {a} \cup {b}
  BY FS_Singleton
<1>2. IsFiniteSet({a, b})
  BY <1>1, FS_Union
<1>3. Min({a, b}) \in {a, b} /\ Min({a, b}) <= a /\ Min({a, b}) <= b
  BY <1>2, MinOfSet
<1> QED  BY <1>3

\* The greater of two numbers is a number.
LEMMA MaxOfTwo ==
  ASSUME NEW a \in Int, NEW b \in Int
  PROVE  Max({a, b}) \in Int
<1>1. IsFiniteSet({a} \cup {b})
  BY FS_Singleton, FS_Union
<1>2. {a, b} = {a} \cup {b}
  OBVIOUS
<1>3. IsFiniteSet({a, b})
  BY <1>1, <1>2
<1> QED  BY <1>3, MaxOfSet

\* There are n numbers from 1 to n.
LEMMA SoManyNumbers ==
  ASSUME NEW n \in Nat
  PROVE  IsFiniteSet(1..n) /\ Cardinality(1..n) = n
BY FS_Interval

-----------------------------------------------------------------------------
(* Sums. *)

\* The sum of a sequence.
Total(seq) == FoldLeft(+, 0, seq)

\* The sum of v over a set.
Added(v, S) == MapThenSumSet(LAMBDA w : v[w], S)

\* c takes an element of every subset of S.
Takes(c, S) == \A s \in SUBSET S : s # {} => c[s] \in s

\* The values of v on S are in T.
AreIn(v, S, T) == \A x \in S : v[x] \in T

\* g adds up v over the subsets of S, in the order in which c takes the elements.
AddsUp(g, S, v, c) ==
    \A s \in SUBSET S :
        \/ s = {} /\ g[s] = 0
        \/ s # {} /\ g[s] = v[c[s]] + g[s \ {c[s]}]
        \/ s # {} /\ g[s] = g[s \ {c[s]}] + v[c[s]]

\* What adds up numbers is a number.
LEMMA SumIsNumber ==
  ASSUME NEW S, IsFiniteSet(S), NEW T \in {Nat, Int}, NEW v, NEW c, NEW g,
         AreIn(v, S, T), Takes(c, S),
         AddsUp(g, S, v, c)
  PROVE  g[S] \in T
<1> DEFINE Bad == {n \in Nat : \E s \in SUBSET S : Cardinality(s) = n /\ g[s] \notin T}
<1> SUFFICES ASSUME g[S] \notin T PROVE FALSE
  OBVIOUS
<1>1. Cardinality(S) \in Bad
  BY FS_CardinalityType
<1>2. PICK n \in Nat : n \in Bad /\ \A m \in Bad : n <= m
  BY <1>1, LeastNatural
<1>3. PICK s \in SUBSET S : Cardinality(s) = n /\ g[s] \notin T
  BY <1>2
<1>4. s # {}
  <2>1. 0 \in T
    OBVIOUS
  <2>2. g[{}] = 0
    BY DEF AddsUp
  <2> QED  BY <1>3, <2>1, <2>2
<1>5. c[s] \in s /\ v[c[s]] \in T
  BY <1>4 DEF Takes, AreIn
<1>6. Cardinality(s \ {c[s]}) = n - 1 /\ n - 1 \in Nat
  <2>1. IsFiniteSet(s)
    BY FS_Subset
  <2>2. Cardinality(s \ {c[s]}) = n - 1 /\ IsFiniteSet(s \ {c[s]})
    BY <1>3, <1>5, <2>1, FS_RemoveElement
  <2> QED  BY <2>2, FS_CardinalityType
<1>7. g[s \ {c[s]}] \in T
  <2>1. n - 1 \in Bad => n <= n - 1
    BY <1>2
  <2> HIDE DEF Bad
  <2>2. n - 1 \notin Bad
    BY <2>1, <1>6
  <2> USE DEF Bad
  <2>3. s \ {c[s]} \in SUBSET S
    OBVIOUS
  <2> QED  BY <2>2, <2>3, <1>6
<1>8. g[s] = v[c[s]] + g[s \ {c[s]}] \/ g[s] = g[s \ {c[s]}] + v[c[s]]
  BY <1>4 DEF AddsUp
<1>9. \A x, y \in T : x + y \in T
  OBVIOUS
<1> QED  BY <1>3, <1>5, <1>7, <1>8, <1>9

\* There is a function that adds up v: the recursive definition has a solution.
LEMMA SumExists ==
  ASSUME NEW S, IsFiniteSet(S), NEW v, NEW c,
         AreIn(v, S, Int), Takes(c, S)
  PROVE  \E g \in [SUBSET S -> Int] : AddsUp(g, S, v, c)
<1> DEFINE Next(g, s) == IF s = {} THEN 0 ELSE v[c[s]] + g[s \ {c[s]}]
           Up(g, n) == \A s \in SUBSET S : Cardinality(s) <= n => g[s] = Next(g, s)
           Bad == {n \in Nat : ~ \E g \in [SUBSET S -> Int] : Up(g, n)}
<1>0. \A s \in SUBSET S :
         IsFiniteSet(s) /\ Cardinality(s) \in Nat /\ Cardinality(s) <= Cardinality(S)
  BY FS_Subset, FS_CardinalityType
<1>1. Bad = {}
  <2> SUFFICES ASSUME Bad # {} PROVE FALSE
    OBVIOUS
  <2>1. PICK n \in Nat : n \in Bad /\ \A m \in Bad : n <= m
    BY LeastNatural
  <2>2. n # 0
    <3>1. Up([s \in SUBSET S |-> 0], 0)
      <4> SUFFICES ASSUME NEW s \in SUBSET S, Cardinality(s) <= 0 PROVE s = {}
        OBVIOUS
      <4> QED  BY <1>0, FS_EmptySet
    <3>2. [s \in SUBSET S |-> 0] \in [SUBSET S -> Int]
      OBVIOUS
    <3>3. 0 \notin Bad
      BY <3>1, <3>2
    <3> QED  BY <3>3, <2>1
  <2>3. PICK g \in [SUBSET S -> Int] : Up(g, n - 1)
    <3>1. n - 1 \in Nat
      BY <2>2
    <3> HIDE DEF Bad
    <3>2. n - 1 \notin Bad
      BY <2>1, <3>1
    <3> USE DEF Bad
    <3> QED  BY <3>1, <3>2
  <2> DEFINE h == [s \in SUBSET S |-> IF Cardinality(s) <= n - 1 THEN g[s] ELSE Next(g, s)]
  <2>4. \A s \in SUBSET S : Next(g, s) \in Int
    <3> SUFFICES ASSUME NEW s \in SUBSET S, s # {} PROVE v[c[s]] + g[s \ {c[s]}] \in Int
      OBVIOUS
    <3>1. c[s] \in S /\ s \ {c[s]} \in SUBSET S
      BY DEF Takes
    <3> QED  BY <3>1 DEF AreIn
  <2>5. h \in [SUBSET S -> Int]
    BY <2>4
  <2>6. Up(h, n)
    <3> SUFFICES ASSUME NEW s \in SUBSET S, Cardinality(s) <= n PROVE h[s] = Next(h, s)
      OBVIOUS
    <3>1. h[s] = Next(g, s)
      BY <2>3
    <3>2. CASE s = {}
      BY <3>1, <3>2
    <3>3. CASE s # {}
      <4>1. s \ {c[s]} \in SUBSET S /\ c[s] \in s
        BY <3>3 DEF Takes
      <4>2. Cardinality(s \ {c[s]}) <= n - 1
        <5>1. IsFiniteSet(s) /\ Cardinality(s) \in Nat
          BY <1>0
        <5>2. Cardinality(s \ {c[s]}) = Cardinality(s) - 1
          BY ONLY <4>1, <5>1, FS_RemoveElement
        <5> QED  BY <5>1, <5>2
      <4>3. h[s \ {c[s]}] = g[s \ {c[s]}]
        BY <4>1, <4>2
      <4> QED  BY <3>1, <4>3
    <3> QED  BY <3>2, <3>3
  <2>7. n \notin Bad
    BY <2>5, <2>6
  <2> QED  BY <2>1, <2>7
<1>2. Cardinality(S) \in Nat
  BY FS_CardinalityType
<1>3. PICK g \in [SUBSET S -> Int] : Up(g, Cardinality(S))
  BY <1>1, <1>2
<1>4. \A s \in SUBSET S : g[s] = Next(g, s)
  BY <1>0, <1>3
<1> QED  BY <1>4 DEF AddsUp

\* The sum of a sequence adds up its elements, the last one first.
LEMMA SequenceAddsUp ==
  ASSUME NEW S, IsFiniteSet(S), S \in SUBSET Int,
         NEW seq, DOMAIN seq = S, \A i \in S : seq[i] \in Int
  PROVE  \E g, c : Takes(c, S) /\ AddsUp(g, S, seq, c) /\ Total(seq) = g[S]
<1> DEFINE Next(g, s) == IF s = {} THEN 0 ELSE g[s \ {Max(s)}] + seq[Max(s)]
           iter == CHOOSE g : g = [s \in SUBSET S |-> Next(g, s)]
           c == [s \in SUBSET S |-> Max(s)]
<1>1. \A s \in SUBSET S : s # {} => c[s] = Max(s) /\ c[s] \in s
  <2> SUFFICES ASSUME NEW s \in SUBSET S, s # {} PROVE Max(s) \in s
    OBVIOUS
  <2>1. IsFiniteSet(s) /\ s \in SUBSET Int
    BY FS_Subset
  <2> QED  BY <2>1, MaxOfSet
<1>2. AreIn(seq, S, Int)
  BY DEF AreIn
<1>3. PICK g \in [SUBSET S -> Int] : AddsUp(g, S, seq, c)
  <2> HIDE DEF c
  <2>1. Takes(c, S)
    BY <1>1 DEF Takes
  <2> HIDE DEF Next, iter
  <2> QED  BY <1>2, <2>1, SumExists
<1>4. g = [s \in SUBSET S |-> Next(g, s)]
  <2>1. ASSUME NEW s \in SUBSET S PROVE g[s] = Next(g, s)
    <3>1. CASE s = {}
      BY <1>3, <3>1 DEF AddsUp
    <3>2. CASE s # {}
      <4>1. c[s] \in S /\ s \ {c[s]} \in SUBSET S /\ c[s] = Max(s)
        BY <1>1, <3>2
      <4> HIDE DEF c
      <4>2. seq[c[s]] \in Int /\ g[s \ {c[s]}] \in Int
        BY <1>2, <4>1 DEF AreIn
      <4>3. g[s] = seq[c[s]] + g[s \ {c[s]}] \/ g[s] = g[s \ {c[s]}] + seq[c[s]]
        BY <1>3, <3>2 DEF AddsUp
      <4>4. g[s] = g[s \ {c[s]}] + seq[c[s]]
        BY <4>2, <4>3
      <4> QED  BY <3>2, <4>1, <4>4
    <3> QED  BY <3>1, <3>2
  <2> QED  BY <2>1
<1>5. iter = [s \in SUBSET S |-> Next(iter, s)]
  BY <1>4
<1>6. AddsUp(iter, S, seq, c)
  <2> SUFFICES ASSUME NEW s \in SUBSET S
               PROVE  \/ s = {} /\ iter[s] = 0
                      \/ s # {} /\ iter[s] = iter[s \ {c[s]}] + seq[c[s]]
    BY DEF AddsUp
  <2> HIDE DEF iter
  <2>1. iter[s] = Next(iter, s)
    BY <1>5
  <2> QED  BY <2>1
<1>7. Takes(c, S)
  <2> HIDE DEF c
  <2> QED  BY <1>1 DEF Takes
<1>8. Total(seq) = iter[S]
  BY DEF Total, FoldLeft, MapThenFoldSet
<1> HIDE DEF iter, c
<1> QED  BY <1>6, <1>7, <1>8

\* The sum of a sequence of numbers is a number.
LEMMA SequenceSum ==
  ASSUME NEW S, IsFiniteSet(S), S \in SUBSET Int, NEW T \in {Nat, Int},
         NEW seq, DOMAIN seq = S, \A i \in S : seq[i] \in T
  PROVE  Total(seq) \in T
<1>1. \A i \in S : seq[i] \in Int
  OBVIOUS
<1>2. PICK g, c : Takes(c, S) /\ AddsUp(g, S, seq, c) /\ Total(seq) = g[S]
  BY <1>1, SequenceAddsUp
<1>3. AreIn(seq, S, T)
  BY DEF AreIn
<1> QED  BY <1>2, <1>3, SumIsNumber

\* The sum over a finite set adds up the values, in an order that is chosen.
LEMMA SetAddsUp ==
  ASSUME NEW S, IsFiniteSet(S), NEW v, AreIn(v, S, Int)
  PROVE  \E g, c : Takes(c, S) /\ AddsUp(g, S, v, c) /\ Added(v, S) = g[S]
<1> DEFINE Next(g, s) == IF s = {} THEN 0
                         ELSE v[CHOOSE x \in s : TRUE] + g[s \ {CHOOSE x \in s : TRUE}]
           iter == CHOOSE g : g = [s \in SUBSET S |-> Next(g, s)]
           c == [s \in SUBSET S |-> CHOOSE x \in s : TRUE]
<1>1. \A s \in SUBSET S : s # {} => c[s] = (CHOOSE x \in s : TRUE) /\ c[s] \in s
  OBVIOUS
<1>3. PICK g \in [SUBSET S -> Int] : AddsUp(g, S, v, c)
  <2> HIDE DEF c
  <2>1. Takes(c, S)
    BY <1>1 DEF Takes
  <2> HIDE DEF Next, iter
  <2> QED  BY <2>1, SumExists
<1>4. g = [s \in SUBSET S |-> Next(g, s)]
  <2>1. ASSUME NEW s \in SUBSET S PROVE g[s] = Next(g, s)
    <3>1. CASE s = {}
      BY <1>3, <3>1 DEF AddsUp
    <3>2. CASE s # {}
      <4>1. c[s] \in S /\ s \ {c[s]} \in SUBSET S /\ c[s] = CHOOSE x \in s : TRUE
        BY <1>1, <3>2
      <4> HIDE DEF c
      <4>2. v[c[s]] \in Int /\ g[s \ {c[s]}] \in Int
        BY <4>1 DEF AreIn
      <4>3. g[s] = v[c[s]] + g[s \ {c[s]}] \/ g[s] = g[s \ {c[s]}] + v[c[s]]
        BY <1>3, <3>2 DEF AddsUp
      <4>4. g[s] = v[c[s]] + g[s \ {c[s]}]
        BY <4>2, <4>3
      <4> QED  BY <3>2, <4>1, <4>4
    <3> QED  BY <3>1, <3>2
  <2> QED  BY <2>1
<1>5. iter = [s \in SUBSET S |-> Next(iter, s)]
  BY <1>4
<1>6. AddsUp(iter, S, v, c)
  <2> SUFFICES ASSUME NEW s \in SUBSET S
               PROVE  \/ s = {} /\ iter[s] = 0
                      \/ s # {} /\ iter[s] = v[c[s]] + iter[s \ {c[s]}]
    BY DEF AddsUp
  <2> HIDE DEF iter
  <2>1. iter[s] = Next(iter, s)
    BY <1>5
  <2> QED  BY <2>1
<1>7. Takes(c, S)
  <2> HIDE DEF c
  <2> QED  BY <1>1 DEF Takes
<1>8. Added(v, S) = iter[S]
  BY DEF Added, MapThenSumSet, MapThenFoldSet
<1> HIDE DEF iter, c
<1> QED  BY <1>6, <1>7, <1>8

\* The sum over a finite set is a number.
LEMMA SetSum ==
  ASSUME NEW S, IsFiniteSet(S), NEW T \in {Nat, Int}, NEW v, AreIn(v, S, T)
  PROVE  Added(v, S) \in T
<1>1. AreIn(v, S, Int)
  BY DEF AreIn
<1>2. PICK g, c : Takes(c, S) /\ AddsUp(g, S, v, c) /\ Added(v, S) = g[S]
  BY <1>1, SetAddsUp
<1> QED  BY <1>2, SumIsNumber

\* The image of a finite set is finite.
LEMMA FiniteImage ==
  ASSUME NEW S, IsFiniteSet(S), NEW h
  PROVE  IsFiniteSet({h[x] : x \in S})
<1> DEFINE T == {h[x] : x \in S}
           f == [x \in S |-> h[x]]
<1>1. f \in Surjection(S, T)
  BY DEF Surjection
<1> QED  BY <1>1, FS_Surjection

-----------------------------------------------------------------------------
(* Sums do not depend on the order. *)

\* The smallest counterexample among the subsets of a finite set.
LEMMA SmallestSet ==
  ASSUME NEW S, IsFiniteSet(S), NEW Bad \in SUBSET SUBSET S, Bad # {}
  PROVE  \E s \in Bad : \A x \in s : s \ {x} \notin Bad
<1> DEFINE sizes == {n \in Nat : \E s \in Bad : Cardinality(s) = n}
<1>1. \A s \in Bad : IsFiniteSet(s) /\ Cardinality(s) \in Nat
  BY FS_Subset, FS_CardinalityType
<1>2. sizes # {} /\ sizes \in SUBSET Nat
  BY <1>1
<1>3. PICK n \in sizes : \A m \in sizes : n <= m
  <2> HIDE DEF sizes
  <2> QED  BY <1>2, LeastNatural
<1>4. PICK s \in Bad : Cardinality(s) = n
  BY <1>3
<1>5. ASSUME NEW x \in s, s \ {x} \in Bad  PROVE FALSE
  <2>1. Cardinality(s \ {x}) = n - 1 /\ Cardinality(s \ {x}) \in Nat
    BY <1>1, <1>4, <1>5, FS_RemoveElement
  <2>2. n - 1 \in sizes
    BY <1>5, <2>1
  <2>3. n \in Nat /\ n <= n - 1
    BY <1>3, <2>2
  <2> QED  BY <2>3
<1> QED  BY <1>4, <1>5

\* g has the sum of v over every subset of S.
SumsUp(g, S, v) ==
    /\ g[{}] = 0
    /\ \A s \in SUBSET S : g[s] \in Int
    /\ \A s \in SUBSET S : \A x \in s : g[s] = v[x] + g[s \ {x}]

\* What adds up in one order has the sums in any order.
LEMMA AnyOrder ==
  ASSUME NEW S, IsFiniteSet(S), NEW v, NEW c, NEW g,
         AreIn(v, S, Int), Takes(c, S), AddsUp(g, S, v, c)
  PROVE  SumsUp(g, S, v)
<1>1. g[{}] = 0
  BY DEF AddsUp
<1>2. ASSUME NEW s \in SUBSET S  PROVE g[s] \in Int
  <2>1. IsFiniteSet(s) /\ AreIn(v, s, Int) /\ Takes(c, s) /\ AddsUp(g, s, v, c)
    BY FS_Subset DEF AreIn, Takes, AddsUp
  <2> QED  BY <2>1, SumIsNumber
<1> DEFINE Bad == {s \in SUBSET S : \E x \in s : g[s] # v[x] + g[s \ {x}]}
<1>3. ASSUME NEW s \in Bad, \A x \in s : s \ {x} \notin Bad  PROVE FALSE
  <2>1. PICK x \in s : g[s] # v[x] + g[s \ {x}]
    OBVIOUS
  <2> DEFINE y == c[s]
  <2>2. s \in SUBSET S /\ y \in s /\ g[s] = v[y] + g[s \ {y}]
    <3>1. y \in s /\ (g[s] = v[y] + g[s \ {y}] \/ g[s] = g[s \ {y}] + v[y])
      BY <2>1 DEF Takes, AddsUp
    <3>2. v[y] \in Int /\ g[s \ {y}] \in Int
      BY <1>2, <3>1 DEF AreIn
    <3> QED  BY <3>1, <3>2
  <2> HIDE DEF y
  <2>3. x # y
    BY <2>1, <2>2
  <2>4. g[s \ {y}] = v[x] + g[(s \ {y}) \ {x}]
    <3>1. s \ {y} \in SUBSET S /\ s \ {y} \notin Bad /\ x \in s \ {y}
      BY <1>3, <2>2, <2>3
    <3> QED  BY <3>1
  <2>5. g[s \ {x}] = v[y] + g[(s \ {x}) \ {y}]
    <3>1. s \ {x} \in SUBSET S /\ s \ {x} \notin Bad /\ y \in s \ {x}
      BY <1>3, <2>2, <2>3
    <3> QED  BY <3>1
  <2>6. (s \ {x}) \ {y} = (s \ {y}) \ {x}
    OBVIOUS
  <2>7. v[x] \in Int /\ v[y] \in Int /\ g[(s \ {y}) \ {x}] \in Int
    BY <1>2, <2>2 DEF AreIn
  <2>8. v[y] + (v[x] + g[(s \ {y}) \ {x}]) # v[x] + (v[y] + g[(s \ {y}) \ {x}])
    BY ONLY <2>1, <2>2, <2>4, <2>5, <2>6
  <2> QED  BY ONLY <2>7, <2>8
<1>4. Bad = {}
  <2>1. Bad \in SUBSET SUBSET S
    OBVIOUS
  <2> HIDE DEF Bad
  <2> QED  BY <1>3, <2>1, SmallestSet
<1> QED  BY <1>1, <1>2, <1>4 DEF SumsUp

\* The sums of a sequence and of a set.
LEMMA SequenceSumsUp ==
  ASSUME NEW S, IsFiniteSet(S), S \in SUBSET Int,
         NEW seq, DOMAIN seq = S, \A i \in S : seq[i] \in Int
  PROVE  \E g : SumsUp(g, S, seq) /\ Total(seq) = g[S]
<1>1. AreIn(seq, S, Int)
  BY DEF AreIn
<1> QED  BY <1>1, SequenceAddsUp, AnyOrder

LEMMA SetSumsUp ==
  ASSUME NEW S, IsFiniteSet(S), NEW v, AreIn(v, S, Int)
  PROVE  \E g : SumsUp(g, S, v) /\ Added(v, S) = g[S]
BY SetAddsUp, AnyOrder

\* The sum over two sets that have nothing in common.
LEMMA SumOfUnion ==
  ASSUME NEW S, IsFiniteSet(S), NEW v, NEW g, AreIn(v, S, Int), SumsUp(g, S, v),
         NEW A \in SUBSET S, NEW B \in SUBSET S, A \cap B = {}
  PROVE  g[A \cup B] = g[A] + g[B]
<1> DEFINE Bad == {s \in SUBSET A : g[s \cup B] # g[s] + g[B]}
<1>0. IsFiniteSet(A)
  BY FS_Subset
<1>1. ASSUME NEW s \in Bad, \A x \in s : s \ {x} \notin Bad  PROVE FALSE
  <2>1. g[B] \in Int /\ g[s] \in Int /\ g[{}] = 0
    BY DEF SumsUp
  <2>2. CASE s = {}
    <3>1. s \cup B = B
      BY <2>2
    <3> QED  BY <2>1, <2>2, <3>1
  <2>3. CASE s # {}
    <3>1. PICK x \in s : TRUE
      BY <2>3
    <3> DEFINE t == s \ {x}
    <3>2. t \in SUBSET S /\ t \cup B \in SUBSET S /\ s \in SUBSET S /\ s \cup B \in SUBSET S
      OBVIOUS
    <3>3. g[t \cup B] = g[t] + g[B]
      <4>1. t \notin Bad /\ t \in SUBSET A
        BY <1>1
      <4> QED  BY <4>1
    <3>4. (s \cup B) \ {x} = t \cup B
      OBVIOUS
    <3> HIDE DEF t
    <3>5. g[s \cup B] = v[x] + g[(s \cup B) \ {x}]
      BY <3>2 DEF SumsUp
    <3>6. g[s] = v[x] + g[t]
      BY <3>2 DEF SumsUp, t
    <3>7. v[x] \in Int /\ g[t] \in Int
      BY <3>2 DEF SumsUp, AreIn
    <3>8. g[s \cup B] # g[s] + g[B]
      OBVIOUS
    <3>9. v[x] + (g[t] + g[B]) # (v[x] + g[t]) + g[B]
      BY ONLY <3>3, <3>4, <3>5, <3>6, <3>8
    <3> QED  BY ONLY <2>1, <3>7, <3>9
  <2> QED  BY <2>2, <2>3
<1>2. Bad = {}
  <2>1. Bad \in SUBSET SUBSET A
    OBVIOUS
  <2> HIDE DEF Bad
  <2> QED  BY <1>0, <1>1, <2>1, SmallestSet
<1> QED  BY <1>2

\* The elements of P that belong to i.
PartsOf(P, i) == {p \in P : p.of = i}

\* w is v with the values that a gives to the elements of P added to what they
\* belong to; g, h and k are the sums of v, w and a.
IsExtended(D, v, w, g, h, P, a, k) ==
    /\ IsFiniteSet(D) /\ IsFiniteSet(P)
    /\ AreIn(v, D, Int) /\ AreIn(w, D, Int) /\ AreIn(a, P, Int)
    /\ SumsUp(g, D, v) /\ SumsUp(h, D, w) /\ SumsUp(k, P, a)
    /\ \A p \in P : p.of \in D
    /\ \A i \in D : w[i] = v[i] + k[PartsOf(P, i)]

\* Then the sum over D grows by the sum over P.
LEMMA SumsMeet ==
  ASSUME NEW D, NEW P, NEW v, NEW w, NEW a, NEW g, NEW h, NEW k,
         IsExtended(D, v, w, g, h, P, a, k)
  PROVE  h[D] = g[D] + k[P]
<1> USE DEF IsExtended
<1> DEFINE of(s) == {p \in P : p.of \in s}
           Bad == {s \in SUBSET D : h[s] # g[s] + k[of(s)]}
<1>1. ASSUME NEW s \in Bad, \A x \in s : s \ {x} \notin Bad  PROVE FALSE
  <2>1. CASE s = {}
    <3>1. of({}) = {} /\ h[{}] # g[{}] + k[of({})]
      BY <2>1
    <3>2. g[{}] = 0 /\ h[{}] = 0 /\ k[{}] = 0
      BY DEF SumsUp
    <3>3. 0 # 0 + 0
      BY ONLY <3>1, <3>2
    <3> QED  BY ONLY <3>3
  <2>2. CASE s # {}
    <3>1. PICK x \in s : TRUE
      BY <2>2
    <3> DEFINE t == s \ {x}
               new == PartsOf(P, x)
    <3>2. h[t] = g[t] + k[of(t)]
      <4>1. t \notin Bad /\ t \in SUBSET D
        BY <1>1
      <4> QED  BY <4>1
    <3>3. h[s] = w[x] + h[t] /\ g[s] = v[x] + g[t]
      BY DEF SumsUp
    <3>4. new \cup of(t) = of(s) /\ new \cap of(t) = {} /\ new \in SUBSET P /\ of(t) \in SUBSET P
      BY DEF PartsOf
    <3>5. w[x] = v[x] + k[new]
      OBVIOUS
    <3>6. v[x] \in Int /\ g[t] \in Int
      BY DEF AreIn, SumsUp
    <3> HIDE DEF new, of, t
    <3>7. k[of(s)] = k[new] + k[of(t)]
      BY <3>4, SumOfUnion
    <3>8. k[new] \in Int /\ k[of(t)] \in Int
      BY <3>4 DEF SumsUp
    <3>9. h[s] # g[s] + k[of(s)]
      OBVIOUS
    <3> QED  BY <3>2, <3>3, <3>5, <3>6, <3>7, <3>8, <3>9
  <2> QED  BY <2>1, <2>2
<1>2. Bad = {}
  <2>1. Bad \in SUBSET SUBSET D
    OBVIOUS
  <2> HIDE DEF Bad
  <2> QED  BY <1>1, <2>1, SmallestSet
<1>3. of(D) = P
  OBVIOUS
<1> QED  BY <1>2, <1>3

-----------------------------------------------------------------------------
(* The order of tuples. *)

\* Tuples of the same length are totally ordered.
LEMMA TuplesAreOrdered ==
  ASSUME NEW n \in Nat, NEW k \in [1..n -> Int], NEW l \in [1..n -> Int]
  PROVE  /\ k = l \/ Less(k, l) \/ Less(l, k)
         /\ ~Less(k, k)
         /\ \A m \in [1..n -> Int] : Less(k, l) /\ Less(l, m) => Less(k, m)
<1>0. DOMAIN k = 1..n /\ DOMAIN l = 1..n
  OBVIOUS
<1>1. k = l \/ Less(k, l) \/ Less(l, k)
  <2> DEFINE D == {i \in 1..n : k[i] # l[i]}
  <2>1. CASE D = {}
    BY <2>1
  <2>2. CASE D # {}
    <3>0. D \in SUBSET Nat
      OBVIOUS
    <3>1. PICK i \in D : \A j \in D : i <= j
      <4> HIDE DEF D
      <4> QED  BY <2>2, <3>0, LeastNatural
    <3>2. \A j \in 1..(i - 1) : k[j] = l[j]
      BY <3>1
    <3>3. k[i] < l[i] \/ l[i] < k[i]
      OBVIOUS
    <3> QED  BY <1>0, <3>2, <3>3 DEF Less
  <2> QED  BY <2>1, <2>2
<1>2. ~Less(k, k)
  BY <1>0 DEF Less
<1>3. ASSUME NEW m \in [1..n -> Int], Less(k, l), Less(l, m)
      PROVE  Less(k, m)
  <2>1. PICK i \in 1..n : k[i] < l[i] /\ \A j \in 1..(i - 1) : k[j] = l[j]
    BY <1>0, <1>3 DEF Less
  <2>2. PICK h \in 1..n : l[h] < m[h] /\ \A j \in 1..(h - 1) : l[j] = m[j]
    BY <1>0, <1>3 DEF Less
  <2>3. CASE i <= h
    <3>0. k[i] \in Int /\ l[i] \in Int /\ m[i] \in Int
      OBVIOUS
    <3>1. k[i] < m[i]
      <4>1. CASE i = h
        BY <2>1, <2>2, <3>0, <4>1
      <4>2. CASE i # h
        <5>1. l[i] = m[i]
          BY <2>2, <2>3, <4>2
        <5> QED  BY <2>1, <5>1
      <4> QED  BY <4>1, <4>2
    <3>2. \A j \in 1..(i - 1) : k[j] = m[j]
      BY <2>1, <2>2, <2>3
    <3> QED  BY <1>0, <3>1, <3>2 DEF Less
  <2>4. CASE h < i
    <3>1. k[h] < m[h]
      BY <2>1, <2>2, <2>4
    <3>2. \A j \in 1..(h - 1) : k[j] = m[j]
      BY <2>1, <2>2, <2>4
    <3> QED  BY <1>0, <3>1, <3>2 DEF Less
  <2> QED  BY <2>3, <2>4
<1> QED  BY <1>1, <1>2, <1>3

\* Of finitely many tuples of the same length one is the least.
LEMMA LeastTuple ==
  ASSUME NEW n \in Nat, NEW K \in SUBSET [1..n -> Int], IsFiniteSet(K), K # {}
  PROVE  Least(K) \in K
<1> DEFINE R == {p \in K \X K : Less(p[1], p[2])}
<1>1. \A k, l \in K : <<k, l>> \in R <=> Less(k, l)
  OBVIOUS
<1>2. \E k \in K : \A l \in K : l = k \/ <<k, l>> \in R
  <2> HIDE DEF R
  <2>1. \A k, l \in K : k = l \/ <<k, l>> \in R \/ <<l, k>> \in R
    BY <1>1, TuplesAreOrdered
  <2>2. \A k, l, m \in K : <<k, l>> \in R /\ <<l, m>> \in R => <<k, m>> \in R
    <3> SUFFICES ASSUME NEW k \in K, NEW l \in K, NEW m \in K, Less(k, l), Less(l, m)
                 PROVE  Less(k, m)
      BY <1>1
    <3> QED  BY TuplesAreOrdered
  <2> QED  BY <2>1, <2>2, LeastOfOrder
<1>3. \E k \in K : \A l \in K : l = k \/ Less(k, l)
  BY <1>1, <1>2
<1> QED  BY <1>3 DEF Least

-----------------------------------------------------------------------------
(* The merged constraints. *)

\* The merge of several limits is no higher than any of them.
LEMMA MergedLimit ==
  ASSUME NEW f, f # "nap", NEW values \in SUBSET Nat, IsFiniteSet(values), NEW v \in values
  PROVE  Merged(f, values) \in Nat /\ Merged(f, values) <= v
<1>1. CASE Cardinality(values) = 1
  <2>1. PICK x : values = {x}
    BY <1>1, FS_Singleton
  <2> QED  BY <1>1, <2>1 DEF Merged
<1>2. CASE Cardinality(values) # 1
  <2>1. Min(values) \in values /\ Min(values) <= v
    BY MinOfSet
  <2> QED  BY <1>2, <2>1 DEF Merged
<1> QED  BY <1>1, <1>2

\* The merge of several naps covers each of them.
LEMMA MergedNap ==
  ASSUME NEW values \in SUBSET (Nat \X Nat), IsFiniteSet(values), NEW v \in values
  PROVE  LET nap == Merged("nap", values)
         IN  nap[1] \in Nat /\ nap[2] \in Nat /\ nap[1] <= v[1] /\ v[2] <= nap[2]
<1>1. CASE Cardinality(values) = 1
  <2>1. PICK x : values = {x}
    BY <1>1, FS_Singleton
  <2> QED  BY <1>1, <2>1 DEF Merged
<1>2. CASE Cardinality(values) # 1
  <2> DEFINE froms == {w[1] : w \in values}
             tos == {w[2] : w \in values}
  <2>1. IsFiniteSet(froms) /\ froms \in SUBSET Nat /\ v[1] \in froms
    <3> DEFINE h == [w \in values |-> w[1]]
    <3>1. froms = {h[x] : x \in values}
      OBVIOUS
    <3>2. IsFiniteSet({h[x] : x \in values})
      <4> HIDE DEF h
      <4> QED  BY FiniteImage
    <3>3. IsFiniteSet(froms)
      BY <3>1, <3>2
    <3> QED  BY <3>3
  <2>2. IsFiniteSet(tos) /\ tos \in SUBSET Nat /\ v[2] \in tos
    <3> DEFINE h == [w \in values |-> w[2]]
    <3>1. tos = {h[x] : x \in values}
      OBVIOUS
    <3>2. IsFiniteSet({h[x] : x \in values})
      <4> HIDE DEF h
      <4> QED  BY FiniteImage
    <3>3. IsFiniteSet(tos)
      BY <3>1, <3>2
    <3> QED  BY <3>3
  <2>3. Min(froms) \in Nat /\ Min(froms) <= v[1]
    <3> HIDE DEF froms
    <3>1. froms \in SUBSET Int /\ froms # {}
      BY <2>1
    <3>2. Min(froms) \in froms /\ \A x \in froms : Min(froms) <= x
      BY ONLY <2>1, <3>1, MinOfSet
    <3> QED  BY <2>1, <3>2
  <2>4. Max(tos) \in Nat /\ v[2] <= Max(tos)
    <3> HIDE DEF tos
    <3>1. Max(tos) \in tos /\ \A x \in tos : x <= Max(tos)
      BY <2>2, MaxOfSet
    <3> QED  BY <2>2, <3>1
  <2>5. Merged("nap", values) = <<Min(froms), Max(tos)>>
    BY <1>2 DEF Merged
  <2> HIDE DEF froms, tos
  <2> QED  BY <2>3, <2>4, <2>5
<1> QED  BY <1>1, <1>2

-----------------------------------------------------------------------------
(* What everybody's constraints say of each member. *)

\* The indices and the elements of a sequence are finitely many.
LEMMA SequencesAreFinite ==
  ASSUME NEW s, s \in Seq(ToSet(s))
  PROVE  DOMAIN s \in SUBSET Nat /\ IsFiniteSet(DOMAIN s) /\ IsFiniteSet(ToSet(s))
<1>1. DOMAIN s = 1..Len(s) /\ Len(s) \in Nat
  OBVIOUS
<1>2. IsFiniteSet(DOMAIN s)
  BY <1>1, SoManyNumbers
<1>3. IsFiniteSet({s[i] : i \in DOMAIN s})
  BY <1>2, FiniteImage
<1> QED  BY <1>1, <1>2, <1>3 DEF ToSet

\* What the members ask of the field f.
AskedBy(members, f) ==
    {c[f] : c \in {d \in {Compile(m.care) : m \in {n \in ToSet(members) : n.care # None}} :
                     f \in DOMAIN d}}

\* What one member's profile asks of a field is among what is merged.
LEMMA EveryoneIsAsked ==
  ASSUME NEW members, members \in Seq(ToSet(members)),
         NEW m \in ToSet(members), m.care # None, NEW f \in DOMAIN Compile(m.care)
  PROVE  /\ f \in DOMAIN GroupConstraints(members)
         /\ GroupConstraints(members)[f] = Merged(f, AskedBy(members, f))
         /\ IsFiniteSet(AskedBy(members, f)) /\ Compile(m.care)[f] \in AskedBy(members, f)
<1> DEFINE caring == {n \in ToSet(members) : n.care # None}
           compiled == {Compile(n.care) : n \in caring}
           with == {d \in compiled : f \in DOMAIN d}
<1>1. Compile(m.care) \in with
  OBVIOUS
<1>2. f \in UNION {DOMAIN c : c \in compiled}
  BY <1>1
<1>3. GroupConstraints(members) = [g \in UNION {DOMAIN c : c \in compiled} |->
                                      Merged(g, AskedBy(members, g))]
  BY DEF GroupConstraints, AskedBy
<1>4. AskedBy(members, f) = {c[f] : c \in with}
  BY DEF AskedBy
<1>5. IsFiniteSet(compiled)
  <2>1. IsFiniteSet(caring)
    BY SequencesAreFinite, FS_Subset
  <2>2. IsFiniteSet({[k \in caring |-> Compile(k.care)][n] : n \in caring})
    BY <2>1, FiniteImage
  <2>3. compiled = {[k \in caring |-> Compile(k.care)][n] : n \in caring}
    OBVIOUS
  <2> QED  BY <2>2, <2>3
<1>6. IsFiniteSet({c[f] : c \in with})
  <2> HIDE DEF compiled
  <2>1. IsFiniteSet(with)
    BY <1>5, FS_Subset
  <2> HIDE DEF with
  <2>2. IsFiniteSet({[d \in with |-> d[f]][c] : c \in with})
    BY <2>1, FiniteImage
  <2>3. {[d \in with |-> d[f]][c] : c \in with} = {c[f] : c \in with}
    OBVIOUS
  <2> QED  BY <2>2, <2>3
<1>7. Compile(m.care)[f] \in {c[f] : c \in with}
  BY <1>1
<1> HIDE DEF compiled, with
<1> QED  BY <1>2, <1>3, <1>4, <1>6, <1>7

\* A member's limit of the field f is no lower than that of everybody.
LEMMA LimitIsKept ==
  ASSUME NEW members, members \in Seq(ToSet(members)), \A n \in ToSet(members) : IsMember(n),
         NEW m \in ToSet(members), m.care # None,
         NEW f \in {"segment", "daily", "transfers", "rest"}, m.care[f] # None
  PROVE  /\ f \in DOMAIN GroupConstraints(members)
         /\ m.care[f] \in Nat
         /\ GroupConstraints(members)[f] \in Nat /\ GroupConstraints(members)[f] <= m.care[f]
<1>1. \A n \in ToSet(members) : n.care # None => n.care[f] \in Nat \cup {None}
  BY DEF IsMember, IsProfile
<1>2. ASSUME NEW n \in ToSet(members), f \in DOMAIN Compile(n.care), n.care # None
      PROVE  Compile(n.care)[f] = n.care[f] /\ n.care[f] # None
  BY <1>2 DEF Compile, Limits
<1>3. f \in DOMAIN Compile(m.care) /\ Compile(m.care)[f] = m.care[f]
  BY DEF Compile, Limits
<1>4. AskedBy(members, f) \in SUBSET Nat
  BY <1>1, <1>2 DEF AskedBy
<1>5. /\ f \in DOMAIN GroupConstraints(members)
      /\ GroupConstraints(members)[f] = Merged(f, AskedBy(members, f))
      /\ IsFiniteSet(AskedBy(members, f)) /\ m.care[f] \in AskedBy(members, f)
  BY <1>3, EveryoneIsAsked
<1>6. Merged(f, AskedBy(members, f)) \in Nat /\ Merged(f, AskedBy(members, f)) <= m.care[f]
  <2>1. f # "nap"
    OBVIOUS
  <2> QED  BY <1>4, <1>5, <2>1, MergedLimit
<1> QED  BY <1>1, <1>5, <1>6

\* The nap of everybody is at least as long as a member's.
LEMMA NapIsKept ==
  ASSUME NEW members, members \in Seq(ToSet(members)), \A n \in ToSet(members) : IsMember(n),
         NEW m \in ToSet(members), m.care # None, m.care.nap # None
  PROVE  LET nap == GroupConstraints(members)["nap"]
         IN  /\ "nap" \in DOMAIN GroupConstraints(members)
             /\ m.care.nap \in Nat \X Nat
             /\ nap[1] \in Nat /\ nap[2] \in Nat
             /\ nap[1] <= m.care.nap[1] /\ m.care.nap[2] <= nap[2]
<1>1. \A n \in ToSet(members) : n.care # None => n.care.nap \in (Nat \X Nat) \cup {None}
  BY DEF IsMember, IsProfile
<1>2. ASSUME NEW n \in ToSet(members), "nap" \in DOMAIN Compile(n.care), n.care # None
      PROVE  Compile(n.care)["nap"] = n.care.nap /\ n.care.nap # None
  BY <1>2 DEF Compile, Limits
<1>3. "nap" \in DOMAIN Compile(m.care) /\ Compile(m.care)["nap"] = m.care.nap
  BY DEF Compile, Limits
<1>4. AskedBy(members, "nap") \in SUBSET (Nat \X Nat)
  BY <1>1, <1>2 DEF AskedBy
<1>5. /\ "nap" \in DOMAIN GroupConstraints(members)
      /\ GroupConstraints(members)["nap"] = Merged("nap", AskedBy(members, "nap"))
      /\ IsFiniteSet(AskedBy(members, "nap")) /\ m.care.nap \in AskedBy(members, "nap")
  BY <1>3, EveryoneIsAsked
<1> QED  BY <1>1, <1>4, <1>5, MergedNap

\* Stairs and the return are constraints of everybody if they are one member's.
LEMMA DemandIsKept ==
  ASSUME NEW members, members \in Seq(ToSet(members)),
         NEW m \in ToSet(members), m.care # None
  PROVE  /\ m.care.stairs => "stairs" \in DOMAIN GroupConstraints(members)
         /\ m.care.type = "PARENT_CHILD" => "return" \in DOMAIN GroupConstraints(members)
<1>1. /\ m.care.stairs => "stairs" \in DOMAIN Compile(m.care)
      /\ m.care.type = "PARENT_CHILD" => "return" \in DOMAIN Compile(m.care)
  BY DEF Compile
<1> QED  BY <1>1, EveryoneIsAsked

-----------------------------------------------------------------------------
(* What the rules say of a request. *)

\* What the route rules see of a request.
Segments(r) == [i \in DOMAIN Adapted(r) |-> Adapted(r)[i].value]

\* The facts that the route rules see are those of the route and the task.
LEMMA SegmentsTellTheRoutes ==
  ASSUME NEW r, IsRequest(r), \A s \in ToSet(Adapted(r)) : s.code = "OK",
         NEW i \in DOMAIN r.tasks
  PROVE  LET t == r.tasks[i]
             s == Segments(r)[i]
         IN  /\ i \in DOMAIN Segments(r) /\ s \in ToSet(Segments(r))
             /\ s.walk = OnFoot(t.route) /\ s.walk \in Nat
             /\ t.route.mode = "TRANSIT" => s.transfers = t.route.transfers /\ s.transfers \in Nat
             /\ s.elapsed = t.elapsed /\ s.elapsed \in Nat
             /\ t.route.mode \in {"WALKING", "TRANSIT"} => s.stairs = "UNKNOWN"
<1> DEFINE t == r.tasks[i]
           a == RiskSegment(t.route, t.elapsed)
<1>1. IsTask(t)
  BY DEF IsRequest, ToSet
<1>2. Adapted(r)[i] = a /\ DOMAIN Adapted(r) = DOMAIN r.tasks
  BY DEF Adapted
<1>3. a.code = "OK"
  BY <1>2 DEF ToSet
<1>4. Segments(r)[i] = a.value /\ i \in DOMAIN Segments(r) /\ a.value \in ToSet(Segments(r))
  BY <1>2 DEF Segments, ToSet
<1> DEFINE byFoot == t.route.mode \in {"WALKING", "TRANSIT"}
           transit == t.route.mode = "TRANSIT"
<1>5. /\ ~(transit /\ None \in {t.route.walking, t.route.transfers})
      /\ a = Accepted([walk |-> IF transit THEN t.route.walking
                                ELSE IF byFoot THEN t.route.meters ELSE 0,
                       transfers |-> IF transit THEN t.route.transfers ELSE 0,
                       elapsed |-> t.elapsed,
                       stairs |-> IF byFoot THEN "UNKNOWN" ELSE "LEVEL"])
  BY <1>3 DEF RiskSegment, Refused
<1>6. t.elapsed \in Nat /\ t.route.meters \in Nat
      /\ t.route.walking \in Nat \cup {None} /\ t.route.transfers \in Nat \cup {None}
  BY <1>1 DEF IsTask
<1>7. a.value.walk = OnFoot(t.route) /\ a.value.walk \in Nat
  BY <1>5, <1>6 DEF Accepted, OnFoot
<1>8. /\ t.route.mode = "TRANSIT" => a.value.transfers = t.route.transfers
                                       /\ a.value.transfers \in Nat
      /\ a.value.elapsed = t.elapsed /\ a.value.elapsed \in Nat
      /\ t.route.mode \in {"WALKING", "TRANSIT"} => a.value.stairs = "UNKNOWN"
  BY <1>5, <1>6 DEF Accepted
<1> HIDE DEF t, a
<1> QED  BY <1>4, <1>7, <1>8 DEF t

\* If no HARD rule fails, then each rule holds and the known total is in the budget.
LEMMA RulesHold ==
  ASSUME NEW r, HardResults(r) = {"PASS"}
  PROVE  LET limits == GroupConstraints(r.trip.members)
             routes == RouteResults(Segments(r), limits)
             day == DayResults(r.tasks, r.trip, limits)
         IN  /\ \A f \in DOMAIN limits \cap RouteFields : routes[f] = "PASS"
             /\ \A f \in DOMAIN limits \ RouteFields : day[f] = "PASS"
             /\ KnownTotal(r) <= BudgetLimit(r.trip)
<1> DEFINE limits == GroupConstraints(r.trip.members)
           route == RouteResults(Segments(r), limits)
           day == DayResults(r.tasks, r.trip, limits)
<1>1. HardResults(r) = Range(route) \cup Range(day)
                          \cup {PassIf(KnownTotal(r) <= BudgetLimit(r.trip))}
  BY DEF HardResults, Segments
<1>2. DOMAIN route = DOMAIN limits \cap RouteFields /\ DOMAIN day = DOMAIN limits \ RouteFields
  BY DEF RouteResults, DayResults
<1>3. \A f \in DOMAIN route : route[f] = "PASS"
  <2> HIDE DEF route
  <2> QED  BY <1>1 DEF Range
<1>4. \A f \in DOMAIN day : day[f] = "PASS"
  <2> HIDE DEF day
  <2> QED  BY <1>1 DEF Range
<1>5. PassIf(KnownTotal(r) <= BudgetLimit(r.trip)) = "PASS"
  BY <1>1
<1>6. KnownTotal(r) <= BudgetLimit(r.trip)
  BY <1>5 DEF PassIf
<1> QED  BY <1>2, <1>3, <1>4, <1>6

\* The known total is a number: prices that are unknown do not count.
LEMMA KnownTotalIsNumber ==
  ASSUME NEW r, IsRequest(r)
  PROVE  KnownTotal(r) \in Nat
<1> DEFINE prices == [i \in DOMAIN r.tasks |->
                         Known(r.tasks[i].place.price) + Known(r.tasks[i].route.price)]
<1>1. DOMAIN r.tasks \in SUBSET Int /\ IsFiniteSet(DOMAIN r.tasks)
  BY SequencesAreFinite DEF IsRequest
<1>2. \A i \in DOMAIN r.tasks : prices[i] \in Nat
  <2> SUFFICES ASSUME NEW i \in DOMAIN r.tasks PROVE prices[i] \in Nat
    OBVIOUS
  <2>1. IsTask(r.tasks[i])
    BY DEF IsRequest, ToSet
  <2>2. Known(r.tasks[i].place.price) \in Nat /\ Known(r.tasks[i].route.price) \in Nat
    BY <2>1 DEF IsTask, Known
  <2> QED  BY <2>2
<1>3. DOMAIN prices = DOMAIN r.tasks
  OBVIOUS
<1>4. Total(prices) \in Nat
  <2> HIDE DEF prices
  <2> QED  BY <1>1, <1>2, <1>3, SequenceSum
<1> QED  BY <1>4 DEF KnownTotal, Total

\* The budget limit is a number that no member's cap is below.
LEMMA BudgetIsNumber ==
  ASSUME NEW r, IsRequest(r)
  PROVE  /\ BudgetLimit(r.trip) \in Int
         /\ \A m \in ToSet(r.trip.members) : m.cap \in Int /\ BudgetLimit(r.trip) <= m.cap
<1> DEFINE caps == {n.cap : n \in ToSet(r.trip.members)}
           all == {r.trip.total, r.trip.day} \cup caps
<1>1. IsFiniteSet(ToSet(r.trip.members))
  BY SequencesAreFinite DEF IsRequest
<1>2. IsFiniteSet(caps)
  <2> DEFINE h == [n \in ToSet(r.trip.members) |-> n.cap]
  <2>1. IsFiniteSet({h[n] : n \in ToSet(r.trip.members)})
    <3> HIDE DEF h
    <3> QED  BY <1>1, FiniteImage
  <2>2. caps = {h[n] : n \in ToSet(r.trip.members)}
    OBVIOUS
  <2> QED  BY <2>1, <2>2
<1>3. IsFiniteSet(all) /\ all # {}
  <2> HIDE DEF caps
  <2>1. IsFiniteSet({r.trip.total} \cup {r.trip.day})
    BY FS_Singleton, FS_Union
  <2>2. IsFiniteSet(({r.trip.total} \cup {r.trip.day}) \cup caps)
    BY <1>2, <2>1, FS_Union
  <2>3. all = ({r.trip.total} \cup {r.trip.day}) \cup caps
    OBVIOUS
  <2> QED  BY <2>2, <2>3
<1>4. all \in SUBSET Int /\ \A m \in ToSet(r.trip.members) : m.cap \in all
  BY DEF IsRequest, IsMember
<1>5. Min(all) \in all /\ \A n \in all : Min(all) <= n
  <2> HIDE DEF all
  <2> QED  BY <1>3, <1>4, MinOfSet
<1>6. BudgetLimit(r.trip) = Min(all)
  BY DEF BudgetLimit
<1> HIDE DEF all
<1> QED  BY <1>4, <1>5, <1>6

\* A member can afford what is within the budget limit.
LEMMA EveryoneCanAfford ==
  ASSUME NEW r, IsRequest(r), KnownTotal(r) <= BudgetLimit(r.trip),
         NEW m \in ToSet(r.trip.members)
  PROVE  KnownTotal(r) <= m.cap
<1>1. BudgetLimit(r.trip) \in Int /\ m.cap \in Int /\ BudgetLimit(r.trip) <= m.cap
  BY BudgetIsNumber
<1>2. KnownTotal(r) \in Nat
  BY KnownTotalIsNumber
<1> QED  BY <1>1, <1>2

\* The daily walk of the risk segments is what the tasks' routes have on foot.
LEMMA DailyWalkIsOnFoot ==
  ASSUME NEW r, IsRequest(r), \A s \in ToSet(Adapted(r)) : s.code = "OK"
  PROVE  /\ DailyWalk(Segments(r)) \in Nat
         /\ DailyWalk(Segments(r)) = Total([i \in DOMAIN r.tasks |-> OnFoot(r.tasks[i].route)])
<1> DEFINE walks == [i \in DOMAIN Segments(r) |-> Segments(r)[i].walk]
           onFoot == [i \in DOMAIN r.tasks |-> OnFoot(r.tasks[i].route)]
<1>1. DOMAIN Segments(r) = DOMAIN r.tasks
  BY DEF Segments, Adapted
<1>2. \A i \in DOMAIN r.tasks : Segments(r)[i].walk = OnFoot(r.tasks[i].route)
                                  /\ OnFoot(r.tasks[i].route) \in Nat
  BY SegmentsTellTheRoutes
<1>3. walks = onFoot
  BY <1>1, <1>2
<1>4. \A i \in DOMAIN r.tasks : onFoot[i] \in Nat
  BY <1>2
<1>5. DOMAIN r.tasks \in SUBSET Int /\ IsFiniteSet(DOMAIN r.tasks)
  BY SequencesAreFinite DEF IsRequest
<1>6. Total(onFoot) \in Nat
  <2>1. DOMAIN onFoot = DOMAIN r.tasks
    OBVIOUS
  <2> HIDE DEF onFoot
  <2> QED  BY <1>4, <1>5, <2>1, SequenceSum
<1> QED  BY <1>3, <1>6 DEF DailyWalk, Total

\* A request that keeps the merged limits keeps those of each member's profile.
LEMMA ProfileIsSuited ==
  ASSUME NEW r, IsRequest(r), Len(r.tasks) \in 3..6,
         \A s \in ToSet(Adapted(r)) : s.code = "OK", HardResults(r) = {"PASS"},
         NEW m \in ToSet(r.trip.members), m.care # None
  PROVE  SuitsProfile(r, m.care)
<1> DEFINE limits == GroupConstraints(r.trip.members)
           care == m.care
           routes == RouteResults(Segments(r), limits)
           day == DayResults(r.tasks, r.trip, limits)
<1>0. /\ r.trip.members \in Seq(ToSet(r.trip.members))
      /\ \A n \in ToSet(r.trip.members) : IsMember(n)
  BY DEF IsRequest
<1>1. /\ \A f \in DOMAIN limits \cap RouteFields : routes[f] = "PASS"
      /\ \A f \in DOMAIN limits \ RouteFields : day[f] = "PASS"
  BY RulesHold
<1>2. ASSUME NEW f \in {"segment", "daily", "transfers", "rest"}, care[f] # None
      PROVE  f \in DOMAIN limits \cap RouteFields /\ care[f] \in Nat
             /\ limits[f] \in Nat /\ limits[f] <= care[f] /\ routes[f] = "PASS"
  <2>1. f \in RouteFields
    BY DEF RouteFields
  <2> QED  BY <1>0, <1>1, <1>2, <2>1, LimitIsKept
<1>3. ASSUME NEW t \in ToSet(r.tasks)
      PROVE  /\ care.segment # None => OnFoot(t.route) <= care.segment
             /\ t.route.mode = "TRANSIT" /\ care.transfers # None =>
                   t.route.transfers <= care.transfers
             /\ care.rest # None => t.elapsed <= care.rest
             /\ care.stairs => t.route.mode \notin {"WALKING", "TRANSIT"}
             /\ care.nap # None => t.to <= care.nap[1] \/ care.nap[2] <= t.from
  <2>1. PICK i \in DOMAIN r.tasks : t = r.tasks[i]
    BY DEF ToSet
  <2>2. PICK s \in ToSet(Segments(r)) :
            /\ s.walk = OnFoot(t.route) /\ s.walk \in Nat
            /\ t.route.mode = "TRANSIT" => s.transfers = t.route.transfers /\ s.transfers \in Nat
            /\ s.elapsed = t.elapsed /\ s.elapsed \in Nat
            /\ t.route.mode \in {"WALKING", "TRANSIT"} => s.stairs = "UNKNOWN"
    BY <2>1, SegmentsTellTheRoutes
  <2>3. ASSUME care.segment # None PROVE OnFoot(t.route) <= care.segment
    <3>1. /\ "segment" \in DOMAIN limits \cap RouteFields /\ care.segment \in Nat
          /\ limits["segment"] \in Nat /\ limits["segment"] <= care.segment
          /\ routes["segment"] = "PASS"
      BY <1>2, <2>3
    <3>2. \A x \in ToSet(Segments(r)) : x.walk <= limits["segment"]
      BY <3>1 DEF RouteResults, PassIf
    <3> HIDE DEF limits, routes
    <3> QED  BY <2>2, <3>1, <3>2
  <2>4. ASSUME t.route.mode = "TRANSIT", care.transfers # None
        PROVE  t.route.transfers <= care.transfers
    <3>1. /\ "transfers" \in DOMAIN limits \cap RouteFields /\ care.transfers \in Nat
          /\ limits["transfers"] \in Nat /\ limits["transfers"] <= care.transfers
          /\ routes["transfers"] = "PASS"
      BY <1>2, <2>4
    <3>2. \A x \in ToSet(Segments(r)) : x.transfers <= limits["transfers"]
      BY <3>1 DEF RouteResults, PassIf
    <3> HIDE DEF limits, routes
    <3> QED  BY <2>2, <2>4, <3>1, <3>2
  <2>5. ASSUME care.rest # None PROVE t.elapsed <= care.rest
    <3>1. /\ "rest" \in DOMAIN limits \cap RouteFields /\ care.rest \in Nat
          /\ limits["rest"] \in Nat /\ limits["rest"] <= care.rest
          /\ routes["rest"] = "PASS"
      BY <1>2, <2>5
    <3>2. \A x \in ToSet(Segments(r)) : x.elapsed <= limits["rest"]
      BY <3>1 DEF RouteResults, PassIf
    <3> HIDE DEF limits, routes
    <3> QED  BY <2>2, <3>1, <3>2
  <2>6. ASSUME care.stairs PROVE t.route.mode \notin {"WALKING", "TRANSIT"}
    <3>1. "stairs" \in DOMAIN limits \cap RouteFields
      BY <1>0, <2>6, DemandIsKept DEF RouteFields
    <3>2. routes["stairs"] = "PASS"
      BY <1>1, <3>1
    <3>3. ~ \E x \in ToSet(Segments(r)) : x.stairs = "UNKNOWN"
      BY <3>1, <3>2 DEF RouteResults
    <3> QED  BY <2>2, <3>3
  <2>7. ASSUME care.nap # None PROVE t.to <= care.nap[1] \/ care.nap[2] <= t.from
    <3> DEFINE nap == limits["nap"]
    <3>1. /\ "nap" \in DOMAIN limits /\ care.nap \in Nat \X Nat
          /\ nap[1] \in Nat /\ nap[2] \in Nat
          /\ nap[1] <= care.nap[1] /\ care.nap[2] <= nap[2]
      BY <1>0, <2>7, NapIsKept
    <3>2. "nap" \in DOMAIN limits \ RouteFields
      BY <3>1 DEF RouteFields
    <3>3. day["nap"] = "PASS"
      BY <1>1, <3>2
    <3>4. NapResult(r.tasks, nap) = "PASS"
      BY <3>2, <3>3 DEF DayResults
    <3>5. ~(t.from < nap[2] /\ t.to > nap[1])
      BY <3>4 DEF NapResult, PassIf
    <3>6. t.from \in Nat /\ t.to \in Nat
      BY DEF IsRequest, IsTask
    <3>7. care.nap[1] \in Nat /\ care.nap[2] \in Nat
      BY <3>1
    <3> HIDE DEF nap
    <3> QED  BY <3>1, <3>5, <3>6, <3>7
  <2> QED  BY <2>3, <2>4, <2>5, <2>6, <2>7
<1>4. ASSUME care.daily # None
      PROVE  Total([i \in DOMAIN r.tasks |-> OnFoot(r.tasks[i].route)]) <= care.daily
  <2>1. /\ "daily" \in DOMAIN limits \cap RouteFields /\ care.daily \in Nat
        /\ limits["daily"] \in Nat /\ limits["daily"] <= care.daily
        /\ routes["daily"] = "PASS"
    BY <1>2, <1>4
  <2>2. DailyWalk(Segments(r)) <= limits["daily"]
    BY <2>1 DEF RouteResults, PassIf
  <2>3. /\ DailyWalk(Segments(r)) \in Nat
        /\ DailyWalk(Segments(r)) = Total([i \in DOMAIN r.tasks |-> OnFoot(r.tasks[i].route)])
    BY DailyWalkIsOnFoot
  <2>4. DailyWalk(Segments(r)) <= care.daily
    <3>1. DailyWalk(Segments(r)) \in Nat
      BY <2>3
    <3> HIDE DEF limits, routes, care
    <3> QED  BY <2>1, <2>2, <3>1
  <2> QED  BY <2>3, <2>4
<1>5. ASSUME care.type = "PARENT_CHILD"
      PROVE  LET last == r.tasks[Len(r.tasks)]
             IN  last.ends = r.trip.endText /\ last.to <= r.trip.end
  <2>1. "return" \in DOMAIN limits \ RouteFields
    BY <1>0, <1>5, DemandIsKept DEF RouteFields
  <2>2. day["return"] = "PASS"
    BY <1>1, <2>1
  <2>3. ReturnResult(r.tasks, r.trip) = "PASS"
    BY <2>1, <2>2 DEF DayResults
  <2> QED  BY <2>3 DEF ReturnResult, PassIf
<1> QED  BY <1>3, <1>4, <1>5 DEF SuitsProfile, Total

-----------------------------------------------------------------------------
(* A plan that is accepted. *)

\* A request that the planner accepts (planner.py, generate) keeps the limits of
\* every member's profile and costs nobody more than the cap, although only the
\* merged limits of the group were checked.
THEOREM AcceptedSuitsEveryone ==
  ASSUME NEW r, IsRequest(r), Generate(r).code = "OK"
  PROVE  SuitsEveryone(Generate(r).value)
<1>1. /\ ValidRequest(r) /\ \A s \in ToSet(Adapted(r)) : s.code = "OK"
      /\ HardResults(r) = {"PASS"} /\ Generate(r) = Accepted(Candidate(r))
  BY DEF Generate, Refused
<1>2. Generate(r).value.request = r
  BY <1>1 DEF Accepted, Candidate
<1>3. Len(r.tasks) \in 3..6
  BY <1>1 DEF ValidRequest
<1>4. KnownTotal(r) <= BudgetLimit(r.trip)
  BY <1>1, RulesHold
<1>5. ASSUME NEW m \in ToSet(r.trip.members)
      PROVE  (m.care # None => SuitsProfile(r, m.care)) /\ KnownTotal(r) <= m.cap
  BY <1>1, <1>3, <1>4, ProfileIsSuited, EveryoneCanAfford
<1> QED  BY <1>2, <1>5 DEF SuitsEveryone

-----------------------------------------------------------------------------
(* The fairest candidate. *)

\* A satisfaction is a number.
LEMMA SatisfactionIsNumber ==
  ASSUME NEW m, IsMember(m), NEW plan
  PROVE  Satisfaction(m, plan) \in Int
<1> DEFINE unmet == {w \in DOMAIN m.wishes : w \notin PlanWords(plan)}
           sum == MapThenSumSet(LAMBDA w : m.wishes[w], unmet)
<1>1. IsFiniteSet(unmet) /\ AreIn(m.wishes, unmet, Nat)
  <2>1. IsFiniteSet(DOMAIN m.wishes) /\ AreIn(m.wishes, unmet, Nat)
    BY DEF IsMember, AreIn
  <2> QED  BY <2>1, FS_Subset
<1>2. sum \in Nat
  <2>1. sum = Added(m.wishes, unmet)
    BY DEF Added
  <2> HIDE DEF unmet, sum
  <2> QED  BY <1>1, <2>1, SetSum
<1>3. Max({0, 100 - 4 * sum}) \in Int
  <2> HIDE DEF sum
  <2> DEFINE left == 100 - 4 * sum
  <2>1. left \in Int
    BY <1>2
  <2> HIDE DEF left
  <2>2. Max({0, left}) \in Int
    BY ONLY <2>1, MaxOfTwo
  <2> QED  BY <2>2 DEF left
<1> QED  BY <1>3 DEF Satisfaction

\* The key of a candidate has six numbers.
LEMMA FairKeyIsTuple ==
  ASSUME NEW trip, trip.members \in Seq(ToSet(trip.members)),
         \A m \in ToSet(trip.members) : IsMember(m), Len(trip.members) # 0,
         NEW c, c.detour \in Int, c.id \in Int, c.plan.cost \in Int \cup {None}
  PROVE  FairKey(trip, c) \in [1..6 -> Int]
<1> DEFINE scores == [i \in DOMAIN trip.members |-> Satisfaction(trip.members[i], c.plan)]
<1>1. DOMAIN scores \in SUBSET Int /\ IsFiniteSet(DOMAIN scores) /\ DOMAIN scores # {}
  <2>1. DOMAIN scores = DOMAIN trip.members
    OBVIOUS
  <2>2. DOMAIN trip.members = 1..Len(trip.members) /\ Len(trip.members) \in Nat \ {0}
    OBVIOUS
  <2>3. IsFiniteSet(DOMAIN trip.members) /\ DOMAIN trip.members \in SUBSET Nat
    BY SequencesAreFinite
  <2>4. 1 \in DOMAIN trip.members
    BY <2>2
  <2> HIDE DEF scores
  <2> QED  BY <2>1, <2>3, <2>4
<1>2. \A i \in DOMAIN scores : scores[i] \in Int
  BY SatisfactionIsNumber DEF ToSet
<1> HIDE DEF scores
<1>3. Total(scores) \in Int
  BY <1>1, <1>2, SequenceSum
<1>4. Min(ToSet(scores)) \in Int
  <2>1. IsFiniteSet({scores[i] : i \in DOMAIN scores})
    BY <1>1, FiniteImage
  <2>2. ToSet(scores) \in SUBSET Int /\ ToSet(scores) # {} /\ IsFiniteSet(ToSet(scores))
    BY <1>1, <1>2, <2>1 DEF ToSet
  <2> QED  BY <2>2, MinOfSet
<1>5. FairKey(trip, c) =
        <<-Min(ToSet(scores)), -Total(scores),
          IF c.plan.cost = None THEN 1 ELSE 0, IF c.plan.cost = None THEN 0 ELSE c.plan.cost,
          c.detour, c.id>>
  BY DEF FairKey, Total, scores
<1>6. -Min(ToSet(scores)) \in Int /\ -Total(scores) \in Int
  BY <1>3, <1>4
<1>7. (IF c.plan.cost = None THEN 1 ELSE 0) \in Int
      /\ (IF c.plan.cost = None THEN 0 ELSE c.plan.cost) \in Int
  OBVIOUS
<1> HIDE DEF scores
<1> QED  BY <1>5, <1>6, <1>7

\* The candidate that is chosen is one of those that no member rejects.
LEMMA SelectedIsFair ==
  ASSUME NEW trip, NEW candidates, IsFiniteSet(candidates),
         \A c \in candidates : FairKey(trip, c) \in [1..6 -> Int],
         SelectUnique(trip, candidates).code = "OK"
  PROVE  LET c == SelectUnique(trip, candidates).value
         IN  c \in candidates /\ ~HardRejected(trip, c.plan)
<1> DEFINE fair == {c \in candidates : ~HardRejected(trip, c.plan)}
           keys == {FairKey(trip, d) : d \in fair}
<1>1. /\ fair # {}
      /\ SelectUnique(trip, candidates) =
            Accepted(CHOOSE c \in fair : FairKey(trip, c) = Least(keys))
  BY DEF SelectUnique, Refused
<1>2. IsFiniteSet(fair)
  BY FS_Subset
<1>3. IsFiniteSet(keys)
  <2> DEFINE h == [d \in fair |-> FairKey(trip, d)]
  <2> HIDE DEF fair
  <2>1. keys = {h[d] : d \in fair}
    OBVIOUS
  <2>2. IsFiniteSet({h[d] : d \in fair})
    <3> HIDE DEF h
    <3> QED  BY <1>2, FiniteImage
  <2> QED  BY <2>1, <2>2
<1>4. keys \in SUBSET [1..6 -> Int] /\ keys # {}
  BY <1>1
<1>5. Least(keys) \in keys
  <2> HIDE DEF keys
  <2> QED  BY <1>3, <1>4, LeastTuple
<1>6. \E c \in fair : FairKey(trip, c) = Least(keys)
  BY <1>5
<1>7. (CHOOSE c \in fair : FairKey(trip, c) = Least(keys)) \in fair
  <2> HIDE DEF fair, keys
  <2> QED  BY <1>6
<1> QED  BY <1>1, <1>7 DEF Accepted

-----------------------------------------------------------------------------
(* The recommendation from signed places. *)

\* What the route builder answers to an order is None or a request.
BuilderAnswers(orders, routed) ==
    \A i \in DOMAIN orders : routed[orders[i]] # None => IsBuilt(routed[orders[i]])

\* A candidate is a plan that the planner accepted for a faithful request.
LEMMA BuiltIsAccepted ==
  ASSUME NEW facts, NEW orders, NEW routed, NEW c \in BuiltCandidates(facts, orders, routed)
  PROVE  \E i \in DOMAIN orders :
            LET built == routed[orders[i]]
            IN  /\ built # None /\ IsFaithful(facts, orders[i], built)
                /\ Generate(built.request).code = "OK"
                /\ c = [plan |-> Generate(built.request).value, detour |-> built.detour,
                        order |-> orders[i], id |-> i]
  BY DEF BuiltCandidates

\* There are no more candidates than orders.
LEMMA BuiltAreFinite ==
  ASSUME NEW facts, NEW orders, NEW routed, IsFiniteSet(DOMAIN orders)
  PROVE  IsFiniteSet(BuiltCandidates(facts, orders, routed))
<1> DEFINE faithful == {i \in DOMAIN orders :
                          /\ routed[orders[i]] # None
                          /\ IsFaithful(facts, orders[i], routed[orders[i]])}
           generated == [i \in faithful |-> Generate(routed[orders[i]].request)]
           first == {i \in faithful :
                       /\ generated[i].code = "OK"
                       /\ \A j \in faithful : generated[j] = generated[i] => i <= j}
           h == [i \in first |-> [plan |-> generated[i].value, detour |-> routed[orders[i]].detour,
                                  order |-> orders[i], id |-> i]]
<1>1. BuiltCandidates(facts, orders, routed) = {h[i] : i \in first}
  BY DEF BuiltCandidates
<1>2. IsFiniteSet(first)
  <2>1. first \in SUBSET DOMAIN orders
    OBVIOUS
  <2> HIDE DEF first
  <2> QED  BY <2>1, FS_Subset
<1> HIDE DEF h, first
<1> QED  BY <1>1, <1>2, FiniteImage

\* The fairest candidate of a list of orders suits everyone.
LEMMA FairestBuiltSuitsEveryone ==
  ASSUME NEW facts, NEW orders, NEW routed,
         DOMAIN orders \in SUBSET Int, IsFiniteSet(DOMAIN orders), BuilderAnswers(orders, routed),
         FairestBuilt(facts, orders, routed).code = "OK"
  PROVE  RecommendedSuits(facts, FairestBuilt(facts, orders, routed).value.plan)
<1> DEFINE all == BuiltCandidates(facts, orders, routed)
           chosen == FairestBuilt(facts, orders, routed).value
<1>1. ASSUME NEW c \in all
      PROVE  \E r : /\ IsRequest(r) /\ Generate(r).code = "OK" /\ c.plan = Generate(r).value
                    /\ c.detour \in Nat /\ c.id \in Int /\ r.trip = facts.trip
                    /\ {t.place.at : t \in ToSet(r.tasks)} \subseteq facts.places
  <2>1. PICK i \in DOMAIN orders :
            LET built == routed[orders[i]]
            IN  /\ built # None /\ IsFaithful(facts, orders[i], built)
                /\ Generate(built.request).code = "OK"
                /\ c = [plan |-> Generate(built.request).value, detour |-> built.detour,
                        order |-> orders[i], id |-> i]
    BY BuiltIsAccepted
  <2> DEFINE r == routed[orders[i]].request
  <2>2. IsRequest(r) /\ routed[orders[i]].detour \in Nat
    BY <2>1 DEF BuilderAnswers, IsBuilt
  <2>3. r.trip = facts.trip /\ {t.place.at : t \in ToSet(r.tasks)} \subseteq facts.places
    BY <2>1 DEF IsFaithful
  <2>4. Generate(r).code = "OK" /\ c.plan = Generate(r).value /\ c.id \in Int
        /\ c.detour = routed[orders[i]].detour
    BY <2>1
  <2> HIDE DEF r
  <2> QED  BY <2>2, <2>3, <2>4
<1>2. ASSUME NEW r, IsRequest(r), Generate(r).code = "OK"
      PROVE  /\ Generate(r).value.request = r
             /\ Generate(r).value.cost \in Int \cup {None}
             /\ r.trip.members \in Seq(ToSet(r.trip.members)) /\ Len(r.trip.members) # 0
             /\ \A m \in ToSet(r.trip.members) : IsMember(m)
  <2>1. ValidRequest(r) /\ Generate(r) = Accepted(Candidate(r))
    BY <1>2 DEF Generate, Refused
  <2>2. Generate(r).value.request = r
        /\ (Generate(r).value.cost = None \/ Generate(r).value.cost = KnownTotal(r))
    BY <2>1 DEF Accepted, Candidate
  <2>3. KnownTotal(r) \in Nat
    BY <1>2, KnownTotalIsNumber
  <2>4. Len(r.trip.members) # 0
    <3>1. Len(r.trip.members) \in 1..20
      BY <2>1 DEF ValidRequest
    <3>2. \A n \in 1..20 : n # 0
      OBVIOUS
    <3> QED  BY <3>1, <3>2, Zenon
  <2> QED  BY <1>2, <2>2, <2>3, <2>4 DEF IsRequest
<1>3. ASSUME NEW c \in all PROVE FairKey(facts.trip, c) \in [1..6 -> Int]
  <2>1. PICK r : /\ IsRequest(r) /\ Generate(r).code = "OK" /\ c.plan = Generate(r).value
                 /\ c.detour \in Nat /\ c.id \in Int /\ r.trip = facts.trip
    BY <1>1
  <2> HIDE DEF all
  <2> QED  BY <1>2, <2>1, FairKeyIsTuple
<1>4. IsFiniteSet(all)
  BY BuiltAreFinite
<1>5. chosen \in all /\ ~HardRejected(facts.trip, chosen.plan)
  <2> HIDE DEF all
  <2>1. FairestBuilt(facts, orders, routed) = SelectUnique(facts.trip, all)
    BY DEF FairestBuilt, all
  <2> QED  BY <1>3, <1>4, <2>1, SelectedIsFair
<1>6. PICK r : /\ IsRequest(r) /\ Generate(r).code = "OK" /\ chosen.plan = Generate(r).value
               /\ r.trip = facts.trip
               /\ {t.place.at : t \in ToSet(r.tasks)} \subseteq facts.places
  <2> HIDE DEF all, chosen
  <2> QED  BY <1>1, <1>5
<1> HIDE DEF all, chosen
<1>7. SuitsEveryone(chosen.plan)
  BY <1>6, AcceptedSuitsEveryone
<1>8. {t.place.at : t \in ToSet(chosen.plan.request.tasks)} \subseteq facts.places
  BY <1>2, <1>6
<1>9. \A m \in ToSet(facts.trip.members) :
         m.must \subseteq PlanWords(chosen.plan) /\ m.avoid \cap PlanWords(chosen.plan) = {}
  BY <1>5 DEF HardRejected
<1>10. RecommendedSuits(facts, chosen.plan)
  BY <1>7, <1>8, <1>9 DEF RecommendedSuits
<1> QED  BY <1>10 DEF chosen

\* The model proposes one order at most.
LEMMA ProposalsAreFinite ==
  ASSUME NEW proposal
  PROVE  LET orders == IF proposal = None THEN <<>> ELSE <<proposal>>
         IN  DOMAIN orders \in SUBSET Int /\ IsFiniteSet(DOMAIN orders)
<1>1. IsFiniteSet({}) /\ IsFiniteSet({1})
  BY FS_EmptySet, FS_Singleton
<1>2. DOMAIN <<>> = {} /\ DOMAIN <<proposal>> = {1}
  OBVIOUS
<1> QED  BY <1>1, <1>2

\* Twelve orders are enumerated.
LEMMA OrdersAreFinite ==
  ASSUME NEW ids
  PROVE  LET orders == DeterministicOrders(ids)
         IN  DOMAIN orders \in SUBSET Int /\ IsFiniteSet(DOMAIN orders)
<1>1. \A s : DOMAIN SubSeq(s, 1, 12) = 1..12
  OBVIOUS
<1>2. DOMAIN DeterministicOrders(ids) = 1..12
  BY <1>1, Zenon DEF DeterministicOrders, MaxOrders
<1>3. \A n \in Nat : IsFiniteSet(1..n)
  BY SoManyNumbers
<1>4. IsFiniteSet(1..12)
  BY <1>3, Zenon
<1> QED  BY <1>2, <1>4

\* What is recommended from signed places (recommendation_service.py,
\* _recommend_ready) suits everyone, visits signed places only, has all that a
\* member must see and nothing that one avoids, whether the model proposed the
\* order or it was enumerated.
THEOREM RecommendedSuitsEveryone ==
  ASSUME NEW facts, NEW ids, NEW proposal, NEW routed,
         \A order \in OrdersAsked(ids, proposal) :
            routed[order] # None => IsBuilt(routed[order]),
         RecommendSigned(facts, ids, proposal, routed).code = "OK"
  PROVE  RecommendedSuits(facts, RecommendSigned(facts, ids, proposal, routed).value.plan)
<1> DEFINE proposed == IF proposal = None THEN <<>> ELSE <<proposal>>
           orders == DeterministicOrders(ids)
<1>1. CASE FairestBuilt(facts, proposed, routed).code = "OK"
  <2>1. DOMAIN proposed \in SUBSET Int /\ IsFiniteSet(DOMAIN proposed)
    BY ProposalsAreFinite
  <2>2. BuilderAnswers(proposed, routed)
    BY DEF BuilderAnswers, OrdersAsked
  <2>3. RecommendSigned(facts, ids, proposal, routed) = FairestBuilt(facts, proposed, routed)
    BY <1>1 DEF RecommendSigned, Chosen
  <2> HIDE DEF proposed
  <2> QED  BY <1>1, <2>1, <2>2, <2>3, FairestBuiltSuitsEveryone
<1>2. CASE FairestBuilt(facts, proposed, routed).code # "OK"
  <2>1. DOMAIN orders \in SUBSET Int /\ IsFiniteSet(DOMAIN orders)
    BY OrdersAreFinite
  <2>2. BuilderAnswers(orders, routed)
    <3> HIDE DEF orders
    <3> QED  BY DEF BuilderAnswers, OrdersAsked, ToSet, orders
  <2>3. RecommendSigned(facts, ids, proposal, routed) = FairestBuilt(facts, orders, routed)
    BY <1>2 DEF RecommendSigned, Chosen, Refused
  <2> HIDE DEF orders
  <2> QED  BY <2>1, <2>2, <2>3, FairestBuiltSuitsEveryone
<1> QED  BY <1>1, <1>2

-----------------------------------------------------------------------------
(* The review. *)

\* The rest of the task is kept; what follows depends on nothing else of it.
SamePlace(p, q) == p.at = q.at /\ p.name = q.name /\ p.city = q.city

SameRoute(p, q) ==
    /\ p.mode = q.mode /\ p.origin = q.origin /\ p.dest = q.dest /\ p.minutes = q.minutes
    /\ p.meters = q.meters /\ p.walking = q.walking /\ p.transfers = q.transfers

SameTask(t, u) ==
    /\ t.from = u.from /\ t.to = u.to /\ t.ends = u.ends /\ t.city = u.city
    /\ t.elapsed = u.elapsed /\ t.restBefore = u.restBefore /\ t.restOnArrival = u.restOnArrival
    /\ SamePlace(t.place, u.place) /\ SameRoute(t.route, u.route)

SameRequest(r, c) ==
    /\ r.trip = c.trip /\ r.confirmed = c.confirmed
    /\ r.start.city = c.start.city /\ r.start.text = c.start.text /\ r.start.at = c.start.at
    /\ r.end.city = c.end.city /\ r.end.text = c.end.text /\ r.end.at = c.end.at
    /\ DOMAIN c.tasks = DOMAIN r.tasks /\ Len(c.tasks) = Len(r.tasks)
    /\ \A i \in DOMAIN r.tasks : SameTask(r.tasks[i], c.tasks[i])

\* What an answered task keeps, and what the answers make of the rest.
LEMMA TaskIsKept ==
  ASSUME NEW t, IsTask(t), NEW answers, NEW i
  PROVE  LET u == ConfirmedTask(t, answers, i)
         IN  /\ SameTask(t, u)
             /\ u.place.price = Confirmed(t.place, answers, i, "place").price
             /\ u.place.source = Confirmed(t.place, answers, i, "place").source
             /\ u.route.price = Confirmed(t.route, answers, i, "route").price
             /\ u.route.source = Confirmed(t.route, answers, i, "route").source
             /\ u.route.facilities = ConfirmedFacilities(t.route, answers, i)
<1> DEFINE place == Confirmed(t.place, answers, i, "place")
           route == Confirmed(t.route, answers, i, "route")
           told == ConfirmedFacilities(t.route, answers, i)
           u == ConfirmedTask(t, answers, i)
<1>1. DOMAIN place = DOMAIN t.place /\ SamePlace(t.place, place)
  BY DEF Confirmed, IsTask, SamePlace
<1>2. DOMAIN route = DOMAIN t.route /\ SameRoute(t.route, route)
  BY DEF Confirmed, IsTask, SameRoute
<1>3. u = [t EXCEPT !.place = place, !.route = [route EXCEPT !.facilities = told]]
  BY DEF ConfirmedTask
<1> HIDE DEF place, route, told, u
<1>4. u.place = place /\ u.route = [route EXCEPT !.facilities = told]
  BY <1>3 DEF IsTask
<1>5. /\ t.from = u.from /\ t.to = u.to /\ t.ends = u.ends /\ t.city = u.city
      /\ t.elapsed = u.elapsed /\ t.restBefore = u.restBefore
      /\ t.restOnArrival = u.restOnArrival
  BY <1>3 DEF IsTask
<1>6. /\ u.route.facilities = told /\ SameRoute(route, u.route)
      /\ u.route.price = route.price /\ u.route.source = route.source
  BY <1>2, <1>4 DEF IsTask, SameRoute
<1>7. SameTask(t, u)
  BY <1>1, <1>2, <1>4, <1>5, <1>6 DEF SameTask, SameRoute, SamePlace
<1> QED  BY <1>4, <1>6, <1>7 DEF place, route, told, u

\* What the answered request keeps.
LEMMA RequestIsKept ==
  ASSUME NEW r, IsRequest(r), NEW answers
  PROVE  LET c == ApplyConfirmations(r, answers)
         IN  /\ SameRequest(r, c)
             /\ c.start.source = IF Asked(answers, "UNKNOWN_SOURCE", 0, "start")
                                 THEN "USER_CONFIRMED" ELSE r.start.source
             /\ c.end.source = IF Asked(answers, "UNKNOWN_SOURCE", 0, "end")
                               THEN "USER_CONFIRMED" ELSE r.end.source
             /\ \A i \in DOMAIN r.tasks : c.tasks[i] = ConfirmedTask(r.tasks[i], answers, i)
<1> DEFINE source(fact) == IF Asked(answers, "UNKNOWN_SOURCE", 0, fact) THEN "USER_CONFIRMED"
                           ELSE r[fact].source
           s == source("start")
           e == source("end")
           tasks == [i \in DOMAIN r.tasks |-> ConfirmedTask(r.tasks[i], answers, i)]
           c == ApplyConfirmations(r, answers)
<1>1. c = [r EXCEPT !.start.source = s, !.end.source = e, !.tasks = tasks]
  BY DEF ApplyConfirmations
<1>2. \A i \in DOMAIN r.tasks : SameTask(r.tasks[i], tasks[i])
  BY TaskIsKept DEF IsRequest, ToSet
<1>3. DOMAIN tasks = DOMAIN r.tasks /\ Len(tasks) = Len(r.tasks)
  <2>1. DOMAIN r.tasks = 1..Len(r.tasks) /\ Len(r.tasks) \in Nat
    BY DEF IsRequest
  <2>2. tasks = [i \in 1..Len(r.tasks) |-> ConfirmedTask(r.tasks[i], answers, i)]
    BY <2>1
  <2>3. Len([i \in 1..Len(r.tasks) |-> ConfirmedTask(r.tasks[i], answers, i)]) = Len(r.tasks)
    BY <2>1
  <2> QED  BY <2>2, <2>3
<1> HIDE DEF s, e, tasks, c
<1>4. /\ c.trip = r.trip /\ c.confirmed = r.confirmed /\ c.tasks = tasks
      /\ c.start = [r.start EXCEPT !.source = s] /\ c.end = [r.end EXCEPT !.source = e]
  BY <1>1 DEF IsRequest
<1>5. /\ r.start.city = c.start.city /\ r.start.text = c.start.text /\ r.start.at = c.start.at
      /\ c.start.source = s
  BY <1>4 DEF IsRequest
<1>6. /\ r.end.city = c.end.city /\ r.end.text = c.end.text /\ r.end.at = c.end.at
      /\ c.end.source = e
  BY <1>4 DEF IsRequest
<1>7. SameRequest(r, c)
  BY <1>2, <1>3, <1>4, <1>5, <1>6 DEF SameRequest
<1> QED  BY <1>4, <1>5, <1>6, <1>7 DEF s, e, tasks, c

\* The last task, and the task before another one, are tasks.
LEMMA TasksAreSequences ==
  ASSUME NEW r, IsRequest(r), ValidRequest(r)
  PROVE  /\ DOMAIN r.tasks = 1..Len(r.tasks) /\ Len(r.tasks) \in DOMAIN r.tasks
         /\ \A i \in DOMAIN r.tasks : i # 1 => i - 1 \in DOMAIN r.tasks
<1> DEFINE n == Len(r.tasks)
<1>1. DOMAIN r.tasks = 1..n
  BY DEF IsRequest
<1>2. n \in 3..6
  BY DEF ValidRequest
<1> HIDE DEF n
<1>3. n \in 1..n /\ \A i \in 1..n : i # 1 => i - 1 \in 1..n
  BY <1>2
<1> QED  BY <1>1, <1>3 DEF n

\* The checks of the planner do not depend on prices, sources and facilities:
\* those of the times,
LEMMA StaysValid ==
  ASSUME NEW r, NEW c, IsRequest(r), ValidRequest(r), SameRequest(r, c)
  PROVE  ValidRequest(c)
<1>1. ASSUME NEW i \in DOMAIN r.tasks
      PROVE  LET t == c.tasks[i]
             IN  /\ c.trip.start <= t.from /\ t.from < t.to /\ t.to <= c.trip.end
                 /\ PreviousEnd(c, i) <= t.from
                 /\ RestsFit(t, PreviousEnd(c, i))
  <2>1. SameTask(r.tasks[i], c.tasks[i])
    BY DEF SameRequest
  <2>2. PreviousEnd(c, i) = PreviousEnd(r, i)
    BY TasksAreSequences DEF PreviousEnd, SameRequest, SameTask
  <2>3. RestsFit(r.tasks[i], PreviousEnd(r, i)) => RestsFit(c.tasks[i], PreviousEnd(r, i))
    BY <2>1 DEF RestsFit, SameTask, SameRoute
  <2> QED  BY <2>1, <2>2, <2>3 DEF ValidRequest, SameTask, SameRequest
<1> QED  BY <1>1 DEF ValidRequest, SameRequest

\* of the places and their order,
LEMMA SameCity ==
  ASSUME NEW r, NEW c, IsRequest(r), ValidRequest(r), SameRequest(r, c)
  PROVE  SameCityFacts(c) = SameCityFacts(r)
<1>1. ASSUME NEW i \in DOMAIN r.tasks  PROVE TaskChecks(c, i) = TaskChecks(r, i)
  <2>1. SameTask(r.tasks[i], c.tasks[i])
    BY DEF SameRequest
  <2>2. PreviousEnd(c, i) = PreviousEnd(r, i)
    BY TasksAreSequences DEF PreviousEnd, SameRequest, SameTask
  <2>3. Origin(c, i) = Origin(r, i)
    BY TasksAreSequences DEF Origin, SameRequest, SameTask, SamePlace
  <2>4. c.trip = r.trip
    BY DEF SameRequest
  <2> QED  BY <2>1, <2>2, <2>3, <2>4 DEF TaskChecks, SameTask, SamePlace, SameRoute
<1>2. [i \in DOMAIN c.tasks |-> TaskChecks(c, i)] = [i \in DOMAIN r.tasks |-> TaskChecks(r, i)]
  BY <1>1 DEF SameRequest
<1>3. (c.tasks[Len(c.tasks)].route.dest = c.end.at) = (r.tasks[Len(r.tasks)].route.dest = r.end.at)
  BY TasksAreSequences DEF SameRequest, SameTask, SameRoute
<1>4. /\ c.trip = r.trip /\ c.start.city = r.start.city /\ c.start.text = r.start.text
      /\ c.end.city = r.end.city /\ c.end.text = r.end.text
  BY DEF SameRequest
<1> QED  BY <1>2, <1>3, <1>4 DEF SameCityFacts

\* of the risk of the routes
LEMMA SameAdapted ==
  ASSUME NEW r, NEW c, SameRequest(r, c)
  PROVE  Adapted(c) = Adapted(r)
<1>1. ASSUME NEW i \in DOMAIN r.tasks
      PROVE  RiskSegment(c.tasks[i].route, c.tasks[i].elapsed)
               = RiskSegment(r.tasks[i].route, r.tasks[i].elapsed)
  BY DEF SameRequest, SameTask, SameRoute, RiskSegment
<1> QED  BY <1>1 DEF Adapted, SameRequest

\* and of the day.
LEMMA SameDay ==
  ASSUME NEW r, NEW c, IsRequest(r), ValidRequest(r), SameRequest(r, c), NEW limits
  PROVE  DayResults(c.tasks, c.trip, limits) = DayResults(r.tasks, r.trip, limits)
<1>1. ReturnResult(c.tasks, c.trip) = ReturnResult(r.tasks, r.trip)
  BY TasksAreSequences DEF ReturnResult, SameRequest, SameTask
<1>2. ASSUME NEW nap  PROVE NapResult(c.tasks, nap) = NapResult(r.tasks, nap)
  <2>1. (\E t \in ToSet(c.tasks) : t.from < nap[2] /\ t.to > nap[1])
          <=> (\E t \in ToSet(r.tasks) : t.from < nap[2] /\ t.to > nap[1])
    BY DEF ToSet, SameRequest, SameTask
  <2> QED  BY <2>1 DEF NapResult, PassIf
<1> QED  BY <1>1, <1>2 DEF DayResults

\* With the checks unchanged the answers decide over the budget only.
LEMMA OnlyTheBudgetCounts ==
  ASSUME NEW r, NEW c, IsRequest(r), Generate(r).code = "OK", SameRequest(r, c)
  PROVE  \/ Generate(c) = Accepted(Candidate(c)) /\ KnownTotal(c) <= BudgetLimit(r.trip)
         \/ Generate(c) = Refused("CANDIDATE_PLAN_REJECTED")
              /\ ~(KnownTotal(c) <= BudgetLimit(r.trip))
<1>1. /\ ValidRequest(r) /\ r.confirmed = GroupConstraints(r.trip.members)
      /\ SameCityFacts(r) = "OK" /\ \A s \in ToSet(Adapted(r)) : s.code = "OK"
      /\ HardResults(r) = {"PASS"}
  BY DEF Generate, Refused
<1>2. /\ ValidRequest(c) /\ c.confirmed = GroupConstraints(c.trip.members)
      /\ SameCityFacts(c) = "OK" /\ \A s \in ToSet(Adapted(c)) : s.code = "OK"
  BY <1>1, StaysValid, SameCity, SameAdapted DEF SameRequest
<1> DEFINE limits == GroupConstraints(r.trip.members)
           rules == Range(RouteResults(Segments(r), limits))
                      \cup Range(DayResults(r.tasks, r.trip, limits))
<1>3. HardResults(r) = rules \cup {PassIf(KnownTotal(r) <= BudgetLimit(r.trip))}
  BY DEF HardResults, Segments
<1>4. HardResults(c) = rules \cup {PassIf(KnownTotal(c) <= BudgetLimit(r.trip))}
  <2>1. Segments(c) = Segments(r) /\ c.trip = r.trip
    BY SameAdapted DEF Segments, SameRequest
  <2>2. HardResults(c) = Range(RouteResults(Segments(c), GroupConstraints(c.trip.members)))
            \cup Range(DayResults(c.tasks, c.trip, GroupConstraints(c.trip.members)))
            \cup {PassIf(KnownTotal(c) <= BudgetLimit(c.trip))}
    BY DEF HardResults, Segments
  <2> QED  BY <1>1, <2>1, <2>2, SameDay
<1> HIDE DEF rules
<1>5. HardResults(c) = {"PASS"} <=> KnownTotal(c) <= BudgetLimit(r.trip)
  BY <1>1, <1>3, <1>4 DEF PassIf
<1> QED  BY <1>2, <1>5 DEF Generate

\* The elements of a finite set, one after the other.
LEMMA SequenceOfSet ==
  ASSUME NEW M, IsFiniteSet(M)
  PROVE  /\ SetToSeq(M) \in Seq(M)
         /\ IsInjective(SetToSeq(M))
         /\ \A x \in M : \E k \in DOMAIN SetToSeq(M) : SetToSeq(M)[k] = x
<1> DEFINE n == Cardinality(M)
<1>1. n \in Nat /\ ExistsBijection(1..n, M)
  BY FS_CardinalityType
<1>2. PICK f \in [1..n -> M] : IsInjective(f)
  BY <1>1 DEF ExistsBijection, Bijection, Injection, IsInjective
<1>3. SetToSeq(M) \in [1..n -> M] /\ IsInjective(SetToSeq(M))
  BY <1>2 DEF SetToSeq
<1>4. SetToSeq(M) \in Injection(1..n, M)
  BY <1>3 DEF Injection, IsInjective
<1>5. IsFiniteSet(1..n) /\ Cardinality(1..n) = n
  BY <1>1, SoManyNumbers
<1>6. SetToSeq(M) \in Surjection(1..n, M)
  BY <1>4, <1>5, FS_Injection
<1>7. \A x \in M : \E k \in 1..n : SetToSeq(M)[k] = x
  BY <1>6 DEF Surjection
<1> QED  BY <1>1, <1>3, <1>7

\* The evidence that an answer is.
AnsweredEvidence(answers, i, f) ==
    [type |-> f, source |-> "USER_CONFIRMED",
     status |-> AnswerTo(answers, "UNKNOWN_FACILITY", i, f).facility]

AskedFacilities(answers, i) == {f \in Facilities : Asked(answers, "UNKNOWN_FACILITY", i, f)}

\* What u tells of the facility f is what the route told, or else the answer.
TellsAnswer(u, route, answers, i, f) ==
    LET asked == AskedFacilities(answers, i)
    IN  /\ f \in asked /\ Evidence(route, f) = {} =>
              \E k : Evidence(u, f) = {k} /\ u.facilities[k] = AnsweredEvidence(answers, i, f)
        /\ f \in asked => \A k : Evidence(route, f) = {k} =>
              Evidence(u, f) = {k} /\ u.facilities[k] = AnsweredEvidence(answers, i, f)
        /\ f \notin asked => \A k : Evidence(route, f) = {k} =>
              Evidence(u, f) = {k} /\ u.facilities[k] = route.facilities[k]

\* What is told of a facility once the answers are added.
LEMMA FacilitiesAreConfirmed ==
  ASSUME NEW route, route.facilities \in Seq(ToSet(route.facilities)), NEW answers, NEW i,
         NEW u, u.facilities = ConfirmedFacilities(route, answers, i), NEW f \in Facilities
  PROVE  TellsAnswer(u, route, answers, i, f)
<1> DEFINE asked == AskedFacilities(answers, i)
           missing == {g \in asked : Evidence(route, g) = {}}
           new == [g \in missing |-> AnsweredEvidence(answers, i, g)]
           M == {new[g] : g \in missing}
           old == route.facilities
           A == [k \in DOMAIN old |-> IF old[k].type \in asked
                                      THEN AnsweredEvidence(answers, i, old[k].type) ELSE old[k]]
           B == SetToSeq(M)
<1>1. u.facilities = A \o B
  <2>1. M = {AnsweredEvidence(answers, i, g) : g \in missing}
    OBVIOUS
  <2> HIDE DEF M
  <2> QED  BY <2>1 DEF ConfirmedFacilities, AnsweredEvidence, AskedFacilities
<1>2. IsFiniteSet(M)
  <2>1. IsFiniteSet(Facilities)
    <3>1. \A x, y : IsFiniteSet({x} \cup {y})
      BY FS_Singleton, FS_Union
    <3>2. Facilities = ({"ELEVATOR"} \cup {"RAMP"})
                          \cup ({"NURSING_ROOM"} \cup {"ACCESSIBLE_ENTRANCE"})
      BY DEF Facilities
    <3> QED  BY <3>1, <3>2, FS_Union
  <2>2. IsFiniteSet(missing)
    BY <2>1, FS_Subset DEF AskedFacilities
  <2> HIDE DEF missing, new
  <2> QED  BY <2>2, FiniteImage
<1>3. ASSUME NEW x \in M
      PROVE  x.type \in missing /\ x = AnsweredEvidence(answers, i, x.type)
  <2>1. PICK g \in missing : x = AnsweredEvidence(answers, i, g)
    OBVIOUS
  <2>2. x.type = g
    BY <2>1 DEF AnsweredEvidence
  <2> HIDE DEF missing, M
  <2> QED  BY <2>1, <2>2
<1>4. \A g \in missing : AnsweredEvidence(answers, i, g) \in M
  OBVIOUS
<1>5. /\ DOMAIN old = 1..Len(old) /\ Len(old) \in Nat /\ DOMAIN A = DOMAIN old
      /\ A \in Seq(ToSet(A)) /\ Len(A) = Len(old)
      /\ \A k \in DOMAIN old : A[k].type = old[k].type
  <2>1. DOMAIN old = 1..Len(old) /\ Len(old) \in Nat
    OBVIOUS
  <2>2. DOMAIN A = DOMAIN old /\ \A k \in DOMAIN old : A[k].type = old[k].type
    BY DEF AnsweredEvidence
  <2>3. A \in Seq(ToSet(A))
    BY <2>1 DEF ToSet
  <2>4. Len(A) = Len(old)
    BY <2>1, <2>2, <2>3
  <2> QED  BY <2>1, <2>2, <2>3, <2>4
<1>6. /\ B \in Seq(M) /\ IsInjective(B)
      /\ \A x \in M : \E k \in DOMAIN B : B[k] = x
  <2> HIDE DEF M
  <2> QED  BY <1>2, SequenceOfSet
<1> HIDE DEF M, B
<1>7. /\ DOMAIN u.facilities = 1..(Len(A) + Len(B)) /\ Len(B) \in Nat /\ DOMAIN B = 1..Len(B)
      /\ \A k \in 1..Len(A) : u.facilities[k] = A[k]
      /\ \A k \in 1..Len(B) : u.facilities[Len(A) + k] = B[k] /\ B[k] \in M
  <2>1. Len(B) \in Nat /\ DOMAIN B = 1..Len(B) /\ \A k \in 1..Len(B) : B[k] \in M
    BY <1>6
  <2>2. Len(A) \in Nat /\ DOMAIN A = 1..Len(A)
    BY <1>5
  <2>0. A \in Seq(ToSet(A)) /\ B \in Seq(M)
    BY <1>5, <1>6
  <2> HIDE DEF A
  <2>3. A \in Seq(ToSet(A) \cup M) /\ B \in Seq(ToSet(A) \cup M)
    BY <2>0
  <2>4. /\ DOMAIN (A \o B) = 1..(Len(A) + Len(B))
        /\ \A k \in 1..Len(A) : (A \o B)[k] = A[k]
        /\ \A k \in 1..Len(B) : (A \o B)[Len(A) + k] = B[k]
    BY <2>1, <2>2, <2>3
  <2> QED  BY <1>1, <2>1, <2>4
<1>8. ASSUME NEW k, Evidence(route, f) = {k}
      PROVE  Evidence(u, f) = {k} /\ k \in DOMAIN old /\ u.facilities[k] = A[k]
  <2>1. k \in DOMAIN old /\ old[k].type = f /\ f \notin missing
    BY <1>8 DEF Evidence
  <2>2. \A j \in DOMAIN old : old[j].type = f => j = k
    BY <1>8 DEF Evidence
  <2>3. k \in DOMAIN u.facilities /\ u.facilities[k] = A[k] /\ u.facilities[k].type = f
    <3>1. k \in 1..Len(A) /\ A[k].type = f
      BY <1>5, <2>1
    <3> HIDE DEF A
    <3> QED  BY <1>7, <3>1
  <2>4. ASSUME NEW j \in DOMAIN u.facilities, u.facilities[j].type = f  PROVE j = k
    <3>1. CASE j \in 1..Len(A)
      <4>1. j \in DOMAIN old /\ old[j].type = f
        BY <1>5, <1>7, <2>4, <3>1
      <4> QED  BY <2>2, <4>1
    <3>2. CASE j \notin 1..Len(A)
      <4>1. j - Len(A) \in 1..Len(B) /\ Len(A) + (j - Len(A)) = j
        BY <1>5, <1>7, <3>2
      <4>2. u.facilities[j] \in M
        BY <1>7, <4>1
      <4> QED  BY <1>3, <2>1, <2>4, <4>2
    <3> QED  BY <3>1, <3>2
  <2> QED  BY <2>1, <2>3, <2>4 DEF Evidence
<1>9. ASSUME f \in asked, Evidence(route, f) = {}
      PROVE  \E k : Evidence(u, f) = {k} /\ u.facilities[k] = AnsweredEvidence(answers, i, f)
  <2>1. \A j \in DOMAIN old : old[j].type # f
    BY <1>9 DEF Evidence
  <2>2. PICK b \in 1..Len(B) : B[b] = AnsweredEvidence(answers, i, f)
    BY <1>4, <1>6, <1>7, <1>9
  <2> DEFINE k == Len(A) + b
  <2>3. k \in DOMAIN u.facilities /\ u.facilities[k] = AnsweredEvidence(answers, i, f)
    BY <1>5, <1>7, <2>2
  <2>4. ASSUME NEW j \in DOMAIN u.facilities, u.facilities[j].type = f  PROVE j = k
    <3>1. j \notin 1..Len(A)
      BY <1>5, <1>7, <2>1, <2>4
    <3>2. j - Len(A) \in 1..Len(B) /\ Len(A) + (j - Len(A)) = j
      BY <1>5, <1>7, <3>1
    <3>3. u.facilities[j] = B[j - Len(A)] /\ u.facilities[j] \in M
      BY <1>7, <3>2
    <3>4. B[j - Len(A)] = B[b]
      BY <1>3, <2>2, <2>4, <3>3
    <3>5. j - Len(A) = b
      BY <1>6, <1>7, <3>2, <3>4 DEF IsInjective
    <3> QED  BY <3>2, <3>5
  <2> HIDE DEF k
  <2>5. Evidence(u, f) = {k}
    BY <2>3, <2>4 DEF Evidence, AnsweredEvidence
  <2> QED  BY <2>3, <2>5
<1>10. ASSUME NEW k \in DOMAIN old, old[k].type = f
       PROVE  A[k] = IF f \in asked THEN AnsweredEvidence(answers, i, f) ELSE old[k]
  BY <1>10
<1>11. ASSUME NEW k, Evidence(route, f) = {k}  PROVE k \in DOMAIN old /\ old[k].type = f
  BY <1>11 DEF Evidence
<1> HIDE DEF A, missing, asked
<1> QED  BY <1>8, <1>9, <1>10, <1>11 DEF asked, TellsAnswer

\* The unknown prices of a request.
Priced(r) == {w \in Candidate(r).warnings : w.code = "UNKNOWN_PRICE"}

PriceItem(i, fact) == [code |-> "UNKNOWN_PRICE", of |-> i, fact |-> fact]

\* Every item of the review of r is answered, with a value of its type.
AllAnswered(r, answers) ==
    /\ AreAnswers(answers)
    /\ DOMAIN answers = Candidate(r).warnings
    /\ \A w \in DOMAIN answers : IsAnswer(w, answers[w])

PriceOf(t, fact) == IF fact = "place" THEN t.place.price ELSE t.route.price

\* The prices that are asked for are those that are unknown.
LEMMA PricedAreUnknown ==
  ASSUME NEW r, IsRequest(r)
  PROVE  /\ \A w \in Priced(r) : /\ w.of \in DOMAIN r.tasks /\ w.fact \in {"place", "route"}
                                 /\ w = PriceItem(w.of, w.fact)
         /\ \A i \in DOMAIN r.tasks, fact \in {"place", "route"} :
               PriceItem(i, fact) \in Priced(r) <=> PriceOf(r.tasks[i], fact) = None
<1>1. 0 \notin DOMAIN r.tasks
  <2>1. DOMAIN r.tasks = 1..Len(r.tasks)
    BY DEF IsRequest
  <2> QED  BY <2>1
<1>2. \A w \in Priced(r) : /\ w.of \in DOMAIN r.tasks /\ w.fact \in {"place", "route"}
                           /\ w = PriceItem(w.of, w.fact)
  BY DEF Priced, Candidate, Facts, PriceItem
<1>3. ASSUME NEW i \in DOMAIN r.tasks, NEW fact \in {"place", "route"}
      PROVE  PriceItem(i, fact) \in Priced(r) <=> PriceOf(r.tasks[i], fact) = None
  <2>1. PriceItem(i, fact) \in Facts(r)
    BY DEF Facts, PriceItem
  <2>2. IsUnknown(PriceItem(i, fact), r) <=> PriceOf(r.tasks[i], fact) = None
    BY <1>1 DEF IsUnknown, PriceItem, PriceOf
  <2>3. PriceItem(i, fact).code = "UNKNOWN_PRICE"
    BY DEF PriceItem
  <2> QED  BY <2>1, <2>2, <2>3 DEF Priced, Candidate
<1> QED  BY <1>2, <1>3

\* There are finitely many of them.
LEMMA PricedAreFinite ==
  ASSUME NEW r, IsRequest(r)
  PROVE  IsFiniteSet(Priced(r))
<1> DEFINE D == DOMAIN r.tasks
           place == [i \in D |-> PriceItem(i, "place")]
           route == [i \in D |-> PriceItem(i, "route")]
           places == {place[i] : i \in D}
           routes == {route[i] : i \in D}
<1>1. IsFiniteSet(D)
  BY SequencesAreFinite DEF IsRequest
<1>2. IsFiniteSet(places)
  <2> HIDE DEF D, place
  <2> QED  BY <1>1, FiniteImage
<1>3. IsFiniteSet(routes)
  <2> HIDE DEF D, route
  <2> QED  BY <1>1, FiniteImage
<1>4. ASSUME NEW w \in Priced(r)  PROVE w \in places \cup routes
  <2> DEFINE i == w.of
  <2>1. i \in D /\ w.fact \in {"place", "route"} /\ w = PriceItem(i, w.fact)
    BY PricedAreUnknown
  <2> HIDE DEF i, D
  <2>2. w = place[i] \/ w = route[i]
    BY <2>1
  <2> QED  BY <2>1, <2>2
<1> HIDE DEF places, routes
<1>5. IsFiniteSet(places \cup routes) /\ Priced(r) \subseteq places \cup routes
  BY <1>2, <1>3, <1>4, FS_Union
<1> QED  BY <1>5, FS_Subset

\* What the task costs once the answers are added.
LEMMA PriceIsAnswered ==
  ASSUME NEW r, IsRequest(r), NEW answers, AllAnswered(r, answers),
         NEW i \in DOMAIN r.tasks, NEW fact \in {"place", "route"}
  PROVE  LET p == PriceItem(i, fact)
             u == ConfirmedTask(r.tasks[i], answers, i)
         IN  /\ p \in Priced(r) => answers[p].amount \in Nat /\ answers[p].amount # None
             /\ PriceOf(u, fact) = IF p \in Priced(r) THEN answers[p].amount
                                   ELSE PriceOf(r.tasks[i], fact)
             /\ PriceOf(u, fact) # None
             /\ PriceOf(r.tasks[i], fact) \in Nat \cup {None}
<1> DEFINE p == PriceItem(i, fact)
           t == r.tasks[i]
           u == ConfirmedTask(t, answers, i)
<1>1. IsTask(t)
  BY DEF IsRequest, ToSet
<1>2. p \in Priced(r) <=> p \in DOMAIN answers
  BY DEF AllAnswered, Priced, PriceItem
<1>3. p \in Priced(r) => answers[p].amount \in Nat /\ answers[p].amount # None
  BY <1>2 DEF AllAnswered, AreAnswers, IsAnswer, PriceItem
<1>4. PriceOf(u, fact) = IF p \in DOMAIN answers THEN answers[p].amount ELSE PriceOf(t, fact)
  <2>1. CASE fact = "place"
    <3>1. u.place.price = Confirmed(t.place, answers, i, "place").price
      BY <1>1, TaskIsKept
    <3> QED  BY <1>1, <2>1, <3>1 DEF PriceOf, Confirmed, Asked, AnswerTo, PriceItem, IsTask
  <2>2. CASE fact = "route"
    <3>1. u.route.price = Confirmed(t.route, answers, i, "route").price
      BY <1>1, TaskIsKept
    <3> QED  BY <1>1, <2>2, <3>1 DEF PriceOf, Confirmed, Asked, AnswerTo, PriceItem, IsTask
  <2> QED  BY <2>1, <2>2
<1>5. p \in Priced(r) <=> PriceOf(t, fact) = None
  BY PricedAreUnknown
<1>6. PriceOf(t, fact) \in Nat \cup {None}
  BY <1>1 DEF IsTask, PriceOf
<1> QED  BY <1>2, <1>3, <1>4, <1>5, <1>6

\* A request that is answered costs what was known and what was answered.
LEMMA AnswersAddUp ==
  ASSUME NEW r, IsRequest(r), NEW answers, AllAnswered(r, answers)
  PROVE  LET c == ApplyConfirmations(r, answers)
         IN  /\ KnownTotal(c) \in Int
             /\ KnownTotal(c) = KnownTotal(r)
                                  + FoldFunction(+, 0, [w \in Priced(r) |-> answers[w].amount])
<1> DEFINE c == ApplyConfirmations(r, answers)
           D == DOMAIN r.tasks
           P == Priced(r)
           v == [i \in D |-> Known(r.tasks[i].place.price) + Known(r.tasks[i].route.price)]
           w == [i \in D |-> Known(c.tasks[i].place.price) + Known(c.tasks[i].route.price)]
           a == [p \in P |-> answers[p].amount]
           worth(i, fact) == IF PriceItem(i, fact) \in P THEN a[PriceItem(i, fact)] ELSE 0
<1>1. DOMAIN c.tasks = D /\ \A i \in D : c.tasks[i] = ConfirmedTask(r.tasks[i], answers, i)
  BY RequestIsKept DEF SameRequest
<1>2. KnownTotal(r) = Total(v) /\ KnownTotal(c) = Total(w)
  BY <1>1 DEF KnownTotal, Total
<1>3. FoldFunction(+, 0, a) = Added(a, P)
  BY DEF FoldFunction, FoldFunctionOnSet, Added, MapThenSumSet
<1> HIDE DEF c
<1>4. ASSUME NEW i \in D, NEW fact \in {"place", "route"}
      PROVE  /\ worth(i, fact) \in Nat /\ Known(PriceOf(r.tasks[i], fact)) \in Nat
             /\ Known(PriceOf(c.tasks[i], fact))
                  = Known(PriceOf(r.tasks[i], fact)) + worth(i, fact)
  <2>1. PriceItem(i, fact) \in P <=> PriceOf(r.tasks[i], fact) = None
    BY PricedAreUnknown
  <2> QED  BY <1>1, <2>1, PriceIsAnswered DEF Known
<1> HIDE DEF worth
<1>5. ASSUME NEW i \in D
      PROVE  v[i] \in Int /\ w[i] \in Int
             /\ w[i] = v[i] + (worth(i, "place") + worth(i, "route"))
  <2>1. /\ v[i] = Known(PriceOf(r.tasks[i], "place")) + Known(PriceOf(r.tasks[i], "route"))
        /\ w[i] = Known(PriceOf(c.tasks[i], "place")) + Known(PriceOf(c.tasks[i], "route"))
    BY DEF PriceOf
  <2> HIDE DEF v, w
  <2> QED  BY <1>4, <2>1
<1>6. DOMAIN v = D /\ DOMAIN w = D /\ D \in SUBSET Int /\ IsFiniteSet(D)
  BY SequencesAreFinite DEF IsRequest
<1>7. IsFiniteSet(P) /\ AreIn(a, P, Int)
  <2>1. ASSUME NEW p \in P  PROVE a[p] \in Int
    BY PricedAreUnknown, PriceIsAnswered
  <2> QED  BY <2>1, PricedAreFinite DEF AreIn
<1>8. AreIn(v, D, Int) /\ AreIn(w, D, Int)
  BY <1>5 DEF AreIn
<1>9. \A p \in P : p.of \in D
  BY PricedAreUnknown
<1>10. \A p \in P : p.fact \in {"place", "route"} /\ p = PriceItem(p.of, p.fact)
  BY PricedAreUnknown
<1> HIDE DEF D, P, v, w, a
<1>11. PICK g : SumsUp(g, D, v) /\ Total(v) = g[D]
  BY <1>5, <1>6, SequenceSumsUp
<1>12. PICK h : SumsUp(h, D, w) /\ Total(w) = h[D]
  BY <1>5, <1>6, SequenceSumsUp
<1>13. PICK k : SumsUp(k, P, a) /\ Added(a, P) = k[P]
  BY <1>7, SetSumsUp
<1>14. ASSUME NEW i \in D
       PROVE  k[PartsOf(P, i)] = worth(i, "place") + worth(i, "route")
  <2> DEFINE A(fact) == {p \in P : p = PriceItem(i, fact)}
  <2>1. ASSUME NEW fact  PROVE k[A(fact)] = worth(i, fact)
    <3>1. CASE PriceItem(i, fact) \in P
      <4>1. A(fact) = {PriceItem(i, fact)} /\ A(fact) \in SUBSET P
        BY <3>1
      <4>2. A(fact) \ {PriceItem(i, fact)} = {}
        BY <4>1
      <4> HIDE DEF A
      <4>3. k[A(fact)] = a[PriceItem(i, fact)] + k[{}] /\ k[{}] = 0
        BY <1>13, <4>1, <4>2 DEF SumsUp
      <4>4. a[PriceItem(i, fact)] \in Int
        BY <1>7, <3>1 DEF AreIn
      <4> QED  BY <3>1, <4>3, <4>4 DEF worth
    <3>2. CASE PriceItem(i, fact) \notin P
      <4>1. A(fact) = {}
        BY <3>2
      <4> HIDE DEF A
      <4> QED  BY <1>13, <3>2, <4>1 DEF SumsUp, worth
    <3> QED  BY <3>1, <3>2
  <2>2. PartsOf(P, i) = A("place") \cup A("route")
    BY <1>10 DEF PriceItem, PartsOf
  <2>3. A("place") \cap A("route") = {}
    BY DEF PriceItem
  <2>4. A("place") \in SUBSET P /\ A("route") \in SUBSET P
    OBVIOUS
  <2> HIDE DEF A
  <2>5. k[A("place") \cup A("route")] = k[A("place")] + k[A("route")]
    BY <1>7, <1>13, <2>3, <2>4, SumOfUnion
  <2> QED  BY <2>1, <2>2, <2>5
<1>15. \A i \in D : w[i] = v[i] + k[PartsOf(P, i)]
  BY <1>5, <1>14
<1>16. h[D] = g[D] + k[P]
  <2>1. IsExtended(D, v, w, g, h, P, a, k)
    BY <1>6, <1>7, <1>8, <1>9, <1>11, <1>12, <1>13, <1>15 DEF IsExtended
  <2> QED  BY <2>1, SumsMeet
<1>17. h[D] \in Int
  BY <1>12 DEF SumsUp
<1> QED  BY <1>2, <1>3, <1>11, <1>12, <1>13, <1>16, <1>17 DEF c, P, a

\* A set of at most one element.
LEMMA AtMostOne ==
  ASSUME NEW S, IsFiniteSet(S)
  PROVE  /\ Cardinality(S) \in Nat
         /\ Cardinality(S) = 1 <=> \E x : S = {x}
         /\ ~(Cardinality(S) > 1) => S = {} \/ \E x : S = {x}
<1>1. Cardinality(S) \in Nat
  BY FS_CardinalityType
<1>2. Cardinality(S) = 1 <=> \E x : S = {x}
  BY FS_Singleton
<1>3. Cardinality(S) = 0 <=> S = {}
  BY FS_EmptySet
<1>4. \A n \in Nat : ~(n > 1) => n = 0 \/ n = 1
  OBVIOUS
<1> QED  BY <1>1, <1>2, <1>3, <1>4

\* A route tells of finitely many facilities.
LEMMA EvidenceIsFinite ==
  ASSUME NEW route, route.facilities \in Seq(ToSet(route.facilities)), NEW f
  PROVE  IsFiniteSet(Evidence(route, f))
<1>1. IsFiniteSet(DOMAIN route.facilities)
  BY SequencesAreFinite
<1>2. Evidence(route, f) \subseteq DOMAIN route.facilities
  BY DEF Evidence
<1> QED  BY <1>1, <1>2, FS_Subset

FacilityItem(i, f) == [code |-> "UNKNOWN_FACILITY", of |-> i, fact |-> f]

\* Nothing is unknown of a facility that was answered, or needed no answer.
LEMMA FacilityIsAnswered ==
  ASSUME NEW r, IsRequest(r), NEW answers, AllAnswered(r, answers), NeedsFacilities(r.trip),
         NEW i \in DOMAIN r.tasks, NEW f \in Facilities,
         FacilityItem(i, f) \in DOMAIN answers => ~ToldTwice(r.tasks[i].route, f)
  PROVE  ~FacilityUnknown(ConfirmedTask(r.tasks[i], answers, i).route, f)
<1> DEFINE t == r.tasks[i]
           u == ConfirmedTask(t, answers, i).route
           p == FacilityItem(i, f)
<1>1. IsTask(t)
  BY DEF IsRequest, ToSet
<1> HIDE DEF t
<1>2. /\ t.route.facilities \in Seq(ToSet(t.route.facilities))
      /\ u.facilities = ConfirmedFacilities(t.route, answers, i)
  <2>1. t.route.facilities \in Seq(ToSet(t.route.facilities))
    BY <1>1 DEF IsTask
  <2>2. u.facilities = ConfirmedFacilities(t.route, answers, i)
    BY <1>1, TaskIsKept
  <2> QED  BY <2>1, <2>2
<1>3. f \in AskedFacilities(answers, i) <=> p \in DOMAIN answers
  BY DEF AskedFacilities, Asked, FacilityItem
<1>4. p \in DOMAIN answers <=> FacilityUnknown(t.route, f)
  <2>1. p \in Facts(r)
    BY DEF Facts, FacilityItem
  <2>2. 0 \notin DOMAIN r.tasks
    <3>1. DOMAIN r.tasks = 1..Len(r.tasks)
      BY DEF IsRequest
    <3> QED  BY <3>1
  <2>3. IsUnknown(p, r) <=> FacilityUnknown(t.route, f)
    BY <2>2 DEF IsUnknown, FacilityItem, t
  <2> QED  BY <2>1, <2>3 DEF AllAnswered, Candidate
<1>5. p \in DOMAIN answers =>
         AnsweredEvidence(answers, i, f).status \in {"PASS", "FAIL"}
  <2>1. ASSUME p \in DOMAIN answers
        PROVE  answers[p].facility \in {"PASS", "FAIL"}
    BY <2>1 DEF AllAnswered, AreAnswers, IsAnswer, FacilityItem
  <2> QED  BY <2>1 DEF AnsweredEvidence, AnswerTo, FacilityItem
<1>6. AnsweredEvidence(answers, i, f).source = "USER_CONFIRMED"
  BY DEF AnsweredEvidence
<1>7. IsFiniteSet(Evidence(t.route, f))
  BY <1>2, EvidenceIsFinite
<1> HIDE DEF u, p
<1>10. TellsAnswer(u, t.route, answers, i, f)
  BY <1>2, FacilitiesAreConfirmed
<1>8. CASE p \in DOMAIN answers
  <2>1. Evidence(t.route, f) = {} \/ \E k : Evidence(t.route, f) = {k}
    BY <1>7, <1>8, AtMostOne DEF ToldTwice, t, p
  <2>2. PICK k : Evidence(u, f) = {k} /\ u.facilities[k] = AnsweredEvidence(answers, i, f)
    BY <1>3, <1>8, <1>10, <2>1 DEF TellsAnswer
  <2>3. Cardinality(Evidence(u, f)) = 1
    BY <2>2, FS_Singleton
  <2> QED  BY <1>5, <1>6, <1>8, <2>2, <2>3 DEF FacilityUnknown, u, t
<1>9. CASE p \notin DOMAIN answers
  <2>1. ~FacilityUnknown(t.route, f)
    BY <1>4, <1>9
  <2>2. PICK k : Evidence(t.route, f) = {k}
    BY <1>7, <2>1, AtMostOne DEF FacilityUnknown
  <2>3. Evidence(u, f) = {k} /\ u.facilities[k] = t.route.facilities[k]
    BY <1>3, <1>9, <1>10, <2>2 DEF TellsAnswer
  <2>4. Cardinality(Evidence(u, f)) = 1
    BY <2>3, FS_Singleton
  <2> QED  BY <2>1, <2>2, <2>3, <2>4 DEF FacilityUnknown, u, t
<1> QED  BY <1>8, <1>9

SourceItem(i, fact) == [code |-> "UNKNOWN_SOURCE", of |-> i, fact |-> fact]

\* Every source is known once it was answered.
LEMMA SourceIsAnswered ==
  ASSUME NEW r, IsRequest(r), NEW answers, AllAnswered(r, answers)
  PROVE  LET c == ApplyConfirmations(r, answers)
         IN  /\ c.start.source # "UNKNOWN" /\ c.end.source # "UNKNOWN"
             /\ \A i \in DOMAIN r.tasks :
                   LET u == ConfirmedTask(r.tasks[i], answers, i)
                   IN  u.place.source # "UNKNOWN" /\ u.route.source # "UNKNOWN"
<1> DEFINE c == ApplyConfirmations(r, answers)
<1>0. 0 \notin DOMAIN r.tasks
  <2>1. DOMAIN r.tasks = 1..Len(r.tasks)
    BY DEF IsRequest
  <2> QED  BY <2>1
<1>1. ASSUME NEW fact \in {"start", "end"}
      PROVE  SourceItem(0, fact) \in DOMAIN answers <=> r[fact].source = "UNKNOWN"
  <2>1. SourceItem(0, fact) \in Facts(r)
    BY DEF Facts, SourceItem
  <2>2. IsUnknown(SourceItem(0, fact), r) <=> r[fact].source = "UNKNOWN"
    BY DEF IsUnknown, SourceItem
  <2> QED  BY <2>1, <2>2 DEF AllAnswered, Candidate
<1>2. ASSUME NEW i \in DOMAIN r.tasks, NEW fact \in {"place", "route"}
      PROVE  SourceItem(i, fact) \in DOMAIN answers <=> r.tasks[i][fact].source = "UNKNOWN"
  <2>1. SourceItem(i, fact) \in Facts(r)
    BY DEF Facts, SourceItem
  <2>2. IsUnknown(SourceItem(i, fact), r) <=> r.tasks[i][fact].source = "UNKNOWN"
    BY <1>0 DEF IsUnknown, SourceItem
  <2> QED  BY <2>1, <2>2 DEF AllAnswered, Candidate
<1>3. c.start.source # "UNKNOWN" /\ c.end.source # "UNKNOWN"
  <2>1. /\ c.start.source = IF Asked(answers, "UNKNOWN_SOURCE", 0, "start")
                            THEN "USER_CONFIRMED" ELSE r.start.source
        /\ c.end.source = IF Asked(answers, "UNKNOWN_SOURCE", 0, "end")
                          THEN "USER_CONFIRMED" ELSE r.end.source
    BY RequestIsKept
  <2>2. /\ Asked(answers, "UNKNOWN_SOURCE", 0, "start") <=> r.start.source = "UNKNOWN"
        /\ Asked(answers, "UNKNOWN_SOURCE", 0, "end") <=> r.end.source = "UNKNOWN"
    BY <1>1 DEF Asked, SourceItem
  <2> HIDE DEF c
  <2> QED  BY <2>1, <2>2
<1>4. ASSUME NEW i \in DOMAIN r.tasks
      PROVE  LET u == ConfirmedTask(r.tasks[i], answers, i)
             IN  u.place.source # "UNKNOWN" /\ u.route.source # "UNKNOWN"
  <2> DEFINE t == r.tasks[i]
             u == ConfirmedTask(t, answers, i)
  <2>1. IsTask(t)
    BY DEF IsRequest, ToSet
  <2>2. /\ u.place.source = Confirmed(t.place, answers, i, "place").source
        /\ u.route.source = Confirmed(t.route, answers, i, "route").source
    BY <2>1, TaskIsKept
  <2>3. /\ u.place.source = IF Asked(answers, "UNKNOWN_SOURCE", i, "place")
                            THEN "USER_CONFIRMED" ELSE t.place.source
        /\ u.route.source = IF Asked(answers, "UNKNOWN_SOURCE", i, "route")
                            THEN "USER_CONFIRMED" ELSE t.route.source
    BY <2>1, <2>2 DEF Confirmed, IsTask
  <2>4. /\ Asked(answers, "UNKNOWN_SOURCE", i, "place") <=> t.place.source = "UNKNOWN"
        /\ Asked(answers, "UNKNOWN_SOURCE", i, "route") <=> t.route.source = "UNKNOWN"
    BY <1>2 DEF Asked, SourceItem
  <2> HIDE DEF u
  <2> QED  BY <2>3, <2>4 DEF u
<1> QED  BY <1>3, <1>4

\* Once everything is answered, nothing is unknown.
LEMMA NothingIsUnknown ==
  ASSUME NEW r, IsRequest(r), NEW answers, AllAnswered(r, answers),
         AmbiguousItems(r, Candidate(r).warnings) = {}
  PROVE  Candidate(ApplyConfirmations(r, answers)).warnings = {}
<1> DEFINE c == ApplyConfirmations(r, answers)
<1>1. /\ DOMAIN c.tasks = DOMAIN r.tasks /\ c.trip = r.trip
      /\ \A i \in DOMAIN r.tasks : c.tasks[i] = ConfirmedTask(r.tasks[i], answers, i)
  BY RequestIsKept DEF SameRequest
<1>2. c.start.source # "UNKNOWN" /\ c.end.source # "UNKNOWN"
  BY SourceIsAnswered
<1> HIDE DEF c
<1>0. 0 \notin DOMAIN r.tasks
  <2>1. DOMAIN r.tasks = 1..Len(r.tasks)
    BY DEF IsRequest
  <2> QED  BY <2>1
<1>3. ASSUME NEW i \in DOMAIN r.tasks
      PROVE  c.tasks[i].place.source # "UNKNOWN" /\ c.tasks[i].route.source # "UNKNOWN"
  BY <1>1, SourceIsAnswered
<1>4. ASSUME NEW i \in DOMAIN r.tasks
      PROVE  c.tasks[i].place.price # None /\ c.tasks[i].route.price # None
  <2>1. PriceOf(c.tasks[i], "place") # None /\ PriceOf(c.tasks[i], "route") # None
    BY <1>1, PriceIsAnswered
  <2> QED  BY <2>1 DEF PriceOf
<1>5. ASSUME NEW i \in DOMAIN r.tasks, NEW f \in Facilities, NeedsFacilities(c.trip)
      PROVE  ~FacilityUnknown(c.tasks[i].route, f)
  <2>1. ASSUME FacilityItem(i, f) \in DOMAIN answers  PROVE ~ToldTwice(r.tasks[i].route, f)
    <3>1. FacilityItem(i, f) \in Candidate(r).warnings
      BY <2>1 DEF AllAnswered
    <3> QED  BY <3>1 DEF AmbiguousItems, FacilityItem
  <2> QED  BY <1>1, <1>5, <2>1, FacilityIsAnswered
<1>6. ASSUME NEW w \in Facts(c)  PROVE ~IsUnknown(w, c)
  <2>1. CASE w.code = "UNKNOWN_PRICE"
    <3>1. w.of \in DOMAIN r.tasks /\ w.fact \in {"place", "route"}
      BY <1>1, <2>1 DEF Facts
    <3> QED  BY <1>0, <1>4, <2>1, <3>1 DEF IsUnknown
  <2>2. CASE w.code = "UNKNOWN_FACILITY"
    <3>1. w.of \in DOMAIN r.tasks /\ w.fact \in Facilities
      BY <1>1, <2>2 DEF Facts
    <3> QED  BY <1>0, <1>5, <2>2, <3>1 DEF IsUnknown
  <2>3. CASE w.code = "UNKNOWN_SOURCE"
    <3>1. \/ w.of \in DOMAIN r.tasks /\ w.fact \in {"place", "route"}
          \/ w.of = 0 /\ w.fact \in {"start", "end"}
      BY <1>1, <2>3 DEF Facts
    <3> QED  BY <1>0, <1>2, <1>3, <2>3, <3>1 DEF IsUnknown
  <2> QED  BY <2>1, <2>2, <2>3 DEF Facts
<1> QED  BY <1>6 DEF Candidate, c

\* Once a review of an accepted candidate is answered, there is a plan that costs
\* what was known and what was answered, unless the budget forbids it or a route
\* tells of one facility twice (_confirm_review_ready).
THEOREM AnsweredReviewIsComplete ==
  ASSUME NEW candidate, NEW answers, IsRequest(candidate.request),
         Generate(candidate.request) = Accepted(candidate), AreAnswers(answers)
  PROVE  ReviewIsComplete(candidate, answers, ConfirmReview(candidate, answers))
<1> DEFINE r == candidate.request
           items == candidate.warnings
           priced == {w \in items : w.code = "UNKNOWN_PRICE"}
           total == KnownTotal(r) + FoldFunction(+, 0, [w \in priced |-> answers[w].amount])
           twice == \E t \in ToSet(r.tasks), f \in Facilities : ToldTwice(t.route, f)
           c == ApplyConfirmations(r, answers)
           result == ConfirmReview(candidate, answers)
<1>1. candidate = Candidate(r) /\ Generate(r).code = "OK"
  <2>1. Generate(r).code = "OK" /\ Generate(r).value = candidate
    BY DEF Accepted
  <2>2. Generate(r).code = "OK" => Generate(r) = Accepted(Candidate(r))
    BY DEF Generate, Refused
  <2> QED  BY <2>1, <2>2 DEF Accepted
<1>2. items = Candidate(r).warnings /\ priced = Priced(r)
  BY <1>1 DEF Priced
<1> SUFFICES ASSUME DOMAIN answers = items, \A w \in items : IsAnswer(w, answers[w])
             PROVE  \/ result.code = "OK" /\ result.value.cost = total
                    \/ result.code = "CANDIDATE_PLAN_REJECTED" /\ total > BudgetLimit(r.trip)
                    \/ result.code = "PLANNING_REVIEW_REFERENCE_INVALID" /\ twice
  BY DEF ReviewIsComplete
<1>3. AllAnswered(r, answers)
  BY <1>2 DEF AllAnswered
<1>4. KnownTotal(c) = total /\ total \in Int
  <2>1. /\ KnownTotal(c) \in Int
        /\ KnownTotal(c) = KnownTotal(r)
                             + FoldFunction(+, 0, [w \in Priced(r) |-> answers[w].amount])
    BY <1>3, AnswersAddUp
  <2> QED  BY <1>2, <2>1
<1>5. SameRequest(r, c)
  BY RequestIsKept
<1>6. CASE AmbiguousItems(r, items) # {}
  <2>1. result.code = "PLANNING_REVIEW_REFERENCE_INVALID"
    BY <1>6 DEF ConfirmReview, Refused
  <2>2. PICK w \in items : w.code = "UNKNOWN_FACILITY" /\ ToldTwice(r.tasks[w.of].route, w.fact)
    BY <1>6 DEF AmbiguousItems
  <2>3. w.of \in DOMAIN r.tasks /\ w.fact \in Facilities
    BY <1>2, <2>2 DEF Candidate, Facts
  <2>4. twice
    BY <2>2, <2>3 DEF ToSet
  <2> QED  BY <2>1, <2>4
<1>7. CASE AmbiguousItems(r, items) = {}
  <2>1. Candidate(c).warnings = {}
    BY <1>2, <1>3, <1>7, NothingIsUnknown
  <2>2. Candidate(c).cost = KnownTotal(c) /\ Candidate(c).status = "PASS"
    BY <2>1 DEF Candidate
  <2>3. result = IF Generate(c).code # "OK" THEN Generate(c)
                 ELSE Proposed(Generate(c).value, c)
    BY <1>7 DEF ConfirmReview
  <2>4. \/ Generate(c) = Accepted(Candidate(c)) /\ KnownTotal(c) <= BudgetLimit(r.trip)
        \/ Generate(c) = Refused("CANDIDATE_PLAN_REJECTED")
             /\ ~(KnownTotal(c) <= BudgetLimit(r.trip))
    BY <1>1, <1>5, OnlyTheBudgetCounts
  <2> HIDE DEF c, total, result
  <2>5. CASE Generate(c) = Accepted(Candidate(c))
    <3>1. result = Proposed(Candidate(c), c)
      BY <2>3, <2>5 DEF Accepted
    <3>2. result.code = "OK" /\ result.value.cost = Candidate(c).cost
      BY <2>2, <2>5, <3>1 DEF Proposed, ProposedAs, Accepted
    <3> QED  BY <1>4, <2>2, <3>2
  <2>6. CASE Generate(c) = Refused("CANDIDATE_PLAN_REJECTED")
               /\ ~(KnownTotal(c) <= BudgetLimit(r.trip))
    <3>1. result.code = "CANDIDATE_PLAN_REJECTED"
      BY <2>3, <2>6 DEF Refused
    <3>2. BudgetLimit(r.trip) \in Int
      BY BudgetIsNumber
    <3>3. total > BudgetLimit(r.trip)
      BY <1>4, <2>6, <3>2
    <3> QED  BY <3>1, <3>3
  <2> QED  BY <2>4, <2>5, <2>6
<1> QED  BY <1>6, <1>7

-----------------------------------------------------------------------------
(* Lists that hold each element of a set once. *)

\* The keys of the members of S are tuples of numbers, no two of them equal.
AreKeys(key, S) ==
    /\ \E n \in Nat : \A x \in S : key[x] \in [1..n -> Int]
    /\ \A x, y \in S : key[x] = key[y] => x = y

\* s has every member of S once.
IsListing(s, S) ==
    /\ IsFiniteSet(S) /\ s \in Seq(S) /\ Len(s) = Cardinality(S) /\ ToSet(s) = S
    /\ \A i, j \in DOMAIN s : s[i] = s[j] => i = j

\* What is sorted by such keys has every member once, the lesser before the
\* greater: the number of lesser keys tells the members apart.
LEMMA SortedIsListing ==
  ASSUME NEW S, IsFiniteSet(S), NEW key, AreKeys(key, S)
  PROVE  /\ IsListing(Sorted(S, key), S)
         /\ \A i, j \in DOMAIN Sorted(S, key) :
               i < j => Less(key[Sorted(S, key)[i]], key[Sorted(S, key)[j]])
<1> DEFINE pair == [x \in S |-> <<key[x], x>>]
           keyed == {<<key[x], x>> : x \in S}
           below == [x \in S |-> {l \in keyed : Less(l[1], key[x])}]
           ranked == {<<Cardinality({l \in keyed : Less(l[1], k[1])}), k[2]>> : k \in keyed}
           N == Cardinality(S)
           f == [x \in S |-> Cardinality(below[x]) + 1]
           s == [n \in 1..N |-> CHOOSE x \in S : <<n - 1, x>> \in ranked]
<1>0. N \in Nat
  BY FS_CardinalityType
<1>1. IsFiniteSet(keyed) /\ Cardinality(keyed) \in Nat /\ Cardinality(keyed) <= N
  <2>1. pair \in Surjection(S, keyed)
    BY DEF Surjection
  <2> HIDE DEF pair, keyed
  <2> QED  BY <2>1, FS_Surjection, FS_CardinalityType
<1>2. ASSUME NEW x \in S
      PROVE  /\ IsFiniteSet(below[x]) /\ Cardinality(below[x]) \in Nat
             /\ Cardinality(below[x]) <= N - 1
  <2>1. <<key[x], x>> \in keyed /\ <<key[x], x>> \notin below[x] /\ below[x] \in SUBSET keyed
    BY TuplesAreOrdered DEF AreKeys
  <2> HIDE DEF keyed, below
  <2>2. /\ IsFiniteSet(below[x]) /\ Cardinality(below[x]) <= Cardinality(keyed)
        /\ Cardinality(below[x]) = Cardinality(keyed) => below[x] = keyed
    BY <1>1, <2>1, FS_Subset
  <2>3. Cardinality(below[x]) \in Nat
    BY <2>2, FS_CardinalityType
  <2>4. Cardinality(below[x]) # Cardinality(keyed)
    BY <2>1, <2>2
  <2> HIDE DEF N
  <2> QED  BY <1>0, <1>1, <2>2, <2>3, <2>4
<1>3. ASSUME NEW x \in S, NEW y \in S, Less(key[x], key[y])
      PROVE  Cardinality(below[x]) < Cardinality(below[y])
  <2>0. PICK n \in Nat : \A z \in S : key[z] \in [1..n -> Int]
    BY DEF AreKeys
  <2>1. below[x] \in SUBSET below[y]
    <3> SUFFICES ASSUME NEW z \in S, Less(key[z], key[x])
                 PROVE  Less(key[z], key[y])
      OBVIOUS
    <3>1. key[x] \in [1..n -> Int] /\ key[y] \in [1..n -> Int] /\ key[z] \in [1..n -> Int]
      BY <2>0
    <3> HIDE DEF keyed, below
    <3> QED  BY <1>3, <3>1, TuplesAreOrdered
  <2>2. <<key[x], x>> \in below[y] /\ <<key[x], x>> \notin below[x]
    BY <1>3, TuplesAreOrdered DEF AreKeys
  <2> HIDE DEF keyed, below
  <2>3. /\ Cardinality(below[x]) <= Cardinality(below[y])
        /\ Cardinality(below[x]) = Cardinality(below[y]) => below[x] = below[y]
    BY <1>2, <2>1, FS_Subset
  <2>4. Cardinality(below[x]) \in Nat /\ Cardinality(below[y]) \in Nat
    BY <1>2
  <2> QED  BY <2>2, <2>3, <2>4
<1>4. \A x, y \in S : Cardinality(below[x]) = Cardinality(below[y]) => x = y
  <2> SUFFICES ASSUME NEW x \in S, NEW y \in S, Cardinality(below[x]) = Cardinality(below[y])
               PROVE  x = y
    OBVIOUS
  <2>1. ~Less(key[x], key[y]) /\ ~Less(key[y], key[x])
    <3> HIDE DEF below
    <3>1. Cardinality(below[x]) \in Nat /\ Cardinality(below[y]) \in Nat
      BY <1>2
    <3> QED  BY <1>3, <3>1
  <2>2. key[x] = key[y]
    BY <2>1, TuplesAreOrdered DEF AreKeys
  <2> QED  BY <2>2 DEF AreKeys
<1>5. f \in Surjection(S, 1..N)
  <2> HIDE DEF below, N
  <2>1. \A x \in S : f[x] \in 1..N
    BY <1>0, <1>2
  <2>2. f \in Injection(S, 1..N)
    BY <1>2, <1>4, <2>1 DEF Injection, IsInjective
  <2>3. IsFiniteSet(1..N) /\ Cardinality(1..N) = N
    BY <1>0, SoManyNumbers
  <2> HIDE DEF f
  <2> QED  BY <2>2, <2>3, FS_Injection DEF N
<1>6. \A x \in S : \A r : <<r, x>> \in ranked <=> r = Cardinality(below[x])
  <2> SUFFICES ASSUME NEW x \in S, NEW r
               PROVE  <<r, x>> \in ranked <=> r = Cardinality(below[x])
    OBVIOUS
  <2> DEFINE under == [k \in keyed |-> Cardinality({l \in keyed : Less(l[1], k[1])})]
  <2>1. under[<<key[x], x>>] = Cardinality(below[x])
    OBVIOUS
  <2>2. <<key[x], x>> \in keyed
    OBVIOUS
  <2>3. \A k \in keyed : k[2] = x => k = <<key[x], x>>
    OBVIOUS
  <2>4. ranked = {<<under[k], k[2]>> : k \in keyed}
    OBVIOUS
  <2> HIDE DEF keyed, below, ranked, under
  <2>5. CASE r = Cardinality(below[x])
    <3>1. <<r, x>> = <<under[<<key[x], x>>], (<<key[x], x>>)[2]>>
      BY <2>1, <2>5
    <3> QED  BY <2>2, <2>4, <2>5, <3>1
  <2>6. CASE <<r, x>> \in ranked
    <3>1. PICK k \in keyed : <<r, x>> = <<under[k], k[2]>>
      BY <2>4, <2>6
    <3>2. k[2] = x /\ under[k] = r
      BY <3>1
    <3>3. k = <<key[x], x>>
      BY <2>3, <3>2
    <3>4. under[k] = under[<<key[x], x>>]
      BY <3>3
    <3> QED  BY <2>1, <2>6, <3>2, <3>4
  <2> QED  BY <2>5, <2>6
<1>7. \A n \in 1..N : s[n] \in S /\ Cardinality(below[s[n]]) = n - 1
  <2> SUFFICES ASSUME NEW n \in 1..N
               PROVE  s[n] \in S /\ Cardinality(below[s[n]]) = n - 1
    OBVIOUS
  <2>1. PICK x \in S : f[x] = n
    BY <1>5 DEF Surjection
  <2>2. Cardinality(below[x]) = n - 1
    <3> HIDE DEF below, N
    <3> QED  BY <1>2, <2>1
  <2> HIDE DEF below, ranked
  <2>3. <<n - 1, x>> \in ranked
    BY <1>6, <2>2
  <2>4. s[n] \in S /\ <<n - 1, s[n]>> \in ranked
    BY <2>3
  <2> HIDE DEF s
  <2> QED  BY <1>6, <2>4
<1>8. s \in Seq(S) /\ Len(s) = N /\ DOMAIN s = 1..N
  <2>1. s \in [1..N -> S]
    BY <1>7
  <2> HIDE DEF s, N
  <2> QED  BY <1>0, <2>1
<1> HIDE DEF below
<1>9. \A i, j \in DOMAIN s : s[i] = s[j] => i = j
  <2> HIDE DEF s, N
  <2> SUFFICES ASSUME NEW i \in 1..N, NEW j \in 1..N, s[i] = s[j]  PROVE i = j
    BY <1>8
  <2>1. Cardinality(below[s[i]]) = i - 1 /\ Cardinality(below[s[j]]) = j - 1
    BY <1>7
  <2>2. i - 1 = j - 1
    BY <2>1
  <2> QED  BY <1>0, <2>2
<1>10. ToSet(s) = S
  <2>1. ASSUME NEW x \in S PROVE \E n \in 1..N : s[n] = x
    <3>1. Cardinality(below[x]) + 1 \in 1..N
      <4> HIDE DEF N
      <4> QED  BY <1>0, <1>2
    <3> HIDE DEF s, N
    <3>2. s[Cardinality(below[x]) + 1] \in S
          /\ Cardinality(below[s[Cardinality(below[x]) + 1]]) = Cardinality(below[x])
      BY <1>2, <1>7, <3>1
    <3> QED  BY <1>4, <3>1, <3>2
  <2> HIDE DEF s, N
  <2> QED  BY <1>7, <1>8, <2>1 DEF ToSet
<1>11. \A i, j \in DOMAIN s : i < j => Less(key[s[i]], key[s[j]])
  <2> HIDE DEF s, N
  <2> SUFFICES ASSUME NEW i \in 1..N, NEW j \in 1..N, i < j,
                      ~Less(key[s[i]], key[s[j]])
               PROVE  FALSE
    BY <1>8
  <2>1. /\ s[i] \in S /\ Cardinality(below[s[i]]) = i - 1
        /\ s[j] \in S /\ Cardinality(below[s[j]]) = j - 1
    BY <1>7
  <2>2. key[s[i]] = key[s[j]] \/ Less(key[s[j]], key[s[i]])
    BY <2>1, TuplesAreOrdered DEF AreKeys
  <2>3. CASE key[s[i]] = key[s[j]]
    <3>1. s[i] = s[j]
      BY <2>1, <2>3 DEF AreKeys
    <3>2. i - 1 = j - 1
      BY <2>1, <3>1
    <3> QED  BY <1>0, <3>2
  <2>4. CASE Less(key[s[j]], key[s[i]])
    <3>1. j - 1 < i - 1
      BY <1>3, <2>1, <2>4
    <3> QED  BY <1>0, <3>1
  <2> QED  BY <2>2, <2>3, <2>4
<1>12. Sorted(S, key) = s
  BY DEF Sorted
<1> HIDE DEF s
<1> QED  BY <1>8, <1>9, <1>10, <1>11, <1>12 DEF IsListing

\* A function on the first numbers is a sequence.
LEMMA FunctionIsSeq ==
  ASSUME NEW S, NEW n \in Nat, NEW f \in [1..n -> S]
  PROVE  f \in Seq(S) /\ Len(f) = n /\ DOMAIN f = 1..n
OBVIOUS

\* What a listing is, said of its domain.
LEMMA Listing ==
  ASSUME NEW s, NEW S, IsListing(s, S)
  PROVE  /\ s \in Seq(ToSet(s)) /\ DOMAIN s = 1..Len(s) /\ Len(s) \in Nat
         /\ Cardinality(S) \in Nat
         /\ \A i \in DOMAIN s : s[i] \in S
         /\ \A x \in S : \E i \in DOMAIN s : s[i] = x
<1>1. s \in Seq(S) /\ ToSet(s) = S
  BY DEF IsListing
<1>2. DOMAIN s = 1..Len(s) /\ Len(s) \in Nat /\ s \in Seq(ToSet(s))
  BY <1>1
<1> QED  BY <1>1, <1>2 DEF ToSet, IsListing

\* The numbers of a finite set can be listed in their order.
LEMMA AscendingIsListing ==
  ASSUME NEW S \in SUBSET Int, IsFiniteSet(S)
  PROVE  /\ IsListing(Ascending(S), S)
         /\ \A i, j \in DOMAIN Ascending(S) : i < j => Ascending(S)[i] < Ascending(S)[j]
<1> DEFINE key == [n \in S |-> <<n>>]
<1>1. AreKeys(key, S)
  <2>1. \A x \in S : key[x] \in [1..1 -> Int]
    OBVIOUS
  <2>2. \A x, y \in S : key[x] = key[y] => x = y
    OBVIOUS
  <2> HIDE DEF key
  <2> QED  BY <2>1, <2>2 DEF AreKeys
<1>2. Ascending(S) = Sorted(S, key)
  BY DEF Ascending
<1> DEFINE at == Sorted(S, key)
<1>3. IsListing(at, S) /\ \A i, j \in DOMAIN at : i < j => Less(key[at[i]], key[at[j]])
  <2> HIDE DEF key
  <2> QED  BY <1>1, SortedIsListing
<1> HIDE DEF at
<1>4. \A i \in DOMAIN at : at[i] \in S
  BY <1>3, Listing
<1>5. \A x, y \in S : Less(key[x], key[y]) => x < y
  BY DEF Less
<1> HIDE DEF key
<1>6. \A i, j \in DOMAIN at : i < j => at[i] < at[j]
  BY <1>3, <1>4, <1>5
<1> QED  BY <1>2, <1>3, <1>6 DEF at

\* A sequence in which no element recurs.
LEMMA InjectiveIsListing ==
  ASSUME NEW t, t \in Seq(ToSet(t)), \A i, j \in DOMAIN t : t[i] = t[j] => i = j
  PROVE  IsListing(t, ToSet(t))
<1>1. DOMAIN t = 1..Len(t) /\ Len(t) \in Nat
  OBVIOUS
<1>2. IsFiniteSet(DOMAIN t) /\ Cardinality(DOMAIN t) = Len(t)
  BY <1>1, SoManyNumbers
<1>3. t \in Surjection(DOMAIN t, ToSet(t)) /\ t \in Injection(DOMAIN t, ToSet(t))
  BY DEF Surjection, Injection, IsInjective, ToSet
<1>4. IsFiniteSet(ToSet(t)) /\ Cardinality(ToSet(t)) = Cardinality(DOMAIN t)
  BY <1>2, <1>3, FS_Surjection
<1> QED  BY <1>2, <1>4 DEF IsListing

\* What a sequence has at places where no element recurs.
LEMMA PickedIsListing ==
  ASSUME NEW s, s \in Seq(ToSet(s)), NEW P \in SUBSET DOMAIN s,
         \A i, j \in P : s[i] = s[j] => i = j
  PROVE  IsListing(Picked(s, P), {s[i] : i \in P})
<1> DEFINE S == {s[i] : i \in P}
           at == Ascending(P)
           p == [n \in DOMAIN at |-> s[at[n]]]
           f == [i \in P |-> s[i]]
<1>1. P \in SUBSET Int /\ IsFiniteSet(P)
  <2>1. DOMAIN s = 1..Len(s) /\ Len(s) \in Nat
    OBVIOUS
  <2>2. IsFiniteSet(DOMAIN s)
    BY <2>1, SoManyNumbers
  <2> QED  BY <2>1, <2>2, FS_Subset
<1>2. IsListing(at, P)
  BY <1>1, AscendingIsListing
<1>3. IsFiniteSet(S) /\ Cardinality(S) = Cardinality(P)
  <2>1. f \in Surjection(P, S) /\ f \in Injection(P, S)
    BY DEF Surjection, Injection, IsInjective
  <2> HIDE DEF f, S
  <2> QED  BY <1>1, <2>1, FS_Surjection
<1> HIDE DEF at
<1>4. /\ Len(at) = Cardinality(P) /\ at \in Seq(P) /\ DOMAIN at = 1..Len(at) /\ Len(at) \in Nat
      /\ \A n \in DOMAIN at : at[n] \in P
      /\ \A i \in P : \E n \in DOMAIN at : at[n] = i
      /\ \A m, n \in DOMAIN at : at[m] = at[n] => m = n
  <2>1. at \in Seq(P) /\ ToSet(at) = P
    BY <1>2 DEF IsListing
  <2>2. DOMAIN at = 1..Len(at) /\ Len(at) \in Nat
    BY <2>1
  <2> QED  BY <1>2, <2>1, <2>2 DEF IsListing, ToSet
<1>5. p \in Seq(S) /\ Len(p) = Len(at) /\ DOMAIN p = DOMAIN at
  <2>1. p \in [1..Len(at) -> S]
    <3>1. \A n \in 1..Len(at) : p[n] \in S
      BY <1>4
    <3>2. p = [n \in 1..Len(at) |-> p[n]]
      BY <1>4
    <3> HIDE DEF p, S
    <3> QED  BY <3>1, <3>2
  <2> HIDE DEF p, S
  <2>2. p \in Seq(S) /\ Len(p) = Len(at) /\ DOMAIN p = 1..Len(at)
    BY <1>4, <2>1, FunctionIsSeq
  <2> QED  BY <1>4, <2>2
<1>6. ToSet(p) = S
  BY <1>4 DEF ToSet
<1>7. \A m, n \in DOMAIN p : p[m] = p[n] => m = n
  BY <1>4
<1>8. Picked(s, P) = p
  BY DEF Picked, at
<1> HIDE DEF p, S
<1>9. IsListing(p, S)
  BY <1>3, <1>4, <1>5, <1>6, <1>7 DEF IsListing
<1> QED  BY <1>8, <1>9 DEF S

\* What a list comprehension keeps of a listing lists what it keeps of the set.
LEMMA OnlyIsListing ==
  ASSUME NEW s, NEW S, NEW T, IsListing(s, S)
  PROVE  IsListing(Only(s, T), S \cap T)
<1> DEFINE P == {i \in DOMAIN s : s[i] \in T}
<1>1. \A i, j \in P : s[i] = s[j] => i = j
  BY DEF IsListing
<1>2. IsListing(Picked(s, P), {s[i] : i \in P})
  <2>1. P \in SUBSET DOMAIN s /\ s \in Seq(ToSet(s))
    BY Listing
  <2> HIDE DEF P
  <2> QED  BY <1>1, <2>1, PickedIsListing
<1>3. {s[i] : i \in P} = S \cap T
  BY Listing
<1> QED  BY <1>2, <1>3 DEF Only

\* The first elements of a sequence.
LEMMA FirstOfSeq ==
  ASSUME NEW s, s \in Seq(ToSet(s)), NEW n \in Nat
  PROVE  /\ First(n, s) \in Seq(ToSet(First(n, s))) /\ ToSet(First(n, s)) \subseteq ToSet(s)
         /\ Len(First(n, s)) = IF n <= Len(s) THEN n ELSE Len(s)
         /\ \A i \in DOMAIN First(n, s) : i \in DOMAIN s /\ First(n, s)[i] = s[i]
         /\ Len(s) <= n => First(n, s) = s
<1>0. PICK L \in Nat : L = Len(s)
  OBVIOUS
<1> DEFINE m == Min({n, L})
           t == First(n, s)
<1>1. Len(s) \in Nat /\ DOMAIN s = 1..Len(s)
  OBVIOUS
<1>2. m = IF n <= L THEN n ELSE L
  <2>1. n \in Int /\ L \in Int
    OBVIOUS
  <2> QED  BY <2>1, MinOfTwo
<1>3. t = SubSeq(s, 1, m)
  BY <1>0 DEF First
<1>4. m \in Nat /\ m <= Len(s)
  BY <1>0, <1>2
<1> HIDE DEF m
<1>5. t \in Seq(ToSet(s)) /\ Len(t) = m /\ \A i \in 1..m : t[i] = s[i]
  <2>1. \A i \in 1..m : s[i] \in ToSet(s)
    BY <1>1, <1>4 DEF ToSet
  <2>2. /\ SubSeq(s, 1, m) \in Seq(ToSet(s))
        /\ Len(SubSeq(s, 1, m)) = IF 1 <= m THEN m - 1 + 1 ELSE 0
        /\ \A i \in 1..(m - 1 + 1) : SubSeq(s, 1, m)[i] = s[1 + i - 1]
    BY <1>4, <2>1, SubSeqProperties
  <2>3. \A i \in 1..m : 1 + i - 1 = i
    OBVIOUS
  <2>4. m - 1 + 1 = m /\ (IF 1 <= m THEN m - 1 + 1 ELSE 0) = m
    BY <1>4
  <2> QED  BY <1>3, <2>2, <2>3, <2>4
<1>6. DOMAIN t = 1..m
  BY <1>5
<1>7. \A i \in DOMAIN t : i \in DOMAIN s /\ t[i] = s[i]
  BY <1>1, <1>4, <1>5, <1>6
<1>8. ToSet(t) \subseteq ToSet(s)
  BY <1>7 DEF ToSet
<1>9. Len(s) <= n => t = s
  <2>1. Len(s) <= n => m = Len(s)
    BY <1>0, <1>2
  <2> QED  BY <1>3, <2>1, SubSeqFull
<1>10. t \in Seq(ToSet(t))
  <2>1. \A i \in 1..m : t[i] \in ToSet(t)
    BY <1>6 DEF ToSet
  <2> HIDE DEF t
  <2> QED  BY <1>5, <2>1
<1> HIDE DEF t
<1>11. Len(t) = IF n <= Len(s) THEN n ELSE Len(s)
  BY <1>0, <1>2, <1>5
<1> QED  BY <1>7, <1>8, <1>9, <1>10, <1>11 DEF t

\* The first elements of a listing are a listing.
LEMMA FirstIsListing ==
  ASSUME NEW s, NEW S, IsListing(s, S), NEW n \in Nat
  PROVE  IsListing(First(n, s), ToSet(First(n, s))) /\ ToSet(First(n, s)) \subseteq S
<1> DEFINE t == First(n, s)
<1>1. /\ s \in Seq(ToSet(s)) /\ ToSet(s) = S
      /\ \A i, j \in DOMAIN s : s[i] = s[j] => i = j
  BY Listing DEF IsListing
<1>2. /\ t \in Seq(ToSet(t)) /\ ToSet(t) \subseteq ToSet(s)
      /\ \A i \in DOMAIN t : i \in DOMAIN s /\ t[i] = s[i]
  BY <1>1, FirstOfSeq
<1> HIDE DEF t
<1>3. \A i, j \in DOMAIN t : t[i] = t[j] => i = j
  BY <1>1, <1>2
<1>4. IsListing(t, ToSet(t))
  BY <1>2, <1>3, InjectiveIsListing
<1> QED  BY <1>1, <1>2, <1>4 DEF t

\* A sequence without its repetitions lists its elements.
LEMMA DistinctIsListing ==
  ASSUME NEW s, s \in Seq(ToSet(s))
  PROVE  IsListing(Distinct(s), ToSet(s))
<1> DEFINE P == {i \in DOMAIN s : \A j \in 1..(i - 1) : s[j] # s[i]}
<1>0. DOMAIN s = 1..Len(s) /\ Len(s) \in Nat
  OBVIOUS
<1>1. \A i, j \in P : s[i] = s[j] => i = j
  <2> SUFFICES ASSUME NEW i \in P, NEW j \in P, s[i] = s[j]  PROVE i = j
    OBVIOUS
  <2>1. i \in Nat /\ j \in Nat /\ i >= 1 /\ j >= 1
    BY <1>0
  <2>2. ~(i < j) /\ ~(j < i)
    BY <2>1
  <2> QED  BY <2>1, <2>2
<1>2. IsListing(Picked(s, P), {s[i] : i \in P})
  <2>1. P \in SUBSET DOMAIN s
    OBVIOUS
  <2> HIDE DEF P
  <2> QED  BY <1>1, <2>1, PickedIsListing
<1>3. ASSUME NEW k \in DOMAIN s PROVE \E i \in P : s[i] = s[k]
  <2> DEFINE same == {i \in DOMAIN s : s[i] = s[k]}
  <2>1. same \in SUBSET Nat /\ same # {}
    BY <1>0
  <2>2. PICK i \in same : \A j \in same : i <= j
    <3> HIDE DEF same
    <3> QED  BY <2>1, LeastNatural
  <2>3. \A j \in 1..(i - 1) : s[j] # s[i]
    BY <1>0, <2>2
  <2> QED  BY <2>2, <2>3
<1>4. {s[i] : i \in P} = ToSet(s)
  <2>1. {s[i] : i \in P} \subseteq ToSet(s)
    BY DEF ToSet
  <2>2. ToSet(s) \subseteq {s[i] : i \in P}
    <3> SUFFICES ASSUME NEW k \in DOMAIN s PROVE s[k] \in {s[i] : i \in P}
      BY DEF ToSet
    <3> HIDE DEF P
    <3> QED  BY <1>3
  <2> QED  BY <2>1, <2>2
<1> QED  BY <1>2, <1>4 DEF Distinct

\* A listing has no repetitions to leave out.
LEMMA DistinctOfListing ==
  ASSUME NEW s, NEW S, IsListing(s, S)
  PROVE  Len(Distinct(s)) = Len(s)
<1>1. s \in Seq(ToSet(s)) /\ ToSet(s) = S
  BY Listing DEF IsListing
<1>2. IsListing(Distinct(s), S)
  BY <1>1, DistinctIsListing
<1> QED  BY <1>2 DEF IsListing

\* Two sequences one after the other.
LEMMA ConcatSet ==
  ASSUME NEW s, s \in Seq(ToSet(s)), NEW t, t \in Seq(ToSet(t))
  PROVE  /\ s \o t \in Seq(ToSet(s \o t))
         /\ ToSet(s \o t) = ToSet(s) \cup ToSet(t)
         /\ Len(s \o t) = Len(s) + Len(t)
<1> DEFINE X == ToSet(s) \cup ToSet(t)
           u == s \o t
<1>1. s \in Seq(X) /\ t \in Seq(X)
  OBVIOUS
<1>2. /\ u \in Seq(X) /\ Len(u) = Len(s) + Len(t)
      /\ \A i \in 1..(Len(s) + Len(t)) : u[i] = IF i <= Len(s) THEN s[i] ELSE t[i - Len(s)]
  <2> HIDE DEF X
  <2> QED  BY <1>1, ConcatProperties
<1> HIDE DEF u
<1>3. /\ Len(s) \in Nat /\ Len(t) \in Nat /\ DOMAIN s = 1..Len(s) /\ DOMAIN t = 1..Len(t)
      /\ DOMAIN u = 1..Len(u)
  BY <1>2
<1>4. \A i \in DOMAIN s : i \in DOMAIN u /\ u[i] = s[i]
  BY <1>2, <1>3
<1>5. \A i \in DOMAIN t : i + Len(s) \in DOMAIN u /\ u[i + Len(s)] = t[i]
  <2> SUFFICES ASSUME NEW i \in DOMAIN t
               PROVE  i + Len(s) \in DOMAIN u /\ u[i + Len(s)] = t[i]
    OBVIOUS
  <2>1. i + Len(s) \in 1..(Len(s) + Len(t)) /\ ~(i + Len(s) <= Len(s)) /\ i + Len(s) - Len(s) = i
    BY <1>3
  <2> QED  BY <1>2, <1>3, <2>1
<1>6. \A i \in DOMAIN u : u[i] \in X
  BY <1>2
<1>7. X \subseteq ToSet(u)
  <2>1. \A i \in DOMAIN s : s[i] \in ToSet(u)
    BY <1>4 DEF ToSet
  <2>2. \A i \in DOMAIN t : t[i] \in ToSet(u)
    BY <1>5 DEF ToSet
  <2> QED  BY <2>1, <2>2 DEF ToSet
<1>8. ToSet(u) = X
  BY <1>6, <1>7 DEF ToSet
<1> QED  BY <1>2, <1>8 DEF u

\* What a sequence of sequences has altogether.
LEMMA FlattenedSet ==
  ASSUME NEW ss, ss \in Seq(ToSet(ss)), \A i \in DOMAIN ss : ss[i] \in Seq(ToSet(ss[i]))
  PROVE  /\ FlattenSeq(ss) \in Seq(ToSet(FlattenSeq(ss)))
         /\ ToSet(FlattenSeq(ss)) = UNION {ToSet(ss[i]) : i \in DOMAIN ss}
<1>0. DOMAIN ss = 1..Len(ss) /\ Len(ss) \in Nat
  OBVIOUS
<1>1. CASE Len(ss) = 0
  <2>1. FlattenSeq(ss) = ss
    BY <1>1 DEF FlattenSeq
  <2>2. DOMAIN ss = {}
    BY <1>0, <1>1
  <2> QED  BY <2>1, <2>2 DEF ToSet
<1>2. CASE Len(ss) # 0
  <2> DEFINE Flat(f) == [i \in 1..Len(ss) |-> IF i = 1 THEN ss[i] ELSE f[i - 1] \o ss[i]]
             flatten == CHOOSE f : f = Flat(f)
             X == Seq(UNION {ToSet(ss[i]) : i \in DOMAIN ss})
             Up(f, n) == \A i \in 1..n : f[i] = IF i = 1 THEN ss[i] ELSE f[i - 1] \o ss[i]
             Bad == {n \in 1..Len(ss) : ~ \E f \in [1..Len(ss) -> X] : Up(f, n)}
  <2>1. \A i \in 1..Len(ss) : ss[i] \in X
    <3> SUFFICES ASSUME NEW i \in DOMAIN ss PROVE ss[i] \in X
      BY <1>0
    <3>1. ToSet(ss[i]) \subseteq UNION {ToSet(ss[j]) : j \in DOMAIN ss}
      OBVIOUS
    <3>2. ss[i] \in Seq(ToSet(ss[i]))
      OBVIOUS
    <3> QED  BY <3>1, <3>2
  <2>2. \A x, y \in X : x \o y \in X
    BY ConcatProperties
  <2> HIDE DEF X
  <2>3. Bad = {}
    <3> SUFFICES ASSUME Bad # {} PROVE FALSE
      OBVIOUS
    <3>1. Bad \in SUBSET Nat
      OBVIOUS
    <3>2. PICK n \in Bad : \A m \in Bad : n <= m
      <4> HIDE DEF Bad
      <4> QED  BY <3>1, LeastNatural
    <3>3. n # 1
      <4> DEFINE f == [i \in 1..Len(ss) |-> ss[i]]
      <4>1. f \in [1..Len(ss) -> X]
        BY <2>1
      <4>2. Up(f, 1)
        BY <1>0, <1>2
      <4> HIDE DEF f, Up
      <4>3. 1 \notin Bad
        BY <4>1, <4>2
      <4> QED  BY <3>2, <4>3
    <3>4. n \in 1..Len(ss) /\ n - 1 \in 1..Len(ss)
      BY <3>3
    <3>5. PICK f \in [1..Len(ss) -> X] : Up(f, n - 1)
      <4>1. n - 1 \notin Bad
        <5> HIDE DEF Bad
        <5> QED  BY <3>2, <3>4
      <4> HIDE DEF Up
      <4> QED  BY <3>4, <4>1
    <3> DEFINE h == [f EXCEPT ![n] = f[n - 1] \o ss[n]]
    <3>6. h \in [1..Len(ss) -> X]
      BY <2>1, <2>2, <3>4
    <3>7. Up(h, n)
      <4> SUFFICES ASSUME NEW i \in 1..n
                   PROVE  h[i] = IF i = 1 THEN ss[i] ELSE h[i - 1] \o ss[i]
        OBVIOUS
      <4>1. CASE i = n
        <5>1. h[n] = f[n - 1] \o ss[n] /\ h[n - 1] = f[n - 1]
          BY <3>4, n \in 1..Len(ss), n - 1 # n
        <5> HIDE DEF h
        <5> QED  BY <3>3, <4>1, <5>1
      <4>2. CASE i # n
        <5>1. i \in 1..(n - 1) /\ i \in 1..Len(ss) /\ (i # 1 => i - 1 \in 1..Len(ss) /\ i - 1 # n)
          BY <1>0, <3>4, <4>2
        <5>2. h[i] = f[i] /\ (i # 1 => h[i - 1] = f[i - 1])
          BY <4>2, <5>1
        <5>3. f[i] = IF i = 1 THEN ss[i] ELSE f[i - 1] \o ss[i]
          BY <3>5, <5>1
        <5> HIDE DEF h
        <5> QED  BY <5>2, <5>3
      <4> QED  BY <4>1, <4>2
    <3> HIDE DEF h, Up
    <3> QED  BY <3>2, <3>6, <3>7
  <2>4. Len(ss) \in 1..Len(ss)
    BY <1>0, <1>2
  <2>5. PICK f \in [1..Len(ss) -> X] : Up(f, Len(ss))
    <3> HIDE DEF Up
    <3> QED  BY <2>3, <2>4
  <2>6. f = Flat(f)
    BY <2>5
  <2>7. flatten = Flat(flatten)
    <3> HIDE DEF Flat
    <3> QED  BY <2>6
  <2>8. FlattenSeq(ss) = flatten[Len(ss)]
    BY <1>2 DEF FlattenSeq
  <2>9. \A i \in 1..Len(ss) : flatten[i] = IF i = 1 THEN ss[i] ELSE flatten[i - 1] \o ss[i]
    <3> HIDE DEF flatten
    <3> QED  BY <2>7
  <2> HIDE DEF flatten
  <2> DEFINE Has(n) == /\ flatten[n] \in Seq(ToSet(flatten[n]))
                       /\ ToSet(flatten[n]) = UNION {ToSet(ss[i]) : i \in 1..n}
             Wrong == {n \in 1..Len(ss) : ~Has(n)}
  <2>10. Wrong = {}
    <3> SUFFICES ASSUME Wrong # {} PROVE FALSE
      OBVIOUS
    <3>1. Wrong \in SUBSET Nat
      OBVIOUS
    <3>2. PICK n \in Wrong : \A m \in Wrong : n <= m
      <4> HIDE DEF Wrong
      <4> QED  BY <3>1, LeastNatural
    <3>3. n \in 1..Len(ss) /\ ss[n] \in Seq(ToSet(ss[n]))
      BY <1>0
    <3>4. CASE n = 1
      <4>1. flatten[1] = ss[1]
        BY <2>9, <3>3, <3>4
      <4>2. \A i \in 1..1 : i = 1
        OBVIOUS
      <4>3. UNION {ToSet(ss[i]) : i \in 1..1} = ToSet(ss[1])
        BY <4>2
      <4> QED  BY <3>3, <3>4, <4>1, <4>3
    <3>5. CASE n # 1
      <4>1. n - 1 \in 1..Len(ss) /\ ~(n <= n - 1)
        BY <3>3, <3>5
      <4>2. Has(n - 1)
        <5>1. n - 1 \notin Wrong
          <6> HIDE DEF Wrong
          <6> QED  BY <3>2, <4>1
        <5> HIDE DEF Has
        <5> QED  BY <4>1, <5>1
      <4>3. flatten[n] = flatten[n - 1] \o ss[n]
        BY <2>9, <3>3, <3>5
      <4>4. /\ flatten[n] \in Seq(ToSet(flatten[n]))
            /\ ToSet(flatten[n]) = ToSet(flatten[n - 1]) \cup ToSet(ss[n])
        <5>1. flatten[n - 1] \in Seq(ToSet(flatten[n - 1]))
          BY <4>2
        <5> QED  BY <3>3, <4>3, <5>1, ConcatSet
      <4>5. 1..n = (1..(n - 1)) \cup {n}
        BY <3>3
      <4>6. UNION {ToSet(ss[i]) : i \in 1..n}
               = (UNION {ToSet(ss[i]) : i \in 1..(n - 1)}) \cup ToSet(ss[n])
        <5>1. \A i \in 1..n : i \in 1..(n - 1) \/ i = n
          BY <4>5
        <5>2. n \in 1..n /\ \A i \in 1..(n - 1) : i \in 1..n
          BY <4>5
        <5> DEFINE all == {ToSet(ss[i]) : i \in 1..n}
                   others == {ToSet(ss[i]) : i \in 1..(n - 1)}
        <5>3. all \subseteq others \cup {ToSet(ss[n])}
          BY <5>1
        <5>4. others \cup {ToSet(ss[n])} \subseteq all
          BY <5>2
        <5> HIDE DEF all, others
        <5>5. UNION all = (UNION others) \cup ToSet(ss[n])
          BY <5>3, <5>4
        <5> QED  BY <5>5 DEF all, others
      <4>7. Has(n)
        BY <4>2, <4>4, <4>6
      <4> HIDE DEF Has
      <4> QED  BY <4>7
    <3> QED  BY <3>4, <3>5
  <2>11. Has(Len(ss))
    <3> HIDE DEF Has
    <3> QED  BY <2>4, <2>10
  <2> QED  BY <1>0, <2>8, <2>11
<1> QED  BY <1>1, <1>2

-----------------------------------------------------------------------------
(* The keys of places. *)

\* A sequence is a function on the first numbers.
LEMMA SeqIsFunction ==
  ASSUME NEW S, NEW u \in Seq(S)
  PROVE  u \in [1..Len(u) -> S]
OBVIOUS

\* The meals of a day are lunch, dinner, both or none.
LEMMA MealsOfADay ==
  ASSUME NEW trip
  PROVE  \/ MealKinds(trip) = <<"LUNCH", "DINNER">> /\ Meals(trip) = 2
         \/ MealKinds(trip) = <<"LUNCH">> /\ Meals(trip) = 1
         \/ MealKinds(trip) = <<"DINNER">> /\ Meals(trip) = 1
         \/ MealKinds(trip) = <<>> /\ Meals(trip) = 0
<1> DEFINE meal(k) == IF trip.start <= MealHours[k][1] /\ MealHours[k][2] <= trip.end
                      THEN <<k>> ELSE <<>>
<1>1. MealKinds(trip) = meal("LUNCH") \o meal("DINNER")
  BY DEF MealKinds
<1>2. meal("LUNCH") \in {<<"LUNCH">>, <<>>} /\ meal("DINNER") \in {<<"DINNER">>, <<>>}
  OBVIOUS
<1> HIDE DEF meal
<1>3. /\ <<"LUNCH">> \o <<"DINNER">> = <<"LUNCH", "DINNER">>
      /\ <<"LUNCH">> \o <<>> = <<"LUNCH">> /\ <<>> \o <<"DINNER">> = <<"DINNER">>
      /\ <<>> \o <<>> = <<>>
  <2> DEFINE K == {"LUNCH", "DINNER"}
             a == <<"LUNCH">>
             b == <<"DINNER">>
             u == a \o b
  <2>1. a \in Seq(K) /\ b \in Seq(K) /\ <<>> \in Seq(K)
        /\ Len(a) = 1 /\ Len(b) = 1 /\ a[1] = "LUNCH" /\ b[1] = "DINNER"
    <3>1. "LUNCH" \in K /\ "DINNER" \in K
      OBVIOUS
    <3> HIDE DEF K
    <3>2. a \in Seq(K) /\ Len(a) = 1 /\ a[1] = "LUNCH"
      BY <3>1
    <3>3. b \in Seq(K) /\ Len(b) = 1 /\ b[1] = "DINNER"
      BY <3>1
    <3> QED  BY <3>2, <3>3
  <2> HIDE DEF a, b, K
  <2>2. /\ u \in Seq(K) /\ Len(u) = Len(a) + Len(b)
        /\ \A i \in 1..(Len(a) + Len(b)) : u[i] = IF i <= Len(a) THEN a[i] ELSE b[i - Len(a)]
    BY <2>1, ConcatProperties
  <2> HIDE DEF u
  <2>3. u \in Seq(K) /\ Len(u) = 2 /\ u[1] = "LUNCH" /\ u[2] = "DINNER"
    BY <2>1, <2>2
  <2>4. u = <<"LUNCH", "DINNER">>
    BY <2>3
  <2>5. a \o <<>> = a /\ <<>> \o b = b /\ <<>> \o <<>> = <<>>
    BY <2>1, ConcatEmptySeq
  <2> QED  BY <2>4, <2>5 DEF a, b, u
<1>4. MealKinds(trip) \in {<<"LUNCH", "DINNER">>, <<"LUNCH">>, <<"DINNER">>, <<>>}
  BY <1>1, <1>2, <1>3
<1> QED  BY <1>4 DEF Meals

\* The labels that the members ask for have each of theirs once.
LEMMA LabelsOfMembers ==
  ASSUME NEW trip, IsTrip(trip)
  PROVE  /\ IsListing(MustVisit(trip), UNION {ToSet(m.must) : m \in ToSet(trip.members)})
         /\ IsListing(Avoided(trip), UNION {ToSet(m.avoid) : m \in ToSet(trip.members)})
<1>0. /\ trip.members \in Seq(ToSet(trip.members))
      /\ DOMAIN trip.members = 1..Len(trip.members) /\ Len(trip.members) \in Nat
      /\ \A i \in DOMAIN trip.members : IsTraveller(trip.members[i])
  BY DEF IsTrip, ToSet
<1>1. ASSUME NEW lists, DOMAIN lists = DOMAIN trip.members, lists = [i \in DOMAIN lists |-> lists[i]],
             \A i \in DOMAIN lists : lists[i] \in Seq(ToSet(lists[i]))
      PROVE  IsListing(Labels(lists), UNION {ToSet(lists[i]) : i \in DOMAIN lists})
  <2>1. lists \in Seq(ToSet(lists))
    <3>1. lists \in [1..Len(trip.members) -> ToSet(lists)]
      BY <1>0, <1>1 DEF ToSet
    <3> QED  BY <1>0, <3>1, FunctionIsSeq
  <2>2. /\ FlattenSeq(lists) \in Seq(ToSet(FlattenSeq(lists)))
        /\ ToSet(FlattenSeq(lists)) = UNION {ToSet(lists[i]) : i \in DOMAIN lists}
    BY <1>1, <2>1, FlattenedSet
  <2> QED  BY <2>2, DistinctIsListing DEF Labels
<1>2. IsListing(MustVisit(trip), UNION {ToSet(m.must) : m \in ToSet(trip.members)})
  <2> DEFINE lists == [i \in DOMAIN trip.members |-> trip.members[i].must]
  <2>1. \A i \in DOMAIN lists : lists[i] \in Seq(ToSet(lists[i]))
    BY <1>0 DEF IsTraveller
  <2>2. DOMAIN lists = DOMAIN trip.members /\ lists = [i \in DOMAIN lists |-> lists[i]]
    OBVIOUS
  <2>3. {ToSet(lists[i]) : i \in DOMAIN lists} = {ToSet(m.must) : m \in ToSet(trip.members)}
    <3>1. \A i \in DOMAIN lists : /\ trip.members[i] \in ToSet(trip.members)
                                  /\ lists[i] = trip.members[i].must
      BY DEF ToSet
    <3>2. \A m \in ToSet(trip.members) : \E i \in DOMAIN lists : m = trip.members[i]
      BY DEF ToSet
    <3> HIDE DEF lists
    <3> QED  BY ONLY <3>1, <3>2
  <2>4. MustVisit(trip) = Labels(lists)
    BY DEF MustVisit
  <2> HIDE DEF lists
  <2>5. IsListing(Labels(lists), UNION {ToSet(lists[i]) : i \in DOMAIN lists})
    BY <1>1, <2>1, <2>2
  <2> QED  BY ONLY <2>3, <2>4, <2>5
<1>3. IsListing(Avoided(trip), UNION {ToSet(m.avoid) : m \in ToSet(trip.members)})
  <2> DEFINE lists == [i \in DOMAIN trip.members |-> trip.members[i].avoid]
  <2>1. \A i \in DOMAIN lists : lists[i] \in Seq(ToSet(lists[i]))
    BY <1>0 DEF IsTraveller
  <2>2. DOMAIN lists = DOMAIN trip.members /\ lists = [i \in DOMAIN lists |-> lists[i]]
    OBVIOUS
  <2>3. {ToSet(lists[i]) : i \in DOMAIN lists} = {ToSet(m.avoid) : m \in ToSet(trip.members)}
    <3>1. \A i \in DOMAIN lists : /\ trip.members[i] \in ToSet(trip.members)
                                  /\ lists[i] = trip.members[i].avoid
      BY DEF ToSet
    <3>2. \A m \in ToSet(trip.members) : \E i \in DOMAIN lists : m = trip.members[i]
      BY DEF ToSet
    <3> HIDE DEF lists
    <3> QED  BY ONLY <3>1, <3>2
  <2>4. Avoided(trip) = Labels(lists)
    BY DEF Avoided
  <2> HIDE DEF lists
  <2>5. IsListing(Labels(lists), UNION {ToSet(lists[i]) : i \in DOMAIN lists})
    BY <1>1, <2>1, <2>2
  <2> QED  BY ONLY <2>3, <2>4, <2>5
<1> QED  BY <1>2, <1>3

\* What the labels of the members match are numbers.
LEMMA MatchesAreNumbers ==
  ASSUME NEW trip, IsTrip(trip), NEW p, IsPlace(p, trip), NEW l \in ToSet(MustVisit(trip))
  PROVE  p.match[l] \in Int
<1>1. l \in UNION {ToSet(m.must) : m \in ToSet(trip.members)}
  BY LabelsOfMembers DEF IsListing
<1> QED  BY <1>1 DEF IsPlace

\* The best match of a place with a label is a number.
LEMMA ClosenessIsNumber ==
  ASSUME NEW trip, IsTrip(trip), NEW p, IsPlace(p, trip)
  PROVE  Closeness(p, MustVisit(trip)) \in Int
<1> DEFINE served == {k \in ToSet(MustVisit(trip)) : Serves(p, k)}
           close == {p.match[l] : l \in served}
           h == [l \in served |-> p.match[l]]
<1>1. IsFiniteSet(served)
  <2>1. IsFiniteSet(ToSet(MustVisit(trip)))
    BY LabelsOfMembers DEF IsListing
  <2> QED  BY <2>1, FS_Subset
<1>2. close = {h[l] : l \in served}
  OBVIOUS
<1>3. close \in SUBSET Int
  BY MatchesAreNumbers
<1>4. IsFiniteSet(close)
  <2> HIDE DEF h, served, close
  <2> QED  BY <1>1, <1>2, FiniteImage
<1>5. {NoMatch} \cup close \in SUBSET Int /\ IsFiniteSet({NoMatch} \cup close)
      /\ {NoMatch} \cup close # {}
  <2> HIDE DEF close
  <2>1. IsFiniteSet({NoMatch})
    BY FS_Singleton
  <2>2. IsFiniteSet({NoMatch} \cup close)
    BY <1>4, <2>1, FS_Union
  <2>3. NoMatch \in Int
    BY DEF NoMatch
  <2> QED  BY <1>3, <2>2, <2>3
<1>6. Min({NoMatch} \cup close) \in Int
  <2> HIDE DEF close
  <2> QED  BY <1>5, MinOfSet
<1> QED  BY <1>6 DEF Closeness

\* How many of the group's words a place has is a number.
LEMMA WordsAreCounted ==
  ASSUME NEW trip, IsTrip(trip), NEW p
  PROVE  Words(p, trip) \in Int
<1> DEFINE counts == [i \in DOMAIN trip.members |-> Cardinality(trip.members[i].wishes \cap p.words)]
<1>1. DOMAIN counts \in SUBSET Int /\ IsFiniteSet(DOMAIN counts)
  <2>1. DOMAIN counts = DOMAIN trip.members
    OBVIOUS
  <2> QED  BY <2>1, SequencesAreFinite DEF IsTrip
<1>2. \A i \in DOMAIN counts : counts[i] \in Int
  <2> SUFFICES ASSUME NEW i \in DOMAIN trip.members
               PROVE  Cardinality(trip.members[i].wishes \cap p.words) \in Int
    OBVIOUS
  <2>1. IsFiniteSet(trip.members[i].wishes)
    BY DEF IsTrip, IsTraveller, ToSet
  <2>2. IsFiniteSet(trip.members[i].wishes \cap p.words)
    BY <2>1, FS_Intersection
  <2> QED  BY <2>2, FS_CardinalityType
<1>3. Total(counts) \in Int
  <2> HIDE DEF counts
  <2> QED  BY <1>1, <1>2, SequenceSum
<1> QED  BY <1>3 DEF Words, Total

\* How far the nearest visit is is a number.
LEMMA NearestIsNumber ==
  ASSUME NEW p, p.at \in Int, NEW anchors, IsFiniteSet(anchors), \A a \in anchors : a.at \in Int
  PROVE  Nearest(p, anchors) \in Int
<1> DEFINE away == {Distance(p, a) : a \in anchors}
           h == [a \in anchors |-> Distance(p, a)]
<1>1. away \in SUBSET Int
  BY DEF Distance
<1>2. away = {h[a] : a \in anchors}
  OBVIOUS
<1>3. IsFiniteSet(away)
  <2> HIDE DEF h, away
  <2> QED  BY <1>2, FiniteImage
<1>4. away \cup {TooFar} \in SUBSET Int /\ IsFiniteSet(away \cup {TooFar})
      /\ away \cup {TooFar} # {}
  <2> HIDE DEF away
  <2>1. IsFiniteSet({TooFar})
    BY FS_Singleton
  <2>2. IsFiniteSet(away \cup {TooFar})
    BY <1>3, <2>1, FS_Union
  <2>3. TooFar \in Int
    BY DEF TooFar
  <2> QED  BY <1>1, <2>2, <2>3
<1>5. Min(away \cup {TooFar}) \in Int
  <2> HIDE DEF away
  <2> QED  BY <1>4, MinOfSet
<1> QED  BY <1>5 DEF Nearest

\* The key of the filter ends with the place's identity.
LEMMA FilterKeyIsTuple ==
  ASSUME NEW trip, IsTrip(trip), NEW p, IsPlace(p, trip)
  PROVE  FilterKey(p, trip) \in [1..6 -> Int] /\ FilterKey(p, trip)[6] = p.id
<1>1. /\ (IF ServesAny(p, MustVisit(trip)) THEN 0 ELSE 1) \in Int
      /\ (IF p.source = "ONLINE" THEN 0 ELSE 1) \in Int
      /\ -Words(p, trip) \in Int /\ p.id \in Int /\ Price(p) \in Int
      /\ Closeness(p, MustVisit(trip)) \in Int
  <2>1. -Words(p, trip) \in Int
    BY WordsAreCounted
  <2>2. Price(p) \in Int /\ p.id \in Int
    BY DEF Price, Unpriced, IsPlace
  <2> QED  BY <2>1, <2>2, ClosenessIsNumber
<1> QED  BY <1>1 DEF FilterKey

\* So does the key of the candidates.
LEMMA CandidateKeyIsTuple ==
  ASSUME NEW trip, IsTrip(trip), NEW p, IsPlace(p, trip)
  PROVE  CandidateKey(p, trip) \in [1..5 -> Int] /\ CandidateKey(p, trip)[5] = p.id
<1>1. /\ (IF ServesAny(p, MustVisit(trip)) THEN 0 ELSE 1) \in Int
      /\ -Words(p, trip) \in Int /\ p.id \in Int /\ Price(p) \in Int
      /\ Closeness(p, MustVisit(trip)) \in Int
  <2>1. -Words(p, trip) \in Int
    BY WordsAreCounted
  <2>2. Price(p) \in Int /\ p.id \in Int
    BY DEF Price, Unpriced, IsPlace
  <2> QED  BY <2>1, <2>2, ClosenessIsNumber
<1> QED  BY <1>1 DEF CandidateKey

\* One typed place for each identity.
ArePlaces(S, trip) ==
    /\ IsFiniteSet(S) /\ \A p \in S : IsPlace(p, trip)
    /\ \A p, q \in S : p.id = q.id => p = q

\* A key that ends in the identity tells them apart.
LEMMA IdsTellApart ==
  ASSUME NEW trip, NEW S, ArePlaces(S, trip), NEW n \in Nat, NEW key,
         \A p \in S : key[p] \in [1..n -> Int] /\ key[p][n] = p.id
  PROVE  AreKeys(key, S)
<1>1. \E m \in Nat : \A p \in S : key[p] \in [1..m -> Int]
  OBVIOUS
<1>2. \A p, q \in S : key[p] = key[q] => p = q
  <2> SUFFICES ASSUME NEW p \in S, NEW q \in S, key[p] = key[q]  PROVE p.id = q.id
    BY DEF ArePlaces
  <2>1. key[p][n] = p.id /\ key[q][n] = q.id
    OBVIOUS
  <2> QED  BY <2>1
<1> QED  BY <1>1, <1>2 DEF AreKeys

\* Each of the orders of the code tells the places apart.
LEMMA OrdersTellApart ==
  ASSUME NEW trip, IsTrip(trip), NEW S, ArePlaces(S, trip)
  PROVE  /\ AreKeys([p \in S |-> FilterKey(p, trip)], S)
         /\ AreKeys([p \in S |-> CandidateKey(p, trip)], S)
<1>1. AreKeys([p \in S |-> FilterKey(p, trip)], S)
  <2> DEFINE key == [p \in S |-> FilterKey(p, trip)]
  <2>1. \A p \in S : key[p] \in [1..6 -> Int] /\ key[p][6] = p.id
    BY FilterKeyIsTuple DEF ArePlaces
  <2> HIDE DEF key
  <2>2. AreKeys(key, S)
    BY <2>1, IdsTellApart
  <2> QED  BY <2>2 DEF key
<1>2. AreKeys([p \in S |-> CandidateKey(p, trip)], S)
  <2> DEFINE key == [p \in S |-> CandidateKey(p, trip)]
  <2>1. \A p \in S : key[p] \in [1..5 -> Int] /\ key[p][5] = p.id
    BY CandidateKeyIsTuple DEF ArePlaces
  <2> HIDE DEF key
  <2>2. AreKeys(key, S)
    BY <2>1, IdsTellApart
  <2> QED  BY <2>2 DEF key
<1> QED  BY <1>1, <1>2

\* Restaurants are told apart by their distance and the key of the filter,
LEMMA NearestTellsApart ==
  ASSUME NEW trip, IsTrip(trip), NEW S, ArePlaces(S, trip),
         NEW anchors, IsFiniteSet(anchors), \A a \in anchors : a.at \in Int
  PROVE  AreKeys([p \in S |-> <<Nearest(p, anchors)>> \o FilterKey(p, trip)], S)
<1> DEFINE key == [p \in S |-> <<Nearest(p, anchors)>> \o FilterKey(p, trip)]
<1>1. ASSUME NEW p \in S  PROVE key[p] \in [1..7 -> Int] /\ key[p][7] = p.id
  <2>1. FilterKey(p, trip) \in [1..6 -> Int] /\ FilterKey(p, trip)[6] = p.id
    BY FilterKeyIsTuple DEF ArePlaces
  <2>2. Nearest(p, anchors) \in Int
    BY NearestIsNumber DEF ArePlaces, IsPlace
  <2> DEFINE k == FilterKey(p, trip)
             n == Nearest(p, anchors)
  <2>3. k \in Seq(Int) /\ Len(k) = 6 /\ <<n>> \in Seq(Int) /\ Len(<<n>>) = 1
    <3>1. k \in [1..6 -> Int] /\ n \in Int
      BY <2>1, <2>2
    <3> HIDE DEF k, n
    <3>2. k \in Seq(Int) /\ Len(k) = 6
      BY <3>1, FunctionIsSeq
    <3>3. <<n>> \in Seq(Int) /\ Len(<<n>>) = 1
      BY <3>1
    <3> QED  BY <3>2, <3>3
  <2>4. key[p] = <<n>> \o k
    OBVIOUS
  <2> HIDE DEF k, n, key
  <2>5. /\ <<n>> \o k \in Seq(Int) /\ Len(<<n>> \o k) = 7
        /\ (<<n>> \o k)[7] = k[6]
    <3>1. /\ <<n>> \o k \in Seq(Int) /\ Len(<<n>> \o k) = Len(<<n>>) + Len(k)
          /\ \A i \in 1..(Len(<<n>>) + Len(k)) :
                (<<n>> \o k)[i] = IF i <= Len(<<n>>) THEN <<n>>[i] ELSE k[i - Len(<<n>>)]
      BY <2>3, ConcatProperties
    <3> QED  BY <2>3, <3>1
  <2>6. <<n>> \o k \in [1..7 -> Int]
    <3> DEFINE u == <<n>> \o k
    <3>1. u \in Seq(Int) /\ Len(u) = 7
      BY <2>5
    <3> HIDE DEF u
    <3>2. u \in [1..7 -> Int]
      BY <3>1, SeqIsFunction
    <3> QED  BY <3>2 DEF u
  <2> QED  BY <2>1, <2>4, <2>5, <2>6 DEF k
<1> HIDE DEF key
<1>2. AreKeys(key, S)
  BY <1>1, IdsTellApart
<1> QED  BY <1>2 DEF key

\* and the answers to a label by their match and identity.
LEMMA MatchTellsApart ==
  ASSUME NEW trip, IsTrip(trip), NEW S, ArePlaces(S, trip), NEW l \in ToSet(MustVisit(trip))
  PROVE  AreKeys([p \in S |-> <<p.match[l], p.id>>], S)
<1> DEFINE key == [p \in S |-> <<p.match[l], p.id>>]
<1>1. ASSUME NEW p \in S  PROVE key[p] \in [1..2 -> Int] /\ key[p][2] = p.id
  <2>1. p.match[l] \in Int /\ p.id \in Int
    BY MatchesAreNumbers DEF ArePlaces, IsPlace
  <2> QED  BY <2>1
<1> HIDE DEF key
<1>2. AreKeys(key, S)
  BY <1>1, IdsTellApart
<1> QED  BY <1>2 DEF key

-----------------------------------------------------------------------------
(* What the filter keeps and the reservation signs. *)

\* Some of the places are places.
LEMMA SomePlaces ==
  ASSUME NEW trip, NEW S, ArePlaces(S, trip), NEW T \in SUBSET S
  PROVE  ArePlaces(T, trip) /\ IsFiniteSet(T)
<1>1. IsFiniteSet(T)
  BY FS_Subset DEF ArePlaces
<1> QED  BY <1>1 DEF ArePlaces

\* What is kept are admissible places that were found, each once.
LEMMA KeptPlaces ==
  ASSUME NEW trip, IsTrip(trip), NEW found, AreFound(found, trip)
  PROVE  /\ ArePlaces(Kept(found, trip), trip)
         /\ Kept(found, trip) \subseteq ToSet(found)
         /\ \A p \in Kept(found, trip) : Admissible(p, trip)
<1> DEFINE kept == {i \in DOMAIN found :
                       /\ Admissible(found[i], trip)
                       /\ \A j \in 1..(i - 1) :
                             found[j].id = found[i].id => ~Admissible(found[j], trip)}
<1>0. DOMAIN found = 1..Len(found) /\ Len(found) \in Nat
  BY DEF AreFound
<1>1. Kept(found, trip) = {found[i] : i \in kept}
  BY DEF Kept
<1>2. Kept(found, trip) \subseteq ToSet(found)
  BY <1>1 DEF ToSet
<1>3. \A p \in Kept(found, trip) : Admissible(p, trip)
  BY <1>1
<1>4. IsFiniteSet(Kept(found, trip))
  BY <1>2, SequencesAreFinite, FS_Subset DEF AreFound
<1>5. \A p \in Kept(found, trip) : IsPlace(p, trip)
  BY <1>2 DEF AreFound
<1>6. ASSUME NEW i \in kept, NEW j \in kept, found[i].id = found[j].id  PROVE i = j
  <2>1. i \in Nat /\ j \in Nat /\ i >= 1 /\ j >= 1
    BY <1>0
  <2>2. ~(i \in 1..(j - 1)) /\ ~(j \in 1..(i - 1))
    BY <1>6
  <2> QED  BY <2>1, <2>2
<1>7. \A p, q \in Kept(found, trip) : p.id = q.id => p = q
  <2> HIDE DEF kept
  <2> QED  BY <1>1, <1>6
<1> QED  BY <1>2, <1>3, <1>4, <1>5, <1>7 DEF ArePlaces

\* _filter_candidates lists what it keeps,
LEMMA OrderedPlaces ==
  ASSUME NEW trip, IsTrip(trip), NEW found, AreFound(found, trip)
  PROVE  IsListing(Ordered(found, trip), Kept(found, trip))
<1>1. ArePlaces(Kept(found, trip), trip) /\ IsFiniteSet(Kept(found, trip))
  BY KeptPlaces DEF ArePlaces
<1>2. AreKeys([p \in Kept(found, trip) |-> FilterKey(p, trip)], Kept(found, trip))
  BY <1>1, OrdersTellApart
<1> QED  BY <1>1, <1>2, SortedIsListing DEF Ordered

\* _visit_places the visits of what it is given,
LEMMA VisitsAreListed ==
  ASSUME NEW s, NEW S, IsListing(s, S)
  PROVE  IsListing(Visits(s), VisitsOf(S))
<1>1. ToSet(s) = S
  BY DEF IsListing
<1>2. IsListing(Only(s, VisitsOf(S)), S \cap VisitsOf(S))
  BY OnlyIsListing
<1>3. S \cap VisitsOf(S) = VisitsOf(S)
  BY DEF VisitsOf
<1> QED  BY <1>1, <1>2, <1>3 DEF Visits

\* and _dining_places the restaurants.
LEMMA DiningIsListed ==
  ASSUME NEW trip, IsTrip(trip), NEW s, NEW S, IsListing(s, S), ArePlaces(S, trip)
  PROVE  IsListing(Dining(s, trip), DiningOf(S))
<1> DEFINE anchors == Anchors(s, trip)
<1>1. ToSet(s) = S
  BY DEF IsListing
<1>2. anchors \in SUBSET S
  <2>1. IsListing(Visits(s), VisitsOf(S))
    BY VisitsAreListed
  <2>2. ToSet(First(MaxVisits, Visits(s))) \subseteq VisitsOf(S)
    <3>1. MaxVisits \in Nat
      BY DEF MaxVisits
    <3> QED  BY <2>1, <3>1, FirstIsListing
  <2>3. VisitsOf(S) \subseteq S
    BY DEF VisitsOf
  <2> QED  BY <1>1, <2>2, <2>3 DEF Anchors
<1>3. IsFiniteSet(anchors) /\ \A a \in anchors : a.at \in Int
  BY <1>2, SomePlaces DEF ArePlaces, IsPlace
<1>4. ArePlaces(DiningOf(S), trip) /\ IsFiniteSet(DiningOf(S))
  <2>1. DiningOf(S) \in SUBSET S
    BY DEF DiningOf
  <2> QED  BY <2>1, SomePlaces
<1> HIDE DEF anchors
<1>5. AreKeys([p \in DiningOf(S) |-> <<Nearest(p, anchors)>> \o FilterKey(p, trip)], DiningOf(S))
  BY <1>3, <1>4, NearestTellsApart
<1> QED  BY <1>1, <1>4, <1>5, SortedIsListing DEF Dining, anchors

\* The best answer to a label that has an answer is an answer.
LEMMA BestAnswers ==
  ASSUME NEW trip, IsTrip(trip), NEW s, NEW S, IsListing(s, S), ArePlaces(S, trip),
         NEW l \in ToSet(MustVisit(trip)), Answering(l, S) # {}
  PROVE  BestFor(l, s) \in Answering(l, S)
<1> DEFINE answers == Answering(l, S)
           key == [p \in answers |-> <<p.match[l], p.id>>]
<1>1. ToSet(s) = S
  BY DEF IsListing
<1>2. ArePlaces(answers, trip) /\ IsFiniteSet(answers)
  <2>1. answers \in SUBSET S
    BY DEF Answering
  <2> QED  BY <2>1, SomePlaces
<1>3. AreKeys(key, answers)
  <2> HIDE DEF answers
  <2> QED  BY <1>2, MatchTellsApart
<1> HIDE DEF answers, key
<1>4. IsListing(Sorted(answers, key), answers)
  BY <1>2, <1>3, SortedIsListing
<1>5. 1 \in DOMAIN Sorted(answers, key)
  <2>1. PICK x : x \in answers
    BY DEF answers
  <2>2. \E i \in DOMAIN Sorted(answers, key) : Sorted(answers, key)[i] = x
    BY <1>4, <2>1, Listing
  <2> QED  BY <1>4, <2>2, Listing
<1>6. Sorted(answers, key)[1] \in answers
  BY <1>4, <1>5, Listing
<1> QED  BY <1>1, <1>6 DEF BestFor, answers, key

\* A sequence that has an element for each label.
LEMMA ForEachLabel ==
  ASSUME NEW labels, NEW L, IsListing(labels, L), NEW best, NEW S,
         DOMAIN best = DOMAIN labels, best = [i \in DOMAIN best |-> best[i]],
         \A i \in DOMAIN best : best[i] \in S
  PROVE  best \in Seq(ToSet(best)) /\ ToSet(best) \subseteq S /\ Len(best) = Len(labels)
<1>1. DOMAIN best = 1..Len(labels) /\ Len(labels) \in Nat
  BY Listing
<1>2. best \in [1..Len(labels) -> ToSet(best)]
  BY <1>1 DEF ToSet
<1>3. ToSet(best) \subseteq S
  BY DEF ToSet
<1> QED  BY <1>1, <1>2, <1>3, FunctionIsSeq

\* The reservation lists at most eighty of the places.
LEMMA ReservedPlaces ==
  ASSUME NEW trip, IsTrip(trip), NEW s, NEW S, IsListing(s, S), ArePlaces(S, trip),
         Missing(s, trip) = {}
  PROVE  /\ IsListing(Reserve(s, trip), ToSet(Reserve(s, trip)))
         /\ ToSet(Reserve(s, trip)) \subseteq S
         /\ Len(Reserve(s, trip)) <= MaxCandidates
<1> DEFINE must == MustVisit(trip)
           best == [i \in DOMAIN must |-> BestFor(must[i], s)]
           meals == First(Meals(trip), Dining(s, trip))
           visits == First(MaxVisits, Visits(s))
           all == best \o meals \o visits \o s
<1>0. ToSet(s) = S /\ s \in Seq(ToSet(s))
  BY Listing DEF IsListing
<1>1. best \in Seq(ToSet(best)) /\ ToSet(best) \subseteq S
  <2>1. ASSUME NEW i \in DOMAIN must  PROVE best[i] \in S
    <3>1. must[i] \in ToSet(MustVisit(trip))
      BY DEF ToSet
    <3>2. Answering(must[i], S) # {}
      BY <1>0, <3>1 DEF Missing
    <3>3. BestFor(must[i], s) \in Answering(must[i], S)
      BY <3>1, <3>2, BestAnswers
    <3> QED  BY <3>3 DEF Answering
  <2>2. DOMAIN best = DOMAIN must /\ best = [i \in DOMAIN best |-> best[i]]
    OBVIOUS
  <2>3. IsListing(must, UNION {ToSet(m.must) : m \in ToSet(trip.members)})
    BY LabelsOfMembers
  <2> HIDE DEF best, must
  <2> QED  BY <2>1, <2>2, <2>3, ForEachLabel
<1>2. meals \in Seq(ToSet(meals)) /\ ToSet(meals) \subseteq S
  <2>1. Meals(trip) \in Nat
    BY MealsOfADay
  <2>2. IsListing(meals, ToSet(meals)) /\ ToSet(meals) \subseteq DiningOf(S)
    BY <2>1, DiningIsListed, FirstIsListing
  <2> QED  BY <2>2, Listing DEF DiningOf
<1>3. visits \in Seq(ToSet(visits)) /\ ToSet(visits) \subseteq S
  <2>1. MaxVisits \in Nat
    BY DEF MaxVisits
  <2>2. IsListing(visits, ToSet(visits)) /\ ToSet(visits) \subseteq VisitsOf(S)
    BY <2>1, VisitsAreListed, FirstIsListing
  <2> QED  BY <2>2, Listing DEF VisitsOf
<1> HIDE DEF best, meals, visits
<1>4. all \in Seq(ToSet(all)) /\ ToSet(all) \subseteq S
  <2>1. best \o meals \in Seq(ToSet(best \o meals)) /\ ToSet(best \o meals) \subseteq S
    BY <1>1, <1>2, ConcatSet
  <2>2. /\ best \o meals \o visits \in Seq(ToSet(best \o meals \o visits))
        /\ ToSet(best \o meals \o visits) \subseteq S
    BY <1>3, <2>1, ConcatSet
  <2> QED  BY <1>0, <2>2, ConcatSet
<1>5. Reserve(s, trip) = First(MaxCandidates, Distinct(all))
  BY DEF Reserve, best, meals, visits
<1> HIDE DEF all
<1>6. IsListing(Distinct(all), ToSet(all))
  BY <1>4, DistinctIsListing
<1>7. MaxCandidates \in Nat
  BY DEF MaxCandidates
<1>8. /\ IsListing(Reserve(s, trip), ToSet(Reserve(s, trip)))
      /\ ToSet(Reserve(s, trip)) \subseteq ToSet(all)
  BY <1>5, <1>6, <1>7, FirstIsListing
<1>9. Len(Reserve(s, trip)) <= MaxCandidates
  <2>1. Distinct(all) \in Seq(ToSet(Distinct(all))) /\ Len(Distinct(all)) \in Nat
    BY <1>6, Listing
  <2>2. Len(Reserve(s, trip)) = IF MaxCandidates <= Len(Distinct(all)) THEN MaxCandidates
                                ELSE Len(Distinct(all))
    BY <1>5, <1>7, <2>1, FirstOfSeq
  <2> QED  BY <1>7, <2>1, <2>2
<1> QED  BY <1>4, <1>8, <1>9

\* What is signed are at least six admissible places.
LEMMA SignedPlaces ==
  ASSUME NEW trip, IsTrip(trip), NEW found, AreFound(found, trip),
         PreFilter(found, trip).code = "OK"
  PROVE  LET signed == PreFilter(found, trip).value
         IN  /\ IsListing(signed, ToSet(signed))
             /\ ToSet(signed) \subseteq Kept(found, trip)
             /\ MinCandidates <= Len(signed) /\ Len(signed) <= MaxCandidates
<1> DEFINE s == Ordered(found, trip)
<1>1. IsListing(s, Kept(found, trip)) /\ ArePlaces(Kept(found, trip), trip)
  BY OrderedPlaces, KeptPlaces
<1>2. /\ Missing(s, trip) = {} /\ ~(Len(Reserve(s, trip)) < MinCandidates)
      /\ PreFilter(found, trip).value = Reserve(s, trip)
  BY DEF PreFilter, SignedOf, Signed, Refused, Accepted
<1> HIDE DEF s
<1>3. /\ IsListing(Reserve(s, trip), ToSet(Reserve(s, trip)))
      /\ ToSet(Reserve(s, trip)) \subseteq Kept(found, trip)
      /\ Len(Reserve(s, trip)) <= MaxCandidates
  BY <1>1, <1>2, ReservedPlaces
<1>4. Len(Reserve(s, trip)) \in Nat
  BY <1>3, Listing
<1>5. MinCandidates <= Len(Reserve(s, trip))
  BY <1>2, <1>4 DEF MinCandidates
<1> QED  BY <1>2, <1>3, <1>5

-----------------------------------------------------------------------------
(* What is offered, ranked, required and takeable. *)

\* What is offered are signed places.
LEMMA OfferedPlaces ==
  ASSUME NEW trip, IsTrip(trip), NEW r, NEW R, IsListing(r, R), ArePlaces(R, trip)
  PROVE  LET c == IssueCandidates(r, trip)
         IN  IsListing(c, ToSet(c)) /\ ToSet(c) \subseteq R
<1> DEFINE offered == {p \in R :
                          /\ \A l \in ToSet(Avoided(trip)) : ~IsNamed(p, l)
                          /\ ~IsLodging(p)
                          /\ IsNonVisit(p) => \E l \in ToSet(MustVisit(trip)) : IsNamed(p, l)}
           s == Sorted(offered, [p \in offered |-> CandidateKey(p, trip)])
<1>1. ToSet(r) = R
  BY DEF IsListing
<1>2. IssueCandidates(r, trip) = First(MaxCandidates, s)
  BY <1>1 DEF IssueCandidates
<1>3. offered \in SUBSET R
  OBVIOUS
<1> HIDE DEF offered
<1>4. ArePlaces(offered, trip) /\ IsFiniteSet(offered)
  BY <1>3, SomePlaces
<1>5. IsListing(s, offered)
  BY <1>4, OrdersTellApart, SortedIsListing
<1> HIDE DEF s
<1>6. MaxCandidates \in Nat
  BY DEF MaxCandidates
<1> QED  BY <1>2, <1>3, <1>5, <1>6, FirstIsListing

\* All that is signed is offered, if the filter has looked at all that is avoided.
LEMMA AllAreOffered ==
  ASSUME NEW trip, IsTrip(trip), NEW r, NEW R, IsListing(r, R), ArePlaces(R, trip),
         \A p \in R : Admissible(p, trip), Len(r) <= MaxCandidates,
         Len(Avoided(trip)) <= MaxAvoided
  PROVE  IsListing(IssueCandidates(r, trip), R)
<1> DEFINE offered == {p \in R :
                          /\ \A l \in ToSet(Avoided(trip)) : ~IsNamed(p, l)
                          /\ ~IsLodging(p)
                          /\ IsNonVisit(p) => \E l \in ToSet(MustVisit(trip)) : IsNamed(p, l)}
           s == Sorted(R, [p \in R |-> CandidateKey(p, trip)])
<1>1. ToSet(r) = R
  BY DEF IsListing
<1>2. First(MaxAvoided, Avoided(trip)) = Avoided(trip)
  <2>1. Avoided(trip) \in Seq(ToSet(Avoided(trip)))
    BY LabelsOfMembers, Listing
  <2>2. MaxAvoided \in Nat
    BY DEF MaxAvoided
  <2> QED  BY <2>1, <2>2, FirstOfSeq
<1>3. offered = R
  <2> SUFFICES ASSUME NEW p \in R
               PROVE  /\ \A l \in ToSet(Avoided(trip)) : ~IsNamed(p, l)
                      /\ ~IsLodging(p)
                      /\ IsNonVisit(p) => \E l \in ToSet(MustVisit(trip)) : IsNamed(p, l)
    OBVIOUS
  <2>1. Admissible(p, trip)
    OBVIOUS
  <2>2. /\ \A l \in ToSet(Avoided(trip)) : ~Matches(p, l)
        /\ ~IsLodging(p)
        /\ IsNonVisit(p) => \E l \in ToSet(MustVisit(trip)) : IsNamed(p, l)
    BY <1>2, <2>1 DEF Admissible
  <2>3. \A l : IsNamed(p, l) => Matches(p, l)
    BY DEF IsNamed, Matches, NoMatch
  <2> QED  BY <2>2, <2>3
<1>4. IssueCandidates(r, trip) = First(MaxCandidates, s)
  BY <1>1, <1>3 DEF IssueCandidates
<1>5. IsListing(s, R)
  <2>1. IsFiniteSet(R)
    BY DEF ArePlaces
  <2> QED  BY <2>1, OrdersTellApart, SortedIsListing
<1> HIDE DEF s
<1>6. First(MaxCandidates, s) = s
  <2>1. s \in Seq(ToSet(s)) /\ Len(s) = Len(r)
    BY <1>5, Listing DEF IsListing
  <2>2. MaxCandidates \in Nat
    BY DEF MaxCandidates
  <2> QED  BY <2>1, <2>2, FirstOfSeq
<1> QED  BY <1>4, <1>5, <1>6

\* What the model ranks are candidates.
LEMMA RankedPlaces ==
  ASSUME NEW c, NEW C, IsListing(c, C), NEW ranking, IsRanking(ranking)
  PROVE  LET ranked == Rank(c, ranking)
         IN  ranked \in Seq(ToSet(ranked)) /\ ToSet(ranked) \subseteq C
<1> DEFINE byId(i) == CHOOSE p \in ToSet(c) : p.id = i
           named == [i \in DOMAIN ranking |-> byId(ranking[i])]
<1>1. ToSet(c) = C /\ c \in Seq(ToSet(c))
  BY Listing DEF IsListing
<1>2. CASE /\ ranking # None
           /\ Len(Distinct(ranking)) = Len(ranking)
           /\ ToSet(ranking) \subseteq {p.id : p \in ToSet(c)}
  <2>1. Rank(c, ranking) = named
    BY <1>2 DEF Rank
  <2>2. ranking \in Seq(Int) /\ DOMAIN ranking = 1..Len(ranking) /\ Len(ranking) \in Nat
    BY <1>2 DEF IsRanking
  <2>3. ASSUME NEW i \in DOMAIN ranking PROVE named[i] \in C
    <3>1. \E p \in ToSet(c) : p.id = ranking[i]
      BY <1>2 DEF ToSet
    <3> QED  BY <1>1, <3>1
  <2>4. named \in [1..Len(ranking) -> ToSet(named)]
    BY <2>2 DEF ToSet
  <2>5. ToSet(named) \subseteq C
    BY <2>3 DEF ToSet
  <2> HIDE DEF named
  <2> QED  BY <2>1, <2>2, <2>4, <2>5, FunctionIsSeq
<1>3. CASE ~ /\ ranking # None
             /\ Len(Distinct(ranking)) = Len(ranking)
             /\ ToSet(ranking) \subseteq {p.id : p \in ToSet(c)}
  <2>1. Rank(c, ranking) = c
    BY <1>3 DEF Rank
  <2> QED  BY <1>1, <2>1
<1> QED  BY <1>2, <1>3

\* There is a candidate for each label.
LEMMA RequiredPlaces ==
  ASSUME NEW trip, IsTrip(trip), NEW c, NEW C, IsListing(c, C), Missing(c, trip) = {}
  PROVE  LET required == RequiredCandidates(c, trip)
         IN  /\ IsListing(required, ToSet(required)) /\ ToSet(required) \subseteq C
             /\ \A l \in ToSet(MustVisit(trip)) : \E p \in ToSet(required) : Serves(p, l)
<1> DEFINE must == MustVisit(trip)
           first(l) == Only(c, Answering(l, ToSet(c)))[1]
           best == [i \in DOMAIN must |-> first(must[i])]
<1>0. ToSet(c) = C
  BY DEF IsListing
<1>1. ASSUME NEW l \in ToSet(MustVisit(trip))  PROVE first(l) \in Answering(l, C)
  <2> DEFINE answers == Answering(l, C)
             only == Only(c, answers)
  <2>1. answers # {} /\ C \cap answers = answers
    BY <1>0 DEF Missing, Answering
  <2> HIDE DEF answers
  <2>2. IsListing(only, answers)
    BY <2>1, OnlyIsListing
  <2>3. 1 \in DOMAIN only
    <3>1. PICK x : x \in answers
      BY <2>1
    <3>2. \E i \in DOMAIN only : only[i] = x
      BY <2>2, <3>1, Listing
    <3> QED  BY <2>2, <3>2, Listing
  <2>4. only[1] \in answers
    BY <2>2, <2>3, Listing
  <2> QED  BY <1>0, <2>4 DEF answers
<1>2. \A i \in DOMAIN must : must[i] \in ToSet(MustVisit(trip))
  BY DEF ToSet
<1>3. \A i \in DOMAIN best : best[i] \in C
  <2> HIDE DEF first
  <2> QED  BY <1>1, <1>2 DEF Answering
<1>4. best \in Seq(ToSet(best)) /\ ToSet(best) \subseteq C
  <2>1. DOMAIN best = DOMAIN must /\ best = [i \in DOMAIN best |-> best[i]]
    OBVIOUS
  <2>2. IsListing(must, UNION {ToSet(m.must) : m \in ToSet(trip.members)})
    BY LabelsOfMembers
  <2> HIDE DEF best, must
  <2> QED  BY <1>3, <2>1, <2>2, ForEachLabel
<1>5. RequiredCandidates(c, trip) = Distinct(best)
  BY DEF RequiredCandidates
<1>6. IsListing(Distinct(best), ToSet(best))
  <2> HIDE DEF best
  <2> QED  BY <1>4, DistinctIsListing
<1>7. ASSUME NEW l \in ToSet(MustVisit(trip))  PROVE \E p \in ToSet(best) : Serves(p, l)
  <2>1. PICK i \in DOMAIN must : must[i] = l
    BY DEF ToSet
  <2>2. best[i] = first(l) /\ best[i] \in ToSet(best)
    BY <2>1 DEF ToSet
  <2> HIDE DEF best, first
  <2>3. Serves(best[i], l)
    BY <1>1, <2>2 DEF Answering
  <2> QED  BY <2>2, <2>3
<1>8. ToSet(Distinct(best)) = ToSet(best)
  BY <1>6 DEF IsListing
<1> HIDE DEF best
<1> QED  BY <1>4, <1>5, <1>6, <1>7, <1>8

\* What may be taken are candidates: the required ones and, with a meal, all.
LEMMA TakeablePlaces ==
  ASSUME NEW trip, IsTrip(trip), NEW c, NEW C, IsListing(c, C), Missing(c, trip) = {},
         NEW ranking, IsRanking(ranking)
  PROVE  LET from == Takeable(c, Rank(c, ranking), trip)
         IN  /\ IsListing(from, ToSet(from)) /\ ToSet(from) \subseteq C
             /\ Meals(trip) > 0 => ToSet(from) = C
<1> DEFINE ranked == Rank(c, ranking)
           more == IF Meals(trip) > 0 THEN c ELSE <<>>
           required == RequiredCandidates(c, trip)
           all == ranked \o more \o required
<1>1. ranked \in Seq(ToSet(ranked)) /\ ToSet(ranked) \subseteq C
  BY RankedPlaces
<1>2. more \in Seq(ToSet(more)) /\ ToSet(more) \subseteq C /\ (Meals(trip) > 0 => ToSet(more) = C)
  <2>1. c \in Seq(ToSet(c)) /\ ToSet(c) = C
    BY Listing DEF IsListing
  <2>2. <<>> \in Seq(ToSet(<<>>)) /\ ToSet(<<>>) = {}
    BY DEF ToSet
  <2> QED  BY <2>1, <2>2
<1>3. required \in Seq(ToSet(required)) /\ ToSet(required) \subseteq C
  BY RequiredPlaces, Listing
<1> HIDE DEF ranked, more, required
<1>4. /\ all \in Seq(ToSet(all))
      /\ ToSet(all) = (ToSet(ranked) \cup ToSet(more)) \cup ToSet(required)
  <2>1. /\ ranked \o more \in Seq(ToSet(ranked \o more))
        /\ ToSet(ranked \o more) = ToSet(ranked) \cup ToSet(more)
    BY <1>1, <1>2, ConcatSet
  <2> QED  BY <1>3, <2>1, ConcatSet
<1>5. Takeable(c, Rank(c, ranking), trip) = Distinct(all)
  BY DEF Takeable, ranked, more, required
<1> HIDE DEF all
<1>6. IsListing(Distinct(all), ToSet(all))
  BY <1>4, DistinctIsListing
<1>7. ToSet(Distinct(all)) = ToSet(all)
  BY <1>6 DEF IsListing
<1>8. ToSet(all) \subseteq C /\ (Meals(trip) > 0 => ToSet(all) = C)
  BY <1>1, <1>2, <1>3, <1>4
<1> QED  BY <1>5, <1>6, <1>7, <1>8

-----------------------------------------------------------------------------
(* The orders of a plan's tasks. *)

\* A finite set can be arranged in finitely many orders, each of which lists it.
LEMMA OrdersOfSet ==
  ASSUME NEW S, IsFiniteSet(S)
  PROVE  /\ SetToSeqs(S) # {} /\ IsFiniteSet(SetToSeqs(S))
         /\ \A f \in SetToSeqs(S) : IsListing(f, S)
<1> DEFINE n == Cardinality(S)
           D == 1..n
           Q == {f \in [D -> S] : \A i, j \in D : i # j => f[i] # f[j]}
<1>0. n \in Nat /\ ExistsBijection(D, S)
  BY FS_CardinalityType
<1>1. SetToSeqs(S) = Q
  BY DEF SetToSeqs
<1>2. IsFiniteSet(D) /\ Cardinality(D) = n
  BY <1>0, SoManyNumbers
<1> HIDE DEF n
<1>3. Q # {}
  <2>1. PICK f : f \in Bijection(D, S)
    BY <1>0 DEF ExistsBijection
  <2>2. f \in [D -> S] /\ \A i, j \in D : f[i] = f[j] => i = j
    BY <2>1 DEF Bijection, Injection, IsInjective
  <2>3. f \in Q
    BY <2>2
  <2> QED  BY <2>3
<1>4. IsFiniteSet(Q)
  <2> DEFINE graph(f) == {<<i, f[i]>> : i \in D}
             h == [f \in Q |-> graph(f)]
             T == SUBSET (D \X S)
  <2>1. IsFiniteSet(T)
    BY <1>2, FS_Product, FS_SUBSET
  <2>2. ASSUME NEW f \in Q  PROVE graph(f) \in T
    OBVIOUS
  <2>3. ASSUME NEW f \in Q, NEW g \in Q, graph(f) = graph(g)  PROVE f = g
    <3>1. \A i \in D : f[i] = g[i]
      <4> SUFFICES ASSUME NEW i \in D  PROVE f[i] = g[i]
        OBVIOUS
      <4>1. <<i, f[i]>> \in graph(g)
        BY <2>3
      <4> QED  BY <4>1
    <3>2. f \in [D -> S] /\ g \in [D -> S]
      OBVIOUS
    <3> HIDE DEF D, Q, graph
    <3> QED  BY <3>1, <3>2
  <2> HIDE DEF graph, Q, T
  <2>4. h \in [Q -> T] /\ \A f, g \in DOMAIN h : h[f] = h[g] => f = g
    BY <2>2, <2>3
  <2>5. h \in Injection(Q, T)
    BY <2>4 DEF Injection, IsInjective
  <2> QED  BY <2>1, <2>5, FS_Injection
<1>5. ASSUME NEW f \in Q  PROVE IsListing(f, S)
  <2>1. f \in [D -> S] /\ \A i, j \in D : f[i] = f[j] => i = j
    OBVIOUS
  <2>2. f \in Injection(D, S)
    BY <2>1 DEF Injection, IsInjective
  <2>3. f \in Surjection(D, S)
    BY <1>2, <2>2, FS_Injection DEF n
  <2>4. \A x \in S : \E i \in D : f[i] = x
    BY <2>3 DEF Surjection
  <2>5. f \in Seq(S) /\ Len(f) = n /\ DOMAIN f = D
    BY <1>0, <2>1, FunctionIsSeq
  <2>6. ToSet(f) = S
    BY <2>1, <2>4, <2>5 DEF ToSet
  <2> QED  BY <2>1, <2>5, <2>6 DEF IsListing, n
<1> QED  BY <1>1, <1>3, <1>4, <1>5

\* What a listing of three, of two and of one has.
LEMMA ListingOfThree ==
  ASSUME NEW s, NEW S, IsListing(s, S), Cardinality(S) = 3
  PROVE  /\ S = {s[1], s[2], s[3]} /\ Len(s) = 3
         /\ s[1] # s[2] /\ s[1] # s[3] /\ s[2] # s[3]
<1>1. Len(s) = 3 /\ DOMAIN s = 1..3
  BY Listing DEF IsListing
<1>2. S = {s[i] : i \in 1..3}
  BY <1>1 DEF IsListing, ToSet
<1> QED  BY <1>1, <1>2 DEF IsListing

\* The listing of two elements,
LEMMA ListingOfTwo ==
  ASSUME NEW s, NEW S, IsListing(s, S), Cardinality(S) = 2
  PROVE  S = {s[1], s[2]} /\ Len(s) = 2 /\ s[1] # s[2]
<1>1. Len(s) = 2 /\ DOMAIN s = 1..2
  BY Listing DEF IsListing
<1>2. S = {s[i] : i \in 1..2}
  BY <1>1 DEF IsListing, ToSet
<1> QED  BY <1>1, <1>2 DEF IsListing

\* and of one.
LEMMA ListingOfOne ==
  ASSUME NEW s, NEW S, IsListing(s, S), Cardinality(S) = 1
  PROVE  S = {s[1]} /\ Len(s) = 1
<1>1. Len(s) = 1 /\ DOMAIN s = 1..1
  BY Listing DEF IsListing
<1>2. S = {s[i] : i \in 1..1}
  BY <1>1 DEF IsListing, ToSet
<1> QED  BY <1>1, <1>2 DEF IsListing

\* Three visits with a meal for each of the day's meals are a plan of all of them.
LEMMA MealsAreInserted ==
  ASSUME NEW trip, Meals(trip) > 0, NEW tasks,
         Cardinality(VisitsOf(tasks)) = 3, Cardinality(DiningOf(tasks)) = Meals(trip),
         NEW v, IsListing(v, VisitsOf(tasks)), NEW d, IsListing(d, DiningOf(tasks))
  PROVE  LET s == Interleaved(v, d, trip)
         IN  IsListing(s, tasks) /\ Len(s) = 3 + Meals(trip)
<1>1. tasks = VisitsOf(tasks) \cup DiningOf(tasks)
      /\ \A p \in VisitsOf(tasks), q \in DiningOf(tasks) : p # q
  BY DEF VisitsOf, DiningOf
<1> DEFINE V == VisitsOf(tasks)
           E == DiningOf(tasks)
           s == Interleaved(v, d, trip)
<1>2. /\ V = {v[1], v[2], v[3]} /\ Len(v) = 3
      /\ v[1] # v[2] /\ v[1] # v[3] /\ v[2] # v[3]
  BY ListingOfThree
<1>3. CASE MealKinds(trip) = <<"LUNCH", "DINNER">> /\ Meals(trip) = 2
  <2>1. E = {d[1], d[2]} /\ d[1] # d[2]
    BY <1>3, ListingOfTwo
  <2>2. s = <<v[1], v[2], d[1], v[3], d[2]>>
    BY <1>3 DEF Interleaved
  <2> HIDE DEF V, E, s
  <2>3. Len(s) = 5 /\ s \in Seq(ToSet(s)) /\ ToSet(s) = {v[1], v[2], d[1], v[3], d[2]}
    BY <2>2 DEF ToSet
  <2>4. \A i, j \in DOMAIN s : s[i] = s[j] => i = j
    <3>1. \A x \in {v[1], v[2], v[3]}, y \in {d[1], d[2]} : x # y
      BY <1>1, <1>2, <2>1 DEF V, E
    <3>2. /\ v[1] # d[1] /\ v[1] # d[2] /\ v[2] # d[1] /\ v[2] # d[2]
          /\ v[3] # d[1] /\ v[3] # d[2]
      BY <3>1
    <3>3. DOMAIN s = 1..5 /\ s[1] = v[1] /\ s[2] = v[2] /\ s[3] = d[1] /\ s[4] = v[3] /\ s[5] = d[2]
      BY <2>2
    <3> QED  BY <1>2, <2>1, <3>2, <3>3
  <2>5. ToSet(s) = tasks
    BY <1>1, <1>2, <2>1, <2>3 DEF V, E
  <2> QED  BY <1>3, <2>3, <2>4, <2>5, InjectiveIsListing DEF s
<1>4. CASE MealKinds(trip) = <<"LUNCH">> /\ Meals(trip) = 1
  <2>1. E = {d[1]}
    BY <1>4, ListingOfOne
  <2>2. s = <<v[1], v[2], d[1], v[3]>>
    BY <1>4 DEF Interleaved
  <2> HIDE DEF V, E, s
  <2>3. Len(s) = 4 /\ s \in Seq(ToSet(s)) /\ ToSet(s) = {v[1], v[2], d[1], v[3]}
    BY <2>2 DEF ToSet
  <2>4. \A i, j \in DOMAIN s : s[i] = s[j] => i = j
    <3>1. \A x \in {v[1], v[2], v[3]}, y \in {d[1]} : x # y
      BY <1>1, <1>2, <2>1 DEF V, E
    <3>2. v[1] # d[1] /\ v[2] # d[1] /\ v[3] # d[1]
      BY <3>1
    <3>3. DOMAIN s = 1..4 /\ s[1] = v[1] /\ s[2] = v[2] /\ s[3] = d[1] /\ s[4] = v[3]
      BY <2>2
    <3> QED  BY <1>2, <3>2, <3>3
  <2>5. ToSet(s) = tasks
    BY <1>1, <1>2, <2>1, <2>3 DEF V, E
  <2> QED  BY <1>4, <2>3, <2>4, <2>5, InjectiveIsListing DEF s
<1>5. CASE MealKinds(trip) = <<"DINNER">> /\ Meals(trip) = 1
  <2>1. E = {d[1]} /\ Len(d) = 1
    BY <1>5, ListingOfOne
  <2>2. s = v \o d
    BY <1>5 DEF Interleaved
  <2>0. v \in Seq(V) /\ d \in Seq(E)
    BY DEF IsListing
  <2> HIDE DEF V, E, s
  <2>3. /\ DOMAIN s = 1..4 /\ Len(s) = 4
        /\ s[1] = v[1] /\ s[2] = v[2] /\ s[3] = v[3] /\ s[4] = d[1]
    <3>1. v \in Seq(V \cup E) /\ d \in Seq(V \cup E)
      BY <2>0
    <3>2. Len(v) = 3 /\ Len(d) = 1
      BY <1>2, <2>1
    <3>3. /\ s \in Seq(V \cup E) /\ Len(s) = Len(v) + Len(d)
          /\ \A i \in 1..(Len(v) + Len(d)) : s[i] = IF i <= Len(v) THEN v[i] ELSE d[i - Len(v)]
      BY <2>2, <3>1, ConcatProperties
    <3>4. Len(s) = 4 /\ \A i \in 1..4 : s[i] = IF i <= 3 THEN v[i] ELSE d[i - 3]
      BY ONLY <3>2, <3>3
    <3>5. DOMAIN s = 1..Len(s)
      BY ONLY <3>3
    <3> QED  BY ONLY <3>4, <3>5
  <2>4. \A i, j \in DOMAIN s : s[i] = s[j] => i = j
    <3>1. \A x \in {v[1], v[2], v[3]}, y \in {d[1]} : x # y
      BY <1>1, <1>2, <2>1 DEF V, E
    <3>2. v[1] # d[1] /\ v[2] # d[1] /\ v[3] # d[1]
      BY <3>1
    <3> QED  BY <1>2, <2>3, <3>2
  <2>5. ToSet(s) = tasks /\ s \in Seq(ToSet(s))
    <3>0. v \in Seq(ToSet(v)) /\ d \in Seq(ToSet(d)) /\ ToSet(v) = V /\ ToSet(d) = E
      BY Listing DEF IsListing, V, E
    <3>1. s \in Seq(ToSet(s)) /\ ToSet(s) = ToSet(v) \cup ToSet(d)
      BY <2>2, <3>0, ConcatSet
    <3> QED  BY <1>1, <3>0, <3>1 DEF V, E
  <2> QED  BY <1>5, <2>3, <2>4, <2>5, InjectiveIsListing DEF s
<1> QED  BY <1>3, <1>4, <1>5, MealsOfADay

-----------------------------------------------------------------------------
(* The best order of the tasks. *)

\* Two tuples one after the other are a tuple.
LEMMA JoinedTuple ==
  ASSUME NEW m \in Nat, NEW a \in [1..m -> Int], NEW n \in Nat, NEW b \in [1..n -> Int]
  PROVE  a \o b \in [1..(m + n) -> Int]
<1> DEFINE u == a \o b
<1>1. a \in Seq(Int) /\ Len(a) = m /\ b \in Seq(Int) /\ Len(b) = n
  BY FunctionIsSeq
<1>2. u \in Seq(Int) /\ Len(u) = Len(a) + Len(b)
  BY <1>1, ConcatProperties
<1> HIDE DEF u
<1>3. Len(u) = m + n
  BY <1>1, <1>2
<1>4. u \in [1..Len(u) -> Int]
  BY <1>2, SeqIsFunction
<1> QED  BY <1>3, <1>4 DEF u

\* Of finitely many members that are numbered by tuples one has the least.
LEMMA LeastMember ==
  ASSUME NEW S, IsFiniteSet(S), S # {}, NEW key, NEW K,
         \E n \in Nat : \A x \in S : key[x] \in [1..n -> Int],
         \A x \in S : key[x] \in K, \A k \in K : \E x \in S : key[x] = k
  PROVE  \E x \in S : key[x] = Least(K)
<1>0. K = {key[x] : x \in S}
  OBVIOUS
<1>1. IsFiniteSet(K)
  BY <1>0, FiniteImage
<1>2. PICK n \in Nat : K \in SUBSET [1..n -> Int] /\ K # {}
  OBVIOUS
<1>3. Least(K) \in K
  BY <1>1, <1>2, LeastTuple
<1> QED  BY <1>3

\* Distances are numbers, and so are the ways of a plan.
LEMMA WaysAreNumbers ==
  ASSUME NEW S, \A p \in S : p.at \in Int, NEW s \in Seq(S), NEW trip
  PROVE  MealDistance(s, trip) \in Int /\ WalkLength(s) \in Int
<1>0. DOMAIN s = 1..Len(s) /\ Len(s) \in Nat /\ \A i \in DOMAIN s : s[i] \in S
  OBVIOUS
<1>1. \A p, q \in S : Distance(p, q) \in Int
  BY DEF Distance
<1>2. MealDistance(s, trip) \in Int
  <2>1. CASE MealKinds(trip) = <<"LUNCH", "DINNER">> /\ Len(s) >= 5
    <3>1. s[2] \in S /\ s[3] \in S /\ s[4] \in S /\ s[5] \in S
      BY <1>0, <2>1
    <3>2. Distance(s[3], s[2]) \in Int /\ Distance(s[5], s[4]) \in Int
      BY <1>1, <3>1
    <3>3. MealDistance(s, trip) = Distance(s[3], s[2]) + Distance(s[5], s[4])
      BY <2>1 DEF MealDistance
    <3> QED  BY <3>2, <3>3
  <2>2. CASE MealKinds(trip) = <<"LUNCH">> /\ Len(s) >= 4
    <3>1. s[2] \in S /\ s[3] \in S
      BY <1>0, <2>2
    <3>3. MealDistance(s, trip) = Distance(s[3], s[2])
      BY <2>2 DEF MealDistance
    <3> QED  BY <1>1, <3>1, <3>3
  <2>3. CASE MealKinds(trip) = <<"DINNER">> /\ Len(s) >= 4
    <3>1. s[3] \in S /\ s[4] \in S
      BY <1>0, <2>3
    <3>2. <<"DINNER">> # <<"LUNCH">> /\ <<"DINNER">> # <<"LUNCH", "DINNER">>
      OBVIOUS
    <3>3. MealDistance(s, trip) = Distance(s[4], s[3])
      BY <2>3, <3>2 DEF MealDistance
    <3> QED  BY <1>1, <3>1, <3>3
  <2>4. CASE /\ ~(MealKinds(trip) = <<"LUNCH", "DINNER">> /\ Len(s) >= 5)
             /\ ~(MealKinds(trip) = <<"LUNCH">> /\ Len(s) >= 4)
             /\ ~(MealKinds(trip) = <<"DINNER">> /\ Len(s) >= 4)
    <3>1. MealDistance(s, trip) = 0
      BY <2>4 DEF MealDistance
    <3> QED  BY <3>1
  <2> QED  BY <2>1, <2>2, <2>3, <2>4
<1>3. WalkLength(s) \in Int
  <2> DEFINE ways == [i \in 1..(Len(s) - 1) |-> Distance(s[i], s[i + 1])]
  <2>1. DOMAIN ways \in SUBSET Int /\ IsFiniteSet(DOMAIN ways)
    <3>1. DOMAIN ways = 1..(Len(s) - 1) /\ Len(s) - 1 \in Int
      BY <1>0
    <3>2. IsFiniteSet(1..(Len(s) - 1))
      BY <3>1, FS_Interval
    <3> QED  BY <3>1, <3>2
  <2>2. \A i \in DOMAIN ways : ways[i] \in Int
    <3> SUFFICES ASSUME NEW i \in 1..(Len(s) - 1)  PROVE Distance(s[i], s[i + 1]) \in Int
      OBVIOUS
    <3>1. s[i] \in S /\ s[i + 1] \in S
      BY <1>0
    <3> QED  BY <1>1, <3>1
  <2>3. Total(ways) \in Int
    <3> HIDE DEF ways
    <3> QED  BY <2>1, <2>2, SequenceSum
  <2> QED  BY <2>3 DEF WalkLength, Total
<1> QED  BY <1>2, <1>3

\* The order of a set of tasks on a day with meals has each of them once.
LEMMA OrderListsTasks ==
  ASSUME NEW trip, Meals(trip) > 0, NEW tasks, ArePlaces(tasks, trip),
         Cardinality(VisitsOf(tasks)) = 3, Cardinality(DiningOf(tasks)) = Meals(trip)
  PROVE  LET s == OrderForMeals(tasks, trip)
         IN  IsListing(s, tasks) /\ Len(s) = 3 + Meals(trip)
<1> DEFINE A == SetToSeqs(VisitsOf(tasks))
           B == SetToSeqs(DiningOf(tasks))
           orders == {Interleaved(v, d, trip) : v \in A, d \in B}
           key(s) == <<MealDistance(s, trip), WalkLength(s)>> \o Ids(s)
           keyOf == [s \in orders |-> key(s)]
           n == 3 + Meals(trip)
<1>0. n \in Nat
  BY MealsOfADay
<1>1. IsFiniteSet(VisitsOf(tasks)) /\ IsFiniteSet(DiningOf(tasks))
  <2>1. VisitsOf(tasks) \in SUBSET tasks /\ DiningOf(tasks) \in SUBSET tasks
    BY DEF VisitsOf, DiningOf
  <2> QED  BY <2>1, SomePlaces
<1>2. /\ A # {} /\ IsFiniteSet(A) /\ \A v \in A : IsListing(v, VisitsOf(tasks))
      /\ B # {} /\ IsFiniteSet(B) /\ \A d \in B : IsListing(d, DiningOf(tasks))
  BY <1>1, OrdersOfSet
<1> HIDE DEF A, B
<1>3. orders # {} /\ IsFiniteSet(orders)
  <2> DEFINE h == [p \in A \X B |-> Interleaved(p[1], p[2], trip)]
  <2>1. orders = {h[p] : p \in A \X B}
    <3>1. ASSUME NEW p \in A \X B  PROVE h[p] \in orders
      OBVIOUS
    <3>2. ASSUME NEW o \in orders  PROVE \E p \in A \X B : o = h[p]
      <4>1. PICK v \in A, d \in B : o = Interleaved(v, d, trip)
        OBVIOUS
      <4>2. <<v, d>> \in A \X B /\ h[<<v, d>>] = Interleaved(v, d, trip)
        OBVIOUS
      <4> QED  BY <4>1, <4>2
    <3> HIDE DEF h, orders
    <3> QED  BY <3>1, <3>2
  <2>2. IsFiniteSet(A \X B) /\ A \X B # {}
    <3>1. IsFiniteSet(A \X B)
      BY <1>2, FS_Product
    <3>2. PICK v \in A, d \in B : TRUE
      BY <1>2
    <3>3. <<v, d>> \in A \X B
      OBVIOUS
    <3> QED  BY <3>1, <3>3
  <2> HIDE DEF h, orders
  <2> QED  BY <2>1, <2>2, FiniteImage
<1>4. ASSUME NEW s \in orders  PROVE IsListing(s, tasks) /\ Len(s) = n
  <2>1. PICK v \in A, d \in B : s = Interleaved(v, d, trip)
    OBVIOUS
  <2> HIDE DEF orders
  <2> QED  BY <1>2, <2>1, MealsAreInserted
<1> HIDE DEF orders
<1>5. ASSUME NEW s \in orders  PROVE keyOf[s] \in [1..(2 + n) -> Int]
  <2>1. s \in Seq(tasks) /\ Len(s) = n /\ DOMAIN s = 1..n /\ \A i \in DOMAIN s : s[i] \in tasks
    BY <1>4, Listing DEF IsListing
  <2>2. MealDistance(s, trip) \in Int /\ WalkLength(s) \in Int
    <3>1. \A p \in tasks : p.at \in Int
      BY DEF ArePlaces, IsPlace
    <3> QED  BY <2>1, <3>1, WaysAreNumbers
  <2>3. Ids(s) \in [1..n -> Int]
    BY <2>1 DEF Ids, ArePlaces, IsPlace
  <2> DEFINE a == <<MealDistance(s, trip), WalkLength(s)>>
  <2>4. a \in [1..2 -> Int]
    BY <2>2
  <2> HIDE DEF a, n
  <2>5. a \o Ids(s) \in [1..(2 + n) -> Int]
    BY <1>0, <2>3, <2>4, JoinedTuple
  <2> QED  BY <2>5 DEF a
<1> DEFINE K == {key(o) : o \in orders}
<1>6. (\A o \in orders : keyOf[o] \in K) /\ \A k \in K : \E o \in orders : keyOf[o] = k
  OBVIOUS
<1>7. \E s \in orders : keyOf[s] = Least(K)
  <2> DEFINE m == 2 + n
  <2>1. m \in Nat
    BY <1>0
  <2>2. \E k \in Nat : \A s \in orders : keyOf[s] \in [1..k -> Int]
    BY <1>5, <2>1
  <2>3. \A s \in orders : keyOf[s] \in K
    BY <1>6
  <2>4. \A k \in K : \E s \in orders : keyOf[s] = k
    BY <1>6
  <2> HIDE DEF keyOf, m, K
  <2> QED  BY ONLY <1>3, <2>2, <2>3, <2>4, LeastMember
<1>8. \E s \in orders : key(s) = Least(K)
  <2> HIDE DEF key, K
  <2> QED  BY <1>7
<1>9. OrderForMeals(tasks, trip) = CHOOSE s \in orders : key(s) = Least(K)
  BY DEF OrderForMeals, orders, A, B
<1>10. OrderForMeals(tasks, trip) \in orders
  <2> HIDE DEF key, K
  <2> QED  BY <1>8, <1>9
<1> QED  BY <1>4, <1>10

-----------------------------------------------------------------------------
(* What plans and possible plans are made of. *)

\* The sum of the ways, and of the prices, as the sum of a function.
LEMMA WaysAddUp ==
  ASSUME NEW S, NEW A
  PROVE  MapThenSumSet(LAMBDA p : Nearest(p, A), S) = Added([p \in S |-> Nearest(p, A)], S)
<1> DEFINE v == [p \in S |-> Nearest(p, A)]
           Of(g, s) == IF s = {} THEN 0
                       ELSE Nearest(CHOOSE x \in s : TRUE, A) + g[s \ {CHOOSE x \in s : TRUE}]
           By(g, s) == IF s = {} THEN 0
                       ELSE v[CHOOSE x \in s : TRUE] + g[s \ {CHOOSE x \in s : TRUE}]
           F(g) == [s \in SUBSET S |-> Of(g, s)]
           G(g) == [s \in SUBSET S |-> By(g, s)]
<1>1. ASSUME NEW g, NEW s \in SUBSET S  PROVE Of(g, s) = By(g, s)
  <2>1. CASE s = {}
    BY <2>1
  <2>2. CASE s # {}
    <3>1. (CHOOSE x \in s : TRUE) \in S
      BY <2>2
    <3>2. v[CHOOSE x \in s : TRUE] = Nearest(CHOOSE x \in s : TRUE, A)
      BY <3>1
    <3> HIDE DEF v
    <3> QED  BY <2>2, <3>2
  <2> QED  BY <2>1, <2>2
<1>2. ASSUME NEW g  PROVE F(g) = G(g)
  <2> HIDE DEF Of, By
  <2> QED  BY <1>1
<1>3. (CHOOSE g : g = F(g)) = (CHOOSE g : g = G(g))
  <2> HIDE DEF F, G
  <2> QED  BY <1>2
<1>4. MapThenSumSet(LAMBDA p : Nearest(p, A), S) = (CHOOSE g : g = F(g))[S]
  BY DEF MapThenSumSet, MapThenFoldSet
<1>5. Added(v, S) = (CHOOSE g : g = G(g))[S]
  BY DEF Added, MapThenSumSet, MapThenFoldSet
<1> QED  BY <1>3, <1>4, <1>5

\* The same of the prices.
LEMMA PricesAddUp ==
  ASSUME NEW S
  PROVE  MapThenSumSet(LAMBDA p : IF p.price = None THEN 0 ELSE p.price, S)
            = Added([p \in S |-> IF p.price = None THEN 0 ELSE p.price], S)
<1> DEFINE price(p) == IF p.price = None THEN 0 ELSE p.price
           v == [p \in S |-> price(p)]
           Of(g, s) == IF s = {} THEN 0
                       ELSE price(CHOOSE x \in s : TRUE) + g[s \ {CHOOSE x \in s : TRUE}]
           By(g, s) == IF s = {} THEN 0
                       ELSE v[CHOOSE x \in s : TRUE] + g[s \ {CHOOSE x \in s : TRUE}]
           F(g) == [s \in SUBSET S |-> Of(g, s)]
           G(g) == [s \in SUBSET S |-> By(g, s)]
<1>1. ASSUME NEW g, NEW s \in SUBSET S  PROVE Of(g, s) = By(g, s)
  <2>1. CASE s = {}
    BY <2>1
  <2>2. CASE s # {}
    <3>1. (CHOOSE x \in s : TRUE) \in S
      BY <2>2
    <3>2. v[CHOOSE x \in s : TRUE] = price(CHOOSE x \in s : TRUE)
      BY <3>1
    <3> HIDE DEF v, price
    <3> QED  BY <2>2, <3>2
  <2> QED  BY <2>1, <2>2
<1>2. ASSUME NEW g  PROVE F(g) = G(g)
  <2> HIDE DEF Of, By
  <2> QED  BY <1>1
<1>3. (CHOOSE g : g = F(g)) = (CHOOSE g : g = G(g))
  <2> HIDE DEF F, G
  <2> QED  BY <1>2
<1>4. MapThenSumSet(LAMBDA p : IF p.price = None THEN 0 ELSE p.price, S)
        = (CHOOSE g : g = F(g))[S]
  BY DEF MapThenSumSet, MapThenFoldSet
<1>5. Added(v, S) = (CHOOSE g : g = G(g))[S]
  BY DEF Added, MapThenSumSet, MapThenFoldSet
<1> QED  BY <1>3, <1>4, <1>5

\* What a set of tasks may be,
LEMMA PossiblePlaces ==
  ASSUME NEW trip, NEW from, NEW T, IsListing(from, T), NEW c,
         NEW tasks \in PossibleSets(from, c, trip)
  PROVE  /\ tasks \subseteq T /\ ToSet(RequiredCandidates(c, trip)) \subseteq tasks
         /\ Meals(trip) > 0 => Cardinality(DiningOf(tasks)) = Meals(trip)
<1>1. ToSet(from) = T
  BY DEF IsListing
<1> QED  BY <1>1 DEF PossibleSets, kSubset

\* how many there are,
LEMMA TasksAreSoMany ==
  ASSUME NEW trip, NEW from, NEW T, IsListing(from, T), NEW c,
         NEW tasks \in PossibleSets(from, c, trip)
  PROVE  Cardinality(tasks) = Min({3 + Meals(trip), Len(from)})
<1>1. Cardinality(tasks) = Min({MaxVisits + Meals(trip), Len(from)})
  BY DEF PossibleSets, kSubset
<1> QED  BY <1>1 DEF MaxVisits

\* and, with a meal to be planned, how many of them are visits.
LEMMA VisitsOfTasks ==
  ASSUME NEW trip, Meals(trip) > 0, NEW from, NEW T, IsListing(from, T),
         Len(from) >= MinCandidates, NEW c, NEW tasks \in PossibleSets(from, c, trip)
  PROVE  Cardinality(VisitsOf(tasks)) = 3
<1>0. Meals(trip) \in {1, 2} /\ Len(from) \in Nat /\ Len(from) >= 6
  BY MealsOfADay, Listing DEF MinCandidates
<1>1. Min({3 + Meals(trip), Len(from)}) = 3 + Meals(trip)
  <2>1. 3 + Meals(trip) \in Int /\ Len(from) \in Int /\ 3 + Meals(trip) <= Len(from)
    BY <1>0
  <2> QED  BY <2>1, MinOfTwo
<1> DEFINE V == VisitsOf(tasks)
           D == DiningOf(tasks)
<1>2. IsFiniteSet(tasks) /\ V \in SUBSET tasks /\ D \in SUBSET tasks /\ V \cup D = tasks
      /\ V \cap D = {}
  <2>1. tasks \subseteq T
    BY PossiblePlaces
  <2>2. IsFiniteSet(tasks)
    BY <2>1, FS_Subset DEF IsListing
  <2> QED  BY <2>2 DEF VisitsOf, DiningOf
<1>3. Cardinality(D) = Meals(trip)
  BY PossiblePlaces
<1>4. Cardinality(tasks) = 3 + Meals(trip)
  BY <1>1, TasksAreSoMany
<1> HIDE DEF V, D
<1>5. IsFiniteSet(V) /\ IsFiniteSet(D) /\ Cardinality({}) = 0
  BY <1>2, FS_Subset, FS_EmptySet
<1>6. Cardinality(tasks) = Cardinality(V) + Cardinality(D) - Cardinality(V \cap D)
  BY <1>2, <1>5, FS_Union
<1>7. Cardinality(V \cap D) = 0
  BY <1>2, <1>5
<1>8. Cardinality(V) \in Nat
  BY <1>5, FS_CardinalityType
<1>9. Cardinality(V) = 3
  BY ONLY <1>0, <1>3, <1>4, <1>6, <1>7, <1>8
<1> QED  BY <1>9 DEF V

\* How well a set of tasks serves each member is a number.
LEMMA ScoreIsNumber ==
  ASSUME NEW m, IsTraveller(m), NEW tasks
  PROVE  Score(m, tasks) \in Int
<1> DEFINE unmet == Cardinality(m.wishes \ UNION {p.wishes : p \in tasks})
           base == Max({0, 100 - 20 * unmet})
<1>1. unmet \in Nat
  <2>1. m.wishes \ UNION {p.wishes : p \in tasks} \in SUBSET m.wishes
    OBVIOUS
  <2>2. IsFiniteSet(m.wishes)
    BY DEF IsTraveller
  <2> QED  BY <2>1, <2>2, FS_Subset, FS_CardinalityType
<1> HIDE DEF unmet
<1>2. base \in Int
  <2>1. 100 - 20 * unmet \in Int
    BY <1>1
  <2> QED  BY <2>1, MaxOfTwo
<1>3. Score(m, tasks) = base \/ Score(m, tasks) = Max({0, base - 60})
  BY DEF Score, unmet
<1> HIDE DEF base
<1>4. Max({0, base - 60}) \in Int
  <2>1. base - 60 \in Int
    BY <1>2
  <2> QED  BY <2>1, MaxOfTwo
<1> QED  BY <1>2, <1>3, <1>4

\* The least score and the sum of the scores are numbers.
LEMMA ScoresAreNumbers ==
  ASSUME NEW trip, IsTrip(trip), NEW tasks
  PROVE  Min(ToSet(Scores(trip, tasks))) \in Int /\ Total(Scores(trip, tasks)) \in Int
<1> DEFINE scores == Scores(trip, tasks)
<1>1. DOMAIN scores = DOMAIN trip.members /\ \A i \in DOMAIN scores : scores[i] \in Int
  BY ScoreIsNumber DEF Scores, IsTrip, ToSet
<1>2. DOMAIN scores \in SUBSET Int /\ IsFiniteSet(DOMAIN scores) /\ DOMAIN scores # {}
  <2>1. DOMAIN trip.members \in SUBSET Nat /\ IsFiniteSet(DOMAIN trip.members)
    BY SequencesAreFinite DEF IsTrip
  <2>2. 1 \in DOMAIN trip.members
    BY DEF IsTrip
  <2> HIDE DEF scores
  <2> QED  BY <1>1, <2>1, <2>2
<1> HIDE DEF scores
<1>3. Total(scores) \in Int
  BY <1>1, <1>2, SequenceSum
<1>4. Min(ToSet(scores)) \in Int
  <2>1. IsFiniteSet({scores[i] : i \in DOMAIN scores})
    BY <1>2, FiniteImage
  <2>2. ToSet(scores) \in SUBSET Int /\ ToSet(scores) # {} /\ IsFiniteSet(ToSet(scores))
    BY <1>1, <1>2, <2>1 DEF ToSet
  <2> QED  BY <2>2, MinOfSet
<1> QED  BY <1>3, <1>4 DEF scores

-----------------------------------------------------------------------------
(* The fairest plan of a day. *)

\* How far the meals are is a number.
LEMMA ProximityIsNumber ==
  ASSUME NEW trip, NEW tasks, ArePlaces(tasks, trip),
         Meals(trip) > 0 => /\ Cardinality(VisitsOf(tasks)) = 3
                            /\ Cardinality(DiningOf(tasks)) = Meals(trip)
  PROVE  MealProximity(tasks, trip) \in Int
<1>0. \A p \in tasks : p.at \in Int
  BY DEF ArePlaces, IsPlace
<1>1. CASE Meals(trip) > 0
  <2> DEFINE s == OrderForMeals(tasks, trip)
  <2>1. IsListing(s, tasks)
    BY <1>1, OrderListsTasks
  <2> HIDE DEF s
  <2>2. s \in Seq(tasks)
    BY <2>1 DEF IsListing
  <2>3. MealDistance(s, trip) \in Int
    BY <1>0, <2>2, WaysAreNumbers
  <2> QED  BY <1>1, <2>3 DEF MealProximity, s
<1>2. CASE ~(Meals(trip) > 0)
  <2> DEFINE D == DiningOf(tasks)
             A == VisitsOf(tasks)
             v == [p \in D |-> Nearest(p, A)]
  <2>1. D \in SUBSET tasks /\ A \in SUBSET tasks
    BY DEF VisitsOf, DiningOf
  <2>2. IsFiniteSet(D) /\ IsFiniteSet(A)
    BY <2>1, SomePlaces
  <2> HIDE DEF D, A
  <2>3. \A p \in D : Nearest(p, A) \in Int
    BY <1>0, <2>1, <2>2, NearestIsNumber
  <2>4. AreIn(v, D, Int)
    BY <2>3 DEF AreIn
  <2>5. MealProximity(tasks, trip) = Added(v, D)
    BY <1>2, WaysAddUp DEF MealProximity, A, D
  <2> HIDE DEF v
  <2>6. Added(v, D) \in Int
    BY <2>2, <2>4, SetSum
  <2> QED  BY <2>5, <2>6
<1> QED  BY <1>1, <1>2

\* As many identities as places.
LEMMA IdsAreCounted ==
  ASSUME NEW trip, NEW tasks, ArePlaces(tasks, trip)
  PROVE  Ascending({p.id : p \in tasks}) \in [1..Cardinality(tasks) -> Int]
<1> DEFINE ids == {p.id : p \in tasks}
           h == [p \in tasks |-> p.id]
<1>1. ids \in SUBSET Int /\ IsFiniteSet(tasks)
  BY DEF ArePlaces, IsPlace
<1>2. h \in Injection(tasks, ids) /\ h \in Surjection(tasks, ids)
  <2>1. h \in [tasks -> ids] /\ \A p, q \in tasks : h[p] = h[q] => p = q
    BY DEF ArePlaces
  <2>2. \A i \in ids : \E p \in tasks : h[p] = i
    OBVIOUS
  <2> QED  BY <2>1, <2>2 DEF Injection, IsInjective, Surjection
<1>3. IsFiniteSet(ids) /\ Cardinality(ids) = Cardinality(tasks)
  <2> HIDE DEF ids, h
  <2> QED  BY <1>1, <1>2, FS_Surjection
<1> HIDE DEF ids
<1>4. IsListing(Ascending(ids), ids)
  BY <1>1, <1>3, AscendingIsListing
<1> DEFINE l == Ascending(ids)
<1>5. l \in Seq(ids) /\ Len(l) = Cardinality(ids)
  BY <1>4 DEF IsListing
<1> HIDE DEF l
<1>6. l \in [1..Len(l) -> ids]
  BY <1>5, SeqIsFunction
<1>7. l \in [1..Cardinality(tasks) -> Int]
  BY <1>1, <1>3, <1>5, <1>6
<1> QED  BY <1>7 DEF l, ids

\* The key of a set of tasks is a tuple of numbers.
LEMMA FairnessIsTuple ==
  ASSUME NEW trip, IsTrip(trip), NEW tasks, ArePlaces(tasks, trip),
         Meals(trip) > 0 => /\ Cardinality(VisitsOf(tasks)) = 3
                            /\ Cardinality(DiningOf(tasks)) = Meals(trip)
  PROVE  FairnessKey(tasks, trip) \in [1..(4 + Cardinality(tasks)) -> Int]
<1> DEFINE price == [p \in tasks |-> IF p.price = None THEN 0 ELSE p.price]
           least == Min(ToSet(Scores(trip, tasks)))
           sum == Total(Scores(trip, tasks))
           ways == MealProximity(tasks, trip)
           cost == Added(price, tasks)
           a == <<-least, -sum, ways, cost>>
           b == Ascending({p.id : p \in tasks})
<1>1. least \in Int /\ sum \in Int /\ ways \in Int
  BY ScoresAreNumbers, ProximityIsNumber
<1>2. cost \in Int
  <2>1. AreIn(price, tasks, Int)
    BY DEF AreIn, ArePlaces, IsPlace
  <2>2. IsFiniteSet(tasks)
    BY DEF ArePlaces
  <2> HIDE DEF price
  <2> QED  BY <2>1, <2>2, SetSum
<1>3. FairnessKey(tasks, trip) = a \o b
  BY PricesAddUp DEF FairnessKey, Total
<1> HIDE DEF least, sum, ways, cost
<1>4. a \in [1..4 -> Int]
  <2>1. -least \in Int /\ -sum \in Int
    BY <1>1
  <2> QED  BY <1>1, <1>2, <2>1
<1>5. b \in [1..Cardinality(tasks) -> Int] /\ Cardinality(tasks) \in Nat
  BY IdsAreCounted, FS_CardinalityType DEF ArePlaces
<1> HIDE DEF a, b
<1>6. a \o b \in [1..(4 + Cardinality(tasks)) -> Int]
  BY <1>4, <1>5, JoinedTuple
<1> QED  BY <1>3, <1>6

\* The set that is chosen is one of the possible sets.
LEMMA FairestIsPossible ==
  ASSUME NEW trip, IsTrip(trip), NEW from, NEW T, IsListing(from, T), ArePlaces(T, trip),
         NEW c, Meals(trip) > 0 => Len(from) >= MinCandidates,
         NEW sets, sets = PossibleSets(from, c, trip), sets # {}
  PROVE  Fairest([s \in sets |-> FairnessKey(s, trip)]) \in sets
<1> DEFINE key == [s \in sets |-> FairnessKey(s, trip)]
           K == {key[s] : s \in DOMAIN key}
           k == Min({3 + Meals(trip), Len(from)})
           n == 4 + k
<1>0. IsListing(from, T) /\ IsFiniteSet(T) /\ ToSet(from) = T
  BY DEF IsListing
<1>1. IsFiniteSet(sets)
  <2>1. sets \in SUBSET SUBSET T
    <3>1. ASSUME NEW s \in sets  PROVE s \subseteq T
      BY PossiblePlaces
    <3> QED  BY <3>1
  <2>2. IsFiniteSet(SUBSET T)
    BY <1>0, FS_SUBSET
  <2> QED  BY <2>1, <2>2, FS_Subset
<1>2. k \in Nat
  <2>1. 3 + Meals(trip) \in Nat /\ Len(from) \in Nat
    BY MealsOfADay, Listing
  <2>2. k \in {3 + Meals(trip), Len(from)}
    <3>1. 3 + Meals(trip) \in Int /\ Len(from) \in Int
      BY <2>1
    <3> QED  BY <3>1, MinOfTwo
  <2> QED  BY <2>1, <2>2
<1>3. ASSUME NEW s \in sets  PROVE key[s] \in [1..n -> Int]
  <2>1. /\ s \subseteq T /\ Cardinality(s) = k
        /\ Meals(trip) > 0 => /\ Cardinality(VisitsOf(s)) = 3
                              /\ Cardinality(DiningOf(s)) = Meals(trip)
    <3>1. s \in PossibleSets(from, c, trip)
      OBVIOUS
    <3>2. Meals(trip) > 0 => Len(from) >= MinCandidates
      OBVIOUS
    <3>3. s \subseteq T /\ (Meals(trip) > 0 => Cardinality(DiningOf(s)) = Meals(trip))
      BY <3>1, PossiblePlaces
    <3>4. Cardinality(s) = k
      BY <3>1, TasksAreSoMany
    <3>5. Meals(trip) > 0 => Cardinality(VisitsOf(s)) = 3
      BY <3>1, <3>2, VisitsOfTasks
    <3> QED  BY <3>3, <3>4, <3>5
  <2>2. ArePlaces(s, trip)
    BY <2>1, SomePlaces
  <2> HIDE DEF k
  <2>3. FairnessKey(s, trip) \in [1..(4 + Cardinality(s)) -> Int]
    BY <2>1, <2>2, FairnessIsTuple
  <2>4. FairnessKey(s, trip) \in [1..n -> Int]
    BY <2>1, <2>3
  <2> QED  BY <2>4
<1>4. \E m \in Nat : \A s \in sets : key[s] \in [1..m -> Int]
  <2>1. n \in Nat
    BY <1>2
  <2> HIDE DEF n, key
  <2> QED  BY <1>3, <2>1
<1>5. DOMAIN key = sets
  OBVIOUS
<1>6. (\A s \in sets : key[s] \in K) /\ \A x \in K : \E s \in sets : key[s] = x
  OBVIOUS
<1>7. Fairest(key) = CHOOSE s \in sets : key[s] = Least(K)
  BY <1>5 DEF Fairest
<1> HIDE DEF key, K, n, k
<1>8. \E s \in sets : key[s] = Least(K)
  BY <1>1, <1>4, <1>6, LeastMember
<1>9. Fairest(key) \in sets
  BY <1>7, <1>8
<1> QED  BY <1>9 DEF key

\* A plan lists a possible set of tasks.
LEMMA PlanListsTasks ==
  ASSUME NEW trip, IsTrip(trip), NEW from, NEW T, IsListing(from, T), ArePlaces(T, trip),
         NEW c, Meals(trip) > 0 => Len(from) >= MinCandidates,
         ChooseFrom(from, c, trip).code = "OK"
  PROVE  \E tasks \in PossibleSets(from, c, trip) :
            IsListing(ChooseFrom(from, c, trip).value, tasks)
<1> DEFINE sets == PossibleSets(from, c, trip)
           tasks == Fairest([s \in sets |-> FairnessKey(s, trip)])
<1>1. sets # {} /\ ChooseFrom(from, c, trip).value = InOrder(tasks, from, trip)
  BY DEF ChooseFrom, Refused, Accepted
<1>2. tasks \in sets
  BY <1>1, FairestIsPossible
<1> HIDE DEF tasks
<1>3. /\ tasks \subseteq T
      /\ Meals(trip) > 0 => /\ Cardinality(VisitsOf(tasks)) = 3
                            /\ Cardinality(DiningOf(tasks)) = Meals(trip)
  <2>1. ASSUME NEW t \in sets
        PROVE  /\ t \subseteq T
               /\ Meals(trip) > 0 => /\ Cardinality(VisitsOf(t)) = 3
                                     /\ Cardinality(DiningOf(t)) = Meals(trip)
    <3>1. t \in PossibleSets(from, c, trip)
      OBVIOUS
    <3> HIDE DEF sets
    <3>2. t \subseteq T
      BY <3>1, PossiblePlaces
    <3>3. Meals(trip) > 0 => Cardinality(DiningOf(t)) = Meals(trip)
      BY <3>1, PossiblePlaces
    <3>4. Meals(trip) > 0 => Cardinality(VisitsOf(t)) = 3
      BY <3>1, VisitsOfTasks
    <3> QED  BY <3>2, <3>3, <3>4
  <2> HIDE DEF sets
  <2> QED  BY <1>2, <2>1
<1>4. IsListing(InOrder(tasks, from, trip), tasks)
  <2>1. CASE Meals(trip) > 0
    <3>1. ArePlaces(tasks, trip)
      BY <1>3, SomePlaces
    <3>2. IsListing(OrderForMeals(tasks, trip), tasks)
      BY <1>3, <2>1, <3>1, OrderListsTasks
    <3> QED  BY <2>1, <3>2 DEF InOrder
  <2>2. CASE ~(Meals(trip) > 0)
    <3>1. IsListing(Only(from, tasks), T \cap tasks) /\ T \cap tasks = tasks
      BY <1>3, OnlyIsListing
    <3> QED  BY <2>2, <3>1 DEF InOrder
  <2> QED  BY <2>1, <2>2
<1> QED  BY <1>1, <1>2, <1>4

-----------------------------------------------------------------------------
(* The hard limits. *)

\* What the trip may cost is no more than the group or a member can afford.
LEMMA BudgetIsLeast ==
  ASSUME NEW trip, IsTrip(trip)
  PROVE  /\ BudgetOf(trip) \in Int /\ BudgetOf(trip) <= trip.total
         /\ \A m \in ToSet(trip.members) : BudgetOf(trip) <= m.cap
<1> DEFINE h == [m \in ToSet(trip.members) |-> m.cap]
           caps == {m.cap : m \in ToSet(trip.members)}
           all == {trip.total} \cup caps
<1>1. IsFiniteSet({h[m] : m \in ToSet(trip.members)})
  <2>1. IsFiniteSet(ToSet(trip.members))
    BY SequencesAreFinite DEF IsTrip
  <2> HIDE DEF h
  <2> QED  BY <2>1, FiniteImage
<1>2. {h[m] : m \in ToSet(trip.members)} = caps
  OBVIOUS
<1>3. IsFiniteSet(all) /\ all # {}
  <2>1. IsFiniteSet({trip.total}) /\ IsFiniteSet(caps)
    BY <1>1, <1>2, FS_Singleton
  <2> HIDE DEF caps
  <2> QED  BY <2>1, FS_Union
<1>4. all \in SUBSET Int
  BY DEF IsTrip, IsTraveller
<1>5. Min(all) \in all /\ \A x \in all : Min(all) <= x
  <2> HIDE DEF all
  <2> QED  BY <1>3, <1>4, MinOfSet
<1>6. trip.total \in all /\ \A m \in ToSet(trip.members) : m.cap \in all
  OBVIOUS
<1>7. BudgetOf(trip) = Min(all)
  BY DEF BudgetOf
<1> HIDE DEF all
<1> QED  BY <1>4, <1>5, <1>6, <1>7

\* What the filter keeps each member could agree to.
LEMMA AdmissibleSuitsEveryone ==
  ASSUME NEW trip, IsTrip(trip), Len(Avoided(trip)) <= MaxAvoided,
         NEW p, IsPlace(p, trip), Admissible(p, trip), NEW m \in ToSet(trip.members)
  PROVE  /\ p.inCity /\ ~IsLodging(p)
         /\ p.price # None => p.price <= m.cap /\ p.price <= trip.total
         /\ \A l \in ToSet(m.avoid) : ~Matches(p, l)
<1>1. p.inCity /\ ~IsLodging(p)
  BY DEF Admissible
<1>2. ASSUME p.price # None  PROVE p.price <= m.cap /\ p.price <= trip.total
  <2>1. p.price <= BudgetOf(trip) /\ p.price \in Int /\ m.cap \in Int /\ trip.total \in Int
    BY <1>2 DEF Admissible, IsPlace, IsTrip, IsTraveller
  <2>2. BudgetOf(trip) \in Int /\ BudgetOf(trip) <= trip.total /\ BudgetOf(trip) <= m.cap
    BY BudgetIsLeast
  <2> QED  BY ONLY <2>1, <2>2
<1>3. ASSUME NEW l \in ToSet(m.avoid)  PROVE ~Matches(p, l)
  <2>1. IsListing(Avoided(trip), UNION {ToSet(k.avoid) : k \in ToSet(trip.members)})
    BY LabelsOfMembers
  <2>2. l \in ToSet(Avoided(trip))
    BY <2>1 DEF IsListing
  <2>3. First(MaxAvoided, Avoided(trip)) = Avoided(trip)
    <3>1. Avoided(trip) \in Seq(ToSet(Avoided(trip)))
      BY <2>1, Listing
    <3>2. MaxAvoided \in Nat
      BY DEF MaxAvoided
    <3> QED  BY <3>1, <3>2, FirstOfSeq
  <2> QED  BY <2>2, <2>3 DEF Admissible
<1> QED  BY <1>1, <1>2, <1>3

\* What a plan is made of.
LEMMA PlanOfTasks ==
  ASSUME NEW trip, IsTrip(trip), NEW found, AreFound(found, trip),
         NEW ranking, IsRanking(ranking), Len(Avoided(trip)) <= MaxAvoided,
         NEW plan, plan = Recommend(found, ranking, trip), plan.code = "OK"
  PROVE  \E tasks : /\ IsListing(plan.value, tasks) /\ tasks \subseteq Kept(found, trip)
                    /\ \A l \in ToSet(MustVisit(trip)) : \E p \in tasks : Serves(p, l)
                    /\ Meals(trip) > 0 => Cardinality(DiningOf(tasks)) = Meals(trip)
<1> DEFINE r == PreFilter(found, trip).value
           R == ToSet(r)
           c == IssueCandidates(r, trip)
           from == Takeable(c, Rank(c, ranking), trip)
           T == ToSet(from)
<1>1. PreFilter(found, trip).code = "OK" /\ plan = ChooseFrom(from, c, trip)
  BY DEF Recommend, PlanOf, ChooseSinglePlan
<1>2. IsListing(r, R) /\ R \subseteq Kept(found, trip) /\ 6 <= Len(r) /\ Len(r) <= MaxCandidates
  BY <1>1, SignedPlaces DEF MinCandidates
<1>3. ArePlaces(R, trip) /\ \A p \in R : Admissible(p, trip)
  <2>1. ArePlaces(Kept(found, trip), trip) /\ \A p \in Kept(found, trip) : Admissible(p, trip)
    BY KeptPlaces
  <2> HIDE DEF R
  <2> QED  BY <1>2, <2>1, SomePlaces
<1>4. Missing(c, trip) = {}
  BY <1>1 DEF ChooseFrom, Refused
<1> HIDE DEF r
<1>5. IsListing(c, R)
  <2> HIDE DEF R
  <2> QED  BY <1>2, <1>3, AllAreOffered
<1> HIDE DEF R, c
<1>6. IsListing(from, T) /\ T \subseteq R /\ (Meals(trip) > 0 => T = R)
  BY <1>4, <1>5, TakeablePlaces
<1> HIDE DEF from, T
<1>7. Meals(trip) > 0 => Len(from) >= MinCandidates
  <2>1. CASE Meals(trip) > 0
    <3>1. T = R
      BY <1>6, <2>1
    <3>2. Len(from) = Len(r)
      BY <1>2, <1>6, <3>1 DEF IsListing
    <3>3. Len(r) \in Nat
      BY <1>2, Listing
    <3> QED  BY <1>2, <3>2, <3>3 DEF MinCandidates
  <2> QED  BY <2>1
<1>8. ArePlaces(T, trip)
  BY <1>3, <1>6, SomePlaces
<1>9. PICK tasks \in PossibleSets(from, c, trip) : IsListing(plan.value, tasks)
  BY <1>1, <1>6, <1>7, <1>8, PlanListsTasks
<1>10. /\ tasks \subseteq T /\ ToSet(RequiredCandidates(c, trip)) \subseteq tasks
       /\ Meals(trip) > 0 => Cardinality(DiningOf(tasks)) = Meals(trip)
  <2>1. tasks \in PossibleSets(from, c, trip)
    BY <1>9
  <2> QED  BY ONLY <1>6, <2>1, PossiblePlaces
<1>11. \A l \in ToSet(MustVisit(trip)) : \E p \in ToSet(RequiredCandidates(c, trip)) : Serves(p, l)
  BY <1>4, <1>5, RequiredPlaces
<1> QED  BY <1>2, <1>6, <1>9, <1>10, <1>11

\* A recommendation keeps every member's hard limits, whatever the model ranks.
THEOREM RecommendedKeepsHardLimits ==
  ASSUME NEW trip, IsTrip(trip), NEW found, AreFound(found, trip),
         NEW ranking, IsRanking(ranking)
  PROVE  KeepsHardLimits(found, trip, Recommend(found, ranking, trip))
<1> DEFINE plan == Recommend(found, ranking, trip)
<1> SUFFICES ASSUME plan.code = "OK", Len(Avoided(trip)) <= MaxAvoided
             PROVE  KeepsHardLimits(found, trip, plan)
  BY DEF KeepsHardLimits
<1>1. PICK tasks : /\ IsListing(plan.value, tasks) /\ tasks \subseteq Kept(found, trip)
                   /\ \A l \in ToSet(MustVisit(trip)) : \E p \in tasks : Serves(p, l)
                   /\ Meals(trip) > 0 => Cardinality(DiningOf(tasks)) = Meals(trip)
  BY PlanOfTasks
<1> HIDE DEF plan
<1>2. ToSet(plan.value) = tasks
  BY <1>1 DEF IsListing
<1>3. ASSUME NEW p \in tasks, NEW m \in ToSet(trip.members)
      PROVE  /\ p \in ToSet(found) /\ p.inCity /\ ~IsLodging(p)
             /\ p.price # None => p.price <= m.cap /\ p.price <= trip.total
             /\ \A l \in ToSet(m.avoid) : ~Matches(p, l)
  <2>1. p \in ToSet(found) /\ Admissible(p, trip) /\ IsPlace(p, trip)
    BY <1>1, KeptPlaces DEF ArePlaces
  <2> QED  BY <2>1, AdmissibleSuitsEveryone
<1>4. ASSUME NEW m \in ToSet(trip.members), NEW l \in ToSet(m.must)
      PROVE  \E p \in tasks : Serves(p, l)
  <2>1. ToSet(MustVisit(trip)) = UNION {ToSet(k.must) : k \in ToSet(trip.members)}
    BY LabelsOfMembers DEF IsListing
  <2> QED  BY <1>1, <2>1
<1>5. ASSUME Meals(trip) > 0  PROVE Len(Only(plan.value, DiningOf(tasks))) = Meals(trip)
  <2>1. IsListing(Only(plan.value, DiningOf(tasks)), tasks \cap DiningOf(tasks))
    BY <1>1, OnlyIsListing
  <2>2. tasks \cap DiningOf(tasks) = DiningOf(tasks)
    BY DEF DiningOf
  <2> QED  BY <1>1, <1>5, <2>1, <2>2 DEF IsListing
<1>6. Len(Distinct(plan.value)) = Len(plan.value)
  BY <1>1, DistinctOfListing
<1> QED  BY <1>2, <1>3, <1>4, <1>5, <1>6 DEF KeepsHardLimits

-----------------------------------------------------------------------------
(* The ranking is a hint. *)

\* On a day with a meal the choice does not depend on how the candidates are listed.
LEMMA ListingDoesNotMatter ==
  ASSUME NEW trip, Meals(trip) > 0, NEW c, NEW T,
         NEW s, IsListing(s, T), NEW t, IsListing(t, T)
  PROVE  ChooseFrom(s, c, trip) = ChooseFrom(t, c, trip)
<1>1. ToSet(s) = T /\ ToSet(t) = T /\ Len(s) = Len(t)
  BY DEF IsListing
<1>2. PossibleSets(s, c, trip) = PossibleSets(t, c, trip)
  BY <1>1 DEF PossibleSets
<1>3. \A tasks : InOrder(tasks, s, trip) = InOrder(tasks, t, trip)
  BY DEF InOrder
<1> QED  BY <1>1, <1>2, <1>3 DEF ChooseFrom

\* The ranking of the model does not change the plan of a day with a meal.
LEMMA RankingDoesNotMatter ==
  ASSUME NEW trip, IsTrip(trip), Meals(trip) > 0, NEW found, AreFound(found, trip),
         NEW ranking, IsRanking(ranking)
  PROVE  Recommend(found, ranking, trip) = Recommend(found, None, trip)
<1> DEFINE signed == PreFilter(found, trip)
           c == IssueCandidates(signed.value, trip)
           s == Takeable(c, Rank(c, ranking), trip)
           t == Takeable(c, Rank(c, None), trip)
<1>1. CASE signed.code # "OK"
  BY <1>1 DEF Recommend, PlanOf
<1>2. CASE signed.code = "OK"
  <2>1. /\ Recommend(found, ranking, trip) = ChooseFrom(s, c, trip)
        /\ Recommend(found, None, trip) = ChooseFrom(t, c, trip)
    BY <1>2 DEF Recommend, PlanOf, ChooseSinglePlan
  <2>2. CASE Missing(c, trip) # {}
    BY <2>1, <2>2 DEF ChooseFrom
  <2>3. CASE Missing(c, trip) = {}
    <3>1. IsListing(c, ToSet(c))
      <4> DEFINE r == signed.value
      <4>1. IsListing(r, ToSet(r)) /\ ToSet(r) \subseteq Kept(found, trip)
        BY <1>2, SignedPlaces
      <4> HIDE DEF signed
      <4>2. ArePlaces(ToSet(r), trip)
        <5>1. ArePlaces(Kept(found, trip), trip)
          BY KeptPlaces
        <5> QED  BY <4>1, <5>1, SomePlaces
      <4> QED  BY <4>1, <4>2, OfferedPlaces
    <3>2. IsRanking(None)
      BY DEF IsRanking
    <3> HIDE DEF c
    <3>3. IsListing(s, ToSet(c)) /\ IsListing(t, ToSet(c))
      BY <2>3, <3>1, <3>2, TakeablePlaces
    <3> HIDE DEF s, t
    <3> QED  BY <2>1, <3>3, ListingDoesNotMatter
  <2> QED  BY <2>2, <2>3
<1> QED  BY <1>1, <1>2

\* If no place is found twice, what is kept are the admissible ones.
LEMMA KeptOfDistinct ==
  ASSUME NEW trip, NEW found, DOMAIN found = 1..Len(found), Len(found) \in Nat,
         \A i, j \in DOMAIN found : found[i].id = found[j].id => i = j
  PROVE  Kept(found, trip) = {p \in ToSet(found) : Admissible(p, trip)}
<1>1. \A i \in DOMAIN found : \A j \in 1..(i - 1) : found[j].id # found[i].id
  OBVIOUS
<1> QED  BY <1>1 DEF Kept, ToSet

\* A sequence that has as many different elements as elements has none twice.
LEMMA DistinctMeansInjective ==
  ASSUME NEW s, s \in Seq(ToSet(s)), Len(Distinct(s)) = Len(s)
  PROVE  \A i, j \in DOMAIN s : s[i] = s[j] => i = j
<1>1. DOMAIN s = 1..Len(s) /\ Len(s) \in Nat
  OBVIOUS
<1>2. IsListing(Distinct(s), ToSet(s))
  BY DistinctIsListing
<1>3. Cardinality(ToSet(s)) = Len(s)
  BY <1>2 DEF IsListing
<1>4. IsFiniteSet(DOMAIN s) /\ Cardinality(DOMAIN s) = Len(s)
  <2> DEFINE n == Len(s)
  <2>1. n \in Nat
    BY <1>1
  <2> HIDE DEF n
  <2>2. IsFiniteSet(1..n) /\ Cardinality(1..n) = n
    BY ONLY <2>1, SoManyNumbers
  <2> QED  BY <1>1, <2>2 DEF n
<1>5. s \in Surjection(DOMAIN s, ToSet(s))
  BY <1>1 DEF Surjection, ToSet
<1>6. s \in Injection(DOMAIN s, ToSet(s))
  BY <1>3, <1>4, <1>5, FS_Surjection
<1> QED  BY <1>6 DEF Injection, IsInjective

\* Places that are found once can be listed backwards.
LEMMA OrderOfFoundDoesNotMatter ==
  ASSUME NEW trip, NEW found, found \in Seq(ToSet(found)),
         Len(Distinct(Ids(found))) = Len(found)
  PROVE  PreFilter(Reverse(found), trip) = PreFilter(found, trip)
<1> DEFINE ids == Ids(found)
           back == Reverse(found)
           n == Len(found)
<1>0. DOMAIN found = 1..n /\ n \in Nat
  OBVIOUS
<1>1. \A i, j \in DOMAIN found : found[i].id = found[j].id => i = j
  <2>1. ids = [i \in 1..n |-> found[i].id]
    BY <1>0 DEF Ids
  <2> HIDE DEF n
  <2>2. ids \in [1..n -> ToSet(ids)]
    BY <2>1 DEF ToSet
  <2> HIDE DEF ids
  <2>3. ids \in Seq(ToSet(ids)) /\ Len(ids) = n /\ DOMAIN ids = 1..n
    BY <1>0, <2>2, FunctionIsSeq
  <2>4. \A i, j \in DOMAIN ids : ids[i] = ids[j] => i = j
    BY <2>3, DistinctMeansInjective DEF ids, n
  <2> QED  BY <1>0, <2>1, <2>3, <2>4
<1>2. /\ DOMAIN back = 1..n /\ Len(back) = n
      /\ \A i \in 1..n : (n - i) + 1 \in 1..n /\ back[i] = found[(n - i) + 1]
  BY <1>0 DEF Reverse
<1> HIDE DEF back, n
<1>3. \A i, j \in DOMAIN back : back[i].id = back[j].id => i = j
  <2>0. DOMAIN back = 1..n
    BY <1>2
  <2>1. ASSUME NEW i \in 1..n, NEW j \in 1..n, back[i].id = back[j].id
        PROVE  i = j
    <3>1. /\ (n - i) + 1 \in DOMAIN found /\ back[i] = found[(n - i) + 1]
          /\ (n - j) + 1 \in DOMAIN found /\ back[j] = found[(n - j) + 1]
      BY <1>0, <1>2
    <3>2. found[(n - i) + 1].id = found[(n - j) + 1].id
      BY <2>1, <3>1
    <3>3. (n - i) + 1 = (n - j) + 1
      BY ONLY <1>1, <3>1, <3>2
    <3> QED  BY <1>0, <3>3
  <2> QED  BY ONLY <2>0, <2>1
<1>4. ToSet(back) = ToSet(found)
  <2>1. \A i \in 1..n : back[i] \in ToSet(found)
    BY <1>0, <1>2 DEF ToSet
  <2>2. ASSUME NEW i \in 1..n  PROVE found[i] \in ToSet(back)
    <3>1. (n - i) + 1 \in 1..n /\ (n - ((n - i) + 1)) + 1 = i
      BY <1>0
    <3>2. back[(n - i) + 1] = found[(n - ((n - i) + 1)) + 1]
      BY <1>2, <3>1
    <3>3. back[(n - i) + 1] = found[i]
      BY <3>1, <3>2
    <3> QED  BY <1>2, <3>1, <3>3 DEF ToSet
  <2> QED  BY <1>0, <1>2, <2>1, <2>2 DEF ToSet
<1>5. Kept(back, trip) = Kept(found, trip)
  <2>1. Kept(found, trip) = {p \in ToSet(found) : Admissible(p, trip)}
    BY <1>0, <1>1, KeptOfDistinct DEF n
  <2>2. Kept(back, trip) = {p \in ToSet(back) : Admissible(p, trip)}
    BY <1>0, <1>2, <1>3, KeptOfDistinct
  <2> QED  BY <1>4, <2>1, <2>2
<1>6. Ordered(back, trip) = Ordered(found, trip)
  BY <1>5 DEF Ordered
<1>7. \A s, missing : Signed(back, s, missing, trip) = Signed(found, s, missing, trip)
  BY <1>4 DEF Signed
<1> QED  BY <1>6, <1>7 DEF PreFilter, SignedOf, back

\* On a day with a meal the plan depends neither on the ranking of the model nor,
\* if no place is listed twice, on the order in which the provider lists them.
THEOREM RankingIsOnlyAHint ==
  ASSUME NEW trip, IsTrip(trip), NEW found, AreFound(found, trip),
         NEW ranking, IsRanking(ranking)
  PROVE  TakesTheRankingAsAHint(found, trip, Recommend(found, ranking, trip))
<1> DEFINE once == Len(Distinct(Ids(found))) = Len(found)
           listings == {found} \cup IF once THEN {Reverse(found)} ELSE {}
<1> SUFFICES ASSUME Meals(trip) > 0, NEW other \in listings
             PROVE  Recommend(other, None, trip) = Recommend(found, ranking, trip)
  BY DEF TakesTheRankingAsAHint
<1>1. Recommend(found, ranking, trip) = Recommend(found, None, trip)
  BY RankingDoesNotMatter
<1>2. Recommend(other, None, trip) = Recommend(found, None, trip)
  <2>1. CASE other = found
    BY <2>1
  <2>2. CASE once /\ other = Reverse(found)
    <3>1. PreFilter(Reverse(found), trip) = PreFilter(found, trip)
      BY <2>2, OrderOfFoundDoesNotMatter DEF AreFound
    <3> QED  BY <2>2, <3>1 DEF Recommend
  <2> QED  BY <2>1, <2>2
<1> QED  BY <1>1, <1>2

-----------------------------------------------------------------------------
(* Enough of what is signed. *)

\* The n-th of some positive numbers is at least n.
LEMMA AscendingIsAtLeast ==
  ASSUME NEW S \in SUBSET (Nat \ {0}), IsFiniteSet(S), NEW n \in DOMAIN Ascending(S)
  PROVE  n <= Ascending(S)[n]
<1> DEFINE at == Ascending(S)
           f == [i \in 1..n |-> at[i]]
           m == at[n]
<1>1. /\ IsListing(at, S) /\ \A i, j \in DOMAIN at : i < j => at[i] < at[j]
  BY AscendingIsListing
<1>2. /\ DOMAIN at = 1..Len(at) /\ Len(at) \in Nat /\ \A i \in DOMAIN at : at[i] \in S
      /\ \A i, j \in DOMAIN at : at[i] = at[j] => i = j
  BY <1>1, Listing DEF IsListing
<1>3. n \in Nat /\ n \in DOMAIN at /\ m \in Nat \ {0} /\ 1..n \subseteq DOMAIN at
  <2>1. n \in DOMAIN at
    OBVIOUS
  <2> HIDE DEF at
  <2>2. n \in Nat /\ 1..n \subseteq DOMAIN at
    BY <1>2, <2>1
  <2>3. at[n] \in Nat \ {0}
    BY <1>2, <2>1
  <2> QED  BY <2>1, <2>2, <2>3
<1> HIDE DEF at
<1>4. \A i \in 1..n : at[i] \in 1..m
  <2> SUFFICES ASSUME NEW i \in 1..n  PROVE at[i] \in 1..m
    OBVIOUS
  <2>1. i \in DOMAIN at /\ at[i] \in Nat \ {0}
    BY <1>2, <1>3
  <2>2. at[i] <= m
    <3>1. CASE i = n
      BY <1>3, <2>1, <3>1
    <3>2. CASE i # n
      <4>1. i < n
        BY <1>3, <3>2
      <4>2. at[i] < at[n]
        BY <1>1, <1>3, <2>1, <4>1
      <4> QED  BY <1>3, <2>1, <4>2
    <3> QED  BY <3>1, <3>2
  <2> QED  BY <1>3, <2>1, <2>2
<1> HIDE DEF m
<1>5. f \in Injection(1..n, 1..m)
  <2>1. f \in [1..n -> 1..m]
    BY <1>4
  <2>2. \A i, j \in 1..n : f[i] = f[j] => i = j
    BY <1>2, <1>3
  <2> QED  BY <2>1, <2>2 DEF Injection, IsInjective
<1>6. IsFiniteSet(1..m) /\ Cardinality(1..m) = m /\ Cardinality(1..n) = n
  BY <1>3, SoManyNumbers
<1>7. Cardinality(1..n) <= Cardinality(1..m)
  BY <1>5, <1>6, FS_Injection
<1> QED  BY <1>3, <1>6, <1>7 DEF m, at

\* What comes early comes early when each element is taken once.
LEMMA EarlyIsDistinct ==
  ASSUME NEW u, u \in Seq(ToSet(u)), NEW i \in DOMAIN u, NEW k \in Nat, i <= k
  PROVE  u[i] \in ToSet(First(k, Distinct(u)))
<1> DEFINE P == {h \in DOMAIN u : \A j \in 1..(h - 1) : u[j] # u[h]}
           at == Ascending(P)
           d == Distinct(u)
           same == {h \in DOMAIN u : u[h] = u[i]}
<1>0. DOMAIN u = 1..Len(u) /\ Len(u) \in Nat /\ IsFiniteSet(DOMAIN u)
  <2>1. DOMAIN u = 1..Len(u) /\ Len(u) \in Nat
    OBVIOUS
  <2> QED  BY <2>1, SoManyNumbers
<1>1. PICK first \in same : \A j \in same : first <= j
  <2>1. same \in SUBSET Nat /\ same # {}
    BY <1>0
  <2> HIDE DEF same
  <2> QED  BY <2>1, LeastNatural
<1>2. first \in P /\ first <= i /\ u[first] = u[i] /\ first \in Nat
  <2>1. \A j \in 1..(first - 1) : u[j] # u[first]
    BY <1>0, <1>1
  <2> QED  BY <1>0, <1>1, <2>1
<1>3. P \in SUBSET (Nat \ {0}) /\ IsFiniteSet(P)
  <2>1. P \in SUBSET DOMAIN u
    OBVIOUS
  <2> HIDE DEF P
  <2> QED  BY <1>0, <2>1, FS_Subset
<1>4. d = [n \in DOMAIN at |-> u[at[n]]]
  BY DEF Distinct, Picked
<1> HIDE DEF P, d
<1>5. IsListing(at, P)
  BY <1>3, AscendingIsListing
<1>6. PICK n \in DOMAIN at : at[n] = first
  BY <1>2, <1>5, Listing
<1>7. n <= first
  BY <1>3, <1>6, AscendingIsAtLeast
<1>8. n \in DOMAIN d /\ d[n] = u[i]
  BY <1>2, <1>4, <1>6
<1>9. d \in Seq(ToSet(d)) /\ DOMAIN d = 1..Len(d) /\ Len(d) \in Nat
  BY DistinctIsListing, Listing DEF d
<1> HIDE DEF at
<1> DEFINE q == First(k, d)
<1>10. /\ q \in Seq(ToSet(q)) /\ Len(q) = IF k <= Len(d) THEN k ELSE Len(d)
       /\ \A h \in DOMAIN q : q[h] = d[h]
  BY <1>9, FirstOfSeq
<1> HIDE DEF q
<1>11. n \in 1..Len(q)
  BY <1>0, <1>2, <1>7, <1>8, <1>9, <1>10
<1>12. DOMAIN q = 1..Len(q)
  BY <1>10
<1>13. q[n] = u[i] /\ n \in DOMAIN q
  BY <1>8, <1>10, <1>11, <1>12
<1> QED  BY <1>13 DEF q, d, ToSet

\* The first elements of a sequence are kept when it is continued.
LEMMA EarlierIsKept ==
  ASSUME NEW s, s \in Seq(ToSet(s)), NEW t, t \in Seq(ToSet(t)),
         NEW k \in Nat, Len(s) <= k
  PROVE  ToSet(s) \subseteq ToSet(First(k, Distinct(s \o t)))
<1> DEFINE u == s \o t
           X == ToSet(s) \cup ToSet(t)
<1>1. u \in Seq(ToSet(u)) /\ Len(u) = Len(s) + Len(t)
  BY ConcatSet
<1>2. DOMAIN s = 1..Len(s) /\ Len(s) \in Nat /\ Len(t) \in Nat
  OBVIOUS
<1>3. \A i \in 1..(Len(s) + Len(t)) : u[i] = IF i <= Len(s) THEN s[i] ELSE t[i - Len(s)]
  <2>1. s \in Seq(X) /\ t \in Seq(X)
    OBVIOUS
  <2> HIDE DEF X
  <2> QED  BY <2>1, ConcatProperties
<1> HIDE DEF u
<1>4. DOMAIN u = 1..Len(u)
  BY <1>1
<1> SUFFICES ASSUME NEW i \in DOMAIN s  PROVE s[i] \in ToSet(First(k, Distinct(u)))
  BY DEF ToSet, u
<1>5. i \in DOMAIN u /\ u[i] = s[i] /\ i <= k
  BY <1>1, <1>2, <1>3, <1>4
<1> QED  BY <1>1, <1>5, EarlyIsDistinct

\* A part of a finite set can be extended to a part of any greater size.
LEMMA PartCanBeExtended ==
  ASSUME NEW T, IsFiniteSet(T), NEW A \in SUBSET T,
         NEW k \in Nat, Cardinality(A) <= k, k <= Cardinality(T)
  PROVE  \E B \in SUBSET T : A \subseteq B /\ Cardinality(B) = k
<1> DEFINE parts == {B \in SUBSET T : A \subseteq B /\ Cardinality(B) <= k}
           size == [B \in parts |-> Cardinality(B)]
           sizes == {size[B] : B \in parts}
<1>0. \A B \in SUBSET T : IsFiniteSet(B) /\ Cardinality(B) \in Nat
  BY FS_Subset, FS_CardinalityType
<1>1. parts # {} /\ IsFiniteSet(parts)
  <2>1. A \in parts
    OBVIOUS
  <2>2. parts \in SUBSET SUBSET T /\ IsFiniteSet(SUBSET T)
    BY FS_SUBSET
  <2> HIDE DEF parts
  <2> QED  BY <2>1, <2>2, FS_Subset
<1>2. sizes \in SUBSET Int /\ IsFiniteSet(sizes) /\ sizes # {}
  <2>1. IsFiniteSet(sizes)
    <3> HIDE DEF size, parts
    <3> QED  BY <1>1, FiniteImage
  <2>2. \A B \in parts : size[B] \in Int
    BY <1>0
  <2> HIDE DEF size, parts
  <2> QED  BY <1>1, <2>1, <2>2
<1>3. PICK B \in parts : \A C \in parts : Cardinality(C) <= Cardinality(B)
  <2>1. Max(sizes) \in sizes /\ \A x \in sizes : x <= Max(sizes)
    <3> HIDE DEF sizes
    <3> QED  BY <1>2, MaxOfSet
  <2> QED  BY <2>1
<1>4. Cardinality(B) = k
  <2> SUFFICES ASSUME Cardinality(B) < k  PROVE FALSE
    BY <1>0
  <2>1. B # T /\ B \subseteq T
    BY <1>0
  <2>2. PICK x \in T : x \notin B
    BY <2>1
  <2>3. Cardinality(B \cup {x}) = Cardinality(B) + 1
    BY <1>0, <2>1, <2>2, FS_AddElement
  <2>4. B \cup {x} \in parts
    BY <1>0, <2>1, <2>2, <2>3
  <2> HIDE DEF parts
  <2>5. Cardinality(B) + 1 <= Cardinality(B)
    BY <1>3, <2>3, <2>4
  <2> QED  BY <1>0, <2>1, <2>5
<1> QED  BY <1>4

\* The reservation has the best answer to each label, a restaurant for each meal
\* and three visits, if there are so many.
LEMMA ReserveHasAll ==
  ASSUME NEW trip, IsTrip(trip), NEW s, NEW S, IsListing(s, S), ArePlaces(S, trip),
         Missing(s, trip) = {}, Len(MustVisit(trip)) <= MaxVisits
  PROVE  LET R == ToSet(Reserve(s, trip))
         IN  /\ \A l \in ToSet(MustVisit(trip)) : \E p \in R : Serves(p, l)
             /\ ToSet(First(Meals(trip), Dining(s, trip))) \subseteq R
             /\ ToSet(First(MaxVisits, Visits(s))) \subseteq R
<1> DEFINE must == MustVisit(trip)
           best == [i \in DOMAIN must |-> BestFor(must[i], s)]
           meals == First(Meals(trip), Dining(s, trip))
           visits == First(MaxVisits, Visits(s))
           early == best \o meals \o visits
<1>0. ToSet(s) = S /\ s \in Seq(ToSet(s))
  BY Listing DEF IsListing
<1>1. ASSUME NEW i \in DOMAIN must  PROVE best[i] \in Answering(must[i], S)
  <2>1. must[i] \in ToSet(MustVisit(trip))
    BY DEF ToSet
  <2>2. Answering(must[i], S) # {}
    BY <1>0, <2>1 DEF Missing
  <2> QED  BY <2>1, <2>2, BestAnswers
<1>2. best \in Seq(ToSet(best)) /\ Len(best) = Len(must)
  <2>1. DOMAIN best = DOMAIN must /\ best = [i \in DOMAIN best |-> best[i]]
    OBVIOUS
  <2>2. IsListing(must, UNION {ToSet(m.must) : m \in ToSet(trip.members)})
    BY LabelsOfMembers
  <2>3. \A i \in DOMAIN best : best[i] \in S
    BY <1>1 DEF Answering
  <2> HIDE DEF best, must
  <2> QED  BY <2>1, <2>2, <2>3, ForEachLabel
<1>3. meals \in Seq(ToSet(meals)) /\ Len(meals) <= Meals(trip) /\ Len(meals) \in Nat
  <2>1. Meals(trip) \in Nat
    BY MealsOfADay
  <2>2. Dining(s, trip) \in Seq(ToSet(Dining(s, trip))) /\ Len(Dining(s, trip)) \in Nat
    BY DiningIsListed, Listing
  <2> QED  BY <2>1, <2>2, FirstOfSeq
<1>4. visits \in Seq(ToSet(visits)) /\ Len(visits) <= 3 /\ Len(visits) \in Nat
  <2>1. MaxVisits \in Nat /\ MaxVisits = 3
    BY DEF MaxVisits
  <2>2. Visits(s) \in Seq(ToSet(Visits(s))) /\ Len(Visits(s)) \in Nat
    BY VisitsAreListed, Listing
  <2> QED  BY <2>1, <2>2, FirstOfSeq
<1>5. Len(must) <= 3 /\ Len(must) \in Nat
  BY LabelsOfMembers, Listing DEF MaxVisits
<1>6. Reserve(s, trip) = First(MaxCandidates, Distinct(early \o s))
  BY DEF Reserve
<1>7. ASSUME NEW l \in ToSet(MustVisit(trip))  PROVE \E p \in ToSet(best) : Serves(p, l)
  <2>1. PICK i \in DOMAIN must : must[i] = l
    BY DEF ToSet
  <2>2. best[i] \in ToSet(best)
    BY DEF ToSet
  <2> HIDE DEF best, must
  <2> QED  BY <1>1, <2>1, <2>2 DEF Answering
<1> HIDE DEF must, best, meals, visits
<1>8. /\ early \in Seq(ToSet(early))
      /\ ToSet(early) = (ToSet(best) \cup ToSet(meals)) \cup ToSet(visits)
      /\ Len(early) = (Len(best) + Len(meals)) + Len(visits)
  <2>1. /\ best \o meals \in Seq(ToSet(best \o meals))
        /\ ToSet(best \o meals) = ToSet(best) \cup ToSet(meals)
        /\ Len(best \o meals) = Len(best) + Len(meals)
    BY <1>2, <1>3, ConcatSet
  <2> QED  BY <1>4, <2>1, ConcatSet
<1> HIDE DEF early
<1>9. MaxCandidates \in Nat /\ Len(early) <= MaxCandidates
  <2>1. Meals(trip) <= 2 /\ Meals(trip) \in Nat
    BY MealsOfADay
  <2> QED  BY <1>2, <1>3, <1>4, <1>5, <1>8, <2>1 DEF MaxCandidates
<1>10. ToSet(early) \subseteq ToSet(Reserve(s, trip))
  BY <1>0, <1>6, <1>8, <1>9, EarlierIsKept
<1> QED  BY <1>7, <1>8, <1>10 DEF meals, visits

\* The first k of a listing of at least as many.
LEMMA FirstAreAsMany ==
  ASSUME NEW s, NEW S, IsListing(s, S), NEW k \in Nat, k <= Cardinality(S)
  PROVE  Cardinality(ToSet(First(k, s))) = k /\ ToSet(First(k, s)) \subseteq S
<1>1. s \in Seq(ToSet(s)) /\ Len(s) = Cardinality(S) /\ Len(s) \in Nat
  BY Listing DEF IsListing
<1>2. Len(First(k, s)) = k
  BY <1>1, FirstOfSeq
<1>3. IsListing(First(k, s), ToSet(First(k, s))) /\ ToSet(First(k, s)) \subseteq S
  BY FirstIsListing
<1> QED  BY <1>2, <1>3 DEF IsListing

\* A plan can be made of what was signed.
LEMMA SignedIsEnough ==
  ASSUME NEW trip, IsTrip(trip), NEW found, AreFound(found, trip),
         PreFilter(found, trip).code = "OK"
  PROVE  LET R == ToSet(PreFilter(found, trip).value)
         IN  /\ Len(MustVisit(trip)) <= 3 /\ 3 <= Cardinality(VisitsOf(R))
             /\ \A l \in ToSet(MustVisit(trip)) : \E p \in R : Serves(p, l)
             /\ Meals(trip) <= Cardinality(DiningOf(R))
<1> DEFINE s == Ordered(found, trip)
           S == Kept(found, trip)
           R == ToSet(Reserve(s, trip))
           meals == ToSet(First(Meals(trip), Dining(s, trip)))
           visits == ToSet(First(MaxVisits, Visits(s)))
<1>1. IsListing(s, S) /\ ArePlaces(S, trip) /\ ToSet(s) = S
  BY OrderedPlaces, KeptPlaces DEF IsListing
<1>2. /\ Missing(s, trip) = {} /\ ~(Len(MustVisit(trip)) > MaxVisits)
      /\ ~(Cardinality(DiningOf(ToSet(s))) < Meals(trip))
      /\ ~(Cardinality(VisitsOf(ToSet(s))) < MaxVisits)
      /\ PreFilter(found, trip).value = Reserve(s, trip)
  BY DEF PreFilter, SignedOf, Signed, Refused, Accepted
<1> HIDE DEF s, S
<1>3. Len(MustVisit(trip)) <= MaxVisits
  <2>1. Len(MustVisit(trip)) \in Nat /\ MaxVisits \in Nat
    BY LabelsOfMembers, Listing DEF MaxVisits
  <2> QED  BY <1>2, <2>1
<1>4. /\ \A l \in ToSet(MustVisit(trip)) : \E p \in R : Serves(p, l)
      /\ meals \subseteq R /\ visits \subseteq R
  BY <1>1, <1>2, <1>3, ReserveHasAll
<1>5. IsListing(Dining(s, trip), DiningOf(S)) /\ IsListing(Visits(s), VisitsOf(S))
  BY <1>1, DiningIsListed, VisitsAreListed
<1>6. Cardinality(meals) = Meals(trip) /\ meals \subseteq DiningOf(S)
  <2>1. Meals(trip) \in Nat /\ Cardinality(DiningOf(S)) \in Nat
    BY <1>5, Listing, MealsOfADay
  <2>2. Meals(trip) <= Cardinality(DiningOf(S))
    BY <1>1, <1>2, <2>1
  <2> QED  BY <1>5, <2>1, <2>2, FirstAreAsMany
<1>7. Cardinality(visits) = 3 /\ visits \subseteq VisitsOf(S)
  <2>1. MaxVisits \in Nat /\ MaxVisits = 3 /\ Cardinality(VisitsOf(S)) \in Nat
    BY <1>5, Listing DEF MaxVisits
  <2>2. MaxVisits <= Cardinality(VisitsOf(S))
    BY <1>1, <1>2, <2>1
  <2> QED  BY <1>5, <2>1, <2>2, FirstAreAsMany
<1> HIDE DEF meals, visits, R
<1>8. IsFiniteSet(R)
  BY <1>1, <1>2, ReservedPlaces DEF IsListing, R
<1>9. /\ meals \in SUBSET DiningOf(R) /\ visits \in SUBSET VisitsOf(R)
      /\ DiningOf(R) \in SUBSET R /\ VisitsOf(R) \in SUBSET R
  BY <1>4, <1>6, <1>7 DEF DiningOf, VisitsOf
<1>10. IsFiniteSet(DiningOf(R)) /\ IsFiniteSet(VisitsOf(R))
  BY <1>8, <1>9, FS_Subset
<1>11. Meals(trip) <= Cardinality(DiningOf(R)) /\ 3 <= Cardinality(VisitsOf(R))
  <2>1. /\ Cardinality(meals) <= Cardinality(DiningOf(R))
        /\ Cardinality(visits) <= Cardinality(VisitsOf(R))
    BY <1>9, <1>10, FS_Subset
  <2> QED  BY <1>6, <1>7, <2>1
<1>12. Len(MustVisit(trip)) <= 3
  BY <1>3 DEF MaxVisits
<1> QED  BY <1>2, <1>4, <1>11, <1>12 DEF R

\* The required candidates are no more than the labels.
LEMMA RequiredAreFew ==
  ASSUME NEW trip, IsTrip(trip), NEW c, NEW C, IsListing(c, C), Missing(c, trip) = {},
         Len(MustVisit(trip)) <= 3
  PROVE  /\ IsFiniteSet(ToSet(RequiredCandidates(c, trip)))
         /\ Cardinality(ToSet(RequiredCandidates(c, trip))) <= 3
<1> DEFINE must == MustVisit(trip)
           best == [i \in DOMAIN must |-> Only(c, Answering(must[i], ToSet(c)))[1]]
           A == ToSet(RequiredCandidates(c, trip))
<1>1. DOMAIN must = 1..Len(must) /\ Len(must) \in Nat
  BY LabelsOfMembers, Listing
<1>2. best \in Seq(ToSet(best)) /\ Len(best) = Len(must) /\ DOMAIN best = 1..Len(must)
  <2>1. best \in [1..Len(must) -> ToSet(best)]
    BY <1>1 DEF ToSet
  <2> HIDE DEF best
  <2> QED  BY <1>1, <2>1, FunctionIsSeq
<1>3. A = ToSet(best)
  <2>1. RequiredCandidates(c, trip) = Distinct(best)
    BY DEF RequiredCandidates
  <2> HIDE DEF best
  <2> QED  BY <1>2, <2>1, DistinctIsListing DEF IsListing
<1> HIDE DEF best
<1>4. best \in Surjection(1..Len(must), ToSet(best))
  BY <1>2 DEF Surjection, ToSet
<1>5. IsFiniteSet(1..Len(must)) /\ Cardinality(1..Len(must)) = Len(must)
  BY <1>1, SoManyNumbers
<1>6. IsFiniteSet(ToSet(best)) /\ Cardinality(ToSet(best)) <= Len(must)
  BY <1>4, <1>5, FS_Surjection
<1>7. Cardinality(ToSet(best)) \in Nat
  BY <1>6, FS_CardinalityType
<1> QED  BY <1>1, <1>3, <1>6, <1>7

-----------------------------------------------------------------------------
(* A plan of what is signed. *)

\* The required candidates may be taken.
LEMMA RequiredAreTakeable ==
  ASSUME NEW trip, IsTrip(trip), NEW c, NEW C, IsListing(c, C), Missing(c, trip) = {},
         NEW ranking, IsRanking(ranking)
  PROVE  ToSet(RequiredCandidates(c, trip)) \subseteq ToSet(Takeable(c, Rank(c, ranking), trip))
<1> DEFINE ranked == Rank(c, ranking)
           more == IF Meals(trip) > 0 THEN c ELSE <<>>
           required == RequiredCandidates(c, trip)
           all == ranked \o more \o required
<1>1. ranked \in Seq(ToSet(ranked))
  BY RankedPlaces
<1>2. more \in Seq(ToSet(more))
  <2>1. c \in Seq(ToSet(c)) /\ <<>> \in Seq(ToSet(<<>>))
    BY Listing
  <2> QED  BY <2>1
<1>3. required \in Seq(ToSet(required))
  BY RequiredPlaces, Listing
<1>4. Takeable(c, Rank(c, ranking), trip) = Distinct(all)
  BY DEF Takeable
<1> HIDE DEF ranked, more, required
<1>5. all \in Seq(ToSet(all)) /\ ToSet(required) \subseteq ToSet(all)
  <2>1. ranked \o more \in Seq(ToSet(ranked \o more))
    BY <1>1, <1>2, ConcatSet
  <2> QED  BY <1>3, <2>1, ConcatSet
<1> HIDE DEF all
<1>6. ToSet(Distinct(all)) = ToSet(all)
  BY <1>5, DistinctIsListing DEF IsListing
<1> QED  BY <1>4, <1>5, <1>6 DEF required

\* The restaurants and the visits of a set are its parts.
LEMMA DiningAndVisits ==
  ASSUME NEW S, IsFiniteSet(S)
  PROVE  /\ DiningOf(S) \in SUBSET S /\ VisitsOf(S) \in SUBSET S
         /\ S = DiningOf(S) \cup VisitsOf(S) /\ DiningOf(S) \cap VisitsOf(S) = {}
         /\ IsFiniteSet(DiningOf(S)) /\ IsFiniteSet(VisitsOf(S))
         /\ Cardinality(DiningOf(S)) \in Nat /\ Cardinality(VisitsOf(S)) \in Nat
         /\ Cardinality(S) = Cardinality(DiningOf(S)) + Cardinality(VisitsOf(S))
<1> DEFINE D == DiningOf(S)
           V == VisitsOf(S)
<1>1. D \in SUBSET S /\ V \in SUBSET S /\ S = D \cup V /\ D \cap V = {}
  BY DEF DiningOf, VisitsOf
<1> HIDE DEF D, V
<1>2. IsFiniteSet(D) /\ IsFiniteSet(V)
  BY <1>1, FS_Subset
<1>3. Cardinality(D) \in Nat /\ Cardinality(V) \in Nat
  BY <1>2, FS_CardinalityType
<1>4. Cardinality(D \cup V) = Cardinality(D) + Cardinality(V) - Cardinality(D \cap V)
  BY <1>2, FS_Union
<1>5. Cardinality(D \cap V) = 0
  BY <1>1, FS_EmptySet
<1>6. Cardinality(S) = Cardinality(D) + Cardinality(V)
  <2>1. Cardinality(S) = Cardinality(D) + Cardinality(V) - 0
    BY <1>1, <1>4, <1>5
  <2> QED  BY <1>3, <2>1
<1> QED  BY <1>1, <1>2, <1>3, <1>6 DEF D, V

\* On a day with meals the required places can be completed to a set of tasks.
LEMMA MealsCanBePlanned ==
  ASSUME NEW T, IsFiniteSet(T), NEW A \in SUBSET T, Cardinality(A) <= 3,
         NEW n \in Nat, Cardinality(DiningOf(A)) <= n, n <= Cardinality(DiningOf(T)),
         3 <= Cardinality(VisitsOf(T))
  PROVE  \E B \in SUBSET T : /\ A \subseteq B /\ Cardinality(B) = 3 + n
                             /\ Cardinality(DiningOf(B)) = n
<1>1. IsFiniteSet(A)
  BY FS_Subset
<1>2. /\ DiningOf(A) \in SUBSET DiningOf(T) /\ VisitsOf(A) \in SUBSET VisitsOf(T)
      /\ A = DiningOf(A) \cup VisitsOf(A)
  BY DEF DiningOf, VisitsOf
<1>3. Cardinality(VisitsOf(A)) <= 3
  BY <1>1, DiningAndVisits
<1>4. PICK D \in SUBSET DiningOf(T) : DiningOf(A) \subseteq D /\ Cardinality(D) = n
  BY <1>2, DiningAndVisits, PartCanBeExtended
<1>5. PICK V \in SUBSET VisitsOf(T) : VisitsOf(A) \subseteq V /\ Cardinality(V) = 3
  BY <1>2, <1>3, DiningAndVisits, PartCanBeExtended
<1> DEFINE B == D \cup V
<1>6. DiningOf(B) = D /\ VisitsOf(B) = V
  BY DEF DiningOf, VisitsOf
<1>7. B \in SUBSET T /\ A \subseteq B
  BY <1>2, <1>4, <1>5 DEF DiningOf, VisitsOf
<1> HIDE DEF B
<1>8. IsFiniteSet(B)
  BY <1>7, FS_Subset
<1>9. Cardinality(B) = 3 + n
  BY <1>4, <1>5, <1>6, <1>8, DiningAndVisits
<1> QED  BY <1>4, <1>6, <1>7, <1>9

\* There is a set of tasks to choose.
LEMMA TasksCanBeChosen ==
  ASSUME NEW trip, NEW c, NEW from, NEW T, IsListing(from, T),
         NEW A, A = ToSet(RequiredCandidates(c, trip)), A \subseteq T, Cardinality(A) <= 3,
         Meals(trip) > 0 => /\ Cardinality(DiningOf(A)) <= Meals(trip)
                            /\ Meals(trip) <= Cardinality(DiningOf(T))
                            /\ 3 <= Cardinality(VisitsOf(T))
  PROVE  PossibleSets(from, c, trip) # {}
<1>0. IsFiniteSet(T) /\ ToSet(from) = T /\ Len(from) = Cardinality(T) /\ Len(from) \in Nat
  BY Listing DEF IsListing
<1>1. IsFiniteSet(A) /\ Cardinality(A) \in Nat /\ Cardinality(A) <= Len(from)
  <2>1. IsFiniteSet(A) /\ Cardinality(A) <= Cardinality(T)
    BY <1>0, FS_Subset
  <2> QED  BY <1>0, <2>1, FS_CardinalityType
<1>2. CASE Meals(trip) > 0
  <2>1. Meals(trip) \in Nat
    BY MealsOfADay
  <2>2. PICK B \in SUBSET T : /\ A \subseteq B /\ Cardinality(B) = 3 + Meals(trip)
                              /\ Cardinality(DiningOf(B)) = Meals(trip)
    BY <1>0, <1>2, <2>1, MealsCanBePlanned
  <2>3. 3 + Meals(trip) <= Len(from)
    BY <1>0, <2>2, FS_Subset
  <2>4. Min({3 + Meals(trip), Len(from)}) = 3 + Meals(trip)
    <3>1. 3 + Meals(trip) \in Int /\ Len(from) \in Int
      BY <1>0, <2>1
    <3> QED  BY <2>3, <3>1, MinOfTwo
  <2>5. Cardinality(B) = Min({MaxVisits + Meals(trip), Len(from)})
    BY <2>2, <2>4 DEF MaxVisits
  <2>6. B \in PossibleSets(from, c, trip)
    BY <1>0, <2>2, <2>5 DEF PossibleSets, kSubset
  <2> QED  BY <2>6
<1>3. CASE ~(Meals(trip) > 0)
  <2> DEFINE k == Min({3 + Meals(trip), Len(from)})
  <2>1. Meals(trip) = 0
    BY <1>3, MealsOfADay
  <2>2. k = IF 3 <= Len(from) THEN 3 ELSE Len(from)
    <3> DEFINE a == 3 + Meals(trip)
               b == Len(from)
    <3>1. a = 3 /\ a \in Int /\ b \in Int
      BY <1>0, <2>1
    <3> HIDE DEF a, b
    <3>2. Min({a, b}) = IF a <= b THEN a ELSE b
      BY <3>1, MinOfTwo
    <3> QED  BY <3>1, <3>2 DEF a, b
  <2> HIDE DEF k
  <2>3. k \in Nat /\ Cardinality(A) <= k /\ k <= Cardinality(T)
    BY <1>0, <1>1, <2>2
  <2>4. PICK B \in SUBSET T : A \subseteq B /\ Cardinality(B) = k
    BY <1>0, <2>3, PartCanBeExtended
  <2>5. Cardinality(B) = Min({MaxVisits + Meals(trip), Len(from)})
    BY <2>4 DEF MaxVisits, k
  <2>6. B \in PossibleSets(from, c, trip)
    BY <1>0, <1>3, <2>4, <2>5 DEF PossibleSets, kSubset
  <2> QED  BY <2>6
<1> QED  BY <1>2, <1>3

\* Signed places can be planned with, whatever the model ranks, unless the members
\* ask for more restaurants than the day has meals.
THEOREM SignedCanBePlanned ==
  ASSUME NEW trip, IsTrip(trip), NEW found, AreFound(found, trip),
         NEW ranking, IsRanking(ranking)
  PROVE  CanBePlanned(found, trip, Recommend(found, ranking, trip))
<1> DEFINE signed == PreFilter(found, trip)
           r == signed.value
           R == ToSet(r)
           c == IssueCandidates(r, trip)
           A == ToSet(RequiredCandidates(c, trip))
           from == Takeable(c, Rank(c, ranking), trip)
           T == ToSet(from)
           plan == Recommend(found, ranking, trip)
<1> SUFFICES ASSUME signed.code = "OK", Len(Avoided(trip)) <= MaxAvoided,
                    Meals(trip) > 0 => ~(Cardinality(DiningOf(A)) > Meals(trip))
             PROVE  plan.code = "OK"
  BY DEF CanBePlanned
<1>1. plan = ChooseFrom(from, c, trip)
  BY DEF Recommend, PlanOf, ChooseSinglePlan
<1>2. /\ IsListing(r, R) /\ Len(r) <= MaxCandidates
      /\ ArePlaces(R, trip) /\ \A p \in R : Admissible(p, trip)
  <2>1. IsListing(r, R) /\ R \subseteq Kept(found, trip) /\ Len(r) <= MaxCandidates
    BY SignedPlaces
  <2>2. ArePlaces(Kept(found, trip), trip) /\ \A p \in Kept(found, trip) : Admissible(p, trip)
    BY KeptPlaces
  <2> HIDE DEF R
  <2> QED  BY <2>1, <2>2, SomePlaces
<1>3. /\ Len(MustVisit(trip)) <= 3 /\ 3 <= Cardinality(VisitsOf(R))
      /\ \A l \in ToSet(MustVisit(trip)) : \E p \in R : Serves(p, l)
      /\ Meals(trip) <= Cardinality(DiningOf(R))
  BY SignedIsEnough
<1> HIDE DEF r
<1>4. IsListing(c, R)
  <2> HIDE DEF R
  <2> QED  BY <1>2, AllAreOffered
<1> HIDE DEF R, c
<1>5. Missing(c, trip) = {}
  <2>1. ToSet(c) = R
    BY <1>4 DEF IsListing
  <2> QED  BY <1>3, <2>1 DEF Missing, Answering
<1>6. IsListing(from, T) /\ T \subseteq R /\ (Meals(trip) > 0 => T = R) /\ A \subseteq T
  BY <1>4, <1>5, TakeablePlaces, RequiredAreTakeable
<1>7. IsFiniteSet(A) /\ Cardinality(A) <= 3
  BY <1>3, <1>4, <1>5, RequiredAreFew
<1> HIDE DEF from, T
<1>8. Meals(trip) > 0 => /\ Cardinality(DiningOf(A)) <= Meals(trip)
                         /\ Meals(trip) <= Cardinality(DiningOf(T))
                         /\ 3 <= Cardinality(VisitsOf(T))
  <2>1. Cardinality(DiningOf(A)) \in Nat /\ Meals(trip) \in Nat
    BY <1>7, DiningAndVisits, MealsOfADay
  <2> QED  BY <1>3, <1>6, <2>1
<1>9. PossibleSets(from, c, trip) # {}
  <2> HIDE DEF A
  <2>1. A = ToSet(RequiredCandidates(c, trip))
    BY DEF A
  <2> QED  BY <1>6, <1>7, <1>8, <2>1, TasksCanBeChosen
<1>10. ~(Cardinality(DiningOf(ToSet(from))) < Meals(trip))
  <2>1. ToSet(from) = T /\ IsFiniteSet(T)
    BY <1>6 DEF IsListing
  <2>2. Cardinality(DiningOf(T)) \in Nat /\ Meals(trip) \in Nat
    BY <2>1, DiningAndVisits, MealsOfADay
  <2>3. Meals(trip) > 0 \/ Meals(trip) = 0
    BY MealsOfADay
  <2> QED  BY <1>8, <2>1, <2>2, <2>3
<1> QED  BY <1>1, <1>5, <1>9, <1>10 DEF ChooseFrom, Accepted
=============================================================================
