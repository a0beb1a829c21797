----------------------------- MODULE FoldLemmas -----------------------------
(***************************************************************************)
(* What the operators on finite sets that the models use compute: the        *)
(* greatest and the smallest number of a set, the sum of a function, and      *)
(* whatever is folded over a set in some order.  The library's induction       *)
(* theorems take operators as parameters; here induction is the choice of a    *)
(* smallest counterexample among the subsets of a finite set.                 *)
(***************************************************************************)
EXTENDS Integers, FiniteSetsExt, FiniteSetTheorems, WellFoundedInduction, TLAPS

-----------------------------------------------------------------------------
(* Induction and recursion.                                                  *)

\* In a collection of subsets of a finite set there is a smallest one.
LEMMA SmallestSubset ==
  ASSUME NEW D, IsFiniteSet(D), NEW bad, bad \subseteq SUBSET D, bad # {}
  PROVE  \E s \in bad : \A t \in bad : t \subseteq s => t = s
<1>1. IsWellFoundedOn(StrictSubsetOrdering(D), SUBSET D)
  BY FS_StrictSubsetOrderingWellFounded, FS_FiniteSubsetsOfFinite
<1>2. PICK s \in bad : \A t \in bad : ~ (<<t, s>> \in StrictSubsetOrdering(D))
  BY <1>1, WFMin
<1>3. \A t \in bad : t \subseteq s => t = s
  BY <1>2 DEF StrictSubsetOrdering
<1> QED BY <1>3

\* What holds of a set of subsets, as soon as it holds of all the smaller ones,
\* holds of every subset.
LEMMA SubsetInduction ==
  ASSUME NEW D, IsFiniteSet(D), NEW good,
         \A s \in SUBSET D : (\A t \in SUBSET s : t # s => t \in good) => s \in good
  PROVE  \A s \in SUBSET D : s \in good
<1> SUFFICES ASSUME NEW r \in SUBSET D, r \notin good PROVE FALSE
  OBVIOUS
<1> DEFINE bad == {s \in SUBSET D : s \notin good}
           Least(s) == \A t \in bad : t \subseteq s => t = s
<1>1. PICK s \in bad : Least(s)
  <2>1. bad \subseteq SUBSET D /\ bad # {}
    OBVIOUS
  <2> HIDE DEF bad
  <2> QED BY <2>1, SmallestSubset
<1>2. s \in SUBSET D /\ s \notin good
  OBVIOUS
<1>3. \A t \in SUBSET s : t # s => t \in good
  <2> SUFFICES ASSUME NEW t \in SUBSET s, t # s, t \notin good PROVE FALSE
    OBVIOUS
  <2>1. t \in bad
    BY <1>2
  <2> HIDE DEF bad
  <2> QED BY <1>1, <2>1
<1> HIDE DEF bad
<1> QED BY <1>2, <1>3

\* An element is picked from every subset that has one.
Picks(pick, D) == \A s \in SUBSET D : s # {} => pick[s] \in s

\* g is defined by what is left when an element is picked.
Recurs(g, D, base, pick, step) ==
  g = [s \in SUBSET D |-> IF s = {} THEN base ELSE step[pick[s]][g[s \ {pick[s]}]]]

\* A function on the subsets of a finite set may be defined by what is left when
\* an element is picked.
LEMMA SetRecursion ==
  ASSUME NEW D, IsFiniteSet(D), NEW T, NEW base \in T,
         NEW pick, Picks(pick, D), NEW step \in [D -> [T -> T]]
  PROVE  \E g \in [SUBSET D -> T] : /\ Recurs(g, D, base, pick, step)
                                     /\ \A h : Recurs(h, D, base, pick, step) => h = g
<1> USE DEF Picks
<1> DEFINE Rule(g, s) == IF s = {} THEN base ELSE step[pick[s]][g[s \ {pick[s]}]]
           Good(g, S) == g \in [SUBSET S -> T] /\ \A s \in SUBSET S : g[s] = Rule(g, s)
           Agree(h, g, R) == h \in [SUBSET R -> T] /\ \A s \in SUBSET R : h[s] = g[s]
           Obeys(g, S) == \A s \in SUBSET S : g[s] = Rule(g, s)
           Same(g, h, S) == \A s \in SUBSET S : g[s] = h[s]
           bad == {S \in SUBSET D : ~ \E g : Good(g, S)}
<1>1. ASSUME NEW S \in SUBSET D, NEW g, NEW h, Obeys(g, S), Obeys(h, S) PROVE Same(g, h, S)
  <2> DEFINE wrong == {s \in SUBSET S : g[s] # h[s]}
  <2>1. CASE wrong = {}
    BY <2>1
  <2>2. CASE wrong # {}
    <3>1. wrong \subseteq SUBSET D
      OBVIOUS
    <3>2. PICK s \in wrong : \A t \in wrong : t \subseteq s => t = s
      <4> HIDE DEF wrong
      <4> QED BY <3>1, <2>2, SmallestSubset
    <3>3. s # {}
      BY <1>1
    <3>4. s \ {pick[s]} \notin wrong
      BY <3>2, <3>3
    <3>5. g[s \ {pick[s]}] = h[s \ {pick[s]}]
      BY <3>4
    <3>6. g[s] = Rule(g, s) /\ h[s] = Rule(h, s)
      BY <1>1
    <3> QED BY <3>2, <3>3, <3>5, <3>6
  <2> QED BY <2>1, <2>2
<1>2. ASSUME NEW S \in SUBSET D, NEW g, NEW h, Good(g, S), Good(h, S) PROVE g = h
  <2>1. Obeys(g, S) /\ Obeys(h, S)
    BY <1>2
  <2>2. Same(g, h, S)
    <3> HIDE DEF Obeys, Same
    <3> QED BY <2>1, <1>1
  <2> QED BY <2>2, <1>2
<1>3. ASSUME NEW S \in SUBSET D, NEW g, Good(g, S), NEW R \in SUBSET S,
             NEW h, Agree(h, g, R)
      PROVE  Good(h, R)
  <2> SUFFICES ASSUME NEW s \in SUBSET R PROVE h[s] = Rule(h, s)
    BY <1>3
  <2>1. g[s] = Rule(g, s)
    BY <1>3
  <2>2. s \ {pick[s]} \in SUBSET R
    OBVIOUS
  <2> QED BY <1>3, <2>1, <2>2
<1>4. bad = {}
  <2> SUFFICES ASSUME bad # {} PROVE FALSE
    OBVIOUS
  <2>1. PICK S \in bad : \A R \in bad : R \subseteq S => R = S
    <3>1. bad \subseteq SUBSET D
      OBVIOUS
    <3> HIDE DEF bad
    <3> QED BY <3>1, SmallestSubset
  <2>2. \A R \in SUBSET S : R # S => \E g : Good(g, R)
    BY <2>1
  <2> DEFINE f == [R \in SUBSET S |-> CHOOSE g : Good(g, R)]
  <2> HIDE DEF Good, Agree
  <2>3. \A R \in SUBSET S : R # S => Good(f[R], R)
    BY <2>2
  <2> HIDE DEF f
  <2> DEFINE h == [s \in SUBSET S |-> IF s = S THEN (IF S = {} THEN base
                     ELSE step[pick[S]][f[S \ {pick[S]}][S \ {pick[S]}]]) ELSE f[s][s]]
  <2>4. ASSUME NEW s \in SUBSET S, s # S, NEW t \in SUBSET s PROVE f[s][t] = f[t][t]
    <3>1. t # S /\ t \in SUBSET D /\ s \in SUBSET D
      BY <2>4
    <3>2. Good(f[s], s) /\ Good(f[t], t)
      BY <2>3, <2>4, <3>1
    <3> DEFINE k == [r \in SUBSET t |-> f[s][r]]
    <3>3. k \in [SUBSET t -> T] /\ \A r \in SUBSET t : k[r] = f[s][r]
      BY <3>2 DEF Good
    <3>6. Agree(k, f[s], t)
      BY <3>3 DEF Agree
    <3> HIDE DEF k
    <3>4. Good(k, t)
      BY <3>1, <3>2, <3>6, <1>3
    <3>5. f[t] = k
      BY <3>1, <3>2, <3>4, <1>2
    <3> QED BY <3>3, <3>5
  <2>5. ASSUME NEW s \in SUBSET S PROVE h[s] \in T /\ h[s] = Rule(h, s)
    <3> DEFINE r == s \ {pick[s]}
    <3>1. s # {} => r \in SUBSET S /\ r # S /\ r \in SUBSET s /\ pick[s] \in D
      OBVIOUS
    <3>2. s # {} => h[r] = f[r][r] /\ f[r][r] \in T
      <4>1. s # {} => Good(f[r], r)
        BY <3>1, <2>3
      <4> QED BY <4>1, <3>1 DEF Good
    <3>3. CASE s = S
      <4>1. CASE S = {}
        BY <3>3, <4>1
      <4>2. CASE S # {}
        <5>1. h[S] = step[pick[S]][f[S \ {pick[S]}][S \ {pick[S]}]]
          BY <4>2
        <5>2. step[pick[s]] \in [T -> T]
          BY <3>1, <3>3, <4>2
        <5> QED BY <3>2, <3>3, <4>2, <5>1, <5>2
      <4> QED BY <4>1, <4>2
    <3>4. CASE s # S
      <4>1. h[s] = f[s][s] /\ Good(f[s], s)
        BY <3>4, <2>3
      <4>2. f[s][s] \in T /\ f[s][s] = Rule(f[s], s)
        BY <4>1 DEF Good
      <4>3. s # {} => f[s][r] = f[r][r]
        BY <3>1, <3>4, <2>4
      <4> QED BY <4>1, <4>2, <4>3, <3>2
    <3> QED BY <3>3, <3>4
  <2>6. Good(h, S)
    BY <2>5 DEF Good
  <2> QED BY <2>6
<1>5. PICK g : Good(g, D)
  BY <1>4
<1>6. g = [s \in SUBSET D |-> Rule(g, s)]
  BY <1>5
<1>7. ASSUME NEW h, h = [s \in SUBSET D |-> Rule(h, s)] PROVE h = g
  <2>1. Obeys(h, D) /\ Obeys(g, D)
    BY <1>5, <1>7
  <2>2. Same(h, g, D)
    <3> HIDE DEF Obeys, Same
    <3> QED BY <2>1, <1>1
  <2>3. \A s \in SUBSET D : h[s] = g[s]
    BY <2>2
  <2>4. h = [s \in SUBSET D |-> h[s]] /\ g = [s \in SUBSET D |-> g[s]]
    BY <1>5, <1>7
  <2> HIDE DEF Rule, Good
  <2> QED BY <2>3, <2>4
<1>8. Recurs(g, D, base, pick, step)
  BY <1>6 DEF Recurs
<1>9. \A h : Recurs(h, D, base, pick, step) => h = g
  BY <1>7 DEF Recurs
<1> HIDE DEF Picks
<1> QED BY <1>5, <1>8, <1>9
-----------------------------------------------------------------------------
(* The greatest and the smallest.                                             *)

\* The maximum of a finite set of numbers is in it, and none is larger.
LEMMA MaxInSet ==
  ASSUME NEW D, D \subseteq Int, IsFiniteSet(D), D # {}
  PROVE  Max(D) \in D /\ \A y \in D : Max(D) >= y
<1> DEFINE Has(s) == s # {} => \E x \in s : \A y \in s : x >= y
           good == {s \in SUBSET D : Has(s)}
<1>1. ASSUME NEW s \in SUBSET D, \A t \in SUBSET s : t # s => t \in good, s # {}
      PROVE  \E x \in s : \A y \in s : x >= y
  <2>1. PICK x \in s : TRUE
    BY <1>1
  <2>2. Has(s \ {x}) /\ x \in Int
    <3>1. s \ {x} \in SUBSET s /\ s \ {x} # s
      BY <2>1
    <3>2. s \ {x} \in good
      BY <3>1, <1>1
    <3> QED BY <3>2
  <2>3. CASE s \ {x} = {}
    BY <2>2, <2>3
  <2>4. CASE s \ {x} # {}
    <3>1. PICK m \in s \ {x} : \A y \in s \ {x} : m >= y
      BY <2>2, <2>4
    <3>2. CASE m >= x
      BY <3>1, <3>2
    <3>3. CASE ~(m >= x)
      <4>1. \A y \in s : x >= y
        <5> SUFFICES ASSUME NEW y \in s, y # x PROVE x >= y
          BY <2>2
        <5>1. m \in Int /\ y \in Int /\ m >= y
          BY <3>1
        <5> QED BY <5>1, <2>2, <3>3
      <4> QED BY <4>1
    <3> QED BY <3>2, <3>3
  <2> QED BY <2>3, <2>4
<1>2. \A s \in SUBSET D : (\A t \in SUBSET s : t # s => t \in good) => s \in good
  BY <1>1
<1>3. D \in good
  <2> HIDE DEF good
  <2>1. \A s \in SUBSET D : s \in good
    BY <1>2, SubsetInduction
  <2> QED BY <2>1
<1>4. Has(D)
  BY <1>3
<1> QED BY <1>4 DEF Max

\* The minimum of a finite set of numbers is in it, and none is smaller.
LEMMA MinInSet ==
  ASSUME NEW D, D \subseteq Int, IsFiniteSet(D), D # {}
  PROVE  Min(D) \in D /\ \A y \in D : Min(D) <= y
<1> DEFINE E == {-x : x \in D}
<1>1. E \subseteq Int /\ E # {}
  <2>1. PICK x \in D : TRUE
    OBVIOUS
  <2>2. \A y \in D : -y \in Int
    OBVIOUS
  <2>3. -x \in E
    OBVIOUS
  <2> QED BY <2>2, <2>3
<1>2. IsFiniteSet(E)
  <2> DEFINE f == [x \in D |-> -x]
  <2>1. f \in Surjection(D, E)
    BY DEF Surjection
  <2> QED BY <2>1, FS_Surjection
<1>3. Max(E) \in E /\ \A y \in E : Max(E) >= y
  <2> HIDE DEF E
  <2> QED BY <1>1, <1>2, MaxInSet
<1>4. PICK m \in D : Max(E) = -m
  BY <1>3
<1>5. \A y \in D : m <= y
  <2> SUFFICES ASSUME NEW y \in D PROVE m <= y
    OBVIOUS
  <2>1. -y \in E /\ m \in Int /\ y \in Int
    OBVIOUS
  <2>2. Max(E) >= -y
    BY <2>1, <1>3
  <2> QED BY <1>4, <2>1, <2>2
<1> QED BY <1>5 DEF Min

\* A function takes finitely many values on a finite set.
LEMMA FiniteImage ==
  ASSUME NEW D, NEW f, IsFiniteSet(D)
  PROVE  IsFiniteSet({f[x] : x \in D})
<1> DEFINE T == {f[x] : x \in D}
           g == [x \in D |-> f[x]]
<1>1. g \in Surjection(D, T)
  BY DEF Surjection
<1> QED BY <1>1, FS_Surjection

-----------------------------------------------------------------------------
(* Sums.                                                                     *)

\* All the sums over subsets of the domain of a function.
IsSumOf(g, f, D) ==
  /\ g \in [SUBSET D -> Int] /\ g[{}] = 0
  /\ \A s \in SUBSET D : \A x \in s : g[s] = f[x] + g[s \ {x}]

\* A sum that picks the elements one by one.
AddsUp(g, f, D, pick) ==
  g = [s \in SUBSET D |-> IF s = {} THEN 0 ELSE f[pick[s]] + g[s \ {pick[s]}]]

\* Such sums do not depend on the order in which the elements are picked.
LEMMA SumsOfPicked ==
  ASSUME NEW D, IsFiniteSet(D), NEW f \in [D -> Int],
         NEW pick, Picks(pick, D)
  PROVE  \E g : IsSumOf(g, f, D) /\ AddsUp(g, f, D, pick) /\ \A h : AddsUp(h, f, D, pick) => h = g
<1> DEFINE step == [x \in D |-> [n \in Int |-> f[x] + n]]
           Rule(g, s) == IF s = {} THEN 0 ELSE f[pick[s]] + g[s \ {pick[s]}]
<1>1. step \in [D -> [Int -> Int]]
  OBVIOUS
<1>2. PICK g \in [SUBSET D -> Int] : Recurs(g, D, 0, pick, step)
  <2>1. 0 \in Int
    OBVIOUS
  <2> HIDE DEF step
  <2> QED BY <1>1, <2>1, SetRecursion
<1> USE DEF Picks
<1>3. \A s \in SUBSET D : g[s] = Rule(g, s)
  <2>1. g[{}] = 0
    BY <1>2 DEF Recurs
  <2>2. ASSUME NEW s \in SUBSET D, s # {} PROVE g[s] = f[pick[s]] + g[s \ {pick[s]}]
    <3>1. pick[s] \in D /\ s \ {pick[s]} \in SUBSET D
      BY <2>2
    <3>2. g[s \ {pick[s]}] \in Int
      BY <3>1, <1>2
    <3>3. g[s] = step[pick[s]][g[s \ {pick[s]}]]
      BY <1>2, <2>2 DEF Recurs
    <3> QED BY <3>1, <3>2, <3>3
  <2> QED BY <2>1, <2>2
<1> HIDE DEF step
<1>4. g = [s \in SUBSET D |-> Rule(g, s)]
  BY <1>2, <1>3 DEF Recurs
<1>5. ASSUME NEW h, h = [s \in SUBSET D |-> Rule(h, s)] PROVE h = g
  <2>1. \A s \in SUBSET D : h[s] = Rule(h, s)
    BY <1>5
  <2> DEFINE good == {s \in SUBSET D : h[s] = g[s]}
  <2>2. ASSUME NEW s \in SUBSET D, \A t \in SUBSET s : t # s => t \in good
        PROVE  h[s] = g[s]
    <3>1. h[s] = Rule(h, s) /\ g[s] = Rule(g, s)
      BY <2>1, <1>3
    <3>2. CASE s = {}
      BY <3>1, <3>2
    <3>3. CASE s # {}
      <4>1. s \ {pick[s]} \in good
        BY <2>2, <3>3
      <4> QED BY <3>1, <3>3, <4>1
    <3> QED BY <3>2, <3>3
  <2>3. \A s \in SUBSET D : s \in good
    <3>1. \A s \in SUBSET D : (\A t \in SUBSET s : t # s => t \in good) => s \in good
      BY <2>2
    <3> HIDE DEF good, Rule
    <3> QED BY <3>1, SubsetInduction
  <2>4. \A s \in SUBSET D : h[s] = g[s]
    BY <2>3
  <2>5. h = [s \in SUBSET D |-> h[s]] /\ g = [s \in SUBSET D |-> g[s]]
    BY <1>4, <1>5
  <2> HIDE DEF Rule
  <2> QED BY <2>4, <2>5
<1> DEFINE Splits(s) == \A x \in s : g[s] = f[x] + g[s \ {x}]
           good == {s \in SUBSET D : Splits(s)}
<1>6. ASSUME NEW s \in SUBSET D, \A t \in SUBSET s : t # s => t \in good, NEW x \in s
      PROVE  g[s] = f[x] + g[s \ {x}]
  <2> DEFINE p == pick[s]
             u == s \ {p}
             v == s \ {x}
             w == u \ {x}
  <2>1. p \in s /\ g[s] = f[p] + g[u]
    BY <1>3
  <2>2. CASE p = x
    BY <2>1, <2>2
  <2>3. CASE p # x
    <3>1. u \in good /\ v \in good
      BY <1>6, <2>1
    <3>2. g[u] = f[x] + g[w]
      BY <3>1, <2>3
    <3>3. g[v] = f[p] + g[w]
      <4>1. v \ {p} = w /\ p \in v
        BY <2>1, <2>3
      <4>2. g[v] = f[p] + g[v \ {p}]
        BY <3>1, <4>1
      <4> QED BY <4>1, <4>2
    <3>4. f[p] \in Int /\ f[x] \in Int /\ g[w] \in Int
      <4>1. w \in SUBSET D /\ p \in D /\ x \in D
        BY <2>1
      <4> QED BY <4>1, <1>2
    <3> HIDE DEF p, u, v, w, good
    <3>5. g[s] = f[x] + g[v]
      BY <2>1, <3>2, <3>3, <3>4
    <3> QED BY <3>5 DEF v
  <2> QED BY <2>2, <2>3
<1>7. \A s \in SUBSET D : s \in good
  <2>1. \A s \in SUBSET D : (\A t \in SUBSET s : t # s => t \in good) => s \in good
    BY <1>6
  <2> HIDE DEF good, Rule
  <2> QED BY <2>1, SubsetInduction
<1>8. IsSumOf(g, f, D)
  <2>1. \A s \in SUBSET D : \A x \in s : g[s] = f[x] + g[s \ {x}]
    BY <1>7
  <2> QED BY <1>2, <1>3, <2>1 DEF IsSumOf
<1>9. AddsUp(g, f, D, pick) /\ \A h : AddsUp(h, f, D, pick) => h = g
  BY <1>4, <1>5 DEF AddsUp
<1> QED BY <1>8, <1>9

\* SumFunction, which picks the elements in an order of its own, adds them up.
LEMMA SumsExist ==
  ASSUME NEW D, IsFiniteSet(D), NEW f \in [D -> Int]
  PROVE  \E g : IsSumOf(g, f, D) /\ SumFunction(f) = g[D]
<1> DEFINE pick == [s \in SUBSET D |-> CHOOSE x \in s : TRUE]
           Folds(h) == h = [s \in SUBSET D |-> IF s = {} THEN 0
                              ELSE LET x == CHOOSE x \in s : TRUE IN f[x] + h[s \ {x}]]
<1>1. Picks(pick, D)
  BY DEF Picks
<1>2. PICK g : IsSumOf(g, f, D) /\ AddsUp(g, f, D, pick) /\ \A h : AddsUp(h, f, D, pick) => h = g
  <2> HIDE DEF pick, Folds
  <2> QED BY <1>1, SumsOfPicked
<1>3. ASSUME NEW h PROVE AddsUp(h, f, D, pick) <=> Folds(h)
  <2> DEFINE L(s) == IF s = {} THEN 0 ELSE f[pick[s]] + h[s \ {pick[s]}]
             R(s) == IF s = {} THEN 0
                              ELSE LET x == CHOOSE x \in s : TRUE IN f[x] + h[s \ {x}]
  <2>1. \A s \in SUBSET D : L(s) = R(s)
    OBVIOUS
  <2>2. [s \in SUBSET D |-> L(s)] = [s \in SUBSET D |-> R(s)]
    <3> HIDE DEF L, R
    <3> QED BY <2>1
  <2> QED BY <2>2 DEF AddsUp
<1>4. Folds(g)
  <2> HIDE DEF pick, Folds
  <2> QED BY <1>2, <1>3
<1>5. DOMAIN f = D
  OBVIOUS
<1> DEFINE sums == CHOOSE h : Folds(h)
<1>6. SumFunction(f) = sums[D]
  BY <1>5 DEF SumFunction, SumFunctionOnSet, FoldFunctionOnSet, MapThenFoldSet
<1>7. Folds(sums)
  <2> HIDE DEF Folds
  <2> QED BY <1>4
<1>8. sums = g
  <2> HIDE DEF Folds, pick, sums
  <2> QED BY <1>2, <1>3, <1>7
<1> HIDE DEF sums, Folds, pick
<1> QED BY <1>2, <1>6, <1>8

\* There is only one way to sum up.
LEMMA SumsAgree ==
  ASSUME NEW D, IsFiniteSet(D), NEW f, NEW g, NEW h, IsSumOf(g, f, D), IsSumOf(h, f, D)
  PROVE  \A s \in SUBSET D : g[s] = h[s]
<1> DEFINE good == {s \in SUBSET D : g[s] = h[s]}
<1>1. ASSUME NEW s \in SUBSET D, \A t \in SUBSET s : t # s => t \in good PROVE g[s] = h[s]
  <2>1. CASE s = {}
    BY <2>1 DEF IsSumOf
  <2>2. CASE s # {}
    <3>1. PICK x \in s : TRUE
      BY <2>2
    <3>2. g[s] = f[x] + g[s \ {x}] /\ h[s] = f[x] + h[s \ {x}]
      BY DEF IsSumOf
    <3>3. s \ {x} \in good
      BY <1>1
    <3> QED BY <3>2, <3>3
  <2> QED BY <2>1, <2>2
<1>2. \A s \in SUBSET D : (\A t \in SUBSET s : t # s => t \in good) => s \in good
  BY <1>1
<1>3. \A s \in SUBSET D : s \in good
  <2> HIDE DEF good
  <2> QED BY <1>2, SubsetInduction
<1> QED BY <1>3

\* The sums of the subsets are the sums of the function over them.
LEMMA SumOfSubset ==
  ASSUME NEW D, IsFiniteSet(D), NEW f \in [D -> Int], NEW g, IsSumOf(g, f, D), NEW s \in SUBSET D
  PROVE  SumFunction([x \in s |-> f[x]]) = g[s]
<1> DEFINE k == [x \in s |-> f[x]]
           gs == [t \in SUBSET s |-> g[t]]
<1>1. IsFiniteSet(s) /\ k \in [s -> Int]
  BY FS_Subset
<1>2. PICK h : IsSumOf(h, k, s) /\ SumFunction(k) = h[s]
  <2> HIDE DEF k
  <2> QED BY <1>1, SumsExist
<1>3. IsSumOf(gs, k, s)
  <2>1. \A t \in SUBSET s : \A x \in t : g[t] = f[x] + g[t \ {x}]
    BY DEF IsSumOf
  <2>2. \A t \in SUBSET s : g[t] \in Int
    BY DEF IsSumOf
  <2>3. ASSUME NEW t \in SUBSET s, NEW x \in t PROVE gs[t] = k[x] + gs[t \ {x}]
    <3>1. g[t] = f[x] + g[t \ {x}] /\ k[x] = f[x]
      BY <2>1
    <3>2. gs[t] = g[t] /\ gs[t \ {x}] = g[t \ {x}]
      OBVIOUS
    <3> QED BY <3>1, <3>2
  <2>4. gs \in [SUBSET s -> Int] /\ gs[{}] = 0
    <3>1. g[{}] = 0
      BY DEF IsSumOf
    <3> QED BY <2>2, <3>1
  <2> HIDE DEF gs, k
  <2> QED BY <2>3, <2>4 DEF IsSumOf
<1>4. h[s] = gs[s]
  <2> HIDE DEF gs, k
  <2> QED BY <1>1, <1>2, <1>3, SumsAgree
<1> QED BY <1>2, <1>4

\* The sum of finitely many whole numbers is a whole number.
LEMMA SumType ==
  ASSUME NEW D, IsFiniteSet(D), NEW f \in [D -> Int]
  PROVE  SumFunction(f) \in Int
<1>1. PICK g : IsSumOf(g, f, D) /\ SumFunction(f) = g[D]
  BY SumsExist
<1> QED BY <1>1 DEF IsSumOf

\* The sum of no numbers is zero.
LEMMA SumOfNothing ==
  ASSUME NEW f, DOMAIN f = {}, f = [x \in {} |-> f[x]]
  PROVE  SumFunction(f) = 0
<1>1. f \in [{} -> Int] /\ IsFiniteSet({})
  BY FS_EmptySet
<1>2. PICK g : IsSumOf(g, f, {}) /\ SumFunction(f) = g[{}]
  BY <1>1, SumsExist
<1> QED BY <1>2 DEF IsSumOf

\* One more element adds its number.
LEMMA SumWithElement ==
  ASSUME NEW D, IsFiniteSet(D), NEW x, x \notin D, NEW f \in [D \cup {x} -> Int]
  PROVE  SumFunction(f) = SumFunction([y \in D |-> f[y]]) + f[x]
<1> DEFINE E == D \cup {x}
<1>1. IsFiniteSet(E)
  BY FS_AddElement
<1>2. PICK g : IsSumOf(g, f, E) /\ SumFunction(f) = g[E]
  BY <1>1, SumsExist
<1>3. SumFunction([y \in D |-> f[y]]) = g[D]
  <2>1. D \in SUBSET E /\ f \in [E -> Int]
    OBVIOUS
  <2> HIDE DEF E
  <2> QED BY <1>1, <1>2, <2>1, SumOfSubset
<1>4. g[E] = f[x] + g[E \ {x}] /\ E \ {x} = D /\ g[D] \in Int
  BY <1>2 DEF IsSumOf
<1>5. f[x] \in Int
  OBVIOUS
<1>6. g[E] = g[D] + f[x]
  <2> HIDE DEF E
  <2>1. g[E] = f[x] + g[D] /\ g[D] \in Int
    BY <1>4, Zenon
  <2>2. \A m, n \in Int : m + n = n + m
    OBVIOUS
  <2> QED BY <1>5, <2>1, <2>2, Zenon
<1> QED BY <1>2, <1>3, <1>6, Zenon

\* The sum of two parts.
LEMMA SumOfParts ==
  ASSUME NEW D, IsFiniteSet(D), NEW A, NEW B, D = A \cup B, A \cap B = {}, NEW f \in [D -> Int]
  PROVE  SumFunction(f) = SumFunction([y \in A |-> f[y]]) + SumFunction([y \in B |-> f[y]])
<1>1. PICK g : IsSumOf(g, f, D) /\ SumFunction(f) = g[D]
  BY SumsExist
<1>2. SumFunction([y \in A |-> f[y]]) = g[A] /\ SumFunction([y \in B |-> f[y]]) = g[B]
  <2>1. A \in SUBSET D /\ B \in SUBSET D
    OBVIOUS
  <2> QED BY <1>1, <2>1, SumOfSubset
<1> DEFINE Adds(s) == g[A \cup s] = g[A] + g[s]
           good == {s \in SUBSET B : Adds(s)}
<1>3. ASSUME NEW s \in SUBSET B, \A t \in SUBSET s : t # s => t \in good PROVE Adds(s)
  <2>1. g[A] \in Int
    BY <1>1 DEF IsSumOf
  <2>2. CASE s = {}
    <3>1. g[{}] = 0 /\ A \cup s = A
      BY <1>1, <2>2 DEF IsSumOf
    <3> QED BY <2>1, <2>2, <3>1
  <2>3. CASE s # {}
    <3>1. PICK x \in s : TRUE
      BY <2>3
    <3> DEFINE r == s \ {x}
    <3>2. (A \cup s) \ {x} = A \cup r
      OBVIOUS
    <3>3. g[A \cup s] = f[x] + g[A \cup r] /\ g[s] = f[x] + g[r]
      <4>1. A \cup s \in SUBSET D /\ s \in SUBSET D /\ x \in A \cup s
        OBVIOUS
      <4>2. g[A \cup s] = f[x] + g[(A \cup s) \ {x}]
        BY <1>1, <4>1 DEF IsSumOf
      <4>3. g[s] = f[x] + g[s \ {x}]
        BY <1>1, <4>1 DEF IsSumOf
      <4> QED BY <4>2, <4>3, <3>2
    <3>4. g[A \cup r] = g[A] + g[r]
      <4>1. r \in good
        BY <1>3
      <4> QED BY <4>1
    <3>5. f[x] \in Int /\ g[r] \in Int
      <4>1. r \in SUBSET D /\ x \in D
        OBVIOUS
      <4> QED BY <1>1, <4>1 DEF IsSumOf
    <3> HIDE DEF r
    <3> QED BY <2>1, <3>3, <3>4, <3>5
  <2> QED BY <2>2, <2>3
<1>4. IsFiniteSet(B)
  BY FS_Subset
<1>5. B \in good
  <2>1. \A s \in SUBSET B : (\A t \in SUBSET s : t # s => t \in good) => s \in good
    BY <1>3
  <2> HIDE DEF good
  <2>2. \A s \in SUBSET B : s \in good
    BY <1>4, <2>1, SubsetInduction
  <2> QED BY <2>2
<1>6. g[D] = g[A] + g[B]
  BY <1>5
<1> QED BY <1>1, <1>2, <1>6

\* A smaller function has a smaller sum.
LEMMA SumsCompare ==
  ASSUME NEW D, IsFiniteSet(D), NEW f \in [D -> Int], NEW k \in [D -> Int],
         \A x \in D : f[x] <= k[x]
  PROVE  SumFunction(f) <= SumFunction(k)
<1>1. PICK g : IsSumOf(g, f, D) /\ SumFunction(f) = g[D]
  BY SumsExist
<1>2. PICK h : IsSumOf(h, k, D) /\ SumFunction(k) = h[D]
  BY SumsExist
<1> DEFINE good == {s \in SUBSET D : g[s] <= h[s]}
<1>3. ASSUME NEW s \in SUBSET D, \A t \in SUBSET s : t # s => t \in good PROVE g[s] <= h[s]
  <2>1. CASE s = {}
    BY <1>1, <1>2, <2>1 DEF IsSumOf
  <2>2. CASE s # {}
    <3>1. PICK x \in s : TRUE
      BY <2>2
    <3> DEFINE r == s \ {x}
    <3>2. g[s] = f[x] + g[r] /\ h[s] = k[x] + h[r]
      BY <1>1, <1>2 DEF IsSumOf
    <3>3. r \in good /\ r \in SUBSET D /\ x \in D
      BY <1>3
    <3>4. g[r] \in Int /\ h[r] \in Int /\ f[x] \in Int /\ k[x] \in Int /\ f[x] <= k[x] /\ g[r] <= h[r]
      BY <1>1, <1>2, <3>3 DEF IsSumOf
    <3> HIDE DEF r
    <3> QED BY <3>2, <3>4
  <2> QED BY <2>1, <2>2
<1>4. D \in good
  <2>1. \A s \in SUBSET D : (\A t \in SUBSET s : t # s => t \in good) => s \in good
    BY <1>3
  <2> HIDE DEF good
  <2>2. \A s \in SUBSET D : s \in good
    BY <2>1, SubsetInduction
  <2> QED BY <2>2
<1> QED BY <1>1, <1>2, <1>4

\* Sums add up, element by element.
LEMMA SumsAddUp ==
  ASSUME NEW D, IsFiniteSet(D), NEW f \in [D -> Int], NEW k \in [D -> Int], NEW e \in [D -> Int],
         \A x \in D : f[x] = k[x] + e[x]
  PROVE  SumFunction(f) = SumFunction(k) + SumFunction(e)
<1>1. PICK g : IsSumOf(g, k, D) /\ SumFunction(k) = g[D]
  BY SumsExist
<1>2. PICK h : IsSumOf(h, e, D) /\ SumFunction(e) = h[D]
  BY SumsExist
<1>3. PICK w : IsSumOf(w, f, D) /\ SumFunction(f) = w[D]
  BY SumsExist
<1> DEFINE j == [s \in SUBSET D |-> g[s] + h[s]]
<1>4. IsSumOf(j, f, D)
  <2>1. \A s \in SUBSET D : g[s] \in Int /\ h[s] \in Int
    BY <1>1, <1>2 DEF IsSumOf
  <2>2. j \in [SUBSET D -> Int] /\ j[{}] = 0
    <3>1. g[{}] = 0 /\ h[{}] = 0
      BY <1>1, <1>2 DEF IsSumOf
    <3> QED BY <2>1, <3>1
  <2>3. ASSUME NEW s \in SUBSET D, NEW x \in s PROVE j[s] = f[x] + j[s \ {x}]
    <3>1. g[s] = k[x] + g[s \ {x}] /\ h[s] = e[x] + h[s \ {x}] /\ f[x] = k[x] + e[x]
      BY <1>1, <1>2 DEF IsSumOf
    <3>2. j[s] = g[s] + h[s] /\ j[s \ {x}] = g[s \ {x}] + h[s \ {x}]
      OBVIOUS
    <3>3. g[s \ {x}] \in Int /\ h[s \ {x}] \in Int /\ k[x] \in Int /\ e[x] \in Int
      BY <2>1
    <3> HIDE DEF j
    <3> QED BY <3>1, <3>2, <3>3
  <2> HIDE DEF j
  <2> QED BY <2>2, <2>3 DEF IsSumOf
<1>5. w[D] = j[D]
  <2> HIDE DEF j
  <2> QED BY <1>3, <1>4, SumsAgree
<1> QED BY <1>1, <1>2, <1>3, <1>5

\* Nothing adds up to nothing.
LEMMA SumOfZeros ==
  ASSUME NEW D, IsFiniteSet(D), NEW f \in [D -> Int], \A x \in D : f[x] = 0
  PROVE  SumFunction(f) = 0
<1>1. SumFunction(f) = SumFunction(f) + SumFunction(f)
  <2>1. \A x \in D : f[x] = f[x] + f[x]
    OBVIOUS
  <2> QED BY <2>1, SumsAddUp
<1>2. SumFunction(f) \in Int
  BY SumType
<1>3. \A n \in Int : n = n + n => n = 0
  OBVIOUS
<1> QED BY <1>1, <1>2, <1>3, Zenon

\* A sum of natural numbers is one.
LEMMA SumOfNaturals ==
  ASSUME NEW D, IsFiniteSet(D), NEW f \in [D -> Nat]
  PROVE  SumFunction(f) \in Nat
<1> DEFINE zero == [x \in D |-> 0]
<1>1. SumFunction(zero) = 0
  <2>1. zero \in [D -> Int] /\ \A x \in D : zero[x] = 0
    OBVIOUS
  <2> HIDE DEF zero
  <2> QED BY <2>1, SumOfZeros
<1>2. SumFunction(zero) <= SumFunction(f) /\ SumFunction(f) \in Int
  <2>1. zero \in [D -> Int] /\ f \in [D -> Int] /\ \A x \in D : zero[x] <= f[x]
    OBVIOUS
  <2> HIDE DEF zero
  <2>2. SumFunction(zero) <= SumFunction(f)
    BY <2>1, SumsCompare
  <2>3. SumFunction(f) \in Int
    BY <2>1, SumType
  <2> QED BY <2>2, <2>3
<1> QED BY <1>1, <1>2
=============================================================================
