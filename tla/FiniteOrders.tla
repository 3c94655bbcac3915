---------------------------- MODULE FiniteOrders ----------------------------
(***************************************************************************)
(* What the proofs use of orders on finite sets: the sets of elements      *)
(* before each element, ordered strictly by inclusion, have a minimal one, *)
(* and it is empty.  From it come induction, over a set of numbers in the  *)
(* place of a predicate on them, and definition by recursion, with the     *)
(* step as a function.                                                     *)
(***************************************************************************)
EXTENDS Integers, FiniteSetTheorems, WellFoundedInduction, TLAPS

StrictOrder(R, S) ==
  /\ \A x \in S : <<x, x>> \notin R
  /\ \A x, y, z \in S : <<x, y>> \in R /\ <<y, z>> \in R => <<x, z>> \in R

Total(R, S) == \A x, y \in S : x = y \/ <<x, y>> \in R \/ <<y, x>> \in R

(* The elements that fewer than n come before: a page of n. *)
FirstPage(R, S, n) == {x \in S : Cardinality({y \in S : <<y, x>> \in R}) < n}

(* A strict order on a finite set has an element that nothing comes before. *)
LEMMA FirstOf ==
  ASSUME NEW S, IsFiniteSet(S), S # {}, NEW R, StrictOrder(R, S)
  PROVE  \E x \in S : \A y \in S : <<y, x>> \notin R
<1> DEFINE before(x) == {y \in S : <<y, x>> \in R}
           T == {before(x) : x \in S}
<1>1. T \subseteq FiniteSubsetsOf(S) /\ T # {}
  <2>1. \A x \in S : before(x) \in SUBSET S
    OBVIOUS
  <2>2. T \subseteq SUBSET S
    <3> HIDE DEF before
    <3> QED BY <2>1
  <2>3. PICK x \in S : TRUE
    OBVIOUS
  <2>4. before(x) \in T
    OBVIOUS
  <2> QED BY <2>2, <2>4, FS_FiniteSubsetsOfFinite
<1>2. PICK t \in T : \A u \in T : <<u, t>> \notin StrictSubsetOrdering(S)
  <2> HIDE DEF T
  <2> QED BY <1>1, FS_StrictSubsetOrderingWellFounded, WFMin
<1>3. PICK x \in S : t = before(x)
  BY DEF T
<1>4. ASSUME NEW y \in S, <<y, x>> \in R PROVE FALSE
  <2>1. before(y) \subseteq before(x) /\ y \in before(x) /\ y \notin before(y)
    BY <1>4 DEF StrictOrder
  <2>2. before(y) \in T /\ before(y) \in SUBSET S /\ before(x) \in SUBSET S
    BY <1>4 DEF T
  <2> QED BY <1>2, <1>3, <2>1, <2>2 DEF StrictSubsetOrdering
<1> QED BY <1>4

(* A finite set of integers has a least and a greatest element. *)
LEMMA LeastElement ==
  ASSUME NEW S \in SUBSET Int, IsFiniteSet(S), S # {}
  PROVE  \E x \in S : \A y \in S : x <= y
<1> DEFINE R == {q \in S \X S : q[1] < q[2]}
<1>1. \A x, y \in S : <<x, y>> \in R <=> x < y
  OBVIOUS
<1> HIDE DEF R
<1>2. \A x \in S : <<x, x>> \notin R
  BY <1>1
<1>3. \A x, y, z \in S : <<x, y>> \in R /\ <<y, z>> \in R => <<x, z>> \in R
  BY <1>1
<1>4. PICK x \in S : \A y \in S : <<y, x>> \notin R
  BY <1>2, <1>3, FirstOf DEF StrictOrder
<1>5. \A y \in S : y \in Int /\ ~(y < x)
  BY <1>1, <1>4
<1>6. x \in Int
  BY <1>4
<1> QED BY <1>5, <1>6

LEMMA GreatestElement ==
  ASSUME NEW S \in SUBSET Int, IsFiniteSet(S), S # {}
  PROVE  \E x \in S : \A y \in S : x >= y
<1> DEFINE R == {q \in S \X S : q[1] > q[2]}
<1>1. \A x, y \in S : <<x, y>> \in R <=> x > y
  OBVIOUS
<1> HIDE DEF R
<1>2. \A x \in S : <<x, x>> \notin R
  BY <1>1
<1>3. \A x, y, z \in S : <<x, y>> \in R /\ <<y, z>> \in R => <<x, z>> \in R
  BY <1>1
<1>4. PICK x \in S : \A y \in S : <<y, x>> \notin R
  BY <1>2, <1>3, FirstOf DEF StrictOrder
<1>5. \A y \in S : y \in Int /\ ~(y > x)
  BY <1>1, <1>4
<1>6. x \in Int
  BY <1>4
<1> QED BY <1>5, <1>6

(* In a total order the page has a last element; whatever is not on the page comes
   after all of it, and then the set is larger than the page. *)
LEMMA PageFacts ==
  ASSUME NEW S, IsFiniteSet(S), S # {}, NEW R, StrictOrder(R, S), Total(R, S), NEW n \in Nat \ {0}
  PROVE  /\ FirstPage(R, S, n) \subseteq S /\ IsFiniteSet(FirstPage(R, S, n))
         /\ \E last \in FirstPage(R, S, n) :
              \A x \in FirstPage(R, S, n) : x = last \/ <<x, last>> \in R
         /\ \A x \in S \ FirstPage(R, S, n), p \in FirstPage(R, S, n) :
              Cardinality(S) > n /\ <<p, x>> \in R
<1> DEFINE page == FirstPage(R, S, n)
           before(x) == {y \in S : <<y, x>> \in R}
<1>1. \A x \in S : IsFiniteSet(before(x)) /\ Cardinality(before(x)) \in Nat
  <2>1. \A x \in S : before(x) \in SUBSET S
    OBVIOUS
  <2> HIDE DEF before
  <2> QED BY <2>1, FS_Subset, FS_CardinalityType
<1>2. page \subseteq S /\ \A x \in S : x \in page <=> Cardinality(before(x)) < n
  BY DEF FirstPage
<1> HIDE DEF page
<1>3. IsFiniteSet(page)
  BY <1>2, FS_Subset
<1>4. page # {}
  <2>1. PICK x \in S : \A y \in S : <<y, x>> \notin R
    BY FirstOf
  <2>2. before(x) = {}
    BY <2>1
  <2>3. Cardinality(before(x)) = 0
    BY <2>2, FS_EmptySet
  <2> HIDE DEF before
  <2> QED BY <1>2, <2>3
<1>5. \E last \in page : \A x \in page : x = last \/ <<x, last>> \in R
  <2> DEFINE O == {q \in S \X S : <<q[2], q[1]>> \in R}
  <2>1. \A x, y \in S : <<x, y>> \in O <=> <<y, x>> \in R
    OBVIOUS
  <2> HIDE DEF O
  <2>2. StrictOrder(O, page)
    BY <1>2, <2>1 DEF StrictOrder
  <2>3. PICK last \in page : \A x \in page : <<x, last>> \notin O
    BY <1>3, <1>4, <2>2, FirstOf
  <2> QED BY <1>2, <2>1, <2>3 DEF Total
<1>6. ASSUME NEW x \in S \ page, NEW p \in page PROVE Cardinality(S) > n /\ <<p, x>> \in R
  <2>1. ~(Cardinality(before(x)) < n) /\ Cardinality(before(x)) \in Nat
        /\ Cardinality(before(p)) < n /\ Cardinality(before(p)) \in Nat
        /\ p \in S /\ x # p
    BY <1>1, <1>2
  <2>2. <<p, x>> \in R
    <3> SUFFICES ASSUME <<x, p>> \in R PROVE FALSE
      BY <2>1 DEF Total
    <3>1. before(x) \subseteq before(p)
      BY <2>1 DEF StrictOrder
    <3>2. Cardinality(before(x)) <= Cardinality(before(p))
      BY <1>1, <2>1, <3>1, FS_Subset
    <3> HIDE DEF before
    <3> QED BY <2>1, <3>2
  <2>3. before(x) \cup {x} \subseteq S /\ x \notin before(x)
    BY DEF StrictOrder
  <2>4. Cardinality(before(x) \cup {x}) = Cardinality(before(x)) + 1
    BY <1>1, <2>3, FS_AddElement
  <2>5. Cardinality(before(x) \cup {x}) <= Cardinality(S) /\ Cardinality(S) \in Nat
    BY <2>3, FS_Subset, FS_CardinalityType
  <2> HIDE DEF before
  <2> QED BY <2>1, <2>2, <2>4, <2>5
<1> QED BY <1>2, <1>3, <1>5, <1>6 DEF page

(* A set of natural numbers that is not empty has a least element. *)
LEMMA LeastNatural ==
  ASSUME NEW S \in SUBSET Nat, S # {}
  PROVE  \E x \in S : \A y \in S : x <= y
<1>1. PICK n \in S : TRUE
  OBVIOUS
<1> DEFINE T == {m \in 0..n : m \in S}
<1>2. n \in T /\ T \in SUBSET Int
  OBVIOUS
<1>3. IsFiniteSet(T)
  <2>1. T \subseteq 0..n
    OBVIOUS
  <2>2. IsFiniteSet(0..n)
    BY FS_Interval
  <2> HIDE DEF T
  <2> QED BY <2>1, <2>2, FS_Subset
<1>4. PICK x \in T : \A y \in T : x <= y
  <2> HIDE DEF T
  <2> QED BY <1>2, <1>3, LeastElement
<1>5. ASSUME NEW y \in S PROVE x <= y
  BY <1>4
<1> QED BY <1>4, <1>5

(* Induction: a set with 0 and, with each k below n, the next one. *)
LEMMA UpTo ==
  ASSUME NEW n \in Nat, NEW S, 0 \in S, \A k \in 0..(n - 1) : k \in S => k + 1 \in S
  PROVE  \A k \in 0..n : k \in S
<1> SUFFICES ASSUME NEW l \in 0..n, l \notin S PROVE FALSE
  OBVIOUS
<1> DEFINE T == {k \in 0..n : k \notin S}
<1>1. T \in SUBSET Nat /\ T # {}
  OBVIOUS
<1>2. PICK x \in T : \A y \in T : x <= y
  <2> HIDE DEF T
  <2> QED BY <1>1, LeastNatural
<1>3. x # 0 /\ x \in 0..n /\ x \notin S
  OBVIOUS
<1>4. x - 1 \in 0..(n - 1) /\ ~(x <= x - 1)
  BY <1>3
<1>5. x - 1 \in S
  BY <1>2, <1>4
<1> QED BY <1>3, <1>4, <1>5

(* Recursion: there is a function of what the steps make of the start. *)
Iterable(X, start, n, step) ==
  \E f \in [0..n -> X] : f[0] = start /\ \A i \in 1..n : f[i] = step[i][f[i - 1]]

LEMMA Iterates ==
  ASSUME NEW X, NEW start \in X, NEW n \in Nat, NEW step \in [1..n -> [X -> X]]
  PROVE  Iterable(X, start, n, step)
<1> DEFINE Runs(k, f) == f[0] = start /\ \A i \in 1..k : f[i] = step[i][f[i - 1]]
           S == {k \in 0..n : \E f \in [0..k -> X] : Runs(k, f)}
<1>1. 0 \in S
  <2>1. [i \in 0..0 |-> start] \in [0..0 -> X] /\ Runs(0, [i \in 0..0 |-> start])
    OBVIOUS
  <2> HIDE DEF Runs
  <2>2. \E f \in [0..0 -> X] : Runs(0, f)
    BY <2>1
  <2> QED BY <2>2
<1>2. ASSUME NEW k \in 0..(n - 1), k \in S PROVE k + 1 \in S
  <2>1. PICK f \in [0..k -> X] : Runs(k, f)
    BY <1>2
  <2> DEFINE g == [i \in 0..(k + 1) |-> IF i <= k THEN f[i] ELSE step[k + 1][f[k]]]
  <2>2. f[k] \in X /\ k + 1 \in 1..n /\ k + 1 \in 0..n
    OBVIOUS
  <2>3. step[k + 1][f[k]] \in X
    BY <2>2
  <2>4. g \in [0..(k + 1) -> X]
    BY <2>3
  <2>5. g[0] = start
    BY <2>1
  <2>6. ASSUME NEW i \in 1..(k + 1) PROVE g[i] = step[i][g[i - 1]]
    <3>1. CASE i <= k
      BY <2>1, <3>1
    <3>2. CASE i = k + 1
      BY <3>2
    <3> QED BY <3>1, <3>2
  <2> HIDE DEF g
  <2> QED BY <2>2, <2>4, <2>5, <2>6
<1>3. n \in S
  <2> HIDE DEF S, Runs
  <2>1. \A k \in 0..n : k \in S
    BY <1>1, <1>2, UpTo
  <2> QED BY <2>1
<1> QED BY <1>3 DEF Iterable
=============================================================================
