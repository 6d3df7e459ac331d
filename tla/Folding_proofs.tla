--------------------------- MODULE Folding_proofs ---------------------------
(***************************************************************************)
(* Induction along a fold over a finite set.  The library defines a fold   *)
(* by a recursive function on the subsets of the set; here the recursion   *)
(* is shown to have a solution, and what holds of the base and is kept by  *)
(* every step to hold of the result.                                       *)
(*                                                                         *)
(* The step, the choice of the next element and the predicate are          *)
(* parameters of the module, so that each fold of the engine becomes an    *)
(* INSTANCE of it.  c is whatever else the step depends on.                *)
(***************************************************************************)
EXTENDS Integers, FiniteSets, Folds, FiniteSetTheorems, WellFoundedInduction, TLAPS

CONSTANTS Choose(_),       \* the element a subset gives up next
          Step(_, _, _),   \* Step(e, acc, c): element e joins the accumulator
          Good(_, _, _)    \* Good(s, acc, c): acc may be the fold over s

Fold(S, base, c) ==
    MapThenFoldSet(LAMBDA e, acc : Step(e, acc, c), base, LAMBDA e : e, Choose, S)

\* What the recursive function of the fold is to satisfy at the subset s.
Body(f, s, base, c) ==
    IF s = {} THEN base ELSE Step(Choose(s), f[s \ {Choose(s)}], c)
Solvable(D, base, c) == \E f : f = [s \in D |-> Body(f, s, base, c)]
Recursion(f, S, base, c) ==
    Fold(S, base, c) = f[S] /\ \A s \in SUBSET S : f[s] = Body(f, s, base, c)
Upto(S, n) == {s \in SUBSET S : Cardinality(s) <= n}

\* The hypotheses of the induction: elements are chosen from the set, and
\* every step keeps Good.
Chooses(S) == \A s \in SUBSET S : s # {} => Choose(s) \in s
Kept(S, c) == \A s \in SUBSET S : \A acc :
    s # {} /\ Good(s \ {Choose(s)}, acc, c) => Good(s, Step(Choose(s), acc, c), c)

(***************************************************************************)
(* A non-empty set of naturals has a least member.                         *)
(***************************************************************************)
LEMMA LeastMember ==
  ASSUME NEW T \in SUBSET Nat, T # {}
  PROVE  \E m \in T : \A n \in T : m <= n
<1>1. PICK m \in T : \A n \in T : <<n, m>> \notin OpToRel(<, Nat)
  BY WFMin, NatLessThanWellFounded
<1>2. ASSUME NEW n \in T PROVE m <= n
  <2> SUFFICES ASSUME n < m PROVE FALSE
    OBVIOUS
  <2>1. <<n, m>> \in Nat \X Nat
    OBVIOUS
  <2>2. <<n, m>> \in OpToRel(<, Nat)
    BY <2>1 DEF OpToRel
  <2> QED BY <1>1, <2>2
<1> QED BY <1>2

(***************************************************************************)
(* The recursion has a solution on the subsets of up to n elements.        *)
(***************************************************************************)
LEMMA PartialFold ==
  ASSUME NEW S, IsFiniteSet(S), Chooses(S), NEW base, NEW c, NEW n \in Nat
  PROVE  Solvable(Upto(S, n), base, c)
<1> DEFINE Part(k) == {s \in SUBSET S : Cardinality(s) <= k}
           Solves(f, k) == f = [s \in Part(k) |-> Body(f, s, base, c)]
           Bad == {k \in Nat : ~\E f : Solves(f, k)}
<1>0. \A s \in SUBSET S : IsFiniteSet(s) /\ Cardinality(s) \in Nat
  BY FS_Subset, FS_CardinalityType
<1>1. SUFFICES Bad = {}
  BY <1>1 DEF Solvable, Upto
<1>2. SUFFICES ASSUME Bad # {} PROVE FALSE
  OBVIOUS
<1>3. PICK k \in Bad : \A j \in Bad : k <= j
  <2>1. Bad \in SUBSET Nat
    OBVIOUS
  <2> HIDE DEF Bad
  <2> QED BY <1>2, <2>1, LeastMember
<1>4. CASE k = 0
  <2> DEFINE g == [s \in Part(0) |-> base]
  <2>1. \A s \in Part(0) : s = {}
    <3> SUFFICES ASSUME NEW s \in Part(0) PROVE s = {}
      OBVIOUS
    <3>1. Cardinality(s) = 0
      BY <1>0
    <3> QED BY <1>0, <3>1, FS_EmptySet
  <2>2. \A s \in Part(0) : Body(g, s, base, c) = base
    BY <2>1 DEF Body
  <2>3. Solves(g, 0)
    BY <2>2
  <2> QED BY <1>3, <1>4, <2>3
<1>5. CASE k # 0
  <2>1. k - 1 \in Nat /\ ~(k <= k - 1)
    BY <1>5
  <2>2. k - 1 \notin Bad
    BY <1>3, <2>1
  <2>3. PICK f : Solves(f, k - 1)
    BY <2>1, <2>2
  <2> DEFINE g == [s \in Part(k) |-> Body(f, s, base, c)]
  <2>4. ASSUME NEW s \in Part(k), s # {}
        PROVE  s \ {Choose(s)} \in Part(k - 1) /\ s \ {Choose(s)} \in Part(k)
    <3>1. Choose(s) \in s /\ s \in SUBSET S
      BY <2>4 DEF Chooses
    <3>2. Cardinality(s \ {Choose(s)}) = Cardinality(s) - 1
      BY <1>0, <3>1, FS_RemoveElement
    <3>3. Cardinality(s) \in Nat /\ Cardinality(s) <= k
      BY <1>0
    <3> QED BY <2>1, <3>1, <3>2, <3>3
  <2>5. ASSUME NEW s \in Part(k) PROVE Body(g, s, base, c) = Body(f, s, base, c)
    <3>1. CASE s = {}
      BY <3>1 DEF Body
    <3>2. CASE s # {}
      <4>1. PICK t : t = s \ {Choose(s)} /\ t \in Part(k - 1) /\ t \in Part(k)
        BY <2>4, <3>2
      <4>2. g[t] = Body(f, t, base, c)
        BY <4>1
      <4>3. f[t] = Body(f, t, base, c)
        BY <2>3, <4>1
      <4> HIDE DEF g
      <4> QED BY <3>2, <4>1, <4>2, <4>3 DEF Body
    <3> QED BY <3>1, <3>2
  <2>6. Solves(g, k)
    <3> HIDE DEF Part
    <3>1. g = [s \in Part(k) |-> Body(f, s, base, c)]
      OBVIOUS
    <3> HIDE DEF g
    <3>2. [s \in Part(k) |-> Body(f, s, base, c)] = [s \in Part(k) |-> Body(g, s, base, c)]
      BY <2>5
    <3> QED BY <3>1, <3>2
  <2> QED BY <1>3, <2>6
<1> QED BY <1>4, <1>5

(***************************************************************************)
(* The recursion has a solution on all subsets, and the fold is its value  *)
(* at the whole set.                                                       *)
(***************************************************************************)
LEMMA FoldRecursion ==
  ASSUME NEW S, IsFiniteSet(S), NEW base, NEW c, Chooses(S)
  PROVE  \E f : Recursion(f, S, base, c)
<1> DEFINE F == CHOOSE f : f = [s \in SUBSET S |-> Body(f, s, base, c)]
<1>1. Fold(S, base, c) = F[S]
  BY Zenon DEF Fold, MapThenFoldSet, Body
<1>2. \A s \in SUBSET S : F[s] = Body(F, s, base, c)
  <2>0. PICK n \in Nat : n = Cardinality(S)
    BY FS_CardinalityType
  <2>1. Upto(S, n) = SUBSET S
    BY <2>0, FS_Subset DEF Upto
  <2>2. Solvable(Upto(S, n), base, c)
    BY PartialFold
  <2>3. \E f : f = [s \in SUBSET S |-> Body(f, s, base, c)]
    BY <2>1, <2>2 DEF Solvable
  <2>4. F = [s \in SUBSET S |-> Body(F, s, base, c)]
    BY <2>3
  <2> HIDE DEF F
  <2> QED BY <2>4
<1> HIDE DEF F
<1> QED BY <1>1, <1>2 DEF Recursion

(***************************************************************************)
(* What holds of the base and is kept by every step holds of the fold.     *)
(***************************************************************************)
LEMMA FoldInvariant ==
  ASSUME NEW S, IsFiniteSet(S), NEW base, NEW c,
         Chooses(S), Good({}, base, c), Kept(S, c)
  PROVE  Good(S, Fold(S, base, c), c)
<1>0. \A s \in SUBSET S : IsFiniteSet(s) /\ Cardinality(s) \in Nat
  BY FS_Subset, FS_CardinalityType
<1>1. PICK F : /\ Fold(S, base, c) = F[S]
               /\ \A s \in SUBSET S : F[s] = Body(F, s, base, c)
  BY FoldRecursion DEF Recursion
<1> DEFINE Bad == {k \in Nat : \E s \in SUBSET S : Cardinality(s) = k /\ ~Good(s, F[s], c)}
<1>3. SUFFICES ASSUME Bad # {} PROVE FALSE
  BY <1>0, <1>1
<1>4. PICK k \in Bad : \A j \in Bad : k <= j
  <2>1. Bad \in SUBSET Nat
    OBVIOUS
  <2> HIDE DEF Bad
  <2> QED BY <1>3, <2>1, LeastMember
<1>5. PICK s \in SUBSET S : Cardinality(s) = k /\ ~Good(s, F[s], c)
  BY <1>4
<1>6. s # {}
  <2>1. s = {} => F[s] = base
    BY <1>1 DEF Body
  <2> QED BY <1>5, <2>1
<1>7. PICK t \in SUBSET S : t = s \ {Choose(s)} /\ Cardinality(t) = k - 1 /\ k - 1 \in Nat
  <2>1. Choose(s) \in s
    BY <1>6 DEF Chooses
  <2>2. Cardinality(s \ {Choose(s)}) = Cardinality(s) - 1
    BY <1>0, <2>1, FS_RemoveElement
  <2> QED BY <1>0, <1>5, <2>2
<1>8. Good(t, F[t], c)
  <2>1. ~(k <= k - 1)
    BY <1>7
  <2> QED BY <1>4, <1>7, <2>1
<1>9. F[s] = Step(Choose(s), F[t], c)
  BY <1>1, <1>6, <1>7 DEF Body
<1> QED BY <1>5, <1>6, <1>7, <1>8, <1>9 DEF Kept

(***************************************************************************)
(* A fold over a sequence visits its positions from the first to the last, *)
(* because the last of a set of positions is taken off first.              *)
(***************************************************************************)
Latest(s) == CHOOSE x \in s : \A y \in s : x >= y
FromFirst(n) == \A s \in SUBSET (1 .. n) : Choose(s) = Latest(s)
KeptByVisits(n, c) == \A i \in 1 .. n : \A acc :
    Good(1 .. (i - 1), acc, c) => Good(1 .. i, Step(i, acc, c), c)

LEMMA LatestInSet ==
  ASSUME NEW n \in Nat, NEW s \in SUBSET (1 .. n), s # {}
  PROVE  Latest(s) \in s /\ \A y \in s : Latest(s) >= y
<1> DEFINE Up == {k \in Nat : \A y \in s : y <= k}
<1>1. PICK k \in Up : \A j \in Up : k <= j
  <2>1. Up \in SUBSET Nat /\ n \in Up
    OBVIOUS
  <2> HIDE DEF Up
  <2> QED BY <2>1, LeastMember
<1>2. k \in s
  <2> SUFFICES ASSUME k \notin s PROVE FALSE
    OBVIOUS
  <2>1. \A y \in s : y \in Nat /\ y <= k /\ y # k /\ 1 <= y
    BY <1>1
  <2>0. PICK z \in s : TRUE
    OBVIOUS
  <2>2. k \in Nat /\ k - 1 \in Nat
    BY <1>1, <2>0, <2>1
  <2>4. \A y \in s : y <= k - 1
    BY <2>1, <2>2
  <2>3. k - 1 \in Up
    BY <2>2, <2>4
  <2>5. ~(k <= k - 1)
    BY <2>2
  <2> QED BY <1>1, <2>3, <2>5
<1>3. k \in s /\ \A y \in s : k >= y
  BY <1>1, <1>2
<1> QED BY <1>3 DEF Latest

(***************************************************************************)
(* What holds at the start and is kept by every visit holds at the end.    *)
(***************************************************************************)
THEOREM VisitInvariant ==
  ASSUME NEW n \in Nat, NEW base, NEW c, FromFirst(n), Good({}, base, c), KeptByVisits(n, c)
  PROVE  Good(1 .. n, Fold(1 .. n, base, c), c)
<1>0. IsFiniteSet(1 .. n)
  BY FS_Interval
<1>1. Chooses(1 .. n)
  BY LatestInSet DEF Chooses, FromFirst
<1>2. PICK F : /\ Fold(1 .. n, base, c) = F[1 .. n]
               /\ \A s \in SUBSET (1 .. n) : F[s] = Body(F, s, base, c)
  <2>1. PICK S : S = 1 .. n
    OBVIOUS
  <2>2. IsFiniteSet(S) /\ Chooses(S)
    BY <1>0, <1>1, <2>1
  <2>3. \E f : Recursion(f, S, base, c)
    BY ONLY <2>2, FoldRecursion
  <2> QED BY <2>1, <2>3 DEF Recursion
<1> DEFINE Bad == {k \in 0 .. n : ~Good(1 .. k, F[1 .. k], c)}
<1>3. SUFFICES ASSUME Bad # {} PROVE FALSE
  BY <1>2
<1>4. PICK k \in Bad : \A j \in Bad : k <= j
  <2>1. Bad \in SUBSET Nat
    OBVIOUS
  <2> HIDE DEF Bad
  <2> QED BY <1>3, <2>1, LeastMember
<1>5. k \in 1 .. n /\ k - 1 \in 0 .. n
  <2>1. 1 .. 0 = {}
    OBVIOUS
  <2>2. F[{}] = base
    BY <1>2 DEF Body
  <2> QED BY <1>4, <2>1, <2>2
<1>6. Good(1 .. (k - 1), F[1 .. (k - 1)], c)
  <2>1. ~(k <= k - 1)
    BY <1>5
  <2> QED BY <1>4, <1>5, <2>1
<1>7. PICK s \in SUBSET (1 .. n) : s = 1 .. k /\ s # {}
  <2>1. 1 .. k \in SUBSET (1 .. n) /\ k \in 1 .. k
    BY <1>5
  <2> QED BY <2>1
<1>8. Choose(s) = k
  <2>1. Choose(s) = Latest(s)
    BY DEF FromFirst
  <2>2. Latest(s) \in s /\ \A y \in s : Latest(s) >= y
    BY <1>7, LatestInSet
  <2> QED BY <1>5, <1>7, <2>1, <2>2
<1>9. s \ {Choose(s)} = 1 .. (k - 1)
  BY <1>5, <1>7, <1>8
<1>10. F[s] = Step(k, F[1 .. (k - 1)], c)
  BY <1>2, <1>7, <1>8, <1>9 DEF Body
<1> QED BY <1>4, <1>5, <1>6, <1>7, <1>10 DEF KeptByVisits
=============================================================================
