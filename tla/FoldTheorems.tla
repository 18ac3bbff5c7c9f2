---------------------------- MODULE FoldTheorems ----------------------------
(***************************************************************************)
(* Facts about sums over finite sets (SumFunctionOnSet of Functions), with *)
(* the induction principles they need.  The induction theorems of the      *)
(* library take an operator as a parameter, which the provers cannot       *)
(* instantiate; here the claim is a set, the numbers or the subsets for    *)
(* which it holds, and the argument is the smallest counterexample, which  *)
(* exists because < is well founded on the naturals.                       *)
(***************************************************************************)
EXTENDS Integers, Functions, FiniteSetTheorems, WellFoundedInduction, TLAPS

\* Every nonempty set of naturals has a least element.
LEMMA LeastNatural ==
    ASSUME NEW T \in SUBSET Nat, T # {}
    PROVE  \E x \in T : \A y \in T : x <= y
<1>. DEFINE R == OpToRel(<, Nat)
<1>1. IsWellFoundedOn(R, Nat)
  BY NatLessThanWellFounded
<1>2. \E x \in T : \A y \in T : ~(<<y, x>> \in R)
  <2>. HIDE DEF R
  <2>. QED BY <1>1, WFMin
<1>3. \A x, y \in Nat : <<y, x>> \in R <=> y < x
  BY DEF OpToRel
<1>4. PICK x \in T : \A y \in T : ~(<<y, x>> \in R)
  BY <1>2
<1>5. \A y \in T : ~(y < x)
  <2>. HIDE DEF R
  <2>. QED BY <1>3, <1>4
<1>6. \A y \in T : x <= y
  BY ONLY <1>5, T \in SUBSET Nat, x \in T
<1>. QED
  BY <1>6

\* Induction over the naturals, the claim given as the set where it holds.
LEMMA NaturalsBySet ==
    ASSUME NEW G \in SUBSET Nat, 0 \in G, \A n \in G : n + 1 \in G
    PROVE  G = Nat
<1>1. SUFFICES ASSUME Nat \ G # {} PROVE FALSE
  OBVIOUS
<1>2. PICK x \in Nat \ G : \A y \in Nat \ G : x <= y
  BY <1>1, LeastNatural
<1>3. x # 0 /\ x - 1 \in Nat
  BY <1>2
<1>4. x - 1 \in G
  BY <1>2, <1>3
<1>5. (x - 1) + 1 \in G
  BY <1>4
<1>. QED
  BY <1>2, <1>5

\* Induction over the subsets of a finite set, by their size.
LEMMA SubsetsBySize ==
    ASSUME NEW S, IsFiniteSet(S), NEW G \in SUBSET (SUBSET S),
           {} \in G,
           \A s \in SUBSET S :
             (s # {} /\ \A x \in s : \A t \in SUBSET (s \ {x}) : t \in G) => s \in G
    PROVE  \A s \in SUBSET S : s \in G
<1>1. SUFFICES ASSUME NEW bad \in SUBSET S, bad \notin G PROVE FALSE
  OBVIOUS
<1>. DEFINE Sizes == {n \in Nat : \E s \in SUBSET S : s \notin G /\ n = Cardinality(s)}
<1>2. \A s \in SUBSET S : IsFiniteSet(s) /\ Cardinality(s) \in Nat
  BY FS_Subset, FS_CardinalityType
<1>3. Cardinality(bad) \in Sizes
  BY <1>1, <1>2
<1>4. PICK n \in Sizes : \A m \in Sizes : n <= m
  <2>1. Sizes \in SUBSET Nat /\ Sizes # {}
    BY <1>3
  <2>. HIDE DEF Sizes
  <2>. QED BY <2>1, LeastNatural
<1>5. PICK s \in SUBSET S : s \notin G /\ n = Cardinality(s)
  BY <1>4
<1>6. s # {}
  BY <1>5
<1>7. ASSUME NEW x \in s, NEW t \in SUBSET (s \ {x}) PROVE t \in G
  <2>1. t \in SUBSET S /\ IsFiniteSet(s \ {x})
    BY <1>2, FS_Subset
  <2>2. Cardinality(s \ {x}) = Cardinality(s) - 1
    BY <1>2, FS_RemoveElement
  <2>3. Cardinality(t) <= Cardinality(s \ {x})
    BY <2>1, FS_Subset
  <2>4. Cardinality(t) < n
    BY <1>2, <1>5, <2>1, <2>2, <2>3
  <2>5. Cardinality(t) \notin Sizes
    BY <1>2, <1>4, <2>1, <2>4
  <2>. QED BY <1>2, <2>1, <2>5
<1>. QED
  BY <1>5, <1>6, <1>7

-----------------------------------------------------------------------------
(* The recursion behind SumFunctionOnSet.                                  *)

\* One round on the subset s: an element of it, and the rest.
Pick(s) == CHOOSE x \in s : TRUE
Round(f, sum, s) == IF s = {} THEN 0 ELSE f[Pick(s)] + sum[s \ {Pick(s)}]

\* sum holds the sums of all the sets in D.
Sums(f, sum, D) == sum = [s \in D |-> Round(f, sum, s)]

SumsOf(f, S) == CHOOSE sum : Sums(f, sum, SUBSET S)

\* The element of a round is in the set.
LEMMA PickIn == ASSUME NEW s, s # {} PROVE Pick(s) \in s
BY DEF Pick

\* SumFunctionOnSet, with the fold operators it is made of expanded.
LEMMA SumUnfolds ==
    ASSUME NEW f, NEW S
    PROVE  SumFunctionOnSet(f, S) = SumsOf(f, S)[S]
BY DEF SumFunctionOnSet, FoldFunctionOnSet, MapThenFoldSet, SumsOf, Sums, Round, Pick

\* The recursion has a solution: it is built up from the smaller sets.
LEMMA SumsExist ==
    ASSUME NEW f, NEW S, IsFiniteSet(S)
    PROVE  Sums(f, SumsOf(f, S), SUBSET S)
<1>. DEFINE Low(n) == {s \in SUBSET S : Cardinality(s) <= n}
            G == {n \in Nat : \E sum : Sums(f, sum, Low(n))}
<1>1. \A s \in SUBSET S : IsFiniteSet(s) /\ Cardinality(s) \in Nat
  BY FS_Subset, FS_CardinalityType
<1>2. \A s \in SUBSET S : s # {} => Cardinality(s \ {Pick(s)}) = Cardinality(s) - 1
  BY <1>1, PickIn, FS_RemoveElement
<1>3. 0 \in G
  <2>1. \A s \in Low(0) : s = {}
    BY <1>1, FS_EmptySet
  <2>2. Sums(f, [s \in Low(0) |-> 0], Low(0))
    BY <2>1 DEF Sums, Round
  <2>. QED BY <2>2
<1>4. ASSUME NEW n \in G PROVE n + 1 \in G
  <2>1. PICK g : Sums(f, g, Low(n))
    BY <1>4
  <2>. DEFINE h == [s \in Low(n + 1) |-> Round(f, g, s)]
  <2>2. ASSUME NEW s \in Low(n + 1) PROVE h[s] = Round(f, h, s)
    <3>1. CASE s = {}
      BY <3>1 DEF Round
    <3>2. CASE s # {}
      <4>. DEFINE t == s \ {Pick(s)}
      <4>1. t \in Low(n) /\ t \in Low(n + 1)
        BY <1>1, <1>2, <3>2
      <4>2. h[t] = g[t]
        BY <2>1, <4>1 DEF Sums
      <4>. QED BY <3>2, <4>2 DEF Round
    <3>. QED BY <3>1, <3>2
  <2>3. Sums(f, h, Low(n + 1))
    BY <2>2 DEF Sums
  <2>. QED BY <2>3
<1>5. G = Nat
  <2>. HIDE DEF G
  <2>1. G \in SUBSET Nat
    BY DEF G
  <2>. QED BY <1>3, <1>4, <2>1, NaturalsBySet
<1>6. Low(Cardinality(S)) = SUBSET S
  BY <1>1, FS_Subset
<1>7. \E sum : Sums(f, sum, SUBSET S)
  <2>1. Cardinality(S) \in G
    BY <1>1, <1>5
  <2>2. \E sum : Sums(f, sum, Low(Cardinality(S)))
    BY <2>1
  <2>. QED BY <1>6, <2>2
<1>. QED
  BY <1>7 DEF SumsOf

\* The sums of a set's subsets do not depend on the set.
LEMMA SumsAgree ==
    ASSUME NEW f, NEW S, IsFiniteSet(S), NEW T \in SUBSET S
    PROVE  \A s \in SUBSET T : SumsOf(f, S)[s] = SumsOf(f, T)[s]
<1>. DEFINE G == {s \in SUBSET T : SumsOf(f, S)[s] = SumsOf(f, T)[s]}
<1>1. IsFiniteSet(T)
  BY FS_Subset
<1>2. \A s \in SUBSET T : /\ SumsOf(f, S)[s] = Round(f, SumsOf(f, S), s)
                          /\ SumsOf(f, T)[s] = Round(f, SumsOf(f, T), s)
  <2>1. Sums(f, SumsOf(f, S), SUBSET S) /\ Sums(f, SumsOf(f, T), SUBSET T)
    BY <1>1, SumsExist
  <2>. HIDE DEF G
  <2>. QED BY <2>1 DEF Sums
<1>3. {} \in G
  BY <1>2 DEF Round
<1>4. ASSUME NEW s \in SUBSET T, s # {}, \A x \in s : \A t \in SUBSET (s \ {x}) : t \in G
      PROVE  s \in G
  <2>1. s \ {Pick(s)} \in G
    BY <1>4, PickIn
  <2>. QED BY <1>2, <1>4, <2>1 DEF Round
<1>5. \A s \in SUBSET T : s \in G
  <2>1. G \in SUBSET (SUBSET T)
    OBVIOUS
  <2>. HIDE DEF G
  <2>. QED BY <1>1, <1>3, <1>4, <2>1, SubsetsBySize
<1>. QED
  BY <1>5

\* A sum is one element and the sum of the rest.
LEMMA SumRecursion ==
    ASSUME NEW f, NEW S, IsFiniteSet(S)
    PROVE  SumFunctionOnSet(f, S)
             = IF S = {} THEN 0
               ELSE f[Pick(S)] + SumFunctionOnSet(f, S \ {Pick(S)})
<1>1. SumsOf(f, S)[S] = Round(f, SumsOf(f, S), S)
  <2>1. Sums(f, SumsOf(f, S), SUBSET S)
    BY SumsExist
  <2>2. S \in SUBSET S
    OBVIOUS
  <2>. QED BY <2>1, <2>2 DEF Sums
<1>2. S # {} => SumsOf(f, S)[S \ {Pick(S)}] = SumsOf(f, S \ {Pick(S)})[S \ {Pick(S)}]
  BY SumsAgree
<1>. QED
  BY <1>1, <1>2, SumUnfolds DEF Round

-----------------------------------------------------------------------------
(* Sums of integers.                                                       *)

\* The empty sum.
LEMMA SumEmpty == ASSUME NEW f PROVE SumFunctionOnSet(f, {}) = 0
BY SumRecursion, FS_EmptySet

\* A set of numbers that is closed under + holds every sum of its numbers.
LEMMA SumClosed ==
    ASSUME NEW D, 0 \in D, \A a, b \in D : a + b \in D,
           NEW f, NEW S, IsFiniteSet(S), \A x \in S : f[x] \in D
    PROVE  SumFunctionOnSet(f, S) \in D
<1>. DEFINE G == {s \in SUBSET S : SumFunctionOnSet(f, s) \in D}
<1>1. {} \in G
  BY SumEmpty
<1>2. ASSUME NEW s \in SUBSET S, s # {}, \A x \in s : \A t \in SUBSET (s \ {x}) : t \in G
      PROVE  s \in G
  <2>1. s \ {Pick(s)} \in G /\ f[Pick(s)] \in D
    BY <1>2, PickIn
  <2>2. SumFunctionOnSet(f, s) = f[Pick(s)] + SumFunctionOnSet(f, s \ {Pick(s)})
    BY <1>2, FS_Subset, SumRecursion
  <2>. QED BY <2>1, <2>2
<1>3. \A s \in SUBSET S : s \in G
  <2>1. G \in SUBSET (SUBSET S)
    OBVIOUS
  <2>. HIDE DEF G
  <2>. QED BY <1>1, <1>2, <2>1, SubsetsBySize
<1>. QED
  BY <1>3

\* A sum of integers is an integer.
LEMMA SumType ==
    ASSUME NEW f, NEW S, IsFiniteSet(S), \A x \in S : f[x] \in Int
    PROVE  SumFunctionOnSet(f, S) \in Int
<1>1. 0 \in Int /\ \A a, b \in Int : a + b \in Int
  OBVIOUS
<1>. QED
  BY <1>1, SumClosed, Zenon

\* A sum of naturals is a natural.
LEMMA SumNat ==
    ASSUME NEW f, NEW S, IsFiniteSet(S), \A x \in S : f[x] \in Nat
    PROVE  SumFunctionOnSet(f, S) \in Nat
<1>1. 0 \in Nat /\ \A a, b \in Nat : a + b \in Nat
  OBVIOUS
<1>. QED
  BY <1>1, SumClosed, Zenon

\* Any element may be taken out first: two elements are taken out in either
\* order.
LEMMA SumRemove ==
    ASSUME NEW f, NEW S, IsFiniteSet(S), \A x \in S : f[x] \in Int, NEW e \in S
    PROVE  SumFunctionOnSet(f, S) = f[e] + SumFunctionOnSet(f, S \ {e})
<1>. DEFINE Splits(s) == \A x \in s : SumFunctionOnSet(f, s) = f[x] + SumFunctionOnSet(f, s \ {x})
            G == {s \in SUBSET S : Splits(s)}
<1>1. {} \in G
  OBVIOUS
<1>2. ASSUME NEW s \in SUBSET S, s # {}, \A x \in s : \A t \in SUBSET (s \ {x}) : t \in G
      PROVE  s \in G
  <2>. DEFINE p == Pick(s)
  <2>1. p \in s /\ IsFiniteSet(s)
    BY <1>2, PickIn, FS_Subset
  <2>2. SumFunctionOnSet(f, s) = f[p] + SumFunctionOnSet(f, s \ {p})
    BY <1>2, <2>1, SumRecursion
  <2>. HIDE DEF p
  <2>3. ASSUME NEW x \in s, x # p
        PROVE  SumFunctionOnSet(f, s) = f[x] + SumFunctionOnSet(f, s \ {x})
    <3>1. s \ {p} \in G /\ s \ {x} \in G
      BY <1>2, <2>1
    <3>2. /\ SumFunctionOnSet(f, s \ {p}) = f[x] + SumFunctionOnSet(f, (s \ {p}) \ {x})
          /\ SumFunctionOnSet(f, s \ {x}) = f[p] + SumFunctionOnSet(f, (s \ {x}) \ {p})
      BY <2>1, <2>3, <3>1
    <3>3. (s \ {p}) \ {x} = (s \ {x}) \ {p}
      OBVIOUS
    <3>. DEFINE both == SumFunctionOnSet(f, (s \ {x}) \ {p})
    <3>4. f[x] \in Int /\ f[p] \in Int /\ both \in Int
      BY <2>1, FS_Subset, SumType
    <3>. HIDE DEF both
    <3>5. f[p] + (f[x] + both) = f[x] + (f[p] + both)
      BY <3>4
    <3>. QED BY <2>2, <3>2, <3>3, <3>5 DEF both
  <2>. QED BY <2>2, <2>3
<1>3. \A s \in SUBSET S : s \in G
  <2>1. G \in SUBSET (SUBSET S)
    OBVIOUS
  <2>. HIDE DEF G
  <2>. QED BY <1>1, <1>2, <2>1, SubsetsBySize
<1>. QED
  BY <1>3

\* An element that is added adds its number.
LEMMA SumAdd ==
    ASSUME NEW f, NEW S, IsFiniteSet(S), \A x \in S : f[x] \in Int,
           NEW e, e \notin S, f[e] \in Int
    PROVE  SumFunctionOnSet(f, S \cup {e}) = f[e] + SumFunctionOnSet(f, S)
<1>1. IsFiniteSet(S \cup {e})
  BY FS_AddElement
<1>2. (S \cup {e}) \ {e} = S
  OBVIOUS
<1>. QED
  BY <1>1, <1>2, SumRemove

\* The sum over one element.
LEMMA SumSingleton ==
    ASSUME NEW f, NEW e, f[e] \in Int
    PROVE  SumFunctionOnSet(f, {e}) = f[e]
<1>1. IsFiniteSet({}) /\ {} \cup {e} = {e}
  BY FS_EmptySet
<1>2. SumFunctionOnSet(f, {} \cup {e}) = f[e] + SumFunctionOnSet(f, {})
  BY <1>1, SumAdd
<1>. QED
  BY <1>1, <1>2, SumEmpty

\* The sums of functions that agree on the set are equal.
LEMMA SumAgree ==
    ASSUME NEW f, NEW g, NEW S, IsFiniteSet(S), \A x \in S : f[x] = g[x]
    PROVE  SumFunctionOnSet(f, S) = SumFunctionOnSet(g, S)
<1>. DEFINE G == {s \in SUBSET S : SumFunctionOnSet(f, s) = SumFunctionOnSet(g, s)}
<1>1. {} \in G
  BY SumEmpty
<1>2. ASSUME NEW s \in SUBSET S, s # {}, \A x \in s : \A t \in SUBSET (s \ {x}) : t \in G
      PROVE  s \in G
  <2>1. s \ {Pick(s)} \in G /\ f[Pick(s)] = g[Pick(s)]
    BY <1>2, PickIn
  <2>2. /\ SumFunctionOnSet(f, s) = f[Pick(s)] + SumFunctionOnSet(f, s \ {Pick(s)})
        /\ SumFunctionOnSet(g, s) = g[Pick(s)] + SumFunctionOnSet(g, s \ {Pick(s)})
    BY <1>2, FS_Subset, SumRecursion
  <2>. QED BY <2>1, <2>2
<1>3. \A s \in SUBSET S : s \in G
  <2>1. G \in SUBSET (SUBSET S)
    OBVIOUS
  <2>. HIDE DEF G
  <2>. QED BY <1>1, <1>2, <2>1, SubsetsBySize
<1>. QED
  BY <1>3

\* A sum splits at any subset.
LEMMA SumUnion ==
    ASSUME NEW f, NEW S, IsFiniteSet(S), \A x \in S : f[x] \in Int, NEW T \in SUBSET S
    PROVE  SumFunctionOnSet(f, S) = SumFunctionOnSet(f, T) + SumFunctionOnSet(f, S \ T)
<1>. DEFINE Adds(s) == SumFunctionOnSet(f, s \cup (S \ T))
                         = SumFunctionOnSet(f, s) + SumFunctionOnSet(f, S \ T)
            G == {s \in SUBSET T : Adds(s)}
<1>1. IsFiniteSet(T) /\ IsFiniteSet(S \ T) /\ SumFunctionOnSet(f, S \ T) \in Int
  BY FS_Subset, SumType
<1>2. {} \in G
  BY <1>1, SumEmpty
<1>3. ASSUME NEW s \in SUBSET T, s # {}, \A x \in s : \A t \in SUBSET (s \ {x}) : t \in G
      PROVE  s \in G
  <2>1. PICK x \in s : TRUE
    BY <1>3
  <2>. DEFINE r == s \ {x}
              u == s \cup (S \ T)
  <2>2. Adds(r)
    BY <1>3, <2>1
  <2>3. IsFiniteSet(s) /\ IsFiniteSet(r) /\ u \in SUBSET S /\ IsFiniteSet(u) /\ x \in u
    BY <2>1, FS_Subset
  <2>4. SumFunctionOnSet(f, s) = f[x] + SumFunctionOnSet(f, r)
    BY <2>3, SumRemove
  <2>5. SumFunctionOnSet(f, u) = f[x] + SumFunctionOnSet(f, u \ {x})
    BY <2>3, SumRemove
  <2>6. u \ {x} = r \cup (S \ T)
    BY <2>1
  <2>7. f[x] \in Int /\ SumFunctionOnSet(f, r) \in Int
    BY <2>3, SumType
  <2>. HIDE DEF r, u
  <2>8. SumFunctionOnSet(f, u) = SumFunctionOnSet(f, s) + SumFunctionOnSet(f, S \ T)
    <3>1. SumFunctionOnSet(f, u) = f[x] + (SumFunctionOnSet(f, r) + SumFunctionOnSet(f, S \ T))
      BY <2>2, <2>5, <2>6
    <3>2. @ = (f[x] + SumFunctionOnSet(f, r)) + SumFunctionOnSet(f, S \ T)
      BY <1>1, <2>7
    <3>. QED BY <2>4, <3>1, <3>2
  <2>. QED BY <2>8 DEF u
<1>4. \A s \in SUBSET T : s \in G
  <2>1. G \in SUBSET (SUBSET T)
    OBVIOUS
  <2>. HIDE DEF G
  <2>. QED BY <1>1, <1>2, <1>3, <2>1, SubsetsBySize
<1>5. T \cup (S \ T) = S
  OBVIOUS
<1>. QED
  BY <1>4, <1>5
=============================================================================
