----------------------------- MODULE FiniteSums -----------------------------
(***************************************************************************)
(* Facts about SumFunction, the sum of a function's values over its finite *)
(* domain.  The community modules define it by a fold over sets; the first *)
(* lemmas unfold that into a recursive function and lead induction over    *)
(* the subsets of a finite set back to the order of the natural numbers.   *)
(* The facts to cite are the last ones, from SumIsInt to SumIsNat.        *)
(***************************************************************************)
EXTENDS Integers, FiniteSets, Functions, Folds, FiniteSetTheorems,
        WellFoundedInduction, TLAPS

-----------------------------------------------------------------------------
(* Sums as a recursive function *)

\* The member that the fold takes first.
Pick(s) == CHOOSE x \in s : TRUE

\* g is the recursive function by which the fold over S computes its sums, at
\* least for the sets in part.
SumsOn(f, S, g, part) ==
  \A s \in part :
    g[s] = IF s = {} THEN 0 ELSE f[Pick(s)] + g[s \ {Pick(s)}]

SumsFrom(f, S, g) ==
  g = [s \in SUBSET S |->
         IF s = {} THEN 0 ELSE f[Pick(s)] + g[s \ {Pick(s)}]]

\* The subsets with at most n members.
UpTo(S, n) == {s \in SUBSET S : Cardinality(s) <= n}

\* What holds of 0 and passes from n to n + 1 holds of all natural numbers.
LEMMA Upwards ==
  ASSUME NEW T \in SUBSET Nat, 0 \in T, \A n \in Nat : n \in T => n + 1 \in T
  PROVE  \A n \in Nat : n \in T
<1> DEFINE B == Nat \ T
<1> SUFFICES ASSUME B # {} PROVE FALSE
  OBVIOUS
<1>1. B \subseteq Nat /\ B # {} /\ IsWellFoundedOn(OpToRel(<, Nat), Nat)
  BY NatLessThanWellFounded
<1>2. \E n \in B : \A m \in B : <<m, n>> \notin OpToRel(<, Nat)
  <2> HIDE DEF B
  <2> QED
    BY <1>1, WFMin
<1>3. PICK n \in B : \A m \in B : <<m, n>> \notin OpToRel(<, Nat)
  BY <1>2
<1>4. n \in Nat /\ n # 0 /\ n - 1 \in Nat
  OBVIOUS
<1>5. n - 1 \in T
  <2>1. <<n - 1, n>> \in OpToRel(<, Nat)
    BY <1>4 DEF OpToRel
  <2> QED
    BY <1>3, <1>4, <2>1
<1>6. n - 1 + 1 \in T
  BY <1>4, <1>5
<1> QED
  BY <1>4, <1>6

\* Only the empty set has no members.
LEMMA OnlyEmpty ==
  ASSUME NEW S, IsFiniteSet(S), NEW s \in UpTo(S, 0)
  PROVE  s = {} /\ s \in SUBSET S
<1>1. s \in SUBSET S /\ Cardinality(s) <= 0
  BY DEF UpTo
<1>2. IsFiniteSet(s)
  BY <1>1, FS_Subset
<1>3. Cardinality(s) = 0
  BY <1>1, <1>2, FS_CardinalityType
<1> QED
  BY <1>1, <1>2, <1>3, FS_EmptySet

\* A function that computes the sums exists.
LEMMA SumsExist ==
  ASSUME NEW f, NEW S, IsFiniteSet(S)
  PROVE  \E g : SumsFrom(f, S, g)
<1> DEFINE Good(n) == \E g : /\ g = [s \in SUBSET S |-> g[s]]
                             /\ SumsOn(f, S, g, UpTo(S, n))
<1>1. Good(0)
  <2> DEFINE g == [s \in SUBSET S |-> 0]
  <2>1. \A s \in UpTo(S, 0) : s = {}
    BY OnlyEmpty
  <2>2. SumsOn(f, S, g, UpTo(S, 0))
    BY <2>1 DEF SumsOn, UpTo
  <2>3. g = [s \in SUBSET S |-> g[s]]
    OBVIOUS
  <2> HIDE DEF g
  <2> QED
    BY <2>2, <2>3
<1>2. ASSUME NEW n \in Nat, Good(n) PROVE Good(n + 1)
  <2>1. PICK g : /\ g = [s \in SUBSET S |-> g[s]]
                 /\ SumsOn(f, S, g, UpTo(S, n))
    BY <1>2
  <2> DEFINE h == [s \in SUBSET S |->
                     IF s \in UpTo(S, n) THEN g[s]
                     ELSE f[Pick(s)] + g[s \ {Pick(s)}]]
  <2>2. ASSUME NEW s \in UpTo(S, n + 1)
        PROVE  h[s] = IF s = {} THEN 0 ELSE f[Pick(s)] + h[s \ {Pick(s)}]
    <3>1. CASE s = {}
      <4>1. s \in UpTo(S, n)
        BY <3>1, FS_EmptySet DEF UpTo
      <4> QED
        BY <2>1, <3>1, <4>1 DEF SumsOn, UpTo
    <3>2. CASE s # {}
      <4>1. Pick(s) \in s /\ IsFiniteSet(s) /\ s \in SUBSET S
        BY <3>2, FS_Subset DEF Pick, UpTo
      <4>2. s \ {Pick(s)} \in UpTo(S, n)
        <5>1. Cardinality(s \ {Pick(s)}) = Cardinality(s) - 1
          BY <4>1, FS_RemoveElement
        <5> QED
          BY <4>1, <5>1, FS_CardinalityType DEF UpTo
      <4>3. h[s \ {Pick(s)}] = g[s \ {Pick(s)}]
        BY <4>2 DEF UpTo
      <4>4. h[s] = f[Pick(s)] + g[s \ {Pick(s)}]
        BY <2>1, <3>2, <4>1 DEF SumsOn
      <4> QED
        BY <3>2, <4>3, <4>4
    <3> QED
      BY <3>1, <3>2
  <2>3. h = [s \in SUBSET S |-> h[s]]
    OBVIOUS
  <2> HIDE DEF h
  <2> QED
    BY <2>2, <2>3 DEF SumsOn
<1>3. Good(Cardinality(S))
  <2> DEFINE T == {n \in Nat : Good(n)}
  <2>1. 0 \in T /\ \A n \in Nat : n \in T => n + 1 \in T
    <3> HIDE DEF Good
    <3> QED
      BY <1>1, <1>2
  <2>2. T \in SUBSET Nat
    OBVIOUS
  <2> HIDE DEF T
  <2>3. Cardinality(S) \in T
    BY <2>1, <2>2, Upwards, FS_CardinalityType
  <2> QED
    BY <2>3 DEF T
<1>4. UpTo(S, Cardinality(S)) = SUBSET S
  BY FS_Subset DEF UpTo
<1> QED
  BY <1>3, <1>4 DEF SumsOn, SumsFrom

\* What the fold over a finite set returns, without the fold.
LEMMA SumUnfolds ==
  ASSUME NEW f, NEW S, IsFiniteSet(S)
  PROVE  \E g : SumsFrom(f, S, g) /\ SumFunctionOnSet(f, S) = g[S]
<1>1. SumFunctionOnSet(f, S) = (CHOOSE h : SumsFrom(f, S, h))[S]
  BY DEF SumFunctionOnSet, FoldFunctionOnSet, MapThenFoldSet, SumsFrom, Pick
<1>2. SumsFrom(f, S, CHOOSE h : SumsFrom(f, S, h))
  BY SumsExist
<1> QED
  BY <1>1, <1>2

-----------------------------------------------------------------------------
(* What sums are *)

\* To prove something of all subsets of S, prove it of one whose proper subsets
\* have it.
LEMMA SubsetsUpwards ==
  ASSUME NEW S, IsFiniteSet(S), NEW T \in SUBSET (SUBSET S),
         \A s \in SUBSET S : (\A x \in s : s \ {x} \in T) => s \in T
  PROVE  T = SUBSET S
<1> DEFINE M == {n \in Nat : UpTo(S, n) \subseteq T}
<1>1. 0 \in M
  <2>1. \A s \in UpTo(S, 0) : s = {} /\ s \in SUBSET S
    BY OnlyEmpty
  <2> QED
    BY <2>1
<1>2. ASSUME NEW n \in Nat, n \in M PROVE n + 1 \in M
  <2>1. ASSUME NEW s \in UpTo(S, n + 1), NEW x \in s PROVE s \ {x} \in UpTo(S, n)
    <3>1. IsFiniteSet(s) /\ s \in SUBSET S
      BY FS_Subset DEF UpTo
    <3>2. Cardinality(s \ {x}) = Cardinality(s) - 1 /\ Cardinality(s) \in Nat
      BY <3>1, FS_RemoveElement, FS_CardinalityType
    <3> QED
      BY <3>1, <3>2 DEF UpTo
  <2>2. ASSUME NEW s \in UpTo(S, n + 1) PROVE s \in T
    <3>1. s \in SUBSET S /\ \A x \in s : s \ {x} \in T
      BY <1>2, <2>1 DEF UpTo
    <3> QED
      BY <3>1
  <2> QED
    BY <2>2
<1>3. Cardinality(S) \in M
  <2>1. M \in SUBSET Nat
    OBVIOUS
  <2> HIDE DEF M
  <2> QED
    BY <1>1, <1>2, <2>1, Upwards, FS_CardinalityType
<1> QED
  BY <1>3, FS_Subset DEF UpTo

\* The sum over a set is any member's summand plus the sum over the rest.
AnyOrder(f, S, g) == \A s \in SUBSET S : \A x \in s : g[s] = f[x] + g[s \ {x}]

\* Sums of integers are integers.
LEMMA SumsAreInts ==
  ASSUME NEW S, IsFiniteSet(S), NEW f, \A x \in S : f[x] \in Int,
         NEW g, SumsFrom(f, S, g)
  PROVE  \A s \in SUBSET S : g[s] \in Int
<1> DEFINE T == {s \in SUBSET S : g[s] \in Int}
<1>1. ASSUME NEW s \in SUBSET S, \A x \in s : s \ {x} \in T
      PROVE  s \in T
  <2>1. g[s] = IF s = {} THEN 0 ELSE f[Pick(s)] + g[s \ {Pick(s)}]
    BY DEF SumsFrom
  <2>2. CASE s = {}
    BY <2>1, <2>2
  <2>3. CASE s # {}
    <3>1. PICK y \in s : y = Pick(s)
      BY <2>3 DEF Pick
    <3>2. g[s] = f[y] + g[s \ {y}]
      BY <2>1, <2>3, <3>1
    <3>3. g[s \ {y}] \in Int /\ f[y] \in Int
      BY <1>1
    <3> QED
      BY <3>2, <3>3
  <2> QED
    BY <2>2, <2>3
<1>2. T \in SUBSET (SUBSET S)
  OBVIOUS
<1>3. T = SUBSET S
  <2> HIDE DEF T
  <2> QED
    BY <1>1, <1>2, SubsetsUpwards
<1> QED
  BY <1>3

\* The members may be added up in any order.
LEMMA SumsOrder ==
  ASSUME NEW S, IsFiniteSet(S), NEW f, \A x \in S : f[x] \in Int,
         NEW g, SumsFrom(f, S, g)
  PROVE  AnyOrder(f, S, g)
<1> DEFINE T == {s \in SUBSET S : \A x \in s : g[s] = f[x] + g[s \ {x}]}
<1>0. \A s \in SUBSET S : g[s] \in Int
  BY SumsAreInts
<1>1. ASSUME NEW s \in SUBSET S, \A x \in s : s \ {x} \in T
      PROVE  s \in T
  <2>1. CASE s = {}
    BY <2>1
  <2>2. CASE s # {}
    <3>1. PICK y \in s : y = Pick(s)
      BY <2>2 DEF Pick
    <3>2. g[s] = f[y] + g[s \ {y}]
      BY <2>2, <3>1 DEF SumsFrom
    <3>3. ASSUME NEW x \in s, x # y PROVE g[s] = f[x] + g[s \ {x}]
      <4>1. PICK r \in SUBSET S : r = (s \ {x}) \ {y} /\ r = (s \ {y}) \ {x}
        OBVIOUS
      <4>2. s \ {x} \in T /\ s \ {y} \in T /\ x \in s \ {y} /\ y \in s \ {x}
        BY <1>1, <3>3
      <4>3. g[s \ {y}] = f[x] + g[r] /\ g[s \ {x}] = f[y] + g[r]
        BY <4>1, <4>2
      <4>4. g[r] \in Int /\ f[x] \in Int /\ f[y] \in Int
        BY <1>0
      <4> HIDE DEF T
      <4> QED
        BY <3>2, <4>3, <4>4
    <3> QED
      BY <3>2, <3>3
  <2> QED
    BY <2>1, <2>2
<1>2. T \in SUBSET (SUBSET S)
  OBVIOUS
<1>3. T = SUBSET S
  <2> HIDE DEF T
  <2> QED
    BY <1>1, <1>2, SubsetsUpwards
<1> QED
  BY <1>3 DEF AnyOrder

\* Functions that agree on the members have the same sums.
LEMMA SumsAgree ==
  ASSUME NEW S, IsFiniteSet(S), NEW f, NEW h,
         NEW g, SumsFrom(f, S, g), NEW k, SumsFrom(h, S, k)
  PROVE  \A s \in SUBSET S : (\A x \in s : f[x] = h[x]) => g[s] = k[s]
<1> DEFINE T == {s \in SUBSET S : (\A x \in s : f[x] = h[x]) => g[s] = k[s]}
<1>1. ASSUME NEW s \in SUBSET S, \A x \in s : s \ {x} \in T
      PROVE  s \in T
  <2>1. CASE s = {}
    BY <2>1 DEF SumsFrom
  <2>2. CASE s # {} /\ \A x \in s : f[x] = h[x]
    <3>1. PICK y \in s : y = Pick(s)
      BY <2>2 DEF Pick
    <3>2. g[s] = f[y] + g[s \ {y}] /\ k[s] = h[y] + k[s \ {y}]
      BY <2>2, <3>1 DEF SumsFrom
    <3>3. g[s \ {y}] = k[s \ {y}]
      BY <1>1, <2>2
    <3> QED
      BY <2>2, <3>2, <3>3
  <2> QED
    BY <2>1, <2>2
<1>2. T \in SUBSET (SUBSET S)
  OBVIOUS
<1>3. T = SUBSET S
  <2> HIDE DEF T
  <2> QED
    BY <1>1, <1>2, SubsetsUpwards
<1> QED
  BY <1>3

\* The sum of an integer function is an integer.
LEMMA SumIsInt ==
  ASSUME NEW S, IsFiniteSet(S), NEW f \in [S -> Int]
  PROVE  SumFunction(f) \in Int
<1>1. PICK g : SumsFrom(f, S, g) /\ SumFunctionOnSet(f, S) = g[S]
  BY SumUnfolds
<1>2. \A x \in S : f[x] \in Int
  OBVIOUS
<1>3. g[S] \in Int
  BY <1>1, <1>2, SumsAreInts
<1> QED
  BY <1>1, <1>3 DEF SumFunction

\* A change of one summand changes the sum by as much.
LEMMA SumUpdate ==
  ASSUME NEW S, IsFiniteSet(S), NEW f \in [S -> Int], NEW x \in S,
         NEW h \in [S -> Int], \A y \in S : y # x => h[y] = f[y]
  PROVE  SumFunction(f) \in Int /\ SumFunction(h) = SumFunction(f) + (h[x] - f[x])
<1>1. PICK g : SumsFrom(f, S, g) /\ SumFunctionOnSet(f, S) = g[S]
  BY SumUnfolds
<1>2. PICK k : SumsFrom(h, S, k) /\ SumFunctionOnSet(h, S) = k[S]
  BY SumUnfolds
<1>3. g[S] = f[x] + g[S \ {x}] /\ k[S] = h[x] + k[S \ {x}]
  <2>0. \A y \in S : f[y] \in Int /\ h[y] \in Int
    OBVIOUS
  <2>1. AnyOrder(f, S, g)
    BY <1>1, <2>0, SumsOrder
  <2>2. AnyOrder(h, S, k)
    BY <1>2, <2>0, SumsOrder
  <2> QED
    BY <2>1, <2>2 DEF AnyOrder
<1>4. g[S \ {x}] = k[S \ {x}]
  BY <1>1, <1>2, SumsAgree
<1>5. g[S] \in Int /\ g[S \ {x}] \in Int
  BY <1>1, SumsAreInts
<1>6. SumFunction(f) = g[S] /\ SumFunction(h) = k[S]
  BY <1>1, <1>2 DEF SumFunction
<1> QED
  BY <1>3, <1>4, <1>5, <1>6

\* A sum of zeros is zero.
LEMMA SumOfZeros ==
  ASSUME NEW S, IsFiniteSet(S)
  PROVE  SumFunction([x \in S |-> 0]) = 0
<1> DEFINE f == [x \in S |-> 0]
<1>1. PICK g : SumsFrom(f, S, g) /\ SumFunctionOnSet(f, S) = g[S]
  BY SumUnfolds
<1> DEFINE T == {s \in SUBSET S : g[s] = 0}
<1>2. ASSUME NEW s \in SUBSET S, \A x \in s : s \ {x} \in T
      PROVE  s \in T
  <2>1. g[s] = IF s = {} THEN 0 ELSE f[Pick(s)] + g[s \ {Pick(s)}]
    BY <1>1 DEF SumsFrom
  <2>2. CASE s = {}
    BY <2>1, <2>2
  <2>3. CASE s # {}
    <3>1. Pick(s) \in s
      BY <2>3 DEF Pick
    <3> QED
      BY <1>2, <2>1, <2>3, <3>1
  <2> QED
    BY <2>2, <2>3
<1>3. T \in SUBSET (SUBSET S)
  OBVIOUS
<1>4. T = SUBSET S
  <2> HIDE DEF T
  <2> QED
    BY <1>2, <1>3, SubsetsUpwards
<1>5. g[S] = 0
  BY <1>4
<1>6. DOMAIN f = S
  OBVIOUS
<1> HIDE DEF f
<1>7. SumFunction(f) = g[S]
  BY <1>1, <1>6 DEF SumFunction
<1> QED
  BY <1>5, <1>7 DEF f

\* One more summand.
LEMMA SumExtended ==
  ASSUME NEW S, IsFiniteSet(S), NEW f \in [S -> Int], NEW x, x \notin S,
         NEW h \in [S \cup {x} -> Int], \A y \in S : h[y] = f[y]
  PROVE  SumFunction(h) = SumFunction(f) + h[x]
<1> DEFINE Sx == S \cup {x}
<1>0. IsFiniteSet(Sx)
  BY FS_AddElement
<1>1. PICK g : SumsFrom(f, S, g) /\ SumFunctionOnSet(f, S) = g[S]
  BY SumUnfolds
<1>2. PICK k : SumsFrom(h, Sx, k) /\ SumFunctionOnSet(h, Sx) = k[Sx]
  BY <1>0, SumUnfolds
<1>3. k[Sx] = h[x] + k[S]
  <2>0. \A y \in Sx : h[y] \in Int
    OBVIOUS
  <2>1. AnyOrder(h, Sx, k)
    <3> HIDE DEF Sx
    <3> QED
      BY <1>0, <1>2, <2>0, SumsOrder
  <2>2. Sx \ {x} = S /\ x \in Sx
    OBVIOUS
  <2> QED
    BY <2>1, <2>2 DEF AnyOrder
<1>4. SumsFrom(h, S, [s \in SUBSET S |-> k[s]])
  <2> DEFINE j == [s \in SUBSET S |-> k[s]]
  <2>1. ASSUME NEW s \in SUBSET S
        PROVE  j[s] = IF s = {} THEN 0 ELSE h[Pick(s)] + j[s \ {Pick(s)}]
    BY <1>2 DEF SumsFrom
  <2> QED
    BY <2>1 DEF SumsFrom
<1>5. k[S] = g[S]
  <2> DEFINE j == [s \in SUBSET S |-> k[s]]
  <2>1. j[S] = k[S]
    OBVIOUS
  <2>2. SumsFrom(h, S, j)
    BY <1>4
  <2> HIDE DEF j
  <2> QED
    BY <1>1, <2>1, <2>2, SumsAgree
<1>6. g[S] \in Int
  BY <1>1, SumsAreInts
<1>7. SumFunction(f) = g[S] /\ SumFunction(h) = k[Sx]
  BY <1>1, <1>2 DEF SumFunction
<1> QED
  BY <1>3, <1>5, <1>6, <1>7


\* A sum of summands between zero and k is at most k times their number.
LEMMA SumWithin ==
  ASSUME NEW S, IsFiniteSet(S), NEW k \in Nat, NEW f \in [S -> 0..k]
  PROVE  SumFunction(f) \in 0..k * Cardinality(S)
<1>1. PICK g : SumsFrom(f, S, g) /\ SumFunctionOnSet(f, S) = g[S]
  BY SumUnfolds
<1> DEFINE T == {s \in SUBSET S : g[s] \in 0..k * Cardinality(s)}
<1>2. ASSUME NEW s \in SUBSET S, \A x \in s : s \ {x} \in T
      PROVE  s \in T
  <2>1. g[s] = IF s = {} THEN 0 ELSE f[Pick(s)] + g[s \ {Pick(s)}]
    BY <1>1 DEF SumsFrom
  <2>2. CASE s = {}
    <3>1. Cardinality(s) = 0
      BY <2>2, FS_EmptySet
    <3> QED
      BY <2>1, <2>2, <3>1
  <2>3. CASE s # {}
    <3>1. PICK y \in s : y = Pick(s)
      BY <2>3 DEF Pick
    <3>2. g[s] = f[y] + g[s \ {y}]
      BY <2>1, <2>3, <3>1
    <3>3. g[s \ {y}] \in 0..k * Cardinality(s \ {y}) /\ f[y] \in 0..k
      BY <1>2
    <3>4. IsFiniteSet(s)
      BY FS_Subset
    <3>5. PICK n \in Nat : n = Cardinality(s)
      BY <3>4, FS_CardinalityType
    <3>6. Cardinality(s \ {y}) = n - 1
      BY <3>4, <3>5, FS_RemoveElement
    <3>7. k * (n - 1) = k * n - k /\ k * n \in Nat
      BY <3>5
    <3>8. g[s] \in 0..k * n
      BY <3>2, <3>3, <3>6, <3>7
    <3> QED
      BY <3>5, <3>8
  <2> QED
    BY <2>2, <2>3
<1>3. T \in SUBSET (SUBSET S)
  OBVIOUS
<1>4. T = SUBSET S
  <2> HIDE DEF T
  <2> QED
    BY <1>2, <1>3, SubsetsUpwards
<1>5. g[S] \in 0..k * Cardinality(S)
  BY <1>4
<1> QED
  BY <1>1, <1>5 DEF SumFunction
\* A sum of natural numbers is a natural number.
LEMMA SumIsNat ==
  ASSUME NEW S, IsFiniteSet(S), NEW f \in [S -> Nat]
  PROVE  SumFunction(f) \in Nat
<1>1. PICK g : SumsFrom(f, S, g) /\ SumFunctionOnSet(f, S) = g[S]
  BY SumUnfolds
<1> DEFINE T == {s \in SUBSET S : g[s] \in Nat}
<1>2. ASSUME NEW s \in SUBSET S, \A x \in s : s \ {x} \in T
      PROVE  s \in T
  <2>1. g[s] = IF s = {} THEN 0 ELSE f[Pick(s)] + g[s \ {Pick(s)}]
    BY <1>1 DEF SumsFrom
  <2>2. CASE s = {}
    BY <2>1, <2>2
  <2>3. CASE s # {}
    <3>1. PICK y \in s : y = Pick(s)
      BY <2>3 DEF Pick
    <3>2. g[s] = f[y] + g[s \ {y}]
      BY <2>1, <2>3, <3>1
    <3>3. g[s \ {y}] \in Nat /\ f[y] \in Nat
      BY <1>2
    <3> QED
      BY <3>2, <3>3
  <2> QED
    BY <2>2, <2>3
<1>3. T \in SUBSET (SUBSET S)
  OBVIOUS
<1>4. T = SUBSET S
  <2> HIDE DEF T
  <2> QED
    BY <1>2, <1>3, SubsetsUpwards
<1>5. g[S] \in Nat
  BY <1>4
<1> QED
  BY <1>1, <1>5 DEF SumFunction
=============================================================================
