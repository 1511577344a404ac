---------------------------- MODULE SumTheorems ----------------------------
(***************************************************************************)
(* Sums of the values of a function over a finite set, as the community    *)
(* module Functions defines them: what the proofs about OrderBook and      *)
(* MaskPipeline need.  The library's induction theorems take an operator   *)
(* as parameter; here the induction is over a set T of the subsets that    *)
(* have the property in question, and its ground is that finite sets have  *)
(* minimal members among any of their subsets (WFMin).                     *)
(***************************************************************************)
EXTENDS Integers, FiniteSets, Functions, FiniteSetTheorems, TLAPS

(* What holds of a set when it holds of the set less any one element, holds *)
(* of every finite set.                                                     *)
LEMMA SubsetInduction ==
  ASSUME NEW S, IsFiniteSet(S), NEW T,
         \A A \in SUBSET S : (\A x \in A : A \ {x} \in T) => A \in T
  PROVE  S \in T
<1> SUFFICES ASSUME S \notin T PROVE FALSE
  OBVIOUS
<1> DEFINE Left == (SUBSET S) \ T
<1>1. IsWellFoundedOn(StrictSubsetOrdering(S), SUBSET S)
  <2>1. IsWellFoundedOn(StrictSubsetOrdering(S), FiniteSubsetsOf(S))
    BY FS_StrictSubsetOrderingWellFounded
  <2>2. FiniteSubsetsOf(S) = SUBSET S
    BY FS_FiniteSubsetsOfFinite
  <2> QED BY <2>1, <2>2
<1>2. Left \subseteq SUBSET S /\ Left # {}
  OBVIOUS
<1>3. PICK A \in Left : \A B \in Left : ~ (<<B, A>> \in StrictSubsetOrdering(S))
  <2> HIDE DEF Left
  <2> QED BY <1>1, <1>2, WFMin
<1>4. ASSUME NEW x \in A PROVE A \ {x} \in T
  <2>1. <<A \ {x}, A>> \in StrictSubsetOrdering(S)
    BY <1>4 DEF StrictSubsetOrdering
  <2> QED BY <1>3, <2>1
<1>5. A \in SUBSET S /\ A \notin T
  OBVIOUS
<1> QED BY <1>4, <1>5

-----------------------------------------------------------------------------
(* The recursive function behind the library's sum.                         *)

Pick(s)         == CHOOSE x \in s : TRUE
SumStep(f, g, s)   == IF s = {} THEN 0 ELSE f[Pick(s)] + g[s \ {Pick(s)}]
IsSum(f, S, g)  == g = [s \in SUBSET S |-> SumStep(f, g, s)]
SumOver(f, S)   == CHOOSE g : IsSum(f, S, g)

LEMMA SumIsRecursive ==
  ASSUME NEW f, NEW S
  PROVE  SumFunctionOnSet(f, S) = SumOver(f, S)[S]
BY DEF SumFunctionOnSet, FoldFunctionOnSet, MapThenFoldSet, SumOver, IsSum, SumStep, Pick

LEMMA PickInSet ==
  ASSUME NEW S, S # {} PROVE Pick(S) \in S
BY DEF Pick

LEMMA SumsAgree ==
  ASSUME NEW f, NEW S, NEW U, NEW g, NEW h, IsSum(f, S, g), IsSum(f, U, h),
         NEW A, IsFiniteSet(A), A \subseteq S, A \subseteq U
  PROVE  g[A] = h[A]
<1> DEFINE T == {B \in SUBSET A : g[B] = h[B]}
<1>1. ASSUME NEW B \in SUBSET A, \A x \in B : B \ {x} \in T
      PROVE  B \in T
  <2>1. g[B] = SumStep(f, g, B) /\ h[B] = SumStep(f, h, B)
    BY DEF IsSum
  <2>2. CASE B = {}
    BY <2>1, <2>2 DEF SumStep
  <2>3. CASE B # {}
    <3>1. B \ {Pick(B)} \in T
      BY <1>1, <2>3, PickInSet
    <3> QED BY <2>1, <2>3, <3>1 DEF SumStep
  <2> QED BY <2>2, <2>3
<1>2. A \in T
  <2> HIDE DEF T
  <2> QED BY <1>1, SubsetInduction
<1> QED BY <1>2

(* The recursion is well founded: there is such a function.                 *)
LEMMA SumExists ==
  ASSUME NEW f, NEW S, IsFiniteSet(S)
  PROVE  IsSum(f, S, SumOver(f, S))
<1> DEFINE T == {A \in SUBSET S : \A B \in SUBSET A : \E g : IsSum(f, B, g)}
<1>1. ASSUME NEW A \in SUBSET S, \A x \in A : A \ {x} \in T
      PROVE  A \in T
  <2> DEFINE Sum(B) == SumOver(f, B)[B]
             g == [s \in SUBSET A |-> IF s = {} THEN 0
                                      ELSE f[Pick(s)] + Sum(s \ {Pick(s)})]
  <2>1. ASSUME NEW B \in SUBSET A, B # A
        PROVE  IsSum(f, B, SumOver(f, B))
    <3>1. PICK x \in A : B \subseteq A \ {x}
      BY <2>1
    <3>2. \E h : IsSum(f, B, h)
      BY <1>1, <3>1
    <3> QED BY <3>2 DEF SumOver
  <2>2. ASSUME NEW B \in SUBSET A, B # A
        PROVE  g[B] = Sum(B)
    <3>1. CASE B = {}
      <4>1. IsSum(f, B, SumOver(f, B))
        BY <2>1, <2>2
      <4>2. Sum(B) = 0
        BY <3>1, <4>1 DEF IsSum, SumStep
      <4> QED BY <3>1, <4>2
    <3>2. CASE B # {}
      <4> DEFINE C == B \ {Pick(B)}
      <4>1. C \in SUBSET B /\ C # A /\ Pick(B) \in B
        BY <2>2, <3>2, PickInSet
      <4>2. IsSum(f, B, SumOver(f, B)) /\ IsSum(f, C, SumOver(f, C))
        BY <2>1, <2>2, <4>1
      <4>3. IsFiniteSet(C)
        BY <4>1, FS_Subset
      <4>4. SumOver(f, B)[C] = Sum(C)
        BY <4>1, <4>2, <4>3, SumsAgree
      <4>5. Sum(B) = f[Pick(B)] + SumOver(f, B)[C]
        BY <3>2, <4>2 DEF IsSum, SumStep
      <4> QED BY <3>2, <4>4, <4>5
    <3> QED BY <3>1, <3>2
  <2>3. ASSUME NEW s \in SUBSET A, s # {}
        PROVE  g[s \ {Pick(s)}] = Sum(s \ {Pick(s)})
    <3>1. Pick(s) \in s
      BY <2>3, PickInSet
    <3>2. s \ {Pick(s)} \in SUBSET A /\ s \ {Pick(s)} # A
      BY <3>1
    <3> QED BY <2>2, <3>2
  <2>4. IsSum(f, A, g)
    <3>1. ASSUME NEW s \in SUBSET A
          PROVE  (IF s = {} THEN 0 ELSE f[Pick(s)] + Sum(s \ {Pick(s)})) = SumStep(f, g, s)
      <4>1. CASE s = {}
        BY <4>1 DEF SumStep
      <4>2. CASE s # {}
        <5> HIDE DEF g, Sum
        <5> QED BY <2>3, <4>2 DEF SumStep
      <4> QED BY <4>1, <4>2
    <3>2. g = [s \in SUBSET A |-> SumStep(f, g, s)]
      <4> DEFINE H(s) == IF s = {} THEN 0 ELSE f[Pick(s)] + Sum(s \ {Pick(s)})
                 G(s) == SumStep(f, g, s)
      <4>1. \A s \in SUBSET A : H(s) = G(s)
        BY <3>1
      <4>2. g = [s \in SUBSET A |-> H(s)]
        OBVIOUS
      <4> HIDE DEF H, G, g
      <4>3. g = [s \in SUBSET A |-> G(s)]
        BY <4>1, <4>2
      <4> QED BY <4>3 DEF G
    <3> QED BY <3>2 DEF IsSum
  <2>5. ASSUME NEW B \in SUBSET A PROVE \E h : IsSum(f, B, h)
    BY <2>1, <2>4
  <2> QED BY <2>5
<1>2. S \in T
  <2> HIDE DEF T
  <2> QED BY <1>1, SubsetInduction
<1>3. \E g : IsSum(f, S, g)
  BY <1>2
<1> QED BY <1>3 DEF SumOver

-----------------------------------------------------------------------------
(* What the sum of a function's values over a finite set is and does.       *)

(* Nothing adds up to zero.                                                 *)
LEMMA SumOfNone ==
  ASSUME NEW f
  PROVE  SumFunctionOnSet(f, {}) = 0
<1>1. IsSum(f, {}, SumOver(f, {}))
  BY SumExists, FS_EmptySet
<1>2. SumOver(f, {})[{}] = 0
  BY <1>1 DEF IsSum, SumStep
<1> QED BY <1>2, SumIsRecursive

(* The element the library takes first.                                     *)
LEMMA SumWithPick ==
  ASSUME NEW f, NEW S, IsFiniteSet(S), S # {}
  PROVE  SumFunctionOnSet(f, S) = f[Pick(S)] + SumFunctionOnSet(f, S \ {Pick(S)})
<1> DEFINE R == S \ {Pick(S)}
<1>1. IsFiniteSet(R) /\ R \in SUBSET S
  BY FS_Subset
<1>2. IsSum(f, S, SumOver(f, S)) /\ IsSum(f, R, SumOver(f, R))
  BY <1>1, SumExists
<1>3. SumOver(f, S)[S] = f[Pick(S)] + SumOver(f, S)[R]
  BY <1>2 DEF IsSum, SumStep
<1>4. SumOver(f, S)[R] = SumOver(f, R)[R]
  BY <1>1, <1>2, SumsAgree
<1> QED BY <1>3, <1>4, SumIsRecursive

(* Whole numbers add up to a whole number.                                  *)
LEMMA SumIsInt ==
  ASSUME NEW f, NEW S, IsFiniteSet(S), \A x \in S : f[x] \in Int
  PROVE  SumFunctionOnSet(f, S) \in Int
<1> DEFINE T == {A \in SUBSET S : SumFunctionOnSet(f, A) \in Int}
<1>1. ASSUME NEW A \in SUBSET S, \A x \in A : A \ {x} \in T
      PROVE  A \in T
  <2>1. CASE A = {}
    BY <2>1, SumOfNone
  <2>2. CASE A # {}
    <3>1. Pick(A) \in A /\ IsFiniteSet(A)
      BY <2>2, PickInSet, FS_Subset
    <3>2. SumFunctionOnSet(f, A) = f[Pick(A)] + SumFunctionOnSet(f, A \ {Pick(A)})
      BY <2>2, <3>1, SumWithPick
    <3>3. SumFunctionOnSet(f, A \ {Pick(A)}) \in Int
      BY <1>1, <3>1
    <3> QED BY <3>1, <3>2, <3>3
  <2> QED BY <2>1, <2>2
<1>2. S \in T
  <2> HIDE DEF T
  <2> QED BY <1>1, SubsetInduction
<1> QED BY <1>2

(* Any element may be taken out first.                                      *)
LEMMA SumWithout ==
  ASSUME NEW f, NEW S, IsFiniteSet(S), \A x \in S : f[x] \in Int, NEW x \in S
  PROVE  /\ SumFunctionOnSet(f, S) = f[x] + SumFunctionOnSet(f, S \ {x})
         /\ SumFunctionOnSet(f, S \ {x}) \in Int
<1> DEFINE T == {A \in SUBSET S : \A y \in A :
                   SumFunctionOnSet(f, A) = f[y] + SumFunctionOnSet(f, A \ {y})}
<1>1. ASSUME NEW A \in SUBSET S, \A y \in A : A \ {y} \in T
      PROVE  A \in T
  <2> SUFFICES ASSUME NEW y \in A PROVE SumFunctionOnSet(f, A) = f[y] + SumFunctionOnSet(f, A \ {y})
    OBVIOUS
  <2> DEFINE p == Pick(A)
             R == A \ {p, y}
  <2>1. p \in A /\ IsFiniteSet(A)
    BY PickInSet, FS_Subset
  <2>2. SumFunctionOnSet(f, A) = f[p] + SumFunctionOnSet(f, A \ {p})
    BY <2>1, SumWithPick
  <2>3. CASE p = y
    BY <2>2, <2>3
  <2>4. CASE p # y
    <3>1. y \in A \ {p} /\ (A \ {p}) \ {y} = R /\ p \in A \ {y} /\ (A \ {y}) \ {p} = R
      BY <2>1, <2>4
    <3>2. SumFunctionOnSet(f, A \ {p}) = f[y] + SumFunctionOnSet(f, R)
      BY <1>1, <2>1, <3>1
    <3>3. SumFunctionOnSet(f, A \ {y}) = f[p] + SumFunctionOnSet(f, R)
      BY <1>1, <3>1
    <3>4. SumFunctionOnSet(f, R) \in Int
      BY <2>1, FS_Subset, SumIsInt
    <3> HIDE DEF p, R
    <3> QED BY <2>1, <2>2, <3>2, <3>3, <3>4
  <2> QED BY <2>3, <2>4
<1>2. S \in T
  <2> HIDE DEF T
  <2> QED BY <1>1, SubsetInduction
<1>3. SumFunctionOnSet(f, S \ {x}) \in Int
  BY FS_Subset, SumIsInt
<1> QED BY <1>2, <1>3

(* Functions that agree on a set have the same sum over it.                 *)
LEMMA SumOfEqual ==
  ASSUME NEW f, NEW g, NEW S, IsFiniteSet(S), \A x \in S : f[x] = g[x]
  PROVE  SumFunctionOnSet(f, S) = SumFunctionOnSet(g, S)
<1> DEFINE T == {A \in SUBSET S : SumFunctionOnSet(f, A) = SumFunctionOnSet(g, A)}
<1>1. ASSUME NEW A \in SUBSET S, \A x \in A : A \ {x} \in T
      PROVE  A \in T
  <2>1. CASE A = {}
    BY <2>1, SumOfNone
  <2>2. CASE A # {}
    <3>1. Pick(A) \in A /\ IsFiniteSet(A)
      BY <2>2, PickInSet, FS_Subset
    <3>2. SumFunctionOnSet(f, A) = f[Pick(A)] + SumFunctionOnSet(f, A \ {Pick(A)})
      BY <2>2, <3>1, SumWithPick
    <3>3. SumFunctionOnSet(g, A) = g[Pick(A)] + SumFunctionOnSet(g, A \ {Pick(A)})
      BY <2>2, <3>1, SumWithPick
    <3> QED BY <1>1, <3>1, <3>2, <3>3
  <2> QED BY <2>1, <2>2
<1>2. S \in T
  <2> HIDE DEF T
  <2> QED BY <1>1, SubsetInduction
<1> QED BY <1>2

(* The functions differ at one element only: so do the sums.                *)
LEMMA SumOfChanged ==
  ASSUME NEW f, NEW g, NEW S, IsFiniteSet(S), NEW x \in S,
         \A y \in S : f[y] \in Int /\ g[y] \in Int,
         \A y \in S \ {x} : g[y] = f[y]
  PROVE  /\ SumFunctionOnSet(g, S) = SumFunctionOnSet(f, S) + (g[x] - f[x])
         /\ SumFunctionOnSet(f, S) \in Int
<1>1. /\ SumFunctionOnSet(f, S) = f[x] + SumFunctionOnSet(f, S \ {x})
      /\ SumFunctionOnSet(g, S) = g[x] + SumFunctionOnSet(g, S \ {x})
      /\ SumFunctionOnSet(f, S \ {x}) \in Int
  <2>1. (\A y \in S : f[y] \in Int) /\ (\A y \in S : g[y] \in Int)
    OBVIOUS
  <2>2. /\ SumFunctionOnSet(f, S) = f[x] + SumFunctionOnSet(f, S \ {x})
        /\ SumFunctionOnSet(f, S \ {x}) \in Int
    BY <2>1, SumWithout
  <2>3. SumFunctionOnSet(g, S) = g[x] + SumFunctionOnSet(g, S \ {x})
    BY <2>1, SumWithout
  <2> QED BY <2>2, <2>3
<1>2. SumFunctionOnSet(f, S \ {x}) = SumFunctionOnSet(g, S \ {x})
  <2>1. IsFiniteSet(S \ {x})
    BY FS_Subset
  <2> QED BY <2>1, SumOfEqual
<1> QED BY <1>1, <1>2

(* Bounded values have a bounded sum.                                       *)
LEMMA SumAtMost ==
  ASSUME NEW f, NEW S, IsFiniteSet(S), NEW M \in Nat,
         \A x \in S : f[x] \in Int /\ f[x] <= M
  PROVE  SumFunctionOnSet(f, S) <= Cardinality(S) * M
<1> DEFINE T == {A \in SUBSET S : SumFunctionOnSet(f, A) <= Cardinality(A) * M}
<1>1. ASSUME NEW A \in SUBSET S, \A x \in A : A \ {x} \in T
      PROVE  A \in T
  <2>1. CASE A = {}
    BY <2>1, SumOfNone, FS_EmptySet
  <2>2. CASE A # {}
    <3> DEFINE R == A \ {Pick(A)}
               n == Cardinality(R)
    <3>1. Pick(A) \in A /\ IsFiniteSet(A)
      BY <2>2, PickInSet, FS_Subset
    <3>2. SumFunctionOnSet(f, A) = f[Pick(A)] + SumFunctionOnSet(f, R)
      BY <2>2, <3>1, SumWithPick
    <3>3. IsFiniteSet(R) /\ Cardinality(A) = n + 1 /\ n \in Nat
      <4>1. IsFiniteSet(R) /\ Cardinality(R) = Cardinality(A) - 1
        BY <3>1, FS_RemoveElement
      <4>2. Cardinality(A) \in Nat /\ Cardinality(R) \in Nat
        BY <3>1, <4>1, FS_CardinalityType
      <4> QED BY <4>1, <4>2
    <3>4. SumFunctionOnSet(f, R) \in Int
      BY <3>1, <3>3, SumIsInt
    <3>5. SumFunctionOnSet(f, R) <= n * M
      BY <1>1, <3>1
    <3>6. (n + 1) * M = n * M + M /\ n * M \in Int
      BY <3>3
    <3>7. f[Pick(A)] \in Int /\ f[Pick(A)] <= M
      BY <3>1
    <3>8. SumFunctionOnSet(f, A) <= (n + 1) * M
      <4> HIDE DEF n, R
      <4> QED BY <3>2, <3>4, <3>5, <3>6, <3>7
    <3> QED BY <3>3, <3>8
  <2> QED BY <2>1, <2>2
<1>2. S \in T
  <2> HIDE DEF T
  <2> QED BY <1>1, SubsetInduction
<1> QED BY <1>2

(* Numbers that are not negative add up to one; if none is zero and there   *)
(* are any, the sum is not either.                                          *)
LEMMA SumIsNat ==
  ASSUME NEW f, NEW S, IsFiniteSet(S), \A x \in S : f[x] \in Nat
  PROVE  SumFunctionOnSet(f, S) \in Nat
<1> DEFINE T == {A \in SUBSET S : SumFunctionOnSet(f, A) \in Nat}
<1>1. ASSUME NEW A \in SUBSET S, \A x \in A : A \ {x} \in T
      PROVE  A \in T
  <2>1. CASE A = {}
    BY <2>1, SumOfNone
  <2>2. CASE A # {}
    <3>1. Pick(A) \in A /\ IsFiniteSet(A)
      BY <2>2, PickInSet, FS_Subset
    <3>2. SumFunctionOnSet(f, A) = f[Pick(A)] + SumFunctionOnSet(f, A \ {Pick(A)})
      BY <2>2, <3>1, SumWithPick
    <3>3. SumFunctionOnSet(f, A \ {Pick(A)}) \in Nat
      BY <1>1, <3>1
    <3> QED BY <3>1, <3>2, <3>3
  <2> QED BY <2>1, <2>2
<1>2. S \in T
  <2> HIDE DEF T
  <2> QED BY <1>1, SubsetInduction
<1> QED BY <1>2

LEMMA SumIsPositive ==
  ASSUME NEW f, NEW S, IsFiniteSet(S), S # {}, \A x \in S : f[x] \in Nat \ {0}
  PROVE  SumFunctionOnSet(f, S) \in Nat \ {0}
<1>1. Pick(S) \in S /\ IsFiniteSet(S \ {Pick(S)})
  BY PickInSet, FS_Subset
<1>2. SumFunctionOnSet(f, S) = f[Pick(S)] + SumFunctionOnSet(f, S \ {Pick(S)})
  BY SumWithPick
<1>3. SumFunctionOnSet(f, S \ {Pick(S)}) \in Nat
  <2>1. \A x \in S \ {Pick(S)} : f[x] \in Nat
    OBVIOUS
  <2> QED BY <1>1, <2>1, SumIsNat
<1> QED BY <1>1, <1>2, <1>3
=============================================================================
