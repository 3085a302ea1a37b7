---------------------------- MODULE SumTheorems ----------------------------
(***************************************************************************)
(* Sums over finite sets: what the folds of the community modules that the *)
(* models add up with return, whatever the set and the order in which it   *)
(* is gone through.  Averages of grades, balances of wallets and the       *)
(* fitness of a timetable are such sums.                                   *)
(***************************************************************************)
EXTENDS Integers, Functions, FiniteSetsExt, FiniteSetTheorems, WellFoundedInduction, TLAPS

(* Induction, for a set of numbers. *)
LEMMA EveryNumber ==
    ASSUME NEW L, L \subseteq Nat, 0 \in L, \A n \in L : n + 1 \in L
    PROVE  L = Nat
<1>. DEFINE Less == OpToRel(<, Nat)
            T == Nat \ L
<1>1. \A x, y \in Nat : x < y => <<x, y>> \in Less
  BY DEF OpToRel
<1>2. ASSUME T # {} PROVE FALSE
  <2>1. IsWellFoundedOn(Less, Nat) /\ T \subseteq Nat
    BY NatLessThanWellFounded
  <2>. HIDE DEF Less
  <2>2. PICK x \in T : \A y \in T : ~(<<y, x>> \in Less)
    BY <1>2, <2>1, WFMin, Zenon
  <2>3. x - 1 \in Nat /\ x - 1 < x
    BY <2>2
  <2>4. x - 1 \in L
    BY <1>1, <2>2, <2>3
  <2>. QED  BY <2>2, <2>3, <2>4
<1>. QED  BY <1>2

-----------------------------------------------------------------------------
(* Sums over a finite set. *)

Some(s) == CHOOSE x \in s : TRUE

SumStep(f, iter, s) == IF s = {} THEN 0 ELSE f[Some(s)] + iter[s \ {Some(s)}]

IsSum(iter, f, S) == iter = [s \in SUBSET S |-> SumStep(f, iter, s)]

(* Taking one element after the other away from a finite set, the sums of all its subsets *)
(* are defined.                                                                            *)
LEMMA SumsExist ==
    ASSUME NEW S, IsFiniteSet(S), NEW f \in [S -> Int]
    PROVE  \E iter : IsSum(iter, f, S)
<1>. DEFINE Sums(iter, n) == \A s \in SUBSET S : Cardinality(s) <= n => iter[s] = SumStep(f, iter, s)
            L == {n \in Nat : \E iter \in [SUBSET S -> Int] : Sums(iter, n)}
<1>1. \A s \in SUBSET S : Cardinality(s) \in Nat
  BY FS_Subset, FS_CardinalityType
<1>2. ASSUME NEW s \in SUBSET S, s # {}
      PROVE  /\ Some(s) \in s /\ s \ {Some(s)} \in SUBSET S
             /\ Cardinality(s \ {Some(s)}) = Cardinality(s) - 1
  <2>1. Some(s) \in s
    BY <1>2 DEF Some
  <2>. QED  BY <2>1, FS_Subset, FS_RemoveElement
<1>3. 0 \in L
  <2>1. PICK iter : iter = [s \in SUBSET S |-> 0]
    OBVIOUS
  <2>2. \A s \in SUBSET S : Cardinality(s) <= 0 => s = {}
    BY <1>1, FS_Subset, FS_EmptySet
  <2>3. Sums(iter, 0) /\ iter \in [SUBSET S -> Int]
    BY <2>1, <2>2 DEF SumStep
  <2>. QED  BY <2>3
<1>4. ASSUME NEW n \in L PROVE n + 1 \in L
  <2>1. PICK iter \in [SUBSET S -> Int] : Sums(iter, n)
    BY <1>4
  <2>2. \A s \in SUBSET S : SumStep(f, iter, s) \in Int
    <3>1. ASSUME NEW s \in SUBSET S, s # {} PROVE f[Some(s)] \in Int /\ iter[s \ {Some(s)}] \in Int
      BY <1>2, <3>1
    <3>. QED  BY <3>1 DEF SumStep
  <2>3. PICK more : more = [s \in SUBSET S |-> SumStep(f, iter, s)]
    OBVIOUS
  <2>4. more \in [SUBSET S -> Int]
    BY <2>2, <2>3
  <2>5. \A s \in SUBSET S : Cardinality(s) <= n => more[s] = iter[s]
    BY <2>1, <2>3
  <2>6. ASSUME NEW s \in SUBSET S, Cardinality(s) <= n + 1
        PROVE  more[s] = SumStep(f, more, s)
    <3>1. CASE s = {}
      BY <2>3, <3>1 DEF SumStep
    <3>2. CASE s # {}
      <4>1. more[s \ {Some(s)}] = iter[s \ {Some(s)}]
        BY <1>1, <1>2, <2>5, <2>6, <3>2
      <4>. QED  BY <2>3, <3>2, <4>1 DEF SumStep
    <3>. QED  BY <3>1, <3>2
  <2>. QED  BY <2>4, <2>6
<1>5. L = Nat
  <2>. HIDE DEF L
  <2>1. L \subseteq Nat
    BY DEF L
  <2>. QED  BY <1>3, <1>4, <2>1, EveryNumber
<1>6. Cardinality(S) \in L
  BY <1>1, <1>5
<1>7. PICK iter \in [SUBSET S -> Int] : Sums(iter, Cardinality(S))
  BY <1>6
<1>8. \A s \in SUBSET S : Cardinality(s) <= Cardinality(S)
  BY FS_Subset
<1>9. iter = [s \in SUBSET S |-> SumStep(f, iter, s)]
  BY <1>7, <1>8
<1>. QED  BY <1>9 DEF IsSum

(* Induction over the subsets of a finite set, smaller ones first. *)
LEMMA SmallerFirst ==
    ASSUME NEW S, IsFiniteSet(S), NEW P,
           \A s \in SUBSET S : (\A t \in SUBSET s : t # s => t \in P) => s \in P
    PROVE  \A s \in SUBSET S : s \in P
<1>. DEFINE T == {s \in SUBSET S : s \notin P}
            Small == FiniteSubsetsOf(S)
            Smaller == StrictSubsetOrdering(S)
<1>1. ASSUME T # {} PROVE FALSE
  <2>1. T \subseteq Small
    BY FS_Subset DEF FiniteSubsetsOf
  <2>2. IsWellFoundedOn(Smaller, Small)
    BY FS_StrictSubsetOrderingWellFounded
  <2>3. \A t, s \in SUBSET S : t \subseteq s /\ t # s => <<t, s>> \in Smaller
    BY DEF StrictSubsetOrdering
  <2>4. PICK s \in T : \A t \in T : ~(<<t, s>> \in Smaller)
    <3>1. PICK small : small = Small
      OBVIOUS
    <3>2. PICK smaller : smaller = Smaller
      OBVIOUS
    <3>3. PICK U : U = T
      OBVIOUS
    <3>4. IsWellFoundedOn(smaller, small) /\ U \subseteq small /\ U # {}
      BY <1>1, <2>1, <2>2, <3>1, <3>2, <3>3
    <3>5. PICK s \in U : \A t \in U : ~(<<t, s>> \in smaller)
      BY ONLY <3>4, WFMin, Zenon
    <3>. HIDE DEF Smaller, T
    <3>. QED  BY <3>2, <3>3, <3>5
  <2>. HIDE DEF Smaller
  <2>5. ASSUME NEW t \in SUBSET s, t # s PROVE t \in P
    <3>1. t \in SUBSET S /\ t \subseteq s
      BY <2>4
    <3>2. <<t, s>> \in Smaller
      BY <2>3, <2>4, <2>5, <3>1
    <3>. QED  BY <2>4, <3>1, <3>2
  <2>. QED  BY <2>4, <2>5
<1>. QED  BY <1>1

(* A sum of integers is an integer, and of natural numbers a natural number. *)
LEMMA SumsTyped ==
    ASSUME NEW S, IsFiniteSet(S), NEW N \in {Nat, Int}, NEW f \in [S -> N], NEW iter,
           IsSum(iter, f, S)
    PROVE  iter \in [SUBSET S -> N]
<1>. DEFINE P == {s \in SUBSET S : iter[s] \in N}
<1>1. ASSUME NEW s \in SUBSET S, \A t \in SUBSET s : t # s => t \in P PROVE s \in P
  <2>1. CASE s = {}
    BY <2>1 DEF IsSum, SumStep
  <2>2. CASE s # {}
    <3>1. PICK x \in s : x = Some(s)
      BY <2>2 DEF Some
    <3>2. iter[s] = f[x] + iter[s \ {x}]
      BY <2>2, <3>1 DEF IsSum, SumStep
    <3>3. s \ {x} \in P
      BY <1>1
    <3>4. f[x] \in N /\ iter[s \ {x}] \in N
      BY <3>3
    <3>. QED  BY <3>2, <3>4
  <2>. QED  BY <2>1, <2>2
<1>. HIDE DEF P
<1>2. \A s \in SUBSET S : s \in P
  BY <1>1, SmallerFirst
<1>3. \A s \in SUBSET S : iter[s] \in N
  BY <1>2 DEF P
<1>. QED  BY <1>3 DEF IsSum

(* The sums do not depend on the element that is taken first. *)
LEMMA TakeAny ==
    ASSUME NEW S, IsFiniteSet(S), NEW f \in [S -> Int], NEW iter, IsSum(iter, f, S)
    PROVE  /\ iter[{}] = 0
           /\ \A s \in SUBSET S : \A x \in s : iter[s] = f[x] + iter[s \ {x}]
<1>. DEFINE P == {s \in SUBSET S : \A x \in s : iter[s] = f[x] + iter[s \ {x}]}
<1>. iter \in [SUBSET S -> Int]
  BY SumsTyped
<1>1. iter[{}] = 0
  BY DEF IsSum, SumStep
<1>2. ASSUME NEW s \in SUBSET S, \A t \in SUBSET s : t # s => t \in P PROVE s \in P
  <2>1. SUFFICES ASSUME NEW x \in s PROVE iter[s] = f[x] + iter[s \ {x}]
    OBVIOUS
  <2>2. PICK y \in s : y = Some(s)
    BY DEF Some
  <2>3. iter[s] = f[y] + iter[s \ {y}]
    BY <2>2 DEF IsSum, SumStep
  <2>4. CASE x # y
    <3>1. PICK u \in SUBSET s : u = (s \ {x}) \ {y}
      OBVIOUS
    <3>2. s \ {x} \in P /\ s \ {y} \in P
      BY <1>2
    <3>3. iter[s \ {x}] = f[y] + iter[u] /\ iter[s \ {y}] = f[x] + iter[u]
      <4>1. (s \ {y}) \ {x} = u /\ (s \ {x}) \ {y} = u
        BY <3>1
      <4>2. y \in s \ {x} /\ x \in s \ {y}
        BY <2>4
      <4>. QED  BY <3>2, <4>1, <4>2
    <3>4. f[x] \in Int /\ f[y] \in Int /\ iter[u] \in Int
      BY <3>1
    <3>. QED  BY <2>3, <3>3, <3>4
  <2>. QED  BY <2>3, <2>4
<1>. HIDE DEF P
<1>3. \A s \in SUBSET S : s \in P
  BY <1>2, SmallerFirst
<1>. QED  BY <1>1, <1>3 DEF P

(* Nor on anything but the summands of the set. *)
LEMMA SumsAgree ==
    ASSUME NEW S, IsFiniteSet(S), NEW f \in [S -> Int], NEW sf, IsSum(sf, f, S),
           NEW T, IsFiniteSet(T), NEW g \in [T -> Int], NEW sg, IsSum(sg, g, T),
           T \subseteq S, \A x \in T : f[x] = g[x]
    PROVE  sf[T] = sg[T]
<1>. DEFINE P == {s \in SUBSET T : sf[s] = sg[s]}
<1>1. ASSUME NEW s \in SUBSET T, \A t \in SUBSET s : t # s => t \in P PROVE s \in P
  <2>1. CASE s = {}
    BY <2>1, TakeAny
  <2>2. CASE s # {}
    <3>1. PICK x \in s : TRUE
      BY <2>2
    <3>2. s \in SUBSET S /\ x \in T
      OBVIOUS
    <3>3. sf[s] = f[x] + sf[s \ {x}] /\ sg[s] = g[x] + sg[s \ {x}]
      BY <3>2, TakeAny
    <3>4. sf[s \ {x}] = sg[s \ {x}]
      BY <1>1
    <3>. QED  BY <3>2, <3>3, <3>4
  <2>. QED  BY <2>1, <2>2
<1>. HIDE DEF P
<1>2. \A s \in SUBSET T : s \in P
  BY <1>1, SmallerFirst
<1>. QED  BY <1>2 DEF P

-----------------------------------------------------------------------------
(* SumFunction adds the elements up like that. *)
LEMMA SumUnfolds ==
    ASSUME NEW S, IsFiniteSet(S), NEW f \in [S -> Int]
    PROVE  \E iter : IsSum(iter, f, S) /\ SumFunction(f) = iter[S]
<1>. DEFINE sums == CHOOSE iter : iter = [s \in SUBSET S |-> SumStep(f, iter, s)]
<1>1. SumFunction(f) = sums[S]
  BY DEF SumFunction, SumFunctionOnSet, FoldFunctionOnSet, MapThenFoldSet, SumStep, Some
<1>2. sums = [s \in SUBSET S |-> SumStep(f, sums, s)]
  BY SumsExist DEF IsSum
<1>. HIDE DEF sums
<1>. QED  BY <1>1, <1>2 DEF IsSum

LEMMA SumType ==
    ASSUME NEW S, IsFiniteSet(S), NEW N \in {Nat, Int}, NEW f \in [S -> N]
    PROVE  SumFunction(f) \in N
<1>1. f \in [S -> Int]
  OBVIOUS
<1>2. PICK sums : IsSum(sums, f, S) /\ SumFunction(f) = sums[S]
  BY <1>1, SumUnfolds
<1>3. sums \in [SUBSET S -> N]
  BY <1>2, SumsTyped
<1>. QED  BY <1>2, <1>3

LEMMA SumEmpty == ASSUME NEW f, DOMAIN f = {} PROVE SumFunction(f) = 0
<1>1. f \in [{} -> Int] /\ IsFiniteSet({})
  BY FS_EmptySet
<1>2. PICK sums : IsSum(sums, f, {}) /\ SumFunction(f) = sums[{}]
  BY <1>1, SumUnfolds
<1>. QED  BY <1>1, <1>2, TakeAny

(* One summand taken out of the sum. *)
LEMMA SumRemove ==
    ASSUME NEW S, IsFiniteSet(S), NEW f \in [S -> Int], NEW x \in S
    PROVE  SumFunction(f) = f[x] + SumFunction([y \in S \ {x} |-> f[y]])
<1>. DEFINE T == S \ {x}
            g == [y \in T |-> f[y]]
<1>1. IsFiniteSet(T) /\ g \in [T -> Int]
  BY FS_RemoveElement
<1>2. PICK sf : IsSum(sf, f, S) /\ SumFunction(f) = sf[S]
  BY SumUnfolds
<1>3. PICK sg : IsSum(sg, g, T) /\ SumFunction(g) = sg[T]
  BY <1>1, SumUnfolds
<1>4. T \subseteq S /\ \A y \in T : f[y] = g[y]
  OBVIOUS
<1>. HIDE DEF g, T
<1>5. sf[T] = sg[T]
  BY <1>1, <1>2, <1>3, <1>4, SumsAgree
<1>6. sf[S] = f[x] + sf[S \ {x}]
  BY <1>2, TakeAny
<1>. QED  BY <1>2, <1>3, <1>5, <1>6 DEF T, g

(* Summands that are each at most k times others add up to at most k times their sum. *)
LEMMA SumBounded ==
    ASSUME NEW S, IsFiniteSet(S), NEW f \in [S -> Int], NEW g \in [S -> Int], NEW k \in Int,
           \A x \in S : f[x] <= k * g[x]
    PROVE  SumFunction(f) <= k * SumFunction(g)
<1>1. PICK sf : IsSum(sf, f, S) /\ SumFunction(f) = sf[S]
  BY SumUnfolds
<1>2. PICK sg : IsSum(sg, g, S) /\ SumFunction(g) = sg[S]
  BY SumUnfolds
<1>3. sf \in [SUBSET S -> Int] /\ sg \in [SUBSET S -> Int]
  BY <1>1, <1>2, SumsTyped
<1>. DEFINE P == {s \in SUBSET S : sf[s] <= k * sg[s]}
<1>4. ASSUME NEW s \in SUBSET S, \A t \in SUBSET s : t # s => t \in P PROVE s \in P
  <2>1. CASE s = {}
    BY <1>1, <1>2, <2>1, TakeAny
  <2>2. CASE s # {}
    <3>1. PICK x \in s : TRUE
      BY <2>2
    <3>2. PICK rest \in SUBSET s : rest = s \ {x}
      OBVIOUS
    <3>3. sf[s] = f[x] + sf[rest] /\ sg[s] = g[x] + sg[rest]
      <4>1. sf[s] = f[x] + sf[s \ {x}]
        BY <1>1, <3>1, TakeAny
      <4>2. sg[s] = g[x] + sg[s \ {x}]
        BY <1>2, <3>1, TakeAny
      <4>. QED  BY <3>2, <4>1, <4>2
    <3>4. rest \in P
      BY <1>4, <3>2
    <3>5. /\ f[x] \in Int /\ g[x] \in Int /\ f[x] <= k * g[x]
          /\ sf[rest] \in Int /\ sg[rest] \in Int /\ sf[rest] <= k * sg[rest]
      BY <1>3, <3>1, <3>2, <3>4
    <3>. HIDE DEF P
    <3>6. k * (g[x] + sg[rest]) = k * g[x] + k * sg[rest]
      BY <3>5
    <3>7. k * g[x] \in Int /\ k * sg[rest] \in Int
      BY <3>5
    <3>8. f[x] + sf[rest] <= k * g[x] + k * sg[rest]
      BY <3>5, <3>7
    <3>9. k * sg[s] = k * g[x] + k * sg[rest]
      BY <3>3, <3>6
    <3>10. sf[s] <= k * sg[s]
      BY <3>3, <3>8, <3>9
    <3>. QED  BY <3>10 DEF P
  <2>. QED  BY <2>1, <2>2
<1>. HIDE DEF P
<1>5. S \in P
  BY <1>4, SmallerFirst
<1>. QED  BY <1>1, <1>2, <1>5 DEF P

(* As many times the same number. *)
LEMMA SumConstant ==
    ASSUME NEW S, IsFiniteSet(S)
    PROVE  SumFunction([x \in S |-> 1]) = Cardinality(S)
<1>. DEFINE f == [x \in S |-> 1]
<1>1. f \in [S -> Int]
  OBVIOUS
<1>2. PICK sf : IsSum(sf, f, S) /\ SumFunction(f) = sf[S]
  BY <1>1, SumUnfolds
<1>. DEFINE P == {s \in SUBSET S : sf[s] = Cardinality(s)}
<1>3. ASSUME NEW s \in SUBSET S, \A t \in SUBSET s : t # s => t \in P PROVE s \in P
  <2>1. CASE s = {}
    BY <1>1, <1>2, <2>1, TakeAny, FS_EmptySet
  <2>2. CASE s # {}
    <3>1. PICK x \in s : TRUE
      BY <2>2
    <3>2. f[x] = 1
      BY <3>1
    <3>. HIDE DEF f
    <3>3. sf[s] = 1 + sf[s \ {x}]
      BY <1>1, <1>2, <3>1, <3>2, TakeAny
    <3>4. s \ {x} \in P
      BY <1>3
    <3>5. IsFiniteSet(s) /\ Cardinality(s \ {x}) = Cardinality(s) - 1 /\ Cardinality(s) \in Nat
      BY <3>1, FS_Subset, FS_RemoveElement, FS_CardinalityType
    <3>. QED  BY <3>3, <3>4, <3>5
  <2>. QED  BY <2>1, <2>2
<1>. HIDE DEF P
<1>4. S \in P
  BY <1>3, SmallerFirst
<1>. QED  BY <1>2, <1>4 DEF P

LEMMA SumAtMost ==
    ASSUME NEW S, IsFiniteSet(S), NEW f \in [S -> Int], NEW m \in Int, \A x \in S : f[x] <= m
    PROVE  SumFunction(f) <= m * Cardinality(S)
<1>. DEFINE one == [x \in S |-> 1]
<1>1. one \in [S -> Int] /\ \A x \in S : f[x] <= m * one[x]
  OBVIOUS
<1>2. SumFunction(one) = Cardinality(S)
  BY SumConstant
<1>. HIDE DEF one
<1>3. SumFunction(f) <= m * SumFunction(one)
  BY <1>1, SumBounded
<1>. QED  BY <1>2, <1>3
=============================================================================
