-------------------------------- MODULE Sums --------------------------------
(***************************************************************************)
(* Facts about SumFunctionOnSet(f, S), the sum of f[x] over a finite set   *)
(* S, that the accounts of bytes need: it grows and shrinks by one element *)
(* at a time, whichever element that is.                                   *)
(*                                                                         *)
(* The library's induction theorems are about operators.  NatSetInduction  *)
(* says the same of a set, which a proof can name: induction over          *)
(* cardinalities with it gives the rest.                                   *)
(***************************************************************************)
EXTENDS Integers, Functions, FiniteSetTheorems, WellFoundedInduction, TLAPS

\* Induction over the natural numbers, for the set of those a fact holds of.
LEMMA NatSetInduction ==
    ASSUME NEW T, 0 \in T, \A n \in Nat : n \in T => n + 1 \in T
    PROVE  Nat \subseteq T
  <1> DEFINE R == OpToRel(<, Nat)
             Rest == Nat \ T
  <1> SUFFICES ASSUME Rest # {} PROVE FALSE
    OBVIOUS
  <1>1. PICK x \in Rest : \A y \in Rest : ~(<<y, x>> \in R)
    <2> HIDE DEF R, Rest
    <2>1. IsWellFoundedOn(R, Nat)
      BY NatLessThanWellFounded DEF R
    <2>2. Rest \subseteq Nat
      BY DEF Rest
    <2> QED BY <2>1, <2>2, WFMin
  <1>2. x \in Nat /\ x # 0
    OBVIOUS
  <1>3. x - 1 \in Nat /\ x - 1 < x /\ (x - 1) + 1 = x
    BY <1>2
  <1>4. <<x - 1, x>> \in R
    BY <1>2, <1>3 DEF OpToRel
  <1>5. x - 1 \in T
    BY <1>1, <1>3, <1>4
  <1> QED BY <1>2, <1>3, <1>5

-----------------------------------------------------------------------------
Pick(s) == CHOOSE x \in s : TRUE

\* What the definition of the sum of f computes for a set s, where g has it for
\* smaller ones.
Step(g, f, s) == IF s = {} THEN 0 ELSE f[Pick(s)] + g[s \ {Pick(s)}]

IsSolution(g, f, S) == g = [s \in SUBSET S |-> Step(g, f, s)]

InAnyOrder(g, f, S) == \A s \in SUBSET S : \A x \in s : g[s] = f[x] + g[s \ {x}]

\* g gives the sum of f over every part of S.
IsSumOf(g, f, S) ==
    /\ g \in [SUBSET S -> Int]
    /\ g[{}] = 0
    /\ InAnyOrder(g, f, S)

\* Parts of S by their number of elements.
UpTo(S, n) == {s \in SUBSET S : Cardinality(s) <= n}

LEMMA Parts ==
    ASSUME NEW S, IsFiniteSet(S), NEW s \in SUBSET S
    PROVE  /\ IsFiniteSet(s) /\ Cardinality(s) \in Nat /\ Cardinality(s) <= Cardinality(S)
           /\ Cardinality(s) = 0 <=> s = {}
           /\ \A x \in s : /\ s \ {x} \in SUBSET S
                           /\ Cardinality(s \ {x}) = Cardinality(s) - 1
  BY FS_Subset, FS_CardinalityType, FS_RemoveElement, FS_EmptySet

LEMMA Picked == ASSUME NEW s, s # {} PROVE Pick(s) \in s
  BY DEF Pick

LEMMA PartsUpTo ==
    ASSUME NEW S, IsFiniteSet(S), NEW n \in Nat
    PROVE  /\ UpTo(S, n) \subseteq UpTo(S, n + 1)
           /\ \A s \in UpTo(S, 0) : s = {}
           /\ \A s \in UpTo(S, n + 1) : \A x \in s : x \in S /\ s \ {x} \in UpTo(S, n)
  <1>1. \A s \in SUBSET S : Cardinality(s) \in Nat /\ (Cardinality(s) = 0 <=> s = {})
    BY Parts
  <1>2. \A s \in SUBSET S : \A x \in s :
            s \ {x} \in SUBSET S /\ Cardinality(s \ {x}) = Cardinality(s) - 1
    BY Parts
  <1>3. ASSUME NEW s \in UpTo(S, n + 1), NEW x \in s PROVE s \ {x} \in UpTo(S, n)
    <2>1. s \in SUBSET S /\ Cardinality(s) <= n + 1
      BY DEF UpTo
    <2>2. s \ {x} \in SUBSET S /\ Cardinality(s \ {x}) = Cardinality(s) - 1
      BY <1>2, <2>1
    <2>3. Cardinality(s) \in Nat
      BY <1>1, <2>1
    <2>4. Cardinality(s \ {x}) <= n
      BY <2>1, <2>2, <2>3
    <2> QED BY <2>2, <2>4 DEF UpTo
  <1> QED BY <1>1, <1>3 DEF UpTo

\* Up to any number of elements the recursion has a solution ...
LEMMA RecursionUpTo ==
    ASSUME NEW S, IsFiniteSet(S), NEW f, \A x \in S : f[x] \in Int
    PROVE  \A n \in Nat : \E g \in [UpTo(S, n) -> Int] :
               \A s \in UpTo(S, n) : g[s] = Step(g, f, s)
  <1> DEFINE T == {n \in Nat : \E g \in [UpTo(S, n) -> Int] :
                                   \A s \in UpTo(S, n) : g[s] = Step(g, f, s)}
  <1>1. 0 \in T
    <2> DEFINE g == [s \in UpTo(S, 0) |-> 0]
    <2>1. \A s \in UpTo(S, 0) : s = {}
      BY PartsUpTo
    <2>2. g \in [UpTo(S, 0) -> Int] /\ \A s \in UpTo(S, 0) : g[s] = Step(g, f, s)
      BY <2>1 DEF Step
    <2> QED BY <2>2
  <1>2. ASSUME NEW n \in Nat, n \in T PROVE n + 1 \in T
    <2>1. PICK g \in [UpTo(S, n) -> Int] : \A s \in UpTo(S, n) : g[s] = Step(g, f, s)
      BY <1>2
    <2> DEFINE h == [s \in UpTo(S, n + 1) |-> Step(g, f, s)]
    <2>2. \A s \in UpTo(S, n + 1) : s # {} =>
              Pick(s) \in S /\ s \ {Pick(s)} \in UpTo(S, n)
      BY PartsUpTo, Picked
    <2>3. \A s \in UpTo(S, n + 1) : Step(g, f, s) \in Int
      BY <2>2 DEF Step
    <2>4. h \in [UpTo(S, n + 1) -> Int]
      BY <2>3
    <2>5. \A s \in UpTo(S, n) : h[s] = g[s]
      BY <2>1, PartsUpTo
    <2>6. \A s \in UpTo(S, n + 1) : h[s] = Step(h, f, s)
      <3>1. \A s \in UpTo(S, n + 1) : h[s] = Step(g, f, s)
        OBVIOUS
      <3> HIDE DEF h
      <3>2. \A s \in UpTo(S, n + 1) : Step(g, f, s) = Step(h, f, s)
        BY <2>2, <2>5 DEF Step
      <3> QED BY <3>1, <3>2
    <2>7. \E k \in [UpTo(S, n + 1) -> Int] : \A s \in UpTo(S, n + 1) : k[s] = Step(k, f, s)
      <3> HIDE DEF h
      <3> QED BY <2>4, <2>6
    <2> QED BY <2>7
  <1> HIDE DEF T
  <1>3. Nat \subseteq T
    BY <1>1, <1>2, NatSetInduction
  <1> QED BY <1>3 DEF T

\* ... and so it has one for all parts of a finite set.
LEMMA RecursionSolved ==
    ASSUME NEW S, IsFiniteSet(S), NEW f, \A x \in S : f[x] \in Int
    PROVE  \E g : IsSolution(g, f, S)
  <1>1. Cardinality(S) \in Nat
    BY FS_CardinalityType
  <1>2. PICK g \in [UpTo(S, Cardinality(S)) -> Int] :
            \A s \in UpTo(S, Cardinality(S)) : g[s] = Step(g, f, s)
    BY <1>1, RecursionUpTo
  <1>3. UpTo(S, Cardinality(S)) = SUBSET S
    BY Parts DEF UpTo
  <1>4. g = [s \in SUBSET S |-> Step(g, f, s)]
    BY <1>2, <1>3
  <1> QED BY <1>4 DEF IsSolution

\* A solution gives whole numbers ...
LEMMA RecursionType ==
    ASSUME NEW S, IsFiniteSet(S), NEW f, \A x \in S : f[x] \in Int, NEW g,
           IsSolution(g, f, S)
    PROVE  g \in [SUBSET S -> Int]
  <1> DEFINE T == {n \in Nat : \A s \in UpTo(S, n) : g[s] \in Int}
  <1>0. \A n \in Nat : \A s \in UpTo(S, n) : s \in SUBSET S /\ g[s] = Step(g, f, s)
    BY DEF UpTo, IsSolution
  <1>1. 0 \in T
    BY <1>0, PartsUpTo DEF Step
  <1>2. ASSUME NEW n \in Nat, n \in T PROVE n + 1 \in T
    <2>1. \A s \in UpTo(S, n + 1) : s # {} =>
              Pick(s) \in S /\ s \ {Pick(s)} \in UpTo(S, n)
      BY PartsUpTo, Picked
    <2>2. \A s \in UpTo(S, n) : g[s] \in Int
      BY <1>2
    <2>0. n + 1 \in Nat
      OBVIOUS
    <2>3. ASSUME NEW s \in UpTo(S, n + 1) PROVE g[s] \in Int
      <3>0. g[s] = Step(g, f, s)
        BY <1>0, <2>0
      <3>1. CASE s = {}
        BY <3>0, <3>1 DEF Step
      <3>2. CASE s # {}
        <4>1. f[Pick(s)] \in Int /\ g[s \ {Pick(s)}] \in Int
          BY <2>1, <2>2, <3>2
        <4>2. g[s] = f[Pick(s)] + g[s \ {Pick(s)}]
          BY <3>0, <3>2 DEF Step
        <4> QED BY <4>1, <4>2
      <3> QED BY <3>1, <3>2
    <2> QED BY <2>0, <2>3
  <1>3. Nat \subseteq T
    <2> HIDE DEF T
    <2> QED BY <1>1, <1>2, NatSetInduction
  <1>4. Cardinality(S) \in Nat /\ UpTo(S, Cardinality(S)) = SUBSET S
    BY Parts, FS_CardinalityType DEF UpTo
  <1>5. \A s \in SUBSET S : g[s] \in Int
    BY <1>3, <1>4
  <1> QED BY <1>5 DEF IsSolution

\* ... and takes the elements of a set in any order.
LEMMA RecursionAnyOrder ==
    ASSUME NEW S, IsFiniteSet(S), NEW f, \A x \in S : f[x] \in Int, NEW g,
           IsSolution(g, f, S)
    PROVE  InAnyOrder(g, f, S)
  <1> DEFINE Right(s) == \A x \in s : g[s] = f[x] + g[s \ {x}]
             T == {n \in Nat : \A s \in UpTo(S, n) : Right(s)}
  <1>a. g \in [SUBSET S -> Int]
    BY RecursionType
  <1>0. /\ \A s \in SUBSET S : g[s] = Step(g, f, s) /\ g[s] \in Int
        /\ \A n \in Nat : UpTo(S, n) \subseteq SUBSET S
    BY <1>a DEF UpTo, IsSolution
  <1>1. 0 \in T
    BY PartsUpTo
  <1>2. ASSUME NEW n \in Nat, n \in T PROVE n + 1 \in T
    <2>0. n + 1 \in Nat
      OBVIOUS
    <2> SUFFICES ASSUME NEW s \in UpTo(S, n + 1), NEW x \in s
                 PROVE  g[s] = f[x] + g[s \ {x}]
      BY <2>0
    <2> DEFINE y == Pick(s)
    <2>1. y \in s
      BY Picked
    <2>2. s \in SUBSET S /\ s \ {y} \in UpTo(S, n) /\ s \ {x} \in UpTo(S, n)
      BY <1>0, <2>1, PartsUpTo
    <2>3. g[s] = f[y] + g[s \ {y}]
      BY <1>0, <2>1, <2>2 DEF Step
    <2>4. CASE x = y
      BY <2>3, <2>4
    <2>5. CASE x # y
      <3>1. Right(s \ {y}) /\ Right(s \ {x})
        BY <1>2, <2>2
      <3> HIDE DEF y
      <3>2. x \in s \ {y} /\ y \in s \ {x} /\ (s \ {y}) \ {x} = (s \ {x}) \ {y}
        BY <2>1, <2>5
      <3>3. /\ g[s \ {y}] = f[x] + g[(s \ {y}) \ {x}]
            /\ g[s \ {x}] = f[y] + g[(s \ {y}) \ {x}]
        BY <3>1, <3>2
      <3>4. f[x] \in Int /\ f[y] \in Int /\ g[(s \ {y}) \ {x}] \in Int
        BY <1>0, <2>1, <2>2
      <3> QED BY <2>3, <3>3, <3>4
    <2> QED BY <2>4, <2>5
  <1>3. Nat \subseteq T
    <2> HIDE DEF T
    <2> QED BY <1>1, <1>2, NatSetInduction
  <1>4. Cardinality(S) \in Nat /\ UpTo(S, Cardinality(S)) = SUBSET S
    BY Parts, FS_CardinalityType DEF UpTo
  <1> QED BY <1>3, <1>4 DEF InAnyOrder

-----------------------------------------------------------------------------
\* The sum is what a solution gives for the whole set.
LEMMA SumIsSolution ==
    ASSUME NEW S, IsFiniteSet(S), NEW f, \A x \in S : f[x] \in Int
    PROVE  \E g : IsSumOf(g, f, S) /\ SumFunctionOnSet(f, S) = g[S]
  <1> DEFINE g == CHOOSE g : IsSolution(g, f, S)
  <1>1. IsSolution(g, f, S)
    BY RecursionSolved
  <1>2. SumFunctionOnSet(f, S) = g[S]
    BY DEF SumFunctionOnSet, FoldFunctionOnSet, MapThenFoldSet, IsSolution, Step, Pick
  <1> HIDE DEF g
  <1>3. ASSUME NEW h, IsSolution(h, f, S) PROVE IsSumOf(h, f, S)
    <2>1. h \in [SUBSET S -> Int]
      BY <1>3, RecursionType
    <2>2. InAnyOrder(h, f, S)
      BY <1>3, RecursionAnyOrder
    <2>3. h[{}] = 0
      <3>1. h[{}] = Step(h, f, {})
        BY <1>3 DEF IsSolution
      <3> QED BY <3>1 DEF Step
    <2> QED BY <2>1, <2>2, <2>3 DEF IsSumOf
  <1> QED BY <1>1, <1>2, <1>3

\* Two functions that agree on a set have the same sums over it.
LEMMA SumAgrees ==
    ASSUME NEW S, NEW R, IsFiniteSet(S), IsFiniteSet(R), NEW f, NEW e, NEW g, NEW h,
           IsSumOf(g, f, S), IsSumOf(h, e, R),
           NEW A \in SUBSET (S \cap R), \A x \in A : f[x] = e[x]
    PROVE  g[A] = h[A]
  <1> DEFINE T == {n \in Nat : \A s \in UpTo(A, n) : g[s] = h[s]}
  <1>0. IsFiniteSet(A)
    BY FS_Subset
  <1>1. 0 \in T
    <2>1. \A s \in UpTo(A, 0) : s = {}
      BY <1>0, PartsUpTo
    <2> QED BY <2>1 DEF IsSumOf, InAnyOrder
  <1>2. ASSUME NEW n \in Nat, n \in T PROVE n + 1 \in T
    <2>0. n + 1 \in Nat
      OBVIOUS
    <2> SUFFICES ASSUME NEW s \in UpTo(A, n + 1) PROVE g[s] = h[s]
      BY <2>0
    <2>1. s \in SUBSET A /\ s \in SUBSET S /\ s \in SUBSET R
      BY DEF UpTo
    <2>2. CASE s = {}
      BY <2>2 DEF IsSumOf
    <2>3. CASE s # {}
      <3>1. PICK x \in s : TRUE
        BY <2>3
      <3>2. s \ {x} \in UpTo(A, n)
        BY <1>0, PartsUpTo
      <3>3. g[s \ {x}] = h[s \ {x}]
        BY <1>2, <3>2
      <3>4. g[s] = f[x] + g[s \ {x}] /\ h[s] = e[x] + h[s \ {x}] /\ f[x] = e[x]
        BY <2>1 DEF IsSumOf, InAnyOrder
      <3> QED BY <3>3, <3>4
    <2> QED BY <2>2, <2>3
  <1>3. Nat \subseteq T
    <2> HIDE DEF T
    <2> QED BY <1>1, <1>2, NatSetInduction
  <1>4. Cardinality(A) \in Nat /\ UpTo(A, Cardinality(A)) = SUBSET A
    BY <1>0, Parts, FS_CardinalityType DEF UpTo
  <1> QED BY <1>3, <1>4

-----------------------------------------------------------------------------
(* What the other modules use.                                             *)

LEMMA SumEmpty ==
    ASSUME NEW f
    PROVE  SumFunctionOnSet(f, {}) = 0
  <1>1. PICK g : IsSumOf(g, f, {}) /\ SumFunctionOnSet(f, {}) = g[{}]
    BY SumIsSolution, FS_EmptySet
  <1> QED BY <1>1 DEF IsSumOf, InAnyOrder

\* A function that has the same values has the same sum.
LEMMA SumSame ==
    ASSUME NEW S, IsFiniteSet(S), NEW f, \A x \in S : f[x] \in Int,
           NEW e, \A x \in S : e[x] = f[x]
    PROVE  SumFunctionOnSet(e, S) = SumFunctionOnSet(f, S)
  <1>1. PICK g : IsSumOf(g, f, S) /\ SumFunctionOnSet(f, S) = g[S]
    BY SumIsSolution
  <1>2. PICK h : IsSumOf(h, e, S) /\ SumFunctionOnSet(e, S) = h[S]
    BY SumIsSolution
  <1> QED BY <1>1, <1>2, SumAgrees

\* A sum grows by what one more element adds, whichever it is.
LEMMA SumRemove ==
    ASSUME NEW S, IsFiniteSet(S), NEW f, \A x \in S : f[x] \in Int, NEW x \in S
    PROVE  /\ SumFunctionOnSet(f, S) = f[x] + SumFunctionOnSet(f, S \ {x})
           /\ SumFunctionOnSet(f, S \ {x}) \in Int
  <1> DEFINE R == S \ {x}
  <1>0. IsFiniteSet(R) /\ R \in SUBSET (S \cap R) /\ \A y \in R : f[y] \in Int
    BY FS_RemoveElement
  <1>1. PICK g : IsSumOf(g, f, S) /\ SumFunctionOnSet(f, S) = g[S]
    BY SumIsSolution
  <1>2. PICK h : IsSumOf(h, f, R) /\ SumFunctionOnSet(f, R) = h[R]
    <2> HIDE DEF R
    <2> QED BY <1>0, SumIsSolution
  <1>3. g[R] = h[R]
    <2> HIDE DEF R
    <2> QED BY <1>0, <1>1, <1>2, SumAgrees
  <1>4. g[S] = f[x] + g[R] /\ g[R] \in Int
    BY <1>1 DEF IsSumOf, InAnyOrder
  <1> QED BY <1>1, <1>2, <1>3, <1>4

LEMMA SumAdd ==
    ASSUME NEW S, IsFiniteSet(S), NEW f, NEW x, x \notin S, \A y \in S \cup {x} : f[y] \in Int
    PROVE  /\ SumFunctionOnSet(f, S \cup {x}) = f[x] + SumFunctionOnSet(f, S)
           /\ SumFunctionOnSet(f, S) \in Int
  <1> DEFINE A == S \cup {x}
  <1>1. IsFiniteSet(A) /\ x \in A /\ A \ {x} = S /\ \A y \in A : f[y] \in Int
    BY FS_AddElement
  <1> HIDE DEF A
  <1>2. /\ SumFunctionOnSet(f, A) = f[x] + SumFunctionOnSet(f, A \ {x})
        /\ SumFunctionOnSet(f, A \ {x}) \in Int
    BY <1>1, SumRemove
  <1> QED BY <1>1, <1>2 DEF A

\* A sum stays in a set of integers that is closed under addition.
LEMMA SumClosed ==
    ASSUME NEW C \in SUBSET Int, 0 \in C, \A a, b \in C : a + b \in C,
           NEW S, IsFiniteSet(S), NEW f, \A x \in S : f[x] \in C
    PROVE  SumFunctionOnSet(f, S) \in C
  <1> DEFINE T == {n \in Nat : \A s \in UpTo(S, n) : SumFunctionOnSet(f, s) \in C}
  <1>0. \A n \in Nat : \A s \in UpTo(S, n) : s \in SUBSET S /\ IsFiniteSet(s)
    BY FS_Subset DEF UpTo
  <1>1. 0 \in T
    <2>1. \A s \in UpTo(S, 0) : s = {}
      BY PartsUpTo
    <2>2. SumFunctionOnSet(f, {}) = 0
      BY SumEmpty
    <2>3. \A s \in UpTo(S, 0) : SumFunctionOnSet(f, s) = 0
      BY <2>1, <2>2
    <2> QED BY <2>3
  <1>2. ASSUME NEW n \in Nat, n \in T PROVE n + 1 \in T
    <2>0. n + 1 \in Nat
      OBVIOUS
    <2> SUFFICES ASSUME NEW s \in UpTo(S, n + 1) PROVE SumFunctionOnSet(f, s) \in C
      BY <2>0
    <2>1. CASE s = {}
      BY <2>1, SumEmpty
    <2>2. CASE s # {}
      <3>1. PICK x \in s : TRUE
        BY <2>2
      <3>2. s \ {x} \in UpTo(S, n) /\ f[x] \in C
        BY PartsUpTo
      <3>3. SumFunctionOnSet(f, s \ {x}) \in C
        BY <1>2, <3>2
      <3>4. IsFiniteSet(s) /\ \A y \in s : f[y] \in Int
        BY <1>0, <2>0
      <3>5. SumFunctionOnSet(f, s) = f[x] + SumFunctionOnSet(f, s \ {x})
        BY <3>4, SumRemove
      <3> QED BY <3>2, <3>3, <3>5
    <2> QED BY <2>1, <2>2
  <1>3. Nat \subseteq T
    <2> HIDE DEF T
    <2> QED BY <1>1, <1>2, NatSetInduction
  <1>4. Cardinality(S) \in Nat /\ S \in UpTo(S, Cardinality(S))
    BY FS_CardinalityType DEF UpTo
  <1> QED BY <1>3, <1>4

LEMMA SumNat ==
    ASSUME NEW S, IsFiniteSet(S), NEW f, \A x \in S : f[x] \in Nat
    PROVE  SumFunctionOnSet(f, S) \in Nat
  <1> DEFINE C == Nat
  <1>1. C \in SUBSET Int /\ 0 \in C /\ (\A a, b \in C : a + b \in C) /\ \A x \in S : f[x] \in C
    OBVIOUS
  <1> HIDE DEF C
  <1>2. SumFunctionOnSet(f, S) \in C
    BY <1>1, SumClosed
  <1> QED BY <1>2 DEF C

LEMMA SumZero ==
    ASSUME NEW S, IsFiniteSet(S), NEW f, \A x \in S : f[x] = 0
    PROVE  SumFunctionOnSet(f, S) = 0
  <1> DEFINE C == {0}
  <1>1. C \in SUBSET Int /\ 0 \in C /\ (\A a, b \in C : a + b \in C) /\ \A x \in S : f[x] \in C
    OBVIOUS
  <1> HIDE DEF C
  <1>2. SumFunctionOnSet(f, S) \in C
    BY <1>1, SumClosed
  <1> QED BY <1>2 DEF C

\* A change of one value changes the sum by as much, if it is summed.
LEMMA SumExcept ==
    ASSUME NEW S, IsFiniteSet(S), NEW f, \A y \in S : f[y] \in Int,
           NEW e, NEW x, \A y \in S \ {x} : e[y] = f[y], e[x] \in Int
    PROVE  /\ x \in S => SumFunctionOnSet(e, S) = SumFunctionOnSet(f, S) + (e[x] - f[x])
           /\ x \notin S => SumFunctionOnSet(e, S) = SumFunctionOnSet(f, S)
           /\ SumFunctionOnSet(f, S) \in Int
  <1>0. \A y \in S : e[y] \in Int
    OBVIOUS
  <1>1. CASE x \in S
    <2> DEFINE R == S \ {x}
    <2>1. IsFiniteSet(R) /\ (\A y \in R : f[y] \in Int) /\ (\A y \in R : e[y] = f[y])
      BY FS_RemoveElement
    <2>2. /\ SumFunctionOnSet(f, S) = f[x] + SumFunctionOnSet(f, R)
          /\ SumFunctionOnSet(e, S) = e[x] + SumFunctionOnSet(e, R)
          /\ SumFunctionOnSet(f, R) \in Int
      BY <1>0, <1>1, SumRemove
    <2> HIDE DEF R
    <2>3. SumFunctionOnSet(e, R) = SumFunctionOnSet(f, R)
      BY <2>1, SumSame
    <2>4. f[x] \in Int
      BY <1>1
    <2> QED BY <1>1, <2>2, <2>3, <2>4
  <1>2. CASE x \notin S
    <2>1. \A y \in S : e[y] = f[y]
      BY <1>2
    <2>2. SumFunctionOnSet(e, S) = SumFunctionOnSet(f, S)
      BY <1>0, <2>1, SumSame
    <2>3. SumFunctionOnSet(f, S) \in Int
      <3>1. PICK g : IsSumOf(g, f, S) /\ SumFunctionOnSet(f, S) = g[S]
        BY SumIsSolution
      <3> QED BY <3>1 DEF IsSumOf
    <2> QED BY <1>2, <2>2, <2>3
  <1> QED BY <1>1, <1>2

\* A part of a sum of natural numbers is at most the whole.
LEMMA SumPart ==
    ASSUME NEW S, IsFiniteSet(S), NEW f, \A x \in S : f[x] \in Nat, NEW A \in SUBSET S
    PROVE  SumFunctionOnSet(f, A) <= SumFunctionOnSet(f, S)
  <1> DEFINE Less(s) == SumFunctionOnSet(f, s) <= SumFunctionOnSet(f, S)
             T == {n \in Nat : \A s \in SUBSET S : Cardinality(S \ s) = n => Less(s)}
  <1>1. \A s \in SUBSET S : IsFiniteSet(s) /\ IsFiniteSet(S \ s) /\ Cardinality(S \ s) \in Nat
    BY FS_Subset, FS_CardinalityType, FS_Difference
  <1>2. SumFunctionOnSet(f, S) \in Nat
    BY SumNat
  <1>3. ASSUME NEW s \in SUBSET S, Cardinality(S \ s) = 0 PROVE Less(s)
    <2>1. S \ s = {}
      BY <1>1, <1>3, FS_EmptySet
    <2>2. s = S
      BY <2>1
    <2> QED BY <1>2, <2>2
  <1>4. ASSUME NEW n \in Nat, n \in T, NEW s \in SUBSET S, Cardinality(S \ s) = n + 1 PROVE Less(s)
    <2>1. S \ s # {}
      BY <1>4, FS_EmptySet
    <2>2. PICK x \in S : x \notin s
      BY <2>1
    <2>3. S \ (s \cup {x}) = (S \ s) \ {x} /\ x \in S \ s /\ s \cup {x} \in SUBSET S
      BY <2>2
    <2>4. Cardinality(S \ (s \cup {x})) = n
      <3>1. IsFiniteSet(S \ s) /\ Cardinality((S \ s) \ {x}) = Cardinality(S \ s) - 1
        BY <1>1, <2>3, FS_RemoveElement
      <3>2. Cardinality((S \ s) \ {x}) = n
        BY <1>4, <3>1
      <3> QED BY <2>3, <3>2
    <2>5. Less(s \cup {x})
      BY <1>4, <2>3, <2>4
    <2>6. /\ SumFunctionOnSet(f, s \cup {x}) = f[x] + SumFunctionOnSet(f, s)
          /\ SumFunctionOnSet(f, s) \in Int
      <3>1. IsFiniteSet(s) /\ \A y \in s \cup {x} : f[y] \in Int
        <4>1. \A y \in S : f[y] \in Int
          OBVIOUS
        <4> QED BY <1>1, <2>3, <4>1
      <3> QED BY ONLY <2>2, <3>1, SumAdd
    <2> QED BY <1>2, <2>2, <2>5, <2>6
  <1>5. 0 \in T /\ \A n \in Nat : n \in T => n + 1 \in T
    BY <1>3, <1>4
  <1> HIDE DEF T
  <1>6. Nat \subseteq T
    BY <1>5, NatSetInduction
  <1> QED BY <1>1, <1>6 DEF T
=============================================================================
