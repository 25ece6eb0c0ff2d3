---------------------------- MODULE SumTheorems -----------------------------
(***************************************************************************)
(* What SumFunction computes.  It is a fold, which picks the elements of   *)
(* its domain by CHOOSE; the facts here are that it is defined for every   *)
(* finite domain, that any element may be taken out of the sum, and that   *)
(* a sum of natural numbers is one.  PoolSetAccounts needs them to account *)
(* for the shares of the containers.                                       *)
(*                                                                         *)
(* Induction over a finite set is on its cardinality, by a least           *)
(* counterexample: a set of numbers that has one (LeastNat), and none.     *)
(***************************************************************************)
EXTENDS Integers, FiniteSets, FiniteSetsExt, Functions, FiniteSetTheorems,
        WellFoundedInduction, TLAPS

(* Every set of natural numbers that is not empty has a least element.     *)
LEMMA LeastNat ==
  ASSUME NEW T, T \subseteq Nat, T # {}
  PROVE  \E n \in T : \A m \in T : n <= m
<1> DEFINE R == OpToRel(<, Nat)
<1>1. IsWellFoundedOn(R, Nat)
  BY NatLessThanWellFounded, Zenon
<1>2. \A m, n \in Nat : m < n => <<m, n>> \in R
  BY DEF OpToRel
<1> HIDE DEF R
<1>3. PICK n \in T : \A m \in T : ~(<<m, n>> \in R)
  BY <1>1, WFMin, Zenon
<1>4. \A m \in T : ~(m < n)
  BY <1>2, <1>3
<1> QED BY <1>3, <1>4

(* The choice the fold makes, and the equation it is defined by.           *)
Pick(s) == CHOOSE x \in s : TRUE

FoldEquation(g, S, f) ==
  g = [s \in SUBSET S |-> IF s = {} THEN 0 ELSE f[Pick(s)] + g[s \ {Pick(s)}]]

(* The functions that can be summed, and what the fold of one is.          *)
Summable(f) == IsFiniteSet(DOMAIN f) /\ \A x \in DOMAIN f : f[x] \in Int

IsFold(g, f) == FoldEquation(g, DOMAIN f, f) /\ g \in [SUBSET DOMAIN f -> Int]

(* It is one of the elements.                                              *)
LEMMA PickIn == \A s : s # {} => Pick(s) \in s
BY DEF Pick

(* The sum is what a solution of the equation has for the whole domain.    *)
LEMMA SumIsFold ==
  ASSUME NEW f
  PROVE  SumFunction(f) = (CHOOSE g : FoldEquation(g, DOMAIN f, f))[DOMAIN f]
BY DEF SumFunction, SumFunctionOnSet, FoldFunctionOnSet, MapThenFoldSet, FoldEquation, Pick

(* The equation has a solution: for the sets of up to n elements, then for *)
(* those of up to n + 1, and so for all.                                   *)
LEMMA FoldExists ==
  ASSUME NEW f, Summable(f)
  PROVE  \E g : IsFold(g, f)
<1> USE DEF Summable
<1> DEFINE S == DOMAIN f
           Next(g, s) == IF s = {} THEN 0 ELSE f[Pick(s)] + g[s \ {Pick(s)}]
           Upto(n) == {g \in [SUBSET S -> Int] :
                         \A s \in SUBSET S : Cardinality(s) <= n => g[s] = Next(g, s)}
           T == {n \in Nat : Upto(n) = {}}
<1>1. \A s \in SUBSET S : IsFiniteSet(s) /\ Cardinality(s) \in Nat
  BY FS_Subset, FS_CardinalityType
<1>2. \A s \in SUBSET S : s # {} =>
        /\ Pick(s) \in s /\ s \ {Pick(s)} \in SUBSET S
        /\ Cardinality(s \ {Pick(s)}) = Cardinality(s) - 1
  BY <1>1, PickIn, FS_RemoveElement
<1>3. \A s \in SUBSET S : Cardinality(s) = 0 => s = {}
  BY <1>1, FS_EmptySet
<1>4. 0 \notin T
  <2>1. [s \in SUBSET S |-> 0] \in Upto(0)
    BY <1>1, <1>3
  <2> QED BY <2>1
<1>5. ASSUME NEW n \in Nat, n \notin T PROVE n + 1 \notin T
  <2>1. PICK g \in [SUBSET S -> Int] :
          \A s \in SUBSET S : Cardinality(s) <= n => g[s] = Next(g, s)
    BY <1>5
  <2> DEFINE h == [s \in SUBSET S |-> Next(g, s)]
  <2>2. ASSUME NEW s \in SUBSET S PROVE Next(g, s) \in Int
    <3>1. CASE s = {}
      BY <3>1
    <3>2. CASE s # {}
      <4>1. f[Pick(s)] \in Int /\ g[s \ {Pick(s)}] \in Int
        BY <1>2, <3>2
      <4> QED BY <3>2, <4>1
    <3> QED BY <3>1, <3>2
  <2>3. h \in [SUBSET S -> Int]
    BY <2>2
  <2>4. ASSUME NEW s \in SUBSET S, Cardinality(s) <= n + 1
        PROVE  h[s] = Next(h, s)
    <3>1. CASE s = {}
      BY <3>1
    <3>2. CASE s # {}
      <4> DEFINE r == s \ {Pick(s)}
      <4>1. r \in SUBSET S /\ Cardinality(r) <= n
        BY <1>1, <1>2, <2>4, <3>2
      <4>2. h[r] = g[r]
        BY <2>1, <4>1
      <4> QED BY <3>2, <4>2
    <3> QED BY <3>1, <3>2
  <2>5. h \in Upto(n + 1)
    BY <2>3, <2>4
  <2> QED BY <2>5
<1>6. T = {}
  <2> SUFFICES ASSUME T # {} PROVE FALSE
    OBVIOUS
  <2> HIDE DEF T
  <2>1. PICK n \in T : \A m \in T : n <= m
    <3>1. T \subseteq Nat
      BY DEF T
    <3> QED BY <3>1, LeastNat
  <2>2. n \in Nat /\ n # 0
    BY <1>4, <2>1 DEF T
  <2>3. n - 1 \in Nat /\ n - 1 \notin T
    BY <2>1, <2>2
  <2> QED BY <1>5, <2>1, <2>2, <2>3
<1>7. PICK g \in [SUBSET S -> Int] :
        \A s \in SUBSET S : Cardinality(s) <= Cardinality(S) => g[s] = Next(g, s)
  <2>1. Cardinality(S) \in Nat
    BY FS_CardinalityType
  <2>2. Upto(Cardinality(S)) # {}
    <3> HIDE DEF Upto
    <3> QED BY <1>6, <2>1
  <2> QED BY <2>2
<1>8. \A s \in SUBSET S : g[s] = Next(g, s)
  BY <1>7, FS_Subset
<1>9. FoldEquation(g, S, f)
  BY <1>7, <1>8 DEF FoldEquation
<1> QED BY <1>7, <1>9 DEF IsFold

(* A solution does not depend on the choices: any element may be added     *)
(* last.                                                                   *)
LEMMA FoldAnyOrder ==
  ASSUME NEW f, Summable(f), NEW g, IsFold(g, f),
         NEW all \in SUBSET DOMAIN f, NEW one \in all
  PROVE  g[all] = f[one] + g[all \ {one}]
<1> USE DEF Summable, IsFold
<1> DEFINE S == DOMAIN f
           Good(s) == \A x \in s : g[s] = f[x] + g[s \ {x}]
           T == {n \in Nat : \E s \in SUBSET S : Cardinality(s) = n /\ ~Good(s)}
<1>1. \A s \in SUBSET S : IsFiniteSet(s) /\ Cardinality(s) \in Nat
  BY FS_Subset, FS_CardinalityType
<1>2. \A s \in SUBSET S : \A x \in s :
        s \ {x} \in SUBSET S /\ Cardinality(s \ {x}) = Cardinality(s) - 1
  BY <1>1, FS_RemoveElement
<1>3. \A s \in SUBSET S : s # {} => g[s] = f[Pick(s)] + g[s \ {Pick(s)}]
  BY DEF FoldEquation
<1>4. ASSUME NEW s \in SUBSET S,
             \A r \in SUBSET S : Cardinality(r) < Cardinality(s) => Good(r)
      PROVE  Good(s)
  <2> SUFFICES ASSUME NEW x \in s PROVE g[s] = f[x] + g[s \ {x}]
    OBVIOUS
  <2> DEFINE c == Pick(s)
  <2>1. c \in s /\ g[s] = f[c] + g[s \ {c}]
    BY <1>3, PickIn
  <2>2. CASE x = c
    BY <2>1, <2>2
  <2>3. CASE x # c
    <3>1. /\ s \ {c} \in SUBSET S /\ Cardinality(s \ {c}) < Cardinality(s)
          /\ s \ {x} \in SUBSET S /\ Cardinality(s \ {x}) < Cardinality(s)
      BY <1>1, <1>2, <2>1
    <3>2. Good(s \ {c}) /\ Good(s \ {x})
      BY <1>4, <3>1
    <3>3. g[s \ {c}] = f[x] + g[(s \ {c}) \ {x}]
      BY <2>3, <3>2
    <3>4. g[s \ {x}] = f[c] + g[(s \ {x}) \ {c}]
      BY <2>1, <2>3, <3>2
    <3>5. (s \ {c}) \ {x} = (s \ {x}) \ {c}
      OBVIOUS
    <3>6. /\ f[x] \in Int /\ f[c] \in Int
          /\ g[(s \ {x}) \ {c}] \in Int
      BY <2>1
    <3> DEFINE rest == g[(s \ {x}) \ {c}]
    <3>7. g[s \ {c}] = f[x] + rest /\ g[s \ {x}] = f[c] + rest /\ rest \in Int
      BY <3>3, <3>4, <3>5, <3>6
    <3> HIDE DEF c, rest
    <3>8. f[c] + (f[x] + rest) = f[x] + (f[c] + rest)
      BY <3>6, <3>7
    <3> QED BY <2>1, <3>7, <3>8
  <2> QED BY <2>2, <2>3
<1>5. T = {}
  <2> SUFFICES ASSUME T # {} PROVE FALSE
    OBVIOUS
  <2> HIDE DEF Good
  <2>1. PICK n \in T : \A m \in T : n <= m
    <3>1. T \subseteq Nat
      OBVIOUS
    <3> HIDE DEF T
    <3> QED BY <3>1, LeastNat
  <2>2. PICK s \in SUBSET S : Cardinality(s) = n /\ ~Good(s)
    BY <2>1
  <2>3. \A r \in SUBSET S : Cardinality(r) < Cardinality(s) => Good(r)
    BY <1>1, <2>1, <2>2
  <2> QED BY <1>4, <2>2, <2>3
<1> QED BY <1>1, <1>5

(* Two solutions are the same on the sets where the functions are.         *)
LEMMA FoldUnique ==
  ASSUME NEW e, NEW f, IsFiniteSet(DOMAIN e),
         NEW g, FoldEquation(g, DOMAIN e, e), NEW h, FoldEquation(h, DOMAIN f, f),
         DOMAIN e \subseteq DOMAIN f, \A x \in DOMAIN e : e[x] = f[x]
  PROVE  \A s \in SUBSET DOMAIN e : g[s] = h[s]
<1> DEFINE S == DOMAIN e
           T == {n \in Nat : \E s \in SUBSET S : Cardinality(s) = n /\ g[s] # h[s]}
<1>1. \A s \in SUBSET S : IsFiniteSet(s) /\ Cardinality(s) \in Nat
  BY FS_Subset, FS_CardinalityType
<1>2. \A s \in SUBSET S : s # {} =>
        /\ Pick(s) \in s /\ s \ {Pick(s)} \in SUBSET S
        /\ Cardinality(s \ {Pick(s)}) = Cardinality(s) - 1
  BY <1>1, PickIn, FS_RemoveElement
<1>3. \A s \in SUBSET S :
        /\ g[s] = IF s = {} THEN 0 ELSE e[Pick(s)] + g[s \ {Pick(s)}]
        /\ h[s] = IF s = {} THEN 0 ELSE f[Pick(s)] + h[s \ {Pick(s)}]
  BY DEF FoldEquation
<1>4. ASSUME NEW s \in SUBSET S,
             \A r \in SUBSET S : Cardinality(r) < Cardinality(s) => g[r] = h[r]
      PROVE  g[s] = h[s]
  <2>1. CASE s = {}
    BY <1>3, <2>1
  <2>2. CASE s # {}
    <3>1. g[s \ {Pick(s)}] = h[s \ {Pick(s)}] /\ e[Pick(s)] = f[Pick(s)]
      BY <1>1, <1>2, <1>4, <2>2
    <3> QED BY <1>3, <2>2, <3>1
  <2> QED BY <2>1, <2>2
<1>5. T = {}
  <2> SUFFICES ASSUME T # {} PROVE FALSE
    OBVIOUS
  <2>1. PICK n \in T : \A m \in T : n <= m
    <3>1. T \subseteq Nat
      OBVIOUS
    <3> HIDE DEF T
    <3> QED BY <3>1, LeastNat
  <2>2. PICK s \in SUBSET S : Cardinality(s) = n /\ g[s] # h[s]
    BY <2>1
  <2>3. \A r \in SUBSET S : Cardinality(r) < Cardinality(s) => g[r] = h[r]
    BY <1>1, <2>1, <2>2
  <2> QED BY <1>4, <2>2, <2>3
<1> QED BY <1>1, <1>5

-----------------------------------------------------------------------------
(* The solution that SumFunction chooses is one over the integers.         *)
LEMMA SumSolved ==
  ASSUME NEW f, Summable(f)
  PROVE  \E g : IsFold(g, f) /\ SumFunction(f) = g[DOMAIN f]
<1> DEFINE g == CHOOSE h : FoldEquation(h, DOMAIN f, f)
<1>1. PICK h : IsFold(h, f)
  BY FoldExists
<1>2. FoldEquation(g, DOMAIN f, f) /\ FoldEquation(h, DOMAIN f, f)
  BY <1>1 DEF IsFold
<1> HIDE DEF g
<1>3. \A s \in SUBSET DOMAIN f : g[s] = h[s]
  BY <1>2, FoldUnique DEF Summable
<1>4. g = h
  <2>1. \A k : FoldEquation(k, DOMAIN f, f) => k = [s \in SUBSET DOMAIN f |-> k[s]]
    BY DEF FoldEquation
  <2>2. g = [s \in SUBSET DOMAIN f |-> g[s]] /\ h = [s \in SUBSET DOMAIN f |-> h[s]]
    BY <1>2, <2>1
  <2> QED BY <1>3, <2>2
<1>5. SumFunction(f) = g[DOMAIN f]
  BY SumIsFold DEF g
<1> QED BY <1>1, <1>4, <1>5

(* A sum over nothing is 0.                                                *)
LEMMA SumEmpty ==
  ASSUME NEW f, DOMAIN f = {}
  PROVE  SumFunction(f) = 0
<1>1. Summable(f)
  BY FS_EmptySet DEF Summable
<1>2. PICK g : IsFold(g, f) /\ SumFunction(f) = g[DOMAIN f]
  BY <1>1, SumSolved
<1> QED BY <1>2 DEF FoldEquation, IsFold

(* Any element of a finite domain may be taken out of the sum.             *)
LEMMA SumStep ==
  ASSUME NEW f, Summable(f), NEW k \in DOMAIN f,
         NEW e, DOMAIN e = DOMAIN f \ {k}, \A x \in DOMAIN e : e[x] = f[x]
  PROVE  SumFunction(f) = f[k] + SumFunction(e)
<1>1. PICK g : IsFold(g, f) /\ SumFunction(f) = g[DOMAIN f]
  BY SumSolved
<1>2. Summable(e)
  BY FS_Subset DEF Summable
<1>3. PICK h : IsFold(h, e) /\ SumFunction(e) = h[DOMAIN e]
  BY <1>2, SumSolved
<1>4. g[DOMAIN f] = f[k] + g[DOMAIN e]
  BY <1>1, FoldAnyOrder
<1>5. h[DOMAIN e] = g[DOMAIN e]
  <2>1. \A s \in SUBSET DOMAIN e : h[s] = g[s]
    BY <1>1, <1>2, <1>3, FoldUnique DEF IsFold, Summable
  <2> QED BY <2>1
<1> QED BY <1>1, <1>3, <1>4, <1>5

(* Sums of integers are integers.                                          *)
LEMMA SumType ==
  ASSUME NEW f, Summable(f)
  PROVE  SumFunction(f) \in Int
<1>1. PICK g : IsFold(g, f) /\ SumFunction(f) = g[DOMAIN f]
  BY SumSolved
<1> QED BY <1>1 DEF IsFold

(* Sums of natural numbers are natural numbers.                            *)
LEMMA SumNat ==
  ASSUME NEW f, Summable(f), \A x \in DOMAIN f : f[x] \in Nat
  PROVE  SumFunction(f) \in Nat
<1>1. PICK g : IsFold(g, f) /\ SumFunction(f) = g[DOMAIN f]
  BY SumSolved
<1> DEFINE S == DOMAIN f
           T == {n \in Nat : \E s \in SUBSET S : Cardinality(s) = n /\ g[s] \notin Nat}
<1>2. \A s \in SUBSET S : IsFiniteSet(s) /\ Cardinality(s) \in Nat
  BY FS_Subset, FS_CardinalityType DEF Summable
<1>3. \A s \in SUBSET S : s # {} =>
        /\ Pick(s) \in s /\ s \ {Pick(s)} \in SUBSET S
        /\ Cardinality(s \ {Pick(s)}) = Cardinality(s) - 1
  BY <1>2, PickIn, FS_RemoveElement
<1>4. \A s \in SUBSET S : g[s] = IF s = {} THEN 0 ELSE f[Pick(s)] + g[s \ {Pick(s)}]
  BY <1>1 DEF FoldEquation, IsFold
<1>5. ASSUME NEW s \in SUBSET S,
             \A r \in SUBSET S : Cardinality(r) < Cardinality(s) => g[r] \in Nat
      PROVE  g[s] \in Nat
  <2>1. CASE s = {}
    <3>1. g[s] = 0
      BY <1>4, <2>1
    <3> QED BY <3>1
  <2>2. CASE s # {}
    <3>1. g[s \ {Pick(s)}] \in Nat /\ f[Pick(s)] \in Nat
      BY <1>2, <1>3, <1>5, <2>2
    <3>2. g[s] = f[Pick(s)] + g[s \ {Pick(s)}]
      BY <1>4, <2>2
    <3> QED BY <3>1, <3>2
  <2> QED BY <2>1, <2>2
<1>6. T = {}
  <2> SUFFICES ASSUME T # {} PROVE FALSE
    OBVIOUS
  <2>1. PICK n \in T : \A m \in T : n <= m
    <3>1. T \subseteq Nat
      OBVIOUS
    <3> HIDE DEF T
    <3> QED BY <3>1, LeastNat
  <2>2. PICK s \in SUBSET S : Cardinality(s) = n /\ g[s] \notin Nat
    BY <2>1
  <2>3. \A r \in SUBSET S : Cardinality(r) < Cardinality(s) => g[r] \in Nat
    BY <1>2, <2>1, <2>2
  <2> QED BY <1>5, <2>2, <2>3
<1> QED BY <1>1, <1>2, <1>6

=============================================================================
