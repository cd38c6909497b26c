--------------------------- MODULE SumTheorems ---------------------------
(***************************************************************************)
(* Induction over the natural numbers and over the subsets of a finite     *)
(* set, and recursion over the natural numbers, each stated about a set or *)
(* a function so that a proof can cite it; and what follows for sums: the  *)
(* fold of the community modules is defined, does not depend on the order  *)
(* in which it takes the elements, and follows a change of one of them.    *)
(***************************************************************************)
EXTENDS Integers, Sequences, FiniteSets, FiniteSetsExt, Functions, FiniteSetTheorems, WellFoundedInduction, TLAPS

-----------------------------------------------------------------------------
(* Induction.                                                              *)

NatOrder == {p \in Nat \X Nat : p[1] < p[2]}
LEMMA NatOrderWellFounded == IsWellFoundedOn(NatOrder, Nat)
BY NatLessThanWellFounded DEF OpToRel, NatOrder

\* A set of natural numbers that is not empty has a smallest element.
LEMMA Smallest ==
    ASSUME NEW T \in SUBSET Nat, T # {}
    PROVE  \E x \in T : \A y \in T : x <= y
<1>1. PICK x \in T : \A y \in T : ~(<<y, x>> \in NatOrder)
  BY NatOrderWellFounded, WFMin
<1>2. ASSUME NEW y \in T PROVE x <= y
  <2>1. x \in Nat /\ y \in Nat
    OBVIOUS
  <2>2. ~(y < x)
    BY <1>1, <2>1 DEF NatOrder
  <2> QED BY <2>1, <2>2
<1> QED BY <1>2

\* A set with 0 and the successor of each of its elements is Nat.
LEMMA InductionOverNat ==
    ASSUME NEW T \in SUBSET Nat, 0 \in T, \A n \in T : n + 1 \in T
    PROVE  T = Nat
<1>1. SUFFICES ASSUME Nat \ T # {} PROVE FALSE
  OBVIOUS
<1>2. PICK x \in Nat \ T : \A y \in Nat \ T : x <= y
  BY <1>1, Smallest
<1>3. x # 0 /\ x - 1 \in Nat
  BY <1>2
<1>4. x - 1 \in T
  BY <1>2, <1>3
<1>5. x \in T
  BY <1>4
<1> QED BY <1>2, <1>5

\* A recursive definition over 0..n has a solution: step[k][v] is the value at k when v is that
\* at k - 1.
LEMMA RecursionOverNat ==
    ASSUME NEW X, NEW x \in X, NEW n \in Nat, NEW step \in [1..n -> [X -> X]]
    PROVE  \E f \in [0..n -> X] : f[0] = x /\ \A k \in 1..n : f[k] = step[k][f[k - 1]]
<1> DEFINE Solves(f, m) == f \in [0..m -> X] /\ f[0] = x /\ \A k \in 1..m : f[k] = step[k][f[k - 1]]
           T == {m \in Nat : m <= n => \E f : Solves(f, m)}
<1>1. 0 \in T
  <2>1. Solves([k \in 0..0 |-> x], 0)
    OBVIOUS
  <2> QED BY <2>1
<1>2. ASSUME NEW m \in T PROVE m + 1 \in T
  <2> SUFFICES ASSUME m + 1 <= n PROVE \E f : Solves(f, m + 1)
    OBVIOUS
  <2>1. m \in Nat /\ m <= n /\ m + 1 \in 1..n
    OBVIOUS
  <2>2. PICK f : Solves(f, m)
    BY <2>1
  <2> DEFINE y == step[m + 1][f[m]]
             g == [k \in 0..(m + 1) |-> IF k = m + 1 THEN y ELSE f[k]]
  <2>3. y \in X
    BY <2>1, <2>2
  <2>4. g \in [0..(m + 1) -> X] /\ g[0] = x /\ g[m + 1] = y /\ \A k \in 0..m : g[k] = f[k]
    <3> HIDE DEF y
    <3> QED BY <2>1, <2>2, <2>3
  <2> HIDE DEF g
  <2>5. ASSUME NEW k \in 1..(m + 1) PROVE g[k] = step[k][g[k - 1]]
    <3>1. k - 1 \in 0..m
      BY <2>1
    <3>2. CASE k = m + 1
      BY <2>1, <2>4, <3>1, <3>2
    <3>3. CASE k # m + 1
      <4>1. k \in 1..m /\ k \in 0..m
        BY <2>1, <3>3
      <4> QED BY <2>2, <2>4, <3>1, <4>1
    <3> QED BY <3>2, <3>3
  <2>6. Solves(g, m + 1)
    BY <2>4, <2>5
  <2> QED BY <2>6
<1>3. T = Nat
  <2>1. T \in SUBSET Nat
    OBVIOUS
  <2> HIDE DEF T
  <2> QED BY <1>1, <1>2, <2>1, InductionOverNat
<1>4. n \in T
  <2> HIDE DEF T
  <2> QED BY <1>3
<1>5. \E f : Solves(f, n)
  <2> HIDE DEF Solves
  <2> QED BY <1>4
<1> QED BY <1>5

\* A set with {}, and with every subset of S whose parts one element smaller it has.
LEMMA InductionOverSubsets ==
    ASSUME NEW S, IsFiniteSet(S), NEW T \in SUBSET (SUBSET S), {} \in T,
           \A s \in SUBSET S : (s # {} /\ \A x \in s : s \ {x} \in T) => s \in T
    PROVE  T = SUBSET S
<1> DEFINE C == {n \in Nat : \A s \in SUBSET S : Cardinality(s) = n => s \in T}
<1>0. \A s \in SUBSET S : IsFiniteSet(s) /\ Cardinality(s) \in Nat
  BY FS_Subset, FS_CardinalityType
<1>1. 0 \in C
  BY <1>0, FS_EmptySet
<1>2. ASSUME NEW n \in C PROVE n + 1 \in C
  <2>1. ASSUME NEW s \in SUBSET S, Cardinality(s) = n + 1 PROVE s \in T
    <3>1. s # {}
      BY <2>1, FS_EmptySet
    <3>2. ASSUME NEW x \in s PROVE s \ {x} \in T
      <4>1. Cardinality(s \ {x}) = n
        BY <1>0, <2>1, FS_RemoveElement
      <4> QED BY <4>1
    <3> QED BY <3>1, <3>2
  <2> QED BY <2>1
<1>3. C = Nat
  <2> HIDE DEF C
  <2>1. C \in SUBSET Nat
    BY DEF C
  <2> QED BY <1>1, <1>2, <2>1, InductionOverNat
<1>4. ASSUME NEW s \in SUBSET S PROVE s \in T
  <2>1. Cardinality(s) \in C
    BY <1>0, <1>3
  <2> QED BY <2>1
<1> QED BY <1>4

-----------------------------------------------------------------------------
(* The fold that MapThenSumSet and SumFunction are.                        *)

Chosen(s) == CHOOSE x \in s : TRUE
Sum(g, S) == MapThenSumSet(LAMBDA x : g[x], S)
IsFold(F, g, S) == F = [s \in SUBSET S |-> IF s = {} THEN 0 ELSE g[Chosen(s)] + F[s \ {Chosen(s)}]]


LEMMA SumIsFold == ASSUME NEW g, NEW S PROVE Sum(g, S) = (CHOOSE F : IsFold(F, g, S))[S]
BY DEF Sum, MapThenSumSet, MapThenFoldSet, IsFold, Chosen

LEMMA SumFunctionIsFold == ASSUME NEW g PROVE SumFunction(g) = (CHOOSE F : IsFold(F, g, DOMAIN g))[DOMAIN g]
BY DEF SumFunction, SumFunctionOnSet, FoldFunctionOnSet, MapThenFoldSet, IsFold, Chosen

LEMMA AnyIn == \A s : s # {} => Chosen(s) \in s
BY DEF Chosen

LEMMA OneLess ==
    ASSUME NEW s, IsFiniteSet(s), NEW n \in Nat, Cardinality(s) = n + 1
    PROVE  s # {} /\ \A x \in s : Cardinality(s \ {x}) = n
<1>1. s # {}
  BY FS_EmptySet
<1>2. ASSUME NEW x \in s PROVE Cardinality(s \ {x}) = n
  BY FS_RemoveElement
<1> QED BY <1>1, <1>2

\* The recursion has a solution: by cardinality, one size of subsets after the other.
LEMMA SumExists ==
    ASSUME NEW g, NEW S, IsFiniteSet(S), \A x \in S : g[x] \in Int
    PROVE  \E F \in [SUBSET S -> Int] : IsFold(F, g, S)
<1> DEFINE Step(F, s) == F[s] = IF s = {} THEN 0 ELSE g[Chosen(s)] + F[s \ {Chosen(s)}]
           T == {n \in Nat : \E F \in [SUBSET S -> Int] : \A s \in SUBSET S : Cardinality(s) <= n => Step(F, s)}
<1>0. \A s \in SUBSET S : IsFiniteSet(s) /\ Cardinality(s) \in Nat
  BY FS_Subset, FS_CardinalityType
<1>1. 0 \in T
  <2> DEFINE F == [s \in SUBSET S |-> 0]
  <2>1. ASSUME NEW s \in SUBSET S, Cardinality(s) <= 0 PROVE Step(F, s)
    <3>1. s = {}
      BY <1>0, <2>1, FS_EmptySet
    <3> QED BY <3>1
  <2>2. F \in [SUBSET S -> Int]
    OBVIOUS
  <2> HIDE DEF F, Step
  <2> QED BY <2>1, <2>2
<1>2. ASSUME NEW n \in T PROVE n + 1 \in T
  <2>0. n \in Nat
    OBVIOUS
  <2>1. PICK F \in [SUBSET S -> Int] : \A s \in SUBSET S : Cardinality(s) <= n => Step(F, s)
    OBVIOUS
  <2> DEFINE G == [s \in SUBSET S |-> IF Cardinality(s) = n + 1 THEN g[Chosen(s)] + F[s \ {Chosen(s)}] ELSE F[s]]
  <2>2. ASSUME NEW s \in SUBSET S, Cardinality(s) = n + 1
        PROVE  /\ s # {} /\ Chosen(s) \in s /\ s \ {Chosen(s)} \in SUBSET S
               /\ Cardinality(s \ {Chosen(s)}) = n /\ g[Chosen(s)] \in Int
    <3>1. s # {} /\ \A x \in s : Cardinality(s \ {x}) = n
      BY <1>0, <2>0, <2>2, OneLess
    <3>2. Chosen(s) \in s
      BY <3>1, AnyIn
    <3> QED BY <3>1, <3>2
  <2>3. G \in [SUBSET S -> Int]
    BY <2>2
  <2>4. ASSUME NEW s \in SUBSET S, Cardinality(s) <= n + 1 PROVE Step(G, s)
    <3>1. CASE Cardinality(s) = n + 1
      BY <3>1, <2>2
    <3>2. CASE Cardinality(s) # n + 1 /\ s = {}
      <4>1. Cardinality(s) <= n
        BY <3>2, <1>0, <2>4
      <4> QED BY <4>1, <3>2, <2>1
    <3>3. CASE Cardinality(s) # n + 1 /\ s # {}
      <4>1. Cardinality(s) <= n /\ Cardinality(s) \in Nat /\ Chosen(s) \in s
        BY <3>3, <1>0, <2>4, AnyIn
      <4>2. Cardinality(s \ {Chosen(s)}) = Cardinality(s) - 1 /\ s \ {Chosen(s)} \in SUBSET S
        BY <1>0, <4>1, FS_RemoveElement
      <4>3. G[s] = F[s] /\ G[s \ {Chosen(s)}] = F[s \ {Chosen(s)}]
        BY <3>3, <4>1, <4>2
      <4> QED BY <4>1, <4>3, <2>1
    <3> QED BY <3>1, <3>2, <3>3
  <2>5. n + 1 \in Nat
    BY <2>0
  <2> HIDE DEF G, Step
  <2> QED BY <2>3, <2>4, <2>5
<1>3. T = Nat
  <2> HIDE DEF T
  <2>1. T \in SUBSET Nat
    BY DEF T
  <2> QED BY <1>1, <1>2, <2>1, InductionOverNat
<1>4. PICK F \in [SUBSET S -> Int] : \A s \in SUBSET S : Cardinality(s) <= Cardinality(S) => Step(F, s)
  <2>1. Cardinality(S) \in T
    BY <1>0, <1>3
  <2> QED BY <2>1
<1>5. \A s \in SUBSET S : Cardinality(s) <= Cardinality(S)
  BY FS_Subset
<1>6. \A s \in SUBSET S : F[s] = IF s = {} THEN 0 ELSE g[Chosen(s)] + F[s \ {Chosen(s)}]
  BY <1>4, <1>5
<1> HIDE DEF Step
<1>7. IsFold(F, g, S)
  BY <1>6 DEF IsFold
<1> QED BY <1>7

\* It has one solution, and only the values on S count.
LEMMA FoldUnique ==
    ASSUME NEW g, NEW h, NEW S, IsFiniteSet(S), \A x \in S : g[x] = h[x],
           NEW F, NEW G, IsFold(F, g, S), IsFold(G, h, S)
    PROVE  F = G
<1> DEFINE T == {s \in SUBSET S : F[s] = G[s]}
<1>1. \A s \in SUBSET S : /\ F[s] = IF s = {} THEN 0 ELSE g[Chosen(s)] + F[s \ {Chosen(s)}]
                          /\ G[s] = IF s = {} THEN 0 ELSE h[Chosen(s)] + G[s \ {Chosen(s)}]
  BY DEF IsFold
<1>2. {} \in T
  BY <1>1
<1>3. ASSUME NEW s \in SUBSET S, s # {}, \A x \in s : s \ {x} \in T PROVE s \in T
  <2>1. Chosen(s) \in s
    BY <1>3, AnyIn
  <2> QED BY <1>1, <1>3, <2>1
<1>4. T = SUBSET S
  <2> HIDE DEF T
  <2>1. T \in SUBSET (SUBSET S)
    BY DEF T
  <2> QED BY <1>2, <1>3, <2>1, InductionOverSubsets
<1>5. F = [s \in SUBSET S |-> F[s]] /\ G = [s \in SUBSET S |-> G[s]]
  BY DEF IsFold
<1> QED BY <1>4, <1>5

TheFold(g, S) == CHOOSE F : IsFold(F, g, S)

LEMMA TheFoldIsFold ==
    ASSUME NEW g, NEW S, IsFiniteSet(S), \A x \in S : g[x] \in Int
    PROVE  IsFold(TheFold(g, S), g, S) /\ TheFold(g, S) \in [SUBSET S -> Int]
<1>1. PICK F \in [SUBSET S -> Int] : IsFold(F, g, S)
  BY SumExists
<1>2. IsFold(TheFold(g, S), g, S)
  BY <1>1 DEF TheFold
<1>3. TheFold(g, S) = F
  BY <1>1, <1>2, FoldUnique
<1> QED BY <1>1, <1>2, <1>3

\* The order does not matter: any element may be taken first.
Additive(F, g, S) == \A s \in SUBSET S : \A x \in s : F[s] = g[x] + F[s \ {x}]

LEMMA AnyElement ==
    ASSUME NEW g, NEW S, IsFiniteSet(S), \A x \in S : g[x] \in Int,
           NEW F \in [SUBSET S -> Int], IsFold(F, g, S)
    PROVE  Additive(F, g, S)
<1> DEFINE T == {t \in SUBSET S : \A y \in t : F[t] = g[y] + F[t \ {y}]}
<1>1. \A t \in SUBSET S : F[t] = IF t = {} THEN 0 ELSE g[Chosen(t)] + F[t \ {Chosen(t)}]
  BY DEF IsFold
<1>2. ASSUME NEW t \in SUBSET S, t # {}, \A y \in t : t \ {y} \in T PROVE t \in T
  <2>1. ASSUME NEW y \in t PROVE F[t] = g[y] + F[t \ {y}]
    <3> DEFINE c == Chosen(t)
    <3>1. c \in t /\ F[t] = g[c] + F[t \ {c}]
      BY <1>1, <1>2, AnyIn
    <3>2. CASE y # c
      <4> DEFINE r == (t \ {c}) \ {y}
      <4>1. (t \ {y}) \ {c} = r /\ r \in SUBSET S
        OBVIOUS
      <4> HIDE DEF r
      <4>2. F[t \ {c}] = g[y] + F[r]
        BY <1>2, <3>1, <3>2 DEF r
      <4>3. F[t \ {y}] = g[c] + F[(t \ {y}) \ {c}]
        BY <1>2, <3>1, <3>2
      <4>4. F[t \ {y}] = g[c] + F[r]
        BY <4>1, <4>3
      <4>5. F[r] \in Int /\ g[y] \in Int /\ g[c] \in Int
        BY <3>1, <4>1
      <4> HIDE DEF c
      <4> QED BY <3>1, <4>2, <4>4, <4>5
    <3> QED BY <3>1, <3>2
  <2> QED BY <2>1
<1>3. T = SUBSET S
  <2>1. T \in SUBSET (SUBSET S) /\ {} \in T
    OBVIOUS
  <2> HIDE DEF T
  <2> QED BY <1>2, <2>1, InductionOverSubsets
<1> QED BY <1>3 DEF Additive

\* One fold gives the sum over every part of S.
LEMMA SumOnSubset ==
    ASSUME NEW g, NEW S, IsFiniteSet(S), \A x \in S : g[x] \in Int,
           NEW F, IsFold(F, g, S), NEW T \in SUBSET S
    PROVE  Sum(g, T) = F[T]
<1> DEFINE G == [s \in SUBSET T |-> F[s]]
<1>1. \A t \in SUBSET S : F[t] = IF t = {} THEN 0 ELSE g[Chosen(t)] + F[t \ {Chosen(t)}]
  BY DEF IsFold
<1>2. G = [s \in SUBSET T |-> IF s = {} THEN 0 ELSE g[Chosen(s)] + G[s \ {Chosen(s)}]]
  BY <1>1
<1>3. IsFold(G, g, T)
  BY <1>2 DEF IsFold
<1>4. IsFiniteSet(T) /\ \A x \in T : g[x] \in Int
  BY FS_Subset
<1>5. TheFold(g, T) = G
  BY <1>3, <1>4, TheFoldIsFold, FoldUnique
<1> QED BY <1>5, SumIsFold DEF TheFold

-----------------------------------------------------------------------------
(* Sums.                                                                   *)

LEMMA SumEmpty == ASSUME NEW g PROVE Sum(g, {}) = 0
<1>1. IsFiniteSet({}) /\ \A x \in {} : g[x] \in Int
  BY FS_EmptySet
<1>2. IsFold(TheFold(g, {}), g, {})
  BY <1>1, TheFoldIsFold
<1>3. TheFold(g, {})[{}] = 0
  BY <1>2 DEF IsFold
<1> QED BY <1>3, SumIsFold DEF TheFold

\* The sum is that of one element and of the rest.
LEMMA SumRemove ==
    ASSUME NEW g, NEW S, IsFiniteSet(S), \A x \in S : g[x] \in Int
    PROVE  Sum(g, S) \in Int /\ \A x \in S : Sum(g, S) = g[x] + Sum(g, S \ {x})
<1>1. PICK F \in [SUBSET S -> Int] : IsFold(F, g, S)
  BY SumExists
<1>2. Sum(g, S) = F[S]
  BY <1>1, SumOnSubset
<1>3. ASSUME NEW x \in S PROVE Sum(g, S) = g[x] + Sum(g, S \ {x})
  <2>1. Sum(g, S \ {x}) = F[S \ {x}]
    BY <1>1, SumOnSubset
  <2>2. F[S] = g[x] + F[S \ {x}]
    <3>1. Additive(F, g, S)
      BY <1>1, AnyElement
    <3> QED BY <3>1 DEF Additive
  <2> QED BY <1>2, <2>1, <2>2
<1> QED BY <1>1, <1>2, <1>3

LEMMA SumAdd ==
    ASSUME NEW g, NEW S, IsFiniteSet(S), NEW x, x \notin S, \A y \in S \cup {x} : g[y] \in Int
    PROVE  Sum(g, S \cup {x}) = g[x] + Sum(g, S)
<1>1. IsFiniteSet(S \cup {x})
  BY FS_AddElement
<1>2. (S \cup {x}) \ {x} = S
  OBVIOUS
<1> QED BY <1>1, <1>2, SumRemove

\* Equal terms, equal sums.
LEMMA SumSame ==
    ASSUME NEW g, NEW h, NEW S, IsFiniteSet(S), \A x \in S : g[x] = h[x] /\ g[x] \in Int
    PROVE  Sum(g, S) = Sum(h, S)
<1>1. IsFold(TheFold(g, S), g, S) /\ IsFold(TheFold(h, S), h, S)
  BY TheFoldIsFold
<1>2. TheFold(g, S) = TheFold(h, S)
  BY <1>1, FoldUnique
<1> QED BY <1>2, SumIsFold DEF TheFold

\* One term changes, and the sum by as much.
LEMMA SumChange ==
    ASSUME NEW g, NEW h, NEW S, IsFiniteSet(S), NEW x \in S, \A y \in S : g[y] \in Int /\ h[y] \in Int,
           \A y \in S \ {x} : g[y] = h[y]
    PROVE  Sum(h, S) = Sum(g, S) - g[x] + h[x]
<1>1. IsFiniteSet(S \ {x})
  BY FS_RemoveElement
<1>2. Sum(g, S \ {x}) = Sum(h, S \ {x})
  BY <1>1, SumSame
<1>3. Sum(g, S \ {x}) \in Int
  BY <1>1, SumRemove
<1>4. Sum(g, S) = g[x] + Sum(g, S \ {x}) /\ Sum(h, S) = h[x] + Sum(h, S \ {x})
  BY SumRemove
<1> QED BY <1>2, <1>3, <1>4

\* A sum of natural numbers is at least each of them.
LEMMA SumNat ==
    ASSUME NEW g, NEW S, IsFiniteSet(S), \A x \in S : g[x] \in Nat
    PROVE  Sum(g, S) \in Nat /\ \A x \in S : g[x] <= Sum(g, S)
<1> DEFINE T == {s \in SUBSET S : Sum(g, s) \in Nat}
<1>0. \A s \in SUBSET S : IsFiniteSet(s)
  BY FS_Subset
<1>1. {} \in T
  BY SumEmpty
<1>2. ASSUME NEW s \in SUBSET S, s # {}, \A x \in s : s \ {x} \in T PROVE s \in T
  <2>1. PICK x \in s : TRUE
    BY <1>2
  <2>2. Sum(g, s) = g[x] + Sum(g, s \ {x})
    BY <1>0, SumRemove
  <2> QED BY <1>2, <2>2
<1>3. T = SUBSET S
  <2>1. T \in SUBSET (SUBSET S)
    OBVIOUS
  <2> HIDE DEF T
  <2> QED BY <1>1, <1>2, <2>1, InductionOverSubsets
<1>4. ASSUME NEW x \in S PROVE g[x] <= Sum(g, S)
  <2>1. Sum(g, S) = g[x] + Sum(g, S \ {x}) /\ Sum(g, S \ {x}) \in Nat
    BY <1>3, SumRemove
  <2> QED BY <2>1
<1> QED BY <1>3, <1>4

LEMMA SumZero ==
    ASSUME NEW g, NEW S, IsFiniteSet(S), \A x \in S : g[x] = 0
    PROVE  Sum(g, S) = 0
<1> DEFINE T == {s \in SUBSET S : Sum(g, s) = 0}
<1>0. \A s \in SUBSET S : IsFiniteSet(s)
  BY FS_Subset
<1>1. {} \in T
  BY SumEmpty
<1>2. ASSUME NEW s \in SUBSET S, s # {}, \A x \in s : s \ {x} \in T PROVE s \in T
  <2>1. PICK x \in s : TRUE
    BY <1>2
  <2>2. Sum(g, s) = g[x] + Sum(g, s \ {x})
    BY <1>0, SumRemove
  <2> QED BY <1>2, <2>2
<1>3. T = SUBSET S
  <2>1. T \in SUBSET (SUBSET S)
    OBVIOUS
  <2> HIDE DEF T
  <2> QED BY <1>1, <1>2, <2>1, InductionOverSubsets
<1> QED BY <1>3

\* The sum of a function is the sum over its domain.
LEMMA SumOfFunction == ASSUME NEW g PROVE SumFunction(g) = Sum(g, DOMAIN g)
BY SumIsFold, SumFunctionIsFold

LEMMA SumOfSeq ==
    ASSUME NEW s \in Seq(Int)
    PROVE  SumFunction(s) = Sum(s, 1..Len(s)) /\ SumFunction(s) \in Int
<1>1. DOMAIN s = 1..Len(s) /\ Len(s) \in Nat /\ \A i \in 1..Len(s) : s[i] \in Int
  OBVIOUS
<1>2. IsFiniteSet(1..Len(s))
  BY <1>1, FS_Interval
<1> QED BY <1>1, <1>2, SumOfFunction, SumRemove

LEMMA SumUpTo ==
    ASSUME NEW g, NEW k \in Nat, \A y \in 1..(k + 1) : g[y] \in Int
    PROVE  Sum(g, 1..(k + 1)) = g[k + 1] + Sum(g, 1..k) /\ Sum(g, 1..k) \in Int
<1>1. IsFiniteSet(1..k) /\ IsFiniteSet(1..(k + 1))
  BY FS_Interval
<1>2. (1..(k + 1)) \ {k + 1} = 1..k /\ k + 1 \in 1..(k + 1)
  OBVIOUS
<1>3. \A y \in 1..k : g[y] \in Int
  OBVIOUS
<1>4. Sum(g, 1..k) \in Int
  BY <1>1, <1>3, SumRemove
<1>5. Sum(g, 1..(k + 1)) = g[k + 1] + Sum(g, (1..(k + 1)) \ {k + 1})
  BY <1>1, <1>2, SumRemove
<1> QED BY <1>2, <1>4, <1>5

\* A sequence after another: the sums add up.
LEMMA SumOfConcatenation ==
    ASSUME NEW s \in Seq(Int), NEW t \in Seq(Int)
    PROVE  SumFunction(s \o t) = SumFunction(s) + SumFunction(t)
<1> DEFINE m == Len(s)
           n == Len(t)
           r == s \o t
           T == {k \in Nat : k <= n => Sum(r, 1..(m + k)) = Sum(s, 1..m) + Sum(t, 1..k)}
<1>1. /\ m \in Nat /\ n \in Nat /\ r \in Seq(Int) /\ Len(r) = m + n
      /\ \A i \in 1..m : r[i] = s[i] /\ s[i] \in Int
      /\ \A i \in 1..n : r[m + i] = t[i] /\ t[i] \in Int
      /\ \A i \in 1..(m + n) : r[i] \in Int
  OBVIOUS
<1> HIDE DEF m, n, r
<1>2. \A k \in Nat : IsFiniteSet(1..k)
  BY FS_Interval
<1>3. 0 \in T
  <2>1. Sum(r, 1..m) = Sum(s, 1..m) /\ Sum(s, 1..m) \in Int
    <3>1. (\A i \in 1..m : r[i] = s[i] /\ r[i] \in Int) /\ (\A i \in 1..m : s[i] \in Int) /\ IsFiniteSet(1..m)
      BY <1>1, <1>2
    <3>2. Sum(r, 1..m) = Sum(s, 1..m)
      BY <3>1, SumSame
    <3>3. Sum(s, 1..m) \in Int
      BY <3>1, SumRemove
    <3> QED BY <3>2, <3>3
  <2>2. 1..(m + 0) = 1..m /\ 1..0 = {}
    BY <1>1
  <2> QED BY <2>1, <2>2, SumEmpty
<1>4. ASSUME NEW k \in T PROVE k + 1 \in T
  <2>1. SUFFICES ASSUME k + 1 <= n PROVE Sum(r, 1..(m + (k + 1))) = Sum(s, 1..m) + Sum(t, 1..(k + 1))
    OBVIOUS
  <2>2. k \in Nat /\ k <= n /\ m + k \in Nat
    BY <1>1, <2>1
  <2>3. Sum(r, 1..(m + k)) = Sum(s, 1..m) + Sum(t, 1..k)
    BY <2>2
  <2>4. r[m + (k + 1)] = t[k + 1] /\ t[k + 1] \in Int
    BY <1>1, <2>1, <2>2
  <2>5. Sum(r, 1..((m + k) + 1)) = r[(m + k) + 1] + Sum(r, 1..(m + k))
    <3>1. \A y \in 1..((m + k) + 1) : r[y] \in Int
      BY <1>1, <2>1, <2>2
    <3> QED BY <2>2, <3>1, SumUpTo
  <2>6. Sum(t, 1..(k + 1)) = t[k + 1] + Sum(t, 1..k) /\ Sum(t, 1..k) \in Int
    <3>1. \A y \in 1..(k + 1) : t[y] \in Int
      BY <1>1, <2>1, <2>2
    <3> QED BY <2>2, <3>1, SumUpTo
  <2>7. Sum(s, 1..m) \in Int
    <3>1. (\A i \in 1..m : s[i] \in Int) /\ IsFiniteSet(1..m)
      BY <1>1, <1>2
    <3> QED BY <3>1, SumRemove
  <2>8. (m + k) + 1 = m + (k + 1)
    BY <1>1, <2>2
  <2> QED BY <2>3, <2>4, <2>5, <2>6, <2>7, <2>8
<1>5. T = Nat
  <2>1. T \in SUBSET Nat
    OBVIOUS
  <2> HIDE DEF T
  <2> QED BY <1>3, <1>4, <2>1, InductionOverNat
<1>6. Sum(r, 1..(m + n)) = Sum(s, 1..m) + Sum(t, 1..n)
  <2>1. n \in T
    BY <1>1, <1>5
  <2> QED BY <2>1, <1>1
<1> QED BY <1>1, <1>6, SumOfSeq DEF m, n, r

\* Terms that are zero can be left out.
LEMMA SumSupport ==
    ASSUME NEW g, NEW A, IsFiniteSet(A), NEW B \in SUBSET A, \A x \in A : g[x] \in Int, \A x \in A \ B : g[x] = 0
    PROVE  Sum(g, A) = Sum(g, B)
<1> DEFINE Z == A \ B
           F == {s \in SUBSET Z : Sum(g, B \cup s) = Sum(g, B)}
<1>1. IsFiniteSet(Z)
  BY FS_Subset
<1>2. {} \in F
  OBVIOUS
<1>3. ASSUME NEW s \in SUBSET Z, s # {}, \A x \in s : s \ {x} \in F PROVE s \in F
  <2>1. PICK x \in s : TRUE
    BY <1>3
  <2>2. Sum(g, B \cup (s \ {x})) = Sum(g, B)
    BY <1>3
  <2>3. PICK W : W = B \cup (s \ {x})
    OBVIOUS
  <2>4. IsFiniteSet(W) /\ x \notin W /\ \A y \in W \cup {x} : g[y] \in Int
    <3>1. W \subseteq A
      BY <2>3
    <3> QED BY <2>3, <3>1, FS_Subset
  <2>5. Sum(g, W \cup {x}) = g[x] + Sum(g, W) /\ Sum(g, W) \in Int /\ g[x] = 0
    BY <2>4, SumAdd, SumRemove
  <2>6. W \cup {x} = B \cup s
    BY <2>3
  <2>7. Sum(g, B \cup s) = g[x] + Sum(g, W)
    BY <2>5, <2>6, Zenon
  <2>8. Sum(g, W) = Sum(g, B)
    BY <2>2, <2>3, Zenon
  <2>9. Sum(g, B \cup s) = Sum(g, B)
    <3> HIDE DEF F, Z
    <3> QED BY <2>5, <2>7, <2>8
  <2> QED BY <2>9
<1>4. F = SUBSET Z
  <2>1. F \in SUBSET (SUBSET Z)
    OBVIOUS
  <2> HIDE DEF F, Z
  <2> QED BY <1>1, <1>2, <1>3, <2>1, InductionOverSubsets
<1>5. Z \in F /\ B \cup Z = A
  BY <1>4
<1> QED BY <1>5

-----------------------------------------------------------------------------
(* Folds.                                                                  *)

\* A fold over the elements of a finite set, in the order a function chooses them, exists.
FoldData(A, V, base, step, first) ==
    /\ IsFiniteSet(A) /\ base \in V /\ step \in [A -> [V -> V]]
    /\ \A s \in SUBSET A : s # {} => first[s] \in s
Folded(F, A, V, base, step, first) ==
    /\ F \in [SUBSET A -> V]
    /\ \A s \in SUBSET A : F[s] = IF s = {} THEN base ELSE step[first[s]][F[s \ {first[s]}]]

LEMMA FoldExists ==
    ASSUME NEW A, NEW V, NEW base, NEW step, NEW first, FoldData(A, V, base, step, first)
    PROVE  \E F : Folded(F, A, V, base, step, first)
<1> USE DEF FoldData
<1> DEFINE Solves(F, s) == F[s] = IF s = {} THEN base ELSE step[first[s]][F[s \ {first[s]}]]
           N == {n \in Nat : \E F \in [SUBSET A -> V] : \A s \in SUBSET A : Cardinality(s) <= n => Solves(F, s)}
<1>0. \A s \in SUBSET A : IsFiniteSet(s) /\ Cardinality(s) \in Nat
  BY FS_Subset, FS_CardinalityType
<1>1. 0 \in N
  <2> DEFINE F == [s \in SUBSET A |-> base]
  <2>1. ASSUME NEW s \in SUBSET A, Cardinality(s) <= 0 PROVE Solves(F, s)
    <3>1. s = {}
      BY <1>0, <2>1, FS_EmptySet
    <3> QED BY <3>1
  <2>2. F \in [SUBSET A -> V]
    OBVIOUS
  <2> HIDE DEF F, Solves
  <2> QED BY <2>1, <2>2
<1>2. ASSUME NEW n \in N PROVE n + 1 \in N
  <2>0. n \in Nat
    OBVIOUS
  <2>1. PICK F \in [SUBSET A -> V] : \A s \in SUBSET A : Cardinality(s) <= n => Solves(F, s)
    OBVIOUS
  <2> DEFINE G == [s \in SUBSET A |-> IF Cardinality(s) = n + 1 THEN step[first[s]][F[s \ {first[s]}]] ELSE F[s]]
  <2>2. ASSUME NEW s \in SUBSET A, Cardinality(s) = n + 1
        PROVE  /\ s # {} /\ first[s] \in s /\ s \ {first[s]} \in SUBSET A
               /\ Cardinality(s \ {first[s]}) = n /\ step[first[s]][F[s \ {first[s]}]] \in V
    <3>1. s # {} /\ \A x \in s : Cardinality(s \ {x}) = n
      BY <1>0, <2>0, <2>2, OneLess
    <3>2. first[s] \in s
      BY <3>1
    <3>3. step[first[s]] \in [V -> V] /\ F[s \ {first[s]}] \in V
      BY <3>2
    <3> QED BY <3>1, <3>2, <3>3
  <2>3. G \in [SUBSET A -> V]
    BY <2>2
  <2>4. ASSUME NEW s \in SUBSET A, Cardinality(s) <= n + 1 PROVE Solves(G, s)
    <3>1. CASE Cardinality(s) = n + 1
      <4>1. s # {} /\ s \ {first[s]} \in SUBSET A /\ Cardinality(s \ {first[s]}) = n
        BY <2>2, <3>1
      <4>2. G[s] = step[first[s]][F[s \ {first[s]}]]
        BY <3>1
      <4>3. G[s \ {first[s]}] = F[s \ {first[s]}]
        BY <2>0, <4>1
      <4> QED BY <4>1, <4>2, <4>3
    <3>2. CASE Cardinality(s) # n + 1 /\ s = {}
      <4>1. Cardinality(s) <= n
        BY <3>2, <1>0, <2>4
      <4> QED BY <4>1, <3>2, <2>1
    <3>3. CASE Cardinality(s) # n + 1 /\ s # {}
      <4>1. Cardinality(s) <= n /\ Cardinality(s) \in Nat /\ first[s] \in s
        BY <3>3, <1>0, <2>4
      <4>2. Cardinality(s \ {first[s]}) = Cardinality(s) - 1 /\ s \ {first[s]} \in SUBSET A
        <5>1. IsFiniteSet(s) /\ first[s] \in s
          BY <1>0, <4>1
        <5>2. Cardinality(s \ {first[s]}) = Cardinality(s) - 1
          BY <5>1, FS_RemoveElement
        <5> QED BY <5>2
      <4>3. G[s] = F[s] /\ G[s \ {first[s]}] = F[s \ {first[s]}]
        BY <3>3, <4>1, <4>2
      <4> QED BY <4>1, <4>3, <2>1
    <3> QED BY <3>1, <3>2, <3>3
  <2>5. n + 1 \in Nat
    BY <2>0
  <2> HIDE DEF G, Solves
  <2> QED BY <2>3, <2>4, <2>5
<1>3. N = Nat
  <2> HIDE DEF N
  <2>1. N \in SUBSET Nat
    BY DEF N
  <2> QED BY <1>1, <1>2, <2>1, InductionOverNat
<1>4. PICK F \in [SUBSET A -> V] : \A s \in SUBSET A : Cardinality(s) <= Cardinality(A) => Solves(F, s)
  <2>1. Cardinality(A) \in N
    BY <1>0, <1>3
  <2> QED BY <2>1
<1>5. \A s \in SUBSET A : Cardinality(s) <= Cardinality(A)
  BY FS_Subset
<1> QED BY <1>4, <1>5 DEF Folded

\* Some element of a finite set has the least value.
LEMMA LeastExists ==
    ASSUME NEW A, IsFiniteSet(A), NEW d, \A x \in A : d[x] \in Int
    PROVE  \A s \in SUBSET A : s # {} => \E x \in s : \A y \in s : d[x] <= d[y]
<1> DEFINE Least(s) == s # {} => \E x \in s : \A y \in s : d[x] <= d[y]
           F == {s \in SUBSET A : Least(s)}
<1>1. {} \in F
  OBVIOUS
<1>2. ASSUME NEW s \in SUBSET A, s # {}, \A x \in s : s \ {x} \in F PROVE s \in F
  <2>1. PICK x \in s : TRUE
    BY <1>2
  <2>2. CASE s \ {x} = {}
    <3>1. \A y \in s : y = x /\ d[y] \in Int
      BY <2>2
    <3>2. Least(s)
      BY <3>1
    <3> QED BY <3>2
  <2>3. CASE s \ {x} # {}
    <3>1. PICK y \in s \ {x} : \A z \in s \ {x} : d[y] <= d[z]
      BY <1>2, <2>3
    <3>2. d[x] \in Int /\ d[y] \in Int /\ \A z \in s : d[z] \in Int
      OBVIOUS
    <3>3. CASE d[x] <= d[y]
      <4>1. \A z \in s : d[x] <= d[z]
        BY <3>1, <3>2, <3>3
      <4> QED BY <4>1
    <3>4. CASE ~(d[x] <= d[y])
      <4>1. \A z \in s : d[y] <= d[z]
        BY <3>1, <3>2, <3>4
      <4> QED BY <4>1
    <3> QED BY <3>3, <3>4
  <2> QED BY <2>2, <2>3
<1>3. F = SUBSET A
  <2> HIDE DEF F
  <2>1. F \in SUBSET (SUBSET A)
    BY DEF F
  <2> QED BY <1>1, <1>2, <2>1, InductionOverSubsets
<1> QED BY <1>3

\* The sum does not fall when terms are added that are not negative.
LEMMA SumMore ==
    ASSUME NEW g, NEW A, IsFiniteSet(A), NEW B0 \in SUBSET A, \A x \in A : g[x] \in Int, \A x \in A \ B0 : g[x] >= 0
    PROVE  Sum(g, A) >= Sum(g, B0)
<1> DEFINE Z == A \ B0
           F == {s \in SUBSET Z : Sum(g, B0 \cup s) >= Sum(g, B0)}
<1>1. IsFiniteSet(Z)
  BY FS_Subset
<1>2. {} \in F
  <2>1. IsFiniteSet(B0)
    BY FS_Subset
  <2>2. Sum(g, B0) \in Int /\ B0 \cup {} = B0
    BY <2>1, SumRemove
  <2>3. Sum(g, B0 \cup {}) >= Sum(g, B0)
    BY <2>2
  <2> QED BY <2>3
<1>3. ASSUME NEW s \in SUBSET Z, s # {}, \A x \in s : s \ {x} \in F PROVE s \in F
  <2>1. PICK x \in s : TRUE
    BY <1>3
  <2>2. Sum(g, B0 \cup (s \ {x})) >= Sum(g, B0)
    BY <1>3
  <2>3. PICK W : W = B0 \cup (s \ {x})
    OBVIOUS
  <2>4. IsFiniteSet(W) /\ x \notin W /\ \A y \in W \cup {x} : g[y] \in Int
    <3>1. W \subseteq A
      BY <2>3
    <3> QED BY <2>3, <3>1, FS_Subset
  <2>5. Sum(g, W \cup {x}) = g[x] + Sum(g, W) /\ Sum(g, W) \in Int /\ g[x] \in Int /\ g[x] >= 0
    BY <2>4, SumAdd, SumRemove
  <2>6. W \cup {x} = B0 \cup s
    BY <2>3
  <2>7. Sum(g, B0 \cup s) = g[x] + Sum(g, W)
    BY <2>5, <2>6, Zenon
  <2>8. Sum(g, W) >= Sum(g, B0)
    BY <2>2, <2>3, Zenon
  <2>9. Sum(g, B0) \in Int
    <3>1. IsFiniteSet(B0) /\ \A y \in B0 : g[y] \in Int
      BY FS_Subset
    <3> QED BY <3>1, SumRemove
  <2>10. Sum(g, B0 \cup s) >= Sum(g, B0)
    <3> HIDE DEF F, Z
    <3> QED BY <2>5, <2>7, <2>8, <2>9
  <2> QED BY <2>10
<1>4. F = SUBSET Z
  <2>1. F \in SUBSET (SUBSET Z)
    OBVIOUS
  <2> HIDE DEF F, Z
  <2> QED BY <1>1, <1>2, <1>3, <2>1, InductionOverSubsets
<1>5. Z \in F /\ B0 \cup Z = A
  BY <1>4
<1> QED BY <1>5
=============================================================================
