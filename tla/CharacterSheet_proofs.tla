------------------------- MODULE CharacterSheet_proofs -------------------------
(***************************************************************************)
(* Proofs about CharacterSheet and the arithmetic of HitDice.               *)
(*                                                                         *)
(* The sums of the model are folds over finite sets, and what they compute  *)
(* rests on the recursion they satisfy. `Sum` is that recursion, found by   *)
(* induction on the subsets of a finite set: a smallest set for which it    *)
(* failed would have a smaller one. From it come the lemmas about the       *)
(* operators of HitDice: what spending, resting, rebuilding and levelling   *)
(* up leave of well-formed pools.                                           *)
(*                                                                         *)
(* The invariant turns on the version. Whatever a tab or a request holds is *)
(* the row as it was at its version, so either the version is the row's and *)
(* what was computed from it is still right, or the guard refuses it.       *)
(***************************************************************************)
EXTENDS CharacterSheet, FiniteSetTheorems, SequenceTheorems, WellFoundedInduction, TLAPS

\* Every set of numbers that is not empty has a least one.
LEMMA Least ==
    ASSUME NEW T, T \subseteq Nat, T # {}
    PROVE  \E m \in T : \A n \in T : m <= n
<1>1. PICK m \in T : \A n \in T : ~(<<n, m>> \in OpToRel(<, Nat))
  BY NatLessThanWellFounded, WFMin
<1>2. \A n \in T : ~(n < m)
  BY <1>1 DEF OpToRel
<1> QED
  BY <1>2

\* Of the subsets of a finite set that have a property, one has as few elements
\* as any: induction, for a property that is a set.
LEMMA Smallest ==
    ASSUME NEW S, IsFiniteSet(S), NEW B, B \subseteq SUBSET S, B # {}
    PROVE  \E T \in B : \A x \in T : T \ {x} \notin B
<1> DEFINE sizes == {Cardinality(T) : T \in B}
<1>1. \A T \in SUBSET S : IsFiniteSet(T) /\ Cardinality(T) \in Nat
  BY FS_Subset, FS_CardinalityType
<1>2. PICK m \in sizes : \A n \in sizes : m <= n
  <2>1. sizes \subseteq Nat /\ sizes # {}
    BY <1>1
  <2> HIDE DEF sizes
  <2> QED
    BY <2>1, Least
<1>3. PICK T \in B : Cardinality(T) = m
  BY <1>2
<1>4. ASSUME NEW x \in T, T \ {x} \in B PROVE FALSE
  <2>1. Cardinality(T \ {x}) = Cardinality(T) - 1
    BY <1>1, <1>4, FS_RemoveElement
  <2>2. Cardinality(T) <= Cardinality(T \ {x})
    BY <1>2, <1>3, <1>4
  <2> QED
    BY <1>1, <2>1, <2>2
<1> QED
  BY <1>4

-----------------------------------------------------------------------------
(* Sums over a finite set, as MapThenSumSet adds them up: one element after  *)
(* the other, in the order CHOOSE takes them.                               *)

Pick(T) == CHOOSE x \in T : TRUE

\* g[T] is the sum of f over T, for the sets T of D.
Adds(g, f, D) == g = [T \in D |-> IF T = {} THEN 0 ELSE f[Pick(T)] + g[T \ {Pick(T)}]]

Sum(f, S) == MapThenSumSet(LAMBDA x : f[x], S)

LEMMA Picked == ASSUME NEW T, T # {} PROVE Pick(T) \in T
  BY DEF Pick

\* The recursion defines a function: on the sets of at most n elements, for each
\* n in turn.
LEMMA SumsExist ==
    ASSUME NEW S, IsFiniteSet(S), NEW f
    PROVE  \E g : Adds(g, f, SUBSET S)
<1> DEFINE Upto(n) == {U \in SUBSET S : Cardinality(U) <= n}
           B == {n \in Nat : ~\E g : Adds(g, f, Upto(n))}
<1>1. \A T \in SUBSET S : IsFiniteSet(T) /\ Cardinality(T) \in Nat /\ Cardinality(T) <= Cardinality(S)
  BY FS_Subset, FS_CardinalityType
<1>2. B = {}
  <2> SUFFICES ASSUME B # {} PROVE FALSE
    OBVIOUS
  <2>1. PICK n \in B : \A m \in B : n <= m
    <3>1. B \subseteq Nat
      OBVIOUS
    <3> HIDE DEF B
    <3> QED
      BY <3>1, Least
  <2>2. CASE n = 0
    <3> DEFINE g == [T \in Upto(0) |-> IF T = {} THEN 0 ELSE f[Pick(T)] + 0]
    <3>1. \A T \in Upto(0) : T = {}
      BY <1>1, FS_EmptySet
    <3>2. Adds(g, f, Upto(0))
      BY <3>1 DEF Adds
    <3> QED
      BY <2>1, <2>2, <3>2
  <2>3. CASE n # 0
    <3>1. n - 1 \in Nat /\ n - 1 \notin B
      <4>1. n \in Nat /\ \A m \in B : n <= m
        BY <2>1
      <4> HIDE DEF B
      <4> QED
        BY <2>3, <4>1
    <3>2. PICK h : Adds(h, f, Upto(n - 1))
      BY <3>1
    <3> DEFINE g == [T \in Upto(n) |-> IF T = {} THEN 0 ELSE f[Pick(T)] + h[T \ {Pick(T)}]]
    <3>3. \A T \in Upto(n) : T # {} =>
             /\ T \ {Pick(T)} \in Upto(n - 1)
             /\ T \ {Pick(T)} \in Upto(n)
      <4> SUFFICES ASSUME NEW T \in Upto(n), T # {}
                   PROVE  T \ {Pick(T)} \in Upto(n - 1) /\ T \ {Pick(T)} \in Upto(n)
        OBVIOUS
      <4>1. Cardinality(T \ {Pick(T)}) = Cardinality(T) - 1
        BY <1>1, Picked, FS_RemoveElement
      <4> QED
        BY <1>1, <4>1
    <3>4. \A T \in Upto(n - 1) : T \in Upto(n) /\ g[T] = h[T]
      <4>1. Upto(n - 1) \subseteq Upto(n)
        BY <1>1, <2>1
      <4>2. \A T \in Upto(n - 1) : h[T] = IF T = {} THEN 0 ELSE f[Pick(T)] + h[T \ {Pick(T)}]
        <5> HIDE DEF Upto
        <5> QED
          BY <3>2 DEF Adds
      <4> HIDE DEF Upto
      <4> QED
        BY <4>1, <4>2
    <3>5. Adds(g, f, Upto(n))
      <4>1. \A T \in Upto(n) : T # {} => g[T \ {Pick(T)}] = h[T \ {Pick(T)}]
        BY <3>3, <3>4
      <4> HIDE DEF Upto
      <4>2. g = [T \in Upto(n) |-> IF T = {} THEN 0 ELSE f[Pick(T)] + g[T \ {Pick(T)}]]
        BY <4>1
      <4> QED
        BY <4>2 DEF Adds
    <3> QED
      BY <2>1, <3>5
  <2> QED
    BY <2>2, <2>3
<1>3. Cardinality(S) \in Nat /\ Upto(Cardinality(S)) = SUBSET S
  BY <1>1
<1> QED
  BY <1>2, <1>3

\* In such a function the order does not matter: any element may go first.
LEMMA AnyFirst ==
    ASSUME NEW S, IsFiniteSet(S), NEW f \in [S -> Int], NEW g, Adds(g, f, SUBSET S)
    PROVE  /\ g[{}] = 0
           /\ \A T \in SUBSET S : g[T] \in Int /\ \A x \in T : g[T] = f[x] + g[T \ {x}]
<1>1. \A T \in SUBSET S : g[T] = IF T = {} THEN 0 ELSE f[Pick(T)] + g[T \ {Pick(T)}]
  BY DEF Adds
<1>0. g[{}] = 0
  BY <1>1
<1>2. \A T \in SUBSET S : g[T] \in Int
  <2> DEFINE B == {T \in SUBSET S : g[T] \notin Int}
  <2> SUFFICES ASSUME B # {} PROVE FALSE
    OBVIOUS
  <2>1. PICK T \in B : \A x \in T : T \ {x} \notin B
    <3>1. B \subseteq SUBSET S
      OBVIOUS
    <3> HIDE DEF B
    <3> QED
      BY <3>1, Smallest
  <2>2. T # {}
    <3>1. T = {} => g[T] = g[{}]
      OBVIOUS
    <3> QED
      BY <1>0, <2>1, <3>1
  <2> DEFINE c == Pick(T)
  <2>3. c \in T /\ g[T] = f[c] + g[T \ {c}]
    BY <1>1, <2>1, <2>2, Picked
  <2>4. f[c] \in Int /\ g[T \ {c}] \in Int
    BY <2>1, <2>3
  <2> QED
    BY <2>1, <2>3, <2>4
<1>3. \A T \in SUBSET S : \A x \in T : g[T] = f[x] + g[T \ {x}]
  <2> DEFINE B == {T \in SUBSET S : ~\A x \in T : g[T] = f[x] + g[T \ {x}]}
  <2> SUFFICES ASSUME B # {} PROVE FALSE
    OBVIOUS
  <2>1. PICK T \in B : \A x \in T : T \ {x} \notin B
    <3>1. B \subseteq SUBSET S
      OBVIOUS
    <3> HIDE DEF B
    <3> QED
      BY <3>1, Smallest
  <2>2. \A x \in T, y \in T : x # y => g[T \ {x}] = f[y] + g[(T \ {x}) \ {y}]
    BY <2>1
  <2>3. PICK x \in T : g[T] # f[x] + g[T \ {x}]
    BY <2>1
  <2> DEFINE c == Pick(T)
  <2>4. c \in T /\ g[T] = f[c] + g[T \ {c}]
    BY <1>1, <2>1, <2>3, Picked
  <2> HIDE DEF c
  <2>5. g[T \ {c}] = f[x] + g[(T \ {c}) \ {x}] /\ g[T \ {x}] = f[c] + g[(T \ {x}) \ {c}]
    BY <2>2, <2>3, <2>4
  <2>6. (T \ {c}) \ {x} = (T \ {x}) \ {c} /\ (T \ {x}) \ {c} \in SUBSET S /\ {c, x} \subseteq S
    BY <2>1, <2>3, <2>4
  <2>7. f[c] \in Int /\ f[x] \in Int /\ g[(T \ {x}) \ {c}] \in Int
    BY <1>2, <2>6
  <2>8. g[T \ {c}] = f[x] + g[(T \ {x}) \ {c}]
    BY <2>5, <2>6
  <2> QED
    BY <2>3, <2>4, <2>5, <2>7, <2>8
<1> QED
  BY <1>0, <1>2, <1>3

\* The sum is that of any such function, however many more elements it covers.
LEMMA SumIs ==
    ASSUME NEW S, IsFiniteSet(S), NEW f \in [S -> Int], NEW g, Adds(g, f, SUBSET S),
           NEW U \in SUBSET S
    PROVE  Sum(f, U) = g[U]
<1>1. IsFiniteSet(U)
  BY FS_Subset
<1> DEFINE h == CHOOSE h : Adds(h, f, SUBSET U)
<1>2. Adds(h, f, SUBSET U)
  BY <1>1, SumsExist
<1>3. Sum(f, U) = h[U]
  BY DEF Sum, MapThenSumSet, MapThenFoldSet, Adds, Pick
<1> HIDE DEF h
<1>4. \A T \in SUBSET U : h[T] = IF T = {} THEN 0 ELSE f[Pick(T)] + h[T \ {Pick(T)}]
  BY <1>2 DEF Adds
<1>5. \A T \in SUBSET S : g[T] = IF T = {} THEN 0 ELSE f[Pick(T)] + g[T \ {Pick(T)}]
  BY DEF Adds
<1> DEFINE B == {T \in SUBSET U : h[T] # g[T]}
<1>6. B = {}
  <2> SUFFICES ASSUME B # {} PROVE FALSE
    OBVIOUS
  <2>1. PICK T \in B : \A x \in T : T \ {x} \notin B
    <3>1. B \subseteq SUBSET U
      OBVIOUS
    <3> HIDE DEF B
    <3> QED
      BY <1>1, <3>1, Smallest
  <2>2. T # {}
    BY <1>4, <1>5, <2>1
  <2>3. Pick(T) \in T /\ T \in SUBSET U
    BY <2>1, <2>2, Picked
  <2>4. h[T \ {Pick(T)}] = g[T \ {Pick(T)}]
    BY <2>1, <2>3
  <2> QED
    BY <1>4, <1>5, <2>1, <2>2, <2>3, <2>4
<1> QED
  BY <1>3, <1>6

\* Taking one element out of a sum.
LEMMA SumRec ==
    ASSUME NEW S, IsFiniteSet(S), NEW f \in [S -> Int]
    PROVE  /\ Sum(f, {}) = 0
           /\ \A T \in SUBSET S :
                Sum(f, T) \in Int /\ \A x \in T : Sum(f, T) = f[x] + Sum(f, T \ {x})
<1>1. PICK g : Adds(g, f, SUBSET S)
  BY SumsExist
<1>2. \A T \in SUBSET S : Sum(f, T) = g[T]
  BY <1>1, SumIs
<1>3. {} \in SUBSET S /\ \A T \in SUBSET S : \A x \in T : T \ {x} \in SUBSET S
  OBVIOUS
<1>4. g[{}] = 0
  BY <1>1, AnyFirst
<1>5. \A T \in SUBSET S : g[T] \in Int /\ \A x \in T : g[T] = f[x] + g[T \ {x}]
  BY <1>1, AnyFirst
<1> QED
  BY <1>2, <1>3, <1>4, <1>5

\* Two sums that differ in one summand, or in none.
LEMMA SumShift ==
    ASSUME NEW S, IsFiniteSet(S), NEW f \in [S -> Int], NEW h \in [S -> Int], NEW x,
           \A y \in S \ {x} : h[y] = f[y]
    PROVE  Sum(h, S) = Sum(f, S) + IF x \in S THEN h[x] - f[x] ELSE 0
<1> DEFINE By(T) == IF x \in T THEN h[x] - f[x] ELSE 0
           B == {T \in SUBSET S : Sum(h, T) # Sum(f, T) + By(T)}
<1>1. B = {}
  <2> SUFFICES ASSUME B # {} PROVE FALSE
    OBVIOUS
  <2>1. PICK T \in B : \A y \in T : T \ {y} \notin B
    <3>1. B \subseteq SUBSET S
      OBVIOUS
    <3> HIDE DEF B
    <3> QED
      BY <3>1, Smallest
  <2>2. T # {}
    <3>1. T = {} => Sum(h, T) = Sum(h, {}) /\ Sum(f, T) = Sum(f, {}) /\ By(T) = 0
      OBVIOUS
    <3>2. Sum(h, {}) = 0 /\ Sum(f, {}) = 0
      BY SumRec
    <3> QED
      BY <2>1, <3>1, <3>2
  <2>3. PICK y \in T : TRUE
    BY <2>2
  <2>4. /\ Sum(h, T) = h[y] + Sum(h, T \ {y}) /\ Sum(f, T) = f[y] + Sum(f, T \ {y})
        /\ Sum(h, T \ {y}) \in Int /\ Sum(f, T \ {y}) \in Int
    BY <2>1, SumRec
  <2>5. Sum(h, T \ {y}) = Sum(f, T \ {y}) + By(T \ {y})
    BY <2>1
  <2>6. By(T) = By(T \ {y}) + (h[y] - f[y]) /\ By(T \ {y}) \in Int
    BY <2>1
  <2>7. h[y] \in Int /\ f[y] \in Int
    BY <2>1
  <2>8. Sum(h, T) # Sum(f, T) + By(T)
    BY <2>1
  <2> HIDE DEF By, B
  <2> QED
    BY <2>4, <2>5, <2>6, <2>7, <2>8
<1> QED
  BY <1>1

\* A sum of naturals is at least any of them.
LEMMA SumNat ==
    ASSUME NEW S, IsFiniteSet(S), NEW f \in [S -> Nat]
    PROVE  Sum(f, S) \in Nat /\ \A x \in S : f[x] <= Sum(f, S)
<1> DEFINE B == {T \in SUBSET S : Sum(f, T) \notin Nat}
<1>0. f \in [S -> Int]
  OBVIOUS
<1>1. B = {}
  <2> SUFFICES ASSUME B # {} PROVE FALSE
    OBVIOUS
  <2>1. PICK T \in B : \A y \in T : T \ {y} \notin B
    <3>1. B \subseteq SUBSET S
      OBVIOUS
    <3> HIDE DEF B
    <3> QED
      BY <3>1, Smallest
  <2>2. T # {}
    <3>1. T = {} => Sum(f, T) = Sum(f, {})
      OBVIOUS
    <3> QED
      BY <1>0, <2>1, <3>1, SumRec
  <2>3. PICK y \in T : TRUE
    BY <2>2
  <2>4. Sum(f, T) = f[y] + Sum(f, T \ {y})
    BY <1>0, <2>1, SumRec
  <2>5. Sum(f, T \ {y}) \in Nat /\ f[y] \in Nat
    BY <2>1
  <2> QED
    BY <2>1, <2>4, <2>5
<1>2. ASSUME NEW x \in S PROVE f[x] <= Sum(f, S)
  <2>1. Sum(f, S) = f[x] + Sum(f, S \ {x})
    BY <1>0, SumRec
  <2>2. Sum(f, S \ {x}) \in Nat /\ f[x] \in Nat
    BY <1>1
  <2> QED
    BY <2>1, <2>2
<1> QED
  BY <1>1, <1>2

\* A sum grows with its summands.
LEMMA SumGrows ==
    ASSUME NEW S, IsFiniteSet(S), NEW f \in [S -> Int], NEW h \in [S -> Int],
           \A x \in S : f[x] <= h[x]
    PROVE  Sum(f, S) <= Sum(h, S)
<1> DEFINE B == {T \in SUBSET S : ~(Sum(f, T) <= Sum(h, T))}
<1>1. B = {}
  <2> SUFFICES ASSUME B # {} PROVE FALSE
    OBVIOUS
  <2>1. PICK T \in B : \A y \in T : T \ {y} \notin B
    <3>1. B \subseteq SUBSET S
      OBVIOUS
    <3> HIDE DEF B
    <3> QED
      BY <3>1, Smallest
  <2>2. T # {}
    <3>1. T = {} => Sum(f, T) = Sum(f, {}) /\ Sum(h, T) = Sum(h, {})
      OBVIOUS
    <3>2. Sum(h, {}) = 0 /\ Sum(f, {}) = 0
      BY SumRec
    <3> QED
      BY <2>1, <3>1, <3>2
  <2>3. PICK y \in T : TRUE
    BY <2>2
  <2>4. /\ Sum(h, T) = h[y] + Sum(h, T \ {y}) /\ Sum(f, T) = f[y] + Sum(f, T \ {y})
        /\ Sum(h, T \ {y}) \in Int /\ Sum(f, T \ {y}) \in Int
    BY <2>1, SumRec
  <2>5. Sum(f, T \ {y}) <= Sum(h, T \ {y})
    BY <2>1
  <2>6. h[y] \in Int /\ f[y] \in Int /\ f[y] <= h[y]
    BY <2>1
  <2>7. ~(Sum(f, T) <= Sum(h, T))
    BY <2>1
  <2> HIDE DEF B
  <2> QED
    BY <2>4, <2>5, <2>6, <2>7
<1> QED
  BY <1>1

\* The sums of the model.

LEMMA LevelOfIsSum ==
    ASSUME NEW classes, IsFiniteSet(DOMAIN classes),
           \A i \in DOMAIN classes : classes[i].level \in Int
    PROVE  LevelOf(classes) = Sum([i \in DOMAIN classes |-> classes[i].level], DOMAIN classes)
<1> DEFINE D == DOMAIN classes
           f == [i \in D |-> classes[i].level]
           h == CHOOSE h : h = [T \in SUBSET D |-> IF T = {} THEN 0
                                  ELSE classes[Pick(T)].level + h[T \ {Pick(T)}]]
<1>1. LevelOf(classes) = h[D]
  BY DEF LevelOf, MapThenSumSet, MapThenFoldSet, Pick
<1>2. ASSUME NEW g
      PROVE  Adds(g, f, SUBSET D) <=>
               g = [T \in SUBSET D |-> IF T = {} THEN 0
                                      ELSE classes[Pick(T)].level + g[T \ {Pick(T)}]]
  <2>1. \A T \in SUBSET D : T # {} => f[Pick(T)] = classes[Pick(T)].level
    BY Picked
  <2> QED
    BY <2>1 DEF Adds
<1>3. Adds(h, f, SUBSET D)
  <2>1. \E g : Adds(g, f, SUBSET D)
    BY SumsExist
  <2> QED
    BY <1>2, <2>1
<1>4. f \in [D -> Int]
  OBVIOUS
<1> HIDE DEF h, f
<1> QED
  BY <1>1, <1>3, <1>4, SumIs DEF f

LEMMA TotalIsSum ==
    ASSUME NEW pools, IsFiniteSet(DOMAIN pools),
           \A i \in DOMAIN pools : pools[i].total \in Int
    PROVE  HitDiceTotal(pools) = Sum([i \in DOMAIN pools |-> pools[i].total], DOMAIN pools)
<1> DEFINE D == DOMAIN pools
           f == [i \in D |-> pools[i].total]
           h == CHOOSE h : h = [T \in SUBSET D |-> IF T = {} THEN 0
                                  ELSE pools[Pick(T)].total + h[T \ {Pick(T)}]]
<1>1. HitDiceTotal(pools) = h[D]
  BY DEF HitDiceTotal, MapThenSumSet, MapThenFoldSet, Pick
<1>2. ASSUME NEW g
      PROVE  Adds(g, f, SUBSET D) <=>
               g = [T \in SUBSET D |-> IF T = {} THEN 0
                                      ELSE pools[Pick(T)].total + g[T \ {Pick(T)}]]
  <2>1. \A T \in SUBSET D : T # {} => f[Pick(T)] = pools[Pick(T)].total
    BY Picked
  <2> QED
    BY <2>1 DEF Adds
<1>3. Adds(h, f, SUBSET D)
  <2>1. \E g : Adds(g, f, SUBSET D)
    BY SumsExist
  <2> QED
    BY <1>2, <2>1
<1>4. f \in [D -> Int]
  OBVIOUS
<1> HIDE DEF h, f
<1> QED
  BY <1>1, <1>3, <1>4, SumIs DEF f

LEMMA SpentIsSum ==
    ASSUME NEW pools, IsFiniteSet(DOMAIN pools),
           \A i \in DOMAIN pools : pools[i].spent \in Int
    PROVE  HitDiceSpent(pools) = Sum([i \in DOMAIN pools |-> pools[i].spent], DOMAIN pools)
<1> DEFINE D == DOMAIN pools
           f == [i \in D |-> pools[i].spent]
           h == CHOOSE h : h = [T \in SUBSET D |-> IF T = {} THEN 0
                                  ELSE pools[Pick(T)].spent + h[T \ {Pick(T)}]]
<1>1. HitDiceSpent(pools) = h[D]
  BY DEF HitDiceSpent, MapThenSumSet, MapThenFoldSet, Pick
<1>2. ASSUME NEW g
      PROVE  Adds(g, f, SUBSET D) <=>
               g = [T \in SUBSET D |-> IF T = {} THEN 0
                                      ELSE pools[Pick(T)].spent + g[T \ {Pick(T)}]]
  <2>1. \A T \in SUBSET D : T # {} => f[Pick(T)] = pools[Pick(T)].spent
    BY Picked
  <2> QED
    BY <2>1 DEF Adds
<1>3. Adds(h, f, SUBSET D)
  <2>1. \E g : Adds(g, f, SUBSET D)
    BY SumsExist
  <2> QED
    BY <1>2, <2>1
<1>4. f \in [D -> Int]
  OBVIOUS
<1> HIDE DEF h, f
<1> QED
  BY <1>1, <1>3, <1>4, SumIs DEF f

LEMMA LevelsIsSum ==
    ASSUME NEW resolved, NEW die, IsFiniteSet(Using(resolved, die)),
           \A i \in Using(resolved, die) : resolved[i].level \in Int
    PROVE  LevelsOf(resolved, die) = Sum([i \in Using(resolved, die) |-> resolved[i].level], Using(resolved, die))
<1> DEFINE D == Using(resolved, die)
           f == [i \in D |-> resolved[i].level]
           h == CHOOSE h : h = [T \in SUBSET D |-> IF T = {} THEN 0
                                  ELSE resolved[Pick(T)].level + h[T \ {Pick(T)}]]
<1>1. LevelsOf(resolved, die) = h[D]
  BY DEF LevelsOf, MapThenSumSet, MapThenFoldSet, Pick
<1>2. ASSUME NEW g
      PROVE  Adds(g, f, SUBSET D) <=>
               g = [T \in SUBSET D |-> IF T = {} THEN 0
                                      ELSE resolved[Pick(T)].level + g[T \ {Pick(T)}]]
  <2>1. \A T \in SUBSET D : T # {} => f[Pick(T)] = resolved[Pick(T)].level
    BY Picked
  <2> QED
    BY <2>1 DEF Adds
<1>3. Adds(h, f, SUBSET D)
  <2>1. \E g : Adds(g, f, SUBSET D)
    BY SumsExist
  <2> QED
    BY <1>2, <2>1
<1>4. f \in [D -> Int]
  OBVIOUS
<1> HIDE DEF h, f
<1> QED
  BY <1>1, <1>3, <1>4, SumIs DEF f

LEMMA ClampedIsSum ==
    ASSUME NEW carried, NEW S, IsFiniteSet(S),
           \A i \in S : carried[i].spent \in Int
    PROVE  MapThenSumSet(LAMBDA i : NoLess(carried[i].spent, 0), S) = Sum([i \in S |-> NoLess(carried[i].spent, 0)], S)
<1> DEFINE D == S
           f == [i \in D |-> NoLess(carried[i].spent, 0)]
           h == CHOOSE h : h = [T \in SUBSET D |-> IF T = {} THEN 0
                                  ELSE NoLess(carried[Pick(T)].spent, 0) + h[T \ {Pick(T)}]]
<1>1. MapThenSumSet(LAMBDA i : NoLess(carried[i].spent, 0), S) = h[D]
  BY DEF NoLess, MapThenSumSet, MapThenFoldSet, Pick
<1>2. ASSUME NEW g
      PROVE  Adds(g, f, SUBSET D) <=>
               g = [T \in SUBSET D |-> IF T = {} THEN 0
                                      ELSE NoLess(carried[Pick(T)].spent, 0) + g[T \ {Pick(T)}]]
  <2>1. \A T \in SUBSET D : T # {} => f[Pick(T)] = NoLess(carried[Pick(T)].spent, 0)
    BY Picked
  <2> QED
    BY <2>1 DEF Adds
<1>3. Adds(h, f, SUBSET D)
  <2>1. \E g : Adds(g, f, SUBSET D)
    BY SumsExist
  <2> QED
    BY <1>2, <2>1
<1>4. f \in [D -> Int]
  BY DEF NoLess
<1> HIDE DEF h, f
<1> QED
  BY <1>1, <1>3, <1>4, SumIs DEF f
-----------------------------------------------------------------------------
(* Hit dice. *)

Pools == Seq(AnyPool)
ClassList == Seq([class : Classes, level : 1..MaxLevel])
ResolvedList == Seq([die : Dice \cup {NoDie}, level : 1..MaxLevel])

\* The same pools with dice spent or restored, none of them past its total that
\* was not.
SameShape(pools, others) ==
    /\ DOMAIN pools = DOMAIN others
    /\ \A i \in DOMAIN pools :
         /\ pools[i].die = others[i].die /\ pools[i].total = others[i].total
         /\ others[i].spent <= others[i].total => pools[i].spent <= pools[i].total

\* The pools are those of the dice and levels, once there is a die.
ShapedBy(pools, dice) ==
    DiceOf(dice) # <<>> =>
      /\ DOMAIN pools = DOMAIN DiceOf(dice)
      /\ \A i \in DOMAIN pools : /\ pools[i].die = DiceOf(dice)[i]
                                /\ pools[i].total = LevelsOf(dice, pools[i].die)
                                /\ pools[i].spent <= pools[i].total

\* The classes at the levels they were resolved at.
Matches(classes, dice) ==
    DOMAIN dice = DOMAIN classes /\ \A i \in DOMAIN dice : dice[i].level = classes[i].level

Resolved(s, dice) == Matches(s.classes, dice) /\ ShapedBy(s.pools, dice)

LEMMA SeqsAre ==
    ASSUME NEW S, NEW seq \in Seq(S)
    PROVE  /\ Len(seq) \in Nat /\ DOMAIN seq = 1..Len(seq) /\ IsFiniteSet(DOMAIN seq)
           /\ \A i \in DOMAIN seq : seq[i] \in S
           /\ seq # <<>> => 1 \in DOMAIN seq
<1>1. Len(seq) \in Nat /\ DOMAIN seq = 1..Len(seq) /\ seq \in [1..Len(seq) -> S]
  BY LenProperties
<1>2. IsFiniteSet(1..Len(seq))
  BY <1>1, FS_Interval
<1>3. seq # <<>> => Len(seq) # 0
  BY EmptySeq
<1> QED
  BY <1>1, <1>2, <1>3

LEMMA SeqsMade ==
    ASSUME NEW S, NEW n \in Nat, NEW seq \in [1..n -> S]
    PROVE  seq \in Seq(S)
  BY SeqDef

LEMMA PoolsAre ==
    ASSUME NEW pools \in Pools
    PROVE  /\ Len(pools) \in Nat /\ DOMAIN pools = 1..Len(pools) /\ IsFiniteSet(DOMAIN pools)
           /\ pools # <<>> => 1 \in DOMAIN pools
           /\ \A i \in DOMAIN pools :
                /\ pools[i] \in AnyPool /\ pools[i].die \in Dice
                /\ pools[i].total \in Nat /\ pools[i].spent \in Nat
<1>1. /\ Len(pools) \in Nat /\ DOMAIN pools = 1..Len(pools) /\ IsFiniteSet(DOMAIN pools)
      /\ \A i \in DOMAIN pools : pools[i] \in AnyPool
      /\ pools # <<>> => 1 \in DOMAIN pools
  BY SeqsAre DEF Pools
<1> QED
  BY <1>1 DEF AnyPool

\* The dice of the pools stay, and what is spent of them changes.
LEMMA Respent ==
    ASSUME NEW pools \in Pools, NEW spent, NEW new,
           \A i \in DOMAIN pools :
             /\ spent[i] \in Nat
             /\ pools[i].spent <= pools[i].total => spent[i] <= pools[i].total,
           new = [i \in DOMAIN pools |-> [pools[i] EXCEPT !.spent = spent[i]]]
    PROVE  /\ new \in Pools /\ SameShape(new, pools)
           /\ \A i \in DOMAIN pools : new[i].spent = spent[i]
<1>1. Len(pools) \in Nat /\ DOMAIN pools = 1..Len(pools)
  BY PoolsAre
<1>2. ASSUME NEW i \in DOMAIN pools
      PROVE  /\ new[i] \in AnyPool /\ new[i].spent = spent[i]
             /\ new[i].die = pools[i].die /\ new[i].total = pools[i].total
  <2>1. pools[i] \in [die : Dice, total : Nat, spent : Nat] /\ spent[i] \in Nat
    BY PoolsAre DEF AnyPool
  <2>2. new[i] = [pools[i] EXCEPT !.spent = spent[i]]
    OBVIOUS
  <2> QED
    BY <2>1, <2>2 DEF AnyPool
<1>3. new \in [1..Len(pools) -> AnyPool] /\ DOMAIN new = DOMAIN pools
  BY <1>1, <1>2
<1>4. new \in Seq(AnyPool)
  BY <1>1, <1>3, SeqsMade
<1> QED
  BY <1>1, <1>2, <1>3, <1>4 DEF Pools, SameShape

LEMMA AdjustKeeps ==
    ASSUME NEW pools \in Pools, NEW die, NEW delta \in Int
    PROVE  /\ AdjustSpent(pools, die, delta) \in Pools
           /\ SameShape(AdjustSpent(pools, die, delta), pools)
           /\ \A i \in DOMAIN pools :
                AdjustSpent(pools, die, delta)[i].spent
                = IF pools[i].die # die THEN pools[i].spent
                  ELSE NoLess(AtMost(pools[i].spent + delta, pools[i].total), 0)
<1> DEFINE new == AdjustSpent(pools, die, delta)
           spent == [i \in DOMAIN pools |->
                       IF pools[i].die # die THEN pools[i].spent
                       ELSE NoLess(AtMost(pools[i].spent + delta, pools[i].total), 0)]
<1>1. \A i \in DOMAIN pools :
        /\ spent[i] \in Nat
        /\ pools[i].spent <= pools[i].total => spent[i] <= pools[i].total
  BY PoolsAre DEF NoLess, AtMost
<1>2. ASSUME NEW i \in DOMAIN pools
      PROVE  new[i] = [pools[i] EXCEPT !.spent = spent[i]]
  <2>1. pools[i] \in AnyPool
    BY PoolsAre
  <2>2. [pools[i] EXCEPT !.spent = pools[i].spent] = pools[i]
    BY <2>1 DEF AnyPool
  <2> QED
    BY <2>2 DEF AdjustSpent
<1>3. new = [i \in DOMAIN pools |-> [pools[i] EXCEPT !.spent = spent[i]]]
  BY <1>2 DEF AdjustSpent
<1>4. \A i \in DOMAIN pools :
        spent[i] = IF pools[i].die # die THEN pools[i].spent
                   ELSE NoLess(AtMost(pools[i].spent + delta, pools[i].total), 0)
  OBVIOUS
<1> HIDE DEF new, spent
<1>5. /\ new \in Pools /\ SameShape(new, pools)
      /\ \A i \in DOMAIN pools : new[i].spent = spent[i]
  BY <1>1, <1>3, Respent
<1> QED
  BY <1>4, <1>5 DEF new

\* A long rest takes from each pool at most what is spent of it.
LEMMA RegainKeeps ==
    ASSUME NEW pools \in Pools
    PROVE  Regain(pools) \in Pools /\ SameShape(Regain(pools), pools)
<1> DEFINE regained == NoLess(HitDiceTotal(pools) \div 2, 1)
           Left(i) == NoLess(regained - HitDiceSpent(SubSeq(pools, 1, i - 1)), 0)
           spent == [i \in DOMAIN pools |-> pools[i].spent - AtMost(pools[i].spent, Left(i))]
<1>1. HitDiceTotal(pools) \in Int
  <2> DEFINE f == [i \in DOMAIN pools |-> pools[i].total]
  <2>1. f \in [DOMAIN pools -> Int] /\ IsFiniteSet(DOMAIN pools)
    BY PoolsAre
  <2>2. HitDiceTotal(pools) = Sum(f, DOMAIN pools)
    BY PoolsAre, TotalIsSum
  <2> HIDE DEF f
  <2> QED
    BY <2>1, <2>2, SumRec
<1>2. ASSUME NEW i \in DOMAIN pools PROVE HitDiceSpent(SubSeq(pools, 1, i - 1)) \in Int
  <2> DEFINE before == SubSeq(pools, 1, i - 1)
             f == [k \in DOMAIN before |-> before[k].spent]
  <2>1. i \in 1..Len(pools) /\ Len(pools) \in Nat
    BY PoolsAre
  <2>2. before \in Seq(AnyPool)
    BY <2>1, PoolsAre, SubSeqProperties
  <2> HIDE DEF before
  <2>5. IsFiniteSet(DOMAIN before) /\ \A k \in DOMAIN before : before[k] \in AnyPool
    BY <2>2, SeqsAre
  <2>3. f \in [DOMAIN before -> Int] /\ \A k \in DOMAIN before : before[k].spent \in Int
    BY <2>5 DEF AnyPool
  <2>4. HitDiceSpent(before) = Sum(f, DOMAIN before)
    BY <2>5, <2>3, SpentIsSum
  <2> HIDE DEF f
  <2>6. HitDiceSpent(before) \in Int
    BY <2>5, <2>3, <2>4, SumRec
  <2> QED
    BY <2>6 DEF before
<1>3. ASSUME NEW i \in DOMAIN pools PROVE spent[i] \in Nat /\ spent[i] <= pools[i].spent
  <2>1. Left(i) \in Nat
    BY <1>1, <1>2 DEF NoLess
  <2>2. pools[i].spent \in Nat
    BY PoolsAre
  <2> HIDE DEF Left
  <2> QED
    BY <2>1, <2>2 DEF AtMost
<1>4. Regain(pools) = [i \in DOMAIN pools |-> [pools[i] EXCEPT !.spent = spent[i]]]
  BY DEF Regain
<1> HIDE DEF spent
<1>5. \A i \in DOMAIN pools :
        pools[i].spent <= pools[i].total => spent[i] <= pools[i].total
  BY <1>3, PoolsAre
<1> QED
  BY <1>3, <1>4, <1>5, Respent

\* Each die of the classes stands once among their dice: the place where it first
\* appears has a rank of its own among such places, and every rank is taken.
LEMMA DiceAre ==
    ASSUME NEW n \in Nat, NEW resolved, DOMAIN resolved = 1..n
    PROVE  \E N \in Nat :
             /\ DOMAIN DiceOf(resolved) = 1..N
             /\ \A k \in 1..N :
                  DiceOf(resolved)[k] # NoDie /\ Using(resolved, DiceOf(resolved)[k]) # {}
             /\ \A k, l \in 1..N : DiceOf(resolved)[k] = DiceOf(resolved)[l] => k = l
<1> DEFINE First == {i \in DOMAIN resolved :
                       resolved[i].die # NoDie /\ i = Min(Using(resolved, resolved[i].die))}
           Before(i) == {j \in First : j < i}
           N == Cardinality(First)
           Nth(k) == CHOOSE i \in First : Cardinality(Before(i)) = k - 1
           rank == [i \in First |-> Cardinality(Before(i))]
<1>1. DiceOf(resolved) = [k \in 1..N |-> resolved[Nth(k)].die]
  BY DEF DiceOf
<1>2. First \subseteq 1..n /\ IsFiniteSet(First) /\ N \in Nat
  <2>1. IsFiniteSet(1..n)
    BY FS_Interval
  <2>2. First \in SUBSET (1..n)
    OBVIOUS
  <2> HIDE DEF First
  <2> QED
    BY <2>1, <2>2, FS_Subset, FS_CardinalityType
<1>3. \A i \in First : resolved[i].die # NoDie /\ i \in Using(resolved, resolved[i].die)
                       /\ i = Min(Using(resolved, resolved[i].die))
  BY DEF Using
<1>4. \A i \in First : Before(i) \in SUBSET First /\ i \notin Before(i)
                       /\ \A j \in First : j \in Before(i) <=> j < i
  BY <1>2
<1> HIDE DEF First, Before
<1>5. \A i \in First : rank[i] \in 0..N - 1
  <2> SUFFICES ASSUME NEW i \in First PROVE Cardinality(Before(i)) \in 0..N - 1
    OBVIOUS
  <2>1. /\ Cardinality(Before(i)) <= N /\ Cardinality(Before(i)) # N
        /\ Cardinality(Before(i)) \in Nat
    BY <1>2, <1>4, FS_Subset, FS_CardinalityType
  <2> QED
    BY <1>2, <2>1
<1>6. ASSUME NEW i \in First, NEW j \in First, i < j PROVE rank[i] # rank[j]
  <2>3. i \in Before(j) /\ i \notin Before(i)
    BY <1>4, <1>6
  <2>4. ASSUME NEW x \in Before(i) PROVE x \in Before(j)
    <3>1. x \in First /\ x < i
      BY <1>4
    <3>2. x \in Int /\ i \in Int /\ j \in Int
      BY <1>2, <3>1
    <3>3. x < j
      BY <1>6, <3>1, <3>2
    <3> QED
      BY <1>4, <3>1, <3>3
  <2>1. Before(i) \in SUBSET Before(j) /\ i \in Before(j) /\ i \notin Before(i)
    BY <2>3, <2>4
  <2>2. IsFiniteSet(Before(j))
    BY <1>2, <1>4, FS_Subset
  <2> QED
    BY <2>1, <2>2, FS_Subset
<1>7. rank \in Injection(First, 0..N - 1)
  <2>1. \A i, j \in First : rank[i] = rank[j] => i = j
    BY <1>2, <1>6
  <2>2. rank \in [First -> 0..N - 1]
    BY <1>5
  <2> QED
    BY <2>1, <2>2 DEF Injection, IsInjective
<1>8. rank \in Surjection(First, 0..N - 1)
  <2>1. 0 \in Int /\ N - 1 \in Int /\ (IF 0 > N - 1 THEN 0 ELSE (N - 1) - 0 + 1) = N
    BY <1>2
  <2>2. IsFiniteSet(0..N - 1) /\ Cardinality(0..N - 1) = N
    BY <2>1, FS_Interval
  <2> QED
    BY <1>7, <2>2, FS_Injection
<1>9. ASSUME NEW k \in 1..N PROVE Nth(k) \in First /\ Cardinality(Before(Nth(k))) = k - 1
  <2>1. k - 1 \in 0..N - 1
    BY <1>2
  <2>2. \E i \in First : Cardinality(Before(i)) = k - 1
    BY <1>8, <2>1 DEF Surjection
  <2> QED
    BY <2>2
<1>10. ASSUME NEW k \in 1..N, NEW l \in 1..N, DiceOf(resolved)[k] = DiceOf(resolved)[l]
       PROVE  k = l
  <2>1. resolved[Nth(k)].die = resolved[Nth(l)].die
    BY <1>1, <1>10
  <2>2. Nth(k) = Nth(l)
    BY <1>3, <1>9, <2>1
  <2>3. k - 1 = l - 1
    BY <1>9, <2>2
  <2> QED
    BY <1>2, <2>3
<1>11. \A k \in 1..N : DiceOf(resolved)[k] # NoDie /\ Using(resolved, DiceOf(resolved)[k]) # {}
  BY <1>1, <1>3, <1>9
<1>12. DOMAIN DiceOf(resolved) = 1..N
  BY <1>1
<1> HIDE DEF N
<1> QED
  BY <1>2, <1>10, <1>11, <1>12

LEMMA LeastIsIn ==
    ASSUME NEW T, T \subseteq Nat, T # {}
    PROVE  Min(T) \in T
<1>1. \E m \in T : \A n \in T : m <= n
  BY Least
<1> QED
  BY <1>1 DEF Min

LEMMA BuiltIs ==
    ASSUME hitDie \in [Classes -> Dice \cup {NoDie}], NEW classes \in ClassList
    PROVE  Built(classes) \in ResolvedList /\ Matches(classes, Built(classes))
<1>1. /\ Len(classes) \in Nat /\ DOMAIN classes = 1..Len(classes)
      /\ \A i \in DOMAIN classes : classes[i] \in [class : Classes, level : 1..MaxLevel]
  BY SeqsAre DEF ClassList
<1>2. \A i \in DOMAIN classes : classes[i].class \in Classes /\ classes[i].level \in 1..MaxLevel
  BY <1>1
<1>3. \A i \in DOMAIN classes : hitDie[classes[i].class] \in Dice \cup {NoDie}
  BY <1>2
<1>4. Built(classes) \in [1..Len(classes) -> [die : Dice \cup {NoDie}, level : 1..MaxLevel]]
  BY <1>1, <1>2, <1>3 DEF Built
<1>5. Built(classes) \in ResolvedList
  BY <1>1, <1>4, SeqsMade DEF ResolvedList
<1>6. Matches(classes, Built(classes))
  BY DEF Matches, Built
<1> QED
  BY <1>5, <1>6

LEMMA ResolvedAre ==
    ASSUME NEW resolved \in ResolvedList
    PROVE  /\ Len(resolved) \in Nat /\ DOMAIN resolved = 1..Len(resolved)
           /\ \A i \in 1..Len(resolved) : /\ resolved[i].die \in Dice \cup {NoDie}
                                      /\ resolved[i].level \in 1..MaxLevel
<1>1. /\ Len(resolved) \in Nat /\ DOMAIN resolved = 1..Len(resolved)
      /\ \A i \in DOMAIN resolved : resolved[i] \in [die : Dice \cup {NoDie}, level : 1..MaxLevel]
  BY SeqsAre DEF ResolvedList
<1> QED
  BY <1>1

\* A die of the classes has at least one level.
LEMMA LevelsAre ==
    ASSUME NEW resolved \in ResolvedList, NEW die, Using(resolved, die) # {}
    PROVE  LevelsOf(resolved, die) \in Nat \ {0}
<1> DEFINE D == Using(resolved, die)
           f == [i \in D |-> resolved[i].level]
<1>1. D \in SUBSET (1..Len(resolved)) /\ Len(resolved) \in Nat
  BY ResolvedAre DEF Using
<1>2. IsFiniteSet(D)
  <2>1. IsFiniteSet(1..Len(resolved))
    BY <1>1, FS_Interval
  <2> HIDE DEF D
  <2> QED
    BY <1>1, <2>1, FS_Subset
<1>3. \A i \in D : resolved[i].level \in Nat \ {0}
  BY <1>1, ResolvedAre, SheetAssumption
<1>4. f \in [D -> Nat]
  BY <1>3
<1>5. LevelsOf(resolved, die) = Sum(f, D)
  BY <1>2, <1>3, LevelsIsSum
<1>6. PICK i \in D : TRUE
  OBVIOUS
<1>7. f[i] \in Nat \ {0}
  BY <1>3
<1> HIDE DEF f, D
<1>8. Sum(f, D) \in Nat /\ f[i] <= Sum(f, D)
  BY <1>2, <1>4, SumNat
<1> QED
  BY <1>5, <1>7, <1>8

\* hitDicePoolsFor: whatever was carried, the pools are those of the classes.
LEMMA PoolsForKeeps ==
    ASSUME NEW resolved \in ResolvedList, NEW carried \in Pools
    PROVE  /\ PoolsFor(resolved, carried) \in Pools
           /\ ShapedBy(PoolsFor(resolved, carried), resolved)
<1> DEFINE dice == DiceOf(resolved)
           S == {i \in DOMAIN carried : carried[i].die \notin Range(dice)}
           foreign == MapThenSumSet(LAMBDA i : NoLess(carried[i].spent, 0), S)
           fresh == {k \in DOMAIN dice : Using(carried, dice[k]) = {}}
           Spent(k) == IF k \notin fresh THEN carried[Min(Using(carried, dice[k]))].spent
                       ELSE IF k = Min(fresh) THEN foreign ELSE 0
           pools == PoolsFor(resolved, carried)
<1>1. CASE dice = <<>>
  BY <1>1 DEF PoolsFor, ShapedBy
<1>2. CASE dice # <<>>
  <2>1. pools = [k \in DOMAIN dice |->
                   LET total == NoLess(LevelsOf(resolved, dice[k]), 1)
                   IN  [die |-> dice[k], total |-> total,
                        spent |-> AtMost(NoLess(Spent(k), 0), total)]]
    BY <1>2 DEF PoolsFor
  <2>2. PICK N \in Nat :
          /\ DOMAIN dice = 1..N
          /\ \A k \in 1..N : dice[k] # NoDie /\ Using(resolved, dice[k]) # {}
          /\ \A k, l \in 1..N : dice[k] = dice[l] => k = l
    BY ResolvedAre, DiceAre
  <2>3. foreign \in Int
    <3> DEFINE f == [i \in S |-> NoLess(carried[i].spent, 0)]
    <3>1. S \in SUBSET DOMAIN carried /\ IsFiniteSet(DOMAIN carried)
      BY PoolsAre
    <3>2. \A i \in S : carried[i].spent \in Int
      BY PoolsAre
    <3> HIDE DEF S
    <3>3. IsFiniteSet(S)
      BY <3>1, FS_Subset
    <3>4. foreign = Sum(f, S)
      BY <3>2, <3>3, ClampedIsSum
    <3>5. f \in [S -> Int]
      BY <3>2 DEF NoLess
    <3> HIDE DEF f, foreign
    <3> QED
      BY <3>3, <3>4, <3>5, SumRec
  <2>4. ASSUME NEW k \in 1..N PROVE Spent(k) \in Int
    <3>1. CASE k \notin fresh
      <4>1. Using(carried, dice[k]) # {} /\ Using(carried, dice[k]) \subseteq DOMAIN carried
        BY <2>2, <3>1 DEF Using
      <4>2. DOMAIN carried \subseteq Nat
        BY PoolsAre
      <4>3. Min(Using(carried, dice[k])) \in DOMAIN carried
        BY <4>1, <4>2, LeastIsIn
      <4> QED
        BY <3>1, <4>3, PoolsAre
    <3>2. CASE k \in fresh
      BY <2>3, <3>2
    <3> QED
      BY <3>1, <3>2
  <2> HIDE DEF dice, pools, Spent
  <2>5. ASSUME NEW k \in 1..N
        PROVE  /\ pools[k] \in AnyPool /\ pools[k].spent <= pools[k].total
               /\ pools[k].die = dice[k] /\ pools[k].total = LevelsOf(resolved, dice[k])
    <3>1. LevelsOf(resolved, dice[k]) \in Nat \ {0}
      BY <2>2, LevelsAre
    <3>2. NoLess(LevelsOf(resolved, dice[k]), 1) = LevelsOf(resolved, dice[k])
      BY <3>1 DEF NoLess
    <3>3. dice[k] \in Dice
      <4>1. PICK i \in DOMAIN resolved : resolved[i].die = dice[k]
        BY <2>2 DEF Using
      <4> QED
        BY <2>2, <4>1, ResolvedAre
    <3>4. AtMost(NoLess(Spent(k), 0), LevelsOf(resolved, dice[k])) \in 0..LevelsOf(resolved, dice[k])
      BY <2>4, <3>1 DEF AtMost, NoLess
    <3>5. pools[k] = [die |-> dice[k], total |-> LevelsOf(resolved, dice[k]),
                      spent |-> AtMost(NoLess(Spent(k), 0), LevelsOf(resolved, dice[k]))]
      BY <2>1, <2>2, <3>2
    <3> QED
      BY <3>1, <3>3, <3>4, <3>5 DEF AnyPool
  <2>6. pools \in [1..N -> AnyPool] /\ DOMAIN pools = 1..N
    BY <2>1, <2>2, <2>5
  <2>7. pools \in Pools
    BY <2>2, <2>5, <2>6, SeqsMade DEF Pools
  <2>8. ShapedBy(pools, resolved)
    BY <2>2, <2>5, <2>6 DEF ShapedBy, dice
  <2> QED
    BY <2>7, <2>8 DEF pools
<1> QED
  BY <1>1, <1>2

\* A level's die joins its pool, or starts one.
LEMMA GainKeeps ==
    ASSUME NEW pools \in Pools, NEW die \in Dice, NEW level \in Nat \ {0}
    PROVE  Gain(pools, die, level) \in Pools
<1> DEFINE new == Gain(pools, die, level)
<1>0. /\ Len(pools) \in Nat /\ DOMAIN pools = 1..Len(pools)
      /\ pools \in Seq(AnyPool) /\ \A i \in DOMAIN pools : pools[i] \in AnyPool
  BY PoolsAre DEF Pools
<1>1. CASE pools = <<>>
  <2> DEFINE p == [die |-> die, total |-> level, spent |-> 0]
  <2>1. new = <<p>>
    BY <1>1 DEF Gain
  <2>2. p \in AnyPool
    BY DEF AnyPool
  <2> HIDE DEF p
  <2>3. <<p>> \in [1..1 -> AnyPool]
    BY <2>2
  <2> QED
    BY <2>1, <2>3, SeqsMade DEF Pools
<1>2. CASE pools # <<>> /\ Using(pools, die) = {}
  <2> DEFINE p == [die |-> die, total |-> 1, spent |-> 0]
  <2>1. new = Append(pools, p)
    BY <1>2 DEF Gain
  <2>2. p \in AnyPool
    BY DEF AnyPool
  <2> HIDE DEF p, new
  <2> QED
    BY <1>0, <2>1, <2>2, AppendProperties DEF Pools, new
<1>3. CASE pools # <<>> /\ Using(pools, die) # {}
  <2>1. new = [i \in DOMAIN pools |->
                 IF pools[i].die = die THEN [pools[i] EXCEPT !.total = @ + 1] ELSE pools[i]]
    BY <1>3 DEF Gain
  <2>2. ASSUME NEW i \in DOMAIN pools
        PROVE  new[i] \in AnyPool
    <3>1. pools[i] \in [die : Dice, total : Nat, spent : Nat]
      BY <1>0 DEF AnyPool
    <3>2. new[i] = IF pools[i].die = die THEN [pools[i] EXCEPT !.total = pools[i].total + 1]
                   ELSE pools[i]
      BY <2>1
    <3> HIDE DEF new
    <3> QED
      BY <3>1, <3>2 DEF AnyPool
  <2>3. new \in [1..Len(pools) -> AnyPool] /\ DOMAIN new = DOMAIN pools
    BY <1>0, <2>1, <2>2
  <2>4. new \in Seq(AnyPool)
    BY <1>0, <2>3, SeqsMade
  <2> QED
    BY <2>4 DEF Pools
<1> QED
  BY <1>1, <1>2, <1>3

\* A short rest heals with no more dice than it adds to those spent: the pool it
\* spends from has them left, and no other pool of the die takes any back.
LEMMA HealingIs ==
    ASSUME NEW pools \in Pools, NEW dice \in Nat, ShortRestPool(pools) # 0,
           dice <= pools[ShortRestPool(pools)].total - pools[ShortRestPool(pools)].spent
    PROVE  /\ RestPools(pools, dice) \in Pools /\ SameShape(RestPools(pools, dice), pools)
           /\ HitDiceSpent(RestPools(pools, dice)) \in Int /\ HitDiceSpent(pools) \in Int
           /\ Healing(pools, dice) \in Nat
           /\ Paired(pools) =>
                Healing(pools, dice) <= HitDiceSpent(RestPools(pools, dice)) - HitDiceSpent(pools)
<1> DEFINE at == ShortRestPool(pools)
           D == DOMAIN pools
           new == RestPools(pools, dice)
           f == [i \in D |-> pools[i].spent]
           h == [i \in D |-> new[i].spent]
<1>1. at \in D
  <2>1. /\ {i \in D : pools[i].spent < pools[i].total} # {}
        /\ at = Min({i \in D : pools[i].spent < pools[i].total})
    BY DEF ShortRestPool
  <2>2. D \subseteq Nat
    BY PoolsAre
  <2> QED
    BY <2>1, <2>2, LeastIsIn
<1>2. /\ new \in Pools /\ SameShape(new, pools) /\ DOMAIN new = D
      /\ \A i \in D : new[i].spent = IF pools[i].die # pools[at].die THEN pools[i].spent
                                      ELSE NoLess(AtMost(pools[i].spent + dice, pools[i].total), 0)
  BY AdjustKeeps DEF SameShape, RestPools
<1>3. IsFiniteSet(D) /\ \A i \in D : pools[i].spent \in Nat /\ pools[i].total \in Nat
  BY PoolsAre
<1>4. \A i \in D : new[i].spent \in Nat
  BY <1>2, PoolsAre
<1>5. Paired(pools) => \A i \in D : pools[i].spent <= new[i].spent
  <2> SUFFICES ASSUME Paired(pools), NEW i \in D PROVE pools[i].spent <= new[i].spent
    OBVIOUS
  <2>1. pools[i].die = pools[at].die => pools[i].spent <= pools[i].total
    <3>1. pools[at].spent <= pools[at].total
      BY <1>1, <1>3
    <3> QED
      BY <3>1, <1>1 DEF Paired
  <2> HIDE DEF at, new
  <2> QED
    BY <2>1, <1>2, <1>3 DEF AtMost, NoLess
<1>6. HitDiceSpent(pools) = Sum(f, D)
  BY <1>3, SpentIsSum
<1> HIDE DEF at, new
<1>7. HitDiceSpent(new) = Sum(h, D)
  BY <1>2, <1>3, <1>4, SpentIsSum
<1>8. f \in [D -> Int] /\ h \in [D -> Int] /\ (Paired(pools) => \A i \in D : f[i] <= h[i])
  BY <1>3, <1>4, <1>5
<1> HIDE DEF f, h, D
<1>9. Sum(f, D) \in Int /\ Sum(h, D) \in Int /\ (Paired(pools) => Sum(f, D) <= Sum(h, D))
  BY <1>3, <1>8, SumRec, SumGrows
<1>10. HitDiceSpent(new) \in Int /\ HitDiceSpent(pools) \in Int
       /\ (Paired(pools) => HitDiceSpent(pools) <= HitDiceSpent(new))
  BY <1>6, <1>7, <1>9
<1> DEFINE allowed == HitDiceSpent(new) - HitDiceSpent(pools)
<1>11. Healing(pools, dice) = IF allowed < 0 THEN NoLess(dice + allowed, 0) ELSE AtMost(dice, allowed)
  BY DEF Healing, new
<1>12. allowed \in Int /\ (Paired(pools) => allowed >= 0)
  BY <1>10
<1> HIDE DEF allowed
<1>13. Healing(pools, dice) \in Nat /\ (Paired(pools) => Healing(pools, dice) <= allowed)
  BY <1>11, <1>12 DEF NoLess, AtMost
<1> QED
  BY <1>2, <1>10, <1>13 DEF new, allowed

\* The first class of a list that sums to less than the cap can gain a level.
LEMMA ClassGains ==
    ASSUME NEW classes \in ClassList, classes # <<>>, LevelOf(classes) < MaxLevel
    PROVE  [classes EXCEPT ![1].level = @ + 1] \in ClassList
<1> DEFINE D == DOMAIN classes
           f == [i \in D |-> classes[i].level]
<1>1. /\ Len(classes) \in Nat /\ D = 1..Len(classes) /\ IsFiniteSet(D) /\ 1 \in D
      /\ \A i \in D : classes[i] \in [class : Classes, level : 1..MaxLevel]
  BY SeqsAre DEF ClassList
<1>2. \A i \in D : classes[i].level \in 1..MaxLevel
  BY <1>1
<1>3. f \in [D -> Nat] /\ f[1] = classes[1].level
  BY <1>1, <1>2, SheetAssumption
<1>4. LevelOf(classes) = Sum(f, D)
  <2>1. \A i \in D : classes[i].level \in Int
    BY <1>2, SheetAssumption
  <2> QED
    BY <1>1, <2>1, LevelOfIsSum
<1> HIDE DEF f
<1>5. classes[1].level <= LevelOf(classes) /\ LevelOf(classes) \in Nat
  BY <1>1, <1>3, <1>4, SumNat
<1>6. classes[1].level + 1 \in 1..MaxLevel
  BY <1>1, <1>2, <1>5, SheetAssumption
<1> DEFINE new == [classes[1] EXCEPT !.level = classes[1].level + 1]
<1>7. new \in [class : Classes, level : 1..MaxLevel]
  BY <1>1, <1>6
<1>8. [classes EXCEPT ![1].level = @ + 1] = [classes EXCEPT ![1] = new]
  OBVIOUS
<1> HIDE DEF new
<1>9. [classes EXCEPT ![1] = new] \in ClassList
  BY <1>1, <1>7, ExceptSeq DEF ClassList
<1> QED
  BY <1>8, <1>9

-----------------------------------------------------------------------------
(* The invariant.                                                           *)

\* What may be sent, column by column.
Patched(patch) ==
    /\ DOMAIN patch \subseteq {"classes", "level", "pools", "wounds"}
    /\ "classes" \in DOMAIN patch => patch.classes \in ClassList
    /\ "level" \in DOMAIN patch => patch.level \in 1..MaxLevel
    /\ "pools" \in DOMAIN patch => patch.pools \in Pools
    /\ "wounds" \in DOMAIN patch => patch.wounds \in 0..MaxWounds

\* A sheet whose class levels sum to its level.
Good(s) == s \in Sheet /\ AddsUp(s)

\* A tab shows the row as it is or as it was, and knows by its version which.
Seen(s) ==
    /\ Good(s) /\ s.version <= row.version
    /\ s.version = row.version => s = row

Paid(s, new) ==
    Paired(s.pools) =>
    s.wounds - new.wounds <= MaxHeal * (HitDiceSpent(new.pools) - HitDiceSpent(s.pools))

Fields == {"at", "tab", "of", "kind", "expected", "patch", "built", "up", "label", "kept"}

Asked(r) ==
    LET q == req[r] IN
    /\ DOMAIN q = Fields /\ q.at \in Stage /\ q.kind \in Kind \cup {None}
    /\ {q.tab, q.of} \subseteq Tabs \cup {None}
    /\ Pending(r) => Patched(q.patch) /\ q.expected \in Nat /\ q.expected <= row.version
    /\ q.built \in ResolvedList
    /\ q.at \in {"sent", "read"} => q.kept = {}
    /\ q.at = "captured" => q.up

\* What was decided on the row as it still is: a request that was decided on an
\* older row is refused by its version.
Decided(r) ==
    LET q == req[r] IN
    Pending(r) /\ q.expected = row.version =>
      /\ q.at # "sent" \/ ~Resolves(q.patch) =>
           /\ Good(With(row, q.patch))
           /\ Resolved(With(row, q.patch), IF Resolves(q.patch) THEN q.built ELSE built)
      /\ q.at # "sent" => q.up = LevelsUp(row, q.patch) /\ q.label = row.level
      /\ q.at = "captured" =>
           q.kept = {[version |-> row.version, level |-> row.level, label |-> row.level]}
      /\ q.kind = "short" => ~Resolves(q.patch) /\ Paid(row, With(row, q.patch))

\* A tab waits for one request at a time, and for that of its form on its form.
Awaited(r) ==
    LET t == req[r].tab IN
    t # None =>
      /\ saving[t]
      /\ req[r].kind = "edit" => form[t] # None
      /\ \A q \in Requests : req[q].tab = t => q = r

\* A write of an open dialog raises the level its tab showed, if the tab still
\* shows that version; a dialog that has raised the level is behind the row.
Owned(r) ==
    LET q == req[r]
        t == q.of
    IN  t # None =>
          /\ Pending(r) /\ "level" \in DOMAIN q.patch
          /\ dialog[t] # Closed /\ q.expected <= view[t].version
          /\ q.expected = view[t].version =>
               q.patch.level = view[t].level + 1 /\ dialog[t] = view[t].level + 1

Dialog(t) ==
    /\ form[t] # None => dialog[t] = Closed
    /\ dialog[t] # Closed => view[t].level < MaxLevel
    /\ gained[t] # 0 =>
         /\ gained[t] = 1 /\ dialog[t] = view[t].level + 1 /\ row.level >= dialog[t]
         /\ view[t].version < row.version

IInv ==
    /\ hitDie \in [Classes -> Dice \cup {NoDie}]
    /\ Good(row) /\ built \in ResolvedList /\ Resolved(row, built)
    /\ view = [t \in Tabs |-> view[t]] /\ form = [t \in Tabs |-> form[t]]
    /\ saving \in [Tabs -> BOOLEAN]
    /\ dialog \in [Tabs -> Closed..MaxLevel]
    /\ gained \in [Tabs -> Nat]
    /\ req = [r \in Requests |-> req[r]]
    /\ \A t \in Tabs : Seen(view[t]) /\ (form[t] # None => Seen(form[t])) /\ Dialog(t)
    /\ \A r \in Requests : Asked(r) /\ Decided(r) /\ Awaited(r) /\ Owned(r)
-----------------------------------------------------------------------------
(* Patches. *)

\* Writing a patch over a sheet, column by column.
LEMMA WithIs ==
    ASSUME NEW s, s \in Sheet, s.pools \in Pools, NEW patch, Patched(patch)
    PROVE  /\ With(s, patch).version = s.version
           /\ With(s, patch).classes = IF "classes" \in DOMAIN patch THEN patch.classes ELSE s.classes
           /\ With(s, patch).level = IF "level" \in DOMAIN patch THEN patch.level ELSE s.level
           /\ With(s, patch).pools = IF "pools" \in DOMAIN patch THEN patch.pools ELSE s.pools
           /\ With(s, patch).wounds = IF "wounds" \in DOMAIN patch THEN patch.wounds ELSE s.wounds
           /\ With(s, patch) \in Sheet /\ With(s, patch).pools \in Pools
           /\ With(s, patch).classes \in ClassList
<1> DEFINE new == With(s, patch)
<1>1. s \in [version : Nat, classes : ClassList, level : 1..MaxLevel,
             pools : Seq(AnyPool), wounds : 0..MaxWounds]
  BY DEF Sheet, ClassList
<1>2. DOMAIN s \cup DOMAIN patch = {"version", "classes", "level", "pools", "wounds"}
  BY <1>1 DEF Patched
<1>3. new = [f \in {"version", "classes", "level", "pools", "wounds"} |->
               IF f \in DOMAIN patch THEN patch[f] ELSE s[f]]
  BY <1>2 DEF With
<1> HIDE DEF new
<1>4. /\ new.version = s.version
      /\ new.classes = IF "classes" \in DOMAIN patch THEN patch.classes ELSE s.classes
      /\ new.level = IF "level" \in DOMAIN patch THEN patch.level ELSE s.level
      /\ new.pools = IF "pools" \in DOMAIN patch THEN patch.pools ELSE s.pools
      /\ new.wounds = IF "wounds" \in DOMAIN patch THEN patch.wounds ELSE s.wounds
  BY <1>3 DEF Patched
<1>5. /\ new.classes \in ClassList /\ new.level \in 1..MaxLevel /\ new.pools \in Pools
      /\ new.wounds \in 0..MaxWounds /\ new.version \in Nat
  BY <1>1, <1>4 DEF Patched
<1>6. new = [version |-> new.version, classes |-> new.classes, level |-> new.level,
             pools |-> new.pools, wounds |-> new.wounds]
  BY <1>3
<1>7. new.pools \in Seq(AnyPool)
  BY <1>5 DEF Pools
<1>8. new \in [version : Nat, classes : ClassList, level : 1..MaxLevel,
              pools : Seq(AnyPool), wounds : 0..MaxWounds]
  BY <1>5, <1>6, <1>7
<1>9. new \in Sheet
  BY <1>8 DEF Sheet, ClassList
<1> QED
  BY <1>4, <1>5, <1>9 DEF new

LEMMA SheetIs ==
    ASSUME NEW s, Good(s)
    PROVE  /\ s.version \in Nat /\ s.classes \in ClassList /\ s.level \in 1..MaxLevel
           /\ s.pools \in Pools /\ s.wounds \in 0..MaxWounds
           /\ DOMAIN s = {"version", "classes", "level", "pools", "wounds"}
           /\ s \in Sheet /\ AddsUp(s)
  BY DEF Good, Sheet, ClassList, Pools

\* A patch that leaves classes and level alone, and the dice with their totals,
\* leaves a sheet that adds up and pools of the same classes.
LEMMA ShapeKept ==
    ASSUME NEW s, Good(s), NEW patch, Patched(patch), ~Resolves(patch),
           "pools" \in DOMAIN patch => SameShape(patch.pools, s.pools)
    PROVE  /\ Good(With(s, patch))
           /\ \A dice : Resolved(s, dice) => Resolved(With(s, patch), dice)
<1> DEFINE new == With(s, patch)
<1>1. /\ new.classes = s.classes /\ new.level = s.level
      /\ new.pools = s.pools \/ SameShape(new.pools, s.pools)
      /\ new \in Sheet
  BY SheetIs, WithIs DEF Resolves
<1> HIDE DEF new
<1>2. AddsUp(new)
  BY <1>1 DEF Good, AddsUp
<1>3. ASSUME NEW dice, Resolved(s, dice) PROVE Resolved(new, dice)
  <2>1. Matches(new.classes, dice)
    BY <1>1, <1>3 DEF Resolved
  <2>2. ShapedBy(new.pools, dice)
    BY <1>1, <1>3 DEF Resolved, ShapedBy, SameShape
  <2> QED
    BY <2>1, <2>2 DEF Resolved
<1> QED
  BY <1>1, <1>2, <1>3 DEF Good, new

\* update rebuilds the pools for the classes the row is to have.
LEMMA RebuiltIs ==
    ASSUME hitDie \in [Classes -> Dice \cup {NoDie}], NEW s, Good(s), NEW patch, Patched(patch)
    PROVE  /\ Patched(Rebuilt(s, patch))
           /\ Resolves(Rebuilt(s, patch)) <=> Resolves(patch)
           /\ ~Resolves(patch) => Rebuilt(s, patch) = patch
           /\ "level" \in DOMAIN Rebuilt(s, patch) <=> "level" \in DOMAIN patch
           /\ "level" \in DOMAIN patch => Rebuilt(s, patch).level = patch.level
           /\ Built(With(s, patch).classes) \in ResolvedList
           /\ Resolves(patch) =>
                Resolved(With(s, Rebuilt(s, patch)), Built(With(s, patch).classes))
           /\ Resolves(patch) /\ AddsUp(With(s, patch)) => Good(With(s, Rebuilt(s, patch)))
<1>0. Built(With(s, patch).classes) \in ResolvedList
  BY SheetIs, WithIs, BuiltIs
<1>1. CASE ~Resolves(patch)
  BY <1>0, <1>1 DEF Rebuilt
<1>2. CASE Resolves(patch)
  <2> DEFINE sent == With(s, patch)
             pools == PoolsFor(Built(sent.classes), sent.pools)
             new == Rebuilt(s, patch)
  <2>1. /\ sent.classes \in ClassList /\ sent.pools \in Pools
        /\ sent.classes = IF "classes" \in DOMAIN patch THEN patch.classes ELSE s.classes
        /\ sent.level = IF "level" \in DOMAIN patch THEN patch.level ELSE s.level
    BY SheetIs, WithIs
  <2>2. /\ pools \in Pools /\ ShapedBy(pools, Built(sent.classes))
        /\ Matches(sent.classes, Built(sent.classes))
    BY <2>1, BuiltIs, PoolsForKeeps
  <2>3. new = With(patch, [pools |-> pools])
    BY <1>2 DEF Rebuilt
  <2> HIDE DEF pools, new, sent
  <2>4. DOMAIN [pools |-> pools] = {"pools"} /\ [pools |-> pools]["pools"] = pools
    OBVIOUS
  <2>5. /\ DOMAIN new = DOMAIN patch \cup {"pools"} /\ new.pools = pools
        /\ \A f \in DOMAIN patch \ {"pools"} : new[f] = patch[f]
    BY <2>3, <2>4 DEF With
  <2>6. /\ "classes" \in DOMAIN patch => new.classes = patch.classes
        /\ "level" \in DOMAIN patch => new.level = patch.level
        /\ "wounds" \in DOMAIN patch => new.wounds = patch.wounds
    BY <2>5
  <2>7. Patched(new)
    BY <2>2, <2>5, <2>6 DEF Patched
  <2>8. Resolves(new)
    BY <1>2, <2>5 DEF Resolves
  <2>9. /\ With(s, new).classes = sent.classes /\ With(s, new).level = sent.level
        /\ With(s, new).pools = pools /\ With(s, new) \in Sheet
    BY <2>1, <2>5, <2>6, <2>7, SheetIs, WithIs
  <2>10. Resolved(With(s, new), Built(sent.classes))
    BY <2>2, <2>9 DEF Resolved
  <2>11. AddsUp(sent) => Good(With(s, new))
    BY <2>9 DEF Good, AddsUp
  <2> QED
    BY <1>0, <1>2, <2>5, <2>6, <2>7, <2>8, <2>10, <2>11 DEF new, sent
<1> QED
  BY <1>1, <1>2
-----------------------------------------------------------------------------
(* The requests. *)

\* None is no tab, so nobody waits for a request with no tab.
LEMMA NotATab == None \notin Tabs
  BY SheetAssumption

\* One record is replaced.
LEMMA OneRequest ==
    ASSUME NEW f, f = [q \in Requests |-> f[q]], NEW r \in Requests, NEW rec,
           NEW g, g = [f EXCEPT ![r] = rec]
    PROVE  /\ g = [q \in Requests |-> g[q]] /\ g[r] = rec
           /\ \A q \in Requests : q # r => g[q] = f[q]
  OBVIOUS

\* A request that stays where it is, while the row does.
LEMMA StaysDecided ==
    ASSUME NEW r \in Requests, Asked(r), Decided(r), row' = row, built' = built,
           req'[r] = req[r]
    PROVE  Asked(r)' /\ Decided(r)'
  BY DEF Asked, Decided, Pending

\* A request that is free or answered has nothing left to decide.
LEMMA OverIs ==
    ASSUME NEW r \in Requests, NEW at \in {"idle", "saved", "conflict", "refused"},
           req'[r].at = at, DOMAIN req'[r] = Fields, req'[r].kind \in Kind \cup {None},
           req'[r].built \in ResolvedList,
           req'[r].tab \in Tabs \cup {None}, req'[r].of = None
    PROVE  Asked(r)' /\ Decided(r)' /\ Owned(r)'
  BY DEF Asked, Decided, Owned, Pending, Stage

LEMMA IdleIs ==
    /\ DOMAIN Idle = Fields /\ Idle.at = "idle" /\ Idle.kind = None
    /\ Idle.tab = None /\ Idle.of = None /\ Idle.kept = {} /\ Idle.up = FALSE
    /\ Idle.built \in ResolvedList
<1>1. <<>> \in ResolvedList
  BY DEF ResolvedList
<1> QED
  BY <1>1 DEF Idle, Fields

LEMMA DoneIs ==
    ASSUME NEW r \in Requests, Asked(r), NEW at \in {"saved", "conflict", "refused"}
    PROVE  /\ DOMAIN Done(r, at) = Fields /\ Done(r, at).at \in {"idle", at}
           /\ Done(r, at).kind \in Kind \cup {None} /\ Done(r, at).built \in ResolvedList
           /\ Done(r, at).tab = req[r].tab /\ Done(r, at).of = None
           /\ Done(r, at).tab # None => Done(r, at).kind = req[r].kind
<1>1. CASE req[r].tab = None
  BY <1>1, IdleIs DEF Done, Asked
<1>2. CASE req[r].tab # None
  BY <1>2, IdleIs DEF Done, Asked, Idle, Fields
<1> QED
  BY <1>1, <1>2

\* A request is sent, or moves on; its tab is told or gives it up.
LEMMA SendKeeps ==
    ASSUME IInv, NEW t \in Tabs, NEW kind \in Kind, NEW patch, Patched(patch),
           Send(t, kind, patch), UNCHANGED <<hitDie, row, built, snapshots, view, form, gained>>,
           \/ dialog' = dialog
           \/ /\ kind = "level" /\ form[t] = None
              /\ dialog' = [dialog EXCEPT ![t] = view[t].level + 1],
           kind = "level" =>
             /\ "level" \in DOMAIN patch /\ patch.level = view[t].level + 1
             /\ dialog'[t] = view[t].level + 1 /\ dialog[t] # Closed,
           kind = "edit" => form[t] # None,
           ~Resolves(patch) /\ view[t] = row =>
             Good(With(row, patch)) /\ Resolved(With(row, patch), built),
           kind = "short" => ~Resolves(patch) /\ (view[t] = row => Paid(row, With(row, patch)))
    PROVE  IInv'
<1> DEFINE rec == [Idle EXCEPT !.at = "sent", !.tab = t, !.of = IF kind = "level" THEN t ELSE None,
                           !.kind = kind, !.expected = view[t].version, !.patch = patch]
<1>1. PICK r \in Requests : req[r] = Idle /\ req' = [req EXCEPT ![r] = rec]
  BY DEF Send
<1>2. ~saving[t] /\ saving' = [saving EXCEPT ![t] = TRUE]
  BY DEF Send
<1>3. /\ DOMAIN rec = Fields /\ rec.at = "sent" /\ rec.tab = t
      /\ rec.of = IF kind = "level" THEN t ELSE None
      /\ rec.kind = kind /\ rec.expected = view[t].version /\ rec.patch = patch
      /\ rec.up = FALSE /\ rec.kept = {} /\ rec.built \in ResolvedList
  BY IdleIs DEF Idle, Fields
<1> HIDE DEF rec
<1>4. /\ req' = [q \in Requests |-> req'[q]] /\ req'[r] = rec
      /\ \A q \in Requests : q # r => req'[q] = req[q]
  BY <1>1, OneRequest DEF IInv
<1>5. /\ Seen(view[t]) /\ Good(view[t]) /\ view[t].version \in Nat /\ view[t].level \in 1..MaxLevel
      /\ Dialog(t)
  BY SheetIs DEF IInv, Seen
<1>6. row.version \in Nat /\ Good(row)
  BY SheetIs DEF IInv
<1>7. Asked(r)'
  BY <1>3, <1>4, <1>5, <1>6 DEF Asked, Pending, Stage, Seen
<1>8. Decided(r)'
  BY <1>3, <1>4, <1>5 DEF Decided, Pending, Seen
<1>9. \A q \in Requests : q # r => Asked(q)' /\ Decided(q)'
  BY <1>4, StaysDecided DEF IInv
<1>10. saving' \in [Tabs -> BOOLEAN] /\ saving'[t] /\ \A u \in Tabs : saving[u] => saving'[u]
  BY <1>2 DEF IInv
<1>11. \A q \in Requests : req[q].tab # t
  BY <1>2, NotATab DEF IInv, Awaited
<1>12. \A q \in Requests : q # r => Awaited(q)'
  <2> SUFFICES ASSUME NEW q \in Requests, q # r, req[q].tab # None
               PROVE  Awaited(q)'
    BY <1>4 DEF Awaited
  <2>1. Awaited(q) /\ req[q].tab \in Tabs
    BY DEF IInv, Asked
  <2> QED
    BY <2>1, <1>3, <1>4, <1>10, <1>11 DEF Awaited
<1>13. Awaited(r)'
  BY <1>3, <1>4, <1>10, <1>11 DEF Awaited
<1>14. dialog' \in [Tabs -> Closed..MaxLevel] /\ \A u \in Tabs : u # t => dialog'[u] = dialog[u]
  BY <1>5, SheetAssumption DEF IInv, Dialog, Closed
<1>15. \/ dialog'[t] = dialog[t]
       \/ form[t] = None /\ dialog'[t] = view[t].level + 1 /\ dialog[t] # Closed
  BY DEF IInv
<1>16. \A u \in Tabs : Dialog(u)'
  <2> SUFFICES ASSUME NEW u \in Tabs PROVE Dialog(u)'
    OBVIOUS
  <2>1. Dialog(u)
    BY DEF IInv
  <2> QED
    BY <2>1, <1>5, <1>14, <1>15 DEF Dialog
<1>17. \A q \in Requests : Owned(q)'
  <2>1. ASSUME NEW q \in Requests, q # r PROVE Owned(q)'
    <3>1. Owned(q) /\ req[q].of \in Tabs \cup {None} /\ req'[q] = req[q]
      BY <2>1, <1>4 DEF IInv, Asked
    <3>2. Pending(q)' = Pending(q)
      BY <3>1 DEF Pending
    <3>3. view[t].level + 1 # Closed
      BY <1>5, SheetAssumption DEF Closed
    <3> QED
      BY <3>1, <3>2, <3>3, <1>14, <1>15 DEF Owned
  <2>2. Owned(r)'
    <3>1. view[t].level + 1 # Closed
      BY <1>5, SheetAssumption DEF Closed
    <3> QED
      BY <3>1, <1>3, <1>4, <1>5 DEF Owned, Pending
  <2> QED
    BY <2>1, <2>2
<1>18. \A u \in Tabs : Seen(view[u])' /\ (form[u] # None => Seen(form[u]))'
  BY DEF IInv, Seen
<1> QED
  BY <1>4, <1>7, <1>8, <1>9, <1>10, <1>12, <1>13, <1>14, <1>16, <1>17, <1>18 DEF IInv
-----------------------------------------------------------------------------
(* The tab. *)

\* What the tab shows, while the invariant holds.
LEMMA Shown ==
    ASSUME IInv, NEW t \in Tabs
    PROVE  /\ Good(view[t]) /\ view[t] \in Sheet /\ view[t].pools \in Pools
           /\ view[t] = row => Resolved(view[t], built)
           /\ view[t].version \in Nat /\ view[t].classes \in ClassList
           /\ view[t].level \in 1..MaxLevel /\ view[t].wounds \in 0..MaxWounds
  BY SheetIs DEF IInv, Seen

LEMMA HurtKeeps ==
    ASSUME IInv, NEW t \in Tabs, Hurt(t)
    PROVE  IInv'
<1> DEFINE patch == [wounds |-> view[t].wounds + 1]
<1>1. Send(t, "hurt", patch) /\ UNCHANGED <<hitDie, row, built, snapshots, view, form, gained>> /\ dialog' = dialog
  BY DEF Hurt, Play
<1>2. DOMAIN patch = {"wounds"} /\ patch.wounds = view[t].wounds + 1
  OBVIOUS
<1>3. view[t].wounds + 1 \in 0..MaxWounds
  BY Shown, SheetAssumption DEF Hurt
<1> HIDE DEF patch
<1>4. Patched(patch) /\ ~Resolves(patch)
  BY <1>2, <1>3 DEF Patched, Resolves
<1>5. view[t] = row => Good(With(row, patch)) /\ Resolved(With(row, patch), built)
  BY <1>2, <1>4, Shown, ShapeKept
<1> QED
  BY <1>1, <1>4, <1>5, SendKeeps DEF Kind

LEMMA SpendDieKeeps ==
    ASSUME IInv, NEW t \in Tabs, NEW die \in Dice, NEW delta \in {1, -1}, SpendDie(t, die, delta)
    PROVE  IInv'
<1> DEFINE pools == AdjustSpent(view[t].pools, die, delta)
           patch == [pools |-> pools]
<1>1. Send(t, "die", patch) /\ UNCHANGED <<hitDie, row, built, snapshots, view, form, gained>> /\ dialog' = dialog
  BY DEF SpendDie, Play
<1>2. pools \in Pools /\ SameShape(pools, view[t].pools)
  BY Shown, AdjustKeeps
<1> HIDE DEF pools
<1>3. DOMAIN patch = {"pools"} /\ patch.pools = pools
  OBVIOUS
<1> HIDE DEF patch
<1>4. Patched(patch) /\ ~Resolves(patch)
  BY <1>2, <1>3 DEF Patched, Resolves
<1>5. view[t] = row => Good(With(row, patch)) /\ Resolved(With(row, patch), built)
  BY <1>2, <1>3, <1>4, Shown, ShapeKept
<1> QED
  BY <1>1, <1>4, <1>5, SendKeeps DEF Kind

\* A short rest heals what the dice it spends are worth.
LEMMA ShortRestPaid ==
    ASSUME NEW s, Good(s), NEW dice \in Nat, NEW healed \in Nat,
           ShortRestPool(s.pools) # 0,
           dice <= s.pools[ShortRestPool(s.pools)].total - s.pools[ShortRestPool(s.pools)].spent,
           healed <= MaxHeal * Healing(s.pools, dice)
    PROVE  /\ Patched(ShortRestPatch(s, dice, healed)) /\ ~Resolves(ShortRestPatch(s, dice, healed))
           /\ SameShape(ShortRestPatch(s, dice, healed).pools, s.pools)
           /\ Paid(s, With(s, ShortRestPatch(s, dice, healed)))
<1> DEFINE pools == RestPools(s.pools, dice)
           worth == Healing(s.pools, dice)
           patch == ShortRestPatch(s, dice, healed)
<1>1. s.pools \in Pools /\ s.wounds \in 0..MaxWounds /\ s \in Sheet /\ MaxWounds \in Nat /\ MaxHeal \in Nat
  BY SheetIs, SheetAssumption
<1>2. /\ pools \in Pools /\ SameShape(pools, s.pools)
      /\ HitDiceSpent(pools) \in Int /\ HitDiceSpent(s.pools) \in Int /\ worth \in Nat
      /\ Paired(s.pools) => worth <= HitDiceSpent(pools) - HitDiceSpent(s.pools)
  BY <1>1, HealingIs
<1>3. patch = IF healed = 0 THEN [pools |-> pools]
              ELSE [pools |-> pools, wounds |-> NoLess(s.wounds - healed, 0)]
  BY DEF ShortRestPatch
<1> HIDE DEF pools, patch, worth
<1>4. /\ DOMAIN patch = IF healed = 0 THEN {"pools"} ELSE {"pools", "wounds"}
      /\ patch.pools = pools
      /\ "wounds" \in DOMAIN patch => patch.wounds = NoLess(s.wounds - healed, 0)
  BY <1>3
<1>5. NoLess(s.wounds - healed, 0) \in 0..MaxWounds /\ s.wounds - NoLess(s.wounds - healed, 0) <= healed
  BY <1>1 DEF NoLess
<1>6. Patched(patch) /\ ~Resolves(patch)
  BY <1>2, <1>4, <1>5 DEF Patched, Resolves
<1>7. /\ With(s, patch).pools = pools
      /\ With(s, patch).wounds = IF healed = 0 THEN s.wounds ELSE NoLess(s.wounds - healed, 0)
  BY <1>1, <1>4, <1>6, WithIs
<1>8. s.wounds - With(s, patch).wounds <= healed /\ With(s, patch).wounds \in Int
  BY <1>1, <1>5, <1>7
<1>9. ASSUME Paired(s.pools)
      PROVE  healed <= MaxHeal * (HitDiceSpent(pools) - HitDiceSpent(s.pools))
  <2> DEFINE more == HitDiceSpent(pools) - HitDiceSpent(s.pools)
  <2>1. more \in Int /\ worth <= more
    BY <1>2, <1>9
  <2> HIDE DEF more
  <2>2. MaxHeal * worth <= MaxHeal * more
    BY <1>1, <1>2, <2>1
  <2>3. MaxHeal * worth \in Int /\ MaxHeal * more \in Int /\ healed <= MaxHeal * worth
    BY <1>1, <1>2, <2>1 DEF worth
  <2>4. healed <= MaxHeal * more
    BY <2>2, <2>3
  <2> QED
    BY <2>4 DEF more
<1>10. Paid(s, With(s, patch))
  <2> SUFFICES ASSUME Paired(s.pools)
               PROVE  s.wounds - With(s, patch).wounds
                        <= MaxHeal * (HitDiceSpent(pools) - HitDiceSpent(s.pools))
    BY <1>7 DEF Paid
  <2>1. MaxHeal * (HitDiceSpent(pools) - HitDiceSpent(s.pools)) \in Int
    BY <1>1, <1>2
  <2> QED
    BY <2>1, <1>1, <1>8, <1>9
<1> QED
  BY <1>2, <1>4, <1>6, <1>10 DEF patch

LEMMA ShortRestKeeps ==
    ASSUME IInv, NEW t \in Tabs, NEW dice \in 1..MaxLevel, NEW healed \in 0..(MaxHeal * MaxLevel),
           ShortRest(t, dice, healed)
    PROVE  IInv'
<1> DEFINE patch == ShortRestPatch(view[t], dice, healed)
<1>1. Send(t, "short", patch) /\ UNCHANGED <<hitDie, row, built, snapshots, view, form, gained>> /\ dialog' = dialog
  BY DEF ShortRest, Play
<1>2. dice \in Nat /\ healed \in Nat
  BY SheetAssumption
<1>3. /\ Patched(patch) /\ ~Resolves(patch)
      /\ SameShape(patch.pools, view[t].pools) /\ Paid(view[t], With(view[t], patch))
  BY <1>2, Shown, ShortRestPaid DEF ShortRest
<1> HIDE DEF patch
<1>4. view[t] = row => Good(With(row, patch)) /\ Resolved(With(row, patch), built)
  BY <1>3, Shown, ShapeKept
<1> QED
  BY <1>1, <1>3, <1>4, SendKeeps DEF Kind

LEMMA LongRestKeeps ==
    ASSUME IInv, NEW t \in Tabs, LongRest(t)
    PROVE  IInv'
<1> DEFINE s == view[t]
           dice == IF HitDiceSpent(s.pools) > 0 THEN [pools |-> Regain(s.pools)] ELSE <<>>
           points == IF s.wounds > 0 THEN [wounds |-> 0] ELSE <<>>
           patch == With(dice, points)
<1>1. Send(t, "long", patch) /\ UNCHANGED <<hitDie, row, built, snapshots, view, form, gained>> /\ dialog' = dialog
  BY DEF LongRest, LongRestPatch, Play
<1>2. Regain(s.pools) \in Pools /\ SameShape(Regain(s.pools), s.pools)
  BY Shown, RegainKeeps
<1>3. /\ DOMAIN dice \subseteq {"pools"}
      /\ "pools" \in DOMAIN dice => dice["pools"] = Regain(s.pools)
  OBVIOUS
<1>4. /\ DOMAIN points \subseteq {"wounds"}
      /\ "wounds" \in DOMAIN points => points["wounds"] = 0
  OBVIOUS
<1> HIDE DEF dice, points
<1>5. /\ DOMAIN patch \subseteq {"pools", "wounds"}
      /\ "pools" \in DOMAIN patch => patch.pools = Regain(s.pools)
      /\ "wounds" \in DOMAIN patch => patch.wounds = 0
  BY <1>3, <1>4 DEF With
<1> HIDE DEF patch
<1>6. Patched(patch) /\ ~Resolves(patch)
  BY <1>2, <1>5, SheetAssumption DEF Patched, Resolves
<1>7. s = row => Good(With(row, patch)) /\ Resolved(With(row, patch), built)
  BY <1>2, <1>5, <1>6, Shown, ShapeKept
<1> QED
  BY <1>1, <1>6, <1>7, SendKeeps DEF Kind

\* A level-up names one level more than the sheet it was made from.
LEMMA LevelUpIs ==
    ASSUME NEW s, Good(s), s.level < MaxLevel, NEW die \in Dice
    PROVE  /\ Patched(LevelUpPatch(s, die)) /\ Resolves(LevelUpPatch(s, die))
           /\ "level" \in DOMAIN LevelUpPatch(s, die) /\ LevelUpPatch(s, die).level = s.level + 1
<1> DEFINE pools == Gain(s.pools, die, s.level + 1)
           base == [level |-> s.level + 1, wounds |-> s.wounds, pools |-> pools]
           classes == [s.classes EXCEPT ![1].level = @ + 1]
           patch == LevelUpPatch(s, die)
<1>1. /\ s.classes \in ClassList /\ s.level \in 1..MaxLevel /\ s.pools \in Pools
      /\ s.wounds \in 0..MaxWounds /\ AddsUp(s)
  BY SheetIs
<1>2. s.level + 1 \in 1..MaxLevel /\ s.level + 1 \in Nat \ {0}
  BY <1>1, SheetAssumption
<1>3. pools \in Pools
  BY <1>1, <1>2, GainKeeps
<1>4. s.classes # <<>> => classes \in ClassList
  BY <1>1, ClassGains DEF AddsUp
<1>5. patch = IF s.classes = <<>> THEN base ELSE With(base, [classes |-> classes])
  BY DEF LevelUpPatch
<1> HIDE DEF pools, classes, patch
<1>6. /\ DOMAIN base = {"level", "wounds", "pools"} /\ base["level"] = s.level + 1
      /\ base["wounds"] = s.wounds /\ base["pools"] = pools
  OBVIOUS
<1>7. DOMAIN [classes |-> classes] = {"classes"} /\ [classes |-> classes]["classes"] = classes
  OBVIOUS
<1> HIDE DEF base
<1>8. /\ DOMAIN patch = {"level", "wounds", "pools"}
            \cup (IF s.classes = <<>> THEN {} ELSE {"classes"})
      /\ patch["level"] = s.level + 1 /\ patch["wounds"] = s.wounds /\ patch["pools"] = pools
      /\ s.classes # <<>> => patch["classes"] = classes
  <2>1. CASE s.classes = <<>>
    BY <2>1, <1>5, <1>6
  <2>2. CASE s.classes # <<>>
    BY <2>2, <1>5, <1>6, <1>7 DEF With
  <2> QED
    BY <2>1, <2>2
<1>9. Patched(patch)
  BY <1>1, <1>2, <1>3, <1>4, <1>8 DEF Patched
<1> QED
  BY <1>8, <1>9 DEF Resolves, patch

LEMMA ConfirmKeeps ==
    ASSUME IInv, NEW t \in Tabs, NEW picked \in Dice, Confirm(t, picked)
    PROVE  IInv'
<1> DEFINE die == LevelDie(view[t], picked)
           patch == LevelUpPatch(view[t], die)
<1>1. /\ Send(t, "level", patch) /\ UNCHANGED <<hitDie, row, built, snapshots, view, form, gained>>
      /\ form[t] = None /\ dialog[t] # Closed
      /\ dialog' = [dialog EXCEPT ![t] = view[t].level + 1]
  BY DEF Confirm, Play
<1>2. view[t].level < MaxLevel
  BY <1>1 DEF IInv, Dialog
<1>3. die \in Dice
  BY Shown, PoolsAre DEF LevelDie
<1> HIDE DEF die
<1>4. /\ Patched(patch) /\ Resolves(patch)
      /\ "level" \in DOMAIN patch /\ patch.level = view[t].level + 1
  BY <1>2, <1>3, Shown, LevelUpIs
<1> HIDE DEF patch
<1>5. dialog'[t] = view[t].level + 1
  BY <1>1 DEF IInv
<1> QED
  BY <1>1, <1>4, <1>5, SendKeeps DEF Kind

LEMMA SubmitFormKeeps ==
    ASSUME IInv, NEW t \in Tabs, NEW e \in Edits, SubmitForm(t, e)
    PROVE  IInv'
<1> DEFINE s == form[t]
           classes == OneClass(e.class, e.level)
           wounds == IF e.wounds = None THEN s.wounds ELSE e.wounds
           pools == IF e.pool = None THEN s.pools
                    ELSE <<e.pool>> \o SubSeq(s.pools, 2, Len(s.pools))
           base == [level |-> e.level, classes |-> classes, wounds |-> wounds]
           patch == FormPatch(s, e)
<1>1. /\ Send(t, "edit", patch) /\ UNCHANGED <<hitDie, row, built, snapshots, view, form, gained>>
      /\ dialog' = dialog /\ s # None
  BY DEF SubmitForm
<1>2. s.pools \in Pools /\ s.wounds \in 0..MaxWounds
  BY <1>1, SheetIs DEF IInv, Seen
<1>3. /\ e.class \in Classes \cup {None} /\ e.level \in 1..MaxLevel
      /\ (e.pool # None => e.pool \in AnyPool) /\ wounds \in 0..MaxWounds
  BY <1>2, EditsAssumption
<1>4. classes \in ClassList
  <2>1. CASE e.class = None
    <3>1. <<>> \in Seq([class : Classes, level : 1..MaxLevel])
      OBVIOUS
    <3> QED
      BY <2>1, <3>1 DEF OneClass, ClassList
  <2>2. CASE e.class # None
    <3>1. [class |-> e.class, level |-> e.level] \in [class : Classes, level : 1..MaxLevel]
      BY <1>3, <2>2
    <3> QED
      BY <2>2, <3>1 DEF OneClass, ClassList
  <2> QED
    BY <2>1, <2>2
<1>5. pools \in Pools
  <2>1. CASE e.pool = None
    BY <2>1, <1>2
  <2>2. CASE e.pool # None
    <3> DEFINE rest == SubSeq(s.pools, 2, Len(s.pools))
    <3>1. s.pools \in Seq(AnyPool) /\ Len(s.pools) \in Nat
      BY <1>2, PoolsAre DEF Pools
    <3>2. \A i \in 2..Len(s.pools) : i \in 1..Len(s.pools)
      BY <3>1
    <3>3. rest \in Seq(AnyPool)
      BY <3>1, <3>2, SubSeqProperties
    <3>4. <<e.pool>> \in Seq(AnyPool)
      BY <1>3, <2>2
    <3> HIDE DEF rest
    <3>5. <<e.pool>> \o rest \in Seq(AnyPool)
      BY <3>3, <3>4, ConcatProperties
    <3> QED
      BY <2>2, <3>5 DEF rest, Pools
  <2> QED
    BY <2>1, <2>2
<1>6. patch = IF pools = <<>> THEN base ELSE With(base, [pools |-> pools])
  BY DEF FormPatch
<1> HIDE DEF classes, patch, pools, wounds, s
<1>7. /\ DOMAIN base = {"level", "classes", "wounds"} /\ base["level"] = e.level
      /\ base["classes"] = classes /\ base["wounds"] = wounds
  OBVIOUS
<1>8. DOMAIN [pools |-> pools] = {"pools"} /\ [pools |-> pools]["pools"] = pools
  OBVIOUS
<1> HIDE DEF base
<1>9. /\ DOMAIN patch = {"level", "classes", "wounds"}
            \cup (IF pools = <<>> THEN {} ELSE {"pools"})
      /\ patch["level"] = e.level /\ patch["classes"] = classes /\ patch["wounds"] = wounds
      /\ pools # <<>> => patch["pools"] = pools
  <2>1. CASE pools = <<>>
    BY <2>1, <1>6, <1>7
  <2>2. CASE pools # <<>>
    BY <2>2, <1>6, <1>7, <1>8 DEF With
  <2> QED
    BY <2>1, <2>2
<1>10. Patched(patch) /\ Resolves(patch)
  BY <1>3, <1>4, <1>5, <1>9 DEF Patched, Resolves
<1> QED
  BY <1>1, <1>10, SendKeeps DEF Kind, s

LEMMA OpenDialogKeeps ==
    ASSUME IInv, NEW t \in Tabs, OpenDialog(t)
    PROVE  IInv'
<1>1. /\ form[t] = None /\ dialog[t] = Closed /\ view[t].level < MaxLevel
      /\ dialog' = [dialog EXCEPT ![t] = 0]
      /\ UNCHANGED <<hitDie, row, built, snapshots, view, saving, form, gained, req>>
  BY DEF OpenDialog
<1>2. /\ dialog' \in [Tabs -> Closed..MaxLevel] /\ dialog'[t] = 0
      /\ \A u \in Tabs : u # t => dialog'[u] = dialog[u]
  BY <1>1, SheetAssumption DEF IInv, Closed
<1>3. \A q \in Requests : Owned(q)'
  <2> SUFFICES ASSUME NEW q \in Requests PROVE Owned(q)'
    OBVIOUS
  <2>1. Owned(q) /\ req[q].of \in Tabs \cup {None} /\ Pending(q)' = Pending(q)
    BY <1>1 DEF IInv, Asked, Pending
  <2> QED
    BY <2>1, <1>1, <1>2 DEF Owned
<1>4. \A u \in Tabs : Dialog(u)'
  <2> SUFFICES ASSUME NEW u \in Tabs PROVE Dialog(u)'
    OBVIOUS
  <2>1. Dialog(u) /\ view[u].level \in 1..MaxLevel
    BY Shown DEF IInv
  <2> QED
    BY <2>1, <1>1, <1>2, SheetAssumption DEF Dialog, Closed
<1>5. \A q \in Requests : Asked(q)' /\ Decided(q)' /\ Awaited(q)'
  <2>1. \A q \in Requests : Asked(q)' /\ Decided(q)'
    BY <1>1, StaysDecided DEF IInv
  <2> QED
    BY <2>1, <1>1 DEF IInv, Awaited
<1>6. \A u \in Tabs : Seen(view[u])' /\ (form[u] # None => Seen(form[u]))'
  BY <1>1 DEF IInv, Seen
<1> QED
  BY <1>1, <1>2, <1>3, <1>4, <1>5, <1>6 DEF IInv

LEMMA RowIs ==
    ASSUME IInv
    PROVE  Good(row) /\ row.version \in Nat /\ row.level \in 1..MaxLevel /\ Seen(row)
<1>1. Good(row)
  BY DEF IInv
<1>2. row.version \in Nat /\ row.level \in 1..MaxLevel
  BY <1>1, SheetIs
<1> QED
  BY <1>1, <1>2 DEF Seen

LEMMA ClosedIs == Closed \in Closed..MaxLevel /\ Closed \notin Nat
  BY SheetAssumption DEF Closed

\* A request that may lose its tab or its dialog, and nothing else.
LEMMA LetGo ==
    ASSUME NEW r \in Requests, Asked(r), Decided(r), row' = row,
           built' = built, DOMAIN req'[r] = Fields, \A f \in Fields \ {"tab", "of"} : req'[r][f] = req[r][f],
           req'[r].tab \in {req[r].tab, None}, req'[r].of \in {req[r].of, None}
    PROVE  Asked(r)' /\ Decided(r)' /\ Pending(r)' = Pending(r)
<1>1. /\ req'[r].at = req[r].at /\ req'[r].kind = req[r].kind
      /\ req'[r].expected = req[r].expected /\ req'[r].patch = req[r].patch
      /\ req'[r].built = req[r].built
      /\ req'[r].up = req[r].up /\ req'[r].label = req[r].label /\ req'[r].kept = req[r].kept
  BY DEF Fields
<1>2. Pending(r)' = Pending(r)
  BY <1>1 DEF Pending
<1>3. Asked(r)'
  BY <1>1, <1>2 DEF Asked
<1>4. Decided(r)'
  BY <1>1, <1>2 DEF Decided
<1> QED
  BY <1>2, <1>3, <1>4

LEMMA OwnedStays ==
    ASSUME NEW r \in Requests, NEW t, Owned(r), Pending(r)' = Pending(r),
           req'[r].expected = req[r].expected, req'[r].patch = req[r].patch,
           req'[r].of # None => req'[r].of = req[r].of /\ req[r].of \in Tabs \ {t},
           \A u \in Tabs \ {t} : view'[u] = view[u] /\ dialog'[u] = dialog[u]
    PROVE  Owned(r)'
  BY DEF Owned

\* The dialog of a tab is shut and its write disowned, while the tab may come to
\* show the row and its requests may be dropped.
LEMMA ShutKeeps ==
    ASSUME IInv, NEW t \in Tabs, Shut(t), UNCHANGED <<hitDie, row, built, snapshots>>,
           view' = view \/ view' = [view EXCEPT ![t] = row],
           \/ form' = form /\ saving' = saving
           \/ /\ form' = [form EXCEPT ![t] = view[t]] /\ saving' = [saving EXCEPT ![t] = FALSE]
              /\ \A q \in Requests : req'[q].tab # t,
           req' = [q \in Requests |-> req'[q]],
           \A q \in Requests :
             \/ req'[q] = Disown(t)[q]
             \/ req'[q] = Idle
             \/ req'[q] = [req[q] EXCEPT !.tab = None, !.of = None]
    PROVE  IInv'
<1>1. /\ dialog' = [dialog EXCEPT ![t] = Closed] /\ gained' = [gained EXCEPT ![t] = 0]
      /\ UNCHANGED <<hitDie, row, built>>
  BY DEF Shut
<1>2. /\ dialog' \in [Tabs -> Closed..MaxLevel] /\ dialog'[t] = Closed
      /\ \A u \in Tabs : u # t => dialog'[u] = dialog[u]
      /\ gained' \in [Tabs -> Nat] /\ gained'[t] = 0
      /\ \A u \in Tabs : u # t => gained'[u] = gained[u]
  <2>1. dialog \in [Tabs -> Closed..MaxLevel] /\ gained \in [Tabs -> Nat]
    BY DEF IInv
  <2>2. Closed \in Closed..MaxLevel
    BY ClosedIs
  <2> QED
    BY <1>1, <2>1, <2>2
<1>3. /\ view' = [u \in Tabs |-> view'[u]] /\ view'[t] \in {view[t], row}
      /\ \A u \in Tabs : u # t => view'[u] = view[u]
  BY DEF IInv
<1>4. /\ form' = [u \in Tabs |-> form'[u]] /\ form'[t] \in {form[t], view[t]}
      /\ \A u \in Tabs : u # t => form'[u] = form[u]
  BY DEF IInv
<1>5. /\ saving' \in [Tabs -> BOOLEAN]
      /\ \A u \in Tabs : u # t => saving'[u] = saving[u]
  BY DEF IInv
<1>6. \A q \in Requests :
        /\ DOMAIN req[q] = Fields /\ req[q].tab \in Tabs \cup {None} /\ req[q].of \in Tabs \cup {None}
        /\ Asked(q) /\ Decided(q) /\ Awaited(q) /\ Owned(q)
  BY DEF IInv, Asked
<1>7. ASSUME NEW q \in Requests
      PROVE  /\ req'[q].of # t /\ req'[q].of \in {req[q].of, None}
             /\ req'[q].tab \in {req[q].tab, None}
             /\ \/ /\ DOMAIN req'[q] = Fields
                   /\ \A f \in Fields \ {"tab", "of"} : req'[q][f] = req[q][f]
                \/ req'[q] = Idle
  <2>1. CASE req'[q] = Disown(t)[q]
    <3>1. req'[q] = IF req[q].of = t THEN [req[q] EXCEPT !.of = None] ELSE req[q]
      BY <2>1 DEF Disown
    <3> QED
      BY <3>1, <1>6, NotATab DEF Fields
  <2>2. CASE req'[q] = Idle
    BY <2>2, IdleIs, NotATab
  <2>3. CASE req'[q] = [req[q] EXCEPT !.tab = None, !.of = None]
    BY <2>3, <1>6, NotATab DEF Fields
  <2> QED
    BY <2>1, <2>2, <2>3
<1>8. ASSUME NEW q \in Requests
      PROVE  Asked(q)' /\ Decided(q)' /\ Owned(q)'
  <2>1. CASE req'[q] = Idle
    BY <2>1, IdleIs, OverIs
  <2>2. CASE req'[q] # Idle
    <3>1. DOMAIN req'[q] = Fields /\ \A f \in Fields \ {"tab", "of"} : req'[q][f] = req[q][f]
      BY <2>2, <1>7
    <3>2. Asked(q)' /\ Decided(q)' /\ Pending(q)' = Pending(q)
      BY <3>1, <1>1, <1>6, <1>7, LetGo
    <3>3. req'[q].expected = req[q].expected /\ req'[q].patch = req[q].patch
      BY <3>1 DEF Fields
    <3>4. req'[q].of # None => req'[q].of = req[q].of /\ req[q].of \in Tabs \ {t}
      BY <1>6, <1>7
    <3>5. Owned(q)'
      BY <3>2, <3>3, <3>4, <1>2, <1>3, <1>6, OwnedStays
    <3> QED
      BY <3>2, <3>5
  <2> QED
    BY <2>1, <2>2
<1>9. ASSUME NEW q \in Requests PROVE Awaited(q)'
  <2> SUFFICES ASSUME req'[q].tab # None PROVE Awaited(q)'
    BY DEF Awaited
  <2>1. req'[q].tab = req[q].tab /\ req[q].tab \in Tabs
    BY <1>6, <1>7
  <2>2. req'[q].kind = req[q].kind
    BY <1>7, IdleIs DEF Fields
  <2>3. \A p \in Requests : req'[p].tab = req[q].tab => req[p].tab = req[q].tab
    BY <2>1, <1>7
  <2>4. /\ saving[req[q].tab] /\ (req[q].kind = "edit" => form[req[q].tab] # None)
        /\ \A p \in Requests : req[p].tab = req[q].tab => p = q
    BY <2>1, <1>6 DEF Awaited
  <2>5. saving'[req[q].tab] = saving[req[q].tab] /\ form'[req[q].tab] = form[req[q].tab]
    BY <2>1, <1>4, <1>5
  <2> QED
    BY <2>1, <2>2, <2>3, <2>4, <2>5 DEF Awaited
<1>10. ASSUME NEW u \in Tabs PROVE Dialog(u)'
  <2>1. Dialog(u)
    BY DEF IInv
  <2> QED
    BY <2>1, <1>1, <1>2, <1>3, <1>4 DEF Dialog
<1>11. Good(row) /\ row.version \in Nat /\ Seen(row)
  BY RowIs
<1>12. ASSUME NEW u \in Tabs
       PROVE  Seen(view[u])' /\ (form[u] # None => Seen(form[u]))'
  <2>1. Seen(view[u]) /\ (form[u] # None => Seen(form[u])) /\ Seen(view[t])
    BY DEF IInv
  <2> QED
    BY <2>1, <1>1, <1>3, <1>4, <1>11 DEF Seen
<1> QED
  BY <1>1, <1>2, <1>3, <1>4, <1>5, <1>8, <1>9, <1>10, <1>11, <1>12 DEF IInv

LEMMA CancelKeeps ==
    ASSUME IInv, NEW t \in Tabs, Cancel(t)
    PROVE  IInv'
  BY ShutKeeps DEF Cancel, Disown

LEMMA RefetchKeeps ==
    ASSUME IInv, NEW t \in Tabs, Refetch(t)
    PROVE  IInv'
<1>1. /\ view[t] # row /\ view' = [view EXCEPT ![t] = row]
      /\ UNCHANGED <<hitDie, row, built, snapshots, saving, form>>
  BY DEF Refetch
<1>2. CASE dialog[t] # Closed /\ Obsolete(t, row)
  <2>1. Shut(t) /\ req' = Disown(t)
    BY <1>2 DEF Refetch
  <2> QED
    BY <2>1, <1>1, ShutKeeps DEF Disown
<1>3. CASE dialog[t] = Closed \/ ~Obsolete(t, row)
  <2>1. UNCHANGED <<dialog, gained, req>>
    BY <1>3 DEF Refetch
  <2>2. /\ view' = [u \in Tabs |-> view'[u]] /\ view'[t] = row
        /\ \A u \in Tabs : u # t => view'[u] = view[u]
    BY <1>1 DEF IInv
  <2>3. Good(row) /\ row.version \in Nat /\ row.level \in 1..MaxLevel /\ Seen(row)
    BY RowIs
  <2>4. view[t].version < row.version /\ view[t].version \in Nat /\ view[t].level \in 1..MaxLevel
    <3>1. Seen(view[t]) /\ view[t].version \in Nat /\ view[t].level \in 1..MaxLevel
      BY Shown DEF IInv
    <3> QED
      BY <3>1, <1>1, <2>3 DEF Seen
  <2>5. \A q \in Requests : Owned(q)'
    <3> SUFFICES ASSUME NEW q \in Requests PROVE Owned(q)'
      OBVIOUS
    <3>1. /\ Owned(q) /\ req[q].of \in Tabs \cup {None} /\ Pending(q)' = Pending(q)
          /\ Pending(q) => req[q].expected \in Nat
      BY <2>1 DEF IInv, Asked, Pending
    <3>2. req'[q] = req[q] /\ dialog' = dialog
      BY <2>1
    <3> QED
      BY <3>1, <3>2, <2>2, <2>3, <2>4 DEF Owned
  <2>6. \A u \in Tabs : Dialog(u)'
    <3> SUFFICES ASSUME NEW u \in Tabs PROVE Dialog(u)'
      OBVIOUS
    <3>1. Dialog(u)
      BY DEF IInv
    <3>2. CASE u # t
      BY <3>1, <3>2, <1>1, <2>1, <2>2 DEF Dialog
    <3>3. CASE u = t
      <4>1. dialog[t] # Closed => row.level < MaxLevel
        BY <1>3, <2>3, SheetAssumption DEF Obsolete
      <4>2. gained[t] = 0
        BY <3>1, <3>3, <1>3, <2>3, <2>4, SheetAssumption DEF Dialog, Obsolete, Closed
      <4> QED
        BY <3>1, <3>3, <4>1, <4>2, <1>1, <2>1, <2>2 DEF Dialog
    <3> QED
      BY <3>2, <3>3
  <2>7. \A q \in Requests : Asked(q)' /\ Decided(q)' /\ Awaited(q)'
    <3> SUFFICES ASSUME NEW q \in Requests PROVE Asked(q)' /\ Decided(q)' /\ Awaited(q)'
      OBVIOUS
    <3>1. Asked(q) /\ Decided(q) /\ Awaited(q)
      BY DEF IInv
    <3>2. Asked(q)' /\ Decided(q)'
      BY <3>1, <1>1, <2>1, StaysDecided
    <3> QED
      BY <3>1, <3>2, <1>1, <2>1 DEF Awaited
  <2>8. \A u \in Tabs : Seen(view[u])' /\ (form[u] # None => Seen(form[u]))'
    BY <1>1, <2>2, <2>3 DEF IInv, Seen
  <2> QED
    BY <1>1, <2>1, <2>2, <2>5, <2>6, <2>7, <2>8 DEF IInv
<1> QED
  BY <1>2, <1>3

LEMMA OpenFormKeeps ==
    ASSUME IInv, NEW t \in Tabs, OpenForm(t)
    PROVE  IInv'
<1>1. /\ form' = [form EXCEPT ![t] = view[t]] /\ Shut(t)
      /\ saving' = [saving EXCEPT ![t] = FALSE]
      /\ req' = [r \in Requests |->
                    IF req[r].tab # t THEN Disown(t)[r]
                    ELSE IF Answered(r) THEN Idle
                    ELSE [req[r] EXCEPT !.tab = None, !.of = None]]
      /\ UNCHANGED <<hitDie, row, built, snapshots, view>>
  BY DEF OpenForm
<1>2. \A q \in Requests : req'[q].tab # t
  <2> SUFFICES ASSUME NEW q \in Requests PROVE req'[q].tab # t
    OBVIOUS
  <2>1. DOMAIN req[q] = Fields
    BY DEF IInv, Asked
  <2>2. CASE req[q].tab # t
    <3>1. req'[q] = IF req[q].of = t THEN [req[q] EXCEPT !.of = None] ELSE req[q]
      BY <2>2, <1>1 DEF Disown
    <3> QED
      BY <3>1, <2>1, <2>2 DEF Fields
  <2>3. CASE req[q].tab = t
    <3>1. req'[q] = Idle \/ req'[q] = [req[q] EXCEPT !.tab = None, !.of = None]
      BY <2>3, <1>1
    <3> QED
      BY <3>1, <2>1, IdleIs, NotATab DEF Fields
  <2> QED
    BY <2>2, <2>3
<1>3. req' = [q \in Requests |-> req'[q]]
  BY <1>1
<1>4. \A q \in Requests : \/ req'[q] = Disown(t)[q]
                          \/ req'[q] = Idle
                          \/ req'[q] = [req[q] EXCEPT !.tab = None, !.of = None]
  BY <1>1
<1> QED
  BY <1>1, <1>2, <1>3, <1>4, ShutKeeps

LEMMA LeaveFormKeeps ==
    ASSUME IInv, NEW t \in Tabs, LeaveForm(t)
    PROVE  IInv'
<1>1. /\ ~saving[t] /\ form' = [form EXCEPT ![t] = None]
      /\ UNCHANGED <<hitDie, row, built, snapshots, view, saving, dialog, gained, req>>
  BY DEF LeaveForm
<1>2. /\ form' = [u \in Tabs |-> form'[u]] /\ form'[t] = None
      /\ \A u \in Tabs : u # t => form'[u] = form[u]
  BY <1>1 DEF IInv
<1>3. \A q \in Requests : Awaited(q)'
  <2> SUFFICES ASSUME NEW q \in Requests PROVE Awaited(q)'
    OBVIOUS
  <2>1. Awaited(q) /\ req[q].tab \in Tabs \cup {None}
    BY DEF IInv, Asked
  <2> QED
    BY <2>1, <1>1, <1>2 DEF Awaited
<1>4. \A q \in Requests : Asked(q)' /\ Decided(q)' /\ Owned(q)'
  BY <1>1 DEF IInv, Asked, Decided, Owned, Pending
<1>5. \A u \in Tabs : Dialog(u)'
  BY <1>1, <1>2 DEF IInv, Dialog
<1>6. \A u \in Tabs : Seen(view[u])' /\ (form[u] # None => Seen(form[u]))'
  BY <1>1, <1>2 DEF IInv, Seen
<1> QED
  BY <1>1, <1>2, <1>3, <1>4, <1>5, <1>6 DEF IInv
-----------------------------------------------------------------------------
(* The server and the answer. *)

\* A request moves on, or its tab gives it up; nothing else moves but what the
\* tab waits for.
LEMMA MovesKeep ==
    ASSUME IInv, NEW r \in Requests, NEW rec, req' = [req EXCEPT ![r] = rec],
           UNCHANGED <<hitDie, row, built, view, dialog, form, gained>>,
           rec.tab \in {req[r].tab, None}, rec.tab # None => rec.kind = req[r].kind,
           saving' = saving
             \/ (rec.tab = None /\ saving' = [saving EXCEPT ![req[r].tab] = FALSE]),
           Asked(r)', Decided(r)', Owned(r)'
    PROVE  IInv'
<1>1. /\ req' = [q \in Requests |-> req'[q]] /\ req'[r] = rec
      /\ \A q \in Requests : q # r => req'[q] = req[q]
  BY OneRequest DEF IInv
<1>2. /\ saving' \in [Tabs -> BOOLEAN]
      /\ \A u \in Tabs : saving'[u] = saving[u] \/ (rec.tab = None /\ u = req[r].tab)
  BY DEF IInv
<1>3. ASSUME NEW q \in Requests, q # r PROVE Asked(q)' /\ Decided(q)' /\ Awaited(q)' /\ Owned(q)'
  <2>1. Asked(q) /\ Decided(q) /\ Awaited(q) /\ Owned(q) /\ req'[q] = req[q] /\ Awaited(r)
    BY <1>1, <1>3 DEF IInv
  <2>2. Asked(q)' /\ Decided(q)'
    BY <2>1, StaysDecided
  <2>3. Owned(q)'
    BY <2>1 DEF Owned, Pending
  <2>4. Awaited(q)'
    <3> SUFFICES ASSUME req[q].tab # None PROVE Awaited(q)'
      BY <2>1 DEF Awaited
    <3>1. /\ saving[req[q].tab] /\ (req[q].kind = "edit" => form[req[q].tab] # None)
          /\ \A p \in Requests : req[p].tab = req[q].tab => p = q
          /\ req[q].tab \in Tabs
      BY <2>1 DEF Awaited, Asked
    <3>2. req[r].tab # req[q].tab
      BY <1>3, <3>1
    <3>3. saving'[req[q].tab] = saving[req[q].tab]
      BY <3>1, <3>2, <1>2
    <3>4. \A p \in Requests : req'[p].tab = req[q].tab => req[p].tab = req[q].tab
      BY <1>1
    <3> QED
      BY <2>1, <3>1, <3>3, <3>4 DEF Awaited
  <2> QED
    BY <2>1, <2>2, <2>3, <2>4
<1>4. Awaited(r)'
  <2> SUFFICES ASSUME rec.tab # None PROVE Awaited(r)'
    BY <1>1 DEF Awaited
  <2>1. /\ rec.tab = req[r].tab /\ rec.kind = req[r].kind /\ Awaited(r) /\ saving' = saving
        /\ form' = form
    BY DEF IInv
  <2>2. \A p \in Requests : req'[p].tab = rec.tab => req[p].tab = rec.tab
    BY <1>1, <2>1
  <2> QED
    BY <1>1, <2>1, <2>2 DEF Awaited
<1>5. \A u \in Tabs : Dialog(u)'
  BY DEF IInv, Dialog
<1>6. \A u \in Tabs : Seen(view[u])' /\ (form[u] # None => Seen(form[u]))'
  BY DEF IInv, Seen
<1> QED
  BY <1>1, <1>2, <1>3, <1>4, <1>5, <1>6 DEF IInv

LEMMA ReadKeeps ==
    ASSUME IInv, NEW r \in Requests, Read(r)
    PROVE  IInv'
<1> DEFINE q == req[r]
           patch == q.patch
           new == Rebuilt(row, patch)
           fresh == Built(With(row, patch).classes)
           moved == [q EXCEPT !.at = "read", !.patch = new, !.built = fresh,
                              !.up = LevelsUp(row, patch), !.label = row.level]
<1>1. /\ q.at = "sent"
      /\ UNCHANGED <<hitDie, row, built, snapshots, view, saving, dialog, form, gained>>
      /\ Good(row) /\ row.version \in Nat /\ req = [p \in Requests |-> req[p]]
      /\ hitDie \in [Classes -> Dice \cup {NoDie}]
  BY RowIs DEF Read, IInv
<1>2. /\ DOMAIN q = Fields /\ q.kind \in Kind \cup {None} /\ {q.tab, q.of} \subseteq Tabs \cup {None}
      /\ Patched(patch) /\ q.expected \in Nat /\ q.expected <= row.version /\ q.kept = {}
      /\ Asked(r) /\ Decided(r) /\ Owned(r) /\ Pending(r)
  BY <1>1 DEF IInv, Asked, Pending
<1>3. CASE ~Resolves(patch) \/ AddsUp(With(row, patch))
  <2>1. req' = [req EXCEPT ![r] = moved]
    BY <1>1, <1>3 DEF Read
  <2>2. /\ Patched(new) /\ (Resolves(new) <=> Resolves(patch))
        /\ ~Resolves(patch) => new = patch
        /\ "level" \in DOMAIN new <=> "level" \in DOMAIN patch
        /\ "level" \in DOMAIN patch => new.level = patch.level
        /\ Resolves(patch) => Good(With(row, new)) /\ Resolved(With(row, new), fresh)
        /\ fresh \in ResolvedList
    BY <1>1, <1>2, <1>3, RebuiltIs
  <2> HIDE DEF new, fresh
  <2>3. /\ DOMAIN moved = Fields /\ moved.at = "read" /\ moved.patch = new /\ moved.built = fresh
        /\ moved.up = LevelsUp(row, patch) /\ moved.label = row.level
        /\ moved.tab = q.tab /\ moved.of = q.of /\ moved.kind = q.kind
        /\ moved.expected = q.expected /\ moved.kept = q.kept
    BY <1>2 DEF Fields
  <2> HIDE DEF moved
  <2>4. req'[r] = moved
    BY <1>1, <2>1
  <2>5. LevelsUp(row, patch) = LevelsUp(row, new)
    BY <2>2 DEF LevelsUp
  <2>6. Asked(r)'
    BY <1>1, <1>2, <2>2, <2>3, <2>4 DEF Asked, Pending, Stage
  <2>7. Decided(r)'
    BY <1>1, <1>2, <2>2, <2>3, <2>4, <2>5 DEF Decided, Pending
  <2>8. Owned(r)'
    BY <1>1, <1>2, <2>2, <2>3, <2>4 DEF Owned, Pending
  <2> QED
    BY <1>1, <2>1, <2>3, <2>6, <2>7, <2>8, MovesKeep
<1>4. CASE Resolves(patch) /\ ~AddsUp(With(row, patch))
  <2>1. req' = [req EXCEPT ![r] = Done(r, "refused")]
    BY <1>1, <1>4 DEF Read
  <2>2. req'[r] = Done(r, "refused")
    BY <1>1, <2>1
  <2>3. /\ DOMAIN Done(r, "refused") = Fields /\ Done(r, "refused").at \in {"idle", "refused"}
        /\ Done(r, "refused").kind \in Kind \cup {None} /\ Done(r, "refused").built \in ResolvedList
        /\ Done(r, "refused").tab = req[r].tab /\ Done(r, "refused").of = None
        /\ Done(r, "refused").tab # None => Done(r, "refused").kind = req[r].kind
    BY <1>2, DoneIs
  <2>4. Asked(r)' /\ Decided(r)' /\ Owned(r)'
    BY <1>2, <2>2, <2>3, OverIs
  <2> QED
    BY <1>1, <2>1, <2>3, <2>4, MovesKeep
<1> QED
  BY <1>3, <1>4

LEMMA CaptureKeeps ==
    ASSUME IInv, NEW r \in Requests, Capture(r)
    PROVE  IInv'
<1> DEFINE q == req[r]
           kept == {[version |-> row.version, level |-> row.level, label |-> q.label]}
           moved == [q EXCEPT !.at = "captured", !.kept = kept]
<1>1. /\ q.at = "read" /\ q.up
      /\ UNCHANGED <<hitDie, row, built, snapshots, view, saving, dialog, form, gained>>
      /\ req = [p \in Requests |-> req[p]]
  BY DEF Capture, IInv
<1>2. /\ DOMAIN q = Fields /\ q.kind \in Kind \cup {None} /\ {q.tab, q.of} \subseteq Tabs \cup {None}
      /\ Patched(q.patch) /\ q.expected \in Nat /\ q.expected <= row.version
      /\ q.built \in ResolvedList /\ Decided(r) /\ Owned(r) /\ Pending(r)
  BY <1>1 DEF IInv, Asked, Pending
<1>3. req' = [req EXCEPT ![r] = moved]
  BY <1>1 DEF Capture
<1>4. /\ DOMAIN moved = Fields /\ moved.at = "captured" /\ moved.patch = q.patch
      /\ moved.built = q.built
      /\ moved.up = q.up /\ moved.label = q.label
      /\ moved.tab = q.tab /\ moved.of = q.of /\ moved.kind = q.kind
      /\ moved.expected = q.expected /\ moved.kept = kept
  BY <1>2 DEF Fields
<1> HIDE DEF moved, kept
<1>5. req'[r] = moved
  BY <1>1, <1>3
<1>6. Asked(r)'
  BY <1>1, <1>2, <1>4, <1>5 DEF Asked, Pending, Stage
<1>7. Decided(r)'
  <2>1. q.expected = row.version =>
          /\ Good(With(row, q.patch))
          /\ Resolved(With(row, q.patch), IF Resolves(q.patch) THEN q.built ELSE built)
          /\ q.up = LevelsUp(row, q.patch) /\ q.label = row.level
          /\ q.kind = "short" => ~Resolves(q.patch) /\ Paid(row, With(row, q.patch))
    BY <1>1, <1>2 DEF Decided
  <2>2. q.label = row.level =>
          kept = {[version |-> row.version, level |-> row.level, label |-> row.level]}
    BY DEF kept
  <2> QED
    BY <1>1, <1>4, <1>5, <2>1, <2>2 DEF Decided
<1>8. Owned(r)'
  BY <1>1, <1>2, <1>4, <1>5 DEF Owned, Pending
<1> QED
  BY <1>1, <1>3, <1>4, <1>6, <1>7, <1>8, MovesKeep

LEMMA ForgetKeeps ==
    ASSUME IInv, NEW r \in Requests, Forget(r)
    PROVE  IInv'
<1>1. /\ req' = [req EXCEPT ![r] = Idle] /\ req[r].tab = None
      /\ UNCHANGED <<hitDie, row, built, snapshots, view, saving, dialog, form, gained>>
  BY DEF Forget
<1>2. req'[r] = Idle
  BY <1>1 DEF IInv
<1>3. Asked(r)' /\ Decided(r)' /\ Owned(r)'
  BY <1>2, IdleIs, OverIs
<1> QED
  BY <1>1, <1>3, IdleIs, MovesKeep

LEMMA LoseAnswerKeeps ==
    ASSUME IInv, NEW r \in Requests, LoseAnswer(r)
    PROVE  IInv'
<1> DEFINE q == req[r]
           rec == IF Answered(r) THEN Idle ELSE [q EXCEPT !.tab = None]
<1>1. /\ req' = [req EXCEPT ![r] = rec] /\ saving' = [saving EXCEPT ![q.tab] = FALSE]
      /\ UNCHANGED <<hitDie, row, built, snapshots, view, dialog, form, gained>>
  BY DEF LoseAnswer
<1>2. DOMAIN q = Fields /\ Asked(r) /\ Decided(r) /\ Owned(r) /\ req = [p \in Requests |-> req[p]]
  BY DEF IInv, Asked
<1>3. req'[r] = rec
  BY <1>1, <1>2
<1>4. CASE Answered(r)
  <2>1. rec = Idle
    BY <1>4
  <2>2. Asked(r)' /\ Decided(r)' /\ Owned(r)'
    BY <1>3, <2>1, IdleIs, OverIs
  <2>3. rec.tab = None
    BY <2>1, IdleIs
  <2> HIDE DEF rec
  <2> QED
    BY <1>1, <2>2, <2>3, MovesKeep
<1>5. CASE ~Answered(r)
  <2>1. rec = [q EXCEPT !.tab = None]
    BY <1>5
  <2> HIDE DEF rec
  <2>2. /\ DOMAIN rec = Fields /\ rec.tab = None /\ rec.of = q.of
        /\ \A f \in Fields \ {"tab", "of"} : rec[f] = q[f]
    BY <1>2, <2>1 DEF Fields
  <2>3. Asked(r)' /\ Decided(r)' /\ Pending(r)' = Pending(r)
    BY <1>1, <1>2, <1>3, <2>2, LetGo
  <2>4. Owned(r)'
    <3>1. rec.expected = q.expected /\ rec.patch = q.patch
      BY <2>2 DEF Fields
    <3> QED
      BY <1>1, <1>2, <1>3, <2>2, <2>3, <3>1 DEF Owned
  <2> QED
    BY <1>1, <2>2, <2>3, <2>4, MovesKeep
<1> QED
  BY <1>4, <1>5

LEMMA AnswerKeeps ==
    ASSUME IInv, NEW r \in Requests, NEW fetched \in BOOLEAN, Answer(r, fetched)
    PROVE  IInv'
<1> DEFINE t == req[r].tab
           edit == req[r].kind = "edit"
<1>1. /\ t # None /\ saving' = [saving EXCEPT ![t] = FALSE] /\ req' = [req EXCEPT ![r] = Idle]
      /\ view' = view \/ (edit /\ view' = [view EXCEPT ![t] = row])
      /\ \/ form' = form
         \/ edit /\ form' = [form EXCEPT ![t] = row]
         \/ edit /\ form' = [form EXCEPT ![t] = None]
      /\ UNCHANGED <<hitDie, row, built, snapshots, dialog, gained>>
  BY DEF Answer
<1>2. /\ t \in Tabs /\ Asked(r) /\ Awaited(r) /\ Good(row) /\ Seen(row)
      /\ \A q \in Requests : Asked(q) /\ Decided(q) /\ Awaited(q) /\ Owned(q)
      /\ \A u \in Tabs : Seen(view[u]) /\ (form[u] # None => Seen(form[u])) /\ Dialog(u)
  BY <1>1, RowIs DEF IInv, Asked
<1>3. /\ req' = [q \in Requests |-> req'[q]] /\ req'[r] = Idle
      /\ \A q \in Requests : q # r => req'[q] = req[q]
  BY <1>1, IdleIs, OneRequest DEF IInv
<1>4. edit => dialog[t] = Closed /\ gained[t] = 0
  <2>1. edit => form[t] # None
    BY <1>1, <1>2 DEF Awaited
  <2>2. Dialog(t) /\ view[t].level \in 1..MaxLevel
    BY <1>2, Shown
  <2> QED
    BY <2>1, <2>2, SheetAssumption DEF Dialog, Closed
<1>5. /\ saving' \in [Tabs -> BOOLEAN]
      /\ view' = [u \in Tabs |-> view'[u]] /\ form' = [u \in Tabs |-> form'[u]]
      /\ \A u \in Tabs \ {t} : saving'[u] = saving[u] /\ view'[u] = view[u] /\ form'[u] = form[u]
      /\ view'[t] \in {view[t], row} /\ form'[t] \in {form[t], row, None}
      /\ view'[t] # view[t] \/ form'[t] # form[t] => edit
  <2>1. /\ saving \in [Tabs -> BOOLEAN]
        /\ view = [u \in Tabs |-> view[u]] /\ form = [u \in Tabs |-> form[u]]
    BY DEF IInv
  <2> HIDE DEF edit, t
  <2> QED
    BY <1>1, <1>2, <2>1
<1> HIDE DEF edit
<1>6. Asked(r)' /\ Decided(r)' /\ Owned(r)' /\ Awaited(r)'
  BY <1>3, IdleIs, OverIs DEF Awaited
<1>7. ASSUME NEW q \in Requests, q # r
      PROVE  Asked(q)' /\ Decided(q)' /\ Owned(q)' /\ Awaited(q)'
  <2>1. req'[q] = req[q] /\ Asked(q) /\ Decided(q) /\ Owned(q) /\ Awaited(q) /\ row' = row
        /\ built' = built /\ dialog' = dialog
    BY <1>1, <1>2, <1>3, <1>7
  <2>2. Asked(q)' /\ Decided(q)'
    BY <2>1, StaysDecided
  <2>3. Owned(q)'
    <3>1. Pending(q)' = Pending(q) /\ req[q].of \in Tabs \cup {None}
      BY <2>1 DEF Pending, Asked
    <3>2. \A u \in Tabs : dialog[u] # Closed => view'[u] = view[u]
      BY <1>4, <1>5
    <3> QED
      BY <2>1, <3>1, <3>2 DEF Owned
  <2>4. Awaited(q)'
    <3> SUFFICES ASSUME req[q].tab # None PROVE Awaited(q)'
      BY <2>1 DEF Awaited
    <3>1. /\ saving[req[q].tab] /\ (req[q].kind = "edit" => form[req[q].tab] # None)
          /\ \A p \in Requests : req[p].tab = req[q].tab => p = q
          /\ req[q].tab \in Tabs
      BY <2>1 DEF Awaited, Asked
    <3>2. req[q].tab \in Tabs \ {t}
      BY <1>7, <3>1
    <3>3. saving'[req[q].tab] = saving[req[q].tab] /\ form'[req[q].tab] = form[req[q].tab]
      BY <3>2, <1>5
    <3>4. \A p \in Requests : req'[p].tab = req[q].tab => req[p].tab = req[q].tab
      BY <1>3, <3>1, IdleIs, NotATab
    <3> QED
      BY <2>1, <3>1, <3>3, <3>4 DEF Awaited
  <2> QED
    BY <2>2, <2>3, <2>4
<1>8. ASSUME NEW u \in Tabs PROVE Dialog(u)'
  <2>1. Dialog(u) /\ row' = row /\ dialog' = dialog /\ gained' = gained
    BY <1>1, <1>2
  <2>2. CASE view'[u] = view[u] /\ form'[u] = form[u]
    BY <2>1, <2>2 DEF Dialog
  <2>3. CASE view'[u] # view[u] \/ form'[u] # form[u]
    <3>1. dialog[u] = Closed /\ gained[u] = 0
      BY <2>3, <1>4, <1>5
    <3> QED
      BY <2>1, <3>1 DEF Dialog
  <2> QED
    BY <2>2, <2>3
<1>9. ASSUME NEW u \in Tabs PROVE Seen(view[u])' /\ (form[u] # None => Seen(form[u]))'
  <2>1. row' = row /\ view'[u] \in {view[u], row} /\ form'[u] \in {form[u], row, None}
    BY <1>1, <1>5
  <2>2. Seen(view[u]) /\ (form[u] # None => Seen(form[u])) /\ Seen(row)
    BY <1>2
  <2> QED
    BY <2>1, <2>2 DEF Seen
<1> QED
  BY <1>1, <1>2, <1>3, <1>5, <1>6, <1>7, <1>8, <1>9 DEF IInv

\* The row as a write leaves it: the sheet that was decided, a version on.
LEMMA NewRowIs ==
    ASSUME NEW s, Good(s), NEW version \in Nat, NEW new, new = With(s, [version |-> version])
    PROVE  /\ Good(new) /\ new.version = version /\ new.level = s.level
           /\ new.wounds = s.wounds /\ new.pools = s.pools
           /\ \A dice : Resolved(s, dice) => Resolved(new, dice)
<1>1. s \in [version : Nat, classes : ClassList, level : 1..MaxLevel,
            pools : Seq(AnyPool), wounds : 0..MaxWounds]
  BY DEF Good, Sheet, ClassList
<1>2. DOMAIN [version |-> version] = {"version"} /\ [version |-> version]["version"] = version
  OBVIOUS
<1>3. DOMAIN s = {"version", "classes", "level", "pools", "wounds"}
  BY <1>1
<1>4. new = [f \in {"version", "classes", "level", "pools", "wounds"} |->
               IF f = "version" THEN version ELSE s[f]]
  BY <1>2, <1>3 DEF With
<1>5. /\ new.version = version /\ new.classes = s.classes /\ new.level = s.level
      /\ new.pools = s.pools /\ new.wounds = s.wounds
  BY <1>4
<1>6. new = [version |-> version, classes |-> s.classes, level |-> s.level,
             pools |-> s.pools, wounds |-> s.wounds]
  BY <1>4
<1>7. new \in [version : Nat, classes : ClassList, level : 1..MaxLevel,
               pools : Seq(AnyPool), wounds : 0..MaxWounds]
  BY <1>1, <1>6
<1>8. new \in Sheet
  BY <1>7 DEF Sheet, ClassList
<1> QED
  BY <1>5, <1>8 DEF Good, AddsUp, Resolved

\* A write that its guard lets through: what was decided on the row is stored.
LEMMA WriteIs ==
    ASSUME IInv, NEW r \in Requests, Write(r), Guard(r)
    PROVE  LET s == With(row, req[r].patch) IN
           /\ Patched(req[r].patch) /\ Good(s) /\ Good(row)'
           /\ built' \in ResolvedList /\ Resolved(row, built)'
           /\ row'.version = row.version + 1 /\ row'.level = s.level
           /\ row'.wounds = s.wounds /\ row'.pools = s.pools
           /\ req[r].up = LevelsUp(row, req[r].patch)
           /\ req[r].kept = IF req[r].up
                            THEN {[version |-> row.version, level |-> row.level, label |-> row.level]}
                            ELSE {}
           /\ req[r].kind = "short" => Paid(row, s)
<1> DEFINE s == With(row, req[r].patch)
<1>1. /\ req[r].at = IF req[r].up THEN "captured" ELSE "read"
      /\ row' = With(s, [version |-> row.version + 1])
      /\ built' = IF Resolves(req[r].patch) THEN req[r].built ELSE built
  BY DEF Write
<1>2. Pending(r) /\ req[r].expected = row.version /\ Asked(r) /\ Decided(r)
  BY <1>1 DEF Pending, Guard, IInv
<1>3. /\ Good(s) /\ Patched(req[r].patch) /\ req[r].up = LevelsUp(row, req[r].patch)
      /\ Resolved(s, built') /\ (req[r].kind = "short" => Paid(row, s))
  BY <1>1, <1>2 DEF Decided, Asked
<1>4. req[r].kept = IF req[r].up
                    THEN {[version |-> row.version, level |-> row.level, label |-> row.level]}
                    ELSE {}
  BY <1>1, <1>2 DEF Decided, Asked
<1>5. row.version + 1 \in Nat /\ built' \in ResolvedList
  BY <1>1, <1>2, RowIs DEF IInv, Asked
<1> HIDE DEF s
<1>6. /\ Good(row') /\ row'.version = row.version + 1 /\ row'.level = s.level
      /\ row'.wounds = s.wounds /\ row'.pools = s.pools /\ Resolved(row', built')
  BY <1>1, <1>3, <1>5, NewRowIs
<1> QED
  BY <1>3, <1>4, <1>5, <1>6 DEF s

LEMMA WriteKeeps ==
    ASSUME IInv, NEW r \in Requests, Write(r)
    PROVE  IInv'
<1>1. /\ UNCHANGED <<hitDie, view, saving, dialog, form>> /\ req = [q \in Requests |-> req[q]]
      /\ Asked(r) /\ Owned(r) /\ Awaited(r)
  BY DEF Write, IInv
<1>2. CASE ~Guard(r)
  <2>1. req' = [req EXCEPT ![r] = Done(r, "conflict")] /\ UNCHANGED <<hitDie, row, built, gained>>
    BY <1>2 DEF Write
  <2>2. req'[r] = Done(r, "conflict")
    BY <1>1, <2>1
  <2>3. /\ DOMAIN Done(r, "conflict") = Fields /\ Done(r, "conflict").at \in {"idle", "conflict"}
        /\ Done(r, "conflict").kind \in Kind \cup {None} /\ Done(r, "conflict").built \in ResolvedList
        /\ Done(r, "conflict").tab = req[r].tab /\ Done(r, "conflict").of = None
        /\ Done(r, "conflict").tab # None => Done(r, "conflict").kind = req[r].kind
    BY <1>1, DoneIs
  <2>4. req[r].tab \in Tabs \cup {None}
    BY <1>1 DEF Asked
  <2>5. Asked(r)' /\ Decided(r)' /\ Owned(r)'
    BY <2>2, <2>3, <2>4, OverIs
  <2> QED
    BY <1>1, <2>1, <2>3, <2>5, MovesKeep
<1>3. CASE Guard(r)
  <2> DEFINE s == With(row, req[r].patch)
             up(u) == IF req[r].of = u THEN 1 ELSE 0
  <2>1. /\ req' = [req EXCEPT ![r] = Done(r, "saved")] /\ gained' = Gained(r, row'.level)
        /\ Pending(r) /\ req[r].expected = row.version
    BY <1>3 DEF Write, Guard, Pending
  <2>2. /\ Good(row)' /\ row'.version = row.version + 1 /\ row'.level = s.level /\ Patched(req[r].patch)
        /\ built' \in ResolvedList /\ Resolved(row, built)'
    BY <1>3, WriteIs
  <2>3. row.version \in Nat /\ row.level \in 1..MaxLevel /\ row'.level \in 1..MaxLevel
    <3>1. Good(row')
      BY <2>2
    <3> QED
      BY <3>1, RowIs, SheetIs
  <2>4. /\ req' = [q \in Requests |-> req'[q]] /\ req'[r] = Done(r, "saved")
        /\ \A q \in Requests : q # r => req'[q] = req[q]
    BY <1>1, <2>1, OneRequest
  <2>5. /\ DOMAIN Done(r, "saved") = Fields /\ Done(r, "saved").at \in {"idle", "saved"}
        /\ Done(r, "saved").kind \in Kind \cup {None} /\ Done(r, "saved").built \in ResolvedList
        /\ Done(r, "saved").tab = req[r].tab /\ Done(r, "saved").of = None
        /\ Done(r, "saved").tab # None => Done(r, "saved").kind = req[r].kind
    BY <1>1, DoneIs
  <2>6. req[r].tab \in Tabs \cup {None}
    BY <1>1 DEF Asked
  <2>7. Asked(r)' /\ Decided(r)' /\ Owned(r)'
    BY <2>4, <2>5, <2>6, OverIs
  <2>8. ASSUME NEW q \in Requests, q # r PROVE Asked(q)' /\ Decided(q)' /\ Owned(q)'
    <3>1. req'[q] = req[q] /\ Asked(q) /\ Owned(q)
      BY <2>4, <2>8 DEF IInv
    <3>2. Asked(q)'
      BY <3>1, <2>2, <2>3 DEF Asked, Pending
    <3>3. Decided(q)'
      BY <3>1, <2>2, <2>3 DEF Asked, Decided, Pending
    <3>4. Owned(q)'
      BY <3>1, <1>1 DEF Owned, Pending
    <3> QED
      BY <3>2, <3>3, <3>4
  <2>9. ASSUME NEW q \in Requests PROVE Awaited(q)'
    <3>1. /\ req'[q].tab = req[q].tab /\ (req[q].tab # None => req'[q].kind = req[q].kind)
          /\ \A p \in Requests : req'[p].tab = req[p].tab
      BY <2>4, <2>5
    <3>2. Awaited(q)
      BY DEF IInv
    <3> QED
      BY <3>1, <3>2, <1>1 DEF Awaited
  <2>10. gained' = [u \in Tabs |-> IF row'.level < row.level THEN 0 ELSE gained[u] + up(u)]
    BY <2>1 DEF Gained
  <2>11. gained' \in [Tabs -> Nat]
    BY <2>10 DEF IInv
  <2>12. ASSUME NEW u \in Tabs
         PROVE  /\ Seen(view[u]) /\ Dialog(u) /\ view[u].version \in Nat /\ gained[u] \in Nat
                /\ view'[u] = view[u] /\ dialog'[u] = dialog[u] /\ form'[u] = form[u]
    BY <1>1, Shown DEF IInv
  <2>13. ASSUME NEW u \in Tabs PROVE Dialog(u)'
    <3>1. CASE req[r].of # u
      <4>1. gained'[u] \in {0, gained[u]} /\ (gained'[u] # 0 => row'.level >= row.level)
        BY <3>1, <2>3, <2>10, <2>12
      <4>2. gained[u] # 0 => row.level >= dialog[u] /\ dialog[u] = view[u].level + 1
        BY <2>12 DEF Dialog
      <4>3. view[u].level \in 1..MaxLevel
        BY Shown
      <4>4. view[u].version < row'.version
        BY <2>2, <2>3, <2>12 DEF Seen
      <4>5. gained'[u] # 0 => gained[u] # 0 /\ gained'[u] = gained[u] /\ row'.level >= dialog[u]
        BY <4>1, <4>2, <4>3, <2>3, SheetAssumption
      <4> QED
        BY <2>12, <4>2, <4>4, <4>5 DEF Dialog
    <3>2. CASE req[r].of = u
      <4>1. /\ "level" \in DOMAIN req[r].patch /\ dialog[u] # Closed
            /\ row.version <= view[u].version
            /\ row.version = view[u].version =>
                 req[r].patch.level = view[u].level + 1 /\ dialog[u] = view[u].level + 1
        BY <3>2, <1>1, <2>1, NotATab DEF Owned
      <4>2. view[u].version = row.version /\ view[u] = row
        BY <4>1, <2>3, <2>12 DEF Seen
      <4>3. gained[u] = 0
        BY <4>2, <2>3, <2>12 DEF Dialog
      <4>4. row'.level = view[u].level + 1 /\ dialog[u] = view[u].level + 1
        <5>1. s.level = req[r].patch.level
          BY <4>1, <2>2, RowIs, SheetIs, WithIs
        <5> QED
          BY <4>1, <4>2, <5>1, <2>2
      <4>5. gained'[u] \in {0, 1}
        BY <3>2, <4>3, <2>10
      <4> QED
        BY <4>2, <4>4, <4>5, <2>2, <2>3, <2>12 DEF Dialog
    <3> QED
      BY <3>1, <3>2
  <2>14. ASSUME NEW u \in Tabs PROVE Seen(view[u])' /\ (form[u] # None => Seen(form[u]))'
    <3>1. form[u] # None => Seen(form[u]) /\ form[u].version \in Nat
      BY SheetIs DEF IInv, Seen
    <3> QED
      BY <3>1, <2>2, <2>3, <2>12 DEF Seen
  <2>15. view' = [u \in Tabs |-> view'[u]] /\ form' = [u \in Tabs |-> form'[u]]
         /\ saving' \in [Tabs -> BOOLEAN] /\ dialog' \in [Tabs -> Closed..MaxLevel]
    BY <1>1 DEF IInv
  <2> QED
    BY <1>1, <2>2, <2>4, <2>7, <2>8, <2>9, <2>11, <2>13, <2>14, <2>15 DEF IInv
<1> QED
  BY <1>2, <1>3
-----------------------------------------------------------------------------
(* The invariant is inductive. *)

LEMMA LevelOfIs ==
    ASSUME NEW classes \in ClassList
    PROVE  LevelOf(classes) \in Nat /\ (classes # <<>> => LevelOf(classes) >= 1)
<1> DEFINE D == DOMAIN classes
           f == [i \in D |-> classes[i].level]
<1>1. IsFiniteSet(D) /\ (classes # <<>> => 1 \in D) /\ \A i \in D : classes[i].level \in 1..MaxLevel
  <2>1. /\ IsFiniteSet(D) /\ (classes # <<>> => 1 \in D)
        /\ \A i \in D : classes[i] \in [class : Classes, level : 1..MaxLevel]
    BY SeqsAre DEF ClassList
  <2> QED
    BY <2>1
<1>2. f \in [D -> Nat] /\ \A i \in D : classes[i].level \in Int /\ f[i] >= 1
  BY <1>1, SheetAssumption
<1>3. LevelOf(classes) = Sum(f, D)
  BY <1>1, <1>2, LevelOfIsSum
<1> HIDE DEF f
<1>4. Sum(f, D) \in Nat /\ \A i \in D : f[i] <= Sum(f, D)
  BY <1>1, <1>2, SumNat
<1>5. classes # <<>> => f[1] \in Nat /\ f[1] >= 1 /\ f[1] <= Sum(f, D)
  BY <1>1, <1>2, <1>4
<1> QED
  BY <1>3, <1>4, <1>5

LEMMA CreateIs ==
    ASSUME hitDie \in [Classes -> Dice \cup {NoDie}], NEW b \in Builds
    PROVE  /\ Good(Create(b)) /\ Built(b.classes) \in ResolvedList
           /\ Resolved(Create(b), Built(b.classes))
<1> DEFINE s == Create(b)
           pools == PoolsFor(Built(b.classes), b.pools)
           level == LevelSent(b)
<1>1. /\ b.classes \in ClassList /\ b.pools \in Pools /\ b.wounds \in 0..MaxWounds
      /\ level \in 1..MaxLevel /\ AddsUp([classes |-> b.classes, level |-> level])
  BY BuildsAssumption DEF ClassList, Pools
<1>2. Built(b.classes) \in ResolvedList /\ Matches(b.classes, Built(b.classes))
  BY <1>1, BuiltIs
<1>3. pools \in Pools /\ ShapedBy(pools, Built(b.classes))
  BY <1>1, <1>2, PoolsForKeeps
<1>4. s = [version |-> 0, classes |-> b.classes, level |-> level, pools |-> pools, wounds |-> b.wounds]
  BY DEF Create
<1> HIDE DEF pools, level, s
<1>5. s.classes = b.classes /\ s.level = level /\ s.pools = pools
  BY <1>4
<1>6. s \in Sheet
  BY <1>1, <1>3, <1>4 DEF Sheet, ClassList, Pools
<1>7. AddsUp(s)
  BY <1>1, <1>5 DEF AddsUp
<1>8. Resolved(s, Built(b.classes))
  BY <1>2, <1>3, <1>5 DEF Resolved
<1> QED
  BY <1>2, <1>6, <1>7, <1>8 DEF Good, s

LEMMA InvInitially == Init => IInv
<1> SUFFICES ASSUME Init PROVE IInv
  OBVIOUS
<1>1. /\ view = [t \in Tabs |-> row] /\ saving = [t \in Tabs |-> FALSE]
      /\ dialog = [t \in Tabs |-> Closed] /\ form = [t \in Tabs |-> None]
      /\ gained = [t \in Tabs |-> 0] /\ req = [r \in Requests |-> Idle]
      /\ Good(row) /\ built \in ResolvedList /\ Resolved(row, built)
      /\ hitDie \in [Classes -> Dice \cup {NoDie}]
  <2>1. hitDie \in [Classes -> Dice \cup {NoDie}]
    BY SheetAssumption DEF Init
  <2>2. PICK b \in Builds : row = Create(b) /\ built = Built(b.classes)
    BY DEF Init
  <2>3. Good(row) /\ built \in ResolvedList /\ Resolved(row, built)
    BY <2>1, <2>2, CreateIs
  <2> QED
    BY <2>1, <2>3 DEF Init
<1>2. row.version \in Nat /\ Seen(row)
  <2>1. row.version \in Nat
    BY <1>1, SheetIs
  <2> QED
    BY <1>1, <2>1 DEF Seen
<1>3. \A t \in Tabs : Seen(view[t]) /\ (form[t] # None => Seen(form[t])) /\ Dialog(t)
  BY <1>1, <1>2 DEF Dialog
<1>4. ASSUME NEW r \in Requests PROVE Asked(r) /\ Decided(r) /\ Awaited(r) /\ Owned(r)
  <2>1. req[r] = Idle
    BY <1>1
  <2>2. ~Pending(r)
    BY <2>1, IdleIs DEF Pending
  <2> QED
    BY <2>1, <2>2, IdleIs DEF Asked, Decided, Awaited, Owned, Stage
<1> QED
  BY <1>1, <1>3, <1>4, ClosedIs DEF IInv

\* Stored pools stay as they are when a class's die changes.
LEMMA ClassChangesKeeps ==
    ASSUME IInv, NEW c \in Classes, NEW die \in Dice \cup {NoDie}, ClassChanges(c, die)
    PROVE  IInv'
<1>1. /\ hitDie' = [hitDie EXCEPT ![c] = die]
      /\ UNCHANGED <<row, built, snapshots, view, saving, dialog, form, gained, req>>
  BY DEF ClassChanges
<1>2. hitDie' \in [Classes -> Dice \cup {NoDie}]
  BY <1>1 DEF IInv
<1>3. \A r \in Requests : Pending(r)' = Pending(r)
  BY <1>1 DEF Pending
<1> QED
  BY <1>1, <1>2, <1>3 DEF IInv, Seen, Dialog, Asked, Decided, Awaited, Owned

LEMMA InvInductive == IInv /\ [Next]_vars => IInv'
<1> SUFFICES ASSUME IInv, [Next]_vars PROVE IInv'
  OBVIOUS
<1>1. CASE UNCHANGED vars
  <2>1. \A r \in Requests : Pending(r)' = Pending(r)
    BY <1>1 DEF vars, Pending
  <2> QED
    BY <1>1, <2>1 DEF vars, IInv, Seen, Dialog, Asked, Decided, Awaited, Owned
<1>2. ASSUME NEW t \in Tabs, Hurt(t) PROVE IInv'
  BY <1>2, HurtKeeps
<1>3. ASSUME NEW t \in Tabs, LongRest(t) PROVE IInv'
  BY <1>3, LongRestKeeps
<1>4. ASSUME NEW t \in Tabs, NEW die \in Dice, NEW delta \in {1, -1}, SpendDie(t, die, delta)
      PROVE  IInv'
  BY <1>4, SpendDieKeeps
<1>5. ASSUME NEW t \in Tabs, NEW dice \in 1..MaxLevel, NEW healed \in 0..(MaxHeal * MaxLevel),
             ShortRest(t, dice, healed)
      PROVE  IInv'
  BY <1>5, ShortRestKeeps
<1>6. ASSUME NEW t \in Tabs, OpenDialog(t) \/ Cancel(t) PROVE IInv'
  BY <1>6, OpenDialogKeeps, CancelKeeps
<1>7. ASSUME NEW t \in Tabs, NEW die \in Dice, Confirm(t, die) PROVE IInv'
  BY <1>7, ConfirmKeeps
<1>8. ASSUME NEW t \in Tabs, Refetch(t) PROVE IInv'
  BY <1>8, RefetchKeeps
<1>9. ASSUME NEW t \in Tabs, OpenForm(t) \/ LeaveForm(t) PROVE IInv'
  BY <1>9, OpenFormKeeps, LeaveFormKeeps
<1>10. ASSUME NEW t \in Tabs, NEW e \in Edits, SubmitForm(t, e) PROVE IInv'
  BY <1>10, SubmitFormKeeps
<1>11. ASSUME NEW r \in Requests, Read(r) \/ Capture(r) \/ Write(r) PROVE IInv'
  BY <1>11, ReadKeeps, CaptureKeeps, WriteKeeps
<1>12. ASSUME NEW r \in Requests, NEW fetched \in BOOLEAN, Answer(r, fetched) PROVE IInv'
  BY <1>12, AnswerKeeps
<1>13. ASSUME NEW r \in Requests, LoseAnswer(r) \/ Forget(r) PROVE IInv'
  BY <1>13, LoseAnswerKeeps, ForgetKeeps
<1>14. ASSUME NEW change \in Changes, ClassChanges(change[1], change[2]) PROVE IInv'
  <2>1. change[1] \in Classes /\ change[2] \in Dice \cup {NoDie}
    BY SheetAssumption
  <2> QED
    BY <1>14, <2>1, ClassChangesKeeps
<1> QED
  BY <1>1, <1>2, <1>3, <1>4, <1>5, <1>6, <1>7, <1>8, <1>9, <1>10, <1>11, <1>12, <1>13, <1>14 DEF Next

\* The invariant holds of every reachable state.
LEMMA InvHolds == Spec => []IInv
  BY InvInitially, InvInductive, PTL DEF Spec
-----------------------------------------------------------------------------
(* What follows from it. *)

\* Types: whatever the writes of the tabs were computed from, no pool shows fewer
\* than no dice spent and no hit points are missing past the maximum.
THEOREM TypeCorrect == Spec => []TypeOK
<1>1. IInv => TypeOK
  <2> SUFFICES ASSUME IInv PROVE TypeOK
    OBVIOUS
  <2>1. row \in Sheet /\ \A t \in Tabs : view[t] \in Sheet /\ (form[t] # None => form[t] \in Sheet)
    BY DEF IInv, Seen, Good
  <2>2. \A r \in Requests : /\ req[r].at \in Stage /\ req[r].kind \in Kind \cup {None}
                            /\ {req[r].tab, req[r].of} \subseteq Tabs \cup {None}
    BY DEF IInv, Asked
  <2> QED
    BY <2>1, <2>2 DEF IInv, TypeOK, ResolvedList
<1> QED
  BY <1>1, InvHolds, PTL

\* The class levels sum to the level, and the pools are those of the classes at
\* these levels, with the dice they had when classes or level were last written:
\* rests and level-ups that a tab computed from an old row never reach the row,
\* and update rebuilds the pools of whatever it is sent.
THEOREM SheetAddsUpHolds == Spec => []SheetAddsUp
<1>1. IInv => SheetAddsUp
  <2> SUFFICES ASSUME IInv PROVE SheetAddsUp
    OBVIOUS
  <2> DEFINE dice == [i \in DOMAIN row.pools |-> row.pools[i].die]
  <2>1. AddsUp(row) /\ Matches(row.classes, built) /\ ShapedBy(row.pools, built)
    BY DEF IInv, Good, Resolved
  <2>2. DiceOf(built) = [k \in DOMAIN DiceOf(built) |-> DiceOf(built)[k]]
    BY DEF DiceOf
  <2>3. ASSUME DiceOf(built) # <<>>
        PROVE  /\ dice = DiceOf(built)
               /\ \A i \in DOMAIN dice : /\ row.pools[i].total = LevelsOf(built, dice[i])
                                         /\ row.pools[i].spent <= row.pools[i].total
    <3>1. /\ DOMAIN row.pools = DOMAIN DiceOf(built)
          /\ \A i \in DOMAIN row.pools : /\ row.pools[i].die = DiceOf(built)[i]
                                        /\ row.pools[i].total = LevelsOf(built, row.pools[i].die)
                                        /\ row.pools[i].spent <= row.pools[i].total
      BY <2>1, <2>3 DEF ShapedBy
    <3> QED
      BY <2>2, <3>1
  <2> HIDE DEF dice
  <2> QED
    BY <2>1, <2>3 DEF SheetAddsUp, Matches, dice
<1> QED
  BY <1>1, InvHolds, PTL

\* However its write is refused, lost or retried, an open level-up dialog raises
\* the level once.
THEOREM OneLevelPerDialogHolds == Spec => []OneLevelPerDialog
<1>1. IInv => OneLevelPerDialog
  BY DEF IInv, Dialog, OneLevelPerDialog
<1> QED
  BY <1>1, InvHolds, PTL

\* Only a write that its guard lets through changes the row or the snapshots.
LEMMA OnlyWrites ==
    ASSUME [Next]_vars
    PROVE  UNCHANGED <<row, snapshots>> \/ \E r \in Requests : Write(r) /\ Guard(r)
<1>1. CASE UNCHANGED vars
  BY <1>1 DEF vars
<1>2. ASSUME NEW t \in Tabs, Hurt(t) PROVE UNCHANGED <<row, snapshots>>
  BY <1>2 DEF Hurt, Play
<1>3. ASSUME NEW t \in Tabs, LongRest(t) PROVE UNCHANGED <<row, snapshots>>
  BY <1>3 DEF LongRest, Play
<1>4. ASSUME NEW t \in Tabs, NEW die \in Dice, NEW delta \in {1, -1}, SpendDie(t, die, delta)
      PROVE  UNCHANGED <<row, snapshots>>
  BY <1>4 DEF SpendDie, Play
<1>5. ASSUME NEW t \in Tabs, NEW dice \in 1..MaxLevel, NEW healed \in 0..(MaxHeal * MaxLevel),
             ShortRest(t, dice, healed)
      PROVE  UNCHANGED <<row, snapshots>>
  BY <1>5 DEF ShortRest, Play
<1>6. ASSUME NEW t \in Tabs, OpenDialog(t) \/ Cancel(t) \/ Refetch(t) \/ OpenForm(t) \/ LeaveForm(t)
      PROVE  UNCHANGED <<row, snapshots>>
  BY <1>6 DEF OpenDialog, Cancel, Refetch, OpenForm, LeaveForm
<1>7. ASSUME NEW t \in Tabs, NEW die \in Dice, Confirm(t, die) PROVE UNCHANGED <<row, snapshots>>
  BY <1>7 DEF Confirm, Play
<1>8. ASSUME NEW t \in Tabs, NEW e \in Edits, SubmitForm(t, e)
      PROVE  UNCHANGED <<row, snapshots>>
  BY <1>8 DEF SubmitForm
<1>9. ASSUME NEW r \in Requests, NEW fetched \in BOOLEAN, Answer(r, fetched)
      PROVE  UNCHANGED <<row, snapshots>>
  BY <1>9 DEF Answer
<1>10. ASSUME NEW r \in Requests, Read(r) \/ Capture(r) \/ LoseAnswer(r) \/ Forget(r)
       PROVE  UNCHANGED <<row, snapshots>>
  BY <1>10 DEF Read, Capture, LoseAnswer, Forget
<1>11. ASSUME NEW r \in Requests, Write(r), ~Guard(r) PROVE UNCHANGED <<row, snapshots>>
  BY <1>11 DEF Write, RolledBack
<1>12. ASSUME NEW change \in Changes, ClassChanges(change[1], change[2])
       PROVE  UNCHANGED <<row, snapshots>>
  BY <1>12 DEF ClassChanges
<1> QED
  BY <1>1, <1>2, <1>3, <1>4, <1>5, <1>6, <1>7, <1>8, <1>9, <1>10, <1>11, <1>12 DEF Next

\* A write that raises the level by one keeps one snapshot, of the row it
\* replaced: what captureCharacterSnapshot read is the row that is replaced, as
\* the version has not moved since, and a refused write keeps none.
THEOREM SnapshotOfTheReplacedRowHolds == Spec => SnapshotOfTheReplacedRow
<1> DEFINE Kept == snapshots' = snapshots \cup
                     IF row'.level # row.level + 1 THEN {}
                     ELSE {[version |-> row.version, level |-> row.level, label |-> row.level]}
<1>1. IInv /\ [Next]_vars => [Kept]_vars
  <2> SUFFICES ASSUME IInv, [Next]_vars PROVE Kept
    OBVIOUS
  <2>1. row.level \in 1..MaxLevel /\ row.level + 1 # row.level
    BY RowIs, SheetAssumption
  <2>2. CASE UNCHANGED <<row, snapshots>>
    BY <2>1, <2>2
  <2>3. ASSUME NEW r \in Requests, Write(r), Guard(r) PROVE Kept
    <3> DEFINE s == With(row, req[r].patch)
    <3>1. /\ Patched(req[r].patch) /\ row'.level = s.level
          /\ req[r].up = LevelsUp(row, req[r].patch)
          /\ req[r].kept = IF req[r].up
                           THEN {[version |-> row.version, level |-> row.level, label |-> row.level]}
                           ELSE {}
      BY <2>3, WriteIs
    <3>2. s.level = IF "level" \in DOMAIN req[r].patch THEN req[r].patch.level ELSE row.level
      BY <3>1, RowIs, SheetIs, WithIs
    <3>3. snapshots' = snapshots \cup req[r].kept
      BY <2>3 DEF Write
    <3>4. req[r].up <=> row'.level = row.level + 1
      BY <2>1, <3>1, <3>2 DEF LevelsUp
    <3> QED
      BY <3>1, <3>3, <3>4
  <2> QED
    BY <2>2, <2>3, OnlyWrites
<1> QED
  BY <1>1, InvHolds, PTL DEF Spec, SnapshotOfTheReplacedRow

\* Hit points come back by a short rest for the dice the stored row then shows
\* as spent, and for no die another tab had spent meanwhile; pools of one die
\* are excepted where one of them is overspent.
THEOREM HealingIsPaidHolds == Spec => HealingIsPaid
<1> DEFINE AllPaid == \A r \in Requests : Commits(r) /\ req[r].kind = "short" /\ Paired(row.pools) =>
              row.wounds - row'.wounds
                <= MaxHeal * (HitDiceSpent(row'.pools) - HitDiceSpent(row.pools))
<1>1. IInv /\ [Next]_vars => [AllPaid]_vars
  <2> SUFFICES ASSUME IInv, [Next]_vars, NEW q \in Requests, Commits(q), req[q].kind = "short",
                      Paired(row.pools)
               PROVE  row.wounds - row'.wounds
                        <= MaxHeal * (HitDiceSpent(row'.pools) - HitDiceSpent(row.pools))
    OBVIOUS
  <2>1. row' # row /\ req'[q] # req[q]
    BY DEF Commits
  <2>2. PICK r \in Requests : Write(r) /\ Guard(r)
    BY <2>1, OnlyWrites
  <2>3. q = r
    BY <2>1, <2>2 DEF Write, IInv
  <2>4. /\ Paid(row, With(row, req[r].patch))
        /\ row'.wounds = With(row, req[r].patch).wounds /\ row'.pools = With(row, req[r].patch).pools
    BY <2>2, <2>3, WriteIs
  <2> QED
    BY <2>4 DEF Paid
<1> QED
  BY <1>1, InvHolds, PTL DEF Spec, HealingIsPaid
=============================================================================
