----------------------------- MODULE FiniteSums -----------------------------
(***************************************************************************)
(* Sums of a function over a finite set, as MapThenSumSet of the community *)
(* modules takes them, and the lemmas about them that the proofs need.     *)
(*                                                                         *)
(* MapThenSumSet is a recursive function on the subsets of the set.  That  *)
(* there is one, and what it computes, is shown from minimal               *)
(* counterexamples: the strict subsets of a finite set are well-founded.   *)
(***************************************************************************)
EXTENDS Integers, FiniteSets, FiniteSetsExt, FiniteSetTheorems, TLAPS

\* The sum of f[x] for the x in S.
Sum(f, S) == MapThenSumSet(LAMBDA x : f[x], S)

\* The recursive equation MapThenFoldSet solves.
Body(f, iter, s) ==
  IF s = {} THEN 0
  ELSE f[CHOOSE x \in s : TRUE] + iter[s \ {CHOOSE x \in s : TRUE}]

Solves(f, iter, S) == iter = [s \in SUBSET S |-> Body(f, iter, s)]

Partial(f, S) == CHOOSE iter : Solves(f, iter, S)

\* What MapThenSumSet stands for.
LEMMA SumIsPartial ==
  ASSUME NEW f, NEW S
  PROVE Sum(f, S) = Partial(f, S)[S]
BY DEF Sum, MapThenSumSet, MapThenFoldSet, Partial, Body, Solves

-----------------------------------------------------------------------------
(* The recursion.                                                          *)

\* Induction over the subsets of a finite set, for a set of them.
LEMMA SubsetInduction ==
  ASSUME NEW S, IsFiniteSet(S), NEW G,
         \A T \in SUBSET S : (\A U \in SUBSET T : U # T => U \in G) => T \in G
  PROVE  SUBSET S \subseteq G
<1>. DEFINE bad == {T \in SUBSET S : T \notin G}
<1>. SUFFICES ASSUME bad # {} PROVE FALSE
  OBVIOUS
<1>1. IsWellFoundedOn(StrictSubsetOrdering(S), SUBSET S)
  <2>1. IsWellFoundedOn(StrictSubsetOrdering(S), FiniteSubsetsOf(S))
    BY FS_StrictSubsetOrderingWellFounded, Zenon
  <2>2. FiniteSubsetsOf(S) = SUBSET S
    BY FS_FiniteSubsetsOfFinite, Zenon
  <2>. QED
    BY <2>1, <2>2
<1>2. bad \subseteq SUBSET S
  OBVIOUS
<1>3. PICK T \in bad : \A U \in bad : <<U, T>> \notin StrictSubsetOrdering(S)
  <2>. HIDE DEF bad
  <2>. QED
  BY <1>1, <1>2, WFMin
<1>4. \A U \in SUBSET T : U # T => U \in G
  BY <1>3 DEF StrictSubsetOrdering
<1>. QED
  BY <1>3, <1>4

\* Two solutions agree where the summands do.
LEMMA SolutionUnique ==
  ASSUME NEW S, IsFiniteSet(S), NEW A, NEW B, S \subseteq A, S \subseteq B,
         NEW f, NEW g, \A x \in S : f[x] = g[x],
         NEW i, Solves(f, i, A), NEW j, Solves(g, j, B)
  PROVE  i[S] = j[S]
<1>. DEFINE G == {T \in SUBSET S : i[T] = j[T]}
<1>1. ASSUME NEW T \in SUBSET S, \A U \in SUBSET T : U # T => U \in G
      PROVE  T \in G
  <2>1. i[T] = Body(f, i, T) /\ j[T] = Body(g, j, T)
    BY DEF Solves
  <2>2. CASE T = {}
    BY <2>1, <2>2 DEF Body
  <2>3. CASE T # {}
    <3>. DEFINE x == CHOOSE x \in T : TRUE
    <3>1. x \in T
      BY <2>3
    <3>2. T \ {x} \in SUBSET T /\ T \ {x} # T
      BY <3>1
    <3>3. i[T \ {x}] = j[T \ {x}] /\ f[x] = g[x]
      BY <1>1, <3>1, <3>2
    <3>. QED
      BY <2>1, <2>3, <3>3 DEF Body
  <2>. QED
    BY <2>2, <2>3
<1>2. S \in G
  <2>. HIDE DEF G
  <2>. QED
    BY <1>1, SubsetInduction
<1>. QED
  BY <1>2

\* There is a solution, so the chosen one is one.
LEMMA PartialSolves ==
  ASSUME NEW S, IsFiniteSet(S), NEW f
  PROVE  Solves(f, Partial(f, S), S)
<1>. DEFINE G == {T \in SUBSET S : Solves(f, Partial(f, T), T)}
<1>1. ASSUME NEW T \in SUBSET S, \A U \in SUBSET T : U # T => U \in G
      PROVE  T \in G
  <2>. DEFINE value == [u \in SUBSET T |-> Partial(f, u)[u]]
              it == [u \in SUBSET T |-> Body(f, value, u)]
  <2>1. ASSUME NEW u \in SUBSET T, u # T PROVE it[u] = value[u]
    <3>1. Solves(f, Partial(f, u), u)
      BY <1>1, <2>1
    <3>2. Partial(f, u)[u] = Body(f, Partial(f, u), u)
      BY <3>1 DEF Solves
    <3>3. CASE u = {}
      BY <3>2, <3>3 DEF Body
    <3>4. CASE u # {}
      <4>. DEFINE x == CHOOSE x \in u : TRUE
                  v == u \ {x}
      <4>1. x \in u
        BY <3>4
      <4>2. v \in SUBSET T /\ v # T /\ v \subseteq u
        BY <4>1, <2>1
      <4>3. Solves(f, Partial(f, v), v)
        BY <1>1, <4>2
      <4>4. IsFiniteSet(v)
        BY <4>2, FS_Subset
      <4>5. Partial(f, u)[v] = Partial(f, v)[v]
        BY <3>1, <4>2, <4>3, <4>4, SolutionUnique
      <4>6. value[v] = Partial(f, u)[v]
        BY <4>2, <4>5
      <4>. QED
        BY <3>2, <3>4, <4>6 DEF Body
    <3>. QED
      BY <3>3, <3>4
  <2>2. \A u \in SUBSET T : Body(f, value, u) = Body(f, it, u)
    <3>. SUFFICES ASSUME NEW u \in SUBSET T, u # {}
                  PROVE  Body(f, value, u) = Body(f, it, u)
      BY DEF Body
    <3>. DEFINE v == u \ {CHOOSE x \in u : TRUE}
    <3>1. v \in SUBSET T /\ v # T
      OBVIOUS
    <3>. QED
      BY <2>1, <3>1 DEF Body
  <2>3. Solves(f, it, T)
    BY <2>2 DEF Solves
  <2>. QED
    BY <2>3 DEF Partial
<1>2. S \in G
  <2>. HIDE DEF G
  <2>. QED
    BY <1>1, SubsetInduction
<1>. QED
  BY <1>2

-----------------------------------------------------------------------------
(* Sums.                                                                   *)

\* Nothing to add.
LEMMA SumEmpty == \A f : Sum(f, {}) = 0
<1>. SUFFICES ASSUME NEW f PROVE Sum(f, {}) = 0
  OBVIOUS
<1>1. Solves(f, Partial(f, {}), {})
  BY FS_EmptySet, PartialSolves
<1>2. Partial(f, {})[{}] = Body(f, Partial(f, {}), {})
  BY <1>1 DEF Solves
<1>. QED
  BY <1>2, SumIsPartial DEF Body

\* Equal summands, equal sums.
LEMMA SumEqual ==
  ASSUME NEW S, IsFiniteSet(S), NEW f, NEW g, \A x \in S : f[x] = g[x]
  PROVE  Sum(f, S) = Sum(g, S)
BY PartialSolves, SolutionUnique, SumIsPartial

\* One summand, whichever is chosen, and the rest.
LEMMA SumUnfold ==
  ASSUME NEW S, IsFiniteSet(S), S # {}, NEW f
  PROVE  \E x \in S : Sum(f, S) = f[x] + Sum(f, S \ {x})
<1>. DEFINE x == CHOOSE x \in S : TRUE
            T == S \ {x}
<1>1. x \in S /\ IsFiniteSet(T)
  BY FS_Subset
<1>2. Sum(f, S) = f[x] + Partial(f, S)[T]
  <2>1. Solves(f, Partial(f, S), S)
    BY PartialSolves
  <2>2. Partial(f, S)[S] = Body(f, Partial(f, S), S)
    BY <2>1 DEF Solves
  <2>3. Partial(f, S)[S] = f[x] + Partial(f, S)[T]
    BY <2>2 DEF Body
  <2>. QED
    BY <2>3, SumIsPartial
<1>3. Partial(f, S)[T] = Sum(f, T)
  BY <1>1, PartialSolves, SolutionUnique, SumIsPartial
<1>. QED
  BY <1>1, <1>2, <1>3

\* A sum of integers is one.
LEMMA SumInt ==
  ASSUME NEW S, IsFiniteSet(S), NEW f, \A x \in S : f[x] \in Int
  PROVE  Sum(f, S) \in Int
<1>. DEFINE G == {T \in SUBSET S : Sum(f, T) \in Int}
<1>1. ASSUME NEW T \in SUBSET S, \A U \in SUBSET T : U # T => U \in G
      PROVE  T \in G
  <2>1. CASE T = {}
    BY <2>1, SumEmpty
  <2>2. CASE T # {}
    <3>1. PICK x \in T : Sum(f, T) = f[x] + Sum(f, T \ {x})
      BY <2>2, FS_Subset, SumUnfold
    <3>2. Sum(f, T \ {x}) \in Int /\ f[x] \in Int
      BY <1>1
    <3>. QED
      BY <3>1, <3>2
  <2>. QED
    BY <2>1, <2>2
<1>2. S \in G
  <2>. HIDE DEF G
  <2>. QED
    BY <1>1, SubsetInduction
<1>. QED
  BY <1>2

\* Any summand can be taken out, not only the chosen one.
LEMMA SumRemove ==
  ASSUME NEW S, IsFiniteSet(S), NEW f, \A x \in S : f[x] \in Int,
         NEW y \in S
  PROVE  Sum(f, S) = f[y] + Sum(f, S \ {y})
<1>. DEFINE Splits(T) == \A z \in T : Sum(f, T) = f[z] + Sum(f, T \ {z})
            G == {T \in SUBSET S : Splits(T)}
<1>1. ASSUME NEW T \in SUBSET S, \A U \in SUBSET T : U # T => U \in G
      PROVE  T \in G
  <2>. SUFFICES ASSUME NEW z \in T PROVE Sum(f, T) = f[z] + Sum(f, T \ {z})
    OBVIOUS
  <2>1. PICK x \in T : Sum(f, T) = f[x] + Sum(f, T \ {x})
    BY FS_Subset, SumUnfold
  <2>2. CASE x = z
    BY <2>1, <2>2
  <2>3. CASE x # z
    <3>1. Sum(f, T \ {x}) = f[z] + Sum(f, (T \ {x}) \ {z})
      BY <1>1, <2>3
    <3>2. Sum(f, T \ {z}) = f[x] + Sum(f, (T \ {z}) \ {x})
      BY <1>1, <2>3
    <3>3. (T \ {x}) \ {z} = (T \ {z}) \ {x}
      OBVIOUS
    <3>4. Sum(f, (T \ {x}) \ {z}) \in Int
      BY FS_Subset, SumInt
    <3>5. f[x] \in Int /\ f[z] \in Int
      OBVIOUS
    <3>. DEFINE rest == Sum(f, (T \ {x}) \ {z})
    <3>6. /\ Sum(f, T) = f[x] + (f[z] + rest)
          /\ Sum(f, T \ {z}) = f[x] + rest
      BY <2>1, <3>1, <3>2, <3>3
    <3>7. rest \in Int
      BY <3>4
    <3>. HIDE DEF rest
    <3>. QED
      BY <3>5, <3>6, <3>7
  <2>. QED
    BY <2>2, <2>3
<1>2. S \in G
  <2>. HIDE DEF G
  <2>. QED
    BY <1>1, SubsetInduction
<1>. QED
  BY <1>2

\* A summand more.
LEMMA SumAdd ==
  ASSUME NEW S, IsFiniteSet(S), NEW y, y \notin S, NEW f,
         \A x \in S \cup {y} : f[x] \in Int
  PROVE  Sum(f, S \cup {y}) = Sum(f, S) + f[y]
<1>1. IsFiniteSet(S \cup {y}) /\ (S \cup {y}) \ {y} = S
  BY FS_AddElement
<1>2. Sum(f, S \cup {y}) = f[y] + Sum(f, S)
  BY <1>1, SumRemove
<1>. QED
  BY <1>2, SumInt

\* One summand changes by d.
LEMMA SumChange ==
  ASSUME NEW S, IsFiniteSet(S), NEW f, \A x \in S : f[x] \in Int,
         NEW g, NEW y, NEW d \in Int,
         \A x \in S : g[x] = IF x = y THEN f[x] + d ELSE f[x]
  PROVE  Sum(g, S) = Sum(f, S) + (IF y \in S THEN d ELSE 0)
<1>1. CASE y \notin S
  BY <1>1, SumEqual, SumInt
<1>2. CASE y \in S
  <2>1. Sum(f, S) = f[y] + Sum(f, S \ {y})
    BY <1>2, SumRemove
  <2>2. Sum(g, S) = g[y] + Sum(g, S \ {y})
    BY <1>2, SumRemove
  <2>3. IsFiniteSet(S \ {y})
    BY FS_Subset
  <2>4. Sum(g, S \ {y}) = Sum(f, S \ {y})
    BY <2>3, SumEqual
  <2>5. Sum(f, S \ {y}) \in Int /\ g[y] = f[y] + d /\ f[y] \in Int
    BY <1>2, <2>3, SumInt
  <2>. QED
    BY <1>2, <2>1, <2>2, <2>4, <2>5
<1>. QED
  BY <1>1, <1>2

\* A sum of zeros.
LEMMA SumZero ==
  ASSUME NEW S, IsFiniteSet(S), NEW f, \A x \in S : f[x] = 0
  PROVE  Sum(f, S) = 0
<1>. DEFINE G == {T \in SUBSET S : Sum(f, T) = 0}
<1>1. ASSUME NEW T \in SUBSET S, \A U \in SUBSET T : U # T => U \in G
      PROVE  T \in G
  <2>1. CASE T = {}
    BY <2>1, SumEmpty
  <2>2. CASE T # {}
    <3>1. PICK x \in T : Sum(f, T) = f[x] + Sum(f, T \ {x})
      BY <2>2, FS_Subset, SumUnfold
    <3>2. Sum(f, T \ {x}) = 0 /\ f[x] = 0
      BY <1>1
    <3>. QED
      BY <3>1, <3>2
  <2>. QED
    BY <2>1, <2>2
<1>2. S \in G
  <2>. HIDE DEF G
  <2>. QED
    BY <1>1, SubsetInduction
<1>. QED
  BY <1>2

\* A sum of naturals is one, and no summand exceeds it.
LEMMA SumNat ==
  ASSUME NEW S, IsFiniteSet(S), NEW f, \A x \in S : f[x] \in Nat
  PROVE  Sum(f, S) \in Nat /\ \A x \in S : f[x] <= Sum(f, S)
<1>. DEFINE G == {T \in SUBSET S : Sum(f, T) \in Nat}
<1>1. ASSUME NEW T \in SUBSET S, \A U \in SUBSET T : U # T => U \in G
      PROVE  T \in G
  <2>1. CASE T = {}
    BY <2>1, SumEmpty
  <2>2. CASE T # {}
    <3>1. PICK x \in T : Sum(f, T) = f[x] + Sum(f, T \ {x})
      BY <2>2, FS_Subset, SumUnfold
    <3>2. Sum(f, T \ {x}) \in Nat /\ f[x] \in Nat
      BY <1>1
    <3>. QED
      BY <3>1, <3>2
  <2>. QED
    BY <2>1, <2>2
<1>2. SUBSET S \subseteq G
  <2>. HIDE DEF G
  <2>. QED
    BY <1>1, SubsetInduction
<1>3. ASSUME NEW x \in S PROVE f[x] <= Sum(f, S)
  <2>1. Sum(f, S) = f[x] + Sum(f, S \ {x})
    BY SumRemove
  <2>2. Sum(f, S \ {x}) \in Nat
    BY <1>2
  <2>. QED
    BY <2>1, <2>2
<1>. QED
  BY <1>2, <1>3

\* The sum over any part of the set is within the bound on the whole of it.
LEMMA SumWithin ==
  ASSUME NEW S, IsFiniteSet(S), NEW f, NEW g,
         \A x \in S : /\ f[x] \in Int /\ g[x] \in Nat
                      /\ -g[x] <= f[x] /\ f[x] <= g[x]
  PROVE  \A T \in SUBSET S : -Sum(g, S) <= Sum(f, T) /\ Sum(f, T) <= Sum(g, S)
<1>. DEFINE Bounded(U) ==
              \A T \in SUBSET U :
                -Sum(g, U) <= Sum(f, T) /\ Sum(f, T) <= Sum(g, U)
            G == {U \in SUBSET S : Bounded(U)}
<1>1. ASSUME NEW V \in SUBSET S, \A U \in SUBSET V : U # V => U \in G
      PROVE  V \in G
  <2>. SUFFICES ASSUME NEW T \in SUBSET V
                PROVE  -Sum(g, V) <= Sum(f, T) /\ Sum(f, T) <= Sum(g, V)
    OBVIOUS
  <2>0. IsFiniteSet(V) /\ IsFiniteSet(T)
    BY FS_Subset
  <2>1. CASE T = {}
    <3>1. Sum(g, V) \in Nat /\ Sum(f, T) = 0
      BY <2>0, <2>1, SumNat, SumEmpty
    <3>. QED
      BY <3>1
  <2>2. CASE T # {}
    <3>1. PICK y \in T : TRUE
      BY <2>2
    <3>2. Sum(f, T) = f[y] + Sum(f, T \ {y})
      BY <2>0, <3>1, SumRemove
    <3>3. Sum(g, V) = g[y] + Sum(g, V \ {y})
      BY <2>0, <3>1, SumRemove
    <3>4. Bounded(V \ {y})
      BY <1>1, <3>1
    <3>5. /\ -Sum(g, V \ {y}) <= Sum(f, T \ {y})
          /\ Sum(f, T \ {y}) <= Sum(g, V \ {y})
      BY <3>4
    <3>6. IsFiniteSet(T \ {y}) /\ IsFiniteSet(V \ {y})
      BY <2>0, FS_Subset
    <3>7. Sum(f, T \ {y}) \in Int /\ Sum(g, V \ {y}) \in Int
      BY <3>6, SumInt
    <3>8. f[y] \in Int /\ g[y] \in Int /\ -g[y] <= f[y] /\ f[y] <= g[y]
      BY <3>1
    <3>. QED
      BY <3>2, <3>3, <3>5, <3>7, <3>8
  <2>. QED
    BY <2>1, <2>2
<1>2. S \in G
  <2>. HIDE DEF G
  <2>. QED
    BY <1>1, SubsetInduction
<1>. QED
  BY <1>2
=============================================================================
