-------------------------- MODULE CityYield_proofs --------------------------
(***************************************************************************)
(* What holds of the city-yield path for any threads, cities, effects and  *)
(* ranges: its types, that the persisted copy mirrors the entry, that the  *)
(* valid length covers the arrays, and that a snapshot the generation      *)
(* admits is current once every change has been published.                 *)
(*                                                                         *)
(* None of this is inductive alone.  The mirror needs to know what a       *)
(* thread has loaded between its two looks at the entry, that only         *)
(* hydrated entries are edited, and what was in the entry before an edit   *)
(* that is not stored yet; the snapshots need that none is from a later    *)
(* generation or a later city than there has been.                         *)
(***************************************************************************)
EXTENDS CityYield, FiniteSums, SequenceTheorems

-----------------------------------------------------------------------------
(* The inductive invariant.                                                *)

Hydrated(c) == entry[c] # Nil /\ entry[c].hydrated

\* Every non-zero element of an entry is before its valid length.
Covers(e) ==
  \A k \in Kinds, y \in Yields : e.value[<<k, y>>] # 0 => y < e.count

\* An entry that is hydrated or not, of the right type, and covered.
Sound(h) == {e \in EntryType : e.hydrated = h /\ Covers(e)}

\* What a thread in a job may rely on.
JobOf(t) ==
  LET c == job[t].city
  IN /\ at[t] = "idle" => job[t].inst = Nil
     /\ at[t] # "idle" => c \in alive
     /\ at[t] # "idle" /\ job[t].inst # Nil => c \in known
     /\ at[t] \in {"edit", "store1", "store2", "notify", "bump"} =>
          job[t].inst # Nil
     /\ at[t] \in {"load1", "load2", "seed", "seeded"} => c \in known
     /\ at[t] \in {"seeded", "edit", "store1", "store2"} => Hydrated(c)
     /\ at[t] = "load2" /\ ~ Hydrated(c) =>
          \A s \in Slots : s[1] = "population" => loaded[t][s] = persisted[c][s]
     /\ at[t] = "seed" /\ ~ Hydrated(c) => loaded[t] = persisted[c]
     /\ at[t] = "find" => snap[t].city = c

JobInv == \A t \in Threads : JobOf(t)

InStore(t) == at[t] \in {"store1", "store2"}

\* One thread at a time stores, and until it has stored its own vector the
\* persisted copy is the entry from before its edit.
StoreOf(t) ==
  LET c == job[t].city
  IN /\ InStore(t) => \A u \in Threads : u # t => ~ InStore(u)
     /\ Unstored(t) =>
          \E e \in Sound(TRUE) :
            /\ e.value = persisted[c]
            /\ entry[c] = Accumulate(e, job[t].inst, job[t].sign)

StoreInv == \A t \in Threads : StoreOf(t)

\* Some effect has edited c's entry and not stored what it changed.
Behind(c) == \E t \in Threads : job[t].city = c /\ Unstored(t)

\* Only a city whose owner is resolved has an entry; one that was not
\* hydrated is empty, one that was is what a save would store.
EntryOf(c) ==
  entry[c] # Nil =>
    /\ c \in known
    /\ Covers(entry[c])
    /\ IF entry[c].hydrated THEN persisted[c] = entry[c].value \/ Behind(c)
       ELSE entry[c].value = Zero

EntryInv == \A c \in Cities : EntryOf(c)

\* A snapshot that a read would take for current.
Admitted(t, c) ==
  /\ c \in alive /\ Matches(t, c)
  /\ snap[t].born = born[c] /\ ~ Taking(t)
  /\ snap[t].entry # Nil /\ snap[t].entry.hydrated

SnapInv ==
  \A t \in Threads :
    /\ snap[t].gen <= generation
    /\ snap[t].entry # Nil => Covers(snap[t].entry)
    /\ \A c \in Cities :
         /\ snap[t].city = c => snap[t].born <= born[c]
         /\ Admitted(t, c) /\ ~ Unpublished(c) =>
              Hydrated(c) /\ entry[c].value = snap[t].entry.value

IInv == TypeOK /\ JobInv /\ StoreInv /\ EntryInv /\ SnapInv

JobType ==
  [city : Cities \cup {Nil}, inst : Instances \cup {Nil}, sign : {-1, 0, 1}]

SnapType ==
  [gen : 0 .. MaxBumps, city : Cities \cup {Nil},
   entry : EntryType \cup {Nil}, born : 0 .. MaxBirths]

-----------------------------------------------------------------------------
(* Accumulate is a fold; what it keeps is shown along the recursion.       *)

LEMMA MaxIn ==
  ASSUME NEW S \in SUBSET Int, IsFiniteSet(S), S # {}
  PROVE  Max(S) \in S /\ \A x \in S : x <= Max(S)
<1>. DEFINE G == {T \in SUBSET S :
                    T # {} => \E m \in T : \A x \in T : x <= m}
<1>1. ASSUME NEW T \in SUBSET S, \A U \in SUBSET T : U # T => U \in G
      PROVE  T \in G
  <2>. SUFFICES ASSUME T # {}
                PROVE  \E m \in T : \A x \in T : x <= m
    OBVIOUS
  <2>1. PICK y \in T : TRUE
    OBVIOUS
  <2>2. CASE T = {y}
    BY <2>2
  <2>3. CASE T # {y}
    <3>1. T \ {y} \in G /\ T \ {y} # {}
      BY <1>1, <2>1, <2>3
    <3>2. PICK m \in T \ {y} : \A x \in T \ {y} : x <= m
      BY <3>1
    <3>3. CASE y <= m
      BY <3>2, <3>3
    <3>4. CASE ~ (y <= m)
      <4>1. \A x \in T : x <= y
        BY <3>2, <3>4
      <4>. QED  BY <2>1, <4>1
    <3>. QED  BY <3>3, <3>4
  <2>. QED  BY <2>2, <2>3
<1>2. S \in G
  <2>. HIDE DEF G
  <2>. QED  BY <1>1, SubsetInduction
<1>3. \E m \in S : \A x \in S : x <= m
  BY <1>2
<1>4. \E m \in S : \A x \in S : m >= x
  BY <1>3
<1>. QED  BY <1>4 DEF Max

\* The recursive equation of the fold, over the indices of the entries.
FoldBody(e, i, sign, iter, s) ==
  IF s = {} THEN e
  ELSE AccumulateOne(iter[s \ {Max(s)}], i.kind, i.entries[Max(s)], sign)

Folds(e, i, sign, iter, S) ==
  iter = [s \in SUBSET S |-> FoldBody(e, i, sign, iter, s)]

Chosen(e, i, sign, S) == CHOOSE iter : Folds(e, i, sign, iter, S)

LEMMA AccumulateIsFold ==
  ASSUME NEW e, NEW i, NEW sign
  PROVE  Accumulate(e, i, sign) =
           Chosen(e, i, sign, DOMAIN i.entries)[DOMAIN i.entries]
BY DEF Accumulate, FoldLeft, MapThenFoldSet, Chosen, Folds, FoldBody

LEMMA FoldUnique ==
  ASSUME NEW S \in SUBSET Int, IsFiniteSet(S), NEW A, S \subseteq A,
         NEW e, NEW i, NEW sign,
         NEW f, Folds(e, i, sign, f, A), NEW g, Folds(e, i, sign, g, S)
  PROVE  f[S] = g[S]
<1>. DEFINE G == {T \in SUBSET S : f[T] = g[T]}
<1>1. ASSUME NEW T \in SUBSET S, \A U \in SUBSET T : U # T => U \in G
      PROVE  T \in G
  <2>1. /\ f[T] = FoldBody(e, i, sign, f, T)
        /\ g[T] = FoldBody(e, i, sign, g, T)
    BY DEF Folds
  <2>2. CASE T = {}
    BY <2>1, <2>2 DEF FoldBody
  <2>3. CASE T # {}
    <3>1. Max(T) \in T
      BY <2>3, MaxIn, FS_Subset
    <3>2. f[T \ {Max(T)}] = g[T \ {Max(T)}]
      BY <1>1, <3>1
    <3>. QED  BY <2>1, <2>3, <3>2 DEF FoldBody
  <2>. QED  BY <2>2, <2>3
<1>2. S \in G
  <2>. HIDE DEF G
  <2>. QED  BY <1>1, SubsetInduction
<1>. QED  BY <1>2

\* There is such a function, so the chosen one is one.
LEMMA ChosenFolds ==
  ASSUME NEW S \in SUBSET Int, IsFiniteSet(S), NEW e, NEW i, NEW sign
  PROVE  Folds(e, i, sign, Chosen(e, i, sign, S), S)
<1>. DEFINE C(T) == Chosen(e, i, sign, T)
            B(f, T) == FoldBody(e, i, sign, f, T)
            G == {T \in SUBSET S : Folds(e, i, sign, C(T), T)}
<1>1. ASSUME NEW T \in SUBSET S, \A U \in SUBSET T : U # T => U \in G
      PROVE  T \in G
  <2>. DEFINE value == [u \in SUBSET T |-> C(u)[u]]
              it == [u \in SUBSET T |-> B(value, u)]
  <2>1. ASSUME NEW u \in SUBSET T, u # T PROVE it[u] = value[u]
    <3>1. Folds(e, i, sign, C(u), u)
      BY <1>1, <2>1
    <3>2. C(u)[u] = B(C(u), u)
      BY <3>1 DEF Folds
    <3>3. CASE u = {}
      BY <3>2, <3>3 DEF FoldBody
    <3>4. CASE u # {}
      <4>. DEFINE v == u \ {Max(u)}
      <4>1. Max(u) \in u
        BY <3>4, MaxIn, FS_Subset
      <4>2. v \in SUBSET T /\ v # T /\ v \subseteq u
        BY <4>1, <2>1
      <4>3. Folds(e, i, sign, C(v), v)
        BY <1>1, <4>2
      <4>4. IsFiniteSet(v) /\ v \in SUBSET Int
        BY <4>2, FS_Subset
      <4>5. C(u)[v] = C(v)[v]
        BY <3>1, <4>2, <4>3, <4>4, FoldUnique
      <4>6. value[v] = C(u)[v]
        BY <4>2, <4>5
      <4>. QED
        BY <3>2, <3>4, <4>6 DEF FoldBody
    <3>. QED
      BY <3>3, <3>4
  <2>2. \A u \in SUBSET T : B(value, u) = B(it, u)
    <3>. SUFFICES ASSUME NEW u \in SUBSET T, u # {}
                  PROVE  B(value, u) = B(it, u)
      BY DEF FoldBody
    <3>. DEFINE v == u \ {Max(u)}
    <3>1. v \in SUBSET T /\ v # T
      BY MaxIn, FS_Subset
    <3>. QED
      BY <2>1, <3>1 DEF FoldBody
  <2>3. Folds(e, i, sign, it, T)
    BY <2>2 DEF Folds
  <2>. QED
    BY <2>3 DEF Chosen
<1>2. S \in G
  <2>. HIDE DEF G
  <2>. QED
    BY <1>1, SubsetInduction
<1>. QED
  BY <1>2

LEMMA ClampInRange ==
  ASSUME NEW x \in Int
  PROVE  Clamp(x) \in MinValue .. MaxValue
BY RangeAssumption DEF Clamp

LEMMA MaxOfTwo ==
  ASSUME NEW a \in Int, NEW b \in Int
  PROVE  Max({a, b}) = IF a >= b THEN a ELSE b
BY DEF Max

\* One entry of an effect keeps an entry sound.
LEMMA OneKeepsSound ==
  ASSUME NEW h, NEW e \in Sound(h), NEW k \in Kinds, NEW sign \in Int,
         NEW x, x.amount \in Int
  PROVE  AccumulateOne(e, k, x, sign) \in Sound(h)
<1>. DEFINE f == AccumulateOne(e, k, x, sign)
            s == <<k, x.yield>>
            n == e.value[s] + sign * x.amount * PercentUnit
<1>1. CASE ~ Plausible(x)
  BY <1>1 DEF AccumulateOne
<1>2. CASE Plausible(x)
  <2>1. /\ x.yield \in Yields /\ x.yield \in 0 .. MaxYields - 1
        /\ s \in Slots /\ MaxYields \in Nat
    BY <1>2, SizesAssumption DEF Plausible, Yields, Slots
  <2>2. /\ e \in EntryType /\ e.hydrated = h /\ Covers(e)
        /\ e.value \in Values /\ e.count \in 0 .. MaxYields
    BY DEF Sound, EntryType
  <2>3. Clamp(n) \in MinValue .. MaxValue
    <3>1. sign * x.amount \in Int
      OBVIOUS
    <3>2. (sign * x.amount) * PercentUnit \in Int
      BY <3>1, SizesAssumption
    <3>3. e.value[s] \in Int
      BY <2>1, <2>2, RangeAssumption DEF Values
    <3>4. n \in Int
      BY <3>2, <3>3
    <3>. HIDE DEF n
    <3>. QED  BY <3>4, ClampInRange
  <2>4. Add(e.value, k, x, sign) = [e.value EXCEPT ![s] = Clamp(n)]
    BY DEF Add
  <2>5. Max({e.count, x.yield + 1}) =
           IF e.count >= x.yield + 1 THEN e.count ELSE x.yield + 1
    BY <2>1, <2>2, MaxOfTwo
  <2>. DEFINE v == [e.value EXCEPT ![s] = Clamp(n)]
              m == IF e.count >= x.yield + 1 THEN e.count ELSE x.yield + 1
  <2>6. v \in Values /\ \A r \in Slots : r # s => v[r] = e.value[r]
    BY <2>2, <2>3 DEF Values
  <2>7. m \in 0 .. MaxYields /\ m >= e.count /\ m > x.yield
    BY <2>1, <2>2
  <2>8. f = [e EXCEPT !.value = v, !.count = m]
    BY <1>2, <2>4, <2>5 DEF AccumulateOne
  <2>. HIDE DEF v, m
  <2>9. /\ f \in EntryType /\ f.hydrated = h /\ f.value = v /\ f.count = m
    BY <2>2, <2>6, <2>7, <2>8 DEF EntryType
  <2>10. Covers(f)
    <3>. SUFFICES ASSUME NEW j \in Kinds, NEW y \in Yields, v[<<j, y>>] # 0
                  PROVE  y < m
      BY <2>9 DEF Covers
    <3>1. y \in Int
      BY SizesAssumption DEF Yields
    <3>2. CASE y = x.yield
      BY <2>7, <3>2, <2>1
    <3>3. CASE y # x.yield
      <4>1. <<j, y>> \in Slots /\ <<j, y>> # s
        BY <3>3 DEF Slots
      <4>2. y < e.count
        BY <2>2, <2>6, <4>1 DEF Covers
      <4>. QED  BY <2>2, <2>7, <3>1, <4>2
    <3>. QED  BY <3>2, <3>3
  <2>. QED  BY <2>9, <2>10 DEF Sound
<1>. QED  BY <1>1, <1>2

\* So do all of them, whatever they are.
LEMMA AccumulateSound ==
  ASSUME NEW h, NEW e \in Sound(h), NEW i \in Instances, NEW sign \in Int
  PROVE  Accumulate(e, i, sign) \in Sound(h)
<1>. DEFINE S == DOMAIN i.entries
            it == Chosen(e, i, sign, S)
            G == {T \in SUBSET S : it[T] \in Sound(h)}
<1>1. /\ i.kind \in Kinds /\ S \in SUBSET Int /\ IsFiniteSet(S)
      /\ \A n \in S : i.entries[n].amount \in Int
  <2>1. i.kind \in Kinds /\ i.entries \in Seq([yield : Int, amount : Int])
    BY InstancesAssumption
  <2>2. S = 1 .. Len(i.entries) /\ Len(i.entries) \in Nat
    BY <2>1
  <2>3. IsFiniteSet(1 .. Len(i.entries))
    BY <2>2, FS_Interval
  <2>4. ASSUME NEW n \in S PROVE i.entries[n].amount \in Int
    <3>1. n \in 1 .. Len(i.entries)
      BY <2>2
    <3>2. i.entries[n] \in [yield : Int, amount : Int]
      BY <2>1, <3>1, ElementOfSeq
    <3>. QED  BY <3>2
  <2>. QED  BY <2>1, <2>2, <2>3, <2>4
<1>2. Folds(e, i, sign, it, S)
  BY <1>1, ChosenFolds
<1>3. ASSUME NEW T \in SUBSET S, \A U \in SUBSET T : U # T => U \in G
      PROVE  T \in G
  <2>1. it[T] = FoldBody(e, i, sign, it, T)
    BY <1>2 DEF Folds
  <2>2. CASE T = {}
    BY <2>1, <2>2 DEF FoldBody
  <2>3. CASE T # {}
    <3>1. Max(T) \in T
      BY <1>1, <2>3, MaxIn, FS_Subset
    <3>2. it[T \ {Max(T)}] \in Sound(h)
      BY <1>3, <3>1
    <3>3. i.entries[Max(T)].amount \in Int
      BY <1>1, <3>1
    <3>4. AccumulateOne(it[T \ {Max(T)}], i.kind, i.entries[Max(T)], sign)
            \in Sound(h)
      BY <1>1, <3>2, <3>3, OneKeepsSound
    <3>. QED  BY <2>1, <2>3, <3>4 DEF FoldBody
  <2>. QED  BY <2>2, <2>3
<1>4. S \in G
  <2>. HIDE DEF G, S
  <2>. QED  BY <1>1, <1>3, SubsetInduction
<1>. QED  BY <1>4, AccumulateIsFold

LEMMA InstanceFacts ==
  ASSUME NEW i \in Instances
  PROVE  /\ i.kind \in Kinds
         /\ DOMAIN i.entries \in SUBSET Int /\ IsFiniteSet(DOMAIN i.entries)
         /\ \A n \in DOMAIN i.entries : /\ i.entries[n].amount \in Int
                                        /\ i.entries[n].yield \in Int
<1>. DEFINE S == DOMAIN i.entries
<1>1. i.kind \in Kinds /\ i.entries \in Seq([yield : Int, amount : Int])
  BY InstancesAssumption
<1>2. S = 1 .. Len(i.entries) /\ Len(i.entries) \in Nat
  BY <1>1
<1>3. IsFiniteSet(1 .. Len(i.entries))
  BY <1>2, FS_Interval
<1>4. ASSUME NEW n \in S
      PROVE  i.entries[n].amount \in Int /\ i.entries[n].yield \in Int
  <2>1. n \in 1 .. Len(i.entries)
    BY <1>2
  <2>2. i.entries[n] \in [yield : Int, amount : Int]
    BY <1>1, <2>1, ElementOfSeq
  <2>. QED  BY <2>2
<1>. QED  BY <1>1, <1>2, <1>3, <1>4

\* An effect leaves the vector of the other kind alone.
LEMMA OneKeepsOther ==
  ASSUME NEW h, NEW e \in Sound(h), NEW k \in Kinds, NEW sign \in Int,
         NEW x, NEW s \in Slots, s[1] # k
  PROVE  AccumulateOne(e, k, x, sign).value[s] = e.value[s]
<1>1. CASE ~ Plausible(x)
  BY <1>1 DEF AccumulateOne
<1>2. CASE Plausible(x)
  <2>1. e.value \in Values /\ e \in EntryType
    BY DEF Sound, EntryType
  <2>2. <<k, x.yield>> # s
    OBVIOUS
  <2>3. AccumulateOne(e, k, x, sign).value = Add(e.value, k, x, sign)
    BY <1>2, <2>1 DEF AccumulateOne, EntryType
  <2>. QED  BY <2>1, <2>2, <2>3 DEF Add, Values
<1>. QED  BY <1>1, <1>2

LEMMA AccumulateKeepsOther ==
  ASSUME NEW h, NEW e \in Sound(h), NEW i \in Instances, NEW sign \in Int,
         NEW s \in Slots, s[1] # i.kind
  PROVE  Accumulate(e, i, sign).value[s] = e.value[s]
<1>. DEFINE S == DOMAIN i.entries
            it == Chosen(e, i, sign, S)
            G == {T \in SUBSET S : it[T] \in Sound(h) /\ it[T].value[s] = e.value[s]}
<1>1. /\ i.kind \in Kinds /\ S \in SUBSET Int /\ IsFiniteSet(S)
      /\ \A n \in S : i.entries[n].amount \in Int
  BY InstanceFacts
<1>2. Folds(e, i, sign, it, S)
  BY <1>1, ChosenFolds
<1>3. ASSUME NEW T \in SUBSET S, \A U \in SUBSET T : U # T => U \in G
      PROVE  T \in G
  <2>1. it[T] = FoldBody(e, i, sign, it, T)
    BY <1>2 DEF Folds
  <2>2. CASE T = {}
    BY <2>1, <2>2 DEF FoldBody
  <2>3. CASE T # {}
    <3>. DEFINE f == it[T \ {Max(T)}]
                x == i.entries[Max(T)]
    <3>1. Max(T) \in T
      BY <1>1, <2>3, MaxIn, FS_Subset
    <3>2. f \in Sound(h) /\ f.value[s] = e.value[s]
      BY <1>3, <3>1
    <3>3. x.amount \in Int
      BY <1>1, <3>1
    <3>4. it[T] = AccumulateOne(f, i.kind, x, sign)
      BY <2>1, <2>3 DEF FoldBody
    <3>. HIDE DEF f, x, it
    <3>5. it[T] \in Sound(h)
      BY <1>1, <3>2, <3>3, <3>4, OneKeepsSound
    <3>6. it[T].value[s] = f.value[s]
      BY <1>1, <3>2, <3>4, OneKeepsOther
    <3>. QED  BY <3>2, <3>5, <3>6
  <2>. QED  BY <2>2, <2>3
<1>4. S \in G
  <2>. HIDE DEF G, S
  <2>. QED  BY <1>1, <1>3, SubsetInduction
<1>. QED  BY <1>4, AccumulateIsFold

\* The valid length of what was loaded covers it.
LEMMA LengthOfCovers ==
  ASSUME NEW v \in Values
  PROVE  /\ LengthOf(v) \in 0 .. MaxYields
         /\ \A k \in Kinds, y \in Yields : v[<<k, y>>] # 0 => y < LengthOf(v)
<1>. DEFINE used == {z \in Yields : \E k \in Kinds : v[<<k, z>>] # 0}
            S == {0} \cup {y + 1 : y \in used}
<1>1. LengthOf(v) = Max(S)
  BY DEF LengthOf
<1>2. S \in SUBSET (0 .. MaxYields) /\ S # {}
  BY SizesAssumption DEF Yields
<1>3. IsFiniteSet(S) /\ S \in SUBSET Int
  <2>1. IsFiniteSet(0 .. MaxYields)
    BY SizesAssumption, FS_Interval
  <2>2. 0 .. MaxYields \subseteq Int
    BY SizesAssumption
  <2>. HIDE DEF S
  <2>3. IsFiniteSet(S)
    BY <1>2, <2>1, FS_Subset
  <2>. QED  BY <1>2, <2>2, <2>3
<1>4. Max(S) \in S /\ \A x \in S : x <= Max(S)
  <2>. HIDE DEF S
  <2>. QED  BY <1>2, <1>3, MaxIn
<1>5. ASSUME NEW k \in Kinds, NEW y \in Yields, v[<<k, y>>] # 0
      PROVE  y < Max(S)
  <2>1. y + 1 \in S
    BY <1>5
  <2>2. y \in Int /\ Max(S) \in Int
    BY <1>2, <1>4, SizesAssumption DEF Yields
  <2>. HIDE DEF S
  <2>. QED  BY <1>4, <2>1, <2>2
<1>. HIDE DEF S
<1>. QED  BY <1>1, <1>2, <1>4, <1>5

LEMMA ZeroFacts ==
  /\ Zero \in Values /\ NewEntry \in EntryType /\ NewEntry # Nil
  /\ Covers(NewEntry) /\ ~ NewEntry.hydrated /\ NewEntry.value = Zero
  /\ \A e \in EntryType : e # Nil
<1>1. Zero \in Values
  BY RangeAssumption DEF Zero, Values
<1>2. NewEntry \in EntryType
  BY <1>1, SizesAssumption DEF NewEntry, EntryType
<1>3. Covers(NewEntry)
  BY DEF NewEntry, Covers, Zero, Slots
<1>. QED  BY <1>1, <1>2, <1>3, NilAssumption DEF NewEntry

\* Hydration: what it makes of an entry.
LEMMA SeedSound ==
  ASSUME NEW e \in EntryType, Covers(e), NEW v \in Values
  PROVE  /\ Seed(e, v) \in EntryType /\ Covers(Seed(e, v))
         /\ Seed(e, v).hydrated
         /\ e.hydrated => Seed(e, v) = e
         /\ ~ e.hydrated => Seed(e, v).value = IF v # Zero THEN v ELSE e.value
<1>1. CASE e.hydrated
  BY <1>1 DEF Seed
<1>2. CASE ~ e.hydrated /\ v # Zero
  <2>1. Seed(e, v) = [hydrated |-> TRUE, value |-> v, count |-> LengthOf(v)]
    BY <1>2 DEF Seed
  <2>. QED  BY <1>2, <2>1, LengthOfCovers DEF EntryType, Covers
<1>3. CASE ~ e.hydrated /\ v = Zero
  <2>1. Seed(e, v) = [e EXCEPT !.hydrated = TRUE]
    BY <1>3 DEF Seed
  <2>. QED  BY <1>3, <2>1 DEF EntryType, Covers
<1>. QED  BY <1>1, <1>2, <1>3

LEMMA EntryOrSound ==
  ASSUME TypeOK, EntryInv, NEW c \in Cities
  PROVE  /\ EntryOr(c) \in EntryType /\ Covers(EntryOr(c))
         /\ EntryOr(c).hydrated <=> Hydrated(c)
         /\ ~ Hydrated(c) => EntryOr(c).value = Zero
         /\ Hydrated(c) => EntryOr(c) = entry[c]
         /\ Hydrated(c) /\ Unlocked => persisted[c] = entry[c].value
<1>1. EntryOf(c) /\ entry[c] \in EntryType \cup {Nil}
  BY DEF TypeOK, EntryInv
<1>2. Unlocked => ~ Behind(c)
  BY DEF Unlocked, Behind, Unstored
<1>. QED  BY <1>1, <1>2, ZeroFacts DEF EntryOf, EntryOr, Hydrated

\* What the entry of an effect that is being stored differs in.
LEMMA BehindInOneKind ==
  ASSUME IInv, NEW t \in Threads, Unstored(t), NEW s \in Slots,
         s[1] # job[t].inst.kind
  PROVE  persisted[job[t].city][s] = entry[job[t].city].value[s]
<1>. DEFINE c == job[t].city
            i == job[t].inst
            n == job[t].sign
<1>1. PICK e \in Sound(TRUE) : e.value = persisted[c] /\ entry[c] = Accumulate(e, i, n)
  BY DEF IInv, StoreInv, StoreOf
<1>2. i \in Instances /\ n \in Int
  <2>1. job[t] \in JobType /\ i # Nil
    BY DEF IInv, TypeOK, JobInv, JobOf, JobType, Unstored
  <2>. QED  BY <2>1 DEF JobType
<1>. HIDE DEF c, i, n
<1>3. s[1] # i.kind
  BY DEF i
<1>4. Accumulate(e, i, n).value[s] = e.value[s]
  BY <1>2, <1>3, AccumulateKeepsOther
<1>. QED  BY <1>1, <1>4 DEF c

-----------------------------------------------------------------------------
(* The steps of a job.                                                     *)

\* A thread that a step leaves alone.
LEMMA JobFrame ==
  ASSUME NEW u \in Threads, JobOf(u),
         at'[u] = at[u], job'[u] = job[u], loaded'[u] = loaded[u],
         at[u] = "find" => snap'[u].city = snap[u].city,
         at[u] # "idle" =>
           /\ job[u].city \in alive => job[u].city \in alive'
           /\ job[u].city \in known => job[u].city \in known'
           /\ Hydrated(job[u].city) => Hydrated(job[u].city)'
           /\ ~ Hydrated(job[u].city) =>
                persisted'[job[u].city] = persisted[job[u].city]
  PROVE  JobOf(u)'
<1>. DEFINE c == job[u].city
<1>1. c' = c
  OBVIOUS
<1>2. CASE at[u] = "idle"
  BY <1>2 DEF JobOf
<1>3. CASE at[u] # "idle"
  BY <1>3 DEF JobOf, Hydrated
<1>. QED  BY <1>2, <1>3

\* No effect begins to store, and what one is storing is left alone.
LEMMA StoreFrame ==
  ASSUME StoreInv,
         \A u \in Threads : InStore(u)' =>
           /\ at'[u] = at[u] /\ job'[u] = job[u]
           /\ entry'[job[u].city] = entry[job[u].city]
           /\ persisted'[job[u].city] = persisted[job[u].city]
  PROVE  StoreInv'
<1>. SUFFICES ASSUME NEW t \in Threads, InStore(t)' PROVE StoreOf(t)'
  BY DEF StoreInv, StoreOf, Unstored, InStore
<1>1. /\ at'[t] = at[t] /\ job'[t] = job[t] /\ InStore(t) /\ StoreOf(t)
      /\ entry'[job[t].city] = entry[job[t].city]
      /\ persisted'[job[t].city] = persisted[job[t].city]
  BY DEF InStore, StoreInv
<1>2. \A u \in Threads : InStore(u)' => InStore(u)
  BY DEF InStore
<1>3. Unstored(t)' <=> Unstored(t)
  BY <1>1 DEF Unstored
<1>. QED  BY <1>1, <1>2, <1>3 DEF StoreOf

\* A city whose entry and persisted copy are left alone.
LEMMA EntryFrame ==
  ASSUME NEW c \in Cities, EntryOf(c), entry'[c] = entry[c],
         persisted'[c] = persisted[c], c \in known => c \in known',
         Behind(c) => Behind(c)'
  PROVE  EntryOf(c)'
BY DEF EntryOf

\* A step of t that touches neither an entry nor a persisted copy.
LEMMA QuietStep ==
  ASSUME IInv, NEW t \in Threads, UNCHANGED <<alive, known, persisted, entry>>,
         ~ InStore(t), ~ InStore(t)',
         \A u \in Threads : u # t =>
           /\ at'[u] = at[u] /\ job'[u] = job[u] /\ loaded'[u] = loaded[u]
           /\ snap'[u] = snap[u],
         JobOf(t)'
  PROVE  JobInv' /\ StoreInv' /\ EntryInv'
<1>. USE DEF IInv
<1>1. JobInv'
  <2>. SUFFICES ASSUME NEW u \in Threads, u # t PROVE JobOf(u)'
    BY DEF JobInv
  <2>2. JobOf(u)
    BY DEF JobInv
  <2>3. /\ at'[u] = at[u] /\ job'[u] = job[u] /\ loaded'[u] = loaded[u]
        /\ snap'[u] = snap[u]
    OBVIOUS
  <2>4. Hydrated(job[u].city) => Hydrated(job[u].city)'
    BY <2>3 DEF Hydrated
  <2>. QED  BY <2>2, <2>3, <2>4, JobFrame
<1>2. StoreInv'
  <2>1. \A u \in Threads : InStore(u)' => u # t
    OBVIOUS
  <2>2. \A u \in Threads : InStore(u)' =>
           /\ at'[u] = at[u] /\ job'[u] = job[u]
           /\ entry'[job[u].city] = entry[job[u].city]
           /\ persisted'[job[u].city] = persisted[job[u].city]
    BY <2>1
  <2>. QED  BY <2>2, StoreFrame
<1>3. EntryInv'
  <2>. SUFFICES ASSUME NEW c \in Cities PROVE EntryOf(c)'
    BY DEF EntryInv
  <2>1. Behind(c) => Behind(c)'
    <3>. SUFFICES ASSUME NEW u \in Threads, job[u].city = c, Unstored(u)
                  PROVE  job'[u].city = c /\ Unstored(u)'
      BY DEF Behind
    <3>1. u # t
      BY DEF Unstored, InStore
    <3>. QED  BY <3>1 DEF Unstored
  <2>. QED  BY <2>1, EntryFrame DEF EntryInv
<1>. QED  BY <1>1, <1>2, <1>3

\* A step that leaves the entries, the snapshots and their generation alone.
LEMMA SnapFrame ==
  ASSUME IInv, UNCHANGED <<entry, born, generation, snap>>, alive' \subseteq alive,
         \A t \in Threads : Taking(t) => Taking(t)',
         \A c \in Cities : Unpublished(c) => Unpublished(c)'
  PROVE  SnapInv'
BY DEF IInv, TypeOK, SnapInv, Admitted, Matches, Hydrated

LEMMA ReadKeeps ==
  ASSUME IInv, NEW t \in Threads, NEW c \in Cities, Read(t, c)
  PROVE  IInv'
<1>. USE DEF IInv
<1>. DEFINE j == [city |-> c, inst |-> Nil, sign |-> 0]
<1>1. /\ at[t] = "idle" /\ c \in alive
      /\ at' = [at EXCEPT ![t] = "hydrate"] /\ job' = [job EXCEPT ![t] = j]
      /\ UNCHANGED <<alive, known, active, missed, born, persisted, entry,
                     generation, snap, loaded>>
  BY DEF Read, Goto, world, table
<1>2. /\ at'[t] = "hydrate" /\ job'[t] = j
      /\ \A u \in Threads : u # t => at'[u] = at[u] /\ job'[u] = job[u]
  BY <1>1 DEF TypeOK
<1>3. TypeOK'
  BY <1>1 DEF TypeOK, Places
<1>4. JobOf(t)'
  BY <1>1, <1>2 DEF JobOf
<1>5. JobInv' /\ StoreInv' /\ EntryInv'
  <2>1. ~ InStore(t) /\ ~ InStore(t)'
    BY <1>1, <1>2 DEF InStore
  <2>. QED  BY <1>1, <1>2, <1>4, <2>1, QuietStep
<1>6. SnapInv'
  <2>1. \A u \in Threads : Taking(u) => Taking(u)'
    BY <1>1, <1>2 DEF Taking
  <2>2. \A d \in Cities : Unpublished(d) => Unpublished(d)'
    BY <1>1, <1>2 DEF Unpublished
  <2>. QED  BY <1>1, <2>1, <2>2, SnapFrame
<1>. QED  BY <1>3, <1>5, <1>6

LEMMA WriteKeeps ==
  ASSUME IInv, NEW t \in Threads, NEW c \in Cities, NEW i \in Instances,
         NEW s \in {-1, 1}, Write(t, c, i, s)
  PROVE  IInv'
<1>. USE DEF IInv
<1>. DEFINE j == [city |-> c, inst |-> i, sign |-> s]
<1>1. /\ at[t] = "idle" /\ c \in alive /\ c \in known
      /\ at' = [at EXCEPT ![t] = "hydrate"] /\ job' = [job EXCEPT ![t] = j]
      /\ UNCHANGED <<alive, known, active, missed, born, persisted, entry,
                     generation, snap, loaded>>
  BY DEF Write, Due, Goto, world, table
<1>2. /\ at'[t] = "hydrate" /\ job'[t] = j
      /\ \A u \in Threads : u # t => at'[u] = at[u] /\ job'[u] = job[u]
  BY <1>1 DEF TypeOK
<1>3. TypeOK'
  BY <1>1 DEF TypeOK, Places
<1>4. JobOf(t)'
  BY <1>1, <1>2 DEF JobOf
<1>5. JobInv' /\ StoreInv' /\ EntryInv'
  <2>1. ~ InStore(t) /\ ~ InStore(t)'
    BY <1>1, <1>2 DEF InStore
  <2>. QED  BY <1>1, <1>2, <1>4, <2>1, QuietStep
<1>6. SnapInv'
  <2>1. \A u \in Threads : Taking(u) => Taking(u)'
    BY <1>1, <1>2 DEF Taking
  <2>2. \A d \in Cities : Unpublished(d) => Unpublished(d)'
    BY <1>1, <1>2 DEF Unpublished
  <2>. QED  BY <1>1, <2>1, <2>2, SnapFrame
<1>. QED  BY <1>3, <1>5, <1>6

LEMMA WriteDroppedKeeps ==
  ASSUME IInv, NEW t \in Threads, NEW c \in Cities, NEW i \in Instances,
         NEW s \in {-1, 1}, WriteDropped(t, c, i, s)
  PROVE  IInv'
<1>. USE DEF IInv
<1>1. /\ UNCHANGED <<alive, known, born, persisted, entry, generation, snap, at,
                     job, loaded>>
      /\ at[t] = "idle"
  BY DEF WriteDropped, table, thread
<1>2. TypeOK'
  <2>1. active' \in [Cities -> SUBSET Instances]
    BY DEF TypeOK, WriteDropped, NowActive
  <2>2. missed' \in [Cities -> [Instances -> Int]]
    BY DEF TypeOK, WriteDropped
  <2>. QED  BY <1>1, <2>1, <2>2 DEF TypeOK
<1>3. JobOf(t)'
  BY <1>1 DEF JobInv, JobOf
<1>4. JobInv' /\ StoreInv' /\ EntryInv'
  <2>1. ~ InStore(t) /\ ~ InStore(t)'
    BY <1>1 DEF InStore
  <2>. QED  BY <1>1, <1>3, <2>1, QuietStep
<1>5. SnapInv'
  <2>1. \A u \in Threads : Taking(u) => Taking(u)'
    BY <1>1 DEF Taking
  <2>2. \A d \in Cities : Unpublished(d) => Unpublished(d)'
    BY <1>1 DEF Unpublished
  <2>. QED  BY <1>1, <2>1, <2>2, SnapFrame
<1>. QED  BY <1>2, <1>4, <1>5

LEMMA HydrateKeeps ==
  ASSUME IInv, NEW t \in Threads, Hydrate(t)
  PROVE  IInv'
<1>. USE DEF IInv
<1>. DEFINE c == job[t].city
            l == at'[t]
<1>1. /\ at[t] = "hydrate"
      /\ UNCHANGED <<alive, known, active, missed, born, persisted, entry,
                     generation, snap, job, loaded>>
  BY DEF Hydrate, world, table
<1>2. /\ at' = [at EXCEPT ![t] = l]
      /\ \/ l = "load1" /\ c \in known
         \/ l = "stamp"
         \/ l = "edit" /\ job[t].inst # Nil /\ (Hydrated(c) \/ c \notin known)
  BY DEF Hydrate, Goto, AfterHydrate, Hydrated, TypeOK
<1>. HIDE DEF l
<1>3. at'[t] = l /\ \A u \in Threads : u # t => at'[u] = at[u]
  BY <1>2 DEF TypeOK
<1>4. JobOf(t) /\ c \in alive
  BY <1>1 DEF JobInv, JobOf
<1>5. TypeOK'
  <2>1. l \in Places
    BY <1>2 DEF Places
  <2>. QED  BY <1>1, <1>2, <2>1 DEF TypeOK
<1>6. JobOf(t)'
  BY <1>1, <1>2, <1>3, <1>4 DEF JobOf, Hydrated
<1>7. JobInv' /\ StoreInv' /\ EntryInv'
  <2>1. ~ InStore(t) /\ ~ InStore(t)'
    BY <1>1, <1>2, <1>3 DEF InStore
  <2>. QED  BY <1>1, <1>3, <1>6, <2>1, QuietStep
<1>8. SnapInv'
  <2>1. \A u \in Threads : Taking(u) => Taking(u)'
    BY <1>1, <1>3 DEF Taking
  <2>2. \A d \in Cities : Unpublished(d) => Unpublished(d)'
    BY <1>1, <1>3 DEF Unpublished
  <2>. QED  BY <1>1, <2>1, <2>2, SnapFrame
<1>. QED  BY <1>5, <1>7, <1>8

\* While the entry is not hydrated nobody stores, so that the two vectors
\* belong together although no lock is held between them.
LEMMA LoadKeeps ==
  ASSUME IInv, NEW t \in Threads, NEW k \in Kinds, LoadVector(t, k)
  PROVE  IInv'
<1>. USE DEF IInv
<1>. DEFINE c == job[t].city
            v == WithKind(loaded[t], k, persisted[c])
            l == IF k = "population" THEN "load2" ELSE "seed"
<1>1. /\ at[t] = Loading[k] /\ at' = [at EXCEPT ![t] = l]
      /\ loaded' = [loaded EXCEPT ![t] = v]
      /\ UNCHANGED <<alive, known, active, missed, born, persisted, entry,
                     generation, snap, job>>
  BY DEF LoadVector, Goto, world, table
<1>2. k = "population" \/ k = "suzerain"
  BY DEF Kinds
<1>3. /\ k = "population" => at[t] = "load1" /\ l = "load2"
      /\ k = "suzerain" => at[t] = "load2" /\ l = "seed"
  BY <1>1 DEF Loading
<1>4. /\ c \in alive /\ c \in known /\ c \in Cities
      /\ persisted[c] \in Values /\ loaded[t] \in Values
  BY <1>2, <1>3 DEF JobInv, JobOf, TypeOK
<1>5. /\ v \in Values
      /\ \A s \in Slots : v[s] = IF s[1] = k THEN persisted[c][s] ELSE loaded[t][s]
  BY <1>4 DEF WithKind, Values
<1>. HIDE DEF v, l
<1>6. /\ at'[t] = l /\ loaded'[t] = v
      /\ \A u \in Threads : u # t => at'[u] = at[u] /\ loaded'[u] = loaded[u]
  BY <1>1 DEF TypeOK
<1>7. TypeOK'
  <2>1. l \in Places
    BY <1>2, <1>3 DEF Places
  <2>. QED  BY <1>1, <1>5, <2>1 DEF TypeOK
<1>8. JobOf(t)'
  <2>1. JobOf(t)
    BY DEF JobInv
  <2>2. CASE k = "population"
    BY <1>1, <1>3, <1>4, <1>5, <1>6, <2>1, <2>2 DEF JobOf, Hydrated
  <2>3. CASE k = "suzerain"
    <3>1. ~ Hydrated(c) => v = persisted[c]
      <4>. SUFFICES ASSUME ~ Hydrated(c), NEW s \in Slots
                    PROVE  v[s] = persisted[c][s]
        BY <1>4, <1>5 DEF Values
      <4>1. s[1] = "population" \/ s[1] = k
        BY <2>3 DEF Slots, Kinds
      <4>2. s[1] = "population" => loaded[t][s] = persisted[c][s]
        BY <1>3, <2>1, <2>3 DEF JobOf
      <4>. QED  BY <1>5, <4>1, <4>2
    <3>. QED  BY <1>1, <1>3, <1>4, <1>6, <2>1, <2>3, <3>1 DEF JobOf, Hydrated
  <2>. QED  BY <1>2, <2>2, <2>3
<1>9. JobInv' /\ StoreInv' /\ EntryInv'
  <2>1. ~ InStore(t) /\ ~ InStore(t)'
    BY <1>2, <1>3, <1>6 DEF InStore
  <2>. QED  BY <1>1, <1>6, <1>8, <2>1, QuietStep
<1>10. SnapInv'
  <2>1. at[t] \in {"load1", "load2"}
    BY <1>2, <1>3
  <2>2. \A u \in Threads : Taking(u) => Taking(u)'
    BY <1>6, <2>1 DEF Taking
  <2>3. \A d \in Cities : Unpublished(d) => Unpublished(d)'
    BY <1>1, <1>6, <2>1 DEF Unpublished
  <2>. QED  BY <1>1, <2>2, <2>3, SnapFrame
<1>. QED  BY <1>7, <1>9, <1>10

\* What hydration is about to put into an entry is what a save would store.
LEMMA SeedEntryKeeps ==
  ASSUME IInv, NEW t \in Threads, SeedEntry(t)
  PROVE  IInv'
<1>. USE DEF IInv
<1>. DEFINE c == job[t].city
            e == EntryOr(c)
            f == Seed(e, loaded[t])
            seeded == ~ e.hydrated /\ loaded[t] # Zero
            l == IF seeded THEN "seeded" ELSE AfterHydrate(t)
<1>1. /\ at[t] = "seed" /\ Unlocked
      /\ entry' = [entry EXCEPT ![c] = f]
      /\ loaded' = [loaded EXCEPT ![t] = Zero]
      /\ at' = [at EXCEPT ![t] = l]
      /\ UNCHANGED <<alive, known, active, missed, born, persisted, generation,
                     snap, job>>
  BY DEF SeedEntry, Goto, world
<1>2. /\ JobOf(t) /\ c \in alive /\ c \in known /\ c \in Cities
      /\ loaded[t] \in Values
      /\ ~ Hydrated(c) => loaded[t] = persisted[c]
  BY <1>1 DEF JobInv, JobOf, TypeOK
<1>3. /\ e \in EntryType /\ Covers(e)
      /\ e.hydrated <=> Hydrated(c)
      /\ ~ Hydrated(c) => e.value = Zero
      /\ Hydrated(c) => e = entry[c] /\ persisted[c] = entry[c].value
  BY <1>1, <1>2, EntryOrSound
<1>4. /\ f \in EntryType /\ Covers(f) /\ f.hydrated /\ f # Nil
      /\ Hydrated(c) => f = entry[c]
      /\ f.value = persisted[c]
  BY <1>2, <1>3, SeedSound, ZeroFacts
<1>5. l \in {"seeded", "stamp", "edit"} /\ (l = "edit" => job[t].inst # Nil)
  BY DEF AfterHydrate
<1>. HIDE DEF f, e, seeded, l
<1>6. /\ \A d \in Cities : entry'[d] = IF d = c THEN f ELSE entry[d]
      /\ Hydrated(c)' /\ \A d \in Cities : Hydrated(d) => Hydrated(d)'
      /\ at'[t] = l
      /\ \A u \in Threads : u # t => at'[u] = at[u] /\ loaded'[u] = loaded[u]
  BY <1>1, <1>2, <1>4 DEF TypeOK, Hydrated
<1>7. TypeOK'
  <2>1. l \in Places
    BY <1>5 DEF Places
  <2>. QED  BY <1>1, <1>4, <2>1, ZeroFacts DEF TypeOK
<1>8. JobInv'
  <2>. SUFFICES ASSUME NEW u \in Threads PROVE JobOf(u)'
    BY DEF JobInv
  <2>1. CASE u = t
    <3>1. Hydrated(job[t].city)'
      BY <1>1, <1>6
    <3>. QED  BY <1>1, <1>2, <1>5, <1>6, <2>1, <3>1 DEF JobOf
  <2>2. CASE u # t
    <3>1. JobOf(u) /\ (at[u] # "idle" => job[u].city \in Cities)
      BY DEF JobInv, JobOf, TypeOK
    <3>2. at[u] # "idle" => (Hydrated(job[u].city) => Hydrated(job[u].city)')
      BY <1>1, <1>6, <3>1
    <3>. QED  BY <1>1, <1>6, <2>2, <3>1, <3>2, JobFrame
  <2>. QED  BY <2>1, <2>2
<1>9. StoreInv'
  <2>1. \A u \in Threads : ~ InStore(u)'
    BY <1>1, <1>5, <1>6 DEF InStore, Unlocked
  <2>. QED  BY <2>1, StoreFrame
<1>10. EntryInv'
  <2>. SUFFICES ASSUME NEW d \in Cities PROVE EntryOf(d)'
    BY DEF EntryInv
  <2>1. CASE d = c
    BY <1>1, <1>2, <1>4, <1>6, <2>1 DEF EntryOf
  <2>2. CASE d # c
    <3>1. ~ Behind(d)
      BY <1>1 DEF Behind, Unstored, Unlocked
    <3>. QED  BY <1>1, <1>6, <2>2, <3>1, EntryFrame DEF EntryInv
  <2>. QED  BY <2>1, <2>2
<1>11. SnapInv'
  <2>. SUFFICES ASSUME NEW u \in Threads, NEW d \in Cities,
                       Admitted(u, d)', ~ Unpublished(d)'
                PROVE  Hydrated(d)' /\ entry'[d].value = snap[u].entry.value
    BY <1>1 DEF SnapInv
  <2>1. Admitted(u, d)
    <3>1. Taking(u)' <=> Taking(u)
      BY <1>1, <1>5, <1>6 DEF Taking
    <3>. QED  BY <3>1, <1>1 DEF Admitted, Matches
  <2>2. ~ Unpublished(d)
    BY <1>1, <1>6 DEF Unpublished
  <2>3. Hydrated(d) /\ entry[d].value = snap[u].entry.value
    BY <2>1, <2>2 DEF SnapInv
  <2>. QED  BY <2>3, <1>4, <1>6
<1>. QED  BY <1>7, <1>8, <1>9, <1>10, <1>11

\* After a bump no snapshot is admitted.
LEMMA BumpSnap ==
  ASSUME IInv, NEW t \in Threads, Bump(t),
         \A c \in Cities : born'[c] \in Int /\ born'[c] >= born[c]
  PROVE  /\ generation' \in 0 .. MaxBumps
         /\ snap' \in [Threads -> SnapType]
         /\ \A u \in Threads : snap'[u] = IF u = t THEN NoSnap ELSE snap[u]
         /\ SnapInv'
<1>1. /\ generation' = generation + 1 /\ generation \in 0 .. MaxBumps - 1
      /\ snap' = [snap EXCEPT ![t] = NoSnap]
  BY SizesAssumption DEF Bump, IInv, TypeOK
<1>2. NoSnap \in SnapType
  BY SizesAssumption DEF NoSnap, SnapType
<1>3. NoSnap.gen = 0 /\ NoSnap.entry = Nil /\ NoSnap.city = Nil
  BY DEF NoSnap
<1>. HIDE DEF NoSnap
<1>4. /\ snap' \in [Threads -> SnapType]
      /\ \A u \in Threads : snap'[u] = IF u = t THEN NoSnap ELSE snap[u]
  BY <1>1, <1>2 DEF IInv, TypeOK, SnapType
<1>5. ASSUME NEW u \in Threads
      PROVE  /\ snap'[u].gen < generation'
             /\ snap'[u].entry # Nil => Covers(snap'[u].entry)
             /\ \A c \in Cities : snap'[u].city = c => snap'[u].born <= born'[c]
  <2>1. CASE u = t
    BY <2>1, <1>1, <1>3, <1>4, NilAssumption, SizesAssumption
  <2>2. CASE u # t
    <3>1. /\ snap'[u] = snap[u] /\ snap[u].gen <= generation
          /\ snap[u].gen \in Int /\ snap[u].born \in Int
          /\ snap[u].entry # Nil => Covers(snap[u].entry)
          /\ \A c \in Cities : snap[u].city = c => snap[u].born <= born[c]
          /\ \A c \in Cities : born[c] \in Int
      BY <2>2, <1>4 DEF IInv, TypeOK, SnapInv
    <3>. QED  BY <3>1, <1>1
  <2>. QED  BY <2>1, <2>2
<1>6. generation' \in Int /\ \A u \in Threads : snap'[u].gen \in Int
  BY <1>1, <1>4, SizesAssumption DEF SnapType
<1>7. \A u \in Threads, c \in Cities : ~ Admitted(u, c)'
  BY <1>5, <1>6 DEF Admitted, Matches
<1>8. SnapInv'
  BY <1>5, <1>6, <1>7 DEF SnapInv
<1>. QED  BY <1>1, <1>4, <1>8, SizesAssumption

LEMMA BumpSeededKeeps ==
  ASSUME IInv, NEW t \in Threads, BumpSeeded(t)
  PROVE  IInv'
<1>. USE DEF IInv
<1>. DEFINE l == AfterHydrate(t)
<1>1. /\ at[t] = "seeded" /\ Bump(t)
      /\ at' = [at EXCEPT ![t] = l]
      /\ UNCHANGED <<alive, known, active, missed, born, persisted, entry, job,
                     loaded>>
  BY DEF BumpSeeded, Goto, world, table
<1>2. l \in {"stamp", "edit"} /\ (l = "edit" => job[t].inst # Nil)
  BY DEF AfterHydrate
<1>. HIDE DEF l
<1>3. \A c \in Cities : born'[c] \in Int /\ born'[c] >= born[c]
  BY <1>1 DEF TypeOK
<1>4. /\ generation' \in 0 .. MaxBumps /\ snap' \in [Threads -> SnapType]
      /\ \A u \in Threads : snap'[u] = IF u = t THEN NoSnap ELSE snap[u]
      /\ SnapInv'
  BY <1>1, <1>3, BumpSnap
<1>5. at'[t] = l /\ \A u \in Threads : u # t => at'[u] = at[u]
  BY <1>1 DEF TypeOK
<1>6. TypeOK'
  <2>1. l \in Places
    BY <1>2 DEF Places
  <2>. QED  BY <1>1, <1>4, <2>1 DEF TypeOK, SnapType
<1>7. JobOf(t)'
  <2>1. JobOf(t)
    BY DEF JobInv
  <2>. QED  BY <1>1, <1>2, <1>5, <2>1 DEF JobOf, Hydrated
<1>8. JobInv' /\ StoreInv' /\ EntryInv'
  <2>1. ~ InStore(t) /\ ~ InStore(t)'
    BY <1>1, <1>2, <1>5 DEF InStore
  <2>. QED  BY <1>1, <1>4, <1>5, <1>7, <2>1, QuietStep
<1>. QED  BY <1>4, <1>6, <1>8

LEMMA StampKeeps ==
  ASSUME IInv, NEW t \in Threads, Stamp(t)
  PROVE  IInv'
<1>. USE DEF IInv
<1>. DEFINE c == job[t].city
<1>1. /\ at[t] = "stamp" /\ at' = [at EXCEPT ![t] = "find"]
      /\ snap' = [snap EXCEPT ![t].gen = generation, ![t].city = c,
                              ![t].born = born[c]]
      /\ UNCHANGED <<alive, known, active, missed, born, persisted, entry,
                     generation, job, loaded>>
  BY DEF Stamp, Goto, world, table
<1>2. JobOf(t) /\ c \in alive /\ c \in Cities /\ born[c] \in 0 .. MaxBirths
  BY <1>1 DEF JobInv, JobOf, TypeOK
<1>3. /\ \A u \in Threads : u # t => snap'[u] = snap[u]
      /\ snap'[t] = [snap[t] EXCEPT !.gen = generation, !.city = c,
                                    !.born = born[c]]
      /\ at'[t] = "find" /\ \A u \in Threads : u # t => at'[u] = at[u]
  BY <1>1 DEF TypeOK
<1>4. /\ snap'[t].gen = generation /\ snap'[t].city = c
      /\ snap'[t].born = born[c] /\ snap'[t].entry = snap[t].entry
      /\ snap'[t] \in SnapType
  <2>1. snap[t] \in SnapType /\ generation \in 0 .. MaxBumps
    BY DEF TypeOK, SnapType
  <2>. QED  BY <1>2, <1>3, <2>1 DEF SnapType
<1>5. TypeOK'
  <2>1. snap' \in [Threads -> SnapType]
    BY <1>1, <1>3, <1>4 DEF TypeOK, SnapType
  <2>. QED  BY <1>1, <2>1 DEF TypeOK, SnapType, Places
<1>6. JobOf(t)'
  BY <1>1, <1>2, <1>3, <1>4 DEF JobOf
<1>7. JobInv' /\ StoreInv' /\ EntryInv'
  <2>1. ~ InStore(t) /\ ~ InStore(t)'
    BY <1>1, <1>3 DEF InStore
  <2>. QED  BY <1>1, <1>3, <1>6, <2>1, QuietStep
<1>8. SnapInv'
  <2>1. \A d \in Cities : Unpublished(d) => Unpublished(d)'
    BY <1>1, <1>3 DEF Unpublished
  <2>2. ASSUME NEW u \in Threads, NEW d \in Cities,
               Admitted(u, d)', ~ Unpublished(d)'
        PROVE  Hydrated(d)' /\ entry'[d].value = snap'[u].entry.value
    <3>1. u # t
      BY <1>3, <2>2 DEF Admitted, Taking
    <3>2. Admitted(u, d)
      BY <1>1, <1>3, <2>2, <3>1 DEF Admitted, Matches, Taking
    <3>3. Hydrated(d) /\ entry[d].value = snap[u].entry.value
      BY <2>1, <2>2, <3>2 DEF SnapInv
    <3>. QED
      BY <1>1, <1>3, <3>1, <3>3 DEF Hydrated
  <2>3. ASSUME NEW u \in Threads
        PROVE  /\ snap'[u].gen <= generation
               /\ snap'[u].entry # Nil => Covers(snap'[u].entry)
               /\ \A d \in Cities : snap'[u].city = d => snap'[u].born <= born[d]
    <3>1. CASE u = t
      BY <3>1, <1>2, <1>4 DEF SnapInv, TypeOK
    <3>2. CASE u # t
      BY <3>2, <1>3 DEF SnapInv
    <3>. QED  BY <3>1, <3>2
  <2>. QED  BY <1>1, <2>2, <2>3 DEF SnapInv
<1>. QED  BY <1>5, <1>7, <1>8

\* What a job leaves behind when it ends.
LEMMA FinishTypes ==
  ASSUME IInv, NEW t \in Threads, Finish(t)
  PROVE  /\ at' \in [Threads -> Places] /\ job' \in [Threads -> JobType]
         /\ loaded' \in [Threads -> Values]
         /\ at'[t] = "idle" /\ JobOf(t)' /\ ~ InStore(t)'
         /\ \A u \in Threads : u # t => /\ at'[u] = at[u] /\ job'[u] = job[u]
                                        /\ loaded'[u] = loaded[u]
<1>1. NoJob \in JobType /\ NoJob.inst = Nil
  BY DEF NoJob, JobType
<1>2. Zero \in Values /\ "idle" \in Places
  BY ZeroFacts DEF Places
<1>. HIDE DEF NoJob, Zero
<1>3. /\ at' \in [Threads -> Places] /\ job' \in [Threads -> JobType]
      /\ loaded' \in [Threads -> Values]
      /\ at'[t] = "idle" /\ job'[t].inst = Nil
      /\ \A u \in Threads : u # t => /\ at'[u] = at[u] /\ job'[u] = job[u]
                                     /\ loaded'[u] = loaded[u]
  BY <1>1, <1>2 DEF IInv, TypeOK, JobType, Finish, Goto
<1>. QED  BY <1>3 DEF JobOf, InStore

LEMMA CopyKeeps ==
  ASSUME IInv, NEW t \in Threads, Copy(t)
  PROVE  IInv'
<1>. USE DEF IInv
<1>. DEFINE c == job[t].city
<1>1. /\ at[t] = "find" /\ Finish(t)
      /\ snap' = [snap EXCEPT ![t].entry = entry[c]]
      /\ UNCHANGED <<alive, known, active, missed, born, persisted, entry,
                     generation>>
  BY DEF Copy, world, table
<1>2. /\ c \in alive /\ c \in Cities /\ snap[t].city = c
      /\ entry[c] \in EntryType \cup {Nil}
  BY <1>1 DEF JobInv, JobOf, TypeOK
<1>3. /\ \A u \in Threads : u # t => snap'[u] = snap[u]
      /\ snap'[t] = [snap[t] EXCEPT !.entry = entry[c]]
  BY <1>1 DEF TypeOK
<1>4. /\ snap'[t].gen = snap[t].gen /\ snap'[t].city = c
      /\ snap'[t].born = snap[t].born /\ snap'[t].entry = entry[c]
      /\ snap'[t] \in SnapType
  <2>1. snap[t] \in SnapType
    BY DEF TypeOK, SnapType
  <2>. QED  BY <1>2, <1>3, <2>1 DEF SnapType
<1>5. /\ at' \in [Threads -> Places] /\ job' \in [Threads -> JobType]
      /\ loaded' \in [Threads -> Values]
      /\ at'[t] = "idle" /\ JobOf(t)' /\ ~ InStore(t)'
      /\ \A u \in Threads : u # t => /\ at'[u] = at[u] /\ job'[u] = job[u]
                                     /\ loaded'[u] = loaded[u]
  BY <1>1, FinishTypes
<1>6. TypeOK'
  <2>1. snap' \in [Threads -> SnapType]
    BY <1>1, <1>3, <1>4 DEF TypeOK, SnapType
  <2>. QED  BY <1>1, <1>5, <2>1 DEF TypeOK, SnapType, JobType
<1>7. JobInv' /\ StoreInv' /\ EntryInv'
  <2>1. ~ InStore(t)
    BY <1>1 DEF InStore
  <2>. QED  BY <1>1, <1>3, <1>5, <2>1, QuietStep
<1>8. SnapInv'
  <2>1. \A d \in Cities : Unpublished(d) => Unpublished(d)'
    BY <1>1, <1>5 DEF Unpublished
  <2>2. ASSUME NEW u \in Threads, NEW d \in Cities,
               Admitted(u, d)', ~ Unpublished(d)'
        PROVE  Hydrated(d)' /\ entry'[d].value = snap'[u].entry.value
    <3>1. CASE u = t
      <4>1. d = c /\ entry[c] # Nil /\ entry[c].hydrated
        BY <1>4, <2>2, <3>1 DEF Admitted, Matches
      <4>. QED  BY <1>1, <1>4, <3>1, <4>1 DEF Hydrated
    <3>2. CASE u # t
      <4>1. Admitted(u, d)
        BY <1>1, <1>3, <1>5, <2>2, <3>2 DEF Admitted, Matches, Taking
      <4>2. Hydrated(d) /\ entry[d].value = snap[u].entry.value
        BY <2>1, <2>2, <4>1 DEF SnapInv
      <4>. QED  BY <1>1, <1>3, <3>2, <4>2 DEF Hydrated
    <3>. QED  BY <3>1, <3>2
  <2>3. ASSUME NEW u \in Threads
        PROVE  /\ snap'[u].gen <= generation
               /\ snap'[u].entry # Nil => Covers(snap'[u].entry)
               /\ \A d \in Cities : snap'[u].city = d => snap'[u].born <= born[d]
    <3>1. CASE u = t
      BY <3>1, <1>2, <1>4 DEF SnapInv, EntryInv, EntryOf
    <3>2. CASE u # t
      BY <3>2, <1>3 DEF SnapInv
    <3>. QED  BY <3>1, <3>2
  <2>. QED  BY <1>1, <2>2, <2>3 DEF SnapInv
<1>. QED  BY <1>6, <1>7, <1>8


\* The entry is edited, and until its vectors are stored the persisted copy is
\* what it was before.
LEMMA EditKeeps ==
  ASSUME IInv, NEW t \in Threads, Edit(t)
  PROVE  IInv'
<1>. USE DEF IInv
<1>. DEFINE c == job[t].city
            i == job[t].inst
            n == job[t].sign
            e == EntryOr(c)
            f == Accumulate(e, i, n)
<1>1. /\ at[t] = "edit" /\ Unlocked /\ at' = [at EXCEPT ![t] = "store1"]
      /\ entry' = [entry EXCEPT ![c] = f]
      /\ UNCHANGED <<alive, known, active, missed, born, persisted, generation,
                     snap, job, loaded>>
  BY DEF Edit, Goto, world
<1>2. /\ JobOf(t) /\ c \in alive /\ c \in Cities /\ c \in known /\ Hydrated(c)
      /\ i \in Instances /\ n \in Int
  <2>1. job[t] \in JobType
    BY DEF TypeOK, JobType
  <2>2. JobOf(t) /\ c \in alive /\ i # Nil /\ c \in known /\ Hydrated(c)
    BY <1>1 DEF JobInv, JobOf
  <2>3. n \in Int /\ i \in Instances
    BY <2>1, <2>2 DEF JobType
  <2>. QED  BY <2>2, <2>3 DEF TypeOK
<1>3. e \in Sound(TRUE) /\ e.value = persisted[c]
  BY <1>1, <1>2, EntryOrSound DEF Sound, EntryType
<1>4. f \in EntryType /\ f.hydrated /\ Covers(f) /\ f # Nil
  <2>. HIDE DEF e, i, n
  <2>1. f \in Sound(TRUE)
    BY <1>2, <1>3, AccumulateSound
  <2>. QED  BY <2>1, ZeroFacts DEF Sound
<1>. HIDE DEF e, f
<1>5. /\ \A d \in Cities : entry'[d] = IF d = c THEN f ELSE entry[d]
      /\ \A d \in Cities : Hydrated(d)' <=> Hydrated(d)
      /\ at'[t] = "store1" /\ \A u \in Threads : u # t => at'[u] = at[u]
  BY <1>1, <1>2, <1>4 DEF TypeOK, Hydrated
<1>6. TypeOK'
  BY <1>1, <1>4 DEF TypeOK, Places
<1>7. JobInv'
  <2>. SUFFICES ASSUME NEW u \in Threads PROVE JobOf(u)'
    BY DEF JobInv
  <2>1. CASE u = t
    <3>1. Hydrated(job[t].city)'
      BY <1>1, <1>2, <1>5
    <3>. QED  BY <1>1, <1>2, <1>5, <2>1, <3>1 DEF JobOf
  <2>2. CASE u # t
    <3>1. JobOf(u) /\ (at[u] # "idle" => job[u].city \in Cities)
      BY DEF JobInv, JobOf, TypeOK
    <3>2. at[u] # "idle" => (Hydrated(job[u].city) => Hydrated(job[u].city)')
      BY <1>1, <1>5, <3>1
    <3>. QED  BY <1>1, <1>5, <2>2, <3>1, <3>2, JobFrame
  <2>. QED  BY <2>1, <2>2
<1>8. StoreInv'
  <2>. SUFFICES ASSUME NEW u \in Threads PROVE StoreOf(u)'
    BY DEF StoreInv
  <2>1. \A v \in Threads : v # t => ~ InStore(v)'
    BY <1>1, <1>5 DEF InStore, Unlocked
  <2>2. CASE u = t
    <3>1. entry'[c] = Accumulate(e, i, n)
      BY <1>2, <1>5 DEF f
    <3>. QED  BY <1>1, <1>3, <2>1, <2>2, <3>1 DEF StoreOf, Unstored
  <2>3. CASE u # t
    BY <2>1, <2>3 DEF StoreOf, Unstored, InStore
  <2>. QED  BY <2>2, <2>3
<1>9. EntryInv'
  <2>. SUFFICES ASSUME NEW d \in Cities PROVE EntryOf(d)'
    BY DEF EntryInv
  <2>1. CASE d = c
    <3>1. Behind(c)'
      BY <1>1, <1>5 DEF Behind, Unstored
    <3>. QED  BY <1>1, <1>2, <1>4, <1>5, <2>1, <3>1 DEF EntryOf
  <2>2. CASE d # c
    <3>1. ~ Behind(d)
      BY <1>1 DEF Behind, Unstored, Unlocked
    <3>. QED  BY <1>1, <1>5, <2>2, <3>1, EntryFrame DEF EntryInv
  <2>. QED  BY <2>1, <2>2
<1>10. SnapInv'
  <2>. SUFFICES ASSUME NEW u \in Threads, NEW d \in Cities,
                       Admitted(u, d)', ~ Unpublished(d)'
                PROVE  Hydrated(d)' /\ entry'[d].value = snap[u].entry.value
    BY <1>1 DEF SnapInv
  <2>1. d # c
    BY <1>1, <1>5 DEF Unpublished
  <2>2. Admitted(u, d)
    BY <1>1, <1>5 DEF Admitted, Matches, Taking
  <2>3. ~ Unpublished(d)
    BY <1>1, <1>5 DEF Unpublished
  <2>4. Hydrated(d) /\ entry[d].value = snap[u].entry.value
    BY <2>2, <2>3 DEF SnapInv
  <2>. QED  BY <1>5, <2>1, <2>4
<1>. QED  BY <1>6, <1>7, <1>8, <1>9, <1>10

\* What a store changes in the persisted copy: everything the entry has when
\* the vector is of the effect's kind, and nothing otherwise.
LEMMA StoreEffect ==
  ASSUME IInv, NEW t \in Threads, NEW k \in Kinds, StoreVector(t, k)
  PROVE  /\ job[t].city \in alive /\ job[t].city \in Cities
         /\ job[t].inst \in Instances /\ Hydrated(job[t].city)
         /\ entry[job[t].city].value \in Values
         /\ IF job[t].inst.kind = k
            THEN /\ Unstored(t)
                 /\ persisted' = [persisted EXCEPT
                                    ![job[t].city] = entry[job[t].city].value]
            ELSE persisted' = persisted
<1>. USE DEF IInv
<1>. DEFINE c == job[t].city
            i == job[t].inst
            v == WithKind(persisted[c], k, entry[c].value)
<1>1. at[t] = Storing[k] /\ persisted' = [persisted EXCEPT ![c] = v]
  BY DEF StoreVector
<1>2. /\ \/ k = "population" /\ at[t] = "store1"
         \/ k = "suzerain" /\ at[t] = "store2"
      /\ InStore(t)
  BY <1>1 DEF Kinds, Storing, InStore
<1>3. /\ c \in alive /\ c \in Cities /\ i # Nil /\ Hydrated(c)
      /\ persisted[c] \in Values
  BY <1>2 DEF JobInv, JobOf, TypeOK, InStore
<1>4. i \in Instances /\ i.kind \in Kinds /\ entry[c].value \in Values
  <2>1. job[t] \in JobType
    BY DEF TypeOK, JobType
  <2>2. entry[c] \in EntryType
    BY <1>3 DEF TypeOK, Hydrated
  <2>. QED  BY <1>3, <2>1, <2>2, InstancesAssumption DEF JobType, EntryType
<1>5. \A s \in Slots : v[s] = IF s[1] = k THEN entry[c].value[s] ELSE persisted[c][s]
  BY DEF WithKind
<1>6. v \in Values
  BY <1>3, <1>4, <1>5 DEF WithKind, Values
<1>. HIDE DEF v
<1>7. CASE i.kind = k
  <2>1. Unstored(t)
    BY <1>2, <1>7 DEF Unstored
  <2>2. ASSUME NEW s \in Slots PROVE v[s] = entry[c].value[s]
    <3>1. s[1] # i.kind => persisted[c][s] = entry[c].value[s]
      BY <2>1, BehindInOneKind
    <3>. QED  BY <1>5, <1>7, <3>1
  <2>3. v = entry[c].value
    BY <1>4, <1>6, <2>2 DEF Values
  <2>. QED  BY <1>1, <1>3, <1>4, <1>7, <2>1, <2>3
<1>8. CASE i.kind # k
  <2>1. ASSUME NEW s \in Slots, s[1] = k
        PROVE  entry[c].value[s] = persisted[c][s]
    <3>1. CASE Unstored(t)
      BY <1>8, <2>1, <3>1, BehindInOneKind
    <3>2. CASE ~ Unstored(t)
      <4>1. ~ Behind(c)
        BY <1>2, <3>2 DEF Behind, StoreInv, StoreOf, Unstored, InStore
      <4>. QED  BY <1>3, <4>1 DEF EntryInv, EntryOf, Hydrated
    <3>. QED  BY <3>1, <3>2
  <2>2. v = persisted[c]
    BY <1>3, <1>5, <1>6, <2>1 DEF Values
  <2>. QED  BY <1>1, <1>3, <1>4, <1>8, <2>2 DEF TypeOK
<1>. QED  BY <1>7, <1>8

LEMMA StoreKeeps ==
  ASSUME IInv, NEW t \in Threads, NEW k \in Kinds, StoreVector(t, k)
  PROVE  IInv'
<1>. USE DEF IInv
<1>. DEFINE c == job[t].city
            l == IF k = "population" THEN "store2" ELSE "notify"
            w == entry[c].value
<1>1. /\ at[t] = Storing[k] /\ at' = [at EXCEPT ![t] = l]
      /\ IF job[t].inst.kind = k THEN NowActive(c, job[t].inst, job[t].sign)
         ELSE UNCHANGED active
      /\ UNCHANGED <<alive, known, missed, born, entry, generation, snap, job,
                     loaded>>
  BY DEF StoreVector, Goto
<1>2. /\ c \in alive /\ c \in Cities /\ job[t].inst \in Instances
      /\ Hydrated(c) /\ w \in Values
      /\ IF job[t].inst.kind = k
         THEN Unstored(t) /\ persisted' = [persisted EXCEPT ![c] = w]
         ELSE persisted' = persisted
  BY StoreEffect
<1>3. \/ k = "population" /\ at[t] = "store1" /\ l = "store2"
      \/ k = "suzerain" /\ at[t] = "store2" /\ l = "notify"
  BY <1>1 DEF Kinds, Storing
<1>. HIDE DEF l
<1>4. /\ at'[t] = l /\ \A u \in Threads : u # t => at'[u] = at[u]
      /\ \A d \in Cities : d # c => persisted'[d] = persisted[d]
      /\ job[t].inst.kind = k => persisted'[c] = w
  BY <1>1, <1>2 DEF TypeOK
<1>5. TypeOK'
  <2>1. persisted' \in [Cities -> Values]
    BY <1>2 DEF TypeOK
  <2>2. active' \in [Cities -> SUBSET Instances]
    BY <1>1, <1>2 DEF TypeOK, NowActive
  <2>3. at' \in [Threads -> Places]
    BY <1>1, <1>3 DEF TypeOK, Places
  <2>. QED  BY <1>1, <2>1, <2>2, <2>3 DEF TypeOK
<1>6. JobInv'
  <2>. SUFFICES ASSUME NEW u \in Threads PROVE JobOf(u)'
    BY DEF JobInv
  <2>1. JobOf(u)
    BY DEF JobInv
  <2>2. \A d : Hydrated(d)' <=> Hydrated(d)
    BY <1>1 DEF Hydrated
  <2>3. CASE u = t
    <3>1. Hydrated(c)'
      BY <1>1, <1>2 DEF Hydrated
    <3>. QED  BY <1>1, <1>2, <1>3, <1>4, <2>1, <2>3, <3>1 DEF JobOf
  <2>4. CASE u # t
    <3>1. at[u] # "idle" => job[u].city \in Cities
      BY <2>1 DEF JobOf, TypeOK
    <3>2. at[u] # "idle" =>
            /\ Hydrated(job[u].city) => Hydrated(job[u].city)'
            /\ ~ Hydrated(job[u].city) =>
                 persisted'[job[u].city] = persisted[job[u].city]
      BY <1>1, <1>2, <1>4, <3>1 DEF Hydrated
    <3>. QED  BY <1>1, <1>4, <2>1, <2>4, <3>2, JobFrame
  <2>. QED  BY <2>3, <2>4
<1>7. InStore(t) /\ \A u \in Threads : u # t => ~ InStore(u) /\ ~ InStore(u)'
  BY <1>3, <1>4 DEF StoreInv, StoreOf, InStore
<1>8. Unstored(t)' => Unstored(t) /\ job[t].inst.kind # k
  BY <1>1, <1>3, <1>4 DEF Unstored
<1>9. StoreInv'
  <2>. SUFFICES ASSUME NEW u \in Threads PROVE StoreOf(u)'
    BY DEF StoreInv
  <2>1. CASE u = t
    <3>1. Unstored(t)' => persisted' = persisted
      BY <1>2, <1>8
    <3>2. StoreOf(t)
      BY DEF StoreInv
    <3>. QED  BY <1>1, <1>7, <1>8, <2>1, <3>1, <3>2 DEF StoreOf
  <2>2. CASE u # t
    BY <1>7, <2>2 DEF StoreOf, Unstored, InStore
  <2>. QED  BY <2>1, <2>2
<1>10. EntryInv'
  <2>. SUFFICES ASSUME NEW d \in Cities PROVE EntryOf(d)'
    BY DEF EntryInv
  <2>1. EntryOf(d)
    BY DEF EntryInv
  <2>2. CASE d = c
    <3>1. CASE job[t].inst.kind = k
      <4>1. persisted'[d] = entry[d].value
        BY <1>4, <2>2, <3>1
      <4>2. entry'[d] = entry[d] /\ known' = known /\ entry[d].hydrated
        BY <1>1, <1>2, <2>2 DEF Hydrated
      <4>. QED  BY <2>1, <4>1, <4>2 DEF EntryOf
    <3>2. CASE job[t].inst.kind # k
      <4>1. Behind(c) => Behind(c)'
        <5>1. Behind(c) => Unstored(t)
          BY <1>7 DEF Behind, Unstored, InStore
        <5>2. Unstored(t) => Unstored(t)'
          <6>1. job[t].inst.kind \in Kinds
            BY <1>2, InstancesAssumption
          <6>. QED  BY <1>1, <1>3, <1>4, <3>2, <6>1 DEF Unstored, Kinds
        <5>. QED  BY <1>1, <5>1, <5>2 DEF Behind
      <4>. QED  BY <1>1, <1>2, <2>1, <2>2, <3>2, <4>1, EntryFrame
    <3>. QED  BY <3>1, <3>2
  <2>3. CASE d # c
    <3>1. ~ Behind(d)
      BY <1>7, <2>3 DEF Behind, Unstored, InStore
    <3>. QED  BY <1>1, <1>4, <2>1, <2>3, <3>1, EntryFrame
  <2>. QED  BY <2>2, <2>3
<1>11. SnapInv'
  <2>1. \A u \in Threads : Taking(u) => Taking(u)'
    BY <1>3, <1>4 DEF Taking
  <2>2. \A d \in Cities : Unpublished(d) => Unpublished(d)'
    BY <1>1, <1>3, <1>4 DEF Unpublished
  <2>. QED  BY <1>1, <2>1, <2>2, SnapFrame
<1>. QED  BY <1>5, <1>6, <1>9, <1>10, <1>11

LEMMA NotifyKeeps ==
  ASSUME IInv, NEW t \in Threads, InvalidateAndNotify(t)
  PROVE  IInv'
<1>. USE DEF IInv
<1>1. /\ at[t] = "notify" /\ at' = [at EXCEPT ![t] = "bump"]
      /\ UNCHANGED <<alive, known, active, missed, born, persisted, entry,
                     generation, snap, job, loaded>>
  BY DEF InvalidateAndNotify, Goto, world, table
<1>2. at'[t] = "bump" /\ \A u \in Threads : u # t => at'[u] = at[u]
  BY <1>1 DEF TypeOK
<1>3. TypeOK'
  BY <1>1 DEF TypeOK, Places
<1>4. JobOf(t)'
  BY <1>1, <1>2 DEF JobInv, JobOf
<1>5. JobInv' /\ StoreInv' /\ EntryInv'
  <2>1. ~ InStore(t) /\ ~ InStore(t)'
    BY <1>1, <1>2 DEF InStore
  <2>. QED  BY <1>1, <1>2, <1>4, <2>1, QuietStep
<1>6. SnapInv'
  <2>1. \A u \in Threads : Taking(u) => Taking(u)'
    BY <1>1, <1>2 DEF Taking
  <2>2. \A d \in Cities : Unpublished(d) => Unpublished(d)'
    BY <1>1, <1>2 DEF Unpublished
  <2>. QED  BY <1>1, <2>1, <2>2, SnapFrame
<1>. QED  BY <1>3, <1>5, <1>6

LEMMA BumpWriteKeeps ==
  ASSUME IInv, NEW t \in Threads, BumpWrite(t)
  PROVE  IInv'
<1>. USE DEF IInv
<1>1. /\ at[t] = "bump" /\ Bump(t) /\ Finish(t)
      /\ UNCHANGED <<alive, known, active, missed, born, persisted, entry>>
  BY DEF BumpWrite, world, table
<1>2. \A c \in Cities : born'[c] \in Int /\ born'[c] >= born[c]
  BY <1>1 DEF TypeOK
<1>3. /\ generation' \in 0 .. MaxBumps /\ snap' \in [Threads -> SnapType]
      /\ \A u \in Threads : snap'[u] = IF u = t THEN NoSnap ELSE snap[u]
      /\ SnapInv'
  BY <1>1, <1>2, BumpSnap
<1>4. /\ at' \in [Threads -> Places] /\ job' \in [Threads -> JobType]
      /\ loaded' \in [Threads -> Values]
      /\ at'[t] = "idle" /\ JobOf(t)' /\ ~ InStore(t)'
      /\ \A u \in Threads : u # t => /\ at'[u] = at[u] /\ job'[u] = job[u]
                                     /\ loaded'[u] = loaded[u]
  BY <1>1, FinishTypes
<1>5. TypeOK'
  BY <1>1, <1>3, <1>4 DEF TypeOK, JobType, SnapType
<1>6. JobInv' /\ StoreInv' /\ EntryInv'
  <2>1. ~ InStore(t)
    BY <1>1 DEF InStore
  <2>. QED  BY <1>1, <1>3, <1>4, <2>1, QuietStep
<1>. QED  BY <1>3, <1>5, <1>6

-----------------------------------------------------------------------------
(* The engine's objects.                                                   *)

\* A city built at an old address is one no snapshot was taken of.
LEMMA BuildCityKeeps ==
  ASSUME IInv, NEW c \in Cities, NEW resolved \in BOOLEAN, BuildCity(c, resolved)
  PROVE  IInv'
<1>. USE DEF IInv
<1>1. /\ c \notin alive /\ born[c] < MaxBirths /\ alive' = alive \cup {c}
      /\ known' = IF resolved THEN known \cup {c} ELSE known
      /\ born' = [born EXCEPT ![c] = @ + 1]
      /\ entry' = IF resolved THEN [entry EXCEPT ![c] = NewEntry] ELSE entry
      /\ UNCHANGED <<persisted, active, missed, generation, snap, at, job,
                     loaded>>
  BY DEF BuildCity, thread
<1>2. /\ entry[c] = Nil /\ c \notin known
      /\ born[c] \in Int /\ born'[c] = born[c] + 1
      /\ \A d \in Cities : d # c => born'[d] = born[d] /\ entry'[d] = entry[d]
      /\ entry'[c] \in {Nil, NewEntry}
      /\ entry'[c] # Nil => c \in known'
      /\ known \subseteq known'
  BY <1>1 DEF TypeOK, EntryInv, EntryOf
<1>3. TypeOK'
  <2>1. born' \in [Cities -> 0 .. MaxBirths]
    BY <1>1, SizesAssumption DEF TypeOK
  <2>2. entry' \in [Cities -> EntryType \cup {Nil}]
    BY <1>1, ZeroFacts DEF TypeOK
  <2>. QED  BY <1>1, <2>1, <2>2 DEF TypeOK
<1>4. \A u \in Threads : at[u] # "idle" =>
        job[u].city \in Cities /\ job[u].city # c
  BY <1>1 DEF JobInv, JobOf, TypeOK
<1>5. JobInv'
  <2>. SUFFICES ASSUME NEW u \in Threads PROVE JobOf(u)'
    BY DEF JobInv
  <2>1. JobOf(u)
    BY DEF JobInv
  <2>2. at[u] # "idle" => (Hydrated(job[u].city) => Hydrated(job[u].city)')
    BY <1>1, <1>2, <1>4 DEF Hydrated
  <2>. QED  BY <1>1, <1>2, <2>1, <2>2, JobFrame
<1>6. StoreInv'
  <2>1. ASSUME NEW u \in Threads, InStore(u)'
        PROVE  /\ at'[u] = at[u] /\ job'[u] = job[u]
               /\ entry'[job[u].city] = entry[job[u].city]
               /\ persisted'[job[u].city] = persisted[job[u].city]
    <3>1. at[u] # "idle"
      BY <1>1, <2>1 DEF InStore
    <3>. QED  BY <1>1, <1>2, <1>4, <3>1
  <2>. QED  BY <2>1, StoreFrame
<1>7. EntryInv'
  <2>. SUFFICES ASSUME NEW d \in Cities PROVE EntryOf(d)'
    BY DEF EntryInv
  <2>1. CASE d = c
    BY <2>1, <1>2, ZeroFacts DEF EntryOf
  <2>2. CASE d # c
    <3>1. Behind(d) => Behind(d)'
      BY <1>1 DEF Behind, Unstored
    <3>. QED  BY <1>1, <1>2, <2>2, <3>1, EntryFrame DEF EntryInv
  <2>. QED  BY <2>1, <2>2
<1>8. SnapInv'
  <2>1. \A d \in Cities : Unpublished(d)' <=> Unpublished(d)
    BY <1>1 DEF Unpublished
  <2>2. ASSUME NEW u \in Threads
        PROVE  /\ snap[u].gen <= generation
               /\ snap[u].entry # Nil => Covers(snap[u].entry)
    BY DEF SnapInv
  <2>3. ASSUME NEW u \in Threads, NEW d \in Cities
        PROVE  /\ snap[u].city = d => snap[u].born <= born'[d]
               /\ Admitted(u, d)' /\ ~ Unpublished(d)' =>
                    Hydrated(d)' /\ entry'[d].value = snap[u].entry.value
    <3>1. snap[u].born \in Int /\ (snap[u].city = d => snap[u].born <= born[d])
      BY DEF SnapInv, TypeOK
    <3>2. CASE d = c
      <4>1. snap[u].city = c => snap[u].born < born'[c]
        BY <1>2, <3>1, <3>2
      <4>2. ~ Admitted(u, c)'
        BY <1>1, <1>2, <3>1, <4>1 DEF Admitted, Matches
      <4>. QED  BY <1>2, <3>1, <3>2, <4>1, <4>2
    <3>3. CASE d # c
      <4>1. Admitted(u, d)' => Admitted(u, d)
        BY <1>1, <1>2, <3>3 DEF Admitted, Matches, Taking
      <4>2. Admitted(u, d) /\ ~ Unpublished(d) =>
              Hydrated(d) /\ entry[d].value = snap[u].entry.value
        BY DEF SnapInv
      <4>3. entry'[d] = entry[d] /\ born'[d] = born[d]
        BY <1>2, <3>3
      <4>4. Hydrated(d)' <=> Hydrated(d)
        BY <4>3 DEF Hydrated
      <4>. QED  BY <2>1, <3>1, <4>1, <4>2, <4>3, <4>4
    <3>. QED  BY <3>2, <3>3
  <2>. QED  BY <1>1, <2>2, <2>3 DEF SnapInv
<1>. QED  BY <1>3, <1>5, <1>6, <1>7, <1>8

LEMMA ResolveOwnerKeeps ==
  ASSUME IInv, NEW c \in Cities, ResolveOwner(c)
  PROVE  IInv'
<1>. USE DEF IInv
<1>1. /\ c \in alive /\ known' = known \cup {c}
      /\ UNCHANGED <<alive, active, missed, born, persisted, entry, generation,
                     snap, at, job, loaded>>
  BY DEF ResolveOwner, table, thread
<1>2. TypeOK'
  BY <1>1 DEF TypeOK
<1>3. \A d : Hydrated(d)' <=> Hydrated(d)
  BY <1>1 DEF Hydrated
<1>4. JobInv'
  <2>. SUFFICES ASSUME NEW u \in Threads PROVE JobOf(u)'
    BY DEF JobInv
  <2>1. JobOf(u)
    BY DEF JobInv
  <2>. QED  BY <1>1, <1>3, <2>1, JobFrame
<1>5. StoreInv'
  BY <1>1, StoreFrame DEF InStore
<1>6. EntryInv'
  <2>. SUFFICES ASSUME NEW d \in Cities PROVE EntryOf(d)'
    BY DEF EntryInv
  <2>1. Behind(d) => Behind(d)'
    BY <1>1 DEF Behind, Unstored
  <2>. QED  BY <1>1, <2>1, EntryFrame DEF EntryInv
<1>7. SnapInv'
  <2>1. \A u \in Threads : Taking(u) => Taking(u)'
    BY <1>1 DEF Taking
  <2>2. \A d \in Cities : Unpublished(d) => Unpublished(d)'
    BY <1>1 DEF Unpublished
  <2>. QED  BY <1>1, <2>1, <2>2, SnapFrame
<1>. QED  BY <1>2, <1>4, <1>5, <1>6, <1>7

LEMMA DestroyCityKeeps ==
  ASSUME IInv, NEW c \in Cities, DestroyCity(c)
  PROVE  IInv'
<1>. USE DEF IInv
<1>1. /\ c \in alive /\ alive' = alive \ {c} /\ known' = known \ {c}
      /\ \A u \in Threads : job[u].city # c /\ ~ InStore(u)
      /\ entry' = [entry EXCEPT ![c] = Nil]
      /\ persisted' = [persisted EXCEPT ![c] = Zero]
      /\ active' = [active EXCEPT ![c] = {}]
      /\ missed' = [missed EXCEPT ![c] = NoneMissed]
      /\ UNCHANGED <<born, generation, snap, at, job, loaded>>
  BY DEF DestroyCity, Busy, Unlocked, InStore, thread
<1>2. /\ entry'[c] = Nil
      /\ \A d \in Cities : d # c => /\ entry'[d] = entry[d]
                                    /\ persisted'[d] = persisted[d]
                                    /\ Hydrated(d)' <=> Hydrated(d)
  BY <1>1 DEF TypeOK, Hydrated
<1>3. TypeOK'
  <2>1. entry' \in [Cities -> EntryType \cup {Nil}]
    BY <1>1 DEF TypeOK
  <2>2. persisted' \in [Cities -> Values]
    BY <1>1, ZeroFacts DEF TypeOK
  <2>3. active' \in [Cities -> SUBSET Instances]
    BY <1>1 DEF TypeOK
  <2>4. missed' \in [Cities -> [Instances -> Int]]
    BY <1>1 DEF TypeOK, NoneMissed
  <2>. QED  BY <1>1, <2>1, <2>2, <2>3, <2>4 DEF TypeOK
<1>4. JobInv'
  <2>. SUFFICES ASSUME NEW u \in Threads PROVE JobOf(u)'
    BY DEF JobInv
  <2>1. JobOf(u) /\ job[u].city # c /\ (at[u] # "idle" => job[u].city \in Cities)
    BY <1>1 DEF JobInv, JobOf, TypeOK
  <2>2. at[u] # "idle" =>
          /\ job[u].city \in alive => job[u].city \in alive'
          /\ job[u].city \in known => job[u].city \in known'
          /\ Hydrated(job[u].city) => Hydrated(job[u].city)'
          /\ persisted'[job[u].city] = persisted[job[u].city]
    <3>1. at[u] # "idle" => (Hydrated(job[u].city) => Hydrated(job[u].city)')
      BY <1>1, <1>2, <2>1
    <3>. QED  BY <1>1, <1>2, <2>1, <3>1
  <2>. QED  BY <1>1, <2>1, <2>2, JobFrame
<1>5. StoreInv'
  <2>1. \A u \in Threads : ~ InStore(u)'
    BY <1>1 DEF InStore
  <2>. QED  BY <2>1, StoreFrame
<1>6. EntryInv'
  <2>. SUFFICES ASSUME NEW d \in Cities PROVE EntryOf(d)'
    BY DEF EntryInv
  <2>1. CASE d = c
    BY <1>2, <2>1 DEF EntryOf
  <2>2. CASE d # c
    <3>1. Behind(d) => Behind(d)'
      BY <1>1 DEF Behind, Unstored
    <3>2. d \in known => d \in known'
      BY <1>1, <2>2
    <3>. QED  BY <1>2, <2>2, <3>1, <3>2, EntryFrame DEF EntryInv
  <2>. QED  BY <2>1, <2>2
<1>7. SnapInv'
  <2>1. \A d \in Cities : Unpublished(d)' <=> Unpublished(d)
    BY <1>1 DEF Unpublished
  <2>2. ASSUME NEW u \in Threads, NEW d \in Cities,
               Admitted(u, d)', ~ Unpublished(d)'
        PROVE  Hydrated(d)' /\ entry'[d].value = snap'[u].entry.value
    <3>1. d # c
      BY <1>1, <2>2 DEF Admitted
    <3>2. Admitted(u, d) /\ ~ Unpublished(d)
      BY <1>1, <2>1, <2>2 DEF Admitted, Matches, Taking
    <3>3. Hydrated(d) /\ entry[d].value = snap[u].entry.value
      BY <3>2 DEF SnapInv
    <3>. QED  BY <1>1, <1>2, <3>1, <3>3
  <2>. QED  BY <1>1, <2>2 DEF SnapInv
<1>. QED  BY <1>3, <1>4, <1>5, <1>6, <1>7

LEMMA SymDiffIn ==
  ASSUME NEW U, NEW A \in SUBSET U, NEW B \in SUBSET U
  PROVE  SymDiff(A, B) \in SUBSET U
BY DEF SymDiff

\* The instances of jobs a save may catch half done.
TornOf(torn, c) == {job[u].inst : u \in {w \in torn : job[w].city = c}}

\* What a load makes of the engine's and the dropped calls' account.
LEMMA LoadAccounts ==
  ASSUME TypeOK, NEW t \in Threads, LoadGame(t)
  PROVE  /\ active' \in [Cities -> SUBSET Instances]
         /\ missed' \in [Cities -> [Instances -> Int]]
         /\ \A c \in Cities, i \in Instances :
              missed'[c][i] = missed[c][i] + One(i \in active'[c])
                                           - One(i \in active[c])
         /\ \A c \in Cities :
              (\A u \in Threads : job[u].city = c => job[u].inst = Nil) =>
                active'[c] = active[c]
<1>1. PICK torn \in SUBSET {u \in Threads : job[u].inst # Nil} :
        /\ active' = [c \in Cities |-> SymDiff(active[c], TornOf(torn, c))]
        /\ missed' = [c \in Cities |-> [i \in Instances |->
                        missed[c][i] + One(i \in active'[c])
                                     - One(i \in active[c])]]
  BY DEF LoadGame, TornOf
<1>2. \A c \in Cities : TornOf(torn, c) \in SUBSET Instances
  BY DEF TypeOK, TornOf
<1>3. active' \in [Cities -> SUBSET Instances]
  <2>1. ASSUME NEW c \in Cities
        PROVE  SymDiff(active[c], TornOf(torn, c)) \in SUBSET Instances
    <3>1. active[c] \in SUBSET Instances /\ TornOf(torn, c) \in SUBSET Instances
      BY <1>2 DEF TypeOK
    <3>. QED  BY <3>1, SymDiffIn
  <2>. QED  BY <1>1, <2>1
<1>4. missed' \in [Cities -> [Instances -> Int]]
  <2>1. ASSUME NEW c \in Cities, NEW i \in Instances
        PROVE  missed[c][i] + One(i \in active'[c]) - One(i \in active[c]) \in Int
    <3>1. missed[c][i] \in Int
      BY DEF TypeOK
    <3>. QED  BY <3>1 DEF One
  <2>. QED  BY <1>1, <2>1
<1>5. \A c \in Cities :
        (\A u \in Threads : job[u].city = c => job[u].inst = Nil) =>
          active'[c] = active[c]
  <2>. SUFFICES ASSUME NEW c \in Cities,
                       \A u \in Threads : job[u].city = c => job[u].inst = Nil
                PROVE  active'[c] = active[c]
    OBVIOUS
  <2>1. TornOf(torn, c) = {}
    BY DEF TornOf
  <2>. QED  BY <1>1, <2>1 DEF SymDiff
<1>. QED  BY <1>1, <1>3, <1>4, <1>5

\* A load ends every job and empties the table.
LEMMA LoadGameKeeps ==
  ASSUME IInv, NEW t \in Threads, LoadGame(t)
  PROVE  IInv'
<1>. USE DEF IInv
<1>1. /\ \A c \in alive : born[c] < MaxBirths
      /\ known' \subseteq alive
      /\ born' = [c \in Cities |-> IF c \in alive THEN born[c] + 1 ELSE born[c]]
      /\ entry' = [c \in Cities |-> Nil]
      /\ Bump(t) /\ NoJobs
      /\ UNCHANGED <<alive, persisted>>
  BY DEF LoadGame
<1>2. /\ born' \in [Cities -> 0 .. MaxBirths]
      /\ \A c \in Cities : born'[c] \in Int /\ born'[c] >= born[c]
  BY <1>1, SizesAssumption DEF TypeOK
<1>3. /\ generation' \in 0 .. MaxBumps /\ snap' \in [Threads -> SnapType]
      /\ SnapInv'
  BY <1>1, <1>2, BumpSnap
<1>4. /\ at' \in [Threads -> Places] /\ job' \in [Threads -> JobType]
      /\ loaded' \in [Threads -> Values]
      /\ \A u \in Threads : at'[u] = "idle" /\ job'[u].inst = Nil
  <2>1. NoJob \in JobType /\ NoJob.inst = Nil
    BY DEF NoJob, JobType
  <2>. HIDE DEF NoJob
  <2>. QED  BY <1>1, <2>1, ZeroFacts DEF NoJobs, Places
<1>5. TypeOK'
  <2>1. /\ active' \in [Cities -> SUBSET Instances]
        /\ missed' \in [Cities -> [Instances -> Int]]
    BY LoadAccounts
  <2>2. entry' \in [Cities -> EntryType \cup {Nil}]
    BY <1>1
  <2>. QED  BY <1>1, <1>2, <1>3, <1>4, <2>1, <2>2 DEF TypeOK, JobType, SnapType
<1>6. JobInv' /\ StoreInv'
  BY <1>4 DEF JobInv, JobOf, StoreInv, StoreOf, Unstored, InStore
<1>7. EntryInv'
  BY <1>1 DEF EntryInv, EntryOf
<1>. QED  BY <1>3, <1>5, <1>6, <1>7

-----------------------------------------------------------------------------
(* The invariant, and what follows from it.                                *)

LEMMA InitInv == Init => IInv
<1>. SUFFICES ASSUME Init PROVE IInv
  OBVIOUS
<1>1. NoJob \in JobType /\ NoJob.inst = Nil
  BY DEF NoJob, JobType
<1>2. NoSnap \in SnapType
  BY SizesAssumption DEF NoSnap, SnapType
<1>3. NoneMissed \in [Instances -> Int]
  BY DEF NoneMissed
<1>4. NoSnap.gen = 0 /\ NoSnap.city = Nil /\ NoSnap.entry = Nil /\ NoSnap.born = 0
  BY DEF NoSnap
<1>. HIDE DEF NoJob, NoSnap, NoneMissed
<1>5. TypeOK
  BY <1>1, <1>2, <1>3, ZeroFacts, SizesAssumption
     DEF Init, TypeOK, JobType, SnapType, Places
<1>6. JobInv /\ StoreInv
  BY <1>1 DEF Init, JobInv, JobOf, StoreInv, StoreOf, Unstored, InStore
<1>7. EntryInv
  BY DEF Init, EntryInv, EntryOf
<1>8. SnapInv
  BY <1>4, NilAssumption DEF Init, SnapInv, Admitted, Matches
<1>. QED  BY <1>5, <1>6, <1>7, <1>8 DEF IInv

LEMMA StutterKeeps ==
  ASSUME IInv, UNCHANGED vars
  PROVE  IInv'
<1>. USE DEF IInv
<1>1. UNCHANGED <<alive, known, persisted, entry, generation, snap, at, job,
                  loaded, active, missed, born>>
  BY DEF vars
<1>2. TypeOK'
  BY <1>1 DEF TypeOK
<1>3. JobInv'
  BY <1>1 DEF JobInv, JobOf, Hydrated
<1>4. StoreInv'
  BY <1>1, StoreFrame
<1>5. EntryInv'
  BY <1>1 DEF EntryInv, EntryOf, Behind, Unstored
<1>6. SnapInv'
  BY <1>1, SnapFrame DEF Taking, Unpublished
<1>. QED  BY <1>2, <1>3, <1>4, <1>5, <1>6

LEMMA StepKeeps ==
  ASSUME IInv, [Next]_vars
  PROVE  IInv'
<1>1. CASE UNCHANGED vars
  BY <1>1, StutterKeeps
<1>2. ASSUME NEW t \in Threads, Step(t)
      PROVE  IInv'
  BY <1>2, HydrateKeeps, LoadKeeps, SeedEntryKeeps, BumpSeededKeeps, StampKeeps,
     CopyKeeps, EditKeeps, StoreKeeps, NotifyKeeps, BumpWriteKeeps DEF Step
<1>3. ASSUME NEW t \in Threads, NEW c \in Cities, Read(t, c)
      PROVE  IInv'
  BY <1>3, ReadKeeps
<1>4. ASSUME NEW t \in Threads, NEW c \in Cities, NEW i \in Instances,
             NEW s \in {-1, 1}, Write(t, c, i, s) \/ WriteDropped(t, c, i, s)
      PROVE  IInv'
  BY <1>4, WriteKeeps, WriteDroppedKeeps
<1>5. ASSUME NEW t \in Threads, LoadGame(t)
      PROVE  IInv'
  BY <1>5, LoadGameKeeps
<1>6. ASSUME NEW c \in Cities,
             \/ \E r \in BOOLEAN : BuildCity(c, r)
             \/ ResolveOwner(c)
             \/ DestroyCity(c)
      PROVE  IInv'
  BY <1>6, BuildCityKeeps, ResolveOwnerKeeps, DestroyCityKeeps
<1>. QED  BY <1>1, <1>2, <1>3, <1>4, <1>5, <1>6 DEF Next

\* Whatever the threads, the effects and the engine do, and in whatever
\* order their steps fall, the entries, the persisted copies, the jobs and
\* the snapshots stay in step (city_yield_common.cpp as a whole).
THEOREM YieldInvariant == Spec => []IInv
<1>. QED  BY InitInv, StepKeeps, PTL DEF Spec

\* The state of the path is of its type.
THEOREM YieldTypes == Spec => []TypeOK
<1>1. IInv => TypeOK
  BY DEF IInv
<1>. QED  BY <1>1, YieldInvariant, PTL

\* What a save would store is what the table holds, but for the one vector
\* that an effect has changed in the entry and is about to store: the lock it
\* holds keeps every other edit out, and a load between the two vectors finds
\* nothing in between (PersistCityValues under EditCity).
THEOREM Mirror == Spec => []PersistedMirrors
<1>1. ASSUME IInv
      PROVE  PersistedMirrors
  <2>. SUFFICES ASSUME NEW c \in alive, NEW s \in Slots, Hydrated(c),
                       persisted[c][s] # entry[c].value[s]
                PROVE  \E t \in Threads : /\ job[t].city = c /\ Unstored(t)
                                          /\ job[t].inst.kind = s[1]
    BY DEF PersistedMirrors, Hydrated
  <2>1. c \in Cities
    BY <1>1 DEF IInv, TypeOK
  <2>2. Behind(c)
    BY <1>1, <2>1 DEF IInv, EntryInv, EntryOf, Hydrated
  <2>3. PICK t \in Threads : job[t].city = c /\ Unstored(t)
    BY <2>2 DEF Behind
  <2>4. job[t].inst.kind = s[1]
    BY <1>1, <2>3, BehindInOneKind
  <2>. QED  BY <2>3, <2>4
<1>. QED  BY <1>1, YieldInvariant, PTL

\* The read path skips no modifier: whether effects or a load filled the
\* entry, its valid length, yield_count, is past every non-zero element.
THEOREM Lengths == Spec => []LengthCovers
<1>1. IInv => LengthCovers
  BY DEF IInv, EntryInv, EntryOf, LengthCovers, Covers
<1>. QED  BY <1>1, YieldInvariant, PTL

\* A snapshot the generation admits holds the city's modifiers of now, unless
\* a change of them is still to be published: stamping before copying and
\* bumping after editing suffice (LookupCityExtraForCity).
THEOREM SnapshotsCurrent == Spec => []SnapshotCurrent
<1>1. ASSUME IInv
      PROVE  SnapshotCurrent
  <2>. SUFFICES ASSUME NEW t \in Threads, NEW c \in alive,
                       Matches(t, c), ~ Taking(t),
                       snap[t].born = born[c], ~ Unpublished(c),
                       snap[t].entry # Nil, snap[t].entry.hydrated,
                       NEW y \in Yields
                PROVE  Modifier(snap[t].entry, y) =
                         [k \in Kinds |-> Total(c)[<<k, y>>]]
    BY DEF SnapshotCurrent
  <2>. DEFINE e == snap[t].entry
  <2>1. c \in Cities /\ e \in EntryType \cup {Nil}
    BY <1>1 DEF IInv, TypeOK
  <2>2. e \in EntryType /\ e.count \in Int /\ y \in Int
    BY <2>1, SizesAssumption DEF EntryType, Yields
  <2>3. Hydrated(c) /\ entry[c].value = e.value /\ Covers(e)
    BY <1>1, <2>1 DEF IInv, SnapInv, Admitted
  <2>4. Total(c) = e.value
    <3>1. ~ \E u \in Threads : job[u].city = c /\ Unstored(u)
      BY DEF Unpublished, Unstored
    <3>. QED  BY <2>3, <3>1 DEF Total, Hydrated
  <2>5. CASE y >= e.count
    <3>1. \A k \in Kinds : e.value[<<k, y>>] = 0
      BY <2>2, <2>3, <2>5 DEF Covers
    <3>2. Modifier(e, y) = NoModifier
      BY <2>5 DEF Modifier
    <3>. QED  BY <2>4, <3>1, <3>2 DEF NoModifier
  <2>6. CASE ~ (y >= e.count)
    BY <2>4, <2>6 DEF Modifier
  <2>. QED  BY <2>5, <2>6
<1>. QED  BY <1>1, YieldInvariant, PTL

-----------------------------------------------------------------------------
(* The ledger.  Stored values saturate, so at the edge of their range an    *)
(* Apply and its Remove do not cancel out.  What follows is about histories *)
(* in which every value keeps room for one more effect.                     *)

\* The furthest an instance can move slot s, whatever its entries' signs.
Magnitude(i, s) ==
  [n \in DOMAIN i.entries |->
     IF Parts(i, s)[n] < 0 THEN - Parts(i, s)[n] ELSE Parts(i, s)[n]]

Reach(i, s) == PercentUnit * Sum(Magnitude(i, s), DOMAIN i.entries)

Within(v, i, s) == MinValue + Reach(i, s) <= v /\ v + Reach(i, s) <= MaxValue

\* No stored value comes nearer to the ends of its type than one effect.
Roomy ==
  \A c \in Cities, i \in Instances, s \in Slots : Within(persisted[c][s], i, s)

\* A write that has not stored what it changes yet.
Pending(t) ==
  /\ job[t].inst # Nil
  /\ \/ at[t] \in {"hydrate", "load1", "load2", "seed", "seeded", "edit"}
     \/ Unstored(t)

\* An instance is with one thread at most, and until that has stored, the
\* city's account of it is what the engine started the write from.
PendingInv ==
  \A t \in Threads :
    /\ \A u \in Threads : u # t /\ job[t].inst # Nil => job[u].inst # job[t].inst
    /\ Pending(t) =>
         /\ job[t].sign \in {-1, 1}
         /\ IF job[t].sign = 1 THEN \A d \in Cities : job[t].inst \notin active[d]
            ELSE job[t].inst \in active[job[t].city]

\* The persisted copy is the balance; an address without a city has none.
BalanceInv ==
  \A c \in Cities :
    /\ c \notin alive =>
         persisted[c] = Zero /\ active[c] = {} /\ missed[c] = NoneMissed
    /\ \A s \in Slots : persisted[c][s] = Expected(c, s)

\* A city that has no modifiers yet has room, too.
ZeroRoomy ==
  Cities # {} => \A i \in Instances, s \in Slots : Within(0, i, s)

LedgerInv == PendingInv /\ BalanceInv /\ ZeroRoomy

\* The provers know products only so far.
LEMMA TimesMonotone ==
  ASSUME NEW p \in Nat, NEW a \in Int, NEW b \in Int, a <= b
  PROVE  p * a <= p * b
OBVIOUS

\* An instance moves a slot by its amount, and at most by its reach, and so
\* do any of its entries.
LEMMA AmountFacts ==
  ASSUME NEW i \in Instances, NEW s
  PROVE  /\ \A n \in DOMAIN i.entries : Parts(i, s)[n] \in Int
         /\ Amount(i, s) = PercentUnit * Sum(Parts(i, s), DOMAIN i.entries)
         /\ Amount(i, s) \in Int /\ Reach(i, s) \in Nat
         /\ \A T \in SUBSET DOMAIN i.entries :
              /\ Sum(Parts(i, s), T) \in Int
              /\ - Reach(i, s) <= PercentUnit * Sum(Parts(i, s), T)
              /\ PercentUnit * Sum(Parts(i, s), T) <= Reach(i, s)
<1>. DEFINE S == DOMAIN i.entries
            f == Parts(i, s)
            g == Magnitude(i, s)
<1>1. IsFiniteSet(S) /\ \A n \in S : f[n] \in Int
  BY InstanceFacts DEF Parts
<1>2. \A n \in S : f[n] \in Int /\ g[n] \in Nat /\ -g[n] <= f[n] /\ f[n] <= g[n]
  <2>. SUFFICES ASSUME NEW n \in S
                PROVE  f[n] \in Int /\ g[n] \in Nat /\ -g[n] <= f[n] /\ f[n] <= g[n]
    OBVIOUS
  <2>1. g[n] = IF f[n] < 0 THEN - f[n] ELSE f[n]
    BY DEF Magnitude
  <2>2. f[n] \in Int
    BY <1>1
  <2>. HIDE DEF f, g
  <2>. QED  BY <2>1, <2>2
<1>3. Amount(i, s) = PercentUnit * Sum(f, S)
  BY DEF Amount, Sum
<1>. HIDE DEF f, g, S
<1>4. \A T \in SUBSET S : -Sum(g, S) <= Sum(f, T) /\ Sum(f, T) <= Sum(g, S)
  BY <1>1, <1>2, SumWithin
<1>5. Sum(g, S) \in Nat
  BY <1>1, <1>2, SumNat
<1>6. Reach(i, s) = PercentUnit * Sum(g, S)
  BY DEF Reach, S, g
<1>7. ASSUME NEW T \in SUBSET S
      PROVE  /\ Sum(f, T) \in Int
             /\ - Reach(i, s) <= PercentUnit * Sum(f, T)
             /\ PercentUnit * Sum(f, T) <= Reach(i, s)
  <2>. DEFINE a == Sum(f, T)
              b == Sum(g, S)
  <2>1. a \in Int
    <3>1. IsFiniteSet(T)
      BY <1>1, FS_Subset
    <3>. QED  BY <1>1, <3>1, SumInt
  <2>2. b \in Nat /\ -b <= a /\ a <= b
    BY <1>4, <1>5
  <2>. HIDE DEF a, b
  <2>3. PercentUnit * a <= PercentUnit * b /\ PercentUnit * (-b) <= PercentUnit * a
    BY <2>1, <2>2, SizesAssumption, TimesMonotone
  <2>4. PercentUnit * (-b) = -(PercentUnit * b)
    BY <2>2, SizesAssumption
  <2>. QED  BY <1>6, <2>1, <2>3, <2>4 DEF a, b
<1>8. Sum(f, S) \in Int /\ Amount(i, s) \in Int /\ Reach(i, s) \in Nat
  <2>1. Sum(f, S) \in Int
    BY <1>7
  <2>. QED  BY <1>3, <1>5, <1>6, <2>1, SizesAssumption
<1>. QED  BY <1>1, <1>3, <1>7, <1>8 DEF f, S

\* Posting the entries one by one, each with its sign and in percent units.
LEMMA PostedOneByOne ==
  ASSUME NEW v \in Int, NEW p \in Nat, NEW a \in Int, NEW b \in Int,
         NEW sign \in {-1, 1}
  PROVE  /\ (v + (sign * (p * a))) + ((sign * b) * p)
              = v + (sign * (p * (b + a)))
         /\ p * a \in Int /\ sign * (p * a) \in Int /\ (sign * b) * p \in Int
<1>1. p * (b + a) = (p * b) + (p * a)
  OBVIOUS
<1>2. p * a \in Int /\ p * b \in Int /\ b * p = p * b
  OBVIOUS
<1>3. CASE sign = 1
  <2>1. sign * b = b
    BY <1>3
  <2>. QED  BY <1>1, <1>2, <1>3, <2>1
<1>4. CASE sign = -1
  <2>1. (sign * b) * p = -(p * b)
    BY <1>4
  <2>. QED  BY <1>1, <1>2, <1>4, <2>1
<1>. QED  BY <1>3, <1>4

\* What an entry of an effect adds to slot s.
Part(x, k, s) == IF Plausible(x) /\ <<k, x.yield>> = s THEN x.amount ELSE 0

\* One entry of an effect, where nothing saturates.
LEMMA OneExact ==
  ASSUME NEW e \in EntryType, NEW k \in Kinds, NEW sign \in {-1, 1},
         NEW x, x.amount \in Int, NEW s \in Slots,
         e.value[s] + ((sign * Part(x, k, s)) * PercentUnit)
           \in MinValue .. MaxValue
  PROVE  AccumulateOne(e, k, x, sign).value[s]
           = e.value[s] + ((sign * Part(x, k, s)) * PercentUnit)
<1>. DEFINE v == e.value[s] + ((sign * Part(x, k, s)) * PercentUnit)
<1>1. e.value \in Values /\ e.value[s] \in Int
  BY RangeAssumption DEF EntryType, Values
<1>2. CASE ~ Plausible(x)
  <2>1. Part(x, k, s) = 0 /\ AccumulateOne(e, k, x, sign) = e
    BY <1>2 DEF Part, AccumulateOne
  <2>2. v = e.value[s]
    BY <1>1, <2>1, SizesAssumption
  <2>. QED  BY <2>1, <2>2
<1>3. CASE Plausible(x)
  <2>. DEFINE r == <<k, x.yield>>
              w == e.value[r] + (sign * x.amount) * PercentUnit
  <2>1. AccumulateOne(e, k, x, sign).value = [e.value EXCEPT ![r] = Clamp(w)]
    BY <1>3 DEF AccumulateOne, Add, EntryType
  <2>2. CASE r = s
    <3>1. w = v
      BY <1>3, <2>2 DEF Part
    <3>2. Clamp(w) = w
      <4>. HIDE DEF v, w
      <4>1. v \in MinValue .. MaxValue
        BY DEF v
      <4>. QED  BY <3>1, <4>1, RangeAssumption DEF Clamp
    <3>3. AccumulateOne(e, k, x, sign).value[s] = Clamp(w)
      BY <1>1, <2>1, <2>2 DEF Values
    <3>. QED  BY <3>1, <3>2, <3>3
  <2>3. CASE r # s
    <3>1. Part(x, k, s) = 0
      BY <2>3 DEF Part
    <3>2. v = e.value[s]
      BY <1>1, <3>1, SizesAssumption
    <3>3. AccumulateOne(e, k, x, sign).value[s] = e.value[s]
      BY <1>1, <2>1, <2>3 DEF Values
    <3>. QED  BY <3>2, <3>3
  <2>. QED  BY <2>2, <2>3
<1>. QED  BY <1>2, <1>3

\* An effect moves every slot by its amount, where there is room for it.
LEMMA AccumulateExact ==
  ASSUME NEW h, NEW e \in Sound(h), NEW i \in Instances, NEW sign \in {-1, 1},
         \A s \in Slots : Within(e.value[s], i, s)
  PROVE  \A s \in Slots :
           Accumulate(e, i, sign).value[s] = e.value[s] + sign * Amount(i, s)
<1>. DEFINE S == DOMAIN i.entries
            it == Chosen(e, i, sign, S)
            Moved(T, s) == e.value[s] + sign * (PercentUnit * Sum(Parts(i, s), T))
            G == {T \in SUBSET S : /\ it[T] \in Sound(h)
                                   /\ \A s \in Slots : it[T].value[s] = Moved(T, s)}
<1>1. /\ i.kind \in Kinds /\ S \in SUBSET Int /\ IsFiniteSet(S)
      /\ \A n \in S : i.entries[n].amount \in Int
  BY InstanceFacts
<1>2. Folds(e, i, sign, it, S)
  BY <1>1, ChosenFolds
<1>3. \A s \in Slots : e.value[s] \in Int
  BY RangeAssumption DEF Sound, EntryType, Values
<1>4. ASSUME NEW T \in SUBSET S, NEW s \in Slots
      PROVE  Moved(T, s) \in MinValue .. MaxValue
  <2>. DEFINE a == PercentUnit * Sum(Parts(i, s), T)
              r == Reach(i, s)
              v == e.value[s]
  <2>1. r \in Nat /\ -r <= a /\ a <= r
    BY AmountFacts
  <2>2. a \in Int
    <3>1. Sum(Parts(i, s), T) \in Int
      BY AmountFacts
    <3>. QED  BY <3>1, SizesAssumption
  <2>3. v \in Int /\ MinValue + r <= v /\ v + r <= MaxValue
    BY <1>3 DEF Within
  <2>. HIDE DEF a, r, v
  <2>4. v + sign * a \in MinValue .. MaxValue
    BY <2>1, <2>2, <2>3, RangeAssumption
  <2>. QED  BY <2>4 DEF a, v
<1>5. ASSUME NEW T \in SUBSET S, \A U \in SUBSET T : U # T => U \in G
      PROVE  T \in G
  <2>1. it[T] = FoldBody(e, i, sign, it, T)
    BY <1>2 DEF Folds
  <2>2. CASE T = {}
    <3>1. it[T] = e
      BY <2>1, <2>2 DEF FoldBody
    <3>2. ASSUME NEW s \in Slots
          PROVE  Moved(T, s) = e.value[s]
      <4>1. Sum(Parts(i, s), T) = 0
        BY <2>2, SumEmpty
      <4>. QED  BY <1>3, <4>1, SizesAssumption
    <3>. QED  BY <3>1, <3>2
  <2>3. CASE T # {}
    <3>. DEFINE m == Max(T)
                U == T \ {m}
                x == i.entries[m]
                f == it[U]
    <3>1. m \in T /\ m \in S /\ IsFiniteSet(T)
      BY <1>1, <2>3, MaxIn, FS_Subset
    <3>2. f \in Sound(h) /\ \A s \in Slots : f.value[s] = Moved(U, s)
      BY <1>5, <3>1
    <3>3. x.amount \in Int
      BY <1>1, <3>1
    <3>4. it[T] = AccumulateOne(f, i.kind, x, sign)
      BY <2>1, <2>3 DEF FoldBody
    <3>5. it[T] \in Sound(h)
      BY <1>1, <3>2, <3>3, <3>4, OneKeepsSound
    <3>6. ASSUME NEW s \in Slots
          PROVE  it[T].value[s] = Moved(T, s)
      <4>. DEFINE p == Part(x, i.kind, s)
                  a == Sum(Parts(i, s), U)
                  v == e.value[s]
      <4>1. p = Parts(i, s)[m] /\ p \in Int
        <5>1. p = Parts(i, s)[m]
          BY <3>1 DEF Part, Parts
        <5>. QED  BY <3>1, <5>1, AmountFacts
      <4>2. Sum(Parts(i, s), T) = p + a /\ a \in Int
        <5>1. \A n \in T : Parts(i, s)[n] \in Int
          BY AmountFacts
        <5>2. Sum(Parts(i, s), T) = Parts(i, s)[m] + a
          BY <3>1, <5>1, SumRemove
        <5>3. a \in Int
          BY AmountFacts
        <5>. QED  BY <4>1, <5>2, <5>3
      <4>3. f.value[s] = v + (sign * (PercentUnit * a)) /\ v \in Int
        BY <1>3, <3>2
      <4>4. Moved(T, s) = v + (sign * (PercentUnit * (p + a)))
        BY <4>2
      <4>5. Moved(T, s) \in MinValue .. MaxValue
        BY <1>4
      <4>. HIDE DEF p, a, v, f, x, U, m, it, Moved
      <4>6. f.value[s] + ((sign * p) * PercentUnit) = Moved(T, s)
        BY <4>1, <4>2, <4>3, <4>4, SizesAssumption, PostedOneByOne
      <4>7. f \in EntryType
        BY <3>2 DEF Sound
      <4>8. AccumulateOne(f, i.kind, x, sign).value[s]
              = f.value[s] + ((sign * p) * PercentUnit)
        BY <1>1, <3>3, <4>5, <4>6, <4>7, OneExact DEF p
      <4>. QED  BY <3>4, <4>6, <4>8
    <3>. QED  BY <3>5, <3>6
  <2>. QED  BY <2>2, <2>3
<1>6. S \in G
  <2>. HIDE DEF G, S
  <2>. QED  BY <1>1, <1>5, SubsetInduction
<1>7. \A s \in Slots : it[S].value[s] = Moved(S, s)
  BY <1>6
<1>8. \A s \in Slots : Moved(S, s) = e.value[s] + sign * Amount(i, s)
  BY AmountFacts
<1>. QED  BY <1>7, <1>8, AccumulateIsFold

-----------------------------------------------------------------------------
(* What is expected of a city, as a function of its history.               *)

Share(a, m, s) ==
  [i \in Instances |-> (One(i \in a) - m[i]) * Amount(i, s)]

Balance(a, m, s) == Sum(Share(a, m, s), Instances)

LEMMA ExpectedIsBalance ==
  ASSUME NEW c, NEW s
  PROVE  /\ Expected(c, s) = Balance(active[c], missed[c], s)
         /\ Expected(c, s)' = Balance(active'[c], missed'[c], s)
<1>1. Expected(c, s) = Balance(active[c], missed[c], s)
  BY DEF Expected, Balance, Share, Sum
<1>2. (Expected(c, s) = Balance(active[c], missed[c], s))'
  BY <1>1, PTL
<1>. QED  BY <1>1, <1>2

LEMMA ShareInt ==
  ASSUME NEW a, NEW m \in [Instances -> Int], NEW s
  PROVE  \A i \in Instances : Share(a, m, s)[i] \in Int
<1>. SUFFICES ASSUME NEW i \in Instances PROVE Share(a, m, s)[i] \in Int
  OBVIOUS
<1>1. Amount(i, s) \in Int /\ m[i] \in Int
  BY AmountFacts
<1>. DEFINE n == One(i \in a) - m[i]
<1>2. n \in Int
  BY <1>1 DEF One
<1>. HIDE DEF n
<1>3. n * Amount(i, s) \in Int
  BY <1>1, <1>2
<1>. QED  BY <1>3 DEF Share, n

LEMMA BalanceNone ==
  ASSUME NEW s
  PROVE  Balance({}, NoneMissed, s) = 0
<1>1. \A i \in Instances : Share({}, NoneMissed, s)[i] = 0
  <2>. SUFFICES ASSUME NEW i \in Instances
                PROVE  Share({}, NoneMissed, s)[i] = 0
    OBVIOUS
  <2>1. Share({}, NoneMissed, s)[i] = (0 - 0) * Amount(i, s)
    BY DEF Share, NoneMissed, One
  <2>. QED  BY <2>1, AmountFacts
<1>. QED  BY <1>1, InstancesAssumption, SumZero DEF Balance

\* A call that was dropped, or lost by a load, changes both sides of the
\* account.
LEMMA BalanceSame ==
  ASSUME NEW a, NEW m, NEW b, NEW n, NEW s,
         \A i \in Instances : One(i \in a) - m[i] = One(i \in b) - n[i]
  PROVE  Balance(a, m, s) = Balance(b, n, s)
BY DEF Balance, Share

\* Named so that the provers match it before they calculate.
Posted(v, sign, x) == v + sign * x

\* One that was not, only one.
LEMMA BalancePosted ==
  ASSUME NEW a, NEW b, NEW m \in [Instances -> Int], NEW s, NEW i \in Instances,
         NEW sign \in Int,
         \/ sign = 1 /\ i \notin a /\ b = a \cup {i}
         \/ sign = -1 /\ i \in a /\ b = a \ {i}
  PROVE  Balance(b, m, s) = Posted(Balance(a, m, s), sign, Amount(i, s))
<1>. DEFINE d == sign * Amount(i, s)
            f == Share(a, m, s)
            g == Share(b, m, s)
<1>1. Amount(i, s) \in Int /\ d \in Int
  BY AmountFacts
<1>2. \A j \in Instances : f[j] \in Int
  BY ShareInt
<1>3. ASSUME NEW j \in Instances
      PROVE  g[j] = IF j = i THEN f[j] + d ELSE f[j]
  <2>1. CASE j = i
    <3>. DEFINE n == m[i]
                x == Amount(i, s)
    <3>1. n \in Int /\ x \in Int
      BY <1>1
    <3>2. CASE sign = 1
      <4>1. f[j] = (0 - n) * x /\ g[j] = (1 - n) * x
        BY <2>1, <3>2 DEF Share, One
      <4>. HIDE DEF n, x
      <4>2. (1 - n) * x = ((0 - n) * x) + x
        BY <3>1
      <4>3. d = x
        BY <3>1, <3>2 DEF x
      <4>. QED  BY <2>1, <4>1, <4>2, <4>3
    <3>3. CASE sign = -1
      <4>1. f[j] = (1 - n) * x /\ g[j] = (0 - n) * x
        BY <2>1, <3>3 DEF Share, One
      <4>. HIDE DEF n, x
      <4>2. (0 - n) * x = ((1 - n) * x) + (-x)
        BY <3>1
      <4>3. d = -x
        BY <3>1, <3>3 DEF x
      <4>. QED  BY <2>1, <4>1, <4>2, <4>3
    <3>. QED  BY <3>2, <3>3
  <2>2. CASE j # i
    <3>1. j \in a <=> j \in b
      BY <2>2
    <3>. QED  BY <2>2, <3>1 DEF Share
  <2>. QED  BY <2>1, <2>2
<1>4. IsFiniteSet(Instances)
  BY InstancesAssumption
<1>. HIDE DEF d, f, g
<1>5. Sum(g, Instances) = Sum(f, Instances) + (IF i \in Instances THEN d ELSE 0)
  BY <1>1, <1>2, <1>3, <1>4, SumChange
<1>. QED  BY <1>5 DEF Balance, Posted, d, f, g

-----------------------------------------------------------------------------
(* The steps of a job, and what the engine does, as entries in the ledger.  *)

\* A step that edits nothing: no write becomes pending by it.
LEMMA PendingFrame ==
  ASSUME PendingInv, UNCHANGED active,
         \A t \in Threads :
           /\ job'[t].inst \in {job[t].inst, Nil}
           /\ Pending(t)' => /\ Pending(t) /\ job'[t].inst = job[t].inst
                             /\ job'[t].sign = job[t].sign
                             /\ job'[t].city = job[t].city
  PROVE  PendingInv'
BY DEF PendingInv

LEMMA PendingCity ==
  ASSUME IInv, NEW t \in Threads, Pending(t)
  PROVE  job[t].city \in Cities
<1>1. at[t] # "idle"
  BY DEF Pending, Unstored
<1>. QED  BY <1>1 DEF IInv, JobInv, JobOf, TypeOK

LEMMA BalanceFrame ==
  ASSUME BalanceInv, UNCHANGED <<persisted, active, missed>>,
         alive \subseteq alive'
  PROVE  BalanceInv'
<1>1. \A c \in Cities, s \in Slots : Expected(c, s)' = Expected(c, s)
  BY ExpectedIsBalance
<1>. QED  BY <1>1 DEF BalanceInv

\* The steps of a job but for the stores.
LEMMA StepsKeepLedger ==
  ASSUME IInv, LedgerInv, NEW t \in Threads,
         \/ Hydrate(t) \/ SeedEntry(t) \/ BumpSeeded(t)
         \/ \E k \in Kinds : LoadVector(t, k)
         \/ Stamp(t) \/ Copy(t)
         \/ Edit(t) \/ InvalidateAndNotify(t) \/ BumpWrite(t)
  PROVE  LedgerInv' /\ UNCHANGED persisted
<1>. USE DEF IInv, LedgerInv
<1>1. UNCHANGED <<alive, persisted, active, missed>>
  BY DEF Hydrate, LoadVector, SeedEntry, BumpSeeded, Stamp, Copy, Edit,
         InvalidateAndNotify, BumpWrite, world, table
<1>2. /\ \A u \in Threads : u # t => job'[u] = job[u] /\ at'[u] = at[u]
      /\ job'[t].inst \in {job[t].inst, Nil}
      /\ Pending(t)' => /\ Pending(t) /\ job'[t].inst = job[t].inst
                        /\ job'[t].sign = job[t].sign
                        /\ job'[t].city = job[t].city
  <2>1. CASE \/ Hydrate(t) \/ SeedEntry(t) \/ BumpSeeded(t) \/ Stamp(t)
             \/ \E k \in Kinds : LoadVector(t, k)
             \/ Edit(t) \/ InvalidateAndNotify(t)
    <3>1. UNCHANGED job /\ \E l : Goto(t, l)
      BY <2>1 DEF Hydrate, LoadVector, SeedEntry, BumpSeeded, Stamp, Edit,
                  InvalidateAndNotify
    <3>2. \/ at[t] \in {"hydrate", "load1", "load2", "seed", "seeded", "edit"}
          \/ at[t] = "stamp" /\ at'[t] = "find"
          \/ at[t] = "notify" /\ at'[t] = "bump"
      BY <2>1, <3>1 DEF Hydrate, LoadVector, SeedEntry, BumpSeeded, Stamp, Edit,
                        InvalidateAndNotify, Goto, TypeOK, Loading, Kinds
    <3>. QED  BY <3>1, <3>2 DEF Goto, TypeOK, Pending, Unstored
  <2>2. CASE Copy(t) \/ BumpWrite(t)
    <3>1. Finish(t)
      BY <2>2 DEF Copy, BumpWrite
    <3>2. /\ at'[t] = "idle" /\ job'[t] = NoJob
          /\ \A u \in Threads : u # t => job'[u] = job[u] /\ at'[u] = at[u]
      BY <3>1 DEF Finish, Goto, TypeOK
    <3>. QED  BY <3>2 DEF NoJob, Pending
  <2>. QED  BY <2>1, <2>2
<1>3. \A u \in Threads : u # t => (Pending(u)' <=> Pending(u))
  BY <1>2 DEF Pending, Unstored
<1>4. PendingInv'
  <2>1. \A u \in Threads :
          /\ job'[u].inst \in {job[u].inst, Nil}
          /\ Pending(u)' => /\ Pending(u) /\ job'[u].inst = job[u].inst
                            /\ job'[u].sign = job[u].sign
                            /\ job'[u].city = job[u].city
    BY <1>2, <1>3
  <2>. QED  BY <1>1, <2>1, PendingFrame
<1>5. BalanceInv'
  BY <1>1, BalanceFrame
<1>. QED  BY <1>1, <1>4, <1>5 DEF ZeroRoomy

\* A read starts, a city is built or its owner becomes known.
LEMMA EngineKeepsLedger ==
  ASSUME IInv, LedgerInv,
         \/ \E t \in Threads, c \in Cities : Read(t, c)
         \/ \E c \in Cities, r \in BOOLEAN : BuildCity(c, r)
         \/ \E c \in Cities : ResolveOwner(c)
  PROVE  LedgerInv' /\ UNCHANGED persisted
<1>. USE DEF IInv, LedgerInv
<1>1. UNCHANGED <<persisted, active, missed>> /\ alive \subseteq alive'
  BY DEF Read, BuildCity, ResolveOwner, world, table
<1>2. PendingInv'
  <2>1. CASE \E t \in Threads, c \in Cities : Read(t, c)
    <3>1. PICK t \in Threads, c \in Cities : Read(t, c)
      BY <2>1
    <3>2. /\ job' = [job EXCEPT ![t] = [city |-> c, inst |-> Nil, sign |-> 0]]
          /\ \E l : at' = [at EXCEPT ![t] = l]
      BY <3>1 DEF Read, Goto
    <3>3. /\ job'[t].inst = Nil
          /\ \A u \in Threads : u # t => job'[u] = job[u] /\ at'[u] = at[u]
      BY <3>2 DEF TypeOK
    <3>4. \A u \in Threads :
            /\ job'[u].inst \in {job[u].inst, Nil}
            /\ Pending(u)' => /\ Pending(u) /\ job'[u].inst = job[u].inst
                              /\ job'[u].sign = job[u].sign
                              /\ job'[u].city = job[u].city
      BY <3>3 DEF Pending, Unstored
    <3>. QED  BY <1>1, <3>4, PendingFrame
  <2>2. CASE ~ \E t \in Threads, c \in Cities : Read(t, c)
    <3>1. UNCHANGED <<at, job>>
      BY <2>2 DEF BuildCity, ResolveOwner, thread
    <3>2. \A u \in Threads : Pending(u)' <=> Pending(u)
      BY <3>1 DEF Pending, Unstored
    <3>. QED  BY <1>1, <3>1, <3>2 DEF PendingInv
  <2>. QED  BY <2>1, <2>2
<1>3. BalanceInv'
  BY <1>1, BalanceFrame
<1>. QED  BY <1>1, <1>2, <1>3 DEF ZeroRoomy

\* A load ends every job; what a save caught half done becomes a lost call.
LEMMA LoadGameKeepsLedger ==
  ASSUME IInv, LedgerInv, NEW t \in Threads, LoadGame(t)
  PROVE  LedgerInv' /\ UNCHANGED persisted
<1>. USE DEF IInv, LedgerInv
<1>1. NoJobs /\ UNCHANGED <<alive, persisted>>
  BY DEF LoadGame
<1>2. /\ \A c \in Cities, i \in Instances :
           missed'[c][i] = missed[c][i] + One(i \in active'[c])
                                        - One(i \in active[c])
      /\ missed' \in [Cities -> [Instances -> Int]]
      /\ \A c \in Cities :
           (\A u \in Threads : job[u].city = c => job[u].inst = Nil) =>
             active'[c] = active[c]
  BY LoadAccounts
<1>3. PendingInv'
  <2>1. \A u \in Threads : job'[u] = NoJob
    BY <1>1 DEF NoJobs
  <2>2. \A u \in Threads : job'[u].inst = Nil
    BY <2>1 DEF NoJob
  <2>. QED  BY <2>2 DEF PendingInv, Pending
<1>4. ASSUME NEW c \in Cities, NEW i \in Instances
      PROVE  One(i \in active[c]) - missed[c][i]
               = One(i \in active'[c]) - missed'[c][i]
  <2>1. /\ missed[c][i] \in Int /\ One(i \in active[c]) \in Int
        /\ One(i \in active'[c]) \in Int
    BY DEF TypeOK, One
  <2>2. missed'[c][i] = missed[c][i] + One(i \in active'[c])
                                     - One(i \in active[c])
    BY <1>2
  <2>. QED  BY <2>1, <2>2
<1>5. \A c \in Cities, s \in Slots : Expected(c, s)' = Expected(c, s)
  <2>. SUFFICES ASSUME NEW c \in Cities, NEW s \in Slots
                PROVE  Expected(c, s)' = Expected(c, s)
    OBVIOUS
  <2>1. Balance(active[c], missed[c], s) = Balance(active'[c], missed'[c], s)
    BY <1>4, BalanceSame
  <2>. QED  BY <2>1, ExpectedIsBalance
<1>6. ASSUME NEW c \in Cities, c \notin alive
      PROVE  active'[c] = {} /\ missed'[c] = NoneMissed
  <2>1. active[c] = {} /\ missed[c] = NoneMissed
    BY <1>6 DEF BalanceInv
  <2>2. \A u \in Threads : job[u].city = c => job[u].inst = Nil
    BY <1>6 DEF JobInv, JobOf
  <2>3. active'[c] = {}
    BY <1>2, <2>1, <2>2
  <2>4. \A i \in Instances : missed'[c][i] = NoneMissed[i]
    BY <1>2, <2>1, <2>3 DEF One, NoneMissed
  <2>. QED  BY <1>2, <2>3, <2>4 DEF NoneMissed
<1>7. BalanceInv'
  BY <1>1, <1>5, <1>6 DEF BalanceInv
<1>. QED  BY <1>1, <1>3, <1>7 DEF ZeroRoomy

\* The engine starts a write of an instance that no thread has.
LEMMA WriteKeepsLedger ==
  ASSUME IInv, LedgerInv, NEW t \in Threads, NEW c \in Cities,
         NEW i \in Instances, NEW sign \in {-1, 1}, Write(t, c, i, sign)
  PROVE  LedgerInv' /\ UNCHANGED persisted
<1>. USE DEF IInv, LedgerInv
<1>1. /\ \A u \in Threads : job[u].inst # i
      /\ IF sign = 1 THEN \A d \in Cities : i \notin active[d] ELSE i \in active[c]
      /\ job' = [job EXCEPT ![t] = [city |-> c, inst |-> i, sign |-> sign]]
      /\ at' = [at EXCEPT ![t] = "hydrate"]
      /\ UNCHANGED <<alive, persisted, active, missed>>
  BY DEF Write, Due, Goto, world, table
<1>2. /\ job'[t].inst = i /\ job'[t].sign = sign /\ job'[t].city = c
      /\ \A u \in Threads : u # t => job'[u] = job[u] /\ at'[u] = at[u]
  BY <1>1 DEF TypeOK
<1>3. \A u \in Threads : u # t => (Pending(u)' <=> Pending(u))
  BY <1>2 DEF Pending, Unstored
<1>4. PendingInv'
  <2>. SUFFICES ASSUME NEW u \in Threads
                PROVE  /\ \A v \in Threads : v # u /\ job'[u].inst # Nil =>
                            job'[v].inst # job'[u].inst
                       /\ Pending(u)' =>
                            /\ job'[u].sign \in {-1, 1}
                            /\ IF job'[u].sign = 1
                               THEN \A d \in Cities : job'[u].inst \notin active[d]
                               ELSE job'[u].inst \in active[job'[u].city]
    BY <1>1 DEF PendingInv
  <2>1. CASE u = t
    BY <1>1, <1>2, <2>1
  <2>2. CASE u # t
    BY <1>1, <1>2, <1>3, <2>2 DEF PendingInv
  <2>. QED  BY <2>1, <2>2
<1>5. BalanceInv'
  BY <1>1, BalanceFrame
<1>. QED  BY <1>1, <1>4, <1>5 DEF ZeroRoomy

\* A dropped write: the engine's account and that of the
\* dropped calls change by the same.
LEMMA DroppedKeepsLedger ==
  ASSUME IInv, LedgerInv, NEW t \in Threads, NEW c \in Cities,
         NEW i \in Instances, NEW sign \in {-1, 1}, WriteDropped(t, c, i, sign)
  PROVE  LedgerInv' /\ UNCHANGED persisted
<1>. USE DEF IInv, LedgerInv
<1>1. /\ c \in alive /\ \A u \in Threads : job[u].inst # i
      /\ IF sign = 1 THEN \A d \in Cities : i \notin active[d] ELSE i \in active[c]
      /\ active' = [active EXCEPT ![c] = IF sign = 1 THEN @ \cup {i} ELSE @ \ {i}]
      /\ missed' = [missed EXCEPT ![c][i] = @ + sign]
      /\ UNCHANGED <<alive, persisted, at, job>>
  BY DEF WriteDropped, Due, NowActive, table, thread
<1>2. /\ \A d \in Cities : d # c => active'[d] = active[d] /\ missed'[d] = missed[d]
      /\ active'[c] = IF sign = 1 THEN active[c] \cup {i} ELSE active[c] \ {i}
      /\ \A j \in Instances : missed'[c][j] = IF j = i THEN missed[c][j] + sign
                                              ELSE missed[c][j]
      /\ \A j \in Instances : missed[c][j] \in Int
  BY <1>1 DEF TypeOK
<1>3. \A u \in Threads : Pending(u)' <=> Pending(u)
  BY <1>1 DEF Pending, Unstored
<1>4. PendingInv'
  <2>. SUFFICES ASSUME NEW u \in Threads, Pending(u)
                PROVE  /\ job[u].sign \in {-1, 1}
                       /\ IF job[u].sign = 1
                          THEN \A d \in Cities : job[u].inst \notin active'[d]
                          ELSE job[u].inst \in active'[job[u].city]
    BY <1>1, <1>3 DEF PendingInv
  <2>1. \A d \in Cities : job[u].inst \in active'[d] <=> job[u].inst \in active[d]
    BY <1>1, <1>2
  <2>2. job[u].city \in Cities
    BY PendingCity
  <2>. QED  BY <2>1, <2>2 DEF PendingInv
<1>5. BalanceInv'
  <2>1. ASSUME NEW j \in Instances
        PROVE  One(j \in active[c]) - missed[c][j]
                 = One(j \in active'[c]) - missed'[c][j]
    <3>1. CASE j = i /\ sign = 1
      BY <1>1, <1>2, <3>1 DEF One
    <3>2. CASE j = i /\ sign = -1
      BY <1>1, <1>2, <3>2 DEF One
    <3>3. CASE j # i
      BY <1>2, <3>3 DEF One
    <3>. QED  BY <3>1, <3>2, <3>3
  <2>2. \A d \in Cities, s \in Slots : Expected(d, s)' = Expected(d, s)
    <3>. SUFFICES ASSUME NEW d \in Cities, NEW s \in Slots
                  PROVE  Expected(d, s)' = Expected(d, s)
      OBVIOUS
    <3>1. CASE d = c
      <4>1. Balance(active[c], missed[c], s) = Balance(active'[c], missed'[c], s)
        BY <2>1, BalanceSame
      <4>. QED  BY <3>1, <4>1, ExpectedIsBalance
    <3>2. CASE d # c
      BY <1>2, <3>2, ExpectedIsBalance
    <3>. QED  BY <3>1, <3>2
  <2>. QED  BY <1>1, <1>2, <2>2 DEF BalanceInv
<1>. QED  BY <1>1, <1>4, <1>5 DEF ZeroRoomy

\* The store of its own vector posts what the engine applied or removed, once.
LEMMA OwnStoreKeepsLedger ==
  ASSUME IInv, LedgerInv, Roomy, NEW t \in Threads, NEW k \in Kinds,
         StoreVector(t, k), job[t].inst.kind = k
  PROVE  /\ LedgerInv'
         /\ \E c \in Cities, i \in Instances, sign \in {-1, 1} :
              persisted' = [persisted EXCEPT ![c] =
                              [s \in Slots |-> @[s] + sign * Amount(i, s)]]
<1>. USE DEF IInv, LedgerInv
<1>. DEFINE c == job[t].city
            i == job[t].inst
            sign == job[t].sign
<1>1. /\ Unstored(t) /\ at' = [at EXCEPT ![t] = at'[t]]
      /\ persisted' = [persisted EXCEPT ![c] = entry[c].value]
      /\ active' = [active EXCEPT ![c] = IF sign = 1 THEN @ \cup {i} ELSE @ \ {i}]
      /\ UNCHANGED <<alive, missed, job>>
  <2>1. persisted' = [persisted EXCEPT ![c] = entry[c].value] /\ Unstored(t)
    BY StoreEffect
  <2>2. at' = [at EXCEPT ![t] = at'[t]]
    BY DEF StoreVector, Goto, TypeOK
  <2>. QED  BY <2>1, <2>2 DEF StoreVector, NowActive
<1>2. /\ c \in alive /\ c \in Cities /\ i \in Instances /\ i # Nil
      /\ entry[c].value \in Values /\ missed[c] \in [Instances -> Int]
  <2>1. i # Nil
    BY <1>1 DEF JobInv, JobOf, Unstored
  <2>. QED  BY <2>1, StoreEffect DEF TypeOK
<1>3. /\ Pending(t) /\ sign \in {-1, 1}
      /\ IF sign = 1 THEN \A d \in Cities : i \notin active[d] ELSE i \in active[c]
  BY <1>1, <1>2 DEF Pending, PendingInv
<1>4. PICK f \in Sound(TRUE) :
        f.value = persisted[c] /\ entry[c] = Accumulate(f, i, sign)
  BY <1>1 DEF StoreInv, StoreOf
<1>. DEFINE e == entry[c]
<1>5. \A s \in Slots : e.value[s] = persisted[c][s] + sign * Amount(i, s)
  <2>1. \A s \in Slots : Within(f.value[s], i, s)
    BY <1>2, <1>4 DEF Roomy
  <2>2. i \in Instances /\ sign \in {-1, 1}
    BY <1>2, <1>3
  <2>. HIDE DEF c, i, sign
  <2>3. \A s \in Slots : Accumulate(f, i, sign).value[s]
                           = f.value[s] + sign * Amount(i, s)
    BY <2>1, <2>2, AccumulateExact
  <2>. QED  BY <1>4, <2>3
<1>6. e.value = [s \in Slots |-> persisted[c][s] + sign * Amount(i, s)]
  <2>1. e.value \in Values
    BY <1>2
  <2>. HIDE DEF e, c, i, sign
  <2>. QED  BY <1>5, <2>1 DEF Values
<1>. HIDE DEF e
<1>7. /\ persisted'[c] = e.value
      /\ active'[c] = IF sign = 1 THEN active[c] \cup {i} ELSE active[c] \ {i}
      /\ \A d \in Cities : d # c => /\ persisted'[d] = persisted[d]
                                    /\ active'[d] = active[d]
      /\ \A u \in Threads : u # t => at'[u] = at[u]
      /\ ~ Pending(t)'
  <2>1. at'[t] = IF k = "population" THEN "store2" ELSE "notify"
    BY DEF StoreVector, Goto, TypeOK
  <2>2. ~ Pending(t)'
    BY <1>1, <2>1 DEF Pending, Unstored
  <2>3. persisted'[c] = e.value
    BY <1>1, <1>2 DEF TypeOK, e
  <2>. HIDE DEF c, i, sign
  <2>. QED  BY <1>1, <1>2, <2>2, <2>3 DEF TypeOK
<1>8. PendingInv'
  <2>. SUFFICES ASSUME NEW u \in Threads, Pending(u)'
                PROVE  /\ job[u].sign \in {-1, 1}
                       /\ IF job[u].sign = 1
                          THEN \A d \in Cities : job[u].inst \notin active'[d]
                          ELSE job[u].inst \in active'[job[u].city]
    BY <1>1 DEF PendingInv
  <2>1. u # t /\ Pending(u)
    BY <1>1, <1>7 DEF Pending, Unstored
  <2>2. job[u].inst # i
    BY <1>2, <2>1 DEF PendingInv
  <2>3. \A d \in Cities : job[u].inst \in active'[d] <=> job[u].inst \in active[d]
    BY <1>7, <2>2
  <2>4. job[u].city \in Cities
    BY <2>1, PendingCity
  <2>. QED  BY <2>1, <2>3, <2>4 DEF PendingInv
<1>9. BalanceInv'
  <2>1. ASSUME NEW s \in Slots
        PROVE  persisted'[c][s] = Expected(c, s)'
    <3>1. Balance(active'[c], missed[c], s)
            = Balance(active[c], missed[c], s) + sign * Amount(i, s)
      <4>1. /\ i \in Instances /\ sign \in Int
            /\ missed[c] \in [Instances -> Int]
            /\ \/ sign = 1 /\ i \notin active[c] /\ active'[c] = active[c] \cup {i}
               \/ sign = -1 /\ i \in active[c] /\ active'[c] = active[c] \ {i}
        BY <1>2, <1>3, <1>7
      <4>. HIDE DEF c, i, sign
      <4>2. Balance(active'[c], missed[c], s)
              = Posted(Balance(active[c], missed[c], s), sign, Amount(i, s))
        BY <4>1, BalancePosted
      <4>. QED  BY <4>2 DEF Posted
    <3>2. persisted[c][s] = Balance(active[c], missed[c], s)
      BY <1>2, ExpectedIsBalance DEF BalanceInv
    <3>3. Expected(c, s)' = Balance(active'[c], missed[c], s)
      <4>1. \A d : Expected(d, s)' = Balance(active'[d], missed'[d], s)
        BY ExpectedIsBalance
      <4>2. c' = c
        BY <1>1
      <4>. QED  BY <1>1, <4>1, <4>2
    <3>. QED  BY <1>5, <1>7, <3>1, <3>2, <3>3
  <2>2. ASSUME NEW d \in Cities, d # c, NEW s \in Slots
        PROVE  persisted'[d][s] = Expected(d, s)'
    BY <1>1, <1>7, <2>2, ExpectedIsBalance DEF BalanceInv
  <2>. QED  BY <1>1, <1>2, <1>7, <2>1, <2>2 DEF BalanceInv
<1>10. persisted' = [persisted EXCEPT ![c] =
                       [s \in Slots |-> @[s] + sign * Amount(i, s)]]
  BY <1>1, <1>6 DEF e
<1>. HIDE DEF c, i, sign
<1>. QED  BY <1>2, <1>3, <1>8, <1>9, <1>10 DEF ZeroRoomy

\* The store of the other vector changes nothing.
LEMMA OtherStoreKeepsLedger ==
  ASSUME IInv, LedgerInv, NEW t \in Threads, NEW k \in Kinds,
         StoreVector(t, k), job[t].inst.kind # k
  PROVE  LedgerInv' /\ UNCHANGED persisted
<1>. USE DEF IInv, LedgerInv
<1>1. UNCHANGED <<alive, persisted, active, missed, job>>
  BY StoreEffect DEF StoreVector
<1>2. \A u \in Threads : Pending(u)' => Pending(u)
  <2>1. \A u \in Threads : u # t => at'[u] = at[u]
    BY DEF StoreVector, Goto, TypeOK
  <2>2. job[t].inst.kind \in Kinds
    BY StoreEffect, InstancesAssumption
  <2>3. /\ at[t] = Storing[k]
        /\ at'[t] = IF k = "population" THEN "store2" ELSE "notify"
    BY DEF StoreVector, Goto, TypeOK
  <2>4. Unstored(t)' => Unstored(t)
    BY <1>1, <2>3 DEF Unstored, Storing, Kinds
  <2>5. Pending(t)' => Pending(t)
    BY <1>1, <2>3, <2>4 DEF Pending
  <2>. QED  BY <1>1, <2>1, <2>5 DEF Pending, Unstored
<1>3. PendingInv'
  BY <1>1, <1>2, PendingFrame
<1>4. BalanceInv'
  BY <1>1, BalanceFrame
<1>. QED  BY <1>1, <1>3, <1>4 DEF ZeroRoomy

\* A city is destroyed: its account is closed.
LEMMA DestroyKeepsLedger ==
  ASSUME IInv, LedgerInv, NEW c \in Cities, DestroyCity(c)
  PROVE  LedgerInv' /\ persisted' = [persisted EXCEPT ![c] = Zero]
<1>. USE DEF IInv, LedgerInv
<1>1. /\ alive' = alive \ {c} /\ \A u \in Threads : job[u].city # c
      /\ persisted' = [persisted EXCEPT ![c] = Zero]
      /\ active' = [active EXCEPT ![c] = {}]
      /\ missed' = [missed EXCEPT ![c] = NoneMissed]
      /\ UNCHANGED <<at, job>>
  BY DEF DestroyCity, Busy, thread
<1>2. /\ persisted'[c] = Zero /\ active'[c] = {} /\ missed'[c] = NoneMissed
      /\ \A d \in Cities : d # c => /\ persisted'[d] = persisted[d]
                                    /\ active'[d] = active[d]
                                    /\ missed'[d] = missed[d]
  BY <1>1 DEF TypeOK
<1>3. PendingInv'
  <2>. SUFFICES ASSUME NEW u \in Threads, Pending(u)
                PROVE  /\ job[u].sign \in {-1, 1}
                       /\ IF job[u].sign = 1
                          THEN \A d \in Cities : job[u].inst \notin active'[d]
                          ELSE job[u].inst \in active'[job[u].city]
    BY <1>1 DEF PendingInv, Pending, Unstored
  <2>1. job[u].city \in Cities /\ job[u].city # c
    BY <1>1, PendingCity
  <2>. QED  BY <1>2, <2>1 DEF PendingInv
<1>4. BalanceInv'
  <2>1. ASSUME NEW s \in Slots
        PROVE  persisted'[c][s] = Expected(c, s)'
    BY <1>2, ExpectedIsBalance, BalanceNone DEF Zero
  <2>2. ASSUME NEW d \in Cities, d # c, NEW s \in Slots
        PROVE  persisted'[d][s] = Expected(d, s)'
    BY <1>2, <2>2, ExpectedIsBalance DEF BalanceInv
  <2>. QED  BY <1>1, <1>2, <2>1, <2>2 DEF BalanceInv
<1>. QED  BY <1>1, <1>3, <1>4 DEF ZeroRoomy

-----------------------------------------------------------------------------
(* No drift, and the ledger.                                               *)

LEMMA InitLedger == Init /\ Roomy => LedgerInv
<1>. SUFFICES ASSUME Init, Roomy PROVE LedgerInv
  OBVIOUS
<1>1. PendingInv
  BY DEF Init, PendingInv, Pending, Unstored, NoJob
<1>2. \A c \in Cities : /\ persisted[c] = Zero /\ active[c] = {}
                        /\ missed[c] = NoneMissed
  BY DEF Init
<1>3. \A s \in Slots : Zero[s] = 0
  BY DEF Zero
<1>4. BalanceInv
  <2>1. ASSUME NEW c \in Cities, NEW s \in Slots
        PROVE  persisted[c][s] = Expected(c, s)
    <3>1. Expected(c, s) = Balance({}, NoneMissed, s)
      BY <1>2, ExpectedIsBalance
    <3>. QED  BY <1>2, <1>3, <3>1, BalanceNone
  <2>. QED  BY <1>2, <2>1 DEF BalanceInv
<1>5. ZeroRoomy
  BY <1>2, <1>3 DEF ZeroRoomy, Roomy
<1>. QED  BY <1>1, <1>4, <1>5 DEF LedgerInv

\* Every step leaves the persisted copies alone, posts one effect to one of
\* them, or empties one.
LEMMA StepKeepsLedger ==
  ASSUME IInv, LedgerInv, Roomy, [Next]_vars
  PROVE  /\ LedgerInv'
         /\ \/ UNCHANGED persisted
            \/ \E c \in Cities, i \in Instances, sign \in {-1, 1} :
                 persisted' = [persisted EXCEPT ![c] =
                                 [s \in Slots |-> @[s] + sign * Amount(i, s)]]
            \/ \E c \in Cities : persisted' = [persisted EXCEPT ![c] = Zero]
<1>1. CASE UNCHANGED vars
  <2>1. UNCHANGED <<alive, persisted, active, missed, at, job>>
    BY <1>1 DEF vars
  <2>2. PendingInv'
    BY <2>1 DEF LedgerInv, PendingInv, Pending, Unstored
  <2>3. BalanceInv'
    BY <2>1, BalanceFrame DEF LedgerInv
  <2>. QED  BY <2>1, <2>2, <2>3 DEF LedgerInv, ZeroRoomy
<1>2. ASSUME NEW t \in Threads, Step(t), ~ \E k \in Kinds : StoreVector(t, k)
      PROVE  LedgerInv' /\ UNCHANGED persisted
  BY <1>2, StepsKeepLedger DEF Step
<1>3. ASSUME NEW t \in Threads, NEW k \in Kinds, StoreVector(t, k)
      PROVE  /\ LedgerInv'
             /\ \/ UNCHANGED persisted
                \/ \E c \in Cities, i \in Instances, sign \in {-1, 1} :
                     persisted' = [persisted EXCEPT ![c] =
                                     [s \in Slots |-> @[s] + sign * Amount(i, s)]]
  BY <1>3, OwnStoreKeepsLedger, OtherStoreKeepsLedger
<1>4. ASSUME NEW t \in Threads, NEW c \in Cities, NEW i \in Instances,
             NEW s \in {-1, 1}, Write(t, c, i, s) \/ WriteDropped(t, c, i, s)
      PROVE  LedgerInv' /\ UNCHANGED persisted
  BY <1>4, WriteKeepsLedger, DroppedKeepsLedger
<1>5. ASSUME \/ \E t \in Threads, c \in Cities : Read(t, c)
             \/ \E t \in Threads : LoadGame(t)
             \/ \E c \in Cities, r \in BOOLEAN : BuildCity(c, r)
             \/ \E c \in Cities : ResolveOwner(c)
      PROVE  LedgerInv' /\ UNCHANGED persisted
  BY <1>5, EngineKeepsLedger, LoadGameKeepsLedger
<1>6. ASSUME NEW c \in Cities, DestroyCity(c)
      PROVE  LedgerInv' /\ persisted' = [persisted EXCEPT ![c] = Zero]
  BY <1>6, DestroyKeepsLedger
<1>7. CASE \E t \in Threads : Step(t)
  BY <1>2, <1>3, <1>7
<1>8. CASE \E t \in Threads, c \in Cities, i \in Instances, s \in {-1, 1} :
             Write(t, c, i, s) \/ WriteDropped(t, c, i, s)
  BY <1>4, <1>8
<1>9. CASE \E c \in Cities : DestroyCity(c)
  BY <1>6, <1>9
<1>. QED  BY <1>1, <1>5, <1>7, <1>8, <1>9 DEF Next

LEMMA RoomyInvariant == Spec /\ []Roomy => [](IInv /\ LedgerInv)
<1>1. Init /\ Roomy => IInv /\ LedgerInv
  BY InitInv, InitLedger
<1>2. IInv /\ LedgerInv /\ Roomy /\ [Next]_vars => (IInv /\ LedgerInv)'
  BY StepKeeps, StepKeepsLedger
<1>. QED  BY <1>1, <1>2, PTL DEF Spec

\* An effect's edit counts from the store of its vector, so the total is what a
\* save would find, always.
LEMMA TotalIsPersisted ==
  ASSUME IInv, NEW c \in Cities
  PROVE  Total(c) = persisted[c]
BY DEF IInv, EntryInv, EntryOf, Behind, Total

\* While no stored value comes nearer to the ends of its type than one effect
\* (Roomy), a city's modifiers are exactly what the engine has applied and
\* not removed, less the calls that were dropped and those a save caught
\* before they had stored: hydration, loads, recycled addresses and the
\* interleaving of threads lose and repeat nothing (ApplyEntries and
\* ApplyPerSuzerainEntries).
THEOREM NoDriftWhileRoomy == Spec /\ []Roomy => []NoDrift
<1>1. ASSUME IInv, LedgerInv
      PROVE  NoDrift
  <2>. SUFFICES ASSUME NEW c \in alive, NEW s \in Slots
                PROVE  Total(c)[s] = Expected(c, s)
    BY DEF NoDrift
  <2>1. c \in Cities
    BY <1>1 DEF IInv, TypeOK
  <2>2. Total(c) = persisted[c]
    BY <1>1, <2>1, TotalIsPersisted
  <2>. QED  BY <1>1, <2>1, <2>2 DEF LedgerInv, BalanceInv
<1>. QED  BY <1>1, RoomyInvariant, PTL

\* The abstract total is the persisted copies, whatever the entries are at.
Totals == [c \in Cities |-> IF c \in alive THEN Total(c) ELSE Zero]

LEMMA TotalsArePersisted ==
  ASSUME IInv, LedgerInv
  PROVE  Totals = persisted
<1>1. \A c \in Cities : c \in alive => Total(c) = persisted[c]
  BY TotalIsPersisted
<1>2. \A c \in Cities : c \notin alive => persisted[c] = Zero
  BY DEF LedgerInv, BalanceInv
<1>3. persisted \in [Cities -> Values]
  BY DEF IInv, TypeOK
<1>. QED  BY <1>1, <1>2, <1>3 DEF Totals

LEMMA TotalsStayPersisted == (IInv /\ LedgerInv => Totals = persisted)'
<1>1. IInv /\ LedgerInv => Totals = persisted
  BY TotalsArePersisted
<1>. QED  BY <1>1, PTL

\* What an effect posts to an empty entry is what it posts to any.
LEMMA PostingIsAmount ==
  ASSUME LedgerInv, Cities # {}, NEW i \in Instances, NEW sign \in {-1, 1}
  PROVE  [s \in Slots |-> sign * Amount(i, s)] \in Postings
<1>1. NewEntry \in Sound(FALSE) /\ \A s \in Slots : NewEntry.value[s] = 0
  BY ZeroFacts DEF Sound, NewEntry, Zero
<1>2. \A s \in Slots : Within(NewEntry.value[s], i, s)
  BY <1>1 DEF LedgerInv, ZeroRoomy
<1>3. \A s \in Slots : Accumulate(NewEntry, i, sign).value[s]
                         = NewEntry.value[s] + sign * Amount(i, s)
  BY <1>1, <1>2, AccumulateExact
<1>4. ASSUME NEW s \in Slots
      PROVE  Accumulate(NewEntry, i, sign).value[s] = sign * Amount(i, s)
  <2>1. sign * Amount(i, s) \in Int
    BY AmountFacts
  <2>. QED  BY <1>1, <1>3, <2>1
<1>5. [s \in Slots |-> sign * Amount(i, s)]
        = [s \in Slots |-> Accumulate(NewEntry, i, sign).value[s]]
  BY <1>4
<1>. QED  BY <1>5 DEF Postings

\* While there is room, the path is a ledger: each effect posts its amount to
\* its city once, a destroyed city's account is closed, and snapshots,
\* hydration, loads and concurrent readers change no total.
THEOREM YieldIsLedger == Spec /\ []Roomy => ImplementsLedger
<1>1. Init => Ledger!LedgerInit
  BY DEF Init, Ledger!LedgerInit, Ledger!NoTotal, Zero
<1>2. ASSUME IInv, LedgerInv, Roomy, [Next]_vars
      PROVE  [Ledger!LedgerNext]_Totals
  <2>1. IInv' /\ LedgerInv'
    BY <1>2, StepKeeps, StepKeepsLedger
  <2>2. Totals = persisted
    BY <1>2, TotalsArePersisted
  <2>3. Totals' = persisted'
    BY <2>1, TotalsStayPersisted
  <2>4. ASSUME NEW c \in Cities, NEW i \in Instances, NEW sign \in {-1, 1},
               persisted' = [persisted EXCEPT ![c] =
                               [s \in Slots |-> @[s] + sign * Amount(i, s)]]
        PROVE  Ledger!LedgerNext
    <3>. DEFINE d == [s \in Slots |-> sign * Amount(i, s)]
    <3>1. d \in Postings
      BY <1>2, <2>4, PostingIsAmount
    <3>2. persisted' = [persisted EXCEPT ![c] = [s \in Slots |-> @[s] + d[s]]]
      BY <2>4
    <3>. HIDE DEF d
    <3>3. Ledger!Post(c, d)
      BY <2>2, <2>3, <3>2 DEF Ledger!Post, Totals
    <3>. QED  BY <3>1, <3>3 DEF Ledger!LedgerNext
  <2>5. ASSUME NEW c \in Cities, persisted' = [persisted EXCEPT ![c] = Zero]
        PROVE  Ledger!LedgerNext
    <3>1. Ledger!NoTotal = Zero
      BY DEF Ledger!NoTotal, Zero
    <3>2. Ledger!Close(c)
      BY <2>2, <2>3, <2>5, <3>1 DEF Ledger!Close, Totals
    <3>. QED  BY <3>2 DEF Ledger!LedgerNext
  <2>6. CASE UNCHANGED persisted
    BY <2>2, <2>3, <2>6
  <2>. QED  BY <1>2, <2>4, <2>5, <2>6, StepKeepsLedger
<1>3. Spec /\ []Roomy => [][Ledger!LedgerNext]_Totals
  BY <1>2, RoomyInvariant, PTL DEF Spec
<1>. QED  BY <1>1, <1>3, PTL DEF Spec, ImplementsLedger, Ledger!LedgerSpec, Totals
=============================================================================
