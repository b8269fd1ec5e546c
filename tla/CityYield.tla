------------------------------ MODULE CityYield ------------------------------
(***************************************************************************)
(* The city-yield path of the plugin: gameplay/city_yield_common.cpp and   *)
(* the two effects that write through it.                                  *)
(*                                                                         *)
(* Engine threads run two kinds of job.  A read (CalculateYield_Hook)      *)
(* answers from a thread-local snapshot of the city's extension entry;     *)
(* when the snapshot is out of date, it hydrates the entry from the city's *)
(* persisted variables and takes a new snapshot first.  A write (Apply or  *)
(* Remove of an effect) hydrates the entry, adds the effect's amount to it *)
(* and stores its two vectors in the city under the table's lock, makes    *)
(* the engine drop its own cached yields, and only then bumps the          *)
(* generation that invalidates the snapshots.  Each step here is one       *)
(* access to the table under its lock, one call of the persistence plugin, *)
(* or one access to an atomic.                                             *)
(*                                                                         *)
(* The extension table is the plain map PlayerExtraTable implements.  Of   *)
(* an entry only the fields of this path are kept; whether its owner is    *)
(* still the city's is left open.  The persistence plugin is there, and    *)
(* each of its calls stores or loads one vector as a whole.  The engine's  *)
(* own cache is left out: it may read a yield at any moment.               *)
(***************************************************************************)
EXTENDS Integers, FiniteSets, Sequences, SequencesExt

CONSTANTS
  Threads,      \* engine threads that read yields or run effects
  Cities,       \* City::Instance addresses
  Instances,    \* effect instances: [id, kind, entries]
  MaxYields,    \* civ6::kMaxYields
  PercentUnit,  \* kPercentUnit
  MaxAmount,    \* kMaxPlausibleAmount
  MinValue, MaxValue,  \* the range of the stored integer type
  MaxBumps,     \* bound: how often the generation may be bumped
  MaxBirths,    \* bound: how many cities may be built at one address
  MaxMissed,    \* bound: dropped calls a city may have outstanding
  Nil

Kinds == {"population", "suzerain"}
Yields == 0 .. MaxYields - 1
Slots == Kinds \X Yields

ASSUME SizesAssumption ==
  /\ MaxYields \in Nat \ {0}
  /\ PercentUnit \in Nat \ {0}
  /\ MaxAmount \in Nat
  /\ MaxBumps \in Nat
  /\ MaxBirths \in Nat
  /\ MaxMissed \in Nat

ASSUME RangeAssumption ==
  /\ MinValue \in Int /\ MaxValue \in Int
  /\ MinValue < 0 /\ 0 < MaxValue

ASSUME InstancesAssumption ==
  /\ IsFiniteSet(Instances)
  /\ \A i \in Instances :
       /\ i.kind \in Kinds
       /\ i.entries \in Seq([yield : Int, amount : Int]) \ {<<>>}

Values == [Slots -> MinValue .. MaxValue]

\* CityExtra, without the owner.
EntryType == [hydrated : BOOLEAN, value : Values, count : 0 .. MaxYields]

ASSUME NilAssumption == Nil \notin Cities \cup Instances \cup EntryType

VARIABLES
  alive,       \* the cities that exist
  known,       \* those whose owner PlayerForOwnerId resolves
  persisted,   \* the two AutoVariables of each city
  entry,       \* PlayerExtras(): the city's CityExtra, or Nil
  generation,  \* kTableGeneration
  snap,        \* kCache of each thread
  at,          \* where each thread is
  job,         \* what it is doing: see Job
  loaded,      \* its local copy of the persisted values
  active,      \* history: the instances the engine has applied to a city
  missed,      \* history: the calls dropped, or lost by a load, by instance
  born         \* history: how many cities were built at this address

vars == <<alive, known, persisted, entry, generation, snap, at, job, loaded,
          active, missed, born>>

table == <<persisted, entry>>
thread == <<at, job, loaded>>
world == <<alive, known, active, missed, born>>

Zero == [s \in Slots |-> 0]

\* A write has an instance and a sign.
NoJob == [city |-> Nil, inst |-> Nil, sign |-> 0]

\* A default-constructed CityExtra.
NewEntry == [hydrated |-> FALSE, value |-> Zero, count |-> 0]

\* TlsCache{}; `born' is history: the city the snapshot was taken of.
NoSnap == [gen |-> 0, city |-> Nil, entry |-> Nil, born |-> 0]

NoModifier == [k \in Kinds |-> 0]

NoneMissed == [i \in Instances |-> 0]

-----------------------------------------------------------------------------
(* The pure parts.                                                         *)

Clamp(x) == IF x > MaxValue THEN MaxValue
            ELSE IF x < MinValue THEN MinValue ELSE x

\* One entry x of an effect: an absurd one is skipped.
Plausible(x) ==
  /\ x.yield \in Yields
  /\ x.amount \in -MaxAmount .. MaxAmount

Add(v, k, x, sign) ==
  [v EXCEPT ![<<k, x.yield>>] = Clamp(@ + sign * x.amount * PercentUnit)]

\* Mutant: the valid length is one element too long.
AccumulateOneLong(e, k, x, sign) ==
  IF ~ Plausible(x) THEN e
  ELSE [e EXCEPT !.value = Add(@, k, x, sign), !.count = Max({@, x.yield + 2})]

\* Mutant: only the first yield written sets the valid length.
AccumulateOneFirst(e, k, x, sign) ==
  IF ~ Plausible(x) THEN e
  ELSE [e EXCEPT !.value = Add(@, k, x, sign),
                 !.count = IF @ = 0 THEN x.yield + 1 ELSE @]

AccumulateOne(e, k, x, sign) ==
  IF ~ Plausible(x) THEN e
  ELSE [e EXCEPT !.value = Add(@, k, x, sign), !.count = Max({@, x.yield + 1})]

\* The edit callback: all entries of the effect, added or taken back.
Accumulate(e, i, sign) ==
  FoldLeft(LAMBDA f, x : AccumulateOne(f, i.kind, x, sign), e, i.entries)

\* The valid length of a pair of arrays: past their last non-zero element.
LengthOf(v) ==
  Max({0} \cup {y + 1 : y \in {z \in Yields : \E k \in Kinds : v[<<k, z>>] # 0}})

\* The edit callback of hydration, given what was loaded.
Seed(e, v) ==
  IF e.hydrated THEN e
  ELSE IF v # Zero
       THEN [hydrated |-> TRUE, value |-> v, count |-> LengthOf(v)]
       ELSE [e EXCEPT !.hydrated = TRUE]

\* What the hook adds for yield y, per kind, given the entry it finds;
\* population and suzerain counts are factored in afterwards.
Modifier(e, y) ==
  IF e = Nil \/ y >= e.count THEN NoModifier
  ELSE [k \in Kinds |-> e.value[<<k, y>>]]

One(b) == IF b THEN 1 ELSE 0

EntryOr(c) == IF entry[c] = Nil THEN NewEntry ELSE entry[c]

-----------------------------------------------------------------------------
(* Jobs.                                                                   *)

Goto(t, l) == at' = [at EXCEPT ![t] = l]

\* The job ends: its locals go out of scope.
Finish(t) ==
  /\ Goto(t, "idle")
  /\ job' = [job EXCEPT ![t] = NoJob]
  /\ loaded' = [loaded EXCEPT ![t] = Zero]

\* No thread has one.
NoJobs ==
  /\ at' = [t \in Threads |-> "idle"]
  /\ job' = [t \in Threads |-> NoJob]
  /\ loaded' = [t \in Threads |-> Zero]

Busy(c) == \E t \in Threads : job[t].city = c

\* Where a thread is when it loads or stores a vector.
Loading == [population |-> "load1", suzerain |-> "load2"]
Storing == [population |-> "store1", suzerain |-> "store2"]

Places ==
  {"idle", "hydrate", "load1", "load2", "seed", "seeded", "stamp", "find",
   "edit", "store1", "store2", "notify", "bump"}

\* The table's lock is free: an edit holds it until it has stored both vectors.
Unlocked == \A u \in Threads : at[u] \notin {"store1", "store2"}

\* v with the vector of kind k taken from w.
WithKind(v, k, w) == [s \in Slots |-> IF s[1] = k THEN w[s] ELSE v[s]]

\* InvalidateCityExtraSnapshotCache
Bump(t) ==
  /\ generation < MaxBumps
  /\ generation' = generation + 1
  /\ snap' = [snap EXCEPT ![t] = NoSnap]

\* A read finds its answer in the thread's snapshot, which changes nothing ...
Matches(t, c) == snap[t].gen = generation /\ snap[t].city = c

\* ... or has to take a new one first.
Read(t, c) ==
  /\ at[t] = "idle" /\ c \in alive /\ ~ Matches(t, c)
  /\ job' = [job EXCEPT ![t] = [city |-> c, inst |-> Nil, sign |-> 0]]
  /\ Goto(t, "hydrate")
  /\ UNCHANGED <<world, table, generation, snap, loaded>>

\* The engine applies an instance it has not applied, or removes one it has.
Due(c, i, sign) ==
  /\ c \in alive
  /\ \A u \in Threads : job[u].inst # i
  /\ IF sign = 1 THEN \A d \in Cities : i \notin active[d]
                 ELSE i \in active[c]

\* The bound on what a city's history has lost.
FewMissed(m) ==
  /\ \A i \in Instances : m[i] \in -MaxMissed .. MaxMissed
  /\ Cardinality({i \in Instances : m[i] # 0}) <= MaxMissed

\* What the engine believes once the effect has run.
NowActive(c, i, sign) ==
  active' = [active EXCEPT ![c] = IF sign = 1 THEN @ \cup {i} ELSE @ \ {i}]

\* The engine runs an effect on a city whose owner is resolved.
Write(t, c, i, sign) ==
  /\ at[t] = "idle" /\ c \in known /\ Due(c, i, sign)
  /\ job' = [job EXCEPT ![t] = [city |-> c, inst |-> i, sign |-> sign]]
  /\ Goto(t, "hydrate")
  /\ UNCHANGED <<world, table, generation, snap, loaded>>

\* An effect that cannot read its entries or the city, or does not resolve the
\* owner, returns before it has done anything.  The engine is not told: to it
\* the effect has run.
WriteDropped(t, c, i, sign) ==
  /\ at[t] = "idle" /\ Due(c, i, sign)
  /\ NowActive(c, i, sign)
  /\ missed' = [missed EXCEPT ![c][i] = @ + sign]
  /\ FewMissed(missed'[c])
  /\ UNCHANGED <<alive, known, born, table, generation, snap, thread>>

AfterHydrate(t) == IF job[t].inst = Nil THEN "stamp" ELSE "edit"

\* Mutant: a write does not hydrate first.
HydrateReadsOnly(t) ==
  LET c == job[t].city
      hydrated == entry[c] # Nil /\ entry[c].hydrated
  IN /\ at[t] = "hydrate" /\ Unlocked
     /\ \E captured \in BOOLEAN :
          Goto(t, IF (hydrated /\ ~ captured) \/ c \notin known
                     \/ job[t].inst # Nil
                  THEN AfterHydrate(t) ELSE "load1")
     /\ UNCHANGED <<world, table, generation, snap, job, loaded>>

\* EnsureCityExtraHydrated, up to its reading the persisted values: an entry
\* that was seeded needs nothing, unless the city was captured since the entry
\* was last edited, and an owner that cannot be resolved leaves the entry for
\* later.
Hydrate(t) ==
  LET c == job[t].city
      hydrated == entry[c] # Nil /\ entry[c].hydrated
  IN /\ at[t] = "hydrate" /\ Unlocked
     /\ \E captured \in BOOLEAN :
          Goto(t, IF (hydrated /\ ~ captured) \/ c \notin known
                  THEN AfterHydrate(t) ELSE "load1")
     /\ UNCHANGED <<world, table, generation, snap, job, loaded>>

\* LoadCityValues: one vector after the other, without the table's lock.
LoadVector(t, k) ==
  /\ at[t] = Loading[k]
  /\ loaded' = [loaded EXCEPT ![t] = WithKind(@, k, persisted[job[t].city])]
  /\ Goto(t, IF k = "population" THEN "load2" ELSE "seed")
  /\ UNCHANGED <<world, table, generation, snap, job>>

\* The locked part of hydration.
SeedEntry(t) ==
  LET c == job[t].city
      seeded == ~ EntryOr(c).hydrated /\ loaded[t] # Zero
  IN /\ at[t] = "seed" /\ Unlocked
     /\ entry' = [entry EXCEPT ![c] = Seed(EntryOr(c), loaded[t])]
     /\ loaded' = [loaded EXCEPT ![t] = Zero]
     /\ Goto(t, IF seeded THEN "seeded" ELSE AfterHydrate(t))
     /\ UNCHANGED <<world, persisted, generation, snap, job>>

\* Hydration that changed values invalidates the snapshots.
BumpSeeded(t) ==
  /\ at[t] = "seeded"
  /\ Bump(t)
  /\ Goto(t, AfterHydrate(t))
  /\ UNCHANGED <<world, table, job, loaded>>

\* The read path stamps its snapshot with the generation first ...
Stamp(t) ==
  /\ at[t] = "stamp"
  /\ snap' = [snap EXCEPT ![t].gen = generation, ![t].city = job[t].city,
                          ![t].born = born[job[t].city]]
  /\ Goto(t, "find")
  /\ UNCHANGED <<world, table, generation, job, loaded>>

\* ... and copies the entry under the shared lock second; with that the hook
\* has its answer, and the engine may read again.
Copy(t) ==
  /\ at[t] = "find" /\ Unlocked
  /\ snap' = [snap EXCEPT ![t].entry = entry[job[t].city]]
  /\ Finish(t)
  /\ UNCHANGED <<world, table, generation>>

\* ApplyEntries and ApplyPerSuzerainEntries: the callback of EditCity changes
\* the entry, and keeps the table's lock until it has stored both vectors.
Edit(t) ==
  LET c == job[t].city
  IN /\ at[t] = "edit" /\ Unlocked
     /\ entry' = [entry EXCEPT ![c] =
                    Accumulate(EntryOr(c), job[t].inst, job[t].sign)]
     /\ Goto(t, "store1")
     /\ UNCHANGED <<world, persisted, generation, snap, job, loaded>>

\* Mutant: the second store is forgotten.
StoreFirstOnly(t, k) ==
  LET c == job[t].city
      i == job[t].inst
  IN /\ at[t] = Storing[k]
     /\ persisted' = IF k = "population"
                     THEN [persisted EXCEPT ![c] = WithKind(@, k, entry[c].value)]
                     ELSE persisted
     /\ IF i.kind = k THEN NowActive(c, i, job[t].sign) ELSE UNCHANGED active
     /\ Goto(t, IF k = "population" THEN "store2" ELSE "notify")
     /\ UNCHANGED <<alive, known, missed, born, entry, generation, snap, job,
                    loaded>>

\* PersistCityValues: one vector after the other.  The effect counts from the
\* store of its own kind's, which is what a save would find.
StoreVector(t, k) ==
  LET c == job[t].city
      i == job[t].inst
  IN /\ at[t] = Storing[k]
     /\ persisted' = [persisted EXCEPT ![c] = WithKind(@, k, entry[c].value)]
     /\ IF i.kind = k THEN NowActive(c, i, job[t].sign) ELSE UNCHANGED active
     /\ Goto(t, IF k = "population" THEN "store2" ELSE "notify")
     /\ UNCHANGED <<alive, known, missed, born, entry, generation, snap, job,
                    loaded>>

\* InvalidateAndNotifyCityYield: the engine is made to read the yields again,
\* which it may do before the next step.
InvalidateAndNotify(t) ==
  /\ at[t] = "notify"
  /\ Goto(t, "bump")
  /\ UNCHANGED <<world, table, generation, snap, job, loaded>>

\* Mutant: a write only drops the writing thread's own snapshot.
BumpWriteLocally(t) ==
  /\ at[t] = "bump"
  /\ snap' = [snap EXCEPT ![t] = NoSnap]
  /\ Finish(t)
  /\ UNCHANGED <<world, table, generation>>

BumpWrite(t) ==
  /\ at[t] = "bump"
  /\ Bump(t)
  /\ Finish(t)
  /\ UNCHANGED <<world, table>>

-----------------------------------------------------------------------------
(* The engine's objects.  The engine destroys a city, or a whole game      *)
(* context, when no thread is inside a call on it.                         *)

\* A city is built; CityCreated makes its entry when the owner is resolved.
BuildCity(c, resolved) ==
  /\ c \notin alive /\ born[c] < MaxBirths
  /\ resolved => Unlocked
  /\ alive' = alive \cup {c}
  /\ known' = IF resolved THEN known \cup {c} ELSE known
  /\ born' = [born EXCEPT ![c] = @ + 1]
  /\ entry' = IF resolved THEN [entry EXCEPT ![c] = NewEntry] ELSE entry
  /\ UNCHANGED <<persisted, active, missed, generation, snap, thread>>

\* The owner of a city built early becomes resolvable.
ResolveOwner(c) ==
  /\ c \in alive \ known
  /\ known' = known \cup {c}
  /\ UNCHANGED <<alive, active, missed, born, table, generation, snap, thread>>

\* Mutant: the destructor's callback leaves the entry.
DestroyCityKeepsEntry(c) ==
  /\ c \in alive /\ ~ Busy(c) /\ Unlocked
  /\ alive' = alive \ {c}
  /\ known' = known \ {c}
  /\ persisted' = [persisted EXCEPT ![c] = Zero]
  /\ active' = [active EXCEPT ![c] = {}]
  /\ missed' = [missed EXCEPT ![c] = NoneMissed]
  /\ UNCHANGED <<born, entry, generation, snap, thread>>

\* CityDestroyed; the city's persisted variables go with it.
DestroyCity(c) ==
  /\ c \in alive /\ ~ Busy(c) /\ Unlocked
  /\ alive' = alive \ {c}
  /\ known' = known \ {c}
  /\ entry' = [entry EXCEPT ![c] = Nil]
  /\ persisted' = [persisted EXCEPT ![c] = Zero]
  /\ active' = [active EXCEPT ![c] = {}]
  /\ missed' = [missed EXCEPT ![c] = NoneMissed]
  /\ UNCHANGED <<born, generation, snap, thread>>

\* The game is saved, at any moment, and loaded; what was played in between is
\* undone.  Every object is rebuilt, the engine restores the persisted
\* variables and does not run the city effects again, and the context events
\* clear the table and the snapshots (OnContext, ClearExtras).  Whether the
\* save finds an effect that was running applied may disagree with what it
\* finds in the variables, for the effects `torn'.
LoadGame(t) ==
  /\ alive # {}
  /\ \A c \in alive : born[c] < MaxBirths
  /\ \E torn \in SUBSET {u \in Threads : job[u].inst # Nil} :
       LET Torn(c) == {job[u].inst : u \in {w \in torn : job[w].city = c}}
       IN /\ active' = [c \in Cities |-> SymDiff(active[c], Torn(c))]
          /\ missed' = [c \in Cities |-> [i \in Instances |->
                          missed[c][i] + One(i \in active'[c])
                                       - One(i \in active[c])]]
  /\ \A c \in Cities : FewMissed(missed'[c])
  /\ \E later \in SUBSET alive : known' = alive \ later
  /\ born' = [c \in Cities |-> IF c \in alive THEN born[c] + 1 ELSE born[c]]
  /\ entry' = [c \in Cities |-> Nil]
  /\ Bump(t)
  /\ NoJobs
  /\ UNCHANGED <<alive, persisted>>

Init ==
  /\ alive = {} /\ known = {}
  /\ persisted = [c \in Cities |-> Zero]
  /\ entry = [c \in Cities |-> Nil]
  /\ generation = 0
  /\ snap = [t \in Threads |-> NoSnap]
  /\ at = [t \in Threads |-> "idle"]
  /\ job = [t \in Threads |-> NoJob]
  /\ loaded = [t \in Threads |-> Zero]
  /\ active = [c \in Cities |-> {}]
  /\ missed = [c \in Cities |-> NoneMissed]
  /\ born = [c \in Cities |-> 0]

Step(t) ==
  \/ Hydrate(t) \/ SeedEntry(t) \/ BumpSeeded(t)
  \/ \E k \in Kinds : LoadVector(t, k)
  \/ Stamp(t) \/ Copy(t)
  \/ Edit(t) \/ InvalidateAndNotify(t) \/ BumpWrite(t)
  \/ \E k \in Kinds : StoreVector(t, k)

Next ==
  \/ \E t \in Threads :
       \/ Step(t)
       \/ LoadGame(t)
       \/ \E c \in Cities :
            \/ Read(t, c)
            \/ \E i \in Instances, s \in {-1, 1} :
                 Write(t, c, i, s) \/ WriteDropped(t, c, i, s)
  \/ \E c \in Cities :
       \/ \E r \in BOOLEAN : BuildCity(c, r)
       \/ ResolveOwner(c)
       \/ DestroyCity(c)

Spec == Init /\ [][Next]_vars

-----------------------------------------------------------------------------
(* Properties.                                                             *)

\* The type invariant.
TypeOK ==
  /\ alive \subseteq Cities /\ known \subseteq alive
  /\ persisted \in [Cities -> Values]
  /\ entry \in [Cities -> EntryType \cup {Nil}]
  /\ generation \in 0 .. MaxBumps
  /\ snap \in [Threads -> [gen : 0 .. MaxBumps, city : Cities \cup {Nil},
                           entry : EntryType \cup {Nil}, born : 0 .. MaxBirths]]
  /\ at \in [Threads -> Places]
  /\ job \in [Threads -> [city : Cities \cup {Nil},
                          inst : Instances \cup {Nil}, sign : {-1, 0, 1}]]
  /\ loaded \in [Threads -> Values]
  /\ active \in [Cities -> SUBSET Instances]
  /\ missed \in [Cities -> [Instances -> Int]]
  /\ born \in [Cities -> 0 .. MaxBirths]

\* The edit of t is in the entry, and not yet in the persisted copy.
Unstored(t) ==
  \/ at[t] = "store1"
  \/ at[t] = "store2" /\ job[t].inst.kind = "suzerain"

\* What the city's modifiers are, wherever they are kept at the moment; those
\* being stored count once a save would find them.
Total(c) ==
  IF /\ entry[c] # Nil /\ entry[c].hydrated
     /\ ~ \E t \in Threads : job[t].city = c /\ Unstored(t)
  THEN entry[c].value ELSE persisted[c]

\* A change of c's entry whose generation bump is still to come.
Unpublished(c) ==
  \E t \in Threads :
    /\ job[t].city = c
    /\ at[t] \in {"seeded", "store1", "store2", "notify", "bump"}

\* A thread between stamping its snapshot and copying the entry.
Taking(t) == at[t] = "find"

\* Snapshots: once every change of a city has been published, a thread-local
\* snapshot that the generation still admits holds the modifiers the city
\* has now.  Stamping before copying and bumping after editing is what makes
\* this true (LookupCityExtraForCity against InvalidateCityExtraSnapshotCache).
SnapshotCurrent ==
  \A t \in Threads, c \in alive :
    /\ Matches(t, c) /\ ~ Taking(t)
    /\ snap[t].born = born[c] /\ ~ Unpublished(c)
    /\ snap[t].entry # Nil /\ snap[t].entry.hydrated
    => \A y \in Yields :
         Modifier(snap[t].entry, y) = [k \in Kinds |-> Total(c)[<<k, y>>]]

\* The persisted copy mirrors the entry: what a save would store is what the
\* table holds, but for the vector of an effect that has edited the entry and
\* not stored that vector yet.  No other vector and no other city is ever
\* behind, whoever loads, hydrates or edits meanwhile (PersistCityValues in
\* the callback of EditCity).
PersistedMirrors ==
  \A c \in alive, s \in Slots :
    /\ entry[c] # Nil /\ entry[c].hydrated
    /\ persisted[c][s] # entry[c].value[s]
    => \E t \in Threads :
         job[t].city = c /\ Unstored(t) /\ job[t].inst.kind = s[1]

\* The valid length covers every non-zero element, so the read path skips no
\* modifier, whether the entry was filled by effects or by a load.
LengthCovers ==
  \A c \in Cities : entry[c] # Nil =>
    \A k \in Kinds, y \in Yields :
      entry[c].value[<<k, y>>] # 0 => y < entry[c].count

\* What each entry of an instance adds to slot s.
Parts(i, s) ==
  [n \in DOMAIN i.entries |->
     IF Plausible(i.entries[n]) /\ <<i.kind, i.entries[n].yield>> = s
     THEN i.entries[n].amount ELSE 0]

\* What the instance contributes to it.
Amount(i, s) ==
  LET part == Parts(i, s)
  IN PercentUnit * MapThenSumSet(LAMBDA n : part[n], DOMAIN i.entries)

\* Each instance counts once while it is applied, less its lost calls.
Expected(c, s) ==
  LET share == [i \in Instances |->
                  (One(i \in active[c]) - missed[c][i]) * Amount(i, s)]
  IN MapThenSumSet(LAMBDA i : share[i], Instances)

\* No drift: a city's modifiers are the sum over exactly the instances the
\* engine has applied and not removed, through captures, saves, loads and any
\* interleaving of effects and reads, less the calls that were dropped and
\* those a save caught between the engine's record and the stored vectors.
\* Nothing else moves them apart, and nothing brings them back together.
NoDrift == \A c \in alive, s \in Slots : Total(c)[s] = Expected(c, s)

\* A city built where another one was destroyed never shows its modifiers:
\* a snapshot the generation admits was taken of the city that is there now
\* ("a recycled pointer that is reused by a new city produces a different
\* generation at the destruction/edit point and is invalidated naturally").
SnapshotOfThisCity ==
  \A t \in Threads, c \in alive :
    Matches(t, c) => snap[t].born = born[c]

\* Once a write has made the engine read again, a read finds what was written,
\* so that the engine never caches the old value again ("EditCity already
\* wrote, so the read path must see the new value").
InvalidatedReadFresh ==
  \A t \in Threads, c \in alive, y \in Yields :
    /\ at[t] = "idle" /\ Matches(t, c) /\ snap[t].born = born[c]
    /\ \E u \in Threads : job[u].city = c /\ at[u] = "bump"
    => Modifier(snap[t].entry, y) = [k \in Kinds |-> Total(c)[<<k, y>>]]

\* An owner that could not be resolved is retried: once it can be, no
\* snapshot keeps answering without the entry ("leave the entry untouched and
\* retry on a later read/write").
UnresolvedRetried ==
  \A t \in Threads, c \in alive :
    /\ Matches(t, c) /\ ~ Taking(t)
    /\ c \in known /\ snap[t].born = born[c]
    => snap[t].entry # Nil /\ snap[t].entry.hydrated

\* What an Apply or a Remove posts to a city, were there no limits.
Postings ==
  {[s \in Slots |-> Accumulate(NewEntry, i, sign).value[s]] :
     i \in Instances, sign \in {-1, 1}}

Ledger == INSTANCE YieldLedger WITH
  Deltas <- Postings,
  total <- [c \in Cities |-> IF c \in alive THEN Total(c) ELSE Zero]

\* Hydration, snapshots, loads and concurrent readers are invisible: the
\* path implements a ledger that each effect posts to once.
ImplementsLedger == Ledger!LedgerSpec
=============================================================================
