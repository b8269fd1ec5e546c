# Soviet Union (Rework): a TLA+ model of the mod

This directory models the code of the mod that keeps state of its own: the
native plugin under `src/natives`, which an engine calls that it does not
control; the script of the leader trait under `src/Scripts`; and the build
script `src/.tools/build.ps1`, which works on what its earlier runs have left.
TLC checks a small instance of every module; for every module with a state of
its own TLAPS proves the safety properties for every value of the constants.

Each definition that stands for code is listed in `PROJECT.json` under `map`
with the lines it stands for; `hazards` lists what is hard to test, each at its
line, with the properties aimed at it. Short names below: PE is
`include/ykkz000/extra/player_extra.h`, CYC `src/gameplay/city_yield_common.cpp`,
OL `src/gameplay/object_lifecycle.cpp`, POP, SUZ and STR the three files of
`src/effects` (city yield per population, city yield per suzerain, player
strength per suzerain), PLG `src/plugin.cpp`, EA
`include/ykkz000/plugin/engine_access.h`, LUA `Scripts/YKKZ000_Leaders.lua` and
BUILD `.tools/build.ps1`.

## The system

The game loads the plugin through a loader (not in the repository). The plugin
registers three custom effects, takes over two engine functions and subscribes
to the construction and destruction of cities and units.

| part | state | operations | modelled in |
|---|---|---|---|
| extension side table (PE) | `table_` (player to two child maps that own the entries), two raw-pointer indexes, one lock | Ensure, Edit, Find, Reparent, Erase per city and unit; EnsurePlayer, DropPlayer, Clear | `PlayerExtraTable` |
| city-yield path (CYC, POP, SUZ) | `kTableGeneration`, thread-local snapshot, hydrated entries, two persisted vectors per city | Apply, Remove, the `CalculateYield` hook, hydration, invalidation | `CityYield` |
| what the yield hook adds (POP, CYC, EA) | a tracked value private to the call | read of population and value, two products, the sum written | `YieldRead` |
| suzerain-count cache (CYC) | map with expiry times under a second lock | lookup, reset | `SuzerainCache` |
| unit-strength effect (STR) | thread-local window, unit entries, the template's running total | Apply, Remove, the write-point hook, context events | `StrengthWindow` |
| plugin lifecycle (PLG, and the hook management of POP and STR) | hook flags and trampolines, subscription, host callback | GetPlugin, context created and destroyed, DestroyPlugin | `PluginLifecycle` |
| calls through the hooks (POP, STR) | the engine's threads inside a detour | the two detours' first lines | `HookCalls` |
| object callbacks (OL) | none | city and unit created and destroyed | actions of the modules above |
| kill counter (LUA) | player properties, in the saved game | a kill, the registration loop | `KillCounter` |
| build pipeline (BUILD) | the output directory, over many builds | clean, remove, copy, build, deploy, cook, find the `.dep`, write the `.modinfo` | `BuildPipeline` |
| engine access (EA) | a pointer to its provider | validated reads and writes | their outcomes, in the modules above |
| layouts, log, hash, data, art, developer tools | none, or the engine's | | not modelled |

How they interact: the engine calls Apply and Remove of an effect; these edit
an entry of the side table and, for cities, store its two vectors under the
table's lock, then make the engine drop its cached yields, then invalidate the
snapshots. The engine's reads go through the hook,
which answers from the snapshot, hydrating the entry from the persisted copy
when it must. Constructors and destructors make and erase entries. A context
event empties the table and (un)installs the hooks. The hook of the yield path
asks the suzerain cache for a count. The script and the build script share no
state with the plugin, but what is built and what is loaded is the same mod.

What is hard about it:

* threads: reads and effects interleave between lock sections, the persisted
  vectors are stored under the lock one after the other but loaded without it,
  and the snapshot is validated by an atomic that is bumped outside the lock;
  the engine calls through hooks that are being installed or given back;
* recycled addresses: the table, the snapshots and the instance maps are keyed
  by pointers the engine uses again;
* restarts: a save may fall between any two steps of an effect and stores the
  persisted copies only, and a load runs the city
  effects no second time; the script's counts live in the saved game; the next
  build starts from what a failed one has left;
* reentrancy: the engine calls back into the hooks from inside Apply, a
  notification, or another effect;
* partial failure: each step of GetPlugin, each hook installation, each read of
  engine memory and each step of a build may fail;
* numbers: shifts of negative products, two bounds, and one path that writes a
  sum without the engine's help.

## The modules

**`ExtensionMap`** is the abstract map: each object has an owner, a player and
a value, or nothing. **`PlayerExtraTable`** is the code: buckets, child maps,
index and heap, where `children[p][o]` is the address the child map of player
`p` owns and `heap[a]` what is there. An operation of the class runs under one
lock and is one action; the locked helpers are operators on a record of the
four maps, so that they compose as they do in the code. Cities and units share
their code line for line, so an object is just an object. A null player or a
player change, a destructor that was missed, and an object whose owner changes
are all among the inputs. The module implements
`ExtensionMap` under the mapping `ext[o] = Find(o)`.

**`YieldLedger`** is the abstract promise of the city-yield path: a running
total per city, kind and yield that an effect changes by its own amount, once,
and that nothing else changes while the city lives. **`CityYield`** is the
path: each action is one access to the table under its lock, one call of the
persistence API or one access of an atomic, so a thread can be overtaken between
any two. A read that its snapshot does not answer is `Read`, `Hydrate`,
`LoadVector` for each kind, `SeedEntry`, `BumpSeeded`, `Stamp`, `Copy`; a write
is `Write`, the same hydration, `Edit`, `StoreVector` for each kind,
`InvalidateAndNotify` and `BumpWrite`. `Edit` keeps the table's lock until both
vectors are stored, as the callback of EditCity does, so that until then every
other access to the table waits (`Unlocked`); the loads of a hydration do not
take that lock and may fall between the two stores. `LoadGame` is a save at any
such moment and the load of it. What the engine's record of applied effects says
of a write that was running then may differ from what its variables say: the
effects in `torn`. A write that cannot read its entries or its city, or does not
resolve the owner, returns at once, without telling the engine (`WriteDropped`).
`missed` keeps account of those calls and of the torn ones. Both effects go
through the same actions; an instance has its kind and its list of (yield,
amount) entries, the implausible ones included.

The entry is the one `PlayerExtraTable` would find for the city. Whether its
owner is still the city's, which is half of the fast path's condition
(CYC:223-224), is left open in `Hydrate` (`captured`): an entry that was seeded
may go through the loads and the locked section again, which must not change its
values. The engine's own cache of yields is not kept: the engine may read a
yield at any moment, so whether dropping a cached one fails (CYC:146-153) makes
no difference to the plugin's state. The module is checked to implement the
ledger.

**`SuzerainCache`** has a clock, a lookup in four steps and a history of what
was true when. **`YieldRead`** is the rest of the hook, composed with it by
EXTENDS: `Call` multiplies the population, `BeginLookup` to `UseCount` run the
cached lookup of the same thread, `Append` writes the sum by AddStep, itself, or
not at all in a dry run, and the reads and writes through the host may fail.

**`StrengthWindow`** has the thread-local variables as one record, a stack of
template calls in progress, and the running total of each effect object. The
template is external: its Apply writes the Amount to the engine's write point
at least once and adds it to its total, its Remove writes the negated total and
resets it. Every access to the engine's memory on the way may fail, up to
`MaxFaults` of them: the call is refused before the window opens (`Refuse`); the
hook does not get the target's unit, or the player or its count (`u` and `n` of
`Hook`); the table is not maintained because the player or the Amount cannot be
read; and the total cannot be read or written when it is to be corrected
(`Correct`), a result the code ignores (STR:358-364). What such a correction
should have added stays with the engine for good: the history variable
`stranded` accounts for it, and `RollbackExact` says that the rollback is exact
but for that. A Remove whose total is 0 maintains nothing (STR:309).

**`PluginLifecycle`** walks GetPlugin, the context events and DestroyPlugin
effect by effect, and a hook installation in its separate steps (host's answer,
take-over undone, trampoline forgotten); one that finds no function of the host
or no target in the engine does nothing. **`HookCalls`** composes it with the
engine's calls of the intercepted targets, which may arrive between any two of
these steps: a detour looks whether its trampoline is null, then calls through
it, and neither access is under the mutex the installation holds.

**`KillLedger`** promises one envoy for every three kills of a player with the
trait, whatever is saved and loaded, but for kills that failed calls lost or
counted twice. **`KillCounter`** is the script between the engine's events: the
registration is the loop over the players, one round per step, which begins at
index 1, ends at the first slot that has no player, and may find a player
without a configuration; a kill's event is delivered after the combat; the
stored remainder and the envoys are saved and loaded together; and a call of the
kill handler may raise before anything is written, so that the kill is lost
(`Lose`), or after the envoy was granted and before the property is set, so that
the next kill grants another one (`Regrant`). What was earned (`earned`) and
what such calls took or gave (`drift`) are histories of their own, not derived
from count and envoys: a kill that vanished without an error would break the
ledger. The refinement maps `credit` to `earned` and `granted` to `envoys`.

**`BuildPipeline`** is Main of the build script, one action per step, run again
and again with different options and sources into one output directory. Of the
directory it keeps, per group of files that the script treats alike, the version
of the sources they are of and whether they are whole. Every step may throw, a
step over several groups may stop halfway, and nothing is undone. The cooker is
external: of its commands, any may write a `.dep`, into the output directory or
into the project's, or none does, which the script does not check; `depped` says
whether one did in this build. `ResolveDepPath` may throw with one there, since
it does when it finds several in a directory or its subdirectories.
Find-DllArtifact looks for the DLL in several places and configurations of the CMake build
directory (BUILD:755-770); finding none, or several that it cannot choose from,
is a throw of `CopyDllArtifacts`, and the DLL it does find is taken to be of the
build that just ended well.

The `MC*` modules give TLC its instances; the `*_proofs` modules hold theorems.

## The runs

| run | instance | shows |
|---|---|---|
| `table` | 2 players, 3 objects, 2 owners, 4 addresses | index, ownership and reachability; captures keep addresses; a constructed object never inherits the values of the object that was at its address; no empty bucket is left by an erase or a capture; implements `ExtensionMap` |
| `city_yield` | 2 threads, 1 city built up to twice, 2 effects on 2 yields, 3 bumps, 1 lost call outstanding | published changes reach every snapshot; the persisted copy is behind by nothing but the vector an effect has yet to store; nothing drifts but by lost calls; implements `YieldLedger` |
| `yield_read` | 2 threads, 1 player, 2 pairs of percentages of both signs, 3 populations, TTL 2 | counts are at most one TTL old; the hook adds what its formula says or nothing; the degraded path never wraps |
| `strength` | 3 effect objects on 2 units, nesting 2, 2 writes, 2 applies, 1 failing access | rollback exact but for a failed correction, aggregate in step, instances kept |
| `lifecycle` | 3 effects, 2 hooked, 2 games, 2 loads, calls through both hooks | trampolines, flags, nothing left behind, no call lost but through a refused installation; GetPlugin and the shutdown come to an end |
| `kill_counter` | 5 slots (one empty, three with the trait), 6 combats | a stored count below three; implements `KillLedger` |
| `build` | 2 versions of the sources, 9 sets of options | what exit code 0 says of the files and of the manifest; reused art is cooked; the `.dep` of a forced build is the one cooked in it |

Five more runs each show one disagreement between the code and what a comment
says of it; `findings` quotes both:

* `city_yield_recycled`: a rebuilt city at the same address is answered from
  the destroyed one's snapshot;
* `city_yield_window`: the engine is notified before the snapshots are
  invalidated;
* `city_yield_unresolved`: an unresolved owner is cached as a miss and not
  retried;
* `strength_stack`: a write is scaled by the unit's aggregate, so several
  instances on a unit do not stack;
* `kill_registration`: the loop over the players ends at the first empty slot,
  so a player behind it is not registered.

### Remarks on the code

Seen while modelling, and not runs of their own:

* GetPlugin returns 1 on success where `bridge/host.h:309` says 0. The loader
  is not in the repository and may well expect the 1.
* POP:34-36 calls Apply and Remove symmetric, without drift. At the edge of
  int32 the stored percent saturates and they are not inverse. That takes 32768
  percent, which a single entry may have: the cap of a plausible amount, 100000,
  is three times as much. `NoDrift` is false there, and proved short of it.
* POP:33 writes the shift around the sum; the code shifts each product, so the
  answer may be one unit lower. `AnswerExact` allows for it.
* The sum of a unit's instances (STR:93) is an int32 sum taken before the bound
  that follows it is looked at; the amounts in the data are tens. Any write on
  a thread while its window is open (STR:118) is taken for the template's own.
* The result of removeHook (POP:369) is ignored, and the callbacks subscribed
  at PLG:93 are never taken back: the API has no call for it.
* `Data/YKKZ000_Leaders.xml:157` speaks of 3 melee kills; the script counts
  every kill. The player of index 0 is never registered.
* `--clean --skip=dll` is let through though it deletes the DLL it then needs
  and fails for want of it; `--clean --skip=art` is refused at once.
* A build that fails between copying the project's `.artdef` files over the
  cooked ones and cooking them lets a later `--skip=art` build exit 0 with
  uncooked or missing art. `SuccessComplete` and `ReusedArtCooked` exclude that
  history by name (`artFailed`): of the art, exit code 0 then says nothing. The
  manifest of such a build still names only files that are there.
* A build that fails leaves what an earlier one wrote: after a failed `--clean`
  or `--force-rebuild=art` there is a manifest that lists removed files. No
  property speaks of a directory between a failure and the next success.
* A `.dep` in the output directory is preferred to a stray newer one in the
  project directory; only clean and forced builds promise a fresh one, and only
  when the cooker wrote one: BUILD:1007-1046 does not look whether it did.

### Bounds

* `table`: two players are what a capture needs, three objects let a bucket
  keep another object when one is erased, and a fourth address lets a copy be
  told from a transfer.
* `city_yield`: a race needs a reader and a writer, hydration races need a
  load, and stale snapshots of a former city need two births. Two yields make
  the valid length matter. One city is enough because nothing relates two of
  them but the shared generation, which a second city could only bump more
  often; an instance with two exceeded five million states and was given up.
  Two threads are enough to have one store a vector while the other loads them,
  and to have a save fall in between. The stored integers are five bits wide
  (-16 to 15), large enough that the two effects, one of their calls lost, do
  not saturate. `MaxBumps` bounds the generation, `MaxBirths` the cities built,
  `MaxMissed` the calls lost and not made up for. The three runs of
  disagreements have one effect.
* `yield_read`: integers of five bits and a unit of 4 (for 2^8) let products
  fall inside the range, past either end, and between two units; 13 is the
  largest plausible population and -1 an implausible one. The clock reaches
  one TTL, so that a cached count expires, and a thread held up between its
  count and its store can be overtaken by another.
* `strength`: one unit with two instances beside one with a single instance
  tells an aggregate from an Amount; counts are 0, 2 and unresolved; the
  defensive bound is 4, so that it is reached. `MaxApplies` is 2: twice the
  same instance, or two of them. `MaxFaults` is 1: a single access fails, at any
  of its places; the proofs are for any number of failures.
* `lifecycle`: the second load shows what the first left, the second game
  likewise. The effects are those of `GetAllEffects()`; one call at a time
  through each hook, since calls have no state but their own.
* `kill_counter`: six combats give two envoys, or one and a remainder in each
  of two games. One player with the trait is at index 0, one is reached by the
  loop, and one stands behind the empty slot; in `kill_registration` index 0 has
  none, so that the empty slot is all that is in the way.
* `build`: two versions tell old files from new, and the number of builds is
  not bounded. The option sets are those the repository's README shows and
  those `Assert-Inputs` is about.

`CHECK_DEADLOCK FALSE` is set for the city-yield and lifecycle runs: the first
stops when births and bumps are used up, the second when the loads are. The
other runs check for deadlock.

### Fairness

The plugin has no loop, queue or retry of its own: what it does is done inside a
call by the engine or the loader, and whether they call is nothing this code
promises. What can be claimed is that a call, once made, comes to its end.
`FairHookSpec` of `HookCalls` assumes, each weakly fair: the plugin's own steps
(`OwnStep`: they run on the thread that called GetPlugin, OnGameContext or
DestroyPlugin, with nothing to wait for); the steps inside a detour; and that
the loader unmaps a module it may unmap. Nothing is assumed of the calls the
engine makes, of the game or of the loader's decisions, nor that an
installation ever succeeds. Under it `AnswersLoader` (GetPlugin always answers)
and `GivenBack` (a shutdown gives back every target) hold; a teardown that
waited for calls inside would break the second. The other nearest thing to a
liveness property, that an unresolved owner is tried again, is stated as the
safety property `UnresolvedRetried`.

### Assumptions about what is not in the repository

* The engine destroys a city or unit when no thread is inside a call about it;
  what threads were doing ends with the context when a game is loaded; and it
  does not run a city's effects on two threads
  for one instance.
* After a load the persisted vectors are restored before the first read.
* In `StrengthWindow` one thread and one player: the window is thread-local and
  the table keyed by unit. The suzerain count does not change within an Apply,
  as STR:69-71 says. Every write in a window is the template's.
* In `CityYield` the persistence API is there, and each of its calls stores or
  loads one vector as a whole. The city of a read has a valid id (a read of one
  that has none only returns).
* In `KillCounter` no call raises inside the registration loop; one that did
  would end it like an empty slot.
* `installHook` writes the trampoline before it intercepts, may report failure
  though the target is taken over (the comment at POP:320-322), and succeeds
  for a hook that is in place; `removeHook` of a held hook succeeds.
* The loader calls DestroyPlugin before it unloads the module, after a failed
  GetPlugin too, and unmaps it only when no thread is inside a detour. If it
  does not do the first, effects registered before the failure leave their hook
  behind: `NothingLeftBehind` depends on it.
* AddStep adds in the width of its field.
* The game delivers the script's events one at a time, saves properties and the
  modifiers it attached together, and keeps player slots in their order.
* CMake builds the current sources or fails; a command of the asset cooker
  writes its output or fails (whether any writes a `.dep` is left open). Nobody
  edits the project or starts a second build while one runs, and the names of
  its files do not change between versions.

## The proofs

**`PlayerExtraTable_proofs`**: for any players, objects and addresses,
`TypeOK`, `IndexLinked`, `EntryReachable` and `OwnershipExclusive` are
invariants. They are mutually dependent: an erase goes from the index to the
entry to the player it names to the child map, and each link is needed to know
that the next leads to the same entry. Their conjunction `IInv` is inductive.
From it come the action properties (`NoBucketLeftEmpty`, `AddressStable`,
`ConstructedFresh`) and, by what each operation does to the abstract map, that
the table implements `ExtensionMap`. The helpers are handled by lemmas (`s`
well-formed implies that the helper's result is), the operations by composing
them. Assumptions: `NilAssumption` keeps Nil apart from players and addresses.

**`PluginLifecycle_proofs`**: for any effects and any number of loads and
games, `TypeOK` and the five safety invariants. What makes them inductive: an
account of the one state (`within = "undo"`) where a flag is wrong and of whom
it belongs to; that while the plugin shuts down, every target that is still
taken belongs to an effect the pass has still to visit; and that a context that
is over has content only while an effect that clears the table is still to be
told. The last needs one effect with a hook (`EffectsAssumption`).

With the engine's calls composed in, `HookSpec` implies the lifecycle's `Spec`,
so all of this holds with calls going on; and `LosslessUnlessRefused`. The
argument is that a hook with a call inside keeps its trampoline until an
installation of it is refused, and that the hook being undone is one whose
refusal was noted.

**`YieldRead_proofs`**: first the cache, for any threads, players and TTL:
`TypeOK` and `StaleAtMostTtl`. The invariant strengthens the answer's bound with
that of the cached entries (true no earlier than one TTL before they expire) and
of counts not stored yet; it is the argument why the expiry must come from the
clock read before counting. Then the hook: `ReadSpec` implies the cache's
`Spec`, so the bound on staleness holds inside the hook; and for all modifiers,
populations, counts and widths, what the hook writes is in range, on the
degraded path never moves against the sign of what is added
(`DirectNeverWraps`), and is what the formula says with a count that recent
(`AnswerExact`). For the last the invariant follows the call: at each stage the
sum is that of the products so far, rounded down at most once per product and by
less than a unit each (`Rounded`), and the count in it is one the owner had
within the TTL before the lookup. Two lemmas are about the numbers: what is
shifted one by one is less than two units below the shifted sum
(`ShiftedOneByOne`), and wrapping takes congruent sums to the same value
(`WrapCongruent`).

**`CityYield_proofs`**: for any threads, cities, effects, value ranges and
bounds, `TypeOK`, `PersistedMirrors`, `LengthCovers` and `SnapshotCurrent`. No
one of them is inductive. The mirror has to follow an effect between its edit
and its second store: whoever is there is the only one, since the table's lock
is held, and the persisted copy is behind in exactly the vector of its effect's
kind until that is stored (`Behind`, `StoreInv`). It needs to know what
another thread has loaded meanwhile without the lock: between its look at the
entry and its locked section, each vector loaded is the persisted one or the
entry is hydrated and the load will not be used. It also needs that only
hydrated entries are edited, and that an entry not hydrated is empty. The
snapshots need that no snapshot is of a later generation, or of a later city at
its address, than there has been, and that a thread between `Stamp` and `Copy`
stamped the city it copies.

On top of it, `NoDrift` and `ImplementsLedger`, for every history in which no
stored value comes nearer to the ends of its type than one effect can move it
(`Roomy`); beyond it they are false, since `Clamp` is not reversible. The
hypothesis is about the values the code stores, not about the constants: one
entry that the code takes for plausible can be too much for int32 (see the
remarks), while the amounts in the data are at most tens. All states of the
run `city_yield` satisfy `Roomy`. The invariant is that the persisted copy is the
balance of the engine's account at every address, zero where no city is; that
until an effect's own vector is stored the entry is that balance with the effect
folded in (`StoreInv`); and that of an instance whose write is not stored yet no
other thread and no other city knows. A save that falls before the store, and
whose record of the effect says otherwise, is what `missed` then accounts for.
`AccumulateExact` is the heart: where there is room, folding
over the entries of an effect, implausible ones skipped, moves each slot by the
sum of its parts. The refinement then is immediate, because in every reachable
state the mapped total is the persisted copy.

**`StrengthWindow_proofs`**: for any units, effect objects, Amounts, counts and
depth of nesting, `TypeOK`, `RollbackExact`, `AggregateInSync`,
`SoleInstanceExact` and `InstancesKept`. The invariant looks at the stack:
the window a call works in is its own, the innermost call's being the thread's
and any other's the one the next call saved (`Window`); it was opened for that
call's instance, names that instance's unit once it has seen a write, and holds
what the hook changed (`OwnWindow`). The balance of a unit is over sums: what the
engine holds is the sum of what is `Held` for its instances, their totals and
what failed corrections stranded, and of what its open calls still owe; each
hook write, correction, failed correction and Remove moves one summand.

**`FiniteSums`**: the lemmas about sums over finite sets that both need (one
summand taken out, added or changed; bounds). The sum of the community modules is
defined by recursion over the set; that there is such a function, and all of the
lemmas, come from minimal counterexamples among the subsets, which takes the
place of an induction rule.

**`KillCounter_proofs`**: for any slots and players, `TypeOK` (a stored count is
below three, in the saved game too, which is what makes a load safe) and that
the script implements `KillLedger`. The invariant ties the script's state to the
two histories, in the game and in the save: `3 * envoys + kills` is what was
earned plus the drift, and only bearers of the trait have its property.
Each way a kill can end, counted, granted twice or lost, keeps it, and a load
replaces all of it together.

**`BuildPipeline_proofs`**: for any versions, any option sets and any sequence
of builds and failures, `TypeOK`, `SuccessComplete`, `ReusedArtCooked` and
`ForcedDepFresh`. The invariant says for each step of Main
what the steps before it have made sure of (`Delivered`, `Prepared`,
`DepTraced`), and `CookedKept` carries the state of the art from build to
build: without it nothing is known of the art that `--skip=art` finds.

Proving showed one definition to be wrong: the alternatives of `Appended`
overlapped, so that for an amount of zero the value was an arbitrary one of
them, which TLC, taking the first, could not show. It is now defined by cases
that exclude each other.

Only model-checked: the two liveness properties (`AnswersLoader`, `GivenBack`),
which with ENABLED are beyond the prover; and the five disagreements, which are
counterexamples. `NoDrift` and the refinement of `YieldLedger` are proved under
`Roomy` only. The proofs assume that `Instances` and the like are finite sets and
that `Nil` is no other value. Recursion over data (the fold over an effect's
entries, the sums) is proved about as described under `FiniteSums`, for finite
sets of any size.

## Not modelled, and the plan

Not modelled: the log and its rate-limiting counters, the layouts of engine
objects, the reads of engine memory (their outcomes are nondeterministic), the
XML, SQL, art and text, and the developer scripts. Of the build script, the
parsing of options, the paths, the refusals to delete outside the output
directory, the pantry graph, and what the `.modinfo` says besides its list of
files. Of the kill counter, the attacks and movement it restores, which are the
engine's, but for the restoring to fail. Of the effects, an entry that EditCity
or EditUnit could not make, and calls for a null effect object or city, which
return at once. Reasons are in `PROJECT.json`.

Next, in this order:

1. int32 width in `StrengthWindow` (aggregate and running total), with the
   bound under which the proofs of `RollbackExact` and `AggregateInSync` carry
   over, and writes of other modifiers inside a window.
2. A bound on the constants that implies `Roomy`, so that `NoDrift` holds
   outright for data files of the size that is shipped.
3. Which parts of the inductive invariants each step relies on, so that a change
   of the code can be traced to the lemma it touches.
