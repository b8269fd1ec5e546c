---------------------------- MODULE SuzerainCache ---------------------------
(***************************************************************************)
(* The suzerain counts the yield hook multiplies with:                     *)
(* SuzerainCountForPlayer of gameplay/city_yield_common.cpp.               *)
(*                                                                         *)
(* Threads share a cache with a time to live.  A lookup reads the clock    *)
(* once, before everything else; it looks the player up under the shared   *)
(* lock, counts without a lock when the entry is missing or expired, and   *)
(* stores what it counted under the exclusive lock, to expire one TTL      *)
(* after the clock it read.  Threads may stop for any time in between.     *)
(***************************************************************************)
EXTENDS Integers

CONSTANTS
  Threads,
  Players,   \* plausible player ids
  Counts,    \* how many city-states a player can be suzerain of
  TTL,       \* kSuzerainCountTtl
  MaxTime,   \* bound: where the clock stops
  Nil

ASSUME TtlAssumption == TTL \in Nat \ {0} /\ MaxTime \in Nat
ASSUME CountsAssumption == Counts \subseteq Nat /\ 0 \in Counts
ASSUME EntryAssumption == Nil \notin [count : Counts, expiry : Nat]

VARIABLES
  now,       \* steady_clock
  suzerain,  \* each player's city-states, in the engine
  cache,     \* kSuzerainCache
  at,        \* where each thread is
  player,    \* whom its lookup is about
  start,     \* the clock it has read
  count,     \* what it has found; -1 for nothing it could trust
  held       \* history: <<p, t, n>> when p was suzerain of n at time t

vars == <<now, suzerain, cache, at, player, start, count, held>>
world == <<now, suzerain, held>>

Goto(t, l) == at' = [at EXCEPT ![t] = l]

-----------------------------------------------------------------------------
Begin(t, p) ==
  /\ at[t] = "idle"
  /\ player' = [player EXCEPT ![t] = p]
  /\ start' = [start EXCEPT ![t] = now]
  /\ count' = [count EXCEPT ![t] = -1]
  /\ Goto(t, "look")
  /\ UNCHANGED <<world, cache>>

\* Under the shared lock.
Look(t) ==
  LET e == cache[player[t]]
  IN /\ at[t] = "look"
     /\ IF e # Nil /\ start[t] < e.expiry
        THEN count' = [count EXCEPT ![t] = e.count] /\ Goto(t, "done")
        ELSE Goto(t, "count") /\ UNCHANGED count
     /\ UNCHANGED <<world, cache, player, start>>

\* Mutant: a count that could not be trusted is stored like any other.
CountUntrusted(t) ==
  /\ at[t] = "count"
  /\ \/ count' = [count EXCEPT ![t] = suzerain[player[t]]]
     \/ UNCHANGED count
  /\ Goto(t, "store")
  /\ UNCHANGED <<world, cache, player, start>>

\* PlayerForOwnerId and CountSuzerainsOfPlayer: the count, or -1 when any
\* step is untrustworthy.
CountSuzerainsOfPlayer(p) == {suzerain[p], -1}

\* An untrusted count is answered and not stored.
Count(t) ==
  /\ at[t] = "count"
  /\ \E n \in CountSuzerainsOfPlayer(player[t]) :
       /\ count' = [count EXCEPT ![t] = n]
       /\ Goto(t, IF n < 0 THEN "done" ELSE "store")
  /\ UNCHANGED <<world, cache, player, start>>

\* Mutant: the time to live starts when the entry is stored.
StoreFromNow(t) ==
  /\ at[t] = "store"
  /\ cache' = [cache EXCEPT ![player[t]] =
                 [count |-> count[t], expiry |-> now + TTL]]
  /\ Goto(t, "done")
  /\ UNCHANGED <<world, player, start, count>>

\* Under the exclusive lock.
Store(t) ==
  /\ at[t] = "store"
  /\ cache' = [cache EXCEPT ![player[t]] =
                 [count |-> count[t], expiry |-> start[t] + TTL]]
  /\ Goto(t, "done")
  /\ UNCHANGED <<world, player, start, count>>

Finish(t) ==
  /\ at[t] = "done"
  /\ Goto(t, "idle")
  /\ UNCHANGED <<world, cache, player, start, count>>

\* ResetCityYieldCommonCaches, when no read is in progress.
Reset ==
  /\ \A t \in Threads : at[t] = "idle"
  /\ cache' = [p \in Players |-> Nil]
  /\ UNCHANGED <<world, at, player, start, count>>

-----------------------------------------------------------------------------
(* The world goes on meanwhile.                                            *)

Tick ==
  /\ now < MaxTime
  /\ now' = now + 1
  /\ held' = held \cup {<<p, now + 1, suzerain[p]>> : p \in Players}
  /\ UNCHANGED <<suzerain, cache, at, player, start, count>>

Influence(p, n) ==
  /\ n # suzerain[p]
  /\ suzerain' = [suzerain EXCEPT ![p] = n]
  /\ held' = held \cup {<<p, now, n>>}
  /\ UNCHANGED <<now, cache, at, player, start, count>>

Init ==
  /\ now = 0
  /\ suzerain = [p \in Players |-> 0]
  /\ cache = [p \in Players |-> Nil]
  /\ at = [t \in Threads |-> "idle"]
  /\ player \in [Threads -> Players]
  /\ start = [t \in Threads |-> 0]
  /\ count = [t \in Threads |-> -1]
  /\ held = {<<p, 0, 0>> : p \in Players}

Lookup(t) ==
  \/ \E p \in Players : Begin(t, p)
  \/ Look(t) \/ Count(t) \/ Store(t) \/ Finish(t)

Next ==
  \/ \E t \in Threads : Lookup(t)
  \/ Reset
  \/ Tick
  \/ \E p \in Players, n \in Counts : Influence(p, n)

Spec == Init /\ [][Next]_vars

-----------------------------------------------------------------------------
(* Properties.                                                             *)

Locations == {"idle", "look", "count", "store", "done"}

\* The type invariant: what is cached is a count that could be trusted.
TypeOK ==
  /\ now \in Nat
  /\ suzerain \in [Players -> Counts]
  /\ cache \in [Players -> [count : Counts, expiry : Nat] \cup {Nil}]
  /\ at \in [Threads -> Locations]
  /\ player \in [Threads -> Players]
  /\ start \in [Threads -> Nat]
  /\ count \in [Threads -> Counts \cup {-1}]
  /\ held \subseteq Players \X Nat \X Counts
  /\ \A t \in Threads : at[t] = "store" => count[t] \in Counts

\* p was suzerain of n at a time after `from' and not after now.
HeldSince(p, n, from) ==
  \E h \in held : h[1] = p /\ h[3] = n /\ from <= h[2] /\ h[2] <= now

\* Bounded staleness: a count that is handed to the yield hook was true less
\* than one TTL before its lookup began, or later; however the threads are
\* held up between the clock, the count and the store ("stale by at most one
\* TTL").
StaleAtMostTtl ==
  \A t \in Threads :
    at[t] = "done" /\ count[t] # -1 =>
      HeldSince(player[t], count[t], start[t] - TTL + 1)
=============================================================================
