--------------------------- MODULE YieldRead_proofs ---------------------------
(***************************************************************************)
(* What holds of the suzerain-count cache for any number of threads and    *)
(* players, any TTL and however long the threads are held up, and of the   *)
(* read path of the city yield that uses it: its lookups are lookups of    *)
(* the cache, so what is proved of the cache holds inside the hook, and    *)
(* what it writes fits the engine's field and never turns a bonus into a   *)
(* loss.                                                                   *)
(*                                                                         *)
(* The staleness of an answer is inductive only together with that of the  *)
(* cache (an entry was true no earlier than one TTL before it expires),    *)
(* with what a thread has counted and not stored yet, and with the history *)
(* being up to date.                                                       *)
(***************************************************************************)
EXTENDS YieldRead, TLAPS

\* An entry was true at the clock of the lookup that stored it, or later.
EntriesRecent ==
  \A p \in Players :
    cache[p] # Nil => HeldSince(p, cache[p].count, cache[p].expiry - TTL)

\* A lookup's clock is past; what it has counted was true since.
CountsRecent ==
  \A t \in Threads :
    /\ start[t] <= now
    /\ at[t] = "store" => HeldSince(player[t], count[t], start[t])

HistoryCurrent == \A p \in Players : <<p, now, suzerain[p]>> \in held

\* A lookup that has not counted yet has nothing to hand out.
WaitingUncounted ==
  \A t \in Threads : at[t] \in {"look", "count"} => count[t] = -1

IInv ==
  /\ TypeOK
  /\ EntriesRecent /\ CountsRecent /\ WaitingUncounted
  /\ HistoryCurrent
  /\ StaleAtMostTtl

-----------------------------------------------------------------------------
\* A fact of the history stays one while the clock and the history grow, and
\* for every earlier bound.
LEMMA HeldMonotone ==
  ASSUME TypeOK, TypeOK', held \subseteq held', now <= now',
         NEW p, NEW n, NEW from \in Int, NEW later \in Int, from <= later,
         HeldSince(p, n, later)
  PROVE  HeldSince(p, n, from)'
<1>1. PICK h \in held : h[1] = p /\ h[3] = n /\ later <= h[2] /\ h[2] <= now
  BY DEF HeldSince
<1>2. h[2] \in Nat
  BY <1>1 DEF TypeOK
<1>3. from <= h[2] /\ h[2] <= now'
  BY <1>1, <1>2 DEF TypeOK
<1>. QED
  BY <1>1, <1>3 DEF HeldSince

-----------------------------------------------------------------------------
LEMMA InitIInv == Init => IInv
<1>. SUFFICES ASSUME Init PROVE IInv
  OBVIOUS
<1>1. TypeOK
  BY CountsAssumption DEF Init, TypeOK, Locations
<1>2. /\ EntriesRecent /\ CountsRecent /\ WaitingUncounted
      /\ HistoryCurrent /\ StaleAtMostTtl
  BY DEF Init, EntriesRecent, CountsRecent, WaitingUncounted, HistoryCurrent,
         StaleAtMostTtl
<1>. QED
  BY <1>1, <1>2 DEF IInv

LEMMA BeginIInv ==
  ASSUME IInv, NEW t \in Threads, NEW p \in Players, Begin(t, p)
  PROVE  IInv'
<1>. USE DEF Begin, Goto, world
<1>1. TypeOK'
  BY DEF IInv, TypeOK, Locations
<1>2. EntriesRecent' /\ HistoryCurrent'
  BY DEF IInv, EntriesRecent, HistoryCurrent, HeldSince
<1>3. CountsRecent'
  BY DEF IInv, TypeOK, CountsRecent, HeldSince
<1>4. StaleAtMostTtl'
  BY DEF IInv, TypeOK, StaleAtMostTtl, HeldSince
<1>5. WaitingUncounted'
  BY DEF IInv, TypeOK, WaitingUncounted
<1>. QED
  BY <1>1, <1>2, <1>3, <1>4, <1>5 DEF IInv

LEMMA LookIInv ==
  ASSUME IInv, NEW t \in Threads, Look(t)
  PROVE  IInv'
<1>. DEFINE e == cache[player[t]]
<1>. USE DEF Look, Goto, world
<1>1. player[t] \in Players /\ start[t] \in Nat
  BY DEF IInv, TypeOK
<1>2. TypeOK'
  BY <1>1 DEF IInv, TypeOK, Locations
<1>3. EntriesRecent' /\ HistoryCurrent'
  BY DEF IInv, EntriesRecent, HistoryCurrent, HeldSince
<1>4. CountsRecent'
  BY DEF IInv, TypeOK, CountsRecent, HeldSince
<1>5. ASSUME e # Nil, start[t] < e.expiry
      PROVE  HeldSince(player[t], e.count, start[t] - TTL + 1)'
  <2>1. HeldSince(player[t], e.count, e.expiry - TTL)
    BY <1>1, <1>5 DEF IInv, EntriesRecent
  <2>2. e.expiry \in Nat
    BY <1>1, <1>5 DEF IInv, TypeOK
  <2>3. start[t] - TTL + 1 <= e.expiry - TTL
    BY <1>1, <1>5, <2>2, TtlAssumption
  <2>4. held \subseteq held' /\ now <= now'
    BY DEF IInv, TypeOK
  <2>5. start[t] - TTL + 1 \in Int /\ e.expiry - TTL \in Int
    BY <1>1, <2>2, TtlAssumption
  <2>6. HeldSince(player[t], e.count, start[t] - TTL + 1)
    <3>1. PICK h \in held : /\ h[1] = player[t] /\ h[3] = e.count
                            /\ e.expiry - TTL <= h[2] /\ h[2] <= now
      BY <2>1 DEF HeldSince
    <3>2. h[2] \in Nat
      BY <3>1 DEF IInv, TypeOK
    <3>3. start[t] - TTL + 1 <= h[2]
      BY <3>1, <3>2, <2>3, <2>5
    <3>. QED
      BY <3>1, <3>3 DEF HeldSince
  <2>. QED
    BY <2>6 DEF HeldSince
<1>6. StaleAtMostTtl'
  <2>. SUFFICES ASSUME NEW u \in Threads, at'[u] = "done", count'[u] # -1
                PROVE  HeldSince(player[u], count[u], start[u] - TTL + 1)'
    BY DEF StaleAtMostTtl
  <2>1. CASE u = t
    <3>1. e # Nil /\ start[t] < e.expiry /\ count'[t] = e.count
      BY <2>1, <1>1 DEF IInv, TypeOK, Locations
    <3>. QED
      BY <1>5, <2>1, <3>1 DEF HeldSince
  <2>2. CASE u # t
    BY <2>2 DEF IInv, TypeOK, StaleAtMostTtl, HeldSince
  <2>. QED
    BY <2>1, <2>2
<1>7. WaitingUncounted'
  BY DEF IInv, TypeOK, WaitingUncounted
<1>. QED
  BY <1>2, <1>3, <1>4, <1>6, <1>7 DEF IInv

LEMMA CountIInv ==
  ASSUME IInv, NEW t \in Threads, Count(t)
  PROVE  IInv'
<1>. USE DEF Goto, world
<1>1. /\ player[t] \in Players /\ start[t] \in Nat /\ now \in Nat
      /\ suzerain[player[t]] \in Counts
  BY DEF IInv, TypeOK
<1>n. PICK n \in {suzerain[player[t]], -1} :
        /\ count' = [count EXCEPT ![t] = n]
        /\ at' = [at EXCEPT ![t] = IF n < 0 THEN "done" ELSE "store"]
  BY DEF Count, CountSuzerainsOfPlayer
<1>u. /\ at[t] = "count"
      /\ UNCHANGED <<now, suzerain, held, cache, player, start>>
  BY DEF Count
<1>c. \/ n = -1 /\ at' = [at EXCEPT ![t] = "done"]
      \/ n = suzerain[player[t]] /\ n \in Counts
         /\ at' = [at EXCEPT ![t] = "store"]
  <2>1. CASE n = -1
    BY <1>n, <2>1
  <2>2. CASE n = suzerain[player[t]]
    <3>1. n \in Counts
      BY <1>1, <2>2, Zenon
    <3>2. n \in Nat
      BY <3>1, CountsAssumption
    <3>3. ~ (n < 0)
      BY <3>2
    <3>. QED
      BY <1>n, <2>2, <3>1, <3>3
  <2>. QED
    BY <1>n, <2>1, <2>2
<1>f. /\ \A u \in Threads \ {t} : at'[u] = at[u] /\ count'[u] = count[u]
      /\ at'[t] = "done" => count'[t] = -1
      /\ at'[t] \notin {"look", "count"}
  BY <1>n, <1>c DEF IInv, TypeOK
<1>. USE <1>u
<1>2. TypeOK'
  <2>1. at' \in [Threads -> Locations]
    BY <1>c DEF IInv, TypeOK, Locations
  <2>2. count' \in [Threads -> Counts \cup {-1}]
    BY <1>n, <1>c DEF IInv, TypeOK
  <2>3. \A u \in Threads : at'[u] = "store" => count'[u] \in Counts
    BY <1>n, <1>c DEF IInv, TypeOK
  <2>. QED
    BY <2>1, <2>2, <2>3 DEF IInv, TypeOK
<1>3. EntriesRecent' /\ HistoryCurrent'
  BY DEF IInv, EntriesRecent, HistoryCurrent, HeldSince
<1>4. HeldSince(player[t], suzerain[player[t]], start[t])
  <2>1. <<player[t], now, suzerain[player[t]]>> \in held /\ start[t] <= now
    BY <1>1 DEF IInv, HistoryCurrent, CountsRecent
  <2>. QED
    BY <1>1, <2>1 DEF HeldSince
<1>5. CountsRecent'
  <2>. SUFFICES ASSUME NEW u \in Threads
                PROVE  /\ start'[u] <= now'
                       /\ at'[u] = "store" =>
                            HeldSince(player[u], count[u], start[u])'
    BY DEF CountsRecent
  <2>1. start'[u] <= now'
    BY DEF IInv, CountsRecent
  <2>2. ASSUME at'[u] = "store", u = t
        PROVE  HeldSince(player[u], count[u], start[u])'
    <3>1. count'[t] = suzerain[player[t]]
      BY <1>n, <1>c, <2>2 DEF IInv, TypeOK
    <3>. QED
      BY <1>4, <2>2, <3>1 DEF HeldSince
  <2>3. ASSUME at'[u] = "store", u # t
        PROVE  HeldSince(player[u], count[u], start[u])'
    BY <1>f, <2>3 DEF IInv, CountsRecent, HeldSince
  <2>. QED
    BY <2>1, <2>2, <2>3
<1>6. StaleAtMostTtl'
  <2>. SUFFICES ASSUME NEW u \in Threads, at'[u] = "done", count'[u] # -1
                PROVE  HeldSince(player[u], count[u], start[u] - TTL + 1)'
    BY DEF StaleAtMostTtl
  <2>1. u # t /\ at[u] = "done" /\ count[u] # -1
    BY <1>f
  <2>. QED
    BY <1>f, <2>1 DEF IInv, StaleAtMostTtl, HeldSince
<1>7. WaitingUncounted'
  BY <1>f DEF IInv, WaitingUncounted
<1>. QED
  BY <1>2, <1>3, <1>5, <1>6, <1>7 DEF IInv

LEMMA StoreIInv ==
  ASSUME IInv, NEW t \in Threads, Store(t)
  PROVE  IInv'
<1>. DEFINE p == player[t]
<1>. USE DEF Store, Goto, world
<1>1. p \in Players /\ start[t] \in Nat /\ count[t] \in Counts
  BY DEF IInv, TypeOK
<1>2. HeldSince(p, count[t], start[t])
  BY DEF IInv, CountsRecent
<1>3. TypeOK'
  BY <1>1, TtlAssumption DEF IInv, TypeOK, Locations
<1>4. EntriesRecent'
  <2>. SUFFICES ASSUME NEW q \in Players, cache'[q] # Nil
                PROVE  HeldSince(q, cache[q].count, cache[q].expiry - TTL)'
    BY DEF EntriesRecent
  <2>1. CASE q = p
    <3>1. cache'[q] = [count |-> count[t], expiry |-> start[t] + TTL]
      BY <1>1, <2>1 DEF IInv, TypeOK
    <3>2. cache'[q].expiry - TTL = start[t]
      BY <1>1, <3>1, TtlAssumption
    <3>. QED
      BY <1>2, <2>1, <3>1, <3>2 DEF HeldSince
  <2>2. CASE q # p
    BY <2>2 DEF IInv, TypeOK, EntriesRecent, HeldSince
  <2>. QED
    BY <2>1, <2>2
<1>5. CountsRecent' /\ WaitingUncounted' /\ HistoryCurrent'
  BY DEF IInv, TypeOK, CountsRecent, WaitingUncounted, HistoryCurrent,
         HeldSince
<1>6. StaleAtMostTtl'
  <2>. SUFFICES ASSUME NEW u \in Threads, at'[u] = "done", count'[u] # -1
                PROVE  HeldSince(player[u], count[u], start[u] - TTL + 1)'
    BY DEF StaleAtMostTtl
  <2>1. CASE u = t
    <3>1. PICK h \in held : /\ h[1] = p /\ h[3] = count[t]
                            /\ start[t] <= h[2] /\ h[2] <= now
      BY <1>2 DEF HeldSince
    <3>2. h[2] \in Nat
      BY <3>1 DEF IInv, TypeOK
    <3>3. start[t] - TTL + 1 <= h[2]
      BY <1>1, <3>1, <3>2, TtlAssumption
    <3>. QED
      BY <2>1, <3>1, <3>3 DEF HeldSince
  <2>2. CASE u # t
    BY <2>2 DEF IInv, TypeOK, StaleAtMostTtl, HeldSince
  <2>. QED
    BY <2>1, <2>2
<1>. QED
  BY <1>3, <1>4, <1>5, <1>6 DEF IInv

LEMMA FinishIInv ==
  ASSUME IInv, NEW t \in Threads, Finish(t)
  PROVE  IInv'
<1>. USE DEF Finish, Goto, world
<1>1. TypeOK'
  BY DEF IInv, TypeOK, Locations
<1>2. EntriesRecent' /\ HistoryCurrent'
  BY DEF IInv, EntriesRecent, HistoryCurrent, HeldSince
<1>3. CountsRecent' /\ WaitingUncounted' /\ StaleAtMostTtl'
  BY DEF IInv, TypeOK, CountsRecent, WaitingUncounted, StaleAtMostTtl,
         HeldSince
<1>. QED
  BY <1>1, <1>2, <1>3 DEF IInv

LEMMA ResetIInv ==
  ASSUME IInv, Reset
  PROVE  IInv'
<1>. USE DEF Reset, world
<1>1. TypeOK'
  BY DEF IInv, TypeOK
<1>2. EntriesRecent'
  BY DEF EntriesRecent
<1>3. CountsRecent' /\ WaitingUncounted' /\ HistoryCurrent' /\ StaleAtMostTtl'
  BY DEF IInv, CountsRecent, WaitingUncounted, HistoryCurrent, StaleAtMostTtl,
         HeldSince
<1>. QED
  BY <1>1, <1>2, <1>3 DEF IInv

-----------------------------------------------------------------------------
\* A step of the world: the history grows, the clock does not go back, and
\* the threads and the cache stay as they are.
LEMMA WorldIInv ==
  ASSUME IInv, TypeOK', HistoryCurrent', held \subseteq held', now <= now',
         UNCHANGED <<cache, at, player, start, count>>
  PROVE  IInv'
<1>1. EntriesRecent'
  <2>. SUFFICES ASSUME NEW p \in Players, cache[p] # Nil
                PROVE  HeldSince(p, cache[p].count, cache[p].expiry - TTL)'
    BY DEF EntriesRecent
  <2>1. HeldSince(p, cache[p].count, cache[p].expiry - TTL)
    BY DEF IInv, EntriesRecent
  <2>2. cache[p].expiry - TTL \in Int
    BY TtlAssumption DEF IInv, TypeOK
  <2>. QED
    BY <2>1, <2>2, HeldMonotone DEF IInv
<1>2. CountsRecent'
  <2>. SUFFICES ASSUME NEW t \in Threads
                PROVE  /\ start[t] <= now'
                       /\ at[t] = "store" =>
                            HeldSince(player[t], count[t], start[t])'
    BY DEF CountsRecent
  <2>1. start[t] <= now'
    BY DEF IInv, TypeOK, CountsRecent
  <2>2. start[t] \in Int
    BY DEF IInv, TypeOK
  <2>3. at[t] = "store" => HeldSince(player[t], count[t], start[t])
    BY DEF IInv, CountsRecent
  <2>. QED
    BY <2>1, <2>2, <2>3, HeldMonotone DEF IInv
<1>3. StaleAtMostTtl'
  <2>. SUFFICES ASSUME NEW t \in Threads, at[t] = "done", count[t] # -1
                PROVE  HeldSince(player[t], count[t], start[t] - TTL + 1)'
    BY DEF StaleAtMostTtl
  <2>1. start[t] - TTL + 1 \in Int
    BY TtlAssumption DEF IInv, TypeOK
  <2>2. HeldSince(player[t], count[t], start[t] - TTL + 1)
    BY DEF IInv, StaleAtMostTtl
  <2>. QED
    BY <2>1, <2>2, HeldMonotone DEF IInv
<1>4. WaitingUncounted'
  BY DEF IInv, WaitingUncounted
<1>. QED
  BY <1>1, <1>2, <1>3, <1>4 DEF IInv

LEMMA TickIInv ==
  ASSUME IInv, Tick
  PROVE  IInv'
<1>. USE DEF Tick
<1>1. TypeOK'
  BY DEF IInv, TypeOK
<1>2. HistoryCurrent'
  BY DEF HistoryCurrent
<1>3. held \subseteq held' /\ now <= now'
  BY DEF IInv, TypeOK
<1>. QED
  BY <1>1, <1>2, <1>3, WorldIInv

LEMMA InfluenceIInv ==
  ASSUME IInv, NEW p \in Players, NEW n \in Counts, Influence(p, n)
  PROVE  IInv'
<1>. USE DEF Influence
<1>1. TypeOK'
  BY DEF IInv, TypeOK
<1>2. HistoryCurrent'
  BY DEF IInv, TypeOK, HistoryCurrent
<1>3. held \subseteq held' /\ now <= now'
  BY DEF IInv, TypeOK
<1>. QED
  BY <1>1, <1>2, <1>3, WorldIInv

-----------------------------------------------------------------------------
\* The inductive invariant: types, and recent facts in the cache, in the
\* threads and in the answers, in every reachable state.
THEOREM CacheRecent == Spec => []IInv
<1>1. Init => IInv
  BY InitIInv
<1>2. IInv /\ [Next]_vars => IInv'
  <2>. SUFFICES ASSUME IInv, [Next]_vars PROVE IInv'
    OBVIOUS
  <2>1. ASSUME NEW t \in Threads, Lookup(t) PROVE IInv'
    BY <2>1, BeginIInv, LookIInv, CountIInv, StoreIInv, FinishIInv DEF Lookup
  <2>2. CASE Reset
    BY <2>2, ResetIInv
  <2>3. CASE Tick
    BY <2>3, TickIInv
  <2>4. ASSUME NEW p \in Players, NEW n \in Counts, Influence(p, n)
        PROVE  IInv'
    BY <2>4, InfluenceIInv
  <2>5. CASE UNCHANGED vars
    BY <2>5 DEF vars, IInv, TypeOK, EntriesRecent, CountsRecent,
                WaitingUncounted, HistoryCurrent, StaleAtMostTtl, HeldSince
  <2>. QED
    BY <2>1, <2>2, <2>3, <2>4, <2>5 DEF Next
<1>. QED
  BY <1>1, <1>2, PTL DEF Spec

\* SuzerainCountForPlayer caches only counts it could trust, whatever the
\* number of threads.
THEOREM CacheTypeOK == Spec => []TypeOK
BY CacheRecent, PTL DEF IInv

\* SuzerainCountForPlayer never answers with a count that was last true a
\* TTL or more before the lookup began, for every TTL, every number of
\* threads and players, and any delay between the steps of a lookup.
THEOREM CacheStaleAtMostTtl == Spec => []StaleAtMostTtl
BY CacheRecent, PTL DEF IInv

-----------------------------------------------------------------------------
(* The read path.                                                          *)

\* The hook uses the cache by its operations only.
THEOREM ReadUsesCache == ReadSpec => Spec
<1>1. ReadInit => Init
  BY DEF ReadInit
<1>2. [ReadNext]_readVars => [Next]_vars
  <2> SUFFICES ASSUME [ReadNext]_readVars PROVE [Next]_vars
    OBVIOUS
  <2>1. CASE Around
    BY <2>1 DEF Around, Next
  <2>2. ASSUME NEW t \in Threads, HookStep(t) PROVE [Next]_vars
    <3>1. ASSUME NEW m \in Modifiers, NEW pop \in Populations, Call(t, m, pop)
          PROVE  UNCHANGED vars
      BY <3>1 DEF Call
    <3>2. ASSUME NEW p \in Players, BeginLookup(t, p)
          PROVE  Next
      BY <3>2 DEF BeginLookup, Next, Lookup
    <3>3. CASE LookupStep(t)
      BY <3>3 DEF LookupStep, Next, Lookup
    <3>4. CASE UseCount(t)
      BY <3>4 DEF UseCount, Next, Lookup
    <3>5. ASSUME NEW base \in Bases, Append(t, base)
          PROVE  UNCHANGED vars
      BY <3>5 DEF Append
    <3>6. CASE Return(t)
      BY <3>6 DEF Return
    <3>. QED  BY <2>2, <3>1, <3>2, <3>3, <3>4, <3>5, <3>6 DEF HookStep
  <2>3. CASE UNCHANGED readVars
    BY <2>3 DEF readVars
  <2>. QED  BY <2>1, <2>2, <2>3 DEF ReadNext
<1>. QED  BY <1>1, <1>2, PTL DEF ReadSpec, Spec

\* A lookup inside the hook hands out no count older than one TTL, however
\* long the thread is held up in it.
THEOREM ReadStaleAtMostTtl == ReadSpec => []StaleAtMostTtl
BY ReadUsesCache, CacheStaleAtMostTtl, PTL

-----------------------------------------------------------------------------
(* Numbers.                                                                *)

LEMMA WrapInRange ==
  ASSUME NEW x \in Int
  PROVE  Wrap(x) \in MinInt .. MaxInt
<1>. DEFINE n == MaxInt - MinInt + 1
<1>1. n \in Int /\ n > 0 /\ x - MinInt \in Int
  BY UnitAssumption
<1>2. (x - MinInt) % n \in 0 .. n - 1
  BY <1>1
<1>. QED  BY <1>1, <1>2, UnitAssumption DEF Wrap

LEMMA ShiftInt ==
  ASSUME NEW x \in Int
  PROVE  Shift(x) \in Int
BY UnitAssumption DEF Shift

\* What is written fits, and without AddStep it is on the side of the
\* engine's value that the sum is on.
LEMMA AppendedInRange ==
  ASSUME NEW base \in MinInt .. MaxInt, NEW d \in Int,
         mode \in {"native", "direct", "dry"}
  PROVE  /\ Appended(base, d) \in MinInt .. MaxInt
         /\ mode = "direct" =>
              /\ d >= 0 => Appended(base, d) >= base
              /\ d <= 0 => Appended(base, d) <= base
<1>1. base \in Int /\ MinInt \in Int /\ MaxInt \in Int /\ base + d \in Int
  BY UnitAssumption
<1>2. Wrap(base + d) \in MinInt .. MaxInt
  BY <1>1, WrapInRange
<1>. QED  BY <1>1, <1>2 DEF Appended, Direct, InRange

-----------------------------------------------------------------------------
(* The calls.                                                              *)

\* One call, and what an answer without AddStep may be.
CallRecords ==
  [stage : {"idle", "suzerains", "lookup", "append", "answered"},
   suz : Int, delta : Int, value : MinInt .. MaxInt, exact : Int,
   base : Bases \cup {0}, whole : BOOLEAN]

OnItsSide(r) ==
  r.stage = "answered" /\ mode = "direct" =>
    /\ r.delta >= 0 => r.value >= r.base
    /\ r.delta <= 0 => r.value <= r.base

Good(r) == r \in CallRecords /\ OnItsSide(r)

ReadIInv ==
  /\ mode \in {"native", "direct", "dry"}
  /\ read \in [Threads -> CallRecords]
  /\ \A t \in Threads : OnItsSide(read[t])

\* A step of one thread that leaves its own call good leaves all calls good.
LEMMA OneCall ==
  ASSUME ReadIInv, NEW t \in Threads, NEW r, Step(t, r), Good(r),
         UNCHANGED mode
  PROVE  ReadIInv'
BY DEF ReadIInv, Step, Good, OnItsSide

LEMMA NoReadGood == Good(NoRead)
BY UnitAssumption DEF Good, CallRecords, OnItsSide, NoRead

LEMMA CallGood ==
  ASSUME ReadIInv, NEW t \in Threads, NEW m \in Modifiers,
         NEW pop \in Populations, Call(t, m, pop)
  PROVE  ReadIInv'
<1>1. m[1] \in Int /\ m[2] \in Int /\ pop \in Int
  BY ReadsAssumption
<1>2. m[1] * pop \in Int
  BY <1>1
<1>3. Shift(m[1] * pop) \in Int
  BY <1>2, ShiftInt
<1>. DEFINE whole == [NoRead EXCEPT !.stage = "append", !.whole = TRUE]
            began == [NoRead EXCEPT
                        !.stage = IF m[2] # 0 THEN "suzerains" ELSE "append",
                        !.suz = m[2],
                        !.delta = Shift(m[1] * pop),
                        !.exact = m[1] * pop]
<1>4. Good(whole)
  BY NoReadGood DEF Good, CallRecords, OnItsSide, NoRead
<1>5. Good(began)
  <2>. DEFINE d == Shift(m[1] * pop)
              e == m[1] * pop
  <2>1. d \in Int /\ e \in Int
    BY <1>2, <1>3
  <2>. HIDE DEF d, e
  <2>2. Good([NoRead EXCEPT
               !.stage = IF m[2] # 0 THEN "suzerains" ELSE "append",
               !.suz = m[2], !.delta = d, !.exact = e])
    BY <1>1, <2>1, NoReadGood DEF Good, CallRecords, OnItsSide, NoRead
  <2>. QED  BY <2>2 DEF d, e
<1>6. UNCHANGED mode /\ (Step(t, whole) \/ Step(t, began))
  BY DEF Call
<1>. QED
  <2>. HIDE DEF whole, began
  <2>. QED  BY <1>4, <1>5, <1>6, OneCall

LEMMA UseCountGood ==
  ASSUME ReadIInv, TypeOK, NEW t \in Threads, UseCount(t)
  PROVE  ReadIInv'
<1>1. read[t] \in CallRecords
  BY DEF ReadIInv
<1>2. count[t] \in Int
  <2>1. count[t] \in Counts \cup {-1}
    BY DEF TypeOK
  <2>2. Counts \cup {-1} \subseteq Int
    BY CountsAssumption
  <2>. QED  BY <2>1, <2>2
<1>3. read[t].suz * count[t] \in Int
  BY <1>1, <1>2 DEF CallRecords
<1>. DEFINE more == Shift(read[t].suz * count[t])
            d == IF count[t] > 0 THEN read[t].delta + more ELSE read[t].delta
            used == [read[t] EXCEPT !.stage = "append", !.delta = d]
<1>4. d \in Int
  <2>1. more \in Int
    BY <1>3, ShiftInt
  <2>. HIDE DEF more
  <2>. QED  BY <1>1, <2>1 DEF CallRecords
<1>5. Step(t, used) /\ UNCHANGED mode
  BY DEF UseCount
<1>. HIDE DEF d
<1>6. Good(used)
  BY <1>1, <1>4 DEF Good, CallRecords, OnItsSide
<1>. HIDE DEF used
<1>. QED  BY <1>5, <1>6, OneCall

LEMMA AppendGood ==
  ASSUME ReadIInv, NEW t \in Threads, NEW base \in Bases, Append(t, base)
  PROVE  ReadIInv'
<1>. DEFINE v == Appended(base, read[t].delta)
            left == [read[t] EXCEPT
                       !.stage = "answered", !.base = base, !.value = base,
                       !.whole = TRUE]
            added == [read[t] EXCEPT
                        !.stage = "answered", !.base = base, !.value = v]
<1>1. /\ read[t] \in CallRecords /\ read[t].delta \in Int
      /\ base \in MinInt .. MaxInt /\ mode \in {"native", "direct", "dry"}
  BY ReadsAssumption DEF ReadIInv, CallRecords
<1>2. /\ v \in MinInt .. MaxInt
      /\ mode = "direct" =>
           /\ read[t].delta >= 0 => v >= base
           /\ read[t].delta <= 0 => v <= base
  BY <1>1, AppendedInRange
<1>3. UNCHANGED mode /\ (Step(t, left) \/ Step(t, added))
  BY DEF Append
<1>. HIDE DEF v
<1>4. Good(left)
  <2>1. left \in CallRecords
    BY <1>1 DEF CallRecords
  <2>2. base \in Int
    BY <1>1, UnitAssumption
  <2>3. left.value = base /\ left.base = base
    BY <1>1 DEF CallRecords
  <2>4. OnItsSide(left)
    BY <2>2, <2>3 DEF OnItsSide
  <2>. QED  BY <2>1, <2>4 DEF Good
<1>5. Good(added)
  BY <1>1, <1>2 DEF Good, CallRecords, OnItsSide
<1>. HIDE DEF left, added
<1>. QED  BY <1>3, <1>4, <1>5, OneCall

-----------------------------------------------------------------------------
(* The theorems.                                                           *)

\* What a thread in the hook has computed so far is of its type and in the
\* range of its step.
THEOREM ReadsOrderly == ReadSpec => []ReadIInv
<1>1. ReadInit => ReadIInv
  BY NoReadGood DEF ReadInit, ReadIInv, Good
<1>2. ReadIInv /\ TypeOK /\ [ReadNext]_readVars => ReadIInv'
  <2> SUFFICES ASSUME ReadIInv, TypeOK, [ReadNext]_readVars PROVE ReadIInv'
    OBVIOUS
  <2>1. ASSUME UNCHANGED <<mode, read>> PROVE ReadIInv'
    BY <2>1 DEF ReadIInv, OnItsSide
  <2>2. CASE Around
    BY <2>1, <2>2 DEF Around
  <2>3. ASSUME NEW t \in Threads, HookStep(t) PROVE ReadIInv'
    <3>1. CASE \E m \in Modifiers, pop \in Populations : Call(t, m, pop)
      BY <3>1, CallGood
    <3>2. CASE \E p \in Players : BeginLookup(t, p)
      <4>1. Step(t, [read[t] EXCEPT !.stage = "lookup"]) /\ UNCHANGED mode
        BY <3>2 DEF BeginLookup
      <4>2. Good([read[t] EXCEPT !.stage = "lookup"])
        BY DEF ReadIInv, Good, CallRecords, OnItsSide
      <4>. QED  BY <4>1, <4>2, OneCall
    <3>3. CASE LookupStep(t)
      BY <2>1, <3>3 DEF LookupStep
    <3>4. CASE UseCount(t)
      BY <3>4, UseCountGood
    <3>5. CASE \E base \in Bases : Append(t, base)
      BY <3>5, AppendGood
    <3>6. CASE Return(t)
      BY <3>6, NoReadGood, OneCall DEF Return
    <3>. QED  BY <2>3, <3>1, <3>2, <3>3, <3>4, <3>5, <3>6 DEF HookStep
  <2>4. CASE UNCHANGED readVars
    BY <2>1, <2>4 DEF readVars
  <2>. QED  BY <2>2, <2>3, <2>4 DEF ReadNext
<1>. QED  BY <1>1, <1>2, ReadUsesCache, CacheTypeOK, PTL DEF ReadSpec

\* Type correctness of the calls: what the hook writes is in the range of the
\* engine's field.
THEOREM ReadTypes == ReadSpec => []ReadTypeOK
<1>1. ReadIInv => ReadTypeOK
  BY DEF ReadIInv, ReadTypeOK, CallRecords
<1>. QED  BY <1>1, ReadsOrderly, PTL

\* Whatever the modifiers, the population, the suzerain count and the engine's
\* value, the degraded path never turns a bonus into a loss.
THEOREM ReadDirectNeverWraps == ReadSpec => []DirectNeverWraps
<1>1. ReadIInv => DirectNeverWraps
  BY DEF ReadIInv, OnItsSide, DirectNeverWraps
<1>. QED  BY <1>1, ReadsOrderly, PTL

-----------------------------------------------------------------------------
(* What the hook adds is exact up to rounding.                             *)

LEMMA DivMod ==
  ASSUME NEW x \in Int, NEW n \in Nat \ {0}
  PROVE  /\ x \div n \in Int /\ x % n \in 0 .. n - 1
         /\ x = n * (x \div n) + (x % n)
OBVIOUS

\* A multiple between -n and 2 * n is none or one.
LEMMA SmallMultiple ==
  ASSUME NEW n \in Nat \ {0}, NEW j \in Int, -n < n * j, n * j < 2 * n
  PROVE  j \in {0, 1}
<1>1. ASSUME j >= 2 PROVE n * j >= 2 * n
  <2>1. PICK i \in Nat : j = i + 2
    <3>1. j - 2 \in Nat /\ j = (j - 2) + 2
      BY <1>1
    <3>. QED  BY <3>1
  <2>2. n * j = n * i + 2 * n /\ n * i >= 0
    BY <2>1
  <2>. QED  BY <2>2
<1>2. ASSUME j <= -1 PROVE n * j <= -n
  <2>1. PICK i \in Nat : j = -1 - i
    <3>1. -1 - j \in Nat /\ j = -1 - (-1 - j)
      BY <1>2
    <3>. QED  BY <3>1
  <2>2. n * j = -n - n * i /\ n * i >= 0
    BY <2>1
  <2>. QED  BY <2>2
<1>3. n * j \in Int
  OBVIOUS
<1>. QED  BY <1>1, <1>2, <1>3

\* Shifting two products one by one is at most one less than shifting their
\* sum.
LEMMA ShiftedOneByOne ==
  ASSUME NEW a \in Int, NEW b \in Int
  PROVE  Shift(a) + Shift(b) \in {(a + b) \div Unit, (a + b) \div Unit - 1}
<1>. DEFINE qa == a \div Unit
            qb == b \div Unit
            q == (a + b) \div Unit
            ra == a % Unit
            rb == b % Unit
            r == (a + b) % Unit
            j == q - qa - qb
<1>0. Unit \in Nat \ {0} /\ a + b \in Int
  BY UnitAssumption
<1>1. qa \in Int /\ ra \in 0 .. Unit - 1 /\ a = Unit * qa + ra
  BY <1>0, DivMod
<1>2. qb \in Int /\ rb \in 0 .. Unit - 1 /\ b = Unit * qb + rb
  BY <1>0, DivMod
<1>3. q \in Int /\ r \in 0 .. Unit - 1 /\ a + b = Unit * q + r
  BY <1>0, DivMod
<1>4. Shift(a) = qa /\ Shift(b) = qb
  BY DEF Shift
<1>. HIDE DEF qa, qb, q, ra, rb, r
<1>5. Unit * j = ra + rb - r /\ j \in Int
  BY <1>0, <1>1, <1>2, <1>3
<1>6. -Unit < Unit * j /\ Unit * j < 2 * Unit
  BY <1>0, <1>1, <1>2, <1>3, <1>5
<1>7. j \in {0, 1}
  <2>. HIDE DEF j
  <2>. QED  BY <1>0, <1>5, <1>6, SmallMultiple
<1>8. qa + qb = q \/ qa + qb = q - 1
  BY <1>1, <1>2, <1>3, <1>7
<1>. QED  BY <1>4, <1>8 DEF q

\* The engine's width is kept: what is written differs from the sum by a
\* multiple of the range.
LEMMA WrapCongruent ==
  ASSUME NEW x \in Int
  PROVE  (Wrap(x) - x) % (MaxInt - MinInt + 1) = 0
<1>. DEFINE n == MaxInt - MinInt + 1
            y == x - MinInt
            m == y % n
            q == y \div n
            z == Wrap(x) - x
            k == z \div n
            r == z % n
            j == -q - k
<1>1. n \in Nat \ {0} /\ y \in Int /\ MinInt \in Int
  BY UnitAssumption
<1>2. q \in Int /\ m \in 0 .. n - 1 /\ y = n * q + m
  BY <1>1, DivMod
<1>3. z = (MinInt + m) - x
  BY DEF Wrap
<1>4. z \in Int /\ z = m - y
  <2>. HIDE DEF m, z
  <2>. QED  BY <1>1, <1>2, <1>3
<1>5. k \in Int /\ r \in 0 .. n - 1 /\ z = n * k + r
  <2>. HIDE DEF z
  <2>. QED  BY <1>1, <1>4, DivMod
<1>. HIDE DEF m, q, k, r, z, y, n
<1>6. n * j = r /\ j \in Int
  BY <1>1, <1>2, <1>4, <1>5
<1>7. -n < n * j /\ n * j < 2 * n /\ n * j < n
  BY <1>1, <1>5, <1>6
<1>8. j \in {0, 1}
  <2>. HIDE DEF j
  <2>. QED  BY <1>1, <1>6, <1>7, SmallMultiple
<1>9. r = 0
  <2>. HIDE DEF j
  <2>. QED  BY <1>1, <1>6, <1>7, <1>8
<1>. QED  BY <1>9 DEF r, z, n

\* Two products shifted one by one, as one sum.
Rounded(d, sum) == d \in {sum \div Unit, sum \div Unit - 1}

\* What a call has so far, against the count it may rest on.
AnswerOf(t) ==
  LET r == read[t]
  IN /\ at[t] # "idle" => r.stage = "lookup"
     /\ r.stage \in {"suzerains", "lookup"} =>
          r.suz # 0 /\ ~ r.whole /\ r.delta = Shift(r.exact)
     /\ r.stage = "append" /\ r.whole => r.delta = 0
     /\ r.stage \in {"append", "answered"} /\ ~ r.whole =>
          \E n \in Recent(t) : Rounded(r.delta, r.exact + r.suz * n)
     /\ r.stage = "answered" =>
          r.value = IF r.whole THEN r.base ELSE Appended(r.base, r.delta)

AnswerInv == \A t \in Threads : AnswerOf(t)

\* A call that stays as it is rests on what it rested on.
LEMMA AnswerFrame ==
  ASSUME TypeOK, TypeOK', ReadIInv, NEW t \in Threads, AnswerOf(t),
         held \subseteq held', now <= now', mode' = mode,
         read'[t] = read[t], at'[t] # "idle" => at[t] # "idle",
         \/ read[t].stage = "lookup"
         \/ /\ player'[t] = player[t]
            /\ start'[t] = start[t]
            /\ count'[t] = count[t]
  PROVE  AnswerOf(t)'
<1>1. CASE read[t].stage = "lookup"
  BY <1>1 DEF AnswerOf
<1>2. CASE /\ player'[t] = player[t]
           /\ start'[t] = start[t]
           /\ count'[t] = count[t]
  <2>1. ASSUME NEW n \in Recent(t) PROVE n \in Recent(t)'
    <3>1. start[t] - TTL + 1 \in Int
      BY TtlAssumption DEF TypeOK
    <3>2. HeldSince(player[t], n, start[t] - TTL + 1) =>
            HeldSince(player[t], n, start[t] - TTL + 1)'
      <4>. DEFINE from == start[t] - TTL + 1
      <4>1. \A p, m : HeldSince(p, m, from) =>
              \E h \in held' : h[1] = p /\ h[3] = m /\ from <= h[2] /\ h[2] <= now'
        <5>. SUFFICES ASSUME NEW p, NEW m, HeldSince(p, m, from)
                      PROVE  \E h \in held' : /\ h[1] = p /\ h[3] = m
                                              /\ from <= h[2] /\ h[2] <= now'
          OBVIOUS
        <5>1. PICK h \in held : h[1] = p /\ h[3] = m /\ from <= h[2] /\ h[2] <= now
          BY DEF HeldSince
        <5>2. h[2] \in Nat /\ now \in Nat /\ now' \in Nat
          BY <5>1 DEF TypeOK
        <5>. QED  BY <5>1, <5>2
      <4>. QED  BY <1>2, <4>1 DEF HeldSince
    <3>. QED  BY <1>2, <2>1, <3>2 DEF Recent, HeldSince
  <2>2. Appended(read[t].base, read[t].delta)' =
          Appended(read[t].base, read[t].delta)
    BY DEF Appended
  <2>. QED  BY <2>1, <2>2, <1>2 DEF AnswerOf
<1>. QED  BY <1>1, <1>2

LEMMA CallAnswers ==
  ASSUME TypeOK, ReadIInv, NEW t \in Threads, AnswerOf(t), NEW m \in Modifiers,
         NEW pop \in Populations, Call(t, m, pop)
  PROVE  AnswerOf(t)'
<1>. DEFINE e == m[1] * pop
            d == Shift(e)
<1>1. m[1] \in Int /\ m[2] \in Int /\ pop \in Int
  BY ReadsAssumption
<1>2. e \in Int /\ d \in Int
  BY <1>1, ShiftInt
<1>3. at[t] = "idle" /\ at' = at
  BY DEF Call, vars, AnswerOf
<1>4. \/ read'[t] = [NoRead EXCEPT !.stage = "append", !.whole = TRUE]
      \/ read'[t] = [NoRead EXCEPT
                       !.stage = IF m[2] # 0 THEN "suzerains" ELSE "append",
                       !.suz = m[2], !.delta = d, !.exact = e]
  BY DEF Call, Step, ReadIInv
<1>. HIDE DEF e
<1>5. d = Shift(e) /\ Rounded(d, e)
  BY DEF Shift, Rounded
<1>. HIDE DEF d
<1>6. CASE read'[t] = [NoRead EXCEPT !.stage = "append", !.whole = TRUE]
  BY <1>3, <1>6 DEF AnswerOf, NoRead
<1>7. CASE read'[t] = [NoRead EXCEPT
                         !.stage = IF m[2] # 0 THEN "suzerains" ELSE "append",
                         !.suz = m[2], !.delta = d, !.exact = e]
  <2>1. /\ read'[t].stage = IF m[2] # 0 THEN "suzerains" ELSE "append"
        /\ read'[t].suz = m[2] /\ read'[t].delta = d /\ read'[t].exact = e
        /\ read'[t].whole = FALSE
    BY <1>7 DEF NoRead
  <2>2. CASE m[2] # 0
    BY <1>3, <1>5, <2>1, <2>2 DEF AnswerOf
  <2>3. CASE m[2] = 0
    <3>1. Recent(t)' = {0}
      BY <2>1, <2>3 DEF Recent
    <3>2. e + m[2] * 0 = e
      BY <1>1, <1>2
    <3>. QED  BY <1>3, <1>5, <2>1, <2>3, <3>1, <3>2 DEF AnswerOf
  <2>. QED  BY <2>2, <2>3
<1>. QED  BY <1>4, <1>6, <1>7

\* The count used is one the owner had, or none; the two products are
\* rounded one by one.
LEMMA UseCountAnswers ==
  ASSUME TypeOK, StaleAtMostTtl, ReadIInv, NEW t \in Threads, AnswerOf(t),
         UseCount(t)
  PROVE  AnswerOf(t)'
<1>. DEFINE r == read[t]
            n == IF count[t] > 0 THEN count[t] ELSE 0
            d == IF count[t] > 0 THEN r.delta + Shift(r.suz * count[t])
                 ELSE r.delta
<1>1. /\ at[t] = "done" /\ at'[t] = "idle"
      /\ UNCHANGED <<now, held, player, start, count, mode>>
      /\ read' = [read EXCEPT ![t] = [r EXCEPT !.stage = "append", !.delta = d]]
  BY DEF UseCount, Finish, Goto, world, Step, TypeOK
<1>2. /\ r \in CallRecords /\ r.suz # 0 /\ ~ r.whole /\ r.delta = Shift(r.exact)
      /\ r.exact \in Int /\ r.suz \in Int
  BY <1>1 DEF AnswerOf, ReadIInv, CallRecords
<1>3. \/ count[t] = -1
      \/ count[t] \in Counts /\ count[t] \in Nat
  <2>1. count[t] \in Counts \cup {-1}
    BY DEF TypeOK
  <2>2. CASE count[t] = -1
    BY <2>2
  <2>3. CASE count[t] \in Counts
    BY <2>3, CountsAssumption
  <2>. QED  BY <2>1, <2>2, <2>3
<1>4. /\ n \in Int
      /\ \/ count[t] = -1 /\ n = 0
         \/ count[t] # -1 /\ count[t] \in Counts /\ n = count[t]
  <2>1. CASE count[t] = -1
    BY <2>1
  <2>2. CASE count[t] \in Counts /\ count[t] \in Nat
    BY <2>2
  <2>. QED  BY <1>3, <2>1, <2>2
<1>. HIDE DEF n
<1>5. d = Shift(r.exact) + Shift(r.suz * n) /\ r.suz * n \in Int
  <2>1. Shift(r.suz * 0) = 0
    BY <1>2, UnitAssumption DEF Shift
  <2>2. Shift(r.exact) \in Int
    BY <1>2, ShiftInt
  <2>3. CASE count[t] > 0
    BY <1>2, <1>4, <2>2, <2>3
  <2>4. CASE ~ (count[t] > 0)
    <3>1. n = 0
      BY <2>4 DEF n
    <3>. QED  BY <1>2, <2>1, <2>2, <2>4, <3>1
  <2>. QED  BY <2>3, <2>4
<1>6. Rounded(d, r.exact + r.suz * n)
  BY <1>2, <1>5, ShiftedOneByOne DEF Rounded
<1>. HIDE DEF d
<1>7. /\ read'[t].stage = "append" /\ read'[t].delta = d
      /\ read'[t].suz = r.suz /\ read'[t].exact = r.exact
      /\ read'[t].whole = FALSE
  BY <1>1, <1>2 DEF ReadIInv, CallRecords
<1>8. n \in Recent(t)'
  <2>1. n \in Counts \cup {0}
    BY <1>3, <1>4
  <2>2. CASE count[t] = -1
    BY <1>1, <1>2, <1>4, <1>7, <2>1, <2>2, CountsAssumption DEF Recent
  <2>3. CASE count[t] # -1
    <3>1. HeldSince(player[t], n, start[t] - TTL + 1)
      BY <1>1, <1>4, <2>3 DEF StaleAtMostTtl
    <3>. QED  BY <1>1, <1>2, <1>7, <2>1, <3>1 DEF Recent, HeldSince
  <2>. QED  BY <2>2, <2>3
<1>. HIDE DEF r
<1>9. Rounded(d, read'[t].exact + read'[t].suz * n)
  BY <1>6, <1>7
<1>. QED  BY <1>1, <1>7, <1>8, <1>9 DEF AnswerOf, Rounded

LEMMA AppendAnswers ==
  ASSUME TypeOK, ReadIInv, NEW t \in Threads, AnswerOf(t), NEW base \in Bases,
         Append(t, base)
  PROVE  AnswerOf(t)'
<1>. DEFINE r == read[t]
            v == Appended(base, r.delta)
<1>1. /\ r.stage = "append" /\ at[t] = "idle"
      /\ UNCHANGED <<now, held, player, start, count, at, mode>>
      /\ \/ read' = [read EXCEPT ![t] = [r EXCEPT !.stage = "answered",
                                                  !.base = base, !.value = v]]
         \/ read' = [read EXCEPT ![t] = [r EXCEPT !.stage = "answered",
                                                  !.base = base, !.value = base,
                                                  !.whole = TRUE]]
  BY DEF Append, vars, Step, ReadIInv, AnswerOf
<1>. HIDE DEF v
<1>2. r \in CallRecords
  BY DEF ReadIInv
<1>a. \/ read'[t] = [r EXCEPT !.stage = "answered", !.base = base, !.value = v]
      \/ read'[t] = [r EXCEPT !.stage = "answered", !.base = base,
                               !.value = base, !.whole = TRUE]
  BY <1>1 DEF ReadIInv
<1>3. /\ read'[t].stage = "answered" /\ read'[t].base = base
      /\ read'[t].suz = r.suz /\ read'[t].exact = r.exact
      /\ read'[t].delta = r.delta
      /\ \/ read'[t].value = v /\ read'[t].whole = r.whole
         \/ read'[t].value = base /\ read'[t].whole = TRUE
  <2>. HIDE DEF r
  <2>. QED  BY <1>2, <1>a DEF CallRecords
<1>4. Appended(read[t].base, read[t].delta)' = v
  BY <1>1, <1>3 DEF Appended, v
<1>5. Recent(t)' = Recent(t)
  BY <1>1, <1>3 DEF Recent, HeldSince
<1>6. r.whole => v = base
  BY <1>1 DEF AnswerOf, Appended, v
<1>7. r.whole \/ \E n \in Recent(t) : Rounded(r.delta, r.exact + r.suz * n)
  BY <1>1 DEF AnswerOf
<1>. HIDE DEF r
<1>8. CASE ~ read'[t].whole
  BY <1>1, <1>3, <1>4, <1>5, <1>7, <1>8 DEF AnswerOf
<1>9. CASE read'[t].whole
  <2>1. read'[t].value = base
    BY <1>3, <1>6, <1>9
  <2>. QED  BY <1>1, <1>3, <1>9, <2>1 DEF AnswerOf
<1>. QED  BY <1>8, <1>9

-----------------------------------------------------------------------------
\* Every step keeps what the calls rest on.
LEMMA AnswersKeep ==
  ASSUME IInv, IInv', ReadIInv, ReadIInv', AnswerInv, [ReadNext]_readVars
  PROVE  AnswerInv'
<1>. USE DEF IInv, AnswerInv
<1>1. CASE Around
  <2>1. /\ held \subseteq held' /\ now <= now' /\ UNCHANGED <<mode, read>>
        /\ UNCHANGED <<at, player, start, count>>
    BY <1>1 DEF Around, Reset, Tick, Influence, world, TypeOK
  <2>. QED  BY <2>1, AnswerFrame
<1>2. ASSUME NEW t \in Threads, HookStep(t)
      PROVE  AnswerInv'
  <2>1. /\ held \subseteq held' /\ now <= now' /\ mode' = mode
        /\ \A u \in Threads : u # t =>
             /\ read'[u] = read[u] /\ at'[u] = at[u]
             /\ player'[u] = player[u] /\ start'[u] = start[u]
             /\ count'[u] = count[u]
    <3>. USE DEF Step, vars, ReadIInv, TypeOK, Goto, world
    <3>1. CASE \E m \in Modifiers, pop \in Populations : Call(t, m, pop)
      BY <3>1 DEF Call
    <3>2. CASE \E p \in Players : BeginLookup(t, p)
      BY <3>2 DEF BeginLookup, Begin
    <3>3. CASE LookupStep(t)
      <4>1. CASE Look(t)
        BY <3>3, <4>1 DEF LookupStep, Look
      <4>2. CASE Count(t)
        BY <3>3, <4>2 DEF LookupStep, Count
      <4>3. CASE Store(t)
        BY <3>3, <4>3 DEF LookupStep, Store
      <4>. QED  BY <3>3, <4>1, <4>2, <4>3 DEF LookupStep
    <3>4. CASE UseCount(t)
      BY <3>4 DEF UseCount, Finish
    <3>5. CASE \E base \in Bases : Append(t, base)
      BY <3>5 DEF Append
    <3>6. CASE Return(t)
      BY <3>6 DEF Return
    <3>. QED  BY <1>2, <3>1, <3>2, <3>3, <3>4, <3>5, <3>6 DEF HookStep
  <2>2. \A u \in Threads : u # t => AnswerOf(u)'
    BY <2>1, AnswerFrame
  <2>3. AnswerOf(t)'
    <3>1. CASE \E m \in Modifiers, pop \in Populations : Call(t, m, pop)
      BY <3>1, CallAnswers
    <3>2. CASE \E p \in Players : BeginLookup(t, p)
      <4>1. /\ read[t].stage = "suzerains"
            /\ read' = [read EXCEPT ![t] = [read[t] EXCEPT !.stage = "lookup"]]
        BY <3>2 DEF BeginLookup, Step
      <4>2. /\ read'[t].stage = "lookup" /\ read'[t].suz = read[t].suz
            /\ read'[t].whole = read[t].whole /\ read'[t].delta = read[t].delta
            /\ read'[t].exact = read[t].exact
        BY <4>1 DEF ReadIInv, CallRecords
      <4>. QED  BY <4>1, <4>2 DEF AnswerOf
    <3>3. CASE LookupStep(t)
      <4>1. at[t] # "idle" /\ read' = read
        BY <3>3 DEF LookupStep, Look, Count, Store
      <4>2. read[t].stage = "lookup"
        BY <4>1 DEF AnswerOf
      <4>. QED  BY <2>1, <4>1, <4>2, AnswerFrame
    <3>4. CASE UseCount(t)
      BY <3>4, UseCountAnswers
    <3>5. CASE \E base \in Bases : Append(t, base)
      BY <3>5, AppendAnswers
    <3>6. CASE Return(t)
      <4>1. read[t].stage = "answered" /\ read'[t] = NoRead /\ at' = at
        BY <3>6 DEF Return, Step, vars, ReadIInv
      <4>2. at[t] = "idle"
        BY <4>1 DEF AnswerOf
      <4>. QED  BY <4>1, <4>2 DEF AnswerOf, NoRead
    <3>. QED  BY <1>2, <3>1, <3>2, <3>3, <3>4, <3>5, <3>6 DEF HookStep
  <2>. QED  BY <2>2, <2>3
<1>3. CASE UNCHANGED readVars
  <2>1. /\ held \subseteq held' /\ now <= now' /\ UNCHANGED <<mode, read>>
        /\ UNCHANGED <<at, player, start, count>>
    BY <1>3 DEF readVars, vars, TypeOK
  <2>. QED  BY <2>1, AnswerFrame
<1>. QED  BY <1>1, <1>2, <1>3 DEF ReadNext

\* What a call rests on makes its answer exact.
LEMMA AnswersExact ==
  ASSUME ReadIInv, AnswerInv
  PROVE  AnswerExact
<1>. SUFFICES ASSUME NEW t \in Threads, read[t].stage = "answered"
              PROVE
    LET r == read[t]
        added(d) == (r.value - r.base - d) % (MaxInt - MinInt + 1) = 0
        refused(d) == \/ ~ InRange(d)
                      \/ mode = "direct" /\ ~ InRange(r.base + d)
    IN IF r.whole \/ mode = "dry" THEN r.value = r.base
       ELSE \E n \in Recent(t) :
              LET sum == r.exact + r.suz * n
              IN \E d \in {sum \div Unit, sum \div Unit - 1} :
                   IF refused(d) THEN r.value = r.base ELSE added(d)
  BY DEF AnswerExact
<1>. DEFINE r == read[t]
            N == MaxInt - MinInt + 1
            d == r.delta
<1>1. /\ r.delta \in Int /\ r.value \in MinInt .. MaxInt /\ r.base \in Int
      /\ mode \in {"native", "direct", "dry"} /\ r.whole \in BOOLEAN
  <2>1. r \in CallRecords /\ mode \in {"native", "direct", "dry"}
    BY DEF ReadIInv
  <2>2. Bases \cup {0} \subseteq Int
    BY ReadsAssumption, UnitAssumption
  <2>. QED  BY <2>1, <2>2 DEF CallRecords
<1>2. r.value = IF r.whole THEN r.base ELSE Appended(r.base, d)
  BY DEF AnswerInv, AnswerOf
<1>3. CASE r.whole \/ mode = "dry"
  BY <1>2, <1>3 DEF Appended
<1>4. CASE ~ (r.whole \/ mode = "dry")
  <2>1. PICK n \in Recent(t) : Rounded(d, r.exact + r.suz * n)
    BY <1>4 DEF AnswerInv, AnswerOf
  <2>2. N \in Nat \ {0} /\ MinInt \in Int /\ MaxInt \in Int /\ InRange(0)
    BY UnitAssumption DEF InRange
  <2>3. r.value = Appended(r.base, d)
    BY <1>2, <1>4
  <2>4. ~ InRange(d) => r.value = r.base
    BY <1>4, <2>3 DEF Appended
  <2>5. ASSUME mode = "direct", ~ InRange(r.base + d)
        PROVE  r.value = r.base
    BY <2>3, <2>5 DEF Appended, Direct
  <2>6. ASSUME InRange(d), mode = "direct" => InRange(r.base + d)
        PROVE  (r.value - r.base - d) % N = 0
    <3>0. 0 % N = 0
      <4>. HIDE DEF N
      <4>. QED  BY <2>2
    <3>1. CASE r.value = r.base + d
      <4>1. r.value - r.base - d = 0
        BY <1>1, <3>1
      <4>. QED  BY <3>0, <4>1
    <3>2. CASE d = 0
      <4>1. r.value = r.base
        BY <2>3, <3>2 DEF Appended
      <4>. QED  BY <1>1, <3>1, <3>2, <4>1
    <3>3. CASE d # 0 /\ mode = "direct"
      <4>1. r.value = r.base + d
        BY <2>3, <2>6, <3>3 DEF Appended, Direct
      <4>. QED  BY <3>1, <4>1
    <3>4. CASE d # 0 /\ mode = "native"
      <4>1. r.value = Wrap(r.base + d)
        BY <2>3, <2>6, <3>4 DEF Appended
      <4>2. r.base + d \in Int
        BY <1>1
      <4>3. (Wrap(r.base + d) - (r.base + d)) % N = 0
        BY <4>2, WrapCongruent
      <4>4. r.value - r.base - d = Wrap(r.base + d) - (r.base + d)
        <5>1. r.value \in Int
          BY <1>1, <2>2
        <5>. QED  BY <1>1, <4>1, <5>1
      <4>. QED  BY <4>3, <4>4
    <3>. QED  BY <1>1, <1>4, <3>2, <3>3, <3>4
  <2>. QED  BY <1>4, <2>1, <2>4, <2>5, <2>6 DEF Rounded
<1>. QED  BY <1>3, <1>4

-----------------------------------------------------------------------------
\* The hook adds the products of the percentages with the population and with
\* a count the owner had less than one TTL before the lookup, less than two
\* units too low and never too high, in the width of the engine's field; or
\* it adds nothing: for all modifiers, populations, counts and widths
\* (CalculateYield_Hook).
THEOREM ReadAnswerExact == ReadSpec => []AnswerExact
<1>1. ReadInit => AnswerInv
  <2>. SUFFICES ASSUME ReadInit, NEW t \in Threads PROVE AnswerOf(t)
    BY DEF AnswerInv
  <2>1. at[t] = "idle" /\ read[t].stage = "idle"
    BY DEF ReadInit, Init, NoRead
  <2>. QED  BY <2>1 DEF AnswerOf
<1>2. IInv /\ IInv' /\ ReadIInv /\ ReadIInv' /\ AnswerInv /\ [ReadNext]_readVars
        => AnswerInv'
  BY AnswersKeep
<1>3. ReadIInv /\ AnswerInv => AnswerExact
  BY AnswersExact
<1>4. ReadSpec => []IInv
  BY ReadUsesCache, CacheRecent, PTL
<1>. QED  BY <1>1, <1>2, <1>3, <1>4, ReadsOrderly, PTL DEF ReadSpec
=============================================================================
