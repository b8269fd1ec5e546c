-------------------------- MODULE KillCounter_proofs --------------------------
(***************************************************************************)
(* The kill counter's type invariant, with the bound on the stored count   *)
(* in it, and that counting by threes is the ledger of all kills, calls    *)
(* that fail included.                                                     *)
(***************************************************************************)
EXTENDS KillCounter, TLAPS

\* A kill leaves the count below the quota and the envoys a number, and
\* brings what the two make up on by one and by what the drift grows.
LEMMA CountAddsOne ==
  ASSUME TypeOK, NEW p \in Slots, Counted(p)
  PROVE  /\ kills' \in [Slots -> 0 .. Quota - 1] /\ envoys' \in [Slots -> Nat]
         /\ \E e \in {-1, 0, Quota - 1} :
              /\ drift' = [drift EXCEPT ![p] = @ + e]
              /\ Quota * envoys'[p] + kills'[p] =
                   Quota * envoys[p] + kills[p] + 1 + e
         /\ \A q \in Slots \ {p} : kills'[q] = kills[q] /\ envoys'[q] = envoys[q]
         /\ \E n \in {envoys[p], envoys[p] + 1} :
              envoys' = [envoys EXCEPT ![p] = n]
<1>1. /\ kills \in [Slots -> 0 .. 2] /\ envoys \in [Slots -> Nat]
      /\ drift \in [Slots -> Int]
      /\ kills[p] \in 0 .. 2 /\ envoys[p] \in Nat /\ drift[p] \in Int
  BY DEF TypeOK, Games, Quota
<1>2. Quota = 3 /\ Quota - 1 = 2
  BY DEF Quota
<1>3. CASE Count(p) /\ UNCHANGED drift
  <2>0. drift' = [drift EXCEPT ![p] = @ + 0]
    BY <1>1, <1>3
  <2>1. CASE kills[p] + 1 >= 3
    <3>1. /\ kills' = [kills EXCEPT ![p] = kills[p] + 1 - 3]
          /\ envoys' = [envoys EXCEPT ![p] = envoys[p] + 1]
      BY <1>1, <1>2, <1>3, <2>1 DEF Count
    <3>2. kills[p] + 1 - 3 = 0 /\ kills[p] = 2
      BY <1>1, <2>1
    <3>3. kills' = [kills EXCEPT ![p] = 0]
      BY <3>1, <3>2
    <3>4. /\ kills' \in [Slots -> 0 .. 2] /\ envoys' \in [Slots -> Nat]
          /\ kills'[p] = 0 /\ envoys'[p] = envoys[p] + 1
          /\ \A q \in Slots \ {p} : kills'[q] = kills[q] /\ envoys'[q] = envoys[q]
      BY <1>1, <3>1, <3>3
    <3>5. 3 * envoys'[p] + kills'[p] = 3 * envoys[p] + kills[p] + 1 + 0
      BY <1>1, <3>2, <3>4
    <3>. QED  BY <1>2, <2>0, <3>1, <3>4, <3>5
  <2>2. CASE ~ (kills[p] + 1 >= 3)
    <3>1. /\ kills' = [kills EXCEPT ![p] = kills[p] + 1]
          /\ envoys' = [envoys EXCEPT ![p] = envoys[p]]
      BY <1>1, <1>2, <1>3, <2>2 DEF Count
    <3>2. kills[p] + 1 \in 0 .. 2
      BY <1>1, <2>2
    <3>3. /\ kills' \in [Slots -> 0 .. 2] /\ envoys' \in [Slots -> Nat]
          /\ kills'[p] = kills[p] + 1 /\ envoys'[p] = envoys[p]
          /\ \A q \in Slots \ {p} : kills'[q] = kills[q] /\ envoys'[q] = envoys[q]
      BY <1>1, <3>1, <3>2
    <3>5. 3 * envoys'[p] + kills'[p] = 3 * envoys[p] + kills[p] + 1 + 0
      BY <1>1, <3>3
    <3>. QED  BY <1>2, <2>0, <3>1, <3>3, <3>5
  <2>. QED  BY <2>1, <2>2
<1>4. CASE Regrant(p)
  <2>1. /\ UNCHANGED kills
        /\ envoys' = [envoys EXCEPT ![p] = envoys[p] + 1]
        /\ drift' = [drift EXCEPT ![p] = @ + (Quota - 1)]
    BY <1>1, <1>2, <1>4 DEF Regrant
  <2>2. /\ envoys' \in [Slots -> Nat] /\ envoys'[p] = envoys[p] + 1
        /\ \A q \in Slots \ {p} : kills'[q] = kills[q] /\ envoys'[q] = envoys[q]
    BY <1>1, <2>1
  <2>3. 3 * envoys'[p] + kills'[p] = 3 * envoys[p] + kills[p] + 1 + 2
    BY <1>1, <2>1, <2>2
  <2>. QED  BY <1>1, <1>2, <2>1, <2>2, <2>3
<1>5. CASE Lose(p)
  <2>1. /\ UNCHANGED <<kills, envoys>>
        /\ drift' = [drift EXCEPT ![p] = @ + (-1)]
    BY <1>1, <1>5 DEF Lose
  <2>2. envoys' = [envoys EXCEPT ![p] = envoys[p]]
    BY <1>1, <2>1
  <2>3. 3 * envoys'[p] + kills'[p] = 3 * envoys[p] + kills[p] + 1 + (-1)
    BY <1>1, <2>1
  <2>. QED  BY <1>1, <1>2, <2>1, <2>2, <2>3
<1>. QED  BY <1>3, <1>4, <1>5 DEF Counted

\* Type correctness: whatever is saved and loaded, a stored count is one
\* below the quota.
THEOREM KillTypes == Spec => []TypeOK
<1>1. Init => TypeOK
  BY MaxKillsAssumption, MaxSlotAssumption
  DEF Init, TypeOK, Games, Fresh, Nobody, Quota
<1>2. TypeOK /\ [Next]_vars => TypeOK'
  <2> SUFFICES ASSUME TypeOK, [Next]_vars PROVE TypeOK'
    OBVIOUS
  <2>1. CASE BeginRegistration
    BY <2>1, MaxSlotAssumption
    DEF BeginRegistration, game, counts, TypeOK, Games
  <2>2. CASE Register
    <3>1. index' \in 1 .. MaxSlot + 1
      BY <2>2, MaxSlotAssumption DEF Register, TypeOK, Slots
    <3>2. trait' \subseteq Slots /\ unready' \subseteq Slots
      BY <2>2 DEF Register, TypeOK, Games
    <3>. QED  BY <2>2, <3>1, <3>2 DEF Register, counts, TypeOK, Games
  <2>3. CASE EndRegistration
    BY <2>3 DEF EndRegistration, game, counts, TypeOK, Games
  <2>4. ASSUME NEW p \in Slots, Killed(p) PROVE TypeOK'
    <3>1. pending' \in [Slots -> Nat]
      BY <2>4 DEF Killed, TypeOK
    <3>2. CASE NotCounted(p)
      BY <2>4, <3>1, <3>2 DEF NotCounted, Killed, counts, TypeOK, Games
    <3>3. CASE Counted(p)
      <4>1. kills' \in [Slots -> 0 .. Quota - 1] /\ envoys' \in [Slots -> Nat]
        BY <3>3, CountAddsOne
      <4>2. earned' \in [Slots -> Nat]
        BY <3>3 DEF Counted, TypeOK, Games
      <4>3. drift' \in [Slots -> Int]
        BY <3>3 DEF Counted, Regrant, Lose, Quota, TypeOK, Games
      <4>. QED  BY <2>4, <3>1, <4>1, <4>2, <4>3 DEF Killed, TypeOK, Games
    <3>. QED  BY <2>4, <3>2, <3>3 DEF Killed
  <2>5. ASSUME NEW p \in Slots, Combat(p) PROVE TypeOK'
    BY <2>5, MaxKillsAssumption DEF Combat, TypeOK, Games, game, counts
  <2>6. CASE Save
    BY <2>6 DEF Save, TypeOK, Games, game, counts
  <2>7. CASE Load
    BY <2>7 DEF Load, Begin, Nobody, TypeOK, Games
  <2>8. CASE NewGame
    BY <2>8 DEF NewGame, Begin, Nobody, Fresh, TypeOK, Games, Quota
  <2>9. CASE UNCHANGED vars
    BY <2>9 DEF vars, game, counts, TypeOK, Games
  <2>. QED
    BY <2>1, <2>2, <2>3, <2>4, <2>5, <2>6, <2>7, <2>8, <2>9 DEF Next
<1>. QED  BY <1>1, <1>2, PTL DEF Spec

-----------------------------------------------------------------------------
(* The ledger.                                                             *)

\* The trait's property is only ever set for those that have the trait, so
\* no kill of another player reaches the count.
OnlyBearers == trait \subseteq Bearers /\ save.trait \subseteq Bearers

LEMMA TraitsOfBearers == Spec => []OnlyBearers
<1>1. Init => OnlyBearers
  BY DEF Init, OnlyBearers, Fresh
<1>2. OnlyBearers /\ [Next]_vars => OnlyBearers'
  BY DEF OnlyBearers, Next, vars, game, BeginRegistration, Register,
         EndRegistration, Killed, Combat, Save, Load, NewGame, Begin, Fresh
<1>. QED  BY <1>1, <1>2, PTL DEF Spec

\* The count and the envoys make up what was earned and what failed calls
\* did to it, in a game.
Balanced(g) ==
  \A p \in Slots : Quota * g.envoys[p] + g.kills[p] = g.earned[p] + g.drift[p]

Playing == [trait |-> trait, kills |-> kills, envoys |-> envoys,
            earned |-> earned, drift |-> drift]

BooksBalance == Balanced(Playing) /\ Balanced(save)

LEMMA FreshBalanced == Balanced(Fresh)
BY DEF Balanced, Fresh, Nobody, Quota

LEMMA CountBalances ==
  ASSUME TypeOK, Balanced(Playing), NEW p \in Slots, Counted(p)
  PROVE  Balanced(Playing)'
<1>1. PICK e \in {-1, 0, Quota - 1} :
        /\ drift' = [drift EXCEPT ![p] = @ + e]
        /\ Quota * envoys'[p] + kills'[p] = Quota * envoys[p] + kills[p] + 1 + e
  BY CountAddsOne
<1>2. /\ earned' = [earned EXCEPT ![p] = @ + 1]
      /\ earned \in [Slots -> Nat] /\ drift \in [Slots -> Int]
      /\ e \in Int
  BY DEF Counted, TypeOK, Games, Quota
<1>3. \A q \in Slots : Quota * envoys[q] + kills[q] = earned[q] + drift[q]
  BY DEF Balanced, Playing
<1>4. Quota * envoys'[p] + kills'[p] = earned'[p] + drift'[p]
  <2>1. earned'[p] = earned[p] + 1 /\ drift'[p] = drift[p] + e
    BY <1>1, <1>2
  <2>2. earned[p] \in Int /\ drift[p] \in Int
    BY <1>2
  <2>3. earned[p] + drift[p] + 1 + e = (earned[p] + 1) + (drift[p] + e)
    BY <1>2, <2>2
  <2>. QED  BY <1>1, <1>3, <2>1, <2>3
<1>5. ASSUME NEW q \in Slots \ {p}
      PROVE  Quota * envoys'[q] + kills'[q] = earned'[q] + drift'[q]
  <2>1. kills'[q] = kills[q] /\ envoys'[q] = envoys[q]
    BY CountAddsOne
  <2>2. earned'[q] = earned[q] /\ drift'[q] = drift[q]
    BY <1>1, <1>2
  <2>. QED  BY <1>3, <2>1, <2>2
<1>. QED  BY <1>4, <1>5 DEF Balanced, Playing

LEMMA BooksKept == Spec => []BooksBalance
<1>1. Init => BooksBalance
  <2>1. Init => Playing = Fresh /\ save = Fresh
    BY DEF Init, Playing, Fresh
  <2>. QED  BY <2>1, FreshBalanced DEF BooksBalance
<1>2. TypeOK /\ BooksBalance /\ [Next]_vars => BooksBalance'
  <2> SUFFICES ASSUME TypeOK, BooksBalance, [Next]_vars PROVE BooksBalance'
    OBVIOUS
  <2>1. ASSUME UNCHANGED <<counts, save>> PROVE BooksBalance'
    BY <2>1 DEF BooksBalance, Balanced, Playing, counts
  <2>2. CASE BeginRegistration \/ Register \/ EndRegistration
    BY <2>1, <2>2 DEF BeginRegistration, Register, EndRegistration, game
  <2>3. ASSUME NEW p \in Slots, Killed(p) PROVE BooksBalance'
    <3>1. CASE NotCounted(p)
      BY <2>1, <2>3, <3>1 DEF NotCounted, Killed
    <3>2. CASE Counted(p)
      <4>1. Balanced(Playing)'
        BY <3>2, CountBalances DEF BooksBalance
      <4>2. Balanced(save)'
        BY <2>3 DEF Killed, BooksBalance, Balanced
      <4>. QED  BY <4>1, <4>2 DEF BooksBalance
    <3>. QED  BY <2>3, <3>1, <3>2 DEF Killed
  <2>4. ASSUME NEW p \in Slots, Combat(p) PROVE BooksBalance'
    BY <2>1, <2>4 DEF Combat, game
  <2>5. CASE Save
    BY <2>5 DEF Save, game, counts, BooksBalance, Balanced, Playing
  <2>6. CASE Load
    BY <2>6 DEF Load, Begin, BooksBalance, Balanced, Playing
  <2>7. CASE NewGame
    BY <2>7, FreshBalanced
    DEF NewGame, Begin, BooksBalance, Balanced, Playing
  <2>8. CASE UNCHANGED vars
    BY <2>1, <2>8 DEF vars, game
  <2>. QED  BY <2>2, <2>3, <2>4, <2>5, <2>6, <2>7, <2>8 DEF Next
<1>. QED  BY <1>1, <1>2, KillTypes, PTL DEF Spec

\* What a count below the quota and the envoys make up is the kills, and the
\* envoys are all that are due.
LEMMA EnvoysSettled ==
  ASSUME NEW n \in 0 .. Quota - 1, NEW e \in Nat
  PROVE  Ledger!Settled(e, Quota * e + n)
BY DEF Quota, Ledger!Settled

\* Counting by threes in a saved property, with the remainder kept after the
\* envoy, is the ledger of all kills, off by exactly what failed calls lost
\* or kept.
THEOREM KillsAreLedger == Spec => ImplementsLedger
<1>1. Init => Ledger!Init
  BY DEF Init, Ledger!Init, Ledger!None, Ledger!Zero, Fresh, Nobody
<1>2. TypeOK /\ OnlyBearers /\ BooksBalance /\ [Next]_vars
        => [Ledger!Next]_(Ledger!vars)
  <2> SUFFICES ASSUME TypeOK, OnlyBearers, BooksBalance, [Next]_vars
               PROVE  Ledger!Next \/ UNCHANGED Ledger!vars
    BY DEF Ledger!vars
  <2>1. ASSUME UNCHANGED <<counts, save>> PROVE UNCHANGED Ledger!vars
    BY <2>1 DEF Ledger!vars, counts
  <2>2. CASE BeginRegistration \/ Register \/ EndRegistration
    BY <2>1, <2>2 DEF BeginRegistration, Register, EndRegistration, game
  <2>3. ASSUME NEW p \in Slots, Combat(p) PROVE UNCHANGED Ledger!vars
    BY <2>1, <2>3 DEF Combat, game
  <2>4. ASSUME NEW p \in Slots, Killed(p)
        PROVE  Ledger!Next \/ UNCHANGED Ledger!vars
    <3>1. CASE NotCounted(p)
      BY <2>1, <2>4, <3>1 DEF NotCounted, Killed
    <3>2. CASE Counted(p)
      <4>1. p \in Bearers /\ UNCHANGED save
        BY <2>4, <3>2 DEF Killed, Counted, OnlyBearers
      <4>2. PICK e \in {-1, 0, Quota - 1} :
              /\ drift' = [drift EXCEPT ![p] = @ + e]
              /\ Quota * envoys'[p] + kills'[p] =
                   Quota * envoys[p] + kills[p] + 1 + e
        BY <3>2, CountAddsOne
      <4>3. PICK n \in {envoys[p], envoys[p] + 1} :
              envoys' = [envoys EXCEPT ![p] = n]
        BY <3>2, CountAddsOne
      <4>4. /\ kills' \in [Slots -> 0 .. Quota - 1]
            /\ envoys' \in [Slots -> Nat] /\ envoys \in [Slots -> Nat]
        BY <3>2, CountAddsOne DEF TypeOK, Games
      <4>5. envoys'[p] = n
        BY <4>3, <4>4
      <4>6. Ledger!Settled(n, Quota * n + kills'[p])
        BY <4>4, <4>5, EnvoysSettled
      <4>7. Quota * envoys[p] + kills[p] = earned[p] + drift[p]
        BY DEF BooksBalance, Balanced, Playing
      <4>8. Quota * n + kills'[p] = earned[p] + drift[p] + 1 + e
        BY <4>2, <4>5, <4>7
      <4>9. Ledger!Settled(n, earned[p] + drift[p] + 1 + e)
        BY <4>6, <4>8
      <4>10. earned' = [earned EXCEPT ![p] = @ + 1]
        BY <3>2 DEF Counted
      <4>11. Ledger!Credit(p, e)
        BY <4>1, <4>2, <4>3, <4>9, <4>10 DEF Ledger!Credit
      <4>. QED  BY <4>11 DEF Ledger!Next
    <3>. QED  BY <2>4, <3>1, <3>2 DEF Killed
  <2>5. CASE Save
    <3>1. Ledger!Save
      BY <2>5 DEF Save, game, counts, Ledger!Save
    <3>. QED  BY <3>1 DEF Ledger!Next
  <2>6. CASE Load
    <3>1. Ledger!Load
      BY <2>6 DEF Load, Begin, Ledger!Load
    <3>. QED  BY <3>1 DEF Ledger!Next
  <2>7. CASE NewGame
    <3>1. Ledger!NewGame
      BY <2>7 DEF NewGame, Begin, Fresh, Ledger!NewGame, Ledger!Zero, Nobody
    <3>. QED  BY <3>1 DEF Ledger!Next
  <2>8. CASE UNCHANGED vars
    BY <2>1, <2>8 DEF vars, game
  <2>. QED  BY <2>2, <2>3, <2>4, <2>5, <2>6, <2>7, <2>8 DEF Next
<1>. QED
  BY <1>1, <1>2, KillTypes, TraitsOfBearers, BooksKept, PTL
  DEF ImplementsLedger, Ledger!Spec, Spec
=============================================================================
