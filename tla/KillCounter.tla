----------------------------- MODULE KillCounter -----------------------------
(***************************************************************************)
(* Scripts/YKKZ000_Leaders.lua: the kill count of a leader trait.          *)
(*                                                                         *)
(* Two handlers work on player properties, which are part of the saved     *)
(* game: LoadGameViewStateDone goes over the table of players and registers *)
(* the traits of each, and UnitKilledInCombat counts the kills of a player *)
(* that has the trait and grants an envoy for every third.  The engine     *)
(* runs the handlers one at a time.  A combat's event is delivered after   *)
(* it, when the killer's unit may be gone, and what is not delivered when  *)
(* the game is left is lost with it.                                       *)
(*                                                                         *)
(* External: the engine's players, events, saved games, and the modifier   *)
(* that grants the envoy, which is saved with the game.  A call into the   *)
(* engine may raise, which ends the handler there.                         *)
(***************************************************************************)
EXTENDS Integers

CONSTANTS
  MaxSlot,   \* the last slot of the table of players, which starts at 0
  Absent,    \* the slots that have no player
  Bearers,   \* the players whose leader or civilization has the trait
  MaxKills   \* bound: combats with a kill

Slots == 0 .. MaxSlot
Quota == 3

ASSUME MaxSlotAssumption == MaxSlot \in Nat
ASSUME BearersAssumption ==
  Absent \subseteq Slots /\ Bearers \subseteq Slots \ Absent
ASSUME MaxKillsAssumption == MaxKills \in Nat

VARIABLES
  phase,       \* "loading", "registering" in the loop, "playing" after it
  index,       \* where the loop over the players is
  trait,       \* the players with the trait's property
  kills,       \* property: YKKZ000_STALIN_KILL_COUNT, 0 when not set
  envoys,      \* how often the reward modifier was attached
  earned,      \* history: kills delivered to a player that has the trait
  drift,       \* history: what failed calls took from or gave to those
  save,        \* the last five, as they were saved
  fought,      \* combats so far
  pending,     \* those whose event is not delivered yet
  unready      \* the players the last loop found without a configuration

counts == <<kills, envoys, earned, drift>>
game == <<trait, counts>>
vars == <<phase, index, game, save, fought, pending, unready>>

Nobody == [p \in Slots |-> 0]
Fresh == [trait |-> {}, kills |-> Nobody, envoys |-> Nobody,
          earned |-> Nobody, drift |-> Nobody]

-----------------------------------------------------------------------------
(* The registration, YKKZ000_INITIALIZE_PLAYER_TRAITS.                     *)

\* `ipairs' begins at the index 1.
BeginRegistration ==
  /\ phase = "loading" /\ phase' = "registering"
  /\ index' = 1 /\ unready' = {}
  /\ UNCHANGED <<game, save, fought, pending>>

\* One round of the loop, at a player: the configuration may not be there.
\* The property is given, and taken from nobody.
Register ==
  /\ phase = "registering" /\ index \in Slots \ Absent
  /\ index' = index + 1
  /\ \/ trait' = trait \cup ({index} \cap Bearers) /\ UNCHANGED unready
     \/ unready' = unready \cup {index} /\ UNCHANGED trait
  /\ UNCHANGED <<phase, counts, save, fought, pending>>

\* `ipairs' ends at the first index without a player.
EndRegistration ==
  /\ phase = "registering" /\ index \notin Slots \ Absent
  /\ phase' = "playing"
  /\ UNCHANGED <<index, game, save, fought, pending, unready>>

-----------------------------------------------------------------------------
(* The kills, TRAIT_LEADER_YKKZ000_GRAND_DEPTH_OPERATIONAL_THEORY_KILL.    *)

\* Mutant: the envoy comes with the kill after the third.
CountLate(p) ==
  LET n == kills[p] + 1
  IN IF n > Quota
       THEN /\ kills' = [kills EXCEPT ![p] = n - Quota]
            /\ envoys' = [envoys EXCEPT ![p] = @ + 1]
       ELSE kills' = [kills EXCEPT ![p] = n] /\ UNCHANGED envoys

\* Mutant: the handler returns when it has granted the envoy.
CountKept(p) ==
  IF kills[p] + 1 >= Quota
    THEN envoys' = [envoys EXCEPT ![p] = @ + 1] /\ UNCHANGED kills
    ELSE kills' = [kills EXCEPT ![p] = @ + 1] /\ UNCHANGED envoys

\* The count and the reward of one kill.
Count(p) ==
  LET n == kills[p] + 1
  IN IF n >= Quota
       THEN /\ kills' = [kills EXCEPT ![p] = n - Quota]
            /\ envoys' = [envoys EXCEPT ![p] = @ + 1]
       ELSE kills' = [kills EXCEPT ![p] = n] /\ UNCHANGED envoys

\* The property could not be set after the envoy was granted: the three
\* kills it was for stay in the count but for the last.
Regrant(p) ==
  /\ kills[p] + 1 >= Quota
  /\ envoys' = [envoys EXCEPT ![p] = @ + 1]
  /\ drift' = [drift EXCEPT ![p] = @ + Quota - 1]
  /\ UNCHANGED kills

\* A call on the killer's unit, the grant or the property raised before
\* anything was written: the kill is lost.
Lose(p) ==
  /\ drift' = [drift EXCEPT ![p] = @ - 1]
  /\ UNCHANGED <<kills, envoys>>

\* The handler returns without a player or without the trait.
NotCounted(p) ==
  /\ p \in Absent \/ p \notin trait
  /\ UNCHANGED counts

Counted(p) ==
  /\ p \notin Absent /\ p \in trait
  /\ earned' = [earned EXCEPT ![p] = @ + 1]
  /\ \/ Count(p) /\ UNCHANGED drift
     \/ Regrant(p)
     \/ Lose(p)

Killed(p) ==
  /\ phase = "playing" /\ pending[p] > 0
  /\ pending' = [pending EXCEPT ![p] = @ - 1]
  /\ NotCounted(p) \/ Counted(p)
  /\ UNCHANGED <<phase, index, trait, save, fought, unready>>

-----------------------------------------------------------------------------
(* The engine.                                                             *)

\* Barbarians and free cities fight too, so the slot may be one without a
\* player.
Combat(p) ==
  /\ phase = "playing" /\ fought < MaxKills
  /\ fought' = fought + 1
  /\ pending' = [pending EXCEPT ![p] = @ + 1]
  /\ UNCHANGED <<phase, index, game, save, unready>>

Save ==
  /\ phase = "playing"
  /\ save' = [trait |-> trait, kills |-> kills, envoys |-> envoys,
              earned |-> earned, drift |-> drift]
  /\ UNCHANGED <<phase, index, game, fought, pending, unready>>

\* The session ends, by a crash or not, and the game g is begun.
Begin(g) ==
  /\ phase' = "loading"
  /\ trait' = g.trait
  /\ kills' = g.kills /\ envoys' = g.envoys
  /\ earned' = g.earned /\ drift' = g.drift
  /\ pending' = Nobody
  /\ UNCHANGED <<index, save, fought, unready>>

Load == Begin(save)
NewGame == Begin(Fresh)

Init ==
  /\ phase = "loading" /\ index = 1
  /\ trait = {} /\ kills = Nobody /\ envoys = Nobody
  /\ earned = Nobody /\ drift = Nobody
  /\ save = Fresh
  /\ fought = 0 /\ pending = Nobody
  /\ unready = {}

Next ==
  \/ BeginRegistration \/ Register \/ EndRegistration
  \/ \E p \in Slots : Killed(p) \/ Combat(p)
  \/ Save \/ Load \/ NewGame

Spec == Init /\ [][Next]_vars

-----------------------------------------------------------------------------
(* Properties.                                                             *)

Games ==
  [trait : SUBSET Slots, kills : [Slots -> 0 .. Quota - 1],
   envoys : [Slots -> Nat], earned : [Slots -> Nat], drift : [Slots -> Int]]

\* The type invariant: a stored count is below the quota, and the loop's
\* index is at most one past the table.
TypeOK ==
  /\ phase \in {"loading", "registering", "playing"}
  /\ index \in 1 .. MaxSlot + 1
  /\ [trait |-> trait, kills |-> kills, envoys |-> envoys,
      earned |-> earned, drift |-> drift] \in Games
  /\ save \in Games
  /\ fought \in 0 .. MaxKills /\ pending \in [Slots -> Nat]
  /\ unready \subseteq Slots

\* "Register for each player its civilization and leader trait properties",
\* each item checked for nil "so that a missing configuration of one player
\* does not interrupt the registration of the others": once the game is
\* played, every player that is there and was not found without a
\* configuration has the trait that is due.  What the loop does not reach,
\* it registers for nobody.
EveryoneRegistered == phase = "playing" => Bearers \ unready \subseteq trait

\* "Every 3 kills grants 1 free envoy": the envoys granted are those that
\* are due for the kills that were delivered for players with the trait,
\* after what failed calls lost or kept of them, whatever order combats,
\* events, saves and loads come in, and no other player is granted any.
Ledger ==
  INSTANCE KillLedger WITH
    credit <- earned, granted <- envoys, error <- drift,
    kept <- [credit |-> save.earned, granted |-> save.envoys,
             error |-> save.drift]

ImplementsLedger == Ledger!Spec
=============================================================================
