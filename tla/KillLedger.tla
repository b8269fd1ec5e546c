------------------------------ MODULE KillLedger ------------------------------
(***************************************************************************)
(* What the leader trait promises: one free envoy for every Quota kills,   *)
(* on the whole of a game, whatever is saved and loaded on the way, for    *)
(* the players that have the trait and for no other.  A call that fails    *)
(* while a kill is counted loses that kill, or gives an envoy early, and   *)
(* nothing else ever does.                                                 *)
(***************************************************************************)
EXTENDS Integers

CONSTANTS
  Slots,    \* the player slots
  Bearers,  \* those whose leader has the trait
  Quota     \* kills for an envoy

VARIABLES
  credit,   \* the kills of a player in the game that is played
  granted,  \* the envoys granted for them
  error,    \* kills that failed calls added to those, or took away
  kept      \* all three, in the saved game

vars == <<credit, granted, error, kept>>

\* Never an envoy early, never one late.
Settled(envoys, kills) ==
  Quota * envoys <= kills /\ kills < Quota * (envoys + 1)

Zero == [p \in Slots |-> 0]
None == [credit |-> Zero, granted |-> Zero, error |-> Zero]

Init ==
  /\ credit = Zero /\ granted = Zero /\ error = Zero
  /\ kept = None

\* One more kill, its count off by e, and the envoy with it when it is due.
Credit(p, e) ==
  /\ p \in Bearers
  /\ credit' = [credit EXCEPT ![p] = @ + 1]
  /\ error' = [error EXCEPT ![p] = @ + e]
  /\ \E n \in {granted[p], granted[p] + 1} :
       /\ Settled(n, credit[p] + error[p] + 1 + e)
       /\ granted' = [granted EXCEPT ![p] = n]
  /\ UNCHANGED kept

Save ==
  /\ kept' = [credit |-> credit, granted |-> granted, error |-> error]
  /\ UNCHANGED <<credit, granted, error>>

Load ==
  /\ credit' = kept.credit /\ granted' = kept.granted /\ error' = kept.error
  /\ UNCHANGED kept

NewGame ==
  /\ credit' = Zero /\ granted' = Zero /\ error' = Zero
  /\ UNCHANGED kept

Next ==
  \/ \E p \in Slots, e \in {-1, 0, Quota - 1} : Credit(p, e)
  \/ Save \/ Load \/ NewGame

Spec == Init /\ [][Next]_vars
=============================================================================
