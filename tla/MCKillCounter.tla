---------------------------- MODULE MCKillCounter ----------------------------
(* A player in the slot 0, at which the loop does not begin, and one that  *)
(* it reaches, both with the trait; a player without it; a slot that has   *)
(* no player and a player with the trait behind it.                        *)
EXTENDS KillCounter

NoPlayer == {3}
WithTrait == {0, 1, 4}

\* For the claim about the registration: only the empty slot is in its way.
ReachableTrait == {1, 4}
=============================================================================
