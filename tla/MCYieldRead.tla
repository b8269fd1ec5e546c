---------------------------- MODULE MCYieldRead -----------------------------
(* Two threads reading for one player: small integers, modifiers of both   *)
(* signs and of either kind, and products at and past the ends of the      *)
(* range; the clock outlives a cached count.                               *)
EXTENDS YieldRead, TLC

Pairs == {<<5, 0>>, <<-5, 9>>}

\* Unreadable, ordinary, the most that is plausible.
Sizes == {-1, 1, 13}

Values == {-14, 14}

Lowest == -16

Symmetry == Permutations(Threads)
=============================================================================
