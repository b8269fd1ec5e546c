------------------------- MODULE MCPlayerExtraTable -------------------------
(* A small instance of the side table: two players, three objects, and one *)
(* address more than objects, so that a freed address is soon reused.      *)
EXTENDS PlayerExtraTable, TLC

Symmetry == Permutations(Addrs)
=============================================================================
