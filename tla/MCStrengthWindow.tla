-------------------------- MODULE MCStrengthWindow --------------------------
(* Small instances of StrengthWindow for TLC.                              *)
EXTENDS StrengthWindow, TLC

CONSTANTS u1, u2, i1, i2, i3

\* A unit with two instances beside one with a single instance.
MCUnitOf == (i1 :> u1) @@ (i2 :> u1) @@ (i3 :> u2)
MCAmountOf == (i1 :> 1) @@ (i2 :> 2) @@ (i3 :> 2)
=============================================================================
