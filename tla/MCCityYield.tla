----------------------------- MODULE MCCityYield -----------------------------
(* Small instances of the city-yield path: effects of both kinds on two    *)
(* yields, so that the valid length matters, and for the runs that only    *)
(* need one, a single effect.                                              *)
EXTENDS CityYield, TLC

Entry(yield, amount) == [yield |-> yield, amount |-> amount]

Effect(id, kind, entries) == [id |-> id, kind |-> kind, entries |-> entries]

\* The first has an implausible entry, which is skipped.
TwoEffects ==
  {Effect(1, "population", <<Entry(1, 1), Entry(0, 9)>>),
   Effect(2, "suzerain", <<Entry(0, 2)>>)}

OneEffect == {Effect(1, "population", <<Entry(0, 1)>>)}

\* A five-bit stand-in for int32, wide enough for two effects whose calls are
\* dropped at worst.
Lowest == -16

Symmetry == Permutations(Threads)
=============================================================================
