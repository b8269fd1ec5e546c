----------------------------- MODULE YieldLedger -----------------------------
(***************************************************************************)
(* What the city-yield side table promises: every city has one running     *)
(* total per kind of modifier and yield, an effect changes it by its own   *)
(* amount, and nothing else changes it while the city lives: no save,      *)
(* load, capture, cache or concurrent reader.  CityYield implements this.  *)
(***************************************************************************)
EXTENDS Integers

CONSTANTS Cities, Slots, Deltas

VARIABLE total  \* total[c][s]: the modifier of city c in slot s

NoTotal == [s \in Slots |-> 0]

LedgerInit == total = [c \in Cities |-> NoTotal]

\* An Apply or a Remove of one effect: all its entries at once.
Post(c, d) == total' = [total EXCEPT ![c] = [s \in Slots |-> @[s] + d[s]]]

\* The city is gone, and a later one at the same address starts from zero.
Close(c) == total' = [total EXCEPT ![c] = NoTotal]

LedgerNext ==
  \E c \in Cities :
    \/ \E d \in Deltas : Post(c, d)
    \/ Close(c)

LedgerSpec == LedgerInit /\ [][LedgerNext]_total
=============================================================================
