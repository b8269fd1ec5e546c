------------------------------ MODULE YieldRead ------------------------------
(***************************************************************************)
(* The arithmetic of CalculateYield_Hook: what the hook makes of a city's  *)
(* modifiers, its population and its owner's suzerain count, with the      *)
(* cached lookup of SuzerainCache in the middle.                           *)
(*                                                                         *)
(* The engine's own value is a fixed-point number in a record private to   *)
(* the call.  The hook reads the population and that value through the     *)
(* host, either of which may fail, and gives the value back whole when it  *)
(* cannot say what to add.  How a city gets its modifiers is the business  *)
(* of CityYield; here they are any of a set of pairs.                      *)
(*                                                                         *)
(* External: TrackedValue::AddStep adds in the width of its field.         *)
(***************************************************************************)
EXTENDS SuzerainCache

CONSTANTS
  Modifiers,       \* pairs of a city's percent and per_suzerain_percent
  Populations,     \* what the population field may hold
  MaxPopulation,   \* kMaxPlausiblePopulation
  Bases,           \* modifier values the engine computes
  Unit,            \* 2^8, by which products are shifted
  MinInt, MaxInt   \* the range of std::int32_t

ASSUME UnitAssumption ==
  /\ Unit \in Nat \ {0} /\ MaxPopulation \in Nat
  /\ MinInt \in Int /\ MaxInt \in Int /\ MinInt < 0 /\ 0 < MaxInt

ASSUME ReadsAssumption ==
  /\ Modifiers \subseteq Int \X Int
  /\ Populations \subseteq Int
  /\ Bases \subseteq MinInt .. MaxInt

VARIABLES
  mode,  \* AddStep exposed ("native") or not ("direct"), or a dry run ("dry")
  read   \* each thread's call of the hook: see NoRead

readVars == <<vars, mode, read>>

\* The value has not been read yet when `value' is 0.  History: `exact', the
\* product with the population, not shifted; `base', the value as the engine
\* computed it; `whole', when something could not be read or written.
NoRead == [stage |-> "idle", suz |-> 0, delta |-> 0, value |-> 0,
           exact |-> 0, base |-> 0, whole |-> FALSE]

Step(t, r) == read' = [read EXCEPT ![t] = r]

-----------------------------------------------------------------------------
(* Numbers.                                                                *)

InRange(x) == x \in MinInt .. MaxInt

\* Conversion to std::int32_t.
Wrap(x) == MinInt + ((x - MinInt) % (MaxInt - MinInt + 1))

\* Mutant: rounds toward zero, as a division would.
ShiftTowardZero(x) == IF x < 0 THEN -((-x) \div Unit) ELSE x \div Unit

\* x >> 8: rounds down.
Shift(x) == x \div Unit

\* Mutant: the sum is cast without a look at its range.
DirectWraps(base, d) == Wrap(base + d)

\* The degraded path writes a sum that fits, or nothing.
Direct(base, d) == IF InRange(base + d) THEN base + d ELSE base

Appended(base, d) ==
  IF d = 0 \/ ~ InRange(d) \/ mode = "dry" THEN base
  ELSE CASE mode = "native" -> Wrap(base + d)
         [] mode = "direct" -> Direct(base, d)

-----------------------------------------------------------------------------
(* The hook.                                                               *)

\* Up to the lookup.  With no modifier, or an implausible population, there
\* is nothing to add.
Call(t, m, pop) ==
  /\ read[t].stage = "idle" /\ m # <<0, 0>>
  /\ IF m[1] # 0 /\ pop \notin 0 .. MaxPopulation
     THEN Step(t, [NoRead EXCEPT !.stage = "append", !.whole = TRUE])
     ELSE Step(t, [NoRead EXCEPT
            !.stage = IF m[2] # 0 THEN "suzerains" ELSE "append",
            !.suz = m[2],
            !.delta = Shift(m[1] * pop),
            !.exact = m[1] * pop])
  /\ UNCHANGED <<vars, mode>>

BeginLookup(t, p) ==
  /\ read[t].stage = "suzerains"
  /\ Step(t, [read[t] EXCEPT !.stage = "lookup"])
  /\ Begin(t, p)
  /\ UNCHANGED mode

LookupStep(t) ==
  /\ Look(t) \/ Count(t) \/ Store(t)
  /\ UNCHANGED <<mode, read>>

\* Mutant: the count of a lookup that found nothing to trust is used.
UseAnyCount(t) ==
  /\ Finish(t)
  /\ Step(t, [read[t] EXCEPT
       !.stage = "append",
       !.delta = @ + Shift(read[t].suz * count[t])])
  /\ UNCHANGED mode

\* A count of -1 counts as none.
UseCount(t) ==
  /\ Finish(t)
  /\ Step(t, [read[t] EXCEPT
       !.stage = "append",
       !.delta = IF count[t] > 0 THEN @ + Shift(read[t].suz * count[t]) ELSE @])
  /\ UNCHANGED mode

\* The engine's value is read and the sum written; when either fails the
\* value stays whole.
Append(t, base) ==
  LET answered == [read[t] EXCEPT !.stage = "answered", !.base = base]
  IN /\ read[t].stage = "append"
     /\ \/ Step(t, [answered EXCEPT !.value = Appended(base, read[t].delta)])
        \/ Step(t, [answered EXCEPT !.value = base, !.whole = TRUE])
     /\ UNCHANGED <<vars, mode>>

\* The hook returns.
Return(t) ==
  /\ read[t].stage = "answered"
  /\ Step(t, NoRead)
  /\ UNCHANGED <<vars, mode>>

ReadInit ==
  /\ Init
  /\ mode \in {"native", "direct", "dry"}
  /\ read = [t \in Threads |-> NoRead]

HookStep(t) ==
  \/ \E m \in Modifiers, pop \in Populations : Call(t, m, pop)
  \/ \E p \in Players : BeginLookup(t, p)
  \/ LookupStep(t) \/ UseCount(t)
  \/ \E base \in Bases : Append(t, base)
  \/ Return(t)

\* What goes on around the hook.
Around ==
  /\ \/ Reset \/ Tick
     \/ \E p \in Players, n \in Counts : Influence(p, n)
  /\ UNCHANGED <<mode, read>>

ReadNext == Around \/ \E t \in Threads : HookStep(t)

ReadSpec == ReadInit /\ [][ReadNext]_readVars
-----------------------------------------------------------------------------
(* Properties.                                                             *)

\* The type invariant of the calls.
ReadTypeOK ==
  /\ mode \in {"native", "direct", "dry"}
  /\ read \in [Threads -> [stage : {"idle", "suzerains", "lookup", "append",
                                    "answered"},
                           suz : Int, delta : Int, value : MinInt .. MaxInt,
                           exact : Int, base : Bases \cup {0},
                           whole : BOOLEAN]]

\* The counts an answer may rest on: one the owner had less than one TTL
\* before the lookup, or none when nothing could be trusted.
Recent(t) ==
  IF read[t].suz = 0 THEN {0}
  ELSE {n \in Counts \cup {0} :
          \/ HeldSince(player[t], n, start[t] - TTL + 1)
          \/ n = 0 /\ count[t] = -1}

\* What the hook adds, modulo the width of the field: the products of the
\* percentages with the population and a recent count, over Unit, less than
\* two units too low and never too high, for negative sums too
\* ("(percent[yield] * population + per_suzerain[yield] * suzerains) >> 8",
\* where the code shifts each product).  It adds all of that or nothing: not
\* a part when one of its reads fails, when the sum is no std::int32_t or in
\* a dry run.
AnswerExact ==
  \A t \in Threads :
    LET r == read[t]
        added(d) == (r.value - r.base - d) % (MaxInt - MinInt + 1) = 0
        refused(d) == \/ ~ InRange(d)
                      \/ mode = "direct" /\ ~ InRange(r.base + d)
    IN r.stage = "answered" =>
         IF r.whole \/ mode = "dry" THEN r.value = r.base
         ELSE \E n \in Recent(t) :
                LET sum == r.exact + r.suz * n
                IN \E d \in {sum \div Unit, sum \div Unit - 1} :
                     IF refused(d) THEN r.value = r.base ELSE added(d)

\* Without AddStep the hook never turns a bonus into a loss: what it writes
\* itself moves the value in the direction of what it adds ("skip instead of
\* writing overflow").
DirectNeverWraps ==
  \A t \in Threads :
    read[t].stage = "answered" /\ mode = "direct" =>
      /\ read[t].delta >= 0 => read[t].value >= read[t].base
      /\ read[t].delta <= 0 => read[t].value <= read[t].base
=============================================================================
