--------------------------- MODULE StrengthWindow ---------------------------
(***************************************************************************)
(* The unit-strength effect of the plugin:                                 *)
(* effects/adjust_player_strength_modifier_per_suzerain.cpp.               *)
(*                                                                         *)
(* Apply and Remove open a window of thread-local variables, call the      *)
(* engine's template and close the window again.  In between the template  *)
(* hands amounts to the engine's write point; the hook there scales the    *)
(* ones that fall into a window and remembers what it added.  After the    *)
(* window has closed, the instance is recorded in (or erased from) the     *)
(* unit's side-table entry, and the template's running total is corrected  *)
(* by what the hook added, so that a later Remove takes back exactly that. *)
(* A template may apply another instance, so windows nest.  Every access   *)
(* to the engine's memory on the way may fail, and the code goes on with   *)
(* what it has.                                                            *)
(*                                                                         *)
(* External, from how the code uses it: the template's Apply writes its    *)
(* amount at least once and adds it to its total (+0x5C) each time, its    *)
(* Remove writes the negated total and resets it.  One thread, and one     *)
(* player, who owns every unit: the variables of the window are            *)
(* thread-local and the table is keyed by the unit.                        *)
(***************************************************************************)
EXTENDS Integers, FiniteSets, Sequences, FiniteSetsExt

CONSTANTS
  Units,        \* Unit::Instance addresses
  Instances,    \* effect objects
  UnitOf,       \* the unit each effect object targets
  AmountOf,     \* its Amount
  Counts,       \* suzerain counts the player may come to
  MaxScaled,    \* kMaxScaledStrengthAmount
  MaxWrites,    \* bound: how often one Apply of the template writes
  MaxNesting,   \* bound: how deep windows nest
  MaxApplies,   \* bound: how many Applies, over all instances, await a Remove
  MaxFaults,    \* bound: accesses to the engine that fail
  Nil

ASSUME ParametersAssumption ==
  /\ IsFiniteSet(Instances)
  /\ UnitOf \in [Instances -> Units]
  /\ AmountOf \in [Instances -> Int]
  /\ Counts \subseteq Nat /\ MaxScaled \in Nat
  /\ MaxWrites \in Nat \ {0} /\ MaxNesting \in Nat \ {0}
  /\ MaxApplies \in Nat \ {0} /\ MaxFaults \in Nat

\* What PlayerExtras() keeps of a unit.
UnitExtra ==
  [instances : UNION {[is -> Int] : is \in SUBSET Instances}, strength : Int]

ASSUME NilAssumption == Nil \notin Units \cup Instances \cup UnitExtra

VARIABLES
  alive,      \* the units that exist
  suzerain,   \* the player's suzerain count; -1 when it cannot be trusted
  installed,  \* the hook intercepts the write point
  entry,      \* PlayerExtras(): each unit's UnitExtra, or Nil
  window,     \* the thread-local variables
  calls,      \* the template calls in progress, innermost last
  total,      \* each instance's applied_total (+0x5C)
  strength,   \* what the engine has accumulated for each unit
  applies,    \* history: Applies of an instance since its last Remove
  due,        \* history: what those should have added, over what was stranded
              \* before them
  stranded,   \* history: what failed to be put into an instance's total
  faults      \* accesses to the engine that failed so far

vars == <<alive, suzerain, installed, entry, window, calls, total, strength,
          applies, due, stranded, faults>>

Closed == [active |-> Nil, delta |-> 0, wrote |-> FALSE, count |-> -1,
           captureOnly |-> FALSE, unit |-> Nil]

\* The conditions among fs are failures that happen now.
Failing(fs) ==
  LET n == Cardinality({f \in DOMAIN fs : fs[f]})
  IN faults + n <= MaxFaults /\ faults' = faults + n

NewUnit == [instances |-> [i \in {} |-> 0], strength |-> 0]

-----------------------------------------------------------------------------
(* The hook.  It is given what it reads of the engine: the unit u that is  *)
(* the target, Nil when that read fails, and the player's suzerain count n, *)
(* -1 when the player is not resolved or the count cannot be trusted.      *)

\* A unit that could not be read is looked for again at the next write.
Capture(w, u) == [w EXCEPT !.wrote = TRUE, !.unit = IF @ = Nil THEN u ELSE @]

\* The suzerain count of the window: once it is known, it is kept.
CountIn(w, n) == IF w.count >= 0 THEN w.count ELSE n

\* FindUnitStrength, with the Amount in hand as the fallback.
PerSuzerain(u, amount) ==
  IF u = Nil THEN amount
  ELSE IF entry[u] = Nil \/ entry[u].strength = 0 THEN amount
  ELSE entry[u].strength

\* An amount that is passed on as it is.
Forward(w, amount) == [amount |-> amount, window |-> w]

\* Mutant: the defensive bound is not looked at.
ScaleUnbounded(w, count, amount) ==
  LET n == CountIn(w, count)
      scaled == PerSuzerain(w.unit, amount) * n
  IN IF n < 0 THEN Forward(w, amount)
     ELSE [amount |-> scaled,
           window |-> [w EXCEPT !.count = n, !.delta = @ + scaled - amount]]

Scale(w, count, amount) ==
  LET n == CountIn(w, count)
      counted == [w EXCEPT !.count = n]
      scaled == PerSuzerain(w.unit, amount) * n
  IN IF n < 0 THEN Forward(w, amount)
     ELSE IF scaled \notin -MaxScaled .. MaxScaled
          THEN Forward(counted, amount)
          ELSE [amount |-> scaled,
                window |-> [counted EXCEPT !.delta = @ + scaled - amount]]

\* Mutant: a Remove is scaled like an Apply.
HookScalesRemove(w, u, n, amount) ==
  IF ~ installed \/ w.active = Nil \/ amount = 0 THEN Forward(w, amount)
  ELSE Scale(Capture(w, u), n, amount)

\* StrengthAccumulate_Hook: what reaches the engine, and the window after it.
Hook(w, u, n, amount) ==
  IF ~ installed \/ w.active = Nil \/ amount = 0 THEN Forward(w, amount)
  ELSE IF w.captureOnly THEN Forward(Capture(w, u), amount)
       ELSE Scale(Capture(w, u), n, amount)

-----------------------------------------------------------------------------
(* The side table.                                                         *)

RecomputeStrength(instances) ==
  [instances |-> instances,
   strength |-> MapThenSumSet(LAMBDA i : instances[i], DOMAIN instances)]

EntryOr(u) == IF entry[u] = Nil THEN NewUnit ELSE entry[u]

\* Mutant: one value per unit, which the next instance replaces.
UpsertReplaces(u, i) == RecomputeStrength([j \in {i} |-> AmountOf[i]])

Upsert(u, i) ==
  LET old == EntryOr(u).instances
  IN RecomputeStrength([j \in DOMAIN old \cup {i} |->
                          IF j = i THEN AmountOf[i] ELSE old[j]])

\* Mutant: the sum is not taken again after an erase.
DropKeepsSum(u, i) ==
  [instances |-> [j \in DOMAIN EntryOr(u).instances \ {i} |->
                    EntryOr(u).instances[j]],
   strength |-> EntryOr(u).strength]

Drop(u, i) ==
  LET old == EntryOr(u).instances
  IN RecomputeStrength([j \in DOMAIN old \ {i} |-> old[j]])

-----------------------------------------------------------------------------
(* Apply and Remove.                                                       *)

Top == calls[Len(calls)]
Pop == SubSeq(calls, 1, Len(calls) - 1)

Running(i) == \E n \in DOMAIN calls : calls[n].inst = i

\* OpenWindow, and the template is called; `saved' is the WindowState.
Open(i, sign, writes) ==
  /\ UnitOf[i] \in alive /\ ~ Running(i) /\ Len(calls) < MaxNesting
  /\ calls' = Append(calls, [inst |-> i, sign |-> sign, left |-> writes,
                             saved |-> window])
  /\ window' = [Closed EXCEPT !.active = i, !.captureOnly = sign < 0]
  /\ UNCHANGED <<alive, suzerain, installed, entry, total, strength, due,
                 stranded, faults>>

Apply(i, writes) ==
  /\ MapThenSumSet(LAMBDA j : applies[j], Instances) < MaxApplies
  /\ applies' = [applies EXCEPT ![i] = @ + 1]
  /\ Open(i, 1, writes)

Remove(i) ==
  /\ applies[i] > 0
  /\ applies' = [applies EXCEPT ![i] = 0]
  /\ Open(i, -1, 1)

\* ApplyPerSuzerain returns at once when the object is not recognized as one
\* of its own or the engine's templates are not there: what it was called to
\* apply is not applied, and what it was to remove stays.
Refuse ==
  /\ Failing(<<TRUE>>)
  /\ UNCHANGED <<alive, suzerain, installed, entry, window, calls, total,
                 strength, applies, due, stranded>>

\* What one write of the template's Apply should add when the count is n.
Due(i, n) ==
  IF installed /\ n >= 0 /\ AmountOf[i] * n \in -MaxScaled .. MaxScaled
  THEN AmountOf[i] * n ELSE AmountOf[i]

\* External: the innermost template call reaches the write point.
TemplateWrite ==
  /\ calls # <<>> /\ Top.left > 0
  /\ LET i == Top.inst
         removing == Top.sign < 0
         amount == IF removing THEN -total[i] ELSE AmountOf[i]
     IN \E u \in {UnitOf[i], Nil}, n \in {suzerain, -1} :
          LET hooked == Hook(window, u, n, amount)
          IN /\ Failing(<<u = Nil, n # suzerain>>)
             /\ strength' = [strength EXCEPT ![UnitOf[i]] = @ + hooked.amount]
             /\ window' = hooked.window
             /\ total' = [total EXCEPT ![i] = @ + amount]
             /\ due' = [due EXCEPT ![i] =
                          IF removing THEN stranded[i]
                          ELSE @ + Due(i, CountIn(window, n))]
  /\ calls' = [calls EXCEPT ![Len(calls)].left = @ - 1]
  /\ UNCHANGED <<alive, suzerain, installed, entry, applies, stranded>>

\* The table is maintained after a write whose unit was read.  It is not
\* when the player is not resolved or the instance's Amount cannot be read:
\* that fails now, or the player was not there at the write either.
Maintain(i) ==
  IF Top.sign < 0 THEN Drop(window.unit, i) ELSE Upsert(window.unit, i)

MayMaintain == window.wrote /\ window.unit # Nil
MayNotMaintain == ~ MayMaintain \/ suzerain < 0

\* The total is corrected by what the hook added, if it can be read and
\* written.
Correct(i, corrected) ==
  IF corrected
  THEN /\ total' = [total EXCEPT ![i] = @ + window.delta]
       /\ UNCHANGED stranded
  ELSE /\ window.delta # 0
       /\ stranded' = [stranded EXCEPT ![i] = @ + window.delta]
       /\ UNCHANGED total

\* CloseWindow and the rest of ApplyPerSuzerain, but for the window that is
\* restored.
CloseTo(w) ==
  /\ calls # <<>> /\ Top.left = 0
  /\ \E maintained, corrected \in BOOLEAN :
       /\ Failing(<<~ maintained /\ ~ MayNotMaintain, ~ corrected>>)
       /\ IF maintained
            THEN MayMaintain /\
                 entry' = [entry EXCEPT ![window.unit] = Maintain(Top.inst)]
            ELSE UNCHANGED entry
       /\ Correct(Top.inst, corrected)
  /\ window' = w
  /\ calls' = Pop
  /\ UNCHANGED <<alive, suzerain, installed, strength, applies, due>>

\* Mutant: the closing window does not come back to the one around it.
CloseForgetsOuter == CloseTo(Closed)

Close == calls # <<>> /\ CloseTo(Top.saved)

-----------------------------------------------------------------------------
(* The engine.                                                             *)

\* City-states change hands, never within an Apply.
Influence(n) ==
  /\ calls = <<>> /\ n # suzerain
  /\ suzerain' = n
  /\ UNCHANGED <<alive, installed, entry, window, calls, total, strength,
                 applies, due, stranded, faults>>

\* UnitCreated: the entry is made at once if the owner is resolved.
CreateUnit(u) ==
  /\ calls = <<>> /\ u \notin alive
  /\ alive' = alive \cup {u}
  /\ entry' = [entry EXCEPT ![u] = NewUnit] \/ UNCHANGED entry
  /\ UNCHANGED <<suzerain, installed, window, calls, total, strength,
                 applies, due, stranded, faults>>

Forget(us, f) == [i \in Instances |-> IF UnitOf[i] \in us THEN 0 ELSE f[i]]

\* UnitDestroyed: the unit goes, and the effect objects on it.
DestroyUnit(u) ==
  /\ calls = <<>> /\ u \in alive
  /\ alive' = alive \ {u}
  /\ entry' = [entry EXCEPT ![u] = Nil]
  /\ strength' = [strength EXCEPT ![u] = 0]
  /\ total' = Forget({u}, total)
  /\ applies' = Forget({u}, applies)
  /\ due' = Forget({u}, due)
  /\ stranded' = Forget({u}, stranded)
  /\ UNCHANGED <<suzerain, installed, window, calls, faults>>

\* OnContext: leaving a game removes the hook, entering one installs it if
\* the host can; both reset the window and clear the table.
ChangeContext(hooked) ==
  /\ calls = <<>>
  /\ installed' = hooked
  /\ alive' = {}
  /\ entry' = [u \in Units |-> Nil]
  /\ strength' = [u \in Units |-> 0]
  /\ total' = Forget(Units, total)
  /\ applies' = Forget(Units, applies)
  /\ due' = Forget(Units, due)
  /\ stranded' = Forget(Units, stranded)
  /\ window' = Closed
  /\ UNCHANGED <<suzerain, calls, faults>>

Init ==
  /\ alive = {} /\ suzerain = -1 /\ installed = FALSE
  /\ entry = [u \in Units |-> Nil]
  /\ window = Closed /\ calls = <<>>
  /\ total = [i \in Instances |-> 0]
  /\ strength = [u \in Units |-> 0]
  /\ applies = [i \in Instances |-> 0]
  /\ due = [i \in Instances |-> 0]
  /\ stranded = [i \in Instances |-> 0]
  /\ faults = 0

Next ==
  \/ \E i \in Instances :
       \/ \E w \in 1 .. MaxWrites : Apply(i, w)
       \/ Remove(i)
  \/ Refuse
  \/ TemplateWrite
  \/ Close
  \/ \E n \in Counts \cup {-1} : Influence(n)
  \/ \E u \in Units : CreateUnit(u) \/ DestroyUnit(u)
  \/ \E h \in BOOLEAN : ChangeContext(h)

Spec == Init /\ [][Next]_vars

-----------------------------------------------------------------------------
(* Properties.                                                             *)

WindowType ==
  [active : Instances \cup {Nil}, delta : Int,
   wrote : BOOLEAN, count : Counts \cup {-1}, captureOnly : BOOLEAN,
   unit : Units \cup {Nil}]

\* What the writes of a window may have added, if each stays in bounds.
DeltaInBounds(w) ==
  IF w.active = Nil THEN w.delta = 0
  ELSE LET a == AmountOf[w.active]
       IN w.delta \in Min({0, MaxWrites * (-MaxScaled - a)})
                        .. Max({0, MaxWrites * (MaxScaled - a)})

WindowOK(w) == w \in WindowType /\ DeltaInBounds(w)

\* The type invariant.  What a window adds stays within the defensive bound
\* of kMaxScaledStrengthAmount for each write.
TypeOK ==
  /\ alive \subseteq Units /\ suzerain \in Counts \cup {-1}
  /\ installed \in BOOLEAN
  /\ WindowOK(window)
  /\ Len(calls) \in 0 .. MaxNesting
  /\ \A n \in DOMAIN calls :
       /\ calls[n] \in [inst : Instances, sign : {-1, 1},
                        left : 0 .. MaxWrites, saved : WindowType]
       /\ WindowOK(calls[n].saved)
  /\ \A u \in Units : entry[u] # Nil =>
       /\ DOMAIN entry[u].instances \subseteq Instances
       /\ entry[u].strength \in Int
  /\ total \in [Instances -> Int] /\ due \in [Instances -> Int]
  /\ stranded \in [Instances -> Int] /\ faults \in 0 .. MaxFaults
  /\ strength \in [Units -> Int]
  /\ applies \in [Instances -> 0 .. MaxApplies]

On(u) == {i \in Instances : UnitOf[i] = u}
Recorded(i) ==
  entry[UnitOf[i]] # Nil /\ i \in DOMAIN entry[UnitOf[i]].instances

\* What call n has added and its total does not show yet.
Pending ==
  [n \in DOMAIN calls |->
     IF n = Len(calls) THEN window.delta ELSE calls[n + 1].saved.delta]

\* What the engine holds because of each instance: what a Remove will take
\* back, and what failed to be put into the total, which it will not.
Held == [i \in Instances |-> total[i] + stranded[i]]

\* Rollback: what the engine holds for a unit is the sum of the totals its
\* instances will take back, up to what the open windows are still going to
\* correct; whatever the suzerain count was at each Apply, however the windows
\* nest, with the hook in place or without it, and whatever could not be read
\* of the unit and the player.  It is exact but for the amounts whose
\* correction itself failed: those, and nothing else, no Remove takes back.
RollbackExact ==
  \A u \in Units :
    strength[u] =
        MapThenSumSet(LAMBDA i : Held[i], On(u))
      + MapThenSumSet(LAMBDA n : Pending[n],
                      {n \in DOMAIN calls : UnitOf[calls[n].inst] = u})

\* The aggregate the hook multiplies is the sum of the Amounts of the
\* instances recorded for the unit ("strength_per_suzerain always equals the
\* sum"), all of which target it.
AggregateInSync ==
  \A u \in Units : entry[u] # Nil =>
    /\ DOMAIN entry[u].instances \subseteq On(u)
    /\ entry[u].strength =
         MapThenSumSet(LAMBDA i : AmountOf[i], DOMAIN entry[u].instances)

\* An instance stays recorded until it is removed itself or its unit goes:
\* no Apply of another instance displaces it, on whatever unit.
InstancesKept ==
  [][\A i \in Instances :
       Recorded(i) /\ ~ Recorded(i)' =>
         \/ UnitOf[i] \notin alive'
         \/ calls # <<>> /\ Top.inst = i /\ Top.sign < 0]_vars

\* Of an instance that was applied at most once since its last Remove.
Exact(i) ==
  ~ Running(i) /\ applies[i] <= 1 => Held[i] = due[i]

\* A unit with one instance gets the Amount once per city-state for an Apply,
\* and nothing is left of it after a Remove but what failed to be put into the
\* total; whatever was applied and removed before, and whether its table entry
\* could be kept up to date or not.
SoleInstanceExact ==
  \A i \in Instances : On(UnitOf[i]) = {i} => Exact(i)

\* The same of a unit with several instances ("re-applying the same instance
\* does not double-count (idempotent), different instances stack").
InstancesStack == \A i \in Instances : Exact(i)
=============================================================================
