----------------------- MODULE StrengthWindow_proofs -----------------------
(***************************************************************************)
(* What holds of the unit-strength effect for any units, effect objects,   *)
(* Amounts and suzerain counts: the windows always nest like the template  *)
(* calls that opened them, so what the engine holds for a unit is exactly  *)
(* what the totals of its instances will take back, but for the amounts    *)
(* that failed to be put into one.                                         *)
(***************************************************************************)
EXTENDS StrengthWindow, FiniteSums, SequenceTheorems

-----------------------------------------------------------------------------
(* The inductive invariant.                                                *)

CallType == [inst : Instances, sign : {-1, 1}, left : 0 .. MaxWrites,
             saved : WindowType]

StateTypes ==
  /\ alive \subseteq Units /\ suzerain \in Counts \cup {-1}
  /\ installed \in BOOLEAN /\ window \in WindowType
  /\ calls \in Seq(CallType) /\ Len(calls) <= MaxNesting
  /\ entry \in [Units -> UnitExtra \cup {Nil}]
  /\ total \in [Instances -> Int] /\ due \in [Instances -> Int]
  /\ stranded \in [Instances -> Int] /\ faults \in 0 .. MaxFaults
  /\ strength \in [Units -> Int]
  /\ applies \in [Instances -> 0 .. MaxApplies]

\* The window call n works in: the thread's own for the innermost call, else
\* the one the next call saved.  Below the first call there is none.
Window(n) == IF n = Len(calls) THEN window ELSE calls[n + 1].saved

\* What one write may add at least and at most, or nothing.
Least(i) == IF -MaxScaled - AmountOf[i] < 0 THEN -MaxScaled - AmountOf[i] ELSE 0
Most(i) == IF MaxScaled - AmountOf[i] > 0 THEN MaxScaled - AmountOf[i] ELSE 0

\* Window w was opened for call c and is in the hands of that call alone.
OwnWindow(w, c) ==
  /\ w.active = c.inst /\ w.captureOnly = (c.sign < 0)
  /\ w.count \in {-1, suzerain}
  /\ w.unit \in {Nil, UnitOf[c.inst]}
  /\ (~ w.wrote \/ w.captureOnly) => w.delta = 0
  /\ w.delta >= (MaxWrites - c.left) * Least(c.inst)
  /\ w.delta <= (MaxWrites - c.left) * Most(c.inst)

StackInv ==
  /\ Window(0) = Closed
  /\ \A n \in 1 .. Len(calls) :
       /\ OwnWindow(Window(n), calls[n])
       /\ UnitOf[calls[n].inst] \in alive
  /\ \A m, n \in 1 .. Len(calls) : calls[m].inst = calls[n].inst => m = n

\* An entry is of a living unit, and it holds what was recorded for it.
EntryInv ==
  \A u \in Units : entry[u] # Nil =>
    /\ u \in alive
    /\ DOMAIN entry[u].instances \subseteq On(u)
    /\ \A i \in DOMAIN entry[u].instances :
         entry[u].instances[i] = AmountOf[i]
    /\ entry[u].strength = Sum(AmountOf, DOMAIN entry[u].instances)

\* What the innermost of the calls of unit u, down to the first, still owe
\* its instances' totals.
CallsOn(u) == {n \in 1 .. Len(calls) : UnitOf[calls[n].inst] = u}

BalanceInv ==
  \A u \in Units : strength[u] = Sum(Held, On(u)) + Sum(Pending, CallsOn(u))

Even(i) == ~ Running(i) => Held[i] = due[i]

\* The engine holds of the only instance of a unit, with what its call has
\* still to correct, exactly what its Applies were due.
SoleInv ==
  \A i \in Instances : On(UnitOf[i]) = {i} =>
    /\ Even(i)
    /\ \A n \in 1 .. Len(calls) :
         calls[n].inst = i => Held[i] + Pending[n] = due[i]

IInv == StateTypes /\ StackInv /\ EntryInv /\ BalanceInv /\ SoleInv

-----------------------------------------------------------------------------
(* The hook.                                                               *)

\* A write inside the window of its call: the hook reports in the window
\* what it changed the amount by, and an amount it changes is in bounds.
LEMMA HookStep ==
  ASSUME StateTypes, NEW c \in CallType, NEW w \in WindowType,
         OwnWindow(w, c), NEW amount \in Int,
         NEW u, u \in {UnitOf[c.inst], Nil}, NEW k, k \in {suzerain, -1},
         NEW h, h = Hook(w, u, k, amount)
  PROVE  /\ h.amount \in Int /\ h.window \in WindowType
         /\ h.window.active = w.active
         /\ h.window.captureOnly = w.captureOnly
         /\ h.window.count \in {-1, suzerain}
         /\ h.window.unit \in {Nil, UnitOf[c.inst]}
         /\ (~ h.window.wrote \/ h.window.captureOnly) => h.window.delta = 0
         /\ h.window.delta = w.delta + h.amount - amount
         /\ h.amount = amount \/ h.amount \in -MaxScaled .. MaxScaled
<1>. DEFINE v == Capture(w, u)
            n == CountIn(v, k)
            scaled == PerSuzerain(v.unit, amount) * n
<1>1. /\ UnitOf[c.inst] \in Units /\ Nil \notin Units /\ w.delta \in Int
      /\ w.unit \in {Nil, UnitOf[c.inst]}
      /\ w.wrote \in BOOLEAN
  BY ParametersAssumption, NilAssumption DEF CallType, WindowType, OwnWindow
<1>2. /\ v \in WindowType /\ v.unit \in {Nil, UnitOf[c.inst]} /\ v.wrote
      /\ v.active = w.active /\ v.captureOnly = w.captureOnly
      /\ v.count = w.count /\ v.delta = w.delta
  BY <1>1 DEF Capture, WindowType
<1>3. /\ n \in Counts \cup {-1} /\ n \in {-1, suzerain}
      /\ MaxScaled \in Nat /\ Counts \subseteq Nat
      /\ w.count \in {-1, suzerain}
  BY <1>2, ParametersAssumption DEF CountIn, OwnWindow, StateTypes, WindowType
<1>4. PerSuzerain(v.unit, amount) \in Int
  BY <1>1, <1>2 DEF PerSuzerain, StateTypes, UnitExtra
<1>5. n \in Int /\ scaled \in Int
  <2>1. n \in Int
    <3>1. \A j \in Counts \cup {-1} : j \in Int
      BY ParametersAssumption
    <3>. HIDE DEF n
    <3>. QED  BY <1>3, <3>1
  <2>. DEFINE p == PerSuzerain(v.unit, amount)
  <2>2. p \in Int
    BY <1>4
  <2>. HIDE DEF n, p
  <2>3. p * n \in Int
    BY <2>1, <2>2
  <2>. QED  BY <2>1, <2>3 DEF p
<1>6. CASE h = Forward(w, amount)
  BY <1>6, <1>1 DEF Forward, OwnWindow
<1>7. CASE h = Forward(v, amount) /\ (w.captureOnly \/ w.delta = 0)
  BY <1>7, <1>1, <1>2, <1>3 DEF Forward, OwnWindow
<1>8. CASE h = Scale(v, k, amount) /\ ~ w.captureOnly
  <2>. DEFINE counted == [v EXCEPT !.count = n]
  <2>. HIDE DEF v, n, scaled
  <2>1. /\ counted \in WindowType /\ counted.unit = v.unit /\ counted.wrote
        /\ counted.active = w.active /\ counted.captureOnly = w.captureOnly
        /\ counted.count = n /\ counted.delta = w.delta
    BY <1>2, <1>3 DEF WindowType
  <2>. HIDE DEF counted
  <2>2. CASE h = Forward(v, amount)
    BY <2>2, <1>1, <1>2, <1>3, <1>8 DEF Forward
  <2>3. CASE h = Forward(counted, amount)
    BY <2>1, <2>3, <1>1, <1>2, <1>3, <1>8 DEF Forward
  <2>4. CASE /\ h = [amount |-> scaled,
                     window |-> [counted EXCEPT !.delta = @ + scaled - amount]]
             /\ scaled \in -MaxScaled .. MaxScaled
    BY <2>1, <2>4, <1>1, <1>2, <1>3, <1>5, <1>8 DEF WindowType
  <2>. QED  BY <1>8, <2>2, <2>3, <2>4 DEF Scale, n, scaled, counted
<1>. QED
  BY <1>6, <1>7, <1>8 DEF Hook

\* On a unit with one instance the hook has nothing but its Amount to
\* multiply, so an Apply adds what it is due.
LEMMA HookSole ==
  ASSUME StateTypes, EntryInv, NEW c \in CallType, NEW w \in WindowType,
         OwnWindow(w, c), c.sign = 1, On(UnitOf[c.inst]) = {c.inst},
         NEW u, u \in {UnitOf[c.inst], Nil}, NEW k, k \in {suzerain, -1}
  PROVE  Hook(w, u, k, AmountOf[c.inst]).amount = Due(c.inst, CountIn(w, k))
<1>. DEFINE i == c.inst
            v == Capture(w, u)
            n == CountIn(w, k)
<1>1. /\ i \in Instances /\ UnitOf[i] \in Units
      /\ Nil \notin Units /\ Nil \notin Instances
      /\ AmountOf[i] \in Int /\ MaxScaled \in Nat
      /\ w.active = i /\ ~ w.captureOnly
  <2>1. i \in Instances
    BY DEF CallType
  <2>2. w.active = i /\ ~ w.captureOnly
    <3>1. ~ (c.sign < 0) /\ w.captureOnly \in BOOLEAN
      BY DEF WindowType
    <3>. QED  BY <3>1 DEF OwnWindow
  <2>. QED  BY <2>1, <2>2, ParametersAssumption, NilAssumption
<1>2. v.unit \in {Nil, UnitOf[i]} /\ v.count = w.count
  BY <1>1, ParametersAssumption DEF Capture, WindowType, OwnWindow
<1>3. CountIn(v, k) = n /\ n \in Int
  <2>1. w.count \in {-1, suzerain}
    BY DEF OwnWindow
  <2>2. suzerain \in Int
    BY ParametersAssumption DEF StateTypes
  <2>3. /\ n = IF w.count >= 0 THEN w.count ELSE k
        /\ CountIn(v, k) = IF v.count >= 0 THEN v.count ELSE k
    BY DEF CountIn
  <2>. QED  BY <1>2, <2>1, <2>2, <2>3
<1>4. PerSuzerain(v.unit, AmountOf[i]) = AmountOf[i]
  <2>. DEFINE t == UnitOf[i]
  <2>1. CASE v.unit = Nil \/ entry[t] = Nil
    BY <1>2, <2>1 DEF PerSuzerain
  <2>2. CASE v.unit = t /\ entry[t] # Nil
    <3>1. /\ DOMAIN entry[t].instances \subseteq {i}
          /\ entry[t].strength = Sum(AmountOf, DOMAIN entry[t].instances)
      BY <2>2, <1>1 DEF EntryInv
    <3>2. CASE DOMAIN entry[t].instances = {}
      BY <3>1, <3>2, <2>2, SumEmpty DEF PerSuzerain
    <3>3. CASE DOMAIN entry[t].instances = {i}
      <4>1. Sum(AmountOf, {i}) = AmountOf[i] + Sum(AmountOf, {i} \ {i})
        BY <1>1, FS_Singleton, SumRemove
      <4>2. Sum(AmountOf, {i}) = AmountOf[i]
        <5>1. {i} \ {i} = {}
          OBVIOUS
        <5>. QED  BY <4>1, <5>1, <1>1, SumEmpty
      <4>. QED  BY <3>1, <3>3, <4>2, <2>2 DEF PerSuzerain
    <3>. QED  BY <3>1, <3>2, <3>3
  <2>. QED  BY <1>2, <2>1, <2>2
<1>. DEFINE h == Hook(w, u, k, AmountOf[i])
            inBounds == AmountOf[i] * n \in -MaxScaled .. MaxScaled
<1>. HIDE DEF v, n
<1>5. /\ Scale(v, k, AmountOf[i]).amount =
           IF n < 0 \/ ~ inBounds THEN AmountOf[i] ELSE AmountOf[i] * n
  BY <1>3, <1>4 DEF Scale, Forward
<1>6. AmountOf[i] * n \in Int /\ (AmountOf[i] = 0 => AmountOf[i] * n = 0)
  BY <1>1, <1>3
<1>7. h.amount = IF ~ installed \/ AmountOf[i] = 0 THEN AmountOf[i]
                 ELSE Scale(v, k, AmountOf[i]).amount
  BY <1>1 DEF Hook, Forward, v
<1>8. Due(i, n) = IF installed /\ n >= 0 /\ inBounds THEN AmountOf[i] * n
                  ELSE AmountOf[i]
  BY DEF Due
<1>9. h.amount = Due(i, n)
  BY <1>1, <1>3, <1>5, <1>6, <1>7, <1>8
<1>. QED  BY <1>9 DEF n

-----------------------------------------------------------------------------
(* The stack of calls and their windows.                                   *)

LEMMA NextIndex ==
  ASSUME NEW N \in Nat
  PROVE  /\ \A n \in 0 .. N : n # N => n + 1 \in 1 .. N
         /\ N # 0 => N \in 1 .. N /\ N - 1 \in 0 .. N - 1
         /\ \A n \in 0 .. N - 1 : n # N - 1 => n + 1 \in 1 .. N - 1 /\ n # N
OBVIOUS

LEMMA StackFacts ==
  ASSUME StateTypes
  PROVE  /\ DOMAIN calls = 1 .. Len(calls) /\ Len(calls) \in Nat
         /\ \A n \in 1 .. Len(calls) : calls[n] \in CallType
         /\ \A n \in 0 .. Len(calls) : Window(n) \in WindowType
         /\ \A n \in 1 .. Len(calls) :
              Pending[n] = Window(n).delta /\ Pending[n] \in Int
<1>1. DOMAIN calls = 1 .. Len(calls) /\ Len(calls) \in Nat
  BY DEF StateTypes
<1>2. \A n \in 1 .. Len(calls) : calls[n] \in CallType
  BY DEF StateTypes
<1>3. ASSUME NEW n \in 0 .. Len(calls) PROVE Window(n) \in WindowType
  <2>1. CASE n = Len(calls)
    BY <2>1 DEF Window, StateTypes
  <2>2. CASE n # Len(calls)
    <3>1. n + 1 \in 1 .. Len(calls)
      BY <1>1, <2>2, NextIndex
    <3>. QED  BY <2>2, <3>1, <1>2 DEF Window, CallType
  <2>. QED  BY <2>1, <2>2
<1>4. ASSUME NEW n \in 1 .. Len(calls)
      PROVE  Pending[n] = Window(n).delta /\ Pending[n] \in Int
  <2>1. Pending[n] = Window(n).delta
    BY <1>1 DEF Pending, Window
  <2>. QED  BY <2>1, <1>3 DEF WindowType
<1>. QED  BY <1>1, <1>2, <1>3, <1>4

LEMMA FiniteIndices ==
  ASSUME StateTypes, NEW u
  PROVE  IsFiniteSet(On(u)) /\ IsFiniteSet(CallsOn(u))
<1>1. Len(calls) \in Int
  BY StackFacts
<1>2. IsFiniteSet(1 .. Len(calls))
  BY <1>1, FS_Interval
<1>. QED
  BY <1>2, FS_Subset, ParametersAssumption DEF On, CallsOn

\* Opening a window leaves those below as they are.
LEMMA Opened ==
  ASSUME StateTypes, NEW i \in Instances, NEW sign, NEW writes,
         Open(i, sign, writes)
  PROVE  /\ Len(calls') = Len(calls) + 1
         /\ \A n \in 1 .. Len(calls) : calls'[n] = calls[n]
         /\ calls'[Len(calls) + 1] =
              [inst |-> i, sign |-> sign, left |-> writes, saved |-> window]
         /\ \A n \in 0 .. Len(calls) : Window(n)' = Window(n)
         /\ \A n : n = Len(calls) + 1 =>
              Window(n)' = [Closed EXCEPT !.active = i, !.captureOnly = sign < 0]
<1>. DEFINE c == [inst |-> i, sign |-> sign, left |-> writes, saved |-> window]
<1>1. calls \in Seq(CallType) /\ Len(calls) \in Nat
  BY StackFacts DEF StateTypes
<1>2. calls' = Append(calls, c)
  BY DEF Open
<1>. HIDE DEF c
<1>3. /\ Len(calls') = Len(calls) + 1
      /\ \A n \in 1 .. Len(calls) : calls'[n] = calls[n]
      /\ calls'[Len(calls) + 1] = c
  BY <1>1, <1>2
<1>4. ASSUME NEW n \in 0 .. Len(calls) PROVE Window(n)' = Window(n)
  <2>1. CASE n = Len(calls)
    BY <2>1, <1>1, <1>3 DEF Window, c
  <2>2. CASE n # Len(calls)
    <3>1. n + 1 \in 1 .. Len(calls) /\ n # Len(calls')
      BY <1>1, <1>3, <2>2
    <3>. QED  BY <2>2, <3>1, <1>3 DEF Window
  <2>. QED  BY <2>1, <2>2
<1>5. ASSUME NEW n, n = Len(calls) + 1 PROVE Window(n)' = window'
  BY <1>3, <1>5 DEF Window
<1>. QED  BY <1>3, <1>4, <1>5 DEF Open, c

\* A write reaches the innermost call and its window only.
LEMMA Written ==
  ASSUME StateTypes, TemplateWrite
  PROVE  /\ Len(calls) \in 1 .. Len(calls)
         /\ Len(calls') = Len(calls)
         /\ \A n \in 1 .. Len(calls) :
              calls'[n] = IF n = Len(calls)
                          THEN [calls[n] EXCEPT !.left = @ - 1] ELSE calls[n]
         /\ \A n \in 0 .. Len(calls) : n # Len(calls) => Window(n)' = Window(n)
         /\ \A n : n = Len(calls) => Window(n)' = window'
<1>1. calls \in Seq(CallType) /\ Len(calls) \in Nat /\ calls # <<>>
  BY StackFacts DEF StateTypes, TemplateWrite
<1>2. Len(calls) \in 1 .. Len(calls)
  BY <1>1
<1>3. calls' = [calls EXCEPT ![Len(calls)].left = @ - 1]
  BY DEF TemplateWrite
<1>4. /\ Len(calls') = Len(calls)
      /\ \A n \in 1 .. Len(calls) :
           calls'[n] = IF n = Len(calls)
                       THEN [calls[n] EXCEPT !.left = @ - 1] ELSE calls[n]
  BY <1>1, <1>3
<1>5. \A n \in 1 .. Len(calls) : calls'[n].saved = calls[n].saved
  BY <1>4, StackFacts DEF CallType
<1>6. ASSUME NEW n \in 0 .. Len(calls), n # Len(calls)
      PROVE  Window(n)' = Window(n)
  <2>1. n + 1 \in 1 .. Len(calls)
    BY <1>1, <1>6
  <2>. QED  BY <1>4, <1>5, <1>6, <2>1 DEF Window
<1>. QED  BY <1>2, <1>4, <1>6 DEF Window

\* Closing a window brings back the one around it.
LEMMA ClosedTop ==
  ASSUME StateTypes, Close
  PROVE  /\ Len(calls) \in 1 .. Len(calls)
         /\ Len(calls') = Len(calls) - 1
         /\ calls' \in Seq(CallType)
         /\ \A n \in 1 .. Len(calls) - 1 : calls'[n] = calls[n]
         /\ \A n \in 0 .. Len(calls) - 1 : Window(n)' = Window(n)
<1>1. calls \in Seq(CallType) /\ Len(calls) \in Nat /\ calls # <<>>
  BY StackFacts DEF StateTypes, Close, CloseTo
<1>2. Len(calls) \in 1 .. Len(calls)
  BY <1>1
<1>3. calls' = SubSeq(calls, 1, Len(calls) - 1) /\ window' = Top.saved
  BY DEF Close, CloseTo, Pop
<1>4. /\ Len(calls') = Len(calls) - 1
      /\ calls' \in Seq(CallType)
      /\ \A n \in 1 .. Len(calls) - 1 : calls'[n] = calls[n]
  <2>. DEFINE N == Len(calls)
  <2>1. /\ N \in Nat /\ N \in 1 .. N /\ N - 1 \in Int
        /\ \A n \in 1 .. N - 1 : calls[n] \in CallType
    BY <1>1, <1>2
  <2>. HIDE DEF N
  <2>2. /\ SubSeq(calls, 1, N - 1) \in Seq(CallType)
        /\ Len(SubSeq(calls, 1, N - 1)) = IF 1 <= N - 1 THEN N - 1 - 1 + 1 ELSE 0
        /\ \A n \in 1 .. N - 1 - 1 + 1 :
             SubSeq(calls, 1, N - 1)[n] = calls[1 + n - 1]
    BY <2>1, SubSeqProperties
  <2>3. /\ Len(SubSeq(calls, 1, N - 1)) = N - 1
        /\ N - 1 - 1 + 1 = N - 1 /\ \A n \in 1 .. N - 1 : 1 + n - 1 = n
    BY <2>1, <2>2
  <2>. QED  BY <1>3, <2>2, <2>3 DEF N
<1>5. ASSUME NEW n \in 0 .. Len(calls) - 1 PROVE Window(n)' = Window(n)
  <2>1. CASE n = Len(calls) - 1
    BY <2>1, <1>1, <1>3, <1>4 DEF Window, Top
  <2>2. CASE n # Len(calls) - 1
    <3>1. n + 1 \in 1 .. Len(calls) - 1 /\ n # Len(calls)
      BY <1>1, <2>2
    <3>. QED  BY <2>2, <3>1, <1>4 DEF Window
  <2>. QED  BY <2>1, <2>2
<1>. QED  BY <1>2, <1>4, <1>5

-----------------------------------------------------------------------------
(* The steps of an Apply and of a Remove.                                  *)

\* What one write may add lies around 0.
LEMMA LeastMost ==
  ASSUME NEW i \in Instances
  PROVE  /\ Least(i) \in Int /\ Most(i) \in Int
         /\ Least(i) <= 0 /\ 0 <= Most(i)
         /\ \A d \in -MaxScaled .. MaxScaled :
              d - AmountOf[i] >= Least(i) /\ d - AmountOf[i] <= Most(i)
BY ParametersAssumption DEF Least, Most

LEMMA ScaleSign ==
  ASSUME NEW k \in Nat, NEW a \in Int
  PROVE  /\ a <= 0 => k * a <= 0
         /\ a >= 0 => k * a >= 0
         /\ (k + 1) * a = k * a + a
OBVIOUS

LEMMA OpenStack ==
  ASSUME StateTypes, StackInv, NEW i \in Instances, NEW sign \in {-1, 1},
         NEW writes \in 1 .. MaxWrites, Open(i, sign, writes),
         applies' \in [Instances -> 0 .. MaxApplies]
  PROVE  StateTypes' /\ StackInv'
<1>. DEFINE w == [Closed EXCEPT !.active = i, !.captureOnly = sign < 0]
            c == [inst |-> i, sign |-> sign, left |-> writes, saved |-> window]
<1>1. w \in WindowType /\ c \in CallType
  <2>. DEFINE removing == sign < 0
  <2>1. Closed \in WindowType
    BY DEF Closed, WindowType
  <2>2. removing \in BOOLEAN
    OBVIOUS
  <2>3. w \in WindowType
    <3>1. w = [Closed EXCEPT !.active = i, !.captureOnly = removing]
      OBVIOUS
    <3>. HIDE DEF w, removing
    <3>. QED  BY <2>1, <2>2, <3>1 DEF WindowType
  <2>4. writes \in 0 .. MaxWrites /\ window \in WindowType
    BY ParametersAssumption DEF StateTypes
  <2>5. c \in CallType
    BY <2>4 DEF CallType
  <2>. QED  BY <2>3, <2>5
<1>2. OwnWindow(w, c)
  <2>1. /\ Least(i) \in Int /\ Most(i) \in Int
        /\ Least(i) <= 0 /\ 0 <= Most(i) /\ MaxWrites - writes \in Nat
    BY LeastMost, ParametersAssumption
  <2>2. (MaxWrites - writes) * Least(i) <= 0 /\ (MaxWrites - writes) * Most(i) >= 0
    BY <2>1, ScaleSign
  <2>3. /\ w.active = i /\ w.captureOnly = (sign < 0) /\ w.count = -1
        /\ w.unit = Nil /\ w.wrote = FALSE /\ w.delta = 0
        /\ c.inst = i /\ c.sign = sign /\ c.left = writes
    BY DEF Closed
  <2>. HIDE DEF w, c
  <2>. QED  BY <2>2, <2>3 DEF OwnWindow
<1>3. StateTypes'
  <2>1. calls' = Append(calls, c) /\ window' = w /\ Len(calls) < MaxNesting
    BY DEF Open
  <2>2. calls' \in Seq(CallType)
    <3>. HIDE DEF c
    <3>. QED  BY <1>1, <2>1 DEF StateTypes
  <2>3. Len(calls') <= MaxNesting
    <3>1. Len(calls') = Len(calls) + 1 /\ Len(calls) \in Nat
      BY Opened, StackFacts
    <3>. QED  BY <2>1, <3>1, ParametersAssumption
  <2>. QED  BY <1>1, <2>1, <2>2, <2>3 DEF Open, StateTypes
<1>4. StackInv'
  <2>. DEFINE N == Len(calls)
  <2>1. /\ N \in Nat /\ Len(calls') = N + 1
        /\ \A n \in 1 .. N : calls'[n] = calls[n]
        /\ calls'[N + 1] = c
        /\ \A n \in 0 .. N : Window(n)' = Window(n)
        /\ \A n : n = N + 1 => Window(n)' = w
    BY Opened, StackFacts
  <2>2. Window(0)' = Closed
    BY <2>1 DEF StackInv
  <2>3. ASSUME NEW n \in 1 .. N + 1
        PROVE  OwnWindow(Window(n), calls[n])' /\ (UnitOf[calls[n].inst] \in alive)'
    <3>1. CASE n = N + 1
      <4>1. UnitOf[c.inst] \in alive
        BY DEF Open
      <4>. HIDE DEF w, c
      <4>. QED  BY <3>1, <4>1, <2>1, <1>2 DEF Open, OwnWindow
    <3>2. CASE n # N + 1
      <4>1. n \in 1 .. N
        BY <3>2, <2>1
      <4>2. OwnWindow(Window(n), calls[n]) /\ UnitOf[calls[n].inst] \in alive
        BY <4>1 DEF StackInv
      <4>3. Window(n)' = Window(n) /\ calls'[n] = calls[n]
        BY <4>1, <2>1
      <4>. QED  BY <4>2, <4>3 DEF OwnWindow, Open
    <3>. QED  BY <3>1, <3>2
  <2>4. ASSUME NEW m \in 1 .. N + 1, NEW n \in 1 .. N + 1,
               calls'[m].inst = calls'[n].inst
        PROVE  m = n
    <3>1. \A k \in 1 .. N : calls[k].inst # i
      BY StackFacts DEF Open, Running
    <3>. QED  BY <2>1, <2>4, <3>1 DEF StackInv
  <2>. QED  BY <2>1, <2>2, <2>3, <2>4 DEF StackInv
<1>. QED  BY <1>3, <1>4

\* The amount the innermost call writes, and what of it reaches the engine.
Handed == IF Top.sign < 0 THEN -total[Top.inst] ELSE AmountOf[Top.inst]
Added == Handed + (window'.delta - window.delta)

\* What a write does, the unit and the count the hook read left open.
LEMMA WriteWith ==
  ASSUME TemplateWrite
  PROVE  \E u \in {UnitOf[Top.inst], Nil}, k \in {suzerain, -1} :
           LET h == Hook(window, u, k, Handed)
           IN /\ window' = h.window
              /\ strength' = [strength EXCEPT ![UnitOf[Top.inst]] = @ + h.amount]
              /\ due' = [due EXCEPT ![Top.inst] =
                           IF Top.sign < 0 THEN stranded[Top.inst]
                           ELSE @ + Due(Top.inst, CountIn(window, k))]
BY DEF TemplateWrite, Handed

LEMMA WriteFacts ==
  ASSUME StateTypes, StackInv, TemplateWrite
  PROVE  /\ Top \in CallType /\ Top.left > 0 /\ Top.inst \in Instances
         /\ OwnWindow(window, Top) /\ UnitOf[Top.inst] \in alive
         /\ Handed \in Int /\ Added \in Int /\ window' \in WindowType
         /\ window'.delta = window.delta + Added - Handed
         /\ strength' = [strength EXCEPT ![UnitOf[Top.inst]] = @ + Added]
         /\ total' = [total EXCEPT ![Top.inst] = @ + Handed]
         /\ OwnWindow(window', [Top EXCEPT !.left = @ - 1])
         /\ due' \in [Instances -> Int]
         /\ Top.sign < 0 =>
              due' = [due EXCEPT ![Top.inst] = stranded[Top.inst]]
         /\ EntryInv /\ Top.sign = 1 /\ On(UnitOf[Top.inst]) = {Top.inst} =>
              due' = [due EXCEPT ![Top.inst] = @ + Added]
<1>. DEFINE c == Top
            d == [Top EXCEPT !.left = @ - 1]
<1>1. Len(calls) \in 1 .. Len(calls) /\ c \in CallType /\ c.left > 0
  BY Written, StackFacts DEF Top, TemplateWrite
<1>2. OwnWindow(window, c) /\ UnitOf[c.inst] \in alive
  BY <1>1 DEF StackInv, Window, Top
<1>3. c.inst \in Instances /\ window \in WindowType /\ Handed \in Int
  <2>1. c.inst \in Instances /\ window \in WindowType
    BY <1>1 DEF CallType, StateTypes
  <2>2. total[c.inst] \in Int /\ AmountOf[c.inst] \in Int
    BY <2>1, ParametersAssumption DEF StateTypes
  <2>. QED  BY <2>1, <2>2 DEF Handed
<1>4. PICK u \in {UnitOf[c.inst], Nil}, n \in {suzerain, -1} :
        LET h == Hook(window, u, n, Handed)
        IN /\ window' = h.window
           /\ strength' = [strength EXCEPT ![UnitOf[c.inst]] = @ + h.amount]
           /\ due' = [due EXCEPT ![c.inst] =
                        IF c.sign < 0 THEN stranded[c.inst]
                        ELSE @ + Due(c.inst, CountIn(window, n))]
  BY WriteWith
<1>. DEFINE h == Hook(window, u, n, Handed)
<1>5. /\ h.amount \in Int /\ h.window \in WindowType
      /\ h.window.active = window.active
      /\ h.window.captureOnly = window.captureOnly
      /\ h.window.count \in {-1, suzerain}
      /\ h.window.unit \in {Nil, UnitOf[c.inst]}
      /\ (~ h.window.wrote \/ h.window.captureOnly) => h.window.delta = 0
      /\ h.window.delta = window.delta + h.amount - Handed
      /\ h.amount = Handed \/ h.amount \in -MaxScaled .. MaxScaled
  BY <1>1, <1>2, <1>3, HookStep
<1>6. /\ window' = h.window
      /\ strength' = [strength EXCEPT ![UnitOf[c.inst]] = @ + h.amount]
      /\ total' = [total EXCEPT ![c.inst] = @ + Handed]
  BY <1>4 DEF TemplateWrite, Handed
<1>7. window.delta \in Int
  BY <1>3 DEF WindowType
<1>. HIDE DEF h
<1>8. Added = h.amount
  BY <1>3, <1>5, <1>6, <1>7 DEF Added
<1>9. OwnWindow(h.window, d)
  <2>. DEFINE L == Least(c.inst)
              M == Most(c.inst)
              k == MaxWrites - c.left
  <2>1. d.inst = c.inst /\ d.sign = c.sign /\ d.left = c.left - 1
    BY <1>1 DEF CallType
  <2>2. /\ L \in Int /\ M \in Int /\ L <= 0 /\ 0 <= M
        /\ \A e \in -MaxScaled .. MaxScaled :
             e - AmountOf[c.inst] >= L /\ e - AmountOf[c.inst] <= M
    BY <1>3, LeastMost
  <2>3. k \in Nat /\ MaxWrites - d.left = k + 1
    BY <1>1, <2>1, ParametersAssumption DEF CallType
  <2>4. window.delta >= k * L /\ window.delta <= k * M
    BY <1>2 DEF OwnWindow
  <2>5. /\ (k + 1) * L = k * L + L /\ (k + 1) * M = k * M + M
        /\ k + 1 \in Nat /\ k * L \in Int /\ k * M \in Int
    BY <2>2, <2>3, ScaleSign
  <2>6. (k + 1) * L <= 0 /\ (k + 1) * M >= 0
    <3>. HIDE DEF k, L, M
    <3>. QED  BY <2>2, <2>5, ScaleSign
  <2>7. h.window.delta >= (k + 1) * L /\ h.window.delta <= (k + 1) * M
    <3>1. CASE c.sign < 0
      <4>1. window.captureOnly
        BY <1>2, <3>1 DEF OwnWindow
      <4>2. h.window.delta = 0
        BY <1>5, <4>1
      <4>. QED  BY <4>2, <2>6
    <3>2. CASE ~ (c.sign < 0)
      <4>1. Handed = AmountOf[c.inst]
        BY <3>2 DEF Handed
      <4>2. h.amount - Handed >= L /\ h.amount - Handed <= M
        BY <4>1, <1>3, <1>5, <2>2
      <4>. HIDE DEF k, L, M
      <4>. QED  BY <4>2, <1>7, <1>3, <1>5, <2>2, <2>4, <2>5
    <3>. QED  BY <3>1, <3>2
  <2>8. /\ h.window.active = d.inst
        /\ h.window.captureOnly = (d.sign < 0)
    BY <1>2, <1>5, <2>1 DEF OwnWindow
  <2>. QED  BY <1>5, <2>1, <2>3, <2>7, <2>8 DEF OwnWindow
<1>10. due' \in [Instances -> Int]
  <2>1. Due(c.inst, CountIn(window, n)) \in Int
    <3>1. CountIn(window, n) \in Int
      <4>1. window.count \in Int /\ suzerain \in Int
        <5>1. \A k \in Counts \cup {-1} : k \in Int
          BY ParametersAssumption
        <5>2. window.count \in Counts \cup {-1} /\ suzerain \in Counts \cup {-1}
          BY <1>3 DEF WindowType, StateTypes
        <5>. QED  BY <5>1, <5>2
      <4>. QED  BY <4>1 DEF CountIn
    <3>2. AmountOf[c.inst] \in Int
      BY <1>3, ParametersAssumption
    <3>3. AmountOf[c.inst] * CountIn(window, n) \in Int
      BY <3>1, <3>2
    <3>. QED  BY <3>2, <3>3 DEF Due
  <2>2. due \in [Instances -> Int] /\ stranded \in [Instances -> Int]
    BY DEF StateTypes
  <2>. QED  BY <1>3, <1>4, <2>1, <2>2
<1>11. Top.sign < 0 => due' = [due EXCEPT ![Top.inst] = stranded[Top.inst]]
  BY <1>4
<1>12. ASSUME EntryInv, Top.sign = 1, On(UnitOf[Top.inst]) = {Top.inst}
       PROVE  due' = [due EXCEPT ![Top.inst] = @ + Added]
  <2>1. Handed = AmountOf[c.inst] /\ ~ (c.sign < 0)
    BY <1>12 DEF Handed
  <2>2. h.amount = Due(c.inst, CountIn(window, n))
    BY <1>1, <1>2, <1>3, <1>12, <2>1, HookSole DEF h
  <2>. QED  BY <1>4, <1>8, <2>1, <2>2
<1>. QED
  BY <1>1, <1>2, <1>3, <1>5, <1>6, <1>8, <1>9, <1>10, <1>11, <1>12

\* The failures of a step stay within the bound on them.
LEMMA FailingBound ==
  ASSUME StateTypes, NEW f, NEW g,
         Failing(<<f>>) \/ Failing(<<f, g>>)
  PROVE  faults' \in 0 .. MaxFaults
<1>1. ASSUME NEW fs, IsFiniteSet(DOMAIN fs), Failing(fs)
      PROVE  faults' \in 0 .. MaxFaults
  <2>. DEFINE S == {x \in DOMAIN fs : fs[x]}
  <2>1. IsFiniteSet(S)
    BY <1>1, FS_Subset
  <2>2. Cardinality(S) \in Nat
    BY <2>1, FS_CardinalityType
  <2>. HIDE DEF S
  <2>3. faults + Cardinality(S) <= MaxFaults /\ faults' = faults + Cardinality(S)
    BY <1>1 DEF Failing, S
  <2>. QED  BY <2>2, <2>3, ParametersAssumption DEF StateTypes
<1>2. IsFiniteSet(DOMAIN <<f>>) /\ IsFiniteSet(DOMAIN <<f, g>>)
  <2>1. DOMAIN <<f>> = 1 .. 1
    OBVIOUS
  <2>2. DOMAIN <<f, g>> = 1 .. 2
    OBVIOUS
  <2>3. \A n \in Int : IsFiniteSet(1 .. n)
    BY FS_Interval
  <2>4. 1 \in Int /\ 2 \in Int
    OBVIOUS
  <2>5. IsFiniteSet(1 .. 1) /\ IsFiniteSet(1 .. 2)
    BY <2>3, <2>4, Zenon
  <2>. QED  BY <2>1, <2>2, <2>5, Zenon
<1>. QED  BY <1>1, <1>2

LEMMA WriteStack ==
  ASSUME StateTypes, StackInv, TemplateWrite
  PROVE  StateTypes' /\ StackInv'
<1>. DEFINE N == Len(calls)
            d == [Top EXCEPT !.left = @ - 1]
<1>1. /\ N \in 1 .. N /\ N \in Nat /\ Len(calls') = N
      /\ \A n \in 1 .. N : calls'[n] = IF n = N THEN d ELSE calls[n]
      /\ \A n \in 0 .. N : n # N => Window(n)' = Window(n)
      /\ \A n : n = N => Window(n)' = window'
  BY Written, StackFacts DEF Top
<1>2. d \in CallType /\ d.inst = Top.inst
  BY WriteFacts, ParametersAssumption DEF CallType
<1>3. StateTypes'
  <2>1. calls' \in Seq(CallType)
    <3>1. calls' = [calls EXCEPT ![N] = d] /\ calls \in Seq(CallType)
      BY DEF TemplateWrite, Top, StateTypes
    <3>. HIDE DEF d
    <3>. QED  BY <3>1, <1>1, <1>2, ExceptSeq
  <2>2. strength' \in [Units -> Int] /\ total' \in [Instances -> Int]
    <3>1. /\ Added \in Int /\ Handed \in Int /\ Top.inst \in Instances
          /\ strength' = [strength EXCEPT ![UnitOf[Top.inst]] = @ + Added]
          /\ total' = [total EXCEPT ![Top.inst] = @ + Handed]
      BY WriteFacts
    <3>2. strength \in [Units -> Int] /\ total \in [Instances -> Int]
      BY DEF StateTypes
    <3>. QED  BY <3>1, <3>2, ParametersAssumption
  <2>3. faults' \in 0 .. MaxFaults
    BY FailingBound DEF TemplateWrite
  <2>4. stranded' = stranded
    BY DEF TemplateWrite
  <2>. QED
    BY <1>1, <2>1, <2>2, <2>3, <2>4, WriteFacts DEF TemplateWrite, StateTypes
<1>4. StackInv'
  <2>1. Window(0)' = Closed
    BY <1>1 DEF StackInv
  <2>2. ASSUME NEW n \in 1 .. N
        PROVE  OwnWindow(Window(n), calls[n])' /\ (UnitOf[calls[n].inst] \in alive)'
    <3>1. CASE n = N
      <4>1. calls'[n] = d /\ Window(n)' = window'
        BY <3>1, <1>1
      <4>2. OwnWindow(window', d) /\ UnitOf[d.inst] \in alive
        BY <1>2, WriteFacts
      <4>. HIDE DEF d
      <4>. QED  BY <4>1, <4>2 DEF OwnWindow, TemplateWrite
    <3>2. CASE n # N
      <4>1. calls'[n] = calls[n] /\ Window(n)' = Window(n)
        BY <3>2, <1>1
      <4>2. OwnWindow(Window(n), calls[n]) /\ UnitOf[calls[n].inst] \in alive
        BY DEF StackInv
      <4>3. suzerain' = suzerain /\ alive' = alive
        BY DEF TemplateWrite
      <4>. QED  BY <4>1, <4>2, <4>3 DEF OwnWindow
    <3>. QED  BY <3>1, <3>2
  <2>3. \A n \in 1 .. N : calls'[n].inst = calls[n].inst
    <3>. HIDE DEF d
    <3>. QED  BY <1>1, <1>2 DEF Top
  <2>. QED  BY <1>1, <2>1, <2>2, <2>3 DEF StackInv
<1>. QED  BY <1>3, <1>4

-----------------------------------------------------------------------------
(* The side table.                                                         *)

LEMMA RecomputeOK ==
  ASSUME NEW S \in SUBSET Instances, NEW f \in [S -> Int]
  PROVE  /\ RecomputeStrength(f) \in UnitExtra
         /\ RecomputeStrength(f).instances = f
         /\ RecomputeStrength(f).strength = Sum(f, S)
<1>1. RecomputeStrength(f) = [instances |-> f, strength |-> Sum(f, S)]
  BY DEF RecomputeStrength, Sum
<1>2. Sum(f, S) \in Int
  BY SumInt, FS_Subset, ParametersAssumption
<1>. QED  BY <1>1, <1>2 DEF UnitExtra

\* The entry of a unit in sync with what is recorded for it.
InSync(u, e) ==
  /\ e \in UnitExtra /\ DOMAIN e.instances \subseteq On(u)
  /\ \A i \in DOMAIN e.instances : e.instances[i] = AmountOf[i]
  /\ e.strength = Sum(AmountOf, DOMAIN e.instances)

\* Recording the Amounts of a set of instances of a unit.
LEMMA RecomputeInSync ==
  ASSUME NEW u, NEW S \in SUBSET On(u), NEW f,
         f = [i \in S |-> AmountOf[i]]
  PROVE  /\ InSync(u, RecomputeStrength(f))
         /\ DOMAIN RecomputeStrength(f).instances = S
<1>1. S \subseteq Instances /\ f \in [S -> Int]
  BY ParametersAssumption DEF On
<1>2. Sum(f, S) = Sum(AmountOf, S)
  BY <1>1, SumEqual, FS_Subset, ParametersAssumption
<1>. QED  BY <1>1, <1>2, RecomputeOK DEF InSync

RecordedOn(u) == IF entry[u] = Nil THEN {} ELSE DOMAIN entry[u].instances

LEMMA EntryFacts ==
  ASSUME StateTypes, EntryInv, NEW u \in Units
  PROVE  /\ RecordedOn(u) \subseteq On(u)
         /\ EntryOr(u).instances = [i \in RecordedOn(u) |-> AmountOf[i]]
         /\ \A i \in On(u) : Recorded(i) <=> i \in RecordedOn(u)
<1>1. CASE entry[u] = Nil
  <2>1. EntryOr(u).instances = [i \in {} |-> 0]
    BY <1>1 DEF EntryOr, NewUnit
  <2>. QED  BY <1>1, <2>1 DEF RecordedOn, Recorded, On
<1>2. CASE entry[u] # Nil
  <2>1. entry[u] \in UnitExtra
    BY <1>2 DEF StateTypes
  <2>2. PICK S \in SUBSET Instances : entry[u].instances \in [S -> Int]
    BY <2>1 DEF UnitExtra
  <2>3. entry[u].instances = [i \in S |-> AmountOf[i]] /\ S \subseteq On(u)
    BY <1>2, <2>2 DEF EntryInv
  <2>. QED  BY <1>2, <2>2, <2>3 DEF RecordedOn, Recorded, EntryOr, On
<1>. QED  BY <1>1, <1>2

LEMMA UpsertDrop ==
  ASSUME StateTypes, EntryInv, NEW i \in Instances, NEW u, u = UnitOf[i]
  PROVE  /\ InSync(u, Upsert(u, i))
         /\ DOMAIN Upsert(u, i).instances = RecordedOn(u) \cup {i}
         /\ InSync(u, Drop(u, i))
         /\ DOMAIN Drop(u, i).instances = RecordedOn(u) \ {i}
<1>. DEFINE old == EntryOr(u).instances
            S == RecordedOn(u)
<1>1. u \in Units /\ i \in On(u)
  BY ParametersAssumption DEF On
<1>2. S \subseteq On(u) /\ old = [j \in S |-> AmountOf[j]]
  BY <1>1, EntryFacts
<1>. HIDE DEF old, S
<1>3. /\ Upsert(u, i) = RecomputeStrength([j \in S \cup {i} |-> AmountOf[j]])
      /\ Drop(u, i) = RecomputeStrength([j \in S \ {i} |-> AmountOf[j]])
  <2>1. DOMAIN old = S /\ \A j \in S : old[j] = AmountOf[j]
    BY <1>2
  <2>2. [j \in S \cup {i} |-> IF j = i THEN AmountOf[i] ELSE old[j]] =
           [j \in S \cup {i} |-> AmountOf[j]]
    BY <2>1
  <2>3. [j \in S \ {i} |-> old[j]] = [j \in S \ {i} |-> AmountOf[j]]
    BY <2>1
  <2>. QED  BY <2>1, <2>2, <2>3, Zenon DEF Upsert, Drop, old
<1>4. S \cup {i} \in SUBSET On(u) /\ S \ {i} \in SUBSET On(u)
  BY <1>1, <1>2
<1>. QED  BY <1>3, <1>4, RecomputeInSync DEF S

\* What the table holds after a call is closed.
LEMMA CloseEntry ==
  ASSUME StateTypes, StackInv, EntryInv, Close
  PROVE  /\ Top \in CallType /\ OwnWindow(window, Top)
         /\ UnitOf[Top.inst] \in alive
         /\ \/ entry' = entry
            \/ \E e : /\ entry' = [entry EXCEPT ![UnitOf[Top.inst]] = e]
                      /\ InSync(UnitOf[Top.inst], e)
                      /\ \/ e = Drop(UnitOf[Top.inst], Top.inst) /\ Top.sign < 0
                         \/ e = Upsert(UnitOf[Top.inst], Top.inst)
<1>1. Len(calls) \in 1 .. Len(calls) /\ Top \in CallType
  BY ClosedTop, StackFacts DEF Top
<1>2. OwnWindow(window, Top) /\ UnitOf[Top.inst] \in alive
  BY <1>1 DEF StackInv, Window, Top
<1>3. Top.inst \in Instances
  BY <1>1 DEF CallType
<1>4. PICK maintained \in BOOLEAN :
        IF maintained
        THEN MayMaintain /\
             entry' = [entry EXCEPT ![window.unit] = Maintain(Top.inst)]
        ELSE UNCHANGED entry
  BY DEF Close, CloseTo
<1>5. CASE ~ maintained
  BY <1>1, <1>2, <1>4, <1>5
<1>6. CASE maintained
  <2>1. window.unit = UnitOf[Top.inst]
    BY <1>2, <1>4, <1>6 DEF OwnWindow, MayMaintain
  <2>2. /\ InSync(UnitOf[Top.inst], Upsert(UnitOf[Top.inst], Top.inst))
        /\ InSync(UnitOf[Top.inst], Drop(UnitOf[Top.inst], Top.inst))
    BY <1>3, UpsertDrop
  <2>3. /\ entry' = [entry EXCEPT ![UnitOf[Top.inst]] = Maintain(Top.inst)]
        /\ Maintain(Top.inst) = IF Top.sign < 0
                                THEN Drop(UnitOf[Top.inst], Top.inst)
                                ELSE Upsert(UnitOf[Top.inst], Top.inst)
    BY <1>4, <1>6, <2>1 DEF Maintain
  <2>. QED  BY <1>1, <1>2, <2>2, <2>3
<1>. QED  BY <1>5, <1>6

\* A correction changes what the engine holds because of the instance, one
\* way or the other: in its total, or beside it.
LEMMA CloseHeld ==
  ASSUME StateTypes, Close, Top.inst \in Instances
  PROVE  /\ total' \in [Instances -> Int] /\ stranded' \in [Instances -> Int]
         /\ Held \in [Instances -> Int]
         /\ Held' = [Held EXCEPT ![Top.inst] = @ + window.delta]
<1>. DEFINE i == Top.inst
            d == window.delta
<1>1. /\ d \in Int
      /\ total \in [Instances -> Int] /\ stranded \in [Instances -> Int]
  BY DEF StateTypes, WindowType
<1>2. PICK corrected \in BOOLEAN : Correct(i, corrected)
  BY DEF Close, CloseTo
<1>. HIDE DEF i
<1>3. i \in Instances
  BY DEF i
<1>4. \/ total' = [total EXCEPT ![i] = @ + d] /\ stranded' = stranded
      \/ stranded' = [stranded EXCEPT ![i] = @ + d] /\ total' = total
  BY <1>2 DEF Correct
<1>. HIDE DEF d
<1>5. total' \in [Instances -> Int] /\ stranded' \in [Instances -> Int]
  BY <1>1, <1>3, <1>4
<1>6. \A j \in Instances :
        total'[j] + stranded'[j] =
          IF j = i THEN total[j] + stranded[j] + d ELSE total[j] + stranded[j]
  BY <1>1, <1>3, <1>4
<1>7. Held \in [Instances -> Int] /\ Held' \in [Instances -> Int]
  BY <1>1, <1>5 DEF Held
<1>8. \A j \in Instances : Held'[j] = IF j = i THEN Held[j] + d ELSE Held[j]
  BY <1>6 DEF Held
<1>9. Held' = [Held EXCEPT ![i] = @ + d]
  BY <1>3, <1>7, <1>8
<1>. QED  BY <1>5, <1>7, <1>9 DEF i, d

LEMMA CloseKeeps ==
  ASSUME StateTypes, StackInv, EntryInv, Close
  PROVE  StateTypes' /\ StackInv' /\ EntryInv'
<1>. DEFINE u == UnitOf[Top.inst]
            N == Len(calls)
<1>1. Top.inst \in Instances /\ u \in Units
  BY CloseEntry, ParametersAssumption DEF CallType
<1>2. \/ entry' = entry
      \/ \E e : entry' = [entry EXCEPT ![u] = e] /\ InSync(u, e)
  BY CloseEntry
<1>3. EntryInv'
  <2>1. CASE entry' = entry
    BY <2>1 DEF EntryInv, Close, CloseTo
  <2>2. ASSUME NEW e, entry' = [entry EXCEPT ![u] = e], InSync(u, e)
        PROVE  EntryInv'
    <3>1. u \in alive /\ alive' = alive
      BY CloseEntry DEF Close, CloseTo
    <3>2. \A v \in Units : entry'[v] = IF v = u THEN e ELSE entry[v]
      BY <2>2 DEF StateTypes
    <3>. QED  BY <2>2, <3>1, <3>2 DEF EntryInv, InSync
  <2>. QED  BY <1>2, <2>1, <2>2
<1>4. entry' \in [Units -> UnitExtra \cup {Nil}]
  BY <1>1, <1>2 DEF InSync, StateTypes
<1>5. /\ N \in 1 .. N /\ N \in Nat /\ Len(calls') = N - 1
      /\ calls' \in Seq(CallType)
      /\ \A n \in 1 .. N - 1 : calls'[n] = calls[n]
      /\ \A n \in 0 .. N - 1 : Window(n)' = Window(n)
  BY ClosedTop, StackFacts
<1>6. StateTypes'
  <2>1. window' \in WindowType
    BY CloseEntry DEF Close, CloseTo, CallType
  <2>2. total' \in [Instances -> Int] /\ stranded' \in [Instances -> Int]
    BY <1>1, CloseHeld
  <2>3. Len(calls') <= MaxNesting
    BY <1>5, ParametersAssumption DEF StateTypes
  <2>4. faults' \in 0 .. MaxFaults
    BY FailingBound DEF Close, CloseTo
  <2>. QED
    BY <1>4, <1>5, <2>1, <2>2, <2>3, <2>4 DEF StateTypes, Close, CloseTo
<1>7. StackInv'
  <2>1. Window(0)' = Closed
    BY <1>5 DEF StackInv
  <2>2. ASSUME NEW n \in 1 .. N - 1
        PROVE  OwnWindow(Window(n), calls[n])' /\ (UnitOf[calls[n].inst] \in alive)'
    <3>1. n \in 1 .. N /\ calls'[n] = calls[n] /\ Window(n)' = Window(n)
      BY <1>5
    <3>2. OwnWindow(Window(n), calls[n]) /\ UnitOf[calls[n].inst] \in alive
      BY <3>1 DEF StackInv
    <3>3. suzerain' = suzerain /\ alive' = alive
      BY DEF Close, CloseTo
    <3>. QED  BY <3>1, <3>2, <3>3 DEF OwnWindow
  <2>3. \A m, n \in 1 .. N - 1 : calls'[m].inst = calls'[n].inst => m = n
    BY <1>5 DEF StackInv
  <2>. QED  BY <1>5, <2>1, <2>2, <2>3 DEF StackInv
<1>. QED  BY <1>3, <1>6, <1>7

-----------------------------------------------------------------------------
(* The balance of a unit.                                                  *)

LEMMA PendingNext ==
  ASSUME calls' \in Seq(CallType)
  PROVE  /\ \A n \in 1 .. Len(calls') : Pending'[n] = Window(n)'.delta
         /\ \A u : CallsOn(u)' =
                     {n \in 1 .. Len(calls') : UnitOf[calls'[n].inst] = u}
BY DEF Pending, Window, CallsOn

LEMMA HeldType ==
  ASSUME StateTypes
  PROVE  Held \in [Instances -> Int]
BY DEF StateTypes, Held

LEMMA HeldSame ==
  ASSUME total' = total, stranded' = stranded
  PROVE  Held' = Held
BY DEF Held

LEMMA OpenBalance ==
  ASSUME StateTypes, StateTypes', BalanceInv,
         NEW i \in Instances, NEW sign, NEW writes, Open(i, sign, writes)
  PROVE  /\ \A n \in 1 .. Len(calls) : Pending'[n] = Pending[n]
         /\ Pending'[Len(calls) + 1] = 0
         /\ BalanceInv'
<1>. DEFINE N == Len(calls)
<1>1. /\ N \in Nat /\ Len(calls') = N + 1
      /\ \A n \in 1 .. N : calls'[n] = calls[n]
      /\ calls'[N + 1].inst = i
      /\ \A n \in 0 .. N : Window(n)' = Window(n)
      /\ \A n : n = N + 1 => Window(n)'.delta = 0
  <2>1. [Closed EXCEPT !.active = i, !.captureOnly = sign < 0].delta = 0
    BY DEF Closed
  <2>. DEFINE w == [Closed EXCEPT !.active = i, !.captureOnly = sign < 0]
              c == [inst |-> i, sign |-> sign, left |-> writes, saved |-> window]
  <2>2. /\ Len(calls') = N + 1
        /\ \A n \in 1 .. N : calls'[n] = calls[n]
        /\ calls'[N + 1] = c
        /\ \A n \in 0 .. N : Window(n)' = Window(n)
        /\ \A n : n = N + 1 => Window(n)' = w
    BY Opened
  <2>3. c.inst = i /\ w.delta = 0
    BY <2>1
  <2>. HIDE DEF w, c
  <2>. QED  BY <2>2, <2>3, StackFacts
<1>2. \A n \in 1 .. N + 1 : Pending'[n] = Window(n)'.delta
  BY <1>1, PendingNext DEF StateTypes
<1>3. \A n \in 1 .. N : Pending'[n] = Pending[n] /\ Pending[n] \in Int
  BY <1>1, <1>2, StackFacts
<1>4. Pending'[N + 1] = 0
  BY <1>1, <1>2
<1>. HIDE DEF N
<1>5. ASSUME NEW u \in Units
      PROVE  strength'[u] = Sum(Held', On(u)) + Sum(Pending', CallsOn(u)')
  <2>1. strength'[u] = Sum(Held', On(u)) + Sum(Pending, CallsOn(u))
    BY HeldSame DEF BalanceInv, Open
  <2>2. IsFiniteSet(CallsOn(u)) /\ CallsOn(u) \subseteq 1 .. N
    BY FiniteIndices DEF CallsOn, N
  <2>3. Sum(Pending', CallsOn(u)) = Sum(Pending, CallsOn(u))
    BY <1>3, <2>2, SumEqual
  <2>4. CallsOn(u)' = {n \in 1 .. N + 1 : UnitOf[calls'[n].inst] = u}
    BY <1>1, PendingNext DEF StateTypes
  <2>5. CallsOn(u)' = IF UnitOf[i] = u THEN CallsOn(u) \cup {N + 1}
                      ELSE CallsOn(u)
    BY <1>1, <2>4 DEF CallsOn, N
  <2>6. Sum(Pending', CallsOn(u) \cup {N + 1}) = Sum(Pending', CallsOn(u)) + 0
    <3>1. N + 1 \notin CallsOn(u)
      BY <1>1, <2>2
    <3>2. \A n \in CallsOn(u) \cup {N + 1} : Pending'[n] \in Int
      BY <1>3, <1>4, <2>2
    <3>3. IsFiniteSet(CallsOn(u))
      BY <2>2
    <3>4. Sum(Pending', CallsOn(u) \cup {N + 1}) =
            Sum(Pending', CallsOn(u)) + Pending'[N + 1]
      BY <3>1, <3>2, <3>3, SumAdd
    <3>. QED  BY <1>4, <3>4
  <2>7. Sum(Pending', CallsOn(u)) \in Int
    BY <1>3, <2>2, SumInt
  <2>. QED  BY <2>1, <2>3, <2>5, <2>6, <2>7
<1>. QED  BY <1>3, <1>4, <1>5 DEF BalanceInv, N

LEMMA WriteHeld ==
  ASSUME StateTypes, StackInv, TemplateWrite
  PROVE  /\ Held \in [Instances -> Int]
         /\ Held' = [Held EXCEPT ![Top.inst] = @ + Handed]
<1>. DEFINE i == Top.inst
<1>1. /\ i \in Instances /\ Handed \in Int
      /\ total' = [total EXCEPT ![i] = @ + Handed]
      /\ total \in [Instances -> Int] /\ stranded \in [Instances -> Int]
      /\ stranded' = stranded
  BY WriteFacts DEF StateTypes, TemplateWrite
<1>. HIDE DEF i
<1>2. \A j \in Instances :
        total'[j] + stranded'[j] =
          IF j = i THEN total[j] + stranded[j] + Handed ELSE total[j] + stranded[j]
  BY <1>1
<1>3. Held \in [Instances -> Int] /\ Held' \in [Instances -> Int]
  BY <1>1 DEF Held
<1>4. \A j \in Instances :
        Held'[j] = IF j = i THEN Held[j] + Handed ELSE Held[j]
  BY <1>2 DEF Held
<1>5. Held' = [Held EXCEPT ![i] = @ + Handed]
  BY <1>1, <1>3, <1>4
<1>. QED  BY <1>3, <1>5 DEF i

LEMMA WriteBalance ==
  ASSUME StateTypes, StateTypes', StackInv, BalanceInv, TemplateWrite
  PROVE  /\ \A n \in 1 .. Len(calls) :
              Pending'[n] = IF n = Len(calls)
                            THEN Pending[n] + (Added - Handed)
                            ELSE Pending[n]
         /\ BalanceInv'
<1>. DEFINE N == Len(calls)
            d == Added - Handed
<1>1. /\ N \in 1 .. N /\ N \in Nat /\ Len(calls') = N
      /\ \A n \in 1 .. N : calls'[n].inst = calls[n].inst
      /\ \A n \in 0 .. N : n # N => Window(n)' = Window(n)
      /\ \A n : n = N => Window(n)' = window'
  BY Written, StackFacts DEF CallType
<1>2. /\ Added \in Int /\ Handed \in Int /\ window.delta \in Int
      /\ window'.delta = window.delta + Added - Handed
  BY WriteFacts DEF StateTypes, WindowType
<1>3. \A n \in 1 .. N : Pending'[n] = Window(n)'.delta
  BY <1>1, PendingNext DEF StateTypes
<1>4. \A n \in 1 .. N : Pending[n] \in Int /\ Pending[n] = Window(n).delta
  BY StackFacts
<1>5. Window(N) = window
  BY DEF Window
<1>6. ASSUME NEW n \in 1 .. N
      PROVE  Pending'[n] = IF n = N THEN Pending[n] + d ELSE Pending[n]
  BY <1>1, <1>2, <1>3, <1>4, <1>5
<1>7. calls[N] = Top
  BY DEF Top
<1>. HIDE DEF N
<1>8. ASSUME NEW u \in Units
      PROVE  strength'[u] = Sum(Held', On(u)) + Sum(Pending', CallsOn(u)')
  <2>. DEFINE i == Top.inst
  <2>1. /\ i \in Instances /\ Held \in [Instances -> Int]
        /\ Held' = [Held EXCEPT ![i] = @ + Handed]
        /\ strength \in [Units -> Int]
        /\ strength' = [strength EXCEPT ![UnitOf[i]] = @ + Added]
    BY WriteFacts, WriteHeld DEF StateTypes
  <2>2. /\ IsFiniteSet(CallsOn(u)) /\ CallsOn(u) \subseteq 1 .. N
        /\ IsFiniteSet(On(u)) /\ On(u) \subseteq Instances
    BY FiniteIndices DEF CallsOn, On, N
  <2>3. CallsOn(u)' = CallsOn(u)
    BY <1>1, PendingNext DEF StateTypes, CallsOn, N
  <2>4. Sum(Held', On(u)) =
           Sum(Held, On(u)) + (IF i \in On(u) THEN Handed ELSE 0)
    <3>1. /\ \A j \in On(u) : Held[j] \in Int
          /\ \A j \in On(u) : Held'[j] = IF j = i THEN Held[j] + Handed
                                         ELSE Held[j]
      BY <2>1, <2>2
    <3>2. Handed \in Int /\ IsFiniteSet(On(u))
      BY <1>2, <2>2
    <3>. HIDE DEF i
    <3>. QED  BY <3>1, <3>2, SumChange
  <2>5. Sum(Pending', CallsOn(u)) =
           Sum(Pending, CallsOn(u)) + (IF N \in CallsOn(u) THEN d ELSE 0)
    <3>1. /\ \A n \in CallsOn(u) : Pending[n] \in Int /\ d \in Int
          /\ \A n \in CallsOn(u) : Pending'[n] = IF n = N THEN Pending[n] + d
                                                 ELSE Pending[n]
      BY <1>2, <1>4, <1>6, <2>2
    <3>2. d \in Int
      BY <1>2
    <3>. HIDE DEF d
    <3>. QED  BY <2>2, <3>1, <3>2, SumChange
  <2>6. (N \in CallsOn(u) <=> UnitOf[i] = u) /\ (i \in On(u) <=> UnitOf[i] = u)
    BY <1>1, <1>7, <2>1 DEF CallsOn, On, N
  <2>7. strength[u] = Sum(Held, On(u)) + Sum(Pending, CallsOn(u))
    BY DEF BalanceInv
  <2>8. Sum(Held, On(u)) \in Int /\ Sum(Pending, CallsOn(u)) \in Int
    <3>1. \A j \in On(u) : Held[j] \in Int
      BY <2>1, <2>2
    <3>2. \A n \in CallsOn(u) : Pending[n] \in Int
      BY <1>4, <2>2
    <3>. QED  BY <2>2, <3>1, <3>2, SumInt
  <2>9. strength'[u] = strength[u] + (IF UnitOf[i] = u THEN Added ELSE 0)
    BY <2>1, ParametersAssumption
  <2>. HIDE DEF i
  <2>. QED  BY <1>2, <2>3, <2>4, <2>5, <2>6, <2>7, <2>8, <2>9
<1>. QED  BY <1>6, <1>8 DEF BalanceInv, N

\* Closing settles what is pending of the call.
LEMMA CloseBalance ==
  ASSUME StateTypes, StateTypes', StackInv, BalanceInv, Close
  PROVE  /\ \A n \in 1 .. Len(calls) - 1 : Pending'[n] = Pending[n]
         /\ Held' = [Held EXCEPT ![Top.inst] = @ + Pending[Len(calls)]]
         /\ BalanceInv'
<1>. DEFINE N == Len(calls)
            i == Top.inst
            d == Pending[N]
<1>1. /\ N \in 1 .. N /\ N \in Nat /\ Len(calls') = N - 1
      /\ \A n \in 1 .. N - 1 : calls'[n] = calls[n]
      /\ \A n \in 0 .. N - 1 : Window(n)' = Window(n)
  BY ClosedTop, StackFacts
<1>2. \A n \in 1 .. N : Pending[n] \in Int /\ Pending[n] = Window(n).delta
  BY StackFacts
<1>3. \A n \in 1 .. N - 1 : Pending'[n] = Window(n)'.delta
  BY <1>1, PendingNext DEF StateTypes
<1>4. \A n \in 1 .. N - 1 : Pending'[n] = Pending[n] /\ Pending[n] \in Int
  BY <1>1, <1>2, <1>3
<1>5. /\ d = window.delta /\ d \in Int
      /\ calls[N] = Top /\ i \in Instances
  <2>1. d = window.delta /\ d \in Int
    BY <1>1, <1>2 DEF Window
  <2>2. calls[N] = Top /\ Top \in CallType
    BY <1>1, StackFacts DEF Top
  <2>. QED  BY <2>1, <2>2 DEF CallType
<1>6. Held \in [Instances -> Int] /\ Held' = [Held EXCEPT ![i] = @ + d]
  BY <1>5, CloseHeld
<1>. HIDE DEF N, i, d
<1>7. ASSUME NEW u \in Units
      PROVE  strength'[u] = Sum(Held', On(u)) + Sum(Pending', CallsOn(u)')
  <2>2. /\ IsFiniteSet(CallsOn(u)) /\ CallsOn(u) \subseteq 1 .. N
        /\ IsFiniteSet(On(u)) /\ On(u) \subseteq Instances
    BY FiniteIndices DEF CallsOn, On, N
  <2>3. CallsOn(u)' = CallsOn(u) \ {N}
    <3>1. CallsOn(u)' = {n \in 1 .. N - 1 : UnitOf[calls'[n].inst] = u}
      BY <1>1, PendingNext DEF StateTypes
    <3>. QED  BY <1>1, <3>1 DEF CallsOn, N
  <2>4. Sum(Held', On(u)) = Sum(Held, On(u)) + (IF i \in On(u) THEN d ELSE 0)
    <3>1. /\ \A j \in On(u) : Held[j] \in Int
          /\ \A j \in On(u) : Held'[j] = IF j = i THEN Held[j] + d
                                         ELSE Held[j]
      BY <1>5, <1>6, <2>2
    <3>2. d \in Int /\ IsFiniteSet(On(u))
      BY <1>5, <2>2
    <3>. QED  BY <3>1, <3>2, SumChange
  <2>5. CallsOn(u) \ {N} \subseteq 1 .. N - 1
    BY <1>1, <2>2
  <2>6. Sum(Pending', CallsOn(u) \ {N}) = Sum(Pending, CallsOn(u) \ {N})
    BY <1>4, <2>2, <2>5, SumEqual, FS_Subset
  <2>7. \A n \in CallsOn(u) : Pending[n] \in Int
    BY <1>2, <2>2 DEF N
  <2>8. Sum(Pending, CallsOn(u)) =
           Sum(Pending, CallsOn(u) \ {N}) + (IF N \in CallsOn(u) THEN d ELSE 0)
    <3>1. Sum(Pending, CallsOn(u) \ {N}) \in Int
      BY <2>2, <2>7, SumInt, FS_Subset
    <3>2. CASE N \in CallsOn(u)
      BY <3>1, <3>2, <1>5, <2>2, <2>7, SumRemove DEF d
    <3>3. CASE N \notin CallsOn(u)
      <4>1. CallsOn(u) \ {N} = CallsOn(u)
        BY <3>3
      <4>. QED  BY <3>1, <3>3, <4>1
    <3>. QED  BY <3>2, <3>3
  <2>9. (N \in CallsOn(u) <=> UnitOf[i] = u) /\ (i \in On(u) <=> UnitOf[i] = u)
    BY <1>1, <1>5 DEF CallsOn, On, N, i
  <2>10. strength'[u] = Sum(Held, On(u)) + Sum(Pending, CallsOn(u))
    BY DEF BalanceInv, Close, CloseTo
  <2>11. Sum(Held, On(u)) \in Int /\ Sum(Pending, CallsOn(u) \ {N}) \in Int
    <3>1. \A j \in On(u) : Held[j] \in Int
      BY <1>6, <2>2
    <3>. QED  BY <2>2, <2>7, <3>1, SumInt, FS_Subset
  <2>. QED
    BY <1>5, <2>3, <2>4, <2>6, <2>8, <2>9, <2>10, <2>11
<1>. QED  BY <1>4, <1>6, <1>7 DEF BalanceInv, N, i, d

-----------------------------------------------------------------------------
(* The only instance of a unit.                                            *)

LEMMA OpenSole ==
  ASSUME StateTypes, StateTypes', BalanceInv, SoleInv,
         NEW i \in Instances, NEW sign, NEW writes, Open(i, sign, writes)
  PROVE  SoleInv'
<1>. DEFINE N == Len(calls)
<1>1. /\ N \in Nat /\ Len(calls') = N + 1
      /\ \A n \in 1 .. N : calls'[n] = calls[n]
      /\ calls'[N + 1].inst = i
      /\ \A n \in 1 .. N : Pending'[n] = Pending[n]
      /\ Pending'[N + 1] = 0
      /\ DOMAIN calls = 1 .. N /\ DOMAIN calls' = 1 .. N + 1
  <2>1. DOMAIN calls' = 1 .. Len(calls')
    BY DEF StateTypes
  <2>. DEFINE c == [inst |-> i, sign |-> sign, left |-> writes, saved |-> window]
  <2>2. /\ Len(calls') = N + 1 /\ calls'[N + 1] = c
        /\ \A n \in 1 .. N : calls'[n] = calls[n]
    BY Opened
  <2>3. c.inst = i
    OBVIOUS
  <2>. HIDE DEF c
  <2>. QED  BY <2>1, <2>2, <2>3, OpenBalance, StackFacts
<1>2. /\ Held' = Held /\ due' = due /\ ~ Running(i)
      /\ Held \in [Instances -> Int]
  BY HeldSame, HeldType DEF Open
<1>. HIDE DEF N
<1>3. \A j \in Instances : Running(j) => Running(j)'
  BY <1>1 DEF Running
<1>4. ASSUME NEW j \in Instances, On(UnitOf[j]) = {j}
      PROVE  /\ Even(j)'
             /\ \A n \in 1 .. N + 1 :
                  calls'[n].inst = j => Held'[j] + Pending'[n] = due'[j]
  <2>1. /\ Even(j)
        /\ \A n \in 1 .. N : calls[n].inst = j => Held[j] + Pending[n] = due[j]
    BY <1>4 DEF SoleInv, N
  <2>2. Even(j)'
    BY <1>2, <1>3, <2>1 DEF Even
  <2>3. ASSUME NEW n \in 1 .. N + 1, calls'[n].inst = j
        PROVE  Held'[j] + Pending'[n] = due'[j]
    <3>1. CASE n \in 1 .. N
      BY <1>1, <1>2, <2>1, <2>3, <3>1
    <3>2. CASE n = N + 1
      <4>1. j = i /\ Held[j] = due[j] /\ Held[j] \in Int
        BY <1>1, <1>2, <2>1, <2>3, <3>2 DEF Even
      <4>. QED  BY <1>1, <1>2, <3>2, <4>1
    <3>. QED  BY <1>1, <3>1, <3>2
  <2>. QED  BY <2>2, <2>3
<1>. QED  BY <1>1, <1>4 DEF SoleInv

LEMMA WriteSole ==
  ASSUME StateTypes, StateTypes', StackInv, EntryInv, BalanceInv, SoleInv,
         TemplateWrite
  PROVE  SoleInv'
<1>. DEFINE N == Len(calls)
            i == Top.inst
<1>1. /\ N \in 1 .. N /\ N \in Nat /\ Len(calls') = N
      /\ \A n \in 1 .. N : calls'[n].inst = calls[n].inst
      /\ \A n \in 1 .. N : Pending'[n] = IF n = N
                                        THEN Pending[n] + (Added - Handed)
                                        ELSE Pending[n]
      /\ \A n \in 1 .. N : Pending[n] \in Int
      /\ DOMAIN calls = 1 .. N /\ DOMAIN calls' = 1 .. N
  <2>1. DOMAIN calls' = 1 .. Len(calls')
    BY DEF StateTypes
  <2>. QED  BY <2>1, Written, WriteBalance, StackFacts DEF CallType
<1>2. /\ i \in Instances /\ Top \in CallType /\ OwnWindow(window, Top)
      /\ OwnWindow(window', [Top EXCEPT !.left = @ - 1])
      /\ Added \in Int /\ Handed \in Int
      /\ Held' = [Held EXCEPT ![i] = @ + Handed]
      /\ calls[N] = Top /\ window \in WindowType
  BY WriteFacts, WriteHeld DEF Top, StateTypes
<1>3. /\ Held \in [Instances -> Int] /\ due \in [Instances -> Int]
      /\ due' = [due EXCEPT ![i] = due'[i]]
      /\ total \in [Instances -> Int] /\ stranded \in [Instances -> Int]
      /\ Held[i] = total[i] + stranded[i]
  <2>1. \E x : due' = [due EXCEPT ![i] = x]
    BY DEF TemplateWrite
  <2>2. due \in [Instances -> Int] /\ i \in Instances
    BY <1>2 DEF StateTypes
  <2>3. due' = [due EXCEPT ![i] = due'[i]]
    BY <2>1, <2>2
  <2>. QED  BY <1>2, <2>3, HeldType DEF StateTypes, Held
<1>4. Pending[N] = window.delta /\ Pending'[N] = window'.delta
  <2>1. Pending[N] = Window(N).delta /\ Window(N) = window
    BY <1>1, StackFacts DEF Window
  <2>2. window'.delta = window.delta + Added - Handed
        /\ window.delta \in Int
    BY WriteFacts DEF WindowType, StateTypes
  <2>. QED  BY <1>1, <1>2, <2>1, <2>2
<1>5. \A n \in 1 .. N : calls[n].inst = i => n = N
  BY <1>1, <1>2 DEF StackInv
<1>6. \A j : Running(j)' <=> Running(j)
  BY <1>1 DEF Running
<1>7. Running(i)
  BY <1>1, <1>2 DEF Running
<1>8. ASSUME On(UnitOf[i]) = {i} PROVE Held'[i] + Pending'[N] = due'[i]
  <2>1. CASE Top.sign < 0
    <3>1. Held'[i] = stranded[i] /\ due'[i] = stranded[i]
      <4>1. Handed = -total[i]
        BY <2>1 DEF Handed
      <4>2. due'[i] = stranded[i]
        BY <1>2, <1>3, <2>1, WriteFacts
      <4>3. Held'[i] = Held[i] + Handed
        BY <1>2, <1>3
      <4>4. total[i] \in Int /\ stranded[i] \in Int
        BY <1>2, <1>3
      <4>. HIDE DEF i
      <4>. QED  BY <1>3, <4>1, <4>2, <4>3, <4>4
    <3>2. window'.delta = 0
      <4>1. [Top EXCEPT !.left = @ - 1].sign < 0
        BY <1>2, <2>1 DEF CallType
      <4>2. window'.captureOnly /\ (window'.captureOnly => window'.delta = 0)
        BY <4>1, <1>2 DEF OwnWindow
      <4>. QED  BY <4>2
    <3>3. stranded[i] \in Int
      BY <1>2, <1>3
    <3>. QED  BY <1>4, <3>1, <3>2, <3>3
  <2>2. CASE ~ (Top.sign < 0)
    <3>1. Handed = AmountOf[i]
      BY <2>2 DEF Handed
    <3>2. due'[i] = due[i] + Added
      <4>1. Top.sign = 1
        BY <1>2, <2>2 DEF CallType
      <4>2. due' = [due EXCEPT ![i] = @ + Added]
        BY <1>8, <4>1, WriteFacts
      <4>. QED  BY <1>2, <1>3, <4>2
    <3>3. Held[i] + Pending[N] = due[i]
      BY <1>1, <1>2, <1>8 DEF SoleInv
    <3>4. /\ Held'[i] = Held[i] + Handed
          /\ Pending'[N] = Pending[N] + (Added - Handed)
          /\ Pending[N] \in Int /\ Held[i] \in Int
      BY <1>1, <1>2, <1>3, <2>2
    <3>. HIDE DEF i, N
    <3>. QED  BY <1>2, <3>2, <3>3, <3>4
  <2>. QED  BY <2>1, <2>2
<1>. HIDE DEF N, i
<1>9. ASSUME NEW j \in Instances, On(UnitOf[j]) = {j}
      PROVE  /\ Even(j)'
             /\ \A n \in 1 .. N :
                  calls'[n].inst = j => Held'[j] + Pending'[n] = due'[j]
  <2>1. CASE j = i
    BY <1>1, <1>5, <1>6, <1>7, <1>8, <1>9, <2>1 DEF Even
  <2>2. CASE j # i
    <3>1. Held'[j] = Held[j] /\ due'[j] = due[j]
      BY <1>2, <1>3, <2>2
    <3>2. ASSUME NEW n \in 1 .. N, calls'[n].inst = j
          PROVE  calls[n].inst = j /\ Pending'[n] = Pending[n]
      <4>1. calls[n].inst = j /\ calls[N].inst = i
        BY <1>1, <1>2, <3>2 DEF i
      <4>2. n # N
        BY <4>1, <2>2
      <4>. QED  BY <4>1, <4>2, <1>1
    <3>. QED  BY <1>6, <1>9, <3>1, <3>2 DEF SoleInv, Even, N
  <2>. QED  BY <2>1, <2>2
<1>. QED  BY <1>1, <1>9 DEF SoleInv

LEMMA CloseSole ==
  ASSUME StateTypes, StateTypes', StackInv, BalanceInv, SoleInv, Close
  PROVE  SoleInv'
<1>. DEFINE N == Len(calls)
            i == Top.inst
<1>1. /\ N \in 1 .. N /\ N \in Nat /\ Len(calls') = N - 1
      /\ \A n \in 1 .. N - 1 : calls'[n] = calls[n]
      /\ \A n \in 1 .. N - 1 : Pending'[n] = Pending[n]
      /\ Held' = [Held EXCEPT ![i] = @ + Pending[N]]
      /\ DOMAIN calls = 1 .. N /\ DOMAIN calls' = 1 .. N - 1
      /\ calls[N].inst = i
  <2>1. DOMAIN calls' = 1 .. Len(calls')
    BY DEF StateTypes
  <2>. QED  BY <2>1, ClosedTop, CloseBalance, StackFacts DEF Top
<1>2. Held \in [Instances -> Int] /\ due' = due
  BY HeldType DEF Close, CloseTo
<1>3. \A n \in 1 .. N - 1 : calls[n].inst # i
  BY <1>1 DEF StackInv
<1>. HIDE DEF N, i
<1>4. ASSUME NEW j \in Instances, On(UnitOf[j]) = {j}
      PROVE  /\ Even(j)'
             /\ \A n \in 1 .. N - 1 :
                  calls'[n].inst = j => Held'[j] + Pending'[n] = due'[j]
  <2>1. /\ Even(j)
        /\ \A n \in 1 .. N : calls[n].inst = j => Held[j] + Pending[n] = due[j]
    BY <1>4 DEF SoleInv, N
  <2>2. CASE j = i
    <3>1. Held'[j] = due'[j]
      BY <1>1, <1>2, <2>1, <2>2
    <3>. QED  BY <1>1, <1>3, <2>2, <3>1 DEF Even
  <2>3. CASE j # i
    <3>1. Held'[j] = Held[j]
      BY <1>1, <1>2, <2>3
    <3>2. Running(j) => Running(j)'
      <4>1. ASSUME NEW n \in 1 .. N, calls[n].inst = j
            PROVE  n \in 1 .. N - 1
        BY <1>1, <2>3, <4>1
      <4>. QED  BY <1>1, <4>1 DEF Running
    <3>. QED  BY <1>1, <1>2, <2>1, <3>1, <3>2 DEF Even
  <2>. QED  BY <2>2, <2>3
<1>. QED  BY <1>1, <1>4 DEF SoleInv

-----------------------------------------------------------------------------
(* The engine's steps, which come between the calls.                       *)

LEMMA IdleNext ==
  ASSUME StateTypes, StackInv, BalanceInv, SoleInv,
         calls = <<>>, calls' = <<>>, window' \in {window, Closed},
         suzerain' \in Counts \cup {-1}
  PROVE  /\ window' = Closed /\ StackInv'
         /\ \A u \in Units : strength[u] = Sum(Held, On(u))
         /\ \A i \in Instances : On(UnitOf[i]) = {i} => Held[i] = due[i]
         /\ (\A u \in Units : /\ strength'[u] = Sum(Held', On(u))
                                /\ strength'[u] \in Int) => BalanceInv'
         /\ (\A i \in Instances : On(UnitOf[i]) = {i} => Held'[i] = due'[i])
              => SoleInv'
<1>1. Len(calls) = 0 /\ Len(calls') = 0 /\ DOMAIN calls = {} /\ DOMAIN calls' = {}
  OBVIOUS
<1>2. window = Closed /\ window' = Closed
  BY <1>1 DEF StackInv, Window
<1>3. StackInv'
  BY <1>1, <1>2 DEF StackInv, Window
<1>4. \A u : CallsOn(u) = {} /\ CallsOn(u)' = {}
  BY <1>1 DEF CallsOn
<1>5. \A u \in Units : strength[u] = Sum(Held, On(u))
  <2>1. ASSUME NEW u \in Units PROVE strength[u] = Sum(Held, On(u))
    <3>1. Sum(Held, On(u)) \in Int
      BY FiniteIndices, HeldType, SumInt DEF On
    <3>2. Sum(Pending, CallsOn(u)) = 0
      BY <1>4, SumEmpty
    <3>. QED  BY <3>1, <3>2 DEF BalanceInv
  <2>. QED  BY <2>1
<1>6. \A i \in Instances : ~ Running(i) /\ ~ Running(i)'
  BY <1>1 DEF Running
<1>7. \A i \in Instances : On(UnitOf[i]) = {i} => Held[i] = due[i]
  BY <1>6 DEF SoleInv, Even
<1>8. ASSUME \A u \in Units : /\ strength'[u] = Sum(Held', On(u))
                               /\ strength'[u] \in Int
      PROVE  BalanceInv'
  <2>1. ASSUME NEW u \in Units
        PROVE  strength'[u] = Sum(Held', On(u)) + Sum(Pending', CallsOn(u)')
    <3>1. Sum(Pending', CallsOn(u)') = 0
      BY <1>4, SumEmpty
    <3>. QED  BY <1>8, <3>1
  <2>. QED  BY <2>1 DEF BalanceInv
<1>9. ASSUME \A i \in Instances : On(UnitOf[i]) = {i} => Held'[i] = due'[i]
      PROVE  SoleInv'
  BY <1>1, <1>6, <1>9 DEF SoleInv, Even
<1>. QED  BY <1>2, <1>3, <1>5, <1>7, <1>8, <1>9

\* Forgetting the effect objects of some units leaves the others' totals.
LEMMA ForgetSum ==
  ASSUME NEW f \in [Instances -> Int], NEW us
  PROVE  /\ Forget(us, f) \in [Instances -> Int]
         /\ \A u : Sum(Forget(us, f), On(u)) = IF u \in us THEN 0
                                               ELSE Sum(f, On(u))
<1>. DEFINE g == Forget(us, f)
<1>1. g \in [Instances -> Int]
  BY DEF Forget
<1>2. ASSUME NEW u
      PROVE  Sum(g, On(u)) = IF u \in us THEN 0 ELSE Sum(f, On(u))
  <2>1. IsFiniteSet(On(u))
    BY FS_Subset, ParametersAssumption DEF On
  <2>2. CASE u \in us
    <3>1. \A i \in On(u) : g[i] = 0
      BY <2>2 DEF Forget, On
    <3>. HIDE DEF g
    <3>. QED  BY <2>1, <2>2, <3>1, SumZero
  <2>3. CASE u \notin us
    <3>1. \A i \in On(u) : g[i] = f[i]
      BY <2>3 DEF Forget, On
    <3>. HIDE DEF g
    <3>. QED  BY <2>1, <2>3, <3>1, SumEqual
  <2>. QED  BY <2>2, <2>3
<1>. QED  BY <1>1, <1>2

LEMMA ForgetApplies ==
  ASSUME applies \in [Instances -> 0 .. MaxApplies], NEW us
  PROVE  Forget(us, applies) \in [Instances -> 0 .. MaxApplies]
BY ParametersAssumption DEF Forget

LEMMA ForgetHeld ==
  ASSUME StateTypes, NEW us, total' = Forget(us, total),
         stranded' = Forget(us, stranded)
  PROVE  /\ Held \in [Instances -> Int] /\ Held' = Forget(us, Held)
         /\ stranded' \in [Instances -> Int]
<1>1. total \in [Instances -> Int] /\ stranded \in [Instances -> Int]
  BY DEF StateTypes
<1>2. ASSUME NEW i \in Instances PROVE Held'[i] = Forget(us, Held)[i]
  <2>1. /\ Held'[i] = total'[i] + stranded'[i]
        /\ Held[i] = total[i] + stranded[i]
    BY DEF Held
  <2>. QED  BY <1>1, <2>1 DEF Forget
<1>3. Held' = Forget(us, Held)
  BY <1>2 DEF Held, Forget
<1>. QED  BY <1>1, <1>3, HeldType, ForgetSum

LEMMA EngineKeeps ==
  ASSUME IInv,
         \/ Refuse
         \/ \E n \in Counts \cup {-1} : Influence(n)
         \/ \E u \in Units : CreateUnit(u) \/ DestroyUnit(u)
         \/ \E h \in BOOLEAN : ChangeContext(h)
  PROVE  IInv'
<1>. USE DEF IInv
<1>1. ASSUME NEW n \in Counts \cup {-1}, Influence(n) PROVE IInv'
  <2>1. StateTypes' /\ EntryInv'
    BY <1>1 DEF Influence, StateTypes, EntryInv
  <2>2. StackInv' /\ BalanceInv' /\ SoleInv'
    BY <1>1, <2>1, IdleNext, HeldSame DEF Influence, StateTypes
  <2>. QED  BY <2>1, <2>2
<1>2. ASSUME NEW u \in Units, CreateUnit(u) PROVE IInv'
  <2>1. InSync(u, NewUnit)
    <3>1. (DOMAIN [i \in {} |-> 0]) = {} /\ [i \in {} |-> 0] \in [{} -> Int]
      OBVIOUS
    <3>2. [i \in {} |-> 0] \in UNION {[is -> Int] : is \in SUBSET Instances}
      BY <3>1
    <3>3. NewUnit.instances = [i \in {} |-> 0] /\ NewUnit.strength = 0
      BY DEF NewUnit
    <3>4. NewUnit \in UnitExtra
      BY <3>2 DEF UnitExtra, NewUnit
    <3>. QED  BY <3>1, <3>3, <3>4, SumEmpty DEF InSync
  <2>2. \/ entry' = entry
        \/ entry' = [entry EXCEPT ![u] = NewUnit]
    BY <1>2 DEF CreateUnit
  <2>3. StateTypes'
    <3>. HIDE DEF NewUnit
    <3>. QED  BY <1>2, <2>1, <2>2 DEF InSync, CreateUnit, StateTypes
  <2>4. EntryInv'
    <3>1. alive' = alive \cup {u}
      BY <1>2 DEF CreateUnit
    <3>2. CASE entry' = entry
      BY <3>1, <3>2 DEF EntryInv
    <3>3. CASE entry' = [entry EXCEPT ![u] = NewUnit]
      <4>1. \A v \in Units : entry'[v] = IF v = u THEN NewUnit ELSE entry[v]
        BY <3>3 DEF StateTypes
      <4>. QED  BY <3>1, <4>1, <2>1 DEF InSync, EntryInv
    <3>. QED  BY <2>2, <3>2, <3>3
  <2>5. StackInv' /\ BalanceInv' /\ SoleInv'
    BY <1>2, <2>3, IdleNext, HeldSame DEF CreateUnit, StateTypes
  <2>. QED  BY <2>3, <2>4, <2>5
<1>3. ASSUME NEW u \in Units, DestroyUnit(u) PROVE IInv'
  <2>1. /\ total \in [Instances -> Int] /\ due \in [Instances -> Int]
        /\ applies \in [Instances -> 0 .. MaxApplies]
        /\ strength \in [Units -> Int]
        /\ calls = <<>> /\ calls' = <<>> /\ window' = window
        /\ suzerain' = suzerain /\ suzerain \in Counts \cup {-1}
        /\ total' = Forget({u}, total) /\ due' = Forget({u}, due)
        /\ stranded' = Forget({u}, stranded)
        /\ applies' = Forget({u}, applies)
        /\ strength' = [strength EXCEPT ![u] = 0]
        /\ entry' = [entry EXCEPT ![u] = Nil]
        /\ alive' = alive \ {u}
    BY <1>3 DEF DestroyUnit, StateTypes
  <2>0. Held \in [Instances -> Int] /\ Held' = Forget({u}, Held)
        /\ stranded' \in [Instances -> Int]
    BY <2>1, ForgetHeld
  <2>2. /\ total' \in [Instances -> Int] /\ due' \in [Instances -> Int]
        /\ applies' \in [Instances -> 0 .. MaxApplies]
        /\ strength' \in [Units -> Int]
    <3>1. strength' \in [Units -> Int]
      BY <2>1
    <3>2. /\ Forget({u}, total) \in [Instances -> Int]
          /\ Forget({u}, due) \in [Instances -> Int]
          /\ Forget({u}, applies) \in [Instances -> 0 .. MaxApplies]
      BY <2>1, ForgetSum, ForgetApplies
    <3>. QED  BY <2>1, <3>1, <3>2
  <2>3. StateTypes'
    <3>1. entry' \in [Units -> UnitExtra \cup {Nil}]
      BY <2>1 DEF StateTypes
    <3>. QED  BY <1>3, <2>0, <2>1, <2>2, <3>1 DEF StateTypes, DestroyUnit
  <2>4. EntryInv'
    <3>1. \A v \in Units : entry'[v] = IF v = u THEN Nil ELSE entry[v]
      BY <2>1 DEF StateTypes
    <3>. QED  BY <2>1, <3>1 DEF EntryInv
  <2>5. /\ StackInv'
        /\ \A v \in Units : strength[v] = Sum(Held, On(v))
        /\ \A i \in Instances : On(UnitOf[i]) = {i} => Held[i] = due[i]
        /\ (\A v \in Units : /\ strength'[v] = Sum(Held', On(v))
                             /\ strength'[v] \in Int) => BalanceInv'
        /\ (\A i \in Instances : On(UnitOf[i]) = {i} => Held'[i] = due'[i])
             => SoleInv'
    BY <2>1, IdleNext
  <2>6. ASSUME NEW v \in Units PROVE strength'[v] = Sum(Held', On(v))
    <3>1. Sum(Held', On(v)) = IF v \in {u} THEN 0 ELSE Sum(Held, On(v))
      <4>1. \A w : Sum(Forget({u}, Held), On(w)) =
                     IF w \in {u} THEN 0 ELSE Sum(Held, On(w))
        BY <2>0, ForgetSum
      <4>. QED  BY <2>0, <4>1
    <3>2. strength'[v] = IF v \in {u} THEN 0 ELSE strength[v]
      BY <2>1
    <3>. QED  BY <2>5, <3>1, <3>2
  <2>7. ASSUME NEW i \in Instances, On(UnitOf[i]) = {i}
        PROVE  Held'[i] = due'[i]
    BY <2>0, <2>1, <2>5, <2>7 DEF Forget
  <2>. QED  BY <2>2, <2>3, <2>4, <2>5, <2>6, <2>7
<1>4. ASSUME NEW h \in BOOLEAN, ChangeContext(h) PROVE IInv'
  <2>1. /\ total \in [Instances -> Int] /\ due \in [Instances -> Int]
        /\ applies \in [Instances -> 0 .. MaxApplies]
        /\ calls = <<>> /\ calls' = <<>> /\ window' = Closed
        /\ suzerain' = suzerain /\ suzerain \in Counts \cup {-1}
        /\ total' = Forget(Units, total) /\ due' = Forget(Units, due)
        /\ stranded' = Forget(Units, stranded)
        /\ applies' = Forget(Units, applies)
        /\ strength' = [u \in Units |-> 0]
        /\ entry' = [u \in Units |-> Nil]
        /\ alive' = {} /\ installed' = h
    BY <1>4 DEF ChangeContext, StateTypes
  <2>0. Held \in [Instances -> Int] /\ Held' = Forget(Units, Held)
        /\ stranded' \in [Instances -> Int]
    BY <2>1, ForgetHeld
  <2>2. /\ total' \in [Instances -> Int] /\ due' \in [Instances -> Int]
        /\ applies' \in [Instances -> 0 .. MaxApplies]
    BY <2>1, ForgetSum, ForgetApplies
  <2>3. StateTypes'
    <3>1. window' \in WindowType
      BY <2>1, IdleNext DEF Closed, WindowType
    <3>2. calls' \in Seq(CallType) /\ Len(calls') <= MaxNesting
      BY <2>1, ParametersAssumption
    <3>3. faults' = faults
      BY <1>4 DEF ChangeContext
    <3>. QED  BY <2>0, <2>1, <2>2, <3>1, <3>2, <3>3 DEF StateTypes
  <2>4. EntryInv'
    BY <2>1 DEF EntryInv
  <2>5. /\ StackInv'
        /\ (\A v \in Units : /\ strength'[v] = Sum(Held', On(v))
                             /\ strength'[v] \in Int) => BalanceInv'
        /\ (\A i \in Instances : On(UnitOf[i]) = {i} => Held'[i] = due'[i])
             => SoleInv'
    BY <2>1, IdleNext
  <2>6. ASSUME NEW v \in Units
        PROVE  strength'[v] = Sum(Held', On(v)) /\ strength'[v] \in Int
    <3>1. \A w : Sum(Forget(Units, Held), On(w)) =
                   IF w \in Units THEN 0 ELSE Sum(Held, On(w))
      BY <2>0, ForgetSum
    <3>. QED  BY <2>0, <2>1, <3>1
  <2>7. ASSUME NEW i \in Instances PROVE Held'[i] = due'[i]
    BY <2>0, <2>1, ParametersAssumption DEF Forget
  <2>. QED  BY <2>3, <2>4, <2>5, <2>6, <2>7
<1>5. CASE Refuse
  <2>1. StateTypes' /\ EntryInv'
    BY <1>5, FailingBound DEF Refuse, StateTypes, EntryInv
  <2>2. StackInv' /\ BalanceInv' /\ SoleInv'
    <3>1. /\ Pending' = Pending /\ \A n : Window(n)' = Window(n)
          /\ \A u : CallsOn(u)' = CallsOn(u)
          /\ Held' = Held
      BY <1>5 DEF Refuse, Pending, Window, CallsOn, Held
    <3>2. StackInv'
      BY <1>5, <3>1 DEF Refuse, StackInv, OwnWindow
    <3>3. BalanceInv' /\ SoleInv'
      BY <1>5, <3>1 DEF Refuse, BalanceInv, SoleInv, Even, Running
    <3>. QED  BY <3>2, <3>3
  <2>. QED  BY <2>1, <2>2
<1>. QED  BY <1>1, <1>2, <1>3, <1>4, <1>5

-----------------------------------------------------------------------------
(* The theorems.                                                           *)

\* An Apply finds room for one more in the count of its instance.
LEMMA AppliesBound ==
  ASSUME StateTypes, NEW i \in Instances
  PROVE  /\ MapThenSumSet(LAMBDA j : applies[j], Instances) < MaxApplies
              => [applies EXCEPT ![i] = @ + 1] \in [Instances -> 0 .. MaxApplies]
         /\ [applies EXCEPT ![i] = 0] \in [Instances -> 0 .. MaxApplies]
<1>1. MapThenSumSet(LAMBDA j : applies[j], Instances) = Sum(applies, Instances)
  BY DEF Sum
<1>2. \A j \in Instances : applies[j] \in Nat
  BY ParametersAssumption DEF StateTypes
<1>3. Sum(applies, Instances) \in Nat /\ applies[i] <= Sum(applies, Instances)
  BY <1>2, SumNat, ParametersAssumption
<1>. QED  BY <1>1, <1>2, <1>3, ParametersAssumption DEF StateTypes

LEMMA OpenKeeps ==
  ASSUME IInv, NEW i \in Instances, NEW sign \in {-1, 1},
         NEW writes \in 1 .. MaxWrites, Open(i, sign, writes),
         applies' \in [Instances -> 0 .. MaxApplies]
  PROVE  IInv'
<1>1. StateTypes' /\ StackInv'
  BY OpenStack DEF IInv
<1>2. EntryInv'
  BY DEF IInv, EntryInv, Open
<1>. QED  BY <1>1, <1>2, OpenBalance, OpenSole DEF IInv

LEMMA InitInv == Init => IInv
<1>. SUFFICES ASSUME Init PROVE IInv
  OBVIOUS
<1>1. /\ Len(calls) = 0 /\ DOMAIN calls = {} /\ window = Closed
      /\ total = [i \in Instances |-> 0] /\ due = total
      /\ stranded = total
      /\ strength = [u \in Units |-> 0] /\ calls = <<>>
  BY DEF Init
<1>2. StateTypes
  <2>1. window \in WindowType
    BY <1>1 DEF Closed, WindowType
  <2>2. calls \in Seq(CallType) /\ Len(calls) <= MaxNesting
    BY <1>1, ParametersAssumption
  <2>3. applies \in [Instances -> 0 .. MaxApplies]
    BY ParametersAssumption DEF Init
  <2>4. /\ total \in [Instances -> Int] /\ due \in [Instances -> Int]
        /\ stranded \in [Instances -> Int] /\ faults \in 0 .. MaxFaults
        /\ strength \in [Units -> Int]
    BY <1>1, ParametersAssumption DEF Init
  <2>5. /\ alive \subseteq Units /\ suzerain \in Counts \cup {-1}
        /\ installed \in BOOLEAN
        /\ entry \in [Units -> UnitExtra \cup {Nil}]
    BY DEF Init
  <2>. QED  BY <2>1, <2>2, <2>3, <2>4, <2>5 DEF StateTypes
<1>5. \A i \in Instances : Held[i] = 0
  BY <1>1 DEF Held
<1>3. StackInv /\ EntryInv /\ SoleInv
  BY <1>1, <1>5 DEF Init, StackInv, Window, EntryInv, SoleInv, Even
<1>4. ASSUME NEW u \in Units
      PROVE  strength[u] = Sum(Held, On(u)) + Sum(Pending, CallsOn(u))
  <2>1. CallsOn(u) = {}
    BY <1>1 DEF CallsOn
  <2>2. \A i \in On(u) : Held[i] = 0
    BY <1>5 DEF On
  <2>3. Sum(Held, On(u)) = 0
    BY <1>2, <2>2, FiniteIndices, SumZero
  <2>. QED  BY <1>1, <2>1, <2>3, SumEmpty
<1>. QED  BY <1>2, <1>3, <1>4 DEF BalanceInv, IInv

\* The inductive invariant holds in every state.
THEOREM WindowInvariant == Spec => []IInv
<1>1. IInv /\ [Next]_vars => IInv'
  <2>. SUFFICES ASSUME IInv, [Next]_vars PROVE IInv'
    OBVIOUS
  <2>1. ASSUME NEW i \in Instances, NEW w \in 1 .. MaxWrites, Apply(i, w)
        PROVE  IInv'
    BY <2>1, AppliesBound, OpenKeeps DEF Apply, IInv
  <2>2. ASSUME NEW i \in Instances, Remove(i) PROVE IInv'
    <3>1. 1 \in 1 .. MaxWrites /\ -1 \in {-1, 1}
      BY ParametersAssumption
    <3>. QED  BY <2>2, <3>1, AppliesBound, OpenKeeps DEF Remove, IInv
  <2>3. CASE TemplateWrite
    <3>1. StateTypes' /\ StackInv'
      BY <2>3, WriteStack DEF IInv
    <3>2. EntryInv'
      BY <2>3 DEF IInv, EntryInv, TemplateWrite
    <3>. QED  BY <2>3, <3>1, <3>2, WriteBalance, WriteSole DEF IInv
  <2>4. CASE Close
    BY <2>4, CloseKeeps, CloseBalance, CloseSole DEF IInv
  <2>5. CASE \/ Refuse
             \/ \E n \in Counts \cup {-1} : Influence(n)
             \/ \E u \in Units : CreateUnit(u) \/ DestroyUnit(u)
             \/ \E h \in BOOLEAN : ChangeContext(h)
    BY <2>5, EngineKeeps
  <2>6. CASE UNCHANGED vars
    <3>1. StateTypes' /\ EntryInv'
      BY <2>6 DEF vars, IInv, StateTypes, EntryInv
    <3>2. /\ Pending' = Pending /\ \A n : Window(n)' = Window(n)
          /\ \A u : CallsOn(u)' = CallsOn(u)
          /\ Held' = Held
      BY <2>6 DEF vars, Pending, Window, CallsOn, Held
    <3>3. StackInv'
      BY <2>6, <3>2 DEF vars, IInv, StackInv, OwnWindow
    <3>4. BalanceInv' /\ SoleInv'
      BY <2>6, <3>2 DEF vars, IInv, BalanceInv, SoleInv, Even, Running
    <3>. QED  BY <3>1, <3>3, <3>4 DEF IInv
  <2>. QED
    BY <2>1, <2>2, <2>3, <2>4, <2>5, <2>6 DEF Next
<1>. QED  BY <1>1, InitInv, PTL DEF Spec

\* Rollback for any units, effect objects and Amounts, any number of writes,
\* any depth of nesting and any accesses that fail: what the engine holds for
\* a unit is what the totals of its instances take back, with what failed to
\* be put into them, up to what the open windows owe.
THEOREM Rollback == Spec => []RollbackExact
<1>1. IInv => RollbackExact
  <2>. SUFFICES ASSUME IInv, NEW u \in Units
                PROVE  strength[u] = Sum(Held, On(u)) +
                         Sum(Pending, {n \in DOMAIN calls :
                                         UnitOf[calls[n].inst] = u})
    BY DEF RollbackExact, Sum
  <2>1. CallsOn(u) = {n \in DOMAIN calls : UnitOf[calls[n].inst] = u}
    BY StackFacts DEF CallsOn, IInv
  <2>. QED  BY <2>1 DEF IInv, BalanceInv
<1>. QED  BY <1>1, WindowInvariant, PTL

\* The aggregate the hook multiplies is always the sum of the Amounts of the
\* instances recorded for the unit, none of another unit.
THEOREM Aggregate == Spec => []AggregateInSync
<1>1. IInv => AggregateInSync
  BY DEF IInv, EntryInv, AggregateInSync, Sum
<1>. QED  BY <1>1, WindowInvariant, PTL

\* A unit with one effect object has, between calls, exactly what its Applies
\* were due: the Amount once per city-state, and what an earlier correction
\* that failed has left behind.
THEOREM SoleInstance == Spec => []SoleInstanceExact
<1>1. IInv => SoleInstanceExact
  BY DEF IInv, SoleInv, SoleInstanceExact, Even, Exact
<1>. QED  BY <1>1, WindowInvariant, PTL

\* Only its own Remove, or the end of its unit, takes an instance out of the
\* side table.
THEOREM Kept == Spec => InstancesKept
<1>. DEFINE Leaves(i) == \/ UnitOf[i] \notin alive'
                         \/ calls # <<>> /\ Top.inst = i /\ Top.sign < 0
<1>1. IInv /\ [Next]_vars =>
        \A i \in Instances : Recorded(i) /\ ~ Recorded(i)' => Leaves(i)
  <2>. SUFFICES ASSUME IInv, [Next]_vars, NEW i \in Instances,
                       Recorded(i), ~ Recorded(i)'
                PROVE  Leaves(i)
    OBVIOUS
  <2>1. entry' # entry
    BY DEF Recorded
  <2>2. UnitOf[i] \in Units /\ entry \in [Units -> UnitExtra \cup {Nil}]
    BY ParametersAssumption DEF IInv, StateTypes
  <2>3. CASE Close
    <3>. DEFINE u == UnitOf[Top.inst]
    <3>1. /\ calls # <<>> /\ Top.inst \in Instances
      BY <2>3, CloseEntry DEF IInv, Close, CloseTo, CallType
    <3>2. PICK e : /\ entry' = [entry EXCEPT ![u] = e] /\ InSync(u, e)
                   /\ \/ e = Drop(u, Top.inst) /\ Top.sign < 0
                      \/ e = Upsert(u, Top.inst)
      BY <2>1, <2>3, CloseEntry DEF IInv
    <3>3. u \in Units /\ e # Nil
      BY <3>1, <3>2, ParametersAssumption, NilAssumption DEF InSync
    <3>4. UnitOf[i] = u
      BY <2>2, <3>2 DEF Recorded
    <3>5. i \in RecordedOn(u) /\ i \notin DOMAIN e.instances
      BY <2>2, <3>2, <3>3, <3>4 DEF Recorded, RecordedOn
    <3>6. /\ DOMAIN Upsert(u, Top.inst).instances = RecordedOn(u) \cup {Top.inst}
          /\ DOMAIN Drop(u, Top.inst).instances = RecordedOn(u) \ {Top.inst}
      BY <3>1, UpsertDrop DEF IInv
    <3>. QED  BY <3>1, <3>2, <3>5, <3>6
  <2>4. ASSUME NEW u \in Units, CreateUnit(u) PROVE Leaves(i)
    <3>1. entry[u] = Nil
      BY <2>4 DEF IInv, EntryInv, CreateUnit
    <3>. QED  BY <2>2, <2>4, <3>1 DEF Recorded, CreateUnit
  <2>5. ASSUME NEW u \in Units, DestroyUnit(u) PROVE Leaves(i)
    BY <2>2, <2>5 DEF Recorded, DestroyUnit
  <2>6. ASSUME NEW h \in BOOLEAN, ChangeContext(h) PROVE Leaves(i)
    BY <2>6 DEF ChangeContext
  <2>7. \A j \in Instances, w \in 1 .. MaxWrites :
          ~ Apply(j, w) /\ ~ Remove(j)
    BY <2>1 DEF Apply, Remove, Open
  <2>8. ~ TemplateWrite /\ ~ Refuse /\ \A n : ~ Influence(n)
    BY <2>1 DEF TemplateWrite, Refuse, Influence
  <2>9. ~ UNCHANGED vars
    BY <2>1 DEF vars
  <2>. QED
    BY <2>3, <2>4, <2>5, <2>6, <2>7, <2>8, <2>9, ParametersAssumption DEF Next
<1>2. IInv /\ [Next]_vars =>
        [\A i \in Instances : Recorded(i) /\ ~ Recorded(i)' =>
           \/ UnitOf[i] \notin alive'
           \/ calls # <<>> /\ Top.inst = i /\ Top.sign < 0]_vars
  BY <1>1
<1>. QED
  BY <1>2, WindowInvariant, PTL DEF Spec, InstancesKept

\* What a window adds stays, for every Amount and any number of writes up to
\* the bound, within the defensive bound of each write.
LEMMA OwnWindowOK ==
  ASSUME NEW c \in CallType, NEW w \in WindowType, OwnWindow(w, c)
  PROVE  WindowOK(w)
<1>. DEFINE i == c.inst
            a == AmountOf[i]
            k == MaxWrites - c.left
            lo == MaxWrites * (-MaxScaled - a)
            hi == MaxWrites * (MaxScaled - a)
<1>1. /\ i \in Instances /\ a \in Int /\ MaxScaled \in Nat /\ k \in Nat
      /\ MaxWrites \in Nat /\ k <= MaxWrites /\ w.delta \in Int
  BY ParametersAssumption DEF CallType, WindowType
<1>2. w.delta >= k * Least(i) /\ w.delta <= k * Most(i) /\ w.active = i
  BY DEF OwnWindow
<1>3. \A x \in Int, m \in Nat : m <= MaxWrites =>
        /\ x <= 0 => m * x >= MaxWrites * x
        /\ x >= 0 => m * x <= MaxWrites * x
  <2>. SUFFICES ASSUME NEW x \in Int, NEW m \in Nat, m <= MaxWrites
                PROVE  /\ x <= 0 => m * x >= MaxWrites * x
                       /\ x >= 0 => m * x <= MaxWrites * x
    OBVIOUS
  <2>. DEFINE r == MaxWrites - m
  <2>1. r \in Nat /\ r + m = MaxWrites
    BY <1>1
  <2>2. (r + m) * x = r * x + m * x /\ r * x \in Int /\ m * x \in Int
    BY <2>1
  <2>. HIDE DEF r
  <2>. QED  BY <2>1, <2>2, ScaleSign
<1>4. /\ \A x \in Int : Min({0, x}) = IF x < 0 THEN x ELSE 0
      /\ \A x \in Int : Max({0, x}) = IF x > 0 THEN x ELSE 0
  BY DEF Min, Max
<1>5. lo \in Int /\ hi \in Int
  BY <1>1
<1>6. w.delta >= Min({0, lo})
  <2>1. CASE -MaxScaled - a < 0
    BY <2>1, <1>1, <1>2, <1>3, <1>4, <1>5 DEF Least
  <2>2. CASE ~ (-MaxScaled - a < 0)
    BY <2>2, <1>1, <1>2, <1>4, <1>5 DEF Least
  <2>. QED  BY <2>1, <2>2
<1>7. w.delta <= Max({0, hi})
  <2>1. CASE MaxScaled - a > 0
    BY <2>1, <1>1, <1>2, <1>3, <1>4, <1>5 DEF Most
  <2>2. CASE ~ (MaxScaled - a > 0)
    BY <2>2, <1>1, <1>2, <1>4, <1>5 DEF Most
  <2>. QED  BY <2>1, <2>2
<1>8. Min({0, lo}) \in Int /\ Max({0, hi}) \in Int
  BY <1>4, <1>5
<1>9. w.active # Nil
  BY <1>1, <1>2, NilAssumption
<1>. HIDE DEF lo, hi
<1>. QED
  BY <1>1, <1>2, <1>6, <1>7, <1>8, <1>9 DEF WindowOK, DeltaInBounds, lo, hi

\* The type invariant, with the bound on what a window can add.
THEOREM WindowTypes == Spec => []TypeOK
<1>1. IInv => TypeOK
  <2>. SUFFICES ASSUME IInv PROVE TypeOK
    OBVIOUS
  <2>. DEFINE N == Len(calls)
  <2>1. /\ DOMAIN calls = 1 .. N /\ N \in Nat
        /\ \A n \in 1 .. N : calls[n] \in CallType
        /\ \A n \in 0 .. N : Window(n) \in WindowType
    BY StackFacts DEF IInv
  <2>2. WindowOK(Closed)
    <3>1. Closed.active = Nil /\ Closed.delta = 0
      BY DEF Closed
    <3>2. Closed \in WindowType
      BY <2>1 DEF IInv, StackInv
    <3>. QED  BY <3>1, <3>2 DEF WindowOK, DeltaInBounds
  <2>3. ASSUME NEW n \in 0 .. N PROVE WindowOK(Window(n))
    <3>1. CASE n = 0
      BY <2>2, <3>1 DEF IInv, StackInv
    <3>2. CASE n # 0
      <4>1. n \in 1 .. N
        BY <2>1, <3>2
      <4>. QED  BY <4>1, <2>1, OwnWindowOK DEF IInv, StackInv
    <3>. QED  BY <3>1, <3>2
  <2>4. WindowOK(window)
    <3>1. Window(N) = window
      BY DEF Window
    <3>2. N \in 0 .. N
      BY <2>1
    <3>. QED  BY <2>3, <3>1, <3>2
  <2>5. ASSUME NEW n \in 1 .. N PROVE WindowOK(calls[n].saved)
    <3>1. n - 1 \in 0 .. N /\ n - 1 # N /\ n - 1 + 1 = n
      BY <2>1
    <3>. QED  BY <2>3, <3>1 DEF Window
  <2>6. ASSUME NEW u \in Units, entry[u] # Nil
        PROVE  DOMAIN entry[u].instances \subseteq Instances /\ entry[u].strength \in Int
    <3>1. entry[u] \in UnitExtra
      BY <2>6 DEF IInv, StateTypes
    <3>. QED  BY <3>1 DEF UnitExtra
  <2>7. N \in 0 .. MaxNesting
    BY <2>1, ParametersAssumption DEF IInv, StateTypes
  <2>. QED
    BY <2>1, <2>4, <2>5, <2>6, <2>7 DEF IInv, StateTypes, TypeOK, CallType
<1>. QED  BY <1>1, WindowInvariant, PTL
=============================================================================
