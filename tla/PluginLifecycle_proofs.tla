----------------------- MODULE PluginLifecycle_proofs -----------------------
(***************************************************************************)
(* What holds of loading, game contexts and unloading for any list of      *)
(* effects and any number of loads and games: the type invariant and the   *)
(* five safety invariants of PluginLifecycle.                              *)
(*                                                                         *)
(* None of the five is inductive alone.  That nothing is left behind needs *)
(* the flags to be right when the last pass begins and every target that   *)
(* is still taken to belong to an effect the pass has still to visit; that *)
(* the flags are right needs an account of the two half-done states of a   *)
(* failed installation, where they are not.                                *)
(*                                                                         *)
(* The last part is about the engine's calls through the hooks: that none  *)
(* is lost but through a refused installation.                             *)
(***************************************************************************)
EXTENDS HookCalls, SequenceTheorems, TLAPS

\* The effects a pass has still to visit.
Left == {todo[n] : n \in DOMAIN todo}

Names == {Effects[n] : n \in DOMAIN Effects}

Shape ==
  /\ TypeOK
  /\ todo \in Seq(Names)
  /\ within # "start" => stage \in {"register", "created"} /\ todo # <<>>
  /\ within \in {"undo", "forget"} => Head(todo) \in Hooked

\* Only in the middle of a failed installation is a flag wrong, and then it
\* is that of the effect being visited.
Flags ==
  /\ enabled \subseteq trampoline
  /\ IF within = "undo"
     THEN Head(todo) \notin flag /\ flag = enabled \ {Head(todo)}
     ELSE flag = enabled
  /\ within = "forget" => Head(todo) \notin enabled
  /\ stage = "shutdown" => enabled \subseteq Left
  /\ stage \in {"out", "declare"} => enabled = {}

\* The table holds objects of the current game only, unless it is just over
\* and an effect that clears the table has still to be told.
Table ==
  /\ stage \notin {"ready", "created"} => game = 0
  /\ stage \in {"ready", "created"} => content \subseteq {game} \ {0}
  /\ stage = "destroyed" => content = {} \/ Hooked \cap Left # {}
  /\ stage \notin {"ready", "created", "destroyed"} => content = {}

\* A load is subscribed once it is through with GetPlugin.
Subscription ==
  /\ subscribed \subseteq 1 .. loads
  /\ stage # "out" => loads # 0
  /\ stage \in {"declare", "register", "subscribe"} => loads \notin subscribed
  /\ stage \in {"ready", "created", "destroyed"} => result = 1
  /\ stage \in {"shutdown", "out"} /\ result = 0 => loads \notin subscribed

IInv == Shape /\ Flags /\ Table /\ Subscription

-----------------------------------------------------------------------------
\* A pass that begins has every effect to visit.
LEMMA AllEffects ==
  /\ Effects \in Seq(Names) /\ Len(Effects) \in Nat
  /\ Hooked \subseteq Names
BY EffectsAssumption DEF Names

\* When a pass is done with an effect, only the others are left to visit.
LEMMA TailLeft ==
  ASSUME NEW s \in Seq(Names), s # <<>>
  PROVE  /\ Tail(s) \in Seq(Names) /\ Head(s) \in Names
         /\ Len(Tail(s)) <= Len(s)
         /\ {s[n] : n \in DOMAIN s}
              \subseteq {Head(s)} \cup {Tail(s)[n] : n \in DOMAIN Tail(s)}
<1>1. /\ Tail(s) \in Seq(Names) /\ Head(s) \in Names /\ Head(s) = s[1]
      /\ Len(s) \in Nat \ {0} /\ Len(Tail(s)) = Len(s) - 1
      /\ \A n \in 1 .. Len(s) - 1 : Tail(s)[n] = s[n + 1]
  BY EmptySeq, HeadTailProperties
<1>2. DOMAIN s = 1 .. Len(s) /\ DOMAIN Tail(s) = 1 .. Len(s) - 1
  BY <1>1, LenProperties
<1>3. ASSUME NEW n \in DOMAIN s, n # 1
      PROVE  n - 1 \in DOMAIN Tail(s) /\ Tail(s)[n - 1] = s[n]
  BY <1>1, <1>2, <1>3
<1>. QED
  BY <1>1, <1>2, <1>3

-----------------------------------------------------------------------------
\* The first steps of an action: what a new pass, and an advance, leave.
LEMMA PassBegins ==
  ASSUME NEW s, Begin(s)
  PROVE  /\ todo' \in Seq(Names) /\ Len(todo') <= Len(Effects)
         /\ Left' = Names /\ Hooked \subseteq Left' /\ within' = "start"
         /\ stage' = s
BY AllEffects DEF Begin, Left, Names

LEMMA PassAdvances ==
  ASSUME Shape, todo # <<>>, Advance
  PROVE  /\ todo' \in Seq(Names) /\ Len(todo') <= Len(Effects)
         /\ Left \subseteq {Head(todo)} \cup Left'
         /\ within' = "start"
<1>1. /\ todo' \in Seq(Names) /\ Len(todo') <= Len(todo)
      /\ Left \subseteq {Head(todo)} \cup Left'
  BY TailLeft DEF Shape, Advance, Left
<1>2. Len(todo') \in Nat /\ Len(todo) \in Nat /\ Len(Effects) \in Nat
  BY <1>1, LenProperties, AllEffects DEF Shape
<1>3. Len(todo) <= Len(Effects)
  BY DEF Shape, TypeOK
<1>. QED
  BY <1>1, <1>2, <1>3 DEF Advance

\* A step of an installation keeps the flags accounted for.
LEMMA InstallFlags ==
  ASSUME Shape, Flags, stage \in {"register", "created"}, todo # <<>>,
         Head(todo) \in Hooked, UNCHANGED <<stage, todo>>,
         Install(Head(todo)) \/ UndoInstall(Head(todo))
  PROVE  /\ Flags'
         /\ enabled' \subseteq Hooked /\ trampoline' \subseteq Hooked
         /\ flag' \subseteq Hooked
         /\ within' \in {"undo", "forget", "done"}
<1>1. /\ enabled \subseteq Hooked /\ trampoline \subseteq Hooked
      /\ flag \subseteq Hooked
  BY DEF Shape, TypeOK
<1>. DEFINE e == Head(todo)
<1>2. CASE Install(e)
  <2>1. within = "start" /\ flag = enabled /\ enabled \subseteq trampoline
    BY <1>2 DEF Install, Flags
  <2>2. CASE within' = "done"
    <3>1. \/ enabled' = enabled /\ trampoline' = trampoline /\ flag' = flag
          \/ /\ enabled' = enabled \cup {e} /\ flag' = flag \cup {e}
             /\ trampoline' = trampoline \cup {e}
      BY <1>2, <2>2 DEF Install, hooks
    <3>. QED
      BY <1>1, <2>1, <2>2, <3>1 DEF Flags
  <2>3. CASE within' = "undo"
    <3>1. e \notin flag /\ flag' = flag
      BY <1>2, <2>1, <2>3 DEF Install
    <3>2. \/ enabled' = enabled /\ trampoline' = trampoline
          \/ enabled' = enabled \cup {e} /\ trampoline' = trampoline \cup {e}
      BY <1>2, <2>3 DEF Install
    <3>. QED
      BY <1>1, <2>1, <2>3, <3>1, <3>2 DEF Flags
  <2>. QED
    BY <1>2, <2>2, <2>3 DEF Install
<1>3. CASE UndoInstall(Head(todo))
  BY <1>1, <1>3 DEF UndoInstall, Flags
<1>. QED
  BY <1>2, <1>3

-----------------------------------------------------------------------------
THEOREM InitIInv == Init => IInv
<1>. SUFFICES ASSUME Init PROVE IInv
  OBVIOUS
<1>1. <<>> \in Seq(Names) /\ Len(<<>>) = 0
  BY EmptySeq
<1>2. TypeOK
  BY <1>1, EffectsAssumption, AllEffects DEF Init, TypeOK, Stages
<1>3. Shape
  BY <1>1, <1>2 DEF Init, Shape
<1>4. Flags /\ Table
  BY DEF Init, Flags, Table
<1>5. Subscription
  BY DEF Init, Subscription
<1>. QED
  BY <1>3, <1>4, <1>5 DEF IInv

\* GetPlugin gives up: in the stages where it can, nothing is subscribed.
LEMMA FailIInv ==
  ASSUME IInv, stage \in {"declare", "register", "subscribe"},
         within = "start", Fail,
         UNCHANGED <<hooks, subscribed, game, content, counts>>
  PROVE  IInv'
<1>1. Shape'
  BY PassBegins DEF Fail, IInv, Shape, TypeOK, Stages, hooks, counts
<1>2. Flags'
  BY PassBegins DEF Fail, IInv, Shape, TypeOK, Flags, hooks
<1>3. Table' /\ Subscription'
  BY PassBegins DEF Fail, IInv, Table, Subscription, counts
<1>. QED
  BY <1>1, <1>2, <1>3 DEF IInv

-----------------------------------------------------------------------------
LEMMA LoadIInv == IInv /\ Load => IInv'
<1>. SUFFICES ASSUME IInv, Load PROVE IInv'
  OBVIOUS
<1>1. loads \in Nat /\ MaxLoads \in Nat /\ MaxGames \in Nat
  BY EffectsAssumption DEF IInv, Shape, TypeOK
<1>2. within = "start"
  BY DEF IInv, Shape, Load
<1>3. Shape'
  BY <1>1, <1>2 DEF Load, IInv, Shape, TypeOK, Stages
<1>4. Flags' /\ Table'
  BY <1>2 DEF Load, IInv, Flags, Table
<1>5. Subscription'
  BY <1>1 DEF Load, IInv, Subscription
<1>. QED
  BY <1>3, <1>4, <1>5 DEF IInv

LEMMA DeclareIInv == \A ok \in BOOLEAN : IInv /\ Declare(ok) => IInv'
<1>. SUFFICES ASSUME NEW ok \in BOOLEAN, IInv, Declare(ok) PROVE IInv'
  OBVIOUS
<1>1. within = "start" /\ stage = "declare"
  BY DEF IInv, Shape, Declare
<1>2. CASE ~ ok
  BY <1>1, <1>2, FailIInv DEF Declare
<1>3. CASE ok
  <2>1. Begin("register") /\ UNCHANGED <<hooks, subscribed, game, content,
                                         counts, result>>
    BY <1>3 DEF Declare
  <2>2. Shape'
    BY <2>1, PassBegins DEF IInv, Shape, TypeOK, Stages, hooks, counts
  <2>3. Flags'
    BY <1>1, <2>1, PassBegins DEF IInv, Flags, hooks
  <2>4. Table' /\ Subscription'
    BY <1>1, <2>1, PassBegins DEF IInv, Table, Subscription, counts
  <2>. QED
    BY <2>2, <2>3, <2>4 DEF IInv
<1>. QED
  BY <1>2, <1>3

\* A step of an installation, in GetPlugin or for a new game.
LEMMA InstallIInv ==
  ASSUME IInv, stage \in {"register", "created"}, todo # <<>>,
         Head(todo) \in Hooked,
         Install(Head(todo)) \/ UndoInstall(Head(todo)),
         UNCHANGED <<stage, todo, result, subscribed, game, content, counts>>
  PROVE  IInv'
<1>1. Flags' /\ enabled' \subseteq Hooked /\ trampoline' \subseteq Hooked
      /\ flag' \subseteq Hooked /\ within' \in {"undo", "forget", "done"}
  BY InstallFlags DEF IInv
<1>2. Shape'
  BY <1>1 DEF IInv, Shape, TypeOK, counts
<1>3. Table' /\ Subscription'
  BY DEF IInv, Table, Subscription, Left, counts
<1>. QED
  BY <1>1, <1>2, <1>3 DEF IInv

\* A pass is done with an effect whose hook is in order.
LEMMA AdvanceIInv ==
  ASSUME IInv, stage \in {"register", "created"}, todo # <<>>, Advance,
         Head(todo) \notin Hooked \/ within = "done",
         content' = content \/ content' = {},
         UNCHANGED <<stage, result, hooks, subscribed, game, counts>>
  PROVE  IInv'
<1>1. within \notin {"undo", "forget"}
  BY DEF IInv, Shape
<1>2. content' \subseteq content
  OBVIOUS
<1>3. Shape'
  BY <1>2, PassAdvances DEF IInv, Shape, TypeOK, hooks, counts
<1>4. Flags'
  BY <1>1, PassAdvances DEF IInv, Flags, hooks
<1>5. Table' /\ Subscription'
  BY <1>2 DEF IInv, Table, Subscription, counts
<1>. QED
  BY <1>3, <1>4, <1>5 DEF IInv

LEMMA RegisterIInv == IInv /\ Register => IInv'
<1>. SUFFICES ASSUME IInv, Register PROVE IInv'
  OBVIOUS
<1>1. stage = "register" /\ todo # <<>>
      /\ UNCHANGED <<subscribed, game, content, counts>>
  BY DEF Register
<1>2. CASE within = "start" /\ Fail /\ UNCHANGED hooks
  BY <1>1, <1>2, FailIInv
<1>3. CASE /\ Head(todo) \in Hooked /\ UNCHANGED <<stage, todo, result>>
           /\ Install(Head(todo)) \/ UndoInstall(Head(todo))
  BY <1>1, <1>3, InstallIInv
<1>4. CASE /\ Head(todo) \notin Hooked \/ within = "done"
           /\ Advance /\ UNCHANGED <<stage, result, hooks>>
  BY <1>1, <1>4, AdvanceIInv
<1>. QED
  BY <1>2, <1>3, <1>4 DEF Register

LEMMA CreatedIInv == IInv /\ Created => IInv'
<1>. SUFFICES ASSUME IInv, Created PROVE IInv'
  OBVIOUS
<1>1. stage = "created" /\ todo # <<>>
      /\ UNCHANGED <<stage, result, subscribed, game, counts>>
  BY DEF Created
<1>2. CASE /\ Head(todo) \in Hooked /\ UNCHANGED <<todo, content>>
           /\ Install(Head(todo)) \/ UndoInstall(Head(todo))
  BY <1>1, <1>2, InstallIInv
<1>3. CASE /\ Head(todo) \in Hooked /\ within = "done"
           /\ content' = {} /\ Advance /\ UNCHANGED hooks
  BY <1>1, <1>3, AdvanceIInv
<1>4. CASE /\ Head(todo) \notin Hooked
           /\ Advance /\ UNCHANGED <<hooks, content>>
  BY <1>1, <1>4, AdvanceIInv
<1>. QED
  BY <1>2, <1>3, <1>4 DEF Created

LEMMA SubscribeIInv == \A ok \in BOOLEAN : IInv /\ Subscribe(ok) => IInv'
<1>. SUFFICES ASSUME NEW ok \in BOOLEAN, IInv, Subscribe(ok) PROVE IInv'
  OBVIOUS
<1>1. within = "start" /\ stage = "subscribe"
  BY DEF IInv, Shape, Subscribe
<1>2. CASE ~ ok
  BY <1>1, <1>2, FailIInv DEF Subscribe
<1>3. CASE ok
  <2>1. loads \in 1 .. MaxLoads \/ loads = 0
    BY EffectsAssumption DEF IInv, Shape, TypeOK
  <2>2. loads # 0
    BY <1>1 DEF IInv, Subscription
  <2>. QED
    <3>1. Shape'
      BY <1>1, <1>3, <2>1, <2>2
      DEF Subscribe, IInv, Shape, TypeOK, Stages, hooks, counts
    <3>2. Flags' /\ Table'
      BY <1>1, <1>3 DEF Subscribe, IInv, Flags, Table, hooks
    <3>3. loads \in 1 .. loads /\ loads' = loads
      BY <1>3, <2>1, <2>2, EffectsAssumption DEF Subscribe, counts
    <3>4. subscribed' = subscribed \cup {loads} /\ result' = 1 /\ stage' = "ready"
      BY <1>3 DEF Subscribe
    <3>5. Subscription'
      BY <2>2, <3>3, <3>4 DEF IInv, Subscription
    <3>. QED
      BY <3>1, <3>2, <3>5 DEF IInv
<1>. QED
  BY <1>2, <1>3

LEMMA RegisteredIInv == IInv /\ Registered => IInv'
<1>. SUFFICES ASSUME IInv, Registered PROVE IInv'
  OBVIOUS
<1>1. Shape'
  BY DEF Registered, IInv, Shape, TypeOK, Stages, hooks, counts
<1>2. Flags'
  BY DEF Registered, IInv, Flags, hooks
<1>3. Table' /\ Subscription'
  BY DEF Registered, IInv, Table, Subscription, counts
<1>. QED
  BY <1>1, <1>2, <1>3 DEF IInv

-----------------------------------------------------------------------------
LEMMA CreateContextIInv == IInv /\ CreateContext => IInv'
<1>. SUFFICES ASSUME IInv, CreateContext PROVE IInv'
  OBVIOUS
<1>1. within = "start" /\ stage = "ready"
  BY DEF IInv, Shape, CreateContext
<1>2. /\ games' \in 0 .. MaxGames /\ game' = games' /\ content = {}
  BY EffectsAssumption DEF CreateContext, IInv, Shape, TypeOK, Table
<1>3. Shape'
  BY <1>2, PassBegins DEF CreateContext, IInv, Shape, TypeOK, Stages, hooks
<1>4. Flags'
  BY <1>1, PassBegins DEF CreateContext, IInv, Flags, hooks
<1>5. Table' /\ Subscription'
  BY <1>1, <1>2, PassBegins DEF CreateContext, IInv, Table, Subscription
<1>. QED
  BY <1>3, <1>4, <1>5 DEF IInv

LEMMA AddEntryIInv == IInv /\ AddEntry => IInv'
<1>. SUFFICES ASSUME IInv, AddEntry PROVE IInv'
  OBVIOUS
<1>1. Shape'
  BY EffectsAssumption
  DEF AddEntry, IInv, Shape, TypeOK, Stages, hooks, counts
<1>2. Flags'
  BY DEF AddEntry, IInv, Flags, Left, hooks
<1>3. Table' /\ Subscription'
  BY DEF AddEntry, IInv, Table, Subscription, counts
<1>. QED
  BY <1>1, <1>2, <1>3 DEF IInv

LEMMA DestroyContextIInv == IInv /\ DestroyContext => IInv'
<1>. SUFFICES ASSUME IInv, DestroyContext PROVE IInv'
  OBVIOUS
<1>1. within = "start" /\ stage = "ready"
  BY DEF IInv, Shape, DestroyContext
<1>2. Hooked \cap Left' # {}
  BY EffectsAssumption, PassBegins DEF DestroyContext
<1>3. Shape'
  BY EffectsAssumption, PassBegins
  DEF DestroyContext, IInv, Shape, TypeOK, Stages, hooks, counts
<1>4. Flags'
  BY <1>1, PassBegins DEF DestroyContext, IInv, Flags, hooks
<1>5. Table' /\ Subscription'
  BY <1>1, <1>2, PassBegins
  DEF DestroyContext, IInv, Table, Subscription, counts
<1>. QED
  BY <1>3, <1>4, <1>5 DEF IInv

\* An effect is torn down: its target is given back and the table is empty.
LEMMA TearDownIInv == IInv /\ TearDown => IInv'
<1>. SUFFICES ASSUME IInv, TearDown PROVE IInv'
  OBVIOUS
<1>. DEFINE e == Head(todo)
<1>1. within = "start" /\ stage \in {"destroyed", "shutdown"} /\ todo # <<>>
      /\ flag = enabled
  BY DEF TearDown, IInv, Shape, Flags
<1>2. CASE e \in Hooked
  <2>1. /\ enabled' = enabled \ {e} /\ flag' = flag \ {e} /\ content' = {}
        /\ trampoline' = trampoline
    BY <1>1, <1>2 DEF TearDown, Uninstall
  <2>2. Shape'
    BY <1>1, <2>1, PassAdvances DEF TearDown, IInv, Shape, TypeOK, counts
  <2>3. Flags'
    BY <1>1, <2>1, PassAdvances DEF TearDown, IInv, Flags
  <2>4. Table' /\ Subscription'
    BY <1>1, <2>1 DEF TearDown, IInv, Table, Subscription, counts
  <2>. QED
    BY <2>2, <2>3, <2>4 DEF IInv
<1>3. CASE e \notin Hooked
  <2>1. UNCHANGED <<enabled, trampoline, flag, content>>
    BY <1>3 DEF TearDown, hooks
  <2>2. Shape'
    BY <1>1, <2>1, PassAdvances DEF TearDown, IInv, Shape, TypeOK, counts
  <2>3. Flags'
    <3>1. e \notin enabled
      BY <1>3 DEF IInv, Shape, TypeOK
    <3>. QED
      BY <1>1, <2>1, <3>1, PassAdvances DEF TearDown, IInv, Flags
  <2>4. Table' /\ Subscription'
    BY <1>1, <1>3, <2>1, PassAdvances
    DEF TearDown, IInv, Table, Subscription, counts
  <2>. QED
    BY <2>2, <2>3, <2>4 DEF IInv
<1>. QED
  BY <1>2, <1>3

LEMMA EndPassIInv == IInv /\ EndPass => IInv'
<1>. SUFFICES ASSUME IInv, EndPass PROVE IInv'
  OBVIOUS
<1>1. Left = {}
  BY DEF EndPass, Left
<1>2. Shape'
  BY DEF EndPass, IInv, Shape, TypeOK, Stages, hooks, counts
<1>3. Flags'
  BY DEF EndPass, IInv, Flags, hooks
<1>4. Table' /\ Subscription'
  BY <1>1 DEF EndPass, IInv, Table, Subscription, counts
<1>. QED
  BY <1>2, <1>3, <1>4 DEF IInv

LEMMA DestroyPluginIInv == IInv /\ DestroyPlugin => IInv'
<1>. SUFFICES ASSUME IInv, DestroyPlugin PROVE IInv'
  OBVIOUS
<1>1. within = "start" /\ stage = "ready" /\ game = 0
  BY DEF IInv, Shape, DestroyPlugin
<1>2. Shape'
  BY PassBegins DEF DestroyPlugin, IInv, Shape, TypeOK, Stages, hooks, counts
<1>3. Flags'
  BY <1>1, PassBegins
  DEF DestroyPlugin, IInv, Shape, TypeOK, Flags, hooks
<1>4. Table' /\ Subscription'
  BY <1>1, PassBegins DEF DestroyPlugin, IInv, Table, Subscription, counts
<1>. QED
  BY <1>2, <1>3, <1>4 DEF IInv

LEMMA UnloadIInv == IInv /\ Unload => IInv'
<1>. SUFFICES ASSUME IInv, Unload PROVE IInv'
  OBVIOUS
<1>1. Left = {}
  BY DEF Unload, Left
<1>2. Shape'
  BY DEF Unload, IInv, Shape, TypeOK, Stages, hooks, counts
<1>3. Flags'
  BY <1>1 DEF Unload, IInv, Flags, hooks
<1>4. Table' /\ Subscription'
  BY DEF Unload, IInv, Table, Subscription, counts
<1>. QED
  BY <1>2, <1>3, <1>4 DEF IInv

LEMMA NextIInv == IInv /\ [Next]_vars => IInv'
<1>. SUFFICES ASSUME IInv, [Next]_vars PROVE IInv'
  OBVIOUS
<1>1. CASE UNCHANGED vars
  BY <1>1
  DEF vars, IInv, Shape, TypeOK, Flags, Left, Table, Subscription
<1>2. CASE \E ok \in BOOLEAN : Declare(ok) \/ Subscribe(ok)
  BY <1>2, DeclareIInv, SubscribeIInv
<1>3. CASE Next
  BY <1>2, <1>3, LoadIInv, RegisterIInv, RegisteredIInv, CreateContextIInv,
     CreatedIInv, AddEntryIInv, DestroyContextIInv, TearDownIInv, EndPassIInv,
     DestroyPluginIInv, UnloadIInv
  DEF Next
<1>. QED
  BY <1>1, <1>3

-----------------------------------------------------------------------------
\* The inductive invariant holds: outside a failing installation the flags
\* say what is intercepted, and a teardown in progress has every target that
\* is still taken ahead of it.
THEOREM LifecycleOrderly == Spec => []IInv
<1>. QED
  BY InitIInv, NextIInv, PTL DEF Spec

\* Type correctness of the plugin's state.
THEOREM LifecycleTypeOK == Spec => []TypeOK
<1>1. IInv => TypeOK
  BY DEF IInv, Shape
<1>. QED
  BY <1>1, LifecycleOrderly, PTL

\* No call of an intercepted target finds a null trampoline, whatever fails.
THEOREM LifecycleTrampoline == Spec => []TrampolineWhileEnabled
<1>1. IInv => TrampolineWhileEnabled
  BY DEF IInv, Flags, TrampolineWhileEnabled
<1>. QED
  BY <1>1, LifecycleOrderly, PTL

\* Between passes the Installed flags say which targets are intercepted.
THEOREM LifecycleFlags == Spec => []FlagsTellTheTruth
<1>1. IInv => FlagsTellTheTruth
  BY DEF IInv, Shape, Flags, FlagsTellTheTruth
<1>. QED
  BY <1>1, LifecycleOrderly, PTL

\* However GetPlugin ends, the unloaded plugin intercepts nothing and has
\* emptied the table.
THEOREM LifecycleNothingLeft == Spec => []NothingLeftBehind
<1>1. IInv => NothingLeftBehind
  BY DEF IInv, Flags, Table, NothingLeftBehind
<1>. QED
  BY <1>1, LifecycleOrderly, PTL

\* A load that failed has no callbacks with the persistence plugin.
THEOREM LifecycleNoDanglingSubscriber == Spec => []FailedLoadSubscribesNothing
<1>1. IInv => FailedLoadSubscribesNothing
  BY DEF IInv, Subscription, FailedLoadSubscribesNothing
<1>. QED
  BY <1>1, LifecycleOrderly, PTL

\* No game finds entries of an earlier game's objects.
THEOREM LifecycleNoResidue == Spec => []NoResidue
<1>1. IInv => NoResidue
  BY DEF IInv, Table, NoResidue
<1>. QED
  BY <1>1, LifecycleOrderly, PTL

-----------------------------------------------------------------------------
(* The calls through the hooks.  They refine nothing of the lifecycle      *)
(* away: HookSpec implies Spec, so its inductive invariant is available    *)
(* here.  On top of it the argument needs that a hook with a call inside   *)
(* keeps its trampoline until an installation of it fails, and that the    *)
(* hook being undone is one whose failure has been noted.                  *)

\* A thread inside a detour can still reach the engine's function.
CallersCovered ==
  \A e \in Hooked : e \notin refused /\ call[e] # "outside" => e \in trampoline

UndoNoted == within \in {"undo", "forget"} => Head(todo) \in refused

CallInv ==
  /\ HookTypeOK /\ LosslessUnlessRefused
  /\ CallersCovered /\ UndoNoted

HInv == IInv /\ CallInv

-----------------------------------------------------------------------------
\* Every step of the composition is a step of the lifecycle or leaves it
\* alone.
LEMMA StepOfLifecycle == [HookNext]_hookVars => [Next]_vars
BY DEF HookNext, hookVars, OwnStep, OtherStep, InsideStep, Installing,
       TearingDown, Loading, Unloading, EnterHook, CheckTrampoline,
       CallOriginal, Next

\* A step that keeps every trampoline and loses no refusal.
LEMMA KeepsCallInv ==
  ASSUME CallInv, UNCHANGED <<call, lost>>, trampoline \subseteq trampoline',
         refused \subseteq refused', refused' \subseteq Hooked, UndoNoted'
  PROVE  CallInv'
BY DEF CallInv, HookTypeOK, LosslessUnlessRefused, CallersCovered

LEMMA EnterCallInv ==
  \A e \in Hooked : HInv /\ EnterHook(e) => CallInv'
<1>. SUFFICES ASSUME NEW e \in Hooked, HInv, EnterHook(e) PROVE CallInv'
  OBVIOUS
<1>1. e \in trampoline
  BY DEF EnterHook, HInv, IInv, Flags
<1>2. HookTypeOK' /\ LosslessUnlessRefused' /\ UndoNoted'
  BY DEF EnterHook, vars, HInv, CallInv, HookTypeOK, LosslessUnlessRefused,
         UndoNoted
<1>3. CallersCovered'
  BY <1>1
  DEF EnterHook, vars, HInv, CallInv, HookTypeOK, CallersCovered
<1>. QED
  BY <1>2, <1>3 DEF CallInv

LEMMA InsideCallInv ==
  \A e \in Hooked : HInv /\ InsideStep(e) => CallInv'
<1>. SUFFICES ASSUME NEW e \in Hooked, HInv, InsideStep(e) PROVE CallInv'
  OBVIOUS
<1>1. /\ UNCHANGED <<vars, refused>>
      /\ call[e] # "outside"
      /\ call' = [call EXCEPT ![e] = "outside"]
         \/ call' = [call EXCEPT ![e] = "checked"]
      /\ lost' = lost \/ (e \notin trampoline /\ lost' = lost \cup {e})
  BY DEF InsideStep, CheckTrampoline, CallOriginal
<1>2. UNCHANGED <<trampoline, within, todo>>
  BY <1>1 DEF vars
<1>3. HookTypeOK'
  BY <1>1 DEF HInv, CallInv, HookTypeOK
<1>4. LosslessUnlessRefused'
  BY <1>1 DEF HInv, CallInv, LosslessUnlessRefused, CallersCovered
<1>5. CallersCovered' /\ UndoNoted'
  BY <1>1, <1>2
  DEF HInv, CallInv, HookTypeOK, CallersCovered, UndoNoted
<1>. QED
  BY <1>3, <1>4, <1>5 DEF CallInv

\* An installation may take a trampoline away, but only that of a hook whose
\* failure has been noted.
LEMMA InstallingCallInv == HInv /\ Installing => CallInv'
<1>. SUFFICES ASSUME HInv, Installing PROVE CallInv'
  OBVIOUS
<1>. DEFINE e == Head(todo)
<1>1. /\ UNCHANGED <<call, lost>> /\ NoteRefusal
      /\ HookTypeOK /\ LosslessUnlessRefused /\ CallersCovered /\ UndoNoted
  BY DEF Installing, HInv, CallInv
<1>2. \/ e \in Hooked /\ UNCHANGED todo /\ Install(e)
      \/ e \in Hooked /\ UNCHANGED todo /\ UndoInstall(e)
      \/ within' = "start" /\ UNCHANGED trampoline
  BY DEF Installing, Register, Created, Fail, Begin, Advance, hooks
<1>3. CASE e \in Hooked /\ UNCHANGED todo /\ Install(e)
  <2>1. trampoline \subseteq trampoline'
    BY <1>3 DEF Install, hooks
  <2>2. within = "start" /\ within' \in {"undo", "done"}
    BY <1>3 DEF Install
  <2>3. /\ refused \subseteq refused' /\ refused' \subseteq Hooked
        /\ UndoNoted'
    BY <1>1, <1>3, <2>2 DEF NoteRefusal, HookTypeOK, UndoNoted
  <2>. QED
    BY <1>1, <2>1, <2>3, KeepsCallInv DEF CallInv
<1>4. CASE e \in Hooked /\ UNCHANGED todo /\ UndoInstall(e)
  <2>1. /\ within \in {"undo", "forget"} /\ within' \in {"forget", "done"}
        /\ trampoline \ {e} \subseteq trampoline'
    BY <1>4 DEF UndoInstall
  <2>2. refused' = refused /\ e \in refused
    BY <1>1, <2>1 DEF NoteRefusal, UndoNoted
  <2>3. UndoNoted'
    BY <1>4, <2>2 DEF UndoNoted
  <2>. QED
    BY <1>1, <2>1, <2>2, <2>3
    DEF CallInv, HookTypeOK, LosslessUnlessRefused, CallersCovered
<1>5. CASE within' = "start" /\ UNCHANGED trampoline
  <2>1. refused' = refused /\ UndoNoted'
    BY <1>1, <1>5 DEF NoteRefusal, UndoNoted
  <2>. QED
    BY <1>1, <1>5, <2>1, KeepsCallInv DEF CallInv, HookTypeOK
<1>. QED
  BY <1>2, <1>3, <1>4, <1>5

\* The module is fresh, and no call is inside it.
LEMMA LoadingCallInv == HInv /\ call = Outside /\ Loading => CallInv'
<1>. SUFFICES ASSUME HInv, call = Outside, Loading PROVE CallInv'
  OBVIOUS
<1>1. within = "start" /\ within' = "start"
  BY DEF Loading, Load, HInv, IInv, Shape
<1>. QED
  BY <1>1
  DEF Loading, Outside, HInv, CallInv, HookTypeOK, LosslessUnlessRefused,
      CallersCovered, UndoNoted

\* Everything else forgets no trampoline and starts no undo.
LEMMA QuietCallInv ==
  ASSUME HInv, UNCHANGED <<calls, trampoline>>,
         within' = "start" \/ UNCHANGED <<within, todo>>
  PROVE  CallInv'
<1>1. UndoNoted'
  BY DEF calls, HInv, CallInv, UndoNoted
<1>. QED
  BY <1>1, KeepsCallInv DEF calls, HInv, CallInv, HookTypeOK

-----------------------------------------------------------------------------
\* When the plugin is not mapped no call is inside it.
NobodyInside == stage = "out" => call = Outside

LEMMA NobodyInsideStep ==
  HInv /\ NobodyInside /\ [HookNext]_hookVars => NobodyInside'
<1>. SUFFICES ASSUME HInv, NobodyInside, [HookNext]_hookVars
              PROVE  NobodyInside'
  OBVIOUS
<1>1. CASE UNCHANGED hookVars
  BY <1>1 DEF hookVars, vars, calls, NobodyInside
<1>2. CASE OwnStep
  <2>1. CASE Installing
    BY <2>1 DEF Installing, Register, Created, Fail, Begin, NobodyInside
  <2>2. CASE TearingDown
    BY <2>2 DEF TearingDown, TearDown, NobodyInside
  <2>3. CASE \E ok \in BOOLEAN : Declare(ok) \/ Subscribe(ok)
    BY <2>3 DEF Declare, Subscribe, Fail, Begin, NobodyInside
  <2>4. CASE Registered \/ EndPass
    BY <2>4 DEF Registered, EndPass, NobodyInside
  <2>. QED
    BY <1>2, <2>1, <2>2, <2>3, <2>4 DEF OwnStep
<1>3. CASE OtherStep
  BY <1>3
  DEF OtherStep, Loading, Load, CreateContext, AddEntry, DestroyContext,
      DestroyPlugin, Begin, NobodyInside
<1>4. CASE Unloading
  BY <1>4 DEF Unloading, calls, NobodyInside
<1>5. ASSUME NEW e \in Hooked, EnterHook(e) PROVE NobodyInside'
  BY <1>5 DEF EnterHook, vars, HInv, IInv, Flags, NobodyInside
<1>6. ASSUME NEW e \in Hooked, InsideStep(e) PROVE NobodyInside'
  BY <1>6
  DEF InsideStep, CheckTrampoline, CallOriginal, vars, NobodyInside, Outside
<1>. QED
  BY <1>1, <1>2, <1>3, <1>4, <1>5, <1>6 DEF HookNext

\* No step of the composition breaks the account of the calls.
LEMMA StepCallInv ==
  HInv /\ NobodyInside /\ [HookNext]_hookVars => CallInv'
<1>. SUFFICES ASSUME HInv, NobodyInside, [HookNext]_hookVars PROVE CallInv'
  OBVIOUS
<1>1. CASE UNCHANGED hookVars
  BY <1>1, QuietCallInv DEF hookVars, vars
<1>2. CASE Installing
  BY <1>2, InstallingCallInv
<1>3. CASE TearingDown
  <2>1. /\ UNCHANGED <<calls, trampoline>> /\ within' = "start"
    BY <1>3 DEF TearingDown, TearDown, Uninstall, Advance, hooks
  <2>. QED
    BY <2>1, QuietCallInv
<1>4. ASSUME NEW ok \in BOOLEAN, Declare(ok) \/ Subscribe(ok), UNCHANGED calls
      PROVE  CallInv'
  <2>1. /\ UNCHANGED trampoline
        /\ within' = "start" \/ UNCHANGED <<within, todo>>
    BY <1>4 DEF Declare, Subscribe, Fail, Begin, hooks
  <2>. QED
    BY <1>4, <2>1, QuietCallInv
<1>5. CASE (Registered \/ EndPass) /\ UNCHANGED calls
  BY <1>5, QuietCallInv DEF Registered, EndPass, hooks
<1>6. CASE Loading
  BY <1>6, LoadingCallInv DEF Loading, Load, NobodyInside
<1>7. CASE (CreateContext \/ DestroyContext \/ DestroyPlugin)
           /\ UNCHANGED calls
  BY <1>7, QuietCallInv
  DEF CreateContext, DestroyContext, DestroyPlugin, Begin, hooks
<1>8. CASE AddEntry /\ UNCHANGED calls
  BY <1>8, QuietCallInv DEF AddEntry, hooks
<1>9. CASE Unloading
  BY <1>9, QuietCallInv DEF Unloading, Unload, hooks
<1>10. CASE \E e \in Hooked : EnterHook(e) \/ InsideStep(e)
  BY <1>10, EnterCallInv, InsideCallInv
<1>. QED
  BY <1>1, <1>2, <1>3, <1>4, <1>5, <1>6, <1>7, <1>8, <1>9, <1>10
  DEF HookNext, OwnStep, OtherStep

\* The composition's initial state.
LEMMA InitCallInv == HookInit => HInv /\ NobodyInside
<1>1. HookInit => IInv
  BY InitIInv DEF HookInit
<1>2. HookInit => CallInv /\ NobodyInside
  BY DEF HookInit, Init, Outside, CallInv, HookTypeOK, LosslessUnlessRefused,
         CallersCovered, UndoNoted, NobodyInside
<1>. QED
  BY <1>1, <1>2 DEF HInv

\* The calls take nothing from the lifecycle: whatever the plugin and the
\* engine's threads do together is a behaviour of PluginLifecycle.
THEOREM CallsKeepLifecycle == HookSpec => Spec
<1>1. HookInit => Init
  BY DEF HookInit
<1>. QED
  BY <1>1, StepOfLifecycle, PTL DEF HookSpec, Spec

\* A call through a hook is lost only if an installation of that hook was
\* refused in this load.
THEOREM CallsLossless == HookSpec => []LosslessUnlessRefused
<1>1. HInv /\ NobodyInside /\ [HookNext]_hookVars => (HInv /\ NobodyInside)'
  BY StepOfLifecycle, NextIInv, StepCallInv, NobodyInsideStep DEF HInv
<1>2. HInv => LosslessUnlessRefused
  BY DEF HInv, CallInv
<1>. QED
  BY <1>1, <1>2, InitCallInv, PTL DEF HookSpec
=============================================================================
