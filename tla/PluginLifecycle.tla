--------------------------- MODULE PluginLifecycle --------------------------
(***************************************************************************)
(* Loading, game contexts and unloading: plugin.cpp, the hook management   *)
(* of the two effects that have one, and the shared table they clear.      *)
(*                                                                         *)
(* GetPlugin runs through checks, declarations, registrations (whose       *)
(* prepare step installs the effect's hook) and the subscription to object *)
(* events; any of them may fail, and the loader then unloads the plugin.   *)
(* A loaded plugin gets an event per game context and visits its effects   *)
(* in the order of the manifest.                                           *)
(*                                                                         *)
(* External, from host.h and the comments of the code: installHook is      *)
(* idempotent, writes the trampoline before it lets the target be          *)
(* intercepted, and may report failure although the target is taken over;  *)
(* removeHook succeeds; the loader calls DestroyPlugin before it unloads,  *)
(* after a failed GetPlugin too.                                           *)
(***************************************************************************)
EXTENDS Naturals, Sequences, FiniteSets

CONSTANTS
  Effects,      \* GetAllEffects(): a sequence of effect names
  Hooked,       \* those with a hook of their own
  MaxGames,     \* bound: game contexts per load
  MaxLoads,     \* bound: how often the plugin is loaded
  Nil

ASSUME EffectsAssumption ==
  /\ Effects \in Seq({Effects[n] : n \in DOMAIN Effects})
  /\ Hooked \subseteq {Effects[n] : n \in DOMAIN Effects}
  /\ Hooked # {}
  /\ MaxGames \in Nat /\ MaxLoads \in Nat \ {0}

VARIABLES
  stage,       \* where the plugin is: see Stages
  todo,        \* the effects the current pass still has to visit
  within,      \* where InstallHooksOnce is, for the first of them
  result,      \* what GetPlugin returned
  enabled,     \* host: the targets that are intercepted
  trampoline,  \* the effects whose Original pointer is not null
  flag,        \* the effects whose Installed flag is set
  subscribed,  \* the loads whose callbacks the persistence plugin holds
  game,        \* the number of the current game context, 0 for none
  content,     \* the games whose objects have entries in the table
  games, loads \* how many there have been

vars == <<stage, todo, within, result, enabled, trampoline, flag, subscribed,
          game, content, games, loads>>

Stages == {"out", "declare", "register", "subscribe", "ready",
           "created", "destroyed", "shutdown"}

hooks == <<enabled, trampoline, flag>>
counts == <<games, loads>>

-----------------------------------------------------------------------------
(* Hooks.                                                                  *)

\* InstallHooksOnce, up to the host's answer.
Install(e) ==
  /\ within = "start"
  /\ \/ \* the host lacks a function, or the engine the target
        /\ within' = "done"
        /\ UNCHANGED hooks
     \/ \* already in place, or the host takes the target over
        /\ enabled' = enabled \cup {e}
        /\ trampoline' = trampoline \cup {e}
        /\ flag' = flag \cup {e}
        /\ within' = "done"
     \/ \* the host reports a failure, rightly or not
        /\ ~ (e \in flag /\ e \in trampoline)
        /\ \/ UNCHANGED <<enabled, trampoline>>
           \/ enabled' = enabled \cup {e} /\ trampoline' = trampoline \cup {e}
        /\ within' = "undo"
        /\ UNCHANGED flag

\* Mutant: the two halves of the undo are swapped.
UndoForgetsFirst(e) ==
  \/ /\ within = "undo"
     /\ trampoline' = trampoline \ {e} /\ flag' = flag \ {e}
     /\ within' = "forget"
     /\ UNCHANGED enabled
  \/ /\ within = "forget"
     /\ enabled' = enabled \ {e}
     /\ within' = "done"
     /\ UNCHANGED <<trampoline, flag>>

\* Mutant: a target the host says it did not take over is not given back.
UndoKeepsHook(e) ==
  /\ within = "undo"
  /\ flag' = flag \ {e}
  /\ within' = "done"
  /\ UNCHANGED <<enabled, trampoline>>

\* Mutant: an installation that failed is tried again until it succeeds.
UndoRetries(e) ==
  \/ /\ within = "undo"
     /\ enabled' = enabled \ {e}
     /\ within' = "forget"
     /\ UNCHANGED <<trampoline, flag>>
  \/ /\ within = "forget"
     /\ trampoline' = trampoline \ {e} /\ flag' = flag \ {e}
     /\ within' = "start"
     /\ UNCHANGED enabled

\* The failure path: first the target is given back, then the trampoline is
\* forgotten.
UndoInstall(e) ==
  \/ /\ within = "undo"
     /\ enabled' = enabled \ {e}
     /\ within' = "forget"
     /\ UNCHANGED <<trampoline, flag>>
  \/ /\ within = "forget"
     /\ trampoline' = trampoline \ {e} /\ flag' = flag \ {e}
     /\ within' = "done"
     /\ UNCHANGED enabled

\* Mutant: the table is left for the next game to clear.
UninstallKeepsTable(e) ==
  /\ enabled' = IF e \in flag THEN enabled \ {e} ELSE enabled
  /\ flag' = flag \ {e}
  /\ UNCHANGED <<trampoline, content>>

\* Mutant: the flag is cleared before it is looked at.
UninstallForgetsFirst(e) ==
  /\ flag' = flag \ {e}
  /\ content' = {}
  /\ UNCHANGED <<enabled, trampoline>>

\* Mutant: the trampoline is forgotten with the target.
UninstallForgetsTrampoline(e) ==
  /\ enabled' = IF e \in flag THEN enabled \ {e} ELSE enabled
  /\ flag' = flag \ {e}
  /\ trampoline' = trampoline \ {e}
  /\ content' = {}

\* UninstallHook: give the target back if we hold it, and clear the table.
Uninstall(e) ==
  /\ enabled' = IF e \in flag THEN enabled \ {e} ELSE enabled
  /\ flag' = flag \ {e}
  /\ content' = {}
  /\ UNCHANGED trampoline

-----------------------------------------------------------------------------
(* Passes over the effects.                                                *)

\* The pass is done with its first effect.
Advance == todo' = Tail(todo) /\ within' = "start"

\* A pass over all effects begins.
Begin(s) == stage' = s /\ todo' = Effects /\ within' = "start"

\* GetPlugin gives up: it returns 0 and the loader unloads the plugin.
Fail == result' = 0 /\ Begin("shutdown")

-----------------------------------------------------------------------------
(* GetPlugin.                                                              *)

\* The plugin is mapped; its statics are fresh.
Load ==
  /\ stage = "out" /\ loads < MaxLoads
  /\ loads' = loads + 1 /\ games' = 0
  /\ stage' = "declare" /\ result' = Nil
  /\ trampoline' = {} /\ flag' = {}
  /\ UNCHANGED <<todo, within, enabled, subscribed, game, content>>

\* The host, the two APIs and the persisted variables are in order or not.
Declare(ok) ==
  /\ stage = "declare"
  /\ IF ok THEN Begin("register") /\ UNCHANGED result ELSE Fail
  /\ UNCHANGED <<hooks, subscribed, game, content, counts>>

\* Mutant: the callbacks are subscribed before the effects are registered.
RegisterSubscribesFirst ==
  /\ stage = "register" /\ todo # <<>>
  /\ subscribed' = subscribed \cup {loads}
  /\ LET e == Head(todo)
     IN \/ /\ within = "start" /\ Fail
           /\ UNCHANGED hooks
        \/ /\ e \in Hooked /\ UNCHANGED <<stage, todo, result>>
           /\ Install(e) \/ UndoInstall(e)
        \/ /\ e \notin Hooked \/ within = "done"
           /\ Advance /\ UNCHANGED <<stage, result, hooks>>
  /\ UNCHANGED <<game, content, counts>>

\* One effect is registered; its prepare installs its hook and reports
\* success whatever became of that.
Register ==
  /\ stage = "register" /\ todo # <<>>
  /\ LET e == Head(todo)
     IN \/ /\ within = "start" /\ Fail            \* registration refused
           /\ UNCHANGED hooks
        \/ /\ e \in Hooked /\ UNCHANGED <<stage, todo, result>>
           /\ Install(e) \/ UndoInstall(e)
        \/ /\ e \notin Hooked \/ within = "done"
           /\ Advance /\ UNCHANGED <<stage, result, hooks>>
  /\ UNCHANGED <<subscribed, game, content, counts>>

Registered ==
  /\ stage = "register" /\ todo = <<>>
  /\ stage' = "subscribe"
  /\ UNCHANGED <<todo, within, result, hooks, subscribed, game, content, counts>>

\* RegisterObjectLifecycle, and GetPlugin returns 1.
Subscribe(ok) ==
  /\ stage = "subscribe"
  /\ IF ok THEN /\ subscribed' = subscribed \cup {loads}
                /\ result' = 1 /\ stage' = "ready"
                /\ UNCHANGED <<todo, within>>
           ELSE Fail /\ UNCHANGED subscribed
  /\ UNCHANGED <<hooks, game, content, counts>>

-----------------------------------------------------------------------------
(* Game contexts.                                                          *)

CreateContext ==
  /\ stage = "ready" /\ game = 0 /\ games < MaxGames
  /\ games' = games + 1 /\ game' = games + 1
  /\ Begin("created")
  /\ UNCHANGED <<result, hooks, subscribed, content, loads>>

\* The effects' OnContext for kCreated: install, then clear.
Created ==
  /\ stage = "created" /\ todo # <<>>
  /\ LET e == Head(todo)
     IN \/ /\ e \in Hooked /\ UNCHANGED <<todo, content>>
           /\ Install(e) \/ UndoInstall(e)
        \/ /\ e \in Hooked /\ within = "done"
           /\ content' = {} /\ Advance /\ UNCHANGED hooks
        \/ /\ e \notin Hooked
           /\ Advance /\ UNCHANGED <<hooks, content>>
  /\ UNCHANGED <<stage, result, subscribed, game, counts>>

\* Mutant: it gets one when no game is on, too.
AddEntryAnytime ==
  /\ stage \in {"ready", "created"}
  /\ content' = content \cup {game}
  /\ UNCHANGED <<stage, todo, within, result, hooks, subscribed, game, counts>>

\* An object of the current game gets its entry, by its constructor's
\* callback or by an effect.
AddEntry ==
  /\ stage \in {"ready", "created"} /\ game # 0
  /\ content' = content \cup {game}
  /\ UNCHANGED <<stage, todo, within, result, hooks, subscribed, game, counts>>

DestroyContext ==
  /\ stage = "ready" /\ game # 0
  /\ game' = 0
  /\ Begin("destroyed")
  /\ UNCHANGED <<result, hooks, subscribed, content, counts>>

\* OnContext for kDestroyed, and Shutdown.
TearDown ==
  /\ stage \in {"destroyed", "shutdown"} /\ todo # <<>>
  /\ IF Head(todo) \in Hooked THEN Uninstall(Head(todo))
                              ELSE UNCHANGED <<hooks, content>>
  /\ Advance
  /\ UNCHANGED <<stage, result, subscribed, game, counts>>

EndPass ==
  /\ stage \in {"created", "destroyed"} /\ todo = <<>>
  /\ stage' = "ready"
  /\ UNCHANGED <<todo, within, result, hooks, subscribed, game, content, counts>>

-----------------------------------------------------------------------------
(* DestroyPlugin.                                                          *)

DestroyPlugin ==
  /\ stage = "ready" /\ game = 0
  /\ Begin("shutdown")
  /\ UNCHANGED <<result, hooks, subscribed, game, content, counts>>

\* The module is gone.  Nothing takes the subscription back.
Unload ==
  /\ stage = "shutdown" /\ todo = <<>>
  /\ stage' = "out"
  /\ UNCHANGED <<todo, within, result, hooks, subscribed, game, content,
                 counts>>

Init ==
  /\ stage = "out" /\ todo = <<>> /\ within = "start" /\ result = Nil
  /\ enabled = {} /\ trampoline = {} /\ flag = {}
  /\ subscribed = {}
  /\ game = 0 /\ content = {} /\ games = 0 /\ loads = 0

Next ==
  \/ Load
  \/ \E ok \in BOOLEAN : Declare(ok) \/ Subscribe(ok)
  \/ Register \/ Registered
  \/ CreateContext \/ Created \/ AddEntry \/ DestroyContext
  \/ TearDown \/ EndPass
  \/ DestroyPlugin \/ Unload

Spec == Init /\ [][Next]_vars

-----------------------------------------------------------------------------
(* Properties.                                                             *)

\* The type invariant.
TypeOK ==
  /\ stage \in Stages
  /\ Len(todo) <= Len(Effects)
  /\ within \in {"start", "undo", "forget", "done"}
  /\ result \in {0, 1, Nil}
  /\ enabled \subseteq Hooked /\ trampoline \subseteq Hooked
  /\ flag \subseteq Hooked
  /\ subscribed \subseteq 1 .. MaxLoads
  /\ game \in 0 .. MaxGames /\ content \subseteq 1 .. MaxGames
  /\ games \in 0 .. MaxGames /\ loads \in 0 .. MaxLoads

\* An intercepted target always has its trampoline, in the middle of a failed
\* installation too: the detour never has to swallow a call ("reversing the
\* order would leave an enabled but null trampoline state where the detour
\* swallows every engine call").
TrampolineWhileEnabled == enabled \subseteq trampoline

\* Between passes the Installed flags say what the host does, so that the
\* next Uninstall gives back exactly what is taken: also when a failure was
\* reported for a hook that is in place.
FlagsTellTheTruth ==
  stage \in {"ready", "subscribe", "out"} => flag = enabled

\* A plugin that is unloaded, after a success or after a failure at any point
\* of GetPlugin, intercepts nothing and leaves no entry in the table.
NothingLeftBehind == stage = "out" => enabled = {} /\ content = {}

\* A load that failed has not left its callbacks with the persistence plugin
\* ("subscribing the lifecycle callbacks afterwards would leave a dangling
\* subscriber").
FailedLoadSubscribesNothing ==
  stage = "out" /\ result = 0 => loads \notin subscribed

\* Between passes the table holds objects of the current game only: an
\* address of an earlier game never finds an entry.
NoResidue == stage = "ready" => content \subseteq {game} \ {0}
=============================================================================
