------------------------------ MODULE HookCalls ------------------------------
(***************************************************************************)
(* The calls the engine makes through an intercepted target while the      *)
(* plugin is loaded, between games and torn down: PluginLifecycle together *)
(* with the first lines of the two detours.                                *)
(*                                                                         *)
(* A detour looks whether its Original pointer is null, in which case the  *)
(* engine's call is dropped, and then calls through it.  Neither access    *)
(* takes the mutex the installation holds, and a call that is already      *)
(* inside goes on when its target is given back.                           *)
(*                                                                         *)
(* External, as in PluginLifecycle; and the loader unmaps the plugin only  *)
(* when no engine thread is inside a detour, which the plugin itself does  *)
(* nothing to ensure.                                                      *)
(***************************************************************************)
EXTENDS PluginLifecycle

VARIABLES
  call,     \* where the engine's call through each hook is
  lost,     \* history: the hooks that lost a call in this load
  refused   \* history: the hooks whose installation failed in this load

calls == <<call, lost, refused>>
hookVars == <<vars, calls>>

Outside == [e \in Hooked |-> "outside"]

-----------------------------------------------------------------------------
(* The detours.                                                            *)

EnterHook(e) ==
  /\ e \in enabled /\ call[e] = "outside"
  /\ call' = [call EXCEPT ![e] = "entered"]
  /\ UNCHANGED <<vars, lost, refused>>

\* A null pointer: the call returns at once and the engine's function never
\* runs.
CheckTrampoline(e) ==
  /\ call[e] = "entered"
  /\ IF e \in trampoline
     THEN call' = [call EXCEPT ![e] = "checked"] /\ UNCHANGED lost
     ELSE /\ call' = [call EXCEPT ![e] = "outside"]
          /\ lost' = lost \cup {e}
  /\ UNCHANGED <<vars, refused>>

\* The pointer is not atomic: the compiler may keep the value it checked or
\* read it again, and find null this time.
CallOriginal(e) ==
  /\ call[e] = "checked"
  /\ call' = [call EXCEPT ![e] = "outside"]
  /\ \/ UNCHANGED lost
     \/ e \notin trampoline /\ lost' = lost \cup {e}
  /\ UNCHANGED <<vars, refused>>

-----------------------------------------------------------------------------
(* The lifecycle around them.                                              *)

\* An installation that fails starts to be undone.
NoteRefusal ==
  refused' = IF within # "undo" /\ within' = "undo"
             THEN refused \cup {Head(todo)} ELSE refused

Installing ==
  /\ Register \/ Created
  /\ NoteRefusal
  /\ UNCHANGED <<call, lost>>

\* Mutant: a target is given back only once no call is inside.
TearingDownWaits ==
  /\ TearDown
  /\ Head(todo) \in Hooked => call[Head(todo)] = "outside"
  /\ UNCHANGED calls

TearingDown == TearDown /\ UNCHANGED calls

Loading ==
  /\ Load
  /\ lost' = {} /\ refused' = {}
  /\ UNCHANGED call

Unloading == Unload /\ call = Outside /\ UNCHANGED calls

\* What the plugin does of its own once it has been called: the steps of
\* GetPlugin, of OnGameContext and of DestroyPlugin.
OwnStep ==
  \/ Installing \/ TearingDown
  \/ /\ \/ \E ok \in BOOLEAN : Declare(ok) \/ Subscribe(ok)
        \/ Registered \/ EndPass
     /\ UNCHANGED calls

\* What the loader and the game decide.
OtherStep ==
  \/ Loading
  \/ CreateContext /\ UNCHANGED calls
  \/ AddEntry /\ UNCHANGED calls
  \/ DestroyContext /\ UNCHANGED calls
  \/ DestroyPlugin /\ UNCHANGED calls

InsideStep(e) == CheckTrampoline(e) \/ CallOriginal(e)

HookInit == Init /\ call = Outside /\ lost = {} /\ refused = {}

HookNext ==
  \/ OwnStep \/ OtherStep \/ Unloading
  \/ \E e \in Hooked : EnterHook(e) \/ InsideStep(e)

HookSpec == HookInit /\ [][HookNext]_hookVars

\* The plugin's functions run to their end on the thread that called them,
\* so do the detours, and the loader unmaps a module that it may unmap.  No
\* fairness of the engine's calls, of the game or of the loader's decisions.
FairHookSpec ==
  /\ HookSpec
  /\ WF_hookVars(OwnStep)
  /\ WF_hookVars(Unloading)
  /\ \A e \in Hooked : WF_hookVars(InsideStep(e))

-----------------------------------------------------------------------------
(* Properties.                                                             *)

\* The type invariant of the calls.
HookTypeOK ==
  /\ call \in [Hooked -> {"outside", "entered", "checked"}]
  /\ lost \subseteq Hooked /\ refused \subseteq Hooked

\* The engine loses a call only through a hook whose installation was refused
\* in this load.  An ordinary end of a game or of the plugin loses none,
\* even for a thread that entered before the target was given back: the
\* trampoline is forgotten nowhere but in the undo of an installation.
LosslessUnlessRefused == lost \subseteq refused

\* Once it starts to shut down, after a failed GetPlugin or by DestroyPlugin,
\* the plugin gives back every target and is unloaded, however often the
\* engine goes on calling.
GivenBack == stage = "shutdown" ~> stage = "out" /\ enabled = {}

\* GetPlugin always answers, with 0 or 1, whatever the host refuses.
AnswersLoader == stage = "declare" ~> result \in {0, 1}
=============================================================================
