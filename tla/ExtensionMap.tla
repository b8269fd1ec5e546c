---------------------------- MODULE ExtensionMap ----------------------------
(***************************************************************************)
(* What the extension side table promises its callers, with no buckets, no *)
(* indexes and no heap: a map from engine objects (cities and units) to    *)
(* extension entries.  A lookup needs the object alone; a change of owner  *)
(* keeps the entry; a newly constructed object starts from a fresh entry.  *)
(* PlayerExtraTable is shown to implement this module.                     *)
(***************************************************************************)
CONSTANTS Players, Objects, Owners, Values, Fresh, Nil

Entry == [owner : Owners, player : Players, value : Values]

VARIABLE ext  \* ext[o] is the entry of o, Nil when it has none

MapTypeOK == ext \in [Objects -> Entry \cup {Nil}]

MapInit == ext = [o \in Objects |-> Nil]

\* A newly constructed object: whatever an earlier object at this address
\* left behind is gone.  Without an owner no entry is made.
New(p, o, w) ==
  ext' = [ext EXCEPT ![o] =
            IF p = Nil THEN Nil
            ELSE [owner |-> w, player |-> p, value |-> Fresh]]

\* An edit creates a missing entry when the owner is known, and keeps an
\* existing one under its object whatever owner is given.
Change(p, o, w, v) ==
  \/ /\ ext[o] = Nil /\ p = Nil
     /\ UNCHANGED ext
  \/ /\ ext[o] = Nil /\ p # Nil
     /\ ext' = [ext EXCEPT ![o] = [owner |-> w, player |-> p, value |-> v]]
  \/ /\ ext[o] # Nil
     /\ ext' = [ext EXCEPT ![o] =
                  [owner |-> w,
                   player |-> IF p = Nil THEN ext[o].player ELSE p,
                   value |-> v]]

\* An owner change alone: the recorded value survives.
Transfer(p, o, w) ==
  /\ ext[o] # Nil
  /\ ext' = [ext EXCEPT ![o] =
               [owner |-> w, player |-> p, value |-> ext[o].value]]

Forget(o) == ext' = [ext EXCEPT ![o] = Nil]

\* An eliminated player takes exactly its own objects' entries along.
ForgetPlayer(p) ==
  ext' = [o \in Objects |->
            IF ext[o] # Nil /\ ext[o].player = p THEN Nil ELSE ext[o]]

ForgetAll == ext' = [o \in Objects |-> Nil]

MapNext ==
  \/ \E p \in Players \cup {Nil}, o \in Objects, w \in Owners :
       \/ New(p, o, w)
       \/ \E v \in Values : Change(p, o, w, v)
  \/ \E p \in Players, o \in Objects, w \in Owners : Transfer(p, o, w)
  \/ \E o \in Objects : Forget(o)
  \/ \E p \in Players : ForgetPlayer(p)
  \/ ForgetAll

MapSpec == MapInit /\ [][MapNext]_ext
=============================================================================
