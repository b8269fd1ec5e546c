-------------------------- MODULE PlayerExtraTable --------------------------
(***************************************************************************)
(* The extension side table of natives/include/ykkz000/extra/              *)
(* player_extra.h: player buckets that own the entries of their cities and *)
(* units, and a raw-pointer index that finds an entry from its object.     *)
(*                                                                         *)
(* Every public operation runs under one exclusive lock, so each is one    *)
(* action.  The code keeps two child maps and two indexes, one for cities  *)
(* and one for units, with the same code line for line; here an object is  *)
(* either of them, and a bucket's children are both child maps together.   *)
(* Entries live at heap addresses, which are reused as soon as freed: this *)
(* is what makes a dangling index or a leaked entry expressible.  The id   *)
(* fields kept only for diagnostics are left out; `value' stands for the   *)
(* data an edit callback writes.                                           *)
(***************************************************************************)
CONSTANTS
  Players,   \* Player::Instance pointers
  Objects,   \* City::Instance and Unit::Instance pointers
  Owners,    \* PlayerTypes ids passed along with the pointers
  Values,    \* contents of an entry
  Fresh,     \* contents of a default-constructed entry
  Addrs,     \* heap addresses of entries
  Nil        \* nullptr, and an absent map key

ASSUME NilAssumption ==
  /\ Nil \notin Players
  /\ Nil \notin Addrs
  /\ Nil \notin [owner : Owners, player : Players, value : Values]

ASSUME FreshAssumption == Fresh \in Values

VARIABLES
  buckets,   \* the keys of table_
  children,  \* children[p][o]: the address p's child maps own for o
  index,     \* city_index_ and unit_index_
  heap       \* the entry at each address, Nil when not allocated

vars == <<buckets, children, index, heap>>

Entry == [owner : Owners, player : Players, value : Values]

\* The four maps as one value, so that the locked helpers compose.
Now == [buckets |-> buckets, children |-> children,
        index |-> index, heap |-> heap]

Put(s) ==
  /\ buckets' = s.buckets
  /\ children' = s.children
  /\ index' = s.index
  /\ heap' = s.heap

-----------------------------------------------------------------------------
(* The helpers that run with the lock held.                                *)

Childless(s, p) == \A o \in Objects : s.children[p][o] = Nil

\* Mutant: every bucket is kept.
ErasePlayerIfEmptyNever(s, p) == s

\* Mutant: the bucket goes, with whatever it still owns.
ErasePlayerEvenIfNotEmpty(s, p) ==
  [s EXCEPT !.buckets = @ \ {p},
            !.children[p] = [o \in Objects |-> Nil],
            !.heap = [a \in Addrs |->
                        IF \E o \in Objects : s.children[p][o] = a THEN Nil
                        ELSE s.heap[a]]]

ErasePlayerIfEmpty(s, p) ==
  IF Childless(s, p) THEN [s EXCEPT !.buckets = @ \ {p}] ELSE s

\* Dropping a map node runs the unique_ptr's destructor.
Release(h, a) == IF a = Nil THEN h ELSE [h EXCEPT ![a] = Nil]

EraseLocked(s, o) ==
  IF s.index[o] = Nil THEN s
  ELSE LET p == s.heap[s.index[o]].player
       IN IF p \notin s.buckets THEN [s EXCEPT !.index[o] = Nil]
          ELSE ErasePlayerIfEmpty(
                 [buckets  |-> s.buckets,
                  children |-> [s.children EXCEPT ![p][o] = Nil],
                  index    |-> [s.index EXCEPT ![o] = Nil],
                  heap     |-> Release(s.heap, s.children[p][o])], p)

\* Mutant: the moved entry still names its former player.
MoveToPlayerKeepsPlayer(s, p, o) ==
  LET a   == s.index[o]
      old == s.heap[a].player
      t   == ErasePlayerIfEmpty([s EXCEPT !.children[old][o] = Nil], old)
  IN IF p = Nil \/ old = p THEN s
     ELSE [t EXCEPT !.buckets = @ \cup {p}, !.children[p][o] = a]

\* Mutant: the entry is copied to a new node instead of transferred.
MoveToPlayerCopies(s, p, o) ==
  LET a   == s.index[o]
      old == s.heap[a].player
      b   == CHOOSE x \in Addrs : s.heap[x] = Nil
      t   == ErasePlayerIfEmpty([s EXCEPT !.children[old][o] = Nil], old)
  IN IF p = Nil \/ old = p THEN s
     ELSE [t EXCEPT !.buckets = @ \cup {p},
                    !.children[p][o] = b,
                    !.index[o] = b,
                    !.heap[a] = Nil,
                    !.heap[b] = [s.heap[a] EXCEPT !.player = p]]

MoveToPlayer(s, p, o) ==
  LET a    == s.index[o]
      old  == s.heap[a].player
      node == s.children[old][o]
      t    == ErasePlayerIfEmpty([s EXCEPT !.children[old][o] = Nil], old)
  IN IF p = Nil \/ old = p \/ old \notin s.buckets \/ node = Nil THEN s
     ELSE [buckets  |-> t.buckets \cup {p},
           children |-> [t.children EXCEPT ![p][o] = node],
           index    |-> s.index,
           heap     |-> [s.heap EXCEPT ![a].player = p]]

\* Mutant: a new entry does not name its bucket.
FindOrCreateUnnamed(s, p, o, w, a) ==
  IF s.index[o] # Nil
  THEN MoveToPlayer([s EXCEPT !.heap[s.index[o]].owner = w], p, o)
  ELSE IF p = Nil THEN s
  ELSE [s EXCEPT !.buckets = @ \cup {p}, !.children[p][o] = a, !.index[o] = a,
                 !.heap[a] = [owner |-> w, player |-> Nil, value |-> Fresh]]

\* Mutant: the index is not consulted; emplace keeps what is there.
FindOrCreateAlwaysCreates(s, p, o, w, a) ==
  IF p = Nil \/ s.children[p][o] # Nil THEN s
  ELSE [s EXCEPT !.buckets = @ \cup {p}, !.children[p][o] = a,
                 !.index[o] = IF @ = Nil THEN a ELSE @,
                 !.heap[a] = [owner |-> w, player |-> p, value |-> Fresh]]

\* `a' is the address the allocator would return.
FindOrCreate(s, p, o, w, a) ==
  IF s.index[o] # Nil
  THEN MoveToPlayer([s EXCEPT !.heap[s.index[o]].owner = w], p, o)
  ELSE IF p = Nil THEN s
  ELSE [buckets  |-> s.buckets \cup {p},
        children |-> [s.children EXCEPT ![p][o] = a],
        index    |-> [s.index EXCEPT ![o] = a],
        heap     |-> [s.heap EXCEPT ![a] =
                        [owner |-> w, player |-> p, value |-> Fresh]]]

Free(s) == {a \in Addrs : s.heap[a] = Nil}

-----------------------------------------------------------------------------
(* The public operations.  A null object pointer returns at once and is    *)
(* not modelled; a null player is passed where the code accepts one.       *)

\* Mutant: construction does not reset a recycled pointer's entry.
EnsureWithoutErase(p, o, w) ==
  \E a \in Free(Now) : Put(FindOrCreate(Now, p, o, w, a))

\* EnsureCity, EnsureUnit
Ensure(p, o, w) ==
  LET s == EraseLocked(Now, o)
  IN \E a \in Free(s) : Put(FindOrCreate(s, p, o, w, a))

\* EditCity, EditUnit; the callback writes v.
Edit(p, o, w, v) ==
  \E a \in Free(Now) :
    LET s == FindOrCreate(Now, p, o, w, a)
    IN Put(IF s.index[o] = Nil THEN s
           ELSE [s EXCEPT !.heap[s.index[o]].value = v])

\* FindCity; FindUnitStrength returns one field of the same entry.
Find(o) == IF index[o] = Nil THEN Nil ELSE heap[index[o]]

\* ReparentCity, ReparentUnit
Reparent(p, o, w) ==
  /\ index[o] # Nil
  /\ Put(MoveToPlayer([Now EXCEPT !.heap[index[o]].owner = w], p, o))

\* EraseCity, EraseUnit
Erase(o) ==
  /\ index[o] # Nil
  /\ Put(EraseLocked(Now, o))

EnsurePlayer(p) ==
  /\ buckets' = buckets \cup {p}
  /\ UNCHANGED <<children, index, heap>>

Owned(p) == {children[p][o] : o \in Objects} \ {Nil}

\* Mutant: the bucket goes, the indexes of its objects stay.
DropPlayerKeepsIndex(p) ==
  /\ p \in buckets
  /\ buckets' = buckets \ {p}
  /\ children' = [children EXCEPT ![p] = [o \in Objects |-> Nil]]
  /\ heap' = [a \in Addrs |-> IF a \in Owned(p) THEN Nil ELSE heap[a]]
  /\ UNCHANGED index

DropPlayer(p) ==
  /\ p \in buckets
  /\ buckets' = buckets \ {p}
  /\ children' = [children EXCEPT ![p] = [o \in Objects |-> Nil]]
  /\ index' = [o \in Objects |->
                 IF children[p][o] # Nil THEN Nil ELSE index[o]]
  /\ heap' = [a \in Addrs |-> IF a \in Owned(p) THEN Nil ELSE heap[a]]

Clear ==
  /\ buckets' = {}
  /\ children' = [p \in Players |-> [o \in Objects |-> Nil]]
  /\ index' = [o \in Objects |-> Nil]
  /\ heap' = [a \in Addrs |-> Nil]

Init ==
  /\ buckets = {}
  /\ children = [p \in Players |-> [o \in Objects |-> Nil]]
  /\ index = [o \in Objects |-> Nil]
  /\ heap = [a \in Addrs |-> Nil]

Next ==
  \/ \E p \in Players \cup {Nil}, o \in Objects, w \in Owners :
       \/ Ensure(p, o, w)
       \/ \E v \in Values : Edit(p, o, w, v)
  \/ \E p \in Players, o \in Objects, w \in Owners : Reparent(p, o, w)
  \/ \E o \in Objects : Erase(o)
  \/ \E p \in Players : EnsurePlayer(p) \/ DropPlayer(p)
  \/ Clear

Spec == Init /\ [][Next]_vars

-----------------------------------------------------------------------------
(* Properties.                                                             *)

Store == [buckets : SUBSET Players,
          children : [Players -> [Objects -> Addrs \cup {Nil}]],
          index : [Objects -> Addrs \cup {Nil}],
          heap : [Addrs -> Entry \cup {Nil}]]

\* The type invariant: every map of the table holds what it is declared to.
TypeOK == Now \in Store

Linked(s) ==
  \A o \in Objects :
    LET a == s.index[o]
    IN a # Nil => /\ s.heap[a] # Nil
                  /\ s.heap[a].player \in s.buckets
                  /\ s.children[s.heap[a].player][o] = a

\* A raw index pointer never dangles: it names an allocated entry, the entry
\* names a bucket that exists, and that bucket owns this very entry for this
\* object (city_index_ and unit_index_ against the unique_ptr child maps).
IndexLinked == Linked(Now)

Reachable(s) ==
  \A p \in Players, o \in Objects :
    LET a == s.children[p][o]
    IN a # Nil => /\ p \in s.buckets
                  /\ s.index[o] = a
                  /\ s.heap[a].player = p

\* No entry becomes unreachable: whatever a bucket owns, the index finds and
\* the entry names that bucket, so no object has entries under two players
\* and no capture loses one ("a capture that changes the owner can never make
\* an existing entry unreachable").
EntryReachable == Reachable(Now)

Exclusive(s) ==
  /\ \A o1, o2 \in Objects :
       s.index[o1] = s.index[o2] /\ s.index[o1] # Nil => o1 = o2
  /\ \A a \in Addrs : s.heap[a] # Nil => \E o \in Objects : s.index[o] = a

\* One entry per object and one object per entry, and no allocated entry
\* that nothing owns: the unique_ptr ownership of the child maps.
OwnershipExclusive == Exclusive(Now)

EmptyBucket(p) == p \in buckets /\ \A o \in Objects : children[p][o] = Nil

\* Erasing, moving and dropping leave no empty player bucket behind: a bucket
\* is empty only if it was already, or EnsurePlayer asked for it.
NoBucketLeftEmpty ==
  [][\A p \in Players :
       EmptyBucket(p)' => EmptyBucket(p) \/ EnsurePlayer(p)]_vars

\* An edit or a change of owner transfers the map node: the entry stays at
\* its address, which is what keeps the raw index valid without an update.
AddressStable ==
  [][\A o \in Objects :
       index[o] # Nil /\ index'[o] # Nil =>
         \/ index'[o] = index[o]
         \/ \E p \in Players, w \in Owners : Ensure(p, o, w)]_vars

ext == [o \in Objects |-> Find(o)]

\* A new object never inherits the entry of a former one at its address,
\* whose destructor was missed: whatever was recorded, under whichever player,
\* its construction leaves a fresh entry, or none when it has no player yet,
\* and no other object's entry is touched on the way.
ConstructedFresh ==
  [][\A p \in Players \cup {Nil}, o \in Objects, w \in Owners :
       Ensure(p, o, w) =>
         /\ ext'[o] = IF p = Nil THEN Nil
                      ELSE [owner |-> w, player |-> p, value |-> Fresh]
         /\ \A x \in Objects \ {o} : ext'[x] = ext[x]]_vars

Map == INSTANCE ExtensionMap

\* Buckets, indexes and moves are invisible to the callers: the table
\* implements the plain map from objects to entries.
ImplementsMap == Map!MapSpec
=============================================================================
