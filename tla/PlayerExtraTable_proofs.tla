---------------------- MODULE PlayerExtraTable_proofs ----------------------
(***************************************************************************)
(* Proofs about the side table, for any number of players, objects and     *)
(* heap addresses.  The inductive invariant is Wellformed: types, the      *)
(* index-to-bucket link, its converse, and exclusive ownership.  None of   *)
(* the parts is inductive alone: creating an entry needs a free address    *)
(* that no index names (Linked), and moving one needs the bucket to own    *)
(* exactly the entry the index finds (Reachable).  On it rest the action   *)
(* properties and the refinement: what each helper does is stated as what  *)
(* it changes in the lookups, and the refinement follows step by step.     *)
(***************************************************************************)
EXTENDS PlayerExtraTable, TLAPS

Wellformed(s) == s \in Store /\ Linked(s) /\ Reachable(s) /\ Exclusive(s)

IInv == Wellformed(Now)

-----------------------------------------------------------------------------
(* The locked helpers keep a table well formed.                            *)

\* Looking an object up in a well-formed table finds the one entry its
\* owner's bucket holds for it (FindOrCreate, EraseLocked and MoveToPlayer
\* follow this pointer before they check anything).
LEMMA EntryOf ==
  ASSUME NEW s, Wellformed(s), NEW o \in Objects, s.index[o] # Nil
  PROVE  /\ s.index[o] \in Addrs
         /\ s.heap[s.index[o]] \in Entry
         /\ s.heap[s.index[o]].player \in Players
         /\ s.heap[s.index[o]].player \in s.buckets
         /\ s.children[s.heap[s.index[o]].player][o] = s.index[o]
BY DEF Wellformed, Store, Linked, Entry

\* Erasing an empty bucket disturbs nothing else.
LEMMA ErasePlayerWellformed ==
  ASSUME NEW s, Wellformed(s), NEW p \in Players
  PROVE  Wellformed(ErasePlayerIfEmpty(s, p))
<1>1. CASE ~ Childless(s, p)
  BY <1>1 DEF ErasePlayerIfEmpty
<1>2. CASE Childless(s, p)
  <2> DEFINE t == [s EXCEPT !.buckets = @ \ {p}]
  <2>1. ErasePlayerIfEmpty(s, p) = t
    BY <1>2 DEF ErasePlayerIfEmpty
  <2>2. /\ t \in Store
        /\ t.buckets = s.buckets \ {p}
        /\ t.children = s.children
        /\ t.index = s.index
        /\ t.heap = s.heap
    BY DEF Wellformed, Store
  <2>3. Linked(t)
    BY <1>2, <2>2, NilAssumption DEF Wellformed, Linked, Childless, Store
  <2>4. Reachable(t)
    BY <1>2, <2>2 DEF Wellformed, Reachable, Childless
  <2>5. Exclusive(t)
    BY <2>2 DEF Wellformed, Exclusive
  <2>6. QED BY <2>1, <2>2, <2>3, <2>4, <2>5 DEF Wellformed
<1>3. QED BY <1>1, <1>2

\* Erasing an object's entry removes its index record, its bucket slot and
\* its storage together (EraseCityLocked, EraseUnitLocked).
LEMMA EraseWellformed ==
  ASSUME NEW s, Wellformed(s), NEW o \in Objects
  PROVE  /\ Wellformed(EraseLocked(s, o))
         /\ EraseLocked(s, o).index[o] = Nil
<1>1. CASE s.index[o] = Nil
  BY <1>1 DEF EraseLocked
<1>2. CASE s.index[o] # Nil
  <2> DEFINE a == s.index[o]
             p == s.heap[a].player
             t == [buckets  |-> s.buckets,
                   children |-> [s.children EXCEPT ![p][o] = Nil],
                   index    |-> [s.index EXCEPT ![o] = Nil],
                   heap     |-> Release(s.heap, s.children[p][o])]
  <2>1. /\ a \in Addrs
        /\ s.heap[a] \in Entry
        /\ p \in Players
        /\ p \in s.buckets
        /\ s.children[p][o] = a
    BY <1>2, EntryOf
  <2>2. EraseLocked(s, o) = ErasePlayerIfEmpty(t, p)
    BY <1>2, <2>1 DEF EraseLocked
  <2>3. /\ t \in Store
        /\ t.buckets = s.buckets
        /\ t.children = [s.children EXCEPT ![p][o] = Nil]
        /\ t.index = [s.index EXCEPT ![o] = Nil]
        /\ t.heap = [s.heap EXCEPT ![a] = Nil]
    BY <1>2, <2>1 DEF Wellformed, Store, Release
  <2>4. \A q \in Objects : q # o => t.index[q] # a
    BY <1>2, <2>3 DEF Wellformed, Exclusive, Store
  <2> HIDE DEF t
  <2>5. Linked(t)
    <3> SUFFICES ASSUME NEW x \in Objects, t.index[x] # Nil
                 PROVE  /\ t.heap[t.index[x]] # Nil
                        /\ t.heap[t.index[x]].player \in t.buckets
                        /\ t.children[t.heap[t.index[x]].player][x] = t.index[x]
      BY DEF Linked
    <3>1. s.index \in [Objects -> Addrs \cup {Nil}] /\ s.heap \in [Addrs -> Entry \cup {Nil}]
      BY DEF Wellformed, Store
    <3>2. x # o /\ t.index[x] = s.index[x]
      BY <2>3, <3>1
    <3>3. s.index[x] \in Addrs /\ s.index[x] # a
      BY <2>4, <3>1, <3>2
    <3>4. t.heap[t.index[x]] = s.heap[s.index[x]]
      BY <2>3, <3>1, <3>2, <3>3
    <3>5. /\ s.heap[s.index[x]] \in Entry
          /\ s.heap[s.index[x]].player \in Players
          /\ s.heap[s.index[x]].player \in s.buckets
          /\ s.children[s.heap[s.index[x]].player][x] = s.index[x]
      BY <3>2, EntryOf
    <3>6. t.children[s.heap[s.index[x]].player][x] = s.index[x]
      <4>1. s.children \in [Players -> [Objects -> Addrs \cup {Nil}]]
        BY DEF Wellformed, Store
      <4>2. \A q \in Players :
              [s.children EXCEPT ![p][o] = Nil][q][x] = s.children[q][x]
        BY <3>2, <4>1
      <4>. QED  BY <2>3, <3>5, <4>2
    <3>7. s.heap[s.index[x]] # Nil
      BY <3>5, NilAssumption DEF Entry
    <3>. QED  BY <2>3, <3>2, <3>4, <3>5, <3>6, <3>7
  <2>6. Reachable(t)
    <3> SUFFICES ASSUME NEW q \in Players, NEW x \in Objects,
                        t.children[q][x] # Nil
                 PROVE  /\ q \in t.buckets
                        /\ t.index[x] = t.children[q][x]
                        /\ t.heap[t.children[q][x]].player = q
      BY DEF Reachable
    <3>1. s.children[q][x] # Nil /\ t.children[q][x] = s.children[q][x]
      BY <2>1, <2>3 DEF Wellformed, Store
    <3>2. /\ q \in s.buckets
          /\ s.index[x] = s.children[q][x]
          /\ s.heap[s.children[q][x]].player = q
      BY <3>1 DEF Wellformed, Reachable
    <3>3. x # o
      BY <2>1, <2>3, <3>1, <3>2 DEF Wellformed, Store
    <3>4. s.index[x] # a
      BY <1>2, <3>3 DEF Wellformed, Exclusive
    <3>5. s.children[q][x] \in Addrs
      BY <3>1 DEF Wellformed, Store
    <3>6. t.heap[s.children[q][x]] = s.heap[s.children[q][x]]
      BY <2>3, <3>2, <3>4, <3>5 DEF Wellformed, Store
    <3>7. t.index[x] = s.index[x]
      BY <2>3, <3>3 DEF Wellformed, Store
    <3>8. QED BY <2>3, <3>1, <3>2, <3>6, <3>7
  <2>7. Exclusive(t)
    <3>1. \A q \in Objects : t.index[q] # Nil => t.index[q] = s.index[q]
      BY <2>3 DEF Wellformed, Store
    <3>2. ASSUME NEW b \in Addrs, t.heap[b] # Nil
          PROVE  \E q \in Objects : t.index[q] = b
      <4>1. b # a /\ s.heap[b] # Nil
        BY <2>1, <2>3, <3>2 DEF Wellformed, Store
      <4>2. PICK q \in Objects : s.index[q] = b
        BY <4>1 DEF Wellformed, Exclusive
      <4>3. QED BY <2>3, <4>1, <4>2 DEF Wellformed, Store
    <3>3. QED BY <3>1, <3>2 DEF Wellformed, Exclusive
  <2>8. Wellformed(t)
    BY <2>3, <2>5, <2>6, <2>7 DEF Wellformed
  <2>9. /\ ErasePlayerIfEmpty(t, p).index = t.index
        /\ t.index[o] = Nil
    BY <2>3 DEF ErasePlayerIfEmpty, Wellformed, Store
  <2>10. QED BY <2>1, <2>2, <2>8, <2>9, ErasePlayerWellformed
<1>3. QED BY <1>1, <1>2

\* The fields of an entry that an edit rewrites carry no link: changing them
\* in place keeps the table well formed.
LEMMA RewriteWellformed ==
  ASSUME NEW s, Wellformed(s), NEW a \in Addrs, s.heap[a] # Nil,
         NEW e \in Entry, e.player = s.heap[a].player
  PROVE  Wellformed([s EXCEPT !.heap = [@ EXCEPT ![a] = e]])
<1> DEFINE t == [s EXCEPT !.heap = [@ EXCEPT ![a] = e]]
<1>1. /\ t \in Store
      /\ t.buckets = s.buckets
      /\ t.children = s.children
      /\ t.index = s.index
      /\ t.heap = [s.heap EXCEPT ![a] = e]
  BY DEF Wellformed, Store
<1>2. e # Nil
  BY NilAssumption DEF Entry
<1>3. Linked(t)
  BY <1>1, <1>2 DEF Wellformed, Linked, Store
<1>4. Reachable(t)
  BY <1>1 DEF Wellformed, Reachable, Store
<1>5. Exclusive(t)
  BY <1>1 DEF Wellformed, Exclusive, Store
<1>6. QED BY <1>1, <1>3, <1>4, <1>5 DEF Wellformed

\* Moving an entry to another player's bucket keeps it owned exactly once,
\* at the address the index holds (MoveCityToPlayer, MoveUnitToPlayer).
LEMMA MoveWellformed ==
  ASSUME NEW s, Wellformed(s), NEW o \in Objects, s.index[o] # Nil,
         NEW p \in Players \cup {Nil}
  PROVE  /\ Wellformed(MoveToPlayer(s, p, o))
         /\ MoveToPlayer(s, p, o).index = s.index
<1> DEFINE a   == s.index[o]
           old == s.heap[a].player
           c   == [s EXCEPT !.children[old][o] = Nil]
           t   == ErasePlayerIfEmpty(c, old)
           r   == [buckets  |-> t.buckets \cup {p},
                   children |-> [t.children EXCEPT ![p][o] = a],
                   index    |-> s.index,
                   heap     |-> [s.heap EXCEPT ![a].player = p]]
<1>1. /\ a \in Addrs
      /\ s.heap[a] \in Entry
      /\ old \in Players
      /\ old \in s.buckets
      /\ s.children[old][o] = a
  BY EntryOf
<1>2. CASE p = Nil \/ old = p
  BY <1>2 DEF MoveToPlayer
<1>3. CASE p # Nil /\ old # p
  <2>1. MoveToPlayer(s, p, o) = r
    BY <1>1, <1>3 DEF MoveToPlayer
  <2>2. /\ c.buckets = s.buckets
        /\ c.children = [s.children EXCEPT ![old][o] = Nil]
        /\ c.index = s.index
        /\ c.heap = s.heap
        /\ c \in Store
    BY <1>1 DEF Wellformed, Store
  <2>3. /\ t.buckets \subseteq s.buckets
        /\ \A q \in s.buckets : q \notin t.buckets =>
             q = old /\ \A x \in Objects : c.children[old][x] = Nil
        /\ t.children = c.children
        /\ t.index = s.index
        /\ t.heap = s.heap
        /\ t \in Store
    BY <2>2 DEF ErasePlayerIfEmpty, Childless, Store
  <2>4. /\ r.buckets = t.buckets \cup {p}
        /\ r.children = [t.children EXCEPT ![p][o] = a]
        /\ r.index = s.index
        /\ r.heap = [s.heap EXCEPT ![a] = [@ EXCEPT !.player = p]]
    BY <2>3 DEF Store
  <2>5. [s.heap[a] EXCEPT !.player = p] \in Entry
    BY <1>1, <1>3 DEF Entry
  <2>6. r \in Store
    <3>1. r.buckets \in SUBSET Players
      BY <1>3, <2>3, <2>4 DEF Store
    <3>2. r.children \in [Players -> [Objects -> Addrs \cup {Nil}]]
      BY <1>1, <1>3, <2>3, <2>4 DEF Store
    <3>3. r.index \in [Objects -> Addrs \cup {Nil}]
      BY <2>4 DEF Wellformed, Store
    <3>4. r.heap \in [Addrs -> Entry \cup {Nil}]
      BY <1>1, <2>4, <2>5 DEF Wellformed, Store
    <3>5. QED BY <3>1, <3>2, <3>3, <3>4 DEF Store
  <2> HIDE DEF r, t, c
  <2>7. Linked(r)
    <3> SUFFICES ASSUME NEW x \in Objects, r.index[x] # Nil
                 PROVE  /\ r.heap[r.index[x]] # Nil
                        /\ r.heap[r.index[x]].player \in r.buckets
                        /\ r.children[r.heap[r.index[x]].player][x]
                             = r.index[x]
      BY DEF Linked
    <3>1. CASE x = o
      <4>1. r.heap[a] = [s.heap[a] EXCEPT !.player = p]
        BY <1>1, <2>4 DEF Wellformed, Store
      <4>2. r.heap[a] # Nil /\ r.heap[a].player = p
        BY <1>1, <2>5, <4>1, NilAssumption DEF Entry
      <4>3. r.children[p][o] = a
        BY <1>3, <2>3, <2>4 DEF Store
      <4>4. QED BY <2>4, <3>1, <4>2, <4>3
    <3>2. CASE x # o
      <4> DEFINE b == s.index[x]
                 q == s.heap[b].player
      <4>1. /\ b \in Addrs
            /\ s.heap[b] \in Entry
            /\ q \in s.buckets
            /\ q \in Players
            /\ s.children[q][x] = b
        BY <2>4, EntryOf
      <4>2. b # a
        BY <2>4, <3>2 DEF Wellformed, Exclusive
      <4>3. r.heap[b] = s.heap[b]
        BY <2>4, <4>1, <4>2 DEF Wellformed, Store
      <4>4. c.children[q][x] = b
        BY <2>2, <3>2, <4>1 DEF Wellformed, Store
      <4>5. q \in r.buckets
        BY <2>3, <2>4, <4>1, <4>4, NilAssumption
      <4>6. r.children[q][x] = b
        <5>1. /\ t.children \in [Players -> [Objects -> Addrs \cup {Nil}]]
              /\ t.children[q][x] = b
          BY <2>3, <4>4 DEF Store
        <5>2. CASE q = p
          BY <1>3, <2>4, <3>2, <4>1, <5>1, <5>2
        <5>3. CASE q # p
          BY <2>4, <4>1, <5>1, <5>3
        <5>4. QED BY <5>2, <5>3
      <4>7. s.heap[b] # Nil
        BY <4>1, NilAssumption DEF Entry
      <4>8. QED BY <2>4, <4>1, <4>3, <4>5, <4>6, <4>7
    <3>3. QED BY <3>1, <3>2
  <2>8. Reachable(r)
    <3> SUFFICES ASSUME NEW q \in Players, NEW x \in Objects,
                        r.children[q][x] # Nil
                 PROVE  /\ q \in r.buckets
                        /\ r.index[x] = r.children[q][x]
                        /\ r.heap[r.children[q][x]].player = q
      BY DEF Reachable
    <3>1. CASE q = p /\ x = o
      BY <1>1, <1>3, <2>3, <2>4, <3>1 DEF Store, Wellformed, Entry
    <3>2. CASE ~ (q = p /\ x = o)
      <4>1. r.children[q][x] = c.children[q][x]
        BY <2>3, <2>4, <3>2 DEF Store
      <4>2. /\ c.children[q][x] = s.children[q][x]
            /\ s.children[q][x] # Nil
        BY <1>1, <2>2, <4>1 DEF Wellformed, Store
      <4>3. /\ q \in s.buckets
            /\ s.index[x] = s.children[q][x]
            /\ s.heap[s.children[q][x]].player = q
        BY <4>2 DEF Wellformed, Reachable
      <4>4. q \in r.buckets
        BY <2>3, <2>4, <4>1, <4>2, <4>3
      <4>5. x # o
        BY <1>1, <1>3, <2>2, <3>2, <4>1, <4>2, <4>3 DEF Wellformed, Store
      <4>6. s.index[x] # a
        BY <4>5 DEF Wellformed, Exclusive
      <4>7. QED
        BY <2>4, <4>1, <4>2, <4>3, <4>4, <4>6 DEF Wellformed, Store
    <3>3. QED BY <3>1, <3>2
  <2>9. Exclusive(r)
    <3>1. \A b \in Addrs : r.heap[b] # Nil => s.heap[b] # Nil
      BY <1>1, <2>4, NilAssumption DEF Wellformed, Store, Entry
    <3>2. QED BY <2>4, <3>1 DEF Wellformed, Exclusive
  <2>10. QED BY <2>1, <2>4, <2>6, <2>7, <2>8, <2>9 DEF Wellformed
<1>4. QED BY <1>2, <1>3

\* Creating an entry at a free address, or retargeting the one that is
\* there, keeps the table well formed (FindOrCreateCity, FindOrCreateUnit).
LEMMA FindOrCreateWellformed ==
  ASSUME NEW s, Wellformed(s), NEW o \in Objects,
         NEW p \in Players \cup {Nil}, NEW w \in Owners, NEW a \in Free(s)
  PROVE  /\ Wellformed(FindOrCreate(s, p, o, w, a))
         /\ p # Nil => FindOrCreate(s, p, o, w, a).index[o] # Nil
<1> DEFINE r == [buckets  |-> s.buckets \cup {p},
                 children |-> [s.children EXCEPT ![p][o] = a],
                 index    |-> [s.index EXCEPT ![o] = a],
                 heap     |-> [s.heap EXCEPT ![a] =
                                 [owner |-> w, player |-> p, value |-> Fresh]]]
<1>1. CASE s.index[o] # Nil
  <2> DEFINE b == s.index[o]
             e == [s.heap[b] EXCEPT !.owner = w]
             t == [s EXCEPT !.heap = [@ EXCEPT ![b] = e]]
  <2>1. b \in Addrs /\ s.heap[b] \in Entry
    BY <1>1, EntryOf
  <2>2. e \in Entry /\ e.player = s.heap[b].player /\ s.heap[b] # Nil
    BY <2>1, NilAssumption DEF Entry
  <2>3. Wellformed(t) /\ t.index = s.index
    <3> HIDE DEF e
    <3>1. Wellformed(t)
      BY <2>1, <2>2, RewriteWellformed
    <3>2. QED BY <3>1 DEF Wellformed, Store
  <2>4. FindOrCreate(s, p, o, w, a) = MoveToPlayer(t, p, o)
    BY <1>1 DEF FindOrCreate
  <2> HIDE DEF t
  <2>5. QED BY <1>1, <2>3, <2>4, MoveWellformed
<1>2. CASE s.index[o] = Nil /\ p = Nil
  BY <1>2 DEF FindOrCreate
<1>3. CASE s.index[o] = Nil /\ p # Nil
  <2>1. FindOrCreate(s, p, o, w, a) = r
    BY <1>3 DEF FindOrCreate
  <2>2. a \in Addrs /\ s.heap[a] = Nil /\ p \in Players
    BY <1>3 DEF Free
  <2>3. /\ r.buckets = s.buckets \cup {p}
        /\ r.children = [s.children EXCEPT ![p][o] = a]
        /\ r.index = [s.index EXCEPT ![o] = a]
        /\ r.heap = [s.heap EXCEPT ![a] =
                       [owner |-> w, player |-> p, value |-> Fresh]]
    OBVIOUS
  <2>4. r \in Store
    BY <2>2, FreshAssumption DEF Wellformed, Store, Entry
  <2> HIDE DEF r
  <2>5. [owner |-> w, player |-> p, value |-> Fresh] \in Entry
    BY <2>2, FreshAssumption DEF Entry
  <2>6. /\ r.heap[a] # Nil
        /\ r.heap[a].player = p
        /\ r.index[o] = a
        /\ r.children[p][o] = a
        /\ a # Nil
    BY <2>2, <2>3, <2>5, NilAssumption DEF Wellformed, Store, Entry
  <2>7. ASSUME NEW x \in Objects, s.index[x] # Nil
        PROVE  /\ x # o
               /\ s.index[x] # a
               /\ r.index[x] = s.index[x]
               /\ s.index[x] \in Addrs
               /\ r.heap[s.index[x]] = s.heap[s.index[x]]
               /\ s.heap[s.index[x]] # Nil
               /\ s.heap[s.index[x]].player \in Players
    <3>1. s.heap[s.index[x]] # Nil /\ s.index[x] \in Addrs
      BY <2>7, EntryOf, NilAssumption DEF Entry
    <3>2. s.heap[s.index[x]].player \in Players
      BY <2>7, EntryOf
    <3>3. QED BY <1>3, <2>2, <2>3, <2>7, <3>1, <3>2 DEF Wellformed, Store
  <2>8. Linked(r)
    <3> SUFFICES ASSUME NEW x \in Objects, r.index[x] # Nil, x # o
                 PROVE  /\ r.heap[r.index[x]] # Nil
                        /\ r.heap[r.index[x]].player \in r.buckets
                        /\ r.children[r.heap[r.index[x]].player][x]
                             = r.index[x]
      BY <2>3, <2>6 DEF Linked
    <3>1. s.index[x] # Nil
      BY <2>3 DEF Wellformed, Store
    <3>2. /\ s.heap[s.index[x]].player \in s.buckets
          /\ s.children[s.heap[s.index[x]].player][x] = s.index[x]
      BY <3>1, EntryOf
    <3>3. r.children[s.heap[s.index[x]].player][x] = s.index[x]
      BY <2>2, <2>3, <2>7, <3>1, <3>2 DEF Wellformed, Store
    <3>4. QED BY <2>3, <2>7, <3>1, <3>2, <3>3
  <2>9. Reachable(r)
    <3> SUFFICES ASSUME NEW q \in Players, NEW x \in Objects,
                        r.children[q][x] # Nil, ~ (q = p /\ x = o)
                 PROVE  /\ q \in r.buckets
                        /\ r.index[x] = r.children[q][x]
                        /\ r.heap[r.children[q][x]].player = q
      BY <2>3, <2>6 DEF Reachable
    <3>1. r.children[q][x] = s.children[q][x]
      BY <2>2, <2>3 DEF Wellformed, Store
    <3>2. /\ q \in s.buckets
          /\ s.index[x] = s.children[q][x]
          /\ s.heap[s.children[q][x]].player = q
      BY <3>1 DEF Wellformed, Reachable
    <3>3. QED BY <2>3, <2>7, <3>1, <3>2
  <2>10. Exclusive(r)
    <3>1. \A o1, o2 \in Objects :
            r.index[o1] = r.index[o2] /\ r.index[o1] # Nil => o1 = o2
      BY <2>3, <2>6, <2>7 DEF Wellformed, Exclusive, Store
    <3>2. ASSUME NEW b \in Addrs, r.heap[b] # Nil, b # a
          PROVE  \E x \in Objects : r.index[x] = b
      <4>1. s.heap[b] # Nil
        BY <2>2, <2>3, <3>2 DEF Wellformed, Store
      <4>2. PICK x \in Objects : s.index[x] = b
        BY <4>1 DEF Wellformed, Exclusive
      <4>3. QED BY <2>7, <3>2, <4>1, <4>2, NilAssumption
    <3>3. QED BY <2>6, <3>1, <3>2 DEF Exclusive
  <2>11. QED BY <2>1, <2>4, <2>6, <2>8, <2>9, <2>10 DEF Wellformed
<1>4. QED BY <1>1, <1>2, <1>3

-----------------------------------------------------------------------------
(* Every operation keeps the table well formed.                            *)

LEMMA PutNow ==
  ASSUME NEW s, s \in Store, Put(s)
  PROVE  Now' = s
BY DEF Put, Now, Store

\* Writing the data of an entry that exists.
LEMMA WriteWellformed ==
  ASSUME NEW s, Wellformed(s), NEW o \in Objects, s.index[o] # Nil,
         NEW v \in Values
  PROVE  Wellformed([s EXCEPT !.heap[s.index[o]].value = v])
<1> DEFINE a == s.index[o]
           e == [s.heap[a] EXCEPT !.value = v]
<1>1. a \in Addrs /\ s.heap[a] \in Entry
  BY EntryOf
<1>2. e \in Entry /\ e.player = s.heap[a].player /\ s.heap[a] # Nil
  BY <1>1, NilAssumption DEF Entry
<1>3. Wellformed([s EXCEPT !.heap = [@ EXCEPT ![a] = e]])
  <2> HIDE DEF e
  <2>1. QED BY <1>1, <1>2, RewriteWellformed
<1>4. QED BY <1>3

\* The first rewrite of Reparent: the owner id of an entry that exists.
LEMMA OwnerWellformed ==
  ASSUME NEW s, Wellformed(s), NEW o \in Objects, s.index[o] # Nil,
         NEW w \in Owners
  PROVE  /\ Wellformed([s EXCEPT !.heap[s.index[o]].owner = w])
         /\ [s EXCEPT !.heap[s.index[o]].owner = w].index = s.index
<1> DEFINE a == s.index[o]
           e == [s.heap[a] EXCEPT !.owner = w]
<1>1. a \in Addrs /\ s.heap[a] \in Entry
  BY EntryOf
<1>2. e \in Entry /\ e.player = s.heap[a].player /\ s.heap[a] # Nil
  BY <1>1, NilAssumption DEF Entry
<1>3. Wellformed([s EXCEPT !.heap = [@ EXCEPT ![a] = e]])
  <2> HIDE DEF e
  <2>1. QED BY <1>1, <1>2, RewriteWellformed
<1>4. QED BY <1>3 DEF Wellformed, Store

LEMMA EnsureKeeps ==
  ASSUME IInv, NEW p \in Players \cup {Nil}, NEW o \in Objects,
         NEW w \in Owners, Ensure(p, o, w)
  PROVE  IInv'
<1> DEFINE s == EraseLocked(Now, o)
<1>1. Wellformed(s)
  BY EraseWellformed DEF IInv
<1>2. PICK a \in Free(s) : Put(FindOrCreate(s, p, o, w, a))
  BY DEF Ensure
<1>3. Wellformed(FindOrCreate(s, p, o, w, a))
  BY <1>1, FindOrCreateWellformed
<1>4. QED BY <1>2, <1>3, PutNow DEF IInv, Wellformed

LEMMA EditKeeps ==
  ASSUME IInv, NEW p \in Players \cup {Nil}, NEW o \in Objects,
         NEW w \in Owners, NEW v \in Values, Edit(p, o, w, v)
  PROVE  IInv'
<1>1. PICK a \in Free(Now) :
        LET s == FindOrCreate(Now, p, o, w, a)
        IN Put(IF s.index[o] = Nil THEN s
               ELSE [s EXCEPT !.heap[s.index[o]].value = v])
  BY DEF Edit
<1> DEFINE s == FindOrCreate(Now, p, o, w, a)
           r == IF s.index[o] = Nil THEN s
                ELSE [s EXCEPT !.heap[s.index[o]].value = v]
<1>2. Wellformed(s)
  BY FindOrCreateWellformed DEF IInv
<1>3. Wellformed(r)
  <2> HIDE DEF s
  <2>1. QED BY <1>2, WriteWellformed
<1>4. Put(r)
  BY <1>1
<1> HIDE DEF r
<1>5. QED BY <1>3, <1>4, PutNow DEF IInv, Wellformed

LEMMA ReparentKeeps ==
  ASSUME IInv, NEW p \in Players, NEW o \in Objects,
         NEW w \in Owners, Reparent(p, o, w)
  PROVE  IInv'
<1> DEFINE s == [Now EXCEPT !.heap[Now.index[o]].owner = w]
<1>1. Now.index[o] # Nil /\ Now.index = index
  BY DEF Reparent, Now
<1>2. Wellformed(s) /\ s.index = Now.index
  BY <1>1, OwnerWellformed DEF IInv
<1>3. Put(MoveToPlayer(s, p, o))
  BY <1>1 DEF Reparent
<1> HIDE DEF s
<1>4. Wellformed(MoveToPlayer(s, p, o))
  BY <1>1, <1>2, MoveWellformed
<1>5. QED BY <1>3, <1>4, PutNow DEF IInv, Wellformed

LEMMA EraseKeeps ==
  ASSUME IInv, NEW o \in Objects, Erase(o)
  PROVE  IInv'
<1>1. Wellformed(EraseLocked(Now, o))
  BY EraseWellformed DEF IInv
<1>2. QED BY <1>1, PutNow DEF IInv, Erase, Wellformed

LEMMA EnsurePlayerKeeps ==
  ASSUME IInv, NEW p \in Players, EnsurePlayer(p)
  PROVE  IInv'
<1> USE DEF Now
<1>1. Now' \in Store
  BY DEF IInv, Wellformed, Store, EnsurePlayer
<1>2. Linked(Now')
  BY DEF IInv, Wellformed, Linked, EnsurePlayer
<1>3. Reachable(Now')
  BY DEF IInv, Wellformed, Reachable, EnsurePlayer
<1>4. Exclusive(Now')
  BY DEF IInv, Wellformed, Exclusive, EnsurePlayer
<1>5. QED BY <1>1, <1>2, <1>3, <1>4 DEF IInv, Wellformed

\* Dropping a bucket takes exactly the index records of what it owned.
LEMMA DropPlayerKeeps ==
  ASSUME IInv, NEW p \in Players, DropPlayer(p)
  PROVE  IInv'
<1> USE DEF Now
<1>1. /\ buckets \in SUBSET Players
      /\ children \in [Players -> [Objects -> Addrs \cup {Nil}]]
      /\ index \in [Objects -> Addrs \cup {Nil}]
      /\ heap \in [Addrs -> Entry \cup {Nil}]
  BY DEF IInv, Wellformed, Store
<1>2. /\ buckets' = buckets \ {p}
      /\ children' = [children EXCEPT ![p] = [o \in Objects |-> Nil]]
      /\ index' = [o \in Objects |->
                     IF children[p][o] # Nil THEN Nil ELSE index[o]]
      /\ heap' = [a \in Addrs |-> IF a \in Owned(p) THEN Nil ELSE heap[a]]
  BY DEF DropPlayer
<1>3. Now' \in Store
  BY <1>1, <1>2 DEF Store
<1>4. ASSUME NEW o \in Objects, index[o] # Nil
      PROVE  /\ index[o] \in Addrs
             /\ heap[index[o]] # Nil
             /\ heap[index[o]].player \in buckets
             /\ children[heap[index[o]].player][o] = index[o]
  BY <1>1, <1>4 DEF IInv, Wellformed, Linked
<1>5. ASSUME NEW q \in Players, NEW o \in Objects, children[q][o] # Nil
      PROVE  /\ q \in buckets
             /\ index[o] = children[q][o]
             /\ heap[children[q][o]].player = q
  BY <1>5 DEF IInv, Wellformed, Reachable
<1>6. ASSUME NEW o \in Objects, index[o] # Nil, children[p][o] = Nil
      PROVE  index[o] \notin Owned(p)
  <2> SUFFICES ASSUME NEW x \in Objects, children[p][x] = index[o]
               PROVE  FALSE
    BY <1>6 DEF Owned
  <2>1. index[x] = index[o]
    BY <1>5, <1>6
  <2>2. x = o
    BY <1>6, <2>1 DEF IInv, Wellformed, Exclusive
  <2>3. QED BY <1>6, <2>2
<1>7. Linked(Now')
  <2> SUFFICES ASSUME NEW o \in Objects, index'[o] # Nil
               PROVE  /\ heap'[index'[o]] # Nil
                      /\ heap'[index'[o]].player \in buckets'
                      /\ children'[heap'[index'[o]].player][o] = index'[o]
    BY DEF Linked
  <2>1. index'[o] = index[o] /\ children[p][o] = Nil /\ index[o] # Nil
    BY <1>2
  <2>2. heap'[index[o]] = heap[index[o]]
    BY <1>2, <1>4, <1>6, <2>1
  <2>3. heap[index[o]].player # p
    BY <1>4, <2>1
  <2>4. heap[index[o]].player \in Players
    BY <1>1, <1>4, <2>1
  <2>5. QED BY <1>1, <1>2, <1>4, <2>1, <2>2, <2>3, <2>4
<1>8. Reachable(Now')
  <2> SUFFICES ASSUME NEW q \in Players, NEW o \in Objects,
                      children'[q][o] # Nil
               PROVE  /\ q \in buckets'
                      /\ index'[o] = children'[q][o]
                      /\ heap'[children'[q][o]].player = q
    BY DEF Reachable
  <2>1. q # p /\ children'[q][o] = children[q][o] /\ children[q][o] # Nil
    BY <1>1, <1>2
  <2>2. /\ q \in buckets
        /\ index[o] = children[q][o]
        /\ heap[children[q][o]].player = q
    BY <1>5, <2>1
  <2>3. children[p][o] = Nil
    BY <1>5, <2>1, <2>2
  <2>4. heap'[index[o]] = heap[index[o]]
    BY <1>2, <1>4, <1>6, <2>1, <2>2, <2>3
  <2>5. QED BY <1>2, <2>1, <2>2, <2>3, <2>4
<1>9. Exclusive(Now')
  <2>1. \A o1, o2 \in Objects :
          index'[o1] = index'[o2] /\ index'[o1] # Nil => o1 = o2
    BY <1>2 DEF IInv, Wellformed, Exclusive
  <2>2. ASSUME NEW a \in Addrs, heap'[a] # Nil
        PROVE  \E o \in Objects : index'[o] = a
    <3>1. a \notin Owned(p) /\ heap[a] # Nil
      BY <1>2, <2>2
    <3>2. PICK o \in Objects : index[o] = a
      BY <3>1 DEF IInv, Wellformed, Exclusive
    <3>3. a # Nil
      BY NilAssumption
    <3>4. children[p][o] = Nil
      BY <1>5, <3>1, <3>2 DEF Owned
    <3>5. QED BY <1>2, <3>2, <3>4
  <2>3. QED BY <2>1, <2>2 DEF Exclusive
<1>10. QED BY <1>3, <1>7, <1>8, <1>9 DEF IInv, Wellformed

LEMMA EmptyWellformed ==
  ASSUME buckets = {},
         children = [p \in Players |-> [o \in Objects |-> Nil]],
         index = [o \in Objects |-> Nil],
         heap = [a \in Addrs |-> Nil]
  PROVE  IInv
BY DEF IInv, Wellformed, Now, Store, Linked, Reachable, Exclusive

LEMMA ClearKeeps ==
  ASSUME Clear
  PROVE  IInv'
BY DEF Clear, IInv, Wellformed, Now, Store, Linked, Reachable, Exclusive

LEMMA StepKeeps == IInv /\ [Next]_vars => IInv'
<1> SUFFICES ASSUME IInv, [Next]_vars PROVE IInv'
  OBVIOUS
<1>1. CASE UNCHANGED vars
  BY <1>1 DEF vars, IInv, Now
<1>2. CASE \E p \in Players \cup {Nil}, o \in Objects, w \in Owners :
             Ensure(p, o, w)
  BY <1>2, EnsureKeeps
<1>3. CASE \E p \in Players \cup {Nil}, o \in Objects, w \in Owners,
              v \in Values : Edit(p, o, w, v)
  BY <1>3, EditKeeps
<1>4. CASE \E p \in Players, o \in Objects, w \in Owners : Reparent(p, o, w)
  BY <1>4, ReparentKeeps
<1>5. CASE \E o \in Objects : Erase(o)
  BY <1>5, EraseKeeps
<1>6. CASE \E p \in Players : EnsurePlayer(p)
  BY <1>6, EnsurePlayerKeeps
<1>7. CASE \E p \in Players : DropPlayer(p)
  BY <1>7, DropPlayerKeeps
<1>8. CASE Clear
  BY <1>8, ClearKeeps
<1>9. QED
  BY <1>1, <1>2, <1>3, <1>4, <1>5, <1>6, <1>7, <1>8 DEF Next

-----------------------------------------------------------------------------
(* What the locked helpers do, seen from the callers: through lookups, and *)
(* in the buckets that are left empty.                                     *)

Look(s, x) == IF s.index[x] = Nil THEN Nil ELSE s.heap[s.index[x]]

EmptyIn(s, q) == q \in s.buckets /\ Childless(s, q)

\* Every helper but EnsurePlayer leaves no bucket empty that was not.
NoneEmptied(s, t) == \A q \in Players : EmptyIn(t, q) => EmptyIn(s, q)

LEMMA ErasePlayerEffect ==
  ASSUME NEW s, s \in Store, NEW p \in Players
  PROVE  LET t == ErasePlayerIfEmpty(s, p)
         IN /\ t \in Store
            /\ t.children = s.children /\ t.index = s.index /\ t.heap = s.heap
            /\ t.buckets \subseteq s.buckets
            /\ ~ EmptyIn(t, p)
            /\ NoneEmptied(s, t)
<1>. DEFINE t == ErasePlayerIfEmpty(s, p)
<1>1. CASE Childless(s, p)
  <2>1. t = [s EXCEPT !.buckets = @ \ {p}]
    BY <1>1 DEF ErasePlayerIfEmpty
  <2>2. /\ t \in Store /\ t.buckets = s.buckets \ {p}
        /\ t.children = s.children /\ t.index = s.index /\ t.heap = s.heap
    BY <2>1 DEF Store
  <2>. HIDE DEF t
  <2>3. ~ EmptyIn(t, p)
    BY <2>2 DEF EmptyIn
  <2>4. ASSUME NEW q \in Players, EmptyIn(t, q) PROVE EmptyIn(s, q)
    BY <2>2, <2>4 DEF EmptyIn, Childless
  <2>5. NoneEmptied(s, t)
    BY <2>4 DEF NoneEmptied
  <2>6. t.buckets \subseteq s.buckets
    BY <2>2
  <2>. QED  BY <2>2, <2>3, <2>5, <2>6 DEF t
<1>2. CASE ~ Childless(s, p)
  BY <1>2 DEF ErasePlayerIfEmpty, EmptyIn, NoneEmptied
<1>. QED  BY <1>1, <1>2

\* Erasing an object forgets that object's entry and no other.
LEMMA EraseEffect ==
  ASSUME NEW s, Wellformed(s), NEW o \in Objects
  PROVE  LET t == EraseLocked(s, o)
         IN /\ t.index = [s.index EXCEPT ![o] = Nil]
            /\ Look(t, o) = Nil
            /\ \A x \in Objects \ {o} : Look(t, x) = Look(s, x)
            /\ NoneEmptied(s, t)
<1>1. CASE s.index[o] = Nil
  BY <1>1 DEF EraseLocked, Look, NoneEmptied, Wellformed, Store
<1>2. CASE s.index[o] # Nil
  <2>. DEFINE a == s.index[o]
              p == s.heap[a].player
              c == [buckets  |-> s.buckets,
                    children |-> [s.children EXCEPT ![p][o] = Nil],
                    index    |-> [s.index EXCEPT ![o] = Nil],
                    heap     |-> Release(s.heap, s.children[p][o])]
              t == ErasePlayerIfEmpty(c, p)
  <2>1. /\ a \in Addrs /\ p \in Players /\ p \in s.buckets
        /\ s.children[p][o] = a
    BY <1>2, EntryOf
  <2>2. EraseLocked(s, o) = t
    BY <1>2, <2>1 DEF EraseLocked
  <2>3. /\ c.buckets = s.buckets
        /\ c.children = [s.children EXCEPT ![p][o] = Nil]
        /\ c.index = [s.index EXCEPT ![o] = Nil]
        /\ c.heap = [s.heap EXCEPT ![a] = Nil]
        /\ c \in Store
    BY <1>2, <2>1 DEF Wellformed, Store, Release
  <2>. HIDE DEF c
  <2>4. /\ t.children = c.children /\ t.index = c.index /\ t.heap = c.heap
        /\ ~ EmptyIn(t, p) /\ NoneEmptied(c, t)
    BY <2>1, <2>3, ErasePlayerEffect
  <2>. HIDE DEF t
  <2>5. ASSUME NEW x \in Objects \ {o}
        PROVE  Look(t, x) = Look(s, x)
    <3>1. t.index[x] = s.index[x] /\ s.index[x] \in Addrs \cup {Nil}
      BY <2>3, <2>4 DEF Wellformed, Store
    <3>2. s.index[x] # Nil => s.index[x] # a
      BY <1>2 DEF Wellformed, Exclusive
    <3>. QED  BY <2>3, <2>4, <3>1, <3>2 DEF Look, Wellformed, Store
  <2>6. t.index[o] = Nil
    BY <2>3, <2>4 DEF Wellformed, Store
  <2>7. NoneEmptied(s, t)
    <3>. SUFFICES ASSUME NEW q \in Players, EmptyIn(t, q)
                  PROVE  EmptyIn(s, q)
      BY DEF NoneEmptied
    <3>1. q # p /\ EmptyIn(c, q)
      BY <2>4 DEF NoneEmptied
    <3>2. c.children[q] = s.children[q]
      BY <2>3, <3>1 DEF Wellformed, Store
    <3>. QED  BY <2>3, <3>1, <3>2 DEF EmptyIn, Childless
  <2>. QED  BY <2>2, <2>3, <2>4, <2>5, <2>6, <2>7 DEF Look
<1>. QED  BY <1>1, <1>2

\* Moving an entry changes the player it names and nothing else a caller sees.
LEMMA MoveEffect ==
  ASSUME NEW s, Wellformed(s), NEW o \in Objects, s.index[o] # Nil,
         NEW p \in Players \cup {Nil}
  PROVE  LET r == MoveToPlayer(s, p, o)
         IN /\ Look(r, o) = IF p = Nil THEN Look(s, o)
                            ELSE [Look(s, o) EXCEPT !.player = p]
            /\ \A x \in Objects \ {o} : Look(r, x) = Look(s, x)
            /\ NoneEmptied(s, r)
<1>. DEFINE a   == s.index[o]
            old == s.heap[a].player
            c   == [s EXCEPT !.children[old][o] = Nil]
            t   == ErasePlayerIfEmpty(c, old)
            r   == [buckets  |-> t.buckets \cup {p},
                    children |-> [t.children EXCEPT ![p][o] = a],
                    index    |-> s.index,
                    heap     |-> [s.heap EXCEPT ![a].player = p]]
<1>1. /\ a \in Addrs /\ s.heap[a] \in Entry
      /\ old \in Players /\ old \in s.buckets
      /\ s.children[old][o] = a
  BY EntryOf
<1>2. CASE p = Nil \/ old = p
  <2>1. MoveToPlayer(s, p, o) = s
    BY <1>2 DEF MoveToPlayer
  <2>2. Look(s, o) = s.heap[a]
    BY DEF Look
  <2>3. p # Nil => [s.heap[a] EXCEPT !.player = p] = s.heap[a]
    BY <1>1, <1>2 DEF Entry
  <2>. QED  BY <2>1, <2>2, <2>3 DEF NoneEmptied
<1>3. CASE p # Nil /\ old # p
  <2>1. MoveToPlayer(s, p, o) = r
    BY <1>1, <1>3 DEF MoveToPlayer
  <2>2. /\ c.buckets = s.buckets
        /\ c.children = [s.children EXCEPT ![old][o] = Nil]
        /\ c.index = s.index
        /\ c.heap = s.heap
        /\ c \in Store
    BY <1>1 DEF Wellformed, Store
  <2>. HIDE DEF c
  <2>3. /\ t.children = c.children /\ t \in Store
        /\ ~ EmptyIn(t, old) /\ NoneEmptied(c, t)
    BY <1>1, <2>2, ErasePlayerEffect
  <2>. HIDE DEF t
  <2>4. /\ r.buckets = t.buckets \cup {p}
        /\ r.children = [t.children EXCEPT ![p][o] = a]
        /\ r.index = s.index
        /\ r.heap = [s.heap EXCEPT ![a] = [@ EXCEPT !.player = p]]
    OBVIOUS
  <2>. HIDE DEF r
  <2>5. r.heap[a] = [s.heap[a] EXCEPT !.player = p]
    BY <1>1, <2>4 DEF Wellformed, Store
  <2>6. Look(r, o) = [Look(s, o) EXCEPT !.player = p]
    BY <2>4, <2>5 DEF Look
  <2>7. ASSUME NEW x \in Objects \ {o}
        PROVE  Look(r, x) = Look(s, x)
    <3>1. r.index[x] = s.index[x] /\ s.index[x] \in Addrs \cup {Nil}
      BY <2>4 DEF Wellformed, Store
    <3>2. s.index[x] # Nil => s.index[x] # a
      BY DEF Wellformed, Exclusive
    <3>. QED  BY <2>4, <3>1, <3>2 DEF Look, Wellformed, Store
  <2>8. NoneEmptied(s, r)
    <3>. SUFFICES ASSUME NEW q \in Players, EmptyIn(r, q)
                  PROVE  EmptyIn(s, q)
      BY DEF NoneEmptied
    <3>1. q # p
      <4>1. r.children[p][o] = a
        BY <1>3, <2>3, <2>4 DEF Store
      <4>. QED  BY <4>1, <1>1, NilAssumption DEF EmptyIn, Childless
    <3>2. r.children[q] = t.children[q] /\ q \in t.buckets
      BY <2>3, <2>4, <3>1 DEF Store, EmptyIn
    <3>3. EmptyIn(t, q)
      BY <3>2 DEF EmptyIn, Childless
    <3>4. q # old /\ EmptyIn(c, q)
      BY <2>3, <3>3 DEF NoneEmptied
    <3>5. c.children[q] = s.children[q]
      BY <2>2, <3>4 DEF Wellformed, Store
    <3>. QED  BY <2>2, <3>4, <3>5 DEF EmptyIn, Childless
  <2>. QED  BY <1>3, <2>1, <2>6, <2>7, <2>8
<1>. QED  BY <1>2, <1>3

\* Rewriting an entry in place is seen through its own object only.
LEMMA RewriteEffect ==
  ASSUME NEW s, Wellformed(s), NEW o \in Objects, s.index[o] # Nil,
         NEW e
  PROVE  LET t == [s EXCEPT !.heap = [@ EXCEPT ![s.index[o]] = e]]
         IN /\ t.index = s.index
            /\ Look(t, o) = e
            /\ \A x \in Objects \ {o} : Look(t, x) = Look(s, x)
            /\ NoneEmptied(s, t)
<1>. DEFINE a == s.index[o]
            t == [s EXCEPT !.heap = [@ EXCEPT ![a] = e]]
<1>1. a \in Addrs
  BY EntryOf
<1>2. /\ t.buckets = s.buckets /\ t.children = s.children
      /\ t.index = s.index /\ t.heap = [s.heap EXCEPT ![a] = e]
  BY DEF Wellformed, Store
<1>. HIDE DEF t
<1>3. Look(t, o) = e
  BY <1>1, <1>2 DEF Look, Wellformed, Store
<1>4. ASSUME NEW x \in Objects \ {o}
      PROVE  Look(t, x) = Look(s, x)
  <2>1. s.index[x] # Nil => s.index[x] # a
    BY DEF Wellformed, Exclusive
  <2>. QED  BY <1>2, <2>1 DEF Look, Wellformed, Store
<1>5. NoneEmptied(s, t)
  BY <1>2 DEF NoneEmptied, EmptyIn, Childless
<1>. QED  BY <1>2, <1>3, <1>4, <1>5 DEF t

\* An existing entry is retargeted, a missing one is made fresh when the
\* player is known (FindOrCreateCity, FindOrCreateUnit).
LEMMA FindOrCreateEffect ==
  ASSUME NEW s, Wellformed(s), NEW o \in Objects,
         NEW p \in Players \cup {Nil}, NEW w \in Owners, NEW a \in Free(s)
  PROVE  LET r == FindOrCreate(s, p, o, w, a)
         IN /\ Look(r, o) =
                 IF s.index[o] # Nil
                 THEN [owner  |-> w,
                       player |-> IF p = Nil THEN Look(s, o).player ELSE p,
                       value  |-> Look(s, o).value]
                 ELSE IF p = Nil THEN Nil
                 ELSE [owner |-> w, player |-> p, value |-> Fresh]
            /\ \A x \in Objects \ {o} : Look(r, x) = Look(s, x)
            /\ \A x \in Objects \ {o} : r.index[x] = s.index[x]
            /\ r.index[o] = IF s.index[o] = Nil /\ p # Nil THEN a ELSE s.index[o]
            /\ NoneEmptied(s, r)
<1>. DEFINE r == FindOrCreate(s, p, o, w, a)
<1>1. CASE s.index[o] # Nil
  <2>. DEFINE b == s.index[o]
              e == [s.heap[b] EXCEPT !.owner = w]
              t == [s EXCEPT !.heap = [@ EXCEPT ![b] = e]]
  <2>1. b \in Addrs /\ s.heap[b] \in Entry
    BY <1>1, EntryOf
  <2>2. /\ e \in Entry /\ e.player = s.heap[b].player /\ s.heap[b] # Nil
        /\ e.owner = w /\ e.value = s.heap[b].value
    BY <2>1, NilAssumption DEF Entry
  <2>3. r = MoveToPlayer(t, p, o)
    BY <1>1 DEF FindOrCreate
  <2>. HIDE DEF e, r
  <2>4. /\ Wellformed(t) /\ t.index = s.index /\ Look(t, o) = e
        /\ \A x \in Objects \ {o} : Look(t, x) = Look(s, x)
        /\ NoneEmptied(s, t)
    <3>1. Wellformed(t)
      BY <2>1, <2>2, RewriteWellformed
    <3>2. LET u == [s EXCEPT !.heap = [@ EXCEPT ![s.index[o]] = e]]
          IN /\ u.index = s.index
             /\ Look(u, o) = e
             /\ \A x \in Objects \ {o} : Look(u, x) = Look(s, x)
             /\ NoneEmptied(s, u)
      BY <1>1, RewriteEffect
    <3>. QED  BY <3>1, <3>2
  <2>. HIDE DEF t
  <2>5. /\ Look(r, o) = IF p = Nil THEN e ELSE [e EXCEPT !.player = p]
        /\ \A x \in Objects \ {o} : Look(r, x) = Look(t, x)
        /\ NoneEmptied(t, r)
        /\ r.index = t.index
    BY <1>1, <2>3, <2>4, MoveEffect, MoveWellformed
  <2>6. Look(s, o) = s.heap[b]
    BY <1>1 DEF Look
  <2>7. Look(r, o) = [owner  |-> w,
                      player |-> IF p = Nil THEN Look(s, o).player ELSE p,
                      value  |-> Look(s, o).value]
    BY <2>2, <2>5, <2>6 DEF Entry
  <2>8. NoneEmptied(s, r)
    BY <2>4, <2>5 DEF NoneEmptied
  <2>. QED  BY <1>1, <2>4, <2>5, <2>7, <2>8 DEF r
<1>2. CASE s.index[o] = Nil /\ p = Nil
  BY <1>2 DEF FindOrCreate, Look, NoneEmptied
<1>3. CASE s.index[o] = Nil /\ p # Nil
  <2>. DEFINE e == [owner |-> w, player |-> p, value |-> Fresh]
  <2>1. /\ r.buckets = s.buckets \cup {p}
        /\ r.children = [s.children EXCEPT ![p][o] = a]
        /\ r.index = [s.index EXCEPT ![o] = a]
        /\ r.heap = [s.heap EXCEPT ![a] = e]
    BY <1>3 DEF FindOrCreate
  <2>. HIDE DEF e, r
  <2>2. a \in Addrs /\ s.heap[a] = Nil /\ p \in Players /\ a # Nil
    BY <1>3, NilAssumption DEF Free
  <2>3. r.index[o] = a /\ r.heap[a] = e
    BY <2>1, <2>2 DEF Wellformed, Store
  <2>4. ASSUME NEW x \in Objects \ {o}
        PROVE  r.index[x] = s.index[x] /\ Look(r, x) = Look(s, x)
    <3>1. r.index[x] = s.index[x]
      BY <2>1 DEF Wellformed, Store
    <3>2. s.index[x] # Nil => s.index[x] # a /\ s.index[x] \in Addrs
      BY <2>2, EntryOf, NilAssumption DEF Entry
    <3>. QED  BY <2>1, <3>1, <3>2 DEF Look, Wellformed, Store
  <2>5. NoneEmptied(s, r)
    <3>. SUFFICES ASSUME NEW q \in Players, EmptyIn(r, q)
                  PROVE  EmptyIn(s, q)
      BY DEF NoneEmptied
    <3>1. q # p
      <4>1. r.children[p][o] = a
        BY <2>1, <2>2 DEF Wellformed, Store
      <4>. QED  BY <4>1, <2>2 DEF EmptyIn, Childless
    <3>2. r.children[q] = s.children[q] /\ q \in s.buckets
      BY <2>1, <3>1 DEF Wellformed, Store, EmptyIn
    <3>. QED  BY <3>2 DEF EmptyIn, Childless
  <2>6. Look(r, o) = e
    BY <2>2, <2>3 DEF Look
  <2>. QED  BY <1>3, <2>3, <2>4, <2>5, <2>6 DEF e, r
<1>. QED  BY <1>1, <1>2, <1>3

-----------------------------------------------------------------------------
(* What the operations do to the map their callers see.                    *)

LEMMA Lookups ==
  /\ DOMAIN ext = Objects /\ \A x \in Objects : ext[x] = Look(Now, x)
  /\ DOMAIN ext' = Objects /\ \A x \in Objects : ext'[x] = Look(Now', x)
  /\ index = Now.index /\ index' = Now'.index
BY DEF ext, Find, Look, Now

\* One object's lookup changes.
LEMMA OneLookup ==
  ASSUME NEW o \in Objects, NEW e, Look(Now', o) = e,
         \A x \in Objects \ {o} : Look(Now', x) = Look(Now, x)
  PROVE  ext' = [ext EXCEPT ![o] = e]
<1>1. \A x \in Objects : ext'[x] = [ext EXCEPT ![o] = e][x]
  BY Lookups
<1>2. ext = [x \in Objects |-> ext[x]] /\ ext' = [x \in Objects |-> ext'[x]]
  BY DEF ext
<1>. QED  BY <1>1, <1>2, Lookups

LEMMA EnsureEffect ==
  ASSUME IInv, NEW p \in Players \cup {Nil}, NEW o \in Objects,
         NEW w \in Owners, Ensure(p, o, w)
  PROVE  /\ ext' = [ext EXCEPT ![o] =
                      IF p = Nil THEN Nil
                      ELSE [owner |-> w, player |-> p, value |-> Fresh]]
         /\ \A x \in Objects \ {o} : index'[x] = index[x]
         /\ index'[o] # Nil => p # Nil
         /\ NoneEmptied(Now, Now')
<1>. DEFINE s == EraseLocked(Now, o)
<1>1. /\ Wellformed(Now) /\ Wellformed(s) /\ s.index = [Now.index EXCEPT ![o] = Nil]
      /\ Look(s, o) = Nil /\ \A x \in Objects \ {o} : Look(s, x) = Look(Now, x)
      /\ NoneEmptied(Now, s)
  BY EraseWellformed, EraseEffect DEF IInv
<1>2. PICK a \in Free(s) : Put(FindOrCreate(s, p, o, w, a))
  BY DEF Ensure
<1>. HIDE DEF s
<1>. DEFINE r == FindOrCreate(s, p, o, w, a)
<1>3. Wellformed(r)
  BY <1>1, FindOrCreateWellformed
<1>4. Now' = r
  BY <1>2, <1>3, PutNow DEF Wellformed
<1>5. s.index[o] = Nil /\ \A x \in Objects \ {o} : s.index[x] = Now.index[x]
  BY <1>1 DEF Wellformed, Store
<1>6. /\ Look(r, o) = IF p = Nil THEN Nil
                      ELSE [owner |-> w, player |-> p, value |-> Fresh]
      /\ \A x \in Objects \ {o} : Look(r, x) = Look(s, x)
      /\ \A x \in Objects \ {o} : r.index[x] = s.index[x]
      /\ r.index[o] = IF p # Nil THEN a ELSE Nil
      /\ NoneEmptied(s, r)
  <2>1. /\ Look(r, o) =
             IF s.index[o] # Nil
             THEN [owner  |-> w,
                   player |-> IF p = Nil THEN Look(s, o).player ELSE p,
                   value  |-> Look(s, o).value]
             ELSE IF p = Nil THEN Nil
             ELSE [owner |-> w, player |-> p, value |-> Fresh]
        /\ \A x \in Objects \ {o} : Look(r, x) = Look(s, x)
        /\ \A x \in Objects \ {o} : r.index[x] = s.index[x]
        /\ r.index[o] = IF s.index[o] = Nil /\ p # Nil THEN a ELSE s.index[o]
        /\ NoneEmptied(s, r)
    BY <1>1, FindOrCreateEffect
  <2>. HIDE DEF r
  <2>. QED  BY <1>5, <2>1
<1>. HIDE DEF r
<1>7. NoneEmptied(Now, r)
  BY <1>1, <1>6 DEF NoneEmptied
<1>8. ext' = [ext EXCEPT ![o] =
                IF p = Nil THEN Nil
                ELSE [owner |-> w, player |-> p, value |-> Fresh]]
  BY <1>1, <1>4, <1>6, OneLookup
<1>9. \A x \in Objects \ {o} : index'[x] = index[x]
  BY <1>4, <1>5, <1>6, Lookups
<1>10. index'[o] # Nil => p # Nil
  BY <1>4, <1>6, Lookups
<1>. QED  BY <1>4, <1>7, <1>8, <1>9, <1>10

LEMMA EditEffect ==
  ASSUME IInv, NEW p \in Players \cup {Nil}, NEW o \in Objects,
         NEW w \in Owners, NEW v \in Values, Edit(p, o, w, v)
  PROVE  /\ Map!Change(p, o, w, v)
         /\ \A x \in Objects : index[x] # Nil => index'[x] = index[x]
         /\ NoneEmptied(Now, Now')
<1>1. PICK a \in Free(Now) :
        LET s == FindOrCreate(Now, p, o, w, a)
        IN Put(IF s.index[o] = Nil THEN s
               ELSE [s EXCEPT !.heap[s.index[o]].value = v])
  BY DEF Edit
<1>. DEFINE s == FindOrCreate(Now, p, o, w, a)
            e == [s.heap[s.index[o]] EXCEPT !.value = v]
            t == [s EXCEPT !.heap = [@ EXCEPT ![s.index[o]] = e]]
            r == IF s.index[o] = Nil THEN s ELSE t
<1>2. Wellformed(Now) /\ Wellformed(s)
  BY FindOrCreateWellformed DEF IInv
<1>3. Put(r)
  BY <1>1
<1>4. Wellformed(r)
  <2>1. Wellformed(IF s.index[o] = Nil THEN s
                   ELSE [s EXCEPT !.heap[s.index[o]].value = v])
    <3>. HIDE DEF s
    <3>. QED  BY <1>2, WriteWellformed
  <2>. QED  BY <2>1
<1>5. /\ Look(s, o) =
           IF Now.index[o] # Nil
           THEN [owner  |-> w,
                 player |-> IF p = Nil THEN Look(Now, o).player ELSE p,
                 value  |-> Look(Now, o).value]
           ELSE IF p = Nil THEN Nil
           ELSE [owner |-> w, player |-> p, value |-> Fresh]
      /\ \A x \in Objects \ {o} : Look(s, x) = Look(Now, x)
      /\ \A x \in Objects \ {o} : s.index[x] = Now.index[x]
      /\ s.index[o] = IF Now.index[o] = Nil /\ p # Nil THEN a ELSE Now.index[o]
      /\ NoneEmptied(Now, s)
  BY <1>2, FindOrCreateEffect
<1>. HIDE DEF s
<1>6. s.index[o] # Nil =>
        /\ t.index = s.index
        /\ Look(t, o) = e
        /\ \A x \in Objects \ {o} : Look(t, x) = Look(s, x)
        /\ NoneEmptied(s, t)
  <2>. SUFFICES ASSUME s.index[o] # Nil
                PROVE  /\ t.index = s.index
                       /\ Look(t, o) = e
                       /\ \A x \in Objects \ {o} : Look(t, x) = Look(s, x)
                       /\ NoneEmptied(s, t)
    OBVIOUS
  <2>. HIDE DEF e
  <2>1. LET u == [s EXCEPT !.heap = [@ EXCEPT ![s.index[o]] = e]]
        IN /\ u.index = s.index
           /\ Look(u, o) = e
           /\ \A x \in Objects \ {o} : Look(u, x) = Look(s, x)
           /\ NoneEmptied(s, u)
    BY <1>2, RewriteEffect
  <2>. QED  BY <2>1
<1>7. e = [Look(s, o) EXCEPT !.value = v] \/ s.index[o] = Nil
  BY DEF Look
<1>. HIDE DEF t, e
<1>8. Now' = r
  <2>. HIDE DEF r
  <2>. QED  BY <1>3, <1>4, PutNow DEF Wellformed
<1>9. NoneEmptied(Now, r)
  BY <1>5, <1>6 DEF NoneEmptied
<1>10. r.index = s.index
  BY <1>6
<1>11. \A x \in Objects \ {o} : Look(r, x) = Look(Now, x)
  BY <1>5, <1>6
<1>12. a # Nil
  BY NilAssumption DEF Free
<1>13. Look(Now, o) = Nil <=> Now.index[o] = Nil
  BY <1>2, EntryOf, NilAssumption DEF Look, Entry
<1>14. Look(r, o) =
         IF Look(Now, o) = Nil /\ p = Nil THEN Nil
         ELSE [owner  |-> w,
               player |-> IF p = Nil THEN Look(Now, o).player ELSE p,
               value  |-> v]
  <2>1. CASE s.index[o] = Nil
    BY <2>1, <1>5, <1>12, <1>13 DEF Look
  <2>2. CASE s.index[o] # Nil
    <3>1. Look(r, o) = [Look(s, o) EXCEPT !.value = v]
      BY <2>2, <1>6, <1>7
    <3>2. CASE Now.index[o] # Nil
      <4>1. Look(s, o) =
              [owner  |-> w,
               player |-> IF p = Nil THEN Look(Now, o).player ELSE p,
               value  |-> Look(Now, o).value]
        BY <1>5, <3>2
      <4>. HIDE DEF r
      <4>2. Look(r, o) =
              [owner  |-> w,
               player |-> IF p = Nil THEN Look(Now, o).player ELSE p,
               value  |-> v]
        BY <3>1, <4>1
      <4>. QED  BY <4>2, <3>2, <1>13
    <3>3. CASE Now.index[o] = Nil
      <4>1. p # Nil
        BY <2>2, <3>3, <1>5
      <4>2. Look(s, o) = [owner |-> w, player |-> p, value |-> Fresh]
        BY <1>5, <3>3, <4>1
      <4>. HIDE DEF r
      <4>3. Look(r, o) = [owner |-> w, player |-> p, value |-> v]
        BY <3>1, <4>2
      <4>. QED  BY <4>1, <4>3
    <3>. QED  BY <3>2, <3>3
  <2>. QED  BY <2>1, <2>2
<1>. HIDE DEF r
<1>15. \A x \in Objects : index[x] # Nil => index'[x] = index[x]
  BY <1>5, <1>8, <1>10, Lookups
<1>16. Map!Change(p, o, w, v)
  <2>1. ext[o] = Look(Now, o)
    BY Lookups
  <2>2. ext' = [ext EXCEPT ![o] = Look(r, o)]
    BY <1>8, <1>11, OneLookup
  <2>3. CASE ext[o] = Nil /\ p = Nil
    <3>1. ext' = [ext EXCEPT ![o] = ext[o]]
      BY <1>14, <2>1, <2>2, <2>3
    <3>2. ext' = ext
      BY <3>1 DEF ext
    <3>. QED  BY <2>3, <3>2 DEF Map!Change
  <2>4. CASE ext[o] = Nil /\ p # Nil
    BY <1>14, <2>1, <2>2, <2>4 DEF Map!Change
  <2>5. CASE ext[o] # Nil
    BY <1>14, <2>1, <2>2, <2>5 DEF Map!Change
  <2>. QED  BY <2>3, <2>4, <2>5
<1>. QED  BY <1>8, <1>9, <1>15, <1>16

LEMMA ReparentEffect ==
  ASSUME IInv, NEW p \in Players, NEW o \in Objects, NEW w \in Owners,
         Reparent(p, o, w)
  PROVE  /\ Map!Transfer(p, o, w)
         /\ index' = index
         /\ NoneEmptied(Now, Now')
<1>. DEFINE b == Now.index[o]
            e == [Now.heap[b] EXCEPT !.owner = w]
            s == [Now EXCEPT !.heap = [@ EXCEPT ![b] = e]]
            r == MoveToPlayer(s, p, o)
<1>1. Wellformed(Now) /\ Now.index[o] # Nil /\ Now.index = index
  BY DEF Reparent, Now, IInv
<1>2. Now.heap[b] \in Entry /\ Look(Now, o) = Now.heap[b]
  BY <1>1, EntryOf DEF Look
<1>3. Put(r)
  BY <1>1 DEF Reparent
<1>4. Wellformed(s) /\ s.index = Now.index
  <2>1. /\ Wellformed([Now EXCEPT !.heap[Now.index[o]].owner = w])
        /\ [Now EXCEPT !.heap[Now.index[o]].owner = w].index = Now.index
    BY <1>1, OwnerWellformed
  <2>. QED  BY <2>1
<1>5. /\ e \in Entry /\ e.owner = w /\ e.value = Look(Now, o).value
  BY <1>2 DEF Entry
<1>. HIDE DEF e
<1>6. /\ Look(s, o) = e
      /\ \A x \in Objects \ {o} : Look(s, x) = Look(Now, x)
      /\ NoneEmptied(Now, s)
  <2>1. LET u == [Now EXCEPT !.heap = [@ EXCEPT ![Now.index[o]] = e]]
        IN /\ u.index = Now.index
           /\ Look(u, o) = e
           /\ \A x \in Objects \ {o} : Look(u, x) = Look(Now, x)
           /\ NoneEmptied(Now, u)
    BY <1>1, RewriteEffect
  <2>. QED  BY <2>1
<1>. HIDE DEF s
<1>7. /\ Look(r, o) = [e EXCEPT !.player = p]
      /\ \A x \in Objects \ {o} : Look(r, x) = Look(s, x)
      /\ NoneEmptied(s, r)
      /\ Wellformed(r) /\ r.index = s.index
  BY <1>1, <1>4, <1>6, MoveEffect, MoveWellformed, NilAssumption
<1>. HIDE DEF r
<1>8. Now' = r
  BY <1>3, <1>7, PutNow DEF Wellformed
<1>9. NoneEmptied(Now, r)
  BY <1>6, <1>7 DEF NoneEmptied
<1>10. index' = index
  BY <1>4, <1>7, <1>8, Lookups
<1>11. Map!Transfer(p, o, w)
  <2>1. ext[o] = Look(Now, o) /\ ext[o] # Nil
    BY <1>2, Lookups, NilAssumption DEF Entry
  <2>2. ext' = [ext EXCEPT ![o] = Look(r, o)]
    BY <1>6, <1>7, <1>8, OneLookup
  <2>3. Look(r, o) = [owner |-> w, player |-> p, value |-> ext[o].value]
    BY <1>5, <1>7, <2>1 DEF Entry
  <2>. QED  BY <2>1, <2>2, <2>3 DEF Map!Transfer
<1>. QED  BY <1>8, <1>9, <1>10, <1>11

LEMMA EraseOpEffect ==
  ASSUME IInv, NEW o \in Objects, Erase(o)
  PROVE  /\ Map!Forget(o)
         /\ \A x \in Objects : index'[x] # Nil => index'[x] = index[x]
         /\ NoneEmptied(Now, Now')
<1>. DEFINE r == EraseLocked(Now, o)
<1>1. /\ Wellformed(Now) /\ Wellformed(r) /\ r.index = [Now.index EXCEPT ![o] = Nil]
      /\ Look(r, o) = Nil /\ \A x \in Objects \ {o} : Look(r, x) = Look(Now, x)
      /\ NoneEmptied(Now, r)
  BY EraseWellformed, EraseEffect DEF IInv
<1>2. Now' = r
  BY <1>1, PutNow DEF Erase, Wellformed
<1>. HIDE DEF r
<1>3. Map!Forget(o)
  BY <1>1, <1>2, OneLookup DEF Map!Forget
<1>4. \A x \in Objects : index'[x] # Nil => index'[x] = index[x]
  BY <1>1, <1>2, Lookups DEF Wellformed, Store
<1>. QED  BY <1>1, <1>2, <1>3, <1>4

LEMMA DropPlayerEffect ==
  ASSUME IInv, NEW p \in Players, DropPlayer(p)
  PROVE  /\ Map!ForgetPlayer(p)
         /\ \A x \in Objects : index'[x] # Nil => index'[x] = index[x]
         /\ NoneEmptied(Now, Now')
<1>1. /\ children \in [Players -> [Objects -> Addrs \cup {Nil}]]
      /\ index \in [Objects -> Addrs \cup {Nil}]
      /\ heap \in [Addrs -> Entry \cup {Nil}]
  BY DEF IInv, Wellformed, Store, Now
<1>2. /\ buckets' = buckets \ {p}
      /\ children' = [children EXCEPT ![p] = [o \in Objects |-> Nil]]
      /\ index' = [o \in Objects |->
                     IF children[p][o] # Nil THEN Nil ELSE index[o]]
      /\ heap' = [a \in Addrs |-> IF a \in Owned(p) THEN Nil ELSE heap[a]]
  BY DEF DropPlayer
<1>3. ASSUME NEW x \in Objects
      PROVE  ext'[x] = IF ext[x] # Nil /\ ext[x].player = p THEN Nil ELSE ext[x]
  <2>. DEFINE a == index[x]
  <2>0. /\ ext[x] = IF a = Nil THEN Nil ELSE heap[a]
        /\ ext'[x] = IF index'[x] = Nil THEN Nil ELSE heap'[index'[x]]
    BY DEF ext, Find
  <2>1. CASE children[p][x] # Nil
    <3>1. a = children[p][x] /\ heap[a].player = p /\ a # Nil
      BY <2>1 DEF IInv, Wellformed, Reachable, Now
    <3>. QED  BY <2>0, <2>1, <3>1, <1>2
  <2>2. CASE children[p][x] = Nil /\ a = Nil
    BY <2>0, <2>2, <1>2
  <2>3. CASE children[p][x] = Nil /\ a # Nil
    <3>1. /\ a \in Addrs /\ children[heap[a].player][x] = a
      BY <2>3, <1>1 DEF IInv, Wellformed, Linked, Now
    <3>2. heap[a].player # p
      BY <2>3, <3>1
    <3>3. a \notin Owned(p)
      <4>. SUFFICES ASSUME NEW y \in Objects, children[p][y] = a
                    PROVE  FALSE
        BY DEF Owned
      <4>1. index[y] = a
        BY <2>3 DEF IInv, Wellformed, Reachable, Now
      <4>2. y = x
        BY <2>3, <4>1 DEF IInv, Wellformed, Exclusive, Now
      <4>. QED  BY <2>3, <4>2
    <3>. QED  BY <2>0, <2>3, <3>1, <3>2, <3>3, <1>2
  <2>. QED  BY <2>1, <2>2, <2>3
<1>4. Map!ForgetPlayer(p)
  <2>1. ext' = [x \in Objects |-> ext'[x]]
    BY DEF ext
  <2>. QED  BY <1>3, <2>1 DEF Map!ForgetPlayer
<1>5. NoneEmptied(Now, Now')
  <2>. SUFFICES ASSUME NEW q \in Players, EmptyIn(Now', q)
                PROVE  EmptyIn(Now, q)
    BY DEF NoneEmptied
  <2>1. q # p /\ children'[q] = children[q]
    BY <1>1, <1>2 DEF EmptyIn, Now
  <2>. QED  BY <1>2, <2>1 DEF EmptyIn, Childless, Now
<1>. QED  BY <1>2, <1>4, <1>5

-----------------------------------------------------------------------------
(* The theorems.                                                           *)

\* The side table is well formed in every reachable state.
THEOREM TableWellformed == Spec => []IInv
<1>1. Init => IInv
  BY EmptyWellformed DEF Init
<1>2. QED BY <1>1, StepKeeps, PTL DEF Spec

\* Type correctness of the side table.
THEOREM TableTypeOK == Spec => []TypeOK
<1>1. IInv => TypeOK
  BY DEF IInv, Wellformed, TypeOK
<1>2. QED BY <1>1, TableWellformed, PTL

\* The raw pointer index never dangles: FindCity and FindUnitStrength
\* dereference it without a further check.
THEOREM TableIndexLinked == Spec => []IndexLinked
<1>1. IInv => IndexLinked
  BY DEF IInv, Wellformed, IndexLinked
<1>2. QED BY <1>1, TableWellformed, PTL

\* No entry a bucket owns is unreachable from its object.
THEOREM TableEntryReachable == Spec => []EntryReachable
<1>1. IInv => EntryReachable
  BY DEF IInv, Wellformed, EntryReachable
<1>2. QED BY <1>1, TableWellformed, PTL

\* Entries are owned exactly once and none leaks.
THEOREM TableOwnershipExclusive == Spec => []OwnershipExclusive
<1>1. IInv => OwnershipExclusive
  BY DEF IInv, Wellformed, OwnershipExclusive
<1>2. QED BY <1>1, TableWellformed, PTL

-----------------------------------------------------------------------------
(* What a step may never do, and the map the table implements.             *)

\* Erasing, moving, creating and dropping never leave an empty player bucket
\* behind; only EnsurePlayer makes one (ErasePlayerIfEmpty).
THEOREM TableNoBucketLeftEmpty == Spec => NoBucketLeftEmpty
<1>1. ASSUME IInv, [Next]_vars, NEW p \in Players, EmptyBucket(p)'
      PROVE  EmptyBucket(p) \/ EnsurePlayer(p)
  <2>1. /\ EmptyBucket(p) <=> EmptyIn(Now, p)
        /\ EmptyBucket(p)' <=> EmptyIn(Now', p)
    BY DEF EmptyBucket, EmptyIn, Childless, Now
  <2>2. CASE NoneEmptied(Now, Now')
    BY <1>1, <2>1, <2>2 DEF NoneEmptied
  <2>3. CASE UNCHANGED vars
    BY <1>1, <2>3 DEF EmptyBucket, vars
  <2>4. CASE \E q \in Players : EnsurePlayer(q)
    BY <1>1, <2>4 DEF EmptyBucket, EnsurePlayer
  <2>5. CASE Clear
    BY <1>1, <2>5 DEF EmptyBucket, Clear
  <2>. QED
    BY <1>1, <2>2, <2>3, <2>4, <2>5, EnsureEffect, EditEffect, ReparentEffect,
       EraseOpEffect, DropPlayerEffect DEF Next
<1>2. IInv /\ [Next]_vars =>
        [\A p \in Players :
           EmptyBucket(p)' => EmptyBucket(p) \/ EnsurePlayer(p)]_vars
  BY <1>1
<1>. QED  BY <1>2, TableWellformed, PTL DEF Spec, NoBucketLeftEmpty

\* An entry keeps its address as long as its object lives, through edits and
\* captures: the map node is transferred (MoveCityToPlayer, MoveUnitToPlayer).
THEOREM TableAddressStable == Spec => AddressStable
<1>1. ASSUME IInv, [Next]_vars, NEW o \in Objects, index[o] # Nil, index'[o] # Nil
      PROVE  \/ index'[o] = index[o]
             \/ \E p \in Players, w \in Owners : Ensure(p, o, w)
  <2>1. ASSUME NEW p \in Players \cup {Nil}, NEW x \in Objects, NEW w \in Owners,
               Ensure(p, x, w)
        PROVE  \/ index'[o] = index[o]
               \/ \E q \in Players, v \in Owners : Ensure(q, o, v)
    <3>1. CASE x = o
      BY <1>1, <2>1, <3>1, EnsureEffect
    <3>2. CASE x # o
      BY <1>1, <2>1, <3>2, EnsureEffect
    <3>. QED  BY <3>1, <3>2
  <2>2. ASSUME NEW p \in Players \cup {Nil}, NEW x \in Objects, NEW w \in Owners,
               NEW v \in Values, Edit(p, x, w, v)
        PROVE  index'[o] = index[o]
    BY <1>1, <2>2, EditEffect
  <2>3. ASSUME NEW p \in Players, NEW x \in Objects, NEW w \in Owners,
               Reparent(p, x, w)
        PROVE  index'[o] = index[o]
    BY <1>1, <2>3, ReparentEffect
  <2>4. ASSUME NEW x \in Objects, Erase(x)
        PROVE  index'[o] = index[o]
    BY <1>1, <2>4, EraseOpEffect
  <2>5. ASSUME NEW p \in Players, DropPlayer(p)
        PROVE  index'[o] = index[o]
    BY <1>1, <2>5, DropPlayerEffect
  <2>6. ASSUME (\E p \in Players : EnsurePlayer(p)) \/ Clear \/ UNCHANGED vars
        PROVE  index'[o] = index[o]
    BY <1>1, <2>6 DEF EnsurePlayer, Clear, vars
  <2>. QED  BY <1>1, <2>1, <2>2, <2>3, <2>4, <2>5, <2>6 DEF Next
<1>2. IInv /\ [Next]_vars =>
        [\A o \in Objects :
           index[o] # Nil /\ index'[o] # Nil =>
             \/ index'[o] = index[o]
             \/ \E p \in Players, w \in Owners : Ensure(p, o, w)]_vars
  BY <1>1
<1>. QED  BY <1>2, TableWellformed, PTL DEF Spec, AddressStable

\* A newly constructed object starts from a fresh entry, or from none, and
\* disturbs no other object's, whatever a former object at its address left
\* behind (EnsureCity, EnsureUnit).
THEOREM TableConstructedFresh == Spec => ConstructedFresh
<1>1. ASSUME IInv, NEW p \in Players \cup {Nil}, NEW o \in Objects,
             NEW w \in Owners, Ensure(p, o, w)
      PROVE  /\ ext'[o] = IF p = Nil THEN Nil
                          ELSE [owner |-> w, player |-> p, value |-> Fresh]
             /\ \A x \in Objects \ {o} : ext'[x] = ext[x]
  <2>. DEFINE e == IF p = Nil THEN Nil
                   ELSE [owner |-> w, player |-> p, value |-> Fresh]
  <2>1. ext' = [ext EXCEPT ![o] = e]
    BY <1>1, EnsureEffect
  <2>. HIDE DEF e
  <2>2. ext'[o] = e /\ \A x \in Objects \ {o} : ext'[x] = ext[x]
    BY <2>1, Lookups
  <2>. QED  BY <2>2 DEF e
<1>2. IInv =>
        [\A p \in Players \cup {Nil}, o \in Objects, w \in Owners :
           Ensure(p, o, w) =>
             /\ ext'[o] = IF p = Nil THEN Nil
                          ELSE [owner |-> w, player |-> p, value |-> Fresh]
             /\ \A x \in Objects \ {o} : ext'[x] = ext[x]]_vars
  BY <1>1
<1>. QED  BY <1>2, TableWellformed, PTL DEF ConstructedFresh

\* The table implements the plain map from objects to entries: buckets, the
\* pointer indexes and the moves between buckets are invisible to callers.
THEOREM TableIsMap == Spec => ImplementsMap
<1>1. Init => Map!MapInit
  BY DEF Init, Map!MapInit, ext, Find
<1>2. ASSUME IInv, [Next]_vars
      PROVE  [Map!MapNext]_ext
  <2>1. ASSUME NEW p \in Players \cup {Nil}, NEW o \in Objects, NEW w \in Owners,
               Ensure(p, o, w)
        PROVE  Map!MapNext
    <3>1. Map!New(p, o, w)
      BY <1>2, <2>1, EnsureEffect DEF Map!New
    <3>. QED  BY <3>1 DEF Map!MapNext
  <2>2. ASSUME NEW p \in Players \cup {Nil}, NEW o \in Objects, NEW w \in Owners,
               NEW v \in Values, Edit(p, o, w, v)
        PROVE  Map!MapNext
    <3>1. Map!Change(p, o, w, v)
      BY <1>2, <2>2, EditEffect
    <3>. QED  BY <3>1 DEF Map!MapNext
  <2>3. ASSUME NEW p \in Players, NEW o \in Objects, NEW w \in Owners,
               Reparent(p, o, w)
        PROVE  Map!MapNext
    <3>1. Map!Transfer(p, o, w)
      BY <1>2, <2>3, ReparentEffect
    <3>. QED  BY <3>1 DEF Map!MapNext
  <2>4. ASSUME NEW o \in Objects, Erase(o)
        PROVE  Map!MapNext
    <3>1. Map!Forget(o)
      BY <1>2, <2>4, EraseOpEffect
    <3>. QED  BY <3>1 DEF Map!MapNext
  <2>5. ASSUME NEW p \in Players, DropPlayer(p)
        PROVE  Map!MapNext
    <3>1. Map!ForgetPlayer(p)
      BY <1>2, <2>5, DropPlayerEffect
    <3>. QED  BY <3>1 DEF Map!MapNext
  <2>6. ASSUME NEW p \in Players, EnsurePlayer(p)
        PROVE  UNCHANGED ext
    BY <2>6 DEF EnsurePlayer, ext, Find
  <2>7. ASSUME Clear
        PROVE  Map!MapNext
    <3>1. Map!ForgetAll
      BY <2>7 DEF Clear, Map!ForgetAll, ext, Find
    <3>. QED  BY <3>1 DEF Map!MapNext
  <2>8. ASSUME UNCHANGED vars
        PROVE  UNCHANGED ext
    BY <2>8 DEF vars, ext, Find
  <2>. QED
    BY <1>2, <2>1, <2>2, <2>3, <2>4, <2>5, <2>6, <2>7, <2>8 DEF Next
<1>. QED
  BY <1>1, <1>2, TableWellformed, PTL DEF Spec, ImplementsMap, Map!MapSpec
=============================================================================
