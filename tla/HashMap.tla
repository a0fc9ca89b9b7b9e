------------------------------ MODULE HashMap ------------------------------
(***************************************************************************)
(* gk::HashMap (hash/hashmap.h): a hash table of groups.  The upper bits of *)
(* a hash select the group, the lower seven make the mask of the pair's     *)
(* slot; a mask of 0 is a free slot.  A group doubles when it is full; the  *)
(* map gets more groups when it is reserved or copied.                      *)
(*                                                                         *)
(* A slot is a mask with its pair, which are always written together.  As   *)
(* many masks as a group is allocated for, but at most 64, are scanned at   *)
(* once (hashmap.cpp).                                                     *)
(***************************************************************************)
EXTENDS Hashing

CONSTANTS
  Maps,            \* places that hold a HashMap
  GroupSize,       \* GROUP_ALLOC_SIZE
  Sparsity,        \* 8: of a map with more groups than one, a group is meant to hold
                   \* one pair for so many slots
  Pairs,           \* the pairs that clients insert
  Reserves         \* the arguments they give reserve

VARIABLES
  maps,            \* of each place: its HashMap
  built,           \* the places that hold one
  found,           \* the value the last call found for its key
  iter             \* the iteration that is going on

mapVars == <<maps, built, found, iter>>

-----------------------------------------------------------------------------
(* Sizes *)

NewGroupCount(required) ==
  IF required <= GroupSize THEN 1 ELSE UpperPowerOfTwo((Sparsity * required) \div GroupSize)

MaxPairs == Cardinality(Keys)

\* A capacity doubled until n pairs fit, for which as many times as there are keys is enough.
Doublings(c) == {c * 2 ^ e : e \in 0 .. MaxPairs}
Doubled(c, n) == CHOOSE d \in Doublings(c) : d >= n /\ \A e \in Doublings(c) : e >= n => d <= e

ASSUME PowersAssumption == \A n \in 0 .. MaxPairs : 2 ^ n \in Nat /\ 2 ^ n > n
ASSUME PairsAssumption == Pairs \subseteq Keys \X Values
ASSUME SizeAssumption == GroupSize \in Nat \ {0} /\ Sparsity \in Nat \ {0} /\ Reserves \subseteq Nat
ASSUME GroupCountAssumption ==
  \A n \in 0 .. MaxPairs + 1, r \in Reserves \cup {0} : NewGroupCount(n + r) \in Nat \ {0}

-----------------------------------------------------------------------------
(* Groups and the pairs they hold *)

\* A group that was allocated with room for c pairs.
EmptyGroup(c) == [slots |-> [i \in 0 .. c - 1 |-> Free], pairCount |-> 0, capacity |-> c]
NoGroups == <<>>

\* The places of the pairs in some groups, in the order they are scanned.
Stored(groups) ==
  UNION {{<<g, i>> : i \in {j \in DOMAIN groups[g].slots : groups[g].slots[j].mask # 0}} :
         g \in DOMAIN groups}

\* A group of capacity c that holds the pairs at S one after the other.
Packed(groups, S, c) ==
  [slots |-> [i \in 0 .. c - 1 |->
     IF \E p \in S : Rank(S, p) = i THEN At(groups, CHOOSE p \in S : Rank(S, p) = i) ELSE Free],
   pairCount |-> Cardinality(S), capacity |-> c]

\* The place of a key in a group: of the slots with its mask, the first with its key.
Hits(g, k) == {i \in EqualMasks(g.slots, k) : g.slots[i].key = k}
ValueIn(g, k) == IF Hits(g, k) = {} THEN NoValue ELSE g.slots[Least(Hits(g, k))].value

FirstAvailable(g) == FirstInVectors({i \in DOMAIN g.slots : g.slots[i].mask = 0}, GroupSize)

GroupReallocate(g, c) == LET one == [x \in {0} |-> g] IN Packed(one, Stored(one), c)

\* Mutant of GroupInsert: a key that is there is inserted again.
GroupInsertAgain(g, k, v) ==
  LET room == IF g.pairCount = g.capacity THEN GroupReallocate(g, 2 * g.capacity) ELSE g
  IN  [room EXCEPT !.slots[FirstAvailable(room)] = Pair(k, v), !.pairCount = @ + 1]

GroupInsert(g, k, v) ==
  IF Hits(g, k) # {} THEN g
  ELSE LET room == IF g.pairCount = g.capacity THEN GroupReallocate(g, 2 * g.capacity) ELSE g
       IN  [room EXCEPT !.slots[FirstAvailable(room)] = Pair(k, v), !.pairCount = @ + 1]

\* Mutant of GroupErase: the number of pairs is not counted down.
GroupEraseUncounted(g, k) ==
  IF Hits(g, k) = {} THEN g ELSE [g EXCEPT !.slots[Least(Hits(g, k))] = Free]

GroupErase(g, k) ==
  IF Hits(g, k) = {} THEN g
  ELSE [g EXCEPT !.slots[Least(Hits(g, k))] = Free, !.pairCount = @ - 1]

\* Mutant of Spread: pairs stay in the group of the same number.
SpreadUnhashed(groups, from) ==
  [x \in DOMAIN groups |->
     LET S == {p \in Stored(from) : p[1] % Cardinality(DOMAIN groups) = x}
     IN  Packed(from, S, Doubled(groups[x].capacity, Cardinality(S)))]

\* Empty groups that take over, or get copies of, the pairs of others.
Spread(groups, from) ==
  [x \in DOMAIN groups |->
     LET S == {p \in Stored(from) : GroupOf(At(from, p).key, Cardinality(DOMAIN groups)) = x}
     IN  Packed(from, S, Doubled(groups[x].capacity, Cardinality(S)))]

-----------------------------------------------------------------------------
(* Maps *)

Fresh == [groups |-> NoGroups, groupCount |-> 0, elementCount |-> 0, allocator |-> TRUE]

\* Not moved from, and not a map with groups that was assigned from one without
\* pairs: that frees the groups and leaves _groupCount as it was (hashmap.h:969),
\* and clients only move another map into it or destroy it.
Usable(m) == m \in built /\ maps[m].allocator /\ DOMAIN maps[m].groups = 0 .. maps[m].groupCount - 1

\* Clients leave a map alone while they iterate over one.
Calm == iter = NoIter

ShouldReallocate(x, required) ==
  x.groupCount = 0 \/ required > (x.elementCount \div 4) * 3

Reallocate(x, required) ==
  LET n == NewGroupCount(required)
      new == [g \in 0 .. n - 1 |-> EmptyGroup(GroupSize)]
  IN  IF n <= x.groupCount THEN x
      ELSE [x EXCEPT !.groups = Spread(new, x.groups), !.groupCount = n]

Grown(x, required) == IF ShouldReallocate(x, required) THEN Reallocate(x, required) ELSE x

\* A map without pairs that gets a copy of each pair of another.
CopyPairs(x, y) == [x EXCEPT !.groups = Spread(x.groups, y.groups),
                             !.elementCount = x.elementCount + Cardinality(Stored(y.groups))]

Copied(y) == IF y.groupCount = 0 THEN Fresh ELSE CopyPairs(Reallocate(Fresh, y.elementCount), y)

\* Frees the groups of a map, of which the rest stays as it is.
Emptied(x) == [x EXCEPT !.groups = NoGroups]

InitMaps ==
  /\ maps = [m \in Maps |-> Fresh] /\ built = {} /\ found = NoValue /\ iter = NoIter

Construct(m) ==
  /\ Calm /\ m \notin built
  /\ maps' = [maps EXCEPT ![m] = Fresh]
  /\ built' = built \cup {m} /\ found' = NoValue /\ UNCHANGED iter

CopyConstruct(m, p) ==
  /\ Calm /\ m \notin built /\ Usable(p)
  /\ maps' = [maps EXCEPT ![m] = Copied(maps[p])]
  /\ built' = built \cup {m} /\ found' = NoValue /\ UNCHANGED iter

\* The source keeps its counts.
TakeFrom(m, p) ==
  /\ maps' = [maps EXCEPT ![m] = maps[p],
                          ![p] = [maps[p] EXCEPT !.groups = NoGroups, !.allocator = FALSE]]
  /\ found' = NoValue /\ UNCHANGED iter

MoveConstruct(m, p) == Calm /\ m \notin built /\ Usable(p) /\ built' = built \cup {m} /\ TakeFrom(m, p)

MoveAssign(m, p) == Calm /\ m \in built /\ m # p /\ Usable(p) /\ UNCHANGED built /\ TakeFrom(m, p)

\* For each pair of a group, the slot that has the number of the group is
\* erased.  Clients assign to a map without pairs only, for which this is nothing.
\* When there is nothing to copy the groups are freed and nothing else is done.
CopyAssign(m, p) == LET x == maps[m]  y == maps[p] IN
  /\ Calm /\ Usable(m) /\ Usable(p)
  /\ Stored(x.groups) = {}
  /\ maps' = [maps EXCEPT ![m] =
       IF x.groups # NoGroups /\ y.elementCount = 0 THEN Emptied(x)
       ELSE LET z == [x EXCEPT !.elementCount = 0] IN CopyPairs(Grown(z, y.elementCount), y)]
  /\ found' = NoValue /\ UNCHANGED <<built, iter>>

Destroy(m) ==
  /\ Calm /\ m \in built
  /\ maps' = [maps EXCEPT ![m] = Fresh]
  /\ built' = built \ {m} /\ found' = NoValue /\ UNCHANGED iter

Insert(m, k, v) == LET x == maps[m]
                       y == IF x.elementCount # 0 THEN x ELSE Grown(x, x.elementCount + 1)
                       g == GroupOf(k, y.groupCount) IN
  /\ Calm /\ Usable(m)
  /\ found' = IF x.elementCount # 0 THEN ValueIn(y.groups[g], k) ELSE NoValue
  /\ maps' = [maps EXCEPT ![m] =
       [y EXCEPT !.groups[g] = GroupInsert(y.groups[g], k, v),
                 !.elementCount = IF found' = NoValue THEN @ + 1 ELSE @]]
  /\ UNCHANGED <<built, iter>>

Lookup(x, k) ==
  IF x.elementCount = 0 THEN NoValue ELSE ValueIn(x.groups[GroupOf(k, x.groupCount)], k)

Find(m, k) ==
  /\ Calm /\ Usable(m)
  /\ found' = Lookup(maps[m], k)
  /\ UNCHANGED <<maps, built, iter>>

\* Counts down before it knows whether the key is there.
Erase(m, k) == LET x == maps[m]  g == GroupOf(k, x.groupCount) IN
  /\ Calm /\ Usable(m)
  /\ x.elementCount # 0 /\ "eraseMissing" \notin Lax => Hits(x.groups[g], k) # {}
  /\ found' = Lookup(x, k)
  /\ maps' = IF x.elementCount = 0 THEN maps
             ELSE [maps EXCEPT ![m].elementCount = @ - 1, ![m].groups[g] = GroupErase(@, k)]
  /\ UNCHANGED <<built, iter>>

Reserve(m, additional) == LET x == maps[m] IN
  /\ Calm /\ Usable(m)
  /\ maps' = [maps EXCEPT ![m] = Grown(x, x.elementCount + additional)]
  /\ found' = NoValue /\ UNCHANGED <<built, iter>>

-----------------------------------------------------------------------------
(* Iteration *)

AtEnd == iter.at[1] = maps[iter.of].groupCount

\* Mutant of Step: the end of a group is taken for the end of the map.
StepInGroup(m, it) ==
  LET x == maps[m]  S == {p \in Stored(x.groups) : p[1] = it.at[1]} IN Forward(it, S, x.groupCount)

\* operator++
Step(m, it) == LET x == maps[m] IN Forward(it, Stored(x.groups), x.groupCount)

\* begin() steps forward when the first slot is free.
IterBegin(m) == LET gs == maps[m].groups IN
  /\ Calm /\ Usable(m)
  /\ iter' = IF gs # NoGroups /\ gs[0].slots[0].mask = 0 THEN Step(m, Start(m)) ELSE Start(m)
  /\ found' = NoValue /\ UNCHANGED <<maps, built>>

\* The body of a loop, with the pair operator* returns, and operator++.
IterNext == LET k == At(maps[iter.of].groups, iter.at).key IN
  /\ iter # NoIter /\ ~AtEnd
  /\ iter' = Step(iter.of, [iter EXCEPT !.seen = @ \cup {k}, !.steps = @ + 1])
  /\ UNCHANGED <<maps, built, found>>

IterEnd ==
  /\ iter # NoIter /\ AtEnd
  /\ iter' = NoIter
  /\ UNCHANGED <<maps, built, found>>

MapNext ==
  \/ \E m \in Maps :
       \/ Construct(m) \/ Destroy(m) \/ IterBegin(m)
       \/ \E p \in Maps :
            CopyConstruct(m, p) \/ MoveConstruct(m, p) \/ CopyAssign(m, p) \/ MoveAssign(m, p)
       \/ \E k \in Keys : Find(m, k) \/ Erase(m, k)
       \/ \E e \in Pairs : Insert(m, e[1], e[2])
       \/ \E n \in Reserves : Reserve(m, n)
  \/ IterNext \/ IterEnd

MapSpec == InitMaps /\ [][MapNext]_mapVars

-----------------------------------------------------------------------------
(* Properties *)

\* The counts that decide when find, insert and reallocate look at the
\* groups at all are the numbers of the pairs in them.
CountsExact == \A m \in Maps : LET x == maps[m] IN
  Usable(m) => LET S == Stored(x.groups) IN
    /\ x.elementCount = Cardinality(S)
    /\ \A g \in DOMAIN x.groups : x.groups[g].pairCount = Cardinality({p \in S : p[1] = g})

\* Wherever growing, reserving, copying and erasing have moved the pairs, a
\* lookup finds them: each is in the group of its hash, and no key is there twice.
PlacedByHash == \A m \in Maps : LET gs == maps[m].groups  S == Stored(gs) IN
  \A p, q \in S :
    /\ p[1] = GroupOf(At(gs, p).key, maps[m].groupCount)
    /\ At(gs, p).key = At(gs, q).key => p = q

\* A loop from begin() to end() has each pair once, wherever the free slots
\* and the empty groups are.
IterationVisitsAll ==
  iter # NoIter => LET gs == maps[iter.of].groups IN
    /\ iter.steps = Cardinality(iter.seen)
    /\ AtEnd => iter.seen = {At(gs, p).key : p \in Stored(gs)}

Dict == INSTANCE Dictionary WITH
  Objects <- Maps, result <- found,
  dict <- [m \in Maps |-> ContentsOf(maps[m].groups, Stored(maps[m].groups))]

\* A HashMap is a finite map for its clients.
MapDictionarySpec == Dict!Spec
=============================================================================
