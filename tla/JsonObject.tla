----------------------------- MODULE JsonObject -----------------------------
(***************************************************************************)
(* gk::JsonObject (json/json_object.h, .cpp) at run time: a hash table of   *)
(* buckets, each an array of fields with their masks.  Erasing closes the   *)
(* gap, but what stood last stays readable behind the end, and a search     *)
(* scans whole blocks of masks, past the end.                               *)
(*                                                                         *)
(* The constant-evaluated paths of the header are not modelled, nor are     *)
(* checks that are not in every build.                                     *)
(***************************************************************************)
EXTENDS Hashing

CONSTANTS
  Objects,         \* places that hold a JsonObject
  Block,           \* 64: masks that are scanned at once
  PerBucket,       \* 32: of an object with more than a block of fields, a bucket is
                   \* meant to hold as many
  FirstCapacity,   \* 4: fields a bucket is allocated for
  Fields,          \* the fields that clients add
  MaxElements,     \* bounds of the model: the highest number of elements,
  MaxTogether,     \* that of two objects while they are added to or assigned, and the
  MaxErased        \* names that are erased from an object before it is built anew

VARIABLES
  objects,         \* of each place: its JsonObject
  alive,           \* the places that hold one
  told,            \* the value the last call found for its name
  cursor,          \* the iteration that is going on
  erased,          \* of each object: the names that were erased from its buckets
  lost             \* history: of each object, how many fields were erased from it or freed
                   \* by an assignment to it, since it was built anew

objectVars == <<objects, alive, told, cursor, erased, lost>>

ASSUME FieldsAssumption == Fields \subseteq Keys \X Values
ASSUME BoundAssumption == MaxElements \in Nat /\ MaxTogether \in Nat /\ MaxErased \in Nat
ASSUME BlockAssumption ==
  Block \in Nat \ {0} /\ PerBucket \in Nat \ {0} /\ FirstCapacity \in Nat \ {0}

-----------------------------------------------------------------------------
(* Buckets *)

NewBucketCount(required) ==
  IF required <= Block THEN 1 ELSE UpperPowerOfTwo(required \div PerBucket)

\* An object with fields gets buckets: the powers of two reach that far.
ASSUME BucketCountAssumption == \A n \in 0 .. 2 * MaxElements + 1 : NewBucketCount(n) \in Nat \ {0}

Slots(c) == [i \in 0 .. c - 1 |-> Free]
EmptyBucket == [slots |-> Slots(FirstCapacity), length |-> 0]
FreedBucket == [slots |-> Slots(0), length |-> 0]
NoBuckets == <<>>

\* Mutant of Blocks: a block that is not full is not scanned.
BlocksFull(b) == b.length \div Block

\* The blocks of masks a search of b scans.
Blocks(b) == (b.length + Block - 1) \div Block

\* Where a search finds a name: each turn scans the first block of masks, the
\* pointer to which it does not advance, and compares the names of its own turn.
FieldHits(b, k) == {i \in DOMAIN b.slots :
  /\ i < Blocks(b) * Block
  /\ b.slots[i % Block].mask = PairMask(Hash[k])
  /\ b.slots[i].key = k}

FieldValue(b, k) == IF FieldHits(b, k) = {} THEN NoValue ELSE b.slots[Least(FieldHits(b, k))].value

\* A bucket grows when it is full: there are no masks behind the end to copy.
BucketReallocate(b, c) == [i \in 0 .. c - 1 |-> IF i < b.length THEN b.slots[i] ELSE Free]

BucketInsert(b, slot) ==
  LET c == Cardinality(DOMAIN b.slots)
      room == IF b.length < c THEN b.slots
              ELSE BucketReallocate(b, IF c = 0 THEN FirstCapacity ELSE 2 * c)
  IN  [slots |-> [room EXCEPT ![b.length] = slot], length |-> b.length + 1]

\* Fields are moved down by copying them: a JsonKeyValue has no move constructor.
BucketErase(b, k) ==
  IF FieldHits(b, k) = {} THEN b
  ELSE [slots |-> [i \in DOMAIN b.slots |->
                     IF i >= Least(FieldHits(b, k)) /\ i < b.length - 1 THEN b.slots[i + 1]
                     ELSE b.slots[i]],
        length |-> b.length - 1]

-----------------------------------------------------------------------------
(* Objects *)

Empty == [buckets |-> NoBuckets, bucketCount |-> 0, elementCount |-> 0]

\* The places of the fields of an object, which iterators run over.
Live(x) == UNION {{<<b, i>> : i \in 0 .. x.buckets[b].length - 1} : b \in DOMAIN x.buckets}

ShouldRebucket(x, required) ==
  x.bucketCount = 0 \/ required > (x.elementCount \div 4) * 3

InsertInto(buckets, slot) ==
  LET b == GroupOf(slot.key, Cardinality(DOMAIN buckets))
  IN  [buckets EXCEPT ![b] = BucketInsert(@, slot)]

\* The i-th of the fields of x.
Field(x, i) == At(x.buckets, CHOOSE p \in Live(x) : Rank(Live(x), p) = i - 1)

Rebucket(x, required) ==
  LET n == NewBucketCount(required)
      moved[i \in 0 .. Cardinality(Live(x))] ==
        IF i = 0 THEN [b \in 0 .. n - 1 |-> EmptyBucket] ELSE InsertInto(moved[i - 1], Field(x, i))
  IN  IF n <= x.bucketCount THEN x
      ELSE [x EXCEPT !.buckets = moved[Cardinality(Live(x))], !.bucketCount = n]

LookupField(x, k) ==
  IF x.elementCount = 0 THEN NoValue ELSE FieldValue(x.buckets[GroupOf(k, x.bucketCount)], k)

\* Mutant of Added: an element is counted before the name is looked for.
AddedCountsFirst(x, k, v) ==
  LET y == IF ShouldRebucket(x, x.elementCount + 1) THEN Rebucket(x, x.elementCount + 1) ELSE x
  IN  IF LookupField(x, k) # NoValue THEN [x EXCEPT !.elementCount = @ + 1]
      ELSE [y EXCEPT !.buckets = InsertInto(@, Pair(k, v)), !.elementCount = @ + 1]

\* addField
Added(x, k, v) ==
  IF LookupField(x, k) # NoValue THEN x
  ELSE LET y == IF ShouldRebucket(x, x.elementCount + 1) THEN Rebucket(x, x.elementCount + 1) ELSE x
       IN  [y EXCEPT !.buckets = InsertInto(@, Pair(k, v)), !.elementCount = @ + 1]

\* x with each field of y added to it.
WithAll(x, y) ==
  LET with[i \in 0 .. Cardinality(Live(y))] ==
        IF i = 0 THEN x ELSE Added(with[i - 1], Field(y, i).key, Field(y, i).value)
  IN  with[Cardinality(Live(y))]

CopiedObject(y) == IF y.elementCount = 0 THEN Empty ELSE WithAll(Rebucket(Empty, y.elementCount), y)

\* The buckets are freed, the number of elements stays as it was.
EmptiedBuckets(x) == [x EXCEPT !.buckets = [b \in DOMAIN @ |-> FreedBucket]]

Assigned(x, y) ==
  IF y.elementCount = 0 THEN Empty
  ELSE LET z == EmptiedBuckets(x)
       IN  WithAll(IF ShouldRebucket(z, y.elementCount) THEN Rebucket(z, y.elementCount) ELSE z, y)

-----------------------------------------------------------------------------
(* Calls *)

InitObjects ==
  /\ objects = [o \in Objects |-> Empty] /\ alive = {} /\ told = NoValue
  /\ cursor = NoIter /\ erased = [o \in Objects |-> {}] /\ lost = [o \in Objects |-> 0]

\* Clients leave an object alone while they iterate over one.
CalmObjects == cursor = NoIter
UsableObject(o) == CalmObjects /\ o \in alive

\* A bucket with more than a block of fields is not searched to its end.
AllSearched(x) == \A b \in DOMAIN x.buckets : x.buckets[b].length <= Block \/ "overfull" \in Lax

\* o becomes x; none of its names was erased from the buckets it has now.
Becomes(o, x, lostNow) ==
  /\ objects' = [objects EXCEPT ![o] = x]
  /\ erased' = [erased EXCEPT ![o] = {}]
  /\ lost' = [lost EXCEPT ![o] = lostNow]
  /\ told' = NoValue /\ UNCHANGED cursor

Bounded(o, x) ==
  /\ x.elementCount <= MaxElements
  /\ \A p \in Objects \ {o} : x.elementCount + objects[p].elementCount <= MaxTogether

ConstructObject(o) == CalmObjects /\ o \notin alive /\ alive' = alive \cup {o} /\ Becomes(o, Empty, 0)

DestroyObject(o) == UsableObject(o) /\ alive' = alive \ {o} /\ Becomes(o, Empty, 0)

CopyConstructObject(o, p) ==
  /\ UsableObject(p) /\ o \notin alive
  /\ alive' = alive \cup {o}
  /\ Becomes(o, CopiedObject(objects[p]), 0)
  /\ AllSearched(objects'[o])

\* Clients do not assign an object to itself, which would free what it is about to copy.
CopyAssignObject(o, p) == LET x == objects[o]  y == objects[p] IN
  /\ o # p /\ UsableObject(o) /\ UsableObject(p)
  /\ Becomes(o, Assigned(x, y), IF y.elementCount = 0 THEN 0 ELSE lost[o] + Cardinality(Live(x)))
  /\ UNCHANGED alive
  /\ Bounded(o, objects'[o]) /\ AllSearched(objects'[o])

TakeBuckets(o, p) ==
  /\ objects' = [objects EXCEPT ![o] = objects[p], ![p] = Empty]
  /\ erased' = [erased EXCEPT ![o] = erased[p], ![p] = {}]
  /\ lost' = [lost EXCEPT ![o] = lost[p], ![p] = 0]
  /\ told' = NoValue /\ UNCHANGED cursor

MoveConstructObject(o, p) == UsableObject(p) /\ o \notin alive /\ alive' = alive \cup {o} /\ TakeBuckets(o, p)

MoveAssignObject(o, p) == o # p /\ UsableObject(o) /\ UsableObject(p) /\ UNCHANGED alive /\ TakeBuckets(o, p)

\* Clients do not ask an object for a name that they erased from it: the scan
\* past the end may find it.
MayAsk(o, k) == UsableObject(o) /\ (k \in erased[o] => "erasedName" \in Lax)

AddField(o, k, v) ==
  /\ MayAsk(o, k)
  /\ told' = LookupField(objects[o], k)
  /\ objects' = [objects EXCEPT ![o] = Added(@, k, v)]
  /\ Bounded(o, objects'[o]) /\ AllSearched(objects'[o])
  /\ UNCHANGED <<alive, cursor, erased, lost>>

FindField(o, k) ==
  /\ MayAsk(o, k)
  /\ told' = LookupField(objects[o], k)
  /\ UNCHANGED <<objects, alive, cursor, erased, lost>>

\* Divides by the number of buckets: clients erase from an object that had
\* fields.  The number of elements is not counted down.  The answer is whether
\* the name was there, for which its value stands.
EraseField(o, k) == LET x == objects[o]  b == GroupOf(k, x.bucketCount) IN
  /\ MayAsk(o, k) /\ x.bucketCount # 0
  /\ Cardinality(erased[o]) < MaxErased
  /\ told' = FieldValue(x.buckets[b], k)
  /\ objects' = [objects EXCEPT ![o].buckets[b] = BucketErase(@, k)]
  /\ erased' = [erased EXCEPT ![o] = @ \cup {k}]
  /\ lost' = [lost EXCEPT ![o] = IF told' = NoValue THEN @ ELSE @ + 1]
  /\ UNCHANGED <<alive, cursor>>

-----------------------------------------------------------------------------
(* Iteration *)

AtLastField == cursor.at[1] = objects[cursor.of].bucketCount

\* Mutant of FirstField: begin() takes the first bucket, empty or not.
FirstFieldUnskipped(o) == Start(o)

\* begin() skips the empty buckets in front.
FirstField(o) == LET x == objects[o] IN
  IF <<0, 0>> \in Live(x) THEN Start(o) ELSE Forward(Start(o), Live(x), x.bucketCount)

FieldsBegin(o) ==
  /\ UsableObject(o)
  /\ cursor' = FirstField(o)
  /\ told' = NoValue /\ UNCHANGED <<objects, alive, erased, lost>>

\* The body of a loop, with the pair operator* returns, and step().
FieldsNext == LET x == objects[cursor.of]  k == At(x.buckets, cursor.at).key IN
  /\ cursor # NoIter /\ ~AtLastField
  /\ cursor' = Forward([cursor EXCEPT !.seen = @ \cup {k}, !.steps = @ + 1], Live(x), x.bucketCount)
  /\ UNCHANGED <<objects, alive, told, erased, lost>>

FieldsEnd ==
  /\ cursor # NoIter /\ AtLastField
  /\ cursor' = NoIter
  /\ UNCHANGED <<objects, alive, told, erased, lost>>

ObjectNext ==
  \/ \E o \in Objects :
       \/ ConstructObject(o) \/ DestroyObject(o) \/ FieldsBegin(o)
       \/ \E p \in Objects :
            CopyConstructObject(o, p) \/ MoveConstructObject(o, p) \/ CopyAssignObject(o, p) \/ MoveAssignObject(o, p)
       \/ \E k \in Keys : FindField(o, k) \/ EraseField(o, k)
       \/ \E f \in Fields : AddField(o, f[1], f[2])
  \/ FieldsNext \/ FieldsEnd

ObjectSpec == InitObjects /\ [][ObjectNext]_objectVars

-----------------------------------------------------------------------------
(* Properties *)

\* elementCount, at which lookups stop when it is 0, is the number of the fields
\* and of those that were lost to eraseField and to assignments, which do not
\* count down: a field is neither overlooked nor counted twice by any other call.
FieldsAccounted ==
  \A o \in Objects : objects[o].elementCount = Cardinality(Live(objects[o])) + lost[o]

\* fieldCount() is "the number of fields within the JsonObject" (json_object.h:164).
FieldCountAsDocumented ==
  \A o \in alive : objects[o].elementCount = Cardinality(Live(objects[o]))

\* A loop from begin() to end() has each field once, and none that was erased.
IterationVisitsFields ==
  cursor # NoIter => LET x == objects[cursor.of] IN
    /\ cursor.steps = Cardinality(cursor.seen)
    /\ AtLastField => cursor.seen = {At(x.buckets, p).key : p \in Live(x)}

FieldDict == INSTANCE Dictionary WITH
  result <- told,
  dict <- [o \in Objects |-> ContentsOf(objects[o].buckets, Live(objects[o]))]

\* A JsonObject is a finite map for clients that do not ask for erased names.
ObjectDictionarySpec == FieldDict!Spec
=============================================================================
