----------------------------- MODULE ArrayList -----------------------------
(***************************************************************************)
(* gk::ArrayList (array/array_list.h): a buffer that grows.  For numbers    *)
(* the buffer is a multiple of a vector wide, and find compares a vector at *)
(* a time.                                                                 *)
(*                                                                         *)
(* A place without a list is described as one with an empty list: the       *)
(* default constructor allocates nothing.  An allocation succeeds (the code *)
(* takes the ok() of every one).                                           *)
(***************************************************************************)
EXTENDS Naturals, Sequences, FiniteSets

CONSTANTS
  Lists,           \* places that hold an ArrayList
  Elements,
  Literals,        \* initializer lists and buffers that clients pass
  Sizes,           \* capacities and additional lengths that clients ask for
  Lanes,           \* the elements in 64 bytes, 0 for elements that are not numbers
  MaxLength,       \* clients keep lists this short, and any
  MaxTotal,        \* two of them together
  ListLax,         \* the preconditions of the library that clients break
  NoElement,       \* what is in a slot that holds no element
  NoData,          \* _data == nullptr
  NoContents,
  Refused          \* the answer of a call that got no memory (UnmanagedList)

ASSUME LiteralsAssumption == Literals \subseteq Seq(Elements) /\ <<>> \in Literals
ASSUME SizesAssumption == Sizes \subseteq Nat /\ MaxLength \in Nat /\ MaxTotal \in Nat
ASSUME LanesAssumption == \A n \in Lanes : n \in Nat /\ n % 2 = 0
ASSUME NoElementAssumption == NoElement \notin Elements
ASSUME PowersAssumption == \A n \in 1 .. MaxLength : \E i \in 0 .. n : 2 ^ i \in n .. 2 * n - 1
ASSUME ListLaxAssumption == ListLax \subseteq {"self", "ownElement", "emptyAlloc"}

VARIABLES
  lists,           \* of each place: the _data, _length and _capacity of its list
  lanes,           \* the elements in 64 bytes, for the type of element of this behaviour
  removed          \* what the last remove returned

listVars == <<lists, lanes, removed>>

-----------------------------------------------------------------------------
(* Buffers *)

EmptyList == [data |-> NoData, length |-> 0, capacity |-> 0]

RoundedTo(n, width) == IF n % width = 0 THEN n ELSE n + width - (n % width)

\* The capacity that a buffer for n elements gets.
RoundedUp(n) == IF lanes = 0 THEN n ELSE RoundedTo(n, lanes)

\* upperPowerOfTwo: the bits below the highest one set, plus one; of 0 it is 0.
PowerAbove(n) == IF n = 0 THEN 0 ELSE CHOOSE p \in n .. 2 * n - 1 : \E i \in 0 .. n : p = 2 ^ i

\* mallocArrayListBuffer, and the elements s moved or copied into the buffer.
Filled(s, n) ==
  [data |-> [i \in 0 .. RoundedUp(n) - 1 |-> IF i < Len(s) THEN s[i + 1] ELSE NoElement],
   length |-> Len(s), capacity |-> RoundedUp(n)]

\* An allocator is never asked for no memory, which it asserts.
Allocates(n) == n > 0 \/ "emptyAlloc" \in ListLax

\* list[i]
AtIndex(a, i) == a.data[i]

\* The move constructor takes the buffer of the other, which keeps its length.
WithoutData(a) == [a EXCEPT !.data = NoData]

ListItems(a) == [i \in 1 .. a.length |-> a.data[i - 1]]

Reallocate(a, n) == Filled(ListItems(a), n)

Room(a) == IF a.length = a.capacity THEN Reallocate(a, (a.capacity + 1) * 2) ELSE a

-----------------------------------------------------------------------------
(* Constructors *)

CopyOf(a) == IF a.length = 0 THEN EmptyList ELSE Filled(ListItems(a), a.length)
InitCopy(a) == CopyOf(a)
InitList(s) == IF s = <<>> THEN EmptyList ELSE Filled(s, Len(s))
InitBufferCopy(s) == IF s = <<>> THEN EmptyList ELSE Filled(s, Len(s))

Larger(m, n) == IF m > n THEN m ELSE n

WithCapacity(n) == IF n = 0 THEN EmptyList ELSE Filled(<<>>, n)

WithCapacityCopy(n, a) ==
  IF a.length = 0 /\ n = 0 THEN EmptyList ELSE Filled(ListItems(a), Larger(a.length, n))

WithCapacityList(n, s) ==
  IF s = <<>> /\ n = 0 THEN EmptyList ELSE Filled(s, Larger(Len(s), n))

WithCapacityBufferCopy(n, s) ==
  IF s = <<>> /\ n = 0 THEN EmptyList ELSE Filled(s, Larger(Len(s), n))

-----------------------------------------------------------------------------
(* Operations on one list *)

Push(a, e) == LET r == Room(a) IN [r EXCEPT !.data[r.length] = e, !.length = @ + 1]

\* Elements from the last one on move up.
Insert(a, i, e) ==
  LET r == Room(a) IN
  [r EXCEPT !.data = [j \in DOMAIN r.data |->
                        CASE j = i -> e
                          [] i < j /\ j <= r.length -> r.data[j - 1]
                          [] OTHER -> r.data[j]],
            !.length = @ + 1]

\* Mutant of InsertSwap: the element at i is overwritten before it is moved.
InsertSwapLate(a, i, e) ==
  IF i = a.length THEN Push(a, e)
  ELSE LET r == Room(a) IN
       [r EXCEPT !.data[r.length] = e, !.data[i] = e, !.length = @ + 1]

InsertSwap(a, i, e) ==
  IF i = a.length THEN Push(a, e)
  ELSE LET r == Room(a) IN
       [r EXCEPT !.data[r.length] = r.data[i], !.data[i] = e, !.length = @ + 1]

\* Elements behind i move down, and the last slot is left moved from.
Remove(a, i) ==
  [a EXCEPT !.data = [j \in DOMAIN a.data |->
                        CASE i <= j /\ j < a.length - 1 -> a.data[j + 1]
                          [] j = a.length - 1 -> NoElement
                          [] OTHER -> a.data[j]],
            !.length = @ - 1]

RemoveSwap(a, i) ==
  [a EXCEPT !.data[i] = a.data[a.length - 1], !.data[a.length - 1] = NoElement, !.length = @ - 1]

Reserve(a, n) ==
  IF a.length + n <= a.capacity \/ a.length + n = 0 THEN a
  ELSE Reallocate(a, Larger(a.length + n, (a.capacity + 1) * 2))

ReserveExact(a, n) ==
  IF a.length + n <= a.capacity \/ a.length + n = 0 THEN a ELSE Reallocate(a, a.length + n)

ShrinkToFit(a) == Reallocate(a, a.length)
ShrinkTo(a, n) == Reallocate(a, Larger(n, a.length))

\* Mutant of Truncate: elements past the new length are not destroyed.
TruncateLeak(a, n) == [a EXCEPT !.length = IF n < @ THEN n ELSE @]

Truncate(a, n) ==
  IF n >= a.length THEN a
  ELSE [a EXCEPT !.data = [i \in DOMAIN a.data |-> IF i < n THEN a.data[i] ELSE NoElement],
                 !.length = n]

Appended(a, s) ==
  LET n == a.length + Len(s)
      r == IF n >= a.capacity THEN Reallocate(a, PowerAbove(n)) ELSE a
  IN  [r EXCEPT !.data = [i \in DOMAIN r.data |->
                            IF a.length <= i /\ i < n THEN s[i - a.length + 1] ELSE r.data[i]],
                !.length = n]

Resize(a, n, e) ==
  IF n <= a.length THEN Truncate(a, n)
  ELSE LET r == IF n > a.capacity THEN Reallocate(a, PowerAbove(n)) ELSE a IN
       [r EXCEPT !.data = [i \in DOMAIN r.data |->
                             IF a.length <= i /\ i < n THEN e ELSE r.data[i]],
                 !.length = n]

-----------------------------------------------------------------------------
(* Lookups: the index found, or the length when there is none *)

LowestOf(S, n) == IF S = {} THEN n ELSE CHOOSE i \in S : \A j \in S : i <= j

\* find compares the elements one by one.
FindScalar(a, e) == LowestOf({i \in 0 .. a.length - 1 : a.data[i] = e}, a.length)

\* The elements that the processor compares at once: with AVX-2 half as many
\* as with AVX-512.  Without either the program aborts.
Widths == {lanes, lanes \div 2}

\* Mutant of FindSimd: a match behind the length counts.
FindSimdBehind(a, e, width, stale) ==
  LET Equal(i) == IF i < a.length THEN a.data[i] = e ELSE i = stale
  IN  LowestOf({i \in 0 .. RoundedTo(a.length, width) - 1 : Equal(i)}, a.length)

\* avx512Find1ByteInArrayList and its like compare whole vectors, the last of
\* which may reach past the length into slots that hold anything: `stale` is
\* the first of these that happens to be equal.  A match is checked against
\* the length by its lane in the vector.
FindSimd(a, e, width, stale) ==
  LET Equal(i) == IF i < a.length THEN a.data[i] = e ELSE i = stale
      first == LowestOf({i \in 0 .. RoundedTo(a.length, width) - 1 : Equal(i)}, a.length)
  IN  IF first % width >= a.length THEN a.length ELSE first

-----------------------------------------------------------------------------
(* Iterators: a pointer that goes from begin() to end() *)

\* operator* of Iterator and of ConstIterator.
Pointed(a, p) == a.data[p]

\* A reverse iterator points behind its element.
PointedReverse(a, p) == a.data[p - 1]

Forward(a) == [k \in 1 .. a.length |-> Pointed(a, k - 1)]

Backward(a) == [k \in 1 .. a.length |-> PointedReverse(a, a.length - (k - 1))]

-----------------------------------------------------------------------------
ListInit == lists = [l \in Lists |-> EmptyList] /\ lanes \in Lanes /\ removed = NoElement

\* Clients use a list that was moved from, whose length and capacity stay,
\* for nothing but assignment and destruction.  One that had no buffer has none
\* afterwards either, but its allocator is gone, too: the model does not tell
\* it from a new list, and says nothing of its next allocation.
UsableList(l) == lists[l].data # NoData \/ lists[l].capacity = 0

Becomes(l, a) ==
  /\ a.length <= MaxLength /\ \A k \in Lists \ {l} : a.length + lists[k].length <= MaxTotal
  /\ lists' = [lists EXCEPT ![l] = a]
  /\ removed' = NoElement
  /\ UNCHANGED lanes

ListDestroy(l) == Becomes(l, EmptyList)

ListConstruct(l) ==
  /\ lists[l] = EmptyList
  /\ \/ \E s \in Literals : \/ Becomes(l, InitList(s))
                            \/ Becomes(l, InitBufferCopy(s))
                            \/ \E n \in Sizes : \/ Becomes(l, WithCapacityList(n, s))
                                                \/ Becomes(l, WithCapacityBufferCopy(n, s))
     \/ \E n \in Sizes : Becomes(l, WithCapacity(n))
     \/ \E k \in Lists \ {l} :
          UsableList(k) /\ \/ Becomes(l, CopyOf(lists[k]))
                           \/ Becomes(l, InitCopy(lists[k]))
                           \/ \E n \in Sizes : Becomes(l, WithCapacityCopy(n, lists[k]))

\* The copy assignment frees the old buffer, also when it is the one to copy from.
ListCopyAssign(l, k) ==
  /\ UsableList(k)
  /\ l = k => "self" \in ListLax
  /\ Becomes(l, IF l # k \/ lists[k].length = 0 THEN CopyOf(lists[k])
                ELSE Filled([i \in 1 .. lists[k].length |-> NoElement], lists[k].length))

\* The move constructor and the move assignment.
ListMove(l, k) ==
  /\ l = k => "self" \in ListLax
  /\ lists' = [lists EXCEPT ![l] = lists[k], ![k] = WithoutData(@)]
  /\ removed' = NoElement
  /\ UNCHANGED lanes

\* The element is not one of the list's own.
ListPush(l, e) == UsableList(l) /\ Becomes(l, Push(lists[l], e))

\* push(list[i]): a reallocation moves the element away before it is copied.
ListPushOwn(l, i) ==
  /\ UsableList(l) /\ i < lists[l].length
  /\ lists[l].length = lists[l].capacity => "ownElement" \in ListLax
  /\ Becomes(l, Push(lists[l], IF lists[l].length = lists[l].capacity THEN NoElement
                               ELSE AtIndex(lists[l], i)))

ListInsert(l, i, e) ==
  /\ UsableList(l) /\ i <= lists[l].length
  /\ Becomes(l, Insert(lists[l], i, e)) \/ Becomes(l, InsertSwap(lists[l], i, e))

ListRemove(l, i) ==
  /\ UsableList(l) /\ i < lists[l].length
  /\ \E a \in {Remove(lists[l], i), RemoveSwap(lists[l], i)} : lists' = [lists EXCEPT ![l] = a]
  /\ removed' = AtIndex(lists[l], i)
  /\ UNCHANGED lanes

ListReserve(l, n) ==
  /\ UsableList(l)
  /\ Becomes(l, Reserve(lists[l], n)) \/ Becomes(l, ReserveExact(lists[l], n))

ListShrink(l) ==
  /\ UsableList(l)
  /\ \/ Allocates(lists[l].length) /\ Becomes(l, ShrinkToFit(lists[l]))
     \/ \E n \in Sizes : Allocates(Larger(n, lists[l].length)) /\ Becomes(l, ShrinkTo(lists[l], n))

ListTruncate(l, n) == UsableList(l) /\ Becomes(l, Truncate(lists[l], n))

\* appendList and appendBufferCopy.
ListAppend(l, s) ==
  /\ UsableList(l)
  /\ lists[l].length + Len(s) + lists[l].capacity = 0 => Allocates(0)
  /\ Becomes(l, Appended(lists[l], s))

\* appendCopy, also of the list itself.
ListAppendCopy(l, k) == UsableList(k) /\ ListAppend(l, ListItems(lists[k]))

ListResize(l, n, e) == UsableList(l) /\ Becomes(l, Resize(lists[l], n, e))

ListNext ==
  \E l \in Lists :
    \/ ListDestroy(l)
    \/ ListConstruct(l)
    \/ \E k \in Lists : ListCopyAssign(l, k) \/ ListMove(l, k) \/ ListAppendCopy(l, k)
    \/ \E e \in Elements : ListPush(l, e)
    \/ \E i \in 0 .. MaxLength : ListPushOwn(l, i) \/ ListRemove(l, i)
    \/ \E i \in 0 .. MaxLength, e \in Elements : ListInsert(l, i, e)
    \/ \E n \in Sizes : ListReserve(l, n) \/ ListTruncate(l, n)
    \/ ListShrink(l)
    \/ \E s \in Literals : ListAppend(l, s)
    \/ \E n \in 0 .. MaxLength, e \in Elements : ListResize(l, n, e)

ListSpec == ListInit /\ [][ListNext]_listVars

-----------------------------------------------------------------------------
\* Slots below the length hold an element each and the others none, so that
\* none is destroyed twice or never; a buffer is whole vectors long.
SlotsOwned ==
  \A l \in Lists : LET a == lists[l] IN a.data # NoData =>
    /\ DOMAIN a.data = 0 .. a.capacity - 1
    /\ a.length <= a.capacity
    /\ a.capacity = RoundedUp(a.capacity)
    /\ \A i \in DOMAIN a.data : a.data[i] # NoElement <=> i < a.length

\* find gives the first position, and a loop in either direction visits every
\* element in order, whatever is in the slots past the length.  A number that
\* is not there is found behind the end when the last of several vectors is not
\* full and the element happens to be in a slot past the length.
ListLookups ==
  \A l \in Lists : LET a == lists[l] IN UsableList(l) =>
    /\ \A e \in Elements :
         /\ \A i \in 0 .. a.length - 1 : a.data[i] = e => FindScalar(a, e) <= i
         /\ FindScalar(a, e) < a.length => a.data[FindScalar(a, e)] = e
         /\ lanes > 0 => \A width \in Widths :
              \A stale \in a.length .. RoundedTo(a.length, width) :
                FindScalar(a, e) < a.length \/ a.length <= width \/ a.length % width = 0 =>
                  FindSimd(a, e, width, stale) = FindScalar(a, e)
    /\ \A k \in 1 .. a.length : Forward(a)[k] = Backward(a)[a.length + 1 - k]

ContentsOf(l) == IF UsableList(l) THEN ListItems(lists[l]) ELSE NoContents

L == INSTANCE Listing WITH contents <- [l \in Lists |-> ContentsOf(l)], answer <- removed

\* Growing, shrinking, moving elements up and down, copying and moving lists:
\* each list stays a sequence of its own.
ListSequenceSpec == L!Spec
=============================================================================
