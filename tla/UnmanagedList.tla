--------------------------- MODULE UnmanagedList ---------------------------
(***************************************************************************)
(* gk::ArrayListUnmanaged (array/array_list.h): the list that is passed its *)
(* allocator with every call.  A call for which there is no memory returns  *)
(* the allocator's error, and a list has to be given up with deinit before  *)
(* it is assigned to or destroyed.  reserveExact, insertSwap, shrinkToFit,  *)
(* shrinkTo, appendList, appendBufferCopy and resize do not pass the        *)
(* allocator on, or return nothing, and can not be instantiated.            *)
(***************************************************************************)
EXTENDS ArrayList

Full(a) == a.length = a.capacity

\* reallocate or withCapacity returns the error, before anything was changed.
Refuses == removed' = Refused /\ UNCHANGED <<lists, lanes>>

\* l becomes a, for which n elements were allocated.
Obtains(l, n, a) == Allocates(n) /\ (Becomes(l, a) \/ Refuses)

-----------------------------------------------------------------------------
\* deleteExistingBuffer: _length and _capacity stay.
Freed(a) == WithoutData(a)

Deinit(l) ==
  /\ lists' = [lists EXCEPT ![l] = Freed(@)]
  /\ removed' = IF lists[l].data = NoData THEN NoElement ELSE NoContents
  /\ UNCHANGED lanes

UnmanagedDestroy(l) == lists[l].data = NoData /\ Becomes(l, EmptyList)

\* The results of withCapacity, initList, initBufferCopy and withCapacityList.
UnmanagedConstruct(l) ==
  /\ lists[l] = EmptyList
  /\ \/ \E s \in Literals : Obtains(l, Len(s), Filled(s, Len(s)))
     \/ \E s \in Literals, n \in Sizes :
          Obtains(l, Larger(Len(s), n), Filled(s, Larger(Len(s), n)))

Clone(l, k) ==
  /\ lists[l] = EmptyList /\ UsableList(k) /\ l # k
  /\ IF lists[k].length = 0 THEN Becomes(l, EmptyList)
     ELSE Obtains(l, lists[k].length, CopyOf(lists[k]))

CloneWithCapacity(l, k, n) ==
  LET m == Larger(lists[k].length, n) IN
  /\ lists[l] = EmptyList /\ UsableList(k) /\ l # k
  /\ Obtains(l, m, Filled(ListItems(lists[k]), m))

\* The move constructor and the move assignment.
UnmanagedMove(l, k) ==
  /\ lists[l].data = NoData
  /\ lists' = [lists EXCEPT ![l] = lists[k], ![k] = WithoutData(@)]
  /\ removed' = NoElement
  /\ UNCHANGED lanes

UnmanagedPush(l, e) ==
  UsableList(l) /\ (Becomes(l, Push(lists[l], e)) \/ (Full(lists[l]) /\ Refuses))

UnmanagedInsert(l, i, e) ==
  /\ UsableList(l) /\ i <= lists[l].length
  /\ Becomes(l, Insert(lists[l], i, e)) \/ (Full(lists[l]) /\ Refuses)

\* removeOrdered and removeSwap.
UnmanagedRemove(l, i) == ListRemove(l, i)

UnmanagedReserve(l, n) ==
  LET a == lists[l] IN
  /\ UsableList(l)
  /\ Becomes(l, Reserve(a, n)) \/ (a.length + n > a.capacity /\ Refuses)

UnmanagedTruncate(l, n) == ListTruncate(l, n)

\* Also of the list itself.
UnmanagedAppendCopy(l, k) ==
  LET n == lists[l].length + lists[k].length IN
  \/ ListAppendCopy(l, k)
  \/ /\ UsableList(l) /\ UsableList(k)
     /\ n >= lists[l].capacity /\ Allocates(n)
     /\ Refuses

UnmanagedNext ==
  \E l \in Lists :
    \/ Deinit(l) \/ UnmanagedDestroy(l) \/ UnmanagedConstruct(l)
    \/ \E k \in Lists : \/ Clone(l, k) \/ UnmanagedMove(l, k) \/ UnmanagedAppendCopy(l, k)
                        \/ \E n \in Sizes : CloneWithCapacity(l, k, n)
    \/ \E e \in Elements : UnmanagedPush(l, e)
    \/ \E i \in 0 .. MaxLength : ListPushOwn(l, i) \/ UnmanagedRemove(l, i)
    \/ \E i \in 0 .. MaxLength, e \in Elements : UnmanagedInsert(l, i, e)
    \/ \E n \in Sizes : UnmanagedReserve(l, n) \/ UnmanagedTruncate(l, n)

UnmanagedSpec == ListInit /\ [][UnmanagedNext]_listVars
=============================================================================
