----------------------------- MODULE Allocator -----------------------------
(***************************************************************************)
(* gk::TestingAllocator and the AllocatorRef that counts references to it   *)
(* (allocator/testing_allocator.cpp, allocator.cpp), used by several        *)
(* threads.                                                                *)
(*                                                                         *)
(* A step is a section under the mutex, or a call of the heap outside of    *)
(* it: between the two, other threads run.  Sizes and alignments, which are *)
(* recorded and never compared, and a heap that is out of memory, which     *)
(* changes nothing, are left out.  A failed check is reported, and the code *)
(* goes on.                                                                *)
(*                                                                         *)
(* The trackers are HashMaps.  From freeTracker only what was found is      *)
(* erased, and it is the set of its keys; of allocTracker the count is kept *)
(* beside them, as HashMap::erase counts down for a key it does not have.   *)
(***************************************************************************)
EXTENDS Naturals, FiniteSets

CONSTANTS
  Threads,
  Addresses,       \* the memory of the heap, which it hands out again and again
  Refs,            \* places that hold an AllocatorRef
  Nothing

ASSUME PlacesAssumption == Nothing \notin Addresses \cup Refs /\ Addresses \cap Refs = {}
ASSUME CountAssumption == IsFiniteSet(Threads) /\ IsFiniteSet(Refs)

VARIABLES
  out,             \* the addresses that the heap has handed out
  allocTracker, freeTracker,
  allocCount,      \* _elementCount of allocTracker
  refCount,
  refs,            \* of each place: the allocator it refers to, or "none"
  calls,           \* of each thread: the step its call comes to next, and the address or place it is about
  owned,           \* the addresses that clients may use
  careful,         \* clients free what they own, once
  alarms,          \* the checks that have failed
  destroyed        \* the destructor has run

allocVars ==
  <<out, allocTracker, allocCount, freeTracker, refCount, refs, calls, owned, careful, alarms, destroyed>>

-----------------------------------------------------------------------------
Idle == [step |-> "idle", about |-> Nothing]

Calling(t, step, x) == calls' = [calls EXCEPT ![t] = [step |-> step, about |-> x]]

Returns(t) == calls' = [calls EXCEPT ![t] = Idle]

\* t starts a call of the allocator or of a reference.
Calls(t) == ~destroyed /\ calls[t] = Idle

\* A check that is expected to hold.
Check(name, holds) == alarms' = IF holds THEN alarms ELSE alarms \cup {name}

AllocInit ==
  /\ out = {} /\ owned = {}
  /\ allocTracker = {} /\ freeTracker = {} /\ allocCount = 0
  /\ refCount = 0
  /\ refs = [r \in Refs |-> "none"]
  /\ calls = [t \in Threads |-> Idle]
  /\ careful \in BOOLEAN
  /\ alarms = {}
  /\ destroyed = FALSE

\* gk::malloc and gk::free: the heap gives any memory that it has not handed out.
HeapGives(x) == x \notin out /\ out' = out \cup {x}

HeapTakes(x) == out' = out \ {x}

\* mallocObject, mallocBuffer and their aligned forms return the memory; to
\* free it sets the pointer to it to null.
Given(x) == owned' = owned \cup {x}

GivenBack(x) == owned' = owned \ {x}

\* allocTracker.find, insert and erase.
Known(x) == allocCount # 0 /\ x \in allocTracker

Track(x) ==
  /\ allocTracker' = allocTracker \cup {x}
  /\ allocCount' = IF Known(x) THEN allocCount ELSE allocCount + 1

Untrack(x) ==
  IF allocCount = 0 THEN UNCHANGED <<allocTracker, allocCount>>
  ELSE allocTracker' = allocTracker \ {x} /\ allocCount' = allocCount - 1

-----------------------------------------------------------------------------
(* mallocImpl *)

MallocFromHeap(t) ==
  /\ Calls(t)
  /\ \E x \in Addresses : HeapGives(x) /\ Calling(t, "record", x)
  /\ UNCHANGED <<allocTracker, allocCount, freeTracker, refCount, refs, owned, careful, alarms, destroyed>>

\* Mutant of MallocRecord: memory that is handed out again still counts as freed.
MallocRecordOnly(t) ==
  LET x == calls[t].about IN
  /\ calls[t].step = "record"
  /\ Track(x)
  /\ Given(x)
  /\ Returns(t)
  /\ UNCHANGED <<out, freeTracker, refCount, refs, careful, alarms, destroyed>>

MallocRecord(t) ==
  LET x == calls[t].about IN
  /\ calls[t].step = "record"
  /\ Track(x)
  /\ freeTracker' = freeTracker \ {x}
  /\ Given(x)
  /\ Returns(t)
  /\ UNCHANGED <<out, refCount, refs, careful, alarms, destroyed>>

-----------------------------------------------------------------------------
(* freeImpl *)

\* Mutant of FreeRecord: a double free is reported, and goes on.
FreeRecordAnyway(t, x) ==
  LET twice == x \in freeTracker
      foreign == ~Known(x)
  IN  /\ Calls(t)
      /\ careful => x \in owned
      /\ GivenBack(x)
      /\ freeTracker' = freeTracker \cup {x}
      /\ Untrack(x)
      /\ Check("double free", ~twice)
      /\ IF foreign /\ ~twice THEN Returns(t) ELSE Calling(t, "release", x)
      /\ UNCHANGED <<out, refCount, refs, careful, destroyed>>

\* A second free of an address is caught by freeTracker as long as the heap
\* has not handed it out again, and a foreign address by allocTracker, which
\* erases it nevertheless: a count that reaches zero hides the blocks that are left.
FreeRecord(t, x) ==
  LET twice == x \in freeTracker
      foreign == ~twice /\ ~Known(x)
  IN  /\ Calls(t)
      /\ careful => x \in owned
      /\ GivenBack(x)
      /\ freeTracker' = freeTracker \cup {x}
      /\ IF twice THEN UNCHANGED <<allocTracker, allocCount>> ELSE Untrack(x)
      /\ Check(IF twice THEN "double free" ELSE "not allocated", ~twice /\ ~foreign)
      /\ IF twice \/ foreign THEN Returns(t) ELSE Calling(t, "release", x)
      /\ UNCHANGED <<out, refCount, refs, careful, destroyed>>

FreeToHeap(t) ==
  /\ calls[t].step = "release"
  /\ HeapTakes(calls[t].about)
  /\ Returns(t)
  /\ UNCHANGED <<allocTracker, allocCount, freeTracker, refCount, refs, owned, careful, alarms, destroyed>>

-----------------------------------------------------------------------------
(* AllocatorRef.  HeapAllocator does not track its references. *)

Tracked(r) == refs[r] = "testing"

\* No other thread is making the reference in r.
Settled(r) == \A t \in Threads : calls[t].about # r

\* incrementRefCount, at the end of a constructor or of an assignment.
RefIncrement(t) ==
  /\ calls[t].step = "increment"
  /\ refCount' = refCount + 1
  /\ Returns(t)
  /\ UNCHANGED <<out, allocTracker, allocCount, freeTracker, refs, owned, careful, alarms, destroyed>>

\* decrementRefCount for the reference that a place holds.
Decremented(r) ==
  /\ Check("references", Tracked(r) => refCount > 0)
  /\ refCount' = IF Tracked(r) THEN refCount - 1 ELSE refCount

\* The inner value of r is set, and then counted.
Refers(t, r, target) ==
  /\ refs' = [refs EXCEPT ![r] = target]
  /\ IF target = "testing" THEN Calling(t, "increment", r) ELSE UNCHANGED calls

\* AllocatorRef(IAllocator*), and the copy constructor for a reference to target.
RefConstruct(t, r, target) ==
  /\ Calls(t) /\ refs[r] = "none"
  /\ Refers(t, r, target)
  /\ UNCHANGED <<out, allocTracker, allocCount, freeTracker, refCount, owned, careful, alarms, destroyed>>

\* Also of a reference to itself.
RefAssignCopy(t, r, s) ==
  /\ Calls(t) /\ Settled(r) /\ Settled(s)
  /\ Decremented(r)
  /\ Refers(t, r, refs[s])
  /\ UNCHANGED <<out, allocTracker, allocCount, freeTracker, owned, careful, destroyed>>

\* A reference that is moved to itself is gone.
RefAssignMove(t, r, s) ==
  /\ Calls(t) /\ Settled(r) /\ Settled(s)
  /\ Decremented(r)
  /\ refs' = [[refs EXCEPT ![r] = refs[s]] EXCEPT ![s] = "none"]
  /\ UNCHANGED <<out, allocTracker, allocCount, freeTracker, calls, owned, careful, destroyed>>

RefDestruct(t, r) ==
  /\ Calls(t) /\ Settled(r)
  /\ Decremented(r)
  /\ refs' = [refs EXCEPT ![r] = "none"]
  /\ UNCHANGED <<out, allocTracker, allocCount, freeTracker, calls, owned, careful, destroyed>>

\* The destructor, which runs when no call does; leaked memory is freed, unless
\* the count says that there is none.
DestroyTestingAllocator ==
  /\ ~destroyed
  /\ \A t \in Threads : calls[t] = Idle
  /\ alarms' = alarms \cup (IF refCount = 0 THEN {} ELSE {"references"})
                      \cup (IF allocCount = 0 THEN {} ELSE {"leak"})
  /\ out' = IF allocCount = 0 THEN out ELSE out \ allocTracker
  /\ destroyed' = TRUE
  /\ UNCHANGED <<allocTracker, allocCount, freeTracker, refCount, refs, calls, owned, careful>>

AllocNext ==
  \/ \E t \in Threads :
       \/ MallocFromHeap(t) \/ MallocRecord(t) \/ FreeToHeap(t) \/ RefIncrement(t)
       \/ \E x \in Addresses : FreeRecord(t, x)
       \/ \E r \in Refs :
            \/ \E target \in {"testing", "heap"} : RefConstruct(t, r, target)
            \/ \E s \in Refs : RefAssignCopy(t, r, s) \/ RefAssignMove(t, r, s)
            \/ RefDestruct(t, r)
  \/ DestroyTestingAllocator

AllocSpec == AllocInit /\ [][AllocNext]_allocVars

-----------------------------------------------------------------------------
\* However clients misuse their addresses, and whatever other threads do in
\* between, the heap gets nothing back that it has not handed out: an address
\* on its way back is held by one call only, and tracked as allocated by none,
\* also when frees of foreign addresses have counted allocTracker down.
HeapSafe ==
  /\ ~destroyed => allocTracker \subseteq out
  /\ \A t \in Threads : calls[t].step = "release" =>
       /\ calls[t].about \in out \ allocTracker
       /\ \A u \in Threads \ {t} : calls[u].about # calls[t].about

\* The number of threads that have yet to count a reference they made.
Uncounted == Cardinality({t \in Threads : calls[t].step = "increment"})

\* When clients are careful, no check fails for them, although the heap hands
\* freed addresses out again while other threads are between the heap and the
\* trackers; the trackers say what clients own, the count says how many
\* references there are, and the destructor reports both if any are left.
TrackersExact ==
  careful =>
    /\ allocTracker = owned /\ allocCount = Cardinality(owned)
    /\ freeTracker \cap owned = {}
    /\ refCount + Uncounted = Cardinality({r \in Refs : Tracked(r)})
    /\ alarms \subseteq {"leak", "references"}
    /\ ~destroyed => alarms = {}
    /\ destroyed => /\ out = {}
                    /\ "leak" \in alarms <=> owned # {}
                    /\ "references" \in alarms <=> \E r \in Refs : Tracked(r)
=============================================================================
