----------------------------- MODULE SharedPtr -----------------------------
(***************************************************************************)
(* gk::SharedPtr<T, true> (ptr/shared_ptr.h): handles of several threads   *)
(* to reference counted objects on the heap.                               *)
(*                                                                         *)
(* A handle belongs to one thread at a time, and only that thread calls it *)
(* or copies from it; a handle can be handed to another thread, the way a  *)
(* job carries its future to a worker.  What threads really share is the   *)
(* counter of an object, so a call is cut at its atomic accesses: the load *)
(* and the compare-exchange of the loops that count up and down.           *)
(***************************************************************************)
EXTENDS Integers, FiniteSets

CONSTANTS
  Threads,
  Handles,     \* places that hold a SharedPtr
  Objects,     \* heap blocks an Inner can be allocated in
  Null,        \* nullptr; "no handle" in a call without one
  Unborn,      \* a place where no SharedPtr lives
  Lax          \* calls clients also make: "null", "self", "shared", see below

\* "null": copy assignment from a SharedPtr that is null
\* "self": copy assignment of a SharedPtr to itself
\* "shared": deinit of a SharedPtr that is not the last one
ASSUME LaxAssumption == Lax \subseteq {"null", "self", "shared"}
ASSUME NameAssumption == Null \notin Objects \cup Handles /\ Unborn \notin Objects \cup {Null}
ASSUME FiniteHandles == IsFiniteSet(Handles)

VARIABLES
  inner,       \* SharedPtr::inner of each handle
  owner,       \* the thread a handle belongs to
  live,        \* is an Inner allocated in the block?
  refCount,    \* Inner::refCount
  call         \* the call each thread is in

vars == <<inner, owner, live, refCount, call>>

-----------------------------------------------------------------------------
(* Helpers *)

NoCall == [at |-> "idle", op |-> "none", this |-> Null, other |-> Null, current |-> 0]

Calls == [at: {"idle", "decLoad", "decCas", "destroy", "incLoad", "incCas", "take"},
          op: {"none", "copy", "copyAssign", "moveAssign", "dtor", "deinit"},
          this: Handles \cup {Null}, other: Handles \cup {Null}, current: Nat]

Born(h) == inner[h] # Unborn
Mine(t, h) == call[t].at = "idle" /\ owner[h] = t

Enter(t, o, h, g, step) ==
  call' = [call EXCEPT ![t] = [at |-> step, op |-> o, this |-> h, other |-> g, current |-> 0]]
Goto(t, step) == call' = [call EXCEPT ![t].at = step]
Return(t) == call' = [call EXCEPT ![t] = NoCall]
Set(h, p) == inner' = [inner EXCEPT ![h] = p]

\* The handle of t's call has counted down and is about to be overwritten.
Released(t) ==
  \/ call[t].at = "destroy" \/ call[t].at = "take"
  \/ call[t].op = "copyAssign" /\ call[t].at \in {"incLoad", "incCas"}

\* The handles an object's counter counts.
Owners(o) == {h \in Handles : inner[h] = o /\ \A t \in Threads : call[t].this = h => ~Released(t)}

\* The object whose counter the call's next step reads or writes.
Touched(t) ==
  CASE call[t].at \in {"decLoad", "decCas", "destroy"} -> inner[call[t].this]
    [] call[t].at \in {"incLoad", "incCas"} -> inner[call[t].other]
    [] OTHER -> Null

Init ==
  /\ inner = [h \in Handles |-> Unborn]
  /\ owner \in [Handles -> Threads]
  /\ live = [o \in Objects |-> FALSE]
  /\ refCount = [o \in Objects |-> 0]
  /\ call = [t \in Threads |-> NoCall]

-----------------------------------------------------------------------------
(* Calls that touch no counter, or the counter of an object nobody has yet *)

\* create and init
Create(t, h, o) ==
  /\ Mine(t, h) /\ ~Born(h) /\ ~live[o]
  /\ Set(h, o)
  /\ live' = [live EXCEPT ![o] = TRUE]
  /\ refCount' = [refCount EXCEPT ![o] = 1]
  /\ UNCHANGED <<owner, call>>

MakeNull(t, h) ==
  /\ Mine(t, h) /\ ~Born(h)
  /\ Set(h, Null)
  /\ UNCHANGED <<owner, live, refCount, call>>

\* Mutant of MoveConstruct: other keeps its pointer.
MoveConstructKeeps(t, h, g) ==
  /\ Mine(t, h) /\ Mine(t, g) /\ ~Born(h) /\ Born(g)
  /\ Set(h, inner[g])
  /\ UNCHANGED <<owner, live, refCount, call>>

MoveConstruct(t, h, g) ==
  /\ Mine(t, h) /\ Mine(t, g) /\ ~Born(h) /\ Born(g)
  /\ inner' = [inner EXCEPT ![h] = inner[g], ![g] = Null]
  /\ UNCHANGED <<owner, live, refCount, call>>

Swap(t, h, g) ==
  /\ Mine(t, h) /\ Mine(t, g) /\ Born(h) /\ Born(g)
  /\ inner' = [inner EXCEPT ![h] = inner[g], ![g] = inner[h]]
  /\ UNCHANGED <<owner, live, refCount, call>>

\* A client gives a handle to another thread, between two calls.
HandOver(t, u, h) ==
  /\ Mine(t, h)
  /\ owner' = [owner EXCEPT ![h] = u]
  /\ UNCHANGED <<inner, live, refCount, call>>

-----------------------------------------------------------------------------
(* The entry of the other calls *)

CopyConstruct(t, h, g) ==
  /\ Mine(t, h) /\ Mine(t, g) /\ ~Born(h) /\ Born(g)
  /\ IF inner[g] = Null
     THEN Set(h, Null) /\ UNCHANGED call
     ELSE Enter(t, "copy", h, g, "incLoad") /\ UNCHANGED inner
  /\ UNCHANGED <<owner, live, refCount>>

CopyAssign(t, h, g) ==
  /\ Mine(t, h) /\ Mine(t, g) /\ Born(h) /\ Born(g)
  /\ h = g => "self" \in Lax
  /\ inner[h] # Null /\ inner[g] = Null => "null" \in Lax
  /\ \/ inner[h] = Null /\ inner[g] # Null /\ Enter(t, "copyAssign", h, g, "incLoad")
     \/ inner[h] # Null /\ Enter(t, "copyAssign", h, g, "decLoad")
  /\ UNCHANGED <<inner, owner, live, refCount>>

MoveAssign(t, h, g) ==
  /\ Mine(t, h) /\ Mine(t, g) /\ Born(h) /\ Born(g)
  /\ Enter(t, "moveAssign", h, g, IF inner[h] = Null THEN "take" ELSE "decLoad")
  /\ UNCHANGED <<inner, owner, live, refCount>>

Destructor(t, h) ==
  /\ Mine(t, h) /\ Born(h)
  /\ IF inner[h] = Null
     THEN Set(h, Unborn) /\ UNCHANGED call
     ELSE Enter(t, "dtor", h, Null, "decLoad") /\ UNCHANGED inner
  /\ UNCHANGED <<owner, live, refCount>>

Deinit(t, h) ==
  /\ Mine(t, h) /\ inner[h] \in Objects
  /\ Owners(inner[h]) = {h} \/ "shared" \in Lax
  /\ Enter(t, "deinit", h, Null, "decLoad")
  /\ UNCHANGED <<inner, owner, live, refCount>>

-----------------------------------------------------------------------------
(* incrementRefCount and decrementRefCount, and what the call does next *)

Load(t, from, to) ==
  /\ call[t].at = from
  /\ call' = [call EXCEPT ![t].at = to, ![t].current = refCount[Touched(t)]]
  /\ UNCHANGED <<inner, owner, live, refCount>>

IncLoad(t) == Load(t, "incLoad", "incCas")
DecLoad(t) == Load(t, "decLoad", "decCas")

\* The compare of a compare-exchange.
AtCas(t) == call[t].at \in {"incCas", "decCas"}
Matches(t) == AtCas(t) /\ call[t].current = refCount[Touched(t)]

\* A compare-exchange that fails reads the counter again.
CasFails(t) ==
  /\ AtCas(t) /\ ~Matches(t)
  /\ call' = [call EXCEPT ![t].current = refCount[Touched(t)]]
  /\ UNCHANGED <<inner, owner, live, refCount>>

Count(t, n) == refCount' = [refCount EXCEPT ![Touched(t)] = n]

CountUp(t) ==
  /\ call[t].at = "incCas"
  /\ Count(t, call[t].current + 1)
  /\ Set(call[t].this, Touched(t))
  /\ Return(t)
  /\ UNCHANGED <<owner, live>>

\* Mutant of IncCas: a load and a store.
IncStore(t) == CountUp(t)

IncCas(t) == Matches(t) /\ CountUp(t)

\* After the handle let go of an object: inn is inner by then.
Proceed(t, inn) ==
  LET c == call[t] IN
  CASE c.op = "dtor" -> Return(t) /\ inner' = [inn EXCEPT ![c.this] = Unborn]
    [] c.op = "deinit" -> Return(t) /\ inner' = inn
    [] c.op = "moveAssign" -> Goto(t, "take") /\ inner' = inn
    [] c.op = "copyAssign" /\ inn[c.other] = Null -> Return(t) /\ inner' = inn
    [] OTHER -> Goto(t, "incLoad") /\ inner' = inn

CountDown(t, last) ==
  /\ call[t].at = "decCas"
  /\ Count(t, call[t].current - 1)
  /\ IF last THEN Goto(t, "destroy") /\ UNCHANGED inner ELSE Proceed(t, inner)
  /\ UNCHANGED <<owner, live>>

\* Mutant of DecCas: a load and a store.
DecStore(t) == CountDown(t, call[t].current = 1)

\* Mutant of DecCas: compare the old value with zero.
DecCasOldValue(t) == Matches(t) /\ CountDown(t, call[t].current = 0)

\* The thread that counts down to zero destroys the object.
DecCas(t) == Matches(t) /\ CountDown(t, call[t].current = 1)

\* ~Inner, then freeObject, which sets the handle's pointer to null.
Destroy(t) ==
  /\ call[t].at = "destroy"
  /\ live' = [live EXCEPT ![Touched(t)] = FALSE]
  /\ Proceed(t, [inner EXCEPT ![call[t].this] = Null])
  /\ UNCHANGED <<owner, refCount>>

\* The end of move assignment.
Take(t) ==
  /\ call[t].at = "take"
  /\ inner' = [inner EXCEPT ![call[t].this] = inner[call[t].other], ![call[t].other] = Null]
  /\ Return(t)
  /\ UNCHANGED <<owner, live, refCount>>

-----------------------------------------------------------------------------
Step(t) ==
  IncLoad(t) \/ DecLoad(t) \/ CasFails(t) \/ IncCas(t) \/ DecCas(t) \/ Destroy(t) \/ Take(t)

CallOne(t, h) ==
  \/ \E o \in Objects : Create(t, h, o)
  \/ MakeNull(t, h) \/ Destructor(t, h) \/ Deinit(t, h)

CallTwo(t, h, g) ==
  \/ MoveConstruct(t, h, g) \/ Swap(t, h, g)
  \/ CopyConstruct(t, h, g) \/ CopyAssign(t, h, g) \/ MoveAssign(t, h, g)

Next ==
  \/ \E t \in Threads : Step(t)
  \/ \E t \in Threads, h \in Handles : CallOne(t, h)
  \/ \E t \in Threads, h, g \in Handles : CallTwo(t, h, g)
  \/ \E t, u \in Threads, h \in Handles : HandOver(t, u, h)

Spec == Init /\ [][Next]_vars

-----------------------------------------------------------------------------
(* Properties *)

TypeOK ==
  /\ inner \in [Handles -> Objects \cup {Null, Unborn}]
  /\ owner \in [Handles -> Threads]
  /\ live \in [Objects -> BOOLEAN]
  /\ refCount \in [Objects -> Nat]
  /\ call \in [Threads -> Calls]

\* The counter of an object is the number of handles that own it, whatever
\* the threads are in the middle of.
RefCountExact == \A o \in Objects : live[o] => refCount[o] = Cardinality(Owners(o))

\* No call reads or writes the counter of an object that was freed: neither
\* a late loser of a compare-exchange nor the one that destroys.
NoUseAfterFree == \A t \in Threads : Touched(t) \in Objects => live[Touched(t)]

\* An object without owners is on its way out: some thread is destroying it.
NoLeak ==
  \A o \in Objects :
    live[o] /\ Owners(o) = {} => \E t \in Threads : call[t].at = "destroy" /\ Touched(t) = o

\* The three conditions of shared_ptr.h:16-19: an object is destroyed when the
\* last SharedPtr that points to it is destroyed, assigned another object, or
\* told to deinit, never while one points to it and never by an assignment of
\* the object itself.
DestroyedAsDocumented ==
  [][\A t \in Threads : Destroy(t) =>
       /\ Owners(Touched(t)) = {}
       /\ call[t].op = "copyAssign" => call[t].this # call[t].other]_vars

\* Every handle that owns an object keeps it alive; a thread that shares,
\* moves, swaps or drops handles does so as one step of SharedOwnership.
Ownership == INSTANCE SharedOwnership
               WITH owners <- [o \in Objects |-> Owners(o)], alive <- live
OwnershipSpec == Ownership!Spec
=============================================================================
