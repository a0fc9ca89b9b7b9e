------------------------------ MODULE Holders ------------------------------
(***************************************************************************)
(* The types that hold one thing: UniquePtr (ptr/unique_ptr.h), Option      *)
(* (option/option.h), Result (error/result.h), the JobContainer             *)
(* (job/job_container.h), whose thing is a callable with its arguments,     *)
(* JsonValue (json/json_object.h), whose thing is a string, an array or an  *)
(* object, Callback and Fptr (function/), whose thing is a binding that     *)
(* nobody owns, and the Option of a pointer or a reference, whose thing is   *)
(* somebody else's.  A behaviour is about holders of one of these types.    *)
(*                                                                         *)
(* The calls named in HolderLax break what the types promise, by what the   *)
(* code does or by what it asks of its callers:                             *)
(*   "foreignHeap"   a UniquePtr frees its object to another allocator than *)
(*                   made it                                                *)
(*   "selfMove"      an Option is moved to itself                           *)
(*   "movedSome"     an Option is read that was moved into a new one: GK_CHECK *)
(*                   is defined nowhere, so it still says it holds a value   *)
(*   "movedResult"   a Result with a value is moved into a new one          *)
(*   "wideArguments" the arguments of a job do not fit in its container     *)
(*   "copyUnbound"   a Callback is constructed from one that is not bound   *)
(*   "selfCopy"      a Callback or a JsonValue is assigned to itself        *)
(***************************************************************************)
CONSTANTS
  Holders,         \* places for a holder
  Things,          \* what they hold
  NoThing,         \* in a holder that is empty or was moved from
  HolderLax        \* the calls of the list above that clients make

ASSUME NoThingAssumption == NoThing \notin Things

SharedKinds == {"Callback", "Fptr", "Reference"}
Kinds == {"UniquePtr", "Option", "Result", "JobContainer", "JsonValue"} \cup SharedKinds
Heaps == {"global", "custom"}

VARIABLES
  kind,            \* the type of the holders of this behaviour
  held,            \* of each place: the tag of the holder in it, and the thing
  fate,            \* of each thing: "unborn", "held", the "client"'s, "dead", or "ruined"
  home,            \* of each thing: the heap it was made on
  call             \* history: the last call

holderVars == <<kind, held, fate, home, call>>

Has(h) == {held[h].thing} \ {NoThing}

Tagged(tag, t) == [tag |-> tag, thing |-> t]
Gone == Tagged("gone", NoThing)

IsGone(h) == held[h] = Gone
Stands(h) == ~IsGone(h)

HolderInit ==
  /\ kind \in Kinds
  /\ held = [h \in Holders |-> Gone]
  /\ fate = [t \in Things |-> "unborn"]
  /\ home = [t \in Things |-> "global"]
  /\ call = <<"none">>

-----------------------------------------------------------------------------
\* A destructor that runs twice, or gives memory to the wrong heap, ruins the thing.
Destroyed(S, heap) ==
  [t \in Things |-> IF t \notin S THEN fate[t]
                    ELSE IF fate[t] = "held" /\ home[t] = heap THEN "dead" ELSE "ruined"]

Destroys(S) == fate' = Destroyed(S, "global") /\ UNCHANGED home

GoesToClient(S) ==
  /\ fate' = [t \in Things |-> IF t \in S THEN "client" ELSE fate[t]]
  /\ UNCHANGED home

\* t, which is new or the client's, replaces the things of S.
Enters(t, S) ==
  /\ fate[t] \in {"unborn", "client"}
  /\ fate' = [Destroyed(S, "global") EXCEPT ![t] = "held"]
  /\ UNCHANGED home

Nobody == UNCHANGED <<fate, home>>

HolderBecomes(h, c) == held' = [held EXCEPT ![h] = c]

\* h becomes c, and then g becomes d; they may be the same.
BothBecome(h, c, g, d) == held' = [held EXCEPT ![h] = c, ![g] = d]

\* The calls by what they are for; a null pointer that is released is dropped.
CallPut(h, t) == call' = <<"put", h, t>>
CallDrop(h) == call' = <<"drop", h>>
CallMove(g, h) == call' = <<"move", g, h>>
CallCopy(g, h) == call' = <<"copy", g, h>>
CallSwap(g, h) == call' = <<"swap", g, h>>
CallTake(h) == call' = IF kind = "UniquePtr" /\ Has(h) = {} THEN <<"drop", h>> ELSE <<"take", h>>

-----------------------------------------------------------------------------
(* UniquePtr *)

Pointer(t) == Tagged("pointer", t)

\* freeHeldPtr gives memory to the global heap, and nobody calls it for an object of another.
FreeHeldPtr(h) ==
  /\ "foreignHeap" \in HolderLax \/ \A t \in Has(h) : home[t] = "global"
  /\ Destroys(Has(h))

UniqueMake(h, t, heap) ==
  /\ IsGone(h) /\ fate[t] = "unborn"
  /\ HolderBecomes(h, Pointer(t))
  /\ fate' = [fate EXCEPT ![t] = "held"]
  /\ home' = [home EXCEPT ![t] = heap]

UniqueAdopt(h, t) ==
  /\ IsGone(h) /\ fate[t] = "client"
  /\ HolderBecomes(h, Pointer(t)) /\ Enters(t, {})

UniqueNull(h) == IsGone(h) /\ HolderBecomes(h, Pointer(NoThing)) /\ Nobody

UniqueMoveConstruct(g, h) ==
  /\ Stands(g) /\ IsGone(h)
  /\ BothBecome(h, held[g], g, Pointer(NoThing)) /\ Nobody

\* Moved to itself, it reads the pointer it has just freed, which is null.
UniqueMoveAssign(g, h) ==
  /\ Stands(g) /\ Stands(h)
  /\ FreeHeldPtr(h)
  /\ BothBecome(h, held[g], g, Pointer(NoThing))

UniqueDestroy(h) == Stands(h) /\ FreeHeldPtr(h) /\ HolderBecomes(h, Gone)

UniqueDeinit(h, heap) ==
  /\ Stands(h)
  /\ "foreignHeap" \in HolderLax \/ \A t \in Has(h) : home[t] = heap
  /\ HolderBecomes(h, Pointer(NoThing))
  /\ fate' = Destroyed(Has(h), heap) /\ UNCHANGED home

UniqueSwap(g, h) ==
  Stands(g) /\ Stands(h) /\ BothBecome(h, held[g], g, held[h]) /\ Nobody

UniqueRelease(h) ==
  Stands(h) /\ HolderBecomes(h, Pointer(NoThing)) /\ GoesToClient(Has(h))

UniqueNext ==
  \/ \E h \in Holders, t \in Things, heap \in Heaps :
       (UniqueMake(h, t, heap) \/ UniqueAdopt(h, t)) /\ CallPut(h, t)
  \/ \E h \in Holders, heap \in Heaps :
       (UniqueNull(h) \/ UniqueDestroy(h) \/ UniqueDeinit(h, heap)) /\ CallDrop(h)
  \/ \E h \in Holders : UniqueRelease(h) /\ CallTake(h)
  \/ \E g, h \in Holders :
       \/ (UniqueMoveConstruct(g, h) \/ UniqueMoveAssign(g, h)) /\ CallMove(g, h)
       \/ UniqueSwap(g, h) /\ CallSwap(g, h)

-----------------------------------------------------------------------------
(* Option of a value, which stays in it as an empty one when it is moved out *)

Some(t) == Tagged("some", t)
None(t) == Tagged("none", t)

OptionNone(h) == IsGone(h) /\ HolderBecomes(h, None(NoThing)) /\ Nobody

\* The constructors and assignments from a value.
OptionPut(h, t) == HolderBecomes(h, Some(t)) /\ Enters(t, Has(h))

\* The other keeps its flag: it says that it holds what was moved out.
OptionMoveConstruct(g, h) ==
  /\ Stands(g) /\ IsGone(h)
  /\ BothBecome(h, held[g], g, [held[g] EXCEPT !.thing = NoThing]) /\ Nobody

OptionMoveAssign(g, h) ==
  /\ Stands(g) /\ Stands(h)
  /\ IF g # h
       THEN BothBecome(h, held[g], g, None(NoThing)) /\ Destroys(Has(h))
       ELSE "selfMove" \in HolderLax /\ HolderBecomes(h, None(held[h].thing)) /\ Nobody

OptionSome(h) ==
  /\ held[h].tag = "some"
  /\ "movedSome" \in HolderLax \/ held[h].thing # NoThing
  /\ HolderBecomes(h, None(NoThing)) /\ GoesToClient(Has(h))

OptionDestroy(h) == Stands(h) /\ HolderBecomes(h, Gone) /\ Destroys(Has(h))

OptionNext ==
  \/ \E h \in Holders, t \in Things : OptionPut(h, t) /\ CallPut(h, t)
  \/ \E h \in Holders :
       \/ (OptionNone(h) \/ OptionDestroy(h)) /\ CallDrop(h)
       \/ OptionSome(h) /\ CallTake(h)
  \/ \E g, h \in Holders :
       (OptionMoveConstruct(g, h) \/ OptionMoveAssign(g, h)) /\ CallMove(g, h)

-----------------------------------------------------------------------------
(* Result *)

Variants == {"Ok", "Error"}
Invalid == Tagged("Invalid", NoThing)

\* A ResultOk or a ResultErr, which the value is moved into.
OfVariant(variant, t) == Tagged(variant, t)

ResultMake(h, t, variant) == IsGone(h) /\ HolderBecomes(h, OfVariant(variant, t)) /\ Enters(t, {})

\* The new one takes the state over, and moves its own default value to itself.
ResultMoveConstruct(g, h) ==
  /\ "movedResult" \in HolderLax \/ Has(g) = {}
  /\ Stands(g) /\ IsGone(h)
  /\ HolderBecomes(h, [held[g] EXCEPT !.thing = NoThing]) /\ Nobody

\* ok() and error(), which check the variant.
ResultTake(h, variant) ==
  /\ held[h].tag = variant
  /\ HolderBecomes(h, Invalid) /\ GoesToClient(Has(h))

ResultDestroy(h) ==
  /\ Stands(h)
  /\ HolderBecomes(h, Gone) /\ Destroys(IF held[h].tag \in Variants THEN Has(h) ELSE {})

ResultNext ==
  \/ \E h \in Holders, variant \in Variants :
       \/ \E t \in Things : ResultMake(h, t, variant) /\ CallPut(h, t)
       \/ ResultTake(h, variant) /\ CallTake(h)
  \/ \E h \in Holders : ResultDestroy(h) /\ CallDrop(h)
  \/ \E g, h \in Holders : ResultMoveConstruct(g, h) /\ CallMove(g, h)

-----------------------------------------------------------------------------
(* JobContainer *)

Unbound == Tagged("unbound", NoThing)

\* ObjectFuncImplInPlace and its like have their arguments in the container,
\* ObjectFuncImplOnHeap and its like have a pointer to them.
InPlace(t) == Tagged("inPlace", t)
OnHeap(t) == Tagged("onHeap", t)

JobEmpty(h) == IsGone(h) /\ HolderBecomes(h, Unbound) /\ Nobody

\* bindMember, bindConstMember, bindFreeFunction and bindStdFunction.
JobBind(h, t, bound) ==
  /\ bound = OnHeap(t) => "wideArguments" \in HolderLax
  /\ IsGone(h) /\ HolderBecomes(h, bound) /\ Enters(t, {})

\* destruct() of what is bound, which does not delete arguments on the heap.
Destruct(h) == Destroys(IF held[h].tag = "inPlace" THEN Has(h) ELSE {})

JobMoveConstruct(g, h) ==
  /\ Stands(g) /\ IsGone(h)
  /\ BothBecome(h, held[g], g, Unbound) /\ Nobody

\* Mutant of JobMoveAssign: the buffer of the other is not cleared.
JobMoveAssignKeeps(g, h) ==
  Stands(g) /\ Stands(h) /\ Destruct(h) /\ HolderBecomes(h, held[g])

JobMoveAssign(g, h) ==
  /\ Stands(g) /\ Stands(h)
  /\ Destruct(h) /\ BothBecome(h, held[g], g, Unbound)

JobDestroy(h) == Stands(h) /\ Destruct(h) /\ HolderBecomes(h, Gone)

JobContainerNext ==
  \/ \E h \in Holders, t \in Things : \E bound \in {InPlace(t), OnHeap(t)} :
       JobBind(h, t, bound) /\ CallPut(h, t)
  \/ \E h \in Holders : (JobEmpty(h) \/ JobDestroy(h)) /\ CallDrop(h)
  \/ \E g, h \in Holders : (JobMoveConstruct(g, h) \/ JobMoveAssign(g, h)) /\ CallMove(g, h)

-----------------------------------------------------------------------------
(* JsonValue; null, a bool and a number have nothing that is destroyed *)

Json(t) == Tagged("json", t)

JsonScalar(h) == IsGone(h) /\ HolderBecomes(h, Json(NoThing)) /\ Nobody

\* makeString, makeArray and makeObject.
JsonMake(h, t) == IsGone(h) /\ HolderBecomes(h, Json(t)) /\ Enters(t, {})

\* What h has is destroyed, and t, a copy of what g has, is in its place: a
\* ruined one when g is h.
JsonCopies(g, h, t) ==
  IF Has(g) = {} THEN HolderBecomes(h, Json(NoThing)) /\ Destroys(Has(h)) /\ CallDrop(h)
  ELSE /\ HolderBecomes(h, Json(t)) /\ CallPut(h, t) /\ fate[t] = "unborn"
       /\ IF g # h THEN Enters(t, Has(h))
          ELSE fate' = [Destroyed(Has(h), "global") EXCEPT ![t] = "ruined"] /\ UNCHANGED home

JsonCopyConstruct(g, h, t) == Stands(g) /\ IsGone(h) /\ JsonCopies(g, h, t)

JsonCopyAssign(g, h, t) ==
  /\ Stands(g) /\ Stands(h)
  /\ g # h \/ "selfCopy" \in HolderLax
  /\ JsonCopies(g, h, t)

JsonMoveConstruct(g, h) ==
  /\ Stands(g) /\ IsGone(h)
  /\ BothBecome(h, held[g], g, Json(NoThing)) /\ Nobody

\* Moved to itself, it is null: the type of the other is set when its own is read.
JsonMoveAssign(g, h) ==
  /\ Stands(g) /\ Stands(h)
  /\ BothBecome(h, held[g], g, Json(NoThing)) /\ Destroys(Has(h))

JsonDestroy(h) == Stands(h) /\ HolderBecomes(h, Gone) /\ Destroys(Has(h))

JsonNext ==
  \/ \E h \in Holders, t \in Things : JsonMake(h, t) /\ CallPut(h, t)
  \/ \E h \in Holders : (JsonScalar(h) \/ JsonDestroy(h)) /\ CallDrop(h)
  \/ \E g, h \in Holders :
       \/ \E t \in Things : JsonCopyConstruct(g, h, t) \/ JsonCopyAssign(g, h, t)
       \/ (JsonMoveConstruct(g, h) \/ JsonMoveAssign(g, h)) /\ CallMove(g, h)

-----------------------------------------------------------------------------
(* Callback *)

Callback(t) == Tagged("callback", t)

CallbackDefault(h) == IsGone(h) /\ HolderBecomes(h, Callback(NoThing)) /\ Nobody

\* The constructors from a function, and bind.
CallbackBind(h, t) == HolderBecomes(h, Callback(t)) /\ Nobody

\* The buffer is not written when the other is unbound: anything may be in it.
CallbackCopyConstruct(g, h) ==
  /\ Stands(g) /\ IsGone(h)
  /\ IF Has(g) # {} THEN HolderBecomes(h, held[g])
     ELSE "copyUnbound" \in HolderLax /\ \E t \in Things \cup {NoThing} : HolderBecomes(h, Callback(t))
  /\ Nobody

\* The own binding is freed before the other is looked at.
CallbackCopyAssign(g, h) ==
  /\ Stands(g) /\ Stands(h)
  /\ g # h \/ "selfCopy" \in HolderLax
  /\ HolderBecomes(h, IF g = h THEN Callback(NoThing) ELSE held[g]) /\ Nobody

\* The move constructor and the move assignment.
CallbackMove(g, h) ==
  /\ Stands(g)
  /\ BothBecome(h, held[g], g, Callback(NoThing)) /\ Nobody

CallbackDestroy(h) == Stands(h) /\ HolderBecomes(h, Gone) /\ Nobody

CallbackNext ==
  \/ \E h \in Holders, t \in Things : CallbackBind(h, t) /\ CallPut(h, t)
  \/ \E h \in Holders : (CallbackDefault(h) \/ CallbackDestroy(h)) /\ CallDrop(h)
  \/ \E g, h \in Holders :
       \/ (CallbackCopyConstruct(g, h) \/ CallbackCopyAssign(g, h)) /\ CallCopy(g, h)
       \/ CallbackMove(g, h) /\ CallMove(g, h)

-----------------------------------------------------------------------------
(* Fptr, of which each copy is a copy of a pointer, also of itself *)

Fptr(t) == Tagged("fptr", t)

FptrDefault(h) == IsGone(h) /\ HolderBecomes(h, Fptr(NoThing)) /\ Nobody

\* The constructor and the assignment from a function, and bind, which checks it.
FptrBind(h, t) == HolderBecomes(h, Fptr(t)) /\ Nobody

\* The copy constructor and the copy assignment.
FptrCopy(g, h) == Stands(g) /\ HolderBecomes(h, held[g]) /\ Nobody

\* The move constructor and the move assignment.
FptrMove(g, h) == Stands(g) /\ BothBecome(h, held[g], g, Fptr(NoThing)) /\ Nobody

FptrDestroy(h) == Stands(h) /\ HolderBecomes(h, Gone) /\ Nobody

FptrNext ==
  \/ \E h \in Holders, t \in Things : FptrBind(h, t) /\ CallPut(h, t)
  \/ \E h \in Holders : (FptrDefault(h) \/ FptrDestroy(h)) /\ CallDrop(h)
  \/ \E g, h \in Holders : (FptrCopy(g, h) /\ CallCopy(g, h)) \/ (FptrMove(g, h) /\ CallMove(g, h))

-----------------------------------------------------------------------------
(* Option of a pointer, which is none when it is null, or of a reference *)

Reference(t) == Tagged("reference", t)

\* The default constructor, and the constructor and assignment from a null pointer.
ReferenceNone(h) == HolderBecomes(h, Reference(NoThing)) /\ Nobody

ReferencePut(h, t) == HolderBecomes(h, Reference(t)) /\ Nobody

\* Unlike an Option of a value, the other is none afterwards.
ReferenceMove(g, h) == Stands(g) /\ BothBecome(h, held[g], g, Reference(NoThing)) /\ Nobody

ReferenceSome(h) == Has(h) # {} /\ HolderBecomes(h, Reference(NoThing)) /\ Nobody

ReferenceDestroy(h) == Stands(h) /\ HolderBecomes(h, Gone) /\ Nobody

ReferenceNext ==
  \/ \E h \in Holders, t \in Things : ReferencePut(h, t) /\ CallPut(h, t)
  \/ \E h \in Holders :
       \/ (ReferenceNone(h) \/ ReferenceDestroy(h)) /\ CallDrop(h)
       \/ ReferenceSome(h) /\ CallTake(h)
  \/ \E g, h \in Holders : ReferenceMove(g, h) /\ CallMove(g, h)

-----------------------------------------------------------------------------
HolderNext ==
  /\ \/ kind = "UniquePtr" /\ UniqueNext
     \/ kind = "Option" /\ OptionNext
     \/ kind = "Result" /\ ResultNext
     \/ kind = "JobContainer" /\ JobContainerNext
     \/ kind = "JsonValue" /\ JsonNext
     \/ kind = "Callback" /\ CallbackNext
     \/ kind = "Fptr" /\ FptrNext
     \/ kind = "Reference" /\ ReferenceNext
  /\ UNCHANGED kind

HolderSpec == HolderInit /\ [][HolderNext]_holderVars

-----------------------------------------------------------------------------
\* What h holds as far as who reads it is told.
Shown(h) == IF held[h].tag = "none" THEN {} ELSE Has(h)

Holding == INSTANCE Holding WITH
  has <- [h \in Holders |-> Shown(h)],
  shared <- kind \in SharedKinds

\* Whatever holders are moved, assigned, swapped, emptied and destroyed, a
\* thing is in one of them or with the client, and is destroyed once, when the
\* holder it is in is destroyed or gets another; a Callback, an Fptr and an
\* Option of a reference have what was last given to them.
HoldingSpec == Holding!Spec
=============================================================================
