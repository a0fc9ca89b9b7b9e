-------------------------- MODULE SharedPtrProofs --------------------------
(***************************************************************************)
(* Proofs about SharedPtr, for any threads, handles and objects.           *)
(***************************************************************************)
EXTENDS SharedPtr, FiniteSetTheorems, TLAPS

Dec == {"decLoad", "decCas", "destroy"}
Inc == {"incLoad", "incCas"}

\* A call under way is on handles of its own thread.
CallHandles(t) ==
  LET c == call[t] IN
  /\ c.at = "idle" => c = NoCall
  /\ c.at # "idle" => c.this \in Handles /\ owner[c.this] = t
  /\ c.op \in {"copy", "copyAssign", "moveAssign"} =>
       c.other \in Handles /\ owner[c.other] = t /\ inner[c.other] # Unborn
  /\ c.op \in {"copy", "copyAssign"} => c.this # c.other /\ inner[c.other] \in Objects

\* Where a call can be, by operation, and what it has in hand there.
CallSteps(t) ==
  LET c == call[t] IN
  /\ c.at \in Inc => c.op \in {"copy", "copyAssign"}
  /\ c.at \in Dec => c.op \in {"copyAssign", "moveAssign", "dtor", "deinit"}
                     /\ inner[c.this] \in Objects
  /\ c.at = "take" => c.op = "moveAssign" /\ inner[c.this] # Unborn
  /\ c.op = "copy" => inner[c.this] = Unborn
  /\ c.op = "copyAssign" => inner[c.this] # Unborn
  /\ c.op = "deinit" /\ c.at \in {"decLoad", "decCas"} => Owners(inner[c.this]) = {c.this}

CallInv == \A t \in Threads : CallHandles(t) /\ CallSteps(t)

\* What is owned is live, and a dead block's counter has come down to zero.
LiveInv == \A o \in Objects : Owners(o) # {} => live[o]

\* One thread destroys an object, and only one without owners.
DestroyInv ==
  \A t \in Threads : call[t].at = "destroy" =>
    /\ live[inner[call[t].this]]
    /\ Owners(inner[call[t].this]) = {}
    /\ \A u \in Threads : call[u].at = "destroy" /\ inner[call[u].this] = inner[call[t].this] => u = t

IInv == TypeOK /\ CallInv /\ LiveInv /\ RefCountExact /\ DestroyInv /\ NoLeak

-----------------------------------------------------------------------------
(* What each step does to the owners *)

LEMMA OwnersType == \A o \in Objects : Owners(o) \in SUBSET Handles
  BY DEF Owners

\* Two calls under way are never on the same handle.
LEMMA CallsApart ==
  ASSUME TypeOK, CallInv, NEW t \in Threads, NEW u \in Threads, NEW h \in Handles,
         owner[h] = t, call[u].this = h, Released(u)
  PROVE  u = t /\ call[t].at # "idle"
  BY DEF TypeOK, Calls, CallInv, CallHandles, Released, NoCall

\* A handle owns what it points to, unless its own thread has released it.
LEMMA OwnersMeans ==
  ASSUME TypeOK, CallInv, NEW o \in Objects, NEW h \in Handles
  PROVE  h \in Owners(o) <=>
           inner[h] = o /\ ~(call[owner[h]].this = h /\ Released(owner[h]))
<1>1. owner[h] \in Threads
  BY DEF TypeOK
<1>2. \A u \in Threads : call[u].this = h /\ Released(u) => u = owner[h]
  BY <1>1, CallsApart
<1>. QED
  BY <1>1, <1>2 DEF Owners

LEMMA CreateOwners ==
  ASSUME TypeOK, CallInv, LiveInv, NEW t \in Threads, NEW h \in Handles, NEW o \in Objects,
         Create(t, h, o)
  PROVE  /\ Owners(o) = {} /\ Owners(o)' = {h}
         /\ \A p \in Objects : h \notin Owners(p)
         /\ \A p \in Objects \ {o} : Owners(p)' = Owners(p)
<1>1. Owners(o) = {}
  BY DEF Create, LiveInv
<1>2. \A u \in Threads : call[u].this = h => ~Released(u)
  BY CallsApart DEF Create, Mine
<1>3. inner' = [inner EXCEPT ![h] = o] /\ call' = call
  BY DEF Create, Set
<1>. QED
  BY <1>1, <1>2, <1>3, NameAssumption DEF Owners, Released, TypeOK, Create, Born

\* Counting up makes this an owner of other's object.
LEMMA CountUpOwners ==
  ASSUME TypeOK, CallInv, NEW t \in Threads, IncCas(t),
         NEW h, h = call[t].this, NEW o, o = inner[call[t].other]
  PROVE  /\ h \in Handles /\ o \in Objects /\ call[t].other \in Owners(o)
         /\ \A p \in Objects : h \notin Owners(p)
         /\ Owners(o)' = Owners(o) \cup {h}
         /\ \A p \in Objects \ {o} : Owners(p)' = Owners(p)
         /\ inner' = [inner EXCEPT ![h] = o] /\ call' = [call EXCEPT ![t] = NoCall]
         /\ refCount' = [refCount EXCEPT ![o] = refCount[o] + 1] /\ UNCHANGED <<live, owner>>
<1> DEFINE g == call[t].other
<1>1. /\ call[t].at = "incCas" /\ Touched(t) = o /\ call[t].op \in {"copy", "copyAssign"}
      /\ h \in Handles /\ g \in Handles /\ h # g /\ owner[h] = t /\ owner[g] = t /\ o \in Objects
      /\ call[t].current = refCount[o]
  <2>1. call[t].at = "incCas" /\ call[t].current = refCount[Touched(t)]
    BY DEF IncCas, Matches, CountUp
  <2>2. Touched(t) = o
    BY <2>1 DEF Touched
  <2>3. call[t].op \in {"copy", "copyAssign"}
    BY <2>1 DEF CallInv, CallSteps, Inc
  <2>. QED
    BY <2>1, <2>2, <2>3 DEF CallInv, CallHandles
<1>2. /\ inner' = [inner EXCEPT ![h] = o] /\ call' = [call EXCEPT ![t] = NoCall]
      /\ refCount' = [refCount EXCEPT ![o] = refCount[o] + 1] /\ UNCHANGED <<live, owner>>
  BY <1>1 DEF IncCas, CountUp, Count, Set, Return
<1>3. \A u \in Threads \ {t} : ~(call[u].this \in {h, g} /\ Released(u))
  BY <1>1, CallsApart
<1>4. g \in Owners(o)
  BY <1>1, <1>3, CallsApart DEF Owners, TypeOK
<1>5. \A p \in Objects : h \notin Owners(p)
  BY <1>1, NameAssumption DEF Owners, Released, CallInv, CallSteps, TypeOK
<1>6. \A p \in Objects : \A x \in Handles \ {h} : x \in Owners(p)' <=> x \in Owners(p)
  BY <1>1, <1>2 DEF Owners, Released, TypeOK, NoCall
<1>7. \A p \in Objects : h \in Owners(p)' <=> p = o
  BY <1>1, <1>2, <1>3 DEF Owners, Released, TypeOK, NoCall
<1>8. \A p \in Objects : Owners(p) \in SUBSET Handles /\ Owners(p)' \in SUBSET Handles
  BY DEF Owners
<1>9. Owners(o)' = Owners(o) \cup {h}
  BY <1>1, <1>6, <1>7, <1>8
<1>10. \A p \in Objects \ {o} : Owners(p)' = Owners(p)
  <2>1. \A p \in Objects \ {o} : \A x \in Handles : x \in Owners(p)' <=> x \in Owners(p)
    BY <1>5, <1>6, <1>7
  <2>. QED
    BY <1>8, <2>1
<1>. QED
  BY <1>1, <1>2, <1>4, <1>5, <1>9, <1>10

\* What follows the release of a handle, case by case.
LEMMA ProceedCases ==
  ASSUME TypeOK, NEW t \in Threads, NEW inn \in [Handles -> Objects \cup {Null, Unborn}],
         call[t].this \in Handles, call[t].op \in {"copyAssign", "moveAssign", "dtor", "deinit"},
         Proceed(t, inn)
  PROVE  \/ /\ call[t].op = "dtor" /\ call' = [call EXCEPT ![t] = NoCall]
            /\ inner' = [inn EXCEPT ![call[t].this] = Unborn]
         \/ call[t].op = "deinit" /\ call' = [call EXCEPT ![t] = NoCall] /\ inner' = inn
         \/ /\ call[t].op = "moveAssign" /\ call' = [call EXCEPT ![t].at = "take"]
            /\ inner' = inn
         \/ /\ call[t].op = "copyAssign" /\ inn[call[t].other] = Null
            /\ call' = [call EXCEPT ![t] = NoCall] /\ inner' = inn
         \/ /\ call[t].op = "copyAssign" /\ inn[call[t].other] # Null
            /\ call' = [call EXCEPT ![t].at = "incLoad"] /\ inner' = inn
  BY DEF Proceed, Goto, Return

\* Counting down makes this an owner no more; the last owner destroys.
LEMMA CountDownOwners ==
  ASSUME TypeOK, CallInv, RefCountExact, LiveInv, NEW t \in Threads, DecCas(t),
         NEW h, h = call[t].this, NEW o, o = inner[call[t].this]
  PROVE  /\ h \in Handles /\ o \in Objects /\ h \in Owners(o) /\ live[o]
         /\ Owners(o)' = Owners(o) \ {h}
         /\ \A p \in Objects \ {o} : Owners(p)' = Owners(p)
         /\ refCount' = [refCount EXCEPT ![o] = refCount[o] - 1] /\ UNCHANGED <<live, owner>>
         /\ call[t].at = "decCas" /\ Touched(t) = o
         /\ call[t].op \in {"copyAssign", "moveAssign", "dtor", "deinit"}
         /\ \/ /\ refCount[o] = 1 /\ call' = [call EXCEPT ![t].at = "destroy"]
               /\ UNCHANGED inner
            \/ refCount[o] # 1 /\ call[t].op # "deinit" /\ Proceed(t, inner)
<1>1. /\ call[t].at = "decCas" /\ Touched(t) = o /\ h \in Handles /\ o \in Objects /\ owner[h] = t
      /\ call[t].op \in {"copyAssign", "moveAssign", "dtor", "deinit"}
      /\ call[t].current = refCount[o]
  BY DEF DecCas, Matches, AtCas, CountDown, Touched, CallInv, CallHandles, CallSteps, Dec
<1>2. h \in Owners(o)
  BY <1>1, CallsApart DEF Owners, Released
<1>3. live[o]
  BY <1>1, <1>2 DEF LiveInv
<1>4. call[t].op = "deinit" => refCount[o] = 1
  <2>1. call[t].op = "deinit" => Owners(o) = {h}
    BY <1>1 DEF CallInv, CallSteps
  <2>2. refCount[o] = Cardinality(Owners(o))
    BY <1>1, <1>3 DEF RefCountExact
  <2>3. Cardinality({h}) = 1
    BY FS_Singleton
  <2>. QED
    BY <2>1, <2>2, <2>3
<1>5. /\ refCount' = [refCount EXCEPT ![o] = refCount[o] - 1] /\ UNCHANGED <<live, owner>>
      /\ \/ refCount[o] = 1 /\ call' = [call EXCEPT ![t].at = "destroy"] /\ UNCHANGED inner
         \/ refCount[o] # 1 /\ Proceed(t, inner)
  BY <1>1 DEF DecCas, CountDown, Count, Goto
<1>6. call[t].op = "copyAssign" => inner[call[t].other] # Null
  BY <1>1, NameAssumption DEF CallInv, CallHandles
<1>7. \/ call' = [call EXCEPT ![t].at = "destroy"] /\ UNCHANGED inner
      \/ call' = [call EXCEPT ![t] = NoCall] /\ inner' = [inner EXCEPT ![h] = Unborn]
      \/ call[t].op = "moveAssign" /\ call' = [call EXCEPT ![t].at = "take"] /\ UNCHANGED inner
      \/ call[t].op = "copyAssign" /\ call' = [call EXCEPT ![t].at = "incLoad"] /\ UNCHANGED inner
  BY <1>1, <1>4, <1>5, <1>6, ProceedCases DEF TypeOK
<1>8. \A p \in Objects : h \notin Owners(p)'
  BY <1>1, <1>7, NameAssumption DEF Owners, Released, TypeOK, Calls
<1>9. \A p \in Objects : \A x \in Handles \ {h} : x \in Owners(p)' <=> x \in Owners(p)
  <2>1. \A x \in Handles \ {h} : inner'[x] = inner[x]
    BY <1>1, <1>7 DEF TypeOK
  <2>2. \A u \in Threads \ {t} : call'[u] = call[u]
    BY <1>7 DEF TypeOK
  <2>3. \A x \in Handles \ {h} : call[t].this # x /\ (call'[t].this = x => ~Released(t)')
    BY <1>1, <1>7 DEF TypeOK, Calls, Released, NoCall
  <2>4. \A u \in Threads \ {t} : Released(u)' <=> Released(u)
    BY <2>2 DEF Released
  <2>. QED
    BY <2>1, <2>2, <2>3, <2>4 DEF Owners
<1>10. \A p \in Objects : Owners(p) \in SUBSET Handles /\ Owners(p)' \in SUBSET Handles
  BY DEF Owners
<1>11. Owners(o)' = Owners(o) \ {h}
  BY <1>1, <1>8, <1>9, <1>10
<1>12. \A p \in Objects \ {o} : h \notin Owners(p)
  BY DEF Owners
<1>13. \A p \in Objects \ {o} : Owners(p)' = Owners(p)
  BY <1>8, <1>9, <1>10, <1>12
<1>. QED
  BY <1>1, <1>2, <1>3, <1>4, <1>5, <1>11, <1>13

\* Destroying an object changes no owners: the handle had let go of it.
LEMMA DestroyOwners ==
  ASSUME TypeOK, CallInv, DestroyInv, NEW t \in Threads, Destroy(t),
         NEW h, h = call[t].this, NEW o, o = inner[call[t].this]
  PROVE  /\ h \in Handles /\ o \in Objects /\ live[o] /\ Owners(o) = {} /\ Touched(t) = o
         /\ call[t].at = "destroy" /\ owner[h] = t
         /\ call[t].op \in {"copyAssign", "moveAssign", "dtor", "deinit"}
         /\ \A p \in Objects : Owners(p)' = Owners(p)
         /\ live' = [live EXCEPT ![o] = FALSE] /\ UNCHANGED <<owner, refCount>>
         /\ \/ /\ call' = [call EXCEPT ![t] = NoCall]
               /\ inner' = [inner EXCEPT ![h] = IF call[t].op = "dtor" THEN Unborn ELSE Null]
               /\ call[t].op \in {"dtor", "deinit"}
            \/ /\ call[t].op = "moveAssign" /\ call' = [call EXCEPT ![t].at = "take"]
               /\ inner' = [inner EXCEPT ![h] = Null]
            \/ /\ call[t].op = "copyAssign" /\ call' = [call EXCEPT ![t].at = "incLoad"]
               /\ inner' = [inner EXCEPT ![h] = Null]
<1>1. /\ call[t].at = "destroy" /\ Touched(t) = o /\ h \in Handles /\ o \in Objects /\ owner[h] = t
      /\ call[t].op \in {"copyAssign", "moveAssign", "dtor", "deinit"}
  BY DEF Destroy, Touched, CallInv, CallHandles, CallSteps, Dec
<1>2. live[o] /\ Owners(o) = {}
  BY <1>1 DEF DestroyInv
<1>3. live' = [live EXCEPT ![o] = FALSE] /\ UNCHANGED <<owner, refCount>>
  BY <1>1 DEF Destroy
<1>4. call[t].op = "copyAssign" => inner[call[t].other] # Null /\ call[t].other # h
  BY <1>1, NameAssumption DEF CallInv, CallHandles
<1>5. \/ /\ call' = [call EXCEPT ![t] = NoCall]
         /\ inner' = [inner EXCEPT ![h] = IF call[t].op = "dtor" THEN Unborn ELSE Null]
         /\ call[t].op \in {"dtor", "deinit"}
      \/ /\ call[t].op = "moveAssign" /\ call' = [call EXCEPT ![t].at = "take"]
         /\ inner' = [inner EXCEPT ![h] = Null]
      \/ /\ call[t].op = "copyAssign" /\ call' = [call EXCEPT ![t].at = "incLoad"]
         /\ inner' = [inner EXCEPT ![h] = Null]
  <2> DEFINE inn == [inner EXCEPT ![h] = Null]
  <2>1. inn \in [Handles -> Objects \cup {Null, Unborn}]
    BY <1>1 DEF TypeOK
  <2>2. Proceed(t, inn)
    BY <1>1 DEF Destroy
  <2>3. call[t].op = "copyAssign" => inn[call[t].other] # Null
    BY <1>1, <1>4, <2>1 DEF TypeOK, CallInv, CallHandles
  <2>4. [inn EXCEPT ![h] = Unborn] = [inner EXCEPT ![h] = Unborn]
    BY <1>1 DEF TypeOK
  <2> HIDE DEF inn
  <2>5. \/ /\ call[t].op = "dtor" /\ call' = [call EXCEPT ![t] = NoCall]
           /\ inner' = [inn EXCEPT ![h] = Unborn]
        \/ call[t].op = "deinit" /\ call' = [call EXCEPT ![t] = NoCall] /\ inner' = inn
        \/ /\ call[t].op = "moveAssign" /\ call' = [call EXCEPT ![t].at = "take"]
           /\ inner' = inn
        \/ /\ call[t].op = "copyAssign" /\ call' = [call EXCEPT ![t].at = "incLoad"]
           /\ inner' = inn
    BY <1>1, <2>1, <2>2, <2>3, ProceedCases
  <2>. QED
    BY <2>4, <2>5 DEF inn
<1>6. \A p \in Objects : h \notin Owners(p)' /\ h \notin Owners(p)
  BY <1>1, <1>5, NameAssumption DEF Owners, Released, TypeOK, Calls
<1>7. \A p \in Objects : \A x \in Handles \ {h} : x \in Owners(p)' <=> x \in Owners(p)
  <2>1. \A x \in Handles \ {h} : inner'[x] = inner[x]
    BY <1>1, <1>5 DEF TypeOK
  <2>2. \A u \in Threads \ {t} : call'[u] = call[u]
    BY <1>5 DEF TypeOK
  <2>3. \A x \in Handles \ {h} : call[t].this # x /\ (call'[t].this = x => ~Released(t)')
    BY <1>1, <1>5 DEF TypeOK, Calls, Released, NoCall
  <2>4. \A u \in Threads \ {t} : Released(u)' <=> Released(u)
    BY <2>2 DEF Released
  <2>. QED
    BY <2>1, <2>2, <2>3, <2>4 DEF Owners
<1>8. \A p \in Objects : Owners(p) \in SUBSET Handles /\ Owners(p)' \in SUBSET Handles
  BY DEF Owners
<1>9. \A p \in Objects : Owners(p)' = Owners(p)
  BY <1>6, <1>7, <1>8
<1>. QED
  BY <1>1, <1>2, <1>3, <1>5, <1>9

\* After g's object went to h and h's to g, so did the ownership.
Exchanged(p, h, g) ==
  Owners(p)' = {x \in Handles : \/ x = g /\ h \in Owners(p)
                                \/ x = h /\ g \in Owners(p)
                                \/ x \notin {g, h} /\ x \in Owners(p)}

\* Two handles that no call has in hand.
Free(h) == \A u \in Threads : ~(call[u].this = h /\ Released(u))

LEMMA MineFree ==
  ASSUME TypeOK, CallInv, NEW t \in Threads, NEW h \in Handles, Mine(t, h)
  PROVE  Free(h)
  BY CallsApart DEF Free, Mine

LEMMA SwapOwners ==
  ASSUME TypeOK, CallInv, NEW t \in Threads, NEW h \in Handles, NEW g \in Handles,
         Swap(t, h, g) \/ MoveConstruct(t, h, g)
  PROVE  \A p \in Objects : Exchanged(p, h, g)
<1>1. Free(h) /\ Free(g)
  BY MineFree DEF Swap, MoveConstruct
<1>2. call' = call /\ \A u \in Threads : Released(u)' <=> Released(u)
  BY DEF Swap, MoveConstruct, Released
<1>3. \A x \in Handles \ {g, h} : inner'[x] = inner[x]
  BY DEF Swap, MoveConstruct, TypeOK
<1>4. \A p \in Objects : (inner'[h] = p <=> inner[g] = p) /\ (inner'[g] = p <=> inner[h] = p)
  BY NameAssumption DEF Swap, MoveConstruct, TypeOK, Born
<1>. QED
  BY <1>1, <1>2, <1>3, <1>4 DEF Exchanged, Owners, Free

LEMMA TakeOwners ==
  ASSUME TypeOK, CallInv, NEW t \in Threads, Take(t),
         NEW h, h = call[t].this, NEW g, g = call[t].other
  PROVE  /\ \A p \in Objects : Exchanged(p, h, g)
         /\ h \in Handles /\ g \in Handles /\ owner[h] = t /\ owner[g] = t
         /\ inner[g] # Unborn /\ call[t].op = "moveAssign"
         /\ inner' = [inner EXCEPT ![h] = inner[g], ![g] = Null]
         /\ call' = [call EXCEPT ![t] = NoCall]
<1>1. /\ call[t].at = "take" /\ call[t].op = "moveAssign" /\ h \in Handles /\ g \in Handles
      /\ owner[h] = t /\ owner[g] = t /\ inner[g] # Unborn
  BY DEF Take, CallInv, CallHandles, CallSteps
<1>2. inner' = [inner EXCEPT ![h] = inner[g], ![g] = Null] /\ call' = [call EXCEPT ![t] = NoCall]
  BY DEF Take, Return
<1>3. \A u \in Threads \ {t} : ~(call[u].this \in {h, g} /\ Released(u))
  BY <1>1, CallsApart
<1>4. \A u \in Threads \ {t} : call'[u] = call[u] /\ (Released(u)' <=> Released(u))
  BY <1>2 DEF TypeOK, Released
<1>5. Released(t) /\ ~Released(t)'
  BY <1>1, <1>2 DEF Released, NoCall, TypeOK
<1>6. \A p \in Objects : h \notin Owners(p)
  BY <1>5 DEF Owners
<1>7. \A x \in Handles \ {g, h} : inner'[x] = inner[x]
  BY <1>1, <1>2 DEF TypeOK
<1>8. inner'[g] = Null /\ (h # g => inner'[h] = inner[g])
  BY <1>1, <1>2 DEF TypeOK
<1>9. \A p \in Objects : Exchanged(p, h, g)
  BY <1>1, <1>3, <1>4, <1>5, <1>6, <1>7, <1>8, NameAssumption DEF Exchanged, Owners
<1>. QED
  BY <1>1, <1>2, <1>9

-----------------------------------------------------------------------------
(* The steps of thread t, by what they do to the owners *)

QuietStep(t) ==
  \/ IncLoad(t) \/ DecLoad(t) \/ CasFails(t)
  \/ \E h \in Handles : MakeNull(t, h) \/ Destructor(t, h) \/ Deinit(t, h)
  \/ \E h, g \in Handles : CopyConstruct(t, h, g) \/ CopyAssign(t, h, g) \/ MoveAssign(t, h, g)
  \/ \E h \in Handles, u \in Threads : HandOver(t, u, h)

ExchangeStep(t) ==
  Take(t) \/ \E h, g \in Handles : Swap(t, h, g) \/ MoveConstruct(t, h, g)

OwnerStep(t) ==
  \/ QuietStep(t) \/ ExchangeStep(t) \/ IncCas(t) \/ DecCas(t) \/ Destroy(t)
  \/ \E h \in Handles, o \in Objects : Create(t, h, o)

LEMMA StepsAreOwnerSteps == Next => \E t \in Threads : OwnerStep(t)
  BY DEF Next, Step, CallOne, CallTwo, OwnerStep, QuietStep, ExchangeStep

\* A step of t leaves the calls and the handles of the other threads alone.
OthersAlone(t) ==
  /\ \A u \in Threads \ {t} : call'[u] = call[u]
  /\ \A x \in Handles : owner[x] # t => inner'[x] = inner[x] /\ owner'[x] = owner[x]

LEMMA QuietOwners ==
  ASSUME TypeOK, CallInv, NEW t \in Threads, QuietStep(t)
  PROVE  /\ \A p \in Objects : Owners(p)' = Owners(p)
         /\ OthersAlone(t) /\ UNCHANGED <<live, refCount>>
         /\ call[t].at # "destroy" /\ call'[t].at # "destroy"
<1>1. CASE IncLoad(t) \/ DecLoad(t) \/ CasFails(t)
  <2>1. /\ UNCHANGED <<inner, owner, live, refCount>>
        /\ \A u \in Threads \ {t} : call'[u] = call[u]
        /\ call'[t].this = call[t].this /\ (Released(t)' <=> Released(t))
        /\ call[t].at # "destroy" /\ call'[t].at # "destroy"
    BY <1>1 DEF IncLoad, DecLoad, Load, CasFails, AtCas, TypeOK, Calls, Released
  <2>2. \A u \in Threads : call'[u].this = call[u].this /\ (Released(u)' <=> Released(u))
    BY <2>1 DEF Released
  <2>. QED
    BY <2>1, <2>2 DEF Owners, OthersAlone
<1>2. ASSUME NEW h \in Handles, Mine(t, h),
             \A u \in Threads \ {t} : call'[u] = call[u], UNCHANGED <<owner, live, refCount>>,
             \/ /\ call' = call /\ inner[h] \in {Null, Unborn}
                /\ \E n \in {Null, Unborn} : inner' = [inner EXCEPT ![h] = n]
             \/ /\ inner' = inner
                /\ \/ call'[t].at \in {"decLoad", "incLoad"} /\ call'[t].op # "copyAssign"
                   \/ call'[t].at = "decLoad"
                   \/ /\ call'[t].at \in {"incLoad", "take"} /\ call'[t].this = h
                      /\ inner[h] \in {Null, Unborn}
      PROVE  /\ \A p \in Objects : Owners(p)' = Owners(p)
             /\ OthersAlone(t)
             /\ call[t].at # "destroy" /\ call'[t].at # "destroy"
  <2>1. Free(h) /\ ~Released(t) /\ call[t].at = "idle" /\ owner[h] = t
    BY <1>2, MineFree DEF Mine, Released, CallInv, CallHandles, NoCall
  <2>2. \A u \in Threads \ {t} : call'[u].this = call[u].this /\ (Released(u)' <=> Released(u))
    BY <1>2 DEF Released
  <2>3. \A x \in Handles \ {h} : inner'[x] = inner[x]
    BY <1>2 DEF TypeOK
  <2>4. call'[t].this # h \/ ~Released(t)' \/ inner[h] \in {Null, Unborn}
    BY <1>2, <2>1 DEF Released
  <2>5. \A x \in Handles \ {h} : call'[t].this = x => ~Released(t)'
    BY <1>2, <2>1 DEF Released
  <2>6. \A p \in Objects : \A x \in Handles \ {h} : x \in Owners(p)' <=> x \in Owners(p)
    BY <2>1, <2>2, <2>3, <2>5 DEF Owners
  <2>7. \A p \in Objects : h \in Owners(p)' <=> h \in Owners(p)
    BY <1>2, <2>1, <2>2, <2>4, NameAssumption DEF Owners, Free, TypeOK
  <2>8. \A p \in Objects : Owners(p) \in SUBSET Handles /\ Owners(p)' \in SUBSET Handles
    BY DEF Owners
  <2>9. \A p \in Objects : Owners(p)' = Owners(p)
    BY <2>6, <2>7, <2>8
  <2>. QED
    BY <1>2, <2>1, <2>3, <2>9 DEF OthersAlone
<1>3. CASE \E h \in Handles : MakeNull(t, h) \/ Destructor(t, h) \/ Deinit(t, h)
  <2>1. PICK h \in Handles : MakeNull(t, h) \/ Destructor(t, h) \/ Deinit(t, h)
    BY <1>3
  <2>. QED
    BY <1>2, <2>1 DEF MakeNull, Destructor, Deinit, Mine, Born, Enter, Set, TypeOK
<1>4. CASE \E h, g \in Handles : CopyConstruct(t, h, g) \/ CopyAssign(t, h, g) \/ MoveAssign(t, h, g)
  <2>1. PICK h \in Handles, g \in Handles :
          CopyConstruct(t, h, g) \/ CopyAssign(t, h, g) \/ MoveAssign(t, h, g)
    BY <1>4
  <2>2. CASE CopyConstruct(t, h, g)
    BY <1>2, <2>2 DEF CopyConstruct, Mine, Born, Enter, Set, TypeOK
  <2>3. CASE CopyAssign(t, h, g)
    BY <1>2, <2>3 DEF CopyAssign, Mine, Born, Enter, Set, TypeOK
  <2>4. CASE MoveAssign(t, h, g)
    BY <1>2, <2>4 DEF MoveAssign, Mine, Born, Enter, Set, TypeOK
  <2>. QED
    BY <2>1, <2>2, <2>3, <2>4
<1>5. CASE \E h \in Handles, u \in Threads : HandOver(t, u, h)
  BY <1>5 DEF HandOver, Mine, Owners, Released, OthersAlone, TypeOK
<1>. QED
  BY <1>1, <1>3, <1>4, <1>5 DEF QuietStep

\* An exchange of what two handles own changes nobody's number of owners.
LEMMA ExchangeKeepsCount ==
  ASSUME NEW h \in Handles, NEW g \in Handles, NEW p, Exchanged(p, h, g)
  PROVE  Cardinality(Owners(p)') = Cardinality(Owners(p)) /\ (Owners(p)' = {} <=> Owners(p) = {})
<1>. DEFINE A == Owners(p)
            B == Owners(p)'
<1>1. IsFiniteSet(A) /\ A \subseteq Handles
  BY FiniteHandles, FS_Subset DEF Owners
<1>2. B = {x \in Handles : \/ x = g /\ h \in A
                           \/ x = h /\ g \in A
                           \/ x \notin {g, h} /\ x \in A}
  BY DEF Exchanged
<1>. HIDE DEF A, B
<1>3. CASE h \in A <=> g \in A
  <2>1. B = A
    BY <1>1, <1>2, <1>3
  <2>. QED
    BY <2>1 DEF A, B
<1>4. ASSUME NEW x \in Handles, NEW y \in Handles, x \in A, y \notin A, B = (A \ {x}) \cup {y}
      PROVE  Cardinality(B) = Cardinality(A) /\ A # {} /\ B # {}
  <2>1. IsFiniteSet(A \ {x}) /\ Cardinality(A \ {x}) = Cardinality(A) - 1
    BY <1>1, <1>4, FS_RemoveElement
  <2>2. Cardinality((A \ {x}) \cup {y}) = Cardinality(A \ {x}) + 1
    BY <1>4, <2>1, FS_AddElement
  <2>3. Cardinality(A) \in Nat
    BY <1>1, FS_CardinalityType
  <2>. QED
    BY <1>4, <2>1, <2>2, <2>3
<1>5. CASE h \in A /\ g \notin A
  <2>1. B = (A \ {h}) \cup {g}
    BY <1>1, <1>2, <1>5
  <2>. QED
    BY <1>4, <1>5, <2>1 DEF A, B
<1>6. CASE g \in A /\ h \notin A
  <2>1. B = (A \ {g}) \cup {h}
    BY <1>1, <1>2, <1>6
  <2>. QED
    BY <1>4, <1>6, <2>1 DEF A, B
<1>. QED
  BY <1>3, <1>5, <1>6

LEMMA ExchangeOwners ==
  ASSUME TypeOK, CallInv, NEW t \in Threads, ExchangeStep(t)
  PROVE  /\ \E h, g \in Handles :
              owner[h] = t /\ owner[g] = t /\ \A p \in Objects : Exchanged(p, h, g)
         /\ OthersAlone(t) /\ UNCHANGED <<live, refCount>>
         /\ call[t].at # "destroy" /\ call'[t].at # "destroy"
<1>1. CASE Take(t)
  <2>1. PICK h, g : h = call[t].this /\ g = call[t].other
    OBVIOUS
  <2>2. /\ \A p \in Objects : Exchanged(p, h, g)
        /\ h \in Handles /\ g \in Handles /\ owner[h] = t /\ owner[g] = t
        /\ inner' = [inner EXCEPT ![h] = inner[g], ![g] = Null]
        /\ call' = [call EXCEPT ![t] = NoCall]
    BY <1>1, <2>1, TakeOwners
  <2>3. UNCHANGED <<owner, live, refCount>> /\ call[t].at = "take"
    BY <1>1 DEF Take
  <2>. QED
    BY <2>2, <2>3 DEF OthersAlone, TypeOK, NoCall
<1>2. CASE \E h, g \in Handles : Swap(t, h, g) \/ MoveConstruct(t, h, g)
  <2>1. PICK h \in Handles, g \in Handles : Swap(t, h, g) \/ MoveConstruct(t, h, g)
    BY <1>2
  <2>2. \A p \in Objects : Exchanged(p, h, g)
    BY <2>1, SwapOwners
  <2>. QED
    BY <2>1, <2>2 DEF Swap, MoveConstruct, Mine, OthersAlone, TypeOK
<1>. QED
  BY <1>1, <1>2 DEF ExchangeStep

LEMMA FiniteOwners ==
  \A p : IsFiniteSet(Owners(p)) /\ Cardinality(Owners(p)) \in Nat
<1> TAKE p
<1>1. Owners(p) \in SUBSET Handles
  BY DEF Owners
<1>. QED
  BY <1>1, FiniteHandles, FS_Subset, FS_CardinalityType

\* Every step keeps the counters exact and what is owned live.
LEMMA CountsKept ==
  ASSUME TypeOK, CallInv, LiveInv, RefCountExact, DestroyInv, NEW t \in Threads, OwnerStep(t)
  PROVE  LiveInv' /\ RefCountExact'
<1>1. CASE QuietStep(t)
  BY <1>1, QuietOwners DEF LiveInv, RefCountExact
<1>2. CASE ExchangeStep(t)
  BY <1>2, ExchangeOwners, ExchangeKeepsCount DEF LiveInv, RefCountExact
<1>3. CASE IncCas(t)
  <2>1. PICK h, o : h = call[t].this /\ o = inner[call[t].other]
    OBVIOUS
  <2>2. /\ o \in Objects /\ h \notin Owners(o) /\ Owners(o) # {} /\ Owners(o)' = Owners(o) \cup {h}
        /\ \A p \in Objects \ {o} : Owners(p)' = Owners(p)
        /\ refCount' = [refCount EXCEPT ![o] = refCount[o] + 1] /\ UNCHANGED live
    BY <1>3, <2>1, CountUpOwners
  <2>3. Cardinality(Owners(o) \cup {h}) = Cardinality(Owners(o)) + 1
    BY <2>2, FiniteOwners, FS_AddElement
  <2>. QED
    BY <2>2, <2>3 DEF LiveInv, RefCountExact, TypeOK
<1>4. CASE DecCas(t)
  <2>1. PICK h, o : h = call[t].this /\ o = inner[call[t].this]
    OBVIOUS
  <2>2. /\ o \in Objects /\ h \in Owners(o) /\ live[o] /\ Owners(o)' = Owners(o) \ {h}
        /\ \A p \in Objects \ {o} : Owners(p)' = Owners(p)
        /\ refCount' = [refCount EXCEPT ![o] = refCount[o] - 1] /\ UNCHANGED live
    BY <1>4, <2>1, CountDownOwners
  <2>3. Cardinality(Owners(o) \ {h}) = Cardinality(Owners(o)) - 1
    BY <2>2, FiniteOwners, FS_RemoveElement
  <2>. QED
    BY <2>2, <2>3 DEF LiveInv, RefCountExact, TypeOK
<1>5. CASE Destroy(t)
  <2>1. PICK h, o : h = call[t].this /\ o = inner[call[t].this]
    OBVIOUS
  <2>2. /\ o \in Objects /\ Owners(o) = {} /\ \A p \in Objects : Owners(p)' = Owners(p)
        /\ live' = [live EXCEPT ![o] = FALSE] /\ UNCHANGED refCount
    BY <1>5, <2>1, DestroyOwners
  <2>. QED
    BY <2>2 DEF LiveInv, RefCountExact, TypeOK
<1>6. CASE \E h \in Handles, o \in Objects : Create(t, h, o)
  <2>1. PICK h \in Handles, o \in Objects : Create(t, h, o)
    BY <1>6
  <2>2. Owners(o)' = {h} /\ \A p \in Objects \ {o} : Owners(p)' = Owners(p)
    BY <2>1, CreateOwners
  <2>3. Cardinality({h}) = 1
    BY FS_Singleton
  <2>. QED
    BY <2>1, <2>2, <2>3 DEF Create, LiveInv, RefCountExact, TypeOK
<1>. QED
  BY <1>1, <1>2, <1>3, <1>4, <1>5, <1>6 DEF OwnerStep

\* t's step changes no set of owners that only another thread's handle is in.
LEMMA OthersKept ==
  ASSUME TypeOK, CallInv, LiveInv, RefCountExact, DestroyInv, NEW t \in Threads, OwnerStep(t)
  PROVE  /\ OthersAlone(t)
         /\ \A p \in Objects, x \in Handles :
              Owners(p) = {x} /\ owner[x] # t => Owners(p)' = {x}
<1>1. CASE QuietStep(t)
  BY <1>1, QuietOwners
<1>2. CASE ExchangeStep(t)
  BY <1>2, ExchangeOwners DEF Exchanged
<1>3. CASE IncCas(t)
  <2>1. PICK h, o : h = call[t].this /\ o = inner[call[t].other]
    OBVIOUS
  <2>2. owner[h] = t /\ owner[call[t].other] = t /\ call[t].at = "incCas"
    BY <1>3, <2>1 DEF IncCas, CountUp, CallInv, CallHandles, CallSteps, Inc
  <2>. QED
    BY <1>3, <2>1, <2>2, CountUpOwners DEF OthersAlone, TypeOK
<1>4. CASE DecCas(t)
  <2>1. PICK h, o : h = call[t].this /\ o = inner[call[t].this]
    OBVIOUS
  <2>2. owner[h] = t /\ call[t].at = "decCas"
    BY <1>4, <2>1 DEF DecCas, CountDown, CallInv, CallHandles
  <2>3. OthersAlone(t)
    BY <1>4, <2>1, <2>2, CountDownOwners, ProceedCases DEF OthersAlone, TypeOK
  <2>. QED
    BY <1>4, <2>1, <2>2, <2>3, CountDownOwners
<1>5. CASE Destroy(t)
  <2>1. PICK h, o : h = call[t].this /\ o = inner[call[t].this]
    OBVIOUS
  <2>. QED
    BY <1>5, <2>1, DestroyOwners DEF OthersAlone, TypeOK
<1>6. CASE \E h \in Handles, o \in Objects : Create(t, h, o)
  <2>1. PICK h \in Handles, o \in Objects : Create(t, h, o)
    BY <1>6
  <2>. QED
    BY <2>1, CreateOwners DEF Create, Mine, Set, OthersAlone, TypeOK
<1>. QED
  BY <1>1, <1>2, <1>3, <1>4, <1>5, <1>6 DEF OwnerStep

-----------------------------------------------------------------------------
(* The invariant *)

LEMMA CallTypes ==
  ASSUME TypeOK, NEW t \in Threads
  PROVE  /\ [call EXCEPT ![t] = NoCall] \in [Threads -> Calls]
         /\ [call EXCEPT ![t].at = "destroy"] \in [Threads -> Calls]
         /\ [call EXCEPT ![t].at = "take"] \in [Threads -> Calls]
         /\ [call EXCEPT ![t].at = "incLoad"] \in [Threads -> Calls]
         /\ \A n \in Nat :
              /\ [call EXCEPT ![t].current = n] \in [Threads -> Calls]
              /\ [call EXCEPT ![t].at = "incCas", ![t].current = n] \in [Threads -> Calls]
              /\ [call EXCEPT ![t].at = "decCas", ![t].current = n] \in [Threads -> Calls]
<1>1. call \in [Threads -> Calls] /\ call[t] \in Calls
  BY DEF TypeOK
<1>2. \A c \in Calls : [call EXCEPT ![t] = c] \in [Threads -> Calls]
  BY <1>1
<1>3. NoCall \in Calls
  BY DEF NoCall, Calls
<1>4. \A a \in {"destroy", "take", "incLoad", "incCas", "decCas"} : [call[t] EXCEPT !.at = a] \in Calls
  BY <1>1 DEF Calls
<1>5. \A c \in Calls, n \in Nat : [c EXCEPT !.current = n] \in Calls
  BY DEF Calls
<1>6. \A a : [call EXCEPT ![t].at = a] = [call EXCEPT ![t] = [call[t] EXCEPT !.at = a]]
  OBVIOUS
<1>7. \A n : [call EXCEPT ![t].current = n] = [call EXCEPT ![t] = [call[t] EXCEPT !.current = n]]
  OBVIOUS
<1>8. \A a, n : [call EXCEPT ![t].at = a, ![t].current = n]
                = [call EXCEPT ![t] = [[call[t] EXCEPT !.at = a] EXCEPT !.current = n]]
  BY <1>1
<1>. QED
  BY <1>1, <1>2, <1>3, <1>4, <1>5, <1>6, <1>7, <1>8

LEMMA EnterTypes ==
  ASSUME TypeOK, NEW t \in Threads, NEW h \in Handles, NEW g \in Handles \cup {Null},
         NEW o \in {"copy", "copyAssign", "moveAssign", "dtor", "deinit"},
         NEW step \in {"decLoad", "incLoad", "take"}, Enter(t, o, h, g, step)
  PROVE  call' \in [Threads -> Calls]
<1>1. [at |-> step, op |-> o, this |-> h, other |-> g, current |-> 0] \in Calls
  BY DEF Calls
<1>. QED
  BY <1>1 DEF Enter, TypeOK

LEMMA TypeKept ==
  ASSUME TypeOK, CallInv, LiveInv, RefCountExact, DestroyInv, NEW t \in Threads, OwnerStep(t)
  PROVE  TypeOK'
<1>1. CASE IncLoad(t) \/ DecLoad(t) \/ CasFails(t)
  <2>1. Touched(t) \in Objects
    BY <1>1 DEF IncLoad, DecLoad, Load, CasFails, AtCas, Touched, CallInv, CallHandles, CallSteps, Inc, Dec
  <2>2. refCount[Touched(t)] \in Nat
    BY <2>1 DEF TypeOK
  <2> DEFINE n == refCount[Touched(t)]
  <2>3. \/ call' = [call EXCEPT ![t].current = n]
        \/ call' = [call EXCEPT ![t].at = "incCas", ![t].current = n]
        \/ call' = [call EXCEPT ![t].at = "decCas", ![t].current = n]
    BY <1>1 DEF IncLoad, DecLoad, Load, CasFails
  <2>4. UNCHANGED <<inner, owner, live, refCount>>
    BY <1>1 DEF IncLoad, DecLoad, Load, CasFails
  <2> HIDE DEF n
  <2>5. n \in Nat
    BY <2>2 DEF n
  <2>6. /\ [call EXCEPT ![t].current = n] \in [Threads -> Calls]
        /\ [call EXCEPT ![t].at = "incCas", ![t].current = n] \in [Threads -> Calls]
        /\ [call EXCEPT ![t].at = "decCas", ![t].current = n] \in [Threads -> Calls]
    BY <2>5, CallTypes
  <2>7. call' \in [Threads -> Calls]
    <3>1. CASE call' = [call EXCEPT ![t].current = n]
      BY <2>6, <3>1
    <3>2. CASE call' = [call EXCEPT ![t].at = "incCas", ![t].current = n]
      BY <2>6, <3>2
    <3>3. CASE call' = [call EXCEPT ![t].at = "decCas", ![t].current = n]
      BY <2>6, <3>3
    <3>. QED
      BY <2>3, <3>1, <3>2, <3>3
  <2>. QED
    BY <2>4, <2>7 DEF TypeOK
<1>2. CASE \E h \in Handles : MakeNull(t, h) \/ Destructor(t, h) \/ Deinit(t, h)
  BY <1>2, EnterTypes DEF MakeNull, Destructor, Deinit, Set, TypeOK
<1>3. CASE \E h, g \in Handles : CopyConstruct(t, h, g) \/ CopyAssign(t, h, g) \/ MoveAssign(t, h, g)
  <2>1. PICK h \in Handles, g \in Handles :
          CopyConstruct(t, h, g) \/ CopyAssign(t, h, g) \/ MoveAssign(t, h, g)
    BY <1>3
  <2>2. CASE CopyConstruct(t, h, g)
    BY <2>2, EnterTypes DEF CopyConstruct, Set, TypeOK
  <2>3. CASE CopyAssign(t, h, g)
    BY <2>3, EnterTypes DEF CopyAssign, TypeOK
  <2>4. CASE MoveAssign(t, h, g)
    BY <2>4, EnterTypes DEF MoveAssign, TypeOK
  <2>. QED
    BY <2>1, <2>2, <2>3, <2>4
<1>4. CASE \E h \in Handles, u \in Threads : HandOver(t, u, h)
  BY <1>4 DEF HandOver, TypeOK
<1>5. CASE ExchangeStep(t)
  <2>1. CASE Take(t)
    <3>1. PICK h, g : h = call[t].this /\ g = call[t].other
      OBVIOUS
    <3>2. /\ h \in Handles /\ g \in Handles
          /\ inner' = [inner EXCEPT ![h] = inner[g], ![g] = Null]
          /\ call' = [call EXCEPT ![t] = NoCall]
      BY <2>1, <3>1, TakeOwners
    <3>3. UNCHANGED <<owner, live, refCount>>
      BY <2>1 DEF Take
    <3>. QED
      BY <3>2, <3>3, CallTypes DEF TypeOK
  <2>2. CASE \E h, g \in Handles : Swap(t, h, g) \/ MoveConstruct(t, h, g)
    BY <2>2 DEF Swap, MoveConstruct, TypeOK
  <2>. QED
    BY <1>5, <2>1, <2>2 DEF ExchangeStep
<1>6. CASE IncCas(t)
  <2>1. PICK h, o : h = call[t].this /\ o = inner[call[t].other]
    OBVIOUS
  <2>2. /\ h \in Handles /\ o \in Objects /\ UNCHANGED <<live, owner>>
        /\ inner' = [inner EXCEPT ![h] = o] /\ call' = [call EXCEPT ![t] = NoCall]
        /\ refCount' = [refCount EXCEPT ![o] = refCount[o] + 1]
    BY <1>6, <2>1, CountUpOwners
  <2>3. refCount[o] + 1 \in Nat
    BY <2>2 DEF TypeOK
  <2>4. call' \in [Threads -> Calls]
    BY <2>2, CallTypes
  <2>. QED
    BY <2>2, <2>3, <2>4 DEF TypeOK
<1>7. CASE DecCas(t)
  <2>1. PICK h, o : h = call[t].this /\ o = inner[call[t].this]
    OBVIOUS
  <2>2. refCount[o] - 1 \in Nat /\ o \in Objects
    <3>1. o \in Objects /\ live[o] /\ h \in Owners(o)
      BY <1>7, <2>1, CountDownOwners
    <3>2. Cardinality(Owners(o)) # 0
      BY <3>1, FiniteOwners, FS_EmptySet
    <3>. QED
      BY <3>1, <3>2, FiniteOwners DEF RefCountExact, TypeOK
  <2>3. /\ refCount' = [refCount EXCEPT ![o] = refCount[o] - 1] /\ UNCHANGED <<live, owner>>
        /\ h \in Handles /\ call[t].op \in {"copyAssign", "moveAssign", "dtor", "deinit"}
        /\ \/ call' = [call EXCEPT ![t].at = "destroy"] /\ UNCHANGED inner
           \/ Proceed(t, inner)
    BY <1>7, <2>1, CountDownOwners
  <2>4. refCount' \in [Objects -> Nat]
    BY <2>2, <2>3 DEF TypeOK
  <2>5. /\ call' \in [Threads -> Calls]
        /\ inner' \in [Handles -> Objects \cup {Null, Unborn}]
    <3>1. CASE call' = [call EXCEPT ![t].at = "destroy"] /\ UNCHANGED inner
      BY <3>1, CallTypes DEF TypeOK
    <3>2. CASE Proceed(t, inner)
      <4>1. inner \in [Handles -> Objects \cup {Null, Unborn}]
        BY DEF TypeOK
      <4>2. /\ \/ call' = [call EXCEPT ![t] = NoCall]
               \/ call' = [call EXCEPT ![t].at = "take"]
               \/ call' = [call EXCEPT ![t].at = "incLoad"]
            /\ inner' = inner \/ inner' = [inner EXCEPT ![h] = Unborn]
        BY <2>1, <2>3, <3>2, <4>1, ProceedCases
      <4>. QED
        BY <2>3, <4>1, <4>2, CallTypes
    <3>. QED
      BY <2>3, <3>1, <3>2
  <2>. QED
    BY <2>3, <2>4, <2>5 DEF TypeOK
<1>8. CASE Destroy(t)
  <2>1. PICK h, o : h = call[t].this /\ o = inner[call[t].this]
    OBVIOUS
  <2>2. /\ h \in Handles /\ o \in Objects
        /\ live' = [live EXCEPT ![o] = FALSE] /\ UNCHANGED <<owner, refCount>>
        /\ \/ call' = [call EXCEPT ![t] = NoCall]
           \/ call' = [call EXCEPT ![t].at = "take"]
           \/ call' = [call EXCEPT ![t].at = "incLoad"]
        /\ \E n \in {Null, Unborn} : inner' = [inner EXCEPT ![h] = n]
    BY <1>8, <2>1, DestroyOwners
  <2>3. /\ [call EXCEPT ![t] = NoCall] \in [Threads -> Calls]
        /\ [call EXCEPT ![t].at = "take"] \in [Threads -> Calls]
        /\ [call EXCEPT ![t].at = "incLoad"] \in [Threads -> Calls]
    BY CallTypes
  <2>4. call' \in [Threads -> Calls]
    <3>1. CASE call' = [call EXCEPT ![t] = NoCall]
      BY <2>3, <3>1
    <3>2. CASE call' = [call EXCEPT ![t].at = "take"]
      BY <2>3, <3>2
    <3>3. CASE call' = [call EXCEPT ![t].at = "incLoad"]
      BY <2>3, <3>3
    <3>. QED
      BY <2>2, <3>1, <3>2, <3>3
  <2>. QED
    BY <2>2, <2>4 DEF TypeOK
<1>9. CASE \E h \in Handles, o \in Objects : Create(t, h, o)
  BY <1>9 DEF Create, Set, TypeOK
<1>. QED
  BY <1>1, <1>2, <1>3, <1>4, <1>5, <1>6, <1>7, <1>8, <1>9 DEF OwnerStep, QuietStep

\* The calls of the other threads stay what they were.
LEMMA OtherCallsKept ==
  ASSUME TypeOK, CallInv, LiveInv, RefCountExact, DestroyInv, NEW t \in Threads, OwnerStep(t),
         NEW u \in Threads \ {t}
  PROVE  CallHandles(u)' /\ CallSteps(u)'
<1>1. OthersAlone(t) /\ call'[u] = call[u] /\ CallHandles(u) /\ CallSteps(u)
  BY OthersKept DEF OthersAlone, CallInv
<1>2. \A x \in Handles : owner[x] = u => owner'[x] = u /\ inner'[x] = inner[x]
  BY <1>1 DEF OthersAlone
<1>3. call[u].at = "idle" => call[u].op = "none"
  BY <1>1 DEF CallHandles, NoCall
<1>4. CallHandles(u)'
  BY <1>1, <1>2 DEF CallHandles
<1>5. ASSUME call[u].op = "deinit", call[u].at \in {"decLoad", "decCas"}
      PROVE  (Owners(inner[call[u].this]) = {call[u].this})'
  <2>1. PICK h, o : h = call[u].this /\ o = inner[call[u].this]
    OBVIOUS
  <2>2. h \in Handles /\ o \in Objects /\ owner[h] = u /\ Owners(o) = {h}
    BY <1>1, <1>5, <2>1 DEF CallHandles, CallSteps, Dec
  <2>3. Owners(o)' = {h}
    BY <2>2, OthersKept
  <2>4. call'[u].this = h /\ inner'[h] = o
    BY <1>1, <1>2, <2>1, <2>2
  <2>. QED
    BY <2>3, <2>4 DEF Owners
<1>6. CallSteps(u)'
  BY <1>1, <1>2, <1>3, <1>5 DEF CallHandles, CallSteps, Inc, Dec
<1>. QED
  BY <1>4, <1>6

LEMMA IdleCall ==
  ASSUME NEW t \in Threads, call'[t] = NoCall
  PROVE  CallHandles(t)' /\ CallSteps(t)'
  BY DEF CallHandles, CallSteps, NoCall, Inc, Dec

\* t's own call, when no counter is written and no object freed.
LEMMA QuietCall ==
  ASSUME Lax = {}, TypeOK, CallInv, NEW t \in Threads, QuietStep(t)
  PROVE  CallHandles(t)' /\ CallSteps(t)'
<1>. CallHandles(t) /\ CallSteps(t)
  BY DEF CallInv
<1>1. CASE IncLoad(t) \/ DecLoad(t) \/ CasFails(t)
  <2>1. /\ \/ call'[t].at = call[t].at /\ call[t].at \in {"incCas", "decCas"}
           \/ call[t].at = "incLoad" /\ call'[t].at = "incCas"
           \/ call[t].at = "decLoad" /\ call'[t].at = "decCas"
        /\ call'[t].op = call[t].op /\ call'[t].this = call[t].this
        /\ call'[t].other = call[t].other /\ UNCHANGED <<inner, owner>>
    BY <1>1 DEF IncLoad, DecLoad, Load, CasFails, AtCas, TypeOK, Calls
  <2>2. CallHandles(t)'
    BY <2>1 DEF CallHandles
  <2>3. Owners(inner[call[t].this])' = Owners(inner[call[t].this])
    <3>1. call[t].at # "idle"
      BY <2>1
    <3>2. PICK h, p : h = call[t].this /\ p = inner[call[t].this]
      OBVIOUS
    <3>3. inner'[call'[t].this] = p
      BY <2>1, <3>2
    <3>4. ASSUME p \in Objects PROVE Owners(p)' = Owners(p)
      BY <3>4, QuietOwners
    <3>5. ASSUME p \notin Objects PROVE Owners(p)' = Owners(p)
      <4>1. \A u \in Threads : call'[u].this = call[u].this /\ (Released(u)' <=> Released(u))
        BY <1>1, <2>1 DEF IncLoad, DecLoad, Load, CasFails, TypeOK, Calls, Released
      <4>. QED
        BY <2>1, <4>1 DEF Owners
    <3>6. Owners(p)' = Owners(p)
      BY <3>4, <3>5
    <3>. QED
      BY <3>2, <3>3, <3>6 DEF Owners
  <2>4. CallSteps(t)'
    BY <2>1, <2>3 DEF CallSteps, Inc, Dec
  <2>. QED
    BY <2>2, <2>4
<1>2. CASE \E h \in Handles : MakeNull(t, h) \/ Destructor(t, h)
  BY <1>2, IdleCall DEF MakeNull, Destructor, Mine, Born, Enter, CallHandles, CallSteps, NoCall, TypeOK, Inc, Dec
<1>3. ASSUME NEW h \in Handles, Deinit(t, h) PROVE CallHandles(t)' /\ CallSteps(t)'
  <2>1. PICK p \in Objects : p = inner[h]
    BY <1>3 DEF Deinit
  <2>2. Owners(p) = {h} /\ Owners(p)' = Owners(p)
    BY <1>3, <2>1, QuietOwners DEF Deinit, QuietStep
  <2>3. /\ UNCHANGED <<inner, owner>> /\ owner[h] = t
        /\ call'[t] = [at |-> "decLoad", op |-> "deinit", this |-> h, other |-> Null, current |-> 0]
    BY <1>3 DEF Deinit, Mine, Enter, TypeOK
  <2>4. Owners(inner[call[t].this])' = {h}
    BY <2>1, <2>2, <2>3 DEF Owners
  <2>. QED
    BY <2>1, <2>3, <2>4 DEF CallHandles, CallSteps, Inc, Dec
<1>4. ASSUME NEW h \in Handles, NEW g \in Handles,
             CopyConstruct(t, h, g) \/ CopyAssign(t, h, g) \/ MoveAssign(t, h, g)
      PROVE  CallHandles(t)' /\ CallSteps(t)'
  <2>1. CASE CopyConstruct(t, h, g)
    BY <2>1, IdleCall DEF CopyConstruct, Mine, Born, Enter, CallHandles, CallSteps, NoCall, TypeOK, Inc, Dec
  <2>2. CASE CopyAssign(t, h, g)
    BY <2>2 DEF CopyAssign, Mine, Born, Enter, CallHandles, CallSteps, TypeOK, Inc, Dec
  <2>3. CASE MoveAssign(t, h, g)
    BY <2>3 DEF MoveAssign, Mine, Born, Enter, CallHandles, CallSteps, TypeOK, Inc, Dec
  <2>. QED
    BY <1>4, <2>1, <2>2, <2>3
<1>5. CASE \E h \in Handles, u \in Threads : HandOver(t, u, h)
  BY <1>5, IdleCall DEF HandOver, Mine, CallHandles
<1>. QED
  BY <1>1, <1>2, <1>3, <1>4, <1>5 DEF QuietStep

LEMMA CallKept ==
  ASSUME Lax = {}, TypeOK, CallInv, LiveInv, RefCountExact, DestroyInv,
         NEW t \in Threads, OwnerStep(t)
  PROVE  CallInv'
<1>. SUFFICES CallHandles(t)' /\ CallSteps(t)'
  BY OtherCallsKept DEF CallInv
<1>. CallHandles(t) /\ CallSteps(t)
  BY DEF CallInv
<1>1. CASE QuietStep(t)
  BY <1>1, QuietCall
<1>2. CASE ExchangeStep(t)
  BY <1>2, IdleCall DEF ExchangeStep, Take, Swap, MoveConstruct, Mine, Return, TypeOK, CallHandles
<1>3. CASE IncCas(t)
  BY <1>3, IdleCall DEF IncCas, CountUp, Return, TypeOK
<1>4. CASE DecCas(t)
  <2>1. PICK h, o : h = call[t].this /\ o = inner[call[t].this]
    OBVIOUS
  <2>2. /\ h \in Handles /\ o \in Objects /\ UNCHANGED owner /\ call[t].at = "decCas"
        /\ call[t].op \in {"copyAssign", "moveAssign", "dtor", "deinit"}
        /\ \/ call' = [call EXCEPT ![t].at = "destroy"] /\ UNCHANGED inner
           \/ call[t].op # "deinit" /\ Proceed(t, inner)
    BY <1>4, <2>1, CountDownOwners
  <2>3. CASE call' = [call EXCEPT ![t].at = "destroy"] /\ UNCHANGED inner
    BY <2>1, <2>2, <2>3 DEF CallHandles, CallSteps, TypeOK, Calls, Inc, Dec
  <2>4. CASE call[t].op # "deinit" /\ Proceed(t, inner)
    <3>1. \/ call' = [call EXCEPT ![t] = NoCall]
          \/ /\ call[t].op = "moveAssign" /\ call' = [call EXCEPT ![t].at = "take"]
             /\ UNCHANGED inner
          \/ /\ call[t].op = "copyAssign" /\ call' = [call EXCEPT ![t].at = "incLoad"]
             /\ UNCHANGED inner
      BY <2>1, <2>2, <2>4, ProceedCases DEF TypeOK
    <3>2. CASE call' = [call EXCEPT ![t] = NoCall]
      BY <3>2, IdleCall DEF TypeOK
    <3>. QED
      BY <2>1, <2>2, <3>1, <3>2, NameAssumption DEF CallHandles, CallSteps, TypeOK, Calls, Inc, Dec
  <2>. QED
    BY <2>2, <2>3, <2>4
<1>5. CASE Destroy(t)
  <2>1. PICK h, o : h = call[t].this /\ o = inner[call[t].this]
    OBVIOUS
  <2>2. /\ h \in Handles /\ o \in Objects /\ UNCHANGED owner /\ call[t].at = "destroy"
        /\ \/ call' = [call EXCEPT ![t] = NoCall]
           \/ /\ call[t].op = "moveAssign" /\ call' = [call EXCEPT ![t].at = "take"]
              /\ inner' = [inner EXCEPT ![h] = Null]
           \/ /\ call[t].op = "copyAssign" /\ call' = [call EXCEPT ![t].at = "incLoad"]
              /\ inner' = [inner EXCEPT ![h] = Null]
    BY <1>5, <2>1, DestroyOwners
  <2>3. CASE call' = [call EXCEPT ![t] = NoCall]
    BY <2>3, IdleCall DEF TypeOK
  <2>. QED
    BY <2>1, <2>2, <2>3, NameAssumption DEF CallHandles, CallSteps, TypeOK, Calls, Inc, Dec
<1>6. CASE \E h \in Handles, o \in Objects : Create(t, h, o)
  BY <1>6, IdleCall DEF Create, Mine, CallHandles
<1>. QED
  BY <1>1, <1>2, <1>3, <1>4, <1>5, <1>6 DEF OwnerStep

\* Thread t is destroying object o.
Destroying(t, o) == call[t].at = "destroy" /\ inner[call[t].this] = o

\* A live object without owners is being destroyed, by one thread.
OneDestroyer(o) ==
  /\ \A u \in Threads : Destroying(u, o) => live[o] /\ Owners(o) = {}
  /\ \A u, v \in Threads : Destroying(u, o) /\ Destroying(v, o) => u = v
  /\ live[o] /\ Owners(o) = {} => \E u \in Threads : Destroying(u, o)

LEMMA DestroyForm ==
  ASSUME CallInv, DestroyInv, NoLeak
  PROVE  \A o \in Objects : OneDestroyer(o)
  BY DEF OneDestroyer, Destroying, DestroyInv, NoLeak, Touched

\* Other threads that destroy an object still do, and t's step does not touch it.
LEMMA DestroyersKept ==
  ASSUME TypeOK, CallInv, LiveInv, RefCountExact, DestroyInv, NEW t \in Threads, OwnerStep(t),
         NEW u \in Threads \ {t}, NEW o \in Objects
  PROVE  Destroying(u, o)' <=> Destroying(u, o)
  BY OthersKept DEF OthersAlone, CallInv, CallHandles, Destroying

LEMMA DestroyKept ==
  ASSUME TypeOK, CallInv, LiveInv, RefCountExact, DestroyInv, NoLeak,
         NEW t \in Threads, OwnerStep(t), CallInv'
  PROVE  DestroyInv' /\ NoLeak'
<1>1. \A o \in Objects : OneDestroyer(o)
  BY DestroyForm
<1>2. \A u \in Threads \ {t} : \A o \in Objects : Destroying(u, o)' <=> Destroying(u, o)
  BY DestroyersKept
<1>3. SUFFICES ASSUME NEW p \in Objects PROVE OneDestroyer(p)'
  <2>1. \A p \in Objects : OneDestroyer(p)'
    BY <1>3
  <2>2. \A u \in Threads : call'[u].at = "destroy" => inner'[call'[u].this] \in Objects
    BY DEF CallInv, CallSteps, Dec
  <2>3. NoLeak'
    BY <2>1 DEF OneDestroyer, Destroying, NoLeak, Touched
  <2>4. DestroyInv'
    <3>1. SUFFICES ASSUME NEW u \in Threads, call'[u].at = "destroy", NEW o \in Objects,
                          o = inner'[call'[u].this]
                   PROVE  /\ live'[o] /\ Owners(o)' = {}
                          /\ \A v \in Threads : call'[v].at = "destroy" /\ inner'[call'[v].this] = o
                                                => v = u
      BY <2>2 DEF DestroyInv, Owners
    <3>. QED
      BY <2>1, <3>1 DEF OneDestroyer, Destroying
  <2>. QED
    BY <2>3, <2>4
<1>4. ASSUME ~Destroying(t, p), ~Destroying(t, p)', live'[p] = live[p], Owners(p)' = {} <=> Owners(p) = {}
      PROVE  OneDestroyer(p)'
  BY <1>1, <1>2, <1>4 DEF OneDestroyer
<1>5. CASE QuietStep(t) \/ ExchangeStep(t)
  <2>1. /\ Owners(p)' = {} <=> Owners(p) = {}
        /\ UNCHANGED live /\ call[t].at # "destroy" /\ call'[t].at # "destroy"
    BY <1>5, QuietOwners, ExchangeOwners, ExchangeKeepsCount
  <2>. QED
    BY <1>4, <2>1 DEF Destroying
<1>6. CASE IncCas(t)
  <2>1. PICK h, o : h = call[t].this /\ o = inner[call[t].other]
    OBVIOUS
  <2>2. /\ o \in Objects /\ Owners(o) # {} /\ Owners(o)' = Owners(o) \cup {h}
        /\ \A x \in Objects \ {o} : Owners(x)' = Owners(x)
        /\ UNCHANGED live /\ call' = [call EXCEPT ![t] = NoCall]
    BY <1>6, <2>1, CountUpOwners
  <2>3. call[t].at # "destroy" /\ call'[t].at # "destroy"
    BY <1>6, <2>2 DEF IncCas, CountUp, NoCall, TypeOK
  <2>. QED
    BY <1>4, <2>2, <2>3 DEF Destroying
<1>7. CASE DecCas(t)
  <2>1. PICK h, o : h = call[t].this /\ o = inner[call[t].this]
    OBVIOUS
  <2>2. /\ h \in Handles /\ o \in Objects /\ h \in Owners(o) /\ live[o]
        /\ Owners(o)' = Owners(o) \ {h}
        /\ \A x \in Objects \ {o} : Owners(x)' = Owners(x)
        /\ UNCHANGED live /\ call[t].at = "decCas"
        /\ call[t].op \in {"copyAssign", "moveAssign", "dtor", "deinit"}
        /\ \/ /\ refCount[o] = 1 /\ call' = [call EXCEPT ![t].at = "destroy"]
              /\ UNCHANGED inner
           \/ refCount[o] # 1 /\ Proceed(t, inner)
    BY <1>7, <2>1, CountDownOwners
  <2>3. refCount[o] = 1 <=> Owners(o) = {h}
    <3>1. refCount[o] = Cardinality(Owners(o)) /\ IsFiniteSet(Owners(o))
      BY <2>2, FiniteOwners DEF RefCountExact
    <3>2. Cardinality(Owners(o)) = 1 <=> \E x : Owners(o) = {x}
      BY <3>1, FS_Singleton
    <3>. QED
      BY <2>2, <3>1, <3>2
  <2>4. ~Destroying(t, p)
    BY <2>2 DEF Destroying
  <2>5. CASE refCount[o] = 1 /\ call' = [call EXCEPT ![t].at = "destroy"] /\ UNCHANGED inner
    <3>1. Owners(o)' = {} /\ (Destroying(t, p)' <=> p = o)
      BY <2>1, <2>2, <2>3, <2>5 DEF TypeOK, Calls, Destroying
    <3>2. CASE p = o
      <4>1. \A u \in Threads : ~Destroying(u, p)
        BY <1>1, <2>2, <3>2 DEF OneDestroyer
      <4>2. \A u \in Threads : Destroying(u, p)' <=> u = t
        BY <1>2, <3>1, <3>2, <4>1
      <4>. QED
        BY <2>2, <3>1, <3>2, <4>2 DEF OneDestroyer
    <3>. QED
      BY <1>4, <2>2, <2>4, <3>1, <3>2
  <2>6. CASE refCount[o] # 1 /\ Proceed(t, inner)
    <3>1. Owners(o)' # {} /\ Owners(o) # {}
      BY <2>2, <2>3, <2>6
    <3>2. call'[t].at # "destroy"
      <4>1. \/ call' = [call EXCEPT ![t] = NoCall]
            \/ call' = [call EXCEPT ![t].at = "take"]
            \/ call' = [call EXCEPT ![t].at = "incLoad"]
        BY <2>1, <2>2, <2>6, ProceedCases DEF TypeOK
      <4>. QED
        BY <4>1 DEF TypeOK, Calls, NoCall
    <3>. QED
      BY <1>4, <2>2, <2>4, <3>1, <3>2 DEF Destroying
  <2>. QED
    BY <2>2, <2>5, <2>6
<1>8. CASE Destroy(t)
  <2>1. PICK h, o : h = call[t].this /\ o = inner[call[t].this]
    OBVIOUS
  <2>2. /\ o \in Objects /\ \A x \in Objects : Owners(x)' = Owners(x)
        /\ live' = [live EXCEPT ![o] = FALSE] /\ call[t].at = "destroy"
        /\ \/ call' = [call EXCEPT ![t] = NoCall]
           \/ call' = [call EXCEPT ![t].at = "take"]
           \/ call' = [call EXCEPT ![t].at = "incLoad"]
    BY <1>8, <2>1, DestroyOwners
  <2>3. ~Destroying(t, p)'
    BY <2>2 DEF TypeOK, Calls, NoCall, Destroying
  <2>4. Destroying(t, p) <=> p = o
    BY <2>1, <2>2 DEF Destroying
  <2>5. CASE p = o
    <3>1. \A u \in Threads : ~Destroying(u, p)'
      BY <1>1, <1>2, <2>3, <2>4, <2>5 DEF OneDestroyer
    <3>2. ~live'[p]
      BY <2>2, <2>5 DEF TypeOK
    <3>. QED
      BY <3>1, <3>2 DEF OneDestroyer
  <2>6. CASE p # o
    <3>1. live'[p] = live[p]
      BY <2>2, <2>6 DEF TypeOK
    <3>. QED
      BY <1>4, <2>2, <2>3, <2>4, <2>6, <3>1
  <2>. QED
    BY <2>5, <2>6
<1>9. CASE \E h \in Handles, o \in Objects : Create(t, h, o)
  <2>1. PICK h \in Handles, o \in Objects : Create(t, h, o)
    BY <1>9
  <2>2. /\ Owners(o)' = {h} /\ \A x \in Objects \ {o} : Owners(x)' = Owners(x)
        /\ ~live[o] /\ live' = [live EXCEPT ![o] = TRUE] /\ UNCHANGED call
        /\ call[t].at = "idle"
    BY <2>1, CreateOwners DEF Create, Mine
  <2>3. ~Destroying(t, p) /\ ~Destroying(t, p)'
    BY <2>2 DEF Destroying
  <2>4. CASE p = o
    <3>1. \A u \in Threads : ~Destroying(u, p)'
      BY <1>1, <1>2, <2>2, <2>3, <2>4 DEF OneDestroyer
    <3>. QED
      BY <2>2, <2>4, <3>1 DEF OneDestroyer
  <2>5. CASE p # o
    <3>1. live'[p] = live[p]
      BY <2>2, <2>5 DEF TypeOK
    <3>. QED
      BY <1>4, <2>2, <2>3, <2>5, <3>1
  <2>. QED
    BY <2>4, <2>5
<1>. QED
  BY <1>5, <1>6, <1>7, <1>8, <1>9 DEF OwnerStep

LEMMA InitInv == Init => IInv
<1>. SUFFICES ASSUME Init PROVE IInv
  OBVIOUS
<1>1. TypeOK
  BY DEF Init, TypeOK, NoCall, Calls
<1>2. \A o \in Objects : Owners(o) = {} /\ ~live[o]
  BY NameAssumption DEF Init, Owners
<1>3. \A t \in Threads : call[t] = NoCall
  BY DEF Init
<1>. QED
  BY <1>1, <1>2, <1>3
  DEF IInv, CallInv, CallHandles, CallSteps, LiveInv, RefCountExact, DestroyInv, NoLeak, NoCall, Inc, Dec

LEMMA StepInv == Lax = {} /\ IInv /\ [Next]_vars => IInv'
<1>. SUFFICES ASSUME Lax = {}, IInv, [Next]_vars PROVE IInv'
  OBVIOUS
<1>1. ASSUME NEW t \in Threads, OwnerStep(t) PROVE IInv'
  BY <1>1, TypeKept, CallKept, CountsKept, DestroyKept DEF IInv
<1>2. CASE UNCHANGED vars
  <2>1. UNCHANGED <<inner, owner, live, refCount, call>>
    BY <1>2 DEF vars
  <2>2. \A t \in Threads : Released(t)' <=> Released(t)
    BY <2>1 DEF Released
  <2>3. \A p : Owners(p)' = Owners(p)
    BY <2>1, <2>2 DEF Owners
  <2>4. TypeOK' /\ LiveInv' /\ RefCountExact'
    BY <2>1, <2>3 DEF IInv, TypeOK, LiveInv, RefCountExact
  <2>5. CallInv'
    BY <2>1, <2>3 DEF IInv, CallInv, CallHandles, CallSteps
  <2>6. DestroyInv' /\ NoLeak'
    BY <2>1, <2>3 DEF IInv, DestroyInv, NoLeak, Touched
  <2>. QED
    BY <2>4, <2>5, <2>6 DEF IInv
<1>. QED
  BY <1>1, <1>2, StepsAreOwnerSteps

\* A call touches only the counter of an object that lives.
LEMMA TouchesLive == IInv => NoUseAfterFree
<1>. SUFFICES ASSUME IInv, NEW t \in Threads, Touched(t) \in Objects PROVE live[Touched(t)]
  BY DEF NoUseAfterFree
<1>. USE DEF IInv
<1>1. call[t].at \in Inc \cup Dec
  BY NameAssumption DEF Touched, Inc, Dec
<1>2. CallHandles(t) /\ CallSteps(t)
  BY DEF CallInv
<1>3. CASE call[t].at = "destroy"
  BY <1>3 DEF DestroyInv, Touched
<1>4. CASE call[t].at \in {"decLoad", "decCas"}
  <2>1. call[t].this \in Owners(Touched(t))
    BY <1>2, <1>4, CallsApart DEF Owners, Released, Touched, CallHandles
  <2>. QED
    BY <2>1 DEF LiveInv
<1>5. CASE call[t].at \in Inc
  <2>1. call[t].other \in Owners(Touched(t))
    BY <1>2, <1>5, CallsApart DEF Owners, Released, Touched, CallHandles, CallSteps, Inc
  <2>. QED
    BY <2>1 DEF LiveInv
<1>. QED
  BY <1>1, <1>3, <1>4, <1>5 DEF Dec

\* The invariant holds of every behaviour without the calls in Lax.
THEOREM Invariance ==
  ASSUME Lax = {}
  PROVE  Spec => []IInv
<1>1. IInv /\ [Next]_vars => IInv'
  BY StepInv
<1>. QED
  BY <1>1, InitInv, PTL DEF Spec

\* Every variable keeps its type: the counters never go below zero.
THEOREM TypeCorrect ==
  ASSUME Lax = {}
  PROVE  Spec => []TypeOK
<1>1. IInv => TypeOK
  BY DEF IInv
<1>. QED
  BY <1>1, Invariance, PTL

\* The counter of a live object is the number of its owners at every step of
\* every interleaving of the compare-exchange loops.
THEOREM CountersExact ==
  ASSUME Lax = {}
  PROVE  Spec => []RefCountExact
<1>1. IInv => RefCountExact
  BY DEF IInv
<1>. QED
  BY <1>1, Invariance, PTL

\* No call loads, compares or frees the counter of an object already freed.
THEOREM NothingUsedAfterFree ==
  ASSUME Lax = {}
  PROVE  Spec => []NoUseAfterFree
BY TouchesLive, Invariance, PTL

\* An object whose last owner let go is being destroyed by some thread.
THEOREM NothingLeaks ==
  ASSUME Lax = {}
  PROVE  Spec => []NoLeak
<1>1. IInv => NoLeak
  BY DEF IInv
<1>. QED
  BY <1>1, Invariance, PTL

-----------------------------------------------------------------------------
(* Refinement *)

LEMMA OwnershipStep ==
  ASSUME IInv, NEW t \in Threads, OwnerStep(t)
  PROVE  [Ownership!Next]_(Ownership!ownVars)
<1>. DEFINE own == [o \in Objects |-> Owners(o)]
            own2 == [o \in Objects |-> Owners(o)']
<1>. USE DEF IInv
<1>1. CASE QuietStep(t)
  <2>1. own2 = own /\ live' = live
    BY <1>1, QuietOwners
  <2>. QED
    BY <2>1 DEF Ownership!ownVars
<1>2. CASE ExchangeStep(t)
  <2>1. live' = live
    BY <1>2, ExchangeOwners
  <2>2. PICK h \in Handles, g \in Handles : \A p \in Objects : Exchanged(p, h, g)
    BY <1>2, ExchangeOwners
  <2>3. Ownership!Exchange(g, h)
    BY <2>1, <2>2 DEF Ownership!Exchange, Exchanged
  <2>. QED
    BY <2>3 DEF Ownership!Next
<1>3. CASE IncCas(t)
  <2>1. PICK h, o : h = call[t].this /\ o = inner[call[t].other]
    OBVIOUS
  <2>2. /\ h \in Handles /\ o \in Objects /\ Owners(o) # {}
        /\ \A p \in Objects : h \notin Owners(p)
        /\ Owners(o)' = Owners(o) \cup {h}
        /\ \A p \in Objects \ {o} : Owners(p)' = Owners(p)
        /\ live' = live
    BY <1>3, <2>1, CountUpOwners
  <2>3. own2 = [own EXCEPT ![o] = @ \cup {h}]
    BY <2>2
  <2>4. Ownership!Share(o, h)
    BY <2>2, <2>3 DEF Ownership!Share, Ownership!Owns
  <2>. QED
    BY <2>2, <2>4 DEF Ownership!Next
<1>4. CASE DecCas(t)
  <2>1. PICK h, o : h = call[t].this /\ o = inner[call[t].this]
    OBVIOUS
  <2>2. /\ h \in Handles /\ o \in Objects /\ h \in Owners(o)
        /\ Owners(o)' = Owners(o) \ {h}
        /\ \A p \in Objects \ {o} : Owners(p)' = Owners(p)
        /\ live' = live
    BY <1>4, <2>1, CountDownOwners
  <2>3. own2 = [own EXCEPT ![o] = @ \ {h}]
    BY <2>2
  <2>4. Ownership!Release(o, h)
    BY <2>2, <2>3 DEF Ownership!Release
  <2>. QED
    BY <2>2, <2>4 DEF Ownership!Next
<1>5. CASE Destroy(t)
  <2>1. PICK h, o : h = call[t].this /\ o = inner[call[t].this]
    OBVIOUS
  <2>2. /\ o \in Objects /\ live[o] /\ Owners(o) = {}
        /\ \A p \in Objects : Owners(p)' = Owners(p)
        /\ live' = [live EXCEPT ![o] = FALSE]
    BY <1>5, <2>1, DestroyOwners
  <2>3. own2 = own
    BY <2>2
  <2>4. Ownership!Destroy(o)
    BY <2>2, <2>3 DEF Ownership!Destroy
  <2>. QED
    BY <2>2, <2>4 DEF Ownership!Next
<1>6. CASE \E h \in Handles, o \in Objects : Create(t, h, o)
  <2>1. PICK h \in Handles, o \in Objects : Create(t, h, o)
    BY <1>6
  <2>2. /\ Owners(o)' = {h} /\ \A p \in Objects : h \notin Owners(p)
        /\ \A p \in Objects \ {o} : Owners(p)' = Owners(p)
        /\ ~live[o] /\ live' = [live EXCEPT ![o] = TRUE]
    BY <2>1, CreateOwners DEF Create
  <2>3. own2 = [own EXCEPT ![o] = {h}]
    BY <2>2
  <2>4. Ownership!Create(o, h)
    BY <2>2, <2>3 DEF Ownership!Create, Ownership!Owns
  <2>. QED
    BY <2>4 DEF Ownership!Next
<1>. QED
  BY <1>1, <1>2, <1>3, <1>4, <1>5, <1>6 DEF OwnerStep

\* SharedPtr implements SharedOwnership: only an owned object gets another
\* owner, only an ownerless one dies, and no call does two things at once.
THEOREM ImplementsOwnership ==
  ASSUME Lax = {}
  PROVE  Spec => OwnershipSpec
<1>1. Init => Ownership!Init
  BY NameAssumption DEF Init, Ownership!Init, Owners
<1>2. IInv /\ [Next]_vars => [Ownership!Next]_(Ownership!ownVars)
  <2>1. SUFFICES ASSUME IInv, [Next]_vars PROVE [Ownership!Next]_(Ownership!ownVars)
    OBVIOUS
  <2>2. CASE UNCHANGED vars
    BY <2>2 DEF vars, Ownership!ownVars, Owners, Released
  <2>. QED
    BY <2>1, <2>2, OwnershipStep, StepsAreOwnerSteps
<1>. QED
  BY <1>1, <1>2, Invariance, PTL DEF Spec, OwnershipSpec, Ownership!Spec
=============================================================================
