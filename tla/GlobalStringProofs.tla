------------------------- MODULE GlobalStringProofs -------------------------
(***************************************************************************)
(* Proofs about GlobalString, for any threads and finitely many strings.   *)
(***************************************************************************)
EXTENDS GlobalString, FiniteSetTheorems, TLAPS

Writing == {"insert", "push", "count"}
Looking == {"find", "text", "exists", "valid"}

\* Who holds the lock, from where the threads are and in which call.
LockInv ==
  /\ \A t \in Threads :
       /\ writer = t <=> pc[t] \in Writing \/ (pc[t] = "leave" /\ request[t].op = "create")
       /\ t \in readers <=> pc[t] \in Looking \/ (pc[t] = "leave" /\ request[t].op # "create")
       /\ pc[t] \in Writing => request[t].op = "create"
       /\ pc[t] \in Looking => request[t].op = pc[t]
       /\ pc[t] = "idle" <=> request[t] = NoRequest
  /\ writer # NoThread => readers = {}

\* The tables while they are changed: the map is one string ahead between
\* insert and push, and the counter one behind between push and count.
MidInv ==
  /\ \A i \in DOMAIN strings : ids[strings[i]] = i - 1
  /\ \A s \in Strings :
       ids[s] # NoId => \/ ids[s] + 1 \in DOMAIN strings /\ strings[ids[s] + 1] = s
                        \/ \E t \in Threads : pc[t] = "push" /\ request[t].str = s
  /\ \A t \in Threads :
       /\ pc[t] = "push" => /\ nextId = Len(strings)
                            /\ ids[request[t].str] = nextId
                            /\ \A i \in DOMAIN strings : strings[i] # request[t].str
       /\ pc[t] = "count" => nextId + 1 = Len(strings)
  /\ (\A t \in Threads : pc[t] # "count") => nextId = Len(strings)

\* Before the static is built nobody is past it, and no id is ever given
\* out that is not in the table.
BuiltInv ==
  /\ ~built => /\ \A t \in Threads : pc[t] \in {"idle", "static"}
               /\ strings = <<>> /\ nextId = 0 /\ \A s \in Strings : ids[s] = NoId
  /\ built => Len(strings) > 0 /\ strings[1] = Empty
  /\ \A t \in Threads :
       /\ gstr[t] = 0 \/ gstr[t] < Len(strings)
       /\ request[t].op = "text" => request[t].id = 0 \/ request[t].id < Len(strings)

IInv == StringTypeOK /\ LockInv /\ MidInv /\ BuiltInv

-----------------------------------------------------------------------------
LEMMA RequestType ==
  /\ \A r \in Intern!Requests \cup {NoRequest} :
       /\ r.str \in Strings /\ r.id \in Ids
       /\ r.op \in {"create", "find", "exists", "text", "valid", "nothing"}
       /\ r.op = "nothing" <=> r = NoRequest
  /\ NoRequest \notin Intern!Requests
  BY StringsAssumption, IdAssumption, FS_CardinalityType
  DEF Intern!Requests, NoRequest, Ids

\* A sequence of distinct strings is no longer than there are strings.
LEMMA DistinctBound ==
  ASSUME NEW s \in Seq(Strings), \A i, k \in DOMAIN s : s[i] = s[k] => i = k
  PROVE  Len(s) < IdCount
<1>1. IsFiniteSet(1 .. Len(s)) /\ Cardinality(1 .. Len(s)) = Len(s)
  <2>1. Len(s) \in Nat /\ 1 \in Int /\ Len(s) \in Int
    OBVIOUS
  <2>. QED
    BY <2>1, FS_Interval, SMT
<1>2. Cardinality(Strings) \in Nat /\ IsFiniteSet(Strings)
  BY StringsAssumption, FS_CardinalityType
<1>3. s \in [1 .. Len(s) -> Strings]
  OBVIOUS
<1>4. ~ Cardinality(Strings) < Cardinality(1 .. Len(s))
  BY <1>1, <1>2, <1>3, FS_PigeonHole
<1>. QED
  BY <1>1, <1>2, <1>4, IdAssumption

LEMMA Bounded == IInv => Len(strings) < IdCount
<1>. SUFFICES ASSUME IInv PROVE Len(strings) < IdCount
  OBVIOUS
<1>1. \A i, k \in DOMAIN strings : strings[i] = strings[k] => i = k
  BY DEF IInv, MidInv, StringTypeOK
<1>. QED
  BY <1>1, DistinctBound DEF IInv, StringTypeOK

LEMMA InitInv == StringInit => IInv
<1>. SUFFICES ASSUME StringInit PROVE IInv
  OBVIOUS
<1>. USE DEF StringInit
<1>0. Cardinality(Strings) \in Nat /\ IdCount > 0 /\ IdCount \in Nat
  BY StringsAssumption, IdAssumption, FS_CardinalityType
<1>1. StringTypeOK
  <2>1. 0 \in Ids /\ NoId \in Ids \cup {NoId} /\ Empty \in Strings
    BY <1>0, StringsAssumption DEF Ids
  <2>2. strings \in Seq(Strings)
    OBVIOUS
  <2>3. nextId \in Ids
    BY <2>1
  <2>. QED
    BY <2>1, <2>2, <2>3 DEF StringTypeOK, LockInit, LockTypeOK
<1>2. LockInv
  BY NoThreadAssumption DEF LockInv, LockInit, NoRequest, Writing, Looking
<1>3. MidInv
  BY DEF MidInv
<1>4. BuiltInv
  BY DEF BuiltInv, NoRequest
<1>. QED
  BY <1>1, <1>2, <1>3, <1>4 DEF IInv

-----------------------------------------------------------------------------
\* What a step of one thread does to where the threads are.
LEMMA OnlyOneMoves ==
  ASSUME StringTypeOK, NEW t \in Threads, NEW from, NEW to, At(t, from, to)
  PROVE  /\ pc[t] = from /\ pc'[t] = to
         /\ \A q \in Threads : q # t => pc'[q] = pc[q]
  BY DEF At, StringTypeOK

LEMMA TypeKept ==
  ASSUME IInv, [StringNext]_stringVars
  PROVE  StringTypeOK'
<1>. USE DEF IInv, StringTypeOK, lockVars, tables, results, Answer
<1>0. /\ 0 \in Ids /\ Empty \in Strings /\ IdCount \in Nat \ {0}
      /\ \A t \in Threads : request[t].str \in Strings /\ request[t].id \in Ids
  BY StringsAssumption, IdAssumption, FS_CardinalityType, RequestType DEF Ids
<1>1. ASSUME NEW t \in Threads, Call(t)  PROVE StringTypeOK'
  <2>1. request' \in [Threads -> Intern!Requests \cup {NoRequest}]
    BY <1>1 DEF Call
  <2>2. pc' \in [Threads -> {"idle", "static", "lock", "leave", "insert", "push", "count",
                             "find", "text", "exists", "valid"}]
    BY <1>1 DEF Call, At
  <2>. QED
    BY <1>1, <2>1, <2>2 DEF Call, LockTypeOK
<1>2. ASSUME NEW t \in Threads, GetAllGlobalStrings(t)  PROVE StringTypeOK'
  <2>1. Cardinality(Strings) \in Nat /\ Cardinality(Strings) # 0
    BY StringsAssumption, FS_CardinalityType, FS_EmptySet
  <2>2. 1 \in Ids
    BY <2>1, IdAssumption DEF Ids
  <2>3. pc' \in [Threads -> {"idle", "static", "lock", "leave", "insert", "push", "count",
                             "find", "text", "exists", "valid"}]
    BY <1>2 DEF GetAllGlobalStrings, At
  <2>4. CASE built
    BY <1>2, <2>3, <2>4 DEF GetAllGlobalStrings, LockTypeOK
  <2>5. CASE ~built
    <3>1. ids' \in [Strings -> Ids \cup {NoId}]
      BY <1>0, <1>2, <2>5 DEF GetAllGlobalStrings
    <3>2. <<Empty>> \in Seq(Strings)
      BY <1>0
    <3>3. strings' \in Seq(Strings) /\ nextId' \in Ids
      BY <1>2, <2>2, <2>5, <3>2 DEF GetAllGlobalStrings
    <3>. QED
      BY <1>2, <2>3, <3>1, <3>3 DEF GetAllGlobalStrings, LockTypeOK
  <2>. QED
    BY <2>4, <2>5
<1>3. ASSUME NEW t \in Threads, Write(t)  PROVE StringTypeOK'
  BY <1>3 DEF Write, At, WriteLock, LockTypeOK
<1>4. ASSUME NEW t \in Threads, Read(t)  PROVE StringTypeOK'
  <2>1. request[t].op \in Looking
    BY <1>4, RequestType DEF Read, At, LockInv, Looking
  <2>2. pc' \in [Threads -> {"idle", "static", "lock", "leave", "insert", "push", "count",
                             "find", "text", "exists", "valid"}]
    BY <1>4, <2>1 DEF Read, At, Looking
  <2>. QED
    BY <1>4, <2>2 DEF Read, ReadLock, LockTypeOK
<1>5. ASSUME NEW t \in Threads, Leave(t)  PROVE StringTypeOK'
  <2>1. readers' \in SUBSET Threads /\ writer' \in Threads \cup {NoThread}
    BY <1>5 DEF Leave, WriteUnlock, ReadUnlock, LockTypeOK
  <2>2. /\ request' \in [Threads -> Intern!Requests \cup {NoRequest}]
        /\ text' \in [Threads -> Strings] /\ valid' \in [Threads -> BOOLEAN]
    BY <1>0, <1>5 DEF Leave
  <2>3. pc' \in [Threads -> {"idle", "static", "lock", "leave", "insert", "push", "count",
                             "find", "text", "exists", "valid"}]
    BY <1>5 DEF Leave, At
  <2>. QED
    BY <1>5, <2>1, <2>2, <2>3 DEF Leave, LockTypeOK
<1>6. ASSUME NEW t \in Threads, Create(t)  PROVE StringTypeOK'
  <2>0. pc' \in [Threads -> {"idle", "static", "lock", "leave", "insert", "push", "count",
                             "find", "text", "exists", "valid"}]
    BY <1>6 DEF Create, InsertFinds, InsertAdds, PushString, CountId, At
  <2>1. CASE InsertFinds(t)
    <3>1. ids[request[t].str] \in Ids
      BY <1>0, <2>1 DEF InsertFinds, Found
    <3>. QED
      BY <2>0, <2>1, <3>1 DEF InsertFinds, LockTypeOK
  <2>2. CASE InsertAdds(t)
    BY <1>0, <2>0, <2>2 DEF InsertAdds, LockTypeOK
  <2>3. CASE PushString(t)
    <3>1. strings' \in Seq(Strings)
      BY <1>0, <2>3 DEF PushString
    <3>2. gstr' \in [Threads -> Ids]
      BY <2>3 DEF PushString
    <3>. QED
      BY <2>0, <2>3, <3>1, <3>2 DEF PushString, LockTypeOK
  <2>4. CASE CountId(t)
    <3>1. (nextId + 1) % IdCount \in Ids
      BY <1>0 DEF Ids
    <3>. QED
      BY <2>0, <2>4, <3>1 DEF CountId, LockTypeOK
  <2>. QED
    BY <1>6, <2>1, <2>2, <2>3, <2>4 DEF Create
<1>7. ASSUME NEW t \in Threads, Look(t)  PROVE StringTypeOK'
  <2>0. pc' \in [Threads -> {"idle", "static", "lock", "leave", "insert", "push", "count",
                             "find", "text", "exists", "valid"}]
    BY <1>7 DEF Look, ReadStep, FindId, ReadText, TestString, TestId, At
  <2>1. CASE FindId(t)
    <3>1. (IF Found(request[t].str) THEN ids[request[t].str] ELSE 0) \in Ids
      BY <1>0 DEF Found
    <3>. QED
      BY <2>0, <2>1, <3>1 DEF FindId, ReadStep, LockTypeOK
  <2>2. CASE ReadText(t)
    <3>1. strings[request[t].id + 1] \in Strings
      BY <1>0, <2>2 DEF ReadText, Ids
    <3>. QED
      BY <2>0, <2>2, <3>1 DEF ReadText, ReadStep, LockTypeOK
  <2>3. CASE TestString(t)
    BY <2>0, <2>3 DEF TestString, ReadStep, LockTypeOK, Found
  <2>4. CASE TestId(t)
    BY <2>0, <2>4 DEF TestId, ReadStep, LockTypeOK
  <2>. QED
    BY <1>7, <2>1, <2>2, <2>3, <2>4 DEF Look
<1>8. CASE UNCHANGED stringVars
  BY <1>8 DEF stringVars, LockTypeOK
<1>. QED
  BY <1>1, <1>2, <1>3, <1>4, <1>5, <1>6, <1>7, <1>8 DEF StringNext

LEMMA LockKept ==
  ASSUME IInv, [StringNext]_stringVars
  PROVE  LockInv'
<1>. USE DEF IInv, LockInv, Writing, Looking, lockVars, tables, results
<1>. USE NoThreadAssumption
<1>0. StringTypeOK /\ StringTypeOK'
  BY TypeKept
<1>1. ASSUME NEW t \in Threads, Call(t)  PROVE LockInv'
  <2>1. PICK r \in Intern!Requests : request' = [request EXCEPT ![t] = r]
    BY <1>1 DEF Call
  <2>2. /\ pc[t] = "idle" /\ pc'[t] = "static" /\ \A q \in Threads : q # t => pc'[q] = pc[q]
    BY <1>0, <1>1, OnlyOneMoves DEF Call
  <2>3. request'[t] # NoRequest /\ \A q \in Threads : q # t => request'[q] = request[q]
    BY <1>0, <2>1, RequestType DEF StringTypeOK
  <2>. QED
    BY <1>1, <2>2, <2>3 DEF Call
<1>2. ASSUME NEW t \in Threads, GetAllGlobalStrings(t)  PROVE LockInv'
  BY <1>0, <1>2, OnlyOneMoves DEF GetAllGlobalStrings
<1>3. ASSUME NEW t \in Threads, Write(t)  PROVE LockInv'
  <2>1. /\ pc[t] = "lock" /\ pc'[t] = "insert" /\ \A q \in Threads : q # t => pc'[q] = pc[q]
    BY <1>0, <1>3, OnlyOneMoves DEF Write
  <2>. QED
    BY <1>3, <2>1 DEF Write, WriteLock
<1>4. ASSUME NEW t \in Threads, Read(t)  PROVE LockInv'
  <2>1. /\ pc[t] = "lock" /\ pc'[t] = request[t].op /\ \A q \in Threads : q # t => pc'[q] = pc[q]
    BY <1>0, <1>4, OnlyOneMoves DEF Read
  <2>2. request[t].op \in Looking
    BY <1>0, <1>4, <2>1, RequestType DEF Read, StringTypeOK
  <2>3. readers' = readers \cup {t} /\ writer' = NoThread /\ writer = NoThread /\ request' = request
    BY <1>4 DEF Read, ReadLock
  <2>. QED
    BY <2>1, <2>2, <2>3
<1>5. ASSUME NEW t \in Threads, Leave(t)  PROVE LockInv'
  <2>1. /\ pc[t] = "leave" /\ pc'[t] = "idle" /\ \A q \in Threads : q # t => pc'[q] = pc[q]
    BY <1>0, <1>5, OnlyOneMoves DEF Leave
  <2>2. request'[t] = NoRequest /\ \A q \in Threads : q # t => request'[q] = request[q]
    BY <1>0, <1>5 DEF Leave, StringTypeOK
  <2>3. CASE request[t].op = "create"
    <3>1. writer = t /\ writer' = NoThread /\ readers' = readers
      BY <1>5, <2>3 DEF Leave, WriteUnlock
    <3>. QED
      BY <2>1, <2>2, <3>1
  <2>4. CASE request[t].op # "create"
    <3>1. t \in readers /\ writer' = writer /\ readers' = readers \ {t}
      BY <1>5, <2>4 DEF Leave, ReadUnlock
    <3>. QED
      BY <2>1, <2>2, <2>4, <3>1
  <2>. QED
    BY <2>3, <2>4
<1>6. ASSUME NEW t \in Threads, Create(t)  PROVE LockInv'
  <2>1. /\ \A q \in Threads : q # t => pc'[q] = pc[q]
        /\ pc[t] \in Writing /\ pc'[t] \in {"push", "count", "leave"}
        /\ UNCHANGED <<readers, writer, request>>
    BY <1>0, <1>6, OnlyOneMoves DEF Create, InsertFinds, InsertAdds, PushString, CountId
  <2>. QED
    BY <2>1
<1>7. ASSUME NEW t \in Threads, Look(t)  PROVE LockInv'
  <2>1. /\ \A q \in Threads : q # t => pc'[q] = pc[q]
        /\ pc[t] \in Looking /\ pc'[t] = "leave"
        /\ UNCHANGED <<readers, writer, request>>
    BY <1>0, <1>7, OnlyOneMoves DEF Look, FindId, ReadText, TestString, TestId, ReadStep
  <2>. QED
    BY <2>1
<1>8. CASE UNCHANGED stringVars
  BY <1>8 DEF stringVars
<1>. QED
  BY <1>1, <1>2, <1>3, <1>4, <1>5, <1>6, <1>7, <1>8 DEF StringNext

-----------------------------------------------------------------------------
\* A step that leaves the tables, and who is in the middle of changing them.
LEMMA MidFrame ==
  ASSUME MidInv, UNCHANGED tables,
         \A t \in Threads : /\ pc'[t] = "push" <=> pc[t] = "push"
                            /\ pc'[t] = "count" <=> pc[t] = "count"
                            /\ pc[t] = "push" => request'[t] = request[t]
  PROVE  MidInv'
  BY DEF MidInv, tables

\* One thread writes.
LEMMA LooksReads ==
  ASSUME LockInv, NEW t \in Threads, pc[t] \in Looking
  PROVE  t \in readers
<1>1. t \in readers <=> pc[t] \in Looking \/ (pc[t] = "leave" /\ request[t].op # "create")
  BY DEF LockInv
<1>. QED
  BY <1>1

LEMMA OneWrites ==
  ASSUME LockInv, NEW t \in Threads, pc[t] \in Writing
  PROVE  \A q \in Threads : q # t => pc[q] \notin Writing
  BY DEF LockInv

LEMMA MidKept ==
  ASSUME IInv, [StringNext]_stringVars
  PROVE  MidInv'
<1>. USE DEF IInv, lockVars, tables, results
<1>0. StringTypeOK /\ StringTypeOK' /\ LockInv /\ Len(strings) < IdCount /\ IdCount \in Nat
  BY TypeKept, Bounded, IdAssumption
<1>1. ASSUME NEW t \in Threads, Call(t)  PROVE MidInv'
  <2>1. PICK r \in Intern!Requests : request' = [request EXCEPT ![t] = r]
    BY <1>1 DEF Call
  <2>2. pc[t] = "idle" /\ pc'[t] = "static" /\ \A q \in Threads : q # t => pc'[q] = pc[q]
    BY <1>0, <1>1, OnlyOneMoves DEF Call
  <2>3. \A q \in Threads : q # t => request'[q] = request[q]
    BY <1>0, <2>1 DEF StringTypeOK
  <2>. QED
    BY <1>1, <2>2, <2>3, MidFrame DEF Call
<1>2. ASSUME NEW t \in Threads, GetAllGlobalStrings(t)  PROVE MidInv'
  <2>1. pc[t] = "static" /\ pc'[t] = "lock" /\ \A q \in Threads : q # t => pc'[q] = pc[q]
    BY <1>0, <1>2, OnlyOneMoves DEF GetAllGlobalStrings
  <2>2. request' = request
    BY <1>2 DEF GetAllGlobalStrings
  <2>3. CASE built
    BY <1>2, <2>1, <2>2, <2>3, MidFrame DEF GetAllGlobalStrings
  <2>4. CASE ~built
    <3>1. /\ strings' = <<Empty>> /\ nextId' = 1 /\ ids'[Empty] = 0
          /\ \A s \in Strings : s # Empty => ids'[s] = NoId
      BY <1>0, <1>2, <2>4, StringsAssumption DEF GetAllGlobalStrings, BuiltInv, StringTypeOK
    <3>2. \A q \in Threads : pc'[q] \notin Writing
      BY <2>1, <2>4 DEF BuiltInv, Writing
    <3>. QED
      BY <3>1, <3>2 DEF MidInv, Writing
  <2>. QED
    BY <2>3, <2>4
<1>3. ASSUME NEW t \in Threads, Write(t) \/ Read(t)  PROVE MidInv'
  <2>1. /\ pc[t] = "lock" /\ pc'[t] \in {"insert"} \cup {request[t].op}
        /\ \A q \in Threads : q # t => pc'[q] = pc[q]
    BY <1>0, <1>3, OnlyOneMoves DEF Write, Read
  <2>2. request[t].op \notin {"push", "count"}
    BY <1>0, RequestType DEF StringTypeOK
  <2>. QED
    BY <1>3, <2>1, <2>2, MidFrame DEF Write, Read
<1>4. ASSUME NEW t \in Threads, Leave(t)  PROVE MidInv'
  <2>1. pc[t] = "leave" /\ pc'[t] = "idle" /\ \A q \in Threads : q # t => pc'[q] = pc[q]
    BY <1>0, <1>4, OnlyOneMoves DEF Leave
  <2>2. \A q \in Threads : q # t => request'[q] = request[q]
    BY <1>0, <1>4 DEF Leave, StringTypeOK
  <2>. QED
    BY <1>4, <2>1, <2>2, MidFrame DEF Leave
<1>5. ASSUME NEW t \in Threads, Look(t)  PROVE MidInv'
  <2>1. /\ pc[t] \in Looking /\ pc'[t] = "leave" /\ \A q \in Threads : q # t => pc'[q] = pc[q]
        /\ UNCHANGED <<tables, request>>
    BY <1>0, <1>5, OnlyOneMoves DEF Look, FindId, ReadText, TestString, TestId, ReadStep, Looking
  <2>. QED
    BY <2>1, MidFrame DEF Looking
<1>6. ASSUME NEW t \in Threads, InsertFinds(t)  PROVE MidInv'
  <2>1. pc[t] = "insert" /\ pc'[t] = "leave" /\ \A q \in Threads : q # t => pc'[q] = pc[q]
    BY <1>0, <1>6, OnlyOneMoves DEF InsertFinds
  <2>. QED
    BY <1>6, <2>1, MidFrame DEF InsertFinds
<1>7. ASSUME NEW t \in Threads, InsertAdds(t)  PROVE MidInv'
  <2> DEFINE s == request[t].str
  <2>1. pc[t] = "insert" /\ pc'[t] = "push" /\ \A q \in Threads : q # t => pc'[q] = pc[q]
    BY <1>0, <1>7, OnlyOneMoves DEF InsertAdds
  <2>2. \A q \in Threads : q # t => pc[q] \notin Writing
    BY <1>0, <2>1, OneWrites DEF Writing
  <2>3. s \in Strings /\ ids[s] = NoId
    BY <1>0, <1>7, RequestType DEF InsertAdds, Found, StringTypeOK
  <2>4. ids'[s] = nextId /\ \A x \in Strings : x # s => ids'[x] = ids[x]
    BY <1>0, <1>7, <2>3 DEF InsertAdds, StringTypeOK
  <2>5. UNCHANGED <<strings, nextId, request>> /\ nextId = Len(strings)
    BY <1>7, <2>1, <2>2 DEF InsertAdds, MidInv, Writing
  <2>6. \A i \in DOMAIN strings : strings[i] # s /\ strings[i] \in Strings
    BY <1>0, <2>3 DEF MidInv, StringTypeOK, NoId
  <2>. QED
    BY <2>1, <2>2, <2>3, <2>4, <2>5, <2>6 DEF MidInv, Writing
<1>8. ASSUME NEW t \in Threads, PushString(t)  PROVE MidInv'
  <2> DEFINE s == request[t].str
  <2>1. pc[t] = "push" /\ pc'[t] = "count" /\ \A q \in Threads : q # t => pc'[q] = pc[q]
    BY <1>0, <1>8, OnlyOneMoves DEF PushString
  <2>2. \A q \in Threads : q # t => pc[q] \notin Writing
    BY <1>0, <2>1, OneWrites DEF Writing
  <2>3. s \in Strings /\ ids[s] = nextId /\ nextId = Len(strings)
    BY <1>0, <2>1, RequestType DEF MidInv, StringTypeOK
  <2>4. UNCHANGED <<ids, nextId, request>> /\ strings' = Append(strings, s)
    BY <1>8 DEF PushString
  <2>5. /\ Len(strings') = Len(strings) + 1 /\ DOMAIN strings' = 1 .. Len(strings) + 1
        /\ DOMAIN strings = 1 .. Len(strings) /\ Len(strings) \in Nat
        /\ strings'[Len(strings) + 1] = s
        /\ \A i \in DOMAIN strings : strings'[i] = strings[i]
    BY <1>0, <2>3, <2>4 DEF StringTypeOK
  <2>6. \A i \in DOMAIN strings' : ids'[strings'[i]] = i - 1
    BY <2>3, <2>4, <2>5 DEF MidInv
  <2>7. ASSUME NEW x \in Strings, ids[x] # NoId
        PROVE  ids[x] + 1 \in DOMAIN strings' /\ strings'[ids[x] + 1] = x
    BY <2>1, <2>2, <2>3, <2>5, <2>7 DEF MidInv, Writing
  <2>8. \A q \in Threads : pc'[q] # "push" /\ (pc'[q] = "count" <=> q = t)
    BY <2>1, <2>2 DEF Writing
  <2>. QED
    BY <2>3, <2>4, <2>5, <2>6, <2>7, <2>8 DEF MidInv
<1>9. ASSUME NEW t \in Threads, CountId(t)  PROVE MidInv'
  <2>1. pc[t] = "count" /\ pc'[t] = "leave" /\ \A q \in Threads : q # t => pc'[q] = pc[q]
    BY <1>0, <1>9, OnlyOneMoves DEF CountId
  <2>2. \A q \in Threads : q # t => pc[q] \notin Writing
    BY <1>0, <2>1, OneWrites DEF Writing
  <2>3. nextId + 1 = Len(strings) /\ Len(strings) \in Nat
    BY <1>0, <2>1 DEF MidInv, StringTypeOK
  <2>4. UNCHANGED <<ids, strings, request>> /\ nextId' = (nextId + 1) % IdCount
    BY <1>9 DEF CountId
  <2>5. nextId' = Len(strings)
    BY <1>0, <2>3, <2>4
  <2>. QED
    BY <2>1, <2>2, <2>4, <2>5 DEF MidInv, Writing
<1>10. CASE UNCHANGED stringVars
  BY <1>10, MidFrame DEF stringVars
<1>. QED
  BY <1>1, <1>2, <1>3, <1>4, <1>5, <1>6, <1>7, <1>8, <1>9, <1>10 DEF StringNext, Create

LEMMA BuiltKept ==
  ASSUME IInv, [StringNext]_stringVars
  PROVE  BuiltInv'
<1>. USE DEF IInv, lockVars, tables, results
<1>0. StringTypeOK /\ StringTypeOK' /\ LockInv /\ Len(strings) < IdCount /\ IdCount \in Nat
      /\ Len(strings) \in Nat /\ DOMAIN strings = 1 .. Len(strings)
  BY TypeKept, Bounded, IdAssumption DEF StringTypeOK
<1>1. ASSUME NEW t \in Threads, Call(t)  PROVE BuiltInv'
  <2>1. PICK r \in Intern!Requests :
          /\ request' = [request EXCEPT ![t] = r]
          /\ r.op = "text" => \E q \in Threads : r.id = gstr[q]
    BY <1>1 DEF Call
  <2>2. pc[t] = "idle" /\ pc'[t] = "static" /\ \A q \in Threads : q # t => pc'[q] = pc[q]
    BY <1>0, <1>1, OnlyOneMoves DEF Call
  <2>3. request'[t] = r /\ \A q \in Threads : q # t => request'[q] = request[q]
    BY <1>0, <2>1 DEF StringTypeOK
  <2>. QED
    BY <1>1, <2>1, <2>2, <2>3 DEF Call, BuiltInv
<1>2. ASSUME NEW t \in Threads, GetAllGlobalStrings(t)  PROVE BuiltInv'
  <2>1. built' /\ request' = request /\ gstr' = gstr
    BY <1>2 DEF GetAllGlobalStrings
  <2>2. CASE built
    BY <1>2, <2>1, <2>2 DEF GetAllGlobalStrings, BuiltInv
  <2>3. CASE ~built
    <3>1. strings' = <<Empty>> /\ strings = <<>>
      BY <1>2, <2>3 DEF GetAllGlobalStrings, BuiltInv
    <3>2. Len(strings') = 1 /\ strings'[1] = Empty /\ Len(strings) = 0
      BY <3>1
    <3>3. \A q \in Threads : gstr[q] \in Nat /\ request[q].id \in Nat
      BY <1>0, RequestType DEF StringTypeOK, Ids
    <3>4. \A q \in Threads : gstr[q] = 0 \/ gstr[q] < 0
      BY <3>2 DEF BuiltInv
    <3>5. \A q \in Threads : request[q].op = "text" => request[q].id = 0 \/ request[q].id < 0
      BY <3>2 DEF BuiltInv
    <3>. QED
      BY <2>1, <3>2, <3>3, <3>4, <3>5 DEF BuiltInv
  <2>. QED
    BY <2>2, <2>3
<1>3. ASSUME NEW t \in Threads, Write(t) \/ Read(t)  PROVE BuiltInv'
  <2>1. pc[t] = "lock"
    BY <1>0, <1>3, OnlyOneMoves DEF Write, Read
  <2>. QED
    BY <1>3, <2>1 DEF Write, Read, BuiltInv
<1>4. ASSUME NEW t \in Threads, Leave(t)  PROVE BuiltInv'
  <2>1. pc[t] = "leave"
    BY <1>0, <1>4, OnlyOneMoves DEF Leave
  <2>2. request'[t] = NoRequest /\ \A q \in Threads : q # t => request'[q] = request[q]
    BY <1>0, <1>4 DEF Leave, StringTypeOK
  <2>3. NoRequest.op # "text"
    BY DEF NoRequest
  <2>. QED
    BY <1>4, <2>1, <2>2, <2>3 DEF Leave, BuiltInv
<1>5. ASSUME NEW t \in Threads, Look(t)  PROVE BuiltInv'
  <2>1. built /\ UNCHANGED <<built, tables, request>>
    BY <1>0, <1>5, OnlyOneMoves
    DEF Look, FindId, ReadText, TestString, TestId, ReadStep, BuiltInv
  <2>2. CASE gstr' = gstr
    BY <2>1, <2>2 DEF BuiltInv
  <2>3. CASE FindId(t)
    <3> DEFINE s == request[t].str
    <3>1. s \in Strings /\ pc[t] \in Looking
      BY <1>0, <2>3, RequestType, OnlyOneMoves DEF StringTypeOK, FindId, ReadStep, Looking
    <3>2. \A q \in Threads : pc[q] # "push"
      <4>1. t \in readers
        BY <1>0, <3>1, LooksReads
      <4>2. \A q \in Threads : pc[q] \in Writing => writer = q
        BY <1>0 DEF LockInv
      <4>3. writer = NoThread
        BY <1>0, <4>1 DEF LockInv
      <4>. QED
        BY <4>2, <4>3, NoThreadAssumption DEF Writing
    <3>3. ids[s] # NoId => ids[s] \in Ids /\ ids[s] + 1 \in DOMAIN strings
      BY <1>0, <3>1, <3>2 DEF MidInv, StringTypeOK
    <3>5. ids[s] # NoId => ids[s] < Len(strings)
      BY <1>0, <3>3 DEF Ids
    <3>4. \A q \in Threads : gstr'[q] = IF q = t THEN IF Found(s) THEN ids[s] ELSE 0 ELSE gstr[q]
      BY <1>0, <2>3 DEF FindId, Answer, StringTypeOK
    <3>. QED
      BY <2>1, <3>4, <3>5 DEF BuiltInv, Found
  <2>. QED
    BY <1>5, <2>2, <2>3 DEF Look, ReadText, TestString, TestId
<1>6. ASSUME NEW t \in Threads, InsertFinds(t)  PROVE BuiltInv'
  <2> DEFINE s == request[t].str
  <2>1. s \in Strings /\ pc[t] = "insert"
    BY <1>0, <1>6, RequestType, OnlyOneMoves DEF StringTypeOK, InsertFinds
  <2>2. \A q \in Threads : pc[q] # "push"
    BY <1>0, <2>1, OneWrites DEF Writing
  <2>5. ids[s] \in Ids /\ ids[s] + 1 \in DOMAIN strings
    BY <1>0, <1>6, <2>1, <2>2 DEF MidInv, StringTypeOK, InsertFinds, Found
  <2>3. ids[s] < Len(strings)
    BY <1>0, <2>5 DEF Ids
  <2>4. \A q \in Threads : gstr'[q] = IF q = t THEN ids[s] ELSE gstr[q]
    BY <1>0, <1>6 DEF InsertFinds, Answer, StringTypeOK
  <2>. QED
    BY <1>6, <2>1, <2>3, <2>4 DEF InsertFinds, BuiltInv
<1>7. ASSUME NEW t \in Threads, InsertAdds(t) \/ CountId(t)  PROVE BuiltInv'
  <2>1. built
    BY <1>0, <1>7, OnlyOneMoves DEF InsertAdds, CountId, BuiltInv
  <2>. QED
    BY <1>7, <2>1 DEF InsertAdds, CountId, BuiltInv
<1>8. ASSUME NEW t \in Threads, PushString(t)  PROVE BuiltInv'
  <2>1. pc[t] = "push" /\ built
    BY <1>0, <1>8, OnlyOneMoves DEF PushString, BuiltInv
  <2>2. request[t].str \in Strings /\ nextId = Len(strings)
    BY <1>0, <2>1, RequestType DEF MidInv, StringTypeOK
  <2>3. /\ Len(strings') = Len(strings) + 1 /\ strings'[1] = strings[1]
    BY <1>0, <1>8, <2>1, <2>2 DEF PushString, StringTypeOK, BuiltInv
  <2>4. \A q \in Threads : gstr'[q] = IF q = t THEN nextId ELSE gstr[q]
    BY <1>0, <1>8 DEF PushString, Answer, StringTypeOK
  <2>5. \A q \in Threads : gstr[q] \in Nat /\ request[q].id \in Nat
    BY <1>0, RequestType DEF StringTypeOK, Ids
  <2>6. UNCHANGED <<built, request>>
    BY <1>8 DEF PushString
  <2>7. \A q \in Threads : gstr'[q] = 0 \/ gstr'[q] < Len(strings')
    BY <1>0, <2>2, <2>3, <2>4, <2>5 DEF BuiltInv
  <2>8. \A q \in Threads : request[q].op = "text" => request[q].id = 0 \/ request[q].id < Len(strings')
    BY <1>0, <2>3, <2>5 DEF BuiltInv
  <2>9. Len(strings') > 0 /\ strings'[1] = Empty
    BY <1>0, <2>1, <2>3 DEF BuiltInv
  <2>. QED
    BY <2>1, <2>6, <2>7, <2>8, <2>9 DEF BuiltInv
<1>9. CASE UNCHANGED stringVars
  BY <1>9 DEF stringVars, BuiltInv
<1>. QED
  BY <1>1, <1>2, <1>3, <1>4, <1>5, <1>6, <1>7, <1>8, <1>9 DEF StringNext, Create

-----------------------------------------------------------------------------
LEMMA Invariance == StringSpec => []IInv
<1>1. IInv /\ [StringNext]_stringVars => IInv'
  BY TypeKept, LockKept, MidKept, BuiltKept DEF IInv
<1>. QED
  BY <1>1, InitInv, PTL DEF StringSpec

\* Every variable keeps its type; ids in particular stay below IdCount.
THEOREM TypeCorrect == StringSpec => []StringTypeOK
<1>1. IInv => StringTypeOK
  BY DEF IInv
<1>. QED
  BY <1>1, Invariance, PTL

\* What a reader sees: the map and the array of strings are inverse to each
\* other, and the next id is the length of the array (lines 15 to 54).
THEOREM TablesAgree == StringSpec => []TablesInverse
<1>1. IInv => TablesInverse
  <2>. SUFFICES ASSUME IInv, writer = NoThread PROVE TablesInverse
    BY DEF TablesInverse
  <2>. USE DEF IInv
  <2>1. \A t \in Threads : pc[t] \notin Writing
    BY NoThreadAssumption DEF LockInv
  <2>2. nextId = Len(strings)
    BY <2>1 DEF MidInv, Writing
  <2>3. ASSUME NEW s \in Strings, NEW i \in Ids, ids[s] = i
        PROVE  i + 1 \in DOMAIN strings /\ strings[i + 1] = s
    BY <2>1, <2>3, IdAssumption DEF MidInv, Writing, Ids, NoId
  <2>4. ASSUME NEW s \in Strings, NEW i \in Ids, i + 1 \in DOMAIN strings, strings[i + 1] = s
        PROVE  ids[s] = i
    <3>1. ids[strings[i + 1]] = (i + 1) - 1 /\ i \in Int
      BY <2>4 DEF MidInv, Ids
    <3>. QED
      BY <2>4, <3>1
  <2>. QED
    BY <2>2, <2>3, <2>4 DEF TablesInverse
<1>. QED
  BY <1>1, Invariance, PTL

-----------------------------------------------------------------------------
(* The refinement *)

Asked == [t \in Threads |-> IF pc[t] \in {"count", "leave"} THEN NoRequest ELSE request[t]]
Table == IF built THEN strings ELSE <<Empty>>

\* With nobody between insert and push, the map knows what the table knows.
LEMMA MapIsTable ==
  ASSUME IInv, built, NEW s \in Strings, \A q \in Threads : pc[q] # "push"
  PROVE  /\ Intern!Known(s) <=> Found(s)
         /\ Found(s) => Intern!IdOf(s) = ids[s]
<1>. USE DEF IInv
<1>1. /\ DOMAIN strings = 1 .. Len(strings)
      /\ \A i \in DOMAIN strings : strings[i] \in Strings /\ i - 1 # NoId
  BY Bounded, IdAssumption DEF StringTypeOK, NoId
<1>2. ASSUME Found(s)  PROVE ids[s] \in Int /\ ids[s] + 1 \in DOMAIN strings /\ strings[ids[s] + 1] = s
  BY <1>2, IdAssumption DEF Found, MidInv, StringTypeOK, Ids
<1>3. ASSUME NEW i \in DOMAIN strings, strings[i] = s  PROVE Found(s) /\ i = ids[s] + 1
  <2>1. ids[s] = i - 1
    BY <1>3 DEF MidInv
  <2>. QED
    BY <1>1, <2>1 DEF Found
<1>4. Intern!Known(s) <=> \E i \in DOMAIN strings : strings[i] = s
  BY DEF Intern!Known
<1>5. Intern!IdOf(s) = (CHOOSE i \in DOMAIN strings : strings[i] = s) - 1
  BY DEF Intern!IdOf
<1>6. ASSUME Found(s)  PROVE (CHOOSE i \in DOMAIN strings : strings[i] = s) = ids[s] + 1
  BY <1>2, <1>3, <1>6
<1>. QED
  BY <1>2, <1>3, <1>4, <1>5, <1>6

\* A reader has the tables to itself, but for other readers.
LEMMA ReaderAlone ==
  ASSUME LockInv, NEW t \in Threads, pc[t] \in Looking
  PROVE  \A q \in Threads : pc[q] \notin Writing
<1>1. t \in readers
  BY LooksReads
<1>2. \A q \in Threads : pc[q] \in Writing => writer = q
  BY DEF LockInv
<1>3. writer = NoThread
  BY <1>1 DEF LockInv
<1>. QED
  BY <1>2, <1>3, NoThreadAssumption

\* How a step of one thread changes what it has asked.
LEMMA AskedOf ==
  ASSUME StringTypeOK, StringTypeOK', NEW t \in Threads, NEW from, NEW to, At(t, from, to)
  PROVE  /\ request' = request =>
              Asked' = [Asked EXCEPT ![t] = IF to \in {"count", "leave"} THEN NoRequest ELSE request[t]]
         /\ from \notin {"count", "leave"} => Asked[t] = request[t]
<1>1. /\ pc[t] = from /\ pc'[t] = to
      /\ \A q \in Threads : q # t => pc'[q] = pc[q]
  BY OnlyOneMoves
<1>2. \A q \in Threads :
        Asked[q] = IF pc[q] \in {"count", "leave"} THEN NoRequest ELSE request[q]
  BY DEF Asked
<1>3. \A q \in Threads :
        Asked'[q] = IF pc'[q] \in {"count", "leave"} THEN NoRequest ELSE request'[q]
  BY DEF Asked
<1>4. DOMAIN Asked = Threads /\ Asked' = [q \in Threads |-> Asked'[q]]
  BY DEF Asked
<1>5. ASSUME request' = request
      PROVE  Asked' = [Asked EXCEPT ![t] = IF to \in {"count", "leave"} THEN NoRequest ELSE request[t]]
  <2> DEFINE v == IF to \in {"count", "leave"} THEN NoRequest ELSE request[t]
  <2>1. Asked'[t] = v
    BY <1>1, <1>3, <1>5
  <2>2. \A q \in Threads : q # t => Asked'[q] = Asked[q]
    BY <1>1, <1>2, <1>3, <1>5
  <2>3. [Asked EXCEPT ![t] = v] = [q \in Threads |-> IF q = t THEN v ELSE Asked[q]]
    BY <1>4
  <2>. HIDE DEF v
  <2>4. \A q \in Threads : Asked'[q] = IF q = t THEN v ELSE Asked[q]
    BY <2>1, <2>2
  <2>5. Asked' = [Asked EXCEPT ![t] = v]
    BY <1>4, <2>3, <2>4
  <2>. QED
    BY <2>5 DEF v
<1>. QED
  BY <1>1, <1>2, <1>5

LEMMA StepImplements ==
  ASSUME IInv, IInv', [StringNext]_stringVars
  PROVE  [Intern!Next]_(Intern!internVars)
<1>. USE DEF IInv, lockVars, tables, results
<1>0. StringTypeOK /\ StringTypeOK' /\ LockInv
  OBVIOUS
<1>a. Asked \in [Threads -> Intern!Requests \cup {NoRequest}] /\ Intern!Nothing = NoRequest
  BY <1>0 DEF Asked, StringTypeOK, Intern!Nothing, NoRequest
<1>b. SUFFICES \/ \E t \in Threads :
                   \/ \E r \in Intern!Requests : Intern!Ask(t, r)
                   \/ Intern!Create(t) \/ Intern!Find(t) \/ Intern!Text(t)
                   \/ Intern!Exists(t) \/ Intern!Valid(t) \/ Intern!Forget(t)
               \/ UNCHANGED <<Table, Asked, gstr, text, valid>>
  BY DEF Intern!Next, Intern!internVars, Table, Asked
<1>1. ASSUME NEW t \in Threads, Call(t)
      PROVE  \E r \in Intern!Requests : Intern!Ask(t, r)
  <2>1. PICK r \in Intern!Requests : request' = [request EXCEPT ![t] = r]
    BY <1>1 DEF Call
  <2>2. pc[t] = "idle" /\ pc'[t] = "static" /\ \A q \in Threads : q # t => pc'[q] = pc[q]
    BY <1>0, <1>1, OnlyOneMoves DEF Call
  <2>3. Asked[t] = NoRequest /\ Asked' = [Asked EXCEPT ![t] = r]
    BY <1>0, <2>1, <2>2 DEF Asked, LockInv, StringTypeOK
  <2>. QED
    BY <1>1, <1>a, <2>3 DEF Call, Intern!Ask, Asked
<1>2. ASSUME NEW t \in Threads, GetAllGlobalStrings(t)
      PROVE  UNCHANGED <<Table, Asked, gstr, text, valid>>
  <2>1. pc[t] = "static" /\ pc'[t] = "lock" /\ \A q \in Threads : q # t => pc'[q] = pc[q]
    BY <1>0, <1>2, OnlyOneMoves DEF GetAllGlobalStrings
  <2>2. Asked' = Asked
    BY <1>2, <2>1 DEF Asked, GetAllGlobalStrings
  <2>3. Table' = Table
    BY <1>2 DEF Table, GetAllGlobalStrings
  <2>. QED
    BY <1>2, <2>2, <2>3 DEF GetAllGlobalStrings
<1>3. ASSUME NEW t \in Threads, Write(t) \/ Read(t)
      PROVE  UNCHANGED <<Table, Asked, gstr, text, valid>>
  <2>1. /\ pc[t] = "lock" /\ pc'[t] \in {"insert"} \cup {request[t].op}
        /\ \A q \in Threads : q # t => pc'[q] = pc[q]
    BY <1>0, <1>3, OnlyOneMoves DEF Write, Read
  <2>2. request[t].op \notin {"leave", "count"}
    BY <1>0, RequestType DEF StringTypeOK
  <2>3. Asked' = Asked
    BY <1>3, <2>1, <2>2 DEF Asked, Write, Read
  <2>. QED
    BY <1>3, <2>3 DEF Write, Read, Table
<1>4. ASSUME NEW t \in Threads, Leave(t)
      PROVE  Intern!Forget(t)
  <2>1. pc[t] = "leave" /\ pc'[t] = "idle" /\ \A q \in Threads : q # t => pc'[q] = pc[q]
    BY <1>0, <1>4, OnlyOneMoves DEF Leave
  <2>2. request'[t] = NoRequest /\ \A q \in Threads : q # t => request'[q] = request[q]
    BY <1>0, <1>4 DEF Leave, StringTypeOK
  <2>3. Asked' = Asked /\ Asked[t] = NoRequest
    BY <2>1, <2>2 DEF Asked
  <2>. QED
    BY <1>4, <1>a, <2>3 DEF Leave, Intern!Forget, Asked
<1>5. ASSUME NEW t \in Threads, InsertFinds(t)
      PROVE  Intern!Create(t)
  <2> DEFINE s == request[t].str
  <2>1. pc[t] = "insert" /\ s \in Strings /\ built
    BY <1>0, <1>5, OnlyOneMoves, RequestType DEF InsertFinds, StringTypeOK, BuiltInv
  <2>2. \A q \in Threads : pc[q] # "push"
    BY <1>0, <2>1, OneWrites DEF Writing
  <2>3. Intern!Known(s) /\ Intern!IdOf(s) = ids[s]
    BY <1>5, <2>1, <2>2, MapIsTable DEF InsertFinds
  <2>4. Asked' = [Asked EXCEPT ![t] = NoRequest] /\ Asked[t] = request[t]
    BY <1>0, <1>5, AskedOf DEF InsertFinds
  <2>5. request[t].op = "create"
    BY <1>0, <2>1 DEF LockInv, Writing
  <2>. QED
    BY <1>5, <1>a, <2>1, <2>3, <2>4, <2>5
    DEF InsertFinds, Answer, Intern!Create, Intern!Answered, Asked
<1>6. ASSUME NEW t \in Threads, InsertAdds(t)
      PROVE  UNCHANGED <<Table, Asked, gstr, text, valid>>
  <2>1. Asked' = [Asked EXCEPT ![t] = request[t]] /\ Asked[t] = request[t]
    BY <1>0, <1>6, AskedOf DEF InsertAdds
  <2>2. Asked' = Asked
    BY <2>1, <1>a
  <2>. QED
    BY <1>6, <2>2 DEF InsertAdds, Table
<1>7. ASSUME NEW t \in Threads, PushString(t)
      PROVE  Intern!Create(t)
  <2> DEFINE s == request[t].str
  <2>1. pc[t] = "push" /\ s \in Strings /\ built
    BY <1>0, <1>7, OnlyOneMoves, RequestType DEF PushString, StringTypeOK, BuiltInv
  <2>2. nextId = Len(strings) /\ \A i \in DOMAIN strings : strings[i] # s
    BY <2>1 DEF MidInv
  <2>3. ~Intern!Known(s)
    BY <2>1, <2>2 DEF Intern!Known
  <2>4. Asked' = [Asked EXCEPT ![t] = NoRequest] /\ Asked[t] = request[t]
    BY <1>0, <1>7, AskedOf DEF PushString
  <2>5. request[t].op = "create"
    BY <1>0, <2>1 DEF LockInv, Writing
  <2>. QED
    BY <1>7, <1>a, <2>1, <2>2, <2>3, <2>4, <2>5
    DEF PushString, Answer, Intern!Create, Intern!Answered, Asked
<1>8. ASSUME NEW t \in Threads, CountId(t)
      PROVE  UNCHANGED <<Table, Asked, gstr, text, valid>>
  <2>1. pc[t] = "count" /\ pc'[t] = "leave" /\ \A q \in Threads : q # t => pc'[q] = pc[q]
    BY <1>0, <1>8, OnlyOneMoves DEF CountId
  <2>2. Asked' = Asked
    BY <1>8, <2>1 DEF CountId, Asked
  <2>. QED
    BY <1>8, <2>2 DEF CountId, Table
<1>9. ASSUME NEW t \in Threads, Look(t)
      PROVE  Intern!Find(t) \/ Intern!Text(t) \/ Intern!Exists(t) \/ Intern!Valid(t)
  <2> DEFINE s == request[t].str
  <2>1. pc[t] \in Looking /\ s \in Strings /\ built /\ built' = built
    BY <1>0, <1>9, OnlyOneMoves, RequestType
    DEF Look, FindId, ReadText, TestString, TestId, ReadStep, StringTypeOK, BuiltInv, Looking
  <2>1a. \A from, to : At(t, from, to) => pc[t] = from
    BY DEF At
  <2>2. \A q \in Threads : pc[q] # "push"
    BY <1>0, <2>1, ReaderAlone DEF Writing
  <2>3. (Intern!Known(s) <=> Found(s)) /\ (Found(s) => Intern!IdOf(s) = ids[s])
    BY <2>1, <2>2, MapIsTable
  <2>4. Asked' = [Asked EXCEPT ![t] = NoRequest] /\ Asked[t] = request[t] /\ request[t].op = pc[t]
    <3>1. \A op \in Looking : At(t, op, "leave") /\ request' = request =>
            Asked' = [Asked EXCEPT ![t] = NoRequest] /\ Asked[t] = request[t]
      BY <1>0, AskedOf DEF Looking
    <3>2. \E op \in Looking : At(t, op, "leave") /\ request' = request
      BY <1>9 DEF Look, FindId, ReadText, TestString, TestId, ReadStep, Looking
    <3>. QED
      BY <1>0, <2>1, <3>1, <3>2 DEF LockInv
  <2>5. CASE FindId(t)
    <3>1. request[t].op = "find"
      BY <2>1a, <2>4, <2>5 DEF FindId, ReadStep
    <3>2. Intern!Answered(t, "find")
      BY <1>a, <2>4, <3>1 DEF Intern!Answered, Asked
    <3>3. gstr' = [gstr EXCEPT ![t] = IF Intern!Known(s) THEN Intern!IdOf(s) ELSE 0]
      BY <2>3, <2>5 DEF FindId, Answer
    <3>4. gstr' = [gstr EXCEPT ![t] =
                     IF Intern!Known(Asked[t].str) THEN Intern!IdOf(Asked[t].str) ELSE 0]
      BY <2>4, <3>3
    <3>5. UNCHANGED <<text, valid>> /\ Table' = Table
      BY <2>5 DEF FindId, ReadStep, Table
    <3>6. Intern!Find(t)
      BY <3>2, <3>4, <3>5 DEF Intern!Find, Asked, Table
    <3>. QED
      BY <3>6
  <2>6. CASE ReadText(t)
    <3>1. request[t].op = "text"
      BY <2>1a, <2>4, <2>6 DEF ReadText, ReadStep
    <3>2. Intern!Answered(t, "text")
      BY <1>a, <2>4, <3>1 DEF Intern!Answered, Asked
    <3>3. Asked[t].id = request[t].id /\ built
      BY <2>1, <2>4
    <3>4. Asked[t].id < Len(Table) /\ text' = [text EXCEPT ![t] = Table[Asked[t].id + 1]]
      BY <2>6, <3>3 DEF ReadText, Answer, Table
    <3>5. UNCHANGED <<gstr, valid>> /\ Table' = Table
      BY <2>6 DEF ReadText, ReadStep, Table
    <3>6. Intern!Text(t)
      BY <3>2, <3>4, <3>5 DEF Intern!Text, Asked, Table
    <3>. QED
      BY <3>6
  <2>7. CASE TestString(t)
    <3>1. request[t].op = "exists"
      BY <2>1a, <2>4, <2>7 DEF TestString, ReadStep
    <3>2. Intern!Answered(t, "exists")
      BY <1>a, <2>4, <3>1 DEF Intern!Answered, Asked
    <3>3. Intern!Known(s) = Found(s)
      BY <2>3, Zenon DEF Intern!Known, Found
    <3>4. valid' = [valid EXCEPT ![t] = Intern!Known(Asked[t].str)]
      BY <2>4, <2>7, <3>3 DEF TestString, Answer
    <3>5. UNCHANGED <<gstr, text>> /\ Table' = Table
      BY <2>7 DEF TestString, ReadStep, Table
    <3>6. Intern!Exists(t)
      BY <3>2, <3>4, <3>5 DEF Intern!Exists, Asked, Table
    <3>. QED
      BY <3>6
  <2>8. CASE TestId(t)
    <3>1. request[t].op = "valid"
      BY <2>1a, <2>4, <2>8 DEF TestId, ReadStep
    <3>2. Intern!Answered(t, "valid")
      BY <1>a, <2>4, <3>1 DEF Intern!Answered, Asked
    <3>3. Asked[t].id = request[t].id /\ built
      BY <2>1, <2>4
    <3>4. valid' = [valid EXCEPT ![t] = Asked[t].id < Len(Table)]
      BY <2>8, <3>3 DEF TestId, Answer, Table
    <3>5. UNCHANGED <<gstr, text>> /\ Table' = Table
      BY <2>8 DEF TestId, ReadStep, Table
    <3>6. Intern!Valid(t)
      BY <3>2, <3>4, <3>5 DEF Intern!Valid, Asked, Table
    <3>. QED
      BY <3>6
  <2>. QED
    BY <1>9, <2>5, <2>6, <2>7, <2>8 DEF Look
<1>10. CASE UNCHANGED stringVars
  BY <1>10 DEF stringVars, Table, Asked
<1>. QED
  BY <1>1, <1>2, <1>3, <1>4, <1>5, <1>6, <1>7, <1>8, <1>9, <1>10 DEF StringNext, Create

\* GlobalString implements InternTable: each call is one step on one table.
THEOREM ImplementsIntern == StringSpec => InternSpec
<1>1. StringInit => Intern!Init
  BY DEF StringInit, Intern!Init, Intern!Nothing, NoRequest
<1>2. IInv /\ IInv' /\ [StringNext]_stringVars => [Intern!Next]_(Intern!internVars)
  BY StepImplements
<1>. QED
  BY <1>1, <1>2, Invariance, PTL DEF StringSpec, Intern!Spec, InternSpec
=============================================================================
