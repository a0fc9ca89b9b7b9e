---------------------------- MODULE GlobalString ----------------------------
(***************************************************************************)
(* gk::GlobalString (string/global_string.cpp): strings interned in two       *)
(* tables behind one RwLock, used by any thread.                            *)
(*                                                                         *)
(* The two tables are what HashMap and ArrayList promise of ids and strings *)
(* (a map, a sequence).  What create does to them under the write lock is   *)
(* three steps, so that a reader that got in between would see it.  The     *)
(* copying and the moving form of create differ in who owns the argument    *)
(* only, and are one.                                                       *)
(***************************************************************************)
EXTENDS Integers, Sequences, FiniteSets, RwLock

CONSTANTS
  Strings,
  Empty,         \* the empty string
  IdCount        \* ids are below this: 2^32 in the code

ASSUME StringsAssumption == IsFiniteSet(Strings) /\ Empty \in Strings
\* Fewer strings than ids: the code does not test for wrap-around.
ASSUME IdAssumption == IdCount \in Nat /\ Cardinality(Strings) < IdCount

Ids == 0 .. IdCount - 1
NoId == IdCount  \* "not in the map"

VARIABLES
  built,         \* has the function-local static been initialised?
  ids, strings, nextId,      \* the GlobalStringContainers
  pc, request,   \* of each thread: where it is in which call
  gstr, text, valid          \* of each thread: its GlobalString, and what it was told

tables  == <<ids, strings, nextId>>
results == <<gstr, text, valid>>
stringVars == <<lockVars, built, tables, pc, request, results>>

NoRequest == [op |-> "nothing", str |-> Empty, id |-> 0]

\* A thread whose request was answered is on its way out.
Intern == INSTANCE InternTable WITH
  table <- IF built THEN strings ELSE <<Empty>>,
  asked <- [t \in Threads |-> IF pc[t] \in {"count", "leave"} THEN NoRequest ELSE request[t]]

StringInit ==
  /\ LockInit
  /\ built = FALSE
  /\ ids = [s \in Strings |-> NoId] /\ strings = <<>> /\ nextId = 0
  /\ pc = [t \in Threads |-> "idle"]
  /\ request = [t \in Threads |-> NoRequest]
  /\ gstr = [t \in Threads |-> 0]
  /\ text = [t \in Threads |-> Empty]
  /\ valid = [t \in Threads |-> FALSE]

-----------------------------------------------------------------------------
(* The way into the tables and out *)

At(t, from, to) == pc[t] = from /\ pc' = [pc EXCEPT ![t] = to]

\* A client calls create, createIfExists, doesStringExistInGlobalMap or
\* isStringIdValid, or toString of a GlobalString that some thread has.
Call(t) ==
  /\ At(t, "idle", "static")
  /\ \E r \in Intern!Requests :
       /\ r.op = "text" => \E q \in Threads : r.id = gstr[q]
       /\ request' = [request EXCEPT ![t] = r]
  /\ UNCHANGED <<lockVars, built, tables, results>>

\* getAllGlobalStrings: the first thread initialises the static, the others
\* wait until it has; the tables start with the empty string as id 0.
GetAllGlobalStrings(t) ==
  /\ At(t, "static", "lock")
  /\ built' = TRUE
  /\ IF built THEN UNCHANGED tables
     ELSE /\ ids' = [ids EXCEPT ![Empty] = 0]
          /\ strings' = <<Empty>>
          /\ nextId' = 1
  /\ UNCHANGED <<lockVars, request, results>>

\* create is the only call that locks for writing.
Write(t) ==
  /\ request[t].op = "create"
  /\ At(t, "lock", "insert")
  /\ WriteLock(t)
  /\ UNCHANGED <<built, tables, request, results>>

Read(t) ==
  /\ request[t].op # "create"
  /\ At(t, "lock", request[t].op)
  /\ ReadLock(t)
  /\ UNCHANGED <<built, tables, request, results>>

\* The guard's destructor and the return: the client keeps GlobalStrings,
\* and is done with a text or a test.
Leave(t) ==
  /\ At(t, "leave", "idle")
  /\ request' = [request EXCEPT ![t] = NoRequest]
  /\ IF request[t].op = "create" THEN WriteUnlock(t) ELSE ReadUnlock(t)
  /\ text' = [text EXCEPT ![t] = Empty]
  /\ valid' = [valid EXCEPT ![t] = FALSE]
  /\ UNCHANGED <<built, tables, gstr>>

-----------------------------------------------------------------------------
(* createNewEntryIfDoesntExist, under the write lock *)

Answer(f, t, v) == f' = [f EXCEPT ![t] = v]

Found(s) == ids[s] # NoId

\* ids.insert returns the value of a key it has.
InsertFinds(t) == LET s == request[t].str IN
  /\ At(t, "insert", "leave")
  /\ Found(s)
  /\ Answer(gstr, t, ids[s])
  /\ UNCHANGED <<lockVars, built, tables, request, text, valid>>

InsertAdds(t) == LET s == request[t].str IN
  /\ At(t, "insert", "push")
  /\ ~Found(s)
  /\ ids' = [ids EXCEPT ![s] = nextId]
  /\ UNCHANGED <<lockVars, built, strings, nextId, request, results>>

PushString(t) ==
  /\ At(t, "push", "count")
  /\ strings' = Append(strings, request[t].str)
  /\ Answer(gstr, t, nextId)
  /\ UNCHANGED <<lockVars, built, ids, nextId, request, text, valid>>

\* Mutant of CountId: a string that is added does not use up its id.
CountIdNot(t) ==
  /\ At(t, "count", "leave")
  /\ UNCHANGED <<lockVars, built, tables, request, results>>

CountId(t) ==
  /\ At(t, "count", "leave")
  /\ nextId' = (nextId + 1) % IdCount
  /\ UNCHANGED <<lockVars, built, ids, strings, request, results>>

-----------------------------------------------------------------------------
(* The reading calls *)

ReadStep(t, op) == At(t, op, "leave") /\ UNCHANGED <<lockVars, built, tables, request>>

\* Mutant of FindId: a string that is not there yet is waited for.
FindIdWaits(t) == LET s == request[t].str IN
  /\ pc[t] = "find"
  /\ IF Found(s) THEN pc' = [pc EXCEPT ![t] = "leave"] /\ Answer(gstr, t, ids[s])
     ELSE UNCHANGED <<pc, gstr>>
  /\ UNCHANGED <<lockVars, built, tables, request, text, valid>>

\* createFromExistingEntryIfExist
FindId(t) == LET s == request[t].str IN
  /\ ReadStep(t, "find")
  /\ Answer(gstr, t, IF Found(s) THEN ids[s] ELSE 0)
  /\ UNCHANGED <<text, valid>>

\* toStringFromGlobalContainers, whose check_message is not in every build.
ReadText(t) ==
  /\ ReadStep(t, "text")
  /\ request[t].id < Len(strings)
  /\ Answer(text, t, strings[request[t].id + 1])
  /\ UNCHANGED <<gstr, valid>>

TestString(t) ==
  /\ ReadStep(t, "exists")
  /\ Answer(valid, t, Found(request[t].str))
  /\ UNCHANGED <<gstr, text>>

TestId(t) ==
  /\ ReadStep(t, "valid")
  /\ Answer(valid, t, request[t].id < Len(strings))
  /\ UNCHANGED <<gstr, text>>

Create(t) == InsertFinds(t) \/ InsertAdds(t) \/ PushString(t) \/ CountId(t)
Look(t) == FindId(t) \/ ReadText(t) \/ TestString(t) \/ TestId(t)

StringNext == \E t \in Threads :
  \/ Call(t) \/ GetAllGlobalStrings(t) \/ Write(t) \/ Read(t) \/ Leave(t)
  \/ Create(t) \/ Look(t)

StringSpec == StringInit /\ [][StringNext]_stringVars

-----------------------------------------------------------------------------
(* Properties *)

StringTypeOK ==
  /\ LockTypeOK
  /\ built \in BOOLEAN
  /\ ids \in [Strings -> Ids \cup {NoId}] /\ strings \in Seq(Strings) /\ nextId \in Ids
  /\ pc \in [Threads -> {"idle", "static", "lock", "leave", "insert", "push", "count",
                         "find", "text", "exists", "valid"}]
  /\ request \in [Threads -> Intern!Requests \cup {NoRequest}]
  /\ gstr \in [Threads -> Ids] /\ text \in [Threads -> Strings] /\ valid \in [Threads -> BOOLEAN]

\* Whenever no thread writes, which is all a reader can see, the two tables
\* are inverse to each other and the next id is free (lines 15 to 19).
TablesInverse ==
  writer = NoThread =>
    /\ nextId = Len(strings)
    /\ \A s \in Strings, i \in Ids :
         ids[s] = i <=> i + 1 \in DOMAIN strings /\ strings[i + 1] = s

\* Every call is answered from one table that only grows, at one instant
\* between its start and its end (InternTable): equal strings have equal
\* ids, and an id means the same text for ever.
InternSpec == Intern!Spec

\* A call that has begun returns, whoever else keeps reading and writing.
CallsReturn == \A t \in Threads : pc[t] = "static" ~> pc[t] = "idle"
=============================================================================
