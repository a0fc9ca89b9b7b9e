----------------------------- MODULE JobFuture -----------------------------
(***************************************************************************)
(* gk::JobFuture and internal::WithinJobFuture (job/job_future.h): a job   *)
(* stores its result in a block it shares with the future its caller got.  *)
(*                                                                         *)
(* The module sits on what the other two promise: jobs are accepted, run   *)
(* and discarded as in JobExecutor, and the block lives while a SharedPtr  *)
(* owns it, as in SharedOwnership.  A future is used by one thread at a    *)
(* time; different futures may have different users.  The block is guarded *)
(* by a Mutex, and every access to it is an action of its own.             *)
(***************************************************************************)
EXTENDS Integers, Sequences, FiniteSets, Functions

CONSTANTS
  Jobs,
  Nobody,      \* "unlocked"
  MaxWaits     \* bound on the calls of wait on one future

ASSUME JobAssumption == IsFiniteSet(Jobs)
ASSUME NobodyAssumption == Nobody \notin {"job", "user"}
ASSUME BoundAssumption == MaxWaits \in Nat \ {0}

VARIABLES
  todo, done, dropped, closed,   \* the JobThread, as in JobExecutor
  at,          \* where the worker is in the job at the head of todo
  user,        \* where the user of each future is
  handles,     \* which SharedPtrs own each block: the job's, the user's
  alive,       \* is the block allocated?
  lock,        \* holder of the block's Mutex
  isReady, actualData,           \* the data behind the Mutex
  returned     \* history: what wait has returned

exec  == <<todo, done, dropped, closed>>
block == <<handles, alive>>
data  == <<lock, isReady, actualData>>
futureVars == <<exec, at, user, block, data, returned>>

Executor == INSTANCE JobExecutor

-----------------------------------------------------------------------------
(* Helpers *)

Running(j) == at # "idle" /\ todo # <<>> /\ Head(todo) = j

\* A step of the worker inside the job, and a step of a future's user.
Work(j, from, to) == Running(j) /\ at = from /\ at' = to /\ UNCHANGED <<exec, user, returned>>
Use(j, from, to) == user[j] = from /\ user' = [user EXCEPT ![j] = to] /\ UNCHANGED <<exec, at>>

With(f, j, v) == [f EXCEPT ![j] = v]

\* Each job in J loses its handle h; a block without handles is freed.
Release(J, h) ==
  /\ handles' = [j \in Jobs |-> IF j \in J THEN handles[j] \ {h} ELSE handles[j]]
  /\ alive' = [j \in Jobs |-> alive[j] /\ (j \in J => handles[j] # {h})]

FutureInit ==
  /\ Executor!Init
  /\ at = "idle"
  /\ user = [j \in Jobs |-> "unmade"]
  /\ handles = [j \in Jobs |-> {}]
  /\ alive = [j \in Jobs |-> FALSE]
  /\ lock = [j \in Jobs |-> Nobody]
  /\ isReady = [j \in Jobs |-> FALSE]
  /\ actualData = [j \in Jobs |-> "default"]
  /\ returned = [j \in Jobs |-> <<>>]

-----------------------------------------------------------------------------
(* runJob and the job *)

\* Mutant of RunJob: the caller's half is made after the job is queued.
RunJobThenShare(j) ==
  \/ /\ Executor!Accept(j)
     /\ handles' = With(handles, j, {"job"})
     /\ alive' = With(alive, j, TRUE)
     /\ user' = With(user, j, "sharing")
     /\ UNCHANGED <<at, data, returned>>
  \/ /\ handles' = With(handles, j, handles[j] \cup {"user"})
     /\ Use(j, "sharing", "held")
     /\ UNCHANGED <<alive, data, returned>>

\* runJob: both halves exist before the job is queued.
RunJob(j) ==
  /\ Executor!Accept(j)
  /\ handles' = With(handles, j, {"job", "user"})
  /\ alive' = With(alive, j, TRUE)
  /\ user' = With(user, j, "held")
  /\ UNCHANGED <<at, data, returned>>

\* invoke: the callable runs, with a result that is not yet in the block.
Invoke ==
  /\ at = "idle" /\ todo # <<>> /\ ~closed
  /\ at' = "body"
  /\ UNCHANGED <<exec, user, block, data, returned>>

\* The callable has returned; set reads the reference count.
SetTest(j) ==
  /\ Work(j, "body", IF Cardinality(handles[j]) < 2 THEN "end" ELSE "lock")
  /\ UNCHANGED <<block, data>>

SetLock(j) ==
  /\ lock[j] = Nobody
  /\ lock' = With(lock, j, "job")
  /\ Work(j, "lock", "data")
  /\ UNCHANGED <<block, isReady, actualData>>

SetData(j) ==
  /\ actualData' = With(actualData, j, "result")
  /\ Work(j, "data", "flag")
  /\ UNCHANGED <<block, lock, isReady>>

SetFlag(j) ==
  /\ isReady' = With(isReady, j, TRUE)
  /\ Work(j, "flag", "unlock")
  /\ UNCHANGED <<block, lock, actualData>>

\* Mutant of SetUnlock: the job gives its half up before the lock.
SetGivesUpFirst(j) == Work(j, "unlock", "end") /\ Release({j}, "job") /\ UNCHANGED data

SetUnlock(j) ==
  /\ lock' = With(lock, j, Nobody)
  /\ Work(j, "unlock", "end")
  /\ UNCHANGED <<block, isReady, actualData>>

\* The job is destroyed, and its half of the future with it.
Finish(j) ==
  /\ Running(j) /\ at = "end"
  /\ at' = "idle"
  /\ Executor!RunNext
  /\ Release({j}, "job")
  /\ UNCHANGED <<user, data, returned>>

\* The JobThread is destroyed, with the jobs it has not run.
Close ==
  /\ at = "idle"
  /\ Executor!Close
  /\ Release(Range(todo), "job")
  /\ UNCHANGED <<at, user, data, returned>>

-----------------------------------------------------------------------------
(* wait and the destructor of JobFuture *)

Wait(j) ==
  /\ Len(returned[j]) < MaxWaits
  /\ Use(j, "held", "try")
  /\ UNCHANGED <<block, data, returned>>

\* tryLock; when it fails, wait yields and tries again.
TryLock(j) ==
  /\ lock[j] = Nobody
  /\ lock' = With(lock, j, "user")
  /\ Use(j, "try", "test")
  /\ UNCHANGED <<block, isReady, actualData, returned>>

\* Mutant of NotReady: the guard of the lock outlives the loop's turn.
NotReadyKeepsLock(j) ==
  ~isReady[j] /\ Use(j, "test", "try") /\ UNCHANGED <<block, data, returned>>

\* Not ready: the lock is released, and wait tries again.
NotReady(j) ==
  /\ ~isReady[j]
  /\ lock' = With(lock, j, Nobody)
  /\ Use(j, "test", "try")
  /\ UNCHANGED <<block, isReady, actualData, returned>>

TakeData(j) ==
  /\ returned' = With(returned, j, Append(returned[j], actualData[j]))
  /\ actualData' = With(actualData, j, "moved")
  /\ Use(j, "test", "leave")
  /\ UNCHANGED <<block, lock, isReady>>

\* Mutant of Take: isReady is not looked at.
TakeUnready(j) == TakeData(j)

\* Ready: the data is moved out, which leaves an empty value behind.
Take(j) == isReady[j] /\ TakeData(j)

WaitReturn(j) ==
  /\ lock' = With(lock, j, Nobody)
  /\ Use(j, "leave", "held")
  /\ UNCHANGED <<block, isReady, actualData, returned>>

\* The user destroys the future, without having waited perhaps.
LetGo(j) ==
  /\ Use(j, "held", "gone")
  /\ Release({j}, "user")
  /\ UNCHANGED <<data, returned>>

-----------------------------------------------------------------------------
SetStep(j) ==
  SetTest(j) \/ SetLock(j) \/ SetData(j) \/ SetFlag(j) \/ SetUnlock(j) \/ Finish(j)

WaitStep(j) == TryLock(j) \/ NotReady(j) \/ Take(j) \/ WaitReturn(j)

FutureNext ==
  \/ \E j \in Jobs : RunJob(j) \/ SetStep(j) \/ Wait(j) \/ WaitStep(j) \/ LetGo(j)
  \/ Invoke \/ Close

FutureSpec == FutureInit /\ [][FutureNext]_futureVars

-----------------------------------------------------------------------------
(* Properties *)

FutureTypeOK ==
  /\ todo \in Seq(Jobs) /\ done \in Seq(Jobs) /\ dropped \in Seq(Jobs) /\ closed \in BOOLEAN
  /\ at \in {"idle", "body", "lock", "data", "flag", "unlock", "end"}
  /\ user \in [Jobs -> {"unmade", "held", "try", "test", "leave", "gone"}]
  /\ handles \in [Jobs -> SUBSET {"job", "user"}]
  /\ alive \in [Jobs -> BOOLEAN]
  /\ lock \in [Jobs -> {"job", "user", Nobody}]
  /\ isReady \in [Jobs -> BOOLEAN]
  /\ actualData \in [Jobs -> {"default", "result", "moved"}]
  /\ returned \in [Jobs -> Seq({"default", "result", "moved"})]

\* Neither the job in set nor the user in wait ever touches a block that was
\* freed, whoever lets go of it first; both release the lock before.
NoUseAfterFree ==
  \A j \in Jobs :
    /\ Running(j) => alive[j]
    /\ user[j] \in {"held", "try", "test", "leave"} => alive[j]
    /\ lock[j] # Nobody => alive[j]

\* The first wait on a future returns what the job computed, never the value
\* the block was made with.
WaitReturnsResult == \A j \in Jobs : returned[j] # <<>> => returned[j][1] = "result"

\* What has become of the promise, and who it was made to.
PromiseOf(j) ==
  CASE user[j] = "unmade" -> "unmade"
    [] user[j] # "unmade" /\ isReady[j] -> "kept"
    [] user[j] # "unmade" /\ ~isReady[j] /\ "job" \in handles[j] -> "pending"
    [] OTHER -> IF j \in Range(dropped) THEN "discarded" ELSE "unread"

ReaderOf(j) ==
  CASE user[j] = "unmade" -> "nobody"
    [] user[j] = "gone" -> "gone"
    [] OTHER -> IF returned[j] = <<>> THEN "holding" ELSE "answered"

Promise == INSTANCE JobPromise
             WITH promise <- [j \in Jobs |-> PromiseOf(j)], reader <- [j \in Jobs |-> ReaderOf(j)]

\* A job that ran has made its future ready, unless the future was gone: set
\* may skip the store only for a reader that can never come back.
PromiseSpec == Promise!Spec

\* A wait on a job that has started ends, although both poll the same lock.
WaitReturns == \A j \in Jobs : user[j] = "try" /\ Running(j) ~> user[j] = "held"
=============================================================================
