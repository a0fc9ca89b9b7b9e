----------------------------- MODULE JobThread -----------------------------
(***************************************************************************)
(* gk::JobThread (job/job_thread.h, job/job_thread.cpp): one worker thread *)
(* that runs the jobs other threads, and the jobs themselves, queue on it. *)
(*                                                                         *)
(* The atomic flags and _mutex are touched one access per action, because  *)
(* the code reads and writes them outside any common lock.  The queue is   *)
(* only touched inside _queue's lock, and each of those critical sections  *)
(* makes one access that is visible outside it (_queuedJobCount), so each  *)
(* is one action.  _activeWork is locked by the worker alone.              *)
(***************************************************************************)
EXTENDS Integers, Sequences, Functions

CONSTANTS
  Clients,          \* threads that call the public interface
  Owner,            \* the client that destroys the JobThread
  Worker,           \* the thread started by the constructor
  NoThread,         \* "unlocked"
  Jobs,             \* jobs that may be passed to runJob
  Issuer,           \* who calls runJob for a job: a client, or a job as it runs
  QUEUE_CAPACITY,   \* slots of JobRingQueue
  MaxSpurious       \* bound on spurious wakeups of the condition variable

Threads == Clients \cup {Worker}

ASSUME ThreadAssumption ==
  /\ Owner \in Clients
  /\ Worker \notin Clients
  /\ NoThread \notin Threads
ASSUME JobAssumption ==
  /\ Clients \cap Jobs = {}
  /\ Issuer \in [Jobs -> Clients \cup Jobs]
ASSUME BoundAssumption ==
  /\ QUEUE_CAPACITY \in Nat \ {0}
  /\ MaxSpurious \in Nat

VARIABLES
  isExecuting, shouldExecute, isPendingKill,   \* the three atomic flags
  queuedJobCount,   \* the atomic counter read by JobSystem
  queue,            \* _queue: queued jobs, oldest first
  activeWork,       \* _activeWork: collected jobs not yet finished
  mutex,            \* holder of _mutex
  wpc,              \* where the worker is in threadLoop
  pc,               \* where each thread is in a call on this object
  spurious,         \* spurious wakeups so far
  trapped,          \* did a check fail and stop the program?
  accepted,         \* history: jobs pushed, in order
  ran,              \* history: jobs run to their end, in order
  dropped           \* history: jobs destroyed with the queue, never run

flags == <<isExecuting, shouldExecute, isPendingKill>>
work  == <<queuedJobCount, queue, activeWork, accepted, ran, dropped>>
rest  == <<spurious, trapped>>
vars  == <<flags, work, mutex, wpc, pc, rest>>

-----------------------------------------------------------------------------
(* Helpers *)

\* Where a thread is inside notifyExecute.
InNotify == {"test", "store", "lock", "signal", "mark"}

\* The destructor's own notifyExecute returns to join.
AfterNotify(t) == IF isPendingKill /\ t = Owner THEN "join" ELSE "ready"

\* A step of thread t's call, and a step of the worker's loop.
Call(t, from, to) == pc[t] = from /\ pc' = [pc EXCEPT ![t] = to] /\ UNCHANGED rest
Loop(from, to) == wpc = from /\ wpc' = to /\ UNCHANGED <<pc, rest>>

\* From the start of the destructor on, no other call may be made.
Destroying ==
  isPendingKill \/ pc[Owner] \in {"dtorWait", "dtorKill", "join", "gone"}

\* The jobs thread t may pass to runJob now.
MayIssue(t) ==
  {j \in Jobs \ Range(accepted) :
     IF t = Worker
     THEN wpc = "run" /\ Issuer[j] = Head(activeWork)
     ELSE ~Destroying /\ Issuer[j] = t}

Init ==
  /\ isExecuting = FALSE
  /\ shouldExecute = FALSE
  /\ isPendingKill = FALSE
  /\ queuedJobCount = 0
  /\ queue = <<>>
  /\ activeWork = <<>>
  /\ mutex = NoThread
  /\ wpc = "loop"
  /\ pc = [t \in Threads |-> "ready"]
  /\ spurious = 0
  /\ trapped = FALSE
  /\ accepted = <<>>
  /\ ran = <<>>
  /\ dropped = <<>>

-----------------------------------------------------------------------------
(* queueJob and notifyExecute, called by a client or by a running job *)

PushJob(t, j) ==
  /\ j \in MayIssue(t)
  /\ queue' = Append(queue, j)
  /\ queuedJobCount' = queuedJobCount + 1
  /\ accepted' = Append(accepted, j)
  /\ Call(t, "ready", "test")
  /\ UNCHANGED <<flags, activeWork, ran, dropped, mutex, wpc>>

\* Mutant of QueueJob: no room is checked for.
QueueJobUnchecked(t, j) == PushJob(t, j)

\* queueJob: push and count inside the queue's lock.
QueueJob(t, j) == Len(queue) < QUEUE_CAPACITY /\ PushJob(t, j)

\* push on a full ring: the check fails and stops a checked build; an
\* unchecked build has no defined behaviour from here (push, job_thread.h:45).
QueueJobFull(t, j) ==
  /\ pc[t] = "ready"
  /\ j \in MayIssue(t)
  /\ Len(queue) >= QUEUE_CAPACITY
  /\ trapped' = TRUE
  /\ UNCHANGED <<flags, work, mutex, wpc, pc, spurious>>

\* Mutant of NotifyTest: spin until the worker is idle instead of returning.
NotifyTestSpins(t) ==
  ~isExecuting /\ Call(t, "test", "store") /\ UNCHANGED <<flags, work, mutex, wpc>>

\* Return at once when the worker is believed to be looping.
NotifyTest(t) ==
  /\ Call(t, "test", IF isExecuting THEN AfterNotify(t) ELSE "store")
  /\ UNCHANGED <<flags, work, mutex, wpc>>

NotifyStore(t) ==
  /\ shouldExecute' = TRUE
  /\ Call(t, "store", "lock")
  /\ UNCHANGED <<isExecuting, isPendingKill, work, mutex, wpc>>

\* Mutant of NotifyLock: go on without _mutex.
NotifyUnlocked(t) == Call(t, "lock", "signal") /\ UNCHANGED <<flags, work, mutex, wpc>>

NotifyLock(t) ==
  /\ mutex = NoThread
  /\ mutex' = t
  /\ Call(t, "lock", "signal")
  /\ UNCHANGED <<flags, work, wpc>>

\* notify_one: a worker blocked in wait goes for the mutex again.
NotifySignal(t) ==
  /\ wpc' = IF wpc = "asleep" THEN "lock" ELSE wpc
  /\ Call(t, "signal", "mark")
  /\ UNCHANGED <<flags, work, mutex>>

NotifyMark(t) ==
  /\ isExecuting' = TRUE
  /\ mutex' = NoThread
  /\ Call(t, "mark", AfterNotify(t))
  /\ UNCHANGED <<shouldExecute, isPendingKill, work, wpc>>

-----------------------------------------------------------------------------
(* wait and the destructor *)

WaitCall(c) ==
  ~Destroying /\ Call(c, "ready", "wait") /\ UNCHANGED <<flags, work, mutex, wpc>>

\* wait spins until it reads isExecuting as false.
WaitReturn(c) ==
  ~isExecuting /\ Call(c, "wait", "ready") /\ UNCHANGED <<flags, work, mutex, wpc>>

\* The owner destroys the object when no other client is inside a call.
DtorBegin ==
  /\ \A c \in Clients : pc[c] = "ready"
  /\ ~Destroying
  /\ Call(Owner, "ready", "dtorWait")
  /\ UNCHANGED <<flags, work, mutex, wpc>>

DtorWaitReturn ==
  ~isExecuting /\ Call(Owner, "dtorWait", "dtorKill") /\ UNCHANGED <<flags, work, mutex, wpc>>

\* Mutant of DtorKill: set the flag without waking the worker.
DtorKillSilently ==
  /\ isPendingKill' = TRUE
  /\ Call(Owner, "dtorKill", "join")
  /\ UNCHANGED <<isExecuting, shouldExecute, work, mutex, wpc>>

DtorKill ==
  /\ isPendingKill' = TRUE
  /\ Call(Owner, "dtorKill", "test")
  /\ UNCHANGED <<isExecuting, shouldExecute, work, mutex, wpc>>

\* join returns, then the members go: the queue destroys what it still holds.
DtorJoin ==
  /\ wpc = "exit"
  /\ Call(Owner, "join", "gone")
  /\ dropped' = queue
  /\ queue' = <<>>
  /\ UNCHANGED <<flags, queuedJobCount, activeWork, accepted, ran, mutex, wpc>>

-----------------------------------------------------------------------------
(* threadLoop, on the worker *)

LoopTest ==
  Loop("loop", IF isPendingKill THEN "exit" ELSE "len") /\ UNCHANGED <<flags, work, mutex>>

\* The length is read inside the queue's lock and used after it.
LoopLen ==
  Loop("len", IF queue # <<>> THEN "collect" ELSE "idle") /\ UNCHANGED <<flags, work, mutex>>

LoopIdle ==
  /\ isExecuting' = FALSE
  /\ Loop("idle", "lock")
  /\ UNCHANGED <<shouldExecute, isPendingKill, work, mutex>>

WaitLock ==
  mutex = NoThread /\ mutex' = Worker /\ Loop("lock", "pred") /\ UNCHANGED <<flags, work>>

WaitPred ==
  Loop("pred", IF shouldExecute THEN "clear" ELSE "block") /\ UNCHANGED <<flags, work, mutex>>

\* condVar.wait releases the mutex and blocks in one step.
WaitBlock == mutex' = NoThread /\ Loop("block", "asleep") /\ UNCHANGED <<flags, work>>

SpuriousWakeup ==
  /\ wpc = "asleep" /\ wpc' = "lock"
  /\ spurious < MaxSpurious
  /\ spurious' = spurious + 1
  /\ UNCHANGED <<flags, work, mutex, pc, trapped>>

WaitDone(next) ==
  /\ shouldExecute' = FALSE
  /\ mutex' = NoThread
  /\ Loop("clear", next)
  /\ UNCHANGED <<isExecuting, isPendingKill, work>>

\* Mutant of WaitClear: go round the loop without executeQueuedJobs.
WaitClearLoops == WaitDone("loop")

WaitClear == WaitDone("collect")

CollectWork ==
  /\ queuedJobCount' = 0
  /\ activeWork' = activeWork \o queue
  /\ Loop("collect", "invoke")
  /\ UNCHANGED <<flags, accepted, ran, dropped, mutex>>

\* Mutant of Collect: collectJobs forgets to reset the length of the queue.
CollectKeepsQueue == CollectWork /\ UNCHANGED queue

\* executeQueuedJobs, inside the queue's lock: take everything.
Collect == CollectWork /\ queue' = <<>>

\* Mutant of InvokeNext: stop between two jobs of a thread to be destroyed.
InvokeNextUnlessKilled ==
  /\ Loop("invoke", IF activeWork # <<>> /\ ~isPendingKill THEN "run" ELSE "loop")
  /\ UNCHANGED <<flags, work, mutex>>

\* invokeAllJobs: start the next job, or go round the loop.
InvokeNext ==
  Loop("invoke", IF activeWork # <<>> THEN "run" ELSE "loop") /\ UNCHANGED <<flags, work, mutex>>

\* The job returns once it has made its own runJob calls, and is destroyed;
\* collecting has reset the count of queued jobs already.
FinishJob ==
  /\ Loop("run", "invoke")
  /\ pc[Worker] = "ready"
  /\ MayIssue(Worker) = {}
  /\ ran' = Append(ran, Head(activeWork))
  /\ activeWork' = Tail(activeWork)
  /\ UNCHANGED <<flags, queue, queuedJobCount, accepted, dropped, mutex>>

-----------------------------------------------------------------------------
NotifyStep(t) ==
  NotifyTest(t) \/ NotifyStore(t) \/ NotifyLock(t) \/ NotifySignal(t) \/ NotifyMark(t)

DtorStep == DtorWaitReturn \/ DtorKill \/ DtorJoin

LoopStep ==
  \/ LoopTest \/ LoopLen \/ LoopIdle
  \/ WaitLock \/ WaitPred \/ WaitBlock \/ WaitClear
  \/ Collect \/ InvokeNext \/ FinishJob

Push(t, j) == QueueJob(t, j) \/ QueueJobFull(t, j)

Next ==
  /\ ~trapped
  /\ \/ \E t \in Threads : NotifyStep(t)
     \/ \E t \in Threads, j \in Jobs : Push(t, j)
     \/ \E c \in Clients : WaitCall(c) \/ WaitReturn(c)
     \/ DtorBegin \/ DtorStep
     \/ LoopStep \/ SpuriousWakeup

Spec == Init /\ [][Next]_vars

\* Every thread that can take a step of its own is scheduled: the worker, and
\* a thread inside a call.  Nothing makes a client call, and nothing makes the
\* condition variable wake by itself.
Fairness ==
  /\ WF_vars(~trapped /\ LoopStep)
  /\ WF_vars(~trapped /\ \E j \in Jobs : Push(Worker, j))
  /\ \A t \in Threads : WF_vars(~trapped /\ NotifyStep(t))
  /\ \A c \in Clients : WF_vars(~trapped /\ WaitReturn(c))
  /\ WF_vars(~trapped /\ DtorStep)

FairSpec == Spec /\ Fairness

-----------------------------------------------------------------------------
(* Properties *)

TypeOK ==
  /\ isExecuting \in BOOLEAN /\ shouldExecute \in BOOLEAN /\ isPendingKill \in BOOLEAN
  /\ queuedJobCount \in Nat
  /\ queue \in Seq(Jobs) /\ activeWork \in Seq(Jobs)
  /\ mutex \in Threads \cup {NoThread}
  /\ wpc \in {"loop", "len", "idle", "lock", "pred", "block", "asleep", "clear",
              "collect", "invoke", "run", "exit"}
  /\ pc \in [Threads -> InNotify \cup {"ready", "wait", "dtorWait", "dtorKill", "join", "gone"}]
  /\ spurious \in Nat
  /\ trapped \in BOOLEAN
  /\ accepted \in Seq(Jobs) /\ ran \in Seq(Jobs) /\ dropped \in Seq(Jobs)

\* The promise of JobExecutor: what is collected or queued is still to do.
Executor == INSTANCE JobExecutor
              WITH todo <- activeWork \o queue, done <- ran, closed <- pc[Owner] = "gone"

\* Every job is run at most once, one at a time and in the order it was
\* queued, whatever queues it and whenever the worker collects: the thread
\* implements JobExecutor.
ExecutorSpec == Executor!Spec

\* A worker that sleeps, or has decided to, with shouldExecute set has a
\* notifier still on its way to notify_one: no notification is missed between
\* the predicate and the wait, because notify_one is called under _mutex.
NoMissedNotify ==
  (wpc \in {"block", "asleep"} /\ shouldExecute) =>
    \E c \in Clients : pc[c] = "lock" \/ (wpc = "asleep" /\ pc[c] = "signal")

\* Destroying the thread runs everything its clients queued: what goes down
\* with the queue was queued by a job, while the destructor was running.
OnlyNestedDropped == \A j \in Range(dropped) : Issuer[j] \in Jobs

\* What executeQueuedJobs collects fits the buffer of ActiveJobs, and the
\* counter JobSystem balances on is the length of the queue.
WorkFits ==
  /\ Len(activeWork) <= QUEUE_CAPACITY
  /\ pc[Owner] # "gone" => queuedJobCount = Len(queue)

\* Every runJob call returns, whatever the worker is doing, unless a full ring
\* has stopped the program.
RunJobReturns ==
  \A c \in Clients : pc[c] = "test" ~> (pc[c] \in {"ready", "join"} \/ trapped)

\* Every job the worker has collected runs, unless the program is stopped.
CollectedJobsRun ==
  \A j \in Jobs : j \in Range(activeWork) ~> (j \in Range(ran) \/ trapped)

\* Once the destructor is past wait(), it finishes: the kill flag reaches the
\* worker, asleep or not.
KillFinishes == pc[Owner] = "dtorKill" ~> (pc[Owner] = "gone" \/ trapped)

(* What the repository says of the class and the code does not do *)

\* "should already be looping the execution, in which if it has any queued
\* jobs, it will execute them" (job_thread.cpp:59): a queued job is collected.
QueuedJobsExecute == (queue # <<>> /\ ~isPendingKill) ~> (queue = <<>> \/ trapped)

\* Every test deletes its JobThread (job_thread.cpp:151): a destructor returns.
DestructorReturns == pc[Owner] = "dtorWait" ~> (pc[Owner] = "gone" \/ trapped)
=============================================================================
