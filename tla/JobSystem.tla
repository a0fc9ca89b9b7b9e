----------------------------- MODULE JobSystem -----------------------------
(***************************************************************************)
(* gk::JobSystem (job/job_system.h, job/job_system.cpp): each runJob picks *)
(* one of several JobThreads, reading what the threads publish about       *)
(* themselves while other callers pick and queue and the workers run.      *)
(*                                                                         *)
(* Of a JobThread the module keeps what a JobSystem can see: isExecuting,  *)
(* queuedJobCount, and how many collected jobs its worker still has.  The  *)
(* sleeping and waking of the worker is in JobThread.tla; here a worker    *)
(* may collect, or clear its flag, whenever it has no collected job left.  *)
(* A client is any thread that calls runJob, a worker in a job included.   *)
(***************************************************************************)
EXTENDS Integers

CONSTANTS
  Clients,
  Owner,            \* the client that destroys the JobSystem
  ThreadCount,
  QUEUE_CAPACITY,   \* slots of a JobThread's ring
  NoLoad,           \* 0xffffffff, above every load
  MaxJobs           \* bound on the calls of runJob

ASSUME ClientAssumption == Owner \in Clients
ASSUME CountAssumption == ThreadCount \in Nat \ {0}
ASSUME LoadAssumption == QUEUE_CAPACITY \in Nat /\ NoLoad \in Nat /\ QUEUE_CAPACITY < NoLoad
ASSUME BoundAssumption == MaxJobs \in Nat

Threads == 0 .. ThreadCount - 1

VARIABLES
  currentOptimalThread,          \* the atomic index
  isExecuting, queuedJobCount,   \* what each JobThread publishes
  activeWork,                    \* its collected jobs that have not finished
  alive,                         \* has it not been destroyed?
  jobs,                          \* runJob calls so far
  pc,                            \* where each client is in a call
  start, i,                      \* oldCurrentOptimal, and the loop's index
  notExecuting,                  \* isNotExecuting
  best, least,                   \* currentOptimal, minimumQueueLoad
  idle,                          \* history: threads idle since the call began
  seen,                          \* history: the load read from each thread
  lowered                        \* history: was a queue collected meanwhile?

threads == <<isExecuting, queuedJobCount, activeWork, alive>>
scan    == <<start, i, notExecuting, best, least, seen>>
history == <<idle, lowered>>
vars    == <<currentOptimalThread, threads, jobs, pc, scan, history>>

-----------------------------------------------------------------------------
(* Helpers *)

Write(f, x, v) == [f EXCEPT ![x] = v]

\* A step of client c's call.
Call(c, from, to) == pc[c] = from /\ pc' = Write(pc, c, to)

Idle(t) == ~isExecuting[t] /\ queuedJobCount[t] = 0

\* checkIndex: the threads in turn, from the preferred one on.
Checked(c) == (start[c] + i[c]) % ThreadCount

\* Thread t is not idle any more, for any client.
NotIdle(t) == idle' = [c \in Clients |-> idle[c] \ {t}]

\* The locals of a selection, and the history of it, as it begins.
Begin(c, from, idleNow) ==
  /\ start' = Write(start, c, from)
  /\ i' = Write(i, c, 0)
  /\ notExecuting' = Write(notExecuting, c, FALSE)
  /\ least' = Write(least, c, NoLoad)
  /\ seen' = Write(seen, c, [t \in Threads |-> NoLoad])
  /\ idle' = Write(idle, c, idleNow)
  /\ lowered' = Write(lowered, c, FALSE)

Destroying == pc[Owner] \in {"dtorWait", "delete", "gone"}

Init ==
  /\ currentOptimalThread = 0
  /\ isExecuting = [t \in Threads |-> FALSE]
  /\ queuedJobCount = [t \in Threads |-> 0]
  /\ activeWork = [t \in Threads |-> 0]
  /\ alive = [t \in Threads |-> TRUE]
  /\ jobs = 0
  /\ pc = [c \in Clients |-> "ready"]
  /\ start = [c \in Clients |-> 0]
  /\ i = [c \in Clients |-> 0]
  /\ notExecuting = [c \in Clients |-> FALSE]
  /\ best = [c \in Clients |-> 0]
  /\ least = [c \in Clients |-> NoLoad]
  /\ seen = [c \in Clients |-> [t \in Threads |-> NoLoad]]
  /\ idle = [c \in Clients |-> {}]
  /\ lowered = [c \in Clients |-> FALSE]

-----------------------------------------------------------------------------
(* getOptimalThreadForExecution *)

LoadPreferred(c) ==
  /\ ~Destroying
  /\ jobs < MaxJobs
  /\ jobs' = jobs + 1
  /\ best' = Write(best, c, currentOptimalThread)
  /\ Begin(c, currentOptimalThread, {t \in Threads : Idle(t)})
  /\ Call(c, "ready", "flag")
  /\ UNCHANGED <<currentOptimalThread, threads>>

ReadFlag(c) ==
  /\ notExecuting' = Write(notExecuting, c, ~isExecuting[Checked(c)])
  /\ Call(c, "flag", "count")
  /\ UNCHANGED <<currentOptimalThread, threads, jobs, start, i, best, least, seen, history>>

\* queuedJobCount is read after the flag; an idle thread is taken at once.
TakeIdle(c) ==
  /\ notExecuting[c] /\ queuedJobCount[Checked(c)] = 0
  /\ best' = Write(best, c, Checked(c))
  /\ Call(c, "count", "store")
  /\ UNCHANGED <<currentOptimalThread, threads, jobs, start, i, notExecuting, least, seen, history>>

\* The load of a busy thread is read, and the next one is looked at, up to the last.
PassTo(c, last) ==
  /\ ~(notExecuting[c] /\ queuedJobCount[Checked(c)] = 0)
  /\ seen' = [seen EXCEPT ![c][Checked(c)] = queuedJobCount[Checked(c)]]
  /\ i' = Write(i, c, i[c] + 1)
  /\ Call(c, "count", IF i[c] + 1 < last THEN "flag" ELSE "store")
  /\ UNCHANGED <<currentOptimalThread, threads, jobs, start, notExecuting, history>>

Remember(c) ==
  /\ best' = Write(best, c, Checked(c))
  /\ least' = Write(least, c, queuedJobCount[Checked(c)])

\* Mutant of PassOver: the loop ends one thread early.
PassOverStopsShort(c) ==
  /\ PassTo(c, ThreadCount - 1)
  /\ IF least[c] > queuedJobCount[Checked(c)] THEN Remember(c) ELSE UNCHANGED <<best, least>>

\* Mutant of PassOver: minimumQueueLoad is not updated.
PassOverForgets(c) ==
  /\ PassTo(c, ThreadCount)
  /\ best' = IF least[c] > queuedJobCount[Checked(c)] THEN Write(best, c, Checked(c)) ELSE best
  /\ UNCHANGED least

\* The first of the least loaded threads is remembered.
PassOver(c) ==
  /\ PassTo(c, ThreadCount)
  /\ IF least[c] > queuedJobCount[Checked(c)] THEN Remember(c) ELSE UNCHANGED <<best, least>>

StoreIndex(c, next) ==
  /\ currentOptimalThread' = next
  /\ Begin(c, 0, {})
  /\ Call(c, "store", "push")
  /\ UNCHANGED <<threads, jobs, best>>

\* The next selection starts behind the thread that is returned.  The locals
\* of this one end (they are reset, so that ended calls do not differ by them).
StoreNext(c) == StoreIndex(c, (best[c] + 1) % ThreadCount)

-----------------------------------------------------------------------------
(* runJob on the selected JobThread *)

\* A full ring stops the program (QueueJobFull in JobThread.tla).
QueueJob(c) ==
  /\ queuedJobCount[best[c]] < QUEUE_CAPACITY
  /\ queuedJobCount' = Write(queuedJobCount, best[c], queuedJobCount[best[c]] + 1)
  /\ NotIdle(best[c])
  /\ Call(c, "push", "test")
  /\ UNCHANGED <<currentOptimalThread, isExecuting, activeWork, alive, jobs, scan, lowered>>

NotifyTest(c) ==
  /\ Call(c, "test", IF isExecuting[best[c]] THEN "ready" ELSE "mark")
  /\ UNCHANGED <<currentOptimalThread, threads, jobs, scan, history>>

NotifyMark(c) ==
  /\ isExecuting' = Write(isExecuting, best[c], TRUE)
  /\ NotIdle(best[c])
  /\ Call(c, "mark", "ready")
  /\ UNCHANGED <<currentOptimalThread, queuedJobCount, activeWork, alive, jobs, scan, lowered>>

-----------------------------------------------------------------------------
(* The worker of a JobThread *)

Collect(t) ==
  /\ alive[t] /\ activeWork[t] = 0 /\ queuedJobCount[t] > 0
  /\ activeWork' = Write(activeWork, t, queuedJobCount[t])
  /\ queuedJobCount' = Write(queuedJobCount, t, 0)
  /\ lowered' = [c \in Clients |-> TRUE]
  /\ idle' = idle
  /\ UNCHANGED <<currentOptimalThread, isExecuting, alive, jobs, pc, scan>>

FinishJob(t) ==
  /\ activeWork[t] > 0
  /\ activeWork' = Write(activeWork, t, activeWork[t] - 1)
  /\ UNCHANGED <<currentOptimalThread, isExecuting, queuedJobCount, alive, jobs, pc, scan, history>>

LoopIdle(t) ==
  /\ alive[t] /\ activeWork[t] = 0 /\ isExecuting[t]
  /\ isExecuting' = Write(isExecuting, t, FALSE)
  /\ UNCHANGED <<currentOptimalThread, queuedJobCount, activeWork, alive, jobs, pc, scan, history>>

-----------------------------------------------------------------------------
(* wait and the destructor *)

\* Each thread's wait() in turn.
WaitCall(c) ==
  /\ ~Destroying
  /\ i' = Write(i, c, 0)
  /\ Call(c, "ready", "wait")
  /\ UNCHANGED <<currentOptimalThread, threads, jobs, start, notExecuting, best, least, seen, history>>

WaitNext(c, at, then) ==
  /\ pc[c] = at /\ ~isExecuting[i[c]]
  /\ i' = Write(i, c, IF i[c] < ThreadCount - 1 THEN i[c] + 1 ELSE i[c])
  /\ pc' = Write(pc, c, IF i[c] < ThreadCount - 1 THEN at ELSE then)
  /\ UNCHANGED <<currentOptimalThread, threads, jobs, start, notExecuting, best, least, seen, history>>

DtorBegin ==
  /\ \A c \in Clients : pc[c] = "ready"
  /\ i' = Write(i, Owner, 0)
  /\ Call(Owner, "ready", "dtorWait")
  /\ UNCHANGED <<currentOptimalThread, threads, jobs, start, notExecuting, best, least, seen, history>>

\* delete[] destroys the threads from the last to the first, each when its
\* worker is done (JobThread's destructor runs what its clients queued).
DeleteThread ==
  /\ pc[Owner] = "delete"
  /\ ~isExecuting[i[Owner]] /\ queuedJobCount[i[Owner]] = 0 /\ activeWork[i[Owner]] = 0
  /\ alive' = Write(alive, i[Owner], FALSE)
  /\ i' = Write(i, Owner, IF i[Owner] = 0 THEN 0 ELSE i[Owner] - 1)
  /\ pc' = Write(pc, Owner, IF i[Owner] = 0 THEN "gone" ELSE "delete")
  /\ UNCHANGED <<currentOptimalThread, isExecuting, queuedJobCount, activeWork, jobs>>
  /\ UNCHANGED <<start, notExecuting, best, least, seen, history>>

-----------------------------------------------------------------------------
SelectStep(c) ==
  LoadPreferred(c) \/ ReadFlag(c) \/ TakeIdle(c) \/ PassOver(c) \/ StoreNext(c)

RunStep(c) == QueueJob(c) \/ NotifyTest(c) \/ NotifyMark(c)

WorkerStep(t) == Collect(t) \/ FinishJob(t) \/ LoopIdle(t)

Next ==
  \/ \E c \in Clients : SelectStep(c) \/ RunStep(c) \/ WaitCall(c) \/ WaitNext(c, "wait", "ready")
  \/ \E t \in Threads : WorkerStep(t)
  \/ DtorBegin \/ WaitNext(Owner, "dtorWait", "delete") \/ DeleteThread

Spec == Init /\ [][Next]_vars

-----------------------------------------------------------------------------
(* Properties *)

TypeOK ==
  /\ currentOptimalThread \in Threads
  /\ isExecuting \in [Threads -> BOOLEAN]
  /\ queuedJobCount \in [Threads -> 0 .. QUEUE_CAPACITY]
  /\ activeWork \in [Threads -> Nat]
  /\ alive \in [Threads -> BOOLEAN]
  /\ jobs \in 0 .. MaxJobs
  /\ pc \in [Clients -> {"ready", "flag", "count", "store", "push", "test", "mark",
                         "wait", "dtorWait", "delete", "gone"}]
  /\ start \in [Clients -> Threads]
  /\ i \in [Clients -> Nat]
  /\ notExecuting \in [Clients -> BOOLEAN]
  /\ best \in [Clients -> Threads]
  /\ least \in [Clients -> 0 .. NoLoad]
  /\ seen \in [Clients -> [Threads -> 0 .. NoLoad]]
  /\ idle \in [Clients -> SUBSET Threads]
  /\ lowered \in [Clients -> BOOLEAN]

\* The selection of client c ends with a thread that it did not find idle.
Overloaded(c) == pc[c] = "store" /\ seen[c][best[c]] # NoLoad

\* A thread that is idle throughout a selection is not passed over for one
\* that is not, wherever other callers move the preferred index meanwhile.
NoIdleOverlooked == \A c \in Clients : Overloaded(c) => idle[c] = {}

\* When none is idle, the selected thread had at most the load that any other
\* has at the end of the selection, unless a worker emptied its queue since.
LeastLoaded ==
  \A c \in Clients : Overloaded(c) /\ ~lowered[c] =>
    \A t \in Threads : seen[c][best[c]] <= queuedJobCount[t]
=============================================================================
