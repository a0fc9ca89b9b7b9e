-------------------------- MODULE JobThreadProofs --------------------------
(***************************************************************************)
(* Proofs about JobThread.  The inductive invariant IInv says, in parts:   *)
(* who can hold _mutex where, what the worker holds where, that the        *)
(* sequences make up what was accepted, what is over once the destructor   *)
(* has begun, that no notification is missed, and that a job queued by a   *)
(* client always has somebody who will have it collected before the worker *)
(* looks at isPendingKill again.                                           *)
(***************************************************************************)
EXTENDS JobThread, SequenceTheorems, TLAPS

\* _mutex is held inside the scoped_lock of notifyExecute and around the wait.
MutexInv ==
  /\ \A t \in Threads : pc[t] \in {"signal", "mark"} => mutex = t
  /\ wpc \in {"pred", "block", "clear"} => mutex = Worker

\* Only a job calls runJob on the worker, and only it sees collected jobs.
WorkerInv ==
  /\ pc[Worker] \in InNotify \cup {"ready"}
  /\ pc[Worker] # "ready" => wpc = "run"
  /\ wpc = "run" => activeWork # <<>>
  /\ wpc \notin {"invoke", "run"} => activeWork = <<>>

\* What was accepted has run, is collected, is queued or went with the queue.
OrderInv ==
  /\ accepted = ((ran \o activeWork) \o queue) \o dropped
  /\ pc[Owner] # "gone" => dropped = <<>>

\* The destructor is alone with the worker, and the flag is set in order.
DtorInv ==
  /\ \A c \in Clients \ {Owner} :
       /\ pc[c] \in InNotify \cup {"ready", "wait"}
       /\ Destroying => pc[c] = "ready"
  /\ isPendingKill => pc[Owner] \in InNotify \cup {"join", "gone"}
  /\ pc[Owner] \in {"join", "gone"} => isPendingKill
  /\ wpc = "exit" => isPendingKill
  /\ pc[Owner] = "gone" => wpc = "exit" /\ queue = <<>>

\* From here the worker collects before it tests isPendingKill again.
WillCollect == wpc \in {"len", "idle", "lock", "pred", "block", "asleep", "clear", "collect"}

\* A client's queued job keeps the worker busy, or its issuer is about to, or
\* the worker has yet to collect; past wait(), only the last is left.
KeepInv ==
  \A j \in Range(queue) : Issuer[j] \in Clients =>
    /\ isExecuting \/ pc[Issuer[j]] \in InNotify \/ WillCollect
    /\ (pc[Owner] = "dtorKill" \/ isPendingKill) => WillCollect

CapacityInv ==
  /\ Len(queue) <= QUEUE_CAPACITY
  /\ Len(activeWork) <= QUEUE_CAPACITY
  /\ pc[Owner] # "gone" => queuedJobCount = Len(queue)

IInv ==
  /\ TypeOK /\ MutexInv /\ WorkerInv /\ OrderInv /\ DtorInv
  /\ NoMissedNotify /\ KeepInv /\ CapacityInv /\ OnlyNestedDropped

-----------------------------------------------------------------------------
(* Facts about sequences *)

LEMMA RangeOfEmpty == Range(<<>>) = {}
  BY DEF Range

\* Appending adds one element to the range.
LEMMA RangeOfAppend ==
  ASSUME NEW S, NEW s \in Seq(S), NEW e \in S
  PROVE  Range(Append(s, e)) = Range(s) \cup {e}
<1>1. DOMAIN Append(s, e) = DOMAIN s \cup {Len(s) + 1}
  BY AppendProperties, LenProperties
<1>2. \A i \in DOMAIN s : Append(s, e)[i] = s[i]
  BY AppendProperties, LenProperties
<1>3. Append(s, e)[Len(s) + 1] = e
  BY AppendProperties
<1>. QED
  BY <1>1, <1>2, <1>3 DEF Range

\* Appending to the right part appends to the whole.
LEMMA ConcatOfAppend ==
  ASSUME NEW S, NEW s \in Seq(S), NEW t \in Seq(S), NEW e \in S
  PROVE  s \o Append(t, e) = Append(s \o t, e)
<1>1. s \o Append(t, e) = s \o (t \o <<e>>)
  BY AppendIsConcat
<1>2. Append(s \o t, e) = (s \o t) \o <<e>>
  BY AppendIsConcat, ConcatProperties
<1>. QED
  BY <1>1, <1>2, ConcatAssociative

\* Moving the head of the right part to the end of the left changes nothing.
LEMMA HeadThenTail ==
  ASSUME NEW S, NEW s \in Seq(S), NEW t \in Seq(S), t # <<>>
  PROVE  Append(s, Head(t)) \o Tail(t) = s \o t
<1>1. Head(t) \in S /\ Tail(t) \in Seq(S)
  BY HeadTailProperties
<1>2. t = <<Head(t)>> \o Tail(t)
  OBVIOUS
<1>3. Append(s, Head(t)) = s \o <<Head(t)>>
  BY <1>1, AppendIsConcat
<1>. QED
  BY <1>1, <1>2, <1>3, ConcatAssociative

-----------------------------------------------------------------------------
(* Each part of the invariant is preserved by every step *)

\* Types, and what the worker may hold where: both, since running a job takes
\* the head of activeWork.
LEMMA TypeStep ==
  ASSUME TypeOK, WorkerInv, [Next]_vars
  PROVE  TypeOK' /\ WorkerInv'
<1>. USE ThreadAssumption
         DEF TypeOK, WorkerInv, Call, Loop, Threads, flags, work, rest, InNotify, Destroying
<1>1. ASSUME NEW t \in Threads, NEW j \in Jobs, Push(t, j)  PROVE TypeOK' /\ WorkerInv'
  <2>1. CASE QueueJob(t, j)
    BY <2>1, AppendProperties DEF QueueJob, PushJob, MayIssue
  <2>2. CASE QueueJobFull(t, j)
    BY <2>2 DEF QueueJobFull
  <2>. QED
    BY <1>1, <2>1, <2>2 DEF Push
<1>2. ASSUME NEW t \in Threads, NotifyStep(t)  PROVE TypeOK' /\ WorkerInv'
  <2>1. CASE NotifyTest(t)
    BY <2>1 DEF NotifyTest, AfterNotify
  <2>2. CASE NotifyStore(t)
    BY <2>2 DEF NotifyStore
  <2>3. CASE NotifyLock(t)
    BY <2>3 DEF NotifyLock
  <2>4. CASE NotifySignal(t)
    BY <2>4 DEF NotifySignal
  <2>5. CASE NotifyMark(t)
    BY <2>5 DEF NotifyMark, AfterNotify
  <2>. QED
    BY <1>2, <2>1, <2>2, <2>3, <2>4, <2>5 DEF NotifyStep
<1>3. ASSUME NEW c \in Clients, WaitCall(c) \/ WaitReturn(c)  PROVE TypeOK' /\ WorkerInv'
  BY <1>3 DEF WaitCall, WaitReturn
<1>4. CASE DtorBegin
  BY <1>4 DEF DtorBegin
<1>5. CASE DtorStep
  BY <1>5 DEF DtorStep, DtorWaitReturn, DtorKill, DtorJoin
<1>6. CASE LoopStep
  <2>1. CASE LoopTest \/ LoopLen \/ LoopIdle
    BY <2>1 DEF LoopTest, LoopLen, LoopIdle
  <2>2. CASE WaitLock \/ WaitPred \/ WaitBlock \/ WaitClear
    BY <2>2 DEF WaitLock, WaitPred, WaitBlock, WaitClear, WaitDone
  <2>3. CASE Collect
    BY <2>3, ConcatProperties DEF Collect, CollectWork
  <2>4. CASE InvokeNext
    BY <2>4 DEF InvokeNext
  <2>5. CASE FinishJob
    BY <2>5 DEF FinishJob
  <2>. QED
    BY <1>6, <2>1, <2>2, <2>3, <2>4, <2>5 DEF LoopStep
<1>7. CASE SpuriousWakeup
  BY <1>7 DEF SpuriousWakeup
<1>8. CASE UNCHANGED vars
  BY <1>8 DEF vars
<1>. QED
  BY <1>1, <1>2, <1>3, <1>4, <1>5, <1>6, <1>7, <1>8 DEF Next

\* _mutex has one holder.
LEMMA MutexStep ==
  ASSUME TypeOK, WorkerInv, MutexInv, [Next]_vars
  PROVE  MutexInv'
<1>. USE ThreadAssumption
         DEF TypeOK, WorkerInv, MutexInv, Call, Loop, Threads, flags, work, rest, InNotify, Destroying
<1>1. ASSUME NEW t \in Threads, NEW j \in Jobs, Push(t, j)  PROVE MutexInv'
  BY <1>1 DEF Push, QueueJob, PushJob, QueueJobFull, MayIssue
<1>2. ASSUME NEW t \in Threads, NotifyStep(t)  PROVE MutexInv'
  BY <1>2 DEF NotifyStep, NotifyTest, NotifyStore, NotifyLock, NotifySignal, NotifyMark, AfterNotify
<1>3. ASSUME NEW c \in Clients, WaitCall(c) \/ WaitReturn(c)  PROVE MutexInv'
  BY <1>3 DEF WaitCall, WaitReturn
<1>4. CASE DtorBegin
  BY <1>4 DEF DtorBegin
<1>5. CASE DtorStep
  BY <1>5 DEF DtorStep, DtorWaitReturn, DtorKill, DtorJoin
<1>6. CASE LoopStep
  BY <1>6
  DEF LoopStep, LoopTest, LoopLen, LoopIdle, WaitLock, WaitPred, WaitBlock, WaitClear, WaitDone,
      Collect, CollectWork, InvokeNext, FinishJob
<1>7. CASE SpuriousWakeup
  BY <1>7 DEF SpuriousWakeup
<1>8. CASE UNCHANGED vars
  BY <1>8 DEF vars
<1>. QED
  BY <1>1, <1>2, <1>3, <1>4, <1>5, <1>6, <1>7, <1>8 DEF Next

\* Nobody calls in once the destructor has begun.
LEMMA DtorInvStep ==
  ASSUME TypeOK, WorkerInv, DtorInv, [Next]_vars
  PROVE  DtorInv'
<1>. USE ThreadAssumption
         DEF TypeOK, WorkerInv, DtorInv, Call, Loop, Threads, flags, work, rest, InNotify, Destroying
<1>1. ASSUME NEW t \in Threads, NEW j \in Jobs, Push(t, j)  PROVE DtorInv'
  BY <1>1 DEF Push, QueueJob, PushJob, QueueJobFull, MayIssue
<1>2. ASSUME NEW t \in Threads, NotifyStep(t)  PROVE DtorInv'
  <2>1. CASE NotifyTest(t)
    BY <2>1 DEF NotifyTest, AfterNotify
  <2>2. CASE NotifyStore(t)
    BY <2>2 DEF NotifyStore
  <2>3. CASE NotifyLock(t)
    BY <2>3 DEF NotifyLock
  <2>4. CASE NotifySignal(t)
    BY <2>4 DEF NotifySignal
  <2>5. CASE NotifyMark(t)
    BY <2>5 DEF NotifyMark, AfterNotify
  <2>. QED
    BY <1>2, <2>1, <2>2, <2>3, <2>4, <2>5 DEF NotifyStep
<1>3. ASSUME NEW c \in Clients, WaitCall(c) \/ WaitReturn(c)  PROVE DtorInv'
  <2>1. CASE WaitCall(c)
    BY <2>1 DEF WaitCall
  <2>2. CASE WaitReturn(c)
    BY <2>2 DEF WaitReturn
  <2>. QED
    BY <1>3, <2>1, <2>2
<1>4. CASE DtorBegin
  BY <1>4 DEF DtorBegin
<1>5. CASE DtorStep
  BY <1>5 DEF DtorStep, DtorWaitReturn, DtorKill, DtorJoin
<1>6. CASE LoopStep
  BY <1>6
  DEF LoopStep, LoopTest, LoopLen, LoopIdle, WaitLock, WaitPred, WaitBlock, WaitClear, WaitDone,
      Collect, CollectWork, InvokeNext, FinishJob
<1>7. CASE SpuriousWakeup
  BY <1>7 DEF SpuriousWakeup
<1>8. CASE UNCHANGED vars
  BY <1>8 DEF vars
<1>. QED
  BY <1>1, <1>2, <1>3, <1>4, <1>5, <1>6, <1>7, <1>8 DEF Next

\* A notifier between its store and notify_one outlasts the worker's wait:
\* with the predicate read, the worker holds _mutex until it sleeps.
LEMMA NotifyInvStep ==
  ASSUME TypeOK, WorkerInv, MutexInv, NoMissedNotify, [Next]_vars
  PROVE  NoMissedNotify'
<1>. USE ThreadAssumption
         DEF TypeOK, WorkerInv, MutexInv, NoMissedNotify, Call, Loop, Threads, flags, work, rest, InNotify,
    Destroying
<1>1. ASSUME NEW t \in Threads, NEW j \in Jobs, Push(t, j)  PROVE NoMissedNotify'
  BY <1>1 DEF Push, QueueJob, PushJob, QueueJobFull, MayIssue
<1>2. ASSUME NEW t \in Threads, NotifyStep(t)  PROVE NoMissedNotify'
  BY <1>2 DEF NotifyStep, NotifyTest, NotifyStore, NotifyLock, NotifySignal, NotifyMark, AfterNotify
<1>3. ASSUME NEW c \in Clients, WaitCall(c) \/ WaitReturn(c)  PROVE NoMissedNotify'
  BY <1>3 DEF WaitCall, WaitReturn
<1>4. CASE DtorBegin
  BY <1>4 DEF DtorBegin
<1>5. CASE DtorStep
  BY <1>5 DEF DtorStep, DtorWaitReturn, DtorKill, DtorJoin
<1>6. CASE LoopStep
  BY <1>6
  DEF LoopStep, LoopTest, LoopLen, LoopIdle, WaitLock, WaitPred, WaitBlock, WaitClear, WaitDone,
      Collect, CollectWork, InvokeNext, FinishJob
<1>7. CASE SpuriousWakeup
  BY <1>7 DEF SpuriousWakeup
<1>8. CASE UNCHANGED vars
  BY <1>8 DEF vars
<1>. QED
  BY <1>1, <1>2, <1>3, <1>4, <1>5, <1>6, <1>7, <1>8 DEF Next

\* isExecuting is only cleared by a worker that has yet to collect, and only
\* set behind a pushed job.
LEMMA KeepStep ==
  ASSUME TypeOK, WorkerInv, DtorInv, KeepInv, [Next]_vars
  PROVE  KeepInv'
<1>. USE ThreadAssumption, JobAssumption
         DEF TypeOK, WorkerInv, DtorInv, KeepInv, WillCollect, Call, Loop, Threads, flags, work, rest,
    InNotify, Destroying
<1>1. ASSUME NEW t \in Threads, NEW j \in Jobs, Push(t, j)  PROVE KeepInv'
  <2>1. CASE QueueJob(t, j)
    <3>1. Range(queue') = Range(queue) \cup {j}
      BY <2>1, RangeOfAppend DEF QueueJob, PushJob
    <3>2. Issuer[j] \in Clients => Issuer[j] = t /\ ~Destroying
      BY <2>1 DEF QueueJob, PushJob, MayIssue
    <3>. QED
      BY <2>1, <3>1, <3>2 DEF QueueJob, PushJob
  <2>2. CASE QueueJobFull(t, j)
    BY <2>2 DEF QueueJobFull
  <2>. QED
    BY <1>1, <2>1, <2>2 DEF Push
<1>2. ASSUME NEW t \in Threads, NotifyStep(t)  PROVE KeepInv'
  BY <1>2 DEF NotifyStep, NotifyTest, NotifyStore, NotifyLock, NotifySignal, NotifyMark, AfterNotify
<1>3. ASSUME NEW c \in Clients, WaitCall(c) \/ WaitReturn(c)  PROVE KeepInv'
  BY <1>3 DEF WaitCall, WaitReturn
<1>4. CASE DtorBegin
  BY <1>4 DEF DtorBegin
<1>5. CASE DtorStep
  <2>1. CASE DtorWaitReturn
    BY <2>1, RangeOfSeq DEF DtorWaitReturn
  <2>2. CASE DtorKill
    BY <2>2 DEF DtorKill
  <2>3. CASE DtorJoin
    BY <2>3, RangeOfEmpty DEF DtorJoin
  <2>. QED
    BY <1>5, <2>1, <2>2, <2>3 DEF DtorStep
<1>6. CASE LoopStep
  <2>1. CASE LoopLen
    BY <2>1, RangeOfEmpty DEF LoopLen
  <2>2. CASE Collect
    BY <2>2, RangeOfEmpty DEF Collect, CollectWork
  <2>3. CASE LoopTest \/ LoopIdle \/ WaitLock \/ WaitPred \/ WaitBlock \/ WaitClear
    BY <2>3 DEF LoopTest, LoopIdle, WaitLock, WaitPred, WaitBlock, WaitClear, WaitDone
  <2>4. CASE InvokeNext \/ FinishJob
    BY <2>4 DEF InvokeNext, FinishJob
  <2>. QED
    BY <1>6, <2>1, <2>2, <2>3, <2>4 DEF LoopStep

<1>7. CASE SpuriousWakeup
  BY <1>7 DEF SpuriousWakeup
<1>8. CASE UNCHANGED vars
  BY <1>8 DEF vars
<1>. QED
  BY <1>1, <1>2, <1>3, <1>4, <1>5, <1>6, <1>7, <1>8 DEF Next

\* Collecting and running keep the order of acceptance.
LEMMA OrderStep ==
  ASSUME TypeOK, WorkerInv, DtorInv, OrderInv, [Next]_vars
  PROVE  OrderInv'
<1>. USE ThreadAssumption
         DEF TypeOK, WorkerInv, DtorInv, OrderInv, Call, Loop, Threads, flags, work, rest, InNotify,
    Destroying
<1>1. ASSUME NEW t \in Threads, NEW j \in Jobs, Push(t, j)  PROVE OrderInv'
  <2>1. CASE QueueJob(t, j)
    <3>1. pc[Owner] # "gone" /\ pc'[Owner] # "gone" /\ dropped = <<>>
      BY <2>1 DEF QueueJob, PushJob, MayIssue
    <3>2. /\ ran \o activeWork \in Seq(Jobs)
          /\ (ran \o activeWork) \o queue \in Seq(Jobs)
          /\ (ran \o activeWork) \o Append(queue, j) \in Seq(Jobs)
      BY ConcatProperties, AppendProperties
    <3>3. accepted = (ran \o activeWork) \o queue
      BY <3>1, <3>2, ConcatEmptySeq
    <3>4. (ran \o activeWork) \o Append(queue, j) = Append((ran \o activeWork) \o queue, j)
      <4>1. \A s, u \in Seq(Jobs) : s \o Append(u, j) = Append(s \o u, j)
        BY ONLY j \in Jobs, ConcatOfAppend
      <4>. QED
        BY <3>2, <4>1
    <3>5. accepted' = ((ran' \o activeWork') \o queue') \o dropped'
      BY <2>1, <3>1, <3>2, <3>3, <3>4, ConcatEmptySeq DEF QueueJob, PushJob
    <3>. QED
      BY <2>1, <3>1, <3>5 DEF QueueJob, PushJob
  <2>2. CASE QueueJobFull(t, j)
    BY <2>2 DEF QueueJobFull
  <2>. QED
    BY <1>1, <2>1, <2>2 DEF Push
<1>2. ASSUME NEW t \in Threads, NotifyStep(t)  PROVE OrderInv'
  BY <1>2 DEF NotifyStep, NotifyTest, NotifyStore, NotifyLock, NotifySignal, NotifyMark, AfterNotify
<1>3. ASSUME NEW c \in Clients, WaitCall(c) \/ WaitReturn(c)  PROVE OrderInv'
  BY <1>3 DEF WaitCall, WaitReturn
<1>4. CASE DtorBegin
  BY <1>4 DEF DtorBegin
<1>5. CASE DtorStep
  <2>1. CASE DtorWaitReturn \/ DtorKill
    BY <2>1 DEF DtorWaitReturn, DtorKill
  <2>2. CASE DtorJoin
    <3>1. dropped = <<>> /\ (ran \o activeWork) \in Seq(Jobs)
      BY <2>2, ConcatProperties DEF DtorJoin
    <3>2. accepted = (ran \o activeWork) \o queue
      BY <3>1, ConcatProperties, ConcatEmptySeq
    <3>3. (ran \o activeWork) \o <<>> = ran \o activeWork
      BY <3>1, ConcatEmptySeq
    <3>. QED
      BY <2>2, <3>2, <3>3 DEF DtorJoin
  <2>. QED
    BY <1>5, <2>1, <2>2 DEF DtorStep
<1>6. CASE LoopStep
  <2>1. CASE Collect
    <3>1. activeWork = <<>> /\ activeWork' = queue /\ queue' = <<>>
      BY <2>1, ConcatEmptySeq DEF Collect, CollectWork
    <3>2. (ran \o activeWork) \o queue = (ran \o queue) \o <<>>
      BY <3>1, ConcatProperties, ConcatEmptySeq
    <3>. QED
      BY <2>1, <3>1, <3>2 DEF Collect, CollectWork
  <2>2. CASE FinishJob
    <3>1. activeWork # <<>>
      BY <2>2 DEF FinishJob
    <3>2. \A s, t \in Seq(Jobs) : t # <<>> => Append(s, Head(t)) \o Tail(t) = s \o t
      BY HeadThenTail
    <3>. QED
      BY <2>2, <3>1, <3>2 DEF FinishJob
  <2>3. CASE LoopTest \/ LoopLen \/ LoopIdle \/ WaitLock \/ WaitPred \/ WaitBlock \/ WaitClear \/ InvokeNext
    BY <2>3
    DEF LoopTest, LoopLen, LoopIdle, WaitLock, WaitPred, WaitBlock, WaitClear, WaitDone, InvokeNext
  <2>. QED
    BY <1>6, <2>1, <2>2, <2>3 DEF LoopStep

<1>7. CASE SpuriousWakeup
  BY <1>7 DEF SpuriousWakeup
<1>8. CASE UNCHANGED vars
  BY <1>8 DEF vars
<1>. QED
  BY <1>1, <1>2, <1>3, <1>4, <1>5, <1>6, <1>7, <1>8 DEF Next

\* The queue never grows past its ring.
LEMMA CapacityStep ==
  ASSUME TypeOK, WorkerInv, DtorInv, CapacityInv, [Next]_vars
  PROVE  CapacityInv'
<1>. USE ThreadAssumption, BoundAssumption
         DEF TypeOK, WorkerInv, DtorInv, CapacityInv, Call, Loop, Threads, flags, work, rest, InNotify,
    Destroying
<1>1. ASSUME NEW t \in Threads, NEW j \in Jobs, Push(t, j)  PROVE CapacityInv'
  BY <1>1 DEF Push, QueueJob, PushJob, QueueJobFull, MayIssue
<1>2. ASSUME NEW t \in Threads, NotifyStep(t)  PROVE CapacityInv'
  BY <1>2 DEF NotifyStep, NotifyTest, NotifyStore, NotifyLock, NotifySignal, NotifyMark, AfterNotify
<1>3. ASSUME NEW c \in Clients, WaitCall(c) \/ WaitReturn(c)  PROVE CapacityInv'
  BY <1>3 DEF WaitCall, WaitReturn
<1>4. CASE DtorBegin
  BY <1>4 DEF DtorBegin
<1>5. CASE DtorStep
  BY <1>5 DEF DtorStep, DtorWaitReturn, DtorKill, DtorJoin
<1>6. CASE LoopStep
  BY <1>6
  DEF LoopStep, LoopTest, LoopLen, LoopIdle, WaitLock, WaitPred, WaitBlock, WaitClear, WaitDone,
      Collect, CollectWork, InvokeNext, FinishJob
<1>7. CASE SpuriousWakeup
  BY <1>7 DEF SpuriousWakeup
<1>8. CASE UNCHANGED vars
  BY <1>8 DEF vars
<1>. QED
  BY <1>1, <1>2, <1>3, <1>4, <1>5, <1>6, <1>7, <1>8 DEF Next

\* What is left in the queue at join was queued by jobs.
LEMMA DroppedStep ==
  ASSUME TypeOK, WorkerInv, DtorInv, KeepInv, OrderInv, OnlyNestedDropped, [Next]_vars
  PROVE  OnlyNestedDropped'
<1>. USE ThreadAssumption, JobAssumption
         DEF TypeOK, WorkerInv, DtorInv, KeepInv, OnlyNestedDropped, OrderInv, WillCollect, Call, Loop,
    Threads, flags, work, rest, InNotify, Destroying
<1>1. ASSUME NEW t \in Threads, NEW j \in Jobs, Push(t, j)  PROVE OnlyNestedDropped'
  BY <1>1 DEF Push, QueueJob, PushJob, QueueJobFull, MayIssue
<1>2. ASSUME NEW t \in Threads, NotifyStep(t)  PROVE OnlyNestedDropped'
  BY <1>2 DEF NotifyStep, NotifyTest, NotifyStore, NotifyLock, NotifySignal, NotifyMark, AfterNotify
<1>3. ASSUME NEW c \in Clients, WaitCall(c) \/ WaitReturn(c)  PROVE OnlyNestedDropped'
  BY <1>3 DEF WaitCall, WaitReturn
<1>4. CASE DtorBegin
  BY <1>4 DEF DtorBegin
<1>5. CASE DtorStep
  <2>1. CASE DtorWaitReturn \/ DtorKill
    BY <2>1 DEF DtorWaitReturn, DtorKill
  <2>2. CASE DtorJoin
    <3>1. \A j \in Range(queue) : Issuer[j] \notin Clients
      BY <2>2 DEF DtorJoin
    <3>2. Range(queue) \subseteq Jobs
      BY RangeOfSeq
    <3>. QED
      BY <2>2, <3>1, <3>2 DEF DtorJoin
  <2>. QED
    BY <1>5, <2>1, <2>2 DEF DtorStep
<1>6. CASE LoopStep
  BY <1>6
  DEF LoopStep, LoopTest, LoopLen, LoopIdle, WaitLock, WaitPred, WaitBlock, WaitClear, WaitDone,
      Collect, CollectWork, InvokeNext, FinishJob
<1>7. CASE SpuriousWakeup
  BY <1>7 DEF SpuriousWakeup
<1>8. CASE UNCHANGED vars
  BY <1>8 DEF vars
<1>. QED
  BY <1>1, <1>2, <1>3, <1>4, <1>5, <1>6, <1>7, <1>8 DEF Next
-----------------------------------------------------------------------------
(* The theorems *)

LEMMA InitIInv == Init => IInv
<1>. SUFFICES ASSUME Init  PROVE IInv
  OBVIOUS
<1>1. Range(<<>>) = {}
  BY RangeOfEmpty
<1>2. TypeOK
  BY ThreadAssumption, EmptySeq DEF Init, TypeOK, Threads, InNotify
<1>3. MutexInv /\ WorkerInv /\ DtorInv
  BY ThreadAssumption DEF Init, MutexInv, WorkerInv, DtorInv, Threads, InNotify, Destroying
<1>4. CapacityInv
  BY BoundAssumption, EmptySeq DEF Init, CapacityInv
<1>5. OrderInv
  BY ConcatEmptySeq, EmptySeq DEF Init, OrderInv
<1>6. NoMissedNotify /\ KeepInv /\ OnlyNestedDropped
  BY <1>1 DEF Init, NoMissedNotify, KeepInv, OnlyNestedDropped
<1>. QED
  BY <1>2, <1>3, <1>4, <1>5, <1>6 DEF IInv

LEMMA StepIInv == IInv /\ [Next]_vars => IInv'
BY TypeStep, MutexStep, DtorInvStep, NotifyInvStep, KeepStep, OrderStep, CapacityStep, DroppedStep
DEF IInv

LEMMA Invariance == Spec => []IInv
BY InitIInv, StepIInv, PTL DEF Spec

\* Type correctness: every flag, sequence and program counter of the class
\* keeps its type.
THEOREM TypeCorrect == Spec => []TypeOK
<1>1. IInv => TypeOK
  BY DEF IInv
<1>. QED
  BY <1>1, Invariance, PTL

\* No notification is missed: see NoMissedNotify in JobThread.
THEOREM NotifyReachesSleeper == Spec => []NoMissedNotify
<1>1. IInv => NoMissedNotify
  BY DEF IInv
<1>. QED
  BY <1>1, Invariance, PTL

\* The destructor runs all that clients queued: see OnlyNestedDropped.
THEOREM DestructorRunsClientJobs == Spec => []OnlyNestedDropped
<1>1. IInv => OnlyNestedDropped
  BY DEF IInv
<1>. QED
  BY <1>1, Invariance, PTL

\* executeQueuedJobs never overruns ActiveJobs, and the counter read by
\* JobSystem is the length of the queue: see WorkFits.
THEOREM CollectedWorkFits == Spec => []WorkFits
<1>1. IInv => WorkFits
  BY DEF IInv, CapacityInv, WorkFits
<1>. QED
  BY <1>1, Invariance, PTL

-----------------------------------------------------------------------------
(* The refinement of JobExecutor *)

\* Nothing is known to the executor that was not accepted.
LEMMA KnownIsAccepted ==
  ASSUME TypeOK, OrderInv, NEW j, Executor!Known(j)
  PROVE  j \in Range(accepted)
<1>. ran \in Seq(Jobs) /\ activeWork \in Seq(Jobs) /\ queue \in Seq(Jobs) /\ dropped \in Seq(Jobs)
  BY DEF TypeOK
<1>1. /\ ran \o activeWork \in Seq(Jobs)
      /\ (ran \o activeWork) \o queue \in Seq(Jobs)
      /\ activeWork \o queue \in Seq(Jobs)
  BY ConcatProperties
<1>2. Range(accepted) = ((Range(ran) \cup Range(activeWork)) \cup Range(queue)) \cup Range(dropped)
  <2>1. Range(ran \o activeWork) = Range(ran) \cup Range(activeWork)
    BY RangeConcatenation
  <2>2. Range((ran \o activeWork) \o queue) = Range(ran \o activeWork) \cup Range(queue)
    BY <1>1, RangeConcatenation
  <2>3. Range(((ran \o activeWork) \o queue) \o dropped)
          = Range((ran \o activeWork) \o queue) \cup Range(dropped)
    BY <1>1, RangeConcatenation
  <2>. QED
    BY <2>1, <2>2, <2>3 DEF OrderInv
<1>3. Range(activeWork \o queue) = Range(activeWork) \cup Range(queue)
  BY RangeConcatenation
<1>4. j \in Range(activeWork \o queue) \cup Range(ran) \cup Range(dropped)
  BY DEF Executor!Known, Range
<1>. QED
  BY <1>2, <1>3, <1>4

LEMMA ExecutorStep ==
  ASSUME IInv, [Next]_vars
  PROVE  [Executor!Next]_(Executor!vars)
<1>. USE ThreadAssumption
DEF IInv, TypeOK, WorkerInv, DtorInv, Call, Loop, InNotify, Threads, flags, work, rest, Destroying
<1>1. ASSUME NEW t \in Threads, NEW j \in Jobs, QueueJob(t, j)
      PROVE  Executor!Next
  <2>1. pc[Owner] # "gone" /\ pc'[Owner] # "gone"
    BY <1>1 DEF QueueJob, PushJob, MayIssue
  <2>2. ~Executor!Known(j)
    BY <1>1, KnownIsAccepted DEF QueueJob, PushJob, MayIssue
  <2>3. activeWork' \o queue' = Append(activeWork \o queue, j)
    BY <1>1, ConcatOfAppend DEF QueueJob, PushJob
  <2>4. Executor!Accept(j)
    BY <1>1, <2>1, <2>2, <2>3 DEF QueueJob, PushJob, Executor!Accept
  <2>. QED
    BY <2>4 DEF Executor!Next
<1>2. CASE FinishJob
  <2>1. activeWork # <<>> /\ pc[Owner] # "gone" /\ pc'[Owner] # "gone"
    BY <1>2 DEF FinishJob
  <2>2. activeWork \o queue # <<>>
    BY <2>1, ConcatEqualIffEmpty
  <2>3. Head(activeWork \o queue) = Head(activeWork)
    BY <2>1, ConcatProperties
  <2>4. Tail(activeWork) \o queue = Tail(activeWork \o queue)
    BY <2>1, ConcatProperties
  <2>5. Executor!RunNext
    BY <1>2, <2>1, <2>2, <2>3, <2>4 DEF FinishJob, Executor!RunNext
  <2>. QED
    BY <2>5 DEF Executor!Next
<1>3. CASE DtorJoin
  <2>1. activeWork = <<>> /\ activeWork \o queue = queue
    BY <1>3, ConcatEmptySeq DEF DtorJoin
  <2>2. activeWork' \o queue' = <<>>
    BY <1>3, <2>1, ConcatEmptySeq DEF DtorJoin
  <2>3. Executor!Close
    BY <1>3, <2>1, <2>2 DEF DtorJoin, Executor!Close
  <2>. QED
    BY <2>3 DEF Executor!Next
<1>4. CASE Collect
  <2>1. activeWork' \o queue' = activeWork \o queue
    BY <1>4, ConcatEmptySeq, ConcatProperties DEF Collect, CollectWork
  <2>. QED
    BY <1>4, <2>1 DEF Collect, CollectWork, Executor!vars
<1>5. ASSUME NEW t \in Threads, NEW j \in Jobs, QueueJobFull(t, j)
      PROVE  UNCHANGED Executor!vars
  BY <1>5 DEF QueueJobFull, Executor!vars
<1>6. ASSUME NEW t \in Threads, NotifyStep(t)
      PROVE  UNCHANGED Executor!vars
  BY <1>6 DEF NotifyStep, NotifyTest, NotifyStore, NotifyLock, NotifySignal, NotifyMark,
              AfterNotify, Executor!vars
<1>7. ASSUME NEW c \in Clients, WaitCall(c) \/ WaitReturn(c)
      PROVE  UNCHANGED Executor!vars
  BY <1>7 DEF WaitCall, WaitReturn, Executor!vars
<1>8. CASE DtorBegin \/ DtorWaitReturn \/ DtorKill
  BY <1>8 DEF DtorBegin, DtorWaitReturn, DtorKill, Executor!vars
<1>9. CASE LoopTest \/ LoopLen \/ LoopIdle \/ WaitLock \/ WaitPred \/ WaitBlock \/ WaitClear
           \/ InvokeNext \/ SpuriousWakeup
  BY <1>9 DEF LoopTest, LoopLen, LoopIdle, WaitLock, WaitPred, WaitBlock, WaitClear, WaitDone,
              InvokeNext, SpuriousWakeup, Executor!vars
<1>10. CASE UNCHANGED vars
  BY <1>10 DEF vars, Executor!vars
<1>. QED
  BY <1>1, <1>2, <1>3, <1>4, <1>5, <1>6, <1>7, <1>8, <1>9, <1>10
  DEF Next, Push, DtorStep, LoopStep

\* JobThread implements JobExecutor: see ExecutorSpec.
THEOREM ImplementsExecutor == Spec => ExecutorSpec
<1>1. Init => Executor!Init
  BY ThreadAssumption, ConcatEmptySeq, EmptySeq DEF Init, Executor!Init, Threads
<1>2. IInv /\ [Next]_vars => [Executor!Next]_(Executor!vars)
  BY ExecutorStep
<1>. QED
  BY <1>1, <1>2, Invariance, PTL DEF Spec, ExecutorSpec, Executor!Spec
=============================================================================
