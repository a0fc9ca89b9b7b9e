-------------------------- MODULE JobSystemProofs --------------------------
(***************************************************************************)
(* Proofs about JobSystem: the selection goes through every thread once,   *)
(* whatever other callers do to the preferred index, so that an idle       *)
(* thread is found and otherwise a least loaded one.                       *)
(***************************************************************************)
EXTENDS JobSystem, TLAPS

\* How far behind the first thread of c's selection thread t is.
Offset(c, t) == IF t >= start[c] THEN t - start[c] ELSE t - start[c] + ThreadCount

\* A thread is in idle while it is idle.
IdleInv == \A c \in Clients : \A t \in idle[c] : Idle(t)

\* What client c knows while it looks at the threads in turn.
ScanInv(c) ==
  pc[c] \in {"flag", "count"} =>
    /\ i[c] < ThreadCount
    /\ \A t \in Threads : Offset(c, t) < i[c] => t \notin idle[c]
    /\ \A t \in Threads : seen[c][t] # NoLoad <=> Offset(c, t) < i[c]

\* A thread that was executing when its flag was read is not in idle.
FlagInv(c) == pc[c] = "count" /\ ~notExecuting[c] => Checked(c) \notin idle[c]

\* The remembered thread has the least load of those read.
LeastInv(c) ==
  pc[c] \in {"flag", "count"} =>
    /\ least[c] = NoLoad \/ least[c] = seen[c][best[c]]
    /\ \A t \in Threads : least[c] <= seen[c][t]

\* Loads only grow until a worker collects.
GrowInv(c) ==
  pc[c] \in {"flag", "count", "store"} /\ ~lowered[c] =>
    \A t \in Threads : seen[c][t] # NoLoad => seen[c][t] <= queuedJobCount[t]

\* When none was idle, all were looked at.
EndInv(c) ==
  Overloaded(c) =>
    /\ idle[c] = {}
    /\ \A t \in Threads : seen[c][t] # NoLoad /\ seen[c][best[c]] <= seen[c][t]

ClientInv(c) == ScanInv(c) /\ FlagInv(c) /\ LeastInv(c) /\ GrowInv(c) /\ EndInv(c)

IInv ==
  /\ TypeOK
  /\ IdleInv
  /\ \A c \in Clients : ClientInv(c)

-----------------------------------------------------------------------------
(* Arithmetic of the ring of threads *)

LEMMA ModSmall == ASSUME NEW n \in Nat \ {0}, NEW a \in 0 .. n - 1  PROVE a % n = a
  OBVIOUS

LEMMA ModWrap == ASSUME NEW n \in Nat \ {0}, NEW a \in n .. 2 * n - 1  PROVE a % n = a - n
  OBVIOUS

LEMMA ModRange == ASSUME NEW n \in Nat \ {0}, NEW a \in Nat  PROVE a % n \in 0 .. n - 1
  OBVIOUS

\* checkIndex is the thread whose turn it is.
LEMMA CheckedTurn ==
  ASSUME TypeOK, NEW c \in Clients, i[c] < ThreadCount
  PROVE  /\ Checked(c) \in Threads
         /\ \A t \in Threads : Offset(c, t) \in 0 .. ThreadCount - 1
         /\ \A t \in Threads : Offset(c, t) = i[c] <=> t = Checked(c)
<1>1. start[c] \in 0 .. ThreadCount - 1 /\ i[c] \in 0 .. ThreadCount - 1 /\ ThreadCount \in Nat \ {0}
  BY CountAssumption DEF TypeOK, Threads
<1>2. CASE start[c] + i[c] < ThreadCount
  <2>1. Checked(c) = start[c] + i[c]
    BY <1>1, <1>2, ModSmall DEF Checked
  <2>. QED
    BY <1>1, <1>2, <2>1 DEF Offset, Threads
<1>3. CASE start[c] + i[c] >= ThreadCount
  <2>1. Checked(c) = start[c] + i[c] - ThreadCount
    BY <1>1, <1>3, ModWrap DEF Checked
  <2>. QED
    BY <1>1, <1>3, <2>1 DEF Offset, Threads
<1>. QED
  BY <1>1, <1>2, <1>3

-----------------------------------------------------------------------------
(* Type correctness *)

LEMMA CheckedRange == ASSUME TypeOK, NEW c \in Clients  PROVE Checked(c) \in Threads
<1>1. start[c] + i[c] \in Nat
  BY CountAssumption DEF TypeOK, Threads
<1>. QED
  BY <1>1, CountAssumption, ModRange DEF Checked, Threads

LEMMA TypeInit == Init => TypeOK
  BY CountAssumption, LoadAssumption, BoundAssumption DEF Init, TypeOK, Threads

LEMMA TypeStep == TypeOK /\ [Next]_vars => TypeOK'
<1>. SUFFICES ASSUME TypeOK, [Next]_vars  PROVE TypeOK'
  OBVIOUS
<1>. USE CountAssumption, LoadAssumption, BoundAssumption, ClientAssumption
<1>1. ASSUME NEW c \in Clients, LoadPreferred(c)  PROVE TypeOK'
  <2>1. /\ jobs' \in 0 .. MaxJobs
        /\ pc' = [pc EXCEPT ![c] = "flag"]
        /\ UNCHANGED <<currentOptimalThread, isExecuting, queuedJobCount, activeWork, alive>>
    BY <1>1 DEF TypeOK, LoadPreferred, Call, Write, threads
  <2>2. /\ start' \in [Clients -> Threads] /\ best' \in [Clients -> Threads]
        /\ i' \in [Clients -> Nat] /\ least' \in [Clients -> 0 .. NoLoad]
        /\ notExecuting' \in [Clients -> BOOLEAN] /\ lowered' \in [Clients -> BOOLEAN]
    BY <1>1 DEF TypeOK, LoadPreferred, Begin, Write
  <2>3. seen' \in [Clients -> [Threads -> 0 .. NoLoad]]
    BY <1>1 DEF TypeOK, LoadPreferred, Begin, Write
  <2>4. idle' \in [Clients -> SUBSET Threads]
    BY <1>1 DEF TypeOK, LoadPreferred, Begin, Write
  <2>. QED
    BY <2>1, <2>2, <2>3, <2>4 DEF TypeOK
<1>2. ASSUME NEW c \in Clients, ReadFlag(c)  PROVE TypeOK'
  BY <1>2 DEF TypeOK, ReadFlag, Call, Write, threads, history
<1>3. ASSUME NEW c \in Clients, TakeIdle(c)  PROVE TypeOK'
  <2>1. UNCHANGED <<currentOptimalThread, isExecuting, queuedJobCount, activeWork, alive, jobs, start, i, notExecuting, least, seen, idle, lowered>>
    BY <1>3 DEF TakeIdle, Call, Write, threads, scan, history
  <2>2. pc' \in [Clients -> {"ready", "flag", "count", "store", "push", "test", "mark",
                            "wait", "dtorWait", "delete", "gone"}]
    BY <1>3 DEF TypeOK, TakeIdle, Call, Write
  <2>3. best' \in [Clients -> Threads]
    BY <1>3, CheckedRange DEF TypeOK, TakeIdle, Call, Write
  <2>. QED
    BY <2>1, <2>2, <2>3 DEF TypeOK
<1>4. ASSUME NEW c \in Clients, PassOver(c)  PROVE TypeOK'
  <2>1. UNCHANGED <<currentOptimalThread, isExecuting, queuedJobCount, activeWork, alive, jobs, start, notExecuting, idle, lowered>>
    BY <1>4 DEF PassOver, PassTo, Remember, Call, Write, threads, scan, history
  <2>2. pc' \in [Clients -> {"ready", "flag", "count", "store", "push", "test", "mark",
                            "wait", "dtorWait", "delete", "gone"}]
    BY <1>4 DEF TypeOK, PassOver, PassTo, Remember, Call, Write
  <2>3. queuedJobCount[Checked(c)] \in 0 .. NoLoad
    BY <1>4, CheckedRange DEF TypeOK, PassOver, PassTo, Remember, Call, Write
  <2>4. best' \in [Clients -> Threads]
    <3>1. best' = Write(best, c, Checked(c)) \/ best' = best
      BY <1>4 DEF PassOver, Remember
    <3>2. best \in [Clients -> Threads] /\ Checked(c) \in Threads
      BY CheckedRange DEF TypeOK
    <3>. QED
      BY <3>1, <3>2 DEF Write
  <2>5. least' \in [Clients -> 0 .. NoLoad]
    BY <1>4, <2>3 DEF TypeOK, PassOver, PassTo, Remember, Call, Write
  <2>6. seen' \in [Clients -> [Threads -> 0 .. NoLoad]]
    BY <1>4, <2>3 DEF TypeOK, PassOver, PassTo, Remember, Call, Write
  <2>7. i' \in [Clients -> Nat]
    BY <1>4 DEF TypeOK, PassOver, PassTo, Remember, Call, Write
  <2>. QED
    BY <2>1, <2>2, <2>3, <2>4, <2>5, <2>6, <2>7 DEF TypeOK
<1>5. ASSUME NEW c \in Clients, StoreNext(c)  PROVE TypeOK'
  <2>1. UNCHANGED <<isExecuting, queuedJobCount, activeWork, alive, jobs, best>>
    BY <1>5 DEF StoreNext, StoreIndex, Begin, Call, Write, threads, scan, history
  <2>2. pc' \in [Clients -> {"ready", "flag", "count", "store", "push", "test", "mark",
                            "wait", "dtorWait", "delete", "gone"}]
    BY <1>5 DEF TypeOK, StoreNext, StoreIndex, Begin, Call, Write
  <2>3. currentOptimalThread' \in Threads
    <3>0. best[c] \in Threads
      BY DEF TypeOK
    <3>1. best[c] + 1 \in Nat
      BY <3>0 DEF Threads
    <3>2. (best[c] + 1) % ThreadCount \in Threads
      BY <3>1, ModRange DEF Threads
    <3>. QED
      BY <1>5, <3>2 DEF StoreNext, StoreIndex
  <2>0. 0 \in Threads
    BY DEF Threads
  <2>4. /\ start' \in [Clients -> Threads]
        /\ i' \in [Clients -> Nat] /\ least' \in [Clients -> 0 .. NoLoad]
        /\ notExecuting' \in [Clients -> BOOLEAN] /\ lowered' \in [Clients -> BOOLEAN]
    BY <1>5, <2>0 DEF TypeOK, StoreNext, StoreIndex, Begin, Call, Write
  <2>5. seen' \in [Clients -> [Threads -> 0 .. NoLoad]]
    BY <1>5 DEF TypeOK, StoreNext, StoreIndex, Begin, Call, Write
  <2>6. idle' \in [Clients -> SUBSET Threads]
    BY <1>5 DEF TypeOK, StoreNext, StoreIndex, Begin, Call, Write
  <2>. QED
    BY <2>1, <2>2, <2>3, <2>4, <2>5, <2>6 DEF TypeOK
<1>6. ASSUME NEW c \in Clients, QueueJob(c)  PROVE TypeOK'
  <2>1. UNCHANGED <<currentOptimalThread, isExecuting, activeWork, alive, jobs, start, i, notExecuting, best, least, seen, lowered>>
    BY <1>6 DEF QueueJob, NotIdle, Call, Write, threads, scan, history
  <2>2. pc' \in [Clients -> {"ready", "flag", "count", "store", "push", "test", "mark",
                            "wait", "dtorWait", "delete", "gone"}]
    BY <1>6 DEF TypeOK, QueueJob, NotIdle, Call, Write
  <2>3. queuedJobCount' \in [Threads -> 0 .. QUEUE_CAPACITY]
    BY <1>6 DEF TypeOK, QueueJob, NotIdle, Call, Write
  <2>4. idle' \in [Clients -> SUBSET Threads]
    BY <1>6 DEF TypeOK, QueueJob, NotIdle, Call, Write
  <2>. QED
    BY <2>1, <2>2, <2>3, <2>4 DEF TypeOK
<1>7. ASSUME NEW c \in Clients, NotifyTest(c)  PROVE TypeOK'
  <2>1. UNCHANGED <<currentOptimalThread, isExecuting, queuedJobCount, activeWork, alive, jobs, start, i, notExecuting, best, least, seen, idle, lowered>>
    BY <1>7 DEF NotifyTest, Call, Write, threads, scan, history
  <2>2. pc' \in [Clients -> {"ready", "flag", "count", "store", "push", "test", "mark",
                            "wait", "dtorWait", "delete", "gone"}]
    BY <1>7 DEF TypeOK, NotifyTest, Call, Write
  <2>. QED
    BY <2>1, <2>2 DEF TypeOK
<1>8. ASSUME NEW c \in Clients, NotifyMark(c)  PROVE TypeOK'
  <2>1. UNCHANGED <<currentOptimalThread, queuedJobCount, activeWork, alive, jobs, start, i, notExecuting, best, least, seen, lowered>>
    BY <1>8 DEF NotifyMark, NotIdle, Call, Write, threads, scan, history
  <2>2. pc' \in [Clients -> {"ready", "flag", "count", "store", "push", "test", "mark",
                            "wait", "dtorWait", "delete", "gone"}]
    BY <1>8 DEF TypeOK, NotifyMark, NotIdle, Call, Write
  <2>3. isExecuting' \in [Threads -> BOOLEAN]
    BY <1>8 DEF TypeOK, NotifyMark, NotIdle, Call, Write
  <2>4. idle' \in [Clients -> SUBSET Threads]
    BY <1>8 DEF TypeOK, NotifyMark, NotIdle, Call, Write
  <2>. QED
    BY <2>1, <2>2, <2>3, <2>4 DEF TypeOK
<1>9. ASSUME NEW t \in Threads, Collect(t)  PROVE TypeOK'
  <2>1. UNCHANGED <<currentOptimalThread, isExecuting, alive, jobs, pc, start, i, notExecuting, best, least, seen, idle>>
    BY <1>9 DEF Collect, Write, threads, scan, history
  <2>2. activeWork' \in [Threads -> Nat]
    BY <1>9 DEF TypeOK, Collect, Write
  <2>3. queuedJobCount' \in [Threads -> 0 .. QUEUE_CAPACITY]
    BY <1>9 DEF TypeOK, Collect, Write
  <2>4. lowered' \in [Clients -> BOOLEAN]
    BY <1>9 DEF TypeOK, Collect, Write
  <2>. QED
    BY <2>1, <2>2, <2>3, <2>4 DEF TypeOK
<1>10. ASSUME NEW t \in Threads, FinishJob(t)  PROVE TypeOK'
  <2>1. UNCHANGED <<currentOptimalThread, isExecuting, queuedJobCount, alive, jobs, pc, start, i, notExecuting, best, least, seen, idle, lowered>>
    BY <1>10 DEF FinishJob, Write, threads, scan, history
  <2>2. activeWork' \in [Threads -> Nat]
    BY <1>10 DEF TypeOK, FinishJob, Write
  <2>. QED
    BY <2>1, <2>2 DEF TypeOK
<1>11. ASSUME NEW t \in Threads, LoopIdle(t)  PROVE TypeOK'
  <2>1. UNCHANGED <<currentOptimalThread, activeWork, queuedJobCount, alive, jobs, pc, start, i, notExecuting, best, least, seen, idle, lowered>>
    BY <1>11 DEF LoopIdle, Write, threads, scan, history
  <2>2. isExecuting' \in [Threads -> BOOLEAN]
    BY <1>11 DEF TypeOK, LoopIdle, Write
  <2>. QED
    BY <2>1, <2>2 DEF TypeOK
<1>12. ASSUME NEW c \in Clients, WaitCall(c)  PROVE TypeOK'
  <2>1. UNCHANGED <<currentOptimalThread, isExecuting, queuedJobCount, activeWork, alive, jobs, start, notExecuting, best, least, seen, idle, lowered>>
    BY <1>12 DEF WaitCall, Call, Write, threads, scan, history
  <2>2. pc' \in [Clients -> {"ready", "flag", "count", "store", "push", "test", "mark",
                            "wait", "dtorWait", "delete", "gone"}]
    BY <1>12 DEF TypeOK, WaitCall, Call, Write
  <2>3. i' \in [Clients -> Nat]
    BY <1>12 DEF TypeOK, WaitCall, Call, Write
  <2>. QED
    BY <2>1, <2>2, <2>3 DEF TypeOK
<1>13. ASSUME NEW c \in Clients,
             WaitNext(c, "wait", "ready") \/ WaitNext(c, "dtorWait", "delete")  PROVE TypeOK'
  <2>1. UNCHANGED <<currentOptimalThread, isExecuting, queuedJobCount, activeWork, alive, jobs, start, notExecuting, best, least, seen, idle, lowered>>
    BY <1>13 DEF WaitNext, Write, threads, scan, history
  <2>2. pc' \in [Clients -> {"ready", "flag", "count", "store", "push", "test", "mark",
                            "wait", "dtorWait", "delete", "gone"}]
    BY <1>13 DEF TypeOK, WaitNext, Write
  <2>3. i' \in [Clients -> Nat]
    <3>1. i \in [Clients -> Nat] /\ i[c] \in Nat
      BY DEF TypeOK
    <3>2. (IF i[c] < ThreadCount - 1 THEN i[c] + 1 ELSE i[c]) \in Nat
      BY <3>1
    <3>. QED
      BY <1>13, <3>1, <3>2 DEF WaitNext, Write
  <2>. QED
    BY <2>1, <2>2, <2>3 DEF TypeOK
<1>14. ASSUME DtorBegin  PROVE TypeOK'
  <2>1. UNCHANGED <<currentOptimalThread, isExecuting, queuedJobCount, activeWork, alive, jobs, start, notExecuting, best, least, seen, idle, lowered>>
    BY <1>14 DEF DtorBegin, Call, Write, threads, scan, history
  <2>2. pc' \in [Clients -> {"ready", "flag", "count", "store", "push", "test", "mark",
                            "wait", "dtorWait", "delete", "gone"}]
    BY <1>14 DEF TypeOK, DtorBegin, Call, Write
  <2>3. i' \in [Clients -> Nat]
    BY <1>14 DEF TypeOK, DtorBegin, Call, Write
  <2>. QED
    BY <2>1, <2>2, <2>3 DEF TypeOK
<1>15. ASSUME DeleteThread  PROVE TypeOK'
  <2>1. UNCHANGED <<currentOptimalThread, isExecuting, queuedJobCount, activeWork, jobs, start, notExecuting, best, least, seen, idle, lowered>>
    BY <1>15 DEF DeleteThread, Write, threads, scan, history
  <2>2. pc' \in [Clients -> {"ready", "flag", "count", "store", "push", "test", "mark",
                            "wait", "dtorWait", "delete", "gone"}]
    BY <1>15 DEF TypeOK, DeleteThread, Write
  <2>3. i' \in [Clients -> Nat]
    <3>1. i \in [Clients -> Nat] /\ i[Owner] \in Nat
      BY DEF TypeOK
    <3>2. (IF i[Owner] = 0 THEN 0 ELSE i[Owner] - 1) \in Nat
      BY <3>1
    <3>. QED
      BY <1>15, <3>1, <3>2 DEF DeleteThread, Write
  <2>4. alive' \in [Threads -> BOOLEAN]
    BY <1>15 DEF TypeOK, DeleteThread, Write
  <2>. QED
    BY <2>1, <2>2, <2>3, <2>4 DEF TypeOK
<1>16. CASE UNCHANGED vars
  BY <1>16 DEF TypeOK, vars, threads, scan, history
<1>. QED
  BY <1>1, <1>2, <1>3, <1>4, <1>5, <1>6, <1>7, <1>8, <1>9, <1>10, <1>11, <1>12, <1>13, <1>14, <1>15, <1>16 DEF Next, SelectStep, RunStep, WorkerStep

-----------------------------------------------------------------------------
(* What a step does to a client that does not take it *)

\* Client d's locals stay; no thread becomes idle for it, and no load that it
\* may have read shrinks unnoticed.
Untouched(d) ==
  /\ pc'[d] = pc[d] /\ start'[d] = start[d] /\ i'[d] = i[d]
  /\ notExecuting'[d] = notExecuting[d] /\ best'[d] = best[d] /\ least'[d] = least[d]
  /\ seen'[d] = seen[d] /\ idle'[d] \subseteq idle[d]
  /\ lowered'[d] \/ (lowered'[d] = lowered[d] /\ \A t \in Threads : queuedJobCount[t] <= queuedJobCount'[t])

LEMMA Frame ==
  ASSUME TypeOK, TypeOK', NEW d \in Clients, ClientInv(d), Untouched(d)
  PROVE  ClientInv(d)'
<1>. USE LoadAssumption
<1>1. ScanInv(d)'
  BY DEF ClientInv, ScanInv, Untouched, Offset
<1>2. FlagInv(d)'
  BY DEF ClientInv, FlagInv, Untouched, Checked
<1>3. LeastInv(d)'
  BY DEF ClientInv, LeastInv, Untouched
<1>4. GrowInv(d)'
  <2>1. /\ seen[d] \in [Threads -> 0 .. NoLoad]
        /\ queuedJobCount \in [Threads -> 0 .. QUEUE_CAPACITY]
        /\ queuedJobCount' \in [Threads -> 0 .. QUEUE_CAPACITY]
    BY DEF TypeOK
  <2>. QED
    BY <2>1 DEF ClientInv, GrowInv, Untouched
<1>5. EndInv(d)'
  BY DEF ClientInv, EndInv, Overloaded, Untouched
<1>. QED
  BY <1>1, <1>2, <1>3, <1>4, <1>5 DEF ClientInv

\* A client that is not selecting a thread knows nothing.
LEMMA Outside ==
  ASSUME NEW d \in Clients, pc'[d] \notin {"flag", "count", "store"}
  PROVE  ClientInv(d)'
  BY DEF ClientInv, ScanInv, FlagInv, LeastInv, GrowInv, EndInv, Overloaded

LEMMA InvInit == Init => IInv
<1>. SUFFICES ASSUME Init  PROVE IInv
  OBVIOUS
<1>1. TypeOK
  BY TypeInit
<1>2. IdleInv
  BY DEF Init, IdleInv
<1>3. ASSUME NEW c \in Clients  PROVE ClientInv(c)
  BY DEF Init, ClientInv, ScanInv, FlagInv, LeastInv, GrowInv, EndInv, Overloaded
<1>. QED
  BY <1>1, <1>2, <1>3 DEF IInv

\* A thread leaves idle before, or when, it stops being idle.
LEMMA IdleStep == TypeOK /\ IdleInv /\ [Next]_vars => IdleInv'
<1>. SUFFICES ASSUME TypeOK, IdleInv, [Next]_vars  PROVE IdleInv'
  OBVIOUS
<1>1. ASSUME UNCHANGED <<idle, isExecuting, queuedJobCount>>  PROVE IdleInv'
  BY <1>1 DEF IdleInv, Idle
<1>2. ASSUME NEW c \in Clients, LoadPreferred(c)  PROVE IdleInv'
  <2>1. UNCHANGED <<isExecuting, queuedJobCount>>
    BY <1>2 DEF LoadPreferred, threads
  <2>2. \A d \in Clients : idle'[d] = IF d = c THEN {t \in Threads : Idle(t)} ELSE idle[d]
    BY <1>2 DEF LoadPreferred, Begin, Write, TypeOK
  <2>. QED
    BY <2>1, <2>2 DEF IdleInv, Idle
<1>3. ASSUME NEW c \in Clients, StoreNext(c)  PROVE IdleInv'
  <2>1. UNCHANGED <<isExecuting, queuedJobCount>>
    BY <1>3 DEF StoreNext, StoreIndex, threads
  <2>2. \A d \in Clients : idle'[d] = IF d = c THEN {} ELSE idle[d]
    BY <1>3 DEF StoreNext, StoreIndex, Begin, Write, TypeOK
  <2>. QED
    BY <2>1, <2>2 DEF IdleInv, Idle
<1>4. ASSUME NEW c \in Clients, QueueJob(c) \/ NotifyMark(c)  PROVE IdleInv'
  <2>1. \A d \in Clients : idle'[d] = idle[d] \ {best[c]}
    BY <1>4 DEF QueueJob, NotifyMark, NotIdle
  <2>2. \A t \in Threads \ {best[c]} : isExecuting'[t] = isExecuting[t] /\ queuedJobCount'[t] = queuedJobCount[t]
    BY <1>4 DEF QueueJob, NotifyMark, Write, TypeOK
  <2>. QED
    BY <2>1, <2>2 DEF IdleInv, Idle, TypeOK
<1>5. ASSUME NEW t \in Threads, Collect(t) \/ LoopIdle(t)  PROVE IdleInv'
  <2>1. idle' = idle
    BY <1>5 DEF Collect, LoopIdle, history
  <2>2. \A u \in Threads : Idle(u) => Idle(u)'
    BY <1>5 DEF Collect, LoopIdle, Idle, Write, TypeOK
  <2>. QED
    BY <2>1, <2>2 DEF IdleInv, TypeOK
<1>. QED
  BY <1>1, <1>2, <1>3, <1>4, <1>5
     DEF Next, SelectStep, RunStep, WorkerStep, ReadFlag, TakeIdle, PassOver, PassTo, NotifyTest, FinishJob,
         WaitCall, WaitNext, DtorBegin, DeleteThread, vars, threads, history

\* The steps of one client leave the others untouched, and so do the workers.
LEMMA OthersUntouched ==
  ASSUME TypeOK, NEW d \in Clients,
         \/ \E c \in Clients \ {d} :
              \/ SelectStep(c) \/ RunStep(c) \/ WaitCall(c)
              \/ WaitNext(c, "wait", "ready") \/ WaitNext(c, "dtorWait", "delete")
         \/ \E t \in Threads : WorkerStep(t)
         \/ (DtorBegin \/ DeleteThread) /\ d # Owner
         \/ UNCHANGED vars
  PROVE  Untouched(d)
<1>. USE ClientAssumption DEF Untouched, Write, Call
<1>1. \A t \in Threads : queuedJobCount[t] \in Nat
  BY LoadAssumption DEF TypeOK
<1>2. ASSUME NEW c \in Clients \ {d}, LoadPreferred(c) \/ StoreNext(c)  PROVE Untouched(d)
  BY <1>1, <1>2 DEF TypeOK, LoadPreferred, StoreNext, StoreIndex, Begin, threads
<1>3. ASSUME NEW c \in Clients \ {d}, ReadFlag(c) \/ TakeIdle(c) \/ PassOver(c)  PROVE Untouched(d)
  BY <1>1, <1>3 DEF TypeOK, ReadFlag, TakeIdle, PassOver, PassTo, Remember, threads, history
<1>4. ASSUME NEW c \in Clients \ {d}, QueueJob(c)  PROVE Untouched(d)
  <2>1. \A t \in Threads : queuedJobCount[t] <= queuedJobCount'[t]
    BY <1>1, <1>4 DEF TypeOK, QueueJob
  <2>. QED
    BY <1>4, <2>1 DEF TypeOK, QueueJob, NotIdle, scan
<1>5. ASSUME NEW c \in Clients \ {d}, NotifyTest(c) \/ NotifyMark(c)  PROVE Untouched(d)
  BY <1>1, <1>5 DEF TypeOK, NotifyTest, NotifyMark, NotIdle, scan, threads, history
<1>6. ASSUME NEW c \in Clients \ {d},
             WaitCall(c) \/ WaitNext(c, "wait", "ready") \/ WaitNext(c, "dtorWait", "delete")
      PROVE  Untouched(d)
  BY <1>1, <1>6 DEF TypeOK, WaitCall, WaitNext, threads, history
<1>7. ASSUME NEW t \in Threads, WorkerStep(t)  PROVE Untouched(d)
  BY <1>1, <1>7 DEF TypeOK, WorkerStep, Collect, FinishJob, LoopIdle, scan, history
<1>8. ASSUME DtorBegin \/ DeleteThread, d # Owner  PROVE Untouched(d)
  BY <1>1, <1>8 DEF TypeOK, DtorBegin, DeleteThread, threads, history
<1>9. CASE UNCHANGED vars
  BY <1>1, <1>9 DEF vars, threads, scan, history
<1>. QED
  BY <1>2, <1>3, <1>4, <1>5, <1>6, <1>7, <1>8, <1>9 DEF SelectStep, RunStep

\* A client looks at the next thread, and is not done before the last.
LEMMA PassOverKeeps ==
  ASSUME IInv, TypeOK', NEW d \in Clients, PassOver(d)
  PROVE  ClientInv(d)'
<1>. USE CountAssumption, LoadAssumption
<1>. DEFINE t0 == Checked(d)
            n == queuedJobCount[t0]
<1>0. TypeOK /\ IdleInv /\ ScanInv(d) /\ FlagInv(d) /\ LeastInv(d) /\ GrowInv(d)
  BY DEF IInv, ClientInv
<1>1. /\ pc[d] = "count" /\ pc'[d] = (IF i[d] + 1 < ThreadCount THEN "flag" ELSE "store")
      /\ i'[d] = i[d] + 1 /\ start'[d] = start[d] /\ ~(notExecuting[d] /\ n = 0)
      /\ idle'[d] = idle[d] /\ lowered'[d] = lowered[d] /\ queuedJobCount' = queuedJobCount
  BY <1>0 DEF PassOver, PassTo, Call, Write, threads, history, TypeOK
<1>2. i[d] < ThreadCount /\ i[d] \in Nat
  BY <1>0, <1>1 DEF ScanInv, TypeOK
<1>3. /\ t0 \in Threads
      /\ \A t \in Threads : Offset(d, t) \in 0 .. ThreadCount - 1
      /\ \A t \in Threads : Offset(d, t) = i[d] <=> t = t0
  BY <1>0, <1>2, CheckedTurn
<1>4. n \in 0 .. QUEUE_CAPACITY
  BY <1>0, <1>3 DEF TypeOK
<1>5. \A t \in Threads : seen'[d][t] = IF t = t0 THEN n ELSE seen[d][t]
  BY <1>0, <1>3 DEF PassOver, PassTo, TypeOK
<1>6. /\ best[d] \in Threads /\ least[d] \in 0 .. NoLoad
      /\ \A t \in Threads : seen[d][t] \in 0 .. NoLoad
  BY <1>0 DEF TypeOK
<1>7. IF least[d] > n THEN best'[d] = t0 /\ least'[d] = n ELSE best'[d] = best[d] /\ least'[d] = least[d]
  BY <1>0 DEF PassOver, Remember, Write, TypeOK
<1>8. t0 \notin idle[d]
  <2>1. CASE notExecuting[d]
    BY <1>0, <1>1, <2>1 DEF IdleInv, Idle
  <2>2. CASE ~notExecuting[d]
    BY <1>0, <1>1, <2>2 DEF FlagInv
  <2>. QED
    BY <2>1, <2>2
<1>9. \A t \in Threads : Offset(d, t)' = Offset(d, t)
  BY <1>1 DEF Offset
<1>10. \A t \in Threads : Offset(d, t) < i'[d] <=> (Offset(d, t) < i[d] \/ t = t0)
  BY <1>1, <1>2, <1>3
<1>11. \A t \in Threads : Offset(d, t) < i'[d] => t \notin idle'[d]
  BY <1>0, <1>1, <1>8, <1>10 DEF ScanInv
<1>12. \A t \in Threads : seen'[d][t] # NoLoad <=> Offset(d, t) < i'[d]
  BY <1>0, <1>1, <1>4, <1>5, <1>10 DEF ScanInv
<1>13. ScanInv(d)'
  BY <1>1, <1>2, <1>9, <1>11, <1>12 DEF ScanInv
<1>14. FlagInv(d)'
  BY <1>1 DEF FlagInv
<1>15. seen[d][t0] = NoLoad
  BY <1>0, <1>1, <1>2, <1>3 DEF ScanInv
<1>16. least'[d] = seen'[d][best'[d]] /\ least'[d] < NoLoad
  <2>1. CASE least[d] > n
    BY <1>3, <1>4, <1>5, <1>7, <2>1
  <2>2. CASE ~(least[d] > n)
    <3>1. least[d] = seen[d][best[d]] /\ least[d] # NoLoad
      BY <1>0, <1>1, <1>4, <1>6, <2>2 DEF LeastInv
    <3>. QED
      BY <1>5, <1>6, <1>7, <1>15, <2>2, <3>1
  <2>. QED
    BY <2>1, <2>2
<1>17. \A t \in Threads : least'[d] <= seen'[d][t]
  <2>1. \A t \in Threads : least[d] <= seen[d][t]
    BY <1>0, <1>1 DEF LeastInv
  <2>. QED
    BY <1>4, <1>5, <1>6, <1>7, <2>1
<1>18. LeastInv(d)'
  BY <1>16, <1>17 DEF LeastInv
<1>19. GrowInv(d)'
  <2>1. ~lowered[d] => \A t \in Threads : seen[d][t] # NoLoad => seen[d][t] <= queuedJobCount[t]
    BY <1>0, <1>1 DEF GrowInv
  <2>. QED
    BY <1>1, <1>4, <1>5, <2>1 DEF GrowInv
<1>20. EndInv(d)'
  <2>1. CASE pc'[d] = "flag"
    BY <2>1 DEF EndInv, Overloaded
  <2>2. CASE pc'[d] = "store"
    <3>1. i'[d] >= ThreadCount
      BY <1>1, <1>2, <2>2
    <3>2. \A t \in Threads : Offset(d, t) < i'[d]
      BY <1>1, <1>2, <1>3, <3>1
    <3>3. idle'[d] \subseteq Threads
      BY DEF TypeOK
    <3>. QED
      BY <1>11, <1>12, <1>16, <1>17, <3>2, <3>3 DEF EndInv
  <2>. QED
    BY <1>1, <2>1, <2>2
<1>. QED
  BY <1>13, <1>14, <1>18, <1>19, <1>20 DEF ClientInv

LEMMA ClientStep ==
  ASSUME IInv, TypeOK', [Next]_vars, NEW d \in Clients
  PROVE  ClientInv(d)'
<1>. USE CountAssumption, LoadAssumption, ClientAssumption
<1>0. TypeOK /\ IdleInv /\ ClientInv(d)
  BY DEF IInv
<1>1. CASE Untouched(d)
  BY <1>0, <1>1, Frame
<1>2. CASE LoadPreferred(d)
  <2>1. /\ pc'[d] = "flag" /\ i'[d] = 0 /\ least'[d] = NoLoad
        /\ \A t \in Threads : seen'[d][t] = NoLoad
    BY <1>0, <1>2 DEF LoadPreferred, Begin, Call, Write, TypeOK
  <2>2. start'[d] \in 0 .. ThreadCount - 1
    BY DEF TypeOK, Threads
  <2>3. \A t \in Threads : ~(Offset(d, t)' < 0)
    BY <2>2 DEF Offset, Threads
  <2>4. ScanInv(d)'
    BY <2>1, <2>3 DEF ScanInv
  <2>5. LeastInv(d)'
    BY <2>1 DEF LeastInv
  <2>6. FlagInv(d)' /\ GrowInv(d)' /\ EndInv(d)'
    BY <2>1 DEF FlagInv, GrowInv, EndInv, Overloaded
  <2>. QED
    BY <2>4, <2>5, <2>6 DEF ClientInv
<1>3. CASE ReadFlag(d)
  <2>1. /\ pc[d] = "flag" /\ pc'[d] = "count" /\ notExecuting'[d] = ~isExecuting[Checked(d)]
        /\ UNCHANGED <<start, i, best, least, seen, idle, lowered, queuedJobCount>>
    BY <1>0, <1>3 DEF ReadFlag, Call, Write, threads, history, TypeOK
  <2>2. FlagInv(d)'
    BY <1>0, <2>1 DEF FlagInv, IdleInv, Idle, Checked
  <2>3. ScanInv(d)' /\ LeastInv(d)' /\ GrowInv(d)' /\ EndInv(d)'
    BY <1>0, <2>1 DEF ClientInv, ScanInv, LeastInv, GrowInv, EndInv, Overloaded, Offset
  <2>. QED
    BY <2>2, <2>3 DEF ClientInv
<1>4. CASE TakeIdle(d)
  <2>1. /\ pc[d] = "count" /\ pc'[d] = "store" /\ best'[d] = Checked(d)
        /\ UNCHANGED <<start, i, notExecuting, least, seen, idle, lowered, queuedJobCount>>
    BY <1>0, <1>4 DEF TakeIdle, Call, Write, threads, history, TypeOK
  <2>2. i[d] < ThreadCount
    BY <1>0, <2>1 DEF ClientInv, ScanInv
  <2>3. seen[d][Checked(d)] = NoLoad
    BY <1>0, <2>1, <2>2, CheckedTurn DEF ClientInv, ScanInv, TypeOK
  <2>. QED
    BY <1>0, <2>1, <2>3 DEF ClientInv, ScanInv, FlagInv, LeastInv, GrowInv, EndInv, Overloaded
<1>5. CASE PassOver(d)
  BY <1>5, PassOverKeeps
<1>6. CASE StoreNext(d) \/ RunStep(d) \/ WaitCall(d) \/ WaitNext(d, "wait", "ready")
           \/ WaitNext(d, "dtorWait", "delete") \/ ((DtorBegin \/ DeleteThread) /\ d = Owner)
  <2>1. pc'[d] \notin {"flag", "count", "store"}
    BY <1>0, <1>6 DEF StoreNext, StoreIndex, RunStep, QueueJob, NotifyTest, NotifyMark, WaitCall, WaitNext,
                      DtorBegin, DeleteThread, Call, Write, TypeOK
  <2>. QED
    BY <2>1, Outside
<1>. QED
  BY <1>0, <1>1, <1>2, <1>3, <1>4, <1>5, <1>6, OthersUntouched DEF Next, SelectStep

-----------------------------------------------------------------------------
(* Theorems *)

LEMMA InvStep == IInv /\ [Next]_vars => IInv'
<1>. SUFFICES ASSUME IInv, [Next]_vars  PROVE IInv'
  OBVIOUS
<1>1. TypeOK'
  BY TypeStep DEF IInv
<1>2. IdleInv'
  BY IdleStep DEF IInv
<1>3. ASSUME NEW d \in Clients  PROVE ClientInv(d)'
  BY <1>1, ClientStep
<1>. QED
  BY <1>1, <1>2, <1>3 DEF IInv

LEMMA Invariant == Spec => []IInv
  BY InvInit, InvStep, PTL DEF Spec

\* Every variable keeps its type; in particular the atomic index stays in
\* range, whoever overwrites it.
THEOREM TypeCorrect == Spec => []TypeOK
<1>1. IInv => TypeOK
  BY DEF IInv
<1>. QED
  BY <1>1, Invariant, PTL

\* A thread that is idle throughout a selection is not passed over.
THEOREM NoneOverlooked == Spec => []NoIdleOverlooked
<1>1. IInv => NoIdleOverlooked
  BY DEF IInv, ClientInv, EndInv, NoIdleOverlooked
<1>. QED
  BY <1>1, Invariant, PTL

\* When no thread is idle, the one selected has at most the load of any other.
THEOREM LeastPicked == Spec => []LeastLoaded
<1>1. ASSUME IInv, NEW c \in Clients, Overloaded(c), ~lowered[c], NEW t \in Threads
      PROVE  seen[c][best[c]] <= queuedJobCount[t]
  <2>1. seen[c][best[c]] <= seen[c][t] /\ seen[c][t] <= queuedJobCount[t]
    BY <1>1 DEF IInv, ClientInv, EndInv, GrowInv, Overloaded
  <2>2. seen[c][best[c]] \in Int /\ seen[c][t] \in Int /\ queuedJobCount[t] \in Int
    BY <1>1, LoadAssumption DEF IInv, TypeOK
  <2>. QED
    BY <2>1, <2>2
<1>2. IInv => LeastLoaded
  BY <1>1 DEF LeastLoaded
<1>. QED
  BY <1>2, Invariant, PTL
=============================================================================
