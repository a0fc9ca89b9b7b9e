-------------------------- MODULE JobFutureProofs --------------------------
(***************************************************************************)
(* Proofs about JobFuture, for any jobs.                                   *)
(***************************************************************************)
EXTENDS JobFuture, FiniteSetTheorems, TLAPS

\* The jobs that have not run are queued once each, and hold their half of
\* the future; nobody else has that half.
QueueInv ==
  /\ \A i, k \in DOMAIN todo : todo[i] = todo[k] => i = k
  /\ \A j \in Jobs : "job" \in handles[j] <=> j \in Range(todo)
  /\ \A j \in Jobs : user[j] = "unmade" <=> ~Executor!Known(j)
  /\ at # "idle" => todo # <<>> /\ ~closed
  /\ closed => todo = <<>>
  /\ ~closed => dropped = <<>>

\* Who owns the block and holds its lock, from where its two users are.
BlockInv(j) ==
  /\ "user" \in handles[j] <=> user[j] \in {"held", "try", "test", "leave"}
  /\ alive[j] <=> handles[j] # {}
  /\ lock[j] = "user" <=> user[j] \in {"test", "leave"}
  /\ lock[j] = "job" <=> Running(j) /\ at \in {"data", "flag", "unlock"}

\* The flag follows the data, and is skipped only for a user that is gone.
ValueInv(j) ==
  /\ isReady[j] => user[j] # "unmade"
  /\ isReady[j] => (Running(j) /\ at \in {"unlock", "end"}) \/ "job" \notin handles[j]
  /\ isReady[j] /\ returned[j] = <<>> => actualData[j] = "result"
  /\ returned[j] # <<>> => returned[j][1] = "result" /\ isReady[j]
  /\ Running(j) /\ at = "flag" => actualData[j] = "result"
  /\ Running(j) /\ at = "unlock" => isReady[j]
  /\ Running(j) /\ at = "end" /\ ~isReady[j] => "user" \notin handles[j]

IInv == FutureTypeOK /\ QueueInv /\ \A j \in Jobs : BlockInv(j) /\ ValueInv(j)

-----------------------------------------------------------------------------
\* A step of one job or user, for the actions of FutureNext.
JobStep(j) == RunJob(j) \/ SetStep(j) \/ Wait(j) \/ WaitStep(j) \/ LetGo(j)

LEMMA RangeOfAppend ==
  ASSUME NEW S, NEW s \in Seq(S), NEW e \in S
  PROVE  Range(Append(s, e)) = Range(s) \cup {e}
<1>1. \A i \in 1 .. Len(s) : Append(s, e)[i] = s[i]
  OBVIOUS
<1>2. Append(s, e)[Len(s) + 1] = e /\ DOMAIN Append(s, e) = 1 .. (Len(s) + 1)
  OBVIOUS
<1>. QED
  BY <1>1, <1>2 DEF Range

\* Without its head, a sequence without repetitions has all but the head.
LEMMA RangeOfTail ==
  ASSUME NEW S, NEW s \in Seq(S), s # <<>>,
         \A i, k \in DOMAIN s : s[i] = s[k] => i = k
  PROVE  /\ Range(Tail(s)) = Range(s) \ {Head(s)}
         /\ Head(s) \in Range(s)
         /\ \A i, k \in DOMAIN Tail(s) : Tail(s)[i] = Tail(s)[k] => i = k
<1>1. /\ DOMAIN s = 1 .. Len(s) /\ Len(s) \in Nat \ {0} /\ Head(s) = s[1]
      /\ DOMAIN Tail(s) = 1 .. (Len(s) - 1)
      /\ \A i \in 1 .. (Len(s) - 1) : Tail(s)[i] = s[i + 1]
  OBVIOUS
<1>2. \A i, k \in DOMAIN Tail(s) : Tail(s)[i] = Tail(s)[k] => i = k
  BY <1>1
<1>3. ASSUME NEW x PROVE x \in Range(Tail(s)) <=> x \in Range(s) /\ x # Head(s)
  <2>1. CASE x \in Range(Tail(s))
    <3>1. PICK i \in 1 .. (Len(s) - 1) : x = s[i + 1]
      BY <1>1, <2>1 DEF Range
    <3>2. i + 1 \in DOMAIN s /\ i + 1 # 1 /\ 1 \in DOMAIN s
      BY <1>1
    <3>. QED
      BY <1>1, <2>1, <3>1, <3>2 DEF Range
  <2>2. CASE x \in Range(s) /\ x # Head(s)
    <3>1. PICK k \in DOMAIN s : x = s[k]
      BY <2>2 DEF Range
    <3>2. k - 1 \in DOMAIN Tail(s) /\ Tail(s)[k - 1] = x
      BY <1>1, <2>2, <3>1
    <3>. QED
      BY <2>2, <3>2 DEF Range
  <2>. QED
    BY <2>1, <2>2
<1>4. Head(s) \in Range(s)
  BY <1>1 DEF Range
<1>. QED
  BY <1>2, <1>3, <1>4

\* What the executor knows is queued, has run or was discarded.
LEMMA KnownMeans ==
  /\ \A j \in Jobs : Executor!Known(j) <=> j \in Range(todo) \cup Range(done) \cup Range(dropped)
  /\ \A j \in Jobs : Executor!Known(j)' <=>
       j \in Range(todo') \cup Range(done') \cup Range(dropped')
  BY DEF Executor!Known, Range

\* The running job has its half, so a count below two means the user's is gone.
LEMMA CountOfHandles ==
  ASSUME NEW S \in SUBSET {"job", "user"}, "job" \in S
  PROVE  Cardinality(S) < 2 <=> "user" \notin S
<1>1. CASE S = {"job"}
  <2>1. Cardinality({"job"}) = 1
    BY FS_Singleton
  <2>. QED
    BY <1>1, <2>1
<1>2. CASE S = {"job", "user"}
  <2>1. Cardinality({"job"}) = 1 /\ IsFiniteSet({"job"})
    BY FS_Singleton
  <2>2. Cardinality({"job"} \cup {"user"}) = 2
    BY <2>1, FS_AddElement
  <2>3. S = {"job"} \cup {"user"}
    BY <1>2
  <2>. QED
    BY <1>2, <2>2, <2>3
<1>. QED
  BY <1>1, <1>2

LEMMA TypeKept ==
  ASSUME IInv, [FutureNext]_futureVars
  PROVE  FutureTypeOK'
<1>. USE DEF IInv, FutureTypeOK, exec, block, data, With
<1>1. ASSUME NEW j \in Jobs, RunJob(j)  PROVE FutureTypeOK'
  BY <1>1 DEF RunJob, Executor!Accept
<1>2. ASSUME NEW j \in Jobs, SetStep(j)  PROVE FutureTypeOK'
  <2>1. CASE SetTest(j)
    BY <2>1 DEF SetTest, Work
  <2>2. CASE SetLock(j) \/ SetData(j) \/ SetFlag(j) \/ SetUnlock(j)
    BY <2>2 DEF SetLock, SetData, SetFlag, SetUnlock, Work
  <2>3. CASE Finish(j)
    BY <2>3 DEF Finish, Release, Executor!RunNext
  <2>. QED
    BY <1>2, <2>1, <2>2, <2>3 DEF SetStep
<1>3. ASSUME NEW j \in Jobs, Wait(j) \/ WaitStep(j) \/ LetGo(j)  PROVE FutureTypeOK'
  <2>1. CASE Take(j)
    BY <2>1 DEF Take, TakeData, Use
  <2>2. CASE Wait(j) \/ TryLock(j) \/ NotReady(j) \/ WaitReturn(j)
    BY <2>2 DEF Wait, TryLock, NotReady, WaitReturn, Use
  <2>3. CASE LetGo(j)
    BY <2>3 DEF LetGo, Use, Release
  <2>. QED
    BY <1>3, <2>1, <2>2, <2>3 DEF WaitStep
<1>4. CASE Invoke
  BY <1>4 DEF Invoke
<1>5. CASE Close
  BY <1>5 DEF Close, Release, Executor!Close
<1>6. CASE UNCHANGED futureVars
  BY <1>6 DEF futureVars
<1>. QED
  BY <1>1, <1>2, <1>3, <1>4, <1>5, <1>6 DEF FutureNext

LEMMA RunningQueued ==
  ASSUME IInv, NEW j \in Jobs, Running(j)
  PROVE  j \in Range(todo) /\ "job" \in handles[j] /\ ~closed /\ dropped = <<>>
<1>1. j \in Range(todo)
  BY RangeOfTail DEF IInv, FutureTypeOK, QueueInv, Running
<1>. QED
  BY <1>1 DEF IInv, QueueInv, Running

LEMMA QueueKept ==
  ASSUME IInv, [FutureNext]_futureVars
  PROVE  QueueInv'
<1>. USE DEF exec, block, data, With
<1>0. FutureTypeOK /\ QueueInv
  BY DEF IInv
<1>1. ASSUME NEW j \in Jobs, RunJob(j)  PROVE QueueInv'
  <2>1. /\ todo' = Append(todo, j) /\ UNCHANGED <<done, dropped, closed, at>> /\ ~closed
        /\ j \notin Range(todo) \cup Range(done) \cup Range(dropped)
    BY <1>1, KnownMeans DEF RunJob, Executor!Accept
  <2>2. Range(todo') = Range(todo) \cup {j}
    BY <1>0, <2>1, RangeOfAppend DEF FutureTypeOK
  <2>3. \A i, k \in DOMAIN todo' : todo'[i] = todo'[k] => i = k
    <3>1. /\ DOMAIN todo' = 1 .. (Len(todo) + 1) /\ todo'[Len(todo) + 1] = j
          /\ \A i \in 1 .. Len(todo) : todo'[i] = todo[i] /\ todo[i] # j
          /\ DOMAIN todo = 1 .. Len(todo) /\ Len(todo) \in Nat
      BY <1>0, <2>1 DEF FutureTypeOK, Range
    <3>. QED
      BY <1>0, <3>1 DEF QueueInv
  <2>4. todo' # <<>>
    <3>1. j \in Range(todo') /\ Range(<<>>) = {}
      BY <2>2 DEF Range
    <3>. QED
      BY <3>1
  <2>5. \A q \in Jobs : user'[q] = IF q = j THEN "held" ELSE user[q]
    BY <1>0, <1>1 DEF RunJob, FutureTypeOK
  <2>6. \A q \in Jobs : handles'[q] = IF q = j THEN {"job", "user"} ELSE handles[q]
    BY <1>0, <1>1 DEF RunJob, FutureTypeOK
  <2>. QED
    BY <1>0, <2>1, <2>2, <2>3, <2>4, <2>5, <2>6, KnownMeans DEF QueueInv
<1>2. ASSUME NEW j \in Jobs, SetStep(j)  PROVE QueueInv'
  <2>1. CASE SetTest(j) \/ SetLock(j) \/ SetData(j) \/ SetFlag(j) \/ SetUnlock(j)
    BY <2>1, RunningQueued DEF IInv, QueueInv, SetTest, SetLock, SetData, SetFlag, SetUnlock, Work, Executor!Known
  <2>2. CASE Finish(j)
    <3>1. /\ j = Head(todo) /\ todo # <<>> /\ todo' = Tail(todo) /\ done' = Append(done, j)
          /\ UNCHANGED <<dropped, closed, user>> /\ ~closed /\ at' = "idle"
      BY <2>2 DEF Finish, Executor!RunNext, Running
    <3>2. /\ Range(todo') = Range(todo) \ {j} /\ j \in Range(todo)
          /\ \A i, k \in DOMAIN todo' : todo'[i] = todo'[k] => i = k
      BY <1>0, <3>1, RangeOfTail DEF FutureTypeOK, QueueInv
    <3>3. Range(done') = Range(done) \cup {j}
      BY <1>0, <3>1, RangeOfAppend DEF FutureTypeOK
    <3>4. \A q \in Jobs : handles'[q] = IF q = j THEN handles[q] \ {"job"} ELSE handles[q]
      BY <2>2 DEF Finish, Release
    <3>. QED
      BY <1>0, <3>1, <3>2, <3>3, <3>4, KnownMeans DEF QueueInv
  <2>. QED
    BY <1>2, <2>1, <2>2 DEF SetStep
<1>3. ASSUME NEW j \in Jobs, Wait(j) \/ WaitStep(j)  PROVE QueueInv'
  <2>1. /\ UNCHANGED <<todo, done, dropped, closed, at, handles>>
        /\ user[j] # "unmade" /\ \E l \in {"try", "test", "leave", "held"} : user' = [user EXCEPT ![j] = l]
    BY <1>3 DEF Wait, WaitStep, Take, TakeData, TryLock, NotReady, WaitReturn, Use
  <2>. QED
    BY <1>0, <2>1, KnownMeans DEF FutureTypeOK, QueueInv
<1>4. ASSUME NEW j \in Jobs, LetGo(j)  PROVE QueueInv'
  BY <1>0, <1>4, KnownMeans DEF FutureTypeOK, QueueInv, LetGo, Use, Release
<1>5. CASE Invoke
  BY <1>0, <1>5, KnownMeans DEF QueueInv, Invoke
<1>6. CASE Close
  <2>1. /\ ~closed /\ closed' = TRUE /\ dropped' = todo /\ todo' = <<>> /\ UNCHANGED <<done, user, at>>
        /\ at = "idle" /\ dropped = <<>>
    BY <1>0, <1>6 DEF Close, Executor!Close, QueueInv
  <2>2. /\ DOMAIN todo' = {} /\ Range(todo') = {} /\ Range(dropped) = {}
        /\ Range(dropped') = Range(todo)
    BY <2>1 DEF Range
  <2>3. \A q \in Jobs : handles'[q] = IF q \in Range(todo) THEN handles[q] \ {"job"} ELSE handles[q]
    BY <1>6 DEF Close, Release
  <2>. QED
    BY <1>0, <2>1, <2>2, <2>3, KnownMeans DEF QueueInv
<1>7. CASE UNCHANGED futureVars
  BY <1>0, <1>7, KnownMeans DEF QueueInv, futureVars
<1>. QED
  BY <1>1, <1>2, <1>3, <1>4, <1>5, <1>6, <1>7 DEF FutureNext

LEMMA BlocksKept ==
  ASSUME IInv, [FutureNext]_futureVars, NEW q \in Jobs
  PROVE  BlockInv(q)' /\ ValueInv(q)'
<1>. USE NobodyAssumption DEF exec, block, data, With
<1>0. FutureTypeOK /\ QueueInv /\ BlockInv(q) /\ ValueInv(q)
  BY DEF IInv
<1>1. ASSUME NEW j \in Jobs, RunJob(j)  PROVE BlockInv(q)' /\ ValueInv(q)'
  <2>1. todo' = Append(todo, j) /\ UNCHANGED at /\ ~Executor!Known(j) /\ UNCHANGED data /\ UNCHANGED returned
    BY <1>1 DEF RunJob, Executor!Accept
  <2>2. Running(q)' <=> Running(q)
    <3>1. CASE at = "idle"
      BY <2>1, <3>1 DEF Running
    <3>2. CASE at # "idle"
      <4>1. todo # <<>>
        BY <1>0, <3>2 DEF QueueInv
      <4>2. Head(todo') = Head(todo) /\ todo' # <<>>
        <5>1. todo \in Seq(Jobs) /\ Len(todo) \in Nat /\ Len(todo) > 0
          BY <1>0, <4>1 DEF FutureTypeOK
        <5>2. Append(todo, j)[1] = todo[1] /\ Len(Append(todo, j)) = Len(todo) + 1
          BY <5>1
        <5>3. Append(todo, j) # <<>>
          BY <5>1, <5>2
        <5>. QED
          BY <2>1, <5>1, <5>2, <5>3
      <4>. QED
        BY <2>1, <3>2, <4>1, <4>2 DEF Running
    <3>. QED
      BY <3>1, <3>2
  <2>3. CASE q # j
    <3>1. user'[q] = user[q] /\ handles'[q] = handles[q] /\ alive'[q] = alive[q]
      BY <1>0, <1>1, <2>3 DEF RunJob, FutureTypeOK
    <3>. QED
      BY <1>0, <2>1, <2>2, <3>1 DEF BlockInv, ValueInv
  <2>4. CASE q = j
    <3>1. user[q] = "unmade" /\ ~Running(q)
      BY <1>0, <2>1, <2>4, RunningQueued, KnownMeans DEF QueueInv
    <3>2. user'[q] = "held" /\ handles'[q] = {"job", "user"} /\ alive'[q]
      BY <1>0, <1>1, <2>4 DEF RunJob, FutureTypeOK
    <3>. QED
      BY <1>0, <2>1, <2>2, <3>1, <3>2 DEF BlockInv, ValueInv
  <2>. QED
    BY <2>3, <2>4
<1>2. ASSUME NEW j \in Jobs, SetStep(j)  PROVE BlockInv(q)' /\ ValueInv(q)'
  <2>1. CASE SetTest(j)
    BY <1>0, <2>1, RunningQueued, CountOfHandles DEF FutureTypeOK, BlockInv, ValueInv, SetTest, Work, Running
  <2>2. CASE SetLock(j)
    BY <1>0, <2>2, RunningQueued DEF FutureTypeOK, BlockInv, ValueInv, SetLock, Work, Running
  <2>3. CASE SetData(j)
    BY <1>0, <2>3, RunningQueued DEF FutureTypeOK, BlockInv, ValueInv, SetData, Work, Running
  <2>4. CASE SetFlag(j)
    <3>1. /\ Running(j) /\ at = "flag" /\ at' = "unlock" /\ UNCHANGED <<exec, user, returned, handles, alive, lock, actualData>>
          /\ isReady' = [isReady EXCEPT ![j] = TRUE]
      BY <2>4 DEF SetFlag, Work
    <3>2. (Running(q)' <=> Running(q)) /\ (Running(q) <=> q = j)
      BY <3>1 DEF Running
    <3>3. "job" \in handles[j]
      BY <3>1, RunningQueued
    <3>4. isReady'[q] <=> isReady[q] \/ q = j
      BY <1>0, <3>1 DEF FutureTypeOK
    <3>5. BlockInv(q)'
      BY <1>0, <3>1, <3>2 DEF BlockInv
    <3>6. CASE q = j
      <4>1. user[q] # "unmade"
        BY <1>0, <3>1, <3>6, RunningQueued, KnownMeans DEF QueueInv
      <4>. QED
        BY <1>0, <3>1, <3>2, <3>3, <3>4, <3>5, <3>6, <4>1 DEF ValueInv
    <3>7. CASE q # j
      BY <1>0, <3>1, <3>2, <3>4, <3>5, <3>7 DEF ValueInv
    <3>. QED
      BY <3>6, <3>7
  <2>5. CASE SetUnlock(j)
    BY <1>0, <2>5, RunningQueued DEF FutureTypeOK, BlockInv, ValueInv, SetUnlock, Work, Running
  <2>6. CASE Finish(j)
    BY <1>0, <2>6, RunningQueued DEF FutureTypeOK, BlockInv, ValueInv, Finish, Release, Running
  <2>. QED
    BY <1>2, <2>1, <2>2, <2>3, <2>4, <2>5, <2>6 DEF SetStep
<1>3. ASSUME NEW j \in Jobs, Wait(j) \/ WaitStep(j) \/ LetGo(j)  PROVE BlockInv(q)' /\ ValueInv(q)'
  <2>1. CASE Take(j)
    <3>1. /\ user[j] = "test" /\ user' = [user EXCEPT ![j] = "leave"] /\ isReady[j]
          /\ UNCHANGED <<todo, at, handles, alive, lock, isReady>>
          /\ actualData' = [actualData EXCEPT ![j] = "moved"]
          /\ returned' = [returned EXCEPT ![j] = Append(returned[j], actualData[j])]
      BY <2>1 DEF Take, TakeData, Use
    <3>2. Running(q)' <=> Running(q)
      BY <3>1 DEF Running
    <3>3. BlockInv(q)'
      BY <1>0, <3>1, <3>2 DEF BlockInv, FutureTypeOK
    <3>4. CASE q # j
      <4>1. actualData'[q] = actualData[q] /\ returned'[q] = returned[q] /\ user'[q] = user[q]
        BY <1>0, <3>1, <3>4 DEF FutureTypeOK
      <4>. QED
        BY <1>0, <3>1, <3>2, <3>3, <4>1 DEF ValueInv
    <3>5. CASE q = j
      <4>1. returned'[q] = Append(returned[q], actualData[q]) /\ user'[q] = "leave"
        BY <1>0, <3>1, <3>5 DEF FutureTypeOK
      <4>2. returned'[q] # <<>> /\ returned'[q][1] = "result"
        BY <1>0, <3>1, <3>5, <4>1 DEF FutureTypeOK, ValueInv
      <4>3. ~(Running(q) /\ at = "flag")
        BY <1>0, <3>1, <3>5, RunningQueued DEF ValueInv
      <4>. QED
        BY <1>0, <3>1, <3>2, <3>3, <3>5, <4>1, <4>2, <4>3 DEF ValueInv
    <3>. QED
      BY <3>4, <3>5
  <2>2. CASE Wait(j) \/ TryLock(j) \/ NotReady(j) \/ WaitReturn(j)
    <3>1. /\ UNCHANGED <<todo, at, handles, alive, isReady, actualData, returned>>
          /\ \A p \in Jobs \ {j} : lock'[p] = lock[p] /\ user'[p] = user[p]
      BY <1>0, <2>2 DEF Wait, TryLock, NotReady, WaitReturn, Use, FutureTypeOK
    <3>2. Running(q)' <=> Running(q)
      BY <3>1 DEF Running
    <3>3. \/ user[j] = "held" /\ user'[j] = "try" /\ lock'[j] = lock[j]
          \/ user[j] = "try" /\ user'[j] = "test" /\ lock[j] = Nobody /\ lock'[j] = "user"
          \/ user[j] \in {"test", "leave"} /\ user'[j] \in {"try", "held"} /\ lock'[j] = Nobody
      BY <1>0, <2>2 DEF Wait, TryLock, NotReady, WaitReturn, Use, FutureTypeOK
    <3>4. CASE q # j
      BY <1>0, <3>1, <3>2, <3>4 DEF BlockInv, ValueInv
    <3>5. CASE q = j
      BY <1>0, <3>1, <3>2, <3>3, <3>5 DEF BlockInv, ValueInv
    <3>. QED
      BY <3>4, <3>5
  <2>3. CASE LetGo(j)
    <3>1. /\ UNCHANGED <<todo, at, lock, isReady, actualData, returned>>
          /\ user[j] = "held" /\ user' = [user EXCEPT ![j] = "gone"]
      BY <2>3 DEF LetGo, Use
    <3>2. /\ handles'[q] = IF q = j THEN handles[q] \ {"user"} ELSE handles[q]
          /\ alive'[q] <=> alive[q] /\ (q = j => handles[q] # {"user"})
      BY <2>3 DEF LetGo, Release
    <3>3. Running(q)' <=> Running(q)
      BY <3>1 DEF Running
    <3>4. handles'[q] = {} <=> handles[q] = {} \/ (q = j /\ handles[q] = {"user"})
      BY <1>0, <3>2 DEF FutureTypeOK
    <3>5. user'[q] = IF q = j THEN "gone" ELSE user[q]
      BY <1>0, <3>1 DEF FutureTypeOK
    <3>. QED
      BY <1>0, <3>1, <3>2, <3>3, <3>4, <3>5 DEF BlockInv, ValueInv
  <2>. QED
    BY <1>3, <2>1, <2>2, <2>3 DEF WaitStep
<1>4. CASE Invoke
  BY <1>0, <1>4 DEF FutureTypeOK, QueueInv, BlockInv, ValueInv, Invoke, Running
<1>5. CASE Close
  BY <1>0, <1>5 DEF FutureTypeOK, QueueInv, BlockInv, ValueInv, Close, Release, Range, Running
<1>6. CASE UNCHANGED futureVars
  BY <1>0, <1>6 DEF BlockInv, ValueInv, futureVars, Running
<1>. QED
  BY <1>1, <1>2, <1>3, <1>4, <1>5, <1>6 DEF FutureNext

LEMMA InitInv == FutureInit => IInv
<1>. SUFFICES ASSUME FutureInit PROVE IInv
  OBVIOUS
<1>1. FutureTypeOK
  <2>1. \A S : <<>> \in Seq(S)
    OBVIOUS
  <2>2. todo \in Seq(Jobs) /\ done \in Seq(Jobs) /\ dropped \in Seq(Jobs) /\ closed \in BOOLEAN
    BY <2>1 DEF FutureInit, Executor!Init
  <2>3. returned \in [Jobs -> Seq({"default", "result", "moved"})]
    BY <2>1 DEF FutureInit
  <2>. QED
    BY <2>2, <2>3 DEF FutureInit, FutureTypeOK
<1>2. QueueInv
  BY KnownMeans DEF FutureInit, Executor!Init, QueueInv, Range
<1>3. ASSUME NEW j \in Jobs PROVE BlockInv(j) /\ ValueInv(j)
  BY NobodyAssumption DEF FutureInit, BlockInv, ValueInv, Running
<1>. QED
  BY <1>1, <1>2, <1>3 DEF IInv

LEMMA Invariance == FutureSpec => []IInv
<1>1. IInv /\ [FutureNext]_futureVars => IInv'
  BY TypeKept, QueueKept, BlocksKept DEF IInv
<1>. QED
  BY <1>1, InitInv, PTL DEF FutureSpec

\* Every variable keeps its type.
THEOREM TypeCorrect == FutureSpec => []FutureTypeOK
<1>1. IInv => FutureTypeOK
  BY DEF IInv
<1>. QED
  BY <1>1, Invariance, PTL

\* The block is there for as long as set or wait works on it.
THEOREM NothingUsedAfterFree == FutureSpec => []NoUseAfterFree
<1>1. IInv => NoUseAfterFree
  <2>. SUFFICES ASSUME IInv, NEW j \in Jobs
                PROVE  /\ Running(j) => alive[j]
                       /\ user[j] \in {"held", "try", "test", "leave"} => alive[j]
                       /\ lock[j] # Nobody => alive[j]
    BY DEF NoUseAfterFree
  <2>1. FutureTypeOK /\ BlockInv(j)
    BY DEF IInv
  <2>. QED
    BY <2>1, RunningQueued DEF FutureTypeOK, BlockInv
<1>. QED
  BY <1>1, Invariance, PTL

\* What the first wait returns is what the job computed.
THEOREM ResultReturned == FutureSpec => []WaitReturnsResult
<1>1. IInv => WaitReturnsResult
  BY DEF IInv, ValueInv, WaitReturnsResult
<1>. QED
  BY <1>1, Invariance, PTL

-----------------------------------------------------------------------------
(* Refinement *)

\* What decides the promise and the reader of q is the same after a step.
LEMMA SamePromise ==
  ASSUME NEW q, isReady'[q] = isReady[q], user[q] = "unmade" <=> user'[q] = "unmade",
         "job" \in handles[q] <=> "job" \in handles'[q], dropped' = dropped
  PROVE  PromiseOf(q)' = PromiseOf(q)
  BY DEF PromiseOf

LEMMA SameReader ==
  ASSUME NEW q, returned'[q] = returned[q], user[q] = "unmade" <=> user'[q] = "unmade",
         user[q] = "gone" <=> user'[q] = "gone"
  PROVE  ReaderOf(q)' = ReaderOf(q)
  BY DEF ReaderOf

LEMMA PromiseStep ==
  ASSUME IInv, [FutureNext]_futureVars
  PROVE  [Promise!Next]_(Promise!promiseVars)
<1>. DEFINE pr == [j \in Jobs |-> PromiseOf(j)]
            re == [j \in Jobs |-> ReaderOf(j)]
<1>. USE DEF exec, block, data, With
<1>0. FutureTypeOK /\ QueueInv /\ \A j \in Jobs : BlockInv(j) /\ ValueInv(j)
  BY DEF IInv
<1>1. ASSUME \A q \in Jobs : PromiseOf(q)' = PromiseOf(q), \A q \in Jobs : ReaderOf(q)' = ReaderOf(q)
      PROVE  [Promise!Next]_(Promise!promiseVars)
  BY <1>1 DEF Promise!promiseVars
<1>2. ASSUME NEW j \in Jobs, RunJob(j)  PROVE [Promise!Next]_(Promise!promiseVars)
  <2>1. /\ user' = [user EXCEPT ![j] = "held"] /\ handles' = [handles EXCEPT ![j] = {"job", "user"}]
        /\ UNCHANGED <<isReady, returned, dropped>> /\ user[j] = "unmade"
    BY <1>0, <1>2 DEF RunJob, Executor!Accept, QueueInv
  <2>2. ~isReady[j] /\ returned[j] = <<>>
    BY <1>0, <2>1 DEF ValueInv
  <2>3. PromiseOf(j) = "unmade" /\ ReaderOf(j) = "nobody"
    BY <2>1 DEF PromiseOf, ReaderOf
  <2>4. PromiseOf(j)' = "pending" /\ ReaderOf(j)' = "holding"
    BY <1>0, <2>1, <2>2 DEF PromiseOf, ReaderOf, FutureTypeOK
  <2>5. \A q \in Jobs \ {j} : PromiseOf(q)' = PromiseOf(q) /\ ReaderOf(q)' = ReaderOf(q)
    BY <1>0, <2>1, SamePromise, SameReader DEF FutureTypeOK
  <2>6. Promise!Make(j)
    BY <2>3, <2>4, <2>5 DEF Promise!Make
  <2>. QED
    BY <2>6 DEF Promise!Next
<1>3. ASSUME NEW j \in Jobs, SetFlag(j)  PROVE [Promise!Next]_(Promise!promiseVars)
  <2>1. /\ isReady' = [isReady EXCEPT ![j] = TRUE] /\ Running(j) /\ at = "flag"
        /\ UNCHANGED <<user, handles, dropped, returned>>
    BY <1>3 DEF SetFlag, Work
  <2>2. "job" \in handles[j] /\ ~isReady[j] /\ user[j] # "unmade"
    BY <1>0, <2>1, RunningQueued, KnownMeans DEF QueueInv, ValueInv
  <2>3. PromiseOf(j) = "pending" /\ PromiseOf(j)' = "kept"
    BY <1>0, <2>1, <2>2 DEF PromiseOf, FutureTypeOK
  <2>4. \A q \in Jobs \ {j} : PromiseOf(q)' = PromiseOf(q)
    BY <1>0, <2>1, SamePromise DEF FutureTypeOK
  <2>5. \A q \in Jobs : ReaderOf(q)' = ReaderOf(q)
    BY <2>1, SameReader
  <2>6. Promise!Keep(j)
    BY <2>3, <2>4, <2>5 DEF Promise!Keep
  <2>. QED
    BY <2>6 DEF Promise!Next
<1>4. ASSUME NEW j \in Jobs, Finish(j)  PROVE [Promise!Next]_(Promise!promiseVars)
  <2>1. /\ Running(j) /\ at = "end" /\ UNCHANGED <<user, isReady, returned, dropped>>
        /\ \A q \in Jobs : handles'[q] = IF q = j THEN handles[q] \ {"job"} ELSE handles[q]
    BY <1>4 DEF Finish, Release, Executor!RunNext
  <2>2. "job" \in handles[j] /\ dropped = <<>> /\ user[j] # "unmade"
    BY <1>0, <2>1, RunningQueued, KnownMeans DEF QueueInv
  <2>3. \A q \in Jobs : ReaderOf(q)' = ReaderOf(q)
    BY <2>1, SameReader
  <2>4. \A q \in Jobs \ {j} : PromiseOf(q)' = PromiseOf(q)
    BY <2>1, SamePromise
  <2>5. CASE isReady[j]
    <3>1. PromiseOf(j)' = PromiseOf(j)
      BY <2>1, <2>2, <2>5 DEF PromiseOf
    <3>. QED
      BY <1>1, <2>3, <2>4, <3>1
  <2>6. CASE ~isReady[j]
    <3>1. user[j] = "gone"
      BY <1>0, <2>1, <2>2, <2>6 DEF BlockInv, ValueInv, FutureTypeOK
    <3>2. PromiseOf(j) = "pending" /\ ReaderOf(j) = "gone"
      BY <2>2, <2>6, <3>1 DEF PromiseOf, ReaderOf
    <3>3. "job" \notin handles'[j] /\ j \notin Range(dropped')
      <4>1. "job" \notin handles'[j]
        BY <2>1
      <4>2. dropped' = <<>>
        BY <2>1, <2>2
      <4>3. Range(<<>>) = {}
        BY DEF Range
      <4>. QED
        BY <4>1, <4>2, <4>3
    <3>4. PromiseOf(j)' = "unread"
      BY <2>1, <2>2, <2>6, <3>1, <3>3 DEF PromiseOf
    <3>5. Promise!Skip(j)
      BY <2>3, <2>4, <3>2, <3>4 DEF Promise!Skip
    <3>. QED
      BY <3>5 DEF Promise!Next
  <2>. QED
    BY <2>5, <2>6
<1>5. ASSUME NEW j \in Jobs, SetTest(j) \/ SetLock(j) \/ SetData(j) \/ SetUnlock(j)
      PROVE  [Promise!Next]_(Promise!promiseVars)
  <2>1. UNCHANGED <<user, isReady, returned, dropped, handles>>
    BY <1>5 DEF SetTest, SetLock, SetData, SetUnlock, Work
  <2>. QED
    BY <1>1, <2>1, SamePromise, SameReader
<1>6. ASSUME NEW j \in Jobs, Take(j)  PROVE [Promise!Next]_(Promise!promiseVars)
  <2>1. /\ user[j] = "test" /\ user' = [user EXCEPT ![j] = "leave"] /\ isReady[j]
        /\ UNCHANGED <<isReady, handles, dropped>>
        /\ returned' = [returned EXCEPT ![j] = Append(returned[j], actualData[j])]
    BY <1>6 DEF Take, TakeData, Use
  <2>2. \A q \in Jobs : /\ user[q] = "unmade" <=> user'[q] = "unmade"
                        /\ user[q] = "gone" <=> user'[q] = "gone"
    BY <1>0, <2>1 DEF FutureTypeOK
  <2>3. \A q \in Jobs : PromiseOf(q)' = PromiseOf(q)
    BY <2>1, <2>2, SamePromise
  <2>4. \A q \in Jobs \ {j} : ReaderOf(q)' = ReaderOf(q)
    BY <1>0, <2>1, <2>2, SameReader DEF FutureTypeOK
  <2>5. returned'[j] # <<>>
    <3>1. returned[j] \in Seq({"default", "result", "moved"}) /\ actualData[j] \in {"default", "result", "moved"}
      BY <1>0 DEF FutureTypeOK
    <3>2. returned'[j] = Append(returned[j], actualData[j])
      BY <1>0, <2>1 DEF FutureTypeOK
    <3>3. Len(returned'[j]) = Len(returned[j]) + 1 /\ Len(returned[j]) \in Nat
      BY <3>1, <3>2
    <3>. QED
      BY <3>3
  <2>6. ReaderOf(j)' = "answered" /\ PromiseOf(j) = "kept"
    BY <1>0, <2>1, <2>5 DEF ReaderOf, PromiseOf, FutureTypeOK
  <2>7. CASE returned[j] = <<>>
    <3>1. ReaderOf(j) = "holding"
      BY <2>1, <2>7 DEF ReaderOf
    <3>2. Promise!Answer(j)
      BY <2>3, <2>4, <2>6, <3>1 DEF Promise!Answer
    <3>. QED
      BY <3>2 DEF Promise!Next
  <2>8. CASE returned[j] # <<>>
    <3>1. ReaderOf(j) = "answered"
      BY <2>1, <2>8 DEF ReaderOf
    <3>. QED
      BY <1>1, <2>3, <2>4, <2>6, <3>1
  <2>. QED
    BY <2>7, <2>8
<1>7. ASSUME NEW j \in Jobs, Wait(j) \/ TryLock(j) \/ NotReady(j) \/ WaitReturn(j)
      PROVE  [Promise!Next]_(Promise!promiseVars)
  <2>1. /\ UNCHANGED <<isReady, returned, dropped, handles>>
        /\ \E l, m \in {"held", "try", "test", "leave"} : user[j] = l /\ user' = [user EXCEPT ![j] = m]
    BY <1>7 DEF Wait, TryLock, NotReady, WaitReturn, Use
  <2>2. \A q \in Jobs : /\ user[q] = "unmade" <=> user'[q] = "unmade"
                        /\ user[q] = "gone" <=> user'[q] = "gone"
    BY <1>0, <2>1 DEF FutureTypeOK
  <2>. QED
    BY <1>1, <2>1, <2>2, SamePromise, SameReader
<1>8. ASSUME NEW j \in Jobs, LetGo(j)  PROVE [Promise!Next]_(Promise!promiseVars)
  <2>1. /\ user[j] = "held" /\ user' = [user EXCEPT ![j] = "gone"]
        /\ UNCHANGED <<isReady, returned, dropped>>
        /\ \A q \in Jobs : "job" \in handles[q] <=> "job" \in handles'[q]
    BY <1>8 DEF LetGo, Use, Release
  <2>2. \A q \in Jobs : PromiseOf(q)' = PromiseOf(q)
    BY <1>0, <2>1, SamePromise DEF FutureTypeOK
  <2>3. \A q \in Jobs \ {j} : ReaderOf(q)' = ReaderOf(q)
    BY <1>0, <2>1, SameReader DEF FutureTypeOK
  <2>4. ReaderOf(j) \in {"holding", "answered"} /\ ReaderOf(j)' = "gone"
    BY <1>0, <2>1 DEF ReaderOf, FutureTypeOK
  <2>5. Promise!LetGo(j)
    BY <2>2, <2>3, <2>4 DEF Promise!LetGo
  <2>. QED
    BY <2>5 DEF Promise!Next
<1>9. CASE Close
  <2>1. /\ at = "idle" /\ dropped = <<>> /\ dropped' = todo /\ UNCHANGED <<user, isReady, returned>>
        /\ \A q \in Jobs : handles'[q] = IF q \in Range(todo) THEN handles[q] \ {"job"} ELSE handles[q]
    BY <1>0, <1>9 DEF Close, Release, Executor!Close, QueueInv
  <2>2. \A q \in Range(todo) : q \in Jobs /\ PromiseOf(q) = "pending"
    <3>1. \A q \in Range(todo) : q \in Jobs
      BY <1>0 DEF FutureTypeOK, Range
    <3>2. \A q \in Range(todo) : user[q] # "unmade" /\ "job" \in handles[q] /\ ~isReady[q]
      BY <1>0, <2>1, <3>1, KnownMeans DEF QueueInv, ValueInv, Running
    <3>. QED
      BY <3>1, <3>2 DEF PromiseOf
  <2>3. ASSUME NEW q \in Jobs
        PROVE  PromiseOf(q)' = IF q \in Range(todo) THEN "discarded" ELSE PromiseOf(q)
    <3>1. q \notin Range(dropped)
      BY <2>1 DEF Range
    <3>2. Range(dropped') = Range(todo)
      BY <2>1
    <3>3. CASE q \in Range(todo)
      <4>1. user[q] # "unmade" /\ ~isReady[q] /\ "job" \notin handles'[q]
        BY <1>0, <2>1, <3>3, KnownMeans DEF QueueInv, ValueInv, Running
      <4>. QED
        BY <2>1, <3>2, <3>3, <4>1 DEF PromiseOf
    <3>4. CASE q \notin Range(todo)
      BY <2>1, <3>1, <3>2, <3>4 DEF PromiseOf
    <3>. QED
      BY <3>3, <3>4
  <2>4. \A q \in Jobs : ReaderOf(q)' = ReaderOf(q)
    BY <2>1, SameReader
  <2>5. Promise!Discard(Range(todo)) /\ Range(todo) \in SUBSET Jobs
    BY <2>2, <2>3, <2>4 DEF Promise!Discard
  <2>. QED
    BY <2>5 DEF Promise!Next
<1>10. CASE Invoke \/ UNCHANGED futureVars
  <2>1. UNCHANGED <<user, isReady, returned, dropped, handles>>
    BY <1>10 DEF Invoke, futureVars
  <2>. QED
    BY <1>1, <2>1, SamePromise, SameReader
<1>. QED
  BY <1>2, <1>3, <1>4, <1>5, <1>6, <1>7, <1>8, <1>9, <1>10 DEF FutureNext, SetStep, WaitStep

\* JobFuture implements JobPromise: the result of a job that ran is there for
\* its reader, and only a job that never ran leaves its reader without one.
THEOREM ImplementsPromise == FutureSpec => PromiseSpec
<1>1. FutureInit => Promise!Init
  BY DEF FutureInit, Promise!Init, PromiseOf, ReaderOf
<1>2. IInv /\ [FutureNext]_futureVars => [Promise!Next]_(Promise!promiseVars)
  BY PromiseStep
<1>. QED
  BY <1>1, <1>2, Invariance, PTL DEF FutureSpec, PromiseSpec, Promise!Spec
=============================================================================
