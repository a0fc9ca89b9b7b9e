------------------------------- MODULE Locked -------------------------------
(***************************************************************************)
(* The two parts of the library that share data behind a lock and poll or   *)
(* block for it, of which a behaviour uses one: the strings of GlobalString *)
(* behind an RwLock, and the results of JobFuture behind a Mutex each.      *)
(***************************************************************************)
EXTENDS GlobalString, JobFuture

VARIABLE subject     \* the part this behaviour is about

lockedVars == <<stringVars, futureVars, subject>>

Init == StringInit /\ FutureInit /\ subject \in {"GlobalString", "JobFuture"}

Next ==
  \/ subject = "GlobalString" /\ StringNext /\ UNCHANGED <<futureVars, subject>>
  \/ subject = "JobFuture" /\ FutureNext /\ UNCHANGED <<stringVars, subject>>

Spec == Init /\ [][Next]_lockedVars

OnStrings(A) == subject = "GlobalString" /\ A
OnFutures(A) == subject = "JobFuture" /\ A

\* Threads inside a call are scheduled.  An RwLock is not handed out in turn,
\* but a thread that finds it free again and again gets it.
StringFairness == \A t \in Threads :
  /\ WF_stringVars(OnStrings(GetAllGlobalStrings(t) \/ Leave(t) \/ Create(t) \/ Look(t)))
  /\ SF_stringVars(OnStrings(Write(t) \/ Read(t)))

\* A user inside wait, and the worker inside a job, keep being scheduled.  The
\* lock is free again and again while a user polls it, and a blocked acquirer
\* is woken each time it is: it does not lose for ever.
FutureFairness ==
  /\ \A j \in Jobs : WF_futureVars(OnFutures(WaitStep(j)))
  /\ WF_futureVars(OnFutures(\E j \in Jobs : SetStep(j)))
  /\ SF_futureVars(OnFutures(\E j \in Jobs : SetLock(j)))

FairSpec == Spec /\ StringFairness /\ FutureFairness
=============================================================================
