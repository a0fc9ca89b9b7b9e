---------------------------- MODULE JobPromise -----------------------------
(***************************************************************************)
(* What a job's future promises: the result of a job is kept for its       *)
(* reader once the job has run, unless the reader let go of it, and is     *)
(* lost only with a job that is discarded unrun.                           *)
(***************************************************************************)
CONSTANT Jobs

VARIABLES
  promise,   \* of each job: unmade, pending, kept, unread or discarded
  reader     \* who was promised: nobody yet, holding, answered or gone

promiseVars == <<promise, reader>>

Init ==
  /\ promise = [j \in Jobs |-> "unmade"]
  /\ reader = [j \in Jobs |-> "nobody"]

Make(j) ==
  /\ promise[j] = "unmade"
  /\ promise' = [promise EXCEPT ![j] = "pending"]
  /\ reader' = [reader EXCEPT ![j] = "holding"]

Keep(j) ==
  /\ promise[j] = "pending"
  /\ promise' = [promise EXCEPT ![j] = "kept"]
  /\ UNCHANGED reader

\* Nobody is left to read the result.
Skip(j) ==
  /\ promise[j] = "pending" /\ reader[j] = "gone"
  /\ promise' = [promise EXCEPT ![j] = "unread"]
  /\ UNCHANGED reader

\* Jobs that will not run, all at once.
Discard(J) ==
  /\ \A j \in J : promise[j] = "pending"
  /\ promise' = [j \in Jobs |-> IF j \in J THEN "discarded" ELSE promise[j]]
  /\ UNCHANGED reader

Answer(j) ==
  /\ promise[j] = "kept" /\ reader[j] = "holding"
  /\ reader' = [reader EXCEPT ![j] = "answered"]
  /\ UNCHANGED promise

LetGo(j) ==
  /\ reader[j] \in {"holding", "answered"}
  /\ reader' = [reader EXCEPT ![j] = "gone"]
  /\ UNCHANGED promise

Next ==
  \/ \E j \in Jobs : Make(j) \/ Keep(j) \/ Skip(j) \/ Answer(j) \/ LetGo(j)
  \/ \E J \in SUBSET Jobs : Discard(J)

Spec == Init /\ [][Next]_promiseVars
=============================================================================
