---------------------------- MODULE JobExecutor ----------------------------
(***************************************************************************)
(* What gk::JobThread promises to the code that hands it jobs, without     *)
(* saying how: jobs are accepted one at a time, run one at a time in the   *)
(* order they were accepted, each at most once, and whatever has not run   *)
(* when the thread is destroyed is discarded, still in that order.         *)
(* JobThread.tla is shown to implement this specification.                 *)
(***************************************************************************)
EXTENDS Sequences

CONSTANT Jobs       \* the jobs that may be handed to the thread

VARIABLES
  todo,             \* accepted jobs that have not run, oldest first
  done,             \* jobs that have run, in the order they finished
  dropped,          \* jobs discarded by the destructor
  closed            \* has the thread been destroyed?

vars == <<todo, done, dropped, closed>>

Known(j) == \E s \in {todo, done, dropped} : \E i \in DOMAIN s : s[i] = j

Init ==
  /\ todo = <<>>
  /\ done = <<>>
  /\ dropped = <<>>
  /\ closed = FALSE

\* A job is accepted once.
Accept(j) ==
  /\ ~closed
  /\ ~Known(j)
  /\ todo' = Append(todo, j)
  /\ UNCHANGED <<done, dropped, closed>>

\* The oldest job runs to its end.
RunNext ==
  /\ ~closed
  /\ todo # <<>>
  /\ done' = Append(done, Head(todo))
  /\ todo' = Tail(todo)
  /\ UNCHANGED <<dropped, closed>>

\* The thread is destroyed.
Close ==
  /\ ~closed
  /\ closed' = TRUE
  /\ dropped' = todo
  /\ todo' = <<>>
  /\ UNCHANGED done

Next == (\E j \in Jobs : Accept(j)) \/ RunNext \/ Close

Spec == Init /\ [][Next]_vars
=============================================================================
