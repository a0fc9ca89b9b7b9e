---------------------------- MODULE JobThreadMC ----------------------------
(* Instances of JobThread for TLC: who issues which job. *)
EXTENDS JobThread, TLC

CONSTANTS c1, c2, j1, j2, j3, j4

\* Two clients that queue two jobs each.
IssuerFlat == j1 :> c1 @@ j2 :> c1 @@ j3 :> c2 @@ j4 :> c2

\* The owner's job queues a job; the other client queues two.
IssuerMixed == j1 :> c1 @@ j2 :> c2 @@ j3 :> j1 @@ j4 :> c2
=============================================================================
