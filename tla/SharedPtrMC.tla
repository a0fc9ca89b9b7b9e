---------------------------- MODULE SharedPtrMC ----------------------------
(* Model values and symmetry for the runs of SharedPtr. *)
EXTENDS SharedPtr, TLC

CONSTANTS t1, t2, h1, h2, h3, h4, o1, o2

Interchangeable == Permutations(Threads) \cup Permutations(Handles) \cup Permutations(Objects)
=============================================================================
