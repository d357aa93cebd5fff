---------------------------- MODULE MCScheduler ----------------------------
(* A scheduler with few threads, jobs and ticks. *)
EXTENDS Scheduler, TLC

Symmetry == Permutations(Workers) \cup Permutations(Jobs) \cup Permutations(Callers)
=============================================================================
