---------------------------- MODULE MCStructures ----------------------------
(* The two structures the scheduler takes for a queue and a set: the         *)
(* lock-free list (two producers with a consumer and two jobs, or a producer *)
(* with two consumers; nodes are interchangeable memory) and every heap of   *)
(* up to six delayed jobs with four deadlines.  They share nothing, and a    *)
(* behaviour is about one of them.                                           *)
EXTENDS MSQueue, TLC

CONSTANTS p1, p2, c1, c2, j1, j2, HeapJobs, Deadlines, HeapInit

VARIABLES part, heap, capacity, popped

H == INSTANCE DelayHeap WITH Jobs <- HeapJobs

MCCrews ==
  {[threads |-> {p1, p2, c1}, jobs |-> {j1, j2}], [threads |-> {p1, c1, c2}, jobs |-> {j1}]}

heapVars == <<heap, capacity, popped>>

MCInit == part \in {"list", "heap"} /\ Init /\ H!Init

MCNext ==
  /\ UNCHANGED part
  /\ \/ part = "list" /\ Next /\ UNCHANGED heapVars
     \/ part = "heap" /\ H!Next /\ UNCHANGED vars

MCSpec == MCInit /\ [][MCNext]_<<part, vars, heapVars>>

NodeSymmetry == Permutations(Nodes)

(* Delayed jobs are told apart by nothing but their deadlines. *)
View ==
  IF part = "list" THEN vars
  ELSE <<part, [i \in DOMAIN heap |-> heap[i].due], {e.due : e \in popped}, capacity>>

(* The property of DelayHeap. *)
HeapIsQueue == H!HeapIsQueue
=============================================================================
