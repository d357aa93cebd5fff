----------------------------- MODULE DelayHeap -----------------------------
(* The delayed-job array of sys/job/scheduler.c: a binary min-heap by        *)
(* deadline in a buffer that doubles.  Every operation runs under            *)
(* delayed_mtx, so each is one step.  Scheduler uses it as a set of entries  *)
(* of which the minimum is taken; this module shows the array is that.       *)
(* Positions are 1-based here: the parent of i is i \div 2.                  *)
EXTENDS Integers, Sequences, SequencesExt

CONSTANTS
  Jobs, Deadlines,
  HeapInit      \* CWIST_SCHEDULER_HEAP_INIT, first capacity of the buffer

VARIABLES
  heap,      \* the entries [job, due] of s->heap, heap_count of them
  capacity,  \* s->heap_capacity
  popped     \* the last entry heap_pop returned, as a set of at most one

vars == <<heap, capacity, popped>>

Init == heap = <<>> /\ capacity = 0 /\ popped = {}

Swap(h, i, k) == [h EXCEPT ![i] = h[k], ![k] = h[i]]

-----------------------------------------------------------------------------
(* The loop of heap_push from position i. *)
UpStops(h, i) == i = 1 \/ h[i \div 2].due <= h[i].due
RECURSIVE SiftUp(_, _)
SiftUp(h, i) == IF UpStops(h, i) THEN h ELSE SiftUp(Swap(h, i, i \div 2), i \div 2)

(* The loop of heap_pop from position i: the smaller child moves up. *)
SmallestLeftOnly(h, i) ==
  IF 2 * i <= Len(h) /\ h[2 * i].due < h[i].due THEN 2 * i ELSE i
Smallest(h, i) ==
  LET left == IF 2 * i <= Len(h) /\ h[2 * i].due < h[i].due THEN 2 * i ELSE i
  IN IF 2 * i + 1 <= Len(h) /\ h[2 * i + 1].due < h[left].due THEN 2 * i + 1 ELSE left
RECURSIVE SiftDown(_, _)
SiftDown(h, i) ==
  IF Smallest(h, i) = i THEN h ELSE SiftDown(Swap(h, i, Smallest(h, i)), Smallest(h, i))

(* The last entry replaces the root of the shortened heap. *)
WithoutRoot(h) ==
  IF Len(h) = 1 THEN <<>> ELSE SiftDown([Front(h) EXCEPT ![1] = Last(h)], 1)

-----------------------------------------------------------------------------
Grown == IF capacity = 0 THEN HeapInit ELSE 2 * capacity

(* heap_push; heap_grow may fail to allocate, and then nothing changes. *)
heap_push(e) ==
  /\ popped' = {}
  /\ \/ /\ heap' = SiftUp(Append(heap, e), Len(heap) + 1)
        /\ capacity' = IF Len(heap) < capacity THEN capacity ELSE Grown
     \/ Len(heap) >= capacity /\ UNCHANGED <<heap, capacity>>

heap_pop ==
  /\ heap # <<>>
  /\ popped' = {heap[1]}
  /\ heap' = WithoutRoot(heap)
  /\ capacity' = capacity

(* cwist_scheduler_cancel_pending detaches the whole buffer. *)
CancelPending == heap' = <<>> /\ capacity' = 0 /\ popped' = {}

(* A job is scheduled at most once in this model, which bounds the heap. *)
Next ==
  \/ \E j \in Jobs \ {heap[i].job : i \in DOMAIN heap}, d \in Deadlines :
       heap_push([job |-> j, due |-> d])
  \/ heap_pop
  \/ CancelPending

Spec == Init /\ [][Next]_vars

-----------------------------------------------------------------------------
TypeOK ==
  /\ heap \in Seq([job : Jobs, due : Deadlines])
  /\ capacity \in Nat /\ Len(heap) <= capacity
  /\ popped \subseteq [job : Jobs, due : Deadlines]

Earliest == \A e \in popped : \A i \in DOMAIN heap : e.due <= heap[i].due

Entries(h) == {h[i] : i \in DOMAIN h}
Kept ==
  \/ heap' = <<>> /\ capacity' = 0
  \/ /\ Len(heap') = Cardinality(Entries(heap'))
     /\ IF popped' # {} THEN /\ Entries(heap) = Entries(heap') \cup popped'
                             /\ popped' \cap Entries(heap') = {}
        ELSE /\ Entries(heap) \subseteq Entries(heap')
             /\ Len(heap') <= Len(heap) + 1

(* The timer thread only looks at heap[0]: the array never outgrows its      *)
(* buffer, what heap_pop hands out is never later than any entry that stays  *)
(* behind, and no operation but cancelling loses or duplicates an entry.     *)
HeapIsQueue == [](TypeOK /\ Earliest) /\ [][Kept]_vars
=============================================================================
