------------------------------ MODULE JobFifo ------------------------------
(* What the job list of sys/io/io_queue.c promises: a first-in first-out     *)
(* queue whose push and pop each take effect at one instant.  cwist_io_queue *)
(* is built on it (IoQueue), the lock-free list implements it (MSQueue).     *)
EXTENDS Sequences

CONSTANTS Consumers, Jobs, Nothing

VARIABLES
  items,  \* jobs linked and not yet popped, oldest first
  got     \* result of each consumer's last pop; Nothing when it found none

fifoVars == <<items, got>>

FifoInit == items = <<>> /\ got = [c \in Consumers |-> Nothing]

(* cwist_queue_push takes effect when the node is linked behind the last. *)
Push(j) == items' = Append(items, j) /\ got' = got

(* cwist_queue_pop takes the oldest job, or reports an empty queue. *)
Pop(c) ==
  /\ items # <<>>
  /\ items' = Tail(items)
  /\ got' = [got EXCEPT ![c] = Head(items)]

PopEmpty(c) ==
  /\ items = <<>>
  /\ items' = items
  /\ got' = [got EXCEPT ![c] = Nothing]

FifoNext ==
  \/ \E j \in Jobs : Push(j)
  \/ \E c \in Consumers : Pop(c) \/ PopEmpty(c)

FifoSpec == FifoInit /\ [][FifoNext]_fifoVars
=============================================================================
