------------------------------ MODULE JobStore ------------------------------
(* What a durable job queue (sys/job/durable_queue.h) promises its callers:  *)
(* a job that was enqueued is kept until a worker acknowledges it or it is   *)
(* dead-lettered ("Jobs survive process restarts; delivery is                *)
(* at-least-once").  Deliveries leave the job where it is.                   *)

CONSTANT Jobs

VARIABLE status  \* of each job: "absent", "queued", "acked" or "dead"

StoreInit == status = [j \in Jobs |-> "absent"]

Move(j, from, to) == status[j] = from /\ status' = [status EXCEPT ![j] = to]

StoreNext == \E j \in Jobs :
  Move(j, "absent", "queued") \/ Move(j, "queued", "acked") \/ Move(j, "queued", "dead")

StoreSpec == StoreInit /\ [][StoreNext]_status
=============================================================================
