--------------------------- MODULE MCDurableQueue ---------------------------
(* On Redis either two workers with one job, or one worker with two jobs and *)
(* scripts that may be cut short; on NATS two workers of one durable         *)
(* consumer with two jobs.                                                   *)
EXTENDS DurableQueue, TLC

CONSTANTS w1, w2, p1, p2, c1

MCLoads == {[workers |-> {w1, w2}, payloads |-> {p1}, cuts |-> FALSE],
            [workers |-> {w1}, payloads |-> {p1, p2}, cuts |-> TRUE]}
SharedName == (w1 :> c1) @@ (w2 :> c1)
=============================================================================
