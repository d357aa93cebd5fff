---------------------------- MODULE DurableQueue ----------------------------
(* sys/job/durable_queue.c: a queue is created on one of two backends and    *)
(* every call is dispatched to that backend's functions.  DurableRedis and   *)
(* DurableNats model them; the count of failed calls and the record of       *)
(* deliveries are common to both.                                            *)
EXTENDS Integers, Sequences, FiniteSets

CONSTANTS
  Workers, Payloads, Loads, MaxRetries, MaxId, MaxFaults,  \* see DurableRedis
  Names, NameOf                                            \* see DurableNats

ASSUME DurableConstants ==
  /\ MaxRetries \in Nat \ {0} /\ MaxId \in Nat /\ MaxFaults \in Nat
  /\ Loads \subseteq [workers : SUBSET Workers, payloads : SUBSET Payloads, cuts : BOOLEAN]
  /\ NameOf \in [Workers -> Names]

VARIABLES
  backend,           \* q->backend
  delivered, faults,
  entry, read, pel, expired, attempts, delay, due, dead, worker, enqueued, acked, overtaken,
  torn, load,
  state, count, parked, pc, msg, spoilt

redisVars == <<entry, read, pel, expired, attempts, delay, due, dead, worker, enqueued, acked,
               overtaken, torn, load>>
natsVars == <<state, count, parked, pc, msg, spoilt>>
vars == <<backend, delivered, faults, redisVars, natsVars>>

R == INSTANCE DurableRedis
N == INSTANCE DurableNats WITH Jobs <- Payloads

(* cwist_job_queue_redis and cwist_job_queue_nats. *)
Init ==
  /\ backend \in {"redis", "nats"} /\ R!Init /\ N!Init
  /\ backend = "nats" => load = CHOOSE l \in Loads : TRUE

Redis == backend = "redis" /\ UNCHANGED <<backend, natsVars>>
Nats == backend = "nats" /\ UNCHANGED <<backend, redisVars>>

Next == (Redis /\ R!Next) \/ (Nats /\ N!Next)

(* Workers keep claiming and settle what they hold; timeouts run out and     *)
(* delayed jobs fall due.                                                    *)
Claims(w) == (Redis /\ R!Claim(w)) \/ (Nats /\ N!Claim(w))
Settling(w) == (Redis /\ R!Settle(w)) \/ (Nats /\ N!Settle(w))
Expiring == (Redis /\ R!Expiry) \/ (Nats /\ N!Expiry)
FallingDue == Redis /\ R!FallingDue

Fairness ==
  /\ \A w \in Workers : WF_vars(Claims(w)) /\ WF_vars(Settling(w))
  /\ WF_vars(Expiring) /\ WF_vars(FallingDue)

FairSpec == Init /\ [][Next]_vars /\ Fairness

-----------------------------------------------------------------------------
TypeOK == R!TypeOK /\ N!TypeOK

(* Redis: an enqueued job stays queued until it is acknowledged or dead-     *)
(* lettered, whatever commands fail and workers crash, short of an error in  *)
(* the middle of a script.                                                   *)
KeepsJobs == R!KeepsJobs

(* Redis: JQ_NACK_SCRIPT "Atomically schedules a nacked job". *)
NackSchedules == R!NackSchedules

(* Redis: a job is never queued twice, however late it is settled, short of  *)
(* an error in the middle of a script; every variable of either backend      *)
(* keeps its type.                                                           *)
OneCopy == TypeOK /\ R!OneCopy

(* max_retries bounds the deliveries: on NATS whatever fails, on Redis       *)
(* without failures or overtaking, where the attempts told to the worker are *)
(* also the deliveries made.                                                 *)
RetriesBounded == IF backend = "redis" THEN R!AttemptsTold ELSE N!RetriesBounded

(* An enqueued job ends acknowledged or dead-lettered, though it be nacked,  *)
(* abandoned and reclaimed over and over and though commands fail.  Excepted *)
(* on Redis is a job one of whose scripts was cut short, on NATS one whose   *)
(* last delivery, the one that is to dead-letter it, did not get that far:   *)
(* JetStream makes no other.                                                 *)
Enqueued(p) == enqueued[p] > 0 \/ \E c \in Names : state[c][p] # "none"
Done(p) ==
  IF backend = "redis" THEN acked[p] > 0 \/ R!Dead(p) > 0 \/ p \in torn
  ELSE parked[p] > 0 \/ (\E c \in Names : state[c][p] = "acked") \/ p \in spoilt
Settles == \A p \in Payloads : Enqueued(p) ~> Done(p)
=============================================================================
