---------------------------- MODULE DurableNats ----------------------------
(* The NATS backend of sys/job/durable_queue.c.  JetStream is external and   *)
(* modelled from the configuration the code gives it: every durable consumer *)
(* is offered every message of the stream (DeliverAll), redelivers what is   *)
(* not acknowledged within AckWait or is nacked, and gives up after          *)
(* MaxDeliver deliveries.  The name of the durable is the worker's name, so  *)
(* workers share one only when they are created with the same name.          *)
EXTENDS Integers, FiniteSets

CONSTANTS
  Workers, Jobs,
  Names,        \* consumer names in use
  NameOf,       \* NameOf[w]: opts->consumer of each worker's queue
  MaxRetries,   \* q->max_retries
  MaxFaults     \* bound: failed calls and crashes

VARIABLES
  state,      \* per durable and job: "none", "ready", "inflight", "acked", "termed", "given up"
  count,      \* per durable and job: NumDelivered
  parked,     \* per job: copies on the dead stream
  pc,         \* per worker: "idle", "got", "park", "term" or "held"
  msg,        \* per worker: the job of its current delivery, and its count
  delivered,  \* per job: times a worker claimed it
  spoilt,     \* jobs whose last delivery failed before their copy was known to be parked
  faults

vars == <<state, count, parked, pc, msg, delivered, spoilt, faults>>

MaxDeliverIsRetries == MaxRetries
MaxDeliver == MaxRetries + 1

NoMsg == [job |-> CHOOSE j \in Jobs : TRUE, n |-> 0]

Init ==
  /\ state = [c \in Names |-> [j \in Jobs |-> "none"]]
  /\ count = [c \in Names |-> [j \in Jobs |-> 0]]
  /\ parked = [j \in Jobs |-> 0]
  /\ pc = [w \in Workers |-> "idle"] /\ msg = [w \in Workers |-> NoMsg]
  /\ delivered = [j \in Jobs |-> 0]
  /\ spoilt = {} /\ faults = 0

Goto(w, step) ==
  /\ pc' = [pc EXCEPT ![w] = step]
  /\ msg' = IF step = "idle" THEN [msg EXCEPT ![w] = NoMsg] ELSE msg
Job(w) == msg[w].job

Fault == faults < MaxFaults /\ faults' = faults + 1
NoFault == faults' = faults

(* A delivery that fails is JetStream's last. *)
Spoils(j, n) == spoilt' = IF n = MaxDeliver THEN spoilt \cup {j} ELSE spoilt

(* JetStream settles a delivery; a late answer about a message that is no    *)
(* longer in flight is ignored.                                              *)
Settled(w, s) == LET c == NameOf[w] IN
  IF state[c][Job(w)] = "inflight" THEN [state EXCEPT ![c][Job(w)] = s] ELSE state
Redelivers(c, j) == IF count[c][j] < MaxDeliver THEN "ready" ELSE "given up"

-----------------------------------------------------------------------------
(* jq_nats_enqueue: the stream stores the message for every durable, or, of  *)
(* a publish that fails, perhaps not.                                        *)
Enqueue(j) ==
  /\ \A c \in Names : state[c][j] = "none"
  /\ \/ NoFault /\ state' = [c \in Names |-> [state[c] EXCEPT ![j] = "ready"]]
     \/ Fault /\ state' \in {state, [c \in Names |-> [state[c] EXCEPT ![j] = "ready"]]}
  /\ UNCHANGED <<count, parked, pc, msg, delivered, spoilt>>

(* jq_nats_claim: Fetch of one message, which may not reach the worker. *)
Fetch(w, j) ==
  LET n == count[NameOf[w]][j] + 1 IN
  /\ pc[w] = "idle" /\ state[NameOf[w]][j] = "ready"
  /\ state' = [state EXCEPT ![NameOf[w]][j] = "inflight"]
  /\ count' = [count EXCEPT ![NameOf[w]][j] = n]
  /\ \/ /\ NoFault /\ spoilt' = spoilt
        /\ msg' = [msg EXCEPT ![w] = [job |-> j, n |-> n]]
        /\ pc' = [pc EXCEPT ![w] = "got"]
     \/ Fault /\ Spoils(j, n) /\ UNCHANGED <<msg, pc>>
  /\ UNCHANGED <<parked, delivered>>

ExhaustedLate(n) == n > MaxDeliver
Exhausted(n) == n > MaxRetries

(* The delivery count decides; without metadata or memory the delivery is    *)
(* dropped and JetStream's timeout awaited.                                  *)
Inspect(w) ==
  /\ pc[w] = "got"
  /\ \/ /\ Exhausted(msg[w].n) /\ NoFault
        /\ Goto(w, "park") /\ UNCHANGED <<delivered, spoilt>>
     \/ /\ ~Exhausted(msg[w].n) /\ NoFault
        /\ Goto(w, "held") /\ delivered' = [delivered EXCEPT ![Job(w)] = @ + 1]
        /\ spoilt' = spoilt
     \/ Fault /\ Goto(w, "idle") /\ delivered' = delivered /\ Spoils(Job(w), msg[w].n)
  /\ UNCHANGED <<state, count, parked>>

(* jq_nats_dead_letter: publish the copy, then terminate the delivery. *)
Park(w) ==
  /\ pc[w] = "park"
  /\ \/ /\ NoFault /\ parked' = [parked EXCEPT ![Job(w)] = @ + 1]
        /\ Goto(w, "term") /\ spoilt' = spoilt
     \/ /\ Fault /\ parked' \in {parked, [parked EXCEPT ![Job(w)] = @ + 1]}
        /\ Goto(w, "idle") /\ Spoils(Job(w), msg[w].n)
  /\ UNCHANGED <<state, count, delivered>>

Term(w) ==
  /\ pc[w] = "term"
  /\ \/ NoFault /\ state' = Settled(w, "termed")
     \/ Fault /\ state' = state
  /\ Goto(w, "idle")
  /\ UNCHANGED <<count, parked, delivered, spoilt>>

(* jq_nats_ack and jq_nats_nack free the handle whatever the answer was. *)
Ack(w) ==
  /\ pc[w] = "held"
  /\ \/ NoFault /\ state' = Settled(w, "acked")
     \/ Fault /\ state' = state
  /\ Goto(w, "idle")
  /\ UNCHANGED <<count, parked, delivered, spoilt>>

Nack(w) ==
  /\ pc[w] = "held"
  /\ \/ NoFault /\ state' = Settled(w, Redelivers(NameOf[w], Job(w)))
     \/ Fault /\ state' = state
  /\ Goto(w, "idle")
  /\ UNCHANGED <<count, parked, delivered, spoilt>>

(* cwist_job_destroy: the handle is freed and AckWait awaited. *)
Abandon(w) ==
  /\ pc[w] = "held" /\ Goto(w, "idle")
  /\ UNCHANGED <<state, count, parked, delivered, spoilt, faults>>

(* The process dies between two calls. *)
Crash(w) ==
  /\ pc[w] # "idle" /\ Fault /\ Goto(w, "idle")
  /\ IF pc[w] \in {"got", "park"} THEN Spoils(Job(w), msg[w].n) ELSE spoilt' = spoilt
  /\ UNCHANGED <<state, count, parked, delivered>>

(* AckWait runs out. *)
AckWait(c, j) ==
  /\ state[c][j] = "inflight"
  /\ state' = [state EXCEPT ![c][j] = Redelivers(c, j)]
  /\ UNCHANGED <<count, parked, pc, msg, delivered, spoilt, faults>>

Claim(w) == (\E j \in Jobs : Fetch(w, j)) \/ Inspect(w) \/ Park(w) \/ Term(w)

Settle(w) == Ack(w) \/ Nack(w) \/ Abandon(w)
Expiry == \E c \in Names, j \in Jobs : AckWait(c, j)

Next ==
  \/ \E j \in Jobs : Enqueue(j)
  \/ \E w \in Workers : Claim(w) \/ Settle(w) \/ Crash(w)
  \/ Expiry

-----------------------------------------------------------------------------
TypeOK ==
  /\ state \in [Names -> [Jobs -> {"none", "ready", "inflight", "acked", "termed", "given up"}]]
  /\ count \in [Names -> [Jobs -> 0..MaxDeliver]]
  /\ parked \in [Jobs -> Nat] /\ delivered \in [Jobs -> Nat]
  /\ pc \in [Workers -> {"idle", "got", "park", "term", "held"}]
  /\ msg \in [Workers -> [job : Jobs, n : 0..MaxDeliver]]
  /\ spoilt \subseteq Jobs

(* Workers of one durable respect max_retries, "Deliveries (including the    *)
(* first) before a job is dead-lettered" (durable_queue.h), whatever fails.  *)
RetriesBounded == \A j \in Jobs : delivered[j] <= MaxRetries
=============================================================================
