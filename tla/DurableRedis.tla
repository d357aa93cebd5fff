---------------------------- MODULE DurableRedis ----------------------------
(* The Redis backend of sys/job/durable_queue.c.  Each worker talks to Redis *)
(* one command at a time; a command, or a Lua script, is one step, a call of *)
(* the API is several of them.  A command may fail before it is executed or  *)
(* after (the reply is lost), and a worker may crash between two commands.   *)
(* A script runs alone but is not rolled back: when one of its commands      *)
(* fails (a key of another type, say), what it did before stays done.        *)
(* Redis itself is external and keeps its data.  Time is abstracted to two   *)
(* events: a pending entry's idle time passes the visibility timeout, and a  *)
(* delayed job falls due.                                                    *)
EXTENDS Integers, Sequences, FiniteSets, SequencesExt

CONSTANTS
  Workers, Payloads,
  Loads,        \* who uses the queue, and whether scripts fail half way:
                \* [workers, payloads, cuts]
  MaxRetries,   \* q->max_retries
  MaxId,        \* bound: stream entries
  MaxFaults     \* bound: failed commands and crashes

VARIABLES
  entry,      \* payload of each stream entry, indexed by entry id
  read,       \* last entry id delivered to the group
  pel,        \* entry ids pending in the group
  expired,    \* those idle longer than the visibility timeout
  attempts,   \* the attempts hash, 0 for an absent field
  delay,      \* the delay zset: blobs [payload, attempts]
  due,        \* those whose score has passed
  dead,       \* the dead-letter list of payloads
  worker,     \* each worker: its step, reclaimed entries, current entry and its count
  enqueued, delivered, acked,  \* per payload: calls that enqueued, claimed, removed it
  overtaken,  \* a worker was given an entry that another one still works on
  torn,       \* payloads a script left half moved
  load,       \* the member of Loads at hand
  faults

store == <<entry, read, pel, expired, attempts, delay, due, dead>>
history == <<enqueued, delivered, acked, overtaken, torn, load>>
vars == <<store, worker, history, faults>>

Idle == [pc |-> "idle", todo |-> <<>>, id |-> 0, att |-> 0]

Init ==
  /\ entry = <<>> /\ read = 0 /\ pel = {} /\ expired = {}
  /\ attempts = [i \in 1..MaxId |-> 0]
  /\ delay = {} /\ due = {} /\ dead = <<>>
  /\ worker = [w \in Workers |-> Idle]
  /\ enqueued = [p \in Payloads |-> 0]
  /\ delivered = [p \in Payloads |-> 0] /\ acked = [p \in Payloads |-> 0]
  /\ overtaken = FALSE /\ torn = {} /\ load \in Loads /\ faults = 0

(* The loop over the reclaimed entries; after the last one, read a new one. *)
Candidate(todo) ==
  IF todo = <<>> THEN [Idle EXCEPT !.pc = "read"]
  ELSE [pc |-> "count", todo |-> Tail(todo), id |-> Head(todo), att |-> 0]

At(w, step) == worker[w].pc = step
Be(w, state) == worker' = [worker EXCEPT ![w] = state]
Goto(w, step) == Be(w, IF step = "idle" THEN Idle ELSE [worker[w] EXCEPT !.pc = step])
NextCandidate(w) == Be(w, Candidate(worker[w].todo))
Id(w) == worker[w].id
Payload(w) == entry[Id(w)]

(* One command: it is executed and answered, or it costs a fault and is      *)
(* executed or not.  done and ok are the two outcomes.                       *)
Outcome(done, ok) ==
  \/ done /\ ok /\ faults' = faults
  \/ ~ok /\ faults < MaxFaults /\ faults' = faults + 1

-----------------------------------------------------------------------------
(* jq_redis_enqueue: one XADD.  A caller that is told of a failure may try   *)
(* again; when only the reply was lost that is another job.                  *)
Enqueue(p) ==
  /\ p \in load.payloads /\ enqueued[p] = 0 /\ Len(entry) < MaxId
  /\ \E done, ok \in BOOLEAN :
       /\ Outcome(done, ok)
       /\ entry' = IF done THEN Append(entry, p) ELSE entry
       /\ enqueued' = IF done THEN [enqueued EXCEPT ![p] = @ + 1] ELSE enqueued
  /\ UNCHANGED <<read, pel, expired, attempts, delay, due, dead, worker, delivered, acked,
                 overtaken, torn, load>>

-----------------------------------------------------------------------------
(* jq_redis_claim: reap, reclaim, read. *)

Blobs == SetToSeq(due)

(* The attempts hash is seeded with one less, for the claim counts one. *)
SeedUncounted(b) == 0
Seed(b) == b.attempts - 1

(* JQ_REAP_SCRIPT per blob: XADD, HSET, ZREM.  The first n blobs are moved;  *)
(* cut short by an error, the next one is on the stream and still delayed.   *)
Moved(n, cut) ==
  LET added == SubSeq(Blobs, 1, IF cut THEN n + 1 ELSE n)
      gone == Range(SubSeq(Blobs, 1, n))
  IN /\ entry' = entry \o [i \in DOMAIN added |-> added[i].payload]
     /\ attempts' = [i \in 1..MaxId |->
           IF i \in (Len(entry) + 1)..(Len(entry) + n) THEN Seed(Blobs[i - Len(entry)])
           ELSE attempts[i]]
     /\ delay' = delay \ gone /\ due' = due \ gone
     /\ torn' = IF cut THEN torn \cup {Blobs[n + 1].payload} ELSE torn

(* Fire and forget: the outcome is not looked at. *)
Reap(w) ==
  /\ w \in load.workers /\ At(w, "idle") /\ Len(entry) + Len(Blobs) <= MaxId
  /\ Goto(w, "autoclaim")
  /\ \E done, ok \in BOOLEAN :
       /\ Outcome(done, ok)
       /\ \/ done /\ Moved(Len(Blobs), FALSE)
          \/ done /\ ~ok /\ load.cuts /\ \E n \in 0..(Len(Blobs) - 1) : Moved(n, TRUE)
          \/ ~done /\ UNCHANGED <<entry, attempts, delay, due, torn>>
  /\ UNCHANGED <<read, pel, expired, dead, enqueued, delivered, acked, overtaken, load>>

(* The entries a worker has been given and not done with. *)
Minds(w) == Range(worker[w].todo) \cup {Id(w)}

(* XAUTOCLAIM resets the idle time of every expired entry, oldest first. *)
Autoclaim(w) ==
  /\ At(w, "autoclaim")
  /\ \E done, ok \in BOOLEAN :
       /\ Outcome(done, ok)
       /\ expired' = IF done THEN {} ELSE expired
       /\ Be(w, Candidate(IF ok THEN SetToSortSeq(expired, <) ELSE <<>>))
       /\ overtaken' = (overtaken \/ (done /\ \E v \in Workers \ {w} : Minds(v) \cap expired # {}))
  /\ UNCHANGED <<entry, read, pel, attempts, delay, due, dead, enqueued, delivered, acked, torn,
                 load>>

(* The group's cursor: the next entry nobody was given. *)
Resumes == read + 1

(* XREADGROUP COUNT 1: one entry the group has not seen, if any. *)
Readgroup(w) ==
  /\ At(w, "read")
  /\ \E done, ok \in BOOLEAN :
       /\ Outcome(done, ok)
       /\ IF done /\ Resumes <= Len(entry)
          THEN read' = Resumes /\ pel' = pel \cup {Resumes}
          ELSE UNCHANGED <<read, pel>>
       /\ Be(w, IF ok /\ Resumes <= Len(entry)
                THEN [Idle EXCEPT !.pc = "countNew", !.id = Resumes] ELSE Idle)
  /\ UNCHANGED <<entry, expired, attempts, delay, due, dead, history>>

(* jq_redis_delivery_count, and the decision that follows it: a reclaimed    *)
(* entry past its retries is dead-lettered, a new one is always returned.    *)
TooOften(n) == n > MaxRetries

Count(w) ==
  /\ At(w, "count") \/ At(w, "countNew")
  /\ \E done, ok \in BOOLEAN :
       /\ Outcome(done, ok)
       /\ LET n == attempts[Id(w)] + 1
              exhausted == At(w, "count") /\ TooOften(n)
          IN /\ attempts' = IF done THEN [attempts EXCEPT ![Id(w)] = n] ELSE attempts
             /\ \/ ~ok /\ IF At(w, "count") THEN NextCandidate(w) ELSE Goto(w, "idle")
                \/ ok /\ exhausted /\ Goto(w, "deadPush")
                \/ ok /\ ~exhausted
                   /\ Be(w, [pc |-> "held", todo |-> <<>>, id |-> Id(w), att |-> n])
             /\ delivered' = IF ok /\ ~exhausted
                             THEN [delivered EXCEPT ![Payload(w)] = @ + 1] ELSE delivered
  /\ UNCHANGED <<entry, read, pel, expired, delay, due, dead, enqueued, acked, overtaken, torn,
                 load>>

(* jq_redis_dead_letter: RPUSH, then XACK, then HDEL; the first failure ends *)
(* it and the loop goes on.                                                  *)
DeadPushAcksFirst(w) ==
  /\ At(w, "deadPush")
  /\ pel' = pel \ {Id(w)} /\ expired' = expired \ {Id(w)}
  /\ NextCandidate(w)
  /\ UNCHANGED <<entry, read, attempts, delay, due, dead, history, faults>>

DeadPush(w) ==
  /\ At(w, "deadPush")
  /\ \E done, ok \in BOOLEAN :
       /\ Outcome(done, ok)
       /\ dead' = IF done THEN Append(dead, Payload(w)) ELSE dead
       /\ IF ok THEN Goto(w, "deadAck") ELSE NextCandidate(w)
  /\ UNCHANGED <<entry, read, pel, expired, attempts, delay, due, history>>

DeadAck(w) ==
  /\ At(w, "deadAck")
  /\ \E done, ok \in BOOLEAN :
       /\ Outcome(done, ok)
       /\ pel' = IF done THEN pel \ {Id(w)} ELSE pel
       /\ expired' = IF done THEN expired \ {Id(w)} ELSE expired
       /\ IF ok THEN Goto(w, "deadDel") ELSE NextCandidate(w)
  /\ UNCHANGED <<entry, read, attempts, delay, due, dead, history>>

(* HDEL, of a dead-lettered entry or of an acknowledged one. *)
DeleteAttempts(w) ==
  /\ At(w, "deadDel") \/ At(w, "ackDel")
  /\ \E done, ok \in BOOLEAN :
       /\ Outcome(done, ok)
       /\ attempts' = IF done THEN [attempts EXCEPT ![Id(w)] = 0] ELSE attempts
  /\ IF At(w, "deadDel") THEN NextCandidate(w) ELSE Goto(w, "idle")
  /\ UNCHANGED <<entry, read, pel, expired, delay, due, dead, history>>

-----------------------------------------------------------------------------
(* Settling a claimed job. *)

(* jq_redis_ack: XACK, and HDEL whatever came of it. *)
Ack(w) ==
  /\ At(w, "held")
  /\ \E done, ok \in BOOLEAN :
       /\ Outcome(done, ok)
       /\ pel' = IF done THEN pel \ {Id(w)} ELSE pel
       /\ expired' = IF done THEN expired \ {Id(w)} ELSE expired
       /\ acked' = IF done /\ Id(w) \in pel THEN [acked EXCEPT ![Payload(w)] = @ + 1] ELSE acked
  /\ Goto(w, "ackDel")
  /\ UNCHANGED <<entry, read, attempts, delay, due, dead, enqueued, delivered, overtaken, torn,
                 load>>

(* JQ_NACK_SCRIPT: nothing unless the entry is still pending; else XACK,     *)
(* HDEL, and the blob is dead-lettered or delayed.  An error in between      *)
(* leaves the job acknowledged and nowhere else.                             *)
StillPendingUnchecked(w) == TRUE
StillPending(w) == Id(w) \in pel

Parked(blob) ==
  IF TooOften(blob.attempts)
  THEN dead' = Append(dead, blob.payload) /\ UNCHANGED <<delay, due>>
  ELSE delay' = delay \cup {blob} /\ due' = due \ {blob} /\ dead' = dead

Nack(w) ==
  /\ At(w, "held")
  /\ \E done, ok \in BOOLEAN :
       /\ Outcome(done, ok)
       /\ IF done /\ StillPending(w)
          THEN /\ pel' = pel \ {Id(w)} /\ expired' = expired \ {Id(w)}
               /\ \/ /\ attempts' = [attempts EXCEPT ![Id(w)] = 0]
                     /\ Parked([payload |-> Payload(w), attempts |-> worker[w].att + 1])
                     /\ torn' = torn
                  \/ /\ ~ok /\ load.cuts
                     /\ attempts' \in {attempts, [attempts EXCEPT ![Id(w)] = 0]}
                     /\ torn' = torn \cup {Payload(w)}
                     /\ UNCHANGED <<delay, due, dead>>
          ELSE UNCHANGED <<pel, expired, attempts, delay, due, dead, torn>>
  /\ Goto(w, "idle")
  /\ UNCHANGED <<entry, read, enqueued, delivered, acked, overtaken, load>>

(* cwist_job_destroy: the job is given up and its timeout awaited. *)
Abandon(w) ==
  /\ At(w, "held")
  /\ Goto(w, "idle")
  /\ UNCHANGED <<store, history, faults>>

(* The worker's process dies between two commands. *)
Crash(w) ==
  /\ ~At(w, "idle") /\ faults < MaxFaults
  /\ faults' = faults + 1
  /\ Goto(w, "idle")
  /\ UNCHANGED <<store, history>>

-----------------------------------------------------------------------------
(* Time. *)
Expire(i) ==
  /\ i \in pel \ expired
  /\ expired' = expired \cup {i}
  /\ UNCHANGED <<entry, read, pel, attempts, delay, due, dead, worker, history, faults>>

FallDue(b) ==
  /\ b \in delay \ due
  /\ due' = due \cup {b}
  /\ UNCHANGED <<entry, read, pel, expired, attempts, delay, dead, worker, history, faults>>

Claim(w) ==
  \/ Reap(w) \/ Autoclaim(w) \/ Readgroup(w) \/ Count(w)
  \/ DeadPush(w) \/ DeadAck(w) \/ DeleteAttempts(w)

Settle(w) == Ack(w) \/ Nack(w) \/ Abandon(w)
Expiry == \E i \in pel : Expire(i)
FallingDue == \E b \in delay : FallDue(b)

Next ==
  \/ \E p \in Payloads : Enqueue(p)
  \/ \E w \in Workers : Claim(w) \/ Settle(w) \/ Crash(w)
  \/ Expiry \/ FallingDue

-----------------------------------------------------------------------------
(* Properties. *)

TypeOK ==
  /\ entry \in Seq(Payloads) /\ read \in 0..Len(entry)
  /\ pel \subseteq 1..read /\ expired \subseteq pel
  /\ attempts \in [1..MaxId -> Nat]
  /\ due \subseteq delay /\ delay \subseteq [payload : Payloads, attempts : 1..MaxRetries]
  /\ dead \in Seq(Payloads) /\ torn \subseteq Payloads
  /\ \A w \in Workers : Id(w) \in 0..read /\ worker[w].todo \in Seq(1..read)

New(p) == Cardinality({i \in (read + 1)..Len(entry) : entry[i] = p})
Pending(p) == Cardinality({i \in pel : entry[i] = p})
Delayed(p) == Cardinality({b \in delay : b.payload = p})
Live(p) == New(p) + Pending(p) + Delayed(p)
Dead(p) == Cardinality({i \in DOMAIN dead : dead[i] = p})

(* For jobs that differ in type or payload: a job is where JobStore says, or *)
(* nowhere.                                                                  *)
Status == [p \in Payloads |->
  IF enqueued[p] = 0 THEN "absent" ELSE IF Live(p) > 0 THEN "queued"
  ELSE IF acked[p] > 0 THEN "acked" ELSE IF Dead(p) > 0 THEN "dead" ELSE "lost"]
Store == INSTANCE JobStore WITH Jobs <- Payloads, status <- Status

(* durable_queue.h: "Jobs survive process restarts; delivery is              *)
(* at-least-once".  Whatever crashes, commands that fail and replies that    *)
(* are lost come between, the store is that of JobStore: an enqueued job     *)
(* stays queued until it is acknowledged or dead-lettered.  Only a job that  *)
(* a script was cut short on is excepted.                                    *)
KeepsJobs ==
  Store!StoreInit /\ [][Store!StoreNext \/ \E p \in torn' : Status[p] # Status'[p]]_Status

(* durable_queue.c on JQ_NACK_SCRIPT: "Atomically schedules a nacked job:    *)
(* XACK, then either park it in the delay zset or dead-letter it": no job is *)
(* acknowledged by a nack and then in neither place.                         *)
NackSchedules == \A p \in Payloads : Status[p] # "lost"

(* However late a worker settles a job that was reclaimed meanwhile, the job *)
(* is never queued twice, unless the reaper's script was cut short on it.    *)
OneCopy == \A p \in Payloads \ torn : Live(p) + acked[p] <= enqueued[p]

(* durable_queue.h: attempts is "Number of deliveries so far, including the  *)
(* current one", and max_retries is "Deliveries (including the first) before *)
(* a job is dead-lettered".  Both hold while no command fails and no worker  *)
(* outlives its visibility timeout.                                          *)
AttemptsTold == faults = 0 /\ ~overtaken =>
  /\ \A w \in Workers : At(w, "held") => worker[w].att = delivered[Payload(w)]
  /\ \A p \in Payloads : delivered[p] <= MaxRetries
=============================================================================
