------------------------------ MODULE IoQueue ------------------------------
(* cwist_io_queue (sys/io/io_queue.c): threads submit jobs to the job list   *)
(* and worker threads in cwist_io_queue_run take them.  The list is the      *)
(* first-in first-out queue of JobFifo, which MSQueue shows the lock-free    *)
(* code to be; what is modelled here is the counting of pending jobs beside  *)
(* it, which is not atomic with the list, and the sleeping and stopping that *)
(* hang on that count.                                                       *)
EXTENDS Integers, Sequences, FiniteSets

CONSTANTS
  Submitters, Workers, Jobs, Nothing,
  Width  \* the modulus of the unsigned pending counter

ASSUME IoQueueConstants ==
  /\ Submitters \cap Workers = {}
  /\ IsFiniteSet(Submitters) /\ IsFiniteSet(Workers) /\ IsFiniteSet(Jobs)
  /\ Width \in Nat /\ Width > Cardinality(Jobs) + Cardinality(Workers)
  /\ Nothing \notin Jobs

VARIABLES
  items, got,      \* the job list, see JobFifo
  pending,         \* q->pending_jobs
  running,         \* q->running
  asleep,          \* workers waiting on q->sleep_cond
  pc,              \* step of each submitter and worker
  pushing,         \* the job each submitter is pushing
  submitted,       \* jobs some submit call was made for
  accepted,        \* jobs whose submit returned true
  stop,            \* progress of cwist_io_queue_stop
  ran              \* jobs whose callback was run

queueVars == <<items, got, pending, running, asleep, pc, pushing, submitted, accepted, stop, ran>>

Fifo == INSTANCE JobFifo WITH Consumers <- Workers

QueueInit ==
  /\ Fifo!FifoInit
  /\ pending = 0 /\ running = TRUE /\ asleep = {}
  /\ pc = [t \in Submitters \cup Workers |-> IF t \in Workers THEN "check" ELSE "idle"]
  /\ pushing = [t \in Submitters |-> Nothing]
  /\ submitted = {} /\ accepted = {} /\ ran = {} /\ stop = "no"

Goto(t, step) == pc' = [pc EXCEPT ![t] = step]

-----------------------------------------------------------------------------
(* cwist_io_queue_submit and cwist_queue_push *)

(* The running check.  A refused job is the caller's again. *)
SubmitRefused(t, j) ==
  /\ pc[t] = "idle" /\ ~running
  /\ submitted' = submitted \cup {j}
  /\ UNCHANGED <<items, got, pending, running, asleep, pc, pushing, accepted, stop, ran>>

SubmitBegin(t, j) ==
  /\ pc[t] = "idle" /\ running
  /\ submitted' = submitted \cup {j}
  /\ pushing' = [pushing EXCEPT ![t] = j]
  /\ Goto(t, "link")
  /\ UNCHANGED <<items, got, pending, running, asleep, accepted, stop, ran>>

SubmitLink(t) ==
  /\ pc[t] = "link"
  /\ Fifo!Push(pushing[t])
  /\ Goto(t, "count")
  /\ UNCHANGED <<pending, running, asleep, pushing, submitted, accepted, stop, ran>>

(* The calls return true. *)
Returns(t) ==
  /\ accepted' = accepted \cup {pushing[t]}
  /\ pushing' = [pushing EXCEPT ![t] = Nothing]
  /\ Goto(t, "idle")

(* Only the submitter that takes the count from zero signals. *)
MustSignalNever == FALSE
MustSignal == pending = 0

SubmitCount(t) ==
  /\ pc[t] = "count"
  /\ pending' = (pending + 1) % Width
  /\ IF MustSignal THEN Goto(t, "signal") /\ UNCHANGED <<accepted, pushing>> ELSE Returns(t)
  /\ UNCHANGED <<items, got, running, asleep, submitted, stop, ran>>

SubmitSignal(t) ==
  /\ pc[t] = "signal"
  /\ IF asleep = {} THEN asleep' = asleep
     ELSE \E w \in asleep : asleep' = asleep \ {w}
  /\ Returns(t)
  /\ UNCHANGED <<items, got, pending, running, submitted, stop, ran>>

SubmitStep(t) == SubmitLink(t) \/ SubmitCount(t) \/ SubmitSignal(t)

-----------------------------------------------------------------------------
(* cwist_io_queue_run *)

(* The loop condition. *)
MoreToDo == running \/ pending > 0

WorkerCheck(w) ==
  /\ pc[w] = "check"
  /\ Goto(w, IF MoreToDo THEN "pop" ELSE "exited")
  /\ UNCHANGED <<items, got, pending, running, asleep, pushing, submitted, accepted, stop, ran>>

WorkerPop(w) ==
  /\ pc[w] = "pop"
  /\ \/ Fifo!Pop(w) /\ Goto(w, "uncount")
     \/ Fifo!PopEmpty(w) /\ Goto(w, "wait")
  /\ UNCHANGED <<pending, running, asleep, pushing, submitted, accepted, stop, ran>>

WorkerUncountSigned(w) ==
  /\ pc[w] = "uncount"
  /\ pending' = pending - 1
  /\ Goto(w, "run")
  /\ UNCHANGED <<items, got, running, asleep, pushing, submitted, accepted, stop, ran>>

WorkerUncountClamped(w) ==
  /\ pc[w] = "uncount"
  /\ pending' = IF pending = 0 THEN 0 ELSE pending - 1
  /\ Goto(w, "run")
  /\ UNCHANGED <<items, got, running, asleep, pushing, submitted, accepted, stop, ran>>

WorkerUncount(w) ==
  /\ pc[w] = "uncount"
  /\ pending' = (pending - 1) % Width
  /\ Goto(w, "run")
  /\ UNCHANGED <<items, got, running, asleep, pushing, submitted, accepted, stop, ran>>

(* The callback returns and the job is freed. *)
WorkerRun(w) ==
  /\ pc[w] = "run"
  /\ ran' = ran \cup {got[w]} /\ got' = [got EXCEPT ![w] = Nothing]
  /\ Goto(w, "check")
  /\ UNCHANGED <<items, pending, running, asleep, pushing, submitted, stop, accepted>>

(* cwist_queue_wait: the test and the wait are one critical section of       *)
(* q->sleep_lock; a woken worker tests again.                                *)
MaySleepAnyway == running
MaySleep == pending = 0 /\ running

WorkerWait(w) ==
  /\ \/ pc[w] = "wait"
     \/ pc[w] = "sleep" /\ w \notin asleep
  /\ IF MaySleep
     THEN asleep' = asleep \cup {w} /\ Goto(w, "sleep")
     ELSE asleep' = asleep /\ Goto(w, IF running \/ pending > 0 THEN "check" ELSE "exited")
  /\ UNCHANGED <<items, got, pending, running, pushing, submitted, accepted, stop, ran>>

WorkerStep(w) ==
  \/ WorkerCheck(w) \/ WorkerPop(w) \/ WorkerUncount(w) \/ WorkerRun(w) \/ WorkerWait(w)

-----------------------------------------------------------------------------
(* cwist_io_queue_stop: the flag, then the broadcast under the lock. *)
StopFlag ==
  /\ stop = "no" /\ stop' = "flagged"
  /\ running' = FALSE
  /\ UNCHANGED <<items, got, pending, asleep, pc, pushing, submitted, accepted, ran>>

StopBroadcast ==
  /\ stop = "flagged" /\ stop' = "done"
  /\ asleep' = {}
  /\ UNCHANGED <<items, got, pending, running, pc, pushing, submitted, accepted, ran>>

WorkersGone == \A w \in Workers : pc[w] = "exited"

QueueNext ==
  \/ \E t \in Submitters :
       \/ \E j \in Jobs \ submitted : SubmitBegin(t, j) \/ SubmitRefused(t, j)
       \/ SubmitStep(t)
  \/ \E w \in Workers : WorkerStep(w)
  \/ StopFlag \/ StopBroadcast

QueueSpec == QueueInit /\ [][QueueNext]_queueVars

-----------------------------------------------------------------------------
(* Properties of the queue. *)

QueueTypeOK ==
  /\ items \in Seq(Jobs) /\ got \in [Workers -> Jobs \cup {Nothing}]
  /\ pending \in 0..(Width - 1) /\ running \in BOOLEAN /\ asleep \subseteq Workers
  /\ pc \in [Submitters \cup Workers ->
               {"idle", "link", "count", "signal", "check", "pop", "uncount",
                "run", "wait", "sleep", "exited"}]
  /\ pushing \in [Submitters -> Jobs \cup {Nothing}]
  /\ submitted \subseteq Jobs /\ accepted \subseteq Jobs /\ ran \subseteq Jobs
  /\ stop \in {"no", "flagged", "done"}

At(threads, step) == Cardinality({t \in threads : pc[t] = step})

(* pending_jobs is the length of the list up to the jobs linked and not yet  *)
(* counted and those popped and not yet uncounted; it wraps below zero while *)
(* a job is popped before its submitter counted it.                          *)
PendingExact ==
  pending = (Len(items) - At(Submitters, "count") + At(Workers, "uncount")) % Width

(* No wake-up is lost: when every worker is asleep and nobody is about to    *)
(* count or signal, the list is empty.                                       *)
NoLostWakeup ==
  (Workers # {} /\ asleep = Workers) =>
    \/ items = <<>>
    \/ \E t \in Submitters : pc[t] \in {"count", "signal"}

(* A job is in one place: listed, in one worker's hands, or done.            *)
InHand == {w \in Workers : pc[w] \in {"uncount", "run"}}
JobOnce ==
  /\ \A i, k \in DOMAIN items : i # k => items[i] # items[k]
  /\ \A w \in InHand : got[w] \notin ran /\ \A i \in DOMAIN items : items[i] # got[w]
  /\ \A v, w \in InHand : v # w => got[v] # got[w]

(* An accepted job is run, whatever wake-ups the count suppressed, unless    *)
(* the queue is stopped.                                                     *)
AcceptedRuns == \A j \in Jobs : j \in accepted ~> (j \in ran \/ ~running)
=============================================================================
