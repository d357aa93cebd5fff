----------------------------- MODULE Scheduler -----------------------------
(* cwist_scheduler (sys/job/scheduler.c): worker threads on a job queue      *)
(* (IoQueue) and one timer thread that submits delayed jobs to it when they  *)
(* fall due.  Callers submit, schedule and cancel until the owner destroys   *)
(* the scheduler; they have returned from their calls by then and make no    *)
(* more of them, since the handle is freed.                                  *)
(* The delayed-job heap is the set of its entries: the operations under      *)
(* delayed_mtx only ever look at its minimum (DelayHeap has the array).      *)
EXTENDS IoQueue, FiniteSetsExt

CONSTANTS
  Timer,    \* the timer thread, one of Submitters
  Delays,   \* delays asked for, in ticks
  MaxTime   \* bound on the clock

ASSUME SchedulerConstants == Timer \in Submitters /\ Delays \subseteq Nat \ {0} /\ MaxTime \in Nat

VARIABLES
  heap,       \* delayed jobs [job, due]
  now,        \* now_ms()
  live,       \* s->running
  tpc,        \* the timer thread: "loop", "wait", "fire" or "exited"
  tdue,       \* deadline of its timed wait; 0 when it waits without one
  signalled,  \* delayed_cond was signalled since it began to wait
  dpc,        \* progress of cwist_scheduler_destroy
  due,        \* due[j]: when a delayed job was to run; 0 for the others
  cancelled,  \* jobs passed to drop_cb
  dropped     \* jobs discarded by the timer or by destroy without a callback

timerVars == <<heap, now, live, tpc, tdue, signalled, dpc, due, cancelled, dropped>>
vars == <<queueVars, timerVars>>

Callers == Submitters \ {Timer}

Init ==
  /\ QueueInit
  /\ heap = {} /\ now = 0 /\ live = TRUE
  /\ tpc = "loop" /\ tdue = 0 /\ signalled = FALSE /\ dpc = "no"
  /\ due = [j \in Jobs |-> 0] /\ cancelled = {} /\ dropped = {}

Earliest == Min({e.due : e \in heap})

-----------------------------------------------------------------------------
(* Calls from the program. *)

(* cwist_scheduler_submit, and cwist_scheduler_schedule without a delay. *)
Submit(t, j) ==
  /\ dpc = "no" /\ live /\ SubmitBegin(t, j)
  /\ UNCHANGED timerVars

SubmitContinue(t) == SubmitStep(t) /\ UNCHANGED timerVars

(* cwist_scheduler_schedule (heap_push may fail, and then it returns false   *)
(* with nothing changed): the timer is signalled for every new entry.        *)
WakesTimerNever == signalled
WakesTimerIfEmpty == signalled \/ (tpc = "wait" /\ heap = {})
WakesTimer == signalled \/ tpc = "wait"

Schedule(t, j, d) ==
  /\ dpc = "no" /\ live /\ pc[t] = "idle"
  /\ heap' = heap \cup {[job |-> j, due |-> now + d]}
  /\ signalled' = WakesTimer
  /\ submitted' = submitted \cup {j} /\ due' = [due EXCEPT ![j] = now + d]
  /\ UNCHANGED <<items, got, pending, running, asleep, pc, pushing, accepted, stop, ran>>
  /\ UNCHANGED <<now, live, tpc, tdue, dpc, cancelled, dropped>>

(* cwist_scheduler_cancel_pending detaches the heap under the lock. *)
CancelPending ==
  /\ dpc = "no" /\ heap # {}
  /\ cancelled' = cancelled \cup {e.job : e \in heap}
  /\ heap' = {}
  /\ UNCHANGED <<queueVars, now, live, tpc, tdue, signalled, dpc, due, dropped>>

-----------------------------------------------------------------------------
(* scheduler_timer_thread *)

IsDueEarly == Earliest <= now + 1
IsDue == Earliest <= now

(* One pass of the loop under delayed_mtx. *)
TimerLoop ==
  /\ tpc = "loop"
  /\ IF ~live
     THEN tpc' = "exited" /\ UNCHANGED <<queueVars, heap, tdue, signalled>>
     ELSE IF heap # {} /\ IsDue
     THEN \E e \in heap :
            /\ e.due = Earliest
            /\ heap' = heap \ {e}
            /\ tpc' = "fire"
            /\ pushing' = [pushing EXCEPT ![Timer] = e.job]
            /\ UNCHANGED <<items, got, pending, running, asleep, pc, submitted, accepted,
                           stop, ran, tdue, signalled>>
     ELSE /\ tpc' = "wait" /\ signalled' = FALSE
          /\ tdue' = IF heap = {} THEN 0 ELSE Earliest
          /\ UNCHANGED <<queueVars, heap>>
  /\ UNCHANGED <<now, live, dpc, due, cancelled, dropped>>

(* Signalled, or the timed wait ran out. *)
TimerWake ==
  /\ tpc = "wait"
  /\ signalled \/ (tdue # 0 /\ tdue <= now)
  /\ tpc' = "loop" /\ signalled' = FALSE /\ tdue' = 0
  /\ UNCHANGED <<queueVars, heap, now, live, dpc, due, cancelled, dropped>>

(* The popped job is submitted outside the lock; a refusal is ignored. *)
TimerFire ==
  /\ tpc = "fire" /\ pc[Timer] = "idle"
  /\ tpc' = "loop"
  /\ LET j == pushing[Timer] IN
       \/ SubmitBegin(Timer, j) /\ dropped' = dropped
       \/ ~running /\ dropped' = dropped \cup {j} /\ UNCHANGED queueVars
  /\ UNCHANGED <<heap, now, live, tdue, signalled, dpc, due, cancelled>>

(* The loop goes on when the submission has returned. *)
TimerStep ==
  \/ pc[Timer] = "idle" /\ (TimerLoop \/ TimerWake \/ TimerFire)
  \/ SubmitContinue(Timer)

-----------------------------------------------------------------------------
(* cwist_scheduler_destroy *)

DestroyFlag ==
  /\ dpc = "no" /\ \A t \in Callers : pc[t] = "idle"
  /\ live' = FALSE /\ dpc' = "flagged"
  /\ UNCHANGED <<queueVars, heap, now, tpc, tdue, signalled, due, cancelled, dropped>>

(* The broadcast under delayed_mtx. *)
DestroyWakesNobody == signalled
DestroyWakes == signalled \/ tpc = "wait"
DestroyBroadcast ==
  /\ dpc = "flagged"
  /\ signalled' = DestroyWakes /\ dpc' = "stop"
  /\ UNCHANGED <<queueVars, heap, now, live, tpc, tdue, due, cancelled, dropped>>

DestroyStop ==
  /\ dpc = "stop"
  /\ StopFlag \/ StopBroadcast
  /\ dpc' = IF stop = "flagged" THEN "join" ELSE "stop"
  /\ UNCHANGED <<heap, now, live, tpc, tdue, signalled, due, cancelled, dropped>>

(* The workers are joined, then the timer; then the queue and heap go. *)
JoinedWorkersOnly == WorkersGone
Joined == WorkersGone /\ tpc = "exited"

DestroyFree ==
  /\ dpc = "join" /\ Joined
  /\ dpc' = "freed"
  /\ dropped' = dropped \cup {items[i] : i \in DOMAIN items} \cup {e.job : e \in heap}
  /\ heap' = {}
  /\ UNCHANGED <<queueVars, now, live, tpc, tdue, signalled, due, cancelled>>

DestroyStep == DestroyBroadcast \/ DestroyStop \/ DestroyFree

Work(w) == WorkerStep(w) /\ UNCHANGED timerVars

(* Nobody reads the clock of a scheduler that is gone. *)
Tick ==
  /\ dpc # "freed" /\ now < MaxTime /\ now' = now + 1
  /\ UNCHANGED <<queueVars, heap, live, tpc, tdue, signalled, dpc, due, cancelled, dropped>>

Next ==
  \/ \E t \in Callers :
       \/ \E j \in Jobs \ submitted : Submit(t, j) \/ \E d \in Delays : Schedule(t, j, d)
       \/ SubmitContinue(t)
  \/ CancelPending
  \/ TimerStep
  \/ DestroyFlag \/ DestroyStep
  \/ \E w \in Workers : Work(w)
  \/ Tick

Spec == Init /\ [][Next]_vars

(* Threads keep running, callbacks return, and time passes. *)
Fairness ==
  /\ \A t \in Callers : WF_vars(SubmitContinue(t))
  /\ \A w \in Workers : WF_vars(Work(w))
  /\ WF_vars(TimerStep) /\ WF_vars(DestroyStep) /\ WF_vars(Tick)
FairSpec == Spec /\ Fairness

-----------------------------------------------------------------------------
(* Properties. *)

TypeOK ==
  /\ QueueTypeOK
  /\ heap \subseteq [job : Jobs, due : Nat] /\ now \in 0..MaxTime /\ live \in BOOLEAN
  /\ tpc \in {"loop", "wait", "fire", "exited"} /\ tdue \in Nat /\ signalled \in BOOLEAN
  /\ dpc \in {"no", "flagged", "stop", "join", "freed"}
  /\ due \in [Jobs -> Nat] /\ cancelled \subseteq Jobs /\ dropped \subseteq Jobs

(* The timer never sleeps past a deadline: while it waits and was not        *)
(* signalled, its own deadline is no later than any entry of the heap.       *)
TimerNotOversleeping ==
  (tpc = "wait" /\ ~signalled) => \A e \in heap : tdue # 0 /\ tdue <= e.due

(* A job is in one place of the queue at a time, a delayed job does not run  *)
(* before its delay has passed, and a job has one fate: run, handed to       *)
(* drop_cb by cancel_pending, or discarded.                                  *)
OneFate ==
  /\ JobOnce
  /\ \A j \in ran : due[j] <= now
  /\ ran \cap cancelled = {} /\ ran \cap dropped = {} /\ cancelled \cap dropped = {}

(* Destroying waits for every thread that uses the queue: once it is freed   *)
(* no worker and no submission of the timer is under way, and no job is left *)
(* without a fate.                                                           *)
FreedWhenQuiet ==
  dpc = "freed" =>
    /\ WorkersGone /\ \A t \in Submitters : pc[t] = "idle"
    /\ submitted = ran \cup cancelled \cup dropped

(* A delayed job whose time has come runs unless cancelled or dropped by the *)
(* destruction, and destroying a scheduler always returns.                   *)
DelayedRuns == \A j \in Jobs :
  (due[j] # 0 /\ due[j] <= MaxTime) ~> (j \in ran \cup cancelled \/ dpc # "no")
DestroyReturns == (dpc = "flagged") ~> (dpc = "freed")

(* scheduler.h: "Pending immediate jobs are drained before shutdown."        *)
DrainedBeforeShutdown == dpc = "freed" => \A j \in accepted : due[j] = 0 => j \in ran
=============================================================================
