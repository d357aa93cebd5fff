-------------------------- MODULE SchedulerProofs --------------------------
(***************************************************************************)
(* Proofs about the scheduler for any number of callers, workers, jobs and *)
(* delays.  The queue's own invariant (IoQueueProofs) says where a job is  *)
(* inside the queue; here the places outside it are added (the heap, the   *)
(* timer's hands, cancelled, dropped), with what the clock says of them.   *)
(***************************************************************************)
EXTENDS Scheduler, IoQueueProofs

(* The jobs in the heap, and the one the timer has popped and not yet submitted. *)
Waiting == {e.job : e \in heap}
TimerHas == IF tpc = "fire" THEN {pushing[Timer]} ELSE {}

(* Every submitted job is in one place; only freeing the queue makes jobs that *)
(* are still listed dropped ones.                                              *)
JobsApart ==
  /\ \A e, f \in heap : e.job = f.job => e = f
  /\ Waiting \cap (TimerHas \cup Placed \cup cancelled \cup dropped) = {}
  /\ TimerHas \cap (Placed \cup cancelled \cup dropped) = {}
  /\ cancelled \cap (Placed \cup dropped) = {}
  /\ ran \cap dropped = {}
  /\ dpc # "freed" => Placed \cap dropped = {}
  /\ submitted = Waiting \cup TimerHas \cup Placed \cup cancelled \cup dropped

(* The heap has the deadline of its jobs; what left it was due. *)
DueTimes ==
  /\ \A e \in heap : due[e.job] = e.due /\ e.due # 0
  /\ \A j \in Placed \cup TimerHas : due[j] <= now
  /\ \A j \in Jobs \ submitted : due[j] = 0

(* What the timer and the destroying thread have done by each of their steps. *)
Phases ==
  /\ tpc # "loop" => pc[Timer] = "idle"
  /\ tpc = "fire" => pushing[Timer] \in Jobs
  /\ dpc # "no" => \A t \in Callers : pc[t] = "idle"
  /\ dpc = "freed" => tpc = "exited" /\ WorkersGone /\ heap = {} /\ Listed \subseteq dropped

SchedInv ==
  /\ TypeOK /\ QueueInv /\ JobsApart /\ DueTimes /\ Phases /\ TimerNotOversleeping

-----------------------------------------------------------------------------
(* A nonempty set of deadlines has a least one. *)
LEMMA MinExists ==
  ASSUME NEW D \in SUBSET Nat, D # {}
  PROVE  Min(D) \in D /\ \A d \in D : Min(D) <= d
<1> DEFINE R == OpToRel(<, Nat)
<1>1. IsWellFoundedOn(R, Nat)
  BY NatLessThanWellFounded
<1>2. \A x, y \in Nat : y < x => <<y, x>> \in R
  BY DEF OpToRel
<1> HIDE DEF R
<1>3. \E x \in D : \A y \in D : ~ (<<y, x>> \in R)
  BY <1>1, WFMin
<1>4. \E x \in D : \A y \in D : x <= y
  <2>1. PICK x \in D : \A y \in D : ~ (<<y, x>> \in R)
    BY <1>3
  <2>2. \A y \in D : ~ (y < x)
    BY <1>2, <2>1
  <2> QED
    BY <2>2
<1> QED
  BY <1>4 DEF Min

(* The timer and the callers are the submitters. *)
LEMMA Roles == Timer \in Submitters /\ Callers \subseteq Submitters /\ Timer \notin Callers
               /\ \A t \in Submitters : t \in Callers \/ t = Timer
  BY SchedulerConstants DEF Callers

(* A job that was run is placed. *)
LEMMA RanPlaced == ran \subseteq Placed /\ Listed \subseteq Placed
  BY DEF Placed

(* A step inside the queue that moves no job in or out of it. *)
LEMMA QueueMoves ==
  ASSUME SchedInv, UNCHANGED timerVars, QueueInv', Placed' = Placed, submitted' = submitted,
         dpc # "freed",
         tpc # "loop" => pushing'[Timer] = pushing[Timer] /\ pc'[Timer] = pc[Timer],
         dpc # "no" => \A t \in Callers : pc'[t] = pc[t]
  PROVE  SchedInv'
<1> USE DEF SchedInv
<1>1. UNCHANGED <<heap, now, live, tpc, tdue, signalled, dpc, due, cancelled, dropped>>
  BY DEF timerVars
<1>2. TypeOK'
  BY <1>1 DEF TypeOK, QueueInv
<1>3. Waiting' = Waiting /\ TimerHas' = TimerHas
  BY <1>1 DEF Waiting, TimerHas
<1>4. ran' \subseteq Placed
  BY DEF Placed
<1>5. JobsApart'
  BY <1>1, <1>3, <1>4 DEF JobsApart
<1>6. DueTimes'
  BY <1>1, <1>3 DEF DueTimes
<1>7. Phases'
  BY <1>1 DEF Phases
<1>8. TimerNotOversleeping'
  BY <1>1 DEF TimerNotOversleeping
<1> QED
  BY <1>2, <1>5, <1>6, <1>7, <1>8

(* A step of a submission under way, of a caller or of the timer. *)
LEMMA ContinueKeeps ==
  ASSUME SchedInv, NEW t \in Submitters, SubmitContinue(t)
  PROVE  SchedInv'
<1> USE DEF SchedInv
<1>1. SubmitStep(t) /\ UNCHANGED timerVars
  BY DEF SubmitContinue
<1>2. QueueInv' /\ Placed' = Placed
  BY <1>1, SubmitKeeps
<1>3. /\ pc[t] # "idle" /\ submitted' = submitted
      /\ \A u \in Submitters : u # t => pc'[u] = pc[u] /\ pushing'[u] = pushing[u]
  BY <1>1 DEF SubmitStep, SubmitLink, SubmitCount, SubmitSignal, Returns, Goto, Fifo!Push,
              QueueInv, QueueTypeOK
<1>4. dpc # "freed"
  BY <1>3, Roles DEF Phases
<1>5. tpc # "loop" => t # Timer
  BY <1>3 DEF Phases
<1>6. dpc # "no" => t \notin Callers
  BY <1>3 DEF Phases
<1> QED
  BY <1>1, <1>2, <1>3, <1>4, <1>5, <1>6, Roles, QueueMoves

(* A step of a worker. *)
LEMMA WorkKeeps ==
  ASSUME SchedInv, NEW w \in Workers, Work(w)
  PROVE  SchedInv'
<1> USE DEF SchedInv
<1>1. WorkerStep(w) /\ UNCHANGED timerVars
  BY DEF Work
<1>2. QueueInv' /\ Placed' = Placed
  BY <1>1, WorkerKeeps
<1>3. /\ pc[w] # "exited" /\ submitted' = submitted /\ pushing' = pushing
      /\ \E x : Goto(w, x)
  BY <1>1 DEF WorkerStep, WorkerCheck, WorkerPop, WorkerUncount, WorkerRun, WorkerWait
<1>4. \A u \in Submitters : pc'[u] = pc[u]
  BY <1>3, Apart DEF Goto, QueueInv, QueueTypeOK
<1>5. dpc # "freed"
  BY <1>3 DEF Phases, WorkersGone
<1> QED
  BY <1>1, <1>2, <1>3, <1>4, <1>5, Roles, QueueMoves

(* cwist_scheduler_submit. *)
LEMMA SubmitKeepsAll ==
  ASSUME SchedInv, NEW t \in Callers, NEW j \in Jobs \ submitted, Submit(t, j)
  PROVE  SchedInv'
<1> USE DEF SchedInv
<1>1. dpc = "no" /\ SubmitBegin(t, j) /\ UNCHANGED timerVars
  BY DEF Submit
<1>2. UNCHANGED <<heap, now, live, tpc, tdue, signalled, dpc, due, cancelled, dropped>>
  BY <1>1 DEF timerVars
<1>3. j \in Jobs \ Placed
  BY DEF JobsApart
<1>4. QueueInv' /\ Placed' = Placed \cup {j}
  BY <1>1, <1>3, Roles, BeginKeeps
<1>5. /\ submitted' = submitted \cup {j} /\ ran' = ran
      /\ pushing'[Timer] = pushing[Timer] /\ pc'[Timer] = pc[Timer]
  BY <1>1, Roles DEF SubmitBegin, Goto, QueueInv, QueueTypeOK
<1>6. TypeOK'
  BY <1>2, <1>4 DEF TypeOK, QueueInv
<1>7. Waiting' = Waiting /\ TimerHas' = TimerHas
  BY <1>2, <1>5 DEF Waiting, TimerHas
<1>8. JobsApart'
  BY <1>1, <1>2, <1>4, <1>5, <1>7 DEF JobsApart
<1>9. DueTimes'
  <2>1. due[j] = 0 /\ now >= 0
    BY DEF DueTimes, TypeOK
  <2> QED
    BY <1>2, <1>4, <1>5, <1>7, <2>1 DEF DueTimes
<1>10. Phases' /\ TimerNotOversleeping'
  BY <1>1, <1>2, <1>5 DEF Phases, TimerNotOversleeping
<1> QED
  BY <1>4, <1>6, <1>8, <1>9, <1>10

(* cwist_scheduler_schedule. *)
LEMMA ScheduleKeeps ==
  ASSUME SchedInv, NEW t \in Callers, NEW j \in Jobs \ submitted, NEW d \in Delays,
         Schedule(t, j, d)
  PROVE  SchedInv'
<1> USE DEF SchedInv
<1> DEFINE e0 == [job |-> j, due |-> now + d]
<1>1. /\ dpc = "no" /\ heap' = heap \cup {e0} /\ signalled' = WakesTimer
      /\ submitted' = submitted \cup {j} /\ due' = [due EXCEPT ![j] = now + d]
      /\ UNCHANGED <<items, got, pending, running, asleep, pc, pushing, accepted, stop, ran>>
      /\ UNCHANGED <<now, live, tpc, tdue, dpc, cancelled, dropped>>
  BY DEF Schedule
<1>2. now \in Nat /\ d \in Nat /\ d # 0 /\ now + d \in Nat /\ now + d # 0
  BY SchedulerConstants DEF TypeOK
<1>3. QueueInv' /\ Placed' = Placed
  BY <1>1, BesideKeeps DEF QueueInv, QueueTypeOK
<1>4. TypeOK'
  <2>1. signalled' \in BOOLEAN
    BY <1>1 DEF WakesTimer, TypeOK
  <2>2. e0 \in [job : Jobs, due : Nat]
    BY <1>2
  <2>3. due' \in [Jobs -> Nat]
    BY <1>1, <1>2 DEF TypeOK
  <2> QED
    BY <1>1, <1>3, <2>1, <2>2, <2>3 DEF TypeOK, QueueInv
<1>5. Waiting' = Waiting \cup {j} /\ TimerHas' = TimerHas
  <2>1. e0.job = j
    OBVIOUS
  <2> HIDE DEF e0
  <2>2. Waiting' = Waiting \cup {j}
    BY <1>1, <2>1 DEF Waiting
  <2> QED
    BY <1>1, <2>2 DEF TimerHas
<1>6. \A e \in heap : e.job # j
  BY DEF JobsApart, Waiting
<1>7. \A k \in Jobs : due'[k] = IF k = j THEN now + d ELSE due[k]
  BY <1>1 DEF TypeOK
<1>8. JobsApart'
  <2>1. \A e, f \in heap' : e.job = f.job => e = f
    BY <1>1, <1>6 DEF JobsApart
  <2> QED
    BY <1>1, <1>3, <1>5, <2>1 DEF JobsApart
<1>9. DueTimes'
  <2>1. \A e \in heap' : due'[e.job] = e.due /\ e.due # 0
    BY <1>1, <1>2, <1>6, <1>7 DEF DueTimes, TypeOK
  <2>2. \A k \in Placed \cup TimerHas : k # j /\ k \in Jobs
    BY DEF JobsApart, TypeOK, QueueTypeOK
  <2> QED
    BY <1>1, <1>3, <1>5, <1>7, <2>1, <2>2 DEF DueTimes
<1>10. Phases'
  BY <1>1 DEF Phases
<1>11. TimerNotOversleeping'
  BY <1>1 DEF TimerNotOversleeping, WakesTimer
<1> QED
  BY <1>3, <1>4, <1>8, <1>9, <1>10, <1>11

(* A step of the scheduler beside the queue. *)
LEMMA QueueStill ==
  ASSUME QueueInv, UNCHANGED queueVars
  PROVE  /\ QueueInv' /\ Placed' = Placed /\ Listed' = Listed
         /\ UNCHANGED <<pc, pushing, submitted, ran, items>> /\ WorkersGone' = WorkersGone
<1>1. UNCHANGED <<items, got, pending, running, asleep, pc, pushing, submitted, accepted, stop, ran>>
  BY DEF queueVars
<1>2. QueueInv' /\ Placed' = Placed
  BY <1>1, BesideKeeps DEF QueueInv, QueueTypeOK
<1> QED
  BY <1>1, <1>2 DEF Listed, WorkersGone

(* cwist_scheduler_cancel_pending. *)
LEMMA CancelKeeps ==
  ASSUME SchedInv, CancelPending
  PROVE  SchedInv'
<1> USE DEF SchedInv
<1>1. /\ dpc = "no" /\ cancelled' = cancelled \cup Waiting /\ heap' = {}
      /\ UNCHANGED <<now, live, tpc, tdue, signalled, dpc, due, dropped>>
  BY DEF CancelPending, Waiting
<1>2. /\ QueueInv' /\ Placed' = Placed
      /\ UNCHANGED <<pc, pushing, submitted, ran>>
  BY QueueStill DEF CancelPending
<1>3. Waiting' = {} /\ TimerHas' = TimerHas
  BY <1>1, <1>2 DEF Waiting, TimerHas
<1>4. Waiting \subseteq Jobs
  BY DEF Waiting, TypeOK
<1>5. TypeOK'
  BY <1>1, <1>2, <1>4 DEF TypeOK, QueueInv
<1>6. JobsApart'
  BY <1>1, <1>2, <1>3 DEF JobsApart
<1>7. DueTimes'
  BY <1>1, <1>2, <1>3 DEF DueTimes
<1>8. Phases' /\ TimerNotOversleeping'
  BY <1>1, <1>2 DEF Phases, TimerNotOversleeping
<1> QED
  BY <1>2, <1>5, <1>6, <1>7, <1>8

(* The timer leaves its loop, wakes or begins to wait, the destroying thread moves on or *)
(* the clock ticks: no job changes its place.                                            *)
LEMMA ClockworkKeeps ==
  ASSUME SchedInv, UNCHANGED queueVars, UNCHANGED <<heap, due, cancelled, dropped>>,
         TypeOK', Phases', TimerNotOversleeping',
         now <= now', dpc # "freed", dpc' # "freed", (tpc # "fire" /\ tpc' # "fire") \/ tpc' = tpc
  PROVE  SchedInv'
<1> USE DEF SchedInv
<1>1. /\ QueueInv' /\ Placed' = Placed
      /\ UNCHANGED <<pc, pushing, submitted, ran>>
  BY QueueStill
<1>2. Waiting' = Waiting /\ TimerHas' = TimerHas
  BY <1>1 DEF Waiting, TimerHas
<1>3. JobsApart'
  BY <1>1, <1>2 DEF JobsApart
<1>4. DueTimes'
  <2>1. \A j \in Placed \cup TimerHas : j \in Jobs
    BY DEF JobsApart, TypeOK, QueueTypeOK
  <2>2. \A j \in Placed \cup TimerHas : due[j] <= now'
    BY <2>1 DEF DueTimes, TypeOK
  <2> QED
    BY <1>1, <1>2, <2>2 DEF DueTimes
<1> QED
  BY <1>1, <1>3, <1>4

(* One pass of the loop of scheduler_timer_thread. *)
LEMMA LoopKeeps ==
  ASSUME SchedInv, pc[Timer] = "idle", TimerLoop
  PROVE  SchedInv'
<1> USE DEF SchedInv
<1>1. tpc = "loop" /\ UNCHANGED <<now, live, dpc, due, cancelled, dropped>>
  BY DEF TimerLoop
<1>2. dpc # "freed" /\ now \in Nat
  BY <1>1 DEF Phases, TypeOK
<1>3. CASE ~live
  <2>1. tpc' = "exited" /\ UNCHANGED <<queueVars, heap, tdue, signalled>>
    BY <1>3 DEF TimerLoop
  <2>2. QueueInv' /\ UNCHANGED <<pc, pushing>>
    BY <2>1, QueueStill
  <2>3. TypeOK' /\ Phases' /\ TimerNotOversleeping'
    BY <1>1, <1>2, <2>1, <2>2 DEF TypeOK, Phases, TimerNotOversleeping, QueueInv
  <2> QED
    BY <1>1, <1>2, <2>1, <2>3, ClockworkKeeps
<1>4. CASE live /\ heap # {} /\ IsDue
  <2>1. PICK e \in heap :
          /\ e.due = Earliest /\ heap' = heap \ {e} /\ tpc' = "fire"
          /\ pushing' = [pushing EXCEPT ![Timer] = e.job]
          /\ UNCHANGED <<items, got, pending, running, asleep, pc, submitted, accepted,
                         stop, ran, tdue, signalled>>
    BY <1>4 DEF TimerLoop
  <2> DEFINE j == e.job
  <2>2. e \in [job : Jobs, due : Nat] /\ j \in Jobs /\ due[j] = e.due /\ e.due <= now
    BY <1>4, <2>1 DEF TypeOK, DueTimes, IsDue
  <2>3. /\ pushing' \in [Submitters -> Jobs \cup {Nothing}] /\ pushing'[Timer] = j
        /\ \A t \in Submitters : pc[t] # "idle" => pushing'[t] = pushing[t]
    BY <2>1, <2>2, Roles DEF QueueInv, QueueTypeOK
  <2>4. QueueInv' /\ Placed' = Placed
    BY <2>1, <2>3, BesideKeeps DEF QueueInv, QueueTypeOK
  <2>5. TypeOK'
    BY <1>1, <2>1, <2>4 DEF TypeOK, QueueInv
  <2>6. j \in Waiting /\ Waiting' = Waiting \ {j} /\ TimerHas' = {j} /\ TimerHas = {}
    BY <1>1, <2>1, <2>3 DEF Waiting, TimerHas, JobsApart
  <2>7. JobsApart'
    <3>1. \A f, g \in heap' : f.job = g.job => f = g
      BY <2>1 DEF JobsApart
    <3> QED
      BY <1>1, <2>1, <2>4, <2>6, <3>1 DEF JobsApart
  <2>8. DueTimes'
    BY <1>1, <2>1, <2>2, <2>4, <2>6 DEF DueTimes
  <2>9. Phases' /\ TimerNotOversleeping'
    BY <1>1, <1>2, <2>1, <2>2, <2>3 DEF Phases, TimerNotOversleeping
  <2> QED
    BY <2>4, <2>5, <2>7, <2>8, <2>9
<1>5. CASE live /\ ~(heap # {} /\ IsDue)
  <2>1. /\ tpc' = "wait" /\ signalled' = FALSE
        /\ tdue' = IF heap = {} THEN 0 ELSE Earliest
        /\ UNCHANGED <<queueVars, heap>>
    BY <1>5 DEF TimerLoop
  <2> DEFINE D == {e.due : e \in heap}
  <2>2. D \in SUBSET Nat /\ (heap # {} => D # {})
    BY DEF TypeOK
  <2>3. heap # {} => Earliest \in D /\ \A d \in D : Earliest <= d
    BY <2>2, MinExists DEF Earliest
  <2>4. heap # {} => Earliest \in Nat /\ Earliest # 0 /\ \A e \in heap : Earliest <= e.due
    BY <2>2, <2>3 DEF DueTimes
  <2>5. QueueInv' /\ UNCHANGED <<pc, pushing>>
    BY <2>1, QueueStill
  <2>6. TypeOK'
    BY <1>1, <2>1, <2>4, <2>5 DEF TypeOK, QueueInv
  <2>7. Phases'
    BY <1>1, <1>2, <2>1, <2>5 DEF Phases
  <2>8. TimerNotOversleeping'
    BY <2>1, <2>4 DEF TimerNotOversleeping
  <2> QED
    BY <1>1, <1>2, <2>1, <2>6, <2>7, <2>8, ClockworkKeeps
<1> QED
  BY <1>3, <1>4, <1>5 DEF TypeOK

(* The end of a wait on delayed_cond. *)
LEMMA WakeKeeps ==
  ASSUME SchedInv, TimerWake
  PROVE  SchedInv'
<1> USE DEF SchedInv
<1>1. /\ tpc = "wait" /\ tpc' = "loop" /\ signalled' = FALSE /\ tdue' = 0
      /\ UNCHANGED <<queueVars, heap, now, live, dpc, due, cancelled, dropped>>
  BY DEF TimerWake
<1>2. dpc # "freed" /\ now \in Nat
  BY <1>1 DEF Phases, TypeOK
<1>3. QueueInv' /\ UNCHANGED <<pc, pushing>>
  BY <1>1, QueueStill
<1>4. TypeOK' /\ Phases' /\ TimerNotOversleeping'
  BY <1>1, <1>2, <1>3 DEF TypeOK, Phases, TimerNotOversleeping, QueueInv
<1> QED
  BY <1>1, <1>2, <1>4, ClockworkKeeps

(* The timer submits the job it popped, or finds the queue stopped. *)
LEMMA FireKeeps ==
  ASSUME SchedInv, TimerFire
  PROVE  SchedInv'
<1> USE DEF SchedInv
<1> DEFINE j == pushing[Timer]
<1>1. /\ tpc = "fire" /\ pc[Timer] = "idle" /\ tpc' = "loop"
      /\ UNCHANGED <<heap, now, live, tdue, signalled, dpc, due, cancelled>>
  BY DEF TimerFire
<1>2. dpc # "freed" /\ now \in Nat /\ j \in Jobs /\ TimerHas = {j}
  BY <1>1 DEF Phases, TypeOK, TimerHas
<1>3. j \notin Placed /\ j \notin Waiting /\ j \notin cancelled /\ j \notin dropped /\ j \in submitted
  BY <1>2 DEF JobsApart
<1>4. Waiting' = Waiting /\ TimerHas' = {}
  BY <1>1 DEF Waiting, TimerHas
<1>5. CASE SubmitBegin(Timer, j) /\ dropped' = dropped
  <2>1. QueueInv' /\ Placed' = Placed \cup {j}
    BY <1>2, <1>3, <1>5, Roles, BeginKeeps
  <2>2. /\ submitted' = submitted /\ ran' = ran
        /\ \A t \in Callers : pc'[t] = pc[t]
    BY <1>3, <1>5, Roles DEF SubmitBegin, Goto, QueueInv, QueueTypeOK
  <2>3. TypeOK'
    BY <1>1, <1>5, <2>1 DEF TypeOK, QueueInv
  <2>4. JobsApart'
    BY <1>1, <1>2, <1>3, <1>4, <1>5, <2>1, <2>2 DEF JobsApart
  <2>5. DueTimes'
    BY <1>1, <1>2, <1>4, <2>1, <2>2 DEF DueTimes
  <2>6. Phases' /\ TimerNotOversleeping'
    BY <1>1, <1>2, <2>2 DEF Phases, TimerNotOversleeping
  <2> QED
    BY <2>1, <2>3, <2>4, <2>5, <2>6
<1>6. CASE ~running /\ dropped' = dropped \cup {j} /\ UNCHANGED queueVars
  <2>1. /\ QueueInv' /\ Placed' = Placed
        /\ UNCHANGED <<pc, pushing, submitted, ran>>
    BY <1>6, QueueStill
  <2>2. TypeOK'
    BY <1>1, <1>2, <1>6, <2>1 DEF TypeOK, QueueInv
  <2>3. j \notin ran
    BY <1>3, RanPlaced
  <2>4. JobsApart'
    BY <1>1, <1>2, <1>3, <1>4, <1>6, <2>1, <2>3 DEF JobsApart
  <2>5. DueTimes'
    BY <1>1, <1>2, <1>4, <2>1 DEF DueTimes
  <2>6. Phases' /\ TimerNotOversleeping'
    BY <1>1, <1>2, <2>1 DEF Phases, TimerNotOversleeping
  <2> QED
    BY <2>1, <2>2, <2>4, <2>5, <2>6
<1> QED
  BY <1>5, <1>6 DEF TimerFire

-----------------------------------------------------------------------------
(* The first two steps of cwist_scheduler_destroy, and the clock. *)
LEMMA FlagKeeps ==
  ASSUME SchedInv, DestroyFlag \/ DestroyBroadcast \/ Tick
  PROVE  SchedInv'
<1> USE DEF SchedInv
<1>1. /\ UNCHANGED <<queueVars, heap, tpc, tdue, due, cancelled, dropped>>
      /\ dpc # "freed" /\ dpc' # "freed"
      /\ signalled' = signalled \/ signalled' = DestroyWakes
      /\ now' = now \/ (now < MaxTime /\ now' = now + 1)
      /\ live' \in BOOLEAN /\ dpc' \in {"no", "flagged", "stop", "join", "freed"}
      /\ dpc' # "no" => dpc # "no" \/ \A t \in Callers : pc[t] = "idle"
  BY DEF DestroyFlag, DestroyBroadcast, Tick, TypeOK
<1>2. QueueInv' /\ UNCHANGED <<pc, pushing>>
  BY <1>1, QueueStill
<1>3. now <= now' /\ now' \in 0..MaxTime
  BY <1>1, SchedulerConstants DEF TypeOK
<1>4. signalled' \in BOOLEAN /\ (signalled => signalled')
  <2>1. CASE signalled' = signalled
    BY <2>1 DEF TypeOK
  <2>2. CASE signalled' = DestroyWakes
    BY <2>2 DEF DestroyWakes
  <2> QED
    BY <1>1, <2>1, <2>2
<1>5. TypeOK'
  BY <1>1, <1>2, <1>3, <1>4 DEF TypeOK, QueueInv
<1>6. Phases'
  BY <1>1, <1>2 DEF Phases
<1>7. TimerNotOversleeping'
  BY <1>1, <1>4 DEF TimerNotOversleeping
<1> QED
  BY <1>1, <1>3, <1>5, <1>6, <1>7, ClockworkKeeps

(* cwist_io_queue_stop within the destruction. *)
LEMMA StopKeepsAll ==
  ASSUME SchedInv, DestroyStop
  PROVE  SchedInv'
<1> USE DEF SchedInv
<1>1. /\ dpc = "stop" /\ dpc' \in {"stop", "join"} /\ (StopFlag \/ StopBroadcast)
      /\ UNCHANGED <<heap, now, live, tpc, tdue, signalled, due, cancelled, dropped>>
  BY DEF DestroyStop
<1>2. QueueInv' /\ Placed' = Placed
  BY <1>1, StopKeeps
<1>3. UNCHANGED <<pc, pushing, submitted, ran>>
  BY <1>1 DEF StopFlag, StopBroadcast
<1>4. TypeOK'
  BY <1>1, <1>2 DEF TypeOK, QueueInv
<1>5. Waiting' = Waiting /\ TimerHas' = TimerHas
  BY <1>1, <1>3 DEF Waiting, TimerHas
<1>6. JobsApart'
  BY <1>1, <1>2, <1>3, <1>5 DEF JobsApart
<1>7. DueTimes'
  BY <1>1, <1>2, <1>3, <1>5 DEF DueTimes
<1>8. Phases' /\ TimerNotOversleeping'
  BY <1>1, <1>3 DEF Phases, TimerNotOversleeping
<1> QED
  BY <1>2, <1>4, <1>6, <1>7, <1>8

(* The queue and the heap are freed with the jobs they still hold. *)
LEMMA FreeKeeps ==
  ASSUME SchedInv, DestroyFree
  PROVE  SchedInv'
<1> USE DEF SchedInv
<1>1. /\ dpc = "join" /\ WorkersGone /\ tpc = "exited" /\ dpc' = "freed" /\ heap' = {}
      /\ dropped' = dropped \cup Listed \cup Waiting
      /\ UNCHANGED <<queueVars, now, live, tpc, tdue, signalled, due, cancelled>>
  BY DEF DestroyFree, Joined, Listed, Waiting
<1>2. /\ QueueInv' /\ Placed' = Placed /\ Listed' = Listed /\ WorkersGone' = WorkersGone
      /\ UNCHANGED <<pc, pushing, submitted, ran>>
  BY <1>1, QueueStill
<1>3. Waiting' = {} /\ TimerHas' = {} /\ TimerHas = {}
  BY <1>1 DEF Waiting, TimerHas
<1>4. Listed \subseteq Placed /\ ran \subseteq Placed /\ Listed \cap ran = {}
  BY RanPlaced DEF QueueInv, OnePlace
<1>5. Listed \subseteq Jobs /\ Waiting \subseteq Jobs
  BY <1>4 DEF JobsApart, TypeOK, QueueTypeOK
<1>6. TypeOK'
  BY <1>1, <1>2, <1>5 DEF TypeOK, QueueInv
<1>7. JobsApart'
  BY <1>1, <1>2, <1>3, <1>4 DEF JobsApart
<1>8. DueTimes'
  BY <1>1, <1>2, <1>3 DEF DueTimes
<1>9. Phases' /\ TimerNotOversleeping'
  BY <1>1, <1>2 DEF Phases, TimerNotOversleeping
<1> QED
  BY <1>2, <1>6, <1>7, <1>8, <1>9

(* Nothing happens. *)
LEMMA StutterKeeps ==
  ASSUME SchedInv, UNCHANGED vars
  PROVE  SchedInv'
<1> USE DEF SchedInv
<1>1. /\ UNCHANGED queueVars
      /\ UNCHANGED <<heap, now, live, tpc, tdue, signalled, dpc, due, cancelled, dropped>>
  BY DEF vars, timerVars
<1>2. /\ QueueInv' /\ Placed' = Placed /\ Listed' = Listed /\ WorkersGone' = WorkersGone
      /\ UNCHANGED <<pc, pushing, submitted, ran>>
  BY <1>1, QueueStill
<1>3. Waiting' = Waiting /\ TimerHas' = TimerHas
  BY <1>1, <1>2 DEF Waiting, TimerHas
<1>4. TypeOK' /\ JobsApart'
  BY <1>1, <1>2, <1>3 DEF TypeOK, QueueInv, JobsApart
<1>5. DueTimes' /\ Phases' /\ TimerNotOversleeping'
  BY <1>1, <1>2, <1>3 DEF DueTimes, Phases, TimerNotOversleeping
<1> QED
  BY <1>2, <1>4, <1>5

(* cwist_scheduler_create. *)
LEMMA SchedStart ==
  ASSUME Init
  PROVE  SchedInv
<1> USE DEF Init
<1>1. QueueInv /\ Placed = {} /\ submitted = {} /\ ran = {}
  BY QueueStart DEF QueueInit
<1>2. Waiting = {} /\ TimerHas = {}
  BY DEF Waiting, TimerHas
<1>3. TypeOK
  <2>1. now \in 0..MaxTime /\ tdue \in Nat /\ due \in [Jobs -> Nat]
    BY SchedulerConstants
  <2>2. live \in BOOLEAN /\ signalled \in BOOLEAN
    OBVIOUS
  <2> QED
    BY <1>1, <2>1, <2>2 DEF TypeOK, QueueInv
<1>4. JobsApart /\ DueTimes
  BY <1>1, <1>2 DEF JobsApart, DueTimes
<1>5. Phases /\ TimerNotOversleeping
  BY DEF Phases, TimerNotOversleeping
<1> QED
  BY <1>1, <1>3, <1>4, <1>5 DEF SchedInv

(* Every step of the scheduler. *)
LEMMA SchedStep ==
  ASSUME SchedInv, [Next]_vars
  PROVE  SchedInv'
<1>1. ASSUME NEW t \in Callers, NEW j \in Jobs \ submitted,
             Submit(t, j) \/ \E d \in Delays : Schedule(t, j, d)
      PROVE  SchedInv'
  BY <1>1, SubmitKeepsAll, ScheduleKeeps
<1>2. ASSUME NEW t \in Submitters, SubmitContinue(t)
      PROVE  SchedInv'
  BY <1>2, ContinueKeeps
<1>3. CASE CancelPending
  BY <1>3, CancelKeeps
<1>4. CASE TimerStep
  BY <1>2, <1>4, Roles, LoopKeeps, WakeKeeps, FireKeeps DEF TimerStep
<1>5. CASE DestroyFlag \/ DestroyStep \/ Tick
  BY <1>5, FlagKeeps, StopKeepsAll, FreeKeeps DEF DestroyStep
<1>6. ASSUME NEW w \in Workers, Work(w)
      PROVE  SchedInv'
  BY <1>6, WorkKeeps
<1>7. CASE UNCHANGED vars
  BY <1>7, StutterKeeps
<1> QED
  BY <1>1, <1>2, <1>3, <1>4, <1>5, <1>6, <1>7, Roles DEF Next

(* What the invariant says of the fate of jobs. *)
LEMMA Fates ==
  ASSUME SchedInv
  PROVE  OneFate /\ FreedWhenQuiet
<1> USE DEF SchedInv
<1>1. OneFate
  BY RanPlaced DEF OneFate, QueueInv, JobsApart, DueTimes
<1>2. ASSUME dpc = "freed"
      PROVE  /\ WorkersGone /\ \A t \in Submitters : pc[t] = "idle"
             /\ submitted = ran \cup cancelled \cup dropped
  <2>1. WorkersGone /\ \A t \in Submitters : pc[t] = "idle"
    BY <1>2, Roles DEF Phases
  <2>2. Linking = {} /\ InHand = {}
    BY <2>1 DEF Linking, InHand, WorkersGone
  <2>3. Placed = Listed \cup ran
    BY <2>2 DEF Placed, Pushed, InHands
  <2>4. Waiting = {} /\ TimerHas = {} /\ Listed \subseteq dropped
    BY <1>2 DEF Phases, Waiting, TimerHas
  <2> QED
    BY <2>1, <2>3, <2>4 DEF JobsApart
<1> QED
  BY <1>1, <1>2 DEF FreedWhenQuiet

-----------------------------------------------------------------------------
(* The invariant holds throughout. *)
THEOREM SchedInvariant == Spec => []SchedInv
  BY SchedStart, SchedStep, PTL DEF Spec

(* In the scheduler, as in the queue alone, the count follows the list and no  *)
(* worker misses a wake-up.                                                    *)
THEOREM SchedulerWakes == Spec => [](PendingExact /\ NoLostWakeup)
<1>1. SchedInv => PendingExact /\ NoLostWakeup
  BY NoWakeupLost DEF SchedInv, QueueInv
<1> QED
  BY <1>1, SchedInvariant, PTL

(* The timer never sleeps past the deadline of a job in the heap, whatever is  *)
(* scheduled or cancelled while it waits.                                      *)
THEOREM TimerInTime == Spec => []TimerNotOversleeping
<1>1. SchedInv => TimerNotOversleeping
  BY DEF SchedInv
<1> QED
  BY <1>1, SchedInvariant, PTL

(* A job is in one place and has one fate, and a delayed job does not run      *)
(* before its delay has passed.                                                *)
THEOREM JobsHaveOneFate == Spec => []OneFate
<1>1. SchedInv => OneFate
  BY Fates
<1> QED
  BY <1>1, SchedInvariant, PTL

(* cwist_scheduler_destroy frees the queue and the heap when no thread is in   *)
(* them, and leaves no submitted job without a fate.                           *)
THEOREM DestroyLeavesNothing == Spec => []FreedWhenQuiet
<1>1. SchedInv => FreedWhenQuiet
  BY Fates
<1> QED
  BY <1>1, SchedInvariant, PTL
=============================================================================
