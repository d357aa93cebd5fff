--------------------------- MODULE AsyncResponse ---------------------------
(* Deferred responses (net/http/async.c, async_tls.c): one exchange whose    *)
(* handler called cwist_async_defer, the producers that race to answer it,   *)
(* the dispatch thread that acknowledges the hand-off, and, per server mode, *)
(* who settles the connection: the worker reactor the connection is parked   *)
(* on (C1M), the completing thread (classic pool and TLS), or the HTTP/2     *)
(* connection thread behind its completion queue.  In the C1M mode the       *)
(* reactors can be torn down under the exchange (cwist_http_pool_destroy),   *)
(* with the generation/posters protocol of http.c between the two sides.     *)
(*                                                                           *)
(* Exchanges meet only in that protocol's two counters, so one exchange is   *)
(* modelled.  A critical section of a->mu is one step: it never blocks.      *)
EXTENDS Integers, FiniteSets

CONSTANTS
  Producers,    \* foreign threads holding the handle, the timer job included
  Timer,        \* the timeout job of cwist_async_set_timeout; may be absent
  Retained,     \* producers the handler took a cwist_async_retain for
  Disp,         \* the dispatch thread; in C1M mode the reactor's run thread
  Destroyer,    \* the thread in cwist_http_pool_destroy
  Modes,        \* server modes the run explores
  MayBreak      \* the flush of earlier coalesced responses may fail

VARIABLES
  mode,      \* which completion path the connection uses
  pc, back,  \* phase of each thread; phase it resumes after a completion
  alive, refs, claimed, ack, finish, keep, orphaned, agen,  \* struct cwist_async
  final,     \* the verdict that the claim's winner is about to publish
  graph,     \* the request/response pair is still allocated
  conn,      \* "owned" by the exchange, "parked" on a writer, or settled
  settles,   \* times the connection was handed on: re-armed, closed, parked
  posted,    \* a->post is on the reactor's post stack
  reactor, running, stopping, gen, posters,  \* http.c and shutdown.c globals
  queue,     \* HTTP/2 completion queue [refs, closed, node]
  broken,    \* the dispatch thread saw its flush fail
  overtaken, \* the generation was retired before dispatch returned from the handler
  stale      \* objects some step touched after they were freed

handleVars == <<alive, refs, claimed, ack, finish, keep, orphaned, agen, final>>
serverVars == <<reactor, running, stopping, gen, posters>>
vars == <<mode, pc, back, handleVars, graph, conn, settles, posted, serverVars,
          queue, broken, overtaken, stale>>

Everyone == Producers \cup {Disp, Destroyer}
DispPhases == {"handler", "unwinding", "abort", "park", "loop", "exited"}
DestroyPhases == {"idle", "stop", "bump", "drain", "join", "freeing", "done"}
CompletionPhases == {"publish", "deliver", "check", "push", "pushed", "miss",
                     "complete", "free", "drop"}
Phases == DispPhases \cup DestroyPhases \cup CompletionPhases
          \cup {"unborn", "ready", "release"}

(* What a step may dereference. *)
Live(x) == CASE x = "handle"  -> alive
             [] x = "graph"   -> graph
             [] x = "conn"    -> conn # "closed"
             [] x = "reactor" -> reactor # "freed"
             [] x = "queue"   -> queue.refs > 0
Touch(objects) == stale' = stale \cup {x \in objects : ~Live(x)}

Goto(t, phase) == pc' = [pc EXCEPT ![t] = phase]

(* The phase a producer goes to when its call is over: a retained reference *)
(* is released.                                                              *)
AfterCallForgets(p) == IF p \in Retained \ {Timer} THEN "release" ELSE "done"
AfterCall(p) == IF p \in Retained \cup {Timer} THEN "release" ELSE "done"

Init ==
  /\ mode \in Modes
  /\ pc = [t \in Everyone |-> IF t = Disp THEN "handler"
                              ELSE IF t = Destroyer THEN "idle" ELSE "unborn"]
  /\ back = [t \in Everyone |-> IF t \in Producers THEN AfterCall(t) ELSE "park"]
  /\ alive = FALSE /\ refs = 0 /\ claimed = FALSE /\ ack = FALSE
  /\ finish = FALSE /\ keep = FALSE /\ orphaned = FALSE /\ agen = 0
  /\ final = "none"
  /\ graph = TRUE /\ conn = "owned" /\ settles = 0 /\ posted = FALSE
  /\ reactor = "running" /\ running = TRUE /\ stopping = FALSE
  /\ gen = 0 /\ posters = 0
  /\ queue = [refs |-> 1, closed |-> FALSE, node |-> FALSE]
  /\ broken = FALSE /\ overtaken = FALSE /\ stale = {}

-----------------------------------------------------------------------------
(* Connection outcomes. *)

(* Hand the connection on: re-armed or closed, and on HTTP/2 the stream      *)
(* answered or dropped.  A parked writer still has to do one of these.       *)
Settle(outcome) ==
  conn' = outcome /\ settles' = settles + (IF outcome = "parked" THEN 0 ELSE 1)

(* cwist_http_async_rearm closes instead of arming in a stopping pool. *)
RearmRefused == stopping

(* Once the response is out the connection is re-armed if it stays alive and *)
(* closed otherwise; any failure on the way closes it.                       *)
Outcomes(refused) ==
  {"closed"} \cup (IF keep /\ running /\ ~refused THEN {"armed"} ELSE {})

-----------------------------------------------------------------------------
(* The dispatch thread up to the acknowledgement. *)

(* cwist_async_defer, then the retains for the producers the handler starts, *)
(* the timer's among them when it can be scheduled.  The handle remembers    *)
(* the reactor generation current now.                                       *)
Defer ==
  /\ pc[Disp] = "handler"
  /\ \E armed \in SUBSET ({Timer} \cap Producers), k \in BOOLEAN :
       /\ pc' = [t \in Everyone |-> CASE t = Disp -> "unwinding"
                                      [] t = Timer /\ armed = {} -> "done"
                                      [] t \in Producers -> "ready"
                                      [] OTHER -> pc[t]]
       /\ refs' = 1 + Cardinality((Retained \ {Timer}) \cup armed)
       /\ keep' = k
  /\ alive' = TRUE /\ agen' = gen
  /\ queue' = IF mode = "h2" THEN [queue EXCEPT !.refs = @ + 1] ELSE queue
  /\ UNCHANGED <<mode, back, claimed, ack, finish, orphaned, final, graph, conn,
                 settles, posted, serverVars, broken, stale, overtaken>>

(* cwist_async_defer returned NULL: the handler's response is sent at once.  *)
DeferFails ==
  /\ pc[Disp] = "handler"
  /\ pc' = [t \in Everyone |-> CASE t = Disp -> "loop"
                                 [] t \in Producers -> "done"
                                 [] OTHER -> pc[t]]
  /\ \E outcome \in IF mode = "h2" THEN {"sent"} ELSE {"armed", "closed"} : Settle(outcome)
  /\ graph' = FALSE
  /\ UNCHANGED <<mode, back, handleVars, posted, serverVars, queue, broken, stale, overtaken>>

(* cwist_async_claim: the compare-and-swap every completion starts with. *)
Claim(t) == ~claimed /\ claimed' = TRUE

(* An abort also gives up the connection's keep-alive. *)
KeepsAlive(verdict) == keep /\ verdict # "abort"

(* The handler completes its own exchange before it returns; dispatch has    *)
(* not acknowledged, so the result is left for the acknowledgement to send.  *)
InlineComplete ==
  /\ pc[Disp] = "unwinding"
  /\ Claim(Disp)
  /\ \E verdict \in {"respond", "abort"} :
       keep' = KeepsAlive(verdict)
  /\ finish' = TRUE
  /\ Touch({"handle", "graph"})
  /\ UNCHANGED <<mode, pc, back, alive, refs, ack, orphaned, agen, final, graph, conn,
                 settles, posted, serverVars, queue, broken, overtaken>>

TakesOverNever == FALSE
TakesOver == finish

(* cwist_async_dispatch_ack after app_serve_parsed_request flushed what was  *)
(* coalesced: under a->mu the hand-off is published and a completion that    *)
(* came first is taken over; a failed flush makes dispatch abort afterwards. *)
DispatchAck ==
  /\ pc[Disp] = "unwinding"
  /\ ack' = TRUE
  /\ \E b \in {FALSE, MayBreak /\ mode = "reactor"}, k \in {FALSE, keep} :
       /\ broken' = b
       /\ keep' = k
       /\ back' = [back EXCEPT ![Disp] = IF b THEN "abort" ELSE "park"]
       /\ Goto(Disp, IF TakesOver THEN "deliver" ELSE IF b THEN "abort" ELSE "park")
  /\ Touch({"handle", "graph"})
  /\ UNCHANGED <<mode, alive, refs, claimed, finish, orphaned, agen, final, graph,
                 conn, settles, posted, serverVars, queue, overtaken>>

-----------------------------------------------------------------------------
(* Completion: claim, publish, deliver, complete, release. *)

(* respond and respond_with, which differ only in the response they send,    *)
(* abort, the timeout job, and dispatch's own abort.                         *)
Verdicts(t) == CASE t = Timer -> {"timeout"}
                 [] t = Disp -> {"abort"}
                 [] OTHER -> {"respond", "abort"}

CallWins(t) ==
  /\ pc[t] = IF t = Disp THEN "abort" ELSE "ready"
  /\ Claim(t)
  /\ final' \in Verdicts(t)
  /\ Goto(t, "publish")
  /\ back' = IF t = Disp THEN [back EXCEPT ![Disp] = "park"] ELSE back
  /\ Touch({"handle"})
  /\ UNCHANGED <<mode, alive, refs, ack, finish, keep, orphaned, agen, graph, conn,
                 settles, posted, serverVars, queue, broken, overtaken>>

(* The call returns false, or the timeout job only drops its reference. *)
CallLoses(t) ==
  /\ pc[t] = IF t = Disp THEN "abort" ELSE "ready"
  /\ claimed
  /\ Goto(t, IF t = Disp THEN "park" ELSE AfterCall(t))
  /\ Touch({"handle"})
  /\ UNCHANGED <<mode, back, handleVars, graph, conn, settles, posted, serverVars,
                 queue, broken, overtaken>>

(* cwist_async_publish_locked: before the acknowledgement the result is only *)
(* recorded, after it the caller delivers.                                   *)
MustDeliverAlways(t) == TRUE
MustDeliver(t) == ack

Publish(t) ==
  /\ pc[t] = "publish"
  /\ keep' = KeepsAlive(final) /\ final' = "none"
  /\ finish' = (finish \/ ~MustDeliver(t))
  /\ Goto(t, IF MustDeliver(t) THEN "deliver" ELSE back[t])
  /\ Touch({"handle", "graph"})
  /\ UNCHANGED <<mode, back, alive, refs, claimed, ack, orphaned, agen, graph,
                 conn, settles, posted, serverVars, queue, broken, overtaken>>

(* cwist_async_deliver, and the entry of cwist_http_reactor_post_live: the   *)
(* poster counts itself before it looks at the generation.                   *)
Deliver(t) ==
  /\ pc[t] = "deliver"
  /\ IF mode = "reactor"
     THEN posters' = posters + 1 /\ Goto(t, "check")
     ELSE posters' = posters /\ Goto(t, "complete")
  /\ Touch({"handle"})
  /\ UNCHANGED <<mode, back, handleVars, graph, conn, settles, posted, reactor,
                 running, stopping, gen, queue, broken, overtaken>>

SameGenerationUnchecked == TRUE
SameGeneration == gen = agen

CheckGeneration(t) ==
  /\ pc[t] = "check"
  /\ Goto(t, IF SameGeneration THEN "push" ELSE "miss")
  /\ UNCHANGED <<mode, back, handleVars, graph, conn, settles, posted, serverVars,
                 queue, broken, stale, overtaken>>

(* cwist_reactor_post on the captured reactor. *)
Push(t) ==
  /\ pc[t] = "push"
  /\ posted' = TRUE
  /\ Goto(t, "pushed")
  /\ Touch({"handle", "reactor"})
  /\ UNCHANGED <<mode, back, handleVars, graph, conn, settles, serverVars, queue,
                 broken, overtaken>>

(* The poster leaves; one that found another generation is orphaned and      *)
(* completes the exchange itself.                                            *)
PostDone(t) ==
  /\ pc[t] \in {"pushed", "miss"}
  /\ posters' = posters - 1
  /\ IF pc[t] = "miss"
     THEN orphaned' = TRUE /\ Goto(t, "complete") /\ Touch({"handle"})
     ELSE orphaned' = orphaned /\ Goto(t, back[t]) /\ Touch({})
  /\ UNCHANGED <<mode, back, alive, refs, claimed, ack, finish, keep, agen, final, graph,
                 conn, settles, posted, reactor, running, stopping, gen, queue, broken, overtaken>>

(* cwist_async_complete, sending: an orphan is closed, a reactor connection  *)
(* is sent on and may park, the classic and TLS paths write inline.          *)
CompleteConn(t) ==
  /\ pc[t] = "complete" /\ mode # "h2"
  /\ \E outcome \in IF orphaned THEN {"closed"}
                    ELSE IF mode = "reactor" THEN Outcomes(RearmRefused) \cup {"parked"}
                    ELSE Outcomes(FALSE) : Settle(outcome)
  /\ Goto(t, "free")
  /\ Touch({"handle", "graph", "conn"} \cup
           (IF mode = "reactor" /\ ~orphaned THEN {"reactor"} ELSE {}))
  /\ UNCHANGED <<mode, back, handleVars, graph, posted, serverVars, queue, broken, overtaken>>

(* The HTTP/2 branch: cwist_h2_async_queue_enqueue takes over the exchange;  *)
(* a closed queue, or a node that cannot be allocated, discards it.  Then    *)
(* the handle's reference on the queue is dropped.                           *)
CompleteH2(t) ==
  /\ pc[t] = "complete" /\ mode = "h2"
  /\ \/ /\ ~queue.closed
        /\ queue' = [queue EXCEPT !.refs = @ - 1, !.node = TRUE]
        /\ UNCHANGED <<graph, conn, settles>>
     \/ queue' = [queue EXCEPT !.refs = @ - 1] /\ graph' = FALSE /\ Settle("dropped")
  /\ Goto(t, "drop")
  /\ Touch({"handle", "graph", "queue"})
  /\ UNCHANGED <<mode, back, handleVars, posted, serverVars, broken, overtaken>>

(* cwist_async_complete, the request/response pair is destroyed. *)
CompleteFree(t) ==
  /\ pc[t] = "free"
  /\ graph' = FALSE
  /\ Goto(t, "drop")
  /\ Touch({"handle", "graph"})
  /\ UNCHANGED <<mode, back, handleVars, conn, settles, posted, serverVars, queue,
                 broken, overtaken>>

(* cwist_async_release: the reference of the completion, or a producer's.    *)
FreesAtOne == refs = 1

Release(t) ==
  /\ pc[t] \in {"drop", "release"}
  /\ refs' = refs - 1
  /\ alive' = (alive /\ ~FreesAtOne)
  /\ Goto(t, IF pc[t] = "drop" THEN back[t] ELSE "done")
  /\ Touch({"handle"})
  /\ UNCHANGED <<mode, back, claimed, ack, finish, keep, orphaned, agen, final, graph,
                 conn, settles, posted, serverVars, queue, broken, overtaken>>

-----------------------------------------------------------------------------
(* The dispatch thread after the acknowledgement. *)

(* https_thread_handler reads only its thread-local flag. *)
HttpsReturnReadsConn == {"conn"}
HttpsReturnReads == {}

(* On return from the handler http_async_dispatch shrinks the parked         *)
(* connection's stash; the other modes return.                               *)
ReturnReads == CASE mode = "reactor" -> {"conn"} [] mode = "https" -> HttpsReturnReads [] OTHER -> {}

HandlerReturns ==
  /\ pc[Disp] = "park"
  /\ Goto(Disp, "loop")
  /\ Touch(ReturnReads)
  /\ UNCHANGED <<mode, back, handleVars, graph, conn, settles, posted, serverVars,
                 queue, broken, overtaken>>

(* reactor_drain_posts runs the posted completion on the run thread, or in   *)
(* cwist_reactor_destroy once that thread is gone.                           *)
DrainPost(t, resume) ==
  /\ posted
  /\ posted' = FALSE
  /\ Goto(t, "complete")
  /\ back' = [back EXCEPT ![t] = resume]
  /\ UNCHANGED <<mode, handleVars, graph, conn, settles, serverVars, queue,
                 broken, stale, overtaken>>

ReactorDrain == mode = "reactor" /\ pc[Disp] = "loop" /\ DrainPost(Disp, "loop")

(* http_parked_write_cb: the writer drained or failed. *)
ParkedWrite ==
  /\ mode = "reactor" /\ pc[Disp] = "loop"
  /\ conn = "parked"
  /\ \E outcome \in Outcomes(RearmRefused) : Settle(outcome)
  /\ UNCHANGED <<mode, pc, back, handleVars, graph, posted, serverVars, queue,
                 broken, stale, overtaken>>

(* reactor_running turned false. *)
LoopExit ==
  /\ mode = "reactor" /\ pc[Disp] = "loop"
  /\ ~running \/ reactor = "stopping"
  /\ Goto(Disp, "exited")
  /\ UNCHANGED <<mode, back, handleVars, graph, conn, settles, posted, serverVars,
                 queue, broken, stale, overtaken>>

(* h2_async_drain on the connection thread: a stream that is gone discards   *)
(* the exchange, exhausted flow control keeps it attached to the stream.     *)
H2Drain ==
  /\ mode = "h2" /\ pc[Disp] = "loop"
  /\ queue.node
  /\ queue' = [queue EXCEPT !.node = FALSE]
  /\ \E outcome \in {"sent", "dropped", "parked"} :
       Settle(outcome) /\ graph' = (outcome = "parked")
  /\ Touch({"graph", "queue"})
  /\ UNCHANGED <<mode, pc, back, handleVars, posted, serverVars, broken, overtaken>>

(* h2_resume_responses, once the peer granted credit. *)
H2Resume ==
  /\ mode = "h2" /\ pc[Disp] = "loop"
  /\ conn = "parked"
  /\ \E outcome \in {"sent", "dropped"} : Settle(outcome)
  /\ graph' = FALSE
  /\ Touch({"graph"})
  /\ UNCHANGED <<mode, pc, back, handleVars, posted, serverVars, queue, broken, overtaken>>

(* Connection teardown: the streams go with the responses attached to them,  *)
(* cwist_h2_async_queue_close discards what is queued, then the connection's *)
(* own reference is released.                                                *)
H2Teardown ==
  /\ mode = "h2" /\ pc[Disp] = "loop"
  /\ queue' = [refs |-> queue.refs - 1, closed |-> TRUE, node |-> FALSE]
  /\ IF queue.node \/ conn = "parked"
     THEN graph' = FALSE /\ Settle("dropped")
     ELSE UNCHANGED <<graph, conn, settles>>
  /\ Goto(Disp, "exited")
  /\ Touch({"queue"})
  /\ UNCHANGED <<mode, back, handleVars, posted, serverVars, broken, overtaken>>

-----------------------------------------------------------------------------
(* The server stops: cwist_http_pool_destroy. *)

(* g_cwist_running was cleared, so the server loop's reactor returned: in    *)
(* the middle of whatever the worker reactors' threads are doing.            *)
ServerStops ==
  /\ mode = "reactor" /\ pc[Destroyer] = "idle"
  /\ running' = FALSE
  /\ Goto(Destroyer, "stop")
  /\ UNCHANGED <<mode, back, handleVars, graph, conn, settles, posted, reactor,
                 stopping, gen, posters, queue, broken, stale, overtaken>>

PoolStopping ==
  /\ pc[Destroyer] = "stop"
  /\ stopping' = TRUE
  /\ Goto(Destroyer, "bump")
  /\ UNCHANGED <<mode, back, handleVars, graph, conn, settles, posted, reactor,
                 running, gen, posters, queue, broken, stale, overtaken>>

(* Dispatch of the exchange has not come back to the reactor's loop. *)
Dispatching ==
  \/ pc[Disp] \in {"handler", "unwinding", "abort", "park"}
  \/ pc[Disp] \in CompletionPhases /\ back[Disp] \in {"abort", "park"}

RetireGeneration ==
  /\ pc[Destroyer] = "bump"
  /\ gen' = gen + 1
  /\ overtaken' = Dispatching
  /\ Goto(Destroyer, "drain")
  /\ UNCHANGED <<mode, back, handleVars, graph, conn, settles, posted, reactor,
                 running, stopping, posters, queue, broken, stale>>

(* The loop on g_reactor_posters, then cwist_reactor_stop. *)
PostersGone == posters = 0

StopReactors ==
  /\ pc[Destroyer] = "drain"
  /\ PostersGone
  /\ reactor' = "stopping"
  /\ Goto(Destroyer, "join")
  /\ UNCHANGED <<mode, back, handleVars, graph, conn, settles, posted, running,
                 stopping, gen, posters, queue, broken, stale, overtaken>>

(* pthread_join, then cwist_reactor_destroy: one last drain, then the free. *)
FinalDrain == pc[Destroyer] = "join" /\ pc[Disp] = "exited" /\ DrainPost(Destroyer, "freeing")

FinalDrainEmpty ==
  /\ pc[Destroyer] = "join" /\ pc[Disp] = "exited" /\ ~posted
  /\ Goto(Destroyer, "freeing")
  /\ UNCHANGED <<mode, back, handleVars, graph, conn, settles, posted, serverVars,
                 queue, broken, stale, overtaken>>

FreeReactor ==
  /\ pc[Destroyer] = "freeing"
  /\ reactor' = "freed"
  /\ Goto(Destroyer, "done")
  /\ UNCHANGED <<mode, back, handleVars, graph, conn, settles, posted, running,
                 stopping, gen, posters, queue, broken, stale, overtaken>>

-----------------------------------------------------------------------------
CompletionStep(t) ==
  \/ Publish(t) \/ Deliver(t) \/ CheckGeneration(t) \/ Push(t) \/ PostDone(t)
  \/ CompleteConn(t) \/ CompleteH2(t) \/ CompleteFree(t) \/ Release(t)

CallStep(t) == CallWins(t) \/ CallLoses(t)

DispStep ==
  \/ Defer \/ DeferFails \/ InlineComplete \/ DispatchAck \/ HandlerReturns
  \/ ReactorDrain \/ ParkedWrite \/ LoopExit \/ H2Drain \/ H2Resume \/ H2Teardown

DestroyStep ==
  \/ PoolStopping \/ RetireGeneration \/ StopReactors
  \/ FinalDrain \/ FinalDrainEmpty \/ FreeReactor

Next ==
  \/ DispStep
  \/ ServerStops \/ DestroyStep
  \/ \E t \in Producers \cup {Disp} : CallStep(t)
  \/ \E t \in Everyone : CompletionStep(t)

Spec == Init /\ [][Next]_vars

(* Threads that are inside the framework keep running, handlers return, and  *)
(* the timer's callback fires.  No producer has to answer, no peer has to    *)
(* read, and nobody has to stop the server, but a stop once begun goes on.   *)
Fairness ==
  /\ WF_vars(CallStep(Disp))
  /\ WF_vars(DispatchAck \/ HandlerReturns \/ ReactorDrain \/ H2Drain)
  /\ WF_vars(CallStep(Timer))
  /\ WF_vars(DestroyStep) /\ WF_vars(LoopExit)
  /\ \A t \in Everyone : WF_vars(CompletionStep(t))

FairSpec == Spec /\ Fairness

-----------------------------------------------------------------------------
(* Properties. *)

TypeOK ==
  /\ mode \in Modes
  /\ pc \in [Everyone -> Phases] /\ back \in [Everyone -> Phases]
  /\ alive \in BOOLEAN /\ refs \in 0..(Cardinality(Producers) + 1)
  /\ claimed \in BOOLEAN /\ ack \in BOOLEAN /\ finish \in BOOLEAN
  /\ keep \in BOOLEAN /\ orphaned \in BOOLEAN /\ agen \in 0..1
  /\ final \in {"none", "respond", "abort", "timeout"}
  /\ graph \in BOOLEAN
  /\ conn \in {"owned", "parked", "armed", "closed", "sent", "dropped"}
  /\ settles \in Nat /\ posted \in BOOLEAN
  /\ reactor \in {"running", "stopping", "freed"}
  /\ running \in BOOLEAN /\ stopping \in BOOLEAN /\ gen \in 0..1
  /\ posters \in 0..Cardinality(Everyone)
  /\ queue \in [refs : 0..2, closed : BOOLEAN, node : BOOLEAN]
  /\ broken \in BOOLEAN /\ overtaken \in BOOLEAN
  /\ stale \subseteq {"handle", "graph", "conn", "reactor", "queue"}

(* Whichever of producers, timer, dispatch and teardown gets there first, no *)
(* thread dereferences the handle, the request/response pair, the connection,*)
(* the reactor or the HTTP/2 queue after it was freed, unless the server's   *)
(* stop retired the generation while dispatch had not yet returned from the  *)
(* handler.  Then a completion runs outside the reactor's thread and closes  *)
(* the connection that http_async_dispatch is about to shrink; it may have   *)
(* released the handle that dispatch aborts after a failed flush; and an     *)
(* exchange deferred that late holds the generation of no reactor            *)
(* (PostsNotIntoFreed).  The pair is safe even then.                         *)
NoStaleTouch ==
  stale \subseteq {x \in {"conn", "reactor", "handle"} : overtaken /\ (x = "handle" => broken)}

(* async.h: "Thread-safe and one-shot: the first of respond/respond_with/    *)
(* abort wins".  The connection is handed on at most once, and only after    *)
(* dispatch acknowledged the hand-off.                                       *)
SettledOnce == settles <= 1 /\ (settles = 1 /\ claimed => ack)

(* The completion's reference and every retained one are dropped exactly     *)
(* once: when the exchange is answered and every producer returned, nothing  *)
(* of it is left allocated; every variable keeps its type.                   *)
Busy(t) == pc[t] \in CompletionPhases \cup {"ready", "abort", "release"}
NothingLeaked ==
  /\ TypeOK
  /\ (settles = 1 /\ \A t \in Everyone : ~Busy(t)) =>
       ~alive /\ ~graph /\ refs = 0 /\ (mode = "h2" => queue.refs = IF queue.closed THEN 0 ELSE 1)

(* http.c on g_reactor_gen: every post that saw the old generation lands     *)
(* before the reactors' final drain, and none goes into freed memory.  The   *)
(* generation is the one cwist_async_defer read; what it reads after the     *)
(* bump is not the old one, though the reactor is.                           *)
PostsLandBeforeFree ==
  agen = 0 => "reactor" \notin stale /\ (reactor = "freed" => ~posted)

(* http.c on g_reactor_gen: "a deferred completion that still holds a        *)
(* reactor from an earlier generation ... closes its connection instead of   *)
(* posting into freed memory."  The handle's generation is read when the     *)
(* handler defers, not when the connection was given to the reactor.         *)
PostsNotIntoFreed == "reactor" \notin stale

(* async.h on set_timeout: "Answer with a 504 Gateway Timeout if the         *)
(* exchange is still pending": with a timer the response of every deferred   *)
(* exchange is sent, parked on a slow peer or given up with its connection,  *)
(* though no producer ever answers, unless it was deferred after the         *)
(* reactors' generation was retired.                                         *)
Answered == (Timer \in Producers /\ pc[Timer] = "ready") ~> (conn # "owned" \/ agen # 0)
=============================================================================
