------------------------------- MODULE HttpPool -------------------------------
(***************************************************************************)
(* The classic-mode worker pool of src/net/http/http.c: a queue of         *)
(* accepted connections served by detached threads that are spawned on     *)
(* demand and retire when idle, the registry of connections being served,  *)
(* and the shutdown that drains both before the application is destroyed.  *)
(*                                                                         *)
(* One thread accepts connections and later destroys the pool; worker      *)
(* threads pop, register, serve and unregister; completions of deferred    *)
(* responses put a kept-alive connection back on the queue.  Each critical *)
(* section of g_dyn_pool.lock and of g_live_lock, and each atomic access   *)
(* outside them, is one step.  A call on lock or cond after they were      *)
(* destroyed is undefined; the C library's returns an error that nobody    *)
(* looks at, so the caller goes on as if it held the lock.                 *)
(***************************************************************************)
EXTENDS Integers, Sequences, FiniteSets

CONSTANTS
    Conns,            \* connections that may be accepted
    Workers,          \* identities of worker threads, a bound on the threads alive
    MaxWorkers,       \* g_dyn_pool.max_workers
    NoConn,
    Base,             \* g_http_thread_count: workers kept when idle
    InflightLimit,    \* cwist_http_inflight_limit()
    UseHttp2,         \* app->use_http2: handlers peek for the HTTP/2 preface
    Timeouts,         \* do idle, drain and reap waits time out?
    MaxFaults,        \* bound on pthread_create, allocation and dup failures
    MaxInits          \* bound on cwist_http_pool_init_mode calls

ASSUME HttpPoolAssumption ==
    /\ IsFiniteSet(Conns) /\ IsFiniteSet(Workers)
    /\ NoConn \notin Conns
    /\ MaxWorkers \in 1..Cardinality(Workers)
    /\ Base \in 1..MaxWorkers
    /\ {InflightLimit, MaxInits, MaxFaults} \subseteq Nat
    /\ {Timeouts, UseHttp2} \subseteq BOOLEAN

VARIABLES
    app_running,   \* g_cwist_running
    queue,         \* g_dyn_pool.head .. tail
    pending,       \* pending_tasks
    active,        \* active_workers
    idle,          \* idle_workers
    live,          \* live_workers
    busy,          \* busy_workers
    running,       \* g_dyn_pool.running
    stopping,      \* g_http_pool_stopping
    primitives,    \* primitives_live: lock and cond exist
    inflight,      \* g_http_inflight
    waitset,       \* workers asleep on g_dyn_pool.cond
    wpc, wconn,    \* each worker's step and its connection
    registry,      \* workers whose http_live_conn_t is linked from g_live_head
    live_count,    \* g_live_count
    conn_idle,     \* http_live_conn.idle
    shut,          \* what shutdown() did to each connection: "none", "rd" or "rdwr"
    draining,      \* g_draining
    dpc,           \* the acceptor, later destroying thread
    accepting,     \* the connection that thread is in cwist_http_pool_submit with
    cst,           \* where each connection is
    late,          \* a completion used the pool after destroy looked at live_workers
    inits,         \* calls of cwist_http_pool_init_mode
    faults         \* failed calls so far

threadVars == <<wpc, wconn, waitset>>
countVars == <<pending, active, idle, live, busy, inflight>>
liveVars == <<registry, live_count, conn_idle, shut>>
serverVars == <<app_running, dpc, accepting, late>>
bounds == <<inits, faults>>
flagVars == <<running, stopping, primitives, draining>>
vars == <<serverVars, queue, countVars, flagVars, threadVars, liveVars, cst, bounds>>

HandlerSteps == {"peek", "h2c", "next", "idleset", "read", "serve", "peer"}
WorkerSteps == {"gone", "loop", "waiting", "timedout", "popped", "busy", "ret", "unlinked", "dec",
                "wakedrain", "done", "exit"} \cup HandlerSteps
DestroySteps == {"spawn", "up", "norun", "bcast", "dropq", "drain", "kick", "check", "dwait",
                 "force", "check2", "dwait2", "reap", "prim", "unmake", "down"}
ConnStates == {"new", "over", "counted", "queued", "held", "deferred", "rearming", "closed"}

TypeOK ==
    /\ app_running \in BOOLEAN
    /\ queue \in Seq(Conns)
    /\ {pending, active, live, busy, inflight, live_count} \subseteq Nat
    /\ idle \in Int
    /\ {running, stopping, primitives, draining, late} \subseteq BOOLEAN
    /\ waitset \subseteq Workers
    /\ wpc \in [Workers -> WorkerSteps]
    /\ wconn \in [Workers -> Conns \cup {NoConn}]
    /\ registry \subseteq Workers
    /\ conn_idle \in [Workers -> BOOLEAN]
    /\ shut \in [Conns -> {"none", "rd", "rdwr"}]
    /\ dpc \in DestroySteps /\ accepting \in Conns \cup {NoConn}
    /\ cst \in [Conns -> ConnStates]
    /\ inits \in 0..MaxInits /\ faults \in 0..MaxFaults

Handling == {w \in Workers : wpc[w] \in HandlerSteps}
(* Workers that will look at the queue before they sleep, serve or leave. *)
Heading == {w \in Workers : \/ wpc[w] \in {"loop", "timedout"}
                            \/ wpc[w] = "waiting" /\ w \notin waitset}

Init ==
    /\ app_running = FALSE
    /\ queue = <<>>
    /\ pending = 0 /\ active = 0 /\ idle = 0 /\ live = 0 /\ busy = 0 /\ inflight = 0
    /\ running = FALSE /\ stopping = FALSE /\ primitives = FALSE /\ draining = FALSE
    /\ waitset = {}
    /\ wpc = [w \in Workers |-> "gone"]
    /\ wconn = [w \in Workers |-> NoConn]
    /\ registry = {} /\ live_count = 0
    /\ conn_idle = [w \in Workers |-> FALSE]
    /\ shut = [c \in Conns |-> "none"]
    /\ dpc = "down" /\ accepting = NoConn /\ late = FALSE
    /\ cst = [c \in Conns |-> "new"]
    /\ inits = 0 /\ faults = 0

-------------------------------------------------------------------------------
Fault == faults < MaxFaults /\ faults' = faults + 1

(* cwist_http_pool_init_mode(false), before the workers: counters of this   *)
(* generation restart, live_workers, busy_workers and inflight do not, and  *)
(* lock/cond are created unless an earlier generation's workers still use   *)
(* them.                                                                    *)
PoolInit ==
    /\ dpc = "down" /\ inits < MaxInits
    /\ stopping' = FALSE /\ running' = TRUE /\ primitives' = TRUE
    /\ queue' = <<>> /\ pending' = 0 /\ active' = 0 /\ idle' = 0
    /\ dpc' = "spawn" /\ late' = FALSE
    /\ inits' = inits + 1
    /\ UNCHANGED <<app_running, accepting, live, busy, inflight, draining, threadVars, liveVars,
                   cst, faults>>

(* The Base workers, and the accept loop; a worker that cannot be created   *)
(* ends the init, and the server, with those that were.                     *)
PoolSpawn ==
    /\ dpc = "spawn"
    /\ \E ws \in SUBSET {w \in Workers : wpc[w] = "gone"} :
          /\ \/ Cardinality(ws) = Base /\ dpc' = "up" /\ app_running' = TRUE /\ faults' = faults
             \/ Cardinality(ws) < Base /\ dpc' = "down" /\ Fault /\ UNCHANGED app_running
          /\ wpc' = [w \in Workers |-> IF w \in ws THEN "loop" ELSE wpc[w]]
          /\ wconn' = [w \in Workers |-> IF w \in ws THEN NoConn ELSE wconn[w]]
          /\ active' = active + Cardinality(ws) /\ live' = live + Cardinality(ws)
    /\ UNCHANGED <<accepting, late, queue, pending, idle, busy, inflight, flagVars, waitset,
                   liveVars, cst, inits>>

-------------------------------------------------------------------------------
(* http_spawn_worker: a failed pthread_create rolls both counters back. *)
SpawnWorker ==
    \/ \E w \in Workers :
          /\ wpc[w] = "gone"
          /\ wpc' = [wpc EXCEPT ![w] = "loop"]
          /\ wconn' = [wconn EXCEPT ![w] = NoConn]
          /\ active' = active + 1 /\ live' = live + 1
          /\ faults' = faults
    \/ Fault /\ UNCHANGED <<wpc, wconn, active, live>>

SpawnWhenNoneIdle == idle = 0 /\ active < MaxWorkers

(* Queued demand, the new task included, against the workers counted idle. *)
MustSpawn == pending + 1 > idle /\ active < MaxWorkers

SignalOne == \/ waitset = {} /\ waitset' = waitset
             \/ \E w \in waitset : waitset' = waitset \ {w}

(* cwist_http_pool_submit counts the connection first.  It does not look at *)
(* running.                                                                 *)
SubmitCount(c) ==
    /\ inflight' = inflight + 1
    /\ cst' = [cst EXCEPT ![c] = IF inflight + 1 > InflightLimit THEN "over" ELSE "counted"]
    /\ UNCHANGED <<app_running, dpc, late, queue, pending, active, idle, live, busy, flagVars,
                   threadVars, liveVars, bounds>>

(* The accept loop of cwist_http_server_loop. *)
Accept(c) ==
    /\ dpc = "up" /\ app_running /\ accepting = NoConn
    /\ cst[c] = "new"
    /\ accepting' = c
    /\ SubmitCount(c)

(* The completion of a deferred response: keep the connection only while    *)
(* the application runs, then send, then cwist_http_pool_rearm_current,     *)
(* which looks at nothing.                                                  *)
CompleteDeferred(c) ==
    /\ cst[c] = "deferred"
    /\ cst' = [cst EXCEPT ![c] = IF app_running THEN "rearming" ELSE "closed"]
    /\ UNCHANGED <<serverVars, queue, countVars, flagVars, threadVars, liveVars, bounds>>

Rearm(c) ==
    /\ cst[c] = "rearming"
    /\ accepting' = accepting
    /\ SubmitCount(c)

Accepted(c) == IF accepting = c THEN NoConn ELSE accepting

(* Over the limit, or no memory for the task: the count is given back. *)
SubmitRefuse(c) ==
    /\ \/ cst[c] = "over" /\ faults' = faults
       \/ cst[c] = "counted" /\ Fault
    /\ inflight' = inflight - 1
    /\ cst' = [cst EXCEPT ![c] = "closed"]
    /\ accepting' = Accepted(c)
    /\ UNCHANGED <<app_running, dpc, late, queue, pending, active, idle, live, busy, flagVars,
                   threadVars, liveVars, inits>>

(* The critical section: queue, spawn, signal. *)
SubmitQueue(c) ==
    /\ cst[c] = "counted"
    /\ queue' = Append(queue, c)
    /\ pending' = pending + 1
    /\ cst' = [cst EXCEPT ![c] = "queued"]
    /\ IF MustSpawn THEN SpawnWorker ELSE UNCHANGED <<wpc, wconn, active, live, faults>>
    /\ SignalOne
    /\ accepting' = Accepted(c)
    /\ late' = (late \/ dpc \in {"unmake", "down"})
    /\ UNCHANGED <<app_running, dpc, idle, busy, inflight, flagVars, liveVars, inits>>

-------------------------------------------------------------------------------
(* http_dynamic_worker_loop, from the lock to the unlock: leave when the    *)
(* pool stopped, take the head task, or sleep.                              *)
Locked(w, i) ==
    \/ /\ ~running
       /\ wpc' = [wpc EXCEPT ![w] = "exit"]
       /\ idle' = i
       /\ UNCHANGED <<queue, pending, wconn, waitset, cst>>
    \/ /\ running /\ queue # <<>>
       /\ queue' = Tail(queue)
       /\ pending' = pending - 1
       /\ wconn' = [wconn EXCEPT ![w] = Head(queue)]
       /\ cst' = [cst EXCEPT ![Head(queue)] = "held"]
       /\ wpc' = [wpc EXCEPT ![w] = "popped"]
       /\ idle' = i
       /\ UNCHANGED waitset
    \/ /\ running /\ queue = <<>>
       /\ wpc' = [wpc EXCEPT ![w] = "waiting"]
       /\ waitset' = waitset \cup {w}
       /\ idle' = i + 1
       /\ UNCHANGED <<queue, pending, wconn, cst>>

lockedOnly == <<serverVars, live, busy, inflight, flagVars, liveVars, bounds>>

WorkerLoop(w) ==
    /\ wpc[w] = "loop"
    /\ Locked(w, idle)
    /\ UNCHANGED <<active, lockedOnly>>

WorkerWake(w) ==
    /\ wpc[w] = "waiting" /\ w \notin waitset
    /\ Locked(w, idle - 1)
    /\ UNCHANGED <<active, lockedOnly>>

ScaleDown == active > Base

(* The idle timeout passed: retire when above the base size, unless a task  *)
(* arrived before the lock was retaken.                                     *)
WorkerTimedOut(w) ==
    /\ wpc[w] = "timedout"
    /\ \/ /\ queue = <<>> /\ ScaleDown
          /\ active' = active - 1
          /\ idle' = idle - 1
          /\ wpc' = [wpc EXCEPT ![w] = "exit"]
          /\ UNCHANGED <<queue, pending, wconn, waitset, cst>>
       \/ /\ queue # <<>> \/ ~ScaleDown
          /\ Locked(w, idle - 1)
          /\ UNCHANGED active
    /\ UNCHANGED lockedOnly

IdleTimeout(w) ==
    /\ Timeouts
    /\ w \in waitset
    /\ waitset' = waitset \ {w}
    /\ wpc' = [wpc EXCEPT ![w] = "timedout"]
    /\ UNCHANGED <<serverVars, queue, countVars, flagVars, wconn, liveVars, cst, bounds>>

(* Moves of one worker that touch nothing but its own step. *)
Goto(w, l) == wpc' = [wpc EXCEPT ![w] = l] /\ UNCHANGED <<wconn, waitset>>

BusyEnter(w) ==
    /\ wpc[w] = "popped"
    /\ busy' = busy + 1
    /\ Goto(w, "busy")
    /\ UNCHANGED <<serverVars, queue, pending, active, idle, live, inflight, flagVars, liveVars,
                   cst, bounds>>

LiveCountKept == live_count
LiveCountAdded == live_count + 1

(* http_live_serve links the connection and calls the handler on a dup of   *)
(* the descriptor; when dup fails the handler runs unregistered.            *)
Register(w) ==
    /\ wpc[w] = "busy"
    /\ Goto(w, IF UseHttp2 THEN "peek" ELSE "next")
    /\ \/ /\ registry' = registry \cup {w}
          /\ live_count' = LiveCountAdded /\ faults' = faults
       \/ Fault /\ UNCHANGED <<registry, live_count>>
    /\ UNCHANGED <<serverVars, queue, countVars, flagVars, conn_idle, shut, cst, inits>>

otherThanServing == <<serverVars, queue, countVars, flagVars, registry, live_count, shut, bounds>>

Closes(w) == cst' = [cst EXCEPT ![wconn[w]] = "closed"] /\ Goto(w, "ret")

(* cwist_app_http_handler begins, on a fresh and on a re-armed connection   *)
(* alike, with a recv(MSG_PEEK) that is not marked idle: it returns when    *)
(* the peer sends or leaves, or the socket was shut down.  After an HTTP/2  *)
(* preface the frames are served inline until that connection ends.         *)
PeekReturns(w) ==
    /\ wpc[w] = "peek"
    /\ \E l \in {"next", "h2c"} : Goto(w, l)
    /\ UNCHANGED <<otherThanServing, conn_idle, cst>>

H2cEnds(w) ==
    /\ wpc[w] = "h2c"
    /\ Closes(w)
    /\ UNCHANGED <<otherThanServing, conn_idle>>

(* cwist_http_live_idle_enter: publish idle first, then look at stopping. *)
IdleStore(w) ==
    /\ wpc[w] = "next"
    /\ conn_idle' = [conn_idle EXCEPT ![w] = w \in registry]
    /\ Goto(w, "idleset")
    /\ UNCHANGED <<otherThanServing, cst>>

IdleCheckSkipped(w) ==
    /\ wpc[w] = "idleset"
    /\ Goto(w, "read")
    /\ UNCHANGED <<otherThanServing, conn_idle, cst>>

IdleCheck(w) ==
    /\ wpc[w] = "idleset"
    /\ IF stopping /\ w \in registry
       THEN /\ conn_idle' = [conn_idle EXCEPT ![w] = FALSE]
            /\ Closes(w)
       ELSE /\ Goto(w, "read")
            /\ UNCHANGED <<conn_idle, cst>>
    /\ UNCHANGED otherThanServing

(* recv returns bytes of the next request, or end of file: the peer left or *)
(* shutdown() reached the socket (bytes that came before it are still read).*)
ReadReturns(w) ==
    /\ wpc[w] = "read"
    /\ conn_idle' = [conn_idle EXCEPT ![w] = FALSE]
    /\ \/ Goto(w, "serve") /\ cst' = cst
       \/ Closes(w)
    /\ UNCHANGED otherThanServing

(* Inside a request the handler also waits for its peer, for the rest of    *)
(* the headers, the body or room to send, again without being marked idle.  *)
(* Nothing blocks any more on a socket that was shut down both ways.        *)
AwaitPeer(w) ==
    /\ wpc[w] = "serve" /\ shut[wconn[w]] # "rdwr"
    /\ Goto(w, "peer")
    /\ UNCHANGED <<otherThanServing, conn_idle, cst>>

PeerReturns(w) ==
    /\ wpc[w] = "peer"
    /\ Goto(w, "serve")
    /\ UNCHANGED <<otherThanServing, conn_idle, cst>>

(* The handler answers and waits for the next request, answers and closes,  *)
(* or defers the response and returns.                                      *)
HandlerReturns(w) ==
    /\ wpc[w] = "serve"
    /\ \/ Goto(w, "next") /\ cst' = cst
       \/ Closes(w)
       \/ cst' = [cst EXCEPT ![wconn[w]] = "deferred"] /\ Goto(w, "ret")
    /\ UNCHANGED <<otherThanServing, conn_idle>>

Unlink(w) ==
    /\ wpc[w] = "ret"
    /\ Goto(w, IF w \in registry THEN "unlinked" ELSE "done")
    /\ registry' = registry \ {w}
    /\ UNCHANGED <<serverVars, queue, countVars, flagVars, live_count, conn_idle, shut, cst,
                   bounds>>

LiveCountDropped == live_count - 1

LastOutOffByOne == live_count = 0
LastOut == live_count = 1

(* http_live_dec counts down, then, the last one out, asks for a drain. *)
LiveDec(w) ==
    /\ wpc[w] = "unlinked"
    /\ live_count' = LiveCountDropped
    /\ Goto(w, IF LastOut THEN "dec" ELSE "done")
    /\ UNCHANGED <<serverVars, queue, countVars, flagVars, registry, conn_idle, shut, cst, bounds>>

DrainAsked(w) ==
    /\ wpc[w] = "dec"
    /\ Goto(w, IF draining THEN "wakedrain" ELSE "done")
    /\ UNCHANGED <<serverVars, queue, countVars, flagVars, liveVars, cst, bounds>>

(* The broadcast takes g_drain_lock, which the destroyer gives up only while *)
(* it sleeps or after the drain.                                             *)
WakeDrain(w) ==
    /\ wpc[w] = "wakedrain"
    /\ dpc \notin {"kick", "check", "force", "check2"}
    /\ Goto(w, "done")
    /\ dpc' = CASE dpc = "dwait" -> "check" [] dpc = "dwait2" -> "check2" [] OTHER -> dpc
    /\ UNCHANGED <<app_running, accepting, late, queue, countVars, flagVars, liveVars, cst, bounds>>

BusyLeave(w) ==
    /\ wpc[w] = "done"
    /\ busy' = busy - 1 /\ inflight' = inflight - 1
    /\ wpc' = [wpc EXCEPT ![w] = "loop"]
    /\ wconn' = [wconn EXCEPT ![w] = NoConn]
    /\ UNCHANGED <<serverVars, queue, pending, active, idle, live, flagVars, waitset, liveVars,
                   cst, bounds>>

(* The thread's last access to the pool. *)
WorkerExit(w) ==
    /\ wpc[w] = "exit"
    /\ live' = live - 1
    /\ Goto(w, "gone")
    /\ UNCHANGED <<serverVars, queue, pending, active, idle, busy, inflight, flagVars, liveVars,
                   cst, bounds>>

-------------------------------------------------------------------------------
(* A signal or an application call ends the accept loop. *)
RequestShutdown ==
    /\ dpc = "up" /\ app_running
    /\ app_running' = FALSE
    /\ UNCHANGED <<dpc, accepting, late, queue, countVars, flagVars, threadVars, liveVars, cst,
                   bounds>>

destroyOnly == <<app_running, accepting, late, countVars, wpc, wconn, bounds>>

(* cwist_http_pool_destroy, up to the drain of served connections. *)
DestroyBegin ==
    /\ dpc = "up" /\ ~app_running /\ accepting = NoConn
    /\ stopping' = TRUE
    /\ dpc' = "norun"
    /\ UNCHANGED <<destroyOnly, queue, running, primitives, draining, waitset, liveVars, cst>>

DestroyNoRun ==
    /\ dpc = "norun"
    /\ running' = FALSE
    /\ dpc' = "bcast"
    /\ UNCHANGED <<destroyOnly, queue, stopping, primitives, draining, waitset, liveVars, cst>>

DestroyBroadcast ==
    /\ dpc = "bcast"
    /\ waitset' = {}
    /\ dpc' = "dropq"
    /\ UNCHANGED <<destroyOnly, queue, flagVars, liveVars, cst>>

(* Queued connections are closed; their inflight count is not given back. *)
DropQueue ==
    /\ dpc = "dropq"
    /\ cst' = [c \in Conns |-> IF \E i \in DOMAIN queue : queue[i] = c THEN "closed" ELSE cst[c]]
    /\ queue' = <<>>
    /\ dpc' = "drain"
    /\ UNCHANGED <<destroyOnly, flagVars, waitset, liveVars>>

drainOnly == <<destroyOnly, queue, running, stopping, primitives, waitset, registry,
               live_count, conn_idle, cst>>

(* http_live_drain: nothing registered means nothing to wait for. *)
DrainBegin ==
    /\ dpc = "drain"
    /\ IF live_count = 0
       THEN dpc' = "reap" /\ UNCHANGED draining
       ELSE dpc' = "kick" /\ draining' = TRUE
    /\ UNCHANGED <<drainOnly, shut>>

(* http_live_kick(how, idle_only), one critical section of g_live_lock. *)
Kick(how, idle_only) ==
    shut' = [c \in Conns |-> IF \E w \in registry : wconn[w] = c /\ (idle_only => conn_idle[w])
                             THEN how ELSE shut[c]]

DrainKickIdle ==
    /\ dpc = "kick"
    /\ Kick("rd", TRUE)
    /\ dpc' = "check"
    /\ UNCHANGED <<drainOnly, draining>>

DrainCheck ==
    /\ dpc \in {"check", "check2"}
    /\ IF live_count > 0
       THEN dpc' = (IF dpc = "check" THEN "dwait" ELSE "dwait2") /\ UNCHANGED draining
       ELSE dpc' = "reap" /\ draining' = FALSE
    /\ UNCHANGED <<drainOnly, shut>>

(* The drain timeout passed: force every registered socket down. *)
DrainTimeout ==
    /\ Timeouts
    /\ dpc = "dwait"
    /\ dpc' = "force"
    /\ UNCHANGED <<drainOnly, draining, shut>>

DrainForce ==
    /\ dpc = "force"
    /\ IF live_count = 0
       THEN dpc' = "reap" /\ draining' = FALSE /\ UNCHANGED shut
       ELSE dpc' = "check2" /\ Kick("rdwr", FALSE) /\ UNCHANGED draining
    /\ UNCHANGED drainOnly

DrainPoll ==
    /\ Timeouts
    /\ dpc = "dwait2"
    /\ dpc' = "check2"
    /\ UNCHANGED <<drainOnly, draining, shut>>

(* The bounded wait for workers outside a handler.  The broadcast it repeats *)
(* meanwhile finds nobody: no worker sleeps after running was cleared.       *)
ReapDone ==
    /\ dpc = "reap"
    /\ live <= busy \/ Timeouts
    /\ waitset' = {}
    /\ dpc' = "prim"
    /\ UNCHANGED <<destroyOnly, queue, flagVars, liveVars, cst>>

NoneOutsideHandlers == live <= busy
NoWorkerLeft == live = 0

(* lock and cond are destroyed when the count of workers was read as zero. *)
LiveWorkersRead ==
    /\ dpc = "prim"
    /\ dpc' = IF NoWorkerLeft THEN "unmake" ELSE "down"
    /\ UNCHANGED <<destroyOnly, queue, flagVars, waitset, liveVars, cst>>

DestroyPrimitives ==
    /\ dpc = "unmake"
    /\ primitives' = FALSE
    /\ dpc' = "down"
    /\ UNCHANGED <<destroyOnly, queue, running, stopping, draining, waitset, liveVars, cst>>

-------------------------------------------------------------------------------
WorkerMove(w) ==
    \/ WorkerLoop(w) \/ WorkerWake(w) \/ WorkerTimedOut(w) \/ BusyEnter(w) \/ Register(w)
    \/ IdleStore(w) \/ IdleCheck(w) \/ Unlink(w) \/ LiveDec(w) \/ DrainAsked(w) \/ WakeDrain(w)
    \/ BusyLeave(w) \/ WorkerExit(w)

DestroyMove ==
    \/ DestroyBegin \/ DestroyNoRun \/ DestroyBroadcast \/ DropQueue \/ DrainBegin
    \/ DrainKickIdle \/ DrainCheck \/ DrainTimeout \/ DrainForce \/ DrainPoll \/ ReapDone
    \/ LiveWorkersRead \/ DestroyPrimitives

(* A handler is done with its own work, or gets an answer from its socket. *)
SocketReturns(w) == PeekReturns(w) \/ H2cEnds(w) \/ ReadReturns(w) \/ PeerReturns(w)

SubmitMove(c) == SubmitRefuse(c) \/ SubmitQueue(c)

Next ==
    \/ PoolInit \/ PoolSpawn \/ RequestShutdown \/ DestroyMove
    \/ \E c \in Conns : Accept(c) \/ CompleteDeferred(c) \/ Rearm(c) \/ SubmitMove(c)
    \/ \E w \in Workers :
          \/ WorkerMove(w) \/ SocketReturns(w)
          \/ IdleTimeout(w) \/ AwaitPeer(w) \/ HandlerReturns(w)

Spec == Init /\ [][Next]_vars

(* Threads are scheduled, timed waits end, and route code returns.  Peers   *)
(* need not send anything or leave: a handler that waits for its peer comes *)
(* back for certain only when its socket was shut down, a wait for bytes    *)
(* after SHUT_RD, any wait after SHUT_RDWR.                                 *)
FairSpec ==
    /\ Spec
    /\ WF_vars(DestroyMove)
    /\ \A w \in Workers :
          /\ WF_vars(WorkerMove(w))
          /\ WF_vars(HandlerReturns(w))
          /\ WF_vars((ReadReturns(w) \/ PeekReturns(w)) /\ shut[wconn[w]] # "none")
          /\ WF_vars(SocketReturns(w) /\ shut[wconn[w]] = "rdwr")

-------------------------------------------------------------------------------
(* lock and cond are gone only when no worker thread can touch them again:  *)
(* workers are detached, some may outlive the destroy and even a new init.  *)
(* The one exception is a completion that re-arms its connection after      *)
(* destroy looked at live_workers: cwist_http_pool_rearm_current does not   *)
(* ask whether the pool still stands, and may create a worker on it.        *)
PrimitivesOutliveWorkers ==
    late \/ primitives \/ \A w \in Workers : wpc[w] = "gone"

(* A burst does not strand connections behind busy keep-alive handlers:     *)
(* below the worker cap, every queued connection has a worker of its own    *)
(* that is on its way to the queue, unless a worker could not be created.   *)
NotStranded ==
    running /\ faults = 0 =>
        \/ Len(queue) <= Cardinality(Heading)
        \/ active >= MaxWorkers

KickPassed == dpc \in {"check", "dwait", "force", "check2", "dwait2", "reap", "prim", "unmake"}

(* Publishing idle before testing stopping closes the window of the kick:   *)
(* once shutdown has passed it, no registered handler waits between         *)
(* idle_enter and idle_leave on a socket that was not shut down.  (The      *)
(* preface peek of an HTTP/2 application and the waits inside a request are *)
(* not between them.)                                                       *)
NoIdleReaderMissed ==
    KickPassed => \A w \in registry : wpc[w] = "read" => shut[wconn[w]] # "none"

(* g_live_count counts the served connections exactly, so the drain neither *)
(* stops early nor waits for nobody; every variable keeps its type.         *)
LiveCountExact ==
    /\ TypeOK
    /\ live_count = Cardinality(registry) + Cardinality({w \in Workers : wpc[w] = "unlinked"})

(* The last handler's wakeup is not lost: a destroyer that sleeps while     *)
(* nothing is served any more is about to be woken, it does not sit out the *)
(* drain timeout.                                                           *)
DrainerWoken ==
    dpc \in {"dwait", "dwait2"} /\ live_count = 0 =>
        \E w \in Workers : wpc[w] \in {"dec", "wakedrain"}

(* With HTTP/2 off, shutdown finishes whatever the peers do: idle readers   *)
(* are shut down at once, a handler held up by its peer when the drain      *)
(* timeout forces its socket, and none begins a wait that nothing ends.     *)
DestroyReturns == dpc = "norun" ~> dpc = "down"

(* A connection queued on a serving pool is taken by a worker or closed,    *)
(* unless every worker the cap allows stays with a silent peer.             *)
QueuedTaken ==
    \A c \in Conns :
        (cst[c] = "queued" /\ dpc = "up") ~>
            (cst[c] # "queued" \/ Cardinality(Handling) >= MaxWorkers)

(* "No handler may still be serving a connection once this returns." *)
NoHandlerAfterDestroy == dpc = "down" => Handling = {}

===============================================================================
