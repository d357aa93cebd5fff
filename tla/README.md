# TLA+ models of CWIST

CWIST is a C17 web framework and application server. This directory holds TLA+
modules translated from its source, TLC configurations that check them on small
instances, and TLAPS proofs for every size of an instance. `PROJECT.json` lists
the runs, the source lines behind every definition, the hazards and the theorems.

    tlc -workers 2 -config HttpPool.cfg MCHttpPool # one run
    tlapm DbPoolProofs.tla                         # the proofs of one module

Paths below are relative to `src/src/` unless they say otherwise.

## 1. Inventory

What a component keeps, what changes it, what makes it hard, and what it must
get right. "modelled" names the module; the other components are in the plan
(section 4) or excluded (section 7).

| Component (source) | State | Operations | What is hard | Must hold | Where |
|---|---|---|---|---|---|
| Database pool (`core/db/pool.c`) | stack of idle slots, leased flags, count, closing flag, one condition variable | acquire, timed acquire, release, destroy, timed destroy | acquirers, timed acquirers and the destroyer sleep on one condition; release signals once | a connection has one holder; no signal is lost; nothing is closed while leased | DbPool |
| Classic worker pool (`net/http/http.c` 349-900) | task queue, idle/active/live/busy/in-flight counters, registry of served connections | init, submit, worker loop, idle retirement, destroy with drain | detached workers outlive destroy and a later init; counters lag behind threads; the kick races a handler entering its idle read | no task stranded; drain neither misses nor waits for nobody; lock outlives its users | HttpPool |
| Deferred responses (`net/http/async.c`, `async_tls.c`, parts of `http.c`, `http2.c`, `sys/app/app.c`) | reference-counted handle, claim, hand-off, post node, reactor generation, completion queue | defer, respond, respond_with, abort, timeout, acknowledge, drain, server stop | several threads answer; handler may not have returned; reactor or HTTP/2 connection may be gone | one verdict, one settlement, no use after free, always answered with a timer | AsyncResponse |
| I/O job queue (`sys/io/io_queue.c`) | lock-free list, staging lists, pending counter, sleep condition, stop flag | submit, run, stop, destroy | reclamation; counter not atomic with the list; only the first submit of a burst signals | FIFO, no read after free, exact count, no lost wake-up | MSQueue, JobFifo, IoQueue |
| Job scheduler (`sys/job/scheduler.c`) | delay heap, timer thread, live flag, the queue | submit, schedule, cancel, timer loop, destroy | timer submits while workers are joined; sleeping to a stale deadline | no early run, one fate per job, destroy returns | Scheduler, DelayHeap |
| Durable jobs (`sys/job/durable_queue.c`) | Redis stream, pending list, attempts hash, delay set, dead list; or JetStream consumer state | enqueue, claim, ack, nack, abandon | several commands per call, each may fail or lose its reply; crashes; late workers | a job is kept until acknowledged or dead-lettered; retries bounded | DurableRedis, DurableNats, DurableQueue, JobStore |
| Log writer (`sys/app/log_async.c`) | a byte ring per stream, writer thread, flags | submit, flush, start, stop, fork | writes happen with the lock released; wrap-around; fork with bytes queued | whole lines in order, nothing lost or doubled, no call stuck | LogAsync |
| Reactor (`sys/io/reactor.c`, `uring_sqpoll.c`, `io_select.c`, `kqueue.c`) | descriptor slots, post stack, wake descriptor, timer heap, deferred submissions | add, mod, del, post, timers, run, stop | edge of empty post stack, re-arm failures, callbacks that delete themselves | no post lost, no event for a deleted registration | planned |
| Async connection (`net/http/http.c` 993-1531, 3083-3560, `async_server.c`) | receive buffer, idle stash, parked write, armed flags, reactor counts | accept, receive, dispatch, park, re-arm, close, idle sweep | one owner at a time across reactor, handler and deferred answer; failure paths that free | closed once, never touched after, inflight exact | planned |
| Application and shutdown (`sys/app/app.c`, `shutdown.c`, `net/http/mux.c`, `sys/health/healthz.c`) | routes, middleware chains, server handles, signal state | listen, dispatch, stop | stop during serving, second signal, drain poll | ordered teardown, handlers not run after destroy | planned |
| HTTP/2, HTTP/3, flow control (`net/http/http2.c`, `http2_flow_control.c`, `http3.c`, `net/quic_flow_control.c`) | streams, windows, settings | frames in, data out, window updates | windows below zero, resets racing answers, width of counters | no window overrun, no stalled stream | planned |
| gRPC (`net/grpc/*`) | subchannels, throttle, method configs, call states | call start, retry, finish, connect, configure | deadline arithmetic, configuration replaced under calls | attempts bounded, throttle in range | planned |
| Redis client (`net/redis/cwist_redis.c`) | pooled connections, unclean flags | acquire, command with deadline, release, reconnect | a reply left over from a timed-out command | a caller never gets another's reply | planned |
| WebSocket, GraphQL subscriptions (`net/websocket/*`, `net/graphql/*`) | frame assembly, send queue, subscriptions | frame in, send, close, subscribe | close from both ends, sends from other threads | one close frame, nothing after it | planned |
| Memory (`core/mem/*`) | pointer registry, per-thread scopes, connection registry | track, untrack, disown, flush, rotate, fork | ownership crossing threads with a deferred answer | freed exactly once | planned |
| Learned replies (`sys/app/big_dumb_reply.c`) | hash table of entries and epoch-reclaimed blobs | get, pin, put, decay, trim | readers pin blobs that are being replaced | no pinned blob freed, byte count exact | planned |
| Nuke DB, migrations (`core/db/nuke_db.c`, `migrate.c`) | memory copy, dirty flag, sync thread | commit hook, sync, switch to disk, close | commit during backup | a committed change reaches the disk | planned |
| TLS listeners (`net/http/https.c`) | current context, its references | accept, reload | handshake on a context being swapped | context freed after its last user | planned |
| WebRTC (`net/webrtc/*`) | connection and channel states | ICE, DTLS and SCTP events, send | set-up steps in any order | no data before the channel opened | planned |
| Bare-metal port (`sys/port/lwip.c`) | static connection slots | accept, receive, sent, error, poll callbacks | error callback after the control block is gone | slots neither leaked nor reused early | planned |
| Sequences (`core/seq/*`), sessions (`net/http/session.c`, `sys/session/*`), rate limit (`sys/app/middleware.c`, `rate_limit_redis.c`), tracing (`otel.c`) | assembler, replay caches; cookie, shared payload; windows; span queue | feed, verify; get, set, commit; count; enqueue, export | limits reached, window edges, fork | bounds kept, payload freed once | planned |

**Interactions.** The accept loop hands connections to the classic pool, or to a
reactor in C1M mode. Handlers run there; a handler that defers gives its
connection to a handle that a scheduler job, another thread or a timeout
completes, and the completion goes back through the reactor's post stack, the
calling thread or an HTTP/2 completion queue. The scheduler runs its jobs on an
I/O queue. Durable workers are programs of their own around Redis or NATS.
Everything logs through the writer. Stopping a server destroys the pool, which
must wait for handlers, posters and workers in that order.

## 2. Modules

A critical section (from taking a mutex to releasing it or to sleeping on its
condition variable) is one step, since nothing else can run inside it; every
atomic access outside one is a step of its own. A condition variable is a set of
sleepers; a thread out of the set that has not yet retaken the mutex is *woken*.
Pointers to freed memory are tracked by a `stale` variable or by the freed
object's absence. Failures of system calls are nondeterministic and bounded.

**DbPool** (`core/db/pool.c`). `idle_slots`, `leased`, `in_use`, `closing` are the
fields of the pool, `waitset` its condition variable. Acquire takes the top slot,
sleeps or, with a deadline, expires; Release returns a slot and signals; the
destroyer closes, broadcasts, waits for the count to reach zero (or times out and
may call again), tears down. Callers may release a connection a second time;
`twice` remembers that some caller did.

**HttpPool** (`net/http/http.c`). `queue`, `pending`, `active`, `idle`, `live`,
`busy`, `inflight` are the pool's counters exactly as the code changes them,
`registry`, `live_count`, `conn_idle` the live-connection registry. Submission
counts the connection, may refuse it (limit, memory), queues it, spawns, signals;
completions of deferred responses submit too, at any time. Workers go through the
pop, busy count, registration, handler and unregistration. A handler waits for its
peer in three places: the preface peek of an HTTP/2 application, the idle read
between requests, and inside a request; only the second is marked idle. The
destroyer goes through stopping flag, running flag, broadcast, queue drop, drain
(kick idle sockets, wait, force, wait), reap, a look at `live_workers` and the
release of the primitives. `late` remembers that a completion submitted after that
look. An init may fail to create its workers. The pool may be initialised a second
time with workers of the first still running.

**AsyncResponse** (`net/http/async.c`, `async_tls.c`; the pieces of `http.c`,
`http2.c` and `app.c` that complete an exchange). One exchange, chosen server mode
(`reactor`, `classic`, `https`, `h2`). Exchanges share only two counters of the
generation protocol, so one suffices. Threads: dispatch, producers, the timeout
job, the destroyer. A completion claims, publishes, delivers, releases; dispatch
acknowledges after the handler returned. The server may stop at any step, in the
handler and while dispatch unwinds as well (`overtaken`: before dispatch returned).
Touching a freed object adds it to `stale`. `ReturnReads` is what the server path
still reads when the handler has returned: the connection in reactor mode, nothing
after a deferred TLS exchange.

**JobFifo, MSQueue, IoQueue** (`sys/io/io_queue.c`). JobFifo is the abstract queue
with atomic push and pop. MSQueue is the code's list, one step per shared access,
nodes reclaimed through the two staging lists and libttak's epochs (external: a
retired node is freed once everyone inside a critical section at that time has
left). It implements JobFifo: `Items` is the chain behind the sentinel, `Got` the
pop results. IoQueue builds the pending count, sleeping and stopping on JobFifo.

**Scheduler, DelayHeap** (`sys/job/scheduler.c`). Scheduler extends IoQueue with
the delay heap (as a set, of which the code only looks at the minimum), the timer
thread, cancellation and destruction. DelayHeap is the array with its sifting.

**JobStore, DurableRedis, DurableNats, DurableQueue** (`sys/job/durable_queue.c`).
JobStore is what the header promises: a job goes from absent to queued to acked or
dead. DurableRedis has one step per Redis command, each of which may fail before or
after it took effect. A script is one step too, but Redis rolls nothing back: one
of its commands may fail with those before it done (`torn` has the jobs it left
half moved). DurableNats has one step per JetStream call; `spoilt` has the jobs
whose last delivery a failure ended before the dead-letter publish. DurableQueue is
a queue created on either backend.

**LogAsync** (`sys/app/log_async.c`, `logger.c`). Rings of bytes, a byte being a
line and a position in it; callers, writer, control threads and fork handlers. A
refused line goes to the stream's stdio buffer (`stdio`), of which any first part
may be passed on at any call, the rest at `exit`; a fork copies it (`inherited`). A
start that comes while another thread's stop joins the writer sets `overlapped`,
and behaviours are followed up to there.

## 3. Runs

Every run that passes explores its whole state space. Deadlock is not checked
where a program may really end (pool destroyed, every job settled, every line logged); `structures` never ends and checks it.

| Run | Module, configuration | What it shows |
|---|---|---|
| `exchanges` | MCExchanges, `Exchanges.cfg` | DbPool: three callers and a destroyer on two connections. `SlotAccounting`: stack, flags and count agree and no slot is listed twice. `LeaseExclusive`: as long as nobody releases twice, a connection has one holder. `TeardownUnleased`: destroy closes nothing that is held. `NoLostWakeup`: while a caller sleeps, each idle connection has a woken caller on its way, whatever barges in or expires. `DestroyCompletes`. AsyncResponse: two producers and the timer on all four server modes, the server stopping at any step. `SettledOnce`, `NothingLeaked`. `NoStaleTouch`: nothing freed is touched unless the stop overtook dispatch, and then only connection, reactor or, after a failed flush, handle. `PostsLandBeforeFree`: of the posts that saw the old generation. `Answered`. |
| `http_pool` | MCHttpPool, `HttpPool.cfg` | Two connections, two workers, two generations, HTTP/2 on, every timeout, one failing `pthread_create`, allocation or `dup`. `PrimitivesOutliveWorkers` (but for a `late` submission), `NotStranded`, `NoIdleReaderMissed`, `LiveCountExact`, `DrainerWoken`: the drain does not sleep on when the last handler has left. |
| `http_pool_live` | MCHttpPool, `HttpPoolLive.cfg` | HTTP/2 off, peers that may stay silent for ever. Destroy returns, by its drain timeout and the forced shutdown of the sockets if need be; every queued connection is taken unless silent peers hold every worker. |
| `http_pool_handler_left` | MCHttpPool, `HttpPoolHandlerLeft.cfg` | *Violated*: see finding 1. |
| `async_post_into_freed` | MCAsyncResponse, `AsyncPostIntoFreed.cfg` | *Violated*: see finding 3. |
| `structures` | MCStructures, `Structures.cfg` | MSQueue: two producers and a consumer with two jobs, or a producer and two consumers, on three nodes that are reused. `NoReadAfterFree`, `TailInList`, and `ListIsFifo`: the list implements JobFifo. DelayHeap: all heaps of up to six jobs and four deadlines, all push, pop and cancel sequences. `HeapIsQueue`. |
| `scheduler` | MCScheduler, `Scheduler.cfg` | A caller, the timer, two workers, three jobs, two delays. `PendingExact` through the counter's wrap, `NoLostWakeup`, `TimerNotOversleeping`, `OneFate`, `FreedWhenQuiet`. |
| `scheduler_live` | MCScheduler, `SchedulerLive.cfg` | Accepted jobs run, delayed jobs run when due, destroy returns. |
| `scheduler_drain` | MCScheduler, `SchedulerDrain.cfg` | *Violated*: see finding 2. |
| `durable_queue` | MCDurableQueue, `DurableQueue.cfg` | Both backends, one failed call, crash or script cut short at any point. `KeepsJobs`: the Redis store implements JobStore, but for jobs in `torn`. `OneCopy`, `RetriesBounded`. `Settles`: every job but those in `torn` or `spoilt` is acknowledged or dead-lettered in the end, failures included. |
| `durable_nack` | MCDurableQueue, `DurableNack.cfg` | *Violated*: see finding 4. |
| `log_async` | MCLogAsync, `LogAsync.cfg` | Two callers under four programs of control calls and failures, one with two control threads. `InOrder`, `FlushWritten`, `NothingDropped`, `CallsReturn` (of callers, flushes and stops), `Delivered`. |

Two runs check two modules that share nothing: a variable `part`, chosen at the
start, says which one a behaviour is about, and the other stands still.

**Bounds.** `max_conns` = 2 with three callers makes one caller wait while two
hold, and lets a barging caller compete with a woken one. Two workers with base
size one let a worker retire, be spawned again, and outlive a destroy. Three nodes
are a sentinel, a node in use and one reclaimed under a preempted reader. `Width`
= 8 stands for `SIZE_MAX + 1`: IoQueueConstants asks only that it exceed what can
be listed and in hand, so that a wrapped count is told from a true one. `MaxTime`
lets both delays fall due. `HeapInit` = 2 makes the buffer grow twice; six entries
reach the third level of the heap. `MaxId` = 6 stream entries cover two jobs
requeued up to `MaxRetries` = 2. `MaxFaults` = 1 puts one failure at every point
(scripts are cut short in the load of one worker and two jobs); rings
of two bytes make lines wrap, rings of one byte refuse a line of two, and a restart
from two bytes to one finds a caller waiting for more than there is. `calls` = 3
control calls cover stop, start, stop, and stop, start, flush.

**Fairness.** Weak fairness of steps a thread takes inside the framework: the
operating system schedules runnable threads and mutexes are not held across waits.
Handlers and job callbacks are assumed to return, which the framework cannot
ensure, and time to pass. A handler waiting for its peer returns for certain only
once its socket was shut down: a read after `SHUT_RD`, any wait after `SHUT_RDWR`.
No fairness is assumed of callers who need not call, producers who need not answer,
peers who need not send or leave, or of anyone to stop a server.
For the durable queue workers keep claiming and settle what they hold. For the
database pool leases come back.

### Findings

1. `http_pool_handler_left`: `net/http/http.c:857` says "No handler may still be
   serving a connection once this returns: the caller destroys the app next." A
   worker that has popped a task and not yet reached `http_live_serve` is not in
   `g_live_count`, so the drain returns at once; once it is counted busy the reap
   loop does not wait for it either, and its handler runs afterwards.
2. `scheduler_drain`: `include/cwist/sys/job/scheduler.h:35` says "Pending
   immediate jobs are drained before shutdown." A node is linked before
   `pending_jobs` is incremented. A worker that pops the timer's job first takes
   the count below zero, the caller's job then brings it to zero, and workers that
   see the stop flag with a zero count leave; the accepted job is freed unrun.
3. `async_post_into_freed`: `net/http/http.c:254` says a deferred completion that
   still holds a reactor from an earlier generation "closes its connection instead
   of posting into freed memory." `net/http/async.c:125` records the generation
   that is current when the handler defers. A handler that defers after
   `cwist_http_pool_destroy` bumped it holds the new generation with the old
   reactor; its completion passes the check and posts to the reactor once freed.
4. `durable_nack`: `sys/job/durable_queue.c:46` says of the nack script "Atomically
   schedules a nacked job". The script runs XACK and HDEL before RPUSH or ZADD, and
   Redis does not roll a script back: when the later command fails (its key holds
   another type) the job is acknowledged and neither delayed nor dead-lettered.

### Where the code and its comments differ otherwise

Met while modelling. The last column says how the model and its properties take it
into account.

| Code | Says | What happens | In the model |
|---|---|---|---|
| `core/db/pool.c:193` | `:187` "Invalid or already-released connections are ignored." | a second release is accepted when the slot has been leased again meanwhile, and takes it from its new holder | allowed; `twice` conditions `LeaseExclusive` and `TeardownUnleased` |
| `core/db/pool.c:240` | `:221` "Thread-safe." | a caller woken by destroy's broadcast retakes a destroyed mutex | such a caller stops (guard `~freed`) |
| `net/http/http.c:851` | `sys/app/app.c:4968` "exit as soon as no connection remains" | dropped tasks keep their count in `g_http_inflight`, so the poll lasts its full timeout | as in the code; no property on `inflight` |
| `net/http/http.c:826` | `:861` "lock/cond may only be destroyed once every worker has returned" | a late answer re-arms into a pool being destroyed or gone, and may create a worker on a destroyed lock | as in the code; `late` excepts it from `PrimitivesOutliveWorkers` |
| `sys/app/app.c:3521` | `net/http/http_live.h:7` "so shutdown can close idle connections at once" | the preface peek, run on a re-armed connection too, is not marked idle: the kick passes it by, and a handler that begins its peek after the forced shutdown is waited for until its peer acts | as in the code; `NoIdleReaderMissed` is about the marked wait, `DestroyReturns` about HTTP/2 off |
| `net/http/http.c:1145` | `:1125` "the completion path owns fd and conn now" | dispatch writes to the connection after a completion outside the reactor's thread, on a stopping server, may have freed it | as in the code; `overtaken` excepts it from `NoStaleTouch` |
| `sys/app/app.c:3189` | `include/cwist/net/http/async.h:137` "Call exactly once; do not touch the exchange after this release-publication." | a failed flush aborts the exchange after acknowledging it, without a reference | as in the code (`broken`); harmless while every producer holds a reference (`Retained`) and no stop overtakes dispatch |
| `net/http/http.c:3544` | `:1360` "Never enqueue new work into that final snapshot or the connection is orphaned" | a response that does not fit the socket buffer parks on the reactor being drained | it stays "parked"; no property asks more of a parked connection after the stop |
| `sys/io/io_queue.c:157` | `include/cwist/sys/job/scheduler.h:41` "as soon as a worker is available" | a burst wakes one worker; the others sleep on | `AcceptedRuns` asks that jobs run, not how soon |
| `sys/job/durable_queue.c:56` | `include/cwist/sys/job/durable_queue.h:7` "Jobs survive process restarts" | two equal jobs nacked at the same attempt are one member of the delay set | jobs differ |
| `sys/job/durable_queue.c:372` | `durable_queue.h:134` jobs in the dead-letter store | a lost reply or a crash after RPUSH parks the job again | a job may be dead more than once |
| `sys/job/durable_queue.c:49`, `:532` | `durable_queue.h:131`, `:55` | a late or failed settlement restarts the count of deliveries | `RetriesBounded` on Redis needs no failure and no overtaking |
| `sys/job/durable_queue.c:851` | `durable_queue.h:17` "Exhausted messages are terminated and republished" | the result of the last republication is ignored, and JetStream delivers no more | as in the code; `spoilt` excepts such a job from `Settles` |
| `sys/job/durable_queue.c:69` | `:59` "Moves due delayed blobs back onto the stream." | a script that fails after XADD leaves the blob in the delay set, and the job is queued twice | as in the code; `torn` excepts such a job from `OneCopy`, `KeepsJobs` and `Settles` |
| `sys/job/durable_queue.c:737` | `durable_queue.h:49` a worker's name is an identity within the group | each name is a durable consumer of its own that is offered every job | all NATS workers share one name |
| `sys/app/log_async.c:267` | `include/cwist/sys/app/logger.h:90` "Lines stay whole and in order per stream" | an oversized line overtakes queued ones; so do lines logged while a stop still writes | no line is larger than a ring; `InOrder` needs no stop |
| `sys/app/log_async.c:223` | `logger.h:108` "Block until every line queued so far has been written." | a flush returns when a stop begins | `FlushWritten` needs no stop |
| `sys/app/log_async.c:275` | `:12` larger lines are refused | a caller waiting while the writer is restarted with a smaller ring is checked against the old size, and waits for ever | as in the code; `Outgrown` excepts it from `CallsReturn` |
| `sys/app/log_async.c:206` | `include/cwist/sys/app/logger.h:113` "Write out queued lines, stop the writer" | a start by another thread during a stop's join finds the writer alive, takes back its stop flag and resets its rings; the join may never end | followed up to there; `overlapped` excepts it |
| `sys/app/logger.c:119` | `logger.h:90` "nothing is dropped" | a line refused by the writer stays in a stdio buffer, which a fork copies: both processes write it | as in the code; `NothingDropped` counts the buffer, and lets a child write what it inherited |

Further assumptions: `exit` is called when no thread is inside a call of the log
writer, and a synchronous write to a stream does not fail.

## 4. Plan

Done: the components where threads meet and whose failure loses work or frees
memory in use (sections 2, 3), and the first proofs (section 5). Next, in order:

1. **Reactor** and **AsyncConn**, composed with AsyncResponse: post stack and wake
   descriptor, one owner of a connection at a time, parked writes, stop. One run
   for the reactor against an abstract event loop, one for the connection.
2. **FlowControl**: windows of HTTP/2 and QUIC with integer widths; safety proved.
   **Http2Streams** on top of it.
3. **GrpcChannel** with throttling and retries; **RedisPool** with deadlines.
4. **AppServer**: start, dispatch, stop, signals; routing as operators.
5. **WebSocketConn**, **GraphqlWs**, **Http3Streams**, **WebRtc**, **Lwip**: connection life
   cycles; they share the shape "one owner, closed once", to be stated once.
6. **GcRegistry**, **ReplyCache**, **NukeDb**, **TlsReload**, **OtelQueue**, **Assembler**,
   **Session**, **RateLimit**.
7. Pure algorithms (heap, parser framing, varints, bracket balancing) in one run
   against reference definitions, beside `structures`.

Proofs to follow: HttpPool's `LiveCountExact` and `PrimitivesOutliveWorkers`;
AsyncResponse's `SettledOnce` and its references; that MSQueue implements JobFifo.

## 5. Proofs

`DbPoolProofs` proves about DbPool, for any finite set of callers and any positive
number of connections (`PoolAssumption`, nothing else):

- `PoolAccounting`: `Spec => []SlotAccounting`, with the types.
- `PoolExclusive`: `Spec => []LeaseExclusive`, and `TeardownUnleased`.
- `PoolNoLostWakeup`: `Spec => []NoLostWakeup`.

`SlotAccounting` is not inductive: whether a step keeps the count right depends on
who may take it. `PoolInv` adds that sleepers are in the waiting state, that a
holder has a slot of the pool, and that the destroyer closes the pool before it
waits and tears down only at count zero. Exclusive leases follow by adding
`LeaseExclusive` itself: acquire hands out a slot from the stack, which accounting
says nobody has leased, and release without `twice` returns the holder's own. No
lost wake-up is proved by counting: a release adds one idle slot and, by its
signal, one woken caller if any sleeps; an acquire that barges in takes a slot
away; a woken caller that leaves takes a slot or found none. The lemmas are about
stacks (pop, push) and about finite sets that gain or lose one element.

`IoQueueProofs` proves `QueueCorrect` about IoQueue for any finite sets of
submitters, workers and jobs, and a counter wider than jobs and workers together
(`IoQueueConstants`): `JobOnce`, `PendingExact` and `NoLostWakeup` always hold. The
inductive invariant `QueueInv` has three parts. Where a job is: with a submitter
about to link it, listed, in a worker's hands or done, one of these only
(`OnePlace`, `HandsFull`). The count: `PendingExact` itself, kept by the lemmas on
remainders (`ModStep`) and on one thread changing its step (`AtMoves`). The signal:
when all workers sleep and the count is not zero, some submitter is at its signal
(`SignalComing`). `NoLostWakeup` follows: with nobody between list and count the
counter shows the list's length, since a list without repetition is shorter than
the counter is wide (`ListFits`), so a list that is not empty has its signal coming.

`SchedulerProofs` builds on it for the whole scheduler, with any delays
(`SchedulerConstants`): `SchedulerWakes` (`PendingExact`, `NoLostWakeup`),
`TimerInTime` (`TimerNotOversleeping`), `JobsHaveOneFate` (`OneFate`) and
`DestroyLeavesNothing` (`FreedWhenQuiet`). `SchedInv` adds to `QueueInv` the places
outside the queue (heap, the timer's hands, cancelled, dropped), disjoint and
together all submitted jobs; that what left the heap was due; and what timer and
destroyer have done by each step. Steps inside the queue move no job between these
places (`QueueMoves`), steps beside it leave the queue's invariant alone
(`BesideKeeps`). Both invariants were checked with TLC on small instances first.

## 6. Only model-checked

Everything else. Liveness and anything about ENABLED is beyond the prover, as is
what a recursive definition computes for every input (DelayHeap's sifting) and the
refinements whose mapping walks a list (`ListIsFifo`).

## 7. Not modelled

Cryptography (`security/`, SipHash), text assembly (strings, templates, HTML, CSS,
JSON building), generated documentation, configuration read once and the test
client: sequential computations with no protocol between operations, covered by
unit tests. SQLite, libttak, lsquic, usrsctp, BoringSSL, Redis and JetStream are
external and appear through how the code uses them. `PROJECT.json` gives the
reason for each component.
