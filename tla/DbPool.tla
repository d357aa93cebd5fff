-------------------------------- MODULE DbPool --------------------------------
(***************************************************************************)
(* The SQLite connection pool of src/core/db/pool.c.                       *)
(*                                                                         *)
(* A pool owns one mutex and one condition variable.  Callers sleep on the *)
(* condition variable until a connection is idle, the destroying thread    *)
(* sleeps on the same one until no connection is leased.  Everything       *)
(* between taking the mutex and releasing it (or sleeping) is one atomic   *)
(* step; a thread that left the wait set but has not retaken the mutex is  *)
(* still "waiting" and is called woken.                                    *)
(***************************************************************************)
EXTENDS Naturals, Sequences, FiniteSets

CONSTANTS
    Threads,        \* callers of acquire / release
    Destroyer,      \* the thread that calls cwist_db_pool_destroy_timeout
    max_conns       \* connections of the pool

ASSUME PoolAssumption ==
    /\ max_conns \in Nat \ {0}
    /\ IsFiniteSet(Threads)
    /\ Destroyer \notin Threads

Slots == 1..max_conns   \* indices of pool->conns
NoConn == 0             \* the NULL connection
Procs == Threads \cup {Destroyer}

VARIABLES
    idle_slots,   \* stack of idle connections, top at the end
    leased,       \* leased[s]: connection s is out
    in_use,       \* number of leased connections
    closing,      \* destroy has begun, no new lease is given
    freed,        \* the connections, the condition variable and the pool are gone
    waitset,      \* processes asleep on pool->cond
    pc,           \* where each process is
    timed,        \* it sleeps with a deadline
    conn,         \* the connection a caller holds
    last,         \* the connection a caller released last
    twice         \* some caller released a connection a second time

poolVars == <<idle_slots, leased, in_use, closing, freed>>
vars == <<idle_slots, leased, in_use, closing, freed, waitset, pc, timed, conn, last, twice>>

TypeOK ==
    /\ idle_slots \in Seq(Slots)
    /\ leased \in [Slots -> BOOLEAN]
    /\ in_use \in Nat
    /\ closing \in BOOLEAN
    /\ freed \in BOOLEAN
    /\ waitset \subseteq Procs
    /\ pc \in [Procs -> {"idle", "waiting", "expired", "holding", "teardown", "done"}]
    /\ timed \in [Procs -> BOOLEAN]
    /\ conn \in [Threads -> Slots \cup {NoConn}]
    /\ last \in [Threads -> Slots \cup {NoConn}]
    /\ twice \in BOOLEAN

LeasedSlots == {s \in Slots : leased[s]}
Holders == {t \in Threads : pc[t] = "holding"}
Woken == {t \in Threads : pc[t] = "waiting" /\ t \notin waitset}
Sleepers == Threads \cap waitset

(* cwist_db_pool_create: every connection opened and idle.  A failed create *)
(* returns no pool, so there is nothing to model after it.                  *)
Init ==
    /\ idle_slots = [i \in Slots |-> i]
    /\ leased = [s \in Slots |-> FALSE]
    /\ in_use = 0
    /\ closing = FALSE
    /\ freed = FALSE
    /\ waitset = {}
    /\ pc = [p \in Procs |-> "idle"]
    /\ timed = [p \in Procs |-> FALSE]
    /\ conn = [t \in Threads |-> NoConn]
    /\ last = [t \in Threads |-> NoConn]
    /\ twice = FALSE

SignalForgotten == waitset' = waitset

(* pthread_cond_signal: one sleeping process, whichever it is, leaves the wait set. *)
Signal == \/ waitset = {} /\ waitset' = waitset
          \/ \E p \in waitset : waitset' = waitset \ {p}

PeekIdle == idle_slots
CountForgotten == in_use

(* The stack and the counter after a lease. *)
PopIdle == SubSeq(idle_slots, 1, Len(idle_slots) - 1)
CountLease == in_use + 1

(* pool_acquire_locked, run by t: NULL when closing or nothing is idle, else *)
(* the slot on top of the stack.                                             *)
AcquireLocked(t) ==
    IF closing \/ idle_slots = <<>>
    THEN /\ pc' = [pc EXCEPT ![t] = "idle"]
         /\ UNCHANGED <<idle_slots, leased, in_use, conn>>
    ELSE LET slot == idle_slots[Len(idle_slots)] IN
         /\ idle_slots' = PopIdle
         /\ leased' = [leased EXCEPT ![slot] = TRUE]
         /\ in_use' = CountLease
         /\ conn' = [conn EXCEPT ![t] = slot]
         /\ pc' = [pc EXCEPT ![t] = "holding"]

MustWait == ~closing /\ idle_slots = <<>>

(* The waiting loop of both acquire functions, entered with the mutex held. *)
AcquireLoop(t) ==
    \/ /\ MustWait
       /\ pc' = [pc EXCEPT ![t] = "waiting"]
       /\ waitset' = waitset \cup {t}
       /\ UNCHANGED <<idle_slots, leased, in_use, conn>>
    \/ /\ ~MustWait
       /\ AcquireLocked(t)
       /\ UNCHANGED waitset

(* cwist_db_pool_acquire (tm = FALSE) and _acquire_timeout (tm = TRUE).  A  *)
(* caller does not start a call on a pool whose destroy has returned or is  *)
(* past its last wait.                                                      *)
Acquire(t, tm) ==
    /\ pc[t] = "idle"
    /\ pc[Destroyer] \notin {"teardown", "done"}
    /\ timed' = [timed EXCEPT ![t] = tm /\ MustWait]
    /\ AcquireLoop(t)
    /\ UNCHANGED <<closing, freed, last, twice>>

(* A woken caller retakes the mutex and evaluates the loop condition again. *)
AcquireWake(t) ==
    /\ ~freed
    /\ pc[t] = "waiting" /\ t \notin waitset
    /\ timed' = [timed EXCEPT ![t] = @ /\ MustWait]
    /\ AcquireLoop(t)
    /\ UNCHANGED <<closing, freed, last, twice>>

(* A caller whose timedwait failed leaves the loop and tries once more. *)
AcquireExpired(t) ==
    /\ ~freed
    /\ pc[t] = "expired"
    /\ timed' = [timed EXCEPT ![t] = FALSE]
    /\ AcquireLocked(t)
    /\ UNCHANGED <<closing, freed, waitset, last, twice>>

(* cwist_db_pool_release of connection s: a connection that is not leased is ignored. *)
ReleaseConn(s) ==
    IF leased[s] /\ Len(idle_slots) < max_conns
    THEN /\ leased' = [leased EXCEPT ![s] = FALSE]
         /\ idle_slots' = Append(idle_slots, s)
         /\ in_use' = in_use - 1
         /\ Signal
    ELSE UNCHANGED <<leased, idle_slots, in_use, waitset>>

Release(t) ==
    /\ pc[t] = "holding"
    /\ ~freed
    /\ ReleaseConn(conn[t])
    /\ pc' = [pc EXCEPT ![t] = "idle"]
    /\ conn' = [conn EXCEPT ![t] = NoConn]
    /\ last' = [last EXCEPT ![t] = conn[t]]
    /\ UNCHANGED <<closing, freed, timed, twice>>

(* A caller that kept the pointer passes it to release a second time. *)
ReleaseAgain(t) ==
    /\ pc[t] = "idle" /\ last[t] # NoConn
    /\ pc[Destroyer] \notin {"teardown", "done"}
    /\ ReleaseConn(last[t])
    /\ last' = [last EXCEPT ![t] = NoConn]
    /\ twice' = TRUE
    /\ UNCHANGED <<closing, freed, pc, timed, conn>>

WokenByNobody == waitset
LeasesOutOffByOne == in_use > 1

(* pthread_cond_broadcast empties the wait set. *)
Broadcast == {}
LeasesOut == in_use # 0

(* The waiting loop of cwist_db_pool_destroy_timeout. *)
DestroyLoop(sleepers) ==
    IF LeasesOut
    THEN /\ pc' = [pc EXCEPT ![Destroyer] = "waiting"]
         /\ waitset' = sleepers \cup {Destroyer}
    ELSE /\ pc' = [pc EXCEPT ![Destroyer] = "teardown"]
         /\ waitset' = sleepers

(* cwist_db_pool_destroy (tm = FALSE) and cwist_db_pool_destroy_timeout with  *)
(* a limit (tm = TRUE): close the pool to new leases, wake everybody, wait.   *)
Destroy(tm) ==
    /\ pc[Destroyer] = "idle"
    /\ closing' = TRUE
    /\ timed' = [timed EXCEPT ![Destroyer] = tm /\ LeasesOut]
    /\ DestroyLoop(Broadcast)
    /\ UNCHANGED <<idle_slots, leased, in_use, freed, conn, last, twice>>

DestroyWake ==
    /\ pc[Destroyer] = "waiting" /\ Destroyer \notin waitset
    /\ timed' = [timed EXCEPT ![Destroyer] = @ /\ LeasesOut]
    /\ DestroyLoop(waitset)
    /\ UNCHANGED <<poolVars, conn, last, twice>>

(* timedwait failed: give up with the pool left closing, unless the last    *)
(* lease came back meanwhile.                                               *)
DestroyExpired ==
    /\ pc[Destroyer] = "expired"
    /\ pc' = [pc EXCEPT ![Destroyer] = IF LeasesOut THEN "idle" ELSE "teardown"]
    /\ timed' = [timed EXCEPT ![Destroyer] = FALSE]
    /\ UNCHANGED <<poolVars, waitset, conn, last, twice>>

(* Past the mutex: close every connection, destroy cond and mutex, free. *)
Teardown ==
    /\ pc[Destroyer] = "teardown"
    /\ pc' = [pc EXCEPT ![Destroyer] = "done"]
    /\ freed' = TRUE
    /\ UNCHANGED <<idle_slots, leased, in_use, closing, waitset, timed, conn, last, twice>>

(* A deadline passes while p sleeps. *)
Expire(p) ==
    /\ p \in waitset /\ timed[p]
    /\ waitset' = waitset \ {p}
    /\ pc' = [pc EXCEPT ![p] = "expired"]
    /\ UNCHANGED <<poolVars, timed, conn, last, twice>>

(* POSIX lets a wait return without a signal. *)
SpuriousWakeup(p) ==
    /\ p \in waitset
    /\ waitset' = waitset \ {p}
    /\ UNCHANGED <<poolVars, pc, timed, conn, last, twice>>

AcquireSteps(t) == AcquireWake(t) \/ AcquireExpired(t)
DestroySteps == DestroyWake \/ DestroyExpired \/ Teardown

Next ==
    \/ \E t \in Threads :
          \/ \E tm \in BOOLEAN : Acquire(t, tm)
          \/ AcquireWake(t)
          \/ AcquireExpired(t)
          \/ Release(t)
          \/ ReleaseAgain(t)
    \/ \E tm \in BOOLEAN : Destroy(tm)
    \/ DestroyWake
    \/ DestroyExpired
    \/ Teardown
    \/ \E p \in Procs : Expire(p) \/ SpuriousWakeup(p)

Spec == Init /\ [][Next]_vars

(* The kernel schedules every runnable thread and a caller does not keep a  *)
(* connection forever; deadlines and spurious wakeups are not assumed.      *)
FairSpec ==
    /\ Spec
    /\ \A t \in Threads : WF_vars(AcquireSteps(t)) /\ WF_vars(Release(t))
    /\ WF_vars(DestroySteps)

-------------------------------------------------------------------------------
(* The stack, the flags and the counter agree: the idle slots are exactly   *)
(* the ones not leased, each once, and in_use counts the leased ones, after *)
(* any interleaving of acquire, release, repeated release and destroy.      *)
SlotAccounting ==
    /\ \A i, j \in DOMAIN idle_slots : idle_slots[i] = idle_slots[j] => i = j
    /\ \A s \in Slots : leased[s] <=> \A i \in DOMAIN idle_slots : idle_slots[i] # s
    /\ in_use = Cardinality(LeasedSlots)

(* A connection that acquire returned belongs to one caller until that      *)
(* caller releases it, as long as every caller releases what it holds once. *)
Exclusive ==
    \A t \in Holders :
        /\ conn[t] \in LeasedSlots
        /\ \A u \in Holders \ {t} : conn[u] # conn[t]
LeaseExclusive == ~twice => Exclusive

(* Destroy closes the connections only when no caller still holds one, under *)
(* the same discipline.                                                      *)
TeardownUnleased ==
    ~twice /\ pc[Destroyer] \in {"teardown", "done"} => Holders = {}

(* As long as a caller sleeps, every idle connection has a woken caller on  *)
(* its way to it: no release signal is lost to a barging acquire, an        *)
(* expired wait or a spurious wakeup.                                       *)
NoLostWakeup ==
    ~closing /\ Sleepers # {} => Cardinality(Woken) >= Len(idle_slots)

(* An untimed destroy finishes once the leases come back. *)
DestroyCompletes == (pc[Destroyer] = "waiting" /\ ~timed[Destroyer]) ~> freed
===============================================================================
