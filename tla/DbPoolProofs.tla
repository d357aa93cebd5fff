----------------------------- MODULE DbPoolProofs -----------------------------
(***************************************************************************)
(* Proofs about the connection pool for any number of callers and          *)
(* connections.  The inductive invariant adds to the checked properties    *)
(* that whoever sleeps is "waiting", that a destroyer past its first step  *)
(* has closed the pool, and that teardown starts with no lease counted.    *)
(***************************************************************************)
EXTENDS DbPool, FiniteSetTheorems, TLAPS

(* Whoever sleeps on the condition variable is in the waiting state. *)
SleepersWait == \A p \in waitset : pc[p] = "waiting"

(* A caller in the holding state holds a connection of the pool. *)
HoldersHold == \A t \in Threads : pc[t] = "holding" => conn[t] \in Slots

(* The destroyer closes the pool first and tears down only with no lease counted. *)
DestroyerPhase ==
    /\ pc[Destroyer] # "idle" => closing
    /\ pc[Destroyer] \in {"teardown", "done"} => in_use = 0
    /\ freed => pc[Destroyer] = "done"

PoolInv == TypeOK /\ SlotAccounting /\ SleepersWait /\ HoldersHold /\ DestroyerPhase

(* What popping the stack of idle slots leaves (pool_acquire_locked). *)
LEMMA PopFacts ==
    ASSUME NEW q \in Seq(Slots), q # <<>>
    PROVE  LET r == SubSeq(q, 1, Len(q) - 1) IN
           /\ r \in Seq(Slots)
           /\ Len(q) \in Nat /\ Len(q) >= 1
           /\ Len(r) = Len(q) - 1
           /\ DOMAIN q = 1..Len(q) /\ DOMAIN r = 1..(Len(q) - 1)
           /\ \A i \in 1..(Len(q) - 1) : r[i] = q[i]
           /\ q[Len(q)] \in Slots
<1>1. Len(q) \in Nat /\ DOMAIN q = 1..Len(q) /\ Len(q) >= 1
  OBVIOUS
<1>2. q[Len(q)] \in Slots
  BY <1>1
<1>3. \A i \in 1..(Len(q) - 1) : q[i] \in Slots
  BY <1>1
<1> DEFINE r == SubSeq(q, 1, Len(q) - 1)
<1>4. r = [i \in 1..(Len(q) - 1) |-> q[i]]
  BY <1>1, Len(q) - 1 \in Nat
<1>5. r \in Seq(Slots) /\ Len(r) = Len(q) - 1
  BY <1>1, <1>3, <1>4, Len(q) - 1 \in Nat
<1> QED
  BY <1>1, <1>2, <1>4, <1>5

(* What pushing a slot leaves (cwist_db_pool_release). *)
LEMMA PushFacts ==
    ASSUME NEW q \in Seq(Slots), NEW s \in Slots
    PROVE  LET r == Append(q, s) IN
           /\ r \in Seq(Slots)
           /\ Len(q) \in Nat
           /\ Len(r) = Len(q) + 1
           /\ DOMAIN q = 1..Len(q) /\ DOMAIN r = 1..(Len(q) + 1)
           /\ \A i \in 1..Len(q) : r[i] = q[i]
           /\ r[Len(q) + 1] = s
  OBVIOUS

(* The pool has finitely many connections, none of them NULL. *)
LEMMA SlotsFinite == IsFiniteSet(Slots) /\ NoConn \notin Slots
  BY PoolAssumption, FS_Interval DEF Slots, NoConn

(* in_use is the size of a finite set, positive when some slot is leased. *)
LEMMA LeasedFinite ==
    ASSUME TypeOK, SlotAccounting
    PROVE  /\ IsFiniteSet(LeasedSlots)
           /\ \A s \in Slots : leased[s] => in_use >= 1
           /\ in_use = 0 => LeasedSlots = {}
<1>1. IsFiniteSet(LeasedSlots)
  BY SlotsFinite, FS_Subset DEF LeasedSlots
<1>2. Cardinality(LeasedSlots) = 0 <=> LeasedSlots = {}
  BY <1>1, FS_EmptySet
<1>3. in_use = Cardinality(LeasedSlots) /\ in_use \in Nat
  BY DEF SlotAccounting, TypeOK
<1>4. ASSUME NEW s \in Slots, leased[s] PROVE in_use >= 1
  <2>1. LeasedSlots # {}
    BY <1>4 DEF LeasedSlots
  <2> QED BY <2>1, <1>2, <1>3
<1> QED
  BY <1>1, <1>2, <1>3, <1>4

(* cwist_db_pool_create puts every slot on the stack. *)
LEMMA InitAccounting == Init => SlotAccounting
<1> SUFFICES ASSUME Init PROVE SlotAccounting
  OBVIOUS
<1>1. idle_slots = [i \in Slots |-> i] /\ leased = [s \in Slots |-> FALSE] /\ in_use = 0
  BY DEF Init
<1>2. LeasedSlots = {}
  BY <1>1 DEF LeasedSlots
<1> QED
  BY <1>1, <1>2, FS_EmptySet DEF SlotAccounting

(* The invariant holds when cwist_db_pool_create returns. *)
LEMMA PoolInit == Init => PoolInv
<1> SUFFICES ASSUME Init PROVE PoolInv
  OBVIOUS
<1>1. max_conns \in Nat
  BY PoolAssumption
<1>2. idle_slots \in Seq(Slots)
  BY <1>1 DEF Init, Slots
<1>3. TypeOK
  BY <1>2 DEF Init, TypeOK, Procs
<1> QED
  BY <1>3, InitAccounting DEF Init, PoolInv, SleepersWait, HoldersHold, DestroyerPhase, Procs

(* pool_acquire_locked keeps the stack, the flags and the counter in step. *)
LEMMA LockedAccounting ==
    ASSUME TypeOK, SlotAccounting, NEW t \in Threads, AcquireLocked(t)
    PROVE  /\ SlotAccounting'
           /\ idle_slots' \in Seq(Slots) /\ leased' \in [Slots -> BOOLEAN] /\ in_use' \in Nat
           /\ pc' \in [Procs -> {"idle", "waiting", "expired", "holding", "teardown", "done"}]
           /\ conn' \in [Threads -> Slots \cup {NoConn}]
           /\ \A p \in Procs \ {t} : pc'[p] = pc[p]
           /\ \A u \in Threads \ {t} : conn'[u] = conn[u]
           /\ \/ pc'[t] = "idle" /\ UNCHANGED <<idle_slots, leased, in_use>>
              \/ /\ pc'[t] = "holding" /\ ~closing
                 /\ conn'[t] \in Slots /\ ~leased[conn'[t]]
                 /\ leased' = [leased EXCEPT ![conn'[t]] = TRUE]
                 /\ Len(idle_slots) >= 1 /\ Len(idle_slots') = Len(idle_slots) - 1
<1> USE DEF Procs
<1>1. CASE closing \/ idle_slots = <<>>
  <2>1. pc' = [pc EXCEPT ![t] = "idle"] /\ UNCHANGED <<idle_slots, leased, in_use, conn>>
    BY <1>1 DEF AcquireLocked
  <2>2. SlotAccounting'
    BY <2>1 DEF SlotAccounting, LeasedSlots
  <2> QED BY <2>1, <2>2 DEF TypeOK
<1>2. CASE ~(closing \/ idle_slots = <<>>)
  <2> DEFINE slot == idle_slots[Len(idle_slots)]
  <2>1. /\ idle_slots' = SubSeq(idle_slots, 1, Len(idle_slots) - 1)
        /\ leased' = [leased EXCEPT ![slot] = TRUE]
        /\ in_use' = in_use + 1
        /\ conn' = [conn EXCEPT ![t] = slot]
        /\ pc' = [pc EXCEPT ![t] = "holding"]
    BY <1>2 DEF AcquireLocked, PopIdle, CountLease
  <2> HIDE DEF slot
  <2>2. /\ idle_slots' \in Seq(Slots)
        /\ Len(idle_slots) \in Nat /\ Len(idle_slots) >= 1
        /\ DOMAIN idle_slots = 1..Len(idle_slots)
        /\ DOMAIN idle_slots' = 1..(Len(idle_slots) - 1)
        /\ Len(idle_slots') = Len(idle_slots) - 1
        /\ \A i \in 1..(Len(idle_slots) - 1) : idle_slots'[i] = idle_slots[i]
        /\ slot \in Slots
        /\ slot = idle_slots[Len(idle_slots)]
    BY <1>2, <2>1, PopFacts DEF TypeOK, slot
  <2>3. ~leased[slot]
    BY <2>2 DEF SlotAccounting
  <2>4. LeasedSlots' = LeasedSlots \cup {slot} /\ slot \notin LeasedSlots
    BY <2>1, <2>2, <2>3 DEF LeasedSlots, TypeOK
  <2>5. in_use' = Cardinality(LeasedSlots')
    BY <2>1, <2>4, LeasedFinite, FS_AddElement DEF SlotAccounting
  <2>6. \A i, j \in DOMAIN idle_slots' : idle_slots'[i] = idle_slots'[j] => i = j
    BY <2>2 DEF SlotAccounting
  <2>7. \A s \in Slots : leased'[s] <=> \A i \in DOMAIN idle_slots' : idle_slots'[i] # s
    <3> TAKE s \in Slots
    <3>1. CASE s = slot
      <4>1. leased'[slot]
        BY <2>1, <2>2 DEF TypeOK
      <4>2. \A i \in DOMAIN idle_slots' : idle_slots'[i] # slot
        BY <2>2 DEF SlotAccounting
      <4> QED BY <3>1, <4>1, <4>2
    <3>2. CASE s # slot
      <4>1. leased'[s] = leased[s]
        BY <2>1, <2>2, <3>2 DEF TypeOK
      <4>2. (\A i \in DOMAIN idle_slots' : idle_slots'[i] # s)
            <=> (\A i \in DOMAIN idle_slots : idle_slots[i] # s)
        BY <2>2, <3>2
      <4> QED BY <4>1, <4>2 DEF SlotAccounting
    <3> QED BY <3>1, <3>2
  <2> QED
    <3>1. SlotAccounting'
      BY <2>5, <2>6, <2>7 DEF SlotAccounting
    <3>2. /\ in_use' \in Nat
          /\ leased' \in [Slots -> BOOLEAN]
          /\ pc' \in [Procs -> {"idle", "waiting", "expired", "holding", "teardown", "done"}]
          /\ conn' \in [Threads -> Slots \cup {NoConn}]
      BY <2>1, <2>2 DEF TypeOK
    <3>3. /\ pc'[t] = "holding" /\ conn'[t] = slot
          /\ \A p \in Procs \ {t} : pc'[p] = pc[p]
          /\ \A u \in Threads \ {t} : conn'[u] = conn[u]
      BY <2>1, <2>2 DEF TypeOK
    <3> QED
      BY <1>2, <2>1, <2>2, <2>3, <3>1, <3>2, <3>3
<1> QED BY <1>1, <1>2

(* cwist_db_pool_release keeps them in step, also for a connection that is  *)
(* not leased.                                                              *)
LEMMA ReleaseAccounting ==
    ASSUME TypeOK, SlotAccounting, NEW s \in Slots, ReleaseConn(s)
    PROVE  /\ SlotAccounting'
           /\ idle_slots' \in Seq(Slots) /\ leased' \in [Slots -> BOOLEAN] /\ in_use' \in Nat
           /\ waitset' \subseteq waitset
<1>1. CASE leased[s] /\ Len(idle_slots) < max_conns
  <2>1. /\ leased' = [leased EXCEPT ![s] = FALSE]
        /\ idle_slots' = Append(idle_slots, s)
        /\ in_use' = in_use - 1
        /\ waitset' \subseteq waitset
    BY <1>1 DEF ReleaseConn, Signal
  <2>2. /\ idle_slots' \in Seq(Slots)
        /\ Len(idle_slots) \in Nat
        /\ DOMAIN idle_slots = 1..Len(idle_slots)
        /\ DOMAIN idle_slots' = 1..(Len(idle_slots) + 1)
        /\ \A i \in 1..Len(idle_slots) : idle_slots'[i] = idle_slots[i]
        /\ idle_slots'[Len(idle_slots) + 1] = s
    BY <2>1, PushFacts DEF TypeOK
  <2>3. LeasedSlots' = LeasedSlots \ {s} /\ s \in LeasedSlots
    BY <1>1, <2>1 DEF LeasedSlots, TypeOK
  <2>4. in_use' = Cardinality(LeasedSlots') /\ in_use' \in Nat
    <3>1. Cardinality(LeasedSlots') = Cardinality(LeasedSlots) - 1
      BY <2>3, LeasedFinite, FS_RemoveElement
    <3>2. in_use = Cardinality(LeasedSlots) /\ in_use \in Nat /\ in_use >= 1
      BY <1>1, LeasedFinite DEF SlotAccounting, TypeOK
    <3> QED BY <2>1, <3>1, <3>2
  <2>5. \A i \in DOMAIN idle_slots : idle_slots[i] # s
    BY <1>1 DEF SlotAccounting
  <2>6. \A i, j \in DOMAIN idle_slots' : idle_slots'[i] = idle_slots'[j] => i = j
    BY <2>2, <2>5 DEF SlotAccounting
  <2>7. \A u \in Slots : leased'[u] <=> \A i \in DOMAIN idle_slots' : idle_slots'[i] # u
    <3> TAKE u \in Slots
    <3>1. CASE u = s
      <4>1. ~leased'[s]
        BY <2>1 DEF TypeOK
      <4>2. Len(idle_slots) + 1 \in DOMAIN idle_slots'
        BY <2>2
      <4> QED BY <2>2, <3>1, <4>1, <4>2
    <3>2. CASE u # s
      <4>1. leased'[u] = leased[u]
        BY <2>1, <3>2 DEF TypeOK
      <4>2. (\A i \in DOMAIN idle_slots' : idle_slots'[i] # u)
            <=> (\A i \in DOMAIN idle_slots : idle_slots[i] # u)
        BY <2>2, <3>2
      <4> QED BY <4>1, <4>2 DEF SlotAccounting
    <3> QED BY <3>1, <3>2
  <2> QED
    BY <2>1, <2>2, <2>4, <2>6, <2>7 DEF SlotAccounting, TypeOK
<1>2. CASE ~(leased[s] /\ Len(idle_slots) < max_conns)
  <2>1. UNCHANGED <<leased, idle_slots, in_use, waitset>>
    BY <1>2 DEF ReleaseConn
  <2> QED BY <2>1 DEF SlotAccounting, LeasedSlots, TypeOK
<1> QED BY <1>1, <1>2

(* The waiting loop of the acquire functions, run by a caller that is awake. *)
LEMMA LoopKeepsInv ==
    ASSUME PoolInv, NEW t \in Threads, AcquireLoop(t), t \notin waitset,
           closing' = closing, freed' = freed, timed' \in [Procs -> BOOLEAN], last' = last, twice' = twice
    PROVE  PoolInv'
<1> USE DEF PoolInv
<1>1. CASE MustWait
  <2>1. /\ pc' = [pc EXCEPT ![t] = "waiting"]
        /\ waitset' = waitset \cup {t}
        /\ UNCHANGED <<idle_slots, leased, in_use, conn>>
    BY <1>1 DEF AcquireLoop
  <2>2. TypeOK'
    BY <2>1 DEF TypeOK, Procs
  <2>3. SlotAccounting'
    BY <2>1 DEF SlotAccounting, LeasedSlots
  <2>4. SleepersWait' /\ HoldersHold'
    BY <2>1 DEF SleepersWait, HoldersHold, TypeOK, Procs
  <2>5. DestroyerPhase'
    BY <2>1, PoolAssumption DEF DestroyerPhase, TypeOK, Procs
  <2> QED BY <2>2, <2>3, <2>4, <2>5
<1>2. CASE ~MustWait
  <2>1. AcquireLocked(t) /\ waitset' = waitset
    BY <1>2 DEF AcquireLoop
  <2>2. TypeOK' /\ SlotAccounting'
    BY <2>1, LockedAccounting DEF TypeOK
  <2>3. SleepersWait'
    BY <2>1, LockedAccounting DEF SleepersWait, TypeOK
  <2>4. HoldersHold'
    BY <2>1, LockedAccounting DEF HoldersHold, TypeOK, Procs
  <2>5. pc'[Destroyer] = pc[Destroyer] /\ (closing => in_use' = in_use)
    BY <2>1, LockedAccounting, PoolAssumption DEF Procs
  <2>6. DestroyerPhase'
    BY <2>5 DEF DestroyerPhase
  <2> QED BY <2>2, <2>3, <2>4, <2>6
<1> QED BY <1>1, <1>2

(* The destroyer's own steps change only pc, the wait set and the flags. *)
LEMMA DestroyerKeepsInv ==
    ASSUME PoolInv, UNCHANGED <<idle_slots, leased, in_use, conn, last, twice>>,
           closing' = TRUE, timed' \in [Procs -> BOOLEAN],
           freed' \in BOOLEAN,
           NEW l \in {"idle", "waiting", "expired", "teardown", "done"},
           pc' = [pc EXCEPT ![Destroyer] = l],
           waitset' \subseteq (waitset \ {Destroyer}) \cup (IF l = "waiting" THEN {Destroyer} ELSE {}),
           l \in {"teardown", "done"} => in_use = 0,
           freed' => l = "done"
    PROVE  PoolInv'
<1> USE DEF PoolInv
<1>1. TypeOK'
  BY DEF TypeOK, Procs
<1>2. SlotAccounting'
  BY DEF SlotAccounting, LeasedSlots
<1>3. SleepersWait'
  BY DEF SleepersWait, TypeOK, Procs
<1>4. HoldersHold'
  BY PoolAssumption DEF HoldersHold, TypeOK, Procs
<1>5. DestroyerPhase'
  BY DEF DestroyerPhase, TypeOK, Procs
<1> QED BY <1>1, <1>2, <1>3, <1>4, <1>5

(* Every step keeps the inductive invariant. *)
LEMMA PoolInvStep == PoolInv /\ [Next]_vars => PoolInv'
<1> SUFFICES ASSUME PoolInv, [Next]_vars PROVE PoolInv'
  OBVIOUS
<1> USE DEF PoolInv
<1>1. ASSUME NEW t \in Threads, NEW tm \in BOOLEAN, Acquire(t, tm) PROVE PoolInv'
  <2>1. t \notin waitset
    BY <1>1 DEF Acquire, SleepersWait
  <2>2. timed' \in [Procs -> BOOLEAN]
    BY <1>1 DEF Acquire, TypeOK, Procs, MustWait
  <2> QED BY <1>1, <2>1, <2>2, LoopKeepsInv DEF Acquire
<1>2. ASSUME NEW t \in Threads, AcquireWake(t) PROVE PoolInv'
  <2>1. timed' \in [Procs -> BOOLEAN]
    BY <1>2 DEF AcquireWake, TypeOK, Procs, MustWait
  <2> QED BY <1>2, <2>1, LoopKeepsInv DEF AcquireWake
<1>3. ASSUME NEW t \in Threads, AcquireExpired(t) PROVE PoolInv'
  <2>1. /\ AcquireLocked(t) /\ UNCHANGED <<closing, freed, waitset, last, twice>>
        /\ pc[t] = "expired" /\ timed' = [timed EXCEPT ![t] = FALSE]
    BY <1>3 DEF AcquireExpired
  <2>2. TypeOK' /\ SlotAccounting'
    BY <2>1, LockedAccounting DEF TypeOK
  <2>3. SleepersWait'
    BY <2>1, LockedAccounting DEF SleepersWait, TypeOK
  <2>4. HoldersHold'
    BY <2>1, LockedAccounting DEF HoldersHold, TypeOK, Procs
  <2>5. pc'[Destroyer] = pc[Destroyer] /\ (closing => in_use' = in_use)
    BY <2>1, LockedAccounting, PoolAssumption DEF Procs
  <2>6. DestroyerPhase'
    BY <2>1, <2>5 DEF DestroyerPhase
  <2> QED BY <2>2, <2>3, <2>4, <2>6
<1>4. ASSUME NEW t \in Threads, Release(t) PROVE PoolInv'
  <2>1. /\ pc' = [pc EXCEPT ![t] = "idle"] /\ pc[t] = "holding"
        /\ conn[t] \in Slots /\ ReleaseConn(conn[t])
        /\ conn' = [conn EXCEPT ![t] = NoConn] /\ last' = [last EXCEPT ![t] = conn[t]]
        /\ UNCHANGED <<closing, freed, timed, twice>>
    BY <1>4 DEF Release, HoldersHold
  <2>2. /\ SlotAccounting'
        /\ idle_slots' \in Seq(Slots) /\ leased' \in [Slots -> BOOLEAN] /\ in_use' \in Nat
        /\ waitset' \subseteq waitset
    BY <2>1, ReleaseAccounting
  <2>3. in_use = 0 => in_use' = 0
    BY <2>1, LeasedFinite DEF ReleaseConn, LeasedSlots
  <2>4. TypeOK'
    BY <2>1, <2>2 DEF TypeOK, Procs
  <2>5. SleepersWait' /\ HoldersHold'
    BY <2>1, <2>2 DEF SleepersWait, HoldersHold, TypeOK, Procs
  <2>6. pc'[Destroyer] = pc[Destroyer]
    BY <2>1, PoolAssumption DEF TypeOK, Procs
  <2>7. DestroyerPhase'
    BY <2>1, <2>3, <2>6 DEF DestroyerPhase
  <2> QED BY <2>2, <2>4, <2>5, <2>7
<1>5. ASSUME NEW t \in Threads, ReleaseAgain(t) PROVE PoolInv'
  <2>1. /\ last[t] \in Slots /\ ReleaseConn(last[t])
        /\ last' = [last EXCEPT ![t] = NoConn] /\ twice' = TRUE
        /\ UNCHANGED <<closing, freed, pc, timed, conn>>
    BY <1>5 DEF ReleaseAgain, TypeOK
  <2>2. /\ SlotAccounting'
        /\ idle_slots' \in Seq(Slots) /\ leased' \in [Slots -> BOOLEAN] /\ in_use' \in Nat
        /\ waitset' \subseteq waitset
    BY <2>1, ReleaseAccounting
  <2>3. in_use = 0 => in_use' = 0
    BY <2>1, LeasedFinite DEF ReleaseConn, LeasedSlots
  <2>4. TypeOK'
    BY <2>1, <2>2 DEF TypeOK
  <2>5. SleepersWait' /\ HoldersHold' /\ DestroyerPhase'
    BY <2>1, <2>2, <2>3 DEF SleepersWait, HoldersHold, DestroyerPhase
  <2> QED BY <2>2, <2>4, <2>5
<1>6. ASSUME NEW tm \in BOOLEAN, Destroy(tm) PROVE PoolInv'
  BY <1>6, DestroyerKeepsInv DEF Destroy, DestroyLoop, Broadcast, LeasesOut, TypeOK, Procs, DestroyerPhase
<1>7. CASE DestroyWake
  <2>1. timed' \in [Procs -> BOOLEAN]
    BY <1>7 DEF DestroyWake, TypeOK, LeasesOut, Procs
  <2>2. closing /\ ~freed
    BY <1>7 DEF DestroyWake, DestroyerPhase
  <2>3. /\ UNCHANGED <<poolVars, conn, last, twice>> /\ DestroyLoop(waitset)
        /\ Destroyer \notin waitset
    BY <1>7 DEF DestroyWake
  <2> QED
    BY <2>1, <2>2, <2>3, DestroyerKeepsInv DEF DestroyLoop, LeasesOut, TypeOK, poolVars
<1>8. CASE DestroyExpired
  BY <1>8, DestroyerKeepsInv DEF DestroyExpired, LeasesOut, TypeOK, DestroyerPhase, SleepersWait, poolVars
<1>9. CASE Teardown
  BY <1>9, DestroyerKeepsInv DEF Teardown, TypeOK, DestroyerPhase, SleepersWait
<1>10. ASSUME NEW p \in Procs, Expire(p) PROVE PoolInv'
  <2>1. /\ p \in waitset /\ waitset' = waitset \ {p} /\ pc' = [pc EXCEPT ![p] = "expired"]
        /\ UNCHANGED <<poolVars, timed, conn, last, twice>>
    BY <1>10 DEF Expire
  <2>2. TypeOK'
    BY <2>1 DEF TypeOK, poolVars
  <2>3. SlotAccounting'
    BY <2>1 DEF SlotAccounting, LeasedSlots, poolVars
  <2>4. SleepersWait' /\ HoldersHold'
    BY <2>1 DEF SleepersWait, HoldersHold, TypeOK, Procs
  <2>5. DestroyerPhase'
    BY <2>1 DEF DestroyerPhase, SleepersWait, TypeOK, Procs, poolVars
  <2> QED BY <2>2, <2>3, <2>4, <2>5
<1>11. ASSUME NEW p \in Procs, SpuriousWakeup(p) PROVE PoolInv'
  BY <1>11 DEF SpuriousWakeup, TypeOK, SlotAccounting, LeasedSlots, SleepersWait,
               HoldersHold, DestroyerPhase, poolVars
<1>12. CASE UNCHANGED vars
  BY <1>12 DEF vars, TypeOK, SlotAccounting, LeasedSlots, SleepersWait, HoldersHold, DestroyerPhase
<1> QED
  BY <1>1, <1>2, <1>3, <1>4, <1>5, <1>6, <1>7, <1>8, <1>9, <1>10, <1>11, <1>12 DEF Next

(* The pool's types and its bookkeeping (stack, flags, counter) hold in     *)
(* every reachable state, repeated releases included.                       *)
THEOREM PoolAccounting == Spec => [](TypeOK /\ SlotAccounting)
<1>1. PoolInv => TypeOK /\ SlotAccounting
  BY DEF PoolInv
<1> QED BY <1>1, PoolInit, PoolInvStep, PTL DEF Spec

(* The inductive invariant with exclusiveness. *)
ExclusiveInv == PoolInv /\ LeaseExclusive

(* A repeated release is never forgotten. *)
LEMMA TwiceStays == [Next]_vars => (twice => twice')
  BY DEF Next, vars, Acquire, AcquireWake, AcquireExpired, Release, ReleaseAgain, Destroy,
         DestroyWake, DestroyExpired, Teardown, Expire, SpuriousWakeup

(* A step that is not a repeated release keeps every lease exclusive. *)
LEMMA ExclusiveStep == PoolInv /\ Exclusive /\ [Next]_vars /\ ~twice' => Exclusive'
<1> SUFFICES ASSUME PoolInv, Exclusive, [Next]_vars, ~twice' PROVE Exclusive'
  OBVIOUS
<1> USE DEF PoolInv
<1>1. ASSUME NEW t \in Threads, AcquireLocked(t), pc[t] # "holding" PROVE Exclusive'
  <2>1. CASE pc'[t] = "idle"
    BY <1>1, <2>1, LockedAccounting DEF Exclusive, Holders, LeasedSlots, TypeOK, Procs
  <2>2. CASE pc'[t] = "holding"
    <3>1. Holders' = Holders \cup {t} /\ t \notin Holders
      BY <1>1, <2>2, LockedAccounting DEF Holders, Procs
    <3>2. \A u \in Holders : conn'[u] = conn[u] /\ leased[conn[u]] /\ conn[u] # conn'[t]
      BY <1>1, <2>2, LockedAccounting DEF Exclusive, LeasedSlots, Holders
    <3>3. \A s \in Slots : leased'[s] <=> leased[s] \/ s = conn'[t]
      BY <1>1, <2>2, LockedAccounting DEF TypeOK
    <3>4. conn'[t] \in Slots
      BY <1>1, <2>2, LockedAccounting
    <3> QED BY <3>1, <3>2, <3>3, <3>4 DEF Exclusive, LeasedSlots
  <2> QED BY <1>1, <2>1, <2>2, LockedAccounting
<1>2. ASSUME NEW t \in Threads, AcquireLoop(t), pc[t] # "holding" PROVE Exclusive'
  <2>1. CASE MustWait
    BY <1>2, <2>1 DEF AcquireLoop, Exclusive, Holders, LeasedSlots, TypeOK, Procs
  <2> QED BY <1>1, <1>2, <2>1 DEF AcquireLoop
<1>3. ASSUME NEW t \in Threads, Release(t) PROVE Exclusive'
  <2>1. /\ Holders' = Holders \ {t} /\ t \in Holders
        /\ \A u \in Holders' : conn'[u] = conn[u]
    BY <1>3 DEF Release, Holders, TypeOK, Procs
  <2>2. \A s \in Slots \ {conn[t]} : leased[s] => leased'[s]
    BY <1>3 DEF Release, ReleaseConn, TypeOK
  <2> QED BY <2>1, <2>2 DEF Exclusive, LeasedSlots
<1>4. ASSUME NEW p, pc' = [pc EXCEPT ![p] = pc'[p]], UNCHANGED <<leased, conn>>,
             p \in Procs, pc'[p] # "holding"
      PROVE  Exclusive'
  <2>1. Holders' \subseteq Holders
    BY <1>4 DEF Holders, TypeOK, Procs
  <2> QED BY <1>4, <2>1 DEF Exclusive, LeasedSlots
<1>5. ASSUME NEW tm \in BOOLEAN, Destroy(tm) PROVE Exclusive'
  BY <1>4, <1>5 DEF Destroy, DestroyLoop, TypeOK, Procs
<1>6. CASE DestroyWake \/ DestroyExpired \/ Teardown
  BY <1>4, <1>6 DEF DestroyWake, DestroyExpired, Teardown, DestroyLoop, TypeOK, Procs, poolVars
<1>7. ASSUME NEW p \in Procs, Expire(p) PROVE Exclusive'
  BY <1>4, <1>7 DEF Expire, TypeOK, poolVars
<1>8. ASSUME NEW p \in Procs, SpuriousWakeup(p) PROVE Exclusive'
  BY <1>8 DEF SpuriousWakeup, poolVars, Exclusive, Holders, LeasedSlots
<1>9. CASE UNCHANGED vars
  BY <1>9 DEF vars, Exclusive, Holders, LeasedSlots
<1>10. ASSUME NEW t \in Threads, ReleaseAgain(t) PROVE FALSE
  BY <1>10 DEF ReleaseAgain
<1> QED
  BY <1>1, <1>2, <1>3, <1>5, <1>6, <1>7, <1>8, <1>9, <1>10
  DEF Next, Acquire, AcquireWake, AcquireExpired

(* A leased connection has one holder, and destroy closes connections only  *)
(* when none is held, as long as no caller released a connection twice.     *)
THEOREM PoolExclusive == Spec => [](LeaseExclusive /\ TeardownUnleased)
<1>1. Init => ExclusiveInv
  BY PoolInit DEF ExclusiveInv, LeaseExclusive, Exclusive, Holders, Init, Procs
<1>2. ExclusiveInv /\ [Next]_vars => ExclusiveInv'
  BY PoolInvStep, ExclusiveStep, TwiceStays DEF ExclusiveInv, LeaseExclusive
<1>3. ExclusiveInv => LeaseExclusive /\ TeardownUnleased
  BY LeasedFinite DEF ExclusiveInv, PoolInv, DestroyerPhase, TeardownUnleased, LeaseExclusive, Exclusive
<1> QED BY <1>1, <1>2, <1>3, PTL DEF Spec

(* A release that reaches a sleeping caller adds a woken one; nothing else  *)
(* adds an idle connection, and a woken caller leaves only with one.        *)
WakeInv == PoolInv /\ NoLostWakeup

LEMMA WokenFinite == IsFiniteSet(Woken) /\ Cardinality(Woken) \in Nat
  BY PoolAssumption, FS_Subset, FS_CardinalityType DEF Woken

LEMMA WakeStep == WakeInv /\ [Next]_vars => NoLostWakeup'
<1> SUFFICES ASSUME WakeInv, [Next]_vars, ~closing', Sleepers' # {}
             PROVE  Cardinality(Woken') >= Len(idle_slots')
  BY DEF NoLostWakeup
<1> USE DEF WakeInv, PoolInv
<1>0. /\ IsFiniteSet(Woken) /\ Cardinality(Woken) \in Nat
      /\ Len(idle_slots) \in Nat
  BY WokenFinite DEF TypeOK
<1>1. ASSUME NEW t \in Threads, AcquireLocked(t), closing' = closing, waitset' = waitset,
             t \notin waitset, idle_slots # <<>> \/ pc[t] # "waiting"
      PROVE  Cardinality(Woken') >= Len(idle_slots')
  <2>1. Woken' = Woken \ {t}
    BY <1>1, LockedAccounting DEF Woken, Procs
  <2>2. Cardinality(Woken) >= Len(idle_slots)
    BY <1>1 DEF NoLostWakeup, Sleepers
  <2>3. Cardinality(Woken') \in Nat /\ Cardinality(Woken') >= Cardinality(Woken) - 1
    <3>1. Cardinality(Woken \ {t}) = IF t \in Woken THEN Cardinality(Woken) - 1 ELSE Cardinality(Woken)
      BY <1>0, FS_RemoveElement
    <3>2. IsFiniteSet(Woken') /\ Cardinality(Woken') \in Nat
      BY PoolAssumption, FS_Subset, FS_CardinalityType DEF Woken
    <3> QED BY <1>0, <2>1, <3>1, <3>2
  <2>4. CASE pc'[t] = "holding"
    <3>1. Len(idle_slots') = Len(idle_slots) - 1
      BY <1>1, <2>4, LockedAccounting
    <3> QED BY <1>0, <2>2, <2>3, <3>1
  <2>5. CASE pc'[t] # "holding"
    <3>1. closing \/ idle_slots = <<>>
      BY <1>1, <2>5 DEF AcquireLocked, TypeOK, Procs
    <3>2. pc[t] # "waiting" /\ idle_slots' = idle_slots
      BY <1>1, <3>1 DEF AcquireLocked
    <3>3. Woken' = Woken
      BY <2>1, <3>2 DEF Woken
    <3> QED BY <2>2, <3>2, <3>3
  <2> QED BY <2>4, <2>5
<1>2. ASSUME NEW t \in Threads, AcquireLoop(t), closing' = closing, t \notin waitset
      PROVE  Cardinality(Woken') >= Len(idle_slots')
  <2>1. CASE MustWait
    <3>1. Len(idle_slots') = 0
      BY <1>2, <2>1 DEF AcquireLoop, MustWait
    <3>2. IsFiniteSet(Woken') /\ Cardinality(Woken') \in Nat
      BY PoolAssumption, FS_Subset, FS_CardinalityType DEF Woken
    <3> QED BY <3>1, <3>2
  <2>2. CASE ~MustWait
    BY <1>1, <1>2, <2>2 DEF AcquireLoop, MustWait
  <2> QED BY <2>1, <2>2
<1>3. ASSUME NEW s \in Slots, ReleaseConn(s), closing' = closing, NEW t \in Threads,
             pc[t] # "waiting", pc' = [pc EXCEPT ![t] = pc'[t]], pc'[t] # "waiting"
      PROVE  Cardinality(Woken') >= Len(idle_slots')
  <2>1. CASE leased[s] /\ Len(idle_slots) < max_conns
    <3>1. Len(idle_slots') = Len(idle_slots) + 1
      BY <1>3, <2>1, PushFacts DEF ReleaseConn, TypeOK
    <3>2. PICK p \in waitset : waitset' = waitset \ {p}
      BY <1>3, <2>1 DEF ReleaseConn, Signal, Sleepers
    <3>3. p \in Threads /\ pc[p] = "waiting"
      BY <1>3, <3>2 DEF SleepersWait, DestroyerPhase, TypeOK, Procs
    <3>4. Woken' = Woken \cup {p} /\ p \notin Woken
      BY <1>3, <3>2, <3>3 DEF Woken, TypeOK, Procs
    <3>5. Cardinality(Woken') = Cardinality(Woken) + 1
      BY <1>0, <3>4, FS_AddElement
    <3>6. Cardinality(Woken) >= Len(idle_slots)
      BY <1>3, <3>2 DEF NoLostWakeup, Sleepers
    <3> QED BY <1>0, <3>1, <3>5, <3>6
  <2>2. CASE ~(leased[s] /\ Len(idle_slots) < max_conns)
    <3>1. UNCHANGED <<idle_slots, waitset>>
      BY <1>3, <2>2 DEF ReleaseConn
    <3>2. Woken' = Woken
      BY <1>3, <3>1 DEF Woken, TypeOK, Procs
    <3> QED BY <1>3, <3>1, <3>2 DEF NoLostWakeup, Sleepers
  <2> QED BY <2>1, <2>2
<1>4. ASSUME Woken \subseteq Woken', UNCHANGED <<idle_slots, closing>>, waitset' \subseteq waitset
      PROVE  Cardinality(Woken') >= Len(idle_slots')
  <2>1. IsFiniteSet(Woken') /\ Cardinality(Woken') \in Nat
    BY PoolAssumption, FS_Subset, FS_CardinalityType DEF Woken
  <2>2. Cardinality(Woken') >= Cardinality(Woken)
    <3>1. Woken \in SUBSET Woken'
      BY <1>4
    <3>2. Cardinality(Woken) <= Cardinality(Woken')
      BY <2>1, <3>1, FS_Subset
    <3> QED BY <1>0, <2>1, <3>2
  <2>3. Cardinality(Woken) >= Len(idle_slots)
    BY <1>4 DEF NoLostWakeup, Sleepers
  <2> QED BY <1>0, <1>4, <2>1, <2>2, <2>3
<1>5. ASSUME NEW t \in Threads, NEW tm \in BOOLEAN, Acquire(t, tm)
      PROVE  Cardinality(Woken') >= Len(idle_slots')
  <2>1. AcquireLoop(t) /\ closing' = closing /\ t \notin waitset
    BY <1>5 DEF Acquire, SleepersWait
  <2> QED BY <1>2, <2>1
<1>6. ASSUME NEW t \in Threads, AcquireWake(t)
      PROVE  Cardinality(Woken') >= Len(idle_slots')
  BY <1>2, <1>6 DEF AcquireWake
<1>7. ASSUME NEW t \in Threads, AcquireExpired(t)
      PROVE  Cardinality(Woken') >= Len(idle_slots')
  BY <1>1, <1>7 DEF AcquireExpired, SleepersWait
<1>8. ASSUME NEW t \in Threads, Release(t)
      PROVE  Cardinality(Woken') >= Len(idle_slots')
  <2>1. /\ conn[t] \in Slots /\ ReleaseConn(conn[t]) /\ closing' = closing
        /\ pc[t] # "waiting" /\ pc' = [pc EXCEPT ![t] = pc'[t]] /\ pc'[t] # "waiting"
    BY <1>8 DEF Release, HoldersHold, TypeOK, Procs
  <2> QED BY <1>3, <2>1
<1>9. ASSUME NEW t \in Threads, ReleaseAgain(t)
      PROVE  Cardinality(Woken') >= Len(idle_slots')
  <2>1. /\ last[t] \in Slots /\ ReleaseConn(last[t]) /\ closing' = closing
        /\ pc[t] # "waiting" /\ pc' = [pc EXCEPT ![t] = pc'[t]] /\ pc'[t] # "waiting"
    BY <1>9 DEF ReleaseAgain, TypeOK, Procs
  <2> QED BY <1>3, <2>1
<1>10. CASE DestroyWake \/ DestroyExpired \/ Teardown
  BY <1>10 DEF DestroyWake, DestroyExpired, Teardown, DestroyerPhase, poolVars
<1>11. ASSUME NEW tm \in BOOLEAN, Destroy(tm) PROVE FALSE
  BY <1>11 DEF Destroy
<1>12. ASSUME NEW p \in Procs, Expire(p) PROVE Cardinality(Woken') >= Len(idle_slots')
  <2>1. Woken \subseteq Woken'
    BY <1>12 DEF Expire, Woken, TypeOK, Procs
  <2> QED BY <1>4, <1>12, <2>1 DEF Expire, poolVars
<1>13. ASSUME NEW p \in Procs, SpuriousWakeup(p) PROVE Cardinality(Woken') >= Len(idle_slots')
  <2>1. Woken \subseteq Woken'
    BY <1>13 DEF SpuriousWakeup, Woken
  <2> QED BY <1>4, <1>13, <2>1 DEF SpuriousWakeup, poolVars
<1>14. CASE UNCHANGED vars
  <2>1. Woken \subseteq Woken'
    BY <1>14 DEF vars, Woken
  <2> QED BY <1>4, <1>14, <2>1 DEF vars
<1> QED
  BY <1>5, <1>6, <1>7, <1>8, <1>9, <1>10, <1>11, <1>12, <1>13, <1>14 DEF Next

(* No wakeup is lost: while a caller sleeps on an open pool there are at    *)
(* least as many woken callers as idle connections.                         *)
THEOREM PoolNoLostWakeup == Spec => []NoLostWakeup
<1>1. Init => WakeInv
  BY PoolInit DEF WakeInv, NoLostWakeup, Sleepers, Init
<1>2. WakeInv /\ [Next]_vars => WakeInv'
  BY PoolInvStep, WakeStep DEF WakeInv
<1> QED BY <1>1, <1>2, PTL DEF Spec, WakeInv
===============================================================================
