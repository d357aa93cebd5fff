------------------------------ MODULE MSQueue ------------------------------
(* The lock-free list under cwist_io_queue (sys/io/io_queue.c): a singly     *)
(* linked list with a sentinel, a head moved by consumers and a tail that    *)
(* may lag one node behind and is swung by whoever notices.  Unlinked nodes  *)
(* go through two staging lists and then to the epoch reclamation of         *)
(* libttak, which is external: a retired node is freed once every thread     *)
(* that was inside a critical section when it was retired has left it.       *)
(* A freed node may be allocated again, with any job.                        *)
EXTENDS Integers, FiniteSets, Sequences

CONSTANTS
  Producers, Consumers,
  Crews,    \* who shares a queue: [threads, jobs]
  Nodes,    \* the memory nodes are allocated from
  Jobs,
  Null, Nothing

ASSUME NodesOK == Null \notin Nodes /\ IsFiniteSet(Nodes) /\ Nothing \notin Jobs
                  /\ Crews \subseteq [threads : SUBSET (Producers \cup Consumers), jobs : SUBSET Jobs]

Threads == Producers \cup Consumers

VARIABLES
  head, tail, next, job,       \* the queue and the nodes' fields
  free,                        \* nodes the allocator may hand out
  stageNew, stageOld, retired, \* q->retire_new, q->retire_old, libttak's list
  inside,                      \* threads in an epoch critical section
  pc, lhead, ltail, lnext,     \* each thread's step and locals
  node,                        \* the node a producer is pushing
  got,                         \* result of each consumer's last pop
  stale,                       \* a step dereferenced a freed node
  crew                         \* the member of Crews at hand

shared == <<head, tail, next, job>>
memory == <<free, stageNew, stageOld, retired>>
locals == <<lhead, ltail, lnext, node>>
vars == <<shared, memory, inside, pc, locals, got, stale, crew>>

Init ==
  \E stub \in Nodes, any \in Jobs :
    /\ crew \in Crews /\ any \in crew.jobs
    /\ head = stub /\ tail = stub
    /\ next = [n \in Nodes |-> Null] /\ job = [n \in Nodes |-> any]
    /\ free = Nodes \ {stub} /\ stageNew = {} /\ stageOld = {} /\ retired = {}
    /\ inside = {}
    /\ pc = [t \in Threads |-> "idle"]
    /\ lhead = [t \in Threads |-> Null] /\ ltail = [t \in Threads |-> Null]
    /\ lnext = [t \in Threads |-> Null] /\ node = [t \in Threads |-> Null]
    /\ got = [c \in Consumers |-> Nothing]
    /\ stale = FALSE

Deref(n) == stale' = (stale \/ n \in free)
Goto(t, step) == pc' = [pc EXCEPT ![t] = step]

-----------------------------------------------------------------------------
(* cwist_queue_push *)

(* cwist_job_node_create, node->next = NULL, ttak_epoch_enter. *)
PushBegin(t) ==
  /\ pc[t] = "idle"
  /\ \E n \in free, j \in crew.jobs :
       /\ free' = free \ {n}
       /\ next' = [next EXCEPT ![n] = Null]
       /\ job' = [job EXCEPT ![n] = j]
       /\ node' = [node EXCEPT ![t] = n]
  /\ inside' = inside \cup {t}
  /\ Goto(t, "pushTail")
  /\ UNCHANGED <<head, tail, stageNew, stageOld, retired, lhead, ltail, lnext, got, stale>>

PushReadTail(t) ==
  /\ pc[t] = "pushTail"
  /\ ltail' = [ltail EXCEPT ![t] = tail]
  /\ Goto(t, "pushNext")
  /\ UNCHANGED <<shared, memory, inside, lhead, lnext, node, got, stale>>

PushReadNext(t) ==
  /\ pc[t] = "pushNext"
  /\ lnext' = [lnext EXCEPT ![t] = next[ltail[t]]]
  /\ Deref(ltail[t])
  /\ Goto(t, "pushCheck")
  /\ UNCHANGED <<shared, memory, inside, lhead, ltail, node, got>>

PushCheck(t) ==
  /\ pc[t] = "pushCheck"
  /\ Goto(t, IF ltail[t] # tail THEN "pushTail"
             ELSE IF lnext[t] = Null THEN "pushLink" ELSE "pushHelp")
  /\ UNCHANGED <<shared, memory, inside, locals, got, stale>>

(* The compare-and-swap on tail->next, a weak one: it may fail for no reason. *)
LinkBlind(t) == TRUE
LinkSucceeds(t) == next[ltail[t]] = Null

PushLink(t) ==
  /\ pc[t] = "pushLink"
  /\ Deref(ltail[t])
  /\ \/ LinkSucceeds(t) /\ next' = [next EXCEPT ![ltail[t]] = node[t]] /\ Goto(t, "pushSwing")
     \/ next' = next /\ Goto(t, "pushTail")
  /\ UNCHANGED <<head, tail, job, memory, inside, locals, got>>

(* The compare-and-swaps on q->tail: behind a link, or (weakly) helping. *)
SwingTail(t, n) == IF tail = ltail[t] THEN n ELSE tail
PushSwing(t) ==
  /\ \/ pc[t] = "pushSwing" /\ tail' = SwingTail(t, node[t]) /\ Goto(t, "leave")
     \/ pc[t] = "pushHelp" /\ tail' \in {tail, SwingTail(t, lnext[t])} /\ Goto(t, "pushTail")
  /\ UNCHANGED <<head, next, job, memory, inside, locals, got, stale>>

-----------------------------------------------------------------------------
(* cwist_queue_pop *)

PopBegin(t) ==
  /\ pc[t] = "idle"
  /\ inside' = inside \cup {t}
  /\ Goto(t, "popHead")
  /\ UNCHANGED <<shared, memory, locals, got, stale>>

PopReadHead(t) ==
  /\ pc[t] = "popHead"
  /\ lhead' = [lhead EXCEPT ![t] = head]
  /\ Goto(t, "popTail")
  /\ UNCHANGED <<shared, memory, inside, ltail, lnext, node, got, stale>>

PopReadTail(t) ==
  /\ pc[t] = "popTail"
  /\ ltail' = [ltail EXCEPT ![t] = tail]
  /\ Goto(t, "popNext")
  /\ UNCHANGED <<shared, memory, inside, lhead, lnext, node, got, stale>>

(* head == tail with a node behind it: the tail lags and is swung first. *)
TailLagsIgnored(t) == FALSE
TailLags(t) == lhead[t] = ltail[t]

AtEnd(t) == next[lhead[t]] = Null

PopReadNext(t) ==
  /\ pc[t] = "popNext"
  /\ lnext' = [lnext EXCEPT ![t] = next[lhead[t]]]
  /\ Deref(lhead[t])
  /\ IF AtEnd(t)
     THEN got' = [got EXCEPT ![t] = Nothing] /\ Goto(t, "leave")
     ELSE got' = got /\ Goto(t, IF TailLags(t) THEN "popHelp" ELSE "popTake")
  /\ UNCHANGED <<shared, memory, inside, lhead, ltail, node>>

PopHelp(t) ==
  /\ pc[t] = "popHelp"
  /\ tail' \in {tail, SwingTail(t, lnext[t])}
  /\ Goto(t, "popHead")
  /\ UNCHANGED <<head, next, job, memory, inside, locals, got, stale>>

(* The compare-and-swap on q->head, again a weak one. *)
TakeSucceeds(t) == head = lhead[t]

PopTake(t) ==
  /\ pc[t] = "popTake"
  /\ \/ TakeSucceeds(t) /\ head' = lnext[t] /\ Goto(t, "popRetire")
     \/ head' = head /\ Goto(t, "popHead")
  /\ UNCHANGED <<tail, next, job, memory, inside, locals, got, stale>>

(* cwist_queue_defer_free: the old sentinel is staged, not freed. *)
Stage(n) == stageNew' = stageNew \cup {n} /\ free' = free

PopRetire(t) ==
  /\ pc[t] = "popRetire"
  /\ Stage(lhead[t])
  /\ Goto(t, "popCopy")
  /\ UNCHANGED <<shared, stageOld, retired, inside, locals, got, stale>>

(* The callback is copied out of the new sentinel inside the section. *)
PopCopy(t) ==
  /\ pc[t] = "popCopy"
  /\ got' = [got EXCEPT ![t] = job[lnext[t]]]
  /\ Deref(lnext[t])
  /\ Goto(t, "leave")
  /\ UNCHANGED <<shared, memory, inside, locals>>

-----------------------------------------------------------------------------
(* Epochs and reclamation. *)

(* ttak_epoch_exit; the locals go out of scope. *)
Leave(t) ==
  /\ pc[t] = "leave"
  /\ inside' = inside \ {t}
  /\ retired' = {[r EXCEPT !.guards = @ \ {t}] : r \in retired}
  /\ Goto(t, "idle")
  /\ lhead' = [lhead EXCEPT ![t] = Null] /\ ltail' = [ltail EXCEPT ![t] = Null]
  /\ lnext' = [lnext EXCEPT ![t] = Null] /\ node' = [node EXCEPT ![t] = Null]
  /\ UNCHANGED <<shared, free, stageNew, stageOld, got, stale>>

(* cwist_queue_reclaim by a consumer between pops, when it sees a new epoch: *)
(* the oldest stage is handed to ttak_epoch_retire and the stages shift.     *)
Reclaim(t) ==
  /\ pc[t] = "idle"
  /\ stageNew \cup stageOld # {}
  /\ retired' = retired \cup {[node |-> n, guards |-> inside] : n \in stageOld}
  /\ stageOld' = stageNew /\ stageNew' = {}
  /\ UNCHANGED <<shared, free, inside, pc, locals, got, stale>>

(* libttak frees a retired node nobody can still be reading. *)
GuardsIgnored(r) == TRUE
NoGuards(r) == r.guards = {}
TtakFree ==
  \E r \in retired :
    /\ NoGuards(r)
    /\ free' = free \cup {r.node}
    /\ retired' = retired \ {r}
    /\ UNCHANGED <<shared, stageNew, stageOld, inside, pc, locals, got, stale>>

-----------------------------------------------------------------------------
PushStep(t) == \/ PushBegin(t) \/ PushReadTail(t) \/ PushReadNext(t)
               \/ PushCheck(t) \/ PushLink(t) \/ PushSwing(t)
PopStep(t) == \/ PopBegin(t) \/ PopReadHead(t) \/ PopReadTail(t) \/ PopReadNext(t)
              \/ PopHelp(t) \/ PopTake(t) \/ PopRetire(t) \/ PopCopy(t) \/ Reclaim(t)

Next ==
  /\ \/ \E t \in crew.threads \cap Producers : PushStep(t)
     \/ \E t \in crew.threads \cap Consumers : PopStep(t)
     \/ \E t \in crew.threads : Leave(t)
     \/ TtakFree
  /\ UNCHANGED crew

Spec == Init /\ [][Next]_vars

-----------------------------------------------------------------------------
(* Properties. *)

Steps == {"idle", "leave", "pushTail", "pushNext", "pushCheck", "pushLink", "pushSwing",
          "pushHelp", "popHead", "popTail", "popNext", "popHelp", "popTake", "popRetire",
          "popCopy"}

TypeOK ==
  /\ head \in Nodes /\ tail \in Nodes
  /\ next \in [Nodes -> Nodes \cup {Null}] /\ job \in [Nodes -> Jobs]
  /\ free \subseteq Nodes /\ stageNew \subseteq Nodes /\ stageOld \subseteq Nodes
  /\ retired \subseteq [node : Nodes, guards : SUBSET Threads]
  /\ inside \subseteq Threads
  /\ pc \in [Threads -> Steps]
  /\ lhead \in [Threads -> Nodes \cup {Null}] /\ ltail \in [Threads -> Nodes \cup {Null}]
  /\ lnext \in [Threads -> Nodes \cup {Null}] /\ node \in [Threads -> Nodes \cup {Null}]
  /\ got \in [Consumers -> Jobs \cup {Nothing}]
  /\ stale \in BOOLEAN

(* The nodes from the sentinel to the end of the list; Null past the end. *)
Chain ==
  LET c[i \in 0..Cardinality(Nodes)] ==
        IF i = 0 THEN head ELSE IF c[i - 1] = Null THEN Null ELSE next[c[i - 1]]
  IN c
Linked == {Chain[i] : i \in DOMAIN Chain} \ {Null}

(* io_queue.c: "a preempted thread still holding the pointer ... blocks      *)
(* reclamation until it leaves".  No thread reads a freed node, and nothing  *)
(* reachable from the head is free or waiting to be freed.  A node is handed *)
(* on once: the stages, libttak's list and the allocator never hold it twice. *)
Reclaiming == {r.node : r \in retired}
NoReadAfterFree ==
  /\ ~stale
  /\ Linked \cap (free \cup stageNew \cup stageOld \cup Reclaiming) = {}
  /\ stageNew \cap stageOld = {}
  /\ (stageNew \cup stageOld) \cap Reclaiming = {}
  /\ (stageNew \cup stageOld \cup Reclaiming) \cap free = {}

(* The head never overtakes the tail, so a push never links behind a node    *)
(* that has been unlinked, and the tail lags by one node at most; every      *)
(* variable keeps its type.                                                  *)
TailInList == TypeOK /\ tail \in Linked /\ (next[tail] # Null => next[next[tail]] = Null)

(* The list is a first-in first-out queue: pushes take effect at the link,   *)
(* pops at the head's move, and an empty pop saw an empty queue.             *)
Items ==
  LET c == Chain
      size == Cardinality({i \in 1..Cardinality(Nodes) : c[i] # Null})
  IN [i \in 1..size |-> job[c[i]]]
Got == [c \in Consumers |-> IF pc[c] \in {"popRetire", "popCopy"} THEN job[lnext[c]] ELSE got[c]]

Fifo == INSTANCE JobFifo WITH items <- Items, got <- Got
ListIsFifo == Fifo!FifoSpec
=============================================================================
