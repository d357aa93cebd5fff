--------------------------- MODULE IoQueueProofs ---------------------------
(***************************************************************************)
(* Proofs about the job queue for any number of submitters, workers and    *)
(* jobs.  The inductive invariant has three parts: where each job is, that *)
(* the count follows the list, and who may still have to signal.           *)
(***************************************************************************)
EXTENDS IoQueue, FiniteSetTheorems, TLAPS

(* Submitters about to link their job. *)
Linking == {t \in Submitters : pc[t] = "link"}

(* The jobs that are with a linking submitter, listed, in a worker's hands or done. *)
Pushed == {pushing[t] : t \in Linking}
Listed == {items[i] : i \in DOMAIN items}
InHands == {got[w] : w \in InHand}
Placed == Pushed \cup Listed \cup InHands \cup ran

(* Every job is in one of these places at most, and has been submitted there. *)
OnePlace ==
  /\ \A s, t \in Linking : s # t => pushing[s] # pushing[t]
  /\ Pushed \cap (Listed \cup InHands \cup ran) = {}
  /\ Listed \cap ran = {}
  /\ Placed \subseteq submitted

(* A submitter inside its call, and a worker with a popped job, have one. *)
HandsFull ==
  /\ \A t \in Submitters : pc[t] \in {"link", "count", "signal"} => pushing[t] \in Jobs
  /\ \A w \in InHand : got[w] \in Jobs

(* Workers on the condition variable are in cwist_queue_wait. *)
SleepersSleep == \A w \in asleep : pc[w] = "sleep"

(* When all workers sleep and jobs are counted, a signal is on its way. *)
SignalComing ==
  (Workers # {} /\ asleep = Workers /\ pending # 0) =>
    \E t \in Submitters : pc[t] = "signal"

QueueInv ==
  /\ QueueTypeOK /\ JobOnce /\ OnePlace /\ HandsFull
  /\ PendingExact /\ SleepersSleep /\ SignalComing

(* A number is its remainder plus a multiple of the modulus, in one way. *)
LEMMA ModUnique ==
  ASSUME NEW W \in Nat \ {0}, NEW q \in Int, NEW r \in 0..(W - 1)
  PROVE  (W * q + r) % W = r
  OBVIOUS

(* The unsigned counter is the balance modulo its width after a step up or down. *)
LEMMA ModStep ==
  ASSUME NEW W \in Nat \ {0}, NEW b \in Int
  PROVE  /\ ((b % W) + 1) % W = (b + 1) % W
         /\ ((b % W) - 1) % W = (b - 1) % W
         /\ b % W \in 0..(W - 1)
<1> DEFINE q == b \div W
           r == b % W
<1>1. q \in Int /\ r \in 0..(W - 1) /\ b = W * q + r
  OBVIOUS
<1> HIDE DEF q, r
<1>2. (r + 1) % W = (b + 1) % W
  <2>1. CASE r + 1 < W
    <3>1. b + 1 = W * q + (r + 1) /\ r + 1 \in 0..(W - 1)
      BY <1>1, <2>1
    <3>2. (W * q + (r + 1)) % W = r + 1
      BY <1>1, <3>1, ModUnique
    <3>3. (r + 1) % W = r + 1
      BY <3>1
    <3> QED
      BY <3>1, <3>2, <3>3
  <2>2. CASE r + 1 = W
    <3>1. b + 1 = W * (q + 1) + 0 /\ r + 1 = W * 1 + 0
      BY <1>1, <2>2
    <3>2. (W * (q + 1) + 0) % W = 0
      BY <1>1, ModUnique, q + 1 \in Int, 0 \in 0..(W - 1)
    <3>3. (W * 1 + 0) % W = 0
      BY ModUnique, 1 \in Int, 0 \in 0..(W - 1)
    <3> QED
      BY <3>1, <3>2, <3>3
  <2> QED
    BY <1>1, <2>1, <2>2
<1>3. (r - 1) % W = (b - 1) % W
  <2>1. CASE r >= 1
    <3>1. b - 1 = W * q + (r - 1) /\ r - 1 \in 0..(W - 1)
      BY <1>1, <2>1
    <3>2. (W * q + (r - 1)) % W = r - 1
      BY <1>1, <3>1, ModUnique
    <3>3. (r - 1) % W = r - 1
      BY <3>1
    <3> QED
      BY <3>1, <3>2, <3>3
  <2>2. CASE r = 0
    <3>1. b - 1 = W * (q - 1) + (W - 1) /\ r - 1 = W * (-1) + (W - 1)
      BY <1>1, <2>2
    <3>2. (W * (q - 1) + (W - 1)) % W = W - 1
      BY <1>1, ModUnique, q - 1 \in Int, W - 1 \in 0..(W - 1)
    <3>3. (W * (-1) + (W - 1)) % W = W - 1
      BY ModUnique, -1 \in Int, W - 1 \in 0..(W - 1)
    <3> QED
      BY <3>1, <3>2, <3>3
  <2> QED
    BY <1>1, <2>1, <2>2
<1> QED
  BY <1>1, <1>2, <1>3 DEF r

(* A balance within the counter's width is what the counter shows. *)
LEMMA ModSmall ==
  ASSUME NEW W \in Nat \ {0}, NEW b \in 0..(W - 1)
  PROVE  b % W = b
  OBVIOUS
-----------------------------------------------------------------------------
(* What taking the oldest job leaves (cwist_queue_pop). *)
LEMMA TailFacts ==
  ASSUME NEW S, NEW q \in Seq(S), q # <<>>
  PROVE  /\ Len(q) \in Nat /\ Len(q) >= 1 /\ DOMAIN q = 1..Len(q)
         /\ Head(q) = q[1] /\ q[1] \in S
         /\ Tail(q) \in Seq(S) /\ Len(Tail(q)) = Len(q) - 1
         /\ DOMAIN Tail(q) = 1..(Len(q) - 1)
         /\ \A i \in 1..(Len(q) - 1) : Tail(q)[i] = q[i + 1]
<1>1. Len(q) \in Nat /\ Len(q) >= 1 /\ DOMAIN q = 1..Len(q) /\ Head(q) = q[1]
  OBVIOUS
<1>2. q[1] \in S
  BY <1>1
<1>3. Tail(q) \in Seq(S) /\ Len(Tail(q)) = Len(q) - 1
  OBVIOUS
<1>4. DOMAIN Tail(q) = 1..(Len(q) - 1)
  BY <1>3
<1>5. \A i \in 1..(Len(q) - 1) : Tail(q)[i] = q[i + 1]
  BY <1>1
<1> QED
  BY <1>1, <1>2, <1>3, <1>4, <1>5

(* What linking a job leaves (cwist_queue_push). *)
LEMMA AppendFacts ==
  ASSUME NEW S, NEW q \in Seq(S), NEW x \in S
  PROVE  /\ Len(q) \in Nat /\ DOMAIN q = 1..Len(q)
         /\ Append(q, x) \in Seq(S) /\ Len(Append(q, x)) = Len(q) + 1
         /\ DOMAIN Append(q, x) = 1..(Len(q) + 1)
         /\ \A i \in 1..Len(q) : Append(q, x)[i] = q[i]
         /\ Append(q, x)[Len(q) + 1] = x
  OBVIOUS

(* The number of threads at a step when one thread goes from one to another. *)
LEMMA AtMoves ==
  ASSUME QueueTypeOK, NEW t \in Submitters \cup Workers, NEW x, Goto(t, x),
         NEW T \in {Submitters, Workers}, NEW s
  PROVE  /\ At(T, s) \in Nat
         /\ t \in T /\ pc[t] = s /\ x # s => At(T, s)' = At(T, s) - 1
         /\ t \in T /\ pc[t] # s /\ x = s => At(T, s)' = At(T, s) + 1
         /\ t \notin T \/ (pc[t] # s /\ x # s) => At(T, s)' = At(T, s)
<1> DEFINE before == {u \in T : pc[u] = s}
           after == {u \in T : pc'[u] = s}
<1>1. IsFiniteSet(T) /\ T \subseteq Submitters \cup Workers
  BY IoQueueConstants
<1>2. \A u \in Submitters \cup Workers : pc'[u] = IF u = t THEN x ELSE pc[u]
  BY DEF Goto, QueueTypeOK
<1>3. IsFiniteSet(before) /\ IsFiniteSet(after)
  BY <1>1, FS_Subset
<1>4. Cardinality(before) \in Nat
  BY <1>3, FS_CardinalityType
<1>5. ASSUME t \in T, pc[t] = s, x # s
      PROVE  Cardinality(after) = Cardinality(before) - 1
  <2>1. after = before \ {t} /\ t \in before
    BY <1>1, <1>2, <1>5
  <2> HIDE DEF before, after
  <2>2. Cardinality(before \ {t}) = Cardinality(before) - 1
    BY <1>3, <2>1, FS_RemoveElement
  <2> QED
    BY <2>1, <2>2
<1>6. ASSUME t \in T, pc[t] # s, x = s
      PROVE  Cardinality(after) = Cardinality(before) + 1
  <2>1. after = before \cup {t} /\ t \notin before
    BY <1>1, <1>2, <1>6
  <2> HIDE DEF before, after
  <2>2. Cardinality(before \cup {t}) = Cardinality(before) + 1
    BY <1>3, <2>1, FS_AddElement
  <2> QED
    BY <2>1, <2>2
<1>7. ASSUME t \notin T \/ (pc[t] # s /\ x # s)
      PROVE  after = before
  BY <1>1, <1>2, <1>7
<1> QED
  BY <1>4, <1>5, <1>6, <1>7 DEF At

(* The counter can tell all the jobs apart. *)
LEMMA WidthFacts == Width \in Nat \ {0}
<1>1. Cardinality(Jobs) \in Nat /\ Cardinality(Workers) \in Nat
  BY IoQueueConstants, FS_CardinalityType
<1> QED
  BY <1>1, IoQueueConstants

(* The steps of threads after one of them moved. *)
LEMMA GotoFacts ==
  ASSUME QueueTypeOK, NEW t \in Submitters \cup Workers, NEW x, Goto(t, x)
  PROVE  /\ \A u \in Submitters \cup Workers : pc'[u] = IF u = t THEN x ELSE pc[u]
         /\ x \in {"idle", "link", "count", "signal", "check", "pop", "uncount",
                    "run", "wait", "sleep", "exited"}
              => pc' \in [Submitters \cup Workers ->
                            {"idle", "link", "count", "signal", "check", "pop", "uncount",
                             "run", "wait", "sleep", "exited"}]
  BY DEF Goto, QueueTypeOK

(* Submitters and workers are different threads. *)
LEMMA Apart == \A t \in Submitters : t \notin Workers
  BY IoQueueConstants

(* A thread that neither counts nor uncounts leaves the balance alone. *)
LEMMA PendingKept ==
  ASSUME QueueTypeOK, PendingExact, NEW t \in Submitters \cup Workers, NEW x, Goto(t, x),
         t \in Submitters => pc[t] # "count" /\ x # "count",
         t \in Workers => pc[t] # "uncount" /\ x # "uncount",
         items' = items, pending' = pending
  PROVE  PendingExact'
<1>1. At(Submitters, "count")' = At(Submitters, "count")
  BY AtMoves
<1>2. At(Workers, "uncount")' = At(Workers, "uncount")
  BY AtMoves
<1> QED
  BY <1>1, <1>2 DEF PendingExact

(* cwist_io_queue_submit of a job that is in no place yet. *)
LEMMA BeginKeeps ==
  ASSUME QueueInv, NEW t \in Submitters, NEW j \in Jobs \ Placed, SubmitBegin(t, j)
  PROVE  QueueInv' /\ Placed' = Placed \cup {j}
<1> USE DEF QueueInv
<1>1. /\ pc[t] = "idle" /\ Goto(t, "link") /\ pushing' = [pushing EXCEPT ![t] = j]
      /\ submitted' = submitted \cup {j}
      /\ UNCHANGED <<items, got, pending, running, asleep, accepted, stop, ran>>
  BY DEF SubmitBegin
<1>2. \A u \in Submitters \cup Workers : pc'[u] = IF u = t THEN "link" ELSE pc[u]
  BY <1>1, GotoFacts
<1>3. \A u \in Submitters : pushing'[u] = IF u = t THEN j ELSE pushing[u]
  BY <1>1 DEF QueueTypeOK
<1>4. QueueTypeOK'
  BY <1>1, GotoFacts DEF QueueTypeOK
<1>5. InHand' = InHand /\ Linking' = Linking \cup {t} /\ t \notin Linking
  BY <1>1, <1>2, Apart DEF InHand, Linking
<1>6. JobOnce'
  BY <1>1, <1>5 DEF JobOnce
<1>7. Pushed' = Pushed \cup {j} /\ Listed' = Listed /\ InHands' = InHands /\ ran' = ran
  <2>1. Pushed' = {pushing'[u] : u \in Linking \cup {t}}
    BY <1>5 DEF Pushed
  <2>2. \A u \in Linking : pushing'[u] = pushing[u]
    BY <1>3, <1>5 DEF Linking
  <2>3. Pushed' = Pushed \cup {j}
    BY <1>3, <2>1, <2>2 DEF Pushed
  <2> QED
    BY <1>1, <1>5, <2>3 DEF Listed, InHands
<1>8. OnePlace'
  BY <1>1, <1>3, <1>5, <1>7 DEF OnePlace, Placed, Pushed, Linking
<1>9. HandsFull'
  BY <1>1, <1>2, <1>3, <1>5 DEF HandsFull
<1>10. PendingExact'
  BY <1>1, Apart, PendingKept
<1>11. SleepersSleep' /\ SignalComing'
  BY <1>1, <1>2, Apart DEF SleepersSleep, SignalComing, QueueTypeOK
<1> QED
  BY <1>4, <1>6, <1>7, <1>8, <1>9, <1>10, <1>11 DEF Placed

(* The compare-and-swap that links the job (cwist_queue_push). *)
LEMMA LinkKeeps ==
  ASSUME QueueInv, NEW t \in Submitters, SubmitLink(t)
  PROVE  QueueInv' /\ Placed' = Placed
<1> USE DEF QueueInv
<1> DEFINE j == pushing[t]
<1>1. /\ pc[t] = "link" /\ Goto(t, "count") /\ items' = Append(items, j)
      /\ UNCHANGED <<got, pending, running, asleep, pushing, submitted, accepted, stop, ran>>
  BY DEF SubmitLink, Fifo!Push
<1>2. \A u \in Submitters \cup Workers : pc'[u] = IF u = t THEN "count" ELSE pc[u]
  BY <1>1, GotoFacts
<1>3. j \in Jobs /\ items \in Seq(Jobs) /\ t \in Linking
  BY <1>1 DEF HandsFull, QueueTypeOK, Linking
<1>4. /\ Len(items) \in Nat /\ DOMAIN items = 1..Len(items)
      /\ items' \in Seq(Jobs) /\ Len(items') = Len(items) + 1
      /\ DOMAIN items' = 1..(Len(items) + 1)
      /\ \A i \in 1..Len(items) : items'[i] = items[i]
      /\ items'[Len(items) + 1] = j
  BY <1>1, <1>3, AppendFacts
<1>5. QueueTypeOK'
  BY <1>1, <1>4, GotoFacts DEF QueueTypeOK
<1>6. InHand' = InHand /\ Linking' = Linking \ {t}
  BY <1>1, <1>2, Apart DEF InHand, Linking
<1>7. j \in Pushed /\ j \notin Listed /\ j \notin InHands /\ j \notin ran
  BY <1>3 DEF OnePlace, Pushed
<1>8. Pushed' = Pushed \ {j}
  BY <1>1, <1>3, <1>6 DEF Pushed, OnePlace
<1>9. Listed' = Listed \cup {j}
  BY <1>4 DEF Listed
<1>10. InHands' = InHands
  BY <1>1, <1>6 DEF InHands
<1>11. JobOnce'
  <2>1. \A i, k \in DOMAIN items' : i # k => items'[i] # items'[k]
    BY <1>4, <1>7 DEF JobOnce, Listed
  <2>2. \A w \in InHand : \A i \in DOMAIN items' : items'[i] # got[w]
    BY <1>4, <1>7 DEF JobOnce, InHands
  <2> QED
    BY <1>1, <1>6, <2>1, <2>2 DEF JobOnce
<1>12. Placed' = Placed
  BY <1>1, <1>7, <1>8, <1>9, <1>10 DEF Placed
<1>13. OnePlace'
  BY <1>1, <1>6, <1>7, <1>8, <1>9, <1>10, <1>12 DEF OnePlace
<1>14. HandsFull'
  BY <1>1, <1>2, <1>6 DEF HandsFull
<1>15. PendingExact'
  <2>1. At(Submitters, "count")' = At(Submitters, "count") + 1 /\ At(Submitters, "count") \in Nat
    BY <1>1, AtMoves
  <2>2. At(Workers, "uncount")' = At(Workers, "uncount") /\ At(Workers, "uncount") \in Nat
    BY <1>1, Apart, AtMoves
  <2>3. Len(items') - At(Submitters, "count")' + At(Workers, "uncount")'
          = Len(items) - At(Submitters, "count") + At(Workers, "uncount")
    BY <1>4, <2>1, <2>2
  <2> QED
    BY <1>1, <2>3 DEF PendingExact
<1>16. SleepersSleep' /\ SignalComing'
  BY <1>1, <1>2, Apart DEF SleepersSleep, SignalComing, QueueTypeOK
<1> QED
  BY <1>5, <1>11, <1>12, <1>13, <1>14, <1>15, <1>16

(* The job's place is not where its submitter or a worker that holds none is. *)
LEMMA PlacesKept ==
  ASSUME QueueInv, Linking' = Linking, InHand' = InHand,
         \A t \in Linking : pushing'[t] = pushing[t],
         UNCHANGED <<items, got, submitted, ran>>
  PROVE  JobOnce' /\ OnePlace' /\ Placed' = Placed
<1> USE DEF QueueInv
<1>1. Pushed' = Pushed
  BY DEF Pushed
<1>2. Listed' = Listed /\ InHands' = InHands
  BY DEF Listed, InHands
<1>3. Placed' = Placed
  BY <1>1, <1>2 DEF Placed
<1>4. JobOnce'
  BY DEF JobOnce
<1>5. OnePlace'
  BY <1>1, <1>2, <1>3 DEF OnePlace
<1> QED
  BY <1>3, <1>4, <1>5

(* The increment of pending_jobs, and the return when it was not zero. *)
LEMMA CountKeeps ==
  ASSUME QueueInv, NEW t \in Submitters, SubmitCount(t)
  PROVE  QueueInv' /\ Placed' = Placed
<1> USE DEF QueueInv
<1> DEFINE x == IF MustSignal THEN "signal" ELSE "idle"
<1>1. /\ pc[t] = "count" /\ Goto(t, x) /\ pending' = (pending + 1) % Width
      /\ UNCHANGED <<items, got, running, asleep, submitted, stop, ran>>
  BY DEF SubmitCount, Returns
<1>2. \A u \in Submitters \cup Workers : pc'[u] = IF u = t THEN x ELSE pc[u]
  BY <1>1, GotoFacts
<1>3. pushing[t] \in Jobs
  BY <1>1 DEF HandsFull
<1>4. /\ pushing' \in [Submitters -> Jobs \cup {Nothing}] /\ accepted' \subseteq Jobs
      /\ \A u \in Submitters : u # t \/ MustSignal => pushing'[u] = pushing[u]
  BY <1>3 DEF SubmitCount, Returns, QueueTypeOK
<1>5. Width \in Nat \ {0} /\ Len(items) \in Nat
  BY WidthFacts DEF QueueTypeOK
<1>6. QueueTypeOK'
  <2>1. pending' \in 0..(Width - 1)
    BY <1>1, <1>5 DEF QueueTypeOK
  <2>2. pc' \in [Submitters \cup Workers ->
                  {"idle", "link", "count", "signal", "check", "pop", "uncount",
                   "run", "wait", "sleep", "exited"}]
    BY <1>1, GotoFacts
  <2> QED
    BY <1>1, <1>4, <2>1, <2>2 DEF QueueTypeOK
<1>7. Linking' = Linking /\ InHand' = InHand /\ t \notin Linking
  BY <1>1, <1>2, Apart DEF Linking, InHand
<1>8. JobOnce' /\ OnePlace' /\ Placed' = Placed
  BY <1>1, <1>4, <1>7, PlacesKept DEF Linking
<1>9. HandsFull'
  BY <1>1, <1>2, <1>4, <1>7 DEF HandsFull
<1>10. PendingExact'
  <2>1. At(Submitters, "count")' = At(Submitters, "count") - 1 /\ At(Submitters, "count") \in Nat
    BY <1>1, AtMoves
  <2>2. At(Workers, "uncount")' = At(Workers, "uncount") /\ At(Workers, "uncount") \in Nat
    BY <1>1, Apart, AtMoves
  <2> DEFINE b == Len(items) - At(Submitters, "count") + At(Workers, "uncount")
  <2>3. b \in Int /\ Len(items') - At(Submitters, "count")' + At(Workers, "uncount")' = b + 1
    BY <1>1, <1>5, <2>1, <2>2
  <2>4. pending = b % Width
    BY DEF PendingExact
  <2> HIDE DEF b
  <2>5. pending' = (b + 1) % Width
    BY <1>1, <1>5, <2>3, <2>4, ModStep
  <2> QED
    BY <2>3, <2>5 DEF PendingExact
<1>11. SleepersSleep'
  BY <1>1, <1>2, Apart DEF SleepersSleep, QueueTypeOK
<1>12. SignalComing'
  <2>1. CASE pending = 0
    BY <1>2, <2>1 DEF SignalComing, MustSignal
  <2>2. CASE pending # 0
    BY <1>1, <1>2, <2>2 DEF SignalComing
  <2> QED
    BY <2>1, <2>2
<1> QED
  BY <1>6, <1>8, <1>9, <1>10, <1>11, <1>12

(* The signal to one sleeping worker, and the return. *)
LEMMA SignalKeeps ==
  ASSUME QueueInv, NEW t \in Submitters, SubmitSignal(t)
  PROVE  QueueInv' /\ Placed' = Placed
<1> USE DEF QueueInv
<1>1. /\ pc[t] = "signal" /\ Goto(t, "idle")
      /\ UNCHANGED <<items, got, pending, running, submitted, stop, ran>>
      /\ asleep' \subseteq asleep /\ (Workers # {} => asleep' # Workers)
  BY DEF SubmitSignal, Returns, QueueTypeOK
<1>2. \A u \in Submitters \cup Workers : pc'[u] = IF u = t THEN "idle" ELSE pc[u]
  BY <1>1, GotoFacts
<1>3. pushing[t] \in Jobs
  BY <1>1 DEF HandsFull
<1>4. /\ pushing' \in [Submitters -> Jobs \cup {Nothing}] /\ accepted' \subseteq Jobs
      /\ \A u \in Submitters : u # t => pushing'[u] = pushing[u]
  BY <1>3 DEF SubmitSignal, Returns, QueueTypeOK
<1>5. QueueTypeOK'
  BY <1>1, <1>4, GotoFacts DEF QueueTypeOK
<1>6. Linking' = Linking /\ InHand' = InHand /\ t \notin Linking
  BY <1>1, <1>2, Apart DEF Linking, InHand
<1>7. JobOnce' /\ OnePlace' /\ Placed' = Placed
  BY <1>1, <1>4, <1>6, PlacesKept DEF Linking
<1>8. HandsFull'
  BY <1>1, <1>2, <1>4, <1>6 DEF HandsFull
<1>9. PendingExact'
  BY <1>1, Apart, PendingKept
<1>10. SleepersSleep' /\ SignalComing'
  BY <1>1, <1>2, Apart DEF SleepersSleep, SignalComing, QueueTypeOK
<1> QED
  BY <1>5, <1>7, <1>8, <1>9, <1>10

-----------------------------------------------------------------------------
(* A worker without a job moves on and takes none; it sleeps on an empty count only. *)
LEMMA EmptyHandedKeeps ==
  ASSUME QueueInv, NEW w \in Workers, NEW x \in {"check", "pop", "wait", "sleep", "exited"},
         pc[w] \in {"check", "pop", "wait", "sleep"}, Goto(w, x),
         \/ asleep' = asleep /\ w \notin asleep
         \/ asleep' = asleep \cup {w} /\ x = "sleep" /\ pending = 0,
         got' = got \/ got' = [got EXCEPT ![w] = Nothing],
         UNCHANGED <<items, pending, running, pushing, submitted, accepted, stop, ran>>
  PROVE  QueueInv' /\ Placed' = Placed
<1> USE DEF QueueInv
<1>1. \A u \in Submitters \cup Workers : pc'[u] = IF u = w THEN x ELSE pc[u]
  BY GotoFacts
<1>2. \A v \in Workers : v # w => got'[v] = got[v]
  BY DEF QueueTypeOK
<1>3. QueueTypeOK'
  <2>1. pc' \in [Submitters \cup Workers ->
                  {"idle", "link", "count", "signal", "check", "pop", "uncount",
                   "run", "wait", "sleep", "exited"}]
    BY GotoFacts
  <2> QED
    BY <2>1 DEF QueueTypeOK
<1>4. Linking' = Linking /\ InHand' = InHand /\ w \notin InHand
  BY <1>1, Apart DEF Linking, InHand
<1>5. \A v \in InHand : got'[v] = got[v]
  BY <1>2, <1>4 DEF InHand
<1>6. Pushed' = Pushed /\ Listed' = Listed /\ InHands' = InHands
  BY <1>4, <1>5 DEF Pushed, Listed, InHands
<1>7. Placed' = Placed
  BY <1>6 DEF Placed
<1>8. JobOnce'
  BY <1>4, <1>5 DEF JobOnce
<1>9. OnePlace'
  BY <1>4, <1>6, <1>7 DEF OnePlace
<1>10. HandsFull'
  BY <1>1, <1>4, <1>5, Apart DEF HandsFull
<1>11. PendingExact'
  BY Apart, PendingKept
<1>12. SleepersSleep'
  BY <1>1 DEF SleepersSleep, QueueTypeOK
<1>13. SignalComing'
  BY <1>1, Apart DEF SignalComing, QueueTypeOK
<1> QED
  BY <1>3, <1>7, <1>8, <1>9, <1>10, <1>11, <1>12, <1>13

(* The pop of the oldest job (cwist_queue_pop). *)
LEMMA PopKeeps ==
  ASSUME QueueInv, NEW w \in Workers, pc[w] = "pop", Fifo!Pop(w), Goto(w, "uncount"),
         UNCHANGED <<pending, running, asleep, pushing, submitted, accepted, stop, ran>>
  PROVE  QueueInv' /\ Placed' = Placed
<1> USE DEF QueueInv
<1> DEFINE j == Head(items)
<1>1. items # <<>> /\ items' = Tail(items) /\ got' = [got EXCEPT ![w] = j]
  BY DEF Fifo!Pop
<1>2. \A u \in Submitters \cup Workers : pc'[u] = IF u = w THEN "uncount" ELSE pc[u]
  BY GotoFacts
<1>3. items \in Seq(Jobs)
  BY DEF QueueTypeOK
<1>4. /\ Len(items) \in Nat /\ Len(items) >= 1 /\ DOMAIN items = 1..Len(items)
      /\ j = items[1] /\ j \in Jobs
      /\ items' \in Seq(Jobs) /\ Len(items') = Len(items) - 1
      /\ DOMAIN items' = 1..(Len(items) - 1)
      /\ \A i \in 1..(Len(items) - 1) : items'[i] = items[i + 1]
  BY <1>1, <1>3, TailFacts
<1> HIDE DEF j
<1>5. \A v \in Workers : got'[v] = IF v = w THEN j ELSE got[v]
  BY <1>1 DEF QueueTypeOK
<1>6. QueueTypeOK'
  BY <1>1, <1>4, GotoFacts DEF QueueTypeOK
<1>7. Linking' = Linking /\ InHand' = InHand \cup {w} /\ w \notin InHand
  BY <1>2, Apart DEF Linking, InHand
<1>8. /\ \A i \in DOMAIN items' : i + 1 \in DOMAIN items /\ i + 1 # 1
      /\ 1 \in DOMAIN items /\ j \in Listed
  BY <1>4 DEF Listed
<1>9. \A i \in DOMAIN items' : items'[i] = items[i + 1]
  BY <1>4
<1>10. \A i, k \in DOMAIN items : i # k => items[i] # items[k]
  BY DEF JobOnce
<1>11. \A i \in DOMAIN items' : items'[i] # j
  BY <1>4, <1>8, <1>9, <1>10
<1>12. Pushed' = Pushed
  BY <1>7 DEF Pushed
<1>13. Listed' = Listed \ {j}
  <2>1. \A i \in DOMAIN items' : items'[i] \in Listed
    BY <1>8, <1>9 DEF Listed
  <2>2. \A k \in DOMAIN items : k # 1 => k - 1 \in DOMAIN items' /\ items'[k - 1] = items[k]
    BY <1>4
  <2>3. \A k \in DOMAIN items : items[k] # j => items[k] \in Listed'
    BY <1>4, <2>2 DEF Listed
  <2>4. Listed' = {items'[i] : i \in DOMAIN items'}
    BY DEF Listed
  <2> QED
    BY <1>11, <2>1, <2>3, <2>4 DEF Listed
<1>14. InHands' = InHands \cup {j}
  <2>1. \A v \in InHand : got'[v] = got[v]
    BY <1>5, <1>7 DEF InHand
  <2>2. InHands' = {got'[v] : v \in InHand \cup {w}}
    BY <1>7 DEF InHands
  <2> QED
    BY <1>5, <2>1, <2>2 DEF InHands
<1>15. Placed' = Placed
  BY <1>8, <1>12, <1>13, <1>14 DEF Placed
<1>16. JobOnce'
  <2>1. \A i, k \in DOMAIN items' : i # k => items'[i] # items'[k]
    <3>1. \A i, k \in DOMAIN items' : i # k => i + 1 # k + 1
      BY <1>4
    <3> QED
      BY <1>8, <1>9, <1>10, <3>1
  <2>2. j \notin ran /\ \A v \in InHand : got[v] # j
    BY <1>4, <1>8 DEF OnePlace, JobOnce
  <2>3. \A v \in InHand : got'[v] = got[v] /\ got[v] \notin ran
    BY <1>5, <1>7 DEF InHand, JobOnce
  <2>4. \A v \in InHand : \A i \in DOMAIN items' : items'[i] # got[v]
    BY <1>8, <1>9 DEF JobOnce
  <2>5. got'[w] = j
    BY <1>5
  <2>6. \A v, u \in InHand : v # u => got[v] # got[u]
    BY DEF JobOnce
  <2> QED
    BY <1>7, <1>11, <2>1, <2>2, <2>3, <2>4, <2>5, <2>6 DEF JobOnce
<1>17. OnePlace'
  BY <1>7, <1>8, <1>12, <1>13, <1>14, <1>15 DEF OnePlace
<1>18. HandsFull'
  BY <1>2, <1>4, <1>5, <1>7, Apart DEF HandsFull, InHand
<1>19. PendingExact'
  <2>1. At(Submitters, "count")' = At(Submitters, "count") /\ At(Submitters, "count") \in Nat
    BY Apart, AtMoves
  <2>2. At(Workers, "uncount")' = At(Workers, "uncount") + 1 /\ At(Workers, "uncount") \in Nat
    BY AtMoves
  <2>3. Len(items') - At(Submitters, "count")' + At(Workers, "uncount")'
          = Len(items) - At(Submitters, "count") + At(Workers, "uncount")
    BY <1>4, <2>1, <2>2
  <2> QED
    BY <2>3 DEF PendingExact
<1>20. SleepersSleep' /\ SignalComing'
  BY <1>2, Apart DEF SleepersSleep, SignalComing, QueueTypeOK
<1> QED
  BY <1>6, <1>15, <1>16, <1>17, <1>18, <1>19, <1>20

(* The decrement of pending_jobs after a pop. *)
LEMMA UncountKeeps ==
  ASSUME QueueInv, NEW w \in Workers, WorkerUncount(w)
  PROVE  QueueInv' /\ Placed' = Placed
<1> USE DEF QueueInv
<1>1. /\ pc[w] = "uncount" /\ Goto(w, "run") /\ pending' = (pending - 1) % Width
      /\ UNCHANGED <<items, got, running, asleep, pushing, submitted, accepted, stop, ran>>
  BY DEF WorkerUncount
<1>2. \A u \in Submitters \cup Workers : pc'[u] = IF u = w THEN "run" ELSE pc[u]
  BY <1>1, GotoFacts
<1>3. Width \in Nat \ {0} /\ Len(items) \in Nat
  BY WidthFacts DEF QueueTypeOK
<1>4. QueueTypeOK'
  <2>1. pending' \in 0..(Width - 1)
    BY <1>1, <1>3 DEF QueueTypeOK
  <2> QED
    BY <1>1, <2>1, GotoFacts DEF QueueTypeOK
<1>5. Linking' = Linking /\ InHand' = InHand
  BY <1>1, <1>2, Apart DEF Linking, InHand
<1>6. JobOnce' /\ OnePlace' /\ Placed' = Placed
  BY <1>1, <1>5, PlacesKept
<1>7. HandsFull'
  BY <1>1, <1>2, <1>5, Apart DEF HandsFull
<1>8. PendingExact'
  <2>1. At(Submitters, "count")' = At(Submitters, "count") /\ At(Submitters, "count") \in Nat
    BY <1>1, Apart, AtMoves
  <2>2. At(Workers, "uncount")' = At(Workers, "uncount") - 1 /\ At(Workers, "uncount") \in Nat
    BY <1>1, AtMoves
  <2> DEFINE b == Len(items) - At(Submitters, "count") + At(Workers, "uncount")
  <2>3. b \in Int /\ Len(items') - At(Submitters, "count")' + At(Workers, "uncount")' = b - 1
    BY <1>1, <1>3, <2>1, <2>2
  <2>4. pending = b % Width
    BY DEF PendingExact
  <2> HIDE DEF b
  <2>5. pending' = (b - 1) % Width
    BY <1>1, <1>3, <2>3, <2>4, ModStep
  <2> QED
    BY <2>3, <2>5 DEF PendingExact
<1>9. SleepersSleep' /\ SignalComing'
  BY <1>1, <1>2, Apart DEF SleepersSleep, SignalComing, QueueTypeOK
<1> QED
  BY <1>4, <1>6, <1>7, <1>8, <1>9

(* The callback of the popped job. *)
LEMMA RunKeeps ==
  ASSUME QueueInv, NEW w \in Workers, WorkerRun(w)
  PROVE  QueueInv' /\ Placed' = Placed
<1> USE DEF QueueInv
<1> DEFINE j == got[w]
<1>1. /\ pc[w] = "run" /\ Goto(w, "check") /\ ran' = ran \cup {j}
      /\ got' = [got EXCEPT ![w] = Nothing]
      /\ UNCHANGED <<items, pending, running, asleep, pushing, submitted, stop, accepted>>
  BY DEF WorkerRun
<1>2. \A u \in Submitters \cup Workers : pc'[u] = IF u = w THEN "check" ELSE pc[u]
  BY <1>1, GotoFacts
<1>3. w \in InHand /\ j \in Jobs /\ j \in InHands
  BY <1>1 DEF HandsFull, InHand, InHands
<1>4. QueueTypeOK'
  BY <1>1, <1>3, GotoFacts DEF QueueTypeOK
<1>5. Linking' = Linking /\ InHand' = InHand \ {w}
  BY <1>1, <1>2, Apart DEF Linking, InHand
<1>6. \A v \in InHand' : v \in InHand /\ v # w /\ got'[v] = got[v]
  BY <1>1, <1>5 DEF QueueTypeOK, InHand
<1>7. Pushed' = Pushed /\ Listed' = Listed
  BY <1>1, <1>5 DEF Pushed, Listed
<1>8. InHands' = InHands \ {j}
  <2>1. InHands' = {got[v] : v \in InHand \ {w}}
    BY <1>5, <1>6 DEF InHands
  <2>2. \A v \in InHand \ {w} : got[v] # j
    BY <1>3 DEF JobOnce
  <2> QED
    BY <2>1, <2>2 DEF InHands
<1>9. Placed' = Placed
  BY <1>1, <1>3, <1>7, <1>8 DEF Placed
<1>10. JobOnce'
  <2>1. \A v \in InHand' : got[v] # j
    BY <1>3, <1>6 DEF JobOnce
  <2> QED
    BY <1>1, <1>6, <2>1 DEF JobOnce
<1>11. OnePlace'
  <2>1. j \notin Listed /\ j \notin Pushed
    BY <1>3 DEF OnePlace, JobOnce, Listed
  <2> QED
    BY <1>1, <1>5, <1>7, <1>8, <1>9, <2>1 DEF OnePlace
<1>12. HandsFull'
  BY <1>1, <1>2, <1>6, Apart DEF HandsFull
<1>13. PendingExact'
  BY <1>1, Apart, PendingKept
<1>14. SleepersSleep' /\ SignalComing'
  BY <1>1, <1>2, Apart DEF SleepersSleep, SignalComing, QueueTypeOK
<1> QED
  BY <1>4, <1>9, <1>10, <1>11, <1>12, <1>13, <1>14

(* Every pass of the loop of cwist_io_queue_run. *)
LEMMA WorkerKeeps ==
  ASSUME QueueInv, NEW w \in Workers, WorkerStep(w)
  PROVE  QueueInv' /\ Placed' = Placed
<1> USE DEF QueueInv
<1>1. CASE WorkerCheck(w)
  <2>1. w \notin asleep
    BY <1>1 DEF WorkerCheck, SleepersSleep
  <2> QED
    BY <1>1, <2>1, EmptyHandedKeeps DEF WorkerCheck
<1>2. CASE WorkerPop(w)
  <2>1. w \notin asleep
    BY <1>2 DEF WorkerPop, SleepersSleep
  <2>2. CASE Fifo!Pop(w) /\ Goto(w, "uncount")
    BY <1>2, <2>2, PopKeeps DEF WorkerPop
  <2>3. CASE Fifo!PopEmpty(w) /\ Goto(w, "wait")
    BY <1>2, <2>1, <2>3, EmptyHandedKeeps DEF WorkerPop, Fifo!PopEmpty
  <2> QED
    BY <1>2, <2>2, <2>3 DEF WorkerPop
<1>3. CASE WorkerUncount(w)
  BY <1>3, UncountKeeps
<1>4. CASE WorkerRun(w)
  BY <1>4, RunKeeps
<1>5. CASE WorkerWait(w)
  <2>1. w \notin asleep
    BY <1>5 DEF WorkerWait, SleepersSleep
  <2>2. CASE MaySleep
    BY <1>5, <2>2, EmptyHandedKeeps DEF WorkerWait, MaySleep
  <2>3. CASE ~MaySleep
    BY <1>5, <2>1, <2>3, EmptyHandedKeeps DEF WorkerWait
  <2> QED
    BY <2>2, <2>3
<1> QED
  BY <1>1, <1>2, <1>3, <1>4, <1>5 DEF WorkerStep

(* Every step of a submission under way. *)
LEMMA SubmitKeeps ==
  ASSUME QueueInv, NEW t \in Submitters, SubmitStep(t)
  PROVE  QueueInv' /\ Placed' = Placed
  BY LinkKeeps, CountKeeps, SignalKeeps DEF SubmitStep

(* The two halves of cwist_io_queue_stop. *)
LEMMA StopKeeps ==
  ASSUME QueueInv, StopFlag \/ StopBroadcast
  PROVE  QueueInv' /\ Placed' = Placed
<1> USE DEF QueueInv
<1>1. /\ UNCHANGED <<items, got, pending, pc, pushing, submitted, accepted, ran>>
      /\ asleep' = asleep \/ asleep' = {}
      /\ QueueTypeOK'
  BY DEF StopFlag, StopBroadcast, QueueTypeOK
<1>2. Linking' = Linking /\ InHand' = InHand
  BY <1>1 DEF Linking, InHand
<1>3. JobOnce' /\ OnePlace' /\ Placed' = Placed
  BY <1>1, <1>2, PlacesKept
<1>4. HandsFull' /\ PendingExact'
  BY <1>1, <1>2 DEF HandsFull, PendingExact, At
<1>5. SleepersSleep' /\ SignalComing'
  BY <1>1 DEF SleepersSleep, SignalComing
<1> QED
  BY <1>1, <1>3, <1>4, <1>5

(* What others may do beside the queue: note a job as submitted, and use the *)
(* hands of a thread that is in no call.                                     *)
LEMMA BesideKeeps ==
  ASSUME QueueInv, submitted \subseteq submitted', submitted' \subseteq Jobs,
         pushing' \in [Submitters -> Jobs \cup {Nothing}],
         \A t \in Submitters : pc[t] # "idle" => pushing'[t] = pushing[t],
         UNCHANGED <<items, got, pending, running, asleep, pc, accepted, stop, ran>>
  PROVE  QueueInv' /\ Placed' = Placed
<1> USE DEF QueueInv
<1>1. QueueTypeOK'
  BY DEF QueueTypeOK
<1>2. Linking' = Linking /\ InHand' = InHand
  BY DEF Linking, InHand
<1>3. Pushed' = Pushed /\ Listed' = Listed /\ InHands' = InHands
  BY <1>2 DEF Pushed, Listed, InHands, Linking
<1>4. Placed' = Placed
  BY <1>3 DEF Placed
<1>5. JobOnce'
  BY <1>2 DEF JobOnce
<1>6. OnePlace'
  BY <1>2, <1>3, <1>4 DEF OnePlace, Linking
<1>7. HandsFull' /\ PendingExact'
  BY <1>2 DEF HandsFull, PendingExact, At
<1>8. SleepersSleep' /\ SignalComing'
  BY DEF SleepersSleep, SignalComing
<1> QED
  BY <1>1, <1>4, <1>5, <1>6, <1>7, <1>8

-----------------------------------------------------------------------------
(* cwist_io_queue_create. *)
LEMMA QueueStart ==
  ASSUME QueueInit
  PROVE  QueueInv /\ Placed = {}
<1> USE DEF QueueInit, Fifo!FifoInit
<1>1. QueueTypeOK
  BY WidthFacts DEF QueueTypeOK
<1>2. Linking = {} /\ InHand = {} /\ DOMAIN items = {} /\ Len(items) = 0
  BY Apart DEF Linking, InHand
<1>3. Placed = {}
  BY <1>2 DEF Placed, Pushed, Listed, InHands
<1>4. JobOnce /\ OnePlace
  BY <1>2, <1>3 DEF JobOnce, OnePlace, Placed
<1>5. HandsFull
  BY <1>2 DEF HandsFull
<1>6. PendingExact
  <2>1. At(Submitters, "count") = 0 /\ At(Workers, "uncount") = 0
    <3>1. {t \in Submitters : pc[t] = "count"} = {} /\ {w \in Workers : pc[w] = "uncount"} = {}
      OBVIOUS
    <3> QED
      BY <3>1, FS_EmptySet DEF At
  <2>2. 0 % Width = 0
    BY WidthFacts
  <2> QED
    BY <1>2, <2>1, <2>2 DEF PendingExact
<1>7. SleepersSleep /\ SignalComing
  BY DEF SleepersSleep, SignalComing
<1> QED
  BY <1>1, <1>3, <1>4, <1>5, <1>6, <1>7 DEF QueueInv

(* The list holds each job once, so the count cannot wrap while nobody is between *)
(* the list and the count.                                                        *)
LEMMA ListFits ==
  ASSUME QueueInv
  PROVE  Len(items) \in Nat /\ Len(items) < Width
<1>1. items \in [1..Len(items) -> Jobs] /\ Len(items) \in Nat
  BY DEF QueueInv, QueueTypeOK
<1>2. items \in Injection(1..Len(items), Jobs)
  BY <1>1 DEF QueueInv, JobOnce, Injection, IsInjective
<1>3. Cardinality(1..Len(items)) <= Cardinality(Jobs)
  BY <1>2, IoQueueConstants, FS_Injection
<1>4. Cardinality(1..Len(items)) = Len(items)
  <2> DEFINE n == Len(items)
  <2>1. n \in Nat
    BY <1>1
  <2> HIDE DEF n
  <2>2. Cardinality(1..n) = IF 1 > n THEN 0 ELSE n - 1 + 1
    BY <2>1, FS_Interval
  <2>3. Cardinality(1..n) = n
    BY <2>1, <2>2
  <2> QED
    BY <2>3 DEF n
<1>5. Cardinality(Jobs) \in Nat /\ Cardinality(Workers) \in Nat
  BY IoQueueConstants, FS_CardinalityType
<1> QED
  BY <1>1, <1>3, <1>4, <1>5, IoQueueConstants

(* The invariant rules out a lost wake-up. *)
LEMMA NoWakeupLost ==
  ASSUME QueueInv
  PROVE  NoLostWakeup
<1>1. SUFFICES ASSUME Workers # {}, asleep = Workers, items # <<>>,
                      \A t \in Submitters : pc[t] \notin {"count", "signal"}
               PROVE  FALSE
  BY DEF NoLostWakeup
<1>2. At(Submitters, "count") = 0 /\ At(Workers, "uncount") = 0
  <2>1. {t \in Submitters : pc[t] = "count"} = {} /\ {w \in Workers : pc[w] = "uncount"} = {}
    BY <1>1 DEF QueueInv, SleepersSleep
  <2> QED
    BY <2>1, FS_EmptySet DEF At
<1>3. Len(items) \in Nat /\ Len(items) < Width /\ Len(items) # 0
  BY <1>1, ListFits DEF QueueInv, QueueTypeOK
<1>4. Len(items) % Width = Len(items)
  BY <1>3, WidthFacts, ModSmall
<1>5. pending = Len(items)
  BY <1>2, <1>3, <1>4 DEF QueueInv, PendingExact
<1> QED
  BY <1>1, <1>3, <1>5 DEF QueueInv, SignalComing

(* For any submitters, workers and jobs: a job is in one place, pending_jobs    *)
(* follows the list through its wrap below zero, and no wake-up of a worker is  *)
(* lost although only the submission that finds the count at zero signals.      *)
THEOREM QueueCorrect == QueueSpec => [](JobOnce /\ PendingExact /\ NoLostWakeup)
<1>1. QueueInit => QueueInv
  BY QueueStart
<1>2. QueueInv /\ [QueueNext]_queueVars => QueueInv'
  <2> SUFFICES ASSUME QueueInv, [QueueNext]_queueVars
               PROVE  QueueInv'
    OBVIOUS
  <2>1. ASSUME NEW t \in Submitters, NEW j \in Jobs \ submitted, SubmitBegin(t, j)
        PROVE  QueueInv'
    <3>1. j \in Jobs \ Placed
      BY DEF QueueInv, OnePlace
    <3> QED
      BY <2>1, <3>1, BeginKeeps
  <2>2. ASSUME NEW t \in Submitters, NEW j \in Jobs, SubmitRefused(t, j)
        PROVE  QueueInv'
    BY <2>2, BesideKeeps DEF SubmitRefused, QueueInv, QueueTypeOK
  <2>3. ASSUME NEW t \in Submitters, SubmitStep(t)
        PROVE  QueueInv'
    BY <2>3, SubmitKeeps
  <2>4. ASSUME NEW w \in Workers, WorkerStep(w)
        PROVE  QueueInv'
    BY <2>4, WorkerKeeps
  <2>5. CASE StopFlag \/ StopBroadcast
    BY <2>5, StopKeeps
  <2>6. CASE UNCHANGED queueVars
    BY <2>6, BesideKeeps DEF queueVars, QueueInv, QueueTypeOK
  <2> QED
    BY <2>1, <2>2, <2>3, <2>4, <2>5, <2>6 DEF QueueNext
<1>3. QueueInv => JobOnce /\ PendingExact /\ NoLostWakeup
  BY NoWakeupLost DEF QueueInv
<1> QED
  BY <1>1, <1>2, <1>3, PTL DEF QueueSpec
=============================================================================
