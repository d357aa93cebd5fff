------------------------------ MODULE LogAsync ------------------------------
(* The background log writer (sys/app/log_async.c): callers copy lines into  *)
(* one byte ring per stream under g_lock, a writer thread writes the rings   *)
(* out with the lock released, and control threads start, flush and stop it. *)
(* Bytes are modelled one by one, as <<line, position>>, for lines must stay *)
(* whole across the ring's wrap.  Every critical section is one step.  A     *)
(* refused line goes through stdio, whose buffer keeps it for a while.       *)
EXTENDS Integers, Sequences, FiniteSets, SequencesExt

CONSTANTS
  Fds,           \* the streams, 1..LOG_ASYNC_STREAMS
  Callers,       \* threads that log
  Controls,      \* threads that start, flush and stop the writer
  Programs       \* what they do and meet, see below

(* script[t]: the lines [fd, len] a caller logs, in order; caps: ring sizes  *)
(* start is called with; ops[k]: the calls control thread k makes, of        *)
(* "start", "flush", "stop", "fork" and "exit", calls of them at most in     *)
(* all; fails: what fails at times, of "write" (write(2)) and "thread"       *)
(* (pthread_create).                                                         *)
ASSUME LogConstants ==
  /\ Fds \subseteq Nat \ {0}
  /\ \A p \in Programs : p.caps \subseteq Nat \ {0} /\ DOMAIN p.ops = Controls
  /\ \A p \in Programs, t \in Callers :
       \A i \in DOMAIN p.script[t] : p.script[t][i].fd \in Fds

VARIABLES
  buf, cap, head, tail,        \* the rings; cap 0 when there are none
  active, stopping, alive,     \* g_active, g_stopping, g_writer_alive
  wpc, chunk,                  \* the writer: its step, and the bytes it is writing
  pos, cpc,                    \* each caller: lines done, and step
  kpc, seen,                   \* each control thread: step, and bytes its flush waits for
  spaceWait,                   \* threads waiting on g_space
  ops,
  out,                         \* bytes on each stream
  stdio,                       \* bytes in each stream's stdio buffer
  inherited,                   \* what stdio held when this process was forked
  overlapped,                  \* a start has come while a stop was joining the writer
  prog,                        \* the member of Programs at hand
  order                        \* lines in the order their submit was decided

streams == <<out, stdio, inherited>>
vars == <<buf, cap, head, tail, active, stopping, alive, wpc, chunk, pos, cpc, kpc, seen,
          spaceWait, ops, streams, order, overlapped, prog>>

rings == <<buf, cap, head, tail>>
callers == <<pos, cpc>>
controls == <<kpc, seen, ops>>

Junk == <<>>

(* The program logs its first line after cwist_log_async_start. *)
Init ==
  /\ prog \in Programs /\ cap \in prog.caps
  /\ buf = [f \in Fds |-> [i \in 1..cap |-> Junk]]
  /\ head = [f \in Fds |-> 0] /\ tail = [f \in Fds |-> 0]
  /\ active = TRUE /\ stopping = FALSE /\ alive = TRUE
  /\ wpc = "start" /\ chunk = [fd |-> 1, bytes |-> <<>>]
  /\ pos = [t \in Callers |-> 0] /\ cpc = [t \in Callers |-> "idle"]
  /\ kpc = [k \in Controls |-> "idle"] /\ seen = [k \in Controls |-> {}]
  /\ spaceWait = {} /\ ops = 0
  /\ out = [f \in Fds |-> <<>>] /\ order = [f \in Fds |-> <<>>]
  /\ stdio = [f \in Fds |-> <<>>] /\ inherited = [f \in Fds |-> <<>>]
  /\ overlapped = FALSE

Line(t) == prog.script[t][pos[t] + 1]
Name(t) == <<t, pos[t] + 1>>
Bytes(t) == [k \in 1..Line(t).len |-> <<Name(t), k>>]

Empty(h, l) == h = l
Cell(i) == (i % cap) + 1

-----------------------------------------------------------------------------
(* log_writer_main *)

(* The bytes up to the ring's wrap; a tail ahead of the head is a huge       *)
(* unsigned length.                                                          *)
ChunkPastWrap(f, l) ==
  SubSeq(buf[f] \o [i \in 1..cap |-> Junk], Cell(l), (l % cap) + (head[f] - l))
Chunk(f, l) ==
  LET off == l % cap
      len == IF head[f] >= l /\ head[f] - l <= cap - off THEN head[f] - l ELSE cap - off
  IN SubSeq(buf[f], off + 1, off + len)

(* The scan goes on from ring f; past the last ring the loop starts over. *)
Waiting(f, l) == {g \in Fds : head[g] # l[g] /\ g >= f}
NextRing(f, l) ==
  IF Waiting(f, l) # {} THEN CHOOSE g \in Waiting(f, l) : \A x \in Waiting(f, l) : g <= x
  ELSE CHOOSE g \in Waiting(0, l) : \A x \in Waiting(0, l) : g <= x

(* rings_empty, on which the loop waits or ends. *)
Drained(l) == Empty(head, l)

(* From the scan at ring f, with tails l, to the next unlock: a write with   *)
(* the lock released, a wait for work, or the exit.                          *)
WriterOn(f, l) ==
  \/ /\ ~Drained(l)
     /\ wpc' = "write"
     /\ LET g == NextRing(f, l) IN chunk' = [fd |-> g, bytes |-> Chunk(g, l[g])]
  \/ /\ Drained(l)
     /\ wpc' = IF stopping THEN "exited" ELSE "wait"
     /\ chunk' = [fd |-> 1, bytes |-> <<>>]

WriterStart ==
  /\ wpc \in {"start", "woken"}
  /\ WriterOn(1, tail)
  /\ UNCHANGED <<rings, active, stopping, alive, callers, controls, spaceWait, streams, order, overlapped>>

(* write_all, with g_lock released; on an error it gives up on the rest. *)
WriterWrite ==
  /\ wpc = "write"
  /\ \E n \in 0..Len(chunk.bytes) :
       /\ n < Len(chunk.bytes) => "write" \in prog.fails
       /\ out' = [out EXCEPT ![chunk.fd] = @ \o SubSeq(chunk.bytes, 1, n)]
  /\ wpc' = "written"
  /\ UNCHANGED <<rings, active, stopping, alive, chunk, callers, controls, spaceWait, stdio,
                 inherited, order, overlapped>>

(* The tail moves after the write, and everyone waiting for space wakes. *)
Advanced == [tail EXCEPT ![chunk.fd] = @ + Len(chunk.bytes)]
SpaceKept == spaceWait
SpaceWoken == {}
WriterAdvance ==
  /\ wpc = "written"
  /\ tail' = Advanced /\ spaceWait' = SpaceWoken
  /\ WriterOn(chunk.fd, Advanced)
  /\ UNCHANGED <<buf, cap, head, active, stopping, alive, callers, controls, streams, order, overlapped>>

Writer == WriterStart \/ WriterWrite \/ WriterAdvance

-----------------------------------------------------------------------------
(* cwist_log_async_submit and the call site *)

(* The writer is signalled when every ring was empty. *)
SignalsNever(f) == FALSE
Signals(f) == wpc = "wait" /\ Empty(head, tail)

HasSpace(t) == cap - (head[Line(t).fd] - tail[Line(t).fd]) >= Line(t).len

Decided(t) == order' = [order EXCEPT ![Line(t).fd] = Append(@, Name(t))]

(* The copy into the ring, around the wrap. *)
CopyIn(t) == LET f == Line(t).fd IN
  /\ buf' = [buf EXCEPT ![f] = [i \in 1..cap |->
       IF \E k \in 1..Line(t).len : Cell(head[f] + k - 1) = i
       THEN <<Name(t), CHOOSE k \in 1..Line(t).len : Cell(head[f] + k - 1) = i>>
       ELSE @[i]]]
  /\ head' = [head EXCEPT ![f] = @ + Line(t).len]

Queue(t) ==
  /\ CopyIn(t) /\ Decided(t)
  /\ cpc' = [cpc EXCEPT ![t] = "idle"] /\ pos' = [pos EXCEPT ![t] = @ + 1]
  /\ UNCHANGED <<cap, tail, spaceWait>>

Refuse(t) ==
  /\ Decided(t)
  /\ cpc' = [cpc EXCEPT ![t] = "sync"]
  /\ UNCHANGED <<rings, wpc, pos, spaceWait>>

WaitForSpace(t) ==
  /\ spaceWait' = spaceWait \cup {t}
  /\ cpc' = [cpc EXCEPT ![t] = "space"]
  /\ UNCHANGED <<rings, pos, order>>

Signal(t) == wpc' = IF Signals(Line(t).fd) THEN "woken" ELSE wpc

(* spawn_writer *)
SpawnWriter == alive' = TRUE /\ wpc' = IF alive THEN wpc ELSE "start"

(* The first line of a forked child starts its writer; when pthread_create   *)
(* fails the line is refused.                                                *)
Submit(t) ==
  /\ cpc[t] = "idle" /\ pos[t] < Len(prog.script[t])
  /\ \/ (~active \/ Line(t).len > cap) /\ Refuse(t) /\ alive' = alive
     \/ /\ active /\ Line(t).len <= cap /\ ~alive /\ "thread" \in prog.fails
        /\ Refuse(t) /\ alive' = alive
     \/ /\ active /\ Line(t).len <= cap /\ HasSpace(t) /\ Queue(t)
        /\ IF alive THEN Signal(t) /\ alive' = alive ELSE SpawnWriter
     \/ active /\ Line(t).len <= cap /\ ~HasSpace(t) /\ WaitForSpace(t) /\ SpawnWriter
  /\ UNCHANGED <<active, stopping, chunk, controls, streams, overlapped>>

(* Woken from g_space: the space is tested again, the length is not. *)
SubmitWoken(t) ==
  /\ cpc[t] = "space" /\ t \notin spaceWait
  /\ \/ ~active /\ Refuse(t)
     \/ active /\ HasSpace(t) /\ Queue(t) /\ Signal(t)
     \/ active /\ ~HasSpace(t) /\ WaitForSpace(t) /\ UNCHANGED wpc
  /\ UNCHANGED <<active, stopping, alive, chunk, controls, streams, overlapped>>

(* fwrite: stdio passes on a first part of its bytes, all of them on a TTY,  *)
(* and keeps the rest.                                                       *)
SyncWrite(t) == LET f == Line(t).fd IN
  /\ cpc[t] = "sync"
  /\ \E n \in 0..(Len(stdio[f]) + Line(t).len) :
       /\ out' = [out EXCEPT ![f] = @ \o SubSeq(stdio[f] \o Bytes(t), 1, n)]
       /\ stdio' = [stdio EXCEPT ![f] = SubSeq(@ \o Bytes(t), n + 1, Len(@) + Line(t).len)]
  /\ cpc' = [cpc EXCEPT ![t] = "idle"] /\ pos' = [pos EXCEPT ![t] = @ + 1]
  /\ UNCHANGED <<rings, active, stopping, alive, wpc, chunk, controls, spaceWait, inherited,
                 order, overlapped>>

Caller(t) == SubmitWoken(t) \/ SyncWrite(t)

-----------------------------------------------------------------------------
(* cwist_log_async_start, _flush and _stop *)

Made(op) == \E k \in Controls : op \in prog.ops[k]
Count(op) == Made(op) /\ ops < prog.calls /\ ops' = ops + 1
Call(op, k, step) ==
  Count(op) /\ op \in prog.ops[k] /\ kpc[k] = "idle" /\ kpc' = [kpc EXCEPT ![k] = step]

(* A start while another thread's stop joins the writer finds g_writer_alive *)
(* set, resets the rings and g_stopping under that writer, and has no writer *)
(* of its own: the behaviour is followed up to here.                         *)
Joining == \E k \in Controls : kpc[k] \in {"join", "free"}
Start(k, c) ==
  /\ Call("start", k, "idle") /\ ~active
  /\ buf' = [f \in Fds |-> [i \in 1..c |-> Junk]] /\ cap' = c
  /\ head' = [f \in Fds |-> 0] /\ tail' = [f \in Fds |-> 0]
  /\ active' = TRUE /\ stopping' = FALSE /\ SpawnWriter
  /\ overlapped' = Joining
  /\ UNCHANGED <<chunk, callers, seen, spaceWait, streams, order>>

(* No memory or no thread: logging stays synchronous.  The sizes a failed    *)
(* start leaves in the rings are not read before the next one sets them.     *)
StartFails(k) ==
  /\ "thread" \in prog.fails
  /\ Call("start", k, "idle") /\ ~active /\ overlapped' = Joining
  /\ stopping' \in {stopping, FALSE}
  /\ UNCHANGED <<rings, active, alive, wpc, chunk, callers, seen, spaceWait, streams, order>>

(* Bytes of f queued and not yet written. *)
Queued == UNION {{buf[f][Cell(i)] : i \in tail[f]..(head[f] - 1)} : f \in Fds}
FlushLooksNever == TRUE
FlushDone == ~(active /\ alive /\ ~Empty(head, tail))

FlushBegin(k) ==
  /\ Call("flush", k, "flush")
  /\ seen' = [seen EXCEPT ![k] = Queued]
  /\ UNCHANGED <<rings, active, stopping, alive, wpc, chunk, callers, spaceWait, streams, order, overlapped>>

Flush(k) ==
  /\ kpc[k] = "flush" /\ k \notin spaceWait
  /\ IF FlushDone
     THEN kpc' = [kpc EXCEPT ![k] = "flushed"] /\ spaceWait' = spaceWait
     ELSE kpc' = kpc /\ spaceWait' = spaceWait \cup {k}
  /\ UNCHANGED <<rings, active, stopping, alive, wpc, chunk, callers, seen, ops, streams, order, overlapped>>

FlushReturn(k) ==
  /\ kpc[k] = "flushed"
  /\ kpc' = [kpc EXCEPT ![k] = "idle"] /\ seen' = [seen EXCEPT ![k] = {}]
  /\ UNCHANGED <<rings, active, stopping, alive, wpc, chunk, callers, spaceWait, ops, streams, order, overlapped>>

StopWakesWriter == IF wpc = "wait" THEN "woken" ELSE wpc

Stop(k) ==
  /\ active
  /\ Call("stop", k, IF alive THEN "join" ELSE "free")
  /\ active' = FALSE /\ stopping' = TRUE
  /\ spaceWait' = {} /\ wpc' = StopWakesWriter
  /\ UNCHANGED <<rings, alive, chunk, callers, seen, streams, order, overlapped>>

StopFree(k) ==
  /\ kpc[k] = "free" \/ (kpc[k] = "join" /\ wpc = "exited")
  /\ kpc' = [kpc EXCEPT ![k] = "idle"]
  /\ wpc' = "none" /\ alive' = FALSE
  /\ buf' = [f \in Fds |-> <<>>] /\ cap' = 0
  /\ head' = [f \in Fds |-> 0] /\ tail' = [f \in Fds |-> 0]
  /\ UNCHANGED <<active, stopping, chunk, callers, seen, spaceWait, ops, streams, order, overlapped>>

(* fork, by caller t between two lines; from here on the child is followed.  *)
(* atfork_child drops the parent's queued bytes, which the parent writes,    *)
(* and the writer, which the child does not have; nor are there other        *)
(* callers.  stdio has no such hook: the child keeps a copy of its buffers.  *)
(* The child may flush, stop and exit too.  Its own output is what is        *)
(* recorded.                                                                 *)
ChildKeepsBytes == tail
ChildTail == head
Fork(t) ==
  /\ Count("fork") /\ cpc[t] = "idle"
  /\ tail' = ChildTail /\ alive' = FALSE /\ wpc' = "none" /\ spaceWait' = {}
  /\ cpc' = [u \in Callers |-> IF u = t THEN "idle" ELSE "gone"]
  /\ kpc' = [k \in Controls |-> "idle"] /\ seen' = [k \in Controls |-> {}]
  /\ out' = [f \in Fds |-> <<>>] /\ order' = [f \in Fds |-> <<>>] /\ inherited' = stdio
  /\ UNCHANGED <<buf, cap, head, active, stopping, chunk, pos, stdio, overlapped>>

(* exit, with no thread inside a call, once the atexit hook's Stop is over:  *)
(* stdio's buffers are written and the process is gone.                      *)
Exit ==
  /\ Count("exit") /\ ~active
  /\ \A t \in Callers : cpc[t] \in {"idle", "gone"}
  /\ \A k \in Controls : kpc[k] = "idle"
  /\ out' = [f \in Fds |-> out[f] \o stdio[f]] /\ stdio' = [f \in Fds |-> <<>>]
  /\ cpc' = [t \in Callers |-> "gone"] /\ kpc' = [k \in Controls |-> "gone"]
  /\ UNCHANGED <<rings, active, stopping, alive, wpc, chunk, pos, seen, spaceWait, inherited,
                 order, overlapped>>

Control(k) == Flush(k) \/ FlushReturn(k) \/ StopFree(k)
Runs(A) == A /\ ~overlapped /\ UNCHANGED prog

Next ==
  /\ ~overlapped
  /\ \/ Writer \/ Exit
     \/ \E t \in Callers : Submit(t) \/ Caller(t) \/ Fork(t)
     \/ \E k \in Controls :
          FlushBegin(k) \/ Stop(k) \/ Control(k) \/ StartFails(k)
          \/ \E c \in prog.caps : Start(k, c)
  /\ UNCHANGED prog

Spec == Init /\ [][Next]_vars

(* Every thread inside a call, and the writer, keeps running. *)
Fairness ==
  /\ WF_vars(Runs(Writer))
  /\ \A t \in Callers : WF_vars(Runs(Caller(t)))
  /\ \A k \in Controls : WF_vars(Runs(Control(k)))
FairSpec == Spec /\ Fairness

-----------------------------------------------------------------------------
(* Properties. *)

TypeOK ==
  /\ cap \in prog.caps \cup {0} /\ \A f \in Fds : Len(buf[f]) = cap
  /\ \A f \in Fds : head[f] - tail[f] \in 0..cap
  /\ active \in BOOLEAN /\ stopping \in BOOLEAN /\ alive \in BOOLEAN
  /\ wpc \in {"none", "start", "woken", "wait", "write", "written", "exited"}
  /\ chunk.fd \in Fds
  /\ \A t \in Callers : pos[t] \in 0..Len(prog.script[t]) /\ cpc[t] \in {"idle", "space", "sync", "gone"}
  /\ \A k \in Controls : kpc[k] \in {"idle", "flush", "flushed", "join", "free", "gone"}
  /\ spaceWait \subseteq Callers \cup Controls

LineBytes(n) == [k \in 1..prog.script[n[1]][n[2]].len |-> <<n, k>>]
Decisions(f) == FlattenSeq([i \in DOMAIN order[f] |-> LineBytes(order[f][i])])
Written(f) == ToSet(out[f])

(* While the writer is neither stopped nor failed by write(2), and no line  *)
(* is larger than its ring.                                                  *)
Smooth == ~Made("stop") /\ "write" \notin prog.fails

(* logger.h: "Lines stay whole and in order per stream": what a stream holds *)
(* is a prefix of its lines, in the order they were submitted.               *)
InOrder == Smooth => \A f \in Fds : IsPrefix(out[f], Decisions(f))

(* logger.h: flush will "Block until every line queued so far has been       *)
(* written".                                                                 *)
FlushWritten == Smooth => \A k \in Controls :
  kpc[k] = "flushed" => seen[k] \subseteq UNION {Written(f) : f \in Fds}

(* The bytes this process has to write: of its own lines, and of those the   *)
(* stdio buffers held when it was forked; the parent writes these as well.   *)
Owed(f) == UNION {ToSet(LineBytes(n)) : n \in ToSet(order[f])} \cup ToSet(inherited[f])

(* logger.h: "nothing is dropped", nor written twice: a process writes a     *)
(* byte at most once, and of its parent's lines only the ones fork copied    *)
(* with a stdio buffer; when everyone is done every line is written, or was  *)
(* refused and is in stdio's buffer, which exit() empties.  This holds       *)
(* across stops, restarts and forks, unless write(2) fails or a start        *)
(* overlaps a stop; every variable keeps its type.                           *)
Rest == wpc \in {"none", "wait", "exited"} /\ \A t \in Callers : cpc[t] \in {"idle", "gone"}
Accounted(f) == Owed(f) \subseteq Written(f) \cup ToSet(stdio[f])
NothingDropped == TypeOK /\ ("write" \in prog.fails \/ overlapped \/ \A f \in Fds :
  /\ Cardinality(Written(f)) = Len(out[f])
  /\ Written(f) \cap ToSet(stdio[f]) = {}
  /\ Written(f) \subseteq Owed(f)
  /\ Rest => Accounted(f))

(* Every call returns, whatever fails: a caller waiting for space gets it or *)
(* is refused, a flush sees the rings empty or the writer stopped, and for   *)
(* a stop the writer sees the flag and ends.  Two cases are excepted, in     *)
(* which the code does wait for ever: a start that overlaps a stop, whose    *)
(* join may then never end, and a restart with a ring smaller than the line  *)
(* of a caller that was waiting for space in the larger one.                 *)
InCall(t) == cpc[t] \in {"space", "sync"}
Outgrown(t) == active /\ cpc[t] = "space" /\ Line(t).len > cap
Busy(k) == kpc[k] \in {"flush", "flushed", "join", "free"}
CallsReturn ==
  /\ \A t \in Callers : InCall(t) ~> ~InCall(t) \/ Outgrown(t) \/ overlapped
  /\ \A k \in Controls : Busy(k) ~> ~Busy(k) \/ overlapped

(* Everything submitted is written in the end, or with stdio until the       *)
(* process exits, unless write(2) fails or a start overlaps a stop.          *)
Delivered ==
  "write" \notin prog.fails => <>[](overlapped \/ \A f \in Fds : Accounted(f))
=============================================================================
