----------------------------- MODULE MCExchanges -----------------------------
(* What the threads that answer requests hold on to: connections of the      *)
(* database pool (three callers and a destroyer on two connections) and      *)
(* deferred exchanges (one, with two producers and a timer).  They share     *)
(* nothing, and a behaviour is about one of them.                            *)
EXTENDS DbPool

CONSTANTS Producers, Timer, Retained, Disp, Stopper, Modes, MayBreak

VARIABLES part,
  mode, apc, back, alive, refs, claimed, ack, finish, keep, orphaned, agen, final, graph, client,
  settles, posted, reactor, running, stopping, gen, posters, queue, broken, overtaken, stale

A == INSTANCE AsyncResponse WITH pc <- apc, conn <- client, Destroyer <- Stopper

exchangeVars ==
  <<mode, apc, back, alive, refs, claimed, ack, finish, keep, orphaned, agen, final, graph, client,
    settles, posted, reactor, running, stopping, gen, posters, queue, broken, overtaken, stale>>

Pool == part = "pool" /\ UNCHANGED <<part, exchangeVars>>
Exchange == part = "exchange" /\ UNCHANGED <<part, vars>>

MCInit ==
  /\ part \in {"pool", "exchange"} /\ Init /\ A!Init
  /\ part = "pool" => mode = "classic"
MCNext == (Pool /\ Next) \/ (Exchange /\ A!Next)

allVars == <<part, vars, exchangeVars>>

(* The fairness that DbPool and AsyncResponse assume. *)
MCSpec ==
  /\ MCInit /\ [][MCNext]_allVars
  /\ \A t \in Threads : WF_allVars(Pool /\ AcquireSteps(t)) /\ WF_allVars(Pool /\ Release(t))
  /\ WF_allVars(Pool /\ DestroySteps)
  /\ WF_allVars(Exchange /\ A!CallStep(Disp))
  /\ WF_allVars(Exchange /\ (A!DispatchAck \/ A!HandlerReturns \/ A!ReactorDrain \/ A!H2Drain))
  /\ WF_allVars(Exchange /\ A!CallStep(Timer))
  /\ WF_allVars(Exchange /\ A!DestroyStep) /\ WF_allVars(Exchange /\ A!LoopExit)
  /\ \A t \in A!Everyone : WF_allVars(Exchange /\ A!CompletionStep(t))

(* The properties of AsyncResponse. *)
NoStaleTouch == A!NoStaleTouch
SettledOnce == A!SettledOnce
NothingLeaked == A!NothingLeaked
PostsLandBeforeFree == A!PostsLandBeforeFree
Answered == A!Answered
===============================================================================
