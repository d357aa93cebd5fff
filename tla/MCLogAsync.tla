----------------------------- MODULE MCLogAsync -----------------------------
(* Two callers with a few short lines on two streams, under four kinds of    *)
(* control.                                                                  *)
EXTENDS LogAsync

CONSTANTS t1, t2, k1, k2
L(f, n) == [fd |-> f, len |-> n]

TwoStreams == (t1 :> <<L(1, 2), L(2, 1), L(1, 1)>>) @@ (t2 :> <<L(1, 1), L(2, 2)>>)
Short == (t1 :> <<L(1, 2)>>) @@ (t2 :> <<L(1, 1), L(1, 1)>>)
Forked == (t1 :> <<L(1, 2), L(2, 1), L(1, 1)>>) @@ (t2 :> <<L(1, 1)>>)

Program(s, c, n, o1, o2, f) ==
  [script |-> s, caps |-> c, calls |-> n, ops |-> (k1 :> o1) @@ (k2 :> o2), fails |-> f]

(* A ring of one byte refuses some lines.  In the last one, two threads      *)
(* control the writer at once, and a restart may shrink the rings.           *)
MCPrograms ==
  { Program(TwoStreams, {2}, 3, {"flush"}, {}, {}),
    Program(Forked, {2}, 3, {"fork", "flush", "stop", "exit"}, {}, {"thread"}),
    Program(Short, {2}, 3, {"start", "stop"}, {}, {"write", "thread"}),
    Program(Short, {1, 2}, 3, {"start", "stop", "exit"}, {"start", "flush"}, {}) }
=============================================================================
