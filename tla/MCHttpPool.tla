------------------------------ MODULE MCHttpPool ------------------------------
(* Instances of HttpPool for TLC. *)
EXTENDS HttpPool, TLC

PoolSymmetry == Permutations(Conns) \cup Permutations(Workers)
===============================================================================
