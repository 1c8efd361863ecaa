------------------------------- MODULE MCMpmc -------------------------------
EXTENDS Mpmc
MCKinds == <<{"push_block"}, {"reserve_block"}>>
MCCalls == <<2, 2>>

(* The scanner, beside both producers with a call to go, or beside a peer  *)
(* of either sort and one of them; or a peer that pops in any order,       *)
(* beside producers with two calls to go.                                  *)
MCOpenings ==
  {[consumers |-> {0}, made |-> <<1, 1>>],
   [consumers |-> {0, 1}, made |-> <<1, 2>>],
   [consumers |-> {0, 2}, made |-> <<2, 1>>],
   [consumers |-> {2}, made |-> <<0, 0>>]}
=============================================================================
