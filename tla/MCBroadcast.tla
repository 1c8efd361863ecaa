---------------------------- MODULE MCBroadcast -----------------------------
(* Two producers that block in different ways, on a ring of one slot.      *)
EXTENDS Broadcast

KindsOf == [p \in Producers |-> IF p = 1 THEN {"push_block"} ELSE {"reserve_block"}]

(* Bound: a run goes on after a torn floor, and ends at the first of the   *)
(* other two slips.                                                        *)
TornFloorsOnly == slips \subseteq {"floor"}
=============================================================================
