------------------------------ MODULE Cursors -------------------------------
(***************************************************************************)
(* What every ring shares: two cursors that only grow (common/cursors.rs)  *)
(* and the mask that maps a position to its slot (capacity.rs).  Positions *)
(* are unbounded here; in the code they roll over after 2^64 claims, far   *)
(* beyond any run.                                                         *)
(***************************************************************************)
EXTENDS Integers

CONSTANT Capacity   \* slots, a power of two in the code

ASSUME CapacityAssumption == Capacity \in Nat \ {0}

Slots == 0..(Capacity - 1)

(* Capacity::index_of: `pos & mask`.                                       *)
Slot(pos) == pos % Capacity

(* Mutant: off by one.                                                     *)
NoRoomOffByOne(t, h) == t < h \/ t - h > Capacity

(* The capacity check `t.wrapping_sub(h) >= capacity`: a tail read before  *)
(* the head moved past it wraps to a huge distance and counts as full.     *)
NoRoom(t, h) == t < h \/ t - h >= Capacity
=============================================================================
