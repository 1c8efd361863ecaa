----------------------------- MODULE ScanBudget -----------------------------
(***************************************************************************)
(* The laps of an mpmc consumer's scan for a claimable slot                *)
(* (mpmc/scan_budget.rs).  The scan steps over a slot that is not ready    *)
(* and jumps past one lost to a peer; which of the two happens at each     *)
(* position is for the claim loop to say (module Mpmc).  A lap that found  *)
(* nothing may park the consumer without a timeout, so no position may go  *)
(* unexamined.                                                             *)
(***************************************************************************)
EXTENDS Cursors

CONSTANT CasSkip   \* C::CAS_FAIL_SKIP

ASSUME ScanBudgetAssumption == CasSkip \in Nat

VARIABLES
  start,      \* where the lap began
  position,   \* the position to examine
  floor,      \* the lowest position not yet examined
  spent,      \* examinations so far
  examined    \* history: the positions examined in this lap

lap == <<start, position, floor, spent, examined>>

End == start + Capacity
ProbeLimit == Capacity

(* A jump of a full lap or more would return to the same slot.             *)
Skip == IF CasSkip >= Capacity THEN Capacity - 1 ELSE CasSkip

LapTypeOK ==
  /\ start \in Nat /\ position \in Nat /\ floor \in Nat
  /\ spent \in Nat /\ examined \subseteq Nat

LapInit == start = 0 /\ position = 0 /\ floor = 0 /\ spent = 0 /\ examined = {}

(* Mutant: the lap ends with its probes, whatever it jumped past.          *)
ProbesGone == spent >= ProbeLimit

Exhausted == floor >= End

Record ==
  /\ floor' = IF position = floor THEN floor + 1 ELSE floor
  /\ spent' = spent + 1
  /\ examined' = examined \cup {position}
  /\ UNCHANGED start

(* Mutant: the scan never goes back for what it jumped past.               *)
MoveOn(pos) == position' = pos

(* The position after the move: once the probes are spent, back to the     *)
(* floor.                                                                  *)
MoveTo(pos) == position' = IF spent' >= ProbeLimit THEN floor' ELSE pos

StepOver == ~Exhausted /\ Record /\ MoveTo(position + 1)

SkipContended ==
  /\ ~Exhausted
  /\ Record
  /\ MoveTo(IF spent' >= ProbeLimit THEN position + 1 ELSE position + Skip)

(* ScanBudget::new.                                                        *)
NextLap(from) ==
  start' = from /\ position' = from /\ floor' = from /\ spent' = 0 /\ examined' = {}

LapNext == StepOver \/ SkipContended \/ \E from \in Nat : NextLap(from)

LapSpec == LapInit /\ [][LapNext]_lap

-----------------------------------------------------------------------------
(* A lap that reports an empty ring has looked at every position of it.    *)
CoversTheRing == Exhausted => start..(End - 1) \subseteq examined

(* However many claims are lost, a lap costs less than two sweeps.         *)
BoundedLap == spent < 2 * Capacity
=============================================================================
