------------------------------ MODULE MCWakeSet ------------------------------
EXTENDS WakeSet, TLC

(* Waiters of one sort are interchangeable, and so are wakers: no          *)
(* definition names one.  Only safety runs use this.                       *)
MCSymmetry ==
  Permutations(Transient) \cup Permutations(Waiters \ Transient) \cup Permutations(Wakers)
=============================================================================
