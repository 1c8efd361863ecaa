--------------------------- MODULE MCMpscBlocking ---------------------------
EXTENDS MpscBlocking

(* Three values: the first producer's second call and the second           *)
(* producer's only call can both find the ring full.                       *)
MCCalls == [p \in Producers |-> IF p = 1 THEN 2 ELSE 1]
=============================================================================
