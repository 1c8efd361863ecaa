----------------------------- MODULE AtomicWait -----------------------------
(***************************************************************************)
(* What a park handshake promises: the behaviour of a monitor, where       *)
(* looking for work and falling asleep is one step, and publishing work    *)
(* (or closing) and waking the sleeper is one step.  Waking for nothing is *)
(* allowed; sleeping through something is not.                             *)
(***************************************************************************)
EXTENDS Naturals

VARIABLES
  avail,    \* units available
  shut,     \* no more units will come
  asleep    \* the waiter is asleep and nobody is about to wake it

absVars == <<avail, shut, asleep>>

Init == avail = 0 /\ shut = FALSE /\ asleep = FALSE

Publish == avail' = avail + 1 /\ asleep' = FALSE /\ UNCHANGED shut

Shut == shut' = TRUE /\ asleep' = FALSE /\ UNCHANGED avail

Take == ~asleep /\ avail > 0 /\ avail' = avail - 1 /\ UNCHANGED <<shut, asleep>>

Sleep == ~asleep /\ avail = 0 /\ ~shut /\ asleep' = TRUE /\ UNCHANGED <<avail, shut>>

Wake == asleep /\ asleep' = FALSE /\ UNCHANGED <<avail, shut>>

Next == Publish \/ Shut \/ Take \/ Sleep \/ Wake

Spec == Init /\ [][Next]_absVars
=============================================================================
