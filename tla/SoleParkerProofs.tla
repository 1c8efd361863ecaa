-------------------------- MODULE SoleParkerProofs --------------------------
(***************************************************************************)
(* The park handshake loses no wake, for any number of wakers and any      *)
(* number of publishes, as long as the clear of `parked` does not linger   *)
(* in a store buffer.  (When it may linger the property is false: the run  *)
(* sole_parker_late_clear shows it.)  The publishing store may linger: the *)
(* fence of SoleParker::wake, or a SeqCst publish, is what the proof uses. *)
(***************************************************************************)
EXTENDS SoleParker, TLAPS

(* The memory assumption of every theorem below.                           *)
ClearIsPrompt == "clear" \notin Lingering

Committed == {"recheck", "reclosed?", "park"}

(* Only a publish lingers, alone, and only until the fence that follows.   *)
BufferInv ==
  /\ buffer \in [Threads -> {<<>>, <<"publish">>}]
  /\ buffer[Waiter] = <<>>
  /\ \A w \in Wakers : buffer[w] # <<>> => pc[w] = "fence"

PcInv ==
  /\ pc \in [Threads -> WaiterSteps \cup WakerSteps]
  /\ pc[Waiter] \in WaiterSteps
  /\ \A w \in Wakers : pc[w] \in WakerSteps

MemoryInv ==
  /\ work \in Nat
  /\ closed \in BOOLEAN /\ parked \in BOOLEAN
  /\ handle \in BOOLEAN /\ token \in BOOLEAN
  /\ left \in [Wakers -> 0..MaxPublish]
  /\ live \subseteq Wakers

(* A waiter committed to parking can be found: its handle is armed and     *)
(* either the flag says so or the waker that cleared it is on its way.     *)
ReachableInv ==
  /\ pc[Waiter] = "flag" => token \/ handle
  /\ pc[Waiter] \in Committed =>
       token \/ (handle /\ (parked \/ \E w \in Wakers : pc[w] \in {"peek", "claim"}))

(* What changed after the waiter's re-check has a waker behind it.         *)
PursuedInv ==
  /\ pc[Waiter] \in {"reclosed?", "park"} /\ work > 0
       => token \/ \E w \in Wakers : OnItsWay(w)
  /\ pc[Waiter] = "park" /\ closed
       => token \/ \E w \in Wakers : OnItsWay(w)

(* Closing comes after every publish, and ending after the close.          *)
CloseInv ==
  /\ \A w \in Wakers \ live :
       left[w] = 0 /\ pc[w] # "fence"
  /\ \A w \in Wakers : pc[w] = "close" => live = {}
  /\ closed => live = {}
  /\ pc[Waiter] \in {"leave", "final", "done"} => closed
  /\ pc[Waiter] = "done" => work = 0

IInv == BufferInv /\ PcInv /\ MemoryInv /\ ReachableInv /\ PursuedInv /\ CloseInv

LEMMA InitIInv == ASSUME ClearIsPrompt, Init PROVE IInv
<1>1. MaxPublish \in 0..MaxPublish
  BY SoleParkerAssumption
<1>2. left \in [Wakers -> 0..MaxPublish]
  BY <1>1 DEF Init
<1> QED
  BY <1>2, SoleParkerAssumption
     DEF Init, IInv, BufferInv, PcInv, MemoryInv, ReachableInv, PursuedInv, CloseInv,
         Threads, WaiterSteps, WakerSteps, Committed

(* A plain store of "clear" acts on memory at once.                        *)
LEMMA PromptClear ==
  ASSUME ClearIsPrompt, NEW t \in Threads, PlainStore(t, "clear")
  PROVE  parked' = FALSE /\ work' = work /\ buffer' = buffer /\ Drained(t)
BY DEF ClearIsPrompt, PlainStore, Apply

LEMMA StepIInv == ASSUME ClearIsPrompt, IInv, [Next]_vars PROVE IInv'
<1> USE SoleParkerAssumption DEF Threads
<1>0. CASE UNCHANGED vars
  BY <1>0 DEF vars, memory, IInv, BufferInv, PcInv, MemoryInv, ReachableInv,
              PursuedInv, CloseInv, OnItsWay, Drained
<1> USE DEF Goto, IInv, BufferInv, PcInv, MemoryInv, ReachableInv, PursuedInv,
            CloseInv, OnItsWay, Committed, WaiterSteps, WakerSteps
<1>1. CASE CheckRing
  BY <1>1 DEF CheckRing, TryPop
<1>2. CASE CheckClosed
  BY <1>2 DEF CheckClosed, memory
<1>3. CASE FinalPop
  BY <1>3 DEF FinalPop, TryPop
<1>4. CASE ArmHandle
  BY <1>4 DEF ArmHandle
<1>5. CASE ArmFlag
  BY <1>5 DEF ArmFlag
<1>6. CASE Recheck
  BY <1>6 DEF Recheck, TryPop
<1>7. CASE RecheckClosed
  BY <1>7 DEF RecheckClosed, memory
<1>8. CASE Park
  BY <1>8 DEF Park
<1>9. CASE Disarm
  BY <1>9, PromptClear DEF Disarm
<1>10. ASSUME NEW w \in Wakers, PublishRelease(w) PROVE IInv'
  <2>1. buffer[w] = <<>>
    BY <1>10 DEF PublishRelease
  <2>2. CASE "publish" \in Lingering
    <3>1. buffer' = [buffer EXCEPT ![w] = <<"publish">>]
      BY <1>10, <2>1, <2>2 DEF PublishRelease, PlainStore
    <3>2. UNCHANGED <<work, parked>>
      BY <1>10, <2>2 DEF PublishRelease, PlainStore
    <3> QED  BY <1>10, <3>1, <3>2 DEF PublishRelease
  <2>3. CASE "publish" \notin Lingering
    BY <1>10, <2>3 DEF PublishRelease, PlainStore, Apply
  <2> QED  BY <2>2, <2>3
<1>11. ASSUME NEW w \in Wakers, PublishSeqCst(w) PROVE IInv'
  BY <1>11 DEF PublishSeqCst
<1>12. ASSUME NEW w \in Wakers, WakeFence(w) PROVE IInv'
  BY <1>12 DEF WakeFence, memory, Drained
<1>13. ASSUME NEW w \in Wakers, LoadParked(w) PROVE IInv'
  BY <1>13 DEF LoadParked, memory
<1>14. ASSUME NEW w \in Wakers, ClearParked(w) PROVE IInv'
  BY <1>14, PromptClear DEF ClearParked
<1>15. ASSUME NEW w \in Wakers, PeekHandle(w) PROVE IInv'
  BY <1>15 DEF PeekHandle, memory
<1>16. ASSUME NEW w \in Wakers, ClaimHandle(w) PROVE IInv'
  BY <1>16 DEF ClaimHandle
<1>17. ASSUME NEW w \in Wakers, Leave(w) PROVE IInv'
  BY <1>17 DEF Leave, memory, Drained
<1>18. ASSUME NEW w \in Wakers, Close(w) PROVE IInv'
  BY <1>18 DEF Close
<1>19. ASSUME NEW t \in Threads, Drain(t) PROVE IInv'
  <2>1. t \in Wakers /\ buffer[t] = <<"publish">> /\ pc[t] = "fence"
    BY <1>19 DEF Drain
  <2>2. Head(buffer[t]) = "publish" /\ Tail(buffer[t]) = <<>>
    BY <2>1
  <2>3. /\ work' = work + 1 /\ parked' = parked
        /\ buffer' = [buffer EXCEPT ![t] = <<>>]
        /\ UNCHANGED <<closed, handle, token, pc, left, live>>
    BY <1>19, <2>2 DEF Drain, Apply
  <2> QED  BY <2>1, <2>3
<1> QED
  BY <1>0, <1>1, <1>2, <1>3, <1>4, <1>5, <1>6, <1>7, <1>8, <1>9, <1>10, <1>11,
     <1>12, <1>13, <1>14, <1>15, <1>16, <1>17, <1>18, <1>19
     DEF Next, WaiterNext, WakerNext, Finished
-----------------------------------------------------------------------------
(* IInv is what the three invariants of SoleParker follow from.            *)
LEMMA IInvSuffices ==
  ASSUME ClearIsPrompt, IInv PROVE TypeOK /\ NoLostWake /\ DrainedBeforeNone
<1> USE SoleParkerAssumption DEF Threads
<1>1. TypeOK
  <2>1. <<>> \in Seq(Stores) /\ <<"publish">> \in Seq(Stores)
    BY DEF Stores
  <2>2. buffer \in [Threads -> Seq(Stores)]
    BY <2>1 DEF IInv, BufferInv
  <2> QED  BY <2>2 DEF TypeOK, IInv, PcInv, MemoryInv
<1>2. NoLostWake
  BY DEF NoLostWake, Asleep, IInv, PursuedInv
<1>3. DrainedBeforeNone
  <2>1. ASSUME pc[Waiter] = "done", NEW w \in Wakers
        PROVE  left[w] = 0 /\ buffer[w] = <<>>
    BY <2>1 DEF IInv, BufferInv, CloseInv
  <2>2. ~Contains(<<>>, "publish")
    BY DEF Contains
  <2> QED  BY <2>1, <2>2 DEF DrainedBeforeNone, IInv, CloseInv
<1> QED  BY <1>1, <1>2, <1>3

(* The waiter never sleeps through published work or a close, and returns  *)
(* None only from a drained ring: SoleParker::arm, wake and pop_block, for *)
(* every number of wakers.                                                 *)
THEOREM HandshakeSafe ==
  ASSUME ClearIsPrompt
  PROVE  Spec => [](TypeOK /\ NoLostWake /\ DrainedBeforeNone)
<1>1. Init => IInv
  BY InitIInv
<1>2. IInv /\ [Next]_vars => IInv'
  BY StepIInv
<1>3. IInv => TypeOK /\ NoLostWake /\ DrainedBeforeNone
  BY IInvSuffices
<1> QED  BY <1>1, <1>2, <1>3, PTL DEF Spec

(* Every variable of the handshake keeps its type: the word and the cells  *)
(* their range, each thread its program counter, and the store buffers     *)
(* their entries (common/sole_parker.rs).                                  *)
THEOREM HandshakeTyped ==
  ASSUME ClearIsPrompt
  PROVE  Spec => []TypeOK
<1> QED  BY HandshakeSafe, PTL

-----------------------------------------------------------------------------
(* The refinement of the monitor.                                          *)

Sleeping == Asleep /\ ~\E w \in Wakers : OnItsWay(w)

(* The waiter is asleep with nobody coming only when there is nothing to   *)
(* come for.                                                               *)
LEMMA SleepsOnNothing ==
  ASSUME ClearIsPrompt, IInv, Sleeping PROVE work = 0 /\ ~closed
BY IInvSuffices DEF NoLostWake, Sleeping, IInv, MemoryInv

LEMMA InitMonitor == ASSUME Init PROVE Monitor!Init
BY SoleParkerAssumption DEF Init, Monitor!Init, Asleep, Threads

LEMMA StepMonitor ==
  ASSUME ClearIsPrompt, IInv, IInv', [Next]_vars
  PROVE  [Monitor!Next]_(Monitor!absVars)
<1> USE SoleParkerAssumption DEF Threads
<1>1. Sleeping' => work' = 0 /\ ~closed'
  BY DEF Sleeping, Asleep, IInv, MemoryInv, PursuedInv
<1>2. work \in Nat /\ closed \in BOOLEAN /\ Sleeping \in BOOLEAN
  BY DEF IInv, MemoryInv, Sleeping
<1>3. Sleeping' \in BOOLEAN
  BY DEF Sleeping
<1> DEFINE MemoryStep ==
             \/ work' = work /\ closed' = closed
             \/ work' = work + 1 /\ closed' = closed
             \/ work > 0 /\ work' = work - 1 /\ closed' = closed /\ ~Asleep /\ ~Asleep'
             \/ work' = work /\ closed' = TRUE
<1>4. MemoryStep
  <2>1. CASE UNCHANGED vars
    BY <2>1 DEF vars, memory
  <2>2. CASE CheckRing \/ FinalPop \/ Recheck
    <3>1. PcInv
      BY DEF IInv
    <3> QED  BY <2>2, <3>1, <1>2 DEF CheckRing, FinalPop, Recheck, TryPop, Goto, Asleep, PcInv
  <2>5. CASE CheckClosed \/ ArmHandle \/ ArmFlag \/ RecheckClosed \/ Park
    BY <2>5 DEF CheckClosed, ArmHandle, ArmFlag, RecheckClosed, Park, memory
  <2>6. CASE Disarm
    BY <2>6, PromptClear DEF Disarm
  <2>3. ASSUME NEW w \in Wakers, WakerNext(w) PROVE MemoryStep
    BY <2>3, <1>2, PromptClear
       DEF WakerNext, PublishRelease, PublishSeqCst, WakeFence, LoadParked, ClearParked,
           PeekHandle, ClaimHandle, Leave, Close, PlainStore, Apply, memory
  <2>4. ASSUME NEW t \in Threads, Drain(t) PROVE MemoryStep
    BY <2>4, <1>2 DEF Drain, Apply
  <2> QED  BY <2>1, <2>2, <2>3, <2>4, <2>5, <2>6 DEF Next, WaiterNext, Finished
<1>5. \/ work' = work /\ closed' = closed
      \/ work' = work + 1 /\ closed' = closed /\ ~Sleeping'
      \/ work > 0 /\ work' = work - 1 /\ closed' = closed /\ ~Sleeping /\ ~Sleeping'
      \/ work' = work /\ closed' = TRUE /\ ~Sleeping'
  BY <1>1, <1>2, <1>4 DEF Sleeping, IInv, MemoryInv
<1> QED
  BY <1>1, <1>2, <1>3, <1>5
     DEF Sleeping, Monitor!Next, Monitor!absVars, Monitor!Publish, Monitor!Shut,
         Monitor!Take, Monitor!Sleep, Monitor!Wake

(* The handshake implements the monitor of AtomicWait: to its waiter,      *)
(* looking at the ring and falling asleep are one step, and so are         *)
(* publishing and waking (common/sole_parker.rs, arm and wake).            *)
THEOREM HandshakeIsMonitor == ASSUME ClearIsPrompt PROVE Spec => MonitorSpec
<1>1. Init => IInv /\ Monitor!Init
  BY InitIInv, InitMonitor
<1>2. IInv /\ [Next]_vars => IInv'
  BY StepIInv
<1>3. IInv /\ IInv' /\ [Next]_vars => [Monitor!Next]_(Monitor!absVars)
  BY StepMonitor
<1> QED  BY <1>1, <1>2, <1>3, PTL DEF Spec, MonitorSpec, Monitor!Spec
=============================================================================
