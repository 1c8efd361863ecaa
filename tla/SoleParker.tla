----------------------------- MODULE SoleParker -----------------------------
(***************************************************************************)
(* The park handshake of a ring side that has exactly one waiter:          *)
(* common/sole_parker.rs over common/thread_parker.rs, driven by the       *)
(* blocking pop of common/single_parker.rs.                                *)
(*                                                                         *)
(* One Waiter takes units of work and parks when there is none.  Any       *)
(* number of Wakers publish units and then wake it; the last waker to      *)
(* leave closes the ring.  The ring itself is one word, `work': every      *)
(* ring that uses this parker publishes with a single store and the        *)
(* waiter's re-check reads that store.                                     *)
(*                                                                         *)
(* Memory is explicit.  Each thread owns a FIFO store buffer, as on x86:   *)
(* a plain store (Release or Relaxed in the source) that may linger enters *)
(* the buffer and reaches memory in a later Drain step; a SeqCst store, an *)
(* atomic read-modify-write and a SeqCst fence wait until the thread's own *)
(* buffer is empty.  Lingering says which of the two plain stores of the   *)
(* protocol may linger: both on x86-TSO, none under sequential             *)
(* consistency.                                                            *)
(***************************************************************************)
EXTENDS Naturals, Sequences, SequencesExt

CONSTANTS
  Wakers,         \* threads that publish work and wake the waiter
  Waiter,         \* the one thread that may park
  MaxPublish,     \* bound: units each waker publishes before it leaves
  Lingering       \* the plain stores that may stay in a store buffer

ASSUME SoleParkerAssumption ==
  /\ Waiter \notin Wakers
  /\ MaxPublish \in Nat
  /\ Lingering \subseteq {"publish", "clear"}

Threads == Wakers \cup {Waiter}

VARIABLES
  work,     \* published units nobody has taken (memory)
  closed,   \* the close flag (memory)
  parked,   \* SoleParker::parked (memory)
  handle,   \* ThreadParker::handle is non-null (memory)
  token,    \* the unpark token of the waiter's thread
  buffer,   \* per thread: stores that have not reached memory, oldest first
  pc,       \* per thread: the next step
  left,     \* per waker: units it has still to publish
  live      \* EndpointCount: wakers that have not left

memory == <<work, closed, parked, handle, token>>
vars == <<work, closed, parked, handle, token, buffer, pc, left, live>>

(* The two plain stores: a Release publish, a Relaxed clear of `parked`.   *)
Stores == {"publish", "clear"}

WaiterSteps == {"check", "closed?", "arm", "flag", "recheck", "reclosed?",
                "park", "disarm", "leave", "final", "done"}
WakerSteps == {"idle", "fence", "load", "clear", "peek", "claim", "close"}

TypeOK ==
  /\ work \in Nat
  /\ closed \in BOOLEAN /\ parked \in BOOLEAN
  /\ handle \in BOOLEAN /\ token \in BOOLEAN
  /\ buffer \in [Threads -> Seq(Stores)]
  /\ pc \in [Threads -> WaiterSteps \cup WakerSteps]
  /\ pc[Waiter] \in WaiterSteps
  /\ \A w \in Wakers : pc[w] \in WakerSteps
  /\ left \in [Wakers -> 0..MaxPublish]
  /\ live \subseteq Wakers

Init ==
  /\ work = 0 /\ closed = FALSE
  /\ parked = FALSE /\ handle = FALSE /\ token = FALSE
  /\ buffer = [t \in Threads |-> <<>>]
  /\ pc = [t \in Threads |-> IF t = Waiter THEN "check" ELSE "idle"]
  /\ left = [w \in Wakers |-> MaxPublish]
  /\ live = Wakers

Goto(t, step) == pc' = [pc EXCEPT ![t] = step]

(* A barrier (fence, SeqCst store, read-modify-write) by thread t.         *)
Drained(t) == buffer[t] = <<>>

Apply(store) ==
  /\ work' = IF store = "publish" THEN work + 1 ELSE work
  /\ parked' = IF store = "clear" THEN FALSE ELSE parked

(* A plain store by thread t: one that may linger is buffered, any other   *)
(* reaches memory behind the stores the thread made before it.             *)
PlainStore(t, store) ==
  \/ /\ store \in Lingering
     /\ buffer' = [buffer EXCEPT ![t] = Append(@, store)]
     /\ UNCHANGED <<work, parked>>
  \/ /\ store \notin Lingering
     /\ Drained(t)
     /\ Apply(store)
     /\ UNCHANGED buffer

(* The hardware moves the oldest buffered store of t to memory.            *)
Drain(t) ==
  /\ buffer[t] # <<>>
  /\ Apply(Head(buffer[t]))
  /\ buffer' = [buffer EXCEPT ![t] = Tail(@)]
  /\ UNCHANGED <<closed, handle, token, pc, left, live>>

-----------------------------------------------------------------------------
(* The waiter: SingleParkerConsumer::pop_block, called again after every   *)
(* unit it returns.  Spinning is abstracted: an empty ring leads either    *)
(* back to the top (a stuttering step) or on to arming.                    *)

(* Mutant: takes without looking.                                          *)
BlindPop(onItem, onEmpty) == work' = work - 1 /\ Goto(Waiter, onItem)

TryPop(onItem, onEmpty) ==
  IF work > 0
  THEN work' = work - 1 /\ Goto(Waiter, onItem)
  ELSE UNCHANGED work /\ Goto(Waiter, onEmpty)

CheckRing ==
  /\ pc[Waiter] = "check"
  /\ TryPop("check", "closed?")
  /\ UNCHANGED <<closed, parked, handle, token, buffer, left, live>>

CheckClosed ==
  /\ pc[Waiter] = "closed?"
  /\ Goto(Waiter, IF closed THEN "final" ELSE "arm")
  /\ UNCHANGED <<memory, buffer, left, live>>

(* The last look after the close flag was seen.                            *)
FinalPop ==
  /\ pc[Waiter] = "final"
  /\ TryPop("check", "done")
  /\ UNCHANGED <<closed, parked, handle, token, buffer, left, live>>

(* SoleParker::arm, first half: swap the thread handle in.                 *)
ArmHandle ==
  /\ pc[Waiter] = "arm" /\ Drained(Waiter)
  /\ handle' = TRUE
  /\ Goto(Waiter, "flag")
  /\ UNCHANGED <<work, closed, parked, token, buffer, left, live>>

(* Mutant: no second look at the ring after arming.                        *)
ArmWithoutRecheck ==
  /\ pc[Waiter] = "flag" /\ Drained(Waiter)
  /\ parked' = TRUE
  /\ Goto(Waiter, "reclosed?")
  /\ UNCHANGED <<work, closed, handle, token, buffer, left, live>>

(* SoleParker::arm, second half: SeqCst store of the flag, then the fence. *)
ArmFlag ==
  /\ pc[Waiter] = "flag" /\ Drained(Waiter)
  /\ parked' = TRUE
  /\ Goto(Waiter, "recheck")
  /\ UNCHANGED <<work, closed, handle, token, buffer, left, live>>

Recheck ==
  /\ pc[Waiter] = "recheck"
  /\ TryPop("disarm", "reclosed?")
  /\ UNCHANGED <<closed, parked, handle, token, buffer, left, live>>

(* Mutant: no second look at the close flag.                               *)
ParkWhateverClosed ==
  /\ pc[Waiter] = "reclosed?"
  /\ Goto(Waiter, "park")
  /\ UNCHANGED <<memory, buffer, left, live>>

RecheckClosed ==
  /\ pc[Waiter] = "reclosed?"
  /\ Goto(Waiter, IF closed THEN "leave" ELSE "park")
  /\ UNCHANGED <<memory, buffer, left, live>>

(* std::thread::park returns by consuming the unpark token.                *)
Park ==
  /\ pc[Waiter] = "park" /\ token
  /\ token' = FALSE
  /\ Goto(Waiter, "disarm")
  /\ UNCHANGED <<work, closed, parked, handle, buffer, left, live>>

(* SoleParker::disarm: a Relaxed store.  "leave" disarms on the way to the *)
(* final pop of a closed ring, "disarm" on the way to another lap.         *)
Disarm ==
  /\ pc[Waiter] \in {"disarm", "leave"}
  /\ PlainStore(Waiter, "clear")
  /\ Goto(Waiter, IF pc[Waiter] = "leave" THEN "final" ELSE "check")
  /\ UNCHANGED <<closed, handle, token, left, live>>

WaiterNext ==
  \/ CheckRing \/ CheckClosed \/ FinalPop
  \/ ArmHandle \/ ArmFlag \/ Recheck \/ RecheckClosed
  \/ Park \/ Disarm

-----------------------------------------------------------------------------
(* A waker: publish one unit, then wake.  The two forms of the code keep   *)
(* their halves together and may be mixed on one parker.                   *)

(* The fenced form: a Release publish, then wake.                          *)
PublishRelease(w) ==
  /\ pc[w] = "idle" /\ left[w] > 0
  /\ PlainStore(w, "publish")
  /\ left' = [left EXCEPT ![w] = @ - 1]
  /\ Goto(w, "fence")
  /\ UNCHANGED <<closed, handle, token, live>>

(* The fence-free form: a SeqCst publish, then wake_published.             *)
PublishSeqCst(w) ==
  /\ pc[w] = "idle" /\ left[w] > 0 /\ Drained(w)
  /\ work' = work + 1
  /\ left' = [left EXCEPT ![w] = @ - 1]
  /\ Goto(w, "load")
  /\ UNCHANGED <<closed, parked, handle, token, buffer, live>>

(* Mutant: no leading fence.                                               *)
WakeUnfenced(w) ==
  /\ pc[w] = "fence"
  /\ Goto(w, "load")
  /\ UNCHANGED <<memory, buffer, left, live>>

(* SoleParker::wake: the leading SeqCst fence.                             *)
WakeFence(w) ==
  /\ pc[w] = "fence" /\ Drained(w)
  /\ Goto(w, "load")
  /\ UNCHANGED <<memory, buffer, left, live>>

(* SoleParker::wake_published: SeqCst load of the flag.                    *)
LoadParked(w) ==
  /\ pc[w] = "load"
  /\ Goto(w, IF parked THEN "clear" ELSE "idle")
  /\ UNCHANGED <<memory, buffer, left, live>>

(* wake_published: the Relaxed clear of the flag.                          *)
ClearParked(w) ==
  /\ pc[w] = "clear"
  /\ PlainStore(w, "clear")
  /\ Goto(w, "peek")
  /\ UNCHANGED <<closed, handle, token, left, live>>

(* ThreadParker::wake: the Relaxed null check that returns early.          *)
PeekHandle(w) ==
  /\ pc[w] = "peek"
  /\ Goto(w, IF handle THEN "claim" ELSE "idle")
  /\ UNCHANGED <<memory, buffer, left, live>>

(* ThreadParker::wake: swap the handle out and unpark its thread.          *)
ClaimHandle(w) ==
  /\ pc[w] = "claim" /\ Drained(w)
  /\ handle' = FALSE
  /\ token' = (token \/ handle)
  /\ Goto(w, "idle")
  /\ UNCHANGED <<work, closed, parked, buffer, left, live>>

(* Dropping an endpoint: the last one out goes on to close the ring.       *)
Leave(w) ==
  /\ pc[w] = "idle" /\ left[w] = 0 /\ w \in live /\ Drained(w)
  /\ live' = live \ {w}
  /\ Goto(w, IF live = {w} THEN "close" ELSE "idle")
  /\ UNCHANGED <<memory, buffer, left>>

(* CloseState::close: a SeqCst store, followed by a wake.                  *)
Close(w) ==
  /\ pc[w] = "close" /\ Drained(w)
  /\ closed' = TRUE
  /\ Goto(w, "load")
  /\ UNCHANGED <<work, parked, handle, token, buffer, left, live>>

WakerNext(w) ==
  \/ PublishRelease(w) \/ PublishSeqCst(w)
  \/ WakeFence(w) \/ LoadParked(w) \/ ClearParked(w)
  \/ PeekHandle(w) \/ ClaimHandle(w)
  \/ Leave(w) \/ Close(w)

(* The waiter has returned None for good and every thread is at rest.      *)
Finished ==
  /\ pc[Waiter] = "done" /\ live = {}
  /\ \A w \in Wakers : pc[w] = "idle"
  /\ \A t \in Threads : Drained(t)
  /\ UNCHANGED vars

Next ==
  \/ WaiterNext
  \/ \E w \in Wakers : WakerNext(w)
  \/ \E t \in Threads : Drain(t)
  \/ Finished

Spec == Init /\ [][Next]_vars

(* Every thread is scheduled and every store buffer drains: nothing in the *)
(* code waits for more than that, park apart, whose token is its guard.    *)
Fairness ==
  /\ WF_vars(WaiterNext)
  /\ \A w \in Wakers : WF_vars(WakerNext(w))
  /\ \A t \in Threads : WF_vars(Drain(t))

FairSpec == Spec /\ Fairness

-----------------------------------------------------------------------------
(* Properties.                                                             *)

Asleep == pc[Waiter] = "park" /\ ~token

(* Waker w still owes the waiter a look at the flag or the handle.         *)
OnItsWay(w) ==
  \/ pc[w] \in {"fence", "clear", "peek", "claim", "close"}
  \/ pc[w] = "load" /\ parked

(* No lost wake: a waiter asleep while there is work, or on a closed ring, *)
(* is about to be reached by some waker.  Stated by the docs of            *)
(* SoleParker::arm and wake: the lost wake is excluded by the fences.      *)
NoLostWake ==
  Asleep /\ (work > 0 \/ closed) => \E w \in Wakers : OnItsWay(w)

(* pop_block returns None only once the producers are gone and the ring    *)
(* has drained: nothing published before the close is left behind.         *)
DrainedBeforeNone ==
  pc[Waiter] = "done" =>
    /\ work = 0
    /\ \A w \in Wakers : left[w] = 0 /\ ~Contains(buffer[w], "publish")

(* Every published unit is taken and the waiter sees the close.            *)
WaiterFinishes == <>[](pc[Waiter] = "done" /\ work = 0)

(* The waiter's view as a monitor: going to sleep is atomic with having    *)
(* seen no work, and publishing is atomic with waking the sleeper.         *)
Monitor == INSTANCE AtomicWait WITH
  avail <- work,
  shut <- closed,
  asleep <- Asleep /\ ~\E w \in Wakers : OnItsWay(w)

MonitorSpec == Monitor!Spec
=============================================================================
