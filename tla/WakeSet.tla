------------------------------- MODULE WakeSet -------------------------------
(***************************************************************************)
(* The park layer of a ring side that has many waiters: common/park.rs     *)
(* over thread_parker.rs, park_registry.rs and park_overflow.rs.           *)
(*                                                                         *)
(* Waiters lease a park slot, arm it, look at the ring once more and park. *)
(* Wakers call wake_one, wake_n and flush.  One action per access to       *)
(* shared memory, except where a later access makes an earlier one         *)
(* redundant: the null check in front of ThreadParker::wake's swap and of  *)
(* ParkOverflow::wake_all's, and the load in front of a compare-exchange   *)
(* loop (lease, push), change nothing.  The ring is left out: what a       *)
(* waiter's last look finds is open.                                       *)
(*                                                                         *)
(* Memory is sequentially consistent: every access to the bitmap and the   *)
(* overflow stack that the handshake rests on is a SeqCst read-modify-     *)
(* write or a SeqCst load behind a fence.                                  *)
(***************************************************************************)
EXTENDS Naturals, Sequences, FiniteSets, SequencesExt

CONSTANTS
  Waiters,         \* endpoints of this side, one thread each
  Transient,       \* those that are dropped and made again
  Wakers,          \* endpoints of the other side
  ParkSlots,       \* PARK_SLOTS: 64 in the code
  WakeCalls,       \* what wakers call: "one", "n", "flush"
  BatchSize,       \* the n of wake_n
  MaxRegistered,   \* bound: length of the overflow stack
  Shared, None     \* ParkSlot::Shared; no slot, no handle

Slots == 0..(ParkSlots - 1)

ASSUME WakeSetAssumption ==
  /\ Transient \subseteq Waiters
  /\ ParkSlots \in Nat \ {0} /\ BatchSize \in Nat \ {0} /\ MaxRegistered \in Nat
  /\ WakeCalls \subseteq {"one", "n", "flush"}
  /\ Shared \notin Nat /\ None \notin Nat \cup Waiters \cup {Shared}

VARIABLES
  held,      \* ParkRegistry::held: the leased slots
  bits,      \* WakeSet::wake: the slots whose bit is set
  handle,    \* WakeSet::parkers: per slot, the thread to unpark
  cursor,    \* WakeSet::cursor: just after the last slot woken
  overflow,  \* ParkOverflow: the registered threads, newest first
  tokens,    \* waiters whose thread has an unpark token
  slot,      \* per waiter: its ParkSlot, or None
  wpc,       \* per waiter: the next step
  kpc,       \* per waker: the next step
  kind,      \* per waker: the call it is in
  need,      \* per waker: unparks still to deliver
  from,      \* per waker: the cursor it goes by
  at,        \* per waker: the slot it is on
  rest,      \* per waker: the bits flush took
  chain,     \* per waker: the overflow nodes it detached
  got,       \* per waker: the handle it claimed
  slept      \* history, per waker: asleep since before its call

registry == <<held, slot>>
shared == <<bits, handle, cursor, overflow, tokens>>
waker == <<kpc, kind, need, from, at, rest, chain, got, slept>>
vars == <<held, bits, handle, cursor, overflow, tokens, slot, wpc,
          kpc, kind, need, from, at, rest, chain, got, slept>>

WaiterSteps == {"out", "idle", "bit", "recheck", "park", "disarm"}
WakerSteps == {"idle", "detach", "release", "cursor", "bitmap", "clear", "advance",
               "claim", "unpark", "store", "swap", "flushing", "return"}

TypeOK ==
  /\ held \subseteq Slots /\ bits \subseteq Slots
  /\ handle \in [Slots -> Waiters \cup {None}]
  /\ cursor \in 0..ParkSlots
  /\ overflow \in Seq(Waiters)
  /\ tokens \subseteq Waiters
  /\ slot \in [Waiters -> Slots \cup {Shared, None}]
  /\ wpc \in [Waiters -> WaiterSteps]
  /\ kpc \in [Wakers -> WakerSteps]
  /\ kind \in [Wakers -> {"one", "n", "flush"}]
  /\ need \in [Wakers -> Nat]
  /\ from \in [Wakers -> 0..ParkSlots]
  /\ at \in [Wakers -> Slots]
  /\ rest \in [Wakers -> SUBSET Slots]
  /\ chain \in [Wakers -> Seq(Waiters)]
  /\ got \in [Wakers -> Waiters \cup {None}]
  /\ slept \in [Wakers -> SUBSET Waiters]

Init ==
  /\ held = {} /\ bits = {} /\ handle = [s \in Slots |-> None]
  /\ cursor = 0 /\ overflow = <<>> /\ tokens = {}
  /\ slot = [w \in Waiters |-> None] /\ wpc = [w \in Waiters |-> "out"]
  /\ kpc = [k \in Wakers |-> "idle"] /\ kind = [k \in Wakers |-> "one"]
  /\ need = [k \in Wakers |-> 0] /\ from = [k \in Wakers |-> 0]
  /\ at = [k \in Wakers |-> 0] /\ rest = [k \in Wakers |-> {}]
  /\ chain = [k \in Wakers |-> <<>>] /\ got = [k \in Wakers |-> None]
  /\ slept = [k \in Wakers |-> {}]

Asleep(w) == wpc[w] = "park" /\ w \notin tokens

-----------------------------------------------------------------------------
(* Waiters.                                                                *)

GotoW(w, step) == wpc' = [wpc EXCEPT ![w] = step]

Free == Slots \ held
IsLowest(s, S) == \A t \in S : s <= t

(* An endpoint is made: ParkRegistry::lease.                               *)
Lease(w) ==
  /\ wpc[w] = "out"
  /\ \/ /\ Free = {}
        /\ slot' = [slot EXCEPT ![w] = Shared]
        /\ UNCHANGED held
     \/ \E s \in Free :
          /\ IsLowest(s, Free)
          /\ slot' = [slot EXCEPT ![w] = s]
          /\ held' = held \cup {s}
  /\ GotoW(w, "idle")
  /\ UNCHANGED <<shared, waker>>

(* An endpoint is dropped: ParkRegistry::release.                          *)
Depart(w) ==
  /\ w \in Transient /\ wpc[w] = "idle"
  /\ held' = held \ {slot[w]}
  /\ slot' = [slot EXCEPT ![w] = None]
  /\ GotoW(w, "out")
  /\ UNCHANGED <<shared, waker>>

(* Mutant: a handle left behind is kept.                                   *)
ArmHandleIfEmpty(w) ==
  /\ wpc[w] = "idle" /\ slot[w] # Shared
  /\ handle' = [handle EXCEPT ![slot[w]] = IF @ = None THEN w ELSE @]
  /\ GotoW(w, "bit")
  /\ UNCHANGED <<bits, cursor, overflow, tokens, registry, waker>>

(* WakeSet::arm of a leased slot: the handle, replacing any left there ... *)
ArmHandle(w) ==
  /\ wpc[w] = "idle" /\ slot[w] # Shared
  /\ handle' = [handle EXCEPT ![slot[w]] = w]
  /\ GotoW(w, "bit")
  /\ UNCHANGED <<bits, cursor, overflow, tokens, registry, waker>>

(* ... then the bit.                                                       *)
ArmBit(w) ==
  /\ wpc[w] = "bit"
  /\ bits' = bits \cup {slot[w]}
  /\ GotoW(w, "recheck")
  /\ UNCHANGED <<handle, cursor, overflow, tokens, registry, waker>>

(* WakeSet::arm without a slot: ParkOverflow::register.                    *)
Register(w) ==
  /\ wpc[w] = "idle" /\ slot[w] = Shared
  /\ Len(overflow) < MaxRegistered
  /\ overflow' = <<w>> \o overflow
  /\ GotoW(w, "recheck")
  /\ UNCHANGED <<bits, handle, cursor, tokens, registry, waker>>

(* The caller's last look at the ring finds what it waits for, or not.     *)
Recheck(w) ==
  /\ wpc[w] = "recheck"
  /\ \E step \in {"park", "disarm"} : GotoW(w, step)
  /\ UNCHANGED <<registry, shared, waker>>

(* WakeSet::park returns by consuming the unpark token.                    *)
Park(w) ==
  /\ wpc[w] = "park" /\ w \in tokens
  /\ tokens' = tokens \ {w}
  /\ GotoW(w, "disarm")
  /\ UNCHANGED <<bits, handle, cursor, overflow, registry, waker>>

(* WakeSet::disarm clears the bit and leaves the handle, or the overflow   *)
(* registration, behind.                                                   *)
Disarm(w) ==
  /\ wpc[w] = "disarm"
  /\ bits' = bits \ {slot[w]}
  /\ GotoW(w, "idle")
  /\ UNCHANGED <<handle, cursor, overflow, tokens, registry, waker>>

WaiterNext(w) ==
  \/ Lease(w) \/ Depart(w)
  \/ ArmHandle(w) \/ ArmBit(w) \/ Register(w)
  \/ Recheck(w) \/ Park(w) \/ Disarm(w)

-----------------------------------------------------------------------------
(* Wakers.                                                                 *)

GotoK(k, step) == kpc' = [kpc EXCEPT ![k] = step]

Unpark(w) ==
  /\ tokens' = tokens \cup {w}
  /\ slept' = [k \in Wakers |-> slept[k] \ {w}]

(* wake_one, wake_n or flush is called.                                    *)
Call(k, c) ==
  /\ kpc[k] = "idle"
  /\ kind' = [kind EXCEPT ![k] = c]
  /\ need' = [need EXCEPT ![k] = IF c = "n" THEN BatchSize ELSE 1]
  /\ slept' = [slept EXCEPT ![k] = {w \in Waiters : Asleep(w)}]
  /\ GotoK(k, "detach")
  /\ UNCHANGED <<registry, shared, wpc, from, at, rest, chain, got>>

(* ParkOverflow::wake_all: return if the stack is empty, or take all of it *)
(* and unpark thread after thread.                                         *)
Search(k) == IF kind[k] = "flush" THEN "swap" ELSE "cursor"

Detach(k) ==
  /\ kpc[k] = "detach"
  /\ chain' = [chain EXCEPT ![k] = overflow]
  /\ overflow' = <<>>
  /\ GotoK(k, IF overflow = <<>> THEN Search(k) ELSE "release")
  /\ UNCHANGED <<bits, handle, cursor, tokens, registry, wpc, kind, need, from, at, rest, got, slept>>

(* Mutant: threads woken off the overflow count as the wake.               *)
ReleaseSuffices(k) ==
  /\ kpc[k] = "release"
  /\ Unpark(Head(chain[k]))
  /\ chain' = [chain EXCEPT ![k] = Tail(@)]
  /\ GotoK(k, IF Tail(chain[k]) = <<>> THEN "return" ELSE "release")
  /\ UNCHANGED <<bits, handle, cursor, overflow, registry, wpc, kind, need, from, at, rest, got>>

Release(k) ==
  /\ kpc[k] = "release"
  /\ Unpark(Head(chain[k]))
  /\ chain' = [chain EXCEPT ![k] = Tail(@)]
  /\ GotoK(k, IF Tail(chain[k]) = <<>> THEN Search(k) ELSE "release")
  /\ UNCHANGED <<bits, handle, cursor, overflow, registry, wpc, kind, need, from, at, rest, got>>

LoadCursor(k) ==
  /\ kpc[k] = "cursor"
  /\ from' = [from EXCEPT ![k] = cursor]
  /\ GotoK(k, "bitmap")
  /\ UNCHANGED <<registry, shared, wpc, kind, need, at, rest, chain, got, slept>>

(* Mutant: no rotation.                                                    *)
IsLowestSet(s, S, c) == IsLowest(s, S)

(* The first set bit at or after the cursor, going round.                  *)
IsNext(s, S, c) ==
  \A t \in S : (s + ParkSlots - c) % ParkSlots <= (t + ParkSlots - c) % ParkSlots

(* Load the bitmap and choose a bit; with none set the call is over, and   *)
(* wake_n goes on to store its cursor.                                     *)
LoadBitmap(k) ==
  /\ kpc[k] = "bitmap"
  /\ \/ /\ bits = {}
        /\ GotoK(k, IF kind[k] = "n" THEN "store" ELSE "return")
        /\ UNCHANGED at
     \/ \E s \in bits :
          /\ IsNext(s, bits, from[k])
          /\ at' = [at EXCEPT ![k] = s]
          /\ GotoK(k, "clear")
  /\ UNCHANGED <<registry, shared, wpc, kind, need, from, rest, chain, got, slept>>

(* fetch_and of the chosen bit, which another waker or the waiter itself   *)
(* may have cleared: then look again.  wake_n moves its own cursor either  *)
(* way, wake_one the shared one once it has the bit.                       *)
ClearBit(k) ==
  /\ kpc[k] = "clear"
  /\ bits' = bits \ {at[k]}
  /\ from' = IF kind[k] = "n" THEN [from EXCEPT ![k] = at[k] + 1] ELSE from
  /\ GotoK(k, CASE at[k] \notin bits -> "bitmap"
                [] at[k] \in bits /\ kind[k] = "n" -> "claim"
                [] OTHER -> "advance")
  /\ UNCHANGED <<handle, cursor, overflow, tokens, registry, wpc, kind, need, at, rest, chain, got, slept>>

Advance(k) ==
  /\ kpc[k] = "advance"
  /\ cursor' = at[k] + 1
  /\ GotoK(k, "claim")
  /\ UNCHANGED <<bits, handle, overflow, tokens, registry, wpc, kind, need, from, at, rest, chain, got, slept>>

(* ThreadParker::wake: swap the handle out.  A bit whose handle is gone    *)
(* delivers nothing, and the search goes on.                               *)
Claim(k) ==
  /\ kpc[k] = "claim"
  /\ got' = [got EXCEPT ![k] = handle[at[k]]]
  /\ handle' = [handle EXCEPT ![at[k]] = None]
  /\ GotoK(k, CASE handle[at[k]] # None -> "unpark"
                [] handle[at[k]] = None /\ kind[k] = "flush" -> "flushing"
                [] OTHER -> "bitmap")
  /\ UNCHANGED <<bits, cursor, overflow, tokens, registry, wpc, kind, need, from, at, rest, chain, slept>>

(* ThreadParker::wake: unpark the thread; the wake is delivered.           *)
Deliver(k) ==
  /\ kpc[k] = "unpark"
  /\ Unpark(got[k])
  /\ got' = [got EXCEPT ![k] = None]
  /\ need' = [need EXCEPT ![k] = IF kind[k] = "flush" THEN @ ELSE @ - 1]
  /\ GotoK(k, CASE kind[k] = "one" -> "return"
                [] kind[k] = "n" -> IF need[k] = 1 THEN "store" ELSE "bitmap"
                [] kind[k] = "flush" -> "flushing")
  /\ UNCHANGED <<bits, handle, cursor, overflow, registry, wpc, kind, from, at, rest, chain>>

(* The end of wake_n.                                                      *)
StoreCursor(k) ==
  /\ kpc[k] = "store"
  /\ cursor' = from[k]
  /\ GotoK(k, "return")
  /\ UNCHANGED <<bits, handle, overflow, tokens, registry, wpc, kind, need, from, at, rest, chain, got, slept>>

(* flush: take the whole bitmap ...                                        *)
SwapBits(k) ==
  /\ kpc[k] = "swap"
  /\ rest' = [rest EXCEPT ![k] = bits]
  /\ bits' = {}
  /\ GotoK(k, "flushing")
  /\ UNCHANGED <<handle, cursor, overflow, tokens, registry, wpc, kind, need, from, at, chain, got, slept>>

(* ... and wake slot after slot.                                           *)
NextFlushed(k) ==
  /\ kpc[k] = "flushing"
  /\ \E s \in rest[k] :
       /\ IsLowest(s, rest[k])
       /\ at' = [at EXCEPT ![k] = s]
       /\ rest' = [rest EXCEPT ![k] = @ \ {s}]
  /\ GotoK(k, "claim")
  /\ UNCHANGED <<registry, shared, wpc, kind, need, from, chain, got, slept>>

Flushed(k) ==
  /\ kpc[k] = "flushing" /\ rest[k] = {}
  /\ GotoK(k, "return")
  /\ UNCHANGED <<registry, shared, wpc, kind, need, from, at, rest, chain, got, slept>>

(* The locals end with the call.                                           *)
Return(k) ==
  /\ kpc[k] = "return"
  /\ kind' = [kind EXCEPT ![k] = "one"]
  /\ need' = [need EXCEPT ![k] = 0]
  /\ from' = [from EXCEPT ![k] = 0] /\ at' = [at EXCEPT ![k] = 0]
  /\ slept' = [slept EXCEPT ![k] = {}]
  /\ GotoK(k, "idle")
  /\ UNCHANGED <<registry, shared, wpc, rest, chain, got>>

WakerStep(k) ==
  \/ Detach(k) \/ Release(k) \/ LoadCursor(k) \/ LoadBitmap(k)
  \/ ClearBit(k) \/ Advance(k) \/ Claim(k) \/ Deliver(k) \/ StoreCursor(k)
  \/ SwapBits(k) \/ NextFlushed(k) \/ Flushed(k) \/ Return(k)

WakerNext(k) == WakerStep(k) \/ \E c \in WakeCalls : Call(k, c)

Next == (\E w \in Waiters : WaiterNext(w)) \/ (\E k \in Wakers : WakerNext(k))

Spec == Init /\ [][Next]_vars

(* A waiter that armed goes on, and wakes keep coming: the other side      *)
(* calls wake_one or wake_n again and again, and a call once begun is      *)
(* carried through.  Nothing obliges anyone to flush.                      *)
Wake(k) == \E c \in WakeCalls \ {"flush"} : Call(k, c)

Fairness ==
  /\ \A w \in Waiters : WF_vars(ArmBit(w) \/ Recheck(w) \/ Park(w) \/ Disarm(w))
  /\ \A k \in Wakers : WF_vars(WakerStep(k) \/ Wake(k))

FairSpec == Spec /\ Fairness

-----------------------------------------------------------------------------
(* Properties.                                                             *)

Leased(w) == slot[w] \in Slots

(* Waker k has taken the bit of slot s and has yet to look at its handle.  *)
HasBit(k, s) == (kpc[k] \in {"advance", "claim"} /\ at[k] = s) \/ s \in rest[k]

(* Waker k is about to unpark w.                                           *)
InHand(k, w) ==
  \/ got[k] = w
  \/ w \in Range(chain[k])
  \/ Leased(w) /\ handle[slot[w]] = w /\ HasBit(k, slot[w])

(* No sleeper is out of reach: a waiter asleep has its bit and its handle  *)
(* set, or is registered on the overflow stack, or some waker is about to  *)
(* unpark it (arm, park, disarm; the claim protocol of ThreadParker).      *)
SleeperIsReachable ==
  \A w \in Waiters : Asleep(w) =>
    \/ Leased(w) /\ slot[w] \in bits /\ handle[slot[w]] = w
    \/ w \in Range(overflow)
    \/ \E k \in Wakers : InHand(k, w)

(* Two endpoints never share a slot, however endpoints come and go, and no *)
(* bit is set for a slot nobody leases (ParkRegistry, disarm before drop). *)
LeaseIsExclusive ==
  /\ \A w, v \in Waiters : w # v /\ Leased(w) => slot[w] # slot[v]
  /\ held = {slot[w] : w \in {v \in Waiters : Leased(v)}}
  /\ bits \subseteq held

(* A call that returns without having delivered what it owes has missed    *)
(* nobody: whoever was asleep when it began and has not been woken since   *)
(* is about to be unparked by another waker (wake_one, wake_n, flush).     *)
WakeMissesNobody ==
  \A k \in Wakers :
    kpc[k] = "return" /\ (need[k] > 0 \/ kind[k] = "flush") =>
      \A w \in slept[k] : \E j \in Wakers \ {k} : InHand(j, w)

(* As long as wakes keep coming every sleeper is woken: a waiter that      *)
(* parks again at once cannot absorb them all (the round-robin cursor).    *)
(* The search is lock-free, not wait-free: a waker may go on losing the    *)
(* bit it chose to waiters that disarm, so this is promised for behaviours *)
(* where that ends.                                                        *)
LosesBit(k) == kpc[k] = "clear" /\ at[k] \notin bits /\ kpc'[k] = "bitmap"

EverySleeperIsWoken ==
  <>[][\A k \in Wakers : ~LosesBit(k)]_vars =>
    \A w \in Waiters : Asleep(w) ~> ~Asleep(w)
=============================================================================
