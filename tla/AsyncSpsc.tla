----------------------------- MODULE AsyncSpsc -----------------------------
(***************************************************************************)
(* The spsc ring (spsc/) with its async calls: push_async and pop_async on *)
(* the wakers of common/wake_async.rs.                                     *)
(*                                                                         *)
(* A future that finds no room, or no value, leaves a registration in the  *)
(* waker set of its side, looks once more and returns Pending.  The other  *)
(* side wakes every registration after each step it takes.  All futures of *)
(* the producer share its one slot: a registration that displaces a peer's *)
(* moves it to the overflow stack, and a future that is dropped, resolved  *)
(* or not, withdraws its own wherever it is by then.  The consumer has one *)
(* future at a time, so its set never overflows.                           *)
(*                                                                         *)
(* Each side is one thread: handles are not Sync and push_async's futures  *)
(* not Send.  Steps of one future never interleave with those of another.  *)
(***************************************************************************)
EXTENDS Cursors, FiniteSets

CONSTANTS Futures, None

ASSUME AsyncSpscAssumption == None \notin Futures

VARIABLES
  head, tail,    \* the published cursors
  cachedHead,    \* the producer's view of head
  cachedTail,    \* the consumer's view of tail
  cell,          \* per slot: the position whose value its memory holds
  producerClosed, consumerClosed,
  signal,        \* a call of RingBuffer::close from outside: none yet, flush or done
  life,          \* per push future: new, pending, ready or gone
  armed,         \* push futures that have registered since they were made
  woken,         \* push futures woken and not polled since
  slot, overflow, flagged,   \* producer_waker: WakerSlot, WakerOverflow, pending
  pc, at, hand,  \* the producer's step, its future, the registrations it has detached
  read,          \* the position the consumer reads next
  cpc, mode,     \* the consumer's step and what it is in: a pop, a poll or its drop
  chain,         \* registrations it has detached and is waking
  waits, cwoken, \* a pop future is pending, and has been woken since
  cslot,         \* consumer_waker: its slot is taken
  missed         \* history: push futures a wake has missed, as `hand` held them

ring == <<head, tail, cachedHead, cachedTail, cell>>
closing == <<producerClosed, consumerClosed, signal>>
futures == <<life, armed, woken>>
wakers == <<slot, overflow, flagged>>
producer == <<pc, at, hand>>
consumer == <<read, cpc, mode, chain>>
popFuture == <<waits, cwoken, cslot>>
vars == <<ring, closing, futures, wakers, producer, consumer, popFuture, missed>>

Nowhere == -1

TypeOK ==
  /\ head \in Nat /\ tail \in Nat /\ cachedHead \in Nat /\ cachedTail \in Nat /\ read \in Nat
  /\ head <= read /\ read <= cachedTail /\ cachedTail <= tail
  /\ cachedHead <= head /\ tail - cachedHead <= Capacity
  /\ cell \in [Slots -> Nat \cup {Nowhere}]
  /\ producerClosed \in BOOLEAN /\ consumerClosed \in BOOLEAN
  /\ signal \in {"none", "flush", "done"}
  /\ life \in [Futures -> {"new", "pending", "ready", "gone"}]
  /\ armed \subseteq Futures /\ woken \subseteq Futures
  /\ slot \in Futures \cup {None} /\ overflow \subseteq Futures /\ flagged \in BOOLEAN
  /\ at \in Futures \cup {None} /\ hand \subseteq Futures /\ chain \subseteq Futures
  /\ mode \in {"direct", "poll", "drop"}
  /\ waits \in BOOLEAN /\ cwoken \in BOOLEAN /\ cslot \in BOOLEAN /\ missed \subseteq Futures

Init ==
  /\ head = 0 /\ tail = 0 /\ cachedHead = 0 /\ cachedTail = 0
  /\ cell = [s \in Slots |-> Nowhere]
  /\ producerClosed = FALSE /\ consumerClosed = FALSE /\ signal = "none"
  /\ life = [f \in Futures |-> "new"] /\ armed = {} /\ woken = {}
  /\ slot = None /\ overflow = {} /\ flagged = FALSE
  /\ pc = "idle" /\ at = None /\ hand = {}
  /\ read = 0 /\ cpc = "idle" /\ mode = "direct" /\ chain = {}
  /\ waits = FALSE /\ cwoken = FALSE /\ cslot = FALSE
  /\ missed = {}

-----------------------------------------------------------------------------
(* The producer: push_async.                                               *)

Goto(step) == pc' = step /\ UNCHANGED at

(* The future is polled or dropped: back to the executor.                  *)
Yield(state) ==
  /\ pc' = "idle" /\ at' = None
  /\ life' = [life EXCEPT ![at] = state]
  /\ woken' = IF state = "pending" THEN woken ELSE woken \ {at}

(* An executor polls what has been woken, and may poll more.               *)
Poll(f) ==
  /\ pc = "idle" /\ life[f] \in {"new", "pending"}
  /\ pc' = "open?" /\ at' = f
  /\ woken' = woken \ {f} /\ missed' = missed \ {f}
  /\ UNCHANGED <<ring, closing, life, armed, wakers, hand, consumer, popFuture>>

(* Before each of its two attempts.                                        *)
CheckOpen ==
  /\ pc \in {"open?", "still open?"}
  /\ IF consumerClosed
     THEN Yield("ready")
     ELSE Goto(IF pc = "open?" THEN "push" ELSE "push again") /\ UNCHANGED <<life, woken>>
  /\ UNCHANGED <<ring, closing, armed, wakers, hand, consumer, popFuture, missed>>

(* Mutant: off by one.                                                     *)
HasRoomOffByOne(h) == tail - h <= Capacity

(* try_claim: the cached head is renewed when it shows no room.            *)
HasRoom(h) == tail - h < Capacity
Room == HasRoom(head)
Renewed == IF HasRoom(cachedHead) THEN cachedHead ELSE head

PushOk ==
  /\ pc \in {"push", "push again"}
  /\ HasRoom(Renewed)
  /\ cachedHead' = Renewed
  /\ cell' = [cell EXCEPT ![Slot(tail)] = tail]
  /\ tail' = tail + 1
  /\ Goto("wake")
  /\ UNCHANGED <<head, cachedTail, closing, futures, wakers, hand, consumer, popFuture, missed>>

(* Mutant: an old registration is not withdrawn before the next.           *)
FailWithoutSweep ==
  /\ pc \in {"push", "push again"}
  /\ ~HasRoom(Renewed)
  /\ cachedHead' = Renewed
  /\ IF pc = "push"
     THEN Goto("register") /\ UNCHANGED <<life, woken>>
     ELSE Yield("pending")
  /\ UNCHANGED <<head, tail, cachedTail, cell, closing, armed, wakers, hand, consumer,
                 popFuture, missed>>

PushFails ==
  /\ pc \in {"push", "push again"}
  /\ ~HasRoom(Renewed)
  /\ cachedHead' = Renewed
  /\ IF pc = "push"
     THEN Goto(IF at \in armed THEN "sweep" ELSE "register") /\ UNCHANGED <<life, woken>>
     ELSE Yield("pending")
  /\ UNCHANGED <<head, tail, cachedTail, cell, closing, armed, wakers, hand, consumer,
                 popFuture, missed>>

(* WakerSlot::wake of the consumer's set.                                  *)
WakePopFuture == cslot' = FALSE /\ cwoken' = (cwoken \/ cslot) /\ UNCHANGED waits

WakeConsumer ==
  /\ pc = "wake"
  /\ WakePopFuture
  /\ Yield("ready")
  /\ UNCHANGED <<ring, closing, armed, wakers, hand, consumer, missed>>

(* WakerOverflow::withdraw, first thing when a future arms again and last  *)
(* thing when it is dropped: detach the stack ...                          *)
Sweep ==
  /\ pc \in {"sweep", "last sweep"}
  /\ hand' = overflow \ {at} /\ overflow' = {}
  /\ Goto(IF pc = "sweep" THEN "put back" ELSE "put all back")
  /\ UNCHANGED <<ring, closing, futures, slot, flagged, consumer, popFuture, missed>>

(* ... and push the survivors back, one by one.                            *)
PutBack ==
  /\ pc \in {"put back", "put all back"} /\ hand # {}
  /\ \E f \in hand : hand' = hand \ {f} /\ overflow' = overflow \cup {f}
  /\ UNCHANGED <<ring, closing, futures, slot, flagged, pc, at, consumer, popFuture, missed>>

(* Mutant: the displaced registration is dropped.                          *)
RegisterOver ==
  /\ \/ pc = "register"
     \/ pc = "put back" /\ hand = {}
  /\ slot' = at
  /\ hand' = {}
  /\ armed' = armed \cup {at}
  /\ Goto("displace")
  /\ UNCHANGED <<ring, closing, life, woken, overflow, flagged, consumer, popFuture, missed>>

(* register_as: take the slot; a peer found there ...                      *)
Register ==
  /\ \/ pc = "register"
     \/ pc = "put back" /\ hand = {}
  /\ slot' = at
  /\ hand' = {slot} \ {at, None}
  /\ armed' = armed \cup {at}
  /\ Goto("displace")
  /\ UNCHANGED <<ring, closing, life, woken, overflow, flagged, consumer, popFuture, missed>>

(* ... moves to the overflow.  `pending` is set once and for all.          *)
Displace ==
  /\ pc = "displace"
  /\ overflow' = overflow \cup hand /\ hand' = {}
  /\ flagged' = TRUE
  /\ Goto("still open?")
  /\ UNCHANGED <<ring, closing, futures, slot, consumer, popFuture, missed>>

-----------------------------------------------------------------------------
(* The producer: a future is dropped, woken or not, resolved or not.       *)

DropFuture(f) ==
  /\ pc = "idle" /\ life[f] \in {"pending", "ready"}
  /\ IF f \in armed
     THEN pc' = "unslot" /\ at' = f /\ UNCHANGED life
     ELSE life' = [life EXCEPT ![f] = "gone"] /\ UNCHANGED <<pc, at>>
  /\ missed' = missed \ {f}
  /\ UNCHANGED <<ring, closing, armed, woken, wakers, hand, consumer, popFuture>>

(* WakerSet::withdraw: empty the slot; if the registration was its own,    *)
(* that is all; a peer's is moved to the overflow, and the overflow swept. *)
Unslot ==
  /\ pc = "unslot"
  /\ slot' = None
  /\ hand' = {slot} \ {at, None}
  /\ IF slot = at
     THEN Yield("gone")
     ELSE Goto("keep peer") /\ UNCHANGED <<life, woken>>
  /\ UNCHANGED <<ring, closing, armed, overflow, flagged, consumer, popFuture, missed>>

KeepPeer ==
  /\ pc = "keep peer"
  /\ overflow' = overflow \cup hand /\ hand' = {}
  /\ Goto("last sweep")
  /\ UNCHANGED <<ring, closing, futures, slot, flagged, consumer, popFuture, missed>>

SweptForDrop ==
  /\ pc = "put all back" /\ hand = {}
  /\ Yield("gone")
  /\ UNCHANGED <<ring, closing, armed, wakers, hand, consumer, popFuture, missed>>

(* Producer::drop: close, then wake the consumer.                          *)
DropProducer ==
  /\ pc = "idle" /\ \A f \in Futures : life[f] \in {"new", "gone"}
  /\ producerClosed' = TRUE
  /\ pc' = "flush"
  /\ UNCHANGED <<ring, consumerClosed, signal, futures, wakers, at, hand, consumer, popFuture, missed>>

FlushPopFuture ==
  /\ pc = "flush"
  /\ WakePopFuture
  /\ pc' = "dropped"
  /\ UNCHANGED <<ring, closing, futures, wakers, at, hand, consumer, missed>>

(* RingBuffer::close, by whoever shares the ring: it tells the consumer,   *)
(* and the producer goes on.                                               *)
SignalClose ==
  /\ signal = "none"
  /\ producerClosed' = TRUE /\ signal' = "flush"
  /\ UNCHANGED <<ring, consumerClosed, futures, wakers, producer, consumer, popFuture, missed>>

SignalFlush ==
  /\ signal = "flush"
  /\ WakePopFuture
  /\ signal' = "done"
  /\ UNCHANGED <<ring, producerClosed, consumerClosed, futures, wakers, producer, consumer, missed>>

-----------------------------------------------------------------------------
(* The consumer: pop, pop_ref, drain and pop_async.                        *)

CGoto(step) == cpc' = step /\ UNCHANGED mode
CReturn == cpc' = "idle" /\ mode' = "direct"

(* All but a poll need the handle, which a pop future has for its life.    *)
Begin(m) ==
  /\ cpc = "idle" /\ (m = "poll" \/ ~waits)
  /\ cpc' = "pop" /\ mode' = m
  /\ read' = head
  /\ cwoken' = FALSE
  /\ UNCHANGED <<ring, closing, futures, wakers, producer, chain, waits, cslot, missed>>

(* available: the cached tail is renewed when it shows nothing to read.    *)
CTail == IF read = cachedTail THEN tail ELSE cachedTail

(* A value leaves its slot before head is published; drain takes several.  *)
Take ==
  /\ \/ cpc \in {"pop", "pop again", "last pop"}
     \/ cpc = "publish" /\ mode = "direct"
  /\ read # CTail
  /\ cachedTail' = CTail
  /\ cell' = [cell EXCEPT ![Slot(read)] = Nowhere]
  /\ read' = read + 1
  /\ CGoto("publish")
  /\ UNCHANGED <<head, tail, cachedHead, closing, futures, wakers, producer, chain, popFuture,
                 missed>>

(* Mutant: a panic in drain's callback skips the publication.              *)
PublishUnlessPanic ==
  /\ cpc = "publish"
  /\ \/ head' = read
     \/ mode = "direct" /\ head' = head
  /\ CGoto("wake")
  /\ UNCHANGED <<tail, cachedHead, cachedTail, cell, closing, futures, wakers, producer, read,
                 chain, popFuture, missed>>

(* HeadPublisher's drop: at the end of the call, or as a panic unwinds it. *)
Publish ==
  /\ cpc = "publish"
  /\ head' = read
  /\ CGoto("wake")
  /\ UNCHANGED <<tail, cachedHead, cachedTail, cell, closing, futures, wakers, producer, read,
                 chain, popFuture, missed>>

(* Nothing to take.                                                        *)
FindEmpty ==
  /\ cpc \in {"pop", "pop again", "last pop"}
  /\ read = CTail
  /\ cachedTail' = CTail
  /\ \/ mode = "direct" /\ CReturn
     \/ mode = "drop" /\ CGoto("close")
     \/ mode = "poll" /\ cpc = "pop" /\ CGoto("closed?")
     \/ mode = "poll" /\ cpc = "pop again" /\ CGoto("closed now?")
     \/ mode = "poll" /\ cpc = "last pop" /\ CGoto("resolve")
  /\ UNCHANGED <<head, tail, cachedHead, cell, closing, futures, wakers, producer, read, chain,
                 popFuture, missed>>

(* Mutant: no second look at the ring.                                     *)
ArmPopOnly ==
  /\ cpc = "arm"
  /\ cslot' = TRUE
  /\ CGoto("closed now?")
  /\ UNCHANGED <<ring, closing, futures, wakers, producer, read, chain, waits, cwoken, missed>>

CheckClosed ==
  /\ cpc \in {"closed?", "closed now?"}
  /\ IF producerClosed
     THEN CGoto("last pop") /\ UNCHANGED waits
     ELSE IF cpc = "closed?" THEN CGoto("arm") /\ UNCHANGED waits
     ELSE CReturn /\ waits' = TRUE
  /\ UNCHANGED <<ring, closing, futures, wakers, producer, read, chain, cwoken, cslot, missed>>

ArmPop ==
  /\ cpc = "arm"
  /\ cslot' = TRUE
  /\ CGoto("pop again")
  /\ UNCHANGED <<ring, closing, futures, wakers, producer, read, chain, waits, cwoken, missed>>

(* The pop future resolves, or is dropped as it waits: it withdraws.       *)
Withdraw ==
  /\ cslot' = FALSE /\ waits' = FALSE /\ cwoken' = FALSE
  /\ CReturn
  /\ UNCHANGED <<ring, closing, futures, wakers, producer, read, chain, missed>>

Resolve == cpc = "resolve" /\ Withdraw
CancelPop == cpc = "idle" /\ waits /\ Withdraw

-----------------------------------------------------------------------------
(* The consumer: wake_all and flush of the producer's set.                 *)

(* A woken push future is polled again, unless it is dropped first.        *)
Awake(fs) == woken' = woken \cup {f \in fs : life[f] \in {"new", "pending"}} /\ UNCHANGED <<life, armed>>

(* What follows a wake.  A value's destructor may unwind the drop.         *)
AfterWake ==
  \/ mode = "direct" /\ CReturn
  \/ mode = "poll" /\ CGoto("resolve")
  \/ mode = "drop" /\ \E step \in {"pop", "close"} : CGoto(step)

NobodyEver ==
  /\ cpc = "wake" /\ ~flagged
  /\ AfterWake
  /\ UNCHANGED <<ring, closing, futures, wakers, producer, read, chain, popFuture, missed>>

WakeSlot ==
  /\ \/ cpc = "flush"
     \/ cpc = "wake" /\ flagged
  /\ Awake({slot} \ {None})
  /\ slot' = None
  /\ CGoto("overflow")
  /\ UNCHANGED <<ring, closing, overflow, flagged, producer, read, chain, popFuture, missed>>

(* WakerOverflow::wake_all: detach the stack ...                           *)
DetachOverflow ==
  /\ cpc = "overflow"
  /\ chain' = overflow /\ overflow' = {}
  /\ missed' = missed \cup {f \in hand : life[f] = "pending" /\ f \notin woken}
  /\ CGoto("chain")
  /\ UNCHANGED <<ring, closing, futures, slot, flagged, producer, read, popFuture>>

(* ... and wake the registrations one by one.                              *)
WakeChain ==
  /\ cpc = "chain"
  /\ \E f \in chain : chain' = chain \ {f} /\ Awake({f})
  /\ UNCHANGED <<ring, closing, wakers, producer, read, cpc, mode, popFuture, missed>>

ChainWoken ==
  /\ cpc = "chain" /\ chain = {}
  /\ IF consumerClosed THEN CGoto("gone") ELSE AfterWake
  /\ UNCHANGED <<ring, closing, futures, wakers, producer, read, chain, popFuture, missed>>

(* ConsumerClose's drop.                                                   *)
CloseConsumer ==
  /\ cpc = "close"
  /\ consumerClosed' = TRUE
  /\ CGoto("flush")
  /\ UNCHANGED <<ring, producerClosed, signal, futures, wakers, producer, read, chain, popFuture, missed>>

-----------------------------------------------------------------------------

ProducerNext ==
  \/ \E f \in Futures : Poll(f) \/ DropFuture(f)
  \/ CheckOpen \/ PushOk \/ PushFails \/ WakeConsumer
  \/ Sweep \/ PutBack \/ Register \/ Displace
  \/ Unslot \/ KeepPeer \/ SweptForDrop
  \/ DropProducer \/ FlushPopFuture

ConsumerNext ==
  \/ \E m \in {"direct", "poll", "drop"} : Begin(m)
  \/ Take \/ Publish \/ FindEmpty
  \/ CheckClosed \/ ArmPop \/ Resolve \/ CancelPop
  \/ NobodyEver \/ WakeSlot \/ DetachOverflow \/ WakeChain \/ ChainWoken
  \/ CloseConsumer

(* Both handles are gone, and the ring with them.                          *)
Ended == pc = "dropped" /\ cpc = "gone"
Finished == Ended /\ UNCHANGED vars

Next == ProducerNext \/ ConsumerNext \/ SignalClose \/ SignalFlush \/ Finished

Spec == Init /\ [][Next]_vars

-----------------------------------------------------------------------------

(* Cursors::occupied: the positions whose values RingBuffer::drop drops.   *)
Occupied == head..(tail - 1)

(* Every position from the reader to the tail has its value, and no other  *)
(* slot has one, whatever call was cut short by a panic: nothing is read   *)
(* twice or overwritten unread.  Once both handles are gone, the cursors   *)
(* say which slots still hold a value.                                     *)
NothingUnreadIsLost ==
  /\ \A s \in Slots : cell[s] # Nowhere => cell[s] \in read..(tail - 1)
  /\ \A pos \in read..(tail - 1) : cell[Slot(pos)] = pos
  /\ Ended => {cell[s] : s \in Slots} \ {Nowhere} = Occupied

(* A registration is in one place, and a future that is gone has none: a   *)
(* future cancelled over and over leaves nothing behind it.                *)
RegistrationsAreOwned ==
  /\ \A f \in {slot} \cup overflow \cup hand : f = None \/ life[f] \in {"pending", "ready"} \/ f = at
  /\ slot \notin overflow \cup hand
  /\ overflow \cap hand = {}

(* The consumer's next wake reaches it.                                    *)
Reached(f) ==
  \/ f \in chain
  \/ f \in overflow \cup hand /\ cpc \in {"wake", "flush", "overflow"}
  \/ f = slot /\ cpc \in {"wake", "flush"}

(* A push future waits beside room, or beside a consumer that is gone,     *)
(* only until the wake on its way arrives, whoever else was woken, dropped *)
(* or displaced meanwhile.  The exception: until its next poll, a future   *)
(* whose registration was in the producer's hands as a wake went by.       *)
NoSleepBesideRoom ==
  \A f \in Futures \ (woken \cup missed \cup {at}) :
    life[f] = "pending" /\ (Room \/ consumerClosed) => Reached(f)

(* A pop future waits beside a value, or beside a producer that is gone,   *)
(* only until the wake that the other side is about to give arrives.       *)
NoSleepBesideValue ==
  waits /\ ~cwoken /\ cpc = "idle" /\ (tail # head \/ producerClosed)
    => cslot /\ (pc \in {"wake", "flush"} \/ signal = "flush")
=============================================================================
