-------------------------- MODULE AsyncSpscProofs ---------------------------
(***************************************************************************)
(* The spsc ring's values and its async calls, for any number of push      *)
(* futures and any capacity.  The ring part rests on one thread writing    *)
(* each cursor; the waker part on where a registration can be when a wake  *)
(* goes by.                                                                *)
(***************************************************************************)
EXTENDS AsyncSpsc, TLAPS

-----------------------------------------------------------------------------
(* The slot map.                                                           *)

(* The slot of a position (Capacity::index_of).                            *)
LEMMA SlotType == ASSUME NEW a \in Nat PROVE Slot(a) \in Slots
BY CapacityAssumption DEF Slot, Slots

(* A position is some laps and its slot.                                   *)
LEMMA SlotDivision ==
  ASSUME NEW a \in Nat
  PROVE  /\ a = Capacity * (a \div Capacity) + Slot(a)
         /\ a \div Capacity \in Nat /\ Slot(a) \in Nat /\ Slot(a) < Capacity
BY CapacityAssumption DEF Slot

LEMMA Multiples ==
  ASSUME NEW q \in Int, NEW r \in Int, q < r
  PROVE  Capacity * q + Capacity <= Capacity * r
<1>1. Capacity * (q + 1) <= Capacity * r
  BY CapacityAssumption
<1>2. Capacity * (q + 1) = Capacity * q + Capacity
  BY CapacityAssumption
<1> QED  BY <1>1, <1>2

LEMMA SlotInjective ==
  ASSUME NEW a \in Nat, NEW b \in Nat, a < b, b < a + Capacity
  PROVE  Slot(a) # Slot(b)
<1> SUFFICES ASSUME Slot(a) = Slot(b) PROVE FALSE
  OBVIOUS
<1> DEFINE q == a \div Capacity
           r == b \div Capacity
<1>1. a = Capacity * q + Slot(a) /\ q \in Nat /\ Slot(a) \in Nat
  BY SlotDivision
<1>2. b = Capacity * r + Slot(a) /\ r \in Nat
  BY SlotDivision
<1> HIDE DEF q, r
<1>3. Capacity * q \in Int /\ Capacity * r \in Int
  BY <1>1, <1>2, CapacityAssumption
<1>4. CASE r < q
  BY <1>1, <1>2, <1>3, <1>4, Multiples, CapacityAssumption
<1>5. CASE r = q
  BY <1>1, <1>2, <1>5
<1>6. CASE q < r
  BY <1>1, <1>2, <1>3, <1>6, Multiples, CapacityAssumption
<1> QED  BY <1>1, <1>2, <1>4, <1>5, <1>6

-----------------------------------------------------------------------------
(* The values from the reader to the tail, each in its own slot; only      *)
(* between a Take and its Publish is the reader ahead of head.             *)
RingInv ==
  /\ \A s \in Slots : cell[s] # Nowhere => cell[s] \in read..(tail - 1) /\ Slot(cell[s]) = s
  /\ \A pos \in read..(tail - 1) : cell[Slot(pos)] = pos
  /\ cpc # "publish" => read = head

PollSteps == {"open?", "push", "sweep", "put back", "register", "displace", "still open?",
              "push again", "wake"}
DropSteps == {"unslot", "keep peer", "last sweep", "put all back"}

(* The future the producer is busy with, and nobody else, may be between   *)
(* two states.                                                             *)
PollInv ==
  /\ pc \in PollSteps \cup DropSteps => at \in Futures
  /\ pc \in PollSteps => life[at] \in {"new", "pending"}
  /\ pc \in DropSteps => life[at] \in {"pending", "ready"} /\ at \in armed
  /\ pc \in {"idle", "flush", "dropped"} => at = None
  /\ pc \in PollSteps \cup DropSteps \cup {"idle", "flush", "dropped"}
  /\ \A f \in Futures : life[f] = "pending" => flagged
  /\ pc \in {"still open?", "push again"} => flagged

Registered == ({slot} \cup overflow \cup hand) \ {None}

RegistrationInv ==
  /\ RegistrationsAreOwned
  /\ Registered \subseteq armed
  /\ hand # {} => pc \in {"put back", "displace", "keep peer", "put all back"}
  /\ at \notin hand
  /\ pc = "register" => at \notin armed
  /\ pc \in {"put back", "put all back"} => at \notin overflow
  /\ pc \in {"keep peer", "last sweep", "put all back"} => slot = None

Waiting(f) == life[f] = "pending" /\ f \notin woken \cup missed \cup {at}

WakeInv ==
  /\ NoSleepBesideRoom
  /\ \A f \in Futures : Waiting(f) => f \in Registered \cup chain
  /\ chain # {} => cpc = "chain"
  /\ consumerClosed => cpc \in {"flush", "overflow", "chain", "gone"}
  /\ pc \in {"displace", "still open?", "push again"} => slot = at \/ at \in woken
  /\ pc = "push again" /\ consumerClosed => cpc = "flush" \/ at \in woken

PopInv ==
  /\ NoSleepBesideValue
  /\ waits /\ cpc # "idle" => mode = "poll"
  /\ cpc \in {"pop again", "closed now?"} \/ (cpc = "idle" /\ waits) => cwoken \/ cslot
  /\ cpc = "closed now?" /\ ~cwoken /\ tail # head => pc = "wake"

IInv == TypeOK /\ RingInv /\ PollInv /\ RegistrationInv /\ WakeInv /\ PopInv

-----------------------------------------------------------------------------
(* Types.                                                                  *)

CursorsOK ==
  /\ head \in Nat /\ tail \in Nat /\ cachedHead \in Nat /\ cachedTail \in Nat /\ read \in Nat
  /\ head <= read /\ read <= cachedTail /\ cachedTail <= tail
  /\ cachedHead <= head /\ tail - cachedHead <= Capacity
  /\ cell \in [Slots -> Nat \cup {Nowhere}]

FlagsOK ==
  /\ producerClosed \in BOOLEAN /\ consumerClosed \in BOOLEAN
  /\ signal \in {"none", "flush", "done"}
  /\ mode \in {"direct", "poll", "drop"}
  /\ waits \in BOOLEAN /\ cwoken \in BOOLEAN /\ cslot \in BOOLEAN /\ flagged \in BOOLEAN

FuturesOK ==
  /\ life \in [Futures -> {"new", "pending", "ready", "gone"}]
  /\ armed \subseteq Futures /\ woken \subseteq Futures
  /\ slot \in Futures \cup {None} /\ overflow \subseteq Futures
  /\ at \in Futures \cup {None} /\ hand \subseteq Futures /\ chain \subseteq Futures
  /\ missed \subseteq Futures

LEMMA Types == TypeOK <=> CursorsOK /\ FlagsOK /\ FuturesOK
BY DEF TypeOK, CursorsOK, FlagsOK, FuturesOK

LEMMA InitIInv == ASSUME Init PROVE IInv
<1> USE CapacityAssumption, AsyncSpscAssumption DEF Init
<1>1. TypeOK
  <2>1. CursorsOK
    BY DEF CursorsOK
  <2>2. FlagsOK
    BY DEF FlagsOK
  <2>3. FuturesOK
    BY DEF FuturesOK
  <2> QED  BY <2>1, <2>2, <2>3, Types
<1>3. RingInv
  BY DEF RingInv
<1>4. PollInv
  BY DEF PollInv, PollSteps, DropSteps
<1>5. RegistrationInv
  BY DEF RegistrationInv, RegistrationsAreOwned, Registered
<1>6. WakeInv
  BY DEF WakeInv, NoSleepBesideRoom, Waiting
<1>7. PopInv
  BY DEF PopInv, NoSleepBesideValue
<1> QED  BY <1>1, <1>3, <1>4, <1>5, <1>6, <1>7 DEF IInv

LEMMA RenewedType ==
  ASSUME TypeOK
  PROVE  /\ Renewed \in Nat /\ cachedHead <= Renewed /\ Renewed <= head
         /\ ~HasRoom(Renewed) => ~Room
         /\ CTail \in Nat /\ cachedTail <= CTail /\ CTail <= tail /\ read <= CTail
BY CapacityAssumption DEF TypeOK, Renewed, HasRoom, Room, CTail

(* The steps that move a cursor, the reader or a value.                    *)
LEMMA RingSteps ==
  ASSUME [Next]_vars
  PROVE  \/ PushOk \/ PushFails \/ Take \/ Publish \/ FindEmpty
         \/ \E m \in {"direct", "poll", "drop"} : Begin(m)
         \/ UNCHANGED <<ring, read>> /\ (cpc = "publish" => cpc' = "publish")
<1> USE DEF vars, consumer
<1>1. CASE ProducerNext
  BY <1>1 DEF ProducerNext, Poll, DropFuture, CheckOpen, WakeConsumer, Sweep, PutBack, Register,
              Displace, Unslot, KeepPeer, SweptForDrop, DropProducer, FlushPopFuture
<1>2. CASE ConsumerNext
  BY <1>2 DEF ConsumerNext, CheckClosed, ArmPop, Resolve, CancelPop, Withdraw, NobodyEver,
              WakeSlot, DetachOverflow, WakeChain, ChainWoken, CloseConsumer
<1>3. CASE SignalClose \/ SignalFlush
  BY <1>3 DEF SignalClose, SignalFlush
<1> QED  BY <1>1, <1>2, <1>3 DEF Next, Finished

LEMMA CursorsStep == ASSUME TypeOK, [Next]_vars PROVE CursorsOK'
<1>1. /\ Renewed \in Nat /\ cachedHead <= Renewed /\ Renewed <= head
      /\ CTail \in Nat /\ cachedTail <= CTail /\ CTail <= tail /\ read <= CTail
      /\ CursorsOK
  BY RenewedType, Types
<1>2. CASE PushOk
  <2>1. Slot(tail) \in Slots /\ tail - Renewed < Capacity
    BY <1>1, <1>2, SlotType DEF CursorsOK, PushOk, HasRoom
  <2>2. /\ cachedHead' = Renewed /\ tail' = tail + 1 /\ cell' = [cell EXCEPT ![Slot(tail)] = tail]
        /\ UNCHANGED <<head, cachedTail, read>>
    BY <1>2 DEF PushOk, consumer
  <2> QED  BY <1>1, <2>1, <2>2, CapacityAssumption DEF CursorsOK
<1>3. CASE PushFails
  <2>1. cachedHead' = Renewed /\ UNCHANGED <<head, tail, cachedTail, cell, read>>
    BY <1>3 DEF PushFails, consumer
  <2> QED  BY <1>1, <2>1, CapacityAssumption DEF CursorsOK
<1>4. CASE Take
  <2>1. /\ Slot(read) \in Slots /\ read # CTail
        /\ cell' = [cell EXCEPT ![Slot(read)] = Nowhere]
        /\ cachedTail' = CTail /\ read' = read + 1 /\ UNCHANGED <<head, tail, cachedHead>>
    BY <1>1, <1>4, SlotType DEF CursorsOK, Take
  <2> QED  BY <1>1, <2>1, CapacityAssumption DEF CursorsOK
<1>5. CASE Publish
  <2>1. head' = read /\ UNCHANGED <<tail, cachedHead, cachedTail, cell, read>>
    BY <1>5 DEF Publish
  <2> QED  BY <1>1, <2>1, CapacityAssumption DEF CursorsOK
<1>6. CASE FindEmpty
  <2>1. cachedTail' = CTail /\ UNCHANGED <<head, tail, cachedHead, cell, read>>
    BY <1>6 DEF FindEmpty
  <2> QED  BY <1>1, <2>1, CapacityAssumption DEF CursorsOK
<1>7. ASSUME NEW m \in {"direct", "poll", "drop"}, Begin(m) PROVE CursorsOK'
  <2>1. read' = head /\ UNCHANGED <<head, tail, cachedHead, cachedTail, cell>>
    BY <1>7 DEF Begin, ring
  <2> QED  BY <1>1, <2>1, CapacityAssumption DEF CursorsOK
<1>8. CASE UNCHANGED <<ring, read>>
  BY <1>1, <1>8 DEF CursorsOK, ring
<1> QED  BY <1>2, <1>3, <1>4, <1>5, <1>6, <1>7, <1>8, RingSteps

LEMMA FlagsStep == ASSUME TypeOK, [Next]_vars PROVE FlagsOK'
<1> USE DEF TypeOK, FlagsOK, closing, wakers, popFuture
<1>1. CASE ProducerNext
  <2> USE DEF consumer, WakePopFuture
  <2>1. CASE WakeConsumer \/ FlushPopFuture \/ DropProducer \/ Displace
    BY <2>1 DEF WakeConsumer, FlushPopFuture, DropProducer, Displace
  <2>2. CASE UNCHANGED <<closing, flagged, popFuture, mode>>
    BY <2>2
  <2> QED  BY <1>1, <2>1, <2>2
           DEF ProducerNext, Poll, DropFuture, CheckOpen, PushOk, PushFails, Sweep, PutBack,
               Register, Unslot, KeepPeer, SweptForDrop
<1>2. CASE ConsumerNext
  <2> USE DEF CGoto, CReturn
  <2>1. ASSUME NEW m \in {"direct", "poll", "drop"}, Begin(m) PROVE FlagsOK'
    BY <2>1 DEF Begin
  <2>2. CASE Take \/ Publish \/ FindEmpty
    BY <2>2 DEF Take, Publish, FindEmpty
  <2>3. CASE CheckClosed \/ ArmPop \/ CloseConsumer
    BY <2>3 DEF CheckClosed, ArmPop, CloseConsumer
  <2>4. CASE Resolve \/ CancelPop
    BY <2>4 DEF Resolve, CancelPop, Withdraw
  <2>5. CASE NobodyEver \/ ChainWoken
    BY <2>5 DEF NobodyEver, ChainWoken, AfterWake
  <2>6. CASE WakeSlot \/ DetachOverflow \/ WakeChain
    BY <2>6 DEF WakeSlot, DetachOverflow, WakeChain
  <2> QED  BY <1>2, <2>1, <2>2, <2>3, <2>4, <2>5, <2>6 DEF ConsumerNext
<1>3. CASE SignalClose \/ SignalFlush
  BY <1>3 DEF SignalClose, SignalFlush, WakePopFuture, consumer
<1>4. CASE UNCHANGED vars
  BY <1>4 DEF vars, consumer
<1> QED  BY <1>1, <1>2, <1>3, <1>4 DEF Next, Finished

LEMMA FuturesStep == ASSUME TypeOK, PollInv, [Next]_vars PROVE FuturesOK'
<1> USE DEF TypeOK, FuturesOK, futures, wakers, producer, consumer
<1>1. CASE ProducerNext
  <2> USE DEF Goto, Yield
  <2>1. ASSUME NEW f \in Futures, Poll(f) \/ DropFuture(f) PROVE FuturesOK'
    BY <2>1 DEF Poll, DropFuture
  <2>2. CASE CheckOpen
    BY <2>2 DEF CheckOpen
  <2>3. CASE PushOk
    BY <2>3 DEF PushOk
  <2>4. CASE PushFails
    BY <2>4 DEF PushFails
  <2>5. CASE WakeConsumer \/ SweptForDrop
    BY <2>5 DEF WakeConsumer, SweptForDrop
  <2>6. CASE DropProducer \/ FlushPopFuture
    BY <2>6 DEF DropProducer, FlushPopFuture
  <2>7. CASE Sweep
    BY <2>7 DEF Sweep
  <2>8. CASE PutBack
    BY <2>8 DEF PutBack
  <2>9. CASE Register
    BY <2>9 DEF Register, PollInv, PollSteps, DropSteps
  <2>10. CASE Unslot
    BY <2>10 DEF Unslot
  <2>11. CASE Displace \/ KeepPeer
    BY <2>11 DEF Displace, KeepPeer
  <2> QED
    BY <1>1, <2>1, <2>2, <2>3, <2>4, <2>5, <2>6, <2>7, <2>8, <2>9, <2>10, <2>11 DEF ProducerNext
<1>2. CASE ConsumerNext
  <2>1. CASE WakeSlot
    BY <2>1 DEF WakeSlot, Awake
  <2>2. CASE WakeChain
    BY <2>2 DEF WakeChain, Awake
  <2>3. CASE DetachOverflow
    BY <2>3 DEF DetachOverflow
  <2>4. CASE UNCHANGED <<futures, wakers, producer, chain, missed>>
    BY <2>4
  <2> QED  BY <1>2, <2>1, <2>2, <2>3, <2>4
           DEF ConsumerNext, Begin, Take, Publish, FindEmpty, CheckClosed, ArmPop, Resolve,
               CancelPop, Withdraw, NobodyEver, ChainWoken, CloseConsumer
<1>3. CASE SignalClose \/ SignalFlush
  BY <1>3 DEF SignalClose, SignalFlush
<1>4. CASE UNCHANGED vars
  BY <1>4 DEF vars
<1> QED  BY <1>1, <1>2, <1>3, <1>4 DEF Next, Finished

LEMMA TypeStep == ASSUME TypeOK, PollInv, [Next]_vars PROVE TypeOK'
<1>1. CursorsOK' /\ FlagsOK' /\ FuturesOK'
  BY CursorsStep, FlagsStep, FuturesStep
<1> QED  BY <1>1 DEF TypeOK, CursorsOK, FlagsOK, FuturesOK
-----------------------------------------------------------------------------
(* The values in the ring.                                                 *)

(* A slot other than that of the position a step writes or empties.        *)
LEMMA OtherSlots ==
  ASSUME TypeOK, NEW a \in read..tail, NEW b \in read..tail, a # b,
         tail - read < Capacity \/ (a # tail /\ b # tail)
  PROVE  Slot(a) # Slot(b)
<1>1. a \in Nat /\ b \in Nat /\ tail \in Nat /\ read \in Nat /\ tail - read <= Capacity
  BY CapacityAssumption DEF TypeOK
<1>2. CASE a < b
  BY <1>1, <1>2, SlotInjective, CapacityAssumption
<1>3. CASE b < a
  BY <1>1, <1>3, SlotInjective, CapacityAssumption
<1> QED  BY <1>1, <1>2, <1>3

LEMMA PushRing == ASSUME TypeOK, RingInv, PushOk PROVE RingInv'
<1>1. /\ Slot(tail) \in Slots /\ tail - read < Capacity /\ tail \in Nat /\ read \in Nat
      /\ read <= tail /\ cell \in [Slots -> Nat \cup {Nowhere}]
  <2>1. Renewed <= head /\ Renewed \in Nat /\ tail - Renewed < Capacity
    BY RenewedType DEF PushOk, HasRoom
  <2> QED  BY <2>1, SlotType, CapacityAssumption DEF TypeOK
<1>2. /\ tail' = tail + 1 /\ cell' = [cell EXCEPT ![Slot(tail)] = tail]
      /\ UNCHANGED <<head, read, cpc>>
  BY DEF PushOk, consumer
<1>3. ASSUME NEW s \in Slots, cell'[s] # Nowhere
      PROVE  cell'[s] \in read..tail /\ Slot(cell'[s]) = s
  BY <1>1, <1>2, <1>3 DEF RingInv
<1>4. ASSUME NEW pos \in read..tail PROVE cell'[Slot(pos)] = pos
  <2>1. CASE pos = tail
    BY <1>1, <1>2, <2>1
  <2>2. CASE pos # tail
    <3>1. Slot(pos) # Slot(tail) /\ Slot(pos) \in Slots
      BY <1>1, <2>2, OtherSlots, SlotType
    <3>2. cell[Slot(pos)] = pos
      BY <1>1, <2>2 DEF RingInv
    <3> QED  BY <1>1, <1>2, <3>1, <3>2
  <2> QED  BY <2>1, <2>2
<1>5. cpc' # "publish" => read' = head'
  BY <1>2 DEF RingInv
<1> QED  BY <1>1, <1>2, <1>3, <1>4, <1>5 DEF RingInv

LEMMA TakeRing == ASSUME TypeOK, RingInv, Take PROVE RingInv'
<1>1. /\ Slot(read) \in Slots /\ tail \in Nat /\ read \in Nat
      /\ read < tail /\ cell \in [Slots -> Nat \cup {Nowhere}]
  <2>1. read <= CTail /\ CTail <= tail /\ CTail \in Nat /\ read # CTail
    BY RenewedType DEF Take
  <2> QED  BY <2>1, SlotType DEF TypeOK
<1>2. /\ read' = read + 1 /\ cell' = [cell EXCEPT ![Slot(read)] = Nowhere]
      /\ UNCHANGED <<head, tail>> /\ cpc' = "publish"
  BY DEF Take, CGoto
<1>3. ASSUME NEW s \in Slots, cell'[s] # Nowhere
      PROVE  cell'[s] \in (read + 1)..(tail - 1) /\ Slot(cell'[s]) = s
  <2>1. s # Slot(read) /\ cell'[s] = cell[s]
    BY <1>1, <1>2, <1>3
  <2> QED  BY <1>1, <1>3, <2>1 DEF RingInv
<1>4. ASSUME NEW pos \in (read + 1)..(tail - 1) PROVE cell'[Slot(pos)] = pos
  <2>1. Slot(pos) # Slot(read) /\ Slot(pos) \in Slots
    BY <1>1, OtherSlots, SlotType
  <2>2. cell[Slot(pos)] = pos
    BY <1>1 DEF RingInv
  <2> QED  BY <1>1, <1>2, <2>1, <2>2
<1> QED  BY <1>1, <1>2, <1>3, <1>4 DEF RingInv

LEMMA RingStep == ASSUME TypeOK, RingInv, [Next]_vars PROVE RingInv'
<1>1. CASE PushOk
  BY <1>1, PushRing
<1>2. CASE Take
  BY <1>2, TakeRing
<1>3. CASE PushFails
  <2>1. UNCHANGED <<head, tail, cell, read, cpc>>
    BY <1>3 DEF PushFails, consumer
  <2> QED  BY <2>1 DEF RingInv
<1>4. CASE Publish
  <2>1. cpc' = "wake" /\ head' = read /\ UNCHANGED <<tail, cell, read>>
    BY <1>4 DEF Publish, CGoto
  <2> QED  BY <2>1 DEF RingInv
<1>5. CASE FindEmpty
  <2>1. cpc # "publish" /\ UNCHANGED <<head, tail, cell, read>>
    BY <1>5 DEF FindEmpty
  <2> QED  BY <2>1 DEF RingInv
<1>6. ASSUME NEW m \in {"direct", "poll", "drop"}, Begin(m) PROVE RingInv'
  <2>1. cpc = "idle" /\ read' = head /\ UNCHANGED <<head, tail, cell>>
    BY <1>6 DEF Begin, ring
  <2> QED  BY <2>1 DEF RingInv
<1>7. CASE UNCHANGED <<ring, read>> /\ (cpc = "publish" => cpc' = "publish")
  BY <1>7 DEF RingInv, ring
<1> QED  BY <1>1, <1>2, <1>3, <1>4, <1>5, <1>6, <1>7, RingSteps

(* Once both handles are gone, what is between the cursors is what is in   *)
(* the slots.                                                              *)
LEMMA RingHolds == ASSUME TypeOK, RingInv PROVE NothingUnreadIsLost
<1>1. ASSUME Ended PROVE {cell[s] : s \in Slots} \ {Nowhere} = Occupied
  <2>1. read = head /\ head \in Nat /\ tail \in Nat
    BY <1>1 DEF TypeOK, RingInv, Ended
  <2>2. ASSUME NEW pos \in Occupied PROVE pos \in {cell[s] : s \in Slots} \ {Nowhere}
    <3>1. pos \in Nat /\ cell[Slot(pos)] = pos /\ Slot(pos) \in Slots
      BY <2>1, SlotType DEF RingInv, Occupied
    <3> QED  BY <3>1 DEF Nowhere
  <2>3. ASSUME NEW s \in Slots, cell[s] # Nowhere PROVE cell[s] \in Occupied
    BY <2>1, <2>3 DEF RingInv, Occupied
  <2> QED  BY <2>2, <2>3
<1> QED  BY <1>1 DEF RingInv, NothingUnreadIsLost
-----------------------------------------------------------------------------
(* The future in progress, and where registrations are.                    *)

LEMMA ConsumerLeavesFutures ==
  ASSUME ConsumerNext \/ SignalClose \/ SignalFlush
  PROVE  UNCHANGED <<producer, life, armed, flagged>>
<1> USE DEF futures, wakers, producer
<1>1. CASE ConsumerNext
  BY <1>1 DEF ConsumerNext, Begin, Take, Publish, FindEmpty, CheckClosed, ArmPop, Resolve,
              CancelPop, Withdraw, NobodyEver, WakeSlot, DetachOverflow, WakeChain, ChainWoken,
              CloseConsumer, Awake
<1>2. CASE SignalClose \/ SignalFlush
  BY <1>2 DEF SignalClose, SignalFlush
<1> QED  BY <1>1, <1>2

LEMMA ConsumerLeavesWakers ==
  ASSUME ConsumerNext \/ SignalClose \/ SignalFlush
  PROVE  WakeSlot \/ DetachOverflow \/ UNCHANGED <<slot, overflow>>
<1> USE DEF wakers
<1>1. CASE ConsumerNext
  BY <1>1 DEF ConsumerNext, Begin, Take, Publish, FindEmpty, CheckClosed, ArmPop, Resolve,
              CancelPop, Withdraw, NobodyEver, WakeChain, ChainWoken, CloseConsumer
<1>2. CASE SignalClose \/ SignalFlush
  BY <1>2 DEF SignalClose, SignalFlush
<1> QED  BY <1>1, <1>2

LEMMA PollStep == ASSUME TypeOK, PollInv, [Next]_vars PROVE PollInv'
<1> USE DEF PollSteps, DropSteps
<1>0. life \in [Futures -> {"new", "pending", "ready", "gone"}] /\ None \notin Futures
  BY AsyncSpscAssumption DEF TypeOK
<1>1. CASE UNCHANGED <<producer, life, armed, flagged>>
  BY <1>1 DEF PollInv, producer
<1>2. CASE ProducerNext
  <2> USE <1>0 DEF PollInv, Goto, Yield, futures, wakers
  <2>1. ASSUME NEW f \in Futures, Poll(f) PROVE PollInv'
    BY <2>1 DEF Poll
  <2>2. CASE CheckOpen
    BY <2>2 DEF CheckOpen
  <2>3. CASE PushOk
    BY <2>3 DEF PushOk
  <2>4. CASE PushFails
    <3>1. CASE pc = "push"
      BY <2>4, <3>1 DEF PushFails
    <3>2. CASE pc = "push again"
      BY <2>4, <3>2 DEF PushFails
    <3> QED  BY <2>4, <3>1, <3>2 DEF PushFails
  <2>5. CASE WakeConsumer
    BY <2>5 DEF WakeConsumer
  <2>6. CASE Sweep
    BY <2>6 DEF Sweep
  <2>7. CASE PutBack
    BY <2>7 DEF PutBack
  <2>8. CASE Register
    BY <2>8 DEF Register
  <2>9. CASE Displace
    BY <2>9 DEF Displace
  <2>10. ASSUME NEW f \in Futures, DropFuture(f) PROVE PollInv'
    BY <2>10 DEF DropFuture
  <2>11. CASE Unslot
    BY <2>11 DEF Unslot
  <2>12. CASE KeepPeer
    BY <2>12 DEF KeepPeer
  <2>13. CASE SweptForDrop
    BY <2>13 DEF SweptForDrop
  <2>14. CASE DropProducer \/ FlushPopFuture
    BY <2>14 DEF DropProducer, FlushPopFuture
  <2> QED
    BY <1>2, <2>1, <2>2, <2>3, <2>4, <2>5, <2>6, <2>7, <2>8, <2>9, <2>10, <2>11, <2>12, <2>13,
       <2>14 DEF ProducerNext
<1> QED  BY <1>1, <1>2, ConsumerLeavesFutures DEF Next, Finished, vars, futures, wakers

LEMMA RegistrationStep ==
  ASSUME TypeOK, PollInv, RegistrationInv, [Next]_vars
  PROVE  RegistrationInv'
<1> USE DEF PollSteps, DropSteps, Registered
<1>0. /\ life \in [Futures -> {"new", "pending", "ready", "gone"}] /\ None \notin Futures
      /\ armed \subseteq Futures /\ overflow \subseteq Futures /\ hand \subseteq Futures
      /\ slot \in Futures \cup {None} /\ at \in Futures \cup {None}
  BY AsyncSpscAssumption DEF TypeOK
<1>1. CASE UNCHANGED <<producer, life, armed, slot, overflow>>
  BY <1>1 DEF RegistrationInv, RegistrationsAreOwned, producer
<1>2. CASE WakeSlot
  BY <1>0, <1>2 DEF RegistrationInv, RegistrationsAreOwned, WakeSlot, Awake, producer
<1>3. CASE DetachOverflow
  BY <1>0, <1>3 DEF RegistrationInv, RegistrationsAreOwned, DetachOverflow, producer, futures
<1>4. CASE ProducerNext
  <2> USE <1>0 DEF PollInv, RegistrationInv, RegistrationsAreOwned, Goto, Yield, futures, wakers
  <2>1. ASSUME NEW f \in Futures, Poll(f) PROVE RegistrationInv'
    BY <2>1 DEF Poll
  <2>2. CASE CheckOpen
    BY <2>2 DEF CheckOpen
  <2>3. CASE PushOk
    BY <2>3 DEF PushOk
  <2>4. CASE PushFails
    <3>1. CASE pc = "push"
      BY <2>4, <3>1 DEF PushFails
    <3>2. CASE pc = "push again"
      BY <2>4, <3>2 DEF PushFails
    <3> QED  BY <2>4, <3>1, <3>2 DEF PushFails
  <2>5. CASE WakeConsumer
    BY <2>5 DEF WakeConsumer
  <2>6. CASE Sweep
    BY <2>6 DEF Sweep
  <2>7. CASE PutBack
    BY <2>7 DEF PutBack
  <2>8. CASE Register
    BY <2>8 DEF Register
  <2>9. CASE Displace
    BY <2>9 DEF Displace
  <2>10. ASSUME NEW f \in Futures, DropFuture(f) PROVE RegistrationInv'
    BY <2>10 DEF DropFuture
  <2>11. CASE Unslot
    BY <2>11 DEF Unslot
  <2>12. CASE KeepPeer
    BY <2>12 DEF KeepPeer
  <2>13. CASE SweptForDrop
    BY <2>13 DEF SweptForDrop
  <2>14. CASE DropProducer \/ FlushPopFuture
    BY <2>14 DEF DropProducer, FlushPopFuture
  <2> QED
    BY <1>4, <2>1, <2>2, <2>3, <2>4, <2>5, <2>6, <2>7, <2>8, <2>9, <2>10, <2>11, <2>12, <2>13,
       <2>14 DEF ProducerNext
<1> QED
  BY <1>1, <1>2, <1>3, <1>4, ConsumerLeavesFutures, ConsumerLeavesWakers
     DEF Next, Finished, vars, futures, wakers
-----------------------------------------------------------------------------
(* No push future is left asleep.                                          *)

LEMMA PushTakesRoom == ASSUME TypeOK, PushOk PROVE Room' => Room
<1>1. tail' = tail + 1 /\ head' = head /\ tail \in Nat /\ head \in Nat
  BY DEF PushOk, TypeOK
<1> QED  BY <1>1, CapacityAssumption DEF Room, HasRoom

(* A step of the producer: the head stays, and the tail only grows.        *)
LEMMA ProducerWake ==
  ASSUME TypeOK, PollInv, RegistrationInv, WakeInv, ProducerNext
  PROVE  WakeInv'
<1>0. /\ life \in [Futures -> {"new", "pending", "ready", "gone"}] /\ None \notin Futures
      /\ slot \in Futures \cup {None} /\ at \in Futures \cup {None}
      /\ hand \subseteq Futures /\ overflow \subseteq Futures
  BY AsyncSpscAssumption DEF TypeOK
<1> USE <1>0 DEF WakeInv, NoSleepBesideRoom, Waiting, Registered, Reached, Goto, Yield, PollInv,
                 PollSteps, DropSteps, ring, closing, futures, wakers, consumer
<1>1. ASSUME NEW f \in Futures, Poll(f) PROVE WakeInv'
  BY <1>1 DEF Poll, Room, HasRoom
<1>2. CASE CheckOpen
  <2>1. Room' <=> Room
    BY <1>2 DEF CheckOpen, Room, HasRoom
  <2>2. CASE consumerClosed
    BY <1>2, <2>1, <2>2 DEF CheckOpen
  <2>3. CASE ~consumerClosed
    <3>1. /\ ~consumerClosed' /\ pc' \in {"push", "push again"}
          /\ pc' = "push again" => pc = "still open?"
          /\ UNCHANGED <<at, hand, life, armed, woken, slot, overflow, cpc, chain, missed>>
      BY <1>2, <2>3 DEF CheckOpen
    <3> QED  BY <2>1, <2>3, <3>1
  <2> QED  BY <2>2, <2>3
<1>3. CASE PushOk
  <2>1. /\ pc' = "wake" /\ pc \in {"push", "push again"}
        /\ UNCHANGED <<at, hand, life, armed, woken, slot, overflow, cpc, chain, missed, consumerClosed>>
    BY <1>3 DEF PushOk
  <2>2. Room' => Room
    BY <1>3, PushTakesRoom
  <2> QED  BY <2>1, <2>2
<1>4. CASE PushFails
  <2>1. ~Room /\ ~Room'
    <3>1. ~Room
      BY <1>4, RenewedType DEF PushFails
    <3> QED  BY <1>4, <3>1 DEF PushFails, Room, HasRoom
  <2>2. CASE pc = "push"
    BY <1>4, <2>1, <2>2 DEF PushFails
  <2>3. CASE pc = "push again"
    <3>1. /\ pc' = "idle" /\ at' = None /\ life' = [life EXCEPT ![at] = "pending"]
          /\ UNCHANGED <<hand, armed, woken, slot, overflow, flagged, cpc, chain, missed, consumerClosed>>
      BY <1>4, <2>3 DEF PushFails
    <3>2. at \in woken \/ slot = at
      BY <2>3
    <3>3. consumerClosed => at \in woken \/ cpc = "flush"
      BY <2>3
    <3> QED  BY <2>1, <3>1, <3>2, <3>3
  <2> QED  BY <1>4, <2>2, <2>3 DEF PushFails
<1>5. CASE WakeConsumer
  BY <1>5 DEF WakeConsumer, Room, HasRoom
<1>6. CASE Sweep
  BY <1>6 DEF Sweep, Room, HasRoom, RegistrationInv
<1>7. CASE PutBack
  BY <1>7 DEF PutBack, Room, HasRoom
<1>8. CASE Register
  BY <1>8 DEF Register, Room, HasRoom, RegistrationInv
<1>9. CASE Displace
  BY <1>9 DEF Displace, Room, HasRoom
<1>10. ASSUME NEW f \in Futures, DropFuture(f) PROVE WakeInv'
  BY <1>10 DEF DropFuture, Room, HasRoom
<1>11. CASE Unslot
  BY <1>11 DEF Unslot, Room, HasRoom, RegistrationInv
<1>12. CASE KeepPeer
  BY <1>12 DEF KeepPeer, Room, HasRoom
<1>13. CASE SweptForDrop
  BY <1>13 DEF SweptForDrop, Room, HasRoom
<1>14. CASE DropProducer
  BY <1>14 DEF DropProducer, Room, HasRoom
<1>15. CASE FlushPopFuture
  BY <1>15 DEF FlushPopFuture, Room, HasRoom
<1> QED
  BY <1>1, <1>2, <1>3, <1>4, <1>5, <1>6, <1>7, <1>8, <1>9, <1>10, <1>11, <1>12, <1>13, <1>14,
     <1>15
     DEF ProducerNext

(* A step of the consumer: room comes with a wake on its way.              *)
LEMMA ConsumerWake ==
  ASSUME TypeOK, PollInv, RegistrationInv, WakeInv, ConsumerNext
  PROVE  WakeInv'
<1>0. /\ life \in [Futures -> {"new", "pending", "ready", "gone"}] /\ None \notin Futures
      /\ slot \in Futures \cup {None} /\ at \in Futures \cup {None}
      /\ hand \subseteq Futures /\ overflow \subseteq Futures /\ chain \subseteq Futures
  BY AsyncSpscAssumption DEF TypeOK
<1> USE <1>0 DEF WakeInv, NoSleepBesideRoom, Waiting, Registered, Reached, CGoto, CReturn,
                 ring, closing, futures, wakers, producer
<1>1. ASSUME NEW m \in {"direct", "poll", "drop"}, Begin(m) PROVE WakeInv'
  BY <1>1 DEF Begin, Room, HasRoom
<1>2. CASE Take
  BY <1>2 DEF Take, Room, HasRoom
<1>3. CASE Publish
  <2>1. /\ cpc = "publish" /\ cpc' = "wake"
        /\ UNCHANGED <<pc, at, hand, life, armed, woken, slot, overflow, chain, missed, consumerClosed>>
    BY <1>3 DEF Publish
  <2> QED  BY <2>1
<1>4. CASE FindEmpty
  BY <1>4 DEF FindEmpty, Room, HasRoom
<1>5. CASE CheckClosed
  BY <1>5 DEF CheckClosed, Room, HasRoom
<1>6. CASE ArmPop
  BY <1>6 DEF ArmPop, Room, HasRoom
<1>13. CASE Resolve
  BY <1>13 DEF Resolve, Withdraw, Room, HasRoom
<1>14. CASE CancelPop
  BY <1>14 DEF CancelPop, Withdraw, Room, HasRoom
<1>7. CASE NobodyEver
  BY <1>7 DEF NobodyEver, AfterWake, PollInv
<1>8. CASE WakeSlot
  BY <1>8 DEF WakeSlot, Awake, Room, HasRoom, PollInv, PollSteps
<1>9. CASE DetachOverflow
  BY <1>9 DEF DetachOverflow, Room, HasRoom
<1>10. CASE WakeChain
  BY <1>10 DEF WakeChain, Awake, Room, HasRoom
<1>11. CASE ChainWoken
  BY <1>11 DEF ChainWoken, AfterWake, Room, HasRoom
<1>12. CASE CloseConsumer
  BY <1>12 DEF CloseConsumer, Room, HasRoom
<1> QED
  BY <1>1, <1>2, <1>3, <1>4, <1>5, <1>6, <1>7, <1>8, <1>9, <1>10, <1>11, <1>12,
     <1>13, <1>14 DEF ConsumerNext

LEMMA WakeStep ==
  ASSUME TypeOK, PollInv, RegistrationInv, WakeInv, [Next]_vars
  PROVE  WakeInv'
<1>1. CASE UNCHANGED <<ring, consumerClosed, futures, wakers, producer, consumer, missed>>
  BY <1>1 DEF WakeInv, NoSleepBesideRoom, Waiting, Registered, Reached, Room, HasRoom, ring,
              futures, wakers, producer, consumer
<1>2. CASE SignalClose \/ SignalFlush
  BY <1>1, <1>2 DEF SignalClose, SignalFlush
<1>3. CASE UNCHANGED vars
  BY <1>1, <1>3 DEF vars, closing
<1> QED  BY <1>2, <1>3, ProducerWake, ConsumerWake DEF Next, Finished
-----------------------------------------------------------------------------
(* No pop future is left asleep.                                           *)

LEMMA PopStep ==
  ASSUME TypeOK, RingInv, PopInv, [Next]_vars
  PROVE  PopInv'
<1> USE DEF PopInv, NoSleepBesideValue, ring, closing, popFuture, consumer
<1>1. CASE ProducerNext
  <2> USE DEF Goto, Yield
  <2>1. CASE PushOk
    BY <1>1, <2>1 DEF PushOk
  <2>2. CASE WakeConsumer
    BY <2>2 DEF WakeConsumer, WakePopFuture
  <2>3. CASE DropProducer
    BY <2>3 DEF DropProducer
  <2>4. CASE FlushPopFuture
    BY <2>4 DEF FlushPopFuture, WakePopFuture
  <2>5. CASE /\ UNCHANGED <<head, tail, producerClosed, signal, popFuture, cpc, mode>>
             /\ pc \notin {"wake", "flush"}
    BY <2>5
  <2> QED
    BY <1>1, <2>1, <2>2, <2>3, <2>4, <2>5
       DEF ProducerNext, Poll, DropFuture, CheckOpen, PushFails, Sweep, PutBack, Register,
           Displace, Unslot, KeepPeer, SweptForDrop
<1>2. CASE ConsumerNext
  <2> USE DEF CGoto, CReturn, producer
  <2>1. ASSUME NEW m \in {"direct", "poll", "drop"}, Begin(m) PROVE PopInv'
    BY <2>1 DEF Begin
  <2>2. CASE Take
    BY <2>2 DEF Take
  <2>3. CASE Publish
    BY <2>3 DEF Publish
  <2>4. CASE FindEmpty
    <3>1. read = tail /\ read = head
      BY <2>4 DEF FindEmpty, RingInv, CTail, TypeOK
    <3> QED  BY <2>4, <3>1 DEF FindEmpty
  <2>5. CASE CheckClosed
    BY <2>5 DEF CheckClosed
  <2>6. CASE ArmPop
    BY <2>6 DEF ArmPop
  <2>7. CASE Resolve \/ CancelPop
    BY <2>7 DEF Resolve, CancelPop, Withdraw
  <2>8. CASE NobodyEver
    BY <2>8 DEF NobodyEver, AfterWake
  <2>9. CASE ChainWoken
    BY <2>9 DEF ChainWoken, AfterWake
  <2>10. CASE WakeSlot
    BY <2>10 DEF WakeSlot
  <2>13. CASE DetachOverflow
    BY <2>13 DEF DetachOverflow
  <2>11. CASE WakeChain
    BY <2>11 DEF WakeChain
  <2>12. CASE CloseConsumer
    BY <2>12 DEF CloseConsumer
  <2> QED
    BY <1>2, <2>1, <2>2, <2>3, <2>4, <2>5, <2>6, <2>7, <2>8, <2>9, <2>10, <2>11, <2>12, <2>13
       DEF ConsumerNext
<1>3. CASE SignalClose
  BY <1>3 DEF SignalClose, producer
<1>4. CASE SignalFlush
  BY <1>4 DEF SignalFlush, WakePopFuture, producer
<1>5. CASE UNCHANGED vars
  BY <1>5 DEF vars, producer
<1> QED  BY <1>1, <1>2, <1>3, <1>4, <1>5 DEF Next, Finished
-----------------------------------------------------------------------------

LEMMA Invariant == Spec => []IInv
<1>1. Init => IInv
  BY InitIInv
<1>2. IInv /\ [Next]_vars => IInv'
  BY TypeStep, RingStep, PollStep, RegistrationStep, WakeStep, PopStep DEF IInv
<1> QED  BY <1>1, <1>2, PTL DEF Spec

(* The cursors stay in order and at most a capacity apart, also as both    *)
(* sides see them (spsc/producer.rs, spsc/consumer.rs).                    *)
THEOREM TypeCorrect == Spec => []TypeOK
<1>1. IInv => TypeOK
  BY DEF IInv
<1> QED  BY <1>1, Invariant, PTL

(* No value is overwritten unread or read twice, and the ring's drop frees *)
(* exactly the values left, whatever call a panic cut short               *)
(* (HeadPublisher, RingBuffer::drop).                                      *)
THEOREM EveryValueIsKept == Spec => []NothingUnreadIsLost
<1>1. IInv => NothingUnreadIsLost
  BY RingHolds DEF IInv
<1> QED  BY <1>1, Invariant, PTL

(* A registration lives in one place, and none outlives its future         *)
(* (WakerSet::register_as, withdraw).                                      *)
THEOREM NoRegistrationOutlivesItsFuture == Spec => []RegistrationsAreOwned
<1>1. IInv => RegistrationsAreOwned
  BY DEF IInv, RegistrationInv
<1> QED  BY <1>1, Invariant, PTL

(* A pending push_async future sleeps beside room, or beside a consumer    *)
(* that is gone, only until the wake on its way arrives.                   *)
THEOREM PushFuturesAreWoken == Spec => []NoSleepBesideRoom
<1>1. IInv => NoSleepBesideRoom
  BY DEF IInv, WakeInv
<1> QED  BY <1>1, Invariant, PTL

(* A pending pop_async future sleeps beside a value, or beside a producer  *)
(* that is gone, only until the wake on its way arrives.                   *)
THEOREM PopFuturesAreWoken == Spec => []NoSleepBesideValue
<1>1. IInv => NoSleepBesideValue
  BY DEF IInv, PopInv
<1> QED  BY <1>1, Invariant, PTL
=============================================================================
