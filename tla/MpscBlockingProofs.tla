-------------------------- MODULE MpscBlockingProofs -------------------------
(***************************************************************************)
(* The blocking calls of mpsc keep both sides reachable, for any number of *)
(* producers with a park slot, calls and slots.                            *)
(***************************************************************************)
EXTENDS MpscBlocking, SequenceTheorems, WellFoundedInduction, TLAPS

CellSet == {Q!Void} \cup {Q!Open(p) : p \in Producers} \cup {Q!Full(v) : v \in Values}

QueueOK ==
  /\ cells \in Seq(CellSet) /\ held \in Nat /\ serving \in BOOLEAN
  /\ taken \in Seq(Values) /\ discarded \subseteq Values

(* What the counters of a call in progress say.                            *)
CallInv ==
  \A p \in Producers :
    /\ calls[p] <= Calls[p]
    /\ pc[p] \notin {"idle", "wake", "close"} => calls[p] >= 1 /\ p \in live
    /\ pc[p] = "close" => live = {}
    /\ pc[p] = "quit" => consumerClosed
    /\ seen[p] <= RingTail

(* A batch is open exactly while positions are held, and producers whose   *)
(* bit is cleared are in the consumer's hands between two accesses only.   *)
ConsumerInv ==
  /\ held + Len(cells) <= Capacity
  /\ cpc = "batch" <=> held > 0
  /\ cpc \notin {"claimP", "flushing"} => targets = {}
  /\ cpc = "claimP" => owed > 0 /\ \E p \in Producers : targets = {p}

Waking(p) == pc[p] \in {"wake", "armedWake"}

(* From its flag on, until it has disarmed.                                *)
Committed ==
  \/ cpc \in {"recheck", "reclosed?", "park"}
  \/ cpc \in {"batch", "wakeP", "claimP"} /\ cret = "recheck"

(* A committed consumer can still be reached, and what it did not see when *)
(* it looked again has a producer behind it.                               *)
ReachInv ==
  /\ Committed => flag \/ ctoken
  /\ cpc \in {"reclosed?", "park"} /\ FrontSettled =>
       ctoken \/ \E p \in Producers : Waking(p)
  /\ cpc = "park" /\ closed => ctoken \/ \E p \in Producers : Waking(p)

(* An armed producer without a token is where a wake finds it.             *)
Armed(p) == pc[p] \in {"reopen?", "reload", "redecide", "park"}

ArmedInv ==
  \A p \in Producers :
    Armed(p) /\ p \notin tokens => p \in handles /\ p \in bits \cup targets

(* p sleeps, or has looked at a tail too old to see the room there is.     *)
Stuck(p) ==
  /\ p \notin tokens
  /\ pc[p] = "park" \/ (pc[p] = "redecide" /\ seen[p] # RingTail)

(* p will look at the ring again before it sleeps.                         *)
Coming(p) ==
  \/ pc[p] \in {"open?", "load", "decide", "arm", "reopen?", "reload", "unpark"}
  \/ pc[p] = "redecide" /\ (p \in tokens \/ seen[p] = RingTail)
  \/ pc[p] = "park" /\ p \in tokens

SleepInv ==
  (\E p \in Producers : Stuck(p)) /\ RingTail = head /\ ~stolen /\ ~consumerClosed =>
    owed > 0 \/ \E q \in Producers : Coming(q)

IInv == CallInv /\ ConsumerInv /\ ReachInv /\ ArmedInv /\ SleepInv

-----------------------------------------------------------------------------
(* The queue of claims.                                                    *)

LEMMA CellState ==
  ASSUME NEW c \in CellSet
  PROVE  /\ c.state = "open" \/ c.state = "full" \/ c.state = "void"
         /\ c.state = "full" => c.value \in Values
BY DEF CellSet, Q!Void, Q!Open, Q!Full

LEMMA ClaimCells ==
  ASSUME QueueOK, NEW p \in Producers, Q!Claim(p)
  PROVE  /\ QueueOK' /\ held' = held
         /\ Len(cells') = Len(cells) + 1 /\ held + Len(cells) < Capacity
         /\ FrontSettled' => FrontSettled
<1>1. /\ cells' = Append(cells, Q!Open(p)) /\ Len(cells) + held < Capacity
      /\ UNCHANGED <<held, taken, discarded, serving>>
  BY DEF Q!Claim
<1>2. Q!Open(p) \in CellSet
  BY DEF CellSet
<1>3. /\ cells' \in Seq(CellSet) /\ Len(cells') = Len(cells) + 1 /\ Len(cells) \in Nat
      /\ cells = <<>> => cells'[1] = Q!Open(p)
      /\ cells # <<>> => cells'[1] = cells[1]
  <2>1. Len(cells) \in Nat
    BY LenProperties DEF QueueOK
  <2>2. cells # <<>> => 1 \in 1..Len(cells)
    BY <2>1, EmptySeq DEF QueueOK
  <2> QED  BY <1>1, <1>2, <2>1, <2>2, AppendProperties DEF QueueOK
<1>4. FrontSettled' => FrontSettled
  <2>1. Head(cells') = cells'[1] /\ Head(cells) = cells[1]
    BY DEF Head
  <2>2. Q!Open(p).state = "open"
    BY DEF Q!Open
  <2> QED  BY <1>3, <2>1, <2>2 DEF FrontSettled
<1> QED  BY <1>1, <1>3, <1>4 DEF QueueOK

LEMMA SettleCells ==
  ASSUME QueueOK, NEW p \in Producers, NEW c \in CellSet, Q!Settle(p, c),
         UNCHANGED <<held, taken, discarded, serving>>
  PROVE  QueueOK' /\ held' = held /\ Len(cells') = Len(cells)
<1>1. PICK i \in DOMAIN cells : cells' = [cells EXCEPT ![i] = c]
  BY DEF Q!Settle
<1>2. i \in 1..Len(cells)
  BY LenProperties DEF QueueOK
<1> QED  BY <1>1, <1>2, ExceptSeq DEF QueueOK

LEMMA PassCells ==
  ASSUME QueueOK, Q!Take \/ Q!Skip
  PROVE  QueueOK' /\ held' = held + 1 /\ Len(cells') = Len(cells) - 1
<1>1. cells # <<>> /\ cells' = Tail(cells) /\ held' = held + 1 /\ serving' = serving
  BY DEF Q!Take, Q!Skip
<1>2. Head(cells) \in CellSet /\ cells' \in Seq(CellSet) /\ Len(cells') = Len(cells) - 1
  BY <1>1, HeadTailProperties DEF QueueOK
<1>3. taken' \in Seq(Values) /\ discarded' \subseteq Values
  <2>1. CASE Q!Skip
    BY <2>1 DEF Q!Skip, QueueOK
  <2>2. CASE Q!Take
    <3> DEFINE v == Head(cells).value
    <3>1. v \in Values
      BY <1>2, <2>2, CellState DEF Q!Take
    <3>2. Append(taken, v) \in Seq(Values)
      BY <3>1, AppendProperties DEF QueueOK
    <3> QED  BY <2>2, <3>1, <3>2 DEF Q!Take, QueueOK
  <2> QED  BY <2>1, <2>2
<1> QED  BY <1>1, <1>2, <1>3 DEF QueueOK

(* The slot that FirstFrom names is one of those it is given.              *)
Below == {ss \in Nat \X Nat : ss[1] < ss[2]}

LEMMA BelowIsWellFounded == IsWellFoundedOn(Below, Nat)
BY NatLessThanWellFounded DEF OpToRel, Below

LEMMA FirstFromIn ==
  ASSUME NEW set \in SUBSET Producers, set # {}, NEW c \in Nat
  PROVE  FirstFrom(set, c) \in set
<1> DEFINE Turn(q) == (q - 1 - c) % 64
           Turns == {Turn(q) : q \in set}
<1>1. \A q \in set : Turn(q) \in Nat
  BY MpscBlockingAssumption DEF Producers
<1> HIDE DEF Turn
<1>2. Turns \subseteq Nat /\ Turns # {}
  BY <1>1
<1>3. PICK m \in Turns : \A t \in Turns : <<t, m>> \notin Below
  BY <1>2, BelowIsWellFounded, WFMin
<1>4. \A t \in Turns : m <= t
  <2> SUFFICES ASSUME NEW t \in Turns, ~(m <= t) PROVE FALSE
    OBVIOUS
  <2>1. t \in Nat /\ m \in Nat /\ t < m
    BY <1>2
  <2>2. <<t, m>> \in Nat \X Nat /\ <<t, m>>[1] = t /\ <<t, m>>[2] = m
    BY <2>1
  <2>3. <<t, m>> \in Below
    BY <2>1, <2>2 DEF Below
  <2> QED  BY <1>3, <2>3
<1>5. PICK p \in set : m = Turn(p)
  OBVIOUS
<1>6. \A q \in set : Turn(p) <= Turn(q)
  BY <1>4, <1>5
<1> QED  BY <1>6 DEF FirstFrom, Turn

LEMMA QueueTyped == ASSUME TypeOK PROVE QueueOK
BY CapacityAssumption DEF TypeOK, QueueOK, CellSet

LEMMA InitInv == ASSUME Init PROVE TypeOK /\ IInv
<1> USE MpscBlockingAssumption, CapacityAssumption DEF Init, Q!Init, RingTail
<1>1. TypeOK
  <2>1. <<>> \in Seq(CellSet) /\ <<>> \in Seq(Values)
    BY EmptySeq
  <2>2. cells \in Seq(CellSet) /\ taken \in Seq(Values) /\ held \in 0..Capacity
    BY <2>1
  <2>3. pc \in [Producers -> ProducerSteps] /\ cpc \in ConsumerSteps
    BY DEF ProducerSteps, ConsumerSteps
  <2> QED  BY <2>2, <2>3 DEF TypeOK, CellSet
<1>2. Len(cells) = 0
  BY EmptySeq
<1>3. IInv
  BY <1>2 DEF IInv, CallInv, ConsumerInv, ReachInv, Committed, ArmedInv, Armed,
              SleepInv, Stuck
<1> QED  BY <1>1, <1>3

-----------------------------------------------------------------------------
(* The producers' steps.                                                   *)

LEMMA CallStep ==
  ASSUME TypeOK, IInv, NEW p \in Producers, Call(p) PROVE TypeOK' /\ IInv'
<1> USE DEF IInv, Call, Goto, RingTail, ring, wakeSet, consumer, closing, soleParker
<1>1. TypeOK'
  BY DEF TypeOK, ProducerSteps
<1>2. CallInv'
  <2> SUFFICES ASSUME NEW q \in Producers PROVE CallInv!(q)'
    BY DEF CallInv
  <2>1. CallInv!(q)
    BY DEF CallInv
  <2>2. CASE q = p
    <3>1. calls[p] \in Nat /\ Calls[p] \in Nat /\ calls'[p] = calls[p] + 1
      BY MpscBlockingAssumption DEF TypeOK
    <3>2. pc'[p] = "open?" /\ seen' = seen /\ live' = live /\ RingTail' = RingTail
      BY DEF TypeOK
    <3> QED  BY <2>1, <2>2, <3>1, <3>2
  <2>3. CASE q # p
    BY <2>1, <2>3 DEF TypeOK
  <2> QED  BY <2>2, <2>3
<1>3. ConsumerInv'
  BY DEF ConsumerInv
<1>4. ReachInv'
  BY DEF ReachInv, Committed, Waking, FrontSettled
<1>5. ArmedInv'
  BY DEF ArmedInv, Armed
<1>6. SleepInv'
  BY DEF SleepInv, Stuck, Coming
<1> QED  BY <1>1, <1>2, <1>3, <1>4, <1>5, <1>6

LEMMA CheckOpenStep ==
  ASSUME TypeOK, IInv, NEW p \in Producers, CheckOpen(p) PROVE TypeOK' /\ IInv'
<1> USE DEF IInv, CheckOpen, Goto, RingTail, ring, wakeSet, consumer, closing, soleParker
<1>1. TypeOK'
  BY DEF TypeOK, ProducerSteps
<1>2. CallInv'
  BY DEF CallInv
<1>3. ConsumerInv'
  BY DEF ConsumerInv
<1>4. ReachInv'
  BY DEF ReachInv, Committed, Waking, FrontSettled
<1>5. ArmedInv'
  BY DEF ArmedInv, Armed
<1>6. SleepInv'
  BY DEF SleepInv, Stuck, Coming
<1> QED  BY <1>1, <1>2, <1>3, <1>4, <1>5, <1>6

LEMMA LoadTailStep ==
  ASSUME TypeOK, IInv, NEW p \in Producers, LoadTail(p) PROVE TypeOK' /\ IInv'
<1> USE DEF IInv, LoadTail, Goto, RingTail, ring, wakeSet, consumer, closing, soleParker
<1>1. TypeOK'
  BY DEF TypeOK, ProducerSteps
<1>2. CallInv'
  BY DEF CallInv, TypeOK
<1>3. ConsumerInv'
  BY DEF ConsumerInv
<1>4. ReachInv'
  BY DEF ReachInv, Committed, Waking, FrontSettled
<1>5. ArmedInv'
  BY DEF ArmedInv, Armed
<1>6. SleepInv'
  BY DEF SleepInv, Stuck, Coming, TypeOK
<1> QED  BY <1>1, <1>2, <1>3, <1>4, <1>5, <1>6

LEMMA ClaimFailsStep ==
  ASSUME TypeOK, IInv, NEW p \in Producers, ClaimFails(p) PROVE TypeOK' /\ IInv'
<1> USE DEF IInv, ClaimFails, Goto, Forget, RingTail, ring, wakeSet, consumer, closing, soleParker
<1>1. TypeOK'
  BY DEF TypeOK, ProducerSteps
<1>2. CallInv'
  BY DEF CallInv, TypeOK
<1>3. ConsumerInv'
  BY DEF ConsumerInv
<1>4. ReachInv'
  BY DEF ReachInv, Committed, Waking, FrontSettled
<1>5. ArmedInv'
  BY DEF ArmedInv, Armed
<1>6. SleepInv'
  <2>1. RingTail = head /\ seen[p] = RingTail => ~NoRoom(seen[p], head)
    BY CapacityAssumption DEF NoRoom, TypeOK
  <2> QED  BY <2>1 DEF SleepInv, Stuck, Coming, TypeOK
<1> QED  BY <1>1, <1>2, <1>3, <1>4, <1>5, <1>6

LEMMA ClaimOkStep ==
  ASSUME TypeOK, IInv, NEW p \in Producers, ClaimOk(p) PROVE TypeOK' /\ IInv'
<1> USE DEF IInv, Goto, Forget, wakeSet, consumer, closing, soleParker
<1>0. /\ QueueOK' /\ held' = held
      /\ FrontSettled' => FrontSettled
      /\ Len(cells') = Len(cells) + 1 /\ held + Len(cells) < Capacity /\ Len(cells) \in Nat
  BY QueueTyped, ClaimCells, LenProperties DEF ClaimOk, QueueOK
<1>1. TypeOK'
  BY <1>0 DEF ClaimOk, TypeOK, QueueOK, CellSet, ProducerSteps
<1>2. CallInv'
  BY <1>0 DEF ClaimOk, CallInv, TypeOK, RingTail
<1>3. ConsumerInv'
  BY <1>0, CapacityAssumption DEF ClaimOk, ConsumerInv, TypeOK
<1>4. ReachInv'
  BY <1>0 DEF ClaimOk, ReachInv, Committed, Waking
<1>5. ArmedInv'
  BY DEF ClaimOk, ArmedInv, Armed
<1>6. SleepInv'
  BY <1>0 DEF ClaimOk, SleepInv, RingTail, TypeOK
<1> QED  BY <1>1, <1>2, <1>3, <1>4, <1>5, <1>6

LEMMA ClaimLostStep ==
  ASSUME TypeOK, IInv, NEW p \in Producers, ClaimLost(p) PROVE TypeOK' /\ IInv'
<1> USE DEF IInv, ClaimLost, RingTail, ring, wakeSet, consumer, closing, soleParker
<1>1. TypeOK'
  BY DEF TypeOK
<1>2. CallInv'
  BY DEF CallInv, TypeOK
<1>3. ConsumerInv'
  BY DEF ConsumerInv
<1>4. ReachInv'
  BY DEF ReachInv, Committed, Waking, FrontSettled
<1>5. ArmedInv'
  BY DEF ArmedInv, Armed
<1>6. SleepInv'
  BY DEF SleepInv, Stuck, Coming
<1> QED  BY <1>1, <1>2, <1>3, <1>4, <1>5, <1>6

LEMMA ArmStep ==
  ASSUME TypeOK, IInv, NEW p \in Producers, Arm(p) PROVE TypeOK' /\ IInv'
<1> USE DEF IInv, Arm, Goto, RingTail, ring, consumer, closing, soleParker
<1>1. TypeOK'
  BY DEF TypeOK, ProducerSteps
<1>2. CallInv'
  BY DEF CallInv
<1>3. ConsumerInv'
  BY DEF ConsumerInv
<1>4. ReachInv'
  BY DEF ReachInv, Committed, Waking, FrontSettled
<1>5. ArmedInv'
  BY DEF ArmedInv, Armed
<1>6. SleepInv'
  BY DEF SleepInv, Stuck, Coming
<1> QED  BY <1>1, <1>2, <1>3, <1>4, <1>5, <1>6

LEMMA RecheckOpenStep ==
  ASSUME TypeOK, IInv, NEW p \in Producers, RecheckOpen(p) PROVE TypeOK' /\ IInv'
<1> USE DEF IInv, RecheckOpen, Goto, RingTail, ring, wakeSet, consumer, closing, soleParker
<1>1. TypeOK'
  BY DEF TypeOK, ProducerSteps
<1>2. CallInv'
  BY DEF CallInv
<1>3. ConsumerInv'
  BY DEF ConsumerInv
<1>4. ReachInv'
  BY DEF ReachInv, Committed, Waking, FrontSettled
<1>5. ArmedInv'
  BY DEF ArmedInv, Armed
<1>6. SleepInv'
  BY DEF SleepInv, Stuck, Coming
<1> QED  BY <1>1, <1>2, <1>3, <1>4, <1>5, <1>6

LEMMA ParkStep ==
  ASSUME TypeOK, IInv, NEW p \in Producers, Park(p) PROVE TypeOK' /\ IInv'
<1> USE DEF IInv, Park, Goto, RingTail, ring, consumer, closing, soleParker
<1>1. TypeOK'
  BY DEF TypeOK, ProducerSteps
<1>2. CallInv'
  BY DEF CallInv
<1>3. ConsumerInv'
  BY DEF ConsumerInv
<1>4. ReachInv'
  BY DEF ReachInv, Committed, Waking, FrontSettled
<1>5. ArmedInv'
  BY DEF ArmedInv, Armed, TypeOK
<1>6. SleepInv'
  BY DEF SleepInv, Stuck, Coming, TypeOK
<1> QED  BY <1>1, <1>2, <1>3, <1>4, <1>5, <1>6

LEMMA DisarmStep ==
  ASSUME TypeOK, IInv, NEW p \in Producers, Disarm(p) PROVE TypeOK' /\ IInv'
<1> USE DEF IInv, Disarm, Goto, RingTail, ring, consumer, closing, soleParker
<1>1. TypeOK'
  BY DEF TypeOK, ProducerSteps
<1>2. CallInv'
  BY DEF CallInv
<1>3. ConsumerInv'
  BY DEF ConsumerInv
<1>4. ReachInv'
  BY DEF ReachInv, Committed, Waking, FrontSettled
<1>5. ArmedInv'
  BY DEF ArmedInv, Armed
<1>6. SleepInv'
  BY DEF SleepInv, Stuck, Coming
<1> QED  BY <1>1, <1>2, <1>3, <1>4, <1>5, <1>6

LEMMA FillStep ==
  ASSUME TypeOK, IInv, NEW p \in Producers, Fill(p) PROVE TypeOK' /\ IInv'
<1> USE DEF IInv, Goto, wakeSet, consumer, closing, soleParker
<1>0. QueueOK' /\ held' = held /\ Len(cells') = Len(cells)
  <2>1. <<p, calls[p]>> \in Values
    <3>1. calls[p] \in Nat /\ Calls[p] \in Nat
      BY MpscBlockingAssumption DEF TypeOK
    <3>2. calls[p] <= Calls[p] /\ calls[p] >= 1
      BY DEF Fill, CallInv
    <3> QED  BY <3>1, <3>2 DEF Values
  <2>2. Q!Full(<<p, calls[p]>>) \in CellSet
    BY <2>1 DEF CellSet
  <2> QED  BY <2>2, QueueTyped, SettleCells DEF Fill, Q!Fill
<1>1. TypeOK'
  BY <1>0 DEF Fill, TypeOK, QueueOK, CellSet, ProducerSteps
<1>2. CallInv'
  BY <1>0 DEF Fill, CallInv, RingTail
<1>3. ConsumerInv'
  BY <1>0 DEF Fill, ConsumerInv
<1>4. ReachInv'
  BY DEF Fill, ReachInv, Committed, Waking, TypeOK
<1>5. ArmedInv'
  BY DEF Fill, ArmedInv, Armed
<1>6. SleepInv'
  BY <1>0 DEF Fill, SleepInv, Stuck, Coming, RingTail
<1> QED  BY <1>1, <1>2, <1>3, <1>4, <1>5, <1>6

LEMMA AbandonStep ==
  ASSUME TypeOK, IInv, NEW p \in Producers, Abandon(p) PROVE TypeOK' /\ IInv'
<1> USE DEF IInv, Goto, wakeSet, consumer, closing, soleParker
<1>0. QueueOK' /\ held' = held /\ Len(cells') = Len(cells)
  <2>2. Q!Void \in CellSet
    BY DEF CellSet
  <2> QED  BY <2>2, QueueTyped, SettleCells DEF Abandon, Q!Abandon
<1>1. TypeOK'
  BY <1>0 DEF Abandon, TypeOK, QueueOK, CellSet, ProducerSteps
<1>2. CallInv'
  BY <1>0 DEF Abandon, CallInv, RingTail
<1>3. ConsumerInv'
  BY <1>0 DEF Abandon, ConsumerInv
<1>4. ReachInv'
  BY DEF Abandon, ReachInv, Committed, Waking, TypeOK
<1>5. ArmedInv'
  BY DEF Abandon, ArmedInv, Armed
<1>6. SleepInv'
  BY <1>0 DEF Abandon, SleepInv, Stuck, Coming, RingTail
<1> QED  BY <1>1, <1>2, <1>3, <1>4, <1>5, <1>6

LEMMA WakeConsumerStep ==
  ASSUME TypeOK, IInv, NEW p \in Producers, WakeConsumer(p) PROVE TypeOK' /\ IInv'
<1> USE DEF IInv, WakeConsumer, Goto, RingTail, ring, wakeSet, consumer, closing
<1>1. TypeOK'
  BY DEF TypeOK, ProducerSteps
<1>2. CallInv'
  BY DEF CallInv
<1>3. ConsumerInv'
  BY DEF ConsumerInv
<1>4. ReachInv'
  BY DEF ReachInv, Committed
<1>5. ArmedInv'
  BY DEF ArmedInv, Armed
<1>6. SleepInv'
  BY DEF SleepInv, Stuck, Coming
<1> QED  BY <1>1, <1>2, <1>3, <1>4, <1>5, <1>6

LEMMA LeaveStep ==
  ASSUME TypeOK, IInv, NEW p \in Producers, Leave(p) PROVE TypeOK' /\ IInv'
<1> USE DEF IInv, Leave, Goto, RingTail, ring, wakeSet, consumer, closing, soleParker
<1>1. TypeOK'
  BY DEF TypeOK, ProducerSteps
<1>2. CallInv'
  BY DEF CallInv
<1>3. ConsumerInv'
  BY DEF ConsumerInv
<1>4. ReachInv'
  BY DEF ReachInv, Committed, Waking, FrontSettled
<1>5. ArmedInv'
  BY DEF ArmedInv, Armed
<1>6. SleepInv'
  BY DEF SleepInv, Stuck, Coming
<1> QED  BY <1>1, <1>2, <1>3, <1>4, <1>5, <1>6

LEMMA CloseStep ==
  ASSUME TypeOK, IInv, NEW p \in Producers, Close(p) PROVE TypeOK' /\ IInv'
<1> USE DEF IInv, Close, Goto, RingTail, ring, wakeSet, consumer, soleParker
<1>1. TypeOK'
  BY DEF TypeOK, ProducerSteps
<1>2. CallInv'
  BY DEF CallInv
<1>3. ConsumerInv'
  BY DEF ConsumerInv
<1>4. ReachInv'
  BY DEF ReachInv, Committed, Waking, TypeOK
<1>5. ArmedInv'
  BY DEF ArmedInv, Armed
<1>6. SleepInv'
  BY DEF SleepInv, Stuck, Coming
<1> QED  BY <1>1, <1>2, <1>3, <1>4, <1>5, <1>6

-----------------------------------------------------------------------------
(* The consumer's steps.                                                   *)

LEMMA TakeValueStep ==
  ASSUME TypeOK, IInv, TakeValue PROVE TypeOK' /\ IInv'
<1> USE DEF IInv, TakeValue, Attempts, OnValue, wakeSet, producers, closing, soleParker
<1>0. QueueOK' /\ held' = held + 1 /\ Len(cells') = Len(cells) - 1
  BY QueueTyped, PassCells
<1>1. held \in Nat /\ head \in Nat /\ Len(cells) \in Nat /\ Len(cells') \in Nat
  BY <1>0, QueueTyped, LenProperties DEF QueueOK, TypeOK
<1>2. RingTail' = RingTail /\ head' = head
  BY <1>0, <1>1 DEF RingTail
<1>3. ConsumerInv'
  BY <1>0, <1>1, CapacityAssumption DEF ConsumerInv
<1>4. TypeOK'
  <2>1. held' \in 0..Capacity
    BY <1>0, <1>1, <1>3, CapacityAssumption DEF ConsumerInv
  <2> QED  BY <1>0, <2>1 DEF TypeOK, QueueOK, CellSet, ConsumerSteps
<1>5. CallInv'
  BY <1>2 DEF CallInv
<1>6. ReachInv'
  BY DEF ReachInv, Committed
<1>7. ArmedInv'
  BY DEF ArmedInv, Armed
<1>8. SleepInv'
  BY <1>2 DEF SleepInv, Stuck, Coming
<1> QED  BY <1>3, <1>4, <1>5, <1>6, <1>7, <1>8

LEMMA SkipTombstoneStep ==
  ASSUME TypeOK, IInv, SkipTombstone PROVE TypeOK' /\ IInv'
<1> USE DEF IInv, SkipTombstone, Attempts, wakeSet, producers, closing, soleParker
<1>0. QueueOK' /\ held' = held + 1 /\ Len(cells') = Len(cells) - 1
  BY QueueTyped, PassCells
<1>1. held \in Nat /\ head \in Nat /\ Len(cells) \in Nat /\ Len(cells') \in Nat
  BY <1>0, QueueTyped, LenProperties DEF QueueOK, TypeOK
<1>2. RingTail' = RingTail /\ head' = head
  BY <1>0, <1>1 DEF RingTail
<1>3. ConsumerInv'
  BY <1>0, <1>1, CapacityAssumption DEF ConsumerInv
<1>4. TypeOK'
  <2>1. held' \in 0..Capacity
    BY <1>0, <1>1, <1>3, CapacityAssumption DEF ConsumerInv
  <2> QED  BY <1>0, <2>1 DEF TypeOK, QueueOK, CellSet, ConsumerSteps
<1>5. CallInv'
  BY <1>2 DEF CallInv
<1>6. ReachInv'
  BY DEF ReachInv, Committed
<1>7. ArmedInv'
  BY DEF ArmedInv, Armed
<1>8. SleepInv'
  BY <1>2 DEF SleepInv, Stuck, Coming
<1> QED  BY <1>3, <1>4, <1>5, <1>6, <1>7, <1>8

LEMMA FindNothingStep ==
  ASSUME TypeOK, IInv, FindNothing PROVE TypeOK' /\ IInv'
<1> USE DEF IInv, FindNothing, RingTail, ring, wakeSet, producers, closing, soleParker
<1>1. TypeOK'
  BY DEF TypeOK, ConsumerSteps, Attempts, OnEmpty
<1>2. CallInv'
  BY DEF CallInv
<1>3. ConsumerInv'
  BY DEF ConsumerInv, OnEmpty, Attempts
<1>4. ReachInv'
  BY DEF ReachInv, Committed, FrontSettled, OnEmpty, Attempts
<1>5. ArmedInv'
  BY DEF ArmedInv, Armed
<1>6. SleepInv'
  BY DEF SleepInv, Stuck, Coming
<1> QED  BY <1>1, <1>2, <1>3, <1>4, <1>5, <1>6

LEMMA DrainMoreStep ==
  ASSUME TypeOK, IInv, DrainMore PROVE TypeOK' /\ IInv'
<1> USE DEF IInv, DrainMore, consumer, wakeSet, producers, closing, soleParker
<1>0. QueueOK' /\ held' = held + 1 /\ Len(cells') = Len(cells) - 1
  BY QueueTyped, PassCells
<1>1. held \in Nat /\ head \in Nat /\ Len(cells) \in Nat /\ Len(cells') \in Nat
  BY <1>0, QueueTyped, LenProperties DEF QueueOK, TypeOK
<1>2. RingTail' = RingTail /\ head' = head
  BY <1>0, <1>1 DEF RingTail
<1>3. ConsumerInv'
  BY <1>0, <1>1, CapacityAssumption DEF ConsumerInv
<1>4. TypeOK'
  <2>1. held' \in 0..Capacity
    BY <1>0, <1>1, <1>3, CapacityAssumption DEF ConsumerInv
  <2> QED  BY <1>0, <2>1 DEF TypeOK, QueueOK, CellSet, ConsumerSteps
<1>5. CallInv'
  BY <1>2 DEF CallInv
<1>6. ReachInv'
  BY DEF ReachInv, Committed
<1>7. ArmedInv'
  BY DEF ArmedInv, Armed
<1>8. SleepInv'
  BY <1>2 DEF SleepInv, Stuck, Coming
<1> QED  BY <1>3, <1>4, <1>5, <1>6, <1>7, <1>8

LEMMA PublishHeadStep ==
  ASSUME TypeOK, IInv, PublishHead PROVE TypeOK' /\ IInv'
<1> USE DEF IInv, PublishHead, Q!HandBack, RingTail, wakeSet, producers, closing, soleParker
<1>0. Len(cells) \in Nat
  BY QueueTyped, LenProperties DEF QueueOK
<1>1. TypeOK'
  BY <1>0, CapacityAssumption DEF TypeOK, ConsumerSteps
<1>2. CallInv'
  BY <1>0 DEF CallInv
<1>3. ConsumerInv'
  BY <1>0, CapacityAssumption DEF ConsumerInv, TypeOK
<1>4. ReachInv'
  BY <1>0 DEF ReachInv, Committed
<1>5. ArmedInv'
  BY <1>0 DEF ArmedInv, Armed
<1>6. SleepInv'
  BY <1>0 DEF SleepInv, Stuck, Coming, ConsumerInv
<1> QED  BY <1>1, <1>2, <1>3, <1>4, <1>5, <1>6

LEMMA ClearBitStep ==
  ASSUME TypeOK, IInv, ClearBit PROVE TypeOK' /\ IInv'
<1> USE DEF IInv, RingTail, ring, producers, closing, soleParker
<1>0. PICK p \in bits : bits' = bits \ {p} /\ targets' = {p} /\ cursor' = p
  <2>1. FirstFrom(bits, cursor) \in bits
    BY FirstFromIn DEF ClearBit, TypeOK
  <2> QED  BY <2>1 DEF ClearBit
<1> USE <1>0
<1>1. TypeOK'
  <2>1. p \in Producers /\ p \in Nat
    BY MpscBlockingAssumption DEF TypeOK, Producers
  <2> QED  BY <2>1 DEF ClearBit, TypeOK, ConsumerSteps
<1>2. CallInv'
  BY DEF ClearBit, CallInv
<1>3. ConsumerInv'
  BY DEF ClearBit, ConsumerInv, TypeOK
<1>4. ReachInv'
  BY DEF ClearBit, ReachInv, Committed
<1>5. ArmedInv'
  BY DEF ClearBit, ArmedInv, Armed, ConsumerInv
<1>6. SleepInv'
  BY DEF ClearBit, SleepInv, Stuck, Coming
<1> QED  BY <1>1, <1>2, <1>3, <1>4, <1>5, <1>6

LEMMA ClaimHandleStep ==
  ASSUME TypeOK, IInv, ClaimHandle PROVE TypeOK' /\ IInv'
<1> USE DEF IInv, RingTail, ring, producers, closing, soleParker
<1>0. PICK p \in Producers :
        /\ targets = {p} /\ Unpark(p) /\ owed > 0
        /\ owed' = (IF p \in handles THEN owed - 1 ELSE owed)
        /\ stolen' = (stolen \/ (p \in handles /\ HasSlot(p)))
  BY DEF ClaimHandle, ConsumerInv
<1>1. TypeOK'
  BY <1>0 DEF ClaimHandle, Unpark, TypeOK, ConsumerSteps
<1>2. CallInv'
  BY DEF ClaimHandle, CallInv
<1>3. ConsumerInv'
  BY <1>0 DEF ClaimHandle, Unpark, ConsumerInv
<1>4. ReachInv'
  BY DEF ClaimHandle, ReachInv, Committed
<1>5. ArmedInv'
  BY <1>0 DEF ClaimHandle, Unpark, ArmedInv, Armed
<1>6. SleepInv'
  <2> SUFFICES ASSUME NEW q \in Producers, Stuck(q)', RingTail' = head', ~stolen', ~consumerClosed'
               PROVE  owed' > 0 \/ \E r \in Producers : Coming(r)'
    BY DEF SleepInv
  <2>1. Stuck(q) /\ RingTail = head /\ ~stolen /\ ~consumerClosed
    BY <1>0 DEF ClaimHandle, Unpark, Stuck
  <2>2. CASE p \notin handles
    BY <1>0, <2>2
  (* Somebody is in a call, so the ring is not being closed.               *)
  <2>3. CASE p \in handles
    <3>1. p \in tokens' /\ ~HasSlot(p)
      BY <1>0, <2>3 DEF Unpark
    <3>2. pc[p] # "quit"
      BY <2>1 DEF CallInv
    <3>3. pc[p] # "close"
      BY <2>1 DEF CallInv, Stuck
    <3>4. Coming(p)'
      BY <3>1, <3>2, <3>3 DEF ClaimHandle, Coming, HasSlot, TypeOK, ProducerSteps
    <3> QED  BY <3>4
  <2> QED  BY <2>2, <2>3
<1> QED  BY <1>1, <1>2, <1>3, <1>4, <1>5, <1>6

LEMMA WokenEnoughStep ==
  ASSUME TypeOK, IInv, WokenEnough PROVE TypeOK' /\ IInv'
<1> USE DEF IInv, WokenEnough, RingTail, ring, wakeSet, producers, closing, soleParker
<1>1. TypeOK'
  BY DEF TypeOK, ConsumerSteps
<1>2. CallInv'
  BY DEF CallInv
<1>3. ConsumerInv'
  BY DEF ConsumerInv, TypeOK
<1>4. ReachInv'
  BY DEF ReachInv, Committed, TypeOK
<1>5. ArmedInv'
  BY DEF ArmedInv, Armed
<1>6. SleepInv'
  BY DEF SleepInv, Stuck, Coming, ConsumerInv, ArmedInv, Armed
<1> QED  BY <1>1, <1>2, <1>3, <1>4, <1>5, <1>6

LEMMA CheckClosedStep ==
  ASSUME TypeOK, IInv, CheckClosed PROVE TypeOK' /\ IInv'
<1> USE DEF IInv, CheckClosed, RingTail, ring, wakeSet, producers, closing, soleParker
<1>1. TypeOK'
  BY DEF TypeOK, ConsumerSteps
<1>2. CallInv'
  BY DEF CallInv
<1>3. ConsumerInv'
  BY DEF ConsumerInv
<1>4. ReachInv'
  BY DEF ReachInv, Committed, Waking, FrontSettled
<1>5. ArmedInv'
  BY DEF ArmedInv, Armed
<1>6. SleepInv'
  BY DEF SleepInv, Stuck, Coming
<1> QED  BY <1>1, <1>2, <1>3, <1>4, <1>5, <1>6

LEMMA ArmConsumerStep ==
  ASSUME TypeOK, IInv, ArmConsumer PROVE TypeOK' /\ IInv'
<1> USE DEF IInv, ArmConsumer, RingTail, ring, wakeSet, producers, closing
<1>1. TypeOK'
  BY DEF TypeOK, ConsumerSteps
<1>2. CallInv'
  BY DEF CallInv
<1>3. ConsumerInv'
  BY DEF ConsumerInv
<1>4. ReachInv'
  BY DEF ReachInv
<1>5. ArmedInv'
  BY DEF ArmedInv, Armed
<1>6. SleepInv'
  BY DEF SleepInv, Stuck, Coming
<1> QED  BY <1>1, <1>2, <1>3, <1>4, <1>5, <1>6

LEMMA ParkConsumerStep ==
  ASSUME TypeOK, IInv, ParkConsumer PROVE TypeOK' /\ IInv'
<1> USE DEF IInv, ParkConsumer, RingTail, ring, wakeSet, producers, closing
<1>1. TypeOK'
  BY DEF TypeOK, ConsumerSteps
<1>2. CallInv'
  BY DEF CallInv
<1>3. ConsumerInv'
  BY DEF ConsumerInv
<1>4. ReachInv'
  BY DEF ReachInv, Committed
<1>5. ArmedInv'
  BY DEF ArmedInv, Armed
<1>6. SleepInv'
  BY DEF SleepInv, Stuck, Coming
<1> QED  BY <1>1, <1>2, <1>3, <1>4, <1>5, <1>6

LEMMA DisarmConsumerStep ==
  ASSUME TypeOK, IInv, DisarmConsumer PROVE TypeOK' /\ IInv'
<1> USE DEF IInv, DisarmConsumer, RingTail, ring, wakeSet, producers, closing
<1>1. TypeOK'
  BY DEF TypeOK, ConsumerSteps
<1>2. CallInv'
  BY DEF CallInv
<1>3. ConsumerInv'
  BY DEF ConsumerInv
<1>4. ReachInv'
  BY DEF ReachInv, Committed
<1>5. ArmedInv'
  BY DEF ArmedInv, Armed
<1>6. SleepInv'
  BY DEF SleepInv, Stuck, Coming
<1> QED  BY <1>1, <1>2, <1>3, <1>4, <1>5, <1>6

LEMMA DropConsumerStep ==
  ASSUME TypeOK, IInv, DropConsumer PROVE TypeOK' /\ IInv'
<1> USE DEF IInv, DropConsumer, Q!Retire, RingTail, wakeSet, producers, soleParker
<1>1. TypeOK'
  BY DEF TypeOK, ConsumerSteps
<1>2. CallInv'
  BY DEF CallInv
<1>3. ConsumerInv'
  BY DEF ConsumerInv
<1>4. ReachInv'
  BY DEF ReachInv, Committed
<1>5. ArmedInv'
  BY DEF ArmedInv, Armed
<1>6. SleepInv'
  BY DEF SleepInv, Stuck, Coming
<1> QED  BY <1>1, <1>2, <1>3, <1>4, <1>5, <1>6

LEMMA FlushStep ==
  ASSUME TypeOK, IInv, Flush PROVE TypeOK' /\ IInv'
<1> USE DEF IInv, Flush, RingTail, ring, producers, closing, soleParker
<1>1. TypeOK'
  BY DEF TypeOK, ConsumerSteps
<1>2. CallInv'
  BY DEF CallInv
<1>3. ConsumerInv'
  BY DEF ConsumerInv
<1>4. ReachInv'
  BY DEF ReachInv, Committed
<1>5. ArmedInv'
  BY DEF ArmedInv, Armed, ConsumerInv
<1>6. SleepInv'
  BY DEF SleepInv, Stuck, Coming
<1> QED  BY <1>1, <1>2, <1>3, <1>4, <1>5, <1>6

LEMMA FlushingStep ==
  ASSUME TypeOK, IInv, Flushing PROVE TypeOK' /\ IInv'
<1> USE DEF IInv, RingTail, ring, producers, closing, soleParker
<1>0. PICK p \in targets : Unpark(p)
  BY FirstFromIn DEF Flushing, TypeOK
<1> USE <1>0 DEF Unpark
<1>1. TypeOK'
  BY DEF Flushing, TypeOK
<1>2. CallInv'
  BY DEF Flushing, CallInv
<1>3. ConsumerInv'
  BY DEF Flushing, ConsumerInv
<1>4. ReachInv'
  BY DEF Flushing, ReachInv, Committed
<1>5. ArmedInv'
  BY DEF Flushing, ArmedInv, Armed
<1>6. SleepInv'
  BY DEF Flushing, SleepInv, Stuck, Coming
<1> QED  BY <1>1, <1>2, <1>3, <1>4, <1>5, <1>6

LEMMA FlushedStep ==
  ASSUME TypeOK, IInv, Flushed PROVE TypeOK' /\ IInv'
<1> USE DEF IInv, Flushed, RingTail, ring, wakeSet, producers, closing, soleParker
<1>1. TypeOK'
  BY DEF TypeOK, ConsumerSteps
<1>2. CallInv'
  BY DEF CallInv
<1>3. ConsumerInv'
  BY DEF ConsumerInv
<1>4. ReachInv'
  BY DEF ReachInv, Committed
<1>5. ArmedInv'
  BY DEF ArmedInv, Armed
<1>6. SleepInv'
  BY DEF SleepInv, Stuck, Coming
<1> QED  BY <1>1, <1>2, <1>3, <1>4, <1>5, <1>6

-----------------------------------------------------------------------------
LEMMA NextInv == ASSUME TypeOK, IInv, [Next]_vars PROVE TypeOK' /\ IInv'
<1>1. CASE UNCHANGED vars
  <2>1. TypeOK'
    BY <1>1 DEF vars, ring, wakeSet, producers, consumer, closing, soleParker, TypeOK
  <2>2. IInv'
    BY <1>1 DEF vars, ring, wakeSet, producers, consumer, closing, soleParker, RingTail,
                IInv, CallInv, ConsumerInv, ReachInv, Committed, Waking, FrontSettled,
                ArmedInv, Armed, SleepInv, Stuck, Coming
  <2> QED  BY <2>1, <2>2
<1>2. ASSUME NEW p \in Producers, Call(p) \/ Advance(p) \/ Leave(p)
      PROVE  TypeOK' /\ IInv'
  BY <1>2, CallStep, CheckOpenStep, LoadTailStep, ClaimFailsStep, ClaimOkStep, ClaimLostStep,
     ArmStep, RecheckOpenStep, ParkStep, DisarmStep, FillStep, AbandonStep,
     WakeConsumerStep, LeaveStep, CloseStep
     DEF Advance
<1>3. CASE ConsumerNext \/ DropConsumer
  BY <1>3, TakeValueStep, SkipTombstoneStep, FindNothingStep, DrainMoreStep, PublishHeadStep,
     ClearBitStep, ClaimHandleStep, WokenEnoughStep, CheckClosedStep, ArmConsumerStep,
     ParkConsumerStep, DisarmConsumerStep, DropConsumerStep, FlushStep, FlushingStep,
     FlushedStep
     DEF ConsumerNext
<1> QED  BY <1>1, <1>2, <1>3 DEF Next, Finished

-----------------------------------------------------------------------------
LEMMA Invariant == Spec => [](TypeOK /\ IInv)
<1> QED  BY InitInv, NextInv, PTL DEF Spec

(* Every variable of the blocking calls keeps its type: the queue's places *)
(* are open, full of a value of a call that was made, or void, and no more *)
(* than the capacity are held back (mpsc/mod.rs, producer.rs, consumer.rs).*)
THEOREM TypeCorrect == Spec => []TypeOK
<1> QED  BY Invariant, PTL

(* The consumer that sleeps beside a settled position or on a closed ring  *)
(* has its flag up and a producer about to wake it, for any number of      *)
(* producers (pop_block, wake_consumer, Producer::drop).                   *)
THEOREM ConsumerIsWoken == Spec => []ConsumerNotStranded
<1>1. IInv => ConsumerNotStranded
  BY DEF IInv, ReachInv, Committed, Waking, ConsumerNotStranded, ConsumerAsleep
<1> QED  BY <1>1, Invariant, PTL

(* While the consumer lives and no wake has reached a producer that had    *)
(* its slot already, a producer that sleeps beside an empty ring has a     *)
(* wake owed to it, or another producer that is about to look at the ring  *)
(* (push_block, reserve_block, publish_head, WakeSet::wake_n).             *)
THEOREM SleepersAreWoken == Spec => []NoSleepBesideEmptyRing
<1>1. TypeOK /\ IInv => NoSleepBesideEmptyRing
  <2> SUFFICES ASSUME TypeOK, IInv, NEW p \in Producers,
                      Asleep(p), RingTail = head, ~stolen, ~consumerClosed
               PROVE  owed > 0 \/ \E q \in Producers : OnItsWay(q)
    BY DEF NoSleepBesideEmptyRing
  <2>1. Stuck(p)
    BY DEF Asleep, Stuck
  <2>2. \A q \in Producers : Coming(q) => OnItsWay(q)
    BY DEF Coming, OnItsWay, HasSlot, Asleep
  <2> QED  BY <2>1, <2>2 DEF IInv, SleepInv
<1> QED  BY <1>1, Invariant, PTL
=============================================================================
