----------------------------- MODULE MpscProofs -----------------------------
(***************************************************************************)
(* Slot ownership in the mpsc ring, for any number of producers, any       *)
(* capacity and any number of sends.  The capacity check compares cursors  *)
(* only; that the claimed slot is really free follows from the window      *)
(* next .. next+Capacity-1, whose positions map one-to-one to slots.       *)
(***************************************************************************)
EXTENDS Mpsc, SequenceTheorems, TLAPS

-----------------------------------------------------------------------------
(* The slot map.                                                           *)

(* The slot of a position (Capacity::index_of).                            *)
LEMMA SlotType == ASSUME NEW a \in Nat PROVE Slot(a) \in Slots
BY CapacityAssumption DEF Slot, Slots

(* A position is some laps and its slot.                                   *)
LEMMA SlotDivision ==
  ASSUME NEW a \in Nat
  PROVE  /\ a = Capacity * (a \div Capacity) + Slot(a)
         /\ a \div Capacity \in Nat /\ Slot(a) \in Nat /\ Slot(a) < Capacity
BY CapacityAssumption DEF Slot

LEMMA Multiples ==
  ASSUME NEW q \in Int, NEW r \in Int, q < r
  PROVE  Capacity * q + Capacity <= Capacity * r
<1>1. Capacity * (q + 1) <= Capacity * r
  BY CapacityAssumption
<1>2. Capacity * (q + 1) = Capacity * q + Capacity
  BY CapacityAssumption
<1> QED  BY <1>1, <1>2

LEMMA SlotInjective ==
  ASSUME NEW a \in Nat, NEW b \in Nat, a < b, b < a + Capacity
  PROVE  Slot(a) # Slot(b)
<1> SUFFICES ASSUME Slot(a) = Slot(b) PROVE FALSE
  OBVIOUS
<1> DEFINE q == a \div Capacity
           r == b \div Capacity
<1>1. a = Capacity * q + Slot(a) /\ q \in Nat /\ Slot(a) \in Nat
  BY SlotDivision
<1>2. b = Capacity * r + Slot(a) /\ r \in Nat
  BY SlotDivision
<1> HIDE DEF q, r
<1>3. Capacity * q \in Int /\ Capacity * r \in Int
  BY <1>1, <1>2, CapacityAssumption
<1>4. CASE r < q
  BY <1>1, <1>2, <1>3, <1>4, Multiples, CapacityAssumption
<1>5. CASE r = q
  BY <1>1, <1>2, <1>5
<1>6. CASE q < r
  BY <1>1, <1>2, <1>3, <1>6, Multiples, CapacityAssumption
<1> QED  BY <1>1, <1>2, <1>4, <1>5, <1>6

(* What is left of a position beyond whole laps is its slot.               *)
LEMMA SlotUnique ==
  ASSUME NEW a \in Nat, NEW q \in Nat, NEW s \in Slots, a = Capacity * q + s
  PROVE  Slot(a) = s
<1> DEFINE r == a \div Capacity
<1>1. a = Capacity * r + Slot(a) /\ r \in Nat /\ Slot(a) \in Nat /\ Slot(a) < Capacity
  BY SlotDivision
<1>2. s \in Nat /\ s < Capacity
  BY CapacityAssumption DEF Slots
<1> HIDE DEF r
<1>3. Capacity * q \in Int /\ Capacity * r \in Int
  BY <1>1, CapacityAssumption
<1>4. CASE q < r
  BY <1>1, <1>2, <1>3, <1>4, Multiples, CapacityAssumption
<1>5. CASE r < q
  BY <1>1, <1>2, <1>3, <1>5, Multiples, CapacityAssumption
<1>6. CASE q = r
  BY <1>1, <1>2, <1>3, <1>6
<1> QED  BY <1>1, <1>4, <1>5, <1>6

(* A position returns to the slot it had one lap ago.                      *)
LEMMA SlotLap == ASSUME NEW a \in Nat PROVE Slot(a + Capacity) = Slot(a)
<1> DEFINE q == a \div Capacity
<1>1. a = Capacity * q + Slot(a) /\ q \in Nat /\ Slot(a) \in Nat
  BY SlotDivision
<1> HIDE DEF q
<1>2. Capacity * (q + 1) = Capacity * q + Capacity /\ Capacity * q \in Nat
  BY <1>1, CapacityAssumption
<1>3. a + Capacity = Capacity * (q + 1) + Slot(a) /\ a + Capacity \in Nat /\ q + 1 \in Nat
  BY <1>1, <1>2, CapacityAssumption
<1> QED  BY <1>3, SlotType, SlotUnique

LEMMA SlotOnto ==
  ASSUME NEW a \in Nat, NEW s \in Slots
  PROVE  \E pos \in a..(a + Capacity - 1) : Slot(pos) = s
<1> DEFINE q == a \div Capacity
<1>1. a = Capacity * q + Slot(a) /\ q \in Nat /\ Slot(a) \in Nat /\ Slot(a) < Capacity
  BY SlotDivision
<1>2. s \in Nat /\ s < Capacity
  BY CapacityAssumption DEF Slots
<1> HIDE DEF q
<1>3. Capacity * q \in Nat /\ Capacity * (q + 1) = Capacity * q + Capacity
  BY <1>1, CapacityAssumption
<1>4. CASE Slot(a) <= s
  <2> DEFINE pos == Capacity * q + s
  <2>1. pos \in a..(a + Capacity - 1) /\ pos \in Nat
    BY <1>1, <1>2, <1>3, <1>4, CapacityAssumption
  <2>2. Slot(pos) = s
    BY <1>1, <2>1, SlotUnique
  <2> QED  BY <2>1, <2>2
<1>5. CASE s < Slot(a)
  <2> DEFINE pos == Capacity * (q + 1) + s
  <2>1. pos \in a..(a + Capacity - 1) /\ pos \in Nat
    BY <1>1, <1>2, <1>3, <1>5, CapacityAssumption
  <2>2. q + 1 \in Nat
    BY <1>1
  <2>3. Slot(pos) = s
    BY <2>1, <2>2, SlotUnique
  <2> QED  BY <2>1, <2>3
<1> QED  BY <1>1, <1>2, <1>4, <1>5

-----------------------------------------------------------------------------
PcInv ==
  /\ pc \in [Producers -> ProducerSteps]
  /\ cur \in [Producers -> Nat] /\ cached \in [Producers -> Nat]
  /\ sent \in [Producers -> 0..MaxSends]
  /\ live \subseteq Producers
  /\ cpc \in ConsumerSteps
  /\ consumer \in {"live", "dropping", "gone", "destroyed"}
  /\ seq \in [Slots -> {Tombstone} \cup Nat]
  /\ data \in [Slots -> Values \cup {NoValue}]
  /\ taken \in Seq(Values) /\ dropped \subseteq Values /\ written \subseteq Values

(* Producers act only while they live, the ring goes last.                 *)
EndpointInv ==
  /\ \A p \in Producers : pc[p] # "idle" => p \in live
  /\ consumer \in {"gone", "destroyed"} => cpc = "poll" /\ head = next
  /\ consumer = "destroyed" => live = {}
  /\ \A p \in Producers : Owns(p) => sent[p] > 0
  /\ \A p \in Producers : pc[p] = "cas" => sent[p] < MaxSends
  /\ \A p \in Producers : pc[p] = "head" => sent[p] < MaxSends

(* The capacity check still holds when the compare-exchange succeeds.      *)
ClaimInv ==
  /\ \A p \in Producers : cached[p] <= head
  /\ \A p \in Producers : pc[p] = "cas" => ~NoRoom(cur[p], cached[p])

CursorInv ==
  /\ head \in Nat /\ next \in Nat /\ tail \in Nat
  /\ head <= next /\ next <= tail /\ tail <= head + Capacity

(* Positions no producer has claimed yet.                                  *)
FreeInv ==
  \A pos \in tail..(next + Capacity - 1) :
    seq[Slot(pos)] = FreeAt(pos) /\ data[Slot(pos)] = NoValue

(* Positions claimed and not settled.                                      *)
OwnedInv ==
  \A p \in Producers : Owns(p) =>
    /\ cur[p] >= next /\ cur[p] < tail
    /\ seq[Slot(cur[p])] = FreeAt(cur[p])
    /\ pc[p] \in {"claimed", "void"} => data[Slot(cur[p])] = NoValue
    /\ pc[p] = "written" => data[Slot(cur[p])] = Value(p)
    /\ \A q \in Producers \ {p} : Owns(q) => cur[p] # cur[q]

(* Positions settled and not released: a value behind a published word,    *)
(* none behind a tombstone.                                                *)
SettledInv ==
  consumer # "destroyed" =>
  \A pos \in next..(tail - 1) :
    /\ seq[Slot(pos)] = PublishedAt(pos) /\ ~(pos = next /\ cpc = "release")
         => data[Slot(pos)] \in Values
    /\ seq[Slot(pos)] = Tombstone => data[Slot(pos)] = NoValue
    /\ seq[Slot(pos)] \in {FreeAt(pos), PublishedAt(pos), Tombstone}

ConsumerInv ==
  /\ cpc # "poll" => next < tail
  /\ cpc \in {"ready", "release"} => seq[Slot(next)] = PublishedAt(next)
  /\ cpc = "release" => data[Slot(next)] = NoValue
  /\ cpc = "void" => seq[Slot(next)] = Tombstone

IInv ==
  /\ PcInv /\ EndpointInv /\ ClaimInv /\ CursorInv
  /\ FreeInv /\ OwnedInv /\ SettledInv /\ ConsumerInv

-----------------------------------------------------------------------------
(* The positions of one lap, from the consumer's on.                       *)
Window == next..(next + Capacity - 1)

LEMMA WindowInjective ==
  ASSUME CursorInv, NEW a \in Window, NEW b \in Window, a # b
  PROVE  Slot(a) # Slot(b)
<1>1. a \in Nat /\ b \in Nat
  BY DEF Window, CursorInv
<1>2. (a < b /\ b < a + Capacity) \/ (b < a /\ a < b + Capacity)
  BY CapacityAssumption DEF Window, CursorInv
<1> QED  BY <1>1, <1>2, SlotInjective

LEMMA WindowSlots ==
  ASSUME CursorInv, NEW a \in Window PROVE Slot(a) \in Slots
BY SlotType DEF Window, CursorInv

LEMMA InitIInv == ASSUME Init PROVE IInv
<1> USE CapacityAssumption, MpscAssumption
<1>1. PcInv
  <2>1. FreeAt(0) \in Nat /\ \A s \in Slots : FreeAt(s) \in Nat
    BY DEF FreeAt, Slots
  <2>2. 0 \in 0..MaxSends
    OBVIOUS
  <2> QED  BY <2>1, <2>2 DEF Init, PcInv, ProducerSteps, ConsumerSteps
<1>2. EndpointInv /\ ClaimInv /\ CursorInv /\ ConsumerInv /\ OwnedInv
  BY DEF Init, EndpointInv, ClaimInv, CursorInv, ConsumerInv, OwnedInv, Owns
<1>3. FreeInv
  <2>1. ASSUME NEW pos \in tail..(next + Capacity - 1)
        PROVE  seq[Slot(pos)] = FreeAt(pos) /\ data[Slot(pos)] = NoValue
    <3>1. pos \in Slots /\ Slot(pos) = pos
      BY DEF Init, Slot, Slots
    <3> QED  BY <3>1 DEF Init
  <2> QED  BY <2>1 DEF FreeInv
<1>4. SettledInv
  BY DEF Init, SettledInv
<1> QED  BY <1>1, <1>2, <1>3, <1>4 DEF IInv

(* What a producer may rely on between its claim and its settlement.       *)
LEMMA OwnedPosition ==
  ASSUME IInv, NEW p \in Producers, Owns(p)
  PROVE  /\ cur[p] \in Window /\ cur[p] \in Nat /\ cur[p] < tail
         /\ seq[Slot(cur[p])] = FreeAt(cur[p])
         /\ p \in live /\ consumer # "destroyed"
         /\ Value(p) \in Values
         /\ pc[p] \in {"claimed", "void"} => data[Slot(cur[p])] = NoValue
         /\ pc[p] = "written" => data[Slot(cur[p])] = Value(p)
<1> USE CapacityAssumption, MpscAssumption
<1>1. cur[p] \in Window /\ cur[p] \in Nat /\ cur[p] < tail
  BY DEF IInv, OwnedInv, CursorInv, PcInv, Window
<1>2. p \in live /\ consumer # "destroyed"
  BY DEF IInv, EndpointInv, Owns
<1>3. Value(p) \in Values
  BY DEF IInv, EndpointInv, PcInv, Value, Values
<1> QED  BY <1>1, <1>2, <1>3 DEF IInv, OwnedInv

(* Settling a claim: the word of p's slot is published, over a value, or   *)
(* becomes a tombstone, over none (SlotSequence::publish and tombstone).   *)
LEMMA SettleStep ==
  ASSUME IInv, NEW p \in Producers, Owns(p), NEW word,
         \/ word = PublishedAt(cur[p]) /\ pc[p] = "written"
         \/ word = Tombstone /\ pc[p] \in {"claimed", "void"},
         seq' = [seq EXCEPT ![Slot(cur[p])] = word],
         Goto(p, "idle"),
         UNCHANGED <<head, tail, data, cur, cached, sent, live, written, consumerVars, dropped>>
  PROVE  IInv'
<1> USE CapacityAssumption, MpscAssumption DEF Goto, Owns
<1>1. /\ cur[p] \in Window /\ cur[p] < tail /\ seq[Slot(cur[p])] = FreeAt(cur[p])
      /\ p \in live /\ consumer # "destroyed"
      /\ word = PublishedAt(cur[p]) => data[Slot(cur[p])] \in Values
      /\ word = Tombstone => data[Slot(cur[p])] = NoValue
      /\ word \in Nat \cup {Tombstone}
  BY OwnedPosition DEF PublishedAt, Tombstone
<1>2. \A pos \in Window : pos # cur[p] => seq'[Slot(pos)] = seq[Slot(pos)]
  BY <1>1, WindowInjective, WindowSlots DEF IInv, PcInv
<1>3. seq'[Slot(cur[p])] = word
  BY <1>1, WindowSlots DEF IInv, PcInv
<1>4. PcInv' /\ EndpointInv' /\ ClaimInv' /\ CursorInv'
  BY <1>1 DEF IInv, PcInv, EndpointInv, ClaimInv, CursorInv, consumerVars, ProducerSteps
<1>5. FreeInv'
  BY <1>1, <1>2 DEF IInv, CursorInv, FreeInv, Window, consumerVars
<1>6. OwnedInv'
  <2>1. ASSUME NEW q \in Producers, Owns(q)'
        PROVE  /\ Owns(q) /\ Value(q)' = Value(q) /\ pc'[q] = pc[q]
               /\ seq'[Slot(cur[q])] = seq[Slot(cur[q])]
    <3>1. Owns(q) /\ q # p /\ pc'[q] = pc[q] /\ Value(q)' = Value(q)
      BY <2>1 DEF IInv, PcInv, Value
    <3>2. cur[q] # cur[p] /\ cur[q] >= next /\ cur[q] < tail /\ cur[q] \in Nat
      BY <3>1 DEF IInv, OwnedInv, PcInv
    <3>3. cur[q] \in Window
      BY <3>2 DEF IInv, CursorInv, Window
    <3> QED  BY <1>2, <3>1, <3>2, <3>3
  <2> QED  BY <2>1 DEF IInv, OwnedInv, consumerVars
<1>7. SettledInv'
  BY <1>1, <1>2, <1>3
     DEF IInv, SettledInv, CursorInv, ConsumerInv, Window, consumerVars, FreeAt, PublishedAt,
         Tombstone
<1>8. ConsumerInv'
  BY <1>1, <1>2 DEF IInv, ConsumerInv, CursorInv, Window, consumerVars, FreeAt, PublishedAt,
         Tombstone
<1> QED  BY <1>4, <1>5, <1>6, <1>7, <1>8 DEF IInv

(* What the producer steps that touch no slot and no cursor preserve.      *)
LEMMA StepIInv == ASSUME IInv, [Next]_vars PROVE IInv'
<1> USE CapacityAssumption, MpscAssumption
<1> USE DEF Goto, Owns
<1>0. CASE UNCHANGED vars
  BY <1>0 DEF vars, IInv, PcInv, EndpointInv, ClaimInv, CursorInv, FreeInv, OwnedInv, Value,
              SettledInv, ConsumerInv, Owns

<1>1. ASSUME NEW p \in Producers, LoadTail(p) PROVE IInv'
  BY <1>1 DEF LoadTail, consumerVars, IInv, PcInv, EndpointInv, ClaimInv, CursorInv, FreeInv,
     OwnedInv, Value, SettledInv, ConsumerInv, ProducerSteps, ConsumerSteps, NoRoom
<1>2. ASSUME NEW p \in Producers, LoadHead(p) PROVE IInv'
  BY <1>2 DEF LoadHead, consumerVars, IInv, PcInv, EndpointInv, ClaimInv, CursorInv, FreeInv,
     OwnedInv, Value, SettledInv, ConsumerInv, ProducerSteps, ConsumerSteps, NoRoom
<1>3. ASSUME NEW p \in Producers, ClaimOk(p) PROVE IInv'
  <2> USE <1>3 DEF ClaimOk
  <2>1. tail \in Window /\ tail < head + Capacity
    BY DEF IInv, ClaimInv, CursorInv, PcInv, NoRoom, Window
  <2>2. seq[Slot(tail)] = FreeAt(tail) /\ data[Slot(tail)] = NoValue
    BY <2>1 DEF IInv, FreeInv, CursorInv, Window
  <2>3. sent[p] < MaxSends /\ p \in live /\ consumer # "destroyed"
    BY DEF IInv, EndpointInv
  <2>4. PcInv' /\ EndpointInv' /\ ClaimInv'
    BY <2>3 DEF IInv, PcInv, EndpointInv, ClaimInv, consumerVars, ProducerSteps
  <2>5. CursorInv' /\ FreeInv' /\ ConsumerInv'
    BY <2>1 DEF IInv, CursorInv, FreeInv, ConsumerInv, consumerVars
  <2>6. OwnedInv'
    <3>1. ASSUME NEW q \in Producers, Owns(q)', q # p
          PROVE  Owns(q) /\ cur[q] < tail /\ Value(q)' = Value(q)
      BY <3>1 DEF IInv, OwnedInv, PcInv, Value
    <3> QED  BY <2>1, <2>2, <3>1 DEF IInv, OwnedInv, PcInv, CursorInv, consumerVars
  <2>7. SettledInv'
    BY <2>2 DEF IInv, SettledInv, CursorInv, consumerVars, FreeAt, PublishedAt, Tombstone
  <2> QED  BY <2>4, <2>5, <2>6, <2>7 DEF IInv
<1>4. ASSUME NEW p \in Producers, ClaimLost(p) PROVE IInv'
  BY <1>4 DEF ClaimLost, consumerVars, IInv, PcInv, EndpointInv, ClaimInv, CursorInv, FreeInv,
     OwnedInv, Value, SettledInv, ConsumerInv, ProducerSteps, ConsumerSteps, NoRoom
<1>5. ASSUME NEW p \in Producers, Write(p) PROVE IInv'
  <2> USE <1>5 DEF Write
  <2>1. /\ cur[p] \in Window /\ cur[p] < tail /\ seq[Slot(cur[p])] = FreeAt(cur[p])
        /\ p \in live /\ consumer # "destroyed" /\ Value(p) \in Values
    BY OwnedPosition
  <2>2. \A pos \in Window : pos # cur[p] => data'[Slot(pos)] = data[Slot(pos)]
    BY <2>1, WindowInjective, WindowSlots DEF IInv, PcInv
  <2>3. data'[Slot(cur[p])] = Value(p)
    BY <2>1, WindowSlots DEF IInv, PcInv
  <2>4. PcInv' /\ EndpointInv' /\ ClaimInv' /\ CursorInv'
    BY <2>1 DEF IInv, PcInv, EndpointInv, ClaimInv, CursorInv, consumerVars, ProducerSteps
  <2>5. FreeInv'
    BY <2>1, <2>2 DEF IInv, CursorInv, FreeInv, Window, consumerVars
  <2>6. OwnedInv'
    <3>1. ASSUME NEW q \in Producers, Owns(q)', q # p
          PROVE  /\ Owns(q) /\ Value(q)' = Value(q) /\ pc'[q] = pc[q]
                 /\ data'[Slot(cur[q])] = data[Slot(cur[q])]
      <4>1. Owns(q) /\ pc'[q] = pc[q] /\ Value(q)' = Value(q)
        BY <3>1 DEF IInv, PcInv, Value
      <4>2. cur[q] # cur[p] /\ cur[q] >= next /\ cur[q] < tail /\ cur[q] \in Nat
        BY <3>1, <4>1 DEF IInv, OwnedInv, PcInv
      <4>3. cur[q] \in Window
        BY <4>2 DEF IInv, CursorInv, Window
      <4> QED  BY <2>2, <4>1, <4>2, <4>3
    <3> QED  BY <2>1, <2>3, <3>1 DEF IInv, OwnedInv, PcInv, CursorInv, consumerVars, Value
  <2>7. SettledInv'
    BY <2>1, <2>2, <2>3
       DEF IInv, SettledInv, CursorInv, Window, consumerVars, FreeAt, PublishedAt, Tombstone
  <2>8. ConsumerInv'
    BY <2>1, <2>2 DEF IInv, ConsumerInv, CursorInv, Window, consumerVars, FreeAt, PublishedAt, Tombstone
  <2> QED  BY <2>4, <2>5, <2>6, <2>7, <2>8 DEF IInv
<1>6. ASSUME NEW p \in Producers, Publish(p) PROVE IInv'
  BY <1>6, SettleStep DEF Publish
<1>7. ASSUME NEW p \in Producers, Abandon(p) PROVE IInv'
  BY <1>7, SettleStep DEF Abandon
<1>8. ASSUME NEW p \in Producers, DropWritten(p) PROVE IInv'
  <2> USE <1>8 DEF DropWritten
  <2>1. /\ cur[p] \in Window /\ cur[p] < tail /\ seq[Slot(cur[p])] = FreeAt(cur[p])
        /\ p \in live /\ consumer # "destroyed" /\ data[Slot(cur[p])] \in Values
    BY OwnedPosition
  <2>2. \A pos \in Window : pos # cur[p] => data'[Slot(pos)] = data[Slot(pos)]
    BY <2>1, WindowInjective, WindowSlots DEF IInv, PcInv
  <2>3. data'[Slot(cur[p])] = NoValue
    BY <2>1, WindowSlots DEF IInv, PcInv
  <2>4. PcInv' /\ EndpointInv' /\ ClaimInv' /\ CursorInv'
    BY <2>1 DEF IInv, PcInv, EndpointInv, ClaimInv, CursorInv, consumerVars, ProducerSteps
  <2>5. FreeInv'
    BY <2>1, <2>2 DEF IInv, CursorInv, FreeInv, Window, consumerVars
  <2>6. OwnedInv'
    <3>1. ASSUME NEW q \in Producers, Owns(q)', q # p
          PROVE  /\ Owns(q) /\ Value(q)' = Value(q) /\ pc'[q] = pc[q]
                 /\ data'[Slot(cur[q])] = data[Slot(cur[q])]
      <4>1. Owns(q) /\ pc'[q] = pc[q] /\ Value(q)' = Value(q)
        BY <3>1 DEF IInv, PcInv, Value
      <4>2. cur[q] # cur[p] /\ cur[q] >= next /\ cur[q] < tail /\ cur[q] \in Nat
        BY <3>1, <4>1 DEF IInv, OwnedInv, PcInv
      <4>3. cur[q] \in Window
        BY <4>2 DEF IInv, CursorInv, Window
      <4> QED  BY <2>2, <4>1, <4>2, <4>3
    <3> QED  BY <2>1, <2>3, <3>1 DEF IInv, OwnedInv, PcInv, CursorInv, consumerVars, Value
  <2>7. SettledInv'
    BY <2>1, <2>2, <2>3
       DEF IInv, SettledInv, CursorInv, Window, consumerVars, FreeAt, PublishedAt, Tombstone
  <2>8. ConsumerInv'
    BY <2>1, <2>2 DEF IInv, ConsumerInv, CursorInv, Window, consumerVars, FreeAt, PublishedAt, Tombstone
  <2> QED  BY <2>4, <2>5, <2>6, <2>7, <2>8 DEF IInv
<1>9. ASSUME NEW p \in Producers, Clone(p) PROVE IInv'
  BY <1>9 DEF Clone, consumerVars, IInv, PcInv, EndpointInv, ClaimInv, CursorInv, FreeInv,
     OwnedInv, Value, SettledInv, ConsumerInv
<1>10. ASSUME NEW p \in Producers, DropProducer(p) PROVE IInv'
  BY <1>10 DEF DropProducer, consumerVars, IInv, PcInv, EndpointInv, ClaimInv, CursorInv, FreeInv,
     OwnedInv, Value, SettledInv, ConsumerInv
<1>11. CASE Classify
  BY <1>11 DEF Classify, producerVars, IInv, PcInv, EndpointInv, ClaimInv, CursorInv, FreeInv,
     OwnedInv, Value, SettledInv, ConsumerInv, ConsumerSteps, FreeAt, PublishedAt, Tombstone
<1>12. CASE PublishHead
  BY <1>12 DEF PublishHead, producerVars, consumerVars, IInv, PcInv, EndpointInv, ClaimInv, CursorInv, FreeInv,
     OwnedInv, Value, SettledInv, ConsumerInv
<1>13. CASE DropConsumer
  BY <1>13 DEF DropConsumer, producerVars, IInv, PcInv, EndpointInv, ClaimInv, CursorInv, FreeInv,
     OwnedInv, Value, SettledInv, ConsumerInv
<1>14. CASE ConsumerGone
  BY <1>14 DEF ConsumerGone, producerVars, IInv, PcInv, EndpointInv, ClaimInv, CursorInv, FreeInv,
     OwnedInv, Value, SettledInv, ConsumerInv
<1>15. CASE TakeValue
  <2> USE <1>15 DEF TakeValue
  <2>1. /\ next \in Window /\ next < tail /\ seq[Slot(next)] = PublishedAt(next)
        /\ consumer # "destroyed" /\ data[Slot(next)] \in Values
    BY DEF IInv, ConsumerInv, CursorInv, Window, EndpointInv, SettledInv
  <2>2. \A pos \in Window : pos # next => data'[Slot(pos)] = data[Slot(pos)]
    BY <2>1, WindowInjective, WindowSlots DEF IInv, PcInv
  <2>3. data'[Slot(next)] = NoValue
    BY <2>1, WindowSlots DEF IInv, PcInv
  <2>4. PcInv' /\ EndpointInv' /\ ClaimInv' /\ CursorInv'
    <3>1. PcInv'
      <4>1. taken' \in Seq(Values) /\ dropped' \subseteq Values
        <5> DEFINE v == data[Slot(next)]
        <5>1. v \in Values
          BY <2>1
        <5> HIDE DEF v
        <5>2. CASE taken' = Append(taken, v) /\ dropped' = dropped
          BY <5>1, <5>2 DEF IInv, PcInv
        <5>3. CASE dropped' = dropped \cup {v} /\ taken' = taken
          BY <5>1, <5>3 DEF IInv, PcInv
        <5> QED  BY <5>2, <5>3 DEF v
      <4> QED  BY <4>1 DEF IInv, PcInv, producerVars, ConsumerSteps
    <3>2. EndpointInv' /\ ClaimInv' /\ CursorInv'
      BY <2>1 DEF IInv, EndpointInv, ClaimInv, CursorInv, producerVars
    <3> QED  BY <3>1, <3>2
  <2>5. FreeInv'
    BY <2>1, <2>2 DEF IInv, CursorInv, FreeInv, Window, producerVars
  <2>6. OwnedInv'
    <3>1. ASSUME NEW q \in Producers, Owns(q)
          PROVE  /\ Value(q)' = Value(q)
                 /\ data'[Slot(cur[q])] = data[Slot(cur[q])]
      <4>1. cur[q] # next
        BY <2>1, <3>1, OwnedPosition DEF IInv, CursorInv, FreeAt, PublishedAt
      <4> QED  BY <2>2, <3>1, <4>1, OwnedPosition DEF Value, producerVars
    <3> QED  BY <3>1 DEF IInv, OwnedInv, producerVars, Value
  <2>7. SettledInv' /\ ConsumerInv'
    BY <2>1, <2>2, <2>3
       DEF IInv, SettledInv, ConsumerInv, CursorInv, Window, producerVars, FreeAt, PublishedAt,
           Tombstone
  <2> QED  BY <2>4, <2>5, <2>6, <2>7 DEF IInv
<1>16. CASE ReleaseSlot
  <2> USE <1>16 DEF ReleaseSlot
  <2>1. /\ next \in Window /\ next \in Nat /\ next < tail /\ seq[Slot(next)] # FreeAt(next)
        /\ data[Slot(next)] = NoValue
    BY DEF IInv, ConsumerInv, CursorInv, Window, SettledInv, EndpointInv, FreeAt, PublishedAt, Tombstone
  <2>2. \A pos \in Window : pos # next => seq'[Slot(pos)] = seq[Slot(pos)]
    BY <2>1, WindowInjective, WindowSlots DEF IInv, PcInv
  <2>3. /\ Slot(next + Capacity) = Slot(next)
        /\ seq'[Slot(next + Capacity)] = FreeAt(next + Capacity)
        /\ FreeAt(next + Capacity) \in Nat
    BY <2>1, WindowSlots, SlotLap DEF IInv, PcInv, FreeAt
  <2>4. PcInv' /\ EndpointInv' /\ ClaimInv' /\ CursorInv'
    <3>1. PcInv'
      BY <2>3 DEF IInv, PcInv, producerVars, ConsumerSteps
    <3>2. EndpointInv' /\ ClaimInv'
      BY DEF IInv, EndpointInv, ClaimInv, producerVars
    <3>3. CursorInv'
      BY <2>1 DEF IInv, CursorInv
    <3> QED  BY <3>1, <3>2, <3>3
  <2>5. FreeInv'
    <3>1. ASSUME NEW pos \in tail..(next + 1 + Capacity - 1)
          PROVE  seq'[Slot(pos)] = FreeAt(pos) /\ data[Slot(pos)] = NoValue
      <4>1. CASE pos = next + Capacity
        BY <2>1, <2>3, <4>1
      <4>2. CASE pos # next + Capacity
        <5>1. pos \in tail..(next + Capacity - 1) /\ pos \in Window /\ pos # next
          BY <2>1, <4>2 DEF IInv, CursorInv, Window
        <5> QED  BY <2>2, <5>1 DEF IInv, FreeInv
      <4> QED  BY <4>1, <4>2
    <3> QED  BY <3>1 DEF FreeInv
  <2>6. OwnedInv'
    <3>1. ASSUME NEW q \in Producers, Owns(q)
          PROVE  /\ Value(q)' = Value(q) /\ cur[q] # next
                 /\ seq'[Slot(cur[q])] = seq[Slot(cur[q])]
      <4>1. cur[q] # next
        BY <2>1, <3>1, OwnedPosition
      <4> QED  BY <2>2, <3>1, <4>1, OwnedPosition DEF Value, producerVars
    <3> QED  BY <2>1, <3>1 DEF IInv, OwnedInv, PcInv, producerVars, Value
  <2>7. SettledInv'
    BY <2>1, <2>2
       DEF IInv, SettledInv, CursorInv, Window, producerVars, FreeAt, PublishedAt, Tombstone
  <2>8. ConsumerInv'
    BY DEF ConsumerInv
  <2> QED  BY <2>4, <2>5, <2>6, <2>7, <2>8 DEF IInv
<1>17. CASE DropRing
  <2> USE <1>17 DEF DropRing
  <2>1. \A p \in Producers : ~Owns(p) /\ pc[p] = "idle"
    BY DEF IInv, EndpointInv
  <2>2. PcInv'
    <3>1. \A s \in Slots : data'[s] \in {NoValue, data[s]}
      OBVIOUS
    <3>2. data' \in [Slots -> Values \cup {NoValue}]
      BY <3>1 DEF IInv, PcInv
    <3>3. ASSUME NEW pos \in head..(tail - 1), seq[Slot(pos)] = PublishedAt(pos)
          PROVE  data[Slot(pos)] \in Values
      BY <3>3 DEF IInv, SettledInv, EndpointInv
    <3>4. dropped' \subseteq Values
      BY <3>3 DEF IInv, PcInv
    <3> QED  BY <3>2, <3>4 DEF IInv, PcInv, producerVars
  <2>3. FreeInv'
    <3>1. ASSUME NEW pos \in tail..(next + Capacity - 1)
          PROVE  data'[Slot(pos)] = NoValue
      <4>1. Slot(pos) \in Slots /\ data[Slot(pos)] = NoValue
        BY WindowSlots DEF IInv, FreeInv, CursorInv, Window
      <4> QED  BY <4>1
    <3> QED  BY <3>1 DEF IInv, FreeInv
  <2>4. EndpointInv' /\ ClaimInv' /\ CursorInv'
    BY <2>1 DEF IInv, EndpointInv, ClaimInv, CursorInv, producerVars
  <2>5. OwnedInv' /\ SettledInv' /\ ConsumerInv'
    BY <2>1 DEF IInv, OwnedInv, SettledInv, ConsumerInv, EndpointInv, producerVars
  <2> QED  BY <2>2, <2>3, <2>4, <2>5 DEF IInv
<1> QED
  BY <1>0, <1>1, <1>2, <1>3, <1>4, <1>5, <1>6, <1>7, <1>8, <1>9, <1>10, <1>11,
     <1>12, <1>13, <1>14, <1>15, <1>16, <1>17 DEF Next, ProducerNext, ConsumerNext, Done

-----------------------------------------------------------------------------
LEMMA IInvSuffices ==
  ASSUME IInv PROVE TypeOK /\ ClaimedSlotIsFree /\ ConsumerReadsValues
<1>1. TypeOK
  BY DEF IInv, PcInv, CursorInv, TypeOK
<1>2. ClaimedSlotIsFree
  <2> SUFFICES ASSUME NEW p \in Producers, Owns(p)
               PROVE  /\ \A q \in Producers \ {p} : Owns(q) => Slot(cur[p]) # Slot(cur[q])
                      /\ cpc # "poll" => Slot(cur[p]) # Slot(next)
    BY OwnedPosition DEF ClaimedSlotIsFree
  <2>1. ASSUME NEW q \in Producers \ {p}, Owns(q) PROVE Slot(cur[p]) # Slot(cur[q])
    <3>1. cur[p] # cur[q]
      BY <2>1 DEF IInv, OwnedInv
    <3> QED  BY <2>1, <3>1, OwnedPosition, WindowInjective DEF IInv
  <2>2. ASSUME cpc # "poll" PROVE Slot(cur[p]) # Slot(next)
    <3>1. next \in Window /\ next \in Nat
      BY CapacityAssumption DEF IInv, CursorInv, Window
    <3>2. seq[Slot(next)] # FreeAt(next)
      BY <2>2, <3>1 DEF IInv, PcInv, ConsumerInv, ConsumerSteps, FreeAt, PublishedAt, Tombstone
    <3>3. cur[p] # next
      BY <3>2, OwnedPosition
    <3> QED  BY <3>1, <3>3, OwnedPosition, WindowInjective DEF IInv
  <2> QED  BY <2>1, <2>2
<1>3. ConsumerReadsValues
  BY DEF IInv, ConsumerInv, SettledInv, CursorInv, EndpointInv, ConsumerReadsValues,
         PublishedAt, Tombstone
<1> QED  BY <1>1, <1>2, <1>3

(* A producer that passed claim_slot is alone on a free slot, and the      *)
(* consumer moves out only values that are there: for every capacity and   *)
(* every number of producers (mpsc/producer.rs, mpsc/consumer.rs).         *)
THEOREM SlotOwnership == Spec => [](TypeOK /\ ClaimedSlotIsFree /\ ConsumerReadsValues)
<1>1. Init => IInv
  BY InitIInv
<1>2. IInv /\ [Next]_vars => IInv'
  BY StepIInv
<1>3. IInv => TypeOK /\ ClaimedSlotIsFree /\ ConsumerReadsValues
  BY IInvSuffices
<1> QED  BY <1>1, <1>2, <1>3, PTL DEF Spec

-----------------------------------------------------------------------------
(* Conservation of values.                                                 *)

(* An unsettled position is somebody's.                                    *)
OpenInv ==
  \A pos \in next..(tail - 1) :
    seq[Slot(pos)] = FreeAt(pos) => \E p \in Producers : Owns(p) /\ cur[p] = pos

Stored == Range(data) \ {NoValue}

(* A value is in one slot, and written by the claim it is named for.       *)
OneSlotEach == \A s, t \in Slots : s # t /\ data[s] = data[t] => data[s] = NoValue

SentInv ==
  \A p \in Producers, n \in 1..MaxSends :
    <<p, n>> \in written => n <= sent[p] /\ (pc[p] = "claimed" => n < sent[p])

LEMMA NoValueIsNone == NoValue \notin Values
BY DEF NoValue, Values

LEMMA AppendRange ==
  ASSUME NEW S, NEW list \in Seq(S), NEW v \in S
  PROVE  /\ Range(Append(list, v)) = Range(list) \cup {v}
         /\ IsInjective(list) /\ v \notin Range(list) => IsInjective(Append(list, v))
<1>1. /\ DOMAIN list = 1..Len(list) /\ Len(list) \in Nat
      /\ DOMAIN Append(list, v) = 1..(Len(list) + 1)
      /\ \A i \in 1..Len(list) : Append(list, v)[i] = list[i]
      /\ Append(list, v)[Len(list) + 1] = v
  BY AppendProperties, LenProperties
<1>2. ASSUME NEW i \in 1..(Len(list) + 1) PROVE i \in 1..Len(list) \/ i = Len(list) + 1
  BY <1>1
<1>3. Range(Append(list, v)) = Range(list) \cup {v}
  BY <1>1, <1>2 DEF Range
<1>4. ASSUME IsInjective(list), v \notin Range(list) PROVE IsInjective(Append(list, v))
  BY <1>1, <1>2, <1>4 DEF Range, IsInjective
<1> QED  BY <1>3, <1>4

(* One slot is filled, or emptied.                                         *)
LEMMA StoredGrows ==
  ASSUME PcInv, NEW s \in Slots, data[s] = NoValue, NEW v \in Values,
         data' = [data EXCEPT ![s] = v]
  PROVE  Stored' = Stored \cup {v} /\ (v \notin Stored /\ OneSlotEach => OneSlotEach')
BY NoValueIsNone DEF PcInv, OneSlotEach, Stored, Range

LEMMA StoredShrinks ==
  ASSUME PcInv, OneSlotEach, NEW s \in Slots, data[s] # NoValue,
         data' = [data EXCEPT ![s] = NoValue]
  PROVE  Stored' = Stored \ {data[s]} /\ data[s] \in Stored /\ OneSlotEach'
BY DEF PcInv, OneSlotEach, Stored, Range

LEMMA InitValues == ASSUME Init PROVE OpenInv /\ OneSlotEach /\ SentInv /\ Conservation
<1>1. OpenInv /\ OneSlotEach /\ SentInv
  BY DEF Init, OpenInv, OneSlotEach, SentInv
<1>2. Range(data) \ {NoValue} = {} /\ Range(taken) = {} /\ IsInjective(taken)
  BY DEF Init, Range, IsInjective
<1> QED  BY <1>1, <1>2 DEF Init, Conservation

LEMMA ClaimedInWindow ==
  ASSUME IInv, NEW pos \in next..(tail - 1) PROVE pos \in Window /\ pos \in Nat
BY CapacityAssumption DEF IInv, CursorInv, Window

LEMMA OpenStep == ASSUME IInv, OpenInv, [Next]_vars PROVE OpenInv'
<1> USE DEF Goto, Owns
<1>1. CASE UNCHANGED <<seq, next, tail, pc, cur>>
  BY <1>1 DEF OpenInv
<1>2. ASSUME NEW p \in Producers,
             LoadTail(p) \/ LoadHead(p) \/ ClaimLost(p) \/ Write(p) \/ DropWritten(p)
      PROVE  OpenInv'
  <2>1. /\ UNCHANGED <<seq, next, tail>>
        /\ \A q \in Producers : Owns(q) => Owns(q)' /\ cur'[q] = cur[q]
    BY <1>2 DEF IInv, PcInv, LoadTail, LoadHead, ClaimLost, Write, DropWritten, consumerVars
  <2> QED  BY <2>1 DEF OpenInv
<1>3. ASSUME NEW p \in Producers, ClaimOk(p) PROVE OpenInv'
  <2>1. /\ UNCHANGED <<seq, next, cur>> /\ tail' = tail + 1 /\ tail \in Nat /\ next \in Nat
        /\ \A q \in Producers : Owns(q) => Owns(q)'
        /\ Owns(p)' /\ cur[p] = tail
    BY <1>3 DEF IInv, PcInv, CursorInv, ClaimOk, consumerVars
  <2> QED  BY <2>1 DEF OpenInv
<1>4. ASSUME NEW p \in Producers, Publish(p) \/ Abandon(p) PROVE OpenInv'
  <2>1. /\ UNCHANGED <<next, tail, cur>> /\ Owns(p)
        /\ \A q \in Producers : Owns(q) /\ q # p => Owns(q)'
    BY <1>4 DEF IInv, PcInv, Publish, Abandon, consumerVars
  <2>2. cur[p] \in Window /\ cur[p] \in Nat
    BY <2>1, OwnedPosition
  <2>3. \E word : seq' = [seq EXCEPT ![Slot(cur[p])] = word] /\ word # FreeAt(cur[p])
    BY <1>4, <2>2 DEF Publish, Abandon, FreeAt, PublishedAt, Tombstone
  <2>4. /\ \A pos \in Window : pos # cur[p] => seq'[Slot(pos)] = seq[Slot(pos)]
        /\ seq'[Slot(cur[p])] # FreeAt(cur[p])
    BY <2>2, <2>3, WindowInjective, WindowSlots DEF IInv, PcInv
  <2>5. ASSUME NEW pos \in next..(tail - 1), seq'[Slot(pos)] = FreeAt(pos)
        PROVE  \E q \in Producers : Owns(q)' /\ cur[q] = pos
    <3>1. pos \in Window
      BY ClaimedInWindow
    <3>2. pos # cur[p] /\ seq[Slot(pos)] = FreeAt(pos)
      BY <2>4, <2>5, <3>1
    <3> QED  BY <2>1, <3>2 DEF OpenInv
  <2> QED  BY <2>1, <2>5 DEF OpenInv
<1>5. CASE ReleaseSlot
  <2>1. /\ seq' = [seq EXCEPT ![Slot(next)] = FreeAt(next + Capacity)] /\ next' = next + 1
        /\ UNCHANGED <<tail, pc, cur>> /\ next \in Window /\ next \in Nat
    BY <1>5, CapacityAssumption DEF ReleaseSlot, producerVars, IInv, CursorInv, Window
  <2>2. \A pos \in Window : pos # next => seq'[Slot(pos)] = seq[Slot(pos)]
    BY <2>1, WindowInjective, WindowSlots DEF IInv, PcInv
  <2>3. ASSUME NEW pos \in (next + 1)..(tail - 1), seq'[Slot(pos)] = FreeAt(pos)
        PROVE  \E q \in Producers : Owns(q) /\ cur[q] = pos
    <3>1. pos \in next..(tail - 1) /\ pos # next
      BY <2>1 DEF IInv, CursorInv
    <3>2. seq[Slot(pos)] = FreeAt(pos)
      BY <2>2, <2>3, <3>1, ClaimedInWindow
    <3> QED  BY <3>1, <3>2 DEF OpenInv
  <2> QED  BY <2>1, <2>3 DEF OpenInv
<1> QED
  BY <1>1, <1>2, <1>3, <1>4, <1>5
     DEF Next, ProducerNext, ConsumerNext, Done, vars, producerVars, consumerVars, Clone,
         DropProducer, Classify, TakeValue, PublishHead, DropConsumer, ConsumerGone, DropRing

(* The steps that move a value.                                            *)
ValueSteps ==
  \/ \E p \in Producers : Write(p) \/ DropWritten(p)
  \/ TakeValue \/ DropRing

LEMMA QuietSteps ==
  ASSUME [Next]_vars
  PROVE  \/ ValueSteps
         \/ /\ UNCHANGED <<data, taken, dropped, written>>
            /\ consumer' = "destroyed" => consumer = "destroyed"
<1>1. ASSUME NEW p \in Producers, ProducerNext(p), ~Write(p), ~DropWritten(p)
      PROVE  UNCHANGED <<data, taken, dropped, written, consumer>>
  BY <1>1 DEF ProducerNext, consumerVars, LoadTail, LoadHead, ClaimOk, ClaimLost, Publish, Abandon,
              Clone, DropProducer
<1>2. ASSUME ConsumerNext, ~TakeValue, ~DropRing
      PROVE  /\ UNCHANGED <<data, taken, dropped, written>>
             /\ consumer' = "destroyed" => consumer = "destroyed"
  BY <1>2 DEF ConsumerNext, producerVars, consumerVars, Classify, ReleaseSlot, PublishHead,
              DropConsumer, ConsumerGone
<1> QED  BY <1>1, <1>2 DEF ValueSteps, Next, Done, vars

(* No claim is past the value it writes.                                   *)
LEMMA SentStep ==
  ASSUME IInv, SentInv, [Next]_vars,
         NEW q \in Producers, NEW n \in 1..MaxSends, <<q, n>> \in written'
  PROVE  n <= sent'[q] /\ (pc'[q] = "claimed" => n < sent'[q])
<1> USE MpscAssumption DEF Goto
<1>0. /\ sent \in [Producers -> 0..MaxSends] /\ pc \in [Producers -> ProducerSteps]
      /\ n \in Nat /\ sent[q] \in Nat
      /\ <<q, n>> \in written => n <= sent[q] /\ (pc[q] = "claimed" => n < sent[q])
  BY DEF IInv, PcInv, SentInv
<1>1. ASSUME NEW p \in Producers, ClaimOk(p) PROVE n <= sent'[q] /\ (pc'[q] = "claimed" => n < sent'[q])
  BY <1>0, <1>1 DEF ClaimOk
<1>2. ASSUME NEW p \in Producers, Write(p) PROVE n <= sent'[q] /\ (pc'[q] = "claimed" => n < sent'[q])
  <2>1. /\ UNCHANGED sent /\ written' = written \cup {<<p, sent[p]>>}
        /\ pc' = [pc EXCEPT ![p] = "written"]
    BY <1>2 DEF Write, Value
  <2>2. CASE <<q, n>> \in written
    BY <1>0, <2>1, <2>2
  <2>3. CASE q = p /\ n = sent[p]
    BY <1>0, <2>1, <2>3
  <2> QED  BY <2>1, <2>2, <2>3
<1>3. CASE /\ UNCHANGED <<sent, written>>
           /\ \A p \in Producers : pc'[p] = "claimed" => pc[p] = "claimed"
  BY <1>0, <1>3
<1>4. ASSUME NEW p \in Producers,
             \/ LoadTail(p) \/ LoadHead(p) \/ ClaimLost(p) \/ Publish(p) \/ DropWritten(p)
             \/ Abandon(p)
      PROVE  /\ UNCHANGED <<sent, written>>
             /\ \A r \in Producers : pc'[r] = "claimed" => pc[r] = "claimed"
  BY <1>0, <1>4 DEF LoadTail, LoadHead, ClaimLost, Publish, DropWritten, Abandon
<1> QED
  BY <1>1, <1>2, <1>3, <1>4
     DEF Next, ProducerNext, ConsumerNext, Done, vars, producerVars, consumerVars, Clone,
         DropProducer, Classify, TakeValue, ReleaseSlot, PublishHead, DropConsumer, ConsumerGone,
         DropRing

(* What is stored as the ring is freed is published between the cursors.   *)
LEMMA LeftInRing ==
  ASSUME IInv, OpenInv, consumer = "gone", live = {}, NEW s \in Slots, data[s] # NoValue
  PROVE  \E pos \in head..(tail - 1) : seq[Slot(pos)] = PublishedAt(pos) /\ Slot(pos) = s
<1>1. PICK pos \in Window : Slot(pos) = s
  BY SlotOnto DEF Window, IInv, CursorInv
<1>2. pos < tail /\ pos \in next..(tail - 1) /\ next = head
  BY <1>1 DEF IInv, FreeInv, CursorInv, Window, EndpointInv
<1>3. seq[Slot(pos)] # Tombstone /\ seq[Slot(pos)] \in {FreeAt(pos), PublishedAt(pos), Tombstone}
  BY <1>1, <1>2 DEF IInv, SettledInv
<1>4. seq[Slot(pos)] # FreeAt(pos)
  BY <1>2 DEF OpenInv, IInv, EndpointInv, Owns
<1> QED  BY <1>1, <1>2, <1>3, <1>4

(* Conservation, with a name for what is in the slots.                     *)
Accounted ==
  /\ written = Stored \cup Range(taken) \cup dropped
  /\ Stored \cap Range(taken) = {} /\ Stored \cap dropped = {} /\ Range(taken) \cap dropped = {}
  /\ IsInjective(taken)
  /\ consumer = "destroyed" => Stored = {}

LEMMA ConservationAccounted == Conservation <=> Accounted
BY DEF Conservation, Accounted, Stored

LEMMA AccountedStep ==
  ASSUME IInv, OpenInv, OneSlotEach, SentInv, Accounted, [Next]_vars
  PROVE  OneSlotEach' /\ Accounted'
<1>0. /\ PcInv /\ data \in [Slots -> Values \cup {NoValue}] /\ taken \in Seq(Values)
      /\ \A pos \in Window : Slot(pos) \in Slots
  BY WindowSlots DEF IInv, PcInv
<1>1. CASE /\ UNCHANGED <<data, taken, dropped, written>>
           /\ consumer' = "destroyed" => consumer = "destroyed"
  BY <1>1 DEF Accounted, OneSlotEach, Stored
<1>2. ASSUME NEW p \in Producers, Write(p) PROVE OneSlotEach' /\ Accounted'
  <2>1. /\ Slot(cur[p]) \in Slots /\ Value(p) \in Values /\ data[Slot(cur[p])] = NoValue
        /\ consumer # "destroyed"
    BY <1>0, <1>2, OwnedPosition DEF Write, Owns
  <2>2. Value(p) \notin written
    BY <1>2, <2>1 DEF Write, Value, Values, SentInv
  <2>3. /\ data' = [data EXCEPT ![Slot(cur[p])] = Value(p)]
        /\ written' = written \cup {Value(p)}
        /\ UNCHANGED <<taken, dropped, consumer>>
    BY <1>2 DEF Write, consumerVars
  <2>4. Stored' = Stored \cup {Value(p)} /\ (Value(p) \notin Stored => OneSlotEach')
    BY <1>0, <2>1, <2>3, StoredGrows
  <2> QED  BY <2>1, <2>2, <2>3, <2>4 DEF Accounted
<1>3. ASSUME NEW p \in Producers, DropWritten(p) PROVE OneSlotEach' /\ Accounted'
  <2> DEFINE v == data[Slot(cur[p])]
  <2>1. Slot(cur[p]) \in Slots /\ v \in Values /\ consumer # "destroyed"
    BY <1>0, <1>3, OwnedPosition DEF DropWritten, Owns
  <2>2. /\ data' = [data EXCEPT ![Slot(cur[p])] = NoValue] /\ dropped' = dropped \cup {v}
        /\ UNCHANGED <<taken, written, consumer>>
    BY <1>3 DEF DropWritten, consumerVars
  <2>3. Stored' = Stored \ {v} /\ v \in Stored /\ OneSlotEach'
    BY <1>0, <2>1, <2>2, NoValueIsNone, StoredShrinks
  <2> HIDE DEF v
  <2> QED  BY <2>1, <2>2, <2>3 DEF Accounted
<1>4. CASE TakeValue
  <2> DEFINE v == data[Slot(next)]
  <2>1. Slot(next) \in Slots /\ v \in Values /\ consumer # "destroyed"
    <3>1. next \in Window
      BY CapacityAssumption DEF IInv, CursorInv, Window
    <3> QED
      BY <1>0, <1>4, <3>1 DEF TakeValue, IInv, ConsumerInv, SettledInv, EndpointInv, CursorInv
  <2>2. /\ data' = [data EXCEPT ![Slot(next)] = NoValue] /\ UNCHANGED <<written, consumer>>
        /\ \/ taken' = Append(taken, v) /\ UNCHANGED dropped
           \/ dropped' = dropped \cup {v} /\ UNCHANGED taken
    BY <1>4 DEF TakeValue, producerVars
  <2>3. Stored' = Stored \ {v} /\ v \in Stored /\ OneSlotEach'
    BY <1>0, <2>1, <2>2, NoValueIsNone, StoredShrinks
  <2> HIDE DEF v
  <2>4. CASE taken' = Append(taken, v) /\ UNCHANGED dropped
    <3>1. Range(taken') = Range(taken) \cup {v}
      BY <1>0, <2>1, <2>4, AppendRange
    <3>2. IsInjective(taken')
      BY <1>0, <2>1, <2>3, <2>4, AppendRange DEF Accounted
    <3> QED  BY <2>1, <2>2, <2>3, <2>4, <3>1, <3>2 DEF Accounted
  <2>5. CASE dropped' = dropped \cup {v} /\ UNCHANGED taken
    BY <2>1, <2>2, <2>3, <2>5 DEF Accounted
  <2> QED  BY <2>2, <2>4, <2>5
<1>5. CASE DropRing
  <2> DEFINE left == {pos \in head..(tail - 1) : seq[Slot(pos)] = PublishedAt(pos)}
  <2>1. /\ data' = [s \in Slots |-> IF \E pos \in left : Slot(pos) = s THEN NoValue ELSE data[s]]
        /\ dropped' = dropped \cup {data[Slot(pos)] : pos \in left}
        /\ consumer = "gone" /\ live = {} /\ UNCHANGED <<taken, written>>
    BY <1>5 DEF DropRing, producerVars
  <2>2. \A s \in Slots : data'[s] = NoValue
    BY <2>1, LeftInRing
  <2>3. {data[Slot(pos)] : pos \in left} = Stored
    <3>1. ASSUME NEW pos \in left PROVE data[Slot(pos)] \in Stored
      <4>1. pos \in next..(tail - 1) /\ next = head /\ cpc = "poll"
        BY <2>1 DEF IInv, EndpointInv
      <4>2. data[Slot(pos)] \in Values /\ Slot(pos) \in Slots
        BY <1>0, <2>1, <4>1, ClaimedInWindow DEF IInv, SettledInv
      <4> QED  BY <1>0, <4>2, NoValueIsNone DEF Stored, Range
    <3>2. ASSUME NEW v \in Stored PROVE \E pos \in left : data[Slot(pos)] = v
      <4>1. PICK s \in Slots : data[s] = v /\ v # NoValue
        BY <1>0, <3>2 DEF Stored, Range
      <4> QED  BY <2>1, <4>1, LeftInRing
    <3> QED  BY <3>1, <3>2
  <2>4. Stored' = {}
    BY <2>1, <2>2 DEF Stored, Range
  <2> HIDE DEF left
  <2> QED  BY <2>1, <2>2, <2>3, <2>4 DEF Accounted, OneSlotEach
<1> QED  BY <1>1, <1>2, <1>3, <1>4, <1>5, QuietSteps DEF ValueSteps

ValueInv == OpenInv /\ OneSlotEach /\ SentInv /\ Conservation

LEMMA Invariant == Spec => [](IInv /\ ValueInv)
<1>1. Init => IInv /\ ValueInv
  BY InitIInv, InitValues DEF ValueInv
<1>2. IInv /\ ValueInv /\ [Next]_vars => IInv' /\ ValueInv'
  <2> SUFFICES ASSUME IInv, ValueInv, [Next]_vars PROVE IInv' /\ ValueInv'
    OBVIOUS
  <2>1. OneSlotEach' /\ Accounted'
    BY AccountedStep, ConservationAccounted DEF ValueInv
  <2>2. SentInv'
    BY SentStep DEF ValueInv, SentInv
  <2>3. Conservation'
    BY <2>1, ConservationAccounted, PTL
  <2> QED  BY <2>1, <2>2, <2>3, StepIInv, OpenStep DEF ValueInv
<1> QED  BY <1>1, <1>2, PTL DEF Spec

(* No value is lost, delivered twice or dropped twice, through tombstones, *)
(* batches and the drops of both sides and of the ring.                    *)
THEOREM ValuesAreConserved == Spec => []Conservation
<1>1. ValueInv => Conservation
  BY DEF ValueInv
<1> QED  BY <1>1, Invariant, PTL

-----------------------------------------------------------------------------
(* The ring implements the bounded queue of claims.                        *)

Open(p) == Abstract!Open(p)
Full(v) == Abstract!Full(v)
Void == Abstract!Void

CellSet == {Open(p) : p \in Producers} \cup {Full(v) : v \in Values} \cup {Void}

(* What a position stands for, by its word or its owner.                   *)
CellFacts ==
  \A pos \in next..(tail - 1) :
    /\ seq[Slot(pos)] = PublishedAt(pos) => Cell(pos) = Full(data[Slot(pos)])
    /\ seq[Slot(pos)] = Tombstone => Cell(pos) = Void
    /\ \A p \in Producers : Owns(p) /\ cur[p] = pos => Cell(pos) = Open(p)

LEMMA CellsByWord == IInv => CellFacts
<1> SUFFICES ASSUME IInv, NEW pos \in next..(tail - 1)
             PROVE  /\ seq[Slot(pos)] = PublishedAt(pos) => Cell(pos) = Full(data[Slot(pos)])
                    /\ seq[Slot(pos)] = Tombstone => Cell(pos) = Void
                    /\ \A p \in Producers : Owns(p) /\ cur[p] = pos => Cell(pos) = Open(p)
  BY DEF CellFacts
<1>1. PublishedAt(pos) # Tombstone /\ FreeAt(pos) # Tombstone /\ FreeAt(pos) # PublishedAt(pos)
  BY ClaimedInWindow DEF PublishedAt, Tombstone, FreeAt
<1>2. CASE seq[Slot(pos)] = PublishedAt(pos)
  <2>1. Cell(pos) = Full(data[Slot(pos)])
    BY <1>1, <1>2 DEF Cell, Full, Abstract!Full
  <2>2. \A p \in Producers : ~(Owns(p) /\ cur[p] = pos)
    BY <1>1, <1>2 DEF IInv, OwnedInv
  <2> QED  BY <1>1, <1>2, <2>1, <2>2
<1>3. CASE seq[Slot(pos)] = Tombstone
  <2>1. Cell(pos) = Void
    BY <1>1, <1>3 DEF Cell, Void, Abstract!Void
  <2>2. \A p \in Producers : ~(Owns(p) /\ cur[p] = pos)
    BY <1>1, <1>3 DEF IInv, OwnedInv
  <2> QED  BY <1>1, <1>3, <2>1, <2>2
<1>4. ASSUME NEW p \in Producers, Owns(p), cur[p] = pos PROVE Cell(pos) = Open(p)
  <2>1. seq[Slot(pos)] = FreeAt(pos) /\ \A q \in Producers : Owns(q) /\ cur[q] = pos => q = p
    BY <1>4 DEF IInv, OwnedInv
  <2>2. (CHOOSE q \in Producers : Owns(q) /\ cur[q] = pos) = p
    BY <1>4, <2>1
  <2> QED  BY <1>1, <2>1, <2>2 DEF Cell, Open, Abstract!Open
<1> QED  BY <1>2, <1>3, <1>4

LEMMA CellKinds ==
  ASSUME IInv, OpenInv, consumer # "destroyed", NEW pos \in Passed..(tail - 1)
  PROVE  /\ pos \in next..(tail - 1) /\ pos \in Window /\ pos \in Nat /\ Cell(pos) \in CellSet
         /\ \/ seq[Slot(pos)] = PublishedAt(pos) /\ data[Slot(pos)] \in Values
            \/ seq[Slot(pos)] = Tombstone
            \/ \E p \in Producers : Owns(p) /\ cur[p] = pos
<1>1. pos \in next..(tail - 1) /\ ~(pos = next /\ cpc = "release")
  BY DEF Passed, IInv, CursorInv
<1>2. \/ seq[Slot(pos)] = PublishedAt(pos) /\ data[Slot(pos)] \in Values
      \/ seq[Slot(pos)] = Tombstone
      \/ \E p \in Producers : Owns(p) /\ cur[p] = pos
  BY <1>1 DEF IInv, SettledInv, OpenInv
<1>3. Cell(pos) \in CellSet
  BY <1>1, <1>2, CellsByWord DEF CellFacts, CellSet
<1> QED  BY <1>1, <1>2, <1>3, ClaimedInWindow

LEMMA CellsType ==
  ASSUME IInv, OpenInv, consumer # "destroyed"
  PROVE  /\ Passed \in Nat /\ Passed <= tail /\ head <= Passed /\ tail - Passed \in Nat
         /\ Cells \in Seq(CellSet) /\ Len(Cells) = tail - Passed
         /\ \A i \in 1..(tail - Passed) : Cells[i] = Cell(Passed + i - 1)
         /\ DOMAIN Cells = 1..(tail - Passed)
<1>1. Passed \in Nat /\ Passed <= tail /\ head <= Passed /\ tail - Passed \in Nat
  BY DEF Passed, IInv, CursorInv, ConsumerInv
<1>2. Cells = [i \in 1..(tail - Passed) |-> Cell(Passed + i - 1)]
  BY DEF Cells
<1>3. \A i \in 1..(tail - Passed) : Cell(Passed + i - 1) \in CellSet
  <2>1. \A i \in 1..(tail - Passed) : Passed + i - 1 \in Passed..(tail - 1)
    BY <1>1 DEF IInv, CursorInv
  <2> QED  BY <2>1, CellKinds
<1>4. Cells \in [1..(tail - Passed) -> CellSet]
  BY <1>2, <1>3
<1>5. Cells \in Seq(CellSet)
  BY <1>1, <1>4, SeqDef
<1> QED  BY <1>1, <1>2, <1>4, <1>5, LenProperties

(* A position whose word and owner a step leaves alone.                    *)
LEMMA CellSame ==
  ASSUME IInv, IInv', OpenInv, consumer # "destroyed",
         NEW pos \in Passed..(tail - 1), pos \in next'..(tail' - 1),
         seq'[Slot(pos)] = seq[Slot(pos)],
         seq[Slot(pos)] = PublishedAt(pos) => data'[Slot(pos)] = data[Slot(pos)],
         \A q \in Producers : Owns(q) /\ cur[q] = pos => Owns(q)' /\ cur'[q] = pos
  PROVE  Cell(pos)' = Cell(pos)
<1>1. CellFacts /\ CellFacts'
  <2>1. IInv' => CellFacts'
    BY CellsByWord, PTL
  <2> QED  BY <2>1, CellsByWord
<1>2. pos \in next..(tail - 1)
  BY CellKinds
<1>3. CASE seq[Slot(pos)] = PublishedAt(pos)
  BY <1>1, <1>2, <1>3 DEF CellFacts, Full, Abstract!Full
<1>4. CASE seq[Slot(pos)] = Tombstone
  BY <1>1, <1>2, <1>4 DEF CellFacts, Void, Abstract!Void
<1>5. ASSUME NEW p \in Producers, Owns(p), cur[p] = pos PROVE Cell(pos)' = Cell(pos)
  BY <1>1, <1>2, <1>5 DEF CellFacts, Open, Abstract!Open
<1> QED  BY <1>3, <1>4, <1>5, CellKinds

(* The abstract queue, as the ring's positions.                            *)
CellsOk ==
  /\ Passed \in Nat /\ tail \in Nat /\ Passed <= tail /\ head \in Nat /\ head <= Passed
  /\ Cells \in Seq(CellSet) /\ Len(Cells) = tail - Passed
  /\ \A pos \in Passed..(tail - 1) :
       Cells[pos - Passed + 1] = Cell(pos) /\ Cell(pos) \in CellSet

Standing == IInv /\ OpenInv /\ consumer # "destroyed"

LEMMA CellsGood == Standing => CellsOk
<1> SUFFICES ASSUME IInv, OpenInv, consumer # "destroyed" PROVE CellsOk
  BY DEF Standing
<1>1. /\ Passed \in Nat /\ tail \in Nat /\ Passed <= tail /\ head \in Nat /\ head <= Passed
      /\ Cells \in Seq(CellSet) /\ Len(Cells) = tail - Passed
      /\ \A i \in 1..(tail - Passed) : Cells[i] = Cell(Passed + i - 1)
  BY CellsType DEF IInv, CursorInv
<1>2. ASSUME NEW pos \in Passed..(tail - 1) PROVE Cells[pos - Passed + 1] = Cell(pos)
  <2> DEFINE i == pos - Passed + 1
  <2>1. i \in 1..(tail - Passed) /\ Passed + i - 1 = pos
    BY <1>1
  <2> HIDE DEF i
  <2>2. Cells[i] = Cell(pos)
    BY <1>1, <2>1
  <2> QED  BY <2>2 DEF i
<1> QED  BY <1>1, <1>2, CellKinds DEF CellsOk

(* What a step leaves of a position.                                       *)
Kept(pos) ==
  /\ seq'[Slot(pos)] = seq[Slot(pos)]
  /\ seq[Slot(pos)] = PublishedAt(pos) => data'[Slot(pos)] = data[Slot(pos)]
  /\ \A q \in Producers : Owns(q) /\ cur[q] = pos => Owns(q)' /\ cur'[q] = pos

(* What every step below starts from.                                      *)
Alive == Standing /\ Standing'

LEMMA AliveCells == ASSUME Alive PROVE CellsOk /\ CellsOk'
<1>1. Standing' => CellsOk'
  BY CellsGood, PTL
<1> QED  BY <1>1, CellsGood DEF Alive

LEMMA WiderRange ==
  ASSUME NEW a \in Nat, NEW b \in Nat, NEW x,
         x \in a..(b - 1) \/ x \in (a + 1)..(b - 1)
  PROVE  x \in a..(b - 1)
OBVIOUS

LEMMA KeptCell ==
  ASSUME Alive, NEW pos \in Passed..(tail - 1), pos \in Passed'..(tail' - 1), Kept(pos)
  PROVE  Cell(pos)' = Cell(pos)
<1>1. next' \in Nat /\ tail' \in Nat /\ pos \in Int
  BY DEF Alive, Standing, IInv, CursorInv
<1>2. pos \in next'..(tail' - 1) \/ pos \in (next' + 1)..(tail' - 1)
  BY DEF Passed
<1>3. pos \in next'..(tail' - 1)
  BY <1>1, <1>2, WiderRange
<1> QED  BY <1>3, CellSame DEF Alive, Standing, Kept

LEMMA CellsSame ==
  ASSUME Alive, tail' = tail, Passed' = Passed, \A pos \in Passed..(tail - 1) : Kept(pos)
  PROVE  Cells' = Cells
<1>1. CellsOk /\ CellsOk'
  BY AliveCells
<1>2. /\ Cells \in Seq(CellSet) /\ Cells' \in Seq(CellSet) /\ Len(Cells) = Len(Cells')
      /\ Len(Cells) = tail - Passed /\ Passed \in Nat /\ tail \in Nat
  BY <1>1 DEF CellsOk
<1>3. ASSUME NEW i \in 1..Len(Cells) PROVE Cells[i] = Cells'[i]
  <2>1. PICK pos \in Passed..(tail - 1) : pos - Passed + 1 = i
    BY <1>2
  <2>2. Cells[i] = Cell(pos) /\ Cells'[i] = Cell(pos)'
    BY <1>1, <2>1 DEF CellsOk
  <2>3. Cell(pos)' = Cell(pos)
    BY <2>1, KeptCell
  <2> QED  BY <2>2, <2>3
<1> QED  BY <1>2, <1>3, SeqEqual

(* The consumer passes the front.                                          *)
LEMMA CellsShift ==
  ASSUME Alive, tail' = tail, Passed' = Passed + 1,
         \A pos \in (Passed + 1)..(tail - 1) : Kept(pos)
  PROVE  Cells # <<>> /\ Head(Cells) = Cell(Passed) /\ Cells' = Tail(Cells)
<1>1. CellsOk /\ CellsOk'
  BY AliveCells
<1>2. /\ Cells \in Seq(CellSet) /\ Cells' \in Seq(CellSet) /\ Len(Cells') = tail - (Passed + 1)
      /\ Len(Cells) = tail - Passed /\ Passed \in Nat /\ tail \in Nat /\ Passed + 1 <= tail
  BY <1>1 DEF CellsOk
<1>3. Cells # <<>>
  BY <1>2, EmptySeq
<1>4. /\ Tail(Cells) \in Seq(CellSet) /\ Len(Tail(Cells)) = Len(Cells) - 1
      /\ \A i \in 1..Len(Tail(Cells)) : Tail(Cells)[i] = Cells[i + 1]
  BY <1>2, <1>3, HeadTailProperties
<1>5. Head(Cells) = Cell(Passed)
  <2>1. Passed \in Passed..(tail - 1) /\ Passed - Passed + 1 = 1
    BY <1>2
  <2>2. Cells[1] = Cell(Passed)
    BY <1>1, <2>1 DEF CellsOk
  <2> QED  BY <2>2
<1>6. ASSUME NEW i \in 1..Len(Cells') PROVE Cells'[i] = Tail(Cells)[i]
  <2>0. PICK pos \in Nat : pos = Passed + i
    BY <1>2
  <2>1. /\ pos \in Passed..(tail - 1) /\ pos \in (Passed + 1)..(tail - 1)
        /\ pos - Passed + 1 = i + 1 /\ pos - (Passed + 1) + 1 = i
        /\ i \in 1..Len(Tail(Cells))
    BY <1>2, <1>4, <2>0
  <2>2. Cells[i + 1] = Cell(pos) /\ Cells'[i] = Cell(pos)'
    BY <1>1, <2>1 DEF CellsOk
  <2>3. Cell(pos)' = Cell(pos)
    BY <2>1, KeptCell
  <2> QED  BY <1>4, <2>1, <2>2, <2>3
<1>7. Len(Cells') = Len(Tail(Cells))
  BY <1>2, <1>4
<1> QED  BY <1>2, <1>3, <1>4, <1>5, <1>6, <1>7, SeqEqual

LEMMA AppendEqual ==
  ASSUME NEW S, NEW s \in Seq(S), NEW t \in Seq(S), NEW e \in S,
         Len(t) = Len(s) + 1, \A i \in 1..Len(s) : t[i] = s[i], t[Len(s) + 1] = e
  PROVE  t = Append(s, e)
<1> DEFINE u == Append(s, e)
<1>1. /\ u \in Seq(S) /\ Len(u) = Len(s) + 1 /\ u[Len(s) + 1] = e
      /\ \A i \in 1..Len(s) : u[i] = s[i]
  BY AppendProperties
<1> HIDE DEF u
<1>2. ASSUME NEW i \in 1..Len(t) PROVE t[i] = u[i]
  <2>1. i \in 1..Len(s) \/ i = Len(s) + 1
    BY LenProperties
  <2> QED  BY <1>1, <2>1
<1>3. t = u
  BY <1>1, <1>2, SeqEqual
<1> QED  BY <1>3 DEF u

(* A claim puts one more place at the back.                                *)
LEMMA CellsGrow ==
  ASSUME Alive, tail' = tail + 1, Passed' = Passed,
         \A pos \in Passed..(tail - 1) : Kept(pos)
  PROVE  \E pos \in Nat : pos = tail /\ Cells' = Append(Cells, Cell(pos)')
<1>1. CellsOk /\ CellsOk'
  BY AliveCells
<1>2. /\ Cells \in Seq(CellSet) /\ Cells' \in Seq(CellSet) /\ Len(Cells') = tail + 1 - Passed
      /\ Len(Cells) = tail - Passed /\ Passed \in Nat /\ tail \in Nat /\ Passed <= tail
  BY <1>1 DEF CellsOk
<1>3. PICK pos \in Passed'..(tail' - 1) : pos = tail /\ pos - Passed' + 1 = Len(Cells')
  <2>1. tail \in Passed'..(tail' - 1) /\ tail - Passed' + 1 = Len(Cells')
    BY <1>2
  <2> QED  BY <2>1
<1>4. Cells'[Len(Cells) + 1] = Cell(pos)' /\ Cell(pos)' \in CellSet
  BY <1>1, <1>2, <1>3 DEF CellsOk
<1>5. ASSUME NEW i \in 1..Len(Cells) PROVE Cells'[i] = Cells[i]
  <2>1. PICK old \in Passed..(tail - 1) : old - Passed + 1 = i /\ old \in Passed'..(tail' - 1)
    <3>1. /\ Passed + i - 1 \in Passed..(tail - 1) /\ (Passed + i - 1) - Passed + 1 = i
          /\ Passed + i - 1 \in Passed'..(tail' - 1)
      BY <1>2
    <3> QED  BY <3>1
  <2>2. Cells[i] = Cell(old) /\ Cells'[i] = Cell(old)'
    BY <1>1, <2>1 DEF CellsOk
  <2>3. Cell(old)' = Cell(old)
    BY <2>1, KeptCell
  <2> QED  BY <2>2, <2>3
<1>6. Cells' = Append(Cells, Cell(pos)')
  BY <1>2, <1>4, <1>5, AppendEqual
<1> QED  BY <1>2, <1>3, <1>6

(* A settlement changes the one place it settles.                          *)
LEMMA CellsSettle ==
  ASSUME Alive, tail' = tail, Passed' = Passed, NEW x \in Passed..(tail - 1),
         \A pos \in Passed..(tail - 1) : pos # x => Kept(pos)
  PROVE  \E i \in DOMAIN Cells :
           Cells[i] = Cell(x) /\ Cells' = [Cells EXCEPT ![i] = Cell(x)']
<1>1. CellsOk /\ CellsOk'
  BY AliveCells
<1>2. /\ Cells \in Seq(CellSet) /\ Cells' \in Seq(CellSet) /\ Len(Cells) = Len(Cells')
      /\ Len(Cells) = tail - Passed /\ Passed \in Nat /\ tail \in Nat
  BY <1>1 DEF CellsOk
<1>3. PICK i \in 1..Len(Cells) : i = x - Passed + 1
  BY <1>2
<1>4. Cells[i] = Cell(x) /\ Cells'[i] = Cell(x)' /\ Cell(x)' \in CellSet
  BY <1>1, <1>3 DEF CellsOk
<1>5. ASSUME NEW j \in 1..Len(Cells), j # i PROVE Cells'[j] = Cells[j]
  <2>1. PICK pos \in Passed..(tail - 1) : pos - Passed + 1 = j /\ pos # x
    BY <1>2, <1>3, <1>5
  <2>2. Cells[j] = Cell(pos) /\ Cells'[j] = Cell(pos)'
    BY <1>1, <2>1 DEF CellsOk
  <2>3. Cell(pos)' = Cell(pos)
    BY <2>1, KeptCell
  <2> QED  BY <2>2, <2>3
<1>6. Cells' = [Cells EXCEPT ![i] = Cell(x)']
  <2>1. PICK e \in CellSet : e = Cell(x)'
    BY <1>4
  <2>2. Cells' = [Cells EXCEPT ![i] = e]
    <3>1. /\ e \in CellSet /\ i \in 1..Len(Cells)
          /\ Cells \in Seq(CellSet) /\ Cells' \in Seq(CellSet) /\ Len(Cells') = Len(Cells)
          /\ Cells'[i] = e /\ \A j \in 1..Len(Cells) : j # i => Cells'[j] = Cells[j]
      BY <1>2, <1>3, <1>4, <1>5, <2>1
    <3> DEFINE u == [Cells EXCEPT ![i] = e]
    <3>2. /\ u \in Seq(CellSet) /\ Len(u) = Len(Cells)
          /\ \A j \in 1..Len(Cells) : u[j] = IF j = i THEN e ELSE Cells[j]
      BY <3>1, ExceptSeq
    <3> HIDE DEF u
    <3>3. Cells' = u
      BY <3>1, <3>2, SeqEqual
    <3> QED  BY <3>3 DEF u
  <2> QED  BY <2>1, <2>2
<1>7. i \in DOMAIN Cells
  BY <1>2, LenProperties
<1> QED  BY <1>4, <1>6, <1>7

(* The producer steps that claim and settle nothing.                       *)
Idling(p) ==
  \/ LoadTail(p) \/ LoadHead(p) \/ ClaimLost(p) \/ Write(p) \/ DropWritten(p)
  \/ Clone(p) \/ DropProducer(p)

LEMMA IdlingKeeps ==
  ASSUME IInv, NEW p \in Producers, Idling(p), NEW pos \in next..(tail - 1)
  PROVE  Kept(pos)
<1> USE DEF Goto
<1>1. CASE Write(p) \/ DropWritten(p)
  <2>1. /\ UNCHANGED <<seq, cur>> /\ \A q \in Producers : Owns(q) => Owns(q)'
        /\ Owns(p) /\ \E v : data' = [data EXCEPT ![Slot(cur[p])] = v]
    BY <1>1 DEF Write, DropWritten, Owns, IInv, PcInv
  <2>2. cur[p] \in Window /\ cur[p] \in Nat /\ seq[Slot(cur[p])] = FreeAt(cur[p])
    BY <2>1, OwnedPosition
  <2>3. FreeAt(cur[p]) # PublishedAt(cur[p])
    BY <2>2 DEF FreeAt, PublishedAt
  <2>4. pos # cur[p] => data'[Slot(pos)] = data[Slot(pos)]
    BY <2>1, <2>2, WindowInjective, ClaimedInWindow DEF IInv, PcInv
  <2> QED  BY <2>1, <2>2, <2>3, <2>4 DEF Kept
<1>2. CASE LoadTail(p) \/ LoadHead(p) \/ ClaimLost(p) \/ Clone(p) \/ DropProducer(p)
  <2>1. /\ UNCHANGED <<seq, data>>
        /\ \A q \in Producers : Owns(q) => Owns(q)' /\ cur'[q] = cur[q]
    BY <1>2 DEF LoadTail, LoadHead, ClaimLost, Clone, DropProducer, Owns, IInv, PcInv
  <2> QED  BY <2>1 DEF Kept
<1> QED  BY <1>1, <1>2 DEF Idling

LEMMA PassedClaims ==
  ASSUME IInv, NEW pos \in Passed..(tail - 1) PROVE pos \in next..(tail - 1)
BY DEF Passed, IInv, CursorInv

AbstractStep == [Abstract!Next]_(Abstract!absVars)

LEMMA IdlingStep ==
  ASSUME Alive, Conservation, NEW p \in Producers, Idling(p)
  PROVE  AbstractStep
<1>1. \A pos \in Passed..(tail - 1) : Kept(pos)
  BY IdlingKeeps, PassedClaims DEF Alive, Standing
<1>2. /\ UNCHANGED <<head, tail, cpc, next, consumer, taken>>
      /\ DropWritten(p) \/ UNCHANGED dropped
  BY DEF Idling, LoadTail, LoadHead, ClaimLost, Write, DropWritten, Clone, DropProducer,
         consumerVars
<1>3. Passed' = Passed
  BY <1>2 DEF Passed
<1>4. Cells' = Cells
  BY <1>1, <1>2, <1>3, CellsSame
<1>5. CASE UNCHANGED dropped
  BY <1>2, <1>3, <1>4, <1>5 DEF AbstractStep, Abstract!absVars
<1>6. CASE DropWritten(p)
  <2> DEFINE v == data[Slot(cur[p])]
  <2>1. Slot(cur[p]) \in Slots /\ v = Value(p) /\ v \in Values /\ data \in [Slots -> Values \cup {NoValue}]
    BY <1>6, OwnedPosition, WindowSlots DEF DropWritten, Owns, Alive, Standing, IInv, PcInv
  <2>2. v \notin dropped
    <3>1. v \in Stored
      BY <2>1, NoValueIsNone DEF Stored, Range
    <3> QED  BY <3>1, ConservationAccounted DEF Accounted
  <2>3. dropped' = dropped \cup {v}
    BY <1>6 DEF DropWritten
  <2> HIDE DEF v
  <2>4. Abstract!Discard(v)
    BY <1>2, <1>3, <1>4, <2>2, <2>3 DEF Abstract!Discard
  <2> QED  BY <2>1, <2>4 DEF AbstractStep, Abstract!Next
<1> QED  BY <1>2, <1>5, <1>6

LEMMA SettlingStep ==
  ASSUME Alive, NEW p \in Producers, Publish(p) \/ Abandon(p)
  PROVE  AbstractStep
<1> USE DEF Goto
<1>1. /\ Owns(p) /\ UNCHANGED <<head, tail, data, cur, cpc, next, consumer, taken, dropped>>
      /\ \A q \in Producers : q # p /\ Owns(q) => Owns(q)'
      /\ \E word : seq' = [seq EXCEPT ![Slot(cur[p])] = word]
  BY DEF Publish, Abandon, Owns, consumerVars, Alive, Standing, IInv, PcInv
<1>2. PICK x \in Window : x = cur[p] /\ x \in Nat
  BY <1>1, OwnedPosition DEF Alive, Standing
<1>3. /\ seq[Slot(x)] = FreeAt(x) /\ Slot(x) \in Slots /\ x \in next..(tail - 1)
      /\ seq \in [Slots -> {Tombstone} \cup Nat] /\ next \in Nat /\ tail \in Nat
      /\ FreeAt(x) # PublishedAt(x)
  BY <1>1, <1>2, OwnedPosition, WindowSlots
     DEF Alive, Standing, IInv, OwnedInv, PcInv, CursorInv, FreeAt, PublishedAt
<1>4. x \in Passed..(tail - 1) /\ Passed' = Passed
  <2>1. cpc = "release" => x # next
    BY <1>3 DEF Alive, Standing, IInv, ConsumerInv
  <2> QED  BY <1>1, <1>3, <2>1 DEF Passed
<1>5. ASSUME NEW pos \in Passed..(tail - 1), pos # x PROVE Kept(pos)
  <2>1. pos \in Window
    BY PassedClaims, ClaimedInWindow DEF Alive, Standing
  <2>2. Slot(pos) # Slot(x)
    BY <1>2, <1>5, <2>1, WindowInjective DEF Alive, Standing, IInv
  <2>3. seq'[Slot(pos)] = seq[Slot(pos)]
    BY <1>1, <1>2, <1>3, <2>1, <2>2, WindowSlots DEF Alive, Standing, IInv
  <2>4. \A q \in Producers : Owns(q) /\ cur[q] = pos => Owns(q)' /\ cur'[q] = pos
    BY <1>1, <1>2, <1>5
  <2> QED  BY <1>1, <2>3, <2>4 DEF Kept
<1>6. PICK i \in DOMAIN Cells : Cells[i] = Cell(x) /\ Cells' = [Cells EXCEPT ![i] = Cell(x)']
  BY <1>1, <1>4, <1>5, CellsSettle
<1>7. Cell(x) = Open(p)
  BY <1>1, <1>2, <1>3, CellsByWord DEF Alive, Standing, CellFacts
<1>8. CellFacts' /\ x \in next'..(tail' - 1)
  <2>1. IInv' => CellFacts'
    BY CellsByWord, PTL
  <2> QED  BY <1>1, <1>3, <2>1 DEF Alive, Standing
<1>9. CASE Publish(p)
  <2>1. seq'[Slot(x)] = PublishedAt(x)
    BY <1>2, <1>3, <1>9 DEF Publish
  <2>2. data'[Slot(x)] = Value(p) /\ Value(p) \in Values
    BY <1>1, <1>2, <1>9, OwnedPosition DEF Publish, Alive, Standing
  <2>3. Cell(x)' = Full(Value(p))
    BY <1>8, <2>1, <2>2 DEF CellFacts, Full, Abstract!Full
  <2>4. PICK v \in Values : v = Value(p)
    BY <2>2
  <2>5. Abstract!Fill(p, v)
    BY <1>1, <1>4, <1>6, <1>7, <2>3, <2>4
       DEF Abstract!Fill, Abstract!Settle, Open, Full
  <2> QED  BY <2>5 DEF AbstractStep, Abstract!Next
<1>10. CASE Abandon(p)
  <2>1. seq'[Slot(x)] = Tombstone
    BY <1>2, <1>3, <1>10 DEF Abandon
  <2>2. Cell(x)' = Void
    BY <1>8, <2>1 DEF CellFacts, Void, Abstract!Void
  <2>3. Abstract!Abandon(p)
    BY <1>1, <1>4, <1>6, <1>7, <2>2 DEF Abstract!Abandon, Abstract!Settle, Open, Void
  <2> QED  BY <2>3 DEF AbstractStep, Abstract!Next
<1> QED  BY <1>9, <1>10

LEMMA ClaimStep ==
  ASSUME Alive, NEW p \in Producers, ClaimOk(p)
  PROVE  AbstractStep
<1> USE DEF Goto
<1>1. /\ tail' = tail + 1 /\ UNCHANGED <<head, seq, data, cur, cpc, next, consumer, taken, dropped>>
      /\ ~Owns(p) /\ Owns(p)' /\ cur[p] = tail
      /\ \A q \in Producers : Owns(q) => Owns(q)'
  BY DEF ClaimOk, consumerVars, Owns, Alive, Standing, IInv, PcInv
<1>2. Passed' = Passed /\ CellsOk
  BY <1>1, AliveCells DEF Passed
<1>3. \A pos \in Passed..(tail - 1) : Kept(pos)
  BY <1>1 DEF Kept
<1>4. PICK x \in Nat : x = tail /\ Cells' = Append(Cells, Cell(x)')
  BY <1>1, <1>2, <1>3, CellsGrow
<1>5. Cell(x)' = Open(p)
  <2>1. IInv' => CellFacts'
    BY CellsByWord, PTL
  <2>2. x \in next'..(tail' - 1)
    BY <1>1, <1>4 DEF Alive, Standing, IInv, CursorInv
  <2>3. Owns(p)' /\ cur'[p] = x
    BY <1>1, <1>4
  <2> QED  BY <2>1, <2>2, <2>3 DEF Alive, Standing, CellFacts, Open, Abstract!Open
<1>6. \A i \in DOMAIN Cells : Cells[i] # Open(p)
  <2> SUFFICES ASSUME NEW i \in 1..Len(Cells) PROVE Cells[i] # Open(p)
    BY <1>2, LenProperties DEF CellsOk
  <2>1. PICK pos \in Passed..(tail - 1) : Cells[i] = Cell(pos)
    <3>1. PICK pos \in Nat : pos = Passed + i - 1
      BY <1>2 DEF CellsOk
    <3>2. pos \in Passed..(tail - 1) /\ pos - Passed + 1 = i
      BY <1>2, <3>1 DEF CellsOk
    <3> QED  BY <1>2, <3>2 DEF CellsOk
  <2>2. CellFacts /\ pos \in next..(tail - 1)
    BY CellsByWord, CellKinds DEF Alive, Standing
  <2>3. \/ Cell(pos) = Full(data[Slot(pos)]) \/ Cell(pos) = Void
        \/ \E q \in Producers : Owns(q) /\ Cell(pos) = Open(q)
    BY <2>2, CellKinds DEF Alive, Standing, CellFacts
  <2>4. Open(p).state = "open" /\ Open(p).by = p
    BY DEF Open, Abstract!Open
  <2>5. Full(data[Slot(pos)]).state = "full" /\ Void.state = "void"
    BY DEF Full, Void, Abstract!Full, Abstract!Void
  <2>6. \A q \in Producers : Open(q).by = q
    BY DEF Open, Abstract!Open
  <2> QED  BY <1>1, <2>1, <2>3, <2>4, <2>5, <2>6
<1>7. Len(Cells) + (Passed - head) < Capacity
  <2>1. tail < head + Capacity
    BY CapacityAssumption DEF ClaimOk, Alive, Standing, IInv, ClaimInv, CursorInv, PcInv, NoRoom
  <2> QED  BY <1>2, <2>1, CapacityAssumption DEF CellsOk
<1>8. Abstract!Claim(p)
  BY <1>1, <1>2, <1>4, <1>5, <1>6, <1>7 DEF Abstract!Claim, Open
<1> QED  BY <1>8 DEF AbstractStep, Abstract!Next

(* The consumer writes only the slot it stands on.                         *)
LEMMA ConsumerKeeps ==
  ASSUME IInv, TakeValue \/ ReleaseSlot, NEW pos \in (next + 1)..(tail - 1)
  PROVE  Kept(pos)
<1>1. /\ UNCHANGED <<pc, cur>> /\ next \in Window /\ next \in Nat /\ pos \in next..(tail - 1)
      /\ pos # next
      /\ \E word : seq' = [seq EXCEPT ![Slot(next)] = word] \/ seq' = seq
      /\ \E v : data' = [data EXCEPT ![Slot(next)] = v] \/ data' = data
  BY CapacityAssumption DEF TakeValue, ReleaseSlot, producerVars, IInv, CursorInv, Window
<1>2. Slot(pos) # Slot(next) /\ Slot(pos) \in Slots /\ Slot(next) \in Slots
  BY <1>1, ClaimedInWindow, WindowInjective, WindowSlots DEF IInv
<1>3. seq'[Slot(pos)] = seq[Slot(pos)] /\ data'[Slot(pos)] = data[Slot(pos)]
  BY <1>1, <1>2 DEF IInv, PcInv
<1> QED  BY <1>1, <1>3 DEF Kept, Owns

LEMMA TakeStep == ASSUME Alive, TakeValue PROVE AbstractStep
<1>1. /\ cpc = "ready" /\ cpc' = "release" /\ UNCHANGED <<head, tail, next, consumer>>
      /\ next \in Nat /\ next \in next..(tail - 1)
  BY DEF TakeValue, producerVars, Alive, Standing, IInv, ConsumerInv, CursorInv
<1>2. Passed = next /\ Passed' = Passed + 1
  BY <1>1 DEF Passed
<1>3. \A pos \in (Passed + 1)..(tail - 1) : Kept(pos)
  BY <1>2, ConsumerKeeps DEF Alive, Standing
<1>4. Cells # <<>> /\ Head(Cells) = Cell(Passed) /\ Cells' = Tail(Cells)
  BY <1>1, <1>2, <1>3, CellsShift
<1>5. PICK v : v = data[Slot(next)]
  OBVIOUS
<1>6. Head(Cells).state = "full" /\ Head(Cells).value = v
  <2>1. seq[Slot(next)] = PublishedAt(next)
    BY <1>1 DEF Alive, Standing, IInv, ConsumerInv
  <2>2. Cell(next) = Full(v)
    BY <1>1, <1>5, <2>1, CellsByWord DEF Alive, Standing, CellFacts
  <2> QED  BY <1>2, <1>4, <2>2 DEF Full, Abstract!Full
<1>7. \/ consumer = "live" /\ taken' = Append(taken, v) /\ UNCHANGED dropped
      \/ consumer # "live" /\ dropped' = dropped \cup {v} /\ UNCHANGED taken
  BY <1>5 DEF TakeValue
<1>8. Passed' - head' = Passed - head + 1
  BY <1>1, <1>2, AliveCells DEF CellsOk
<1>9. Abstract!Take
  BY <1>1, <1>4, <1>6, <1>7, <1>8 DEF Abstract!Take
<1> QED  BY <1>9 DEF AbstractStep, Abstract!Next

LEMMA ReleaseStep == ASSUME Alive, ReleaseSlot PROVE AbstractStep
<1>1. /\ cpc' = "poll" /\ next' = next + 1 /\ UNCHANGED <<head, tail, consumer, taken, dropped>>
      /\ next \in Nat /\ next \in next..(tail - 1)
  BY DEF ReleaseSlot, producerVars, Alive, Standing, IInv, ConsumerInv, CursorInv
<1>2. Passed' = next + 1
  BY <1>1 DEF Passed
<1>3. \A pos \in (next + 1)..(tail - 1) : Kept(pos)
  BY ConsumerKeeps DEF Alive, Standing
<1>4. CASE cpc = "release"
  <2>1. Passed = next + 1
    BY <1>4 DEF Passed
  <2>2. Cells' = Cells
    BY <1>1, <1>2, <1>3, <2>1, CellsSame
  <2> QED  BY <1>1, <1>2, <2>1, <2>2 DEF AbstractStep, Abstract!absVars
<1>5. CASE cpc = "void"
  <2>1. Passed = next
    BY <1>5 DEF Passed
  <2>2. Cells # <<>> /\ Head(Cells) = Cell(Passed) /\ Cells' = Tail(Cells)
    BY <1>1, <1>2, <1>3, <2>1, CellsShift
  <2>3. Cell(next) = Void
    BY <1>1, <1>5, CellsByWord DEF Alive, Standing, IInv, ConsumerInv, CellFacts
  <2>4. Passed' - head' = Passed - head + 1
    BY <1>1, <1>2, <2>1, AliveCells DEF CellsOk
  <2>5. Abstract!Skip
    BY <1>1, <2>1, <2>2, <2>3, <2>4 DEF Abstract!Skip, Void
  <2> QED  BY <2>5 DEF AbstractStep, Abstract!Next
<1> QED  BY <1>4, <1>5 DEF ReleaseSlot

(* The steps of the consumer that write no slot.                           *)
LEMMA ConsumerQuietStep ==
  ASSUME Alive, Classify \/ PublishHead \/ DropConsumer \/ ConsumerGone
  PROVE  AbstractStep
<1>1. /\ UNCHANGED <<tail, seq, data, pc, cur, next, taken, dropped>>
      /\ cpc = "poll" /\ cpc' # "release"
  BY DEF Classify, PublishHead, DropConsumer, ConsumerGone, producerVars, consumerVars
<1>2. Passed = next /\ Passed' = Passed
  BY <1>1 DEF Passed
<1>3. Cells' = Cells
  <2>1. \A pos \in Passed..(tail - 1) : Kept(pos)
    BY <1>1 DEF Kept, Owns
  <2> QED  BY <1>1, <1>2, <2>1, CellsSame
<1>4. CASE Classify \/ ConsumerGone
  <2>1. UNCHANGED head /\ (consumer' = "live") = (consumer = "live")
    BY <1>4 DEF Classify, ConsumerGone
  <2> QED  BY <1>1, <1>2, <1>3, <2>1 DEF AbstractStep, Abstract!absVars
<1>5. CASE PublishHead
  <2>1. UNCHANGED consumer /\ Passed' - head' = 0
    BY <1>2, <1>5 DEF PublishHead, consumerVars, Alive, Standing, IInv, CursorInv
  <2>2. Abstract!HandBack
    BY <1>1, <1>3, <2>1 DEF Abstract!HandBack
  <2> QED  BY <2>2 DEF AbstractStep, Abstract!Next
<1>6. CASE DropConsumer
  <2>1. UNCHANGED head /\ (consumer' = "live") = FALSE
    BY <1>6 DEF DropConsumer
  <2>2. Abstract!Retire
    BY <1>1, <1>2, <1>3, <2>1 DEF Abstract!Retire
  <2> QED  BY <2>2 DEF AbstractStep, Abstract!Next
<1> QED  BY <1>4, <1>5, <1>6

(* Once the ring is freed nothing moves.                                   *)
LEMMA DestroyedRests ==
  ASSUME IInv, consumer = "destroyed", [Next]_vars PROVE UNCHANGED vars
<1>1. /\ live = {} /\ cpc = "poll" /\ head = next
      /\ \A p \in Producers : pc[p] = "idle"
  BY DEF IInv, EndpointInv
<1>2. ASSUME NEW p \in Producers, ProducerNext(p) PROVE FALSE
  BY <1>1, <1>2 DEF ProducerNext, LoadTail, LoadHead, ClaimOk, ClaimLost, Write, Publish,
     DropWritten, Abandon, Clone, DropProducer
<1>3. ~ConsumerNext
  BY <1>1 DEF ConsumerNext, Classify, TakeValue, ReleaseSlot, PublishHead, DropConsumer,
     ConsumerGone, DropRing
<1> QED  BY <1>2, <1>3 DEF Next, Done

LEMMA DestroyStep == ASSUME Standing, DropRing PROVE AbstractStep
<1> DEFINE left == {pos \in head..(tail - 1) : seq[Slot(pos)] = PublishedAt(pos)}
<1>1. /\ consumer = "gone" /\ consumer' = "destroyed" /\ live = {}
      /\ UNCHANGED <<head, cpc, next, taken>>
      /\ dropped' = dropped \cup {data[Slot(pos)] : pos \in left}
  BY DEF DropRing, producerVars
<1>2. cpc = "poll" /\ head = next /\ Passed = next /\ Passed' = Passed
  BY <1>1 DEF Standing, IInv, EndpointInv, Passed
<1>3. CellsOk /\ CellFacts
  BY CellsGood, CellsByWord DEF Standing
<1>4. ASSUME NEW i \in DOMAIN Cells
      PROVE  \E pos \in head..(tail - 1) :
               /\ Cells[i] = Cell(pos) /\ i = pos - Passed + 1
               /\ \/ pos \in left /\ Cells[i].state = "full" /\ Cells[i].value = data[Slot(pos)]
                  \/ pos \notin left /\ Cells[i].state = "void"
  <2>1. PICK pos \in Nat : pos = Passed + i - 1 /\ pos \in Passed..(tail - 1)
    <3>1. i \in 1..(tail - Passed) /\ Passed \in Nat /\ tail \in Nat
      BY <1>3, LenProperties DEF CellsOk
    <3>2. Passed + i - 1 \in Nat /\ Passed + i - 1 \in Passed..(tail - 1)
      BY <3>1
    <3> QED  BY <3>2
  <2>2. pos - Passed + 1 = i
    <3>1. i \in Nat /\ Passed \in Nat
      BY <1>3, LenProperties DEF CellsOk
    <3> QED  BY <2>1, <3>1
  <2>3. Cells[i] = Cell(pos)
    BY <1>3, <2>1, <2>2 DEF CellsOk
  <2>4. \A p \in Producers : ~Owns(p)
    BY <1>1 DEF Standing, IInv, EndpointInv, Owns
  <2>5. /\ pos \in next..(tail - 1)
        /\ seq[Slot(pos)] = PublishedAt(pos) \/ seq[Slot(pos)] = Tombstone
        /\ Tombstone # PublishedAt(pos)
    BY <1>2, <2>1, <2>4, CellKinds DEF Standing, Tombstone, PublishedAt
  <2>6. CASE seq[Slot(pos)] = PublishedAt(pos)
    <3>1. Cell(pos) = Full(data[Slot(pos)])
      BY <1>3, <2>5, <2>6 DEF CellFacts
    <3> QED  BY <1>2, <2>2, <2>3, <2>5, <2>6, <3>1 DEF Full, Abstract!Full
  <2>7. CASE seq[Slot(pos)] = Tombstone
    <3>1. Cell(pos) = Void
      BY <1>3, <2>5, <2>7 DEF CellFacts
    <3> QED  BY <1>2, <2>2, <2>3, <2>5, <2>7, <3>1 DEF Void, Abstract!Void
  <2> QED  BY <2>5, <2>6, <2>7
<1>5. ASSUME NEW pos \in left PROVE \E i \in DOMAIN Cells : Cells[i] = Full(data[Slot(pos)])
  <2>1. PICK i \in 1..Len(Cells) : i = pos - Passed + 1
    BY <1>2, <1>3 DEF CellsOk
  <2>2. Cells[i] = Cell(pos) /\ Cell(pos) = Full(data[Slot(pos)])
    BY <1>2, <1>3, <2>1 DEF CellsOk, CellFacts
  <2>3. i \in DOMAIN Cells
    BY <1>3, LenProperties DEF CellsOk
  <2> QED  BY <2>2, <2>3
<1>6. \A i \in DOMAIN Cells : Cells[i].state # "open"
  BY <1>4
<1>7. {data[Slot(pos)] : pos \in left}
        = {Cells[i].value : i \in {j \in DOMAIN Cells : Cells[j].state = "full"}}
  <2> DEFINE values == {Cells[i].value : i \in {j \in DOMAIN Cells : Cells[j].state = "full"}}
  <2>1. ASSUME NEW pos \in left PROVE data[Slot(pos)] \in values
    BY <1>5 DEF Full, Abstract!Full
  <2>2. ASSUME NEW i \in DOMAIN Cells, Cells[i].state = "full"
        PROVE  \E pos \in left : Cells[i].value = data[Slot(pos)]
    BY <1>4, <2>2
  <2> QED  BY <2>1, <2>2
<1>8. Cells' = <<>>
  BY <1>1 DEF Cells
<1> HIDE DEF left
<1>9. Abstract!Destroy
  BY <1>1, <1>2, <1>6, <1>7, <1>8 DEF Abstract!Destroy
<1> QED  BY <1>9 DEF AbstractStep, Abstract!Next

LEMMA Refines ==
  ASSUME IInv, ValueInv, IInv', ValueInv', [Next]_vars
  PROVE  AbstractStep
<1>1. CASE UNCHANGED vars
  <2>1. UNCHANGED <<Passed, Cells>>
    BY <1>1 DEF vars, Passed, Cells, Cell, Owns
  <2> QED  BY <1>1, <2>1 DEF vars, AbstractStep, Abstract!absVars
<1>2. CASE consumer = "destroyed"
  BY <1>1, <1>2, DestroyedRests
<1>3. CASE Next /\ consumer # "destroyed"
  <2>1. Standing /\ Conservation
    BY <1>3 DEF Standing, ValueInv
  <2>2. CASE DropRing
    BY <2>1, <2>2, DestroyStep
  <2>3. ASSUME ~DropRing, ~UNCHANGED vars PROVE AbstractStep
    <3>1. consumer' # "destroyed"
      BY <1>3, <2>3 DEF Next, ProducerNext, ConsumerNext, Done, consumerVars, LoadTail, LoadHead,
         ClaimOk, ClaimLost, Write, Publish, DropWritten, Abandon, Clone, DropProducer, Classify,
         TakeValue, ReleaseSlot, PublishHead, DropConsumer, ConsumerGone
    <3>2. Alive
      BY <2>1, <3>1 DEF Alive, Standing, ValueInv
    <3>3. ASSUME NEW p \in Producers, ProducerNext(p) PROVE AbstractStep
      BY <2>1, <3>2, <3>3, IdlingStep, SettlingStep, ClaimStep DEF ProducerNext, Idling
    <3>4. ASSUME ConsumerNext PROVE AbstractStep
      BY <2>3, <3>2, <3>4, TakeStep, ReleaseStep, ConsumerQuietStep DEF ConsumerNext
    <3> QED  BY <1>3, <2>3, <3>3, <3>4 DEF Next, Done
  <2> QED  BY <1>1, <2>2, <2>3
<1> QED  BY <1>1, <1>2, <1>3

LEMMA InitRefines == ASSUME Init PROVE Abstract!Init
<1>1. Passed = 0 /\ head = 0 /\ tail = 0 /\ consumer = "live" /\ taken = <<>> /\ dropped = {}
  BY DEF Init, Passed
<1>2. Cells = <<>>
  BY <1>1 DEF Cells
<1> QED  BY <1>1, <1>2 DEF Abstract!Init

(* Seen from outside, the ring is a bounded queue of claims: the consumer  *)
(* meets the claims in their order, whatever order they are settled in,    *)
(* and a batch hands several places back at once (the contract of the      *)
(* mpsc module, in mpsc/producer.rs and mpsc/consumer.rs).                 *)
THEOREM ImplementsClaimQueue == Spec => ClaimQueueSpec
<1>1. Init => Abstract!Init
  BY InitRefines
<1>2. IInv /\ ValueInv /\ IInv' /\ ValueInv' /\ [Next]_vars
        => [Abstract!Next]_(Abstract!absVars)
  BY Refines DEF AbstractStep
<1> QED  BY <1>1, <1>2, Invariant, PTL DEF Spec, ClaimQueueSpec, Abstract!Spec
=============================================================================
