----------------------------- MODULE MpmcProofs -----------------------------
(***************************************************************************)
(* The mpmc ring for every capacity, batch size, flush interval, number of *)
(* producers and number of consumers.                                      *)
(*                                                                         *)
(* A slot rests, is full or is leased to a reader, and its two words say   *)
(* which.  A position of which somebody is the owner is free only in a     *)
(* resting slot, so what its owner once found free stays free; what a      *)
(* decisive lap of the scanner has examined is not published, unless       *)
(* something is about to stir the scanner.                                 *)
(***************************************************************************)
EXTENDS Mpmc, FiniteSetTheorems, WellFoundedInduction, TLAPS

-----------------------------------------------------------------------------
(* The slot map.                                                           *)

(* The slot of a position (Capacity::index_of).                            *)
LEMMA SlotType == ASSUME NEW a \in Nat PROVE Slot(a) \in Slots
BY CapacityAssumption DEF Slot, Slots

(* A position is some laps and its slot.                                   *)
LEMMA SlotDivision ==
  ASSUME NEW a \in Nat
  PROVE  /\ a = Capacity * (a \div Capacity) + Slot(a)
         /\ a \div Capacity \in Nat /\ Slot(a) \in Nat /\ Slot(a) < Capacity
BY CapacityAssumption DEF Slot

LEMMA Multiples ==
  ASSUME NEW q \in Int, NEW r \in Int, q < r
  PROVE  Capacity * q + Capacity <= Capacity * r
<1>1. Capacity * (q + 1) <= Capacity * r
  BY CapacityAssumption
<1>2. Capacity * (q + 1) = Capacity * q + Capacity
  BY CapacityAssumption
<1> QED  BY <1>1, <1>2

LEMMA SlotInjective ==
  ASSUME NEW a \in Nat, NEW b \in Nat, a < b, b < a + Capacity
  PROVE  Slot(a) # Slot(b)
<1> SUFFICES ASSUME Slot(a) = Slot(b) PROVE FALSE
  OBVIOUS
<1> DEFINE q == a \div Capacity
           r == b \div Capacity
<1>1. a = Capacity * q + Slot(a) /\ q \in Nat /\ Slot(a) \in Nat
  BY SlotDivision
<1>2. b = Capacity * r + Slot(a) /\ r \in Nat
  BY SlotDivision
<1> HIDE DEF q, r
<1>3. Capacity * q \in Int /\ Capacity * r \in Int
  BY <1>1, <1>2, CapacityAssumption
<1>4. CASE r < q
  BY <1>1, <1>2, <1>3, <1>4, Multiples, CapacityAssumption
<1>5. CASE r = q
  BY <1>1, <1>2, <1>5
<1>6. CASE q < r
  BY <1>1, <1>2, <1>3, <1>6, Multiples, CapacityAssumption
<1> QED  BY <1>1, <1>2, <1>4, <1>5, <1>6

(* What is left of a position beyond whole laps is its slot.               *)
LEMMA SlotUnique ==
  ASSUME NEW a \in Nat, NEW q \in Nat, NEW s \in Slots, a = Capacity * q + s
  PROVE  Slot(a) = s
<1> DEFINE r == a \div Capacity
<1>1. a = Capacity * r + Slot(a) /\ r \in Nat /\ Slot(a) \in Nat /\ Slot(a) < Capacity
  BY SlotDivision
<1>2. s \in Nat /\ s < Capacity
  BY CapacityAssumption DEF Slots
<1> HIDE DEF r
<1>3. Capacity * q \in Int /\ Capacity * r \in Int
  BY <1>1, CapacityAssumption
<1>4. CASE q < r
  BY <1>1, <1>2, <1>3, <1>4, Multiples, CapacityAssumption
<1>5. CASE r < q
  BY <1>1, <1>2, <1>3, <1>5, Multiples, CapacityAssumption
<1>6. CASE q = r
  BY <1>1, <1>2, <1>3, <1>6
<1> QED  BY <1>1, <1>4, <1>5, <1>6

(* A position returns to the slot it had one lap ago.                      *)
LEMMA SlotLap == ASSUME NEW a \in Nat PROVE Slot(a + Capacity) = Slot(a)
<1> DEFINE q == a \div Capacity
<1>1. a = Capacity * q + Slot(a) /\ q \in Nat /\ Slot(a) \in Nat
  BY SlotDivision
<1> HIDE DEF q
<1>2. Capacity * (q + 1) = Capacity * q + Capacity /\ Capacity * q \in Nat
  BY <1>1, CapacityAssumption
<1>3. a + Capacity = Capacity * (q + 1) + Slot(a) /\ a + Capacity \in Nat /\ q + 1 \in Nat
  BY <1>1, <1>2, CapacityAssumption
<1> QED  BY <1>3, SlotType, SlotUnique

LEMMA SlotOnto ==
  ASSUME NEW a \in Nat, NEW s \in Slots
  PROVE  \E pos \in a..(a + Capacity - 1) : Slot(pos) = s
<1> DEFINE q == a \div Capacity
<1>1. a = Capacity * q + Slot(a) /\ q \in Nat /\ Slot(a) \in Nat /\ Slot(a) < Capacity
  BY SlotDivision
<1>2. s \in Nat /\ s < Capacity
  BY CapacityAssumption DEF Slots
<1> HIDE DEF q
<1>3. Capacity * q \in Nat /\ Capacity * (q + 1) = Capacity * q + Capacity
  BY <1>1, CapacityAssumption
<1>4. CASE Slot(a) <= s
  <2> DEFINE pos == Capacity * q + s
  <2>1. pos \in a..(a + Capacity - 1) /\ pos \in Nat
    BY <1>1, <1>2, <1>3, <1>4, CapacityAssumption
  <2>2. Slot(pos) = s
    BY <1>1, <2>1, SlotUnique
  <2> QED  BY <2>1, <2>2
<1>5. CASE s < Slot(a)
  <2> DEFINE pos == Capacity * (q + 1) + s
  <2>1. pos \in a..(a + Capacity - 1) /\ pos \in Nat
    BY <1>1, <1>2, <1>3, <1>5, CapacityAssumption
  <2>2. q + 1 \in Nat
    BY <1>1
  <2>3. Slot(pos) = s
    BY <2>1, <2>2, SlotUnique
  <2> QED  BY <2>1, <2>3
<1> QED  BY <1>1, <1>2, <1>4, <1>5

-----------------------------------------------------------------------------
(* Everything below the floor has been examined; the floor has moved with  *)
(* the first examination, and with every one since the probes were spent.  *)
LapInv ==
  /\ LapTypeOK
  /\ floor >= start /\ floor <= End
  /\ \A pos \in start..(floor - 1) : pos \in examined
  /\ spent = 0 => floor = start /\ position = start
  /\ spent > 0 => floor > start
  /\ spent >= ProbeLimit => position = floor /\ spent < ProbeLimit + (floor - start)

ProducerSteps == {"idle", "open?", "estimate", "fallback", "take", "acquire", "look", "acquired",
                  "wake", "closed?", "arm", "park", "quit", "route", "close"}
ConsumerSteps == {"idle", "scan", "cas", "take", "route", "none", "closed?", "arm", "park",
                  "disarm", "flush", "gone"}

StepInv ==
  /\ pc \in [Producers -> ProducerSteps] /\ cpc \in [Consumers -> ConsumerSteps]
  /\ batch \in [Producers -> SUBSET Nat] /\ look \in [Producers -> SUBSET Nat]
  /\ awaited \in [Producers -> SUBSET Nat]

(* What a producer has in hand at each step.                               *)
HandInv ==
  \A p \in Producers :
    /\ cur[p] # None <=> pc[p] \in {"acquired", "route"}
    /\ cur[p] < claim
    /\ pc[p] = "acquired" => IsFreeFor(cur[p]) /\ cur[p] \notin batch[p]
    /\ look[p] # {} <=> pc[p] = "look"

Owns(p, pos) == pos \in batch[p] \/ (pc[p] = "acquired" /\ pos = cur[p])

(* A position is reserved once.                                            *)
ApartInv ==
  \A p, q \in Producers : p # q => \A pos \in 0..(claim - 1) : ~(Owns(p, pos) /\ Owns(q, pos))

(* The three states of a slot, by its words.                               *)
Resting(s) == ready[s] = done[s] - Capacity + 2 /\ cell[s] = None
Full(s) == ready[s] = done[s] + 1 /\ cell[s] = done[s]
Leased(s) == ready[s] = done[s] + 2 /\ cell[s] = done[s]

Spent(pos) == pos < claim /\ \A p \in Producers : ~Owns(p, pos)

SlotOk(s) ==
  /\ done[s] >= Capacity /\ Slot(done[s]) = s
  /\ Resting(s) \/ ((Full(s) \/ Leased(s)) /\ Spent(done[s]))

SlotInv == \A s \in Slots : SlotOk(s)

ReadInv ==
  /\ \A c \in Consumers :
       Reading(c) =>
         /\ at[c] \in Nat /\ done[Slot(at[c])] = at[c]
         /\ ready[Slot(at[c])] = at[c] + 2 /\ cell[Slot(at[c])] = at[c]
  /\ \A c, d \in Consumers : Reading(c) /\ Reading(d) /\ at[c] = at[d] => c = d

(* Nobody is left to publish once the ring is closed.                      *)
ClosedInv ==
  /\ closed => live = {}
  /\ \A p \in Producers :
       /\ pc[p] = "idle" => phase[p] = "first"
       /\ pc[p] = "close" => live = {}
       /\ p \notin live => pc[p] \in {"idle", "close", "wake"} /\ phase[p] = "first"

(* The last attempt of reserve_block has a free position to find.          *)
SecondOk(p) ==
  phase[p] = "last" =>
    /\ pc[p] \in {"acquire", "look", "acquired", "quit", "wake"}
    /\ pc[p] \in {"acquire", "quit"} => \E pos \in batch[p] : IsFreeFor(pos)
    /\ pc[p] = "look" => \E pos \in look[p] : IsFreeFor(pos)

SecondInv == \A p \in Producers : SecondOk(p)

(* Something will make the parked scanner look again.                      *)
Stirred == ctoken \/ \E p \in Producers : pc[p] = "wake"

Looking == cpc[Scanner] \in {"scan", "cas"}

(* The attempts whose failure the scanner acts upon.                       *)
Decisive == attempt = "last" \/ (attempt = "again" /\ ~Stirred)

ScanInv ==
  /\ cpc[Scanner] = "cas" => at[Scanner] \in Nat /\ Slot(at[Scanner]) = Slot(position)
  /\ Looking /\ Decisive => \A pos \in examined : ~Published(Slot(pos))
  /\ cpc[Scanner] = "cas" /\ Decisive /\ Published(Slot(position)) =>
       ready[Slot(position)] = at[Scanner] + 1

AttemptInv ==
  /\ cpc[Scanner] \in {"idle", "arm", "disarm"} => attempt = "first"
  /\ cpc[Scanner] = "closed?" => attempt # "last"
  /\ cpc[Scanner] = "park" => attempt = "again"
  /\ attempt = "last" => closed
  /\ attempt = "again" /\ (Looking \/ cpc[Scanner] \in {"closed?", "park"}) => armed \/ ctoken

DoneInv ==
  /\ cpc[Scanner] \in {"closed?", "park"} /\ Decisive => \A s \in Slots : ~Published(s)
  /\ cpc[Scanner] = "park" /\ closed => Stirred
  /\ cpc[Scanner] = "none" => closed /\ \A s \in Slots : ~Published(s)

-----------------------------------------------------------------------------
Below == {ss \in Nat \X Nat : ss[1] < ss[2]}

LEMMA BelowIsWellFounded == IsWellFoundedOn(Below, Nat)
BY NatLessThanWellFounded DEF OpToRel, Below

(* The least position of a batch.                                          *)
LEMMA MinFact ==
  ASSUME NEW S, S \subseteq Nat, S # {}
  PROVE  Min(S) \in S /\ \A y \in S : Min(S) <= y
<1>1. \E x \in S : \A y \in S : ~(<<y, x>> \in Below)
  BY BelowIsWellFounded, WFMin
<1>2. \A x, y \in Nat : y < x => <<y, x>> \in Below
  <2> SUFFICES ASSUME NEW x \in Nat, NEW y \in Nat, y < x PROVE <<y, x>> \in Below
    OBVIOUS
  <2>1. <<y, x>> \in Nat \X Nat /\ <<y, x>>[1] = y /\ <<y, x>>[2] = x
    OBVIOUS
  <2> QED  BY <2>1 DEF Below
<1>3. PICK x \in S : \A y \in S : <<y, x>> \notin Below
  BY <1>1
<1>4. \A y \in S : x =< y
  <2> SUFFICES ASSUME NEW y \in S, ~(x =< y) PROVE FALSE
    OBVIOUS
  <2>1. x \in Nat /\ y \in Nat /\ y < x
    OBVIOUS
  <2> QED  BY <2>1, <1>2, <1>3
<1> QED  BY <1>4 DEF Min

(* A ready word counts from its position: the low part is the state.       *)
LEMMA Decoding ==
  ASSUME NEW d \in Nat, NEW i \in 0..(Capacity - 1)
  PROVE  (d + i - Slot(d)) % Capacity = i
<1> DEFINE q == d \div Capacity
           a == Capacity * q + i
<1>1. d = Capacity * q + Slot(d) /\ q \in Nat /\ Slot(d) \in Nat
  BY SlotDivision
<1> HIDE DEF q
<1>2. Capacity * q \in Nat
  BY <1>1, CapacityAssumption
<1>3. a \in Nat /\ i \in Slots /\ d + i - Slot(d) = a
  BY <1>1, <1>2, CapacityAssumption DEF Slots
<1>4. Slot(a) = i
  BY <1>1, <1>3, SlotUnique
<1> QED  BY <1>3, <1>4 DEF Slot

(* The words of slot s say which of the three it is.                       *)
LEMMA Words ==
  ASSUME TypeOK, SlotInv, NEW s \in Slots
  PROVE  /\ done[s] \in Nat /\ ready[s] \in Nat
         /\ Resting(s) => StateOf(s) = 2 /\ RoundPos(s) = done[s] - Capacity
         /\ Full(s) => StateOf(s) = 1 /\ RoundPos(s) = done[s]
         /\ Leased(s) => StateOf(s) = 2 /\ RoundPos(s) = done[s]
         /\ Published(s) <=> Full(s)
         /\ ~(Full(s) /\ Leased(s)) /\ ~(Full(s) /\ Resting(s)) /\ ~(Leased(s) /\ Resting(s))
<1>1. /\ done[s] \in Nat /\ ready[s] \in Nat /\ done[s] >= Capacity /\ Slot(done[s]) = s
      /\ Resting(s) \/ Full(s) \/ Leased(s)
  BY DEF TypeOK, SlotInv, SlotOk
<1>2. Capacity \in Nat /\ Capacity >= 4 /\ s \in Nat
  BY CapacityAssumption, MpmcAssumption DEF Slots
<1>3. PICK d \in Nat : d = done[s]
  BY <1>1
<1>4. PICK b \in Nat : b = d - Capacity
  BY <1>1, <1>2, <1>3
<1>5. Slot(d) = s /\ Slot(b) = s
  BY <1>1, <1>2, <1>3, <1>4, SlotLap
<1>6. (d + 1 - s) % Capacity = 1 /\ (d + 2 - s) % Capacity = 2 /\ (b + 2 - s) % Capacity = 2
  <2>1. 1 \in 0..(Capacity - 1) /\ 2 \in 0..(Capacity - 1)
    BY <1>2
  <2>2. /\ (d + 1 - Slot(d)) % Capacity = 1
        /\ (d + 2 - Slot(d)) % Capacity = 2
        /\ (b + 2 - Slot(b)) % Capacity = 2
    BY <2>1, Decoding, Zenon
  <2> QED  BY <2>2, <1>5, Zenon
<1>7. Resting(s) => StateOf(s) = 2 /\ RoundPos(s) = done[s] - Capacity
  <2> SUFFICES ASSUME Resting(s) PROVE StateOf(s) = 2 /\ RoundPos(s) = done[s] - Capacity
    OBVIOUS
  <2>1. ready[s] = b + 2
    BY <1>2, <1>3, <1>4 DEF Resting
  <2>2. StateOf(s) = 2
    BY <1>2, <1>6, <2>1 DEF StateOf
  <2> QED  BY <1>2, <1>3, <1>4, <2>1, <2>2 DEF RoundPos
<1>8. Full(s) => StateOf(s) = 1 /\ RoundPos(s) = done[s]
  <2> SUFFICES ASSUME Full(s) PROVE StateOf(s) = 1 /\ RoundPos(s) = done[s]
    OBVIOUS
  <2>1. ready[s] = d + 1
    BY <1>3 DEF Full
  <2>2. StateOf(s) = 1
    BY <1>2, <1>6, <2>1 DEF StateOf
  <2> QED  BY <1>3, <2>1, <2>2 DEF RoundPos
<1>9. Leased(s) => StateOf(s) = 2 /\ RoundPos(s) = done[s]
  <2> SUFFICES ASSUME Leased(s) PROVE StateOf(s) = 2 /\ RoundPos(s) = done[s]
    OBVIOUS
  <2>1. ready[s] = d + 2
    BY <1>3 DEF Leased
  <2>2. StateOf(s) = 2
    BY <1>2, <1>6, <2>1 DEF StateOf
  <2> QED  BY <1>3, <2>1, <2>2 DEF RoundPos
<1>10. ~(Full(s) /\ Leased(s)) /\ ~(Full(s) /\ Resting(s)) /\ ~(Leased(s) /\ Resting(s))
  BY <1>1, <1>2 DEF Full, Leased, Resting
<1>11. Published(s) <=> Full(s)
  BY <1>1, <1>7, <1>8, <1>9 DEF Published
<1> QED  BY <1>1, <1>7, <1>8, <1>9, <1>10, <1>11

(* A word that reads `published' names the position the slot is at.        *)
LEMMA SamePosition ==
  ASSUME TypeOK, SlotInv, NEW s \in Slots, NEW a \in Nat, Slot(a) = s, ready[s] = a + 1
  PROVE  Full(s) /\ done[s] = a
<1>1. /\ done[s] \in Nat /\ ready[s] \in Nat /\ done[s] >= Capacity /\ Slot(done[s]) = s
      /\ Resting(s) \/ Full(s) \/ Leased(s)
  BY DEF TypeOK, SlotInv, SlotOk
<1>2. Capacity \in Nat /\ Capacity >= 4
  BY CapacityAssumption, MpmcAssumption
<1>3. PICK d \in Nat : d = done[s]
  BY <1>1
<1>4. Slot(d + 1) # s
  BY <1>1, <1>2, <1>3, SlotInjective
<1>5. ~Resting(s)
  <2> SUFFICES ASSUME Resting(s) PROVE FALSE
    OBVIOUS
  <2>1. a + Capacity = d + 1
    BY <1>1, <1>2, <1>3 DEF Resting
  <2> QED  BY <1>4, <2>1, SlotLap
<1>6. ~Leased(s)
  BY <1>1, <1>2, <1>3, <1>4 DEF Leased
<1> QED  BY <1>1, <1>5, <1>6 DEF Full

-----------------------------------------------------------------------------
(* What the steps share.                                                   *)

Phases == {"first", "again", "last"}

LEMMA MoveEffect ==
  ASSUME TypeOK, StepInv, NEW p \in Producers, NEW step \in ProducerSteps, NEW ph \in Phases,
         Move(p, step, ph)
  PROVE  /\ pc' \in [Producers -> ProducerSteps] /\ call' \in [Producers -> CallKinds \cup {"none"}]
         /\ phase' \in [Producers -> Phases]
         /\ pc'[p] = step /\ phase'[p] = IF step = "idle" THEN "first" ELSE ph
         /\ \A q \in Producers : q # p => pc'[q] = pc[q] /\ phase'[q] = phase[q]
BY DEF TypeOK, StepInv, Move, Phases

LEMMA GotoEffect ==
  ASSUME TypeOK, StepInv, NEW p \in Producers, NEW step \in ProducerSteps, Goto(p, step)
  PROVE  /\ pc' \in [Producers -> ProducerSteps] /\ call' \in [Producers -> CallKinds \cup {"none"}]
         /\ phase' \in [Producers -> Phases]
         /\ pc'[p] = step /\ phase'[p] = IF step = "idle" THEN "first" ELSE phase[p]
         /\ \A q \in Producers : q # p => pc'[q] = pc[q] /\ phase'[q] = phase[q]
<1>1. phase[p] \in Phases
  BY DEF TypeOK, Phases
<1> QED  BY <1>1, MoveEffect DEF Goto

(* The position a dropped producer abandons is one it reserved.             *)
LEMMA AbandonTakes ==
  ASSUME StepInv, NEW p \in Producers, Abandon(p)
  PROVE  Min(batch[p]) \in batch[p] /\ Min(batch[p]) \in Nat /\ (TypeOK => Min(batch[p]) < claim)
<1>1. batch[p] \subseteq Nat /\ batch[p] # {}
  BY DEF Abandon, StepInv
<1>2. Min(batch[p]) \in batch[p] /\ Min(batch[p]) \in Nat
  BY <1>1, MinFact
<1>3. TypeOK => batch[p] \subseteq 0..(claim - 1) /\ claim \in Nat
  BY DEF TypeOK
<1> QED  BY <1>2, <1>3

LEMMA CGotoEffect ==
  ASSUME StepInv, NEW c \in Consumers, NEW step \in ConsumerSteps, CGoto(c, step)
  PROVE  /\ cpc' \in [Consumers -> ConsumerSteps] /\ cpc'[c] = step
         /\ \A d \in Consumers : d # c => cpc'[d] = cpc[d]
BY DEF StepInv, CGoto

LEMMA FailureType ==
  ASSUME NEW p \in Producers
  PROVE  OnFailure(p) \in {"idle", "closed?", "arm", "park"}
BY DEF OnFailure

LEMMA ScannerIn == Scanner \in Consumers
BY MpmcAssumption DEF Scanner, Consumers

LEMMA SkipType == Skip \in Nat
BY CapacityAssumption, ScanBudgetAssumption DEF Skip

LEMMA LapStep == ASSUME LapInv, [LapNext]_lap PROVE LapInv'
<1> USE CapacityAssumption, SkipType DEF LapInv, LapTypeOK, End, ProbeLimit
<1>1. CASE StepOver
  BY <1>1 DEF StepOver, Exhausted, Record, MoveTo
<1>2. CASE SkipContended
  BY <1>2 DEF SkipContended, Exhausted, Record, MoveTo
<1>3. ASSUME NEW from \in Nat, NextLap(from) PROVE LapInv'
  BY <1>3 DEF NextLap
<1>4. CASE UNCHANGED lap
  BY <1>4 DEF lap
<1> QED  BY <1>1, <1>2, <1>3, <1>4 DEF LapNext

(* Every step of the ring leaves the lap alone or is a step of it.         *)
LEMMA NextIsLap == ASSUME [Next]_vars PROVE [LapNext]_lap
<1>1. Starts \subseteq Nat /\ 0 \in Nat
  BY MpmcAssumption, CapacityAssumption DEF Slots
<1>2. StartLap \/ NextLap(0) => LapNext
  BY <1>1 DEF StartLap, LapNext
<1>3. ASSUME NEW p \in Producers, ProducerNext(p) PROVE UNCHANGED lap
  BY <1>3 DEF ProducerNext, consumerSide, Call, CheckOpen, LoadClaim, Estimate, Fallback, Reserve,
     Look, Publish, Restore, ReserveAgain, WakeConsumer, CheckClosed, Arm, Park, Quit, Abandon,
     Route, AbandonWaits, GiveUp, Leave, Close
<1>4. ScannerNext => [LapNext]_lap
  BY <1>2 DEF LapNext, ScannerNext, StartPop, SeePublished, SeeNothing, ClaimWon, ClaimLost, Take,
     TakenWake, LapFails, ConsumerCheckClosed, ArmConsumer, ParkConsumer, DisarmConsumer
<1>5. ASSUME NEW c \in Consumers, ConsumerNext(c) PROVE UNCHANGED lap
  BY <1>5 DEF ConsumerNext, PeerClaims, PeerTakes, DropConsumer, FlushProducers
<1>6. UNCHANGED vars \/ Finished => UNCHANGED lap
  BY DEF Finished, vars, consumerSide
<1> QED  BY <1>3, <1>4, <1>5, <1>6 DEF Next

LEMMA LapNextInv == ASSUME LapInv, [Next]_vars PROVE LapInv'
BY NextIsLap, LapStep

-----------------------------------------------------------------------------
(* Types.                                                                  *)

LEMMA ProducerTypes ==
  ASSUME TypeOK, StepInv, HandInv, LapInv', NEW p \in Producers, ProducerNext(p)
  PROVE  TypeOK' /\ StepInv'
<1> USE DEF ring, holding, making, producerPark, producerSide, consumers, consumerPark, consumerSide,
            closing, lap, Phases, ProducerSteps
<1>0. LapTypeOK' /\ LapTypeOK
  BY DEF LapInv, TypeOK
<1>1. CASE Call(p)
  <2>1. PICK k \in Kinds[p] :
          /\ call' = [call EXCEPT ![p] = k]
          /\ pc' = [pc EXCEPT ![p] = IF k = "reserve_block" THEN "open?" ELSE "acquire"]
    BY <1>1 DEF Call
  <2>2. k \in CallKinds
    BY MpmcAssumption
  <2> QED  BY <1>0, <1>1, <2>1, <2>2 DEF Call, TypeOK, StepInv
<1>2. CASE CheckOpen(p)
  BY <1>0, <1>2, GotoEffect, MoveEffect DEF CheckOpen, TypeOK, StepInv
<1>3. CASE LoadClaim(p)
  BY <1>0, <1>3, GotoEffect, MoveEffect DEF LoadClaim, TypeOK, StepInv
<1>4. CASE Estimate(p)
  <2>1. HasEstimate(p) => Min({BatchSize, Capacity - InFlight(p)}) \in 0..BatchSize
    <3> SUFFICES ASSUME HasEstimate(p) PROVE Min({BatchSize, Capacity - InFlight(p)}) \in 0..BatchSize
      OBVIOUS
    <3> DEFINE S == {BatchSize, Capacity - InFlight(p)}
    <3>1. S \subseteq Nat /\ S # {} /\ BatchSize \in S
      BY MpmcAssumption, CapacityAssumption DEF HasEstimate
    <3> QED  BY <3>1, MinFact
  <2>2. want' \in [Producers -> 0..BatchSize] /\ seen' \in [Producers -> Nat]
    BY <1>4, <2>1 DEF Estimate, TypeOK
  <2>3. /\ pc' \in [Producers -> ProducerSteps] /\ call' \in [Producers -> CallKinds \cup {"none"}]
        /\ phase' \in [Producers -> Phases]
    BY <1>4, GotoEffect DEF Estimate
  <2> QED  BY <1>0, <1>4, <2>2, <2>3 DEF Estimate, TypeOK, StepInv
<1>5. CASE Fallback(p)
  <2>1. \E step \in ProducerSteps : Goto(p, step)
    BY <1>5, FailureType DEF Fallback
  <2>2. /\ pc' \in [Producers -> ProducerSteps] /\ call' \in [Producers -> CallKinds \cup {"none"}]
        /\ phase' \in [Producers -> Phases]
    BY <2>1, GotoEffect
  <2>3. want' \in [Producers -> 0..BatchSize] /\ seen' \in [Producers -> Nat]
    <3>1. 1 \in 0..BatchSize
      BY MpmcAssumption
    <3>2. want' = [want EXCEPT ![p] = 1] \/ want' = want
      BY <1>5 DEF Fallback
    <3>3. seen' = [seen EXCEPT ![p] = 0]
      BY <1>5 DEF Fallback
    <3>4. want \in [Producers -> 0..BatchSize] /\ seen \in [Producers -> Nat]
      BY DEF TypeOK
    <3> QED  BY <3>1, <3>2, <3>3, <3>4
  <2> QED  BY <1>0, <1>5, <2>2, <2>3 DEF Fallback, TypeOK, StepInv
<1>6. CASE Reserve(p)
  <2>1. /\ pc' \in [Producers -> ProducerSteps] /\ call' \in [Producers -> CallKinds \cup {"none"}]
        /\ phase' \in [Producers -> Phases]
    BY <1>6, GotoEffect DEF Reserve
  <2>2. claim \in Nat /\ want[p] \in 0..BatchSize /\ BatchSize \in Nat
    BY MpmcAssumption DEF TypeOK
  <2>3. claim' \in Nat /\ claim <= claim' /\ batch'[p] = claim..(claim' - 1)
    BY <1>6, <2>2 DEF Reserve, StepInv
  <2>4. batch' \in [Producers -> SUBSET Nat] /\ \A q \in Producers : batch'[q] \subseteq 0..(claim' - 1)
    BY <1>6, <2>2, <2>3 DEF Reserve, StepInv, TypeOK
  <2>5. \A q \in Producers : awaited[q] \subseteq 0..(claim' - 1) /\ look[q] \subseteq batch'[q]
    <3>1. look[p] = {}
      BY <1>6 DEF HandInv, Reserve
    <3> QED  BY <1>6, <2>2, <2>3, <3>1 DEF Reserve, TypeOK, StepInv
  <2>6. want' \in [Producers -> 0..BatchSize]
    BY <1>6, <2>2 DEF Reserve, TypeOK
  <2> QED  BY <1>0, <1>6, <2>1, <2>3, <2>4, <2>5, <2>6 DEF Reserve, TypeOK, StepInv
<1>7. CASE Look(p)
  <2> DEFINE left == IF pc[p] = "acquire" THEN batch[p] ELSE look[p]
             pos == Min(left)
  <2>1. left \subseteq batch[p] /\ left # {} /\ left \subseteq Nat
    BY <1>7 DEF Look, HandInv, TypeOK, StepInv
  <2>2. pos \in left /\ pos \in Nat
    BY <2>1, MinFact
  <2>3. \/ /\ cur' = [cur EXCEPT ![p] = pos] /\ batch' = [batch EXCEPT ![p] = @ \ {pos}]
           /\ look' = [look EXCEPT ![p] = {}] /\ Goto(p, "acquired")
        \/ /\ look' = [look EXCEPT ![p] = left \ {pos}]
           /\ Goto(p, IF left = {pos} THEN OnFailure(p) ELSE "look")
           /\ UNCHANGED <<cur, batch>>
    BY <1>7 DEF Look
  <2>4. \E step \in ProducerSteps : Goto(p, step)
    BY <2>3, FailureType
  <2>5. /\ pc' \in [Producers -> ProducerSteps] /\ call' \in [Producers -> CallKinds \cup {"none"}]
        /\ phase' \in [Producers -> Phases]
    BY <2>4, GotoEffect
  <2> HIDE DEF left, pos
  <2>6. cur' \in [Producers -> Nat \cup {None}]
    BY <2>2, <2>3 DEF TypeOK
  <2>7. batch' \in [Producers -> SUBSET Nat] /\ look' \in [Producers -> SUBSET Nat]
    BY <2>1, <2>3 DEF StepInv
  <2>8. \A q \in Producers : batch'[q] \subseteq batch[q] /\ look'[q] \subseteq batch'[q]
    <3>1. CASE batch' = [batch EXCEPT ![p] = @ \ {pos}] /\ look' = [look EXCEPT ![p] = {}]
      BY <3>1 DEF StepInv, TypeOK
    <3>2. CASE batch' = batch /\ look' = [look EXCEPT ![p] = left \ {pos}]
      BY <2>1, <3>2 DEF StepInv, TypeOK
    <3> QED  BY <2>3, <3>1, <3>2
  <2> QED  BY <1>0, <1>7, <2>5, <2>6, <2>7, <2>8 DEF Look, TypeOK, StepInv
<1>8. CASE Publish(p)
  <2>1. /\ pc' \in [Producers -> ProducerSteps] /\ call' \in [Producers -> CallKinds \cup {"none"}]
        /\ phase' \in [Producers -> Phases]
    BY <1>8, GotoEffect DEF Publish
  <2>2. cur[p] \in Nat /\ Slot(cur[p]) \in Slots
    BY <1>8, SlotType DEF Publish, HandInv, TypeOK
  <2>3. /\ cell' \in [Slots -> Nat \cup {None}] /\ ready' \in [Slots -> Nat]
        /\ cur' \in [Producers -> Nat \cup {None}]
    BY <1>8, <2>2 DEF Publish, TypeOK
  <2> QED  BY <1>0, <1>8, <2>1, <2>3 DEF Publish, TypeOK, StepInv
<1>9. CASE Restore(p)
  <2>1. /\ pc' \in [Producers -> ProducerSteps] /\ call' \in [Producers -> CallKinds \cup {"none"}]
        /\ phase' \in [Producers -> Phases]
    BY <1>9, GotoEffect DEF Restore
  <2>2. cur[p] \in Nat /\ cur[p] < claim /\ look[p] = {} /\ claim \in Nat
    BY <1>9 DEF Restore, HandInv, TypeOK
  <2>3. cur' \in [Producers -> Nat \cup {None}] /\ batch' \in [Producers -> SUBSET Nat]
    BY <1>9, <2>2 DEF Restore, PutBack, TypeOK, StepInv
  <2>4. \A q \in Producers : batch'[q] \subseteq 0..(claim - 1) /\ look[q] \subseteq batch'[q]
    BY <1>9, <2>2 DEF Restore, PutBack, TypeOK, StepInv
  <2> QED  BY <1>0, <1>9, <2>1, <2>3, <2>4 DEF Restore, TypeOK, StepInv
<1>10. CASE ReserveAgain(p)
  <2>1. /\ pc' \in [Producers -> ProducerSteps] /\ call' \in [Producers -> CallKinds \cup {"none"}]
        /\ phase' \in [Producers -> Phases]
    BY <1>10, MoveEffect DEF ReserveAgain
  <2>2. cur[p] \in Nat /\ cur[p] < claim /\ look[p] = {} /\ claim \in Nat
    BY <1>10 DEF ReserveAgain, HandInv, TypeOK
  <2>3. cur' \in [Producers -> Nat \cup {None}] /\ batch' \in [Producers -> SUBSET Nat]
    BY <1>10, <2>2 DEF ReserveAgain, PutBack, TypeOK, StepInv
  <2>4. \A q \in Producers : batch'[q] \subseteq 0..(claim - 1) /\ look[q] \subseteq batch'[q]
    BY <1>10, <2>2 DEF ReserveAgain, PutBack, TypeOK, StepInv
  <2> QED  BY <1>0, <1>10, <2>1, <2>3, <2>4 DEF ReserveAgain, TypeOK, StepInv
<1>11. CASE WakeConsumer(p)
  BY <1>0, <1>11, GotoEffect, MoveEffect DEF WakeConsumer, WakeScanner, TypeOK, StepInv
<1>12. CASE CheckClosed(p)
  BY <1>0, <1>12, GotoEffect, MoveEffect DEF CheckClosed, TypeOK, StepInv
<1>13. CASE Arm(p)
  BY <1>0, <1>13, GotoEffect, MoveEffect DEF Arm, TypeOK, StepInv
<1>14. CASE Park(p)
  BY <1>0, <1>14, GotoEffect, MoveEffect DEF Park, TypeOK, StepInv
<1>15. CASE Quit(p)
  BY <1>0, <1>15, GotoEffect, MoveEffect DEF Quit, TypeOK, StepInv
<1>16. CASE Abandon(p)
  <2>1. /\ pc' \in [Producers -> ProducerSteps] /\ call' \in [Producers -> CallKinds \cup {"none"}]
        /\ phase' \in [Producers -> Phases]
    BY <1>16, GotoEffect DEF Abandon
  <2>2. PICK pos \in Nat : pos = Min(batch[p]) /\ pos \in batch[p]
    BY <1>16, AbandonTakes
  <2>3. Slot(pos) \in Slots /\ look[p] = {}
    BY <1>16, SlotType DEF Abandon, Dropping, HandInv
  <2>4. /\ ready' = [ready EXCEPT ![Slot(pos)] = pos + 2]
        /\ done' = [done EXCEPT ![Slot(pos)] = pos + Capacity]
        /\ cur' = [cur EXCEPT ![p] = pos]
        /\ batch' = [batch EXCEPT ![p] = @ \ {pos}]
    BY <1>16, <2>2 DEF Abandon
  <2>5. ready' \in [Slots -> Nat] /\ done' \in [Slots -> Nat]
    BY <2>3, <2>4, CapacityAssumption DEF TypeOK
  <2>6. cur' \in [Producers -> Nat \cup {None}] /\ batch' \in [Producers -> SUBSET Nat]
    BY <2>4 DEF TypeOK, StepInv
  <2>7. \A q \in Producers : batch'[q] \subseteq batch[q] /\ look[q] \subseteq batch'[q]
    BY <2>3, <2>4 DEF TypeOK, StepInv
  <2> QED  BY <1>0, <1>16, <2>1, <2>5, <2>6, <2>7 DEF Abandon, TypeOK, StepInv
<1>17. CASE Route(p)
  <2>1. /\ pc' \in [Producers -> ProducerSteps] /\ call' \in [Producers -> CallKinds \cup {"none"}]
        /\ phase' \in [Producers -> Phases]
    BY <1>17, GotoEffect DEF Route
  <2>2. PICK pos : WakeFor(pos)
    BY <1>17 DEF Route
  <2>3. UNCHANGED awaited /\ bits' \subseteq Producers /\ tokens' \subseteq Producers
    BY <2>2 DEF WakeFor, Interested, TypeOK
  <2>4. cur' \in [Producers -> Nat \cup {None}]
    BY <1>17 DEF Route, TypeOK
  <2> QED  BY <1>0, <1>17, <2>1, <2>3, <2>4 DEF Route, TypeOK, StepInv
<1>18. CASE AbandonWaits(p)
  BY <1>0, <1>18, GotoEffect, MoveEffect DEF AbandonWaits, WakeScanner, TypeOK, StepInv
<1>19. CASE GiveUp(p)
  <2>1. batch' \in [Producers -> SUBSET Nat] /\ \A q \in Producers : batch'[q] \subseteq batch[q]
    BY <1>19 DEF GiveUp, StepInv
  <2>2. look[p] = {} /\ \A q \in Producers : q # p => batch'[q] = batch[q]
    BY <1>19 DEF GiveUp, Dropping, HandInv, StepInv
  <2> QED  BY <1>0, <1>19, <2>1, <2>2 DEF GiveUp, TypeOK, StepInv
<1>20. CASE Leave(p)
  BY <1>0, <1>20, GotoEffect, MoveEffect DEF Leave, TypeOK, StepInv
<1>21. CASE Close(p)
  BY <1>0, <1>21, GotoEffect, MoveEffect DEF Close, TypeOK, StepInv
<1> QED
  BY <1>1, <1>2, <1>3, <1>4, <1>5, <1>6, <1>7, <1>8, <1>9, <1>10, <1>11, <1>12, <1>13, <1>14,
     <1>15, <1>16, <1>17, <1>18, <1>19, <1>20, <1>21 DEF ProducerNext

LEMMA WinEffect ==
  ASSUME TypeOK, NEW c \in Consumers, NEW pos \in Nat, Win(c, pos)
  PROVE  /\ ready' = [ready EXCEPT ![Slot(pos)] = pos + 2]
         /\ ready' \in [Slots -> Nat] /\ consumed' \in Nat
         /\ tally' \in [Consumers -> 0..(FlushAt - 1)]
<1>1. ready' = [ready EXCEPT ![Slot(pos)] = pos + 2] /\ ready' \in [Slots -> Nat]
  BY SlotType DEF Win, TypeOK
<1>2. FlushAt \in Nat \ {0} /\ tally[c] \in 0..(FlushAt - 1) /\ consumed \in Nat
  BY MpmcAssumption DEF TypeOK
<1>3. CASE tally[c] + 1 >= FlushAt
  BY <1>1, <1>2, <1>3 DEF Win, TypeOK
<1>4. CASE ~(tally[c] + 1 >= FlushAt)
  BY <1>1, <1>2, <1>4 DEF Win, TypeOK
<1> QED  BY <1>3, <1>4

LEMMA WakeForTypes ==
  ASSUME TypeOK, NEW pos, WakeFor(pos)
  PROVE  UNCHANGED awaited /\ bits' \subseteq Producers /\ tokens' \subseteq Producers
BY DEF WakeFor, Interested, TypeOK, producerPark

LEMMA ScannerTypes ==
  ASSUME TypeOK, StepInv, SlotInv, ReadInv, ScanInv, LapInv, LapInv', ScannerNext
  PROVE  TypeOK' /\ StepInv'
<1> USE ScannerIn DEF ring, holding, making, producerPark, producerSide, consumers, consumerPark,
                      closing, ConsumerSteps
<1>0. LapTypeOK' /\ LapTypeOK
  BY DEF LapInv, TypeOK
<1>1. CASE StartPop
  BY <1>0, <1>1, CGotoEffect DEF StartPop, StartLap, TypeOK, StepInv
<1>2. CASE SeePublished
  <2>1. position \in Nat /\ Slot(position) \in Slots
    BY <1>0, SlotType DEF LapTypeOK
  <2>2. RoundPos(Slot(position)) \in Nat
    BY <1>2, <2>1, Words DEF SeePublished
  <2>3. at' \in [Consumers -> Nat \cup {None}]
    BY <1>2, <2>2 DEF SeePublished, TypeOK
  <2> QED  BY <1>0, <1>2, <2>3, CGotoEffect DEF SeePublished, TypeOK, StepInv
<1>3. CASE SeeNothing
  BY <1>0, <1>3 DEF SeeNothing, TypeOK, StepInv
<1>4. CASE ClaimWon
  <2>1. at[Scanner] \in Nat
    BY <1>4 DEF ClaimWon, ScanInv
  <2>2. /\ ready' \in [Slots -> Nat] /\ consumed' \in Nat
        /\ tally' \in [Consumers -> 0..(FlushAt - 1)]
    BY <1>4, <2>1, WinEffect DEF ClaimWon
  <2> QED  BY <1>0, <1>4, <2>2, CGotoEffect DEF ClaimWon, TypeOK, StepInv
<1>5. CASE ClaimLost
  BY <1>0, <1>5, CGotoEffect DEF ClaimLost, TypeOK, StepInv
<1>6. CASE Take
  <2>1. at[Scanner] \in Nat
    BY <1>6 DEF Take, ReadInv, Reading
  <2>2. cell' \in [Slots -> Nat \cup {None}] /\ done' \in [Slots -> Nat]
    BY <1>6, <2>1, SlotType, CapacityAssumption DEF Take, HandBack, TypeOK
  <2> QED  BY <1>0, <1>6, <2>2, CGotoEffect DEF Take, HandBack, TypeOK, StepInv
<1>7. CASE TakenWake
  <2>1. UNCHANGED awaited /\ bits' \subseteq Producers /\ tokens' \subseteq Producers
    BY <1>7, WakeForTypes DEF TakenWake
  <2> QED  BY <1>0, <1>7, <2>1, CGotoEffect DEF TakenWake, TypeOK, StepInv
<1>8. CASE LapFails
  BY <1>0, <1>8, CGotoEffect DEF LapFails, TypeOK, StepInv
<1>9. CASE ConsumerCheckClosed
  BY <1>0, <1>9, CGotoEffect DEF ConsumerCheckClosed, StartLap, lap, LapTypeOK, TypeOK, StepInv
<1>10. CASE ArmConsumer
  BY <1>0, <1>10, CGotoEffect DEF ArmConsumer, StartLap, TypeOK, StepInv
<1>11. CASE ParkConsumer
  BY <1>0, <1>11, CGotoEffect DEF ParkConsumer, StartLap, TypeOK, StepInv
<1>12. CASE DisarmConsumer
  BY <1>0, <1>12, CGotoEffect DEF DisarmConsumer, lap, LapTypeOK, TypeOK, StepInv
<1> QED  BY <1>1, <1>2, <1>3, <1>4, <1>5, <1>6, <1>7, <1>8, <1>9, <1>10, <1>11, <1>12 DEF ScannerNext

LEMMA ConsumerTypes ==
  ASSUME TypeOK, StepInv, SlotInv, ReadInv, LapInv', NEW c \in Consumers, ConsumerNext(c)
  PROVE  TypeOK' /\ StepInv'
<1> USE DEF ring, holding, making, producerPark, producerSide, consumers, consumerPark,
            closing, ConsumerSteps
<1>0. LapTypeOK' /\ LapTypeOK
  BY DEF LapInv, TypeOK
<1>1. CASE PeerClaims(c)
  <2>1. PICK s \in Slots : Published(s) /\ Win(c, RoundPos(s)) /\ at' = [at EXCEPT ![c] = RoundPos(s)]
    BY <1>1 DEF PeerClaims
  <2>2. RoundPos(s) \in Nat
    BY <2>1, Words
  <2>3. /\ ready' \in [Slots -> Nat] /\ consumed' \in Nat
        /\ tally' \in [Consumers -> 0..(FlushAt - 1)]
    BY <2>1, <2>2, WinEffect
  <2>4. at' \in [Consumers -> Nat \cup {None}]
    BY <2>1, <2>2 DEF TypeOK
  <2> QED  BY <1>0, <1>1, <2>3, <2>4, CGotoEffect DEF PeerClaims, TypeOK, StepInv
<1>2. CASE PeerTakes(c)
  <2>1. at[c] \in Nat
    BY <1>2 DEF PeerTakes, ReadInv, Reading
  <2>2. cell' \in [Slots -> Nat \cup {None}] /\ done' \in [Slots -> Nat]
    BY <1>2, <2>1, SlotType, CapacityAssumption DEF PeerTakes, HandBack, TypeOK
  <2>3. UNCHANGED awaited /\ bits' \subseteq Producers /\ tokens' \subseteq Producers
    BY <1>2, WakeForTypes DEF PeerTakes
  <2> QED  BY <1>0, <1>2, <2>2, <2>3, CGotoEffect DEF PeerTakes, HandBack, TypeOK, StepInv
<1>3. CASE DropConsumer(c)
  <2>1. tally' \in [Consumers -> 0..(FlushAt - 1)] /\ consumed' \in Nat
    BY <1>3, MpmcAssumption DEF DropConsumer, TypeOK
  <2>2. alive' \subseteq Consumers /\ consumerClosed' \in BOOLEAN
    BY <1>3 DEF DropConsumer, TypeOK
  <2>3. cpc' \in [Consumers -> ConsumerSteps]
    BY <1>3, CGotoEffect DEF DropConsumer
  <2> QED  BY <1>0, <1>3, <2>1, <2>2, <2>3 DEF DropConsumer, TypeOK, StepInv
<1>4. CASE FlushProducers(c)
  BY <1>0, <1>4, CGotoEffect DEF FlushProducers, TypeOK, StepInv
<1> QED  BY <1>1, <1>2, <1>3, <1>4 DEF ConsumerNext

-----------------------------------------------------------------------------
(* Slots, batches and readers.                                             *)

RingInv == HandInv /\ ApartInv /\ SlotInv /\ ReadInv

(* A step that touches no word and gives nobody a position.                *)
LEMMA Shrinks ==
  ASSUME TypeOK, StepInv, ApartInv, SlotInv, ReadInv, UNCHANGED <<ready, done, cell, claim>>,
         \A q \in Producers : \A pos \in Nat : Owns(q, pos)' => Owns(q, pos),
         \A c \in Consumers : Reading(c)' => Reading(c) /\ at'[c] = at[c]
  PROVE  ApartInv' /\ SlotInv' /\ ReadInv'
<1>1. ApartInv'
  BY DEF ApartInv, TypeOK
<1>2. SlotInv'
  <2> SUFFICES ASSUME NEW s \in Slots PROVE SlotOk(s)'
    BY DEF SlotInv
  <2>1. PICK n \in Nat : n = done[s]
    BY DEF TypeOK
  <2>2. Spent(n) => Spent(n)'
    BY DEF Spent
  <2> QED  BY <2>1, <2>2 DEF SlotInv, SlotOk, Resting, Full, Leased
<1>3. ReadInv'
  BY DEF ReadInv, Reading
<1> QED  BY <1>1, <1>2, <1>3

(* A producer's step between two places where it has nothing in hand.      *)
EmptyHanded == {"acquired", "route", "look"}

LEMMA QuietRing ==
  ASSUME TypeOK, StepInv, RingInv, NEW p \in Producers,
         UNCHANGED <<ready, done, cell, claim, batch, cur, look, at, cpc>>,
         pc[p] \notin EmptyHanded, pc'[p] \notin EmptyHanded,
         \A q \in Producers : q # p => pc'[q] = pc[q]
  PROVE  RingInv'
<1>1. \A q \in Producers : \A pos \in Nat : Owns(q, pos)' => Owns(q, pos)
  BY DEF Owns, EmptyHanded
<1>2. \A c \in Consumers : Reading(c)' => Reading(c) /\ at'[c] = at[c]
  BY DEF Reading
<1>3. ApartInv' /\ SlotInv' /\ ReadInv'
  BY <1>1, <1>2, Shrinks DEF RingInv
<1>4. HandInv'
  BY DEF RingInv, HandInv, EmptyHanded, IsFreeFor
<1> QED  BY <1>3, <1>4 DEF RingInv

(* A consumer's step that neither wins a slot nor gives one back.          *)
LEMMA QuietConsumer ==
  ASSUME TypeOK, StepInv, RingInv,
         UNCHANGED <<ready, done, cell, claim, batch, cur, look, pc>>,
         \A c \in Consumers : Reading(c)' => Reading(c) /\ at'[c] = at[c]
  PROVE  RingInv'
<1>1. \A q \in Producers : \A pos \in Nat : Owns(q, pos)' => Owns(q, pos)
  BY DEF Owns
<1>2. ApartInv' /\ SlotInv' /\ ReadInv'
  BY <1>1, Shrinks DEF RingInv
<1>3. HandInv'
  BY DEF RingInv, HandInv, IsFreeFor
<1> QED  BY <1>2, <1>3 DEF RingInv

(* A position that its owner finds free is in a resting slot.              *)
LEMMA FreeMeansResting ==
  ASSUME TypeOK, StepInv, SlotInv, NEW p \in Producers, NEW pos \in Nat, Owns(p, pos), IsFreeFor(pos)
  PROVE  Slot(pos) \in Slots /\ done[Slot(pos)] = pos /\ Resting(Slot(pos))
BY SlotType DEF SlotInv, SlotOk, Spent, IsFreeFor

(* Nobody reads the slot of a position that its owner finds free.          *)
LEMMA OwnedIsNotRead ==
  ASSUME TypeOK, StepInv, SlotInv, ReadInv, NEW p \in Producers, NEW pos \in Nat, Owns(p, pos),
         IsFreeFor(pos), NEW c \in Consumers, Reading(c)
  PROVE  Slot(at[c]) # Slot(pos)
<1>1. Slot(pos) \in Slots /\ Resting(Slot(pos))
  BY FreeMeansResting
<1>2. ~Leased(Slot(pos))
  BY <1>1, Words
<1> QED  BY <1>2 DEF ReadInv, Leased

LEMMA HandBackRing ==
  ASSUME TypeOK, StepInv, RingInv, NEW c \in Consumers, Reading(c), HandBack(c),
         UNCHANGED <<batch, cur, look, pc>>, cpc'[c] # "take",
         \A d \in Consumers : d # c => cpc'[d] = cpc[d] /\ at'[d] = at[d]
  PROVE  RingInv'
<1>1. PICK pos \in Nat : pos = at[c]
  BY DEF RingInv, ReadInv
<1>2. PICK s \in Slots : s = Slot(pos)
  BY <1>1, SlotType
<1>3. done[s] = pos /\ ready[s] = pos + 2 /\ cell[s] = pos /\ Leased(s)
  BY <1>1, <1>2 DEF RingInv, ReadInv, Leased
<1>4. /\ cell' = [cell EXCEPT ![s] = None] /\ done' = [done EXCEPT ![s] = pos + Capacity]
      /\ UNCHANGED <<ready, claim>>
  BY <1>1, <1>2 DEF HandBack
<1>5. done'[s] = pos + Capacity /\ ready'[s] = pos + 2 /\ cell'[s] = None
  BY <1>3, <1>4 DEF TypeOK
<1>6. \A r \in Slots : r # s => done'[r] = done[r] /\ ready'[r] = ready[r] /\ cell'[r] = cell[r]
  BY <1>4 DEF TypeOK
<1>7. \A q \in Producers : \A n : Owns(q, n)' <=> Owns(q, n)
  BY DEF Owns
<1>8. SlotInv'
  <2> SUFFICES ASSUME NEW r \in Slots PROVE SlotOk(r)'
    BY DEF SlotInv
  <2>1. CASE r = s
    BY <1>1, <1>2, <1>5, <2>1, SlotLap, CapacityAssumption DEF SlotOk, Resting
  <2>2. CASE r # s
    <3>1. PICK n \in Nat : n = done[r]
      BY DEF TypeOK
    <3>2. Spent(n) => Spent(n)'
      BY <1>4, <1>7 DEF Spent
    <3> QED  BY <1>6, <2>2, <3>1, <3>2 DEF RingInv, SlotInv, SlotOk, Resting, Full, Leased
  <2> QED  BY <2>1, <2>2
<1>9. ReadInv'
  <2>1. ASSUME NEW d \in Consumers, Reading(d)' PROVE d # c /\ Reading(d) /\ at'[d] = at[d]
    BY <2>1 DEF Reading
  <2>2. ASSUME NEW d \in Consumers, Reading(d)'
        PROVE  /\ at'[d] \in Nat /\ done'[Slot(at'[d])] = at'[d]
               /\ ready'[Slot(at'[d])] = at'[d] + 2 /\ cell'[Slot(at'[d])] = at'[d]
    <3>1. PICK r \in Slots : r = Slot(at[d])
      BY <2>1, <2>2, SlotType DEF RingInv, ReadInv
    <3>2. r # s
      BY <1>1, <1>3, <2>1, <2>2, <3>1 DEF RingInv, ReadInv
    <3> QED  BY <1>6, <2>1, <2>2, <3>1, <3>2 DEF RingInv, ReadInv
  <2> QED  BY <2>1, <2>2 DEF RingInv, ReadInv
<1>10. HandInv'
  <2>1. ASSUME NEW q \in Producers, pc[q] = "acquired" PROVE done'[Slot(cur[q])] = cur[q]
    <3>1. IsFreeFor(cur[q]) /\ cur[q] \in Nat /\ Owns(q, cur[q])
      BY <2>1 DEF RingInv, HandInv, Owns, TypeOK
    <3>2. Slot(cur[q]) # s
      BY <1>1, <1>2, <3>1, OwnedIsNotRead DEF RingInv
    <3> QED  BY <1>6, <3>1, <3>2, SlotType DEF IsFreeFor
  <2> QED  BY <1>4, <2>1 DEF RingInv, HandInv, IsFreeFor
<1> QED  BY <1>7, <1>8, <1>9, <1>10, <1>4 DEF RingInv, ApartInv

LEMMA WinRing ==
  ASSUME TypeOK, StepInv, RingInv, NEW c \in Consumers, NEW s \in Slots, Full(s),
         ready' = [ready EXCEPT ![s] = done[s] + 2],
         UNCHANGED <<done, cell, claim, batch, cur, look, pc>>,
         ~Reading(c), at'[c] = done[s],
         \A d \in Consumers : d # c => cpc'[d] = cpc[d] /\ at'[d] = at[d]
  PROVE  RingInv'
<1>1. ready'[s] = done[s] + 2 /\ \A r \in Slots : r # s => ready'[r] = ready[r]
  BY DEF TypeOK
<1>2. Leased(s)' /\ ~Leased(s) /\ done[s] \in Nat /\ Slot(done[s]) = s
  BY <1>1, Words DEF RingInv, Full, Leased, SlotInv, SlotOk
<1>3. \A q \in Producers : \A n : Owns(q, n)' <=> Owns(q, n)
  BY DEF Owns
<1>4. SlotInv'
  <2> SUFFICES ASSUME NEW r \in Slots PROVE SlotOk(r)'
    BY DEF SlotInv
  <2>1. PICK n \in Nat : n = done[r]
    BY DEF TypeOK
  <2>2. Spent(n) => Spent(n)'
    BY <1>3 DEF Spent
  <2>3. CASE r = s
    BY <1>2, <2>1, <2>2, <2>3, Words DEF RingInv, SlotInv, SlotOk
  <2>4. CASE r # s
    BY <1>1, <2>1, <2>2, <2>4 DEF RingInv, SlotInv, SlotOk, Resting, Full, Leased
  <2> QED  BY <2>3, <2>4
<1>5. ReadInv'
  <2>1. ASSUME NEW d \in Consumers, Reading(d)', d # c PROVE Reading(d) /\ at'[d] = at[d]
    BY <2>1 DEF Reading
  <2>2. ASSUME NEW d \in Consumers, Reading(d)', d # c
        PROVE  /\ at'[d] \in Nat /\ done'[Slot(at'[d])] = at'[d] /\ at'[d] # done[s]
               /\ ready'[Slot(at'[d])] = at'[d] + 2 /\ cell'[Slot(at'[d])] = at'[d]
    <3>1. PICK r \in Slots : r = Slot(at[d])
      BY <2>1, <2>2, SlotType DEF RingInv, ReadInv
    <3>2. Leased(r) /\ done[r] = at[d]
      BY <2>1, <2>2, <3>1 DEF RingInv, ReadInv, Leased
    <3>3. r # s
      BY <1>2, <3>2
    <3> QED  BY <1>1, <1>2, <2>1, <2>2, <3>1, <3>2, <3>3 DEF RingInv, ReadInv
  <2>3. at'[c] \in Nat /\ done'[Slot(at'[c])] = at'[c]
        /\ ready'[Slot(at'[c])] = at'[c] + 2 /\ cell'[Slot(at'[c])] = at'[c]
    BY <1>1, <1>2 DEF Full
  <2> QED  BY <2>1, <2>2, <2>3 DEF RingInv, ReadInv
<1>6. HandInv'
  BY DEF RingInv, HandInv, IsFreeFor
<1> QED  BY <1>3, <1>4, <1>5, <1>6 DEF RingInv, ApartInv

(* The steps of a producer that has nothing in hand before or after.       *)
LEMMA QuietSteps ==
  ASSUME TypeOK, StepInv, NEW p \in Producers,
         \/ Call(p) \/ CheckOpen(p) \/ LoadClaim(p) \/ Estimate(p) \/ Fallback(p)
         \/ WakeConsumer(p) \/ CheckClosed(p) \/ Arm(p) \/ Park(p) \/ Quit(p)
         \/ AbandonWaits(p) \/ Leave(p) \/ Close(p)
  PROVE  /\ UNCHANGED <<ready, done, cell, claim, batch, cur, look, at, cpc>>
         /\ pc[p] \notin EmptyHanded /\ pc'[p] \notin EmptyHanded
         /\ \A q \in Producers : q # p => pc'[q] = pc[q]
<1> USE DEF ring, holding, making, consumers, consumerSide, EmptyHanded
<1> DEFINE Quiet == /\ UNCHANGED <<ready, done, cell, claim, batch, cur, look, at, cpc>>
                    /\ pc[p] \notin EmptyHanded /\ pc'[p] \notin EmptyHanded
                    /\ \A q \in Producers : q # p => pc'[q] = pc[q]
<1>1. CASE Call(p)
  BY <1>1 DEF Call, StepInv
<1>2. CASE CheckOpen(p)
  BY <1>2, GotoEffect DEF CheckOpen, ProducerSteps
<1>3. CASE LoadClaim(p)
  BY <1>3, GotoEffect DEF LoadClaim, ProducerSteps
<1>4. CASE Estimate(p)
  BY <1>4, GotoEffect DEF Estimate, ProducerSteps
<1>5. CASE Fallback(p)
  <2>1. PICK step \in ProducerSteps \ EmptyHanded : Goto(p, step)
    BY <1>5, FailureType DEF Fallback, ProducerSteps
  <2> QED  BY <1>5, <2>1, GotoEffect DEF Fallback
<1>6. CASE WakeConsumer(p)
  BY <1>6, GotoEffect DEF WakeConsumer, ProducerSteps
<1>7. CASE CheckClosed(p)
  <2>1. PICK step \in ProducerSteps \ EmptyHanded : Goto(p, step)
    BY <1>7 DEF CheckClosed, ProducerSteps
  <2> QED  BY <1>7, <2>1, GotoEffect DEF CheckClosed
<1>8. CASE Arm(p)
  BY <1>8, MoveEffect DEF Arm, ProducerSteps, Phases
<1>9. CASE Park(p)
  BY <1>9, MoveEffect DEF Park, ProducerSteps, Phases
<1>10. CASE Quit(p)
  BY <1>10, GotoEffect DEF Quit, ProducerSteps
<1>11. CASE AbandonWaits(p)
  BY <1>11 DEF AbandonWaits, Dropping, producerSide
<1>12. CASE Leave(p)
  BY <1>12, GotoEffect DEF Leave, Dropping, ProducerSteps
<1>13. CASE Close(p)
  BY <1>13, GotoEffect DEF Close, ProducerSteps
<1> QED  BY <1>1, <1>2, <1>3, <1>4, <1>5, <1>6, <1>7, <1>8, <1>9, <1>10, <1>11, <1>12, <1>13

LEMMA ReserveRing ==
  ASSUME TypeOK, StepInv, RingInv, NEW p \in Producers, Reserve(p) PROVE RingInv'
<1>1. /\ pc'[p] = "acquire" /\ pc[p] = "take" /\ batch[p] \subseteq Nat
      /\ \A q \in Producers : q # p => pc'[q] = pc[q]
  BY GotoEffect DEF Reserve, ProducerSteps, StepInv
<1>2. claim \in Nat /\ want[p] \in Nat
  BY MpmcAssumption DEF TypeOK
<1>3. /\ claim' = claim + want[p] /\ batch'[p] = claim..(claim' - 1)
      /\ \A q \in Producers : q # p => batch'[q] = batch[q]
      /\ UNCHANGED <<ready, done, cell, cur, look, at, cpc>>
  BY <1>2 DEF Reserve, StepInv, consumerSide, consumers
<1>4. \A q \in Producers : \A n \in Nat : Owns(q, n) => n < claim
  BY <1>2 DEF Owns, RingInv, HandInv, TypeOK
<1>5. \A q \in Producers : \A n \in Nat :
        Owns(q, n)' => IF q = p THEN n \in claim..(claim' - 1) ELSE Owns(q, n)
  BY <1>1, <1>3 DEF Owns
<1>6. ApartInv'
  <2> SUFFICES ASSUME NEW q \in Producers, NEW r \in Producers, q # r, NEW n \in Nat,
                      Owns(q, n)', Owns(r, n)'
               PROVE  FALSE
    BY <1>2, <1>3 DEF ApartInv
  <2> QED  BY <1>2, <1>4, <1>5 DEF RingInv, ApartInv
<1>7. SlotInv'
  <2> SUFFICES ASSUME NEW s \in Slots PROVE SlotOk(s)'
    BY DEF SlotInv
  <2>1. PICK n \in Nat : n = done[s]
    BY DEF TypeOK
  <2>2. Spent(n) => Spent(n)'
    BY <1>2, <1>3, <1>5 DEF Spent
  <2> QED  BY <1>3, <2>1, <2>2 DEF RingInv, SlotInv, SlotOk, Resting, Full, Leased
<1>8. ReadInv'
  BY <1>3 DEF RingInv, ReadInv, Reading
<1>9. HandInv'
  <2> SUFFICES ASSUME NEW q \in Producers
               PROVE  /\ cur[q] # None <=> pc'[q] \in {"acquired", "route"}
                      /\ cur[q] < claim'
                      /\ pc'[q] = "acquired" => IsFreeFor(cur[q]) /\ cur[q] \notin batch'[q]
                      /\ look[q] # {} <=> pc'[q] = "look"
    BY <1>3 DEF HandInv, IsFreeFor
  <2>1. cur[q] < claim /\ cur[q] \in Int /\ claim <= claim'
    BY <1>2, <1>3 DEF RingInv, HandInv, TypeOK, None
  <2> QED  BY <1>1, <1>2, <1>3, <2>1 DEF RingInv, HandInv
<1> QED  BY <1>6, <1>7, <1>8, <1>9 DEF RingInv

LEMMA LookRing ==
  ASSUME TypeOK, StepInv, RingInv, NEW p \in Producers, Look(p) PROVE RingInv'
<1> DEFINE left == IF pc[p] = "acquire" THEN batch[p] ELSE look[p]
<1>1. left \subseteq batch[p] /\ left # {} /\ left \subseteq Nat /\ pc[p] \in {"acquire", "look"}
  BY DEF Look, RingInv, HandInv, TypeOK, StepInv
<1>2. PICK pos \in left : pos = Min(left) /\ pos \in batch[p] /\ pos \in Nat
  BY <1>1, MinFact
<1>3. UNCHANGED <<ready, done, cell, claim, at, cpc>>
  BY DEF Look, ring, consumerSide, consumers
<1>4. CASE IsFreeFor(pos)
  <2>1. /\ cur' = [cur EXCEPT ![p] = pos] /\ batch' = [batch EXCEPT ![p] = @ \ {pos}]
        /\ look' = [look EXCEPT ![p] = {}] /\ Goto(p, "acquired")
    BY <1>2, <1>4 DEF Look
  <2>2. pc'[p] = "acquired" /\ \A q \in Producers : q # p => pc'[q] = pc[q]
    BY <2>1, GotoEffect DEF ProducerSteps
  <2>3. /\ cur'[p] = pos /\ batch'[p] = batch[p] \ {pos} /\ look'[p] = {}
        /\ \A q \in Producers : q # p => cur'[q] = cur[q] /\ batch'[q] = batch[q] /\ look'[q] = look[q]
    BY <2>1 DEF TypeOK, StepInv
  <2>4. \A q \in Producers : \A n \in Nat : Owns(q, n)' => Owns(q, n)
    BY <1>2, <2>2, <2>3 DEF Owns
  <2>5. ApartInv' /\ SlotInv' /\ ReadInv'
    BY <1>3, <2>4, Shrinks DEF RingInv, Reading
  <2>6. pos < claim /\ pos # None
    BY <1>2 DEF TypeOK, None
  <2>7. HandInv'
    BY <1>3, <1>4, <2>2, <2>3, <2>6 DEF RingInv, HandInv, IsFreeFor
  <2> QED  BY <2>5, <2>7 DEF RingInv
<1>5. CASE ~IsFreeFor(pos)
  <2>1. /\ look' = [look EXCEPT ![p] = left \ {pos}]
        /\ Goto(p, IF left = {pos} THEN OnFailure(p) ELSE "look")
        /\ UNCHANGED <<cur, batch>>
    BY <1>2, <1>5 DEF Look
  <2>2. PICK step \in ProducerSteps :
          /\ Goto(p, step) /\ step \notin {"acquired", "route"} /\ (step = "look" <=> left # {pos})
    BY <2>1, FailureType DEF ProducerSteps
  <2>3. pc'[p] = step /\ \A q \in Producers : q # p => pc'[q] = pc[q]
    BY <2>2, GotoEffect
  <2>4. look'[p] = left \ {pos} /\ \A q \in Producers : q # p => look'[q] = look[q]
    BY <2>1 DEF StepInv
  <2>5. \A q \in Producers : \A n \in Nat : Owns(q, n)' => Owns(q, n)
    BY <2>1, <2>2, <2>3 DEF Owns
  <2>6. ApartInv' /\ SlotInv' /\ ReadInv'
    BY <1>3, <2>5, Shrinks DEF RingInv, Reading
  <2>7. look'[p] # {} <=> pc'[p] = "look"
    BY <1>2, <2>2, <2>3, <2>4
  <2>8. HandInv'
    <3>1. cur' = cur /\ batch' = batch
      BY <2>1
    <3> QED  BY <1>1, <1>3, <2>2, <2>3, <2>4, <2>7, <3>1 DEF RingInv, HandInv, IsFreeFor
  <2> QED  BY <2>6, <2>8 DEF RingInv
<1> QED  BY <1>4, <1>5

LEMMA PublishRing ==
  ASSUME TypeOK, StepInv, RingInv, NEW p \in Producers, Publish(p) PROVE RingInv'
<1>1. PICK pos \in Nat : pos = cur[p] /\ pos < claim /\ pos \notin batch[p] /\ IsFreeFor(pos) /\ Owns(p, pos)
  BY DEF Publish, RingInv, HandInv, TypeOK, Owns
<1>2. PICK s \in Slots : s = Slot(pos) /\ done[s] = pos /\ Resting(s)
  BY <1>1, FreeMeansResting DEF RingInv
<1>3. /\ cell' = [cell EXCEPT ![s] = pos] /\ ready' = [ready EXCEPT ![s] = pos + 1]
      /\ cur' = [cur EXCEPT ![p] = None]
      /\ UNCHANGED <<done, claim, batch, look, at, cpc>>
  BY <1>1, <1>2 DEF Publish, consumerSide, consumers
<1>4. pc[p] = "acquired" /\ pc'[p] = "wake" /\ \A q \in Producers : q # p => pc'[q] = pc[q]
  BY GotoEffect DEF Publish, ProducerSteps
<1>5. /\ cur'[p] = None /\ cell'[s] = pos /\ ready'[s] = pos + 1
      /\ \A q \in Producers : q # p => cur'[q] = cur[q]
      /\ \A r \in Slots : r # s => cell'[r] = cell[r] /\ ready'[r] = ready[r]
  BY <1>3 DEF TypeOK
<1>6. \A q \in Producers : \A n \in Nat : Owns(q, n)' => Owns(q, n) /\ n # pos
  <2>1. \A q \in Producers : q # p => ~Owns(q, pos)
    BY <1>1 DEF RingInv, ApartInv, TypeOK
  <2> QED  BY <1>1, <1>3, <1>4, <1>5, <2>1 DEF Owns
<1>7. ApartInv'
  BY <1>3, <1>6 DEF RingInv, ApartInv, TypeOK
<1>8. SlotInv'
  <2> SUFFICES ASSUME NEW r \in Slots PROVE SlotOk(r)'
    BY DEF SlotInv
  <2>1. PICK n \in Nat : n = done[r]
    BY DEF TypeOK
  <2>2. Spent(n) => Spent(n)'
    BY <1>3, <1>6 DEF Spent
  <2>3. CASE r = s
    <3>1. Spent(n)'
      BY <1>1, <1>2, <1>3, <1>6, <2>1, <2>3 DEF Spent
    <3> QED  BY <1>2, <1>3, <1>5, <2>1, <2>3, <3>1 DEF RingInv, SlotInv, SlotOk, Full
  <2>4. CASE r # s
    BY <1>3, <1>5, <2>1, <2>2, <2>4 DEF RingInv, SlotInv, SlotOk, Resting, Full, Leased
  <2> QED  BY <2>3, <2>4
<1>9. ReadInv'
  <2>1. ASSUME NEW c \in Consumers, Reading(c)' PROVE Reading(c) /\ Slot(at[c]) # s /\ Slot(at[c]) \in Slots
    BY <1>1, <1>2, <1>3, <2>1, OwnedIsNotRead, SlotType DEF Reading, RingInv, ReadInv
  <2> QED  BY <1>3, <1>5, <2>1 DEF RingInv, ReadInv
<1>10. HandInv'
  BY <1>3, <1>4, <1>5 DEF RingInv, HandInv, IsFreeFor, TypeOK, None
<1> QED  BY <1>7, <1>8, <1>9, <1>10 DEF RingInv

(* A writer dropped uncommitted.                                           *)
LEMMA PutBackRing ==
  ASSUME TypeOK, StepInv, RingInv, NEW p \in Producers, pc[p] = "acquired", PutBack(p),
         UNCHANGED <<ready, done, cell, claim, look, at, cpc>>, pc'[p] \notin EmptyHanded,
         \A q \in Producers : q # p => pc'[q] = pc[q]
  PROVE  RingInv'
<1>1. cur[p] \in Nat /\ cur[p] < claim /\ claim \in Nat
  BY DEF RingInv, HandInv, TypeOK
<1>2. /\ cur'[p] = None /\ batch'[p] = batch[p] \cup {cur[p]}
      /\ \A q \in Producers : q # p => cur'[q] = cur[q] /\ batch'[q] = batch[q]
  BY DEF PutBack, TypeOK, StepInv
<1>3. \A q \in Producers : \A n \in Nat : Owns(q, n)' => Owns(q, n)
  BY <1>2 DEF Owns, EmptyHanded
<1>4. ApartInv' /\ SlotInv' /\ ReadInv'
  BY <1>3, Shrinks DEF RingInv, Reading
<1>5. HandInv'
  BY <1>1, <1>2 DEF RingInv, HandInv, EmptyHanded, IsFreeFor, None
<1> QED  BY <1>4, <1>5 DEF RingInv

LEMMA AbandonRing ==
  ASSUME TypeOK, StepInv, RingInv, NEW p \in Producers, Abandon(p) PROVE RingInv'
<1>1. PICK pos \in Nat :
        pos = Min(batch[p]) /\ pos \in batch[p] /\ pos < claim /\ IsFreeFor(pos) /\ Owns(p, pos)
  BY AbandonTakes DEF Abandon, Owns
<1>2. PICK s \in Slots : s = Slot(pos) /\ done[s] = pos /\ Resting(s)
  BY <1>1, FreeMeansResting DEF RingInv
<1>3. /\ ready' = [ready EXCEPT ![s] = pos + 2] /\ done' = [done EXCEPT ![s] = pos + Capacity]
      /\ cur' = [cur EXCEPT ![p] = pos] /\ batch' = [batch EXCEPT ![p] = @ \ {pos}]
      /\ UNCHANGED <<cell, claim, look, at, cpc>>
  BY <1>1, <1>2 DEF Abandon, consumerSide, consumers
<1>4. pc[p] = "idle" /\ pc'[p] = "route" /\ \A q \in Producers : q # p => pc'[q] = pc[q]
  BY GotoEffect DEF Abandon, Dropping, ProducerSteps
<1>5. /\ cur'[p] = pos /\ ready'[s] = pos + 2 /\ done'[s] = pos + Capacity
      /\ batch'[p] = batch[p] \ {pos}
      /\ \A q \in Producers : q # p => cur'[q] = cur[q] /\ batch'[q] = batch[q]
      /\ \A r \in Slots : r # s => done'[r] = done[r] /\ ready'[r] = ready[r]
  BY <1>3 DEF TypeOK, StepInv
<1>6. \A q \in Producers : \A n \in Nat : Owns(q, n)' => Owns(q, n) /\ n # pos
  <2>1. \A q \in Producers : q # p => ~Owns(q, pos)
    BY <1>1 DEF RingInv, ApartInv, TypeOK
  <2> QED  BY <1>4, <1>5, <2>1 DEF Owns
<1>7. ApartInv'
  BY <1>3, <1>6 DEF RingInv, ApartInv, TypeOK
<1>8. SlotInv'
  <2> SUFFICES ASSUME NEW r \in Slots PROVE SlotOk(r)'
    BY DEF SlotInv
  <2>1. PICK n \in Nat : n = done[r]
    BY DEF TypeOK
  <2>2. Spent(n) => Spent(n)'
    BY <1>3, <1>6 DEF Spent
  <2>3. CASE r = s
    <3>1. Slot(done'[r]) = r /\ done'[r] >= Capacity
      BY <1>1, <1>2, <1>5, <2>3, SlotLap, CapacityAssumption
    <3> QED  BY <1>2, <1>3, <1>5, <2>3, <3>1, CapacityAssumption DEF SlotOk, Resting
  <2>4. CASE r # s
    BY <1>3, <1>5, <2>1, <2>2, <2>4 DEF RingInv, SlotInv, SlotOk, Resting, Full, Leased
  <2> QED  BY <2>3, <2>4
<1>9. ReadInv'
  <2>1. ASSUME NEW c \in Consumers, Reading(c)' PROVE Reading(c) /\ Slot(at[c]) # s /\ Slot(at[c]) \in Slots
    BY <1>1, <1>2, <1>3, <2>1, OwnedIsNotRead, SlotType DEF Reading, RingInv, ReadInv
  <2> QED  BY <1>3, <1>5, <2>1 DEF RingInv, ReadInv
<1>10. HandInv'
  <2>1. ASSUME NEW q \in Producers, q # p, pc[q] = "acquired" PROVE IsFreeFor(cur[q])'
    <3>1. PICK n \in Nat : n = cur[q] /\ n = cur'[q] /\ done[Slot(n)] = n /\ Owns(q, n)'
      BY <1>4, <1>5, <2>1 DEF RingInv, HandInv, IsFreeFor, TypeOK, Owns
    <3>2. n # pos
      BY <1>6, <3>1
    <3> QED  BY <1>2, <1>5, <3>1, <3>2, SlotType DEF IsFreeFor
  <2> QED  BY <1>1, <1>3, <1>4, <1>5, <2>1 DEF RingInv, HandInv, None
<1> QED  BY <1>7, <1>8, <1>9, <1>10 DEF RingInv

LEMMA ProducerRing ==
  ASSUME TypeOK, StepInv, RingInv, NEW p \in Producers, ProducerNext(p) PROVE RingInv'
<1>1. CASE \/ Call(p) \/ CheckOpen(p) \/ LoadClaim(p) \/ Estimate(p) \/ Fallback(p)
           \/ WakeConsumer(p) \/ CheckClosed(p) \/ Arm(p) \/ Park(p) \/ Quit(p)
           \/ AbandonWaits(p) \/ Leave(p) \/ Close(p)
  <2>1. /\ UNCHANGED <<ready, done, cell, claim, batch, cur, look, at, cpc>>
        /\ pc[p] \notin EmptyHanded /\ pc'[p] \notin EmptyHanded
        /\ \A q \in Producers : q # p => pc'[q] = pc[q]
    BY <1>1, QuietSteps
  <2> QED  BY <2>1, QuietRing
<1>2. CASE Restore(p) \/ ReserveAgain(p)
  <2>1. /\ pc[p] = "acquired" /\ PutBack(p) /\ UNCHANGED <<ready, done, cell, claim, look, at, cpc>>
    BY <1>2 DEF Restore, ReserveAgain, ring, consumerSide, consumers
  <2>2. pc'[p] \notin EmptyHanded /\ \A q \in Producers : q # p => pc'[q] = pc[q]
    BY <1>2, GotoEffect, MoveEffect DEF Restore, ReserveAgain, ProducerSteps, Phases, EmptyHanded
  <2> QED  BY <2>1, <2>2, PutBackRing
<1>3. CASE Route(p) \/ GiveUp(p)
  <2>1. /\ UNCHANGED <<ready, done, cell, claim, look, at, cpc>>
        /\ pc[p] \in {"route", "idle"} /\ pc'[p] = "idle"
        /\ \A q \in Producers : q # p => pc'[q] = pc[q] /\ cur'[q] = cur[q] /\ batch'[q] = batch[q]
        /\ cur'[p] = None /\ batch'[p] \subseteq batch[p]
    <3>1. CASE Route(p)
      BY <3>1, GotoEffect
         DEF Route, ring, making, holding, consumerSide, consumers, ProducerSteps, TypeOK
    <3>2. CASE GiveUp(p)
      BY <3>2 DEF GiveUp, Dropping, ring, making, consumerSide, consumers, StepInv, RingInv, HandInv
    <3> QED  BY <1>3, <3>1, <3>2
  <2>2. \A q \in Producers : \A n \in Nat : Owns(q, n)' => Owns(q, n)
    BY <2>1 DEF Owns
  <2>3. ApartInv' /\ SlotInv' /\ ReadInv'
    BY <2>1, <2>2, Shrinks DEF RingInv, Reading
  <2>4. HandInv'
    BY <2>1 DEF RingInv, HandInv, IsFreeFor, TypeOK, None
  <2> QED  BY <2>3, <2>4 DEF RingInv
<1> QED  BY <1>1, <1>2, <1>3, ReserveRing, LookRing, PublishRing, AbandonRing DEF ProducerNext

(* The steps of a consumer that neither win a slot nor give one back.      *)
LEMMA QuietReads ==
  ASSUME TypeOK, StepInv, NEW c \in Consumers,
         \/ c = Scanner /\ \/ StartPop \/ SeePublished \/ SeeNothing \/ ClaimLost \/ TakenWake
                           \/ LapFails \/ ConsumerCheckClosed \/ ArmConsumer \/ ParkConsumer
                           \/ DisarmConsumer
         \/ DropConsumer(c) \/ FlushProducers(c)
  PROVE  /\ UNCHANGED <<ready, done, cell, claim, batch, cur, look, pc>>
         /\ \A d \in Consumers : Reading(d)' => Reading(d) /\ at'[d] = at[d]
<1> USE ScannerIn DEF ring, holding, making, producerSide, consumers, Reading, ConsumerSteps, StartLap
<1>1. CASE StartPop /\ c = Scanner
  BY <1>1, CGotoEffect DEF StartPop
<1>2. CASE SeePublished /\ c = Scanner
  BY <1>2, CGotoEffect DEF SeePublished, TypeOK
<1>3. CASE SeeNothing /\ c = Scanner
  BY <1>3 DEF SeeNothing
<1>4. CASE ClaimLost /\ c = Scanner
  BY <1>4, CGotoEffect DEF ClaimLost, TypeOK
<1>5. CASE TakenWake /\ c = Scanner
  BY <1>5, CGotoEffect DEF TakenWake, TypeOK
<1>6. CASE LapFails /\ c = Scanner
  BY <1>6, CGotoEffect DEF LapFails
<1>7. CASE ConsumerCheckClosed /\ c = Scanner
  BY <1>7, CGotoEffect DEF ConsumerCheckClosed
<1>8. CASE ArmConsumer /\ c = Scanner
  BY <1>8, CGotoEffect DEF ArmConsumer
<1>9. CASE ParkConsumer /\ c = Scanner
  BY <1>9, CGotoEffect DEF ParkConsumer
<1>10. CASE DisarmConsumer /\ c = Scanner
  BY <1>10, CGotoEffect DEF DisarmConsumer
<1>11. CASE DropConsumer(c)
  BY <1>11, CGotoEffect DEF DropConsumer
<1>12. CASE FlushProducers(c)
  BY <1>12, CGotoEffect DEF FlushProducers
<1> QED  BY <1>1, <1>2, <1>3, <1>4, <1>5, <1>6, <1>7, <1>8, <1>9, <1>10, <1>11, <1>12

LEMMA ConsumerRing ==
  ASSUME TypeOK, StepInv, LapInv, ScanInv, RingInv, NEW c \in Consumers,
         ConsumerNext(c) \/ (c = Scanner /\ ScannerNext)
  PROVE  RingInv'
<1> USE ScannerIn
<1>1. CASE \/ c = Scanner /\ \/ StartPop \/ SeePublished \/ SeeNothing \/ ClaimLost \/ TakenWake
                             \/ LapFails \/ ConsumerCheckClosed \/ ArmConsumer \/ ParkConsumer
                             \/ DisarmConsumer
           \/ DropConsumer(c) \/ FlushProducers(c)
  <2>1. /\ UNCHANGED <<ready, done, cell, claim, batch, cur, look, pc>>
        /\ \A d \in Consumers : Reading(d)' => Reading(d) /\ at'[d] = at[d]
    BY <1>1, QuietReads
  <2> QED  BY <2>1, QuietConsumer
<1>2. CASE Take /\ c = Scanner
  <2>1. /\ Reading(c) /\ HandBack(c) /\ UNCHANGED <<batch, cur, look, pc, at>>
    BY <1>2 DEF Take, Reading, producerSide, making, holding
  <2>2. cpc'[c] # "take" /\ \A d \in Consumers : d # c => cpc'[d] = cpc[d]
    BY <1>2, CGotoEffect DEF Take, ConsumerSteps
  <2> QED  BY <2>1, <2>2, HandBackRing
<1>3. CASE PeerTakes(c)
  <2>1. Reading(c) /\ HandBack(c) /\ UNCHANGED <<batch, cur, look, pc>>
    BY <1>3 DEF PeerTakes, Reading, making, holding
  <2>2. cpc'[c] # "take" /\ \A d \in Consumers : d # c => cpc'[d] = cpc[d] /\ at'[d] = at[d]
    BY <1>3, CGotoEffect DEF PeerTakes, ConsumerSteps, TypeOK
  <2> QED  BY <2>1, <2>2, HandBackRing
<1>4. CASE ClaimWon /\ c = Scanner
  <2>1. PICK s \in Slots : s = Slot(position)
    BY SlotType DEF LapInv, LapTypeOK
  <2>2. at[c] \in Nat /\ Slot(at[c]) = s /\ ready[s] = at[c] + 1
    BY <1>4, <2>1 DEF ClaimWon, ScanInv
  <2>3. Full(s) /\ done[s] = at[c]
    BY <2>1, <2>2, SamePosition DEF RingInv
  <2>4. ready' = [ready EXCEPT ![s] = done[s] + 2]
    BY <1>4, <2>2, <2>3, WinEffect DEF ClaimWon
  <2>5. /\ ~Reading(c) /\ UNCHANGED <<done, cell, claim, batch, cur, look, pc, at>>
        /\ \A d \in Consumers : d # c => cpc'[d] = cpc[d]
    BY <1>4, CGotoEffect DEF ClaimWon, Reading, producerSide, making, holding, ConsumerSteps
  <2> QED  BY <2>1, <2>3, <2>4, <2>5, WinRing
<1>5. CASE PeerClaims(c)
  <2>1. PICK s \in Slots : Published(s) /\ Win(c, RoundPos(s)) /\ at' = [at EXCEPT ![c] = RoundPos(s)]
    BY <1>5 DEF PeerClaims
  <2>2. Full(s) /\ RoundPos(s) = done[s] /\ done[s] \in Nat /\ Slot(done[s]) = s
    BY <2>1, Words DEF RingInv, SlotInv, SlotOk
  <2>3. PICK n \in Nat : n = done[s] /\ Win(c, n) /\ Slot(n) = s
    BY <2>1, <2>2
  <2>4. ready' = [ready EXCEPT ![s] = done[s] + 2]
    BY <2>3, WinEffect
  <2>5. /\ ~Reading(c) /\ UNCHANGED <<done, cell, claim, batch, cur, look, pc>>
        /\ \A d \in Consumers : d # c => cpc'[d] = cpc[d] /\ at'[d] = at[d]
    BY <1>5, <2>1, CGotoEffect
       DEF PeerClaims, Reading, producerSide, making, holding, ConsumerSteps, TypeOK
  <2>6. at'[c] = done[s]
    BY <2>1, <2>2 DEF TypeOK
  <2> QED  BY <2>2, <2>4, <2>5, <2>6, WinRing
<1> QED  BY <1>1, <1>2, <1>3, <1>4, <1>5 DEF ConsumerNext, ScannerNext

-----------------------------------------------------------------------------
(* Closing.                                                                *)

LEMMA ProducerClosed ==
  ASSUME TypeOK, StepInv, ClosedInv, NEW p \in Producers, ProducerNext(p) PROVE ClosedInv'
<1> USE DEF closing, Dropping, ProducerSteps, Phases
<1> DEFINE Others == \A q \in Producers : q # p => pc'[q] = pc[q] /\ phase'[q] = phase[q]
<1>1. CASE Call(p)
  BY <1>1 DEF Call, ClosedInv, StepInv
<1>2. CASE CheckOpen(p)
  BY <1>2, GotoEffect DEF CheckOpen, ClosedInv
<1>3. CASE LoadClaim(p)
  BY <1>3, GotoEffect DEF LoadClaim, ClosedInv
<1>4. CASE Estimate(p)
  BY <1>4, GotoEffect DEF Estimate, ClosedInv
<1>5. CASE Fallback(p)
  <2>1. PICK step \in {"take", "idle", "closed?", "arm", "park"} : Goto(p, step)
    BY <1>5, FailureType DEF Fallback
  <2> QED  BY <1>5, <2>1, GotoEffect DEF Fallback, ClosedInv
<1>6. CASE Reserve(p)
  BY <1>6, GotoEffect DEF Reserve, ClosedInv
<1>7. CASE Look(p)
  <2>1. PICK step \in {"acquired", "look", "idle", "closed?", "arm", "park"} : Goto(p, step)
    BY <1>7, FailureType DEF Look
  <2> QED  BY <1>7, <2>1, GotoEffect DEF Look, ClosedInv
<1>8. CASE Publish(p)
  BY <1>8, GotoEffect DEF Publish, ClosedInv
<1>9. CASE Restore(p)
  BY <1>9, GotoEffect DEF Restore, ClosedInv
<1>10. CASE ReserveAgain(p)
  BY <1>10, MoveEffect DEF ReserveAgain, ClosedInv
<1>11. CASE WakeConsumer(p)
  BY <1>11, GotoEffect DEF WakeConsumer, ClosedInv
<1>12. CASE CheckClosed(p)
  <2>1. PICK step \in {"idle", "quit", "arm", "park", "acquire"} : Goto(p, step)
    BY <1>12 DEF CheckClosed
  <2> QED  BY <1>12, <2>1, GotoEffect DEF CheckClosed, ClosedInv
<1>13. CASE Arm(p)
  BY <1>13, MoveEffect DEF Arm, ClosedInv
<1>14. CASE Park(p)
  BY <1>14, MoveEffect DEF Park, ClosedInv
<1>15. CASE Quit(p)
  BY <1>15, GotoEffect DEF Quit, ClosedInv
<1>16. CASE Abandon(p)
  BY <1>16, GotoEffect DEF Abandon, ClosedInv
<1>17. CASE Route(p)
  BY <1>17, GotoEffect DEF Route, ClosedInv
<1>18. CASE AbandonWaits(p) \/ GiveUp(p)
  BY <1>18 DEF AbandonWaits, GiveUp, ClosedInv, producerSide, making
<1>19. CASE Leave(p)
  BY <1>19, GotoEffect DEF Leave, ClosedInv, TypeOK
<1>20. CASE Close(p)
  BY <1>20, GotoEffect DEF Close, ClosedInv
<1> QED  BY <1>1, <1>2, <1>3, <1>4, <1>5, <1>6, <1>7, <1>8, <1>9, <1>10, <1>11, <1>12, <1>13,
            <1>14, <1>15, <1>16, <1>17, <1>18, <1>19, <1>20 DEF ProducerNext

(* Consumers do not touch what closing rests on.                           *)
LEMMA ConsumerLeaves ==
  ASSUME NEW c \in Consumers, ConsumerNext(c) \/ ScannerNext
  PROVE  UNCHANGED <<pc, call, calls, phase, batch, look, cur, claim, live, closed>>
<1> USE DEF ring, making, holding, producerSide, closing
<1>1. CASE ConsumerNext(c)
  BY <1>1 DEF ConsumerNext, PeerClaims, PeerTakes, DropConsumer, FlushProducers, HandBack
<1>2. CASE ScannerNext
  BY <1>2 DEF ScannerNext, StartPop, SeePublished, SeeNothing, ClaimWon, ClaimLost, Take, TakenWake,
     LapFails, ConsumerCheckClosed, ArmConsumer, ParkConsumer, DisarmConsumer, HandBack
<1> QED  BY <1>1, <1>2

LEMMA ConsumerClosed ==
  ASSUME ClosedInv, NEW c \in Consumers, ConsumerNext(c) \/ ScannerNext PROVE ClosedInv'
BY ConsumerLeaves DEF ClosedInv

-----------------------------------------------------------------------------
(* The second reserve of reserve_block.                                    *)

LEMMA OtherProducers ==
  ASSUME TypeOK, StepInv, NEW p \in Producers, ProducerNext(p), NEW q \in Producers, q # p
  PROVE  /\ pc'[q] = pc[q] /\ phase'[q] = phase[q] /\ batch'[q] = batch[q] /\ look'[q] = look[q]
         /\ cur'[q] = cur[q]
<1> USE DEF TypeOK, StepInv, holding, making, producerSide
<1>1. /\ phase'[q] = phase[q] /\ pc'[q] = pc[q]
  BY DEF ProducerNext, Call, CheckOpen, LoadClaim, Estimate, Fallback, Reserve, Look, Publish,
     Restore, ReserveAgain, WakeConsumer, CheckClosed, Arm, Park, Quit, Abandon, Route,
     AbandonWaits, GiveUp, Leave, Close, Goto, Move
<1>2. batch'[q] = batch[q] /\ look'[q] = look[q] /\ cur'[q] = cur[q]
  BY DEF ProducerNext, Call, CheckOpen, LoadClaim, Estimate, Fallback, Reserve, Look, Publish,
     Restore, ReserveAgain, WakeConsumer, CheckClosed, Arm, Park, Quit, Abandon, Route,
     AbandonWaits, GiveUp, Leave, Close, PutBack
<1> QED  BY <1>1, <1>2

(* What another producer owns and finds free stays free.                   *)
LEMMA ProducerFree ==
  ASSUME TypeOK, StepInv, RingInv, NEW p \in Producers, ProducerNext(p), NEW q \in Producers, q # p,
         NEW pos \in Nat, Owns(q, pos), IsFreeFor(pos)
  PROVE  IsFreeFor(pos)'
<1>1. CASE Abandon(p)
  <2>1. PICK n \in Nat : n = Min(batch[p]) /\ n \in batch[p] /\ n < claim
    BY <1>1, AbandonTakes
  <2>2. IsFreeFor(n) /\ done' = [done EXCEPT ![Slot(n)] = n + Capacity]
    BY <1>1, <2>1 DEF Abandon
  <2>3. n # pos
    BY <2>1, CapacityAssumption DEF RingInv, ApartInv, Owns, TypeOK
  <2>4. Slot(n) # Slot(pos)
    BY <2>2, <2>3 DEF IsFreeFor
  <2> QED  BY <2>1, <2>2, <2>4, SlotType DEF IsFreeFor, TypeOK
<1>2. CASE ~Abandon(p)
  <2>1. UNCHANGED done
    BY <1>2 DEF ProducerNext, Call, CheckOpen, LoadClaim, Estimate, Fallback, Reserve, Look, Publish,
     Restore, ReserveAgain, WakeConsumer, CheckClosed, Arm, Park, Quit, Route, AbandonWaits, GiveUp,
     Leave, Close, ring
  <2> QED  BY <2>1 DEF IsFreeFor
<1> QED  BY <1>1, <1>2

LEMMA ConsumerFree ==
  ASSUME TypeOK, StepInv, RingInv, NEW c \in Consumers, ConsumerNext(c) \/ ScannerNext,
         NEW q \in Producers, NEW pos \in Nat, Owns(q, pos), IsFreeFor(pos)
  PROVE  IsFreeFor(pos)'
<1>1. ASSUME NEW d \in Consumers, Reading(d), HandBack(d) PROVE IsFreeFor(pos)'
  <2>1. Slot(at[d]) # Slot(pos)
    BY <1>1, OwnedIsNotRead DEF RingInv
  <2> QED  BY <1>1, <2>1, SlotType DEF HandBack, IsFreeFor, TypeOK
<1>2. CASE UNCHANGED done
  BY <1>2 DEF IsFreeFor
<1>3. CASE ConsumerNext(c)
  BY <1>1, <1>2, <1>3
     DEF ConsumerNext, PeerClaims, PeerTakes, DropConsumer, FlushProducers, Reading, ring
<1>4. CASE ScannerNext
  BY <1>1, <1>2, <1>4, ScannerIn
     DEF ScannerNext, StartPop, SeePublished, SeeNothing, ClaimWon, ClaimLost, Take, TakenWake,
         LapFails, ConsumerCheckClosed, ArmConsumer, ParkConsumer, DisarmConsumer, Reading, ring
<1> QED  BY <1>3, <1>4

LEMMA ConsumerSecond ==
  ASSUME TypeOK, StepInv, RingInv, SecondInv, NEW c \in Consumers, ConsumerNext(c) \/ ScannerNext
  PROVE  SecondInv'
<1> SUFFICES ASSUME NEW q \in Producers PROVE SecondOk(q)'
  BY DEF SecondInv
<1>1. \A pos \in batch[q] : IsFreeFor(pos) => IsFreeFor(pos)'
  BY ConsumerFree DEF Owns, StepInv
<1>2. look[q] \subseteq batch[q]
  BY DEF TypeOK
<1> QED  BY <1>1, <1>2, ConsumerLeaves DEF SecondInv, SecondOk

LEMMA ProducerSecond ==
  ASSUME TypeOK, StepInv, RingInv, ClosedInv, SecondInv, NEW p \in Producers, ProducerNext(p)
  PROVE  SecondInv'
<1>1. ASSUME NEW q \in Producers, q # p PROVE SecondOk(q)'
  <2>1. \A pos \in batch[q] : IsFreeFor(pos) => IsFreeFor(pos)'
    BY <1>1, ProducerFree DEF Owns, StepInv
  <2>2. look[q] \subseteq batch[q]
    BY DEF TypeOK
  <2> QED  BY <1>1, <2>1, <2>2, OtherProducers DEF SecondInv, SecondOk
<1>2. SecondOk(p)'
  <2> USE DEF ProducerSteps, Phases
  <2>1. CASE phase[p] # "last" /\ \/ Call(p) \/ CheckOpen(p) \/ LoadClaim(p) \/ Estimate(p)
                                  \/ Reserve(p) \/ Publish(p) \/ Restore(p) \/ WakeConsumer(p)
                                  \/ Arm(p) \/ Park(p) \/ Quit(p) \/ Abandon(p) \/ Route(p)
                                  \/ AbandonWaits(p) \/ GiveUp(p) \/ Leave(p) \/ Close(p)
    <3>1. phase'[p] # "last"
      BY <2>1, GotoEffect, MoveEffect
         DEF Call, CheckOpen, LoadClaim, Estimate, Reserve, Publish, Restore, WakeConsumer, Arm,
             Park, Quit, Abandon, Route, AbandonWaits, GiveUp, Leave, Close, producerSide, making
    <3> QED  BY <3>1 DEF SecondOk
  <2>2. CASE phase[p] # "last" /\ (Fallback(p) \/ Look(p) \/ CheckClosed(p))
    <3>1. PICK step \in ProducerSteps : Goto(p, step)
      BY <2>2, FailureType DEF Fallback, Look, CheckClosed
    <3>2. phase'[p] # "last"
      BY <2>2, <3>1, GotoEffect
    <3> QED  BY <3>2 DEF SecondOk
  <2>3. CASE ReserveAgain(p)
    <3>1. cur[p] \in Nat /\ IsFreeFor(cur[p])
      BY <2>3 DEF ReserveAgain, RingInv, HandInv, TypeOK
    <3>2. cur[p] \in batch'[p] /\ done' = done
      BY <2>3 DEF ReserveAgain, PutBack, StepInv, ring
    <3>3. pc'[p] \in {"quit", "acquire"}
      BY <2>3, MoveEffect DEF ReserveAgain
    <3> QED  BY <3>1, <3>2, <3>3 DEF SecondOk, IsFreeFor
  <2>4. CASE phase[p] = "last" /\ (Publish(p) \/ Restore(p) \/ WakeConsumer(p))
    BY <2>4, GotoEffect DEF Publish, Restore, WakeConsumer, SecondOk
  <2>5. CASE phase[p] = "last" /\ Quit(p)
    <3>1. pc[p] = "quit" /\ pc'[p] = "acquire" /\ UNCHANGED <<done, batch>>
      BY <2>5, GotoEffect DEF Quit, ring, holding
    <3> QED  BY <2>5, <3>1 DEF SecondInv, SecondOk, IsFreeFor
  <2>6. CASE phase[p] = "last" /\ Look(p)
    <3> DEFINE left == IF pc[p] = "acquire" THEN batch[p] ELSE look[p]
    <3>1. left \subseteq Nat /\ left # {} /\ pc[p] \in {"acquire", "look"}
      BY <2>6 DEF Look, RingInv, HandInv, TypeOK, StepInv
    <3>2. PICK pos \in left : IsFreeFor(pos)
      BY <2>6, <3>1 DEF SecondInv, SecondOk
    <3>3. PICK n \in left : n = Min(left)
      BY <3>1, MinFact
    <3>4. CASE IsFreeFor(n)
      <4>1. pc'[p] = "acquired"
        BY <2>6, <3>3, <3>4, GotoEffect DEF Look
      <4> QED  BY <4>1 DEF SecondOk
    <3>5. CASE ~IsFreeFor(n)
      <4>1. look' = [look EXCEPT ![p] = left \ {n}] /\ Goto(p, IF left = {n} THEN OnFailure(p) ELSE "look")
            /\ UNCHANGED done
        BY <2>6, <3>3, <3>5 DEF Look, ring
      <4>2. pos \in left \ {n}
        BY <3>2, <3>5
      <4>3. Goto(p, "look") /\ look'[p] = left \ {n}
        BY <4>1, <4>2 DEF StepInv
      <4>4. pc'[p] = "look"
        BY <4>3, GotoEffect
      <4> QED  BY <3>2, <4>1, <4>2, <4>3, <4>4 DEF SecondOk, IsFreeFor
    <3> QED  BY <3>4, <3>5
  <2>7. ASSUME phase[p] = "last"
        PROVE  Publish(p) \/ Restore(p) \/ WakeConsumer(p) \/ Quit(p) \/ Look(p) \/ ReserveAgain(p)
    <3>1. pc[p] \in {"acquire", "look", "acquired", "quit", "wake"} /\ (pc[p] = "acquire" => batch[p] # {})
      BY <2>7 DEF SecondInv, SecondOk
    <3> QED  BY <3>1 DEF ProducerNext, Call, CheckOpen, LoadClaim, Estimate, Fallback, Reserve,
                         CheckClosed, Arm, Park, Abandon, Route, AbandonWaits, GiveUp, Leave, Close,
                         Dropping
  <2> QED  BY <2>1, <2>2, <2>3, <2>4, <2>5, <2>6, <2>7 DEF ProducerNext
<1> QED  BY <1>1, <1>2 DEF SecondInv

-----------------------------------------------------------------------------
(* The scanner's search.                                                   *)

SearchInv == ScanInv /\ AttemptInv /\ DoneInv

(* The steps at which a wake matters to the scanner.                       *)
Heeding == attempt = "again" /\ (Looking \/ cpc[Scanner] \in {"closed?", "park"})

(* Published(s) as the words of the slot say.                              *)
LEMMA SamePublished ==
  ASSUME NEW s \in Slots, ready'[s] = ready[s] PROVE Published(s)' <=> Published(s)
BY DEF Published, StateOf

(* What a producer's step can do to the scanner's search: publish, which   *)
(* leads to a wake and happens on an open ring only, wake, or close.       *)
LEMMA ProducerStirs ==
  ASSUME TypeOK, StepInv, RingInv, ClosedInv, AttemptInv, TypeOK', RingInv',
         NEW p \in Producers, ProducerNext(p)
  PROVE  /\ UNCHANGED <<lap, cpc, at, tally, attempt>>
         /\ armed \/ ctoken => armed' \/ ctoken'
         /\ closed => closed'
         /\ closed' # closed => Stirred'
         /\ Heeding /\ Stirred => Stirred'
         /\ \/ \A s \in Slots : Published(s)' => Published(s) /\ ready'[s] = ready[s]
            \/ Stirred' /\ ~closed
<1> USE DEF consumerSide, consumers, closing, consumerPark, WakeScanner
<1>1. UNCHANGED <<lap, cpc, at, tally, attempt>> /\ (armed \/ ctoken => armed' \/ ctoken')
  <2>1. UNCHANGED <<lap, cpc, at, tally, attempt>>
    BY DEF ProducerNext, Call, CheckOpen, LoadClaim, Estimate, Fallback, Reserve, Look, Publish,
       Restore, ReserveAgain, WakeConsumer, CheckClosed, Arm, Park, Quit, Abandon, Route,
       AbandonWaits, GiveUp, Leave, Close
  <2>2. WakeScanner \/ UNCHANGED <<armed, ctoken>>
    BY DEF ProducerNext, Call, CheckOpen, LoadClaim, Estimate, Fallback, Reserve, Look, Publish,
       Restore, ReserveAgain, WakeConsumer, CheckClosed, Arm, Park, Quit, Abandon, Route,
       AbandonWaits, GiveUp, Leave, Close
  <2>3. armed \/ ctoken => armed' \/ ctoken'
    BY <2>2
  <2> QED  BY <2>1, <2>3
<1>2. CASE Close(p)
  <2>1. pc'[p] = "wake" /\ closed' = TRUE /\ UNCHANGED ready
    BY <1>2, GotoEffect DEF Close, ProducerSteps, ring
  <2> QED  BY <1>1, <2>1, SamePublished DEF Stirred
<1>3. CASE WakeConsumer(p)
  <2>1. UNCHANGED <<ready, closed>> /\ (Heeding => ctoken')
    BY <1>3 DEF WakeConsumer, AttemptInv, Heeding, ring
  <2> QED  BY <1>1, <2>1, SamePublished DEF Stirred
<1>4. CASE AbandonWaits(p)
  <2>1. UNCHANGED <<ready, closed>> /\ ctoken'
    BY <1>4 DEF AbandonWaits, ring
  <2> QED  BY <1>1, <2>1, SamePublished DEF Stirred
<1>5. CASE Publish(p)
  <2>1. pc'[p] = "wake" /\ UNCHANGED closed
    BY <1>5, GotoEffect DEF Publish, ProducerSteps
  <2>2. ~closed
    BY <1>5 DEF Publish, ClosedInv, TypeOK
  <2> QED  BY <1>1, <2>1, <2>2 DEF Stirred
<1>6. CASE Abandon(p)
  <2>1. pc[p] = "idle" /\ UNCHANGED <<closed, ctoken>> /\ \A q \in Producers : q # p => pc'[q] = pc[q]
    BY <1>6, GotoEffect DEF Abandon, Dropping, ProducerSteps
  <2>2. PICK n \in Nat : /\ n = Min(batch[p]) /\ ready' = [ready EXCEPT ![Slot(n)] = n + 2]
                         /\ done' = [done EXCEPT ![Slot(n)] = n + Capacity]
    BY <1>6, AbandonTakes DEF Abandon
  <2>3. PICK s \in Slots : s = Slot(n)
    BY <2>2, SlotType
  <2>4. ready'[s] = n + 2 /\ done'[s] = n + Capacity /\ \A r \in Slots : r # s => ready'[r] = ready[r]
    BY <2>2, <2>3 DEF TypeOK
  <2>5. ~Full(s)'
    BY <2>4, CapacityAssumption, MpmcAssumption DEF Full
  <2>6. ~Published(s)'
    <3>1. (Published(s) <=> Full(s))'
      BY Words, PTL DEF RingInv
    <3> QED  BY <2>5, <3>1
  <2> QED  BY <1>1, <2>1, <2>4, <2>6, SamePublished DEF Stirred
<1>7. CASE ~(Close(p) \/ WakeConsumer(p) \/ AbandonWaits(p) \/ Publish(p) \/ Abandon(p))
  <2>1. UNCHANGED <<ready, closed, armed, ctoken>> /\ pc[p] # "wake"
    BY <1>7 DEF ProducerNext, Call, CheckOpen, LoadClaim, Estimate, Fallback, Reserve, Look,
       Restore, ReserveAgain, CheckClosed, Arm, Park, Quit, Route, GiveUp, Leave, Dropping, ring
  <2>2. \A q \in Producers : q # p => pc'[q] = pc[q]
    BY <1>7, OtherProducers
  <2> QED  BY <1>1, <2>1, <2>2, SamePublished DEF Stirred
<1> QED  BY <1>2, <1>3, <1>4, <1>5, <1>6, <1>7

LEMMA ProducerSearch ==
  ASSUME TypeOK, StepInv, LapInv, RingInv, ClosedInv, SearchInv, TypeOK', RingInv',
         NEW p \in Producers, ProducerNext(p)
  PROVE  SearchInv'
<1>1. /\ UNCHANGED <<lap, cpc, at, tally, attempt>>
      /\ armed \/ ctoken => armed' \/ ctoken'
      /\ closed => closed'
      /\ closed' # closed => Stirred'
      /\ Heeding /\ Stirred => Stirred'
      /\ \/ \A s \in Slots : Published(s)' => Published(s) /\ ready'[s] = ready[s]
         \/ Stirred' /\ ~closed
  BY ProducerStirs DEF SearchInv
<1>2. UNCHANGED <<start, position, floor, spent, examined>>
  BY <1>1 DEF lap
<1>3. AttemptInv'
  BY <1>1 DEF SearchInv, AttemptInv, Looking
<1>4. Decisive' /\ (Looking \/ cpc[Scanner] \in {"closed?", "park"}) =>
        Decisive /\ \A s \in Slots : Published(s)' => Published(s) /\ ready'[s] = ready[s]
  BY <1>1 DEF Decisive, Heeding, SearchInv, AttemptInv
<1>5. Slot(position) \in Slots /\ \A pos \in examined : Slot(pos) \in Slots
  BY SlotType DEF LapInv, LapTypeOK
<1>6. ScanInv'
  BY <1>1, <1>2, <1>4, <1>5 DEF SearchInv, ScanInv, Looking
<1>7. cpc[Scanner] = "none" => \A s \in Slots : ~Published(s)'
  BY <1>1 DEF SearchInv, DoneInv
<1>8. DoneInv'
  BY <1>1, <1>4, <1>7 DEF SearchInv, DoneInv, Heeding, AttemptInv
<1> QED  BY <1>3, <1>6, <1>8 DEF SearchInv

(* No consumer's step makes a slot published.                              *)
LEMMA ConsumerWords ==
  ASSUME TypeOK, StepInv, LapInv, RingInv, ScanInv, TypeOK', RingInv',
         NEW c \in Consumers, ConsumerNext(c) \/ ScannerNext
  PROVE  \A s \in Slots : Published(s)' => Published(s) /\ ready'[s] = ready[s]
<1>1. CASE UNCHANGED ready
  BY <1>1, SamePublished
<1>2. ASSUME NEW s \in Slots, Full(s), ready' = [ready EXCEPT ![s] = done[s] + 2], UNCHANGED done
      PROVE  \A r \in Slots : Published(r)' => Published(r) /\ ready'[r] = ready[r]
  <2>1. ready'[s] = done[s] + 2 /\ \A r \in Slots : r # s => ready'[r] = ready[r]
    BY <1>2 DEF TypeOK
  <2>2. ~Full(s)'
    BY <1>2, <2>1 DEF Full, TypeOK
  <2>3. (Published(s) <=> Full(s))'
    BY Words, PTL DEF RingInv
  <2> QED  BY <2>1, <2>2, <2>3, SamePublished
<1>3. CASE PeerClaims(c)
  <2>1. PICK s \in Slots : Published(s) /\ Win(c, RoundPos(s))
    BY <1>3 DEF PeerClaims
  <2>2. Full(s) /\ RoundPos(s) = done[s] /\ done[s] \in Nat /\ Slot(done[s]) = s
    BY <2>1, Words DEF RingInv, SlotInv, SlotOk
  <2>3. PICK n \in Nat : n = done[s] /\ Win(c, n) /\ Slot(n) = s
    BY <2>1, <2>2
  <2>4. ready' = [ready EXCEPT ![s] = done[s] + 2] /\ UNCHANGED done
    BY <1>3, <2>3, WinEffect DEF PeerClaims
  <2> QED  BY <1>2, <2>2, <2>4
<1>4. CASE ClaimWon
  <2>1. PICK s \in Slots : s = Slot(position)
    BY SlotType DEF LapInv, LapTypeOK
  <2>2. at[Scanner] \in Nat /\ Slot(at[Scanner]) = s /\ ready[s] = at[Scanner] + 1
    BY <1>4, <2>1 DEF ClaimWon, ScanInv
  <2>3. Full(s) /\ done[s] = at[Scanner]
    BY <2>1, <2>2, SamePosition DEF RingInv
  <2>4. ready' = [ready EXCEPT ![s] = done[s] + 2] /\ UNCHANGED done
    BY <1>4, <2>2, <2>3, WinEffect, ScannerIn DEF ClaimWon
  <2> QED  BY <1>2, <2>3, <2>4
<1> QED
  BY <1>1, <1>3, <1>4
     DEF ConsumerNext, PeerTakes, DropConsumer, FlushProducers, HandBack, ring,
         ScannerNext, StartPop, SeePublished, SeeNothing, ClaimLost, Take, TakenWake,
         LapFails, ConsumerCheckClosed, ArmConsumer, ParkConsumer, DisarmConsumer

LEMMA PeerSearch ==
  ASSUME TypeOK, StepInv, LapInv, RingInv, SearchInv, TypeOK', RingInv',
         NEW c \in Consumers, ConsumerNext(c)
  PROVE  SearchInv'
<1> USE ScannerIn
<1>1. \A s \in Slots : Published(s)' => Published(s) /\ ready'[s] = ready[s]
  BY ConsumerWords DEF SearchInv
<1>2. UNCHANGED <<lap, attempt, armed, ctoken, closed, pc>>
  BY DEF ConsumerNext, PeerClaims, PeerTakes, DropConsumer, FlushProducers, consumerPark, closing,
         producerSide, making
<1>3. Stirred' <=> Stirred
  BY <1>2 DEF Stirred
<1>4. CASE cpc'[Scanner] \in {"flush", "gone"}
  BY <1>2, <1>4 DEF SearchInv, ScanInv, AttemptInv, DoneInv, Looking
<1>5. CASE cpc'[Scanner] = cpc[Scanner] /\ at'[Scanner] = at[Scanner]
  <2>1. Slot(position) \in Slots /\ \A pos \in examined : Slot(pos) \in Slots
    BY SlotType DEF LapInv, LapTypeOK
  <2>2. UNCHANGED <<position, examined>>
    BY <1>2 DEF lap
  <2>3. ScanInv'
    BY <1>1, <1>2, <1>3, <1>5, <2>1, <2>2 DEF SearchInv, ScanInv, Looking, Decisive
  <2>4. AttemptInv'
    BY <1>2, <1>5 DEF SearchInv, AttemptInv, Looking
  <2>5. DoneInv'
    BY <1>1, <1>2, <1>3, <1>5 DEF SearchInv, DoneInv, Decisive
  <2> QED  BY <2>3, <2>4, <2>5 DEF SearchInv
<1>6. \/ cpc'[Scanner] \in {"flush", "gone"}
      \/ cpc'[Scanner] = cpc[Scanner] /\ at'[Scanner] = at[Scanner]
  <2>1. CASE PeerClaims(c) \/ PeerTakes(c)
    BY <2>1, CGotoEffect DEF PeerClaims, PeerTakes, ConsumerSteps, TypeOK
  <2>2. CASE DropConsumer(c) \/ FlushProducers(c)
    BY <2>2, CGotoEffect DEF DropConsumer, FlushProducers, ConsumerSteps
  <2> QED  BY <2>1, <2>2 DEF ConsumerNext
<1> QED  BY <1>4, <1>5, <1>6

LEMMA ScannerSearch ==
  ASSUME TypeOK, StepInv, LapInv, RingInv, SearchInv, TypeOK', RingInv', ScannerNext
  PROVE  SearchInv'
<1> USE ScannerIn DEF closing, consumerPark, SearchInv, Looking
<1>1. \A s \in Slots : Published(s)' => Published(s) /\ ready'[s] = ready[s]
  BY ConsumerWords
<1>2. Slot(position) \in Slots /\ \A pos \in examined : Slot(pos) \in Slots
  BY SlotType DEF LapInv, LapTypeOK
<1>3. Stirred' => Stirred
  BY ConsumerLeaves DEF Stirred, ScannerNext, StartPop, SeePublished, SeeNothing, ClaimWon, ClaimLost,
     Take, TakenWake, LapFails, ConsumerCheckClosed, ArmConsumer, ParkConsumer, DisarmConsumer
<1>4. UNCHANGED closed
  BY ConsumerLeaves
(* A lap that begins has nothing behind it.                                *)
<1>5. ASSUME cpc'[Scanner] = "scan", examined' = {}, attempt' = "last" => closed,
             attempt' = "again" => armed' \/ ctoken'
      PROVE  SearchInv'
  BY <1>4, <1>5 DEF ScanInv, AttemptInv, DoneInv
<1>6. ASSUME cpc'[Scanner] \in {"take", "route", "idle", "disarm", "arm"},
             cpc'[Scanner] \in {"idle", "disarm", "arm"} => attempt' = "first",
             attempt' = "last" => closed
      PROVE  SearchInv'
  BY <1>4, <1>6 DEF ScanInv, AttemptInv, DoneInv
<1>7. StartLap => cpc'[Scanner] = "scan" /\ examined' = {}
  BY CGotoEffect DEF StartLap, NextLap, ConsumerSteps
<1>8. CASE StartPop
  BY <1>5, <1>7, <1>8 DEF StartPop, AttemptInv
<1>9. CASE SeePublished
  <2>1. /\ cpc[Scanner] = "scan" /\ Published(Slot(position)) /\ cpc'[Scanner] = "cas"
        /\ UNCHANGED <<lap, ready, attempt, armed, ctoken, pc>>
    BY <1>9, CGotoEffect DEF SeePublished, ConsumerSteps, ring, producerSide, making
  <2>2. at'[Scanner] = RoundPos(Slot(position))
    BY <1>9 DEF SeePublished, TypeOK
  <2>3. /\ at'[Scanner] \in Nat /\ Slot(at'[Scanner]) = Slot(position)
        /\ ready[Slot(position)] = at'[Scanner] + 1
    BY <1>2, <2>1, <2>2, Words DEF RingInv, SlotInv, SlotOk, Full
  <2>4. UNCHANGED <<position, examined>> /\ (Stirred <=> Stirred')
    BY <2>1 DEF lap, Stirred
  <2>5. ScanInv'
    BY <1>1, <1>2, <2>1, <2>3, <2>4 DEF ScanInv, Decisive
  <2>6. AttemptInv' /\ DoneInv'
    BY <1>4, <2>1 DEF AttemptInv, DoneInv
  <2> QED  BY <2>5, <2>6
<1>10. CASE SeeNothing
  <2>1. /\ cpc[Scanner] = "scan" /\ cpc' = cpc /\ ~Published(Slot(position))
        /\ UNCHANGED <<ready, attempt, armed, ctoken, pc>> /\ examined' = examined \cup {position}
    BY <1>10 DEF SeeNothing, StepOver, Record, ring, producerSide, making, consumers
  <2>2. Stirred <=> Stirred'
    BY <2>1 DEF Stirred
  <2>3. ScanInv'
    BY <1>1, <1>2, <2>1, <2>2 DEF ScanInv, Decisive
  <2>4. AttemptInv' /\ DoneInv'
    BY <1>4, <2>1 DEF AttemptInv, DoneInv
  <2> QED  BY <2>3, <2>4
<1>11. CASE ClaimWon
  BY <1>6, <1>11, CGotoEffect DEF ClaimWon, ConsumerSteps, AttemptInv
<1>12. CASE ClaimLost
  <2>1. /\ cpc[Scanner] = "cas" /\ cpc'[Scanner] = "scan" /\ ready[Slot(position)] # at[Scanner] + 1
        /\ UNCHANGED <<ready, attempt, armed, ctoken, pc>> /\ examined' = examined \cup {position}
    BY <1>12, CGotoEffect
       DEF ClaimLost, SkipContended, Record, ring, producerSide, making, ConsumerSteps
  <2>2. Stirred <=> Stirred'
    BY <2>1 DEF Stirred
  <2>3. ScanInv'
    BY <1>1, <1>2, <2>1, <2>2 DEF ScanInv, Decisive
  <2>4. AttemptInv' /\ DoneInv'
    BY <1>4, <2>1 DEF AttemptInv, DoneInv
  <2> QED  BY <2>3, <2>4
<1>13. CASE Take
  BY <1>6, <1>13, CGotoEffect DEF Take, ConsumerSteps, AttemptInv
<1>14. CASE TakenWake
  BY <1>6, <1>14, CGotoEffect DEF TakenWake, ConsumerSteps
<1>15. CASE LapFails
  <2>1. /\ cpc[Scanner] = "scan" /\ Exhausted /\ examined' = {}
        /\ cpc'[Scanner] = IF attempt = "last" THEN "none" ELSE "closed?"
        /\ UNCHANGED <<ready, attempt, armed, ctoken, pc>>
    BY <1>15, CGotoEffect DEF LapFails, NextLap, ConsumerSteps, ring, producerSide, making
  <2>2. \A s \in Slots : \E pos \in examined : Slot(pos) = s
    <3> SUFFICES ASSUME NEW s \in Slots PROVE \E pos \in examined : Slot(pos) = s
      OBVIOUS
    <3>1. start \in Nat
      BY DEF LapInv, LapTypeOK
    <3>2. PICK pos \in start..(start + Capacity - 1) : Slot(pos) = s
      BY <3>1, SlotOnto
    <3>3. pos \in start..(floor - 1)
      BY <2>1, <3>1, <3>2, CapacityAssumption DEF LapInv, LapTypeOK, Exhausted, End
    <3> QED  BY <3>2, <3>3 DEF LapInv
  <2>3. Stirred <=> Stirred'
    BY <2>1 DEF Stirred
  <2>4. Decisive => \A s \in Slots : ~Published(s)'
    BY <1>1, <2>1, <2>2 DEF ScanInv
  <2>5. ScanInv' /\ AttemptInv'
    BY <1>4, <2>1 DEF ScanInv, AttemptInv
  <2>6. DoneInv'
    BY <1>4, <2>1, <2>3, <2>4 DEF DoneInv, Decisive, AttemptInv
  <2> QED  BY <2>5, <2>6
<1>16. CASE ConsumerCheckClosed /\ closed
  BY <1>5, <1>7, <1>16 DEF ConsumerCheckClosed
<1>17. CASE ConsumerCheckClosed /\ ~closed
  <2>1. /\ cpc[Scanner] = "closed?" /\ UNCHANGED <<ready, attempt, armed, ctoken, pc>>
        /\ cpc'[Scanner] = IF attempt = "first" THEN "arm" ELSE "park"
    BY <1>17, CGotoEffect DEF ConsumerCheckClosed, ConsumerSteps, ring, producerSide, making
  <2>2. attempt \in {"first", "again"}
    BY <2>1 DEF AttemptInv, TypeOK
  <2>3. Stirred <=> Stirred'
    BY <2>1 DEF Stirred
  <2>4. ScanInv' /\ AttemptInv'
    BY <1>4, <2>1, <2>2 DEF ScanInv, AttemptInv
  <2>5. DoneInv'
    BY <1>1, <1>4, <1>17, <2>1, <2>3 DEF DoneInv, Decisive
  <2> QED  BY <2>4, <2>5
<1>18. CASE ArmConsumer
  BY <1>5, <1>7, <1>18 DEF ArmConsumer
<1>19. CASE ParkConsumer
  BY <1>5, <1>7, <1>19 DEF ParkConsumer
<1>20. CASE DisarmConsumer
  BY <1>6, <1>20, CGotoEffect DEF DisarmConsumer, ConsumerSteps, AttemptInv
<1> QED
  BY <1>8, <1>9, <1>10, <1>11, <1>12, <1>13, <1>14, <1>15, <1>16, <1>17, <1>18, <1>19, <1>20
     DEF ScannerNext

-----------------------------------------------------------------------------
(* The invariant.                                                          *)

IInv ==
  TypeOK /\ StepInv /\ LapInv /\ RingInv /\ ClosedInv /\ SecondInv /\ SearchInv

LEMMA InitSlots == ASSUME NEW opening, InitFrom(opening) PROVE SlotInv
<1>1. Capacity \in Nat /\ Capacity >= 4 /\ Prefill \in Nat
  BY CapacityAssumption, MpmcAssumption
<1>2. claim = Capacity + Prefill /\ \A p \in Producers : \A pos \in Nat : ~Owns(p, pos)
  BY DEF InitFrom, Owns
<1> SUFFICES ASSUME NEW s \in Slots PROVE SlotOk(s)
  BY DEF SlotInv
<1>3. s \in Nat /\ s < Capacity
  BY <1>1 DEF Slots
<1>4. done[s] = s + Capacity /\ done[s] \in Nat /\ done[s] >= Capacity
  BY <1>1, <1>3 DEF InitFrom
<1>5. Slot(s) = s
  <2>1. 0 \in Nat /\ s = Capacity * 0 + s
    BY <1>1, <1>3
  <2> QED  BY <1>3, <2>1, SlotUnique
<1>6. Slot(done[s]) = s
  BY <1>3, <1>4, <1>5, SlotLap
<1>7. CASE s < Prefill
  <2>1. Full(s)
    BY <1>1, <1>3, <1>4, <1>7 DEF InitFrom, Full
  <2>2. Spent(done[s])
    BY <1>1, <1>2, <1>3, <1>4, <1>7 DEF Spent
  <2> QED  BY <1>4, <1>6, <2>1, <2>2 DEF SlotOk
<1>8. CASE ~(s < Prefill)
  <2>1. Resting(s)
    BY <1>1, <1>3, <1>4, <1>8 DEF InitFrom, Resting
  <2> QED  BY <1>4, <1>6, <2>1 DEF SlotOk
<1> QED  BY <1>7, <1>8

LEMMA InitIInv == ASSUME Init PROVE IInv
<1> USE CapacityAssumption, MpmcAssumption DEF InitFrom
<1>0. PICK opening \in Openings : InitFrom(opening)
  BY DEF Init
<1> USE <1>0
<1>1. LapInv
  BY DEF LapInit, LapInv, LapTypeOK, End, ProbeLimit
<1>2. TypeOK
  <2>1. ready \in [Slots -> Nat] /\ done \in [Slots -> Nat] /\ cell \in [Slots -> Nat \cup {None}]
    BY DEF Slots
  <2>2. claim \in Nat /\ consumed \in Nat
    OBVIOUS
  <2>3. want \in [Producers -> 0..BatchSize] /\ tally \in [Consumers -> 0..(FlushAt - 1)]
    OBVIOUS
  <2>4. calls \in [Producers -> Nat] /\ alive \subseteq Consumers
    OBVIOUS
  <2> QED  BY <1>1, <2>1, <2>2, <2>3, <2>4 DEF LapInv, TypeOK
<1>3. StepInv
  BY DEF StepInv, ProducerSteps, ConsumerSteps
<1>4. HandInv /\ ApartInv /\ ReadInv
  BY DEF HandInv, ApartInv, Owns, ReadInv, Reading, None
<1>5. ClosedInv /\ SecondInv
  BY DEF ClosedInv, SecondInv, SecondOk
<1>6. SearchInv
  BY ScannerIn DEF SearchInv, ScanInv, AttemptInv, DoneInv, Looking
<1> QED  BY <1>1, <1>2, <1>3, <1>4, <1>5, <1>6, InitSlots DEF IInv, RingInv

LEMMA NextIInv == ASSUME IInv, [Next]_vars PROVE IInv'
<1> USE DEF IInv
<1>1. LapInv'
  BY LapNextInv
<1>2. ASSUME NEW p \in Producers, ProducerNext(p) PROVE IInv'
  <2>1. TypeOK' /\ StepInv'
    BY <1>1, <1>2, ProducerTypes DEF RingInv
  <2>2. RingInv' /\ ClosedInv' /\ SecondInv'
    BY <1>2, ProducerRing, ProducerClosed, ProducerSecond
  <2>3. SearchInv'
    BY <1>2, <2>1, <2>2, ProducerSearch
  <2> QED  BY <1>1, <2>1, <2>2, <2>3
<1>3. ASSUME NEW c \in Consumers, ConsumerNext(c) PROVE IInv'
  <2>1. TypeOK' /\ StepInv'
    BY <1>1, <1>3, ConsumerTypes DEF RingInv
  <2>2. RingInv' /\ ClosedInv' /\ SecondInv'
    BY <1>3, ConsumerRing, ConsumerClosed, ConsumerSecond DEF SearchInv
  <2>3. SearchInv'
    BY <1>3, <2>1, <2>2, PeerSearch
  <2> QED  BY <1>1, <2>1, <2>2, <2>3
<1>4. CASE ScannerNext
  <2>1. TypeOK' /\ StepInv'
    BY <1>1, <1>4, ScannerTypes DEF RingInv, SearchInv
  <2>2. RingInv' /\ ClosedInv' /\ SecondInv'
    BY <1>4, ScannerIn, ConsumerRing, ConsumerClosed, ConsumerSecond DEF SearchInv
  <2>3. SearchInv'
    BY <1>4, <2>1, <2>2, ScannerSearch
  <2> QED  BY <1>1, <2>1, <2>2, <2>3
<1>5. CASE UNCHANGED vars
  <2>1. /\ UNCHANGED <<lap, start, position, floor, spent, examined>>
        /\ UNCHANGED <<ready, done, cell, claim, consumed, pc, call, calls, phase>>
        /\ UNCHANGED <<batch, seen, want, look, cur, awaited, bits, tokens>>
        /\ UNCHANGED <<cpc, at, tally, attempt, armed, ctoken, live, alive, closed, consumerClosed>>
    BY <1>5 DEF vars, ring, producerSide, making, holding, producerPark, consumerSide, consumers,
       consumerPark, closing, lap
  <2>2. TypeOK' /\ StepInv'
    BY <1>1, <2>1 DEF TypeOK, StepInv, LapInv
  <2>3. RingInv'
    BY <2>1, QuietConsumer DEF Reading
  <2>4. ClosedInv'
    BY <2>1 DEF ClosedInv
  <2>5. SecondInv'
    BY <2>1 DEF SecondInv, SecondOk, IsFreeFor
  <2>6. SearchInv'
    BY <2>1 DEF SearchInv, ScanInv, AttemptInv, DoneInv, Looking, Decisive, Stirred, Published, StateOf
  <2> QED  BY <1>1, <2>2, <2>3, <2>4, <2>5, <2>6
<1> QED  BY <1>2, <1>3, <1>4, <1>5 DEF Next, Finished

LEMMA IInvAlways == Spec => []IInv
<1>1. Init => IInv
  BY InitIInv
<1>2. IInv /\ [Next]_vars => IInv'
  BY NextIInv
<1> QED  BY <1>1, <1>2, PTL DEF Spec

-----------------------------------------------------------------------------
(* The routing of releases.                                                *)

(* A position announced is its announcer's, or nobody's any more.          *)
AwaitedApart ==
  \A p, q \in Producers : p # q => \A pos \in awaited[p] : ~Owns(q, pos)

(* The attempts whose failure puts p to sleep, and the positions each of   *)
(* them has asked after.                                                   *)
Announced(p) ==
  phase[p] = "again" /\ awaited[p] # {} /\ pc[p] \in {"acquire", "look", "closed?", "park"}

Asked(p) ==
  {pos \in batch[p] :
     \/ pc[p] = "park"
     \/ pc[p] = "closed?" /\ call[p] = "push_block"
     \/ pc[p] = "look" /\ pos \notin look[p]}

(* A wake finds p, and what p asked after has stayed as it was unless one  *)
(* is under way or has come.                                               *)
Heard(p) ==
  /\ awaited[p] = batch[p]
  /\ p \in bits \cup tokens
  /\ \A pos \in Asked(p) : IsFreeFor(pos) => p \in tokens \/ Routing(pos)

AnnounceInv ==
  \A p \in Producers :
    /\ pc[p] = "park" => phase[p] = "again"
    /\ pc[p] = "open?" => phase[p] = "first"
    /\ phase[p] = "again" /\ pc[p] \in {"estimate", "fallback", "take"} => awaited[p] = {}
    /\ Announced(p) => Heard(p)

RouteInv == AwaitedApart /\ AnnounceInv

(* What a wake does to those announced.                                    *)
LEMMA WakeReaches ==
  ASSUME TypeOK, NEW pos, WakeFor(pos), NEW p \in Producers
  PROVE  /\ UNCHANGED awaited
         /\ p \in tokens => p \in tokens'
         /\ p \in bits \cup tokens => p \in bits' \cup tokens'
BY DEF WakeFor, Interested, producerPark

(* The release of a position goes to whoever announced it.                 *)
LEMMA RouteReaches ==
  ASSUME TypeOK, StepInv, RouteInv, NEW p \in Producers, Announced(p),
         NEW pos \in batch[p], WakeFor(pos)
  PROVE  p \in tokens'
<1>1. CASE p \in tokens
  BY <1>1, WakeReaches
<1>2. CASE p \notin tokens
  <2> DEFINE reserved == Interested("reserved", pos)
  <2>1. p \in bits /\ pos \in awaited[p] /\ Owns(p, pos)
    BY <1>2 DEF RouteInv, AnnounceInv, Heard, Owns
  <2>2. p \in reserved
    BY <2>1 DEF Interested
  <2>3. \A q \in reserved : q = p
    <3> SUFFICES ASSUME NEW q \in bits, pos \in awaited[q] PROVE q = p
      BY DEF Interested
    <3> QED  BY <2>1 DEF RouteInv, AwaitedApart, TypeOK
  <2>4. PICK q \in reserved : tokens' = tokens \cup {q}
    BY <2>2 DEF WakeFor
  <2> QED  BY <2>3, <2>4
<1> QED  BY <1>1, <1>2

(* The last part of Heard, for one position.                               *)
Answered(p, pos) == IsFreeFor(pos) => p \in tokens \/ Routing(pos)

(* A release makes a position free and is then routed.                     *)
LEMMA ReleaseIsRouted ==
  ASSUME NEW n \in Nat, NEW pos \in Nat, done \in [Slots -> Nat],
         done' = [done EXCEPT ![Slot(n)] = n + Capacity], IsFreeFor(pos)'
  PROVE  IsFreeFor(pos) \/ n + Capacity = pos
BY SlotType DEF IsFreeFor

(* Another producer's step.                                                *)
LEMMA OtherPark ==
  ASSUME TypeOK, StepInv, NEW p \in Producers, ProducerNext(p), NEW q \in Producers, q # p
  PROVE  /\ call'[q] = call[q] /\ awaited'[q] = awaited[q]
         /\ q \in tokens => q \in tokens'
         /\ q \in bits \cup tokens => q \in bits' \cup tokens'
<1>1. call'[q] = call[q]
  BY DEF TypeOK, making, producerSide, ProducerNext, Call, CheckOpen, LoadClaim, Estimate, Fallback, Reserve, Look, Publish,
     Restore, ReserveAgain, WakeConsumer, CheckClosed, Arm, Park, Quit, Abandon, Route,
     AbandonWaits, GiveUp, Leave, Close, Goto, Move
<1>2. CASE Route(p)
  <2>1. WakeFor(cur[p] + Capacity)
    BY <1>2 DEF Route
  <2> QED  BY <1>1, <2>1, WakeReaches
<1>3. CASE ~Route(p)
  BY <1>1, <1>3 DEF TypeOK, StepInv, holding, producerPark, producerSide, ProducerNext, Call, CheckOpen, LoadClaim, Estimate, Fallback, Reserve, Look, Publish,
     Restore, ReserveAgain, WakeConsumer, CheckClosed, Arm, Park, Quit, Abandon,
     AbandonWaits, GiveUp, Leave, Close
<1> QED  BY <1>1, <1>2, <1>3

LEMMA OtherAnswers ==
  ASSUME TypeOK, StepInv, RingInv, RouteInv, NEW p \in Producers, ProducerNext(p),
         NEW q \in Producers, q # p, Announced(q), NEW pos \in batch[q], Answered(q, pos)
  PROVE  Answered(q, pos)'
<1>1. UNCHANGED <<cpc, at>> /\ pos \in Nat
  BY DEF StepInv, ProducerNext, Call, CheckOpen, LoadClaim, Estimate, Fallback, Reserve, Look,
     Publish, Restore, ReserveAgain, WakeConsumer, CheckClosed, Arm, Park, Quit, Abandon, Route,
     AbandonWaits, GiveUp, Leave, Close, consumerSide, consumers
<1>2. CASE Route(p)
  <2>1. WakeFor(cur[p] + Capacity) /\ UNCHANGED done
    BY <1>2 DEF Route, ring
  <2>2. CASE cur[p] + Capacity = pos
    BY <2>1, <2>2, RouteReaches DEF Answered
  <2>3. CASE cur[p] + Capacity # pos
    <3>1. Routing(pos) => Routing(pos)'
      BY <1>1, <2>3, OtherProducers DEF Routing
    <3> QED  BY <2>1, <3>1, WakeReaches DEF Answered, IsFreeFor
  <2> QED  BY <2>2, <2>3
<1>3. CASE ~Route(p)
  <2>1. pc[p] # "route"
    BY <1>3 DEF ProducerNext, Call, CheckOpen, LoadClaim, Estimate, Fallback, Reserve, Look,
       Publish, Restore, ReserveAgain, WakeConsumer, CheckClosed, Arm, Park, Quit, Abandon,
       AbandonWaits, GiveUp, Leave, Close, Dropping
  <2>2. Routing(pos) => Routing(pos)'
    BY <1>1, <2>1, OtherProducers DEF Routing
  <2>3. CASE Abandon(p)
    <3>1. PICK n \in Nat : n = Min(batch[p])
      BY <2>3, AbandonTakes
    <3>2. /\ done' = [done EXCEPT ![Slot(n)] = n + Capacity]
          /\ cur'[p] = n /\ pc'[p] = "route"
      BY <2>3, <3>1, GotoEffect DEF Abandon, TypeOK, ProducerSteps
    <3>3. IsFreeFor(pos)' => IsFreeFor(pos) \/ Routing(pos)'
      BY <1>1, <3>2, ReleaseIsRouted DEF Routing, TypeOK
    <3> QED  BY <2>2, <3>3, OtherPark DEF Answered
  <2>4. CASE ~Abandon(p)
    <3>1. UNCHANGED done
      BY <1>3, <2>4 DEF ProducerNext, Call, CheckOpen, LoadClaim, Estimate, Fallback, Reserve,
         Look, Publish, Restore, ReserveAgain, WakeConsumer, CheckClosed, Arm, Park, Quit,
         AbandonWaits, GiveUp, Leave, Close, ring
    <3> QED  BY <2>2, <3>1, OtherPark DEF Answered, IsFreeFor
  <2> QED  BY <2>3, <2>4
<1> QED  BY <1>2, <1>3

(* Its own step leads p to sleep through one look at each position.        *)
LEMMA OwnHeard ==
  ASSUME TypeOK, StepInv, RingInv, ClosedInv, SecondInv, RouteInv, TypeOK',
         NEW p \in Producers, ProducerNext(p)
  PROVE  /\ pc'[p] = "park" => phase'[p] = "again"
         /\ pc'[p] = "open?" => phase'[p] = "first"
         /\ phase'[p] = "again" /\ pc'[p] \in {"estimate", "fallback", "take"} => awaited'[p] = {}
         /\ Announced(p)' => Heard(p)'
<1> DEFINE Fine == /\ pc'[p] = "park" => phase'[p] = "again"
                   /\ pc'[p] = "open?" => phase'[p] = "first"
                   /\ phase'[p] = "again" /\ pc'[p] \in {"estimate", "fallback", "take"} =>
                        awaited'[p] = {}
                   /\ Announced(p)' => Heard(p)'
<1> USE DEF ProducerSteps, Phases, producerPark, holding, ring
<1>0. UNCHANGED <<cpc, at>> /\ batch[p] \subseteq Nat
  BY DEF StepInv, ProducerNext, Call, CheckOpen, LoadClaim, Estimate, Fallback, Reserve, Look,
     Publish, Restore, ReserveAgain, WakeConsumer, CheckClosed, Arm, Park, Quit, Abandon, Route,
     AbandonWaits, GiveUp, Leave, Close, consumerSide, consumers
<1>1. CASE Call(p)
  <2>1. pc'[p] \in {"open?", "acquire"} /\ phase'[p] = "first"
    BY <1>1 DEF Call, ClosedInv, StepInv
  <2> QED  BY <2>1 DEF Announced
<1>2. CASE CheckOpen(p)
  <2>1. pc'[p] \in {"idle", "acquire"} /\ phase'[p] = "first"
    BY <1>2, GotoEffect DEF CheckOpen, RouteInv, AnnounceInv
  <2> QED  BY <2>1 DEF Announced
<1>3. CASE LoadClaim(p)
  <2>1. /\ pc'[p] = "estimate" /\ phase'[p] = phase[p] /\ awaited' = awaited
        /\ pc[p] = "acquire" /\ batch[p] = {}
    BY <1>3, GotoEffect DEF LoadClaim
  <2> QED  BY <2>1 DEF Announced, RouteInv, AnnounceInv, Heard
<1>4. CASE Estimate(p)
  <2>1. /\ pc'[p] \in {"take", "fallback"} /\ phase'[p] = phase[p] /\ awaited' = awaited
        /\ pc[p] = "estimate"
    BY <1>4, GotoEffect DEF Estimate
  <2> QED  BY <2>1 DEF Announced, RouteInv, AnnounceInv
<1>5. CASE Fallback(p)
  <2>1. PICK step \in {"take", OnFailure(p)} : Goto(p, step)
    BY <1>5 DEF Fallback
  <2>2. step \in {"take", "idle", "closed?", "arm", "park"} /\ step # "acquire" /\ step # "look"
    BY <2>1, FailureType
  <2>3. step = "park" => phase[p] = "again"
    BY <2>1 DEF OnFailure
  <2>4. /\ pc'[p] = step /\ phase'[p] \in {"first", phase[p]} /\ awaited' = awaited
        /\ step # "idle" => phase'[p] = phase[p]
    BY <1>5, <2>1, <2>2, GotoEffect DEF Fallback
  <2>5. phase[p] = "again" => awaited[p] = {}
    BY <1>5 DEF Fallback, RouteInv, AnnounceInv
  <2> QED  BY <2>2, <2>3, <2>4, <2>5 DEF Announced
<1>6. CASE Reserve(p)
  <2>1. pc'[p] = "acquire" /\ phase'[p] = phase[p] /\ awaited' = awaited /\ pc[p] = "take"
    BY <1>6, GotoEffect DEF Reserve
  <2> QED  BY <2>1 DEF Announced, RouteInv, AnnounceInv
<1>7. CASE Look(p)
  <2> DEFINE left == IF pc[p] = "acquire" THEN batch[p] ELSE look[p]
  <2>1. left \subseteq batch[p] /\ left # {} /\ left \subseteq Nat /\ pc[p] \in {"acquire", "look"}
    BY <1>0, <1>7 DEF Look, RingInv, HandInv, TypeOK
  <2>2. PICK pos \in left : pos = Min(left)
    BY <2>1, MinFact
  <2>3. CASE IsFreeFor(pos)
    <3>1. pc'[p] = "acquired"
      BY <1>7, <2>2, <2>3, GotoEffect DEF Look
    <3> QED  BY <3>1 DEF Announced
  <2>4. CASE ~IsFreeFor(pos)
    <3>1. /\ look'[p] = left \ {pos} /\ Goto(p, IF left = {pos} THEN OnFailure(p) ELSE "look")
          /\ UNCHANGED <<done, batch, awaited, bits, tokens>>
      BY <1>7, <2>2, <2>4 DEF Look, StepInv
    <3> DEFINE step == IF left = {pos} THEN OnFailure(p) ELSE "look"
    <3>2. step \in {"look", "idle", "closed?", "arm", "park"}
      BY FailureType
    <3> HIDE DEF step
    <3>3. /\ pc'[p] = step /\ phase'[p] \in {"first", phase[p]}
          /\ step # "idle" => phase'[p] = phase[p]
      BY <3>1, <3>2, GotoEffect DEF step
    <3>4. step = "park" => phase[p] = "again"
      BY DEF OnFailure, step
    <3>5. ASSUME Announced(p)' PROVE Heard(p)'
      <4>1. phase[p] = "again" /\ awaited[p] # {} /\ Announced(p)
        BY <2>1, <3>1, <3>3, <3>5 DEF Announced
      <4>2. Heard(p)
        BY <4>1 DEF RouteInv, AnnounceInv
      <4>3. step # "look" => left = {pos}
        BY DEF step
      <4>4. \A n \in Asked(p)' : n \in Asked(p) \/ n = pos
        BY <2>1, <3>1, <3>2, <3>3, <4>3 DEF Asked
      <4>5. \A n \in batch[p] : Routing(n) => Routing(n)'
        BY <1>0, <2>1, OtherProducers DEF Routing
      <4>6. ~IsFreeFor(pos)' /\ \A n \in Nat : IsFreeFor(n)' = IsFreeFor(n)
        BY <2>4, <3>1 DEF IsFreeFor
      <4>7. \A n \in Asked(p)' : IsFreeFor(n)' => (p \in tokens \/ Routing(n))'
        BY <1>0, <3>1, <4>2, <4>4, <4>5, <4>6 DEF Heard, Asked
      <4> QED  BY <3>1, <4>2, <4>7 DEF Heard
    <3> QED  BY <3>2, <3>3, <3>4, <3>5
  <2> QED  BY <2>3, <2>4
<1>8. CASE Publish(p)
  <2>1. pc'[p] = "wake"
    BY <1>8, GotoEffect DEF Publish
  <2> QED  BY <2>1 DEF Announced
<1>9. CASE Restore(p)
  <2>1. pc'[p] = "idle"
    BY <1>9, GotoEffect DEF Restore
  <2> QED  BY <2>1 DEF Announced
<1>10. CASE ReserveAgain(p)
  <2>1. phase'[p] = "last" /\ pc'[p] \in {"quit", "acquire"}
    BY <1>10, MoveEffect DEF ReserveAgain
  <2> QED  BY <2>1 DEF Announced
<1>11. CASE WakeConsumer(p)
  <2>1. pc'[p] \in {"quit", "idle"}
    BY <1>11, GotoEffect DEF WakeConsumer
  <2> QED  BY <2>1 DEF Announced
<1>12. CASE CheckClosed(p)
  <2> DEFINE step == IF phase[p] = "first"
                     THEN IF consumerClosed THEN "idle" ELSE "arm"
                     ELSE CASE consumerClosed -> "quit"
                            [] ~consumerClosed /\ call[p] = "push_block" -> "park"
                            [] OTHER -> "acquire"
  <2>1. Goto(p, step) /\ pc[p] = "closed?" /\ UNCHANGED <<done, batch, look, awaited, bits, tokens>>
    BY <1>12 DEF CheckClosed, producerSide
  <2>2. /\ step \in {"idle", "quit", "arm", "park", "acquire"}
        /\ step \in {"park", "acquire"} => phase[p] # "first"
        /\ step = "park" => call[p] = "push_block"
    <3>1. CASE phase[p] = "first"
      BY <3>1
    <3>2. CASE phase[p] # "first" /\ consumerClosed
      BY <3>2
    <3>3. CASE phase[p] # "first" /\ ~consumerClosed /\ call[p] = "push_block"
      BY <3>3
    <3>4. CASE phase[p] # "first" /\ ~consumerClosed /\ call[p] # "push_block"
      BY <3>4
    <3> QED  BY <3>1, <3>2, <3>3, <3>4
  <2> HIDE DEF step
  <2>3. pc'[p] = step /\ (step # "idle" => phase'[p] = phase[p])
    BY <2>1, <2>2, GotoEffect
  <2>4. phase[p] \in {"first", "again"}
    BY <2>1 DEF SecondInv, SecondOk, TypeOK
  <2>5. ASSUME Announced(p)' PROVE Heard(p)'
    <3>1. Announced(p) /\ step \in {"park", "acquire"}
      BY <2>1, <2>2, <2>3, <2>5 DEF Announced
    <3>2. Heard(p)
      BY <3>1 DEF RouteInv, AnnounceInv
    <3>3. \A n \in Asked(p)' : n \in Asked(p)
      BY <2>1, <2>2, <2>3, <3>1 DEF Asked
    <3>4. \A n \in batch[p] : Routing(n) => Routing(n)'
      BY <1>0, <2>1, OtherProducers DEF Routing
    <3>5. \A n \in Nat : IsFreeFor(n)' = IsFreeFor(n)
      BY <2>1 DEF IsFreeFor
    <3>6. \A n \in Asked(p)' : IsFreeFor(n)' => (p \in tokens \/ Routing(n))'
      BY <1>0, <2>1, <3>2, <3>3, <3>4, <3>5 DEF Heard, Asked
    <3> QED  BY <2>1, <3>2, <3>6 DEF Heard
  <2> QED  BY <2>2, <2>3, <2>4, <2>5
<1>13. CASE Arm(p)
  <2>1. /\ pc'[p] = (IF call[p] = "push_block" THEN "acquire" ELSE "closed?") /\ phase'[p] = "again"
        /\ awaited'[p] = batch[p] /\ batch' = batch /\ bits' = bits \cup {p}
    BY <1>13, MoveEffect DEF Arm, StepInv
  <2>2. pc'[p] = "closed?" => call'[p] # "push_block"
    BY <1>13, <2>1 DEF Arm, Move, TypeOK
  <2>3. Asked(p)' = {}
    BY <2>1, <2>2 DEF Asked
  <2> QED  BY <2>1, <2>3 DEF Heard
<1>14. CASE Park(p)
  <2>1. phase'[p] = "first" /\ pc'[p] \in {"acquire", "open?"}
    BY <1>14, MoveEffect DEF Park
  <2> QED  BY <2>1 DEF Announced
<1>15. CASE Quit(p)
  <2>1. pc'[p] \in {"acquire", "idle"} /\ awaited'[p] = {}
    BY <1>15, GotoEffect DEF Quit, StepInv
  <2> QED  BY <2>1 DEF Announced
<1>16. CASE Abandon(p)
  <2>1. pc'[p] = "route"
    BY <1>16, GotoEffect DEF Abandon
  <2> QED  BY <2>1 DEF Announced
<1>17. CASE Route(p)
  <2>1. pc'[p] = "idle"
    BY <1>17, GotoEffect DEF Route
  <2> QED  BY <2>1 DEF Announced
<1>18. CASE AbandonWaits(p) \/ GiveUp(p)
  <2>1. pc'[p] = "idle"
    BY <1>18 DEF AbandonWaits, GiveUp, Dropping, producerSide, making
  <2> QED  BY <2>1 DEF Announced
<1>19. CASE Leave(p)
  <2>1. pc'[p] \in {"close", "idle"}
    BY <1>19, GotoEffect DEF Leave
  <2> QED  BY <2>1 DEF Announced
<1>20. CASE Close(p)
  <2>1. pc'[p] = "wake"
    BY <1>20, GotoEffect DEF Close
  <2> QED  BY <2>1 DEF Announced
<1> QED  BY <1>1, <1>2, <1>3, <1>4, <1>5, <1>6, <1>7, <1>8, <1>9, <1>10, <1>11, <1>12, <1>13,
            <1>14, <1>15, <1>16, <1>17, <1>18, <1>19, <1>20 DEF ProducerNext

(* Only a reservation makes an owner, of a position no one has announced.  *)
LEMMA OwnersGain ==
  ASSUME TypeOK, StepInv, RingInv, NEW p \in Producers, ProducerNext(p), NEW q \in Producers,
         NEW pos \in 0..(claim - 1), Owns(q, pos)'
  PROVE  Owns(q, pos)
<1>1. CASE q # p
  BY <1>1, OtherProducers DEF Owns
<1>2. CASE q = p
  <2> USE DEF ProducerSteps, Phases, holding
  <2>1. CASE \/ Call(p) \/ CheckOpen(p) \/ LoadClaim(p) \/ Estimate(p) \/ Fallback(p)
             \/ WakeConsumer(p) \/ CheckClosed(p) \/ Arm(p) \/ Park(p) \/ Quit(p)
             \/ AbandonWaits(p) \/ Leave(p) \/ Close(p)
    <3>1. batch' = batch /\ pc'[p] \notin EmptyHanded
      BY <2>1, QuietSteps
    <3> QED  BY <1>2, <3>1 DEF Owns, EmptyHanded
  <2>2. CASE Reserve(p)
    <3>1. batch'[p] = claim..(claim + want[p] - 1) /\ pc'[p] = "acquire"
      BY <2>2, GotoEffect DEF Reserve, StepInv
    <3>2. claim \in Nat /\ want[p] \in Nat
      BY MpmcAssumption DEF TypeOK
    <3> QED  BY <1>2, <3>1, <3>2 DEF Owns
  <2>3. CASE Look(p)
    <3> DEFINE left == IF pc[p] = "acquire" THEN batch[p] ELSE look[p]
    <3>1. left \subseteq batch[p] /\ left # {} /\ left \subseteq Nat
      BY <2>3 DEF Look, RingInv, HandInv, TypeOK, StepInv
    <3>2. PICK n \in left : n = Min(left)
      BY <3>1, MinFact
    <3>3. CASE IsFreeFor(n)
      <4>1. cur'[p] = n /\ batch'[p] \subseteq batch[p]
        BY <2>3, <3>2, <3>3 DEF Look, TypeOK, StepInv
      <4> QED  BY <1>2, <3>1, <3>2, <4>1 DEF Owns
    <3>4. CASE ~IsFreeFor(n)
      <4>1. batch' = batch /\ Goto(p, IF left = {n} THEN OnFailure(p) ELSE "look")
        BY <2>3, <3>2, <3>4 DEF Look
      <4>2. pc'[p] # "acquired"
        BY <4>1, GotoEffect, FailureType
      <4> QED  BY <1>2, <4>1, <4>2 DEF Owns
    <3> QED  BY <3>3, <3>4
  <2>4. CASE Publish(p)
    BY <1>2, <2>4, GotoEffect DEF Publish, Owns
  <2>5. CASE Restore(p) \/ ReserveAgain(p)
    <3>1. pc[p] = "acquired" /\ PutBack(p) /\ pc'[p] # "acquired"
      BY <2>5, GotoEffect, MoveEffect DEF Restore, ReserveAgain
    <3> QED  BY <1>2, <3>1 DEF PutBack, Owns, StepInv
  <2>6. CASE Abandon(p) \/ GiveUp(p)
    <3>1. batch'[p] \subseteq batch[p]
      BY <2>6 DEF Abandon, GiveUp, StepInv
    <3>2. pc'[p] \in {"route", "idle"}
      BY <2>6, GotoEffect DEF Abandon, GiveUp, Dropping, making
    <3> QED  BY <1>2, <3>1, <3>2 DEF Owns
  <2>7. CASE Route(p)
    BY <1>2, <2>7, GotoEffect DEF Route, Owns
  <2> QED  BY <2>1, <2>2, <2>3, <2>4, <2>5, <2>6, <2>7 DEF ProducerNext
<1> QED  BY <1>1, <1>2

LEMMA ProducerRoute ==
  ASSUME TypeOK, StepInv, RingInv, ClosedInv, SecondInv, RouteInv, TypeOK',
         NEW p \in Producers, ProducerNext(p)
  PROVE  RouteInv'
<1>1. AwaitedApart'
  <2>1. \/ awaited' = awaited \/ awaited' = [awaited EXCEPT ![p] = {}]
        \/ awaited' = [awaited EXCEPT ![p] = batch[p]]
    <3>1. Route(p) => awaited' = awaited
      BY WakeReaches DEF Route
    <3> QED  BY <3>1 DEF ProducerNext, Call, CheckOpen, LoadClaim, Estimate, Fallback, Reserve, Look,
       Publish, Restore, ReserveAgain, WakeConsumer, CheckClosed, Arm, Park, Quit, Abandon,
       AbandonWaits, GiveUp, Leave, Close, producerSide, producerPark
  <2> SUFFICES ASSUME NEW q \in Producers, NEW r \in Producers, q # r,
                      NEW pos \in awaited'[q], Owns(r, pos)'
               PROVE  FALSE
    BY DEF AwaitedApart
  <2>2. pos \in awaited[q] \/ (q = p /\ pos \in batch[p])
    BY <2>1 DEF StepInv
  <2>3. pos \in 0..(claim - 1)
    BY <2>2 DEF TypeOK
  <2>4. Owns(r, pos)
    BY <2>3, OwnersGain
  <2>5. CASE pos \in awaited[q]
    BY <2>4, <2>5 DEF RouteInv, AwaitedApart
  <2>6. CASE q = p /\ pos \in batch[p]
    BY <2>3, <2>4, <2>6 DEF RingInv, ApartInv, Owns
  <2> QED  BY <2>2, <2>5, <2>6
<1>2. ASSUME NEW q \in Producers
      PROVE  /\ pc'[q] = "park" => phase'[q] = "again"
             /\ pc'[q] = "open?" => phase'[q] = "first"
             /\ phase'[q] = "again" /\ pc'[q] \in {"estimate", "fallback", "take"} =>
                  awaited'[q] = {}
             /\ Announced(q)' => Heard(q)'
  <2>1. CASE q = p
    BY <2>1, OwnHeard
  <2>2. CASE q # p
    <3>1. /\ pc'[q] = pc[q] /\ phase'[q] = phase[q] /\ batch'[q] = batch[q] /\ look'[q] = look[q]
          /\ call'[q] = call[q] /\ awaited'[q] = awaited[q]
          /\ q \in bits \cup tokens => q \in bits' \cup tokens'
      BY <2>2, OtherProducers, OtherPark
    <3>2. ASSUME Announced(q)' PROVE Heard(q)'
      <4>1. Announced(q)
        BY <3>1, <3>2 DEF Announced
      <4>2. Heard(q)
        BY <4>1 DEF RouteInv, AnnounceInv
      <4>3. ASSUME NEW n \in Asked(q)' PROVE Answered(q, n)'
        <5>1. n \in Asked(q) /\ n \in batch[q]
          BY <3>1, <4>3 DEF Asked
        <5> QED  BY <2>2, <4>1, <4>2, <5>1, OtherAnswers DEF Answered, Heard
      <4> QED  BY <3>1, <4>2, <4>3 DEF Heard, Answered
    <3> QED  BY <3>1, <3>2 DEF RouteInv, AnnounceInv
  <2> QED  BY <2>1, <2>2
<1> QED  BY <1>1, <1>2 DEF RouteInv, AnnounceInv

LEMMA ConsumerRoute ==
  ASSUME TypeOK, StepInv, RingInv, RouteInv, NEW c \in Consumers, ConsumerNext(c) \/ ScannerNext
  PROVE  RouteInv'
<1> USE ScannerIn
<1>0. UNCHANGED <<pc, call, phase, batch, look, cur>>
  BY ConsumerLeaves
<1>1. /\ UNCHANGED awaited
      /\ \A q \in Producers : (q \in tokens => q \in tokens')
           /\ (q \in bits \cup tokens => q \in bits' \cup tokens')
  <2>1. CASE UNCHANGED <<awaited, bits, tokens>>
    BY <2>1
  <2>2. ASSUME NEW n, WakeFor(n)
        PROVE  UNCHANGED awaited /\ \A q \in Producers : (q \in tokens => q \in tokens')
                 /\ (q \in bits \cup tokens => q \in bits' \cup tokens')
    BY <2>2, WakeReaches DEF WakeFor, producerPark
  <2>3. CASE FlushProducers(c)
    BY <2>3 DEF FlushProducers
  <2> QED  BY <2>1, <2>2, <2>3
     DEF ConsumerNext, PeerClaims, PeerTakes, DropConsumer, ScannerNext, StartPop, SeePublished,
         SeeNothing, ClaimWon, ClaimLost, Take, TakenWake, LapFails, ConsumerCheckClosed,
         ArmConsumer, ParkConsumer, DisarmConsumer, producerPark, producerSide
<1>2. AwaitedApart'
  BY <1>0, <1>1 DEF RouteInv, AwaitedApart, Owns
<1>3. ASSUME NEW q \in Producers, Announced(q), NEW pos \in batch[q], Answered(q, pos)
      PROVE  Answered(q, pos)'
  <2>0. pos \in Nat
    BY DEF StepInv
  <2>1. CASE \E d \in Consumers : d # Scanner /\ PeerTakes(d)
    <3>1. PICK d \in Consumers : d # Scanner /\ PeerTakes(d)
      BY <2>1
    <3>2. PICK n \in Nat : n = at[d]
      BY <3>1 DEF PeerTakes, RingInv, ReadInv, Reading
    <3>3. done' = [done EXCEPT ![Slot(n)] = n + Capacity] /\ WakeFor(n + Capacity)
      BY <3>1, <3>2 DEF PeerTakes, HandBack
    <3>4. cpc'[Scanner] = cpc[Scanner] /\ at'[Scanner] = at[Scanner]
      BY <3>1, CGotoEffect DEF PeerTakes, ConsumerSteps, TypeOK
    <3>5. Routing(pos) => Routing(pos)'
      BY <1>0, <3>4 DEF Routing
    <3>6. n + Capacity = pos => q \in tokens'
      BY <1>3, <3>3, RouteReaches
    <3> QED  BY <1>1, <1>3, <2>0, <3>3, <3>5, <3>6, ReleaseIsRouted DEF Answered, TypeOK
  <2>2. CASE ConsumerNext(c) /\ ~\E d \in Consumers : d # Scanner /\ PeerTakes(d)
    <3>1. PeerClaims(c) \/ DropConsumer(c) \/ FlushProducers(c)
      BY <2>2 DEF ConsumerNext, PeerTakes
    <3>2. UNCHANGED done
      BY <3>1 DEF PeerClaims, DropConsumer, FlushProducers, ring
    <3>3. Routing(pos) => Routing(pos)'
      BY <1>0, <3>1 DEF Routing, PeerClaims, DropConsumer, FlushProducers, CGoto, StepInv, TypeOK
    <3> QED  BY <1>1, <1>3, <3>2, <3>3 DEF Answered, IsFreeFor
  <2>3. CASE Take
    <3>1. PICK n \in Nat : n = at[Scanner]
      BY <2>3 DEF Take, RingInv, ReadInv, Reading
    <3>2. /\ done' = [done EXCEPT ![Slot(n)] = n + Capacity]
          /\ cpc'[Scanner] = "route" /\ at' = at /\ cpc[Scanner] = "take"
      BY <2>3, <3>1, CGotoEffect DEF Take, HandBack, ConsumerSteps
    <3>3. Routing(pos) => Routing(pos)'
      BY <1>0, <3>2 DEF Routing
    <3>4. IsFreeFor(pos)' => IsFreeFor(pos) \/ Routing(pos)'
      BY <2>0, <3>1, <3>2, ReleaseIsRouted DEF Routing, TypeOK
    <3> QED  BY <1>1, <1>3, <3>3, <3>4 DEF Answered
  <2>4. CASE TakenWake
    <3>1. WakeFor(at[Scanner] + Capacity) /\ UNCHANGED done
      BY <2>4 DEF TakenWake, ring
    <3>2. at[Scanner] + Capacity = pos => q \in tokens'
      BY <1>3, <3>1, RouteReaches
    <3>3. at[Scanner] + Capacity # pos /\ Routing(pos) => Routing(pos)'
      BY <1>0 DEF Routing
    <3> QED  BY <1>1, <1>3, <3>1, <3>2, <3>3 DEF Answered, IsFreeFor
  <2>5. CASE ScannerNext /\ ~Take /\ ~TakenWake
    <3>1. UNCHANGED done /\ cpc[Scanner] # "route"
      BY <2>5 DEF ScannerNext, StartPop, SeePublished, SeeNothing, ClaimWon, ClaimLost, LapFails,
         ConsumerCheckClosed, ArmConsumer, ParkConsumer, DisarmConsumer, ring
    <3>2. Routing(pos) => Routing(pos)'
      BY <1>0, <3>1 DEF Routing
    <3> QED  BY <1>1, <1>3, <3>1, <3>2 DEF Answered, IsFreeFor
  <2> QED  BY <2>1, <2>2, <2>3, <2>4, <2>5
<1>4. ASSUME NEW q \in Producers, Announced(q)' PROVE Heard(q)'
  <2>1. Announced(q) /\ Asked(q)' = Asked(q)
    BY <1>0, <1>1, <1>4 DEF Announced, Asked
  <2>2. Heard(q)
    BY <2>1 DEF RouteInv, AnnounceInv
  <2>3. \A n \in Asked(q) : n \in batch[q] /\ Answered(q, n)
    BY <2>2 DEF Heard, Answered, Asked
  <2>4. \A n \in Asked(q)' : Answered(q, n)'
    BY <1>3, <2>1, <2>3
  <2> QED  BY <1>0, <1>1, <2>2, <2>4 DEF Heard, Answered
<1>5. AnnounceInv'
  BY <1>0, <1>1, <1>4 DEF RouteInv, AnnounceInv
<1> QED  BY <1>2, <1>5 DEF RouteInv

LEMMA RouteAlways == Spec => []RouteInv
<1>1. Init => RouteInv
  BY DEF Init, InitFrom, RouteInv, AwaitedApart, AnnounceInv, Announced
<1>2. IInv /\ IInv' /\ RouteInv /\ [Next]_vars => RouteInv'
  <2> SUFFICES ASSUME IInv, IInv', RouteInv, [Next]_vars PROVE RouteInv'
    OBVIOUS
  <2> USE DEF IInv
  <2>1. ASSUME NEW p \in Producers, ProducerNext(p) PROVE RouteInv'
    BY <2>1, ProducerRoute
  <2>2. CASE ScannerNext
    BY <2>2, ScannerIn, ConsumerRoute
  <2>3. ASSUME NEW c \in Consumers, ConsumerNext(c) PROVE RouteInv'
    BY <2>3, ConsumerRoute
  <2>4. CASE UNCHANGED vars
    BY <2>4 DEF vars, ring, producerSide, making, holding, producerPark, consumerSide, consumers,
       RouteInv, AwaitedApart, AnnounceInv, Announced, Heard, Asked, Routing, IsFreeFor, Owns
  <2> QED  BY <2>1, <2>2, <2>3, <2>4 DEF Next, Finished
<1> QED  BY <1>1, <1>2, IInvAlways, PTL DEF Spec

-----------------------------------------------------------------------------
(* What the invariant says.                                                *)

(* No two consumers, no two producers, and no consumer beside a producer.  *)
LEMMA AtMostOne ==
  ASSUME NEW S, NEW T, \A x, y \in S : x = y, \A x, y \in T : x = y, S = {} \/ T = {}
  PROVE  Cardinality(S) + Cardinality(T) <= 1
<1>1. ASSUME NEW U, \A x, y \in U : x = y PROVE Cardinality(U) = IF U = {} THEN 0 ELSE 1
  <2>1. CASE U = {}
    BY <2>1, FS_EmptySet
  <2>2. CASE U # {}
    <3>1. PICK x : U = {x}
      BY <1>1, <2>2
    <3> QED  BY <3>1, FS_Singleton
  <2> QED  BY <2>1, <2>2
<1>2. Cardinality(S) = IF S = {} THEN 0 ELSE 1
  BY <1>1
<1>3. Cardinality(T) = IF T = {} THEN 0 ELSE 1
  BY <1>1
<1> QED  BY <1>2, <1>3

LEMMA OwnersInv == ASSUME IInv PROVE SlotsHaveOneOwner
<1> USE DEF IInv, RingInv
<1> SUFFICES ASSUME NEW s \in Slots
             PROVE  LET readers == {c \in Consumers : Reading(c) /\ Slot(at[c]) = s}
                        writers == {p \in Producers : Writing(p) /\ Slot(cur[p]) = s}
                    IN /\ Cardinality(readers) + Cardinality(writers) <= 1
                       /\ \A c \in readers : cell[s] = at[c]
                       /\ \A p \in writers : cell[s] = None
                       /\ Published(s) => readers = {} /\ writers = {} /\ cell[s] = RoundPos(s)
  BY DEF SlotsHaveOneOwner
<1> DEFINE readers == {c \in Consumers : Reading(c) /\ Slot(at[c]) = s}
           writers == {p \in Producers : Writing(p) /\ Slot(cur[p]) = s}
<1>1. ASSUME NEW c \in readers PROVE at[c] = done[s] /\ cell[s] = at[c] /\ Leased(s)
  BY <1>1 DEF ReadInv, Leased
<1>2. ASSUME NEW p \in writers
      PROVE  cur[p] \in 0..(claim - 1) /\ cur[p] = done[s] /\ Owns(p, cur[p]) /\ Resting(s)
  <2>1. pc[p] = "acquired" /\ cur[p] # None /\ Slot(cur[p]) = s
    BY <1>2 DEF Writing
  <2>2. cur[p] \in Nat /\ cur[p] < claim /\ claim \in Nat /\ IsFreeFor(cur[p])
    BY <2>1 DEF HandInv, TypeOK
  <2>3. Owns(p, cur[p])
    BY <2>1 DEF Owns
  <2>4. Resting(s)
    BY <2>1, <2>2, <2>3, FreeMeansResting
  <2> QED  BY <2>1, <2>2, <2>3, <2>4 DEF IsFreeFor
<1>3. \A c, d \in readers : c = d
  BY <1>1 DEF ReadInv
<1>4. \A p, q \in writers : p = q
  BY <1>2 DEF ApartInv
<1>5. readers = {} \/ writers = {}
  BY <1>1, <1>2, Words
<1>6. Cardinality(readers) + Cardinality(writers) <= 1
  BY <1>3, <1>4, <1>5, AtMostOne
<1>7. Published(s) => Full(s) /\ RoundPos(s) = done[s] /\ ~Leased(s) /\ ~Resting(s)
  BY Words
<1>8. Published(s) => readers = {} /\ writers = {} /\ cell[s] = RoundPos(s)
  BY <1>1, <1>2, <1>7 DEF Full
<1> QED  BY <1>1, <1>2, <1>6, <1>8 DEF Resting

LEMMA TeardownInv == ASSUME IInv PROVE TeardownIsExact
<1> SUFFICES ASSUME NEW s \in Slots PROVE HoldsValue(s) <=> cell[s] # None
  BY DEF TeardownIsExact
<1>1. Resting(s) \/ Full(s) \/ Leased(s)
  BY DEF IInv, RingInv, SlotInv, SlotOk
<1>2. /\ done[s] \in Nat /\ ready[s] \in Nat
      /\ Resting(s) => StateOf(s) = 2 /\ RoundPos(s) = done[s] - Capacity
      /\ Full(s) => StateOf(s) = 1 /\ RoundPos(s) = done[s]
      /\ Leased(s) => StateOf(s) = 2 /\ RoundPos(s) = done[s]
  BY Words DEF IInv, RingInv
<1>3. Capacity \in Nat \ {0}
  BY CapacityAssumption
<1>4. CASE Resting(s)
  BY <1>2, <1>3, <1>4 DEF HoldsValue, Published, Claimed, Resting
<1>5. CASE Full(s)
  BY <1>2, <1>3, <1>5 DEF HoldsValue, Published, Full, None
<1>6. CASE Leased(s)
  BY <1>2, <1>3, <1>6 DEF HoldsValue, Published, Claimed, Leased, None
<1> QED  BY <1>1, <1>4, <1>5, <1>6

LEMMA AwakeInv == ASSUME IInv PROVE NoSleepBesideValue
<1> SUFFICES ASSUME ConsumerAsleep, closed \/ \E s \in Slots : Published(s)
             PROVE  armed /\ \E p \in Producers : pc[p] = "wake"
  BY DEF NoSleepBesideValue
<1>1. cpc[Scanner] = "park" /\ ~ctoken /\ attempt = "again"
  BY DEF ConsumerAsleep, IInv, SearchInv, AttemptInv
<1>2. armed
  BY <1>1 DEF IInv, SearchInv, AttemptInv
<1>3. Stirred
  BY <1>1 DEF IInv, SearchInv, DoneInv, Decisive
<1> QED  BY <1>1, <1>2, <1>3 DEF Stirred

-----------------------------------------------------------------------------
(* The theorems.                                                           *)

(* Words, cursors, batches and registrations keep their types: a batch and *)
(* an announcement hold positions that were reserved, and a tally is below *)
(* the flush interval.                                                     *)
THEOREM TypeCorrect == Spec => []TypeOK
BY IInvAlways, PTL DEF IInv

(* A slot is one reader's, one writer's or nobody's, and its memory holds  *)
(* what its words say (claim_slot, acquire_slot, DoneWord::release).       *)
THEOREM OneOwnerPerSlot == Spec => []SlotsHaveOneOwner
<1>1. IInv => SlotsHaveOneOwner
  BY OwnersInv
<1> QED  BY <1>1, IInvAlways, PTL

(* Dropping the ring frees exactly the values left in it.                  *)
THEOREM TeardownFreesWhatIsThere == Spec => []TeardownIsExact
<1>1. IInv => TeardownIsExact
  BY TeardownInv
<1> QED  BY <1>1, IInvAlways, PTL

(* pop_block gives up on a closed and drained ring only.                   *)
THEOREM NoneOnlyWhenDrained == Spec => []NoneMeansDrained
<1>1. IInv => NoneMeansDrained
  BY DEF IInv, SearchInv, DoneInv, NoneMeansDrained
<1> QED  BY <1>1, IInvAlways, PTL

(* The consumer parks after a lap that covered the ring, armed: whatever   *)
(* is published or closed since, somebody is about to wake it.             *)
THEOREM PopIsWoken == Spec => []NoSleepBesideValue
<1>1. IInv => NoSleepBesideValue
  BY AwakeInv
<1> QED  BY <1>1, IInvAlways, PTL

(* A producer that announced its batch before it parked does not sleep     *)
(* while a position of that batch is free, but for the time it takes the   *)
(* release to route its wake: nobody else can be given it (AwaitedBatch,   *)
(* wake_producer_for).                                                     *)
THEOREM ReleaseReachesItsProducer == Spec => []NoSleepBesideAwaited
<1>1. StepInv /\ RouteInv => NoSleepBesideAwaited
  <2> SUFFICES ASSUME RouteInv, NEW p \in Producers, Asleep(p), NEW pos \in awaited[p], IsFreeFor(pos)
               PROVE  Routing(pos)
    BY DEF NoSleepBesideAwaited
  <2>1. Announced(p)
    BY DEF Asleep, Announced, RouteInv, AnnounceInv
  <2>2. Heard(p) /\ p \notin tokens
    BY <2>1 DEF RouteInv, AnnounceInv, Asleep
  <2>3. pos \in Asked(p)
    BY <2>2 DEF Heard, Asked, Asleep
  <2> QED  BY <2>2, <2>3 DEF Heard
<1>2. IInv => StepInv
  BY DEF IInv
<1> QED  BY <1>1, <1>2, RouteAlways, IInvAlways, PTL

(* The second reserve of reserve_block cannot fail: from the moment the    *)
(* first slot is given back (mpmc/producer.rs:293) a position of the batch *)
(* is free, through the disarm and up to the look that takes it, also when *)
(* the batch has only one; although it is not always the same one.         *)
THEOREM SecondReserveSucceeds == Spec => []TheSlotStaysFree
<1>1. IInv => TheSlotStaysFree
  BY DEF IInv, SecondInv, SecondOk, TheSlotStaysFree
<1> QED  BY <1>1, IInvAlways, PTL

(* The scanner's laps are laps of ScanBudget, whatever its peers do.       *)
THEOREM ScannerRunsLaps == Spec => LapSpec
<1>1. Init => LapInit
  BY DEF Init, InitFrom
<1>2. [Next]_vars => [LapNext]_lap
  BY NextIsLap
<1> QED  BY <1>1, <1>2, PTL DEF Spec, LapSpec

(* A consumer that gives up its lap has examined all of the ring, in fewer *)
(* than two sweeps: the guarantee stated by mpmc/scan_budget.rs.           *)
THEOREM LapIsSound == LapSpec => [](LapTypeOK /\ CoversTheRing /\ BoundedLap)
<1>1. LapInit => LapInv
  BY CapacityAssumption DEF LapInit, LapInv, LapTypeOK, End, ProbeLimit
<1>2. LapInv /\ [LapNext]_lap => LapInv'
  BY LapStep
<1>3. LapInv => LapTypeOK /\ CoversTheRing /\ BoundedLap
  BY CapacityAssumption
     DEF LapInv, LapTypeOK, CoversTheRing, BoundedLap, Exhausted, End, ProbeLimit
<1> QED  BY <1>1, <1>2, <1>3, PTL DEF LapSpec

(* So before pop_block arms, or parks, its search has looked at every slot *)
(* (mpmc/consumer.rs), in a ring with any producers and consumers.         *)
THEOREM ScannerCoversTheRing == Spec => [](CoversTheRing /\ BoundedLap)
<1>1. LapTypeOK /\ CoversTheRing /\ BoundedLap => CoversTheRing /\ BoundedLap
  OBVIOUS
<1> QED  BY <1>1, ScannerRunsLaps, LapIsSound, PTL
=============================================================================
