-------------------------- MODULE BroadcastProofs ---------------------------
(***************************************************************************)
(* The broadcast ring for any number of producers and seats and any        *)
(* capacity.  Five invariants: who sits where and that no cursor passes    *)
(* the tail; that the floors lie below the subscribers; that a slot has    *)
(* one owner; that nothing unread is lost; and that whoever is armed is    *)
(* woken, or has somebody before it who will use the room.                 *)
(***************************************************************************)
EXTENDS Broadcast, TLAPS

-----------------------------------------------------------------------------
(* The slot map.                                                           *)

(* The slot of a position (Capacity::index_of).                            *)
LEMMA SlotType == ASSUME NEW a \in Nat PROVE Slot(a) \in Slots
BY CapacityAssumption DEF Slot, Slots

(* A position is some laps and its slot.                                   *)
LEMMA SlotDivision ==
  ASSUME NEW a \in Nat
  PROVE  /\ a = Capacity * (a \div Capacity) + Slot(a)
         /\ a \div Capacity \in Nat /\ Slot(a) \in Nat /\ Slot(a) < Capacity
BY CapacityAssumption DEF Slot

LEMMA Multiples ==
  ASSUME NEW q \in Int, NEW r \in Int, q < r
  PROVE  Capacity * q + Capacity <= Capacity * r
<1>1. Capacity * (q + 1) <= Capacity * r
  BY CapacityAssumption
<1>2. Capacity * (q + 1) = Capacity * q + Capacity
  BY CapacityAssumption
<1> QED  BY <1>1, <1>2

LEMMA SlotInjective ==
  ASSUME NEW a \in Nat, NEW b \in Nat, a < b, b < a + Capacity
  PROVE  Slot(a) # Slot(b)
<1> SUFFICES ASSUME Slot(a) = Slot(b) PROVE FALSE
  OBVIOUS
<1> DEFINE q == a \div Capacity
           r == b \div Capacity
<1>1. a = Capacity * q + Slot(a) /\ q \in Nat /\ Slot(a) \in Nat
  BY SlotDivision
<1>2. b = Capacity * r + Slot(a) /\ r \in Nat
  BY SlotDivision
<1> HIDE DEF q, r
<1>3. Capacity * q \in Int /\ Capacity * r \in Int
  BY <1>1, <1>2, CapacityAssumption
<1>4. CASE r < q
  BY <1>1, <1>2, <1>3, <1>4, Multiples, CapacityAssumption
<1>5. CASE r = q
  BY <1>1, <1>2, <1>5
<1>6. CASE q < r
  BY <1>1, <1>2, <1>3, <1>6, Multiples, CapacityAssumption
<1> QED  BY <1>1, <1>2, <1>4, <1>5, <1>6

(* What is left of a position beyond whole laps is its slot.               *)
LEMMA SlotUnique ==
  ASSUME NEW a \in Nat, NEW q \in Nat, NEW s \in Slots, a = Capacity * q + s
  PROVE  Slot(a) = s
<1> DEFINE r == a \div Capacity
<1>1. a = Capacity * r + Slot(a) /\ r \in Nat /\ Slot(a) \in Nat /\ Slot(a) < Capacity
  BY SlotDivision
<1>2. s \in Nat /\ s < Capacity
  BY CapacityAssumption DEF Slots
<1> HIDE DEF r
<1>3. Capacity * q \in Int /\ Capacity * r \in Int
  BY <1>1, CapacityAssumption
<1>4. CASE q < r
  BY <1>1, <1>2, <1>3, <1>4, Multiples, CapacityAssumption
<1>5. CASE r < q
  BY <1>1, <1>2, <1>3, <1>5, Multiples, CapacityAssumption
<1>6. CASE q = r
  BY <1>1, <1>2, <1>3, <1>6
<1> QED  BY <1>1, <1>4, <1>5, <1>6

(* A position returns to the slot it had one lap ago.                      *)
LEMMA SlotLap == ASSUME NEW a \in Nat PROVE Slot(a + Capacity) = Slot(a)
<1> DEFINE q == a \div Capacity
<1>1. a = Capacity * q + Slot(a) /\ q \in Nat /\ Slot(a) \in Nat
  BY SlotDivision
<1> HIDE DEF q
<1>2. Capacity * (q + 1) = Capacity * q + Capacity /\ Capacity * q \in Nat
  BY <1>1, CapacityAssumption
<1>3. a + Capacity = Capacity * (q + 1) + Slot(a) /\ a + Capacity \in Nat /\ q + 1 \in Nat
  BY <1>1, <1>2, CapacityAssumption
<1> QED  BY <1>3, SlotType, SlotUnique

-----------------------------------------------------------------------------
(* A scan reads heads of seats.                                             *)
ScanIndex == \A p \in Producers : pc[p] = "head" => idx[p] < NumSeats

(* A producer between its claim and the end of its call.                   *)
Holds(p) == pc[p] \in {"mark", "own"}

SeatInv ==
  /\ \A s \in Seats : active[s] <=> cpc[s] # "gone"
  /\ \A s \in Seats : cpc[s] = "seated" => trying[s] \in Seats /\ cpc[trying[s]] = "boarding"
  /\ \A s, r \in Seats : cpc[s] = "seated" /\ cpc[r] = "seated" /\ s # r => trying[s] # trying[r]

(* No cursor passes the tail.                                              *)
CursorInv ==
  /\ shared <= tail
  /\ \A s \in Seats : head[s] <= tail /\ joinAt[s] <= tail
  /\ \A s \in Seats : cpc[s] \in {"seating", "seated"} => head[s] <= joinAt[s]
  /\ \A p \in Producers : private[p] <= tail /\ low[p] <= tail /\ cur[p] <= tail
  /\ \A p \in Producers : Holds(p) => cur[p] < tail

(* A resolved position has been claimed.                                   *)
ResolvedInv == \A pos \in Nat : Resolved(pos) => pos < tail

(* A claim that is not resolved has one holder, and nobody reads it.       *)
ClaimInv ==
  /\ \A p, q \in Producers : Holds(p) /\ Holds(q) /\ p # q => cur[p] # cur[q]
  /\ \A p \in Producers : Holds(p) => ~Resolved(cur[p])
  /\ \A s \in Seats : cpc[s] \in {"reading", "skipping"} =>
       head[s] < tail /\ \A p \in Producers : Holds(p) => cur[p] # head[s]

BaseInv == TypeOK /\ ScanIndex /\ SeatInv /\ CursorInv /\ ResolvedInv /\ ClaimInv

(* What a scan has read is below every subscriber it has passed.           *)
ScanInv ==
  \A p \in Producers, s \in Seats :
    Live(s) /\ HasRead(p, s) => low[p] # NoConsumers /\ low[p] <= head[s]

(* A position about to be claimed, or claimed and held, is less than a lap *)
(* ahead of every subscriber.                                              *)
LapInv ==
  \A p \in Producers, s \in Seats :
    pc[p] \in {"word", "cas", "mark", "own"} /\ Live(s) => cur[p] < head[s] + Capacity

FloorInv == "floor" \notin slips => SharedIsLow /\ PrivateIsLow /\ ScanInv /\ LapInv

(* No floor, stale or not, has passed a claim that is not marked yet.      *)
UnmarkedInv ==
  \A p \in Producers : pc[p] = "mark" =>
    /\ shared <= cur[p]
    /\ \A s \in Seats : head[s] <= cur[p] /\ joinAt[s] <= cur[p]
    /\ \A q \in Producers : private[q] <= cur[p] /\ low[q] <= cur[p]

(* A holder is alone in its slot, whose word shows the claim once marked,  *)
(* and no claim of the next lap gets past the checks.                      *)
AloneInv ==
  /\ \A p, q \in Producers : p # q /\ Holds(p) /\ Holds(q) => Slot(cur[p]) # Slot(cur[q])
  /\ \A p \in Producers : pc[p] = "own" => word[Slot(cur[p])] = Vacant
  /\ \A p, q \in Producers :
       pc[p] = "word" /\ cur[p] = tail /\ pc[q] = "mark" => Slot(cur[p]) # Slot(cur[q])
  /\ \A p, q \in Producers :
       pc[p] = "cas" /\ cur[p] = tail /\ Holds(q) => Slot(cur[p]) # Slot(cur[q])
  /\ \A p \in Producers : Holds(p) => tail <= cur[p] + Capacity

OwnerInv == "owner" \notin slips => UnmarkedInv /\ AloneInv

(* The positions that subscriber s has yet to read are all there.          *)
UnreadOf(s) == \A pos \in head[s]..(tail - 1) : Resolved(pos) \/ \E p \in Producers : Owns(p, pos)

UnreadInv ==
  \A s \in Seats : Live(s) =>
    UnreadOf(s) /\ (cpc[s] = "reading" => word[Slot(head[s])] = PublishedWord(head[s]))

IInv ==
  /\ BaseInv /\ FloorInv /\ OwnerInv
  /\ slips \cap {"floor", "owner"} = {} => UnreadInv

LEMMA SlotTypes == \A pos \in Nat : Slot(pos) \in Slots
BY SlotType

(* Different positions in one slot are a lap apart.                        *)
LEMMA LapApart ==
  ASSUME NEW a \in Nat, NEW b \in Nat, a < b, Slot(a) = Slot(b)
  PROVE  a + Capacity <= b
BY SlotInjective, CapacityAssumption

LEMMA SeatNumbers ==
  /\ \A i \in 0..NumSeats : i < NumSeats => i \in Seats /\ i + 1 \in 0..NumSeats
  /\ \A s \in Seats : s \in Nat /\ s < NumSeats
BY BroadcastAssumption DEF Seats

(* A word stored for position c says nothing new about other positions.    *)
LEMMA WordStored ==
  ASSUME TypeOK, NEW c \in Nat, NEW w \in {Vacant, PublishedWord(c), AbandonedWord(c)},
         word' = [word EXCEPT ![Slot(c)] = w]
  PROVE  /\ w \in Nat /\ word'[Slot(c)] = w
         /\ \A pos \in Nat : pos # c /\ Resolved(pos)' => Resolved(pos)
         /\ \A pos \in Nat : Slot(pos) # Slot(c) => word'[Slot(pos)] = word[Slot(pos)]
<1>1. w \in Nat /\ word \in [Slots -> Nat]
  BY DEF TypeOK, RingTypes, Vacant, PublishedWord, AbandonedWord
<1>2. word'[Slot(c)] = w
  BY <1>1, SlotTypes
<1>3. \A pos \in Nat : Slot(pos) # Slot(c) => word'[Slot(pos)] = word[Slot(pos)]
  BY <1>1, SlotTypes
<1>4. \A pos \in Nat : pos # c /\ Resolved(pos)' => Resolved(pos)
  <2> SUFFICES ASSUME NEW pos \in Nat, pos # c, Resolved(pos)' PROVE Resolved(pos)
    OBVIOUS
  <2>1. Slot(pos) # Slot(c)
    BY <1>2 DEF Resolved, Vacant, PublishedWord, AbandonedWord
  <2> QED  BY <1>3, <2>1 DEF Resolved
<1> QED  BY <1>1, <1>2, <1>3, <1>4

-----------------------------------------------------------------------------
(* The base: types, seats, cursors and claims.                             *)

LEMMA RingTypesStep ==
  ASSUME TypeOK, [Next]_vars PROVE RingTypes'
<1> USE BroadcastAssumption, CapacityAssumption, SlotTypes DEF TypeOK, RingTypes, ConsumerTypes, ScanTypes, CallTypes, NoConsumers
<1>1. ASSUME NEW p \in Producers, Call(p) PROVE RingTypes'
  BY <1>1 DEF Call, Goto, vars, registry, park, consumers, scanning, producers, Slips, Vacant, PublishedWord, AbandonedWord
<1>2. ASSUME NEW p \in Producers, LoadTail(p) PROVE RingTypes'
  BY <1>2 DEF LoadTail, Goto, vars, registry, park, consumers, scanning, producers, Slips, Vacant, PublishedWord, AbandonedWord
<1>3. ASSUME NEW p \in Producers, LookPast(p) PROVE RingTypes'
  BY <1>3 DEF LookPast, Goto, vars, registry, park, consumers, scanning, producers, Slips, Vacant, PublishedWord, AbandonedWord
<1>4. ASSUME NEW p \in Producers, SomebodyIsThere(p) PROVE RingTypes'
  BY <1>4 DEF SomebodyIsThere, Goto, ResetScan, vars, registry, park, consumers, scanning, producers, Slips, Vacant, PublishedWord, AbandonedWord
<1>5. ASSUME NEW p \in Producers, NobodyIsThere(p) PROVE RingTypes'
  BY <1>5 DEF NobodyIsThere, Goto, ResetScan, Return, vars, registry, park, consumers, scanning, producers, Slips, Vacant, PublishedWord, AbandonedWord
<1>6. ASSUME NEW p \in Producers, AskPrivate(p) PROVE RingTypes'
  BY <1>6 DEF AskPrivate, Goto, ResetScan, Permitted, vars, registry, park, consumers, scanning, producers, Slips, Vacant, PublishedWord, AbandonedWord
<1>7. ASSUME NEW p \in Producers, AskShared(p) PROVE RingTypes'
  BY <1>7 DEF AskShared, Goto, ResetScan, Permitted, vars, registry, park, consumers, scanning, producers, Slips, Vacant, PublishedWord, AbandonedWord
<1>8. ASSUME NEW p \in Producers, ScanFlag(p) PROVE RingTypes'
  BY <1>8 DEF ScanFlag, Goto, vars, registry, park, consumers, scanning, producers, Slips, Vacant, PublishedWord, AbandonedWord
<1>9. ASSUME NEW p \in Producers, ScanHead(p) PROVE RingTypes'
  BY <1>9 DEF ScanHead, Goto, vars, registry, park, consumers, scanning, producers, Slips, Vacant, PublishedWord, AbandonedWord
<1>10. ASSUME NEW p \in Producers, Refresh(p) PROVE RingTypes'
  BY <1>10 DEF Refresh, Goto, ResetScan, Permitted, Return, ClaimFailed, Refused, vars, registry, park, consumers, scanning, producers, Slips, Vacant, PublishedWord, AbandonedWord
<1>11. ASSUME NEW p \in Producers, CheckOccupant(p) PROVE RingTypes'
  BY <1>11 DEF CheckOccupant, Goto, ClaimFailed, Return, vars, registry, park, consumers, scanning, producers, Slips, Vacant, PublishedWord, AbandonedWord
<1>12. ASSUME NEW p \in Producers, Claim(p) PROVE RingTypes'
  BY <1>12 DEF Claim, Goto, vars, registry, park, consumers, scanning, producers, Slips, Vacant, PublishedWord, AbandonedWord
<1>13. ASSUME NEW p \in Producers, LoseClaim(p) PROVE RingTypes'
  BY <1>13 DEF LoseClaim, Goto, vars, registry, park, consumers, scanning, producers, Slips, Vacant, PublishedWord, AbandonedWord
<1>14. ASSUME NEW p \in Producers, Mark(p) PROVE RingTypes'
  BY <1>14 DEF Mark, Goto, vars, registry, park, consumers, scanning, producers, Slips, Vacant, PublishedWord, AbandonedWord
<1>15. ASSUME NEW p \in Producers, Publish(p) PROVE RingTypes'
  BY <1>15 DEF Publish, Goto, Return, vars, registry, park, consumers, scanning, producers, Slips, Vacant, PublishedWord, AbandonedWord
<1>16. ASSUME NEW p \in Producers, Abandon(p) PROVE RingTypes'
  BY <1>16 DEF Abandon, Goto, vars, registry, park, consumers, scanning, producers, Slips, Vacant, PublishedWord, AbandonedWord
<1>17. ASSUME NEW p \in Producers, WakeAfterAbandon(p) PROVE RingTypes'
  BY <1>17 DEF WakeAfterAbandon, Goto, Return, WakeOne, vars, registry, park, consumers, scanning, producers, Slips, Vacant, PublishedWord, AbandonedWord
<1>18. ASSUME NEW p \in Producers, Arm(p) PROVE RingTypes'
  BY <1>18 DEF Arm, Goto, vars, registry, park, consumers, scanning, producers, Slips, Vacant, PublishedWord, AbandonedWord
<1>19. ASSUME NEW p \in Producers, Unpark(p) PROVE RingTypes'
  BY <1>19 DEF Unpark, Goto, vars, registry, park, consumers, scanning, producers, Slips, Vacant, PublishedWord, AbandonedWord
<1>20. ASSUME NEW p \in Producers, Disarm(p) PROVE RingTypes'
  BY <1>20 DEF Disarm, Goto, Return, vars, registry, park, consumers, scanning, producers, Slips, Vacant, PublishedWord, AbandonedWord
<1>21. ASSUME NEW s \in Seats, Classify(s) PROVE RingTypes'
  BY <1>21 DEF Classify, GotoC, vars, registry, park, consumers, scanning, producers, Slips, Vacant, PublishedWord, AbandonedWord
<1>22. ASSUME NEW s \in Seats, AdvanceHead(s) PROVE RingTypes'
  BY <1>22 DEF AdvanceHead, GotoC, vars, registry, park, consumers, scanning, producers, Slips, Vacant, PublishedWord, AbandonedWord
<1>23. ASSUME NEW s \in Seats, WakeProducer(s) PROVE RingTypes'
  BY <1>23 DEF WakeProducer, GotoC, WakeOne, vars, registry, park, consumers, scanning, producers, Slips, Vacant, PublishedWord, AbandonedWord
<1>24. ASSUME NEW s \in Seats, CloneAt(s) PROVE RingTypes'
  BY <1>24 DEF CloneAt, GotoC, vars, registry, park, consumers, scanning, producers, Slips, Vacant, PublishedWord, AbandonedWord
<1>25. ASSUME NEW s \in Seats, TrySeat(s) PROVE RingTypes'
  BY <1>25 DEF TrySeat, GotoC, EndClone, vars, registry, park, consumers, scanning, producers, Slips, Vacant, PublishedWord, AbandonedWord
<1>26. ASSUME NEW s \in Seats, Subscribe(s) PROVE RingTypes'
  BY <1>26 DEF Subscribe, GotoC, EndClone, vars, registry, park, consumers, scanning, producers, Slips, Vacant, PublishedWord, AbandonedWord
<1>27. ASSUME NEW s \in Seats, Unsubscribe(s) PROVE RingTypes'
  BY <1>27 DEF Unsubscribe, GotoC, vars, registry, park, consumers, scanning, producers, Slips, Vacant, PublishedWord, AbandonedWord
<1>28. ASSUME FlushProducers PROVE RingTypes'
  BY <1>28 DEF FlushProducers, Flush, vars, registry, park, consumers, scanning, producers, Slips, Vacant, PublishedWord, AbandonedWord
<1>29. ASSUME UNCHANGED vars PROVE RingTypes'
  BY <1>29 DEF vars, registry, park, consumers, scanning, producers, Slips, Vacant, PublishedWord, AbandonedWord
<1> QED
  BY <1>1, <1>2, <1>3, <1>4, <1>5, <1>6, <1>7, <1>8, <1>9, <1>10, <1>11, <1>12, <1>13, <1>14, <1>15, <1>16, <1>17, <1>18, <1>19, <1>20, <1>21, <1>22, <1>23, <1>24, <1>25, <1>26, <1>27, <1>28, <1>29 DEF Next, ProducerStep, ConsumerStep

LEMMA ConsumerTypesStep ==
  ASSUME TypeOK, [Next]_vars PROVE ConsumerTypes'
<1> USE BroadcastAssumption, CapacityAssumption, SlotTypes DEF TypeOK, RingTypes, ConsumerTypes, ScanTypes, CallTypes, NoConsumers
<1>1. ASSUME NEW p \in Producers, Call(p) PROVE ConsumerTypes'
  BY <1>1 DEF Call, Goto, vars, registry, park, consumers, scanning, producers, ConsumerSteps
<1>2. ASSUME NEW p \in Producers, LoadTail(p) PROVE ConsumerTypes'
  BY <1>2 DEF LoadTail, Goto, vars, registry, park, consumers, scanning, producers, ConsumerSteps
<1>3. ASSUME NEW p \in Producers, LookPast(p) PROVE ConsumerTypes'
  BY <1>3 DEF LookPast, Goto, vars, registry, park, consumers, scanning, producers, ConsumerSteps
<1>4. ASSUME NEW p \in Producers, SomebodyIsThere(p) PROVE ConsumerTypes'
  BY <1>4 DEF SomebodyIsThere, Goto, ResetScan, vars, registry, park, consumers, scanning, producers, ConsumerSteps
<1>5. ASSUME NEW p \in Producers, NobodyIsThere(p) PROVE ConsumerTypes'
  BY <1>5 DEF NobodyIsThere, Goto, ResetScan, Return, vars, registry, park, consumers, scanning, producers, ConsumerSteps
<1>6. ASSUME NEW p \in Producers, AskPrivate(p) PROVE ConsumerTypes'
  BY <1>6 DEF AskPrivate, Goto, ResetScan, Permitted, vars, registry, park, consumers, scanning, producers, ConsumerSteps
<1>7. ASSUME NEW p \in Producers, AskShared(p) PROVE ConsumerTypes'
  BY <1>7 DEF AskShared, Goto, ResetScan, Permitted, vars, registry, park, consumers, scanning, producers, ConsumerSteps
<1>8. ASSUME NEW p \in Producers, ScanFlag(p) PROVE ConsumerTypes'
  BY <1>8 DEF ScanFlag, Goto, vars, registry, park, consumers, scanning, producers, ConsumerSteps
<1>9. ASSUME NEW p \in Producers, ScanHead(p) PROVE ConsumerTypes'
  BY <1>9 DEF ScanHead, Goto, vars, registry, park, consumers, scanning, producers, ConsumerSteps
<1>10. ASSUME NEW p \in Producers, Refresh(p) PROVE ConsumerTypes'
  BY <1>10 DEF Refresh, Goto, ResetScan, Permitted, Return, ClaimFailed, Refused, vars, registry, park, consumers, scanning, producers, ConsumerSteps
<1>11. ASSUME NEW p \in Producers, CheckOccupant(p) PROVE ConsumerTypes'
  BY <1>11 DEF CheckOccupant, Goto, ClaimFailed, Return, vars, registry, park, consumers, scanning, producers, ConsumerSteps
<1>12. ASSUME NEW p \in Producers, Claim(p) PROVE ConsumerTypes'
  BY <1>12 DEF Claim, Goto, vars, registry, park, consumers, scanning, producers, ConsumerSteps
<1>13. ASSUME NEW p \in Producers, LoseClaim(p) PROVE ConsumerTypes'
  BY <1>13 DEF LoseClaim, Goto, vars, registry, park, consumers, scanning, producers, ConsumerSteps
<1>14. ASSUME NEW p \in Producers, Mark(p) PROVE ConsumerTypes'
  BY <1>14 DEF Mark, Goto, vars, registry, park, consumers, scanning, producers, ConsumerSteps
<1>15. ASSUME NEW p \in Producers, Publish(p) PROVE ConsumerTypes'
  BY <1>15 DEF Publish, Goto, Return, vars, registry, park, consumers, scanning, producers, ConsumerSteps
<1>16. ASSUME NEW p \in Producers, Abandon(p) PROVE ConsumerTypes'
  BY <1>16 DEF Abandon, Goto, vars, registry, park, consumers, scanning, producers, ConsumerSteps
<1>17. ASSUME NEW p \in Producers, WakeAfterAbandon(p) PROVE ConsumerTypes'
  BY <1>17 DEF WakeAfterAbandon, Goto, Return, WakeOne, vars, registry, park, consumers, scanning, producers, ConsumerSteps
<1>18. ASSUME NEW p \in Producers, Arm(p) PROVE ConsumerTypes'
  BY <1>18 DEF Arm, Goto, vars, registry, park, consumers, scanning, producers, ConsumerSteps
<1>19. ASSUME NEW p \in Producers, Unpark(p) PROVE ConsumerTypes'
  BY <1>19 DEF Unpark, Goto, vars, registry, park, consumers, scanning, producers, ConsumerSteps
<1>20. ASSUME NEW p \in Producers, Disarm(p) PROVE ConsumerTypes'
  BY <1>20 DEF Disarm, Goto, Return, vars, registry, park, consumers, scanning, producers, ConsumerSteps
<1>21. ASSUME NEW s \in Seats, Classify(s) PROVE ConsumerTypes'
  BY <1>21 DEF Classify, GotoC, vars, registry, park, consumers, scanning, producers, ConsumerSteps
<1>22. ASSUME NEW s \in Seats, AdvanceHead(s) PROVE ConsumerTypes'
  BY <1>22 DEF AdvanceHead, GotoC, vars, registry, park, consumers, scanning, producers, ConsumerSteps
<1>23. ASSUME NEW s \in Seats, WakeProducer(s) PROVE ConsumerTypes'
  BY <1>23 DEF WakeProducer, GotoC, WakeOne, vars, registry, park, consumers, scanning, producers, ConsumerSteps
<1>24. ASSUME NEW s \in Seats, CloneAt(s) PROVE ConsumerTypes'
  BY <1>24 DEF CloneAt, GotoC, vars, registry, park, consumers, scanning, producers, ConsumerSteps
<1>25. ASSUME NEW s \in Seats, TrySeat(s) PROVE ConsumerTypes'
  <2>1. CASE trying[s] < NumSeats /\ ~active[trying[s]]
    <3>1. /\ cpc' = [cpc EXCEPT ![s] = "seated", ![trying[s]] = "boarding"]
          /\ UNCHANGED <<joinAt, trying, clones, departing>>
      BY <1>25, <2>1 DEF TrySeat, GotoC
    <3>2. cpc' \in [Seats -> ConsumerSteps]
      BY <3>1 DEF ConsumerSteps
    <3> QED  BY <3>1, <3>2
  <2>2. CASE ~(trying[s] < NumSeats /\ ~active[trying[s]])
    BY <1>25, <2>2 DEF TrySeat, GotoC, EndClone, vars, registry, park, consumers, scanning, producers, ConsumerSteps
  <2> QED  BY <2>1, <2>2
<1>26. ASSUME NEW s \in Seats, Subscribe(s) PROVE ConsumerTypes'
  BY <1>26 DEF Subscribe, GotoC, EndClone, vars, registry, park, consumers, scanning, producers, ConsumerSteps
<1>27. ASSUME NEW s \in Seats, Unsubscribe(s) PROVE ConsumerTypes'
  BY <1>27 DEF Unsubscribe, GotoC, vars, registry, park, consumers, scanning, producers, ConsumerSteps
<1>28. ASSUME FlushProducers PROVE ConsumerTypes'
  BY <1>28 DEF FlushProducers, Flush, vars, registry, park, consumers, scanning, producers, ConsumerSteps
<1>29. ASSUME UNCHANGED vars PROVE ConsumerTypes'
  BY <1>29 DEF vars, registry, park, consumers, scanning, producers, ConsumerSteps
<1> QED
  BY <1>1, <1>2, <1>3, <1>4, <1>5, <1>6, <1>7, <1>8, <1>9, <1>10, <1>11, <1>12, <1>13, <1>14, <1>15, <1>16, <1>17, <1>18, <1>19, <1>20, <1>21, <1>22, <1>23, <1>24, <1>25, <1>26, <1>27, <1>28, <1>29 DEF Next, ProducerStep, ConsumerStep

LEMMA ScanTypesStep ==
  ASSUME TypeOK, ScanIndex, [Next]_vars PROVE ScanTypes'
<1> USE BroadcastAssumption, CapacityAssumption, SlotTypes DEF TypeOK, RingTypes, ConsumerTypes, ScanTypes, CallTypes, NoConsumers
<1>1. ASSUME NEW p \in Producers, Call(p) PROVE ScanTypes'
  BY <1>1 DEF Call, Goto, vars, registry, park, consumers, scanning, producers
<1>2. ASSUME NEW p \in Producers, LoadTail(p) PROVE ScanTypes'
  BY <1>2 DEF LoadTail, Goto, vars, registry, park, consumers, scanning, producers
<1>3. ASSUME NEW p \in Producers, LookPast(p) PROVE ScanTypes'
  BY <1>3 DEF LookPast, Goto, vars, registry, park, consumers, scanning, producers
<1>4. ASSUME NEW p \in Producers, SomebodyIsThere(p) PROVE ScanTypes'
  BY <1>4 DEF SomebodyIsThere, Goto, ResetScan, vars, registry, park, consumers, scanning, producers
<1>5. ASSUME NEW p \in Producers, NobodyIsThere(p) PROVE ScanTypes'
  BY <1>5 DEF NobodyIsThere, Goto, ResetScan, Return, vars, registry, park, consumers, scanning, producers
<1>6. ASSUME NEW p \in Producers, AskPrivate(p) PROVE ScanTypes'
  BY <1>6 DEF AskPrivate, Goto, ResetScan, Permitted, vars, registry, park, consumers, scanning, producers
<1>7. ASSUME NEW p \in Producers, AskShared(p) PROVE ScanTypes'
  BY <1>7 DEF AskShared, Goto, ResetScan, Permitted, vars, registry, park, consumers, scanning, producers
<1>8. ASSUME NEW p \in Producers, ScanFlag(p) PROVE ScanTypes'
  BY <1>8 DEF ScanFlag, Goto, vars, registry, park, consumers, scanning, producers
<1>9. ASSUME NEW p \in Producers, ScanHead(p) PROVE ScanTypes'
  <2>1. idx[p] \in Seats /\ idx[p] + 1 \in 0..NumSeats
    <3>1. pc[p] = "head"
      BY <1>9 DEF ScanHead
    <3>2. idx[p] \in 0..NumSeats /\ idx[p] < NumSeats
      BY <3>1 DEF ScanIndex
    <3> QED  BY <3>2, SeatNumbers
  <2>2. head[idx[p]] \in Nat
    BY <2>1
  <2> QED
    BY <1>9, <2>1, <2>2 DEF ScanHead, Goto, vars, registry, park, consumers, scanning, producers
<1>10. ASSUME NEW p \in Producers, Refresh(p) PROVE ScanTypes'
  <2>1. ResetScan(p)
    BY <1>10 DEF Refresh, Permitted, Refused
  <2>2. \/ UNCHANGED private
        \/ low[p] # NoConsumers /\ private' = [private EXCEPT ![p] = low[p]]
    BY <1>10 DEF Refresh
  <2> QED  BY <2>1, <2>2 DEF ResetScan
<1>11. ASSUME NEW p \in Producers, CheckOccupant(p) PROVE ScanTypes'
  BY <1>11 DEF CheckOccupant, Goto, ClaimFailed, Return, vars, registry, park, consumers, scanning, producers
<1>12. ASSUME NEW p \in Producers, Claim(p) PROVE ScanTypes'
  BY <1>12 DEF Claim, Goto, vars, registry, park, consumers, scanning, producers
<1>13. ASSUME NEW p \in Producers, LoseClaim(p) PROVE ScanTypes'
  BY <1>13 DEF LoseClaim, Goto, vars, registry, park, consumers, scanning, producers
<1>14. ASSUME NEW p \in Producers, Mark(p) PROVE ScanTypes'
  BY <1>14 DEF Mark, Goto, vars, registry, park, consumers, scanning, producers
<1>15. ASSUME NEW p \in Producers, Publish(p) PROVE ScanTypes'
  BY <1>15 DEF Publish, Goto, Return, vars, registry, park, consumers, scanning, producers
<1>16. ASSUME NEW p \in Producers, Abandon(p) PROVE ScanTypes'
  BY <1>16 DEF Abandon, Goto, vars, registry, park, consumers, scanning, producers
<1>17. ASSUME NEW p \in Producers, WakeAfterAbandon(p) PROVE ScanTypes'
  BY <1>17 DEF WakeAfterAbandon, Goto, Return, WakeOne, vars, registry, park, consumers, scanning, producers
<1>18. ASSUME NEW p \in Producers, Arm(p) PROVE ScanTypes'
  BY <1>18 DEF Arm, Goto, vars, registry, park, consumers, scanning, producers
<1>19. ASSUME NEW p \in Producers, Unpark(p) PROVE ScanTypes'
  BY <1>19 DEF Unpark, Goto, vars, registry, park, consumers, scanning, producers
<1>20. ASSUME NEW p \in Producers, Disarm(p) PROVE ScanTypes'
  BY <1>20 DEF Disarm, Goto, Return, vars, registry, park, consumers, scanning, producers
<1>21. ASSUME NEW s \in Seats, Classify(s) PROVE ScanTypes'
  BY <1>21 DEF Classify, GotoC, vars, registry, park, consumers, scanning, producers
<1>22. ASSUME NEW s \in Seats, AdvanceHead(s) PROVE ScanTypes'
  BY <1>22 DEF AdvanceHead, GotoC, vars, registry, park, consumers, scanning, producers
<1>23. ASSUME NEW s \in Seats, WakeProducer(s) PROVE ScanTypes'
  BY <1>23 DEF WakeProducer, GotoC, WakeOne, vars, registry, park, consumers, scanning, producers
<1>24. ASSUME NEW s \in Seats, CloneAt(s) PROVE ScanTypes'
  BY <1>24 DEF CloneAt, GotoC, vars, registry, park, consumers, scanning, producers
<1>25. ASSUME NEW s \in Seats, TrySeat(s) PROVE ScanTypes'
  BY <1>25 DEF TrySeat, GotoC, EndClone, vars, registry, park, consumers, scanning, producers
<1>26. ASSUME NEW s \in Seats, Subscribe(s) PROVE ScanTypes'
  BY <1>26 DEF Subscribe, GotoC, EndClone, vars, registry, park, consumers, scanning, producers
<1>27. ASSUME NEW s \in Seats, Unsubscribe(s) PROVE ScanTypes'
  BY <1>27 DEF Unsubscribe, GotoC, vars, registry, park, consumers, scanning, producers
<1>28. ASSUME FlushProducers PROVE ScanTypes'
  BY <1>28 DEF FlushProducers, Flush, vars, registry, park, consumers, scanning, producers
<1>29. ASSUME UNCHANGED vars PROVE ScanTypes'
  BY <1>29 DEF vars, registry, park, consumers, scanning, producers
<1> QED
  BY <1>1, <1>2, <1>3, <1>4, <1>5, <1>6, <1>7, <1>8, <1>9, <1>10, <1>11, <1>12, <1>13, <1>14, <1>15, <1>16, <1>17, <1>18, <1>19, <1>20, <1>21, <1>22, <1>23, <1>24, <1>25, <1>26, <1>27, <1>28, <1>29 DEF Next, ProducerStep, ConsumerStep

LEMMA CallTypesStep ==
  ASSUME TypeOK, [Next]_vars PROVE CallTypes'
<1> USE BroadcastAssumption, CapacityAssumption, SlotTypes DEF TypeOK, RingTypes, ConsumerTypes, ScanTypes, CallTypes, NoConsumers
<1>1. ASSUME NEW p \in Producers, Call(p) PROVE CallTypes'
  BY <1>1 DEF Call, Goto, vars, registry, park, consumers, scanning, producers, ProducerSteps, Stages, Calls
<1>2. ASSUME NEW p \in Producers, LoadTail(p) PROVE CallTypes'
  BY <1>2 DEF LoadTail, Goto, vars, registry, park, consumers, scanning, producers, ProducerSteps, Stages, Calls
<1>3. ASSUME NEW p \in Producers, LookPast(p) PROVE CallTypes'
  BY <1>3 DEF LookPast, Goto, vars, registry, park, consumers, scanning, producers, ProducerSteps, Stages, Calls
<1>4. ASSUME NEW p \in Producers, SomebodyIsThere(p) PROVE CallTypes'
  BY <1>4 DEF SomebodyIsThere, Goto, ResetScan, vars, registry, park, consumers, scanning, producers, ProducerSteps, Stages, Calls
<1>5. ASSUME NEW p \in Producers, NobodyIsThere(p) PROVE CallTypes'
  BY <1>5, SMTT(20) DEF NobodyIsThere, Goto, ResetScan, Return, vars, registry, park, consumers, scanning, producers, ProducerSteps, Stages, Calls
<1>6. ASSUME NEW p \in Producers, AskPrivate(p) PROVE CallTypes'
  BY <1>6 DEF AskPrivate, Goto, ResetScan, Permitted, vars, registry, park, consumers, scanning, producers, ProducerSteps, Stages, Calls
<1>7. ASSUME NEW p \in Producers, AskShared(p) PROVE CallTypes'
  BY <1>7, SMTT(20) DEF AskShared, Goto, ResetScan, Permitted, vars, registry, park, consumers, scanning, producers, ProducerSteps, Stages, Calls
<1>8. ASSUME NEW p \in Producers, ScanFlag(p) PROVE CallTypes'
  BY <1>8 DEF ScanFlag, Goto, vars, registry, park, consumers, scanning, producers, ProducerSteps, Stages, Calls
<1>9. ASSUME NEW p \in Producers, ScanHead(p) PROVE CallTypes'
  BY <1>9 DEF ScanHead, Goto, vars, registry, park, consumers, scanning, producers, ProducerSteps, Stages, Calls
<1>10. ASSUME NEW p \in Producers, Refresh(p) PROVE CallTypes'
  BY <1>10 DEF Refresh, Goto, ResetScan, Permitted, Return, ClaimFailed, Refused, vars, registry, park, consumers, scanning, producers, ProducerSteps, Stages, Calls
<1>11. ASSUME NEW p \in Producers, CheckOccupant(p) PROVE CallTypes'
  BY <1>11 DEF CheckOccupant, Goto, ClaimFailed, Return, vars, registry, park, consumers, scanning, producers, ProducerSteps, Stages, Calls
<1>12. ASSUME NEW p \in Producers, Claim(p) PROVE CallTypes'
  BY <1>12 DEF Claim, Goto, vars, registry, park, consumers, scanning, producers, ProducerSteps, Stages, Calls
<1>13. ASSUME NEW p \in Producers, LoseClaim(p) PROVE CallTypes'
  BY <1>13 DEF LoseClaim, Goto, vars, registry, park, consumers, scanning, producers, ProducerSteps, Stages, Calls
<1>14. ASSUME NEW p \in Producers, Mark(p) PROVE CallTypes'
  BY <1>14 DEF Mark, Goto, vars, registry, park, consumers, scanning, producers, ProducerSteps, Stages, Calls
<1>15. ASSUME NEW p \in Producers, Publish(p) PROVE CallTypes'
  BY <1>15 DEF Publish, Goto, Return, vars, registry, park, consumers, scanning, producers, ProducerSteps, Stages, Calls
<1>16. ASSUME NEW p \in Producers, Abandon(p) PROVE CallTypes'
  BY <1>16 DEF Abandon, Goto, vars, registry, park, consumers, scanning, producers, ProducerSteps, Stages, Calls
<1>17. ASSUME NEW p \in Producers, WakeAfterAbandon(p) PROVE CallTypes'
  BY <1>17 DEF WakeAfterAbandon, Goto, Return, WakeOne, vars, registry, park, consumers, scanning, producers, ProducerSteps, Stages, Calls
<1>18. ASSUME NEW p \in Producers, Arm(p) PROVE CallTypes'
  BY <1>18 DEF Arm, Goto, vars, registry, park, consumers, scanning, producers, ProducerSteps, Stages, Calls
<1>19. ASSUME NEW p \in Producers, Unpark(p) PROVE CallTypes'
  BY <1>19 DEF Unpark, Goto, vars, registry, park, consumers, scanning, producers, ProducerSteps, Stages, Calls
<1>20. ASSUME NEW p \in Producers, Disarm(p) PROVE CallTypes'
  BY <1>20 DEF Disarm, Goto, Return, vars, registry, park, consumers, scanning, producers, ProducerSteps, Stages, Calls
<1>21. ASSUME NEW s \in Seats, Classify(s) PROVE CallTypes'
  BY <1>21 DEF Classify, GotoC, vars, registry, park, consumers, scanning, producers, ProducerSteps, Stages, Calls
<1>22. ASSUME NEW s \in Seats, AdvanceHead(s) PROVE CallTypes'
  BY <1>22 DEF AdvanceHead, GotoC, vars, registry, park, consumers, scanning, producers, ProducerSteps, Stages, Calls
<1>23. ASSUME NEW s \in Seats, WakeProducer(s) PROVE CallTypes'
  BY <1>23 DEF WakeProducer, GotoC, WakeOne, vars, registry, park, consumers, scanning, producers, ProducerSteps, Stages, Calls
<1>24. ASSUME NEW s \in Seats, CloneAt(s) PROVE CallTypes'
  BY <1>24 DEF CloneAt, GotoC, vars, registry, park, consumers, scanning, producers, ProducerSteps, Stages, Calls
<1>25. ASSUME NEW s \in Seats, TrySeat(s) PROVE CallTypes'
  BY <1>25 DEF TrySeat, GotoC, EndClone, vars, registry, park, consumers, scanning, producers, ProducerSteps, Stages, Calls
<1>26. ASSUME NEW s \in Seats, Subscribe(s) PROVE CallTypes'
  BY <1>26 DEF Subscribe, GotoC, EndClone, vars, registry, park, consumers, scanning, producers, ProducerSteps, Stages, Calls
<1>27. ASSUME NEW s \in Seats, Unsubscribe(s) PROVE CallTypes'
  BY <1>27 DEF Unsubscribe, GotoC, vars, registry, park, consumers, scanning, producers, ProducerSteps, Stages, Calls
<1>28. ASSUME FlushProducers PROVE CallTypes'
  BY <1>28 DEF FlushProducers, Flush, vars, registry, park, consumers, scanning, producers, ProducerSteps, Stages, Calls
<1>29. ASSUME UNCHANGED vars PROVE CallTypes'
  BY <1>29 DEF vars, registry, park, consumers, scanning, producers, ProducerSteps, Stages, Calls
<1> QED
  BY <1>1, <1>2, <1>3, <1>4, <1>5, <1>6, <1>7, <1>8, <1>9, <1>10, <1>11, <1>12, <1>13, <1>14, <1>15, <1>16, <1>17, <1>18, <1>19, <1>20, <1>21, <1>22, <1>23, <1>24, <1>25, <1>26, <1>27, <1>28, <1>29 DEF Next, ProducerStep, ConsumerStep

LEMMA ScanIndexStep ==
  ASSUME TypeOK, ScanIndex, [Next]_vars PROVE ScanIndex'
<1> USE BroadcastAssumption, CapacityAssumption, SlotTypes DEF TypeOK, RingTypes, ConsumerTypes, ScanTypes, CallTypes, NoConsumers
<1>1. ASSUME NEW p \in Producers, Call(p) PROVE ScanIndex'
  BY <1>1 DEF Call, Goto, vars, registry, park, consumers, scanning, producers, ScanIndex
<1>2. ASSUME NEW p \in Producers, LoadTail(p) PROVE ScanIndex'
  BY <1>2 DEF LoadTail, Goto, vars, registry, park, consumers, scanning, producers, ScanIndex
<1>3. ASSUME NEW p \in Producers, LookPast(p) PROVE ScanIndex'
  BY <1>3 DEF LookPast, Goto, vars, registry, park, consumers, scanning, producers, ScanIndex
<1>4. ASSUME NEW p \in Producers, SomebodyIsThere(p) PROVE ScanIndex'
  BY <1>4 DEF SomebodyIsThere, Goto, ResetScan, vars, registry, park, consumers, scanning, producers, ScanIndex
<1>5. ASSUME NEW p \in Producers, NobodyIsThere(p) PROVE ScanIndex'
  BY <1>5 DEF NobodyIsThere, Goto, ResetScan, Return, vars, registry, park, consumers, scanning, producers, ScanIndex
<1>6. ASSUME NEW p \in Producers, AskPrivate(p) PROVE ScanIndex'
  BY <1>6 DEF AskPrivate, Goto, ResetScan, Permitted, vars, registry, park, consumers, scanning, producers, ScanIndex
<1>7. ASSUME NEW p \in Producers, AskShared(p) PROVE ScanIndex'
  BY <1>7 DEF AskShared, Goto, ResetScan, Permitted, vars, registry, park, consumers, scanning, producers, ScanIndex
<1>8. ASSUME NEW p \in Producers, ScanFlag(p) PROVE ScanIndex'
  BY <1>8 DEF ScanFlag, Goto, vars, registry, park, consumers, scanning, producers, ScanIndex
<1>9. ASSUME NEW p \in Producers, ScanHead(p) PROVE ScanIndex'
  BY <1>9 DEF ScanHead, Goto, vars, registry, park, consumers, scanning, producers, ScanIndex
<1>10. ASSUME NEW p \in Producers, Refresh(p) PROVE ScanIndex'
  BY <1>10 DEF Refresh, Goto, ResetScan, Permitted, Return, ClaimFailed, Refused, vars, registry, park, consumers, scanning, producers, ScanIndex
<1>11. ASSUME NEW p \in Producers, CheckOccupant(p) PROVE ScanIndex'
  BY <1>11 DEF CheckOccupant, Goto, ClaimFailed, Return, vars, registry, park, consumers, scanning, producers, ScanIndex
<1>12. ASSUME NEW p \in Producers, Claim(p) PROVE ScanIndex'
  BY <1>12 DEF Claim, Goto, vars, registry, park, consumers, scanning, producers, ScanIndex
<1>13. ASSUME NEW p \in Producers, LoseClaim(p) PROVE ScanIndex'
  BY <1>13 DEF LoseClaim, Goto, vars, registry, park, consumers, scanning, producers, ScanIndex
<1>14. ASSUME NEW p \in Producers, Mark(p) PROVE ScanIndex'
  BY <1>14 DEF Mark, Goto, vars, registry, park, consumers, scanning, producers, ScanIndex
<1>15. ASSUME NEW p \in Producers, Publish(p) PROVE ScanIndex'
  BY <1>15 DEF Publish, Goto, Return, vars, registry, park, consumers, scanning, producers, ScanIndex
<1>16. ASSUME NEW p \in Producers, Abandon(p) PROVE ScanIndex'
  BY <1>16 DEF Abandon, Goto, vars, registry, park, consumers, scanning, producers, ScanIndex
<1>17. ASSUME NEW p \in Producers, WakeAfterAbandon(p) PROVE ScanIndex'
  BY <1>17 DEF WakeAfterAbandon, Goto, Return, WakeOne, vars, registry, park, consumers, scanning, producers, ScanIndex
<1>18. ASSUME NEW p \in Producers, Arm(p) PROVE ScanIndex'
  BY <1>18 DEF Arm, Goto, vars, registry, park, consumers, scanning, producers, ScanIndex
<1>19. ASSUME NEW p \in Producers, Unpark(p) PROVE ScanIndex'
  BY <1>19 DEF Unpark, Goto, vars, registry, park, consumers, scanning, producers, ScanIndex
<1>20. ASSUME NEW p \in Producers, Disarm(p) PROVE ScanIndex'
  BY <1>20 DEF Disarm, Goto, Return, vars, registry, park, consumers, scanning, producers, ScanIndex
<1>21. ASSUME NEW s \in Seats, Classify(s) PROVE ScanIndex'
  BY <1>21 DEF Classify, GotoC, vars, registry, park, consumers, scanning, producers, ScanIndex
<1>22. ASSUME NEW s \in Seats, AdvanceHead(s) PROVE ScanIndex'
  BY <1>22 DEF AdvanceHead, GotoC, vars, registry, park, consumers, scanning, producers, ScanIndex
<1>23. ASSUME NEW s \in Seats, WakeProducer(s) PROVE ScanIndex'
  BY <1>23 DEF WakeProducer, GotoC, WakeOne, vars, registry, park, consumers, scanning, producers, ScanIndex
<1>24. ASSUME NEW s \in Seats, CloneAt(s) PROVE ScanIndex'
  BY <1>24 DEF CloneAt, GotoC, vars, registry, park, consumers, scanning, producers, ScanIndex
<1>25. ASSUME NEW s \in Seats, TrySeat(s) PROVE ScanIndex'
  BY <1>25 DEF TrySeat, GotoC, EndClone, vars, registry, park, consumers, scanning, producers, ScanIndex
<1>26. ASSUME NEW s \in Seats, Subscribe(s) PROVE ScanIndex'
  BY <1>26 DEF Subscribe, GotoC, EndClone, vars, registry, park, consumers, scanning, producers, ScanIndex
<1>27. ASSUME NEW s \in Seats, Unsubscribe(s) PROVE ScanIndex'
  BY <1>27 DEF Unsubscribe, GotoC, vars, registry, park, consumers, scanning, producers, ScanIndex
<1>28. ASSUME FlushProducers PROVE ScanIndex'
  BY <1>28 DEF FlushProducers, Flush, vars, registry, park, consumers, scanning, producers, ScanIndex
<1>29. ASSUME UNCHANGED vars PROVE ScanIndex'
  BY <1>29 DEF vars, registry, park, consumers, scanning, producers, ScanIndex
<1> QED
  BY <1>1, <1>2, <1>3, <1>4, <1>5, <1>6, <1>7, <1>8, <1>9, <1>10, <1>11, <1>12, <1>13, <1>14, <1>15, <1>16, <1>17, <1>18, <1>19, <1>20, <1>21, <1>22, <1>23, <1>24, <1>25, <1>26, <1>27, <1>28, <1>29 DEF Next, ProducerStep, ConsumerStep

LEMMA SeatStep ==
  ASSUME TypeOK, SeatInv, [Next]_vars PROVE SeatInv'
<1> USE BroadcastAssumption, CapacityAssumption, SlotTypes DEF TypeOK, RingTypes, ConsumerTypes, ScanTypes, CallTypes, NoConsumers
<1>1. ASSUME NEW p \in Producers, Call(p) PROVE SeatInv'
  BY <1>1 DEF Call, Goto, vars, registry, park, consumers, scanning, producers, SeatInv
<1>2. ASSUME NEW p \in Producers, LoadTail(p) PROVE SeatInv'
  BY <1>2 DEF LoadTail, Goto, vars, registry, park, consumers, scanning, producers, SeatInv
<1>3. ASSUME NEW p \in Producers, LookPast(p) PROVE SeatInv'
  BY <1>3 DEF LookPast, Goto, vars, registry, park, consumers, scanning, producers, SeatInv
<1>4. ASSUME NEW p \in Producers, SomebodyIsThere(p) PROVE SeatInv'
  BY <1>4 DEF SomebodyIsThere, Goto, ResetScan, vars, registry, park, consumers, scanning, producers, SeatInv
<1>5. ASSUME NEW p \in Producers, NobodyIsThere(p) PROVE SeatInv'
  BY <1>5 DEF NobodyIsThere, Goto, ResetScan, Return, vars, registry, park, consumers, scanning, producers, SeatInv
<1>6. ASSUME NEW p \in Producers, AskPrivate(p) PROVE SeatInv'
  BY <1>6 DEF AskPrivate, Goto, ResetScan, Permitted, vars, registry, park, consumers, scanning, producers, SeatInv
<1>7. ASSUME NEW p \in Producers, AskShared(p) PROVE SeatInv'
  BY <1>7 DEF AskShared, Goto, ResetScan, Permitted, vars, registry, park, consumers, scanning, producers, SeatInv
<1>8. ASSUME NEW p \in Producers, ScanFlag(p) PROVE SeatInv'
  BY <1>8 DEF ScanFlag, Goto, vars, registry, park, consumers, scanning, producers, SeatInv
<1>9. ASSUME NEW p \in Producers, ScanHead(p) PROVE SeatInv'
  BY <1>9 DEF ScanHead, Goto, vars, registry, park, consumers, scanning, producers, SeatInv
<1>10. ASSUME NEW p \in Producers, Refresh(p) PROVE SeatInv'
  BY <1>10 DEF Refresh, Goto, ResetScan, Permitted, Return, ClaimFailed, Refused, vars, registry, park, consumers, scanning, producers, SeatInv
<1>11. ASSUME NEW p \in Producers, CheckOccupant(p) PROVE SeatInv'
  BY <1>11 DEF CheckOccupant, Goto, ClaimFailed, Return, vars, registry, park, consumers, scanning, producers, SeatInv
<1>12. ASSUME NEW p \in Producers, Claim(p) PROVE SeatInv'
  BY <1>12 DEF Claim, Goto, vars, registry, park, consumers, scanning, producers, SeatInv
<1>13. ASSUME NEW p \in Producers, LoseClaim(p) PROVE SeatInv'
  BY <1>13 DEF LoseClaim, Goto, vars, registry, park, consumers, scanning, producers, SeatInv
<1>14. ASSUME NEW p \in Producers, Mark(p) PROVE SeatInv'
  BY <1>14 DEF Mark, Goto, vars, registry, park, consumers, scanning, producers, SeatInv
<1>15. ASSUME NEW p \in Producers, Publish(p) PROVE SeatInv'
  BY <1>15 DEF Publish, Goto, Return, vars, registry, park, consumers, scanning, producers, SeatInv
<1>16. ASSUME NEW p \in Producers, Abandon(p) PROVE SeatInv'
  BY <1>16 DEF Abandon, Goto, vars, registry, park, consumers, scanning, producers, SeatInv
<1>17. ASSUME NEW p \in Producers, WakeAfterAbandon(p) PROVE SeatInv'
  BY <1>17 DEF WakeAfterAbandon, Goto, Return, WakeOne, vars, registry, park, consumers, scanning, producers, SeatInv
<1>18. ASSUME NEW p \in Producers, Arm(p) PROVE SeatInv'
  BY <1>18 DEF Arm, Goto, vars, registry, park, consumers, scanning, producers, SeatInv
<1>19. ASSUME NEW p \in Producers, Unpark(p) PROVE SeatInv'
  BY <1>19 DEF Unpark, Goto, vars, registry, park, consumers, scanning, producers, SeatInv
<1>20. ASSUME NEW p \in Producers, Disarm(p) PROVE SeatInv'
  BY <1>20 DEF Disarm, Goto, Return, vars, registry, park, consumers, scanning, producers, SeatInv
<1>21. ASSUME NEW s \in Seats, Classify(s) PROVE SeatInv'
  BY <1>21 DEF Classify, GotoC, vars, registry, park, consumers, scanning, producers, SeatInv
<1>22. ASSUME NEW s \in Seats, AdvanceHead(s) PROVE SeatInv'
  BY <1>22 DEF AdvanceHead, GotoC, vars, registry, park, consumers, scanning, producers, SeatInv
<1>23. ASSUME NEW s \in Seats, WakeProducer(s) PROVE SeatInv'
  BY <1>23 DEF WakeProducer, GotoC, WakeOne, vars, registry, park, consumers, scanning, producers, SeatInv
<1>24. ASSUME NEW s \in Seats, CloneAt(s) PROVE SeatInv'
  BY <1>24 DEF CloneAt, GotoC, vars, registry, park, consumers, scanning, producers, SeatInv
<1>25. ASSUME NEW s \in Seats, TrySeat(s) PROVE SeatInv'
  <2> DEFINE t == trying[s]
  <2>1. cpc[s] = "seating"
    BY <1>25 DEF TrySeat
  <2>2. CASE t < NumSeats /\ ~active[t]
    <3>1. t \in Seats
      <4>1. t \in Nat
        OBVIOUS
      <4> QED  BY <2>2, <4>1, SeatNumbers
    <3>2. /\ active' = [active EXCEPT ![t] = TRUE] /\ UNCHANGED trying
          /\ cpc' = [cpc EXCEPT ![s] = "seated", ![t] = "boarding"]
      BY <1>25, <2>2 DEF TrySeat, GotoC
    <3>3. cpc[t] = "gone" /\ s # t
      BY <2>1, <2>2, <3>1 DEF SeatInv
    <3> HIDE DEF t
    <3>4. \A r \in Seats : cpc[r] = "seated" => trying[r] # t
      BY <3>3 DEF SeatInv
    <3>5. /\ cpc'[s] = "seated" /\ cpc'[t] = "boarding" /\ active'[t] = TRUE
          /\ \A r \in Seats : r # s /\ r # t => cpc'[r] = cpc[r]
          /\ \A r \in Seats : r # t => active'[r] = active[r]
      BY <3>1, <3>2, <3>3
    <3>6. trying'[s] = t
      BY <3>2 DEF t
    <3>7. (\A r \in Seats : active[r] <=> cpc[r] # "gone")'
      BY <2>1, <3>3, <3>5 DEF SeatInv
    <3>8. (\A r \in Seats : cpc[r] = "seated" => trying[r] \in Seats /\ cpc[trying[r]] = "boarding")'
      BY <2>1, <3>1, <3>2, <3>4, <3>5, <3>6 DEF SeatInv
    <3>9. (\A r, q \in Seats : cpc[r] = "seated" /\ cpc[q] = "seated" /\ r # q => trying[r] # trying[q])'
      BY <3>2, <3>3, <3>4, <3>5, <3>6 DEF SeatInv
    <3> QED  BY <3>7, <3>8, <3>9 DEF SeatInv
  <2>3. CASE ~(t < NumSeats /\ ~active[t])
    BY <1>25, <2>3 DEF TrySeat, GotoC, EndClone, vars, registry, park, consumers, scanning, producers, SeatInv
  <2> QED  BY <2>2, <2>3
<1>26. ASSUME NEW s \in Seats, Subscribe(s) PROVE SeatInv'
  BY <1>26 DEF Subscribe, GotoC, EndClone, vars, registry, park, consumers, scanning, producers, SeatInv
<1>27. ASSUME NEW s \in Seats, Unsubscribe(s) PROVE SeatInv'
  BY <1>27 DEF Unsubscribe, GotoC, vars, registry, park, consumers, scanning, producers, SeatInv
<1>28. ASSUME FlushProducers PROVE SeatInv'
  BY <1>28 DEF FlushProducers, Flush, vars, registry, park, consumers, scanning, producers, SeatInv
<1>29. ASSUME UNCHANGED vars PROVE SeatInv'
  BY <1>29 DEF vars, registry, park, consumers, scanning, producers, SeatInv
<1> QED
  BY <1>1, <1>2, <1>3, <1>4, <1>5, <1>6, <1>7, <1>8, <1>9, <1>10, <1>11, <1>12, <1>13, <1>14, <1>15, <1>16, <1>17, <1>18, <1>19, <1>20, <1>21, <1>22, <1>23, <1>24, <1>25, <1>26, <1>27, <1>28, <1>29 DEF Next, ProducerStep, ConsumerStep

LEMMA CursorStep ==
  ASSUME TypeOK, ScanIndex, SeatInv, CursorInv, ClaimInv, [Next]_vars PROVE CursorInv'
<1> USE BroadcastAssumption, CapacityAssumption, SlotTypes DEF TypeOK, RingTypes, ConsumerTypes, ScanTypes, CallTypes, NoConsumers
<1>1. ASSUME NEW p \in Producers, Call(p) PROVE CursorInv'
  BY <1>1 DEF Call, Goto, vars, registry, park, consumers, scanning, producers, CursorInv, Holds
<1>2. ASSUME NEW p \in Producers, LoadTail(p) PROVE CursorInv'
  BY <1>2 DEF LoadTail, Goto, vars, registry, park, consumers, scanning, producers, CursorInv, Holds
<1>3. ASSUME NEW p \in Producers, LookPast(p) PROVE CursorInv'
  BY <1>3 DEF LookPast, Goto, vars, registry, park, consumers, scanning, producers, CursorInv, Holds
<1>4. ASSUME NEW p \in Producers, SomebodyIsThere(p) PROVE CursorInv'
  BY <1>4 DEF SomebodyIsThere, Goto, ResetScan, vars, registry, park, consumers, scanning, producers, CursorInv, Holds
<1>5. ASSUME NEW p \in Producers, NobodyIsThere(p) PROVE CursorInv'
  BY <1>5, SMTT(20) DEF NobodyIsThere, Goto, ResetScan, Return, vars, registry, park, consumers, scanning, producers, CursorInv, Holds
<1>6. ASSUME NEW p \in Producers, AskPrivate(p) PROVE CursorInv'
  BY <1>6 DEF AskPrivate, Goto, ResetScan, Permitted, vars, registry, park, consumers, scanning, producers, CursorInv, Holds
<1>7. ASSUME NEW p \in Producers, AskShared(p) PROVE CursorInv'
  BY <1>7 DEF AskShared, Goto, ResetScan, Permitted, vars, registry, park, consumers, scanning, producers, CursorInv, Holds
<1>8. ASSUME NEW p \in Producers, ScanFlag(p) PROVE CursorInv'
  BY <1>8 DEF ScanFlag, Goto, vars, registry, park, consumers, scanning, producers, CursorInv, Holds
<1>9. ASSUME NEW p \in Producers, ScanHead(p) PROVE CursorInv'
  <2>1. pc[p] = "head"
    BY <1>9 DEF ScanHead
  <2>2. idx[p] \in Seats
    BY <2>1, SeatNumbers DEF ScanIndex
  <2>3. head[idx[p]] \in Nat /\ head[idx[p]] <= tail
    BY <2>2 DEF CursorInv
  <2> QED
    BY <1>9, <2>1, <2>3 DEF ScanHead, Goto, vars, registry, park, consumers, scanning, producers, CursorInv, Holds
<1>10. ASSUME NEW p \in Producers, Refresh(p) PROVE CursorInv'
  BY <1>10 DEF Refresh, Goto, ResetScan, Permitted, Return, ClaimFailed, Refused, vars, registry, park, consumers, scanning, producers, CursorInv, Holds, Permits
<1>11. ASSUME NEW p \in Producers, CheckOccupant(p) PROVE CursorInv'
  BY <1>11 DEF CheckOccupant, Goto, ClaimFailed, Return, vars, registry, park, consumers, scanning, producers, CursorInv, Holds
<1>12. ASSUME NEW p \in Producers, Claim(p) PROVE CursorInv'
  BY <1>12 DEF Claim, Goto, vars, registry, park, consumers, scanning, producers, CursorInv, Holds
<1>13. ASSUME NEW p \in Producers, LoseClaim(p) PROVE CursorInv'
  BY <1>13 DEF LoseClaim, Goto, vars, registry, park, consumers, scanning, producers, CursorInv, Holds
<1>14. ASSUME NEW p \in Producers, Mark(p) PROVE CursorInv'
  BY <1>14 DEF Mark, Goto, vars, registry, park, consumers, scanning, producers, CursorInv, Holds
<1>15. ASSUME NEW p \in Producers, Publish(p) PROVE CursorInv'
  BY <1>15 DEF Publish, Goto, Return, vars, registry, park, consumers, scanning, producers, CursorInv, Holds
<1>16. ASSUME NEW p \in Producers, Abandon(p) PROVE CursorInv'
  BY <1>16 DEF Abandon, Goto, vars, registry, park, consumers, scanning, producers, CursorInv, Holds
<1>17. ASSUME NEW p \in Producers, WakeAfterAbandon(p) PROVE CursorInv'
  BY <1>17 DEF WakeAfterAbandon, Goto, Return, WakeOne, vars, registry, park, consumers, scanning, producers, CursorInv, Holds
<1>18. ASSUME NEW p \in Producers, Arm(p) PROVE CursorInv'
  BY <1>18 DEF Arm, Goto, vars, registry, park, consumers, scanning, producers, CursorInv, Holds
<1>19. ASSUME NEW p \in Producers, Unpark(p) PROVE CursorInv'
  BY <1>19 DEF Unpark, Goto, vars, registry, park, consumers, scanning, producers, CursorInv, Holds
<1>20. ASSUME NEW p \in Producers, Disarm(p) PROVE CursorInv'
  BY <1>20 DEF Disarm, Goto, Return, vars, registry, park, consumers, scanning, producers, CursorInv, Holds
<1>21. ASSUME NEW s \in Seats, Classify(s) PROVE CursorInv'
  BY <1>21 DEF Classify, GotoC, vars, registry, park, consumers, scanning, producers, CursorInv, Holds
<1>22. ASSUME NEW s \in Seats, AdvanceHead(s) PROVE CursorInv'
  BY <1>22 DEF AdvanceHead, GotoC, vars, registry, park, consumers, scanning, producers, CursorInv, Holds, ClaimInv
<1>23. ASSUME NEW s \in Seats, WakeProducer(s) PROVE CursorInv'
  BY <1>23 DEF WakeProducer, GotoC, WakeOne, vars, registry, park, consumers, scanning, producers, CursorInv, Holds
<1>24. ASSUME NEW s \in Seats, CloneAt(s) PROVE CursorInv'
  BY <1>24 DEF CloneAt, GotoC, vars, registry, park, consumers, scanning, producers, CursorInv, Holds
<1>25. ASSUME NEW s \in Seats, TrySeat(s) PROVE CursorInv'
  BY <1>25 DEF TrySeat, GotoC, EndClone, vars, registry, park, consumers, scanning, producers, CursorInv, Holds
<1>26. ASSUME NEW s \in Seats, Subscribe(s) PROVE CursorInv'
  BY <1>26 DEF Subscribe, GotoC, EndClone, vars, registry, park, consumers, scanning, producers, CursorInv, Holds
<1>27. ASSUME NEW s \in Seats, Unsubscribe(s) PROVE CursorInv'
  BY <1>27 DEF Unsubscribe, GotoC, vars, registry, park, consumers, scanning, producers, CursorInv, Holds
<1>28. ASSUME FlushProducers PROVE CursorInv'
  BY <1>28 DEF FlushProducers, Flush, vars, registry, park, consumers, scanning, producers, CursorInv, Holds
<1>29. ASSUME UNCHANGED vars PROVE CursorInv'
  BY <1>29 DEF vars, registry, park, consumers, scanning, producers, CursorInv, Holds
<1> QED
  BY <1>1, <1>2, <1>3, <1>4, <1>5, <1>6, <1>7, <1>8, <1>9, <1>10, <1>11, <1>12, <1>13, <1>14, <1>15, <1>16, <1>17, <1>18, <1>19, <1>20, <1>21, <1>22, <1>23, <1>24, <1>25, <1>26, <1>27, <1>28, <1>29 DEF Next, ProducerStep, ConsumerStep

LEMMA ResolvedStep ==
  ASSUME TypeOK, CursorInv, ResolvedInv, [Next]_vars PROVE ResolvedInv'
<1> USE BroadcastAssumption, CapacityAssumption, SlotTypes DEF TypeOK, RingTypes, ConsumerTypes, ScanTypes, CallTypes, NoConsumers
<1>1. ASSUME NEW p \in Producers, Call(p) PROVE ResolvedInv'
  BY <1>1 DEF Call, Goto, vars, registry, park, consumers, scanning, producers, ResolvedInv, Resolved
<1>2. ASSUME NEW p \in Producers, LoadTail(p) PROVE ResolvedInv'
  BY <1>2 DEF LoadTail, Goto, vars, registry, park, consumers, scanning, producers, ResolvedInv, Resolved
<1>3. ASSUME NEW p \in Producers, LookPast(p) PROVE ResolvedInv'
  BY <1>3 DEF LookPast, Goto, vars, registry, park, consumers, scanning, producers, ResolvedInv, Resolved
<1>4. ASSUME NEW p \in Producers, SomebodyIsThere(p) PROVE ResolvedInv'
  BY <1>4 DEF SomebodyIsThere, Goto, ResetScan, vars, registry, park, consumers, scanning, producers, ResolvedInv, Resolved
<1>5. ASSUME NEW p \in Producers, NobodyIsThere(p) PROVE ResolvedInv'
  BY <1>5 DEF NobodyIsThere, Goto, ResetScan, Return, vars, registry, park, consumers, scanning, producers, ResolvedInv, Resolved
<1>6. ASSUME NEW p \in Producers, AskPrivate(p) PROVE ResolvedInv'
  BY <1>6 DEF AskPrivate, Goto, ResetScan, Permitted, vars, registry, park, consumers, scanning, producers, ResolvedInv, Resolved
<1>7. ASSUME NEW p \in Producers, AskShared(p) PROVE ResolvedInv'
  BY <1>7 DEF AskShared, Goto, ResetScan, Permitted, vars, registry, park, consumers, scanning, producers, ResolvedInv, Resolved
<1>8. ASSUME NEW p \in Producers, ScanFlag(p) PROVE ResolvedInv'
  BY <1>8 DEF ScanFlag, Goto, vars, registry, park, consumers, scanning, producers, ResolvedInv, Resolved
<1>9. ASSUME NEW p \in Producers, ScanHead(p) PROVE ResolvedInv'
  BY <1>9 DEF ScanHead, Goto, vars, registry, park, consumers, scanning, producers, ResolvedInv, Resolved
<1>10. ASSUME NEW p \in Producers, Refresh(p) PROVE ResolvedInv'
  BY <1>10 DEF Refresh, Goto, ResetScan, Permitted, Return, ClaimFailed, Refused, vars, registry, park, consumers, scanning, producers, ResolvedInv, Resolved
<1>11. ASSUME NEW p \in Producers, CheckOccupant(p) PROVE ResolvedInv'
  BY <1>11 DEF CheckOccupant, Goto, ClaimFailed, Return, vars, registry, park, consumers, scanning, producers, ResolvedInv, Resolved
<1>12. ASSUME NEW p \in Producers, Claim(p) PROVE ResolvedInv'
  BY <1>12 DEF Claim, Goto, vars, registry, park, consumers, scanning, producers, ResolvedInv, Resolved
<1>13. ASSUME NEW p \in Producers, LoseClaim(p) PROVE ResolvedInv'
  BY <1>13 DEF LoseClaim, Goto, vars, registry, park, consumers, scanning, producers, ResolvedInv, Resolved
<1>14. ASSUME NEW p \in Producers, Mark(p) PROVE ResolvedInv'
  BY <1>14 DEF Mark, Goto, vars, registry, park, consumers, scanning, producers, CursorInv, Holds, ResolvedInv, Resolved, PublishedWord, AbandonedWord, Vacant
<1>15. ASSUME NEW p \in Producers, Publish(p) PROVE ResolvedInv'
  BY <1>15 DEF Publish, Goto, Return, vars, registry, park, consumers, scanning, producers, CursorInv, Holds, ResolvedInv, Resolved, PublishedWord, AbandonedWord, Vacant
<1>16. ASSUME NEW p \in Producers, Abandon(p) PROVE ResolvedInv'
  BY <1>16 DEF Abandon, Goto, vars, registry, park, consumers, scanning, producers, CursorInv, Holds, ResolvedInv, Resolved, PublishedWord, AbandonedWord, Vacant
<1>17. ASSUME NEW p \in Producers, WakeAfterAbandon(p) PROVE ResolvedInv'
  BY <1>17 DEF WakeAfterAbandon, Goto, Return, WakeOne, vars, registry, park, consumers, scanning, producers, ResolvedInv, Resolved
<1>18. ASSUME NEW p \in Producers, Arm(p) PROVE ResolvedInv'
  BY <1>18 DEF Arm, Goto, vars, registry, park, consumers, scanning, producers, ResolvedInv, Resolved
<1>19. ASSUME NEW p \in Producers, Unpark(p) PROVE ResolvedInv'
  BY <1>19 DEF Unpark, Goto, vars, registry, park, consumers, scanning, producers, ResolvedInv, Resolved
<1>20. ASSUME NEW p \in Producers, Disarm(p) PROVE ResolvedInv'
  BY <1>20 DEF Disarm, Goto, Return, vars, registry, park, consumers, scanning, producers, ResolvedInv, Resolved
<1>21. ASSUME NEW s \in Seats, Classify(s) PROVE ResolvedInv'
  BY <1>21 DEF Classify, GotoC, vars, registry, park, consumers, scanning, producers, ResolvedInv, Resolved
<1>22. ASSUME NEW s \in Seats, AdvanceHead(s) PROVE ResolvedInv'
  BY <1>22 DEF AdvanceHead, GotoC, vars, registry, park, consumers, scanning, producers, ResolvedInv, Resolved
<1>23. ASSUME NEW s \in Seats, WakeProducer(s) PROVE ResolvedInv'
  BY <1>23 DEF WakeProducer, GotoC, WakeOne, vars, registry, park, consumers, scanning, producers, ResolvedInv, Resolved
<1>24. ASSUME NEW s \in Seats, CloneAt(s) PROVE ResolvedInv'
  BY <1>24 DEF CloneAt, GotoC, vars, registry, park, consumers, scanning, producers, ResolvedInv, Resolved
<1>25. ASSUME NEW s \in Seats, TrySeat(s) PROVE ResolvedInv'
  BY <1>25 DEF TrySeat, GotoC, EndClone, vars, registry, park, consumers, scanning, producers, ResolvedInv, Resolved
<1>26. ASSUME NEW s \in Seats, Subscribe(s) PROVE ResolvedInv'
  BY <1>26 DEF Subscribe, GotoC, EndClone, vars, registry, park, consumers, scanning, producers, ResolvedInv, Resolved
<1>27. ASSUME NEW s \in Seats, Unsubscribe(s) PROVE ResolvedInv'
  BY <1>27 DEF Unsubscribe, GotoC, vars, registry, park, consumers, scanning, producers, ResolvedInv, Resolved
<1>28. ASSUME FlushProducers PROVE ResolvedInv'
  BY <1>28 DEF FlushProducers, Flush, vars, registry, park, consumers, scanning, producers, ResolvedInv, Resolved
<1>29. ASSUME UNCHANGED vars PROVE ResolvedInv'
  BY <1>29 DEF vars, registry, park, consumers, scanning, producers, ResolvedInv, Resolved
<1> QED
  BY <1>1, <1>2, <1>3, <1>4, <1>5, <1>6, <1>7, <1>8, <1>9, <1>10, <1>11, <1>12, <1>13, <1>14, <1>15, <1>16, <1>17, <1>18, <1>19, <1>20, <1>21, <1>22, <1>23, <1>24, <1>25, <1>26, <1>27, <1>28, <1>29 DEF Next, ProducerStep, ConsumerStep

LEMMA ClaimStep ==
  ASSUME TypeOK, CursorInv, ResolvedInv, ClaimInv, [Next]_vars PROVE ClaimInv'
<1> USE BroadcastAssumption, CapacityAssumption, SlotTypes DEF TypeOK, RingTypes, ConsumerTypes, ScanTypes, CallTypes, NoConsumers
<1>1. ASSUME NEW p \in Producers, Call(p) PROVE ClaimInv'
  BY <1>1, SMTT(20) DEF Call, Goto, vars, registry, park, consumers, scanning, producers, ClaimInv, Holds, Resolved
<1>2. ASSUME NEW p \in Producers, LoadTail(p) PROVE ClaimInv'
  BY <1>2 DEF LoadTail, Goto, vars, registry, park, consumers, scanning, producers, ClaimInv, Holds, Resolved
<1>3. ASSUME NEW p \in Producers, LookPast(p) PROVE ClaimInv'
  BY <1>3 DEF LookPast, Goto, vars, registry, park, consumers, scanning, producers, ClaimInv, Holds, Resolved
<1>4. ASSUME NEW p \in Producers, SomebodyIsThere(p) PROVE ClaimInv'
  BY <1>4 DEF SomebodyIsThere, Goto, ResetScan, vars, registry, park, consumers, scanning, producers, ClaimInv, Holds, Resolved
<1>5. ASSUME NEW p \in Producers, NobodyIsThere(p) PROVE ClaimInv'
  BY <1>5 DEF NobodyIsThere, Goto, ResetScan, Return, vars, registry, park, consumers, scanning, producers, ClaimInv, Holds, Resolved
<1>6. ASSUME NEW p \in Producers, AskPrivate(p) PROVE ClaimInv'
  BY <1>6, SMTT(20) DEF AskPrivate, Goto, ResetScan, Permitted, vars, registry, park, consumers, scanning, producers, ClaimInv, Holds, Resolved
<1>7. ASSUME NEW p \in Producers, AskShared(p) PROVE ClaimInv'
  BY <1>7, SMTT(20) DEF AskShared, Goto, ResetScan, Permitted, vars, registry, park, consumers, scanning, producers, ClaimInv, Holds, Resolved
<1>8. ASSUME NEW p \in Producers, ScanFlag(p) PROVE ClaimInv'
  BY <1>8 DEF ScanFlag, Goto, vars, registry, park, consumers, scanning, producers, ClaimInv, Holds, Resolved
<1>9. ASSUME NEW p \in Producers, ScanHead(p) PROVE ClaimInv'
  BY <1>9 DEF ScanHead, Goto, vars, registry, park, consumers, scanning, producers, ClaimInv, Holds, Resolved
<1>10. ASSUME NEW p \in Producers, Refresh(p) PROVE ClaimInv'
  BY <1>10 DEF Refresh, Goto, ResetScan, Permitted, Return, ClaimFailed, Refused, vars, registry, park, consumers, scanning, producers, ClaimInv, Holds, Resolved
<1>11. ASSUME NEW p \in Producers, CheckOccupant(p) PROVE ClaimInv'
  BY <1>11, SMTT(20) DEF CheckOccupant, Goto, ClaimFailed, Return, vars, registry, park, consumers, scanning, producers, ClaimInv, Holds, Resolved
<1>12. ASSUME NEW p \in Producers, Claim(p) PROVE ClaimInv'
  <2>1. /\ cur[p] = tail /\ tail' = tail + 1 /\ UNCHANGED <<word, cur, head, cpc>>
        /\ pc' = [pc EXCEPT ![p] = "mark"]
    BY <1>12 DEF Claim, Goto, consumers, registry
  <2>2. ~Resolved(tail)
    BY DEF ResolvedInv
  <2>3. /\ \A q \in Producers : Holds(q)' => q = p \/ Holds(q)
        /\ \A q \in Producers : Holds(q) => cur[q] < tail
    <3>1. \A q \in Producers : Holds(q) => cur[q] < tail
      BY DEF CursorInv
    <3>2. \A q \in Producers : Holds(q)' => q = p \/ Holds(q)
      BY <2>1 DEF Holds
    <3> QED  BY <3>1, <3>2
  <2>4. (\A q, r \in Producers : Holds(q) /\ Holds(r) /\ q # r => cur[q] # cur[r])'
    BY <2>1, <2>3 DEF ClaimInv
  <2>5. (\A q \in Producers : Holds(q) => ~Resolved(cur[q]))'
    BY <2>1, <2>2, <2>3 DEF ClaimInv, Resolved
  <2>6. (\A s \in Seats : cpc[s] \in {"reading", "skipping"} =>
           head[s] < tail /\ \A q \in Producers : Holds(q) => cur[q] # head[s])'
    BY <2>1, <2>3 DEF ClaimInv
  <2> QED  BY <2>4, <2>5, <2>6 DEF ClaimInv
<1>13. ASSUME NEW p \in Producers, LoseClaim(p) PROVE ClaimInv'
  BY <1>13 DEF LoseClaim, Goto, vars, registry, park, consumers, scanning, producers, ClaimInv, Holds, Resolved
<1>14. ASSUME NEW p \in Producers, Mark(p) PROVE ClaimInv'
  <2>1. /\ Holds(p) /\ word' = [word EXCEPT ![Slot(cur[p])] = Vacant]
        /\ UNCHANGED <<tail, head, cpc>>
    BY <1>14 DEF Mark, Holds, consumers, registry
  <2>2. \A q \in Producers : Holds(q)' => Holds(q) /\ cur'[q] = cur[q]
    BY <1>14 DEF Mark, Goto, Return, Holds
  <2>3. \A pos \in Nat : pos # cur[p] /\ Resolved(pos)' => Resolved(pos)
    BY <2>1, WordStored
  <2>4. (\A q, r \in Producers : Holds(q) /\ Holds(r) /\ q # r => cur[q] # cur[r])'
    BY <2>2 DEF ClaimInv
  <2>5. (\A q \in Producers : Holds(q) => ~Resolved(cur[q]))'
    <3> SUFFICES ASSUME NEW q \in Producers, Holds(q)' PROVE ~Resolved(cur[q])'
      OBVIOUS
    <3>1. Holds(q) /\ cur'[q] = cur[q] /\ ~Resolved(cur[q]) /\ cur[q] \in Nat /\ cur[p] \in Nat
      BY <2>2 DEF ClaimInv
    <3>2. word'[Slot(cur[p])] = Vacant
      BY <2>1, <3>1, WordStored
    <3>3. CASE cur[q] = cur[p]
      BY <3>1, <3>2, <3>3 DEF Resolved, Vacant, PublishedWord, AbandonedWord
    <3>4. CASE cur[q] # cur[p]
      BY <2>3, <3>1, <3>4 DEF Resolved
    <3> QED  BY <3>3, <3>4
  <2>6. (\A s \in Seats : cpc[s] \in {"reading", "skipping"} =>
           head[s] < tail /\ \A q \in Producers : Holds(q) => cur[q] # head[s])'
    BY <2>1, <2>2 DEF ClaimInv
  <2> QED  BY <2>4, <2>5, <2>6 DEF ClaimInv
<1>15. ASSUME NEW p \in Producers, Publish(p) PROVE ClaimInv'
  <2>1. /\ Holds(p) /\ word' = [word EXCEPT ![Slot(cur[p])] = PublishedWord(cur[p])]
        /\ UNCHANGED <<tail, head, cpc>>
    BY <1>15 DEF Publish, Holds, consumers, registry
  <2>2. \A q \in Producers : Holds(q)' => Holds(q) /\ cur'[q] = cur[q] /\ q # p
    BY <1>15 DEF Publish, Goto, Return, Holds
  <2>3. \A pos \in Nat : pos # cur[p] /\ Resolved(pos)' => Resolved(pos)
    BY <2>1, WordStored
  <2>4. (\A q, r \in Producers : Holds(q) /\ Holds(r) /\ q # r => cur[q] # cur[r])'
    BY <2>2 DEF ClaimInv
  <2>5. (\A q \in Producers : Holds(q) => ~Resolved(cur[q]))'
    <3> SUFFICES ASSUME NEW q \in Producers, Holds(q)' PROVE ~Resolved(cur[q])'
      OBVIOUS
    <3>1. /\ Holds(q) /\ q # p /\ cur'[q] = cur[q] /\ ~Resolved(cur[q])
          /\ cur[q] \in Nat /\ cur[p] \in Nat /\ cur[q] # cur[p]
      BY <2>1, <2>2 DEF ClaimInv
    <3> QED  BY <2>3, <3>1 DEF Resolved
  <2>6. (\A s \in Seats : cpc[s] \in {"reading", "skipping"} =>
           head[s] < tail /\ \A q \in Producers : Holds(q) => cur[q] # head[s])'
    BY <2>1, <2>2 DEF ClaimInv
  <2> QED  BY <2>4, <2>5, <2>6 DEF ClaimInv
<1>16. ASSUME NEW p \in Producers, Abandon(p) PROVE ClaimInv'
  <2>1. /\ Holds(p) /\ word' = [word EXCEPT ![Slot(cur[p])] = AbandonedWord(cur[p])]
        /\ UNCHANGED <<tail, head, cpc>>
    BY <1>16 DEF Abandon, Holds, consumers, registry
  <2>2. \A q \in Producers : Holds(q)' => Holds(q) /\ cur'[q] = cur[q] /\ q # p
    BY <1>16 DEF Abandon, Goto, Return, Holds
  <2>3. \A pos \in Nat : pos # cur[p] /\ Resolved(pos)' => Resolved(pos)
    BY <2>1, WordStored
  <2>4. (\A q, r \in Producers : Holds(q) /\ Holds(r) /\ q # r => cur[q] # cur[r])'
    BY <2>2 DEF ClaimInv
  <2>5. (\A q \in Producers : Holds(q) => ~Resolved(cur[q]))'
    <3> SUFFICES ASSUME NEW q \in Producers, Holds(q)' PROVE ~Resolved(cur[q])'
      OBVIOUS
    <3>1. /\ Holds(q) /\ q # p /\ cur'[q] = cur[q] /\ ~Resolved(cur[q])
          /\ cur[q] \in Nat /\ cur[p] \in Nat /\ cur[q] # cur[p]
      BY <2>1, <2>2 DEF ClaimInv
    <3> QED  BY <2>3, <3>1 DEF Resolved
  <2>6. (\A s \in Seats : cpc[s] \in {"reading", "skipping"} =>
           head[s] < tail /\ \A q \in Producers : Holds(q) => cur[q] # head[s])'
    BY <2>1, <2>2 DEF ClaimInv
  <2> QED  BY <2>4, <2>5, <2>6 DEF ClaimInv
<1>17. ASSUME NEW p \in Producers, WakeAfterAbandon(p) PROVE ClaimInv'
  BY <1>17 DEF WakeAfterAbandon, Goto, Return, WakeOne, vars, registry, park, consumers, scanning, producers, ClaimInv, Holds, Resolved
<1>18. ASSUME NEW p \in Producers, Arm(p) PROVE ClaimInv'
  BY <1>18 DEF Arm, Goto, vars, registry, park, consumers, scanning, producers, ClaimInv, Holds, Resolved
<1>19. ASSUME NEW p \in Producers, Unpark(p) PROVE ClaimInv'
  BY <1>19 DEF Unpark, Goto, vars, registry, park, consumers, scanning, producers, ClaimInv, Holds, Resolved
<1>20. ASSUME NEW p \in Producers, Disarm(p) PROVE ClaimInv'
  BY <1>20 DEF Disarm, Goto, Return, vars, registry, park, consumers, scanning, producers, ClaimInv, Holds, Resolved
<1>21. ASSUME NEW s \in Seats, Classify(s) PROVE ClaimInv'
  <2>1. cpc[s] = "ready" /\ Resolved(head[s]) /\ head[s] \in Nat
    BY <1>21 DEF Classify, Resolved
  <2>2. /\ UNCHANGED <<tail, word, head, pc, cur>>
        /\ \A r \in Seats : r # s => cpc'[r] = cpc[r]
    BY <1>21 DEF Classify, GotoC, registry, producers
  <2>3. head[s] < tail /\ \A q \in Producers : Holds(q) => cur[q] # head[s]
    BY <2>1 DEF ResolvedInv, ClaimInv
  <2> QED  BY <2>2, <2>3 DEF ClaimInv, Holds, Resolved
<1>22. ASSUME NEW s \in Seats, AdvanceHead(s) PROVE ClaimInv'
  BY <1>22 DEF AdvanceHead, GotoC, vars, registry, park, consumers, scanning, producers, ClaimInv, Holds, Resolved
<1>23. ASSUME NEW s \in Seats, WakeProducer(s) PROVE ClaimInv'
  BY <1>23 DEF WakeProducer, GotoC, WakeOne, vars, registry, park, consumers, scanning, producers, ClaimInv, Holds, Resolved
<1>24. ASSUME NEW s \in Seats, CloneAt(s) PROVE ClaimInv'
  BY <1>24 DEF CloneAt, GotoC, vars, registry, park, consumers, scanning, producers, ClaimInv, Holds, Resolved
<1>25. ASSUME NEW s \in Seats, TrySeat(s) PROVE ClaimInv'
  BY <1>25 DEF TrySeat, GotoC, EndClone, vars, registry, park, consumers, scanning, producers, ClaimInv, Holds, Resolved
<1>26. ASSUME NEW s \in Seats, Subscribe(s) PROVE ClaimInv'
  BY <1>26 DEF Subscribe, GotoC, EndClone, vars, registry, park, consumers, scanning, producers, ClaimInv, Holds, Resolved
<1>27. ASSUME NEW s \in Seats, Unsubscribe(s) PROVE ClaimInv'
  BY <1>27 DEF Unsubscribe, GotoC, vars, registry, park, consumers, scanning, producers, ClaimInv, Holds, Resolved
<1>28. ASSUME FlushProducers PROVE ClaimInv'
  BY <1>28 DEF FlushProducers, Flush, vars, registry, park, consumers, scanning, producers, ClaimInv, Holds, Resolved
<1>29. ASSUME UNCHANGED vars PROVE ClaimInv'
  BY <1>29 DEF vars, registry, park, consumers, scanning, producers, ClaimInv, Holds, Resolved
<1> QED
  BY <1>1, <1>2, <1>3, <1>4, <1>5, <1>6, <1>7, <1>8, <1>9, <1>10, <1>11, <1>12, <1>13, <1>14, <1>15, <1>16, <1>17, <1>18, <1>19, <1>20, <1>21, <1>22, <1>23, <1>24, <1>25, <1>26, <1>27, <1>28, <1>29 DEF Next, ProducerStep, ConsumerStep

LEMMA SlipsStay == ASSUME [Next]_vars PROVE slips \subseteq slips'
<1>1. ASSUME NEW p \in Producers, Call(p) PROVE slips \subseteq slips'
  BY <1>1 DEF Call, Goto, vars, registry, park, consumers, scanning, producers
<1>2. ASSUME NEW p \in Producers, LoadTail(p) PROVE slips \subseteq slips'
  BY <1>2 DEF LoadTail, Goto, vars, registry, park, consumers, scanning, producers
<1>3. ASSUME NEW p \in Producers, LookPast(p) PROVE slips \subseteq slips'
  BY <1>3 DEF LookPast, Goto, vars, registry, park, consumers, scanning, producers
<1>4. ASSUME NEW p \in Producers, SomebodyIsThere(p) PROVE slips \subseteq slips'
  BY <1>4 DEF SomebodyIsThere, Goto, ResetScan, vars, registry, park, consumers, scanning, producers
<1>5. ASSUME NEW p \in Producers, NobodyIsThere(p) PROVE slips \subseteq slips'
  BY <1>5 DEF NobodyIsThere, Goto, ResetScan, Return, vars, registry, park, consumers, scanning, producers
<1>6. ASSUME NEW p \in Producers, AskPrivate(p) PROVE slips \subseteq slips'
  BY <1>6 DEF AskPrivate, Goto, ResetScan, Permitted, vars, registry, park, consumers, scanning, producers
<1>7. ASSUME NEW p \in Producers, AskShared(p) PROVE slips \subseteq slips'
  BY <1>7 DEF AskShared, Goto, ResetScan, Permitted, vars, registry, park, consumers, scanning, producers
<1>8. ASSUME NEW p \in Producers, ScanFlag(p) PROVE slips \subseteq slips'
  BY <1>8 DEF ScanFlag, Goto, vars, registry, park, consumers, scanning, producers
<1>9. ASSUME NEW p \in Producers, ScanHead(p) PROVE slips \subseteq slips'
  BY <1>9 DEF ScanHead, Goto, vars, registry, park, consumers, scanning, producers
<1>10. ASSUME NEW p \in Producers, Refresh(p) PROVE slips \subseteq slips'
  BY <1>10 DEF Refresh, Goto, ResetScan, Permitted, Return, ClaimFailed, Refused, vars, registry, park, consumers, scanning, producers
<1>11. ASSUME NEW p \in Producers, CheckOccupant(p) PROVE slips \subseteq slips'
  BY <1>11 DEF CheckOccupant, Goto, ClaimFailed, Return, vars, registry, park, consumers, scanning, producers
<1>12. ASSUME NEW p \in Producers, Claim(p) PROVE slips \subseteq slips'
  BY <1>12 DEF Claim, Goto, vars, registry, park, consumers, scanning, producers
<1>13. ASSUME NEW p \in Producers, LoseClaim(p) PROVE slips \subseteq slips'
  BY <1>13 DEF LoseClaim, Goto, vars, registry, park, consumers, scanning, producers
<1>14. ASSUME NEW p \in Producers, Mark(p) PROVE slips \subseteq slips'
  BY <1>14 DEF Mark, Goto, vars, registry, park, consumers, scanning, producers
<1>15. ASSUME NEW p \in Producers, Publish(p) PROVE slips \subseteq slips'
  BY <1>15 DEF Publish, Goto, Return, vars, registry, park, consumers, scanning, producers
<1>16. ASSUME NEW p \in Producers, Abandon(p) PROVE slips \subseteq slips'
  BY <1>16 DEF Abandon, Goto, vars, registry, park, consumers, scanning, producers
<1>17. ASSUME NEW p \in Producers, WakeAfterAbandon(p) PROVE slips \subseteq slips'
  BY <1>17 DEF WakeAfterAbandon, Goto, Return, WakeOne, vars, registry, park, consumers, scanning, producers
<1>18. ASSUME NEW p \in Producers, Arm(p) PROVE slips \subseteq slips'
  BY <1>18 DEF Arm, Goto, vars, registry, park, consumers, scanning, producers
<1>19. ASSUME NEW p \in Producers, Unpark(p) PROVE slips \subseteq slips'
  BY <1>19 DEF Unpark, Goto, vars, registry, park, consumers, scanning, producers
<1>20. ASSUME NEW p \in Producers, Disarm(p) PROVE slips \subseteq slips'
  BY <1>20 DEF Disarm, Goto, Return, vars, registry, park, consumers, scanning, producers
<1>21. ASSUME NEW s \in Seats, Classify(s) PROVE slips \subseteq slips'
  BY <1>21 DEF Classify, GotoC, vars, registry, park, consumers, scanning, producers
<1>22. ASSUME NEW s \in Seats, AdvanceHead(s) PROVE slips \subseteq slips'
  BY <1>22 DEF AdvanceHead, GotoC, vars, registry, park, consumers, scanning, producers
<1>23. ASSUME NEW s \in Seats, WakeProducer(s) PROVE slips \subseteq slips'
  BY <1>23 DEF WakeProducer, GotoC, WakeOne, vars, registry, park, consumers, scanning, producers
<1>24. ASSUME NEW s \in Seats, CloneAt(s) PROVE slips \subseteq slips'
  BY <1>24 DEF CloneAt, GotoC, vars, registry, park, consumers, scanning, producers
<1>25. ASSUME NEW s \in Seats, TrySeat(s) PROVE slips \subseteq slips'
  BY <1>25 DEF TrySeat, GotoC, EndClone, vars, registry, park, consumers, scanning, producers
<1>26. ASSUME NEW s \in Seats, Subscribe(s) PROVE slips \subseteq slips'
  BY <1>26 DEF Subscribe, GotoC, EndClone, vars, registry, park, consumers, scanning, producers
<1>27. ASSUME NEW s \in Seats, Unsubscribe(s) PROVE slips \subseteq slips'
  BY <1>27 DEF Unsubscribe, GotoC, vars, registry, park, consumers, scanning, producers
<1>28. ASSUME FlushProducers PROVE slips \subseteq slips'
  BY <1>28 DEF FlushProducers, Flush, vars, registry, park, consumers, scanning, producers
<1>29. ASSUME UNCHANGED vars PROVE slips \subseteq slips'
  BY <1>29 DEF vars, registry, park, consumers, scanning, producers
<1> QED
  BY <1>1, <1>2, <1>3, <1>4, <1>5, <1>6, <1>7, <1>8, <1>9, <1>10, <1>11, <1>12, <1>13, <1>14, <1>15, <1>16, <1>17, <1>18, <1>19, <1>20, <1>21, <1>22, <1>23, <1>24, <1>25, <1>26, <1>27, <1>28, <1>29 DEF Next, ProducerStep, ConsumerStep

LEMMA BaseStep == ASSUME BaseInv, [Next]_vars PROVE BaseInv'
BY RingTypesStep, ConsumerTypesStep, ScanTypesStep, CallTypesStep, ScanIndexStep, SeatStep,
   CursorStep, ResolvedStep, ClaimStep DEF BaseInv, TypeOK

-----------------------------------------------------------------------------
(* The floors.                                                             *)

(* What permits a position with a floor f keeps it within a lap of every    *)
(* head at or above f, and out of the slot of a claim at or above f.       *)
LEMMA PermitsLap ==
  ASSUME NEW f \in Nat \cup {NoConsumers}, NEW h \in Nat, NEW c \in Nat,
         Permits(f, c), f <= h
  PROVE  c < h + Capacity
BY CapacityAssumption DEF Permits, NoConsumers

LEMMA PermitsApart ==
  ASSUME NEW f \in Nat \cup {NoConsumers}, NEW a \in Nat, NEW c \in Nat,
         Permits(f, c), f <= a, a < c
  PROVE  Slot(a) # Slot(c)
BY LapApart, CapacityAssumption DEF Permits, NoConsumers

(* Where a finished scan stands.                                           *)
LEMMA RefreshLow ==
  ASSUME TypeOK, ScanInv, NEW p \in Producers, Refresh(p), NEW s \in Seats, Live(s)
  PROVE  low[p] # NoConsumers /\ low[p] <= head[s]
<1>1. pc[p] = "scan" /\ idx[p] = NumSeats
  BY DEF Refresh
<1> QED  BY <1>1, SeatNumbers DEF ScanInv, HasRead

(* The three answers of FloorCache::permits.                               *)
LEMMA AskEffect ==
  ASSUME TypeOK, NEW p \in Producers, AskPrivate(p) \/ AskShared(p) \/ Refresh(p)
  PROVE  /\ UNCHANGED <<tail, word, active, head, cpc>>
         /\ \A q \in Producers : q # p => pc'[q] = pc[q] /\ cur'[q] = cur[q]
         /\ pc'[p] \notin {"cas", "mark", "own"} /\ pc[p] \notin {"mark", "own"}
         /\ pc'[p] = "word" =>
              /\ cur'[p] = cur[p]
              /\ \/ Permits(private[p], cur[p]) \/ Permits(shared, cur[p])
                 \/ Permits(low[p], cur[p]) /\ Refresh(p)
<1> USE DEF TypeOK, CallTypes, registry, consumers, Goto, Permitted
<1>1. CASE AskPrivate(p)
  BY <1>1 DEF AskPrivate
<1>2. CASE AskShared(p)
  BY <1>2 DEF AskShared
<1>3. CASE Refresh(p)
  BY <1>3 DEF Refresh, Refused, ClaimFailed, Return
<1> QED  BY <1>1, <1>2, <1>3

(* A subscription: the child starts at or above its parent.                *)
LEMMA SubscribeEffect ==
  ASSUME TypeOK, SeatInv, CursorInv, NEW s \in Seats, Subscribe(s)
  PROVE  /\ trying[s] \in Seats /\ Live(s) /\ s # trying[s]
         /\ head'[trying[s]] = joinAt[s] /\ head[s] <= joinAt[s]
         /\ \A r \in Seats : r # trying[s] => head'[r] = head[r] /\ (Live(r)' <=> Live(r))
         /\ UNCHANGED <<tail, word, shared, active, pc, cur, idx, low, private>>
         /\ "floor" \notin slips' =>
              \A p \in Producers : HasRead(p, trying[s]) => HasRead(p, s)
<1>1. cpc[s] = "seated"
  BY DEF Subscribe
<1>2. trying[s] \in Seats /\ cpc[trying[s]] = "boarding" /\ Live(s) /\ s # trying[s]
  BY <1>1 DEF SeatInv, Live
<1>3. /\ head' = [head EXCEPT ![trying[s]] = joinAt[s]]
      /\ cpc' = [cpc EXCEPT ![s] = "ready", ![trying[s]] = "ready"]
      /\ UNCHANGED <<tail, word, shared, active, pc, cur, idx, low, private>>
  BY DEF Subscribe, producers, scanning
<1>4. head'[trying[s]] = joinAt[s] /\ \A r \in Seats : r # trying[s] => head'[r] = head[r]
  BY <1>2, <1>3 DEF TypeOK, RingTypes
<1>5. \A r \in Seats : r # trying[s] => (Live(r)' <=> Live(r))
  BY <1>1, <1>2, <1>3 DEF TypeOK, ConsumerTypes, Live
<1>6. head[s] <= joinAt[s]
  BY <1>1 DEF CursorInv
<1>7. "floor" \notin slips' => \A p \in Producers : HasRead(p, trying[s]) => HasRead(p, s)
  BY DEF Subscribe
<1> QED  BY <1>2, <1>3, <1>4, <1>5, <1>6, <1>7

LEMMA SharedLowStep ==
  ASSUME TypeOK, ScanIndex, SeatInv, CursorInv, SharedIsLow, PrivateIsLow, ScanInv, LapInv, "floor" \notin slips', [Next]_vars
  PROVE  SharedIsLow'
<1> USE BroadcastAssumption, CapacityAssumption, SlotTypes DEF TypeOK, RingTypes, ConsumerTypes, ScanTypes, CallTypes, NoConsumers
<1>1. ASSUME NEW p \in Producers, Call(p) PROVE SharedIsLow'
  BY <1>1 DEF Call, Goto, vars, registry, park, consumers, scanning, producers, SharedIsLow, Live
<1>2. ASSUME NEW p \in Producers, LoadTail(p) PROVE SharedIsLow'
  BY <1>2 DEF LoadTail, Goto, vars, registry, park, consumers, scanning, producers, SharedIsLow, Live
<1>3. ASSUME NEW p \in Producers, LookPast(p) PROVE SharedIsLow'
  BY <1>3 DEF LookPast, Goto, vars, registry, park, consumers, scanning, producers, SharedIsLow, Live
<1>4. ASSUME NEW p \in Producers, SomebodyIsThere(p) PROVE SharedIsLow'
  BY <1>4 DEF SomebodyIsThere, Goto, ResetScan, vars, registry, park, consumers, scanning, producers, SharedIsLow, Live
<1>5. ASSUME NEW p \in Producers, NobodyIsThere(p) PROVE SharedIsLow'
  BY <1>5 DEF NobodyIsThere, Goto, ResetScan, Return, vars, registry, park, consumers, scanning, producers, SharedIsLow, Live
<1>6. ASSUME NEW p \in Producers, AskPrivate(p) PROVE SharedIsLow'
  BY <1>6 DEF AskPrivate, Goto, ResetScan, Permitted, vars, registry, park, consumers, scanning, producers, SharedIsLow, Live
<1>7. ASSUME NEW p \in Producers, AskShared(p) PROVE SharedIsLow'
  BY <1>7 DEF AskShared, Goto, ResetScan, Permitted, vars, registry, park, consumers, scanning, producers, SharedIsLow, Live
<1>8. ASSUME NEW p \in Producers, ScanFlag(p) PROVE SharedIsLow'
  BY <1>8 DEF ScanFlag, Goto, vars, registry, park, consumers, scanning, producers, SharedIsLow, Live
<1>9. ASSUME NEW p \in Producers, ScanHead(p) PROVE SharedIsLow'
  BY <1>9 DEF ScanHead, Goto, vars, registry, park, consumers, scanning, producers, SharedIsLow, Live
<1>10. ASSUME NEW p \in Producers, Refresh(p) PROVE SharedIsLow'
  <2>1. /\ UNCHANGED <<head, cpc>>
        /\ shared' = shared \/ (low[p] # NoConsumers /\ shared' = low[p])
    BY <1>10 DEF Refresh, registry, consumers
  <2>2. \A s \in Seats : Live(s) => low[p] <= head[s]
    BY <1>10, RefreshLow
  <2> QED  BY <2>1, <2>2 DEF SharedIsLow, Live
<1>11. ASSUME NEW p \in Producers, CheckOccupant(p) PROVE SharedIsLow'
  BY <1>11 DEF CheckOccupant, Goto, ClaimFailed, Return, vars, registry, park, consumers, scanning, producers, SharedIsLow, Live
<1>12. ASSUME NEW p \in Producers, Claim(p) PROVE SharedIsLow'
  BY <1>12 DEF Claim, Goto, vars, registry, park, consumers, scanning, producers, SharedIsLow, Live
<1>13. ASSUME NEW p \in Producers, LoseClaim(p) PROVE SharedIsLow'
  BY <1>13 DEF LoseClaim, Goto, vars, registry, park, consumers, scanning, producers, SharedIsLow, Live
<1>14. ASSUME NEW p \in Producers, Mark(p) PROVE SharedIsLow'
  BY <1>14 DEF Mark, Goto, vars, registry, park, consumers, scanning, producers, SharedIsLow, Live
<1>15. ASSUME NEW p \in Producers, Publish(p) PROVE SharedIsLow'
  BY <1>15 DEF Publish, Goto, Return, vars, registry, park, consumers, scanning, producers, SharedIsLow, Live
<1>16. ASSUME NEW p \in Producers, Abandon(p) PROVE SharedIsLow'
  BY <1>16 DEF Abandon, Goto, vars, registry, park, consumers, scanning, producers, SharedIsLow, Live
<1>17. ASSUME NEW p \in Producers, WakeAfterAbandon(p) PROVE SharedIsLow'
  BY <1>17 DEF WakeAfterAbandon, Goto, Return, WakeOne, vars, registry, park, consumers, scanning, producers, SharedIsLow, Live
<1>18. ASSUME NEW p \in Producers, Arm(p) PROVE SharedIsLow'
  BY <1>18 DEF Arm, Goto, vars, registry, park, consumers, scanning, producers, SharedIsLow, Live
<1>19. ASSUME NEW p \in Producers, Unpark(p) PROVE SharedIsLow'
  BY <1>19 DEF Unpark, Goto, vars, registry, park, consumers, scanning, producers, SharedIsLow, Live
<1>20. ASSUME NEW p \in Producers, Disarm(p) PROVE SharedIsLow'
  BY <1>20 DEF Disarm, Goto, Return, vars, registry, park, consumers, scanning, producers, SharedIsLow, Live
<1>21. ASSUME NEW s \in Seats, Classify(s) PROVE SharedIsLow'
  BY <1>21 DEF Classify, GotoC, vars, registry, park, consumers, scanning, producers, SharedIsLow, Live
<1>22. ASSUME NEW s \in Seats, AdvanceHead(s) PROVE SharedIsLow'
  BY <1>22 DEF AdvanceHead, GotoC, vars, registry, park, consumers, scanning, producers, SharedIsLow, Live
<1>23. ASSUME NEW s \in Seats, WakeProducer(s) PROVE SharedIsLow'
  BY <1>23 DEF WakeProducer, GotoC, WakeOne, vars, registry, park, consumers, scanning, producers, SharedIsLow, Live
<1>24. ASSUME NEW s \in Seats, CloneAt(s) PROVE SharedIsLow'
  BY <1>24 DEF CloneAt, GotoC, vars, registry, park, consumers, scanning, producers, SharedIsLow, Live
<1>25. ASSUME NEW s \in Seats, TrySeat(s) PROVE SharedIsLow'
  BY <1>25 DEF TrySeat, GotoC, EndClone, vars, registry, park, consumers, scanning, producers, SharedIsLow, Live
<1>26. ASSUME NEW s \in Seats, Subscribe(s) PROVE SharedIsLow'
  <2>1. shared <= head[s] /\ shared \in Nat /\ head[s] \in Nat /\ joinAt[s] \in Nat
    BY <1>26, SubscribeEffect DEF SharedIsLow
  <2> QED  BY <1>26, <2>1, SubscribeEffect DEF SharedIsLow
<1>27. ASSUME NEW s \in Seats, Unsubscribe(s) PROVE SharedIsLow'
  BY <1>27 DEF Unsubscribe, GotoC, vars, registry, park, consumers, scanning, producers, SharedIsLow, Live
<1>28. ASSUME FlushProducers PROVE SharedIsLow'
  BY <1>28 DEF FlushProducers, Flush, vars, registry, park, consumers, scanning, producers, SharedIsLow, Live
<1>29. ASSUME UNCHANGED vars PROVE SharedIsLow'
  BY <1>29 DEF vars, registry, park, consumers, scanning, producers, SharedIsLow, Live
<1> QED
  BY <1>1, <1>2, <1>3, <1>4, <1>5, <1>6, <1>7, <1>8, <1>9, <1>10, <1>11, <1>12, <1>13, <1>14, <1>15, <1>16, <1>17, <1>18, <1>19, <1>20, <1>21, <1>22, <1>23, <1>24, <1>25, <1>26, <1>27, <1>28, <1>29 DEF Next, ProducerStep, ConsumerStep

LEMMA PrivateLowStep ==
  ASSUME TypeOK, ScanIndex, SeatInv, CursorInv, SharedIsLow, PrivateIsLow, ScanInv, LapInv, "floor" \notin slips', [Next]_vars
  PROVE  PrivateIsLow'
<1> USE BroadcastAssumption, CapacityAssumption, SlotTypes DEF TypeOK, RingTypes, ConsumerTypes, ScanTypes, CallTypes, NoConsumers
<1>1. ASSUME NEW p \in Producers, Call(p) PROVE PrivateIsLow'
  BY <1>1 DEF Call, Goto, vars, registry, park, consumers, scanning, producers, PrivateIsLow, Live
<1>2. ASSUME NEW p \in Producers, LoadTail(p) PROVE PrivateIsLow'
  BY <1>2 DEF LoadTail, Goto, vars, registry, park, consumers, scanning, producers, PrivateIsLow, Live
<1>3. ASSUME NEW p \in Producers, LookPast(p) PROVE PrivateIsLow'
  BY <1>3 DEF LookPast, Goto, vars, registry, park, consumers, scanning, producers, PrivateIsLow, Live
<1>4. ASSUME NEW p \in Producers, SomebodyIsThere(p) PROVE PrivateIsLow'
  BY <1>4 DEF SomebodyIsThere, Goto, ResetScan, vars, registry, park, consumers, scanning, producers, PrivateIsLow, Live
<1>5. ASSUME NEW p \in Producers, NobodyIsThere(p) PROVE PrivateIsLow'
  BY <1>5 DEF NobodyIsThere, Goto, ResetScan, Return, vars, registry, park, consumers, scanning, producers, PrivateIsLow, Live
<1>6. ASSUME NEW p \in Producers, AskPrivate(p) PROVE PrivateIsLow'
  BY <1>6 DEF AskPrivate, Goto, ResetScan, Permitted, vars, registry, park, consumers, scanning, producers, PrivateIsLow, Live
<1>7. ASSUME NEW p \in Producers, AskShared(p) PROVE PrivateIsLow'
  <2>1. private' = [private EXCEPT ![p] = shared] /\ UNCHANGED <<head, cpc>>
    BY <1>7 DEF AskShared, registry, consumers
  <2> QED  BY <2>1 DEF SharedIsLow, PrivateIsLow, Live
<1>8. ASSUME NEW p \in Producers, ScanFlag(p) PROVE PrivateIsLow'
  BY <1>8 DEF ScanFlag, Goto, vars, registry, park, consumers, scanning, producers, PrivateIsLow, Live
<1>9. ASSUME NEW p \in Producers, ScanHead(p) PROVE PrivateIsLow'
  BY <1>9 DEF ScanHead, Goto, vars, registry, park, consumers, scanning, producers, PrivateIsLow, Live
<1>10. ASSUME NEW p \in Producers, Refresh(p) PROVE PrivateIsLow'
  <2>1. /\ UNCHANGED <<head, cpc>>
        /\ private' = private \/ (low[p] # NoConsumers /\ private' = [private EXCEPT ![p] = low[p]])
    BY <1>10 DEF Refresh, registry, consumers
  <2>2. \A s \in Seats : Live(s) => low[p] <= head[s]
    BY <1>10, RefreshLow
  <2> QED  BY <2>1, <2>2 DEF PrivateIsLow, Live
<1>11. ASSUME NEW p \in Producers, CheckOccupant(p) PROVE PrivateIsLow'
  BY <1>11 DEF CheckOccupant, Goto, ClaimFailed, Return, vars, registry, park, consumers, scanning, producers, PrivateIsLow, Live
<1>12. ASSUME NEW p \in Producers, Claim(p) PROVE PrivateIsLow'
  BY <1>12 DEF Claim, Goto, vars, registry, park, consumers, scanning, producers, PrivateIsLow, Live
<1>13. ASSUME NEW p \in Producers, LoseClaim(p) PROVE PrivateIsLow'
  BY <1>13 DEF LoseClaim, Goto, vars, registry, park, consumers, scanning, producers, PrivateIsLow, Live
<1>14. ASSUME NEW p \in Producers, Mark(p) PROVE PrivateIsLow'
  BY <1>14 DEF Mark, Goto, vars, registry, park, consumers, scanning, producers, PrivateIsLow, Live
<1>15. ASSUME NEW p \in Producers, Publish(p) PROVE PrivateIsLow'
  BY <1>15 DEF Publish, Goto, Return, vars, registry, park, consumers, scanning, producers, PrivateIsLow, Live
<1>16. ASSUME NEW p \in Producers, Abandon(p) PROVE PrivateIsLow'
  BY <1>16 DEF Abandon, Goto, vars, registry, park, consumers, scanning, producers, PrivateIsLow, Live
<1>17. ASSUME NEW p \in Producers, WakeAfterAbandon(p) PROVE PrivateIsLow'
  BY <1>17 DEF WakeAfterAbandon, Goto, Return, WakeOne, vars, registry, park, consumers, scanning, producers, PrivateIsLow, Live
<1>18. ASSUME NEW p \in Producers, Arm(p) PROVE PrivateIsLow'
  BY <1>18 DEF Arm, Goto, vars, registry, park, consumers, scanning, producers, PrivateIsLow, Live
<1>19. ASSUME NEW p \in Producers, Unpark(p) PROVE PrivateIsLow'
  BY <1>19 DEF Unpark, Goto, vars, registry, park, consumers, scanning, producers, PrivateIsLow, Live
<1>20. ASSUME NEW p \in Producers, Disarm(p) PROVE PrivateIsLow'
  BY <1>20 DEF Disarm, Goto, Return, vars, registry, park, consumers, scanning, producers, PrivateIsLow, Live
<1>21. ASSUME NEW s \in Seats, Classify(s) PROVE PrivateIsLow'
  BY <1>21 DEF Classify, GotoC, vars, registry, park, consumers, scanning, producers, PrivateIsLow, Live
<1>22. ASSUME NEW s \in Seats, AdvanceHead(s) PROVE PrivateIsLow'
  BY <1>22 DEF AdvanceHead, GotoC, vars, registry, park, consumers, scanning, producers, PrivateIsLow, Live
<1>23. ASSUME NEW s \in Seats, WakeProducer(s) PROVE PrivateIsLow'
  BY <1>23 DEF WakeProducer, GotoC, WakeOne, vars, registry, park, consumers, scanning, producers, PrivateIsLow, Live
<1>24. ASSUME NEW s \in Seats, CloneAt(s) PROVE PrivateIsLow'
  BY <1>24 DEF CloneAt, GotoC, vars, registry, park, consumers, scanning, producers, PrivateIsLow, Live
<1>25. ASSUME NEW s \in Seats, TrySeat(s) PROVE PrivateIsLow'
  BY <1>25 DEF TrySeat, GotoC, EndClone, vars, registry, park, consumers, scanning, producers, PrivateIsLow, Live
<1>26. ASSUME NEW s \in Seats, Subscribe(s) PROVE PrivateIsLow'
  <2>1. \A q \in Producers : private[q] <= head[s] /\ private[q] \in Nat
    BY <1>26, SubscribeEffect DEF PrivateIsLow
  <2>2. head[s] \in Nat /\ joinAt[s] \in Nat
    OBVIOUS
  <2> QED  BY <1>26, <2>1, <2>2, SubscribeEffect DEF PrivateIsLow
<1>27. ASSUME NEW s \in Seats, Unsubscribe(s) PROVE PrivateIsLow'
  BY <1>27 DEF Unsubscribe, GotoC, vars, registry, park, consumers, scanning, producers, PrivateIsLow, Live
<1>28. ASSUME FlushProducers PROVE PrivateIsLow'
  BY <1>28 DEF FlushProducers, Flush, vars, registry, park, consumers, scanning, producers, PrivateIsLow, Live
<1>29. ASSUME UNCHANGED vars PROVE PrivateIsLow'
  BY <1>29 DEF vars, registry, park, consumers, scanning, producers, PrivateIsLow, Live
<1> QED
  BY <1>1, <1>2, <1>3, <1>4, <1>5, <1>6, <1>7, <1>8, <1>9, <1>10, <1>11, <1>12, <1>13, <1>14, <1>15, <1>16, <1>17, <1>18, <1>19, <1>20, <1>21, <1>22, <1>23, <1>24, <1>25, <1>26, <1>27, <1>28, <1>29 DEF Next, ProducerStep, ConsumerStep

LEMMA ScanLowStep ==
  ASSUME TypeOK, ScanIndex, SeatInv, CursorInv, SharedIsLow, PrivateIsLow, ScanInv, LapInv, "floor" \notin slips', [Next]_vars
  PROVE  ScanInv'
<1> USE BroadcastAssumption, CapacityAssumption, SlotTypes DEF TypeOK, RingTypes, ConsumerTypes, ScanTypes, CallTypes, NoConsumers
<1>1. ASSUME NEW p \in Producers, Call(p) PROVE ScanInv'
  BY <1>1 DEF Call, Goto, vars, registry, park, consumers, scanning, producers, ScanInv, Live, HasRead
<1>2. ASSUME NEW p \in Producers, LoadTail(p) PROVE ScanInv'
  BY <1>2 DEF LoadTail, Goto, vars, registry, park, consumers, scanning, producers, ScanInv, Live, HasRead
<1>3. ASSUME NEW p \in Producers, LookPast(p) PROVE ScanInv'
  BY <1>3 DEF LookPast, Goto, vars, registry, park, consumers, scanning, producers, ScanInv, Live, HasRead
<1>4. ASSUME NEW p \in Producers, SomebodyIsThere(p) PROVE ScanInv'
  BY <1>4 DEF SomebodyIsThere, Goto, ResetScan, vars, registry, park, consumers, scanning, producers, ScanInv, Live, HasRead
<1>5. ASSUME NEW p \in Producers, NobodyIsThere(p) PROVE ScanInv'
  BY <1>5, SeatNumbers DEF NobodyIsThere, Goto, ResetScan, Return, vars, registry, park, consumers, scanning, producers, ScanInv, Live, HasRead
<1>6. ASSUME NEW p \in Producers, AskPrivate(p) PROVE ScanInv'
  BY <1>6 DEF AskPrivate, Goto, ResetScan, Permitted, vars, registry, park, consumers, scanning, producers, ScanInv, Live, HasRead
<1>7. ASSUME NEW p \in Producers, AskShared(p) PROVE ScanInv'
  BY <1>7, SeatNumbers, SMTT(20) DEF AskShared, Goto, ResetScan, Permitted, vars, registry, park, consumers, scanning, producers, ScanInv, Live, HasRead
<1>8. ASSUME NEW p \in Producers, ScanFlag(p) PROVE ScanInv'
  <2>1. CASE active[idx[p]]
    BY <1>8, <2>1 DEF ScanFlag, Goto, registry, consumers, ScanInv, Live, HasRead
  <2>2. CASE ~active[idx[p]]
    <3>1. /\ idx' = [idx EXCEPT ![p] = @ + 1] /\ pc[p] = "scan"
          /\ UNCHANGED <<pc, low, head, cpc>>
      BY <1>8, <2>2 DEF ScanFlag, registry, consumers
    <3>2. \A s \in Seats : Live(s) /\ HasRead(p, s)' => HasRead(p, s)
      <4> SUFFICES ASSUME NEW s \in Seats, Live(s), HasRead(p, s)' PROVE HasRead(p, s)
        OBVIOUS
      <4>1. s < idx[p] + 1 /\ s \in Nat /\ idx[p] \in Nat
        BY <3>1, SeatNumbers DEF HasRead
      <4>2. s # idx[p]
        BY <2>2 DEF SeatInv, Live
      <4> QED  BY <3>1, <4>1, <4>2 DEF HasRead
    <3>3. \A q \in Producers, s \in Seats : q # p => (HasRead(q, s)' <=> HasRead(q, s))
      BY <3>1 DEF HasRead
    <3> QED  BY <3>1, <3>2, <3>3 DEF ScanInv, Live
  <2> QED  BY <2>1, <2>2
<1>9. ASSUME NEW p \in Producers, ScanHead(p) PROVE ScanInv'
  <2>1. pc[p] = "head" /\ idx[p] \in Seats
    <3>1. pc[p] = "head"
      BY <1>9 DEF ScanHead
    <3> QED  BY <3>1, SeatNumbers DEF ScanIndex
  <2>2. head[idx[p]] \in Nat
    BY <2>1
  <2>3. /\ UNCHANGED <<head, cpc>> /\ idx' = [idx EXCEPT ![p] = @ + 1]
        /\ pc' = [pc EXCEPT ![p] = "scan"]
        /\ \A q \in Producers : q # p => low'[q] = low[q]
        /\ low'[p] # NoConsumers /\ low'[p] <= head[idx[p]]
        /\ low[p] # NoConsumers => low'[p] <= low[p]
        /\ low'[p] \in Nat
    BY <1>9, <2>2 DEF ScanHead, Goto, registry, consumers
  <2>4. \A s \in Seats : HasRead(p, s)' => HasRead(p, s) \/ s = idx[p]
    <3> SUFFICES ASSUME NEW s \in Seats, HasRead(p, s)', s # idx[p] PROVE HasRead(p, s)
      OBVIOUS
    <3>1. s < idx[p] + 1 /\ s \in Nat /\ idx[p] \in Nat
      BY <2>3, SeatNumbers DEF HasRead
    <3> QED  BY <2>1, <3>1 DEF HasRead
  <2>5. \A q \in Producers, s \in Seats : q # p => (HasRead(q, s)' <=> HasRead(q, s))
    BY <2>3 DEF HasRead
  <2>6. \A s \in Seats : Live(s) /\ HasRead(p, s) => low'[p] <= head[s]
    BY <2>3 DEF ScanInv
  <2> QED  BY <2>3, <2>4, <2>5, <2>6 DEF ScanInv, Live
<1>10. ASSUME NEW p \in Producers, Refresh(p) PROVE ScanInv'
  BY <1>10 DEF Refresh, Goto, ResetScan, Permitted, Return, ClaimFailed, Refused, vars, registry, park, consumers, scanning, producers, ScanInv, Live, HasRead
<1>11. ASSUME NEW p \in Producers, CheckOccupant(p) PROVE ScanInv'
  BY <1>11 DEF CheckOccupant, Goto, ClaimFailed, Return, vars, registry, park, consumers, scanning, producers, ScanInv, Live, HasRead
<1>12. ASSUME NEW p \in Producers, Claim(p) PROVE ScanInv'
  BY <1>12 DEF Claim, Goto, vars, registry, park, consumers, scanning, producers, ScanInv, Live, HasRead
<1>13. ASSUME NEW p \in Producers, LoseClaim(p) PROVE ScanInv'
  BY <1>13 DEF LoseClaim, Goto, vars, registry, park, consumers, scanning, producers, ScanInv, Live, HasRead
<1>14. ASSUME NEW p \in Producers, Mark(p) PROVE ScanInv'
  BY <1>14 DEF Mark, Goto, vars, registry, park, consumers, scanning, producers, ScanInv, Live, HasRead
<1>15. ASSUME NEW p \in Producers, Publish(p) PROVE ScanInv'
  BY <1>15 DEF Publish, Goto, Return, vars, registry, park, consumers, scanning, producers, ScanInv, Live, HasRead
<1>16. ASSUME NEW p \in Producers, Abandon(p) PROVE ScanInv'
  BY <1>16 DEF Abandon, Goto, vars, registry, park, consumers, scanning, producers, ScanInv, Live, HasRead
<1>17. ASSUME NEW p \in Producers, WakeAfterAbandon(p) PROVE ScanInv'
  BY <1>17 DEF WakeAfterAbandon, Goto, Return, WakeOne, vars, registry, park, consumers, scanning, producers, ScanInv, Live, HasRead
<1>18. ASSUME NEW p \in Producers, Arm(p) PROVE ScanInv'
  BY <1>18 DEF Arm, Goto, vars, registry, park, consumers, scanning, producers, ScanInv, Live, HasRead
<1>19. ASSUME NEW p \in Producers, Unpark(p) PROVE ScanInv'
  BY <1>19 DEF Unpark, Goto, vars, registry, park, consumers, scanning, producers, ScanInv, Live, HasRead
<1>20. ASSUME NEW p \in Producers, Disarm(p) PROVE ScanInv'
  BY <1>20 DEF Disarm, Goto, Return, vars, registry, park, consumers, scanning, producers, ScanInv, Live, HasRead
<1>21. ASSUME NEW s \in Seats, Classify(s) PROVE ScanInv'
  BY <1>21 DEF Classify, GotoC, vars, registry, park, consumers, scanning, producers, ScanInv, Live, HasRead
<1>22. ASSUME NEW s \in Seats, AdvanceHead(s) PROVE ScanInv'
  BY <1>22 DEF AdvanceHead, GotoC, vars, registry, park, consumers, scanning, producers, ScanInv, Live, HasRead
<1>23. ASSUME NEW s \in Seats, WakeProducer(s) PROVE ScanInv'
  BY <1>23 DEF WakeProducer, GotoC, WakeOne, vars, registry, park, consumers, scanning, producers, ScanInv, Live, HasRead
<1>24. ASSUME NEW s \in Seats, CloneAt(s) PROVE ScanInv'
  BY <1>24 DEF CloneAt, GotoC, vars, registry, park, consumers, scanning, producers, ScanInv, Live, HasRead
<1>25. ASSUME NEW s \in Seats, TrySeat(s) PROVE ScanInv'
  BY <1>25 DEF TrySeat, GotoC, EndClone, vars, registry, park, consumers, scanning, producers, ScanInv, Live, HasRead
<1>26. ASSUME NEW s \in Seats, Subscribe(s) PROVE ScanInv'
  <2>1. \A q \in Producers, r \in Seats : HasRead(q, r)' <=> HasRead(q, r)
    BY <1>26, SubscribeEffect DEF HasRead
  <2>2. \A q \in Producers : HasRead(q, trying[s]) => low[q] # NoConsumers /\ low[q] <= head[s]
    BY <1>26, SubscribeEffect DEF ScanInv
  <2>3. head[s] \in Nat /\ joinAt[s] \in Nat
    OBVIOUS
  <2> QED  BY <1>26, <2>1, <2>2, <2>3, SubscribeEffect DEF ScanInv
<1>27. ASSUME NEW s \in Seats, Unsubscribe(s) PROVE ScanInv'
  BY <1>27 DEF Unsubscribe, GotoC, vars, registry, park, consumers, scanning, producers, ScanInv, Live, HasRead
<1>28. ASSUME FlushProducers PROVE ScanInv'
  BY <1>28 DEF FlushProducers, Flush, vars, registry, park, consumers, scanning, producers, ScanInv, Live, HasRead
<1>29. ASSUME UNCHANGED vars PROVE ScanInv'
  BY <1>29 DEF vars, registry, park, consumers, scanning, producers, ScanInv, Live, HasRead
<1> QED
  BY <1>1, <1>2, <1>3, <1>4, <1>5, <1>6, <1>7, <1>8, <1>9, <1>10, <1>11, <1>12, <1>13, <1>14, <1>15, <1>16, <1>17, <1>18, <1>19, <1>20, <1>21, <1>22, <1>23, <1>24, <1>25, <1>26, <1>27, <1>28, <1>29 DEF Next, ProducerStep, ConsumerStep

LEMMA LapStep ==
  ASSUME TypeOK, ScanIndex, SeatInv, CursorInv, SharedIsLow, PrivateIsLow, ScanInv, LapInv, "floor" \notin slips', [Next]_vars
  PROVE  LapInv'
<1> USE BroadcastAssumption, CapacityAssumption, SlotTypes DEF TypeOK, RingTypes, ConsumerTypes, ScanTypes, CallTypes, NoConsumers
<1>1. ASSUME NEW p \in Producers, Call(p) PROVE LapInv'
  BY <1>1 DEF Call, Goto, vars, registry, park, consumers, scanning, producers, LapInv, Live
<1>2. ASSUME NEW p \in Producers, LoadTail(p) PROVE LapInv'
  BY <1>2 DEF LoadTail, Goto, vars, registry, park, consumers, scanning, producers, LapInv, Live
<1>3. ASSUME NEW p \in Producers, LookPast(p) PROVE LapInv'
  BY <1>3 DEF LookPast, Goto, vars, registry, park, consumers, scanning, producers, LapInv, Live
<1>4. ASSUME NEW p \in Producers, SomebodyIsThere(p) PROVE LapInv'
  BY <1>4 DEF SomebodyIsThere, Goto, ResetScan, vars, registry, park, consumers, scanning, producers, LapInv, Live
<1>5. ASSUME NEW p \in Producers, NobodyIsThere(p) PROVE LapInv'
  BY <1>5 DEF NobodyIsThere, Goto, ResetScan, Return, vars, registry, park, consumers, scanning, producers, LapInv, Live
<1>6. ASSUME NEW p \in Producers, AskPrivate(p) PROVE LapInv'
  <2>1. /\ UNCHANGED <<tail, word, active, head, cpc>>
        /\ \A q \in Producers : q # p => pc'[q] = pc[q] /\ cur'[q] = cur[q]
        /\ pc'[p] \notin {"cas", "mark", "own"}
        /\ pc'[p] = "word" =>
             /\ cur'[p] = cur[p]
             /\ \/ Permits(private[p], cur[p]) \/ Permits(shared, cur[p])
                \/ Permits(low[p], cur[p]) /\ Refresh(p)
    BY <1>6, AskEffect
  <2>2. \A s \in Seats : pc'[p] = "word" /\ Live(s) => cur[p] < head[s] + Capacity
    <3> SUFFICES ASSUME NEW s \in Seats, pc'[p] = "word", Live(s) PROVE cur[p] < head[s] + Capacity
      OBVIOUS
    <3>1. /\ private[p] \in Nat \cup {NoConsumers} /\ private[p] <= head[s]
          /\ shared \in Nat \cup {NoConsumers} /\ shared <= head[s]
          /\ low[p] \in Nat \cup {NoConsumers} /\ (Refresh(p) => low[p] <= head[s])
          /\ head[s] \in Nat /\ cur[p] \in Nat
      BY RefreshLow DEF SharedIsLow, PrivateIsLow
    <3> HIDE DEF TypeOK, RingTypes, ConsumerTypes, ScanTypes, CallTypes, NoConsumers
    <3>2. CASE Permits(private[p], cur[p])
      BY <3>1, <3>2, PermitsLap
    <3>3. CASE Permits(shared, cur[p])
      BY <3>1, <3>3, PermitsLap
    <3>4. CASE Permits(low[p], cur[p]) /\ Refresh(p)
      BY <3>1, <3>4, PermitsLap
    <3> QED  BY <2>1, <3>2, <3>3, <3>4
  <2> QED  BY <2>1, <2>2 DEF LapInv, Live
<1>7. ASSUME NEW p \in Producers, AskShared(p) PROVE LapInv'
  <2>1. /\ UNCHANGED <<tail, word, active, head, cpc>>
        /\ \A q \in Producers : q # p => pc'[q] = pc[q] /\ cur'[q] = cur[q]
        /\ pc'[p] \notin {"cas", "mark", "own"}
        /\ pc'[p] = "word" =>
             /\ cur'[p] = cur[p]
             /\ \/ Permits(private[p], cur[p]) \/ Permits(shared, cur[p])
                \/ Permits(low[p], cur[p]) /\ Refresh(p)
    BY <1>7, AskEffect
  <2>2. \A s \in Seats : pc'[p] = "word" /\ Live(s) => cur[p] < head[s] + Capacity
    <3> SUFFICES ASSUME NEW s \in Seats, pc'[p] = "word", Live(s) PROVE cur[p] < head[s] + Capacity
      OBVIOUS
    <3>1. /\ private[p] \in Nat \cup {NoConsumers} /\ private[p] <= head[s]
          /\ shared \in Nat \cup {NoConsumers} /\ shared <= head[s]
          /\ low[p] \in Nat \cup {NoConsumers} /\ (Refresh(p) => low[p] <= head[s])
          /\ head[s] \in Nat /\ cur[p] \in Nat
      BY RefreshLow DEF SharedIsLow, PrivateIsLow
    <3> HIDE DEF TypeOK, RingTypes, ConsumerTypes, ScanTypes, CallTypes, NoConsumers
    <3>2. CASE Permits(private[p], cur[p])
      BY <3>1, <3>2, PermitsLap
    <3>3. CASE Permits(shared, cur[p])
      BY <3>1, <3>3, PermitsLap
    <3>4. CASE Permits(low[p], cur[p]) /\ Refresh(p)
      BY <3>1, <3>4, PermitsLap
    <3> QED  BY <2>1, <3>2, <3>3, <3>4
  <2> QED  BY <2>1, <2>2 DEF LapInv, Live
<1>8. ASSUME NEW p \in Producers, ScanFlag(p) PROVE LapInv'
  BY <1>8 DEF ScanFlag, Goto, vars, registry, park, consumers, scanning, producers, LapInv, Live
<1>9. ASSUME NEW p \in Producers, ScanHead(p) PROVE LapInv'
  BY <1>9 DEF ScanHead, Goto, vars, registry, park, consumers, scanning, producers, LapInv, Live
<1>10. ASSUME NEW p \in Producers, Refresh(p) PROVE LapInv'
  <2>1. /\ UNCHANGED <<tail, word, active, head, cpc>>
        /\ \A q \in Producers : q # p => pc'[q] = pc[q] /\ cur'[q] = cur[q]
        /\ pc'[p] \notin {"cas", "mark", "own"}
        /\ pc'[p] = "word" =>
             /\ cur'[p] = cur[p]
             /\ \/ Permits(private[p], cur[p]) \/ Permits(shared, cur[p])
                \/ Permits(low[p], cur[p]) /\ Refresh(p)
    BY <1>10, AskEffect
  <2>2. \A s \in Seats : pc'[p] = "word" /\ Live(s) => cur[p] < head[s] + Capacity
    <3> SUFFICES ASSUME NEW s \in Seats, pc'[p] = "word", Live(s) PROVE cur[p] < head[s] + Capacity
      OBVIOUS
    <3>1. /\ private[p] \in Nat \cup {NoConsumers} /\ private[p] <= head[s]
          /\ shared \in Nat \cup {NoConsumers} /\ shared <= head[s]
          /\ low[p] \in Nat \cup {NoConsumers} /\ (Refresh(p) => low[p] <= head[s])
          /\ head[s] \in Nat /\ cur[p] \in Nat
      BY RefreshLow DEF SharedIsLow, PrivateIsLow
    <3> HIDE DEF TypeOK, RingTypes, ConsumerTypes, ScanTypes, CallTypes, NoConsumers
    <3>2. CASE Permits(private[p], cur[p])
      BY <3>1, <3>2, PermitsLap
    <3>3. CASE Permits(shared, cur[p])
      BY <3>1, <3>3, PermitsLap
    <3>4. CASE Permits(low[p], cur[p]) /\ Refresh(p)
      BY <3>1, <3>4, PermitsLap
    <3> QED  BY <2>1, <3>2, <3>3, <3>4
  <2> QED  BY <2>1, <2>2 DEF LapInv, Live
<1>11. ASSUME NEW p \in Producers, CheckOccupant(p) PROVE LapInv'
  BY <1>11 DEF CheckOccupant, Goto, ClaimFailed, Return, vars, registry, park, consumers, scanning, producers, LapInv, Live
<1>12. ASSUME NEW p \in Producers, Claim(p) PROVE LapInv'
  BY <1>12 DEF Claim, Goto, vars, registry, park, consumers, scanning, producers, LapInv, Live
<1>13. ASSUME NEW p \in Producers, LoseClaim(p) PROVE LapInv'
  BY <1>13 DEF LoseClaim, Goto, vars, registry, park, consumers, scanning, producers, LapInv, Live
<1>14. ASSUME NEW p \in Producers, Mark(p) PROVE LapInv'
  BY <1>14 DEF Mark, Goto, vars, registry, park, consumers, scanning, producers, LapInv, Live
<1>15. ASSUME NEW p \in Producers, Publish(p) PROVE LapInv'
  BY <1>15 DEF Publish, Goto, Return, vars, registry, park, consumers, scanning, producers, LapInv, Live
<1>16. ASSUME NEW p \in Producers, Abandon(p) PROVE LapInv'
  BY <1>16 DEF Abandon, Goto, vars, registry, park, consumers, scanning, producers, LapInv, Live
<1>17. ASSUME NEW p \in Producers, WakeAfterAbandon(p) PROVE LapInv'
  BY <1>17 DEF WakeAfterAbandon, Goto, Return, WakeOne, vars, registry, park, consumers, scanning, producers, LapInv, Live
<1>18. ASSUME NEW p \in Producers, Arm(p) PROVE LapInv'
  BY <1>18 DEF Arm, Goto, vars, registry, park, consumers, scanning, producers, LapInv, Live
<1>19. ASSUME NEW p \in Producers, Unpark(p) PROVE LapInv'
  BY <1>19 DEF Unpark, Goto, vars, registry, park, consumers, scanning, producers, LapInv, Live
<1>20. ASSUME NEW p \in Producers, Disarm(p) PROVE LapInv'
  BY <1>20 DEF Disarm, Goto, Return, vars, registry, park, consumers, scanning, producers, LapInv, Live
<1>21. ASSUME NEW s \in Seats, Classify(s) PROVE LapInv'
  BY <1>21 DEF Classify, GotoC, vars, registry, park, consumers, scanning, producers, LapInv, Live
<1>22. ASSUME NEW s \in Seats, AdvanceHead(s) PROVE LapInv'
  BY <1>22 DEF AdvanceHead, GotoC, vars, registry, park, consumers, scanning, producers, LapInv, Live
<1>23. ASSUME NEW s \in Seats, WakeProducer(s) PROVE LapInv'
  BY <1>23 DEF WakeProducer, GotoC, WakeOne, vars, registry, park, consumers, scanning, producers, LapInv, Live
<1>24. ASSUME NEW s \in Seats, CloneAt(s) PROVE LapInv'
  BY <1>24 DEF CloneAt, GotoC, vars, registry, park, consumers, scanning, producers, LapInv, Live
<1>25. ASSUME NEW s \in Seats, TrySeat(s) PROVE LapInv'
  BY <1>25 DEF TrySeat, GotoC, EndClone, vars, registry, park, consumers, scanning, producers, LapInv, Live
<1>26. ASSUME NEW s \in Seats, Subscribe(s) PROVE LapInv'
  <2>1. \A q \in Producers : pc[q] \in {"word", "cas", "mark", "own"} => cur[q] < head[s] + Capacity
    BY <1>26, SubscribeEffect DEF LapInv
  <2>2. head[s] \in Nat /\ joinAt[s] \in Nat /\ \A q \in Producers : cur[q] \in Nat
    OBVIOUS
  <2> QED  BY <1>26, <2>1, <2>2, SubscribeEffect DEF LapInv
<1>27. ASSUME NEW s \in Seats, Unsubscribe(s) PROVE LapInv'
  BY <1>27 DEF Unsubscribe, GotoC, vars, registry, park, consumers, scanning, producers, LapInv, Live
<1>28. ASSUME FlushProducers PROVE LapInv'
  BY <1>28 DEF FlushProducers, Flush, vars, registry, park, consumers, scanning, producers, LapInv, Live
<1>29. ASSUME UNCHANGED vars PROVE LapInv'
  BY <1>29 DEF vars, registry, park, consumers, scanning, producers, LapInv, Live
<1> QED
  BY <1>1, <1>2, <1>3, <1>4, <1>5, <1>6, <1>7, <1>8, <1>9, <1>10, <1>11, <1>12, <1>13, <1>14, <1>15, <1>16, <1>17, <1>18, <1>19, <1>20, <1>21, <1>22, <1>23, <1>24, <1>25, <1>26, <1>27, <1>28, <1>29 DEF Next, ProducerStep, ConsumerStep

-----------------------------------------------------------------------------
(* The owners.                                                             *)

LEMMA UnmarkedStep ==
  ASSUME TypeOK, ScanIndex, SeatInv, CursorInv, ClaimInv, UnmarkedInv, AloneInv, "owner" \notin slips', [Next]_vars
  PROVE  UnmarkedInv'
<1> USE BroadcastAssumption, CapacityAssumption, SlotTypes DEF TypeOK, RingTypes, ConsumerTypes, ScanTypes, CallTypes, NoConsumers
<1>1. ASSUME NEW p \in Producers, Call(p) PROVE UnmarkedInv'
  BY <1>1 DEF Call, Goto, vars, registry, park, consumers, scanning, producers, UnmarkedInv
<1>2. ASSUME NEW p \in Producers, LoadTail(p) PROVE UnmarkedInv'
  BY <1>2 DEF LoadTail, Goto, vars, registry, park, consumers, scanning, producers, UnmarkedInv
<1>3. ASSUME NEW p \in Producers, LookPast(p) PROVE UnmarkedInv'
  BY <1>3 DEF LookPast, Goto, vars, registry, park, consumers, scanning, producers, UnmarkedInv
<1>4. ASSUME NEW p \in Producers, SomebodyIsThere(p) PROVE UnmarkedInv'
  BY <1>4 DEF SomebodyIsThere, Goto, ResetScan, vars, registry, park, consumers, scanning, producers, UnmarkedInv
<1>5. ASSUME NEW p \in Producers, NobodyIsThere(p) PROVE UnmarkedInv'
  BY <1>5 DEF NobodyIsThere, Goto, ResetScan, Return, vars, registry, park, consumers, scanning, producers, UnmarkedInv
<1>6. ASSUME NEW p \in Producers, AskPrivate(p) PROVE UnmarkedInv'
  BY <1>6 DEF AskPrivate, Goto, ResetScan, Permitted, vars, registry, park, consumers, scanning, producers, UnmarkedInv
<1>7. ASSUME NEW p \in Producers, AskShared(p) PROVE UnmarkedInv'
  BY <1>7 DEF AskShared, Goto, ResetScan, Permitted, vars, registry, park, consumers, scanning, producers, UnmarkedInv
<1>8. ASSUME NEW p \in Producers, ScanFlag(p) PROVE UnmarkedInv'
  BY <1>8 DEF ScanFlag, Goto, vars, registry, park, consumers, scanning, producers, UnmarkedInv
<1>9. ASSUME NEW p \in Producers, ScanHead(p) PROVE UnmarkedInv'
  <2>1. pc[p] = "head"
    BY <1>9 DEF ScanHead
  <2>2. idx[p] \in Seats
    BY <2>1, SeatNumbers DEF ScanIndex
  <2>3. /\ UNCHANGED <<shared, head, joinAt, private, cur>>
        /\ \A q \in Producers : pc'[q] = "mark" => pc[q] = "mark"
        /\ \A q \in Producers : q # p => low'[q] = low[q]
        /\ low'[p] = head[idx[p]] \/ low'[p] = low[p]
    BY <1>9 DEF ScanHead, Goto, registry, consumers
  <2> QED  BY <2>2, <2>3 DEF UnmarkedInv
<1>10. ASSUME NEW p \in Producers, Refresh(p) PROVE UnmarkedInv'
  BY <1>10, SMTT(20) DEF Refresh, Goto, ResetScan, Permitted, Return, ClaimFailed, Refused, vars, registry, park, consumers, scanning, producers, UnmarkedInv
<1>11. ASSUME NEW p \in Producers, CheckOccupant(p) PROVE UnmarkedInv'
  BY <1>11 DEF CheckOccupant, Goto, ClaimFailed, Return, vars, registry, park, consumers, scanning, producers, UnmarkedInv
<1>12. ASSUME NEW p \in Producers, Claim(p) PROVE UnmarkedInv'
  BY <1>12 DEF Claim, Goto, vars, registry, park, consumers, scanning, producers, UnmarkedInv, CursorInv
<1>13. ASSUME NEW p \in Producers, LoseClaim(p) PROVE UnmarkedInv'
  BY <1>13 DEF LoseClaim, Goto, vars, registry, park, consumers, scanning, producers, UnmarkedInv
<1>14. ASSUME NEW p \in Producers, Mark(p) PROVE UnmarkedInv'
  BY <1>14 DEF Mark, Goto, vars, registry, park, consumers, scanning, producers, UnmarkedInv
<1>15. ASSUME NEW p \in Producers, Publish(p) PROVE UnmarkedInv'
  BY <1>15 DEF Publish, Goto, Return, vars, registry, park, consumers, scanning, producers, UnmarkedInv
<1>16. ASSUME NEW p \in Producers, Abandon(p) PROVE UnmarkedInv'
  BY <1>16 DEF Abandon, Goto, vars, registry, park, consumers, scanning, producers, UnmarkedInv
<1>17. ASSUME NEW p \in Producers, WakeAfterAbandon(p) PROVE UnmarkedInv'
  BY <1>17 DEF WakeAfterAbandon, Goto, Return, WakeOne, vars, registry, park, consumers, scanning, producers, UnmarkedInv
<1>18. ASSUME NEW p \in Producers, Arm(p) PROVE UnmarkedInv'
  BY <1>18 DEF Arm, Goto, vars, registry, park, consumers, scanning, producers, UnmarkedInv
<1>19. ASSUME NEW p \in Producers, Unpark(p) PROVE UnmarkedInv'
  BY <1>19 DEF Unpark, Goto, vars, registry, park, consumers, scanning, producers, UnmarkedInv
<1>20. ASSUME NEW p \in Producers, Disarm(p) PROVE UnmarkedInv'
  BY <1>20 DEF Disarm, Goto, Return, vars, registry, park, consumers, scanning, producers, UnmarkedInv
<1>21. ASSUME NEW s \in Seats, Classify(s) PROVE UnmarkedInv'
  BY <1>21 DEF Classify, GotoC, vars, registry, park, consumers, scanning, producers, UnmarkedInv
<1>22. ASSUME NEW s \in Seats, AdvanceHead(s) PROVE UnmarkedInv'
  <2>1. /\ UNCHANGED <<shared, joinAt, private, low, pc, cur>>
        /\ head' = [head EXCEPT ![s] = @ + 1] /\ cpc[s] \in {"reading", "skipping"}
    BY <1>22 DEF AdvanceHead, producers, scanning
  <2>2. \A p \in Producers : pc[p] = "mark" => head[s] + 1 <= cur[p]
    <3> SUFFICES ASSUME NEW p \in Producers, pc[p] = "mark" PROVE head[s] + 1 <= cur[p]
      OBVIOUS
    <3>1. head[s] <= cur[p]
      BY DEF UnmarkedInv
    <3>2. head[s] # cur[p]
      BY <2>1 DEF ClaimInv, Holds
    <3> QED  BY <3>1, <3>2
  <2> QED  BY <2>1, <2>2 DEF UnmarkedInv
<1>23. ASSUME NEW s \in Seats, WakeProducer(s) PROVE UnmarkedInv'
  BY <1>23 DEF WakeProducer, GotoC, WakeOne, vars, registry, park, consumers, scanning, producers, UnmarkedInv
<1>24. ASSUME NEW s \in Seats, CloneAt(s) PROVE UnmarkedInv'
  BY <1>24 DEF CloneAt, GotoC, vars, registry, park, consumers, scanning, producers, UnmarkedInv
<1>25. ASSUME NEW s \in Seats, TrySeat(s) PROVE UnmarkedInv'
  BY <1>25 DEF TrySeat, GotoC, EndClone, vars, registry, park, consumers, scanning, producers, UnmarkedInv
<1>26. ASSUME NEW s \in Seats, Subscribe(s) PROVE UnmarkedInv'
  BY <1>26 DEF Subscribe, GotoC, EndClone, vars, registry, park, consumers, scanning, producers, UnmarkedInv
<1>27. ASSUME NEW s \in Seats, Unsubscribe(s) PROVE UnmarkedInv'
  BY <1>27 DEF Unsubscribe, GotoC, vars, registry, park, consumers, scanning, producers, UnmarkedInv
<1>28. ASSUME FlushProducers PROVE UnmarkedInv'
  BY <1>28 DEF FlushProducers, Flush, vars, registry, park, consumers, scanning, producers, UnmarkedInv
<1>29. ASSUME UNCHANGED vars PROVE UnmarkedInv'
  BY <1>29 DEF vars, registry, park, consumers, scanning, producers, UnmarkedInv
<1> QED
  BY <1>1, <1>2, <1>3, <1>4, <1>5, <1>6, <1>7, <1>8, <1>9, <1>10, <1>11, <1>12, <1>13, <1>14, <1>15, <1>16, <1>17, <1>18, <1>19, <1>20, <1>21, <1>22, <1>23, <1>24, <1>25, <1>26, <1>27, <1>28, <1>29 DEF Next, ProducerStep, ConsumerStep

LEMMA AloneStep ==
  ASSUME TypeOK, ScanIndex, SeatInv, CursorInv, ClaimInv, UnmarkedInv, AloneInv, "owner" \notin slips', [Next]_vars
  PROVE  AloneInv'
<1> USE BroadcastAssumption, CapacityAssumption, SlotTypes DEF TypeOK, RingTypes, ConsumerTypes, ScanTypes, CallTypes, NoConsumers
<1>1. ASSUME NEW p \in Producers, Call(p) PROVE AloneInv'
  BY <1>1, SMTT(20) DEF Call, Goto, vars, registry, park, consumers, scanning, producers, AloneInv, Holds
<1>2. ASSUME NEW p \in Producers, LoadTail(p) PROVE AloneInv'
  BY <1>2 DEF LoadTail, Goto, vars, registry, park, consumers, scanning, producers, AloneInv, Holds
<1>3. ASSUME NEW p \in Producers, LookPast(p) PROVE AloneInv'
  BY <1>3 DEF LookPast, Goto, vars, registry, park, consumers, scanning, producers, AloneInv, Holds
<1>4. ASSUME NEW p \in Producers, SomebodyIsThere(p) PROVE AloneInv'
  BY <1>4 DEF SomebodyIsThere, Goto, ResetScan, vars, registry, park, consumers, scanning, producers, AloneInv, Holds
<1>5. ASSUME NEW p \in Producers, NobodyIsThere(p) PROVE AloneInv'
  BY <1>5, SMTT(20) DEF NobodyIsThere, Goto, ResetScan, Return, vars, registry, park, consumers, scanning, producers, AloneInv, Holds
<1>6. ASSUME NEW p \in Producers, AskPrivate(p) PROVE AloneInv'
  <2>1. /\ UNCHANGED <<tail, word, active, head, cpc>>
        /\ \A q \in Producers : q # p => pc'[q] = pc[q] /\ cur'[q] = cur[q]
        /\ pc'[p] \notin {"cas", "mark", "own"}
        /\ pc'[p] = "word" =>
             /\ cur'[p] = cur[p]
             /\ \/ Permits(private[p], cur[p]) \/ Permits(shared, cur[p])
                \/ Permits(low[p], cur[p]) /\ Refresh(p)
    BY <1>6, AskEffect
  <2>2. \A q \in Producers :
          pc'[p] = "word" /\ cur[p] = tail /\ pc[q] = "mark" => Slot(cur[p]) # Slot(cur[q])
    <3> SUFFICES ASSUME NEW q \in Producers, pc'[p] = "word", cur[p] = tail, pc[q] = "mark"
                 PROVE  Slot(cur[q]) # Slot(cur[p])
      OBVIOUS
    <3>1. /\ private[p] \in Nat \cup {NoConsumers} /\ private[p] <= cur[q]
          /\ shared \in Nat \cup {NoConsumers} /\ shared <= cur[q]
          /\ low[p] \in Nat \cup {NoConsumers} /\ low[p] <= cur[q]
          /\ cur[p] \in Nat /\ cur[q] \in Nat
      BY DEF UnmarkedInv
    <3>2. cur[q] < cur[p]
      BY DEF CursorInv, Holds
    <3> HIDE DEF TypeOK, RingTypes, ConsumerTypes, ScanTypes, CallTypes, NoConsumers
    <3> QED  BY <2>1, <3>1, <3>2, PermitsApart
  <2> QED  BY <2>1, <2>2 DEF AloneInv, Holds
<1>7. ASSUME NEW p \in Producers, AskShared(p) PROVE AloneInv'
  <2>1. /\ UNCHANGED <<tail, word, active, head, cpc>>
        /\ \A q \in Producers : q # p => pc'[q] = pc[q] /\ cur'[q] = cur[q]
        /\ pc'[p] \notin {"cas", "mark", "own"}
        /\ pc'[p] = "word" =>
             /\ cur'[p] = cur[p]
             /\ \/ Permits(private[p], cur[p]) \/ Permits(shared, cur[p])
                \/ Permits(low[p], cur[p]) /\ Refresh(p)
    BY <1>7, AskEffect
  <2>2. \A q \in Producers :
          pc'[p] = "word" /\ cur[p] = tail /\ pc[q] = "mark" => Slot(cur[p]) # Slot(cur[q])
    <3> SUFFICES ASSUME NEW q \in Producers, pc'[p] = "word", cur[p] = tail, pc[q] = "mark"
                 PROVE  Slot(cur[q]) # Slot(cur[p])
      OBVIOUS
    <3>1. /\ private[p] \in Nat \cup {NoConsumers} /\ private[p] <= cur[q]
          /\ shared \in Nat \cup {NoConsumers} /\ shared <= cur[q]
          /\ low[p] \in Nat \cup {NoConsumers} /\ low[p] <= cur[q]
          /\ cur[p] \in Nat /\ cur[q] \in Nat
      BY DEF UnmarkedInv
    <3>2. cur[q] < cur[p]
      BY DEF CursorInv, Holds
    <3> HIDE DEF TypeOK, RingTypes, ConsumerTypes, ScanTypes, CallTypes, NoConsumers
    <3> QED  BY <2>1, <3>1, <3>2, PermitsApart
  <2> QED  BY <2>1, <2>2 DEF AloneInv, Holds
<1>8. ASSUME NEW p \in Producers, ScanFlag(p) PROVE AloneInv'
  BY <1>8 DEF ScanFlag, Goto, vars, registry, park, consumers, scanning, producers, AloneInv, Holds
<1>9. ASSUME NEW p \in Producers, ScanHead(p) PROVE AloneInv'
  BY <1>9 DEF ScanHead, Goto, vars, registry, park, consumers, scanning, producers, AloneInv, Holds
<1>10. ASSUME NEW p \in Producers, Refresh(p) PROVE AloneInv'
  <2>1. /\ UNCHANGED <<tail, word, active, head, cpc>>
        /\ \A q \in Producers : q # p => pc'[q] = pc[q] /\ cur'[q] = cur[q]
        /\ pc'[p] \notin {"cas", "mark", "own"}
        /\ pc'[p] = "word" =>
             /\ cur'[p] = cur[p]
             /\ \/ Permits(private[p], cur[p]) \/ Permits(shared, cur[p])
                \/ Permits(low[p], cur[p]) /\ Refresh(p)
    BY <1>10, AskEffect
  <2>2. \A q \in Producers :
          pc'[p] = "word" /\ cur[p] = tail /\ pc[q] = "mark" => Slot(cur[p]) # Slot(cur[q])
    <3> SUFFICES ASSUME NEW q \in Producers, pc'[p] = "word", cur[p] = tail, pc[q] = "mark"
                 PROVE  Slot(cur[q]) # Slot(cur[p])
      OBVIOUS
    <3>1. /\ private[p] \in Nat \cup {NoConsumers} /\ private[p] <= cur[q]
          /\ shared \in Nat \cup {NoConsumers} /\ shared <= cur[q]
          /\ low[p] \in Nat \cup {NoConsumers} /\ low[p] <= cur[q]
          /\ cur[p] \in Nat /\ cur[q] \in Nat
      BY DEF UnmarkedInv
    <3>2. cur[q] < cur[p]
      BY DEF CursorInv, Holds
    <3> HIDE DEF TypeOK, RingTypes, ConsumerTypes, ScanTypes, CallTypes, NoConsumers
    <3> QED  BY <2>1, <3>1, <3>2, PermitsApart
  <2> QED  BY <2>1, <2>2 DEF AloneInv, Holds
<1>11. ASSUME NEW p \in Producers, CheckOccupant(p) PROVE AloneInv'
  <2>1. /\ UNCHANGED <<tail, word>> /\ pc[p] = "word"
        /\ \A q \in Producers : q # p => pc'[q] = pc[q] /\ cur'[q] = cur[q]
        /\ pc'[p] \notin {"word", "mark", "own"}
        /\ pc'[p] = "cas" => cur'[p] = cur[p] /\ PriorOccupantResolved(cur[p])
    BY <1>11 DEF CheckOccupant, Goto, ClaimFailed, Return
  <2>2. \A q \in Producers :
          pc'[p] = "cas" /\ cur[p] = tail /\ Holds(q) => Slot(cur[p]) # Slot(cur[q])
    <3> SUFFICES ASSUME NEW q \in Producers, pc'[p] = "cas", cur[p] = tail, Holds(q),
                        Slot(cur[q]) = Slot(cur[p])
                 PROVE  FALSE
      OBVIOUS
    <3>1. cur[q] < cur[p] /\ cur[q] \in Nat /\ cur[p] \in Nat
      BY DEF CursorInv
    <3>2. cur[q] + Capacity <= cur[p]
      BY <3>1, LapApart
    <3>3. word[Slot(cur[p])] # Vacant
      BY <2>1, <3>1, <3>2 DEF PriorOccupantResolved
    <3> QED  BY <2>1, <3>3 DEF AloneInv, Holds
  <2> QED  BY <2>1, <2>2 DEF AloneInv, Holds
<1>12. ASSUME NEW p \in Producers, Claim(p) PROVE AloneInv'
  <2>1. /\ pc[p] = "cas" /\ cur[p] = tail /\ tail' = tail + 1 /\ UNCHANGED <<word, cur>>
        /\ pc' = [pc EXCEPT ![p] = "mark"]
    BY <1>12 DEF Claim, Goto
  <2>2. \A q \in Producers : Holds(q) => Slot(cur[q]) # Slot(tail) /\ cur[q] < tail
    BY <2>1 DEF AloneInv, CursorInv
  <2>3. \A q \in Producers : Holds(q)' => q = p \/ Holds(q)
    BY <2>1 DEF Holds
  <2>4. \A q \in Producers : cur[q] <= tail /\ cur[q] \in Nat
    BY DEF CursorInv
  <2>5. (\A q, r \in Producers : q # r /\ Holds(q) /\ Holds(r) => Slot(cur[q]) # Slot(cur[r]))'
    BY <2>1, <2>2, <2>3 DEF AloneInv
  <2>6. (\A q \in Producers : pc[q] = "own" => word[Slot(cur[q])] = Vacant)'
    BY <2>1 DEF AloneInv
  <2>7. (\A q, r \in Producers :
           pc[q] \in {"word", "cas"} /\ cur[q] = tail /\ Holds(r) => Slot(cur[q]) # Slot(cur[r]))'
    BY <2>1, <2>4
  <2>8. (\A q \in Producers : Holds(q) => tail <= cur[q] + Capacity)'
    <3> SUFFICES ASSUME NEW q \in Producers, Holds(q)' PROVE tail + 1 <= cur[q] + Capacity
      BY <2>1
    <3>1. CASE q = p
      BY <2>1, <2>4, <3>1
    <3>2. CASE q # p
      <4>1. tail <= cur[q] + Capacity /\ Slot(cur[q]) # Slot(tail) /\ cur[q] \in Nat
        BY <2>2, <2>3, <2>4, <3>2 DEF AloneInv
      <4>2. tail # cur[q] + Capacity
        BY <4>1, SlotLap
      <4> QED  BY <4>1, <4>2
    <3> QED  BY <3>1, <3>2
  <2> QED  BY <2>5, <2>6, <2>7, <2>8 DEF AloneInv, Holds
<1>13. ASSUME NEW p \in Producers, LoseClaim(p) PROVE AloneInv'
  BY <1>13 DEF LoseClaim, Goto, vars, registry, park, consumers, scanning, producers, AloneInv, Holds
<1>14. ASSUME NEW p \in Producers, Mark(p) PROVE AloneInv'
  BY <1>14 DEF Mark, Goto, vars, registry, park, consumers, scanning, producers, AloneInv, Holds
<1>15. ASSUME NEW p \in Producers, Publish(p) PROVE AloneInv'
  BY <1>15 DEF Publish, Goto, Return, vars, registry, park, consumers, scanning, producers, AloneInv, Holds
<1>16. ASSUME NEW p \in Producers, Abandon(p) PROVE AloneInv'
  BY <1>16 DEF Abandon, Goto, vars, registry, park, consumers, scanning, producers, AloneInv, Holds
<1>17. ASSUME NEW p \in Producers, WakeAfterAbandon(p) PROVE AloneInv'
  BY <1>17 DEF WakeAfterAbandon, Goto, Return, WakeOne, vars, registry, park, consumers, scanning, producers, AloneInv, Holds
<1>18. ASSUME NEW p \in Producers, Arm(p) PROVE AloneInv'
  BY <1>18 DEF Arm, Goto, vars, registry, park, consumers, scanning, producers, AloneInv, Holds
<1>19. ASSUME NEW p \in Producers, Unpark(p) PROVE AloneInv'
  BY <1>19 DEF Unpark, Goto, vars, registry, park, consumers, scanning, producers, AloneInv, Holds
<1>20. ASSUME NEW p \in Producers, Disarm(p) PROVE AloneInv'
  BY <1>20, SMTT(20) DEF Disarm, Goto, Return, vars, registry, park, consumers, scanning, producers, AloneInv, Holds
<1>21. ASSUME NEW s \in Seats, Classify(s) PROVE AloneInv'
  BY <1>21 DEF Classify, GotoC, vars, registry, park, consumers, scanning, producers, AloneInv, Holds
<1>22. ASSUME NEW s \in Seats, AdvanceHead(s) PROVE AloneInv'
  BY <1>22 DEF AdvanceHead, GotoC, vars, registry, park, consumers, scanning, producers, AloneInv, Holds
<1>23. ASSUME NEW s \in Seats, WakeProducer(s) PROVE AloneInv'
  BY <1>23 DEF WakeProducer, GotoC, WakeOne, vars, registry, park, consumers, scanning, producers, AloneInv, Holds
<1>24. ASSUME NEW s \in Seats, CloneAt(s) PROVE AloneInv'
  BY <1>24 DEF CloneAt, GotoC, vars, registry, park, consumers, scanning, producers, AloneInv, Holds
<1>25. ASSUME NEW s \in Seats, TrySeat(s) PROVE AloneInv'
  BY <1>25 DEF TrySeat, GotoC, EndClone, vars, registry, park, consumers, scanning, producers, AloneInv, Holds
<1>26. ASSUME NEW s \in Seats, Subscribe(s) PROVE AloneInv'
  BY <1>26 DEF Subscribe, GotoC, EndClone, vars, registry, park, consumers, scanning, producers, AloneInv, Holds
<1>27. ASSUME NEW s \in Seats, Unsubscribe(s) PROVE AloneInv'
  BY <1>27 DEF Unsubscribe, GotoC, vars, registry, park, consumers, scanning, producers, AloneInv, Holds
<1>28. ASSUME FlushProducers PROVE AloneInv'
  BY <1>28 DEF FlushProducers, Flush, vars, registry, park, consumers, scanning, producers, AloneInv, Holds
<1>29. ASSUME UNCHANGED vars PROVE AloneInv'
  BY <1>29 DEF vars, registry, park, consumers, scanning, producers, AloneInv, Holds
<1> QED
  BY <1>1, <1>2, <1>3, <1>4, <1>5, <1>6, <1>7, <1>8, <1>9, <1>10, <1>11, <1>12, <1>13, <1>14, <1>15, <1>16, <1>17, <1>18, <1>19, <1>20, <1>21, <1>22, <1>23, <1>24, <1>25, <1>26, <1>27, <1>28, <1>29 DEF Next, ProducerStep, ConsumerStep

-----------------------------------------------------------------------------
(* Nothing unread is lost.                                                 *)

(* A holder's slot is not the slot of another unread position.             *)
LEMMA HeldSlot ==
  ASSUME TypeOK, LapInv, AloneInv, NEW p \in Producers, Holds(p),
         NEW s \in Seats, Live(s), NEW pos \in head[s]..(tail - 1), pos # cur[p]
  PROVE  Slot(pos) # Slot(cur[p])
<1> SUFFICES ASSUME Slot(pos) = Slot(cur[p]) PROVE FALSE
  OBVIOUS
<1>1. pos \in Nat /\ cur[p] \in Nat /\ head[s] \in Nat /\ tail \in Nat /\ head[s] <= pos /\ pos < tail
  BY DEF TypeOK, RingTypes, CallTypes
<1>2. cur[p] < head[s] + Capacity /\ tail <= cur[p] + Capacity
  BY DEF LapInv, AloneInv, Holds
<1>3. CASE pos < cur[p]
  BY <1>1, <1>2, <1>3, LapApart, CapacityAssumption
<1>4. CASE cur[p] < pos
  BY <1>1, <1>2, <1>4, LapApart, CapacityAssumption
<1> QED  BY <1>1, <1>3, <1>4

(* What a holder stores in its slot takes nothing unread away.             *)
LEMMA StoredUnread ==
  ASSUME TypeOK, CursorInv, ClaimInv, LapInv, AloneInv, UnreadInv, NEW p \in Producers, Holds(p),
         NEW c \in Nat, c = cur[p],
         NEW w \in {Vacant, PublishedWord(c), AbandonedWord(c)},
         word' = [word EXCEPT ![Slot(c)] = w], UNCHANGED <<tail, head, cpc>>,
         \A q \in Producers : q # p => pc'[q] = pc[q] /\ cur'[q] = cur[q],
         w = Vacant => pc'[p] = "own" /\ cur'[p] = c
  PROVE  UnreadInv'
<1>1. cur[p] \in Nat /\ \A s \in Seats : head[s] \in Nat
  BY DEF TypeOK, CallTypes, RingTypes
<1>2. /\ word'[Slot(c)] = w
      /\ \A pos \in Nat : Slot(pos) # Slot(c) => word'[Slot(pos)] = word[Slot(pos)]
  BY <1>1, WordStored
<1>3. \A q \in Producers : \A pos \in Nat : q # p /\ Owns(q, pos) => Owns(q, pos)'
  BY DEF Owns
<1>4. Resolved(c)' \/ Owns(p, c)'
  <2>1. CASE w = Vacant
    BY <2>1 DEF Owns
  <2>2. CASE w # Vacant
    <3>1. w \in {PublishedWord(c), AbandonedWord(c)}
      BY <2>2
    <3> QED  BY <1>2, <3>1 DEF Resolved
  <2> QED  BY <2>1, <2>2
<1> SUFFICES ASSUME NEW s \in Seats, Live(s)
             PROVE  UnreadOf(s)' /\ (cpc[s] = "reading" => word[Slot(head[s])] = PublishedWord(head[s]))'
  BY DEF UnreadInv, Live
<1>5. UnreadOf(s)'
  <2> SUFFICES ASSUME NEW pos \in head[s]..(tail - 1)
               PROVE  Resolved(pos)' \/ \E q \in Producers : Owns(q, pos)'
    BY DEF UnreadOf
  <2>1. pos \in Nat
    BY <1>1 DEF TypeOK, RingTypes
  <2>2. CASE pos = c
    BY <1>4, <2>2
  <2>3. CASE pos # c
    <3>1. word'[Slot(pos)] = word[Slot(pos)]
      BY <1>2, <2>1, <2>3, HeldSlot
    <3>2. Resolved(pos) \/ \E q \in Producers : Owns(q, pos)
      BY DEF UnreadInv, UnreadOf
    <3>3. CASE Resolved(pos)
      BY <3>1, <3>3 DEF Resolved
    <3>4. CASE \E q \in Producers : Owns(q, pos)
      BY <1>3, <2>1, <2>3, <3>4 DEF Owns
    <3> QED  BY <3>2, <3>3, <3>4
  <2> QED  BY <2>2, <2>3
<1>6. ASSUME cpc[s] = "reading" PROVE word'[Slot(head[s])] = PublishedWord(head[s])
  <2>1. head[s] < tail /\ head[s] # c /\ head[s] \in Nat /\ tail \in Nat
    BY <1>1, <1>6 DEF ClaimInv, TypeOK, RingTypes
  <2>2. head[s] \in head[s]..(tail - 1)
    BY <2>1
  <2>3. Slot(head[s]) # Slot(c)
    BY <2>1, <2>2, HeldSlot
  <2>4. word[Slot(head[s])] = PublishedWord(head[s])
    BY <1>6 DEF UnreadInv
  <2> QED  BY <1>2, <2>1, <2>3, <2>4
<1> QED  BY <1>5, <1>6

LEMMA UnreadStep ==
  ASSUME TypeOK, SeatInv, CursorInv, ClaimInv, LapInv, AloneInv, UnreadInv, [Next]_vars
  PROVE  UnreadInv'
<1> USE BroadcastAssumption, CapacityAssumption, SlotTypes DEF TypeOK, RingTypes, ConsumerTypes, ScanTypes, CallTypes, NoConsumers
<1>1. ASSUME NEW p \in Producers, Call(p) PROVE UnreadInv'
  BY <1>1 DEF Call, Goto, vars, registry, park, consumers, scanning, producers, UnreadInv, UnreadOf, Live, Owns, Resolved
<1>2. ASSUME NEW p \in Producers, LoadTail(p) PROVE UnreadInv'
  BY <1>2 DEF LoadTail, Goto, vars, registry, park, consumers, scanning, producers, UnreadInv, UnreadOf, Live, Owns, Resolved
<1>3. ASSUME NEW p \in Producers, LookPast(p) PROVE UnreadInv'
  BY <1>3 DEF LookPast, Goto, vars, registry, park, consumers, scanning, producers, UnreadInv, UnreadOf, Live, Owns, Resolved
<1>4. ASSUME NEW p \in Producers, SomebodyIsThere(p) PROVE UnreadInv'
  BY <1>4 DEF SomebodyIsThere, Goto, ResetScan, vars, registry, park, consumers, scanning, producers, UnreadInv, UnreadOf, Live, Owns, Resolved
<1>5. ASSUME NEW p \in Producers, NobodyIsThere(p) PROVE UnreadInv'
  <2>1. UNCHANGED <<tail, word, head, cpc>>
    BY <1>5 DEF NobodyIsThere, registry, consumers
  <2>2. \A q \in Producers : pc[q] \in {"mark", "own"} => pc'[q] = pc[q] /\ cur'[q] = cur[q]
    BY <1>5 DEF NobodyIsThere, Goto, Return
  <2> QED  BY <2>1, <2>2, SMTT(20) DEF UnreadInv, UnreadOf, Live, Owns, Resolved
<1>6. ASSUME NEW p \in Producers, AskPrivate(p) PROVE UnreadInv'
  BY <1>6 DEF AskPrivate, Goto, ResetScan, Permitted, vars, registry, park, consumers, scanning, producers, UnreadInv, UnreadOf, Live, Owns, Resolved
<1>7. ASSUME NEW p \in Producers, AskShared(p) PROVE UnreadInv'
  BY <1>7 DEF AskShared, Goto, ResetScan, Permitted, vars, registry, park, consumers, scanning, producers, UnreadInv, UnreadOf, Live, Owns, Resolved
<1>8. ASSUME NEW p \in Producers, ScanFlag(p) PROVE UnreadInv'
  BY <1>8 DEF ScanFlag, Goto, vars, registry, park, consumers, scanning, producers, UnreadInv, UnreadOf, Live, Owns, Resolved
<1>9. ASSUME NEW p \in Producers, ScanHead(p) PROVE UnreadInv'
  BY <1>9 DEF ScanHead, Goto, vars, registry, park, consumers, scanning, producers, UnreadInv, UnreadOf, Live, Owns, Resolved
<1>10. ASSUME NEW p \in Producers, Refresh(p) PROVE UnreadInv'
  BY <1>10 DEF Refresh, Goto, ResetScan, Permitted, Return, ClaimFailed, Refused, vars, registry, park, consumers, scanning, producers, UnreadInv, UnreadOf, Live, Owns, Resolved
<1>11. ASSUME NEW p \in Producers, CheckOccupant(p) PROVE UnreadInv'
  BY <1>11 DEF CheckOccupant, Goto, ClaimFailed, Return, vars, registry, park, consumers, scanning, producers, UnreadInv, UnreadOf, Live, Owns, Resolved
<1>12. ASSUME NEW p \in Producers, Claim(p) PROVE UnreadInv'
  BY <1>12, SMTT(20) DEF Claim, Goto, vars, registry, park, consumers, scanning, producers, UnreadInv, UnreadOf, Live, Owns, Resolved
<1>13. ASSUME NEW p \in Producers, LoseClaim(p) PROVE UnreadInv'
  BY <1>13 DEF LoseClaim, Goto, vars, registry, park, consumers, scanning, producers, UnreadInv, UnreadOf, Live, Owns, Resolved
<1>14. ASSUME NEW p \in Producers, Mark(p) PROVE UnreadInv'
  <2>1. /\ Holds(p) /\ word' = [word EXCEPT ![Slot(cur[p])] = Vacant]
        /\ UNCHANGED <<tail, head, cpc>>
    BY <1>14 DEF Mark, Holds, registry, consumers
  <2>2. /\ \A q \in Producers : q # p => pc'[q] = pc[q] /\ cur'[q] = cur[q]
        /\ pc'[p] = "own" /\ cur'[p] = cur[p]
    BY <1>14 DEF Mark, Goto, Return, Vacant, PublishedWord, AbandonedWord
  <2> QED  BY <2>1, <2>2, StoredUnread
<1>15. ASSUME NEW p \in Producers, Publish(p) PROVE UnreadInv'
  <2>1. /\ Holds(p) /\ word' = [word EXCEPT ![Slot(cur[p])] = PublishedWord(cur[p])]
        /\ UNCHANGED <<tail, head, cpc>>
    BY <1>15 DEF Publish, Holds, registry, consumers
  <2>2. /\ \A q \in Producers : q # p => pc'[q] = pc[q] /\ cur'[q] = cur[q]
        /\ PublishedWord(cur[p]) # Vacant
    BY <1>15 DEF Publish, Goto, Return, Vacant, PublishedWord, AbandonedWord
  <2> QED  BY <2>1, <2>2, StoredUnread
<1>16. ASSUME NEW p \in Producers, Abandon(p) PROVE UnreadInv'
  <2>1. /\ Holds(p) /\ word' = [word EXCEPT ![Slot(cur[p])] = AbandonedWord(cur[p])]
        /\ UNCHANGED <<tail, head, cpc>>
    BY <1>16 DEF Abandon, Holds, registry, consumers
  <2>2. /\ \A q \in Producers : q # p => pc'[q] = pc[q] /\ cur'[q] = cur[q]
        /\ AbandonedWord(cur[p]) # Vacant
    BY <1>16 DEF Abandon, Goto, Return, Vacant, PublishedWord, AbandonedWord
  <2> QED  BY <2>1, <2>2, StoredUnread
<1>17. ASSUME NEW p \in Producers, WakeAfterAbandon(p) PROVE UnreadInv'
  BY <1>17 DEF WakeAfterAbandon, Goto, Return, WakeOne, vars, registry, park, consumers, scanning, producers, UnreadInv, UnreadOf, Live, Owns, Resolved
<1>18. ASSUME NEW p \in Producers, Arm(p) PROVE UnreadInv'
  BY <1>18 DEF Arm, Goto, vars, registry, park, consumers, scanning, producers, UnreadInv, UnreadOf, Live, Owns, Resolved
<1>19. ASSUME NEW p \in Producers, Unpark(p) PROVE UnreadInv'
  BY <1>19 DEF Unpark, Goto, vars, registry, park, consumers, scanning, producers, UnreadInv, UnreadOf, Live, Owns, Resolved
<1>20. ASSUME NEW p \in Producers, Disarm(p) PROVE UnreadInv'
  BY <1>20 DEF Disarm, Goto, Return, vars, registry, park, consumers, scanning, producers, UnreadInv, UnreadOf, Live, Owns, Resolved
<1>21. ASSUME NEW s \in Seats, Classify(s) PROVE UnreadInv'
  BY <1>21 DEF Classify, GotoC, vars, registry, park, consumers, scanning, producers, UnreadInv, UnreadOf, Live, Owns, Resolved
<1>22. ASSUME NEW s \in Seats, AdvanceHead(s) PROVE UnreadInv'
  BY <1>22 DEF AdvanceHead, GotoC, vars, registry, park, consumers, scanning, producers, UnreadInv, UnreadOf, Live, Owns, Resolved
<1>23. ASSUME NEW s \in Seats, WakeProducer(s) PROVE UnreadInv'
  BY <1>23 DEF WakeProducer, GotoC, WakeOne, vars, registry, park, consumers, scanning, producers, UnreadInv, UnreadOf, Live, Owns, Resolved
<1>24. ASSUME NEW s \in Seats, CloneAt(s) PROVE UnreadInv'
  BY <1>24 DEF CloneAt, GotoC, vars, registry, park, consumers, scanning, producers, UnreadInv, UnreadOf, Live, Owns, Resolved
<1>25. ASSUME NEW s \in Seats, TrySeat(s) PROVE UnreadInv'
  BY <1>25 DEF TrySeat, GotoC, EndClone, vars, registry, park, consumers, scanning, producers, UnreadInv, UnreadOf, Live, Owns, Resolved
<1>26. ASSUME NEW s \in Seats, Subscribe(s) PROVE UnreadInv'
  <2> PICK c \in Seats : c = trying[s]
    BY <1>26, SubscribeEffect
  <2>e. /\ Live(s) /\ head[s] <= joinAt[s] /\ head'[c] = joinAt[s] /\ UNCHANGED <<tail, word, pc, cur>>
        /\ \A r \in Seats : r # c => head'[r] = head[r]
    BY <1>26, SubscribeEffect DEF producers
  <2>1. UnreadOf(s)
    BY <2>e DEF UnreadInv
  <2>2. UnreadOf(c)'
    BY <2>1, <2>e DEF UnreadOf, Resolved, Owns
  <2>3. /\ cpc'[c] = "ready"
        /\ \A r \in Seats : r # c => cpc'[r] = "ready" \/ cpc'[r] = cpc[r]
        /\ \A r \in Seats : r # c /\ Live(r)' => Live(r)
    BY <1>26, <2>e DEF Subscribe, Live
  <2>4. \A r \in Seats : r # c => (UnreadOf(r)' <=> UnreadOf(r))
    BY <2>e DEF UnreadOf, Resolved, Owns
  <2> SUFFICES ASSUME NEW r \in Seats, Live(r)'
               PROVE  UnreadOf(r)' /\ (cpc[r] = "reading" => word[Slot(head[r])] = PublishedWord(head[r]))'
    BY DEF UnreadInv
  <2>5. CASE r = c
    BY <2>2, <2>3, <2>5
  <2>6. CASE r # c
    <3>1. Live(r) /\ UnreadOf(r)'
      BY <2>3, <2>4, <2>6 DEF UnreadInv
    <3>2. ASSUME cpc'[r] = "reading" PROVE word'[Slot(head'[r])] = PublishedWord(head'[r])
      BY <2>3, <2>6, <2>e, <3>1, <3>2 DEF UnreadInv
    <3> QED  BY <3>1, <3>2
  <2> QED  BY <2>5, <2>6
<1>27. ASSUME NEW s \in Seats, Unsubscribe(s) PROVE UnreadInv'
  BY <1>27 DEF Unsubscribe, GotoC, vars, registry, park, consumers, scanning, producers, UnreadInv, UnreadOf, Live, Owns, Resolved
<1>28. ASSUME FlushProducers PROVE UnreadInv'
  BY <1>28 DEF FlushProducers, Flush, vars, registry, park, consumers, scanning, producers, UnreadInv, UnreadOf, Live, Owns, Resolved
<1>29. ASSUME UNCHANGED vars PROVE UnreadInv'
  BY <1>29 DEF vars, registry, park, consumers, scanning, producers, UnreadInv, UnreadOf, Live, Owns, Resolved
<1> QED
  BY <1>1, <1>2, <1>3, <1>4, <1>5, <1>6, <1>7, <1>8, <1>9, <1>10, <1>11, <1>12, <1>13, <1>14, <1>15, <1>16, <1>17, <1>18, <1>19, <1>20, <1>21, <1>22, <1>23, <1>24, <1>25, <1>26, <1>27, <1>28, <1>29 DEF Next, ProducerStep, ConsumerStep

-----------------------------------------------------------------------------
(* Together.                                                               *)

LEMMA InitIInv == ASSUME Init PROVE IInv
<1> USE BroadcastAssumption, CapacityAssumption, SlotTypes DEF Init
<1>1. RingTypes /\ ConsumerTypes
  BY DEF RingTypes, ConsumerTypes, ConsumerSteps, Vacant
<1>2. ScanTypes /\ CallTypes /\ ScanIndex
  BY DEF ScanTypes, CallTypes, ScanIndex, ProducerSteps, Stages, Calls, NoConsumers
<1>3. SeatInv
  BY DEF SeatInv
<1>4. CursorInv
  BY DEF CursorInv, Holds, NoConsumers
<1>5. ResolvedInv /\ \A p \in Producers : ~Holds(p)
  BY DEF ResolvedInv, Resolved, Vacant, PublishedWord, AbandonedWord, Holds
<1>6. ClaimInv /\ AloneInv
  BY <1>5 DEF ClaimInv, AloneInv, Holds
<1>7. FloorInv
  BY DEF FloorInv, SharedIsLow, PrivateIsLow, ScanInv, LapInv, HasRead
<1>8. UnmarkedInv
  BY DEF UnmarkedInv
<1>9. UnreadInv
  <2>1. \A s \in Seats : head[s]..(tail - 1) = {} /\ cpc[s] # "reading"
    OBVIOUS
  <2> QED  BY <2>1 DEF UnreadInv, UnreadOf
<1> QED  BY <1>1, <1>2, <1>3, <1>4, <1>5, <1>6, <1>7, <1>8, <1>9 DEF IInv, BaseInv, TypeOK, OwnerInv

LEMMA NextIInv == ASSUME IInv, [Next]_vars PROVE IInv'
<1>1. BaseInv'
  BY BaseStep DEF IInv
<1>2. slips \subseteq slips'
  BY SlipsStay
<1>3. FloorInv'
  BY <1>2, SharedLowStep, PrivateLowStep, ScanLowStep, LapStep DEF IInv, BaseInv, FloorInv
<1>4. OwnerInv'
  BY <1>2, UnmarkedStep, AloneStep DEF IInv, BaseInv, OwnerInv
<1>5. (slips \cap {"floor", "owner"} = {} => UnreadInv)'
  BY <1>2, UnreadStep DEF IInv, BaseInv, FloorInv, OwnerInv
<1> QED  BY <1>1, <1>3, <1>4, <1>5 DEF IInv

THEOREM Invariance == Spec => []IInv
<1>1. Init => IInv
  BY InitIInv
<1>2. IInv /\ [Next]_vars => IInv'
  BY NextIInv
<1> QED  BY <1>1, <1>2, PTL DEF Spec

(* Every variable keeps its type.                                          *)
THEOREM BroadcastTypes == Spec => []TypeOK
<1>1. IInv => TypeOK
  BY DEF IInv, BaseInv
<1> QED  BY <1>1, Invariance, PTL

(* FloorCache and SharedFloor stay at or below every subscriber's head as  *)
(* long as no consumer subscribed behind a scan.                           *)
THEOREM FloorsStayLow == Spec => []FloorsAreLow
<1>1. IInv => FloorsAreLow
  BY DEF IInv, FloorInv, FloorsAreLow
<1> QED  BY <1>1, Invariance, PTL

(* SlotReuse and the floor give a slot to one producer at a time, as long  *)
(* as no consumer was cloned over a claim that was not marked yet.         *)
THEOREM SlotsHaveOneOwner == Spec => []OwnersAreAlone
<1>1. IInv => OwnersAreAlone
  BY DEF IInv, OwnerInv, AloneInv, OwnersAreAlone, Holds
<1> QED  BY <1>1, Invariance, PTL

(* Without those two overlaps no claim takes the slot of a position that   *)
(* some subscriber has yet to read or is reading.                          *)
THEOREM UnreadIsKept == Spec => []NothingUnreadIsLost
<1>1. IInv => NothingUnreadIsLost
  BY DEF IInv, UnreadInv, UnreadOf, NothingUnreadIsLost
<1> QED  BY <1>1, Invariance, PTL

-----------------------------------------------------------------------------
(* Nobody sleeps beside a ring that has been read to the end: what a step  *)
(* of one producer leaves alone, and where it may go.                      *)

(* The step is none of q's.                                                *)
Same(q) ==
  /\ pc'[q] = pc[q] /\ stage'[q] = stage[q] /\ call'[q] = call[q] /\ cur'[q] = cur[q]
  /\ idx'[q] = idx[q] /\ low'[q] = low[q]

LEMMA OthersStay ==
  ASSUME TypeOK, NEW p \in Producers, ProducerStep(p)
  PROVE  /\ \A q \in Producers : q # p => Same(q)
         /\ UNCHANGED <<active, head, cpc, joinAt, trying, departing, slips>>
<1> USE DEF TypeOK, ScanTypes, CallTypes, Same, registry, consumers, producers, scanning
<1>1. CASE Call(p)
  BY <1>1 DEF Call, Goto
<1>2. CASE LoadTail(p)
  BY <1>2 DEF LoadTail, Goto
<1>3. CASE LookPast(p)
  BY <1>3 DEF LookPast, Goto
<1>4. CASE SomebodyIsThere(p)
  BY <1>4 DEF SomebodyIsThere, Goto, ResetScan
<1>5. CASE NobodyIsThere(p)
  BY <1>5 DEF NobodyIsThere, Goto, ResetScan, Return
<1>6. CASE AskPrivate(p)
  BY <1>6 DEF AskPrivate, Goto, ResetScan, Permitted
<1>7. CASE AskShared(p)
  BY <1>7 DEF AskShared, Goto, ResetScan, Permitted
<1>8. CASE ScanFlag(p)
  BY <1>8 DEF ScanFlag, Goto
<1>9. CASE ScanHead(p)
  BY <1>9 DEF ScanHead, Goto
<1>10. CASE Refresh(p)
  BY <1>10 DEF Refresh, Goto, ResetScan, Permitted, Return, ClaimFailed, Refused
<1>11. CASE CheckOccupant(p)
  BY <1>11 DEF CheckOccupant, Goto, ClaimFailed, Return
<1>12. CASE Claim(p)
  BY <1>12 DEF Claim, Goto
<1>13. CASE LoseClaim(p)
  BY <1>13 DEF LoseClaim, Goto
<1>14. CASE Mark(p)
  BY <1>14 DEF Mark, Goto
<1>15. CASE Publish(p)
  BY <1>15 DEF Publish, Goto, Return
<1>16. CASE Abandon(p)
  BY <1>16 DEF Abandon, Goto
<1>17. CASE WakeAfterAbandon(p)
  BY <1>17 DEF WakeAfterAbandon, Goto, Return, WakeOne
<1>18. CASE Arm(p)
  BY <1>18 DEF Arm, Goto
<1>19. CASE Unpark(p)
  BY <1>19 DEF Unpark, Goto
<1>20. CASE Disarm(p)
  BY <1>20 DEF Disarm, Goto, Return
<1> QED
  BY <1>1, <1>2, <1>3, <1>4, <1>5, <1>6, <1>7, <1>8, <1>9, <1>10, <1>11, <1>12, <1>13, <1>14, <1>15, <1>16, <1>17, <1>18, <1>19, <1>20 DEF ProducerStep

(* A wake moves producers from the bitmap to the tokens.                   *)
LEMMA WakeMoves ==
  ASSUME WakeOne \/ Flush \/ UNCHANGED park
  PROVE  bits' \subseteq bits /\ tokens \subseteq tokens' /\ bits \subseteq bits' \cup tokens'
BY DEF WakeOne, Flush, park

LEMMA OthersPark ==
  ASSUME TypeOK, NEW p \in Producers, ProducerStep(p), NEW q \in Producers, q # p
  PROVE  /\ q \in bits' => q \in bits
         /\ q \in tokens => q \in tokens'
         /\ q \in bits => q \in bits' \cup tokens'
<1> USE DEF park
<1>1. CASE Call(p)
  BY <1>1 DEF Call, Goto
<1>2. CASE LoadTail(p)
  BY <1>2 DEF LoadTail, Goto
<1>3. CASE LookPast(p)
  BY <1>3 DEF LookPast, Goto
<1>4. CASE SomebodyIsThere(p)
  BY <1>4 DEF SomebodyIsThere, Goto, ResetScan
<1>5. CASE NobodyIsThere(p)
  BY <1>5 DEF NobodyIsThere, Goto, ResetScan, Return
<1>6. CASE AskPrivate(p)
  BY <1>6 DEF AskPrivate, Goto, ResetScan, Permitted
<1>7. CASE AskShared(p)
  BY <1>7 DEF AskShared, Goto, ResetScan, Permitted
<1>8. CASE ScanFlag(p)
  BY <1>8 DEF ScanFlag, Goto
<1>9. CASE ScanHead(p)
  BY <1>9 DEF ScanHead, Goto
<1>10. CASE Refresh(p)
  BY <1>10 DEF Refresh, Goto, ResetScan, Permitted, Return, ClaimFailed, Refused
<1>11. CASE CheckOccupant(p)
  BY <1>11 DEF CheckOccupant, Goto, ClaimFailed, Return
<1>12. CASE Claim(p)
  BY <1>12 DEF Claim, Goto
<1>13. CASE LoseClaim(p)
  BY <1>13 DEF LoseClaim, Goto
<1>14. CASE Mark(p)
  BY <1>14 DEF Mark, Goto
<1>15. CASE Publish(p)
  BY <1>15 DEF Publish, Goto, Return
<1>16. CASE Abandon(p)
  BY <1>16 DEF Abandon, Goto
<1>17. CASE WakeAfterAbandon(p)
  BY <1>17, WakeMoves DEF WakeAfterAbandon
<1>18. CASE Arm(p)
  BY <1>18 DEF Arm, Goto
<1>19. CASE Unpark(p)
  BY <1>19 DEF Unpark, Goto
<1>20. CASE Disarm(p)
  BY <1>20 DEF Disarm, Goto, Return
<1> QED
  BY <1>1, <1>2, <1>3, <1>4, <1>5, <1>6, <1>7, <1>8, <1>9, <1>10, <1>11, <1>12, <1>13, <1>14, <1>15, <1>16, <1>17, <1>18, <1>19, <1>20 DEF ProducerStep

StageOk(p) ==
  /\ pc[p] \in {"idle", "arm", "parked"} => stage[p] = "enter"
  /\ pc[p] \in {"load", "shared", "scan", "head"} => stage[p] \in {"gate", "claim", "recheck"}
  /\ pc[p] = "look" => stage[p] # "leave"
  /\ pc[p] \in {"word", "cas", "mark", "own"} => stage[p] = "claim"
  /\ pc[p] = "wake" => stage[p] = "leave"
  /\ pc[p] = "disarm" => stage[p] \in {"enter", "claim", "leave"}

(* A reader of seats starts at seat zero with nothing read.                *)
ResetOk(p) ==
  /\ pc[p] \notin {"scan", "head"} => low[p] = NoConsumers
  /\ pc[p] \notin {"look", "scan", "head"} => idx[p] = 0
  /\ pc[p] = "look" => idx[p] < NumSeats

StageInv == \A p \in Producers : StageOk(p) /\ ResetOk(p)

LEMMA OwnStage ==
  ASSUME TypeOK, NEW p \in Producers, StageOk(p), ResetOk(p), ProducerStep(p)
  PROVE  StageOk(p)' /\ ResetOk(p)'
<1> USE BroadcastAssumption DEF TypeOK, ScanTypes, CallTypes, StageOk, ResetOk, producers, scanning
<1>1. CASE Call(p)
  BY <1>1 DEF Call, Goto
<1>2. CASE LoadTail(p)
  BY <1>2 DEF LoadTail, Goto
<1>3. CASE LookPast(p)
  BY <1>3 DEF LookPast, Goto
<1>4. CASE SomebodyIsThere(p)
  BY <1>4 DEF SomebodyIsThere, Goto, ResetScan
<1>5. CASE NobodyIsThere(p)
  BY <1>5 DEF NobodyIsThere, Goto, ResetScan, Return
<1>6. CASE AskPrivate(p)
  BY <1>6 DEF AskPrivate, Goto, ResetScan, Permitted
<1>7. CASE AskShared(p)
  BY <1>7 DEF AskShared, Goto, ResetScan, Permitted
<1>8. CASE ScanFlag(p)
  BY <1>8 DEF ScanFlag, Goto
<1>9. CASE ScanHead(p)
  BY <1>9 DEF ScanHead, Goto
<1>10. CASE Refresh(p)
  BY <1>10 DEF Refresh, Goto, ResetScan, Permitted, Return, ClaimFailed, Refused
<1>11. CASE CheckOccupant(p)
  BY <1>11 DEF CheckOccupant, Goto, ClaimFailed, Return
<1>12. CASE Claim(p)
  BY <1>12 DEF Claim, Goto
<1>13. CASE LoseClaim(p)
  BY <1>13 DEF LoseClaim, Goto
<1>14. CASE Mark(p)
  BY <1>14 DEF Mark, Goto
<1>15. CASE Publish(p)
  BY <1>15 DEF Publish, Goto, Return
<1>16. CASE Abandon(p)
  BY <1>16 DEF Abandon, Goto
<1>17. CASE WakeAfterAbandon(p)
  BY <1>17 DEF WakeAfterAbandon, Goto, Return, WakeOne
<1>18. CASE Arm(p)
  BY <1>18 DEF Arm, Goto
<1>19. CASE Unpark(p)
  BY <1>19 DEF Unpark, Goto
<1>20. CASE Disarm(p)
  BY <1>20 DEF Disarm, Goto, Return
<1> QED
  BY <1>1, <1>2, <1>3, <1>4, <1>5, <1>6, <1>7, <1>8, <1>9, <1>10, <1>11, <1>12, <1>13, <1>14, <1>15, <1>16, <1>17, <1>18, <1>19, <1>20 DEF ProducerStep

SomeActive == \E s \in Seats : active[s]

(* A subscriber is in the seat p reads, or in one that it has yet to read, *)
(* or has been read.                                                       *)
Ahead(p) == \E s \in Seats : s >= idx[p] /\ active[s]

Sighted(p) ==
  /\ pc[p] = "look" => Ahead(p)
  /\ pc[p] = "scan" => Ahead(p) \/ low[p] # NoConsumers
  /\ pc[p] = "head" => active[idx[p]]

LEMMA AheadOfZero ==
  ASSUME SomeActive, NEW p \in Producers, idx[p] = 0
  PROVE  Ahead(p)
BY SeatNumbers DEF SomeActive, Ahead

(* Past a seat that is free the subscriber is still ahead.                 *)
LEMMA AheadOfFree ==
  ASSUME TypeOK, NEW p \in Producers, Ahead(p), idx[p] \in Seats, ~active[idx[p]]
  PROVE  \E s \in Seats : s >= idx[p] + 1 /\ active[s]
BY SeatNumbers DEF Ahead, TypeOK, RingTypes, ScanTypes

(* Who sees a subscriber goes on seeing it.                                *)
LEMMA OwnSight ==
  ASSUME TypeOK, ScanIndex, NEW p \in Producers, StageOk(p), ResetOk(p), SomeActive, Sighted(p),
         ProducerStep(p)
  PROVE  Sighted(p)' /\ ~NobodyIsThere(p)
<1>0. UNCHANGED active
  BY OthersStay
<1>1. ASSUME idx'[p] = 0 PROVE Ahead(p)'
  BY <1>0, <1>1, SeatNumbers DEF SomeActive, Ahead
<1>2. ~NobodyIsThere(p)
  <2> SUFFICES ASSUME NobodyIsThere(p) PROVE FALSE
    OBVIOUS
  <2>1. idx[p] = NumSeats - 1 /\ ~active[idx[p]] /\ Ahead(p)
    BY DEF NobodyIsThere, Sighted
  <2>2. idx[p] \in Seats
    BY <2>1, BroadcastAssumption DEF Seats
  <2>3. PICK s \in Seats : s >= idx[p] + 1
    BY <2>1, <2>2, AheadOfFree
  <2> QED  BY <2>1, <2>3, SeatNumbers, BroadcastAssumption
<1>3. Sighted(p)'
  <2> USE DEF TypeOK, ScanTypes, CallTypes, Sighted, StageOk, ResetOk, producers, scanning
  <2>1. CASE Call(p)
    BY <2>1, <1>0, <1>1 DEF Call, Goto
  <2>2. CASE LoadTail(p)
    BY <2>2, <1>0, <1>1 DEF LoadTail, Goto
  <2>3. CASE LookPast(p)
    <3>1. idx'[p] = idx[p] + 1 /\ pc'[p] = "look" /\ ~active[idx[p]] /\ idx[p] < NumSeats
      BY <2>3, BroadcastAssumption DEF LookPast
    <3>2. idx[p] \in Seats
      BY <3>1, SeatNumbers
    <3>3. Ahead(p)'
      BY <1>0, <2>3, <3>1, <3>2, AheadOfFree DEF LookPast, Ahead
    <3> QED  BY <3>1, <3>3
  <2>4. CASE SomebodyIsThere(p)
    BY <2>4, <1>0, <1>1 DEF SomebodyIsThere, Goto, ResetScan
  <2>5. CASE NobodyIsThere(p)
    BY <1>2, <2>5
  <2>6. CASE AskPrivate(p)
    BY <2>6, <1>0, <1>1 DEF AskPrivate, Goto, ResetScan, Permitted
  <2>7. CASE AskShared(p)
    BY <2>7, <1>0, <1>1 DEF AskShared, Goto, ResetScan, Permitted
  <2>8. CASE ScanFlag(p)
    <3>1. CASE active[idx[p]]
      BY <1>0, <2>8, <3>1 DEF ScanFlag, Goto
    <3>2. CASE ~active[idx[p]]
      <4>1. idx'[p] = idx[p] + 1 /\ pc'[p] = "scan" /\ low'[p] = low[p] /\ idx[p] < NumSeats
        BY <2>8, <3>2 DEF ScanFlag
      <4>2. idx[p] \in Seats
        BY <4>1, SeatNumbers
      <4>3. Ahead(p) => Ahead(p)'
        BY <1>0, <3>2, <4>1, <4>2, AheadOfFree DEF Ahead
      <4> QED  BY <2>8, <4>1, <4>3 DEF ScanFlag
    <3> QED  BY <3>1, <3>2
  <2>9. CASE ScanHead(p)
    <3>1. idx[p] \in Seats /\ head[idx[p]] \in Nat
      BY <2>9, SeatNumbers DEF ScanHead, ScanIndex, RingTypes
    <3> QED  BY <2>9, <3>1 DEF ScanHead, Goto, NoConsumers
  <2>10. CASE Refresh(p)
    BY <2>10, <1>0, <1>1 DEF Refresh, Goto, ResetScan, Permitted, Return, ClaimFailed, Refused
  <2>11. CASE CheckOccupant(p)
    BY <2>11, <1>0, <1>1 DEF CheckOccupant, Goto, ClaimFailed, Return
  <2>12. CASE Claim(p)
    BY <2>12, <1>0, <1>1 DEF Claim, Goto
  <2>13. CASE LoseClaim(p)
    BY <2>13, <1>0, <1>1 DEF LoseClaim, Goto
  <2>14. CASE Mark(p)
    BY <2>14, <1>0, <1>1 DEF Mark, Goto
  <2>15. CASE Publish(p)
    BY <2>15, <1>0, <1>1 DEF Publish, Goto, Return
  <2>16. CASE Abandon(p)
    BY <2>16, <1>0, <1>1 DEF Abandon, Goto
  <2>17. CASE WakeAfterAbandon(p)
    BY <2>17, <1>0, <1>1 DEF WakeAfterAbandon, Goto, Return, WakeOne
  <2>18. CASE Arm(p)
    BY <2>18, <1>0, <1>1 DEF Arm, Goto
  <2>19. CASE Unpark(p)
    BY <2>19, <1>0, <1>1 DEF Unpark, Goto
  <2>20. CASE Disarm(p)
    BY <2>20, <1>0, <1>1 DEF Disarm, Goto, Return
  <2> QED
    BY <2>1, <2>2, <2>3, <2>4, <2>5, <2>6, <2>7, <2>8, <2>9, <2>10, <2>11, <2>12, <2>13, <2>14, <2>15, <2>16, <2>17, <2>18, <2>19, <2>20 DEF ProducerStep
<1> QED  BY <1>2, <1>3

(* A scan that will answer no.                                             *)
Blocked(p) == pc[p] \in {"scan", "head"} /\ low[p] # NoConsumers /\ ~Permits(low[p], cur[p])

Drained == \A s \in Seats : active[s] => head[s] = tail

(* A scan that sees a subscriber and is not blocked answers yes.           *)
LEMMA SightedScan ==
  ASSUME TypeOK, NEW p \in Producers, Sighted(p), ~Blocked(p), Refresh(p)
  PROVE  Permits(low[p], cur[p]) /\ Permitted(p)
<1>1. pc[p] = "scan" /\ idx[p] = NumSeats
  BY DEF Refresh
<1>2. ~Ahead(p)
  BY <1>1, SeatNumbers, BroadcastAssumption DEF Ahead
<1> QED  BY <1>1, <1>2 DEF Sighted, Blocked, Refresh

(* On a drained ring no scan becomes blocked.                              *)
LEMMA OwnClear ==
  ASSUME TypeOK, ScanIndex, CursorInv, NEW p \in Producers, ResetOk(p), Drained, Sighted(p),
         ~Blocked(p), ProducerStep(p)
  PROVE  ~Blocked(p)'
<1> SUFFICES ASSUME Blocked(p)' PROVE FALSE
  OBVIOUS
<1> USE DEF TypeOK, ScanTypes, CallTypes, ResetOk, producers, scanning, Blocked
<1>1. CASE Call(p)
  BY <1>1 DEF Call, Goto, NoConsumers, Permits
<1>2. CASE LoadTail(p)
  BY <1>2 DEF LoadTail, Goto, NoConsumers, Permits
<1>3. CASE LookPast(p)
  BY <1>3 DEF LookPast, Goto, NoConsumers, Permits
<1>4. CASE SomebodyIsThere(p)
  BY <1>4 DEF SomebodyIsThere, Goto, ResetScan, NoConsumers, Permits
<1>5. CASE NobodyIsThere(p)
  BY <1>5 DEF NobodyIsThere, Goto, ResetScan, Return, NoConsumers, Permits
<1>6. CASE AskPrivate(p)
  BY <1>6 DEF AskPrivate, Goto, ResetScan, Permitted, NoConsumers, Permits
<1>7. CASE AskShared(p)
  BY <1>7 DEF AskShared, Goto, ResetScan, Permitted, NoConsumers, Permits
<1>8. CASE ScanFlag(p)
  BY <1>8 DEF ScanFlag, Goto, NoConsumers, Permits
<1>9. CASE ScanHead(p)
  <2>1. active[idx[p]] /\ idx[p] \in Seats
    BY <1>9, SeatNumbers DEF ScanHead, Sighted, ScanIndex
  <2>2. head[idx[p]] = tail /\ tail \in Nat /\ cur[p] <= tail
    BY <2>1 DEF Drained, CursorInv, RingTypes
  <2>3. Permits(tail, cur[p])
    BY <2>2 DEF Permits, NoConsumers
  <2>4. cur'[p] = cur[p] /\ (low'[p] = tail \/ (low'[p] = low[p] /\ low[p] # NoConsumers))
    BY <1>9, <2>2 DEF ScanHead
  <2> QED  BY <1>9, <2>3, <2>4 DEF ScanHead, Permits, NoConsumers
<1>10. CASE Refresh(p)
  BY <1>10 DEF Refresh, Goto, ResetScan, Permitted, Return, ClaimFailed, Refused, NoConsumers, Permits
<1>11. CASE CheckOccupant(p)
  BY <1>11 DEF CheckOccupant, Goto, ClaimFailed, Return, NoConsumers, Permits
<1>12. CASE Claim(p)
  BY <1>12 DEF Claim, Goto, NoConsumers, Permits
<1>13. CASE LoseClaim(p)
  BY <1>13 DEF LoseClaim, Goto, NoConsumers, Permits
<1>14. CASE Mark(p)
  BY <1>14 DEF Mark, Goto, NoConsumers, Permits
<1>15. CASE Publish(p)
  BY <1>15 DEF Publish, Goto, Return, NoConsumers, Permits
<1>16. CASE Abandon(p)
  BY <1>16 DEF Abandon, Goto, NoConsumers, Permits
<1>17. CASE WakeAfterAbandon(p)
  BY <1>17 DEF WakeAfterAbandon, Goto, Return, WakeOne, NoConsumers, Permits
<1>18. CASE Arm(p)
  BY <1>18 DEF Arm, Goto, NoConsumers, Permits
<1>19. CASE Unpark(p)
  BY <1>19 DEF Unpark, Goto, NoConsumers, Permits
<1>20. CASE Disarm(p)
  BY <1>20 DEF Disarm, Goto, Return, NoConsumers, Permits
<1> QED
  BY <1>1, <1>2, <1>3, <1>4, <1>5, <1>6, <1>7, <1>8, <1>9, <1>10, <1>11, <1>12, <1>13, <1>14, <1>15, <1>16, <1>17, <1>18, <1>19, <1>20 DEF ProducerStep

-----------------------------------------------------------------------------
(* Who is armed, and what it sees.                                         *)

(* A step of a consumer, or none at all.                                   *)
Outside == (\E s \in Seats : ConsumerStep(s)) \/ FlushProducers \/ UNCHANGED vars

LEMMA WhoSteps ==
  ASSUME [Next]_vars
  PROVE  (\E p \in Producers : ProducerStep(p)) \/ Outside
BY DEF Next, Outside

LEMMA OutsideFrame ==
  ASSUME Outside
  PROVE  /\ UNCHANGED <<tail, word, pc, stage, call, cur, idx, low>>
         /\ WakeOne \/ Flush \/ UNCHANGED park
         /\ slips \subseteq slips'
<1> DEFINE G == /\ UNCHANGED <<tail, word, pc, stage, call, cur, idx, low>>
                /\ WakeOne \/ Flush \/ UNCHANGED park
                /\ slips \subseteq slips'
<1> USE DEF producers, scanning, vars, park
<1>1. ASSUME NEW s \in Seats, Classify(s) PROVE G
  BY <1>1 DEF Classify, GotoC
<1>2. ASSUME NEW s \in Seats, AdvanceHead(s) PROVE G
  BY <1>2 DEF AdvanceHead, GotoC
<1>3. ASSUME NEW s \in Seats, WakeProducer(s) PROVE G
  BY <1>3 DEF WakeProducer, GotoC
<1>4. ASSUME NEW s \in Seats, CloneAt(s) PROVE G
  BY <1>4 DEF CloneAt, GotoC
<1>5. ASSUME NEW s \in Seats, TrySeat(s) PROVE G
  BY <1>5 DEF TrySeat, GotoC, EndClone
<1>6. ASSUME NEW s \in Seats, Subscribe(s) PROVE G
  BY <1>6 DEF Subscribe, EndClone
<1>7. ASSUME NEW s \in Seats, Unsubscribe(s) PROVE G
  BY <1>7 DEF Unsubscribe, GotoC
<1>8. CASE FlushProducers
  BY <1>8 DEF FlushProducers, Flush
<1>9. CASE UNCHANGED vars
  BY <1>9
<1> QED
  BY <1>1, <1>2, <1>3, <1>4, <1>5, <1>6, <1>7, <1>8, <1>9 DEF Outside, ConsumerStep

(* A producer that has armed and not left its wait.                        *)
Armed(p) == pc[p] = "parked" \/ stage[p] \in {"armed", "recheck"}

(* Who is armed is in the bitmap or has been woken.                        *)
BitsOk(p) ==
  /\ p \in bits => Armed(p) \/ pc[p] = "disarm"
  /\ Armed(p) => p \in bits \cup tokens

BitsInv == \A p \in Producers : BitsOk(p)

LEMMA OwnBits ==
  ASSUME TypeOK, NEW p \in Producers, StageOk(p), BitsOk(p), ProducerStep(p)
  PROVE  BitsOk(p)'
<1> USE DEF TypeOK, CallTypes, StageOk, BitsOk, Armed, producers, park
<1>1. CASE Call(p)
  BY <1>1 DEF Call, Goto
<1>2. CASE LoadTail(p)
  BY <1>2 DEF LoadTail, Goto
<1>3. CASE LookPast(p)
  BY <1>3 DEF LookPast, Goto
<1>4. CASE SomebodyIsThere(p)
  BY <1>4 DEF SomebodyIsThere, Goto, ResetScan
<1>5. CASE NobodyIsThere(p)
  BY <1>5 DEF NobodyIsThere, Goto, ResetScan, Return
<1>6. CASE AskPrivate(p)
  BY <1>6 DEF AskPrivate, Goto, ResetScan, Permitted
<1>7. CASE AskShared(p)
  BY <1>7 DEF AskShared, Goto, ResetScan, Permitted
<1>8. CASE ScanFlag(p)
  BY <1>8 DEF ScanFlag, Goto
<1>9. CASE ScanHead(p)
  BY <1>9 DEF ScanHead, Goto
<1>10. CASE Refresh(p)
  BY <1>10 DEF Refresh, Goto, ResetScan, Permitted, Return, ClaimFailed, Refused
<1>11. CASE CheckOccupant(p)
  BY <1>11 DEF CheckOccupant, Goto, ClaimFailed, Return
<1>12. CASE Claim(p)
  BY <1>12 DEF Claim, Goto
<1>13. CASE LoseClaim(p)
  BY <1>13 DEF LoseClaim, Goto
<1>14. CASE Mark(p)
  BY <1>14 DEF Mark, Goto
<1>15. CASE Publish(p)
  BY <1>15 DEF Publish, Goto, Return
<1>16. CASE Abandon(p)
  BY <1>16 DEF Abandon, Goto
<1>17. CASE WakeAfterAbandon(p)
  <2>1. p \notin bits
    BY <1>17 DEF WakeAfterAbandon
  <2>2. p \notin bits' /\ ~Armed(p)'
    BY <1>17, <2>1, WakeMoves DEF WakeAfterAbandon, Return, Goto
  <2> QED  BY <2>2
<1>18. CASE Arm(p)
  BY <1>18 DEF Arm, Goto
<1>19. CASE Unpark(p)
  BY <1>19 DEF Unpark, Goto
<1>20. CASE Disarm(p)
  BY <1>20 DEF Disarm, Goto, Return
<1> QED
  BY <1>1, <1>2, <1>3, <1>4, <1>5, <1>6, <1>7, <1>8, <1>9, <1>10, <1>11, <1>12, <1>13, <1>14, <1>15, <1>16, <1>17, <1>18, <1>19, <1>20 DEF ProducerStep

LEMMA BitsStep ==
  ASSUME TypeOK, StageInv, BitsInv, [Next]_vars
  PROVE  StageInv' /\ BitsInv'
<1> SUFFICES ASSUME NEW q \in Producers PROVE StageOk(q)' /\ ResetOk(q)' /\ BitsOk(q)'
  BY DEF StageInv, BitsInv
<1>1. ASSUME NEW p \in Producers, ProducerStep(p), p # q PROVE StageOk(q)' /\ ResetOk(q)' /\ BitsOk(q)'
  <2>1. Same(q)
    BY <1>1, OthersStay
  <2>2. /\ q \in bits' => q \in bits
        /\ q \in bits \cup tokens => q \in bits' \cup tokens'
    BY <1>1, OthersPark
  <2> QED  BY <2>1, <2>2 DEF Same, StageInv, StageOk, ResetOk, BitsInv, BitsOk, Armed
<1>2. CASE Outside
  <2>1. UNCHANGED <<pc, stage, idx, low>>
    BY <1>2, OutsideFrame
  <2>2. bits' \subseteq bits /\ bits \cup tokens \subseteq bits' \cup tokens'
    BY <1>2, OutsideFrame, WakeMoves
  <2> QED  BY <2>1, <2>2 DEF StageInv, StageOk, ResetOk, BitsInv, BitsOk, Armed
<1> QED  BY <1>1, <1>2, WhoSteps, OwnStage, OwnBits DEF StageInv, BitsInv

(* With nobody subscribed and every drop flushed, nobody in the bitmap     *)
(* gets further than its look at the registry.                             *)
NobodyInv ==
  ~SomeActive /\ departing = 0 => \A p \in bits : stage[p] = "armed" \/ pc[p] = "disarm"

(* A consumer's step changes neither flags nor departures, or one of them  *)
(* so that a subscriber is left or a flush to come.                        *)
LEMMA OutsideFlags ==
  ASSUME TypeOK, SeatInv, Outside
  PROVE  \/ UNCHANGED <<active, departing>>
         \/ SomeActive /\ departing' = departing /\ \A s \in Seats : active[s] => active'[s]
         \/ departing' > 0
         \/ bits' = {} /\ UNCHANGED active
<1> USE DEF TypeOK, RingTypes, ConsumerTypes, registry, vars, consumers
<1> DEFINE G == \/ UNCHANGED <<active, departing>>
                \/ SomeActive /\ departing' = departing /\ \A s \in Seats : active[s] => active'[s]
                \/ departing' > 0
                \/ bits' = {} /\ UNCHANGED active
<1>1. ASSUME NEW s \in Seats, Classify(s) PROVE G
  BY <1>1 DEF Classify, GotoC
<1>2. ASSUME NEW s \in Seats, AdvanceHead(s) PROVE G
  BY <1>2 DEF AdvanceHead, GotoC
<1>3. ASSUME NEW s \in Seats, WakeProducer(s) PROVE G
  BY <1>3 DEF WakeProducer, GotoC
<1>4. ASSUME NEW s \in Seats, CloneAt(s) PROVE G
  BY <1>4 DEF CloneAt, GotoC
<1>5. ASSUME NEW s \in Seats, TrySeat(s) PROVE G
  <2>1. SomeActive /\ departing' = departing
    BY <1>5 DEF TrySeat, SomeActive, SeatInv
  <2>2. \A r \in Seats : active[r] => active'[r]
    BY <1>5 DEF TrySeat, EndClone
  <2> QED  BY <2>1, <2>2
<1>6. ASSUME NEW s \in Seats, Subscribe(s) PROVE G
  BY <1>6 DEF Subscribe, EndClone
<1>7. ASSUME NEW s \in Seats, Unsubscribe(s) PROVE G
  BY <1>7 DEF Unsubscribe, GotoC
<1>8. CASE FlushProducers
  BY <1>8 DEF FlushProducers, Flush
<1>9. CASE UNCHANGED vars
  BY <1>9
<1> QED
  BY <1>1, <1>2, <1>3, <1>4, <1>5, <1>6, <1>7, <1>8, <1>9 DEF Outside, ConsumerStep

LEMMA OwnNobody ==
  ASSUME TypeOK, NEW p \in Producers, StageOk(p), ResetOk(p), ~SomeActive,
         p \in bits => stage[p] = "armed" \/ pc[p] = "disarm", ProducerStep(p), p \in bits'
  PROVE  stage'[p] = "armed" \/ pc'[p] = "disarm"
<1>0. pc[p] = "look" => ~active[idx[p]]
  BY SeatNumbers DEF TypeOK, ScanTypes, ResetOk, SomeActive
<1> USE DEF TypeOK, CallTypes, StageOk, producers, park
<1>1. CASE Call(p)
  BY <1>1, <1>0 DEF Call, Goto
<1>2. CASE LoadTail(p)
  BY <1>2, <1>0 DEF LoadTail, Goto
<1>3. CASE LookPast(p)
  BY <1>3, <1>0 DEF LookPast, Goto
<1>4. CASE SomebodyIsThere(p)
  BY <1>4, <1>0 DEF SomebodyIsThere, Goto, ResetScan
<1>5. CASE NobodyIsThere(p)
  BY <1>5, <1>0 DEF NobodyIsThere, Goto, ResetScan, Return
<1>6. CASE AskPrivate(p)
  BY <1>6, <1>0 DEF AskPrivate, Goto, ResetScan, Permitted
<1>7. CASE AskShared(p)
  BY <1>7, <1>0 DEF AskShared, Goto, ResetScan, Permitted
<1>8. CASE ScanFlag(p)
  BY <1>8, <1>0 DEF ScanFlag, Goto
<1>9. CASE ScanHead(p)
  BY <1>9, <1>0 DEF ScanHead, Goto
<1>10. CASE Refresh(p)
  BY <1>10, <1>0 DEF Refresh, Goto, ResetScan, Permitted, Return, ClaimFailed, Refused
<1>11. CASE CheckOccupant(p)
  BY <1>11, <1>0 DEF CheckOccupant, Goto, ClaimFailed, Return
<1>12. CASE Claim(p)
  BY <1>12, <1>0 DEF Claim, Goto
<1>13. CASE LoseClaim(p)
  BY <1>13, <1>0 DEF LoseClaim, Goto
<1>14. CASE Mark(p)
  BY <1>14, <1>0 DEF Mark, Goto
<1>15. CASE Publish(p)
  BY <1>15, <1>0 DEF Publish, Goto, Return
<1>16. CASE Abandon(p)
  BY <1>16, <1>0 DEF Abandon, Goto
<1>17. CASE WakeAfterAbandon(p)
  BY <1>17, WakeMoves DEF WakeAfterAbandon
<1>18. CASE Arm(p)
  BY <1>18, <1>0 DEF Arm, Goto
<1>19. CASE Unpark(p)
  BY <1>19, <1>0 DEF Unpark, Goto
<1>20. CASE Disarm(p)
  BY <1>20, <1>0 DEF Disarm, Goto, Return
<1> QED
  BY <1>1, <1>2, <1>3, <1>4, <1>5, <1>6, <1>7, <1>8, <1>9, <1>10, <1>11, <1>12, <1>13, <1>14, <1>15, <1>16, <1>17, <1>18, <1>19, <1>20 DEF ProducerStep

LEMMA NobodyStep ==
  ASSUME TypeOK, SeatInv, StageInv, NobodyInv, [Next]_vars
  PROVE  NobodyInv'
<1> SUFFICES ASSUME ~SomeActive', departing' = 0, NEW q \in bits'
             PROVE  stage'[q] = "armed" \/ pc'[q] = "disarm"
  BY DEF NobodyInv
<1>0. q \in Producers
  BY RingTypesStep DEF RingTypes
<1>1. ASSUME NEW p \in Producers, ProducerStep(p) PROVE stage'[q] = "armed" \/ pc'[q] = "disarm"
  <2>1. UNCHANGED <<active, departing>>
    BY <1>1, OthersStay
  <2>2. ~SomeActive /\ departing = 0
    BY <2>1 DEF SomeActive
  <2>3. CASE q = p
    BY <1>1, <2>2, <2>3, OwnNobody DEF NobodyInv, StageInv
  <2>4. CASE q # p
    BY <1>0, <1>1, <2>2, <2>4, OthersStay, OthersPark DEF NobodyInv, Same
  <2> QED  BY <2>3, <2>4
<1>2. CASE Outside
  <2>1. UNCHANGED <<pc, stage>> /\ bits' \subseteq bits
    BY <1>2, OutsideFrame, WakeMoves
  <2>2. UNCHANGED <<active, departing>>
    BY <1>2, OutsideFlags DEF SomeActive
  <2> QED  BY <2>1, <2>2 DEF NobodyInv, SomeActive
<1> QED  BY <1>1, <1>2, WhoSteps

(* With every drop flushed, nobody in the bitmap misses the subscribers.   *)
SightInv ==
  SomeActive /\ departing = 0 =>
    \A p \in bits : Sighted(p) /\ ~(pc[p] = "disarm" /\ stage[p] = "leave")

LEMMA OwnSighted ==
  ASSUME TypeOK, ScanIndex, NEW p \in Producers, StageOk(p), ResetOk(p), SomeActive,
         p \in bits => Sighted(p), ProducerStep(p), p \in bits'
  PROVE  Sighted(p) /\ Sighted(p)' /\ ~(pc'[p] = "disarm" /\ stage'[p] = "leave")
<1>1. p \in bits \/ Arm(p)
  BY WakeMoves DEF ProducerStep, Call, LoadTail, LookPast, SomebodyIsThere, NobodyIsThere, AskPrivate,
     AskShared, ScanFlag, ScanHead, Refresh, CheckOccupant, Claim, LoseClaim, Mark, Publish, Abandon,
     WakeAfterAbandon, Unpark, Disarm, park
<1>2. Sighted(p)
  BY <1>1 DEF Arm, Sighted
<1>3. Sighted(p)' /\ ~NobodyIsThere(p)
  BY <1>2, OwnSight
<1>4. ~(pc'[p] = "disarm" /\ stage'[p] = "leave")
  <2> SUFFICES ASSUME pc'[p] = "disarm", stage'[p] = "leave" PROVE FALSE
    OBVIOUS
  <2> USE DEF TypeOK, CallTypes
  <2>1. CASE Call(p)
    BY <2>1 DEF Call, Goto, producers
  <2>2. CASE LoadTail(p)
    BY <2>2 DEF LoadTail, Goto, producers
  <2>3. CASE LookPast(p)
    BY <2>3 DEF LookPast, Goto, producers
  <2>4. CASE SomebodyIsThere(p)
    BY <2>4 DEF SomebodyIsThere, Goto, ResetScan, producers
  <2>5. CASE NobodyIsThere(p)
    BY <1>3, <2>5
  <2>6. CASE AskPrivate(p)
    BY <2>6 DEF AskPrivate, Goto, ResetScan, Permitted, producers
  <2>7. CASE AskShared(p)
    BY <2>7 DEF AskShared, Goto, ResetScan, Permitted, producers
  <2>8. CASE ScanFlag(p)
    BY <2>8 DEF ScanFlag, Goto, producers
  <2>9. CASE ScanHead(p)
    BY <2>9 DEF ScanHead, Goto, producers
  <2>10. CASE Refresh(p)
    BY <2>10 DEF Refresh, Goto, ResetScan, Permitted, Return, ClaimFailed, Refused, producers
  <2>11. CASE CheckOccupant(p)
    BY <2>11 DEF CheckOccupant, Goto, ClaimFailed, Return, producers
  <2>12. CASE Claim(p)
    BY <2>12 DEF Claim, Goto, producers
  <2>13. CASE LoseClaim(p)
    BY <2>13 DEF LoseClaim, Goto, producers
  <2>14. CASE Mark(p)
    BY <2>14 DEF Mark, Goto, producers
  <2>15. CASE Publish(p)
    BY <2>15 DEF Publish, Goto, Return, producers
  <2>16. CASE Abandon(p)
    BY <2>16 DEF Abandon, Goto, producers
  <2>17. CASE WakeAfterAbandon(p)
    BY <2>17 DEF WakeAfterAbandon, Goto, Return, WakeOne, producers
  <2>18. CASE Arm(p)
    BY <2>18 DEF Arm, Goto, producers
  <2>19. CASE Unpark(p)
    BY <2>19 DEF Unpark, Goto, producers
  <2>20. CASE Disarm(p)
    BY <2>20 DEF Disarm, Goto, Return, producers
  <2> QED
    BY <2>1, <2>2, <2>3, <2>4, <2>5, <2>6, <2>7, <2>8, <2>9, <2>10, <2>11, <2>12, <2>13, <2>14, <2>15, <2>16, <2>17, <2>18, <2>19, <2>20 DEF ProducerStep
<1> QED  BY <1>2, <1>3, <1>4

LEMMA SightStep ==
  ASSUME TypeOK, ScanIndex, SeatInv, StageInv, SightInv, [Next]_vars
  PROVE  SightInv'
<1> SUFFICES ASSUME SomeActive', departing' = 0, NEW q \in bits'
             PROVE  Sighted(q)' /\ ~(pc'[q] = "disarm" /\ stage'[q] = "leave")
  BY DEF SightInv
<1>0. q \in Producers
  BY RingTypesStep DEF RingTypes
<1>1. ASSUME NEW p \in Producers, ProducerStep(p)
      PROVE  Sighted(q)' /\ ~(pc'[q] = "disarm" /\ stage'[q] = "leave")
  <2>1. UNCHANGED <<active, departing>>
    BY <1>1, OthersStay
  <2>2. SomeActive /\ departing = 0
    BY <2>1 DEF SomeActive
  <2>3. CASE q = p
    BY <1>1, <2>2, <2>3, OwnSighted DEF SightInv, StageInv
  <2>4. CASE q # p
    <3>1. Same(q) /\ q \in bits
      BY <1>0, <1>1, <2>4, OthersStay, OthersPark
    <3> QED  BY <2>1, <2>2, <3>1 DEF SightInv, Same, Sighted, Ahead
  <2> QED  BY <2>3, <2>4
<1>2. CASE Outside
  <2>1. UNCHANGED <<pc, stage, idx, low>> /\ q \in bits
    BY <1>2, OutsideFrame, WakeMoves
  <2>2. SomeActive /\ departing = 0 /\ \A s \in Seats : active[s] => active'[s]
    BY <1>2, OutsideFlags DEF SomeActive
  <2>3. pc[q] = "head" => idx[q] \in Seats
    BY <1>0, SeatNumbers DEF ScanIndex, TypeOK, ScanTypes
  <2> QED  BY <2>1, <2>2, <2>3 DEF SightInv, Sighted, Ahead
<1> QED  BY <1>1, <1>2, WhoSteps

-----------------------------------------------------------------------------
(* What readers have seen resolved.                                        *)

(* A resolved position of the last lap stays resolved until its holder, of *)
(* which there is none, marks it, or its slot is claimed again.            *)
LEMMA StaysTaken ==
  ASSUME TypeOK, CursorInv, AloneInv, NEW p \in Producers, ProducerStep(p),
         NEW pos \in Nat, pos < tail, tail <= pos + Capacity, word[Slot(pos)] # Vacant,
         ~(pc[p] = "mark" /\ cur[p] = pos)
  PROVE  word'[Slot(pos)] # Vacant
<1>0. word \in [Slots -> Nat] /\ Slot(pos) \in Slots
  BY SlotTypes DEF TypeOK, RingTypes
<1>1. CASE Mark(p)
  <2>1. Holds(p) /\ cur[p] \in Nat /\ cur[p] # pos
    BY <1>1 DEF Mark, Holds, TypeOK, CallTypes
  <2>2. cur[p] < tail /\ tail <= cur[p] + Capacity
    BY <2>1 DEF CursorInv, AloneInv
  <2>3. tail \in Nat /\ Capacity \in Nat
    BY CapacityAssumption DEF TypeOK, RingTypes
  <2>4. pos < cur[p] + Capacity /\ cur[p] < pos + Capacity
    BY <2>1, <2>2, <2>3
  <2>5. pos < cur[p] \/ cur[p] < pos
    BY <2>1
  <2>6. Slot(cur[p]) # Slot(pos)
    BY <2>1, <2>4, <2>5, SlotInjective
  <2> QED  BY <1>0, <1>1, <2>6 DEF Mark
<1>2. CASE Publish(p) \/ Abandon(p)
  <2>1. \E w \in Nat : w # Vacant /\ word' = [word EXCEPT ![Slot(cur[p])] = w]
    BY <1>2 DEF Publish, Abandon, PublishedWord, AbandonedWord, Vacant, TypeOK, CallTypes
  <2> QED  BY <1>0, <2>1
<1>3. CASE ~(Mark(p) \/ Publish(p) \/ Abandon(p))
  BY <1>3 DEF ProducerStep, Call, LoadTail, LookPast, SomebodyIsThere, NobodyIsThere, AskPrivate,
     AskShared, ScanFlag, ScanHead, Refresh, CheckOccupant, Claim, LoseClaim, WakeAfterAbandon, Arm,
     Unpark, Disarm
<1> QED  BY <1>1, <1>2, <1>3

(* No step but a claim moves the tail.                                     *)
LEMMA TailMoves ==
  ASSUME NEW p \in Producers, ProducerStep(p)
  PROVE  tail' = tail \/ (pc[p] = "cas" /\ cur[p] = tail /\ tail' = tail + 1)
BY DEF ProducerStep, Call, LoadTail, LookPast, SomebodyIsThere, NobodyIsThere, AskPrivate,
   AskShared, ScanFlag, ScanHead, Refresh, CheckOccupant, Claim, LoseClaim, Mark, Publish, Abandon,
   WakeAfterAbandon, Arm, Unpark, Disarm

(* What a reader has classified stays resolved for as long as its slot is  *)
(* not the next lap's.                                                     *)
ClassifiedInv ==
  \A s \in Seats :
    cpc[s] \in {"reading", "skipping"} /\ tail <= head[s] + Capacity => word[Slot(head[s])] # Vacant

LEMMA ClassifiedStep ==
  ASSUME TypeOK, CursorInv, ClaimInv, AloneInv, ClassifiedInv, [Next]_vars
  PROVE  ClassifiedInv'
<1> SUFFICES ASSUME NEW r \in Seats, cpc'[r] \in {"reading", "skipping"},
                    tail' <= head'[r] + Capacity
             PROVE  word'[Slot(head'[r])] # Vacant
  BY DEF ClassifiedInv
<1>1. ASSUME NEW p \in Producers, ProducerStep(p) PROVE word'[Slot(head'[r])] # Vacant
  <2>1. UNCHANGED <<head, cpc>>
    BY <1>1, OthersStay
  <2>2. head[r] \in Nat /\ tail \in Nat /\ tail <= head[r] + Capacity
    BY <1>1, <2>1, TailMoves, CapacityAssumption DEF TypeOK, RingTypes
  <2>3. head[r] < tail /\ ~(pc[p] = "mark" /\ cur[p] = head[r])
    BY <2>1 DEF ClaimInv, Holds
  <2>4. word[Slot(head[r])] # Vacant
    BY <2>1, <2>2 DEF ClassifiedInv
  <2> QED  BY <1>1, <2>1, <2>2, <2>3, <2>4, StaysTaken
<1>2. CASE Outside
  <2>1. UNCHANGED <<tail, word>>
    BY <1>2, OutsideFrame
  <2>2. \/ cpc'[r] = cpc[r] /\ head'[r] = head[r]
        \/ Classify(r)
    <3> USE DEF TypeOK, RingTypes, ConsumerTypes, registry, consumers, vars
    <3>1. ASSUME NEW s \in Seats, Classify(s) PROVE (cpc'[r] = cpc[r] /\ head'[r] = head[r]) \/ Classify(r)
      BY <3>1 DEF Classify, GotoC
    <3>2. ASSUME NEW s \in Seats, AdvanceHead(s) PROVE cpc'[r] = cpc[r] /\ head'[r] = head[r]
      BY <3>2 DEF AdvanceHead, GotoC
    <3>3. ASSUME NEW s \in Seats, WakeProducer(s) PROVE cpc'[r] = cpc[r] /\ head'[r] = head[r]
      BY <3>3 DEF WakeProducer, GotoC
    <3>4. ASSUME NEW s \in Seats, CloneAt(s) PROVE cpc'[r] = cpc[r] /\ head'[r] = head[r]
      BY <3>4 DEF CloneAt, GotoC
    <3>5. ASSUME NEW s \in Seats, TrySeat(s) PROVE cpc'[r] = cpc[r] /\ head'[r] = head[r]
      BY <3>5 DEF TrySeat, GotoC
    <3>6. ASSUME NEW s \in Seats, Subscribe(s) PROVE cpc'[r] = cpc[r] /\ head'[r] = head[r]
      BY <3>6 DEF Subscribe
    <3>7. ASSUME NEW s \in Seats, Unsubscribe(s) PROVE cpc'[r] = cpc[r] /\ head'[r] = head[r]
      BY <3>7 DEF Unsubscribe, GotoC
    <3>8. ASSUME FlushProducers \/ UNCHANGED vars PROVE cpc'[r] = cpc[r] /\ head'[r] = head[r]
      BY <3>8 DEF FlushProducers
    <3> QED
      BY <1>2, <3>1, <3>2, <3>3, <3>4, <3>5, <3>6, <3>7, <3>8 DEF Outside, ConsumerStep
  <2> QED
    BY <2>1, <2>2
       DEF ClassifiedInv, Classify, PublishedWord, AbandonedWord, Vacant, registry, TypeOK, RingTypes
<1> QED  BY <1>1, <1>2, WhoSteps

(* A subscriber that was a lap behind, and all of whose reads since then   *)
(* were of resolved positions.                                             *)
ReadOn(s) ==
  \A pos \in Nat : tail <= pos + Capacity /\ pos < head[s] => word[Slot(pos)] # Vacant

LEMMA OwnReadOn ==
  ASSUME TypeOK, CursorInv, UnmarkedInv, AloneInv, NEW p \in Producers, ProducerStep(p),
         NEW s \in Seats, ReadOn(s)
  PROVE  ReadOn(s)'
<1> SUFFICES ASSUME NEW pos \in Nat, tail' <= pos + Capacity, pos < head'[s]
             PROVE  word'[Slot(pos)] # Vacant
  BY DEF ReadOn
<1>1. UNCHANGED head
  BY OthersStay
<1>2. tail \in Nat /\ tail <= tail' /\ head[s] \in Nat /\ head[s] <= tail
  BY TailMoves DEF TypeOK, RingTypes, CursorInv
<1>3. tail <= pos + Capacity /\ pos < tail /\ pos < head[s]
  BY <1>1, <1>2, TailMoves, CapacityAssumption
<1>4. ~(pc[p] = "mark" /\ cur[p] = pos)
  BY <1>2, <1>3 DEF UnmarkedInv
<1> QED  BY <1>3, <1>4, StaysTaken DEF ReadOn

(* Only a claimant's child can be moved up by anything but a read.         *)
LEMMA OutsideReadOn ==
  ASSUME TypeOK, SeatInv, ClassifiedInv, Outside, "wake" \notin slips', departing' = 0, bits' # {},
         NEW s \in Seats, active[s], ReadOn(s)
  PROVE  active'[s] /\ ReadOn(s)'
<1>0. UNCHANGED <<tail, word>> /\ bits # {}
  BY OutsideFrame, WakeMoves
<1>1. ASSUME active'[s], head'[s] <= head[s] PROVE active'[s] /\ ReadOn(s)'
  <2>1. head'[s] \in Nat /\ head[s] \in Nat
    BY RingTypesStep DEF TypeOK, RingTypes, Outside, Next
  <2> QED  BY <1>0, <1>1, <2>1 DEF ReadOn
<1> USE DEF TypeOK, RingTypes, ConsumerTypes, registry, consumers, vars, park
<1>2. ASSUME NEW r \in Seats, AdvanceHead(r) PROVE active'[s] /\ ReadOn(s)'
  <2>1. CASE r # s
    BY <1>1, <1>2, <2>1 DEF AdvanceHead
  <2>2. CASE r = s
    <3>1. active'[s] /\ head'[s] = head[s] + 1 /\ cpc[s] \in {"reading", "skipping"}
      BY <1>2, <2>2 DEF AdvanceHead
    <3>2. \A pos \in Nat : pos < head[s] + 1 => pos < head[s] \/ pos = head[s]
      OBVIOUS
    <3> QED  BY <1>0, <3>1, <3>2 DEF ReadOn, ClassifiedInv
  <2> QED  BY <2>1, <2>2
<1>3. ASSUME NEW r \in Seats, Subscribe(r) PROVE active'[s] /\ ReadOn(s)'
  <2>1. ~(head[trying[r]] < joinAt[r])
    BY <1>0, <1>3 DEF Subscribe
  <2>2. CASE s = trying[r]
    BY <1>1, <1>3, <2>1, <2>2 DEF Subscribe
  <2>3. CASE s # trying[r]
    BY <1>1, <1>3, <2>3 DEF Subscribe
  <2> QED  BY <2>2, <2>3
<1>4. ASSUME NEW r \in Seats, TrySeat(r) PROVE active'[s] /\ ReadOn(s)'
  BY <1>1, <1>4 DEF TrySeat, EndClone
<1>5. ASSUME NEW r \in Seats, Classify(r) \/ WakeProducer(r) \/ CloneAt(r) \/ Unsubscribe(r)
      PROVE  active'[s] /\ ReadOn(s)'
  BY <1>1, <1>5 DEF Classify, WakeProducer, CloneAt, Unsubscribe
<1>6. CASE FlushProducers \/ UNCHANGED vars
  BY <1>1, <1>6 DEF FlushProducers
<1> QED  BY <1>2, <1>3, <1>4, <1>5, <1>6 DEF Outside, ConsumerStep

Doomed(p) == pc[p] = "parked" \/ (stage[p] = "recheck" /\ Blocked(p))

SomebodyDoomed == \E p \in bits : Doomed(p)

(* A producer that goes to sleep saw somebody a lap behind.                *)
LEMMA OwnDoom ==
  ASSUME TypeOK, ScanIndex, NEW p \in Producers, StageOk(p), ResetOk(p), Sighted(p), ProducerStep(p),
         Doomed(p)'
  PROVE  Doomed(p) \/ (pc[p] = "head" /\ ~Permits(head[idx[p]], cur[p]))
<1> USE DEF TypeOK, ScanTypes, CallTypes, StageOk, ResetOk, producers, scanning, Doomed, Blocked
<1>1. CASE Call(p)
  BY <1>1 DEF Call, Goto
<1>2. CASE LoadTail(p)
  BY <1>2 DEF LoadTail, Goto
<1>3. CASE LookPast(p)
  BY <1>3 DEF LookPast, Goto
<1>4. CASE SomebodyIsThere(p)
  BY <1>4 DEF SomebodyIsThere, Goto, ResetScan
<1>5. CASE NobodyIsThere(p)
  BY <1>5 DEF NobodyIsThere, Goto, ResetScan, Return
<1>6. CASE AskPrivate(p)
  BY <1>6 DEF AskPrivate, Goto, ResetScan, Permitted
<1>7. CASE AskShared(p)
  BY <1>7 DEF AskShared, Goto, ResetScan, Permitted
<1>8. CASE ScanFlag(p)
  BY <1>8 DEF ScanFlag, Goto
<1>9. CASE ScanHead(p)
  <2>1. (low'[p] = low[p] /\ low[p] # NoConsumers) \/ low'[p] = head[idx[p]]
    BY <1>9 DEF ScanHead
  <2>2. cur'[p] = cur[p] /\ stage'[p] = stage[p] /\ pc[p] = "head" /\ pc'[p] = "scan"
    BY <1>9 DEF ScanHead, Goto
  <2> QED  BY <2>1, <2>2 DEF Permits, NoConsumers
<1>10. CASE Refresh(p)
  <2>1. CASE Permits(low[p], cur[p])
    BY <1>10, <2>1 DEF Refresh, Permitted, Goto, ResetScan
  <2>2. CASE ~Permits(low[p], cur[p])
    <3>1. Refused(p) /\ Blocked(p)
      BY <1>10, <2>2, SightedScan DEF Refresh
    <3> QED  BY <1>10, <3>1 DEF Refresh, Refused, ClaimFailed, Return, Goto, ResetScan
  <2> QED  BY <2>1, <2>2
<1>11. CASE CheckOccupant(p)
  BY <1>11 DEF CheckOccupant, Goto, ClaimFailed, Return
<1>12. CASE Claim(p)
  BY <1>12 DEF Claim, Goto
<1>13. CASE LoseClaim(p)
  BY <1>13 DEF LoseClaim, Goto
<1>14. CASE Mark(p)
  BY <1>14 DEF Mark, Goto
<1>15. CASE Publish(p)
  BY <1>15 DEF Publish, Goto, Return
<1>16. CASE Abandon(p)
  BY <1>16 DEF Abandon, Goto
<1>17. CASE WakeAfterAbandon(p)
  BY <1>17 DEF WakeAfterAbandon, Goto, Return, WakeOne
<1>18. CASE Arm(p)
  BY <1>18 DEF Arm, Goto
<1>19. CASE Unpark(p)
  BY <1>19 DEF Unpark, Goto
<1>20. CASE Disarm(p)
  BY <1>20 DEF Disarm, Goto, Return
<1> QED
  BY <1>1, <1>2, <1>3, <1>4, <1>5, <1>6, <1>7, <1>8, <1>9, <1>10, <1>11, <1>12, <1>13, <1>14, <1>15, <1>16, <1>17, <1>18, <1>19, <1>20 DEF ProducerStep

(* It has armed by then.                                                   *)
LEMMA DoomedIsArmed ==
  ASSUME NEW p \in Producers, StageOk(p), ProducerStep(p), Doomed(p) \/ pc[p] = "head", p \in bits'
  PROVE  p \in bits
<1>1. pc[p] # "arm" /\ pc[p] # "wake"
  BY DEF Doomed, StageOk
<1> QED
  BY <1>1 DEF ProducerStep, Call, LoadTail, LookPast, SomebodyIsThere, NobodyIsThere,
     AskPrivate, AskShared, ScanFlag, ScanHead, Refresh, CheckOccupant, Claim, LoseClaim, Mark,
     Publish, Abandon, WakeAfterAbandon, Arm, Unpark, Disarm, park

ExcuseInv ==
  SomeActive /\ departing = 0 /\ SomebodyDoomed => \E s \in Seats : active[s] /\ ReadOn(s)

LEMMA ExcuseStep ==
  ASSUME BaseInv, UnmarkedInv, AloneInv, StageInv, SightInv, ClassifiedInv, ExcuseInv,
         "wake" \notin slips', [Next]_vars
  PROVE  ExcuseInv'
<1> SUFFICES ASSUME SomeActive', departing' = 0, NEW q \in bits', Doomed(q)'
             PROVE  (\E s \in Seats : active[s] /\ ReadOn(s))'
  BY DEF ExcuseInv, SomebodyDoomed
<1> USE DEF BaseInv
<1>0. q \in Producers
  BY RingTypesStep DEF RingTypes
<1>1. ASSUME NEW p \in Producers, ProducerStep(p) PROVE (\E s \in Seats : active[s] /\ ReadOn(s))'
  <2>1. UNCHANGED <<active, head, departing>>
    BY <1>1, OthersStay
  <2>2. SomeActive /\ departing = 0
    BY <2>1 DEF SomeActive
  <2>3. ASSUME SomebodyDoomed PROVE (\E s \in Seats : active[s] /\ ReadOn(s))'
    BY <1>1, <2>1, <2>2, <2>3, OwnReadOn DEF ExcuseInv
  <2>4. CASE q # p
    <3>1. Same(q) /\ q \in bits
      BY <1>0, <1>1, <2>4, OthersStay, OthersPark
    <3>2. Doomed(q)
      BY <3>1 DEF Same, Doomed, Blocked, Permits
    <3> QED  BY <2>3, <3>1, <3>2 DEF SomebodyDoomed
  <2>5. CASE q = p
    <3>1. Sighted(p)
      BY <1>1, <2>2, <2>5, OwnSighted DEF SightInv, StageInv
    <3>2. Doomed(p) \/ (pc[p] = "head" /\ ~Permits(head[idx[p]], cur[p]))
      BY <1>1, <2>5, <3>1, OwnDoom DEF StageInv
    <3>3. p \in bits
      BY <1>1, <2>5, <3>2, DoomedIsArmed DEF StageInv
    <3>4. CASE pc[p] = "head" /\ ~Permits(head[idx[p]], cur[p])
      <4>1. idx[p] \in Seats /\ active[idx[p]]
        BY <3>1, <3>4, SeatNumbers DEF ScanIndex, TypeOK, ScanTypes, Sighted
      <4>2. head[idx[p]] + Capacity <= tail
        BY <3>4, <4>1, CapacityAssumption
           DEF Permits, CursorInv, TypeOK, RingTypes, CallTypes, NoConsumers
      <4>3. ReadOn(idx[p])
        BY <4>1, <4>2, CapacityAssumption DEF ReadOn, TypeOK, RingTypes
      <4> QED  BY <1>1, <2>1, <4>1, <4>3, OwnReadOn
    <3> QED  BY <2>3, <3>2, <3>3, <3>4 DEF SomebodyDoomed
  <2> QED  BY <2>4, <2>5
<1>2. CASE Outside
  <2>1. UNCHANGED <<pc, stage, low, cur>> /\ q \in bits
    BY <1>2, OutsideFrame, WakeMoves
  <2>2. Doomed(q)
    BY <2>1 DEF Doomed, Blocked, Permits
  <2>3. SomeActive /\ departing = 0
    BY <1>2, OutsideFlags DEF SomeActive
  <2>4. PICK s \in Seats : active[s] /\ ReadOn(s)
    BY <2>1, <2>2, <2>3 DEF ExcuseInv, SomebodyDoomed
  <2> QED  BY <1>2, <2>4, OutsideReadOn
<1> QED  BY <1>1, <1>2, WhoSteps

-----------------------------------------------------------------------------
(* Somebody is coming.                                                     *)

(* A producer that will claim or look at the ring once more.               *)
Coming(q) ==
  \/ q \in tokens /\ (pc[q] = "parked" \/ stage[q] = "recheck")
  \/ q \in tokens /\ stage[q] = "armed" /\ Sighted(q)
  \/ pc[q] = "disarm" /\ stage[q] # "leave"
  \/ pc[q] = "look" /\ stage[q] = "enter" /\ Sighted(q)
  \/ stage[q] = "gate" /\ Sighted(q) /\ ~Blocked(q)
  \/ /\ pc[q] \in {"look", "shared", "scan", "head", "word"} /\ stage[q] = "claim"
     /\ Sighted(q) /\ ~Blocked(q) /\ (cur[q] = tail \/ call[q] = "push_block")
  \/ pc[q] = "load" /\ stage[q] = "claim"
  \/ pc[q] = "cas"

(* A producer that is doomed to sleep on a drained ring leaves somebody to *)
(* wake it, or to use the room.                                            *)
ComingInv ==
  Drained /\ SomeActive /\ departing = 0 /\ SomebodyDoomed =>
    (\E s \in Seats : cpc[s] = "wake") \/ \E q \in Producers : Coming(q)

(* What a reader of the whole last lap has seen resolved frees the tail.   *)
LEMMA ReadFreesTail ==
  ASSUME TypeOK, Drained, NEW s \in Seats, active[s], ReadOn(s)
  PROVE  PriorOccupantResolved(tail)
<1>0. tail \in Nat /\ Capacity \in Nat \ {0} /\ head[s] = tail
  BY CapacityAssumption DEF TypeOK, RingTypes, Drained
<1> SUFFICES ASSUME ~(tail < Capacity) PROVE word[Slot(tail)] # Vacant
  BY DEF PriorOccupantResolved
<1> DEFINE pos == tail - Capacity
<1>1. pos \in Nat /\ pos + Capacity = tail /\ pos < head[s]
  BY <1>0
<1>2. Slot(tail) = Slot(pos)
  BY <1>1, SlotLap
<1> HIDE DEF pos
<1> QED  BY <1>0, <1>1, <1>2 DEF ReadOn

(* On a drained ring who is coming comes.                                  *)
(* On a drained ring who is coming comes.                                  *)
LEMMA OwnComing ==
  ASSUME TypeOK, ScanIndex, CursorInv, NEW p \in Producers, StageOk(p), ResetOk(p), SomeActive,
         Drained, PriorOccupantResolved(tail), Coming(p), ProducerStep(p), tail' = tail
  PROVE  Coming(p)'
<1>a. Sighted(p) => Sighted(p)' /\ ~NobodyIsThere(p)
  BY OwnSight
<1>b. Sighted(p) /\ ~Blocked(p) => ~Blocked(p)'
  BY OwnClear
<1>c. Sighted(p) /\ ~Blocked(p) /\ Refresh(p) => Permitted(p)
  BY SightedScan
<1>d. pc[p] \in {"load", "disarm", "cas", "word"} => Sighted(p) /\ ~Blocked(p)
  BY DEF Sighted, Blocked
<1>e. pc'[p] \notin {"scan", "head"} => ~Blocked(p)'
  BY DEF Blocked
<1> USE DEF TypeOK, RingTypes, CallTypes, StageOk, Coming, producers, park
<1>1. CASE Call(p)
  BY <1>1, <1>a, <1>b, <1>c, <1>d, <1>e DEF Call, Goto
<1>2. CASE LoadTail(p)
  BY <1>2, <1>a, <1>b, <1>c, <1>d, <1>e DEF LoadTail, Goto
<1>3. CASE LookPast(p)
  BY <1>3, <1>a, <1>b, <1>c, <1>d, <1>e DEF LookPast, Goto
<1>4. CASE SomebodyIsThere(p)
  BY <1>4, <1>a, <1>b, <1>c, <1>d, <1>e DEF SomebodyIsThere, Goto, ResetScan
<1>5. CASE NobodyIsThere(p)
  BY <1>5, <1>a, <1>b, <1>c, <1>d, <1>e DEF NobodyIsThere, Goto, ResetScan, Return
<1>6. CASE AskPrivate(p)
  BY <1>6, <1>a, <1>b, <1>c, <1>d, <1>e DEF AskPrivate, Goto, ResetScan, Permitted
<1>7. CASE AskShared(p)
  BY <1>7, <1>a, <1>b, <1>c, <1>d, <1>e DEF AskShared, Goto, ResetScan, Permitted
<1>8. CASE ScanFlag(p)
  BY <1>8, <1>a, <1>b, <1>c, <1>d, <1>e DEF ScanFlag, Goto
<1>9. CASE ScanHead(p)
  BY <1>9, <1>a, <1>b, <1>c, <1>d, <1>e DEF ScanHead, Goto
<1>10. CASE Refresh(p)
  BY <1>10, <1>a, <1>b, <1>c, <1>d, <1>e DEF Refresh, Goto, ResetScan, Permitted, Return, ClaimFailed, Refused
<1>11. CASE CheckOccupant(p)
  BY <1>11, <1>a, <1>b, <1>c, <1>d, <1>e DEF CheckOccupant, Goto, ClaimFailed, Return
<1>12. CASE Claim(p)
  BY <1>12, tail \in Nat DEF Claim
<1>13. CASE LoseClaim(p)
  BY <1>13, <1>a, <1>b, <1>c, <1>d, <1>e DEF LoseClaim, Goto
<1>14. CASE Mark(p)
  BY <1>14, <1>a, <1>b, <1>c, <1>d, <1>e DEF Mark, Goto
<1>15. CASE Publish(p)
  BY <1>15, <1>a, <1>b, <1>c, <1>d, <1>e DEF Publish, Goto, Return
<1>16. CASE Abandon(p)
  BY <1>16, <1>a, <1>b, <1>c, <1>d, <1>e DEF Abandon, Goto
<1>17. CASE WakeAfterAbandon(p)
  BY <1>17, <1>a, <1>b, <1>c, <1>d, <1>e DEF WakeAfterAbandon, Goto, Return, WakeOne
<1>18. CASE Arm(p)
  BY <1>18, <1>a, <1>b, <1>c, <1>d, <1>e DEF Arm, Goto
<1>19. CASE Unpark(p)
  BY <1>19, <1>a, <1>b, <1>c, <1>d, <1>e DEF Unpark, Goto
<1>20. CASE Disarm(p)
  BY <1>20, <1>a, <1>b, <1>c, <1>d, <1>e DEF Disarm, Goto, Return
<1> QED
  BY <1>1, <1>2, <1>3, <1>4, <1>5, <1>6, <1>7, <1>8, <1>9, <1>10, <1>11, <1>12, <1>13, <1>14, <1>15, <1>16, <1>17, <1>18, <1>19, <1>20 DEF ProducerStep

(* Who is woken comes.                                                     *)
LEMMA WokenComes ==
  ASSUME BitsInv, SightInv, SomeActive, departing = 0, NEW q \in Producers, q \in bits, q \in tokens',
         UNCHANGED <<pc, stage, idx, low>>, \A s \in Seats : active[s] => active'[s],
         pc[q] = "head" => idx[q] \in Seats
  PROVE  Coming(q)'
<1>1. Sighted(q) /\ ~(pc[q] = "disarm" /\ stage[q] = "leave")
  BY DEF SightInv
<1>2. Sighted(q)'
  BY <1>1 DEF Sighted, Ahead
<1>3. Armed(q) \/ pc[q] = "disarm"
  BY DEF BitsInv, BitsOk
<1> QED  BY <1>1, <1>2, <1>3 DEF Armed, Coming

(* Who is coming stays so whatever the consumers do, as long as nobody     *)
(* leaves.                                                                 *)
LEMMA OutsideComing ==
  ASSUME NEW q \in Producers, Coming(q), UNCHANGED <<tail, pc, stage, call, cur, idx, low>>,
         tokens \subseteq tokens', \A s \in Seats : active[s] => active'[s],
         pc[q] = "head" => idx[q] \in Seats
  PROVE  Coming(q)'
<1>1. Sighted(q) => Sighted(q)'
  BY DEF Sighted, Ahead
<1>2. Blocked(q)' <=> Blocked(q)
  BY DEF Blocked, Permits
<1> QED  BY <1>1, <1>2 DEF Coming

(* A ring is drained by a read, whose reader has yet to wake somebody, or  *)
(* was drained before.                                                     *)
LEMMA OutsideDrains ==
  ASSUME TypeOK, SeatInv, CursorInv, Outside, "wake" \notin slips', departing' = 0, bits' # {}, Drained'
  PROVE  Drained \/ \E s \in Seats : cpc'[s] = "wake"
<1>0. UNCHANGED tail /\ bits # {}
  BY OutsideFrame, WakeMoves
<1>1. ASSUME UNCHANGED head, \A s \in Seats : active[s] => active'[s] PROVE Drained
  BY <1>0, <1>1 DEF Drained
<1> USE DEF TypeOK, RingTypes, ConsumerTypes, registry, vars
<1>2. ASSUME NEW s \in Seats, AdvanceHead(s) PROVE cpc'[s] = "wake"
  BY <1>2 DEF AdvanceHead, GotoC
<1>3. ASSUME NEW s \in Seats, Subscribe(s) PROVE Drained
  <2>1. PICK c \in Seats : c = trying[s] /\ cpc[c] = "boarding" /\ cpc[s] = "seated"
    BY <1>3 DEF Subscribe, SeatInv
  <2>2. UNCHANGED active /\ head' = [head EXCEPT ![c] = joinAt[s]]
    BY <1>3, <2>1 DEF Subscribe
  <2>3. ~(head[c] < joinAt[s])
    BY <1>0, <1>3, <2>1 DEF Subscribe
  <2>4. active[c]
    BY <2>1 DEF SeatInv
  <2>5. joinAt[s] = tail
    BY <1>0, <2>2, <2>4 DEF Drained
  <2>6. head[c] = tail
    BY <2>3, <2>5 DEF CursorInv
  <2> QED  BY <1>0, <2>2, <2>6 DEF Drained
<1>4. ASSUME NEW s \in Seats, TrySeat(s) PROVE Drained
  BY <1>1, <1>4 DEF TrySeat, EndClone
<1>5. ASSUME NEW s \in Seats, Classify(s) \/ WakeProducer(s) \/ CloneAt(s) PROVE Drained
  BY <1>1, <1>5 DEF Classify, WakeProducer, CloneAt
<1>6. ASSUME NEW s \in Seats, Unsubscribe(s) PROVE FALSE
  BY <1>6 DEF Unsubscribe
<1>7. CASE FlushProducers \/ UNCHANGED vars
  BY <1>1, <1>7 DEF FlushProducers
<1> QED  BY <1>2, <1>3, <1>4, <1>5, <1>6, <1>7 DEF Outside, ConsumerStep

(* A reader that has to wake somebody does so next.                        *)
LEMMA OutsideWakes ==
  ASSUME TypeOK, SeatInv, Outside, NEW r \in Seats, cpc[r] = "wake"
  PROVE  cpc'[r] = "wake" \/ WakeProducer(r)
<1> USE DEF TypeOK, ConsumerTypes, consumers, vars
<1>1. ASSUME NEW s \in Seats, Classify(s) PROVE cpc'[r] = "wake"
  BY <1>1 DEF Classify, GotoC
<1>2. ASSUME NEW s \in Seats, AdvanceHead(s) PROVE cpc'[r] = "wake"
  BY <1>2 DEF AdvanceHead, GotoC
<1>3. ASSUME NEW s \in Seats, WakeProducer(s) PROVE cpc'[r] = "wake" \/ WakeProducer(r)
  BY <1>3 DEF WakeProducer, GotoC
<1>4. ASSUME NEW s \in Seats, CloneAt(s) PROVE cpc'[r] = "wake"
  BY <1>4 DEF CloneAt, GotoC
<1>5. ASSUME NEW s \in Seats, TrySeat(s) PROVE cpc'[r] = "wake"
  <2>1. active[r]
    BY DEF SeatInv
  <2> QED  BY <1>5, <2>1 DEF TrySeat, GotoC
<1>6. ASSUME NEW s \in Seats, Subscribe(s) PROVE cpc'[r] = "wake"
  <2>1. r # s /\ r # trying[s]
    BY <1>6 DEF Subscribe, SeatInv
  <2> QED  BY <1>6, <2>1 DEF Subscribe
<1>7. ASSUME NEW s \in Seats, Unsubscribe(s) PROVE cpc'[r] = "wake"
  BY <1>7 DEF Unsubscribe, GotoC
<1>8. CASE FlushProducers \/ UNCHANGED vars
  BY <1>8 DEF FlushProducers
<1> QED
  BY <1>1, <1>2, <1>3, <1>4, <1>5, <1>6, <1>7, <1>8 DEF Outside, ConsumerStep

LEMMA ComingStep ==
  ASSUME BaseInv, StageInv, BitsInv, SightInv, ExcuseInv, ComingInv, "wake" \notin slips', [Next]_vars
  PROVE  ComingInv'
<1> DEFINE G == (\E s \in Seats : cpc'[s] = "wake") \/ \E q \in Producers : Coming(q)'
<1> SUFFICES ASSUME Drained', SomeActive', departing' = 0, NEW d \in bits', Doomed(d)'
             PROVE  G
  BY DEF ComingInv, SomebodyDoomed
<1> USE DEF BaseInv
<1>0. d \in Producers
  BY RingTypesStep DEF RingTypes
<1>1. \A q \in Producers : pc[q] = "head" => idx[q] \in Seats
  BY SeatNumbers DEF ScanIndex, TypeOK, ScanTypes
<1>2. ASSUME NEW p \in Producers, ProducerStep(p) PROVE G
  <2>1. UNCHANGED <<active, head, departing, cpc>>
    BY <1>2, OthersStay
  <2>2. SomeActive /\ departing = 0
    BY <2>1 DEF SomeActive
  <2>3. tail' = tail
    <3>1. PICK s \in Seats : active[s]
      BY <2>2 DEF SomeActive
    <3>2. head[s] = tail' /\ head[s] <= tail /\ tail \in Nat
      BY <2>1, <3>1 DEF Drained, CursorInv, TypeOK, RingTypes
    <3> QED  BY <1>2, <3>2, TailMoves
  <2>4. Drained
    BY <2>1, <2>3 DEF Drained
  <2>5. SomebodyDoomed
    <3>1. CASE d # p
      <4>1. Same(d) /\ d \in bits
        BY <1>0, <1>2, <3>1, OthersStay, OthersPark
      <4>2. Doomed(d)
        BY <4>1 DEF Same, Doomed, Blocked, Permits
      <4> QED  BY <4>1, <4>2 DEF SomebodyDoomed
    <3>2. CASE d = p
      <4>1. Sighted(p)
        BY <1>2, <2>2, <3>2, OwnSighted DEF SightInv, StageInv
      <4>2. ~(pc[p] = "head" /\ ~Permits(head[idx[p]], cur[p]))
        <5> SUFFICES ASSUME pc[p] = "head" PROVE Permits(head[idx[p]], cur[p])
          OBVIOUS
        <5>1. head[idx[p]] = tail /\ cur[p] <= tail /\ tail \in Nat /\ cur[p] \in Nat
          BY <1>1, <2>4, <4>1 DEF Drained, Sighted, CursorInv, TypeOK, RingTypes, CallTypes
        <5> QED  BY <5>1 DEF Permits, NoConsumers
      <4>3. Doomed(p)
        BY <1>2, <3>2, <4>1, <4>2, OwnDoom DEF StageInv
      <4>4. p \in bits
        BY <1>2, <3>2, <4>3, DoomedIsArmed DEF StageInv
      <4> QED  BY <4>3, <4>4 DEF SomebodyDoomed
    <3> QED  BY <3>1, <3>2
  <2>6. PriorOccupantResolved(tail)
    BY <2>2, <2>4, <2>5, ReadFreesTail DEF ExcuseInv
  <2>7. CASE \E s \in Seats : cpc[s] = "wake"
    BY <2>1, <2>7
  <2>8. ASSUME NEW q \in Producers, Coming(q) PROVE Coming(q)'
    <3>1. CASE q = p
      BY <1>2, <2>2, <2>3, <2>4, <2>6, <2>8, <3>1, OwnComing DEF StageInv
    <3>2. CASE q # p
      <4>1. Same(q) /\ (q \in tokens => q \in tokens')
        BY <1>2, <3>2, OthersStay, OthersPark
      <4>2. (Sighted(q) => Sighted(q)') /\ (Blocked(q)' <=> Blocked(q))
        BY <2>1, <4>1 DEF Same, Sighted, Ahead, Blocked, Permits
      <4> QED  BY <2>3, <2>8, <4>1, <4>2 DEF Same, Coming
    <3> QED  BY <3>1, <3>2
  <2> QED  BY <2>2, <2>4, <2>5, <2>7, <2>8 DEF ComingInv
<1>3. CASE Outside
  <2>1. UNCHANGED <<tail, pc, stage, call, cur, idx, low>> /\ d \in bits /\ tokens \subseteq tokens'
    BY <1>3, OutsideFrame, WakeMoves
  <2>2. Doomed(d)
    BY <2>1 DEF Doomed, Blocked, Permits
  <2>3. SomeActive /\ departing = 0 /\ \A s \in Seats : active[s] => active'[s]
    BY <1>3, OutsideFlags DEF SomeActive
  <2>4. CASE ~Drained
    BY <1>3, <2>4, OutsideDrains
  <2>5. ASSUME NEW q \in Producers, Coming(q) PROVE G
    BY <1>1, <2>1, <2>3, <2>5, OutsideComing
  <2>6. ASSUME NEW r \in Seats, cpc[r] = "wake" PROVE G
    <3>1. CASE WakeProducer(r)
      <4>1. PICK q \in bits : q \in tokens'
        BY <2>1, <3>1 DEF WakeProducer, WakeOne
      <4>2. q \in Producers
        BY DEF TypeOK, RingTypes
      <4> QED  BY <1>1, <2>1, <2>3, <4>1, <4>2, WokenComes
    <3> QED  BY <1>3, <2>6, <3>1, OutsideWakes
  <2> QED  BY <2>1, <2>2, <2>3, <2>4, <2>5, <2>6 DEF ComingInv, SomebodyDoomed
<1> QED  BY <1>2, <1>3, WhoSteps

-----------------------------------------------------------------------------
(* No producer sleeps for good beside a drained ring.                      *)

ParkInv ==
  /\ StageInv /\ BitsInv /\ NobodyInv /\ SightInv
  /\ "owner" \notin slips => ClassifiedInv
  /\ slips \cap {"owner", "wake"} = {} => ExcuseInv /\ ComingInv

LEMMA InitParkInv == ASSUME Init PROVE ParkInv
<1> USE DEF Init
<1>1. StageInv
  BY BroadcastAssumption DEF StageInv, StageOk, ResetOk
<1>2. BitsInv
  BY DEF BitsInv, BitsOk, Armed
<1>3. NobodyInv /\ SightInv /\ ExcuseInv /\ ComingInv
  BY DEF NobodyInv, SightInv, ExcuseInv, ComingInv, SomebodyDoomed
<1>4. ClassifiedInv
  BY DEF ClassifiedInv
<1> QED  BY <1>1, <1>2, <1>3, <1>4 DEF ParkInv

LEMMA NextParkInv == ASSUME IInv, ParkInv, [Next]_vars PROVE ParkInv'
<1>1. BaseInv /\ slips \subseteq slips'
  BY SlipsStay DEF IInv
<1>2. "owner" \notin slips' => UnmarkedInv /\ AloneInv /\ ClassifiedInv
  BY <1>1 DEF IInv, OwnerInv, ParkInv
<1>3. StageInv' /\ BitsInv'
  BY <1>1, BitsStep DEF BaseInv, ParkInv
<1>4. NobodyInv' /\ SightInv'
  BY <1>1, NobodyStep, SightStep DEF BaseInv, ParkInv
<1>5. "owner" \notin slips' => ClassifiedInv'
  BY <1>1, <1>2, ClassifiedStep DEF BaseInv
<1>6. ASSUME slips' \cap {"owner", "wake"} = {} PROVE ExcuseInv' /\ ComingInv'
  <2>1. "owner" \notin slips' /\ "wake" \notin slips' /\ slips \cap {"owner", "wake"} = {}
    BY <1>1, <1>6
  <2> QED  BY <1>1, <1>2, <2>1, ExcuseStep, ComingStep DEF ParkInv
<1> QED  BY <1>3, <1>4, <1>5, <1>6 DEF ParkInv

THEOREM ParkInvariance == Spec => []ParkInv
<1>1. Init => ParkInv
  BY InitParkInv
<1>2. IInv /\ ParkInv /\ [Next]_vars => ParkInv'
  BY NextParkInv
<1> QED  BY <1>1, <1>2, Invariance, PTL DEF Spec

(* With every thread at rest, a producer that sleeps in push_block or      *)
(* reserve_block does so beside a subscriber that has yet to read: the     *)
(* bitmap, the recheck after arming and the wake after every read lose no  *)
(* producer, as long as no consumer was cloned over an unmarked claim or   *)
(* raised a stale head under an armed producer.                            *)
THEOREM SleepersAreWoken == Spec => []NoSleepBesideDrainedRing
<1>1. IInv /\ ParkInv => NoSleepBesideDrainedRing
  <2> SUFFICES ASSUME IInv, ParkInv, AtRest, slips \cap {"owner", "wake"} = {},
                      NEW p \in Producers, Asleep(p), \A s \in Seats : active[s] => ~(head[s] < tail)
               PROVE  FALSE
    BY DEF NoSleepBesideDrainedRing
  <2> USE DEF IInv, BaseInv, ParkInv
  <2>1. Drained
    BY DEF Drained, CursorInv, TypeOK, RingTypes
  <2>2. p \in bits /\ Doomed(p) /\ stage[p] = "enter" /\ pc[p] = "parked" /\ departing = 0
    BY DEF Asleep, BitsInv, BitsOk, Armed, Doomed, StageInv, StageOk, AtRest
  <2>3. SomeActive
    BY <2>2 DEF NobodyInv
  <2>4. \A s \in Seats : cpc[s] # "wake"
    BY DEF AtRest
  <2>5. \A q \in Producers : ~Coming(q)
    BY DEF AtRest, Asleep, Coming, StageInv, StageOk
  <2> QED  BY <2>1, <2>2, <2>3, <2>4, <2>5 DEF ComingInv, SomebodyDoomed
<1> QED  BY <1>1, Invariance, ParkInvariance, PTL

=============================================================================
