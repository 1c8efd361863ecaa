----------------------------- MODULE SpmcProofs -----------------------------
(***************************************************************************)
(* The spmc ring for any number of consumers, any capacity and batch size. *)
(* The key is the done word: it equals the position from the moment the    *)
(* position is published until its consumer hands it back, so two          *)
(* positions in use never share a slot, whatever the cursors do.           *)
(***************************************************************************)
EXTENDS Spmc, SequenceTheorems, TLAPS

(* The slot of a position (Capacity::index_of).                            *)
LEMMA SlotType == ASSUME NEW a \in Nat PROVE Slot(a) \in Slots
BY CapacityAssumption DEF Slot, Slots

CursorInv ==
  /\ head <= tail
  /\ \A c \in Consumers :
       /\ cachedTail[c] <= tail /\ next[c] <= end[c] /\ end[c] <= head
       /\ cpc[c] = "cas" => seen[c] < cachedTail[c]
       /\ cpc[c] \in {"read", "release"} => next[c] >= 1
       /\ cpc[c] \in {"new", "close", "last", "out"} => next[c] = end[c]

(* Published and not claimed.                                              *)
UnreadInv ==
  ppc # "destroyed" =>
    \A pos \in head..(tail - 1) : done[Slot(pos)] = pos /\ data[Slot(pos)] = pos

(* Claimed and not handed back.                                            *)
OwnedInv ==
  \A c \in Consumers : \A pos \in Owned(c) :
    /\ done[Slot(pos)] = pos
    /\ data[Slot(pos)] = IF cpc[c] = "release" /\ pos = At(c) THEN NoValue ELSE pos

DisjointInv ==
  \A c, d \in Consumers : c # d => Owned(c) \cap Owned(d) = {}

(* The slot of the position being written.                                 *)
WriterInv ==
  /\ ppc \in {"write", "written"} => done[Slot(tail)] = tail
  /\ ppc = "written" => data[Slot(tail)] = tail

(* Handed back and not written.                                            *)
FreeInv ==
  \A s \in Slots :
    done[s] >= tail /\ ~(ppc = "written" /\ s = Slot(tail)) => data[s] = NoValue

GoneInv ==
  ppc = "destroyed" => live = {} /\ \A c \in Consumers : cpc[c] \in {"new", "out"}

IInv ==
  /\ TypeOK /\ CursorInv /\ UnreadInv /\ OwnedInv /\ DisjointInv
  /\ WriterInv /\ FreeInv /\ GoneInv

LEMMA InitIInv == ASSUME Init PROVE IInv
<1> USE CapacityAssumption, SpmcAssumption
<1>1. TypeOK
  <2>1. live \subseteq Consumers /\ cpc \in [Consumers -> ConsumerSteps]
    BY DEF Init, ConsumerSteps
  <2>2. done \in [Slots -> Nat] /\ data \in [Slots -> Nat \cup {NoValue}]
    BY DEF Init, Slots
  <2>3. taken \in [Consumers -> Seq(Nat)]
    BY DEF Init
  <2>4. /\ seen \in [Consumers -> Nat] /\ cachedTail \in [Consumers -> Nat]
        /\ next \in [Consumers -> Nat] /\ end \in [Consumers -> Nat]
    BY DEF Init
  <2>5. /\ head \in Nat /\ tail \in Nat /\ ppc \in ProducerSteps /\ armed \in BOOLEAN
        /\ flag \in BOOLEAN /\ token \in BOOLEAN /\ closed \in BOOLEAN
        /\ consumerClosed \in BOOLEAN /\ final \subseteq Consumers
        /\ owes \subseteq Consumers /\ dropped \subseteq Nat
    BY DEF Init, ProducerSteps
  <2> QED  BY <2>1, <2>2, <2>3, <2>4, <2>5 DEF TypeOK
<1>2. \A c \in Consumers : Owned(c) = {}
  BY DEF Init, Owned
<1>3. CursorInv /\ UnreadInv /\ WriterInv /\ FreeInv /\ GoneInv
  BY DEF Init, CursorInv, UnreadInv, WriterInv, FreeInv, GoneInv
<1>4. OwnedInv /\ DisjointInv
  BY <1>2 DEF OwnedInv, DisjointInv
<1> QED  BY <1>1, <1>3, <1>4 DEF IInv

(* A position owned was published and claimed.                             *)
LEMMA OwnedRange ==
  ASSUME IInv, NEW c \in Consumers, NEW pos \in Owned(c)
  PROVE  /\ pos \in Nat /\ pos < head /\ pos < tail /\ Slot(pos) \in Slots
         /\ done[Slot(pos)] = pos
<1>1. pos \in Nat /\ pos < head /\ pos < tail
  BY DEF IInv, TypeOK, CursorInv, Owned, At
<1>2. Slot(pos) \in Slots
  BY <1>1, SlotType
<1> QED  BY <1>1, <1>2 DEF IInv, OwnedInv

(* Steps that leave the ring, the batches and the writer's position alone. *)
LEMMA QuietStep ==
  ASSUME IInv, TypeOK', UNCHANGED <<head, tail, done, data, next, end>>,
         \A c \in Consumers : cachedTail'[c] <= tail,
         \A c \in Consumers :
           /\ cpc'[c] = "cas" => seen'[c] < cachedTail'[c]
           /\ cpc'[c] \in {"read", "release"} <=> cpc[c] \in {"read", "release"}
           /\ cpc'[c] = "release" <=> cpc[c] = "release"
           /\ cpc'[c] \in {"new", "close", "last", "out"} => next[c] = end[c],
         ppc' \in {"write", "written"} => done[Slot(tail)] = tail,
         ppc' = "written" <=> ppc = "written",
         ppc' # "destroyed", ppc # "destroyed"
  PROVE  IInv'
<1>1. \A c \in Consumers : Owned(c)' = Owned(c) /\ At(c)' = At(c)
  BY DEF Owned, At
<1>2. CursorInv'
  BY DEF IInv, CursorInv
<1>3. UnreadInv' /\ GoneInv'
  BY DEF IInv, UnreadInv, GoneInv
<1>4. OwnedInv' /\ DisjointInv'
  BY <1>1 DEF IInv, OwnedInv, DisjointInv
<1>5. WriterInv' /\ FreeInv'
  BY DEF IInv, WriterInv, FreeInv
<1> QED  BY <1>2, <1>3, <1>4, <1>5 DEF IInv
-----------------------------------------------------------------------------
(* The producer's steps.                                                   *)

LEMMA ProducerQuiet ==
  ASSUME IInv,
         \/ Call \/ ClaimNow \/ CheckOpen \/ TryClaim \/ ArmProducer \/ ParkProducer
         \/ DisarmProducer \/ DropProducer
  PROVE  IInv'
<1> USE DEF consumers, claiming, batch, parker, closing
<1>1. UNCHANGED <<head, tail, done, data, consumers>>
  BY DEF Call, ClaimNow, CheckOpen, TryClaim, ArmProducer, ParkProducer, DisarmProducer,
         DropProducer
<1>2. ppc' \in ProducerSteps /\ armed' \in BOOLEAN /\ flag' \in BOOLEAN /\ token' \in BOOLEAN
      /\ closed' \in BOOLEAN /\ consumerClosed' \in BOOLEAN
  BY DEF IInv, TypeOK, ProducerSteps, Call, ClaimNow, CheckOpen, TryClaim, ArmProducer,
         ParkProducer, DisarmProducer, DropProducer
<1>3. TypeOK'
  BY <1>1, <1>2 DEF IInv, TypeOK
<1>4. /\ ppc' \in {"write", "written"} => done[Slot(tail)] = tail
      /\ ppc' = "written" <=> ppc = "written"
      /\ ppc' # "destroyed" /\ ppc # "destroyed"
  BY DEF IInv, WriterInv, HasSpace, Call, ClaimNow, CheckOpen, TryClaim, ArmProducer,
         ParkProducer, DisarmProducer, DropProducer
<1>5. \A c \in Consumers :
        cachedTail'[c] <= tail /\ (cpc'[c] = "cas" => seen'[c] < cachedTail'[c])
  BY <1>1 DEF IInv, CursorInv
<1>6. \A c \in Consumers : cpc'[c] \in {"new", "close", "last", "out"} => next[c] = end[c]
  BY <1>1 DEF IInv, CursorInv
<1> QED  BY <1>1, <1>3, <1>4, <1>5, <1>6, QuietStep

(* Filling or emptying the slot being written: no position in use is in it.*)
LEMMA WriterSlotStep ==
  ASSUME IInv, ppc \in {"write", "written"},
         \/ Write
         \/ Abandon
  PROVE  IInv'
<1> USE SpmcAssumption, CapacityAssumption DEF consumers, claiming, batch
<1>1. Slot(tail) \in Slots /\ tail \in Nat /\ done[Slot(tail)] = tail
  BY SlotType DEF IInv, TypeOK, WriterInv
<1>2. UNCHANGED <<head, tail, done, consumers>>
  BY DEF Write, Abandon
<1>3. data' = [data EXCEPT ![Slot(tail)] = data'[Slot(tail)]]
  BY <1>1 DEF IInv, TypeOK, Write, Abandon
<1>4. \/ ppc' = "written" /\ data'[Slot(tail)] = tail
      \/ ppc' = "idle" /\ data'[Slot(tail)] = NoValue
  BY <1>1 DEF IInv, TypeOK, Write, Abandon
<1>5. TypeOK'
  BY <1>1, <1>2, <1>3, <1>4 DEF IInv, TypeOK, ProducerSteps, Write, Abandon, parker, closing
<1>6. \A c \in Consumers : Owned(c)' = Owned(c) /\ At(c)' = At(c)
  BY <1>2 DEF Owned, At
<1>7. CursorInv' /\ DisjointInv' /\ GoneInv'
  BY <1>2, <1>4, <1>6 DEF IInv, CursorInv, DisjointInv, GoneInv
<1>8. UnreadInv'
  <2> SUFFICES ASSUME NEW pos \in head..(tail - 1)
               PROVE  done[Slot(pos)] = pos /\ data'[Slot(pos)] = pos
    BY <1>2 DEF UnreadInv
  <2>1. pos \in Nat /\ pos < tail /\ done[Slot(pos)] = pos /\ data[Slot(pos)] = pos
    BY DEF IInv, TypeOK, UnreadInv
  <2> QED  BY <2>1, <1>1, <1>3, SlotType DEF IInv, TypeOK
<1>9. OwnedInv'
  <2> SUFFICES ASSUME NEW c \in Consumers, NEW pos \in Owned(c)
               PROVE  /\ done[Slot(pos)] = pos
                      /\ data'[Slot(pos)] = data[Slot(pos)]
    BY <1>2, <1>6 DEF IInv, OwnedInv
  <2>1. pos < tail /\ pos \in Nat /\ Slot(pos) \in Slots /\ done[Slot(pos)] = pos
    BY OwnedRange
  <2> QED  BY <2>1, <1>1, <1>3 DEF IInv, TypeOK
<1>10. WriterInv' /\ FreeInv'
  BY <1>1, <1>2, <1>3, <1>4 DEF IInv, TypeOK, WriterInv, FreeInv
<1> QED  BY <1>5, <1>7, <1>8, <1>9, <1>10 DEF IInv

LEMMA PublishStep == ASSUME IInv, Publish PROVE IInv'
<1> USE SpmcAssumption, CapacityAssumption
    DEF Publish, consumers, claiming, batch, parker, closing
<1>1. tail \in Nat /\ done[Slot(tail)] = tail /\ data[Slot(tail)] = tail
  BY DEF IInv, TypeOK, WriterInv
<1>2. TypeOK'
  BY DEF IInv, TypeOK, ProducerSteps
<1>3. \A c \in Consumers : Owned(c)' = Owned(c) /\ At(c)' = At(c)
  BY DEF Owned, At
<1>4. CursorInv'
  BY DEF IInv, CursorInv, TypeOK
<1>5. OwnedInv' /\ DisjointInv' /\ GoneInv'
  BY <1>3 DEF IInv, OwnedInv, DisjointInv, GoneInv
<1>6. UnreadInv'
  BY <1>1 DEF IInv, TypeOK, UnreadInv
<1>7. WriterInv' /\ FreeInv'
  <2>1. WriterInv'
    BY DEF WriterInv
  <2>2. ASSUME NEW s \in Slots, done[s] >= tail + 1 PROVE data[s] = NoValue
    <3>1. done[s] \in Nat
      BY DEF IInv, TypeOK
    <3> QED  BY <1>1, <2>2, <3>1 DEF IInv, FreeInv
  <2> QED  BY <2>1, <2>2 DEF FreeInv
<1> QED  BY <1>2, <1>4, <1>5, <1>6, <1>7 DEF IInv

LEMMA DropRingStep == ASSUME IInv, DropRing PROVE IInv'
<1> USE DEF DropRing, claiming, batch, parker, closing
<1> DEFINE left == {pos \in head..(tail - 1) : done[Slot(pos)] # pos + Capacity}
<1>1. \A pos \in left : data[Slot(pos)] \in Nat
  BY DEF IInv, TypeOK, UnreadInv
<1>2. dropped' = dropped \cup {data[Slot(pos)] : pos \in left}
  OBVIOUS
<1>3. dropped' \subseteq Nat
  BY <1>1, <1>2 DEF IInv, TypeOK
<1>4. data' \in [Slots -> Nat \cup {NoValue}]
      /\ \A s \in Slots : data'[s] = NoValue \/ data'[s] = data[s]
  BY DEF IInv, TypeOK
<1>5. TypeOK'
  BY <1>3, <1>4 DEF IInv, TypeOK, ProducerSteps
<1>6. \A c \in Consumers : Owned(c)' = {}
  <2>1. \A c \in Consumers : next[c] = end[c] /\ next[c] \in Nat /\ cpc[c] \in {"new", "out"}
    BY DEF IInv, TypeOK, CursorInv
  <2> QED  BY <2>1 DEF Owned
<1>7. OwnedInv' /\ DisjointInv'
  BY <1>6 DEF OwnedInv, DisjointInv
<1>8. CursorInv' /\ UnreadInv' /\ WriterInv' /\ GoneInv'
  BY DEF IInv, CursorInv, UnreadInv, WriterInv, GoneInv
<1>9. FreeInv'
  BY <1>4 DEF IInv, FreeInv
<1> QED  BY <1>5, <1>7, <1>8, <1>9 DEF IInv

-----------------------------------------------------------------------------
(* The consumers' steps.                                                   *)

LEMMA ConsumerQuiet ==
  ASSUME IInv, NEW c \in Consumers,
         \/ LoadHead(c) \/ LoadTail(c) \/ ClosedWhileEmpty(c) \/ ReloadTail(c)
         \/ ReloadHead(c) \/ ClaimLost(c) \/ WakeProducer(c) \/ CheckClosed(c)
         \/ Leave(c) \/ Close(c) \/ Clone(c) \/ DropConsumer(c)
  PROVE  IInv'
<1> USE DEF ring, others, producer, claiming, batch, parker, closing, Goto
<1>1. UNCHANGED <<head, tail, done, data, next, end, producer, taken, dropped>>
  BY DEF LoadHead, LoadTail, ClosedWhileEmpty, ReloadTail, ReloadHead, ClaimLost,
         WakeProducer, CheckClosed, Leave, Close, Clone, DropConsumer
<1>2. /\ cpc' = [cpc EXCEPT ![c] = cpc'[c]]
      /\ cpc[c] \in {"poll", "more", "claim", "tail", "closed?", "tail2", "head2", "cas",
                     "wake", "last", "over?", "drop", "close", "new", "ended"}
      /\ cpc'[c] \in ConsumerSteps \ {"read", "release", "new"}
  BY DEF IInv, TypeOK, ConsumerSteps, FoundNothing, LoadHead, LoadTail, ClosedWhileEmpty,
         ReloadTail, ReloadHead, ClaimLost, WakeProducer, CheckClosed, Leave, Close, Clone,
         DropConsumer
<1>3. /\ seen' \in [Consumers -> Nat] /\ cachedTail' \in [Consumers -> Nat]
      /\ \A d \in Consumers : cachedTail'[d] <= tail
      /\ cpc'[c] = "cas" => seen'[c] < cachedTail'[c]
      /\ \A d \in Consumers \ {c} : seen'[d] = seen[d] /\ cachedTail'[d] = cachedTail[d]
  <2>0. /\ seen \in [Consumers -> Nat] /\ cachedTail \in [Consumers -> Nat]
        /\ head \in Nat /\ tail \in Nat /\ cpc \in [Consumers -> ConsumerSteps]
        /\ \A d \in Consumers : cachedTail[d] <= tail
    BY DEF IInv, TypeOK, CursorInv
  <2>1. CASE LoadHead(c)
    BY <2>0, <2>1 DEF LoadHead
  <2>2. CASE LoadTail(c)
    BY <2>0, <2>2 DEF LoadTail
  <2>3. CASE ReloadTail(c)
    BY <2>0, <2>3 DEF ReloadTail
  <2>4. CASE UNCHANGED claiming /\ cpc'[c] # "cas"
    BY <2>0, <2>4
  <2>5. LoadHead(c) \/ LoadTail(c) \/ ReloadTail(c) \/ (UNCHANGED claiming /\ cpc'[c] # "cas")
    BY <2>0 DEF FoundNothing, ClosedWhileEmpty, ReloadHead, ClaimLost, WakeProducer,
                CheckClosed, Leave, Close, Clone, DropConsumer
  <2> QED  BY <2>1, <2>2, <2>3, <2>4, <2>5
<1>4. cpc'[c] \in {"close", "last", "out"} => next[c] = end[c]
  BY DEF IInv, TypeOK, CursorInv, FoundNothing, LoadHead, LoadTail, ClosedWhileEmpty,
         ReloadTail, ReloadHead, ClaimLost, WakeProducer, CheckClosed, Leave, Close, Clone,
         DropConsumer
<1>5. /\ live' \subseteq Consumers /\ final' \subseteq Consumers /\ owes' \subseteq Consumers
      /\ flag' \in BOOLEAN /\ token' \in BOOLEAN
      /\ closed' \in BOOLEAN /\ consumerClosed' \in BOOLEAN
  BY DEF IInv, TypeOK, LoadHead, LoadTail, ClosedWhileEmpty, ReloadTail, ReloadHead, ClaimLost,
         WakeProducer, CheckClosed, Leave, Close, Clone, DropConsumer
<1>6. cpc' \in [Consumers -> ConsumerSteps]
      /\ \A d \in Consumers \ {c} : cpc'[d] = cpc[d]
  BY <1>2 DEF IInv, TypeOK
<1>7. TypeOK'
  BY <1>1, <1>3, <1>5, <1>6 DEF IInv, TypeOK
<1>8. ppc # "destroyed" /\ ppc' = ppc
  <2>1. ppc = "destroyed" => cpc[c] = "new" /\ live = {}
    BY <1>2 DEF IInv, GoneInv
  <2>2. cpc[c] = "new" => live # {}
    BY DEF LoadHead, LoadTail, ClosedWhileEmpty, ReloadTail, ReloadHead, ClaimLost,
           WakeProducer, CheckClosed, Leave, Close, Clone, DropConsumer
  <2> QED  BY <2>1, <2>2, <1>1
<1>9. \A d \in Consumers :
        /\ cpc'[d] = "cas" => seen'[d] < cachedTail'[d]
        /\ cpc'[d] \in {"read", "release"} <=> cpc[d] \in {"read", "release"}
        /\ cpc'[d] = "release" <=> cpc[d] = "release"
        /\ cpc'[d] \in {"new", "close", "last", "out"} => next[d] = end[d]
  BY <1>2, <1>3, <1>4, <1>6 DEF IInv, CursorInv
<1>10. ppc' \in {"write", "written"} => done[Slot(tail)] = tail
  BY <1>8 DEF IInv, WriterInv
<1> QED  BY <1>1, <1>3, <1>7, <1>8, <1>9, <1>10, QuietStep

LEMMA NextInBatchStep ==
  ASSUME IInv, NEW c \in Consumers, NextInBatch(c) PROVE IInv'
<1> USE DEF NextInBatch, ring, others, producer, claiming, parker, closing, Goto
<1>1. /\ next[c] \in Nat /\ end[c] \in Nat
      /\ next' = [next EXCEPT ![c] = next[c] + 1] /\ next \in [Consumers -> Nat]
      /\ cpc' = [cpc EXCEPT ![c] = "read"] /\ cpc \in [Consumers -> ConsumerSteps]
  BY DEF IInv, TypeOK
<1>2. TypeOK'
  BY <1>1 DEF IInv, TypeOK, ConsumerSteps
<1>3. CursorInv'
  BY <1>1 DEF IInv, CursorInv
<1>4. \A d \in Consumers : Owned(d)' = Owned(d)
  BY <1>1 DEF Owned, At
<1>5. \A d \in Consumers : (cpc'[d] = "release" <=> cpc[d] = "release")
                           /\ (d # c => At(d)' = At(d))
  BY <1>1 DEF At
<1>6. OwnedInv' /\ DisjointInv'
  BY <1>1, <1>4, <1>5 DEF IInv, OwnedInv, DisjointInv
<1>7. UnreadInv' /\ WriterInv' /\ FreeInv'
  BY DEF IInv, UnreadInv, WriterInv, FreeInv
<1>8. GoneInv'
  BY DEF IInv, GoneInv
<1> QED  BY <1>2, <1>3, <1>6, <1>7, <1>8 DEF IInv

LEMMA ClaimOkStep ==
  ASSUME IInv, NEW c \in Consumers, ClaimOk(c) PROVE IInv'
<1> USE DEF ClaimOk, others, producer, claiming, parker, closing, Goto
<1> DEFINE bound == head + Take(c)
<1>1. /\ head \in Nat /\ tail \in Nat /\ Take(c) \in Nat /\ Take(c) >= 1 /\ bound <= tail
      /\ next \in [Consumers -> Nat] /\ end \in [Consumers -> Nat]
      /\ cpc \in [Consumers -> ConsumerSteps]
  BY SpmcAssumption DEF IInv, TypeOK, CursorInv, Take
<1>2. /\ head' = bound /\ next' = [next EXCEPT ![c] = head + 1]
      /\ end' = [end EXCEPT ![c] = bound] /\ cpc' = [cpc EXCEPT ![c] = "read"]
  OBVIOUS
<1> HIDE DEF bound
<1>b. bound = head + Take(c) /\ bound \in Nat /\ head < bound
  BY <1>1 DEF bound
<1>3. TypeOK'
  BY <1>1, <1>2, <1>b DEF IInv, TypeOK, ConsumerSteps
<1>4. CursorInv'
  BY <1>1, <1>2, <1>b DEF IInv, CursorInv
<1>5. /\ Owned(c)' = head..(bound - 1)
      /\ \A d \in Consumers \ {c} : Owned(d)' = Owned(d) /\ At(d)' = At(d) /\ cpc'[d] = cpc[d]
  BY <1>1, <1>2, <1>b DEF Owned, At
<1>6. ppc # "destroyed" /\ ppc' = ppc
  BY DEF IInv, GoneInv
<1>7. \A pos \in head..(bound - 1) : done[Slot(pos)] = pos /\ data[Slot(pos)] = pos
  BY <1>1, <1>6, <1>b DEF IInv, UnreadInv
<1>8. OwnedInv'
  <2> SUFFICES ASSUME NEW d \in Consumers, NEW pos \in Owned(d)'
               PROVE  /\ done[Slot(pos)] = pos
                      /\ data[Slot(pos)] =
                           IF cpc'[d] = "release" /\ pos = At(d)' THEN NoValue ELSE pos
    BY <1>2 DEF OwnedInv
  <2>1. CASE d = c
    <3>1. pos \in head..(bound - 1) /\ cpc'[c] = "read"
      BY <2>1, <1>1, <1>2, <1>5
    <3> QED  BY <2>1, <3>1, <1>7
  <2>2. CASE d # c
    <3>1. pos \in Owned(d) /\ At(d)' = At(d) /\ cpc'[d] = cpc[d]
      BY <2>2, <1>5
    <3> QED  BY <3>1 DEF IInv, OwnedInv
  <2> QED  BY <2>1, <2>2
<1>9. DisjointInv'
  <2>1. \A d \in Consumers : \A pos \in Owned(d) : pos < head
    BY OwnedRange
  <2>2. \A d \in Consumers \ {c} : Owned(d) \cap (head..(bound - 1)) = {}
    BY <2>1, <1>1
  <2> SUFFICES ASSUME NEW d \in Consumers, NEW e \in Consumers, d # e
               PROVE  Owned(d)' \cap Owned(e)' = {}
    BY DEF DisjointInv
  <2>3. CASE d = c
    BY <2>2, <2>3, <1>5
  <2>4. CASE e = c
    BY <2>2, <2>4, <1>5
  <2>5. CASE d # c /\ e # c
    BY <2>5, <1>5 DEF IInv, DisjointInv
  <2> QED  BY <2>3, <2>4, <2>5
<1>10. UnreadInv' /\ WriterInv' /\ FreeInv' /\ GoneInv'
  BY <1>1, <1>2, <1>6, <1>b DEF IInv, UnreadInv, WriterInv, FreeInv, GoneInv
<1> QED  BY <1>3, <1>4, <1>8, <1>9, <1>10 DEF IInv

(* The position in the consumer's hand, between claim and release.         *)
LEMMA InHand ==
  ASSUME IInv, NEW c \in Consumers, cpc[c] \in {"read", "release"}
  PROVE  /\ At(c) \in Owned(c) /\ next[c] = At(c) + 1
         /\ ppc # "destroyed"
<1>1. next[c] \in Nat /\ next[c] >= 1 /\ next[c] <= end[c] /\ end[c] \in Nat
  BY DEF IInv, TypeOK, CursorInv
<1>2. ppc # "destroyed"
  BY DEF IInv, GoneInv
<1> QED  BY <1>1, <1>2 DEF Owned, At

(* Emptying the slot of an owned position disturbs no other position.      *)
LEMMA EmptyOwned ==
  ASSUME IInv, NEW c \in Consumers, NEW pos \in Owned(c),
         data' = [data EXCEPT ![Slot(pos)] = NoValue]
  PROVE  /\ data' \in [Slots -> Nat \cup {NoValue}]
         /\ data'[Slot(pos)] = NoValue
         /\ \A q \in Nat : Slot(q) \in Slots /\ done[Slot(q)] = q /\ q # pos
                             => data'[Slot(q)] = data[Slot(q)]
         /\ \A s \in Slots : data'[s] = NoValue \/ data'[s] = data[s]
BY OwnedRange DEF IInv, TypeOK

LEMMA ReadStep ==
  ASSUME IInv, NEW c \in Consumers, Read(c) PROVE IInv'
<1> USE SpmcAssumption DEF Read, others, producer, claiming, batch, parker, closing, Goto
<1>1. /\ At(c) \in Owned(c) /\ ppc # "destroyed"
      /\ data[Slot(At(c))] = At(c) /\ At(c) \in Nat
      /\ cpc \in [Consumers -> ConsumerSteps]
  BY InHand, OwnedRange DEF IInv, OwnedInv, TypeOK
<1>2. /\ data' \in [Slots -> Nat \cup {NoValue}] /\ data'[Slot(At(c))] = NoValue
      /\ \A q \in Nat : Slot(q) \in Slots /\ done[Slot(q)] = q /\ q # At(c)
                          => data'[Slot(q)] = data[Slot(q)]
      /\ \A s \in Slots : data'[s] = NoValue \/ data'[s] = data[s]
  BY <1>1, EmptyOwned
<1>3. cpc' = [cpc EXCEPT ![c] = "release"]
  OBVIOUS
<1>4. \A d \in Consumers : Owned(d)' = Owned(d) /\ At(d)' = At(d)
  BY <1>1, <1>3 DEF Owned, At
<1>5. taken' \in [Consumers -> Seq(Nat)]
  BY <1>1 DEF IInv, TypeOK
<1>6. TypeOK'
  BY <1>1, <1>2, <1>3, <1>5 DEF IInv, TypeOK, ConsumerSteps
<1>7. CursorInv' /\ GoneInv'
  BY <1>1, <1>3 DEF IInv, CursorInv, GoneInv
<1>8. OwnedInv'
  <2> SUFFICES ASSUME NEW d \in Consumers, NEW pos \in Owned(d)
               PROVE  data'[Slot(pos)] =
                        IF cpc'[d] = "release" /\ pos = At(d) THEN NoValue ELSE pos
    BY <1>4 DEF IInv, OwnedInv
  <2>1. pos \in Nat /\ Slot(pos) \in Slots /\ done[Slot(pos)] = pos
    BY OwnedRange
  <2>2. CASE d = c /\ pos = At(c)
    BY <2>2, <1>1, <1>2, <1>3
  <2>3. CASE d = c /\ pos # At(c)
    BY <2>1, <2>3, <1>2 DEF IInv, OwnedInv
  <2>4. CASE d # c
    <3>1. pos # At(c)
      BY <1>1, <2>4 DEF IInv, DisjointInv
    <3> QED  BY <2>1, <2>4, <3>1, <1>1, <1>2, <1>3 DEF IInv, OwnedInv
  <2> QED  BY <2>2, <2>3, <2>4
<1>9. DisjointInv'
  BY <1>4 DEF IInv, DisjointInv
<1>10. UnreadInv'
  <2> SUFFICES ASSUME NEW pos \in head..(tail - 1) PROVE data'[Slot(pos)] = data[Slot(pos)]
    BY <1>1 DEF IInv, UnreadInv
  <2>0. pos \in Nat /\ pos >= head
    BY DEF IInv, TypeOK
  <2>1. done[Slot(pos)] = pos /\ Slot(pos) \in Slots
    BY <2>0, <1>1, SlotType DEF IInv, UnreadInv
  <2>2. pos # At(c)
    BY <2>0, <1>1, OwnedRange DEF IInv, TypeOK
  <2> QED  BY <2>0, <2>1, <2>2, <1>2
<1>11. WriterInv'
  <2>1. tail \in Nat /\ Slot(tail) \in Slots /\ At(c) < tail
    BY <1>1, OwnedRange, SlotType DEF IInv, TypeOK
  <2> QED  BY <2>1, <1>1, <1>2 DEF IInv, WriterInv
<1>12. FreeInv'
  BY <1>2 DEF IInv, FreeInv
<1> QED  BY <1>6, <1>7, <1>8, <1>9, <1>10, <1>11, <1>12 DEF IInv

(* DoneWord::release of an owned position whose slot is or becomes empty.  *)
LEMMA HandBackStep ==
  ASSUME IInv, TypeOK', CursorInv', NEW c \in Consumers, NEW pos \in Owned(c),
         Free(pos), UNCHANGED <<head, tail, ppc>>, ppc # "destroyed",
         \/ data' = [data EXCEPT ![Slot(pos)] = NoValue]
         \/ data' = data /\ data[Slot(pos)] = NoValue,
         Owned(c)' \subseteq Owned(c) \ {pos},
         cpc'[c] # "release", cpc[c] = "release" => pos = At(c),
         \A d \in Consumers \ {c} :
           Owned(d)' = Owned(d) /\ At(d)' = At(d) /\ cpc'[d] = cpc[d]
  PROVE  IInv'
<1>1. /\ pos \in Nat /\ pos < head /\ pos < tail /\ Slot(pos) \in Slots /\ done[Slot(pos)] = pos
      /\ head \in Nat /\ tail \in Nat
  BY OwnedRange DEF IInv, TypeOK
<1>2. /\ done' = [done EXCEPT ![Slot(pos)] = pos + Capacity]
      /\ done \in [Slots -> Nat] /\ data \in [Slots -> Nat \cup {NoValue}]
  BY DEF Free, IInv, TypeOK
<1>3. /\ data'[Slot(pos)] = NoValue
      /\ \A s \in Slots : data'[s] = NoValue \/ data'[s] = data[s]
      /\ \A q \in Nat : Slot(q) \in Slots /\ done[Slot(q)] = q /\ q # pos
                          => data'[Slot(q)] = data[Slot(q)] /\ done'[Slot(q)] = q
  BY <1>1, <1>2
<1>4. OwnedInv'
  <2> SUFFICES ASSUME NEW d \in Consumers, NEW q \in Owned(d)'
               PROVE  /\ done'[Slot(q)] = q
                      /\ data'[Slot(q)] =
                           IF cpc'[d] = "release" /\ q = At(d)' THEN NoValue ELSE q
    BY DEF OwnedInv
  <2>1. CASE d = c
    <3>1. q \in Owned(c) /\ q # pos
      BY <2>1
    <3>2. q \in Nat /\ Slot(q) \in Slots /\ done[Slot(q)] = q
      BY <3>1, OwnedRange
    <3>3. data[Slot(q)] = q
      BY <3>1 DEF IInv, OwnedInv
    <3> QED  BY <2>1, <3>1, <3>2, <3>3, <1>3
  <2>2. CASE d # c
    <3>1. q \in Owned(d) /\ At(d)' = At(d) /\ cpc'[d] = cpc[d]
      BY <2>2
    <3>2. q \in Nat /\ Slot(q) \in Slots /\ done[Slot(q)] = q
      BY <3>1, OwnedRange
    <3>3. q # pos
      BY <2>2, <3>1 DEF IInv, DisjointInv
    <3> QED  BY <3>1, <3>2, <3>3, <1>3 DEF IInv, OwnedInv
  <2> QED  BY <2>1, <2>2
<1>5. DisjointInv'
  <2> SUFFICES ASSUME NEW d \in Consumers, NEW e \in Consumers, d # e
               PROVE  Owned(d)' \cap Owned(e)' = {}
    BY DEF DisjointInv
  <2>1. Owned(d) \cap Owned(e) = {}
    BY DEF IInv, DisjointInv
  <2>2. Owned(d)' \subseteq Owned(d) /\ Owned(e)' \subseteq Owned(e)
    OBVIOUS
  <2> QED  BY <2>1, <2>2
<1>6. UnreadInv'
  <2> SUFFICES ASSUME NEW q \in head..(tail - 1)
               PROVE  done'[Slot(q)] = q /\ data'[Slot(q)] = q
    BY DEF UnreadInv
  <2>1. q \in Nat /\ q # pos
    BY <1>1
  <2>2. Slot(q) \in Slots /\ done[Slot(q)] = q /\ data[Slot(q)] = q
    BY <2>1, SlotType DEF IInv, UnreadInv
  <2> QED  BY <2>1, <2>2, <1>3
<1>7. WriterInv'
  <2>1. Slot(tail) \in Slots /\ tail # pos
    BY <1>1, SlotType
  <2> QED  BY <2>1, <1>1, <1>3 DEF IInv, WriterInv
<1>8. FreeInv'
  BY <1>1, <1>2, <1>3 DEF IInv, FreeInv
<1>9. GoneInv'
  BY DEF GoneInv
<1> QED  BY <1>4, <1>5, <1>6, <1>7, <1>8, <1>9 DEF IInv

LEMMA ReleaseStep ==
  ASSUME IInv, NEW c \in Consumers, Release(c) PROVE IInv'
<1> USE DEF Release, others, producer, claiming, batch, parker, closing, Goto
<1>1. /\ At(c) \in Owned(c) /\ next[c] = At(c) + 1 /\ ppc # "destroyed"
      /\ At(c) \in Nat /\ data[Slot(At(c))] = NoValue
      /\ cpc \in [Consumers -> ConsumerSteps] /\ cpc' = [cpc EXCEPT ![c] = "more"]
  BY InHand, OwnedRange DEF IInv, OwnedInv, TypeOK
<1>2. TypeOK'
  <2>1. done' \in [Slots -> Nat]
    <3>1. done' = [done EXCEPT ![Slot(At(c))] = At(c) + Capacity] /\ done \in [Slots -> Nat]
      BY DEF IInv, TypeOK, Free
    <3>2. At(c) + Capacity \in Nat
      BY <1>1, CapacityAssumption
    <3> QED  BY <3>1, <3>2
  <2> QED  BY <2>1, <1>1 DEF IInv, TypeOK, ConsumerSteps
<1>3. CursorInv'
  BY <1>1 DEF IInv, CursorInv
<1>4. Owned(c) = At(c)..(end[c] - 1) /\ Owned(c)' = next[c]..(end[c] - 1)
      /\ next[c] \in Nat /\ end[c] \in Nat
  BY <1>1 DEF Owned, IInv, TypeOK
<1>5. Owned(c)' \subseteq Owned(c) \ {At(c)}
  BY <1>1, <1>4
<1>6. \A d \in Consumers \ {c} :
        Owned(d)' = Owned(d) /\ At(d)' = At(d) /\ cpc'[d] = cpc[d]
  BY <1>1 DEF Owned, At
<1>7. cpc'[c] # "release" /\ UNCHANGED <<head, tail, ppc>>
  BY <1>1
<1> QED  BY <1>1, <1>2, <1>3, <1>5, <1>6, <1>7, HandBackStep

LEMMA DiscardStep ==
  ASSUME IInv, NEW c \in Consumers, Discard(c) PROVE IInv'
<1> USE SpmcAssumption DEF Discard, others, producer, claiming, parker, closing
<1>1. /\ next \in [Consumers -> Nat] /\ end[c] \in Nat /\ next[c] < end[c]
      /\ Owned(c) = next[c]..(end[c] - 1) /\ ppc # "destroyed"
      /\ next' = [next EXCEPT ![c] = next[c] + 1]
  BY DEF IInv, TypeOK, Owned, GoneInv
<1>2. next[c] \in Owned(c) /\ data[Slot(next[c])] = next[c] /\ next[c] \in Nat
  BY <1>1 DEF IInv, OwnedInv
<1>3. TypeOK'
  <2>1. done' \in [Slots -> Nat]
    <3>1. done' = [done EXCEPT ![Slot(next[c])] = next[c] + Capacity] /\ done \in [Slots -> Nat]
      BY DEF IInv, TypeOK, Free
    <3>2. next[c] + Capacity \in Nat
      BY <1>2, CapacityAssumption
    <3> QED  BY <3>1, <3>2
  <2>2. dropped' \subseteq Nat /\ data' \in [Slots -> Nat \cup {NoValue}]
    BY <1>2 DEF IInv, TypeOK
  <2> QED  BY <2>1, <2>2, <1>1 DEF IInv, TypeOK
<1>4. CursorInv'
  BY <1>1 DEF IInv, CursorInv
<1>5. Owned(c)' \subseteq Owned(c) \ {next[c]}
  BY <1>1 DEF Owned
<1>6. \A d \in Consumers \ {c} :
        Owned(d)' = Owned(d) /\ At(d)' = At(d) /\ cpc'[d] = cpc[d]
  BY <1>1 DEF Owned, At
<1> QED  BY <1>1, <1>2, <1>3, <1>4, <1>5, <1>6, HandBackStep

LEMMA NextIInv == ASSUME IInv, [Next]_vars PROVE IInv'
<1>1. CASE Call \/ ClaimNow \/ CheckOpen \/ TryClaim \/ ArmProducer \/ ParkProducer
           \/ DisarmProducer \/ DropProducer
  BY <1>1, ProducerQuiet
<1>2. CASE Write \/ Abandon
  BY <1>2, WriterSlotStep DEF Write, Abandon
<1>3. CASE Publish
  BY <1>3, PublishStep
<1>4. CASE DropRing
  BY <1>4, DropRingStep
<1>5. ASSUME NEW c \in Consumers, ConsumerStep(c) \/ Clone(c) \/ DropConsumer(c)
      PROVE  IInv'
  BY <1>5, ConsumerQuiet, NextInBatchStep, ClaimOkStep, ReadStep, ReleaseStep, DiscardStep
     DEF ConsumerStep
<1>6. CASE UNCHANGED vars
  BY <1>6 DEF vars, producer, parker, closing, claiming, batch, IInv, TypeOK, CursorInv,
              UnreadInv, OwnedInv, DisjointInv, WriterInv, FreeInv, GoneInv, Owned, At
<1> QED  BY <1>1, <1>2, <1>3, <1>4, <1>5, <1>6 DEF Next, ProducerStep, Destroyed

(* Batches are exclusive and intact, and the producer writes alone, for    *)
(* any number of consumers, any capacity and batch size: the bounded CAS   *)
(* of claim_batch and the done words together, against consumers that are  *)
(* cloned and dropped at any time.                                         *)
THEOREM BatchOwnership == Spec => [](TypeOK /\ BatchesAreExclusive /\ WriterIsAlone)
<1>1. IInv => TypeOK /\ BatchesAreExclusive /\ WriterIsAlone
  <2> SUFFICES ASSUME IInv PROVE BatchesAreExclusive /\ WriterIsAlone
    BY DEF IInv
  <2>1. BatchesAreExclusive
    BY DEF IInv, OwnedInv, DisjointInv, BatchesAreExclusive
  <2>2. WriterIsAlone
    <3> SUFFICES ASSUME ppc = "write"
                 PROVE  /\ data[Slot(tail)] = NoValue
                        /\ \A c \in Consumers : \A pos \in Owned(c) : Slot(pos) # Slot(tail)
      BY DEF WriterIsAlone
    <3>1. tail \in Nat /\ Slot(tail) \in Slots /\ done[Slot(tail)] = tail
      BY SlotType DEF IInv, TypeOK, WriterInv
    <3>2. data[Slot(tail)] = NoValue
      BY <3>1 DEF IInv, FreeInv
    <3>3. ASSUME NEW c \in Consumers, NEW pos \in Owned(c) PROVE Slot(pos) # Slot(tail)
      BY <3>1, OwnedRange
    <3> QED  BY <3>2, <3>3
  <2> QED  BY <2>1, <2>2
<1> QED  BY InitIInv, NextIInv, <1>1, PTL DEF Spec

-----------------------------------------------------------------------------
(* None: a pop_block that saw the ring closed pops once more, and the tail *)
(* it then finds is the last one.                                          *)
ClosedInv ==
  /\ closed => ppc \in {"gone", "destroyed"}
  /\ \A c \in Consumers : c \in final \/ cpc[c] = "ended" => closed

LastLookInv ==
  \A c \in Consumers :
    /\ cpc[c] = "tail" => seen[c] <= head
    /\ c \in final /\ cpc[c] = "closed?" => tail <= head
    /\ c \in final /\ cpc[c] = "head2" => cachedTail[c] = tail
    /\ cpc[c] = "ended" => tail <= head

NoneInv == ClosedInv /\ LastLookInv

LEMMA NoneConsumer ==
  ASSUME IInv, NoneInv, NEW c \in Consumers, ConsumerStep(c) \/ Clone(c) \/ DropConsumer(c)
  PROVE  NoneInv'
<1> USE DEF ring, others, producer, claiming, batch, parker, closing, Goto
<1>1. /\ head \in Nat /\ tail \in Nat /\ (cpc[c] = "cas" => Take(c) \in Nat)
      /\ seen \in [Consumers -> Nat] /\ cachedTail \in [Consumers -> Nat]
      /\ cpc \in [Consumers -> ConsumerSteps]
  BY SpmcAssumption DEF IInv, TypeOK, CursorInv, Take
<1>2. UNCHANGED <<tail, closed, ppc>> /\ head' \in Nat /\ head' >= head
  BY <1>1, SpmcAssumption
     DEF IInv, TypeOK, ConsumerStep, NextInBatch, LoadHead, LoadTail, ClosedWhileEmpty,
         ReloadTail, ReloadHead, ClaimOk, ClaimLost, Read, Release, WakeProducer, CheckClosed,
         Discard, Leave, Close, Clone, DropConsumer
<1>3. ASSUME NEW d \in Consumers \ {c}
      PROVE  /\ cpc'[d] = cpc[d] /\ seen'[d] = seen[d] /\ cachedTail'[d] = cachedTail[d]
             /\ d \in final' <=> d \in final
  BY <1>1
     DEF ConsumerStep, NextInBatch, LoadHead, LoadTail, ClosedWhileEmpty,
         ReloadTail, ReloadHead, ClaimOk, ClaimLost, Read, Release, WakeProducer, CheckClosed,
         Discard, Leave, Close, Clone, DropConsumer
<1>4. \/ LoadHead(c) \/ LoadTail(c) \/ ClosedWhileEmpty(c) \/ ReloadTail(c) \/ ReloadHead(c)
      \/ CheckClosed(c) \/ Discard(c)
      \/ final' \subseteq final /\ cpc'[c] \notin {"tail", "closed?", "head2", "ended"}
  BY <1>1 DEF ConsumerStep, NextInBatch, ClaimOk, ClaimLost, Read, Release, WakeProducer,
              Leave, Close, Clone, DropConsumer
<1>5. c \in final' \/ cpc'[c] = "ended" => closed
  <2>1. c \in final \/ cpc[c] = "ended" => closed
    BY DEF NoneInv, ClosedInv
  <2>2. c \in final' => c \in final \/ closed
    BY <1>4 DEF LoadHead, LoadTail, ClosedWhileEmpty, ReloadTail, ReloadHead, CheckClosed, Discard
  <2>3. cpc'[c] = "ended" => c \in final \/ cpc[c] = "ended"
    BY <1>1, <1>4 DEF FoundNothing, LoadHead, LoadTail, ClosedWhileEmpty, ReloadTail, ReloadHead,
                      CheckClosed, Discard
  <2> QED  BY <2>1, <2>2, <2>3
<1>6. /\ cpc'[c] = "tail" => seen'[c] <= head'
      /\ c \in final' /\ cpc'[c] = "closed?" => tail <= head'
      /\ c \in final' /\ cpc'[c] = "head2" => cachedTail'[c] = tail
      /\ cpc'[c] = "ended" => tail <= head'
  <2>0. /\ cpc[c] = "tail" => seen[c] <= head
        /\ c \in final /\ cpc[c] = "closed?" => tail <= head
        /\ c \in final /\ cpc[c] = "head2" => cachedTail[c] = tail
    BY DEF NoneInv, LastLookInv
  <2>1. CASE LoadHead(c)
    BY <1>1, <2>0, <2>1 DEF LoadHead
  <2>2. CASE LoadTail(c)
    BY <1>1, <2>0, <2>2 DEF LoadTail
  <2>3. CASE ClosedWhileEmpty(c)
    BY <1>1, <2>0, <2>3 DEF ClosedWhileEmpty, FoundNothing
  <2>4. CASE ReloadTail(c)
    BY <1>1, <2>0, <2>4 DEF ReloadTail
  <2>5. CASE ReloadHead(c)
    BY <1>1, <2>0, <2>5 DEF ReloadHead, FoundNothing
  <2>6. CASE CheckClosed(c)
    BY <1>1, <2>0, <2>6 DEF CheckClosed
  <2>7. CASE final' \subseteq final
             /\ cpc'[c] \notin {"tail", "closed?", "head2", "ended"}
    BY <2>0, <2>7
  <2>8. CASE Discard(c)
    BY <1>1, <2>0, <2>8 DEF Discard
  <2> QED  BY <1>4, <2>1, <2>2, <2>3, <2>4, <2>5, <2>6, <2>7, <2>8
<1>7. ClosedInv'
  BY <1>2, <1>3, <1>5 DEF NoneInv, ClosedInv
<1>8. LastLookInv'
  <2> SUFFICES ASSUME NEW d \in Consumers
               PROVE  /\ cpc'[d] = "tail" => seen'[d] <= head'
                      /\ d \in final' /\ cpc'[d] = "closed?" => tail <= head'
                      /\ d \in final' /\ cpc'[d] = "head2" => cachedTail'[d] = tail
                      /\ cpc'[d] = "ended" => tail <= head'
    BY <1>2 DEF LastLookInv
  <2>1. CASE d = c
    BY <1>6, <2>1
  <2>2. CASE d # c
    BY <1>1, <1>2, <1>3, <2>2 DEF NoneInv, LastLookInv
  <2> QED  BY <2>1, <2>2
<1> QED  BY <1>7, <1>8 DEF NoneInv

LEMMA NoneProducer ==
  ASSUME IInv, NoneInv,
         Call \/ ClaimNow \/ ProducerStep \/ DropProducer \/ DropRing \/ UNCHANGED vars
  PROVE  NoneInv'
<1> USE DEF vars, consumers, claiming, batch, parker, closing, producer
<1>1. UNCHANGED <<head, cpc, final, claiming>>
  BY DEF Call, ClaimNow, ProducerStep, CheckOpen, TryClaim, ArmProducer, ParkProducer,
         DisarmProducer, Write, Abandon, Publish, DropProducer, DropRing
<1>2. /\ closed => closed' /\ tail' = tail /\ ppc' \in {"gone", "destroyed"}
      /\ closed' => ppc' \in {"gone", "destroyed"}
  BY DEF NoneInv, ClosedInv, Call, ClaimNow, ProducerStep, CheckOpen, TryClaim, ArmProducer, ParkProducer,
         DisarmProducer, Write, Abandon, Publish, DropProducer, DropRing
<1>3. ClosedInv'
  BY <1>1, <1>2 DEF NoneInv, ClosedInv
<1>4. LastLookInv'
  BY <1>1, <1>2 DEF NoneInv, ClosedInv, LastLookInv
<1> QED  BY <1>3, <1>4 DEF NoneInv

(* None means drained: the two closed checks of pop_block and claim_batch  *)
(* leave no published value unclaimed, with any number of consumers        *)
(* competing for what is left.                                             *)
THEOREM NoneMeansDrained == Spec => []DrainedBeforeNone
<1>1. Init => NoneInv
  BY DEF Init, NoneInv, ClosedInv, LastLookInv
<1>2. IInv /\ NoneInv /\ [Next]_vars => NoneInv'
  BY NoneConsumer, NoneProducer DEF Next, Destroyed
<1>3. IInv /\ NoneInv => DrainedBeforeNone
  BY DEF IInv, TypeOK, CursorInv, NoneInv, ClosedInv, LastLookInv, DrainedBeforeNone
<1> QED  BY InitIInv, NextIInv, <1>1, <1>2, <1>3, PTL DEF Spec

-----------------------------------------------------------------------------
(* Once the producer has armed, whatever lets it go on also owes its wake. *)
WakeInv ==
  /\ ppc \in {"reopen?", "retry", "park"} /\ ~token => flag
  /\ ppc \in {"retry", "park"} /\ ~token /\ consumerClosed =>
       \E c \in Consumers : cpc[c] = "last"
  /\ dropped = {} /\ ppc = "park" /\ ~token /\ HasSpace => \E c \in Consumers : c \in owes

LEMMA WakeConsumer ==
  ASSUME IInv, WakeInv, NEW c \in Consumers,
         ConsumerStep(c) \/ Clone(c) \/ DropConsumer(c)
  PROVE  WakeInv'
<1> USE DEF ring, others, producer, claiming, batch, parker, closing, Goto
<1>1. cpc \in [Consumers -> ConsumerSteps] /\ flag \in BOOLEAN /\ token \in BOOLEAN
      /\ next \in [Consumers -> Nat] /\ end \in [Consumers -> Nat]
  BY DEF IInv, TypeOK
<1>3. CASE WakeProducer(c)
  BY <1>1, <1>3 DEF WakeInv, WakeProducer, HasSpace
<1>4. CASE ~WakeProducer(c)
  <2>1. UNCHANGED <<ppc, tail, flag, token>>
    BY <1>4 DEF ConsumerStep, NextInBatch, LoadHead, LoadTail, ClosedWhileEmpty, ReloadTail,
         ReloadHead, ClaimOk, ClaimLost, Read, Release, CheckClosed, Discard, Leave, Close,
         Clone, DropConsumer
  <2>2. CASE Discard(c)
    BY <2>1, <2>2 DEF WakeInv, Discard
  <2> SUFFICES ASSUME ~Discard(c) PROVE WakeInv'
    BY <2>2
  <2>3. \/ owes' = owes /\ done' = done
        \/ c \in owes' /\ owes \subseteq owes'
    BY <1>4 DEF ConsumerStep, NextInBatch, LoadHead, LoadTail, ClosedWhileEmpty,
         ReloadTail, ReloadHead, ClaimOk, ClaimLost, Read, Release, CheckClosed, Leave, Close,
         Clone, DropConsumer
  <2>4. \/ consumerClosed' = consumerClosed
        \/ cpc'[c] = "last"
    BY <1>1, <1>4 DEF ConsumerStep, NextInBatch, LoadHead, LoadTail, ClosedWhileEmpty,
         ReloadTail, ReloadHead, ClaimOk, ClaimLost, Read, Release, CheckClosed, Discard,
         Leave, Close, Clone, DropConsumer
  <2>5. \A d \in Consumers : cpc[d] = "last" => cpc'[d] = "last"
    BY <1>1, <1>4 DEF ConsumerStep, NextInBatch, LoadHead, LoadTail, ClosedWhileEmpty,
         ReloadTail, ReloadHead, ClaimOk, ClaimLost, Read, Release, CheckClosed, Discard,
         Leave, Close, Clone, DropConsumer
  <2>6. dropped' = dropped
    BY <1>4 DEF ConsumerStep, NextInBatch, LoadHead, LoadTail, ClosedWhileEmpty, ReloadTail,
         ReloadHead, ClaimOk, ClaimLost, Read, Release, CheckClosed, Leave, Close, Clone,
         DropConsumer
  <2> QED  BY <2>1, <2>3, <2>4, <2>5, <2>6 DEF WakeInv, HasSpace
<1> QED  BY <1>3, <1>4

LEMMA WakeProducerSide ==
  ASSUME IInv, WakeInv,
         Call \/ ClaimNow \/ ProducerStep \/ DropProducer \/ DropRing \/ UNCHANGED vars
  PROVE  WakeInv'
<1> USE DEF vars, consumers, claiming, batch, parker, closing, producer, HasSpace
<1>1. UNCHANGED <<cpc, owes>>
  BY DEF Call, ClaimNow, ProducerStep, CheckOpen, TryClaim, ArmProducer, ParkProducer,
         DisarmProducer, Write, Abandon, Publish, DropProducer, DropRing
<1>2. ppc' \in {"reopen?", "retry", "park"} =>
        \/ ArmProducer \/ CheckOpen \/ TryClaim \/ UNCHANGED vars
  BY DEF Call, ClaimNow, ProducerStep, CheckOpen, TryClaim, ArmProducer, ParkProducer,
         DisarmProducer, Write, Abandon, Publish, DropProducer, DropRing
<1>3. CASE ppc' \in {"reopen?", "retry", "park"}
  BY <1>1, <1>2, <1>3 DEF WakeInv, ArmProducer, CheckOpen, TryClaim
<1>4. CASE ppc' \notin {"reopen?", "retry", "park"}
  BY <1>1, <1>4 DEF WakeInv
<1> QED  BY <1>3, <1>4

(* Until a consumer is dropped with part of a batch in hand, every release *)
(* that makes room, and the close by the last consumer, is heard by a      *)
(* producer that has armed (DrainWake, SlotRelease, ConsumerClose).        *)
THEOREM ReleaseIsHeard == Spec => []EveryReleaseWakes
<1>1. Init => WakeInv
  BY DEF Init, WakeInv
<1>2. IInv /\ WakeInv /\ [Next]_vars => WakeInv'
  BY WakeConsumer, WakeProducerSide DEF Next, Destroyed
<1>3. WakeInv => EveryReleaseWakes
  BY DEF WakeInv, EveryReleaseWakes
<1> QED  BY InitIInv, NextIInv, <1>1, <1>2, <1>3, PTL DEF Spec
-----------------------------------------------------------------------------
(* Every value once.                                                       *)

(* The positions consumer c has claimed and not read.                      *)
Rest(c) == (IF cpc[c] = "read" THEN At(c) ELSE next[c])..(end[c] - 1)

(* A consumer claims a batch only after the one in hand.                   *)
EmptyHandInv ==
  \A c \in Consumers :
    cpc[c] \in {"claim", "tail", "closed?", "tail2", "head2", "cas"} => next[c] = end[c]

(* A value is only where its position puts it.                             *)
Expected(pos) ==
  \/ pos \in head..(tail - 1)
  \/ ppc = "written" /\ pos = tail
  \/ \E c \in Consumers : pos \in Rest(c)

StoredInv ==
  \A s \in Slots, v \in Nat : data[s] = v =>
    Slot(v) = s /\ ppc # "destroyed" /\ Expected(v)

Spent(pos) == pos \in dropped \/ \E c \in Consumers : pos \in Range(taken[c])

(* What has been claimed is either spent or still in some batch.           *)
SpentInv ==
  /\ \A pos \in Nat : Spent(pos) =>
       (pos < head \/ ppc = "destroyed") /\ \A c \in Consumers : pos \notin Rest(c)
  /\ \A pos \in 0..(head - 1) : Spent(pos) \/ \E c \in Consumers : pos \in Rest(c)
  /\ ppc = "destroyed" => \A pos \in head..(tail - 1) : Spent(pos)

OnceInv ==
  \A c \in Consumers :
    /\ Range(taken[c]) \cap dropped = {}
    /\ \A d \in Consumers : c # d => Range(taken[c]) \cap Range(taken[d]) = {}

ValueInv == EmptyHandInv /\ StoredInv /\ SpentInv /\ OnceInv

LEMMA AppendRange ==
  ASSUME NEW list \in Seq(Nat), NEW v \in Nat
  PROVE  Range(Append(list, v)) = Range(list) \cup {v}
<1>1. /\ DOMAIN list = 1..Len(list) /\ Len(list) \in Nat
      /\ DOMAIN Append(list, v) = 1..(Len(list) + 1)
      /\ \A i \in 1..Len(list) : Append(list, v)[i] = list[i]
      /\ Append(list, v)[Len(list) + 1] = v
  BY AppendProperties, LenProperties
<1>2. ASSUME NEW i \in 1..(Len(list) + 1) PROVE i \in 1..Len(list) \/ i = Len(list) + 1
  BY <1>1
<1> QED  BY <1>1, <1>2 DEF Range

LEMMA InitValues == ASSUME Init PROVE ValueInv
<1> USE DEF Init
<1>1. \A c \in Consumers : Rest(c) = {} /\ Range(taken[c]) = {}
  BY DEF Rest, Range
<1>2. EmptyHandInv /\ StoredInv
  BY SpmcAssumption DEF EmptyHandInv, StoredInv
<1>3. SpentInv /\ OnceInv
  BY <1>1 DEF SpentInv, OnceInv, Spent
<1> QED  BY <1>2, <1>3 DEF ValueInv

(* Steps that move no value and no claim.                                  *)
LEMMA ValuesRest ==
  ASSUME IInv, ValueInv, UNCHANGED <<head, tail, data, taken, dropped>>,
         ppc' = "written" <=> ppc = "written", ppc # "destroyed", ppc' # "destroyed",
         \A c \in Consumers :
           /\ Rest(c)' = Rest(c)
           /\ cpc'[c] \in {"claim", "tail", "closed?", "tail2", "head2", "cas"}
                => next'[c] = end'[c]
  PROVE  ValueInv'
<1>1. EmptyHandInv'
  BY DEF EmptyHandInv
<1>2. StoredInv'
  BY DEF ValueInv, StoredInv, Expected
<1>3. SpentInv' /\ OnceInv'
  BY DEF ValueInv, SpentInv, OnceInv, Spent
<1> QED  BY <1>1, <1>2, <1>3 DEF ValueInv

LEMMA ValuesProducer ==
  ASSUME IInv, ValueInv,
         \/ Call \/ ClaimNow \/ CheckOpen \/ TryClaim \/ ArmProducer \/ ParkProducer
         \/ DisarmProducer \/ DropProducer
  PROVE  ValueInv'
<1> USE DEF consumers, batch
<1>1. UNCHANGED <<head, tail, data, taken, dropped, cpc, next, end>>
  BY DEF Call, ClaimNow, CheckOpen, TryClaim, ArmProducer, ParkProducer, DisarmProducer,
         DropProducer
<1>2. /\ ppc' = "written" <=> ppc = "written"
      /\ ppc' # "destroyed" /\ ppc # "destroyed"
  BY DEF Call, ClaimNow, CheckOpen, TryClaim, ArmProducer, ParkProducer, DisarmProducer,
         DropProducer
<1>3. \A c \in Consumers : Rest(c)' = Rest(c)
  BY <1>1 DEF Rest, At
<1>4. \A c \in Consumers :
        cpc'[c] \in {"claim", "tail", "closed?", "tail2", "head2", "cas"} => next'[c] = end'[c]
  BY <1>1 DEF ValueInv, EmptyHandInv
<1> QED  BY <1>1, <1>2, <1>3, <1>4, ValuesRest

LEMMA ValuesWriter ==
  ASSUME IInv, ValueInv, Write \/ Abandon \/ Publish PROVE ValueInv'
<1> USE DEF consumers, batch
<1>1. /\ tail \in Nat /\ head \in Nat /\ head <= tail /\ Slot(tail) \in Slots
      /\ data \in [Slots -> Nat \cup {NoValue}]
  BY SlotType DEF IInv, TypeOK, CursorInv
<1>2. /\ UNCHANGED <<head, taken, dropped, cpc, next, end>>
      /\ ppc # "destroyed" /\ ppc' # "destroyed"
  BY DEF Write, Abandon, Publish
<1>3. \A c \in Consumers : Rest(c)' = Rest(c)
  BY <1>2 DEF Rest, At
<1>4. EmptyHandInv' /\ SpentInv' /\ OnceInv'
  BY <1>2, <1>3 DEF ValueInv, EmptyHandInv, SpentInv, OnceInv, Spent
<1>5. StoredInv'
  <2> SUFFICES ASSUME NEW s \in Slots, NEW v \in Nat, data'[s] = v
               PROVE  Slot(v) = s /\ Expected(v)'
    BY <1>2 DEF StoredInv
  <2>1. data[s] = v => Slot(v) = s /\ Expected(v)
    BY DEF ValueInv, StoredInv
  <2>2. CASE Write
    <3>1. /\ data' = [data EXCEPT ![Slot(tail)] = tail] /\ ppc' = "written" /\ tail' = tail
          /\ ppc = "write"
      BY <2>2 DEF Write
    <3>2. CASE s = Slot(tail)
      BY <1>1, <3>1, <3>2 DEF Expected
    <3>3. CASE s # Slot(tail)
      BY <1>1, <1>2, <1>3, <2>1, <3>1, <3>3 DEF Expected
    <3> QED  BY <3>2, <3>3
  <2>3. CASE Abandon
    <3>1. /\ data' = [data EXCEPT ![Slot(tail)] = NoValue] /\ tail' = tail
      BY <2>3 DEF Abandon
    <3>2. s # Slot(tail) /\ data[s] = v
      BY <1>1, <3>1, SpmcAssumption
    <3>3. v # tail
      BY <2>1, <3>2
    <3> QED  BY <1>1, <1>2, <1>3, <2>1, <3>1, <3>2, <3>3 DEF Expected
  <2>4. CASE Publish
    <3>1. data' = data /\ tail' = tail + 1 /\ ppc = "written"
      BY <2>4 DEF Publish
    <3> QED  BY <1>1, <1>2, <1>3, <2>1, <3>1 DEF Expected
  <2> QED  BY <2>2, <2>3, <2>4
<1> QED  BY <1>4, <1>5 DEF ValueInv

LEMMA ValuesConsumerQuiet ==
  ASSUME IInv, ValueInv, NEW c \in Consumers,
         \/ LoadHead(c) \/ LoadTail(c) \/ ClosedWhileEmpty(c) \/ ReloadTail(c)
         \/ ReloadHead(c) \/ ClaimLost(c) \/ WakeProducer(c) \/ CheckClosed(c)
         \/ Leave(c) \/ Close(c) \/ Clone(c) \/ DropConsumer(c)
         \/ NextInBatch(c) \/ Release(c)
  PROVE  ValueInv'
<1> USE DEF ring, others, producer, claiming, batch, parker, closing, Goto
<1>1. /\ cpc \in [Consumers -> ConsumerSteps] /\ next \in [Consumers -> Nat]
      /\ \A d \in Consumers : end[d] \in Nat /\ next[d] <= end[d]
  BY DEF IInv, TypeOK, CursorInv
<1>2. /\ UNCHANGED <<head, tail, data, taken, dropped, ppc, end>>
      /\ \A d \in Consumers \ {c} : cpc'[d] = cpc[d] /\ next'[d] = next[d]
  BY <1>1 DEF LoadHead, LoadTail, ClosedWhileEmpty, ReloadTail, ReloadHead, ClaimLost,
         WakeProducer, CheckClosed, Leave, Close, Clone, DropConsumer, NextInBatch, Release
<1>3. ppc # "destroyed"
  <2>1. ppc = "destroyed" => cpc[c] \in {"new", "out"} /\ live = {}
    BY DEF IInv, GoneInv
  <2>2. cpc[c] # "out" /\ (cpc[c] = "new" => live # {})
    BY DEF LoadHead, LoadTail, ClosedWhileEmpty, ReloadTail, ReloadHead, ClaimLost,
           WakeProducer, CheckClosed, Leave, Close, Clone, DropConsumer, NextInBatch, Release
  <2> QED  BY <2>1, <2>2
<1>4. Rest(c)' = Rest(c)
  <2>1. CASE NextInBatch(c)
    BY <1>1, <2>1 DEF NextInBatch, Rest, At
  <2>2. CASE ~NextInBatch(c)
    <3>1. next'[c] = next[c] /\ cpc[c] # "read" /\ cpc'[c] # "read"
      BY <1>1, <2>2 DEF LoadHead, LoadTail, ClosedWhileEmpty, ReloadTail, ReloadHead, ClaimLost,
         WakeProducer, CheckClosed, Leave, Close, Clone, DropConsumer, Release, FoundNothing
    <3> QED  BY <1>2, <3>1 DEF Rest
  <2> QED  BY <2>1, <2>2
<1>5. \A d \in Consumers \ {c} : Rest(d)' = Rest(d)
  BY <1>2 DEF Rest, At
<1>6. cpc'[c] \in {"claim", "tail", "closed?", "tail2", "head2", "cas"} => next'[c] = end'[c]
  <2>1. cpc[c] \in {"claim", "tail", "closed?", "tail2", "head2", "cas"} => next[c] = end[c]
    BY DEF ValueInv, EmptyHandInv
  <2>2. CASE LoadHead(c)
    BY <1>1, <2>1, <2>2 DEF LoadHead
  <2>3. CASE LoadTail(c) \/ ClosedWhileEmpty(c) \/ ReloadTail(c) \/ ReloadHead(c) \/ ClaimLost(c)
    BY <1>1, <2>1, <2>3 DEF LoadTail, ClosedWhileEmpty, ReloadTail, ReloadHead, ClaimLost
  <2>4. CASE \/ WakeProducer(c) \/ CheckClosed(c) \/ Leave(c) \/ Close(c) \/ Clone(c)
             \/ DropConsumer(c) \/ NextInBatch(c) \/ Release(c)
    BY <1>1, <2>4 DEF WakeProducer, CheckClosed, Leave, Close, Clone, DropConsumer, NextInBatch,
                      Release
  <2> QED  BY <2>2, <2>3, <2>4
<1>7. \A d \in Consumers :
        /\ Rest(d)' = Rest(d)
        /\ cpc'[d] \in {"claim", "tail", "closed?", "tail2", "head2", "cas"} => next'[d] = end'[d]
  BY <1>2, <1>4, <1>5, <1>6 DEF ValueInv, EmptyHandInv
<1> QED  BY <1>2, <1>3, <1>7, ValuesRest

LEMMA ValuesClaim ==
  ASSUME IInv, ValueInv, NEW c \in Consumers, ClaimOk(c) PROVE ValueInv'
<1> USE DEF others, producer, claiming, Goto
<1> DEFINE n == Take(c)
<1>1. /\ head \in Nat /\ tail \in Nat /\ n \in Nat /\ next[c] = end[c] /\ end[c] \in Nat
      /\ ppc # "destroyed"
  <2>1. /\ head \in Nat /\ tail \in Nat /\ seen[c] \in Nat /\ cachedTail[c] \in Nat
        /\ end[c] \in Nat /\ cpc[c] = "cas" /\ seen[c] < cachedTail[c]
    BY DEF ClaimOk, IInv, TypeOK, CursorInv
  <2>2. n \in Nat
    BY <2>1, SpmcAssumption DEF Take
  <2>3. next[c] = end[c] /\ ppc # "destroyed"
    BY <2>1 DEF IInv, GoneInv, ValueInv, EmptyHandInv
  <2> QED  BY <2>1, <2>2, <2>3
<1>2. /\ head' = head + n /\ UNCHANGED <<tail, data, taken, dropped, ppc>>
      /\ cpc' = [cpc EXCEPT ![c] = "read"] /\ cpc \in [Consumers -> ConsumerSteps]
      /\ next' = [next EXCEPT ![c] = head + 1] /\ next \in [Consumers -> Nat]
      /\ end' = [end EXCEPT ![c] = head + n] /\ end \in [Consumers -> Nat]
      /\ cpc[c] = "cas"
  BY DEF ClaimOk, IInv, TypeOK
<1> HIDE DEF n
<1>3. Rest(c) = {} /\ Rest(c)' = head..(head + n - 1)
  BY <1>1, <1>2 DEF Rest, At
<1>4. \A d \in Consumers \ {c} : Rest(d)' = Rest(d)
  BY <1>2 DEF Rest, At
<1>5. EmptyHandInv'
  BY <1>2 DEF ValueInv, EmptyHandInv
<1>6. StoredInv'
  <2> SUFFICES ASSUME NEW s \in Slots, NEW v \in Nat, data[s] = v
               PROVE  Slot(v) = s /\ Expected(v)'
    BY <1>1, <1>2 DEF StoredInv
  <2>1. Slot(v) = s /\ Expected(v)
    BY DEF ValueInv, StoredInv
  <2>2. CASE v \in head..(tail - 1)
    <3>1. v \in Rest(c)' \/ v \in head'..(tail' - 1)
      BY <1>1, <1>2, <1>3, <2>2
    <3> QED  BY <2>1, <3>1 DEF Expected
  <2>3. CASE v \notin head..(tail - 1)
    BY <1>2, <1>3, <1>4, <2>1, <2>3 DEF Expected
  <2> QED  BY <2>2, <2>3
<1>7. SpentInv'
  <2>1. ASSUME NEW pos \in Nat, Spent(pos)' PROVE pos < head' /\ \A d \in Consumers : pos \notin Rest(d)'
    <3>1. Spent(pos)
      BY <1>2, <2>1 DEF Spent
    <3>2. pos < head /\ \A d \in Consumers : pos \notin Rest(d)
      BY <1>1, <3>1 DEF ValueInv, SpentInv
    <3> QED  BY <1>1, <1>2, <1>3, <1>4, <3>2
  <2>2. ASSUME NEW pos \in 0..(head' - 1) PROVE Spent(pos)' \/ \E d \in Consumers : pos \in Rest(d)'
    <3>1. CASE pos < head
      <4>1. Spent(pos) \/ \E d \in Consumers : pos \in Rest(d)
        BY <1>1, <3>1 DEF ValueInv, SpentInv
      <4> QED  BY <1>2, <1>3, <1>4, <4>1 DEF Spent
    <3>2. CASE pos >= head
      BY <1>1, <1>2, <1>3, <3>2
    <3> QED  BY <1>1, <1>2, <3>1, <3>2
  <2> QED  BY <1>1, <1>2, <2>1, <2>2 DEF SpentInv
<1>8. OnceInv'
  BY <1>2 DEF ValueInv, OnceInv
<1> QED  BY <1>5, <1>6, <1>7, <1>8 DEF ValueInv

(* The next position of a batch is spent and its slot emptied.             *)
LEMMA ValuesSpend ==
  ASSUME IInv, ValueInv, NEW c \in Consumers, NEW x \in Rest(c), x \in Nat, x < head,
         Rest(c)' = Rest(c) \ {x}, \A d \in Consumers \ {c} : Rest(d)' = Rest(d),
         \A d \in Consumers \ {c} : x \notin Rest(d),
         data' = [data EXCEPT ![Slot(x)] = NoValue],
         UNCHANGED <<head, tail, ppc, next, end>> \/ UNCHANGED <<head, tail, ppc, cpc>>,
         \A d \in Consumers :
           cpc'[d] \in {"claim", "tail", "closed?", "tail2", "head2", "cas"} => next'[d] = end'[d],
         \A pos \in Nat : Spent(pos)' <=> Spent(pos) \/ pos = x,
         OnceInv'
  PROVE  ValueInv'
<1>1. /\ head \in Nat /\ tail \in Nat /\ head <= tail /\ Slot(x) \in Slots
      /\ data \in [Slots -> Nat \cup {NoValue}] /\ UNCHANGED <<head, tail, ppc>>
  BY SlotType DEF IInv, TypeOK, CursorInv
<1>2. StoredInv'
  <2> SUFFICES ASSUME NEW s \in Slots, NEW v \in Nat, data'[s] = v
               PROVE  Slot(v) = s /\ ppc # "destroyed" /\ Expected(v)'
    BY <1>1 DEF StoredInv
  <2>1. data[s] = v /\ s # Slot(x)
    BY <1>1, SpmcAssumption
  <2>2. Slot(v) = s /\ ppc # "destroyed" /\ Expected(v)
    BY <2>1 DEF ValueInv, StoredInv
  <2>3. v # x
    BY <2>1, <2>2
  <2> QED  BY <1>1, <2>2, <2>3 DEF Expected
<1>3. SpentInv'
  <2>1. ASSUME NEW pos \in Nat, Spent(pos)'
        PROVE  (pos < head \/ ppc = "destroyed") /\ \A d \in Consumers : pos \notin Rest(d)'
    <3>1. CASE pos = x
      BY <3>1
    <3>2. CASE pos # x
      <4>1. Spent(pos)
        BY <2>1, <3>2
      <4> QED  BY <3>2, <4>1 DEF ValueInv, SpentInv
    <3> QED  BY <3>1, <3>2
  <2>2. ASSUME NEW pos \in 0..(head - 1) PROVE Spent(pos)' \/ \E d \in Consumers : pos \in Rest(d)'
    <3>1. pos \in Nat /\ (Spent(pos) \/ \E d \in Consumers : pos \in Rest(d))
      BY <1>1 DEF ValueInv, SpentInv
    <3> QED  BY <3>1
  <2>3. ppc = "destroyed" => \A pos \in head..(tail - 1) : Spent(pos)'
    BY <1>1 DEF ValueInv, SpentInv
  <2> QED  BY <1>1, <2>1, <2>2, <2>3 DEF SpentInv
<1> QED  BY <1>2, <1>3 DEF ValueInv, EmptyHandInv

(* Nobody else's.                                                          *)
LEMMA RestOwned ==
  ASSUME IInv, NEW c \in Consumers, NEW x \in Rest(c)
  PROVE  /\ x \in Owned(c) /\ x \in Nat /\ x < head /\ data[Slot(x)] = x
         /\ \A d \in Consumers \ {c} : x \notin Rest(d)
<1>1. \A d \in Consumers : Rest(d) \subseteq Owned(d)
  BY DEF Rest, Owned, At, IInv, TypeOK
<1>2. x \in Owned(c) /\ x \in Nat /\ x < head
  BY <1>1, OwnedRange
<1>3. data[Slot(x)] = x
  <2>1. ~(cpc[c] = "release" /\ x = At(c))
    BY DEF Rest, At, IInv, TypeOK
  <2> QED  BY <1>2, <2>1 DEF IInv, OwnedInv
<1>4. \A d \in Consumers \ {c} : x \notin Rest(d)
  BY <1>1, <1>2 DEF IInv, DisjointInv
<1> QED  BY <1>2, <1>3, <1>4

LEMMA ValuesRead ==
  ASSUME IInv, ValueInv, NEW c \in Consumers, Read(c) PROVE ValueInv'
<1> USE DEF others, producer, claiming, batch, Goto
<1>1. PICK x \in Nat : x = At(c) /\ x \in Owned(c) /\ next[c] = x + 1
  BY InHand, OwnedRange DEF Read
<1>2. /\ cpc[c] = "read" /\ cpc' = [cpc EXCEPT ![c] = "release"]
      /\ cpc \in [Consumers -> ConsumerSteps]
      /\ UNCHANGED <<head, tail, ppc, next, end, dropped>> /\ end[c] \in Nat
  BY DEF Read, IInv, TypeOK
<1>3. Rest(c) = x..(end[c] - 1) /\ Rest(c)' = (x + 1)..(end[c] - 1) /\ x \in Rest(c)
  BY <1>1, <1>2 DEF Rest, Owned
<1>4. Rest(c)' = Rest(c) \ {x} /\ \A d \in Consumers \ {c} : Rest(d)' = Rest(d)
  <2>1. Rest(c)' = Rest(c) \ {x}
    BY <1>1, <1>2, <1>3
  <2>2. \A d \in Consumers \ {c} : Rest(d)' = Rest(d)
    BY <1>2 DEF Rest, At
  <2> QED  BY <2>1, <2>2
<1>5. /\ data[Slot(x)] = x /\ x < head /\ ~Spent(x)
      /\ \A d \in Consumers \ {c} : x \notin Rest(d)
  BY <1>3, RestOwned DEF ValueInv, SpentInv
<1>6. /\ data' = [data EXCEPT ![Slot(x)] = NoValue]
      /\ taken' = [taken EXCEPT ![c] = Append(taken[c], x)]
      /\ taken \in [Consumers -> Seq(Nat)]
  BY <1>1, <1>5 DEF Read, IInv, TypeOK
<1>7. /\ Range(taken'[c]) = Range(taken[c]) \cup {x}
      /\ \A d \in Consumers \ {c} : Range(taken'[d]) = Range(taken[d])
  BY <1>6, AppendRange
<1>8. \A pos \in Nat : Spent(pos)' <=> Spent(pos) \/ pos = x
  BY <1>2, <1>7 DEF Spent
<1>9. OnceInv'
  BY <1>2, <1>5, <1>7 DEF ValueInv, OnceInv, Spent
<1>10. \A d \in Consumers :
         cpc'[d] \in {"claim", "tail", "closed?", "tail2", "head2", "cas"} => next'[d] = end'[d]
  BY <1>2 DEF ValueInv, EmptyHandInv
<1> QED  BY <1>2, <1>3, <1>4, <1>5, <1>6, <1>8, <1>9, <1>10, ValuesSpend

LEMMA ValuesDiscard ==
  ASSUME IInv, ValueInv, NEW c \in Consumers, Discard(c) PROVE ValueInv'
<1> USE DEF others, producer, claiming
<1>1. PICK x \in Nat : x = next[c] /\ x < end[c] /\ end[c] \in Nat
  BY DEF Discard, IInv, TypeOK
<1>2. /\ cpc[c] = "drop" /\ next' = [next EXCEPT ![c] = x + 1] /\ next \in [Consumers -> Nat]
      /\ UNCHANGED <<head, tail, ppc, cpc, end, taken>>
      /\ data' = [data EXCEPT ![Slot(x)] = NoValue]
      /\ dropped' = dropped \cup {data[Slot(x)]}
  BY <1>1 DEF Discard, IInv, TypeOK
<1>3. Rest(c) = x..(end[c] - 1) /\ Rest(c)' = (x + 1)..(end[c] - 1) /\ x \in Rest(c)
  BY <1>1, <1>2 DEF Rest
<1>4. Rest(c)' = Rest(c) \ {x} /\ \A d \in Consumers \ {c} : Rest(d)' = Rest(d)
  <2>1. Rest(c)' = Rest(c) \ {x}
    BY <1>1, <1>2, <1>3
  <2>2. \A d \in Consumers \ {c} : Rest(d)' = Rest(d)
    BY <1>2 DEF Rest, At
  <2> QED  BY <2>1, <2>2
<1>5. /\ data[Slot(x)] = x /\ x < head /\ ~Spent(x)
      /\ \A d \in Consumers \ {c} : x \notin Rest(d)
  BY <1>3, RestOwned DEF ValueInv, SpentInv
<1>6. \A pos \in Nat : Spent(pos)' <=> Spent(pos) \/ pos = x
  BY <1>2, <1>5 DEF Spent
<1>7. OnceInv'
  BY <1>2, <1>5 DEF ValueInv, OnceInv, Spent
<1>8. \A d \in Consumers :
         cpc'[d] \in {"claim", "tail", "closed?", "tail2", "head2", "cas"} => next'[d] = end'[d]
  BY <1>2 DEF ValueInv, EmptyHandInv
<1> QED  BY <1>2, <1>3, <1>4, <1>5, <1>6, <1>7, <1>8, ValuesSpend

(* Freeing the ring: its values are those between the cursors.             *)
LEMMA ValuesDropRing == ASSUME IInv, ValueInv, DropRing PROVE ValueInv'
<1> USE DEF claiming, batch
<1> DEFINE left == {pos \in head..(tail - 1) : done[Slot(pos)] # pos + Capacity}
<1>1. /\ ppc = "gone" /\ ppc' = "destroyed" /\ UNCHANGED <<head, tail, cpc, next, end, taken>>
      /\ dropped' = dropped \cup {data[Slot(pos)] : pos \in left}
      /\ data' = [s \in Slots |-> IF \E pos \in left : Slot(pos) = s THEN NoValue ELSE data[s]]
      /\ head \in Nat /\ tail \in Nat /\ head <= tail /\ data \in [Slots -> Nat \cup {NoValue}]
  BY DEF DropRing, IInv, TypeOK, CursorInv
<1>2. left = head..(tail - 1) /\ \A pos \in head..(tail - 1) : data[Slot(pos)] = pos
  <2>1. \A pos \in head..(tail - 1) :
          pos \in Nat /\ done[Slot(pos)] = pos /\ data[Slot(pos)] = pos
    BY <1>1 DEF IInv, UnreadInv
  <2> QED  BY <2>1, CapacityAssumption
<1> HIDE DEF left
<1>3. dropped' = dropped \cup (head..(tail - 1))
  BY <1>1, <1>2
<1>4. \A c \in Consumers : Rest(c) = {} /\ Rest(c)' = {}
  <2>1. \A c \in Consumers : next[c] = end[c] /\ next[c] \in Nat /\ cpc[c] \in {"new", "out"}
    BY DEF DropRing, IInv, TypeOK, CursorInv
  <2> QED  BY <1>1, <2>1 DEF Rest
<1>5. \A s \in Slots : data'[s] = NoValue
  <2> SUFFICES ASSUME NEW s \in Slots, data[s] \in Nat PROVE \E pos \in left : Slot(pos) = s
    BY <1>1
  <2>1. PICK v \in Nat : v = data[s]
    OBVIOUS
  <2>2. Slot(v) = s /\ v \in head..(tail - 1)
    BY <1>1, <1>4, <2>1 DEF ValueInv, StoredInv, Expected
  <2> QED  BY <1>2, <2>2
<1>6. EmptyHandInv' /\ StoredInv'
  BY <1>1, <1>5, SpmcAssumption DEF ValueInv, EmptyHandInv, StoredInv
<1>7. SpentInv'
  BY <1>1, <1>3, <1>4 DEF ValueInv, SpentInv, Spent
<1>8. OnceInv'
  <2>1. \A c \in Consumers, pos \in head..(tail - 1) : pos \notin Range(taken[c])
    BY <1>1 DEF ValueInv, SpentInv, Spent
  <2> QED  BY <1>1, <1>3, <2>1 DEF ValueInv, OnceInv
<1> QED  BY <1>6, <1>7, <1>8 DEF ValueInv

LEMMA ValuesStep == ASSUME IInv, ValueInv, [Next]_vars PROVE ValueInv'
<1>1. ASSUME NEW c \in Consumers, ConsumerStep(c) \/ Clone(c) \/ DropConsumer(c) PROVE ValueInv'
  BY <1>1, ValuesConsumerQuiet, ValuesClaim, ValuesRead, ValuesDiscard DEF ConsumerStep
<1>2. CASE UNCHANGED vars
  BY <1>2 DEF vars, producer, batch, ValueInv, EmptyHandInv, StoredInv, Expected, SpentInv,
              Spent, OnceInv, Rest, At
<1> QED
  BY <1>1, <1>2, ValuesProducer, ValuesWriter, ValuesDropRing DEF Next, ProducerStep, Destroyed

LEMMA ValuesSuffice == ASSUME IInv, ValueInv PROVE ExactlyOnce
<1> DEFINE stored == Range(data) \ {NoValue}
           delivered == UNION {Range(taken[c]) : c \in Consumers}
<1>1. /\ head \in Nat /\ tail \in Nat /\ head <= tail /\ dropped \subseteq Nat
      /\ data \in [Slots -> Nat \cup {NoValue}]
  BY DEF IInv, TypeOK, CursorInv
<1>2. \A pos : Spent(pos) <=> pos \in delivered \cup dropped
  BY DEF Spent
<1>3. ASSUME NEW v \in stored PROVE v \in Nat /\ ~Spent(v) /\ ppc # "destroyed"
  <2>1. PICK s \in Slots : data[s] = v /\ v \in Nat
    BY <1>1 DEF Range
  <2>2. ppc # "destroyed" /\ Expected(v)
    BY <2>1 DEF ValueInv, StoredInv
  <2> QED  BY <1>1, <2>1, <2>2 DEF ValueInv, SpentInv, Expected
<1>4. ASSUME NEW pos \in 0..(tail - 1) PROVE pos \in stored \/ Spent(pos)
  <2>1. ASSUME data[Slot(pos)] = pos PROVE pos \in stored
    BY <1>1, <2>1, SlotType, SpmcAssumption DEF Range
  <2>2. CASE pos < head
    BY <1>1, <2>1, <2>2, RestOwned DEF ValueInv, SpentInv
  <2>3. CASE pos >= head
    BY <1>1, <2>1, <2>3 DEF IInv, UnreadInv, ValueInv, SpentInv
  <2> QED  BY <1>1, <2>2, <2>3
<1>5. /\ delivered \cap dropped = {}
      /\ \A c, d \in Consumers : c # d => Range(taken[c]) \cap Range(taken[d]) = {}
  BY DEF ValueInv, OnceInv
<1>6. NoValue \notin dropped
  BY <1>1, SpmcAssumption
<1> HIDE DEF stored, delivered
<1>7. /\ 0..(tail - 1) \subseteq stored \cup delivered \cup dropped
      /\ stored \cap delivered = {} /\ stored \cap dropped = {} /\ delivered \cap dropped = {}
      /\ ppc = "destroyed" => stored = {}
  BY <1>2, <1>3, <1>4, <1>5
<1> QED  BY <1>5, <1>6, <1>7 DEF ExactlyOnce, stored, delivered

(* Every published value is delivered to one consumer or dropped, once,    *)
(* with any number of consumers claiming, draining, being cloned and being *)
(* dropped in the middle of a batch, and none outlives the ring            *)
(* (spmc/consumer.rs; Consumer::drop and RingBuffer::drop).                *)
THEOREM EachValueOnce == Spec => []ExactlyOnce
<1> QED  BY InitIInv, NextIInv, InitValues, ValuesStep, ValuesSuffice, PTL DEF Spec
=============================================================================
