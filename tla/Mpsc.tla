-------------------------------- MODULE Mpsc --------------------------------
(***************************************************************************)
(* The lock-free ring of mpsc/: many producers, one consumer, no blocking. *)
(* One action per atomic access to shared memory, so that every            *)
(* interleaving of claims, writes, publications, reads, releases and drops *)
(* is a behaviour.  The wake that follows a publication or a release reads *)
(* and writes no ring state; MpscBlocking adds it.                         *)
(*                                                                         *)
(* Memory is sequentially consistent: the value and the word of a slot are *)
(* ordered by Release stores and Acquire loads of that word, and a claim   *)
(* is a read-modify-write.                                                 *)
(***************************************************************************)
EXTENDS Cursors, Sequences, FiniteSets, SequencesExt

CONSTANTS
  Producers,   \* producer handles, one thread each
  MaxSends     \* bound: positions each producer claims

ASSUME MpscAssumption == MaxSends \in Nat

(* The n-th value of producer p is <<p, n>>; <<>> is an empty slot.        *)
Values == Producers \X (1..MaxSends)
NoValue == <<>>

(* The sequence word: free for pos, published at pos, or abandoned at some *)
(* lap.  No position reaches the word that stands for usize::MAX.          *)
FreeAt(pos) == 2 * pos
PublishedAt(pos) == 2 * pos + 1
Tombstone == -1

VARIABLES
  head, tail,  \* the cursors
  seq,         \* per slot: the sequence word
  data,        \* per slot: the live value in it, or NoValue
  pc,          \* per producer: the next step
  cur,         \* per producer: claim_slot's current_tail, then the position
  cached,      \* per producer: cached_head
  sent,        \* per producer: positions claimed so far
  live,        \* EndpointCount: producers not dropped
  cpc,         \* the consumer's next step
  next,        \* the consumer's position (BatchRelease::position)
  consumer,    \* "live", "dropping" or "gone"; then "destroyed": the ring
  taken,       \* values delivered, in order
  dropped,     \* values dropped undelivered
  written      \* history: every value a producer has written

producerVars == <<pc, cur, cached, sent, live, written>>
consumerVars == <<cpc, next, consumer, taken>>
vars == <<head, tail, seq, data, pc, cur, cached, sent, live,
          cpc, next, consumer, taken, dropped, written>>

ProducerSteps == {"idle", "head", "cas", "claimed", "written", "void"}
ConsumerSteps == {"poll", "ready", "void", "release"}

TypeOK ==
  /\ head \in Nat /\ tail \in Nat /\ next \in Nat
  /\ seq \in [Slots -> {Tombstone} \cup Nat]
  /\ data \in [Slots -> Values \cup {NoValue}]
  /\ pc \in [Producers -> ProducerSteps]
  /\ cur \in [Producers -> Nat] /\ cached \in [Producers -> Nat]
  /\ sent \in [Producers -> 0..MaxSends]
  /\ live \subseteq Producers
  /\ cpc \in ConsumerSteps
  /\ consumer \in {"live", "dropping", "gone", "destroyed"}
  /\ taken \in Seq(Values) /\ dropped \subseteq Values /\ written \subseteq Values

(* split() hands out one producer; the others are cloned from it.          *)
Init ==
  /\ head = 0 /\ tail = 0
  /\ seq = [s \in Slots |-> FreeAt(s)]
  /\ data = [s \in Slots |-> NoValue]
  /\ pc = [p \in Producers |-> "idle"]
  /\ cur = [p \in Producers |-> 0]
  /\ cached = [p \in Producers |-> 0]
  /\ sent = [p \in Producers |-> 0]
  /\ \E p \in Producers : live = {p}
  /\ cpc = "poll" /\ next = 0 /\ consumer = "live"
  /\ taken = <<>> /\ dropped = {} /\ written = {}

-----------------------------------------------------------------------------
(* Producers: claim_slot.                                                  *)

Goto(p, step) == pc' = [pc EXCEPT ![p] = step]

LoadTail(p) ==
  /\ p \in live /\ pc[p] = "idle" /\ sent[p] < MaxSends
  /\ cur' = [cur EXCEPT ![p] = tail]
  /\ Goto(p, IF NoRoom(tail, cached[p]) THEN "head" ELSE "cas")
  /\ UNCHANGED <<head, tail, seq, data, cached, sent, live, written, consumerVars, dropped>>

(* Refresh cached_head; give up if the ring still looks full.              *)
LoadHead(p) ==
  /\ pc[p] = "head"
  /\ cached' = [cached EXCEPT ![p] = head]
  /\ Goto(p, IF NoRoom(cur[p], head) THEN "idle" ELSE "cas")
  /\ UNCHANGED <<head, tail, seq, data, cur, sent, live, written, consumerVars, dropped>>

(* Mutant: the tail is stored, not compared and exchanged.                 *)
ClaimByStore(p) ==
  /\ pc[p] = "cas"
  /\ tail' = cur[p] + 1
  /\ sent' = [sent EXCEPT ![p] = @ + 1]
  /\ Goto(p, "claimed")
  /\ UNCHANGED <<head, seq, data, cur, cached, live, written, consumerVars, dropped>>

(* The compare-exchange.  A spurious failure of the weak form re-reads the *)
(* same tail and is a stuttering step.                                     *)
ClaimOk(p) ==
  /\ pc[p] = "cas" /\ tail = cur[p]
  /\ tail' = tail + 1
  /\ sent' = [sent EXCEPT ![p] = @ + 1]
  /\ Goto(p, "claimed")
  /\ UNCHANGED <<head, seq, data, cur, cached, live, written, consumerVars, dropped>>

ClaimLost(p) ==
  /\ pc[p] = "cas" /\ tail # cur[p]
  /\ cur' = [cur EXCEPT ![p] = tail]
  /\ Goto(p, IF NoRoom(tail, cached[p]) THEN "head" ELSE "cas")
  /\ UNCHANGED <<head, tail, seq, data, cached, sent, live, written, consumerVars, dropped>>

(* Producers: push, SlotWriter, WrittenSlot.                               *)

Value(p) == <<p, sent[p]>>

Write(p) ==
  /\ pc[p] = "claimed"
  /\ data' = [data EXCEPT ![Slot(cur[p])] = Value(p)]
  /\ written' = written \cup {Value(p)}
  /\ Goto(p, "written")
  /\ UNCHANGED <<head, tail, seq, cur, cached, sent, live, consumerVars, dropped>>

(* push, commit, commit_unchecked: SlotSequence::publish.                  *)
Publish(p) ==
  /\ pc[p] = "written"
  /\ seq' = [seq EXCEPT ![Slot(cur[p])] = PublishedAt(cur[p])]
  /\ Goto(p, "idle")
  /\ UNCHANGED <<head, tail, data, cur, cached, sent, live, written, consumerVars, dropped>>

(* WrittenSlot dropped: the value goes first, then the tombstone.          *)
DropWritten(p) ==
  /\ pc[p] = "written"
  /\ data' = [data EXCEPT ![Slot(cur[p])] = NoValue]
  /\ dropped' = dropped \cup {data[Slot(cur[p])]}
  /\ Goto(p, "void")
  /\ UNCHANGED <<head, tail, seq, cur, cached, sent, live, written, consumerVars>>

(* Mutant: a reservation is dropped without a tombstone.                   *)
Forsake(p) ==
  /\ pc[p] \in {"claimed", "void"}
  /\ Goto(p, "idle")
  /\ UNCHANGED <<head, tail, seq, data, cur, cached, sent, live, written, consumerVars, dropped>>

(* The tombstone, of a SlotWriter dropped unwritten or after DropWritten.  *)
Abandon(p) ==
  /\ pc[p] \in {"claimed", "void"}
  /\ seq' = [seq EXCEPT ![Slot(cur[p])] = Tombstone]
  /\ Goto(p, "idle")
  /\ UNCHANGED <<head, tail, data, cur, cached, sent, live, written, consumerVars, dropped>>

(* A live producer clones itself; the clone starts with cached_head 0.     *)
Clone(p) ==
  /\ live # {} /\ p \notin live
  /\ live' = live \cup {p}
  /\ cached' = [cached EXCEPT ![p] = 0]
  /\ UNCHANGED <<head, tail, seq, data, pc, cur, sent, written, consumerVars, dropped>>

DropProducer(p) ==
  /\ p \in live /\ pc[p] = "idle"
  /\ live' = live \ {p}
  /\ UNCHANGED <<head, tail, seq, data, pc, cur, cached, sent, written, consumerVars, dropped>>

ProducerNext(p) ==
  \/ LoadTail(p) \/ LoadHead(p) \/ ClaimOk(p) \/ ClaimLost(p)
  \/ Write(p) \/ Publish(p) \/ DropWritten(p) \/ Abandon(p)
  \/ Clone(p) \/ DropProducer(p)

-----------------------------------------------------------------------------
(* The consumer.  pop and pop_ref release and publish one position at a    *)
(* time; drain and drain_up_to release any number and publish the head     *)
(* once, at their end or when the callback panics: from "poll" with        *)
(* released positions the consumer may go on or publish.                   *)

(* SlotSequence::classify at the consumer's position; NotReady changes     *)
(* nothing.                                                                *)
Classify ==
  /\ cpc = "poll"
  /\ consumer = "live" \/ (consumer = "dropping" /\ head = next)
  /\ \/ seq[Slot(next)] = Tombstone /\ cpc' = "void"
     \/ seq[Slot(next)] = PublishedAt(next) /\ cpc' = "ready"
  /\ UNCHANGED <<head, tail, seq, data, producerVars, next, consumer, taken, dropped>>

(* The value is moved out: delivered, or dropped by Consumer::drop.        *)
TakeValue ==
  /\ cpc = "ready"
  /\ data' = [data EXCEPT ![Slot(next)] = NoValue]
  /\ IF consumer = "live"
     THEN taken' = Append(taken, data[Slot(next)]) /\ UNCHANGED dropped
     ELSE dropped' = dropped \cup {data[Slot(next)]} /\ UNCHANGED taken
  /\ cpc' = "release"
  /\ UNCHANGED <<head, tail, seq, producerVars, next, consumer>>

(* SlotSequence::release, then BatchRelease::take or skip.                 *)
ReleaseSlot ==
  /\ cpc \in {"release", "void"}
  /\ seq' = [seq EXCEPT ![Slot(next)] = FreeAt(next + Capacity)]
  /\ next' = next + 1
  /\ cpc' = "poll"
  /\ UNCHANGED <<head, tail, data, producerVars, consumer, taken, dropped>>

PublishHead ==
  /\ cpc = "poll" /\ head # next
  /\ head' = next
  /\ UNCHANGED <<tail, seq, data, producerVars, consumerVars, dropped>>

(* Consumer::drop pops until the head position is not ready.               *)
DropConsumer ==
  /\ consumer = "live" /\ cpc = "poll" /\ head = next
  /\ consumer' = "dropping"
  /\ UNCHANGED <<head, tail, seq, data, producerVars, cpc, next, taken, dropped>>

ConsumerGone ==
  /\ consumer = "dropping" /\ cpc = "poll" /\ head = next
  /\ seq[Slot(next)] \notin {Tombstone, PublishedAt(next)}
  /\ consumer' = "gone"
  /\ UNCHANGED <<head, tail, seq, data, producerVars, cpc, next, taken, dropped>>

(* Mutant: the ring is freed without dropping the values left in it.       *)
FreeRing ==
  /\ consumer = "gone" /\ live = {}
  /\ consumer' = "destroyed"
  /\ UNCHANGED <<head, tail, seq, data, producerVars, cpc, next, taken, dropped>>

(* RingBuffer::drop, once no handle is left: drop each value that is still *)
(* published between the cursors.                                          *)
DropRing ==
  /\ consumer = "gone" /\ live = {}
  /\ consumer' = "destroyed"
  /\ LET left == {pos \in head..(tail - 1) : seq[Slot(pos)] = PublishedAt(pos)}
     IN /\ dropped' = dropped \cup {data[Slot(pos)] : pos \in left}
        /\ data' = [s \in Slots |->
                      IF \E pos \in left : Slot(pos) = s THEN NoValue ELSE data[s]]
  /\ UNCHANGED <<head, tail, seq, producerVars, cpc, next, taken>>

ConsumerNext ==
  \/ Classify \/ TakeValue \/ ReleaseSlot \/ PublishHead
  \/ DropConsumer \/ ConsumerGone \/ DropRing

Done == consumer = "destroyed" /\ UNCHANGED vars

Next == (\E p \in Producers : ProducerNext(p)) \/ ConsumerNext \/ Done

Spec == Init /\ [][Next]_vars

(* A claimed position is settled, and the consumer, while it lives, keeps  *)
(* polling and ends its batches.  Whoever only tries to claim owes nothing.*)
Fairness ==
  /\ \A p \in Producers : WF_vars(Write(p) \/ Publish(p) \/ DropWritten(p) \/ Abandon(p))
  /\ WF_vars(Classify \/ TakeValue \/ ReleaseSlot)

FairSpec == Spec /\ Fairness

-----------------------------------------------------------------------------
(* Properties.                                                             *)

Owns(p) == pc[p] \in {"claimed", "written", "void"}

(* A claim only reads the cursors, yet it must find its slot free: handed  *)
(* back by the consumer one lap ago, owned by nobody else, holding no      *)
(* value (claim_slot, producer.rs; the table of slot_sequence.rs).         *)
ClaimedSlotIsFree ==
  \A p \in Producers : Owns(p) =>
    /\ seq[Slot(cur[p])] = FreeAt(cur[p])
    /\ pc[p] \in {"claimed", "void"} => data[Slot(cur[p])] = NoValue
    /\ pc[p] = "written" => data[Slot(cur[p])] = Value(p)
    /\ \A q \in Producers \ {p} : Owns(q) => Slot(cur[p]) # Slot(cur[q])
    /\ cpc # "poll" => Slot(cur[p]) # Slot(next)

(* The consumer moves a value out of a slot only while one is there, and   *)
(* what a tombstone lets it skip is never a value (classify; pop; drain).  *)
ConsumerReadsValues ==
  /\ cpc = "ready" => data[Slot(next)] \in Values
  /\ cpc = "void" => data[Slot(next)] = NoValue

(* No value is lost or served twice: whatever has been written is in one   *)
(* place, in a slot, delivered once or dropped once, through tombstones,   *)
(* batches and the drops of both sides (Consumer::drop, RingBuffer::drop). *)
Conservation ==
  LET stored == Range(data) \ {NoValue}
  IN  /\ written = stored \cup Range(taken) \cup dropped
      /\ stored \cap Range(taken) = {} /\ stored \cap dropped = {}
      /\ Range(taken) \cap dropped = {}
      /\ IsInjective(taken)
      /\ consumer = "destroyed" => stored = {}

(* While the consumer polls, every published value is delivered: no open   *)
(* or abandoned reservation in front of it stays in its way for good.      *)
PublishedIsDelivered ==
  \A v \in Values :
    (v \in Range(data) /\ \A p \in Producers : Owns(p) => Value(p) # v)
      ~> (v \in Range(taken) \/ consumer # "live")

(* The ring implements the bounded queue of claims.  A position is passed  *)
(* when its value is moved out or its tombstone released.                  *)
Passed == IF cpc = "release" THEN next + 1 ELSE next

Cell(pos) ==
  CASE seq[Slot(pos)] = PublishedAt(pos) -> [state |-> "full", value |-> data[Slot(pos)]]
    [] seq[Slot(pos)] = Tombstone -> [state |-> "void"]
    [] OTHER -> [state |-> "open",
                   by |-> CHOOSE p \in Producers : Owns(p) /\ cur[p] = pos]

Cells ==
  IF consumer = "destroyed" THEN <<>>
  ELSE [i \in 1..(tail - Passed) |-> Cell(Passed + i - 1)]

Abstract == INSTANCE ClaimQueue WITH
  cells <- Cells,
  held <- Passed - head,
  discarded <- dropped,
  serving <- consumer = "live"

ClaimQueueSpec == Abstract!Spec
=============================================================================
