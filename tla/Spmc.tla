-------------------------------- MODULE Spmc --------------------------------
(***************************************************************************)
(* The ring of spmc/: one producer, consumers that claim positions in      *)
(* batches and hand each slot back through its done word.  One action per  *)
(* access to shared memory.                                                *)
(*                                                                         *)
(* The producer's blocking calls are included, with its SoleParker taken   *)
(* as the monitor it implements (module SoleParker).  The consumers' own   *)
(* parking is that of module WakeSet, reads and writes no ring state, and  *)
(* is left out: a consumer that finds nothing polls again.                 *)
(***************************************************************************)
EXTENDS Cursors, Sequences, FiniteSets, SequencesExt

CONSTANTS
  Consumers,   \* consumer handles, one thread each
  BatchSize,   \* BATCH_SIZE: 4 in the code
  MaxPushes,   \* bound: values pushed
  NoValue      \* an empty slot

ASSUME SpmcAssumption ==
  BatchSize \in Nat \ {0} /\ MaxPushes \in Nat /\ NoValue \notin Nat

(* The value pushed at a position is the position.                         *)
VARIABLES
  head, tail,   \* the cursors; tail is also the producer's write_pos
  done,         \* per slot: the position it is next free for
  data,         \* per slot: the live value in it, or NoValue
  ppc,          \* the producer's next step
  armed,        \* the producer is on the armed path of push_block
  flag, token,  \* the producer is parked or about to; its unpark token
  closed, consumerClosed,
  live,         \* EndpointCount: consumers not dropped
  final,        \* consumers in the pop that pop_block adds once it saw closed
  cpc,          \* per consumer: the next step
  seen,         \* per consumer: claim_batch's head
  cachedTail,   \* per consumer
  next, end,    \* per consumer: batch_next and batch_end
  owes,         \* consumers that have freed slots and not yet woken
  taken,        \* per consumer: the values delivered, in order
  dropped       \* values dropped undelivered

producer == <<ppc, armed>>
parker == <<flag, token>>
closing == <<closed, consumerClosed>>
claiming == <<seen, cachedTail>>
batch == <<next, end>>
vars == <<head, tail, done, data, producer, parker, closing, live, cpc,
          final, claiming, batch, owes, taken, dropped>>

ProducerSteps == {"idle", "open?", "try", "arm", "reopen?", "retry", "park", "unpark",
                  "quit", "write", "written", "pushed", "gone", "destroyed"}
ConsumerSteps == {"new", "poll", "claim", "tail", "closed?", "tail2", "head2", "cas",
                  "read", "release", "more", "wake", "over?", "ended",
                  "drop", "close", "last", "out"}

TypeOK ==
  /\ head \in Nat /\ tail \in Nat
  /\ done \in [Slots -> Nat] /\ data \in [Slots -> Nat \cup {NoValue}]
  /\ ppc \in ProducerSteps /\ armed \in BOOLEAN
  /\ flag \in BOOLEAN /\ token \in BOOLEAN
  /\ closed \in BOOLEAN /\ consumerClosed \in BOOLEAN
  /\ live \subseteq Consumers /\ final \subseteq Consumers /\ owes \subseteq Consumers
  /\ cpc \in [Consumers -> ConsumerSteps]
  /\ seen \in [Consumers -> Nat] /\ cachedTail \in [Consumers -> Nat]
  /\ next \in [Consumers -> Nat] /\ end \in [Consumers -> Nat]
  /\ taken \in [Consumers -> Seq(Nat)] /\ dropped \subseteq Nat

(* split() hands out one consumer; the others are cloned from a live one.  *)
Init ==
  /\ head = 0 /\ tail = 0
  /\ done = [s \in Slots |-> s] /\ data = [s \in Slots |-> NoValue]
  /\ ppc = "idle" /\ armed = FALSE /\ flag = FALSE /\ token = FALSE
  /\ closed = FALSE /\ consumerClosed = FALSE
  /\ \E c \in Consumers :
       live = {c} /\ cpc = [d \in Consumers |-> IF d = c THEN "poll" ELSE "new"]
  /\ final = {}
  /\ seen = [c \in Consumers |-> 0] /\ cachedTail = [c \in Consumers |-> 0]
  /\ next = [c \in Consumers |-> 0] /\ end = [c \in Consumers |-> 0]
  /\ owes = {} /\ taken = [c \in Consumers |-> <<>>] /\ dropped = {}

(* DoneWord::is_free_for at the producer's position.                       *)
HasSpace == done[Slot(tail)] = tail

-----------------------------------------------------------------------------
(* The producer.  A push that finds no room without blocking changes       *)
(* nothing, so push and reserve are taken where there is room (ClaimNow).  *)

consumers == <<live, cpc, final, claiming, batch, owes, taken, dropped>>

Call ==
  /\ ppc = "idle" /\ tail < MaxPushes
  /\ ppc' = "open?"
  /\ UNCHANGED <<head, tail, done, data, armed, parker, closing, consumers>>

ClaimNow ==
  /\ ppc = "idle" /\ tail < MaxPushes /\ HasSpace
  /\ ppc' = "write"
  /\ UNCHANGED <<head, tail, done, data, armed, parker, closing, consumers>>

CheckOpen ==
  /\ ppc \in {"open?", "reopen?"}
  /\ ppc' = CASE ppc = "open?" -> IF consumerClosed THEN "idle" ELSE "try"
              [] ppc = "reopen?" -> IF consumerClosed THEN "quit" ELSE "retry"
  /\ UNCHANGED <<head, tail, done, data, armed, parker, closing, consumers>>

TryClaim ==
  /\ ppc \in {"try", "retry"}
  /\ IF HasSpace
     THEN ppc' = "write" /\ armed' = (ppc = "retry")
     ELSE ppc' = (IF ppc = "try" THEN "arm" ELSE "park") /\ UNCHANGED armed
  /\ UNCHANGED <<head, tail, done, data, parker, closing, consumers>>

ArmProducer ==
  /\ ppc = "arm"
  /\ flag' = TRUE /\ ppc' = "reopen?"
  /\ UNCHANGED <<head, tail, done, data, armed, token, closing, consumers>>

ParkProducer ==
  /\ ppc = "park" /\ token
  /\ token' = FALSE /\ ppc' = "unpark"
  /\ UNCHANGED <<head, tail, done, data, armed, flag, closing, consumers>>

(* After a wake, on giving up, after a push from the re-check; and before  *)
(* reserve_block returns its writer.                                       *)
DisarmProducer ==
  /\ ppc \in {"unpark", "quit", "pushed"} \/ (ppc = "write" /\ armed)
  /\ flag' = FALSE /\ armed' = FALSE
  /\ ppc' = CASE ppc = "unpark" -> "open?" [] ppc = "write" -> "write" [] OTHER -> "idle"
  /\ UNCHANGED <<head, tail, done, data, token, closing, consumers>>

Write ==
  /\ ppc = "write"
  /\ data' = [data EXCEPT ![Slot(tail)] = tail]
  /\ ppc' = "written"
  /\ UNCHANGED <<head, tail, done, armed, parker, closing, consumers>>

(* A writer dropped unwritten, or a value dropped uncommitted, leaves the  *)
(* position to the next claim.                                             *)
Abandon ==
  /\ ppc \in {"write", "written"} /\ ~armed
  /\ data' = [data EXCEPT ![Slot(tail)] = NoValue]
  /\ ppc' = "idle"
  /\ UNCHANGED <<head, tail, done, armed, parker, closing, consumers>>

Publish ==
  /\ ppc = "written"
  /\ tail' = tail + 1
  /\ ppc' = IF armed THEN "pushed" ELSE "idle"
  /\ UNCHANGED <<head, done, data, armed, parker, closing, consumers>>

DropProducer ==
  /\ ppc = "idle"
  /\ closed' = TRUE /\ ppc' = "gone"
  /\ UNCHANGED <<head, tail, done, data, armed, parker, consumerClosed, consumers>>

ProducerStep ==
  \/ CheckOpen \/ TryClaim \/ ArmProducer \/ ParkProducer \/ DisarmProducer
  \/ Write \/ Abandon \/ Publish

-----------------------------------------------------------------------------
(* Consumers.                                                              *)

ring == <<head, tail, done, data>>
others == <<producer, closing, live>>

Goto(c, step) == cpc' = [cpc EXCEPT ![c] = step]

(* What follows a pop that finds nothing: a drain ends with the wake it    *)
(* owes, the last pop of pop_block with None, another pop_block looks      *)
(* whether the ring is closed.                                             *)
FoundNothing(c) ==
  IF c \in owes THEN "wake" ELSE IF c \in final THEN "ended" ELSE "over?"

(* claim_slot: the next position of the batch in hand ...                  *)
NextInBatch(c) ==
  /\ cpc[c] \in {"poll", "more"} /\ next[c] < end[c]
  /\ next' = [next EXCEPT ![c] = @ + 1]
  /\ Goto(c, "read")
  /\ UNCHANGED <<ring, others, parker, final, claiming, end, owes, taken, dropped>>

(* ... or claim_batch: the head, the tail if the cached one is used up,    *)
LoadHead(c) ==
  /\ cpc[c] = "claim" \/ (cpc[c] \in {"poll", "more"} /\ next[c] >= end[c])
  /\ seen' = [seen EXCEPT ![c] = head]
  /\ Goto(c, IF head < cachedTail[c] THEN "cas" ELSE "tail")
  /\ UNCHANGED <<ring, others, parker, final, cachedTail, batch, owes, taken, dropped>>

LoadTail(c) ==
  /\ cpc[c] = "tail"
  /\ cachedTail' = [cachedTail EXCEPT ![c] = tail]
  /\ Goto(c, IF seen[c] < tail THEN "cas" ELSE "closed?")
  /\ UNCHANGED <<ring, others, parker, final, seen, batch, owes, taken, dropped>>

(* ... both once more if the ring is empty and closed,                     *)
ClosedWhileEmpty(c) ==
  /\ cpc[c] = "closed?"
  /\ Goto(c, IF closed THEN "tail2" ELSE FoundNothing(c))
  /\ UNCHANGED <<ring, others, parker, final, claiming, batch, owes, taken, dropped>>

ReloadTail(c) ==
  /\ cpc[c] = "tail2"
  /\ cachedTail' = [cachedTail EXCEPT ![c] = tail]
  /\ Goto(c, "head2")
  /\ UNCHANGED <<ring, others, parker, final, seen, batch, owes, taken, dropped>>

ReloadHead(c) ==
  /\ cpc[c] = "head2"
  /\ Goto(c, IF head < cachedTail[c] THEN "claim" ELSE FoundNothing(c))
  /\ UNCHANGED <<ring, others, parker, final, claiming, batch, owes, taken, dropped>>

Take(c) == IF cachedTail[c] - seen[c] < BatchSize THEN cachedTail[c] - seen[c] ELSE BatchSize

(* Mutant: the head is stored, not compared and exchanged.                 *)
ClaimByStore(c) ==
  /\ cpc[c] = "cas"
  /\ head' = seen[c] + Take(c)
  /\ next' = [next EXCEPT ![c] = seen[c] + 1]
  /\ end' = [end EXCEPT ![c] = seen[c] + Take(c)]
  /\ final' = final \ {c}
  /\ Goto(c, "read")
  /\ UNCHANGED <<tail, done, data, others, parker, claiming, owes, taken, dropped>>

(* Mutant: off by one, a batch ends before its last position.              *)
ClaimShort(c) ==
  /\ cpc[c] = "cas" /\ head = seen[c]
  /\ head' = head + Take(c)
  /\ next' = [next EXCEPT ![c] = head + 1]
  /\ end' = [end EXCEPT ![c] = head + Take(c) - 1]
  /\ final' = final \ {c}
  /\ Goto(c, "read")
  /\ UNCHANGED <<tail, done, data, others, parker, claiming, owes, taken, dropped>>

(* ... and the exchange of the head, for the whole batch.                  *)
ClaimOk(c) ==
  /\ cpc[c] = "cas" /\ head = seen[c]
  /\ head' = head + Take(c)
  /\ next' = [next EXCEPT ![c] = head + 1]
  /\ end' = [end EXCEPT ![c] = head + Take(c)]
  /\ final' = final \ {c}
  /\ Goto(c, "read")
  /\ UNCHANGED <<tail, done, data, others, parker, claiming, owes, taken, dropped>>

(* The exchange lost, the loop starts over.                                *)
ClaimLost(c) ==
  /\ cpc[c] = "cas" /\ head # seen[c]
  /\ Goto(c, "claim")
  /\ UNCHANGED <<ring, others, parker, final, claiming, batch, owes, taken, dropped>>

(* The position in hand, once claim_slot has returned it.                  *)
At(c) == next[c] - 1

Read(c) ==
  /\ cpc[c] = "read"
  /\ taken' = [taken EXCEPT ![c] = Append(@, data[Slot(At(c))])]
  /\ data' = [data EXCEPT ![Slot(At(c))] = NoValue]
  /\ Goto(c, "release")
  /\ UNCHANGED <<head, tail, done, others, parker, final, claiming, batch, owes, dropped>>

Free(pos) == done' = [done EXCEPT ![Slot(pos)] = pos + Capacity]

(* Mutant: a drain that goes on forgets the wake it owes.                  *)
ReleaseQuietly(c) ==
  /\ cpc[c] = "release"
  /\ Free(At(c))
  /\ \/ owes' = owes \cup {c} /\ Goto(c, "wake")
     \/ UNCHANGED owes /\ Goto(c, "poll")
  /\ UNCHANGED <<head, tail, data, others, parker, final, claiming, batch, taken, dropped>>

(* DoneWord::release.  pop wakes the producer next, a drain may go on.     *)
Release(c) ==
  /\ cpc[c] = "release"
  /\ Free(At(c))
  /\ owes' = owes \cup {c}
  /\ Goto(c, "more")
  /\ UNCHANGED <<head, tail, data, others, parker, final, claiming, batch, taken, dropped>>

(* Mutant: the producer is woken only if the cursors say the ring is full. *)
WakeIfFull(c) ==
  /\ cpc[c] \in {"more", "wake", "last"}
  /\ IF cpc[c] = "last" \/ tail - head >= Capacity
     THEN flag' = FALSE /\ token' = (token \/ flag)
     ELSE UNCHANGED parker
  /\ owes' = owes \ {c}
  /\ Goto(c, IF cpc[c] = "last" THEN "out" ELSE "poll")
  /\ UNCHANGED <<ring, others, final, claiming, batch, taken, dropped>>

(* wake_producer: by pop, by DrainWake, by the last consumer to go.        *)
WakeProducer(c) ==
  /\ cpc[c] \in {"more", "wake", "last"}
  /\ flag' = FALSE /\ token' = (token \/ flag)
  /\ owes' = owes \ {c}
  /\ Goto(c, IF cpc[c] = "last" THEN "out" ELSE "poll")
  /\ UNCHANGED <<ring, others, final, claiming, batch, taken, dropped>>

(* Mutant: a closed ring is taken for a drained one.                       *)
TrustClose(c) ==
  /\ cpc[c] = "over?"
  /\ Goto(c, IF closed THEN "ended" ELSE "poll")
  /\ UNCHANGED <<ring, others, parker, final, claiming, batch, owes, taken, dropped>>

(* pop_block, having popped nothing: one more pop if the ring is closed.   *)
CheckClosed(c) ==
  /\ cpc[c] = "over?"
  /\ final' = IF closed THEN final \cup {c} ELSE final
  /\ Goto(c, "poll")
  /\ UNCHANGED <<ring, others, parker, claiming, batch, owes, taken, dropped>>

Clone(c) ==
  /\ cpc[c] = "new" /\ live # {}
  /\ live' = live \cup {c}
  /\ Goto(c, "poll")
  /\ UNCHANGED <<ring, producer, closing, parker, final, claiming, batch, owes, taken, dropped>>

DropConsumer(c) ==
  /\ cpc[c] \in {"poll", "ended"} /\ (c \in final => cpc[c] = "ended")
  /\ Goto(c, "drop")
  /\ UNCHANGED <<ring, others, parker, final, claiming, batch, owes, taken, dropped>>

(* Consumer::drop: the rest of the batch is dropped in place and freed.    *)
Discard(c) ==
  /\ cpc[c] = "drop" /\ next[c] < end[c]
  /\ dropped' = dropped \cup {data[Slot(next[c])]}
  /\ data' = [data EXCEPT ![Slot(next[c])] = NoValue]
  /\ Free(next[c])
  /\ next' = [next EXCEPT ![c] = @ + 1]
  /\ UNCHANGED <<head, tail, others, parker, cpc, final, claiming, end, owes, taken>>

(* ConsumerClose: the last one out closes the ring and wakes the producer. *)
Leave(c) ==
  /\ cpc[c] = "drop" /\ next[c] >= end[c]
  /\ live' = live \ {c}
  /\ Goto(c, IF live = {c} THEN "close" ELSE "out")
  /\ UNCHANGED <<ring, producer, closing, parker, final, claiming, batch, owes, taken, dropped>>

Close(c) ==
  /\ cpc[c] = "close"
  /\ consumerClosed' = TRUE
  /\ Goto(c, "last")
  /\ UNCHANGED <<ring, producer, closed, live, parker, final, claiming, batch, owes, taken, dropped>>

ConsumerStep(c) ==
  \/ NextInBatch(c) \/ LoadHead(c) \/ LoadTail(c)
  \/ ClosedWhileEmpty(c) \/ ReloadTail(c) \/ ReloadHead(c) \/ ClaimOk(c) \/ ClaimLost(c)
  \/ Read(c) \/ Release(c) \/ WakeProducer(c) \/ CheckClosed(c)
  \/ Discard(c) \/ Leave(c) \/ Close(c)

(* Mutant: every slot is dropped, whatever its done word says.             *)
DropSlots ==
  /\ ppc = "gone" /\ live = {} /\ \A c \in Consumers : cpc[c] \in {"new", "out"}
  /\ ppc' = "destroyed"
  /\ dropped' = dropped \cup {data[s] : s \in Slots}
  /\ data' = [s \in Slots |-> NoValue]
  /\ UNCHANGED <<head, tail, done, armed, parker, closing, live, cpc, final, claiming, batch, owes, taken>>

(* RingBuffer::drop, once no handle is left.                               *)
DropRing ==
  /\ ppc = "gone" /\ live = {} /\ \A c \in Consumers : cpc[c] \in {"new", "out"}
  /\ ppc' = "destroyed"
  /\ LET left == {pos \in head..(tail - 1) : done[Slot(pos)] # pos + Capacity}
     IN /\ dropped' = dropped \cup {data[Slot(pos)] : pos \in left}
        /\ data' = [s \in Slots |->
                      IF \E pos \in left : Slot(pos) = s THEN NoValue ELSE data[s]]
  /\ UNCHANGED <<head, tail, done, armed, parker, closing, live, cpc, final, claiming, batch, owes, taken>>

Destroyed == ppc = "destroyed" /\ UNCHANGED vars

Next ==
  \/ Call \/ ClaimNow \/ ProducerStep \/ DropProducer \/ DropRing \/ Destroyed
  \/ \E c \in Consumers : ConsumerStep(c) \/ Clone(c) \/ DropConsumer(c)

Spec == Init /\ [][Next]_vars

(* A call in progress goes on, and a consumer keeps popping while it       *)
(* lives; nobody owes a call, a clone or a drop.                           *)
Fairness ==
  /\ WF_vars(ProducerStep)
  /\ \A c \in Consumers : WF_vars(ConsumerStep(c))

FairSpec == Spec /\ Fairness

-----------------------------------------------------------------------------
(* Properties.                                                             *)

(* The positions consumer c has claimed and not handed back.               *)
Owned(c) == (IF cpc[c] \in {"read", "release"} THEN At(c) ELSE next[c])..(end[c] - 1)

(* Batches never overlap, and until it is read each of their positions     *)
(* holds the value pushed there, however far the producer has got.         *)
BatchesAreExclusive ==
  \A c \in Consumers :
    /\ \A d \in Consumers \ {c} : Owned(c) \cap Owned(d) = {}
    /\ \A pos \in Owned(c) :
         data[Slot(pos)] = IF cpc[c] = "release" /\ pos = At(c) THEN NoValue ELSE pos

(* The producer writes only to a slot that is empty and that no consumer   *)
(* still reads (try_claim, the done words).                                *)
WriterIsAlone ==
  ppc = "write" =>
    /\ data[Slot(tail)] = NoValue
    /\ \A c \in Consumers : \A pos \in Owned(c) : Slot(pos) # Slot(tail)

(* Every published value is in one place: in its slot, delivered once to   *)
(* one consumer, or dropped once; destroying the ring leaves none behind.  *)
ExactlyOnce ==
  LET stored == Range(data) \ {NoValue}
      delivered == UNION {Range(taken[c]) : c \in Consumers}
  IN  /\ 0..(tail - 1) \subseteq stored \cup delivered \cup dropped
      /\ stored \cap delivered = {} /\ stored \cap dropped = {} /\ delivered \cap dropped = {}
      /\ \A c, d \in Consumers : c # d => Range(taken[c]) \cap Range(taken[d]) = {}
      /\ NoValue \notin dropped
      /\ ppc = "destroyed" => stored = {}

(* pop_block returns None only once the producer is gone and every value   *)
(* has been claimed.                                                       *)
DrainedBeforeNone ==
  \A c \in Consumers : cpc[c] = "ended" => closed /\ head = tail

(* The producer never sleeps beside a free slot, or a ring without         *)
(* consumers, unless it is armed and some consumer is on its way to wake   *)
(* it: every release is followed by a wake (DrainWake, SlotRelease), those *)
(* of a consumer dropped with part of a batch in hand apart.               *)
EveryReleaseWakes ==
  dropped = {} /\ ppc = "park" /\ ~token /\ (HasSpace \/ consumerClosed) =>
    flag /\ \E c \in Consumers : c \in owes \/ cpc[c] = "last"

(* A blocking push returns as long as consumers pop, or go away with no    *)
(* batch in hand.                                                          *)
PushReturns == ppc = "open?" ~> ppc = "idle" \/ dropped # {}

(* push_block's promise: it returns as long as consumers pop or go away.   *)
PushAlwaysReturns == ppc = "open?" ~> ppc = "idle"

(* Every published value is delivered while anybody consumes, unless it is *)
(* dropped with its batch.                                                 *)
PublishedIsDelivered ==
  \A pos \in 0..(MaxPushes - 1) :
    tail > pos ~> pos \in dropped \/ live = {} \/ \E c \in Consumers : pos \in Range(taken[c])
=============================================================================
