---------------------------- MODULE MpscBlocking ----------------------------
(***************************************************************************)
(* The blocking calls of mpsc/: producers in push_block or reserve_block   *)
(* park when the ring is full, the consumer in pop_block or drain_block    *)
(* parks when it is empty, and each side wakes the other and is released   *)
(* by the other's drop.                                                    *)
(*                                                                         *)
(* The ring is the bounded queue of claims that Mpsc implements.  The      *)
(* producers' WakeSet is its bitmap, handles, unpark tokens and cursor,    *)
(* one action per access, with the consumer as its only waker.  The        *)
(* consumer's SoleParker is taken as the monitor it implements: a wake is  *)
(* one step (module SoleParker).                                           *)
(***************************************************************************)
EXTENDS Cursors, Sequences, FiniteSets, SequencesExt

CONSTANTS
  NumProducers,   \* producers, numbered by their park slots
  Calls           \* bound: blocking calls each producer makes before it is dropped

Producers == 1..NumProducers

ASSUME MpscBlockingAssumption ==
  NumProducers \in 1..64 /\ Calls \in [Producers -> Nat]

Values == UNION {{p} \X (1..Calls[p]) : p \in Producers}

VARIABLES
  cells, held, taken, discarded, serving,  \* the queue of claims
  head,       \* positions handed back
  seen,       \* per producer: the tail its claim_slot loaded
  bits,       \* WakeSet::wake
  handles,    \* WakeSet::parkers that hold a thread handle
  tokens,     \* producers whose thread has an unpark token
  cursor,     \* WakeSet::cursor: the slot just after the last one woken
  pc,         \* per producer
  calls,      \* per producer: calls made
  live,       \* EndpointCount
  closed,     \* RingBuffer::closed
  consumerClosed,
  flag, ctoken,  \* the consumer is parked or about to; its unpark token
  cpc, cret,  \* the consumer's step, and where it goes once it has woken
  owed,       \* wakes the consumer still has to deliver
  targets,    \* producers whose bit it has cleared and not yet looked at
  stolen      \* history: a wake reached a producer that had its slot already

Q == INSTANCE ClaimQueue

ring == <<cells, held, taken, discarded, serving, head>>
wakeSet == <<bits, handles, tokens, cursor>>
producers == <<seen, pc, calls, live>>
consumer == <<cpc, cret, owed, targets>>
closing == <<closed, consumerClosed>>
soleParker == <<flag, ctoken>>
vars == <<ring, wakeSet, producers, consumer, closing, soleParker, stolen>>

ProducerSteps == {"idle", "open?", "load", "decide", "arm", "reopen?", "reload", "redecide",
                  "park", "unpark", "quit", "armedClaim", "armedWake", "armedDone",
                  "claimed", "wake", "close"}
ConsumerSteps == {"poll", "closed?", "arm", "recheck", "reclosed?", "park", "disarm",
                  "leave", "final", "done", "batch", "wakeP", "claimP",
                  "drop", "flush", "flushing", "discard", "gone"}

TypeOK ==
  /\ cells \in Seq({Q!Void} \cup {Q!Open(p) : p \in Producers} \cup {Q!Full(v) : v \in Values})
  /\ held \in 0..Capacity /\ head \in Nat /\ serving \in BOOLEAN
  /\ taken \in Seq(Values) /\ discarded \subseteq Values
  /\ seen \in [Producers -> Nat]
  /\ bits \subseteq Producers /\ handles \subseteq Producers /\ tokens \subseteq Producers
  /\ cursor \in Nat
  /\ pc \in [Producers -> ProducerSteps] /\ calls \in [Producers -> Nat]
  /\ live \subseteq Producers
  /\ closed \in BOOLEAN /\ consumerClosed \in BOOLEAN
  /\ flag \in BOOLEAN /\ ctoken \in BOOLEAN
  /\ cpc \in ConsumerSteps /\ cret \in {"poll", "recheck", "disarm", "final", "discard"}
  /\ owed \in Nat /\ targets \subseteq Producers /\ stolen \in BOOLEAN

Init ==
  /\ Q!Init /\ head = 0
  /\ seen = [p \in Producers |-> 0]
  /\ bits = {} /\ handles = {} /\ tokens = {} /\ cursor = 0
  /\ pc = [p \in Producers |-> "idle"] /\ calls = [p \in Producers |-> 0]
  /\ live = Producers
  /\ closed = FALSE /\ consumerClosed = FALSE
  /\ flag = FALSE /\ ctoken = FALSE
  /\ cpc = "poll" /\ cret = "poll" /\ owed = 0 /\ targets = {}
  /\ stolen = FALSE

(* The tail cursor: every position claimed so far.                         *)
RingTail == head + held + Len(cells)

-----------------------------------------------------------------------------
(* Producers.                                                              *)

Goto(p, step) == pc' = [pc EXCEPT ![p] = step]

(* claim_slot's locals end with it.                                        *)
Forget(p) == seen' = [seen EXCEPT ![p] = 0]

Call(p) ==
  /\ pc[p] = "idle" /\ p \in live /\ calls[p] < Calls[p]
  /\ calls' = [calls EXCEPT ![p] = @ + 1]
  /\ Goto(p, "open?")
  /\ UNCHANGED <<ring, wakeSet, seen, live, consumer, closing, soleParker, stolen>>

(* The top of the loop: give up if the consumer is gone.                   *)
CheckOpen(p) ==
  /\ pc[p] = "open?"
  /\ Goto(p, IF consumerClosed THEN "idle" ELSE "load")
  /\ UNCHANGED <<ring, wakeSet, seen, calls, live, consumer, closing, soleParker, stolen>>

(* claim_slot: load the tail ...                                           *)
LoadTail(p) ==
  /\ pc[p] \in {"load", "reload"}
  /\ seen' = [seen EXCEPT ![p] = RingTail]
  /\ Goto(p, IF pc[p] = "load" THEN "decide" ELSE "redecide")
  /\ UNCHANGED <<ring, wakeSet, calls, live, consumer, closing, soleParker, stolen>>

(* ... fail if the head leaves no room for it, which a head that has moved *)
(* past the loaded tail also does ...                                      *)
ClaimFails(p) ==
  /\ pc[p] \in {"decide", "redecide"} /\ NoRoom(seen[p], head)
  /\ Goto(p, IF pc[p] = "decide" THEN "arm" ELSE "park")
  /\ Forget(p)
  /\ UNCHANGED <<ring, wakeSet, calls, live, consumer, closing, soleParker, stolen>>

(* ... otherwise claim, or start over with the tail another producer left. *)
(* The head that decided may be the cached one, any earlier value: it can  *)
(* only have room for a tail that has been left behind.                    *)
ClaimOk(p) ==
  /\ pc[p] \in {"decide", "redecide"} /\ ~NoRoom(seen[p], head)
  /\ seen[p] = RingTail
  /\ Q!Claim(p)
  /\ Goto(p, IF pc[p] = "decide" THEN "claimed" ELSE "armedClaim")
  /\ Forget(p)
  /\ UNCHANGED <<head, wakeSet, calls, live, consumer, closing, soleParker, stolen>>

ClaimLost(p) ==
  /\ pc[p] \in {"decide", "redecide"} /\ seen[p] - head < Capacity
  /\ seen[p] # RingTail
  /\ seen' = [seen EXCEPT ![p] = RingTail]
  /\ UNCHANGED <<ring, wakeSet, pc, calls, live, consumer, closing, soleParker, stolen>>

(* WakeSet::arm: publish the handle, then the bit.                         *)
Arm(p) ==
  /\ pc[p] = "arm"
  /\ handles' = handles \cup {p} /\ bits' = bits \cup {p}
  /\ Goto(p, "reopen?")
  /\ UNCHANGED <<ring, tokens, cursor, seen, calls, live, consumer, closing, soleParker, stolen>>

(* Mutant: an armed producer parks without claiming again.                 *)
ParkWithoutRecheck(p) ==
  /\ pc[p] = "reopen?"
  /\ Goto(p, IF consumerClosed THEN "quit" ELSE "park")
  /\ UNCHANGED <<ring, wakeSet, seen, calls, live, consumer, closing, soleParker, stolen>>

RecheckOpen(p) ==
  /\ pc[p] = "reopen?"
  /\ Goto(p, IF consumerClosed THEN "quit" ELSE "reload")
  /\ UNCHANGED <<ring, wakeSet, seen, calls, live, consumer, closing, soleParker, stolen>>

(* thread::park returns by consuming the unpark token.                     *)
Park(p) ==
  /\ pc[p] = "park" /\ p \in tokens
  /\ tokens' = tokens \ {p}
  /\ Goto(p, "unpark")
  /\ UNCHANGED <<ring, bits, handles, cursor, seen, calls, live, consumer, closing, soleParker, stolen>>

(* WakeSet::disarm: after a wake, on giving up, before a reserve_block     *)
(* returns its writer, and after a push_block has published.               *)
Disarm(p) ==
  /\ pc[p] \in {"unpark", "quit", "armedClaim", "armedDone"}
  /\ bits' = bits \ {p}
  /\ Goto(p, CASE pc[p] = "unpark" -> "open?"
               [] pc[p] = "armedClaim" -> "claimed"
               [] OTHER -> "idle")
  /\ UNCHANGED <<ring, handles, tokens, cursor, seen, calls, live, consumer, closing, soleParker, stolen>>

Fill(p) ==
  /\ pc[p] \in {"claimed", "armedClaim"}
  /\ Q!Fill(p, <<p, calls[p]>>)
  /\ Goto(p, IF pc[p] = "claimed" THEN "wake" ELSE "armedWake")
  /\ UNCHANGED <<head, wakeSet, seen, calls, live, consumer, closing, soleParker, stolen>>

(* A reservation dropped unwritten.                                        *)
Abandon(p) ==
  /\ pc[p] = "claimed"
  /\ Q!Abandon(p)
  /\ Goto(p, "wake")
  /\ UNCHANGED <<head, wakeSet, seen, calls, live, consumer, closing, soleParker, stolen>>

WakeConsumer(p) ==
  /\ pc[p] \in {"wake", "armedWake"}
  /\ flag' = FALSE /\ ctoken' = (ctoken \/ flag)
  /\ Goto(p, IF pc[p] = "wake" THEN "idle" ELSE "armedDone")
  /\ UNCHANGED <<ring, wakeSet, seen, calls, live, consumer, closing, stolen>>

(* Producer::drop; the last one out closes the ring and wakes.             *)
Leave(p) ==
  /\ pc[p] = "idle" /\ p \in live /\ calls[p] = Calls[p]
  /\ live' = live \ {p}
  /\ Goto(p, IF live = {p} THEN "close" ELSE "idle")
  /\ UNCHANGED <<ring, wakeSet, seen, calls, consumer, closing, soleParker, stolen>>

(* Mutant: the ring is closed and nobody told.                             *)
CloseQuietly(p) ==
  /\ pc[p] = "close"
  /\ closed' = TRUE
  /\ Goto(p, "idle")
  /\ UNCHANGED <<ring, wakeSet, seen, calls, live, consumer, consumerClosed, soleParker, stolen>>

Close(p) ==
  /\ pc[p] = "close"
  /\ closed' = TRUE
  /\ Goto(p, "wake")
  /\ UNCHANGED <<ring, wakeSet, seen, calls, live, consumer, consumerClosed, soleParker, stolen>>

(* What a producer does without being asked, once in a call.               *)
Advance(p) ==
  \/ CheckOpen(p) \/ LoadTail(p) \/ ClaimFails(p) \/ ClaimOk(p) \/ ClaimLost(p)
  \/ Arm(p) \/ RecheckOpen(p) \/ Park(p) \/ Disarm(p)
  \/ Fill(p) \/ Abandon(p) \/ WakeConsumer(p) \/ Close(p)

-----------------------------------------------------------------------------
(* The consumer.                                                           *)

(* Where a pop attempt made at each step leads when it finds a value, and  *)
(* when it finds none.  A tombstone is skipped and the attempt repeated.   *)
OnValue(step) == CASE step = "recheck" -> "disarm" [] step = "discard" -> "discard" [] OTHER -> "poll"
OnEmpty(step) == CASE step = "poll" -> "closed?" [] step = "recheck" -> "reclosed?"
                   [] step = "final" -> "done" [] step = "discard" -> "gone"

FrontSettled == cells # <<>> /\ Head(cells).state # "open"

Attempts == {"poll", "recheck", "final", "discard"}

TakeValue ==
  /\ cpc \in Attempts
  /\ Q!Take
  /\ cret' = OnValue(cpc) /\ cpc' = "batch"
  /\ UNCHANGED <<head, wakeSet, producers, owed, targets, closing, soleParker, stolen>>

SkipTombstone ==
  /\ cpc \in Attempts
  /\ Q!Skip
  /\ cret' = cpc /\ cpc' = "batch"
  /\ UNCHANGED <<head, wakeSet, producers, owed, targets, closing, soleParker, stolen>>

FindNothing ==
  /\ cpc \in Attempts
  /\ ~FrontSettled
  /\ cpc' = OnEmpty(cpc)
  /\ UNCHANGED <<ring, wakeSet, producers, cret, owed, targets, closing, soleParker, stolen>>

(* drain keeps its batch open over further values and tombstones.          *)
DrainMore ==
  /\ cpc = "batch" /\ cret = "poll"
  /\ Q!Take \/ Q!Skip
  /\ UNCHANGED <<head, wakeSet, producers, consumer, closing, soleParker, stolen>>

(* Mutant: the last position of a batch wakes nobody.                      *)
PublishHeadShort ==
  /\ cpc = "batch"
  /\ Q!HandBack
  /\ head' = head + held
  /\ owed' = held - 1
  /\ cpc' = "wakeP"
  /\ UNCHANGED <<wakeSet, producers, cret, targets, closing, soleParker, stolen>>

(* publish_head, after one position or after a batch.                      *)
PublishHead ==
  /\ cpc = "batch"
  /\ Q!HandBack
  /\ head' = head + held
  /\ owed' = held
  /\ cpc' = "wakeP"
  /\ UNCHANGED <<wakeSet, producers, cret, targets, closing, soleParker, stolen>>

(* wake_one and wake_n: one wake delivered per position handed back.       *)
(* Mutant: the slot at the cursor, whatever its bit.                       *)
NextSlot(set, c) == c + 1

FirstFrom(set, c) ==
  CHOOSE p \in set : \A q \in set : (p - 1 - c) % 64 <= (q - 1 - c) % 64

ClearBit ==
  /\ cpc = "wakeP" /\ owed > 0 /\ bits # {}
  /\ LET p == FirstFrom(bits, cursor)
     IN bits' = bits \ {p} /\ targets' = {p} /\ cursor' = p
  /\ cpc' = "claimP"
  /\ UNCHANGED <<ring, handles, tokens, producers, cret, owed, closing, soleParker, stolen>>

(* Producer p has its slot, or no call in progress: room is no news to it. *)
HasSlot(p) == pc[p] \in {"claimed", "armedClaim", "wake", "armedWake", "armedDone", "idle"}

(* ThreadParker::wake: a bit whose handle is gone does not count.          *)
Unpark(p) ==
  /\ handles' = handles \ {p}
  /\ tokens' = IF p \in handles THEN tokens \cup {p} ELSE tokens
  /\ targets' = targets \ {p}
  /\ UNCHANGED <<bits, cursor>>

ClaimHandle ==
  /\ cpc = "claimP"
  /\ \E p \in targets :
       /\ Unpark(p)
       /\ owed' = IF p \in handles THEN owed - 1 ELSE owed
       /\ stolen' = (stolen \/ (p \in handles /\ HasSlot(p)))
  /\ cpc' = "wakeP"
  /\ UNCHANGED <<ring, producers, cret, closing, soleParker>>

WokenEnough ==
  /\ cpc = "wakeP" /\ (owed = 0 \/ bits = {})
  /\ owed' = 0
  /\ cpc' = cret /\ cret' = "poll"
  /\ UNCHANGED <<ring, wakeSet, producers, targets, closing, soleParker, stolen>>

(* Mutant: no second look at the close flag.                               *)
ParkWhateverClosed ==
  /\ cpc \in {"closed?", "reclosed?"}
  /\ cpc' = CASE cpc = "closed?" -> IF closed THEN "final" ELSE "arm"
              [] cpc = "reclosed?" -> "park"
  /\ UNCHANGED <<ring, wakeSet, producers, cret, owed, targets, closing, soleParker, stolen>>

CheckClosed ==
  /\ cpc \in {"closed?", "reclosed?"}
  /\ cpc' = CASE cpc = "closed?" -> IF closed THEN "final" ELSE "arm"
              [] cpc = "reclosed?" -> IF closed THEN "leave" ELSE "park"
  /\ UNCHANGED <<ring, wakeSet, producers, cret, owed, targets, closing, soleParker, stolen>>

ArmConsumer ==
  /\ cpc = "arm"
  /\ flag' = TRUE
  /\ cpc' = "recheck"
  /\ UNCHANGED <<ring, wakeSet, producers, cret, owed, targets, closing, ctoken, stolen>>

ParkConsumer ==
  /\ cpc = "park" /\ ctoken
  /\ ctoken' = FALSE
  /\ cpc' = "disarm"
  /\ UNCHANGED <<ring, wakeSet, producers, cret, owed, targets, closing, flag, stolen>>

DisarmConsumer ==
  /\ cpc \in {"disarm", "leave"}
  /\ flag' = FALSE
  /\ cpc' = IF cpc = "leave" THEN "final" ELSE "poll"
  /\ UNCHANGED <<ring, wakeSet, producers, cret, owed, targets, closing, ctoken, stolen>>

(* Mutant: Consumer::drop does not flush.                                  *)
DropWithoutFlush ==
  /\ cpc \in {"poll", "done"}
  /\ Q!Retire
  /\ consumerClosed' = TRUE
  /\ cpc' = "discard"
  /\ UNCHANGED <<head, wakeSet, producers, cret, owed, targets, closed, soleParker, stolen>>

(* Consumer::drop: close, flush the producers, discard what is ready.      *)
DropConsumer ==
  /\ cpc \in {"poll", "done"}
  /\ Q!Retire
  /\ consumerClosed' = TRUE
  /\ cpc' = "flush"
  /\ UNCHANGED <<head, wakeSet, producers, cret, owed, targets, closed, soleParker, stolen>>

Flush ==
  /\ cpc = "flush"
  /\ targets' = bits /\ bits' = {}
  /\ cpc' = "flushing"
  /\ UNCHANGED <<ring, handles, tokens, cursor, producers, cret, owed, closing, soleParker, stolen>>

Flushing ==
  /\ cpc = "flushing" /\ targets # {}
  /\ Unpark(FirstFrom(targets, 0))
  /\ UNCHANGED <<ring, producers, cpc, cret, owed, closing, soleParker, stolen>>

Flushed ==
  /\ cpc = "flushing" /\ targets = {}
  /\ cpc' = "discard"
  /\ UNCHANGED <<ring, wakeSet, producers, cret, owed, targets, closing, soleParker, stolen>>

ConsumerNext ==
  \/ TakeValue \/ SkipTombstone \/ FindNothing \/ DrainMore \/ PublishHead
  \/ ClearBit \/ ClaimHandle \/ WokenEnough
  \/ CheckClosed \/ ArmConsumer \/ ParkConsumer \/ DisarmConsumer
  \/ Flush \/ Flushing \/ Flushed

Finished ==
  /\ live = {} /\ \A p \in Producers : pc[p] = "idle"
  /\ cpc = "gone"
  /\ UNCHANGED vars

Next ==
  \/ \E p \in Producers : Call(p) \/ Advance(p) \/ Leave(p)
  \/ ConsumerNext \/ DropConsumer
  \/ Finished

Spec == Init /\ [][Next]_vars

(* A call in progress goes on, the consumer keeps consuming while it       *)
(* lives, and producers with nothing left to send are dropped.             *)
Fairness ==
  /\ \A p \in Producers : WF_vars(Advance(p)) /\ WF_vars(Leave(p))
  /\ WF_vars(ConsumerNext)

FairSpec == Spec /\ Fairness

-----------------------------------------------------------------------------
(* Properties.                                                             *)

Asleep(p) == pc[p] = "park" /\ p \notin tokens
ConsumerAsleep == cpc = "park" /\ ~ctoken

(* The consumer never sleeps on a settled position or on a closed ring     *)
(* without a producer about to wake it (wake_consumer, Producer::drop).    *)
ConsumerNotStranded ==
  ConsumerAsleep /\ (closed \/ FrontSettled) =>
    flag /\ \E p \in Producers : pc[p] \in {"wake", "armedWake"}

(* A producer never sleeps beside an empty ring that nobody is about to    *)
(* look at: the consumer still owes a wake, or another producer is on its  *)
(* way to claim.  A position still in the ring wakes somebody when it is   *)
(* handed back.  It holds as long as no wake has gone to a producer that   *)
(* had its slot already (push_block, reserve_block, WakeSet::wake_n).      *)
OnItsWay(p) == ~HasSlot(p) /\ ~Asleep(p) /\ pc[p] \notin {"close", "quit"}

NoSleepBesideEmptyRing ==
  \A p \in Producers :
    Asleep(p) /\ RingTail = head /\ ~stolen /\ ~consumerClosed =>
      owed > 0 \/ \E q \in Producers : OnItsWay(q)

(* The two sides never all sleep: with the consumer asleep on a ring with  *)
(* room, every producer blocked for room is on its way.                    *)
BlockedOnlyWhileFull ==
  ConsumerAsleep /\ (\A p \in Producers : Asleep(p) \/ pc[p] = "idle") =>
    \A p \in Producers : Asleep(p) => NoRoom(RingTail, head)

(* Every blocking call returns while the consumer lives, or fails once it  *)
(* has been dropped, unless a wake has been spent on a producer that had   *)
(* no use for it (push_block, reserve_block, Consumer::drop).              *)
CallsReturn == \A p \in Producers : pc[p] # "idle" ~> pc[p] = "idle" \/ stolen

(* Dropping the consumer releases every producer that is parked or is      *)
(* about to park (consumer_closed.close, then WakeSet::flush).             *)
DropReleasesProducers ==
  \A p \in Producers : consumerClosed /\ pc[p] # "idle" ~> pc[p] = "idle"

(* Once the last producer is gone the blocked consumer drains the ring and *)
(* returns None (pop_block's close handshake).                             *)
CloseReleasesConsumer ==
  closed ~> (cpc = "done" /\ cells = <<>>) \/ consumerClosed
=============================================================================
