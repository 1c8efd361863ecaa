-------------------------------- MODULE Mpmc --------------------------------
(***************************************************************************)
(* The mpmc ring (mpmc/) and its blocking calls.                           *)
(*                                                                         *)
(* Producers reserve batches of positions from a shared cursor, bounded by *)
(* a watermark of what consumers have taken, and publish into whichever    *)
(* slot of their batch is free; consumers scan for a published slot and    *)
(* claim it.  A slot's ready word says what it holds, its done word whom   *)
(* it is free for.  A consumer that gives a slot back wakes the parked     *)
(* producer that announced it reserved the position.                       *)
(*                                                                         *)
(* Consumer Scanner is modelled word by word and blocks in pop_block; its  *)
(* peers claim any published slot and never block.  A wake takes a set bit *)
(* and delivers the unpark in one step (module WakeSet has the steps), and *)
(* may pick any of the equally ranked: the round-robin cursor is one       *)
(* choice.                                                                 *)
(***************************************************************************)
EXTENDS ScanBudget, FiniteSets, FiniteSetsExt

CONSTANTS
  NumProducers,
  NumPeers,    \* consumers besides the scanner
  Steady,      \* bound: the peers that pop until the producers are gone,
               \* another one pops at most once
  BatchSize,   \* C::PRODUCER_BATCH
  FlushAt,     \* C::CONSUMED_FLUSH
  Kinds,       \* per producer: the calls it makes
  Starts,      \* bound: the slots a lap may start at
  Prefill,     \* bound: values in the ring when the run begins
  Openings,    \* bound: the consumers there are then, and the calls each
               \* producer has already made
  Calls        \* bound: calls each producer makes before it is dropped

Producers == 1..NumProducers
Scanner == 0
Consumers == 0..NumPeers

CallKinds == {"push", "reserve", "push_block", "reserve_block"}

ASSUME MpmcAssumption ==
  /\ Capacity >= 4   \* asserted by RingBuffer::new
  /\ Prefill \in 0..Capacity /\ Starts \subseteq Slots /\ NumProducers \in 1..64 /\ NumPeers \in Nat
  /\ BatchSize \in 1..32 /\ FlushAt \in Nat \ {0}
  /\ Kinds \in [Producers -> SUBSET CallKinds] /\ Calls \in [Producers -> Nat]
  /\ Steady \subseteq Consumers \ {Scanner}
  /\ Openings \subseteq [consumers : (SUBSET Consumers) \ {{}}, made : [Producers -> Nat]]

VARIABLES
  ready,      \* per slot: position + state of the position's round
  done,       \* per slot: the position it is free for
  cell,       \* per slot: the position whose value its memory holds
  claim,      \* the cursor producers reserve from
  consumed,   \* ConsumedWatermark
  pc, call, calls,  \* per producer: its step, its call, calls made
  phase,      \* per producer: which attempt of a blocking call this is
  batch,      \* per producer: positions reserved and not yet used
  seen,       \* per producer: the claim cursor refill_batch loaded
  want,       \* per producer: how many positions it is about to reserve
  look,       \* per producer: positions acquire_slot has still to look at
  cur,        \* per producer: the position acquired
  awaited,    \* per producer: the batch announced, {} for anything
  bits, tokens,     \* producer_park: bits set, threads with an unpark token
  cpc, at,    \* per consumer: its step, the position claimed
  tally,      \* per consumer: pops since its last flush
  attempt,    \* which attempt of pop_block the scanner is in
  armed, ctoken,    \* consumer_park: the scanner's bit, its unpark token
  live, alive,      \* EndpointCount of each side
  closed, consumerClosed,
  wasted      \* history: a wake was spent on a producer that had no use for it
              \* or made none of it, or was routed past a stale announcement

ring == <<ready, done, cell, claim, consumed>>
making == <<pc, call, calls, phase>>
holding == <<batch, seen, want, look, cur>>
producerPark == <<awaited, bits, tokens>>
consumers == <<cpc, at, tally, attempt>>
consumerPark == <<armed, ctoken>>
producerSide == <<making, holding, producerPark>>
consumerSide == <<lap, consumers, consumerPark>>
closing == <<live, alive, closed, consumerClosed>>
vars == <<ring, producerSide, consumerSide, closing, wasted>>

None == -1

(* ReadyWord::decode.                                                      *)
StateOf(s) == (ready[s] - s) % Capacity
RoundPos(s) == ready[s] - StateOf(s)
Published(s) == StateOf(s) = 1
Claimed(s) == StateOf(s) >= 2

IsFreeFor(pos) == done[Slot(pos)] = pos

TypeOK ==
  /\ LapTypeOK
  /\ ready \in [Slots -> Nat] /\ done \in [Slots -> Nat] /\ cell \in [Slots -> Nat \cup {None}]
  /\ claim \in Nat /\ consumed \in Nat
  /\ call \in [Producers -> CallKinds \cup {"none"}] /\ calls \in [Producers -> Nat]
  /\ phase \in [Producers -> {"first", "again", "last"}]
  /\ \A p \in Producers : batch[p] \subseteq 0..(claim - 1) /\ look[p] \subseteq batch[p]
  /\ seen \in [Producers -> Nat] /\ want \in [Producers -> 0..BatchSize]
  /\ cur \in [Producers -> Nat \cup {None}]
  /\ \A p \in Producers : awaited[p] \subseteq 0..(claim - 1)
  /\ bits \subseteq Producers /\ tokens \subseteq Producers
  /\ at \in [Consumers -> Nat \cup {None}] /\ tally \in [Consumers -> 0..(FlushAt - 1)]
  /\ attempt \in {"first", "again", "last"}
  /\ armed \in BOOLEAN /\ ctoken \in BOOLEAN
  /\ live \subseteq Producers /\ alive \subseteq Consumers
  /\ closed \in BOOLEAN /\ consumerClosed \in BOOLEAN

(* The run begins a round late: the first has been consumed, by consumers  *)
(* some of which are gone, and Prefill values of the next are published.   *)
(* The batches so far are used up.                                         *)
InitFrom(opening) ==
  /\ LapInit
  /\ ready = [s \in Slots |-> IF s < Prefill THEN Capacity + s + 1 ELSE s + 2]
  /\ done = [s \in Slots |-> Capacity + s]
  /\ cell = [s \in Slots |-> IF s < Prefill THEN Capacity + s ELSE None]
  /\ claim = Capacity + Prefill /\ consumed = Capacity
  /\ pc = [p \in Producers |-> "idle"] /\ calls = opening.made
  /\ call = [p \in Producers |-> "none"] /\ phase = [p \in Producers |-> "first"]
  /\ batch = [p \in Producers |-> {}] /\ look = [p \in Producers |-> {}]
  /\ seen = [p \in Producers |-> 0] /\ want = [p \in Producers |-> 0]
  /\ cur = [p \in Producers |-> None]
  /\ awaited = [p \in Producers |-> {}] /\ bits = {} /\ tokens = {}
  /\ cpc = [c \in Consumers |-> IF c \in opening.consumers THEN "idle" ELSE "gone"]
  /\ at = [c \in Consumers |-> None]
  /\ tally = [c \in Consumers |-> 0] /\ attempt = "first"
  /\ armed = FALSE /\ ctoken = FALSE
  /\ live = Producers /\ alive = opening.consumers
  /\ closed = FALSE /\ consumerClosed = FALSE /\ wasted = FALSE

Init == \E opening \in Openings : InitFrom(opening)

(* A call that is over leaves nothing behind it.                           *)
Move(p, step, ph) ==
  /\ pc' = [pc EXCEPT ![p] = step]
  /\ call' = [call EXCEPT ![p] = IF step = "idle" THEN "none" ELSE @]
  /\ phase' = [phase EXCEPT ![p] = IF step = "idle" THEN "first" ELSE ph]

Goto(p, step) == Move(p, step, phase[p])

CGoto(c, step) == cpc' = [cpc EXCEPT ![c] = step]

-----------------------------------------------------------------------------
(* Waking.                                                                 *)

(* Producer p has its slot, or no call in progress: room is no news to it. *)
HasSlot(p) == pc[p] \in {"acquired", "wake", "quit", "idle"}

Useless(p, pos) == HasSlot(p) \/ (batch[p] # {} /\ pos \notin batch[p])

(* AwaitedBatch::interest.                                                 *)
Interested(rank, pos) ==
  {p \in bits : rank = CASE awaited[p] = {} -> "any"
                         [] pos \in awaited[p] -> "reserved"
                         [] OTHER -> "declines"}

(* Mutant: one that takes anything is woken in place of the one that       *)
(* reserved the position.                                                  *)
WakeAny(pos) ==
  LET takers == Interested("reserved", pos) \cup Interested("any", pos)
  IN IF takers = {}
     THEN UNCHANGED <<producerPark, wasted>>
     ELSE /\ \E p \in takers :
               /\ bits' = bits \ {p} /\ tokens' = tokens \cup {p}
               /\ wasted' = (wasted \/ Useless(p, pos) \/ \E q \in bits : pos \in batch[q] \ awaited[q])
          /\ UNCHANGED awaited

(* wake_one_interested: whoever announced the position freed, otherwise    *)
(* whoever takes anything; one that announced other positions is left      *)
(* alone.  Its two passes are one step: a producer that arms between them  *)
(* has yet to look again.                                                  *)
WakeFor(pos) ==
  LET reserved == Interested("reserved", pos)
      any == Interested("any", pos)
  IN IF reserved \cup any = {}
     THEN UNCHANGED <<producerPark, wasted>>
     ELSE /\ \E p \in IF reserved # {} THEN reserved ELSE any :
               /\ bits' = bits \ {p} /\ tokens' = tokens \cup {p}
               /\ wasted' = (wasted \/ Useless(p, pos) \/ \E q \in bits : pos \in batch[q] \ awaited[q])
          /\ UNCHANGED awaited

(* consumer_park.wake_one.                                                 *)
WakeScanner == armed' = FALSE /\ ctoken' = (ctoken \/ armed)

-----------------------------------------------------------------------------
(* Producers: one attempt to acquire a slot.                               *)

Call(p) ==
  /\ pc[p] = "idle" /\ p \in live /\ calls[p] < Calls[p]
  /\ \E k \in Kinds[p] :
       /\ call' = [call EXCEPT ![p] = k]
       /\ pc' = [pc EXCEPT ![p] = IF k = "reserve_block" THEN "open?" ELSE "acquire"]
  /\ calls' = [calls EXCEPT ![p] = @ + 1]
  /\ UNCHANGED <<ring, phase, holding, producerPark, consumerSide, closing, wasted>>

(* reserve_block gives up first thing if the consumers are gone.           *)
CheckOpen(p) ==
  /\ pc[p] = "open?"
  /\ Goto(p, IF consumerClosed THEN "idle" ELSE "acquire")
  /\ UNCHANGED <<ring, calls, holding, producerPark, consumerSide, closing, wasted>>

(* What each call does when an attempt finds no slot.  reserve_block looks *)
(* at the close flag before its second attempt, push_block after it.       *)
OnFailure(p) ==
  CASE call[p] = "push_block" -> "closed?"
    [] call[p] = "reserve_block" /\ phase[p] = "first" -> "arm"
    [] call[p] = "reserve_block" /\ phase[p] = "again" -> "park"
    [] OTHER -> "idle"

(* refill_batch, for a batch that is used up: load the claim cursor ...    *)
LoadClaim(p) ==
  /\ pc[p] = "acquire" /\ batch[p] = {}
  /\ seen' = [seen EXCEPT ![p] = claim]
  /\ Goto(p, "estimate")
  /\ UNCHANGED <<ring, calls, batch, want, look, cur, producerPark, consumerSide, closing, wasted>>

(* ... subtract the watermark, which a cursor loaded before the last pops  *)
(* may be behind: the difference then wraps, and there is no estimate ...  *)
InFlight(p) == seen[p] - consumed
HasEstimate(p) == InFlight(p) \in 0..(Capacity - 1)

Estimate(p) ==
  /\ pc[p] = "estimate"
  /\ IF HasEstimate(p)
     THEN /\ want' = [want EXCEPT ![p] = Min({BatchSize, Capacity - InFlight(p)})]
          /\ seen' = [seen EXCEPT ![p] = 0]
          /\ Goto(p, "take")
     ELSE Goto(p, "fallback") /\ UNCHANGED <<seen, want>>
  /\ UNCHANGED <<ring, calls, batch, look, cur, producerPark, consumerSide, closing, wasted>>

(* ... failing that, one position if its slot is free ...                  *)
Fallback(p) ==
  /\ pc[p] = "fallback"
  /\ IF IsFreeFor(seen[p])
     THEN want' = [want EXCEPT ![p] = 1] /\ Goto(p, "take")
     ELSE Goto(p, OnFailure(p)) /\ UNCHANGED want
  /\ seen' = [seen EXCEPT ![p] = 0]
  /\ UNCHANGED <<ring, calls, batch, look, cur, producerPark, consumerSide, closing, wasted>>

(* ... and take that many from wherever the cursor has got to.             *)
Reserve(p) ==
  /\ pc[p] = "take"
  /\ claim' = claim + want[p]
  /\ batch' = [batch EXCEPT ![p] = claim..(claim + want[p] - 1)]
  /\ want' = [want EXCEPT ![p] = 0]
  /\ Goto(p, "acquire")
  /\ UNCHANGED <<ready, done, cell, consumed, calls, seen, look, cur, producerPark, consumerSide,
                 closing, wasted>>

(* Mutant: the slot is taken without asking its done word.                 *)
LookAway(p) ==
  /\ pc[p] = "acquire" /\ batch[p] # {}
  /\ cur' = [cur EXCEPT ![p] = Min(batch[p])]
  /\ batch' = [batch EXCEPT ![p] = @ \ {Min(@)}]
  /\ Goto(p, "acquired")
  /\ UNCHANGED <<ring, calls, seen, want, look, producerPark, consumerSide, closing, wasted>>

(* acquire_slot asks the slots of its batch one by one, lowest first.      *)
Look(p) ==
  /\ pc[p] \in {"acquire", "look"} /\ batch[p] # {}
  /\ LET left == IF pc[p] = "acquire" THEN batch[p] ELSE look[p]
         pos == Min(left)
     IN IF IsFreeFor(pos)
        THEN /\ cur' = [cur EXCEPT ![p] = pos]
             /\ batch' = [batch EXCEPT ![p] = @ \ {pos}]
             /\ look' = [look EXCEPT ![p] = {}]
             /\ Goto(p, "acquired")
        ELSE /\ look' = [look EXCEPT ![p] = left \ {pos}]
             /\ Goto(p, IF left = {pos} THEN OnFailure(p) ELSE "look")
             /\ UNCHANGED <<cur, batch>>
  /\ UNCHANGED <<ring, calls, seen, want, producerPark, consumerSide, closing, wasted>>

-----------------------------------------------------------------------------
(* Producers: what each call makes of the attempt.                         *)

(* push writes and publishes; a reservation's writer is committed.         *)
Publish(p) ==
  /\ pc[p] = "acquired"
  /\ call[p] = "reserve_block" => phase[p] = "last"
  /\ LET pos == cur[p]
     IN /\ cell' = [cell EXCEPT ![Slot(pos)] = pos]
        /\ ready' = [ready EXCEPT ![Slot(pos)] = pos + 1]
  /\ cur' = [cur EXCEPT ![p] = None]
  /\ Goto(p, "wake")
  /\ UNCHANGED <<done, claim, consumed, calls, batch, seen, want, look, producerPark,
                 consumerSide, closing, wasted>>

PutBack(p) ==
  /\ batch' = [batch EXCEPT ![p] = @ \cup {cur[p]}]
  /\ cur' = [cur EXCEPT ![p] = None]

(* The writer of reserve or reserve_block is dropped uncommitted: the      *)
(* position returns to the batch, and the wake that announced it, if one   *)
(* did, to nobody.                                                         *)
Restore(p) ==
  /\ pc[p] = "acquired"
  /\ call[p] = "reserve" \/ (call[p] = "reserve_block" /\ phase[p] = "last")
  /\ PutBack(p)
  /\ Goto(p, "idle")
  /\ wasted' = (wasted \/ bits \ {p} # {})
  /\ UNCHANGED <<ring, calls, seen, want, look, producerPark, consumerSide, closing>>

(* Mutant: the first writer's position is not put back.                    *)
ReserveAnother(p) ==
  /\ pc[p] = "acquired" /\ call[p] = "reserve_block" /\ phase[p] # "last"
  /\ cur' = [cur EXCEPT ![p] = None]
  /\ Move(p, IF phase[p] = "again" THEN "quit" ELSE "acquire", "last")
  /\ UNCHANGED <<ring, calls, batch, seen, want, look, producerPark, consumerSide, closing, wasted>>

(* reserve_block drops the writer that told it there is a slot, and        *)
(* reserves again.                                                         *)
ReserveAgain(p) ==
  /\ pc[p] = "acquired" /\ call[p] = "reserve_block" /\ phase[p] # "last"
  /\ PutBack(p)
  /\ Move(p, IF phase[p] = "again" THEN "quit" ELSE "acquire", "last")
  /\ UNCHANGED <<ring, calls, seen, want, look, producerPark, consumerSide, closing, wasted>>

WakeConsumer(p) ==
  /\ pc[p] = "wake"
  /\ WakeScanner
  /\ Goto(p, IF phase[p] = "again" THEN "quit" ELSE "idle")
  /\ UNCHANGED <<lap, ring, calls, holding, producerPark, consumers, closing, wasted>>

CheckClosed(p) ==
  /\ pc[p] = "closed?"
  /\ Goto(p, IF phase[p] = "first"
             THEN IF consumerClosed THEN "idle" ELSE "arm"
             ELSE CASE consumerClosed -> "quit"
                    [] ~consumerClosed /\ call[p] = "push_block" -> "park"
                    [] OTHER -> "acquire")
  /\ UNCHANGED <<ring, calls, holding, producerPark, consumerSide, closing, wasted>>

(* announce_awaited, then WakeSet::arm.  The announcement is what is left  *)
(* of the batch now; the attempt that follows may refill it.               *)
Arm(p) ==
  /\ pc[p] = "arm"
  /\ awaited' = [awaited EXCEPT ![p] = batch[p]]
  /\ bits' = bits \cup {p}
  /\ Move(p, IF call[p] = "push_block" THEN "acquire" ELSE "closed?", "again")
  /\ UNCHANGED <<ring, calls, holding, tokens, consumerSide, closing, wasted>>

(* thread::park, then disarm; the announcement stays.                      *)
Park(p) ==
  /\ pc[p] = "park" /\ p \in tokens
  /\ tokens' = tokens \ {p} /\ bits' = bits \ {p}
  /\ Move(p, IF call[p] = "push_block" THEN "acquire" ELSE "open?", "first")
  /\ UNCHANGED <<ring, calls, holding, awaited, consumerSide, closing, wasted>>

(* disarm and retract_awaited: the call is over, or reserve_block has its  *)
(* slot.                                                                   *)
Quit(p) ==
  /\ pc[p] = "quit"
  /\ bits' = bits \ {p} /\ awaited' = [awaited EXCEPT ![p] = {}]
  /\ Goto(p, IF phase[p] = "last" THEN "acquire" ELSE "idle")
  /\ UNCHANGED <<ring, calls, holding, tokens, consumerSide, closing, wasted>>

-----------------------------------------------------------------------------
(* Producer::drop.                                                         *)

(* Dropped once it has made its calls.                                     *)
Dropping(p) == pc[p] = "idle" /\ p \in live /\ calls[p] = Calls[p]

(* BatchAbandon: each unused position, lowest first, is claimed and        *)
(* released as if consumed, once its slot is free for it ...               *)
Abandon(p) ==
  /\ Dropping(p) /\ batch[p] # {}
  /\ LET pos == Min(batch[p])
     IN /\ IsFreeFor(pos)
        /\ ready' = [ready EXCEPT ![Slot(pos)] = pos + 2]
        /\ done' = [done EXCEPT ![Slot(pos)] = pos + Capacity]
        /\ cur' = [cur EXCEPT ![p] = pos]
        /\ batch' = [batch EXCEPT ![p] = @ \ {pos}]
  /\ Goto(p, "route")
  /\ UNCHANGED <<cell, claim, consumed, calls, seen, want, look, producerPark, consumerSide,
                 closing, wasted>>

(* ... and its release is routed like a consumer's.                        *)
Route(p) ==
  /\ pc[p] = "route"
  /\ WakeFor(cur[p] + Capacity)
  /\ cur' = [cur EXCEPT ![p] = None]
  /\ Goto(p, "idle")
  /\ UNCHANGED <<ring, calls, batch, seen, want, look, consumerSide, closing>>

(* Until then it waits, waking a consumer each time round ...              *)
AbandonWaits(p) ==
  /\ Dropping(p) /\ batch[p] # {} /\ ~IsFreeFor(Min(batch[p])) /\ ~consumerClosed
  /\ armed
  /\ WakeScanner
  /\ UNCHANGED <<lap, ring, producerSide, consumers, closing, wasted>>

(* ... and leaves the position as it is once no consumer will free it.     *)
GiveUp(p) ==
  /\ Dropping(p) /\ batch[p] # {} /\ ~IsFreeFor(Min(batch[p])) /\ consumerClosed
  /\ batch' = [batch EXCEPT ![p] = @ \ {Min(@)}]
  /\ UNCHANGED <<ring, making, seen, want, look, cur, producerPark, consumerSide, closing, wasted>>

Leave(p) ==
  /\ Dropping(p) /\ batch[p] = {}
  /\ awaited' = [awaited EXCEPT ![p] = {}]
  /\ live' = live \ {p}
  /\ Goto(p, IF live = {p} THEN "close" ELSE "idle")
  /\ UNCHANGED <<ring, calls, holding, bits, tokens, consumerSide, alive, closed, consumerClosed, wasted>>

(* The last producer: close, then flush the consumers.                     *)
Close(p) ==
  /\ pc[p] = "close"
  /\ closed' = TRUE
  /\ Goto(p, "wake")
  /\ UNCHANGED <<ring, calls, holding, producerPark, consumerSide, live, alive, consumerClosed, wasted>>

-----------------------------------------------------------------------------
(* Consumers.                                                              *)

(* A lap starts where the last one left off, which laps that found nothing *)
(* and the stagger of clones can make any slot.  Only the slot matters, so *)
(* a lap's positions are counted from there.                               *)
StartLap == \E s \in Starts : NextLap(s) /\ CGoto(Scanner, "scan")

StartPop ==
  /\ cpc[Scanner] = "idle" /\ Scanner \in alive
  /\ StartLap
  /\ UNCHANGED <<ring, producerSide, at, tally, attempt, consumerPark, closing, wasted>>

(* claim_slot: the slot at the scan position is published ...              *)
SeePublished ==
  /\ cpc[Scanner] = "scan" /\ ~Exhausted
  /\ Published(Slot(position))
  /\ at' = [at EXCEPT ![Scanner] = RoundPos(Slot(position))]
  /\ CGoto(Scanner, "cas")
  /\ UNCHANGED <<lap, ring, producerSide, tally, attempt, consumerPark, closing, wasted>>

(* ... or is not.                                                          *)
SeeNothing ==
  /\ cpc[Scanner] = "scan"
  /\ ~Published(Slot(position))
  /\ StepOver
  /\ UNCHANGED <<ring, producerSide, consumers, consumerPark, closing, wasted>>

(* Consumer c wins the slot of position pos and counts the pop.            *)
Win(c, pos) ==
  /\ ready' = [ready EXCEPT ![Slot(pos)] = pos + 2]
  /\ LET pops == tally[c] + 1
     IN IF pops >= FlushAt
        THEN consumed' = consumed + pops /\ tally' = [tally EXCEPT ![c] = 0]
        ELSE tally' = [tally EXCEPT ![c] = pops] /\ UNCHANGED consumed

ClaimWon ==
  /\ cpc[Scanner] = "cas"
  /\ ready[Slot(position)] = at[Scanner] + 1
  /\ Win(Scanner, at[Scanner])
  /\ NextLap(0)
  /\ CGoto(Scanner, "take")
  /\ UNCHANGED <<done, cell, claim, producerSide, at, attempt, consumerPark, closing, wasted>>

ClaimLost ==
  /\ cpc[Scanner] = "cas"
  /\ ready[Slot(position)] # at[Scanner] + 1
  /\ SkipContended
  /\ at' = [at EXCEPT ![Scanner] = None]
  /\ CGoto(Scanner, "scan")
  /\ UNCHANGED <<ring, producerSide, tally, attempt, consumerPark, closing, wasted>>

PeerClaims(c) ==
  /\ c # Scanner /\ cpc[c] = "idle" /\ c \in alive
  /\ \E s \in Slots :
       /\ Published(s)
       /\ Win(c, RoundPos(s))
       /\ at' = [at EXCEPT ![c] = RoundPos(s)]
  /\ CGoto(c, "take")
  /\ UNCHANGED <<lap, done, cell, claim, producerSide, attempt, consumerPark, closing, wasted>>

(* Mutant: the slot is released while its value is still in it.            *)
HandBackUnread(c) ==
  /\ done' = [done EXCEPT ![Slot(at[c])] = at[c] + Capacity]
  /\ UNCHANGED <<ready, cell, claim, consumed>>

(* The value is read out, at once or when a SlotReader is dropped, and the *)
(* slot released ...                                                       *)
HandBack(c) ==
  /\ cell' = [cell EXCEPT ![Slot(at[c])] = None]
  /\ done' = [done EXCEPT ![Slot(at[c])] = at[c] + Capacity]
  /\ UNCHANGED <<ready, claim, consumed>>

Take ==
  /\ cpc[Scanner] = "take"
  /\ HandBack(Scanner)
  /\ CGoto(Scanner, "route")
  /\ UNCHANGED <<lap, producerSide, at, tally, attempt, consumerPark, closing, wasted>>

(* ... wake_producer_for, and pop returns.                                 *)
TakenWake ==
  /\ cpc[Scanner] = "route"
  /\ WakeFor(at[Scanner] + Capacity)
  /\ at' = [at EXCEPT ![Scanner] = None]
  /\ attempt' = "first"
  /\ CGoto(Scanner, IF attempt = "again" THEN "disarm" ELSE "idle")
  /\ UNCHANGED <<lap, ring, making, holding, tally, consumerPark, closing>>

PeerTakes(c) ==
  /\ c # Scanner /\ cpc[c] = "take"
  /\ HandBack(c)
  /\ WakeFor(at[c] + Capacity)
  /\ at' = [at EXCEPT ![c] = None]
  /\ CGoto(c, IF c \in Steady THEN "idle" ELSE "none")
  /\ UNCHANGED <<lap, making, holding, tally, attempt, consumerPark, closing>>

(* A lap that found nothing.  pop_block makes three kinds of attempt: the  *)
(* first, one more once armed, and a last one on a closed ring.            *)
LapFails ==
  /\ cpc[Scanner] = "scan" /\ Exhausted
  /\ NextLap(0)
  /\ CGoto(Scanner, IF attempt = "last" THEN "none" ELSE "closed?")
  /\ UNCHANGED <<ring, producerSide, at, tally, attempt, consumerPark, closing, wasted>>

(* Mutant: a closed ring is taken for an empty one.                        *)
TrustClosed ==
  /\ cpc[Scanner] = "closed?"
  /\ CGoto(Scanner, IF closed THEN "none" ELSE IF attempt = "first" THEN "arm" ELSE "park")
  /\ armed' = (armed /\ ~closed)
  /\ UNCHANGED <<lap, ring, producerSide, at, tally, attempt, ctoken, closing, wasted>>

ConsumerCheckClosed ==
  /\ cpc[Scanner] = "closed?"
  /\ IF closed
     THEN attempt' = "last" /\ armed' = FALSE /\ StartLap
     ELSE /\ CGoto(Scanner, IF attempt = "first" THEN "arm" ELSE "park")
          /\ UNCHANGED <<lap, attempt, armed>>
  /\ UNCHANGED <<ring, producerSide, at, tally, ctoken, closing, wasted>>

(* Mutant: no attempt is made between arming and parking.                  *)
ArmAndPark ==
  /\ cpc[Scanner] = "arm"
  /\ armed' = TRUE
  /\ attempt' = "again"
  /\ CGoto(Scanner, "closed?")
  /\ UNCHANGED <<lap, ring, producerSide, at, tally, ctoken, closing, wasted>>

ArmConsumer ==
  /\ cpc[Scanner] = "arm"
  /\ armed' = TRUE
  /\ attempt' = "again"
  /\ StartLap
  /\ UNCHANGED <<ring, producerSide, at, tally, ctoken, closing, wasted>>

ParkConsumer ==
  /\ cpc[Scanner] = "park" /\ ctoken
  /\ ctoken' = FALSE /\ armed' = FALSE
  /\ attempt' = "first"
  /\ StartLap
  /\ UNCHANGED <<ring, producerSide, at, tally, closing, wasted>>

DisarmConsumer ==
  /\ cpc[Scanner] = "disarm"
  /\ armed' = FALSE
  /\ CGoto(Scanner, "idle")
  /\ UNCHANGED <<lap, ring, producerSide, at, tally, attempt, ctoken, closing, wasted>>

(* Consumer::drop: flush the tally; the last one out closes its side and   *)
(* wakes every parked producer.                                            *)
(* (A steady peer stays until the producers are gone.)                     *)
DropConsumer(c) ==
  /\ cpc[c] \in {"idle", "none"} /\ c \in alive
  /\ c \in Steady => live = {}
  /\ consumed' = consumed + tally[c]
  /\ tally' = [tally EXCEPT ![c] = 0]
  /\ alive' = alive \ {c}
  /\ consumerClosed' = (alive = {c})
  /\ CGoto(c, IF alive = {c} THEN "flush" ELSE "gone")
  /\ UNCHANGED <<lap, ready, done, cell, claim, producerSide, at, attempt, consumerPark, live,
                 closed, wasted>>

FlushProducers(c) ==
  /\ cpc[c] = "flush"
  /\ tokens' = tokens \cup bits /\ bits' = {}
  /\ CGoto(c, "gone")
  /\ UNCHANGED <<lap, ring, making, holding, awaited, at, tally, attempt, consumerPark, closing, wasted>>

-----------------------------------------------------------------------------
ProducerNext(p) ==
  \/ Call(p) \/ CheckOpen(p) \/ LoadClaim(p) \/ Estimate(p) \/ Fallback(p)
  \/ Reserve(p) \/ Look(p) \/ Publish(p) \/ Restore(p) \/ ReserveAgain(p) \/ WakeConsumer(p)
  \/ CheckClosed(p) \/ Arm(p) \/ Park(p) \/ Quit(p)
  \/ Abandon(p) \/ Route(p) \/ AbandonWaits(p) \/ GiveUp(p)
  \/ Leave(p) \/ Close(p)

ScannerNext ==
  \/ StartPop \/ SeePublished \/ SeeNothing \/ ClaimWon \/ ClaimLost \/ Take \/ TakenWake \/ LapFails
  \/ ConsumerCheckClosed \/ ArmConsumer \/ ParkConsumer \/ DisarmConsumer

ConsumerNext(c) ==
  PeerClaims(c) \/ PeerTakes(c) \/ DropConsumer(c) \/ FlushProducers(c)

Asleep(p) == pc[p] = "park" /\ p \notin tokens

ConsumerAsleep == cpc[Scanner] = "park" /\ ~ctoken

(* The ring is drained, and nobody has a step to take but to call again or *)
(* to leave.                                                               *)
AtRest ==
  /\ \A p \in Producers : Asleep(p) \/ pc[p] = "idle"
  /\ \A c \in Consumers : cpc[c] \in {"idle", "none", "gone"} \/ (c = Scanner /\ ConsumerAsleep)
  /\ \A s \in Slots : ~Published(s)

(* All handles are dropped; or, a wake having been wasted, whoever sleeps  *)
(* sleeps for good.                                                        *)
Finished ==
  /\ \/ live = {} /\ alive = {} /\ \A p \in Producers : pc[p] = "idle"
     \/ wasted /\ AtRest
  /\ UNCHANGED vars

Next ==
  \/ \E p \in Producers : ProducerNext(p)
  \/ ScannerNext
  \/ \E c \in Consumers : ConsumerNext(c)
  \/ Finished

Spec == Init /\ [][Next]_vars

-----------------------------------------------------------------------------
(* Properties.                                                             *)

Writing(p) == cur[p] # None /\ pc[p] = "acquired"
Reading(c) == cpc[c] = "take"

(* A claimed slot is one consumer's alone and holds the value published at *)
(* its position; an acquired one is one producer's alone and holds none; a *)
(* published one holds its value and is nobody's (claim_slot, acquire_slot,*)
(* DoneWord::release).                                                     *)
SlotsHaveOneOwner ==
  \A s \in Slots :
    LET readers == {c \in Consumers : Reading(c) /\ Slot(at[c]) = s}
        writers == {p \in Producers : Writing(p) /\ Slot(cur[p]) = s}
    IN /\ Cardinality(readers) + Cardinality(writers) <= 1
       /\ \A c \in readers : cell[s] = at[c]
       /\ \A p \in writers : cell[s] = None
       /\ Published(s) => readers = {} /\ writers = {} /\ cell[s] = RoundPos(s)

(* RingBuffer::drop frees what the words say is there: never a value twice *)
(* and never a slot that holds none.                                       *)
HoldsValue(s) == Published(s) \/ (Claimed(s) /\ done[s] # RoundPos(s) + Capacity)

TeardownIsExact == \A s \in Slots : HoldsValue(s) <=> cell[s] # None

(* pop_block returns None only on a closed ring with nothing left in it.   *)
NoneMeansDrained ==
  cpc[Scanner] = "none" => closed /\ \A s \in Slots : ~Published(s)

(* The consumer never sleeps on a published value, or on a closed ring,    *)
(* without a producer about to wake it.                                    *)
NoSleepBesideValue ==
  ConsumerAsleep /\ (closed \/ \E s \in Slots : Published(s)) =>
    armed /\ \E p \in Producers : pc[p] = "wake"

(* The second reserve of reserve_block finds a slot: from the moment the   *)
(* first one is given back until it is taken again, nobody else can take   *)
(* what is free of the batch, so None means that the consumers are gone.   *)
TheSlotStaysFree ==
  \A p \in Producers : phase[p] = "last" =>
    /\ pc[p] \in {"quit", "acquire"} => \E pos \in batch[p] : IsFreeFor(pos)
    /\ pc[p] = "look" => \E pos \in look[p] : IsFreeFor(pos)

(* A release of the slot for pos has yet to wake its producer.             *)
Routing(pos) ==
  \/ cpc[Scanner] = "route" /\ at[Scanner] + Capacity = pos
  \/ \E p \in Producers : pc[p] = "route" /\ cur[p] + Capacity = pos

(* A producer that announced what it waits for does not sleep once a       *)
(* position of it is free and the wake of that release is spent            *)
(* (announce_awaited, wake_producer_for).                                  *)
NoSleepBesideAwaited ==
  \A p \in Producers : Asleep(p) =>
    \A pos \in awaited[p] : IsFreeFor(pos) => Routing(pos)

(* What p would find if it tried again: a position of its batch that is    *)
(* free, or a refill that starts with one.                                 *)
Reservable(n) == n \in 0..(Capacity - 1) \/ IsFreeFor(claim)

CouldWrite(p) ==
  IF batch[p] # {}
  THEN \E pos \in batch[p] : IsFreeFor(pos)
  ELSE Reservable(claim - consumed) /\ IsFreeFor(claim)

(* With the ring drained and everybody asleep or done, no producer sleeps  *)
(* beside a position it could write to.                                    *)
NoSleepBesideRoom ==
  AtRest => \A p \in Producers : Asleep(p) => ~CouldWrite(p)

(* As long as no wake has been wasted, no producer is left asleep beside   *)
(* room: whoever loses a race for a position, its estimate or its          *)
(* announcement overtaken, is woken by what the winner makes of it         *)
(* (refill_batch, wake_producer_for).  This is checked between two         *)
(* producers; among four, a wake nobody calls wasted can be held back.     *)
NoSleepUnlessWasted == ~wasted => NoSleepBesideRoom
=============================================================================
