----------------------------- MODULE Broadcast ------------------------------
(***************************************************************************)
(* The broadcast ring (broadcast/): producers claim positions by CAS on    *)
(* the tail, every consumer reads every position published after it        *)
(* subscribed, and a producer may reuse a slot once the slowest consumer,  *)
(* the floor, has passed its last occupant.  The floor is read seat by     *)
(* seat and cached twice; consumers subscribe (clone) and leave (drop)     *)
(* meanwhile.  One action per access to shared memory.                     *)
(*                                                                         *)
(* A consumer handle is named by the seat it holds.  The producers'        *)
(* WakeSet appears by its contract, which module WakeSet checks: wake_one  *)
(* takes one bit and unparks its owner, flush does so for every bit.       *)
(***************************************************************************)
EXTENDS Cursors, FiniteSets

CONSTANTS
  Producers,    \* producer handles
  NumSeats,     \* max_consumers
  Kinds,        \* per producer: the calls it makes
  MaxTail,      \* bound: positions claimed
  MaxClones     \* bound: consumers cloned

Calls == {"push", "reserve", "push_block", "reserve_block"}

ASSUME BroadcastAssumption ==
  /\ NumSeats \in Nat \ {0} /\ MaxTail \in Nat /\ MaxClones \in Nat
  /\ Kinds \in [Producers -> SUBSET Calls]

Seats == 0..(NumSeats - 1)

VARIABLES
  tail,      \* RingBuffer::tail
  word,      \* per slot: SequenceWord
  shared,    \* RingBuffer::min_head_cache
  active,    \* per seat: ConsumerSlot::active
  head,      \* per seat: ConsumerSlot::head
  bits,      \* producer_park: the armed producers
  tokens,    \* producers whose thread has an unpark token
  cpc,       \* per seat: the step of its holder
  joinAt,    \* per seat: the tail that its holder loaded to clone itself
  trying,    \* per seat: the seat its holder tries to take for the clone
  clones,    \* consumers cloned so far
  departing, \* dropped consumers that still have to flush
  pc,        \* per producer
  call,      \* per producer: the call it is in
  stage,     \* per producer: what it asks the registry for
  cur,       \* per producer: the position it asks about, claims or owns
  idx,       \* per producer: the seat it reads next
  low,       \* per producer: the least head its scan has read
  private,   \* per producer: FloorCache::private
  slips      \* history: the unsafe overlaps that have happened

registry == <<active, head>>
park == <<bits, tokens>>
consumers == <<cpc, joinAt, trying, clones, departing>>
scanning == <<idx, low, private>>
producers == <<pc, call, stage, cur>>
vars == <<tail, word, shared, registry, park, consumers, producers, scanning, slips>>

NoConsumers == -1      \* ConsumerFloor::NoConsumers

Vacant == 0            \* SlotState::VACANT
PublishedWord(pos) == 2 * pos + 1
AbandonedWord(pos) == 2 * pos + 2

ProducerSteps == {"idle", "load", "look", "shared", "scan", "head", "word", "cas", "mark",
                  "own", "wake", "arm", "parked", "disarm"}
Stages == {"enter", "gate", "claim", "armed", "recheck", "leave"}
ConsumerSteps == {"gone", "ready", "reading", "skipping", "wake", "seating", "seated",
                  "boarding"}
Slips == {"floor", "owner", "wake"}

RingTypes ==
  /\ tail \in Nat /\ shared \in Nat /\ word \in [Slots -> Nat]
  /\ active \in [Seats -> BOOLEAN] /\ head \in [Seats -> Nat]
  /\ bits \subseteq Producers /\ tokens \subseteq Producers /\ slips \subseteq Slips

ConsumerTypes ==
  /\ cpc \in [Seats -> ConsumerSteps]
  /\ joinAt \in [Seats -> Nat] /\ trying \in [Seats -> Nat]
  /\ clones \in Nat /\ departing \in Nat

ScanTypes ==
  /\ idx \in [Producers -> 0..NumSeats]
  /\ low \in [Producers -> Nat \cup {NoConsumers}] /\ private \in [Producers -> Nat]

CallTypes ==
  /\ pc \in [Producers -> ProducerSteps] /\ call \in [Producers -> Calls]
  /\ stage \in [Producers -> Stages] /\ cur \in [Producers -> Nat]

TypeOK == RingTypes /\ ConsumerTypes /\ ScanTypes /\ CallTypes

(* RingBuffer::split: the first consumer takes seat zero.                  *)
Init ==
  /\ tail = 0 /\ shared = 0
  /\ word = [i \in Slots |-> Vacant]
  /\ active = [s \in Seats |-> s = 0] /\ head = [s \in Seats |-> 0]
  /\ bits = {} /\ tokens = {}
  /\ cpc = [s \in Seats |-> IF s = 0 THEN "ready" ELSE "gone"]
  /\ joinAt = [s \in Seats |-> 0] /\ trying = [s \in Seats |-> 0]
  /\ clones = 0 /\ departing = 0
  /\ pc = [p \in Producers |-> "idle"] /\ call = [p \in Producers |-> "push"]
  /\ stage = [p \in Producers |-> "enter"] /\ cur = [p \in Producers |-> 0]
  /\ idx = [p \in Producers |-> 0] /\ low = [p \in Producers |-> NoConsumers]
  /\ private = [p \in Producers |-> 0]
  /\ slips = {}

-----------------------------------------------------------------------------
(* What is shared by the steps.                                            *)

(* A subscribed consumer: its seat is taken and its head stored.           *)
Live(s) == cpc[s] \notin {"gone", "boarding"}

(* Mutant: off by one.                                                     *)
PermitsOneMore(f, pos) == f # NoConsumers /\ (f >= pos \/ pos - f <= Capacity)

(* ConsumerFloor::permits.                                                 *)
Permits(f, pos) == f # NoConsumers /\ (f >= pos \/ pos - f < Capacity)

(* Mutant: the floor alone decides.                                        *)
FloorDecides(pos) == TRUE

(* SlotReuse::prior_occupant_resolved.                                     *)
PriorOccupantResolved(pos) == pos < Capacity \/ word[Slot(pos)] # Vacant

(* WakeSet::wake_one and WakeSet::flush.                                   *)
WakeOne ==
  \/ bits = {} /\ UNCHANGED park
  \/ \E q \in bits : bits' = bits \ {q} /\ tokens' = tokens \cup {q}

Flush == bits' = {} /\ tokens' = tokens \cup bits

(* A producer's next step, and the question it will put to the registry.   *)
Goto(p, step, st) == pc' = [pc EXCEPT ![p] = step] /\ stage' = [stage EXCEPT ![p] = st]

ResetScan(p) == idx' = [idx EXCEPT ![p] = 0] /\ low' = [low EXCEPT ![p] = NoConsumers]

Return(p) ==
  /\ Goto(p, "idle", "enter")
  /\ call' = [call EXCEPT ![p] = "push"] /\ cur' = [cur EXCEPT ![p] = 0]

(* claim_slot returned None: push_block tries again, the others give up.   *)
ClaimFailed(p) ==
  IF call[p] = "push_block"
    THEN Goto(p, "look", "enter") /\ cur' = [cur EXCEPT ![p] = 0] /\ UNCHANGED call
    ELSE Return(p)

(* permits_with_refresh answered yes: claim_slot goes on with the position,*)
(* has_space leads to a claim, and after arming it is left by a disarm.    *)
Permitted(p) ==
  /\ UNCHANGED call /\ ResetScan(p)
  /\ \/ stage[p] = "claim" /\ Goto(p, "word", "claim") /\ UNCHANGED cur
     \/ stage[p] = "gate" /\ Goto(p, "load", "claim") /\ cur' = [cur EXCEPT ![p] = 0]
     \/ /\ stage[p] = "recheck" /\ cur' = [cur EXCEPT ![p] = 0]
        /\ Goto(p, "disarm", IF call[p] = "push_block" THEN "enter" ELSE "claim")

(* permits_with_refresh answered no.  Before arming the caller may spin.   *)
Refused(p) ==
  /\ ResetScan(p)
  /\ \/ stage[p] = "claim" /\ ClaimFailed(p)
     \/ /\ stage[p] = "gate" /\ UNCHANGED call /\ cur' = [cur EXCEPT ![p] = 0]
        /\ \E next \in {"look", "arm"} : Goto(p, next, "enter")
     \/ /\ stage[p] = "recheck" /\ UNCHANGED call /\ cur' = [cur EXCEPT ![p] = 0]
        /\ Goto(p, "parked", "enter")

-----------------------------------------------------------------------------
(* Producers.                                                              *)

Call(p) ==
  /\ pc[p] = "idle"
  /\ tail + Cardinality({q \in Producers : pc[q] # "idle"}) < MaxTail
  /\ \E k \in Kinds[p] :
       /\ call' = [call EXCEPT ![p] = k]
       /\ IF k \in {"push", "reserve"} THEN Goto(p, "load", "claim") ELSE Goto(p, "look", "enter")
  /\ UNCHANGED <<tail, word, shared, registry, park, consumers, cur, scanning, slips>>

(* claim_slot and has_space load the tail.                                 *)
LoadTail(p) ==
  /\ pc[p] = "load"
  /\ cur' = [cur EXCEPT ![p] = tail]
  /\ Goto(p, "look", stage[p])
  /\ UNCHANGED <<tail, word, shared, registry, park, consumers, call, scanning, slips>>

(* any_subscribed reads the seats in order up to the first that is taken.  *)
LookPast(p) ==
  /\ pc[p] = "look" /\ idx[p] < NumSeats - 1 /\ ~active[idx[p]]
  /\ idx' = [idx EXCEPT ![p] = @ + 1]
  /\ UNCHANGED <<tail, word, shared, registry, park, consumers, producers, low, private, slips>>

(* Somebody is subscribed: the blocking calls go on to has_space ...       *)
SomebodyIsThere(p) ==
  /\ pc[p] = "look" /\ active[idx[p]]
  /\ stage[p] \in {"enter", "armed"}
  /\ Goto(p, "load", IF stage[p] = "enter" THEN "gate" ELSE "recheck")
  /\ ResetScan(p)
  /\ UNCHANGED <<tail, word, shared, registry, park, consumers, call, cur, private, slips>>

(* ... and FloorCache::permits consults its private floor first.           *)
AskPrivate(p) ==
  /\ pc[p] = "look" /\ active[idx[p]]
  /\ stage[p] \in {"gate", "claim", "recheck"}
  /\ IF Permits(private[p], cur[p])
       THEN Permitted(p)
       ELSE Goto(p, "shared", stage[p]) /\ ResetScan(p) /\ UNCHANGED <<call, cur>>
  /\ UNCHANGED <<tail, word, shared, registry, park, consumers, private, slips>>

(* Nobody is subscribed: a blocking call ends, disarming if it was armed;  *)
(* FloorCache::permits skips both caches.                                  *)
NobodyIsThere(p) ==
  /\ pc[p] = "look" /\ idx[p] = NumSeats - 1 /\ ~active[idx[p]]
  /\ ResetScan(p)
  /\ \/ stage[p] = "enter" /\ Return(p)
     \/ stage[p] = "armed" /\ Goto(p, "disarm", "leave") /\ UNCHANGED <<call, cur>>
     \/ /\ stage[p] \in {"gate", "claim", "recheck"}
        /\ Goto(p, "scan", stage[p]) /\ UNCHANGED <<call, cur>>
  /\ UNCHANGED <<tail, word, shared, registry, park, consumers, private, slips>>

(* The shared floor.                                                       *)
AskShared(p) ==
  /\ pc[p] = "shared"
  /\ private' = [private EXCEPT ![p] = shared]
  /\ IF Permits(shared, cur[p])
       THEN Permitted(p)
       ELSE Goto(p, "scan", stage[p]) /\ ResetScan(p) /\ UNCHANGED <<call, cur>>
  /\ UNCHANGED <<tail, word, shared, registry, park, consumers, slips>>

(* ConsumerRegistry::floor: each seat's flag, then its head.               *)
ScanFlag(p) ==
  /\ pc[p] = "scan" /\ idx[p] < NumSeats
  /\ IF active[idx[p]]
       THEN Goto(p, "head", stage[p]) /\ UNCHANGED idx
       ELSE idx' = [idx EXCEPT ![p] = @ + 1] /\ UNCHANGED <<pc, stage>>
  /\ UNCHANGED <<tail, word, shared, registry, park, consumers, call, cur, low, private, slips>>

(* Mutant: the fastest consumer sets the floor.                            *)
ScanHeadMax(p) ==
  /\ pc[p] = "head"
  /\ low' = [low EXCEPT ![p] = IF head[idx[p]] > @ THEN head[idx[p]] ELSE @]
  /\ idx' = [idx EXCEPT ![p] = @ + 1]
  /\ Goto(p, "scan", stage[p])
  /\ UNCHANGED <<tail, word, shared, registry, park, consumers, call, cur, private, slips>>

ScanHead(p) ==
  /\ pc[p] = "head"
  /\ low' = [low EXCEPT ![p] =
       IF @ = NoConsumers \/ head[idx[p]] < @ THEN head[idx[p]] ELSE @]
  /\ idx' = [idx EXCEPT ![p] = @ + 1]
  /\ Goto(p, "scan", stage[p])
  /\ UNCHANGED <<tail, word, shared, registry, park, consumers, call, cur, private, slips>>

(* FloorCache::refresh: fetch_max into the shared floor.                   *)
Refresh(p) ==
  /\ pc[p] = "scan" /\ idx[p] = NumSeats
  /\ IF low[p] = NoConsumers
       THEN UNCHANGED <<shared, private>>
       ELSE /\ shared' = IF low[p] > shared THEN low[p] ELSE shared
            /\ private' = [private EXCEPT ![p] = low[p]]
  /\ IF Permits(low[p], cur[p]) THEN Permitted(p) ELSE Refused(p)
  /\ UNCHANGED <<tail, word, registry, park, consumers, slips>>

(* The slot must not be held by an unresolved claim of an earlier lap.     *)
CheckOccupant(p) ==
  /\ pc[p] = "word"
  /\ IF PriorOccupantResolved(cur[p])
       THEN Goto(p, "cas", "claim") /\ UNCHANGED <<call, cur>>
       ELSE ClaimFailed(p)
  /\ UNCHANGED <<tail, word, shared, registry, park, consumers, scanning, slips>>

Claim(p) ==
  /\ pc[p] = "cas" /\ tail = cur[p]
  /\ tail' = tail + 1
  /\ Goto(p, "mark", "claim")
  /\ UNCHANGED <<word, shared, registry, park, consumers, call, cur, scanning, slips>>

(* compare_exchange_weak, which may also fail for no reason.               *)
LoseClaim(p) ==
  /\ pc[p] = "cas"
  /\ cur' = [cur EXCEPT ![p] = tail]
  /\ Goto(p, "look", "claim")
  /\ UNCHANGED <<tail, word, shared, registry, park, consumers, call, scanning, slips>>

(* SequenceWord::claim, claim_taking_previous: a step after the CAS.       *)
Mark(p) ==
  /\ pc[p] = "mark"
  /\ word' = [word EXCEPT ![Slot(cur[p])] = Vacant]
  /\ Goto(p, "own", "claim")
  /\ UNCHANGED <<tail, shared, registry, park, consumers, call, cur, scanning, slips>>

(* push, commit: the value is in the slot before its word is published.    *)
Publish(p) ==
  /\ pc[p] = "own"
  /\ word' = [word EXCEPT ![Slot(cur[p])] = PublishedWord(cur[p])]
  /\ Return(p)
  /\ UNCHANGED <<tail, shared, registry, park, consumers, scanning, slips>>

(* SlotWriter::drop, WrittenSlot::drop: a reservation given up.            *)
Abandon(p) ==
  /\ pc[p] = "own" /\ call[p] \in {"reserve", "reserve_block"}
  /\ word' = [word EXCEPT ![Slot(cur[p])] = AbandonedWord(cur[p])]
  /\ Goto(p, "wake", "leave") /\ UNCHANGED <<call, cur>>
  /\ UNCHANGED <<tail, shared, registry, park, consumers, scanning, slips>>

WakeAfterAbandon(p) ==
  /\ pc[p] = "wake" /\ WakeOne /\ Return(p)
  /\ UNCHANGED <<tail, word, shared, registry, consumers, scanning, slips>>

Arm(p) ==
  /\ pc[p] = "arm"
  /\ bits' = bits \cup {p}
  /\ Goto(p, "look", "armed")
  /\ UNCHANGED <<tail, word, shared, registry, tokens, consumers, call, cur, scanning, slips>>

Unpark(p) ==
  /\ pc[p] = "parked" /\ p \in tokens
  /\ tokens' = tokens \ {p}
  /\ Goto(p, "disarm", "enter")
  /\ UNCHANGED <<tail, word, shared, registry, bits, consumers, call, cur, scanning, slips>>

Disarm(p) ==
  /\ pc[p] = "disarm"
  /\ bits' = bits \ {p}
  /\ \/ stage[p] = "leave" /\ Return(p)
     \/ stage[p] = "enter" /\ Goto(p, "look", "enter") /\ UNCHANGED <<call, cur>>
     \/ stage[p] = "claim" /\ Goto(p, "load", "claim") /\ UNCHANGED <<call, cur>>
  /\ UNCHANGED <<tail, word, shared, registry, tokens, consumers, scanning, slips>>

-----------------------------------------------------------------------------
(* Consumers.                                                              *)

GotoC(s, step) == cpc' = [cpc EXCEPT ![s] = step]

(* pop, pop_ref: a word that names another position reads as NotReady.     *)
Classify(s) ==
  /\ cpc[s] = "ready"
  /\ \/ word[Slot(head[s])] = PublishedWord(head[s]) /\ GotoC(s, "reading")
     \/ word[Slot(head[s])] = AbandonedWord(head[s]) /\ GotoC(s, "skipping")
  /\ UNCHANGED <<tail, word, shared, registry, park, joinAt, trying, clones, departing, producers,
                 scanning, slips>>

(* Mutant: an abandoned position is skipped without a wake.                *)
SkipQuietly(s) ==
  /\ cpc[s] \in {"reading", "skipping"}
  /\ head' = [head EXCEPT ![s] = @ + 1]
  /\ GotoC(s, IF cpc[s] = "reading" THEN "wake" ELSE "ready")
  /\ UNCHANGED <<tail, word, shared, active, park, joinAt, trying, clones, departing, producers,
                 scanning, slips>>

(* HeadAdvance, SlotReader::drop, and the skip of an abandoned position.   *)
AdvanceHead(s) ==
  /\ cpc[s] \in {"reading", "skipping"}
  /\ head' = [head EXCEPT ![s] = @ + 1]
  /\ GotoC(s, "wake")
  /\ UNCHANGED <<tail, word, shared, active, park, joinAt, trying, clones, departing, producers,
                 scanning, slips>>

WakeProducer(s) ==
  /\ cpc[s] = "wake" /\ WakeOne /\ GotoC(s, "ready")
  /\ UNCHANGED <<tail, word, shared, registry, joinAt, trying, clones, departing, producers,
                 scanning, slips>>

(* Consumer::clone loads the tail.  History: a claim below that tail whose *)
(* slot is not marked yet.                                                 *)
CloneAt(s) ==
  /\ cpc[s] = "ready" /\ clones < MaxClones
  /\ clones' = clones + 1
  /\ joinAt' = [joinAt EXCEPT ![s] = tail]
  /\ GotoC(s, "seating")
  /\ slips' = IF \E p \in Producers : pc[p] = "mark" THEN slips \cup {"owner"} ELSE slips
  /\ UNCHANGED <<tail, word, shared, registry, park, trying, departing, producers, scanning>>

EndClone(s) == joinAt' = [joinAt EXCEPT ![s] = 0] /\ trying' = [trying EXCEPT ![s] = 0]

(* ConsumerRegistry::claim tries seat after seat and panics past the last. *)
TrySeat(s) ==
  /\ cpc[s] = "seating"
  /\ \/ /\ trying[s] = NumSeats
        /\ GotoC(s, "ready") /\ EndClone(s) /\ UNCHANGED active
     \/ /\ trying[s] < NumSeats /\ active[trying[s]]
        /\ trying' = [trying EXCEPT ![s] = @ + 1] /\ UNCHANGED <<active, joinAt, cpc>>
     \/ /\ trying[s] < NumSeats /\ ~active[trying[s]]
        /\ active' = [active EXCEPT ![trying[s]] = TRUE]
        /\ cpc' = [cpc EXCEPT ![s] = "seated", ![trying[s]] = "boarding"]
        /\ UNCHANGED <<joinAt, trying>>
  /\ UNCHANGED <<tail, word, shared, head, park, clones, departing, producers, scanning, slips>>

(* The scans that have read seat s.                                        *)
HasRead(p, s) == pc[p] \in {"scan", "head"} /\ s < idx[p]

(* subscribe_at stores the head in the seat it took.  History: a scan that *)
(* has read the child's seat and not yet the parent's; a stale head that   *)
(* this store raises under an armed producer.                              *)
Subscribe(s) ==
  LET child == trying[s] IN
  /\ cpc[s] = "seated"
  /\ head' = [head EXCEPT ![child] = joinAt[s]]
  /\ cpc' = [cpc EXCEPT ![s] = "ready", ![child] = "ready"]
  /\ EndClone(s)
  /\ slips' = slips
       \cup {x \in {"floor"} : \E p \in Producers : HasRead(p, child) /\ ~HasRead(p, s)}
       \cup {x \in {"wake"} : bits # {} /\ head[child] < joinAt[s]}
  /\ UNCHANGED <<tail, word, shared, active, park, clones, departing, producers, scanning>>

(* Consumer::drop: leave the seat, then flush.                             *)
Unsubscribe(s) ==
  /\ cpc[s] = "ready"
  /\ active' = [active EXCEPT ![s] = FALSE]
  /\ GotoC(s, "gone") /\ departing' = departing + 1
  /\ UNCHANGED <<tail, word, shared, head, park, joinAt, trying, clones, producers, scanning, slips>>

FlushProducers ==
  /\ departing > 0 /\ departing' = departing - 1
  /\ Flush
  /\ UNCHANGED <<tail, word, shared, registry, cpc, joinAt, trying, clones, producers, scanning, slips>>

-----------------------------------------------------------------------------
ProducerStep(p) ==
  \/ Call(p) \/ LoadTail(p) \/ LookPast(p) \/ SomebodyIsThere(p) \/ NobodyIsThere(p)
  \/ AskPrivate(p) \/ AskShared(p) \/ ScanFlag(p) \/ ScanHead(p) \/ Refresh(p)
  \/ CheckOccupant(p) \/ Claim(p) \/ LoseClaim(p) \/ Mark(p) \/ Publish(p)
  \/ Abandon(p) \/ WakeAfterAbandon(p) \/ Arm(p) \/ Unpark(p) \/ Disarm(p)

ConsumerStep(s) ==
  \/ Classify(s) \/ AdvanceHead(s) \/ WakeProducer(s)
  \/ CloneAt(s) \/ TrySeat(s) \/ Subscribe(s) \/ Unsubscribe(s)

Next ==
  \/ \E p \in Producers : ProducerStep(p)
  \/ \E s \in Seats : ConsumerStep(s)
  \/ FlushProducers

Spec == Init /\ [][Next]_vars

-----------------------------------------------------------------------------
(* Properties.                                                             *)

(* A cached floor never passes a subscriber.                               *)
SharedIsLow == \A s \in Seats : Live(s) => shared <= head[s]
PrivateIsLow == \A s \in Seats, p \in Producers : Live(s) => private[p] <= head[s]

FloorsAreLow == "floor" \notin slips => SharedIsLow /\ PrivateIsLow

(* A producer owns the slot of the position it claimed until it publishes  *)
(* or abandons it.                                                         *)
Owns(p, pos) == pc[p] \in {"mark", "own"} /\ cur[p] = pos

OwnersAreAlone ==
  "owner" \notin slips =>
    \A p, q \in Producers :
      p # q /\ pc[p] \in {"mark", "own"} /\ pc[q] \in {"mark", "own"}
        => Slot(cur[p]) # Slot(cur[q])

(* Every position a subscriber has not read yet is in its slot, or still   *)
(* owned by the producer that claimed it.                                  *)
Resolved(pos) == word[Slot(pos)] \in {PublishedWord(pos), AbandonedWord(pos)}

NothingUnreadIsLost ==
  slips \cap {"floor", "owner"} = {} =>
    \A s \in Seats : Live(s) =>
      /\ \A pos \in head[s]..(tail - 1) : Resolved(pos) \/ \E p \in Producers : Owns(p, pos)
      /\ cpc[s] = "reading" => word[Slot(head[s])] = PublishedWord(head[s])

Asleep(p) == pc[p] = "parked" /\ p \notin tokens

AtRest ==
  /\ \A p \in Producers : pc[p] \in {"idle", "own"} \/ Asleep(p)
  /\ \A s \in Seats : cpc[s] \in {"gone", "ready", "reading"}
  /\ departing = 0

(* With every thread at rest, a producer sleeps only beside a position a   *)
(* subscriber has yet to read: never on a ring that has been read to the   *)
(* end, nor when nobody is subscribed any more.  (Room alone is too much   *)
(* to ask: two woken producers may fail their attempts on a stale tail and *)
(* keep their wakes, while a third sleeps on.)                             *)
NoSleepBesideDrainedRing ==
  AtRest /\ slips \cap {"owner", "wake"} = {} /\ (\E p \in Producers : Asleep(p)) =>
    \E s \in Seats : active[s] /\ head[s] < tail
=============================================================================
