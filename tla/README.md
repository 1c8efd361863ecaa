# Verification of quetzalcoatl

quetzalcoatl is a library of bounded ring buffers: spsc, mpsc, spmc, mpmc and
broadcast.  Every ring is lock-free for its non-blocking calls and, for its
blocking calls, parks threads through a hand-written park layer without
timeouts, so that a wake that is lost is a hang.  This directory models the
rings and the park layer in TLA+, checks them with TLC on small instances, and
proves the results that carry most weight with TLAPS for every instance.

Paths below are relative to the crate's `src/`.

## Inventory

| Part | State | Operations | What is hard | What makes it correct |
|---|---|---|---|---|
| Single-waiter parking: `common/sole_parker.rs`, `thread_parker.rs`, `single_parker.rs`, `close_state.rs`, `endpoint_count.rs` | `parked` flag, thread handle, unpark token, close flag, live count | arm, disarm, wake, wake_published, pop_block, push_block, close | store-load reordering, arm against wake, close against park | no lost wake; None only after everything is drained |
| Many-waiter parking: `common/park.rs`, `park_registry.rs`, `park_overflow.rs`, `wake_interest.rs` | 64-bit bitmap, one handle per slot, round-robin cursor, leases, overflow stack | lease, release, arm, park, disarm, wake_one, wake_one_interested, wake_n, flush | bits that outlive handles, two wakers on one bit, recycled slots, more endpoints than slots, starvation | sleepers are reachable; a call that wakes nobody has missed nobody; leases are exclusive |
| Cursors: `common/cursors.rs`, `capacity.rs`, `aligned_buf.rs` | head, tail | capacity check, position to slot | stale tails, wrapping subtraction | a claim finds its slot free |
| mpsc: `mpsc/`, `common/slot_sequence.rs`, `seq_slot.rs`, `uncommitted_slot.rs` | cursors, a sequence word per slot, each producer's cached head | push, reserve, write, commit, pop, pop_ref, drain, clone, drop | claims out of order with publications, abandoned reservations, batches cut short by a panic, drops of either side | ownership, no loss, no duplication, FIFO per producer, delivery |
| mpsc blocking: `mpsc/producer.rs`, `mpsc/consumer.rs` | both park sides, both closes | push_block, reserve_block, pop_block, drain_block | a wake taken by a thread that no longer needs it, simultaneous parks, close against park | nobody sleeps beside what it waits for; calls return |
| spsc: `spsc/` | cursors, each side's cached copy of the other | push, pop, drain, pop_ref, push_async, pop_async | cached cursors, callbacks that panic between a value's move and its publication, futures that come and go | nothing is read twice or overwritten unread; nobody waits beside what it waits for |
| spmc: `spmc/` | head claimed by CAS in batches of four, done word per slot | push, claim_batch, pop, pop_ref, drain, drop | batches owned by a consumer that is dropped | disjoint batches; freed slots wake the producer |
| mpmc: `mpmc/` | claim cursor, ready and done words, producers' batches, consumed watermark, announcements | refill_batch, acquire_slot, push, claim_slot, release, abandon | estimates that lag, out-of-order publication, routed wakes | as mpsc; no position is skipped; a release reaches the producer that can use it |
| mpmc scan budget: `mpmc/scan_budget.rs` | position, floor, probes spent | step, skip_contended, exhausted | a lap that jumps over contended slots and then parks | an exhausted lap has looked at every position, in bounded work |
| broadcast: `broadcast/`, `arc.rs` | seats with a head and an active flag, slot state, two levels of floor cache | claim_slot, publish, abandon, pop, clone, drop | a minimum over seats that move, subscribe and leave during the scan | no value is overwritten before every subscriber has read it |
| Async wakers: `common/wake_async.rs`, `waker_overflow.rs`, `park_registration.rs`, `registration_id.rs` | registrations by slot and on an overflow stack | register, withdraw, wake | cancelled futures, chains detached by a withdrawal | a registration is in one place until its future is gone; a future waits only until the wake on its way |
| Backoff: `common/backoff.rs` | local | spin, exhaust | none | finite |
| Diagnostics: `mpmc/backstop_monitor.rs`, `rescue_evidence.rs`, `ring_snapshot.rs`, `common/wake_delivery.rs` | counters | sample | none for the protocol | not part of it |
| Test support: `common/loom_models.rs`, `park_handshake_model.rs`, probes and watchdogs | | | | not part of it |

A ring publishes a position (a store to a cursor or a slot word) and then calls
the park layer to wake the other side.  A blocking call looks at the ring, arms
its parker, looks again, and parks.  Endpoints lease a park slot when they are
made and release it when dropped; the last endpoint of a side closes the ring
and wakes the other side.

`common/park_handshake_model.rs` explains that loom cannot decide the
`WakeSet` handshake: its state space is too large there and those tests are
ignored.  `WakeSet` below is that check, and its proof.

## Modules

| Module | Models | Uses |
|---|---|---|
| `AtomicWait` | what a park handshake promises: a monitor | |
| `SoleParker` | the single-waiter handshake on store buffers | implements `AtomicWait` |
| `WakeSet` | the many-waiter park layer | |
| `Cursors` | the capacity check and the slot map | |
| `ClaimQueue` | what a many-producer ring promises: a bounded queue of claims | |
| `Mpsc` | the mpsc ring, one action per atomic access | `Cursors`; implements `ClaimQueue` |
| `MpscBlocking` | the blocking calls of mpsc | `Cursors`, `ClaimQueue` for the ring |
| `Spmc` | the spmc ring and its producer's blocking calls | `Cursors` |
| `Broadcast` | the broadcast ring, its subscriptions and its producers' blocking calls | `Cursors` |
| `ScanBudget` | the laps of an mpmc consumer's scan | `Cursors` |
| `Mpmc` | the mpmc ring and the blocking calls of both sides | `ScanBudget` |
| `AsyncSpsc` | the spsc ring with its async calls and their waker sets | `Cursors` |
| `MCMpscBlocking`, `MCWakeSet`, `MCBroadcast`, `MCMpmc`, `MCAsyncSpsc` | call bounds, symmetry, constraints for TLC | |
| `SoleParkerProofs`, `WakeSetProofs`, `MpscProofs`, `MpscBlockingProofs`, `SpmcProofs`, `BroadcastProofs`, `MpmcProofs`, `AsyncSpscProofs` | theorems and proofs | their modules |

History variables record what no code reads.  Some carry the exceptions a
property needs (see Findings): `stolen` (MpscBlocking), `slips` (Broadcast),
`wasted` (Mpmc), `missed` (AsyncSpsc).  Others remember what a property compares
with: `slept` (WakeSet), `examined` (ScanBudget), `taken` and `dropped` (Spmc).

Some operators carry the comment "Mutant:".  They are plausible mistakes in the
operator that follows them, appear in no specification, and are listed in
`PROJECT.json` with the property each of them breaks.

### SoleParker

Each thread has a program counter; each action is one access of `pop_block`,
`arm`, `disarm`, `wake`, `wake_published` or `ThreadParker::wake`.  The ring is
the number `work` of published units.  Memory is modelled as x86-TSO: a Relaxed
or Release store may enter the thread's FIFO buffer, which `Drain` empties; a
SeqCst store, a read-modify-write and a SeqCst fence wait for an empty buffer.
`Lingering` names the stores that may be buffered, so that the role of each can
be told apart.  Every publish may take either form the callers have, `PublishRelease`
followed by the fenced `wake` (mpsc) or `PublishSeqCst` followed by `wake_published`
(spsc), in any mixture.  `token` is the permit of `std::thread::park`.  Spinning before a park is left out: an empty look
leads on to arming.  A spurious return from `park` is left out too; it can only
make the waiter look again.

### Mpsc

`seq` is the sequence word: `2*pos` free, `2*pos+1` published, `Tombstone`
abandoned.  A claim is `LoadTail`, perhaps `LoadHead`, then `ClaimOk` or
`ClaimLost`, each on what the producer has read before.  `Write`, `Publish`,
`DropWritten` and `Abandon` are `push` and the two reservation types with their
drops.  The consumer's `Classify`, `TakeValue`, `ReleaseSlot` serve `pop`,
`pop_ref` and the drains: after a release it may publish the head (pop, or the
end of a batch, or a panic of the callback) or go on with its batch.  A dropped
consumer pops what is ready, position by position; `DropRing` is the ring's own
drop.  Slot data is ordered by Release stores and Acquire loads of the word, so
the module is sequentially consistent.  The data is tracked as a live value or
`NoValue`, so that reading an empty slot and overwriting a full one show up as
violations.

### MpscBlocking

The ring is `ClaimQueue`, which `Mpsc` implements: `cells` are the claimed
positions, open, full or void.  A claim still reads the tail first and decides
on the head later.  The producers' `WakeSet` is its bitmap, handles, tokens and
cursor, with arm as one step (the handle becomes visible before its bit) and the
two halves of a wake, taking the bit and claiming the handle, as two.  The
consumer is its only waker.  The consumer's `SoleParker` is the monitor that
`SoleParker` implements: `WakeConsumer` is one step.  Every producer chooses at
each step whether its call is a push or a reservation: a reservation may be
abandoned, and disarms before it is written, while a push in the re-check
publishes before it disarms.  `stolen` is set when a wake reaches a producer that
has its slot already.

### Spmc

`done` is the done word of each slot, the position it is next free for.  A consumer
pops from its batch (`NextInBatch`) or claims one: `LoadHead`, `LoadTail`, and, on an
empty ring, the second look at both cursors that `claim_batch` takes when the ring is
closed (`ClosedWhileEmpty`, `ReloadTail`, `ReloadHead`), then `ClaimOk` or `ClaimLost`.
`Read`, `Release` and `WakeProducer` are `pop`, `SlotReader` and the drains: `owes` are
the consumers with the obligation of `DrainWake`, a drain may go on before it wakes.
`final` marks the pop that `pop_block` adds when it has found nothing and then the
ring closed.  `Discard`, `Leave`, `Close` are `Consumer::drop` with `ConsumerClose`, at any
time, also with a batch in hand; `dropped` records what such a drop destroyed.  A handle that is
dropped is not used again, so the handles of an instance bound its clones.  The
producer is `push_block`, `reserve_block` and, where there is room, `push` and
`reserve` (`ClaimNow`); its write position is the tail, which only it moves.  Its
`SoleParker` is the monitor; the consumers' `WakeSet` reads and writes no ring state,
and a consumer that finds nothing polls again.  The value pushed at a position is the
position itself, so order, loss and duplication can be read off `taken` and `dropped`.

### WakeSet

One action per access to the bitmap, the handles, the cursor, the lease bits and
the overflow stack.  The ring is left out: what a waiter's last look finds is
open, so the results hold for every ring built on this layer.  A `Transient`
waiter may be dropped and made again, which recycles its slot together with the
handle left in it.  `slept` remembers who was asleep when a call began.

### Broadcast

A consumer handle is named by its seat.  `claim_slot` asks `FloorCache::permits`,
whose steps are its own: is anybody subscribed (`LookPast`, `SomebodyIsThere`,
`NobodyIsThere`), the private floor, the shared one, then the scan of the registry
flag by flag and head by head (`ScanFlag`, `ScanHead`) and the refresh of both
caches.  `stage` says which caller asked: the early exit of a blocking call, its look
before and after arming, or the claim.  A claim is the CAS (`Claim`, `LoseClaim`)
and, a step later, the store that marks the slot (`Mark`); `Publish` and `Abandon`
end it.  A clone loads the tail, takes the first free seat flag by flag, and then
stores its head (`CloneAt`, `TrySeat`, `Subscribe`), which leaves a window with the
head of the seat's last occupant.  The producers' `WakeSet` appears by its contract.
`slips` names the three overlaps the code leaves open, see Findings.

### ScanBudget and Mpmc

`ScanBudget` has the operations of a lap: `StepOver`, `SkipContended`, `NextLap`.
`Mpmc` extends it and decides which of them happens at each position.

A producer's attempt is `refill_batch` (`LoadClaim`, `Estimate` or `Fallback`,
`Reserve`: two loads and a fetch_add with other threads in between) and
`acquire_slot` (`Look`, one slot of the batch at a time).  `call` and `phase` say which
of the four calls it is in and which attempt that is; `OnFailure` is what each makes
of an attempt that fails.  `reserve_block` gives back the position it was told of
(`ReserveAgain`) and reserves a second time.  `Arm` announces the unused part of the
batch, and `WakeFor` routes a release by those announcements.  `Abandon`, `Route`,
`AbandonWaits`, `GiveUp`, `Leave`, `Close` are the drop of a producer.  The watermark
is the sum of flushed tallies.  One consumer is modelled word by word (`Scanner`,
in `pop_block`); the others claim any published slot, hand it back and wake in one
step, and never block.  `wasted` is set by the wakes that come to nothing, see Findings.

### AsyncSpsc

Each side is one thread, so steps interleave between the sides (and an outside call
of `RingBuffer::close`) but not between futures of one side.  The executor polls
any future at any time, spuriously as well, and drops any at any time.  A push future goes through
`CheckOpen`, an attempt, `Sweep`/`PutBack` if it has registered before, `Register`,
`Displace`, and the two looks again.  `hand` holds the registrations the producer's
thread has detached from slot or stack and not put back yet.  The consumer's
call is a pop, a drain, a poll of its one future or its drop; `Publish` is the drop
of `HeadPublisher`, at the end of a call or as a panic unwinds it, so that a call may
end after any value.  `WakeSlot`, `DetachOverflow`, `WakeChain` are `wake_all` and
`flush`.  Memory is sequentially consistent.

## Runs

| Run | Instance | States | Shows |
|---|---|---|---|
| `sole_parker` | 2 wakers, 2 units each, both publishes, Release publishes may linger | 18,410 | no lost wake, the waiter finishes, implements `AtomicWait` |
| `sole_parker_late_clear` | 1 waker, 3 units, clears may linger too | | finding 1 |
| `mpsc_ring` | 2 producers, 2 slots, 2 sends each | 336,782 | slot ownership, conservation, delivery, implements `ClaimQueue` (and so keeps every producer's order) |
| `mpsc_blocking` | 2 producers, 2 calls and 1, 2 slots | 409,764 | no producer sleeps beside an empty ring, no consumer beside a value; every call returns; each close reaches the other side |
| `mpsc_stolen_wake` | the same calls on 1 slot | | finding 2 |
| `wake_set_race` | 2 transient waiters on 1 slot and the overflow, 2 wakers in wake_one, wake_n(2) and flush | 1,978,365 | every sleeper is reachable; a call that delivers too little has missed nobody |
| `wake_set_rounds` | 2 waiters, 2 slots, 1 waker calling for ever | 234,652 | no starvation |
| `broadcast_ring` | producers in push_block and reserve_block, 2 seats, 1 slot, 3 positions, 2 clones | 6,516,013 | cached floors stay low, owners are alone, nothing unread is lost, no sleep beside a ring read to the end |
| `spmc_ring` | 2 consumers, 2 slots, batches of 2, 4 pushes, drops mid-batch | 680,712 | exclusive batches, every value in one place, None means drained; until a drop destroys values: releases are heard, pushes return, values are delivered |
| `spmc_silent_drop` | the same | | finding 3 |
| `mpmc_ring` | producers in push_block and reserve_block, 4 slots, skip 2, batches of 2, flush of 3, 3 values at the start; one call each beside the scanner, one call of either beside scanner and peer, or two calls each beside a peer that goes on | 4,948,008 | one owner per slot, exact teardown, None means drained, no sleep beside a value, none beside a free position of the batch announced, none beside room unless a wake was wasted, reserve_block keeps its slot, laps cover the ring |
| `async_spsc` | 4 push futures, 1 pop future at a time, 2 slots | 843,318 | nothing unread is lost, registrations are owned, no future waits beside room or a value |

Bounds and why they suffice.  Two producers on two slots with two sends each wrap
the ring, so that a claim meets a slot of the lap before, a stale tail, a stale
cached head and a tombstone left by the other.  In
`mpsc_blocking` the third value of three finds the ring full, whichever producer has
it; that two producers sleep at once takes one slot (`mpsc_stolen_wake`) or the park
layer alone (`wake_set_race`).
Two wakers and two waiters are
the smallest set in which a bit is taken from a waker that chose it, and in which
a recycled slot holds a stranger's handle; one slot for two waiters puts the other on the
overflow stack, where its registrations can go stale.  `MaxRegistered` bounds the
stack: a waiter that would register beyond it waits in the model, and one that has a
park slot never does.
Four pushes on the two slots of `Spmc` are two laps: a batch of two can be held by one
consumer while the other takes the next lap's value beside it.
One slot in `Broadcast` makes every position a reuse, and both producers block each
other; two seats are a parent and its clone, which is what each of the three overlaps
needs; the second clone can take a seat that has been left.  `TornFloorsOnly` lets a run go
on after a torn floor, so that what it breaks and what it does not is told apart, and
ends it at the other two overlaps.
`Mpmc` needs four slots (the code asserts it).  It begins a round late with three
values published (`Prefill`), so that the first position reserved is the only free one,
batches straddle the round and the watermark lags by what the tallies hold.  `Starts`
begins every lap at the last slot, so that laps wrap; a skip of two on four slots jumps over a
slot and returns for it.  `Openings` are the situations the run may begin in.  In three of
them the scanner is there, beside two producers with one call left each, or beside a peer
and one producer that has a call left, of either kind.  A peer pops once and may be dropped at any
time, or (`Steady`) pops in any order until the producers are gone.  In the fourth opening only
a peer of the second sort is left, and each producer makes two calls.  TLC reaches there what
routing is about: both producers asleep at once, each with an announced
batch; one of them asleep with a batch refilled after it announced nothing; and a
re-check, no wake on its way to it, that finds the estimate wrapped.
Four push futures fill slot, stack, hand and the executor's hands at once; two slots
let a push succeed beside a future that waits.
Positions are unbounded in the models; in the code they roll over
after 2^64 claims.

`CHECK_DEADLOCK FALSE` appears in `mpsc_blocking` and `broadcast_ring`: what a wasted
wake or a silent overlap leaves behind, and a ring whose bounds are used up, really
stop.  The other runs check for deadlock; a module whose system ends has an action for
that, and in `Mpmc` the action also stands for a ring at rest after a wasted wake: as
long as none has been wasted, the run shows, the system does not stop.

### Findings

1. *The clear of `parked` is load-bearing* (`sole_parker.rs:141`, run
   `sole_parker_late_clear`).  The clear in `wake_published` is Relaxed, and
   `ThreadParker::wake` returns early without a read-modify-write if it finds no
   handle.  The clear may then wait in the waker's store buffer while the waiter,
   still holding a permit, goes round, arms again and parks.  When the clear
   reaches memory the waiter is asleep with the flag down; every later publish and
   the close see `parked = false` and skip it.  The module's documentation says
   such a clear costs at most a redundant unpark.  With the clear prompt
   (`Lingering` without "clear") the protocol is correct, and proved.
2. *A wake spent on a producer that is done* (`mpsc/producer.rs:185`, run
   `mpsc_stolen_wake`).  `push_block` publishes in its re-check and disarms
   afterwards.  In between, the consumer can pop that value and spend its one wake
   on that producer's bit and handle.  A second producer, parked for room, stays
   parked; the ring is empty and the consumer parks as well.  `reserve_block`
   disarms before it writes and is not affected.  The documentation of `push_block`
   promises to block only until the consumer makes space.
3. *A drop that frees slots in silence* (`spmc/consumer.rs:448`, run
   `spmc_silent_drop`).  `Consumer::drop` hands back what is left of its batch and
   wakes the producer only if it was the last consumer.  The run ends with the
   producer parked for a slot that is free, the ring empty and the other consumer
   polling for ever.  Until such a drop every release is heard, and that is
   proved.  The same drop destroys the unread values of the batch although the other
   consumer could take them, while the module documentation promises no loss
   (`spmc/mod.rs:23`); `ExactlyOnce` counts them as dropped.

### Known exceptions

Three more disagreements between code and documentation came up.  They have no run of
their own; a history variable keeps them out of the property they refute, so that the
property still says that nothing else goes wrong.

- *Torn floors* (`broadcast/consumer_registry.rs:132`, `slips`).  A floor scan that has
  passed a free seat does not see the consumer cloned into it afterwards at its
  parent's tail, and the parent, in a seat the scan reads later, may have moved on.
  The scan's minimum is then above the clone's head, and `FloorCache::refresh`
  publishes it for good.  The documentation of `SharedFloor` says "The value is always
  `<=` the true floor" (`broadcast/floor_cache.rs:17`).  A producer may overwrite what
  the clone has not read.  The other two overlaps: a clone joins above a claim that is
  not marked yet ("owner"), so that the next lap's claim may find the word of the lap
  before; and `Subscribe` raises a stale low head under a producer that has armed
  because of it, and wakes nobody ("wake").  `FloorsAreLow`, `OwnersAreAlone`,
  `NothingUnreadIsLost` and `NoSleepBesideDrainedRing` hold, and are proved, until the
  overlaps that concern them.
- *Wakes wasted by routing* (`mpmc/producer.rs:74`, `wasted`).  A wake is wasted when
  its producer has its slot or can only use other positions.  It happens to a
  producer that has pushed in its re-check and not disarmed yet, as in finding 2; to one
  whose re-check refilled the batch after it had announced that anything will do; and to one
  that announced a batch it no longer waits for.  A wake also comes to nothing when the slot
  it announced is given back: a writer of `reserve_block` is dropped uncommitted, its position
  returns to the batch, and no publication follows that would wake the next producer.  (With
  a flush interval of four TLC finds that one stranding a second producer; `wasted` is set
  whenever a reservation is given back while another producer is armed.)
  Both sides can then sleep on an empty ring.
  `wake_producer_for` is documented to prevent that: "a wake spent on any other producer
  leaves it parked with its slot free" (`mpmc/mod.rs:289`).
  A producer overtaken between its two loads of the estimate finds the difference wrapped
  (`mpmc/consumed_watermark.rs:48`), asks after a slot of a round that is over, and parks
  beside free positions.  `wasted` does not excuse that.  In the run it happens, and it is not
  for long: whoever overtook it has published, and the release of that value wakes the sleeper.
- *Registrations in hand* (`common/waker_overflow.rs:153`, `missed`).  While a
  withdrawal has the overflow stack detached, or a displaced registration is on its way
  from the slot to the stack, a wake passes it by, the flush of the consumer's drop
  included.  The file's documentation calls hiding peers from a concurrent wake benign
  (lines 44 to 50).  For the next pop that is so; if there is none, the future stays
  pending beside room, or after the consumer has gone.  `AsyncSpsc!NoSleepBesideRoom` leaves
  out exactly the futures that were in hand, until their next poll.

Three statements about sleeping producers are weaker than one would like, because
the attempt to prove the stronger ones turned up behaviours of larger instances.  In each
of them a wake is delivered, and the producer woken fails without passing it on.

- `MpscBlocking`, from five producers on two slots: a producer whose loaded tail is
  overtaken by the head finds the difference wrapped (`mpsc/producer.rs:101`), takes the
  ring for full and parks again.  Another one then sleeps beside the slot of that
  wake until the next release.  `NoSleepBesideEmptyRing` says what is left: the sleep
  ends at the latest when the ring has been emptied.
- `Broadcast`, from four producers on two slots: two callers of `reserve_block` are woken,
  meet a stale tail at the occupant check (`broadcast/producer.rs:262`) and return None, while
  the last of them keeps the slot beside it for itself.  A caller of `push_block` sleeps beside
  the room.  `NoSleepBesideDrainedRing` is the corresponding statement.
- `Mpmc`, from four producers with batches of one: a producer woken for its position may
  be overtaken, reserve one of the next round, and sleep again; no wake was wasted, and
  yet a second sleeper could use the position that an idle producer's batch has skipped.
  `NoSleepUnlessWasted` is therefore a statement about two producers, checked and not
  proved.  What holds in every instance, and is proved, is the
  part that the announcements are for: `NoSleepBesideAwaited`, a producer that parked with an
  announced batch gets the wake of the first release of a position in it.

Smaller ones: the mpmc watermark counts a pop when the slot is claimed, before its done
word is released, so it is not the lower bound its documentation calls it
(`mpmc/consumed_watermark.rs:8`); the drop of an mpmc producer may spin while an idle
producer holds the position of the round before; the second reserve of `reserve_block`
need not return the slot of the first (`mpmc/producer.rs:290`), only one of the batch
(`TheSlotStaysFree`).

### Fairness

`SoleParker`: every thread is scheduled and every store buffer drains.  `Mpsc`: a
producer that has claimed settles its position (the API forces it: a reservation
is committed or dropped), and a live consumer polls and ends its batches; claiming
itself is not fair.  `MpscBlocking`: a call in progress goes on, the consumer keeps
consuming while it lives, a producer with nothing left to send is dropped.  `Spmc`: a call
in progress goes on and a consumer keeps popping while it lives; nobody owes a call, a
clone or a drop.  `WakeSet`: a waiter that has armed goes on, and the other side keeps
calling.  Parking needs its permit in all of them, so no fairness wakes a thread the code does not.
`EverySleeperIsWoken` is in addition restricted to behaviours in which a waker
does not for ever lose the bit it chose to a waiter that disarms: the retry loop of
`wake_one_published` is lock-free, not wait-free, and that is as much as it gives.

`Broadcast`, `Mpmc` and `AsyncSpsc` state no fairness and check safety only.  Their
"no sleep" invariants say in every state what a lost wake would break.  In `Broadcast`
and `Mpmc` the one about room looks at states at rest, where nothing but a new call could
wake the sleeper.

## Proofs

All theorems hold for every value of the constants that satisfies the module's
assumptions.  Each is proved from an inductive invariant that is stronger than the
property.

- `SoleParkerProofs!HandshakeSafe`: type correctness, `NoLostWake` and
  `DrainedBeforeNone`, assuming `ClearIsPrompt` (without it finding 1 refutes them).
  `ReachableInv`: a waiter committed to parking has a permit, or its handle is armed
  and its flag is up or the waker that took the flag is about to claim the handle.
  `PursuedInv`: whatever was published or closed after the waiter's last look has a
  waker on its way.  `BufferInv`: a buffered publish is followed by a fence.
- `SoleParkerProofs!HandshakeIsMonitor`: under the same assumption every step is a
  step of `AtomicWait` or stutters.  `HandshakeTyped` is the type invariant by itself.
- The slot map: positions less than a lap apart have different slots, positions a lap
  apart the same, and every lap meets every slot.  Each ring's proofs begin with those of
  these lemmas (`SlotInjective`, `SlotLap`, `SlotOnto`, ...) that they use.
- `MpscProofs!SlotOwnership`: type correctness, `ClaimedSlotIsFree` and
  `ConsumerReadsValues` for any producers, capacity and number of sends.  The
  invariant describes every slot of the window from head to head + capacity: what its
  word says by the position of the slot relative to head, the consumer and the tail,
  that an open position has exactly one owner, and that a cached head is never ahead
  of the head.
- `MpscProofs!ValuesAreConserved`: `Conservation`.  On top of that invariant: an unsettled
  position has an owner (`OpenInv`), no value is in two slots (`OneSlotEach`), and a producer's
  n-th value is written by its n-th claim, so it is new when it is written (`SentInv`).
- `MpscProofs!ImplementsClaimQueue`: the refinement.  The queue's cells are the positions
  the consumer has not passed, each open, full or void by its slot's word.  A claim appends
  an open cell, a publication or a tombstone settles one anywhere in the queue, and a
  release removes the first; that the owner's cell is still open, and that a claim
  finds the queue shorter than the capacity, follow from the ownership invariant.
- `WakeSetProofs!SleepersAreReachable`: type correctness, `SleeperIsReachable`
  and `LeaseIsExclusive` for any waiters, wakers, slots and batch
  size.  The invariant says where the handle of every armed waiter is (in its slot, or
  in a waker's hand), that a bit taken from the bitmap is in some waker's hand until
  its handle has been looked at, and what a waker that has seen an empty bitmap knows
  of those who slept before.  `NobodyIsMissed` is `WakeMissesNobody`, from the same invariant.
- `MpscBlockingProofs`: for any producers and capacity.  `CallInv` and `ConsumerInv` say
  what each local variable holds at each step of a call.  `ConsumerIsWoken`: a consumer that
  has announced itself has its flag up or a token, and behind each publication it did not
  see stands a producer that has yet to look at the flag (`ReachInv`); so a consumer asleep on
  a non-empty ring has a waker.  `SleepersAreWoken`: an armed producer without a token has its handle
  and its bit set, or is a target in the consumer's hand (`ArmedInv`), and a producer that is stuck
  beside an empty ring has a wake owed to somebody or a producer on its way that will
  push (`SleepInv`).  The ring only becomes empty by publishing the head, which owes wakes;
  a wake that finds every bit clear, and so stops early, would contradict `ArmedInv`.
- `SpmcProofs!BatchOwnership`: type correctness, `BatchesAreExclusive` and
  `WriterIsAlone` for any consumers, capacity and batch size.  Every position that is
  published, claimed or being written equals its slot's done word, so two of them never
  share a slot: the proof needs no arithmetic on the window at all.  Slots whose word is
  not behind the tail are empty, except the one being written.
- `SpmcProofs!NoneMeansDrained`: `DrainedBeforeNone`.  A consumer in its final pop has
  seen the close, after which the tail stands still.
- `SpmcProofs!ReleaseIsHeard`: `EveryReleaseWakes`: until a consumer is dropped with
  part of a batch in hand (after that, finding 3 refutes it), a parked producer with
  room, or without consumers, has a wake coming.  No assumption beyond the module's.
- `SpmcProofs!EachValueOnce`: `ExactlyOnce`, silent drops included.  `StoredInv`: a value is
  in its own slot, and its position is unclaimed, being written, or in the rest of some batch.
  `SpentInv`: a claimed position is taken, dropped, or in the rest of some batch, and what is
  taken or dropped is in no batch any more.  Batches being exclusive, a pop spends a
  position nobody else has.
- `BroadcastProofs`: for any producers, seats and capacity, without an assumption
  beyond the module's.  `FloorsStayLow`: until a clone slips behind a scan, no cached
  floor passes a subscriber.  `ScanInv`: what a scan has read so far is at most the head
  of every subscriber in the seats it has passed; a clone keeps that because its parent's head is at
  most the tail it joins at.  `LapInv`: a position permitted is less than a lap ahead of
  every subscriber.  `SlotsHaveOneOwner`: until a clone joins above an unmarked claim, two
  producers never own one slot.  `UnmarkedInv` keeps every head, every tail a clone has read,
  every cached floor and every scan at or below a claim that is not marked, `AloneInv` every
  live claim of a slot from another.  `UnreadIsKept`: outside both overlaps, what a subscriber has
  not read is in its slot or still owned.
- `BroadcastProofs!SleepersAreWoken`: `NoSleepBesideDrainedRing`, until a consumer is cloned over an
  unmarked claim or raises a stale head under an armed producer.  `ParkInv`: who is armed is in
  the bitmap or has its token (`BitsInv`); with nobody subscribed nobody in the bitmap gets past
  its look at the registry (`NobodyInv`), otherwise every scan of one in the bitmap meets a
  subscriber (`SightInv`).  A producer goes to sleep only because a subscriber was a lap behind, and
  that subscriber, or one that has stayed, has since seen every position of the lap resolved
  (`ExcuseInv`).  So once the ring is drained the slot of the tail is free, and either a reader
  has yet to wake somebody or some producer is on its way to a claim (`ComingInv`).
- `MpmcProofs`: for any producers, consumers, capacity, batch size, flush interval and skip.
  `OneOwnerPerSlot` and `TeardownFreesWhatIsThere`: a slot rests, is full or is leased to one
  reader, each said by its two words (`SlotInv`); a position that is full or leased is spent, so no
  producer still has it in a batch or in hand; and a position found free by its owner
  stays free, as nobody else can write the slot (`HandInv`, `ApartInv`).  No relation
  between the words and the watermark is needed: a wrong estimate costs a retry, not a slot.
  `SecondReserveSucceeds`: what `reserve_block` gives back stays in its batch, and free,
  through the disarm and until the second look meets it, so that look cannot fail; batches
  of one are included.
- `MpmcProofs!ScannerRunsLaps`, `LapIsSound`, `ScannerCoversTheRing`: the scan of `Mpmc` is a
  lap of `ScanBudget`, step by step, and an exhausted lap has examined every position in less
  than two sweeps, for every capacity, skip and start.  Everything below the floor has been
  examined; once the probes are spent the position is the floor.
- `MpmcProofs!NoneOnlyWhenDrained`, `PopIsWoken`: the search invariant.  An attempt is decisive if its
  failure counts: the last one, after the close, and the one after arming while nothing has stirred
  the scanner (no permit, and no producer between its publication and its wake).
  During a decisive attempt nothing examined is published: a publication brings a wake,
  which ends decisiveness, and after the close nobody publishes.  With the lap
  covering the ring, a decisive attempt that fails leaves nothing published anywhere.
- `MpmcProofs!ReleaseReachesItsProducer`: the routing.  A position announced is its announcer's
  or nobody's (`AwaitedApart`), so the wake of its release can go to nobody else while the
  announcer's bit is set; and from arming to parking a producer has its bit or a token, its
  batch is the one it announced, and each position it has asked after in its last attempt is
  still not free unless a wake for it has come or is under way (`AnnounceInv`).
- `AsyncSpscProofs`: for any push futures and capacity.  `EveryValueIsKept`: the positions from the
  reader to the tail are exactly what the slots hold, and the reader is ahead of the published
  head only until `Publish`, which a panic runs as well.  `NoRegistrationOutlivesItsFuture`:
  registrations in slot, stack and hand are disjoint and belong to futures that have registered
  (`armed`) and live; the hand is empty outside the four steps that move registrations.
  `PushFuturesAreWoken`: a pending future that is neither woken nor passed by is registered or
  in the chain the consumer is walking.  `PopFuturesAreWoken`: as the consumer is one thread, its
  future is in its slot from arming until it is woken or cancelled, and a publication after its
  second look is followed by a wake.

Proved and not run: the type invariants of `Mpsc`, `WakeSet`, `Spmc`, `Broadcast` and `Mpmc`,
`ConsumerReadsValues`, `LeaseIsExclusive`, `WriterIsAlone`, `BoundedLap`, and
`DrainedBeforeNone` of `SoleParker`.

Only model-checked:

- all liveness properties; fairness is beyond the prover;
- `NoSleepUnlessWasted` of `Mpmc`, which does not hold between four producers (see above).

## Not modelled

- mpmc: drains (a run of pops that route their wakes one by one), `pop_ref_block`,
  clones, async futures.  A release and its wake are one step for the peers, and the two
  passes of `wake_one_interested` are one step; `WakeSet` has the steps of a wake.
- broadcast: async futures, the close, the drop of overwritten values, teardown, clones
  made at once from one shared handle.  `Arc<T>` payloads (`arc.rs`) alias the ring.
- spsc: the blocking calls have the handshake of `SoleParker` and are not composed with
  this ring.  Pinned rings serve tests.
- mpsc and spmc: async futures; the consumers' park side of spmc, which is `WakeSet`; a
  destructor that panics in `Consumer::drop` of spmc.
- Async wakers: sets with several slots, which the other rings scan one after another.
- `len`, `is_empty` and `is_full` are advisory reads.  Spinning (`backoff.rs`) changes no
  shared state.
- Memory reordering other than the park handshake's is argued in the modules' headers:
  each of those accesses is an atomic with the ordering the argument needs.  `AsyncSpsc` has
  the Relaxed load of `pending` in `wake_all`, which stands before the fence, as a
  sequentially consistent one.
- Diagnostics, test support, benches and examples take no part in the protocol.

Most lines under `src/` are tests inside the modules, documentation comments, benches
and diagnostics; the modelled parts are a small share of the lines and nearly all of the protocol.

## Plan

Done, in this order: `SoleParker` with its refinement and proofs; `Cursors`,
`ClaimQueue`, `Mpsc` and the ownership proof; `MpscBlocking`; `ScanBudget` with its
proof; `WakeSet` with its proof; `Spmc` with its proofs; `Broadcast` with its proofs;
`Mpmc` on `ScanBudget`; `AsyncSpsc`.

Then the proofs of `AsyncSpsc` and `Mpmc`, conservation and the refinement of `Mpsc`,
`ExactlyOnce` of `Spmc`, and the sleepers of `Broadcast` and of `MpscBlocking`.

Next: for `Mpmc`, a notion of a wasted wake under which no producer sleeps beside room
in any instance.
