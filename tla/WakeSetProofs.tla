---------------------------- MODULE WakeSetProofs ----------------------------
(***************************************************************************)
(* The park layer keeps every sleeper within reach, whatever the number of *)
(* waiters, wakers and slots, and however endpoints come and go.           *)
(***************************************************************************)
EXTENDS WakeSet, TLAPS

(* What the program counters say about the other locals.                   *)
StepInv ==
  /\ \A w \in Waiters :
       /\ wpc[w] = "out" <=> slot[w] = None
       /\ wpc[w] = "bit" => Leased(w)
  /\ \A k \in Wakers :
       /\ kpc[k] = "unpark" <=> got[k] # None
       /\ kpc[k] = "release" <=> chain[k] # <<>>
       /\ rest[k] # {} => kind[k] = "flush" /\ kpc[k] \in {"flushing", "claim", "unpark"}
       /\ kpc[k] \in {"swap", "flushing"} => kind[k] = "flush"
       /\ kpc[k] \in {"cursor", "bitmap", "clear", "advance", "store"} => kind[k] # "flush"
       /\ kpc[k] = "idle" => slept[k] = {}
       /\ kpc[k] \notin {"idle", "store", "return"} => need[k] > 0
       /\ kind[k] = "one" => need[k] <= 1

(* A bit is set only between arm and disarm.                               *)
BitInv ==
  \A w \in Waiters : wpc[w] \in {"idle", "bit"} => slot[w] \notin bits

Reach(w) ==
  \/ wpc[w] = "bit" /\ handle[slot[w]] = w
  \/ Leased(w) /\ slot[w] \in bits /\ handle[slot[w]] = w
  \/ w \in Range(overflow)
  \/ \E k \in Wakers : InHand(k, w)

(* Reachable from the moment the handle is armed, not only when asleep.    *)
ReachInv ==
  \A w \in Waiters :
    wpc[w] \in {"bit", "recheck", "park"} /\ w \notin tokens => Reach(w)

(* What call k has already ruled out for w, asleep since before it began.  *)
Detached(k, w) == kpc[k] # "detach" => w \notin Range(overflow)

Unset(k, w) ==
  kind[k] = "flush" /\ kpc[k] \in {"flushing", "claim", "unpark", "return"}
    => slot[w] \notin bits

Elsewhere(k, w) ==
  kpc[k] \in {"store", "return"} /\ (need[k] > 0 \/ kind[k] = "flush")
    => \E j \in Wakers \ {k} : InHand(j, w)

Slept(k, w) == Asleep(w) /\ Detached(k, w) /\ Unset(k, w) /\ Elsewhere(k, w)

SleptInv == \A k \in Wakers : \A w \in slept[k] : Slept(k, w)

IInv == StepInv /\ LeaseIsExclusive /\ BitInv /\ ReachInv /\ SleptInv

USE WakeSetAssumption

LEMMA RangeCons ==
  ASSUME NEW S, NEW s \in Seq(S), NEW x \in S
  PROVE  <<x>> \o s \in Seq(S) /\ Range(<<x>> \o s) = {x} \cup Range(s)
<1> DEFINE t == <<x>> \o s
<1>1. t \in Seq(S) /\ Len(t) = Len(s) + 1 /\ t[1] = x
  OBVIOUS
<1>2. \A i \in 1..Len(s) : t[i + 1] = s[i]
  OBVIOUS
<1>3. \A i \in 2..Len(t) : i - 1 \in 1..Len(s) /\ t[i] = s[i - 1]
  OBVIOUS
<1>4. DOMAIN t = 1..(Len(s) + 1) /\ DOMAIN s = 1..Len(s) /\ Len(s) \in Nat
  BY <1>1
<1>5. Range(t) \subseteq {x} \cup Range(s)
  BY <1>1, <1>3, <1>4 DEF Range
<1>6. {x} \cup Range(s) \subseteq Range(t)
  <2>1. x \in Range(t)
    BY <1>1, <1>4 DEF Range
  <2>2. ASSUME NEW i \in 1..Len(s) PROVE s[i] \in Range(t)
    <3>1. i + 1 \in DOMAIN t /\ t[i + 1] = s[i]
      BY <1>2, <1>4
    <3> QED  BY <3>1 DEF Range
  <2> QED  BY <2>1, <2>2, <1>4 DEF Range
<1> QED  BY <1>1, <1>5, <1>6

LEMMA RangeTail ==
  ASSUME NEW S, NEW s \in Seq(S), s # <<>>
  PROVE  Head(s) \in S /\ Tail(s) \in Seq(S) /\ Range(s) = {Head(s)} \cup Range(Tail(s))
<1>1. Head(s) \in S /\ Tail(s) \in Seq(S) /\ <<Head(s)>> \o Tail(s) = s
  OBVIOUS
<1> QED  BY <1>1, RangeCons

LEMMA RangeEmpty == Range(<<>>) = {}
BY DEF Range

LEMMA InitInv == ASSUME Init PROVE TypeOK /\ IInv
<1>1. TypeOK
  BY DEF Init, TypeOK, Slots, WaiterSteps, WakerSteps
<1>2. StepInv /\ BitInv /\ ReachInv /\ SleptInv
  BY DEF Init, StepInv, BitInv, ReachInv, SleptInv, Leased, Slots
<1>3. LeaseIsExclusive
  BY DEF Init, LeaseIsExclusive, Leased, Slots
<1> QED  BY <1>1, <1>2, <1>3 DEF IInv

LEMMA LeaseInv ==
  ASSUME TypeOK, IInv, NEW w \in Waiters, Lease(w) PROVE TypeOK' /\ IInv'
<1> USE DEF Lease, GotoW, Free, IsLowest, registry, shared, waker, IInv
<1>0. PICK s \in Slots \cup {Shared} :
        /\ slot' = [slot EXCEPT ![w] = s]
        /\ s \in Slots => s \notin held /\ held' = held \cup {s}
        /\ s = Shared => held' = held
  <2>1. Shared \notin Slots
    BY DEF Slots
  <2>2. CASE slot' = [slot EXCEPT ![w] = Shared] /\ held' = held
    BY <2>1, <2>2
  <2>3. CASE \E s \in Free : slot' = [slot EXCEPT ![w] = s] /\ held' = held \cup {s}
    <3>1. PICK t \in Free : slot' = [slot EXCEPT ![w] = t] /\ held' = held \cup {t}
      BY <2>3
    <3>2. t \in Slots \cup {Shared} /\ t \notin held /\ t # Shared
      BY <2>1, <3>1
    <3> QED  BY <3>1, <3>2
  <2> QED  BY <2>2, <2>3
<1>1. TypeOK'
  BY <1>0 DEF TypeOK, WaiterSteps
<1>2. StepInv'
  BY <1>0 DEF TypeOK, StepInv, Leased, Slots
<1>3. LeaseIsExclusive'
  <2> USE DEF TypeOK, StepInv, BitInv, Leased, Slots
  <2>1. \A u, v \in Waiters : u # v /\ slot[u] \in Slots => slot[u] # slot[v]
    BY DEF LeaseIsExclusive
  <2>2. \A v \in Waiters : slot[v] \in Slots => slot[v] \in held
    BY DEF LeaseIsExclusive
  <2>3. \A t \in held : \E v \in Waiters : slot[v] = t
    BY DEF LeaseIsExclusive
  <2>4. \A u, v \in Waiters : u # v /\ Leased(u)' => slot'[u] # slot'[v]
    BY <2>1, <2>2, <1>0
  <2>5. \A v \in Waiters : Leased(v)' => slot'[v] \in held'
    BY <2>1, <2>2, <1>0
  <2>6. \A t \in held' : \E v \in Waiters : Leased(v)' /\ slot'[v] = t
    <3>1. ASSUME NEW t \in held PROVE \E v \in Waiters : Leased(v)' /\ slot'[v] = t
      <4>1. PICK v \in Waiters : slot[v] = t
        BY <2>3
      <4>2. t \in Slots /\ slot[w] = None
        BY DEF TypeOK, StepInv
      <4>3. v # w
        BY <4>1, <4>2 DEF Slots
      <4> QED  BY <1>0, <4>1, <4>2, <4>3
    <3>2. s \in Slots => Leased(w)' /\ slot'[w] = s
      BY <1>0
    <3>3. held' = held \/ (s \in Slots /\ held' = held \cup {s})
      BY <1>0
    <3>4. ASSUME NEW t \in held' PROVE \E v \in Waiters : Leased(v)' /\ slot'[v] = t
      <4>1. CASE t \in held
        BY <3>1, <4>1
      <4>2. CASE t \notin held
        BY <3>2, <3>3, <4>2
      <4> QED  BY <4>1, <4>2
    <3> QED  BY <3>4
  <2>7. bits' \subseteq held'
    BY <2>1, <2>2, <1>0 DEF LeaseIsExclusive
  <2> QED  BY ONLY <2>4, <2>5, <2>6, <2>7 DEF LeaseIsExclusive, Leased
<1>4. BitInv'
  BY <1>0 DEF TypeOK, StepInv, LeaseIsExclusive, BitInv, Leased, Slots
<1>5. ReachInv'
  BY <1>0 DEF TypeOK, StepInv, LeaseIsExclusive, BitInv, ReachInv, Reach, InHand, HasBit, Leased
<1>6. SleptInv'
  <2> SUFFICES ASSUME NEW j \in Wakers, NEW v \in slept'[j] PROVE Slept(j, v)'
    BY DEF SleptInv
  <2>1. v \in Waiters /\ v \in slept[j] /\ Slept(j, v)
    BY <1>0 DEF SleptInv, TypeOK
  <2>2. Asleep(v)'
    BY <1>0, <2>1 DEF Slept, Asleep, TypeOK
  <2>3. Detached(j, v)'
    BY <1>0, <2>1 DEF Slept, Asleep, Detached, TypeOK
  <2>4. Unset(j, v)'
    BY <1>0, <2>1 DEF Slept, Asleep, Unset, TypeOK, LeaseIsExclusive, Leased, StepInv
  <2>5. \A i \in Wakers : InHand(i, v) => InHand(i, v)'
    BY <1>0, <2>1, <2>2 DEF Slept, Asleep, InHand, HasBit, Leased, TypeOK, LeaseIsExclusive, StepInv
  <2>6. Elsewhere(j, v)'
    BY <1>0, <2>1, <2>5 DEF Slept, Elsewhere, TypeOK, StepInv
  <2> QED  BY <2>2, <2>3, <2>4, <2>6 DEF Slept
<1> QED  BY <1>1, <1>2, <1>3, <1>4, <1>5, <1>6

LEMMA DepartInv ==
  ASSUME TypeOK, IInv, NEW w \in Waiters, Depart(w) PROVE TypeOK' /\ IInv'
<1> USE DEF Depart, GotoW, registry, shared, waker, IInv
<1>1. TypeOK'
  BY DEF TypeOK, WaiterSteps, WakerSteps, Slots
<1>2. StepInv'
  BY DEF TypeOK, WaiterSteps, WakerSteps, StepInv, Leased
<1>3. LeaseIsExclusive'
  <2> USE DEF TypeOK, StepInv, BitInv, Leased, Slots
  <2>1. \A u, v \in Waiters : u # v /\ slot[u] \in Slots => slot[u] # slot[v]
    BY DEF LeaseIsExclusive
  <2>2. \A v \in Waiters : slot[v] \in Slots => slot[v] \in held
    BY DEF LeaseIsExclusive
  <2>3. \A s \in held : \E v \in Waiters : slot[v] = s
    BY DEF LeaseIsExclusive
  <2>4. \A u, v \in Waiters : u # v /\ Leased(u)' => slot'[u] # slot'[v]
    BY <2>1, <2>2
  <2>5. \A v \in Waiters : Leased(v)' => slot'[v] \in held'
    BY <2>1, <2>2
  <2>6. \A s \in held' : \E v \in Waiters : Leased(v)' /\ slot'[v] = s
    BY <2>3
  <2>7. bits' \subseteq held'
    BY <2>1, <2>2 DEF LeaseIsExclusive
  <2> QED  BY <2>4, <2>5, <2>6, <2>7 DEF LeaseIsExclusive
<1>4. BitInv'
  BY DEF TypeOK, StepInv, LeaseIsExclusive, BitInv, Leased, Slots
<1>5. ReachInv'
  BY DEF TypeOK, StepInv, LeaseIsExclusive, BitInv, ReachInv, Reach, InHand, HasBit, Leased
<1>6. SleptInv'
  <2> SUFFICES ASSUME NEW j \in Wakers, NEW v \in slept'[j] PROVE Slept(j, v)'
    BY DEF SleptInv
  <2>1. v \in Waiters /\ v \in slept[j] /\ Slept(j, v)
    BY DEF SleptInv, TypeOK
  <2>2. Asleep(v)'
    BY <2>1 DEF Slept, Asleep, TypeOK
  <2>3. Detached(j, v)'
    BY <2>1 DEF Slept, Asleep, Detached, TypeOK
  <2>4. Unset(j, v)'
    BY <2>1 DEF Slept, Asleep, Unset, TypeOK, LeaseIsExclusive, Leased, StepInv
  <2>5. \A i \in Wakers : InHand(i, v) => InHand(i, v)'
    BY <2>1, <2>2 DEF Slept, Asleep, InHand, HasBit, Leased, TypeOK, LeaseIsExclusive, StepInv
  <2>6. Elsewhere(j, v)'
    BY <2>1, <2>5 DEF Slept, Elsewhere, TypeOK, StepInv
  <2> QED  BY <2>2, <2>3, <2>4, <2>6 DEF Slept
<1> QED  BY <1>1, <1>2, <1>3, <1>4, <1>5, <1>6

LEMMA ArmHandleInv ==
  ASSUME TypeOK, IInv, NEW w \in Waiters, ArmHandle(w) PROVE TypeOK' /\ IInv'
<1> USE DEF ArmHandle, GotoW, registry, shared, waker, IInv
<1>1. TypeOK'
  BY DEF TypeOK, WaiterSteps, WakerSteps, Slots
<1>2. StepInv'
  BY DEF TypeOK, WaiterSteps, WakerSteps, StepInv, Leased
<1>3. LeaseIsExclusive'
  BY DEF TypeOK, StepInv, LeaseIsExclusive, BitInv, Leased, Slots
<1>4. BitInv'
  BY DEF TypeOK, StepInv, LeaseIsExclusive, BitInv, Leased, Slots
<1>5. ReachInv'
  <2> SUFFICES ASSUME NEW v \in Waiters, wpc'[v] \in {"bit", "recheck", "park"}, v \notin tokens'
               PROVE  Reach(v)'
    BY DEF ReachInv
  <2>1. \A i \in Wakers : InHand(i, v) => InHand(i, v)' \/ Reach(v)'
    BY DEF Reach, InHand, HasBit, Leased, TypeOK, LeaseIsExclusive, StepInv
  <2>2. Reach(v) \/ Reach(v)'
    BY DEF ReachInv, Reach, TypeOK, StepInv
  <2>3. CASE Reach(v) /\ ~\E i \in Wakers : InHand(i, v)
    BY <2>3 DEF Reach, InHand, HasBit, Leased, TypeOK, StepInv, LeaseIsExclusive
  <2> QED  BY <2>1, <2>2, <2>3 DEF Reach
<1>6. SleptInv'
  <2> SUFFICES ASSUME NEW j \in Wakers, NEW v \in slept'[j] PROVE Slept(j, v)'
    BY DEF SleptInv
  <2>1. v \in Waiters /\ v \in slept[j] /\ Slept(j, v)
    BY DEF SleptInv, TypeOK
  <2>2. Asleep(v)'
    BY <2>1 DEF Slept, Asleep, TypeOK
  <2>3. Detached(j, v)'
    BY <2>1 DEF Slept, Asleep, Detached, TypeOK
  <2>4. Unset(j, v)'
    BY <2>1 DEF Slept, Asleep, Unset, TypeOK, LeaseIsExclusive, Leased, StepInv
  <2>5. \A i \in Wakers : InHand(i, v) => InHand(i, v)'
    BY <2>1, <2>2 DEF Slept, Asleep, InHand, HasBit, Leased, TypeOK, LeaseIsExclusive, StepInv
  <2>6. Elsewhere(j, v)'
    BY <2>1, <2>5 DEF Slept, Elsewhere, TypeOK, StepInv
  <2> QED  BY <2>2, <2>3, <2>4, <2>6 DEF Slept
<1> QED  BY <1>1, <1>2, <1>3, <1>4, <1>5, <1>6

LEMMA ArmBitInv ==
  ASSUME TypeOK, IInv, NEW w \in Waiters, ArmBit(w) PROVE TypeOK' /\ IInv'
<1> USE DEF ArmBit, GotoW, registry, shared, waker, IInv
<1>1. TypeOK'
  BY DEF TypeOK, StepInv, Leased, WaiterSteps
<1>2. StepInv'
  BY DEF TypeOK, WaiterSteps, WakerSteps, StepInv, Leased
<1>3. LeaseIsExclusive'
  <2> USE DEF TypeOK, StepInv, BitInv, Leased, Slots
  <2>1. \A u, v \in Waiters : u # v /\ slot[u] \in Slots => slot[u] # slot[v]
    BY DEF LeaseIsExclusive
  <2>2. \A v \in Waiters : slot[v] \in Slots => slot[v] \in held
    BY DEF LeaseIsExclusive
  <2>3. \A s \in held : \E v \in Waiters : slot[v] = s
    BY DEF LeaseIsExclusive
  <2>4. \A u, v \in Waiters : u # v /\ Leased(u)' => slot'[u] # slot'[v]
    BY <2>1, <2>2
  <2>5. \A v \in Waiters : Leased(v)' => slot'[v] \in held'
    BY <2>1, <2>2
  <2>6. \A s \in held' : \E v \in Waiters : Leased(v)' /\ slot'[v] = s
    BY <2>3
  <2>7. bits' \subseteq held'
    BY <2>1, <2>2 DEF LeaseIsExclusive
  <2> QED  BY <2>4, <2>5, <2>6, <2>7 DEF LeaseIsExclusive
<1>4. BitInv'
  BY DEF TypeOK, StepInv, LeaseIsExclusive, BitInv, Leased, Slots
<1>5. ReachInv'
  BY DEF TypeOK, StepInv, LeaseIsExclusive, BitInv, ReachInv, Reach, InHand, HasBit, Leased
<1>6. SleptInv'
  <2> SUFFICES ASSUME NEW j \in Wakers, NEW v \in slept'[j] PROVE Slept(j, v)'
    BY DEF SleptInv
  <2>1. v \in Waiters /\ v \in slept[j] /\ Slept(j, v)
    BY DEF SleptInv, TypeOK
  <2>2. Asleep(v)'
    BY <2>1 DEF Slept, Asleep, TypeOK
  <2>3. Detached(j, v)'
    BY <2>1 DEF Slept, Asleep, Detached, TypeOK
  <2>4. Unset(j, v)'
    BY <2>1 DEF Slept, Asleep, Unset, TypeOK, LeaseIsExclusive, Leased, StepInv
  <2>5. \A i \in Wakers : InHand(i, v) => InHand(i, v)'
    BY <2>1, <2>2 DEF Slept, Asleep, InHand, HasBit, Leased, TypeOK, LeaseIsExclusive, StepInv
  <2>6. Elsewhere(j, v)'
    BY <2>1, <2>5 DEF Slept, Elsewhere, TypeOK, StepInv
  <2> QED  BY <2>2, <2>3, <2>4, <2>6 DEF Slept
<1> QED  BY <1>1, <1>2, <1>3, <1>4, <1>5, <1>6

LEMMA RegisterInv ==
  ASSUME TypeOK, IInv, NEW w \in Waiters, Register(w) PROVE TypeOK' /\ IInv'
<1> USE DEF Register, GotoW, registry, shared, waker, IInv
<1>0. Range(overflow') = {w} \cup Range(overflow) /\ overflow' \in Seq(Waiters)
  BY RangeCons DEF TypeOK
<1>1. TypeOK'
  BY <1>0 DEF TypeOK, WaiterSteps, WakerSteps, Slots
<1>2. StepInv'
  BY <1>0 DEF TypeOK, WaiterSteps, WakerSteps, StepInv, Leased
<1>3. LeaseIsExclusive'
  BY <1>0 DEF TypeOK, StepInv, LeaseIsExclusive, BitInv, Leased, Slots
<1>4. BitInv'
  BY <1>0 DEF TypeOK, StepInv, LeaseIsExclusive, BitInv, Leased, Slots
<1>5. ReachInv'
  <2> SUFFICES ASSUME NEW v \in Waiters, wpc'[v] \in {"bit", "recheck", "park"}, v \notin tokens'
               PROVE  Reach(v)'
    BY DEF ReachInv
  <2>1. \A i \in Wakers : InHand(i, v) => InHand(i, v)' \/ Reach(v)'
    BY <1>0 DEF Reach, InHand, HasBit, Leased, TypeOK, LeaseIsExclusive, StepInv
  <2>2. Reach(v) \/ Reach(v)'
    BY <1>0 DEF ReachInv, Reach, TypeOK, StepInv
  <2>3. CASE Reach(v) /\ ~\E i \in Wakers : InHand(i, v)
    BY <1>0, <2>3 DEF Reach, InHand, HasBit, Leased, TypeOK, StepInv, LeaseIsExclusive
  <2> QED  BY <2>1, <2>2, <2>3 DEF Reach
<1>6. SleptInv'
  <2> SUFFICES ASSUME NEW j \in Wakers, NEW v \in slept'[j] PROVE Slept(j, v)'
    BY DEF SleptInv
  <2>1. v \in Waiters /\ v \in slept[j] /\ Slept(j, v)
    BY <1>0 DEF SleptInv, TypeOK
  <2>2. Asleep(v)'
    BY <1>0, <2>1 DEF Slept, Asleep, TypeOK
  <2>3. Detached(j, v)'
    BY <1>0, <2>1 DEF Slept, Asleep, Detached, TypeOK
  <2>4. Unset(j, v)'
    BY <1>0, <2>1 DEF Slept, Asleep, Unset, TypeOK, LeaseIsExclusive, Leased, StepInv
  <2>5. \A i \in Wakers : InHand(i, v) => InHand(i, v)'
    BY <1>0, <2>1, <2>2 DEF Slept, Asleep, InHand, HasBit, Leased, TypeOK, LeaseIsExclusive, StepInv
  <2>6. Elsewhere(j, v)'
    BY <1>0, <2>1, <2>5 DEF Slept, Elsewhere, TypeOK, StepInv
  <2> QED  BY <2>2, <2>3, <2>4, <2>6 DEF Slept
<1> QED  BY <1>1, <1>2, <1>3, <1>4, <1>5, <1>6

LEMMA RecheckInv ==
  ASSUME TypeOK, IInv, NEW w \in Waiters, Recheck(w) PROVE TypeOK' /\ IInv'
<1> USE DEF Recheck, GotoW, registry, shared, waker, IInv
<1>1. TypeOK'
  BY DEF TypeOK, WaiterSteps, WakerSteps, Slots
<1>2. StepInv'
  BY DEF TypeOK, WaiterSteps, WakerSteps, StepInv, Leased
<1>3. LeaseIsExclusive'
  BY DEF TypeOK, StepInv, LeaseIsExclusive, BitInv, Leased, Slots
<1>4. BitInv'
  BY DEF TypeOK, StepInv, LeaseIsExclusive, BitInv, Leased, Slots
<1>5. ReachInv'
  BY DEF TypeOK, StepInv, LeaseIsExclusive, BitInv, ReachInv, Reach, InHand, HasBit, Leased
<1>6. SleptInv'
  <2> SUFFICES ASSUME NEW j \in Wakers, NEW v \in slept'[j] PROVE Slept(j, v)'
    BY DEF SleptInv
  <2>1. v \in Waiters /\ v \in slept[j] /\ Slept(j, v)
    BY DEF SleptInv, TypeOK
  <2>2. Asleep(v)'
    BY <2>1 DEF Slept, Asleep, TypeOK
  <2>3. Detached(j, v)'
    BY <2>1 DEF Slept, Asleep, Detached, TypeOK
  <2>4. Unset(j, v)'
    BY <2>1 DEF Slept, Asleep, Unset, TypeOK, LeaseIsExclusive, Leased, StepInv
  <2>5. \A i \in Wakers : InHand(i, v) => InHand(i, v)'
    BY <2>1, <2>2 DEF Slept, Asleep, InHand, HasBit, Leased, TypeOK, LeaseIsExclusive, StepInv
  <2>6. Elsewhere(j, v)'
    BY <2>1, <2>5 DEF Slept, Elsewhere, TypeOK, StepInv
  <2> QED  BY <2>2, <2>3, <2>4, <2>6 DEF Slept
<1> QED  BY <1>1, <1>2, <1>3, <1>4, <1>5, <1>6

LEMMA ParkInv ==
  ASSUME TypeOK, IInv, NEW w \in Waiters, Park(w) PROVE TypeOK' /\ IInv'
<1> USE DEF Park, GotoW, registry, shared, waker, IInv
<1>1. TypeOK'
  BY DEF TypeOK, WaiterSteps, WakerSteps, Slots
<1>2. StepInv'
  BY DEF TypeOK, WaiterSteps, WakerSteps, StepInv, Leased
<1>3. LeaseIsExclusive'
  BY DEF TypeOK, StepInv, LeaseIsExclusive, BitInv, Leased, Slots
<1>4. BitInv'
  BY DEF TypeOK, StepInv, LeaseIsExclusive, BitInv, Leased, Slots
<1>5. ReachInv'
  BY DEF TypeOK, StepInv, LeaseIsExclusive, BitInv, ReachInv, Reach, InHand, HasBit, Leased
<1>6. SleptInv'
  <2> SUFFICES ASSUME NEW j \in Wakers, NEW v \in slept'[j] PROVE Slept(j, v)'
    BY DEF SleptInv
  <2>1. v \in Waiters /\ v \in slept[j] /\ Slept(j, v)
    BY DEF SleptInv, TypeOK
  <2>2. Asleep(v)'
    BY <2>1 DEF Slept, Asleep, TypeOK
  <2>3. Detached(j, v)'
    BY <2>1 DEF Slept, Asleep, Detached, TypeOK
  <2>4. Unset(j, v)'
    BY <2>1 DEF Slept, Asleep, Unset, TypeOK, LeaseIsExclusive, Leased, StepInv
  <2>5. \A i \in Wakers : InHand(i, v) => InHand(i, v)'
    BY <2>1, <2>2 DEF Slept, Asleep, InHand, HasBit, Leased, TypeOK, LeaseIsExclusive, StepInv
  <2>6. Elsewhere(j, v)'
    BY <2>1, <2>5 DEF Slept, Elsewhere, TypeOK, StepInv
  <2> QED  BY <2>2, <2>3, <2>4, <2>6 DEF Slept
<1> QED  BY <1>1, <1>2, <1>3, <1>4, <1>5, <1>6

LEMMA DisarmInv ==
  ASSUME TypeOK, IInv, NEW w \in Waiters, Disarm(w) PROVE TypeOK' /\ IInv'
<1> USE DEF Disarm, GotoW, registry, shared, waker, IInv
<1>1. TypeOK'
  BY DEF TypeOK, WaiterSteps, WakerSteps, Slots
<1>2. StepInv'
  BY DEF TypeOK, WaiterSteps, WakerSteps, StepInv, Leased
<1>3. LeaseIsExclusive'
  <2> USE DEF TypeOK, StepInv, BitInv, Leased, Slots
  <2>1. \A u, v \in Waiters : u # v /\ slot[u] \in Slots => slot[u] # slot[v]
    BY DEF LeaseIsExclusive
  <2>2. \A v \in Waiters : slot[v] \in Slots => slot[v] \in held
    BY DEF LeaseIsExclusive
  <2>3. \A s \in held : \E v \in Waiters : slot[v] = s
    BY DEF LeaseIsExclusive
  <2>4. \A u, v \in Waiters : u # v /\ Leased(u)' => slot'[u] # slot'[v]
    BY <2>1, <2>2
  <2>5. \A v \in Waiters : Leased(v)' => slot'[v] \in held'
    BY <2>1, <2>2
  <2>6. \A s \in held' : \E v \in Waiters : Leased(v)' /\ slot'[v] = s
    BY <2>3
  <2>7. bits' \subseteq held'
    BY <2>1, <2>2 DEF LeaseIsExclusive
  <2> QED  BY <2>4, <2>5, <2>6, <2>7 DEF LeaseIsExclusive
<1>4. BitInv'
  BY DEF TypeOK, StepInv, LeaseIsExclusive, BitInv, Leased, Slots
<1>5. ReachInv'
  BY DEF TypeOK, StepInv, LeaseIsExclusive, BitInv, ReachInv, Reach, InHand, HasBit, Leased
<1>6. SleptInv'
  <2> SUFFICES ASSUME NEW j \in Wakers, NEW v \in slept'[j] PROVE Slept(j, v)'
    BY DEF SleptInv
  <2>1. v \in Waiters /\ v \in slept[j] /\ Slept(j, v)
    BY DEF SleptInv, TypeOK
  <2>2. Asleep(v)'
    BY <2>1 DEF Slept, Asleep, TypeOK
  <2>3. Detached(j, v)'
    BY <2>1 DEF Slept, Asleep, Detached, TypeOK
  <2>4. Unset(j, v)'
    BY <2>1 DEF Slept, Asleep, Unset, TypeOK, LeaseIsExclusive, Leased, StepInv
  <2>5. \A i \in Wakers : InHand(i, v) => InHand(i, v)'
    BY <2>1, <2>2 DEF Slept, Asleep, InHand, HasBit, Leased, TypeOK, LeaseIsExclusive, StepInv
  <2>6. Elsewhere(j, v)'
    BY <2>1, <2>5 DEF Slept, Elsewhere, TypeOK, StepInv
  <2> QED  BY <2>2, <2>3, <2>4, <2>6 DEF Slept
<1> QED  BY <1>1, <1>2, <1>3, <1>4, <1>5, <1>6

LEMMA DetachInv ==
  ASSUME TypeOK, IInv, NEW k \in Wakers, Detach(k) PROVE TypeOK' /\ IInv'
<1> USE DEF Detach, GotoK, Search, registry, shared, waker, IInv
<1>0. Range(overflow') = {}
  BY DEF Range
<1>1. TypeOK'
  BY <1>0 DEF TypeOK, WaiterSteps, WakerSteps, Slots
<1>2. StepInv'
  BY <1>0 DEF TypeOK, WaiterSteps, WakerSteps, StepInv, Leased
<1>3. LeaseIsExclusive'
  BY <1>0 DEF TypeOK, StepInv, LeaseIsExclusive, BitInv, Leased, Slots
<1>4. BitInv'
  BY <1>0 DEF TypeOK, StepInv, LeaseIsExclusive, BitInv, Leased, Slots
<1>5. ReachInv'
  <2> SUFFICES ASSUME NEW v \in Waiters, wpc'[v] \in {"bit", "recheck", "park"}, v \notin tokens'
               PROVE  Reach(v)'
    BY DEF ReachInv
  <2>1. \A i \in Wakers : InHand(i, v) => InHand(i, v)' \/ Reach(v)'
    BY <1>0 DEF Reach, InHand, HasBit, Leased, TypeOK, LeaseIsExclusive, StepInv
  <2>2. Reach(v) \/ Reach(v)'
    BY <1>0 DEF ReachInv, Reach, TypeOK, StepInv
  <2>3. CASE Reach(v) /\ ~\E i \in Wakers : InHand(i, v)
    BY <1>0, <2>3 DEF Reach, InHand, HasBit, Leased, TypeOK, StepInv, LeaseIsExclusive
  <2> QED  BY <2>1, <2>2, <2>3 DEF Reach
<1>6. SleptInv'
  <2> SUFFICES ASSUME NEW j \in Wakers, NEW v \in slept'[j] PROVE Slept(j, v)'
    BY DEF SleptInv
  <2>1. v \in Waiters /\ v \in slept[j] /\ Slept(j, v)
    BY <1>0 DEF SleptInv, TypeOK
  <2>2. Asleep(v)'
    BY <1>0, <2>1 DEF Slept, Asleep, TypeOK
  <2>3. Detached(j, v)'
    BY <1>0, <2>1 DEF Slept, Asleep, Detached, TypeOK
  <2>4. Unset(j, v)'
    BY <1>0, <2>1 DEF Slept, Asleep, Unset, TypeOK, LeaseIsExclusive, Leased, StepInv
  <2>5. \A i \in Wakers : InHand(i, v) => InHand(i, v)'
    BY <1>0, <2>1, <2>2 DEF Slept, Asleep, InHand, HasBit, Leased, TypeOK, LeaseIsExclusive, StepInv
  <2>6. Elsewhere(j, v)'
    BY <1>0, <2>1, <2>5 DEF Slept, Elsewhere, TypeOK, StepInv
  <2> QED  BY <2>2, <2>3, <2>4, <2>6 DEF Slept
<1> QED  BY <1>1, <1>2, <1>3, <1>4, <1>5, <1>6

LEMMA ReleaseInv ==
  ASSUME TypeOK, IInv, NEW k \in Wakers, Release(k) PROVE TypeOK' /\ IInv'
<1> USE DEF Release, GotoK, Search, Unpark, registry, shared, waker, IInv
<1>0. /\ Head(chain[k]) \in Waiters /\ Tail(chain[k]) \in Seq(Waiters)
     /\ Range(chain[k]) = {Head(chain[k])} \cup Range(Tail(chain[k]))
  BY RangeTail DEF TypeOK, StepInv
<1>1. TypeOK'
  BY <1>0 DEF TypeOK, WaiterSteps, WakerSteps, Slots
<1>2. StepInv'
  BY <1>0 DEF TypeOK, WaiterSteps, WakerSteps, StepInv, Leased
<1>3. LeaseIsExclusive'
  BY <1>0 DEF TypeOK, StepInv, LeaseIsExclusive, BitInv, Leased, Slots
<1>4. BitInv'
  BY <1>0 DEF TypeOK, StepInv, LeaseIsExclusive, BitInv, Leased, Slots
<1>5. ReachInv'
  <2> SUFFICES ASSUME NEW v \in Waiters, wpc'[v] \in {"bit", "recheck", "park"}, v \notin tokens'
               PROVE  Reach(v)'
    BY DEF ReachInv
  <2>1. \A i \in Wakers : InHand(i, v) => InHand(i, v)' \/ Reach(v)'
    BY <1>0 DEF Reach, InHand, HasBit, Leased, TypeOK, LeaseIsExclusive, StepInv
  <2>2. Reach(v) \/ Reach(v)'
    BY <1>0 DEF ReachInv, Reach, TypeOK, StepInv
  <2>3. CASE Reach(v) /\ ~\E i \in Wakers : InHand(i, v)
    BY <1>0, <2>3 DEF Reach, InHand, HasBit, Leased, TypeOK, StepInv, LeaseIsExclusive
  <2> QED  BY <2>1, <2>2, <2>3 DEF Reach
<1>6. SleptInv'
  <2> SUFFICES ASSUME NEW j \in Wakers, NEW v \in slept'[j] PROVE Slept(j, v)'
    BY DEF SleptInv
  <2>1. v \in Waiters /\ v \in slept[j] /\ Slept(j, v)
    BY <1>0 DEF SleptInv, TypeOK
  <2>2. Asleep(v)'
    BY <1>0, <2>1 DEF Slept, Asleep, TypeOK
  <2>3. Detached(j, v)'
    BY <1>0, <2>1 DEF Slept, Asleep, Detached, TypeOK
  <2>4. Unset(j, v)'
    BY <1>0, <2>1 DEF Slept, Asleep, Unset, TypeOK, LeaseIsExclusive, Leased, StepInv
  <2>5. \A i \in Wakers : InHand(i, v) => InHand(i, v)'
    BY <1>0, <2>1, <2>2 DEF Slept, Asleep, InHand, HasBit, Leased, TypeOK, LeaseIsExclusive, StepInv
  <2>6. Elsewhere(j, v)'
    BY <1>0, <2>1, <2>5 DEF Slept, Elsewhere, TypeOK, StepInv
  <2> QED  BY <2>2, <2>3, <2>4, <2>6 DEF Slept
<1> QED  BY <1>1, <1>2, <1>3, <1>4, <1>5, <1>6

LEMMA LoadCursorInv ==
  ASSUME TypeOK, IInv, NEW k \in Wakers, LoadCursor(k) PROVE TypeOK' /\ IInv'
<1> USE DEF LoadCursor, GotoK, registry, shared, waker, IInv
<1>1. TypeOK'
  BY DEF TypeOK, WaiterSteps, WakerSteps, Slots
<1>2. StepInv'
  BY DEF TypeOK, WaiterSteps, WakerSteps, StepInv, Leased
<1>3. LeaseIsExclusive'
  BY DEF TypeOK, StepInv, LeaseIsExclusive, BitInv, Leased, Slots
<1>4. BitInv'
  BY DEF TypeOK, StepInv, LeaseIsExclusive, BitInv, Leased, Slots
<1>5. ReachInv'
  <2> SUFFICES ASSUME NEW v \in Waiters, wpc'[v] \in {"bit", "recheck", "park"}, v \notin tokens'
               PROVE  Reach(v)'
    BY DEF ReachInv
  <2>1. \A i \in Wakers : InHand(i, v) => InHand(i, v)' \/ Reach(v)'
    BY DEF Reach, InHand, HasBit, Leased, TypeOK, LeaseIsExclusive, StepInv
  <2>2. Reach(v) \/ Reach(v)'
    BY DEF ReachInv, Reach, TypeOK, StepInv
  <2>3. CASE Reach(v) /\ ~\E i \in Wakers : InHand(i, v)
    BY <2>3 DEF Reach, InHand, HasBit, Leased, TypeOK, StepInv, LeaseIsExclusive
  <2> QED  BY <2>1, <2>2, <2>3 DEF Reach
<1>6. SleptInv'
  <2> SUFFICES ASSUME NEW j \in Wakers, NEW v \in slept'[j] PROVE Slept(j, v)'
    BY DEF SleptInv
  <2>1. v \in Waiters /\ v \in slept[j] /\ Slept(j, v)
    BY DEF SleptInv, TypeOK
  <2>2. Asleep(v)'
    BY <2>1 DEF Slept, Asleep, TypeOK
  <2>3. Detached(j, v)'
    BY <2>1 DEF Slept, Asleep, Detached, TypeOK
  <2>4. Unset(j, v)'
    BY <2>1 DEF Slept, Asleep, Unset, TypeOK, LeaseIsExclusive, Leased, StepInv
  <2>5. \A i \in Wakers : InHand(i, v) => InHand(i, v)'
    BY <2>1, <2>2 DEF Slept, Asleep, InHand, HasBit, Leased, TypeOK, LeaseIsExclusive, StepInv
  <2>6. Elsewhere(j, v)'
    BY <2>1, <2>5 DEF Slept, Elsewhere, TypeOK, StepInv
  <2> QED  BY <2>2, <2>3, <2>4, <2>6 DEF Slept
<1> QED  BY <1>1, <1>2, <1>3, <1>4, <1>5, <1>6

LEMMA LoadBitmapInv ==
  ASSUME TypeOK, IInv, NEW k \in Wakers, LoadBitmap(k) PROVE TypeOK' /\ IInv'
<1> USE DEF LoadBitmap, GotoK, IsNext, registry, shared, waker, IInv
<1>1. TypeOK'
  <2>1. bits \in SUBSET Slots /\ at' \in [Wakers -> Slots]
    BY DEF TypeOK
  <2> QED  BY <2>1 DEF TypeOK, WakerSteps
<1>2. StepInv'
  <2>1. /\ kpc' = [kpc EXCEPT ![k] = kpc'[k]]
        /\ kpc'[k] \in {"store", "return", "clear"}
        /\ kpc'[k] = "store" => kind[k] = "n"
    BY DEF TypeOK
  <2> QED  BY <2>1 DEF StepInv, TypeOK, Leased
<1>3. LeaseIsExclusive'
  BY DEF TypeOK, StepInv, LeaseIsExclusive, BitInv, Leased, Slots
<1>4. BitInv'
  BY DEF TypeOK, StepInv, LeaseIsExclusive, BitInv, Leased, Slots
<1>5. ReachInv'
  <2> SUFFICES ASSUME NEW v \in Waiters, wpc'[v] \in {"bit", "recheck", "park"}, v \notin tokens'
               PROVE  Reach(v)'
    BY DEF ReachInv
  <2>1. \A i \in Wakers : InHand(i, v) => InHand(i, v)' \/ Reach(v)'
    BY DEF Reach, InHand, HasBit, Leased, TypeOK, LeaseIsExclusive, StepInv
  <2>2. Reach(v) \/ Reach(v)'
    BY DEF ReachInv, Reach, TypeOK, StepInv
  <2>3. CASE Reach(v) /\ ~\E i \in Wakers : InHand(i, v)
    BY <2>3 DEF Reach, InHand, HasBit, Leased, TypeOK, StepInv, LeaseIsExclusive
  <2> QED  BY <2>1, <2>2, <2>3 DEF Reach
<1>6. SleptInv'
  <2> SUFFICES ASSUME NEW j \in Wakers, NEW v \in slept'[j] PROVE Slept(j, v)'
    BY DEF SleptInv
  <2>1. v \in Waiters /\ v \in slept[j] /\ Slept(j, v)
    BY DEF SleptInv, TypeOK
  <2>2. Asleep(v)'
    BY <2>1 DEF Slept, Asleep, TypeOK
  <2>3. Detached(j, v)'
    BY <2>1 DEF Slept, Asleep, Detached, TypeOK
  <2>4. Unset(j, v)'
    BY <2>1 DEF Slept, Asleep, Unset, TypeOK, LeaseIsExclusive, Leased, StepInv
  <2>5. \A i \in Wakers : InHand(i, v) => InHand(i, v)'
    BY <2>1, <2>2 DEF Slept, Asleep, InHand, HasBit, Leased, TypeOK, LeaseIsExclusive, StepInv
  <2>6. Elsewhere(j, v)'
    <3>1. CASE j # k
      BY <3>1, <2>1, <2>5 DEF Slept, Elsewhere, TypeOK, StepInv
    <3>2. CASE j = k
      <4>1. Reach(v) /\ wpc[v] = "park"
        BY <2>1 DEF Slept, Asleep, ReachInv
      <4>2. v \notin Range(overflow)
        BY <3>2, <2>1 DEF Slept, Detached
      <4>3. ~InHand(k, v)
        <5>1. got[k] = None /\ chain[k] = <<>> /\ rest[k] = {} /\ kpc[k] \notin {"advance", "claim"}
          BY DEF StepInv
        <5>2. v # None
          BY <2>1
        <5> QED  BY <5>1, <5>2, RangeEmpty DEF InHand, HasBit
      <4>4. slot[v] \notin bits \/ kpc'[k] = "clear"
        BY DEF TypeOK
      <4>5. kpc'[k] # "clear" \/ Elsewhere(j, v)'
        BY <3>2 DEF Elsewhere, TypeOK
      <4> QED  BY <3>2, <4>1, <4>2, <4>3, <4>4, <4>5, <2>5 DEF Reach, Elsewhere
    <3> QED  BY <3>1, <3>2
  <2> QED  BY <2>2, <2>3, <2>4, <2>6 DEF Slept
<1> QED  BY <1>1, <1>2, <1>3, <1>4, <1>5, <1>6

LEMMA ClearBitInv ==
  ASSUME TypeOK, IInv, NEW k \in Wakers, ClearBit(k) PROVE TypeOK' /\ IInv'
<1> USE DEF ClearBit, GotoK, registry, shared, waker, IInv
<1>1. TypeOK'
  BY DEF TypeOK, WaiterSteps, WakerSteps, Slots
<1>2. StepInv'
  BY DEF TypeOK, WaiterSteps, WakerSteps, StepInv, Leased
<1>3. LeaseIsExclusive'
  BY DEF TypeOK, StepInv, LeaseIsExclusive, BitInv, Leased, Slots
<1>4. BitInv'
  BY DEF TypeOK, StepInv, LeaseIsExclusive, BitInv, Leased, Slots
<1>5. ReachInv'
  <2> SUFFICES ASSUME NEW v \in Waiters, wpc'[v] \in {"bit", "recheck", "park"}, v \notin tokens'
               PROVE  Reach(v)'
    BY DEF ReachInv
  <2>1. \A i \in Wakers : InHand(i, v) => InHand(i, v)' \/ Reach(v)'
    BY DEF Reach, InHand, HasBit, Leased, TypeOK, LeaseIsExclusive, StepInv
  <2>2. Reach(v) \/ Reach(v)'
    BY DEF ReachInv, Reach, TypeOK, StepInv
  <2>3. CASE Reach(v) /\ ~\E i \in Wakers : InHand(i, v)
    BY <2>3 DEF Reach, InHand, HasBit, Leased, TypeOK, StepInv, LeaseIsExclusive
  <2> QED  BY <2>1, <2>2, <2>3 DEF Reach
<1>6. SleptInv'
  <2> SUFFICES ASSUME NEW j \in Wakers, NEW v \in slept'[j] PROVE Slept(j, v)'
    BY DEF SleptInv
  <2>1. v \in Waiters /\ v \in slept[j] /\ Slept(j, v)
    BY DEF SleptInv, TypeOK
  <2>2. Asleep(v)'
    BY <2>1 DEF Slept, Asleep, TypeOK
  <2>3. Detached(j, v)'
    BY <2>1 DEF Slept, Asleep, Detached, TypeOK
  <2>4. Unset(j, v)'
    BY <2>1 DEF Slept, Asleep, Unset, TypeOK, LeaseIsExclusive, Leased, StepInv
  <2>5. \A i \in Wakers : InHand(i, v) => InHand(i, v)'
    BY <2>1, <2>2 DEF Slept, Asleep, InHand, HasBit, Leased, TypeOK, LeaseIsExclusive, StepInv
  <2>6. Elsewhere(j, v)'
    BY <2>1, <2>5 DEF Slept, Elsewhere, TypeOK, StepInv
  <2> QED  BY <2>2, <2>3, <2>4, <2>6 DEF Slept
<1> QED  BY <1>1, <1>2, <1>3, <1>4, <1>5, <1>6

LEMMA AdvanceInv ==
  ASSUME TypeOK, IInv, NEW k \in Wakers, Advance(k) PROVE TypeOK' /\ IInv'
<1> USE DEF Advance, GotoK, registry, shared, waker, IInv
<1>1. TypeOK'
  BY DEF TypeOK, WaiterSteps, WakerSteps, Slots
<1>2. StepInv'
  BY DEF TypeOK, WaiterSteps, WakerSteps, StepInv, Leased
<1>3. LeaseIsExclusive'
  BY DEF TypeOK, StepInv, LeaseIsExclusive, BitInv, Leased, Slots
<1>4. BitInv'
  BY DEF TypeOK, StepInv, LeaseIsExclusive, BitInv, Leased, Slots
<1>5. ReachInv'
  <2> SUFFICES ASSUME NEW v \in Waiters, wpc'[v] \in {"bit", "recheck", "park"}, v \notin tokens'
               PROVE  Reach(v)'
    BY DEF ReachInv
  <2>1. \A i \in Wakers : InHand(i, v) => InHand(i, v)' \/ Reach(v)'
    BY DEF Reach, InHand, HasBit, Leased, TypeOK, LeaseIsExclusive, StepInv
  <2>2. Reach(v) \/ Reach(v)'
    BY DEF ReachInv, Reach, TypeOK, StepInv
  <2>3. CASE Reach(v) /\ ~\E i \in Wakers : InHand(i, v)
    BY <2>3 DEF Reach, InHand, HasBit, Leased, TypeOK, StepInv, LeaseIsExclusive
  <2> QED  BY <2>1, <2>2, <2>3 DEF Reach
<1>6. SleptInv'
  <2> SUFFICES ASSUME NEW j \in Wakers, NEW v \in slept'[j] PROVE Slept(j, v)'
    BY DEF SleptInv
  <2>1. v \in Waiters /\ v \in slept[j] /\ Slept(j, v)
    BY DEF SleptInv, TypeOK
  <2>2. Asleep(v)'
    BY <2>1 DEF Slept, Asleep, TypeOK
  <2>3. Detached(j, v)'
    BY <2>1 DEF Slept, Asleep, Detached, TypeOK
  <2>4. Unset(j, v)'
    BY <2>1 DEF Slept, Asleep, Unset, TypeOK, LeaseIsExclusive, Leased, StepInv
  <2>5. \A i \in Wakers : InHand(i, v) => InHand(i, v)'
    BY <2>1, <2>2 DEF Slept, Asleep, InHand, HasBit, Leased, TypeOK, LeaseIsExclusive, StepInv
  <2>6. Elsewhere(j, v)'
    BY <2>1, <2>5 DEF Slept, Elsewhere, TypeOK, StepInv
  <2> QED  BY <2>2, <2>3, <2>4, <2>6 DEF Slept
<1> QED  BY <1>1, <1>2, <1>3, <1>4, <1>5, <1>6

LEMMA ClaimInv ==
  ASSUME TypeOK, IInv, NEW k \in Wakers, Claim(k) PROVE TypeOK' /\ IInv'
<1> USE DEF Claim, GotoK, registry, shared, waker, IInv
<1>1. TypeOK'
  BY DEF TypeOK, WaiterSteps, WakerSteps, Slots
<1>2. StepInv'
  BY DEF TypeOK, WaiterSteps, WakerSteps, StepInv, Leased
<1>3. LeaseIsExclusive'
  BY DEF TypeOK, StepInv, LeaseIsExclusive, BitInv, Leased, Slots
<1>4. BitInv'
  BY DEF TypeOK, StepInv, LeaseIsExclusive, BitInv, Leased, Slots
<1>5. ReachInv'
  <2> SUFFICES ASSUME NEW v \in Waiters, wpc'[v] \in {"bit", "recheck", "park"}, v \notin tokens'
               PROVE  Reach(v)'
    BY DEF ReachInv
  <2>1. \A i \in Wakers : InHand(i, v) => InHand(i, v)' \/ Reach(v)'
    BY DEF Reach, InHand, HasBit, Leased, TypeOK, LeaseIsExclusive, StepInv
  <2>2. Reach(v) \/ Reach(v)'
    BY DEF ReachInv, Reach, TypeOK, StepInv
  <2>3. CASE Reach(v) /\ ~\E i \in Wakers : InHand(i, v)
    BY <2>3 DEF Reach, InHand, HasBit, Leased, TypeOK, StepInv, LeaseIsExclusive
  <2> QED  BY <2>1, <2>2, <2>3 DEF Reach
<1>6. SleptInv'
  <2> SUFFICES ASSUME NEW j \in Wakers, NEW v \in slept'[j] PROVE Slept(j, v)'
    BY DEF SleptInv
  <2>1. v \in Waiters /\ v \in slept[j] /\ Slept(j, v)
    BY DEF SleptInv, TypeOK
  <2>2. Asleep(v)'
    BY <2>1 DEF Slept, Asleep, TypeOK
  <2>3. Detached(j, v)'
    BY <2>1 DEF Slept, Asleep, Detached, TypeOK
  <2>4. Unset(j, v)'
    BY <2>1 DEF Slept, Asleep, Unset, TypeOK, LeaseIsExclusive, Leased, StepInv
  <2>5. \A i \in Wakers : InHand(i, v) => InHand(i, v)' \/ InHand(k, v)'
    BY <2>1, <2>2 DEF Slept, Asleep, InHand, HasBit, Leased, TypeOK, LeaseIsExclusive, StepInv
  <2>6. Elsewhere(j, v)'
    BY <2>1, <2>5 DEF Slept, Elsewhere, TypeOK, StepInv
  <2> QED  BY <2>2, <2>3, <2>4, <2>6 DEF Slept
<1> QED  BY <1>1, <1>2, <1>3, <1>4, <1>5, <1>6

LEMMA DeliverInv ==
  ASSUME TypeOK, IInv, NEW k \in Wakers, Deliver(k) PROVE TypeOK' /\ IInv'
<1> USE DEF Deliver, GotoK, Unpark, registry, shared, waker, IInv
<1>1. TypeOK'
  <2>1. need' \in [Wakers -> Nat]
    <3>1. need[k] \in Nat /\ need[k] > 0
      BY DEF TypeOK, StepInv
    <3>2. need[k] - 1 \in Nat
      BY <3>1
    <3> QED  BY <3>2 DEF TypeOK
  <2>2. got[k] \in Waiters
    BY DEF TypeOK, StepInv
  <2> QED  BY <2>1, <2>2 DEF TypeOK, WakerSteps
<1>2. StepInv'
  BY DEF TypeOK, WaiterSteps, WakerSteps, StepInv, Leased
<1>3. LeaseIsExclusive'
  BY DEF TypeOK, StepInv, LeaseIsExclusive, BitInv, Leased, Slots
<1>4. BitInv'
  BY DEF TypeOK, StepInv, LeaseIsExclusive, BitInv, Leased, Slots
<1>5. ReachInv'
  <2> SUFFICES ASSUME NEW v \in Waiters, wpc'[v] \in {"bit", "recheck", "park"}, v \notin tokens'
               PROVE  Reach(v)'
    BY DEF ReachInv
  <2>1. \A i \in Wakers : InHand(i, v) => InHand(i, v)' \/ Reach(v)'
    BY DEF Reach, InHand, HasBit, Leased, TypeOK, LeaseIsExclusive, StepInv
  <2>2. Reach(v) \/ Reach(v)'
    BY DEF ReachInv, Reach, TypeOK, StepInv
  <2>3. CASE Reach(v) /\ ~\E i \in Wakers : InHand(i, v)
    BY <2>3 DEF Reach, InHand, HasBit, Leased, TypeOK, StepInv, LeaseIsExclusive
  <2> QED  BY <2>1, <2>2, <2>3 DEF Reach
<1>6. SleptInv'
  <2> SUFFICES ASSUME NEW j \in Wakers, NEW v \in slept'[j] PROVE Slept(j, v)'
    BY DEF SleptInv
  <2>1. v \in Waiters /\ v \in slept[j] /\ Slept(j, v)
    BY DEF SleptInv, TypeOK
  <2>2. Asleep(v)'
    BY <2>1 DEF Slept, Asleep, TypeOK
  <2>3. Detached(j, v)'
    BY <2>1 DEF Slept, Asleep, Detached, TypeOK
  <2>4. Unset(j, v)'
    BY <2>1 DEF Slept, Asleep, Unset, TypeOK, LeaseIsExclusive, Leased, StepInv
  <2>5. \A i \in Wakers : InHand(i, v) => InHand(i, v)'
    BY <2>1, <2>2 DEF Slept, Asleep, InHand, HasBit, Leased, TypeOK, LeaseIsExclusive, StepInv
  <2>6. Elsewhere(j, v)'
    BY <2>1, <2>5 DEF Slept, Elsewhere, TypeOK, StepInv
  <2> QED  BY <2>2, <2>3, <2>4, <2>6 DEF Slept
<1> QED  BY <1>1, <1>2, <1>3, <1>4, <1>5, <1>6

LEMMA StoreCursorInv ==
  ASSUME TypeOK, IInv, NEW k \in Wakers, StoreCursor(k) PROVE TypeOK' /\ IInv'
<1> USE DEF StoreCursor, GotoK, registry, shared, waker, IInv
<1>1. TypeOK'
  BY DEF TypeOK, WaiterSteps, WakerSteps, Slots
<1>2. StepInv'
  BY DEF TypeOK, WaiterSteps, WakerSteps, StepInv, Leased
<1>3. LeaseIsExclusive'
  BY DEF TypeOK, StepInv, LeaseIsExclusive, BitInv, Leased, Slots
<1>4. BitInv'
  BY DEF TypeOK, StepInv, LeaseIsExclusive, BitInv, Leased, Slots
<1>5. ReachInv'
  <2> SUFFICES ASSUME NEW v \in Waiters, wpc'[v] \in {"bit", "recheck", "park"}, v \notin tokens'
               PROVE  Reach(v)'
    BY DEF ReachInv
  <2>1. \A i \in Wakers : InHand(i, v) => InHand(i, v)' \/ Reach(v)'
    BY DEF Reach, InHand, HasBit, Leased, TypeOK, LeaseIsExclusive, StepInv
  <2>2. Reach(v) \/ Reach(v)'
    BY DEF ReachInv, Reach, TypeOK, StepInv
  <2>3. CASE Reach(v) /\ ~\E i \in Wakers : InHand(i, v)
    BY <2>3 DEF Reach, InHand, HasBit, Leased, TypeOK, StepInv, LeaseIsExclusive
  <2> QED  BY <2>1, <2>2, <2>3 DEF Reach
<1>6. SleptInv'
  <2> SUFFICES ASSUME NEW j \in Wakers, NEW v \in slept'[j] PROVE Slept(j, v)'
    BY DEF SleptInv
  <2>1. v \in Waiters /\ v \in slept[j] /\ Slept(j, v)
    BY DEF SleptInv, TypeOK
  <2>2. Asleep(v)'
    BY <2>1 DEF Slept, Asleep, TypeOK
  <2>3. Detached(j, v)'
    BY <2>1 DEF Slept, Asleep, Detached, TypeOK
  <2>4. Unset(j, v)'
    BY <2>1 DEF Slept, Asleep, Unset, TypeOK, LeaseIsExclusive, Leased, StepInv
  <2>5. \A i \in Wakers : InHand(i, v) => InHand(i, v)'
    BY <2>1, <2>2 DEF Slept, Asleep, InHand, HasBit, Leased, TypeOK, LeaseIsExclusive, StepInv
  <2>6. Elsewhere(j, v)'
    BY <2>1, <2>5 DEF Slept, Elsewhere, TypeOK, StepInv
  <2> QED  BY <2>2, <2>3, <2>4, <2>6 DEF Slept
<1> QED  BY <1>1, <1>2, <1>3, <1>4, <1>5, <1>6

LEMMA SwapBitsInv ==
  ASSUME TypeOK, IInv, NEW k \in Wakers, SwapBits(k) PROVE TypeOK' /\ IInv'
<1> USE DEF SwapBits, GotoK, registry, shared, waker, IInv
<1>1. TypeOK'
  BY DEF TypeOK, WaiterSteps, WakerSteps, Slots
<1>2. StepInv'
  BY DEF TypeOK, WaiterSteps, WakerSteps, StepInv, Leased
<1>3. LeaseIsExclusive'
  BY DEF TypeOK, StepInv, LeaseIsExclusive, BitInv, Leased, Slots
<1>4. BitInv'
  BY DEF TypeOK, StepInv, LeaseIsExclusive, BitInv, Leased, Slots
<1>5. ReachInv'
  <2> SUFFICES ASSUME NEW v \in Waiters, wpc'[v] \in {"bit", "recheck", "park"}, v \notin tokens'
               PROVE  Reach(v)'
    BY DEF ReachInv
  <2>1. \A i \in Wakers : InHand(i, v) => InHand(i, v)' \/ Reach(v)'
    BY DEF Reach, InHand, HasBit, Leased, TypeOK, LeaseIsExclusive, StepInv
  <2>2. Reach(v) \/ Reach(v)'
    BY DEF ReachInv, Reach, TypeOK, StepInv
  <2>3. CASE Reach(v) /\ ~\E i \in Wakers : InHand(i, v)
    BY <2>3 DEF Reach, InHand, HasBit, Leased, TypeOK, StepInv, LeaseIsExclusive
  <2> QED  BY <2>1, <2>2, <2>3 DEF Reach
<1>6. SleptInv'
  <2> SUFFICES ASSUME NEW j \in Wakers, NEW v \in slept'[j] PROVE Slept(j, v)'
    BY DEF SleptInv
  <2>1. v \in Waiters /\ v \in slept[j] /\ Slept(j, v)
    BY DEF SleptInv, TypeOK
  <2>2. Asleep(v)'
    BY <2>1 DEF Slept, Asleep, TypeOK
  <2>3. Detached(j, v)'
    BY <2>1 DEF Slept, Asleep, Detached, TypeOK
  <2>4. Unset(j, v)'
    BY <2>1 DEF Slept, Asleep, Unset, TypeOK, LeaseIsExclusive, Leased, StepInv
  <2>5. \A i \in Wakers : InHand(i, v) => InHand(i, v)'
    BY <2>1, <2>2 DEF Slept, Asleep, InHand, HasBit, Leased, TypeOK, LeaseIsExclusive, StepInv
  <2>6. Elsewhere(j, v)'
    BY <2>1, <2>5 DEF Slept, Elsewhere, TypeOK, StepInv
  <2> QED  BY <2>2, <2>3, <2>4, <2>6 DEF Slept
<1> QED  BY <1>1, <1>2, <1>3, <1>4, <1>5, <1>6

LEMMA NextFlushedInv ==
  ASSUME TypeOK, IInv, NEW k \in Wakers, NextFlushed(k) PROVE TypeOK' /\ IInv'
<1> USE DEF NextFlushed, GotoK, IsLowest, registry, shared, waker, IInv
<1>1. TypeOK'
  BY DEF TypeOK, WaiterSteps, WakerSteps, Slots
<1>2. StepInv'
  BY DEF TypeOK, WaiterSteps, WakerSteps, StepInv, Leased
<1>3. LeaseIsExclusive'
  BY DEF TypeOK, StepInv, LeaseIsExclusive, BitInv, Leased, Slots
<1>4. BitInv'
  BY DEF TypeOK, StepInv, LeaseIsExclusive, BitInv, Leased, Slots
<1>5. ReachInv'
  BY DEF TypeOK, StepInv, LeaseIsExclusive, BitInv, ReachInv, Reach, InHand, HasBit, Leased
<1>6. SleptInv'
  <2> SUFFICES ASSUME NEW j \in Wakers, NEW v \in slept'[j] PROVE Slept(j, v)'
    BY DEF SleptInv
  <2>1. v \in Waiters /\ v \in slept[j] /\ Slept(j, v)
    BY DEF SleptInv, TypeOK
  <2>2. Asleep(v)'
    BY <2>1 DEF Slept, Asleep, TypeOK
  <2>3. Detached(j, v)'
    BY <2>1 DEF Slept, Asleep, Detached, TypeOK
  <2>4. Unset(j, v)'
    BY <2>1 DEF Slept, Asleep, Unset, TypeOK, LeaseIsExclusive, Leased, StepInv
  <2>5. \A i \in Wakers : InHand(i, v) => InHand(i, v)'
    BY <2>1, <2>2 DEF Slept, Asleep, InHand, HasBit, Leased, TypeOK, LeaseIsExclusive, StepInv
  <2>6. Elsewhere(j, v)'
    BY <2>1, <2>5 DEF Slept, Elsewhere, TypeOK, StepInv
  <2> QED  BY <2>2, <2>3, <2>4, <2>6 DEF Slept
<1> QED  BY <1>1, <1>2, <1>3, <1>4, <1>5, <1>6

LEMMA FlushedInv ==
  ASSUME TypeOK, IInv, NEW k \in Wakers, Flushed(k) PROVE TypeOK' /\ IInv'
<1> USE DEF Flushed, GotoK, registry, shared, waker, IInv
<1>1. TypeOK'
  BY DEF TypeOK, WaiterSteps, WakerSteps, Slots
<1>2. StepInv'
  BY DEF TypeOK, WaiterSteps, WakerSteps, StepInv, Leased
<1>3. LeaseIsExclusive'
  BY DEF TypeOK, StepInv, LeaseIsExclusive, BitInv, Leased, Slots
<1>4. BitInv'
  BY DEF TypeOK, StepInv, LeaseIsExclusive, BitInv, Leased, Slots
<1>5. ReachInv'
  BY DEF TypeOK, StepInv, LeaseIsExclusive, BitInv, ReachInv, Reach, InHand, HasBit, Leased
<1>6. SleptInv'
  <2> SUFFICES ASSUME NEW j \in Wakers, NEW v \in slept'[j] PROVE Slept(j, v)'
    BY DEF SleptInv
  <2>1. v \in Waiters /\ v \in slept[j] /\ Slept(j, v)
    BY DEF SleptInv, TypeOK
  <2>2. Asleep(v)'
    BY <2>1 DEF Slept, Asleep, TypeOK
  <2>3. Detached(j, v)'
    BY <2>1 DEF Slept, Asleep, Detached, TypeOK
  <2>4. Unset(j, v)'
    BY <2>1 DEF Slept, Asleep, Unset, TypeOK, LeaseIsExclusive, Leased, StepInv
  <2>5. \A i \in Wakers : InHand(i, v) => InHand(i, v)'
    BY <2>1, <2>2 DEF Slept, Asleep, InHand, HasBit, Leased, TypeOK, LeaseIsExclusive, StepInv
  <2>6. Elsewhere(j, v)'
    <3>1. CASE j # k
      BY <3>1, <2>1, <2>5 DEF Slept, Elsewhere, TypeOK, StepInv
    <3>2. CASE j = k
      <4>1. Reach(v) /\ wpc[v] = "park"
        BY <2>1 DEF Slept, Asleep, ReachInv
      <4>2. v \notin Range(overflow)
        BY <3>2, <2>1 DEF Slept, Detached
      <4>3. ~InHand(k, v)
        <5>1. got[k] = None /\ chain[k] = <<>> /\ rest[k] = {} /\ kpc[k] \notin {"advance", "claim"}
          BY DEF StepInv
        <5>2. v # None
          BY <2>1
        <5> QED  BY <5>1, <5>2, RangeEmpty DEF InHand, HasBit
      <4>4. slot[v] \notin bits
        BY <3>2, <2>1 DEF Slept, Unset, StepInv
      <4> QED  BY <3>2, <4>1, <4>2, <4>3, <4>4, <2>5 DEF Reach, Elsewhere
    <3> QED  BY <3>1, <3>2
  <2> QED  BY <2>2, <2>3, <2>4, <2>6 DEF Slept
<1> QED  BY <1>1, <1>2, <1>3, <1>4, <1>5, <1>6

LEMMA ReturnInv ==
  ASSUME TypeOK, IInv, NEW k \in Wakers, Return(k) PROVE TypeOK' /\ IInv'
<1> USE DEF Return, GotoK, registry, shared, waker, IInv
<1>1. TypeOK'
  BY DEF TypeOK, WaiterSteps, WakerSteps, Slots
<1>2. StepInv'
  BY DEF TypeOK, WaiterSteps, WakerSteps, StepInv, Leased
<1>3. LeaseIsExclusive'
  BY DEF TypeOK, StepInv, LeaseIsExclusive, BitInv, Leased, Slots
<1>4. BitInv'
  BY DEF TypeOK, StepInv, LeaseIsExclusive, BitInv, Leased, Slots
<1>5. ReachInv'
  BY DEF TypeOK, StepInv, LeaseIsExclusive, BitInv, ReachInv, Reach, InHand, HasBit, Leased
<1>6. SleptInv'
  <2> SUFFICES ASSUME NEW j \in Wakers, NEW v \in slept'[j] PROVE Slept(j, v)'
    BY DEF SleptInv
  <2>1. v \in Waiters /\ v \in slept[j] /\ Slept(j, v)
    BY DEF SleptInv, TypeOK
  <2>2. Asleep(v)'
    BY <2>1 DEF Slept, Asleep, TypeOK
  <2>3. Detached(j, v)'
    BY <2>1 DEF Slept, Asleep, Detached, TypeOK
  <2>4. Unset(j, v)'
    BY <2>1 DEF Slept, Asleep, Unset, TypeOK, LeaseIsExclusive, Leased, StepInv
  <2>5. \A i \in Wakers : InHand(i, v) => InHand(i, v)'
    BY <2>1, <2>2 DEF Slept, Asleep, InHand, HasBit, Leased, TypeOK, LeaseIsExclusive, StepInv
  <2>6. Elsewhere(j, v)'
    BY <2>1, <2>5 DEF Slept, Elsewhere, TypeOK, StepInv
  <2> QED  BY <2>2, <2>3, <2>4, <2>6 DEF Slept
<1> QED  BY <1>1, <1>2, <1>3, <1>4, <1>5, <1>6

LEMMA CallInv ==
  ASSUME TypeOK, IInv, NEW k \in Wakers, NEW c \in WakeCalls, Call(k, c) PROVE TypeOK' /\ IInv'
<1> USE DEF Call, GotoK, registry, shared, waker, IInv
<1>1. TypeOK'
  BY DEF TypeOK, WaiterSteps, WakerSteps, Slots
<1>2. StepInv'
  BY DEF TypeOK, WaiterSteps, WakerSteps, StepInv, Leased
<1>3. LeaseIsExclusive'
  BY DEF TypeOK, StepInv, LeaseIsExclusive, BitInv, Leased, Slots
<1>4. BitInv'
  BY DEF TypeOK, StepInv, LeaseIsExclusive, BitInv, Leased, Slots
<1>5. ReachInv'
  <2> SUFFICES ASSUME NEW v \in Waiters, wpc'[v] \in {"bit", "recheck", "park"}, v \notin tokens'
               PROVE  Reach(v)'
    BY DEF ReachInv
  <2>1. \A i \in Wakers : InHand(i, v) => InHand(i, v)' \/ Reach(v)'
    BY DEF Reach, InHand, HasBit, Leased, TypeOK, LeaseIsExclusive, StepInv
  <2>2. Reach(v) \/ Reach(v)'
    BY DEF ReachInv, Reach, TypeOK, StepInv
  <2>3. CASE Reach(v) /\ ~\E i \in Wakers : InHand(i, v)
    BY <2>3 DEF Reach, InHand, HasBit, Leased, TypeOK, StepInv, LeaseIsExclusive
  <2> QED  BY <2>1, <2>2, <2>3 DEF Reach
<1>6. SleptInv'
  <2> SUFFICES ASSUME NEW j \in Wakers, NEW v \in slept'[j] PROVE Slept(j, v)'
    BY DEF SleptInv
  <2>1. CASE j = k
    BY <2>1 DEF Slept, Asleep, Detached, Unset, Elsewhere, TypeOK
  <2>2. CASE j # k
    <3>1. v \in Waiters /\ v \in slept[j] /\ Slept(j, v)
      BY <2>2 DEF SleptInv, TypeOK
    <3>2. \A i \in Wakers : InHand(i, v) => InHand(i, v)'
      BY DEF InHand, HasBit, Leased, TypeOK, StepInv
    <3> QED  BY <2>2, <3>1, <3>2 DEF Slept, Asleep, Detached, Unset, Elsewhere, TypeOK
  <2> QED  BY <2>1, <2>2
<1> QED  BY <1>1, <1>2, <1>3, <1>4, <1>5, <1>6

LEMMA NextInv ==
  ASSUME TypeOK, IInv, [Next]_vars PROVE TypeOK' /\ IInv'
<1>1. ASSUME NEW w \in Waiters, WaiterNext(w) PROVE TypeOK' /\ IInv'
  BY <1>1, LeaseInv, DepartInv, ArmHandleInv, ArmBitInv, RegisterInv, RecheckInv, ParkInv,
     DisarmInv DEF WaiterNext
<1>2. ASSUME NEW k \in Wakers, WakerNext(k) PROVE TypeOK' /\ IInv'
  BY <1>2, DetachInv, ReleaseInv, LoadCursorInv, LoadBitmapInv, ClearBitInv, AdvanceInv,
     ClaimInv, DeliverInv, StoreCursorInv, SwapBitsInv, NextFlushedInv, FlushedInv, ReturnInv,
     CallInv DEF WakerNext, WakerStep
<1>3. CASE UNCHANGED vars
  BY <1>3 DEF vars, TypeOK, IInv, StepInv, LeaseIsExclusive, BitInv, ReachInv, Reach, SleptInv,
     Slept, Asleep, Detached, Unset, Elsewhere, InHand, HasBit, Leased
<1> QED  BY <1>1, <1>2, <1>3 DEF Next

(* In every reachable state a sleeping waiter can be found: its bit and    *)
(* handle are set, it is on the overflow stack, or a waker has it in hand; *)
(* park slots are leased to one endpoint at a time; and a wake that        *)
(* returns empty-handed has left nobody asleep who slept before it began   *)
(* and is not about to be woken (WakeSet, ThreadParker, ParkRegistry,      *)
(* ParkOverflow).                                                          *)
THEOREM SleepersAreReachable ==
  Spec => [](TypeOK /\ SleeperIsReachable /\ LeaseIsExclusive /\ WakeMissesNobody)
<1>1. IInv => SleeperIsReachable /\ LeaseIsExclusive
  BY DEF IInv, ReachInv, Reach, SleeperIsReachable, LeaseIsExclusive, Asleep
<1>2. TypeOK /\ IInv => WakeMissesNobody
  BY DEF TypeOK, IInv, SleptInv, Slept, Elsewhere, WakeMissesNobody
<1> QED  BY <1>1, <1>2, InitInv, NextInv, PTL DEF Spec

(* A wake that returns empty-handed has passed nobody by: whoever slept    *)
(* before it began is awake again, or another waker is about to wake it    *)
(* (WakeSet::wake_one and WakeSet::flush).                                 *)
THEOREM NobodyIsMissed == Spec => []WakeMissesNobody
<1> QED  BY SleepersAreReachable, PTL
=============================================================================
