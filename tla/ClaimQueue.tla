----------------------------- MODULE ClaimQueue -----------------------------
(***************************************************************************)
(* What a many-producer ring promises: a bounded queue of claims.          *)
(*                                                                         *)
(* A producer first claims the place at the back, later fills it with a    *)
(* value or voids it.  The consumer takes values from the front, in the    *)
(* order of the claims, passes over voided places, and never overtakes a   *)
(* place that is still open.  A place it has passed keeps counting against *)
(* the capacity until it is handed back, possibly several at a time.  Once *)
(* the consumer is gone values are discarded, still one by one and each    *)
(* once; destroying the queue discards the rest.                           *)
(***************************************************************************)
EXTENDS Naturals, Sequences, SequencesExt

CONSTANTS Producers, Capacity, Values

VARIABLES
  cells,      \* the places not yet passed, front first
  held,       \* places passed and not yet handed back
  taken,      \* the values delivered, in order
  discarded,  \* the values dropped instead
  serving     \* the consumer has not been dropped

absVars == <<cells, held, taken, discarded, serving>>

Open(p) == [state |-> "open", by |-> p]
Full(v) == [state |-> "full", value |-> v]
Void == [state |-> "void"]

Init ==
  /\ cells = <<>> /\ held = 0
  /\ taken = <<>> /\ discarded = {} /\ serving = TRUE

Claim(p) ==
  /\ \A i \in DOMAIN cells : cells[i] # Open(p)
  /\ Len(cells) + held < Capacity
  /\ cells' = Append(cells, Open(p))
  /\ UNCHANGED <<held, taken, discarded, serving>>

(* p settles its own open place.                                           *)
Settle(p, cell) ==
  \E i \in DOMAIN cells :
    /\ cells[i] = Open(p)
    /\ cells' = [cells EXCEPT ![i] = cell]

Fill(p, v) == Settle(p, Full(v)) /\ UNCHANGED <<held, taken, discarded, serving>>

(* A value written and then abandoned is dropped before its place is void. *)
Abandon(p) == Settle(p, Void) /\ UNCHANGED <<held, taken, discarded, serving>>

Discard(v) ==
  /\ v \notin discarded
  /\ discarded' = discarded \cup {v}
  /\ UNCHANGED <<cells, held, taken, serving>>

Take ==
  /\ cells # <<>> /\ Head(cells).state = "full"
  /\ LET v == Head(cells).value
     IN \/ serving /\ taken' = Append(taken, v) /\ UNCHANGED discarded
        \/ ~serving /\ discarded' = discarded \cup {v} /\ UNCHANGED taken
  /\ cells' = Tail(cells) /\ held' = held + 1
  /\ UNCHANGED serving

Skip ==
  /\ cells # <<>> /\ Head(cells) = Void
  /\ cells' = Tail(cells) /\ held' = held + 1
  /\ UNCHANGED <<taken, discarded, serving>>

HandBack == held' = 0 /\ UNCHANGED <<cells, taken, discarded, serving>>

Retire == serving' = FALSE /\ UNCHANGED <<cells, held, taken, discarded>>

Destroy ==
  /\ ~serving
  /\ \A i \in DOMAIN cells : cells[i].state # "open"
  /\ discarded' = discarded \cup
       {cells[i].value : i \in {j \in DOMAIN cells : cells[j].state = "full"}}
  /\ cells' = <<>>
  /\ UNCHANGED <<held, taken, serving>>

Next ==
  \/ \E p \in Producers : Claim(p) \/ Abandon(p)
  \/ \E p \in Producers, v \in Values : Fill(p, v)
  \/ \E v \in Values : Discard(v)
  \/ Take \/ Skip \/ HandBack \/ Retire \/ Destroy

Spec == Init /\ [][Next]_absVars
=============================================================================
