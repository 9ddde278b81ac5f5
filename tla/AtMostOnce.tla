----------------------------- MODULE AtMostOnce -----------------------------
(***************************************************************************)
(* What a consumer that commits before it delivers promises: an item is    *)
(* taken once, in the order of the topic, and is then delivered once or    *)
(* lost, never both.                                                       *)
(***************************************************************************)
EXTENDS Integers

CONSTANT MaxItems

VARIABLES
  taken,      \* items 1..taken have been taken from the topic
  pending,    \* taken, and still to be delivered
  delivered,
  lost

atMostOnceVars == <<taken, pending, delivered, lost>>

Init == taken = 0 /\ pending = {} /\ delivered = {} /\ lost = {}

Take(n) ==
  /\ taken' = taken + n
  /\ pending' = pending \cup (taken + 1)..(taken + n)
  /\ UNCHANGED <<delivered, lost>>

TakeAndLose(n) ==
  /\ taken' = taken + n
  /\ lost' = lost \cup (taken + 1)..(taken + n)
  /\ UNCHANGED <<pending, delivered>>

Deliver(items) ==
  /\ items \subseteq pending
  /\ pending' = pending \ items /\ delivered' = delivered \cup items
  /\ UNCHANGED <<taken, lost>>

Lose(items) ==
  /\ items \subseteq pending
  /\ pending' = pending \ items /\ lost' = lost \cup items
  /\ UNCHANGED <<taken, delivered>>

Next ==
  \/ \E n \in 1..(MaxItems - taken) : Take(n) \/ TakeAndLose(n)
  \/ \E items \in SUBSET pending : Deliver(items) \/ Lose(items)

Spec == Init /\ [][Next]_atMostOnceVars
=============================================================================
