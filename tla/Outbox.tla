------------------------------- MODULE Outbox -------------------------------
(***************************************************************************)
(* What the phone's store promises: an outbox that lets go of a batch only *)
(* once it has been sent.  A crash may bring back batches already sent     *)
(* (they will be sent again) and may take some with it, and those are      *)
(* accounted for.                                                          *)
(***************************************************************************)
EXTENDS Integers

CONSTANT Records

VARIABLES
  accepted,  \* batches handed to the outbox
  held,      \* batches it will still send
  sent,      \* batches sent at least once
  gone       \* batches lost in a crash

outboxVars == <<accepted, held, sent, gone>>

Init == accepted = {} /\ held = {} /\ sent = {} /\ gone = {}

Accept(r) ==
  /\ r \notin accepted
  /\ accepted' = accepted \cup {r} /\ held' = held \cup {r}
  /\ UNCHANGED <<sent, gone>>

Send(r) ==
  /\ r \in accepted
  /\ sent' = sent \cup {r} /\ held' \in {held, held \ {r}}
  /\ UNCHANGED <<accepted, gone>>

Forget ==
  /\ held' \subseteq held /\ held \ held' \subseteq sent
  /\ UNCHANGED <<accepted, sent, gone>>

Crash ==
  /\ gone \subseteq gone' /\ gone' \subseteq accepted
  /\ held \ held' \subseteq sent \cup gone'
  /\ held' \ held \subseteq sent
  /\ UNCHANGED <<accepted, sent>>

Next ==
  \/ \E r \in Records : Accept(r) \/ Send(r)
  \/ Forget
  \/ Crash

Spec == Init /\ [][Next]_outboxVars

(* Nothing the outbox accepted is ever unaccounted for.                    *)
NothingUnaccounted == accepted \subseteq held \cup sent \cup gone
=============================================================================
