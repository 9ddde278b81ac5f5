--------------------------- MODULE PointsConsumer ---------------------------
(***************************************************************************)
(* points_consumer/main.go: one goroutine reads messages of points from    *)
(* Kafka into a buffered channel, another collects the points of the       *)
(* channel in a batch and sends the batch to ClickHouse when it reaches a  *)
(* threshold, when a timer fires or when the context is cancelled.         *)
(*                                                                         *)
(* A point is its place in the topic, a message the next n points.         *)
(***************************************************************************)
EXTENDS Integers, Sequences

CONSTANTS
  MaxPoints,         \* bound on the points in the topic
  MaxMessagePoints,  \* most points one message carries
  BufferSize,        \* capacity of the channel, PC_BUFFER_SIZE
  TriggerThreshold,  \* rows that make a batch due, PC_TRIGGER_THRESHOLD
  MaxFaults          \* bound on failing calls, interrupts and deaths

ASSUME PointsAssumption == MaxPoints \in Nat /\ MaxMessagePoints \in Nat \ {0}
ASSUME BufferAssumption == BufferSize \in Nat \ {0}
ASSUME ThresholdAssumption == TriggerThreshold \in Nat \ {0}
ASSUME FaultsAssumption == MaxFaults \in Nat

Points == 1..MaxPoints

VARIABLES
  committed,  \* points of the messages the group has committed
  next,       \* next point the reader sends; next..committed are in its hands
  reader,     \* where the read goroutine is
  pointsC,    \* the channel
  inserter,   \* where the insert goroutine is
  batch,      \* rows of the batch
  isDone,     \* the inserter has seen the context cancelled
  cancelled,  \* the context is cancelled
  table,      \* rows stored, oldest first
  undecoded,  \* history: points of messages that did not unmarshal
  dropped,    \* history: points taken from the topic and lost
  faults      \* number of faults so far

readVars == <<committed, next, reader, undecoded>>
insertVars == <<inserter, batch, isDone, table>>
vars == <<readVars, pointsC, insertVars, cancelled, dropped, faults>>

Reader == {"loop", "read", "send", "returned", "down"}
Inserter == {"prepare", "select", "flush", "returned", "down"}
Up == reader # "down"
Elements(s) == {s[i] : i \in DOMAIN s}

Init ==
  /\ committed = 0 /\ next = 1 /\ reader = "loop"
  /\ pointsC = <<>>
  /\ inserter = "prepare" /\ batch = <<>> /\ isDone = FALSE
  /\ cancelled = FALSE
  /\ table = <<>>
  /\ undecoded = {} /\ dropped = {} /\ faults = 0

Fault == faults < MaxFaults /\ faults' = faults + 1

-----------------------------------------------------------------------------
(* read.                                                                   *)

CheckContext ==
  /\ reader = "loop"
  /\ reader' = IF cancelled THEN "returned" ELSE "read"
  /\ UNCHANGED <<committed, next, undecoded, pointsC, insertVars, cancelled, dropped,
                 faults>>

(* ReadMessage commits the message it returns.                             *)
Receive(n) ==
  /\ reader = "read" /\ n \in 1..MaxMessagePoints /\ committed + n <= MaxPoints
  /\ committed' = committed + n

ReadMessageUncommitted(n) ==   \* a bug: the last point is read again
  /\ reader = "read" /\ n \in 1..MaxMessagePoints /\ committed + n <= MaxPoints
  /\ committed' = committed + n
  /\ next' = (IF committed = 0 THEN 1 ELSE committed) /\ reader' = "send"
  /\ UNCHANGED <<pointsC, insertVars, cancelled, undecoded, dropped, faults>>

ReadMessage(n) ==
  /\ Receive(n)
  /\ next' = committed + 1 /\ reader' = "send"
  /\ UNCHANGED <<pointsC, insertVars, cancelled, undecoded, dropped, faults>>

ReadUndecodable(n) ==
  /\ Receive(n)
  /\ next' = committed + n + 1 /\ reader' = "loop"
  /\ undecoded' = undecoded \cup (committed + 1)..(committed + n)
  /\ UNCHANGED <<pointsC, insertVars, cancelled, dropped, faults>>

(* ReadMessage fails, because it is cancelled or by itself: before the     *)
(* commit, or after it and the message is gone.                            *)
ReadEnds ==
  /\ reader' = "returned" /\ cancelled' = TRUE
  /\ IF cancelled THEN UNCHANGED faults ELSE Fault
  /\ UNCHANGED <<pointsC, insertVars, undecoded>>

ReadFails ==
  /\ reader = "read" /\ ReadEnds
  /\ UNCHANGED <<committed, next, dropped>>

ReadFailsCommitted(n) ==
  /\ Receive(n) /\ ReadEnds
  /\ next' = committed + n + 1
  /\ dropped' = dropped \cup (committed + 1)..(committed + n)

(* `pointsC <- point': waits for room, whatever happens to the context.    *)
SendPoint ==
  /\ reader = "send" /\ Len(pointsC) < BufferSize
  /\ pointsC' = Append(pointsC, next) /\ next' = next + 1
  /\ reader' = IF next = committed THEN "loop" ELSE "send"
  /\ UNCHANGED <<committed, undecoded, insertVars, cancelled, dropped, faults>>

-----------------------------------------------------------------------------
(* insert.                                                                 *)

InsertFails ==
  /\ inserter' = "returned" /\ cancelled' = TRUE
  /\ IF cancelled THEN UNCHANGED faults ELSE Fault
  /\ UNCHANGED <<readVars, isDone>>

(* PrepareBatch, on entry and after each Send.                             *)
PrepareBatch ==
  /\ inserter = "prepare"
  /\ inserter' = IF isDone THEN "returned" ELSE "select"
  /\ UNCHANGED <<readVars, pointsC, batch, isDone, table, cancelled, dropped, faults>>

PrepareFails ==
  /\ inserter = "prepare" /\ InsertFails
  /\ UNCHANGED <<pointsC, batch, table, dropped>>

SelectDoneBreaksSelect ==      \* a bug: `break' only leaves the select
  /\ inserter = "select" /\ cancelled
  /\ isDone' = TRUE /\ inserter' = IF batch = <<>> THEN "select" ELSE "flush"
  /\ UNCHANGED <<readVars, pointsC, batch, table, cancelled, dropped, faults>>

(* The three cases of the select.                                          *)
SelectDone ==
  /\ inserter = "select" /\ cancelled
  /\ isDone' = TRUE /\ inserter' = IF batch = <<>> THEN "returned" ELSE "flush"
  /\ UNCHANGED <<readVars, pointsC, batch, table, cancelled, dropped, faults>>

SelectPointPastThreshold ==    \* a bug: off by one at the threshold
  /\ inserter = "select" /\ pointsC # <<>>
  /\ batch' = Append(batch, Head(pointsC)) /\ pointsC' = Tail(pointsC)
  /\ inserter' = IF Len(batch') > TriggerThreshold THEN "flush" ELSE "select"
  /\ UNCHANGED <<readVars, isDone, table, cancelled, dropped, faults>>

SelectPoint ==
  /\ inserter = "select" /\ pointsC # <<>>
  /\ batch' = Append(batch, Head(pointsC)) /\ pointsC' = Tail(pointsC)
  /\ inserter' = IF Len(batch') >= TriggerThreshold THEN "flush" ELSE "select"
  /\ UNCHANGED <<readVars, isDone, table, cancelled, dropped, faults>>

(* batch.Append reports an error: the point has left the channel.          *)
AppendFails ==
  /\ inserter = "select" /\ pointsC # <<>> /\ InsertFails
  /\ pointsC' = Tail(pointsC) /\ dropped' = dropped \cup {Head(pointsC)}
  /\ UNCHANGED <<batch, table>>

SelectTimerDiscards ==         \* a bug: the timer starts a new batch unsent
  /\ inserter = "select" /\ batch # <<>>
  /\ inserter' = "prepare" /\ batch' = <<>>
  /\ UNCHANGED <<readVars, pointsC, isDone, table, cancelled, dropped, faults>>

SelectTimerWaits ==            \* a bug: the timer only sends a full batch
  /\ inserter = "select" /\ Len(batch) >= TriggerThreshold
  /\ inserter' = "flush"
  /\ UNCHANGED <<readVars, pointsC, batch, isDone, table, cancelled, dropped, faults>>

SelectTimer ==
  /\ inserter = "select" /\ batch # <<>>
  /\ inserter' = "flush"
  /\ UNCHANGED <<readVars, pointsC, batch, isDone, table, cancelled, dropped, faults>>

BatchSendKeepsRows ==          \* a bug: the batch is sent and not replaced
  /\ inserter = "flush"
  /\ table' = table \o batch /\ batch' = (IF isDone THEN <<>> ELSE batch)
  /\ inserter' = "prepare"
  /\ UNCHANGED <<readVars, pointsC, isDone, cancelled, dropped, faults>>

BatchSend ==
  /\ inserter = "flush"
  /\ table' = table \o batch /\ batch' = <<>>
  /\ inserter' = "prepare"
  /\ UNCHANGED <<readVars, pointsC, isDone, cancelled, dropped, faults>>

(* Send reports an error; the server may have stored the rows all the same. *)
BatchSendFails ==
  /\ inserter = "flush" /\ InsertFails
  /\ \/ UNCHANGED <<batch, table>>
     \/ table' = table \o batch /\ batch' = <<>>
  /\ UNCHANGED <<pointsC, dropped>>

-----------------------------------------------------------------------------
(* main, and the process.                                                  *)

InHands == Elements(batch) \cup Elements(pointsC) \cup next..committed

Interrupt ==
  /\ Up /\ ~cancelled /\ Fault
  /\ cancelled' = TRUE
  /\ UNCHANGED <<readVars, pointsC, insertVars, dropped>>

Down ==
  /\ reader' = "down" /\ inserter' = "down"
  /\ pointsC' = <<>> /\ batch' = <<>> /\ next' = committed + 1
  /\ dropped' = dropped \cup InHands
  /\ UNCHANGED <<committed, undecoded, table, isDone, cancelled>>

(* group.Wait returns once both goroutines have.                           *)
Exit ==
  /\ reader = "returned" /\ inserter = "returned"
  /\ Down
  /\ UNCHANGED faults

(* SIGTERM, which nothing catches, or a crash.                             *)
Die == Up /\ Fault /\ Down

Restart ==
  /\ ~Up
  /\ reader' = "loop" /\ inserter' = "prepare"
  /\ isDone' = FALSE /\ cancelled' = FALSE
  /\ UNCHANGED <<committed, next, undecoded, pointsC, batch, table, dropped, faults>>

ReadStep ==
  \/ CheckContext \/ SendPoint \/ ReadFails
  \/ \E n \in 1..MaxMessagePoints :
       ReadMessage(n) \/ ReadUndecodable(n) \/ ReadFailsCommitted(n)

InsertStep ==
  \/ PrepareBatch \/ PrepareFails
  \/ SelectDone \/ SelectPoint \/ AppendFails \/ SelectTimer
  \/ BatchSend \/ BatchSendFails

Next == ReadStep \/ InsertStep \/ Interrupt \/ Exit \/ Die \/ Restart

Spec == Init /\ [][Next]_vars

(* Both goroutines are scheduled and main returns from Wait; the runtime   *)
(* restarts the container (docker-compose.yml, `restart: unless-stopped'). *)
Fairness ==
  /\ WF_vars(ReadStep) /\ WF_vars(InsertStep)
  /\ WF_vars(Exit) /\ WF_vars(Restart)

FairSpec == Spec /\ Fairness

-----------------------------------------------------------------------------
(* Every variable keeps its type; the channel and the batch their limits.  *)
TypeOK ==
  /\ committed \in 0..MaxPoints /\ next \in 1..(committed + 1)
  /\ reader \in Reader /\ inserter \in Inserter
  /\ pointsC \in Seq(Points) /\ Len(pointsC) <= BufferSize
  /\ batch \in Seq(Points) /\ Len(batch) <= TriggerThreshold
  /\ isDone \in BOOLEAN /\ cancelled \in BOOLEAN
  /\ table \in Seq(Points)
  /\ undecoded \subseteq Points /\ dropped \subseteq Points
  /\ faults \in 0..MaxFaults

Increasing(s) == \A i, j \in DOMAIN s : i < j => s[i] < s[j]

(* The rows of the table are in the order of the topic and none is there   *)
(* twice, through failed sends, interrupts, deaths and restarts: the       *)
(* message is committed before it is handed on, and never read again.      *)
StoredInOrder == Increasing(table)

(* Every point of a committed message is stored, undecodable, in hands or  *)
(* dropped, and points are only dropped by a fault.                        *)
PointsAccounted ==
  /\ 1..committed = Elements(table) \cup undecoded \cup InHands \cup dropped
  /\ faults = 0 => dropped = {}

(* The reader waits to send to a full channel that nobody receives from.   *)
ReaderStuck ==
  reader = "send" /\ Len(pointsC) = BufferSize /\ inserter = "returned"

(* Every point of the topic is stored, undecodable or dropped in the end,  *)
(* unless the reader gets stuck.                                           *)
PointsSettle ==
  <>(1..MaxPoints = Elements(table) \cup undecoded \cup dropped \/ ReaderStuck)

(* A process whose context is cancelled, by an error of either goroutine   *)
(* or by an interrupt, ends, and with it the container restarts; nothing   *)
(* but a stuck reader can keep it.                                         *)
EndsOrIsStuck == cancelled ~> ~Up \/ ReaderStuck

(* Together the goroutines deliver each point at most once.                *)
sink == INSTANCE AtMostOnce WITH
  MaxItems <- MaxPoints, taken <- committed, pending <- InHands,
  delivered <- Elements(table), lost <- undecoded \cup dropped

DeliversAtMostOnce == sink!Spec
=============================================================================
