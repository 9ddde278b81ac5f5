------------------------- MODULE SensorTransmission -------------------------
(***************************************************************************)
(* What the phone does with a batch of sensor records: it sends the batch  *)
(* or, when the network is disabled or the send fails, stores it, and each *)
(* time the network is enabled a loop drains the store                     *)
(* (mobile/lib/features/sensor_transmission.dart, with the network switch  *)
(* of mobile/lib/state/sensor_transmitter.dart).                           *)
(*                                                                         *)
(* A record here is one batch, numbered in the order the sensors produce   *)
(* them.  A session is one call of transmitLocalSensorRecords.             *)
(***************************************************************************)
EXTENDS SensorsLocal

CONSTANTS
  SendOutcomes,  \* how a network send may end: "true", "false", "throw"
  Overlap        \* whether the network is re-enabled during a session

ASSUME SessionsAssumption == Sessions \subseteq Nat
ASSUME OutcomesAssumption == SendOutcomes \subseteq {"true", "false", "throw"}

VARIABLES
  networkEnabled,  \* SensorTransmitter._networkEnabled
  produced,        \* number of records produced so far
  live,            \* records transmitSensorRecords is sending
  pc,              \* where each session is
  counter,         \* its count of records sent in this pass
  sent,            \* history: records a send of which returned true
  resent,          \* history: records sent more than once
  lostToKill       \* history: records lost with the process or a torn index

sessionVars == <<pc, counter>>
historyVars == <<sent, resent, lostToKill>>
vars == <<localVars, networkEnabled, produced, live, sessionVars, historyVars>>

PC == {"idle", "load", "await", "sending", "nack", "done"}

Init ==
  /\ LocalInit
  /\ networkEnabled = FALSE /\ produced = 0 /\ live = {}
  /\ pc = [s \in Sessions |-> "idle"] /\ counter = [s \in Sessions |-> 0]
  /\ sent = {} /\ resent = {} /\ lostToKill = {}

Delivered(r) ==
  /\ sent' = sent \cup {r} /\ resent' = resent \cup ({r} \cap sent)
  /\ UNCHANGED lostToKill

-----------------------------------------------------------------------------
(* transmitSensorRecords.                                                  *)

TransmitOffline ==
  /\ step = "idle" /\ ~networkEnabled /\ produced < MaxRecords
  /\ produced' = produced + 1
  /\ StoreToEnd(produced + 1)
  /\ UNCHANGED <<networkEnabled, live, sessionVars, historyVars>>

TransmitOnline ==
  /\ step = "idle" /\ networkEnabled /\ produced < MaxRecords
  /\ produced' = produced + 1 /\ live' = live \cup {produced + 1}
  /\ UNCHANGED <<localVars, networkEnabled, sessionVars, historyVars>>

LiveSent(r) ==
  /\ step = "idle" /\ r \in live /\ "true" \in SendOutcomes
  /\ live' = live \ {r} /\ Delivered(r)
  /\ UNCHANGED <<localVars, networkEnabled, produced, sessionVars>>

LiveFailed(r) ==
  /\ step = "idle" /\ r \in live /\ SendOutcomes \cap {"false", "throw"} # {}
  /\ live' = live \ {r} /\ StoreToEnd(r)
  /\ UNCHANGED <<networkEnabled, produced, sessionVars, historyVars>>

-----------------------------------------------------------------------------
(* SensorTransmitter.updateConfiguration, as far as the switch goes.       *)

DisableNetwork ==
  /\ step = "idle" /\ networkEnabled
  /\ networkEnabled' = FALSE
  /\ UNCHANGED <<localVars, produced, live, sessionVars, historyVars>>

(* Without a receiver's address transmitLocalSensorRecords returns at once. *)
EnableWithoutReceiver ==
  /\ step = "idle" /\ ~networkEnabled
  /\ networkEnabled' = TRUE
  /\ UNCHANGED <<localVars, produced, live, sessionVars, historyVars>>

NextSession(s) == pc[s] = "idle" /\ \A t \in Sessions : pc[t] = "idle" => s <= t

EnableNetwork(s) ==
  /\ step = "idle" /\ ~networkEnabled /\ NextSession(s)
  /\ Overlap \/ \A t \in Sessions : pc[t] \in {"idle", "done"}
  /\ networkEnabled' = TRUE
  /\ pc' = [pc EXCEPT ![s] = "load"]
  /\ UNCHANGED <<localVars, produced, live, counter, historyVars>>

-----------------------------------------------------------------------------
(* transmitLocalSensorRecords.                                             *)

StartPass(s) ==
  /\ step = "idle" /\ pc[s] = "load"
  /\ LoadFromBegin(s)
  /\ pc' = [pc EXCEPT ![s] = "await"] /\ counter' = [counter EXCEPT ![s] = 0]
  /\ UNCHANGED <<networkEnabled, produced, live, historyVars>>

StartSendUnderLock(s) ==    \* a bug: the send takes the lock its load holds
  /\ step = "idle" /\ pc[s] = "await" /\ buffer[s] # <<>> /\ lockQ = <<>>
  /\ pc' = [pc EXCEPT ![s] = "sending"]
  /\ UNCHANGED <<localVars, networkEnabled, produced, live, counter, historyVars>>

StartSend(s) ==
  /\ step = "idle" /\ pc[s] = "await" /\ buffer[s] # <<>>
  /\ pc' = [pc EXCEPT ![s] = "sending"]
  /\ UNCHANGED <<localVars, networkEnabled, produced, live, counter, historyVars>>

SendReturnsTrue(s) ==
  /\ step = "idle" /\ pc[s] = "sending" /\ "true" \in SendOutcomes
  /\ Delivered(Head(buffer[s]))
  /\ buffer' = [buffer EXCEPT ![s] = Tail(@)]
  /\ pc' = [pc EXCEPT ![s] = "await"]
  /\ counter' = [counter EXCEPT ![s] = @ + 1]
  /\ UNCHANGED <<diskVars, indexes, lockQ, cursor, stream, sectionVars,
                 networkEnabled, produced, live>>

SendCountsFailure(s) ==     \* a bug: the failed send is counted
  /\ step = "idle" /\ pc[s] = "sending" /\ "false" \in SendOutcomes
  /\ CancelStream(s)
  /\ pc' = [pc EXCEPT ![s] = "nack"]
  /\ counter' = [counter EXCEPT ![s] = @ + 1]
  /\ UNCHANGED <<diskVars, indexes, lockQ, cursor, sectionVars,
                 networkEnabled, produced, live, historyVars>>

SendReturnsFalse(s) ==
  /\ step = "idle" /\ pc[s] = "sending" /\ "false" \in SendOutcomes
  /\ CancelStream(s)
  /\ pc' = [pc EXCEPT ![s] = "nack"]
  /\ UNCHANGED <<diskVars, indexes, lockQ, cursor, sectionVars,
                 networkEnabled, produced, live, counter, historyVars>>

(* Nothing catches the exception: the session ends, its lines stay pending. *)
SendThrows(s) ==
  /\ step = "idle" /\ pc[s] = "sending" /\ "throw" \in SendOutcomes
  /\ CancelStream(s)
  /\ pc' = [pc EXCEPT ![s] = "done"]
  /\ UNCHANGED <<diskVars, indexes, lockQ, cursor, sectionVars,
                 networkEnabled, produced, live, counter, historyVars>>

(* The await for ends by `break': nAckFromBegin, not awaited.              *)
FailPass(s) ==
  /\ step = "idle" /\ pc[s] = "nack"
  /\ CallNAck(s, counter[s])
  /\ pc' = [pc EXCEPT ![s] = "done"]
  /\ UNCHANGED <<stream, buffer, networkEnabled, produced, live, counter, historyVars>>

(* The stream is closed and drained: ackFromBegin, not awaited.            *)
EndPass(s) ==
  /\ step = "idle" /\ pc[s] = "await" /\ stream[s] = "closed" /\ buffer[s] = <<>>
  /\ CallAck(s, counter[s])
  /\ pc' = [pc EXCEPT ![s] = IF counter[s] # 0 THEN "load" ELSE "done"]
  /\ UNCHANGED <<stream, buffer, networkEnabled, produced, live, counter, historyVars>>

-----------------------------------------------------------------------------
(* Death of the process.  A kill while index.json is truncated dooms every *)
(* data file: the next launch deletes them.                                *)

StoredIn(fs) == UNION {{lines[f][k] : k \in DOMAIN lines[f]} : f \in fs}

Kill ==
  /\ LocalKill
  /\ networkEnabled' = FALSE /\ live' = {}
  /\ pc' = [s \in Sessions |-> IF pc[s] = "idle" THEN "idle" ELSE "done"]
  /\ lostToKill' = lostToKill \cup live
                     \cup (IF indexTorn THEN StoredIn(files) ELSE {})
  /\ UNCHANGED <<produced, counter, sent, resent>>

-----------------------------------------------------------------------------
(* The next-state relation.                                                *)

transmitVars == <<networkEnabled, produced, live, sessionVars, historyVars>>

InitStep ==
  /\ LaunchAfterTornIndex \/ LaunchWithIndex \/ RegisterDataFile
  /\ UNCHANGED transmitVars

IndexStep ==
  /\ \/ TruncateIndex \/ WriteIndex \/ RemoveFirstIndex \/ DeleteDataFile
     \/ FinalStore \/ ReleaseLock
  /\ UNCHANGED transmitVars

LoadStep(s) ==
  /\ LoadStart(s) \/ ReadLine(s) \/ EndFile(s)
  /\ UNCHANGED transmitVars

AckStep(s) ==
  /\ RunAck(s) \/ RunNAck(s)
  /\ UNCHANGED transmitVars

SendEnds(s) == SendReturnsTrue(s) \/ SendReturnsFalse(s) \/ SendThrows(s)

SessionStep(s) ==
  StartPass(s) \/ StartSend(s) \/ SendEnds(s) \/ FailPass(s) \/ EndPass(s)

Next ==
  \/ InitStep \/ IndexStep
  \/ TransmitOffline \/ TransmitOnline
  \/ \E r \in Records : LiveSent(r) \/ LiveFailed(r)
  \/ DisableNetwork \/ EnableWithoutReceiver
  \/ \E s \in Sessions :
       EnableNetwork(s) \/ LoadStep(s) \/ AckStep(s) \/ SessionStep(s)
  \/ Kill

Spec == Init /\ [][Next]_vars

(* The event loop runs what is ready, the file system answers, and a send  *)
(* ends because connecting times out.  A load whose receiver is behind may *)
(* be paused by it, lock in hand, until the receiver has caught up.        *)
(* Nothing makes the user toggle the network, the sensors produce or the   *)
(* system launch the app.                                                  *)
Paused(s) == stream[s] = "open" /\ buffer[s] # <<>>

Fairness ==
  /\ WF_vars(RegisterDataFile /\ UNCHANGED transmitVars)
  /\ WF_vars(IndexStep)
  /\ \A s \in Sessions :
       /\ WF_vars(~Paused(s) /\ LoadStep(s))
       /\ WF_vars(AckStep(s)) /\ WF_vars(SessionStep(s))

FairSpec == Spec /\ Fairness

-----------------------------------------------------------------------------
(* Correctness.                                                            *)

TypeOK ==
  /\ LocalTypeOK
  /\ networkEnabled \in BOOLEAN
  /\ produced \in 0..MaxRecords /\ live \subseteq Records
  /\ pc \in [Sessions -> PC] /\ counter \in [Sessions -> Nat]
  /\ sent \subseteq Records /\ resent \subseteq Records
  /\ lostToKill \subseteq Records

RangeOf(list) == {list[i] : i \in DOMAIN list}

(* Records a list of indexes still promises to load.                       *)
Ahead(list) ==
  UNION {{lines[e.location][k] : k \in (e.position + 1)..Len(lines[e.location])}
         : e \in RangeOf(list)}

Held == IF step = "down" THEN Ahead(indexJson) ELSE Ahead(indexes)

(* No batch disappears: it has been sent, is being sent, is held by the    *)
(* store for a later load, or went down with a killed process (defense     *)
(* slides, Slide 7: data is not lost without internet or on network        *)
(* errors).                                                                *)
NoLoss ==
  \A r \in 1..produced : r \in sent \cup live \cup Held \cup lostToKill

(* A line is acknowledged only after a send of it returned true, whatever  *)
(* passes failed or were cut short before.                                 *)
AckedWereSent ==
  \A e \in RangeOf(indexes) \cup RangeOf(indexJson) :
    \A k \in 1..e.position :
      k <= Len(lines[e.location]) => lines[e.location][k] \in sent

(* Crash consistency of _deleteAckedDataFiles ("delete index before file") *)
(* and _init: wherever a kill strikes, index.json, when it decodes, and    *)
(* the indexes in memory name only data files that exist.                  *)
IndexedFilesExist ==
  /\ \A e \in RangeOf(indexes) : e.location \in files
  /\ ~indexTorn => \A e \in RangeOf(indexJson) : e.location \in files

(* _init has added the launch's own index.                                 *)
Initialised ==
  /\ step \notin {"down", "register"}
  /\ step \in {"truncate", "write"} => after # "register"

(* The file being appended to is the last index of a running app and is    *)
(* never marked ended, so it is never deleted and the deletion loop never  *)
(* runs off the end of the list (`first' of an empty list throws).         *)
CurrentFileKept ==
  Initialised =>
    /\ indexes # <<>>
    /\ indexes[Len(indexes)].location = launch
    /\ ~indexes[Len(indexes)].isEnd

(* Without a kill and without a failed send a batch is sent once.          *)
SentOnce == launch <= 1 => resent = {}

(* A session ends, also when its load, which holds the lock, waits for the *)
(* session to receive.                                                     *)
SessionEnds == \A s \in Sessions : pc[s] = "load" ~> pc[s] = "done"

(* With sends that succeed and sessions that do not overlap the store is a *)
(* durable outbox: see the abstract specification.                         *)
outbox == INSTANCE Outbox WITH
  accepted <- 1..produced,
  held <- live \cup (IF step = "down" /\ indexTorn THEN {} ELSE Held),
  gone <- lostToKill

ImplementsOutbox == outbox!Spec
=============================================================================
