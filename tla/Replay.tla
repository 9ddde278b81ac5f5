------------------------------- MODULE Replay -------------------------------
(***************************************************************************)
(* The collection of recorded messages and the programs around it:         *)
(* monitoring_keeper stores what comes by the topic monitoring,            *)
(* monitoring_loader sends every document again by a topic of its own, and *)
(* mobile_imitator publishes every document again as a phone would, by     *)
(* MQTT, from where it comes back by the topic monitoring.                 *)
(*                                                                         *)
(* A message of a phone is its number; a document is its place in the      *)
(* collection.  The keeper's consumer is in KafkaConsumer: here it stores  *)
(* or loses the next message.  The time at which a program starts is the   *)
(* number of starts.                                                       *)
(***************************************************************************)
EXTENDS Integers, Sequences, FiniteSets

CONSTANTS
  Recorded,     \* messages stored before any of the programs starts
  MaxMessages,  \* bound on the messages of phones
  MaxStarts,    \* bound on the runs of loader and imitator
  BatchSize,    \* documents a fetch of a cursor returns
  Processes,    \* the pool of the imitator
  ChunkFactor,  \* chunks for each process, 4 in multiprocessing
  MaxBreaks,    \* bound on MQTT links that break
  None

ASSUME BoundsAssumption == {MaxMessages, MaxStarts, MaxBreaks} \subseteq Nat
ASSUME RecordedAssumption == Recorded \in 0..MaxMessages
ASSUME BatchAssumption == BatchSize \in Nat \ {0}
ASSUME PoolAssumption == IsFiniteSet(Processes) /\ ChunkFactor \in Nat \ {0}

VARIABLES
  phones,      \* messages phones have published
  monitoring,  \* the topic monitoring: what the keeper has not taken
  documents,   \* the collection, in natural order: message and time_access
  time,        \* number of starts so far
  loader,      \* where monitoring_loader is, its start time, the documents
               \*   its cursor has fetched, whether that was the end of the
               \*   collection, cnt, and (history) the documents at the start
  buffer, stored, failed, dropped,   \* its producer: see KafkaProducer
  imitator,    \* where mobile_imitator is, its start time, the documents
               \*   listed, those handed to processes, and (history) those
               \*   published and those published on a broken link
  work,        \* for a process, the chunk in its hands and its next step
  connected,   \* for a process, whether its MQTT link is up
  breaks       \* number of links that broke

Producer == INSTANCE KafkaProducer
producerVars == <<buffer, stored, failed, dropped>>
loaderVars == <<loader, producerVars>>
imitatorVars == <<imitator, work, connected, breaks>>
vars == <<phones, monitoring, documents, time, loaderVars, imitatorVars>>

Document == [message : 1..MaxMessages, access : 0..MaxStarts]
Idle == [p \in Processes |-> None]
AllUp == [p \in Processes |-> TRUE]

Init ==
  /\ phones = Recorded /\ monitoring = <<>> /\ time = 0
  /\ documents = [d \in 1..Recorded |-> [message |-> d, access |-> 0]]
  /\ loader = [pc |-> "ended", time |-> 0, fetched |-> 0, exhausted |-> FALSE,
               count |-> 0, started |-> 0]
  /\ Producer!Init
  /\ imitator = [pc |-> "ended", time |-> 0, listed |-> 0, given |-> 0,
                 published |-> {}, unheard |-> {}]
  /\ work = Idle /\ connected = AllUp /\ breaks = 0

Smaller(m, n) == IF m < n THEN m ELSE n

-----------------------------------------------------------------------------
(* Phones, and monitoring_keeper.                                          *)

PhonePublishes ==
  /\ phones < MaxMessages
  /\ phones' = phones + 1 /\ monitoring' = Append(monitoring, phones + 1)
  /\ UNCHANGED <<documents, time, loaderVars, imitatorVars>>

(* consumer_func of the keeper.                                            *)
KeeperStores ==
  /\ monitoring # <<>>
  /\ documents' = Append(documents, [message |-> Head(monitoring), access |-> 0])
  /\ monitoring' = Tail(monitoring)
  /\ UNCHANGED <<phones, time, loaderVars, imitatorVars>>

(* insert_one raised, and was logged; or the message was lost before.      *)
KeeperLoses ==
  /\ monitoring # <<>> /\ monitoring' = Tail(monitoring)
  /\ UNCHANGED <<phones, documents, time, loaderVars, imitatorVars>>

(* update_one: time_access of a document becomes the start of the program. *)
SetAccess(d, t) == documents' = [documents EXCEPT ![d].access = t]

-----------------------------------------------------------------------------
(* monitoring_loader.                                                      *)

At(pc) == loader.pc = pc
OutsideLoader == UNCHANGED <<phones, monitoring, imitatorVars>>

(* The code lets two loaders run side by side.  They do not here: there is  *)
(* one container of it (docker-compose.yml), which starts when it ended.   *)
LoaderStarts ==
  /\ At("ended") /\ time < MaxStarts
  /\ time' = time + 1
  /\ loader' = [pc |-> "fetch", time |-> time + 1, fetched |-> 0, exhausted |-> FALSE,
                count |-> 0, started |-> Len(documents)]
  /\ OutsideLoader /\ UNCHANGED <<documents, producerVars>>

(* The next batch of the cursor; one that is not full is the last.  The    *)
(* cursor is no snapshot: it sees documents stored since it was opened.    *)
Fetch ==
  /\ At("fetch")
  /\ LET upTo == Smaller(loader.fetched + BatchSize, Len(documents))
     IN loader' = [loader EXCEPT
          !.fetched = upTo, !.exhausted = loader.fetched + BatchSize > Len(documents),
          !.pc = IF loader.fetched < upTo THEN "send" ELSE "flush"]
  /\ OutsideLoader /\ UNCHANGED <<documents, time, producerVars>>

(* The document in hand, and what is sent of it.                           *)
Current == loader.count + 1
Replayed(d, t) == [document |-> d, time |-> t]

LoaderSends ==
  /\ At("send")
  /\ Producer!Send(Replayed(Current, loader.time))
  /\ loader' = [loader EXCEPT !.pc = "mark"]
  /\ OutsideLoader /\ UNCHANGED <<documents, time>>

AfterDocument ==
  IF Current < loader.fetched THEN "send"
  ELSE IF loader.exhausted THEN "flush" ELSE "fetch"

LoaderMarksNext ==          \* a bug: marks a document it has not sent
  /\ At("mark")
  /\ SetAccess(Smaller(Current + 1, Len(documents)), loader.time)
  /\ loader' = [loader EXCEPT !.count = Current, !.pc = AfterDocument]
  /\ OutsideLoader /\ UNCHANGED <<time, producerVars>>

LoaderMarks ==
  /\ At("mark")
  /\ SetAccess(Current, loader.time)
  /\ loader' = [loader EXCEPT !.count = Current, !.pc = AfterDocument]
  /\ OutsideLoader /\ UNCHANGED <<time, producerVars>>

FlushDoesNotWait ==         \* a bug: flush is not called
  /\ At("flush")
  /\ loader' = [loader EXCEPT !.pc = "done"]
  /\ OutsideLoader /\ UNCHANGED <<documents, time, producerVars>>

FlushWaitsForDelivery ==    \* a bug: waits for messages that failed
  /\ At("flush") /\ Producer!Flushed
  /\ \A d \in 1..loader.count : Replayed(d, loader.time) \in Producer!Elements(stored)
  /\ loader' = [loader EXCEPT !.pc = "done"]
  /\ OutsideLoader /\ UNCHANGED <<documents, time, producerVars>>

(* producer.flush(); the loader then says that it has succeeded.           *)
Flush ==
  /\ At("flush") /\ Producer!Flushed
  /\ loader' = [loader EXCEPT !.pc = "done"]
  /\ OutsideLoader /\ UNCHANGED <<documents, time, producerVars>>

(* The end of the program, or anywhere before it an exception or a kill.   *)
LoaderEnds ==
  /\ ~At("ended")
  /\ loader' = [loader EXCEPT !.pc = "ended", !.fetched = 0, !.exhausted = FALSE,
                               !.count = 0, !.started = 0]
  /\ Producer!End
  /\ OutsideLoader /\ UNCHANGED <<documents, time>>

Sender ==
  /\ Producer!Sender
  /\ OutsideLoader /\ UNCHANGED <<documents, time, loader>>

-----------------------------------------------------------------------------
(* mobile_imitator.                                                        *)

OutsideImitator == UNCHANGED <<phones, loaderVars>>

ImitatorStarts ==
  /\ imitator.pc = "ended" /\ time < MaxStarts
  /\ time' = time + 1
  /\ imitator' = [pc |-> "list", time |-> time + 1, listed |-> 0, given |-> 0,
                  published |-> {}, unheard |-> {}]
  /\ OutsideImitator /\ UNCHANGED <<monitoring, documents, work, connected, breaks>>

(* pool.map makes a list of the cursor before it gives anything away.      *)
List ==
  /\ imitator.pc = "list"
  /\ imitator' = [imitator EXCEPT
       !.listed = Smaller(@ + BatchSize, Len(documents)),
       !.pc = IF imitator.listed + BatchSize > Len(documents) THEN "map" ELSE "list"]
  /\ OutsideImitator /\ UNCHANGED <<monitoring, documents, time, work, connected, breaks>>

Cut == ChunkFactor * Cardinality(Processes)
ChunkSize == (imitator.listed + Cut - 1) \div Cut

(* A process takes its next chunk, which ends at upTo.                     *)
Take(p, upTo, step) ==
  /\ imitator.pc = "map" /\ work[p] = None /\ imitator.given < upTo
  /\ work' = [work EXCEPT ![p] = [document |-> imitator.given + 1, last |-> upTo,
                                  step |-> step]]
  /\ imitator' = [imitator EXCEPT !.given = upTo]
  /\ OutsideImitator /\ UNCHANGED <<monitoring, documents, time, connected, breaks>>

TakeChunkToMark(p) ==       \* a bug: the document is marked and not published
  Take(p, Smaller(imitator.given + ChunkSize, imitator.listed), "mark")

TakeChunk(p) ==
  Take(p, Smaller(imitator.given + ChunkSize, imitator.listed), "publish")

(* mqtt_client.publish.  A message lost on its way to the topic is as one  *)
(* the keeper loses.                                                       *)
Publishing(p) ==
  /\ work[p] # None /\ work[p].step = "publish"
  /\ work' = [work EXCEPT ![p].step = "mark"]
  /\ OutsideImitator /\ UNCHANGED <<documents, time>>

ImitatorPublishes(p) ==
  LET d == work[p].document
  IN /\ Publishing(p) /\ connected[p]
     /\ imitator' = [imitator EXCEPT !.published = @ \cup {d}]
     /\ monitoring' = Append(monitoring, documents[d].message)
     /\ UNCHANGED <<connected, breaks>>

(* The link has broken: what publish returns is ignored, and as nothing    *)
(* runs the loop of the client, nothing connects it again.                 *)
ImitatorPublishesNothing(p) ==
  /\ Publishing(p)
  /\ \/ ~connected[p] /\ UNCHANGED <<connected, breaks>>
     \/ /\ connected[p] /\ breaks < MaxBreaks
        /\ connected' = [connected EXCEPT ![p] = FALSE] /\ breaks' = breaks + 1
  /\ imitator' = [imitator EXCEPT !.unheard = @ \cup {work[p].document}]
  /\ UNCHANGED monitoring

AfterChunkStep(w) ==
  IF w.document < w.last
  THEN [w EXCEPT !.document = @ + 1, !.step = "publish"] ELSE None

ImitatorMarks(p) ==
  /\ work[p] # None /\ work[p].step = "mark"
  /\ SetAccess(work[p].document, imitator.time)
  /\ work' = [work EXCEPT ![p] = AfterChunkStep(@)]
  /\ OutsideImitator /\ UNCHANGED <<monitoring, time, imitator, connected, breaks>>

(* A document is not converted, or the collection does not answer: the     *)
(* rest of the chunk is given up.                                          *)
ProcessRaises(p) ==
  /\ work[p] # None
  /\ work' = [work EXCEPT ![p] = None]
  /\ OutsideImitator
  /\ UNCHANGED <<monitoring, documents, time, imitator, connected, breaks>>

(* The end of map, with or without the exception of a process, or a kill.  *)
ImitatorEnds ==
  /\ imitator.pc # "ended"
  /\ imitator' = [imitator EXCEPT !.pc = "ended"]
  /\ work' = Idle /\ connected' = AllUp
  /\ OutsideImitator /\ UNCHANGED <<monitoring, documents, time, breaks>>

-----------------------------------------------------------------------------
LoaderStep == Fetch \/ LoaderSends \/ LoaderMarks \/ Flush
ProcessStep(p) ==
  \/ TakeChunk(p) \/ ImitatorPublishes(p) \/ ImitatorPublishesNothing(p)
  \/ ImitatorMarks(p) \/ ProcessRaises(p)

Next ==
  \/ PhonePublishes \/ KeeperStores \/ KeeperLoses
  \/ LoaderStarts \/ LoaderStep \/ Sender \/ LoaderEnds
  \/ ImitatorStarts \/ List \/ ImitatorEnds
  \/ \E p \in Processes : ProcessStep(p)

Spec == Init /\ [][Next]_vars

(* The loader runs, and the sender thread of its producer.                 *)
FairSpec == Spec /\ WF_vars(LoaderStep) /\ WF_vars(Sender)

-----------------------------------------------------------------------------
(* Every variable keeps its type.                                          *)
TypeOK ==
  /\ phones \in 0..MaxMessages /\ monitoring \in Seq(1..MaxMessages)
  /\ documents \in Seq(Document) /\ time \in 0..MaxStarts
  /\ loader \in [pc : {"ended", "fetch", "send", "mark", "flush", "done"},
                 time : 0..MaxStarts, fetched : 0..Len(documents),
                 exhausted : BOOLEAN, count : 0..loader.fetched,
                 started : 0..Len(documents)]
  /\ imitator.pc \in {"ended", "list", "map"} /\ imitator.time \in 0..MaxStarts
  /\ imitator.given <= imitator.listed /\ imitator.listed <= Len(documents)
  /\ connected \in [Processes -> BOOLEAN] /\ breaks \in 0..MaxBreaks

(* What a run of the loader has sent comes in the order of the collection, *)
(* no document twice, and not mixed with another run, although documents   *)
(* are stored while its cursor is open and messages fail.                  *)
ReplayedInOrder ==
  LET sent == stored \o buffer
  IN \A i, j \in DOMAIN sent : i < j =>
       \/ sent[i].time < sent[j].time
       \/ sent[i].time = sent[j].time /\ sent[i].document < sent[j].document

(* When the loader says that it has succeeded, it has done every document  *)
(* there was when it started, cnt of them, and each was delivered or has   *)
(* failed: none waits in the buffer that ends with the process.            *)
SuccessIsComplete ==
  At("done") =>
    /\ loader.started <= loader.count
    /\ \A d \in 1..loader.count :
         Replayed(d, loader.time) \in Producer!Elements(stored) \cup failed

(* A document with the time of a run of the loader was sent in it: it is   *)
(* delivered, in the buffer, failed, or went with the process.             *)
AccessedWasSent ==
  \A d \in DOMAIN documents :
    documents[d].access = loader.time /\ loader.time > 0 =>
      Replayed(d, loader.time) \in
        Producer!Elements(stored) \cup Producer!Elements(buffer) \cup failed \cup dropped

(* A document with the time of a run of the imitator was published, unless *)
(* the link of a process had broken.                                       *)
AccessedWasPublished ==
  \A d \in DOMAIN documents :
    documents[d].access = imitator.time /\ imitator.time > 0 =>
      d \in imitator.published \/ (d \in imitator.unheard /\ breaks > 0)

(* A run of the loader ends, whatever fails and however the collection     *)
(* grows meanwhile.                                                        *)
LoaderFinishes == loader.pc = "fetch" ~> loader.pc \in {"done", "ended"}
=============================================================================
