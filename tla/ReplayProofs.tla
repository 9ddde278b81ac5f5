---------------------------- MODULE ReplayProofs ----------------------------
(***************************************************************************)
(* What is proved of the programs that replay recorded messages: the order *)
(* of a replay, and what time_access and the loader's success tell, for    *)
(* any number of messages, starts, processes and broken links.             *)
(*                                                                         *)
(* The order is kept because nothing on the topic or in the buffer is      *)
(* ahead of the loader, whose time is later than that of any run before    *)
(* it.  A mark tells of one program only because no two starts have the    *)
(* same time, and says what happened because the loader has sent, and a    *)
(* process has published or failed to, all that it is about to mark.       *)
(***************************************************************************)
EXTENDS Replay, SequenceTheorems, FiniteSetTheorems, TLAPS

Sending == [document : Nat, time : Nat]

Chunk == [document : Nat, last : Nat, step : {"publish", "mark"}]

Imitator ==
  [pc : {"ended", "list", "map"}, time : 0..MaxStarts, listed : Nat, given : Nat,
   published : SUBSET Nat, unheard : SUBSET Nat]

Types ==
  /\ TypeOK
  /\ loader.fetched \in Nat /\ loader.count \in Nat /\ loader.started \in Nat
  /\ buffer \in Seq(Sending) /\ stored \in Seq(Sending)
  /\ imitator \in Imitator /\ work \in [Processes -> Chunk \cup {None}]

(* Every start has a time of its own, later than all that came before.     *)
Clocks ==
  /\ loader.time <= time /\ imitator.time <= time
  /\ loader.time = imitator.time => loader.time = 0
  /\ \A d \in DOMAIN documents : documents[d].access <= time

(* Where the loader is in the collection.                                  *)
PlaceOK ==
  /\ At("fetch") => loader.count = loader.fetched /\ ~loader.exhausted
  /\ At("send") \/ At("mark") => loader.count < loader.fetched
  /\ At("flush") \/ At("done") => loader.exhausted /\ loader.count = loader.fetched
  /\ loader.exhausted => loader.started <= loader.fetched
  /\ At("ended") => loader.count = 0
  /\ At("ended") \/ At("done") => buffer = <<>>

(* The documents this run of the loader has sent.                          *)
Sent == IF At("mark") THEN Current ELSE loader.count

Alive == Producer!Elements(stored) \cup Producer!Elements(buffer) \cup failed

SentAreAlive == \A d \in 1..Sent : Replayed(d, loader.time) \in Alive

Earlier(m, n) == m.time < n.time \/ (m.time = n.time /\ m.document < n.document)

(* The topic and, after it, the buffer are in order, and nothing is ahead  *)
(* of the loader.                                                          *)
InOrder ==
  /\ \A i, j \in DOMAIN stored : i < j => Earlier(stored[i], stored[j])
  /\ \A i, j \in DOMAIN buffer : i < j => Earlier(buffer[i], buffer[j])
  /\ \A i \in DOMAIN stored : \A j \in DOMAIN buffer : Earlier(stored[i], buffer[j])

NotAhead(m) ==
  m.time <= loader.time /\ (m.time = loader.time /\ ~At("ended") => m.document <= Sent)

NoneAhead ==
  /\ \A i \in DOMAIN stored : NotAhead(stored[i])
  /\ \A i \in DOMAIN buffer : NotAhead(buffer[i])

(* A document was published, or on a link that had broken.                 *)
Told(d) == d \in imitator.published \/ (d \in imitator.unheard /\ breaks > 0)

ImitatorOK ==
  /\ \A p \in Processes : ~connected[p] => breaks > 0
  /\ \A p \in Processes : work[p] # None =>
       /\ imitator.pc = "map"
       /\ 1 <= work[p].document /\ work[p].document <= work[p].last
       /\ work[p].last <= imitator.given
       /\ work[p].step = "mark" => Told(work[p].document)

IInv ==
  /\ Types /\ Clocks /\ PlaceOK /\ SentAreAlive /\ InOrder /\ NoneAhead /\ ImitatorOK
  /\ AccessedWasSent /\ AccessedWasPublished

USE BoundsAssumption, RecordedAssumption, BatchAssumption

-----------------------------------------------------------------------------
(* The messages of a queue that grows at its end or shrinks at its head.   *)

LEMMA Appended ==
  ASSUME NEW s \in Seq(Sending), NEW e \in Sending, NEW t, t = Append(s, e)
  PROVE  /\ t \in Seq(Sending) /\ DOMAIN t = DOMAIN s \cup {Len(s) + 1}
         /\ \A i \in DOMAIN s : t[i] = s[i] /\ i <= Len(s)
         /\ t[Len(s) + 1] = e
         /\ Producer!Elements(t) = Producer!Elements(s) \cup {e}
  <1>1. /\ t \in Seq(Sending) /\ DOMAIN t = DOMAIN s \cup {Len(s) + 1}
        /\ \A i \in DOMAIN s : t[i] = s[i] /\ i <= Len(s)
        /\ t[Len(s) + 1] = e
    OBVIOUS
  <1> QED BY <1>1 DEF Producer!Elements

LEMMA HeadTaken ==
  ASSUME NEW s \in Seq(Sending), s # <<>>, NEW t, t = Tail(s)
  PROVE  /\ t \in Seq(Sending) /\ Head(s) = s[1] /\ 1 \in DOMAIN s /\ Head(s) \in Sending
         /\ \A i \in DOMAIN t : i + 1 \in DOMAIN s /\ t[i] = s[i + 1]
         /\ Producer!Elements(s) = {Head(s)} \cup Producer!Elements(t)
  <1>1. /\ t \in Seq(Sending) /\ Head(s) = s[1] /\ 1 \in DOMAIN s /\ Head(s) \in Sending
        /\ \A i \in DOMAIN t : i + 1 \in DOMAIN s /\ t[i] = s[i + 1]
        /\ \A i \in DOMAIN s : i = 1 \/ (i - 1 \in DOMAIN t /\ s[i] = t[i - 1])
    OBVIOUS
  <1>2. ASSUME NEW e \in Producer!Elements(s)
        PROVE  e \in {Head(s)} \cup Producer!Elements(t)
    <2>1. PICK i \in DOMAIN s : e = s[i]
      BY DEF Producer!Elements
    <2>2. CASE i = 1
      BY <1>1, <2>1, <2>2
    <2>3. CASE i - 1 \in DOMAIN t /\ s[i] = t[i - 1]
      BY <2>1, <2>3 DEF Producer!Elements
    <2> QED BY <1>1, <2>2, <2>3
  <1>3. ASSUME NEW e \in {Head(s)} \cup Producer!Elements(t)
        PROVE  e \in Producer!Elements(s)
    BY <1>1 DEF Producer!Elements
  <1> QED BY <1>1, <1>2, <1>3

(* What an update of time_access leaves alone.                             *)
LEMMA AccessSet ==
  ASSUME documents \in Seq(Document), NEW d \in DOMAIN documents,
         NEW t \in 0..MaxStarts, SetAccess(d, t)
  PROVE  /\ documents' \in Seq(Document) /\ Len(documents') = Len(documents)
         /\ DOMAIN documents' = DOMAIN documents
         /\ \A e \in DOMAIN documents :
              documents'[e].access = IF e = d THEN t ELSE documents[e].access
  <1> DEFINE new == [documents[d] EXCEPT !.access = t]
  <1>1. documents' = [documents EXCEPT ![d] = new]
    BY DEF SetAccess
  <1>2. new \in Document /\ new.access = t
    <2>1. documents[d] \in Document
      OBVIOUS
    <2> QED BY <2>1 DEF Document
  <1> HIDE DEF new
  <1> QED BY <1>1, <1>2

(* A document is in the hands of the loader while it is not done.          *)
LEMMA CurrentExists ==
  ASSUME Types, PlaceOK, At("send") \/ At("mark")
  PROVE  /\ Current \in DOMAIN documents /\ Current <= loader.fetched
         /\ Current \in Nat /\ loader.fetched <= Len(documents)
         /\ loader.time \in 0..MaxStarts
  BY DEF Types, TypeOK, PlaceOK, At, Current

(* The type of the loader, with its bounds apart.                          *)
Loader ==
  [pc : {"ended", "fetch", "send", "mark", "flush", "done"}, time : 0..MaxStarts,
   fetched : Nat, exhausted : BOOLEAN, count : Nat, started : Nat]

LEMMA LoaderTyped ==
  ASSUME NEW l, NEW n \in Nat
  PROVE  l \in [pc : {"ended", "fetch", "send", "mark", "flush", "done"},
                time : 0..MaxStarts, fetched : 0..n, exhausted : BOOLEAN,
                count : 0..l.fetched, started : 0..n]
         <=> l \in Loader /\ l.count <= l.fetched /\ l.fetched <= n /\ l.started <= n
  BY DEF Loader

(* TypeOK of a state is that of its parts.                                 *)
LEMMA TypesTaken ==
  ASSUME Types
  PROVE  /\ loader \in Loader /\ loader.count <= loader.fetched
         /\ loader.fetched <= Len(documents) /\ loader.started <= Len(documents)
         /\ Len(documents) \in Nat /\ DOMAIN documents = 1..Len(documents)
         /\ documents \in Seq(Document)
         /\ phones \in 0..MaxMessages /\ monitoring \in Seq(1..MaxMessages)
         /\ time \in 0..MaxStarts
         /\ buffer \in Seq(Sending) /\ stored \in Seq(Sending)
         /\ imitator \in Imitator /\ imitator.given <= imitator.listed
         /\ imitator.listed <= Len(documents)
         /\ work \in [Processes -> Chunk \cup {None}]
         /\ connected \in [Processes -> BOOLEAN] /\ breaks \in 0..MaxBreaks
  <1>1. documents \in Seq(Document)
    BY DEF Types, TypeOK
  <1>2. Len(documents) \in Nat /\ DOMAIN documents = 1..Len(documents)
    BY <1>1
  <1> QED BY <1>1, <1>2, LoaderTyped DEF Types, TypeOK

LEMMA TypesGiven ==
  ASSUME phones' \in 0..MaxMessages, monitoring' \in Seq(1..MaxMessages),
         documents' \in Seq(Document), time' \in 0..MaxStarts,
         loader' \in Loader, loader'.count <= loader'.fetched,
         loader'.fetched <= Len(documents'), loader'.started <= Len(documents'),
         buffer' \in Seq(Sending), stored' \in Seq(Sending),
         imitator' \in Imitator, imitator'.given <= imitator'.listed,
         imitator'.listed <= Len(documents'),
         work' \in [Processes -> Chunk \cup {None}],
         connected' \in [Processes -> BOOLEAN], breaks' \in 0..MaxBreaks
  PROVE  Types'
  <1>1. Len(documents') \in Nat
    OBVIOUS
  <1>2. loader' \in [pc : {"ended", "fetch", "send", "mark", "flush", "done"},
                     time : 0..MaxStarts, fetched : 0..Len(documents'),
                     exhausted : BOOLEAN, count : 0..loader'.fetched,
                     started : 0..Len(documents')]
    BY <1>1, LoaderTyped
  <1>3. /\ imitator'.pc \in {"ended", "list", "map"}
        /\ imitator'.time \in 0..MaxStarts
    BY DEF Imitator
  <1>4. TypeOK'
    BY <1>2, <1>3 DEF TypeOK
  <1>5. loader'.fetched \in Nat /\ loader'.count \in Nat /\ loader'.started \in Nat
    BY DEF Loader
  <1> QED BY <1>4, <1>5 DEF Types

-----------------------------------------------------------------------------
LEMMA Initially == Init => IInv
  <1> SUFFICES ASSUME Init PROVE IInv
    OBVIOUS
  <1> USE DEF Init, Producer!Init, At
  <1>1. Types
    <2>1. documents \in Seq(Document)
      BY DEF Document
    <2>2. TypeOK
      BY <2>1 DEF TypeOK, AllUp
    <2>3. imitator \in Imitator
      BY DEF Imitator
    <2> QED BY <2>2, <2>3 DEF Types, Idle
  <1>2. Clocks /\ PlaceOK
    BY DEF Clocks, PlaceOK
  <1>3. SentAreAlive /\ InOrder /\ NoneAhead
    BY DEF SentAreAlive, InOrder, NoneAhead, Sent
  <1>4. ImitatorOK /\ AccessedWasSent /\ AccessedWasPublished
    BY DEF ImitatorOK, AccessedWasSent, AccessedWasPublished, Idle, AllUp
  <1> QED BY <1>1, <1>2, <1>3, <1>4 DEF IInv

-----------------------------------------------------------------------------
(* Phones and the keeper: messages come, and documents are added at the    *)
(* end, where no cursor has been.                                          *)

LEMMA MonitoringMoves ==
  ASSUME IInv, monitoring' \in Seq(1..MaxMessages), phones' \in 0..MaxMessages,
         UNCHANGED <<documents, time, loaderVars, imitatorVars>>
  PROVE  IInv'
  <1> USE DEF loaderVars, producerVars, imitatorVars, At
  <1>1. Types'
    BY DEF IInv, Types, TypeOK
  <1>2. Clocks' /\ PlaceOK'
    BY DEF IInv, Clocks, PlaceOK
  <1>3. SentAreAlive' /\ InOrder' /\ NoneAhead'
    BY DEF IInv, SentAreAlive, InOrder, NoneAhead, NotAhead, Sent, Current, Alive,
           Producer!Elements, Earlier
  <1>4. ImitatorOK' /\ AccessedWasSent' /\ AccessedWasPublished'
    BY DEF IInv, ImitatorOK, AccessedWasSent, AccessedWasPublished, Told,
           Producer!Elements
  <1> QED BY <1>1, <1>2, <1>3, <1>4 DEF IInv

LEMMA DocumentStored ==
  ASSUME IInv, KeeperStores
  PROVE  IInv'
  <1> USE DEF KeeperStores, loaderVars, producerVars, imitatorVars, At
  <1> DEFINE new == [message |-> Head(monitoring), access |-> 0]
  <1>1. new \in Document /\ new.access = 0 /\ monitoring' \in Seq(1..MaxMessages)
    <2>1. monitoring \in Seq(1..MaxMessages) /\ monitoring # <<>>
      BY DEF IInv, Types, TypeOK
    <2> QED BY <2>1 DEF Document
  <1>2. documents \in Seq(Document) /\ documents' = Append(documents, new)
    BY DEF IInv, Types, TypeOK
  <1> HIDE DEF new
  <1>3. /\ documents' \in Seq(Document) /\ Len(documents') = Len(documents) + 1
        /\ Len(documents) \in Nat
        /\ \A d \in DOMAIN documents' : documents'[d].access = 0
             \/ (d \in DOMAIN documents /\ documents'[d] = documents[d])
    BY <1>1, <1>2
  <1>4. Types'
    <2>1. /\ loader.fetched <= Len(documents') /\ loader.started <= Len(documents')
          /\ imitator.listed <= Len(documents')
      <3> DEFINE n == Len(documents)
                 m == Len(documents')
      <3>1. /\ loader.fetched <= n /\ loader.started <= n /\ imitator.listed <= n
            /\ loader.fetched \in Nat /\ loader.started \in Nat /\ imitator.listed \in Nat
        BY TypesTaken DEF IInv, Loader, Imitator
      <3>2. m = n + 1 /\ n \in Nat
        BY <1>3
      <3> HIDE DEF n, m
      <3>3. loader.fetched <= m /\ loader.started <= m /\ imitator.listed <= m
        BY <3>1, <3>2
      <3> QED BY <3>3 DEF m
    <2>2. UNCHANGED <<phones, time, loader, buffer, stored, imitator, work, connected,
                      breaks>>
      OBVIOUS
    <2>3. /\ phones' \in 0..MaxMessages /\ time' \in 0..MaxStarts
          /\ loader' \in Loader /\ loader'.count <= loader'.fetched
          /\ buffer' \in Seq(Sending) /\ stored' \in Seq(Sending)
          /\ imitator' \in Imitator /\ imitator'.given <= imitator'.listed
          /\ work' \in [Processes -> Chunk \cup {None}]
          /\ connected' \in [Processes -> BOOLEAN] /\ breaks' \in 0..MaxBreaks
      BY <2>2, TypesTaken DEF IInv
    <2>4. /\ loader'.fetched <= Len(documents') /\ loader'.started <= Len(documents')
          /\ imitator'.listed <= Len(documents')
      BY <2>1, <2>2
    <2> QED BY <1>1, <1>3, <2>3, <2>4, TypesGiven
  <1>5. Clocks'
    <2>1. time \in Nat /\ Clocks
      BY DEF IInv, Types, TypeOK
    <2>2. ASSUME NEW d \in DOMAIN documents'
          PROVE  documents'[d].access <= time
      <3>1. CASE documents'[d].access = 0
        BY <2>1, <3>1
      <3>2. CASE d \in DOMAIN documents /\ documents'[d] = documents[d]
        BY <2>1, <3>2 DEF Clocks
      <3> QED BY <1>3, <3>1, <3>2
    <2> QED BY <2>1, <2>2 DEF Clocks
  <1>6. PlaceOK'
    BY DEF IInv, PlaceOK
  <1>7. SentAreAlive' /\ InOrder' /\ NoneAhead'
    BY DEF IInv, SentAreAlive, InOrder, NoneAhead, NotAhead, Sent, Current, Alive,
           Producer!Elements, Earlier
  <1>8. ImitatorOK'
    BY DEF IInv, ImitatorOK, Told
  <1>9. ASSUME NEW d \in DOMAIN documents', NEW t, t > 0, t \in Nat,
               documents'[d].access = t
        PROVE  d \in DOMAIN documents /\ documents[d].access = t
    BY <1>3, <1>9
  <1>10. loader.time \in Nat /\ imitator.time \in Nat
    BY DEF IInv, Types, TypeOK
  <1>11. AccessedWasSent'
    <2> SUFFICES ASSUME NEW d \in DOMAIN documents',
                        documents'[d].access = loader.time, loader.time > 0
                 PROVE  (Replayed(d, loader.time) \in Alive \cup dropped)'
      BY DEF AccessedWasSent, Alive
    <2>1. Replayed(d, loader.time) \in Alive \cup dropped
      BY <1>9, <1>10 DEF IInv, AccessedWasSent, Alive
    <2> QED BY <2>1 DEF Alive, Replayed, Producer!Elements
  <1>12. AccessedWasPublished'
    <2> SUFFICES ASSUME NEW d \in DOMAIN documents',
                        documents'[d].access = imitator.time, imitator.time > 0
                 PROVE  Told(d)'
      BY DEF AccessedWasPublished, Told
    <2>1. Told(d)
      BY <1>9, <1>10 DEF IInv, AccessedWasPublished, Told
    <2> QED BY <2>1 DEF Told
  <1> QED BY <1>4, <1>5, <1>6, <1>7, <1>8, <1>11, <1>12 DEF IInv

LEMMA StepOfCollection ==
  ASSUME IInv, PhonePublishes \/ KeeperStores \/ KeeperLoses
  PROVE  IInv'
  <1>1. monitoring \in Seq(1..MaxMessages) /\ phones \in 0..MaxMessages
    BY DEF IInv, Types, TypeOK
  <1>2. CASE PhonePublishes
    <2>1. monitoring' \in Seq(1..MaxMessages) /\ phones' \in 0..MaxMessages
      BY <1>1, <1>2 DEF PhonePublishes
    <2> QED BY <1>2, <2>1, MonitoringMoves DEF PhonePublishes
  <1>3. CASE KeeperLoses
    <2>1. monitoring' \in Seq(1..MaxMessages) /\ phones' \in 0..MaxMessages
      BY <1>1, <1>3 DEF KeeperLoses
    <2> QED BY <1>3, <2>1, MonitoringMoves DEF KeeperLoses
  <1> QED BY <1>2, <1>3, DocumentStored

-----------------------------------------------------------------------------
(* The loader.  What it leaves alone:                                      *)

LEMMA ImitatorAside ==
  ASSUME IInv, UNCHANGED imitatorVars
  PROVE  ImitatorOK' /\ (documents' = documents => AccessedWasPublished')
  BY DEF IInv, ImitatorOK, AccessedWasPublished, Told, imitatorVars

LEMMA QueuesAside ==
  ASSUME IInv, UNCHANGED producerVars
  PROVE  /\ InOrder' /\ Alive' = Alive /\ dropped' = dropped
         /\ Producer!Elements(stored)' = Producer!Elements(stored)
         /\ Producer!Elements(buffer)' = Producer!Elements(buffer)
  BY DEF IInv, InOrder, Earlier, Alive, producerVars, Producer!Elements

LEMMA LoaderStartsSafe ==
  ASSUME IInv, LoaderStarts
  PROVE  IInv'
  <1> USE DEF LoaderStarts, OutsideLoader, At
  <1>1. Types'
    <2>1. UNCHANGED <<phones, monitoring, documents, buffer, stored, imitator, work,
                      connected, breaks>>
      BY DEF producerVars, imitatorVars
    <2>2. time' \in 0..MaxStarts /\ time' = time + 1 /\ time \in Nat
      BY TypesTaken DEF IInv
    <2>3. loader' \in Loader /\ loader'.count <= loader'.fetched
      BY <2>2, TypesTaken DEF IInv, Loader
    <2>4. loader'.fetched <= Len(documents) /\ loader'.started <= Len(documents)
      BY TypesTaken DEF IInv
    <2> QED BY <2>1, <2>2, <2>3, <2>4, TypesTaken, TypesGiven DEF IInv
  <1>2. /\ time' = time + 1 /\ loader'.time = time + 1 /\ loader'.pc = "fetch"
        /\ loader'.count = 0 /\ loader'.fetched = 0 /\ ~loader'.exhausted
        /\ documents' = documents /\ imitator' = imitator /\ UNCHANGED producerVars
    BY DEF imitatorVars
  <1>3. time \in Nat /\ loader.time \in Nat /\ imitator.time \in Nat
    BY TypesTaken DEF IInv, Loader, Imitator
  <1>4. \A d \in DOMAIN documents :
          documents[d].access \in Nat /\ documents[d].access <= time
    <2>1. ASSUME NEW d \in DOMAIN documents
          PROVE  documents[d] \in Document /\ documents[d].access \in Nat
      <3>1. documents[d] \in Document
        BY TypesTaken DEF IInv
      <3> QED BY <3>1 DEF Document
    <2> QED BY <2>1 DEF IInv, Clocks
  <1>5. Clocks'
    BY <1>2, <1>3, <1>4 DEF IInv, Clocks
  <1>6. PlaceOK'
    BY <1>2 DEF PlaceOK
  <1>7. SentAreAlive'
    BY <1>2 DEF SentAreAlive, Sent
  <1>8. NoneAhead'
    <2>1. ASSUME NEW m \in Sending, NotAhead(m)
          PROVE  m.time <= time + 1 /\ m.time # time + 1
      BY <1>3, <2>1 DEF IInv, Clocks, NotAhead, Sending
    <2>2. /\ \A i \in DOMAIN stored : stored[i] \in Sending
          /\ \A i \in DOMAIN buffer : buffer[i] \in Sending
      BY TypesTaken DEF IInv
    <2>3. UNCHANGED <<stored, buffer>>
      BY <1>2 DEF producerVars
    <2> QED BY <1>2, <2>1, <2>2, <2>3 DEF IInv, NoneAhead, NotAhead
  <1>9. AccessedWasSent'
    BY <1>2, <1>3, <1>4 DEF AccessedWasSent
  <1> QED BY <1>1, <1>2, <1>5, <1>6, <1>7, <1>8, <1>9, QueuesAside, ImitatorAside
          DEF IInv

LEMMA FetchSafe ==
  ASSUME IInv, Fetch
  PROVE  IInv'
  <1> USE DEF Fetch, OutsideLoader, At
  <1>1. /\ loader \in Loader /\ loader.fetched <= Len(documents)
        /\ loader.started <= Len(documents) /\ Len(documents) \in Nat
        /\ loader.count = loader.fetched /\ loader.pc = "fetch"
    BY TypesTaken DEF IInv, PlaceOK
  <1> DEFINE upTo == Smaller(loader.fetched + BatchSize, Len(documents))
             all == loader.fetched + BatchSize > Len(documents)
  <1>2. /\ upTo \in Nat /\ loader.fetched <= upTo /\ upTo <= Len(documents)
        /\ all => upTo = Len(documents)
        /\ upTo <= loader.fetched => all /\ upTo = loader.fetched
        /\ all \in BOOLEAN
    BY <1>1 DEF Loader, Smaller
  <1>3. loader' = [loader EXCEPT !.fetched = upTo, !.exhausted = all,
                     !.pc = IF loader.fetched < upTo THEN "send" ELSE "flush"]
    OBVIOUS
  <1> HIDE DEF upTo, all
  <1>4. /\ loader' \in Loader /\ loader'.fetched = upTo /\ loader'.exhausted = all
        /\ UNCHANGED <<loader.time, loader.count, loader.started>>
        /\ loader'.pc = IF loader.fetched < upTo THEN "send" ELSE "flush"
    BY <1>1, <1>2, <1>3 DEF Loader
  <1>5. UNCHANGED <<phones, monitoring, documents, time, buffer, stored, failed, dropped,
                    imitator, work, connected, breaks>>
    BY DEF producerVars, imitatorVars
  <1>6. Types'
    BY <1>1, <1>2, <1>4, <1>5, TypesTaken, TypesGiven DEF IInv, Loader
  <1>7. Clocks'
    BY <1>4, <1>5 DEF IInv, Clocks
  <1>8. PlaceOK'
    BY <1>1, <1>2, <1>4, <1>5 DEF PlaceOK, Loader
  <1>9. Sent' = Sent /\ loader'.time = loader.time /\ loader'.pc # "ended"
    BY <1>1, <1>4 DEF Sent
  <1>10. SentAreAlive' /\ NoneAhead'
    BY <1>1, <1>5, <1>9, QueuesAside
       DEF IInv, SentAreAlive, NoneAhead, NotAhead, producerVars, Replayed
  <1>11. AccessedWasSent'
    BY <1>5, <1>9 DEF IInv, AccessedWasSent, Producer!Elements, Replayed
  <1> QED BY <1>5, <1>6, <1>7, <1>8, <1>10, <1>11, QueuesAside, ImitatorAside
          DEF IInv, producerVars, imitatorVars

LEMMA LoaderSendsSafe ==
  ASSUME IInv, LoaderSends
  PROVE  IInv'
  <1> USE DEF At
  <1>1. /\ loader \in Loader /\ loader.pc = "send" /\ loader.count < loader.fetched
        /\ loader.fetched <= Len(documents) /\ loader.started <= Len(documents)
        /\ loader.time \in Nat /\ loader.count \in Nat
    BY TypesTaken DEF IInv, PlaceOK, LoaderSends, Loader
  <1>2. /\ loader' = [loader EXCEPT !.pc = "mark"]
        /\ buffer' = Append(buffer, Replayed(Current, loader.time))
        /\ UNCHANGED <<phones, monitoring, documents, time, stored, failed, dropped,
                       imitator, work, connected, breaks>>
    BY DEF LoaderSends, OutsideLoader, imitatorVars, Producer!Send
  <1>3. /\ loader' \in Loader /\ loader'.pc = "mark"
        /\ UNCHANGED <<loader.time, loader.count, loader.fetched, loader.exhausted,
                       loader.started>>
    BY <1>1, <1>2 DEF Loader
  <1>4. PICK new \in Sending : new = Replayed(Current, loader.time)
    <2>1. Current \in Nat
      BY <1>1 DEF Current
    <2> QED BY <1>1, <2>1 DEF Sending, Replayed
  <1>5. new.document = loader.count + 1 /\ new.time = loader.time
    BY <1>4 DEF Replayed, Current
  <1>6. /\ buffer \in Seq(Sending) /\ stored \in Seq(Sending)
        /\ Len(buffer) \in Nat /\ DOMAIN buffer = 1..Len(buffer)
    BY TypesTaken DEF IInv
  <1>7. /\ buffer' \in Seq(Sending) /\ DOMAIN buffer' = DOMAIN buffer \cup {Len(buffer) + 1}
        /\ \A i \in DOMAIN buffer : buffer'[i] = buffer[i] /\ i <= Len(buffer)
        /\ buffer'[Len(buffer) + 1] = new
        /\ Producer!Elements(buffer') = Producer!Elements(buffer) \cup {new}
    <2>1. buffer' = Append(buffer, new)
      BY <1>2, <1>4
    <2>2. buffer' \in Seq(Sending)
      BY <1>6, <2>1, Appended
    <2>3. DOMAIN buffer' = DOMAIN buffer \cup {Len(buffer) + 1}
      BY <1>6, <2>1, Appended
    <2>4. \A i \in DOMAIN buffer : buffer'[i] = buffer[i] /\ i <= Len(buffer)
      BY <1>6, <2>1, Appended
    <2>5. buffer'[Len(buffer) + 1] = new
      BY <1>6, <2>1, Appended
    <2>6. Producer!Elements(buffer') = Producer!Elements(buffer) \cup {new}
      BY <1>6, <2>1, Appended
    <2> QED BY <2>2, <2>3, <2>4, <2>5, <2>6
  <1>8. Types'
    BY <1>1, <1>2, <1>3, <1>7, TypesTaken, TypesGiven DEF IInv
  <1>9. Clocks' /\ PlaceOK'
    BY <1>1, <1>2, <1>3 DEF IInv, Clocks, PlaceOK
  <1>10. /\ \A i \in DOMAIN stored : Earlier(stored[i], new)
         /\ \A i \in DOMAIN buffer : Earlier(buffer[i], new)
    <2>1. ASSUME NEW m \in Sending, NotAhead(m)
          PROVE  Earlier(m, new)
      BY <1>1, <1>5, <2>1 DEF NotAhead, Earlier, Sent, Sending
    <2>2. /\ \A i \in DOMAIN stored : stored[i] \in Sending
          /\ \A i \in DOMAIN buffer : buffer[i] \in Sending
      BY <1>6
    <2> QED BY <2>1, <2>2 DEF IInv, NoneAhead
  <1>11. InOrder'
    <2>1. ASSUME NEW i \in DOMAIN buffer', NEW j \in DOMAIN buffer', i < j
          PROVE  i \in DOMAIN buffer
      BY <1>6, <1>7, <2>1
    <2>2. ASSUME NEW i \in DOMAIN buffer', NEW j \in DOMAIN buffer', i < j
          PROVE  Earlier(buffer'[i], buffer'[j])
      BY <1>7, <1>10, <2>1, <2>2 DEF IInv, InOrder
    <2>3. ASSUME NEW i \in DOMAIN stored, NEW j \in DOMAIN buffer'
          PROVE  Earlier(stored[i], buffer'[j])
      BY <1>7, <1>10 DEF IInv, InOrder
    <2>4. stored' = stored
      BY <1>2
    <2>5. \A i, j \in DOMAIN stored : i < j => Earlier(stored[i], stored[j])
      BY DEF IInv, InOrder
    <2> QED BY <2>2, <2>3, <2>4, <2>5 DEF InOrder
  <1>12. Sent = loader.count /\ Sent' = loader.count + 1
    BY <1>1, <1>3 DEF Sent, Current
  <1>13. NoneAhead'
    <2>1. ASSUME NEW m \in Sending, NotAhead(m) \/ m = new
          PROVE  m.time <= loader.time /\ (m.time = loader.time => m.document <= Sent')
      BY <1>1, <1>5, <1>12, <2>1 DEF NotAhead, Sending
    <2>2. /\ \A i \in DOMAIN stored : stored[i] \in Sending
          /\ \A i \in DOMAIN buffer' : buffer'[i] \in Sending
      BY <1>6, <1>7
    <2>3. /\ \A i \in DOMAIN stored : NotAhead(stored[i])
          /\ \A i \in DOMAIN buffer' : NotAhead(buffer'[i]) \/ buffer'[i] = new
      BY <1>7 DEF IInv, NoneAhead
    <2> QED BY <1>2, <1>3, <2>1, <2>2, <2>3 DEF NoneAhead, NotAhead
  <1>14. Alive \subseteq Alive' /\ new \in Alive' /\ dropped' = dropped
    BY <1>2, <1>7 DEF Alive, Producer!Elements
  <1>15. SentAreAlive'
    <2> SUFFICES ASSUME NEW d \in 1..Sent'
                 PROVE  Replayed(d, loader.time) \in Alive'
      BY <1>3 DEF SentAreAlive, Replayed
    <2>1. CASE d \in 1..Sent
      BY <1>14, <2>1 DEF IInv, SentAreAlive
    <2>2. CASE d = Current
      BY <1>4, <1>14, <2>2
    <2> QED BY <1>1, <1>12, <2>1, <2>2 DEF Current
  <1>16. AccessedWasSent'
    <2> SUFFICES ASSUME NEW d \in DOMAIN documents, documents[d].access = loader.time,
                        loader.time > 0
                 PROVE  Replayed(d, loader.time) \in Alive' \cup dropped'
      BY <1>2, <1>3 DEF AccessedWasSent, Alive, Replayed
    <2>1. Replayed(d, loader.time) \in Alive \cup dropped
      BY DEF IInv, AccessedWasSent, Alive
    <2> QED BY <1>14, <2>1
  <1> QED BY <1>2, <1>8, <1>9, <1>11, <1>13, <1>15, <1>16, ImitatorAside
          DEF IInv, imitatorVars

LEMMA LoaderMarksSafe ==
  ASSUME IInv, LoaderMarks
  PROVE  IInv'
  <1> USE DEF At
  <1>1. /\ loader \in Loader /\ loader.pc = "mark" /\ loader.count < loader.fetched
        /\ loader.fetched <= Len(documents) /\ loader.started <= Len(documents)
        /\ loader.time \in 0..MaxStarts /\ loader.time \in Nat /\ loader.count \in Nat
        /\ loader.fetched \in Nat /\ loader.exhausted \in BOOLEAN
        /\ loader.exhausted => loader.started <= loader.fetched
        /\ Len(documents) \in Nat /\ DOMAIN documents = 1..Len(documents)
        /\ documents \in Seq(Document)
    BY TypesTaken DEF IInv, PlaceOK, LoaderMarks, Loader
  <1>2. /\ loader' = [loader EXCEPT !.count = Current, !.pc = AfterDocument]
        /\ UNCHANGED <<phones, monitoring, time, buffer, stored, failed, dropped,
                       imitator, work, connected, breaks>>
        /\ SetAccess(Current, loader.time)
    BY DEF LoaderMarks, OutsideLoader, imitatorVars, producerVars
  <1>3. /\ Current = loader.count + 1 /\ Current \in Nat /\ Current <= loader.fetched
        /\ Current \in DOMAIN documents
    BY <1>1 DEF Current
  <1>4. AfterDocument = IF Current < loader.fetched THEN "send"
                        ELSE IF loader.exhausted THEN "flush" ELSE "fetch"
    BY DEF AfterDocument
  <1>5. /\ loader' \in Loader /\ loader'.count = loader.count + 1
        /\ loader'.pc = AfterDocument
        /\ UNCHANGED <<loader.time, loader.fetched, loader.exhausted, loader.started>>
    BY <1>1, <1>2, <1>3, <1>4 DEF Loader
  <1>6. /\ documents' \in Seq(Document) /\ Len(documents') = Len(documents)
        /\ DOMAIN documents' = DOMAIN documents
        /\ \A e \in DOMAIN documents : documents'[e].access =
             IF e = Current THEN loader.time ELSE documents[e].access
    BY <1>1, <1>2, <1>3, AccessSet
  <1>7. Types'
    <2>1. /\ loader'.count <= loader'.fetched /\ loader'.fetched <= Len(documents')
          /\ loader'.started <= Len(documents') /\ imitator'.listed <= Len(documents')
      BY <1>1, <1>2, <1>3, <1>5, <1>6, TypesTaken DEF IInv
    <2> QED BY <1>2, <1>5, <1>6, <2>1, TypesTaken, TypesGiven DEF IInv
  <1>8. Clocks'
    <2>1. \A d \in DOMAIN documents' : documents'[d].access <= time
      BY <1>3, <1>6 DEF IInv, Clocks
    <2> QED BY <1>2, <1>5, <2>1 DEF IInv, Clocks
  <1>9. PlaceOK'
    BY <1>1, <1>3, <1>4, <1>5 DEF PlaceOK
  <1>10. Sent' = Sent /\ loader'.pc # "ended"
    BY <1>1, <1>4, <1>5 DEF Sent, Current
  <1>11. SentAreAlive' /\ NoneAhead'
    <2>1. Alive' = Alive
      BY <1>2, QueuesAside DEF producerVars
    <2> QED BY <1>1, <1>2, <1>5, <1>10, <2>1
            DEF IInv, SentAreAlive, NoneAhead, NotAhead, Replayed
  <1>12. AccessedWasSent'
    <2> SUFFICES ASSUME NEW d \in DOMAIN documents, documents'[d].access = loader.time,
                        loader.time > 0
                 PROVE  Replayed(d, loader.time) \in Alive \cup dropped
      BY <1>2, <1>5, <1>6
         DEF AccessedWasSent, Alive, Replayed, Producer!Elements
    <2>1. CASE d = Current
      <3>1. d \in 1..Sent
        BY <1>1, <1>3, <2>1 DEF Sent
      <3> QED BY <3>1 DEF IInv, SentAreAlive
    <2>2. CASE d # Current
      BY <1>6, <2>2 DEF IInv, AccessedWasSent, Alive
    <2> QED BY <2>1, <2>2
  <1>13. AccessedWasPublished'
    <2> SUFFICES ASSUME NEW d \in DOMAIN documents, documents'[d].access = imitator.time,
                        imitator.time > 0
                 PROVE  Told(d)
      BY <1>2, <1>6 DEF AccessedWasPublished, Told
    <2>1. d # Current
      BY <1>3, <1>6 DEF IInv, Clocks
    <2> QED BY <1>6, <2>1 DEF IInv, AccessedWasPublished, Told
  <1> QED BY <1>2, <1>7, <1>8, <1>9, <1>11, <1>12, <1>13, QueuesAside, ImitatorAside
          DEF IInv, imitatorVars, producerVars

LEMMA FlushSafe ==
  ASSUME IInv, Flush
  PROVE  IInv'
  <1> USE DEF At
  <1>1. /\ loader \in Loader /\ loader.pc = "flush" /\ buffer = <<>>
        /\ loader' = [loader EXCEPT !.pc = "done"]
        /\ UNCHANGED <<phones, monitoring, documents, time, buffer, stored, failed,
                       dropped, imitator, work, connected, breaks>>
    BY TypesTaken
       DEF IInv, Flush, OutsideLoader, imitatorVars, producerVars, Producer!Flushed
  <1>2. /\ loader' \in Loader /\ loader'.pc = "done"
        /\ UNCHANGED <<loader.time, loader.count, loader.fetched, loader.exhausted,
                       loader.started>>
    BY <1>1 DEF Loader
  <1>3. Types'
    BY <1>1, <1>2, TypesTaken, TypesGiven DEF IInv
  <1>4. Clocks' /\ PlaceOK'
    BY <1>1, <1>2 DEF IInv, Clocks, PlaceOK
  <1>5. Sent' = Sent
    BY <1>1, <1>2 DEF Sent
  <1>6. SentAreAlive' /\ NoneAhead'
    <2>1. Alive' = Alive
      BY <1>1, QueuesAside DEF producerVars
    <2> QED BY <1>1, <1>2, <1>5, <2>1
            DEF IInv, SentAreAlive, NoneAhead, NotAhead, Replayed
  <1>7. AccessedWasSent'
    BY <1>1, <1>2 DEF IInv, AccessedWasSent, Producer!Elements, Replayed
  <1> QED BY <1>1, <1>3, <1>4, <1>6, <1>7, QueuesAside, ImitatorAside
          DEF IInv, imitatorVars, producerVars

LEMMA LoaderEndsSafe ==
  ASSUME IInv, LoaderEnds
  PROVE  IInv'
  <1> USE DEF At
  <1>1. /\ loader \in Loader
        /\ loader' = [loader EXCEPT !.pc = "ended", !.fetched = 0, !.exhausted = FALSE,
                                    !.count = 0, !.started = 0]
        /\ buffer' = <<>> /\ dropped' = dropped \cup Producer!Elements(buffer)
        /\ UNCHANGED <<phones, monitoring, documents, time, stored, failed, imitator,
                       work, connected, breaks>>
    BY TypesTaken DEF IInv, LoaderEnds, OutsideLoader, imitatorVars, Producer!End
  <1>2. /\ loader' \in Loader /\ loader'.pc = "ended" /\ loader'.time = loader.time
        /\ loader'.fetched = 0 /\ loader'.count = 0 /\ loader'.started = 0
        /\ ~loader'.exhausted
    BY <1>1 DEF Loader
  <1>3. Types'
    BY <1>1, <1>2, TypesTaken, TypesGiven DEF IInv
  <1>4. Clocks' /\ PlaceOK' /\ SentAreAlive'
    BY <1>1, <1>2 DEF IInv, Clocks, PlaceOK, SentAreAlive, Sent
  <1>5. InOrder' /\ NoneAhead'
    BY <1>1, <1>2 DEF IInv, InOrder, NoneAhead, NotAhead, Earlier
  <1>6. AccessedWasSent'
    <2> SUFFICES ASSUME NEW d \in DOMAIN documents, documents[d].access = loader.time,
                        loader.time > 0
                 PROVE  Replayed(d, loader.time)
                          \in Producer!Elements(stored) \cup failed \cup dropped'
      BY <1>1, <1>2 DEF AccessedWasSent, Replayed, Producer!Elements
    <2>1. Replayed(d, loader.time) \in Alive \cup dropped
      BY DEF IInv, AccessedWasSent, Alive
    <2> QED BY <1>1, <2>1 DEF Alive
  <1> QED BY <1>1, <1>3, <1>4, <1>5, <1>6, ImitatorAside DEF IInv, imitatorVars

-----------------------------------------------------------------------------
(* The sender thread: the head of the buffer is stored, or has failed, or  *)
(* both.                                                                   *)

LEMMA SenderMoves ==
  ASSUME IInv, Sender
  PROVE  /\ buffer # <<>> /\ buffer' = Tail(buffer) /\ dropped' = dropped
         /\ UNCHANGED <<phones, monitoring, documents, time, loader, imitatorVars>>
         /\ \/ stored' = Append(stored, Head(buffer)) /\ failed \subseteq failed'
            \/ stored' = stored /\ failed' = failed \cup {Head(buffer)}
  BY DEF Sender, OutsideLoader, Producer!Sender, Producer!Deliver, Producer!Fail

(* In either case no message is out of place afterwards.                   *)
LEMMA SenderOrdered ==
  ASSUME IInv, Sender
  PROVE  /\ buffer' \in Seq(Sending) /\ stored' \in Seq(Sending)
         /\ InOrder' /\ NoneAhead' /\ Alive \subseteq Alive'
  <1>1. buffer \in Seq(Sending) /\ stored \in Seq(Sending) /\ Len(stored) \in Nat
    BY TypesTaken DEF IInv
  <1>2. PICK h \in Sending :
          /\ h = Head(buffer) /\ h = buffer[1] /\ 1 \in DOMAIN buffer
    BY <1>1, SenderMoves, HeadTaken
  <1>3. PICK t \in Seq(Sending) :
          /\ t = buffer' /\ \A i \in DOMAIN t : i + 1 \in DOMAIN buffer /\ t[i] = buffer[i + 1]
          /\ Producer!Elements(buffer) = {h} \cup Producer!Elements(t)
    <2>1. buffer' = Tail(buffer) /\ buffer # <<>>
      BY SenderMoves
    <2>2. PICK t : t = Tail(buffer)
      OBVIOUS
    <2>3. t \in Seq(Sending)
      BY <1>1, <2>1, <2>2, HeadTaken
    <2>4. \A i \in DOMAIN t : i + 1 \in DOMAIN buffer /\ t[i] = buffer[i + 1]
      BY <1>1, <2>1, <2>2, HeadTaken
    <2>5. Producer!Elements(buffer) = {Head(buffer)} \cup Producer!Elements(t)
      BY <1>1, <2>1, <2>2, HeadTaken
    <2>6. Producer!Elements(buffer) = {h} \cup Producer!Elements(t)
      BY <1>2, <2>5
    <2> QED BY <2>1, <2>2, <2>3, <2>4, <2>6
  <1>4. \A i \in DOMAIN t : i \in Nat /\ i >= 1
    BY <1>3
  <1>5. /\ \A i, j \in DOMAIN t : i < j => Earlier(t[i], t[j])
        /\ \A j \in DOMAIN t : Earlier(h, t[j])
        /\ \A i \in DOMAIN stored : \A j \in DOMAIN t : Earlier(stored[i], t[j])
        /\ \A i \in DOMAIN stored : Earlier(stored[i], h)
    <2>1. ASSUME NEW i \in DOMAIN t, NEW j \in DOMAIN t, i < j
          PROVE  Earlier(t[i], t[j])
      <3>1. i + 1 < j + 1
        BY <1>4, <2>1
      <3> QED BY <1>3, <3>1 DEF IInv, InOrder
    <2>2. ASSUME NEW j \in DOMAIN t
          PROVE  Earlier(h, t[j])
      <3>1. 1 < j + 1
        BY <1>4
      <3> QED BY <1>2, <1>3, <3>1 DEF IInv, InOrder
    <2> QED BY <1>2, <1>3, <2>1, <2>2 DEF IInv, InOrder
  <1>6. /\ \A i, j \in DOMAIN stored : i < j => Earlier(stored[i], stored[j])
        /\ \A i \in DOMAIN stored : NotAhead(stored[i])
        /\ \A i \in DOMAIN t : NotAhead(t[i])
        /\ NotAhead(h)
    BY <1>2, <1>3 DEF IInv, InOrder, NoneAhead
  <1>7. \A m \in Sending : NotAhead(m)' <=> NotAhead(m)
    BY SenderMoves DEF NotAhead, Sent, Current, At
  <1>8. CASE stored' = stored /\ failed' = failed \cup {h}
    <2>1. InOrder' /\ NoneAhead'
      BY <1>1, <1>3, <1>5, <1>6, <1>7, <1>8 DEF InOrder, NoneAhead, Earlier
    <2>2. Alive \subseteq Alive'
      BY <1>3, <1>8 DEF Alive, Producer!Elements
    <2> QED BY <1>1, <1>3, <1>8, <2>1, <2>2
  <1>9. CASE stored' = Append(stored, h) /\ failed \subseteq failed'
    <2>0. PICK s : s = Append(stored, h)
      OBVIOUS
    <2>1. stored' = s
      BY <1>9, <2>0
    <2>2. s \in Seq(Sending)
      BY <1>1, <2>0, Appended
    <2>3. DOMAIN s = DOMAIN stored \cup {Len(stored) + 1}
      BY <1>1, <2>0, Appended
    <2>4. \A i \in DOMAIN stored : s[i] = stored[i] /\ i <= Len(stored)
      <3>1. DOMAIN stored = 1..Len(stored)
        BY <1>1
      <3>2. \A i \in 1..Len(stored) : s[i] = stored[i]
        <4>1. \A i \in 1..Len(stored) : Append(stored, h)[i] = stored[i]
          BY <1>1, AppendProperties
        <4> QED BY <2>0, <4>1
      <3> QED BY <1>1, <3>1, <3>2
    <2>5. s[Len(stored) + 1] = h
      BY <1>1, <2>0, Appended
    <2>6. Producer!Elements(s) = Producer!Elements(stored) \cup {h}
      BY <1>1, <2>0, Appended
    <2>7. ASSUME NEW i \in DOMAIN s, NEW j \in DOMAIN s, i < j
          PROVE  Earlier(s[i], s[j])
      <3>1. i \in DOMAIN stored
        BY <1>1, <2>3, <2>4, <2>7
      <3> QED BY <1>5, <1>6, <2>3, <2>4, <2>5, <2>7, <3>1
    <2>8. \A i \in DOMAIN s : \A j \in DOMAIN t : Earlier(s[i], t[j])
      BY <1>5, <2>3, <2>4, <2>5
    <2>9. InOrder'
      BY <1>3, <1>5, <2>1, <2>7, <2>8 DEF InOrder, Earlier
    <2>10. \A i \in DOMAIN s : NotAhead(s[i]) /\ s[i] \in Sending
      BY <1>1, <1>6, <2>2, <2>3, <2>4, <2>5
    <2>11. NoneAhead'
      BY <1>3, <1>6, <1>7, <2>1, <2>10 DEF NoneAhead
    <2>12. Alive \subseteq Alive'
      <3>1. Alive' = Producer!Elements(s) \cup Producer!Elements(t) \cup failed'
        BY <1>3, <2>1 DEF Alive, Producer!Elements
      <3>2. Alive = Producer!Elements(stored) \cup ({h} \cup Producer!Elements(t))
                      \cup failed
        BY <1>3 DEF Alive
      <3> QED BY <1>9, <2>6, <3>1, <3>2
    <2> QED BY <1>3, <2>1, <2>2, <2>9, <2>11, <2>12
  <1> QED BY <1>2, <1>8, <1>9, SenderMoves

LEMMA SenderSafe ==
  ASSUME IInv, Sender
  PROVE  IInv'
  <1>1. /\ UNCHANGED <<phones, monitoring, documents, time, loader, imitator, work,
                       connected, breaks>>
        /\ dropped' = dropped /\ buffer # <<>>
    BY SenderMoves DEF imitatorVars
  <1>2. Types'
    BY <1>1, SenderOrdered, TypesTaken, TypesGiven DEF IInv
  <1>3. ~At("ended") /\ ~At("done")
    BY <1>1 DEF IInv, PlaceOK
  <1>4. Clocks' /\ PlaceOK'
    BY <1>1, <1>3 DEF IInv, Clocks, PlaceOK, At
  <1>5. SentAreAlive'
    BY <1>1, SenderOrdered DEF IInv, SentAreAlive, Sent, Current, At, Replayed
  <1>6. AccessedWasSent'
    <2> SUFFICES ASSUME NEW d \in DOMAIN documents, documents[d].access = loader.time,
                        loader.time > 0
                 PROVE  Replayed(d, loader.time) \in Alive' \cup dropped'
      BY <1>1 DEF AccessedWasSent, Alive, Replayed, Producer!Elements
    <2>1. Replayed(d, loader.time) \in Alive \cup dropped
      BY DEF IInv, AccessedWasSent, Alive
    <2> QED BY <1>1, <2>1, SenderOrdered
  <1> QED BY <1>1, <1>2, <1>4, <1>5, <1>6, SenderOrdered, ImitatorAside
          DEF IInv, imitatorVars

-----------------------------------------------------------------------------
(* The imitator.  What it leaves alone:                                    *)

LEMMA LoaderAside ==
  ASSUME IInv, UNCHANGED loaderVars
  PROVE  /\ PlaceOK' /\ SentAreAlive' /\ InOrder' /\ NoneAhead'
         /\ documents' = documents => AccessedWasSent'
  <1>1. UNCHANGED <<loader, producerVars, buffer, stored, failed, dropped>>
    BY DEF loaderVars, producerVars
  <1>2. PlaceOK' /\ Sent' = Sent
    BY <1>1 DEF IInv, PlaceOK, At, Sent, Current
  <1>3. SentAreAlive' /\ NoneAhead'
    BY <1>1, <1>2, QueuesAside DEF IInv, SentAreAlive, NoneAhead, NotAhead, At, Replayed
  <1>4. documents' = documents => AccessedWasSent'
    BY <1>1 DEF IInv, AccessedWasSent, Producer!Elements, Replayed
  <1> QED BY <1>1, <1>2, <1>3, <1>4, QueuesAside

(* All that is left to show of a step of the imitator that marks nothing.  *)
LEMMA ImitatorMoves ==
  ASSUME IInv, UNCHANGED <<phones, documents, loaderVars>>,
         monitoring' \in Seq(1..MaxMessages), time' \in 0..MaxStarts, time <= time',
         imitator' \in Imitator, imitator'.given <= imitator'.listed,
         imitator'.listed <= Len(documents),
         imitator'.time = imitator.time
           \/ (imitator'.time = time + 1 /\ time' = time + 1),
         work' \in [Processes -> Chunk \cup {None}],
         connected' \in [Processes -> BOOLEAN], breaks' \in 0..MaxBreaks,
         ImitatorOK', AccessedWasPublished'
  PROVE  IInv'
  <1>1. UNCHANGED <<loader, buffer, stored>>
    BY DEF loaderVars, producerVars
  <1>2. Types'
    BY <1>1, TypesTaken, TypesGiven DEF IInv
  <1>3. /\ time \in Nat /\ loader.time \in Nat /\ imitator.time \in Nat /\ time' \in Nat
        /\ loader.time <= time /\ imitator.time <= time
        /\ loader.time = imitator.time => loader.time = 0
    BY TypesTaken DEF IInv, Clocks, Loader, Imitator
  <1>4. \A d \in DOMAIN documents :
          documents[d].access \in Nat /\ documents[d].access <= time
    <2>1. ASSUME NEW d \in DOMAIN documents
          PROVE  documents[d].access \in Nat
      <3>1. documents[d] \in Document
        BY TypesTaken DEF IInv
      <3> QED BY <3>1 DEF Document
    <2> QED BY <2>1 DEF IInv, Clocks
  <1>5. Clocks'
    <2>1. \A d \in DOMAIN documents : documents[d].access <= time'
      BY <1>3, <1>4
    <2>2. loader.time <= time' /\ imitator'.time <= time'
      BY <1>3
    <2>3. loader.time = imitator'.time => loader.time = 0
      BY <1>3
    <2> QED BY <1>1, <2>1, <2>2, <2>3 DEF Clocks
  <1> QED BY <1>2, <1>5, LoaderAside DEF IInv

LEMMA ImitatorStartsSafe ==
  ASSUME IInv, ImitatorStarts
  PROVE  IInv'
  <1>1. /\ imitator' = [pc |-> "list", time |-> time + 1, listed |-> 0, given |-> 0,
                        published |-> {}, unheard |-> {}]
        /\ imitator.pc = "ended" /\ time' = time + 1 /\ time < MaxStarts
        /\ UNCHANGED <<phones, monitoring, documents, loaderVars, work, connected, breaks>>
    BY DEF ImitatorStarts, OutsideImitator
  <1>2. /\ time' \in 0..MaxStarts /\ time <= time' /\ time \in Nat
        /\ Len(documents) \in Nat
    BY <1>1, TypesTaken DEF IInv
  <1>3. /\ imitator' \in Imitator /\ imitator'.time = time + 1
        /\ imitator'.given <= imitator'.listed /\ imitator'.listed <= Len(documents)
    BY <1>1, <1>2 DEF Imitator
  <1>4. ImitatorOK'
    BY <1>1 DEF IInv, ImitatorOK
  <1>5. AccessedWasPublished'
    <2> SUFFICES ASSUME NEW d \in DOMAIN documents, documents[d].access = time + 1
                 PROVE  FALSE
      BY <1>1, <1>3 DEF AccessedWasPublished
    <2> QED BY <1>2 DEF IInv, Clocks
  <1> QED BY <1>1, <1>2, <1>3, <1>4, <1>5, ImitatorMoves, TypesTaken DEF IInv

LEMMA ListSafe ==
  ASSUME IInv, List
  PROVE  IInv'
  <1>1. /\ imitator' = [imitator EXCEPT
             !.listed = Smaller(@ + BatchSize, Len(documents)),
             !.pc = IF imitator.listed + BatchSize > Len(documents) THEN "map" ELSE "list"]
        /\ imitator.pc = "list"
        /\ UNCHANGED <<phones, monitoring, documents, time, loaderVars, work, connected,
                       breaks>>
    BY DEF List, OutsideImitator
  <1>2. /\ imitator \in Imitator /\ imitator.given <= imitator.listed
        /\ imitator.listed <= Len(documents) /\ Len(documents) \in Nat /\ time \in Nat
    BY TypesTaken DEF IInv
  <1>3. PICK n \in Nat : /\ n = Smaller(imitator.listed + BatchSize, Len(documents))
                         /\ imitator.listed <= n /\ n <= Len(documents)
    BY <1>2 DEF Smaller, Imitator
  <1>4. /\ imitator' \in Imitator /\ imitator'.listed = n
        /\ UNCHANGED <<imitator.time, imitator.given, imitator.published,
                       imitator.unheard>>
    BY <1>1, <1>2, <1>3 DEF Imitator
  <1>5. imitator'.given <= imitator'.listed
    BY <1>2, <1>3, <1>4 DEF Imitator
  <1>6. ImitatorOK'
    BY <1>1 DEF IInv, ImitatorOK
  <1>7. AccessedWasPublished'
    BY <1>1, <1>4 DEF IInv, AccessedWasPublished
  <1> QED BY <1>1, <1>2, <1>3, <1>4, <1>5, <1>6, <1>7, ImitatorMoves, TypesTaken DEF IInv

(* As there is a process that takes it, a chunk has a size.               *)
LEMMA ChunkSizeType ==
  ASSUME imitator \in Imitator, NEW p \in Processes
  PROVE  ChunkSize \in Int
  <1>1. Cardinality(Processes) \in Nat /\ Cardinality(Processes) # 0
    BY PoolAssumption, FS_CardinalityType, FS_EmptySet
  <1> DEFINE n == Cardinality(Processes)
  <1>2. ChunkFactor * n \in Nat /\ ChunkFactor * n > 0
    <2>1. n \in Nat /\ n > 0 /\ ChunkFactor \in Nat /\ ChunkFactor > 0
      BY <1>1, PoolAssumption
    <2> HIDE DEF n
    <2> QED BY <2>1
  <1>3. Cut \in Nat /\ Cut > 0
    BY <1>2 DEF Cut
  <1> QED BY <1>3 DEF ChunkSize, Imitator

(* The chunk a process has.                                                *)
LEMMA ChunkTaken ==
  ASSUME IInv, NEW p \in Processes, work[p] # None
  PROVE  /\ work[p] \in Chunk /\ work[p].document \in DOMAIN documents
         /\ work[p].document \in Nat /\ work[p].last \in Nat
         /\ work[p].last <= imitator.given /\ work[p].document <= work[p].last
         /\ 1 <= work[p].document /\ imitator.given \in Nat
  <1>1. /\ work[p] \in Chunk /\ imitator \in Imitator
        /\ imitator.given <= imitator.listed /\ imitator.listed <= Len(documents)
        /\ Len(documents) \in Nat /\ DOMAIN documents = 1..Len(documents)
    BY TypesTaken DEF IInv
  <1>2. /\ 1 <= work[p].document /\ work[p].document <= work[p].last
        /\ work[p].last <= imitator.given
    BY DEF IInv, ImitatorOK
  <1>3. /\ work[p].document \in Nat /\ work[p].last \in Nat
        /\ imitator.given \in Nat /\ imitator.listed \in Nat
    BY <1>1 DEF Chunk, Imitator
  <1> QED BY <1>1, <1>2, <1>3

LEMMA TakeChunkSafe ==
  ASSUME IInv, NEW p \in Processes, TakeChunk(p)
  PROVE  IInv'
  <1> DEFINE upTo == Smaller(imitator.given + ChunkSize, imitator.listed)
  <1>1. /\ imitator.pc = "map" /\ work[p] = None /\ imitator.given < upTo
        /\ work' = [work EXCEPT ![p] = [document |-> imitator.given + 1, last |-> upTo,
                                        step |-> "publish"]]
        /\ imitator' = [imitator EXCEPT !.given = upTo]
        /\ UNCHANGED <<phones, monitoring, documents, time, loaderVars, connected, breaks>>
    BY DEF TakeChunk, Take, OutsideImitator
  <1>2. /\ imitator \in Imitator /\ imitator.given \in Nat /\ imitator.listed \in Nat
        /\ imitator.listed <= Len(documents) /\ time \in Nat
        /\ work \in [Processes -> Chunk \cup {None}]
    BY TypesTaken DEF IInv, Imitator
  <1>3. upTo \in Nat /\ upTo <= imitator.listed
    BY <1>1, <1>2, ChunkSizeType DEF Smaller
  <1> HIDE DEF upTo
  <1>4. /\ imitator' \in Imitator /\ imitator'.given = upTo /\ imitator'.pc = "map"
        /\ UNCHANGED <<imitator.time, imitator.listed, imitator.published,
                       imitator.unheard>>
    BY <1>1, <1>2, <1>3 DEF Imitator
  <1>5. PICK w \in Chunk : /\ w = [document |-> imitator.given + 1, last |-> upTo,
                                   step |-> "publish"]
                           /\ w.document = imitator.given + 1 /\ w.last = upTo
                           /\ w.step = "publish"
    <2>1. imitator.given + 1 \in Nat
      BY <1>2
    <2>2. [document |-> imitator.given + 1, last |-> upTo, step |-> "publish"] \in Chunk
      BY <1>3, <2>1 DEF Chunk
    <2> QED BY <2>2
  <1>6. work' \in [Processes -> Chunk \cup {None}] /\ work'[p] = w
    BY <1>1, <1>2, <1>5
  <1>7. ImitatorOK'
    <2>1. ASSUME NEW q \in Processes, work'[q] # None
          PROVE  /\ 1 <= work'[q].document /\ work'[q].document <= work'[q].last
                 /\ work'[q].last <= imitator'.given
                 /\ work'[q].step = "mark" => Told(work'[q].document)
      <3>1. CASE q = p
        BY <1>1, <1>2, <1>3, <1>4, <1>5, <1>6, <3>1
      <3>2. CASE q # p
        <4>1. work'[q] = work[q]
          BY <1>1, <1>2, <3>2
        <4>2. work[q].last <= upTo
          BY <1>1, <1>3, <2>1, <4>1, ChunkTaken
        <4> QED BY <1>4, <2>1, <4>1, <4>2 DEF IInv, ImitatorOK
      <3> QED BY <3>1, <3>2
    <2>2. \A d : Told(d)' <=> Told(d)
      BY <1>1, <1>4 DEF Told
    <2> QED BY <1>1, <1>4, <2>1, <2>2 DEF IInv, ImitatorOK
  <1>8. AccessedWasPublished'
    BY <1>1, <1>4 DEF IInv, AccessedWasPublished
  <1> QED BY <1>1, <1>2, <1>3, <1>4, <1>6, <1>7, <1>8, ImitatorMoves, TypesTaken
          DEF IInv

(* Either way of publishing: the process will mark the document, and can   *)
(* tell that it was published.                                             *)
LEMMA PublishingSafe ==
  ASSUME IInv, NEW p \in Processes, Publishing(p),
         monitoring' \in Seq(1..MaxMessages),
         imitator' \in Imitator,
         UNCHANGED <<imitator.pc, imitator.time, imitator.given, imitator.listed>>,
         connected' \in [Processes -> BOOLEAN], breaks' \in 0..MaxBreaks,
         \A q \in Processes : ~connected'[q] => breaks' > 0,
         imitator.published \subseteq imitator'.published,
         imitator.unheard \subseteq imitator'.unheard, breaks <= breaks',
         \/ work[p].document \in imitator'.published
         \/ work[p].document \in imitator'.unheard /\ breaks' > 0
  PROVE  IInv'
  <1>1. /\ work[p] # None
        /\ work' = [work EXCEPT ![p].step = "mark"]
        /\ UNCHANGED <<phones, documents, time, loaderVars>>
    BY DEF Publishing, OutsideImitator
  <1>2. /\ work \in [Processes -> Chunk \cup {None}] /\ work[p] \in Chunk
        /\ time \in Nat /\ breaks \in Nat /\ breaks' \in Nat
        /\ imitator.given <= imitator.listed /\ imitator.listed <= Len(documents)
    BY <1>1, ChunkTaken, TypesTaken DEF IInv
  <1>3. PICK w \in Chunk : /\ w = [work[p] EXCEPT !.step = "mark"]
                           /\ w.document = work[p].document /\ w.last = work[p].last
    <2>1. [work[p] EXCEPT !.step = "mark"] \in Chunk
      BY <1>2 DEF Chunk
    <2>2. /\ [work[p] EXCEPT !.step = "mark"].document = work[p].document
          /\ [work[p] EXCEPT !.step = "mark"].last = work[p].last
      BY <1>2 DEF Chunk
    <2> QED BY <2>1, <2>2
  <1>4. work' = [work EXCEPT ![p] = w]
    BY <1>1, <1>3
  <1>5. /\ work' \in [Processes -> Chunk \cup {None}] /\ work'[p] = w
        /\ \A q \in Processes \ {p} : work'[q] = work[q]
    BY <1>2, <1>4
  <1>6. \A d : Told(d) => Told(d)'
    BY <1>2 DEF Told
  <1>7. \A d : d = w.document => Told(d)'
    BY <1>3 DEF Told
  <1>8. ImitatorOK'
    <2>1. ASSUME NEW q \in Processes, NEW x \in Chunk, x = work'[q], x # None
          PROVE  /\ imitator'.pc = "map"
                 /\ 1 <= x.document /\ x.document <= x.last
                 /\ x.last <= imitator'.given
                 /\ x.step = "mark" => \A d : d = x.document => Told(d)'
      <3>1. CASE q = p
        BY <1>1, <1>3, <1>5, <1>7, <2>1, <3>1 DEF IInv, ImitatorOK
      <3>2. CASE q # p
        <4>1. work[q] = x /\ work[q] # None
          BY <1>5, <2>1, <3>2
        <4>2. x.step = "mark" => Told(x.document)
          BY <4>1 DEF IInv, ImitatorOK
        <4> QED BY <1>6, <4>1, <4>2 DEF IInv, ImitatorOK
      <3> QED BY <3>1, <3>2
    <2>2. \A q \in Processes : work'[q] # None => work'[q] \in Chunk
      BY <1>5
    <2> QED BY <2>1, <2>2 DEF ImitatorOK
  <1>9. AccessedWasPublished'
    BY <1>1, <1>6 DEF IInv, AccessedWasPublished, Told
  <1> QED BY <1>1, <1>2, <1>5, <1>8, <1>9, ImitatorMoves, TypesTaken DEF IInv

LEMMA ImitatorPublishesSafe ==
  ASSUME IInv, NEW p \in Processes,
         ImitatorPublishes(p) \/ ImitatorPublishesNothing(p)
  PROVE  IInv'
  <1>1. Publishing(p) /\ work[p] # None
    BY DEF ImitatorPublishes, ImitatorPublishesNothing, Publishing
  <1>2. PICK d \in DOMAIN documents : d = work[p].document /\ d \in Nat
    BY <1>1, ChunkTaken
  <1>3. /\ imitator \in Imitator /\ connected \in [Processes -> BOOLEAN]
        /\ monitoring \in Seq(1..MaxMessages) /\ breaks \in 0..MaxBreaks
        /\ \A q \in Processes : ~connected[q] => breaks > 0
    BY TypesTaken DEF IInv, ImitatorOK
  <1>4. CASE ImitatorPublishes(p)
    <2>1. /\ imitator' = [imitator EXCEPT !.published = @ \cup {d}]
          /\ monitoring' = Append(monitoring, documents[d].message)
          /\ UNCHANGED <<connected, breaks>>
      BY <1>2, <1>4 DEF ImitatorPublishes
    <2>2. /\ imitator' \in Imitator /\ d \in imitator'.published
          /\ UNCHANGED <<imitator.pc, imitator.time, imitator.given, imitator.listed,
                         imitator.unheard>>
          /\ imitator.published \subseteq imitator'.published
      BY <1>2, <1>3, <2>1 DEF Imitator
    <2>3. monitoring' \in Seq(1..MaxMessages)
      <3>1. documents[d] \in Document
        BY TypesTaken DEF IInv
      <3>2. documents[d].message \in 1..MaxMessages
        BY <3>1 DEF Document
      <3> QED BY <1>3, <2>1, <3>2
    <2>4. connected' \in [Processes -> BOOLEAN] /\ breaks' \in 0..MaxBreaks
      BY <1>3, <2>1
    <2>5. breaks <= breaks' /\ \A q \in Processes : ~connected'[q] => breaks' > 0
      BY <1>3, <2>1
    <2> QED BY <1>1, <1>2, <2>2, <2>3, <2>4, <2>5, PublishingSafe
  <1>5. CASE ImitatorPublishesNothing(p)
    <2>1. /\ imitator' = [imitator EXCEPT !.unheard = @ \cup {d}]
          /\ monitoring' = monitoring
          /\ \/ ~connected[p] /\ UNCHANGED <<connected, breaks>>
             \/ /\ connected[p] /\ breaks < MaxBreaks
                /\ connected' = [connected EXCEPT ![p] = FALSE] /\ breaks' = breaks + 1
      BY <1>2, <1>5 DEF ImitatorPublishesNothing
    <2>2. /\ imitator' \in Imitator /\ d \in imitator'.unheard
          /\ UNCHANGED <<imitator.pc, imitator.time, imitator.given, imitator.listed,
                         imitator.published>>
          /\ imitator.unheard \subseteq imitator'.unheard
      BY <1>2, <1>3, <2>1 DEF Imitator
    <2>3. connected' \in [Processes -> BOOLEAN] /\ breaks' \in 0..MaxBreaks
      <3>1. connected' \in [Processes -> BOOLEAN]
        BY <1>3, <2>1
      <3>2. breaks' \in 0..MaxBreaks
        BY <1>3, <2>1
      <3> QED BY <3>1, <3>2
    <2>4. breaks <= breaks' /\ breaks' > 0 /\ breaks' \in Nat
      <3>1. breaks \in Nat /\ (~connected[p] => breaks > 0)
        BY <1>3
      <3> QED BY <2>1, <3>1
    <2> QED BY <1>1, <1>2, <1>3, <2>1, <2>2, <2>3, <2>4, PublishingSafe
  <1> QED BY <1>4, <1>5

LEMMA ImitatorMarksSafe ==
  ASSUME IInv, NEW p \in Processes, ImitatorMarks(p)
  PROVE  IInv'
  <1>1. /\ work[p] # None /\ work[p].step = "mark"
        /\ SetAccess(work[p].document, imitator.time)
        /\ work' = [work EXCEPT ![p] = AfterChunkStep(@)]
        /\ UNCHANGED <<phones, monitoring, time, loader, buffer, stored, failed, dropped,
                       imitator, connected, breaks>>
    BY DEF ImitatorMarks, OutsideImitator, loaderVars, producerVars
  <1>2. PICK d \in DOMAIN documents : d = work[p].document /\ Told(d)
    BY <1>1, ChunkTaken DEF IInv, ImitatorOK
  <1>3. /\ imitator \in Imitator /\ imitator.time \in 0..MaxStarts
        /\ documents \in Seq(Document)
    BY TypesTaken DEF IInv, Imitator
  <1>4. /\ documents' \in Seq(Document) /\ Len(documents') = Len(documents)
        /\ DOMAIN documents' = DOMAIN documents
        /\ \A e \in DOMAIN documents : documents'[e].access =
             IF e = d THEN imitator.time ELSE documents[e].access
    BY <1>1, <1>2, <1>3, AccessSet
  <1>5. PICK w : w = AfterChunkStep(work[p]) /\ work' = [work EXCEPT ![p] = w]
    BY <1>1
  <1>6. /\ w \in Chunk \cup {None}
        /\ w # None => /\ 1 <= w.document /\ w.document <= w.last
                       /\ w.last <= imitator.given /\ w.step = "publish"
    <2>1. CASE work[p].document < work[p].last
      <3>1. w = [work[p] EXCEPT !.document = @ + 1, !.step = "publish"]
        BY <1>5, <2>1 DEF AfterChunkStep
      <3>2. work[p] \in Chunk /\ work[p].document \in Nat
        BY <1>1, ChunkTaken
      <3>3. /\ w \in Chunk /\ w.document = work[p].document + 1
            /\ w.last = work[p].last /\ w.step = "publish"
        <4>1. PICK v : v = [work[p] EXCEPT !.document = @ + 1]
          OBVIOUS
        <4>2. /\ v \in Chunk /\ v.document = work[p].document + 1
              /\ v.last = work[p].last
          BY <3>2, <4>1 DEF Chunk
        <4>3. w = [v EXCEPT !.step = "publish"]
          BY <3>1, <4>1
        <4> QED BY <4>2, <4>3 DEF Chunk
      <3> QED BY <1>1, <2>1, <3>3, ChunkTaken
    <2>2. CASE ~(work[p].document < work[p].last)
      BY <1>5, <2>2 DEF AfterChunkStep
    <2> QED BY <2>1, <2>2
  <1>7. /\ work' \in [Processes -> Chunk \cup {None}] /\ work'[p] = w
        /\ \A q \in Processes \ {p} : work'[q] = work[q]
    BY <1>5, <1>6, TypesTaken DEF IInv
  <1>8. Types'
    BY <1>1, <1>4, <1>7, TypesTaken, TypesGiven DEF IInv
  <1>9. Clocks'
    <2>1. \A e \in DOMAIN documents' : documents'[e].access <= time
      BY <1>4 DEF IInv, Clocks
    <2> QED BY <1>1, <2>1 DEF IInv, Clocks
  <1>10. ImitatorOK'
    <2>1. \A e : Told(e)' <=> Told(e)
      BY <1>1 DEF Told
    <2> QED BY <1>1, <1>6, <1>7, <2>1 DEF IInv, ImitatorOK
  <1>11. AccessedWasSent'
    <2> SUFFICES ASSUME NEW e \in DOMAIN documents, documents'[e].access = loader.time,
                        loader.time > 0
                 PROVE  Replayed(e, loader.time) \in Alive \cup dropped
      BY <1>1, <1>4 DEF AccessedWasSent, Alive, Replayed, Producer!Elements
    <2>1. e # d
      BY <1>4 DEF IInv, Clocks
    <2> QED BY <1>4, <2>1 DEF IInv, AccessedWasSent, Alive
  <1>12. AccessedWasPublished'
    <2> SUFFICES ASSUME NEW e \in DOMAIN documents, documents'[e].access = imitator.time,
                        imitator.time > 0
                 PROVE  Told(e)
      BY <1>1, <1>4 DEF AccessedWasPublished, Told
    <2> QED BY <1>2, <1>4 DEF IInv, AccessedWasPublished, Told
  <1> QED BY <1>1, <1>8, <1>9, <1>10, <1>11, <1>12, LoaderAside
          DEF IInv, loaderVars, producerVars

LEMMA ImitatorStopsSafe ==
  ASSUME IInv, ImitatorEnds \/ \E p \in Processes : ProcessRaises(p)
  PROVE  IInv'
  <1>1. /\ imitator \in Imitator /\ imitator.given <= imitator.listed
        /\ imitator.listed <= Len(documents) /\ time \in Nat
        /\ monitoring \in Seq(1..MaxMessages) /\ time \in 0..MaxStarts
        /\ work \in [Processes -> Chunk \cup {None}]
        /\ connected \in [Processes -> BOOLEAN] /\ breaks \in 0..MaxBreaks
    BY TypesTaken DEF IInv
  <1>2. CASE ImitatorEnds
    <2>1. /\ imitator' = [imitator EXCEPT !.pc = "ended"]
          /\ work' = Idle /\ connected' = AllUp
          /\ UNCHANGED <<phones, monitoring, documents, time, breaks, loaderVars>>
      BY <1>2 DEF ImitatorEnds, OutsideImitator
    <2>2. /\ imitator' \in Imitator
          /\ UNCHANGED <<imitator.time, imitator.given, imitator.listed,
                         imitator.published, imitator.unheard>>
      BY <1>1, <2>1 DEF Imitator
    <2>3. ImitatorOK'
      BY <2>1 DEF ImitatorOK, Idle, AllUp
    <2>4. AccessedWasPublished'
      BY <2>1, <2>2 DEF IInv, AccessedWasPublished
    <2>5. /\ work' \in [Processes -> Chunk \cup {None}]
          /\ connected' \in [Processes -> BOOLEAN]
      BY <2>1 DEF Idle, AllUp
    <2> QED BY <1>1, <2>1, <2>2, <2>3, <2>4, <2>5, ImitatorMoves
  <1>3. ASSUME NEW p \in Processes, ProcessRaises(p)
        PROVE  IInv'
    <2>1. /\ work' = [work EXCEPT ![p] = None]
          /\ UNCHANGED <<phones, monitoring, documents, time, imitator, connected, breaks,
                         loaderVars>>
      BY <1>3 DEF ProcessRaises, OutsideImitator
    <2>2. /\ work' \in [Processes -> Chunk \cup {None}]
          /\ \A q \in Processes : work'[q] # None => work'[q] = work[q]
      BY <1>1, <2>1
    <2>3. \A d : Told(d)' <=> Told(d)
      BY <2>1 DEF Told
    <2>4. ImitatorOK'
      BY <2>1, <2>2, <2>3 DEF IInv, ImitatorOK
    <2>5. AccessedWasPublished'
      BY <2>1 DEF IInv, AccessedWasPublished
    <2> QED BY <1>1, <2>1, <2>2, <2>4, <2>5, ImitatorMoves
  <1> QED BY <1>2, <1>3

-----------------------------------------------------------------------------
LEMMA NothingMoves ==
  ASSUME IInv, UNCHANGED vars
  PROVE  IInv'
  <1>1. UNCHANGED <<phones, monitoring, documents, time, loaderVars, imitatorVars>>
    BY DEF vars
  <1>2. phones' \in 0..MaxMessages /\ monitoring' \in Seq(1..MaxMessages)
    BY <1>1, TypesTaken DEF IInv
  <1> QED BY <1>1, <1>2, MonitoringMoves

LEMMA StepSafe == IInv /\ [Next]_vars => IInv'
  <1> SUFFICES ASSUME IInv, [Next]_vars
               PROVE  IInv'
    OBVIOUS
  <1>1. CASE PhonePublishes \/ KeeperStores \/ KeeperLoses
    BY <1>1, StepOfCollection
  <1>2. CASE LoaderStarts
    BY <1>2, LoaderStartsSafe
  <1>3. CASE LoaderStep
    BY <1>3, FetchSafe, LoaderSendsSafe, LoaderMarksSafe, FlushSafe DEF LoaderStep
  <1>4. CASE Sender \/ LoaderEnds
    BY <1>4, SenderSafe, LoaderEndsSafe
  <1>5. CASE ImitatorStarts \/ List \/ ImitatorEnds
    BY <1>5, ImitatorStartsSafe, ListSafe, ImitatorStopsSafe
  <1>6. ASSUME NEW p \in Processes, ProcessStep(p)
        PROVE  IInv'
    BY <1>6, TakeChunkSafe, ImitatorPublishesSafe, ImitatorMarksSafe, ImitatorStopsSafe
       DEF ProcessStep
  <1>7. CASE UNCHANGED vars
    BY <1>7, NothingMoves
  <1> QED BY <1>1, <1>2, <1>3, <1>4, <1>5, <1>6, <1>7 DEF Next

LEMMA Invariance == Spec => []IInv
  BY Initially, StepSafe, PTL DEF Spec

(* The topic followed by the buffer is in order, as its two parts are and  *)
(* nothing of the buffer belongs before a message of the topic.            *)
LEMMA OrderOfBoth == IInv => ReplayedInOrder
  <1> SUFFICES ASSUME IInv PROVE ReplayedInOrder
    OBVIOUS
  <1>1. /\ stored \in Seq(Sending) /\ buffer \in Seq(Sending)
        /\ Len(stored) \in Nat /\ Len(buffer) \in Nat
        /\ DOMAIN stored = 1..Len(stored) /\ DOMAIN buffer = 1..Len(buffer)
    BY TypesTaken DEF IInv
  <1>2. PICK sent \in Seq(Sending) : sent = stored \o buffer
    <2>1. stored \o buffer \in Seq(Sending)
      BY <1>1, ConcatProperties
    <2> QED BY <2>1
  <1>3. /\ DOMAIN sent = 1..(Len(stored) + Len(buffer))
        /\ \A i \in DOMAIN sent :
             sent[i] = IF i <= Len(stored) THEN stored[i] ELSE buffer[i - Len(stored)]
    <2>1. /\ Len(stored \o buffer) = Len(stored) + Len(buffer)
          /\ \A i \in 1..(Len(stored) + Len(buffer)) : (stored \o buffer)[i]
               = IF i <= Len(stored) THEN stored[i] ELSE buffer[i - Len(stored)]
      BY <1>1, ConcatProperties
    <2> QED BY <1>2, <2>1
  <1>4. ASSUME NEW i \in DOMAIN sent, NEW j \in DOMAIN sent, i < j
        PROVE  Earlier(sent[i], sent[j])
    <2>1. CASE j <= Len(stored)
      <3>1. i \in DOMAIN stored /\ j \in DOMAIN stored
        BY <1>1, <1>3, <1>4, <2>1
      <3>2. sent[i] = stored[i] /\ sent[j] = stored[j]
        BY <1>1, <1>3, <2>1, <3>1
      <3> QED BY <1>4, <3>1, <3>2 DEF IInv, InOrder
    <2>2. CASE i <= Len(stored) /\ j > Len(stored)
      <3>1. i \in DOMAIN stored /\ j - Len(stored) \in DOMAIN buffer
        BY <1>1, <1>3, <2>2
      <3>2. sent[i] = stored[i] /\ sent[j] = buffer[j - Len(stored)]
        BY <1>1, <1>3, <2>2
      <3> QED BY <3>1, <3>2 DEF IInv, InOrder
    <2>3. CASE i > Len(stored)
      <3>1. /\ i - Len(stored) \in DOMAIN buffer /\ j - Len(stored) \in DOMAIN buffer
            /\ i - Len(stored) < j - Len(stored) /\ j > Len(stored)
        BY <1>1, <1>3, <1>4, <2>3
      <3>2. /\ sent[i] = buffer[i - Len(stored)] /\ sent[j] = buffer[j - Len(stored)]
        BY <1>1, <1>3, <2>3, <3>1
      <3> QED BY <3>1, <3>2 DEF IInv, InOrder
    <2> QED BY <1>1, <1>3, <1>4, <2>1, <2>2, <2>3
  <1> QED BY <1>2, <1>4 DEF ReplayedInOrder, Earlier

LEMMA DoneIsComplete == IInv => SuccessIsComplete
  <1> SUFFICES ASSUME IInv, At("done") PROVE SuccessIsComplete
    BY DEF SuccessIsComplete
  <1>1. loader.started <= loader.count /\ Sent = loader.count /\ buffer = <<>>
    BY DEF IInv, PlaceOK, At, Sent
  <1>2. Producer!Elements(buffer) = {}
    BY <1>1 DEF Producer!Elements
  <1> QED BY <1>1, <1>2 DEF IInv, SentAreAlive, Alive, SuccessIsComplete

-----------------------------------------------------------------------------
(* Every variable keeps its type, and no cursor is past the end of the     *)
(* collection.                                                             *)
THEOREM TypeCorrect == Spec => []TypeOK
  <1>1. IInv => TypeOK
    BY DEF IInv, Types
  <1> QED BY <1>1, Invariance, PTL

(* Runs of the loader are on the topic one after the other, and each in    *)
(* the order of the collection with no document twice, whatever is stored  *)
(* while the cursor is open and whatever fails.                            *)
THEOREM OrderKept == Spec => []ReplayedInOrder
  BY Invariance, OrderOfBoth, PTL

(* When the loader says that it has succeeded, every document there was    *)
(* when it started has been delivered or has failed.                       *)
THEOREM SuccessTold == Spec => []SuccessIsComplete
  BY Invariance, DoneIsComplete, PTL

(* A document marked with the time of a run of the loader was sent by it.  *)
THEOREM MarkedWasSent == Spec => []AccessedWasSent
  <1>1. IInv => AccessedWasSent
    BY DEF IInv
  <1> QED BY <1>1, Invariance, PTL

(* A document marked with the time of a run of the imitator was published  *)
(* by it, or a link has broken.                                            *)
THEOREM MarkedWasPublished == Spec => []AccessedWasPublished
  <1>1. IInv => AccessedWasPublished
    BY DEF IInv
  <1> QED BY <1>1, Invariance, PTL
=============================================================================
