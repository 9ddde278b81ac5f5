---------------------- MODULE SensorTransmissionProofs ----------------------
(***************************************************************************)
(* What is proved of the phone's store and of the sessions that drain it,  *)
(* for every number of launches, records and sessions and every maxCount.  *)
(*                                                                         *)
(* 1. Type correctness and crash consistency (IInv), however a send ends   *)
(*    and overlapping sessions too.                                        *)
(* 2. A line is acknowledged only when a send of it returned true          *)
(*    (DeliveryInv), however a send ends, when sessions do not overlap.    *)
(* 3. No batch is lost and the store implements the abstract outbox        *)
(*    (CleanInv), when sends succeed too.                                  *)
(* 4. A batch is sent once until a launch dies (OnceInv), under the same    *)
(*    conditions.                                                          *)
(***************************************************************************)
EXTENDS SensorTransmission, SequenceTheorems, FiniteSetTheorems, TLAPS

(* Steps of the code that runs under the index lock.                       *)
UnderLock ==
  \/ step \in {"sweep", "unlink", "release"}
  \/ step \in {"truncate", "write"} /\ after \in {"unlink", "release"}

Removing ==
  \/ step = "unlink"
  \/ step \in {"truncate", "write"} /\ after = "unlink"

(* Data files are listed in the order of the launches that made them.      *)
Increasing(list) ==
  \A i, j \in DOMAIN list : i < j => list[i].location < list[j].location

Ordered ==
  /\ Increasing(indexes) /\ Increasing(indexJson)
  /\ \A i \in DOMAIN indexes : indexes[i].location <= launch
  /\ \A i \in DOMAIN indexJson : indexJson[i].location <= launch
  /\ step = "register" =>
       /\ launch \in Files
       /\ \A i \in DOMAIN indexes : indexes[i].location < launch
  /\ step \in {"truncate", "write"} /\ after = "register" =>
       launch \in Files /\ indexes = <<>>

AllExist ==
  /\ \A i \in DOMAIN indexes : indexes[i].location \in files
  /\ ~indexTorn => \A i \in DOMAIN indexJson : indexJson[i].location \in files

RemovalOK ==
  /\ step = "unlink" => ~indexTorn /\ indexJson = indexes
  /\ Removing => \A i \in DOMAIN indexes : indexes[i].location # victim

Continuation == after \in {"register", "idle", "unlink", "release"}

LockOK ==
  /\ UnderLock => lockQ # <<>>
  /\ cursor.file # 0 =>
       /\ step = "idle" /\ lockQ # <<>> /\ lockQ[1].kind = "load"
       /\ cursor.file <= Len(indexes)

SendingOK == \A s \in Sessions : pc[s] = "sending" => buffer[s] # <<>>

IInv ==
  /\ TypeOK /\ Ordered /\ AllExist /\ RemovalOK /\ Continuation /\ LockOK
  /\ CurrentFileKept /\ SendingOK

LEMMA InitIInv == Init => IInv
<1> SUFFICES ASSUME Init PROVE IInv
  OBVIOUS
<1> USE DEF Init, LocalInit
<1>1. LocalTypeOK
  <2>1. /\ launch \in 0..MaxLaunches /\ files \subseteq Files
        /\ indexTorn \in BOOLEAN
        /\ step \in Steps /\ after \in Steps /\ victim \in Nat
    BY LaunchesAssumption DEF Steps
  <2>2. lines \in [Files -> Seq(Records)] /\ buffer \in [Sessions -> Seq(Records)]
    OBVIOUS
  <2>3. /\ indexJson \in Seq(SensorIndex) /\ indexes \in Seq(SensorIndex)
        /\ lockQ \in Seq(Job)
    OBVIOUS
  <2>4. cursor \in [file : Nat, from : Nat, read : Nat, total : Nat,
                    terminated : BOOLEAN]
    BY DEF NoLoad
  <2>5. stream \in [Sessions -> {"none", "open", "closed", "cancelled"}]
    OBVIOUS
  <2> QED
    BY <2>1, <2>2, <2>3, <2>4, <2>5 DEF LocalTypeOK
<1>2. TypeOK
  <2>1. pc \in [Sessions -> PC] /\ counter \in [Sessions -> Nat]
    BY DEF PC
  <2>2. networkEnabled \in BOOLEAN
    OBVIOUS
  <2>3. produced \in 0..MaxRecords
    BY RecordsAssumption
  <2>4. /\ live \subseteq Records /\ sent \subseteq Records
        /\ resent \subseteq Records /\ lostToKill \subseteq Records
    OBVIOUS
  <2> QED
    BY <1>1, <2>1, <2>2, <2>3, <2>4 DEF TypeOK
<1>3. Ordered /\ AllExist /\ RemovalOK /\ Continuation /\ LockOK /\ CurrentFileKept
    /\ SendingOK
  BY DEF SendingOK, Ordered, Increasing, AllExist, RemovalOK, Removing, Continuation,
         LockOK, UnderLock, CurrentFileKept, Initialised, NoLoad
<1> QED
  BY <1>2, <1>3 DEF IInv

(* Steps that leave the store's files, index and lock alone.               *)
LEMMA FrameIInv ==
  ASSUME IInv, TypeOK', SendingOK',
         UNCHANGED <<launch, files, indexJson, indexTorn, indexes, lockQ, cursor,
                     step, after, victim>>
  PROVE  IInv'
  BY DEF IInv, Ordered, Increasing, AllExist, RemovalOK, Removing, Continuation,
      LockOK, UnderLock, CurrentFileKept, Initialised

-----------------------------------------------------------------------------
(* What records and the sessions do outside the store.                     *)

(* A stored record makes a data file one line longer.                      *)
LEMMA StoreTypes ==
  ASSUME lines \in [Files -> Seq(Records)], NEW r \in Records, StoreToEnd(r)
  PROVE  lines' \in [Files -> Seq(Records)]
<1>1. \A f \in Files : Append(lines[f], r) \in Seq(Records)
  BY AppendProperties
<1> QED
  BY <1>1 DEF StoreToEnd

LEMMA TransmitIInv ==
  ASSUME IInv,
         \/ TransmitOffline \/ TransmitOnline \/ DisableNetwork \/ EnableWithoutReceiver
         \/ \E r \in Records : LiveSent(r) \/ LiveFailed(r)
  PROVE  IInv'
<1> USE DEF localVars, diskVars, loadVars, sectionVars, sessionVars, historyVars
<1>0. TypeOK /\ SendingOK
  BY DEF IInv
<1>1. CASE TransmitOffline
  <2>1. produced + 1 \in Records /\ produced' \in 0..MaxRecords
    BY <1>0, <1>1, RecordsAssumption DEF TransmitOffline, TypeOK, Records
  <2>2. lines' \in [Files -> Seq(Records)]
    BY <1>0, <1>1, <2>1, StoreTypes DEF TransmitOffline, TypeOK, LocalTypeOK
  <2>3. TypeOK'
    BY <1>0, <1>1, <2>1, <2>2 DEF TransmitOffline, StoreToEnd, TypeOK, LocalTypeOK
  <2> QED
    BY <1>1, <2>3, <1>0, FrameIInv DEF SendingOK, TransmitOffline, StoreToEnd
<1>2. CASE TransmitOnline
  <2>1. produced + 1 \in Records /\ produced' \in 0..MaxRecords
    BY <1>0, <1>2, RecordsAssumption DEF TransmitOnline, TypeOK, Records
  <2>2. TypeOK'
    BY <1>0, <1>2, <2>1 DEF TransmitOnline, TypeOK, LocalTypeOK
  <2> QED
    BY <1>2, <2>2, <1>0, FrameIInv DEF SendingOK, TransmitOnline
<1>3. CASE DisableNetwork \/ EnableWithoutReceiver
  <2>1. TypeOK'
    BY <1>0, <1>3 DEF DisableNetwork, EnableWithoutReceiver, TypeOK, LocalTypeOK
  <2> QED
    BY <1>3, <2>1, <1>0, FrameIInv DEF SendingOK, DisableNetwork, EnableWithoutReceiver
<1>4. ASSUME NEW r \in Records, LiveSent(r)
      PROVE  IInv'
  <2>1. TypeOK'
    BY <1>0, <1>4 DEF LiveSent, Delivered, TypeOK, LocalTypeOK
  <2> QED
    BY <1>4, <2>1, <1>0, FrameIInv DEF SendingOK, LiveSent
<1>5. ASSUME NEW r \in Records, LiveFailed(r)
      PROVE  IInv'
  <2>1. lines' \in [Files -> Seq(Records)]
    BY <1>0, <1>5, StoreTypes DEF LiveFailed, TypeOK, LocalTypeOK
  <2>2. TypeOK'
    BY <1>0, <1>5, <2>1 DEF LiveFailed, StoreToEnd, TypeOK, LocalTypeOK
  <2> QED
    BY <1>5, <2>2, <1>0, FrameIInv DEF SendingOK, LiveFailed, StoreToEnd
<1> QED
  BY <1>1, <1>2, <1>3, <1>4, <1>5

(* Session steps that only touch the session, its stream and the history.  *)
LEMMA SendIInv ==
  ASSUME IInv, NEW s \in Sessions,
         EnableNetwork(s) \/ StartSend(s) \/ SendEnds(s)
  PROVE  IInv'
<1> USE DEF localVars, diskVars, loadVars, sectionVars, sessionVars, historyVars
<1>0. TypeOK /\ SendingOK
  BY DEF IInv
<1>1. CASE EnableNetwork(s)
  <2>1. pc' \in [Sessions -> PC]
    BY <1>0, <1>1 DEF EnableNetwork, TypeOK, PC
  <2>2. TypeOK'
    BY <1>0, <1>1, <2>1 DEF EnableNetwork, TypeOK, LocalTypeOK
  <2> QED
    BY <1>1, <2>2, <1>0, FrameIInv DEF SendingOK, EnableNetwork
<1>2. CASE StartSend(s)
  <2>1. pc' \in [Sessions -> PC]
    BY <1>0, <1>2 DEF StartSend, TypeOK, PC
  <2>2. TypeOK'
    BY <1>0, <1>2, <2>1 DEF StartSend, TypeOK, LocalTypeOK
  <2> QED
    BY <1>2, <2>2, <1>0, FrameIInv DEF SendingOK, StartSend
<1>3. CASE SendReturnsTrue(s)
  <2>1. pc' \in [Sessions -> PC] /\ counter' \in [Sessions -> Nat]
    BY <1>0, <1>3 DEF SendReturnsTrue, TypeOK, PC
  <2>2. buffer[s] \in Seq(Records) /\ buffer[s] # <<>>
    BY <1>0, <1>3 DEF SendReturnsTrue, SendingOK, TypeOK, LocalTypeOK
  <2>3. Tail(buffer[s]) \in Seq(Records) /\ Head(buffer[s]) \in Records
    BY <2>2, HeadTailProperties
  <2>4. buffer' \in [Sessions -> Seq(Records)]
    BY <1>0, <1>3, <2>3 DEF SendReturnsTrue, TypeOK, LocalTypeOK
  <2>5. sent' \subseteq Records /\ resent' \subseteq Records
    BY <1>0, <1>3, <2>3 DEF SendReturnsTrue, Delivered, TypeOK
  <2>6. TypeOK'
    BY <1>0, <1>3, <2>1, <2>4, <2>5
    DEF SendReturnsTrue, Delivered, TypeOK, LocalTypeOK
  <2>7. SendingOK'
    BY <1>0, <1>3 DEF SendReturnsTrue, SendingOK, TypeOK, LocalTypeOK
  <2> QED
    BY <1>3, <2>6, <2>7, FrameIInv DEF SendReturnsTrue
<1>4. CASE SendReturnsFalse(s) \/ SendThrows(s)
  <2>1. pc' \in [Sessions -> PC]
    BY <1>0, <1>4 DEF SendReturnsFalse, SendThrows, TypeOK, PC
  <2>2. /\ stream' \in [Sessions -> {"none", "open", "closed", "cancelled"}]
        /\ buffer' \in [Sessions -> Seq(Records)]
    <3>1. CancelStream(s)
      BY <1>4 DEF SendReturnsFalse, SendThrows
    <3>2. stream' \in [Sessions -> {"none", "open", "closed", "cancelled"}]
      BY <1>0, <3>1 DEF CancelStream, TypeOK, LocalTypeOK
    <3>3. buffer' \in [Sessions -> Seq(Records)]
      BY <1>0, <3>1, EmptySeq DEF CancelStream, TypeOK, LocalTypeOK
    <3> QED
      BY <3>2, <3>3
  <2>3. TypeOK'
    BY <1>0, <1>4, <2>1, <2>2
    DEF SendReturnsFalse, SendThrows, TypeOK, LocalTypeOK
  <2>4. SendingOK'
    BY <1>0, <1>4
    DEF SendReturnsFalse, SendThrows, CancelStream, SendingOK, TypeOK, LocalTypeOK
  <2> QED
    BY <1>4, <2>3, <2>4, FrameIInv DEF SendReturnsFalse, SendThrows
<1> QED
  BY <1>1, <1>2, <1>3, <1>4 DEF SendEnds

-----------------------------------------------------------------------------
(* Loads and acknowledgements.                                             *)

LEMMA EnqueueProperties ==
  ASSUME TypeOK, NEW s \in Sessions, NEW kind \in {"load", "ack", "nack"},
         NEW n \in Nat, Enqueue(kind, s, n)
  PROVE  /\ lockQ' \in Seq(Job) /\ lockQ' # <<>>
         /\ lockQ # <<>> => lockQ'[1] = lockQ[1]
<1>1. [kind |-> kind, by |-> s, count |-> n] \in Job
  BY DEF Job
<1>2. lockQ \in Seq(Job)
  BY DEF TypeOK, LocalTypeOK
<1>3. lockQ # <<>> => 1 \in 1..Len(lockQ)
  BY <1>2, EmptySeq, LenProperties
<1> QED
  BY <1>1, <1>2, <1>3, AppendProperties DEF Enqueue

LEMMA StartPassIInv ==
  ASSUME IInv, NEW s \in Sessions, StartPass(s)
  PROVE  IInv'
<1> USE DEF diskVars, sectionVars, historyVars
<1>0. TypeOK /\ SendingOK
  BY DEF IInv
<1>1. /\ lockQ' \in Seq(Job) /\ lockQ' # <<>>
      /\ lockQ # <<>> => lockQ'[1] = lockQ[1]
  BY <1>0, EnqueueProperties DEF StartPass, LoadFromBegin
<1>2. /\ stream' \in [Sessions -> {"none", "open", "closed", "cancelled"}]
      /\ pc' \in [Sessions -> PC] /\ counter' \in [Sessions -> Nat]
  BY <1>0 DEF StartPass, LoadFromBegin, TypeOK, LocalTypeOK, PC
<1>3. TypeOK'
  BY <1>0, <1>1, <1>2 DEF StartPass, LoadFromBegin, TypeOK, LocalTypeOK
<1>4. SendingOK'
  BY <1>0 DEF StartPass, LoadFromBegin, SendingOK, TypeOK, LocalTypeOK
<1>5. LockOK'
  BY <1>1 DEF IInv, StartPass, LoadFromBegin, LockOK, UnderLock
<1> QED
  BY <1>3, <1>4, <1>5
  DEF IInv, StartPass, LoadFromBegin, Ordered, Increasing, AllExist, RemovalOK,
      Removing, Continuation, CurrentFileKept, Initialised

LEMMA LocationTypes == \A e \in SensorIndex : e.location \in Nat
  BY LaunchesAssumption DEF SensorIndex, Files

LEMMA IndexesFacts ==
  ASSUME TypeOK
  PROVE  /\ Len(indexes) \in Nat /\ DOMAIN indexes = 1..Len(indexes)
         /\ \A i \in DOMAIN indexes : indexes[i] \in SensorIndex
         /\ indexes # <<>> => Len(indexes) >= 1
  BY EmptySeq, LenProperties DEF TypeOK, LocalTypeOK

LEMMA OpenFileTypes ==
  ASSUME TypeOK, NEW i \in DOMAIN indexes, NEW n \in Nat, OpenFile(i, n)
  PROVE  /\ cursor' \in [file : Nat, from : Nat, read : Nat, total : Nat,
                         terminated : BOOLEAN]
         /\ cursor'.file = i
<1>1. i \in Nat /\ indexes[i].position \in Nat
  BY IndexesFacts DEF SensorIndex
<1> QED
  BY <1>1 DEF OpenFile

LEMMA LoadStartIInv ==
  ASSUME IInv, NEW s \in Sessions, LoadStart(s), UNCHANGED transmitVars
  PROVE  IInv'
<1> USE DEF transmitVars, sessionVars, historyVars, diskVars, sectionVars
<1>0. TypeOK /\ SendingOK
  BY DEF IInv
<1>1. indexes # <<>> /\ 1 \in DOMAIN indexes
  BY <1>0, IndexesFacts DEF IInv, CurrentFileKept, Initialised, LoadStart
<1>2. /\ cursor' \in [file : Nat, from : Nat, read : Nat, total : Nat,
                      terminated : BOOLEAN]
      /\ cursor'.file = 1
  BY <1>0, <1>1, OpenFileTypes DEF LoadStart
<1>3. TypeOK'
  BY <1>0, <1>2 DEF LoadStart, TypeOK, LocalTypeOK
<1>4. SendingOK'
  BY <1>0 DEF LoadStart, SendingOK
<1>5. LockOK'
  BY <1>0, <1>1, <1>2, IndexesFacts DEF IInv, LoadStart, HoldsLock, LockOK, UnderLock
<1> QED
  BY <1>3, <1>4, <1>5
  DEF IInv, LoadStart, Ordered, Increasing, AllExist, RemovalOK,
      Removing, Continuation, CurrentFileKept, Initialised

LEMMA ReadLineIInv ==
  ASSUME IInv, NEW s \in Sessions, ReadLine(s), UNCHANGED transmitVars
  PROVE  IInv'
<1> USE DEF transmitVars, sessionVars, historyVars, diskVars, sectionVars
<1> DEFINE file == indexes[cursor.file].location
           next == cursor.from + cursor.read + 1
<1>0. TypeOK /\ SendingOK
  BY DEF IInv
<1>1. cursor.file \in DOMAIN indexes
  BY <1>0, IndexesFacts DEF IInv, ReadLine, LockOK, TypeOK, LocalTypeOK
<1>2. file \in Files
  BY <1>0, <1>1, IndexesFacts DEF SensorIndex
<1>3. lines[file] \in Seq(Records)
  BY <1>0, <1>2 DEF TypeOK, LocalTypeOK
<1>4. next \in 1..Len(lines[file])
  <2>1. cursor.from \in Nat /\ cursor.read \in Nat /\ Len(lines[file]) \in Nat
    BY <1>0, <1>3, LenProperties DEF TypeOK, LocalTypeOK
  <2>2. Len(lines[file]) - cursor.from - cursor.read > 0
    BY DEF ReadLine, UnreadLines
  <2> QED
    BY SMTT(20), <2>1, <2>2
<1>5. lines[file][next] \in Records
  BY <1>3, <1>4, LenProperties
<1>6. /\ buffer' \in [Sessions -> Seq(Records)]
      /\ SendingOK'
  <2>1. CASE cursor.total = MaxCount
    BY <1>0, <2>1 DEF ReadLine, SendingOK, TypeOK, LocalTypeOK
  <2>2. CASE cursor.total # MaxCount
    <3>1. buffer' = [buffer EXCEPT ![s] = Append(@, lines[file][next])]
      BY <2>2 DEF ReadLine
    <3>2. buffer[s] \in Seq(Records)
      BY <1>0 DEF TypeOK, LocalTypeOK
    <3>3. /\ Append(buffer[s], lines[file][next]) \in Seq(Records)
          /\ Append(buffer[s], lines[file][next]) # <<>>
      BY <1>5, <3>2, AppendProperties
    <3> QED
      BY <1>0, <3>1, <3>3 DEF ReadLine, SendingOK, TypeOK, LocalTypeOK
  <2> QED
    BY <2>1, <2>2
<1>7. /\ cursor' \in [file : Nat, from : Nat, read : Nat, total : Nat,
                      terminated : BOOLEAN]
      /\ cursor'.file = cursor.file
  <2>1. cursor \in [file : Nat, from : Nat, read : Nat, total : Nat,
                    terminated : BOOLEAN]
    BY <1>0 DEF TypeOK, LocalTypeOK
  <2>2. \/ cursor' = [cursor EXCEPT !.terminated = TRUE]
        \/ cursor' = [cursor EXCEPT !.total = @ + 1, !.read = @ + 1]
    BY DEF ReadLine
  <2>3. CASE cursor' = [cursor EXCEPT !.terminated = TRUE]
    BY <2>1, <2>3
  <2>4. CASE cursor' = [cursor EXCEPT !.total = @ + 1, !.read = @ + 1]
    <3>1. cursor.total + 1 \in Nat /\ cursor.read + 1 \in Nat
      BY <2>1
    <3> QED
      BY <2>1, <2>4, <3>1
  <2> QED
    BY <2>2, <2>3, <2>4
<1>8. TypeOK'
  BY <1>0, <1>6, <1>7 DEF ReadLine, TypeOK, LocalTypeOK
<1>9. LockOK'
  BY <1>7 DEF IInv, ReadLine, LockOK, UnderLock
<1> QED
  BY <1>6, <1>8, <1>9
  DEF IInv, ReadLine, Ordered, Increasing, AllExist, RemovalOK,
      Removing, Continuation, CurrentFileKept, Initialised

(* Steps that rewrite positions, pending counts and end marks, and neither *)
(* the list of data files nor the end mark of the current one.             *)
SameFiles(list) ==
  /\ list \in Seq(SensorIndex) /\ Len(list) = Len(indexes)
  /\ \A i \in DOMAIN indexes : list[i].location = indexes[i].location
  /\ indexes # <<>> => (list[Len(indexes)].isEnd => indexes[Len(indexes)].isEnd)

LEMMA SameFilesIInv ==
  ASSUME IInv, SameFiles(indexes'), step # "unlink",
         UNCHANGED <<launch, files, indexJson, indexTorn, after, victim>>,
         step' \in {step, "idle", "run", "sweep"},
         step \in {"idle", "run"}
  PROVE  /\ (Ordered /\ AllExist /\ RemovalOK /\ Continuation)'
         /\ CurrentFileKept'
<1>0. TypeOK
  BY DEF IInv
<1>1. /\ DOMAIN indexes' = DOMAIN indexes /\ DOMAIN indexes = 1..Len(indexes)
      /\ Len(indexes) \in Nat /\ indexes' \in Seq(SensorIndex)
  BY <1>0, IndexesFacts, LenProperties DEF SameFiles
<1>2. indexes # <<>>
  BY DEF IInv, CurrentFileKept, Initialised
<1>3. Len(indexes) \in DOMAIN indexes /\ indexes' # <<>>
  BY <1>0, <1>1, <1>2, IndexesFacts, EmptySeq DEF SameFiles
<1>4. Ordered' /\ AllExist'
  BY <1>1 DEF IInv, SameFiles, Ordered, Increasing, AllExist
<1>5. RemovalOK' /\ Continuation'
  BY DEF IInv, RemovalOK, Removing, Continuation
<1>6. CurrentFileKept'
  BY <1>1, <1>2, <1>3 DEF IInv, CurrentFileKept, Initialised, SameFiles
<1> QED
  BY <1>4, <1>5, <1>6

LEMMA AckSameFiles ==
  ASSUME TypeOK, NEW n \in Nat, AckFromBegin(n)
  PROVE  SameFiles(indexes')
<1>1. PICK k \in DOMAIN indexes :
        \E p \in indexes[k].position..indexes[k].pending : indexes' = AckedUpTo(k, p)
  BY DEF AckFromBegin
<1>2. PICK p \in indexes[k].position..indexes[k].pending : indexes' = AckedUpTo(k, p)
  BY <1>1
<1>3. /\ Len(indexes) \in Nat /\ DOMAIN indexes = 1..Len(indexes)
      /\ \A i \in DOMAIN indexes : indexes[i] \in SensorIndex
  BY IndexesFacts
<1>4. p \in Nat
  BY <1>2, <1>3 DEF SensorIndex
<1>5. \A i \in DOMAIN indexes :
        /\ indexes'[i] \in SensorIndex
        /\ indexes'[i].location = indexes[i].location
        /\ indexes'[i].isEnd = indexes[i].isEnd
  BY <1>2, <1>3, <1>4 DEF AckedUpTo, SensorIndex
<1>6. indexes' \in [1..Len(indexes) -> SensorIndex]
  BY <1>2, <1>3, <1>5 DEF AckedUpTo
<1>7. indexes' \in Seq(SensorIndex) /\ Len(indexes') = Len(indexes)
  BY <1>3, <1>6
<1>8. indexes # <<>> => Len(indexes) \in DOMAIN indexes
  BY <1>3, IndexesFacts
<1> QED
  BY <1>5, <1>7, <1>8 DEF SameFiles

LEMMA EndFileIInv ==
  ASSUME IInv, NEW s \in Sessions, EndFile(s), UNCHANGED transmitVars
  PROVE  IInv'
<1> USE DEF transmitVars, sessionVars, historyVars, diskVars, sectionVars
<1> DEFINE f == cursor.file
<1>0. TypeOK /\ SendingOK
  BY DEF IInv
<1>1. /\ f \in DOMAIN indexes /\ lockQ # <<>>
      /\ Len(indexes) \in Nat /\ DOMAIN indexes = 1..Len(indexes)
      /\ \A i \in DOMAIN indexes : indexes[i] \in SensorIndex
  BY SMTT(20), <1>0, IndexesFacts DEF IInv, EndFile, LockOK, TypeOK, LocalTypeOK
<1>2. /\ cursor \in [file : Nat, from : Nat, read : Nat, total : Nat,
                     terminated : BOOLEAN]
      /\ lockQ \in Seq(Job)
  BY <1>0 DEF TypeOK, LocalTypeOK
<1>3. SameFiles(indexes')
  <2> DEFINE new == Loaded(indexes[f])
  <2>1. indexes' = [indexes EXCEPT ![f] = new]
    BY DEF EndFile
  <2>2. indexes[f].pending + cursor.read \in Nat /\ (indexes[f].isEnd \/ MarksEnd) \in BOOLEAN
    BY <1>1, <1>2 DEF SensorIndex
  <2>3. new \in SensorIndex /\ new.location = indexes[f].location
    BY <1>1, <2>2 DEF Loaded, SensorIndex
  <2>4. f = Len(indexes) => (new.isEnd => indexes[f].isEnd)
    BY <1>1 DEF Loaded, MarksEnd, IsLast, SensorIndex
  <2>5. indexes' \in [1..Len(indexes) -> SensorIndex]
    BY <1>1, <2>1, <2>3
  <2>6. indexes' \in Seq(SensorIndex) /\ Len(indexes') = Len(indexes)
    BY <1>1, <2>5
  <2> HIDE DEF new
  <2> QED
    BY <1>1, <2>1, <2>3, <2>4, <2>6 DEF SameFiles
<1>4. Ordered' /\ AllExist' /\ RemovalOK' /\ Continuation' /\ CurrentFileKept'
  BY <1>3, SameFilesIInv DEF EndFile
<1>5. /\ cursor' \in [file : Nat, from : Nat, read : Nat, total : Nat,
                      terminated : BOOLEAN]
      /\ lockQ' \in Seq(Job)
      /\ stream' \in [Sessions -> {"none", "open", "closed", "cancelled"}]
      /\ LockOK'
  <2>1. CASE IsLast(f)
    <3>1. cursor' = NoLoad /\ lockQ' = Tail(lockQ)
      BY <2>1 DEF EndFile
    <3>2. lockQ' \in Seq(Job)
      BY <1>1, <1>2, <3>1, HeadTailProperties
    <3>3. stream' \in [Sessions -> {"none", "open", "closed", "cancelled"}]
      BY <1>0, <2>1 DEF EndFile, TypeOK, LocalTypeOK
    <3> QED
      BY <3>1, <3>2, <3>3 DEF EndFile, NoLoad, LockOK, UnderLock
  <2>2. CASE ~IsLast(f)
    <3>1. f + 1 \in DOMAIN indexes /\ cursor.total \in Nat
      BY <1>1, <1>2, <2>2 DEF IsLast
    <3>2. OpenFile(f + 1, cursor.total) /\ UNCHANGED <<lockQ, stream>>
      BY <2>2 DEF EndFile
    <3>3. /\ cursor' \in [file : Nat, from : Nat, read : Nat, total : Nat,
                          terminated : BOOLEAN]
          /\ cursor'.file = f + 1
      BY <1>0, <3>1, <3>2, OpenFileTypes
    <3>4. LockOK'
      BY <1>1, <1>3, <3>1, <3>2, <3>3
      DEF IInv, EndFile, LockOK, UnderLock, SameFiles
    <3> QED
      BY <1>0, <3>2, <3>3, <3>4 DEF TypeOK, LocalTypeOK
  <2> QED
    BY <2>1, <2>2
<1>6. TypeOK'
  BY <1>0, <1>3, <1>5 DEF EndFile, SameFiles, TypeOK, LocalTypeOK
<1>7. SendingOK'
  BY <1>0 DEF EndFile, SendingOK
<1> QED
  BY <1>4, <1>5, <1>6, <1>7 DEF IInv

LEMMA EndPassIInv ==
  ASSUME IInv, NEW s \in Sessions, EndPass(s) \/ FailPass(s)
  PROVE  IInv'
<1> USE DEF sessionVars, historyVars, diskVars, sectionVars
<1>0. TypeOK /\ SendingOK /\ counter[s] \in Nat
  BY DEF IInv, TypeOK
<1>1. /\ step = "idle" /\ step' \in {"idle", "run"}
      /\ lockQ # <<>> => step' = "idle"
      /\ UNCHANGED <<diskVars, cursor, after, victim, stream, buffer, networkEnabled,
                     produced, live, counter, historyVars>>
      /\ pc' \in [Sessions -> PC]
      /\ pc'[s] # "sending" /\ \A t \in Sessions \ {s} : pc'[t] = pc[t]
  BY <1>0 DEF EndPass, FailPass, CallAck, CallNAck, RunOrWait, TypeOK, PC
<1>2. /\ lockQ' \in Seq(Job) /\ lockQ' # <<>>
      /\ lockQ # <<>> => lockQ'[1] = lockQ[1]
  <2>1. Enqueue("ack", s, counter[s]) \/ Enqueue("nack", s, counter[s])
    BY DEF EndPass, FailPass, CallAck, CallNAck
  <2> QED
    BY <1>0, <2>1, EnqueueProperties
<1>3. SameFiles(indexes')
  <2>1. CASE EndPass(s)
    <3>1. indexes' = indexes /\ indexes \in Seq(SensorIndex)
      BY <1>0, <2>1 DEF EndPass, CallAck, TypeOK, LocalTypeOK
    <3> QED
      BY <3>1 DEF SameFiles
  <2>2. CASE FailPass(s)
    BY <1>0, <2>2, AckSameFiles DEF FailPass, CallNAck
  <2> QED
    BY <2>1, <2>2
<1>4. Ordered' /\ AllExist' /\ RemovalOK' /\ Continuation' /\ CurrentFileKept'
  BY <1>1, <1>3, SameFilesIInv
<1>5. LockOK'
  BY <1>1, <1>2, <1>3 DEF IInv, LockOK, UnderLock, SameFiles
<1>6. TypeOK'
  BY <1>0, <1>1, <1>2, <1>3 DEF SameFiles, TypeOK, LocalTypeOK, Steps
<1>7. SendingOK'
  BY <1>0, <1>1 DEF SendingOK
<1> QED
  BY <1>4, <1>5, <1>6, <1>7 DEF IInv

LEMMA AckStepIInv ==
  ASSUME IInv, NEW s \in Sessions, AckStep(s)
  PROVE  IInv'
<1> USE DEF transmitVars, sessionVars, historyVars, diskVars, loadVars
<1>0. TypeOK /\ SendingOK
  BY DEF IInv
<1>1. /\ step \in {"idle", "run"} /\ step' = "sweep"
      /\ lockQ # <<>> /\ lockQ[1].kind # "load"
      /\ UNCHANGED <<transmitVars, diskVars, lockQ, loadVars, after, victim>>
  BY DEF AckStep, RunAck, RunNAck, HoldsLock
<1>2. SameFiles(indexes')
  <2>1. CASE RunAck(s)
    <3>1. lockQ[1] \in Job
      BY <1>0, <1>1, EmptySeq, LenProperties DEF TypeOK, LocalTypeOK
    <3>2. lockQ[1].count \in Nat
      BY <3>1 DEF Job
    <3> QED
      BY <1>0, <2>1, <3>2, AckSameFiles DEF RunAck
  <2>2. CASE RunNAck(s)
    <3>1. /\ Len(indexes) \in Nat /\ DOMAIN indexes = 1..Len(indexes)
          /\ \A i \in DOMAIN indexes : indexes[i] \in SensorIndex
          /\ indexes # <<>> => Len(indexes) \in DOMAIN indexes
      BY <1>0, IndexesFacts
    <3>2. \A i \in DOMAIN indexes :
            /\ indexes'[i] \in SensorIndex
            /\ indexes'[i].location = indexes[i].location
            /\ indexes'[i].isEnd => indexes[i].isEnd
      BY <2>2, <3>1 DEF RunNAck, SensorIndex
    <3>3. indexes' \in [1..Len(indexes) -> SensorIndex]
      BY <2>2, <3>1, <3>2 DEF RunNAck
    <3>4. indexes' \in Seq(SensorIndex) /\ Len(indexes') = Len(indexes)
      BY <3>1, <3>3
    <3> QED
      BY <3>1, <3>2, <3>4 DEF SameFiles
  <2> QED
    BY <2>1, <2>2 DEF AckStep
<1>3. Ordered' /\ AllExist' /\ RemovalOK' /\ Continuation' /\ CurrentFileKept'
  BY <1>1, <1>2, SameFilesIInv
<1>4. LockOK'
  BY <1>1 DEF IInv, LockOK, UnderLock
<1>5. TypeOK'
  BY <1>0, <1>1, <1>2 DEF SameFiles, TypeOK, LocalTypeOK, Steps
<1>6. SendingOK'
  BY <1>0, <1>1 DEF SendingOK
<1> QED
  BY <1>3, <1>4, <1>5, <1>6 DEF IInv

-----------------------------------------------------------------------------
(* Writing the index, removing data files, launching and dying.            *)

LEMMA StoreIndexIInv ==
  ASSUME IInv, TruncateIndex \/ WriteIndex, UNCHANGED transmitVars
  PROVE  IInv'
<1> USE DEF transmitVars, sessionVars, historyVars, loadVars
<1>0. TypeOK /\ SendingOK
  BY DEF IInv
<1>1. CASE TruncateIndex
  <2>1. TypeOK'
    BY <1>0, <1>1 DEF TruncateIndex, TypeOK, LocalTypeOK, Steps
  <2> QED
    BY <1>0, <1>1, <2>1
    DEF IInv, TruncateIndex, SendingOK, Ordered, Increasing, AllExist, RemovalOK,
        Removing, Continuation, LockOK, UnderLock, CurrentFileKept, Initialised
<1>2. CASE WriteIndex
  <2>1. TypeOK'
    BY <1>0, <1>2 DEF WriteIndex, TypeOK, LocalTypeOK, Steps
  <2>2. (Ordered /\ AllExist /\ RemovalOK /\ Continuation)'
    BY <1>2 DEF IInv, WriteIndex, Ordered, Increasing, AllExist, RemovalOK,
                Removing, Continuation
  <2>3. LockOK' /\ CurrentFileKept'
    BY <1>2 DEF IInv, WriteIndex, LockOK, UnderLock, CurrentFileKept, Initialised,
                Continuation
  <2>4. SendingOK'
    BY <1>0, <1>2 DEF WriteIndex, SendingOK
  <2> QED
    BY <2>1, <2>2, <2>3, <2>4 DEF IInv
<1> QED
  BY <1>1, <1>2

LEMMA RemoveIInv ==
  ASSUME IInv, RemoveFirstIndex, UNCHANGED transmitVars
  PROVE  IInv'
<1> USE DEF transmitVars, sessionVars, historyVars, loadVars, diskVars,
            RemoveFirstIndex, StoreIndexContext
<1>0. TypeOK /\ SendingOK
  BY DEF IInv
<1>1. /\ Len(indexes) \in Nat /\ DOMAIN indexes = 1..Len(indexes)
      /\ \A i \in DOMAIN indexes : indexes[i] \in SensorIndex
      /\ indexes # <<>> /\ Len(indexes) >= 1
      /\ indexes[Len(indexes)].location = launch /\ ~indexes[Len(indexes)].isEnd
      /\ indexes \in Seq(SensorIndex)
  BY <1>0, IndexesFacts DEF IInv, CurrentFileKept, Initialised, TypeOK, LocalTypeOK
<1>2. Len(indexes) > 1
  BY <1>1 DEF FirstIsAcked
<1>3. /\ indexes' \in Seq(SensorIndex) /\ Len(indexes') = Len(indexes) - 1
      /\ DOMAIN indexes' = 1..(Len(indexes) - 1)
      /\ \A i \in 1..(Len(indexes) - 1) : indexes'[i] = indexes[i + 1]
  BY <1>1, HeadTailProperties, LenProperties
<1>4. Ordered'
  BY SMTT(20), <1>1, <1>3 DEF IInv, Ordered, Increasing
<1>5. AllExist'
  BY <1>1, <1>3 DEF IInv, AllExist
<1>6. victim \in Nat /\ victim' \in Nat
  <2>1. indexes[1] \in SensorIndex
    BY <1>1, <1>2
  <2>2. indexes[1].location \in Nat
    BY <2>1, LocationTypes
  <2> QED
    BY <1>0, <2>2 DEF TypeOK, LocalTypeOK
<1>7. \A i \in DOMAIN indexes' : indexes'[i].location # victim'
  <2> SUFFICES ASSUME NEW i \in DOMAIN indexes'
               PROVE  indexes'[i].location # victim'
    OBVIOUS
  <2>1. 1 \in DOMAIN indexes /\ i + 1 \in DOMAIN indexes /\ 1 < i + 1
    BY <1>1, <1>2, <1>3
  <2>2. indexes[1].location < indexes[i + 1].location
    BY <2>1 DEF IInv, Ordered, Increasing
  <2>3. indexes[1].location \in Nat /\ indexes[i + 1].location \in Nat
    BY <1>1, <2>1, LocationTypes
  <2> QED
    BY <1>3, <2>2, <2>3
<1>8. RemovalOK' /\ Continuation'
  BY <1>7 DEF RemovalOK, Removing, Continuation
<1>9. CurrentFileKept'
  <2>1. indexes'[Len(indexes')] = indexes[Len(indexes)] /\ indexes' # <<>>
    <3>1. Len(indexes) - 1 \in 1..(Len(indexes) - 1)
      BY <1>1, <1>2
    <3>2. indexes'[Len(indexes) - 1] = indexes[(Len(indexes) - 1) + 1]
      BY <1>3, <3>1
    <3>3. (Len(indexes) - 1) + 1 = Len(indexes) /\ Len(indexes') # 0
      BY <1>1, <1>2, <1>3
    <3> QED
      BY <1>3, <3>2, <3>3, EmptySeq
  <2> QED
    BY <1>1, <2>1 DEF CurrentFileKept
<1>10. LockOK'
  BY DEF IInv, LockOK, UnderLock
<1>11. TypeOK'
  BY <1>0, <1>3, <1>6 DEF TypeOK, LocalTypeOK, Steps
<1> QED
  BY <1>0, <1>4, <1>5, <1>8, <1>9, <1>10, <1>11 DEF IInv, SendingOK

LEMMA SweepIInv ==
  ASSUME IInv, DeleteDataFile \/ FinalStore \/ ReleaseLock, UNCHANGED transmitVars
  PROVE  IInv'
<1> USE DEF transmitVars, sessionVars, historyVars, loadVars, diskVars
<1>0. TypeOK /\ SendingOK
  BY DEF IInv
<1>1. CASE DeleteDataFile
  <2>1. TypeOK'
    BY <1>0, <1>1 DEF DeleteDataFile, TypeOK, LocalTypeOK, Steps
  <2>2. AllExist'
    BY <1>1 DEF IInv, DeleteDataFile, AllExist, RemovalOK, Removing
  <2>3. (Ordered /\ RemovalOK /\ Continuation /\ LockOK /\ CurrentFileKept)'
    BY <1>1
    DEF IInv, DeleteDataFile, Ordered, Increasing, RemovalOK, Removing,
        Continuation, LockOK, UnderLock, CurrentFileKept, Initialised
  <2> QED
    BY <1>0, <1>1, <2>1, <2>2, <2>3 DEF IInv, DeleteDataFile, SendingOK
<1>2. CASE FinalStore
  <2>1. TypeOK'
    BY <1>0, <1>2 DEF FinalStore, StoreIndexContext, TypeOK, LocalTypeOK, Steps
  <2>2. (Ordered /\ AllExist /\ RemovalOK /\ Continuation /\ LockOK /\ CurrentFileKept)'
    BY <1>2
    DEF IInv, FinalStore, StoreIndexContext, Ordered, Increasing, AllExist,
        RemovalOK, Removing, Continuation, LockOK, UnderLock, CurrentFileKept,
        Initialised
  <2> QED
    BY <1>0, <1>2, <2>1, <2>2 DEF IInv, FinalStore, SendingOK
<1>3. CASE ReleaseLock
  <2>1. lockQ # <<>> /\ cursor.file = 0 /\ lockQ \in Seq(Job)
    BY <1>0, <1>3 DEF IInv, ReleaseLock, LockOK, UnderLock, TypeOK, LocalTypeOK
  <2>2. lockQ' \in Seq(Job)
    BY <1>3, <2>1, HeadTailProperties DEF ReleaseLock
  <2>3. TypeOK'
    BY <1>0, <1>3, <2>2 DEF ReleaseLock, TypeOK, LocalTypeOK, Steps
  <2>4. (Ordered /\ AllExist /\ RemovalOK /\ Continuation /\ CurrentFileKept)'
    BY <1>3
    DEF IInv, ReleaseLock, Ordered, Increasing, AllExist, RemovalOK, Removing,
        Continuation, CurrentFileKept, Initialised
  <2>5. LockOK'
    BY <1>3, <2>1 DEF ReleaseLock, LockOK, UnderLock
  <2> QED
    BY <1>0, <1>3, <2>3, <2>4, <2>5 DEF IInv, ReleaseLock, SendingOK
<1> QED
  BY <1>1, <1>2, <1>3

LEMMA LaunchIInv ==
  ASSUME IInv, LaunchAfterTornIndex \/ LaunchWithIndex, UNCHANGED transmitVars
  PROVE  IInv'
<1> USE DEF transmitVars, sessionVars, historyVars, loadVars
<1>0. TypeOK /\ SendingOK
  BY DEF IInv
<1>1. launch' \in 0..MaxLaunches /\ launch' \in Files /\ launch \in Nat /\ launch' = launch + 1
  BY <1>0, LaunchesAssumption
  DEF LaunchAfterTornIndex, LaunchWithIndex, TypeOK, LocalTypeOK, Files
<1>2. cursor.file = 0 /\ step = "down"
  BY DEF IInv, LockOK, LaunchAfterTornIndex, LaunchWithIndex
<1>3. CASE LaunchAfterTornIndex
  <2>1. TypeOK'
    BY <1>0, <1>1, <1>3, EmptySeq
    DEF LaunchAfterTornIndex, StoreIndexContext, TypeOK, LocalTypeOK, Steps
  <2>2. (Ordered /\ AllExist /\ RemovalOK /\ Continuation)'
    BY <1>1, <1>3
    DEF LaunchAfterTornIndex, StoreIndexContext, Ordered, Increasing, AllExist,
        RemovalOK, Removing, Continuation
  <2>3. (LockOK /\ CurrentFileKept)'
    BY <1>2, <1>3
    DEF LaunchAfterTornIndex, StoreIndexContext, LockOK, UnderLock,
        CurrentFileKept, Initialised
  <2> QED
    BY <1>0, <1>3, <2>1, <2>2, <2>3 DEF IInv, LaunchAfterTornIndex, SendingOK
<1>4. CASE LaunchWithIndex
  <2>1. TypeOK'
    BY <1>0, <1>1, <1>4 DEF LaunchWithIndex, TypeOK, LocalTypeOK, Steps
  <2>2. /\ indexJson \in Seq(SensorIndex) /\ DOMAIN indexJson = 1..Len(indexJson)
        /\ \A i \in DOMAIN indexJson : indexJson[i].location \in Nat
    <3>1. indexJson \in Seq(SensorIndex)
      BY <1>0 DEF TypeOK, LocalTypeOK
    <3>2. \A i \in DOMAIN indexJson : indexJson[i] \in SensorIndex
      BY <3>1, LenProperties
    <3> QED
      BY <3>1, <3>2, LenProperties, LocationTypes
  <2>3. Ordered'
    BY <1>1, <1>4, <2>2 DEF IInv, LaunchWithIndex, Ordered, Increasing
  <2>4. (AllExist /\ RemovalOK /\ Continuation)'
    BY <1>4
    DEF IInv, LaunchWithIndex, AllExist, RemovalOK, Removing, Continuation
  <2>5. (LockOK /\ CurrentFileKept)'
    BY <1>2, <1>4
    DEF LaunchWithIndex, LockOK, UnderLock, CurrentFileKept, Initialised
  <2> QED
    BY <1>0, <1>4, <2>1, <2>3, <2>4, <2>5 DEF IInv, LaunchWithIndex, SendingOK
<1> QED
  BY <1>3, <1>4

LEMMA RegisterIInv ==
  ASSUME IInv, RegisterDataFile, UNCHANGED transmitVars
  PROVE  IInv'
<1> USE DEF transmitVars, sessionVars, historyVars, loadVars, RegisterDataFile,
            StoreIndexContext
<1> DEFINE new == [location |-> launch, position |-> 0, pending |-> 0, isEnd |-> FALSE]
<1>0. TypeOK /\ SendingOK
  BY DEF IInv
<1>1. /\ launch \in Files
      /\ \A i \in DOMAIN indexes : indexes[i].location < launch
  BY DEF IInv, Ordered
<1>2. new \in SensorIndex
  BY <1>1 DEF SensorIndex
<1>3. /\ indexes \in Seq(SensorIndex) /\ Len(indexes) \in Nat
      /\ DOMAIN indexes = 1..Len(indexes)
  BY <1>0, LenProperties DEF TypeOK, LocalTypeOK
<1>4. indexes' = Append(indexes, new)
  OBVIOUS
<1>5. /\ indexes' \in Seq(SensorIndex) /\ indexes' # <<>>
      /\ Len(indexes') = Len(indexes) + 1
      /\ \A i \in 1..Len(indexes) : indexes'[i] = indexes[i]
      /\ indexes'[Len(indexes) + 1] = new
  BY <1>2, <1>3, <1>4, AppendProperties
<1>6. DOMAIN indexes' = 1..(Len(indexes) + 1)
  BY <1>5, LenProperties
<1>7. /\ \A i \in DOMAIN indexes' : i \in DOMAIN indexes \/ i = Len(indexes) + 1
      /\ launch \in Nat
  BY <1>1, <1>3, <1>6, LaunchesAssumption DEF Files
<1>8. Ordered'
  <2>1. Increasing(indexes)' /\ Increasing(indexJson)'
    BY <1>1, <1>3, <1>5, <1>6, <1>7 DEF IInv, Ordered, Increasing
  <2>2. \A i \in DOMAIN indexes' : indexes'[i].location <= launch
    BY <1>1, <1>3, <1>5, <1>7 DEF IInv, Ordered
  <2> QED
    BY <2>1, <2>2 DEF IInv, Ordered
<1>9. AllExist'
  BY <1>3, <1>5, <1>7 DEF IInv, AllExist
<1>10. (RemovalOK /\ Continuation)'
  BY DEF RemovalOK, Removing, Continuation
<1>11. CurrentFileKept'
  BY <1>5 DEF CurrentFileKept
<1>12. LockOK'
  BY DEF IInv, LockOK, UnderLock
<1>13. TypeOK'
  BY <1>0, <1>1, <1>5 DEF TypeOK, LocalTypeOK, Steps
<1> QED
  BY <1>0, <1>8, <1>9, <1>10, <1>11, <1>12, <1>13 DEF IInv, SendingOK

LEMMA KillIInv ==
  ASSUME IInv, Kill
  PROVE  IInv'
<1> USE DEF diskVars, Kill, LocalKill
<1>0. TypeOK
  BY DEF IInv
<1>1. StoredIn(files) \subseteq Records
  <2>1. \A f \in files : lines[f] \in Seq(Records)
    BY <1>0 DEF TypeOK, LocalTypeOK
  <2>2. \A f \in files : \A k \in DOMAIN lines[f] : lines[f][k] \in Records
    BY <2>1, LenProperties
  <2> QED
    BY <2>2 DEF StoredIn
<1>2. lostToKill' \subseteq Records
  BY <1>0, <1>1 DEF TypeOK
<1>3. pc' \in [Sessions -> PC] /\ SendingOK'
  BY <1>0 DEF TypeOK, PC, SendingOK
<1>4. /\ cursor' \in [file : Nat, from : Nat, read : Nat, total : Nat,
                      terminated : BOOLEAN]
      /\ cursor'.file = 0
  BY DEF NoLoad
<1>5. /\ stream' \in [Sessions -> {"none", "open", "closed", "cancelled"}]
      /\ buffer' \in [Sessions -> Seq(Records)]
      /\ indexes' \in Seq(SensorIndex) /\ lockQ' \in Seq(Job)
  BY EmptySeq
<1>6. TypeOK'
  BY <1>0, <1>2, <1>3, <1>4, <1>5 DEF TypeOK, LocalTypeOK, Steps
<1>7. (Ordered /\ AllExist /\ RemovalOK /\ Continuation /\ LockOK /\ CurrentFileKept)'
  BY <1>4
  DEF IInv, Ordered, Increasing, AllExist, RemovalOK, Removing, Continuation,
      LockOK, UnderLock, CurrentFileKept, Initialised
<1> QED
  BY <1>3, <1>6, <1>7 DEF IInv

-----------------------------------------------------------------------------
(* The theorems.                                                           *)

LEMMA NextIInv == IInv /\ [Next]_vars => IInv'
<1> SUFFICES ASSUME IInv, [Next]_vars PROVE IInv'
  OBVIOUS
<1>1. CASE InitStep
  BY <1>1, LaunchIInv, RegisterIInv DEF InitStep
<1>2. CASE IndexStep
  BY <1>2, StoreIndexIInv, RemoveIInv, SweepIInv DEF IndexStep
<1>3. CASE TransmitOffline \/ TransmitOnline \/ DisableNetwork \/ EnableWithoutReceiver
  BY <1>3, TransmitIInv
<1>4. CASE \E r \in Records : LiveSent(r) \/ LiveFailed(r)
  BY <1>4, TransmitIInv
<1>5. ASSUME NEW s \in Sessions,
             EnableNetwork(s) \/ LoadStep(s) \/ AckStep(s) \/ SessionStep(s)
      PROVE  IInv'
  <2>1. CASE LoadStep(s)
    BY <2>1, LoadStartIInv, ReadLineIInv, EndFileIInv DEF LoadStep
  <2>2. CASE SessionStep(s)
    BY <2>2, StartPassIInv, SendIInv, EndPassIInv DEF SessionStep
  <2> QED
    BY <1>5, <2>1, <2>2, SendIInv, AckStepIInv
<1>6. CASE Kill
  BY <1>6, KillIInv
<1>7. CASE UNCHANGED vars
  <2>1. TypeOK' /\ SendingOK'
    BY <1>7 DEF IInv, TypeOK, LocalTypeOK, SendingOK, vars, localVars, diskVars,
                loadVars, sectionVars, sessionVars, historyVars
  <2> QED
    BY <1>7, <2>1, FrameIInv DEF vars, localVars, diskVars, loadVars, sectionVars
<1> QED
  BY <1>1, <1>2, <1>3, <1>4, <1>5, <1>6, <1>7 DEF Next

(* The inductive invariant holds in every reachable state.                 *)
THEOREM Invariance == Spec => []IInv
<1>1. Init => IInv
  BY InitIInv
<1>2. IInv /\ [Next]_vars => IInv'
  BY NextIInv
<1> QED
  BY <1>1, <1>2, PTL DEF Spec

(* Every variable keeps its type; in particular no position or count of    *)
(* the index goes negative and no reader leaves its file.                  *)
THEOREM TypeCorrect == Spec => []TypeOK
<1>1. IInv => TypeOK
  BY DEF IInv
<1> QED
  BY <1>1, Invariance, PTL

(* Wherever kills strike, index.json and the indexes in memory name only   *)
(* data files that exist: "delete index before file".                      *)
THEOREM CrashConsistent == Spec => []IndexedFilesExist
<1>1. IInv => IndexedFilesExist
  BY DEF IInv, AllExist, IndexedFilesExist, RangeOf
<1> QED
  BY <1>1, Invariance, PTL

(* The data file being appended to is never deleted, and the list of       *)
(* indexes of a running app is never empty.                                *)
THEOREM CurrentKept == Spec => []CurrentFileKept
<1>1. IInv => CurrentFileKept
  BY DEF IInv
<1> QED
  BY <1>1, Invariance, PTL

-----------------------------------------------------------------------------
(* The queue of the index lock, and where a session is while a job of its  *)
(* waits there.                                                            *)

(* A place <<i, n>> is line n of the data file of index i.                 *)
Size(i) == Len(lines[indexes[i].location])
LineAt(x) == lines[indexes[x[1]].location][x[2]]
Before(x, y) == x[1] < y[1] \/ (x[1] = y[1] /\ x[2] < y[2])
Places == Nat \X Nat

(* A line that is there and is not acknowledged.                           *)
Unacked(x) ==
  /\ x[1] \in DOMAIN indexes
  /\ indexes[x[1]].position < x[2] /\ x[2] <= Size(x[1])

Has(q, x) == \E b \in DOMAIN q : q[b] = x

(* q lists places a load has read: in order, without a gap.                *)
IsRead(q) ==
  /\ q \in Seq(Places)
  /\ \A a \in DOMAIN q : Unacked(q[a])
  /\ \A a, b \in DOMAIN q : a < b => Before(q[a], q[b])
  /\ \A a \in DOMAIN q : \A x \in Places :
       Unacked(x) /\ Before(x, q[a]) => Has(q, x)

(* The first c of the lines read were sent.                                *)
SentUpTo(q, c) == c \in 0..Len(q) /\ \A a \in 1..c : LineAt(q[a]) \in sent

(* The session is between the first load of a pass and its end.            *)
Active(s) == pc[s] \notin {"idle", "done"}
InPass(s) == pc[s] \in {"await", "sending", "nack"}
(* The load of the pass has started: it holds the lock, or has released    *)
(* it.                                                                     *)
Begun == lockQ = <<>> \/ (Len(lockQ) = 1 /\ cursor.file # 0)

(* The launch has not stored its own index yet.                            *)
Registering ==
  \/ step = "register"
  \/ step \in {"truncate", "write"} /\ after \in {"register", "idle"}

(* Without overlap one session at most is at work.                         *)
Solo == \A s, t \in Sessions : Active(s) /\ Active(t) => s = t

(* A load is the last job of its session, and an acknowledgement is run at *)
(* once or is the holder.                                                  *)
JobOK(j) ==
  LET job == lockQ[j]
  IN  /\ pc[job.by] # "idle"
      /\ job.kind = "load" /\ Active(job.by) => j = Len(lockQ) /\ InPass(job.by)
      /\ job.kind = "ack" => j = 1 /\ step # "idle"

JobsOK == \A j \in DOMAIN lockQ : JobOK(j)

(* A section under the lock belongs to an acknowledgement.                 *)
HeadOK == step = "run" \/ UnderLock => lockQ # <<>> /\ lockQ[1].kind # "load"

LoadIsLast(s) ==
  LET last == lockQ[Len(lockQ)]
  IN  lockQ # <<>> => last.kind = "load" /\ last.by = s

(* The stream of a pass is open until its load is over; nothing is         *)
(* received before the load has started.                                   *)
PassOK(s) ==
  /\ LoadIsLast(s)
  /\ pc[s] = "nack" => stream[s] # "open"
  /\ pc[s] # "nack" => stream[s] = IF lockQ = <<>> THEN "closed" ELSE "open"
  /\ ~Begun => pc[s] = "await" /\ buffer[s] = <<>> /\ counter[s] = 0

SessionsOK ==
  \A s \in Sessions :
    /\ pc[s] \in {"idle", "load"} => buffer[s] = <<>>
    /\ InPass(s) => PassOK(s)

(* No session works while the app is down or starts.                       *)
Quiet ==
  step = "down" \/ Registering =>
    lockQ = <<>> /\ \A s \in Sessions : ~Active(s)

QueueInv == Solo /\ JobsOK /\ HeadOK /\ SessionsOK /\ Quiet

LEMMA QueueInit == Init => QueueInv
<1> SUFFICES ASSUME Init PROVE QueueInv
  OBVIOUS
<1> QED
  BY DEF Init, LocalInit, QueueInv, Solo, JobsOK, JobOK, HeadOK, UnderLock, SessionsOK,
         Quiet, Active, InPass

LEMMA QueueTypes ==
  ASSUME TypeOK
  PROVE  /\ Len(lockQ) \in Nat /\ DOMAIN lockQ = 1..Len(lockQ)
         /\ \A j \in DOMAIN lockQ : lockQ[j] \in Job /\ lockQ[j].by \in Sessions
         /\ lockQ # <<>> <=> Len(lockQ) >= 1
<1>1. lockQ \in Seq(Job)
  BY DEF TypeOK, LocalTypeOK
<1>2. Len(lockQ) \in Nat /\ DOMAIN lockQ = 1..Len(lockQ) /\ \A j \in DOMAIN lockQ : lockQ[j] \in Job
  BY <1>1, LenProperties
<1>3. lockQ # <<>> <=> Len(lockQ) >= 1
  BY <1>1, <1>2, EmptySeq
<1> QED
  BY <1>2, <1>3 DEF Job

LEMMA EnqueueFacts ==
  ASSUME TypeOK, NEW s \in Sessions, NEW kind \in {"load", "ack", "nack"},
         NEW n \in Nat, Enqueue(kind, s, n)
  PROVE  /\ Len(lockQ') = Len(lockQ) + 1 /\ DOMAIN lockQ' = 1..(Len(lockQ) + 1)
         /\ \A j \in DOMAIN lockQ : lockQ'[j] = lockQ[j]
         /\ lockQ'[Len(lockQ) + 1] = [kind |-> kind, by |-> s, count |-> n]
         /\ lockQ' # <<>>
<1>1. [kind |-> kind, by |-> s, count |-> n] \in Job
  BY DEF Job
<1>2. lockQ \in Seq(Job)
  BY DEF TypeOK, LocalTypeOK
<1>3. lockQ' \in Seq(Job) /\ lockQ' # <<>>
  BY <1>1, <1>2, AppendProperties DEF Enqueue
<1> QED
  BY <1>1, <1>2, <1>3, AppendProperties, LenProperties, QueueTypes DEF Enqueue

LEMMA DequeueFacts ==
  ASSUME TypeOK, lockQ # <<>>, lockQ' = Tail(lockQ)
  PROVE  /\ Len(lockQ') = Len(lockQ) - 1 /\ DOMAIN lockQ' = 1..(Len(lockQ) - 1)
         /\ \A j \in DOMAIN lockQ' : j + 1 \in DOMAIN lockQ /\ lockQ'[j] = lockQ[j + 1]
         /\ lockQ' = <<>> <=> Len(lockQ) = 1
<1>1. lockQ \in Seq(Job)
  BY DEF TypeOK, LocalTypeOK
<1>2. /\ lockQ' \in Seq(Job) /\ Len(lockQ') = Len(lockQ) - 1
      /\ \A j \in 1..Len(lockQ') : lockQ'[j] = lockQ[j + 1]
  BY <1>1, HeadTailProperties
<1>3. DOMAIN lockQ' = 1..(Len(lockQ) - 1)
  BY <1>2, LenProperties
<1>4. lockQ' = <<>> <=> Len(lockQ') = 0
  BY <1>2, EmptySeq
<1> QED
  BY <1>2, <1>3, <1>4, QueueTypes

(* Steps that leave the queue and the sessions alone.                      *)
LEMMA QueueFrame ==
  ASSUME QueueInv,
         UNCHANGED <<pc, counter, lockQ, cursor, stream, buffer, step, after>>
  PROVE  QueueInv'
  BY DEF QueueInv, Solo, JobsOK, JobOK, HeadOK, UnderLock, SessionsOK, PassOK, LoadIsLast,
         Begun, Quiet, Registering, Active, InPass

(* The user enables the network: one session more.                         *)
LEMMA QueueEnable ==
  ASSUME IInv, QueueInv, ~Overlap, NEW s \in Sessions, EnableNetwork(s)
  PROVE  QueueInv'
<1> USE DEF EnableNetwork, NextSession, localVars, loadVars, sectionVars, diskVars
<1>0. TypeOK
  BY DEF IInv
<1>1. /\ \A t \in Sessions : pc[t] \in {"idle", "done"}
      /\ pc \in [Sessions -> PC] /\ pc' = [pc EXCEPT ![s] = "load"]
  BY <1>0 DEF TypeOK
<1>2. \A t \in Sessions : pc'[t] = (IF t = s THEN "load" ELSE pc[t])
  BY <1>1
<1>3. Solo' /\ SessionsOK' /\ Quiet' /\ HeadOK'
  BY <1>1, <1>2 DEF QueueInv, Solo, SessionsOK, Quiet, Registering, HeadOK, UnderLock,
     Active, InPass
<1>4. JobsOK'
  BY <1>0, <1>1, <1>2, QueueTypes DEF QueueInv, JobsOK, JobOK, Active, InPass
<1> QED
  BY <1>3, <1>4 DEF QueueInv

LEMMA QueueStartPass ==
  ASSUME IInv, QueueInv, NEW s \in Sessions, StartPass(s)
  PROVE  QueueInv'
<1> USE DEF StartPass, LoadFromBegin, sectionVars
<1>0. TypeOK
  BY DEF IInv
<1>1. /\ \A t \in Sessions : pc'[t] = IF t = s THEN "await" ELSE pc[t]
      /\ \A t \in Sessions : stream'[t] = IF t = s THEN "open" ELSE stream[t]
      /\ \A t \in Sessions : counter'[t] = IF t = s THEN 0 ELSE counter[t]
  BY <1>0 DEF TypeOK, LocalTypeOK
<1>2. /\ Len(lockQ') = Len(lockQ) + 1 /\ DOMAIN lockQ' = 1..(Len(lockQ) + 1)
      /\ \A j \in DOMAIN lockQ : lockQ'[j] = lockQ[j]
      /\ lockQ'[Len(lockQ) + 1] = [kind |-> "load", by |-> s, count |-> 0]
      /\ lockQ' # <<>>
  BY <1>0, EnqueueFacts
<1>3. \A t \in Sessions : Active(t) => t = s
  BY DEF QueueInv, Solo, Active
<1>4. Solo' /\ Quiet' /\ HeadOK'
  BY <1>1, <1>3 DEF QueueInv, Solo, Quiet, Registering, HeadOK, UnderLock, Active
<1>5. JobsOK'
  <2> SUFFICES ASSUME NEW j \in DOMAIN lockQ'
               PROVE  JobOK(j)'
    BY DEF JobsOK
  <2>1. CASE j = Len(lockQ) + 1
    BY <1>1, <1>2, <2>1 DEF JobOK, Active, InPass
  <2>2. CASE j \in DOMAIN lockQ
    <3>1. lockQ'[j] = lockQ[j] /\ lockQ[j].by \in Sessions
      BY <1>0, <1>2, <2>2, QueueTypes
    <3> QED
      BY <1>1, <1>3, <2>2, <3>1 DEF QueueInv, JobsOK, JobOK, Active, InPass
  <2> QED
    BY <1>0, <1>2, <2>1, <2>2, QueueTypes
<1>6. ~Begun'
  BY <1>0, <1>2, QueueTypes DEF IInv, LockOK, Begun
<1>7. SessionsOK'
  BY <1>0, <1>1, <1>2, <1>3, <1>6, QueueTypes
  DEF QueueInv, SessionsOK, PassOK, LoadIsLast, Active, InPass
<1> QED
  BY <1>4, <1>5, <1>7 DEF QueueInv

(* Steps that leave the queue alone and move one session on.               *)
LEMMA QueueSession ==
  ASSUME IInv, QueueInv, NEW s \in Sessions, InPass(s),
         UNCHANGED <<lockQ, cursor, step, after>>,
         \A t \in Sessions \ {s} :
           /\ pc'[t] = pc[t] /\ stream'[t] = stream[t]
           /\ buffer'[t] = buffer[t] /\ counter'[t] = counter[t],
         pc'[s] \in {"await", "sending", "nack", "done"},
         InPass(s)' => PassOK(s)'
  PROVE  QueueInv'
<1>0. TypeOK
  BY DEF IInv
<1>1. \A t \in Sessions : Active(t) => t = s
  BY DEF QueueInv, Solo, Active, InPass
<1>2. Solo' /\ Quiet' /\ HeadOK'
  BY <1>1 DEF QueueInv, Solo, Quiet, Registering, HeadOK, UnderLock, Active, InPass
<1>3. JobsOK'
  BY <1>0, <1>1, QueueTypes DEF QueueInv, JobsOK, JobOK, Active, InPass
<1>4. SessionsOK'
  BY <1>1 DEF QueueInv, SessionsOK, Active, InPass
<1> QED
  BY <1>2, <1>3, <1>4 DEF QueueInv

LEMMA QueueSend ==
  ASSUME IInv, QueueInv, NEW s \in Sessions, StartSend(s) \/ SendEnds(s)
  PROVE  QueueInv'
<1> USE DEF localVars, diskVars, loadVars, sectionVars, historyVars
<1>0. TypeOK /\ InPass(s) /\ PassOK(s)
  BY DEF IInv, InPass, StartSend, SendEnds, SendReturnsTrue, SendReturnsFalse, SendThrows,
     QueueInv, SessionsOK
<1>1. /\ pc \in [Sessions -> PC] /\ counter \in [Sessions -> Nat]
      /\ stream \in [Sessions -> {"none", "open", "closed", "cancelled"}]
      /\ buffer \in [Sessions -> Seq(Records)]
  BY <1>0 DEF TypeOK, LocalTypeOK
<1>2. /\ UNCHANGED <<lockQ, cursor, step, after>>
      /\ \A t \in Sessions \ {s} :
           /\ pc'[t] = pc[t] /\ stream'[t] = stream[t]
           /\ buffer'[t] = buffer[t] /\ counter'[t] = counter[t]
      /\ pc'[s] \in {"await", "sending", "nack", "done"}
  <2>1. CASE StartSend(s)
    BY <1>1, <2>1 DEF StartSend
  <2>2. CASE SendReturnsTrue(s)
    BY <1>1, <2>2 DEF SendReturnsTrue
  <2>3. CASE SendReturnsFalse(s) \/ SendThrows(s)
    BY <1>1, <2>3 DEF SendReturnsFalse, SendThrows, CancelStream
  <2> QED
    BY <2>1, <2>2, <2>3 DEF SendEnds
<1>3. Begun
  BY <1>0 DEF PassOK, StartSend, SendEnds, SendReturnsTrue, SendReturnsFalse, SendThrows
<1>4. InPass(s)' => PassOK(s)'
  <2>1. CASE StartSend(s)
    BY <1>0, <1>1, <1>2, <1>3, <2>1 DEF StartSend, PassOK, LoadIsLast, Begun, InPass
  <2>2. CASE SendReturnsTrue(s)
    BY <1>0, <1>1, <1>2, <1>3, <2>2 DEF SendReturnsTrue, PassOK, LoadIsLast, Begun, InPass
  <2>3. CASE SendReturnsFalse(s)
    BY <1>0, <1>1, <1>2, <1>3, <2>3
    DEF SendReturnsFalse, CancelStream, PassOK, LoadIsLast, Begun, InPass
  <2>4. CASE SendThrows(s)
    BY <1>0, <1>1, <1>2, <1>3, <2>4 DEF SendThrows, InPass
  <2> QED
    BY <2>1, <2>2, <2>3, <2>4 DEF SendEnds
<1> QED
  BY <1>0, <1>2, <1>4, QueueSession

(* When a pass ends its load has left the queue, and nothing else is in it. *)
LEMMA PassEndsAlone ==
  ASSUME IInv, QueueInv, NEW s \in Sessions, EndPass(s)
  PROVE  lockQ = <<>>
  BY DEF EndPass, QueueInv, SessionsOK, PassOK, InPass

LEMMA QueueEndPass ==
  ASSUME IInv, QueueInv, NEW s \in Sessions, EndPass(s) \/ FailPass(s)
  PROVE  QueueInv'
<1> USE DEF sessionVars, historyVars, diskVars, sectionVars
<1>0. TypeOK /\ counter[s] \in Nat /\ InPass(s)
  BY DEF IInv, TypeOK, EndPass, FailPass, InPass
<1>1. /\ step = "idle" /\ step' = (IF lockQ = <<>> THEN "run" ELSE "idle")
      /\ UNCHANGED <<cursor, after, stream, buffer, counter>>
      /\ pc'[s] \in {"load", "done"} /\ \A t \in Sessions \ {s} : pc'[t] = pc[t]
      /\ buffer[s] = <<>> \/ pc'[s] = "done"
  BY <1>0 DEF EndPass, FailPass, CallAck, CallNAck, RunOrWait, TypeOK, PC
<1>2. PICK kind \in {"ack", "nack"} : Enqueue(kind, s, counter[s]) /\ (kind = "ack" => EndPass(s))
  BY DEF EndPass, FailPass, CallAck, CallNAck
<1>3. /\ Len(lockQ') = Len(lockQ) + 1 /\ DOMAIN lockQ' = 1..(Len(lockQ) + 1)
      /\ \A j \in DOMAIN lockQ : lockQ'[j] = lockQ[j]
      /\ lockQ'[Len(lockQ) + 1] = [kind |-> kind, by |-> s, count |-> counter[s]]
      /\ lockQ' # <<>>
  BY <1>0, <1>2, EnqueueFacts
<1>4. \A t \in Sessions : Active(t) => t = s
  BY <1>0 DEF QueueInv, Solo, Active, InPass
<1>5. kind = "ack" => lockQ = <<>>
  BY <1>2, PassEndsAlone
<1>6. Solo' /\ Quiet'
  BY <1>1, <1>4 DEF QueueInv, Solo, Quiet, Registering, Active
<1>7. HeadOK'
  BY <1>0, <1>1, <1>3, QueueTypes DEF HeadOK, UnderLock
<1>8. JobsOK'
  <2> SUFFICES ASSUME NEW j \in DOMAIN lockQ'
               PROVE  JobOK(j)'
    BY DEF JobsOK
  <2>1. CASE j = Len(lockQ) + 1
    BY <1>0, <1>1, <1>3, <1>5, <2>1, QueueTypes DEF JobOK
  <2>2. CASE j \in DOMAIN lockQ
    <3>1. lockQ'[j] = lockQ[j] /\ lockQ[j].by \in Sessions
      BY <1>0, <1>3, <2>2, QueueTypes
    <3>2. JobOK(j) /\ step' = "idle"
      BY <1>0, <1>1, <2>2, QueueTypes DEF QueueInv, JobsOK
    <3>3. lockQ[j].kind = "load" => pc'[lockQ[j].by] \notin {"load", "await", "sending", "nack"}
      <4> SUFFICES ASSUME lockQ[j].kind = "load", lockQ[j].by = s
                   PROVE  pc'[s] = "done"
        BY <1>1, <1>4, <3>1 DEF JobOK, Active, PC, TypeOK
      <4>1. CASE EndPass(s)
        BY <1>0, <4>1, <2>2, PassEndsAlone, QueueTypes
      <4>2. CASE FailPass(s)
        BY <1>0, <4>2 DEF FailPass, TypeOK
      <4> QED
        BY <4>1, <4>2
    <3>4. pc'[lockQ[j].by] # "idle"
      BY <1>1, <3>1, <3>2 DEF JobOK
    <3>5. pc'[lockQ[j].by] \in PC
      BY <1>1, <3>1, <1>0 DEF TypeOK, PC
    <3> QED
      BY <1>1, <3>1, <3>2, <3>3, <3>4, <3>5 DEF JobOK, Active, PC
  <2> QED
    BY <1>0, <1>3, <2>1, <2>2, QueueTypes
<1>9. SessionsOK'
  BY <1>0, <1>1, <1>4 DEF QueueInv, SessionsOK, Active, InPass
<1> QED
  BY <1>6, <1>7, <1>8, <1>9 DEF QueueInv

(* The load at the head of the queue: whose it is, and that it is the only *)
(* job when its session is still at work.                                  *)
LEMMA QueueLoad ==
  ASSUME IInv, QueueInv, NEW s \in Sessions, LoadStart(s) \/ ReadLine(s), UNCHANGED transmitVars
  PROVE  QueueInv'
<1> USE DEF transmitVars, sessionVars, diskVars, sectionVars
<1>0. TypeOK /\ HoldsLock(s, "load") /\ step = "idle" /\ 1 \in DOMAIN lockQ
  BY QueueTypes DEF IInv, LoadStart, ReadLine, HoldsLock
<1>1. /\ UNCHANGED <<lockQ, pc, counter, stream, step, after>>
      /\ \A t \in Sessions \ {s} : buffer'[t] = buffer[t]
      /\ cursor'.file # 0
  <2>1. CASE LoadStart(s)
    BY <2>1 DEF LoadStart, OpenFile
  <2>2. CASE ReadLine(s)
    <3>1. cursor \in [file : Nat, from : Nat, read : Nat, total : Nat, terminated : BOOLEAN]
      BY <1>0 DEF TypeOK, LocalTypeOK
    <3>2. cursor'.file = cursor.file
      BY <2>2, <3>1 DEF ReadLine
    <3>3. \A t \in Sessions \ {s} : buffer'[t] = buffer[t]
      BY <1>0, <2>2 DEF ReadLine, TypeOK, LocalTypeOK
    <3> QED
      BY <2>2, <3>2, <3>3 DEF ReadLine
  <2> QED
    BY <2>1, <2>2
<1>2. Active(s) => InPass(s) /\ Len(lockQ) = 1
  BY <1>0 DEF QueueInv, JobsOK, JobOK, HoldsLock
<1>3. pc[s] \notin {"idle", "load"}
  BY <1>0, <1>2 DEF QueueInv, JobsOK, JobOK, HoldsLock, Active, InPass
<1>4. \A t \in Sessions \ {s} : InPass(t) => Len(lockQ) # 1
  <2> SUFFICES ASSUME NEW t \in Sessions \ {s}, InPass(t), Len(lockQ) = 1 PROVE FALSE
    OBVIOUS
  <2>1. lockQ[1].by = t
    BY <1>0 DEF QueueInv, SessionsOK, PassOK, LoadIsLast, HoldsLock
  <2> QED
    BY <1>0, <2>1 DEF HoldsLock
<1>5. Solo' /\ JobsOK' /\ HeadOK' /\ Quiet'
  BY <1>1 DEF QueueInv, Solo, JobsOK, JobOK, HeadOK, UnderLock, Quiet, Registering,
     Active, InPass
<1>6. ASSUME NEW t \in Sessions
      PROVE  /\ pc'[t] \in {"idle", "load"} => buffer'[t] = <<>>
             /\ InPass(t)' => PassOK(t)'
  <2>1. CASE t = s
    BY <1>0, <1>1, <1>2, <1>3, <2>1
    DEF QueueInv, SessionsOK, PassOK, LoadIsLast, Begun, Active, InPass
  <2>2. CASE t # s
    BY <1>0, <1>1, <1>4, <2>2
    DEF QueueInv, SessionsOK, PassOK, LoadIsLast, Begun, InPass, HoldsLock
  <2> QED
    BY <2>1, <2>2
<1> QED
  BY <1>5, <1>6 DEF QueueInv, SessionsOK

LEMMA QueueEndFile ==
  ASSUME IInv, QueueInv, NEW s \in Sessions, EndFile(s), UNCHANGED transmitVars
  PROVE  QueueInv'
<1> USE DEF transmitVars, sessionVars, diskVars, sectionVars
<1>0. TypeOK /\ HoldsLock(s, "load") /\ step = "idle" /\ 1 \in DOMAIN lockQ
  BY QueueTypes DEF IInv, EndFile, HoldsLock
<1>1. /\ UNCHANGED <<pc, counter, buffer, step, after>>
      /\ \A t \in Sessions \ {s} : stream'[t] = stream[t]
  BY <1>0 DEF EndFile, TypeOK, LocalTypeOK
<1>2. Active(s) => InPass(s) /\ Len(lockQ) = 1
  BY <1>0 DEF QueueInv, JobsOK, JobOK, HoldsLock
<1>3. \A t \in Sessions \ {s} : InPass(t) => Len(lockQ) # 1
  <2> SUFFICES ASSUME NEW t \in Sessions \ {s}, InPass(t), Len(lockQ) = 1 PROVE FALSE
    OBVIOUS
  <2>1. lockQ[1].by = t
    BY <1>0 DEF QueueInv, SessionsOK, PassOK, LoadIsLast, HoldsLock
  <2> QED
    BY <1>0, <2>1 DEF HoldsLock
<1>4. CASE ~IsLast(cursor.file)
  <2>1. UNCHANGED <<lockQ, stream>> /\ cursor'.file = cursor.file + 1 /\ cursor.file + 1 # 0
    <3>1. OpenFile(cursor.file + 1, cursor.total) /\ UNCHANGED <<lockQ, stream>>
      BY <1>4 DEF EndFile
    <3>2. cursor.file \in Nat
      BY <1>0 DEF TypeOK, LocalTypeOK
    <3> QED
      BY <3>1, <3>2 DEF OpenFile
  <2>2. cursor.file # 0
    BY DEF EndFile
  <2> QED
    BY <1>1, <2>1, <2>2
    DEF QueueInv, Solo, JobsOK, JobOK, HeadOK, UnderLock, SessionsOK, PassOK, LoadIsLast,
        Begun, Quiet, Registering, Active, InPass
<1>5. CASE IsLast(cursor.file)
  <2>1. /\ cursor'.file = 0 /\ lockQ' = Tail(lockQ)
        /\ stream'[s] = IF stream[s] = "open" THEN "closed" ELSE stream[s]
    BY <1>0, <1>5 DEF EndFile, NoLoad, TypeOK, LocalTypeOK
  <2>2. /\ Len(lockQ') = Len(lockQ) - 1 /\ DOMAIN lockQ' = 1..(Len(lockQ) - 1)
        /\ \A j \in DOMAIN lockQ' : j + 1 \in DOMAIN lockQ /\ lockQ'[j] = lockQ[j + 1]
        /\ lockQ' = <<>> <=> Len(lockQ) = 1
    BY <1>0, <2>1, DequeueFacts DEF HoldsLock
  <2>3. Solo' /\ HeadOK' /\ Quiet'
    BY <1>0, <1>1 DEF QueueInv, Solo, HeadOK, UnderLock, Quiet, Registering, Active
  <2>4. JobsOK'
    <3> SUFFICES ASSUME NEW j \in DOMAIN lockQ'
                 PROVE  JobOK(j)'
      BY DEF JobsOK
    <3>1. JobOK(j + 1) /\ lockQ'[j] = lockQ[j + 1] /\ j \in Nat
      BY <2>2 DEF QueueInv, JobsOK
    <3> QED
      BY <1>0, <1>1, <2>2, <3>1, QueueTypes DEF JobOK, Active, InPass
  <2>5. ASSUME NEW t \in Sessions, InPass(t)
        PROVE  PassOK(t)'
    <3>1. CASE t = s
      <4>1. lockQ' = <<>> /\ Begun /\ Begun' /\ lockQ # <<>>
        BY <1>0, <1>2, <2>2, <2>5, <3>1 DEF EndFile, HoldsLock, Begun, Active, InPass
      <4> QED
        BY <1>0, <1>1, <2>1, <2>5, <3>1, <4>1 DEF QueueInv, SessionsOK, PassOK, LoadIsLast
    <3>2. CASE t # s
      <4>1. /\ Len(lockQ) # 1 /\ lockQ # <<>> /\ lockQ' # <<>> /\ ~Begun
            /\ Len(lockQ) \in Nat /\ Len(lockQ) - 1 \in DOMAIN lockQ'
        BY <1>0, <1>3, <2>2, <2>5, <3>2, QueueTypes DEF HoldsLock, Begun
      <4>2. lockQ'[Len(lockQ')] = lockQ[Len(lockQ)]
        BY <2>2, <4>1
      <4> QED
        BY <1>1, <2>5, <3>2, <4>1, <4>2 DEF QueueInv, SessionsOK, PassOK, LoadIsLast
    <3> QED
      BY <3>1, <3>2
  <2>6. SessionsOK'
    BY <1>1, <2>5 DEF QueueInv, SessionsOK, InPass
  <2> QED
    BY <2>3, <2>4, <2>6 DEF QueueInv
<1> QED
  BY <1>4, <1>5

(* Acknowledgements, the removal of files and the writing of the index run *)
(* while another job than a load holds the lock.                           *)
LEMMA QueueIndex ==
  ASSUME IInv, QueueInv,
         \/ InitStep \/ IndexStep
         \/ \E s \in Sessions : AckStep(s)
         \/ Kill
  PROVE  QueueInv'
<1> USE DEF transmitVars, sessionVars, diskVars, loadVars, sectionVars, StoreIndexContext
<1>0. TypeOK /\ Continuation
  BY DEF IInv
<1>1. CASE \E s \in Sessions : AckStep(s)
  <2>1. PICK s \in Sessions : AckStep(s)
    BY <1>1
  <2>2. /\ UNCHANGED <<pc, counter, lockQ, cursor, stream, buffer, after>>
        /\ step \in {"idle", "run"} /\ step' = "sweep" /\ lockQ # <<>> /\ lockQ[1].kind # "load"
    BY <2>1 DEF AckStep, RunAck, RunNAck, HoldsLock
  <2> QED
    BY <2>2 DEF QueueInv, Solo, JobsOK, JobOK, HeadOK, UnderLock, SessionsOK, PassOK, LoadIsLast,
        Begun, Quiet, Registering, Active, InPass
<1>2. CASE TruncateIndex /\ UNCHANGED transmitVars
  BY <1>2
  DEF TruncateIndex, QueueInv, Solo, JobsOK, JobOK, HeadOK, UnderLock, SessionsOK, PassOK,
      LoadIsLast, Begun, Quiet, Registering, Active, InPass
<1>3. CASE WriteIndex /\ UNCHANGED transmitVars
  <2>1. /\ UNCHANGED <<pc, counter, lockQ, cursor, stream, buffer, after>>
        /\ step = "write" /\ step' = after
    BY <1>3 DEF WriteIndex
  <2>2. after \in {"register", "idle"} \/ after \in {"unlink", "release"}
    BY <1>0 DEF Continuation
  <2>3. CASE after \in {"register", "idle"}
    <3>1. lockQ = <<>>
      BY <2>1, <2>3 DEF QueueInv, Quiet, Registering
    <3> QED
      BY <1>0, <2>1, <2>3, <3>1, QueueTypes
      DEF QueueInv, Solo, JobsOK, HeadOK, UnderLock, SessionsOK, PassOK,
          LoadIsLast, Begun, Quiet, Registering, Active, InPass
  <2>4. CASE after \in {"unlink", "release"}
    BY <2>1, <2>4
    DEF QueueInv, Solo, JobsOK, JobOK, HeadOK, UnderLock, SessionsOK, PassOK,
        LoadIsLast, Begun, Quiet, Registering, Active, InPass
  <2> QED
    BY <2>2, <2>3, <2>4
<1>4. CASE (RemoveFirstIndex \/ DeleteDataFile \/ FinalStore) /\ UNCHANGED transmitVars
  BY <1>4
  DEF RemoveFirstIndex, DeleteDataFile, FinalStore, QueueInv, Solo, JobsOK, JobOK, HeadOK,
      UnderLock, SessionsOK, PassOK, LoadIsLast, Begun, Quiet, Registering, Active, InPass
<1>5. CASE ReleaseLock /\ UNCHANGED transmitVars
  <2>1. /\ UNCHANGED <<pc, counter, cursor, stream, buffer, after>>
        /\ step = "release" /\ step' = "idle" /\ lockQ' = Tail(lockQ)
    BY <1>5 DEF ReleaseLock
  <2>2. lockQ # <<>> /\ lockQ[1].kind # "load"
    BY <2>1 DEF QueueInv, HeadOK, UnderLock
  <2>3. /\ Len(lockQ') = Len(lockQ) - 1 /\ DOMAIN lockQ' = 1..(Len(lockQ) - 1)
        /\ \A j \in DOMAIN lockQ' : j + 1 \in DOMAIN lockQ /\ lockQ'[j] = lockQ[j + 1]
        /\ lockQ' = <<>> <=> Len(lockQ) = 1
        /\ Len(lockQ) \in Nat
    BY <1>0, <2>1, <2>2, DequeueFacts, QueueTypes
  <2>4. cursor.file = 0
    BY <2>2, <2>1 DEF IInv, LockOK
  <2>5. Solo' /\ HeadOK' /\ Quiet'
    BY <2>1 DEF QueueInv, Solo, HeadOK, UnderLock, Quiet, Registering, Active
  <2>6. JobsOK'
    <3> SUFFICES ASSUME NEW j \in DOMAIN lockQ'
                 PROVE  JobOK(j)'
      BY DEF JobsOK
    <3>1. JobOK(j + 1) /\ lockQ'[j] = lockQ[j + 1] /\ j \in Nat /\ j >= 1
      BY <2>3 DEF QueueInv, JobsOK
    <3> QED
      BY <2>1, <2>3, <3>1 DEF JobOK, Active, InPass
  <2>7. ASSUME NEW t \in Sessions, InPass(t)
        PROVE  PassOK(t)'
    <3>1. PassOK(t)
      BY <2>7 DEF QueueInv, SessionsOK
    <3>2. Len(lockQ) # 1 /\ lockQ' # <<>> /\ Len(lockQ) - 1 \in DOMAIN lockQ'
      BY <1>0, <2>2, <2>3, <3>1, QueueTypes DEF PassOK, LoadIsLast
    <3>3. lockQ'[Len(lockQ')] = lockQ[Len(lockQ)]
      BY <2>3, <3>2
    <3> QED
      BY <2>1, <2>2, <2>4, <3>1, <3>2, <3>3 DEF PassOK, LoadIsLast, Begun
  <2>8. SessionsOK'
    BY <2>1, <2>7 DEF QueueInv, SessionsOK, InPass
  <2> QED
    BY <2>5, <2>6, <2>8 DEF QueueInv
<1>6. CASE InitStep
  <2>1. UNCHANGED <<pc, counter, lockQ, cursor, stream, buffer>>
    BY <1>6 DEF InitStep, LaunchAfterTornIndex, LaunchWithIndex, RegisterDataFile
  <2>2. /\ step = "down" \/ Registering
        /\ step' \in {"register", "truncate"} /\ Registering'
    BY <1>6 DEF InitStep, LaunchAfterTornIndex, LaunchWithIndex, RegisterDataFile, Registering
  <2>3. lockQ = <<>> /\ \A s \in Sessions : ~Active(s)
    BY <2>2 DEF QueueInv, Quiet
  <2>4. HeadOK'
    BY <1>6 DEF InitStep, LaunchAfterTornIndex, LaunchWithIndex, RegisterDataFile,
       HeadOK, UnderLock
  <2>5. Solo' /\ Quiet' /\ JobsOK' /\ SessionsOK'
    BY <1>0, <2>1, <2>3, QueueTypes
    DEF QueueInv, Solo, Quiet, JobsOK, SessionsOK, Active, InPass
  <2> QED
    BY <2>4, <2>5 DEF QueueInv
<1>7. CASE Kill
  <2>1. /\ \A s \in Sessions : pc'[s] \in {"idle", "done"} /\ buffer'[s] = <<>>
        /\ lockQ' = <<>> /\ step' = "down"
    BY <1>7 DEF Kill, LocalKill
  <2> QED
    BY <2>1 DEF QueueInv, Solo, JobsOK, HeadOK, UnderLock, SessionsOK, Quiet, Registering,
       Active, InPass
<1> QED
  BY <1>1, <1>2, <1>3, <1>4, <1>5, <1>6, <1>7 DEF IndexStep

LEMMA QueueNext ==
  ASSUME IInv, QueueInv, ~Overlap, [Next]_vars
  PROVE  QueueInv'
<1> USE DEF localVars, diskVars, loadVars, sectionVars, sessionVars, historyVars
<1>1. CASE \/ TransmitOffline \/ TransmitOnline \/ DisableNetwork \/ EnableWithoutReceiver
           \/ \E r \in Records : LiveSent(r) \/ LiveFailed(r)
           \/ UNCHANGED vars
  <2>1. UNCHANGED <<pc, counter, lockQ, cursor, stream, buffer, step, after>>
    BY <1>1
    DEF TransmitOffline, TransmitOnline, DisableNetwork,
        EnableWithoutReceiver, LiveSent, LiveFailed, StoreToEnd, vars
  <2> QED
    BY <2>1, QueueFrame
<1>2. CASE \/ InitStep \/ IndexStep \/ Kill \/ \E s \in Sessions : AckStep(s)
  BY <1>2, QueueIndex
<1>3. ASSUME NEW s \in Sessions, EnableNetwork(s) \/ LoadStep(s) \/ SessionStep(s)
      PROVE  QueueInv'
  BY <1>3, QueueEnable, QueueLoad, QueueEndFile, QueueStartPass, QueueSend, QueueEndPass
  DEF LoadStep, SessionStep
<1> QED
  BY <1>1, <1>2, <1>3 DEF Next

-----------------------------------------------------------------------------
(* What the indexes say of the lines.                                      *)

(* No line past the acknowledged ones counts as read, and one of a later   *)
(* file is pending only after the files before it were read to their end;  *)
(* the acknowledged lines were sent; the file being appended to has no     *)
(* fewer lines than are acknowledged.                                      *)
PendingOK(list, ls) ==
  /\ \A i \in DOMAIN list : list[i].position <= list[i].pending
  /\ \A i, j \in DOMAIN list : i < j /\ list[j].position < list[j].pending =>
       Len(ls[list[i].location]) <= list[i].pending

SentOK(list, ls, st) ==
  \A i \in DOMAIN list : \A n \in 1..list[i].position :
    n <= Len(ls[list[i].location]) => ls[list[i].location][n] \in st

CurrentOK(list, ls, l) ==
  \A i \in DOMAIN list : list[i].location = l => list[i].position <= Len(ls[l])

ListOK(list, ls, st, l) ==
  PendingOK(list, ls) /\ SentOK(list, ls, st) /\ CurrentOK(list, ls, l)

(* The data files of later launches, and the one a launch is about to      *)
(* register, hold nothing.                                                 *)
Fresh ==
  /\ \A f \in Files : f > launch => lines[f] = <<>>
  /\ Registering => lines[launch] = <<>>

(* The reader adds nothing to a file's pending lines unless the files      *)
(* before it were read to their end.                                       *)
Stopped ==
  cursor.read = 0 /\ (cursor.total = MaxCount \/ stream[lockQ[1].by] # "open")

ReaderOK ==
  cursor.file # 0 =>
    /\ cursor.from <= indexes[cursor.file].position
    /\ cursor.read > 0 => cursor.from + cursor.read <= Size(cursor.file)
    /\ cursor.terminated => cursor.total = MaxCount
    /\ Stopped \/ \A i \in 1..(cursor.file - 1) : Size(i) <= indexes[i].pending

ListsOK ==
  ListOK(indexes, lines, sent, launch) /\ ListOK(indexJson, lines, sent, launch)

PositionInv == ListsOK /\ Fresh /\ ReaderOK

LEMMA ListTypes ==
  ASSUME NEW list \in Seq(SensorIndex)
  PROVE  /\ Len(list) \in Nat /\ DOMAIN list = 1..Len(list)
         /\ \A i \in DOMAIN list :
              /\ list[i] \in SensorIndex
              /\ list[i].location \in Files /\ list[i].location \in Nat
              /\ list[i].position \in Nat /\ list[i].pending \in Nat
              /\ list[i].isEnd \in BOOLEAN
<1>1. Len(list) \in Nat /\ DOMAIN list = 1..Len(list)
  BY LenProperties
<1>2. \A i \in DOMAIN list : list[i] \in SensorIndex
  BY <1>1, LenProperties
<1> QED
  BY <1>1, <1>2, LocationTypes DEF SensorIndex

LEMMA LineTypes ==
  ASSUME NEW ls \in [Files -> Seq(Records)], NEW f \in Files
  PROVE  /\ ls[f] \in Seq(Records) /\ Len(ls[f]) \in Nat
         /\ DOMAIN ls[f] = 1..Len(ls[f])
         /\ \A n \in 1..Len(ls[f]) : ls[f][n] \in Records
  BY LenProperties

LEMMA AppendedLine ==
  ASSUME NEW ls \in [Files -> Seq(Records)], NEW l \in Files, NEW r \in Records,
         NEW new, new = [ls EXCEPT ![l] = Append(@, r)]
  PROVE  /\ new \in [Files -> Seq(Records)]
         /\ \A f \in Files \ {l} : new[f] = ls[f]
         /\ Len(new[l]) = Len(ls[l]) + 1
         /\ \A n \in 1..Len(ls[l]) : new[l][n] = ls[l][n]
         /\ new[l][Len(ls[l]) + 1] = r
<1>1. ls[l] \in Seq(Records) /\ new[l] = Append(ls[l], r)
  OBVIOUS
<1>2. Append(ls[l], r) \in Seq(Records)
  BY <1>1, AppendProperties
<1> QED
  BY <1>1, <1>2, AppendProperties

(* A line more in the last launch's file.                                  *)
LEMMA ListStore ==
  ASSUME NEW list \in Seq(SensorIndex), NEW ls \in [Files -> Seq(Records)],
         NEW l \in Files, NEW r \in Records, NEW st,
         Increasing(list), \A i \in DOMAIN list : list[i].location <= l,
         ListOK(list, ls, st, l)
  PROVE  ListOK(list, [ls EXCEPT ![l] = Append(@, r)], st, l)
<1> DEFINE new == [ls EXCEPT ![l] = Append(@, r)]
<1>0. new = [ls EXCEPT ![l] = Append(@, r)]
  OBVIOUS
<1> HIDE DEF new
<1> USE AppendedLine, ListTypes, LineTypes
<1>1. /\ \A f \in Files \ {l} : new[f] = ls[f]
      /\ Len(new[l]) = Len(ls[l]) + 1 /\ Len(ls[l]) \in Nat
      /\ \A n \in 1..Len(ls[l]) : new[l][n] = ls[l][n]
  BY <1>0
<1>2. l \in Nat
  BY LaunchesAssumption DEF Files
<1>3. PendingOK(list, new)
  <2> SUFFICES ASSUME NEW i \in DOMAIN list, NEW j \in DOMAIN list, i < j,
                      list[j].position < list[j].pending
               PROVE  Len(new[list[i].location]) <= list[i].pending
    BY DEF ListOK, PendingOK
  <2>1. list[i].location # l
    BY <1>2 DEF Increasing
  <2> QED
    BY <1>1, <2>1 DEF ListOK, PendingOK
<1>4. SentOK(list, new, st)
  <2> SUFFICES ASSUME NEW i \in DOMAIN list, NEW n \in 1..list[i].position,
                      n <= Len(new[list[i].location])
               PROVE  new[list[i].location][n] \in st
    BY DEF SentOK
  <2>1. CASE list[i].location = l
    <3>1. n <= Len(ls[l])
      BY <2>1 DEF ListOK, CurrentOK
    <3>2. ls[l][n] \in st
      BY <2>1, <3>1 DEF ListOK, SentOK
    <3>3. n \in 1..Len(ls[l])
      BY <3>1
    <3> QED
      BY <1>1, <2>1, <3>2, <3>3
  <2>2. CASE list[i].location # l
    BY <1>1, <2>2 DEF ListOK, SentOK
  <2> QED
    BY <2>1, <2>2
<1>5. CurrentOK(list, new, l)
  BY <1>1 DEF ListOK, CurrentOK
<1> QED
  BY <1>3, <1>4, <1>5 DEF ListOK, new

(* More records sent, or a launch later.                                   *)
LEMMA ListSent ==
  ASSUME NEW list, NEW ls, NEW st, NEW more, NEW l, st \subseteq more,
         ListOK(list, ls, st, l)
  PROVE  ListOK(list, ls, more, l)
  BY DEF ListOK, SentOK

LEMMA ListLaunch ==
  ASSUME NEW list \in Seq(SensorIndex), NEW ls, NEW st, NEW l \in Nat,
         \A i \in DOMAIN list : list[i].location <= l, ListOK(list, ls, st, l)
  PROVE  ListOK(list, ls, st, l + 1)
  BY ListTypes DEF ListOK, CurrentOK

LEMMA ListEmpty == \A ls, st, l : ListOK(<<>>, ls, st, l)
  BY DEF ListOK, PendingOK, SentOK, CurrentOK

(* The first index gone.                                                   *)
LEMMA ListTail ==
  ASSUME NEW list \in Seq(SensorIndex), list # <<>>, NEW ls, NEW st, NEW l,
         ListOK(list, ls, st, l)
  PROVE  ListOK(Tail(list), ls, st, l)
<1> DEFINE t == Tail(list)
<1>1. /\ t \in Seq(SensorIndex) /\ Len(t) = Len(list) - 1
      /\ \A i \in 1..Len(t) : t[i] = list[i + 1]
  BY HeadTailProperties
<1>2. \A i \in DOMAIN t : i + 1 \in DOMAIN list /\ t[i] = list[i + 1] /\ i \in Nat
  BY <1>1, ListTypes
<1> HIDE DEF t
<1>3. PendingOK(t, ls)
  <2>1. \A i, j \in DOMAIN t : i < j => i + 1 < j + 1
    BY <1>2
  <2> QED
    BY <1>2, <2>1 DEF ListOK, PendingOK
<1> QED
  BY <1>2, <1>3 DEF ListOK, SentOK, CurrentOK, t

-----------------------------------------------------------------------------
(* Acknowledging as many lines as were sent acknowledges none but these.   *)

(* The last line of index i that an acknowledgement up to line p of index  *)
(* k covers.                                                               *)
Bound(k, p, i) == IF i < k THEN indexes[i].pending ELSE p

(* An acknowledgement covers finitely many places, known one by one.       *)
LEMMA CoveredFacts ==
  ASSUME TypeOK, NEW k \in DOMAIN indexes, NEW p \in Nat
  PROVE  /\ IsFiniteSet(Covered(k, p))
         /\ \A i, n : <<i, n>> \in Covered(k, p) <=>
              /\ i \in 1..k
              /\ n \in (indexes[i].position + 1)..Bound(k, p, i)
         /\ Covered(k, p) \subseteq Places
<1> DEFINE part(i) == {i} \X ((indexes[i].position + 1)..Bound(k, p, i))
           parts == {part(i) : i \in 1..k}
           f == [i \in 1..k |-> part(i)]
<1>1. indexes \in Seq(SensorIndex)
  BY DEF TypeOK, LocalTypeOK
<1>2. /\ k \in Nat /\ 1..k \subseteq DOMAIN indexes
      /\ \A i \in 1..k : indexes[i].position \in Nat /\ indexes[i].pending \in Nat
  BY <1>1, ListTypes
<1>3. \A i \in 1..k : IsFiniteSet(part(i))
  <2> SUFFICES ASSUME NEW i \in 1..k PROVE IsFiniteSet(part(i))
    OBVIOUS
  <2>1. IsFiniteSet({i})
    BY FS_Singleton
  <2>2. indexes[i].position + 1 \in Int /\ Bound(k, p, i) \in Int
    BY <1>2 DEF Bound
  <2>3. IsFiniteSet((indexes[i].position + 1)..Bound(k, p, i))
    BY <2>2, FS_Interval
  <2> QED
    BY <2>1, <2>3, FS_Product
<1>4. IsFiniteSet(parts)
  <2>1. f \in Surjection(1..k, parts)
    BY DEF Surjection
  <2>2. IsFiniteSet(1..k)
    BY <1>2, FS_Interval
  <2> HIDE DEF f, parts
  <2> QED
    BY <2>1, <2>2, FS_Surjection
<1>5. Covered(k, p) = UNION parts
  BY DEF Covered, Bound
<1>6. IsFiniteSet(UNION parts)
  BY <1>3, <1>4, FS_UNION
<1>7. \A i, n : <<i, n>> \in Covered(k, p) <=>
         /\ i \in 1..k
         /\ n \in (indexes[i].position + 1)..Bound(k, p, i)
  BY <1>5
<1>8. Covered(k, p) \subseteq Places
  <2> SUFFICES ASSUME NEW i \in 1..k, NEW x \in part(i) PROVE x \in Places
    BY <1>5
  <2>1. (indexes[i].position + 1)..Bound(k, p, i) \subseteq Nat /\ i \in Nat
    BY <1>2 DEF Bound
  <2> QED
    BY <2>1 DEF Places
<1> QED
  BY <1>5, <1>6, <1>7, <1>8

LEMMA PlaceFacts ==
  /\ \A x \in Places : x[1] \in Nat /\ x[2] \in Nat /\ x = <<x[1], x[2]>>
  /\ \A i, n \in Nat : <<i, n>> \in Places /\ <<i, n>>[1] = i /\ <<i, n>>[2] = n
  BY DEF Places

(* The order of places is total and strict.                                *)
LEMMA BeforeFacts ==
  /\ \A x, y \in Places : x = y \/ Before(x, y) \/ Before(y, x)
  /\ \A x, y \in Places : Before(x, y) => x # y /\ ~Before(y, x)
<1>1. \A x, y \in Places : x[1] = y[1] /\ x[2] = y[2] => x = y
  BY PlaceFacts
<1>2. \A x, y \in Places : x = y \/ Before(x, y) \/ Before(y, x)
  BY <1>1, PlaceFacts DEF Before
<1>3. \A x, y \in Places : Before(x, y) => x # y /\ ~Before(y, x)
  BY PlaceFacts DEF Before
<1> QED
  BY <1>2, <1>3

(* The first c places of a list of places read.                            *)
First(q, c) == {q[a] : a \in 1..c}

(* The first c places are c places: they are in order, none comes twice.   *)
LEMMA FirstFacts ==
  ASSUME NEW q \in Seq(Places), NEW c \in 0..Len(q),
         \A a, b \in DOMAIN q : a < b => Before(q[a], q[b])
  PROVE  IsFiniteSet(First(q, c)) /\ Cardinality(First(q, c)) = c
<1> DEFINE f == [a \in 1..c |-> q[a]]
<1>1. DOMAIN q = 1..Len(q) /\ Len(q) \in Nat /\ \A a \in DOMAIN q : q[a] \in Places
  BY LenProperties
<1>2. \A a, b \in 1..c : q[a] = q[b] => a = b
  <2> SUFFICES ASSUME NEW a \in 1..c, NEW b \in 1..c, a < b PROVE q[a] # q[b]
    BY <1>1
  <2>1. Before(q[a], q[b]) /\ q[a] \in Places /\ q[b] \in Places
    BY <1>1
  <2> QED
    BY <2>1, BeforeFacts
<1>3. f \in Bijection(1..c, First(q, c))
  BY <1>2 DEF Bijection, Injection, IsInjective, Surjection, First
<1>4. IsFiniteSet(1..c) /\ Cardinality(1..c) = c
  BY <1>1, FS_Interval
<1>5. ExistsBijection(1..c, First(q, c))
  BY <1>3 DEF ExistsBijection
<1> QED
  BY <1>4, <1>5, FS_Bijection

(* What a place covered by an acknowledgement of at most c lines is: one   *)
(* of the c sent, or past the end of a file that is not appended to.       *)
LEMMA CoveredIsSent ==
  ASSUME TypeOK, PendingOK(indexes, lines), NEW q, IsRead(q),
         NEW k \in DOMAIN indexes,
         NEW p \in indexes[k].position..indexes[k].pending,
         NEW c \in 0..Len(q), Cardinality(Covered(k, p)) <= c,
         NEW x \in Covered(k, p)
  PROVE  x \in First(q, c) \/ (Size(x[1]) < x[2] /\ x[1] # Len(indexes))
<1>0. /\ indexes \in Seq(SensorIndex)
      /\ lines \in [Files -> Seq(Records)]
      /\ q \in Seq(Places) /\ DOMAIN q = 1..Len(q) /\ Len(q) \in Nat
      /\ \A a \in DOMAIN q : q[a] \in Places /\ Unacked(q[a])
  BY LenProperties DEF TypeOK, LocalTypeOK, IsRead
<1>1. /\ Len(indexes) \in Nat /\ DOMAIN indexes = 1..Len(indexes)
      /\ \A i \in DOMAIN indexes :
           /\ indexes[i].position \in Nat /\ indexes[i].pending \in Nat
           /\ indexes[i].position <= indexes[i].pending
           /\ Size(i) \in Nat
  BY <1>0, ListTypes, LineTypes DEF PendingOK, Size
<1>2. p \in Nat /\ k \in Nat
  BY <1>1
<1>3. /\ IsFiniteSet(Covered(k, p))
      /\ \A i, n : <<i, n>> \in Covered(k, p) <=>
           /\ i \in 1..k
           /\ n \in (indexes[i].position + 1)..Bound(k, p, i)
      /\ Covered(k, p) \subseteq Places
  BY <1>2, CoveredFacts
<1> DEFINE i == x[1]
           n == x[2]
<1>4. x \in Places /\ i \in Nat /\ n \in Nat /\ x = <<i, n>>
  BY <1>3, PlaceFacts
<1> HIDE DEF i, n
<1>5. /\ i \in 1..k /\ i \in DOMAIN indexes
      /\ indexes[i].position < n /\ n <= Bound(k, p, i)
      /\ n <= indexes[i].pending
  BY <1>1, <1>2, <1>3, <1>4 DEF Bound
<1> SUFFICES ASSUME x \notin First(q, c), n <= Size(i) \/ i = Len(indexes)
             PROVE  FALSE
  BY <1>1, <1>4, <1>5 DEF i, n
<1>6. ASSUME NEW a \in 1..c
      PROVE  q[a] \in Covered(k, p) \ {x}
  <2> DEFINE y == q[a]
             j == y[1]
             m == y[2]
  <2>0. a \in DOMAIN q /\ a \in Nat
    BY <1>0
  <2>1. y \in Places /\ j \in Nat /\ m \in Nat /\ y = <<j, m>> /\ y # x /\ Unacked(y)
    BY <1>0, <2>0, PlaceFacts DEF First
  <2> HIDE DEF y
  <2>2. j \in DOMAIN indexes /\ indexes[j].position < m /\ m <= Size(j)
    BY <2>1 DEF Unacked
  <2>3. Before(y, x)
    <3> SUFFICES ASSUME ~Before(y, x) PROVE FALSE
      OBVIOUS
    <3>1. Before(x, y)
      BY <1>4, <2>1, BeforeFacts
    <3>2. n <= Size(i)
      BY <1>1, <1>4, <2>1, <2>2, <3>1 DEF Before, i, n
    <3>3. Unacked(x)
      BY <1>5, <3>2 DEF Unacked, i, n
    <3>4. PICK b \in DOMAIN q : q[b] = x
      BY <1>4, <2>0, <3>1, <3>3 DEF IsRead, Has, y
    <3>5. ~(a < b)
      BY <1>4, <2>0, <2>1, <3>1, <3>4, BeforeFacts DEF IsRead, y
    <3>6. b \in 1..c
      BY <1>0, <2>0, <3>4, <3>5
    <3> QED
      BY <3>4, <3>6 DEF First
  <2>4. j <= i /\ j \in 1..k
    BY <1>1, <1>2, <1>4, <1>5, <2>1, <2>2, <2>3 DEF Before, i
  <2>5. m <= Bound(k, p, j)
    <3>1. CASE j < i
      <4>1. indexes[i].position < indexes[i].pending
        <5>1. indexes[i].position \in Nat /\ indexes[i].pending \in Nat
          BY <1>1, <1>5
        <5> QED
          BY <5>1, <1>4, <1>5
      <4>2. Size(j) <= indexes[j].pending
        BY <1>5, <2>2, <3>1, <4>1 DEF PendingOK, Size
      <4> QED
        BY <1>1, <1>2, <1>5, <2>1, <2>2, <2>4, <3>1, <4>2 DEF Bound
    <3>2. CASE j = i
      BY <1>1, <1>2, <1>4, <1>5, <2>1, <2>3, <3>2 DEF Before, Bound, i, n
    <3> QED
      BY <1>4, <2>1, <2>4, <3>1, <3>2
  <2>6. m \in (indexes[j].position + 1)..Bound(k, p, j)
    BY <1>1, <1>2, <2>1, <2>2, <2>4, <2>5 DEF Bound
  <2>7. y \in Covered(k, p)
    BY <1>3, <2>1, <2>4, <2>6
  <2> QED
    BY <2>1, <2>7 DEF y
<1>7. First(q, c) \subseteq Covered(k, p) \ {x}
  BY <1>6 DEF First
<1>8. /\ IsFiniteSet(Covered(k, p) \ {x})
      /\ Cardinality(Covered(k, p) \ {x}) = Cardinality(Covered(k, p)) - 1
  BY <1>3, FS_RemoveElement
<1>9. IsFiniteSet(First(q, c)) /\ Cardinality(First(q, c)) = c
  BY <1>0, FirstFacts DEF IsRead
<1>10. c <= Cardinality(Covered(k, p)) - 1
  BY <1>7, <1>8, <1>9, FS_Subset
<1>11. Cardinality(Covered(k, p)) \in Nat /\ c \in Nat
  BY <1>0, <1>3, FS_CardinalityType
<1> QED
  BY <1>10, <1>11

(* What AckedUpTo does to each index.                                      *)
LEMMA AckFacts ==
  ASSUME TypeOK, NEW k \in DOMAIN indexes,
         NEW p \in indexes[k].position..indexes[k].pending,
         indexes' = AckedUpTo(k, p)
  PROVE  /\ DOMAIN indexes' = DOMAIN indexes
         /\ \A i \in DOMAIN indexes :
              /\ indexes'[i].location = indexes[i].location
              /\ indexes'[i].pending = indexes[i].pending
              /\ indexes'[i].isEnd = indexes[i].isEnd
              /\ indexes'[i].position = IF i < k THEN indexes[i].pending
                                        ELSE IF i = k THEN p ELSE indexes[i].position
<1>1. \A i \in DOMAIN indexes : indexes[i] \in SensorIndex
  BY IndexesFacts
<1> QED
  BY <1>1 DEF AckedUpTo, SensorIndex

(* The current data file is that of the last index and of no other.        *)
LEMMA CurrentIsLast ==
  ASSUME IInv, Initialised
  PROVE  /\ Len(indexes) \in DOMAIN indexes /\ Len(indexes) \in Nat
         /\ indexes[Len(indexes)].location = launch /\ launch \in Files
         /\ \A i \in DOMAIN indexes : indexes[i].location = launch => i = Len(indexes)
<1>1. /\ Len(indexes) \in DOMAIN indexes /\ Len(indexes) \in Nat
      /\ indexes \in Seq(SensorIndex) /\ DOMAIN indexes = 1..Len(indexes)
  BY IndexesFacts DEF IInv, TypeOK, LocalTypeOK, CurrentFileKept
<1>2. indexes[Len(indexes)].location = launch
  BY DEF IInv, CurrentFileKept
<1>3. launch \in Files /\ launch \in Nat
  BY <1>1, <1>2, ListTypes
<1>4. ASSUME NEW i \in DOMAIN indexes, indexes[i].location = launch
      PROVE  i = Len(indexes)
  BY <1>1, <1>2, <1>3, <1>4 DEF IInv, Ordered, Increasing
<1> QED
  BY <1>1, <1>2, <1>3, <1>4

LEMMA ListAck ==
  ASSUME IInv, Initialised, ListOK(indexes, lines, sent, launch),
         NEW q, NEW c \in Nat, IsRead(q), SentUpTo(q, c), AckFromBegin(c)
  PROVE  ListOK(indexes', lines, sent, launch)
<1>0. TypeOK /\ PendingOK(indexes, lines)
  BY DEF IInv, ListOK
<1>1. PICK k \in DOMAIN indexes : \E p \in indexes[k].position..indexes[k].pending :
        Cardinality(Covered(k, p)) <= c /\ indexes' = AckedUpTo(k, p)
  <2>1. PICK k \in DOMAIN indexes : \E p \in indexes[k].position..indexes[k].pending :
          /\ Cardinality(Covered(k, p)) = c \/ Cardinality(Covered(k, p)) < c
          /\ indexes' = AckedUpTo(k, p)
    BY DEF AckFromBegin
  <2>2. PICK p \in indexes[k].position..indexes[k].pending :
          /\ Cardinality(Covered(k, p)) = c \/ Cardinality(Covered(k, p)) < c
          /\ indexes' = AckedUpTo(k, p)
    BY <2>1
  <2>3. indexes[k].position \in Nat
    BY <1>0, ListTypes DEF TypeOK, LocalTypeOK
  <2>4. Cardinality(Covered(k, p)) \in Nat
    BY <1>0, <2>3, CoveredFacts, FS_CardinalityType
  <2>5. Cardinality(Covered(k, p)) <= c
    BY <2>2, <2>4
  <2> QED
    BY <2>2, <2>5
<1>2. PICK p \in indexes[k].position..indexes[k].pending :
        Cardinality(Covered(k, p)) <= c /\ indexes' = AckedUpTo(k, p)
  BY <1>1
<1>3. /\ Len(indexes) \in Nat /\ DOMAIN indexes = 1..Len(indexes)
      /\ \A i \in DOMAIN indexes :
           /\ indexes[i].location \in Files
           /\ indexes[i].position \in Nat /\ indexes[i].pending \in Nat
           /\ indexes[i].position <= indexes[i].pending
           /\ Size(i) \in Nat
  BY <1>0, ListTypes, LineTypes DEF PendingOK, Size, TypeOK, LocalTypeOK
<1>4. p \in Nat /\ k \in Nat /\ indexes[k].position <= p /\ p <= indexes[k].pending
  BY <1>3
<1>5. /\ DOMAIN indexes' = DOMAIN indexes
      /\ \A i \in DOMAIN indexes :
           /\ indexes'[i].location = indexes[i].location
           /\ indexes'[i].pending = indexes[i].pending
           /\ indexes'[i].position = IF i < k THEN indexes[i].pending
                                     ELSE IF i = k THEN p ELSE indexes[i].position
  BY <1>0, <1>2, AckFacts
<1>6. /\ Len(q) \in Nat /\ c \in 0..Len(q) /\ DOMAIN q = 1..Len(q)
  BY LenProperties DEF IsRead, SentUpTo
<1>7. ASSUME NEW i \in DOMAIN indexes, NEW n \in Nat,
             indexes[i].position < n, n <= indexes'[i].position
      PROVE  \/ n <= Size(i) /\ lines[indexes[i].location][n] \in sent
             \/ Size(i) < n /\ i # Len(indexes)
  <2>1. /\ i \in 1..k
        /\ n \in (indexes[i].position + 1)..Bound(k, p, i)
    BY <1>3, <1>4, <1>5, <1>7 DEF Bound
  <2>2. <<i, n>> \in Covered(k, p)
    BY <1>0, <1>4, <2>1, CoveredFacts
  <2>3. <<i, n>>[1] = i /\ <<i, n>>[2] = n
    OBVIOUS
  <2>4. <<i, n>> \in First(q, c) \/ (Size(i) < n /\ i # Len(indexes))
    BY <1>0, <1>2, <1>6, <2>2, <2>3, CoveredIsSent
  <2>5. ASSUME <<i, n>> \in First(q, c)
        PROVE  n <= Size(i) /\ lines[indexes[i].location][n] \in sent
    <3>1. PICK a \in 1..c : q[a] = <<i, n>>
      BY <2>5 DEF First
    <3>2. a \in DOMAIN q /\ Unacked(<<i, n>>)
      BY <1>6, <3>1 DEF IsRead
    <3>3. LineAt(<<i, n>>) \in sent
      BY <3>1 DEF SentUpTo
    <3> QED
      BY <2>3, <3>2, <3>3 DEF Unacked, LineAt
  <2> QED
    BY <2>4, <2>5
<1>8. \A i \in DOMAIN indexes :
        /\ indexes[i].position <= indexes'[i].position
        /\ indexes'[i].position <= indexes[i].pending
        /\ indexes'[i].position \in Nat
  BY <1>3, <1>4, <1>5
<1>9. PendingOK(indexes', lines)
  BY <1>0, <1>3, <1>5, <1>8 DEF PendingOK
<1>10. SentOK(indexes', lines, sent)
  <2> SUFFICES ASSUME NEW i \in DOMAIN indexes, NEW n \in 1..indexes'[i].position,
                      n <= Len(lines[indexes[i].location])
               PROVE  lines[indexes[i].location][n] \in sent
    BY <1>5 DEF SentOK
  <2>1. n \in Nat /\ n >= 1 /\ n <= indexes'[i].position /\ n <= Size(i)
    BY <1>8 DEF Size
  <2>2. CASE n <= indexes[i].position
    BY <1>3, <2>1, <2>2 DEF ListOK, SentOK
  <2>3. CASE indexes[i].position < n
    BY <1>3, <1>7, <2>1, <2>3
  <2> QED
    BY <1>3, <2>1, <2>2, <2>3
<1>11. CurrentOK(indexes', lines, launch)
  <2> SUFFICES ASSUME NEW i \in DOMAIN indexes, indexes[i].location = launch
               PROVE  indexes'[i].position <= Size(i)
    BY <1>5 DEF CurrentOK, Size
  <2>1. i = Len(indexes)
    BY CurrentIsLast
  <2>2. indexes[i].position <= Size(i)
    BY DEF ListOK, CurrentOK, Size
  <2>3. CASE indexes[i].position < indexes'[i].position
    BY <1>7, <1>8, <2>1, <2>3
  <2> QED
    BY <1>3, <1>8, <2>2, <2>3
<1> QED
  BY <1>9, <1>10, <1>11 DEF ListOK

-----------------------------------------------------------------------------
(* The positions, step by step.                                            *)

(* Steps that leave the index and the lines alone.                         *)
LEMMA PositionFrame ==
  ASSUME PositionInv, UNCHANGED <<launch, lines, indexJson, indexes, cursor>>,
         sent \subseteq sent', Registering' => Registering,
         cursor.file # 0 =>
           /\ lockQ'[1].by = lockQ[1].by
           /\ stream[lockQ[1].by] # "open" => stream'[lockQ[1].by] # "open"
  PROVE  PositionInv'
<1>1. ListsOK'
  BY ListSent DEF PositionInv, ListsOK
<1>2. Fresh'
  BY DEF PositionInv, Fresh
<1>3. ReaderOK'
  BY DEF PositionInv, ReaderOK, Stopped, Size
<1> QED
  BY <1>1, <1>2, <1>3 DEF PositionInv

(* Steps while no load is reading.                                         *)
LEMMA PositionLists ==
  ASSUME Fresh, UNCHANGED <<launch, lines, sent>>, Registering' => Registering,
         cursor'.file = 0,
         ListOK(indexes', lines, sent, launch), ListOK(indexJson', lines, sent, launch)
  PROVE  PositionInv'
  BY DEF PositionInv, ListsOK, Fresh, ReaderOK

LEMMA PositionStore ==
  ASSUME IInv, PositionInv, NEW r \in Records, step = "idle", StoreToEnd(r), UNCHANGED sent
  PROVE  PositionInv'
<1>0. /\ TypeOK /\ Initialised /\ lines \in [Files -> Seq(Records)]
      /\ indexes \in Seq(SensorIndex) /\ indexJson \in Seq(SensorIndex)
      /\ cursor \in [file : Nat, from : Nat, read : Nat, total : Nat, terminated : BOOLEAN]
  BY DEF IInv, Initialised, TypeOK, LocalTypeOK
<1>1. /\ launch \in Files
      /\ \A i \in DOMAIN indexes : indexes[i].location = launch => i = Len(indexes)
  BY <1>0, CurrentIsLast
<1>2. /\ lines' = [lines EXCEPT ![launch] = Append(@, r)]
      /\ UNCHANGED <<launch, indexJson, indexes, cursor, lockQ, stream, step, after>>
  BY DEF StoreToEnd, loadVars, sectionVars
<1>3. /\ \A f \in Files \ {launch} : lines'[f] = lines[f]
      /\ Len(lines'[launch]) = Len(lines[launch]) + 1 /\ Len(lines[launch]) \in Nat
  BY <1>0, <1>1, <1>2, AppendedLine, LineTypes
<1>4. ListsOK'
  <2>1. ASSUME NEW list \in Seq(SensorIndex), Increasing(list),
               \A i \in DOMAIN list : list[i].location <= launch,
               ListOK(list, lines, sent, launch)
        PROVE  ListOK(list, lines', sent, launch)
    <3>1. lines \in [Files -> Seq(Records)] /\ launch \in Files
      BY <1>0, <1>1
    <3>2. lines' = [lines EXCEPT ![launch] = Append(@, r)]
      BY <1>2
    <3> QED
      BY <3>1, <3>2, <2>1, ListStore
  <2> QED
    BY <1>0, <1>2, <2>1 DEF IInv, Ordered, PositionInv, ListsOK
<1>5. Fresh'
  <2>1. launch \in Nat
    BY <1>0 DEF TypeOK, LocalTypeOK
  <2>2. ~Registering'
    BY <1>2 DEF Registering
  <2>3. \A f \in Files : f > launch => f # launch
    BY <2>1
  <2> QED
    BY <1>2, <1>3, <2>2, <2>3 DEF PositionInv, Fresh
<1>6. ReaderOK'
  <2> SUFFICES ASSUME cursor.file # 0 PROVE ReaderOK'
    BY <1>2 DEF ReaderOK
  <2>0. /\ cursor.file \in Nat /\ cursor.from \in Nat /\ cursor.read \in Nat
        /\ cursor.file <= Len(indexes)
    BY <1>0 DEF IInv, LockOK
  <2>1. /\ cursor.file \in DOMAIN indexes /\ Len(indexes) \in Nat
        /\ DOMAIN indexes = 1..Len(indexes) /\ cursor.file \in Nat
        /\ \A i \in DOMAIN indexes : indexes[i].location \in Files
    BY <1>0, ListTypes DEF IInv, LockOK
  <2>2. \A i \in DOMAIN indexes : Size(i) \in Nat
    BY <1>0, <2>1, LineTypes DEF Size
  <2>3. \A i \in DOMAIN indexes : Size(i)' \in {Size(i), Size(i) + 1}
    BY <1>2, <1>3, <2>1 DEF Size
  <2>4. \A i \in 1..(cursor.file - 1) : i \in DOMAIN indexes /\ Size(i)' = Size(i)
    <3>1. ASSUME NEW i \in 1..(cursor.file - 1)
          PROVE  i \in DOMAIN indexes /\ i # Len(indexes)
      <4>1. i \in Nat /\ i >= 1 /\ i < Len(indexes)
        BY <2>0, <2>1
      <4>2. DOMAIN indexes = 1..Len(indexes) /\ Len(indexes) \in Nat
        BY <2>1
      <4>3. i \in 1..Len(indexes)
        BY <4>1, <4>2
      <4>4. i # Len(indexes)
        <5> SUFFICES ASSUME i = Len(indexes) PROVE FALSE
          OBVIOUS
        <5>1. Len(indexes) < Len(indexes)
          BY <4>1
        <5> QED
          BY <4>2, <5>1
      <4> QED
        BY <4>2, <4>3, <4>4
    <3> QED
      BY <1>1, <1>2, <1>3, <2>1, <3>1 DEF Size
  <2>5. cursor.read > 0 => cursor.from + cursor.read <= Size(cursor.file)'
    <3>1. cursor.read > 0 => cursor.from + cursor.read <= Size(cursor.file)
      BY DEF PositionInv, ReaderOK
    <3>2. /\ Size(cursor.file) \in Nat
          /\ Size(cursor.file)' \in {Size(cursor.file), Size(cursor.file) + 1}
      BY <1>2, <2>1, <2>2, <2>3
    <3> QED
      BY <2>0, <3>1, <3>2
  <2> QED
    BY <1>2, <2>4, <2>5 DEF PositionInv, ReaderOK, Stopped
<1> QED
  BY <1>4, <1>5, <1>6 DEF PositionInv

LEMMA PositionLoad ==
  ASSUME IInv, PositionInv, NEW s \in Sessions, LoadStart(s) \/ ReadLine(s),
         UNCHANGED transmitVars
  PROVE  PositionInv'
<1>0. /\ TypeOK /\ Initialised /\ lines \in [Files -> Seq(Records)]
      /\ indexes \in Seq(SensorIndex)
      /\ cursor \in [file : Nat, from : Nat, read : Nat, total : Nat, terminated : BOOLEAN]
      /\ MaxCount \in Nat
  BY MaxCountAssumption
  DEF IInv, Initialised, TypeOK, LocalTypeOK, LoadStart, ReadLine
<1>1. /\ UNCHANGED <<launch, lines, indexJson, indexes, lockQ, stream, step, after, sent>>
      /\ lockQ[1].by = s
  BY DEF LoadStart, ReadLine, diskVars, sectionVars, transmitVars, historyVars, HoldsLock
<1>2. ListsOK' /\ Fresh'
  BY <1>1 DEF PositionInv, ListsOK, Fresh, Registering
<1>3. CASE LoadStart(s)
  <2>1. 1 \in DOMAIN indexes
    BY <1>0, ListTypes, CurrentIsLast
  <2>2. cursor' = [file |-> 1, from |-> indexes[1].position, read |-> 0,
                   total |-> 0, terminated |-> FALSE]
    BY <1>3 DEF LoadStart, OpenFile
  <2>3. indexes[1].position \in Nat
    BY <1>0, <2>1, ListTypes
  <2>4. ReaderOK'
    BY <1>1, <2>2, <2>3 DEF ReaderOK
  <2> QED
    BY <1>2, <2>4 DEF PositionInv
<1>4. CASE ReadLine(s)
  <2>1. /\ cursor.file # 0 /\ stream[s] = "open" /\ ~cursor.terminated
        /\ Size(cursor.file) - cursor.from - cursor.read > 0
        /\ \/ cursor.total = MaxCount /\ cursor' = [cursor EXCEPT !.terminated = TRUE]
           \/ cursor.total # MaxCount
              /\ cursor' = [cursor EXCEPT !.total = @ + 1, !.read = @ + 1]
    BY <1>4 DEF ReadLine, UnreadLines, Size
  <2>2. /\ cursor'.file = cursor.file /\ cursor'.from = cursor.from
        /\ \/ /\ cursor.total = MaxCount /\ cursor'.total = MaxCount
              /\ cursor'.read = cursor.read
           \/ /\ cursor.total # MaxCount /\ cursor'.read = cursor.read + 1
              /\ ~cursor'.terminated
    BY <1>0, <2>1
  <2>3. Size(cursor.file) \in Nat
    <3>1. cursor.file \in DOMAIN indexes
      BY <1>0, <2>1, ListTypes DEF IInv, LockOK
    <3> QED
      BY <1>0, <3>1, ListTypes, LineTypes DEF Size
  <2>4. cursor'.read > 0 => cursor'.from + cursor'.read <= Size(cursor.file)
    BY <1>0, <2>1, <2>2, <2>3
  <2>5. Stopped => Stopped'
    BY <1>1, <2>1, <2>2 DEF Stopped
  <2>6. ReaderOK'
    BY <1>1, <2>1, <2>2, <2>4, <2>5 DEF PositionInv, ReaderOK, Size
  <2> QED
    BY <1>2, <2>6 DEF PositionInv
<1> QED
  BY <1>3, <1>4

LEMMA PositionEndFile ==
  ASSUME IInv, PositionInv, NEW s \in Sessions, EndFile(s), UNCHANGED transmitVars
  PROVE  PositionInv'
<1> DEFINE k == cursor.file
<1>0. /\ TypeOK /\ Initialised /\ lines \in [Files -> Seq(Records)]
      /\ indexes \in Seq(SensorIndex) /\ k \in DOMAIN indexes /\ k <= Len(indexes)
      /\ cursor.file \in Nat /\ cursor.from \in Nat /\ cursor.read \in Nat
      /\ MaxCount \in Nat
  BY MaxCountAssumption, ListTypes
  DEF IInv, LockOK, Initialised, TypeOK, LocalTypeOK, EndFile
<1>1. /\ UNCHANGED <<launch, lines, indexJson, step, after, sent>>
      /\ lockQ[1].by = s /\ cursor.file # 0
      /\ indexes' = [indexes EXCEPT ![k] = Loaded(@)]
      /\ cursor.terminated \/ Size(k) - cursor.from - cursor.read <= 0 \/ stream[s] = "cancelled"
  BY DEF EndFile, diskVars, sectionVars, transmitVars, historyVars, HoldsLock, UnreadLines, Size
<1>2. /\ Len(indexes) \in Nat /\ DOMAIN indexes = 1..Len(indexes)
      /\ \A i \in DOMAIN indexes :
           /\ indexes[i] \in SensorIndex /\ indexes[i].location \in Files
           /\ indexes[i].position \in Nat /\ indexes[i].pending \in Nat
           /\ indexes[i].position <= indexes[i].pending
  BY <1>0, ListTypes DEF PositionInv, ListsOK, ListOK, PendingOK
<1>3. \A i \in DOMAIN indexes : Size(i) \in Nat
  BY <1>0, <1>2, LineTypes DEF Size
<1> HIDE DEF k
<1>4. /\ DOMAIN indexes' = DOMAIN indexes
      /\ \A i \in DOMAIN indexes :
           /\ indexes'[i].location = indexes[i].location
           /\ indexes'[i].position = indexes[i].position
           /\ i # k => indexes'[i].pending = indexes[i].pending
      /\ indexes'[k].pending = indexes[k].pending + cursor.read
  BY <1>0, <1>1, <1>2 DEF Loaded, SensorIndex
<1>5. \A i \in DOMAIN indexes :
        indexes'[i].pending \in Nat /\ indexes[i].pending <= indexes'[i].pending
  <2>1. /\ indexes[k].pending + cursor.read \in Nat
        /\ indexes[k].pending <= indexes[k].pending + cursor.read
    BY <1>0, <1>2
  <2>2. indexes'[k].pending \in Nat /\ indexes[k].pending <= indexes'[k].pending
    BY <1>4, <2>1
  <2>3. \A i \in DOMAIN indexes : i # k =>
           indexes'[i].pending \in Nat /\ indexes[i].pending <= indexes'[i].pending
    BY <1>2, <1>4
  <2> QED
    BY <2>2, <2>3
<1>6. ListOK(indexes', lines, sent, launch)
  <2>1. SentOK(indexes', lines, sent) /\ CurrentOK(indexes', lines, launch)
    BY <1>4 DEF PositionInv, ListsOK, ListOK, SentOK, CurrentOK
  <2>2. \A i \in DOMAIN indexes : indexes[i].position <= indexes'[i].pending
    BY <1>2, <1>5
  <2>3. ASSUME NEW i \in DOMAIN indexes, NEW j \in DOMAIN indexes, i < j,
               indexes[j].position < indexes'[j].pending
        PROVE  Size(i) <= indexes[i].pending
    <3>1. CASE indexes[j].position < indexes[j].pending
      BY <2>3, <3>1 DEF PositionInv, ListsOK, ListOK, PendingOK, Size
    <3>2. CASE ~(indexes[j].position < indexes[j].pending)
      <4>1. j = k /\ cursor.read # 0
        BY <1>0, <1>2, <1>4, <2>3, <3>2
      <4>2. i \in 1..(cursor.file - 1)
        BY <1>0, <1>2, <2>3, <4>1 DEF k
      <4> QED
        BY <1>1, <4>1, <4>2 DEF PositionInv, ReaderOK, Stopped
    <3> QED
      BY <3>1, <3>2
  <2>4. PendingOK(indexes', lines)
    BY <1>2, <1>3, <1>4, <1>5, <2>2, <2>3 DEF PendingOK, Size
  <2> QED
    BY <2>1, <2>4 DEF ListOK
<1>7. ListsOK' /\ Fresh'
  BY <1>1, <1>6 DEF PositionInv, ListsOK, Fresh, Registering
<1>8. CASE IsLast(cursor.file)
  <2>1. cursor'.file = 0
    BY <1>8 DEF EndFile, NoLoad
  <2> QED
    BY <1>7, <2>1 DEF PositionInv, ReaderOK
<1>9. CASE ~IsLast(cursor.file)
  <2>1. /\ UNCHANGED <<lockQ, stream>>
        /\ cursor' = [file |-> k + 1, from |-> indexes[k + 1].position, read |-> 0,
                      total |-> cursor.total, terminated |-> FALSE]
    BY <1>9 DEF EndFile, OpenFile, k
  <2>2. k + 1 \in DOMAIN indexes /\ k \in Nat
    BY <1>0, <1>2, <1>9 DEF IsLast, k
  <2>3. cursor'.from <= indexes'[cursor'.file].position
    BY <1>2, <1>4, <2>1, <2>2
  <2>4. ASSUME ~Stopped', NEW i \in 1..k
        PROVE  Size(i)' <= indexes'[i].pending
    <3>1. cursor.total # MaxCount /\ stream[s] = "open" /\ ~Stopped
      BY <1>1, <2>1, <2>4 DEF Stopped
    <3>2. ~cursor.terminated
      BY <1>1, <3>1 DEF PositionInv, ReaderOK
    <3>3. i \in DOMAIN indexes
      BY <1>2, <2>2
    <3>4. Size(i)' = Size(i)
      BY <1>1, <1>4, <3>3 DEF Size
    <3>5. CASE i = k
      <4>1. Size(k) - cursor.from - cursor.read <= 0
        BY <1>1, <3>1, <3>2
      <4>2. cursor.from <= indexes[k].position
        BY <1>1 DEF PositionInv, ReaderOK, k
      <4>3. /\ indexes[k].position \in Nat /\ indexes[k].pending \in Nat /\ Size(k) \in Nat
            /\ indexes[k].position <= indexes[k].pending
        BY <1>0, <1>2, <1>3
      <4>4. Size(k) <= indexes[k].pending + cursor.read
        BY <1>0, <4>1, <4>2, <4>3
      <4> QED
        BY <1>4, <3>4, <3>5, <4>4
    <3>6. CASE i # k
      <4>1. i \in 1..(cursor.file - 1)
        BY <2>2, <3>6 DEF k
      <4>2. Size(i) <= indexes[i].pending
        BY <1>1, <3>1, <4>1 DEF PositionInv, ReaderOK
      <4> QED
        BY <1>4, <3>3, <3>4, <3>6, <4>2
    <3> QED
      BY <3>5, <3>6
  <2>5. cursor'.file - 1 = k /\ cursor'.read = 0 /\ ~cursor'.terminated
    BY <2>1, <2>2
  <2>6. ReaderOK'
    BY <2>3, <2>4, <2>5 DEF ReaderOK
  <2> QED
    BY <1>7, <2>6 DEF PositionInv
<1> QED
  BY <1>8, <1>9

LEMMA PositionAck ==
  ASSUME IInv, PositionInv, Initialised, NEW q, NEW c \in Nat, IsRead(q), SentUpTo(q, c),
         AckFromBegin(c), UNCHANGED <<launch, lines, sent, indexJson, cursor, stream>>,
         ~Registering', cursor.file # 0 => lockQ'[1] = lockQ[1]
  PROVE  PositionInv'
<1>0. TypeOK
  BY DEF IInv
<1>1. ListsOK'
  BY ListAck DEF PositionInv, ListsOK
<1>2. PICK k \in DOMAIN indexes : \E p \in indexes[k].position..indexes[k].pending :
        indexes' = AckedUpTo(k, p)
  BY DEF AckFromBegin
<1>3. PICK p \in indexes[k].position..indexes[k].pending : indexes' = AckedUpTo(k, p)
  BY <1>2
<1>4. /\ Len(indexes) \in Nat /\ DOMAIN indexes = 1..Len(indexes)
      /\ \A i \in DOMAIN indexes :
           /\ indexes[i].position \in Nat /\ indexes[i].pending \in Nat
           /\ indexes[i].position <= indexes[i].pending
  BY <1>0, ListTypes DEF PositionInv, ListsOK, ListOK, PendingOK, TypeOK, LocalTypeOK
<1>5. \A i \in DOMAIN indexes :
        /\ indexes'[i].location = indexes[i].location
        /\ indexes'[i].pending = indexes[i].pending
        /\ indexes[i].position <= indexes'[i].position /\ indexes'[i].position \in Nat
  BY <1>0, <1>3, <1>4, AckFacts
<1>6. ReaderOK'
  <2> SUFFICES ASSUME cursor.file # 0 PROVE ReaderOK'
    BY DEF ReaderOK
  <2>1. /\ cursor.file \in DOMAIN indexes /\ cursor.file \in Nat /\ cursor.from \in Nat
        /\ cursor.file <= Len(indexes)
    BY <1>0, <1>4 DEF IInv, LockOK, TypeOK, LocalTypeOK
  <2>2. \A i \in DOMAIN indexes : Size(i)' = Size(i)
    BY <1>5 DEF Size
  <2>3. cursor.from <= indexes'[cursor.file].position
    <3>1. cursor.from <= indexes[cursor.file].position
      BY DEF PositionInv, ReaderOK
    <3> QED
      BY <1>4, <1>5, <2>1, <3>1
  <2>4. \A i \in 1..(cursor.file - 1) : i \in DOMAIN indexes
    BY <1>4, <2>1
  <2> QED
    BY <1>5, <2>1, <2>2, <2>3, <2>4 DEF PositionInv, ReaderOK, Stopped
<1>7. Fresh'
  BY DEF PositionInv, Fresh
<1> QED
  BY <1>1, <1>6, <1>7 DEF PositionInv

LEMMA PositionNAck ==
  ASSUME IInv, PositionInv, NEW s \in Sessions, RunNAck(s), UNCHANGED transmitVars
  PROVE  PositionInv'
<1> USE DEF RunNAck, diskVars, loadVars, transmitVars, historyVars
<1>0. TypeOK /\ indexes \in Seq(SensorIndex)
  BY DEF IInv, TypeOK, LocalTypeOK
<1>1. cursor'.file = 0 /\ ~Registering'
  BY DEF IInv, LockOK, HoldsLock, Registering
<1>2. /\ Len(indexes) \in Nat /\ DOMAIN indexes = 1..Len(indexes)
      /\ \A i \in DOMAIN indexes :
           /\ indexes[i] \in SensorIndex
           /\ indexes[i].position \in Nat /\ indexes[i].pending \in Nat
  BY <1>0, ListTypes
<1>3. /\ DOMAIN indexes' = DOMAIN indexes
      /\ \A i \in DOMAIN indexes :
           /\ indexes'[i].location = indexes[i].location
           /\ indexes'[i].position = indexes[i].position
           /\ indexes'[i].pending = indexes[i].position
  BY <1>2 DEF SensorIndex
<1> HIDE DEF RunNAck
<1>4. ListOK(indexes', lines, sent, launch)
  <2>1. \A i \in DOMAIN indexes : ~(indexes[i].position < indexes[i].position)
    BY <1>2
  <2>2. PendingOK(indexes', lines)
    <3>1. \A i \in DOMAIN indexes : indexes'[i].position <= indexes'[i].pending
      BY <1>2, <1>3
    <3>2. \A j \in DOMAIN indexes : ~(indexes'[j].position < indexes'[j].pending)
      BY <1>3, <2>1
    <3> QED
      BY <1>3, <3>1, <3>2 DEF PendingOK
  <2>3. SentOK(indexes', lines, sent) /\ CurrentOK(indexes', lines, launch)
    BY <1>3 DEF PositionInv, ListsOK, ListOK, SentOK, CurrentOK
  <2> QED
    BY <2>2, <2>3 DEF ListOK
<1> QED
  BY <1>1, <1>4, PositionLists DEF RunNAck, PositionInv, ListsOK

LEMMA PositionIndex ==
  ASSUME IInv, PositionInv, IndexStep
  PROVE  PositionInv'
<1> USE DEF diskVars, loadVars, sectionVars, transmitVars, historyVars, StoreIndexContext
<1>0. TypeOK /\ indexes \in Seq(SensorIndex) /\ step # "idle" /\ cursor.file = 0
  <2>1. step # "idle"
    BY DEF IndexStep, TruncateIndex, WriteIndex, RemoveFirstIndex, DeleteDataFile,
       FinalStore, ReleaseLock
  <2> QED
    BY <2>1 DEF IInv, LockOK, TypeOK, LocalTypeOK
<1>1. /\ UNCHANGED <<launch, lines, sent, cursor>> /\ cursor'.file = 0
  BY <1>0 DEF IndexStep, TruncateIndex, WriteIndex, RemoveFirstIndex, DeleteDataFile,
     FinalStore, ReleaseLock
<1>2. Registering' => Registering
  BY DEF IndexStep, TruncateIndex, WriteIndex, RemoveFirstIndex, DeleteDataFile,
     FinalStore, ReleaseLock, Registering
<1>3. CASE WriteIndex
  BY <1>1, <1>2, <1>3, PositionLists DEF WriteIndex, PositionInv, ListsOK
<1>4. CASE RemoveFirstIndex
  <2>1. indexes # <<>>
    BY <1>4 DEF RemoveFirstIndex, IInv, CurrentFileKept, Initialised
  <2>2. ListOK(indexes', lines, sent, launch)
    BY <1>0, <1>4, <2>1, ListTail DEF RemoveFirstIndex, PositionInv, ListsOK
  <2> QED
    BY <1>1, <1>2, <1>4, <2>2, PositionLists DEF RemoveFirstIndex, PositionInv, ListsOK
<1>5. CASE TruncateIndex \/ DeleteDataFile \/ FinalStore \/ ReleaseLock
  <2>1. UNCHANGED <<indexes, indexJson>>
    BY <1>5 DEF TruncateIndex, DeleteDataFile, FinalStore, ReleaseLock
  <2> QED
    BY <1>1, <1>2, <2>1, PositionLists DEF PositionInv, ListsOK
<1> QED
  BY <1>3, <1>4, <1>5 DEF IndexStep

LEMMA PositionInit ==
  ASSUME IInv, PositionInv, InitStep \/ Kill
  PROVE  PositionInv'
<1> USE DEF diskVars, loadVars, sectionVars, transmitVars, historyVars, StoreIndexContext
<1>0. /\ TypeOK /\ indexes \in Seq(SensorIndex) /\ indexJson \in Seq(SensorIndex)
      /\ launch \in Nat /\ MaxLaunches \in Nat
      /\ lines \in [Files -> Seq(Records)]
  BY LaunchesAssumption DEF IInv, TypeOK, LocalTypeOK
<1>1. CASE Kill
  <2>1. /\ UNCHANGED <<launch, lines, sent, indexJson>>
        /\ cursor'.file = 0 /\ indexes' = <<>> /\ ~Registering'
    BY <1>1 DEF Kill, LocalKill, NoLoad, Registering
  <2> QED
    BY <2>1, ListEmpty, PositionLists DEF PositionInv, ListsOK
<1>2. CASE (LaunchAfterTornIndex \/ LaunchWithIndex) /\ UNCHANGED transmitVars
  <2>1. /\ UNCHANGED <<lines, sent, cursor>> /\ step = "down" /\ launch' = launch + 1
        /\ launch < MaxLaunches
        /\ indexes' \in {<<>>, indexJson} /\ indexJson' \in {<<>>, indexJson}
    BY <1>2 DEF LaunchAfterTornIndex, LaunchWithIndex
  <2>2. cursor'.file = 0
    BY <2>1 DEF IInv, LockOK
  <2>3. ListOK(indexJson, lines, sent, launch')
    BY <1>0, <2>1, ListLaunch DEF IInv, Ordered, PositionInv, ListsOK
  <2>4. ListsOK'
    BY <2>1, <2>3, ListEmpty DEF ListsOK
  <2>5. Fresh'
    <3>1. launch' \in Files /\ launch' > launch
      BY <1>0, <2>1 DEF Files
    <3>2. \A f \in Files : f > launch' => f > launch
      BY <1>0, <2>1 DEF Files
    <3> QED
      BY <2>1, <3>1, <3>2 DEF PositionInv, Fresh
  <2> QED
    BY <2>2, <2>4, <2>5 DEF PositionInv, ReaderOK
<1>3. CASE RegisterDataFile /\ UNCHANGED transmitVars
  <2> DEFINE e == [location |-> launch, position |-> 0, pending |-> 0, isEnd |-> FALSE]
  <2>1. /\ UNCHANGED <<lines, sent, cursor, launch, indexJson>> /\ step = "register"
        /\ indexes' = Append(indexes, e)
    BY <1>3 DEF RegisterDataFile
  <2>2. cursor'.file = 0
    BY <2>1 DEF IInv, LockOK
  <2>3. launch \in Files
    BY <2>1 DEF IInv, Ordered
  <2>4. e \in SensorIndex /\ e.location = launch /\ e.position = 0 /\ e.pending = 0
    BY <2>3 DEF SensorIndex
  <2> HIDE DEF e
  <2>5. /\ Len(indexes) \in Nat /\ DOMAIN indexes = 1..Len(indexes)
        /\ DOMAIN indexes' = 1..(Len(indexes) + 1)
        /\ \A i \in DOMAIN indexes : indexes'[i] = indexes[i]
        /\ indexes'[Len(indexes) + 1] = e
    BY <1>0, <2>1, <2>4, AppendProperties, LenProperties
  <2>6. \A i \in DOMAIN indexes' : i \in DOMAIN indexes \/ i = Len(indexes) + 1
    BY <2>5
  <2>7. Len(lines[launch]) \in Nat
    BY <1>0, <2>3, LineTypes
  <2>8. ListOK(indexes', lines, sent, launch)
    <3>1. SentOK(indexes', lines, sent)
      BY <2>4, <2>5, <2>6 DEF PositionInv, ListsOK, ListOK, SentOK
    <3>2. CurrentOK(indexes', lines, launch)
      BY <2>4, <2>5, <2>6, <2>7 DEF PositionInv, ListsOK, ListOK, CurrentOK
    <3>3. \A i \in DOMAIN indexes' : indexes'[i].position <= indexes'[i].pending
      BY <2>4, <2>5, <2>6 DEF PositionInv, ListsOK, ListOK, PendingOK
    <3>4. ASSUME NEW i \in DOMAIN indexes', NEW j \in DOMAIN indexes', i < j,
                 indexes'[j].position < indexes'[j].pending
          PROVE  Len(lines[indexes'[i].location]) <= indexes'[i].pending
      <4>1. j # Len(indexes) + 1
        BY <2>4, <2>5, <3>4
      <4>2. j \in DOMAIN indexes
        BY <2>6, <4>1
      <4>3. i \in DOMAIN indexes
        BY <2>5, <4>2, <3>4
      <4> QED
        BY <2>5, <3>4, <4>2, <4>3 DEF PositionInv, ListsOK, ListOK, PendingOK
    <3> QED
      BY <3>1, <3>2, <3>3, <3>4 DEF ListOK, PendingOK
  <2>9. Registering
    BY <2>1 DEF Registering
  <2> QED
    BY <2>1, <2>2, <2>8, <2>9, PositionLists DEF PositionInv, ListsOK
<1> QED
  BY <1>1, <1>2, <1>3 DEF InitStep

-----------------------------------------------------------------------------
(* What a pass has read.                                                   *)

(* The reader is past a place.                                             *)
Reached(x) ==
  \/ x[1] < cursor.file
  \/ x[1] = cursor.file /\ x[2] <= cursor.from + cursor.read

(* q is what the load has read of the lines not acknowledged, except when  *)
(* it stopped before.                                                      *)
ReadSoFar(q) ==
  cursor.file # 0 =>
    /\ cursor.from = indexes[cursor.file].position
    /\ \A a \in DOMAIN q : Reached(q[a])
    /\ Stopped \/ \A x \in Places : Unacked(x) /\ Reached(x) => Has(q, x)

(* Of the lines read, the session has counted some and the stream holds    *)
(* the others, in the same order.                                          *)
Buffered(s, q) ==
  /\ Len(q) = counter[s] + Len(buffer[s])
  /\ \A b \in DOMAIN buffer[s] : buffer[s][b] = LineAt(q[counter[s] + b])

(* q is what the pass of a session has read.  After a failed send only the *)
(* count matters.                                                          *)
PassOf(s, q) ==
  /\ IsRead(q) /\ SentUpTo(q, counter[s])
  /\ pc[s] # "nack" => ReadSoFar(q) /\ Buffered(s, q)

PassInv == \A s \in Sessions : InPass(s) /\ Begun => \E q : PassOf(s, q)

(* The acknowledgement about to run covers the lines that its pass has     *)
(* sent.                                                                   *)
AckOf(q) == IsRead(q) /\ SentUpTo(q, lockQ[1].count)

AckInv == step = "run" /\ lockQ[1].kind = "ack" => \E q : AckOf(q)

(* Types of a list of places read.                                         *)
LEMMA ReadFacts ==
  ASSUME NEW q, IsRead(q)
  PROVE  /\ q \in Seq(Places) /\ Len(q) \in Nat /\ DOMAIN q = 1..Len(q)
         /\ \A a \in DOMAIN q : q[a] \in Places /\ Unacked(q[a])
  BY LenProperties DEF IsRead

(* Steps that neither move a position nor write a line keep the places.    *)
SamePlaces ==
  /\ lines' = lines /\ DOMAIN indexes' = DOMAIN indexes
  /\ \A i \in DOMAIN indexes :
       indexes'[i].location = indexes[i].location /\ indexes'[i].position = indexes[i].position

LEMMA SameRead ==
  ASSUME NEW q, IsRead(q), SamePlaces
  PROVE  /\ \A x : Unacked(x)' <=> Unacked(x)
         /\ \A x : Unacked(x) => LineAt(x)' = LineAt(x)
         /\ IsRead(q)'
<1>1. \A x : Unacked(x)' <=> Unacked(x)
  BY DEF SamePlaces, Unacked, Size
<1>2. \A x : Unacked(x) => LineAt(x)' = LineAt(x)
  BY DEF SamePlaces, Unacked, LineAt
<1> QED
  BY <1>1, <1>2 DEF IsRead, Has

(* What was sent stays sent.                                               *)
LEMMA SameSent ==
  ASSUME NEW q, IsRead(q), IsRead(q)', NEW c, SentUpTo(q, c),
         \A a \in DOMAIN q : LineAt(q[a])' = LineAt(q[a]), sent \subseteq sent'
  PROVE  SentUpTo(q, c)'
<1>1. /\ c \in 0..Len(q) /\ \A a \in 1..c : a \in DOMAIN q
  BY ReadFacts DEF SentUpTo
<1> QED
  BY <1>1 DEF SentUpTo

(* Steps that leave the reader and the buffer alone.                       *)
LEMMA PassFrame ==
  ASSUME NEW s \in Sessions, NEW q, PassOf(s, q),
         UNCHANGED <<lines, indexes, cursor, lockQ, stream>>,
         counter'[s] = counter[s], buffer'[s] = buffer[s],
         pc[s] = "nack" => pc'[s] = "nack", sent \subseteq sent'
  PROVE  PassOf(s, q)'
<1>1. SamePlaces /\ IsRead(q)
  BY DEF SamePlaces, PassOf
<1>2. IsRead(q)' /\ \A a \in DOMAIN q : LineAt(q[a])' = LineAt(q[a])
  BY <1>1, SameRead, ReadFacts
<1>3. SentUpTo(q, counter[s])'
  <2>1. \A c : SentUpTo(q, c) => SentUpTo(q, c)'
    BY <1>1, <1>2, SameSent
  <2>2. SentUpTo(q, counter[s])
    BY DEF PassOf
  <2> QED
    BY <2>1, <2>2 DEF SentUpTo
<1>4. pc'[s] # "nack" => ReadSoFar(q)' /\ Buffered(s, q)'
  BY DEF PassOf, ReadSoFar, Buffered, Stopped, Reached, Unacked, Has, Size, LineAt
<1> QED
  BY <1>2, <1>3, <1>4 DEF PassOf

LEMMA PassStore ==
  ASSUME IInv, PositionInv, step = "idle", NEW s \in Sessions, NEW q, PassOf(s, q),
         NEW r \in Records, StoreToEnd(r), UNCHANGED <<pc, counter, sent>>
  PROVE  PassOf(s, q)'
<1> DEFINE last == Len(indexes)
<1>0. /\ TypeOK /\ Initialised /\ lines \in [Files -> Seq(Records)]
      /\ indexes \in Seq(SensorIndex)
      /\ cursor.file \in Nat /\ cursor.from \in Nat /\ cursor.read \in Nat
  BY DEF IInv, Initialised, TypeOK, LocalTypeOK
<1>1. /\ last \in DOMAIN indexes /\ last \in Nat /\ DOMAIN indexes = 1..last
      /\ indexes[last].location = launch /\ launch \in Files
      /\ \A i \in DOMAIN indexes : indexes[i].location = launch => i = last
      /\ \A i \in DOMAIN indexes : indexes[i].location \in Files /\ indexes[i].position \in Nat
  BY <1>0, CurrentIsLast, ListTypes
<1> HIDE DEF last
<1>2. /\ lines' = [lines EXCEPT ![launch] = Append(@, r)]
      /\ UNCHANGED <<indexes, cursor, lockQ, stream, buffer>>
  BY DEF StoreToEnd, loadVars
<1>3. /\ \A f \in Files \ {launch} : lines'[f] = lines[f]
      /\ Len(lines'[launch]) = Len(lines[launch]) + 1 /\ Len(lines[launch]) \in Nat
      /\ \A n \in 1..Len(lines[launch]) : lines'[launch][n] = lines[launch][n]
  BY <1>0, <1>1, <1>2, AppendedLine, LineTypes
<1>4. /\ \A i \in DOMAIN indexes : Size(i) \in Nat
      /\ \A i \in DOMAIN indexes : i # last => Size(i)' = Size(i)
      /\ Size(last)' = Size(last) + 1
      /\ indexes[last].position <= Size(last)
  <2>1. \A i \in DOMAIN indexes : Size(i) \in Nat
    BY <1>0, <1>1, LineTypes DEF Size
  <2>2. \A i \in DOMAIN indexes : i # last => Size(i)' = Size(i)
    BY <1>1, <1>2, <1>3 DEF Size
  <2>3. Size(last)' = Size(last) + 1
    BY <1>1, <1>2, <1>3 DEF Size, last
  <2>4. indexes[last].position <= Size(last)
    BY <1>1 DEF PositionInv, ListsOK, ListOK, CurrentOK, Size
  <2> QED
    BY <2>1, <2>2, <2>3, <2>4
<1>5. ASSUME NEW x \in Places, Unacked(x)
      PROVE  Unacked(x)' /\ LineAt(x)' = LineAt(x)
  <2>1. /\ x[1] \in DOMAIN indexes /\ x[2] \in Nat
        /\ indexes[x[1]].position < x[2] /\ x[2] <= Size(x[1])
        /\ indexes[x[1]].position \in Nat
    BY <1>1, <1>5, PlaceFacts DEF Unacked
  <2>2. x[2] <= Size(x[1])'
    <3>1. CASE x[1] = last
      BY <1>2, <1>4, <2>1, <3>1 DEF Size, last
    <3>2. CASE x[1] # last
      BY <1>4, <2>1, <3>2 DEF Size
    <3> QED
      BY <3>1, <3>2
  <2>3. Unacked(x)'
    BY <1>2, <2>1, <2>2 DEF Unacked
  <2>4. x[2] \in 1..Len(lines[indexes[x[1]].location])
    BY <2>1 DEF Size
  <2>5. lines'[indexes[x[1]].location][x[2]] = lines[indexes[x[1]].location][x[2]]
    BY <1>1, <1>3, <2>1, <2>4
  <2> QED
    BY <1>2, <2>3, <2>5 DEF LineAt
<1>6. ASSUME NEW x \in Places, Unacked(x)', ~Unacked(x)
      PROVE  x[1] = last /\ x[2] > Size(last)
  BY <1>1, <1>2, <1>4, <1>6, PlaceFacts DEF Unacked
<1>7. /\ q \in Seq(Places) /\ Len(q) \in Nat /\ DOMAIN q = 1..Len(q)
      /\ \A a \in DOMAIN q : q[a] \in Places /\ Unacked(q[a])
  BY ReadFacts DEF PassOf
<1>8. IsRead(q)'
  <2>1. ASSUME NEW a \in DOMAIN q, NEW x \in Places, Unacked(x)', Before(x, q[a])
        PROVE  Unacked(x)
    <3> SUFFICES ASSUME ~Unacked(x) PROVE FALSE
      OBVIOUS
    <3>1. x[1] = last /\ x[2] > Size(last) /\ x[2] \in Nat
      BY <1>6, <2>1, PlaceFacts
    <3>2. q[a][1] \in 1..last /\ q[a][2] \in Nat /\ q[a][2] <= Size(q[a][1])
      BY <1>1, <1>7, PlaceFacts DEF Unacked
    <3>3. q[a][1] = last /\ x[2] < q[a][2]
      BY <1>1, <2>1, <3>1, <3>2 DEF Before
    <3> QED
      BY <1>1, <1>4, <3>1, <3>2, <3>3
  <2>2. \A a \in DOMAIN q : Unacked(q[a])'
    BY <1>5, <1>7
  <2> QED
    BY <1>7, <2>1, <2>2 DEF PassOf, IsRead, Has, Before
<1>9. SentUpTo(q, counter[s])'
  <2>1. \A a \in DOMAIN q : LineAt(q[a])' = LineAt(q[a])
    BY <1>5, <1>7
  <2>2. \A a \in 1..counter[s] : a \in DOMAIN q
    BY <1>7 DEF PassOf, SentUpTo
  <2> QED
    BY <2>1, <2>2 DEF PassOf, SentUpTo
<1>10. ASSUME pc[s] # "nack"
       PROVE  Buffered(s, q)'
  <2>1. ASSUME NEW b \in DOMAIN buffer[s]
        PROVE  counter[s] + b \in DOMAIN q
    <3>1. buffer[s] \in Seq(Records) /\ counter[s] \in Nat
      BY <1>0 DEF TypeOK, LocalTypeOK
    <3>2. Len(buffer[s]) \in Nat /\ b \in 1..Len(buffer[s])
      BY <3>1, LenProperties
    <3>3. Len(q) = counter[s] + Len(buffer[s])
      BY <1>10 DEF PassOf, Buffered
    <3> QED
      BY <1>7, <3>1, <3>2, <3>3
  <2> QED
    BY <1>2, <1>5, <1>7, <1>10, <2>1 DEF PassOf, Buffered
<1>11. ASSUME pc[s] # "nack", cursor.file # 0
       PROVE  ReadSoFar(q)'
  <2>1. /\ cursor.from = indexes[cursor.file].position
        /\ \A a \in DOMAIN q : Reached(q[a])
        /\ Stopped \/ \A x \in Places : Unacked(x) /\ Reached(x) => Has(q, x)
    BY <1>11 DEF PassOf, ReadSoFar
  <2>2. ASSUME NEW x \in Places, Unacked(x)', Reached(x)
        PROVE  Unacked(x)
    <3> SUFFICES ASSUME ~Unacked(x) PROVE FALSE
      OBVIOUS
    <3>1. x[1] = last /\ x[2] > Size(last) /\ x[2] \in Nat
      BY <1>6, <2>2, PlaceFacts
    <3>2. cursor.file <= last
      BY <1>11 DEF IInv, LockOK, last
    <3>3. cursor.file = last /\ x[2] <= cursor.from + cursor.read
      BY <1>0, <1>1, <2>2, <3>1, <3>2 DEF Reached
    <3>4. cursor.from <= Size(last)
      BY <1>4, <2>1, <3>3
    <3>5. cursor.read > 0 => cursor.from + cursor.read <= Size(last)
      BY <1>11, <3>3 DEF PositionInv, ReaderOK
    <3>6. Size(last) \in Nat
      BY <1>1, <1>4
    <3>7. cursor.from + cursor.read <= Size(last)
      BY <1>0, <3>4, <3>5, <3>6
    <3> QED
      BY <1>0, <3>1, <3>3, <3>6, <3>7
  <2>3. Stopped' <=> Stopped
    BY <1>2 DEF Stopped
  <2>4. \A x : Reached(x)' <=> Reached(x)
    BY <1>2 DEF Reached
  <2> QED
    BY <1>2, <2>1, <2>2, <2>3, <2>4 DEF ReadSoFar, Has
<1>12. ReadSoFar(q)' \/ cursor.file # 0
  BY <1>2 DEF ReadSoFar
<1> QED
  BY <1>8, <1>9, <1>10, <1>11, <1>12 DEF PassOf

LEMMA PassSend ==
  ASSUME IInv, NEW s \in Sessions, NEW q, PassOf(s, q), SendReturnsTrue(s)
  PROVE  PassOf(s, q)'
<1> DEFINE c == counter[s]
<1>0. /\ pc[s] = "sending" /\ pc'[s] = "await" /\ buffer[s] # <<>> /\ buffer[s] \in Seq(Records)
      /\ c \in Nat /\ counter'[s] = c + 1 /\ buffer'[s] = Tail(buffer[s])
      /\ sent' = sent \cup {Head(buffer[s])}
      /\ UNCHANGED <<lines, indexes, cursor, lockQ>>
      /\ \A t \in Sessions : t # s => stream'[t] = stream[t]
      /\ UNCHANGED stream
  BY DEF IInv, TypeOK, LocalTypeOK, SendingOK, SendReturnsTrue, Delivered, diskVars
<1>1. /\ Len(buffer[s]) \in Nat /\ Len(buffer[s]) >= 1 /\ Head(buffer[s]) = buffer[s][1]
      /\ Len(buffer'[s]) = Len(buffer[s]) - 1 /\ DOMAIN buffer'[s] = 1..(Len(buffer[s]) - 1)
      /\ DOMAIN buffer[s] = 1..Len(buffer[s])
      /\ \A b \in 1..(Len(buffer[s]) - 1) : buffer'[s][b] = buffer[s][b + 1]
  BY <1>0, HeadTailProperties, LenProperties, EmptySeq
<1>2. /\ Len(q) \in Nat /\ DOMAIN q = 1..Len(q) /\ Len(q) = c + Len(buffer[s])
      /\ \A b \in DOMAIN buffer[s] : buffer[s][b] = LineAt(q[c + b])
  BY <1>0, ReadFacts DEF PassOf, Buffered
<1>3. IsRead(q)' /\ \A a \in DOMAIN q : LineAt(q[a])' = LineAt(q[a])
  BY <1>0, SameRead, ReadFacts DEF PassOf, SamePlaces
<1>4. SentUpTo(q, counter[s])'
  <2>1. c + 1 \in 0..Len(q)
    BY <1>0, <1>1, <1>2
  <2>2. LineAt(q[c + 1]) = Head(buffer[s])
    BY <1>1, <1>2
  <2>3. ASSUME NEW a \in 1..(c + 1)
        PROVE  LineAt(q[a])' \in sent'
    <3>1. a \in DOMAIN q
      BY <1>0, <1>1, <1>2
    <3>2. CASE a = c + 1
      BY <1>0, <1>3, <2>2, <3>1, <3>2
    <3>3. CASE a # c + 1
      <4>1. a \in 1..c
        BY <1>0, <3>3
      <4>2. LineAt(q[a]) \in sent
        BY <4>1 DEF PassOf, SentUpTo
      <4> QED
        BY <1>0, <1>3, <3>1, <4>2
    <3> QED
      BY <3>2, <3>3
  <2> QED
    BY <1>0, <2>1, <2>3 DEF SentUpTo
<1>5. Buffered(s, q)'
  <2>1. Len(q) = counter'[s] + Len(buffer'[s])
    BY <1>0, <1>1, <1>2
  <2>2. ASSUME NEW b \in 1..(Len(buffer[s]) - 1)
        PROVE  buffer'[s][b] = LineAt(q[counter[s] + b])'
    <3>1. b \in Nat /\ b + 1 \in 1..Len(buffer[s])
      BY <1>1
    <3>2. c + 1 + b = c + (b + 1)
      BY <1>0, <3>1
    <3>3. buffer'[s][b] = LineAt(q[c + (b + 1)])
      BY <1>1, <1>2, <3>1
    <3> QED
      BY <1>0, <3>2, <3>3 DEF LineAt
  <2> QED
    BY <1>1, <2>1, <2>2 DEF Buffered
<1>6. ReadSoFar(q)'
  BY <1>0 DEF PassOf, ReadSoFar, Stopped, Reached, Unacked, Has, Size
<1> QED
  BY <1>3, <1>4, <1>5, <1>6 DEF PassOf

(* A send that failed: the pass only remembers what it sent.               *)
LEMMA PassFails ==
  ASSUME IInv, NEW s \in Sessions, NEW q, PassOf(s, q), SendReturnsFalse(s)
  PROVE  PassOf(s, q)'
<1>0. /\ pc'[s] = "nack" /\ UNCHANGED <<lines, indexes, counter, sent>>
  BY DEF IInv, TypeOK, SendReturnsFalse, CancelStream, diskVars, historyVars
<1> QED
  BY <1>0 DEF PassOf, IsRead, SentUpTo, Unacked, Size, LineAt, Has, Before

LEMMA PassLoadStart ==
  ASSUME IInv, QueueInv, NEW s \in Sessions, LoadStart(s), UNCHANGED transmitVars,
         InPass(s), Len(lockQ) = 1
  PROVE  PassOf(s, <<>>)'
<1>1. /\ pc[s] = "await" /\ buffer[s] = <<>> /\ counter[s] = 0
  <2>1. ~Begun
    BY DEF LoadStart, HoldsLock, Begun
  <2> QED
    BY <2>1 DEF QueueInv, SessionsOK, PassOK
<1>2. /\ UNCHANGED <<pc, counter, buffer, indexes, lines>>
      /\ cursor' = [file |-> 1, from |-> indexes[1].position, read |-> 0,
                    total |-> 0, terminated |-> FALSE]
  BY DEF LoadStart, OpenFile, transmitVars, sessionVars, diskVars
<1>3. /\ 1 \in DOMAIN indexes /\ indexes[1].position \in Nat
      /\ \A i \in DOMAIN indexes : i >= 1 /\ i \in Nat
  <2>1. Initialised /\ indexes \in Seq(SensorIndex)
    BY DEF LoadStart, Initialised, IInv, TypeOK, LocalTypeOK
  <2> QED
    BY <2>1, CurrentIsLast, ListTypes
<1>4. \A x \in Places : ~(Unacked(x)' /\ Reached(x)')
  <2> SUFFICES ASSUME NEW x \in Places, Unacked(x)', Reached(x)' PROVE FALSE
    OBVIOUS
  <2>1. x[1] \in DOMAIN indexes /\ indexes[x[1]].position < x[2] /\ x[1] >= 1 /\ x[1] \in Nat
    BY <1>2, <1>3 DEF Unacked
  <2>2. x[1] = 1 /\ x[2] <= indexes[1].position /\ x[2] \in Nat
    BY <1>2, <1>3, <2>1, PlaceFacts DEF Reached
  <2> QED
    BY <1>3, <2>1, <2>2
<1>5. <<>> \in Seq(Places) /\ Len(<<>>) = 0 /\ DOMAIN <<>> = {}
  OBVIOUS
<1>6. IsRead(<<>>)' /\ SentUpTo(<<>>, counter[s])'
  BY <1>1, <1>2, <1>5 DEF IsRead, SentUpTo
<1>7. ReadSoFar(<<>>)'
  BY <1>2, <1>4, <1>5 DEF ReadSoFar
<1>8. Buffered(s, <<>>)'
  BY <1>1, <1>2, <1>5 DEF Buffered
<1> QED
  BY <1>6, <1>7, <1>8 DEF PassOf

(* The place of the line read next.                                        *)
NextPlace == <<cursor.file, cursor.from + cursor.read + 1>>

(* What is read after ReadLine.                                            *)
Longer(q) == IF cursor.total = MaxCount THEN q ELSE Append(q, NextPlace)

(* Appending one place.                                                    *)
LEMMA LongerFacts ==
  ASSUME NEW q \in Seq(Places), NEW x \in Places
  PROVE  /\ Append(q, x) \in Seq(Places) /\ Len(q) \in Nat /\ DOMAIN q = 1..Len(q)
         /\ Len(Append(q, x)) = Len(q) + 1
         /\ DOMAIN Append(q, x) = 1..(Len(q) + 1)
         /\ \A a \in DOMAIN q : Append(q, x)[a] = q[a]
         /\ Append(q, x)[Len(q) + 1] = x
         /\ \A a \in DOMAIN Append(q, x) : a \in DOMAIN q \/ a = Len(q) + 1
         /\ \A y : Has(Append(q, x), y) <=> Has(q, y) \/ y = x
<1> DEFINE r == Append(q, x)
<1>1. /\ r \in Seq(Places) /\ Len(q) \in Nat /\ DOMAIN q = 1..Len(q)
      /\ Len(r) = Len(q) + 1
      /\ \A a \in 1..Len(q) : r[a] = q[a]
      /\ r[Len(q) + 1] = x
  BY AppendProperties, LenProperties
<1> HIDE DEF r
<1>2. DOMAIN r = 1..(Len(q) + 1)
  BY <1>1, LenProperties
<1>3. \A a \in DOMAIN r : a \in DOMAIN q \/ a = Len(q) + 1
  BY <1>1, <1>2
<1>4. Len(q) + 1 \in DOMAIN r /\ \A a \in DOMAIN q : a \in DOMAIN r
  BY <1>1, <1>2
<1>5. \A y : Has(r, y) <=> Has(q, y) \/ y = x
  BY <1>1, <1>3, <1>4 DEF Has
<1> QED
  BY <1>1, <1>2, <1>3, <1>5 DEF r

LEMMA PassReadLine ==
  ASSUME IInv, QueueInv, PositionInv, NEW s \in Sessions, NEW q, InPass(s), PassOf(s, q),
         ReadLine(s), UNCHANGED transmitVars, NEW p, p = Longer(q)
  PROVE  PassOf(s, p)' /\ pc[s] # "nack"
<1> DEFINE k == cursor.file
           m == cursor.from + cursor.read
<1>x. PICK x : x = NextPlace
  OBVIOUS
<1>0. /\ TypeOK /\ lines \in [Files -> Seq(Records)] /\ indexes \in Seq(SensorIndex)
      /\ cursor \in [file : Nat, from : Nat, read : Nat, total : Nat, terminated : BOOLEAN]
      /\ k \in Nat /\ cursor.from \in Nat /\ cursor.read \in Nat /\ m \in Nat
      /\ cursor.total \in Nat /\ MaxCount \in Nat
      /\ counter[s] \in Nat /\ buffer \in [Sessions -> Seq(Records)]
  BY MaxCountAssumption DEF IInv, TypeOK, LocalTypeOK
<1>1. /\ UNCHANGED <<pc, counter, sent, lines, indexes, lockQ, stream>>
      /\ k # 0 /\ stream[s] = "open" /\ lockQ[1].by = s
      /\ Size(k) - cursor.from - cursor.read > 0
      /\ IF cursor.total = MaxCount
         THEN /\ cursor' = [cursor EXCEPT !.terminated = TRUE] /\ buffer' = buffer
         ELSE /\ cursor' = [cursor EXCEPT !.total = @ + 1, !.read = @ + 1]
              /\ buffer' = [buffer EXCEPT ![s] = Append(@, lines[indexes[k].location][m + 1])]
  BY DEF ReadLine, transmitVars, sessionVars, historyVars, diskVars, HoldsLock, UnreadLines, Size
<1>2. pc[s] # "nack" /\ pc'[s] # "nack"
  BY <1>1 DEF QueueInv, SessionsOK, PassOK
<1>3. /\ IsRead(q) /\ SentUpTo(q, counter[s])
      /\ cursor.from = indexes[k].position
      /\ \A a \in DOMAIN q : Reached(q[a])
      /\ Stopped \/ \A y \in Places : Unacked(y) /\ Reached(y) => Has(q, y)
      /\ Len(q) = counter[s] + Len(buffer[s])
      /\ \A b \in DOMAIN buffer[s] : buffer[s][b] = LineAt(q[counter[s] + b])
  BY <1>1, <1>2 DEF PassOf, ReadSoFar, Buffered
<1>4. /\ \A y : Unacked(y)' <=> Unacked(y)
      /\ \A y : LineAt(y)' = LineAt(y)
      /\ \A r : IsRead(r)' <=> IsRead(r)
      /\ \A r, c : SentUpTo(r, c)' <=> SentUpTo(r, c)
  BY <1>1 DEF Unacked, LineAt, Size, IsRead, SentUpTo, Has
<1>5. CASE cursor.total = MaxCount
  <2>1. cursor'.from = cursor.from /\ cursor'.file = k /\ cursor'.read = cursor.read
        /\ cursor'.total = cursor.total /\ buffer' = buffer /\ p = q
    BY <1>0, <1>1, <1>5 DEF Longer
  <2>2. \A y : Reached(y)' <=> Reached(y)
    BY <2>1 DEF Reached
  <2>3. Stopped' <=> Stopped
    BY <1>1, <2>1 DEF Stopped
  <2>4. ReadSoFar(q)'
    BY <1>1, <1>3, <1>4, <2>1, <2>2, <2>3 DEF ReadSoFar
  <2>5. Buffered(s, q)'
    BY <1>1, <1>3, <1>4, <2>1 DEF Buffered
  <2> QED
    BY <1>1, <1>2, <1>3, <1>4, <2>1, <2>4, <2>5 DEF PassOf
<1>6. CASE cursor.total # MaxCount
  <2>1. /\ cursor'.from = cursor.from /\ cursor'.file = k /\ cursor'.read = cursor.read + 1
        /\ buffer' = [buffer EXCEPT ![s] = Append(@, lines[indexes[k].location][m + 1])]
        /\ p = Append(q, x)
    BY <1>0, <1>1, <1>6, <1>x DEF Longer
  <2>2. /\ k \in DOMAIN indexes /\ indexes[k].location \in Files /\ indexes[k].position \in Nat
        /\ Size(k) \in Nat
    <3>1. k \in DOMAIN indexes
      BY <1>0, <1>1, ListTypes DEF IInv, LockOK
    <3> QED
      BY <1>0, <3>1, ListTypes, LineTypes DEF Size
  <2>3. /\ x \in Places /\ x[1] = k /\ x[2] = m + 1 /\ Unacked(x)
        /\ LineAt(x) = lines[indexes[k].location][m + 1]
        /\ LineAt(x) \in Records
    <3>1. x \in Places /\ x[1] = k /\ x[2] = m + 1
      BY <1>0, <1>x, PlaceFacts DEF NextPlace
    <3>2. Unacked(x)
      BY <1>0, <1>1, <1>3, <2>2, <3>1 DEF Unacked
    <3>3. LineAt(x) = lines[indexes[k].location][m + 1]
      BY <3>1 DEF LineAt
    <3>4. m + 1 \in 1..Len(lines[indexes[k].location])
      BY <1>0, <1>1, <2>2 DEF Size
    <3> QED
      BY <1>0, <2>2, <3>1, <3>2, <3>3, <3>4, LineTypes
  <2>4. /\ q \in Seq(Places) /\ Len(q) \in Nat /\ DOMAIN q = 1..Len(q)
        /\ \A a \in DOMAIN q : q[a] \in Places /\ Unacked(q[a])
    BY <1>3, ReadFacts
  <2>5. /\ p \in Seq(Places) /\ Len(p) = Len(q) + 1 /\ DOMAIN p = 1..(Len(q) + 1)
        /\ \A a \in DOMAIN q : p[a] = q[a]
        /\ p[Len(q) + 1] = x
        /\ \A a \in DOMAIN p : a \in DOMAIN q \/ a = Len(q) + 1
        /\ \A y : Has(p, y) <=> Has(q, y) \/ y = x
    BY <2>1, <2>3, <2>4, LongerFacts
  <2>6. \A a \in DOMAIN q : Before(q[a], x)
    <3> SUFFICES ASSUME NEW a \in DOMAIN q PROVE Before(q[a], x)
      OBVIOUS
    <3>1. Reached(q[a]) /\ q[a][1] \in Nat /\ q[a][2] \in Nat
      BY <1>3, <2>4, PlaceFacts
    <3> QED
      BY <1>0, <2>3, <3>1 DEF Reached, Before
  <2>7. \A y \in Places : Unacked(y) /\ Reached(y) => Has(q, y)
    BY <1>0, <1>1, <1>3, <1>6 DEF Stopped
  <2>8. \A y \in Places : Unacked(y) /\ Before(y, x) => Has(q, y)
    <3> SUFFICES ASSUME NEW y \in Places, Unacked(y), Before(y, x) PROVE Reached(y)
      BY <2>7
    <3>1. y[1] \in Nat /\ y[2] \in Nat
      BY PlaceFacts
    <3> QED
      BY <1>0, <2>3, <3>1 DEF Reached, Before
  <2>9. IsRead(p)
    <3>1. \A a \in DOMAIN p : Unacked(p[a])
      BY <2>3, <2>4, <2>5
    <3>2. ASSUME NEW a \in DOMAIN p, NEW b \in DOMAIN p, a < b
          PROVE  Before(p[a], p[b])
      <4>1. a \in DOMAIN q
        BY <2>4, <2>5, <3>2
      <4>2. CASE b \in DOMAIN q
        BY <1>3, <2>5, <3>2, <4>1, <4>2 DEF IsRead
      <4>3. CASE b = Len(q) + 1
        BY <2>5, <2>6, <4>1, <4>3
      <4> QED
        BY <2>5, <4>2, <4>3
    <3>3. ASSUME NEW a \in DOMAIN p, NEW y \in Places, Unacked(y), Before(y, p[a])
          PROVE  Has(p, y)
      <4>1. CASE a \in DOMAIN q
        BY <1>3, <2>5, <3>3, <4>1 DEF IsRead
      <4>2. CASE a = Len(q) + 1
        BY <2>5, <2>8, <3>3, <4>2
      <4> QED
        BY <2>5, <4>1, <4>2
    <3> QED
      BY <2>5, <3>1, <3>2, <3>3 DEF IsRead
  <2>10. SentUpTo(p, counter[s])
    <3>1. counter[s] \in 0..Len(q) /\ \A a \in 1..counter[s] : LineAt(q[a]) \in sent
      BY <1>3 DEF SentUpTo
    <3>2. \A a \in 1..counter[s] : a \in DOMAIN q
      BY <2>4, <3>1
    <3>3. counter[s] \in 0..Len(p)
      BY <2>4, <2>5, <3>1
    <3> QED
      BY <2>5, <3>1, <3>2, <3>3 DEF SentUpTo
  <2>11. ReadSoFar(p)'
    <3>1. \A y \in Places : Reached(y)' => Reached(y) \/ y = x
      <4> SUFFICES ASSUME NEW y \in Places, Reached(y)', ~Reached(y) PROVE y = x
        OBVIOUS
      <4>1. y[1] \in Nat /\ y[2] \in Nat
        BY PlaceFacts
      <4>2. y[1] = k /\ y[2] = m + 1
        BY <1>0, <2>1, <4>1 DEF Reached
      <4> QED
        BY <2>3, <4>2, PlaceFacts
    <3>2. \A y \in Places : Reached(y) => Reached(y)'
      <4> SUFFICES ASSUME NEW y \in Places, Reached(y) PROVE Reached(y)'
        OBVIOUS
      <4>1. y[1] \in Nat /\ y[2] \in Nat
        BY PlaceFacts
      <4> QED
        BY <1>0, <2>1, <4>1 DEF Reached
    <3>3. Reached(x)'
      BY <1>0, <2>1, <2>3 DEF Reached
    <3>4. \A a \in DOMAIN p : Reached(p[a])'
      BY <1>3, <2>4, <2>5, <3>2, <3>3
    <3>5. \A y \in Places : Unacked(y)' /\ Reached(y)' => Has(p, y)
      BY <1>4, <2>5, <2>7, <3>1
    <3> QED
      BY <1>1, <1>3, <2>1, <3>4, <3>5 DEF ReadSoFar, Has
  <2>12. Buffered(s, p)'
    <3>1. buffer[s] \in Seq(Records) /\ buffer'[s] = Append(buffer[s], LineAt(x))
      BY <1>0, <2>1, <2>3
    <3>2. /\ Len(buffer[s]) \in Nat /\ DOMAIN buffer[s] = 1..Len(buffer[s])
          /\ Len(buffer'[s]) = Len(buffer[s]) + 1
          /\ \A b \in 1..Len(buffer[s]) : buffer'[s][b] = buffer[s][b]
          /\ buffer'[s][Len(buffer[s]) + 1] = LineAt(x)
          /\ DOMAIN buffer'[s] = 1..(Len(buffer[s]) + 1)
      BY <2>3, <3>1, AppendProperties, LenProperties
    <3>0. /\ counter[s] \in Nat /\ Len(buffer[s]) \in Nat
          /\ Len(q) = counter[s] + Len(buffer[s]) /\ DOMAIN q = 1..Len(q)
          /\ Len(p) = Len(q) + 1 /\ Len(buffer'[s]) = Len(buffer[s]) + 1
      BY <1>0, <1>3, <2>4, <2>5, <3>2
    <3>3. ASSUME NEW b \in 1..(Len(buffer[s]) + 1)
          PROVE  buffer'[s][b] = LineAt(p[counter[s] + b])
      <4>1. CASE b = Len(buffer[s]) + 1
        <5>1. counter[s] + b = Len(q) + 1
          BY <3>0, <4>1
        <5> QED
          BY <2>5, <3>2, <4>1, <5>1
      <4>2. CASE b # Len(buffer[s]) + 1
        <5>1. b \in 1..Len(buffer[s])
          BY <3>2, <4>2
        <5>2. counter[s] + b \in DOMAIN q
          BY <3>0, <5>1
        <5>3. buffer[s][b] = LineAt(q[counter[s] + b])
          <6>1. b \in DOMAIN buffer[s]
            BY <3>2, <5>1
          <6> QED
            BY <1>3, <6>1
        <5>4. p[counter[s] + b] = q[counter[s] + b]
          BY <2>5, <5>2
        <5> QED
          BY <3>2, <5>1, <5>3, <5>4
      <4> QED
        BY <4>1, <4>2
    <3>4. Len(p) = counter[s] + Len(buffer'[s])
      BY <3>0
    <3> QED
      BY <1>1, <3>2, <3>3, <3>4 DEF Buffered, LineAt
  <2> QED
    BY <1>1, <1>2, <1>4, <2>1, <2>9, <2>10, <2>11, <2>12 DEF PassOf
<1> QED
  BY <1>2, <1>5, <1>6

(* What EndFile does to each index: it moves no position.                  *)
LEMMA EndFileFacts ==
  ASSUME IInv, NEW s \in Sessions, EndFile(s)
  PROVE  /\ SamePlaces /\ cursor.file \in DOMAIN indexes
         /\ \A i \in DOMAIN indexes :
              indexes'[i].pending = indexes[i].pending
                                      + (IF i = cursor.file THEN cursor.read ELSE 0)
<1>0. /\ indexes \in Seq(SensorIndex) /\ cursor.file \in DOMAIN indexes /\ cursor.read \in Nat
      /\ cursor.file \in Nat /\ cursor.file # 0
  BY ListTypes DEF EndFile, IInv, LockOK, TypeOK, LocalTypeOK
<1>1. \A i \in DOMAIN indexes : indexes[i] \in SensorIndex /\ indexes[i].pending \in Nat
  BY <1>0, ListTypes
<1>2. /\ indexes' = [indexes EXCEPT ![cursor.file] = Loaded(@)] /\ lines' = lines
  BY DEF EndFile, diskVars
<1>3. Loaded(indexes[cursor.file]) =
        [indexes[cursor.file] EXCEPT !.pending = @ + cursor.read, !.isEnd = @ \/ MarksEnd]
  BY DEF Loaded
<1>4. \A i \in DOMAIN indexes :
        indexes'[i] = IF i = cursor.file THEN Loaded(indexes[i]) ELSE indexes[i]
  BY <1>0, <1>2
<1>5. DOMAIN indexes' = DOMAIN indexes
  BY <1>2
<1>6. /\ Loaded(indexes[cursor.file]).location = indexes[cursor.file].location
      /\ Loaded(indexes[cursor.file]).position = indexes[cursor.file].position
      /\ Loaded(indexes[cursor.file]).pending = indexes[cursor.file].pending + cursor.read
  BY <1>0, <1>1, <1>3 DEF SensorIndex
<1>7. \A i \in DOMAIN indexes : indexes[i].pending + 0 = indexes[i].pending
  BY <1>1
<1> QED
  BY <1>0, <1>2, <1>4, <1>5, <1>6, <1>7 DEF SamePlaces

LEMMA PassEndFile ==
  ASSUME IInv, QueueInv, PositionInv, NEW s \in Sessions, NEW q, PassOf(s, q),
         EndFile(s), UNCHANGED transmitVars
  PROVE  PassOf(s, q)'
<1> DEFINE k == cursor.file
<1>0. /\ indexes \in Seq(SensorIndex) /\ cursor.from \in Nat /\ cursor.read \in Nat
      /\ k \in Nat /\ k # 0 /\ k <= Len(indexes)
      /\ UNCHANGED <<pc, counter, sent, buffer, lines>> /\ lockQ[1].by = s
      /\ cursor.terminated \/ Size(k) - cursor.from - cursor.read <= 0 \/ stream[s] = "cancelled"
  BY DEF EndFile, IInv, LockOK, TypeOK, LocalTypeOK, transmitVars, sessionVars, historyVars,
     diskVars, HoldsLock, UnreadLines, Size
<1>1. SamePlaces /\ k \in DOMAIN indexes
  BY EndFileFacts
<1>2. IsRead(q) /\ IsRead(q)' /\ \A a \in DOMAIN q : LineAt(q[a])' = LineAt(q[a])
  BY <1>1, SameRead, ReadFacts DEF PassOf
<1>3. SentUpTo(q, counter[s])'
  <2>1. \A c : SentUpTo(q, c) => SentUpTo(q, c)'
    BY <1>0, <1>2, SameSent
  <2>2. SentUpTo(q, counter[s])
    BY DEF PassOf
  <2> QED
    BY <1>0, <2>1, <2>2 DEF SentUpTo
<1>4. ASSUME pc[s] # "nack"
      PROVE  Buffered(s, q)'
  <2>1. /\ Len(q) = counter[s] + Len(buffer[s])
        /\ \A b \in DOMAIN buffer[s] : buffer[s][b] = LineAt(q[counter[s] + b])
    BY <1>4 DEF PassOf, Buffered
  <2>2. ASSUME NEW b \in DOMAIN buffer[s]
        PROVE  LineAt(q[counter[s] + b])' = LineAt(q[counter[s] + b])
    <3>1. /\ buffer[s] \in Seq(Records) /\ counter[s] \in Nat
          /\ Len(q) \in Nat /\ DOMAIN q = 1..Len(q)
      BY <1>2, ReadFacts DEF IInv, TypeOK, LocalTypeOK
    <3>2. Len(buffer[s]) \in Nat /\ b \in 1..Len(buffer[s])
      BY <3>1, LenProperties
    <3>3. counter[s] + b \in DOMAIN q
      BY <2>1, <3>1, <3>2
    <3> QED
      BY <1>0, <1>2, <3>3 DEF LineAt
  <2> QED
    BY <1>0, <2>1, <2>2 DEF Buffered
<1>5. ASSUME pc[s] # "nack"
      PROVE  ReadSoFar(q)'
  <2>1. CASE IsLast(k)
    BY <2>1 DEF EndFile, NoLoad, ReadSoFar
  <2>2. CASE ~IsLast(k)
    <3>1. /\ UNCHANGED <<lockQ, stream>>
          /\ cursor' = [file |-> k + 1, from |-> indexes[k + 1].position, read |-> 0,
                        total |-> cursor.total, terminated |-> FALSE]
      BY <2>2 DEF EndFile, OpenFile
    <3>2. k + 1 \in DOMAIN indexes /\ indexes[k + 1].position \in Nat
      <4>1. Len(indexes) \in Nat /\ DOMAIN indexes = 1..Len(indexes)
        BY <1>0, ListTypes
      <4>2. k + 1 \in DOMAIN indexes
        BY <1>0, <2>2, <4>1 DEF IsLast
      <4> QED
        BY <1>0, <4>2, ListTypes
    <3>3. /\ cursor.from = indexes[k].position
          /\ \A a \in DOMAIN q : Reached(q[a])
          /\ Stopped \/ \A x \in Places : Unacked(x) /\ Reached(x) => Has(q, x)
      BY <1>0, <1>5 DEF PassOf, ReadSoFar
    <3>4. \A x \in Places : Reached(x) => Reached(x)'
      BY <1>0, <3>1, <3>2, PlaceFacts DEF Reached
    <3>5. ASSUME ~Stopped', NEW x \in Places, Unacked(x), Reached(x)'
          PROVE  Reached(x) /\ ~Stopped
      <4>1. cursor.total # MaxCount /\ stream[s] = "open" /\ ~Stopped
        BY <1>0, <3>1, <3>5 DEF Stopped
      <4>2. ~cursor.terminated
        BY <1>0, <4>1 DEF PositionInv, ReaderOK
      <4>3. Size(k) - cursor.from - cursor.read <= 0
        BY <1>0, <4>1, <4>2
      <4>4. x[1] \in Nat /\ x[2] \in Nat /\ x[2] <= Size(x[1]) /\ indexes[x[1]].position < x[2]
        BY <3>5, PlaceFacts DEF Unacked
      <4>5. x[1] < k + 1 \/ (x[1] = k + 1 /\ x[2] <= indexes[k + 1].position)
        BY <1>0, <3>1, <3>2, <3>5, <4>4 DEF Reached
      <4>6. x[1] < k + 1
        BY <3>2, <4>4, <4>5
      <4>7. Size(k) \in Nat
        <5>1. lines \in [Files -> Seq(Records)] /\ indexes[k].location \in Files
          BY <1>0, <1>1, ListTypes DEF IInv, TypeOK, LocalTypeOK
        <5> QED
          BY <5>1, LineTypes DEF Size
      <4>8. x[1] < k \/ (x[1] = k /\ x[2] <= cursor.from + cursor.read)
        BY <1>0, <4>3, <4>4, <4>6, <4>7
      <4> QED
        BY <4>1, <4>8 DEF Reached
    <3>6. cursor'.from = indexes'[cursor'.file].position
      BY <1>1, <3>1, <3>2 DEF SamePlaces
    <3>7. \A a \in DOMAIN q : Reached(q[a])'
      BY <1>2, <3>3, <3>4, ReadFacts
    <3>8. \A x : Unacked(x)' <=> Unacked(x)
      BY <1>1, <1>2, SameRead
    <3>9. Stopped' \/ \A x \in Places : Unacked(x)' /\ Reached(x)' => Has(q, x)
      BY <3>3, <3>5, <3>8
    <3> QED
      BY <3>6, <3>7, <3>9 DEF ReadSoFar, Has
  <2> QED
    BY <2>1, <2>2
<1> QED
  BY <1>0, <1>2, <1>3, <1>4, <1>5 DEF PassOf

(* What can happen during a pass.                                          *)
StoreStep ==
  TransmitOffline \/ \E r \in Records : LiveFailed(r)

OtherStep ==
  \/ TransmitOnline \/ DisableNetwork \/ EnableWithoutReceiver \/ UNCHANGED vars
  \/ \E r \in Records : LiveSent(r)

ReadStep(s) == ReadLine(s) /\ UNCHANGED transmitVars

PassStep(s) ==
  \/ StoreStep \/ OtherStep
  \/ StartSend(s) \/ SendReturnsTrue(s) \/ SendReturnsFalse(s)
  \/ ReadStep(s)
  \/ EndFile(s) /\ UNCHANGED transmitVars

FirstStep(s) == LoadStart(s) /\ UNCHANGED transmitVars /\ Len(lockQ) = 1

LEMMA PassSteps ==
  ASSUME IInv, QueueInv, ~Overlap, [Next]_vars, NEW s \in Sessions, InPass(s)', Begun'
  PROVE  InPass(s) /\ (FirstStep(s) \/ (Begun /\ PassStep(s)))
<1> USE DEF localVars, diskVars, loadVars, sectionVars, sessionVars, historyVars
<1>0. TypeOK /\ pc \in [Sessions -> PC]
  BY DEF IInv, TypeOK
<1>1. CASE StoreStep \/ OtherStep
  <2>1. UNCHANGED <<pc, lockQ, cursor>>
    BY <1>1 DEF StoreStep, OtherStep, TransmitOffline, LiveFailed, StoreToEnd, TransmitOnline,
       DisableNetwork, EnableWithoutReceiver, LiveSent, vars
  <2> QED
    BY <1>1, <2>1 DEF InPass, Begun, PassStep
<1>2. CASE InitStep \/ Kill
  <2>1. CASE InitStep
    <3>1. UNCHANGED pc /\ ~Active(s)
      BY <2>1 DEF InitStep, LaunchAfterTornIndex, LaunchWithIndex, RegisterDataFile, QueueInv,
         Quiet, Registering, transmitVars
    <3> QED
      BY <3>1 DEF InPass, Active
  <2>2. CASE Kill
    BY <2>2 DEF Kill, InPass
  <2> QED
    BY <1>2, <2>1, <2>2
<1>3. CASE IndexStep \/ \E t \in Sessions : AckStep(t)
  <2>1. UNCHANGED <<pc, cursor>> /\ lockQ' \in {lockQ, Tail(lockQ)}
    BY <1>3 DEF IndexStep, TruncateIndex, WriteIndex, RemoveFirstIndex, DeleteDataFile, FinalStore,
       ReleaseLock, AckStep, RunAck, RunNAck, transmitVars
  <2>2. Registering \/ step = "run" \/ UnderLock
        \/ (lockQ # <<>> /\ lockQ[1].kind # "load")
    BY <1>3 DEF IndexStep, TruncateIndex, WriteIndex, RemoveFirstIndex, DeleteDataFile, FinalStore,
       ReleaseLock, AckStep, RunAck, RunNAck, HoldsLock, UnderLock, Registering, IInv, Continuation
  <2>3. InPass(s) /\ Active(s)
    BY <2>1 DEF InPass, Active
  <2>4. lockQ # <<>> /\ lockQ[1].kind # "load"
    BY <2>2, <2>3 DEF QueueInv, HeadOK, Quiet
  <2>5. cursor.file = 0
    BY <2>4 DEF IInv, LockOK
  <2>6. Len(lockQ) # 1 /\ Len(lockQ) \in Nat
    BY <1>0, <2>3, <2>4, QueueTypes DEF QueueInv, SessionsOK, PassOK, LoadIsLast
  <2>7. lockQ' # <<>>
    BY <1>0, <2>1, <2>4, <2>6, DequeueFacts
  <2> QED
    BY <2>1, <2>5, <2>7 DEF Begun
<1>4. ASSUME NEW t \in Sessions, EnableNetwork(t) \/ StartPass(t)
      PROVE  FALSE
  <2>1. CASE EnableNetwork(t)
    BY <1>0, <2>1 DEF EnableNetwork, InPass
  <2>2. CASE StartPass(t)
    <3>1. s = t
      BY <1>0, <2>2 DEF StartPass, InPass, QueueInv, Solo, Active
    <3>2. /\ Len(lockQ') = Len(lockQ) + 1 /\ lockQ' # <<>> /\ cursor' = cursor
      BY <1>0, <2>2, EnqueueFacts DEF StartPass, LoadFromBegin
    <3>3. cursor.file # 0 => Len(lockQ) >= 1
      BY <1>0, QueueTypes DEF IInv, LockOK
    <3> QED
      BY <1>0, <3>2, <3>3, QueueTypes DEF Begun
  <2> QED
    BY <1>4, <2>1, <2>2
<1>5. ASSUME NEW t \in Sessions, LoadStep(t)
      PROVE  InPass(s) /\ (FirstStep(s) \/ (Begun /\ PassStep(s)))
  <2>1. /\ UNCHANGED pc /\ InPass(s) /\ lockQ # <<>> /\ lockQ[1].by = t /\ UNCHANGED transmitVars
    BY <1>5 DEF LoadStep, transmitVars, InPass, LoadStart, ReadLine, EndFile, HoldsLock
  <2>2. ASSUME Len(lockQ) = 1 PROVE s = t
    BY <2>1, <2>2 DEF QueueInv, SessionsOK, PassOK, LoadIsLast
  <2>3. CASE LoadStart(t)
    <3>1. Len(lockQ) = 1
      BY <2>1, <2>3 DEF LoadStart, Begun
    <3> QED
      BY <2>1, <2>2, <2>3, <3>1 DEF FirstStep
  <2>4. CASE ReadLine(t)
    <3>1. Len(lockQ) = 1 /\ Begun
      BY <2>1, <2>4 DEF ReadLine, Begun
    <3> QED
      BY <2>1, <2>2, <2>4, <3>1 DEF PassStep, ReadStep
  <2>5. CASE EndFile(t)
    <3>1. Len(lockQ) = 1
      <4>1. CASE lockQ' = lockQ
        BY <2>1, <4>1 DEF Begun
      <4>2. CASE lockQ' = Tail(lockQ) /\ cursor' = NoLoad
        <5>1. lockQ' = <<>>
          BY <4>2 DEF Begun, NoLoad
        <5> QED
          BY <1>0, <2>1, <4>2, <5>1, DequeueFacts
      <4> QED
        BY <2>5, <4>1, <4>2 DEF EndFile
    <3>2. Begun
      BY <2>5, <3>1 DEF EndFile, Begun
    <3> QED
      BY <2>1, <2>2, <2>5, <3>1, <3>2 DEF PassStep
  <2> QED
    BY <1>5, <2>3, <2>4, <2>5 DEF LoadStep
<1>6. ASSUME NEW t \in Sessions, StartSend(t) \/ SendEnds(t) \/ FailPass(t) \/ EndPass(t)
      PROVE  InPass(s) /\ Begun /\ PassStep(s)
  <2>1. Active(t)
    BY <1>6 DEF Active, StartSend, SendEnds, SendReturnsTrue, SendReturnsFalse, SendThrows,
       FailPass, EndPass
  <2>2. pc'[s] = pc[s] \/ s = t
    BY <1>0, <1>6 DEF StartSend, SendEnds, SendReturnsTrue, SendReturnsFalse, SendThrows,
       FailPass, EndPass
  <2>3. s = t
    BY <2>1, <2>2 DEF InPass, QueueInv, Solo, Active
  <2>4. ~(SendThrows(s) \/ FailPass(s) \/ EndPass(s))
    BY <1>0 DEF SendThrows, FailPass, EndPass, InPass
  <2>5. InPass(s) /\ UNCHANGED <<lockQ, cursor>>
    BY <1>6, <2>3, <2>4 DEF StartSend, SendEnds, SendReturnsTrue, SendReturnsFalse, InPass
  <2> QED
    BY <1>6, <2>3, <2>4, <2>5 DEF PassStep, SendEnds, Begun
<1> QED
  BY <1>1, <1>2, <1>3, <1>4, <1>5, <1>6 DEF Next, SessionStep, StoreStep, OtherStep

(* The list of places read is the same after each of these steps, but for  *)
(* the start of a load and the reading of a line.                          *)
LEMMA PassKept ==
  ASSUME IInv, QueueInv, PositionInv, NEW s \in Sessions, InPass(s), InPass(s)', Begun,
         PassStep(s), NEW q, PassOf(s, q), ~ReadStep(s)
  PROVE  PassOf(s, q)'
<1> USE DEF localVars, diskVars, loadVars, sectionVars, sessionVars, historyVars
<1>0. TypeOK
  BY DEF IInv
<1>1. CASE StoreStep
  <2>1. PICK r : r \in Records /\ step = "idle" /\ StoreToEnd(r) /\ UNCHANGED <<pc, counter, sent>>
    BY <1>0, <1>1, RecordsAssumption DEF StoreStep, TransmitOffline, LiveFailed, Records, TypeOK
  <2> QED
    BY <2>1, PassStore
<1>2. CASE OtherStep \/ StartSend(s)
  <2>1. /\ UNCHANGED <<lines, indexes, cursor, lockQ, stream, counter, buffer>>
        /\ pc[s] = "nack" => pc'[s] = "nack"
        /\ sent \subseteq sent'
    BY <1>2 DEF OtherStep, TransmitOnline, DisableNetwork, EnableWithoutReceiver,
       LiveSent, Delivered, StartSend, vars
  <2> QED
    BY <2>1, PassFrame
<1>3. CASE SendReturnsTrue(s)
  BY <1>3, PassSend
<1>4. CASE SendReturnsFalse(s)
  BY <1>4, PassFails
<1>5. CASE EndFile(s) /\ UNCHANGED transmitVars
  BY <1>5, PassEndFile
<1> QED
  BY <1>1, <1>2, <1>3, <1>4, <1>5 DEF PassStep

(* Every step keeps the invariant of the pass.                             *)
LEMMA PassNext ==
  ASSUME IInv, QueueInv, PositionInv, PassInv, ~Overlap, [Next]_vars
  PROVE  PassInv'
<1> SUFFICES ASSUME NEW s \in Sessions, InPass(s)', Begun'
             PROVE  \E q : PassOf(s, q)'
  BY DEF PassInv
<1>1. InPass(s) /\ (FirstStep(s) \/ (Begun /\ PassStep(s)))
  BY PassSteps
<1>2. CASE FirstStep(s)
  BY <1>1, <1>2, PassLoadStart DEF FirstStep
<1>3. CASE Begun /\ PassStep(s)
  <2>1. PICK q : PassOf(s, q)
    BY <1>1, <1>3 DEF PassInv
  <2>2. CASE ReadStep(s)
    BY <1>1, <2>1, <2>2, PassReadLine DEF ReadStep
  <2>3. CASE ~ReadStep(s)
    BY <1>1, <1>3, <2>1, <2>3, PassKept
  <2> QED
    BY <2>2, <2>3
<1> QED
  BY <1>1, <1>2, <1>3

(* A pass that ends hands its count to the acknowledgement that follows in *)
(* the same synchronous section.                                           *)
LEMMA RunStarts ==
  ASSUME IInv, QueueInv, [Next]_vars, step' = "run", lockQ'[1].kind = "ack"
  PROVE  \/ UNCHANGED vars
         \/ \E s \in Sessions : EndPass(s)
<1> USE DEF localVars, diskVars, loadVars, sectionVars, sessionVars, historyVars, transmitVars
<1>0. TypeOK /\ Continuation
  BY DEF IInv
<1>1. CASE InitStep \/ IndexStep \/ Kill
  BY <1>0, <1>1 DEF InitStep, IndexStep, Kill, LaunchAfterTornIndex, LaunchWithIndex,
     RegisterDataFile, TruncateIndex, WriteIndex, RemoveFirstIndex, DeleteDataFile, FinalStore,
     ReleaseLock, StoreIndexContext, LocalKill, Continuation
<1>2. CASE TransmitOffline \/ TransmitOnline \/ DisableNetwork \/ EnableWithoutReceiver
           \/ \E r \in Records : LiveSent(r) \/ LiveFailed(r)
  BY <1>2 DEF TransmitOffline, TransmitOnline, DisableNetwork, EnableWithoutReceiver,
     LiveSent, LiveFailed, StoreToEnd
<1>3. ASSUME NEW s \in Sessions, EnableNetwork(s) \/ LoadStep(s) \/ AckStep(s) \/ StartPass(s)
                                 \/ StartSend(s) \/ SendEnds(s)
      PROVE  FALSE
  BY <1>3 DEF EnableNetwork, LoadStep, LoadStart, ReadLine, EndFile, AckStep, RunAck, RunNAck,
     StartPass, LoadFromBegin, StartSend, SendEnds, SendReturnsTrue, SendReturnsFalse, SendThrows
<1>4. ASSUME NEW s \in Sessions, FailPass(s)
      PROVE  FALSE
  <2>1. lockQ = <<>> /\ Enqueue("nack", s, counter[s]) /\ counter[s] \in Nat
    BY <1>0, <1>4 DEF FailPass, CallNAck, RunOrWait, TypeOK
  <2>2. lockQ'[1].kind = "nack"
    <3>1. Len(lockQ) = 0
      BY <2>1
    <3>2. lockQ'[Len(lockQ) + 1] = [kind |-> "nack", by |-> s, count |-> counter[s]]
      BY <1>0, <2>1, EnqueueFacts
    <3> QED
      BY <3>1, <3>2
  <2> QED
    BY <2>2
<1> QED
  BY <1>1, <1>2, <1>3, <1>4 DEF Next, SessionStep

LEMMA PassAcks ==
  ASSUME IInv, QueueInv, NEW s \in Sessions, EndPass(s), NEW q, PassOf(s, q)
  PROVE  AckOf(q)' /\ lockQ'[1].count = Len(q)
<1>0. /\ TypeOK /\ counter[s] \in Nat /\ buffer[s] = <<>> /\ lockQ = <<>> /\ pc[s] # "nack"
      /\ Enqueue("ack", s, counter[s]) /\ UNCHANGED <<indexes, lines, sent>>
  BY PassEndsAlone DEF IInv, TypeOK, EndPass, CallAck, diskVars, historyVars
<1>1. lockQ'[1].count = counter[s]
  <2>1. Len(lockQ) = 0
    BY <1>0
  <2>2. lockQ'[Len(lockQ) + 1] = [kind |-> "ack", by |-> s, count |-> counter[s]]
    BY <1>0, EnqueueFacts
  <2> QED
    BY <2>1, <2>2
<1>2. Len(q) = counter[s]
  <2>1. Len(q) = counter[s] + Len(buffer[s])
    BY <1>0 DEF PassOf, Buffered
  <2> QED
    BY <1>0, <2>1
<1>3. IsRead(q)'
  BY <1>0 DEF PassOf, IsRead, Unacked, Size, Has
<1>4. SentUpTo(q, lockQ[1].count)'
  BY <1>0, <1>1 DEF PassOf, SentUpTo, LineAt
<1> QED
  BY <1>1, <1>2, <1>3, <1>4 DEF AckOf

LEMMA AckNext ==
  ASSUME IInv, QueueInv, PassInv, AckInv, [Next]_vars
  PROVE  AckInv'
<1> SUFFICES ASSUME step' = "run", lockQ'[1].kind = "ack"
             PROVE  \E q : AckOf(q)'
  BY DEF AckInv
<1>1. CASE UNCHANGED vars
  BY <1>1 DEF vars, localVars, diskVars, loadVars, sectionVars, sessionVars, historyVars,
     AckInv, AckOf, IsRead, SentUpTo, Unacked, Size, LineAt, Has
<1>2. CASE \E s \in Sessions : EndPass(s)
  <2>1. PICK s \in Sessions : EndPass(s)
    BY <1>2
  <2>2. InPass(s) /\ Begun
    BY <2>1, PassEndsAlone DEF EndPass, InPass, Begun
  <2>3. PICK q : PassOf(s, q)
    BY <2>2 DEF PassInv
  <2> QED
    BY <2>1, <2>3, PassAcks
<1> QED
  BY <1>1, <1>2, RunStarts

LEMMA PositionNext ==
  ASSUME IInv, QueueInv, PositionInv, PassInv, AckInv, ~Overlap, [Next]_vars
  PROVE  PositionInv'
<1> USE DEF localVars, diskVars, loadVars, sectionVars, sessionVars, historyVars
<1>0. TypeOK
  BY DEF IInv
<1>1. CASE StoreStep
  <2>1. PICK r : r \in Records /\ step = "idle" /\ StoreToEnd(r) /\ UNCHANGED sent
    BY <1>0, <1>1, RecordsAssumption DEF StoreStep, TransmitOffline, LiveFailed, Records, TypeOK
  <2> QED
    BY <2>1, PositionStore
<1>2. CASE OtherStep
  <2>1. /\ UNCHANGED <<launch, lines, indexJson, indexes, cursor, lockQ, stream, step, after>>
        /\ sent \subseteq sent'
    BY <1>2 DEF OtherStep, TransmitOnline, DisableNetwork, EnableWithoutReceiver,
       LiveSent, Delivered, vars
  <2> QED
    BY <2>1, PositionFrame DEF Registering
<1>3. CASE InitStep \/ Kill \/ IndexStep
  BY <1>3, PositionInit, PositionIndex
<1>4. ASSUME NEW s \in Sessions, EnableNetwork(s) \/ StartSend(s) \/ SendEnds(s)
      PROVE  PositionInv'
  <2>1. /\ UNCHANGED <<launch, lines, indexJson, indexes, cursor, lockQ, step, after>>
        /\ sent \subseteq sent'
    BY <1>4 DEF EnableNetwork, StartSend, SendEnds, SendReturnsTrue, SendReturnsFalse,
       SendThrows, Delivered
  <2>2. \A t \in Sessions : stream[t] # "open" => stream'[t] # "open"
    BY <1>0, <1>4 DEF EnableNetwork, StartSend, SendEnds, SendReturnsTrue, SendReturnsFalse,
       SendThrows, CancelStream, TypeOK, LocalTypeOK
  <2>3. cursor.file # 0 => lockQ[1].by \in Sessions
    BY <1>0, QueueTypes DEF IInv, LockOK
  <2> QED
    BY <2>1, <2>2, <2>3, PositionFrame DEF Registering
<1>5. ASSUME NEW s \in Sessions, StartPass(s)
      PROVE  PositionInv'
  <2>1. /\ UNCHANGED <<launch, lines, indexJson, indexes, cursor, step, after, sent>>
        /\ Enqueue("load", s, 0) /\ pc[s] = "load"
        /\ \A t \in Sessions : t # s => stream'[t] = stream[t]
    BY <1>0, <1>5 DEF StartPass, LoadFromBegin, TypeOK, LocalTypeOK
  <2>2. ASSUME cursor.file # 0
        PROVE  lockQ'[1] = lockQ[1] /\ lockQ[1].by \in Sessions /\ lockQ[1].by # s
    <3>1. 1 \in DOMAIN lockQ /\ lockQ[1].kind = "load"
      BY <1>0, <2>2, QueueTypes DEF IInv, LockOK
    <3>2. Active(s) /\ ~InPass(s)
      BY <2>1 DEF Active, InPass
    <3>3. lockQ[1].by # s
      BY <3>1, <3>2 DEF QueueInv, JobsOK, JobOK
    <3> QED
      BY <1>0, <2>1, <3>1, <3>3, EnqueueFacts, QueueTypes
  <2> QED
    BY <2>1, <2>2, PositionFrame DEF Registering
<1>6. ASSUME NEW s \in Sessions, LoadStep(s)
      PROVE  PositionInv'
  BY <1>6, PositionLoad, PositionEndFile DEF LoadStep
<1>7. ASSUME NEW s \in Sessions, EndPass(s)
      PROVE  PositionInv'
  <2>1. /\ UNCHANGED <<launch, lines, indexJson, indexes, cursor, stream, sent>>
        /\ step = "idle" /\ step' \in {"run", "idle"}
    BY <1>7 DEF EndPass, CallAck, RunOrWait
  <2>2. cursor.file = 0
    BY <1>7, PassEndsAlone DEF IInv, LockOK
  <2> QED
    BY <2>1, <2>2, PositionFrame DEF Registering
<1>8. ASSUME NEW s \in Sessions, FailPass(s)
      PROVE  PositionInv'
  <2>1. /\ UNCHANGED <<launch, lines, indexJson, cursor, stream, sent>>
        /\ step = "idle" /\ step' \in {"run", "idle"} /\ AckFromBegin(counter[s])
        /\ Enqueue("nack", s, counter[s]) /\ pc[s] = "nack" /\ counter[s] \in Nat
    BY <1>0, <1>8 DEF FailPass, CallNAck, RunOrWait, TypeOK
  <2>2. cursor.file # 0 => lockQ'[1] = lockQ[1]
    <3>1. cursor.file # 0 => 1 \in DOMAIN lockQ
      BY <1>0, QueueTypes DEF IInv, LockOK
    <3> QED
      BY <1>0, <2>1, <3>1, EnqueueFacts
  <2>3. InPass(s) /\ Begun
    BY <2>1 DEF InPass, QueueInv, SessionsOK, PassOK
  <2>4. PICK q : PassOf(s, q)
    BY <2>3 DEF PassInv
  <2>5. ~Registering' /\ Initialised
    BY <2>1 DEF Registering, Initialised
  <2> QED
    BY <2>1, <2>2, <2>4, <2>5, PositionAck DEF PassOf
<1>9. ASSUME NEW s \in Sessions, AckStep(s)
      PROVE  PositionInv'
  <2>1. CASE RunNAck(s)
    BY <1>9, <2>1, PositionNAck DEF AckStep, RunAck, HoldsLock
  <2>2. CASE RunAck(s)
    <3>1. /\ UNCHANGED <<launch, lines, indexJson, cursor, stream, sent, lockQ>>
          /\ step \in {"idle", "run"} /\ step' = "sweep" /\ AckFromBegin(lockQ[1].count)
          /\ lockQ[1].kind = "ack" /\ 1 \in DOMAIN lockQ
      BY <1>0, <1>9, <2>2, QueueTypes DEF AckStep, RunAck, HoldsLock, transmitVars
    <3>2. step = "run"
      BY <3>1 DEF QueueInv, JobsOK, JobOK
    <3>3. PICK q : AckOf(q)
      BY <3>1, <3>2 DEF AckInv
    <3>4. ~Registering' /\ Initialised
      BY <3>1 DEF Registering, Initialised
    <3>5. lockQ[1].count \in Nat
      BY <1>0, <3>1, QueueTypes DEF Job
    <3> QED
      BY <3>1, <3>3, <3>4, <3>5, PositionAck DEF AckOf
  <2> QED
    BY <1>9, <2>1, <2>2 DEF AckStep
<1> QED
  BY <1>1, <1>2, <1>3, <1>4, <1>5, <1>6, <1>7, <1>8, <1>9
  DEF Next, SessionStep, StoreStep, OtherStep

-----------------------------------------------------------------------------
(* What the indexes acknowledge was sent.                                  *)

DeliveryInv == IInv /\ QueueInv /\ PositionInv /\ PassInv /\ AckInv

LEMMA InitDelivery == Init => DeliveryInv
<1> SUFFICES ASSUME Init PROVE DeliveryInv
  OBVIOUS
<1>1. IInv /\ QueueInv
  BY InitIInv, QueueInit
<1>2. PositionInv
  BY ListEmpty DEF Init, LocalInit, PositionInv, ListsOK, Fresh, ReaderOK, Registering, NoLoad
<1>3. PassInv /\ AckInv
  BY DEF Init, LocalInit, PassInv, AckInv, InPass
<1> QED
  BY <1>1, <1>2, <1>3 DEF DeliveryInv

LEMMA NextDelivery == DeliveryInv /\ ~Overlap /\ [Next]_vars => DeliveryInv'
  BY NextIInv, QueueNext, PositionNext, PassNext, AckNext DEF DeliveryInv

(* The records that a pass has handed to the sends are the oldest lines of *)
(* the store, and what is acknowledged is among those that were sent.      *)
THEOREM DeliveryInvariance == ~Overlap /\ Spec => []DeliveryInv
<1> SUFFICES ASSUME ~Overlap
             PROVE  Spec => []DeliveryInv
  OBVIOUS
<1>1. DeliveryInv /\ [Next]_vars => DeliveryInv'
  BY NextDelivery
<1> QED
  BY InitDelivery, <1>1, PTL DEF Spec

LEMMA DeliveredAreSent == DeliveryInv => AckedWereSent
<1> SUFFICES ASSUME DeliveryInv,
                    NEW list \in {indexes, indexJson}, NEW i \in DOMAIN list,
                    NEW n \in 1..list[i].position, n <= Len(lines[list[i].location])
             PROVE  lines[list[i].location][n] \in sent
  BY DEF AckedWereSent, RangeOf
<1> QED
  BY DEF DeliveryInv, PositionInv, ListsOK, ListOK, SentOK

(* transmitLocalSensorRecords acknowledges a line only after a send of it  *)
(* returned true, although it counts lines and names none, although passes *)
(* fail, are cut short by a kill or leave lines pending, and although the  *)
(* sensors append while it reads.                                          *)
THEOREM OnlySentAcknowledged == ~Overlap /\ Spec => []AckedWereSent
  BY DeliveryInvariance, DeliveredAreSent, PTL

-----------------------------------------------------------------------------
(* Sends that succeed: the store is an outbox.                             *)

(* The hypothesis: every send succeeds, and the network is not enabled     *)
(* again while a session drains.                                           *)
Clean == SendOutcomes = {"true"} /\ ~Overlap

(* No session fails, no receiver cancels, nothing is handed back.          *)
NoFailure ==
  /\ \A s \in Sessions : pc[s] # "nack" /\ stream[s] # "cancelled"
  /\ \A j \in DOMAIN lockQ : lockQ[j].kind # "nack"

(* A file marked ended is not the one appended to, and all its lines are   *)
(* pending or acknowledged.                                                *)
EndOK(list, ls, l) ==
  \A i \in DOMAIN list : list[i].isEnd =>
    list[i].location # l /\ Len(ls[list[i].location]) <= list[i].pending

EndsOK == EndOK(indexes, lines, launch) /\ EndOK(indexJson, lines, launch)

(* Ahead, of any indexes and lines.                                        *)
AheadOf(list, ls) ==
  UNION {{ls[e.location][k] : k \in (e.position + 1)..Len(ls[e.location])}
         : e \in RangeOf(list)}

(* index.json, when it decodes, lists what the indexes in memory list, at  *)
(* no later position, and no line more than those that were sent.          *)
Listed(list, json) ==
  \A i \in DOMAIN list :
    \/ \E j \in DOMAIN json :
         json[j].location = list[i].location /\ json[j].position <= list[i].position
    \/ Registering /\ list[i].location = launch

JsonOK ==
  ~indexTorn =>
    /\ Listed(indexes, indexJson)
    /\ step # "down" => AheadOf(indexJson, lines) \subseteq AheadOf(indexes, lines) \cup sent

Accepted == 1..produced

(* Only records that were produced are stored, read, sent or lost.         *)
NumbersOK ==
  /\ \A f \in Files : \A n \in DOMAIN lines[f] : lines[f][n] \in Accepted
  /\ \A s \in Sessions : \A b \in DOMAIN buffer[s] : buffer[s][b] \in Accepted
  /\ live \subseteq Accepted /\ lostToKill \subseteq Accepted

CleanInv == NoFailure /\ EndsOK /\ JsonOK /\ NumbersOK

(* A record ahead is that of a line past the position of an index.         *)
LEMMA AheadFacts ==
  ASSUME NEW list, NEW ls
  PROVE  \A r : r \in AheadOf(list, ls) <=>
           \E i \in DOMAIN list : \E n \in (list[i].position + 1)..Len(ls[list[i].location]) :
             r = ls[list[i].location][n]
  BY DEF AheadOf, RangeOf

(* An append adds one record to those ahead.                               *)
LEMMA AheadStore ==
  ASSUME NEW list \in Seq(SensorIndex), NEW ls \in [Files -> Seq(Records)],
         NEW l \in Files, NEW r \in Records
  PROVE  LET new == [ls EXCEPT ![l] = Append(@, r)]
         IN  /\ AheadOf(list, new) \subseteq AheadOf(list, ls) \cup {r}
             /\ AheadOf(list, ls) \subseteq AheadOf(list, new)
             /\ (\E i \in DOMAIN list :
                   list[i].location = l /\ list[i].position <= Len(ls[l])) =>
                  r \in AheadOf(list, new)
<1> DEFINE new == [ls EXCEPT ![l] = Append(@, r)]
<1>1. /\ \A f \in Files \ {l} : new[f] = ls[f]
      /\ Len(new[l]) = Len(ls[l]) + 1 /\ Len(ls[l]) \in Nat
      /\ \A n \in 1..Len(ls[l]) : new[l][n] = ls[l][n]
      /\ new[l][Len(ls[l]) + 1] = r
  BY AppendedLine, LineTypes
<1> HIDE DEF new
<1>2. /\ \A f \in Files : Len(ls[f]) \in Nat
      /\ \A i \in DOMAIN list : list[i].location \in Files /\ list[i].position \in Nat
  BY ListTypes, LineTypes
<1>3. ASSUME NEW x \in AheadOf(list, new)
      PROVE  x \in AheadOf(list, ls) \cup {r}
  <2>1. PICK i \in DOMAIN list : \E n \in (list[i].position + 1)..Len(new[list[i].location]) :
          x = new[list[i].location][n]
    BY AheadFacts
  <2>2. PICK n \in (list[i].position + 1)..Len(new[list[i].location]) :
          x = new[list[i].location][n]
    BY <2>1
  <2>3. CASE list[i].location # l
    <3>1. new[list[i].location] = ls[list[i].location]
      BY <1>1, <1>2, <2>3
    <3> QED
      BY <2>2, <3>1, AheadFacts
  <2>4. CASE list[i].location = l
    <3>1. n \in Nat /\ list[i].position < n /\ n <= Len(ls[l]) + 1 /\ n >= 1
      BY <1>1, <1>2, <2>2, <2>4
    <3>2. CASE n = Len(ls[l]) + 1
      BY <1>1, <2>2, <2>4, <3>2
    <3>3. CASE n # Len(ls[l]) + 1
      <4>1. n \in (list[i].position + 1)..Len(ls[l]) /\ n \in 1..Len(ls[l])
        BY <1>1, <1>2, <3>1, <3>3
      <4>2. x = ls[l][n]
        BY <1>1, <2>2, <2>4, <4>1
      <4> QED
        BY <2>4, <4>1, <4>2, AheadFacts
    <3> QED
      BY <3>2, <3>3
  <2> QED
    BY <2>3, <2>4
<1>4. ASSUME NEW x \in AheadOf(list, ls)
      PROVE  x \in AheadOf(list, new)
  <2>1. PICK i \in DOMAIN list : \E n \in (list[i].position + 1)..Len(ls[list[i].location]) :
          x = ls[list[i].location][n]
    BY AheadFacts
  <2>2. PICK n \in (list[i].position + 1)..Len(ls[list[i].location]) :
          x = ls[list[i].location][n]
    BY <2>1
  <2>3. /\ list[i].location \in Files /\ list[i].position \in Nat
        /\ Len(ls[list[i].location]) \in Nat
    BY <1>2
  <2>4. n \in 1..Len(ls[list[i].location])
    BY <2>3
  <2>5. CASE list[i].location # l
    BY <1>1, <2>2, <2>3, <2>5, AheadFacts
  <2>6. CASE list[i].location = l
    <3>1. n \in (list[i].position + 1)..Len(new[l])
      BY <1>1, <2>3, <2>6
    <3>2. x = new[l][n]
      BY <1>1, <2>2, <2>4, <2>6
    <3> QED
      BY <2>6, <3>1, <3>2, AheadFacts
  <2> QED
    BY <2>5, <2>6
<1>5. ASSUME NEW i \in DOMAIN list, list[i].location = l, list[i].position <= Len(ls[l])
      PROVE  r \in AheadOf(list, new)
  <2>1. Len(ls[l]) + 1 \in (list[i].position + 1)..Len(new[l])
    BY <1>1, <1>2, <1>5
  <2> QED
    BY <1>1, <1>5, <2>1, AheadFacts
<1> QED
  BY <1>3, <1>4, <1>5 DEF new

(* Lists that agree on files and positions have the same lines ahead.      *)
LEMMA AheadSame ==
  ASSUME NEW list, NEW other, NEW ls, DOMAIN other = DOMAIN list,
         \A i \in DOMAIN list :
           other[i].location = list[i].location /\ other[i].position = list[i].position
  PROVE  AheadOf(other, ls) = AheadOf(list, ls)
<1>1. \A x : x \in AheadOf(other, ls) <=>
        \E i \in DOMAIN list : \E n \in (list[i].position + 1)..Len(ls[list[i].location]) :
          x = ls[list[i].location][n]
  BY AheadFacts
<1>2. \A x : x \in AheadOf(other, ls) <=> x \in AheadOf(list, ls)
  BY <1>1, AheadFacts
<1> QED
  BY <1>2

(* Moving the positions on lets go of sent lines only.                     *)
LEMMA AheadMoved ==
  ASSUME NEW list \in Seq(SensorIndex), NEW other, NEW ls \in [Files -> Seq(Records)], NEW st,
         DOMAIN other = DOMAIN list,
         \A i \in DOMAIN list :
           /\ other[i].location = list[i].location /\ other[i].position \in Nat
           /\ list[i].position <= other[i].position,
         SentOK(other, ls, st)
  PROVE  /\ AheadOf(other, ls) \subseteq AheadOf(list, ls)
         /\ AheadOf(list, ls) \subseteq AheadOf(other, ls) \cup st
<1>1. \A i \in DOMAIN list :
        /\ list[i].location \in Files /\ list[i].position \in Nat
        /\ Len(ls[list[i].location]) \in Nat
  BY ListTypes, LineTypes
<1>2. ASSUME NEW x \in AheadOf(other, ls)
      PROVE  x \in AheadOf(list, ls)
  <2>1. PICK i \in DOMAIN list : \E n \in (other[i].position + 1)..Len(ls[list[i].location]) :
          x = ls[list[i].location][n]
    BY AheadFacts
  <2>2. PICK n \in (other[i].position + 1)..Len(ls[list[i].location]) :
          x = ls[list[i].location][n]
    BY <2>1
  <2>3. /\ list[i].position \in Nat /\ other[i].position \in Nat
        /\ list[i].position <= other[i].position /\ Len(ls[list[i].location]) \in Nat
    BY <1>1
  <2>4. n \in (list[i].position + 1)..Len(ls[list[i].location])
    BY <2>3
  <2> QED
    BY <2>2, <2>4, AheadFacts
<1>3. ASSUME NEW x \in AheadOf(list, ls), x \notin st
      PROVE  x \in AheadOf(other, ls)
  <2>1. PICK i \in DOMAIN list : \E n \in (list[i].position + 1)..Len(ls[list[i].location]) :
          x = ls[list[i].location][n]
    BY AheadFacts
  <2>2. PICK n \in (list[i].position + 1)..Len(ls[list[i].location]) :
          x = ls[list[i].location][n]
    BY <2>1
  <2>3. /\ list[i].position \in Nat /\ other[i].position \in Nat
        /\ other[i].location = list[i].location
        /\ Len(ls[list[i].location]) \in Nat
    BY <1>1
  <2>4. ~(n <= other[i].position)
    <3> SUFFICES ASSUME n <= other[i].position PROVE FALSE
      OBVIOUS
    <3>1. n \in 1..other[i].position /\ n <= Len(ls[list[i].location])
      BY <2>3
    <3> QED
      BY <1>3, <2>2, <2>3, <3>1 DEF SentOK
  <2>5. n \in (other[i].position + 1)..Len(ls[list[i].location])
    BY <2>3, <2>4
  <2> QED
    BY <2>2, <2>3, <2>5, AheadFacts
<1> QED
  BY <1>2, <1>3

(* The first index goes only with every line of its file acknowledged.     *)
LEMMA AheadTail ==
  ASSUME NEW list \in Seq(SensorIndex), list # <<>>, NEW ls \in [Files -> Seq(Records)],
         Len(ls[list[1].location]) <= list[1].position
  PROVE  AheadOf(Tail(list), ls) = AheadOf(list, ls)
<1> DEFINE t == Tail(list)
<1>1. /\ t \in Seq(SensorIndex) /\ Len(t) = Len(list) - 1
      /\ \A i \in 1..Len(t) : t[i] = list[i + 1]
  BY HeadTailProperties
<1>2. /\ Len(list) \in Nat /\ Len(list) >= 1 /\ DOMAIN list = 1..Len(list)
      /\ DOMAIN t = 1..(Len(list) - 1)
      /\ \A i \in DOMAIN t : t[i] = list[i + 1]
  BY <1>1, ListTypes, EmptySeq
<1> HIDE DEF t
<1>3. /\ \A i \in DOMAIN t : i + 1 \in DOMAIN list
      /\ \A i \in DOMAIN list : i = 1 \/ (i - 1 \in DOMAIN t /\ t[i - 1] = list[i])
  <2>1. ASSUME NEW i \in DOMAIN list, i # 1
        PROVE  i - 1 \in DOMAIN t /\ t[i - 1] = list[i]
    <3>1. i - 1 \in DOMAIN t /\ (i - 1) + 1 = i
      BY <1>2, <2>1
    <3> QED
      BY <1>2, <3>1
  <2> QED
    BY <1>2, <2>1
<1>4. ~ \E n : n \in (list[1].position + 1)..Len(ls[list[1].location])
  <2>1. 1 \in DOMAIN list
    BY <1>2
  <2>2. list[1].position \in Nat /\ Len(ls[list[1].location]) \in Nat
    BY <2>1, ListTypes, LineTypes
  <2> QED
    BY <2>2
<1>5. \A x : x \in AheadOf(t, ls) => x \in AheadOf(list, ls)
  <2> SUFFICES ASSUME NEW x \in AheadOf(t, ls)
               PROVE  x \in AheadOf(list, ls)
    OBVIOUS
  <2>1. PICK i \in DOMAIN t : \E n \in (t[i].position + 1)..Len(ls[t[i].location]) :
          x = ls[t[i].location][n]
    BY AheadFacts
  <2>2. i + 1 \in DOMAIN list /\ t[i] = list[i + 1]
    BY <1>2, <1>3
  <2> QED
    BY <2>1, <2>2, AheadFacts
<1>6. ASSUME NEW x \in AheadOf(list, ls)
      PROVE  x \in AheadOf(t, ls)
  <2>1. PICK i \in DOMAIN list : \E n \in (list[i].position + 1)..Len(ls[list[i].location]) :
          x = ls[list[i].location][n]
    BY AheadFacts
  <2>2. i # 1
    BY <1>4, <2>1
  <2>3. i - 1 \in DOMAIN t /\ t[i - 1] = list[i]
    BY <1>3, <2>2
  <2> QED
    BY <2>1, <2>3, AheadFacts
<1> QED
  BY <1>5, <1>6 DEF t

(* Steps keep NoFailure: only a send that fails ends it.                   *)
LEMMA NoFailureNext ==
  ASSUME IInv, NoFailure, Clean, [Next]_vars
  PROVE  NoFailure'
<1> USE DEF localVars, diskVars, loadVars, sectionVars, sessionVars, historyVars, transmitVars
<1>0. TypeOK /\ pc \in [Sessions -> PC]
      /\ stream \in [Sessions -> {"none", "open", "closed", "cancelled"}]
  BY DEF IInv, TypeOK, LocalTypeOK
<1>1. ASSUME UNCHANGED <<pc, stream>>, lockQ' = lockQ
      PROVE  NoFailure'
  BY <1>1 DEF NoFailure
<1>2. CASE TransmitOffline \/ TransmitOnline \/ DisableNetwork \/ EnableWithoutReceiver
           \/ (\E r \in Records : LiveSent(r) \/ LiveFailed(r)) \/ InitStep \/ UNCHANGED vars
  BY <1>1, <1>2 DEF TransmitOffline, TransmitOnline, DisableNetwork, EnableWithoutReceiver,
     LiveSent, LiveFailed, StoreToEnd,
     InitStep, LaunchAfterTornIndex, LaunchWithIndex, RegisterDataFile, vars
<1>3. ASSUME NEW s \in Sessions, LoadStart(s) \/ ReadLine(s) \/ RunAck(s) \/ RunNAck(s),
             UNCHANGED transmitVars
      PROVE  NoFailure'
  BY <1>1, <1>3 DEF LoadStart, ReadLine, RunAck, RunNAck
<1>4. ASSUME NEW s \in Sessions, EndFile(s), UNCHANGED transmitVars
      PROVE  NoFailure'
  <2>1. pc' = pc /\ \A t \in Sessions : stream'[t] # "cancelled"
    BY <1>0, <1>4 DEF EndFile, NoFailure
  <2>2. CASE lockQ' = lockQ
    BY <2>1, <2>2 DEF NoFailure
  <2>3. CASE lockQ' = Tail(lockQ)
    <3>1. lockQ # <<>>
      BY <1>4 DEF EndFile, HoldsLock
    <3>2. \A j \in DOMAIN lockQ' : j + 1 \in DOMAIN lockQ /\ lockQ'[j] = lockQ[j + 1]
      BY <1>0, <2>3, <3>1, DequeueFacts
    <3> QED
      BY <2>1, <3>2 DEF NoFailure
  <2> QED
    BY <1>4, <2>2, <2>3 DEF EndFile
<1>5. ASSUME NEW s \in Sessions, StartPass(s) \/ EndPass(s)
      PROVE  NoFailure'
  <2>1. /\ \A t \in Sessions : pc'[t] # "nack" /\ stream'[t] # "cancelled"
    BY <1>0, <1>5 DEF StartPass, LoadFromBegin, EndPass, NoFailure
  <2>2. PICK kind \in {"load", "ack"}, n \in Nat : Enqueue(kind, s, n)
    BY <1>0, <1>5 DEF StartPass, LoadFromBegin, EndPass, CallAck, TypeOK
  <2>3. /\ DOMAIN lockQ' = 1..(Len(lockQ) + 1)
        /\ \A j \in DOMAIN lockQ : lockQ'[j] = lockQ[j]
        /\ lockQ'[Len(lockQ) + 1] = [kind |-> kind, by |-> s, count |-> n]
    BY <1>0, <2>2, EnqueueFacts
  <2>4. \A j \in DOMAIN lockQ' : j \in DOMAIN lockQ \/ j = Len(lockQ) + 1
    BY <1>0, <2>3, QueueTypes
  <2> QED
    BY <2>1, <2>3, <2>4 DEF NoFailure
<1>6. ASSUME NEW s \in Sessions, EnableNetwork(s) \/ StartSend(s) \/ SendEnds(s) \/ FailPass(s)
      PROVE  NoFailure'
  <2>1. lockQ' = lockQ /\ stream' = stream /\ \A t \in Sessions : pc'[t] # "nack"
    BY <1>0, <1>6 DEF EnableNetwork, StartSend, SendEnds, SendReturnsTrue, SendReturnsFalse,
       SendThrows, FailPass, Clean, NoFailure
  <2> QED
    BY <2>1 DEF NoFailure
<1>7. CASE IndexStep
  <2>1. pc' = pc /\ stream' = stream
    BY <1>7 DEF IndexStep, TruncateIndex, WriteIndex, RemoveFirstIndex, DeleteDataFile, FinalStore,
       ReleaseLock
  <2>2. CASE lockQ' = lockQ
    BY <2>1, <2>2 DEF NoFailure
  <2>3. CASE ReleaseLock
    <3>1. lockQ # <<>> /\ lockQ' = Tail(lockQ)
      BY <2>3 DEF ReleaseLock, IInv, LockOK, UnderLock
    <3>2. \A j \in DOMAIN lockQ' : j + 1 \in DOMAIN lockQ /\ lockQ'[j] = lockQ[j + 1]
      BY <1>0, <3>1, DequeueFacts
    <3> QED
      BY <2>1, <3>2 DEF NoFailure
  <2> QED
    BY <1>7, <2>2, <2>3 DEF IndexStep, TruncateIndex, WriteIndex, RemoveFirstIndex, DeleteDataFile,
       FinalStore
<1>8. CASE Kill
  BY <1>8 DEF Kill, LocalKill, NoFailure
<1> QED
  BY <1>2, <1>3, <1>4, <1>5, <1>6, <1>7, <1>8 DEF Next, LoadStep, AckStep, SessionStep

(* Only a stored record and a killed or launched process change more than  *)
(* the indexes: these steps leave what the indexes list alone.             *)
SameStore ==
  UNCHANGED <<launch, files, lines, indexJson, indexTorn, indexes>>

ListStep ==
  \/ \E s \in Sessions : (EndFile(s) \/ RunAck(s)) /\ UNCHANGED transmitVars
  \/ IndexStep

LEMMA CleanSteps ==
  ASSUME IInv, NoFailure, Clean, [Next]_vars
  PROVE  \/ TransmitOffline
         \/ ListStep
         \/ InitStep \/ Kill
         \/ /\ SameStore /\ UNCHANGED <<after, lostToKill>> /\ sent \subseteq sent'
            /\ step # "down" /\ ~Registering /\ step' # "down" /\ ~Registering'
         \/ UNCHANGED vars
<1> USE DEF localVars, diskVars, loadVars, sectionVars, sessionVars, historyVars, transmitVars
<1>1. CASE \/ TransmitOnline \/ DisableNetwork \/ EnableWithoutReceiver
           \/ \E r \in Records : LiveSent(r) \/ LiveFailed(r)
  BY <1>1 DEF TransmitOnline, DisableNetwork, EnableWithoutReceiver,
     LiveSent, LiveFailed, Delivered, SameStore, Clean,
     Registering
<1>2. ASSUME NEW s \in Sessions, EnableNetwork(s) \/ SessionStep(s)
      PROVE  /\ SameStore /\ UNCHANGED <<after, lostToKill>> /\ sent \subseteq sent'
             /\ step # "down" /\ ~Registering /\ step' # "down" /\ ~Registering'
  BY <1>2 DEF EnableNetwork, SessionStep, StartPass, LoadFromBegin, StartSend, SendEnds,
     SendReturnsTrue, SendReturnsFalse, SendThrows, Delivered, FailPass, EndPass, CallAck, RunOrWait,
     SameStore, Clean, NoFailure, Registering
<1>3. ASSUME NEW s \in Sessions, LoadStart(s) \/ ReadLine(s), UNCHANGED transmitVars
      PROVE  /\ SameStore /\ UNCHANGED <<after, lostToKill>> /\ sent \subseteq sent'
             /\ step # "down" /\ ~Registering /\ step' # "down" /\ ~Registering'
  BY <1>3 DEF LoadStart, ReadLine, SameStore, Registering
<1>4. \A s \in Sessions : ~RunNAck(s)
  <2>1. lockQ # <<>> => 1 \in DOMAIN lockQ
    BY QueueTypes DEF IInv
  <2> QED
    BY <2>1 DEF RunNAck, HoldsLock, NoFailure
<1> QED
  BY <1>1, <1>2, <1>3, <1>4 DEF Next, ListStep, LoadStep, AckStep

(* What TransmitOffline does.                                              *)
LEMMA StoreFacts ==
  ASSUME IInv, TransmitOffline
  PROVE  /\ launch \in Files /\ produced + 1 \in Records /\ produced' = produced + 1
         /\ lines' = [lines EXCEPT ![launch] = Append(@, produced + 1)]
         /\ step = "idle" /\ Initialised
         /\ UNCHANGED <<launch, files, indexJson, indexTorn, indexes, step, after, buffer, live,
                        sent, lostToKill>>
<1>0. TypeOK /\ Initialised /\ produced \in 0..MaxRecords
  BY DEF IInv, TypeOK, TransmitOffline, Initialised
<1>1. launch \in Files
  BY <1>0, CurrentIsLast
<1>2. produced + 1 \in Records
  BY <1>0, RecordsAssumption DEF TransmitOffline, Records
<1> QED
  BY <1>0, <1>1, <1>2 DEF TransmitOffline, StoreToEnd, loadVars, sectionVars, historyVars

(* The lines that a session's records and the store hold were produced.    *)
LEMMA NumbersNext ==
  ASSUME IInv, NoFailure, NumbersOK, Clean, [Next]_vars
  PROVE  NumbersOK'
<1> USE DEF localVars, diskVars, loadVars, sectionVars, sessionVars, historyVars, transmitVars
<1>0. /\ TypeOK /\ produced \in Nat /\ lines \in [Files -> Seq(Records)]
      /\ buffer \in [Sessions -> Seq(Records)] /\ indexes \in Seq(SensorIndex)
  BY RecordsAssumption DEF IInv, TypeOK, LocalTypeOK
<1>1. ASSUME UNCHANGED <<lines, buffer>>, live' \subseteq live, lostToKill' = lostToKill,
             produced' = produced
      PROVE  NumbersOK'
  BY <1>1 DEF NumbersOK, Accepted
<1>2. CASE TransmitOffline
  <2>1. /\ launch \in Files /\ produced + 1 \in Records /\ produced' = produced + 1
        /\ lines' = [lines EXCEPT ![launch] = Append(@, produced + 1)]
        /\ UNCHANGED <<buffer, live, lostToKill>>
    BY <1>2, StoreFacts
  <2>2. /\ \A f \in Files \ {launch} : lines'[f] = lines[f]
        /\ Len(lines'[launch]) = Len(lines[launch]) + 1 /\ Len(lines[launch]) \in Nat
        /\ \A n \in 1..Len(lines[launch]) : lines'[launch][n] = lines[launch][n]
        /\ lines'[launch][Len(lines[launch]) + 1] = produced + 1
        /\ DOMAIN lines'[launch] = 1..(Len(lines[launch]) + 1)
        /\ DOMAIN lines[launch] = 1..Len(lines[launch])
    BY <1>0, <2>1, AppendedLine, LineTypes
  <2>3. Accepted \subseteq Accepted' /\ produced + 1 \in Accepted'
    BY <1>0, <2>1 DEF Accepted
  <2>4. \A n \in DOMAIN lines'[launch] : n \in DOMAIN lines[launch] \/ n = Len(lines[launch]) + 1
    BY <2>2
  <2>5. \A n \in DOMAIN lines'[launch] : lines'[launch][n] \in Accepted'
    BY <2>1, <2>2, <2>3, <2>4 DEF NumbersOK
  <2>6. \A f \in Files : \A n \in DOMAIN lines'[f] : lines'[f][n] \in Accepted'
    BY <2>2, <2>3, <2>5 DEF NumbersOK
  <2> QED
    BY <2>1, <2>3, <2>6 DEF NumbersOK
<1>3. CASE TransmitOnline
  <2>1. Accepted \subseteq Accepted' /\ produced + 1 \in Accepted'
    BY <1>0, <1>3 DEF TransmitOnline, Accepted
  <2> QED
    BY <1>3, <2>1 DEF TransmitOnline, NumbersOK
<1>4. CASE \/ DisableNetwork \/ EnableWithoutReceiver \/ InitStep
           \/ \E r \in Records : LiveSent(r) \/ LiveFailed(r)
           \/ IndexStep \/ UNCHANGED vars
  BY <1>1, <1>4 DEF DisableNetwork, EnableWithoutReceiver,
     LiveSent, LiveFailed, Delivered, Clean, InitStep,
     LaunchAfterTornIndex, LaunchWithIndex, RegisterDataFile, IndexStep, TruncateIndex, WriteIndex,
     RemoveFirstIndex, DeleteDataFile, FinalStore, ReleaseLock, vars
<1>5. ASSUME NEW s \in Sessions,
             \/ EnableNetwork(s) \/ StartPass(s) \/ StartSend(s) \/ EndPass(s) \/ AckStep(s)
             \/ (LoadStart(s) \/ EndFile(s)) /\ UNCHANGED transmitVars
      PROVE  NumbersOK'
  BY <1>1, <1>5 DEF EnableNetwork, StartPass, LoadFromBegin, StartSend, EndPass, CallAck, AckStep,
     RunAck, RunNAck, LoadStart, EndFile
<1>6. ASSUME NEW s \in Sessions, SendEnds(s) \/ FailPass(s)
      PROVE  NumbersOK'
  <2>1. SendReturnsTrue(s)
    BY <1>6 DEF SendEnds, SendReturnsFalse, SendThrows, FailPass, Clean, NoFailure
  <2>2. buffer[s] # <<>> /\ buffer[s] \in Seq(Records) /\ buffer' = [buffer EXCEPT ![s] = Tail(@)]
    BY <1>0, <2>1 DEF SendReturnsTrue, IInv, SendingOK
  <2>3. \A b \in DOMAIN buffer'[s] : b + 1 \in DOMAIN buffer[s] /\ buffer'[s][b] = buffer[s][b + 1]
    BY <1>0, <2>2, HeadTailProperties, LenProperties
  <2>4. \A t \in Sessions : t # s => buffer'[t] = buffer[t]
    BY <1>0, <2>2
  <2>5. UNCHANGED <<lines, live, lostToKill, produced>>
    BY <2>1 DEF SendReturnsTrue, Delivered
  <2>6. \A b \in DOMAIN buffer'[s] : buffer'[s][b] \in Accepted
    BY <2>3 DEF NumbersOK
  <2>7. \A t \in Sessions : \A b \in DOMAIN buffer'[t] : buffer'[t][b] \in Accepted
    BY <2>4, <2>6 DEF NumbersOK
  <2> QED
    BY <2>5, <2>7 DEF NumbersOK, Accepted
<1>7. ASSUME NEW s \in Sessions, ReadLine(s), UNCHANGED transmitVars
      PROVE  NumbersOK'
  <2>1. CASE buffer' = buffer
    BY <1>1, <1>7, <2>1 DEF ReadLine
  <2>2. CASE buffer' # buffer
    <3> DEFINE k == cursor.file
               m == cursor.from + cursor.read + 1
               r == lines[indexes[k].location][m]
    <3>1. buffer' = [buffer EXCEPT ![s] = Append(@, r)]
      BY <1>7, <2>2 DEF ReadLine
    <3>2. /\ k \in DOMAIN indexes /\ cursor.from \in Nat /\ cursor.read \in Nat
          /\ Size(k) - cursor.from - cursor.read > 0
      BY <1>0, <1>7, ListTypes
      DEF ReadLine, UnreadLines, Size, IInv, LockOK, TypeOK, LocalTypeOK
    <3>3. indexes[k].location \in Files /\ Size(k) \in Nat
      BY <1>0, <3>2, ListTypes, LineTypes DEF Size
    <3>4. m \in DOMAIN lines[indexes[k].location] /\ r \in Records
      <4>1. m \in 1..Size(k)
        BY <3>2, <3>3
      <4> QED
        BY <1>0, <3>3, <4>1, LineTypes DEF Size
    <3>5. r \in Accepted
      BY <3>3, <3>4 DEF NumbersOK
    <3> HIDE DEF r
    <3>6. /\ buffer[s] \in Seq(Records) /\ buffer'[s] = Append(buffer[s], r)
          /\ \A t \in Sessions : t # s => buffer'[t] = buffer[t]
      BY <1>0, <3>1
    <3>7. \A b \in DOMAIN buffer'[s] : buffer'[s][b] \in Accepted
      <4>1. /\ Len(buffer[s]) \in Nat /\ DOMAIN buffer[s] = 1..Len(buffer[s])
            /\ DOMAIN buffer'[s] = 1..(Len(buffer[s]) + 1)
            /\ \A b \in 1..Len(buffer[s]) : buffer'[s][b] = buffer[s][b]
            /\ buffer'[s][Len(buffer[s]) + 1] = r
        BY <3>4, <3>6, AppendProperties, LenProperties
      <4>2. \A b \in DOMAIN buffer'[s] : b \in DOMAIN buffer[s] \/ b = Len(buffer[s]) + 1
        BY <4>1
      <4> QED
        BY <3>5, <4>1, <4>2 DEF NumbersOK
    <3>8. \A t \in Sessions : \A b \in DOMAIN buffer'[t] : buffer'[t][b] \in Accepted
      BY <3>6, <3>7 DEF NumbersOK
    <3>9. UNCHANGED <<lines, live, lostToKill, produced>>
      BY <1>7 DEF ReadLine
    <3> QED
      BY <3>8, <3>9 DEF NumbersOK, Accepted
  <2> QED
    BY <2>1, <2>2
<1>8. CASE Kill
  <2>1. /\ lines' = lines /\ produced' = produced /\ live' = {}
        /\ \A s \in Sessions : buffer'[s] = <<>>
        /\ lostToKill' \subseteq lostToKill \cup live \cup StoredIn(files)
    BY <1>8 DEF Kill, LocalKill
  <2>2. StoredIn(files) \subseteq Accepted
    BY <1>0 DEF StoredIn, NumbersOK, TypeOK, LocalTypeOK
  <2>3. Accepted' = Accepted
    BY <2>1 DEF Accepted
  <2> QED
    BY <2>1, <2>2, <2>3 DEF NumbersOK
<1> QED
  BY <1>2, <1>3, <1>4, <1>5, <1>6, <1>7, <1>8 DEF Next, LoadStep, SessionStep, AckStep

(* An acknowledgement moves positions forward and nothing else.            *)
LEMMA AckMoves ==
  ASSUME TypeOK, PendingOK(indexes, lines), NEW c, AckFromBegin(c)
  PROVE  /\ DOMAIN indexes' = DOMAIN indexes
         /\ \A i \in DOMAIN indexes :
              /\ indexes'[i].location = indexes[i].location
              /\ indexes'[i].pending = indexes[i].pending
              /\ indexes'[i].isEnd = indexes[i].isEnd
              /\ indexes'[i].position \in Nat /\ indexes[i].position <= indexes'[i].position
<1>1. PICK k \in DOMAIN indexes : \E p \in indexes[k].position..indexes[k].pending :
        indexes' = AckedUpTo(k, p)
  BY DEF AckFromBegin
<1>2. PICK p \in indexes[k].position..indexes[k].pending : indexes' = AckedUpTo(k, p)
  BY <1>1
<1>3. /\ Len(indexes) \in Nat /\ DOMAIN indexes = 1..Len(indexes)
      /\ \A i \in DOMAIN indexes :
           /\ indexes[i].position \in Nat /\ indexes[i].pending \in Nat
           /\ indexes[i].position <= indexes[i].pending
  BY ListTypes DEF PendingOK, TypeOK, LocalTypeOK
<1> QED
  BY <1>2, <1>3, AckFacts

(* A data file marked ended is not appended to and was read to its end.    *)
LEMMA EndsNext ==
  ASSUME IInv, PositionInv, NoFailure, EndsOK, Clean, [Next]_vars
  PROVE  EndsOK'
<1> USE DEF localVars, diskVars, loadVars, sectionVars, sessionVars, historyVars, transmitVars
<1>0. /\ TypeOK /\ lines \in [Files -> Seq(Records)] /\ launch \in Nat
      /\ indexes \in Seq(SensorIndex) /\ indexJson \in Seq(SensorIndex)
  BY DEF IInv, TypeOK, LocalTypeOK
<1>1. CASE SameStore \/ UNCHANGED vars
  BY <1>1 DEF SameStore, vars, EndsOK
<1>2. CASE TransmitOffline
  <2>1. /\ launch \in Files /\ lines' = [lines EXCEPT ![launch] = Append(@, produced + 1)]
        /\ UNCHANGED <<launch, indexes, indexJson>>
    BY <1>2, StoreFacts
  <2>2. \A f \in Files : f # launch => lines'[f] = lines[f]
    BY <1>0, <2>1
  <2>3. ASSUME NEW list \in Seq(SensorIndex), EndOK(list, lines, launch)
        PROVE  EndOK(list, lines', launch)
    BY <2>2, <2>3, ListTypes DEF EndOK
  <2> QED
    BY <1>0, <2>1, <2>3 DEF EndsOK
<1>3. ASSUME NEW s \in Sessions, EndFile(s)
      PROVE  EndsOK'
  <2> DEFINE k == cursor.file
  <2>1. /\ UNCHANGED <<launch, lines, indexJson>>
        /\ indexes' = [indexes EXCEPT ![k] = Loaded(@)]
        /\ cursor.terminated \/ Size(k) - cursor.from - cursor.read <= 0
        /\ k # 0 /\ cursor.from \in Nat /\ cursor.read \in Nat
    BY <1>0, <1>3 DEF EndFile, UnreadLines, Size, NoFailure, TypeOK, LocalTypeOK
  <2>2. /\ SamePlaces /\ k \in DOMAIN indexes
        /\ \A i \in DOMAIN indexes :
             indexes'[i].pending = indexes[i].pending + (IF i = k THEN cursor.read ELSE 0)
    BY <1>3, EndFileFacts
  <2>3. /\ Len(indexes) \in Nat /\ DOMAIN indexes = 1..Len(indexes)
        /\ \A i \in DOMAIN indexes :
             /\ indexes[i] \in SensorIndex /\ indexes[i].location \in Files
             /\ indexes[i].position \in Nat /\ indexes[i].pending \in Nat
             /\ indexes[i].position <= indexes[i].pending
    BY <1>0, ListTypes DEF PositionInv, ListsOK, ListOK, PendingOK
  <2>4. Size(k) \in Nat
    BY <1>0, <2>2, <2>3, LineTypes DEF Size
  <2>5. /\ indexes'[k].isEnd = (indexes[k].isEnd \/ MarksEnd)
        /\ \A i \in DOMAIN indexes : i # k => indexes'[i].isEnd = indexes[i].isEnd
    <3>1. indexes[k] \in SensorIndex
      BY <2>2, <2>3
    <3>2. Loaded(indexes[k]).isEnd = (indexes[k].isEnd \/ MarksEnd)
      BY <3>1 DEF Loaded, SensorIndex
    <3> QED
      BY <2>1, <2>2, <3>2
  <2>6. ASSUME MarksEnd
        PROVE  indexes[k].location # launch /\ Size(k) <= indexes[k].pending + cursor.read
    <3>1. Initialised /\ ~IsLast(k) /\ ~cursor.terminated
      BY <1>3, <2>6 DEF MarksEnd, EndFile, Initialised
    <3>2. indexes[k].location # launch
      BY <2>2, <3>1, CurrentIsLast DEF IsLast
    <3>3. cursor.from <= indexes[k].position
      BY <2>1 DEF PositionInv, ReaderOK
    <3>4. indexes[k].position \in Nat /\ indexes[k].pending \in Nat
          /\ indexes[k].position <= indexes[k].pending
      BY <2>2, <2>3
    <3>5. Size(k) - cursor.from - cursor.read <= 0
      BY <2>1, <3>1
    <3>6. Size(k) <= indexes[k].pending + cursor.read
      BY <2>1, <2>4, <3>3, <3>4, <3>5
    <3> QED
      BY <3>2, <3>6
  <2>7. ASSUME NEW i \in DOMAIN indexes, indexes'[i].isEnd
        PROVE  indexes[i].location # launch /\ Size(i) <= indexes'[i].pending
    <3>1. CASE i # k
      <4>1. indexes'[i].pending = indexes[i].pending
        BY <2>2, <2>3, <3>1
      <4> QED
        BY <2>5, <2>7, <3>1, <4>1 DEF EndsOK, EndOK, Size
    <3>2. CASE i = k /\ indexes[k].isEnd
      <4>1. indexes[k].location # launch /\ Size(k) <= indexes[k].pending
        BY <2>2, <3>2 DEF EndsOK, EndOK, Size
      <4>2. indexes'[k].pending = indexes[k].pending + cursor.read /\ indexes[k].pending \in Nat
        BY <2>2, <2>3
      <4> QED
        BY <2>1, <2>4, <3>2, <4>1, <4>2
    <3>3. CASE i = k /\ MarksEnd
      BY <2>2, <2>6, <3>3
    <3> QED
      BY <2>5, <2>7, <3>1, <3>2, <3>3
  <2>8. EndOK(indexes', lines, launch)
    BY <2>2, <2>7 DEF EndOK, Size, SamePlaces
  <2> QED
    BY <2>1, <2>8 DEF EndsOK
<1>4. ASSUME NEW s \in Sessions, RunAck(s)
      PROVE  EndsOK'
  <2>1. /\ DOMAIN indexes' = DOMAIN indexes
        /\ \A i \in DOMAIN indexes :
             /\ indexes'[i].location = indexes[i].location
             /\ indexes'[i].pending = indexes[i].pending
             /\ indexes'[i].isEnd = indexes[i].isEnd
        /\ UNCHANGED <<launch, lines, indexJson>>
    <3>1. PendingOK(indexes, lines)
      BY DEF PositionInv, ListsOK, ListOK
    <3>2. \A c : AckFromBegin(c) =>
             /\ DOMAIN indexes' = DOMAIN indexes
             /\ \A i \in DOMAIN indexes :
                  /\ indexes'[i].location = indexes[i].location
                  /\ indexes'[i].pending = indexes[i].pending
                  /\ indexes'[i].isEnd = indexes[i].isEnd
      BY <1>0, <3>1, AckMoves
    <3>3. AckFromBegin(lockQ[1].count) /\ UNCHANGED <<launch, lines, indexJson>>
      BY <1>4 DEF RunAck
    <3> QED
      BY <3>2, <3>3
  <2> QED
    BY <2>1 DEF EndsOK, EndOK
<1>5. CASE IndexStep
  <2>1. UNCHANGED <<launch, lines>>
    BY <1>5 DEF IndexStep, TruncateIndex, WriteIndex, RemoveFirstIndex, DeleteDataFile, FinalStore,
       ReleaseLock
  <2>2. CASE WriteIndex
    BY <2>1, <2>2 DEF WriteIndex, EndsOK
  <2>3. CASE RemoveFirstIndex
    <3>1. indexes # <<>> /\ indexes' = Tail(indexes) /\ indexJson' = indexJson
      BY <2>3 DEF RemoveFirstIndex, IInv, CurrentFileKept, Initialised
    <3>2. \A i \in DOMAIN indexes' : i + 1 \in DOMAIN indexes /\ indexes'[i] = indexes[i + 1]
      <4>1. /\ indexes' \in Seq(SensorIndex) /\ Len(indexes') = Len(indexes) - 1
            /\ \A i \in 1..Len(indexes') : indexes'[i] = indexes[i + 1]
        BY <1>0, <3>1, HeadTailProperties
      <4> QED
        BY <1>0, <4>1, ListTypes
    <3> QED
      BY <2>1, <3>1, <3>2 DEF EndsOK, EndOK
  <2>4. CASE TruncateIndex \/ DeleteDataFile \/ FinalStore \/ ReleaseLock
    BY <2>1, <2>4 DEF TruncateIndex, DeleteDataFile, FinalStore, ReleaseLock, EndsOK
  <2> QED
    BY <1>5, <2>2, <2>3, <2>4 DEF IndexStep
<1>6. CASE Kill
  BY <1>6 DEF Kill, LocalKill, EndsOK, EndOK
<1>7. CASE InitStep
  <2>1. CASE LaunchAfterTornIndex \/ LaunchWithIndex
    <3>1. /\ lines' = lines /\ launch' = launch + 1
          /\ indexes' \in {<<>>, indexJson} /\ indexJson' \in {<<>>, indexJson}
      BY <2>1 DEF LaunchAfterTornIndex, LaunchWithIndex
    <3>2. EndOK(indexJson, lines, launch')
      <4>1. \A i \in DOMAIN indexJson : indexJson[i].location \in Nat /\ indexJson[i].location <= launch
        BY <1>0, ListTypes DEF IInv, Ordered
      <4> QED
        BY <1>0, <3>1, <4>1 DEF EndsOK, EndOK
    <3>3. EndOK(<<>>, lines, launch')
      BY DEF EndOK
    <3> QED
      BY <3>1, <3>2, <3>3 DEF EndsOK
  <2>2. CASE RegisterDataFile
    <3> DEFINE e == [location |-> launch, position |-> 0, pending |-> 0, isEnd |-> FALSE]
    <3>1. /\ UNCHANGED <<lines, launch, indexJson>> /\ step = "register"
          /\ indexes' = Append(indexes, e)
      BY <2>2 DEF RegisterDataFile
    <3>2. e \in SensorIndex /\ ~e.isEnd
      BY <3>1 DEF IInv, Ordered, SensorIndex
    <3> HIDE DEF e
    <3>3. \A i \in DOMAIN indexes' :
            \/ i \in DOMAIN indexes /\ indexes'[i] = indexes[i]
            \/ indexes'[i] = e
      <4>1. /\ Len(indexes) \in Nat /\ DOMAIN indexes = 1..Len(indexes)
            /\ DOMAIN indexes' = 1..(Len(indexes) + 1)
            /\ \A i \in DOMAIN indexes : indexes'[i] = indexes[i]
            /\ indexes'[Len(indexes) + 1] = e
        BY <1>0, <3>1, <3>2, AppendProperties, LenProperties
      <4>2. \A i \in DOMAIN indexes' : i \in DOMAIN indexes \/ i = Len(indexes) + 1
        BY <4>1
      <4> QED
        BY <4>1, <4>2
    <3> QED
      BY <3>1, <3>2, <3>3 DEF EndsOK, EndOK
  <2> QED
    BY <1>7, <2>1, <2>2 DEF InitStep
<1> QED
  BY <1>1, <1>2, <1>3, <1>4, <1>5, <1>6, <1>7, CleanSteps DEF ListStep

(* Steps that leave files and positions alone.                             *)
LEMMA JsonSame ==
  ASSUME JsonOK, UNCHANGED <<lines, launch, indexJson, indexTorn>>, sent \subseteq sent',
         step # "down", ~Registering,
         DOMAIN indexes' = DOMAIN indexes,
         \A i \in DOMAIN indexes :
           /\ indexes'[i].location = indexes[i].location
           /\ indexes'[i].position = indexes[i].position
  PROVE  JsonOK'
<1> SUFFICES ASSUME ~indexTorn
             PROVE  /\ Listed(indexes, indexJson)'
                    /\ AheadOf(indexJson, lines)' \subseteq AheadOf(indexes, lines)' \cup sent'
  BY DEF JsonOK
<1>1. /\ Listed(indexes, indexJson)
      /\ AheadOf(indexJson, lines) \subseteq AheadOf(indexes, lines) \cup sent
  BY DEF JsonOK
<1>2. Listed(indexes, indexJson)'
  BY <1>1 DEF Listed
<1>3. AheadOf(indexes', lines) = AheadOf(indexes, lines)
  BY AheadSame
<1> QED
  BY <1>1, <1>2, <1>3

(* index.json keeps up with the indexes.                                   *)
LEMMA JsonNext ==
  ASSUME IInv, PositionInv, PositionInv', NoFailure, EndsOK, JsonOK, Clean, [Next]_vars
  PROVE  JsonOK'
<1> USE DEF localVars, diskVars, loadVars, sectionVars, sessionVars, historyVars, transmitVars
<1>0. /\ TypeOK /\ lines \in [Files -> Seq(Records)] /\ launch \in Nat
      /\ indexes \in Seq(SensorIndex) /\ indexJson \in Seq(SensorIndex)
  BY DEF IInv, TypeOK, LocalTypeOK
<1>1. CASE SameStore /\ sent \subseteq sent' /\ step # "down" /\ ~Registering
  BY <1>1, JsonSame DEF SameStore
<1>2. CASE UNCHANGED vars
  BY <1>2 DEF vars, JsonOK, Listed, Registering
<1>3. CASE TransmitOffline
  <2> DEFINE r == produced + 1
  <2>1. /\ launch \in Files /\ r \in Records
        /\ lines' = [lines EXCEPT ![launch] = Append(@, r)] /\ step = "idle" /\ Initialised
        /\ UNCHANGED <<launch, indexJson, indexTorn, indexes, step, after, sent>>
    BY <1>3, StoreFacts
  <2> HIDE DEF r
  <2>2. \E i \in DOMAIN indexes :
          indexes[i].location = launch /\ indexes[i].position <= Len(lines[launch])
    BY <2>1, CurrentIsLast DEF PositionInv, ListsOK, ListOK, CurrentOK
  <2>3. /\ AheadOf(indexJson, lines') \subseteq AheadOf(indexJson, lines) \cup {r}
        /\ AheadOf(indexes, lines) \subseteq AheadOf(indexes, lines')
        /\ r \in AheadOf(indexes, lines')
    BY <1>0, <2>1, <2>2, AheadStore
  <2> QED
    BY <2>1, <2>3 DEF JsonOK, Listed, Registering
<1>4. ASSUME NEW s \in Sessions, EndFile(s), UNCHANGED transmitVars
      PROVE  JsonOK'
  <2>1. /\ DOMAIN indexes' = DOMAIN indexes
        /\ \A i \in DOMAIN indexes :
             /\ indexes'[i].location = indexes[i].location
             /\ indexes'[i].position = indexes[i].position
    BY <1>4, EndFileFacts DEF SamePlaces
  <2> QED
    BY <1>4, <2>1, JsonSame DEF EndFile, Registering
<1>5. ASSUME NEW s \in Sessions, RunAck(s), UNCHANGED transmitVars
      PROVE  JsonOK'
  <2>1. /\ DOMAIN indexes' = DOMAIN indexes
        /\ \A i \in DOMAIN indexes :
             /\ indexes'[i].location = indexes[i].location
             /\ indexes'[i].position \in Nat /\ indexes[i].position <= indexes'[i].position
        /\ UNCHANGED <<launch, lines, indexJson, indexTorn, sent>>
        /\ step # "down" /\ ~Registering
    <3>1. PendingOK(indexes, lines)
      BY DEF PositionInv, ListsOK, ListOK
    <3>2. \A c : AckFromBegin(c) =>
             /\ DOMAIN indexes' = DOMAIN indexes
             /\ \A i \in DOMAIN indexes :
                  /\ indexes'[i].location = indexes[i].location
                  /\ indexes'[i].position \in Nat /\ indexes[i].position <= indexes'[i].position
      BY <1>0, <3>1, AckMoves
    <3>3. AckFromBegin(lockQ[1].count) /\ UNCHANGED <<launch, lines, indexJson, indexTorn, sent>>
          /\ step # "down" /\ ~Registering
      BY <1>5 DEF RunAck, Registering
    <3> QED
      BY <3>2, <3>3
  <2>2. SentOK(indexes', lines, sent)
    BY <2>1 DEF PositionInv, ListsOK, ListOK, SentOK
  <2>3. AheadOf(indexes, lines) \subseteq AheadOf(indexes', lines) \cup sent
    BY <1>0, <2>1, <2>2, AheadMoved
  <2>4. \A i \in DOMAIN indexes : indexes[i].position \in Nat
    BY <1>0, ListTypes
  <2>5. \A j \in DOMAIN indexJson : indexJson[j].position \in Nat
    BY <1>0, ListTypes
  <2>6. Listed(indexes, indexJson) => Listed(indexes, indexJson)'
    BY <2>1, <2>4, <2>5 DEF Listed
  <2> QED
    BY <2>1, <2>3, <2>6 DEF JsonOK
<1>6. CASE IndexStep
  <2>1. CASE TruncateIndex
    BY <2>1 DEF TruncateIndex, JsonOK
  <2>2. CASE WriteIndex
    <3>1. \A i \in DOMAIN indexes : indexes[i].position \in Nat
      BY <1>0, ListTypes
    <3>2. UNCHANGED <<indexes, lines>> /\ indexJson' = indexes
      BY <2>2 DEF WriteIndex
    <3> QED
      BY <3>1, <3>2 DEF JsonOK, Listed
  <2>3. CASE RemoveFirstIndex
    <3>1. /\ indexes # <<>> /\ indexes' = Tail(indexes) /\ FirstIsAcked
          /\ step # "down" /\ ~Registering
          /\ UNCHANGED <<launch, lines, indexJson, indexTorn, sent>>
      BY <1>6, <2>3 DEF RemoveFirstIndex, IInv, CurrentFileKept, Initialised, IndexStep, Registering
    <3>2. \A i \in DOMAIN indexes' : i + 1 \in DOMAIN indexes /\ indexes'[i] = indexes[i + 1]
      <4>1. /\ indexes' \in Seq(SensorIndex) /\ Len(indexes') = Len(indexes) - 1
            /\ \A i \in 1..Len(indexes') : indexes'[i] = indexes[i + 1]
        BY <1>0, <3>1, HeadTailProperties
      <4> QED
        BY <1>0, <4>1, ListTypes
    <3>3. Len(lines[indexes[1].location]) <= indexes[1].position
      <4>1. 1 \in DOMAIN indexes
        BY <1>0, <3>1, ListTypes, EmptySeq
      <4> QED
        BY <3>1, <4>1 DEF FirstIsAcked, EndsOK, EndOK
    <3>4. AheadOf(indexes', lines) = AheadOf(indexes, lines)
      BY <1>0, <3>1, <3>3, AheadTail
    <3>5. Listed(indexes, indexJson) => Listed(indexes, indexJson)'
      BY <3>1, <3>2 DEF Listed
    <3> QED
      BY <3>1, <3>4, <3>5 DEF JsonOK
  <2>4. CASE DeleteDataFile \/ FinalStore \/ ReleaseLock
    <3>1. UNCHANGED <<lines, launch, indexJson, indexTorn, indexes, sent>>
          /\ step # "down" /\ ~Registering
      BY <1>6, <2>4 DEF IndexStep, DeleteDataFile, FinalStore, ReleaseLock, Registering
    <3> QED
      BY <3>1, JsonSame
  <2> QED
    BY <1>6, <2>1, <2>2, <2>3, <2>4 DEF IndexStep
<1>7. CASE Kill
  BY <1>7 DEF Kill, LocalKill, JsonOK, Listed
<1>8. CASE InitStep
  <2>1. CASE LaunchAfterTornIndex
    BY <2>1 DEF LaunchAfterTornIndex, JsonOK
  <2>2. CASE LaunchWithIndex
    <3>1. UNCHANGED <<lines, indexJson>> /\ indexes' = indexJson
      BY <2>2 DEF LaunchWithIndex
    <3>2. \A i \in DOMAIN indexJson : indexJson[i].position \in Nat
      BY <1>0, ListTypes
    <3> QED
      BY <3>1, <3>2 DEF JsonOK, Listed
  <2>3. CASE RegisterDataFile
    <3> DEFINE e == [location |-> launch, position |-> 0, pending |-> 0, isEnd |-> FALSE]
    <3>1. /\ UNCHANGED <<lines, launch, indexJson, indexTorn, sent>> /\ step = "register"
          /\ Registering /\ Registering' /\ indexes' = Append(indexes, e)
      BY <1>8, <2>3 DEF RegisterDataFile, InitStep, Registering, StoreIndexContext
    <3>2. e \in SensorIndex /\ e.location = launch
      BY <3>1 DEF IInv, Ordered, SensorIndex
    <3> HIDE DEF e
    <3>3. /\ \A i \in DOMAIN indexes : i \in DOMAIN indexes' /\ indexes'[i] = indexes[i]
          /\ \A i \in DOMAIN indexes' : i \in DOMAIN indexes \/ indexes'[i] = e
      <4>1. /\ Len(indexes) \in Nat /\ DOMAIN indexes = 1..Len(indexes)
            /\ DOMAIN indexes' = 1..(Len(indexes) + 1)
            /\ \A i \in DOMAIN indexes : indexes'[i] = indexes[i]
            /\ indexes'[Len(indexes) + 1] = e
        BY <1>0, <3>1, <3>2, AppendProperties, LenProperties
      <4>2. \A i \in DOMAIN indexes' : i \in DOMAIN indexes \/ i = Len(indexes) + 1
        BY <4>1
      <4> QED
        BY <4>1, <4>2
    <3>4. AheadOf(indexes, lines) \subseteq AheadOf(indexes', lines)
      <4>1. ASSUME NEW x \in AheadOf(indexes, lines)
            PROVE  x \in AheadOf(indexes', lines)
        <5>1. PICK i \in DOMAIN indexes :
                \E n \in (indexes[i].position + 1)..Len(lines[indexes[i].location]) :
                  x = lines[indexes[i].location][n]
          BY AheadFacts
        <5> QED
          BY <3>3, <5>1, AheadFacts
      <4> QED
        BY <4>1
    <3>5. Listed(indexes, indexJson) => Listed(indexes, indexJson)'
      BY <3>1, <3>2, <3>3 DEF Listed
    <3>6. JsonOK => (~indexTorn => /\ Listed(indexes, indexJson)
                         /\ AheadOf(indexJson, lines) \subseteq AheadOf(indexes, lines) \cup sent)
      BY <3>1 DEF JsonOK
    <3> QED
      BY <3>1, <3>4, <3>5, <3>6 DEF JsonOK
  <2> QED
    BY <1>8, <2>1, <2>2, <2>3 DEF InitStep
<1> QED
  BY <1>1, <1>2, <1>3, <1>4, <1>5, <1>6, <1>7, <1>8, CleanSteps DEF ListStep

LEMMA InitClean == Init => CleanInv
<1> SUFFICES ASSUME Init PROVE CleanInv
  OBVIOUS
<1>1. \A ls, l : EndOK(<<>>, ls, l)
  BY DEF EndOK
<1>2. \A f \in Files : DOMAIN lines[f] = {}
  BY DEF Init, LocalInit
<1>3. \A s \in Sessions : DOMAIN buffer[s] = {}
  BY DEF Init, LocalInit
<1> QED
  BY <1>1, <1>2, <1>3 DEF Init, LocalInit, CleanInv, NoFailure, EndsOK, JsonOK, NumbersOK

LEMMA NextClean ==
  DeliveryInv /\ DeliveryInv' /\ CleanInv /\ Clean /\ [Next]_vars => CleanInv'
  BY NoFailureNext, EndsNext, JsonNext, NumbersNext DEF CleanInv, DeliveryInv

(* With sends that succeed, files are marked ended only when they are      *)
(* read, and index.json lists the lines that the indexes in memory list.   *)
THEOREM CleanInvariance == Clean /\ Spec => [](DeliveryInv /\ CleanInv)
<1> SUFFICES ASSUME Clean PROVE Spec => [](DeliveryInv /\ CleanInv)
  OBVIOUS
<1>1. DeliveryInv /\ CleanInv /\ [Next]_vars => (DeliveryInv /\ CleanInv)'
  BY NextDelivery, NextClean DEF Clean
<1> QED
  BY InitDelivery, InitClean, <1>1, PTL DEF Spec

-----------------------------------------------------------------------------
(* The refinement of the abstract outbox, step by step.                    *)

(* What the abstract outbox holds.                                         *)
Kept == live \cup (IF step = "down" /\ indexTorn THEN {} ELSE Held)

(* What it holds in each phase of the app, now and after a step.           *)
LEMMA KeptUp ==
  /\ step # "down" => Kept = live \cup AheadOf(indexes, lines)
  /\ step = "down" /\ ~indexTorn => Kept = live \cup AheadOf(indexJson, lines)
  /\ step = "down" /\ indexTorn => Kept = live
  BY DEF Kept, Held, Ahead, AheadOf

LEMMA KeptUpNext ==
  /\ step' # "down" => Kept' = live' \cup AheadOf(indexes', lines')
  /\ step' = "down" /\ ~indexTorn' => Kept' = live' \cup AheadOf(indexJson', lines')
  /\ step' = "down" /\ indexTorn' => Kept' = live'
  BY DEF Kept, Held, Ahead, AheadOf

(* A step that leaves the batches alone is none of the outbox.             *)
LEMMA OutboxStutters ==
  ASSUME UNCHANGED <<produced, sent, lostToKill>>, Kept' = Kept
  PROVE  UNCHANGED outbox!outboxVars
  BY DEF outbox!outboxVars, Kept

(* A record produced is accepted, stored or not.                           *)
LEMMA OutboxAccepts ==
  ASSUME IInv, JsonOK, PositionInv, TransmitOffline \/ TransmitOnline
  PROVE  \E r \in Records : outbox!Accept(r)
<1> DEFINE r == produced + 1
<1>0. /\ TypeOK /\ lines \in [Files -> Seq(Records)] /\ produced \in Nat
      /\ indexes \in Seq(SensorIndex)
  BY RecordsAssumption DEF IInv, TypeOK, LocalTypeOK
<1>1. r \in Records /\ produced' = r /\ UNCHANGED <<sent, lostToKill>>
  <2>1. CASE TransmitOffline
    BY <2>1, StoreFacts
  <2>2. CASE TransmitOnline
    BY <1>0, <2>2, RecordsAssumption DEF TransmitOnline, historyVars, Records, TypeOK
  <2> QED
    BY <2>1, <2>2
<1>2. r \notin 1..produced /\ 1..produced' = (1..produced) \cup {r}
  BY <1>0, <1>1
<1>3. Kept' = Kept \cup {r}
  <2>1. CASE TransmitOnline
    BY <2>1, KeptUp, KeptUpNext DEF TransmitOnline, localVars, diskVars, sectionVars
  <2>2. CASE TransmitOffline
    <3>1. /\ launch \in Files /\ r \in Records
          /\ lines' = [lines EXCEPT ![launch] = Append(@, r)] /\ step = "idle" /\ Initialised
          /\ UNCHANGED <<launch, indexes, step, live>>
      BY <2>2, StoreFacts
    <3> HIDE DEF r
    <3>2. \E i \in DOMAIN indexes :
            indexes[i].location = launch /\ indexes[i].position <= Len(lines[launch])
      BY <3>1, CurrentIsLast DEF PositionInv, ListsOK, ListOK, CurrentOK
    <3>3. /\ AheadOf(indexes, lines') \subseteq AheadOf(indexes, lines) \cup {r}
          /\ AheadOf(indexes, lines) \subseteq AheadOf(indexes, lines')
          /\ r \in AheadOf(indexes, lines')
      BY <1>0, <3>1, <3>2, AheadStore
    <3>4. Kept = live \cup AheadOf(indexes, lines) /\ Kept' = live \cup AheadOf(indexes, lines')
      BY <3>1, KeptUp, KeptUpNext
    <3> QED
      BY <3>3, <3>4
  <2> QED
    BY <2>1, <2>2
<1> HIDE DEF r
<1>4. outbox!Accept(r)
  BY <1>1, <1>2, <1>3 DEF outbox!Accept, Kept
<1> QED
  BY <1>1, <1>4

(* A send that returned true.                                              *)
LEMMA OutboxSends ==
  ASSUME IInv, NumbersOK, (\E r \in Records : LiveSent(r)) \/ \E s \in Sessions : SendReturnsTrue(s)
  PROVE  \E r \in Records : outbox!Send(r)
<1> USE DEF localVars, diskVars, loadVars, sectionVars, sessionVars, historyVars
<1>1. ASSUME NEW r \in Records, LiveSent(r)
      PROVE  outbox!Send(r)
  <2>1. r \in 1..produced /\ UNCHANGED <<produced, lostToKill>> /\ sent' = sent \cup {r}
    BY <1>1 DEF LiveSent, Delivered, NumbersOK, Accepted
  <2>2. Kept = live \cup AheadOf(indexes, lines) /\ Kept' = (live \ {r}) \cup AheadOf(indexes, lines)
    BY <1>1, KeptUp, KeptUpNext DEF LiveSent
  <2>3. Kept' \in {Kept, Kept \ {r}}
    BY <1>1, <2>2 DEF LiveSent
  <2> QED
    BY <2>1, <2>3 DEF outbox!Send, Kept
<1>2. ASSUME NEW s \in Sessions, SendReturnsTrue(s)
      PROVE  \E r \in Records : outbox!Send(r)
  <2> DEFINE r == Head(buffer[s])
  <2>1. buffer[s] \in Seq(Records) /\ buffer[s] # <<>>
    BY <1>2 DEF SendReturnsTrue, IInv, SendingOK, TypeOK, LocalTypeOK
  <2>2. 1 \in DOMAIN buffer[s] /\ r = buffer[s][1] /\ r \in Records
    BY <2>1, HeadTailProperties, LenProperties, EmptySeq
  <2>3. r \in 1..produced /\ UNCHANGED <<produced, lostToKill>> /\ sent' = sent \cup {r}
    BY <1>2, <2>2 DEF SendReturnsTrue, Delivered, NumbersOK, Accepted
  <2>4. Kept' = Kept
    BY <1>2, KeptUp, KeptUpNext DEF SendReturnsTrue
  <2> HIDE DEF r
  <2>5. outbox!Send(r)
    BY <2>3, <2>4 DEF outbox!Send, Kept
  <2> QED
    BY <2>2, <2>5
<1> QED
  BY <1>1, <1>2

(* An acknowledgement lets go of sent batches.                             *)
LEMMA OutboxForgets ==
  ASSUME IInv, PositionInv, PositionInv', NEW s \in Sessions, RunAck(s), UNCHANGED transmitVars
  PROVE  outbox!Forget
<1>0. /\ TypeOK /\ lines \in [Files -> Seq(Records)] /\ indexes \in Seq(SensorIndex)
  BY DEF IInv, TypeOK, LocalTypeOK
<1>1. /\ DOMAIN indexes' = DOMAIN indexes
      /\ \A i \in DOMAIN indexes :
           /\ indexes'[i].location = indexes[i].location
           /\ indexes'[i].position \in Nat /\ indexes[i].position <= indexes'[i].position
  <2>1. PendingOK(indexes, lines)
    BY DEF PositionInv, ListsOK, ListOK
  <2>2. \A c : AckFromBegin(c) =>
           /\ DOMAIN indexes' = DOMAIN indexes
           /\ \A i \in DOMAIN indexes :
                /\ indexes'[i].location = indexes[i].location
                /\ indexes'[i].position \in Nat /\ indexes[i].position <= indexes'[i].position
    BY <1>0, <2>1, AckMoves
  <2> QED
    BY <2>2 DEF RunAck
<1>2. UNCHANGED <<lines, produced, sent, live, lostToKill>> /\ step # "down" /\ step' # "down"
  BY DEF RunAck, diskVars, transmitVars, historyVars
<1>3. SentOK(indexes', lines, sent)
  BY <1>2 DEF PositionInv, ListsOK, ListOK, SentOK
<1>4. /\ AheadOf(indexes', lines) \subseteq AheadOf(indexes, lines)
      /\ AheadOf(indexes, lines) \subseteq AheadOf(indexes', lines) \cup sent
  BY <1>0, <1>1, <1>3, AheadMoved
<1>5. Kept' \subseteq Kept /\ Kept \ Kept' \subseteq sent
  BY <1>2, <1>4, KeptUp, KeptUpNext
<1> QED
  BY <1>2, <1>5 DEF outbox!Forget, Kept

(* A kill takes what is in memory, and everything if it leaves index.json  *)
(* truncated; otherwise the next launch finds all the lines not            *)
(* acknowledged, and with them some that were sent.                        *)
LEMMA OutboxCrashes ==
  ASSUME IInv, PositionInv, JsonOK, NumbersOK, NumbersOK', Kill
  PROVE  outbox!Crash
<1>0. /\ TypeOK /\ lines \in [Files -> Seq(Records)] /\ indexes \in Seq(SensorIndex)
      /\ indexJson \in Seq(SensorIndex) /\ launch \in Nat
  BY DEF IInv, TypeOK, LocalTypeOK
<1>1. /\ step # "down" /\ step' = "down" /\ live' = {}
      /\ UNCHANGED <<launch, files, lines, indexJson, indexTorn, produced, sent>>
      /\ lostToKill' = lostToKill \cup live \cup (IF indexTorn THEN StoredIn(files) ELSE {})
  BY DEF Kill, LocalKill, diskVars
<1>2. lostToKill' \subseteq 1..produced /\ lostToKill \subseteq lostToKill'
  BY <1>1 DEF NumbersOK, Accepted
<1>3. Kept = live \cup AheadOf(indexes, lines)
  BY <1>1, KeptUp
<1>4. Kept \ Kept' \subseteq sent \cup lostToKill' /\ Kept' \ Kept \subseteq sent
  <2>1. CASE indexTorn
    <3>1. AheadOf(indexes, lines) \subseteq StoredIn(files)
      <4>1. ASSUME NEW x \in AheadOf(indexes, lines)
            PROVE  x \in StoredIn(files)
        <5>1. PICK i \in DOMAIN indexes :
                \E n \in (indexes[i].position + 1)..Len(lines[indexes[i].location]) :
                  x = lines[indexes[i].location][n]
          BY AheadFacts
        <5>2. PICK n \in (indexes[i].position + 1)..Len(lines[indexes[i].location]) :
                x = lines[indexes[i].location][n]
          BY <5>1
        <5>3. indexes[i].location \in files /\ indexes[i].location \in Files
              /\ indexes[i].position \in Nat
          BY <1>0, ListTypes DEF IInv, AllExist
        <5>4. n \in DOMAIN lines[indexes[i].location]
          BY <1>0, <5>2, <5>3, LineTypes
        <5> QED
          BY <5>2, <5>3, <5>4 DEF StoredIn
      <4> QED
        BY <4>1
    <3>2. Kept' = {}
      BY <1>1, <2>1, KeptUpNext
    <3> QED
      BY <1>1, <1>3, <2>1, <3>1, <3>2
  <2>2. CASE ~indexTorn
    <3>1. AheadOf(indexes, lines) \subseteq AheadOf(indexJson, lines)
      <4>1. ASSUME NEW x \in AheadOf(indexes, lines)
            PROVE  x \in AheadOf(indexJson, lines)
        <5>1. PICK i \in DOMAIN indexes :
                \E n \in (indexes[i].position + 1)..Len(lines[indexes[i].location]) :
                  x = lines[indexes[i].location][n]
          BY AheadFacts
        <5>2. PICK n \in (indexes[i].position + 1)..Len(lines[indexes[i].location]) :
                x = lines[indexes[i].location][n]
          BY <5>1
        <5>3. indexes[i].position \in Nat /\ indexes[i].location \in Files
          BY <1>0, ListTypes
        <5>4. ~(Registering /\ indexes[i].location = launch)
          <6> SUFFICES ASSUME Registering, indexes[i].location = launch PROVE FALSE
            OBVIOUS
          <6>1. lines[indexes[i].location] = <<>>
            BY DEF PositionInv, Fresh
          <6> QED
            BY <5>2, <5>3, <6>1
        <5>5. PICK j \in DOMAIN indexJson :
                /\ indexJson[j].location = indexes[i].location
                /\ indexJson[j].position <= indexes[i].position
          BY <2>2, <5>4 DEF JsonOK, Listed
        <5>6. indexJson[j].position \in Nat /\ Len(lines[indexes[i].location]) \in Nat
          BY <1>0, <5>3, ListTypes, LineTypes
        <5>7. n \in (indexJson[j].position + 1)..Len(lines[indexJson[j].location])
          BY <5>2, <5>3, <5>5, <5>6
        <5> QED
          BY <5>2, <5>5, <5>7, AheadFacts
      <4> QED
        BY <4>1
    <3>2. Kept' = AheadOf(indexJson, lines)
      BY <1>1, <2>2, KeptUpNext
    <3>3. AheadOf(indexJson, lines) \subseteq AheadOf(indexes, lines) \cup sent
      BY <1>1, <2>2 DEF JsonOK
    <3> QED
      BY <1>1, <1>3, <3>1, <3>2, <3>3
  <2> QED
    BY <2>1, <2>2
<1> QED
  BY <1>1, <1>2, <1>4 DEF outbox!Crash, Kept

(* A launch takes the index up; a new data file holds nothing.             *)
LEMMA OutboxLaunches ==
  ASSUME IInv, PositionInv, InitStep
  PROVE  UNCHANGED outbox!outboxVars
<1>0. /\ TypeOK /\ lines \in [Files -> Seq(Records)] /\ indexes \in Seq(SensorIndex)
      /\ indexJson \in Seq(SensorIndex)
  BY DEF IInv, TypeOK, LocalTypeOK
<1>1. UNCHANGED <<produced, live, sent, lostToKill>>
  BY DEF InitStep, transmitVars, historyVars
<1>2. CASE LaunchAfterTornIndex
  <2>1. AheadOf(<<>>, lines) = {}
    BY DEF AheadOf, RangeOf
  <2>2. step = "down" /\ indexTorn /\ step' # "down" /\ indexes' = <<>> /\ lines' = lines
    BY <1>2 DEF LaunchAfterTornIndex, StoreIndexContext
  <2> QED
    BY <1>1, <2>1, <2>2, KeptUp, KeptUpNext, OutboxStutters
<1>3. CASE LaunchWithIndex
  <2>1. step = "down" /\ ~indexTorn /\ step' # "down" /\ indexes' = indexJson /\ lines' = lines
    BY <1>3 DEF LaunchWithIndex
  <2> QED
    BY <1>1, <2>1, KeptUp, KeptUpNext, OutboxStutters
<1>4. CASE RegisterDataFile
  <2> DEFINE e == [location |-> launch, position |-> 0, pending |-> 0, isEnd |-> FALSE]
  <2>1. /\ step = "register" /\ step' # "down" /\ lines' = lines
        /\ indexes' = Append(indexes, e) /\ Registering
    BY <1>4 DEF RegisterDataFile, StoreIndexContext, Registering
  <2>2. e \in SensorIndex /\ e.location = launch /\ e.position = 0 /\ launch \in Files
    BY <2>1 DEF IInv, Ordered, SensorIndex
  <2>3. lines[launch] = <<>>
    BY <2>1 DEF PositionInv, Fresh
  <2> HIDE DEF e
  <2>4. /\ \A i \in DOMAIN indexes : i \in DOMAIN indexes' /\ indexes'[i] = indexes[i]
        /\ \A i \in DOMAIN indexes' : i \in DOMAIN indexes \/ indexes'[i] = e
    <3>1. /\ Len(indexes) \in Nat /\ DOMAIN indexes = 1..Len(indexes)
          /\ DOMAIN indexes' = 1..(Len(indexes) + 1)
          /\ \A i \in DOMAIN indexes : indexes'[i] = indexes[i]
          /\ indexes'[Len(indexes) + 1] = e
      BY <1>0, <2>1, <2>2, AppendProperties, LenProperties
    <3>2. \A i \in DOMAIN indexes' : i \in DOMAIN indexes \/ i = Len(indexes) + 1
      BY <3>1
    <3> QED
      BY <3>1, <3>2
  <2>5. \A x : x \in AheadOf(indexes', lines) <=> x \in AheadOf(indexes, lines)
    <3>1. ASSUME NEW x \in AheadOf(indexes', lines)
          PROVE  x \in AheadOf(indexes, lines)
      <4>1. PICK i \in DOMAIN indexes' :
              \E n \in (indexes'[i].position + 1)..Len(lines[indexes'[i].location]) :
                x = lines[indexes'[i].location][n]
        BY AheadFacts
      <4>2. indexes'[i] # e
        <5> SUFFICES ASSUME indexes'[i] = e PROVE FALSE
          OBVIOUS
        <5>1. \E n : n \in 1..Len(lines[launch])
          BY <2>2, <4>1
        <5> QED
          BY <2>3, <5>1
      <4> QED
        BY <2>4, <4>1, <4>2, AheadFacts
    <3>2. ASSUME NEW x \in AheadOf(indexes, lines)
          PROVE  x \in AheadOf(indexes', lines)
      <4>1. PICK i \in DOMAIN indexes :
              \E n \in (indexes[i].position + 1)..Len(lines[indexes[i].location]) :
                x = lines[indexes[i].location][n]
        BY AheadFacts
      <4> QED
        BY <2>4, <4>1, AheadFacts
    <3> QED
      BY <3>1, <3>2
  <2>6. AheadOf(indexes', lines') = AheadOf(indexes, lines)
    BY <2>1, <2>5
  <2> QED
    BY <1>1, <2>1, <2>6, KeptUp, KeptUpNext, OutboxStutters
<1> QED
  BY <1>2, <1>3, <1>4 DEF InitStep

(* Storing the index, removing what is acknowledged and getting to the end *)
(* of a file leave the batches alone.                                      *)
LEMMA OutboxIndexSteps ==
  ASSUME IInv, EndsOK, IndexStep \/ \E s \in Sessions : EndFile(s) /\ UNCHANGED transmitVars
  PROVE  UNCHANGED outbox!outboxVars
<1>0. /\ TypeOK /\ lines \in [Files -> Seq(Records)] /\ indexes \in Seq(SensorIndex)
  BY DEF IInv, TypeOK, LocalTypeOK
<1>1. /\ UNCHANGED <<produced, live, sent, lostToKill, lines>>
      /\ step # "down" /\ step' # "down"
  BY DEF IndexStep, TruncateIndex, WriteIndex, RemoveFirstIndex, DeleteDataFile, FinalStore,
         ReleaseLock, StoreIndexContext, EndFile, transmitVars, historyVars, diskVars, sectionVars,
         IInv, Continuation
<1>2. AheadOf(indexes', lines) = AheadOf(indexes, lines)
  <2>1. ASSUME NEW s \in Sessions, EndFile(s)
        PROVE  AheadOf(indexes', lines) = AheadOf(indexes, lines)
    <3>1. /\ DOMAIN indexes' = DOMAIN indexes
          /\ \A i \in DOMAIN indexes :
               /\ indexes'[i].location = indexes[i].location
               /\ indexes'[i].position = indexes[i].position
      BY <2>1, EndFileFacts DEF SamePlaces
    <3> QED
      BY <3>1, AheadSame
  <2>2. CASE RemoveFirstIndex
    <3>1. /\ indexes # <<>> /\ indexes' = Tail(indexes) /\ FirstIsAcked
      BY <2>2 DEF RemoveFirstIndex, IInv, CurrentFileKept, Initialised
    <3>2. Len(lines[indexes[1].location]) <= indexes[1].position
      <4>1. 1 \in DOMAIN indexes
        BY <1>0, <3>1, ListTypes, EmptySeq
      <4> QED
        BY <3>1, <4>1 DEF FirstIsAcked, EndsOK, EndOK
    <3> QED
      BY <1>0, <3>1, <3>2, AheadTail
  <2>3. CASE TruncateIndex \/ WriteIndex \/ DeleteDataFile \/ FinalStore \/ ReleaseLock
    <3>1. indexes' = indexes
      BY <2>3 DEF TruncateIndex, WriteIndex, DeleteDataFile, FinalStore, ReleaseLock
    <3> QED
      BY <3>1
  <2> QED
    BY <2>1, <2>2, <2>3 DEF IndexStep
<1> QED
  BY <1>1, <1>2, KeptUp, KeptUpNext, OutboxStutters

(* Every step is one of the outbox.                                        *)
LEMMA OutboxNext ==
  ASSUME DeliveryInv, DeliveryInv', CleanInv, CleanInv', Clean, [Next]_vars
  PROVE  [outbox!Next]_(outbox!outboxVars)
<1> USE DEF localVars, diskVars, loadVars, sectionVars, sessionVars, historyVars, transmitVars
<1>0. /\ IInv /\ PositionInv /\ PositionInv' /\ NoFailure /\ EndsOK /\ JsonOK /\ NumbersOK /\ NumbersOK'
      /\ SendOutcomes = {"true"}
  BY DEF DeliveryInv, CleanInv, Clean
<1>1. ASSUME UNCHANGED <<lines, indexes, produced, live, sent, lostToKill>>,
             step # "down", step' # "down"
      PROVE  UNCHANGED outbox!outboxVars
  BY <1>1, KeptUp, KeptUpNext, OutboxStutters
<1>2. CASE TransmitOffline \/ TransmitOnline
  BY <1>0, <1>2, OutboxAccepts DEF outbox!Next
<1>3. CASE \E r \in Records : LiveSent(r) \/ LiveFailed(r)
  <2>1. \E r \in Records : LiveSent(r)
    BY <1>0, <1>3 DEF LiveFailed
  <2> QED
    BY <1>0, <2>1, OutboxSends DEF outbox!Next
<1>4. CASE DisableNetwork \/ EnableWithoutReceiver
  BY <1>1, <1>4 DEF DisableNetwork, EnableWithoutReceiver
<1>5. ASSUME NEW s \in Sessions,
             \/ EnableNetwork(s) \/ StartPass(s) \/ StartSend(s) \/ EndPass(s)
             \/ (LoadStart(s) \/ ReadLine(s)) /\ UNCHANGED transmitVars
      PROVE  UNCHANGED outbox!outboxVars
  BY <1>1, <1>5 DEF EnableNetwork, StartPass, LoadFromBegin, StartSend, EndPass, CallAck, RunOrWait,
     LoadStart, ReadLine
<1>6. ASSUME NEW s \in Sessions, SendEnds(s) \/ FailPass(s)
      PROVE  outbox!Next
  <2>1. SendReturnsTrue(s)
    BY <1>0, <1>6 DEF SendEnds, SendReturnsFalse, SendThrows, FailPass, NoFailure
  <2> QED
    BY <1>0, <2>1, OutboxSends DEF outbox!Next
<1>7. ASSUME NEW s \in Sessions, AckStep(s)
      PROVE  outbox!Next
  <2>1. RunAck(s)
    <3>1. lockQ # <<>> => 1 \in DOMAIN lockQ
      BY <1>0, QueueTypes DEF IInv
    <3> QED
      BY <1>0, <1>7, <3>1 DEF AckStep, RunNAck, HoldsLock, NoFailure
  <2> QED
    BY <1>0, <1>7, <2>1, OutboxForgets DEF outbox!Next, AckStep
<1>8. CASE IndexStep \/ \E s \in Sessions : EndFile(s) /\ UNCHANGED transmitVars
  BY <1>0, <1>8, OutboxIndexSteps
<1>9. CASE InitStep
  BY <1>0, <1>9, OutboxLaunches
<1>10. CASE Kill
  BY <1>0, <1>10, OutboxCrashes DEF outbox!Next
<1>11. CASE UNCHANGED vars
  <2>1. Kept' = Kept
    BY <1>11 DEF vars, Kept, Held, Ahead, RangeOf
  <2> QED
    BY <1>11, <2>1, OutboxStutters DEF vars
<1> QED
  BY <1>2, <1>3, <1>4, <1>5, <1>6, <1>7, <1>8, <1>9, <1>10, <1>11
  DEF Next, LoadStep, SessionStep, AckStep

LEMMA OutboxInit == Init => outbox!Init
<1> SUFFICES ASSUME Init PROVE outbox!Init
  OBVIOUS
<1>1. 1..produced = {} /\ live = {} /\ sent = {} /\ lostToKill = {} /\ step = "down" /\ indexTorn
  BY DEF Init, LocalInit
<1> QED
  BY <1>1 DEF outbox!Init

(* With sends that succeed the store, its index and the sessions implement *)
(* the abstract outbox: it lets go of a batch only once it has been sent,  *)
(* and a kill takes what it is charged with and brings back sent batches   *)
(* only.                                                                   *)
THEOREM StoreIsOutbox == Clean /\ Spec => ImplementsOutbox
<1> SUFFICES ASSUME Clean PROVE Spec => ImplementsOutbox
  OBVIOUS
<1>1. Spec => [](DeliveryInv /\ CleanInv)
  BY CleanInvariance
<1>2. (DeliveryInv /\ CleanInv) /\ (DeliveryInv /\ CleanInv)' /\ [Next]_vars
        => [outbox!Next]_(outbox!outboxVars)
  BY OutboxNext
<1> QED
  BY OutboxInit, <1>1, <1>2, PTL DEF Spec, ImplementsOutbox, outbox!Spec

(* The abstract invariant holds of every behaviour of the outbox.          *)
LEMMA Accounted ==
  /\ outbox!Init => outbox!NothingUnaccounted
  /\ outbox!NothingUnaccounted /\ [outbox!Next]_(outbox!outboxVars) => outbox!NothingUnaccounted'
<1>1. outbox!Init => outbox!NothingUnaccounted
  BY DEF outbox!Init, outbox!NothingUnaccounted
<1>2. ASSUME outbox!NothingUnaccounted, [outbox!Next]_(outbox!outboxVars)
      PROVE  outbox!NothingUnaccounted'
  <2>1. Accepted \subseteq Kept \cup sent \cup lostToKill
    BY <1>2 DEF outbox!NothingUnaccounted, Kept, Accepted
  <2>2. ASSUME NEW r \in Records, outbox!Accept(r) \/ outbox!Send(r)
        PROVE  Accepted' \subseteq Kept' \cup sent' \cup lostToKill'
    BY <2>1, <2>2 DEF outbox!Accept, outbox!Send, Kept, Accepted
  <2>3. CASE outbox!Forget \/ outbox!Crash
    BY <2>1, <2>3 DEF outbox!Forget, outbox!Crash, outbox!NothingUnaccounted,
     Kept, Accepted
  <2>4. CASE UNCHANGED outbox!outboxVars
    BY <2>1, <2>4 DEF outbox!outboxVars, outbox!NothingUnaccounted, Kept, Accepted
  <2>5. Accepted' \subseteq Kept' \cup sent' \cup lostToKill'
    BY <1>2, <2>2, <2>3, <2>4 DEF outbox!Next, outbox!NothingUnaccounted, Kept, Accepted
  <2> QED
    BY <2>5 DEF outbox!NothingUnaccounted, Kept, Accepted
<1> QED
  BY <1>1, <1>2

(* With sends that succeed a batch has been sent, is being sent, is held   *)
(* by the store for a later load, or went down with a killed process or    *)
(* with an index.json that a kill left truncated.                          *)
THEOREM NothingLost == Clean /\ Spec => []NoLoss
<1> SUFFICES ASSUME Clean PROVE Spec => []NoLoss
  OBVIOUS
<1>1. Spec => outbox!Spec
  BY StoreIsOutbox DEF ImplementsOutbox
<1>2. outbox!NothingUnaccounted => NoLoss
  BY DEF outbox!NothingUnaccounted, NoLoss
<1> QED
  BY <1>1, <1>2, Accounted, PTL DEF outbox!Spec

-----------------------------------------------------------------------------
(* The first launch sends no batch twice.                                  *)

(* A load is that of a session at work; without a load no line is read.    *)
LoadsOK ==
  /\ \A j \in DOMAIN lockQ : lockQ[j].kind = "load" => Active(lockQ[j].by)
  /\ cursor.file = 0 => cursor.read = 0

(* A record is stored once or sent at once, and sent after it was          *)
(* produced.                                                               *)
Distinct ==
  /\ sent \subseteq Accepted /\ live \cap sent = {}
  /\ \A f \in Files : \A n \in DOMAIN lines[f] :
       /\ lines[f][n] \notin live
       /\ \A m \in DOMAIN lines[f] : lines[f][m] = lines[f][n] => m = n

(* No line of the launch's file past n was sent.                           *)
SentTo(n) == \A m \in DOMAIN lines[launch] : lines[launch][m] \in sent => m <= n

(* A pass of session s has received lines of index i from its position on, *)
(* in order: counter[s] were sent, the others are in its stream.           *)
Received(i, s) ==
  LET p == indexes[i].position + counter[s]
  IN  /\ indexes[i].pending + cursor.read = p + Len(buffer[s])
      /\ p + Len(buffer[s]) <= Size(i)
      /\ \A b \in DOMAIN buffer[s] : buffer[s][b] = lines[launch][p + b]
      /\ SentTo(p)

Receiving(s) == InPass(s) /\ Begun

(* What is pending is what the session at work has received or is being    *)
(* acknowledged.                                                           *)
DrainOK(i) ==
  /\ cursor.file # 0 =>
       cursor.from = indexes[i].position /\ indexes[i].pending = indexes[i].position
  /\ \A s \in Sessions : Receiving(s) => Received(i, s)
  /\ step = "run" =>
       /\ indexes[i].pending = indexes[i].position + lockQ[1].count
       /\ SentTo(indexes[i].pending)
  /\ step # "run" /\ (\A s \in Sessions : ~Receiving(s)) =>
       indexes[i].pending = indexes[i].position /\ SentTo(indexes[i].position)

FirstOK ==
  /\ resent = {} /\ Distinct
  /\ step # "down" => \A i \in DOMAIN indexes : DrainOK(i)

OnceInv == LoadsOK /\ (launch <= 1 => FirstOK)

(* A launch that is the first has one data file at most, which is its own. *)
LEMMA FirstFile ==
  ASSUME IInv, QueueInv, EndsOK, launch <= 1, NEW i \in DOMAIN indexes
  PROVE  /\ i = 1 /\ Len(indexes) = 1 /\ DOMAIN indexes = {1} /\ ~indexes[i].isEnd
         /\ launch = 1 /\ indexes[i].location = launch /\ launch \in Files
         /\ indexes[i].position \in Nat /\ indexes[i].pending \in Nat
         /\ lines[launch] \in Seq(Records) /\ Size(i) = Len(lines[launch]) /\ Size(i) \in Nat
         /\ DOMAIN lines[launch] = 1..Size(i)
<1>1. /\ indexes \in Seq(SensorIndex) /\ lines \in [Files -> Seq(Records)] /\ launch \in Nat
  BY LaunchesAssumption DEF IInv, TypeOK, LocalTypeOK
<1>2. /\ Len(indexes) \in Nat /\ DOMAIN indexes = 1..Len(indexes)
      /\ \A j \in DOMAIN indexes :
           /\ indexes[j].location \in Files /\ indexes[j].location \in Nat
           /\ indexes[j].position \in Nat /\ indexes[j].pending \in Nat
  BY <1>1, ListTypes
<1>3. \A j \in DOMAIN indexes : indexes[j].location = 1 /\ launch = 1
  BY <1>1, <1>2 DEF IInv, Ordered, Files
<1>4. \A j \in DOMAIN indexes : j = 1
  <2> SUFFICES ASSUME NEW j \in DOMAIN indexes, j # 1 PROVE FALSE
    OBVIOUS
  <2>1. 1 \in DOMAIN indexes /\ 1 < j
    BY <1>2
  <2> QED
    BY <1>3, <2>1 DEF IInv, Ordered, Increasing
<1>5. i = 1 /\ Len(indexes) = 1 /\ DOMAIN indexes = {1}
  <2>1. Len(indexes) >= 1
    BY <1>2
  <2>2. Len(indexes) \in DOMAIN indexes
    BY <1>2, <2>1
  <2> QED
    BY <1>2, <1>4, <2>2
<1>6. ~indexes[i].isEnd
  BY <1>3 DEF EndsOK, EndOK
<1> QED
  BY <1>1, <1>2, <1>3, <1>5, <1>6, LineTypes DEF Size

(* The steps of sessions that neither read, send nor acknowledge.          *)
LEMMA DrainFrame ==
  ASSUME OnceInv,
         UNCHANGED <<launch, produced, lines, indexes, live, sent, resent, cursor, buffer, counter>>,
         step # "down", step # "run", step' # "run",
         \A s \in Sessions : Receiving(s)' <=> Receiving(s),
         LoadsOK'
  PROVE  OnceInv'
<1>1. Distinct' <=> Distinct
  BY DEF Distinct, Accepted
<1>2. ASSUME NEW i \in DOMAIN indexes, DrainOK(i)
      PROVE  DrainOK(i)'
  BY <1>2 DEF DrainOK, Received, SentTo, Size
<1> QED
  BY <1>1, <1>2 DEF OnceInv, FirstOK

(* A load is enqueued by a session that is at work until the load is over. *)
LEMMA LoadsNext ==
  ASSUME IInv, QueueInv, NoFailure, LoadsOK, Clean, [Next]_vars
  PROVE  LoadsOK'
<1> USE DEF localVars, diskVars, loadVars, sectionVars, sessionVars, historyVars, transmitVars
<1>0. TypeOK /\ pc \in [Sessions -> PC]
  BY DEF IInv, TypeOK, LocalTypeOK
<1>1. ASSUME UNCHANGED <<cursor, lockQ>>, \A s \in Sessions : Active(s) => Active(s)'
      PROVE  LoadsOK'
  <2>1. \A j \in DOMAIN lockQ : lockQ[j].by \in Sessions
    BY <1>0, QueueTypes
  <2> QED
    BY <1>1, <2>1 DEF LoadsOK
<1>2. ASSUME lockQ # <<>>, lockQ' = Tail(lockQ), pc' = pc, cursor' = cursor \/ cursor' = NoLoad
      PROVE  LoadsOK'
  <2>1. \A j \in DOMAIN lockQ' : j + 1 \in DOMAIN lockQ /\ lockQ'[j] = lockQ[j + 1]
    BY <1>0, <1>2, DequeueFacts
  <2> QED
    BY <1>2, <2>1 DEF LoadsOK, Active, NoLoad
<1>3. ASSUME NEW s \in Sessions, NEW kind \in {"load", "ack"}, NEW n \in Nat, Enqueue(kind, s, n),
             cursor' = cursor, kind = "load" => Active(s)',
             \A j \in DOMAIN lockQ : lockQ[j].kind = "load" => pc'[lockQ[j].by] \notin {"idle", "done"}
      PROVE  LoadsOK'
  <2>1. /\ DOMAIN lockQ' = 1..(Len(lockQ) + 1)
        /\ \A j \in DOMAIN lockQ : lockQ'[j] = lockQ[j]
        /\ lockQ'[Len(lockQ) + 1] = [kind |-> kind, by |-> s, count |-> n]
    BY <1>0, <1>3, EnqueueFacts
  <2>2. \A j \in DOMAIN lockQ' : j \in DOMAIN lockQ \/ j = Len(lockQ) + 1
    BY <1>0, <2>1, QueueTypes
  <2> QED
    BY <1>3, <2>1, <2>2 DEF LoadsOK, Active
<1>4. CASE TransmitOffline \/ TransmitOnline \/ DisableNetwork \/ EnableWithoutReceiver
           \/ (\E r \in Records : LiveSent(r) \/ LiveFailed(r)) \/ InitStep \/ UNCHANGED vars
  BY <1>1, <1>4 DEF TransmitOffline, TransmitOnline, DisableNetwork, EnableWithoutReceiver,
     LiveSent, LiveFailed, StoreToEnd,
     InitStep, LaunchAfterTornIndex, LaunchWithIndex, RegisterDataFile, vars, Active
<1>5. ASSUME NEW s \in Sessions, EnableNetwork(s) \/ StartSend(s) \/ SendEnds(s) \/ FailPass(s)
      PROVE  LoadsOK'
  <2>1. \A t \in Sessions : Active(t) => Active(t)'
    BY <1>0, <1>5 DEF EnableNetwork, StartSend, SendEnds, SendReturnsTrue, SendReturnsFalse,
       SendThrows, FailPass, Clean, NoFailure, Active
  <2> QED
    BY <1>1, <1>5, <2>1 DEF EnableNetwork, StartSend, SendEnds, SendReturnsTrue, SendReturnsFalse,
       SendThrows, FailPass, Clean, NoFailure
<1>6. ASSUME NEW s \in Sessions, StartPass(s)
      PROVE  LoadsOK'
  <2>1. \A t \in Sessions : Active(t) => Active(t)'
    BY <1>0, <1>6 DEF StartPass, Active
  <2>2. Active(s)' /\ Enqueue("load", s, 0) /\ cursor' = cursor
    BY <1>0, <1>6 DEF StartPass, LoadFromBegin, Active
  <2>3. \A j \in DOMAIN lockQ : lockQ[j].by \in Sessions
    BY <1>0, QueueTypes
  <2>4. \A j \in DOMAIN lockQ : lockQ[j].kind = "load" => pc'[lockQ[j].by] \notin {"idle", "done"}
    BY <2>1, <2>3 DEF LoadsOK, Active
  <2> QED
    BY <1>3, <2>2, <2>4
<1>7. ASSUME NEW s \in Sessions, EndPass(s)
      PROVE  LoadsOK'
  <2>1. lockQ = <<>> /\ Enqueue("ack", s, counter[s]) /\ cursor' = cursor /\ counter[s] \in Nat
    BY <1>0, <1>7, PassEndsAlone DEF EndPass, CallAck, TypeOK
  <2>2. DOMAIN lockQ = {}
    BY <2>1
  <2> QED
    BY <1>3, <2>1, <2>2
<1>8. ASSUME NEW s \in Sessions, LoadStart(s) \/ ReadLine(s) \/ EndFile(s), UNCHANGED transmitVars
      PROVE  LoadsOK'
  <2>1. lockQ # <<>> /\ cursor \in [file : Nat, from : Nat, read : Nat, total : Nat, terminated : BOOLEAN]
    BY <1>0, <1>8 DEF LoadStart, ReadLine, EndFile, HoldsLock, TypeOK, LocalTypeOK
  <2>2. CASE LoadStart(s) \/ ReadLine(s)
    <3>1. ASSUME LoadStart(s)
          PROVE  lockQ' = lockQ /\ cursor'.file # 0
      BY <3>1 DEF LoadStart, OpenFile
    <3>2. ASSUME ReadLine(s)
          PROVE  lockQ' = lockQ /\ cursor'.file # 0
      <4>1. cursor.file # 0 /\ cursor'.file = cursor.file /\ lockQ' = lockQ
        BY <2>1, <3>2 DEF ReadLine
      <4> QED
        BY <4>1
    <3>3. lockQ' = lockQ /\ cursor'.file # 0
      BY <2>2, <3>1, <3>2
    <3> QED
      BY <1>8, <3>3 DEF LoadsOK, Active
  <2>3. CASE EndFile(s) /\ IsLast(cursor.file)
    BY <1>2, <1>8, <2>1, <2>3 DEF EndFile
  <2>4. CASE EndFile(s) /\ ~IsLast(cursor.file)
    <3>1. lockQ' = lockQ /\ cursor'.read = 0
      BY <2>4 DEF EndFile, OpenFile
    <3> QED
      BY <1>8, <3>1 DEF LoadsOK, Active
  <2> QED
    BY <1>8, <2>2, <2>3, <2>4
<1>9. ASSUME NEW s \in Sessions, AckStep(s)
      PROVE  LoadsOK'
  BY <1>1, <1>9 DEF AckStep, RunAck, RunNAck, Active
<1>10. CASE IndexStep
  <2>1. CASE ReleaseLock
    BY <1>2, <1>10, <2>1 DEF IndexStep, ReleaseLock, IInv, LockOK, UnderLock
  <2> QED
    BY <1>1, <1>10, <2>1 DEF IndexStep, TruncateIndex, WriteIndex, RemoveFirstIndex, DeleteDataFile,
       FinalStore, Active
<1>11. CASE Kill
  BY <1>11 DEF Kill, LocalKill, LoadsOK, NoLoad
<1> QED
  BY <1>4, <1>5, <1>6, <1>7, <1>8, <1>9, <1>10, <1>11 DEF Next, LoadStep, SessionStep

(* Steps that leave the store, the queue and the passes alone, and send no *)
(* line of it.                                                             *)
LEMMA DrainSame ==
  ASSUME NEW i \in DOMAIN indexes, DrainOK(i),
         UNCHANGED <<launch, lines, indexes, lockQ, cursor, buffer, counter, pc, step>>,
         \A m \in DOMAIN lines[launch] : lines[launch][m] \in sent' => lines[launch][m] \in sent
  PROVE  DrainOK(i)'
<1>1. \A n : SentTo(n) => SentTo(n)'
  BY DEF SentTo
<1>2. \A s \in Sessions : Receiving(s)' <=> Receiving(s)
  BY DEF Receiving, InPass, Begun
<1>3. \A s \in Sessions : Received(i, s) => Received(i, s)'
  <2>1. ASSUME NEW s \in Sessions, Received(i, s)
        PROVE  SentTo(indexes[i].position + counter[s])'
    <3>1. SentTo(indexes[i].position + counter[s])
      BY <2>1 DEF Received
    <3> QED
      BY <3>1 DEF SentTo
  <2> QED
    BY <2>1 DEF Received, Size
<1>4. /\ SentTo(indexes[i].pending) => SentTo(indexes[i].pending)'
      /\ SentTo(indexes[i].position) => SentTo(indexes[i].position)'
  BY DEF SentTo
<1> QED
  BY <1>2, <1>3, <1>4 DEF DrainOK

(* A batch is stored: it is newer than all that were sent.                 *)
LEMMA OnceStored ==
  ASSUME IInv, QueueInv, CleanInv, OnceInv, LoadsOK', TransmitOffline
  PROVE  OnceInv'
<1> USE DEF localVars, diskVars, loadVars, sectionVars, sessionVars, historyVars
<1> SUFFICES ASSUME launch' <= 1 PROVE FirstOK'
  BY DEF OnceInv
<1>0. /\ TypeOK /\ produced \in Nat /\ lines \in [Files -> Seq(Records)]
      /\ counter \in [Sessions -> Nat] /\ buffer \in [Sessions -> Seq(Records)]
  BY RecordsAssumption DEF IInv, TypeOK, LocalTypeOK
<1>1. /\ launch \in Files /\ produced + 1 \in Records /\ produced' = produced + 1
      /\ lines' = [lines EXCEPT ![launch] = Append(@, produced + 1)]
      /\ step = "idle" /\ step' = "idle"
      /\ UNCHANGED <<launch, indexes, buffer, live, sent>>
  BY StoreFacts
<1>2. UNCHANGED <<lockQ, cursor, pc, counter, resent>>
  BY DEF TransmitOffline, StoreToEnd
<1>3. /\ \A f \in Files \ {launch} : lines'[f] = lines[f]
      /\ Len(lines'[launch]) = Len(lines[launch]) + 1 /\ Len(lines[launch]) \in Nat
      /\ \A n \in 1..Len(lines[launch]) : lines'[launch][n] = lines[launch][n]
      /\ lines'[launch][Len(lines[launch]) + 1] = produced + 1
      /\ DOMAIN lines'[launch] = 1..(Len(lines[launch]) + 1)
      /\ DOMAIN lines[launch] = 1..Len(lines[launch])
  BY <1>0, <1>1, AppendedLine, LineTypes
<1>4. \A n \in DOMAIN lines'[launch] : n \in DOMAIN lines[launch] \/ n = Len(lines[launch]) + 1
  BY <1>3
<1>5. launch <= 1 /\ FirstOK /\ NumbersOK
  BY <1>1 DEF OnceInv, CleanInv
<1>6. /\ produced + 1 \notin sent /\ produced + 1 \notin live
      /\ \A n \in DOMAIN lines[launch] : lines[launch][n] # produced + 1
      /\ Accepted \subseteq Accepted'
  BY <1>0, <1>1, <1>5 DEF FirstOK, Distinct, NumbersOK, Accepted
<1>7. Distinct'
  <2>1. \A f \in Files : \A n \in DOMAIN lines[f] :
           /\ lines[f][n] \notin live
           /\ \A m \in DOMAIN lines[f] : lines[f][m] = lines[f][n] => m = n
    BY <1>5 DEF FirstOK, Distinct
  <2>2. \A n \in DOMAIN lines'[launch] :
           /\ lines'[launch][n] \notin live
           /\ \A m \in DOMAIN lines'[launch] : lines'[launch][m] = lines'[launch][n] => m = n
    BY <1>1, <1>3, <1>4, <1>6, <2>1
  <2>3. \A f \in Files : \A n \in DOMAIN lines'[f] :
           /\ lines'[f][n] \notin live
           /\ \A m \in DOMAIN lines'[f] : lines'[f][m] = lines'[f][n] => m = n
    BY <1>3, <2>1, <2>2
  <2> QED
    BY <1>1, <1>5, <1>6, <2>3 DEF FirstOK, Distinct
<1>8. ASSUME NEW i \in DOMAIN indexes
      PROVE  DrainOK(i)'
  <2>1. DrainOK(i) /\ EndsOK
    BY <1>1, <1>5 DEF FirstOK, CleanInv
  <2>2. /\ indexes[i].location = launch /\ Size(i) = Len(lines[launch])
        /\ indexes[i].position \in Nat
    BY <1>5, <2>1, FirstFile
  <2>3. Size(i)' = Size(i) + 1
    BY <1>1, <1>3, <2>2 DEF Size
  <2>4. \A n : SentTo(n) => \A m \in DOMAIN lines'[launch] : lines'[launch][m] \in sent => m <= n
    BY <1>3, <1>4, <1>6 DEF SentTo
  <2>5. \A s \in Sessions : Receiving(s)' <=> Receiving(s)
    BY <1>2 DEF Receiving, InPass, Begun
  <2>6. ASSUME NEW s \in Sessions, Received(i, s)
        PROVE  Received(i, s)'
    <3> DEFINE p == indexes[i].position + counter[s]
    <3>1. p \in Nat /\ Len(buffer[s]) \in Nat /\ DOMAIN buffer[s] = 1..Len(buffer[s])
      BY <1>0, <2>2, LenProperties
    <3>2. /\ indexes[i].pending + cursor.read = p + Len(buffer[s])
          /\ p + Len(buffer[s]) <= Size(i)
          /\ \A b \in DOMAIN buffer[s] : buffer[s][b] = lines[launch][p + b]
          /\ SentTo(p)
      BY <2>6 DEF Received
    <3>3. \A b \in DOMAIN buffer[s] : p + b \in 1..Len(lines[launch])
      BY <1>3, <2>2, <3>1, <3>2
    <3>4. \A b \in DOMAIN buffer[s] : buffer[s][b] = lines'[launch][p + b]
      BY <1>3, <3>2, <3>3
    <3>5. \A m \in DOMAIN lines'[launch] : lines'[launch][m] \in sent => m <= p
      BY <2>4, <3>2
    <3>6. p + Len(buffer[s]) <= Size(i)'
      BY <1>3, <2>2, <2>3, <3>1, <3>2
    <3>7. /\ indexes'[i] = indexes[i] /\ counter'[s] = counter[s] /\ buffer'[s] = buffer[s]
          /\ cursor' = cursor /\ launch' = launch /\ sent' = sent
      BY <1>1, <1>2
    <3>8. SentTo(indexes[i].position + counter[s])'
      BY <3>5, <3>7 DEF SentTo
    <3> QED
      BY <3>2, <3>4, <3>6, <3>7, <3>8 DEF Received
  <2>7. /\ SentTo(indexes[i].pending) => SentTo(indexes[i].pending)'
        /\ SentTo(indexes[i].position) => SentTo(indexes[i].position)'
    BY <1>1, <2>4 DEF SentTo
  <2> QED
    BY <1>1, <1>2, <2>1, <2>5, <2>6, <2>7 DEF DrainOK
<1> QED
  BY <1>1, <1>2, <1>5, <1>7, <1>8 DEF FirstOK

(* A batch that is sent at once is in no file and was not sent before.     *)
LEMMA OnceLive ==
  ASSUME IInv, CleanInv, OnceInv, LoadsOK', TransmitOnline \/ \E r \in Records : LiveSent(r)
  PROVE  OnceInv'
<1> USE DEF localVars, diskVars, loadVars, sectionVars, sessionVars, historyVars
<1> SUFFICES ASSUME launch' <= 1 PROVE FirstOK'
  BY DEF OnceInv
<1>0. /\ produced \in Nat /\ step = "idle"
      /\ UNCHANGED <<launch, lines, indexes, lockQ, cursor, buffer, counter, pc, step>>
  BY RecordsAssumption DEF IInv, TypeOK, TransmitOnline, LiveSent
<1>1. FirstOK /\ NumbersOK
  BY <1>0 DEF OnceInv, CleanInv
<1>2. CASE TransmitOnline
  <2>1. live' = live \cup {produced + 1} /\ produced' = produced + 1 /\ UNCHANGED <<sent, resent>>
    BY <1>2 DEF TransmitOnline
  <2>2. /\ produced + 1 \notin sent /\ Accepted \subseteq Accepted'
        /\ \A f \in Files : \A n \in DOMAIN lines[f] : lines[f][n] # produced + 1
    BY <1>0, <1>1, <2>1 DEF FirstOK, Distinct, NumbersOK, Accepted
  <2>3. Distinct'
    BY <1>0, <1>1, <2>1, <2>2 DEF FirstOK, Distinct
  <2>4. \A i \in DOMAIN indexes : DrainOK(i)'
    BY <1>0, <1>1, <2>1, DrainSame DEF FirstOK
  <2> QED
    BY <1>0, <1>1, <2>1, <2>3, <2>4 DEF FirstOK
<1>3. ASSUME NEW r \in Records, LiveSent(r)
      PROVE  FirstOK'
  <2>1. /\ r \in live /\ live' = live \ {r} /\ sent' = sent \cup {r} /\ produced' = produced
        /\ resent' = resent \cup ({r} \cap sent)
    BY <1>3 DEF LiveSent, Delivered
  <2>2. r \notin sent /\ r \in Accepted /\ \A f \in Files : \A n \in DOMAIN lines[f] : lines[f][n] # r
    BY <1>1, <2>1 DEF FirstOK, Distinct, NumbersOK
  <2>3. Distinct'
    BY <1>0, <1>1, <2>1, <2>2 DEF FirstOK, Distinct, Accepted
  <2>4. launch \in Files
    BY <1>0, CurrentIsLast DEF Initialised
  <2>5. \A i \in DOMAIN indexes : DrainOK(i)'
    BY <1>0, <1>1, <2>1, <2>2, <2>4, DrainSame DEF FirstOK
  <2> QED
    BY <1>0, <1>1, <2>1, <2>2, <2>3, <2>5 DEF FirstOK
<1> QED
  BY <1>2, <1>3

(* The lines received are those of the launch's file from its index's      *)
(* position on, so the head of the stream is the line after those sent.    *)
LEMMA OnceSends ==
  ASSUME IInv, QueueInv, CleanInv, OnceInv, LoadsOK', NEW s \in Sessions, SendReturnsTrue(s)
  PROVE  OnceInv'
<1> USE DEF localVars, diskVars, loadVars, sectionVars, sessionVars, historyVars
<1> SUFFICES ASSUME launch' <= 1 PROVE FirstOK'
  BY DEF OnceInv
<1>0. /\ counter \in [Sessions -> Nat] /\ buffer \in [Sessions -> Seq(Records)]
      /\ pc \in [Sessions -> PC] /\ indexes \in Seq(SensorIndex)
  BY DEF IInv, TypeOK, LocalTypeOK
<1>1. /\ step = "idle" /\ pc[s] = "sending"
      /\ sent' = sent \cup {Head(buffer[s])} /\ resent' = resent \cup ({Head(buffer[s])} \cap sent)
      /\ buffer' = [buffer EXCEPT ![s] = Tail(@)]
      /\ pc' = [pc EXCEPT ![s] = "await"]
      /\ counter' = [counter EXCEPT ![s] = @ + 1]
      /\ UNCHANGED <<launch, lines, indexes, lockQ, cursor, step, produced, live>>
  BY DEF SendReturnsTrue, Delivered
<1>2. FirstOK /\ NumbersOK /\ EndsOK /\ launch <= 1
  BY <1>1 DEF OnceInv, CleanInv
<1>3. Receiving(s) /\ \A t \in Sessions : Receiving(t) => t = s
  BY <1>1 DEF QueueInv, SessionsOK, PassOK, Solo, Active, Receiving, InPass
<1>4. 1 \in DOMAIN indexes
  <2>1. indexes # <<>>
    BY <1>1 DEF IInv, CurrentFileKept, Initialised
  <2> QED
    BY <1>0, <2>1, IndexesFacts DEF IInv, TypeOK, LocalTypeOK
<1>5. /\ DOMAIN indexes = {1} /\ launch \in Files /\ indexes[1].location = launch
      /\ indexes[1].position \in Nat /\ indexes[1].pending \in Nat
      /\ Size(1) \in Nat /\ DOMAIN lines[launch] = 1..Size(1)
  BY <1>2, <1>4, FirstFile
<1>6. DrainOK(1) /\ Received(1, s)
  BY <1>1, <1>2, <1>3, <1>4 DEF FirstOK, DrainOK
<1>7. PICK p : p = indexes[1].position + counter[s]
  OBVIOUS
<1>8. p \in Nat /\ counter[s] \in Nat
  BY <1>0, <1>5, <1>7
<1>9. PICK q : q = buffer[s]
  OBVIOUS
<1>10. /\ q \in Seq(Records) /\ q # <<>>
       /\ indexes[1].pending + cursor.read = p + Len(q) /\ p + Len(q) <= Size(1)
       /\ \A b \in DOMAIN q : q[b] = lines[launch][p + b]
       /\ SentTo(p)
  BY <1>0, <1>1, <1>6, <1>7, <1>9 DEF Received, IInv, SendingOK
<1>11. /\ Len(q) \in Nat /\ Len(q) >= 1 /\ DOMAIN q = 1..Len(q) /\ Head(q) = q[1]
       /\ Len(Tail(q)) = Len(q) - 1 /\ DOMAIN Tail(q) = 1..(Len(q) - 1)
       /\ \A b \in 1..(Len(q) - 1) : Tail(q)[b] = q[b + 1]
  <2>1. Tail(q) \in Seq(Records) /\ Len(Tail(q)) = Len(q) - 1
    BY <1>10, HeadTailProperties
  <2> QED
    BY <1>10, <2>1, HeadTailProperties, LenProperties, EmptySeq
<1>12. PICK r : r = Head(q)
  OBVIOUS
<1>13. /\ p + 1 \in DOMAIN lines[launch] /\ r = lines[launch][p + 1]
       /\ r \notin sent
  <2>1. 1 \in DOMAIN q /\ p + 1 \in 1..Size(1)
    BY <1>5, <1>8, <1>10, <1>11
  <2>2. r = lines[launch][p + 1]
    BY <1>10, <1>11, <1>12, <2>1
  <2>3. r \notin sent
    BY <1>5, <1>8, <1>10, <2>1, <2>2 DEF SentTo
  <2> QED
    BY <1>5, <2>1, <2>2, <2>3
<1>14. sent' = sent \cup {r} /\ resent' = {}
  BY <1>1, <1>2, <1>9, <1>12, <1>13 DEF FirstOK
<1>15. r \notin live /\ r \in Accepted
  BY <1>2, <1>5, <1>13 DEF FirstOK, Distinct, NumbersOK
<1>16. Distinct'
  BY <1>1, <1>2, <1>14, <1>15 DEF FirstOK, Distinct, Accepted
<1>17. /\ counter'[s] = counter[s] + 1 /\ buffer'[s] = Tail(q)
       /\ \A t \in Sessions : t # s => counter'[t] = counter[t] /\ buffer'[t] = buffer[t] /\ pc'[t] = pc[t]
  BY <1>0, <1>1, <1>9
<1>18. \A t \in Sessions : Receiving(t)' => t = s
  BY <1>1, <1>3, <1>17 DEF Receiving, InPass, Begun
<1>19. Receiving(s)'
  BY <1>0, <1>1, <1>3 DEF Receiving, InPass, Begun
<1>20. \A m \in DOMAIN lines[launch] : lines[launch][m] \in sent' => m <= p + 1
  <2> SUFFICES ASSUME NEW m \in DOMAIN lines[launch], lines[launch][m] \in sent'
               PROVE  m <= p + 1
    OBVIOUS
  <2>1. CASE lines[launch][m] \in sent
    BY <1>5, <1>8, <1>10, <2>1 DEF SentTo
  <2>2. CASE lines[launch][m] = r
    BY <1>2, <1>5, <1>8, <1>13, <2>2 DEF FirstOK, Distinct
  <2> QED
    BY <1>14, <2>1, <2>2
<1>21. Received(1, s)'
  <2>1. indexes[1].position + counter'[s] = p + 1
    <3>1. counter'[s] = counter[s] + 1
      BY <1>17
    <3> QED
      BY <1>5, <1>7, <1>8, <3>1
  <2>2. \A b \in 1..(Len(q) - 1) : Tail(q)[b] = lines[launch][(p + 1) + b]
    <3> SUFFICES ASSUME NEW b \in 1..(Len(q) - 1)
                 PROVE  Tail(q)[b] = lines[launch][(p + 1) + b]
      OBVIOUS
    <3>1. b + 1 \in DOMAIN q /\ p + (b + 1) = (p + 1) + b
      BY <1>8, <1>11
    <3> QED
      BY <1>10, <1>11, <3>1
  <2>3. (p + 1) + Len(Tail(q)) = p + Len(q)
    <3>1. Len(Tail(q)) = Len(q) - 1 /\ Len(q) \in Nat /\ p \in Nat
      BY <1>8, <1>11
    <3>2. \A n \in Nat : (p + 1) + (n - 1) = p + n
      BY <3>1
    <3> QED
      BY <3>1, <3>2
  <2>4. SentTo(indexes[1].position + counter[s])'
    BY <1>1, <1>20, <2>1 DEF SentTo
  <2>5. Size(1)' = Size(1)
    BY <1>1 DEF Size
  <2> QED
    BY <1>1, <1>10, <1>11, <1>17, <2>1, <2>2, <2>3, <2>4, <2>5 DEF Received
<1>22. DrainOK(1)'
  BY <1>1, <1>6, <1>18, <1>19, <1>21 DEF DrainOK
<1> QED
  BY <1>1, <1>5, <1>14, <1>16, <1>22 DEF FirstOK

(* A load starts behind the lines acknowledged, and none is pending.       *)
LEMMA OnceLoadStart ==
  ASSUME IInv, QueueInv, PositionInv, CleanInv, OnceInv, LoadsOK', NEW s \in Sessions,
         LoadStart(s), UNCHANGED transmitVars
  PROVE  OnceInv'
<1> USE DEF diskVars, sectionVars, sessionVars, historyVars, transmitVars
<1> SUFFICES ASSUME launch' <= 1 PROVE FirstOK'
  BY DEF OnceInv
<1>0. /\ TypeOK /\ step = "idle" /\ cursor.file = 0 /\ HoldsLock(s, "load")
      /\ cursor' = [file |-> 1, from |-> indexes[1].position, read |-> 0, total |-> 0,
                    terminated |-> FALSE]
      /\ UNCHANGED <<launch, lines, indexes, lockQ, buffer, counter, pc, step, produced, live, sent, resent>>
  BY DEF IInv, LoadStart, OpenFile
<1>1. FirstOK /\ EndsOK /\ LoadsOK /\ launch <= 1
  BY <1>0 DEF OnceInv, CleanInv
<1>2. 1 \in DOMAIN lockQ /\ lockQ # <<>> /\ Len(lockQ) \in Nat /\ lockQ[1].by = s /\ lockQ[1].kind = "load"
  BY <1>0, QueueTypes DEF HoldsLock
<1>3. Len(lockQ) = 1 /\ InPass(s)
  BY <1>1, <1>2 DEF LoadsOK, QueueInv, JobsOK, JobOK
<1>4. \A t \in Sessions : ~Receiving(t)
  BY <1>0, <1>2 DEF Receiving, Begun
<1>5. buffer[s] = <<>> /\ counter[s] = 0
  BY <1>2, <1>3, <1>4 DEF Receiving, QueueInv, SessionsOK, PassOK
<1>6. Receiving(s)' /\ \A t \in Sessions : Receiving(t)' => t = s
  <2>1. \A t \in Sessions : InPass(t)' => InPass(t) /\ t = s
    BY <1>0, <1>3 DEF InPass, QueueInv, Solo, Active
  <2>2. InPass(s)' /\ Begun'
    BY <1>0, <1>3 DEF InPass, Begun
  <2> QED
    BY <2>1, <2>2 DEF Receiving
<1>7. ASSUME NEW i \in DOMAIN indexes
      PROVE  DrainOK(i)'
  <2>1. DrainOK(i)
    BY <1>0, <1>1 DEF FirstOK
  <2>2. /\ i = 1 /\ indexes[i].location = launch /\ Size(i) = Len(lines[launch]) /\ Size(i) \in Nat
        /\ indexes[i].position \in Nat /\ indexes[i].pending \in Nat
    BY <1>1, FirstFile
  <2>3. indexes[i].pending = indexes[i].position /\ SentTo(indexes[i].position)
    BY <1>0, <1>4, <2>1 DEF DrainOK
  <2>4. indexes[i].position <= Size(i)
    BY <2>2 DEF PositionInv, ListsOK, ListOK, CurrentOK
  <2>5. /\ cursor'.read = 0 /\ cursor'.from = indexes[i].position /\ Len(buffer[s]) = 0
        /\ DOMAIN buffer[s] = {} /\ indexes[i].position + counter[s] = indexes[i].position
    BY <1>0, <1>5, <2>2
  <2>6. SentTo(indexes[i].position + counter[s])'
    BY <1>0, <2>3, <2>5 DEF SentTo
  <2>7. Size(i)' = Size(i)
    BY <1>0 DEF Size
  <2>8. Received(i, s)'
    BY <1>0, <2>2, <2>3, <2>4, <2>5, <2>6, <2>7 DEF Received
  <2> QED
    BY <1>0, <1>6, <2>3, <2>5, <2>8 DEF DrainOK
<1>8. Distinct'
  BY <1>0, <1>1 DEF FirstOK, Distinct, Accepted
<1> QED
  BY <1>0, <1>1, <1>7, <1>8 DEF FirstOK

(* A load that is under way is that of the session which receives.         *)
LEMMA Reading ==
  ASSUME IInv, QueueInv, OnceInv, NEW s \in Sessions, HoldsLock(s, "load"), cursor.file # 0
  PROVE  /\ Len(lockQ) = 1 /\ Receiving(s) /\ \A t \in Sessions : InPass(t) => t = s
         /\ 1 \in DOMAIN indexes
         /\ launch <= 1 => cursor.file <= Len(indexes) /\ cursor.file \in Nat
<1>0. /\ TypeOK /\ indexes \in Seq(SensorIndex)
      /\ cursor \in [file : Nat, from : Nat, read : Nat, total : Nat, terminated : BOOLEAN]
  BY DEF IInv, TypeOK, LocalTypeOK
<1>1. 1 \in DOMAIN lockQ /\ lockQ[1].by = s /\ lockQ[1].kind = "load"
  BY <1>0, QueueTypes DEF HoldsLock
<1>2. Len(lockQ) = 1 /\ InPass(s)
  BY <1>1 DEF OnceInv, LoadsOK, QueueInv, JobsOK, JobOK
<1>3. cursor.file \in Nat /\ cursor.file <= Len(indexes)
  BY <1>0 DEF IInv, LockOK
<1>4. 1 \in DOMAIN indexes
  BY <1>0, <1>3, ListTypes
<1> QED
  BY <1>2, <1>3, <1>4 DEF Receiving, Begun, InPass, QueueInv, Solo, Active

(* The reader hands over the line after those it has read.                 *)
LEMMA OnceReadLine ==
  ASSUME IInv, QueueInv, CleanInv, OnceInv, LoadsOK', NEW s \in Sessions,
         ReadLine(s), UNCHANGED transmitVars
  PROVE  OnceInv'
<1> USE DEF diskVars, sectionVars, sessionVars, historyVars, transmitVars
<1> SUFFICES ASSUME launch' <= 1 PROVE FirstOK'
  BY DEF OnceInv
<1>0. /\ HoldsLock(s, "load") /\ cursor.file # 0 /\ step = "idle" /\ UnreadLines > 0
      /\ UNCHANGED <<launch, lines, indexes, lockQ, counter, pc, step, produced, live, sent, resent>>
      /\ buffer \in [Sessions -> Seq(Records)] /\ counter \in [Sessions -> Nat]
      /\ cursor \in [file : Nat, from : Nat, read : Nat, total : Nat, terminated : BOOLEAN]
  BY DEF IInv, TypeOK, LocalTypeOK, ReadLine
<1>1. FirstOK /\ EndsOK /\ launch <= 1
  BY <1>0 DEF OnceInv, CleanInv
<1>2. /\ Len(lockQ) = 1 /\ Receiving(s) /\ \A t \in Sessions : InPass(t) => t = s
      /\ 1 \in DOMAIN indexes /\ cursor.file <= Len(indexes) /\ cursor.file \in Nat
  BY <1>0, <1>1, Reading
<1>3. /\ DOMAIN indexes = {1} /\ Len(indexes) = 1 /\ launch \in Files /\ indexes[1].location = launch
      /\ indexes[1].position \in Nat /\ indexes[1].pending \in Nat /\ lines[launch] \in Seq(Records)
      /\ Size(1) \in Nat /\ Size(1) = Len(lines[launch]) /\ DOMAIN lines[launch] = 1..Size(1)
  BY <1>1, <1>2, FirstFile
<1>4. cursor.file = 1
  BY <1>0, <1>2, <1>3
<1>5. /\ DrainOK(1) /\ Received(1, s)
      /\ cursor.from = indexes[1].position /\ indexes[1].pending = indexes[1].position
  BY <1>0, <1>1, <1>2, <1>3 DEF FirstOK, DrainOK
<1>6. cursor'.file = cursor.file /\ cursor'.from = cursor.from
  BY <1>0 DEF ReadLine
<1>7. Distinct'
  BY <1>0, <1>1 DEF FirstOK, Distinct, Accepted
<1>8. Receiving(s)' /\ \A t \in Sessions : Receiving(t)' => t = s
  BY <1>0, <1>2, <1>6 DEF Receiving, InPass, Begun
<1>9. Received(1, s)'
  <2>1. SentTo(indexes[1].position + counter[s])'
    BY <1>0, <1>5 DEF Received, SentTo
  <2>2. Size(1)' = Size(1)
    BY <1>0 DEF Size
  <2>3. CASE cursor'.read = cursor.read /\ buffer' = buffer
    BY <1>0, <1>5, <2>1, <2>2, <2>3 DEF Received
  <2>4. ASSUME cursor'.read = cursor.read + 1,
               buffer' = [buffer EXCEPT ![s] = Append(@,
                 lines[indexes[cursor.file].location][cursor.from + cursor.read + 1])]
        PROVE  Received(1, s)'
    <3>1. PICK p : p = indexes[1].position + counter[s]
      OBVIOUS
    <3>2. PICK q : q = buffer[s]
      OBVIOUS
    <3>3. PICK r : r = lines[launch][cursor.from + cursor.read + 1]
      OBVIOUS
    <3>4. q \in Seq(Records) /\ Len(q) \in Nat /\ DOMAIN q = 1..Len(q) /\ p \in Nat /\ cursor.read \in Nat
      BY <1>0, <1>3, <3>1, <3>2, LenProperties
    <3>5. /\ indexes[1].pending + cursor.read = p + Len(q) /\ p + Len(q) <= Size(1)
          /\ \A b \in DOMAIN q : q[b] = lines[launch][p + b]
      BY <1>5, <3>1, <3>2 DEF Received
    <3>6. p + Len(q) + 1 <= Size(1)
      <4>1. UnreadLines = Size(1) - cursor.from - cursor.read
        BY <1>3, <1>4 DEF UnreadLines, Size
      <4> QED
        BY <1>0, <1>3, <1>5, <3>4, <3>5, <4>1
    <3>7. cursor.from + cursor.read + 1 = p + Len(q) + 1
      BY <1>3, <1>5, <3>4, <3>5
    <3>8. r = lines[launch][p + Len(q) + 1] /\ p + Len(q) + 1 \in 1..Size(1)
      BY <1>3, <3>3, <3>4, <3>6, <3>7
    <3>9. r \in Records
      BY <1>3, <3>8, LenProperties
    <3>10. buffer'[s] = Append(q, r)
      BY <1>0, <1>3, <1>4, <2>4, <3>2, <3>3
    <3>11. /\ Len(Append(q, r)) = Len(q) + 1 /\ Append(q, r) \in Seq(Records)
           /\ Append(q, r)[Len(q) + 1] = r
           /\ \A b \in 1..Len(q) : Append(q, r)[b] = q[b]
      BY <3>4, <3>9, AppendProperties
    <3>12. DOMAIN Append(q, r) = 1..(Len(q) + 1)
      BY <3>11, LenProperties
    <3>13. ASSUME NEW b \in 1..(Len(q) + 1)
           PROVE  Append(q, r)[b] = lines[launch][p + b]
      <4>1. CASE b = Len(q) + 1
        <5>1. p + b = p + Len(q) + 1
          BY <3>4, <4>1
        <5> QED
          BY <3>8, <3>11, <4>1, <5>1
      <4>2. CASE b # Len(q) + 1
        <5>1. b \in 1..Len(q)
          BY <3>4, <4>2
        <5> QED
          BY <3>4, <3>5, <3>11, <5>1
      <4> QED
        BY <4>1, <4>2
    <3>14. indexes[1].pending + (cursor.read + 1) = p + (Len(q) + 1)
      <4>1. \A i, j, k, n \in Nat : i + j = k + n => i + (j + 1) = k + (n + 1)
        OBVIOUS
      <4>2. indexes[1].pending \in Nat /\ cursor.read \in Nat /\ p \in Nat /\ Len(q) \in Nat
        BY <1>3, <3>4
      <4> QED
        BY <3>5, <4>1, <4>2
    <3>15. p + (Len(q) + 1) <= Size(1)
      BY <3>4, <3>6
    <3>16. PICK w : w = Append(q, r)
      OBVIOUS
    <3>17. /\ buffer'[s] = w /\ Len(w) = Len(q) + 1 /\ DOMAIN w = 1..(Len(q) + 1)
           /\ \A b \in DOMAIN w : w[b] = lines[launch][p + b]
      BY <3>10, <3>11, <3>12, <3>13, <3>16
    <3> QED
      BY <1>0, <2>1, <2>2, <2>4, <3>1, <3>14, <3>15, <3>17 DEF Received
  <2>5. \/ cursor'.read = cursor.read /\ buffer' = buffer
        \/ /\ cursor'.read = cursor.read + 1
           /\ buffer' = [buffer EXCEPT ![s] = Append(@,
                lines[indexes[cursor.file].location][cursor.from + cursor.read + 1])]
    <3>1. CASE cursor.total = MaxCount
      BY <1>0, <3>1 DEF ReadLine
    <3>2. CASE cursor.total # MaxCount
      BY <1>0, <3>2 DEF ReadLine
    <3> QED
      BY <3>1, <3>2
  <2> QED
    BY <2>3, <2>4, <2>5
<1>10. DrainOK(1)'
  BY <1>0, <1>5, <1>6, <1>8, <1>9 DEF DrainOK
<1> QED
  BY <1>0, <1>1, <1>3, <1>7, <1>10 DEF FirstOK

(* The load is over: what it has read is pending.                          *)
LEMMA OnceEndFile ==
  ASSUME IInv, QueueInv, CleanInv, OnceInv, LoadsOK', NEW s \in Sessions,
         EndFile(s), UNCHANGED transmitVars
  PROVE  OnceInv'
<1> USE DEF diskVars, sectionVars, sessionVars, historyVars, transmitVars
<1> SUFFICES ASSUME launch' <= 1 PROVE FirstOK'
  BY DEF OnceInv
<1>0. /\ HoldsLock(s, "load") /\ cursor.file # 0 /\ step = "idle"
      /\ UNCHANGED <<launch, lines, buffer, counter, pc, step, produced, live, sent, resent>>
      /\ indexes' = [indexes EXCEPT ![cursor.file] = Loaded(@)]
      /\ cursor \in [file : Nat, from : Nat, read : Nat, total : Nat, terminated : BOOLEAN]
      /\ lockQ # <<>> /\ indexes \in Seq(SensorIndex) /\ TypeOK
  BY DEF IInv, TypeOK, LocalTypeOK, EndFile, HoldsLock
<1>1. FirstOK /\ EndsOK /\ launch <= 1
  BY <1>0 DEF OnceInv, CleanInv
<1>2. /\ Len(lockQ) = 1 /\ Receiving(s) /\ \A t \in Sessions : InPass(t) => t = s
      /\ 1 \in DOMAIN indexes /\ cursor.file <= Len(indexes) /\ cursor.file \in Nat
  BY <1>0, <1>1, Reading
<1>3. /\ DOMAIN indexes = {1} /\ Len(indexes) = 1 /\ indexes[1].location = launch
      /\ indexes[1].position \in Nat /\ indexes[1].pending \in Nat
  BY <1>1, <1>2, FirstFile
<1>4. cursor.file = 1
  BY <1>0, <1>2, <1>3
<1>5. DrainOK(1) /\ Received(1, s)
  BY <1>0, <1>1, <1>2, <1>3 DEF FirstOK, DrainOK
<1>6. cursor' = NoLoad /\ lockQ' = Tail(lockQ)
  BY <1>3, <1>4 DEF EndFile, IsLast
<1>7. lockQ' = <<>>
  BY <1>0, <1>2, <1>6, DequeueFacts
<1>8. /\ DOMAIN indexes' = {1} /\ indexes'[1].location = indexes[1].location
      /\ indexes'[1].position = indexes[1].position
      /\ indexes'[1].pending = indexes[1].pending + cursor.read
  <2>1. indexes[1] \in SensorIndex
    BY <1>0, <1>2, ListTypes
  <2>2. DOMAIN indexes' = {1} /\ indexes'[1] = Loaded(indexes[1])
    BY <1>0, <1>3, <1>4
  <2> QED
    BY <2>1, <2>2 DEF Loaded, SensorIndex
<1>9. Distinct'
  BY <1>0, <1>1 DEF FirstOK, Distinct, Accepted
<1>10. Receiving(s)' /\ \A t \in Sessions : Receiving(t)' => t = s
  BY <1>0, <1>2, <1>7 DEF Receiving, InPass, Begun
<1>11. Received(1, s)'
  <2>1. cursor'.read = 0 /\ indexes'[1].pending + 0 = indexes[1].pending + cursor.read
    BY <1>0, <1>3, <1>6, <1>8 DEF NoLoad
  <2>2. indexes'[1].position + counter'[s] = indexes[1].position + counter[s]
    BY <1>0, <1>8
  <2>3. Size(1)' = Size(1)
    BY <1>0, <1>8 DEF Size
  <2>4. SentTo(indexes[1].position + counter[s])'
    BY <1>0, <1>5, <2>2 DEF Received, SentTo
  <2> QED
    BY <1>0, <1>5, <2>1, <2>2, <2>3, <2>4 DEF Received
<1>12. DrainOK(1)'
  BY <1>0, <1>6, <1>10, <1>11 DEF DrainOK, NoLoad
<1> QED
  BY <1>0, <1>1, <1>8, <1>9, <1>12 DEF FirstOK

(* A pass ends when all it has received was sent: the acknowledgement is   *)
(* of just the pending lines.                                              *)
LEMMA OnceEndPass ==
  ASSUME IInv, QueueInv, CleanInv, OnceInv, LoadsOK', NEW s \in Sessions, EndPass(s)
  PROVE  OnceInv'
<1> USE DEF diskVars
<1> SUFFICES ASSUME launch' <= 1 PROVE FirstOK'
  BY DEF OnceInv
<1>0. /\ step = "idle" /\ pc[s] = "await" /\ buffer[s] = <<>> /\ lockQ = <<>> /\ TypeOK
      /\ Enqueue("ack", s, counter[s]) /\ step' = "run"
      /\ UNCHANGED <<launch, lines, indexes, cursor, buffer, counter, produced, live, sent, resent>>
      /\ counter \in [Sessions -> Nat] /\ cursor.file = 0
  BY PassEndsAlone DEF EndPass, CallAck, RunOrWait, historyVars, IInv, LockOK, TypeOK
<1>1. FirstOK /\ EndsOK /\ launch <= 1 /\ cursor.read = 0
  BY <1>0 DEF OnceInv, CleanInv, LoadsOK
<1>2. Len(lockQ) = 0 /\ Len(lockQ') = 1 /\ lockQ' # <<>> /\ lockQ'[1].count = counter[s]
  <2>1. Len(lockQ) = 0
    BY <1>0
  <2>2. /\ Len(lockQ') = Len(lockQ) + 1 /\ lockQ' # <<>>
        /\ lockQ'[Len(lockQ) + 1] = [kind |-> "ack", by |-> s, count |-> counter[s]]
    BY <1>0, EnqueueFacts
  <2> QED
    BY <2>1, <2>2
<1>3. Receiving(s)
  BY <1>0 DEF Receiving, InPass, Begun
<1>4. \A t \in Sessions : ~Receiving(t)'
  BY <1>0, <1>2 DEF Receiving, Begun
<1>5. ASSUME NEW i \in DOMAIN indexes
      PROVE  DrainOK(i)'
  <2>1. Received(i, s) /\ DrainOK(i)
    BY <1>0, <1>1, <1>3 DEF FirstOK, DrainOK
  <2>2. indexes[i].position \in Nat /\ indexes[i].pending \in Nat
    BY <1>1, FirstFile
  <2>3. Len(buffer[s]) = 0
    BY <1>0
  <2>4. indexes[i].pending + 0 = indexes[i].position + counter[s] + 0
    BY <1>1, <2>1, <2>3 DEF Received
  <2>5. indexes[i].pending = indexes[i].position + counter[s] /\ SentTo(indexes[i].pending)
    BY <1>0, <2>1, <2>2, <2>4 DEF Received
  <2>6. SentTo(indexes[i].pending)'
    BY <1>0, <2>5 DEF SentTo
  <2> QED
    BY <1>0, <1>2, <1>4, <2>5, <2>6 DEF DrainOK
<1>6. Distinct'
  BY <1>0, <1>1 DEF FirstOK, Distinct, Accepted
<1> QED
  BY <1>0, <1>1, <1>5, <1>6 DEF FirstOK

(* The lines of one index are as many as their numbers.                    *)
LEMMA OneIndex ==
  ASSUME NEW m \in Nat, NEW p \in Nat, m <= p
  PROVE  Cardinality({1} \X ((m + 1)..p)) = p - m
<1>1. PICK l : l = m + 1
  OBVIOUS
<1>2. PICK S : S = l..p
  OBVIOUS
<1>3. IsFiniteSet(S) /\ Cardinality(S) = p - m
  <2>1. l \in Int /\ p \in Int
    BY <1>1
  <2>2. IsFiniteSet(l..p) /\ Cardinality(l..p) = IF l > p THEN 0 ELSE p - l + 1
    BY <2>1, FS_Interval
  <2> QED
    BY <1>1, <1>2, <2>2
<1> DEFINE f == [n \in S |-> <<1, n>>]
<1>4. f \in Bijection(S, {1} \X S)
  <2>1. \A x \in {1} \X S : x[2] \in S /\ x = <<1, x[2]>>
    OBVIOUS
  <2>2. f \in [S -> {1} \X S] /\ \A n \in S : f[n] = <<1, n>>
    OBVIOUS
  <2>3. \A n, k \in S : f[n] = f[k] => n = k
    BY <2>2
  <2>4. \A x \in {1} \X S : \E n \in S : f[n] = x
    BY <2>1, <2>2
  <2> QED
    BY <2>2, <2>3, <2>4 DEF Bijection, Injection, IsInjective, Surjection
<1>5. ExistsBijection(S, {1} \X S)
  BY <1>4 DEF ExistsBijection
<1>6. Cardinality({1} \X S) = Cardinality(S)
  BY <1>3, <1>5, FS_Bijection
<1> QED
  BY <1>1, <1>2, <1>3, <1>6

(* An acknowledgement leaves nothing pending.                              *)
LEMMA OnceRunAck ==
  ASSUME IInv, QueueInv, PositionInv, CleanInv, OnceInv, LoadsOK', NEW s \in Sessions,
         RunAck(s), UNCHANGED transmitVars
  PROVE  OnceInv'
<1> USE DEF diskVars, loadVars, sessionVars, historyVars, transmitVars
<1> SUFFICES ASSUME launch' <= 1 PROVE FirstOK'
  BY DEF OnceInv
<1>0. /\ HoldsLock(s, "ack") /\ step \in {"idle", "run"} /\ step' = "sweep" /\ TypeOK
      /\ AckFromBegin(lockQ[1].count)
      /\ UNCHANGED <<launch, lines, lockQ, cursor, buffer, counter, pc, produced, live, sent, resent>>
  BY DEF RunAck, IInv
<1>1. FirstOK /\ EndsOK /\ launch <= 1
  BY <1>0 DEF OnceInv, CleanInv
<1>2. /\ lockQ # <<>> /\ 1 \in DOMAIN lockQ /\ lockQ[1].kind = "ack" /\ lockQ[1].count \in Nat
  BY <1>0, QueueTypes DEF HoldsLock, Job
<1>3. step = "run"
  BY <1>0, <1>2 DEF QueueInv, JobsOK, JobOK
<1>4. cursor.file = 0
  BY <1>2 DEF IInv, LockOK
<1>5. \A t \in Sessions : ~Receiving(t)'
  BY <1>0, <1>2, <1>4 DEF Receiving, Begun
<1>6. PICK k \in DOMAIN indexes : \E p \in indexes[k].position..indexes[k].pending :
        LET acked == Cardinality(Covered(k, p))
        IN  /\ acked = lockQ[1].count \/ (acked < lockQ[1].count /\ p = indexes[k].pending)
            /\ indexes' = AckedUpTo(k, p)
  BY <1>0 DEF AckFromBegin
<1>7. /\ k = 1 /\ DOMAIN indexes = {1}
      /\ indexes[1].position \in Nat /\ indexes[1].pending \in Nat
      /\ indexes[1].location = launch
  BY <1>1, FirstFile
<1>8. PICK p \in indexes[1].position..indexes[1].pending :
        /\ \/ Cardinality(Covered(1, p)) = lockQ[1].count
           \/ p = indexes[1].pending
        /\ indexes' = AckedUpTo(1, p)
  BY <1>6, <1>7
<1>9. p \in Nat /\ indexes[1].position <= p
  BY <1>7
<1>10. Covered(1, p) = {1} \X ((indexes[1].position + 1)..p)
  <2>1. 1..1 = {1}
    OBVIOUS
  <2> QED
    BY <2>1 DEF Covered
<1>11. Cardinality(Covered(1, p)) = p - indexes[1].position
  BY <1>7, <1>9, <1>10, OneIndex
<1>12. /\ indexes[1].pending = indexes[1].position + lockQ[1].count
       /\ SentTo(indexes[1].pending)
  BY <1>1, <1>3, <1>7 DEF FirstOK, DrainOK
<1>13. p = indexes[1].pending
  BY <1>2, <1>7, <1>8, <1>9, <1>11, <1>12
<1>14. /\ DOMAIN indexes' = DOMAIN indexes
       /\ indexes'[1].location = indexes[1].location
       /\ indexes'[1].pending = indexes[1].pending /\ indexes'[1].position = p
  BY <1>0, <1>7, <1>8, AckFacts
<1>15. SentTo(indexes[1].position)'
  BY <1>0, <1>12, <1>13, <1>14 DEF SentTo
<1>16. DrainOK(1)'
  BY <1>0, <1>4, <1>5, <1>13, <1>14, <1>15 DEF DrainOK
<1>17. Distinct'
  BY <1>0, <1>1 DEF FirstOK, Distinct, Accepted
<1> QED
  BY <1>0, <1>1, <1>7, <1>14, <1>16, <1>17 DEF FirstOK

(* The steps that write index.json and release the lock leave the only     *)
(* index alone, since its file is never marked ended.                      *)
LEMMA OnceIndex ==
  ASSUME IInv, QueueInv, CleanInv, OnceInv, LoadsOK', IndexStep
  PROVE  OnceInv'
<1> USE DEF loadVars, sessionVars, historyVars, transmitVars
<1>0. /\ TypeOK /\ step \in {"truncate", "write", "sweep", "unlink", "release"}
      /\ step' \notin {"down", "run"}
      /\ UNCHANGED <<launch, lines, cursor, buffer, counter, pc, produced, live, sent, resent>>
  BY DEF IndexStep, TruncateIndex, WriteIndex, RemoveFirstIndex, DeleteDataFile, FinalStore,
     ReleaseLock, StoreIndexContext, IInv, Continuation, diskVars
<1>1. CASE RemoveFirstIndex
  <2>1. step = "sweep" /\ indexes[1].isEnd
    BY <1>1 DEF RemoveFirstIndex, FirstIsAcked
  <2>2. 1 \in DOMAIN indexes
    BY <1>0, <2>1, IndexesFacts DEF IInv, CurrentFileKept, Initialised
  <2>3. ~(launch <= 1)
    BY <2>1, <2>2, FirstFile DEF CleanInv
  <2> QED
    BY <1>0, <2>3 DEF OnceInv
<1>2. CASE TruncateIndex \/ WriteIndex \/ DeleteDataFile \/ FinalStore
  <2>1. UNCHANGED <<indexes, lockQ>>
    BY <1>2 DEF TruncateIndex, WriteIndex, DeleteDataFile, FinalStore
  <2>2. \A s \in Sessions : Receiving(s)' <=> Receiving(s)
    BY <1>0, <2>1 DEF Receiving, InPass, Begun
  <2> QED
    BY <1>0, <2>1, <2>2, DrainFrame
<1>3. CASE ReleaseLock
  <2>1. step = "release" /\ lockQ' = Tail(lockQ) /\ indexes' = indexes
    BY <1>3 DEF ReleaseLock
  <2>2. lockQ # <<>> /\ lockQ[1].kind # "load" /\ cursor.file = 0
    BY <2>1 DEF IInv, LockOK, QueueInv, HeadOK, UnderLock
  <2>3. Len(lockQ) \in Nat /\ Len(lockQ') = Len(lockQ) - 1 /\ (lockQ' = <<>> <=> Len(lockQ) = 1)
    BY <1>0, <2>1, <2>2, DequeueFacts, QueueTypes
  <2>4. ASSUME NEW s \in Sessions
        PROVE  ~Receiving(s) /\ ~Receiving(s)'
    <3>1. ~Receiving(s)
      BY <2>2 DEF Receiving, Begun
    <3>2. InPass(s) => Len(lockQ) # 1
      BY <2>2 DEF QueueInv, SessionsOK, PassOK, LoadIsLast
    <3>3. ~Receiving(s)'
      BY <1>0, <2>2, <2>3, <3>2 DEF Receiving, Begun, InPass
    <3> QED
      BY <3>1, <3>3
  <2> QED
    BY <1>0, <2>1, <2>4, DrainFrame
<1> QED
  BY <1>1, <1>2, <1>3 DEF IndexStep

(* The first launch starts with nothing stored.                            *)
LEMMA OnceInit ==
  ASSUME IInv, QueueInv, PositionInv, OnceInv, LoadsOK', InitStep
  PROVE  OnceInv'
<1> USE DEF loadVars, sessionVars, historyVars, transmitVars
<1> SUFFICES ASSUME launch' <= 1 PROVE FirstOK'
  BY DEF OnceInv
<1>0. /\ launch \in Nat /\ TypeOK /\ indexJson \in Seq(SensorIndex) /\ indexes \in Seq(SensorIndex)
      /\ UNCHANGED <<lines, lockQ, cursor, buffer, counter, pc, produced, live, sent, resent>>
  BY LaunchesAssumption DEF InitStep, LaunchAfterTornIndex, LaunchWithIndex, RegisterDataFile,
     IInv, TypeOK, LocalTypeOK
<1>1. launch <= launch'
  BY <1>0 DEF InitStep, LaunchAfterTornIndex, LaunchWithIndex, RegisterDataFile
<1>2. FirstOK
  BY <1>0, <1>1, LaunchesAssumption DEF OnceInv, InitStep, LaunchAfterTornIndex, LaunchWithIndex,
     RegisterDataFile
<1>3. Distinct'
  BY <1>0, <1>2 DEF FirstOK, Distinct, Accepted
<1>4. CASE LaunchAfterTornIndex
  <2>1. DOMAIN indexes' = {}
    BY <1>4 DEF LaunchAfterTornIndex
  <2> QED
    BY <1>0, <1>2, <1>3, <2>1 DEF FirstOK
<1>5. CASE LaunchWithIndex
  <2>1. launch' = launch + 1 /\ indexes' = indexJson
    BY <1>5 DEF LaunchWithIndex
  <2>2. launch = 0
    BY <1>0, <2>1
  <2>3. \A i \in DOMAIN indexJson : indexJson[i].location \in Files /\ indexJson[i].location <= 0
    BY <1>0, <2>2, ListTypes DEF IInv, Ordered
  <2>4. DOMAIN indexJson = {}
    <3>1. \A f \in Files : f >= 1 /\ f \in Nat
      BY LaunchesAssumption DEF Files
    <3>2. \A i \in DOMAIN indexJson : FALSE
      BY <2>3, <3>1
    <3> QED
      BY <3>2
  <2> QED
    BY <1>0, <1>2, <1>3, <2>1, <2>4 DEF FirstOK
<1>6. CASE RegisterDataFile
  <2>1. /\ step = "register" /\ launch' = launch /\ step' = "truncate"
        /\ indexes' = Append(indexes, [location |-> launch, position |-> 0, pending |-> 0,
                                       isEnd |-> FALSE])
    BY <1>6 DEF RegisterDataFile, StoreIndexContext
  <2>2. DOMAIN indexes = {}
    <3>1. \A i \in DOMAIN indexes : indexes[i].location \in Files /\ indexes[i].location < launch
      BY <1>0, <2>1, ListTypes DEF IInv, Ordered
    <3>2. \A f \in Files : f >= 1 /\ f \in Nat
      BY LaunchesAssumption DEF Files
    <3>3. \A i \in DOMAIN indexes : FALSE
      BY <1>0, <2>1, <3>1, <3>2
    <3> QED
      BY <3>3
  <2>3. indexes = <<>>
    BY <1>0, <2>2, IndexesFacts
  <2>4. DOMAIN indexes' = {1} /\ indexes'[1].position = 0 /\ indexes'[1].pending = 0
    BY <2>1, <2>3
  <2>5. cursor.file = 0 /\ lines[launch] = <<>> /\ \A s \in Sessions : ~Active(s)
    BY <2>1 DEF IInv, LockOK, PositionInv, Fresh, Registering, QueueInv, Quiet
  <2>6. SentTo(0)'
    BY <1>0, <2>1, <2>5 DEF SentTo
  <2>7. \A s \in Sessions : ~Receiving(s)'
    BY <1>0, <2>5 DEF Receiving, InPass, Active
  <2>8. SentTo(indexes[1].position)'
    BY <2>4, <2>6 DEF SentTo
  <2>9. DrainOK(1)'
    BY <1>0, <2>1, <2>4, <2>5, <2>7, <2>8 DEF DrainOK
  <2> QED
    BY <1>0, <1>2, <1>3, <2>4, <2>9 DEF FirstOK
<1> QED
  BY <1>4, <1>5, <1>6 DEF InitStep

LEMMA OnceNext ==
  ASSUME DeliveryInv, CleanInv, OnceInv, Clean, [Next]_vars
  PROVE  OnceInv'
<1> USE DEF localVars, diskVars, loadVars, sectionVars, sessionVars, historyVars, transmitVars
<1>0. /\ IInv /\ QueueInv /\ PositionInv /\ NoFailure /\ LoadsOK /\ LoadsOK' /\ TypeOK
      /\ SendOutcomes = {"true"} /\ ~Overlap /\ pc \in [Sessions -> PC]
  BY LoadsNext DEF DeliveryInv, CleanInv, OnceInv, IInv, TypeOK, Clean
<1>1. CASE TransmitOffline
  BY <1>0, <1>1, OnceStored
<1>2. CASE TransmitOnline \/ \E r \in Records : LiveSent(r) \/ LiveFailed(r)
  BY <1>0, <1>2, OnceLive DEF LiveFailed
<1>3. CASE DisableNetwork \/ EnableWithoutReceiver
  BY <1>0, <1>3, DrainFrame DEF DisableNetwork, EnableWithoutReceiver, Receiving, InPass, Begun
<1>4. ASSUME NEW s \in Sessions, EnableNetwork(s)
      PROVE  OnceInv'
  <2>1. \A t \in Sessions : Receiving(t)' <=> Receiving(t)
    BY <1>0, <1>4 DEF EnableNetwork, NextSession, Receiving, InPass, Begun
  <2> QED
    BY <1>0, <1>4, <2>1, DrainFrame DEF EnableNetwork
<1>5. ASSUME NEW s \in Sessions, StartSend(s)
      PROVE  OnceInv'
  <2>1. \A t \in Sessions : Receiving(t)' <=> Receiving(t)
    BY <1>0, <1>5 DEF StartSend, Receiving, InPass, Begun
  <2> QED
    BY <1>0, <1>5, <2>1, DrainFrame DEF StartSend
<1>6. ASSUME NEW s \in Sessions, StartPass(s)
      PROVE  OnceInv'
  <2>1. /\ step = "idle" /\ pc[s] = "load" /\ Enqueue("load", s, 0)
        /\ UNCHANGED <<launch, lines, indexes, cursor, buffer, produced, live, sent, resent, step>>
        /\ pc' = [pc EXCEPT ![s] = "await"] /\ counter' = [counter EXCEPT ![s] = 0]
    BY <1>6 DEF StartPass, LoadFromBegin
  <2>2. \A t \in Sessions : ~InPass(t)
    BY <1>0, <2>1 DEF QueueInv, Solo, Active, InPass
  <2>3. Len(lockQ') = Len(lockQ) + 1 /\ lockQ' # <<>> /\ Len(lockQ) \in Nat
        /\ (lockQ # <<>> <=> Len(lockQ) >= 1)
    BY <1>0, <2>1, EnqueueFacts, QueueTypes
  <2>4. ~Begun'
    BY <1>0, <2>1, <2>3 DEF Begun, IInv, LockOK
  <2>5. \A t \in Sessions : ~Receiving(t) /\ ~Receiving(t)'
    BY <2>2, <2>4 DEF Receiving
  <2>6. ASSUME NEW i \in DOMAIN indexes, DrainOK(i)
        PROVE  DrainOK(i)'
    <3>1. /\ indexes[i].pending = indexes[i].position /\ SentTo(indexes[i].position)
          /\ cursor.file # 0 => cursor.from = indexes[i].position
      BY <2>1, <2>5, <2>6 DEF DrainOK
    <3>2. SentTo(indexes[i].position)'
      BY <2>1, <3>1 DEF SentTo
    <3> QED
      BY <2>1, <2>5, <3>1, <3>2 DEF DrainOK
  <2>7. Distinct' <=> Distinct
    BY <2>1 DEF Distinct, Accepted
  <2> QED
    BY <1>0, <2>1, <2>6, <2>7 DEF OnceInv, FirstOK
<1>7. ASSUME NEW s \in Sessions, SendEnds(s) \/ FailPass(s) \/ EndPass(s)
      PROVE  OnceInv'
  <2>1. SendReturnsTrue(s) \/ EndPass(s)
    BY <1>0, <1>7 DEF SendEnds, SendReturnsFalse, SendThrows, FailPass, NoFailure
  <2> QED
    BY <1>0, <2>1, OnceSends, OnceEndPass
<1>8. ASSUME NEW s \in Sessions, LoadStep(s)
      PROVE  OnceInv'
  BY <1>0, <1>8, OnceLoadStart, OnceReadLine, OnceEndFile DEF LoadStep
<1>9. ASSUME NEW s \in Sessions, AckStep(s)
      PROVE  OnceInv'
  <2>1. RunAck(s) /\ UNCHANGED transmitVars
    <3>1. lockQ # <<>> => 1 \in DOMAIN lockQ
      BY <1>0, QueueTypes
    <3> QED
      BY <1>0, <1>9, <3>1 DEF AckStep, RunNAck, HoldsLock, NoFailure
  <2> QED
    BY <1>0, <2>1, OnceRunAck
<1>10. CASE IndexStep
  BY <1>0, <1>10, OnceIndex
<1>11. CASE InitStep
  BY <1>0, <1>11, OnceInit
<1>12. CASE Kill
  <2>1. /\ step' = "down" /\ live' = {} /\ UNCHANGED <<launch, lines, produced, sent, resent>>
    BY <1>12 DEF Kill, LocalKill
  <2>2. Distinct => Distinct'
    BY <2>1 DEF Distinct, Accepted
  <2> QED
    BY <1>0, <2>1, <2>2 DEF OnceInv, FirstOK
<1>13. CASE UNCHANGED vars
  <2>1. Distinct' <=> Distinct
    BY <1>13 DEF vars, Distinct, Accepted
  <2>2. ASSUME NEW i \in DOMAIN indexes, DrainOK(i)
        PROVE  DrainOK(i)'
    BY <1>13, <2>2, DrainSame DEF vars
  <2> QED
    BY <1>0, <1>13, <2>1, <2>2 DEF OnceInv, FirstOK, vars
<1> QED
  BY <1>1, <1>2, <1>3, <1>4, <1>5, <1>6, <1>7, <1>8, <1>9, <1>10, <1>11, <1>12, <1>13
  DEF Next, SessionStep

LEMMA InitOnce == Init => OnceInv
<1> SUFFICES ASSUME Init PROVE OnceInv
  OBVIOUS
<1>1. \A f \in Files : DOMAIN lines[f] = {}
  BY DEF Init, LocalInit
<1> QED
  BY <1>1 DEF Init, LocalInit, OnceInv, LoadsOK, FirstOK, Distinct, NoLoad

(* With sends that succeed the first launch sends no batch twice, although *)
(* the reader counts lines while the sensors append to the file it reads,  *)
(* and although a position is all that a load knows of earlier ones.       *)
THEOREM NothingTwice == Clean /\ Spec => []SentOnce
<1> SUFFICES ASSUME Clean PROVE Spec => []SentOnce
  OBVIOUS
<1>1. DeliveryInv /\ CleanInv /\ OnceInv /\ [Next]_vars => (DeliveryInv /\ CleanInv /\ OnceInv)'
  BY NextDelivery, NextClean, OnceNext DEF Clean
<1>2. OnceInv => SentOnce
  BY DEF OnceInv, FirstOK, SentOnce
<1> QED
  BY InitDelivery, InitClean, InitOnce, <1>1, <1>2, PTL DEF Spec
=============================================================================
