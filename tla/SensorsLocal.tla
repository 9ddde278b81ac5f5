---------------------------- MODULE SensorsLocal ----------------------------
(***************************************************************************)
(* The phone's local store of sensor records                               *)
(* (mobile/lib/gateway/sensors_local_impl.dart).                           *)
(*                                                                         *)
(* Every launch of the app appends to a data file of its own, one record   *)
(* per line.  index.json lists the data files that may still hold unsent   *)
(* records, oldest first, each with the number of lines acknowledged       *)
(* (position), the number handed out by loads (pending) and a mark that a  *)
(* load has seen the end of a file nobody appends to any more (isEnd).     *)
(*                                                                         *)
(* Dart runs one event at a time: the code between two awaits is atomic    *)
(* for the rest of the program.  It is not atomic for the operating        *)
(* system, which may kill the process between two system calls, so a       *)
(* synchronous section that writes index.json is a sequence of steps       *)
(* (`step') that only Kill may interrupt.                                  *)
(***************************************************************************)
EXTENDS Integers, Sequences, FiniteSets

CONSTANTS
  MaxLaunches,   \* bound on the number of launches of the app
  MaxRecords,    \* bound on the number of records the sensors produce
  MaxCount,      \* _maxCount: records one load hands out (50 in the code)
  Sessions       \* the calls of transmitLocalSensorRecords; one stream each

ASSUME LaunchesAssumption == MaxLaunches \in Nat
ASSUME RecordsAssumption == MaxRecords \in Nat
ASSUME MaxCountAssumption == MaxCount \in Nat \ {0}

Files == 1..MaxLaunches      \* a data file is named by the launch that made it
Records == 1..MaxRecords

SensorIndex ==
  [location: Files, position: Nat, pending: Nat, isEnd: BOOLEAN]

Job == [kind: {"load", "ack", "nack"}, by: Sessions, count: Nat]

VARIABLES
  launch,      \* number of launches so far
  files,       \* data files that exist in the directory
  lines,       \* what each launch has written to its data file
  indexJson,   \* the list index.json holds ...
  indexTorn,   \* ... unless it holds text that does not decode (or nothing)
  indexes,     \* _indexContext.indexes
  lockQ,       \* _indexLock: head is the holder, the rest wait in order
  cursor,      \* progress of the load that holds the lock
  stream,      \* the StreamController of each session's load
  buffer,      \* records added to it and not yet received
  step,        \* the synchronous section the process is in
  after,       \* what follows the write of index.json in progress
  victim       \* the data file _deleteAckedDataFiles is removing

diskVars == <<launch, files, lines, indexJson, indexTorn>>
loadVars == <<cursor, stream, buffer>>
sectionVars == <<step, after, victim>>
localVars == <<diskVars, indexes, lockQ, loadVars, sectionVars>>

NoLoad == [file |-> 0, from |-> 0, read |-> 0, total |-> 0, terminated |-> FALSE]

Steps == {"down", "register", "truncate", "write", "idle", "run", "sweep",
          "unlink", "release"}

IsLast(i) == i = Len(indexes)
HoldsLock(s, kind) == lockQ # <<>> /\ lockQ[1].by = s /\ lockQ[1].kind = kind

LocalInit ==
  /\ launch = 0 /\ files = {} /\ lines = [f \in Files |-> <<>>]
  /\ indexJson = <<>> /\ indexTorn = TRUE      \* no index.json: it decodes no better
  /\ indexes = <<>> /\ lockQ = <<>>
  /\ cursor = NoLoad
  /\ stream = [s \in Sessions |-> "none"] /\ buffer = [s \in Sessions |-> <<>>]
  /\ step = "down" /\ after = "idle" /\ victim = 0

-----------------------------------------------------------------------------
(* Writing index.json: writeAsStringSync truncates the file, then writes it. *)

StoreIndexContext(next) == step' = "truncate" /\ after' = next

TruncateIndex ==
  /\ step = "truncate"
  /\ indexTorn' = TRUE /\ step' = "write"
  /\ UNCHANGED <<launch, files, lines, indexJson, indexes, lockQ, loadVars,
                 after, victim>>

WriteIndex ==
  /\ step = "write"
  /\ indexJson' = indexes /\ indexTorn' = FALSE /\ step' = after
  /\ UNCHANGED <<launch, files, lines, indexes, lockQ, loadVars, after, victim>>

-----------------------------------------------------------------------------
(* The constructor: _init.                                                 *)

(* index.json does not decode: the whole directory is deleted and an empty *)
(* index is created and stored.                                            *)
LaunchAfterTornIndex ==
  /\ step = "down" /\ launch < MaxLaunches /\ indexTorn
  /\ launch' = launch + 1
  /\ files' = {} /\ indexJson' = <<>> /\ indexes' = <<>>
  /\ StoreIndexContext("register")
  /\ UNCHANGED <<lines, indexTorn, lockQ, loadVars, victim>>

LaunchForgetful ==          \* a bug: the stored indexes are not taken over
  /\ step = "down" /\ launch < MaxLaunches /\ ~indexTorn
  /\ launch' = launch + 1
  /\ indexes' = <<>> /\ step' = "register"
  /\ UNCHANGED <<files, lines, indexJson, indexTorn, lockQ, loadVars, after, victim>>

LaunchWithIndex ==
  /\ step = "down" /\ launch < MaxLaunches /\ ~indexTorn
  /\ launch' = launch + 1
  /\ indexes' = indexJson /\ step' = "register"
  /\ UNCHANGED <<files, lines, indexJson, indexTorn, lockQ, loadVars, after, victim>>

(* The launch's data file is created and its index appended and stored.    *)
RegisterDataFile ==
  /\ step = "register"
  /\ files' = files \cup {launch}
  /\ indexes' = Append(indexes, [location |-> launch, position |-> 0,
                                 pending |-> 0, isEnd |-> FALSE])
  /\ StoreIndexContext("idle")
  /\ UNCHANGED <<launch, lines, indexJson, indexTorn, lockQ, loadVars, victim>>

-----------------------------------------------------------------------------
(* storeToEnd: one synchronous append to the current data file, no lock.   *)
StoreToEnd(r) ==
  /\ lines' = [lines EXCEPT ![launch] = Append(@, r)]
  /\ UNCHANGED <<launch, files, indexJson, indexTorn, indexes, lockQ, loadVars,
                 sectionVars>>

-----------------------------------------------------------------------------
(* loadFromBegin.  The reader runs ahead of the receiver by whatever the   *)
(* stream buffers; it stops when the receiver cancels.                     *)

(* synchronized: run at once when the lock is free, else wait in order.    *)
Enqueue(kind, s, count) ==
  lockQ' = Append(lockQ, [kind |-> kind, by |-> s, count |-> count])

LoadFromBegin(s) ==
  /\ Enqueue("load", s, 0)
  /\ stream' = [stream EXCEPT ![s] = "open"]
  /\ UNCHANGED <<diskVars, indexes, cursor, buffer, sectionVars>>

OpenFileUnskipped(i, total) ==        \* a bug: the skip is forgotten
  cursor' = [file |-> i, from |-> 0, read |-> 0,
             total |-> total, terminated |-> FALSE]

OpenFile(i, total) ==
  cursor' = [file |-> i, from |-> indexes[i].position, read |-> 0,
             total |-> total, terminated |-> FALSE]

LoadStart(s) ==
  /\ step = "idle" /\ HoldsLock(s, "load") /\ cursor.file = 0
  /\ OpenFile(1, 0)
  /\ UNCHANGED <<diskVars, indexes, lockQ, stream, buffer, sectionVars>>

UnreadLines == Len(lines[indexes[cursor.file].location]) - cursor.from - cursor.read

(* takeWhile: a line past maxCount ends the file's stream.                 *)
ReadLine(s) ==
  /\ step = "idle" /\ HoldsLock(s, "load") /\ cursor.file # 0
  /\ stream[s] = "open" /\ ~cursor.terminated /\ UnreadLines > 0
  /\ IF cursor.total = MaxCount
     THEN /\ cursor' = [cursor EXCEPT !.terminated = TRUE]
          /\ UNCHANGED buffer
     ELSE /\ cursor' = [cursor EXCEPT !.total = @ + 1, !.read = @ + 1]
          /\ buffer' = [buffer EXCEPT ![s] = Append(@,
               lines[indexes[cursor.file].location][cursor.from + cursor.read + 1])]
  /\ UNCHANGED <<diskVars, indexes, lockQ, stream, sectionVars>>

(* A file is marked ended when a load got to its end and it is not the     *)
(* current one.                                                            *)
MarksEndWhenCut == ~IsLast(cursor.file)   \* a bug: maxCount cut it short
MarksEndOfCurrent == ~cursor.terminated   \* a bug: the current file too
MarksEnd == ~cursor.terminated /\ ~IsLast(cursor.file)

Loaded(index) ==
  [index EXCEPT !.pending = @ + cursor.read, !.isEnd = @ \/ MarksEnd]

(* addStream completes: end of file, maxCount reached, or the receiver is  *)
(* gone, in which case addStream of the later files completes at once too. *)
EndFile(s) ==
  /\ step = "idle" /\ HoldsLock(s, "load") /\ cursor.file # 0
  /\ cursor.terminated \/ UnreadLines <= 0 \/ stream[s] = "cancelled"
  /\ indexes' = [indexes EXCEPT ![cursor.file] = Loaded(@)]
  /\ IF IsLast(cursor.file)
     THEN /\ cursor' = NoLoad /\ lockQ' = Tail(lockQ)
          /\ stream' = [stream EXCEPT ![s] = IF @ = "open" THEN "closed" ELSE @]
     ELSE /\ OpenFile(cursor.file + 1, cursor.total)
          /\ UNCHANGED <<lockQ, stream>>
  /\ UNCHANGED <<diskVars, buffer, sectionVars>>

(* `break' or an exception in the receiver's await for.                    *)
CancelStream(s) ==
  /\ stream' = [stream EXCEPT ![s] = IF @ = "open" THEN "cancelled" ELSE "closed"]
  /\ buffer' = [buffer EXCEPT ![s] = <<>>]

-----------------------------------------------------------------------------
(* Acknowledgements.                                                       *)

(* Lines an acknowledgement up to line p of index k covers: every pending  *)
(* line of the indexes before k, and index k from its position to p.       *)
Covered(k, p) ==
  UNION {{i} \X ((indexes[i].position + 1)..(IF i < k THEN indexes[i].pending ELSE p))
         : i \in 1..k}

(* _ackFromBegin(count): the oldest pending lines are acknowledged first.  *)
(* Every index before k becomes fully acknowledged, index k reaches p, the *)
(* later ones are not touched; count lines in all, or every pending line   *)
(* when there are fewer.                                                   *)
AckedUpTo(k, p) ==
  [i \in DOMAIN indexes |->
     [indexes[i] EXCEPT !.position =
        IF i < k THEN indexes[i].pending ELSE IF i = k THEN p ELSE @]]

AckFromBegin(count) ==
  \E k \in DOMAIN indexes : \E p \in indexes[k].position..indexes[k].pending :
    LET acked == Cardinality(Covered(k, p))
    IN  /\ \/ acked = count
           \/ acked < count /\ IsLast(k) /\ p = indexes[k].pending
        /\ indexes' = AckedUpTo(k, p)

(* A section under the lock starts at the call when the lock is free.      *)
RunOrWait == step' = IF lockQ = <<>> THEN "run" ELSE "idle"

CallAck(s, count) ==
  /\ Enqueue("ack", s, count) /\ RunOrWait
  /\ UNCHANGED <<diskVars, indexes, cursor, after, victim>>

(* nAckFromBegin acknowledges before it takes the lock.                    *)
CallNAck(s, count) ==
  /\ AckFromBegin(count)
  /\ Enqueue("nack", s, count) /\ RunOrWait
  /\ UNCHANGED <<diskVars, cursor, after, victim>>

RunAck(s) ==
  /\ step \in {"idle", "run"} /\ HoldsLock(s, "ack")
  /\ AckFromBegin(lockQ[1].count)
  /\ step' = "sweep"
  /\ UNCHANGED <<diskVars, lockQ, loadVars, after, victim>>

RunNAck(s) ==
  /\ step \in {"idle", "run"} /\ HoldsLock(s, "nack")
  /\ indexes' = [i \in DOMAIN indexes |->
       IF indexes[i].position # indexes[i].pending
       THEN [indexes[i] EXCEPT !.pending = indexes[i].position, !.isEnd = FALSE]
       ELSE indexes[i]]
  /\ step' = "sweep"
  /\ UNCHANGED <<diskVars, lockQ, loadVars, after, victim>>

(* _deleteAckedDataFiles: the index is removed and stored before its file  *)
(* is deleted; a last store follows the loop.                              *)
FirstIsAcked ==
  indexes[1].isEnd /\ indexes[1].position = indexes[1].pending

RemoveFileFirst ==          \* a bug: the file goes before its index
  /\ step = "sweep" /\ FirstIsAcked
  /\ indexes' = Tail(indexes) /\ victim' = indexes[1].location
  /\ files' = files \ {indexes[1].location}
  /\ StoreIndexContext("unlink")
  /\ UNCHANGED <<launch, lines, indexJson, indexTorn, lockQ, loadVars>>

RemoveFirstIndex ==
  /\ step = "sweep" /\ FirstIsAcked
  /\ indexes' = Tail(indexes) /\ victim' = indexes[1].location
  /\ StoreIndexContext("unlink")
  /\ UNCHANGED <<diskVars, lockQ, loadVars>>

DeleteDataFile ==
  /\ step = "unlink"
  /\ files' = files \ {victim} /\ step' = "sweep"
  /\ UNCHANGED <<launch, lines, indexJson, indexTorn, indexes, lockQ, loadVars,
                 after, victim>>

FinalStore ==
  /\ step = "sweep" /\ ~FirstIsAcked
  /\ StoreIndexContext("release")
  /\ UNCHANGED <<diskVars, indexes, lockQ, loadVars, victim>>

ReleaseLock ==
  /\ step = "release"
  /\ lockQ' = Tail(lockQ) /\ step' = "idle"
  /\ UNCHANGED <<diskVars, indexes, loadVars, after, victim>>

-----------------------------------------------------------------------------
(* The operating system kills the app; only the disk survives.             *)
LocalKill ==
  /\ step # "down"
  /\ step' = "down" /\ indexes' = <<>> /\ lockQ' = <<>> /\ cursor' = NoLoad
  /\ stream' = [s \in Sessions |-> "none"] /\ buffer' = [s \in Sessions |-> <<>>]
  /\ UNCHANGED <<diskVars, after, victim>>

-----------------------------------------------------------------------------
(* Types.                                                                  *)
LocalTypeOK ==
  /\ launch \in 0..MaxLaunches
  /\ files \subseteq Files
  /\ lines \in [Files -> Seq(Records)]
  /\ indexJson \in Seq(SensorIndex) /\ indexTorn \in BOOLEAN
  /\ indexes \in Seq(SensorIndex)
  /\ lockQ \in Seq(Job)
  /\ cursor \in [file : Nat, from : Nat, read : Nat, total : Nat,
                 terminated : BOOLEAN]
  /\ stream \in [Sessions -> {"none", "open", "closed", "cancelled"}]
  /\ buffer \in [Sessions -> Seq(Records)]
  /\ step \in Steps /\ after \in Steps /\ victim \in Nat
=============================================================================
