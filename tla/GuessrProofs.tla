---------------------------- MODULE GuessrProofs ----------------------------
(***************************************************************************)
(* The consumer guessr and monitoring_keeper are built on, and guessr.     *)
(* For any number of messages, workers and permits, and any outcomes of    *)
(* functions and callbacks: permits are conserved, nothing committed is    *)
(* forgotten and at most one message is uncommitted; guessr implements the *)
(* consumer, and publishes no message again but for a rebalance or a       *)
(* crash.                                                                  *)
(*                                                                         *)
(* None of the first three is inductive.  A restart finds the pool empty,  *)
(* so that its new semaphore is right; the position of a member is the     *)
(* committed offset except while a message is on its way to the pool; and  *)
(* every message up to the position is known to somebody, committed or     *)
(* not, except that one.                                                   *)
(***************************************************************************)
EXTENDS Guessr, SequenceTheorems, FiniteSetTheorems, TLAPS

Known == handled \cup InPool \cup lost \cup skipped

OnItsWay == pc \in {"acquire", "dispatch"}

DownIsEmpty ==
  pc = "down" => taskQ = <<>> /\ results = <<>> /\ Busy = {} /\ ~member

PositionOfMember ==
  member /\ committed # NoOffset =>
    position = IF OnItsWay \/ pc = "commit" THEN committed + 1 ELSE committed

PositionKnown ==
  Running => 1..(IF OnItsWay THEN position - 1 ELSE position) \subseteq Known

IInv ==
  /\ TypeOK /\ position <= available /\ committed <= available
  /\ OnItsWay \/ pc = "commit" => position # 0
  /\ DownIsEmpty /\ PermitsConserved
  /\ PositionOfMember /\ PositionKnown /\ NothingForgotten

USE MessagesAssumption, CacheLimitAssumption, WorkersAssumption, BoundsAssumption

-----------------------------------------------------------------------------
(* The busy workers. *)

LEMMA BusyFinite == IsFiniteSet(Busy) /\ Cardinality(Busy) \in Nat
  <1>1. Busy \subseteq Workers
    BY DEF Busy
  <1> QED BY <1>1, FS_Subset, FS_CardinalityType

(* A worker that takes a task is one more, one that is rid of it one less. *)
LEMMA BusyStarts ==
  ASSUME TypeOK, NEW w \in Workers, task[w] = NoMessage, NEW m \in Messages,
         task' = [task EXCEPT ![w] = m]
  PROVE  Cardinality(Busy') = Cardinality(Busy) + 1 /\ Busy' = Busy \cup {w}
  <1>1. w \notin Busy
    BY DEF Busy
  <1>2. Busy' = Busy \cup {w}
    BY DEF Busy, TypeOK, Messages, NoMessage
  <1> QED BY <1>1, <1>2, BusyFinite, FS_AddElement

LEMMA BusyEnds ==
  ASSUME TypeOK, NEW w \in Workers, task[w] # NoMessage,
         task' = [task EXCEPT ![w] = NoMessage]
  PROVE  /\ Cardinality(Busy') = Cardinality(Busy) - 1 /\ Busy' = Busy \ {w}
         /\ Cardinality(Busy) \in Nat /\ Cardinality(Busy') \in Nat
  <1>1. w \in Busy
    BY DEF Busy
  <1>2. Busy' = Busy \ {w}
    BY DEF Busy, TypeOK
  <1> QED BY <1>1, <1>2, BusyFinite, FS_RemoveElement, FS_CardinalityType

LEMMA BusyKept == ASSUME UNCHANGED task PROVE Busy' = Busy
  BY DEF Busy

-----------------------------------------------------------------------------
(* Type correctness, but for the bounds of permits and leaked.             *)

LEMMA InitInvariant == Init => IInv
  <1> SUFFICES ASSUME Init PROVE IInv
    OBVIOUS
  <1>1. TypeOK
    <2>1. /\ available \in 0..MaxMessages /\ committed \in NoOffset..MaxMessages
          /\ evictions \in 0..MaxEvictions /\ position \in 0..MaxMessages
          /\ permits \in 0..CacheLimit /\ leaked \in 0..CacheLimit
          /\ crashes \in 0..MaxCrashes
      BY DEF Init, NoOffset
    <2>2. taskQ \in Seq(Messages) /\ results \in Seq(Result)
      BY DEF Init
    <2>3. task \in [Workers -> Messages \cup {NoMessage}]
      BY DEF Init
    <2> QED BY <2>1, <2>2, <2>3 DEF Init, TypeOK, PC
  <1>2. Busy = {}
    BY DEF Init, Busy
  <1>3. PermitsConserved
    BY <1>2, FS_EmptySet DEF Init, PermitsConserved, InFlight
  <1>4. PositionOfMember /\ PositionKnown /\ NothingForgotten
    <2>1. position = 0 /\ committed = -1 /\ pc = "poll"
      BY DEF Init, NoOffset
    <2>2. 1..0 = {} /\ 1..(-1) = {}
      OBVIOUS
    <2> QED
      BY <2>1, <2>2 DEF PositionOfMember, PositionKnown, OnItsWay, NothingForgotten, NoOffset
  <1> QED BY <1>1, <1>3, <1>4 DEF IInv, Init, DownIsEmpty, OnItsWay, NoOffset

(* The type of everything that is not a permit.                            *)
OtherTypes ==
  /\ available \in 0..MaxMessages /\ committed \in NoOffset..MaxMessages
  /\ member \in BOOLEAN /\ evictions \in 0..MaxEvictions
  /\ position \in 0..MaxMessages /\ pc \in PC /\ stop \in BOOLEAN
  /\ taskQ \in Seq(Messages) /\ results \in Seq(Result)
  /\ task \in [Workers -> Messages \cup {NoMessage}]
  /\ handlerAlive \in BOOLEAN /\ crashes \in 0..MaxCrashes
  /\ handled \subseteq Messages
  /\ lost \subseteq Messages /\ skipped \subseteq Messages

LEMMA PoolMessages == TypeOK => InPool \subseteq Messages
  <1> SUFFICES ASSUME TypeOK PROVE InPool \subseteq Messages
    OBVIOUS
  <1>1. {taskQ[i] : i \in DOMAIN taskQ} \subseteq Messages
    BY DEF TypeOK
  <1>2. {task[w] : w \in Busy} \subseteq Messages
    BY DEF TypeOK, Busy
  <1>3. {results[i].msg : i \in DOMAIN results} \subseteq Messages
    <2>1. ASSUME NEW i \in DOMAIN results PROVE results[i].msg \in Messages
      <3>1. results[i] \in Result
        BY DEF TypeOK
      <3> QED BY <3>1 DEF Result
    <2> QED BY <2>1
  <1> QED BY <1>1, <1>2, <1>3 DEF InPool

(* Where joining leads.                                                    *)
LEMMA JoinPosition ==
  ASSUME IInv, Join
  PROVE  /\ member' = TRUE /\ position' \in 0..available /\ skipped' \subseteq Messages
         /\ skipped \subseteq skipped'
         /\ committed # NoOffset => position' = committed
         /\ committed = NoOffset => 1..position' \subseteq skipped'
  <1> USE DEF IInv, TypeOK, Join, NoOffset, Messages
  <1>1. CASE committed = NoOffset
    BY <1>1
  <1>2. CASE committed # NoOffset
    BY <1>2
  <1> QED BY <1>1, <1>2

LEMMA MainTypes ==
  ASSUME IInv, Publish \/ MainStep \/ Evict \/ SetStopProcessing \/ Restart
  PROVE  OtherTypes' /\ position' <= available' /\ committed' <= available'
  <1> USE DEF IInv, TypeOK, OtherTypes, PC, NoOffset, topicVars, groupVars, mainVars,
              permitVars, poolVars, historyVars
  <1>1. CASE Publish
    BY <1>1 DEF Publish
  <1>2. CASE Take
    BY <1>2 DEF Take
  <1>3. CASE Acquire
    BY <1>3 DEF Acquire
  <1>4. CASE Dispatch
    <2>1. position \in Messages
      BY <1>4 DEF Dispatch, OnItsWay, Messages
    <2>2. taskQ' \in Seq(Messages)
      BY <1>4, <2>1 DEF Dispatch
    <2> QED BY <1>4, <2>2 DEF Dispatch
  <1>5. CASE Commit
    BY <1>5 DEF Commit
  <1>6. CASE CommitFails
    BY <1>6 DEF CommitFails
  <1>7. CASE Rejoin
    <2>1. position' \in 0..available /\ skipped' \subseteq Messages /\ member' = TRUE
      BY <1>7, JoinPosition DEF Rejoin
    <2> QED BY <1>7, <2>1 DEF Rejoin
  <1>8. CASE Evict
    <2>1. evictions' \in 0..MaxEvictions
      BY <1>8 DEF Evict
    <2> QED BY <1>8, <2>1 DEF Evict
  <1>9. CASE SetStopProcessing
    BY <1>9 DEF SetStopProcessing
  <1>10. CASE Restart
    <2>1. position' \in 0..available /\ skipped' \subseteq Messages /\ member' = TRUE
      BY <1>10, JoinPosition DEF Restart
    <2>2. pc' \in PC /\ stop' \in BOOLEAN /\ handlerAlive' \in BOOLEAN
      BY <1>10 DEF Restart
    <2> QED BY <1>10, <2>1, <2>2 DEF Restart
  <1> QED
    BY <1>1, <1>2, <1>3, <1>4, <1>5, <1>6, <1>7, <1>8, <1>9, <1>10 DEF MainStep

LEMMA PoolTypes ==
  ASSUME IInv, (\E w \in Workers : WorkerStep(w)) \/ HandlerStep \/ Die
  PROVE  OtherTypes' /\ position' <= available' /\ committed' <= available'
  <1> USE DEF IInv, TypeOK, OtherTypes, PC, NoOffset, topicVars, groupVars, mainVars,
              permitVars, poolVars, historyVars
  <1>1. ASSUME NEW w \in Workers, StartTask(w)
        PROVE  OtherTypes' /\ position' <= available' /\ committed' <= available'
    <2>1. Head(taskQ) \in Messages /\ Tail(taskQ) \in Seq(Messages)
      BY <1>1 DEF StartTask
    <2>2. task' \in [Workers -> Messages \cup {NoMessage}]
      BY <1>1, <2>1 DEF StartTask
    <2> QED BY <1>1, <2>1, <2>2 DEF StartTask
  <1>2. ASSUME NEW w \in Workers, NEW ok \in BOOLEAN, EndTask(w, ok)
        PROVE  OtherTypes' /\ position' <= available' /\ committed' <= available'
    <2>1. task[w] \in Messages
      BY <1>2 DEF EndTask
    <2>2. [msg |-> task[w], ok |-> ok] \in Result
      BY <2>1 DEF Result
    <2>3. results' \in Seq(Result)
      BY <1>2, <2>2 DEF EndTask
    <2>4. task' \in [Workers -> Messages \cup {NoMessage}]
      BY <1>2 DEF EndTask
    <2> QED BY <1>2, <2>3, <2>4 DEF EndTask
  <1>3. ASSUME NEW w \in Workers, WorkerDies(w)
        PROVE  OtherTypes' /\ position' <= available' /\ committed' <= available'
    <2>1. task[w] \in Messages
      BY <1>3 DEF WorkerDies
    <2>2. task' \in [Workers -> Messages \cup {NoMessage}]
      BY <1>3 DEF WorkerDies
    <2> QED BY <1>3, <2>1, <2>2 DEF WorkerDies
  <1>4. CASE HandlerStep
    <2>1. results # <<>> /\ results' = Tail(results) /\ handled' = handled \cup {results[1].msg}
      BY <1>4 DEF HandlerStep, HandleResult, CallbackRaises, NextResult
    <2>2. results[1] \in Result /\ results' \in Seq(Result)
      BY <2>1
    <2>3. results[1].msg \in Messages
      BY <2>2 DEF Result
    <2> QED BY <1>4, <2>1, <2>2, <2>3 DEF HandlerStep, HandleResult, CallbackRaises
  <1>5. CASE Die
    <2>1. task' \in [Workers -> Messages \cup {NoMessage}]
      BY <1>5 DEF Die
    <2>2. lost' \subseteq Messages
      BY <1>5, PoolMessages DEF Die
    <2>3. crashes' \in 0..MaxCrashes
      BY <1>5 DEF Die
    <2>4. taskQ' \in Seq(Messages) /\ results' \in Seq(Result)
      BY <1>5 DEF Die
    <2>5. pc' \in PC /\ member' \in BOOLEAN /\ stop' \in BOOLEAN
      BY <1>5 DEF Die
    <2> QED BY <1>5, <2>1, <2>2, <2>3, <2>4, <2>5 DEF Die
  <1> QED
    BY <1>1, <1>2, <1>3, <1>4, <1>5 DEF WorkerStep

-----------------------------------------------------------------------------
(* What happens to the messages in the pool. *)

LEMMA TailElements ==
  ASSUME NEW S, NEW s \in Seq(S), s # <<>>
  PROVE  \A i \in DOMAIN s : s[i] = s[1] \/ \E j \in DOMAIN Tail(s) : Tail(s)[j] = s[i]
  <1> TAKE i \in DOMAIN s
  <1>1. CASE i = 1
    BY <1>1
  <1>2. CASE i # 1
    <2>1. i - 1 \in DOMAIN Tail(s) /\ Tail(s)[i - 1] = s[i]
      BY <1>2
    <2> QED BY <2>1
  <1> QED BY <1>1, <1>2

LEMMA AppendElements ==
  ASSUME NEW S, NEW s \in Seq(S), NEW x \in S
  PROVE  /\ \A i \in DOMAIN s : i \in DOMAIN Append(s, x) /\ Append(s, x)[i] = s[i]
         /\ Len(s) + 1 \in DOMAIN Append(s, x) /\ Append(s, x)[Len(s) + 1] = x
  OBVIOUS

LEMMA PoolDispatch ==
  ASSUME IInv, Dispatch
  PROVE  position \in InPool' /\ InPool \subseteq InPool'
  <1>1. position \in Messages /\ taskQ \in Seq(Messages)
    BY DEF IInv, TypeOK, OnItsWay, Dispatch, Messages
  <1>2. taskQ' = Append(taskQ, position) /\ task' = task /\ results' = results
    BY DEF Dispatch
  <1> QED BY <1>1, <1>2, AppendElements DEF InPool, Busy

LEMMA PoolStart ==
  ASSUME IInv, NEW w \in Workers, StartTask(w)
  PROVE  InPool \subseteq InPool'
  <1>1. /\ taskQ \in Seq(Messages) /\ taskQ # <<>> /\ taskQ[1] \in Messages
        /\ taskQ' = Tail(taskQ) /\ results' = results /\ task[w] = NoMessage
        /\ task' = [task EXCEPT ![w] = taskQ[1]]
    BY DEF IInv, TypeOK, StartTask
  <1>2. Busy' = Busy \cup {w} /\ w \notin Busy
    BY <1>1, BusyStarts DEF IInv, Busy
  <1>3. taskQ[1] \in {task'[v] : v \in Busy'} /\ {task[v] : v \in Busy} \subseteq {task'[v] : v \in Busy'}
    BY <1>1, <1>2 DEF IInv, TypeOK, Busy
  <1>4. {taskQ[i] : i \in DOMAIN taskQ} \subseteq {taskQ'[i] : i \in DOMAIN taskQ'} \cup {taskQ[1]}
    BY <1>1, TailElements
  <1> QED BY <1>1, <1>3, <1>4 DEF InPool

LEMMA PoolEnd ==
  ASSUME IInv, NEW w \in Workers, NEW ok \in BOOLEAN, EndTask(w, ok)
  PROVE  InPool \subseteq InPool'
  <1> DEFINE r == [msg |-> task[w], ok |-> ok]
  <1>1. /\ results \in Seq(Result) /\ task[w] \in Messages /\ task[w] # NoMessage
        /\ taskQ' = taskQ /\ results' = Append(results, r)
        /\ task' = [task EXCEPT ![w] = NoMessage]
    BY DEF IInv, TypeOK, EndTask
  <1>2. Busy' = Busy \ {w}
    BY <1>1, BusyEnds DEF IInv
  <1>3. r \in Result /\ r.msg = task[w]
    BY <1>1 DEF Result
  <1> HIDE DEF r
  <1>4. {results[i].msg : i \in DOMAIN results} \cup {task[w]}
          \subseteq {results'[i].msg : i \in DOMAIN results'}
    BY <1>1, <1>3, AppendElements
  <1>5. {task[v] : v \in Busy} \subseteq {task'[v] : v \in Busy'} \cup {task[w]}
    BY <1>1, <1>2 DEF IInv, TypeOK, Busy
  <1> QED BY <1>1, <1>4, <1>5 DEF InPool

LEMMA PoolDies ==
  ASSUME IInv, NEW w \in Workers, WorkerDies(w)
  PROVE  InPool \subseteq InPool' \cup lost' /\ lost \subseteq lost'
  <1>1. /\ task[w] # NoMessage /\ task' = [task EXCEPT ![w] = NoMessage]
        /\ taskQ' = taskQ /\ results' = results /\ lost' = lost \cup {task[w]}
    BY DEF WorkerDies, poolVars
  <1>2. Busy' = Busy \ {w}
    BY <1>1, BusyEnds DEF IInv
  <1>3. {task[v] : v \in Busy} \subseteq {task'[v] : v \in Busy'} \cup {task[w]}
    BY <1>1, <1>2 DEF IInv, TypeOK, Busy
  <1> QED BY <1>1, <1>3 DEF InPool

LEMMA PoolHandled ==
  ASSUME IInv, HandlerStep
  PROVE  InPool \subseteq InPool' \cup handled' /\ handled \subseteq handled'
  <1>1. /\ results \in Seq(Result) /\ results # <<>> /\ results' = Tail(results)
        /\ handled' = handled \cup {results[1].msg} /\ taskQ' = taskQ /\ task' = task
    BY DEF IInv, TypeOK, HandlerStep, HandleResult, CallbackRaises, NextResult
  <1>2. {results[i].msg : i \in DOMAIN results}
          \subseteq {results'[i].msg : i \in DOMAIN results'} \cup {results[1].msg}
    <2> SUFFICES ASSUME NEW i \in DOMAIN results, results[i] # results[1]
                 PROVE  \E j \in DOMAIN results' : results'[j] = results[i]
      BY <1>1
    <2> DEFINE s == results
    <2>1. s \in Seq(Result) /\ s # <<>>
      BY <1>1
    <2> HIDE DEF s
    <2>2. \A n \in DOMAIN s : s[n] = s[1] \/ \E j \in DOMAIN Tail(s) : Tail(s)[j] = s[n]
      BY <2>1, TailElements
    <2> QED BY <1>1, <2>2 DEF s
  <1>3. Busy' = Busy
    BY <1>1, BusyKept
  <1>4. /\ {taskQ'[i] : i \in DOMAIN taskQ'} = {taskQ[i] : i \in DOMAIN taskQ}
        /\ {task'[w] : w \in Busy'} = {task[w] : w \in Busy}
    BY <1>1, <1>3
  <1> QED BY <1>1, <1>2, <1>4 DEF InPool

(* No step forgets a message.                                              *)
LEMMA KnownKept ==
  ASSUME IInv, Next
  PROVE  Known \subseteq Known'
  <1> USE DEF Known
  <1>1. ASSUME taskQ' = taskQ, task' = task, results' = results, handled' = handled,
               lost' = lost, skipped \subseteq skipped'
        PROVE  Known \subseteq Known'
    BY <1>1 DEF InPool, Busy
  <1>2. CASE Dispatch
    BY <1>2, PoolDispatch DEF Dispatch, historyVars
  <1>3. CASE Rejoin
    <2>1. skipped \subseteq skipped'
      BY <1>3, JoinPosition DEF Rejoin
    <2> QED BY <1>1, <1>3, <2>1 DEF Rejoin, poolVars
  <1>4. CASE Restart
    <2>1. skipped \subseteq skipped'
      BY <1>4, JoinPosition DEF Restart
    <2> QED BY <1>1, <1>4, <2>1 DEF Restart
  <1>5. CASE Publish \/ Take \/ Acquire
    BY <1>1, <1>5 DEF Publish, Take, Acquire, poolVars, historyVars
  <1>6. CASE Commit \/ CommitFails
    BY <1>1, <1>6 DEF Commit, CommitFails, poolVars, historyVars
  <1>7. CASE Evict \/ SetStopProcessing
    BY <1>1, <1>7 DEF Evict, SetStopProcessing, poolVars, historyVars
  <1>8. ASSUME NEW w \in Workers, StartTask(w) PROVE Known \subseteq Known'
    BY <1>8, PoolStart DEF StartTask, historyVars
  <1>9. ASSUME NEW w \in Workers, NEW ok \in BOOLEAN, EndTask(w, ok)
        PROVE  Known \subseteq Known'
    BY <1>9, PoolEnd DEF EndTask, historyVars
  <1>10. ASSUME NEW w \in Workers, WorkerDies(w) PROVE Known \subseteq Known'
    BY <1>10, PoolDies DEF WorkerDies
  <1>11. CASE HandlerStep
    <2>1. lost' = lost /\ skipped' = skipped
      BY <1>11 DEF HandlerStep, HandleResult, CallbackRaises
    <2> QED BY <1>11, <2>1, PoolHandled
  <1>12. CASE Die
    <2>1. lost' = lost \cup InPool /\ handled' = handled /\ skipped' = skipped
      BY <1>12 DEF Die
    <2> QED BY <2>1
  <1> QED
    BY <1>2, <1>3, <1>4, <1>5, <1>6, <1>7, <1>8, <1>9, <1>10, <1>11, <1>12
       DEF Next, MainStep, WorkerStep

-----------------------------------------------------------------------------
(* The permits. *)

LEMMA MainPermits ==
  ASSUME IInv, Publish \/ MainStep \/ Evict \/ SetStopProcessing \/ Restart
  PROVE  PermitsConserved' /\ permits' \in Nat /\ leaked' \in Nat
  <1> USE BusyFinite DEF IInv, TypeOK, PermitsConserved, InFlight, Running
  <1>1. CASE UNCHANGED <<permits, leaked, taskQ, task, results, pc>>
    BY <1>1, BusyKept
  <1>2. CASE Publish \/ Rejoin \/ Evict \/ SetStopProcessing
    BY <1>1, <1>2 DEF Publish, Rejoin, Evict, SetStopProcessing, mainVars, permitVars, poolVars
  <1>3. CASE Take \/ Commit \/ CommitFails
    <2>1. /\ pc # "dispatch" /\ pc' # "dispatch" /\ pc # "down"
          /\ UNCHANGED <<permits, leaked, taskQ, task, results>>
      BY <1>3 DEF Take, Commit, CommitFails, permitVars, poolVars
    <2> QED BY <2>1, BusyKept
  <1>4. CASE Acquire
    <2>1. /\ pc = "acquire" /\ pc' = "dispatch" /\ permits > 0 /\ permits' = permits - 1
          /\ UNCHANGED <<leaked, taskQ, task, results>>
      BY <1>4 DEF Acquire, poolVars
    <2> QED BY <2>1, BusyKept
  <1>5. CASE Dispatch
    <2>1. /\ pc = "dispatch" /\ pc' = "commit" /\ taskQ' = Append(taskQ, position)
          /\ UNCHANGED <<permits, leaked, task, results>> /\ position \in Messages
      BY <1>5 DEF Dispatch, permitVars, OnItsWay, Messages
    <2>2. Len(taskQ') = Len(taskQ) + 1 /\ Len(taskQ) \in Nat
      BY <2>1
    <2> QED BY <2>1, <2>2, BusyKept
  <1>6. CASE Restart
    <2>1. /\ pc = "down" /\ pc' = "poll" /\ permits' = CacheLimit /\ leaked' = 0
          /\ UNCHANGED <<taskQ, task, results>>
      BY <1>6 DEF Restart
    <2>2. taskQ = <<>> /\ results = <<>> /\ Cardinality(Busy) = 0
      BY <2>1, FS_EmptySet DEF DownIsEmpty
    <2> QED BY <2>1, <2>2, BusyKept
  <1> QED BY <1>2, <1>3, <1>4, <1>5, <1>6 DEF MainStep

Waiting == Len(taskQ) + Cardinality(Busy) + Len(results)

LEMMA WaitingNat == TypeOK => Waiting \in Nat
  BY BusyFinite DEF TypeOK, Waiting

(* A permit goes from where it was to one place.                           *)
LEMMA PermitMoves ==
  ASSUME IInv, pc' = pc, Waiting' \in Nat, permits' \in Nat, leaked' \in Nat,
         permits' + leaked' + Waiting' = permits + leaked + Waiting
  PROVE  PermitsConserved'
  <1> SUFFICES ASSUME pc' # "down"
               PROVE  permits' + InFlight' + leaked' = CacheLimit
    BY DEF PermitsConserved, Running
  <1> DEFINE d == IF pc = "dispatch" THEN 1 ELSE 0
  <1>1. Waiting \in Nat
    BY WaitingNat DEF IInv
  <1>2. permits \in Nat /\ leaked \in Nat /\ CacheLimit \in Nat
    BY DEF IInv, TypeOK
  <1>3. d \in Nat
    OBVIOUS
  <1>4. InFlight = Waiting + d /\ InFlight' = Waiting' + d
    BY DEF InFlight, Waiting
  <1>5. permits + InFlight + leaked = CacheLimit
    BY DEF IInv, PermitsConserved, Running
  <1> DEFINE p == permits'
             l == leaked'
             w == Waiting'
  <1>6. p \in Nat /\ l \in Nat /\ w \in Nat /\ InFlight' = w + d
    BY <1>4
  <1>7. p + l + w = permits + leaked + Waiting
    OBVIOUS
  <1>8. SUFFICES p + (w + d) + l = CacheLimit
    BY <1>6
  <1> HIDE DEF d, p, l, w
  <1>9. permits + leaked + Waiting = CacheLimit - d
    BY <1>1, <1>2, <1>3, <1>4, <1>5
  <1> QED BY <1>2, <1>3, <1>6, <1>7, <1>9

LEMMA PoolPermits ==
  ASSUME IInv, (\E w \in Workers : WorkerStep(w)) \/ HandlerStep \/ Die
  PROVE  PermitsConserved' /\ permits' \in Nat /\ leaked' \in Nat
  <1> USE BusyFinite DEF IInv, TypeOK, PermitsConserved, InFlight, Running
  <1>1. ASSUME NEW w \in Workers, StartTask(w)
        PROVE  PermitsConserved' /\ permits' \in Nat /\ leaked' \in Nat
    <2>1. /\ taskQ # <<>> /\ taskQ' = Tail(taskQ) /\ Head(taskQ) \in Messages
          /\ task[w] = NoMessage /\ task' = [task EXCEPT ![w] = Head(taskQ)]
          /\ UNCHANGED <<permits, leaked, results, pc>>
      BY <1>1 DEF StartTask, permitVars, mainVars
    <2>2. Len(taskQ') = Len(taskQ) - 1 /\ Len(taskQ) \in Nat
      BY <2>1
    <2>3. Cardinality(Busy') = Cardinality(Busy) + 1
      BY <2>1, BusyStarts
    <2> QED BY <2>1, <2>2, <2>3
  <1>2. ASSUME NEW w \in Workers, NEW ok \in BOOLEAN, EndTask(w, ok)
        PROVE  PermitsConserved' /\ permits' \in Nat /\ leaked' \in Nat
    <2>1. /\ task[w] # NoMessage /\ task' = [task EXCEPT ![w] = NoMessage]
          /\ results' = Append(results, [msg |-> task[w], ok |-> ok])
          /\ UNCHANGED <<permits, leaked, taskQ, pc>>
      BY <1>2 DEF EndTask, permitVars, mainVars
    <2>2. Len(results') = Len(results) + 1 /\ Len(results) \in Nat
      BY <2>1
    <2>3. Cardinality(Busy') = Cardinality(Busy) - 1
      BY <2>1, BusyEnds
    <2> QED BY <2>1, <2>2, <2>3
  <1>3. ASSUME NEW w \in Workers, WorkerDies(w)
        PROVE  PermitsConserved' /\ permits' \in Nat /\ leaked' \in Nat
    <2>1. /\ task[w] # NoMessage /\ task' = [task EXCEPT ![w] = NoMessage]
          /\ leaked' = leaked + 1 /\ UNCHANGED <<permits, taskQ, results, pc>>
      BY <1>3 DEF WorkerDies, mainVars
    <2>2. /\ Cardinality(Busy') = Cardinality(Busy) - 1
          /\ Cardinality(Busy) \in Nat /\ Cardinality(Busy') \in Nat
      BY <2>1, BusyEnds
    <2>3. Len(taskQ) \in Nat /\ Len(results) \in Nat /\ permits \in Nat /\ leaked \in Nat
      OBVIOUS
    <2>4. Waiting' = Waiting - 1 /\ Waiting' \in Nat
      BY <2>1, <2>2, <2>3 DEF Waiting
    <2>5. permits' + leaked' + Waiting' = permits + leaked + Waiting
      BY <2>1, <2>3, <2>4, WaitingNat
    <2>6. permits' \in Nat /\ leaked' \in Nat /\ pc' = pc
      BY <2>1, <2>3
    <2> QED BY <2>4, <2>5, <2>6, PermitMoves
  <1>4. CASE HandlerStep
    <2>1. /\ results # <<>> /\ results' = Tail(results)
          /\ \/ permits' = permits + 1 /\ leaked' = leaked
             \/ permits' = permits /\ leaked' = leaked + 1
          /\ UNCHANGED <<taskQ, task, pc>>
      BY <1>4 DEF HandlerStep, HandleResult, CallbackRaises, NextResult, mainVars
    <2>2. /\ Len(results') = Len(results) - 1 /\ Len(results) \in Nat /\ Len(taskQ) \in Nat
          /\ permits \in Nat /\ leaked \in Nat
      BY <2>1
    <2>3. permits' \in Nat /\ leaked' \in Nat /\ permits' + leaked' = permits + leaked + 1
      BY <2>1, <2>2
    <2>4. Busy' = Busy
      BY <2>1, BusyKept
    <2>5. Len(results') \in Nat
      BY <2>1
    <2>6. Waiting \in Nat /\ Waiting' = Waiting - 1 /\ Waiting' \in Nat
      BY <2>1, <2>2, <2>4, <2>5 DEF Waiting
    <2>7. permits' + leaked' + Waiting' = permits + leaked + Waiting
      <3> DEFINE p == permits'
                 l == leaked'
                 w == Waiting'
      <3>1. p \in Nat /\ l \in Nat /\ p + l = permits + leaked + 1 /\ w = Waiting - 1
        BY <2>3, <2>6
      <3> HIDE DEF p, l, w
      <3>2. p + l + w = permits + leaked + Waiting
        BY <2>2, <2>6, <3>1
      <3> QED BY <3>2 DEF p, l, w
    <2> QED BY <2>1, <2>3, <2>6, <2>7, PermitMoves
  <1>5. CASE Die
    BY <1>5 DEF Die, permitVars
  <1> QED BY <1>1, <1>2, <1>3, <1>4, <1>5 DEF WorkerStep

(* What a stopped process leaves in the pool.                              *)
LEMMA DownStep ==
  ASSUME IInv, Next
  PROVE  DownIsEmpty' /\ (pc' = "down" => (Die \/ pc = "down"))
  <1> USE DEF IInv, DownIsEmpty
  <1>1. CASE Die
    BY <1>1 DEF Die, Busy
  <1>2. CASE pc = "down" /\ ~Restart /\ ~Die
    <2>1. UNCHANGED <<pc, taskQ, results, task, member>>
      BY <1>2 DEF Next, MainStep, WorkerStep, HandlerStep, Publish, Take, Acquire, Dispatch,
                  Commit, CommitFails, Rejoin, StartTask, EndTask, WorkerDies, HandleResult,
                  CallbackRaises, NextResult, Evict, SetStopProcessing, Running,
                  groupVars, mainVars, poolVars
    <2> QED BY <2>1, BusyKept
  <1>3. CASE pc # "down" /\ ~Die
    <2>1. pc' # "down"
      BY <1>3 DEF Next, MainStep, WorkerStep, HandlerStep, Publish, Take, Acquire, Dispatch,
                  Commit, CommitFails, Rejoin, StartTask, EndTask, WorkerDies, HandleResult,
                  CallbackRaises, NextResult, Evict, SetStopProcessing, Restart, mainVars
    <2> QED BY <2>1
  <1>4. CASE Restart
    BY <1>4 DEF Restart
  <1> QED BY <1>1, <1>2, <1>3, <1>4

-----------------------------------------------------------------------------
(* The position and what is known up to it. *)

Positions ==
  /\ PositionOfMember /\ PositionKnown /\ NothingForgotten
  /\ OnItsWay \/ pc = "commit" => position # 0

LEMMA PositionStays ==
  ASSUME IInv, Known \subseteq Known', UNCHANGED <<member, committed, position, pc>>
  PROVE  Positions'
  BY DEF IInv, Positions, PositionOfMember, PositionKnown, NothingForgotten, OnItsWay,
         Running, Known

LEMMA PositionJoins ==
  ASSUME IInv, Known \subseteq Known', skipped' \subseteq Known', Join, pc' = "poll",
         committed' = committed
  PROVE  Positions'
  <1>1. /\ position' \in 0..available
        /\ committed # NoOffset => position' = committed
        /\ committed = NoOffset => 1..position' \subseteq skipped'
    BY JoinPosition
  <1>2. 1..committed \subseteq Known'
    BY DEF IInv, NothingForgotten, Known
  <1>3. 1..position' \subseteq Known'
    BY <1>1, <1>2
  <1> QED
    BY <1>1, <1>2, <1>3
       DEF Positions, PositionOfMember, PositionKnown, NothingForgotten, OnItsWay, Known

LEMMA PositionMoves ==
  ASSUME IInv, Known \subseteq Known', Take \/ Acquire \/ Commit \/ CommitFails \/ Evict
  PROVE  Positions'
  <1> USE DEF IInv, TypeOK, Positions, PositionOfMember, PositionKnown, NothingForgotten,
              OnItsWay, Running, NoOffset
  <1>1. \A m \in 1..committed : m \in Known'
    BY DEF Known
  <1> USE DEF topicVars, groupVars, mainVars
  <1>2. CASE Take
    <2>1. CASE stop
      BY <1>1, <1>2, <2>1 DEF Take, Known
    <2>2. CASE ~stop
      <3>1. /\ pc = "poll" /\ pc' = "acquire" /\ position' = position + 1
            /\ UNCHANGED <<member, committed>>
        BY <1>2, <2>2 DEF Take
      <3>2. position' - 1 = position /\ position' # 0
        BY <3>1
      <3>3. PositionOfMember'
        BY <3>1
      <3>4. PositionKnown'
        BY <3>1, <3>2
      <3>5. NothingForgotten'
        BY <1>1, <3>1 DEF Known
      <3> QED BY <3>1, <3>2, <3>3, <3>4, <3>5
    <2> QED BY <2>1, <2>2
  <1>3. CASE Acquire
    BY <1>1, <1>3 DEF Acquire, Known
  <1>4. CASE Commit
    <2>1. /\ pc = "commit" /\ member /\ committed' = position /\ pc' = "poll"
          /\ UNCHANGED <<position, member>>
      BY <1>4 DEF Commit
    <2>2. 1..position \subseteq Known'
      BY <2>1
    <2> QED BY <2>1, <2>2 DEF Known
  <1>5. CASE CommitFails
    <2>1. /\ pc = "commit" /\ ~member /\ pc' = "poll"
          /\ UNCHANGED <<position, member, committed>>
      BY <1>5 DEF CommitFails
    <2>2. 1..position \subseteq Known'
      BY <2>1
    <2> QED BY <1>1, <2>1, <2>2 DEF Known
  <1>6. CASE Evict
    <2>1. ~member' /\ UNCHANGED <<committed, position, pc>>
      BY <1>6 DEF Evict
    <2> QED BY <1>1, <2>1 DEF Known
  <1> QED BY <1>2, <1>3, <1>4, <1>5, <1>6

LEMMA PositionDispatched ==
  ASSUME IInv, Known \subseteq Known', Dispatch
  PROVE  Positions'
  <1>1. /\ pc = "dispatch" /\ pc' = "commit" /\ UNCHANGED <<member, committed, position>>
    BY DEF Dispatch, topicVars, groupVars
  <1>2. position \in Known' /\ position \in Nat /\ position # 0
    BY <1>1, PoolDispatch DEF Known, IInv, TypeOK, OnItsWay
  <1>3. 1..(position - 1) \subseteq Known'
    BY <1>1 DEF IInv, PositionKnown, OnItsWay, Running
  <1>4. 1..position \subseteq Known'
    BY <1>2, <1>3
  <1> QED
    BY <1>1, <1>2, <1>4
       DEF IInv, Positions, PositionOfMember, PositionKnown, NothingForgotten, OnItsWay, Known

LEMMA PositionStep ==
  ASSUME IInv, Next
  PROVE  Positions'
  <1>1. Known \subseteq Known'
    BY KnownKept
  <1>2. CASE Take \/ Acquire \/ Commit \/ CommitFails \/ Evict
    BY <1>1, <1>2, PositionMoves
  <1>3. CASE Dispatch
    BY <1>1, <1>3, PositionDispatched
  <1>4. CASE Rejoin
    BY <1>1, <1>4, PositionJoins DEF Rejoin, Known, topicVars
  <1>5. CASE Restart
    BY <1>1, <1>5, PositionJoins DEF Restart, Known, topicVars
  <1>6. CASE Die
    <2>1. pc' = "down" /\ member' = FALSE /\ committed' = committed
      BY <1>6 DEF Die, topicVars
    <2> QED
      BY <1>1, <2>1 DEF IInv, Positions, PositionOfMember, PositionKnown, NothingForgotten,
                        OnItsWay, Running, Known
  <1>7. CASE Publish \/ SetStopProcessing \/ HandlerStep \/ \E w \in Workers : WorkerStep(w)
    <2>1. UNCHANGED <<member, committed, position, pc>>
      BY <1>7 DEF Publish, SetStopProcessing, HandlerStep, HandleResult, CallbackRaises,
                  WorkerStep, StartTask, EndTask, WorkerDies, topicVars, groupVars, mainVars
    <2> QED BY <1>1, <2>1, PositionStays
  <1> QED BY <1>2, <1>3, <1>4, <1>5, <1>6, <1>7 DEF Next, MainStep

(* The parts of a sum are within it. *)
LEMMA PartsBounded ==
  ASSUME NEW p \in Nat, NEW f \in Nat, NEW l \in Nat, p + f + l = CacheLimit
  PROVE  p \in 0..CacheLimit /\ l \in 0..CacheLimit
  OBVIOUS

LEMMA CountsNext ==
  ASSUME OtherTypes' PROVE InFlight' \in Nat
  <1>1. Cardinality(Busy') \in Nat
    <2>1. Busy' \subseteq Workers
      BY DEF Busy
    <2> QED BY <2>1, FS_Subset, FS_CardinalityType
  <1>2. Len(taskQ') \in Nat /\ Len(results') \in Nat
    BY DEF OtherTypes
  <1> DEFINE n == IF pc' = "dispatch" THEN 1 ELSE 0
  <1>3. n \in Nat
    OBVIOUS
  <1>4. InFlight' = Len(taskQ') + Cardinality(Busy') + Len(results') + n
    BY DEF InFlight
  <1> HIDE DEF n
  <1> QED BY <1>1, <1>2, <1>3, <1>4

(* A process that is down touches no permit. *)
LEMMA DownKeepsPermits ==
  ASSUME IInv, Next, pc' = "down"
  PROVE  permits' = permits /\ leaked' = leaked
  <1> USE DEF topicVars, groupVars, mainVars, permitVars, poolVars, historyVars
  <1>1. CASE Publish \/ Evict \/ SetStopProcessing \/ Die
    BY <1>1 DEF Publish, Evict, SetStopProcessing, Die
  <1>2. CASE MainStep \/ Restart
    BY <1>2 DEF MainStep, Take, Acquire, Dispatch, Commit, CommitFails, Rejoin, Restart
  <1>3. CASE HandlerStep \/ \E w \in Workers : WorkerStep(w)
    BY <1>3 DEF HandlerStep, HandleResult, CallbackRaises, NextResult, Running, WorkerStep,
                StartTask, EndTask, WorkerDies
  <1> QED BY <1>1, <1>2, <1>3 DEF Next

LEMMA StepInvariant == IInv /\ [Next]_vars => IInv'
  <1> SUFFICES ASSUME IInv, [Next]_vars PROVE IInv'
    OBVIOUS
  <1>1. CASE UNCHANGED vars
    <2>1. UNCHANGED <<available, committed, member, evictions, position, pc, stop, permits,
                      leaked, taskQ, task, results, handlerAlive, crashes, handled, lost,
                      skipped>>
      BY <1>1 DEF vars, topicVars, groupVars, mainVars, permitVars, poolVars, historyVars
    <2>2. Busy' = Busy
      BY <2>1 DEF Busy
    <2>3. InPool' = InPool
      BY <2>1, <2>2 DEF InPool
    <2>4. TypeOK' /\ OnItsWay' = OnItsWay
      BY <2>1 DEF IInv, TypeOK, OnItsWay
    <2>5. DownIsEmpty' /\ PermitsConserved'
      BY <2>1, <2>2 DEF IInv, DownIsEmpty, PermitsConserved, InFlight, Running
    <2>6. PositionOfMember' /\ PositionKnown' /\ NothingForgotten'
      BY <2>1, <2>3, <2>4 DEF IInv, PositionOfMember, PositionKnown, NothingForgotten, Known, Running
    <2> QED BY <2>1, <2>4, <2>5, <2>6 DEF IInv
  <1>2. CASE Next
    <2>1. /\ PermitsConserved' /\ permits' \in Nat /\ leaked' \in Nat
          /\ OtherTypes' /\ position' <= available' /\ committed' <= available'
      BY <1>2, MainTypes, PoolTypes, MainPermits, PoolPermits DEF Next
    <2>2. Positions' /\ DownIsEmpty'
      BY <1>2, PositionStep, DownStep
    <2>3. permits' \in 0..CacheLimit /\ leaked' \in 0..CacheLimit
      <3>1. CASE pc' = "down"
        <4>1. permits' = permits /\ leaked' = leaked
          BY <1>2, <3>1, DownKeepsPermits
        <4> QED BY <4>1 DEF IInv, TypeOK
      <3>2. CASE pc' # "down"
        <4>1. permits' + InFlight' + leaked' = CacheLimit /\ InFlight' \in Nat
          BY <2>1, <3>2, CountsNext DEF PermitsConserved, Running
        <4> QED BY <2>1, <4>1, PartsBounded
      <3> QED BY <3>1, <3>2
    <2> QED BY <2>1, <2>2, <2>3 DEF IInv, Positions, TypeOK, OtherTypes
  <1> QED BY <1>1, <1>2

-----------------------------------------------------------------------------
(* The invariant holds for every number of messages, workers and permits.  *)
THEOREM Invariance == Spec => []IInv
  <1>1. Init => IInv
    BY InitInvariant
  <1>2. IInv /\ [Next]_vars => IInv'
    BY StepInvariant
  <1> QED BY <1>1, <1>2, PTL DEF Spec

(* The variables of the consumer keep their types.                         *)
THEOREM TypeCorrect == Spec => []TypeOK
  <1>1. IInv => TypeOK
    BY DEF IInv
  <1> QED BY Invariance, <1>1, PTL

(* Each permit taken by main_loop is released once, or gone with a worker  *)
(* that died or a callback that raised.                                    *)
THEOREM PermitsKept == Spec => []PermitsConserved
  <1>1. IInv => PermitsConserved
    BY DEF IInv
  <1> QED BY Invariance, <1>1, PTL

(* What is committed is handled, in the pool, lost or skipped.             *)
THEOREM CommittedKnown == Spec => []NothingForgotten
  <1>1. IInv => NothingForgotten
    BY DEF IInv
  <1> QED BY Invariance, <1>1, PTL

(* A member is at most one message ahead of what it has committed.         *)
THEOREM OneAhead == Spec => []WindowOfOne
  <1>1. IInv => WindowOfOne
    BY DEF IInv, TypeOK, PositionOfMember, WindowOfOne, NoOffset
  <1> QED BY Invariance, <1>1, PTL

-----------------------------------------------------------------------------
(* guessr: what it does with the producer disturbs nothing the consumer    *)
(* promises.                                                               *)

LEMMA StepOfConsumer == GuessrNext => [Next]_vars
  <1>1. ASSUME NEW w \in Workers, FunctionEnds(w) PROVE Next
    BY <1>1 DEF FunctionEnds, Next, WorkerStep
  <1>2. CASE Callback \/ SendRaises
    BY <1>2 DEF Callback, SendRaises, Next, HandlerStep
  <1>3. CASE Sender
    BY <1>3 DEF Sender
  <1>4. CASE End
    BY <1>4 DEF End, Next
  <1>5. CASE Elsewhere
    BY <1>5 DEF Elsewhere, Next, WorkerStep
  <1> QED BY <1>1, <1>2, <1>3, <1>4, <1>5 DEF GuessrNext

-----------------------------------------------------------------------------
(* Every behaviour of the service is one of the consumer.                  *)
THEOREM ImplementsConsumer == GuessrSpec => Spec
  <1>1. GuessrInit => Init
    BY DEF GuessrInit
  <1>2. [GuessrNext]_allVars => [Next]_vars
    <2>1. UNCHANGED allVars => UNCHANGED vars
      BY DEF allVars
    <2> QED BY <2>1, StepOfConsumer
  <1> QED BY <1>1, <1>2, PTL DEF GuessrSpec, Spec

(* In guessr, each permit taken by main_loop is released once, or gone     *)
(* with a worker that died or a send that raised.                          *)
THEOREM GuessrKeepsPermits == GuessrSpec => []PermitsConserved
  BY ImplementsConsumer, PermitsKept, PTL

(* What guessr has committed is handled, in its pool, lost or skipped.     *)
THEOREM GuessrForgetsNothing == GuessrSpec => []NothingForgotten
  BY ImplementsConsumer, CommittedKnown, PTL

(* guessr is at most one message ahead of what it has committed.           *)
THEOREM GuessrOneAhead == GuessrSpec => []WindowOfOne
  BY ImplementsConsumer, OneAhead, PTL

-----------------------------------------------------------------------------
(* How often guessr publishes the points of a message.  The bound is not   *)
(* inductive: what counts is, besides the messages sent, where a message   *)
(* is on its way there, and how often the consumer can still come across   *)
(* it, before the next rebalance or crash.                                 *)

Places(s, m) == {i \in DOMAIN s : s[i] = m}
Count(s, m) == Cardinality(Places(s, m))

EndedAt(s, m) == {i \in DOMAIN s : s[i].msg = m}
WorkersAt(t, m) == {w \in Workers : t[w] = m}

InHand(m) == IF OnItsWay /\ position = m THEN 1 ELSE 0

(* Where a member that joins begins, and whether a message is after it.    *)
Beginning == IF committed = NoOffset THEN available ELSE committed
After(n, m) == IF m > n THEN 1 ELSE 0

ToCome(m) ==
  IF pc \in {"exited", "down"} THEN After(Beginning, m)
  ELSE After(position, m) + (IF member THEN 0 ELSE After(Beginning, m))

(* What is sent, what is in the pool, and what the main loop has in hand   *)
(* or can come across.                                                     *)
Published(m) == Count(stored, m) + Count(buffer, m)
Inside(m) == Cardinality(EndedAt(results, m)) + Cardinality(WorkersAt(task, m))
               + Count(taskQ, m)
Ahead(m) == InHand(m) + ToCome(m)

Reads(m) == Published(m) + Inside(m) + Ahead(m)
Faults == evictions + crashes

GuessrIInv ==
  /\ IInv /\ buffer \in Seq(Messages) /\ stored \in Seq(Messages)
  /\ \A m \in Messages : Reads(m) <= 1 + evictions + crashes

-----------------------------------------------------------------------------
(* Counting the places of a queue that grows at its end or shrinks at its  *)
(* head.                                                                   *)

(* Places moved by a distance are as many.                                 *)
LEMMA SameNumber ==
  ASSUME NEW A \in SUBSET Nat, IsFiniteSet(A), NEW k \in Int, NEW B \in SUBSET Nat,
         \A i \in A : i + k \in B, \A j \in B : j - k \in A
  PROVE  IsFiniteSet(B) /\ Cardinality(B) = Cardinality(A)
  <1> DEFINE f == [i \in A |-> i + k]
  <1>1. f \in [A -> B]
    OBVIOUS
  <1>2. \A i, j \in A : f[i] = f[j] => i = j
    <2>1. \A i, j \in A : i + k = j + k => i = j
      OBVIOUS
    <2> QED BY <2>1
  <1>3. \A j \in B : \E i \in A : f[i] = j
    <2> SUFFICES ASSUME NEW j \in B PROVE \E i \in A : f[i] = j
      OBVIOUS
    <2>1. j - k \in A /\ (j - k) + k = j
      OBVIOUS
    <2> QED BY <2>1
  <1>4. f \in Bijection(A, B)
    BY <1>1, <1>2, <1>3 DEF Bijection, Injection, IsInjective, Surjection
  <1> QED BY <1>4, FS_Bijection DEF ExistsBijection

LEMMA PlacesFinite ==
  ASSUME NEW n \in Nat, NEW A \in SUBSET (1..n)
  PROVE  IsFiniteSet(A) /\ Cardinality(A) \in Nat
  <1>1. IsFiniteSet(1..n)
    BY FS_Interval
  <1>2. IsFiniteSet(A)
    BY <1>1, FS_Subset
  <1> QED BY <1>2, FS_CardinalityType

LEMMA PlacesOfTail ==
  ASSUME NEW n \in Nat, NEW A \in SUBSET (1..(n + 1)), NEW B \in SUBSET (1..n),
         \A i \in 1..n : i \in B <=> i + 1 \in A
  PROVE  Cardinality(A) = Cardinality(B) + (IF 1 \in A THEN 1 ELSE 0)
  <1>1. IsFiniteSet(A) /\ IsFiniteSet(B) /\ Cardinality(A) \in Nat /\ Cardinality(B) \in Nat
    <2>1. n + 1 \in Nat
      OBVIOUS
    <2>2. IsFiniteSet(A) /\ Cardinality(A) \in Nat
      BY <2>1, PlacesFinite
    <2>3. IsFiniteSet(B) /\ Cardinality(B) \in Nat
      BY PlacesFinite
    <2> QED BY <2>2, <2>3
  <1>2. \A i \in A \ {1} : i + (-1) \in B
    OBVIOUS
  <1>3. \A j \in B : j - (-1) \in A \ {1}
    OBVIOUS
  <1>4. Cardinality(B) = Cardinality(A \ {1})
    <2>1. A \ {1} \in SUBSET Nat /\ B \in SUBSET Nat
      OBVIOUS
    <2>2. IsFiniteSet(A \ {1})
      BY <1>1, FS_RemoveElement
    <2>3. PICK R : R = A \ {1}
      OBVIOUS
    <2>4. PICK k \in Int : k = -1
      OBVIOUS
    <2>5. /\ R \in SUBSET Nat /\ B \in SUBSET Nat /\ IsFiniteSet(R)
          /\ \A i \in R : i + k \in B
          /\ \A j \in B : j - k \in R
      BY <1>2, <1>3, <2>1, <2>2, <2>3, <2>4
    <2>6. Cardinality(B) = Cardinality(R)
      BY <2>5, SameNumber
    <2> QED BY <2>3, <2>6
  <1>5. CASE 1 \in A
    <2>1. Cardinality(A \ {1}) = Cardinality(A) - 1
      BY <1>1, <1>5, FS_RemoveElement
    <2>2. Cardinality(A) = Cardinality(B) + 1
      BY <1>1, <1>4, <2>1
    <2> QED BY <1>5, <2>2
  <1>6. CASE 1 \notin A
    <2>1. A \ {1} = A
      BY <1>6
    <2>2. Cardinality(A) = Cardinality(B)
      BY <1>4, <2>1
    <2> QED BY <1>1, <1>6, <2>2
  <1> QED BY <1>5, <1>6

LEMMA PlacesOfAppend ==
  ASSUME NEW n \in Nat, NEW A \in SUBSET (1..n), NEW B \in SUBSET (1..(n + 1)),
         \A i \in 1..n : i \in B <=> i \in A
  PROVE  Cardinality(B) = Cardinality(A) + (IF n + 1 \in B THEN 1 ELSE 0)
  <1>1. IsFiniteSet(A) /\ Cardinality(A) \in Nat
    BY PlacesFinite
  <1>2. CASE n + 1 \in B
    <2>1. n + 1 \notin A
      OBVIOUS
    <2>2. \A i \in B : i \in 1..n \/ i = n + 1
      OBVIOUS
    <2>3. B = A \cup {n + 1}
      BY <1>2, <2>2
    <2>4. Cardinality(A \cup {n + 1}) = Cardinality(A) + 1
      BY <1>1, <2>1, FS_AddElement
    <2> QED BY <1>2, <2>3, <2>4
  <1>3. CASE n + 1 \notin B
    <2>1. \A i \in B : i \in 1..n
      BY <1>3
    <2>2. B = A
      BY <2>1
    <2> QED BY <1>1, <1>3, <2>2
  <1> QED BY <1>2, <1>3

(* The places of a queue and those of what follows it.                     *)
LEMMA CountConcat ==
  ASSUME NEW s \in Seq(Messages), NEW t \in Seq(Messages), NEW m
  PROVE  Cardinality({i \in DOMAIN (s \o t) : (s \o t)[i] = m})
           = Count(s, m) + Count(t, m)
  <1> DEFINE n == Len(s)
             r == s \o t
             A == Places(s, m)
             B == Places(t, m)
             C == {i \in DOMAIN r : r[i] = m}
             D == {i \in C : i > n}
  <1>1. /\ n \in Nat /\ Len(t) \in Nat /\ DOMAIN s = 1..n /\ DOMAIN t = 1..Len(t)
        /\ DOMAIN r = 1..(n + Len(t))
        /\ \A i \in DOMAIN r : r[i] = IF i <= n THEN s[i] ELSE t[i - n]
    <2>1. /\ r \in Seq(Messages) /\ Len(r) = n + Len(t)
          /\ \A i \in 1..(n + Len(t)) : r[i] = IF i <= n THEN s[i] ELSE t[i - n]
      BY ConcatProperties
    <2> QED BY <2>1
  <1> HIDE DEF r, n
  <1>2. A \in SUBSET (1..n) /\ B \in SUBSET (1..Len(t))
    BY <1>1 DEF Places
  <1>3. IsFiniteSet(A) /\ Cardinality(A) \in Nat /\ IsFiniteSet(B) /\ Cardinality(B) \in Nat
    BY <1>1, <1>2, PlacesFinite
  <1>4. A \cap D = {}
    BY <1>1, <1>2
  <1>5. C = A \cup D
    <2>1. ASSUME NEW i \in C
          PROVE  i \in A \cup D
      BY <1>1 DEF Places
    <2>2. ASSUME NEW i \in A
          PROVE  i \in C
      BY <1>1 DEF Places
    <2> QED BY <2>1, <2>2
  <1>6. \A j \in B : j + n \in D
    BY <1>1 DEF Places
  <1>7. \A i \in D : i - n \in B
    BY <1>1 DEF Places
  <1>8. IsFiniteSet(D) /\ Cardinality(D) = Cardinality(B)
    <2>1. B \in SUBSET Nat /\ D \in SUBSET Nat /\ n \in Int
      BY <1>1, <1>2
    <2> HIDE DEF A, B, C, D
    <2> QED BY <1>3, <1>6, <1>7, <2>1, SameNumber
  <1>9. Cardinality(C) = Cardinality(A) + Cardinality(B)
    <2> HIDE DEF A, B, C, D
    <2>1. Cardinality(A \cup D) = Cardinality(A) + Cardinality(D) - Cardinality(A \cap D)
      BY <1>3, <1>8, FS_Union
    <2>2. Cardinality(A \cap D) = 0
      BY <1>4, FS_EmptySet
    <2> QED BY <1>3, <1>5, <1>8, <2>1, <2>2
  <1> QED BY <1>9 DEF Count, r

LEMMA CountType ==
  ASSUME NEW s \in Seq(Messages), NEW m
  PROVE  Count(s, m) \in Nat
  <1>1. Len(s) \in Nat /\ Places(s, m) \in SUBSET (1..Len(s))
    BY DEF Places
  <1> QED BY <1>1, PlacesFinite DEF Count

LEMMA CountAppend ==
  ASSUME NEW s \in Seq(Messages), NEW e \in Messages, NEW m
  PROVE  Count(Append(s, e), m) = Count(s, m) + (IF e = m THEN 1 ELSE 0)
  <1> DEFINE n == Len(s)
             A == Places(s, m)
             B == Places(Append(s, e), m)
  <1>1. /\ n \in Nat /\ DOMAIN s = 1..n /\ DOMAIN Append(s, e) = 1..(n + 1)
        /\ \A i \in 1..n : Append(s, e)[i] = s[i]
        /\ Append(s, e)[n + 1] = e
    BY AppendProperties
  <1> HIDE DEF n
  <1>2. A \in SUBSET (1..n) /\ B \in SUBSET (1..(n + 1))
    BY <1>1 DEF Places
  <1>3. \A i \in 1..n : i \in B <=> i \in A
    BY <1>1 DEF Places
  <1>4. n + 1 \in B <=> e = m
    BY <1>1 DEF Places
  <1> HIDE DEF A, B
  <1>5. Cardinality(B) = Cardinality(A) + (IF n + 1 \in B THEN 1 ELSE 0)
    BY <1>1, <1>2, <1>3, PlacesOfAppend
  <1> QED BY <1>4, <1>5 DEF Count, A, B

LEMMA CountTail ==
  ASSUME NEW s \in Seq(Messages), s # <<>>, NEW m
  PROVE  Count(s, m) = Count(Tail(s), m) + (IF Head(s) = m THEN 1 ELSE 0)
  <1> DEFINE A == Places(s, m)
             B == Places(Tail(s), m)
  <1>1. PICK n \in Nat : Len(s) = n + 1
    <2>1. Len(s) \in Nat /\ Len(s) # 0
      OBVIOUS
    <2> QED BY <2>1
  <1>2. /\ DOMAIN s = 1..(n + 1) /\ DOMAIN Tail(s) = 1..n
        /\ \A i \in 1..n : Tail(s)[i] = s[i + 1]
        /\ Head(s) = s[1]
    <2>1. Tail(s) \in Seq(Messages) /\ Len(Tail(s)) = n
      BY <1>1, HeadTailProperties
    <2> QED BY <1>1, <2>1, HeadTailProperties
  <1>3. A \in SUBSET (1..(n + 1)) /\ B \in SUBSET (1..n)
    BY <1>2 DEF Places
  <1>4. \A i \in 1..n : i \in B <=> i + 1 \in A
    BY <1>2 DEF Places
  <1>5. 1 \in A <=> Head(s) = m
    BY <1>2 DEF Places
  <1> HIDE DEF A, B
  <1>6. Cardinality(A) = Cardinality(B) + (IF 1 \in A THEN 1 ELSE 0)
    BY <1>3, <1>4, PlacesOfTail
  <1> QED BY <1>5, <1>6 DEF Count, A, B

(* The results, of which the message counts and not its outcome.           *)
LEMMA EndedType ==
  ASSUME NEW s \in Seq(Result), NEW m
  PROVE  Cardinality(EndedAt(s, m)) \in Nat
  <1>1. Len(s) \in Nat /\ EndedAt(s, m) \in SUBSET (1..Len(s))
    BY DEF EndedAt
  <1> QED BY <1>1, PlacesFinite

LEMMA EndedAppend ==
  ASSUME NEW s \in Seq(Result), NEW e \in Result, NEW m
  PROVE  Cardinality(EndedAt(Append(s, e), m))
           = Cardinality(EndedAt(s, m)) + (IF e.msg = m THEN 1 ELSE 0)
  <1> DEFINE n == Len(s)
             A == EndedAt(s, m)
             B == EndedAt(Append(s, e), m)
  <1>1. /\ n \in Nat /\ DOMAIN s = 1..n /\ DOMAIN Append(s, e) = 1..(n + 1)
        /\ \A i \in 1..n : Append(s, e)[i] = s[i]
        /\ Append(s, e)[n + 1] = e
    BY AppendProperties
  <1> HIDE DEF n
  <1>2. A \in SUBSET (1..n) /\ B \in SUBSET (1..(n + 1))
    BY <1>1 DEF EndedAt
  <1>3. \A i \in 1..n : i \in B <=> i \in A
    BY <1>1 DEF EndedAt
  <1>4. n + 1 \in B <=> e.msg = m
    BY <1>1 DEF EndedAt
  <1> HIDE DEF A, B
  <1>5. Cardinality(B) = Cardinality(A) + (IF n + 1 \in B THEN 1 ELSE 0)
    BY <1>1, <1>2, <1>3, PlacesOfAppend
  <1> QED BY <1>4, <1>5 DEF A, B

LEMMA EndedTail ==
  ASSUME NEW s \in Seq(Result), s # <<>>, NEW m
  PROVE  Cardinality(EndedAt(s, m))
           = Cardinality(EndedAt(Tail(s), m)) + (IF s[1].msg = m THEN 1 ELSE 0)
  <1> DEFINE A == EndedAt(s, m)
             B == EndedAt(Tail(s), m)
  <1>1. PICK n \in Nat : Len(s) = n + 1
    <2>1. Len(s) \in Nat /\ Len(s) # 0
      OBVIOUS
    <2> QED BY <2>1
  <1>2. /\ DOMAIN s = 1..(n + 1) /\ DOMAIN Tail(s) = 1..n
        /\ \A i \in 1..n : Tail(s)[i] = s[i + 1]
    <2>1. Tail(s) \in Seq(Result) /\ Len(Tail(s)) = n
      BY <1>1, HeadTailProperties
    <2> QED BY <1>1, <2>1, HeadTailProperties
  <1>3. A \in SUBSET (1..(n + 1)) /\ B \in SUBSET (1..n)
    BY <1>2 DEF EndedAt
  <1>4. \A i \in 1..n : i \in B <=> i + 1 \in A
    BY <1>2 DEF EndedAt
  <1>5. 1 \in A <=> s[1].msg = m
    BY <1>2 DEF EndedAt
  <1> HIDE DEF A, B
  <1>6. Cardinality(A) = Cardinality(B) + (IF 1 \in A THEN 1 ELSE 0)
    BY <1>3, <1>4, PlacesOfTail
  <1> QED BY <1>5, <1>6 DEF A, B

One(a, b) == IF a = b THEN 1 ELSE 0

(* The workers that are at a message.                                      *)
LEMMA WorkersChange ==
  ASSUME NEW t \in [Workers -> Messages \cup {NoMessage}], NEW w \in Workers,
         NEW q \in Messages \cup {NoMessage}, NEW m \in Messages,
         NEW u, u[w] = q, \A v \in Workers \ {w} : u[v] = t[v]
  PROVE  /\ Cardinality(WorkersAt(t, m)) \in Nat /\ Cardinality(WorkersAt(u, m)) \in Nat
         /\ Cardinality(WorkersAt(u, m)) + One(t[w], m)
              = Cardinality(WorkersAt(t, m)) + One(q, m)
  <1> DEFINE A == WorkersAt(t, m)
             B == WorkersAt(u, m)
             R == A \ {w}
  <1>1. IsFiniteSet(R) /\ Cardinality(R) \in Nat
    <2>1. R \subseteq Workers
      BY DEF WorkersAt
    <2> QED BY <2>1, WorkersAssumption, FS_Subset, FS_CardinalityType
  <1>2. w \notin R
    OBVIOUS
  <1>3. /\ t[w] = m => A = R \cup {w}
        /\ t[w] # m => A = R
        /\ q = m => B = R \cup {w}
        /\ q # m => B = R
    BY DEF WorkersAt
  <1> HIDE DEF A, B, R
  <1>4. Cardinality(R \cup {w}) = Cardinality(R) + 1
    BY <1>1, <1>2, FS_AddElement
  <1>5. Cardinality(A) = Cardinality(R) + (IF t[w] = m THEN 1 ELSE 0)
    <2>1. CASE t[w] = m
      BY <1>1, <1>3, <1>4, <2>1
    <2>2. CASE t[w] # m
      BY <1>1, <1>3, <2>2
    <2> QED BY <2>1, <2>2
  <1>6. Cardinality(B) = Cardinality(R) + (IF q = m THEN 1 ELSE 0)
    <2>1. CASE q = m
      BY <1>1, <1>3, <1>4, <2>1
    <2>2. CASE q # m
      BY <1>1, <1>3, <2>2
    <2> QED BY <2>1, <2>2
  <1> QED BY <1>1, <1>5, <1>6 DEF A, B, One

-----------------------------------------------------------------------------
LEMMA ReadsParts ==
  ASSUME IInv, buffer \in Seq(Messages), stored \in Seq(Messages), NEW m \in Messages
  PROVE  /\ Inside(m) \in Nat /\ Ahead(m) \in Nat /\ Published(m) \in Nat /\ Faults \in Nat
         /\ Cardinality(EndedAt(results, m)) \in Nat
         /\ Cardinality(WorkersAt(task, m)) \in Nat /\ Count(taskQ, m) \in Nat
         /\ Count(stored, m) \in Nat /\ Count(buffer, m) \in Nat
  <1>1. /\ taskQ \in Seq(Messages) /\ results \in Seq(Result)
        /\ task \in [Workers -> Messages \cup {NoMessage}]
        /\ evictions \in Nat /\ crashes \in Nat
    BY DEF IInv, TypeOK
  <1>2. Cardinality(EndedAt(results, m)) \in Nat
    BY <1>1, EndedType
  <1>3. Cardinality(WorkersAt(task, m)) \in Nat
    <2>1. WorkersAt(task, m) \subseteq Workers
      BY DEF WorkersAt
    <2> QED BY <2>1, WorkersAssumption, FS_Subset, FS_CardinalityType
  <1>4. Count(taskQ, m) \in Nat /\ Count(stored, m) \in Nat /\ Count(buffer, m) \in Nat
    BY <1>1, CountType
  <1>5. InHand(m) \in Nat /\ ToCome(m) \in Nat
    BY DEF InHand, ToCome, After
  <1>6. Inside(m) \in Nat /\ Ahead(m) \in Nat /\ Published(m) \in Nat /\ Faults \in Nat
    BY <1>1, <1>2, <1>3, <1>4, <1>5 DEF Inside, Ahead, Published, Faults
  <1> QED BY <1>2, <1>3, <1>4, <1>6

(* What the pool does with a message it has.                               *)
LEMMA InsideStart ==
  ASSUME IInv, NEW w \in Workers, StartTask(w), NEW m \in Messages
  PROVE  Inside(m)' = Inside(m)
  <1>1. /\ taskQ \in Seq(Messages) /\ taskQ # <<>> /\ taskQ' = Tail(taskQ)
        /\ results' = results /\ task[w] = NoMessage
        /\ task' = [task EXCEPT ![w] = Head(taskQ)]
        /\ task \in [Workers -> Messages \cup {NoMessage}]
    BY DEF StartTask, IInv, TypeOK
  <1>2. PICK q \in Messages : q = Head(taskQ)
    BY <1>1, HeadTailProperties
  <1>3. Count(taskQ, m) = Count(Tail(taskQ), m) + (IF q = m THEN 1 ELSE 0)
    BY <1>1, <1>2, CountTail
  <1>4. PICK u : u = task' /\ u = [task EXCEPT ![w] = q]
    BY <1>1, <1>2
  <1>5. /\ Cardinality(WorkersAt(u, m)) = Cardinality(WorkersAt(task, m))
                                            + (IF q = m THEN 1 ELSE 0)
    <2>1. NoMessage # m
      BY DEF Messages, NoMessage
    <2>2. u[w] = q /\ \A v \in Workers \ {w} : u[v] = task[v]
      BY <1>1, <1>4
    <2>3. Cardinality(WorkersAt(task, m)) \in Nat /\ Cardinality(WorkersAt(u, m)) \in Nat
      BY <1>1, <2>2, WorkersChange
    <2>4. Cardinality(WorkersAt(u, m)) + One(task[w], m)
            = Cardinality(WorkersAt(task, m)) + One(q, m)
      BY <1>1, <2>2, WorkersChange
    <2> QED BY <1>1, <2>1, <2>3, <2>4 DEF One
  <1>6. Cardinality(EndedAt(results, m)) \in Nat /\ Cardinality(WorkersAt(task, m)) \in Nat
    BY <1>1, WorkersChange, EndedType DEF IInv, TypeOK
  <1>7. Count(Tail(taskQ), m) \in Nat
    BY <1>1, HeadTailProperties, CountType
  <1>8. Inside(m)' = Cardinality(EndedAt(results, m)) + Cardinality(WorkersAt(u, m))
                       + Count(Tail(taskQ), m)
    BY <1>1, <1>4 DEF Inside, Count, Places, EndedAt, WorkersAt
  <1> QED BY <1>3, <1>5, <1>6, <1>7, <1>8 DEF Inside

(* A worker that is rid of its message.                                    *)
LEMMA WorkersFreed ==
  ASSUME IInv, NEW w \in Workers, task' = [task EXCEPT ![w] = NoMessage],
         NEW m \in Messages
  PROVE  \A u : u = task' =>
           /\ Cardinality(WorkersAt(u, m)) \in Nat
           /\ Cardinality(WorkersAt(u, m)) + One(task[w], m)
                = Cardinality(WorkersAt(task, m))
  <1>1. task \in [Workers -> Messages \cup {NoMessage}]
    BY DEF IInv, TypeOK
  <1>2. PICK q \in Messages \cup {NoMessage} : q = NoMessage
    OBVIOUS
  <1>3. One(q, m) = 0
    BY <1>2 DEF Messages, NoMessage, One
  <1>4. ASSUME NEW u, u[w] = q, \A v \in Workers \ {w} : u[v] = task[v]
        PROVE  /\ Cardinality(WorkersAt(u, m)) \in Nat
               /\ Cardinality(WorkersAt(u, m)) + One(task[w], m)
                    = Cardinality(WorkersAt(task, m))
    <2>1. Cardinality(WorkersAt(u, m)) \in Nat /\ Cardinality(WorkersAt(task, m)) \in Nat
      BY <1>1, <1>4, WorkersChange
    <2>2. Cardinality(WorkersAt(u, m)) + One(task[w], m)
            = Cardinality(WorkersAt(task, m)) + One(q, m)
      BY <1>1, <1>4, WorkersChange
    <2> QED BY <1>3, <2>1, <2>2 DEF One
  <1>5. task'[w] = q /\ \A v \in Workers \ {w} : task'[v] = task[v]
    BY <1>1, <1>2
  <1> QED BY <1>4, <1>5

LEMMA InsideEnd ==
  ASSUME IInv, NEW w \in Workers, NEW ok \in BOOLEAN, EndTask(w, ok), NEW m \in Messages
  PROVE  Inside(m)' = Inside(m)
  <1>1. /\ results \in Seq(Result) /\ taskQ' = taskQ /\ task[w] # NoMessage
        /\ results' = Append(results, [msg |-> task[w], ok |-> ok])
        /\ task' = [task EXCEPT ![w] = NoMessage]
        /\ task \in [Workers -> Messages \cup {NoMessage}] /\ taskQ \in Seq(Messages)
    BY DEF EndTask, IInv, TypeOK
  <1>2. PICK r \in Result : r = [msg |-> task[w], ok |-> ok] /\ r.msg = task[w]
    <2>1. task[w] \in Messages
      BY <1>1
    <2>2. [msg |-> task[w], ok |-> ok] \in Result
      BY <2>1 DEF Result
    <2> QED BY <2>2
  <1>3. PICK rs : rs = results' /\ rs = Append(results, r)
    BY <1>1, <1>2
  <1>4. Cardinality(EndedAt(Append(results, r), m))
          = Cardinality(EndedAt(results, m)) + (IF r.msg = m THEN 1 ELSE 0)
    BY <1>1, EndedAppend
  <1>5. Cardinality(EndedAt(rs, m)) = Cardinality(EndedAt(results, m)) + One(task[w], m)
    BY <1>2, <1>3, <1>4 DEF One
  <1>6. PICK u : u = task'
    OBVIOUS
  <1>7. /\ Cardinality(WorkersAt(u, m)) \in Nat
        /\ Cardinality(WorkersAt(u, m)) + One(task[w], m) = Cardinality(WorkersAt(task, m))
    BY <1>1, <1>6, WorkersFreed
  <1>8. /\ Cardinality(EndedAt(results, m)) \in Nat /\ Count(taskQ, m) \in Nat
        /\ One(task[w], m) \in Nat
    BY <1>1, EndedType, CountType DEF One
  <1>9. Inside(m)' = Cardinality(EndedAt(rs, m)) + Cardinality(WorkersAt(u, m))
                       + Count(taskQ, m)
    BY <1>1, <1>3, <1>6 DEF Inside, Count, Places, EndedAt, WorkersAt
  <1> QED BY <1>5, <1>7, <1>8, <1>9 DEF Inside

LEMMA InsideDies ==
  ASSUME IInv, NEW w \in Workers, WorkerDies(w), NEW m \in Messages
  PROVE  Inside(m)' \in Nat /\ Inside(m)' <= Inside(m)
  <1>1. /\ task' = [task EXCEPT ![w] = NoMessage] /\ UNCHANGED <<results, taskQ>>
        /\ results \in Seq(Result) /\ taskQ \in Seq(Messages)
    BY DEF WorkerDies, IInv, TypeOK
  <1>2. PICK u : u = task'
    OBVIOUS
  <1>3. /\ Cardinality(WorkersAt(u, m)) \in Nat
        /\ Cardinality(WorkersAt(u, m)) + One(task[w], m) = Cardinality(WorkersAt(task, m))
    BY <1>1, <1>2, WorkersFreed
  <1>4. /\ Cardinality(EndedAt(results, m)) \in Nat /\ Count(taskQ, m) \in Nat
        /\ One(task[w], m) \in Nat
    BY <1>1, EndedType, CountType DEF One
  <1>5. Inside(m)' = Cardinality(EndedAt(results, m)) + Cardinality(WorkersAt(u, m))
                       + Count(taskQ, m)
    BY <1>1, <1>2 DEF Inside, Count, Places, EndedAt, WorkersAt
  <1> QED BY <1>3, <1>4, <1>5 DEF Inside

LEMMA InsideDispatch ==
  ASSUME IInv, Dispatch, NEW m \in Messages
  PROVE  Inside(m)' = Inside(m) + One(position, m)
  <1>1. /\ taskQ \in Seq(Messages) /\ position \in Messages
        /\ taskQ' = Append(taskQ, position) /\ UNCHANGED <<task, results>>
    BY DEF Dispatch, IInv, TypeOK, OnItsWay, Messages
  <1>2. PICK q : q = taskQ' /\ q = Append(taskQ, position)
    BY <1>1
  <1>3. Count(Append(taskQ, position), m) = Count(taskQ, m) + (IF position = m THEN 1 ELSE 0)
    BY <1>1, CountAppend
  <1>4. Inside(m)' = Cardinality(EndedAt(results, m)) + Cardinality(WorkersAt(task, m))
                       + Count(q, m)
    BY <1>1, <1>2 DEF Inside, Count, Places, EndedAt, WorkersAt
  <1>5. /\ Cardinality(EndedAt(results, m)) \in Nat /\ Cardinality(WorkersAt(task, m)) \in Nat
        /\ Count(taskQ, m) \in Nat
    <2>1. IsFiniteSet(WorkersAt(task, m))
      BY WorkersAssumption, FS_Subset DEF WorkersAt
    <2> QED BY <1>1, <2>1, FS_CardinalityType, EndedType, CountType DEF IInv, TypeOK
  <1> QED BY <1>2, <1>3, <1>4, <1>5 DEF Inside, One

LEMMA InsideHandled ==
  ASSUME IInv, HandlerStep, NEW m \in Messages
  PROVE  /\ results # <<>> /\ results[1] \in Result
         /\ Inside(m)' \in Nat /\ Inside(m) = Inside(m)' + One(results[1].msg, m)
  <1>1. /\ results \in Seq(Result) /\ results # <<>> /\ results' = Tail(results)
        /\ UNCHANGED <<task, taskQ>>
    BY DEF HandlerStep, HandleResult, CallbackRaises, NextResult, IInv, TypeOK
  <1>2. PICK rs : rs = results' /\ rs = Tail(results)
    BY <1>1
  <1>3. Cardinality(EndedAt(results, m))
          = Cardinality(EndedAt(Tail(results), m)) + (IF results[1].msg = m THEN 1 ELSE 0)
    BY <1>1, EndedTail
  <1>4. Inside(m)' = Cardinality(EndedAt(rs, m)) + Cardinality(WorkersAt(task, m))
                       + Count(taskQ, m)
    BY <1>1, <1>2 DEF Inside, Count, Places, EndedAt, WorkersAt
  <1>5. Tail(results) \in Seq(Result) /\ results[1] \in Result
    BY <1>1
  <1>6. /\ Cardinality(EndedAt(Tail(results), m)) \in Nat
        /\ Cardinality(WorkersAt(task, m)) \in Nat /\ Count(taskQ, m) \in Nat
    <2>1. IsFiniteSet(WorkersAt(task, m))
      BY WorkersAssumption, FS_Subset DEF WorkersAt
    <2> QED BY <1>5, <2>1, FS_CardinalityType, EndedType, CountType DEF IInv, TypeOK
  <1> QED BY <1>1, <1>2, <1>3, <1>4, <1>5, <1>6 DEF Inside, One

(* With the process ends what is in its pool.                              *)
LEMMA InsideEmpty ==
  ASSUME Die, NEW m \in Messages
  PROVE  Inside(m)' = 0
  <1>1. taskQ' = <<>> /\ results' = <<>> /\ task' = [w \in Workers |-> NoMessage]
    BY DEF Die
  <1>2. m # NoMessage
    BY DEF Messages, NoMessage
  <1>3. EndedAt(results', m) = {} /\ Places(taskQ', m) = {} /\ WorkersAt(task', m) = {}
    BY <1>1, <1>2 DEF EndedAt, Places, WorkersAt
  <1> QED BY <1>3, FS_EmptySet DEF Inside, Count

-----------------------------------------------------------------------------
(* The main loop: the message in its hand is one of those it could come    *)
(* across, and only a rebalance or a crash lets it come across more.       *)

LEMMA AheadTypes ==
  ASSUME IInv
  PROVE  /\ position \in Nat /\ available \in Nat /\ committed \in Int /\ pc \in PC
         /\ position <= available /\ committed <= available /\ member \in BOOLEAN
         /\ member /\ committed # NoOffset /\ pc = "poll" => position = committed
         /\ evictions \in Nat /\ crashes \in Nat
  BY DEF IInv, TypeOK, PositionOfMember, OnItsWay, NoOffset, PC

LEMMA AheadStays ==
  ASSUME IInv, NEW m \in Messages, UNCHANGED <<pc, position, member, committed, available>>
  PROVE  Ahead(m)' = Ahead(m)
  BY DEF Ahead, InHand, ToCome, OnItsWay, Beginning, After

LEMMA AheadDispatch ==
  ASSUME IInv, NEW m \in Messages, Dispatch
  PROVE  Ahead(m) = Ahead(m)' + One(position, m) /\ Ahead(m)' \in Nat
  <1>1. /\ pc = "dispatch" /\ pc' = "commit"
        /\ UNCHANGED <<position, member, committed, available>>
    BY DEF Dispatch, topicVars, groupVars
  <1>2. InHand(m) = One(position, m) /\ InHand(m)' = 0
    BY <1>1 DEF InHand, OnItsWay, One
  <1>3. ToCome(m)' = ToCome(m)
    BY <1>1 DEF ToCome, Beginning, After
  <1>4. ToCome(m) \in Nat /\ One(position, m) \in Nat
    BY DEF ToCome, After, One
  <1> QED BY <1>2, <1>3, <1>4 DEF Ahead

LEMMA AheadMain ==
  ASSUME IInv, NEW m \in Messages,
         Publish \/ Take \/ Acquire \/ Commit \/ CommitFails \/ Rejoin
  PROVE  /\ Ahead(m)' \in Nat /\ Ahead(m)' <= Ahead(m)
         /\ UNCHANGED <<evictions, crashes>>
  <1> USE AheadTypes DEF Ahead, InHand, ToCome, OnItsWay, Beginning, After, Messages
  <1>1. CASE Publish
    BY <1>1 DEF Publish, groupVars, mainVars
  <1>2. CASE Take
    BY <1>2 DEF Take, groupVars, topicVars
  <1>3. CASE Acquire
    BY <1>3 DEF Acquire, groupVars, topicVars
  <1>4. CASE Commit
    BY <1>4 DEF Commit, groupVars
  <1>5. CASE CommitFails
    BY <1>5 DEF CommitFails, groupVars, topicVars
  <1>6. CASE Rejoin
    BY <1>6 DEF Rejoin, Join, topicVars
  <1> QED BY <1>1, <1>2, <1>3, <1>4, <1>5, <1>6

LEMMA AheadProcess ==
  ASSUME IInv, NEW m \in Messages, Evict \/ SetStopProcessing \/ Die \/ Restart
  PROVE  /\ Ahead(m)' + Faults <= Ahead(m) + Faults'
         /\ Faults' \in Nat /\ Ahead(m)' \in Nat
  <1> USE AheadTypes
      DEF Ahead, InHand, ToCome, OnItsWay, Beginning, After, Messages, Faults
  <1>1. CASE Evict
    BY <1>1 DEF Evict, topicVars, mainVars
  <1>2. CASE SetStopProcessing
    BY <1>2 DEF SetStopProcessing, topicVars, groupVars
  <1>3. CASE Die
    <2>1. /\ pc \notin {"down"} /\ pc' = "down" /\ UNCHANGED <<available, committed, evictions>>
          /\ pc = "exited" \/ crashes' = crashes + 1
          /\ crashes' = IF pc = "exited" THEN crashes ELSE crashes + 1
      BY <1>3 DEF Die, Running, topicVars
    <2> QED BY <2>1 DEF PC
  <1>4. CASE Restart
    BY <1>4 DEF Restart, Join, topicVars
  <1> QED BY <1>1, <1>2, <1>3, <1>4

(* A step of the consumer that hands over no result: a message is at most  *)
(* moved on.                                                               *)
LEMMA ConsumerMoves ==
  ASSUME IInv, buffer \in Seq(Messages), stored \in Seq(Messages), NEW m \in Messages,
         \/ Publish \/ MainStep \/ Evict \/ SetStopProcessing \/ Restart \/ Die
         \/ \E w \in Workers : WorkerStep(w)
  PROVE  /\ Inside(m)' \in Nat /\ Ahead(m)' \in Nat /\ Faults' \in Nat
         /\ Inside(m)' + Ahead(m)' + Faults <= Inside(m) + Ahead(m) + Faults'
  <1>1. Inside(m) \in Nat /\ Ahead(m) \in Nat /\ Faults \in Nat
    BY ReadsParts
  <1>2. UNCHANGED poolVars => Inside(m)' = Inside(m)
    BY DEF poolVars, Inside, Count, Places, EndedAt, WorkersAt
  <1>3. CASE Publish \/ Take \/ Acquire \/ Commit \/ CommitFails \/ Rejoin
    <2>1. UNCHANGED poolVars
      BY <1>3 DEF Publish, Take, Acquire, Commit, CommitFails, Rejoin
    <2>2. Faults' = Faults
      BY <1>3, AheadMain DEF Faults
    <2> QED BY <1>1, <1>2, <1>3, <2>1, <2>2, AheadMain
  <1>4. CASE Dispatch
    <2>1. Faults' = Faults
      BY <1>4 DEF Dispatch, groupVars, Faults
    <2>2. One(position, m) \in Nat
      BY DEF One
    <2>3. /\ Inside(m)' = Inside(m) + One(position, m)
          /\ Ahead(m) = Ahead(m)' + One(position, m) /\ Ahead(m)' \in Nat
      BY <1>4, InsideDispatch, AheadDispatch
    <2> QED BY <1>1, <2>1, <2>2, <2>3
  <1>5. CASE Evict \/ SetStopProcessing \/ Restart
    <2>1. Inside(m)' = Inside(m)
      BY <1>2, <1>5 DEF Evict, SetStopProcessing, Restart, Inside, Count, Places, EndedAt,
                        WorkersAt
    <2> QED BY <1>1, <1>5, <2>1, AheadProcess
  <1>6. CASE Die
    BY <1>1, <1>6, InsideEmpty, AheadProcess
  <1>7. ASSUME NEW w \in Workers, WorkerStep(w)
        PROVE  /\ Inside(m)' \in Nat /\ Ahead(m)' \in Nat /\ Faults' \in Nat
               /\ Inside(m)' + Ahead(m)' + Faults <= Inside(m) + Ahead(m) + Faults'
    <2>1. UNCHANGED <<pc, position, member, committed, available, evictions, crashes>>
      BY <1>7 DEF WorkerStep, StartTask, EndTask, WorkerDies, topicVars, groupVars, mainVars
    <2>2. Ahead(m)' = Ahead(m) /\ Faults' = Faults
      BY <2>1, AheadStays DEF Faults
    <2>3. Inside(m)' \in Nat /\ Inside(m)' <= Inside(m)
      <3>1. CASE StartTask(w)
        <4>1. Inside(m)' = Inside(m)
          BY <3>1, InsideStart
        <4> QED BY <1>1, <4>1
      <3>2. CASE EndTask(w, TRUE) \/ EndTask(w, FALSE)
        <4>1. Inside(m)' = Inside(m)
          BY <3>2, InsideEnd
        <4> QED BY <1>1, <4>1
      <3>3. CASE WorkerDies(w)
        BY <3>3, InsideDies
      <3> QED BY <1>7, <3>1, <3>2, <3>3 DEF WorkerStep
    <2> QED BY <1>1, <2>2, <2>3
  <1> QED BY <1>3, <1>4, <1>5, <1>6, <1>7 DEF MainStep

(* Only messages are sent.                                                 *)
LEMMA SentTypes ==
  ASSUME buffer \in Seq(Messages), stored \in Seq(Messages),
         (\E x \in Messages : Producer!Send(x)) \/ Producer!Sender \/ Producer!End
  PROVE  buffer' \in Seq(Messages) /\ stored' \in Seq(Messages)
  <1>1. ASSUME NEW x \in Messages, Producer!Send(x)
        PROVE  buffer' \in Seq(Messages) /\ stored' \in Seq(Messages)
    BY <1>1, AppendProperties DEF Producer!Send
  <1>2. CASE Producer!Sender
    <2>1. /\ buffer # <<>> /\ buffer' = Tail(buffer)
          /\ stored' = stored \/ stored' = Append(stored, Head(buffer))
      BY <1>2 DEF Producer!Sender, Producer!Deliver, Producer!Fail
    <2>2. Head(buffer) \in Messages /\ Tail(buffer) \in Seq(Messages)
      BY <2>1, HeadTailProperties
    <2>3. Append(stored, Head(buffer)) \in Seq(Messages)
      BY <2>2, AppendProperties
    <2> QED BY <2>1, <2>2, <2>3
  <1>3. CASE Producer!End
    BY <1>3 DEF Producer!End
  <1> QED BY <1>1, <1>2, <1>3

(* What the sender thread and the end of a process do to the points sent.  *)
LEMMA SentMoves ==
  ASSUME buffer \in Seq(Messages), stored \in Seq(Messages), NEW m \in Messages
  PROVE  /\ \A x \in Messages : Producer!Send(x) =>
              Published(m)' = Published(m) + One(x, m)
         /\ Producer!Sender \/ Producer!End =>
              Published(m)' \in Nat /\ Published(m)' <= Published(m)
  <1>1. Count(stored, m) \in Nat /\ Count(buffer, m) \in Nat
    BY CountType
  <1>2. ASSUME NEW x \in Messages, Producer!Send(x)
        PROVE  Published(m)' = Published(m) + One(x, m)
    <2>1. buffer' = Append(buffer, x) /\ stored' = stored
      BY <1>2 DEF Producer!Send
    <2>2. PICK b : b = buffer' /\ b = Append(buffer, x)
      BY <2>1
    <2>3. Count(Append(buffer, x), m) = Count(buffer, m) + (IF x = m THEN 1 ELSE 0)
      BY CountAppend
    <2>4. Published(m)' = Count(stored, m) + Count(b, m)
      BY <2>1, <2>2 DEF Published, Count, Places
    <2> QED BY <1>1, <2>2, <2>3, <2>4 DEF Published, One
  <1>3. ASSUME Producer!Sender
        PROVE  Published(m)' \in Nat /\ Published(m)' <= Published(m)
    <2>1. /\ buffer # <<>> /\ buffer' = Tail(buffer)
          /\ stored' = stored \/ stored' = Append(stored, Head(buffer))
      BY <1>3 DEF Producer!Sender, Producer!Deliver, Producer!Fail
    <2>2. PICK h \in Messages : h = Head(buffer)
      BY <2>1, HeadTailProperties
    <2>3. PICK b : b = buffer' /\ b = Tail(buffer)
      BY <2>1
    <2>4. Tail(buffer) \in Seq(Messages)
      BY <2>1, HeadTailProperties
    <2>5. Count(buffer, m) = Count(Tail(buffer), m) + One(h, m)
      BY <2>1, <2>2, CountTail DEF One
    <2>6. Count(Tail(buffer), m) \in Nat /\ One(h, m) \in Nat
      BY <2>4, CountType DEF One
    <2>7. CASE stored' = stored
      <3>1. Published(m)' = Count(stored, m) + Count(b, m)
        BY <2>3, <2>7 DEF Published, Count, Places
      <3> QED BY <1>1, <2>3, <2>5, <2>6, <3>1 DEF Published
    <2>8. CASE stored' = Append(stored, h)
      <3>1. PICK s : s = stored' /\ s = Append(stored, h)
        BY <2>8
      <3>2. Count(Append(stored, h), m) = Count(stored, m) + (IF h = m THEN 1 ELSE 0)
        BY CountAppend
      <3>3. Published(m)' = Count(s, m) + Count(b, m)
        BY <2>3, <3>1 DEF Published, Count, Places
      <3> QED BY <1>1, <2>3, <2>5, <2>6, <3>1, <3>2, <3>3 DEF Published, One
    <2> QED BY <2>1, <2>2, <2>7, <2>8
  <1>4. ASSUME Producer!End
        PROVE  Published(m)' \in Nat /\ Published(m)' <= Published(m)
    <2>1. buffer' = <<>> /\ stored' = stored
      BY <1>4 DEF Producer!End
    <2>2. Places(buffer', m) = {}
      BY <2>1 DEF Places
    <2>3. Published(m)' = Count(stored, m) + Cardinality({})
      BY <2>1, <2>2 DEF Published, Count, Places
    <2> QED BY <1>1, <2>3, FS_EmptySet DEF Published
  <1> QED BY <1>2, <1>3, <1>4

-----------------------------------------------------------------------------
LEMMA GuessrInitially == GuessrInit => GuessrIInv
  <1> SUFFICES ASSUME GuessrInit PROVE GuessrIInv
    OBVIOUS
  <1>1. IInv /\ buffer = <<>> /\ stored = <<>>
    BY InitInvariant DEF GuessrInit, Producer!Init
  <1>2. /\ results = <<>> /\ taskQ = <<>> /\ task = [w \in Workers |-> NoMessage]
        /\ pc = "poll" /\ member = TRUE /\ evictions = 0 /\ crashes = 0
    BY DEF GuessrInit, Init
  <1>3. ASSUME NEW m \in Messages
        PROVE  Reads(m) <= 1 + evictions + crashes
    <2>1. m # NoMessage
      BY DEF Messages, NoMessage
    <2>2. /\ EndedAt(results, m) = {} /\ Places(taskQ, m) = {} /\ Places(stored, m) = {}
          /\ Places(buffer, m) = {} /\ WorkersAt(task, m) = {}
      BY <1>1, <1>2, <2>1 DEF EndedAt, Places, WorkersAt
    <2>3. InHand(m) = 0 /\ ToCome(m) <= 1 /\ ToCome(m) \in Nat
      BY <1>2 DEF InHand, OnItsWay, ToCome, After
    <2>4. /\ Cardinality(EndedAt(results, m)) = 0 /\ Count(taskQ, m) = 0
          /\ Count(stored, m) = 0 /\ Count(buffer, m) = 0
          /\ Cardinality(WorkersAt(task, m)) = 0
      BY <2>2, FS_EmptySet DEF Count
    <2> QED BY <1>2, <2>3, <2>4 DEF Reads, Published, Inside, Ahead
  <1> QED BY <1>1, <1>3 DEF GuessrIInv

LEMMA GuessrStep == GuessrIInv /\ [GuessrNext]_allVars => GuessrIInv'
  <1> SUFFICES ASSUME GuessrIInv, [GuessrNext]_allVars PROVE GuessrIInv'
    OBVIOUS
  <1>1. IInv /\ buffer \in Seq(Messages) /\ stored \in Seq(Messages)
    BY DEF GuessrIInv
  <1>2. IInv'
    <2>1. UNCHANGED allVars => UNCHANGED vars
      BY DEF allVars
    <2> QED BY <1>1, <2>1, StepInvariant, StepOfConsumer
  <1> DEFINE Good(m) ==
        /\ Published(m)' \in Nat /\ Inside(m)' \in Nat /\ Ahead(m)' \in Nat
        /\ Faults' \in Nat
        /\ Published(m)' + Inside(m)' + Ahead(m)' + Faults
             <= Published(m) + Inside(m) + Ahead(m) + Faults'
  <1>3. ASSUME NEW m \in Messages, UNCHANGED producerVars,
               \/ Publish \/ MainStep \/ Evict \/ SetStopProcessing \/ Restart
               \/ \E w \in Workers : WorkerStep(w)
        PROVE  Good(m)
    <2>1. buffer' = buffer /\ stored' = stored
      BY <1>3 DEF producerVars
    <2>2. Published(m)' = Published(m)
      BY <2>1 DEF Published, Count, Places
    <2>3. /\ Inside(m)' \in Nat /\ Ahead(m)' \in Nat /\ Faults' \in Nat
          /\ Inside(m)' + Ahead(m)' + Faults <= Inside(m) + Ahead(m) + Faults'
      BY <1>1, <1>3, ConsumerMoves
    <2>4. Published(m) \in Nat /\ Inside(m) \in Nat /\ Ahead(m) \in Nat /\ Faults \in Nat
      BY <1>1, ReadsParts
    <2> QED BY <2>2, <2>3, <2>4
  <1>4. ASSUME NEW m \in Messages
        PROVE  Good(m)
    <2>1. Published(m) \in Nat /\ Inside(m) \in Nat /\ Ahead(m) \in Nat /\ Faults \in Nat
      BY <1>1, ReadsParts
    <2>2. ASSUME NEW w \in Workers, FunctionEnds(w) PROVE Good(m)
      BY <1>3, <2>2 DEF FunctionEnds, WorkerStep
    <2>3. CASE Elsewhere
      BY <1>3, <2>3 DEF Elsewhere, WorkerStep
    <2>4. CASE Callback \/ SendRaises
      <3>1. HandlerStep /\ UNCHANGED <<pc, position, member, committed, available, evictions,
                                       crashes>>
        BY <2>4 DEF Callback, SendRaises, HandlerStep, HandleResult, CallbackRaises,
                    topicVars, groupVars, mainVars
      <3>2. Ahead(m)' = Ahead(m) /\ Faults' = Faults
        BY <1>1, <3>1, AheadStays DEF Faults
      <3>3. /\ results[1] \in Result /\ Inside(m)' \in Nat
            /\ Inside(m) = Inside(m)' + One(results[1].msg, m)
        BY <1>1, <3>1, InsideHandled
      <3>4. PICK x \in Messages : x = results[1].msg
        BY <3>3 DEF Result
      <3>5. One(x, m) \in Nat
        BY DEF One
      <3>6. CASE Producer!Send(x)
        <4>1. Published(m)' = Published(m) + One(x, m)
          BY <1>1, <3>6, SentMoves
        <4> QED BY <2>1, <3>2, <3>3, <3>4, <3>5, <4>1
      <3>7. CASE UNCHANGED producerVars
        <4>1. buffer' = buffer /\ stored' = stored
          BY <3>7 DEF producerVars
        <4>2. Published(m)' = Published(m)
          BY <4>1 DEF Published, Count, Places
        <4> QED BY <2>1, <3>2, <3>3, <3>4, <3>5, <4>2
      <3> QED BY <2>4, <3>4, <3>6, <3>7 DEF Callback, SendRaises
    <2>5. CASE Sender
      <3>1. UNCHANGED vars /\ Producer!Sender
        BY <2>5 DEF Sender
      <3>2. UNCHANGED <<pc, position, member, committed, available, evictions, crashes,
                        poolVars>>
        BY <3>1 DEF vars, topicVars, groupVars, mainVars
      <3>3. Ahead(m)' = Ahead(m) /\ Faults' = Faults
        BY <1>1, <3>2, AheadStays DEF Faults
      <3>4. Inside(m)' = Inside(m)
        BY <3>2 DEF poolVars, Inside, Count, Places, EndedAt, WorkersAt
      <3>5. Published(m)' \in Nat /\ Published(m)' <= Published(m)
        BY <1>1, <3>1, SentMoves
      <3> QED BY <2>1, <3>3, <3>4, <3>5
    <2>6. CASE End
      <3>1. Die /\ Producer!End
        BY <2>6 DEF End
      <3>2. /\ Inside(m)' \in Nat /\ Ahead(m)' \in Nat /\ Faults' \in Nat
            /\ Inside(m)' + Ahead(m)' + Faults <= Inside(m) + Ahead(m) + Faults'
        BY <1>1, <3>1, ConsumerMoves
      <3>3. Published(m)' \in Nat /\ Published(m)' <= Published(m)
        BY <1>1, <3>1, SentMoves
      <3> QED BY <2>1, <3>2, <3>3
    <2>7. CASE UNCHANGED allVars
      <3>1. UNCHANGED <<pc, position, member, committed, available, evictions, crashes,
                        poolVars, buffer, stored>>
        BY <2>7 DEF allVars, vars, topicVars, groupVars, mainVars, producerVars
      <3>2. Ahead(m)' = Ahead(m) /\ Faults' = Faults
        BY <1>1, <3>1, AheadStays DEF Faults
      <3>3. Inside(m)' = Inside(m) /\ Published(m)' = Published(m)
        BY <3>1 DEF poolVars, Inside, Published, Count, Places, EndedAt, WorkersAt
      <3> QED BY <2>1, <3>2, <3>3
    <2> QED BY <2>2, <2>3, <2>4, <2>5, <2>6, <2>7 DEF GuessrNext
  <1>5. buffer' \in Seq(Messages) /\ stored' \in Seq(Messages)
    <2>1. CASE UNCHANGED producerVars
      BY <1>1, <2>1 DEF producerVars
    <2>2. CASE Producer!Sender \/ Producer!End
      BY <1>1, <2>2, SentTypes
    <2>3. CASE Callback
      <3>1. results \in Seq(Result) /\ results # <<>>
        BY <1>1, <2>3 DEF Callback, HandleResult, NextResult, IInv, TypeOK
      <3>2. results[1].msg \in Messages
        <4>1. results[1] \in Result
          BY <3>1
        <4> QED BY <4>1 DEF Result
      <3> QED BY <1>1, <2>1, <2>3, <3>2, SentTypes DEF Callback
    <2> QED BY <2>1, <2>2, <2>3
            DEF GuessrNext, FunctionEnds, SendRaises, Sender, End, Elsewhere, allVars
  <1>6. ASSUME NEW m \in Messages
        PROVE  (Reads(m) <= 1 + evictions + crashes)'
    <2>1. Good(m)
      BY <1>4
    <2>2. Published(m) \in Nat /\ Inside(m) \in Nat /\ Ahead(m) \in Nat /\ Faults \in Nat
      BY <1>1, ReadsParts
    <2>3. Published(m) + Inside(m) + Ahead(m) <= 1 + Faults
      <3>1. evictions \in Nat /\ crashes \in Nat /\ Reads(m) <= 1 + evictions + crashes
        BY <1>1, AheadTypes DEF GuessrIInv
      <3> QED BY <2>2, <3>1 DEF Faults, Reads
    <2>4. Published(m)' + Inside(m)' + Ahead(m)' <= 1 + Faults'
      BY <2>1, <2>2, <2>3
    <2>5. evictions' \in Nat /\ crashes' \in Nat
      BY <1>2 DEF IInv, TypeOK
    <2> QED BY <2>1, <2>4, <2>5 DEF Faults, Reads
  <1> QED BY <1>2, <1>5, <1>6 DEF GuessrIInv

(* Times counts what is on the topic and what waits for it.                *)
LEMMA TimesBounded == GuessrIInv => RepeatsBounded
  <1> SUFFICES ASSUME GuessrIInv, NEW m \in Messages
               PROVE  Times(m) <= 1 + evictions + crashes
    BY DEF RepeatsBounded
  <1>1. Times(m) = Published(m)
    BY CountConcat DEF GuessrIInv, Times, Sent, Published
  <1>2. Published(m) \in Nat /\ Inside(m) \in Nat /\ Ahead(m) \in Nat
    BY ReadsParts DEF GuessrIInv
  <1>3. Reads(m) <= 1 + evictions + crashes /\ evictions \in Nat /\ crashes \in Nat
    BY AheadTypes DEF GuessrIInv
  <1> QED BY <1>1, <1>2, <1>3 DEF Reads

(* The points of a message are published once, and once more at most for   *)
(* each rebalance and each crash, however results, workers and the sender  *)
(* thread interleave.                                                      *)
THEOREM RepeatsAreFaults == GuessrSpec => []RepeatsBounded
  <1>1. GuessrSpec => []GuessrIInv
    BY GuessrInitially, GuessrStep, PTL DEF GuessrSpec
  <1> QED BY <1>1, TimesBounded, PTL
=============================================================================
