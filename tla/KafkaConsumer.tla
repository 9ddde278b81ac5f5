---------------------------- MODULE KafkaConsumer ----------------------------
(***************************************************************************)
(* The consumer guessr and monitoring_keeper are built on                  *)
(* (common/python/kafka_consumer.py): the main thread takes messages from  *)
(* a topic, hands each to a pool of processes and commits the offset; a    *)
(* thread of the pool runs the callback of each result, which releases the *)
(* semaphore that bounds the messages in flight.                           *)
(*                                                                         *)
(* A message is its offset.  The topic is one partition: the group's       *)
(* commits of different partitions do not interact.                        *)
(***************************************************************************)
EXTENDS Integers, Sequences, FiniteSets

CONSTANTS
  MaxMessages,       \* bound on the messages published to the topic
  CacheLimit,        \* cfg.pool_cache_limit (100 in the code)
  Workers,           \* the processes of the pool
  FunctionOutcomes,  \* how consumer_func may end: "value", "raise", "die"
  CallbackOutcomes,  \* how the callback may end: "ok", "raise"
  MaxEvictions,      \* bound on the rebalances that put the consumer out
  MaxCrashes         \* bound on the deaths of the process

ASSUME MessagesAssumption == MaxMessages \in Nat
ASSUME CacheLimitAssumption == CacheLimit \in Nat \ {0}
ASSUME WorkersAssumption == IsFiniteSet(Workers)
ASSUME BoundsAssumption == MaxEvictions \in Nat /\ MaxCrashes \in Nat

Messages == 1..MaxMessages
NoMessage == 0
NoOffset == -1      \* the group has not committed anything yet

VARIABLES
  available,    \* messages published so far
  committed,    \* the group's committed offset
  member,       \* whether the group still knows the consumer
  evictions,    \* number of rebalances that put it out
  position,     \* offset of the last message taken from the topic
  pc,           \* where the main thread is
  stop,         \* stop_processing
  permits,      \* value of the semaphore
  leaked,       \* history: permits of this process no callback will release
  taskQ,        \* tasks the pool has not started
  task,         \* what each worker is working on
  results,      \* results the handler thread has not taken
  handlerAlive, \* whether the pool's result handler thread still runs
  crashes,      \* number of deaths of the process
  handled,      \* history: messages whose result reached the callback
  lost,         \* history: messages in flight that died with a process
  skipped       \* history: messages passed over by auto_offset_reset

topicVars == <<available, committed>>
groupVars == <<member, evictions>>
mainVars == <<position, pc, stop>>
permitVars == <<permits, leaked>>
poolVars == <<taskQ, task, results, handlerAlive>>
historyVars == <<handled, lost, skipped>>
vars == <<topicVars, groupVars, mainVars, permitVars, poolVars, crashes, historyVars>>

PC == {"poll", "acquire", "dispatch", "commit", "exited", "down"}
Result == [msg : Messages, ok : BOOLEAN]

Busy == {w \in Workers : task[w] # NoMessage}
InPool == {taskQ[i] : i \in DOMAIN taskQ} \cup {task[w] : w \in Busy}
            \cup {results[i].msg : i \in DOMAIN results}

Init ==
  /\ available = 0 /\ committed = NoOffset
  /\ member = TRUE /\ evictions = 0
  /\ position = 0 /\ pc = "poll" /\ stop = FALSE
  /\ permits = CacheLimit /\ leaked = 0
  /\ taskQ = <<>> /\ task = [w \in Workers |-> NoMessage] /\ results = <<>>
  /\ handlerAlive = TRUE
  /\ crashes = 0
  /\ handled = {} /\ lost = {} /\ skipped = {}

-----------------------------------------------------------------------------
(* The producers of the topic.                                             *)
Publish ==
  /\ available < MaxMessages
  /\ available' = available + 1
  /\ UNCHANGED <<committed, groupVars, mainVars, permitVars, poolVars, crashes, historyVars>>

-----------------------------------------------------------------------------
(* main_loop.                                                              *)

TakeWhateverStop ==       \* a bug: the stop flag is not looked at
  /\ pc = "poll" /\ position < available
  /\ pc' = "acquire" /\ position' = position + 1
  /\ UNCHANGED <<topicVars, groupVars, stop, permitVars, poolVars, crashes, historyVars>>

(* The next message; the stop flag is only looked at here.                 *)
Take ==
  /\ pc = "poll" /\ position < available
  /\ IF stop
     THEN pc' = "exited" /\ UNCHANGED position
     ELSE pc' = "acquire" /\ position' = position + 1
  /\ UNCHANGED <<topicVars, groupVars, stop, permitVars, poolVars, crashes, historyVars>>

Acquire ==
  /\ pc = "acquire" /\ permits > 0
  /\ permits' = permits - 1 /\ pc' = "dispatch"
  /\ UNCHANGED <<topicVars, groupVars, position, stop, leaked, poolVars, crashes, historyVars>>

DispatchForgetful ==      \* a bug: the message is not handed to the pool
  /\ pc = "dispatch"
  /\ pc' = "commit"
  /\ UNCHANGED <<topicVars, groupVars, position, stop, permitVars, poolVars, crashes,
                 historyVars>>

Dispatch ==
  /\ pc = "dispatch"
  /\ taskQ' = Append(taskQ, position) /\ pc' = "commit"
  /\ UNCHANGED <<topicVars, groupVars, position, stop, permitVars, task, results,
                 handlerAlive, crashes, historyVars>>

Commit ==
  /\ pc = "commit" /\ member
  /\ committed' = position /\ pc' = "poll"
  /\ UNCHANGED <<available, groupVars, position, stop, permitVars, poolVars, crashes,
                 historyVars>>

CommitFailsButStays ==    \* a bug: a failed commit counts as done
  /\ pc = "commit" /\ ~member
  /\ pc' = "poll" /\ member' = TRUE
  /\ UNCHANGED <<topicVars, evictions, position, stop, permitVars, poolVars, crashes,
                 historyVars>>

(* CommitFailedError: `continue'.                                          *)
CommitFails ==
  /\ pc = "commit" /\ ~member
  /\ pc' = "poll"
  /\ UNCHANGED <<topicVars, groupVars, position, stop, permitVars, poolVars, crashes,
                 historyVars>>

-----------------------------------------------------------------------------
(* The group.  A consumer put out by a rebalance goes on with the messages *)
(* it has fetched until a poll lets it join again.                         *)

Evict ==
  /\ member /\ pc \notin {"exited", "down"} /\ evictions < MaxEvictions
  /\ member' = FALSE /\ evictions' = evictions + 1
  /\ UNCHANGED <<topicVars, mainVars, permitVars, poolVars, crashes, historyVars>>

JoinAtBeginning ==        \* a bug: the committed offset is ignored
  /\ member' = TRUE
  /\ position' = 0
  /\ UNCHANGED skipped

(* Joining starts at the committed offset, and at the end of the topic     *)
(* when there is none: auto_offset_reset is latest.                        *)
Join ==
  /\ member' = TRUE
  /\ position' = IF committed = NoOffset THEN available ELSE committed
  /\ skipped' = skipped \cup IF committed = NoOffset THEN 1..available ELSE {}

Rejoin ==
  /\ pc = "poll" /\ ~member /\ Join
  /\ UNCHANGED <<topicVars, evictions, pc, stop, permitVars, poolVars, crashes,
                 handled, lost>>

-----------------------------------------------------------------------------
(* The pool: its processes and its result handler thread.                  *)

Running == pc # "down"

StartTask(w) ==
  /\ Running /\ task[w] = NoMessage /\ taskQ # <<>>
  /\ task' = [task EXCEPT ![w] = Head(taskQ)] /\ taskQ' = Tail(taskQ)
  /\ UNCHANGED <<topicVars, groupVars, mainVars, permitVars, results, handlerAlive, crashes,
                 historyVars>>

EndTask(w, ok) ==
  /\ Running /\ task[w] # NoMessage
  /\ (IF ok THEN "value" ELSE "raise") \in FunctionOutcomes
  /\ results' = Append(results, [msg |-> task[w], ok |-> ok])
  /\ task' = [task EXCEPT ![w] = NoMessage]
  /\ UNCHANGED <<topicVars, groupVars, mainVars, permitVars, taskQ, handlerAlive, crashes,
                 historyVars>>

(* A worker process is killed: the pool replaces it, nobody redoes or      *)
(* reports its task.                                                       *)
WorkerDies(w) ==
  /\ Running /\ task[w] # NoMessage /\ "die" \in FunctionOutcomes
  /\ task' = [task EXCEPT ![w] = NoMessage]
  /\ leaked' = leaked + 1
  /\ lost' = lost \cup {task[w]}
  /\ UNCHANGED <<topicVars, groupVars, mainVars, permits, taskQ, results, handlerAlive, crashes,
                 handled, skipped>>

NextResult == /\ Running /\ handlerAlive /\ results # <<>>
              /\ results' = Tail(results)

HandleWithoutRelease ==   \* a bug: an error result keeps its permit
  /\ NextResult
  /\ results[1].ok => "ok" \in CallbackOutcomes
  /\ permits' = IF results[1].ok THEN permits + 1 ELSE permits
  /\ handled' = handled \cup {results[1].msg}
  /\ UNCHANGED <<topicVars, groupVars, mainVars, leaked, taskQ, task, handlerAlive, crashes,
                 lost, skipped>>

(* callback_release, or error_callback_release for a function that raised. *)
HandleResult ==
  /\ NextResult
  /\ results[1].ok => "ok" \in CallbackOutcomes
  /\ permits' = permits + 1
  /\ handled' = handled \cup {results[1].msg}
  /\ UNCHANGED <<topicVars, groupVars, mainVars, leaked, taskQ, task, handlerAlive, crashes,
                 lost, skipped>>

(* The callback raises: release is not reached and nothing in the pool     *)
(* catches the exception, which ends the handler thread.                   *)
CallbackRaises ==
  /\ NextResult
  /\ results[1].ok /\ "raise" \in CallbackOutcomes
  /\ handlerAlive' = FALSE /\ leaked' = leaked + 1
  /\ handled' = handled \cup {results[1].msg}
  /\ UNCHANGED <<topicVars, groupVars, mainVars, permits, taskQ, task, crashes,
                 lost, skipped>>

-----------------------------------------------------------------------------
(* The process: signals, death, restart by the container runtime.          *)

SetStopProcessing ==
  /\ Running /\ ~stop
  /\ stop' = TRUE
  /\ UNCHANGED <<topicVars, groupVars, position, pc, permitVars, poolVars, crashes, historyVars>>

(* Leaving main_loop ends the process and terminates the pool.             *)
Die ==
  /\ Running /\ (pc = "exited" \/ crashes < MaxCrashes)
  /\ crashes' = IF pc = "exited" THEN crashes ELSE crashes + 1
  /\ pc' = "down" /\ member' = FALSE
  /\ taskQ' = <<>> /\ task' = [w \in Workers |-> NoMessage] /\ results' = <<>>
  /\ lost' = lost \cup InPool
  /\ UNCHANGED <<topicVars, evictions, position, stop, permitVars, handlerAlive, handled,
                 skipped>>

Restart ==
  /\ pc = "down" /\ pc' = "poll" /\ stop' = FALSE
  /\ permits' = CacheLimit /\ leaked' = 0 /\ handlerAlive' = TRUE
  /\ Join
  /\ UNCHANGED <<topicVars, evictions, taskQ, task, results, crashes, handled,
                 lost>>

MainStep == Take \/ Acquire \/ Dispatch \/ Commit \/ CommitFails \/ Rejoin
WorkerStep(w) == StartTask(w) \/ EndTask(w, TRUE) \/ EndTask(w, FALSE) \/ WorkerDies(w)
HandlerStep == HandleResult \/ CallbackRaises

Next ==
  \/ Publish
  \/ MainStep
  \/ \E w \in Workers : WorkerStep(w)
  \/ HandlerStep
  \/ Evict \/ SetStopProcessing \/ Die \/ Restart

Spec == Init /\ [][Next]_vars

(* Every thread and process is scheduled; the runtime restarts a process   *)
(* that ended without having been asked to stop.                           *)
Fairness ==
  /\ WF_vars(MainStep) /\ WF_vars(HandlerStep)
  /\ \A w \in Workers : WF_vars(WorkerStep(w))
  /\ WF_vars(pc = "exited" /\ Die) /\ WF_vars(~stop /\ Restart)

FairSpec == Spec /\ Fairness

-----------------------------------------------------------------------------
(* Every variable keeps its type.                                          *)
TypeOK ==
  /\ available \in 0..MaxMessages /\ committed \in NoOffset..MaxMessages
  /\ member \in BOOLEAN /\ evictions \in 0..MaxEvictions
  /\ position \in 0..MaxMessages /\ pc \in PC /\ stop \in BOOLEAN
  /\ permits \in 0..CacheLimit /\ leaked \in 0..CacheLimit
  /\ taskQ \in Seq(Messages) /\ results \in Seq(Result)
  /\ task \in [Workers -> Messages \cup {NoMessage}]
  /\ handlerAlive \in BOOLEAN /\ crashes \in 0..MaxCrashes
  /\ handled \subseteq Messages
  /\ lost \subseteq Messages /\ skipped \subseteq Messages

(* Messages that hold a permit.                                            *)
InFlight == Len(taskQ) + Cardinality(Busy) + Len(results)
              + IF pc = "dispatch" THEN 1 ELSE 0

(* Every permit is free, held by one message in flight, or gone with a     *)
(* worker that died or a callback that raised: release runs exactly once   *)
(* for each acquire, and the pool never holds more than CacheLimit.        *)
PermitsConserved == Running => permits + InFlight + leaked = CacheLimit

(* A message at or below the committed offset reached the callback, is in  *)
(* the pool, died with a process, or was passed over when the consumer     *)
(* started: committing before the result is known forgets nothing else.    *)
NothingForgotten ==
  \A m \in 1..committed : m \in handled \cup InPool \cup lost \cup skipped

(* While the group knows the consumer, at most the message being           *)
(* dispatched is uncommitted: a crash redelivers at most that one.         *)
WindowOfOne == member /\ committed # NoOffset => position \in committed..(committed + 1)

(* A callback that raised ended the result handler, or workers that died   *)
(* took every permit: the main loop comes to wait for ever.                *)
PoolBroken == ~handlerAlive \/ leaked = CacheLimit

(* The workers see every published message unless the consumer is asked to *)
(* stop, whatever the callback does.                                       *)
AllProcessed ==
  \A m \in Messages :
    available >= m ~> (\/ m \in handled \cup lost \cup skipped \/ stop
                       \/ \E i \in DOMAIN results : results[i].msg = m)

(* A consumer asked to stop ends if the topic still has a message for it,  *)
(* however full the pool is and whatever the group does meanwhile, unless  *)
(* the pool breaks.                                                        *)
StopExits ==
  (stop /\ Running /\ committed # NoOffset /\ position < available)
    ~> pc = "down" \/ PoolBroken
=============================================================================
