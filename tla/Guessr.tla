------------------------------- MODULE Guessr -------------------------------
(***************************************************************************)
(* guessr/src/main.py as a service: the consumer of common/python with the *)
(* callback that publishes the points of a message with the producer of    *)
(* common/python.  Every step is one of KafkaConsumer, and what it does to *)
(* the producer.                                                           *)
(*                                                                         *)
(* The points of a message are named by the message.                       *)
(***************************************************************************)
EXTENDS KafkaConsumer

CONSTANT Bad   \* messages without points: consumer_func catches or raises

ASSUME BadAssumption == Bad \subseteq Messages

VARIABLES
  buffer, stored, failed, dropped,   \* see KafkaProducer
  unsent                             \* history: messages for which send raised

Producer == INSTANCE KafkaProducer
producerVars == <<buffer, stored, failed, dropped>>
allVars == <<vars, producerVars, unsent>>

GuessrInit == Init /\ Producer!Init /\ unsent = {}

(* consumer_func raises only for a bad message; for another it returns     *)
(* (True, points), and may also return (False, points) for a bad one.      *)
FunctionEnds(w) ==
  /\ EndTask(w, TRUE) \/ (task[w] \in Bad /\ EndTask(w, FALSE))
  /\ UNCHANGED <<producerVars, unsent>>

(* consumer_callback: the points of a pair that begins with True are sent. *)
Callback ==
  /\ HandleResult
  /\ IF results[1].ok /\ results[1].msg \notin Bad
     THEN Producer!Send(results[1].msg)
     ELSE UNCHANGED producerVars
  /\ UNCHANGED unsent

(* producer.send raises when it gets no metadata, or no room, for a minute. *)
SendRaises ==
  /\ CallbackRaises /\ results[1].msg \notin Bad
  /\ unsent' = unsent \cup {results[1].msg}
  /\ UNCHANGED producerVars

(* The producer ends with the process; nothing flushes it.                 *)
End == Die /\ Producer!End /\ UNCHANGED unsent

Sender == Producer!Sender /\ UNCHANGED <<vars, unsent>>

Elsewhere ==
  /\ \/ Publish \/ MainStep \/ Evict \/ SetStopProcessing \/ Restart
     \/ \E w \in Workers : StartTask(w) \/ WorkerDies(w)
  /\ UNCHANGED <<producerVars, unsent>>

GuessrNext ==
  \/ \E w \in Workers : FunctionEnds(w)
  \/ Callback \/ SendRaises \/ Sender \/ End \/ Elsewhere

GuessrSpec == GuessrInit /\ [][GuessrNext]_allVars

(* Also the sender thread is scheduled.                                    *)
GuessrFairSpec == GuessrSpec /\ Fairness /\ WF_allVars(Sender)

-----------------------------------------------------------------------------
Sent == stored \o buffer
Times(m) == Cardinality({i \in DOMAIN Sent : Sent[i] = m})

(* The points of a message are published again only for a rebalance or a   *)
(* crash, once for each: committing before processing and a sender without *)
(* retries repeat nothing else.                                            *)
RepeatsBounded == \A m \in Messages : Times(m) <= 1 + evictions + crashes

(* The points of a published message reach the topic, or are lost in one   *)
(* of the ways the code has: with a process, by an errback, by a send that *)
(* raised, passed over at a start, when asked to stop, or in a broken pool. *)
AllPublished ==
  \A m \in Messages \ Bad :
    available >= m ~>
      (m \in Producer!Elements(stored) \cup failed \cup dropped \cup lost \cup skipped
              \cup unsent
         \/ stop \/ PoolBroken)
=============================================================================
