---------------------------- MODULE KafkaProducer ----------------------------
(***************************************************************************)
(* common/python/kafka_producer.py, which guessr and monitoring_loader     *)
(* publish with: send puts a message in the buffer of kafka-python and     *)
(* returns; a sender thread decides its fate later, and tells only a       *)
(* callback that logs.  kafka-python retries nothing by default.           *)
(*                                                                         *)
(* A message is whatever the user of the module sends.                     *)
(***************************************************************************)
EXTENDS Naturals, Sequences

VARIABLES
  buffer,   \* accepted by send and not decided, oldest first
  stored,   \* on the topic, oldest first
  failed,   \* messages the errback was called for
  dropped   \* messages in the buffer of a process that ended

producerVars == <<buffer, stored, failed, dropped>>

Elements(s) == {s[i] : i \in DOMAIN s}

Init == buffer = <<>> /\ stored = <<>> /\ failed = {} /\ dropped = {}

SendTwice(m) ==           \* a bug: the message is queued again
  /\ buffer' = buffer \o <<m, m>>
  /\ UNCHANGED <<stored, failed, dropped>>

Send(m) ==
  /\ buffer' = Append(buffer, m)
  /\ UNCHANGED <<stored, failed, dropped>>

(* on_send_success.                                                        *)
Deliver ==
  /\ buffer # <<>>
  /\ stored' = Append(stored, Head(buffer)) /\ buffer' = Tail(buffer)
  /\ UNCHANGED <<failed, dropped>>

(* on_send_error: the message is gone, unless only its answer was lost.    *)
Fail ==
  /\ buffer # <<>>
  /\ failed' = failed \cup {Head(buffer)} /\ buffer' = Tail(buffer)
  /\ stored' \in {stored, Append(stored, Head(buffer))}
  /\ UNCHANGED dropped

(* flush returns when everything sent has been decided.                    *)
Flushed == buffer = <<>>

(* The process ends: at exit kafka-python closes without waiting.          *)
End ==
  /\ dropped' = dropped \cup Elements(buffer) /\ buffer' = <<>>
  /\ UNCHANGED <<stored, failed>>

Sender == Deliver \/ Fail
=============================================================================
