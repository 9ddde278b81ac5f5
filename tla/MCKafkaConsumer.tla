-------------------------- MODULE MCKafkaConsumer --------------------------
(* Instances of KafkaConsumer for TLC: small numbers and two workers.      *)
EXTENDS KafkaConsumer
=============================================================================
