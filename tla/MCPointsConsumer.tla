-------------------------- MODULE MCPointsConsumer --------------------------
(* Instances of PointsConsumer for TLC: every constant is a small number.  *)
EXTENDS PointsConsumer
=============================================================================
