------------------------ MODULE MCSensorTransmitter ------------------------
(* Instances of SensorTransmitter for TLC: small numbers.                  *)
EXTENDS SensorTransmitter
=============================================================================
