------------------------ MODULE MCSensorTransmission ------------------------
(* SensorTransmission with small constants for TLC.                        *)
EXTENDS SensorTransmission

MCSessions == {1, 2}
=============================================================================
