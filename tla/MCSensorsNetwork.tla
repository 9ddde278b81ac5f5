-------------------------- MODULE MCSensorsNetwork --------------------------
(* Instances of SensorsNetwork for TLC: two activities, an address that    *)
(* works and one without a port, two accounts.                             *)
EXTENDS SensorsNetwork
=============================================================================
