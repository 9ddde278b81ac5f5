------------------------------ MODULE MCGuessr ------------------------------
(* Instances of Guessr for TLC: small numbers, two workers, one message    *)
(* without points.                                                         *)
EXTENDS Guessr

MCBad == {2}
=============================================================================
