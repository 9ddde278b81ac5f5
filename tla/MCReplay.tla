------------------------------ MODULE MCReplay ------------------------------
(* Instances of Replay for TLC: a collection of one document that grows by *)
(* a message of a phone and what the imitator adds, two starts of either   *)
(* program, batches of two, two processes with a chunk each, one broken    *)
(* link.                                                                   *)
EXTENDS Replay
=============================================================================
