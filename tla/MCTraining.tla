----------------------------- MODULE MCTraining -----------------------------
(* Instances of Training for TLC: windows of four samples; the first drive *)
(* gives one entry and the second two.                                     *)
EXTENDS Training

MCSamples == <<6, 7>>
=============================================================================
