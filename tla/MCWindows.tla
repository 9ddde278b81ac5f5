----------------------------- MODULE MCWindows -----------------------------
(* Instances of Windows for TLC: windows of four samples of a quarter of a *)
(* second, and messages from no overlap of the series to several windows,  *)
(* with times about the boundaries of milliseconds and seconds.            *)
EXTENDS Windows

MCStarts == {0, 300, 250001, 1000999}
MCEnds == {1000, 1000001, 1500999, 2000999, 2999000, 3600750}
=============================================================================
