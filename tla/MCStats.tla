------------------------------- MODULE MCStats --------------------------------
(* A ring of four slots that wraps, the percentile three in four, and      *)
(* integers narrow enough for the sum to saturate.                         *)
EXTENDS RefreshStats

MCReading == {0, 2, 5}
=============================================================================
