------------------------------ MODULE MCCursor -------------------------------
(* The register of the program, at its full period, with a blink whose     *)
(* half is no multiple of the poll interval.                               *)
EXTENDS Cursor

MCTaps == {0, 2, 3, 5}

\* 0xACE1 = 1010 1100 1110 0001
MCSeed == [i \in 0..15 |-> IF i \in {0, 5, 6, 7, 10, 11, 13, 15} THEN 1 ELSE 0]
=============================================================================
