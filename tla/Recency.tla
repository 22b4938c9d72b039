------------------------------ MODULE Recency -------------------------------
(* The one sequence operator the event trail is about.                     *)
EXTENDS Naturals, Sequences

\* The last n entries of s, or all of s when it is shorter.
Recent(s, n) ==
    IF Len(s) <= n THEN s ELSE SubSeq(s, Len(s) - n + 1, Len(s))
=============================================================================
