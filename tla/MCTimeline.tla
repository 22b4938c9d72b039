----------------------------- MODULE MCTimeline -----------------------------
(* Timeline with a ring of three slots, two channels and two event sizes.  *)
EXTENDS Timeline

\* Two small events on one channel and one large event on another.
MCEvent == {"key", "key2", "mode"}
MCChannel == [e \in MCEvent |-> IF e = "mode" THEN "modes" ELSE "keys"]
MCCost == [e \in MCEvent |-> IF e = "mode" THEN 3 ELSE 1]
=============================================================================
