------------------------------ MODULE EventLog ------------------------------
(***************************************************************************)
(* What the in-memory event trail of uncalibrated-sextant promises to its  *)
(* two readers, the on-screen digest and the serial drain: an append-only  *)
(* log of which the most recent Capacity entries stay readable, oldest     *)
(* first.  Timeline.tla shows that RingBuffer<N> (src/event.rs) keeps this *)
(* promise with a fixed array, a head index and a length.                  *)
(***************************************************************************)
EXTENDS Naturals, Sequences, Recency

CONSTANTS Event,     \* the events the program records
          Capacity,  \* how many of them stay readable
          MaxLog     \* bound on the log, for model checking only

VARIABLES log,       \* every event recorded since power-on
          window     \* what a reader that walks the trail sees

vars == <<log, window>>

Init == log = <<>> /\ window = <<>>

Record(e) ==
    /\ Len(log) < MaxLog
    /\ log' = Append(log, e)
    /\ window' = Recent(log', Capacity)

Next == \E e \in Event : Record(e)

Spec == Init /\ [][Next]_vars
=============================================================================
