------------------------------- MODULE Blinker -------------------------------
(***************************************************************************)
(* What the cursor promises to an eye: lit for one half of a blink, dark   *)
(* for the other, and broken on every GlitchEveryN-th blink.  All of it    *)
(* follows from how much time has passed; the clock counts the             *)
(* milliseconds of one round of GlitchEveryN blinks.                       *)
(***************************************************************************)
EXTENDS Naturals

CONSTANTS PollMs, BlinkHalfMs, GlitchEveryN

VARIABLES clock, face

vars == <<clock, face>>

Round == 2 * BlinkHalfMs * GlitchEveryN

Half(t) == t \div BlinkHalfMs

Face(half) ==
    CASE half % 2 = 1 -> "dark"
      [] half = 0     -> "broken"
      [] OTHER        -> "whole"

\* The first blink of all is a whole one.
Init == clock = 0 /\ face = "whole"

Poll ==
    /\ clock' = (clock + PollMs) % Round
    /\ face' = IF Half(clock') = Half(clock) THEN face ELSE Face(Half(clock'))

Spec == Init /\ [][Poll]_vars
=============================================================================
