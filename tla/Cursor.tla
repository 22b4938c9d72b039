------------------------------- MODULE Cursor --------------------------------
(***************************************************************************)
(* CursorState of src/cursor.rs as blink_until_key uses it: one tick of    *)
(* POLL_MS per turn of the loop.  Every GLITCH_EVERY_N-th blink shows a    *)
(* broken glyph, chosen by a 16-bit feedback shift register.  The register *)
(* is a function from bit numbers to bits, so that its shifts can be       *)
(* reasoned about for any width and taps.                                  *)
(***************************************************************************)
EXTENDS Naturals, FiniteSets

CONSTANTS PollMs,        \* POLL_MS
          BlinkHalfMs,   \* BLINK_HALF_MS
          GlitchEveryN,  \* GLITCH_EVERY_N
          Top,           \* the highest bit of lfsr, 15
          Taps,          \* the bits fed back: 0, 2, 3, 5
          Seed           \* 0xACE1

Bit == 0..Top
Zero == [i \in Bit |-> 0]
Register == [Bit -> {0, 1}]

\* A tick never spans more than one switch, and the bit that is shifted out
\* is fed back.
ASSUME CursorAssumption ==
    /\ {PollMs, BlinkHalfMs, GlitchEveryN} \subseteq Nat \ {0}
    /\ PollMs <= BlinkHalfMs
    /\ Top \in Nat \ {0}
    /\ Taps \subseteq Bit /\ 0 \in Taps
    /\ Seed \in Register \ {Zero}

VARIABLES phase, since_switch_ms, blinks_since_glitch, lfsr, current_glyph

vars == <<phase, since_switch_ms, blinks_since_glitch, lfsr, current_glyph>>

-----------------------------------------------------------------------------
(* lfsr_next *)

\* The exclusive or of the tapped bits.
Feedback(r) == Cardinality({t \in Taps : r[t] = 1}) % 2

\* A slip: the feedback bit is computed and dropped.
ShiftedOnly(r) == [i \in Bit |-> IF i = Top THEN 0 ELSE r[i + 1]]

\* (lfsr >> 1) | (bit << 15)
Shifted(r) == [i \in Bit |-> IF i = Top THEN Feedback(r) ELSE r[i + 1]]

-----------------------------------------------------------------------------
(* tick *)

BROKEN_GLYPHS ==
    <<"missing pixel", "smeared edge", "shifted column", "phosphor trail">>

\* A slip: a mask of one bit for a remainder by four.
VariantMasked(r) == 2 * r[1]

\* lfsr % 4
Variant(r) == 2 * r[1] + r[0]

\* A slip: the time past the switch is forgotten.
Dropped(ms) == 0

\* What is left of the time accumulated when a half is over.
Carried(ms) == ms - BlinkHalfMs

\* A slip: one blink too many before the glitch.
glitch_due_late == blinks_since_glitch + 1 > GlitchEveryN
glitch_due == blinks_since_glitch + 1 >= GlitchEveryN

\* Off to on: pick the glyph.
Light ==
    /\ phase' = "on"
    /\ \/ /\ glitch_due
          /\ blinks_since_glitch' = 0
          /\ lfsr' = Shifted(lfsr)
          /\ current_glyph' = BROKEN_GLYPHS[Variant(lfsr') + 1]
       \/ /\ ~glitch_due
          /\ blinks_since_glitch' = blinks_since_glitch + 1
          /\ current_glyph' = "canonical"
          /\ UNCHANGED lfsr

Darken ==
    /\ phase' = "off"
    /\ UNCHANGED <<blinks_since_glitch, lfsr, current_glyph>>

Tick ==
    LET since == since_switch_ms + PollMs
    IN  \/ /\ since < BlinkHalfMs
           /\ since_switch_ms' = since
           /\ UNCHANGED <<phase, blinks_since_glitch, lfsr, current_glyph>>
        \/ /\ since >= BlinkHalfMs
           /\ since_switch_ms' = Carried(since)
           /\ \/ phase = "on" /\ Darken
              \/ phase = "off" /\ Light

\* What tick returns: the glyph to draw, or nothing in the dark half.
Shown == IF phase = "on" THEN current_glyph ELSE "none"

-----------------------------------------------------------------------------
\* CursorState::new
Init ==
    /\ phase = "on" /\ since_switch_ms = 0 /\ blinks_since_glitch = 0
    /\ lfsr = Seed /\ current_glyph = "canonical"

\* The loop that ticks the cursor runs until a key is pressed, which may be
\* never; while it runs, stall returns.
Spec == Init /\ [][Tick]_vars /\ WF_vars(Tick)

-----------------------------------------------------------------------------
(* Properties *)

Broken == {BROKEN_GLYPHS[i] : i \in 1..4}

\* Every field keeps its type; less than half a blink is ever carried over,
\* and the blink count stays below the one that glitches.
TypeOK ==
    /\ phase \in {"on", "off"}
    /\ since_switch_ms \in 0..(BlinkHalfMs - 1)
    /\ blinks_since_glitch \in 0..(GlitchEveryN - 1)
    /\ lfsr \in Register
    /\ current_glyph \in Broken \cup {"canonical"}

\* "never zero" (cursor.rs:65): a register that is all zero stays there, and
\* every glitch from then on would be the same one.
NeverZero == lfsr # Zero

Blink == INSTANCE Blinker WITH
    clock <- 2 * BlinkHalfMs * blinks_since_glitch
               + (IF phase = "on" THEN 0 ELSE BlinkHalfMs) + since_switch_ms,
    face  <- IF phase = "off" THEN "dark"
             ELSE IF current_glyph = "canonical" THEN "whole" ELSE "broken"

\* However the polls fall into the halves, what is on screen follows from
\* the time passed: the blinks do not drift, and exactly every
\* GlitchEveryN-th one is broken.
ImplementsBlinker == Blink!Spec

\* An operator who waits long enough sees each of the four broken glyphs,
\* again and again.
EveryGlyphRecurs == \A g \in Broken : []<>(Shown = g)
=============================================================================
