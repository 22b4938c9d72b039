---------------------------- MODULE Cursor_proof -----------------------------
(***************************************************************************)
(* Theorems about Cursor.tla, for every poll interval, blink length,       *)
(* register width, set of taps and seed that satisfy CursorAssumption.     *)
(***************************************************************************)
EXTENDS Cursor, FiniteSetTheorems, TLAPS

-----------------------------------------------------------------------------
(* The shift register *)

\* The feedback is a bit, so a register stays a register.
LEMMA ShiftedType ==
    ASSUME NEW r \in Register
    PROVE  Shifted(r) \in Register
<1> USE CursorAssumption DEF Bit, Register
<1> DEFINE S == {t \in Taps : r[t] = 1}
<1>1. Cardinality(S) \in Nat
  <2>1. IsFiniteSet(Bit)
    BY FS_Interval
  <2>2. S \subseteq Bit
    OBVIOUS
  <2> QED
    BY <2>1, <2>2, FS_Subset, FS_CardinalityType
<1>2. Feedback(r) \in {0, 1}
  BY <1>1 DEF Feedback
<1>3. ASSUME NEW i \in Bit, i # Top
      PROVE  i + 1 \in Bit
  BY <1>3
<1> QED
  BY <1>2, <1>3 DEF Shifted

\* Only the zero register shifts to zero: where all other bits are zero, the
\* last one is the only tap that counts.
LEMMA ShiftedNonzero ==
    ASSUME NEW r \in Register, r # Zero
    PROVE  Shifted(r) # Zero
<1> USE CursorAssumption DEF Bit, Register, Zero
<1> SUFFICES ASSUME Shifted(r) = Zero
             PROVE  FALSE
  OBVIOUS
<1>1. \A i \in Bit : i # 0 => r[i] = 0
  <2> SUFFICES ASSUME NEW i \in Bit, i # 0
               PROVE  r[i] = 0
    OBVIOUS
  <2>1. i - 1 \in Bit /\ i - 1 # Top /\ (i - 1) + 1 = i
    OBVIOUS
  <2>2. Shifted(r)[i - 1] = r[i]
    BY <2>1 DEF Shifted
  <2> QED
    BY <2>1, <2>2
<1>2. r[0] = 1
  <2>1. \E i \in Bit : r[i] # 0
    OBVIOUS
  <2> QED
    BY <1>1, <2>1
<1>3. {t \in Taps : r[t] = 1} = {0}
  BY <1>1, <1>2
<1>4. Feedback(r) = 1
  <2>1. Feedback(r) = Cardinality({0}) % 2
    BY <1>3 DEF Feedback
  <2>2. Cardinality({0}) = 1
    BY FS_Singleton
  <2>3. 1 % 2 = 1
    OBVIOUS
  <2> QED
    BY <2>1, <2>2, <2>3
<1>5. Shifted(r)[Top] = 1
  BY <1>4 DEF Shifted
<1> QED
  BY <1>5

-----------------------------------------------------------------------------
(* Type correctness *)

\* The initial state is typed.
LEMMA InitType == Init => TypeOK
BY CursorAssumption DEF Init, TypeOK, Register, Bit

\* A tick keeps every field in its range.
LEMMA TickType ==
    ASSUME TypeOK, [Tick]_vars
    PROVE  TypeOK'
<1> USE CursorAssumption DEF TypeOK
<1>1. CASE UNCHANGED vars
  BY <1>1 DEF vars
<1>2. CASE Tick
  <2>1. since_switch_ms' \in 0..(BlinkHalfMs - 1)
    BY <1>2 DEF Tick, Carried
  <2>2. CASE UNCHANGED <<phase, blinks_since_glitch, lfsr, current_glyph>>
    BY <2>1, <2>2
  <2>3. CASE Darken
    BY <2>1, <2>3 DEF Darken
  <2>4. CASE Light
    <3>1. Variant(Shifted(lfsr)) \in 0..3
      <4>1. Shifted(lfsr) \in Register
        BY ShiftedType
      <4>2. 0 \in Bit /\ 1 \in Bit
        BY DEF Bit
      <4> QED
        BY <4>1, <4>2 DEF Variant, Register
    <3>2. CASE glitch_due
      BY <2>1, <2>4, <3>1, <3>2, ShiftedType DEF Light, Broken, glitch_due
    <3>3. CASE ~glitch_due
      BY <2>1, <2>4, <3>3 DEF Light, glitch_due
    <3> QED
      BY <3>2, <3>3
  <2> QED
    BY <1>2, <2>2, <2>3, <2>4 DEF Tick
<1> QED
  BY <1>1, <1>2

\* The cursor never leaves its types, for all the constants.
THEOREM TypeCorrect == Spec => []TypeOK
BY InitType, TickType, PTL DEF Spec

\* "never zero" (cursor.rs:65), whatever the width of the register, as long
\* as the bit that is shifted out is among the taps.
THEOREM RegisterNeverZero == Spec => []NeverZero
<1>1. Init => NeverZero
  BY CursorAssumption DEF Init, NeverZero
<1>2. TypeOK /\ NeverZero /\ [Tick]_vars => NeverZero'
  <2> SUFFICES ASSUME TypeOK, NeverZero, [Tick]_vars
               PROVE  NeverZero'
    OBVIOUS
  <2>1. lfsr' \in {lfsr, Shifted(lfsr)}
    BY DEF Tick, Light, Darken, vars
  <2>2. Shifted(lfsr) # Zero
    BY ShiftedNonzero DEF TypeOK, NeverZero
  <2> QED
    BY <2>1, <2>2 DEF NeverZero
<1> QED
  BY <1>1, <1>2, TypeCorrect, PTL DEF Spec

-----------------------------------------------------------------------------
(* The clock behind the blink *)

\* A multiple of H and less than H on top divides to the multiple.
LEMMA DivUnique ==
    ASSUME NEW H \in Nat \ {0}, NEW q \in Nat, NEW s \in 0..(H - 1)
    PROVE  (q * H + s) \div H = q
<1> DEFINE a == q * H + s
           d == a \div H
<1>1. q * H \in Nat /\ a \in Nat
  OBVIOUS
<1>2. d \in Nat /\ a = H * d + (a % H) /\ a % H \in 0..(H - 1)
  BY <1>1
<1> HIDE DEF d, a
<1>3. ~(d >= q + 1)
  <2> SUFFICES ASSUME d >= q + 1
               PROVE  FALSE
    OBVIOUS
  <2>1. H * d >= H * (q + 1)
    BY <1>2
  <2> QED
    BY <1>2, <2>1 DEF a
<1>4. ~(q >= d + 1)
  <2> SUFFICES ASSUME q >= d + 1
               PROVE  FALSE
    OBVIOUS
  <2>1. q * H >= (d + 1) * H
    BY <1>2
  <2> QED
    BY <1>2, <2>1 DEF a
<1>5. d = q
  BY <1>2, <1>3, <1>4
<1> QED
  BY <1>5 DEF d, a

\* Reduction modulo the round, within it and once past its end.
LEMMA WithinRound ==
    ASSUME NEW n \in Nat, NEW k \in 0..(n - 1)
    PROVE  k % n = k
OBVIOUS

LEMMA PastRound ==
    ASSUME NEW n \in Nat, NEW k \in 0..(n - 1)
    PROVE  (k + n) % n = k
<1>1. k + n = k + n * 1
  OBVIOUS
<1> QED
  BY <1>1, Z3

\* The clock of the refinement, written as halves and a remainder, and what
\* it shows.
half(b, p) == 2 * b + (IF p = "on" THEN 0 ELSE 1)
ms(b, p, s) == half(b, p) * BlinkHalfMs + s
glyph(p, g) == IF p = "off" THEN "dark"
               ELSE IF g = "canonical" THEN "whole" ELSE "broken"

\* The clock stays within the round, and its half is the one the cursor is
\* in.
LEMMA ClockFacts ==
    ASSUME NEW b \in 0..(GlitchEveryN - 1), NEW p \in {"on", "off"},
           NEW s \in 0..(BlinkHalfMs - 1)
    PROVE  /\ half(b, p) \in 0..(2 * GlitchEveryN - 1)
           /\ half(b, p) * BlinkHalfMs \in Nat
           /\ half(b, p) * BlinkHalfMs
                = 2 * BlinkHalfMs * b + (IF p = "on" THEN 0 ELSE BlinkHalfMs)
           /\ ms(b, p, s) \in 0..(2 * BlinkHalfMs * GlitchEveryN - 1)
           /\ ms(b, p, s) \div BlinkHalfMs = half(b, p)
<1> USE CursorAssumption
<1> DEFINE h == half(b, p)
<1>1. h \in 0..(2 * GlitchEveryN - 1)
  BY DEF half
<1>2. h * BlinkHalfMs = 2 * BlinkHalfMs * b
                          + (IF p = "on" THEN 0 ELSE BlinkHalfMs)
  BY DEF half
<1> HIDE DEF h
<1>3. h * BlinkHalfMs <= (2 * GlitchEveryN - 1) * BlinkHalfMs
  BY <1>1
<1>4. (2 * GlitchEveryN - 1) * BlinkHalfMs
        = 2 * BlinkHalfMs * GlitchEveryN - BlinkHalfMs
  OBVIOUS
<1>5. h * BlinkHalfMs \in Nat
  BY <1>1
<1>6. h * BlinkHalfMs + s \in 0..(2 * BlinkHalfMs * GlitchEveryN - 1)
  BY <1>3, <1>4, <1>5
<1>7. (h * BlinkHalfMs + s) \div BlinkHalfMs = h
  BY <1>1, DivUnique
<1> QED
  BY <1>1, <1>2, <1>5, <1>6, <1>7 DEF ms, h

\* One tick moves the clock by one poll around the round, and the glyph
\* changes exactly where the clock enters another half.
LEMMA TickClock ==
    ASSUME TypeOK, TypeOK', Tick
    PROVE  LET h == half(blinks_since_glitch, phase)
               t == ms(blinks_since_glitch, phase, since_switch_ms)
               g == glyph(phase, current_glyph)
           IN  /\ t' = (t + PollMs) % Blink!Round
               /\ g' = IF h' = h THEN g ELSE Blink!Face(h')
<1> DEFINE H == BlinkHalfMs
           N == GlitchEveryN
           round == 2 * H * N
           b == blinks_since_glitch
           h == half(b, phase)
           t == ms(b, phase, since_switch_ms)
           g == glyph(phase, current_glyph)
<1> USE CursorAssumption DEF TypeOK
<1>1. H \in Nat \ {0} /\ PollMs \in 1..H /\ N \in Nat \ {0}
  OBVIOUS
<1>2. /\ h \in Nat /\ h * H \in Nat
      /\ t \in 0..(round - 1) /\ t = h * H + since_switch_ms
  BY ClockFacts DEF ms
<1>3. /\ h' \in Nat /\ h' * H \in Nat
      /\ t' \in 0..(round - 1) /\ t' = h' * H + since_switch_ms'
  BY ClockFacts DEF ms
<1>4. round \in Nat
  BY <1>1
<1> HIDE DEF h, t, round
<1>5. ASSUME t' = t + PollMs
      PROVE  t' = (t + PollMs) % round
  <2>1. t + PollMs \in 0..(round - 1)
    BY <1>3, <1>5
  <2> QED
    BY <1>4, <1>5, <2>1, WithinRound
<1>6. CASE /\ UNCHANGED <<phase, blinks_since_glitch, lfsr, current_glyph>>
           /\ since_switch_ms' = since_switch_ms + PollMs
  <2>1. h' = h /\ g' = g
    BY <1>6 DEF h
  <2>2. t' = t + PollMs
    BY <1>1, <1>2, <1>3, <1>6, <2>1
  <2> QED
    BY <1>5, <2>1, <2>2 DEF round, Blink!Round, h, t
<1> DEFINE Switch == since_switch_ms' = since_switch_ms + PollMs - H
<1>7. ASSUME h' = h + 1, Switch
      PROVE  t' = t + PollMs
  <2>1. h' * H = h * H + H
    BY <1>1, <1>2, <1>7
  <2> QED
    BY <1>1, <1>2, <1>3, <1>7, <2>1
<1>8. CASE phase = "on" /\ Darken /\ Switch
  <2>1. h' = h + 1 /\ h' = 2 * b + 1
    BY <1>8 DEF h, half, Darken
  <2>2. h' % 2 = 1 /\ h' # h
    BY <2>1
  <2>3. g' = "dark"
    BY <1>8 DEF glyph, Darken
  <2> QED
    BY <1>5, <1>7, <1>8, <2>1, <2>2, <2>3 DEF Blink!Face, Blink!Round, round, h, t
<1>9. CASE phase = "off" /\ Light /\ Switch /\ ~glitch_due
  <2>0. phase' = "on" /\ blinks_since_glitch' = blinks_since_glitch + 1
    BY <1>9 DEF Light
  <2>1. h' = h + 1 /\ h' = 2 * (b + 1)
    BY <1>9, <2>0 DEF h, half
  <2>2. h' % 2 = 0 /\ h' # h /\ h' # 0
    BY <2>1
  <2>3. g' = "whole"
    BY <1>9 DEF glyph, Light
  <2> QED
    BY <1>5, <1>7, <1>9, <2>1, <2>2, <2>3 DEF Blink!Face, Blink!Round, round, h, t
<1>10. CASE phase = "off" /\ Light /\ Switch /\ glitch_due
  <2>1. b = N - 1
    BY <1>10 DEF glitch_due
  <2>2. h = 2 * N - 1 /\ h' = 0
    BY <1>1, <1>10, <2>1 DEF h, half, Light
  <2>3. g' = "broken"
    <3>1. current_glyph' \in Broken
      <4>1. Variant(lfsr') \in 0..3
        BY DEF Variant, Register, Bit
      <4> QED
        BY <1>10, <4>1 DEF Light, Broken
    <3>2. "canonical" \notin Broken
      <4>1. BROKEN_GLYPHS[1] = "missing pixel"
        BY DEF BROKEN_GLYPHS
      <4>2. BROKEN_GLYPHS[2] = "smeared edge"
        BY DEF BROKEN_GLYPHS
      <4>3. BROKEN_GLYPHS[3] = "shifted column"
        BY DEF BROKEN_GLYPHS
      <4>4. BROKEN_GLYPHS[4] = "phosphor trail"
        BY DEF BROKEN_GLYPHS
      <4>5. ASSUME NEW i \in 1..4
            PROVE  BROKEN_GLYPHS[i] # "canonical"
        <5>1. i = 1 \/ i = 2 \/ i = 3 \/ i = 4
          OBVIOUS
        <5> QED
          BY <4>1, <4>2, <4>3, <4>4, <5>1
      <4> QED
        BY <4>5 DEF Broken
    <3>3. phase' = "on"
      BY <1>10 DEF Light
    <3> QED
      BY <3>1, <3>2, <3>3 DEF glyph
  <2>4. t' = since_switch_ms + PollMs - H
    BY <1>1, <1>3, <1>10, <2>2
  <2>5. h * H = round - H
    BY <1>1, <2>2 DEF round
  <2>6. t + PollMs = t' + round
    BY <1>1, <1>2, <1>4, <2>4, <2>5
  <2>7. t' = (t + PollMs) % round
    BY <1>3, <1>4, <2>6, PastRound
  <2>8. h' # h
    BY <1>1, <2>2
  <2> QED
    BY <2>2, <2>3, <2>7, <2>8 DEF Blink!Face, Blink!Round, round, h, t
<1> QED
  BY <1>6, <1>8, <1>9, <1>10 DEF Tick, Carried, h, t

\* The cursor implements the blinker: whatever the poll interval and the
\* length of a blink, the glyph on screen follows from the time passed.
THEOREM CursorRefinesBlinker == Spec => ImplementsBlinker
<1>1. Init => Blink!Init
  BY CursorAssumption DEF Init, Blink!Init
<1>2. TypeOK /\ TypeOK' /\ [Tick]_vars => [Blink!Poll]_(Blink!vars)
  <2> SUFFICES ASSUME TypeOK, TypeOK', [Tick]_vars
               PROVE  [Blink!Poll]_(Blink!vars)
    OBVIOUS
  <2>1. CASE UNCHANGED vars
    BY <2>1 DEF vars, Blink!vars
  <2>2. CASE Tick
    <3> DEFINE h == half(blinks_since_glitch, phase)
               t == ms(blinks_since_glitch, phase, since_switch_ms)
               g == glyph(phase, current_glyph)
    <3>1. t' = (t + PollMs) % Blink!Round
          /\ g' = IF h' = h THEN g ELSE Blink!Face(h')
      BY <2>2, TickClock
    <3>2. Blink!Half(t) = h /\ Blink!Half(t') = h'
      BY ClockFacts DEF Blink!Half, TypeOK
    <3>3. /\ t = 2 * BlinkHalfMs * blinks_since_glitch
                   + (IF phase = "on" THEN 0 ELSE BlinkHalfMs) + since_switch_ms
          /\ t' = 2 * BlinkHalfMs * blinks_since_glitch'
                   + (IF phase' = "on" THEN 0 ELSE BlinkHalfMs) + since_switch_ms'
      BY ClockFacts DEF TypeOK, ms
    <3> HIDE DEF t, h
    <3> QED
      BY <3>1, <3>2, <3>3 DEF Blink!Poll, glyph
  <2> QED
    BY <2>1, <2>2
<1> QED
  BY <1>1, <1>2, TypeCorrect, PTL DEF Spec, ImplementsBlinker, Blink!Spec
=============================================================================
