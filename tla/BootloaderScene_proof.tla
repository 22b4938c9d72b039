------------------------ MODULE BootloaderScene_proof ------------------------
(***************************************************************************)
(* Theorems about the bootloader scene on its own.                         *)
(***************************************************************************)
EXTENDS BootloaderScene, Bootloader_proof, FiniteSetTheorems

Inv == TypeOK /\ IInv

LEMMA InitIInv == Init => Inv
<1> SUFFICES ASSUME Init PROVE Inv
  OBVIOUS
<1>1. EnterBootloader(Transcript) /\ keys = 0
  BY DEF Init
<1>2. /\ pc = "b64_pause" /\ highest_row = start_row /\ prompt_attempt = 0
      /\ wrong_paste_count = 0 /\ buf = <<>>
      /\ idle = 0 /\ dots = 0 /\ secs = 0
  BY <1>1 DEF EnterBootloader
<1>3. nudge_rendered \in BOOLEAN
  <2>1. nudge_rendered = FALSE
    BY <1>1, Zenon DEF EnterBootloader
  <2> QED
    BY <2>1, Zenon
<1>4. buf \in Seq(Printable) /\ Len(buf) < PasteBufferLen
  <2>1. buf \in Seq(Printable) /\ Len(buf) = 0
    BY <1>2, EmptyBuffer, Zenon
  <2> QED
    BY <2>1, Params
<1>5. highest_row \in start_row..wrong_indicator_row
  BY <1>2, SceneRows
<1>6. keys = 0
  BY <1>1
<1> QED
  <2>1. TypeOK
    BY <1>2, <1>3, <1>4, <1>5, <1>6, Params DEF TypeOK, BootTypeOK
  <2>2. EntryInv
    BY <1>2, Params DEF EntryInv
  <2>3. AttemptInv
    BY <1>2, <1>6 DEF AttemptInv
  <2> QED
    BY <2>1, <2>2, <2>3 DEF Inv, IInv, TypeOK

\* No step of the scene leaves the invariant.
LEMMA StepIInv == Inv /\ [Next]_vars => Inv'
<1> SUFFICES ASSUME Inv, [Next]_vars
             PROVE  Inv'
  OBVIOUS
<1> USE DEF Inv
<1>1. CASE UNCHANGED vars
  BY <1>1
     DEF vars, counters, loops, IInv, TypeOK, BootTypeOK, EntryInv, AttemptInv
<1>2. CASE Quiet
  <2>1. IInv' /\ pc' \in Pauses \cup {"off"}
    BY <1>2, QuietIInv, PauseSteps
  <2> QED
    BY <2>1 DEF TypeOK, IInv, Pauses
<1>3. CASE Keystroke
  <2>1. IInv' /\ pc' \in Pauses \cup {"reset"}
    BY <1>3, KeystrokeIInv, PauseSteps
  <2> QED
    BY <2>1 DEF TypeOK, IInv, Pauses
<1> QED
  BY <1>1, <1>2, <1>3 DEF Next, BootloaderStep, PromptIdlePoll, Stopped

\* The row every line of the scene is drawn on, the buffer capture_paste
\* fills, the counters and the delays of bootloader.rs stay within their
\* limits, for every limit: the clearing of start_row..=highest_row never
\* leaves the scene's rows and buf[len] is never written out of bounds.
THEOREM TypeCorrect == Spec => []TypeOK
<1>1. Inv => TypeOK
  BY DEF Inv
<1> QED
  BY <1>1, InitIInv, StepIInv, PTL DEF Spec

-----------------------------------------------------------------------------
(* Refinement *)

LEMMA GateInit == Init => Gate!Init
<1> SUFFICES ASSUME Init
             PROVE  Gate!Init
  OBVIOUS
<1>1. pc = "b64_pause" /\ buf = <<>> /\ wrong_paste_count = 0
  BY DEF Init, EnterBootloader
<1> QED
  BY <1>1 DEF Gate!Init

\* A verdict opens the gate or is a strike, and the strike that reaches the
\* limit is the one that shuts it.
LEMMA VerdictGate ==
    ASSUME IInv, pc = "paste", NEW o, NEW length,
           \/ Accept(o, length) /\ buf = PasteTarget
           \/ /\ Reject(o, length)
              /\ buf # PasteTarget \/ Len(buf) + 1 = PasteBufferLen
    PROVE  Gate!Open \/ Gate!Strike
<1> USE Params
<1>1. buf' = <<>>
  BY DEF Accept, Reject, StartTimeout, FreshBuffer
<1>2. CASE Accept(o, length) /\ buf = PasteTarget
  <2>1. pc' = "booting" /\ UNCHANGED wrong_paste_count
    BY <1>2 DEF Accept, counters
  <2> QED
    BY <1>1, <1>2, <2>1 DEF Gate!Open
<1>3. CASE /\ Reject(o, length)
           /\ buf # PasteTarget \/ Len(buf) + 1 = PasteBufferLen
  <2>1. wrong_paste_count' = wrong_paste_count + 1
    BY <1>3 DEF Reject
  <2>2. wrong_paste_count \in Nat /\ wrong_paste_count < WrongPasteLimit
    BY DEF Inv, IInv, BootTypeOK, EntryInv
  <2>3. CASE struck_out(wrong_paste_count')
    <3>1. pc' = "countdown"
      BY <1>3, <2>3 DEF Reject, StartTimeout
    <3>2. wrong_paste_count' = WrongPasteLimit
      BY <2>1, <2>2, <2>3 DEF struck_out
    <3> QED
      BY <1>1, <1>3, <2>1, <3>1, <3>2 DEF Gate!Strike
  <2>4. CASE ~struck_out(wrong_paste_count')
    <3>1. pc' = "paste"
      BY <1>3, <2>4 DEF Reject
    <3>2. wrong_paste_count' # WrongPasteLimit
      BY <2>1, <2>2, <2>4 DEF struck_out
    <3> QED
      BY <1>1, <1>3, <2>1, <3>1, <3>2 DEF Gate!Strike
  <2> QED
    BY <2>3, <2>4
<1> QED
  BY <1>2, <1>3

LEMMA GateStep == Inv /\ [Next]_vars => [Gate!Next]_Gate!vars
<1> SUFFICES ASSUME Inv, [Next]_vars
             PROVE  Gate!Next \/ UNCHANGED Gate!vars
  OBVIOUS
<1> USE Params
    DEF Gate!Next, Gate!vars, counters, loops
<1>0. /\ pc # "paste" => buf = <<>>
      /\ Len(buf) < PasteBufferLen /\ Len(buf) \in Nat
  BY DEF Inv, IInv, BootTypeOK, EntryInv
<1>1. CASE UNCHANGED vars
  BY <1>1 DEF vars
<1>2. CASE SecondTelemetryLine
  BY <1>2 DEF SecondTelemetryLine
<1>3. CASE FirstPrompt
  BY <1>3 DEF FirstPrompt
<1>4. CASE RetryDot
  BY <1>4 DEF RetryDot
<1>5. CASE LastRetryDot
  BY <1>5 DEF LastRetryDot
<1>6. CASE PasteIdlePoll
  BY <1>6 DEF PasteIdlePoll
<1>7. CASE PasteSilence
  <2>1. /\ pc = "paste" /\ pc' = "countdown" /\ buf' = <<>>
        /\ UNCHANGED wrong_paste_count
    BY <1>7 DEF PasteSilence, StartTimeout, FreshBuffer
  <2>2. Gate!GiveUp
    BY <2>1 DEF Gate!GiveUp
  <2> QED
    BY <2>2
<1>8. CASE CountdownTick
  BY <1>8 DEF CountdownTick
<1>9. CASE CountdownEnd
  BY <1>9 DEF CountdownEnd
<1>10. CASE Halt
  <2>1. Gate!PowerOff
    BY <1>10 DEF Halt, Gate!PowerOff
  <2> QED
    BY <2>1
<1>11. CASE Continue
  BY <1>11 DEF Continue
<1>12. CASE ChooseRetry
  BY <1>12 DEF ChooseRetry
<1>13. CASE ChooseIgnore
  <2>1. /\ pc = "prompt" /\ pc' = "paste" /\ buf' = <<>>
        /\ UNCHANGED wrong_paste_count
    BY <1>13 DEF ChooseIgnore, FreshBuffer
  <2>2. Gate!Enter
    BY <1>0, <2>1 DEF Gate!Enter
  <2> QED
    BY <2>2
<1>14. CASE ChooseAbort
  <2>1. Gate!Reset
    BY <1>14 DEF ChooseAbort, Gate!Reset
  <2> QED
    BY <2>1
<1>15. CASE PasteEnter
  <2>1. /\ pc = "paste"
        /\ \/ Accept(Pressed("enter"), Len(buf)) /\ buf = PasteTarget
           \/ Reject(Pressed("enter"), Len(buf)) /\ buf # PasteTarget
    BY <1>15 DEF PasteEnter
  <2>2. Gate!Open \/ Gate!Strike
    BY <2>1, VerdictGate DEF Inv
  <2> QED
    BY <2>2
<1>16. ASSUME NEW k \in Key, PromptOtherKey(k)
       PROVE  UNCHANGED Gate!vars
  BY <1>16 DEF PromptOtherKey
<1>17. ASSUME NEW k \in Key, PasteEcho(k)
       PROVE  Gate!Next
  <2>1. pc = "paste" /\ k \in Printable
    BY <1>17 DEF PasteEcho
  <2>2. CASE Len(buf) + 1 < PasteBufferLen
    <3>1. buf' = Append(buf, k) /\ UNCHANGED <<pc, wrong_paste_count>>
      BY <1>17, <2>2 DEF PasteEcho
    <3>2. Gate!Type(k)
      BY <2>1, <2>2, <3>1 DEF Gate!Type
    <3> QED
      BY <2>1, <3>2
  <2>3. CASE ~(Len(buf) + 1 < PasteBufferLen)
    <3>1. Reject(Echoed(k), Len(buf) + 1) /\ Len(buf) + 1 = PasteBufferLen
      BY <1>0, <1>17, <2>3 DEF PasteEcho
    <3>2. Gate!Open \/ Gate!Strike
      BY <2>1, <3>1, VerdictGate DEF Inv
    <3> QED
      BY <3>2
  <2> QED
    BY <2>2, <2>3
<1>18. ASSUME NEW k \in Key, PasteOtherKey(k)
       PROVE  UNCHANGED Gate!vars
  BY <1>18 DEF PasteOtherKey
<1>19. CASE Quiet
  BY <1>2, <1>3, <1>4, <1>5, <1>6, <1>7, <1>8, <1>9, <1>10, <1>11, <1>19
     DEF Quiet
<1>20. CASE Keystroke
  BY <1>12, <1>13, <1>14, <1>15, <1>16, <1>17, <1>18, <1>20 DEF Keystroke
<1> QED
  BY <1>1, <1>19, <1>20 DEF Next, BootloaderStep, PromptIdlePoll, Stopped

\* The bootloader is the gate: whatever keys are pressed in whatever order,
\* for every target, buffer length and limit, only the exact target boots,
\* exactly WRONG_PASTE_LIMIT wrong pastes shut the gate, a paste that fills
\* the buffer is wrong unread, and nothing typed before a verdict, a retry
\* or a silence counts in a later one.
THEOREM BootloaderIsAGate == Spec => ImplementsGate
<1>1. Init /\ [][Next]_vars => Gate!Init /\ [][Gate!Next]_Gate!vars
  BY InitIInv, StepIInv, GateInit, GateStep, PTL
<1> QED
  BY <1>1, PTL DEF Spec, ImplementsGate, Gate!Spec

-----------------------------------------------------------------------------
LEMMA InitScreen == Init => ScreenInv
<1> SUFFICES ASSUME Init
             PROVE  ScreenInv
  OBVIOUS
<1> DEFINE T == Transcript
           line == Line("b64_offline")
<1>1. /\ pc = "b64_pause" /\ highest_row = start_row
      /\ out = RenderLine(T, start_row, line)
  BY DEF Init, EnterBootloader, Entered
<1>2. ~nudge_rendered
  BY DEF Init, EnterBootloader
<1>3. HasScreen(T) /\ \A r \in Row : Rows(T)[r] =
                        IF r < start_row THEN Line("script") ELSE Blank
  BY DEF Transcript, HasScreen, Rows, Refresh, Shot
<1>4. CleanRows(T)
  BY <1>3, CleanLines DEF CleanRows, Blank
<1>5. start_row \in Row => Rows(T)[start_row] = Blank
  BY <1>3, Apart
<1>6. "text" \in DOMAIN line /\ line.text # "garbled"
  BY CleanLines
<1> HIDE DEF T, line
<1>7. /\ CleanRows(out)
      /\ \A r \in Row : r # start_row => Rows(out)[r] = Rows(T)[r]
  BY <1>1, <1>4, <1>5, <1>6, DrawClean
<1>8. BelowInv
  BY <1>1, <1>3, <1>7, Apart, RowIsInt DEF BelowInv
<1>9. HighestInv
  BY <1>1, <1>2, Apart DEF HighestInv
<1>10. NudgeInv
  BY <1>1, <1>2, <1>8, Apart DEF NudgeInv, BelowInv
<1> QED
  BY <1>1, <1>7, <1>8, <1>9, <1>10 DEF ScreenInv, BareInv

LEMMA StepScreen == Inv /\ ScreenInv /\ [Next]_vars => ScreenInv'
<1>1. ASSUME Inv, ScreenInv, UNCHANGED vars
      PROVE  ScreenInv'
  <2>1. UNCHANGED <<pc, out, highest_row, nudge_rendered>>
    BY <1>1 DEF vars, counters
  <2> QED
    BY <1>1, <2>1, Now, SameRows DEF Inv
<1> QED
  BY <1>1, BootScreen DEF Inv, Next, Stopped

-----------------------------------------------------------------------------
(* The digest *)

\* The keys that change nothing on screen, where the scene is.
SilentKeys(p) ==
    {Keypress(k) : k \in IF p = "prompt" THEN Key \ {"r", "i", "a"}
                         ELSE Key \ (Printable \cup {"enter"})}

\* The screen has its fields, and nothing is drawn below the scene's rows.
FrameInv ==
    /\ IsOutput(out)
    /\ \A r \in Row : r > wrong_indicator_row => Rows(out)[r] = Blank

\* The QR sees the screen, and what it does not attest are silent keys,
\* however many of them have fallen out of the ring.
QrInv ==
    ~(pc = "retrying" /\ dots = 0) =>
      /\ QrSeesScreen(out)
      /\ IsSeq(out.qr[1].ring)
      /\ pc # "reset" =>
           \A i \in 1..Len(out.ring) :
              i > Len(out.qr[1].ring) => out.ring[i] \in SilentKeys(pc)

SceneInv == Inv /\ ScreenInv /\ FrameInv /\ QrInv

LEMMA TranscriptOutput ==
    /\ IsOutput(Transcript)
    /\ \A r \in Row : r >= start_row => Rows(Transcript)[r] = Blank
<1> DEFINE shown == [mode |-> "boot", chrome |-> TRUE, cursor |-> "none",
                     rows |-> [r \in Row |-> IF r < start_row
                                             THEN Line("script") ELSE Blank]]
           o == [fb |-> shown, ring |-> <<>>, toast |-> 0, qr |-> <<>>]
<1>1. HasScreen(o) /\ Rows(o) = shown.rows /\ o.ring = <<>>
  BY DEF HasScreen, Rows
<1>2. Transcript = Refresh(o)
  BY DEF Transcript
<1>3. \A r \in Row : r >= start_row => shown.rows[r] = Blank
  BY Apart, RowIsInt
<1> HIDE DEF o, shown
<1>4. IsSeq(o.ring)
  <2>1. <<>> \in Seq({})
    BY EmptySeq
  <2> QED
    BY <1>1, <2>1, Zenon DEF IsSeq
<1> QED
  BY <1>1, <1>2, <1>3, <1>4, RefreshRows DEF IsOutput

\* Right after a refresh there is nothing the QR does not attest.
LEMMA RefreshedQr ==
    ASSUME NEW o, IsOutput(o), Refreshed(o)
    PROVE  /\ QrSeesScreen(o)
           /\ o.qr[1].ring = o.ring /\ IsSeq(o.ring) /\ Len(o.ring) \in Nat
<1>1. o.qr[1].ring = o.ring
  BY DEF Refreshed, QrCurrent, Shot
<1>2. Len(o.ring) \in Nat
  BY SameRing DEF IsOutput, Later
<1> QED
  BY <1>1, <1>2 DEF IsOutput, Refreshed

LEMMA InitFrame == Init => FrameInv /\ QrInv
<1> SUFFICES ASSUME Init
             PROVE  FrameInv /\ QrInv
  OBVIOUS
<1>1. out = RenderLine(Transcript, start_row, Line("b64_offline"))
  BY DEF Init, EnterBootloader, Entered
<1>2. Handled(Transcript, out, SceneKinds)
  BY <1>1, TranscriptOutput, FrameRender, MarkKinds, SceneRows
<1>3. FrameInv
  <2>1. \A r \in Row : r > wrong_indicator_row =>
          r \in Row \ SceneRow /\ r >= start_row
    BY Apart, RowIsInt
  <2> QED
    BY <1>2, <2>1, TranscriptOutput DEF Handled, Framed, FrameInv
<1>4. QrInv
  <2>1. IsOutput(out) /\ Refreshed(out)
    BY <1>2 DEF Handled, Framed
  <2>2. /\ QrSeesScreen(out) /\ out.qr[1].ring = out.ring
        /\ IsSeq(out.ring) /\ Len(out.ring) \in Nat
    BY <2>1, RefreshedQr
  <2> QED
    BY <2>2 DEF QrInv
<1> QED
  BY <1>3, <1>4

LEMMA BootQr ==
    ASSUME SceneInv, BootloaderStep
    PROVE  FrameInv' /\ QrInv'
<1>1. /\ Framed(out, out', SceneKinds)
      /\ \/ Refreshed(out') /\ ~(pc' = "retrying" /\ dots' = 0)
         \/ Unnoticed
         \/ pc' = "retrying" /\ dots' = 0
  BY BootFrame DEF SceneInv, Inv, FrameInv
<1>2. FrameInv'
  <2>1. \A r \in Row : r > wrong_indicator_row => r \in Row \ SceneRow
    BY Apart, RowIsInt
  <2> QED
    BY <1>1, <2>1 DEF SceneInv, FrameInv, Framed
<1>3. CASE Refreshed(out')
  <2>1. IsOutput(out')
    BY <1>1 DEF Framed
  <2>2. /\ QrSeesScreen(out') /\ out'.qr[1].ring = out'.ring
        /\ IsSeq(out'.ring) /\ Len(out'.ring) \in Nat
    BY <1>3, <2>1, RefreshedQr
  <2> QED
    BY <1>2, <2>2 DEF QrInv
<1>4. CASE Unnoticed
  <2> DEFINE s == out.ring
             t == out'.ring
             L == Len(out.qr[1].ring)
  <2>1. /\ QrSeesScreen(out) /\ IsSeq(out.qr[1].ring)
        /\ out'.fb = out.fb /\ out'.qr = out.qr
    BY <1>4 DEF SceneInv, QrInv, Unnoticed
  <2>2. QrSeesScreen(out')
    BY <2>1 DEF QrSeesScreen, QrShown
  <2>3. IsSeq(s) /\ L \in Nat
    BY <2>1, SameRing DEF SceneInv, FrameInv, IsOutput, Later
  <2>4. ASSUME pc' # "reset", NEW i \in 1..Len(t), i > L
        PROVE  t[i] \in SilentKeys(pc')
    <3>1. /\ \/ t = s /\ (pc = "prompt" <=> pc' = "prompt")
             \/ \E k \in Key :
                   /\ t = Recent(Append(s, Keypress(k)), RingCap)
                   /\ \/ pc = "prompt" /\ k \notin {"r", "i", "a"}
                      \/ pc = "paste" /\ k \notin Printable \cup {"enter"}
                   /\ pc' = pc
          /\ pc # "retrying"
      BY <1>4, <2>4 DEF Unnoticed
    <3>2. pc # "reset"
      BY PauseSteps DEF BootloaderStep, PromptIdlePoll, Pauses
    <3>3. \A j \in 1..Len(s) : j > L => s[j] \in SilentKeys(pc)
      BY <3>1, <3>2 DEF SceneInv, QrInv
    <3>4. CASE t = s /\ (pc = "prompt" <=> pc' = "prompt")
      BY <2>4, <3>3, <3>4 DEF SilentKeys
    <3>5. ASSUME NEW k \in Key,
                 t = Recent(Append(s, Keypress(k)), RingCap),
                 \/ pc = "prompt" /\ k \notin {"r", "i", "a"}
                 \/ pc = "paste" /\ k \notin Printable \cup {"enter"},
                 pc' = pc
          PROVE  t[i] \in SilentKeys(pc')
      <4>1. Keypress(k) \in SilentKeys(pc)
        BY <3>5 DEF SilentKeys
      <4>2. PushedOnto(s, t, Keypress(k))
        BY <2>3, <3>5, PushRing
      <4> HIDE DEF s, t
      <4>3. /\ Len(s) \in Nat /\ Len(t) \in Nat /\ Len(t) <= Len(s) + 1
            /\ t[i] = IF i = Len(t) THEN Keypress(k)
                      ELSE s[i + (Len(s) + 1 - Len(t))]
        BY <2>4, <4>2 DEF PushedOnto
      <4>4. i # Len(t) =>
              /\ i + (Len(s) + 1 - Len(t)) \in 1..Len(s)
              /\ i + (Len(s) + 1 - Len(t)) > L
        BY <2>3, <2>4, <4>3
      <4> QED
        BY <3>3, <3>5, <4>1, <4>3, <4>4
    <3> QED
      BY <3>1, <3>4, <3>5
  <2>5. IsSeq(out'.qr[1].ring) /\ Len(out'.qr[1].ring) = L
    BY <2>1
  <2> QED
    BY <1>2, <2>2, <2>4, <2>5 DEF QrInv
<1>5. CASE pc' = "retrying" /\ dots' = 0
  BY <1>2, <1>5 DEF QrInv
<1> QED
  BY <1>1, <1>3, <1>4, <1>5

LEMMA InitScene == Init => SceneInv
BY InitIInv, InitScreen, InitFrame DEF SceneInv

LEMMA StepScene == SceneInv /\ [Next]_vars => SceneInv'
<1> SUFFICES ASSUME SceneInv, [Next]_vars
             PROVE  SceneInv'
  OBVIOUS
<1>1. Inv' /\ ScreenInv'
  BY StepIInv, StepScreen DEF SceneInv
<1>2. CASE UNCHANGED vars
  BY <1>1, <1>2 DEF SceneInv, FrameInv, QrInv, vars, loops
<1>3. CASE BootloaderStep
  BY <1>1, <1>3, BootQr DEF SceneInv
<1> QED
  BY <1>2, <1>3 DEF Next, Stopped

-----------------------------------------------------------------------------
(* The theorems *)

\* The strengthened invariant: rows, highest_row, nudge_rendered and the
\* digest agree.
THEOREM SceneInvariant == Spec => []SceneInv
BY InitScene, StepScene, PTL DEF Spec

\* Wherever the boot transcript left off and however small the screen, and
\* in whatever order retries, wrong pastes, timeouts come: every row that is
\* drawn on was blank or showed that very line.
THEOREM NeverGhostText == Spec => []NoGhostText
<1>1. SceneInv => NoGhostText
  BY DEF SceneInv, ScreenInv, CleanRows, Rows, NoGhostText, NoGhost
<1> QED
  BY <1>1, SceneInvariant, PTL

\* Clearing start_row..=highest_row is always enough: the countdown, the halt
\* line and Booting... are never shown beside a leftover of the scene.
THEOREM LastScreensAlwaysBare == Spec => []LastScreensBare
<1>1. ASSUME SceneInv
      PROVE  LastScreensBare
  <2> USE DEF Rows
  <2>1. BareInv /\ FrameInv
    BY <1>1 DEF SceneInv, ScreenInv
  <2>2. countdown_row # halt_row
    BY Apart
  <2>3. \A r \in Row : r >= start_row =>
          r \in SceneRow \/ out.fb.rows[r] = Blank
    BY <2>1, Apart, RowIsInt DEF FrameInv
  <2> QED
    BY <2>1, <2>2, <2>3 DEF BareInv, LastScreensBare
<1> QED
  BY <1>1, SceneInvariant, PTL

\* At every pause but the first of the animation the QR attests the screen,
\* whatever the capacity of the ring: also when the operator leans on a key
\* until the events of the last refresh are gone, what is left beyond it are
\* keys that changed nothing.
THEOREM QrAlwaysTells == Spec => []QrTellsTheScreen
<1>1. ASSUME SceneInv, ~(pc = "retrying" /\ dots = 0), pc # "reset",
             NEW i \in DOMAIN Unattested(out)
      PROVE  Unattested(out)[i] \in SilentKeys(pc)
  <2> DEFINE s == out.ring
             L == Len(out.qr[1].ring)
             u == SubSeq(s, L + 1, Len(s))
  <2>1. /\ \A j \in 1..Len(s) : j > L => s[j] \in SilentKeys(pc)
        /\ L \in Nat /\ Len(s) \in Nat
    BY <1>1, SameRing DEF SceneInv, QrInv, FrameInv, IsOutput, Later
  <2>2. Unattested(out) = u
    BY DEF Unattested
  <2> HIDE DEF s, L
  <2>3. /\ L + 1 \in Int /\ Len(s) \in Int
        /\ \A j \in (L + 1)..Len(s) : s[j] \in SilentKeys(pc)
    BY <2>1
  <2>4. /\ u \in Seq(SilentKeys(pc))
    BY <2>3, SubSeqProperties
  <2> HIDE DEF u
  <2>5. i \in 1..Len(u)
    BY <1>1, <2>2, <2>4, LenProperties
  <2> QED
    BY <2>2, <2>4, <2>5, ElementOfSeq
<1>2. ASSUME SceneInv
      PROVE  QrTellsTheScreen
  <2>1. ASSUME ~(pc = "retrying" /\ dots = 0), pc # "reset",
               NEW i \in DOMAIN Unattested(out)
        PROVE  /\ Unattested(out)[i].kind = "Keypress"
               /\ IF pc = "prompt"
                  THEN Unattested(out)[i].key \notin {"r", "i", "a"}
                  ELSE Unattested(out)[i].key \notin Printable \cup {"enter"}
    <3>1. Unattested(out)[i] \in SilentKeys(pc)
      BY <1>1, <1>2, <2>1
    <3> QED
      BY <3>1 DEF SilentKeys, Keypress
  <2>2. ~(pc = "retrying" /\ dots = 0) => QrSeesScreen(out)
    BY <1>2 DEF SceneInv, QrInv
  <2> QED
    BY <2>1, <2>2 DEF QrTellsTheScreen
<1> QED
  BY <1>2, SceneInvariant, PTL

-----------------------------------------------------------------------------
(* What an entry owes to those before it, as the ring forgets *)

\* Before place k of t stand the entries before place j of s, without the
\* first d, and behind them some of the kinds K.
Window(s, j, t, k, d, K) ==
    /\ j \in Nat /\ k \in Nat /\ d \in Nat /\ j <= k + d
    /\ \A i \in 1..(k - 1) : IF i + d < j THEN t[i] = s[i + d]
                             ELSE t[i].kind \in K

\* Only a full ring has lost something.
Losing(s, t, d) == d > 0 \/ Full(s) => Full(t)

LEMMA LaterWindows ==
    ASSUME NEW s, NEW t, NEW K, Later(s, t, K)
    PROVE  \E d \in Nat :
             /\ Losing(s, t, d)
             /\ Window(s, Len(s) + 1, t, Len(t) + 1, d, K)
             /\ \A k \in 1..Len(t) : IF k + d <= Len(s)
                  THEN t[k] = s[k + d] /\ Window(s, k + d, t, k, d, {})
                  ELSE t[k].kind \in K
<1>1. PICK d \in Nat : Moved(s, t, d, K)
  BY DEF Later
<1>2. Len(s) \in Nat /\ Len(t) \in Nat
  BY DEF Later
<1>3. Losing(s, t, d)
  BY <1>1, <1>2, SurfaceAssumption DEF Losing, Full, Moved
<1>4. Window(s, Len(s) + 1, t, Len(t) + 1, d, K)
  <2>1. \A i \in 1..Len(t) : i + d < Len(s) + 1 <=> i + d <= Len(s)
    BY <1>2
  <2> QED
    BY <1>1, <1>2, <2>1 DEF Window, Moved
<1>5. ASSUME NEW k \in 1..Len(t), k + d <= Len(s)
      PROVE  t[k] = s[k + d] /\ Window(s, k + d, t, k, d, {})
  <2>1. \A i \in 1..(k - 1) :
          i \in 1..Len(t) /\ i + d <= Len(s) /\ i + d < k + d
    BY <1>2, <1>5
  <2>2. \A i \in 1..(k - 1) : t[i] = s[i + d]
    BY <1>1, <2>1 DEF Moved
  <2> QED
    BY <1>1, <1>2, <1>5, <2>1, <2>2 DEF Window, Moved
<1> QED
  BY <1>1, <1>3, <1>4, <1>5 DEF Moved

\* The entry pushed last has all that is left of s before it.
LEMMA PushedWindows ==
    ASSUME NEW s, NEW t, NEW e, PushedOnto(s, t, e)
    PROVE  \E d \in Nat :
             /\ Losing(s, t, d)
             /\ Len(t) > 0 => /\ t[Len(t)] = e
                              /\ Window(s, Len(s) + 1, t, Len(t), d, {})
             /\ Len(t) = 0 => Full(t)
             /\ \A k \in 1..Len(t) : k # Len(t) =>
                  /\ k + d \in 1..Len(s)
                  /\ t[k] = s[k + d] /\ Window(s, k + d, t, k, d, {})
<1> DEFINE d == Len(s) + 1 - Len(t)
<1>1. /\ Len(s) \in Nat /\ Len(t) \in Nat /\ d \in Nat
      /\ Len(t) + d = Len(s) + 1
      /\ Len(t) < RingCap => d = 0
  <2>1. /\ Len(s) \in Nat /\ Len(t) \in Nat /\ Len(t) <= Len(s) + 1
        /\ Len(t) < RingCap => Len(t) = Len(s) + 1
    BY DEF PushedOnto
  <2> QED
    BY <2>1
<1>2. \A i \in 1..Len(t) : t[i] = IF i = Len(t) THEN e ELSE s[i + d]
  BY DEF PushedOnto
<1>3. Len(t) = 0 => Full(t)
  BY SurfaceAssumption DEF Full, PushedOnto
<1> HIDE DEF d
<1>4. Losing(s, t, d)
  BY <1>1, SurfaceAssumption DEF Losing, Full
<1>5. ASSUME NEW k \in 1..Len(t)
      PROVE  Window(s, k + d, t, k, d, {})
  <2>1. \A i \in 1..(k - 1) :
          i \in 1..Len(t) /\ i # Len(t) /\ i + d < k + d
    BY <1>1
  <2> QED
    BY <1>1, <1>2, <2>1 DEF Window
<1>6. Len(t) > 0 => /\ t[Len(t)] = e
                    /\ Window(s, Len(s) + 1, t, Len(t), d, {})
  BY <1>1, <1>2, <1>5
<1>7. \A k \in 1..Len(t) : k # Len(t) =>
        k + d \in 1..Len(s) /\ t[k] = s[k + d]
  BY <1>1, <1>2
<1> QED
  BY <1>1, <1>3, <1>4, <1>5, <1>6, <1>7

-----------------------------------------------------------------------------
(* Attempts *)

LEMMA NamesMoves ==
    ASSUME NEW s, NEW j, NEW t, NEW k, NEW d, NEW K,
           Window(s, j, t, k, d, K), Losing(s, t, d),
           "BootloaderDecision" \notin K, NEW n, NamesNext(s, j, n)
    PROVE  NamesNext(t, k, n)
<1> DEFINE S == {i \in 1..(j - 1) : s[i].kind = "BootloaderDecision"}
           T == {i \in 1..(k - 1) : t[i].kind = "BootloaderDecision"}
<1>1. \A i \in T : i + d \in S /\ t[i] = s[i + d]
  BY DEF Window
<1>2. \A m \in S : m <= d \/ m - d \in T
  <2>1. ASSUME NEW m \in S, m > d
        PROVE  m - d \in T
    <3>1. m - d \in 1..(k - 1) /\ (m - d) + d = m /\ m < j
      BY <2>1 DEF Window
    <3>2. t[m - d] = s[m]
      BY <3>1 DEF Window
    <3> QED
      BY <3>1, <3>2
  <2> QED
    BY <2>1 DEF Window
<1>3. /\ S = {} => n = 1 \/ Full(s)
      /\ \A i \in S : (\A m \in S : m <= i) =>
            s[i].choice = "retry" /\ n = s[i].attempt + 1
  BY DEF NamesNext
<1>4. ASSUME T = {}
      PROVE  n = 1 \/ Full(t)
  <2>1. \A m \in S : d > 0
    BY <1>2, <1>4 DEF Window
  <2> QED
    BY <1>3, <2>1 DEF Losing
<1>5. ASSUME NEW i \in T, \A m \in T : m <= i
      PROVE  t[i].choice = "retry" /\ n = t[i].attempt + 1
  <2>1. \A m \in S : m <= i + d
    BY <1>2, <1>5 DEF Window
  <2> QED
    BY <1>1, <1>3, <2>1
<1> QED
  BY <1>4, <1>5 DEF NamesNext

\* The decisions on record are in order, and the next one may name any of
\* the numbers N.
Attempts(s, N) ==
    /\ \A j \in 1..Len(s) : s[j].kind = "BootloaderDecision" =>
          NamesNext(s, j, s[j].attempt)
    /\ \A n \in N : NamesNext(s, Len(s) + 1, n)

LEMMA AttemptsKept ==
    ASSUME NEW s, NEW t, NEW K, Later(s, t, K), "BootloaderDecision" \notin K,
           NEW N, Attempts(s, N)
    PROVE  Attempts(t, N)
<1>1. PICK d \in Nat :
        /\ Losing(s, t, d)
        /\ Window(s, Len(s) + 1, t, Len(t) + 1, d, K)
        /\ \A k \in 1..Len(t) : IF k + d <= Len(s)
             THEN t[k] = s[k + d] /\ Window(s, k + d, t, k, d, {})
             ELSE t[k].kind \in K
  BY LaterWindows
<1>2. Len(s) \in Nat /\ Len(t) \in Nat
  BY DEF Later
<1>3. ASSUME NEW k \in 1..Len(t), t[k].kind = "BootloaderDecision"
      PROVE  NamesNext(t, k, t[k].attempt)
  <2>1. k + d \in 1..Len(s) /\ t[k] = s[k + d] /\ Window(s, k + d, t, k, d, {})
    BY <1>1, <1>2, <1>3
  <2>2. NamesNext(s, k + d, t[k].attempt)
    BY <1>3, <2>1 DEF Attempts
  <2> QED
    BY <1>1, <2>1, <2>2, NamesMoves
<1>4. ASSUME NEW n \in N
      PROVE  NamesNext(t, Len(t) + 1, n)
  BY <1>1, NamesMoves DEF Attempts
<1> QED
  BY <1>3, <1>4 DEF Attempts

\* A decision that names the next number; after a retry comes another one.
LEMMA AttemptsDecided ==
    ASSUME NEW s, NEW t, NEW choice, NEW n \in Nat,
           PushedOnto(s, t, BootloaderDecision(choice, n)),
           Attempts(s, {n})
    PROVE  Attempts(t, IF choice = "retry" THEN {n + 1} ELSE {})
<1> DEFINE e == BootloaderDecision(choice, n)
<1>0. /\ e.kind = "BootloaderDecision" /\ e.attempt = n /\ e.choice = choice
      /\ PushedOnto(s, t, e)
  BY DEF BootloaderDecision
<1> HIDE DEF e
<1>1. PICK d \in Nat :
        /\ Losing(s, t, d)
        /\ Len(t) > 0 => /\ t[Len(t)] = e
                         /\ Window(s, Len(s) + 1, t, Len(t), d, {})
        /\ Len(t) = 0 => Full(t)
        /\ \A k \in 1..Len(t) : k # Len(t) =>
             /\ k + d \in 1..Len(s)
             /\ t[k] = s[k + d] /\ Window(s, k + d, t, k, d, {})
  BY <1>0, PushedWindows
<1>2. Len(t) \in Nat
  BY DEF PushedOnto
<1>3. Len(t) > 0 => NamesNext(t, Len(t), n)
  BY <1>1, NamesMoves DEF Attempts
<1>4. ASSUME NEW k \in 1..Len(t), t[k].kind = "BootloaderDecision"
      PROVE  NamesNext(t, k, t[k].attempt)
  <2>1. CASE k = Len(t)
    BY <1>0, <1>1, <1>2, <1>3, <2>1
  <2>2. CASE k # Len(t)
    <3>1. NamesNext(s, k + d, t[k].attempt)
      BY <1>1, <1>4, <2>2 DEF Attempts
    <3> QED
      BY <1>1, <2>2, <3>1, NamesMoves
  <2> QED
    BY <2>1, <2>2
<1>5. ASSUME choice = "retry"
      PROVE  NamesNext(t, Len(t) + 1, n + 1)
  <2>1. CASE Len(t) = 0
    BY <1>1, <2>1 DEF NamesNext
  <2>2. CASE Len(t) > 0
    <3> DEFINE T == {i \in 1..(Len(t) + 1 - 1) :
                       t[i].kind = "BootloaderDecision"}
    <3>1. Len(t) \in T /\ \A i \in T : i <= Len(t)
      BY <1>0, <1>1, <1>2, <2>2
    <3>2. \A i \in T : (\A m \in T : m <= i) => i = Len(t)
      BY <1>2, <3>1
    <3>3. \A i \in T : (\A m \in T : m <= i) =>
            t[i].choice = "retry" /\ n + 1 = t[i].attempt + 1
      BY <1>0, <1>1, <1>5, <2>2, <3>2
    <3> QED
      BY <3>1, <3>3 DEF NamesNext
  <2> QED
    BY <1>2, <2>1, <2>2
<1> QED
  BY <1>4, <1>5 DEF Attempts

-----------------------------------------------------------------------------
(* What the steps record *)

\* The event e, and after it some marks.
Recorded(s, t, e) ==
    IsSeq(s) /\ Later(Recent(Append(s, e), RingCap), t, Marks)

LEMMA RecordedIn ==
    ASSUME NEW o, IsOutput(o), NEW e, NEW p, Framed(Push(o, e), p, Marks)
    PROVE  Recorded(o.ring, p.ring, e)
<1>1. HasScreen(o) /\ IsSeq(o.ring)
  BY DEF IsOutput
<1>2. Push(o, e).ring = Recent(Append(o.ring, e), RingCap)
  BY <1>1, PushRows
<1> QED
  BY <1>1, <1>2 DEF Recorded, Framed

LEMMA FrameSame ==
    ASSUME NEW o, IsOutput(o), NEW K
    PROVE  Framed(o, o, K)
BY SameRing DEF Framed, IsOutput

LEMMA PressedRing ==
    ASSUME IsOutput(out), NEW k
    PROVE  /\ IsOutput(Pressed(k))
           /\ Recorded(out.ring, Pressed(k).ring, Keypress(k))
<1>1. IsOutput(Pressed(k)) /\ Pressed(k) = Push(out, Keypress(k))
  BY FrameKey DEF Framed, Pressed
<1> QED
  BY <1>1, FrameSame, RecordedIn

LEMMA EchoedRing ==
    ASSUME IsOutput(out), NEW k
    PROVE  /\ IsOutput(Echoed(k))
           /\ Recorded(out.ring, Echoed(k).ring, Keypress(k))
<1>1. IsOutput(Pressed(k)) /\ Pressed(k) = Push(out, Keypress(k))
  BY PressedRing DEF Pressed
<1>2. Handled(Pressed(k), Echoed(k), Marks)
  BY <1>1, FrameAppend, SceneRows DEF Echoed
<1> QED
  BY <1>1, <1>2, RecordedIn DEF Handled, Framed

LEMMA DecidedRing ==
    ASSUME IInv, IsOutput(out)
    PROVE  /\ ChooseRetry => Recorded(Pressed("r").ring, out'.ring,
                               BootloaderDecision("retry", prompt_attempt))
           /\ ChooseIgnore => Recorded(Pressed("i").ring, out'.ring,
                                BootloaderDecision("ignore", prompt_attempt))
           /\ ChooseAbort => Recorded(Pressed("a").ring, out'.ring,
                               BootloaderDecision("abort", prompt_attempt))
<1>1. ASSUME NEW k, NEW choice, Framed(Decided(k, choice), out', Marks)
      PROVE  Recorded(Pressed(k).ring, out'.ring,
                      BootloaderDecision(choice, prompt_attempt))
  BY <1>1, PressedRing, RecordedIn DEF Decided
<1>2. \A k, choice : IsOutput(Decided(k, choice))
  BY FrameKey DEF Framed
<1>3. ASSUME ChooseRetry
      PROVE  Framed(Decided("r", "retry"), out', Marks)
  <2> DEFINE o == Decided("r", "retry")
             c == ClearRow(o, prompt_row)
             d == DrawAt(c, prompt_row, Line("retrying"))
  <2>1. out' = d /\ IsOutput(o)
    BY <1>2, <1>3 DEF ChooseRetry
  <2> HIDE DEF o
  <2>2. Framed(o, c, Marks) /\ IsOutput(c)
    BY <2>1, FrameDraw, SceneRows, Outputs
  <2> HIDE DEF c
  <2>3. Framed(c, d, Marks)
    BY <2>2, FrameDraw, SceneRows
  <2>4. Framed(o, out', Marks)
    BY <2>1, <2>2, <2>3, FrameTrans
  <2> QED
    BY <2>4 DEF o
<1>4. ASSUME ChooseIgnore
      PROVE  Framed(Decided("i", "ignore"), out', Marks)
  <2> DEFINE o == Decided("i", "ignore")
  <2>1. out' = WithBlob(o) /\ IsOutput(o)
    BY <1>2, <1>4 DEF ChooseIgnore
  <2> HIDE DEF o
  <2>2. Framed(o, out', Marks)
    BY <2>1, FrameBlob, Outputs
  <2> QED
    BY <2>2 DEF o
<1>5. ASSUME ChooseAbort
      PROVE  Framed(Decided("a", "abort"), out', Marks)
  BY <1>2, <1>5, FrameSame DEF ChooseAbort
<1> QED
  BY <1>1, <1>3, <1>4, <1>5

LEMMA JudgedRing ==
    ASSUME IInv, NEW o, IsOutput(o), NEW length
    PROVE  /\ Accept(o, length) =>
                Recorded(o.ring, out'.ring, PasteReceived(length, TRUE))
           /\ Reject(o, length) =>
                Recorded(o.ring, out'.ring, PasteReceived(length, FALSE))
<1> DEFINE noted(ok) == Push(o, PasteReceived(length, ok))
           judged(ok) == Refresh(noted(ok))
<1>1. ASSUME NEW ok
      PROVE  IsOutput(judged(ok)) /\ Framed(noted(ok), judged(ok), Marks)
  <2>1. IsOutput(noted(ok))
    BY FramePush, SceneEvents DEF Framed
  <2> HIDE DEF noted
  <2> QED
    BY <2>1, FrameRefresh, Outputs
<1>2. ASSUME NEW ok, Handled(judged(ok), out', Marks)
      PROVE  Recorded(o.ring, out'.ring, PasteReceived(length, ok))
  <2>1. Framed(noted(ok), out', Marks)
    BY <1>1, <1>2, FrameTrans DEF Handled
  <2> QED
    BY <2>1, RecordedIn
<1>3. Accept(o, length) => out' = Booting(judged(TRUE))
  BY DEF Accept
<1>4. Reject(o, length) =>
        \/ out' = Counting(judged(FALSE))
        \/ out' = Reprompted(judged(FALSE), wrong_paste_count')
  BY DEF Reject, StartTimeout
<1> HIDE DEF judged
<1> QED
  BY <1>1, <1>2, <1>3, <1>4, FrameLast, FrameReprompt

LEMMA QuietRing ==
    ASSUME IInv, IsOutput(out), Quiet
    PROVE  Later(out.ring, out'.ring, Marks)
BY QuietFrame DEF Framed

LEMMA AttemptsRecorded ==
    ASSUME NEW s, NEW t, NEW e, Recorded(s, t, e),
           NEW N, NEW M, Attempts(s, N),
           IF e.kind = "BootloaderDecision"
           THEN /\ N = {e.attempt} /\ e.attempt \in Nat
                /\ e = BootloaderDecision(e.choice, e.attempt)
                /\ M = IF e.choice = "retry" THEN {e.attempt + 1} ELSE {}
           ELSE M = N
    PROVE  Attempts(t, M)
<1> DEFINE u == Recent(Append(s, e), RingCap)
<1>1. IsSeq(s) /\ Later(u, t, Marks) /\ "BootloaderDecision" \notin Marks
  BY DEF Recorded, Marks
<1>2. Attempts(u, M)
  <2>1. CASE e.kind = "BootloaderDecision"
    <3> DEFINE c == e.choice
               n == e.attempt
    <3>1. PushedOnto(s, u, BootloaderDecision(c, n))
      BY <1>1, <2>1, PushRing
    <3>2. /\ n \in Nat /\ Attempts(s, {n})
          /\ M = IF c = "retry" THEN {n + 1} ELSE {}
      BY <2>1
    <3> HIDE DEF u, c, n
    <3> QED
      BY <3>1, <3>2, AttemptsDecided
  <2>2. CASE e.kind # "BootloaderDecision"
    <3>1. Later(s, u, {e.kind})
      BY <1>1, LaterPush
    <3> HIDE DEF u
    <3> QED
      BY <2>2, <3>1, AttemptsKept
  <2> QED
    BY <2>1, <2>2
<1> HIDE DEF u
<1> QED
  BY <1>1, <1>2, AttemptsKept

\* Keys and verdicts leave them alone.
LEMMA AttemptsOther ==
    ASSUME NEW s, NEW t, NEW N, Attempts(s, N)
    PROVE  /\ \A k : Recorded(s, t, Keypress(k)) => Attempts(t, N)
           /\ \A k, ok : Recorded(s, t, PasteReceived(k, ok)) => Attempts(t, N)
<1>1. ASSUME NEW e, Recorded(s, t, e), e.kind # "BootloaderDecision"
      PROVE  Attempts(t, N)
  BY <1>1, AttemptsRecorded
<1>2. /\ \A k : Keypress(k).kind # "BootloaderDecision"
      /\ \A k, ok : PasteReceived(k, ok).kind # "BootloaderDecision"
  BY DEF Keypress, PasteReceived
<1> QED
  BY <1>1, <1>2

-----------------------------------------------------------------------------
(* The prompt and the decisions *)

\* The number that the next decision will name.
NextAttempt ==
    IF pc \notin Menu THEN {}
    ELSE {IF pc = "prompt" THEN prompt_attempt ELSE prompt_attempt + 1}

\* The ring, the counter, the nudge and the row of the prompt agree.
PromptInv ==
    /\ Attempts(out.ring, NextAttempt)
    /\ pc \in Menu => (nudge_rendered <=> prompt_attempt > RetryNudgeAfter)
    /\ pc = "prompt" /\ prompt_row \in Row =>
         Rows(out)[prompt_row] = PromptLine(prompt_attempt)

LEMMA InitPrompt == Init => PromptInv
<1> SUFFICES ASSUME Init
             PROVE  PromptInv
  OBVIOUS
<1> DEFINE T == Transcript
<1>1. /\ pc = "b64_pause" /\ prompt_attempt = 0 /\ ~nudge_rendered
      /\ out = RenderLine(T, start_row, Line("b64_offline"))
  BY DEF Init, EnterBootloader, Entered
<1>2. IsOutput(T)
  BY TranscriptOutput
<1>3. T.ring = <<>>
  BY DEF Transcript, Refresh
<1> HIDE DEF T
<1>4. Len(T.ring) = 0
  BY <1>3, EmptyBuffer, Zenon
<1>5. Later(T.ring, out.ring, Marks)
  BY <1>1, <1>2, FrameRender, SceneRows DEF Handled, Framed
<1>6. Attempts(T.ring, {1})
  BY <1>4 DEF Attempts, NamesNext
<1>7. Attempts(out.ring, {1})
  BY <1>5, <1>6, AttemptsKept DEF Marks
<1>8. NextAttempt = {1}
  BY <1>1 DEF NextAttempt, Menu
<1> QED
  BY <1>1, <1>7, <1>8, Params DEF PromptInv

\* The prompt that is drawn shows prompt_attempt; nothing else happens to it.
LEMMA PromptRow ==
    ASSUME Inv, ScreenInv, PromptInv, BootloaderStep,
           pc' = "prompt", prompt_row \in Row
    PROVE  Rows(out')[prompt_row] = PromptLine(prompt_attempt')
<1>1. CASE FirstPrompt
  <2>1. /\ out' = WithPrompt(out, prompt_attempt', nudge_rendered)
        /\ highest_row = start_row + 1 /\ ~nudge_rendered
    BY <1>1, Apart DEF FirstPrompt, ScreenInv, HighestInv
  <2>2. /\ prompt_row \in Row => Rows(out)[prompt_row] = Blank
        /\ nudge_row \in Row => Rows(out)[nudge_row] = Blank
    BY <2>1, Now, Apart DEF Inv
  <2> QED
    BY <2>1, <2>2, Now, PromptRows DEF Inv
<1>2. CASE LastRetryDot
  <2> DEFINE c == WithoutPrompt(Dotted)
             d == IF nudge_due THEN WithNudge(c) ELSE c
             nudged == nudge_rendered'
  <2>1. out' = WithPrompt(d, prompt_attempt', nudged)
    BY <1>2 DEF LastRetryDot
  <2>2. nudge_rendered \in BOOLEAN /\ nudged \in BOOLEAN
    BY <1>2, Now DEF LastRetryDot, nudge_due, Inv
  <2>3. pc = "retrying" /\ CleanRows(Dotted)
        /\ \A r \in Row : r # prompt_row => Rows(Dotted)[r] = Rows(out)[r]
    BY <1>2, DottedRows DEF LastRetryDot, Inv
  <2>4. nudge_row \in Row /\ ~nudge_rendered =>
          Rows(Dotted)[nudge_row] = Blank
    BY <2>3, Apart DEF ScreenInv, NudgeInv, Menu
  <2>5. /\ CleanRows(c)
        /\ \A r \in Row : r \in {prompt_row, nudge_row} => Rows(c)[r] = Blank
    BY <2>2, <2>3, <2>4, NoPromptRows
  <2> HIDE DEF c
  <2>6. /\ CleanRows(d)
        /\ \A r \in Row : r # nudge_row => Rows(d)[r] = Rows(c)[r]
        /\ nudge_row \in Row => Rows(d)[nudge_row] \in {Blank, Line("nudge")}
    <3>1. nudge_row \in Row => Rows(c)[nudge_row] \in {Blank, Line("nudge")}
      BY <2>5
    <3> QED
      BY <2>5, <3>1, NudgeRows
  <2>7. prompt_row # nudge_row
    BY Apart
  <2> HIDE DEF d, nudged
  <2>8. Rows(d)[prompt_row] = Blank
    BY <2>5, <2>6, <2>7
  <2> QED
    BY <2>1, <2>2, <2>6, <2>7, <2>8, PromptRows
<1>3. CASE \/ PromptIdlePoll
           \/ \E k \in Key : PromptOtherKey(k)
  <2>1. pc = "prompt" /\ prompt_attempt' = prompt_attempt
    BY <1>3 DEF PromptIdlePoll, PromptOtherKey, vars, counters
  <2>2. Rows(out') = Rows(out)
    BY <1>3, PressedRows DEF PromptIdlePoll, PromptOtherKey, vars, Inv
  <2> QED
    BY <2>1, <2>2 DEF PromptInv
<1>4. \A o, length : Accept(o, length) \/ Reject(o, length) => pc' # "prompt"
  BY DEF Accept, Reject, StartTimeout
<1>5. ~PasteEnter /\ \A k \in Key : ~PasteEcho(k)
  BY <1>4 DEF PasteEnter, PasteEcho
<1>6. CASE Quiet
  BY <1>1, <1>2, <1>6
     DEF Quiet, SecondTelemetryLine, RetryDot, PasteIdlePoll, PasteSilence,
         StartTimeout, CountdownTick, CountdownEnd, Halt, Continue
<1>7. CASE Keystroke
  BY <1>3, <1>5, <1>7
     DEF Keystroke, ChooseRetry, ChooseIgnore, ChooseAbort, PasteOtherKey
<1> QED
  BY <1>3, <1>6, <1>7 DEF BootloaderStep

\* The nudge is due exactly when the retry after the RetryNudgeAfter-th
\* prompt has played.
LEMMA NudgeStep ==
    ASSUME Inv, PromptInv, BootloaderStep, pc' \in Menu
    PROVE  nudge_rendered' <=> prompt_attempt' > RetryNudgeAfter
<1>1. /\ prompt_attempt \in Nat /\ RetryNudgeAfter \in Nat
      /\ RetryNudgeAfter >= 1 /\ nudge_rendered \in BOOLEAN
  BY Params DEF Inv, IInv, BootTypeOK
<1>2. CASE FirstPrompt
  <2>1. /\ pc = "nist_pause" /\ nudge_rendered' = nudge_rendered
        /\ prompt_attempt' = prompt_attempt + 1 /\ prompt_attempt = 0
    BY <1>2 DEF FirstPrompt, Inv, IInv, AttemptInv
  <2>2. nudge_rendered <=> prompt_attempt > RetryNudgeAfter
    BY <2>1 DEF PromptInv, Menu
  <2> QED
    BY <1>1, <2>1, <2>2
<1>3. CASE LastRetryDot
  <2>1. pc = "retrying" /\ prompt_attempt' = prompt_attempt + 1
    BY <1>3 DEF LastRetryDot
  <2>2. nudge_rendered' <=> nudge_rendered \/ nudge_due
    BY <1>3, Zenon DEF LastRetryDot
  <2>3. nudge_rendered <=> prompt_attempt > RetryNudgeAfter
    BY <2>1 DEF PromptInv, Menu
  <2> QED
    BY <1>1, <2>1, <2>2, <2>3 DEF nudge_due
<1>4. \A o, length : Accept(o, length) \/ Reject(o, length) => pc' \notin Menu
  BY PauseSteps DEF Accept, Reject, StartTimeout, Menu
<1>5. ASSUME ~FirstPrompt, ~LastRetryDot
      PROVE  /\ pc \in Menu
             /\ UNCHANGED <<prompt_attempt, nudge_rendered>>
  <2>1. ~PasteEnter /\ \A k \in Key : ~PasteEcho(k)
    BY <1>4 DEF PasteEnter, PasteEcho, Menu
  <2>2. CASE Quiet
    BY <1>5, <2>2
       DEF Quiet, SecondTelemetryLine, RetryDot, PasteIdlePoll, PasteSilence,
           StartTimeout, CountdownTick, CountdownEnd, Halt, Continue, Menu,
           counters
  <2>3. CASE Keystroke \/ PromptIdlePoll
    BY <2>1, <2>3
       DEF Keystroke, ChooseRetry, ChooseIgnore, ChooseAbort, PasteOtherKey,
           PromptOtherKey, PromptIdlePoll, Menu, counters, vars
  <2> QED
    BY <2>2, <2>3 DEF BootloaderStep
<1> QED
  BY <1>2, <1>3, <1>5 DEF PromptInv

LEMMA StepPrompt == SceneInv /\ PromptInv /\ [Next]_vars => PromptInv'
<1> SUFFICES ASSUME SceneInv, PromptInv, [Next]_vars
             PROVE  PromptInv'
  OBVIOUS
<1>0. /\ Inv /\ IInv /\ ScreenInv /\ IsOutput(out)
      /\ prompt_attempt \in Nat
  BY DEF SceneInv, FrameInv, Inv, IInv, BootTypeOK
<1> DEFINE s == out.ring
           t == out'.ring
<1>1. ASSUME UNCHANGED vars
      PROVE  PromptInv'
  BY <1>1 DEF PromptInv, NextAttempt, vars, counters
<1>2. ASSUME BootloaderStep
      PROVE  Attempts(t, NextAttempt')
  <2>1. Attempts(s, NextAttempt)
    BY DEF PromptInv
  <2>2. CASE Quiet
    <3>1. Attempts(t, NextAttempt)
      BY <1>0, <2>1, <2>2, QuietRing, AttemptsKept DEF Marks
    <3>2. NextAttempt' \subseteq NextAttempt
      BY <2>2
         DEF Quiet, SecondTelemetryLine, FirstPrompt, RetryDot, LastRetryDot,
             PasteIdlePoll, PasteSilence, StartTimeout, CountdownTick,
             CountdownEnd, Halt, Continue, NextAttempt, Menu, counters
    <3> QED
      BY <3>1, <3>2 DEF Attempts
  <2>3. CASE PromptIdlePoll
    BY <2>1, <2>3 DEF PromptIdlePoll, vars, counters, NextAttempt
  <2>4. ASSUME NEW k
        PROVE  Attempts(Pressed(k).ring, NextAttempt)
    BY <1>0, <2>1, PressedRing, AttemptsOther
  <2>5. ASSUME NEW k \in Key, PromptOtherKey(k) \/ PasteOtherKey(k)
        PROVE  Attempts(t, NextAttempt')
    BY <2>4, <2>5 DEF PromptOtherKey, PasteOtherKey, NextAttempt, counters
  <2>6. ASSUME NEW k, NEW choice, pc = "prompt",
               Recorded(Pressed(k).ring, t,
                        BootloaderDecision(choice, prompt_attempt)),
               NextAttempt' \subseteq IF choice = "retry"
                                     THEN {prompt_attempt + 1} ELSE {}
        PROVE  Attempts(t, NextAttempt')
    <3> DEFINE e == BootloaderDecision(choice, prompt_attempt)
               M == IF choice = "retry" THEN {prompt_attempt + 1} ELSE {}
    <3>1. /\ e.kind = "BootloaderDecision" /\ e.attempt = prompt_attempt
          /\ e.choice = choice /\ e = BootloaderDecision(e.choice, e.attempt)
      BY DEF BootloaderDecision
    <3>2. NextAttempt = {prompt_attempt}
      BY <2>6 DEF NextAttempt, Menu
    <3>3. M = IF e.choice = "retry" THEN {e.attempt + 1} ELSE {}
      BY <3>1
    <3> HIDE DEF e, M
    <3>4. Attempts(t, M)
      BY <1>0, <2>4, <2>6, <3>1, <3>2, <3>3, AttemptsRecorded DEF e
    <3> QED
      BY <2>6, <3>4 DEF Attempts, M
  <2>7. CASE ChooseRetry
    <3>1. pc = "prompt" /\ NextAttempt' = {prompt_attempt + 1}
      BY <2>7 DEF ChooseRetry, NextAttempt, Menu, counters
    <3> QED
      BY <1>0, <2>6, <2>7, <3>1, DecidedRing
  <2>8. CASE ChooseIgnore \/ ChooseAbort
    <3>1. pc = "prompt" /\ NextAttempt' = {}
      BY <2>8 DEF ChooseIgnore, ChooseAbort, NextAttempt, Menu
    <3> QED
      BY <1>0, <2>6, <2>8, <3>1, DecidedRing
  <2>9. ASSUME NEW o, IsOutput(o), NEW N, Attempts(o.ring, N), NEW length,
               Accept(o, length) \/ Reject(o, length)
        PROVE  Attempts(t, NextAttempt')
    <3>1. \E ok : Recorded(o.ring, t, PasteReceived(length, ok))
      BY <1>0, <2>9, JudgedRing
    <3>2. Attempts(t, N)
      BY <2>9, <3>1, AttemptsOther
    <3>3. NextAttempt' = {}
      BY <2>9 DEF Accept, Reject, StartTimeout, NextAttempt, Menu
    <3> QED
      BY <3>2, <3>3 DEF Attempts
  <2>10. CASE PasteEnter
    BY <1>0, <2>4, <2>9, <2>10, PressedRing DEF PasteEnter
  <2>11. ASSUME NEW k \in Key, PasteEcho(k)
         PROVE  Attempts(t, NextAttempt')
    <3>1. IsOutput(Echoed(k)) /\ Attempts(Echoed(k).ring, NextAttempt)
      BY <1>0, <2>1, EchoedRing, AttemptsOther
    <3>2. CASE out' = Echoed(k) /\ UNCHANGED <<pc, counters>>
      BY <3>1, <3>2 DEF NextAttempt, counters
    <3>3. CASE Reject(Echoed(k), Len(buf) + 1)
      BY <2>9, <3>1, <3>3
    <3> QED
      BY <2>11, <3>2, <3>3 DEF PasteEcho
  <2>12. CASE Keystroke
    BY <2>5, <2>7, <2>8, <2>10, <2>11, <2>12 DEF Keystroke
  <2> QED
    BY <1>2, <2>2, <2>3, <2>12 DEF BootloaderStep
<1>3. ASSUME BootloaderStep
      PROVE  PromptInv'
  <2>1. pc' \in Menu =>
          (nudge_rendered' <=> prompt_attempt' > RetryNudgeAfter)
    BY <1>0, <1>3, NudgeStep
  <2>2. pc' = "prompt" /\ prompt_row \in Row =>
          Rows(out')[prompt_row] = PromptLine(prompt_attempt')
    BY <1>0, <1>3, PromptRow
  <2> QED
    BY <1>2, <1>3, <2>1, <2>2 DEF PromptInv
<1> QED
  BY <1>1, <1>3 DEF Next, Stopped

\* However many retries there were and however much of them the ring has
\* forgotten: the decisions on record follow one another, the prompt shows
\* the number that the next one names, and the nudge comes with the retry
\* it is due at.
THEOREM PromptLedgerKept == Spec => []PromptLedger
<1>1. ASSUME SceneInv, PromptInv
      PROVE  PromptLedger
  <2> DEFINE s == out.ring
             n == prompt_attempt
  <2>1. /\ Attempts(s, NextAttempt)
        /\ pc = "prompt" =>
             /\ NextAttempt = {n}
             /\ nudge_rendered <=> n > RetryNudgeAfter
             /\ nudge_row \in Row => out.fb.rows[nudge_row] =
                  IF nudge_rendered THEN Line("nudge") ELSE Blank
             /\ prompt_row \in Row => out.fb.rows[prompt_row] = PromptLine(n)
    BY <1>1
       DEF PromptInv, NextAttempt, Menu, Rows, SceneInv, ScreenInv, NudgeInv
  <2>2. PromptLine(n).n = n
    BY DEF PromptLine, Numbered, Line
  <2> HIDE DEF n
  <2> QED
    BY <2>1, <2>2 DEF Attempts, PromptLedger
<1> QED
  BY <1>1, SceneInvariant, InitScene, StepScene, InitPrompt, StepPrompt, PTL
     DEF Spec

-----------------------------------------------------------------------------
(* What has been typed *)

\* S is T, d places further on.
Shifted(S, T, d) ==
    /\ \A i \in T : i + d \in S
    /\ \A i \in S : i - d \in T

LEMMA ShiftedCard ==
    ASSUME NEW S \in SUBSET Int, NEW T \in SUBSET Int, NEW d \in Nat,
           IsFiniteSet(T), Shifted(S, T, d)
    PROVE  Cardinality(S) = Cardinality(T)
<1> DEFINE f == [i \in T |-> i + d]
<1>1. f \in Injection(T, S)
  <2>1. \A i \in T : i \in Int /\ i + d \in S
    BY DEF Shifted
  <2>2. f \in [T -> S]
    BY <2>1
  <2>3. \A i, j \in T : f[i] = f[j] => i = j
    BY <2>1
  <2> QED
    BY <2>2, <2>3 DEF Injection, IsInjective
<1>2. f \in Surjection(T, S)
  <2>1. \A i \in S : i - d \in T /\ (i - d) + d = i
    BY DEF Shifted
  <2>2. \A i \in S : f[i - d] = i
    BY <2>1
  <2> QED
    BY <1>1, <2>1, <2>2 DEF Surjection, Injection
<1>3. f \in Bijection(T, S)
  BY <1>1, <1>2 DEF Bijection
<1> QED
  BY <1>3, FS_Bijection DEF ExistsBijection

LEMMA TypedFinite ==
    ASSUME NEW s, NEW j \in Int
    PROVE  /\ TypedBefore(s, j) \in SUBSET Int
           /\ \A i \in TypedBefore(s, j) : i < j
           /\ IsFiniteSet(TypedBefore(s, j))
           /\ Cardinality(TypedBefore(s, j)) \in Nat
           /\ \A i : IsFiniteSet({k \in TypedBefore(s, j) : k <= i})
<1>1. IsFiniteSet(1..(j - 1))
  BY FS_Interval
<1>2. TypedBefore(s, j) \in SUBSET (1..(j - 1))
  BY DEF TypedBefore
<1>3. IsFiniteSet(TypedBefore(s, j))
  BY <1>1, <1>2, FS_Subset
<1>4. \A i : {k \in TypedBefore(s, j) : k <= i} \in SUBSET TypedBefore(s, j)
  OBVIOUS
<1> QED
  BY <1>2, <1>3, <1>4, FS_Subset, FS_CardinalityType

\* The keys spell w, and each character of w is one of them.
Ranked(s, j, w) ==
    /\ Spells(s, j, w)
    /\ \A q \in 1..Len(w) :
         \E i \in TypedBefore(s, j) : Rank(TypedBefore(s, j), i) = q

\* So they spell nothing else.
LEMMA SpellsOnly ==
    ASSUME NEW s, NEW j, NEW S, NEW w \in Seq(S), NEW v \in Seq(S),
           Ranked(s, j, w)
    PROVE  Spells(s, j, v) <=> v = w
<1>1. ASSUME Spells(s, j, v)
      PROVE  v = w
  <2>1. Len(v) = Len(w)
    BY <1>1 DEF Ranked, Spells
  <2>2. \A q \in 1..Len(w) : v[q] = w[q]
    BY <1>1 DEF Ranked, Spells
  <2> QED
    BY <2>1, <2>2, SeqEqual
<1> QED
  BY <1>1 DEF Ranked

\* The kinds that tell what is typed.
EntryKinds == {"Keypress", "BootloaderDecision", "PasteReceived"}

LEMMA TypedMoves ==
    ASSUME NEW s, NEW j, NEW t, NEW k, NEW d, NEW K,
           Window(s, j, t, k, d, K), Losing(s, t, d), K \cap EntryKinds = {}
    PROVE  /\ Begun(s, j) \/ Full(s) => Begun(t, k) \/ Full(t)
           /\ Begun(t, k) =>
                /\ Begun(s, j)
                /\ Shifted(TypedBefore(s, j), TypedBefore(t, k), d)
                /\ \A i \in TypedBefore(t, k) : t[i] = s[i + d]
<1>1. /\ j \in Nat /\ k \in Nat /\ d \in Nat /\ j <= k + d
      /\ \A i \in 1..(k - 1) : i + d < j => t[i] = s[i + d]
  BY DEF Window
<1>2. \A i \in 1..(k - 1) : ~(i + d < j) =>
        t[i].kind # "Keypress" /\ ~StartsEntry(t[i])
  BY DEF Window, EntryKinds, StartsEntry
<1>3. ASSUME NEW i \in 1..(j - 1), i > d
      PROVE  i - d \in 1..(k - 1) /\ (i - d) + d = i /\ t[i - d] = s[i]
  <2>1. i - d \in 1..(k - 1) /\ (i - d) + d = i /\ (i - d) + d < j
    BY <1>1, <1>3
  <2> QED
    BY <1>1, <2>1
<1>4. ASSUME Begun(s, j) \/ Full(s)
      PROVE  Begun(t, k) \/ Full(t)
  <2>1. CASE d > 0 \/ Full(s)
    BY <2>1 DEF Losing
  <2>2. CASE ~(d > 0 \/ Full(s))
    <3>1. PICK i \in 1..(j - 1) : StartsEntry(s[i])
      BY <1>4, <2>2 DEF Begun
    <3>2. i > d
      BY <1>1, <2>2
    <3> QED
      BY <1>3, <3>1, <3>2 DEF Begun
  <2> QED
    BY <2>1, <2>2
<1>5. ASSUME Begun(t, k)
      PROVE  /\ Begun(s, j)
             /\ Shifted(TypedBefore(s, j), TypedBefore(t, k), d)
             /\ \A i \in TypedBefore(t, k) : t[i] = s[i + d]
  <2>1. PICK p \in 1..(k - 1) : StartsEntry(t[p])
    BY <1>5 DEF Begun
  <2>2. p + d < j /\ p + d \in 1..(j - 1) /\ StartsEntry(s[p + d])
    BY <1>1, <1>2, <2>1
  <2>3. ASSUME NEW i \in TypedBefore(s, j)
        PROVE  i - d \in TypedBefore(t, k)
    <3>1. /\ i \in 1..(j - 1) /\ s[i].kind = "Keypress"
          /\ s[i].key \in Printable
          /\ \A q \in i..(j - 1) : ~StartsEntry(s[q])
      BY <2>3 DEF TypedBefore
    <3>2. i > d
      BY <1>1, <2>2, <3>1
    <3>3. i - d \in 1..(k - 1) /\ (i - d) + d = i /\ t[i - d] = s[i]
      BY <1>3, <3>1, <3>2
    <3>4. ASSUME NEW q \in (i - d)..(k - 1)
          PROVE  ~StartsEntry(t[q])
      <4>1. q \in 1..(k - 1)
        BY <1>1, <3>3
      <4>2. CASE q + d < j
        <5>1. q + d \in i..(j - 1)
          BY <1>1, <3>1, <4>1, <4>2
        <5> QED
          BY <1>1, <3>1, <4>1, <4>2, <5>1
      <4> QED
        BY <1>2, <4>1, <4>2
    <3> QED
      BY <3>1, <3>3, <3>4 DEF TypedBefore
  <2>4. ASSUME NEW i \in TypedBefore(t, k)
        PROVE  i + d \in TypedBefore(s, j) /\ t[i] = s[i + d]
    <3>1. /\ i \in 1..(k - 1) /\ t[i].kind = "Keypress"
          /\ t[i].key \in Printable
          /\ \A q \in i..(k - 1) : ~StartsEntry(t[q])
      BY <2>4 DEF TypedBefore
    <3>2. i + d \in 1..(j - 1) /\ t[i] = s[i + d]
      BY <1>1, <1>2, <3>1
    <3>3. ASSUME NEW q \in (i + d)..(j - 1)
          PROVE  ~StartsEntry(s[q])
      <4>1. q > d /\ q \in 1..(j - 1)
        BY <1>1, <3>1
      <4>2. q - d \in i..(k - 1) /\ t[q - d] = s[q]
        BY <1>1, <1>3, <3>1, <4>1
      <4> QED
        BY <3>1, <4>2
    <3> QED
      BY <3>1, <3>2, <3>3 DEF TypedBefore
  <2> QED
    BY <2>2, <2>3, <2>4 DEF Begun, Shifted
<1> QED
  BY <1>4, <1>5

LEMMA SpellsMoves ==
    ASSUME NEW s, NEW j, NEW t, NEW k, NEW d, NEW K,
           Window(s, j, t, k, d, K), Losing(s, t, d), K \cap EntryKinds = {},
           Begun(t, k)
    PROVE  /\ Cardinality(TypedBefore(s, j)) = Cardinality(TypedBefore(t, k))
           /\ \A w : Spells(s, j, w) <=> Spells(t, k, w)
           /\ \A w : Ranked(s, j, w) => Ranked(t, k, w)
<1> DEFINE S == TypedBefore(s, j)
           T == TypedBefore(t, k)
<1>0. j \in Int /\ k \in Int /\ d \in Nat
  BY DEF Window
<1>1. Shifted(S, T, d) /\ \A i \in T : t[i] = s[i + d]
  BY TypedMoves
<1>2. /\ S \in SUBSET Int /\ T \in SUBSET Int /\ IsFiniteSet(T)
      /\ \A i : IsFiniteSet({q \in T : q <= i})
  BY <1>0, TypedFinite
<1> HIDE DEF S, T
<1>3. Cardinality(S) = Cardinality(T)
  BY <1>0, <1>1, <1>2, ShiftedCard
<1>4. ASSUME NEW i \in T
      PROVE  Rank(S, i + d) = Rank(T, i)
  <2> DEFINE A == {q \in S : q <= i + d}
             B == {q \in T : q <= i}
  <2>1. A \in SUBSET Int /\ B \in SUBSET Int /\ IsFiniteSet(B)
    BY <1>2
  <2>2. \A q \in S, r \in T : /\ q <= i + d <=> q - d <= i
                              /\ r <= i <=> r + d <= i + d
    BY <1>0, <1>2
  <2>3. Shifted(A, B, d)
    BY <1>1, <2>2 DEF Shifted
  <2> HIDE DEF A, B
  <2>4. Cardinality(A) = Cardinality(B)
    BY <1>0, <2>1, <2>3, ShiftedCard
  <2> QED
    BY <2>4 DEF Rank, A, B
<1>5. \A i \in S : i - d \in T /\ (i - d) + d = i
  BY <1>0, <1>1, <1>2 DEF Shifted
<1>6. \A i \in T : i + d \in S
  BY <1>1 DEF Shifted
<1>7. ASSUME NEW w
      PROVE  Spells(s, j, w) <=> Spells(t, k, w)
  <2>1. Spells(s, j, w) <=> /\ Len(w) = Cardinality(S)
                            /\ \A i \in S : s[i].key = w[Rank(S, i)]
    BY DEF Spells, S
  <2>2. Spells(t, k, w) <=> /\ Len(w) = Cardinality(T)
                            /\ \A i \in T : t[i].key = w[Rank(T, i)]
    BY DEF Spells, T
  <2>3. (\A i \in S : s[i].key = w[Rank(S, i)])
          <=> \A i \in T : s[i + d].key = w[Rank(S, i + d)]
    BY <1>5, <1>6
  <2>4. (\A i \in T : s[i + d].key = w[Rank(S, i + d)])
          <=> \A i \in T : t[i].key = w[Rank(T, i)]
    BY <1>1, <1>4
  <2> QED
    BY <1>3, <2>1, <2>2, <2>3, <2>4
<1>8. ASSUME NEW w, Ranked(s, j, w)
      PROVE  Ranked(t, k, w)
  <2>1. ASSUME NEW q \in 1..Len(w)
        PROVE  \E i \in T : Rank(T, i) = q
    <3>1. PICK i \in S : Rank(S, i) = q
      BY <1>8 DEF Ranked, S
    <3>2. Rank(T, i - d) = q
      BY <1>4, <1>5, <3>1
    <3> QED
      BY <1>5, <3>2
  <2> QED
    BY <1>7, <1>8, <2>1 DEF Ranked, T
<1> QED
  BY <1>3, <1>7, <1>8 DEF S, T

\* What a place owes to the entry right before it.
LEMMA NextPlace ==
    ASSUME NEW t, NEW n \in Nat, n > 0
    PROVE  /\ Begun(t, n + 1) <=> Begun(t, n) \/ StartsEntry(t[n])
           /\ StartsEntry(t[n]) => TypedBefore(t, n + 1) = {}
           /\ ~StartsEntry(t[n]) =>
                TypedBefore(t, n + 1) =
                  IF t[n].kind = "Keypress" /\ t[n].key \in Printable
                  THEN TypedBefore(t, n) \cup {n} ELSE TypedBefore(t, n)
<1>1. /\ n \in 1..n /\ n + 1 - 1 = n
      /\ \A i \in 1..n : i = n \/ i \in 1..(n - 1)
      /\ \A i \in 1..(n - 1) : i \in 1..n
      /\ \A i \in 1..n : n \in i..n
      /\ \A i \in 1..n : \A q \in i..n : q = n \/ q \in i..(n - 1)
      /\ \A i \in 1..n : \A q \in i..(n - 1) : q \in i..n
  OBVIOUS
<1>2. Begun(t, n + 1) <=> Begun(t, n) \/ StartsEntry(t[n])
  BY <1>1 DEF Begun
<1>3. \A i : i \in TypedBefore(t, n + 1) <=>
               /\ i \in 1..n /\ t[i].kind = "Keypress"
               /\ t[i].key \in Printable
               /\ \A q \in i..n : ~StartsEntry(t[q])
  BY <1>1 DEF TypedBefore
<1>4. StartsEntry(t[n]) => TypedBefore(t, n + 1) = {}
  BY <1>1, <1>3
<1>5. ASSUME ~StartsEntry(t[n]), NEW i
      PROVE  i \in TypedBefore(t, n + 1) <=>
               \/ i \in TypedBefore(t, n)
               \/ i = n /\ t[n].kind = "Keypress" /\ t[n].key \in Printable
  <2>1. ASSUME i \in 1..n
        PROVE  (\A q \in i..n : ~StartsEntry(t[q])) <=>
                 \A q \in i..(n - 1) : ~StartsEntry(t[q])
    BY <1>1, <1>5, <2>1
  <2>2. i = n => \A q \in i..(n - 1) : FALSE
    OBVIOUS
  <2>3. i \in TypedBefore(t, n) <=>
               /\ i \in 1..(n - 1) /\ t[i].kind = "Keypress"
               /\ t[i].key \in Printable
               /\ \A q \in i..(n - 1) : ~StartsEntry(t[q])
    BY DEF TypedBefore
  <2> QED
    BY <1>1, <1>3, <2>1, <2>2, <2>3
<1> QED
  BY <1>2, <1>4, <1>5

\* One printable key more is one character more.
LEMMA TypedKey ==
    ASSUME NEW t, NEW n \in Nat, n > 0, NEW S, NEW w \in Seq(S),
           t[n].kind = "Keypress", t[n].key \in Printable, t[n].key \in S,
           Ranked(t, n, w)
    PROVE  Ranked(t, n + 1, Append(w, t[n].key))
<1> DEFINE T == TypedBefore(t, n)
           U == TypedBefore(t, n + 1)
           v == Append(w, t[n].key)
<1>1. /\ T \in SUBSET Int /\ \A i \in T : i < n
      /\ IsFiniteSet(T) /\ Cardinality(T) \in Nat
      /\ \A i : IsFiniteSet({q \in T : q <= i})
  <2>1. n \in Int
    OBVIOUS
  <2> HIDE DEF T
  <2> QED
    BY <2>1, TypedFinite DEF T
<1>2. U = T \cup {n}
  BY NextPlace DEF StartsEntry
<1>3. /\ Len(w) = Cardinality(T) /\ \A i \in T : t[i].key = w[Rank(T, i)]
      /\ \A q \in 1..Len(w) : \E i \in T : Rank(T, i) = q
  BY DEF Ranked, Spells
<1>4. Len(w) \in Nat /\ Len(v) = Len(w) + 1 /\ v[Len(w) + 1] = t[n].key
      /\ \A q \in 1..Len(w) : v[q] = w[q]
  BY AppendProperties
<1>5. Ranked(t, n + 1, v) <=>
        /\ Len(v) = Cardinality(U) /\ \A i \in U : t[i].key = v[Rank(U, i)]
        /\ \A q \in 1..Len(v) : \E i \in U : Rank(U, i) = q
  BY DEF Ranked, Spells
<1> HIDE DEF T, U, v
<1>6. Cardinality(U) = Cardinality(T) + 1
  <2>1. n \notin T
    BY <1>1
  <2> QED
    BY <1>1, <1>2, <2>1, FS_AddElement
<1>a. \A i \in U : i \in Int /\ i <= n /\ i <= i
  BY <1>1, <1>2
<1>7. ASSUME NEW i \in T
      PROVE  Rank(U, i) = Rank(T, i) /\ Rank(T, i) \in 1..Len(w)
  <2> DEFINE A == {q \in T : q <= i}
             B == {q \in U : q <= i}
  <2>0. Rank(U, i) = Cardinality(B) /\ Rank(T, i) = Cardinality(A)
    BY DEF Rank
  <2>1. A = B
    <3>1. ~(n <= i)
      BY <1>1, <1>7
    <3> QED
      BY <1>2, <3>1
  <2>2. IsFiniteSet(A)
    BY <1>1
  <2>3. A \in SUBSET T /\ i \in A
    BY <1>2, <1>7, <1>a
  <2> HIDE DEF A, B
  <2>4. /\ Cardinality(A) <= Cardinality(T) /\ Cardinality(A) \in Nat
        /\ Cardinality(A) # 0
    BY <1>1, <2>2, <2>3, FS_Subset, FS_CardinalityType, FS_EmptySet
  <2> QED
    BY <1>1, <1>3, <2>0, <2>1, <2>4
<1>8. Rank(U, n) = Len(w) + 1
  <2>1. {q \in U : q <= n} = U
    BY <1>a
  <2> QED
    BY <1>3, <1>6, <2>1 DEF Rank
<1>9. \A i \in U : t[i].key = v[Rank(U, i)]
  BY <1>2, <1>3, <1>4, <1>7, <1>8
<1>10. \A q \in 1..Len(v) : \E i \in U : Rank(U, i) = q
  <2>1. ASSUME NEW q \in 1..Len(w)
        PROVE  \E i \in U : Rank(U, i) = q
    BY <1>2, <1>3, <1>7, <2>1
  <2>2. n \in U /\ \A q \in 1..Len(v) : q = Len(w) + 1 \/ q \in 1..Len(w)
    BY <1>2, <1>4
  <2> QED
    BY <1>8, <2>1, <2>2
<1> QED
  BY <1>3, <1>4, <1>5, <1>6, <1>9, <1>10 DEF v

\* Where an entry starts nothing has been typed yet.
LEMMA NothingTyped ==
    ASSUME NEW t, NEW j, TypedBefore(t, j) = {}
    PROVE  Ranked(t, j, <<>>)
<1>1. Cardinality({}) = 0
  BY FS_EmptySet
<1> DEFINE w == <<>>
<1>2. Len(w) = 0
  BY EmptyBuffer
<1> HIDE DEF w
<1>3. Ranked(t, j, w)
  BY <1>1, <1>2 DEF Ranked, Spells
<1> QED
  BY <1>3 DEF w

-----------------------------------------------------------------------------
(* Entries and verdicts *)

\* w is what has been typed since the last prompt or verdict.
Entry(s, w) ==
    LET now == Len(s) + 1
    IN  /\ Begun(s, now) \/ Full(s)
        /\ Begun(s, now) => Ranked(s, now, w)

VerdictsOK(s) ==
    \A j \in 1..Len(s) : s[j].kind = "PasteReceived" => VerdictOK(s, j)

\* m is the number of wrong pastes, while the ring has them all.
Count(s, m) == ~Full(s) => m = Cardinality(WrongPastes(s))

LEMMA VerdictMoves ==
    ASSUME NEW s, NEW j, NEW t, NEW k, NEW d,
           Window(s, j, t, k, d, {}), Losing(s, t, d),
           t[k] = s[j], VerdictOK(s, j)
    PROVE  VerdictOK(t, k)
<1>1. {} \cap EntryKinds = {}
  OBVIOUS
<1>2. Begun(s, j) \/ Full(s) => Begun(t, k) \/ Full(t)
  BY <1>1, TypedMoves
<1>3. ASSUME Begun(t, k)
      PROVE  /\ Begun(s, j)
             /\ Cardinality(TypedBefore(s, j)) = Cardinality(TypedBefore(t, k))
             /\ Spells(s, j, PasteTarget) <=> Spells(t, k, PasteTarget)
  BY <1>1, <1>3, TypedMoves, SpellsMoves
<1> QED
  BY <1>2, <1>3 DEF VerdictOK

LEMMA EntryMoves ==
    ASSUME NEW s, NEW j, NEW t, NEW k, NEW d, NEW K,
           Window(s, j, t, k, d, K), Losing(s, t, d), K \cap EntryKinds = {},
           NEW w, Begun(s, j) \/ Full(s), Begun(s, j) => Ranked(s, j, w)
    PROVE  /\ Begun(t, k) \/ Full(t)
           /\ Begun(t, k) => Ranked(t, k, w)
BY TypedMoves, SpellsMoves

\* Marks leave all of it alone.
LEMMA PastesKept ==
    ASSUME NEW s, NEW t, Later(s, t, Marks)
    PROVE  /\ VerdictsOK(s) => VerdictsOK(t)
           /\ \A w : Entry(s, w) => Entry(t, w)
           /\ \A m : Count(s, m) => Count(t, m)
<1>1. PICK d \in Nat :
        /\ Losing(s, t, d)
        /\ Window(s, Len(s) + 1, t, Len(t) + 1, d, Marks)
        /\ \A k \in 1..Len(t) : IF k + d <= Len(s)
             THEN t[k] = s[k + d] /\ Window(s, k + d, t, k, d, {})
             ELSE t[k].kind \in Marks
  BY LaterWindows
<1>2. Len(s) \in Nat /\ Len(t) \in Nat
  BY DEF Later
<1>3. Marks \cap EntryKinds = {} /\ "PasteReceived" \notin Marks
  BY DEF Marks, EntryKinds
<1>4. ASSUME VerdictsOK(s), NEW k \in 1..Len(t), t[k].kind = "PasteReceived"
      PROVE  VerdictOK(t, k)
  <2>1. k + d \in 1..Len(s) /\ t[k] = s[k + d] /\ Window(s, k + d, t, k, d, {})
    BY <1>1, <1>2, <1>3, <1>4
  <2>2. VerdictOK(s, k + d)
    BY <1>4, <2>1 DEF VerdictsOK
  <2> QED
    BY <1>1, <2>1, <2>2, VerdictMoves
<1>5. ASSUME NEW w, Entry(s, w)
      PROVE  Entry(t, w)
  BY <1>1, <1>3, <1>5, EntryMoves DEF Entry
<1>6. ASSUME NEW m, Count(s, m), ~Full(t)
      PROVE  m = Cardinality(WrongPastes(t))
  <2>1. PICK f \in Nat : Moved(s, t, f, Marks)
    BY DEF Later
  <2>2. f = 0 /\ ~Full(s)
    BY <1>2, <1>6, <2>1, SurfaceAssumption DEF Moved, Full
  <2>3. \A i \in 1..Len(t) : IF i <= Len(s) THEN t[i] = s[i]
                             ELSE t[i].kind \in Marks
    <3>1. \A i \in 1..Len(t) : i + 0 = i
      BY <1>2
    <3> QED
      BY <2>1, <2>2, <3>1 DEF Moved
  <2>4. Len(s) <= Len(t)
    BY <1>2, <2>1, <2>2 DEF Moved
  <2>5. WrongPastes(t) = WrongPastes(s)
    <3>1. \A i \in 1..Len(s) : i \in 1..Len(t) /\ i <= Len(s)
      BY <1>2, <2>4
    <3>2. \A i \in 1..Len(t) : i <= Len(s) => i \in 1..Len(s)
      BY <1>2
    <3> QED
      BY <1>3, <2>3, <3>1, <3>2 DEF WrongPastes
  <2> QED
    BY <1>6, <2>2, <2>5 DEF Count
<1> QED
  BY <1>4, <1>5, <1>6 DEF VerdictsOK, Count

\* A push keeps the verdicts on record, and adds one that is about what has
\* been typed.
LEMMA VerdictsPushed ==
    ASSUME NEW s, NEW t, NEW e, PushedOnto(s, t, e), VerdictsOK(s),
           NEW w \in Seq(Printable),
           e.kind = "PasteReceived" =>
             /\ Entry(s, w)
             /\ e.len = Len(w) /\ (e.correct <=> w = PasteTarget)
    PROVE  VerdictsOK(t)
<1>1. PICK d \in Nat :
        /\ Losing(s, t, d)
        /\ Len(t) > 0 => /\ t[Len(t)] = e
                         /\ Window(s, Len(s) + 1, t, Len(t), d, {})
        /\ Len(t) = 0 => Full(t)
        /\ \A k \in 1..Len(t) : k # Len(t) =>
             /\ k + d \in 1..Len(s)
             /\ t[k] = s[k + d] /\ Window(s, k + d, t, k, d, {})
  BY PushedWindows
<1>2. ASSUME NEW k \in 1..Len(t), t[k].kind = "PasteReceived", k # Len(t)
      PROVE  VerdictOK(t, k)
  <2>1. VerdictOK(s, k + d)
    BY <1>1, <1>2 DEF VerdictsOK
  <2> QED
    BY <1>1, <1>2, <2>1, VerdictMoves
<1>3. ASSUME Len(t) \in 1..Len(t), t[Len(t)].kind = "PasteReceived"
      PROVE  VerdictOK(t, Len(t))
  <2> DEFINE n == Len(t)
  <2>1. /\ Window(s, Len(s) + 1, t, n, d, {})
        /\ t[n] = e /\ e.kind = "PasteReceived"
        /\ {} \cap EntryKinds = {}
    BY <1>1, <1>3
  <2>2. /\ Begun(t, n) \/ Full(t)
        /\ Begun(t, n) => Ranked(t, n, w)
    BY <1>1, <2>1, EntryMoves DEF Entry
  <2>3. ASSUME Begun(t, n)
        PROVE  /\ e.len = Cardinality(TypedBefore(t, n))
               /\ e.correct <=> Spells(t, n, PasteTarget)
    <3>1. Ranked(t, n, w)
      BY <2>2, <2>3
    <3>2. Spells(t, n, PasteTarget) <=> PasteTarget = w
      BY <3>1, SpellsOnly, Params
    <3>3. Len(w) = Cardinality(TypedBefore(t, n))
      BY <3>1 DEF Ranked, Spells
    <3> QED
      BY <2>1, <3>2, <3>3
  <2> QED
    BY <2>1, <2>2, <2>3 DEF VerdictOK
<1> QED
  BY <1>2, <1>3 DEF VerdictsOK

\* What a push adds to the entry.
LEMMA EntryPushed ==
    ASSUME NEW s, NEW t, NEW e, PushedOnto(s, t, e)
    PROVE  /\ StartsEntry(e) => Entry(t, <<>>)
           /\ \A w \in Seq(Printable) :
                Entry(s, w) /\ e.kind = "Keypress" =>
                  Entry(t, IF e.key \in Printable THEN Append(w, e.key) ELSE w)
<1> DEFINE n == Len(t)
<1>1. PICK d \in Nat :
        /\ Losing(s, t, d)
        /\ n > 0 => t[n] = e /\ Window(s, Len(s) + 1, t, n, d, {})
        /\ n = 0 => Full(t)
  BY PushedWindows
<1>2. n \in Nat /\ {} \cap EntryKinds = {}
  BY DEF PushedOnto
<1>3. \A w : n = 0 => Entry(t, w)
  <2>1. n = 0 => ~Begun(t, n + 1)
    BY <1>2 DEF Begun
  <2> QED
    BY <1>1, <2>1 DEF Entry
<1>4. ASSUME StartsEntry(e)
      PROVE  Entry(t, <<>>)
  <2>1. CASE n > 0
    <3>1. Begun(t, n + 1) /\ TypedBefore(t, n + 1) = {}
      BY <1>1, <1>2, <1>4, <2>1, NextPlace
    <3>2. Ranked(t, n + 1, <<>>)
      BY <3>1, NothingTyped
    <3> QED
      BY <3>1, <3>2, Zenon DEF Entry
  <2> QED
    BY <1>2, <1>3, <2>1
<1>5. ASSUME NEW w \in Seq(Printable), Entry(s, w), e.kind = "Keypress"
      PROVE  Entry(t, IF e.key \in Printable THEN Append(w, e.key) ELSE w)
  <2> DEFINE v == IF e.key \in Printable THEN Append(w, e.key) ELSE w
  <2>1. CASE n > 0
    <3>1. t[n] = e /\ ~StartsEntry(t[n])
      BY <1>1, <1>5, <2>1 DEF StartsEntry
    <3>2. Window(s, Len(s) + 1, t, n, d, {})
      BY <1>1, <2>1
    <3>3. /\ Begun(t, n) \/ Full(t)
          /\ Begun(t, n) => Ranked(t, n, w)
      BY <1>1, <1>2, <1>5, <3>2, EntryMoves DEF Entry
    <3>4. Begun(t, n + 1) <=> Begun(t, n)
      BY <1>2, <2>1, <3>1, NextPlace
    <3>5. ASSUME Ranked(t, n, w)
          PROVE  Ranked(t, n + 1, v)
      <4>1. CASE e.key \in Printable
        BY <1>2, <1>5, <2>1, <3>1, <3>5, <4>1, TypedKey
      <4>2. CASE e.key \notin Printable
        <5>1. TypedBefore(t, n + 1) = TypedBefore(t, n)
          BY <1>2, <2>1, <3>1, <4>2, NextPlace
        <5> QED
          BY <3>5, <4>2, <5>1 DEF Ranked, Spells
      <4> QED
        BY <4>1, <4>2
    <3> HIDE DEF v
    <3>6. Entry(t, v)
      BY <3>3, <3>4, <3>5 DEF Entry
    <3> QED
      BY <3>6 DEF v
  <2> QED
    BY <1>2, <1>3, <2>1
<1> QED
  BY <1>4, <1>5

LEMMA CountPushed ==
    ASSUME NEW s, NEW t, NEW e, PushedOnto(s, t, e), NEW m, Count(s, m)
    PROVE  Count(t, IF e.kind = "PasteReceived" /\ ~e.correct THEN m + 1
                    ELSE m)
<1> SUFFICES ASSUME ~Full(t)
             PROVE  Cardinality(WrongPastes(t)) =
                      IF e.kind = "PasteReceived" /\ ~e.correct THEN m + 1
                      ELSE m
  BY DEF Count
<1> DEFINE n == Len(s) + 1
<1>1. Len(s) \in Nat /\ Len(t) = n /\ ~Full(s)
  <2>1. /\ Len(s) \in Nat /\ Len(t) \in Nat
        /\ Len(t) < RingCap => Len(t) = Len(s) + 1
    BY DEF PushedOnto
  <2> QED
    BY <2>1, SurfaceAssumption DEF Full
<1>2. \A i \in 1..Len(t) : t[i] = IF i = Len(t) THEN e
                                  ELSE s[i + (Len(s) + 1 - Len(t))]
  BY DEF PushedOnto
<1>3. \A i \in 1..n : /\ i + (n - n) = i
                      /\ i # n <=> i \in 1..Len(s)
  BY <1>1
<1>4. /\ t[n] = e /\ \A i \in 1..Len(s) : t[i] = s[i]
      /\ \A i : i \in 1..n <=> i \in 1..Len(s) \/ i = n
  BY <1>1, <1>2, <1>3
<1>5. WrongPastes(t) = IF e.kind = "PasteReceived" /\ ~e.correct
                       THEN WrongPastes(s) \cup {n} ELSE WrongPastes(s)
  BY <1>1, <1>4 DEF WrongPastes
<1>6. IsFiniteSet(WrongPastes(s)) /\ n \notin WrongPastes(s)
  <2>1. WrongPastes(s) \in SUBSET (1..Len(s))
    BY DEF WrongPastes
  <2>2. IsFiniteSet(1..Len(s)) /\ n \notin 1..Len(s)
    BY <1>1, FS_Interval
  <2> QED
    BY <2>1, <2>2, FS_Subset
<1>7. m = Cardinality(WrongPastes(s))
  BY <1>1 DEF Count
<1> HIDE DEF n
<1> QED
  BY <1>5, <1>6, <1>7, FS_AddElement

\* A key, a decision or a verdict, each with the marks behind it.
LEMMA RecordedPushes ==
    ASSUME NEW s, NEW t, NEW e, Recorded(s, t, e)
    PROVE  \E u : PushedOnto(s, u, e) /\ Later(u, t, Marks)
BY PushRing DEF Recorded

LEMMA KeyRecorded ==
    ASSUME NEW s, NEW t, NEW k, Recorded(s, t, Keypress(k)),
           VerdictsOK(s), NEW m, Count(s, m), NEW w \in Seq(Printable)
    PROVE  /\ VerdictsOK(t) /\ Count(t, m)
           /\ Entry(s, w) =>
                Entry(t, IF k \in Printable THEN Append(w, k) ELSE w)
<1> DEFINE e == Keypress(k)
<1>1. e.kind = "Keypress" /\ e.key = k
  BY DEF Keypress
<1> HIDE DEF e
<1>2. PICK u : PushedOnto(s, u, e) /\ Later(u, t, Marks)
  BY RecordedPushes DEF e
<1>3. VerdictsOK(u)
  BY <1>1, <1>2, VerdictsPushed
<1>4. Count(u, m)
  BY <1>1, <1>2, CountPushed
<1>5. Entry(s, w) => Entry(u, IF k \in Printable THEN Append(w, k) ELSE w)
  BY <1>1, <1>2, EntryPushed
<1> QED
  BY <1>2, <1>3, <1>4, <1>5, PastesKept

LEMMA DecisionRecorded ==
    ASSUME NEW s, NEW t, NEW choice, NEW n,
           Recorded(s, t, BootloaderDecision(choice, n)),
           VerdictsOK(s), NEW m, Count(s, m)
    PROVE  /\ VerdictsOK(t) /\ Count(t, m)
           /\ choice = "ignore" => Entry(t, <<>>)
<1> DEFINE e == BootloaderDecision(choice, n)
<1>1. e.kind = "BootloaderDecision" /\ e.choice = choice
  BY DEF BootloaderDecision
<1> HIDE DEF e
<1>2. PICK u : PushedOnto(s, u, e) /\ Later(u, t, Marks)
  BY RecordedPushes DEF e
<1>3. VerdictsOK(u)
  BY <1>1, <1>2, VerdictsPushed, Params
<1>4. Count(u, m)
  BY <1>1, <1>2, CountPushed
<1>5. choice = "ignore" => Entry(u, <<>>)
  BY <1>1, <1>2, EntryPushed DEF StartsEntry
<1> QED
  BY <1>2, <1>3, <1>4, <1>5, PastesKept

LEMMA VerdictRecorded ==
    ASSUME NEW s, NEW t, NEW w \in Seq(Printable), NEW ok \in BOOLEAN,
           Recorded(s, t, PasteReceived(Len(w), ok)),
           ok <=> w = PasteTarget, Entry(s, w),
           VerdictsOK(s), NEW m, Count(s, m)
    PROVE  /\ VerdictsOK(t) /\ Entry(t, <<>>)
           /\ Count(t, IF ok THEN m ELSE m + 1)
<1> DEFINE e == PasteReceived(Len(w), ok)
<1>1. e.kind = "PasteReceived" /\ e.len = Len(w)
  BY DEF PasteReceived
<1>a. e.correct <=> ok
  BY DEF PasteReceived
<1> HIDE DEF e
<1>2. PICK u : PushedOnto(s, u, e) /\ Later(u, t, Marks)
  BY RecordedPushes DEF e
<1>3. VerdictsOK(u)
  BY <1>1, <1>a, <1>2, VerdictsPushed
<1>4. Count(u, IF ok THEN m ELSE m + 1)
  BY <1>1, <1>a, <1>2, CountPushed
<1>5. Entry(u, <<>>)
  BY <1>1, <1>2, EntryPushed DEF StartsEntry
<1> QED
  BY <1>2, <1>3, <1>4, <1>5, PastesKept

-----------------------------------------------------------------------------
(* The paste prompt and the ledger *)

\* The row of the paste with w typed on it, and the row below it.
InputLine(w) == [Line("input") EXCEPT !.echo = w]
WrongLine(m) == IF m = 0 THEN Blank ELSE Numbered("wrong", m)

PasteRows(o, w, m) ==
    /\ input_row \in Row => Rows(o)[input_row] = InputLine(w)
    /\ wrong_indicator_row \in Row =>
         Rows(o)[wrong_indicator_row] = WrongLine(m)

\* The ring, the buffer, the count and the rows of the paste agree.
PasteInv ==
    /\ VerdictsOK(out.ring)
    /\ pc \in Menu \cup {"paste"} => Count(out.ring, wrong_paste_count)
    /\ pc = "paste" => /\ Entry(out.ring, buf)
                       /\ PasteRows(out, buf, wrong_paste_count)

LEMMA InputLines ==
    /\ Line("input") = InputLine(<<>>)
    /\ \A w, k : [InputLine(w) EXCEPT !.echo = Append(@, k)] =
                   InputLine(Append(w, k))
<1>1. \A w : InputLine(w) = [text |-> "input", n |-> 0, echo |-> w]
  BY DEF InputLine, Line
<1>2. \A w, v : [InputLine(w) EXCEPT !.echo = v] = InputLine(v)
  BY DEF InputLine, Line
<1>3. \A w : InputLine(w).echo = w
  BY <1>1
<1>4. Line("input") = InputLine(<<>>)
  BY <1>1 DEF Line
<1> QED
  BY <1>2, <1>3, <1>4, Zenon

LEMMA InitPaste == Init => PasteInv
<1> SUFFICES ASSUME Init
             PROVE  PasteInv
  OBVIOUS
<1> DEFINE T == Transcript
<1>1. /\ pc = "b64_pause" /\ wrong_paste_count = 0
      /\ out = RenderLine(T, start_row, Line("b64_offline"))
  BY DEF Init, EnterBootloader, Entered
<1>2. IsOutput(T)
  BY TranscriptOutput
<1>3. T.ring = <<>>
  BY DEF Transcript, Refresh
<1> HIDE DEF T
<1>4. Len(T.ring) = 0
  BY <1>3, EmptyBuffer, Zenon
<1>5. Later(T.ring, out.ring, Marks)
  BY <1>1, <1>2, FrameRender, SceneRows DEF Handled, Framed
<1>6. VerdictsOK(T.ring)
  BY <1>4 DEF VerdictsOK
<1>7. Count(T.ring, 0)
  <2>1. WrongPastes(T.ring) = {}
    BY <1>4 DEF WrongPastes
  <2> QED
    BY <2>1, FS_EmptySet DEF Count
<1> QED
  BY <1>1, <1>5, <1>6, <1>7, PastesKept DEF PasteInv

\* Each verdict is about the buffer, which then is empty again.
LEMMA VerdictPaste ==
    ASSUME Inv, ScreenInv, pc = "paste",
           NEW o, IsOutput(o), CleanRows(o),
           \A r \in SceneRow : r > highest_row => Rows(o)[r] = Blank,
           VerdictsOK(o.ring), Count(o.ring, wrong_paste_count),
           NEW w \in Seq(Printable), Entry(o.ring, w),
           \/ Accept(o, Len(w)) /\ w = PasteTarget
           \/ Reject(o, Len(w)) /\ w # PasteTarget
    PROVE  PasteInv'
<1>0. IInv /\ highest_row \in Int /\ highest_row >= input_row
  BY Now DEF Inv, ScreenInv, HighestInv
<1>1. CASE Accept(o, Len(w)) /\ w = PasteTarget
  <2>1. Recorded(o.ring, out'.ring, PasteReceived(Len(w), TRUE))
    BY <1>0, <1>1, JudgedRing
  <2>2. VerdictsOK(out'.ring)
    BY <1>1, <2>1, VerdictRecorded
  <2>3. pc' = "booting"
    BY <1>1 DEF Accept
  <2> QED
    BY <2>2, <2>3 DEF PasteInv, Menu
<1>2. CASE Reject(o, Len(w)) /\ w # PasteTarget
  <2>1. Recorded(o.ring, out'.ring, PasteReceived(Len(w), FALSE))
    BY <1>0, <1>2, JudgedRing
  <2>2. /\ VerdictsOK(out'.ring) /\ Entry(out'.ring, <<>>)
        /\ Count(out'.ring, wrong_paste_count + 1)
    BY <1>2, <2>1, VerdictRecorded
  <2>3. CASE pc' = "countdown"
    BY <2>2, <2>3 DEF PasteInv, Menu
  <2>4. CASE pc' # "countdown"
    <3> DEFINE p == Refresh(Push(o, PasteReceived(Len(w), FALSE)))
               m == wrong_paste_count'
    <3>1. /\ out' = Reprompted(p, m) /\ m = wrong_paste_count + 1
          /\ buf' = <<>>
      BY <1>2, <2>4 DEF Reject, StartTimeout, FreshBuffer
    <3>2. CleanRows(p) /\ Rows(p) = Rows(o)
      <4>1. /\ CleanRows(Push(o, PasteReceived(Len(w), FALSE)))
            /\ Rows(Push(o, PasteReceived(Len(w), FALSE))) = Rows(o)
        BY KeepClean
      <4> QED
        BY <4>1, KeepClean
    <3> HIDE DEF p
    <3>3. /\ input_row \in Row => Rows(out')[input_row] = Line("input")
          /\ wrong_indicator_row \in Row =>
               Rows(out')[wrong_indicator_row] = Numbered("wrong", m)
      BY <1>0, <3>1, <3>2, RepromptRows
    <3>4. m # 0
      BY <1>0, <3>1 DEF IInv, BootTypeOK
    <3> HIDE DEF m
    <3>5. PasteRows(out', <<>>, m)
      BY <3>3, <3>4, InputLines DEF PasteRows, WrongLine
    <3>6. PasteRows(out', buf', m) /\ Entry(out'.ring, buf')
      BY <2>2, <3>1, <3>5, Zenon
    <3> QED
      BY <2>2, <3>1, <3>6 DEF PasteInv, m
  <2> QED
    BY <2>3, <2>4
<1> QED
  BY <1>1, <1>2

LEMMA IgnorePaste ==
    ASSUME SceneInv, PasteInv, ChooseIgnore
    PROVE  PasteInv'
<1>0. /\ IInv /\ ScreenInv /\ IsOutput(out)
      /\ pc = "prompt" /\ wrong_paste_count = 0
      /\ VerdictsOK(out.ring) /\ Count(out.ring, 0)
  BY DEF SceneInv, FrameInv, Inv, IInv, EntryInv, PasteInv, ChooseIgnore, Menu
<1> DEFINE o == Decided("i", "ignore")
<1>1. /\ out' = WithBlob(o) /\ pc' = "paste"
      /\ buf' = <<>> /\ wrong_paste_count' = 0
  BY <1>0 DEF ChooseIgnore, FreshBuffer
<1>2. VerdictsOK(out'.ring) /\ Count(out'.ring, 0) /\ Entry(out'.ring, <<>>)
  <2>1. VerdictsOK(Pressed("i").ring) /\ Count(Pressed("i").ring, 0)
    BY <1>0, PressedRing, KeyRecorded, EmptyBuffer
  <2>2. Recorded(Pressed("i").ring, out'.ring,
                 BootloaderDecision("ignore", prompt_attempt))
    BY <1>0, DecidedRing
  <2> QED
    BY <2>1, <2>2, DecisionRecorded
<1>3. CleanRows(o) /\ Rows(o) = Rows(out)
  <2>1. CleanRows(Pressed("i")) /\ Rows(Pressed("i")) = Rows(out)
    BY <1>0, PressedRows
  <2> QED
    BY <2>1, KeepClean DEF Decided
<1> HIDE DEF o
<1>4. /\ input_row \in Row => Rows(out')[input_row] = Line("input")
      /\ \A r \in SceneRow : r > input_row => Rows(out')[r] = Blank
  <2>1. /\ highest_row \in {prompt_row, nudge_row}
        /\ nudge_row \in Row => Rows(out)[nudge_row] =
             IF nudge_rendered THEN Line("nudge") ELSE Blank
    BY <1>0 DEF ScreenInv, HighestInv, NudgeInv, Menu
  <2>2. /\ nudge_row \in Row /\ ~nudge_rendered => Rows(o)[nudge_row] = Blank
        /\ \A r \in SceneRow : r > nudge_row => Rows(o)[r] = Blank
    BY <1>0, <1>3, <2>1, Now, Apart, RowIsInt
  <2> QED
    BY <1>0, <1>1, <1>3, <2>2, Now, BlobRows
<1>5. wrong_indicator_row \in Row =>
        Rows(out')[wrong_indicator_row] = Blank
  BY <1>4, Apart
<1>6. PasteRows(out', <<>>, 0)
  BY <1>4, <1>5, InputLines DEF PasteRows, WrongLine
<1>7. PasteRows(out', buf', 0) /\ Entry(out'.ring, buf')
  BY <1>1, <1>2, <1>6, Zenon
<1> QED
  BY <1>1, <1>2, <1>7 DEF PasteInv

LEMMA EchoPaste ==
    ASSUME SceneInv, PasteInv, NEW k \in Key, PasteEcho(k)
    PROVE  PasteInv'
<1>0. /\ Inv /\ IInv /\ ScreenInv /\ IsOutput(out) /\ pc = "paste"
      /\ VerdictsOK(out.ring) /\ Count(out.ring, wrong_paste_count)
      /\ PasteRows(out, buf, wrong_paste_count)
      /\ k \in Printable /\ buf \in Seq(Printable)
  BY DEF SceneInv, FrameInv, Inv, IInv, BootTypeOK, PasteInv, PasteEcho
<1> DEFINE w == Append(buf, k)
<1>1. w \in Seq(Printable) /\ Len(w) = Len(buf) + 1 /\ Len(buf) \in Nat
  BY <1>0, AppendProperties
<1>2. /\ VerdictsOK(Echoed(k).ring)
      /\ Count(Echoed(k).ring, wrong_paste_count)
      /\ Entry(Echoed(k).ring, w)
  <2>1. Recorded(out.ring, Echoed(k).ring, Keypress(k)) /\ Entry(out.ring, buf)
    BY <1>0, EchoedRing DEF PasteInv
  <2> QED
    BY <1>0, <2>1, KeyRecorded
<1>3. /\ CleanRows(Echoed(k)) /\ IsOutput(Echoed(k))
      /\ \A r \in Row : r # input_row => Rows(Echoed(k))[r] = Rows(out)[r]
      /\ input_row \in Row => Rows(Echoed(k))[input_row] =
           [Rows(out)[input_row] EXCEPT !.echo = Append(@, k)]
  BY <1>0, EchoedRows, EchoedRing
<1>4. CASE Len(buf) + 1 < PasteBufferLen
  <2>1. /\ out' = Echoed(k) /\ buf' = w /\ pc' = "paste"
        /\ wrong_paste_count' = wrong_paste_count
    BY <1>0, <1>1, <1>4, Params DEF PasteEcho, counters
  <2>2. input_row \in Row => Rows(out')[input_row] = InputLine(w)
    <3>1. input_row \in Row =>
            /\ Rows(out)[input_row] = InputLine(buf)
            /\ Rows(out')[input_row] =
                 [Rows(out)[input_row] EXCEPT !.echo = Append(@, k)]
      BY <1>0, <1>3, <2>1 DEF PasteRows
    <3>2. [InputLine(buf) EXCEPT !.echo = Append(@, k)] =
            InputLine(Append(buf, k))
      BY InputLines
    <3> QED
      BY <3>1, <3>2, Zenon
  <2>3. PasteRows(out', w, wrong_paste_count)
    BY <1>0, <1>3, <2>1, <2>2, Apart DEF PasteRows
  <2> HIDE DEF w
  <2> QED
    BY <1>2, <2>1, <2>3 DEF PasteInv
<1>5. CASE ~(Len(buf) + 1 < PasteBufferLen)
  <2>1. Reject(Echoed(k), Len(w))
    BY <1>1, <1>5, Params DEF PasteEcho
  <2>2. w # PasteTarget
    BY <1>1, <1>5, Params
  <2>3. \A r \in SceneRow : r > highest_row => Rows(Echoed(k))[r] = Blank
    <3>1. highest_row >= input_row
      BY <1>0 DEF ScreenInv, HighestInv
    <3>2. \A r \in SceneRow : r > highest_row =>
            r \in Row /\ r # input_row /\ Rows(out)[r] = Blank
      BY <1>0, <3>1, Now, Apart
    <3> QED
      BY <1>3, <3>2
  <2> HIDE DEF w
  <2> QED
    BY <1>0, <1>1, <1>2, <1>3, <2>1, <2>2, <2>3, VerdictPaste
<1> QED
  BY <1>4, <1>5

LEMMA EnterPaste ==
    ASSUME SceneInv, PasteInv, PasteEnter
    PROVE  PasteInv'
<1>0. /\ Inv /\ IInv /\ ScreenInv /\ IsOutput(out) /\ pc = "paste"
      /\ VerdictsOK(out.ring) /\ Count(out.ring, wrong_paste_count)
      /\ Entry(out.ring, buf) /\ buf \in Seq(Printable)
      /\ "enter" \notin Printable
  BY BootloaderAssumption
     DEF SceneInv, FrameInv, Inv, IInv, BootTypeOK, PasteInv, PasteEnter
<1> DEFINE o == Pressed("enter")
<1>1. /\ VerdictsOK(o.ring) /\ Count(o.ring, wrong_paste_count)
      /\ Entry(o.ring, buf) /\ IsOutput(o)
  <2>1. Recorded(out.ring, o.ring, Keypress("enter")) /\ IsOutput(o)
    BY <1>0, PressedRing
  <2> HIDE DEF o
  <2> QED
    BY <1>0, <2>1, KeyRecorded
<1>2. /\ CleanRows(o)
      /\ \A r \in SceneRow : r > highest_row => Rows(o)[r] = Blank
  BY <1>0, PressedRows, Now
<1>3. \/ Accept(o, Len(buf)) /\ buf = PasteTarget
      \/ Reject(o, Len(buf)) /\ buf # PasteTarget
  BY DEF PasteEnter
<1> HIDE DEF o
<1> QED
  BY <1>0, <1>1, <1>2, <1>3, VerdictPaste

LEMMA StepPaste == SceneInv /\ PasteInv /\ [Next]_vars => PasteInv'
<1> SUFFICES ASSUME SceneInv, PasteInv, [Next]_vars
             PROVE  PasteInv'
  OBVIOUS
<1>0. /\ IInv /\ ScreenInv /\ IsOutput(out) /\ buf \in Seq(Printable)
      /\ VerdictsOK(out.ring)
      /\ pc \in Menu \cup {"paste"} => Count(out.ring, wrong_paste_count)
  BY DEF SceneInv, FrameInv, Inv, IInv, BootTypeOK, PasteInv
<1>1. CASE UNCHANGED vars \/ PromptIdlePoll \/ PasteIdlePoll
  BY <1>1
     DEF PasteInv, vars, counters, loops, PromptIdlePoll, PasteIdlePoll
<1>2. CASE Quiet
  <2>1. CASE PasteIdlePoll
    BY <1>1, <2>1
  <2>2. CASE ~PasteIdlePoll
    <3>1. /\ pc' # "paste"
          /\ pc' \in Menu =>
               pc \in Menu /\ wrong_paste_count' = wrong_paste_count
      BY <1>2, <2>2
         DEF Quiet, SecondTelemetryLine, FirstPrompt, RetryDot, LastRetryDot,
             PasteSilence, StartTimeout, CountdownTick, CountdownEnd, Halt,
             Continue, Menu, counters
    <3>2. Later(out.ring, out'.ring, Marks)
      BY <1>0, <1>2, QuietRing
    <3> QED
      BY <1>0, <3>1, <3>2, PastesKept DEF PasteInv
  <2> QED
    BY <2>1, <2>2
<1>3. ASSUME NEW k, pc \in {"prompt", "paste"}
      PROVE  /\ VerdictsOK(Pressed(k).ring)
             /\ Count(Pressed(k).ring, wrong_paste_count)
             /\ Rows(Pressed(k)) = Rows(out)
             /\ Entry(out.ring, buf) /\ k \notin Printable =>
                  Entry(Pressed(k).ring, buf)
  <2>1. Count(out.ring, wrong_paste_count)
    BY <1>0, <1>3 DEF Menu
  <2>2. Recorded(out.ring, Pressed(k).ring, Keypress(k))
    BY <1>0, PressedRing
  <2> QED
    BY <1>0, <2>1, <2>2, KeyRecorded, PressedRows
<1>4. CASE ChooseRetry \/ ChooseAbort
  <2>1. /\ pc = "prompt" /\ pc' # "paste"
        /\ wrong_paste_count' = wrong_paste_count
    BY <1>4 DEF ChooseRetry, ChooseAbort, counters
  <2>2. \E k, choice : Recorded(Pressed(k).ring, out'.ring,
                                BootloaderDecision(choice, prompt_attempt))
    BY <1>0, <1>4, DecidedRing
  <2>3. VerdictsOK(out'.ring) /\ Count(out'.ring, wrong_paste_count)
    BY <1>3, <2>1, <2>2, DecisionRecorded
  <2> QED
    BY <2>1, <2>3 DEF PasteInv
<1>5. ASSUME NEW k \in Key, PromptOtherKey(k)
      PROVE  PasteInv'
  <2>1. /\ pc = "prompt" /\ pc' = "prompt" /\ out' = Pressed(k)
        /\ wrong_paste_count' = wrong_paste_count
    BY <1>5 DEF PromptOtherKey, counters
  <2> QED
    BY <1>3, <2>1 DEF PasteInv
<1>6. ASSUME NEW k \in Key, PasteOtherKey(k)
      PROVE  PasteInv'
  <2>1. /\ pc = "paste" /\ pc' = "paste" /\ out' = Pressed(k)
        /\ k \notin Printable /\ buf' = buf
        /\ wrong_paste_count' = wrong_paste_count
    BY <1>6 DEF PasteOtherKey, counters
  <2> QED
    BY <1>3, <2>1 DEF PasteInv, PasteRows
<1>7. CASE Keystroke
  BY <1>4, <1>5, <1>6, <1>7, IgnorePaste, EchoPaste, EnterPaste DEF Keystroke
<1> QED
  BY <1>1, <1>2, <1>7 DEF Next, Stopped, BootloaderStep

\* Whatever is typed, corrected by nothing and cut short by retries, limits
\* and a full buffer, and however much of it the ring has forgotten: each
\* verdict on record is about exactly the keys recorded for it, the paste
\* row shows the keys of the entry that goes on, and the count beside it the
\* wrong ones so far.
THEOREM PasteLedgerKept == Spec => []PasteLedger
<1>1. ASSUME SceneInv, PasteInv
      PROVE  PasteLedger
  <2>1. \A j \in 1..Len(out.ring) : out.ring[j].kind = "PasteReceived" =>
          VerdictOK(out.ring, j)
    BY <1>1 DEF PasteInv, VerdictsOK
  <2>2. ASSUME pc = "paste"
        PROVE  /\ Begun(out.ring, Len(out.ring) + 1) \/ Full(out.ring)
               /\ Begun(out.ring, Len(out.ring) + 1) =>
                    Spells(out.ring, Len(out.ring) + 1, buf)
               /\ ~Full(out.ring) =>
                    wrong_paste_count = Cardinality(WrongPastes(out.ring))
               /\ PasteRows(out, buf, wrong_paste_count)
    BY <1>1, <2>2 DEF PasteInv, Entry, Ranked, Count, Menu
  <2>3. InputLine(buf).echo = buf
    BY DEF InputLine, Line
  <2> QED
    BY <2>1, <2>2, <2>3 DEF PasteLedger, PasteRows, WrongLine, InputLine, Rows
<1> QED
  BY <1>1, SceneInvariant, InitScene, StepScene, InitPaste, StepPaste, PTL
     DEF Spec
=============================================================================
