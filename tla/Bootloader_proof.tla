--------------------------- MODULE Bootloader_proof ---------------------------
(***************************************************************************)
(* What the bootloader's actions do to its variables, to the rows of text  *)
(* and to the digest, for every target, buffer length, limit and number of *)
(* keys, every start_row and every number of rows on screen, those below   *)
(* the edge of the screen included.  Nothing here depends on how the       *)
(* bootloader is entered, so the proofs about the bootloader alone and     *)
(* those about the whole run both build on it.                             *)
(***************************************************************************)
EXTENDS Bootloader, Surface_proof

Menu == {"b64_pause", "nist_pause", "prompt", "retrying"}

\* Before the paste prompt nothing has been typed and nothing was wrong; as
\* long as the scene waits for a paste the limit has not been reached.
EntryInv ==
    /\ pc # "paste" => buf = <<>>
    /\ pc \in Menu => wrong_paste_count = 0
    /\ pc \in {"paste", "booting", "booted"} =>
         wrong_paste_count < WrongPasteLimit

\* Each prompt but the first was paid for with a key.
AttemptInv ==
    /\ pc \in {"b64_pause", "nist_pause"} => prompt_attempt = 0
    /\ pc # "retrying" => prompt_attempt <= keys + 1
    /\ pc = "retrying" => prompt_attempt <= keys

IInv == BootTypeOK /\ EntryInv /\ AttemptInv

-----------------------------------------------------------------------------
(* The inductive invariant *)

\* The assumptions one by one.
LEMMA Params ==
    /\ RetryDotCount \in Nat /\ RetryDotCount >= 1
    /\ SilentPolls \in Nat /\ SilentPolls >= 1
    /\ CountdownS \in Nat /\ CountdownS >= 1
    /\ WrongPasteLimit \in Nat /\ WrongPasteLimit >= 1
    /\ RetryNudgeAfter \in Nat /\ RetryNudgeAfter >= 1
    /\ start_row \in Nat /\ MaxKeys \in Nat
    /\ PasteBufferLen \in Nat /\ PasteBufferLen >= 1
    /\ PasteTarget \in Seq(Printable) /\ Len(PasteTarget) < PasteBufferLen
<1>1. Len(PasteTarget) \in Nat
  BY BootloaderAssumption
<1> QED
  BY <1>1, BootloaderAssumption

LEMMA SceneRows ==
    /\ start_row \in start_row..wrong_indicator_row
    /\ start_row + 1 \in start_row..wrong_indicator_row
    /\ prompt_row \in start_row..wrong_indicator_row
    /\ nudge_row \in start_row..wrong_indicator_row
    /\ intro_row \in start_row..wrong_indicator_row
    /\ blob_row \in start_row..wrong_indicator_row
    /\ input_row \in start_row..wrong_indicator_row
    /\ wrong_indicator_row \in start_row..wrong_indicator_row
BY Params
   DEF prompt_row, nudge_row, intro_row, blob_row, input_row,
       wrong_indicator_row

\* highest_row is only ever raised, to rows of the scene.
LEMMA NoteRow ==
    ASSUME NEW high \in start_row..wrong_indicator_row,
           NEW row \in start_row..wrong_indicator_row
    PROVE  note_row(high, row) \in start_row..wrong_indicator_row
BY DEF note_row

LEMMA EmptyBuffer == <<>> \in Seq(Printable) /\ Len(<<>>) = 0
BY EmptySeq

LEMMA QuietIInv ==
    ASSUME IInv, Quiet
    PROVE  IInv'
<1> USE Params
    DEF IInv, BootTypeOK, EntryInv, AttemptInv, Menu, counters, loops
<1>1. CASE SecondTelemetryLine
  <2>1. highest_row' \in start_row..wrong_indicator_row
    BY <1>1, NoteRow, SceneRows DEF SecondTelemetryLine
  <2> QED
    BY <1>1, <2>1 DEF SecondTelemetryLine
<1>2. CASE FirstPrompt
  <2>1. highest_row' \in start_row..wrong_indicator_row
    BY <1>2, NoteRow, SceneRows DEF FirstPrompt
  <2> QED
    BY <1>2, <2>1 DEF FirstPrompt
<1>3. CASE RetryDot
  BY <1>3 DEF RetryDot
<1>4. CASE LastRetryDot
  <2>1. highest_row' \in start_row..wrong_indicator_row
    BY <1>4, NoteRow, SceneRows DEF LastRetryDot
  <2>2. nudge_rendered' \in BOOLEAN
    BY <1>4 DEF LastRetryDot
  <2> QED
    BY <1>4, <2>1, <2>2 DEF LastRetryDot
<1>5. CASE PasteIdlePoll
  BY <1>5 DEF PasteIdlePoll
<1>6. CASE PasteSilence
  <2>1. buf' \in Seq(Printable) /\ Len(buf') = 0 /\ buf' = <<>>
    BY <1>6 DEF PasteSilence, StartTimeout, FreshBuffer
  <2> QED
    BY <1>6, <2>1 DEF PasteSilence, StartTimeout, FreshBuffer
<1>7. CASE CountdownTick
  BY <1>7 DEF CountdownTick
<1>8. CASE CountdownEnd
  BY <1>8 DEF CountdownEnd
<1>9. CASE Halt
  BY <1>9 DEF Halt
<1>10. CASE Continue
  BY <1>10 DEF Continue
<1> QED
  BY <1>1, <1>2, <1>3, <1>4, <1>5, <1>6, <1>7, <1>8, <1>9, <1>10 DEF Quiet

\* A verdict leaves an empty buffer, whichever way it falls.
LEMMA VerdictIInv ==
    ASSUME IInv, pc = "paste", keys < MaxKeys, keys' = keys + 1,
           NEW o, NEW length, Accept(o, length) \/ Reject(o, length)
    PROVE  IInv'
<1> USE Params DEF IInv, BootTypeOK, EntryInv, AttemptInv, Menu, counters
<1>1. buf' = <<>> /\ idle' = 0
  BY DEF Accept, Reject, StartTimeout, FreshBuffer
<1>2. buf' \in Seq(Printable) /\ Len(buf') = 0
  BY <1>1, EmptyBuffer, Zenon
<1>3. CASE Accept(o, length)
  BY <1>1, <1>2, <1>3 DEF Accept
<1>4. CASE Reject(o, length)
  <2>1. CASE struck_out(wrong_paste_count')
    <3>1. UNCHANGED <<highest_row, prompt_attempt, nudge_rendered, dots>>
      BY <1>4, <2>1 DEF Reject
    <3>2. /\ pc' = "countdown" /\ secs' = CountdownS
          /\ wrong_paste_count' = wrong_paste_count + 1
      BY <1>4, <2>1 DEF Reject, StartTimeout
    <3> QED
      BY <1>1, <1>2, <3>1, <3>2
  <2>2. CASE ~struck_out(wrong_paste_count')
    <3>1. UNCHANGED <<prompt_attempt, nudge_rendered, dots, secs>>
      BY <1>4, <2>2 DEF Reject
    <3>2. /\ pc' = "paste"
          /\ wrong_paste_count' = wrong_paste_count + 1
          /\ highest_row' = note_row(highest_row, wrong_indicator_row)
      BY <1>4, <2>2 DEF Reject
    <3>3. wrong_paste_count' < WrongPasteLimit
      BY <2>2, <3>2 DEF struck_out
    <3>4. highest_row' \in start_row..wrong_indicator_row
      BY <3>2, NoteRow, SceneRows
    <3> QED
      BY <1>1, <1>2, <3>1, <3>2, <3>3, <3>4
  <2> QED
    BY <2>1, <2>2
<1> QED
  BY <1>3, <1>4

LEMMA KeystrokeIInv ==
    ASSUME IInv, Keystroke
    PROVE  IInv'
<1> USE Params
    DEF IInv, BootTypeOK, EntryInv, AttemptInv, Menu, counters, loops, PressKey
<1>1. CASE ChooseRetry
  BY <1>1 DEF ChooseRetry
<1>2. CASE ChooseIgnore
  <2>1. buf' \in Seq(Printable) /\ Len(buf') = 0 /\ idle' = 0
    <3>1. buf' = <<>> /\ idle' = 0
      BY <1>2 DEF ChooseIgnore, FreshBuffer
    <3> QED
      BY <3>1, EmptyBuffer, Zenon
  <2>2. highest_row' \in start_row..wrong_indicator_row
    BY <1>2, NoteRow, SceneRows DEF ChooseIgnore
  <2> QED
    BY <1>2, <2>1, <2>2 DEF ChooseIgnore
<1>3. CASE ChooseAbort
  BY <1>3 DEF ChooseAbort
<1>4. CASE PasteEnter
  <2>1. \/ Accept(Pressed("enter"), Len(buf))
        \/ Reject(Pressed("enter"), Len(buf))
    BY <1>4 DEF PasteEnter
  <2>2. pc = "paste" /\ keys < MaxKeys /\ keys' = keys + 1
    BY <1>4 DEF PasteEnter
  <2> HIDE DEF IInv
  <2> QED
    BY <2>1, <2>2, VerdictIInv
<1>5. ASSUME NEW k \in Key, PromptOtherKey(k)
      PROVE  IInv'
  BY <1>5 DEF PromptOtherKey
<1>6. ASSUME NEW k \in Key, PasteEcho(k)
      PROVE  IInv'
  <2>1. /\ pc = "paste" /\ keys < MaxKeys /\ keys' = keys + 1
        /\ k \in Printable
    BY <1>6 DEF PasteEcho
  <2>2. CASE Len(buf) + 1 < PasteBufferLen
    <3>1. /\ buf' = Append(buf, k) /\ idle' = 0
          /\ UNCHANGED <<pc, counters, dots, secs>>
      BY <1>6, <2>2 DEF PasteEcho
    <3>2. buf' \in Seq(Printable) /\ Len(buf') = Len(buf) + 1
      BY <2>1, <3>1
    <3> QED
      BY <2>1, <2>2, <3>1, <3>2
  <2>3. CASE ~(Len(buf) + 1 < PasteBufferLen)
    <3>1. Reject(Echoed(k), Len(buf) + 1)
      BY <1>6, <2>3 DEF PasteEcho
    <3> HIDE DEF IInv
    <3> QED
      BY <2>1, <3>1, VerdictIInv
  <2> QED
    BY <2>2, <2>3
<1>7. ASSUME NEW k \in Key, PasteOtherKey(k)
      PROVE  IInv'
  BY <1>7 DEF PasteOtherKey
<1> QED
  BY <1>1, <1>2, <1>3, <1>4, <1>5, <1>6, <1>7 DEF Keystroke

\* The stalls of the scene; two keys and the halt line lead out of it.
Pauses == {"b64_pause", "nist_pause", "prompt", "retrying", "paste",
           "booting", "booted", "countdown", "halted"}

LEMMA PauseSteps ==
    /\ Quiet => pc \in Pauses \ {"booted"} /\ pc' \in Pauses \cup {"off"}
    /\ Keystroke =>
         pc \in {"prompt", "paste"} /\ pc' \in Pauses \cup {"reset"}
<1> USE DEF Pauses
<1>1. ASSUME Quiet
      PROVE  pc \in Pauses \ {"booted"} /\ pc' \in Pauses \cup {"off"}
  BY <1>1
     DEF Quiet, SecondTelemetryLine, FirstPrompt, RetryDot, LastRetryDot,
         PasteIdlePoll, PasteSilence, StartTimeout, CountdownTick,
         CountdownEnd, Halt, Continue
<1>2. ASSUME Keystroke
      PROVE  pc \in {"prompt", "paste"} /\ pc' \in Pauses \cup {"reset"}
  <2>1. ASSUME NEW o, NEW length, Accept(o, length) \/ Reject(o, length)
        PROVE  pc' \in Pauses
    BY <2>1 DEF Accept, Reject, StartTimeout
  <2>2. CASE PasteEnter \/ \E k \in Key : PasteEcho(k)
    BY <2>1, <2>2 DEF PasteEnter, PasteEcho
  <2> QED
    BY <1>2, <2>2
       DEF Keystroke, ChooseRetry, ChooseIgnore, ChooseAbort, PromptOtherKey,
           PasteOtherKey
<1> QED
  BY <1>1, <1>2

-----------------------------------------------------------------------------
(* The invariant *)

\* The rows the scene draws on; those of them that are on the screen.
SceneRow == Row \cap start_row..wrong_indicator_row

LEMMA Apart ==
    /\ prompt_row = start_row + 2 /\ intro_row = start_row + 2
    /\ booting_row = start_row + 2 /\ countdown_row = start_row + 2
    /\ nudge_row = start_row + 3
    /\ blob_row = start_row + 4 /\ halt_row = start_row + 4
    /\ input_row = start_row + 6 /\ wrong_indicator_row = start_row + 7
    /\ start_row \in Nat
    /\ \A r \in SceneRow : /\ r \in Row /\ r \in Int
                           /\ r >= start_row /\ r <= wrong_indicator_row
    /\ \A r \in Row : r >= start_row /\ r <= start_row + 7 => r \in SceneRow
BY Params, RowIsInt
   DEF SceneRow, prompt_row, intro_row, booting_row, countdown_row, nudge_row,
       blob_row, halt_row, input_row, wrong_indicator_row

\* highest_row is where the scene has got to, and covers the nudge.
HighestInv ==
    /\ pc = "b64_pause" => highest_row = start_row
    /\ pc = "nist_pause" => highest_row = start_row + 1
    /\ pc \in {"prompt", "retrying"} => highest_row \in {prompt_row, nudge_row}
    /\ pc \in {"paste", "booting", "booted", "countdown", "halted", "off"} =>
         highest_row >= input_row
    /\ nudge_rendered => highest_row >= nudge_row

\* Below highest_row nothing has been drawn.
BelowInv == \A r \in SceneRow : r > highest_row => Rows(out)[r] = Blank

\* nudge_rendered says what is on the nudge row.
NudgeInv ==
    pc \in Menu /\ nudge_row \in Row =>
      Rows(out)[nudge_row] = IF nudge_rendered THEN Line("nudge") ELSE Blank

\* Every row holds a line, and no line is a mixture of two.
CleanRows(o) ==
    /\ HasScreen(o)
    /\ \A r \in Row : "text" \in DOMAIN Rows(o)[r]
                        /\ Rows(o)[r].text # "garbled"

\* Nothing is left beside Booting..., the countdown and the halt line.
BareInv ==
    \A r \in SceneRow :
      /\ pc \in {"booting", "booted"} =>
           IF r = booting_row THEN Rows(out)[r].text = "booting"
           ELSE Rows(out)[r] = Blank
      /\ pc \in {"countdown", "halted", "off"} /\ r = countdown_row =>
           Rows(out)[r].text = "countdown"
      /\ pc \in {"halted", "off"} /\ r = halt_row =>
           Rows(out)[r].text = "halt"
      /\ \/ pc = "countdown" /\ r # countdown_row
         \/ pc \in {"halted", "off"} /\ r \notin {countdown_row, halt_row}
         => Rows(out)[r] = Blank

ScreenInv ==
    /\ CleanRows(out)
    /\ HighestInv /\ BelowInv /\ NudgeInv /\ BareInv

-----------------------------------------------------------------------------
(* The drawing operators keep the rows clean *)

LEMMA CleanLines ==
    ASSUME NEW text, text # "garbled", NEW k
    PROVE  /\ "text" \in DOMAIN Line(text) /\ Line(text).text # "garbled"
           /\ "text" \in DOMAIN Numbered(text, k)
           /\ Numbered(text, k).text # "garbled"
BY LineFields DEF Line, Numbered

\* A draw on a row that is blank, or shows the same line already.
LEMMA DrawClean ==
    ASSUME NEW o, CleanRows(o), NEW row, NEW line,
           "text" \in DOMAIN line, line.text # "garbled",
           row \in Row => Rows(o)[row] \in {Blank, line}
    PROVE  /\ CleanRows(DrawAt(o, row, line))
           /\ CleanRows(RenderLine(o, row, line))
           /\ \A r \in Row :
                /\ Rows(DrawAt(o, row, line))[r] =
                     IF r = row THEN line ELSE Rows(o)[r]
                /\ Rows(RenderLine(o, row, line))[r] =
                     IF r = row THEN line ELSE Rows(o)[r]
BY DrawAtRows, RenderLineRows DEF CleanRows

\* A digit or a character more does not change what text is on a row.
LEMMA AppendClean ==
    ASSUME NEW o, CleanRows(o), NEW row, NEW k
    PROVE  /\ CleanRows(DrawNumber(o, row, k))
           /\ CleanRows(DrawEcho(o, row, k))
           /\ \A r \in Row :
                /\ r # row => /\ Rows(DrawNumber(o, row, k))[r] = Rows(o)[r]
                              /\ Rows(DrawEcho(o, row, k))[r] = Rows(o)[r]
                /\ Rows(DrawNumber(o, row, k))[r].text = Rows(o)[r].text
                /\ Rows(DrawEcho(o, row, k))[r].text = Rows(o)[r].text
BY DrawNumberRows, DrawEchoRows DEF CleanRows

LEMMA ClearClean ==
    ASSUME NEW o, CleanRows(o), NEW row
    PROVE  /\ CleanRows(ClearRow(o, row))
           /\ \A r \in Row : Rows(ClearRow(o, row))[r] =
                               IF r = row THEN Blank ELSE Rows(o)[r]
<1>1. "text" \in DOMAIN Blank /\ Blank.text # "garbled"
  BY CleanLines DEF Blank
<1> QED
  BY <1>1, ClearRowRows DEF CleanRows

LEMMA KeepClean ==
    ASSUME NEW o, CleanRows(o), NEW e
    PROVE  /\ CleanRows(Push(o, e)) /\ Rows(Push(o, e)) = Rows(o)
           /\ CleanRows(Refresh(o)) /\ Rows(Refresh(o)) = Rows(o)
BY PushRows, RefreshRows DEF CleanRows

\* clear_row on start_row..=highest_row leaves the scene's rows blank.
LEMMA SceneCleared ==
    ASSUME NEW o, CleanRows(o),
           highest_row \in Int, start_row \in Int,
           \A r \in SceneRow : r > highest_row => Rows(o)[r] = Blank
    PROVE  /\ CleanRows(ClearRows(o, start_row, highest_row))
           /\ \A r \in SceneRow :
                Rows(ClearRows(o, start_row, highest_row))[r] = Blank
<1>1. "text" \in DOMAIN Blank /\ Blank.text # "garbled"
  BY CleanLines DEF Blank
<1> QED
  BY <1>1, ClearRowsRows, Apart DEF CleanRows

-----------------------------------------------------------------------------
(* What the scene's own drawing leaves on the rows *)

\* The nudge, over nothing or over itself.
LEMMA NudgeRows ==
    ASSUME NEW o, CleanRows(o),
           nudge_row \in Row => Rows(o)[nudge_row] \in {Blank, Line("nudge")}
    PROVE  /\ CleanRows(WithNudge(o))
           /\ \A r \in Row : Rows(WithNudge(o))[r] =
                IF r = nudge_row THEN Line("nudge") ELSE Rows(o)[r]
BY CleanLines, DrawClean DEF WithNudge

\* The prompt on a blank row, the nudge drawn (again) below it.
LEMMA PromptRows ==
    ASSUME NEW o, CleanRows(o), NEW attempt, NEW nudged \in BOOLEAN,
           prompt_row \in Row => Rows(o)[prompt_row] = Blank,
           nudge_row \in Row => Rows(o)[nudge_row] \in {Blank, Line("nudge")}
    PROVE  /\ CleanRows(WithPrompt(o, attempt, nudged))
           /\ \A r \in Row :
                Rows(WithPrompt(o, attempt, nudged))[r] =
                  IF nudged /\ r = nudge_row THEN Line("nudge")
                  ELSE IF r = prompt_row THEN PromptLine(attempt)
                  ELSE Rows(o)[r]
<1> DEFINE line == PromptLine(attempt)
           drawn == DrawAt(o, prompt_row, line)
           shown == Push(drawn, LineRendered(prompt_row))
<1>0. "text" \in DOMAIN line /\ line.text # "garbled"
  BY CleanLines DEF PromptLine
<1> HIDE DEF line
<1>1. /\ CleanRows(drawn)
      /\ \A r \in Row : Rows(drawn)[r] =
                          IF r = prompt_row THEN line ELSE Rows(o)[r]
  BY <1>0, DrawClean
<1> HIDE DEF drawn
<1>2. CleanRows(shown) /\ Rows(shown) = Rows(drawn)
  BY <1>1, KeepClean
<1> HIDE DEF shown
<1>3. CASE nudged
  <2>1. WithPrompt(o, attempt, nudged) = WithNudge(shown)
    BY <1>3 DEF WithPrompt, shown, drawn, line
  <2>2. nudge_row \in Row => Rows(shown)[nudge_row] \in {Blank, Line("nudge")}
    BY <1>1, <1>2, Apart
  <2>3. /\ CleanRows(WithNudge(shown))
        /\ \A r \in Row : Rows(WithNudge(shown))[r] =
             IF r = nudge_row THEN Line("nudge") ELSE Rows(shown)[r]
    BY <1>2, <2>2, NudgeRows
  <2> QED
    BY <1>1, <1>2, <1>3, <2>1, <2>3 DEF line
<1>4. CASE ~nudged
  <2>1. WithPrompt(o, attempt, nudged) = Refresh(shown)
    BY <1>4 DEF WithPrompt, shown, drawn, line
  <2> QED
    BY <1>1, <1>2, <1>4, <2>1, KeepClean DEF line
<1> QED
  BY <1>3, <1>4

\* The choice screen is gone, nudge and all.
LEMMA NoPromptRows ==
    ASSUME NEW o, CleanRows(o), nudge_rendered \in BOOLEAN,
           nudge_row \in Row /\ ~nudge_rendered => Rows(o)[nudge_row] = Blank
    PROVE  /\ CleanRows(WithoutPrompt(o))
           /\ \A r \in Row : Rows(WithoutPrompt(o))[r] =
                IF r \in {prompt_row, nudge_row} THEN Blank ELSE Rows(o)[r]
<1> DEFINE bare == ClearRow(o, prompt_row)
<1>1. /\ CleanRows(bare)
      /\ \A r \in Row : Rows(bare)[r] =
                          IF r = prompt_row THEN Blank ELSE Rows(o)[r]
  BY ClearClean
<1> HIDE DEF bare
<1>2. CASE nudge_rendered
  <2>1. WithoutPrompt(o) = ClearRow(bare, nudge_row)
    BY <1>2 DEF WithoutPrompt, bare
  <2> QED
    BY <1>1, <2>1, ClearClean
<1>3. CASE ~nudge_rendered
  <2>1. WithoutPrompt(o) = bare
    BY <1>3 DEF WithoutPrompt, bare
  <2> QED
    BY <1>1, <1>3, <2>1
<1> QED
  BY <1>2, <1>3

\* The blob page, when the rows below the choice screen are blank.
LEMMA BlobRows ==
    ASSUME NEW o, CleanRows(o), nudge_rendered \in BOOLEAN,
           nudge_row \in Row /\ ~nudge_rendered => Rows(o)[nudge_row] = Blank,
           \A r \in SceneRow : r > nudge_row => Rows(o)[r] = Blank
    PROVE  /\ CleanRows(WithBlob(o))
           /\ \A r \in SceneRow : r > input_row => Rows(WithBlob(o))[r] = Blank
           /\ input_row \in Row => Rows(WithBlob(o))[input_row] = Line("input")
<1> DEFINE o0 == WithoutPrompt(o)
           o1 == RenderLine(o0, intro_row, Line("intro"))
           o2 == RenderLine(o1, blob_row, Line("blob"))
           o3 == RenderLine(o2, input_row, Line("input"))
<1>a. /\ "text" \in DOMAIN Line("intro") /\ Line("intro").text # "garbled"
      /\ "text" \in DOMAIN Line("blob") /\ Line("blob").text # "garbled"
      /\ "text" \in DOMAIN Line("input") /\ Line("input").text # "garbled"
  BY CleanLines
<1>0. /\ CleanRows(o0)
      /\ \A r \in SceneRow : r >= prompt_row => Rows(o0)[r] = Blank
  <2>1. \A r \in SceneRow : r >= prompt_row =>
          r \in {prompt_row, nudge_row} \/ r > nudge_row
    BY Apart
  <2> QED
    BY <2>1, Apart, NoPromptRows
<1> HIDE DEF o0
<1>1. /\ CleanRows(o1)
      /\ \A r \in SceneRow : r > intro_row => Rows(o1)[r] = Blank
  <2>1. intro_row \in Row => Rows(o0)[intro_row] = Blank
    BY <1>0, Apart
  <2>2. /\ CleanRows(o1)
        /\ \A r \in Row : r # intro_row => Rows(o1)[r] = Rows(o0)[r]
    BY <1>0, <1>a, <2>1, DrawClean
  <2> HIDE DEF o1
  <2> QED
    BY <1>0, <2>2, Apart
<1> HIDE DEF o1
<1>2. /\ CleanRows(o2)
      /\ \A r \in SceneRow : r > blob_row => Rows(o2)[r] = Blank
  <2>1. blob_row \in Row => Rows(o1)[blob_row] = Blank
    BY <1>1, Apart
  <2>2. /\ CleanRows(o2)
        /\ \A r \in Row : r # blob_row => Rows(o2)[r] = Rows(o1)[r]
    BY <1>1, <1>a, <2>1, DrawClean
  <2> HIDE DEF o2
  <2> QED
    BY <1>1, <2>2, Apart
<1> HIDE DEF o2
<1>3. /\ CleanRows(o3)
      /\ \A r \in SceneRow : r > input_row => Rows(o3)[r] = Blank
      /\ input_row \in Row => Rows(o3)[input_row] = Line("input")
  <2>1. input_row \in Row => Rows(o2)[input_row] = Blank
    BY <1>2, Apart
  <2>2. /\ CleanRows(o3)
        /\ \A r \in Row : Rows(o3)[r] = IF r = input_row THEN Line("input")
                                        ELSE Rows(o2)[r]
    BY <1>2, <1>a, <2>1, DrawClean
  <2> HIDE DEF o3
  <2> QED
    BY <1>2, <2>2, Apart
<1> QED
  BY <1>3 DEF WithBlob, o0, o1, o2, o3

\* run_timeout and run_success clear what the scene has drawn first.
LEMMA LastRows ==
    ASSUME NEW o, CleanRows(o), highest_row \in Int,
           \A r \in SceneRow : r > highest_row => Rows(o)[r] = Blank
    PROVE  /\ CleanRows(Counting(o)) /\ CleanRows(Booting(o))
           /\ \A r \in SceneRow :
                /\ IF r = countdown_row
                   THEN Rows(Counting(o))[r].text = "countdown"
                   ELSE Rows(Counting(o))[r] = Blank
                /\ IF r = booting_row
                   THEN Rows(Booting(o))[r].text = "booting"
                   ELSE Rows(Booting(o))[r] = Blank
<1>1. /\ Line("countdown").text = "countdown"
      /\ Line("booting").text = "booting"
  BY LineFields
<1>2. ASSUME NEW p, CleanRows(p),
             \A r \in SceneRow : r > highest_row => Rows(p)[r] = Blank
      PROVE  /\ CleanRows(Refresh(ClearRows(p, start_row, highest_row)))
             /\ \A r \in SceneRow :
                  Rows(Refresh(ClearRows(p, start_row, highest_row)))[r]
                    = Blank
  <2> DEFINE c == ClearRows(p, start_row, highest_row)
  <2>1. CleanRows(c) /\ \A r \in SceneRow : Rows(c)[r] = Blank
    BY <1>2, Apart, SceneCleared
  <2> HIDE DEF c
  <2>2. CleanRows(Refresh(c)) /\ Rows(Refresh(c)) = Rows(c)
    BY <2>1, KeepClean
  <2> QED
    BY <2>1, <2>2 DEF c
<1>3. /\ CleanRows(Booting(o))
      /\ \A r \in SceneRow :
           IF r = booting_row THEN Rows(Booting(o))[r].text = "booting"
           ELSE Rows(Booting(o))[r] = Blank
  <2> DEFINE c == Refresh(ClearRows(o, start_row, highest_row))
  <2>1. CleanRows(c) /\ \A r \in SceneRow : Rows(c)[r] = Blank
    BY <1>2
  <2>2. Booting(o) = RenderLine(c, booting_row, Line("booting"))
    BY DEF Booting
  <2> HIDE DEF c
  <2> QED
    BY <1>1, <2>1, <2>2, Apart, CleanLines, DrawClean
<1>4. /\ CleanRows(Counting(o))
      /\ \A r \in SceneRow :
           IF r = countdown_row
           THEN Rows(Counting(o))[r].text = "countdown"
           ELSE Rows(Counting(o))[r] = Blank
  <2> DEFINE p == Push(o, BootloaderTimeout)
             c == Refresh(ClearRows(p, start_row, highest_row))
             d == DrawAt(c, countdown_row, Line("countdown"))
             t == Refresh(d)
             n == DrawNumber(t, countdown_row, CountdownS)
  <2>1. CleanRows(p) /\ Rows(p) = Rows(o)
    BY KeepClean
  <2>2. CleanRows(c) /\ \A r \in SceneRow : Rows(c)[r] = Blank
    BY <1>2, <2>1
  <2>3. Counting(o) = Refresh(n)
    BY DEF Counting
  <2> HIDE DEF c
  <2>4. /\ CleanRows(d)
        /\ \A r \in Row : Rows(d)[r] =
             IF r = countdown_row THEN Line("countdown") ELSE Rows(c)[r]
    BY <2>2, Apart, CleanLines, DrawClean
  <2> HIDE DEF d
  <2>5. CleanRows(t) /\ Rows(t) = Rows(d)
    BY <2>4, KeepClean
  <2> HIDE DEF t
  <2>6. /\ CleanRows(n)
        /\ \A r \in Row : /\ r # countdown_row => Rows(n)[r] = Rows(t)[r]
                          /\ Rows(n)[r].text = Rows(t)[r].text
    BY <2>5, AppendClean
  <2> HIDE DEF n
  <2>7. CleanRows(Counting(o)) /\ Rows(Counting(o)) = Rows(n)
    BY <2>3, <2>6, KeepClean
  <2> QED
    BY <1>1, <2>2, <2>4, <2>5, <2>6, <2>7, Apart
<1> QED
  BY <1>3, <1>4

\* The input prompt and the indicator go over rows cleared for them.
LEMMA RepromptRows ==
    ASSUME NEW o, CleanRows(o), NEW wrong,
           \A r \in SceneRow : r > highest_row => Rows(o)[r] = Blank,
           highest_row \in Int, highest_row >= input_row
    PROVE  /\ CleanRows(Reprompted(o, wrong))
           /\ \A r \in SceneRow :
                r > note_row(highest_row, wrong_indicator_row) =>
                  Rows(Reprompted(o, wrong))[r] = Blank
           /\ input_row \in Row =>
                Rows(Reprompted(o, wrong))[input_row] = Line("input")
           /\ wrong_indicator_row \in Row =>
                Rows(Reprompted(o, wrong))[wrong_indicator_row] =
                  Numbered("wrong", wrong)
<1> DEFINE c == ClearRow(o, input_row)
           d == DrawAt(c, input_row, Line("input"))
           asked == Push(d, LineRendered(input_row))
           w == ClearRow(asked, wrong_indicator_row)
           line == Numbered("wrong", wrong)
<1>1. /\ CleanRows(c)
      /\ \A r \in Row : Rows(c)[r] =
                          IF r = input_row THEN Blank ELSE Rows(o)[r]
  BY ClearClean
<1>2. Reprompted(o, wrong) = RenderLine(w, wrong_indicator_row, line)
  BY DEF Reprompted
<1>3. "text" \in DOMAIN line /\ line.text # "garbled"
  BY CleanLines
<1>a. "text" \in DOMAIN Line("input") /\ Line("input").text # "garbled"
  BY CleanLines
<1> HIDE DEF c, line
<1>4. /\ CleanRows(d)
      /\ \A r \in Row : Rows(d)[r] = IF r = input_row THEN Line("input")
                                     ELSE Rows(c)[r]
  BY <1>1, <1>a, DrawClean
<1> HIDE DEF d
<1>5. CleanRows(asked) /\ Rows(asked) = Rows(d)
  BY <1>4, KeepClean
<1> HIDE DEF asked
<1>6. /\ CleanRows(w)
      /\ \A r \in Row : Rows(w)[r] =
           IF r = wrong_indicator_row THEN Blank ELSE Rows(asked)[r]
  BY <1>5, ClearClean
<1> HIDE DEF w
<1>7. /\ CleanRows(Reprompted(o, wrong))
      /\ \A r \in Row : Rows(Reprompted(o, wrong))[r] =
           IF r = wrong_indicator_row THEN line ELSE Rows(w)[r]
  BY <1>2, <1>3, <1>6, DrawClean
<1>8. ASSUME NEW r \in SceneRow, r > note_row(highest_row, wrong_indicator_row)
      PROVE  r > highest_row /\ r # wrong_indicator_row /\ r # input_row
  BY <1>8, Apart, RowIsInt DEF note_row
<1>9. input_row # wrong_indicator_row
  BY Apart
<1> QED
  BY <1>1, <1>4, <1>5, <1>6, <1>7, <1>8, <1>9, Apart DEF line

-----------------------------------------------------------------------------
(* The steps keep the invariant of the rows *)

\* What the proofs below use of the present state.
LEMMA Now ==
    ASSUME IInv, ScreenInv
    PROVE  /\ CleanRows(out) /\ highest_row \in Int
           /\ nudge_rendered \in BOOLEAN
           /\ \A r \in SceneRow : r > highest_row => Rows(out)[r] = Blank
BY Apart DEF IInv, BootTypeOK, ScreenInv, BelowInv

\* A step that leaves the rows alone, and the scene where it is.
LEMMA SameRows ==
    ASSUME IInv, ScreenInv, CleanRows(out'), Rows(out') = Rows(out),
           UNCHANGED <<highest_row, nudge_rendered>>,
           pc' = pc \/ pc' = "reset"
    PROVE  ScreenInv'
BY DEF ScreenInv, HighestInv, BelowInv, NudgeInv, BareInv, Menu

LEMMA PauseScreen ==
    ASSUME IInv, ScreenInv, SecondTelemetryLine \/ FirstPrompt
    PROVE  ScreenInv'
<1>1. CASE SecondTelemetryLine
  <2> DEFINE line == Line("nist_disabled")
  <2>1. /\ pc = "b64_pause" /\ pc' = "nist_pause"
        /\ out' = RenderLine(out, start_row + 1, line)
        /\ highest_row = start_row /\ highest_row' = start_row + 1
        /\ nudge_rendered' = nudge_rendered
    BY <1>1, Apart DEF SecondTelemetryLine, ScreenInv, HighestInv, note_row
  <2>2. ~nudge_rendered
    BY <2>1, Apart DEF ScreenInv, HighestInv
  <2>3. "text" \in DOMAIN line /\ line.text # "garbled"
    BY CleanLines
  <2> HIDE DEF line
  <2>4. /\ CleanRows(out')
        /\ \A r \in Row : r # start_row + 1 => Rows(out')[r] = Rows(out)[r]
    BY <2>1, <2>3, Now, Apart, RowIsInt, DrawClean
  <2>5. BelowInv'
    BY <2>1, <2>4, Now, Apart, RowIsInt DEF BelowInv
  <2>6. HighestInv'
    BY <2>1, <2>2, Apart DEF HighestInv
  <2>7. NudgeInv'
    BY <2>1, <2>2, <2>5, Apart DEF NudgeInv, BelowInv
  <2> QED
    BY <2>1, <2>4, <2>5, <2>6, <2>7 DEF ScreenInv, BareInv
<1>2. CASE FirstPrompt
  <2>1. /\ pc = "nist_pause" /\ pc' = "prompt"
        /\ out' = WithPrompt(out, prompt_attempt', nudge_rendered)
        /\ highest_row = start_row + 1 /\ highest_row' = prompt_row
        /\ nudge_rendered' = nudge_rendered
    BY <1>2, Apart DEF FirstPrompt, ScreenInv, HighestInv, note_row
  <2>2. ~nudge_rendered /\ nudge_rendered \in BOOLEAN
    BY <2>1, Apart, Now DEF ScreenInv, HighestInv
  <2>3. /\ prompt_row \in Row => Rows(out)[prompt_row] = Blank
        /\ nudge_row \in Row => Rows(out)[nudge_row] = Blank
    BY <2>1, Now, Apart
  <2>4. /\ CleanRows(out')
        /\ \A r \in Row : r # prompt_row => Rows(out')[r] = Rows(out)[r]
    BY <2>1, <2>2, <2>3, Now, PromptRows
  <2>5. BelowInv'
    BY <2>1, <2>4, Now, Apart, RowIsInt DEF BelowInv
  <2>6. HighestInv'
    BY <2>1, <2>2, Apart DEF HighestInv
  <2>7. NudgeInv'
    BY <2>1, <2>2, <2>5, Apart DEF NudgeInv, BelowInv
  <2> QED
    BY <2>1, <2>4, <2>5, <2>6, <2>7 DEF ScreenInv, BareInv
<1> QED
  BY <1>1, <1>2

\* Dots go on the row that shows the animation.
LEMMA DottedRows ==
    ASSUME IInv, ScreenInv
    PROVE  /\ CleanRows(Dotted)
           /\ \A r \in Row : r # prompt_row => Rows(Dotted)[r] = Rows(out)[r]
<1> DEFINE n == DrawNumber(out, prompt_row, dots + 1)
<1>1. /\ CleanRows(n)
      /\ \A r \in Row : r # prompt_row => Rows(n)[r] = Rows(out)[r]
  BY Now, AppendClean
<1>2. Dotted = Refresh(n)
  BY DEF Dotted
<1> HIDE DEF n
<1> QED
  BY <1>1, <1>2, KeepClean

LEMMA RetryScreen ==
    ASSUME IInv, ScreenInv, RetryDot \/ LastRetryDot
    PROVE  ScreenInv'
<1>0. /\ pc = "retrying"
      /\ highest_row >= prompt_row
      /\ CleanRows(Dotted)
      /\ \A r \in Row : r # prompt_row => Rows(Dotted)[r] = Rows(out)[r]
  BY DottedRows, Apart DEF RetryDot, LastRetryDot, ScreenInv, HighestInv
<1>1. CASE RetryDot
  <2>1. /\ pc' = pc /\ out' = Dotted
        /\ highest_row' = highest_row /\ nudge_rendered' = nudge_rendered
    BY <1>1 DEF RetryDot, counters
  <2>2. HighestInv' /\ BareInv'
    BY <1>0, <2>1 DEF ScreenInv, HighestInv, BareInv
  <2>3. BelowInv'
    BY <1>0, <2>1, Now, Apart, RowIsInt DEF BelowInv
  <2>4. NudgeInv'
    BY <1>0, <2>1, Apart DEF ScreenInv, NudgeInv
  <2> QED
    BY <1>0, <2>1, <2>2, <2>3, <2>4 DEF ScreenInv
<1>2. CASE LastRetryDot
  <2> DEFINE c == WithoutPrompt(Dotted)
             d == IF nudge_due THEN WithNudge(c) ELSE c
  <2>1. /\ pc' = "prompt"
        /\ out' = WithPrompt(d, prompt_attempt', nudge_rendered')
        /\ highest_row' = note_row(highest_row,
                            IF nudge_rendered' THEN nudge_row ELSE prompt_row)
    BY <1>2 DEF LastRetryDot
  <2>2. nudge_rendered' = (nudge_rendered \/ nudge_due)
    BY <1>2 DEF LastRetryDot
  <2>3. /\ nudge_rendered \in BOOLEAN /\ nudge_due \in BOOLEAN
        /\ nudge_rendered' \in BOOLEAN
    BY <2>2, Now DEF nudge_due
  <2>4. nudge_row \in Row /\ ~nudge_rendered =>
          Rows(Dotted)[nudge_row] = Blank
    BY <1>0, Apart DEF ScreenInv, NudgeInv, Menu
  <2>5. /\ CleanRows(c)
        /\ \A r \in Row : Rows(c)[r] =
             IF r \in {prompt_row, nudge_row} THEN Blank ELSE Rows(Dotted)[r]
    BY <1>0, <2>3, <2>4, NoPromptRows
  <2> HIDE DEF c
  <2>6. /\ CleanRows(d)
        /\ \A r \in Row : Rows(d)[r] =
             IF r # nudge_row THEN Rows(c)[r]
             ELSE IF nudge_due THEN Line("nudge") ELSE Blank
    <3>1. CASE nudge_due
      <4>1. nudge_row \in Row => Rows(c)[nudge_row] \in {Blank, Line("nudge")}
        BY <2>5
      <4>2. d = WithNudge(c)
        BY <3>1
      <4> QED
        BY <2>5, <3>1, <4>1, <4>2, NudgeRows
    <3>2. CASE ~nudge_due
      BY <2>5, <3>2
    <3> QED
      BY <3>1, <3>2
  <2> HIDE DEF d
  <2> DEFINE nudged == nudge_rendered'
  <2>7. /\ CleanRows(out')
        /\ \A r \in Row : r # prompt_row =>
             Rows(out')[r] = IF nudged /\ r = nudge_row THEN Line("nudge")
                             ELSE Rows(d)[r]
    <3>1. prompt_row \in Row => Rows(d)[prompt_row] = Blank
      BY <2>5, <2>6, Apart
    <3>2. nudge_row \in Row => Rows(d)[nudge_row] \in {Blank, Line("nudge")}
      BY <2>6
    <3>3. nudged \in BOOLEAN /\ CleanRows(d)
      BY <2>3, <2>6
    <3>4. out' = WithPrompt(d, prompt_attempt', nudged)
      BY <2>1
    <3> HIDE DEF nudged
    <3> QED
      BY <3>1, <3>2, <3>3, <3>4, PromptRows
  <2>8. highest_row \in {prompt_row, nudge_row}
    BY <1>0 DEF ScreenInv, HighestInv
  <2>9. HighestInv'
    <3>1. nudge_rendered => highest_row = nudge_row
      BY <2>8, Apart DEF ScreenInv, HighestInv
    <3>2. highest_row' \in {prompt_row, nudge_row}
      BY <2>1, <2>8, Apart DEF note_row
    <3>3. nudge_rendered' => highest_row' = nudge_row
      BY <2>1, <2>8, Apart DEF note_row
    <3> QED
      BY <2>1, <3>2, <3>3, Apart DEF HighestInv
  <2>10. BelowInv'
    <3> SUFFICES ASSUME NEW r \in SceneRow, r > highest_row'
                 PROVE  Rows(out')[r] = Blank
      BY DEF BelowInv
    <3>1. r # prompt_row /\ r > highest_row
      BY <2>1, <2>8, Apart, RowIsInt DEF note_row
    <3>2. Rows(out)[r] = Blank
      BY <3>1, Now
    <3>3. CASE r # nudge_row
      BY <1>0, <2>5, <2>6, <2>7, <3>1, <3>2, <3>3, Apart
    <3>4. CASE r = nudge_row
      <4>1. ~nudge_rendered'
        BY <2>9, <3>4, RowIsInt, Apart, <2>1, <2>8 DEF note_row
      <4>2. ~nudge_due
        BY <2>2, <4>1
      <4> QED
        BY <2>6, <2>7, <3>1, <3>4, <4>1, <4>2, Apart
    <3> QED
      BY <3>3, <3>4
  <2>11. NudgeInv'
    <3> SUFFICES ASSUME nudge_row \in Row
                 PROVE  Rows(out')[nudge_row] =
                          IF nudged THEN Line("nudge") ELSE Blank
      BY DEF NudgeInv
    <3>1. CASE nudged
      BY <2>7, <3>1, Apart
    <3>2. CASE ~nudged
      <4>1. ~nudge_due
        BY <2>2, <3>2
      <4> QED
        BY <2>6, <2>7, <3>2, <4>1, Apart
    <3> QED
      BY <3>1, <3>2
  <2> QED
    BY <2>1, <2>7, <2>9, <2>10, <2>11 DEF ScreenInv, BareInv
<1> QED
  BY <1>1, <1>2

LEMMA ChooseScreen ==
    ASSUME IInv, ScreenInv, ChooseRetry \/ ChooseIgnore \/ ChooseAbort
    PROVE  ScreenInv'
<1>0. /\ pc = "prompt"
      /\ highest_row \in {prompt_row, nudge_row}
      /\ nudge_rendered => highest_row >= nudge_row
      /\ nudge_row \in Row =>
           Rows(out)[nudge_row] =
             IF nudge_rendered THEN Line("nudge") ELSE Blank
  BY DEF ChooseRetry, ChooseIgnore, ChooseAbort, ScreenInv, HighestInv,
         NudgeInv, Menu
<1>1. ASSUME NEW k, NEW choice
      PROVE  /\ CleanRows(Decided(k, choice))
             /\ Rows(Decided(k, choice)) = Rows(out)
  <2>1. CleanRows(Pressed(k)) /\ Rows(Pressed(k)) = Rows(out)
    BY Now, KeepClean DEF Pressed
  <2> QED
    BY <2>1, KeepClean DEF Decided
<1>2. CASE ChooseRetry
  <2> DEFINE o == Decided("r", "retry")
             c == ClearRow(o, prompt_row)
             line == Line("retrying")
  <2>1. /\ pc' = "retrying" /\ out' = DrawAt(c, prompt_row, line)
        /\ highest_row' = highest_row /\ nudge_rendered' = nudge_rendered
    BY <1>2 DEF ChooseRetry, counters
  <2>2. CleanRows(o) /\ Rows(o) = Rows(out)
    BY <1>1
  <2> HIDE DEF o
  <2>3. /\ CleanRows(c)
        /\ \A r \in Row : Rows(c)[r] =
                            IF r = prompt_row THEN Blank ELSE Rows(o)[r]
    BY <2>2, ClearClean
  <2>4. "text" \in DOMAIN line /\ line.text # "garbled"
    BY CleanLines
  <2> HIDE DEF c, line
  <2>5. /\ CleanRows(out')
        /\ \A r \in Row : r # prompt_row => Rows(out')[r] = Rows(out)[r]
    BY <2>1, <2>2, <2>3, <2>4, DrawClean
  <2>6. HighestInv'
    BY <1>0, <2>1 DEF ScreenInv, HighestInv
  <2>7. BelowInv'
    BY <1>0, <2>1, <2>5, Now, Apart, RowIsInt DEF BelowInv
  <2>8. NudgeInv'
    BY <1>0, <2>1, <2>5, Apart DEF NudgeInv
  <2> QED
    BY <2>1, <2>5, <2>6, <2>7, <2>8 DEF ScreenInv, BareInv
<1>3. CASE ChooseIgnore
  <2> DEFINE o == Decided("i", "ignore")
  <2>1. /\ pc' = "paste" /\ out' = WithBlob(o)
        /\ nudge_rendered' = nudge_rendered
        /\ highest_row' =
             note_row(note_row(note_row(highest_row, intro_row), blob_row),
                      input_row)
    BY <1>3 DEF ChooseIgnore
  <2>2. highest_row' = input_row
    BY <1>0, <2>1, Apart DEF note_row
  <2>3. CleanRows(o) /\ Rows(o) = Rows(out)
    BY <1>1
  <2> HIDE DEF o
  <2>4. /\ nudge_row \in Row /\ ~nudge_rendered => Rows(o)[nudge_row] = Blank
        /\ \A r \in SceneRow : r > nudge_row => Rows(o)[r] = Blank
    BY <1>0, <2>3, Now, Apart, RowIsInt
  <2>5. /\ CleanRows(out')
        /\ \A r \in SceneRow : r > input_row => Rows(out')[r] = Blank
    BY <2>1, <2>3, <2>4, Now, BlobRows
  <2>6. HighestInv' /\ BelowInv'
    BY <2>1, <2>2, <2>5, Apart DEF HighestInv, BelowInv
  <2> QED
    BY <2>1, <2>5, <2>6 DEF ScreenInv, NudgeInv, BareInv, Menu
<1>4. CASE ChooseAbort
  <2>1. /\ out' = Decided("a", "abort") /\ pc' = "reset"
        /\ UNCHANGED <<highest_row, nudge_rendered>>
    BY <1>4 DEF ChooseAbort, counters
  <2>2. CleanRows(out') /\ Rows(out') = Rows(out)
    BY <1>1, <2>1
  <2> QED
    BY <2>1, <2>2, SameRows
<1> QED
  BY <1>2, <1>3, <1>4

\* run_timeout, from a verdict or from a silence.
LEMMA TimeoutScreen ==
    ASSUME IInv, ScreenInv, pc = "paste", NEW o, CleanRows(o),
           \A r \in SceneRow : r > highest_row => Rows(o)[r] = Blank,
           StartTimeout(o), UNCHANGED <<highest_row, nudge_rendered>>
    PROVE  ScreenInv'
<1>1. pc' = "countdown" /\ out' = Counting(o)
  BY DEF StartTimeout
<1>2. /\ CleanRows(out')
      /\ \A r \in SceneRow :
           IF r = countdown_row THEN Rows(out')[r].text = "countdown"
           ELSE Rows(out')[r] = Blank
  BY <1>1, Now, LastRows
<1>3. HighestInv'
  BY <1>1 DEF ScreenInv, HighestInv
<1>4. BelowInv'
  <2>1. highest_row' >= input_row /\ highest_row' \in Int
    BY Now DEF ScreenInv, HighestInv
  <2> QED
    BY <1>1, <1>2, <2>1, Apart, RowIsInt DEF BelowInv
<1>5. BareInv'
  BY <1>1, <1>2 DEF BareInv
<1> QED
  BY <1>1, <1>2, <1>3, <1>4, <1>5 DEF ScreenInv, NudgeInv, Menu

LEMMA VerdictScreen ==
    ASSUME IInv, ScreenInv, pc = "paste", NEW o, CleanRows(o),
           \A r \in SceneRow : r > highest_row => Rows(o)[r] = Blank,
           NEW length, Accept(o, length) \/ Reject(o, length)
    PROVE  ScreenInv'
<1> DEFINE judged(ok) == Refresh(Push(o, PasteReceived(length, ok)))
<1>1. ASSUME NEW ok
      PROVE  CleanRows(judged(ok)) /\ Rows(judged(ok)) = Rows(o)
  <2>1. /\ CleanRows(Push(o, PasteReceived(length, ok)))
        /\ Rows(Push(o, PasteReceived(length, ok))) = Rows(o)
    BY KeepClean
  <2> QED
    BY <2>1, KeepClean
<1>2. highest_row >= input_row /\ highest_row \in Int
  BY Now DEF ScreenInv, HighestInv
<1>3. CASE Accept(o, length)
  <2> DEFINE p == judged(TRUE)
  <2>1. /\ pc' = "booting" /\ out' = Booting(p)
        /\ UNCHANGED <<highest_row, nudge_rendered>>
    BY <1>3 DEF Accept, counters
  <2>2. /\ CleanRows(p)
        /\ \A r \in SceneRow : r > highest_row => Rows(p)[r] = Blank
    BY <1>1
  <2> HIDE DEF p
  <2>3. /\ CleanRows(out')
        /\ \A r \in SceneRow :
             IF r = booting_row THEN Rows(out')[r].text = "booting"
             ELSE Rows(out')[r] = Blank
    BY <2>1, <2>2, Now, LastRows
  <2>4. HighestInv'
    BY <2>1 DEF ScreenInv, HighestInv, IInv
  <2>5. BelowInv'
    BY <1>2, <2>1, <2>3, Apart, RowIsInt DEF BelowInv
  <2>6. BareInv'
    BY <2>1, <2>3 DEF BareInv
  <2> QED
    BY <2>1, <2>3, <2>4, <2>5, <2>6 DEF ScreenInv, NudgeInv, Menu
<1>4. CASE Reject(o, length)
  <2> DEFINE p == judged(FALSE)
  <2>1. /\ CleanRows(p)
        /\ \A r \in SceneRow : r > highest_row => Rows(p)[r] = Blank
    BY <1>1
  <2>2. /\ UNCHANGED nudge_rendered
        /\ \/ StartTimeout(p) /\ UNCHANGED highest_row
           \/ /\ pc' = "paste"
              /\ out' = Reprompted(p, wrong_paste_count')
              /\ highest_row' = note_row(highest_row, wrong_indicator_row)
    BY <1>4 DEF Reject
  <2> HIDE DEF p
  <2>3. CASE StartTimeout(p) /\ UNCHANGED highest_row
    BY <2>1, <2>2, <2>3, TimeoutScreen
  <2>4. CASE /\ pc' = "paste"
             /\ out' = Reprompted(p, wrong_paste_count')
             /\ highest_row' = note_row(highest_row, wrong_indicator_row)
    <3>1. /\ CleanRows(out')
          /\ \A r \in SceneRow : r > highest_row' => Rows(out')[r] = Blank
      BY <1>2, <2>1, <2>4, RepromptRows
    <3>2. HighestInv'
      BY <1>2, <2>2, <2>4, Apart DEF ScreenInv, HighestInv, note_row
    <3> QED
      BY <2>4, <3>1, <3>2
         DEF ScreenInv, BelowInv, NudgeInv, BareInv, Menu
  <2> QED
    BY <2>2, <2>3, <2>4
<1> QED
  BY <1>3, <1>4

\* A key that only is recorded.
LEMMA PressedRows ==
    ASSUME IInv, ScreenInv, NEW k
    PROVE  CleanRows(Pressed(k)) /\ Rows(Pressed(k)) = Rows(out)
BY Now, KeepClean DEF Pressed

\* The row of the paste shows one character more.
LEMMA EchoedRows ==
    ASSUME IInv, ScreenInv, NEW k
    PROVE  /\ CleanRows(Echoed(k))
           /\ \A r \in Row : r # input_row => Rows(Echoed(k))[r] = Rows(out)[r]
           /\ input_row \in Row => Rows(Echoed(k))[input_row] =
                [Rows(out)[input_row] EXCEPT !.echo = Append(@, k)]
<1> DEFINE o == Pressed(k)
           e == DrawEcho(o, input_row, k)
<1>1. CleanRows(o) /\ Rows(o) = Rows(out)
  BY PressedRows
<1> HIDE DEF o
<1>2. /\ CleanRows(e)
      /\ \A r \in Row : r # input_row => Rows(e)[r] = Rows(o)[r]
  BY <1>1, AppendClean
<1>3. input_row \in Row =>
        Rows(e)[input_row] = [Rows(o)[input_row] EXCEPT !.echo = Append(@, k)]
  BY <1>1 DEF DrawEcho, Rows, CleanRows, HasScreen
<1>4. Echoed(k) = Refresh(e)
  BY DEF Echoed, o
<1> HIDE DEF e
<1> QED
  BY <1>1, <1>2, <1>3, <1>4, KeepClean

LEMMA PasteScreen ==
    ASSUME IInv, ScreenInv,
           \/ PasteEnter \/ PasteSilence
           \/ \E k \in Key : PasteEcho(k)
    PROVE  ScreenInv'
<1>1. CASE PasteEnter
  <2>1. /\ pc = "paste"
        /\ \/ Accept(Pressed("enter"), Len(buf))
           \/ Reject(Pressed("enter"), Len(buf))
    BY <1>1 DEF PasteEnter
  <2> QED
    BY <2>1, Now, PressedRows, VerdictScreen
<1>2. CASE PasteSilence
  <2>1. /\ pc = "paste" /\ StartTimeout(out)
        /\ UNCHANGED <<highest_row, nudge_rendered>>
    BY <1>2 DEF PasteSilence, counters
  <2> QED
    BY <2>1, Now, TimeoutScreen
<1>3. ASSUME NEW k \in Key, PasteEcho(k)
      PROVE  ScreenInv'
  <2>0. Len(buf) \in Nat /\ PasteBufferLen \in Nat
    BY Params DEF IInv, BootTypeOK
  <2>1. pc = "paste" /\ highest_row >= input_row
    BY <1>3 DEF PasteEcho, ScreenInv, HighestInv
  <2>2. /\ CleanRows(Echoed(k))
        /\ \A r \in SceneRow : r > highest_row => Rows(Echoed(k))[r] = Blank
    <3>1. /\ CleanRows(Echoed(k))
          /\ \A r \in Row : r # input_row => Rows(Echoed(k))[r] = Rows(out)[r]
      BY EchoedRows
    <3>2. \A r \in SceneRow : r > highest_row =>
            r \in Row /\ r # input_row /\ Rows(out)[r] = Blank
      BY <2>1, Now, Apart
    <3> QED
      BY <3>1, <3>2
  <2>3. CASE Len(buf) + 1 < PasteBufferLen
    <3>1. out' = Echoed(k) /\ UNCHANGED <<pc, highest_row, nudge_rendered>>
      BY <1>3, <2>0, <2>3 DEF PasteEcho, counters
    <3>2. HighestInv' /\ BelowInv'
      BY <2>1, <2>2, <3>1 DEF ScreenInv, HighestInv, BelowInv
    <3>3. pc' = "paste" /\ CleanRows(out')
      BY <2>1, <2>2, <3>1
    <3>4. NudgeInv' /\ BareInv'
      BY <3>3 DEF NudgeInv, BareInv, Menu
    <3> QED
      BY <3>2, <3>3, <3>4 DEF ScreenInv
  <2>4. CASE ~(Len(buf) + 1 < PasteBufferLen)
    <3>1. Reject(Echoed(k), Len(buf) + 1)
      BY <1>3, <2>0, <2>4 DEF PasteEcho
    <3> QED
      BY <2>1, <2>2, <3>1, VerdictScreen
  <2> QED
    BY <2>3, <2>4
<1> QED
  BY <1>1, <1>2, <1>3

\* The countdown, the halt line and the two ends of the scene.
LEMMA EndScreen ==
    ASSUME IInv, ScreenInv,
           CountdownTick \/ CountdownEnd \/ Halt \/ Continue
    PROVE  ScreenInv'
<1>0. UNCHANGED <<highest_row, nudge_rendered>>
  BY DEF CountdownTick, CountdownEnd, Halt, Continue, counters
<1>1. CASE CountdownTick
  <2> DEFINE n == DrawNumber(out, countdown_row, secs')
  <2>1. pc = "countdown" /\ pc' = "countdown" /\ out' = Refresh(n)
    BY <1>1 DEF CountdownTick
  <2>2. /\ CleanRows(n)
        /\ \A r \in Row : /\ r # countdown_row => Rows(n)[r] = Rows(out)[r]
                          /\ Rows(n)[r].text = Rows(out)[r].text
    BY Now, AppendClean
  <2> HIDE DEF n
  <2>3. /\ CleanRows(out')
        /\ \A r \in Row :
             /\ r # countdown_row => Rows(out')[r] = Rows(out)[r]
             /\ Rows(out')[r].text = Rows(out)[r].text
    BY <2>1, <2>2, KeepClean
  <2>4. highest_row > countdown_row
    BY <2>1, Now, Apart DEF ScreenInv, HighestInv
  <2>5. BelowInv'
    BY <1>0, <2>3, <2>4, Now, Apart, RowIsInt DEF BelowInv
  <2>6. HighestInv' /\ BareInv'
    BY <1>0, <2>1, <2>3, Apart DEF ScreenInv, HighestInv, BareInv
  <2> QED
    BY <2>1, <2>3, <2>5, <2>6 DEF ScreenInv, NudgeInv, Menu
<1>2. CASE CountdownEnd
  <2> DEFINE n == DrawNumber(out, countdown_row, 0)
             c == Refresh(n)
             line == Line("halt")
  <2>1. /\ pc = "countdown" /\ pc' = "halted"
        /\ out' = RenderLine(c, halt_row, line)
    BY <1>2 DEF CountdownEnd
  <2>2. /\ CleanRows(n)
        /\ \A r \in Row : /\ r # countdown_row => Rows(n)[r] = Rows(out)[r]
                          /\ Rows(n)[r].text = Rows(out)[r].text
    BY Now, AppendClean
  <2> HIDE DEF n
  <2>3. CleanRows(c) /\ Rows(c) = Rows(n)
    BY <2>2, KeepClean
  <2>4. "text" \in DOMAIN line /\ line.text = "halt" /\ line.text # "garbled"
    BY CleanLines, LineFields
  <2> HIDE DEF c, line
  <2>5. halt_row \in Row => Rows(c)[halt_row] = Blank
    BY <2>1, <2>2, <2>3, Apart DEF ScreenInv, BareInv
  <2>6. /\ CleanRows(out')
        /\ \A r \in Row : Rows(out')[r] =
                            IF r = halt_row THEN line ELSE Rows(c)[r]
    BY <2>1, <2>3, <2>4, <2>5, DrawClean
  <2>7. highest_row > halt_row
    BY <2>1, Now, Apart DEF ScreenInv, HighestInv
  <2>8. BelowInv'
    BY <1>0, <2>2, <2>3, <2>6, <2>7, Now, Apart, RowIsInt DEF BelowInv
  <2>9. HighestInv'
    BY <1>0, <2>1 DEF ScreenInv, HighestInv
  <2>10. BareInv'
    BY <2>1, <2>2, <2>3, <2>4, <2>6, Apart, RowIsInt DEF ScreenInv, BareInv
  <2> QED
    BY <2>1, <2>6, <2>8, <2>9, <2>10 DEF ScreenInv, NudgeInv, Menu
<1>3. CASE Halt \/ Continue
  <2>1. /\ \/ pc = "halted" /\ pc' = "off"
           \/ pc = "booting" /\ pc' = "booted"
        /\ out' = out
    BY <1>3 DEF Halt, Continue
  <2>2. CleanRows(out') /\ BelowInv'
    BY <1>0, <2>1 DEF ScreenInv, BelowInv
  <2>3. HighestInv' /\ BareInv'
    BY <1>0, <2>1 DEF ScreenInv, HighestInv, BareInv
  <2> QED
    BY <2>1, <2>2, <2>3 DEF ScreenInv, NudgeInv, Menu
<1> QED
  BY <1>1, <1>2, <1>3

\* No step of the scene leaves the invariant of the rows.
LEMMA BootScreen ==
    ASSUME IInv, ScreenInv, BootloaderStep
    PROVE  ScreenInv'
<1>1. CASE PromptIdlePoll \/ PasteIdlePoll
  <2>1. UNCHANGED <<pc, out, highest_row, nudge_rendered>>
    BY <1>1 DEF vars, counters, PromptIdlePoll, PasteIdlePoll
  <2> QED
    BY <2>1, Now, SameRows
<1>2. ASSUME NEW k \in Key, PromptOtherKey(k) \/ PasteOtherKey(k)
      PROVE  ScreenInv'
  <2>1. out' = Pressed(k) /\ UNCHANGED <<pc, highest_row, nudge_rendered>>
    BY <1>2 DEF PromptOtherKey, PasteOtherKey, counters
  <2>2. CleanRows(out') /\ Rows(out') = Rows(out)
    BY <2>1, PressedRows
  <2> QED
    BY <2>1, <2>2, SameRows
<1>3. CASE Quiet
  BY <1>1, <1>3, PauseScreen, RetryScreen, PasteScreen, EndScreen DEF Quiet
<1>4. CASE Keystroke
  BY <1>2, <1>4, ChooseScreen, PasteScreen DEF Keystroke
<1> QED
  BY <1>1, <1>3, <1>4 DEF BootloaderStep

-----------------------------------------------------------------------------
(* What the scene leaves alone *)

IsOutput(o) == HasScreen(o) /\ IsSeq(o.ring)

\* The events that every line drawn and the start of the timeout leave.
Marks == {"LineRendered", "BootloaderTimeout"}

\* The events that are not about the video mode; the bootloader records no
\* others.
SceneKinds == Marks \cup {"Keypress", "BootloaderDecision", "PasteReceived",
                          "SceneTransition"}

\* t is s without its first d entries and with some of the kinds K behind it;
\* only a full ring loses any, and stays full.
Moved(s, t, d, K) ==
    /\ Len(s) <= Len(t) + d
    /\ \A i \in 1..Len(t) : IF i + d <= Len(s) THEN t[i] = s[i + d]
                            ELSE t[i].kind \in K
    /\ d > 0 \/ RingCap <= Len(s) => RingCap <= Len(t)

\* The ring t holds the latest entries of the ring s, and after them some of
\* the kinds K.
Later(s, t, K) ==
    /\ IsSeq(s) /\ DOMAIN s = 1..Len(s) /\ Len(s) \in Nat
    /\ IsSeq(t) /\ DOMAIN t = 1..Len(t) /\ Len(t) \in Nat
    /\ \E d \in Nat : Moved(s, t, d, K)

\* Mode, logo, cursor, toast and the rows of others stay as they are.
Framed(o, p, K) ==
    /\ IsOutput(p)
    /\ p.fb.mode = o.fb.mode /\ p.fb.chrome = o.fb.chrome
    /\ p.fb.cursor = o.fb.cursor /\ p.toast = o.toast
    /\ \A r \in Row \ SceneRow : Rows(p)[r] = Rows(o)[r]
    /\ Later(o.ring, p.ring, K)

LEMMA SameRing ==
    ASSUME NEW s, IsSeq(s)
    PROVE  /\ DOMAIN s = 1..Len(s) /\ Len(s) \in Nat
           /\ \A K : Later(s, s, K)
<1>1. PICK S : s \in Seq(S)
  BY DEF IsSeq
<1>2. Len(s) \in Nat /\ DOMAIN s = 1..Len(s)
  BY <1>1, LenProperties
<1>3. \A i \in 1..Len(s) : i + 0 = i /\ i + 0 <= Len(s)
  BY <1>2
<1>4. \A K : Moved(s, s, 0, K)
  BY <1>2, <1>3 DEF Moved
<1> QED
  BY <1>2, <1>4 DEF Later

LEMMA LaterPush ==
    ASSUME NEW s, IsSeq(s), NEW e, NEW K, e.kind \in K
    PROVE  Later(s, Recent(Append(s, e), RingCap), K)
<1> DEFINE t == Recent(Append(s, e), RingCap)
           d == Len(s) + 1 - Len(t)
<1>1. PushedOnto(s, t, e)
  BY PushRing
<1> HIDE DEF t
<1>2. /\ Len(s) \in Nat /\ Len(t) \in Nat /\ d \in Nat
      /\ Len(t) + d = Len(s) + 1 /\ Len(s) <= Len(t) + d
      /\ d > 0 \/ RingCap <= Len(s) => RingCap <= Len(t)
  <2>1. /\ Len(s) \in Nat /\ Len(t) \in Nat /\ Len(t) <= Len(s) + 1
        /\ Len(t) < RingCap => Len(t) = Len(s) + 1
    BY <1>1 DEF PushedOnto
  <2> QED
    BY <2>1, SurfaceAssumption
<1>3. \A i \in 1..Len(t) : t[i] = IF i = Len(t) THEN e ELSE s[i + d]
  BY <1>1 DEF PushedOnto
<1> HIDE DEF d
<1>4. \A i \in 1..Len(t) : i = Len(t) <=> ~(i + d <= Len(s))
  BY <1>2
<1>5. \A i \in 1..Len(t) : IF i + d <= Len(s) THEN t[i] = s[i + d]
                           ELSE t[i].kind \in K
  BY <1>3, <1>4
<1>6. /\ IsSeq(s) /\ DOMAIN s = 1..Len(s)
      /\ IsSeq(t) /\ DOMAIN t = 1..Len(t)
  BY <1>1 DEF PushedOnto
<1>7. Moved(s, t, d, K)
  BY <1>2, <1>5 DEF Moved
<1>8. Later(s, t, K)
  BY <1>2, <1>6, <1>7 DEF Later
<1> QED
  BY <1>8 DEF t

LEMMA LaterTrans ==
    ASSUME NEW K, NEW s, NEW t, NEW u, Later(s, t, K), Later(t, u, K)
    PROVE  Later(s, u, K)
<1>1. PICK d \in Nat : Moved(s, t, d, K)
  BY DEF Later
<1>2. PICK f \in Nat : Moved(t, u, f, K)
  BY DEF Later
<1>3. Len(s) \in Nat /\ Len(t) \in Nat /\ Len(u) \in Nat
  BY DEF Later
<1>4. /\ d + f \in Nat /\ Len(s) <= Len(u) + (d + f)
      /\ d + f > 0 => d > 0 \/ f > 0
  BY <1>1, <1>2, <1>3 DEF Moved
<1>5. ASSUME NEW i \in 1..Len(u)
      PROVE  IF i + (d + f) <= Len(s) THEN u[i] = s[i + (d + f)]
             ELSE u[i].kind \in K
  <2>1. CASE i + f <= Len(t)
    <3>1. i + f \in 1..Len(t) /\ (i + f) + d = i + (d + f)
      BY <1>3, <2>1
    <3>2. u[i] = t[i + f]
      BY <1>2, <2>1 DEF Moved
    <3>3. IF (i + f) + d <= Len(s) THEN t[i + f] = s[(i + f) + d]
          ELSE t[i + f].kind \in K
      BY <1>1, <3>1 DEF Moved
    <3> QED
      BY <3>1, <3>2, <3>3
  <2>2. CASE ~(i + f <= Len(t))
    <3>1. ~(i + (d + f) <= Len(s))
      BY <1>1, <1>3, <2>2 DEF Moved
    <3>2. u[i].kind \in K
      BY <1>2, <2>2 DEF Moved
    <3> QED
      BY <3>1, <3>2
  <2> QED
    BY <2>1, <2>2
<1>6. d + f > 0 \/ RingCap <= Len(s) => RingCap <= Len(u)
  BY <1>1, <1>2, <1>4 DEF Moved
<1>7. Moved(s, u, d + f, K)
  BY <1>4, <1>5, <1>6 DEF Moved
<1> QED
  BY <1>4, <1>7 DEF Later

LEMMA FrameTrans ==
    ASSUME NEW K, NEW o, NEW p, NEW q, Framed(o, p, K), Framed(p, q, K)
    PROVE  Framed(o, q, K)
BY LaterTrans DEF Framed

LEMMA FrameDraw ==
    ASSUME NEW K, NEW o, IsOutput(o),
           NEW row \in start_row..wrong_indicator_row, NEW x
    PROVE  /\ Framed(o, DrawAt(o, row, x), K)
           /\ Framed(o, ClearRow(o, row), K)
           /\ Framed(o, DrawEcho(o, row, x), K)
           /\ Framed(o, DrawNumber(o, row, x), K)
<1>1. \A r \in Row \ SceneRow : r # row
  BY DEF SceneRow
<1>2. HasScreen(o) /\ Later(o.ring, o.ring, K)
  BY SameRing DEF IsOutput
<1>3. Framed(o, DrawAt(o, row, x), K)
  BY <1>1, <1>2, DrawAtRows DEF Framed, IsOutput, OnlyRows
<1>4. Framed(o, ClearRow(o, row), K)
  BY <1>1, <1>2, ClearRowRows DEF Framed, IsOutput, OnlyRows
<1>5. Framed(o, DrawEcho(o, row, x), K)
  BY <1>1, <1>2, DrawEchoRows DEF Framed, IsOutput, OnlyRows
<1>6. Framed(o, DrawNumber(o, row, x), K)
  BY <1>1, <1>2, DrawNumberRows DEF Framed, IsOutput, OnlyRows
<1> QED
  BY <1>3, <1>4, <1>5, <1>6

LEMMA FrameClears ==
    ASSUME NEW K, NEW o, IsOutput(o), IInv
    PROVE  Framed(o, ClearRows(o, start_row, highest_row), K)
<1>1. \A r \in Row \ SceneRow : r \notin start_row..highest_row
  BY Apart DEF SceneRow, IInv, BootTypeOK
<1>2. HasScreen(o) /\ Later(o.ring, o.ring, K)
  BY SameRing DEF IsOutput
<1> QED
  BY <1>1, <1>2, ClearRowsRows DEF Framed, IsOutput, OnlyRows

LEMMA FramePush ==
    ASSUME NEW o, IsOutput(o), NEW K, NEW e, e.kind \in K
    PROVE  Framed(o, Push(o, e), K)
<1>1. HasScreen(o) /\ IsSeq(o.ring)
  BY DEF IsOutput
<1>2. Later(o.ring, Push(o, e).ring, K)
  BY <1>1, LaterPush, PushRows
<1>3. IsSeq(Push(o, e).ring)
  BY <1>1, PushSeq
<1> QED
  BY <1>1, <1>2, <1>3, PushRows DEF Framed, IsOutput

\* The QR on screen is the one of this very moment.
Refreshed(o) == QrCurrent(o) /\ QrSeesScreen(o)

LEMMA FrameRefresh ==
    ASSUME NEW K, NEW o, IsOutput(o)
    PROVE  Framed(o, Refresh(o), K) /\ Refreshed(Refresh(o))
BY SameRing, RefreshRows DEF Framed, IsOutput, Refreshed

LEMMA MarkKinds == Marks \subseteq SceneKinds
BY DEF SceneKinds

LEMMA SceneEvents ==
    /\ \A k : Keypress(k).kind \in SceneKinds
    /\ \A r : LineRendered(r).kind \in Marks
    /\ \A c, k : BootloaderDecision(c, k).kind \in SceneKinds
    /\ \A k, ok : PasteReceived(k, ok).kind \in SceneKinds
    /\ BootloaderTimeout.kind \in Marks
    /\ \A p, q : SceneTransition(p, q).kind \in SceneKinds
BY DEF Keypress, LineRendered, BootloaderDecision, PasteReceived,
       BootloaderTimeout, SceneTransition, Marks, SceneKinds

\* What a call of the scene returns for the output o.
Handled(o, p, K) == Framed(o, p, K) /\ Refreshed(p)

LEMMA FrameRender ==
    ASSUME NEW K, Marks \subseteq K, NEW o, IsOutput(o),
           NEW row \in start_row..wrong_indicator_row,
           NEW line
    PROVE  Handled(o, RenderLine(o, row, line), K)
<1> DEFINE d == DrawAt(o, row, line)
           p == Push(d, LineRendered(row))
<1>1. Framed(o, d, K)
  BY FrameDraw
<1>2. RenderLine(o, row, line) = Refresh(p)
  BY DEF RenderLine
<1> HIDE DEF d
<1>3. Framed(d, p, K)
  BY <1>1, FramePush, SceneEvents DEF Framed
<1> HIDE DEF p
<1>4. Framed(p, Refresh(p), K) /\ Refreshed(Refresh(p))
  BY <1>3, FrameRefresh DEF Framed
<1> QED
  BY <1>1, <1>2, <1>3, <1>4, FrameTrans DEF Handled

LEMMA Outputs ==
    ASSUME NEW K, NEW o, NEW p
    PROVE  /\ Handled(o, p, K) <=> Framed(o, p, K) /\ Refreshed(p)
           /\ Framed(o, p, K) => IsOutput(p)
BY DEF Handled, Framed

LEMMA HandledTrans ==
    ASSUME NEW K, NEW o, NEW p, NEW q, Framed(o, p, K), Handled(p, q, K)
    PROVE  Handled(o, q, K)
BY FrameTrans DEF Handled

\* The pauses before the prompt, the prompt and the nudge.
LEMMA FramePrompt ==
    ASSUME NEW K, Marks \subseteq K, NEW o, IsOutput(o)
    PROVE  /\ Handled(o, WithNudge(o), K)
           /\ \A attempt, nudged :
                Handled(o, WithPrompt(o, attempt, nudged), K)
           /\ Framed(o, WithoutPrompt(o), K)
<1>1. Handled(o, WithNudge(o), K)
  BY FrameRender, SceneRows DEF WithNudge
<1>2. ASSUME NEW attempt, NEW nudged
      PROVE  Handled(o, WithPrompt(o, attempt, nudged), K)
  <2> DEFINE d == DrawAt(o, prompt_row, PromptLine(attempt))
             p == Push(d, LineRendered(prompt_row))
  <2>1. Framed(o, d, K)
    BY FrameDraw, SceneRows
  <2>2. WithPrompt(o, attempt, nudged) = IF nudged THEN WithNudge(p)
                                         ELSE Refresh(p)
    BY DEF WithPrompt
  <2> HIDE DEF d
  <2>3. Framed(d, p, K)
    BY <2>1, FramePush, SceneEvents DEF Framed
  <2> HIDE DEF p
  <2>4. Framed(o, p, K) /\ IsOutput(p)
    BY <2>1, <2>3, FrameTrans DEF Framed
  <2>5. Handled(p, Refresh(p), K) /\ Handled(p, WithNudge(p), K)
    BY <2>4, FrameRefresh, FrameRender, SceneRows DEF Handled, WithNudge
  <2> QED
    BY <2>2, <2>4, <2>5, HandledTrans
<1>3. Framed(o, WithoutPrompt(o), K)
  <2> DEFINE bare == ClearRow(o, prompt_row)
  <2>1. Framed(o, bare, K)
    BY FrameDraw, SceneRows
  <2>2. WithoutPrompt(o) = IF nudge_rendered THEN ClearRow(bare, nudge_row)
                           ELSE bare
    BY DEF WithoutPrompt
  <2> HIDE DEF bare
  <2>3. Framed(bare, ClearRow(bare, nudge_row), K)
    BY <2>1, FrameDraw, SceneRows DEF Framed
  <2> QED
    BY <2>1, <2>2, <2>3, FrameTrans
<1> QED
  BY <1>1, <1>2, <1>3

LEMMA FrameBlob ==
    ASSUME NEW K, Marks \subseteq K, NEW o, IsOutput(o)
    PROVE  Handled(o, WithBlob(o), K)
<1> DEFINE o0 == WithoutPrompt(o)
           o1 == RenderLine(o0, intro_row, Line("intro"))
           o2 == RenderLine(o1, blob_row, Line("blob"))
           o3 == RenderLine(o2, input_row, Line("input"))
<1>0. WithBlob(o) = o3
  BY DEF WithBlob
<1>1. Framed(o, o0, K) /\ IsOutput(o0)
  BY FramePrompt, Outputs
<1> HIDE DEF o0
<1>2. Handled(o0, o1, K) /\ IsOutput(o1)
  BY <1>1, FrameRender, SceneRows, Outputs
<1> HIDE DEF o1
<1>3. Handled(o1, o2, K) /\ IsOutput(o2)
  BY <1>2, FrameRender, SceneRows, Outputs
<1> HIDE DEF o2
<1>4. Handled(o2, o3, K)
  BY <1>3, FrameRender, SceneRows, Outputs
<1> HIDE DEF o3
<1>5. Framed(o, o2, K)
  BY <1>1, <1>2, <1>3, FrameTrans, Outputs
<1> QED
  BY <1>0, <1>4, <1>5, HandledTrans

\* A key and the decision it makes.
LEMMA FrameKey ==
    ASSUME IsOutput(out), NEW k
    PROVE  /\ Framed(out, Pressed(k), SceneKinds)
           /\ \A choice : Framed(out, Decided(k, choice), SceneKinds)
<1>1. Framed(out, Pressed(k), SceneKinds)
  BY FramePush, SceneEvents DEF Pressed
<1>2. ASSUME NEW choice
      PROVE  Framed(out, Decided(k, choice), SceneKinds)
  <2>1. Framed(Pressed(k), Decided(k, choice), SceneKinds)
    BY <1>1, FramePush, SceneEvents DEF Decided, Framed
  <2> QED
    BY <1>1, <2>1, FrameTrans
<1> QED
  BY <1>1, <1>2

\* A digit or a character more, then a refresh.
LEMMA FrameAppend ==
    ASSUME NEW K, Marks \subseteq K, NEW o, IsOutput(o),
           NEW row \in start_row..wrong_indicator_row, NEW x
    PROVE  /\ Handled(o, Refresh(DrawNumber(o, row, x)), K)
           /\ Handled(o, Refresh(DrawEcho(o, row, x)), K)
           /\ Handled(o, Refresh(DrawAt(o, row, x)), K)
<1> DEFINE n == DrawNumber(o, row, x)
           c == DrawEcho(o, row, x)
           d == DrawAt(o, row, x)
<1>1. Framed(o, n, K) /\ Framed(o, c, K) /\ Framed(o, d, K)
  BY FrameDraw
<1> HIDE DEF n, c, d
<1>2. /\ Handled(n, Refresh(n), K) /\ Handled(c, Refresh(c), K)
      /\ Handled(d, Refresh(d), K)
  BY <1>1, FrameRefresh, Outputs
<1>3. /\ Handled(o, Refresh(n), K) /\ Handled(o, Refresh(c), K)
      /\ Handled(o, Refresh(d), K)
  BY <1>1, <1>2, HandledTrans
<1> QED
  BY <1>3 DEF n, c, d

LEMMA LastSceneRows ==
    /\ booting_row \in start_row..wrong_indicator_row
    /\ countdown_row \in start_row..wrong_indicator_row
    /\ halt_row \in start_row..wrong_indicator_row
BY Apart

\* run_success and run_timeout up to their first pauses.
LEMMA FrameLast ==
    ASSUME IInv, NEW K, Marks \subseteq K, NEW o, IsOutput(o)
    PROVE  Handled(o, Booting(o), K) /\ Handled(o, Counting(o), K)
<1>1. ASSUME NEW p, IsOutput(p)
      PROVE  Handled(p, Refresh(ClearRows(p, start_row, highest_row)), K)
  <2> DEFINE c == ClearRows(p, start_row, highest_row)
  <2>1. Framed(p, c, K)
    BY <1>1, FrameClears
  <2> HIDE DEF c
  <2>2. Handled(c, Refresh(c), K)
    BY <2>1, FrameRefresh, Outputs
  <2>3. Handled(p, Refresh(c), K)
    BY <2>1, <2>2, HandledTrans
  <2> QED
    BY <2>3 DEF c
<1>2. Handled(o, Booting(o), K)
  <2> DEFINE c == Refresh(ClearRows(o, start_row, highest_row))
  <2>1. Framed(o, c, K) /\ IsOutput(c)
    BY <1>1, Outputs
  <2>2. Booting(o) = RenderLine(c, booting_row, Line("booting"))
    BY DEF Booting
  <2> HIDE DEF c
  <2>3. Handled(c, RenderLine(c, booting_row, Line("booting")), K)
    BY <2>1, FrameRender, LastSceneRows
  <2> QED
    BY <2>1, <2>2, <2>3, HandledTrans
<1>3. Handled(o, Counting(o), K)
  <2> DEFINE p == Push(o, BootloaderTimeout)
             c == Refresh(ClearRows(p, start_row, highest_row))
             t == Refresh(DrawAt(c, countdown_row, Line("countdown")))
             n == Refresh(DrawNumber(t, countdown_row, CountdownS))
  <2>0. Counting(o) = n
    BY DEF Counting
  <2>1. Framed(o, p, K) /\ IsOutput(p)
    BY FramePush, SceneEvents, Outputs
  <2> HIDE DEF p
  <2>2. Framed(p, c, K) /\ IsOutput(c)
    BY <1>1, <2>1, Outputs
  <2> HIDE DEF c
  <2>3. Framed(c, t, K) /\ IsOutput(t)
    BY <2>2, FrameAppend, LastSceneRows, Outputs
  <2> HIDE DEF t
  <2>4. Handled(t, n, K)
    BY <2>3, FrameAppend, LastSceneRows
  <2> HIDE DEF n
  <2>5. Framed(o, t, K)
    BY <2>1, <2>2, <2>3, FrameTrans
  <2> QED
    BY <2>0, <2>4, <2>5, HandledTrans
<1> QED
  BY <1>2, <1>3

LEMMA FrameReprompt ==
    ASSUME NEW K, Marks \subseteq K, NEW o, IsOutput(o), NEW wrong
    PROVE  Handled(o, Reprompted(o, wrong), K)
<1> DEFINE c == ClearRow(o, input_row)
           d == DrawAt(c, input_row, Line("input"))
           asked == Push(d, LineRendered(input_row))
           w == ClearRow(asked, wrong_indicator_row)
           line == Numbered("wrong", wrong)
           p == RenderLine(w, wrong_indicator_row, line)
<1>0. Reprompted(o, wrong) = p
  BY DEF Reprompted
<1> HIDE DEF line
<1>1. Framed(o, c, K) /\ IsOutput(c)
  BY FrameDraw, SceneRows, Outputs
<1> HIDE DEF c
<1>2. Framed(c, d, K) /\ IsOutput(d)
  BY <1>1, FrameDraw, SceneRows, Outputs
<1> HIDE DEF d
<1>3. Framed(d, asked, K) /\ IsOutput(asked)
  BY <1>2, FramePush, SceneEvents, Outputs
<1> HIDE DEF asked
<1>4. Framed(asked, w, K) /\ IsOutput(w)
  BY <1>3, FrameDraw, SceneRows, Outputs
<1> HIDE DEF w
<1>5. Handled(w, p, K)
  BY <1>4, FrameRender, SceneRows
<1> HIDE DEF p
<1>6. Framed(o, w, K)
  BY <1>1, <1>2, <1>3, <1>4, FrameTrans
<1> QED
  BY <1>0, <1>5, <1>6, HandledTrans

LEMMA FrameVerdict ==
    ASSUME IInv, NEW o, IsOutput(o), NEW length,
           Accept(o, length) \/ Reject(o, length)
    PROVE  Handled(o, out', SceneKinds)
<1> USE MarkKinds
<1> DEFINE judged(ok) == Refresh(Push(o, PasteReceived(length, ok)))
<1>1. ASSUME NEW ok
      PROVE  Framed(o, judged(ok), SceneKinds) /\ IsOutput(judged(ok))
  <2> DEFINE p == Push(o, PasteReceived(length, ok))
  <2>1. Framed(o, p, SceneKinds)
    BY FramePush, SceneEvents
  <2> HIDE DEF p
  <2>2. Framed(p, Refresh(p), SceneKinds)
    BY <2>1, FrameRefresh, Outputs
  <2>3. Framed(o, Refresh(p), SceneKinds)
    BY <2>1, <2>2, FrameTrans
  <2> QED
    BY <2>3 DEF Framed, p
<1>2. CASE Accept(o, length)
  <2>1. out' = Booting(judged(TRUE))
    BY <1>2 DEF Accept
  <2> HIDE DEF judged
  <2> QED
    BY <1>1, <2>1, FrameLast, HandledTrans
<1>3. CASE Reject(o, length)
  <2>1. \/ out' = Counting(judged(FALSE))
        \/ out' = Reprompted(judged(FALSE), wrong_paste_count')
    BY <1>3 DEF Reject, StartTimeout
  <2> HIDE DEF judged
  <2> QED
    BY <1>1, <2>1, FrameLast, FrameReprompt, HandledTrans
<1> QED
  BY <1>2, <1>3

-----------------------------------------------------------------------------
(* Every step of the scene, seen from outside *)

\* A step that changes no text: the screen and the QR stay, and a key that
\* does nothing at most is recorded.
Unnoticed ==
    /\ out'.fb = out.fb /\ out'.qr = out.qr
    /\ pc # "retrying"
    /\ \/ pc' = "reset"
       \/ out'.ring = out.ring /\ (pc = "prompt" <=> pc' = "prompt")
       \/ \E k \in Key :
             /\ out'.ring = Recent(Append(out.ring, Keypress(k)), RingCap)
             /\ \/ pc = "prompt" /\ k \notin {"r", "i", "a"}
                \/ pc = "paste" /\ k \notin Printable \cup {"enter"}
             /\ pc' = pc

\* A step of the program itself refreshes the digest if it has drawn, and
\* records no events but the marks.
LEMMA QuietFrame ==
    ASSUME IInv, IsOutput(out), Quiet, NEW K, Marks \subseteq K
    PROVE  /\ Framed(out, out', K)
           /\ \/ Refreshed(out') /\ ~(pc' = "retrying" /\ dots' = 0)
              \/ Unnoticed
<1> DEFINE Goal == /\ Framed(out, out', K)
                   /\ \/ Refreshed(out') /\ ~(pc' = "retrying" /\ dots' = 0)
                      \/ Unnoticed
<1>0. Framed(out, out, K) /\ dots \in Nat
  BY SameRing, Params DEF Framed, IsOutput, IInv, BootTypeOK
<1>a. ASSUME Handled(out, out', K), pc' # "retrying"
      PROVE  Goal
  BY <1>a DEF Handled
<1>c. ASSUME out' = out, pc # "retrying", pc = "prompt" <=> pc' = "prompt"
      PROVE  Goal
  BY <1>0, <1>c DEF Unnoticed
<1>1. CASE SecondTelemetryLine
  <2>1. Handled(out, RenderLine(out, start_row + 1, Line("nist_disabled")), K)
    BY FrameRender, SceneRows
  <2> QED
    BY <1>1, <1>a, <2>1 DEF SecondTelemetryLine
<1>2. CASE FirstPrompt
  BY <1>2, <1>a, FramePrompt DEF FirstPrompt
<1>3. Handled(out, Dotted, K)
  BY FrameAppend, SceneRows DEF Dotted
<1>4. CASE RetryDot
  <2>1. out' = Dotted /\ dots' = dots + 1
    BY <1>4 DEF RetryDot
  <2>2. dots' # 0
    BY <1>0, <2>1
  <2> QED
    BY <1>3, <2>1, <2>2, Outputs
<1>5. CASE LastRetryDot
  <2> DEFINE c == WithoutPrompt(Dotted)
             d == IF nudge_due THEN WithNudge(c) ELSE c
  <2>1. pc' = "prompt"
        /\ out' = WithPrompt(d, prompt_attempt', nudge_rendered')
    BY <1>5 DEF LastRetryDot
  <2>2. Framed(Dotted, c, K) /\ IsOutput(Dotted)
    BY <1>3, FramePrompt, Outputs
  <2>3. Framed(out, c, K) /\ IsOutput(c)
    BY <1>3, <2>2, FrameTrans, Outputs
  <2> HIDE DEF c
  <2>4. Framed(out, d, K) /\ IsOutput(d)
    BY <2>3, FramePrompt, FrameTrans, Outputs
  <2> HIDE DEF d
  <2>5. Handled(out, WithPrompt(d, prompt_attempt', nudge_rendered'), K)
    BY <2>4, FramePrompt, HandledTrans
  <2> QED
    BY <1>a, <2>1, <2>5
<1>6. CASE PasteIdlePoll
  BY <1>6, <1>c DEF PasteIdlePoll
<1>7. CASE PasteSilence
  <2>1. pc' = "countdown" /\ out' = Counting(out)
    BY <1>7 DEF PasteSilence, StartTimeout
  <2> QED
    BY <1>a, <2>1, FrameLast
<1>8. CASE CountdownTick
  <2>1. pc' = "countdown"
        /\ out' = Refresh(DrawNumber(out, countdown_row, secs'))
    BY <1>8 DEF CountdownTick
  <2> QED
    BY <1>a, <2>1, FrameAppend, LastSceneRows
<1>9. CASE CountdownEnd
  <2> DEFINE c == Refresh(DrawNumber(out, countdown_row, 0))
  <2>1. pc' = "halted" /\ out' = RenderLine(c, halt_row, Line("halt"))
    BY <1>9 DEF CountdownEnd
  <2>2. Framed(out, c, K) /\ IsOutput(c)
    BY FrameAppend, LastSceneRows, Outputs
  <2> HIDE DEF c
  <2>3. Handled(c, RenderLine(c, halt_row, Line("halt")), K)
    BY <2>2, FrameRender, LastSceneRows
  <2> QED
    BY <1>a, <2>1, <2>2, <2>3, HandledTrans
<1>10. CASE Halt \/ Continue
  BY <1>10, <1>c DEF Halt, Continue
<1> QED
  BY <1>1, <1>2, <1>4, <1>5, <1>6, <1>7, <1>8, <1>9, <1>10 DEF Quiet

\* The scene minds its own rows, and before every pause but the first of the
\* animation it refreshes the digest if it has drawn.
LEMMA BootFrame ==
    ASSUME IInv, IsOutput(out), BootloaderStep
    PROVE  /\ Framed(out, out', SceneKinds)
           /\ \/ Refreshed(out') /\ ~(pc' = "retrying" /\ dots' = 0)
              \/ Unnoticed
              \/ pc' = "retrying" /\ dots' = 0
<1> USE MarkKinds
<1> DEFINE Goal == /\ Framed(out, out', SceneKinds)
                   /\ \/ Refreshed(out') /\ ~(pc' = "retrying" /\ dots' = 0)
                      \/ Unnoticed
                      \/ pc' = "retrying" /\ dots' = 0
<1>0. Framed(out, out, SceneKinds) /\ HasScreen(out)
  BY SameRing DEF Framed, IsOutput
<1>a. ASSUME Handled(out, out', SceneKinds), pc' # "retrying"
      PROVE  Goal
  BY <1>a DEF Handled
<1>b. ASSUME NEW k \in Key, out' = Pressed(k), pc' = pc,
             \/ pc = "prompt" /\ k \notin {"r", "i", "a"}
             \/ pc = "paste" /\ k \notin Printable \cup {"enter"}
      PROVE  Goal
  <2>1. Framed(out, out', SceneKinds)
    BY <1>b, FrameKey
  <2>2. /\ out'.fb = out.fb /\ out'.qr = out.qr
        /\ out'.ring = Recent(Append(out.ring, Keypress(k)), RingCap)
    BY <1>0, <1>b, PushRows DEF Pressed
  <2> QED
    BY <1>b, <2>1, <2>2 DEF Unnoticed
<1>1. CASE Quiet
  BY <1>1, QuietFrame
<1>2. CASE PromptIdlePoll
  BY <1>0, <1>2 DEF PromptIdlePoll, vars, Unnoticed
<1>3. CASE ChooseRetry
  <2> DEFINE o == Decided("r", "retry")
             c == ClearRow(o, prompt_row)
             d == DrawAt(c, prompt_row, Line("retrying"))
  <2>1. pc' = "retrying" /\ dots' = 0 /\ out' = d
    BY <1>3 DEF ChooseRetry
  <2>2. Framed(out, o, SceneKinds) /\ IsOutput(o)
    BY FrameKey, Outputs
  <2> HIDE DEF o
  <2>3. Framed(o, c, SceneKinds) /\ IsOutput(c)
    BY <2>2, FrameDraw, SceneRows, Outputs
  <2> HIDE DEF c
  <2>4. Framed(c, d, SceneKinds)
    BY <2>3, FrameDraw, SceneRows
  <2> QED
    BY <2>1, <2>2, <2>3, <2>4, FrameTrans
<1>4. CASE ChooseIgnore
  <2> DEFINE o == Decided("i", "ignore")
  <2>1. pc' = "paste" /\ out' = WithBlob(o)
    BY <1>4 DEF ChooseIgnore
  <2>2. Framed(out, o, SceneKinds) /\ IsOutput(o)
    BY FrameKey, Outputs
  <2> HIDE DEF o
  <2> QED
    BY <1>a, <2>1, <2>2, FrameBlob, HandledTrans
<1>5. CASE ChooseAbort
  <2>1. pc = "prompt" /\ pc' = "reset" /\ out' = Decided("a", "abort")
    BY <1>5 DEF ChooseAbort
  <2>2. Framed(out, out', SceneKinds)
    BY <2>1, FrameKey
  <2>3. HasScreen(Pressed("a"))
        /\ Pressed("a").fb = out.fb /\ Pressed("a").qr = out.qr
    BY <1>0, PushRows DEF Pressed
  <2>4. out'.fb = out.fb /\ out'.qr = out.qr
    BY <2>1, <2>3, PushRows DEF Decided
  <2> QED
    BY <2>1, <2>2, <2>4 DEF Unnoticed
<1>6. ASSUME NEW o, Framed(out, o, SceneKinds), NEW length,
             Accept(o, length) \/ Reject(o, length)
      PROVE  Goal
  <2>1. Handled(out, out', SceneKinds)
    BY <1>6, FrameVerdict, HandledTrans DEF Framed
  <2>2. pc' # "retrying"
    BY <1>6 DEF Accept, Reject, StartTimeout
  <2> QED
    BY <1>a, <2>1, <2>2
<1>7. CASE PasteEnter
  <2>1. \/ Accept(Pressed("enter"), Len(buf))
        \/ Reject(Pressed("enter"), Len(buf))
    BY <1>7 DEF PasteEnter
  <2> QED
    BY <1>6, <2>1, FrameKey
<1>8. ASSUME NEW k \in Key, PromptOtherKey(k) \/ PasteOtherKey(k)
      PROVE  Goal
  BY <1>8, <1>b DEF PromptOtherKey, PasteOtherKey
<1>9. ASSUME NEW k \in Key, PasteEcho(k)
      PROVE  Goal
  <2>1. Handled(out, Echoed(k), SceneKinds)
    <3> DEFINE p == Pressed(k)
    <3>1. Framed(out, p, SceneKinds) /\ IsOutput(p)
      BY FrameKey, Outputs
    <3>2. Echoed(k) = Refresh(DrawEcho(p, input_row, k))
      BY DEF Echoed
    <3> HIDE DEF p
    <3> QED
      BY <3>1, <3>2, FrameAppend, SceneRows, HandledTrans
  <2>2. \/ out' = Echoed(k) /\ pc' = "paste"
        \/ Reject(Echoed(k), Len(buf) + 1)
    BY <1>9 DEF PasteEcho
  <2> QED
    BY <1>6, <1>a, <2>1, <2>2, Outputs
<1>10. CASE Keystroke
  BY <1>3, <1>4, <1>5, <1>7, <1>8, <1>9, <1>10 DEF Keystroke
<1> QED
  BY <1>1, <1>2, <1>10 DEF BootloaderStep
=============================================================================
