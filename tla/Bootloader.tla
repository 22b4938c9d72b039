----------------------------- MODULE Bootloader -----------------------------
(***************************************************************************)
(* The locked-bootloader scene, src/bootloader.rs.                         *)
(*                                                                         *)
(* The program is one thread that runs from one stall to the next; only at *)
(* a stall does time pass, and only right after one does the scene poll    *)
(* the keyboard.  An action is everything the code does between two        *)
(* stalls, and a state is what an observer sees during a stall.  pc names  *)
(* the stall the program is in.                                            *)
(*                                                                         *)
(* Timestamps are left out.  Delays are counted in the steps of the loop   *)
(* that waits: polls, dots, seconds.                                       *)
(***************************************************************************)
EXTENDS Surface

CONSTANTS Key,            \* what poll_key may return
          Printable,      \* the keys in 0x20..0x7e
          PasteTarget,    \* PASTE_TARGET, as keys
          PasteBufferLen, \* PASTE_BUFFER_LEN
          RetryDotCount,  \* RETRY_DOT_COUNT
          RetryNudgeAfter,\* RETRY_NUDGE_AFTER
          SilentPolls,    \* PASTE_SILENT_WAIT_MS / POLL_MS
          CountdownS,     \* TIMEOUT_COUNTDOWN_S
          WrongPasteLimit,\* WRONG_PASTE_LIMIT
          start_row,      \* row the scene starts on, set by the caller
          MaxKeys         \* bound on the keys the operator presses

ASSUME BootloaderAssumption ==
    /\ {"r", "i", "a", "enter"} \subseteq Key
    /\ Printable \subseteq Key \ {"enter"}
    /\ PasteTarget \in Seq(Printable)
    /\ PasteBufferLen \in Nat /\ Len(PasteTarget) < PasteBufferLen
    /\ {RetryDotCount, RetryNudgeAfter, SilentPolls, CountdownS,
        WrongPasteLimit} \subseteq Nat \ {0}
    /\ {start_row, MaxKeys} \subseteq Nat

VARIABLES pc,                \* the stall the scene is in
          out,               \* screen, ring and digest (Surface.tla)
          highest_row,
          prompt_attempt,
          wrong_paste_count,
          nudge_rendered,
          buf,               \* capture_paste: buf[..len]
          idle,              \* capture_paste: idle_ms, in polls
          dots,              \* run_retry_animation: dots drawn
          secs,              \* run_timeout: seconds left
          keys               \* keys pressed so far, for the bound only

counters == <<highest_row, prompt_attempt, wrong_paste_count, nudge_rendered>>
loops == <<buf, idle, dots, secs>>
vars == <<pc, out, counters, loops, keys>>

prompt_row          == start_row + 2
nudge_row           == start_row + 3
intro_row           == start_row + 2
blob_row            == start_row + 4
input_row           == start_row + 6
wrong_indicator_row == input_row + 1
booting_row         == start_row + 2
countdown_row       == start_row + 2
halt_row            == countdown_row + 2
next_row            == start_row + 3   \* Continue { next_row }

\* A slip: a row right below the highest is not noted.
note_row_off_by_one(highest, row) ==
    IF row > highest + 1 THEN row ELSE highest

note_row(highest, row) == IF row > highest THEN row ELSE highest

-----------------------------------------------------------------------------
\* capture_paste starts with let mut buf and idle_ms = 0.  The slip: a
\* buffer that survives the verdict.
KeptBuffer  == UNCHANGED buf /\ idle' = 0
FreshBuffer == buf' = <<>> /\ idle' = 0

(* Drawing *)

PromptLine(attempt) == Numbered("prompt", attempt)

\* render_nudge
WithNudge(o) == RenderLine(o, nudge_row, Line("nudge"))

\* render_prompt: a nudge shown before is drawn again, and its refresh is
\* the only one.
WithPrompt(o, attempt, nudged) ==
    LET shown == Push(DrawAt(o, prompt_row, PromptLine(attempt)),
                      LineRendered(prompt_row))
    IN  IF nudged THEN WithNudge(shown) ELSE Refresh(shown)

\* A slip: only the nudge is cleared.
WithoutNudge(o) == IF nudge_rendered THEN ClearRow(o, nudge_row) ELSE o

\* The choice screen gives way: prompt row, and nudge row when it is shown.
WithoutPrompt(o) ==
    LET bare == ClearRow(o, prompt_row)
    IN  IF nudge_rendered THEN ClearRow(bare, nudge_row) ELSE bare

\* The first lines of run_blob_and_paste.
WithBlob(o) ==
    RenderLine(
        RenderLine(
            RenderLine(WithoutPrompt(o), intro_row, Line("intro")),
            blob_row, Line("blob")),
        input_row, Line("input"))

-----------------------------------------------------------------------------
(* Entry: render_telemetry_preamble, then the first prompt *)

Entered(o) == RenderLine(o, start_row, Line("b64_offline"))

EnterBootloader(o) ==
    /\ pc = "b64_pause"
    /\ out = Entered(o)
    /\ highest_row = start_row
    /\ prompt_attempt = 0
    /\ wrong_paste_count = 0
    /\ nudge_rendered = FALSE
    /\ buf = <<>> /\ idle = 0 /\ dots = 0 /\ secs = 0

SecondTelemetryLine ==
    /\ pc = "b64_pause"
    /\ pc' = "nist_pause"
    /\ out' = RenderLine(out, start_row + 1, Line("nist_disabled"))
    /\ highest_row' = note_row(highest_row, start_row + 1)
    /\ UNCHANGED <<prompt_attempt, wrong_paste_count, nudge_rendered, loops,
                   keys>>

FirstPrompt ==
    /\ pc = "nist_pause"
    /\ pc' = "prompt"
    /\ prompt_attempt' = prompt_attempt + 1
    /\ out' = WithPrompt(out, prompt_attempt', nudge_rendered)
    /\ highest_row' = note_row(highest_row, prompt_row)
    /\ UNCHANGED <<wrong_paste_count, nudge_rendered, loops, keys>>

-----------------------------------------------------------------------------
(* run_prompt_loop: a poll after each stall *)

\* poll_key returned k: every key is recorded before it is looked at.
Pressed(k) == Push(out, Keypress(k))

PressKey(k) ==
    /\ k \in Key
    /\ keys < MaxKeys
    /\ keys' = keys + 1

PromptIdlePoll == pc = "prompt" /\ UNCHANGED vars

PromptOtherKey(k) ==
    /\ pc = "prompt"
    /\ PressKey(k)
    /\ k \notin {"r", "i", "a"}
    /\ out' = Pressed(k)
    /\ UNCHANGED <<pc, counters, loops>>

Decided(k, choice) ==
    Push(Pressed(k), BootloaderDecision(choice, prompt_attempt))

\* R: the animation's first text goes up and the first dot is awaited; the
\* code refreshes only after the first dot.
ChooseRetry ==
    /\ pc = "prompt"
    /\ PressKey("r")
    /\ pc' = "retrying"
    /\ out' = DrawAt(ClearRow(Decided("r", "retry"), prompt_row),
                     prompt_row, Line("retrying"))
    /\ dots' = 0
    /\ UNCHANGED <<counters, buf, idle, secs>>

ChooseIgnore ==
    /\ pc = "prompt"
    /\ PressKey("i")
    /\ pc' = "paste"
    /\ out' = WithBlob(Decided("i", "ignore"))
    /\ highest_row' =
         note_row(note_row(note_row(highest_row, intro_row), blob_row),
                  input_row)
    /\ FreshBuffer
    /\ UNCHANGED <<prompt_attempt, wrong_paste_count, nudge_rendered, dots,
                   secs>>

\* A: ResetType::COLD, nothing is drained.
ChooseAbort ==
    /\ pc = "prompt"
    /\ PressKey("a")
    /\ pc' = "reset"
    /\ out' = Decided("a", "abort")
    /\ UNCHANGED <<counters, loops>>

-----------------------------------------------------------------------------
(* run_retry_animation, and what run_prompt_loop does when it returns *)

\* A slip: dots without a refresh.
DottedUnseen == DrawNumber(out, prompt_row, dots + 1)

Dotted == Refresh(DrawNumber(out, prompt_row, dots + 1))

RetryDot ==
    /\ pc = "retrying"
    /\ dots + 1 < RetryDotCount
    /\ dots' = dots + 1
    /\ out' = Dotted
    /\ UNCHANGED <<pc, counters, buf, idle, secs, keys>>

\* After RETRY_NUDGE_AFTER retries the nudge appears, once.  The slip: one
\* retry late.
nudge_due_late == prompt_attempt > RetryNudgeAfter /\ ~nudge_rendered
nudge_due == prompt_attempt >= RetryNudgeAfter /\ ~nudge_rendered

LastRetryDot ==
    /\ pc = "retrying"
    /\ dots + 1 >= RetryDotCount
    /\ pc' = "prompt"
    /\ dots' = 0
    /\ LET cleared == WithoutPrompt(Dotted)
           nudged  == IF nudge_due THEN WithNudge(cleared) ELSE cleared
       IN  /\ nudge_rendered' = (nudge_rendered \/ nudge_due)
           /\ prompt_attempt' = prompt_attempt + 1
           /\ out' = WithPrompt(nudged, prompt_attempt', nudge_rendered')
           /\ highest_row' = note_row(highest_row,
                  IF nudge_rendered' THEN nudge_row ELSE prompt_row)
    /\ UNCHANGED <<wrong_paste_count, buf, idle, secs, keys>>

-----------------------------------------------------------------------------
(* run_timeout: entered from the paste loop, never returns *)

Counting(o) ==
    LET cleared == Refresh(ClearRows(Push(o, BootloaderTimeout),
                                     start_row, highest_row))
        text    == Refresh(DrawAt(cleared, countdown_row, Line("countdown")))
    IN  Refresh(DrawNumber(text, countdown_row, CountdownS))

StartTimeout(o) ==
    /\ pc' = "countdown"
    /\ out' = Counting(o)
    /\ secs' = CountdownS
    /\ FreshBuffer

CountdownTick ==
    /\ pc = "countdown"
    /\ secs > 1
    /\ secs' = secs - 1
    /\ out' = Refresh(DrawNumber(out, countdown_row, secs'))
    /\ UNCHANGED <<pc, counters, buf, idle, dots, keys>>

\* Zero is drawn, the loop breaks, and the halt line goes up.
CountdownEnd ==
    /\ pc = "countdown"
    /\ secs <= 1
    /\ pc' = "halted"
    /\ secs' = 0
    /\ out' = RenderLine(Refresh(DrawNumber(out, countdown_row, 0)),
                         halt_row, Line("halt"))
    /\ UNCHANGED <<counters, buf, idle, dots, keys>>

\* ResetType::SHUTDOWN.
Halt ==
    /\ pc = "halted"
    /\ pc' = "off"
    /\ UNCHANGED <<out, counters, loops, keys>>

-----------------------------------------------------------------------------
(* run_blob_and_paste after a verdict *)

\* run_success
Booting(o) ==
    RenderLine(Refresh(ClearRows(o, start_row, highest_row)),
               booting_row, Line("booting"))

Accept(o, length) ==
    /\ pc' = "booting"
    /\ out' = Booting(Refresh(Push(o, PasteReceived(length, TRUE))))
    /\ FreshBuffer
    /\ UNCHANGED <<counters, dots, secs>>

\* The bare input prompt again, and the count of wrong pastes below it.
Reprompted(o, wrong) ==
    LET asked == Push(DrawAt(ClearRow(o, input_row), input_row, Line("input")),
                      LineRendered(input_row))
    IN  RenderLine(ClearRow(asked, wrong_indicator_row),
                   wrong_indicator_row, Numbered("wrong", wrong))

\* Wrong pastes that end the scene.  The slip: one more is tolerated.
struck_out_late(wrong) == wrong > WrongPasteLimit
struck_out(wrong) == wrong >= WrongPasteLimit

Reject(o, length) ==
    LET judged == Refresh(Push(o, PasteReceived(length, FALSE)))
    IN  /\ wrong_paste_count' = wrong_paste_count + 1
        /\ \/ /\ struck_out(wrong_paste_count')
              /\ StartTimeout(judged)
              /\ UNCHANGED highest_row
           \/ /\ ~struck_out(wrong_paste_count')
              /\ pc' = "paste"
              /\ out' = Reprompted(judged, wrong_paste_count')
              /\ highest_row' = note_row(highest_row, wrong_indicator_row)
              /\ FreshBuffer
              /\ UNCHANGED secs
        /\ UNCHANGED <<prompt_attempt, nudge_rendered, dots>>

-----------------------------------------------------------------------------
(* capture_paste: a poll after each stall *)

\* A trailing CR would be stripped, but no CR is ever put in the buffer.
PasteEnter ==
    /\ pc = "paste"
    /\ PressKey("enter")
    /\ \/ buf = PasteTarget /\ Accept(Pressed("enter"), Len(buf))
       \/ buf # PasteTarget /\ Reject(Pressed("enter"), Len(buf))

Echoed(k) == Refresh(DrawEcho(Pressed(k), input_row, k))

PasteEcho(k) ==
    /\ pc = "paste"
    /\ PressKey(k)
    /\ k \in Printable
    /\ \/ /\ Len(buf) + 1 < PasteBufferLen
          /\ buf' = Append(buf, k)
          /\ idle' = 0
          /\ out' = Echoed(k)
          /\ UNCHANGED <<pc, counters, dots, secs>>
       \/ /\ Len(buf) + 1 >= PasteBufferLen
          /\ Reject(Echoed(k), Len(buf) + 1)

PasteOtherKey(k) ==
    /\ pc = "paste"
    /\ PressKey(k)
    /\ k \notin Printable \cup {"enter"}
    /\ idle' = 0
    /\ out' = Pressed(k)
    /\ UNCHANGED <<pc, counters, buf, dots, secs>>

\* Two slips: the limit checked one poll late, and idle time not summed.
PasteIdlePollLate ==
    /\ pc = "paste"
    /\ idle < SilentPolls
    /\ idle' = idle + 1
    /\ UNCHANGED <<pc, out, counters, buf, dots, secs, keys>>

PasteIdlePollStuck ==
    /\ pc = "paste"
    /\ idle + 1 < SilentPolls
    /\ UNCHANGED vars

PasteIdlePoll ==
    /\ pc = "paste"
    /\ idle + 1 < SilentPolls
    /\ idle' = idle + 1
    /\ UNCHANGED <<pc, out, counters, buf, dots, secs, keys>>

\* The 60 s have passed without a key, whatever the buffer holds.
PasteSilence ==
    /\ pc = "paste"
    /\ idle + 1 >= SilentPolls
    /\ StartTimeout(out)
    /\ UNCHANGED <<counters, dots, keys>>

\* BOOT_PAUSE_MS is over: run returns Continue { next_row }.
Continue ==
    /\ pc = "booting"
    /\ pc' = "booted"
    /\ UNCHANGED <<out, counters, loops, keys>>

-----------------------------------------------------------------------------
\* What happens when the operator does nothing, and what a key does.
Quiet ==
    \/ SecondTelemetryLine \/ FirstPrompt
    \/ RetryDot \/ LastRetryDot
    \/ PasteIdlePoll \/ PasteSilence
    \/ CountdownTick \/ CountdownEnd \/ Halt
    \/ Continue

Keystroke ==
    \/ ChooseRetry \/ ChooseIgnore \/ ChooseAbort
    \/ PasteEnter
    \/ \E k \in Key : PromptOtherKey(k) \/ PasteEcho(k) \/ PasteOtherKey(k)

BootloaderStep == Quiet \/ Keystroke \/ PromptIdlePoll

-----------------------------------------------------------------------------
\* What the type invariants of the specifications built on these actions
\* have in common: the counters stay within the limits the constants of
\* bootloader.rs set.
BootTypeOK ==
    /\ highest_row \in start_row..wrong_indicator_row
    /\ prompt_attempt \in 0..(MaxKeys + 1)
    /\ wrong_paste_count \in 0..WrongPasteLimit
    /\ nudge_rendered \in BOOLEAN
    /\ buf \in Seq(Printable) /\ Len(buf) < PasteBufferLen
    /\ idle \in 0..(SilentPolls - 1)
    /\ dots \in 0..(RetryDotCount - 1)
    /\ secs \in 0..CountdownS
    /\ keys \in 0..MaxKeys
=============================================================================
