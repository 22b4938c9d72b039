# Uncalibrated Sextant in TLA+

Uncalibrated Sextant is a UEFI program that plays a boot sequence to an
operator at a screen: a blinking cursor, a transcript of boot
lines, a locked bootloader that wants a decoded string pasted back, and a
parking screen. While it runs it shows a QR digest in the corner of the
framebuffer, which attests the pixels around it and the events so far, so that
a client can compare its own rendering of the display with what the server
says is on it. This directory models that program and checks it with TLC and
TLAPS. Paths below are relative to the repository; `file.rs` stands for
`src/file.rs`.

## 1. The system

The program is one thread. It draws, calls `stall`, polls the keyboard once,
and goes on. There are no interrupts, callbacks or other processes; what makes
it hard is that keys may arrive at every poll, that several loops poll (blink,
pacing, mode cycle, prompt, paste), that they nest, that the firmware may
answer a mode request with another mode, and that *every* stall is a moment at
which a client may take a screenshot and hold the QR to it.

| Component | State | Operations | What makes it correct |
|---|---|---|---|
| Event ring (`event.rs`) | `entries`, `head`, `len` | `push`, `iter` | a reader sees the last N events, in order, after any number of wraps |
| Digest refresh (`scene.rs` `DigestRefresher`) | `frame_counter`, statistics, the QR on screen | `refresh`, calibration, `record` | a QR describes one moment, that of the call its frame number counts; evicted events stay hashed; the statistics are those of the latest calls |
| Channel hashes (shared crate) | one rolling CRC per event channel | `update`, in both `push_event` functions | in lock-step with the ring |
| Locked bootloader (`bootloader.rs`) | `highest_row`, `prompt_attempt`, `wrong_paste_count`, `nudge_rendered`; the paste buffer and idle time | preamble, prompt, retry animation, nudge, blob, paste capture, success, timeout | only the exact target opens it; the third wrong paste or a minute of silence ends it; nothing is drawn over anything; the QR follows the screen |
| Scene (`scene.rs` `Scene`) | `phase`, `repaint_state`, `toast`, `clock_ms`, cursor, ring, hashes | awaiting, booting, parked; mode keys, mode cycle, toast, repaint | the screen can be repainted at every poll; toasts tell the applied mode; cycles end and the transcript goes on |
| Cursor (`cursor.rs`) | blink phase, time, blink count, LFSR, glyph | `tick` | blinks at its period, glitches every sixth blink, LFSR never zero |
| Renderer (`renderer/mod.rs`) | GOP handle, width, height; the framebuffer | `draw_*`, `clear*`, `set_mode`, framebuffer hash, digest drawing | the nearest mode, whatever the list's order; nothing covers anything else; the hash covers everything but the digest |
| Serial (`serial.rs`) | none | banner, mode list, `drain` | drain runs before shutdown and writes the ring in order; its summary line is arithmetically sound |
| Entry (`main.rs`) | none | builds renderer and scene, runs | - |
| Logo, probes, font | constant bitmaps | - | generated data |

Interaction: `Scene::run` owns everything and lends renderer, ring, clock,
refresher and hashes to `bootloader::run`, which returns the row to continue on
or never returns. `Scene::blink_until_key`, `stall_with_keys` and `cycle_modes`
all poll, all record the key first, and all call `try_handle_mode_key`, which
sets the mode, repaints from `repaint_state` and draws a toast; `cycle_modes`
is called by it and calls it again for the key that interrupted the cycle.

Hard to test, and what the properties are for (`PROJECT.json`, `hazards`,
has each at its line): index wrap and eviction, ring and hashes in step, the
draw/refresh order at every pause, rows reused by six different texts, the
hand-kept `highest_row` and `repaint_state`, counters at their thresholds, a
paste that stops or overflows, toasts and cycles interrupted by each other, a
firmware that substitutes or refuses modes, two shut-down paths of which one
drains, a layout that is asserted at compile time for one resolution and
computed at run time for all, integer arithmetic at its edges, and a shift
register whose faults show after hours.

## 2. Modules

    Recency      the last n entries of a sequence
    EventLog     what the event trail promises (abstract)
    Timeline     ring buffer, channel hashes, refresh          implements EventLog
    Surface      the observable output and the operators that draw on it
    BootGate     what the locked bootloader promises (abstract)
    Bootloader   bootloader.rs, its actions only               extends Surface
    BootloaderScene   the bootloader alone, its properties     implements BootGate
    Sextant      scene.rs and cursor.rs around Bootloader's actions
    SextantScene      properties of the whole run
    Blinker      what the cursor promises to an eye (abstract)
    Cursor       cursor.rs with its shift register             implements Blinker
    RefreshStats refresh statistics, calibration, the summary line of drain
    Display      modes, layout and hash coverage of the renderer
    Timeline_proof, Cursor_proof, RefreshStats_proof, Display_proof,
    BootloaderScene_proof, Sextant_proof                              theorems
    Surface_proof, Bootloader_proof        lemmas both of these build on
    MCTimeline, MCBootloader, MCSextant, MCCursor, MCStats, MCDisplay
                 instances for TLC

**Timeline.** `entries`, `head`, `len`, `channel_hashes` and `frame_counter`
are the fields of the same names and `qr` is the payload last drawn. `log` and
`issued` are history variables: every event pushed, and how many there were at
each call of `refresh`. `PushEvent` is `push_event` (hashes first, then
`RingBuffer::push` with its `N == 0`, not-full and full cases), `Refresh` is
`DigestRefresher::refresh`, whose encoder may fail (`Drawn`): the old QR then
stays on screen although `frame_counter` has been bumped. `N`, the width of `frame_counter` and the encoder's
byte budget are parameters. `ChannelHashes` and `encode` belong to the
`shakenfist-visual-digest` crate, which is not in the repository: a rolling
hash is modelled by the sequence of events it has absorbed (no collisions), the
encoder by the newest run of records that fits the budget, as the comment in
`refresh` describes it.

**Surface.** One record `out` holds what an outside observer has: the
framebuffer (mode, logo, a line of text per row, the cursor), the readable
events, the toast's remaining time, and the QR with the screen and the events
it attests. Its operators take such a record and return the next one, so that
an action composes the calls of a handler in the order the code makes them.
Text is a name and a number, not characters; but text drawn over *other* text
becomes `Garbled`, which is how a forgotten `clear_row` shows.

**Bootloader.** One action per stretch of code between two stalls; `pc` names
the stall. `highest_row`, `prompt_attempt`, `wrong_paste_count` and
`nudge_rendered` are the struct's fields, `buf` and `idle` are the locals of
`capture_paste`, `dots` and `secs` those of the animation and the countdown.

| Code | Actions |
|---|---|
| `render_telemetry_preamble` | `EnterBootloader` or `CallBootloader`, `SecondTelemetryLine` |
| `render_prompt`, `run_prompt_loop` | `FirstPrompt`, `PromptIdlePoll`, `PromptOtherKey`, `ChooseRetry`, `ChooseIgnore`, `ChooseAbort` |
| `run_retry_animation`, nudge | `RetryDot`, `LastRetryDot` |
| `run_blob_and_paste` | `ChooseIgnore` (the blob screen), `Accept`, `Reject` |
| `capture_paste` | `PasteEnter`, `PasteEcho`, `PasteOtherKey`, `PasteIdlePoll`, `PasteSilence` |
| `run_timeout` | `StartTimeout`, `CountdownTick`, `CountdownEnd`, `Halt` |
| `run_success` | `Booting`, `Continue` |

**Sextant.** A state is the moment before a poll. `phase`, `repaint_state`,
`cursor` are fields of `Scene`; `last_glyph`, `elapsed`, `todo`, `count`,
`dwell` are locals of the polling loops, and `caller` is the loop to which
`cycle_modes` returns (an interrupted cycle that starts another has nothing
left to do, so one level is enough). The mode the firmware applies is any mode
(`set_mode` ignores errors and reads back). `Repaint`, `SwitchMode`,
`TickToast`, `Blinked`, `PlayLine`, `PaceOn` are the functions of `scene.rs`
they name; the bootloader's actions are used unchanged, the scene's variables
staying put.

| Code | Actions |
|---|---|
| `blink_until_key` | `BlinkQuiet`, `ModeKeyPressed`, `LeaveAwaiting`, `LeaveParked` |
| `stall_with_keys`, `play_script` | `PaceQuiet`, `PaceOtherKey`, `ModeKeyPressed`, `Resume` |
| `cycle_modes` | `CycleQuiet`, `CycleKey` |
| `run_booting`, `run_parked` | `CallBootloader`, `Park` inside `PaceOn` |

**Cursor.** `phase`, `since_switch_ms`, `blinks_since_glitch`, `lfsr` and
`current_glyph` are the fields of `CursorState`; `Tick` is `tick(POLL_MS)`, the
only argument the code passes. The register is a function from bit numbers to
bits; `Shifted` is `lfsr_next`, `Variant` the remainder by four. `Blinker` says
what should be seen as a function of the time passed alone. (`lfsr_next` is in
Fibonacci form, as the field's comment says; the "(Galois-style)" of
`cursor.rs:116` is not.) `Sextant` keeps its own coarser cursor, which does not
tell the broken glyphs apart.

**RefreshStats.** The fields of the struct with the same names, and
`ticks_per_ms`. `Calibrate` is the head of `Scene::run`, `Refresh` the
measurement around `refresh` with `record`, `Drain` the `refresh_stats` line.
The counter may read anything at any time; sums saturate and products wrap at
`U64`, as in a release build. `log` is a history variable.

**Display.** `width` and `height` are the renderer's, `gop` the mode the
firmware is really in, and `logo`, `digest`, `toast` the areas painted since
the last `clear`. `set_mode` chooses by `nearest_mode`; the firmware then does
as asked or ends up in any mode, and the size is read back. `HashOf` keeps the
numbers that steer the loop of `crc32c_framebuffer_excluding_digest`, `Hashed`
says which pixels that loop reads. A line of text is the number of cells the
longest text of its row takes: rows 0 to 18 are `BOOT_SCRIPT_PRE`, 19 to 26 the
bootloader, the last lines of the script and the parked screen.

| Code | Actions |
|---|---|
| `CursorState::tick` | `Tick` (`Light`, `Darken`) |
| `DigestRefresher::refresh`, `RefreshStats::record` | `RefreshStats!Refresh` |
| `Scene::run` | `Calibrate`, `Drain`, `Boot` |
| `try_handle_mode_key`, `cycle_modes` | `Display!SwitchMode` |
| `tick_toast` | `Display!ToastExpires` |

Definitions whose comment begins with "A slip" or "The slip" are not used by
any specification. They are plausible mistakes; each property has one that it
detects when it takes the place of the definition next to it.

## 3. Runs

`tlc -config <cfg> <module>`; sizes are distinct states on two workers.

| Run | Configuration | Shows |
|---|---|---|
| timeline | `MCTimeline.cfg` (1.7 million) | `RingImplementsTrail`, `QrDescribesOneMoment`, `QrMovesForward` |
| bootloader | `MCBootloader.cfg` (314 thousand) | screen, QR, counters and log agree in `NoGhostText`, `QrTellsTheScreen`, `PromptLedger`, `PasteLedger`, `LastScreensBare`; `ImplementsGate`; liveness `PasteEnds` |
| sextant | `MCSextant.cfg` (95 thousand) | `NoGhostText`, `RepaintIsFaithful`, `QrCoversTranscript`, `ToastTellsTheMode`, `CycleLedger`; liveness `BootPlaysOn`, `CycleEnds`, `DigestCatchesUp`, `ToastExpires` |
| cursor | `MCCursor.cfg` (393 thousand) | `NeverZero`, `ImplementsBlinker`, `EveryGlyphRecurs` |
| stats | `MCStats.cfg` (197 thousand) | `WindowIsRecent`, `MeanBelowMax`, `PercentileRank` |
| display | `MCDisplay.cfg` (37 thousand) | `NearestIsBest`, `WidgetsApart`, `TextStaysClear`, `HashCoversRest` |

Each of these runs also checks its module's `TypeOK`. Six more
runs check what a comment or document says and the code does not do;
TLC finds each violated.

| Run | Statement | What happens instead |
|---|---|---|
| bootloader_qr | "a screenshot taken at any time during the bootloader scene sees a QR whose payload matches" (`bootloader.rs:21-24`) | the first 200 ms of the retry animation come before its first refresh |
| bootloader_reprompts | "Maximum number of wrong-paste re-prompts before falling through to the visible countdown (does not include the first paste attempt)" (`bootloader.rs:80-82`) | the third wrong paste, the first attempt included, ends it, after two re-prompts |
| sextant_repaint | `RepaintState` suffices "to reconstruct the visible content" (`scene.rs:371`) | `Booting...` is lost by a mode switch |
| sextant_drain | the ring is drained "just before ACPI shutdown" (`event.rs:4`) | not by the bootloader's own shutdown |
| display_text | the QR renders "at every GOP mode the harness supports (640×480 through 1920×1080), without colliding with the logo, boot transcript, bootloader scene rows" (`docs/plans/PLAN-visual-digest.md:446-450`) | at 640x480 the NIST line, the prompt, the blob's introduction, `EMERGENCY SAFE BOOT` and long pastes cross it |
| display_hash | "CRC32C of every framebuffer pixel outside the right-anchored digest region" (`renderer/mod.rs:535`) | columns from 1920 on are never read; key '0' walks through five such modes under OVMF, on the widest of which the logo is among them |

On the wrong pastes the sources disagree with one another: "Three strikes"
(`bootloader.rs:524`) and `docs/plans/PLAN-locked-bootloader.md:326` describe what
the code does, the constant's own comment and line 406 of the same plan do not.
`ImplementsGate` states the code's reading, in which `WRONG_PASTE_LIMIT` counts
wrong pastes.

The safety properties state exactly these exceptions and no more:
`QrTellsTheScreen` and `QrCoversTranscript` leave out the first pause of the
retry animation, `QrCoversTranscript` the toast's row and the cursor (a toast is
drawn after the repaint's refresh, so the QR beside it is that of the screen
without it until the next refresh), `RepaintIsFaithful` the row of `Booting...`,
`ToastExpires` the bootloader, which ticks no toast, `HashCoversRest` modes
wider than 1920, and `TextStaysClear` gives the sizes from which nothing
collides: 660 pixels of height for the digest, 664 of width for the logo, 984 of
width for no text to be cut off at the right. Two more comments are narrower
than the code and left at that: the paste's silent wait is said to elapse "with
the buffer empty" (`bootloader.rs:593`) and elapses with any, which a comment in
the body calls intended; and the rank of the 99th percentile is rounded down, so
that of 256 samples three, more than one in a hundred, lie above `p99_us`.

### Bounds

* `MaxKeys` bounds the keys pressed in a run. Seven in the bootloader run allow
  two retries past the nudge and a full paste, or three wrong pastes; six in the
  whole run a switch, a cycle interrupted by a cycle, and the way to the parked
  screen. The proofs are for any number.
* `MaxPushes` bounds the log: seven pushes into three slots move `head` around the
  array and past its start. `MaxRefreshes` bounds the refreshes: three let the
  frame number, of which there are two, wrap.
* Counts of polls, dots, seconds, retries and wrong pastes are small; in the
  bootloader run they are above one, so that each loop has a first, a middle
  and a last iteration. The target is one or two keys, the buffer one longer.
* The transcript has two lines before the bootloader and one after instead of
  19 and 1, so that there is a line that is first, one that is last, and one
  after the bootloader.
* `LastRow` leaves a row for the toast below all others. In the program the
  lowest text row is 26 and 640x480, the smallest mode the key table names,
  has rows 0 to 27.
* In the whole run every lit cursor is a broken glyph (`GlitchEveryN` is one); how
  many blinks lie between two is the cursor run's question.
* The cursor run has the program's own register, taps and seed, and goes through
  all 65535 of its states; only the times are small, with a half-blink (3) that
  is no multiple of the poll (2), which `BLINK_HALF_MS` happens to be.
* The statistics have four slots, refilled up to seven times so that the ring
  wraps, the percentile 3/4, which lies inside so small a ring, and integers of
  32 values, so that the sum saturates and the
  products wrap; `MeanBelowMax` asks only about lines whose products fit
  (`ProductsFit`). The bound is `MaxCalls`.
* The display run takes every list of one to three modes out of eight (sizes
  that tie by score, by width, and at the limits of `TextStaysClear`); the two
  violation runs take OVMF's list of thirty
  (`docs/plans/PLAN-display-mode-keystrokes.md:183-190`).
* Assumptions on constants are what the program fixes: the target is shorter than
  the buffer, no delay is zero, the firmware lists a mode, and (`RowsAssumption`)
  the bottom row, where toasts go, lies below every other text. The capacity of the
  ring is any number. TLC evaluates them in every run.
* The bootloader runs keep every event in the ring, so that the ledgers read
  the whole history from it; the Sextant runs have a ring of three (of one where
  only draining is asked about), so that eviction happens. The ledgers also say what still holds of a full ring
  (`Full`); their proofs cover every capacity.

### Fairness

`Spec` of the bootloader and of the whole run is weakly fair to the disjunction
of all steps that need no key (`Quiet`, `Unattended`). That is what a single
thread gives: `stall` returns, and the next stretch of code runs. Nothing is
assumed of the operator, so each liveness property speaks of what happens after
the last key, and the prompt may be left alone for ever, as its comment
promises. Polling an idle prompt changes nothing and is a step of its own
without fairness. The cursor is weakly fair to its tick: `blink_until_key` ticks
it every `POLL_MS` for as long as no key comes, which may be for ever.

## 4. Proofs

`Timeline_proof` holds, for all values of the constants that satisfy
`TimelineAssumption` (any capacity including 0, any set of events, any counter
width above 1):

* `TypeCorrect`: `Spec => []TypeOK`
* `RingRefinesTrail`: `Spec => Trail!Spec`, the ring implements `EventLog`
* `QrForward`: from one QR to the next each hash is extended, never started over
* `InvariantHolds`: the inductive invariant `Inv` behind them
* `QrTellsOneMoment`: some call of `refresh` has the QR's frame number as its
  count, modulo the counter's width, and the events logged by then as its hashes
  and records; calls whose encoding failed are counted too. `MomentInv` says that
  the live hashes are those of the whole log, that `frame_counter` is the number of
  calls modulo its width (`CountModulo`), and that the payload was made at one
  of them. `HashesOf` and `CostOf`
  are recursive over sequences; how they are reasoned about is said below

`TypeOK` is not enough to show what `iter` yields. `RingInv` adds that `len`
is the number of events pushed until it reaches `N`, that `head` stays 0 until
then (so that `(head + len) % N` is the slot behind the newest), and that slot
`i` of the walk from `head` holds the `i`-th of the last `len` events of the
log. `QrInv` adds that the QR's hashes are prefixes of the present ones. `PushFacts` does the arithmetic of the
two cases of `push`, with all reductions modulo `N` of numbers below `2 N`
going through `WrapOnce`; `IterIsRecent` turns `RingInv` into
`iter() = Recent(log, N)`, from which each step maps to a step or a stutter of
the abstract log.

`BootloaderScene_proof`, under `BootloaderAssumption` (any target shorter than
the buffer, any limit, delays and number of keys) and for every `start_row`,
screen height and ring capacity, screens on which part of the scene is cut off
included:

* `TypeCorrect`: `TypeOK` needs `EntryInv` (the limit is not yet reached while a
  paste is awaited, so one more wrong paste cannot exceed it) and `AttemptInv`
  (each prompt but the first was paid for with a key)
* `BootloaderIsAGate`: `Spec => ImplementsGate`. `EntryInv` also says that the
  buffer is empty outside the paste prompt, which makes *Ignore* start an offer
  from nothing; `VerdictGate` maps the verdicts, the others map one to one or
  stutter
* `NeverGhostText`, `LastScreensAlwaysBare`: neither is inductive. `ScreenInv`
  adds what the code relies on without saying so: nothing has been drawn below
  `highest_row`, `highest_row` covers the nudge row from the moment
  `nudge_rendered` is set, and `nudge_rendered` says what is on that row
* `QrAlwaysTells`: at every pause but those of the retry animation before its
  first dot, the digest shows the present screen, and whatever the ring holds
  beyond what the digest attests is a key that changes nothing where the scene
  is (`QrInv`). Stated of the positions beyond the attested length it survives
  eviction, and so holds for every capacity; each handler that draws is shown to
  end in a refresh (`BootFrame`)
* `PromptLedgerKept`: `PromptInv` says which number the next decision will name,
  which is `prompt_attempt` at the prompt, one more during an animation, and none
  once a decision was not a retry; that the decisions on record lead up to it
  (`Attempts`); and that `nudge_rendered` holds exactly after the threshold.
  `render_prompt` counts before it draws and the nudge is tested between two
  prompts: `NudgeStep` and `PromptRow` show that the two counts stay in step
* `PasteLedgerKept`: `PasteInv` says that `buf` is what the keys recorded since
  the last prompt or verdict spell (`Entry`), that it is what the paste's row
  shows, and that `wrong_paste_count` is the number of wrong verdicts while the
  ring has them all (`Count`). `Spells` allows at most one word, but that needs
  each character of the word to be one of the keys (`Ranked`), which is why a
  verdict by comparing buffers is one about keys (`SpellsOnly`)

Both ledgers relate an entry of the ring to those before it, some of which may
have been evicted. `Window` says that the entries before one place of a ring are
those before a place of an earlier ring without the oldest, and that only keys and
the like have come in between; `LaterWindows` and `PushedWindows` give it for every
step, and each ledger's relation is shown once to pass through a window
(`NamesMoves`, `TypedMoves`, `SpellsMoves`). A handler records one event of the
operator's and after it only marks of what it has drawn (`Recorded`).

The lemmas stand in two modules of their own, as the whole run needs them
again: `Surface_proof` says what each drawing operator does to the rows and what
each push does to the ring, `Bootloader_proof` what each of the bootloader's
handlers does to screen, ring and counters.

`Sextant_proof` is about the whole run, for every script length, delay, mode
list, ring capacity and firmware. `SextInv`, checked with TLC for rings of one to
three entries before it was proved, consists of

* `IInv` and `SceneTyped`: the bootloader's invariant and the types of the scene
* `CycleInv`: where a cycle in progress stands, and in which loop it was started
* `PlaceInv`: how `pc`, `phase` and `repaint_state` go together
* `OutInv`: what is on the output. `Want` is the line that a snapshot puts on a
  row, `Shown` that every row but the toast's and that of `Booting...` has it,
  `Attested` that the QR has what is shown, and `Sound` that the toast and the
  entries of every cycle tell what happened

`SextantInvariant` shows it of the specification; from it follow
`SextantTypeCorrect`, `NeverGhostText`, `RepaintAlwaysFaithful`, `QrAlwaysCovers`
(of the mode and the rows; events are not its subject), `ToastAlwaysTells` and `CycleLedgerKept`. The bootloader's actions inside the run
are not gone through again: `BootFrame`, proved once, says that each keeps to its
own rows, pushes events of its own kinds, and refreshes, and `BootStepInv` takes
the rest from that. What is said of the ring has to survive that the ring
forgets: an entry is related to its neighbours only where these are still there,
so one lemma about a push serves all capacities.

`Cursor_proof`, under `CursorAssumption` (any register width, a seed that is not
zero, the bit shifted out among the taps, a poll no longer than a half-blink):

* `TypeCorrect`: in particular less than a half-blink is ever carried over, so
  that the single subtraction of `tick` is enough
* `RegisterNeverZero`: were the next state zero, all bits but the lowest would be
  zero before, the lowest then is the only tapped bit set, and the feedback, the
  new top bit, would be one
* `CursorRefinesBlinker`: `Spec => Blink!Spec`. `TypeOK` is inductive and
  suffices; the work is the arithmetic of the clock, in which a half ends exactly
  when `since_switch_ms` reaches `BlinkHalfMs`, and a round when the glitch comes

`RefreshStats_proof`, under `StatsAssumption` (any capacity, any widths, any
readings):

* `StatsTypeCorrect`; `RingKeepsLatest` (`WindowIsRecent` is inductive, since two
  calls fewer than `Cap` apart never share a slot)
* `MeanNeverAboveMax`: `SumInv` says that the sum, saturated or not, is at most
  `count` times the maximum; `LineInv` carries that to the line
* `PercentileAlwaysTrue`: a slice can be put in order (`OrderExists` gives each
  place its rank, an injection of a finite set into itself, so no induction is
  needed); in place `k` of an ordered slice stands the least element that `k`
  elements are not above (`PlaceK`); and the slots in use correspond one to one to
  the latest calls (`SlotsInUse`), so that counting either is the same. With
  `SampleInv`, no slot exceeds the maximum, and neither does the percentile

`Display_proof`, under `DisplayAssumption` (any set of non-empty mode lists from
640x480 up):

* `NearestAlwaysBest`: `nearest_mode` is a fold over the list. That the order it
  compares by is total and transitive (`BetterOrders`) makes the result of the
  fold independent of the list's order (`NearestUnbeaten`)
* `ResolutionTrue`: the renderer's size is the firmware's mode, and `PaintInv`:
  whatever has been painted was placed for that size
* `WidgetsStayApart`, `TextNeverCollides`, `HashStaysComplete` follow from it;
  the last through `HashReads`, which is about every pixel, not only those on
  the edges that TLC looks at

Induction over the length of a list, which two theorems need, is done without
the library's induction theorems, as those take an operator for an argument: the
claim is put as a set of numbers, and `UpTo` shows from the least number outside
it that there is none. `Recursion` gives the defining equation of a recursive
function whose step is itself a function.

Every safety property of the passing runs, every refinement and every action
property thus has a theorem. Only model-checked is all liveness (`PasteEnds`,
`BootPlaysOn`, `CycleEnds`, `DigestCatchesUp`, `ToastExpires`,
`EveryGlyphRecurs`), which is out of the prover's reach. The six violated
statements have counterexamples and no proofs.

## 5. Not modelled, and why

* Timestamps and `clock_ms`: no decision depends on them.
* The bits of glyphs, logo and QR modules, and the value of the CRC: `Display`
  knows which areas are painted and which pixels are hashed, `Surface` which
  texts and which picture.
* The overlap of rows and QR within a run: `Surface` has rows, `Display` has
  pixels, and the two are not composed. On small modes `clear_row` also blanks a
  band of the QR; the next refresh redraws it, and the safety properties ask for
  that refresh before every pause.
* Encoder errors outside `Timeline`: `Surface`, and with it the bootloader and
  the whole run, takes each refresh to succeed (the payload buffer has the
  encoder's capacity). Panics of the QR library.
* Whether the QR attests the latest events once the ring is full, as a property of
  the output: `Unattested` compares lengths of the ring and is empty from then on.
  `QrAlwaysTells` has no more to say there. That a
  payload's hashes cover evicted events is `Timeline`'s `QrDescribesOneMoment`.
* The width of `RefreshStats::count`, a `u32`: it would take more than four thousand
  million refreshes to wrap. `count` is a natural number here.
* Modes with too few rows for the script or smaller than 640x480, and an empty mode list.
* The depth of the call stack when '0' interrupts cycle after cycle
  (`scene.rs:1013`): each key nests one call more, which the plan documents
  accept; the model flattens it, as an outer cycle has nothing left to do.
* `logo.rs`, `probes.rs`, `renderer/font.rs` (generated data), the serial
  banner and mode list, the wording of the drained lines, scripts: no state.

## 6. Plan

1. (done) Timeline with its abstract log and proofs; bootloader with its gate;
   the whole run.
2. (done) `Display`, with proofs.
3. (done) `Cursor` and `Blinker`, `RefreshStats`, with proofs.
4. (done) `BootloaderScene_proof`: type correctness, the gate as a refinement,
   no ghost text, bare last screens, the QR, the ledgers.
5. (done) `Sextant_proof`: all safety properties of the whole run.
6. (done) `PercentileAlwaysTrue`.
7. The bootloader's gate and ledgers inside the whole run, where mode changes
   and cycles record events of their own before and after them.
