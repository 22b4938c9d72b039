------------------------------- MODULE Sextant -------------------------------
(***************************************************************************)
(* The whole run, src/scene.rs: the awaiting screen, the boot transcript   *)
(* with the locked bootloader (Bootloader.tla) in its middle, the parked   *)
(* screen, and the video-mode keys that are honoured in all of them but    *)
(* the bootloader.                                                         *)
(*                                                                         *)
(* Outside the bootloader a state is the moment before a poll: pc is the   *)
(* loop that polls, "awaiting" and "parked" for blink_until_key, "pace"    *)
(* for stall_with_keys and "cycle" for the dwell of cycle_modes.  All time *)
(* is counted in polls of POLL_MS.                                         *)
(*                                                                         *)
(* The firmware answers a mode request with any mode it likes: set_mode    *)
(* asks for the nearest one, ignores errors and reports what it reads      *)
(* back.                                                                   *)
(***************************************************************************)
EXTENDS Bootloader

CONSTANTS PreLen,       \* BOOT_SCRIPT_PRE.len()
          PostLen,      \* BOOT_SCRIPT_POST.len()
          PacePolls,    \* PACE_LINE_MS / POLL_MS
          ToastPolls,   \* TOAST_MS / POLL_MS
          DwellPolls,   \* CYCLE_DWELL_MS / POLL_MS
          BlinkPolls,   \* BLINK_HALF_MS / POLL_MS
          GlitchEveryN, \* GLITCH_EVERY_N
          ModeKey,      \* the characters of MODE_KEYS, each its own request
          ModeList,     \* available_modes(), in order
          FirstMode     \* the mode the firmware boots in

Mode == {ModeList[i] : i \in DOMAIN ModeList}

ASSUME SextantAssumption ==
    /\ {PreLen, PostLen, PacePolls, ToastPolls, DwellPolls, BlinkPolls,
        GlitchEveryN} \subseteq Nat \ {0}
    /\ ModeKey \subseteq Key /\ "0" \in Key \ ModeKey
    /\ ModeList \in Seq(Mode) \ {<<>>} /\ FirstMode \in Mode
    /\ start_row = PreLen   \* play_script returns the row after PRE

VARIABLES phase,         \* Scene::phase
          repaint_state, \* Scene::repaint_state
          cursor,        \* Scene::cursor (CursorState)
          last_glyph,    \* blink_until_key: last_glyph
          elapsed,       \* stall_with_keys: elapsed, in polls
          caller,        \* the loop that called cycle_modes
          todo,          \* cycle_modes: the modes still to visit
          count,         \* cycle_modes: count
          dwell,         \* cycle_modes: elapsed, in polls
          serial         \* what has been drained to the serial port

cycleVars == <<caller, todo, count, dwell>>
sceneVars == <<phase, repaint_state, cursor, last_glyph, elapsed, cycleVars,
               serial>>
bootVars == <<counters, loops>>
allVars == <<vars, sceneVars>>

toast_row == LastRow
parked_row == next_row + PostLen + 1  \* one blank row after the transcript

\* The smallest mode asked for, 640x480, has rows 0..27, and no text goes
\* below row 26; the bottom row is the toast's.
ASSUME RowsAssumption ==
    parked_row < toast_row /\ wrong_indicator_row < toast_row

-----------------------------------------------------------------------------
(* Cursor (src/cursor.rs): the glyph the blink loop draws.  Which of the   *)
(* broken variants the LFSR picks is not distinguished.                    *)

CursorNew == [phase |-> "on", since |-> 0, blinks |-> 0,
              glyph |-> "canonical"]

\* A slip: one blink too many before the glitch.
LitLate(c) ==
    IF c.blinks + 1 > GlitchEveryN
    THEN [c EXCEPT !.phase = "on", !.blinks = 0, !.glyph = "broken"]
    ELSE [c EXCEPT !.phase = "on", !.blinks = @ + 1, !.glyph = "canonical"]

Lit(c) ==
    IF c.blinks + 1 >= GlitchEveryN
    THEN [c EXCEPT !.phase = "on", !.blinks = 0, !.glyph = "broken"]
    ELSE [c EXCEPT !.phase = "on", !.blinks = @ + 1, !.glyph = "canonical"]

Tick(c) ==
    IF c.since + 1 < BlinkPolls THEN [c EXCEPT !.since = @ + 1]
    ELSE LET switched == [c EXCEPT !.since = 0]
         IN  IF c.phase = "on" THEN [switched EXCEPT !.phase = "off"]
             ELSE Lit(switched)

Glyph(c) == IF c.phase = "on" THEN c.glyph ELSE "none"

-----------------------------------------------------------------------------
(* Repaint *)

ScriptLine(script, k) == Numbered(script, k)

\* RepaintState, one shape for all its variants; unused fields are 0.
Snapshot(at, pre, post) == [at |-> at, pre |-> pre, post |-> post]

\* A slip: the text is left where it was.
ClearedOfDigest(o) ==
    [o EXCEPT !.qr = <<>>,
              !.fb = [@ EXCEPT !.cursor = "none", !.chrome = FALSE]]

\* Renderer::clear wipes the digest too; draw_chrome puts the logo back.
Cleared(o) ==
    [o EXCEPT !.qr = <<>>,
              !.fb = [@ EXCEPT !.rows = [r \in Row |-> Blank],
                               !.cursor = "none", !.chrome = FALSE]]
WithChrome(o) == [o EXCEPT !.fb.chrome = TRUE]

\* A slip: the line being paced is not counted in.
WithPrefixShort(o, script, first, k) ==
    [o EXCEPT !.fb.rows =
        [r \in Row |-> IF r < first \/ r + 1 >= first + k THEN @[r]
                       ELSE ScriptLine(script, r - first)]]

\* repaint_script_prefix: the first k lines of a script from row first on.
WithPrefix(o, script, first, k) ==
    [o EXCEPT !.fb.rows =
        [r \in Row |->
            IF r \notin first..(first + k - 1) THEN @[r]
            ELSE LET line == ScriptLine(script, r - first)
                 IN  IF @[r] \in {Blank, line} THEN line ELSE Garbled]]

\* Scene::repaint before its refresh.  Chrome and Awaiting have no lines,
\* the bootloader's own rows are not reconstructed.
Redrawn(o, rs) ==
    LET pre    == WithPrefix(WithChrome(Cleared(o)), "pre", 0, rs.pre)
        post   == WithPrefix(pre, "post", next_row, rs.post)
    IN  IF rs.at = "parked" THEN DrawAt(post, parked_row, Line("online"))
        ELSE post

\* A slip: no refresh after the clear.
RepaintUnseen(o, rs) == Redrawn(o, rs)
Repaint(o, rs) == Refresh(Redrawn(o, rs))

-----------------------------------------------------------------------------
(* Mode switches and toasts *)

ModeSwitch(req, applied) ==
    [kind |-> "ModeSwitch", requested |-> req, applied |-> applied]
\* A slip: the index of the last mode for the count.
ModeCycleIndex(k, stopped) ==
    [kind |-> "ModeCycle", count |-> k - 1, interrupted |-> stopped]
ModeCycle(k, stopped) ==
    [kind |-> "ModeCycle", count |-> k, interrupted |-> stopped]

ToastLine(req, applied) == [Line("toast") EXCEPT !.echo = <<req, applied>>]

DrawToast(o, req, applied) ==
    [DrawAt(o, toast_row, ToastLine(req, applied)) EXCEPT !.toast = ToastPolls]

\* A slip: the toast expires and stays on screen.
TickToastLeft(o, rs) == IF o.toast = 0 THEN o ELSE [o EXCEPT !.toast = @ - 1]

\* A slip: the time left is compared and never counted down.
TickToastHeld(o, rs) ==
    IF o.toast = 1 THEN Repaint([o EXCEPT !.toast = 0], rs) ELSE o

\* tick_toast by one poll: expiry repaints the whole scene.
TickToast(o, rs) ==
    IF o.toast = 0 THEN o
    ELSE IF o.toast <= 1 THEN Repaint([o EXCEPT !.toast = 0], rs)
    ELSE [o EXCEPT !.toast = @ - 1]

\* Renderer::set_mode, then the event, the repaint and the toast.
SwitchMode(o, req, applied, rs) ==
    LET recorded == Push([o EXCEPT !.fb.mode = applied],
                         ModeSwitch(req, applied))
    IN  DrawToast(Repaint(recorded, rs), req, applied)

-----------------------------------------------------------------------------
(* blink_until_key *)

\* A slip: the refresh comes before the glyph.
BlinkedTooSoon(o, last, rs) ==
    LET g    == Glyph(Tick(cursor))
        seen == IF g # last THEN Refresh(o) ELSE o
    IN  TickToast([seen EXCEPT !.fb.cursor = g], rs)

\* One iteration from the top of the loop to the next poll, in a loop whose
\* last drawn glyph was last.
Blinked(o, last, rs) ==
    LET g     == Glyph(Tick(cursor))
        drawn == [o EXCEPT !.fb.cursor = g]
    IN  TickToast(IF g # last THEN Refresh(drawn) ELSE drawn, rs)

Blink(o, last, rs) ==
    /\ out' = Blinked(o, last, rs)
    /\ cursor' = Tick(cursor)
    /\ last_glyph' = Glyph(Tick(cursor))

-----------------------------------------------------------------------------
(* play_script, and what run_booting does at its ends *)

\* Draw step k of a script on row, snapshot it, refresh, and start pacing.
PlayLine(o, script, k, row, rs) ==
    /\ pc' = "pace"
    /\ out' = RenderLine(o, row, ScriptLine(script, k))
    /\ repaint_state' = rs
    /\ elapsed' = 0

\* PRE is over: bootloader::run takes the screen.
CallBootloader(o) ==
    /\ pc' = "b64_pause"
    /\ out' = Entered(o)
    /\ repaint_state' = Snapshot("bootloader", PreLen, 0)
    /\ elapsed' = 0
    /\ highest_row' = start_row
    /\ prompt_attempt' = 0
    /\ wrong_paste_count' = 0
    /\ nudge_rendered' = FALSE
    /\ UNCHANGED <<loops, phase, cursor, last_glyph>>

\* POST is over: the transition, the boundary refresh, and run_parked up to
\* its first poll.
Park(o) ==
    LET left == Refresh(Push(o, SceneTransition("booting", "parked")))
        rs   == Snapshot("parked", PreLen, PostLen)
    IN  /\ pc' = "parked"
        /\ phase' = "parked"
        /\ repaint_state' = rs
        /\ elapsed' = 0
        /\ Blink(Refresh(DrawAt(left, parked_row, Line("online"))), "none", rs)
        /\ UNCHANGED bootVars

\* elapsed += POLL_MS.  The slip: it stands still.
paced_stuck == elapsed
paced == elapsed + 1

\* The rest of an iteration of stall_with_keys, from after the key handling
\* to the next poll, which may be that of the next line.
PaceOn(handled) ==
    LET o  == TickToast(handled, repaint_state)
        rs == repaint_state
        k  == IF rs.at = "pre" THEN rs.pre ELSE rs.post
    IN  \/ /\ paced < PacePolls
           /\ pc' = "pace"
           /\ out' = o
           /\ elapsed' = paced
           /\ UNCHANGED <<repaint_state, phase, cursor, last_glyph, bootVars>>
        \/ /\ paced >= PacePolls
           /\ rs.at = "pre" /\ k < PreLen
           /\ PlayLine(o, "pre", k, k, Snapshot("pre", k + 1, 0))
           /\ UNCHANGED <<phase, cursor, last_glyph, bootVars>>
        \/ /\ paced >= PacePolls
           /\ rs.at = "pre" /\ k = PreLen
           /\ CallBootloader(o)
        \/ /\ paced >= PacePolls
           /\ rs.at = "post" /\ k < PostLen
           /\ PlayLine(o, "post", k, next_row + k,
                       Snapshot("post", PreLen, k + 1))
           /\ UNCHANGED <<phase, cursor, last_glyph, bootVars>>
        \/ /\ paced >= PacePolls
           /\ rs.at = "post" /\ k = PostLen
           /\ Park(o)

\* bootloader::run has returned: the first line of POST.
Resume ==
    /\ pc = "booted"
    /\ PlayLine(out, "post", 0, next_row, Snapshot("post", PreLen, 1))
    /\ UNCHANGED <<phase, cursor, last_glyph, bootVars, cycleVars, serial,
                   keys>>

-----------------------------------------------------------------------------
(* cycle_modes *)

\* Ask for the next mode of the list and dwell on it.
CycleTo(o, list, k, loop) ==
    /\ pc' = "cycle"
    /\ \E applied \in Mode :
          out' = SwitchMode(o, Head(list), applied, repaint_state)
    /\ todo' = Tail(list)
    /\ count' = k + 1
    /\ dwell' = 0
    /\ caller' = loop
    /\ UNCHANGED <<phase, repaint_state, cursor, last_glyph, elapsed, bootVars>>

\* A handled mode key returns to the loop that polled it.
ReturnTo(loop, o) ==
    /\ \/ loop = "pace" /\ PaceOn(o)
       \/ /\ loop # "pace"
          /\ pc' = loop
          /\ Blink(o, last_glyph, repaint_state)
          /\ UNCHANGED <<phase, repaint_state, elapsed, bootVars>>
    /\ caller' = "none" /\ todo' = <<>> /\ count' = 0 /\ dwell' = 0

\* try_handle_mode_key for a key it honours.
HandleModeKey(k, o, loop) ==
    \/ k = "0" /\ CycleTo(o, ModeList, 0, loop)
    \/ /\ k \in ModeKey
       /\ \E applied \in Mode :
             ReturnTo(loop, SwitchMode(o, k, applied, repaint_state))

\* elapsed += POLL_MS again, and its slip.
dwelt_stuck == dwell
dwelt == dwell + 1

CycleQuiet ==
    /\ pc = "cycle"
    /\ LET o == TickToast(out, repaint_state)
       IN  \/ /\ dwelt < DwellPolls
              /\ dwell' = dwelt
              /\ out' = o
              /\ UNCHANGED <<pc, phase, repaint_state, cursor, last_glyph,
                             elapsed, caller, todo, count, bootVars>>
           \/ /\ dwelt >= DwellPolls
              /\ todo # <<>>
              /\ CycleTo(o, todo, count, caller)
           \/ /\ dwelt >= DwellPolls
              /\ todo = <<>>
              /\ ReturnTo(caller, Push(o, ModeCycle(count, FALSE)))
    /\ UNCHANGED <<keys, serial>>

\* Any key stops the cycle; a mode key is then honoured, '0' by a new cycle
\* inside the old one, which has nothing left to do after it.
CycleKey(k) ==
    /\ pc = "cycle"
    /\ PressKey(k)
    /\ LET stopped == Push(Pressed(k), ModeCycle(count, TRUE))
       IN  \/ HandleModeKey(k, stopped, caller)
           \/ k \notin ModeKey \cup {"0"} /\ ReturnTo(caller, stopped)
    /\ UNCHANGED serial

-----------------------------------------------------------------------------
(* The poll of each loop *)

BlinkQuiet ==
    /\ pc \in {"awaiting", "parked"}
    /\ Blink(out, last_glyph, repaint_state)
    /\ UNCHANGED <<pc, phase, repaint_state, elapsed, cycleVars, serial, keys,
                   bootVars>>

ModeKeyPressed(k) ==
    /\ pc \in {"awaiting", "parked", "pace"}
    /\ PressKey(k)
    /\ HandleModeKey(k, Pressed(k), pc)
    /\ UNCHANGED serial

PaceQuiet ==
    /\ pc = "pace"
    /\ PaceOn(out)
    /\ UNCHANGED <<cycleVars, serial, keys>>

\* stall_with_keys discards what is not a mode key.
PaceOtherKey(k) ==
    /\ pc = "pace"
    /\ PressKey(k)
    /\ k \notin ModeKey \cup {"0"}
    /\ PaceOn(Pressed(k))
    /\ UNCHANGED <<cycleVars, serial>>

\* Any other key ends the awaiting screen: run's boundary refresh, then
\* run_booting clears the screen, the toast's text included.
LeaveAwaiting(k) ==
    /\ pc = "awaiting"
    /\ PressKey(k)
    /\ k \notin ModeKey \cup {"0"}
    /\ phase' = "booting"
    /\ LET left == Refresh(Push(Pressed(k),
                                SceneTransition("awaiting", "booting")))
       IN  PlayLine(WithChrome(Cleared(left)), "pre", 0, 0,
                    Snapshot("pre", 1, 0))
    /\ UNCHANGED <<cursor, last_glyph, cycleVars, serial, bootVars>>

\* Any other key ends the run: the last refresh, the drain, the power-off.
LeaveParked(k) ==
    /\ pc = "parked"
    /\ PressKey(k)
    /\ k \notin ModeKey \cup {"0"}
    /\ pc' = "off"
    /\ out' = Refresh(Push(Pressed(k), SceneTransition("parked", "parked")))
    /\ serial' = out'.ring
    /\ UNCHANGED <<phase, repaint_state, cursor, last_glyph, elapsed,
                   cycleVars, bootVars>>

-----------------------------------------------------------------------------
Dark == [fb |-> [mode |-> FirstMode, chrome |-> FALSE, cursor |-> "none",
                 rows |-> [r \in Row |-> Blank]],
         ring |-> <<>>, toast |-> 0, qr |-> <<>>]

\* Scene::new, then run up to the first poll of run_awaiting.
Init ==
    /\ pc = "awaiting"
    /\ phase = "awaiting"
    /\ repaint_state = Snapshot("awaiting", 0, 0)
    /\ cursor = Tick(CursorNew)
    /\ last_glyph = Glyph(cursor)
    /\ out = LET ready == Refresh(WithChrome(Dark))
             IN  Refresh([ready EXCEPT !.fb.cursor = last_glyph])
    /\ elapsed = 0
    /\ caller = "none" /\ todo = <<>> /\ count = 0 /\ dwell = 0
    /\ serial = <<>>
    /\ highest_row = start_row /\ prompt_attempt = 0
    /\ wrong_paste_count = 0 /\ nudge_rendered = FALSE
    /\ buf = <<>> /\ idle = 0 /\ dots = 0 /\ secs = 0
    /\ keys = 0

\* Steps that happen when nobody presses a key.
Unattended ==
    \/ BlinkQuiet \/ PaceQuiet \/ CycleQuiet \/ Resume
    \/ Quiet /\ UNCHANGED sceneVars

Attended ==
    \/ Keystroke /\ UNCHANGED sceneVars
    \/ \E k \in Key :
          \/ ModeKeyPressed(k) \/ CycleKey(k) \/ PaceOtherKey(k)
          \/ LeaveAwaiting(k) \/ LeaveParked(k)

Stopped == pc \in {"off", "reset"} /\ UNCHANGED allVars

Next ==
    \/ Unattended \/ Attended
    \/ PromptIdlePoll /\ UNCHANGED sceneVars
    \/ Stopped

Spec == Init /\ [][Next]_allVars /\ WF_allVars(Unattended)
=============================================================================
