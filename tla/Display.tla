------------------------------- MODULE Display --------------------------------
(***************************************************************************)
(* The renderer's geometry (src/renderer/mod.rs): which of the firmware's  *)
(* modes a request gets, where the logo, the digest, the toast and the     *)
(* lines of text land on it, and which pixels the framebuffer hash reads.  *)
(* A mode is a pair <<width, height>> in pixels.  What the texts say and   *)
(* when they are drawn is Surface's business; here a line is the number of *)
(* cells the longest text of its row takes.                                *)
(***************************************************************************)
EXTENDS Integers, Sequences

CONSTANTS ModeLists    \* the mode lists a firmware may report

\* GOP guarantees at least one mode; 640x480 is the smallest supported.
ASSUME DisplayAssumption ==
    \A list \in ModeLists :
        /\ list \in Seq(Nat \X Nat) /\ list # <<>>
        /\ \A i \in DOMAIN list : list[i][1] >= 640 /\ list[i][2] >= 480

VARIABLES modes,          \* gop.modes(), in the firmware's order
          gop,            \* index of the mode the firmware is in
          width, height,  \* Renderer's copy of its resolution
          asked,          \* the last request, and whether
          obeyed,         \*   the firmware did as it was told
          logo, digest, toast,  \* the areas painted since the last clear
          hash            \* what crc32c_framebuffer_excluding_digest read

vars == <<modes, gop, width, height, asked, obeyed, logo, digest, toast, hash>>

-----------------------------------------------------------------------------
(* nearest_mode *)

AbsDiff(a, b) == IF a > b THEN a - b ELSE b - a
Score(req, m) == AbsDiff(req[1], m[1]) + AbsDiff(req[2], m[2])

\* A slip: the tie on the height without the tie on the width.
BetterLoosely(req, m, best) ==
    LET s == Score(req, m)  b == Score(req, best)
    IN  s < b \/ (s = b /\ m[1] < best[1]) \/ (s = b /\ m[2] < best[2])

Better(req, m, best) ==
    LET s == Score(req, m)  b == Score(req, best)
    IN  \/ s < b
        \/ s = b /\ m[1] < best[1]
        \/ s = b /\ m[1] = best[1] /\ m[2] < best[2]

nearest_mode(req, available) ==
    LET best[i \in DOMAIN available] ==
            IF i = 1 THEN 1
            ELSE LET b == best[i - 1]
                 IN  IF Better(req, available[i], available[b]) THEN i ELSE b
    IN  best[Len(available)]

-----------------------------------------------------------------------------
(* Cells and areas *)

CELL_W == 8
CELL_H == 16
MARGIN_X == 16
MARGIN_Y == 16
DIGEST_REGION_PX == (37 + 2 * 4) * 4

AtMost(a, b) == IF a < b THEN a ELSE b
SaturatingSub(a, b) == IF a > b THEN a - b ELSE 0

screen_cols(w) == SaturatingSub(w, 2 * MARGIN_X) \div CELL_W

\* A slip: rows counted over the whole height, margins included.
rows_with_margins(h) == h \div CELL_H
screen_rows(h) == SaturatingSub(h, 2 * MARGIN_Y) \div CELL_H

Area(x, y, w, h) == [x |-> x, y |-> y, w |-> w, h |-> h]
Nowhere == Area(0, 0, 0, 0)

\* n cells of text from column col on: draw_glyph drops those off the screen.
Cells(w, h, col, row, n) ==
    IF row < screen_rows(h) /\ col < screen_cols(w)
    THEN Area(MARGIN_X + col * CELL_W, MARGIN_Y + row * CELL_H,
              AtMost(n, screen_cols(w) - col) * CELL_W, CELL_H)
    ELSE Nowhere

\* A slip: the last 16 columns of the smallest mode.
LogoBaseline(w) ==
    Area(MARGIN_X + SaturatingSub(screen_cols(640), 16) * CELL_W, MARGIN_Y, 128, 128)

\* draw_chrome: the logo, 128 by 128 pixels, in the last 16 columns.
\* draw_text_bitmap does not clip.
Logo(w) ==
    Area(MARGIN_X + SaturatingSub(screen_cols(w), 16) * CELL_W, MARGIN_Y, 128, 128)

\* draw_toast: the last row; the longest text names two modes of four digits.
Toast(w, h) == Cells(w, h, 0, SaturatingSub(screen_rows(h), 1), 38)

DigestXY(w, h) ==
    <<SaturatingSub(w, MARGIN_X + DIGEST_REGION_PX),
      SaturatingSub(h, MARGIN_Y + CELL_H + DIGEST_REGION_PX)>>

\* draw_digest: right-anchored, above the toast's row.
DigestArea(w, h) ==
    Area(DigestXY(w, h)[1], DigestXY(w, h)[2], DIGEST_REGION_PX, DIGEST_REGION_PX)

-----------------------------------------------------------------------------
(* crc32c_framebuffer_excluding_digest *)

MAX_WIDTH == 1920

\* A slip: the digest left out where it sits at 640x480.
HashXYBaseline(w, h) ==
    <<SaturatingSub(640, MARGIN_X + DIGEST_REGION_PX),
      SaturatingSub(480, MARGIN_Y + CELL_H + DIGEST_REGION_PX)>>

\* The function computes the origin of the digest again, for itself.
HashXY(w, h) ==
    <<SaturatingSub(w, MARGIN_X + DIGEST_REGION_PX),
      SaturatingSub(h, MARGIN_Y + CELL_H + DIGEST_REGION_PX)>>

\* The rows of the digest's band are read in two pieces, the others whole.
HashOf(w, h) ==
    LET row_width == AtMost(w, MAX_WIDTH)
        o         == HashXY(w, h)
    IN  [rows        |-> h,
         row_width   |-> row_width,
         left_end    |-> AtMost(o[1], row_width),
         right_start |-> AtMost(o[1] + DIGEST_REGION_PX, row_width),
         top         |-> o[2],
         bottom      |-> o[2] + DIGEST_REGION_PX]

Hashed(px, py) ==
    /\ py < hash.rows /\ px < hash.row_width
    /\ \/ py < hash.top \/ py >= hash.bottom
       \/ px < hash.left_end \/ px >= hash.right_start

-----------------------------------------------------------------------------
(* The lines of text *)

\* The cells the longest text of rows 0 to 18 takes: BOOT_SCRIPT_PRE.
ScriptRows ==
    <<46, 52, 46, 43, 49, 63, 47, 41, 41, 41, 41, 50, 43, 43, 47, 43, 45, 47, 18>>

\* Rows 19 and 20: the bootloader's telemetry lines.
TelemetryRows == <<48, 66>>

\* Rows 21 to 26: the introduction to the blob (longer than prompt and
\* countdown), EMERGENCY SAFE BOOT (than the nudge), the halt line (than the
\* blob), SYSTEM ONLINE with its cursor, a full paste, the indicator.
BootloaderRows == <<119, 59, 40, 39, 90, 23>>

Rows == 0..26
RowCells(row) ==
    CASE row < 19       -> ScriptRows[row + 1]
      [] row \in 19..20 -> TelemetryRows[row - 18]
      [] row > 20       -> BootloaderRows[row - 20]

Line(row) == Cells(width, height, 0, row, RowCells(row))

\* The cursor of the awaiting and of the parked screen.
AwaitingCursor == Cells(width, height, 0, 0, 1)
ParkedCursor == Cells(width, height, 38, 24, 1)

-----------------------------------------------------------------------------
(* Renderer and Scene *)

MODE_KEYS == {<<640, 480>>, <<800, 600>>, <<1024, 768>>,
              <<1280, 720>>, <<1280, 1024>>, <<1920, 1080>>}

\* A slip: the request taken for the truth.
QueryBelieved(req) == width' = req[1] /\ height' = req[2]

Query(req) == width' = modes[gop'][1] /\ height' = modes[gop'][2]

\* set_mode: a firmware that refuses ends up in any mode, and is asked which.
set_mode(req) ==
    /\ asked' = req /\ gop' \in DOMAIN modes
    /\ \/ obeyed' = TRUE /\ gop' = nearest_mode(req, modes)
       \/ obeyed' = FALSE
    /\ Query(req)
    /\ UNCHANGED modes

\* clear, draw_chrome and a refresh, at the resolution just queried.
Repaint ==
    /\ logo' = Logo(width')
    /\ hash' = HashOf(width', height')
    /\ digest' = DigestArea(width', height')

Unpainted == logo = Nowhere

\* Init: GOP is in whatever mode the firmware came up in.
Init ==
    /\ modes \in ModeLists
    /\ gop \in DOMAIN modes
    /\ width = modes[gop][1] /\ height = modes[gop][2]
    /\ asked = <<0, 0>> /\ obeyed = FALSE
    /\ logo = Nowhere /\ digest = Nowhere /\ toast = Nowhere
    /\ hash = HashOf(0, 0)

\* Renderer::new, and the chrome and first refresh of Scene::run.
Boot ==
    /\ Unpainted
    /\ set_mode(<<1024, 768>>)
    /\ Repaint
    /\ UNCHANGED toast

\* A mode key, or one step of a cycle over available_modes.
SwitchMode(req) ==
    /\ ~Unpainted
    /\ set_mode(req)
    /\ Repaint
    /\ toast' = Toast(width', height')

\* tick_toast: the toast goes by a repaint.
ToastExpires ==
    /\ toast # Nowhere /\ toast' = Nowhere
    /\ UNCHANGED <<modes, gop, width, height, asked, obeyed>>
    /\ Repaint

Next ==
    \/ Boot
    \/ \E req \in MODE_KEYS : SwitchMode(req)
    \/ \E i \in DOMAIN modes : SwitchMode(modes[i])
    \/ ToastExpires

Spec == Init /\ [][Next]_vars

-----------------------------------------------------------------------------
(* Properties *)

IsArea(a) == a.x \in Nat /\ a.y \in Nat /\ a.w \in Nat /\ a.h \in Nat

\* The renderer's copy of the resolution is the mode the firmware is in,
\* also when that is not the one asked for.
TypeOK ==
    /\ modes \in ModeLists /\ gop \in DOMAIN modes
    /\ <<width, height>> = modes[gop]
    /\ obeyed \in BOOLEAN
    /\ IsArea(logo) /\ IsArea(digest) /\ IsArea(toast)

\* A firmware that obeys shows the nearest mode: none is nearer, of those as
\* near none is narrower, of those as wide none is lower.  Nothing of it
\* depends on the order of the firmware's list.
NearestIsBest ==
    obeyed => \A i \in DOMAIN modes :
        LET m == modes[i]
            near == Score(asked, <<width, height>>)
        IN  \/ near < Score(asked, m)
            \/ /\ near = Score(asked, m)
               /\ width < m[1] \/ (width = m[1] /\ height <= m[2])

Overlap(a, b) ==
    /\ a.x < b.x + b.w /\ b.x < a.x + a.w
    /\ a.y < b.y + b.h /\ b.y < a.y + a.h

OnScreen(a) ==
    a.x + a.w <= modes[gop][1] /\ a.y + a.h <= modes[gop][2]

\* The assertions of renderer/mod.rs:126-141 at run time, in every mode from
\* 640x480 up, asked for or not: digest, logo, toast and cursors are on the
\* screen the firmware shows, and none covers another.
WidgetsApart ==
    LET widgets == <<logo, digest, toast, AwaitingCursor, ParkedCursor>>
    IN  ~Unpainted => \A i \in 1..5 :
            /\ OnScreen(widgets[i])
            /\ \A j \in 1..(i - 1) : ~Overlap(widgets[i], widgets[j])

\* No row of text reaches the toast's, and none is lost below the screen; no
\* text runs into the logo from 664 pixels of width on, none into the digest
\* from 660 of height on, and none is cut off from 984 of width on.
TextStaysClear ==
    \A row \in Rows :
        /\ Line(row) # Nowhere /\ OnScreen(Line(row))
        /\ ~Overlap(Line(row), toast)
        /\ width >= 664 => ~Overlap(Line(row), logo)
        /\ height >= 660 => ~Overlap(Line(row), digest)
        /\ width >= 984 => Line(row).w = RowCells(row) * CELL_W

InArea(px, py, a) == px \in a.x..(a.x + a.w - 1) /\ py \in a.y..(a.y + a.h - 1)

\* What the hash reads is made of rectangles: it is known from the pixels on
\* either side of an edge.
EdgesX == {0, digest.x - 1, digest.x, digest.x + digest.w - 1,
           digest.x + digest.w, width - 1}
EdgesY == {0, digest.y - 1, digest.y, digest.y + digest.h - 1,
           digest.y + digest.h, height - 1}

\* Up to 1920 pixels of width, the hash reads every pixel but the digest's
\* own, wherever the digest is.
HashCoversRest ==
    ~Unpainted /\ width <= MAX_WIDTH =>
        \A px \in EdgesX, py \in EdgesY : Hashed(px, py) <=> ~InArea(px, py, digest)

\* "Compute CRC32C of every framebuffer pixel **outside** the right-anchored
\* digest region" (renderer/mod.rs:535): the same on every mode the firmware
\* shows when asked.
HashCoversEveryMode ==
    ~Unpainted /\ obeyed =>
        \A px \in EdgesX, py \in EdgesY : Hashed(px, py) <=> ~InArea(px, py, digest)

\* "A QR digest renders in a fixed region at every GOP mode the harness
\* supports (640x480 through 1920x1080), without colliding with the logo,
\* boot transcript, bootloader scene rows, or mode-switch toast"
\* (PLAN-visual-digest.md:446-450).
DigestCollidesWithNoText ==
    obeyed /\ <<width, height>> \in MODE_KEYS =>
        \A row \in Rows : ~Overlap(Line(row), digest)
=============================================================================
