------------------------------ MODULE Surface -------------------------------
(***************************************************************************)
(* What the outside world can observe of the program: the framebuffer, the *)
(* event ring and the QR digest drawn on screen.  The operators below take *)
(* such an output record o and return the one a call of the source leaves  *)
(* behind, so that a handler's calls compose in the order it makes them.   *)
(*                                                                         *)
(*   o.fb    the framebuffer outside the digest region: video mode, chrome *)
(*           (the logo), one line of text per row, and the cursor cell     *)
(*   o.ring  the readable events, the window Timeline.tla and EventLog.tla *)
(*           are about                                                     *)
(*   o.toast what is left of the mode toast's time on screen, in polls; 0 *)
(*           for None (the code never stores a toast with no time left)    *)
(*   o.qr    the digest region: <<>> while no QR is on screen, else        *)
(*           <<Shot>>, what the framebuffer hash and the event records of  *)
(*           the last refresh attest                                       *)
(*                                                                         *)
(* A line is its text (a name), a number shown in it and the characters    *)
(* echoed on it.  Glyphs, columns and pixels are abstracted away, except   *)
(* for what happens when text meets text: drawing on a row that holds      *)
(* another text leaves a mixture of the two, Garbled.                      *)
(***************************************************************************)
EXTENDS Naturals, Sequences, Recency

CONSTANTS LastRow,  \* rows 0..LastRow are on screen in every video mode
          RingCap   \* capacity of the event ring

ASSUME SurfaceAssumption == LastRow \in Nat /\ RingCap \in Nat

Row == 0..LastRow

Line(text) == [text |-> text, n |-> 0, echo |-> <<>>]
Numbered(text, k) == [Line(text) EXCEPT !.n = k]
Blank == Line("blank")
Garbled == Line("garbled")

\* renderer/mod.rs: cells outside the screen are not drawn; a cell drawn
\* twice keeps the later glyph, and cells beyond the new text keep theirs.
DrawAt(o, row, line) ==
    IF row \notin Row THEN o
    ELSE [o EXCEPT !.fb.rows[row] =
            IF @ \in {Blank, line} THEN line ELSE Garbled]

\* One more glyph at the end of a row (draw_glyph at a running column).
DrawEcho(o, row, ch) ==
    [o EXCEPT !.fb.rows[row].echo = Append(@, ch)]

\* clear_cell and draw_glyph over the fixed cells of a number.
DrawNumber(o, row, k) == [o EXCEPT !.fb.rows[row].n = k]

ClearRow(o, row) ==
    IF row \notin Row THEN o ELSE [o EXCEPT !.fb.rows[row] = Blank]

\* for row in first..=last { clear_row(row) }
ClearRows(o, first, last) ==
    [o EXCEPT !.fb.rows =
        [r \in Row |-> IF r \in first..last THEN Blank ELSE @[r]]]

-----------------------------------------------------------------------------
(* Events and the digest *)

Keypress(k)            == [kind |-> "Keypress", key |-> k]
LineRendered(row)      == [kind |-> "LineRendered", row |-> row]
SceneTransition(p, q)  == [kind |-> "SceneTransition", from |-> p, to |-> q]
BootloaderDecision(c, k) ==
    [kind |-> "BootloaderDecision", choice |-> c, attempt |-> k]
PasteReceived(k, ok)   == [kind |-> "PasteReceived", len |-> k, correct |-> ok]
BootloaderTimeout      == [kind |-> "BootloaderTimeout"]

\* push_event, both copies.
Push(o, e) == [o EXCEPT !.ring = Recent(Append(@, e), RingCap)]

Shot(o) == [fb |-> o.fb, ring |-> o.ring]

\* DigestRefresher::refresh as seen on screen.
Refresh(o) == [o EXCEPT !.qr = <<Shot(o)>>]

\* Draw a line, record it, refresh: the unit both state machines play.
RenderLine(o, row, line) ==
    Refresh(Push(DrawAt(o, row, line), LineRendered(row)))

-----------------------------------------------------------------------------
(* Conditions on an output record *)

NoGhost(o)     == \A r \in Row : o.fb.rows[r].text # "garbled"
QrShown(o)     == o.qr # <<>>
QrSeesScreen(o) == QrShown(o) /\ o.qr[1].fb = o.fb
QrCurrent(o)   == o.qr = <<Shot(o)>>

\* The events recorded since the last refresh, when none has been evicted.
Unattested(o) == SubSeq(o.ring, Len(o.qr[1].ring) + 1, Len(o.ring))
=============================================================================
