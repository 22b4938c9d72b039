----------------------------- MODULE Display_proof -----------------------------
(***************************************************************************)
(* The layout of the screen, for every list of modes a firmware may report *)
(* and every firmware that answers a request with a mode of its own: what  *)
(* renderer/mod.rs:126-141 asserts at 640x480 is proved for every mode     *)
(* from there up.                                                          *)
(***************************************************************************)
EXTENDS Display, NaturalsInduction, WellFoundedInduction, TLAPS

-----------------------------------------------------------------------------
(* Where things are, without the saturations *)

Dim(w, h) == w \in Nat /\ w >= 640 /\ h \in Nat /\ h >= 480

\* The whole cells of a screen, as bounds on their number.
LEMMA CellCounts ==
    ASSUME NEW w, NEW h, Dim(w, h)
    PROVE  /\ screen_cols(w) \in Nat /\ screen_cols(w) >= 76
           /\ 8 * screen_cols(w) <= w - 32 /\ w - 32 < 8 * screen_cols(w) + 8
           /\ screen_rows(h) \in Nat /\ screen_rows(h) >= 28
           /\ 16 * screen_rows(h) <= h - 32 /\ h - 32 < 16 * screen_rows(h) + 16
BY SMT DEF Dim, screen_cols, screen_rows, SaturatingSub, MARGIN_X, MARGIN_Y, CELL_W, CELL_H

LEMMA LogoPlace ==
    ASSUME NEW w, NEW h, Dim(w, h)
    PROVE  \E x \in Nat : /\ Logo(w) = Area(x, 16, 128, 128)
                          /\ w - 152 < x /\ x <= w - 144
                          /\ (w >= 664 => x >= 520)
<1>1. SaturatingSub(screen_cols(w), 16) = screen_cols(w) - 16
  BY CellCounts DEF SaturatingSub
<1>2. Logo(w) = Area(16 + (screen_cols(w) - 16) * 8, 16, 128, 128)
  BY <1>1 DEF Logo, MARGIN_X, MARGIN_Y, CELL_W
<1> DEFINE c == screen_cols(w)
           x == 16 + (c - 16) * 8
<1>3. c \in Nat /\ c >= 76 /\ 8 * c <= w - 32 /\ w - 32 < 8 * c + 8 /\ w \in Nat
  BY CellCounts DEF Dim
<1> HIDE DEF c
<1>4. x \in Nat /\ w - 152 < x /\ x <= w - 144
  BY <1>3
<1>5. w >= 664 => x >= 520
  <2>1. w >= 664 => c >= 79
    BY <1>3
  <2> QED
    BY <1>3, <2>1
<1> HIDE DEF x
<1> QED
  BY <1>2, <1>4, <1>5 DEF x, c

LEMMA DigestPlace ==
    ASSUME NEW w, NEW h, Dim(w, h)
    PROVE  /\ DigestArea(w, h) = Area(w - 196, h - 212, 180, 180)
           /\ DigestXY(w, h) = <<w - 196, h - 212>>
<1>1. DIGEST_REGION_PX = 180
  BY DEF DIGEST_REGION_PX
<1>2. DigestXY(w, h) = <<w - 196, h - 212>>
  BY <1>1 DEF Dim, DigestXY, SaturatingSub, MARGIN_X, MARGIN_Y, CELL_H
<1> QED
  BY <1>1, <1>2 DEF DigestArea

\* A run of cells from the first column, on a row that is on the screen.
LEMMA CellsPlace ==
    ASSUME NEW w, NEW h, Dim(w, h), NEW col \in 0..75, NEW row \in 0..27,
           NEW n \in Nat, n >= 1
    PROVE  \E len \in Nat :
               /\ Cells(w, h, col, row, n) = Area(16 + col * 8, 16 + row * 16, len, 16)
               /\ len >= 8 /\ len <= n * 8 /\ 16 + col * 8 + len <= w - 16
               /\ (w >= 32 + (col + n) * 8 => len = n * 8)
<1> DEFINE cols == screen_cols(w)
           k == AtMost(n, cols - col)
<1>1. cols \in Nat /\ cols >= 76 /\ 8 * cols <= w - 32 /\ w - 32 < 8 * cols + 8
      /\ row < screen_rows(h)
  BY CellCounts
<1> HIDE DEF cols
<1>2. k \in Nat /\ k >= 1 /\ k <= n /\ col + k <= cols /\ (n <= cols - col => k = n)
  BY <1>1 DEF AtMost
<1>3. Cells(w, h, col, row, n) = Area(16 + col * 8, 16 + row * 16, k * 8, 16)
  BY <1>1 DEF Cells, MARGIN_X, MARGIN_Y, CELL_W, CELL_H, cols
<1> HIDE DEF k
<1>4. w >= 32 + (col + n) * 8 => k = n
  BY <1>1, <1>2 DEF Dim
<1> QED
  BY <1>1, <1>2, <1>3, <1>4 DEF Dim

LEMMA OneCell ==
    ASSUME NEW w, NEW h, Dim(w, h), NEW col \in 0..75, NEW row \in 0..27
    PROVE  Cells(w, h, col, row, 1) = Area(16 + col * 8, 16 + row * 16, 8, 16)
<1> DEFINE cols == screen_cols(w)
<1>1. cols \in Nat /\ cols >= 76 /\ row < screen_rows(h)
  BY CellCounts
<1> HIDE DEF cols
<1>2. AtMost(1, cols - col) = 1
  BY <1>1 DEF AtMost
<1> QED
  BY <1>1, <1>2 DEF Cells, MARGIN_X, MARGIN_Y, CELL_W, CELL_H, cols

LEMMA ToastPlace ==
    ASSUME NEW w, NEW h, Dim(w, h)
    PROVE  \E y \in Nat : /\ Toast(w, h) = Area(16, y, 304, 16)
                          /\ h - 48 < y /\ y <= h - 32 /\ y >= 448
<1> DEFINE rows == screen_rows(h)
           cols == screen_cols(w)
<1>1. /\ rows \in Nat /\ rows >= 28 /\ 16 * rows <= h - 32 /\ h - 32 < 16 * rows + 16
      /\ cols \in Nat /\ cols >= 76
  BY CellCounts
<1> HIDE DEF rows, cols
<1>2. SaturatingSub(rows, 1) = rows - 1
  BY <1>1 DEF SaturatingSub
<1>3. AtMost(38, cols - 0) = 38
  BY <1>1 DEF AtMost
<1>4. Toast(w, h) = Area(16, 16 + (rows - 1) * 16, 304, 16)
  BY <1>1, <1>2, <1>3 DEF Toast, Cells, MARGIN_X, MARGIN_Y, CELL_W, CELL_H, rows, cols
<1> QED
  BY <1>1, <1>4 DEF Dim

-----------------------------------------------------------------------------
(* What the variables hold *)

LEMMA ModesAreLarge ==
    ASSUME TypeOK
    PROVE  Dim(width, height)
<1>1. modes \in Seq(Nat \X Nat) /\ gop \in 1..Len(modes)
      /\ modes[gop][1] >= 640 /\ modes[gop][2] >= 480
  BY DisplayAssumption DEF TypeOK
<1>2. modes[gop] \in Nat \X Nat
  BY <1>1
<1> QED
  BY <1>1, <1>2 DEF TypeOK, Dim

LEMMA QueryType ==
    ASSUME TypeOK, NEW req, set_mode(req)
    PROVE  /\ modes' \in ModeLists /\ gop' \in DOMAIN modes' /\ obeyed' \in BOOLEAN
           /\ <<width', height'>> = modes'[gop'] /\ Dim(width', height')
<1>1. /\ modes' = modes /\ modes \in ModeLists /\ gop' \in DOMAIN modes
      /\ width' = modes[gop'][1] /\ height' = modes[gop'][2] /\ obeyed' \in BOOLEAN
  BY DEF TypeOK, set_mode, Query
<1>2. modes \in Seq(Nat \X Nat) /\ modes[gop'][1] >= 640 /\ modes[gop'][2] >= 480
  BY <1>1, DisplayAssumption
<1>3. modes[gop'] \in Nat \X Nat
  BY <1>1, <1>2
<1> QED
  BY <1>1, <1>2, <1>3 DEF Dim

\* Once painted, everything is where the resolution of the moment puts it:
\* nothing outlives a change of mode.
PaintInv ==
    /\ Unpainted => toast = Nowhere /\ digest = Nowhere
    /\ ~Unpainted => /\ logo = Logo(width)
                     /\ digest = DigestArea(width, height)
                     /\ hash = HashOf(width, height)
    /\ toast \in {Nowhere, Toast(width, height)}

LEMMA AreaType ==
    ASSUME NEW x \in Nat, NEW y \in Nat, NEW w \in Nat, NEW h \in Nat
    PROVE  IsArea(Area(x, y, w, h))
BY DEF IsArea, Area

LEMMA DigestType ==
    ASSUME NEW w, NEW h, Dim(w, h)
    PROVE  IsArea(DigestArea(w, h))
<1>1. w - 196 \in Nat /\ h - 212 \in Nat
  BY DEF Dim
<1> QED
  BY <1>1, DigestPlace, AreaType

LEMMA RepaintFacts ==
    ASSUME Dim(width', height'), Repaint
    PROVE  /\ logo' = Logo(width') /\ digest' = DigestArea(width', height')
           /\ hash' = HashOf(width', height')
           /\ logo' # Nowhere /\ IsArea(logo') /\ IsArea(digest')
<1>1. /\ logo' = Logo(width') /\ digest' = DigestArea(width', height')
      /\ hash' = HashOf(width', height')
  BY DEF Repaint
<1>2. PICK x \in Nat : logo' = Area(x, 16, 128, 128)
  BY <1>1, LogoPlace
<1>3. logo' # Nowhere
  BY <1>2 DEF Area, Nowhere
<1>5. IsArea(logo') /\ IsArea(digest')
  BY <1>1, <1>2, AreaType, DigestType
<1> QED
  BY <1>1, <1>3, <1>5

LEMMA ToastType ==
    ASSUME NEW w, NEW h, Dim(w, h)
    PROVE  IsArea(Toast(w, h)) /\ IsArea(Nowhere)
BY ToastPlace DEF IsArea, Area, Nowhere

LEMMA NextInv ==
    ASSUME TypeOK, PaintInv, [Next]_vars
    PROVE  TypeOK' /\ PaintInv'
<1>1. CASE UNCHANGED vars
  BY <1>1 DEF vars, TypeOK, PaintInv, Unpainted
<1>2. CASE Boot
  <2>1. Dim(width', height')
    BY <1>2, QueryType DEF Boot
  <2>2. toast' = Nowhere
    BY <1>2 DEF Boot, PaintInv
  <2>3. TypeOK'
    BY <1>2, <2>1, <2>2, QueryType, RepaintFacts, ToastType DEF Boot, TypeOK
  <2> QED
    BY <1>2, <2>1, <2>2, <2>3, RepaintFacts DEF Boot, PaintInv, Unpainted
<1>3. ASSUME NEW req, SwitchMode(req)
      PROVE  TypeOK' /\ PaintInv'
  <2>1. Dim(width', height')
    BY <1>3, QueryType DEF SwitchMode
  <2>2. toast' = Toast(width', height')
    BY <1>3 DEF SwitchMode
  <2>3. TypeOK'
    BY <1>3, <2>1, <2>2, QueryType, RepaintFacts, ToastType DEF SwitchMode, TypeOK
  <2> QED
    BY <1>3, <2>1, <2>2, <2>3, RepaintFacts DEF SwitchMode, PaintInv, Unpainted
<1>4. CASE ToastExpires
  <2>1. Dim(width', height')
    BY <1>4, ModesAreLarge DEF ToastExpires
  <2>2. toast' = Nowhere
    BY <1>4 DEF ToastExpires
  <2>3. TypeOK'
    BY <1>4, <2>1, <2>2, RepaintFacts, ToastType DEF ToastExpires, TypeOK
  <2> QED
    BY <1>4, <2>1, <2>2, <2>3, RepaintFacts DEF ToastExpires, PaintInv, Unpainted
<1> QED
  BY <1>1, <1>2, <1>3, <1>4 DEF Next

\* The renderer's idea of the screen is the firmware's, and everything on it
\* was painted for it.
THEOREM ResolutionTrue == Spec => [](TypeOK /\ PaintInv)
<1>1. Init => TypeOK /\ PaintInv
  <2> SUFFICES ASSUME Init
               PROVE  TypeOK /\ PaintInv
    OBVIOUS
  <2>1. modes \in Seq(Nat \X Nat) /\ gop \in 1..Len(modes)
    BY DisplayAssumption DEF Init
  <2>2. modes[gop] \in Nat \X Nat
    BY <2>1
  <2>3. <<width, height>> = modes[gop]
    BY <2>2 DEF Init
  <2>4. IsArea(Nowhere)
    BY DEF IsArea, Nowhere, Area
  <2> QED
    BY <2>3, <2>4 DEF Init, TypeOK, PaintInv, Unpainted
<1> QED
  BY <1>1, NextInv, PTL DEF Spec

-----------------------------------------------------------------------------
(* The widgets *)

\* Two areas are apart when one ends where the other begins, or before.
LEMMA Apart ==
    ASSUME NEW a, NEW b, IsArea(a), IsArea(b),
           \/ a.x + a.w <= b.x \/ b.x + b.w <= a.x
           \/ a.y + a.h <= b.y \/ b.y + b.h <= a.y
    PROVE  ~Overlap(a, b) /\ ~Overlap(b, a)
BY DEF IsArea, Overlap

LEMMA NowhereApart ==
    ASSUME NEW a, IsArea(a)
    PROVE  ~Overlap(a, Nowhere) /\ ~Overlap(Nowhere, a)
BY DEF IsArea, Overlap, Nowhere, Area

\* The boxes the widgets stay in, on a screen of w by h.
LEMMA WidgetBoxes ==
    ASSUME TypeOK, PaintInv, ~Unpainted
    PROVE  /\ IsArea(logo) /\ logo.x + logo.w <= width /\ logo.x >= 488
           /\ logo.y = 16 /\ logo.h = 128 /\ (width >= 664 => logo.x >= 520)
           /\ IsArea(digest) /\ digest.x = width - 196 /\ digest.w = 180
           /\ digest.y = height - 212 /\ digest.h = 180
           /\ toast = Nowhere
              \/ (IsArea(toast) /\ toast.x = 16 /\ toast.w = 304 /\ toast.h = 16
                  /\ toast.y >= 448 /\ toast.y <= height - 32)
<1>1. Dim(width, height)
  BY ModesAreLarge
<1>2. PICK x \in Nat : /\ logo = Area(x, 16, 128, 128)
                      /\ width - 152 < x /\ x <= width - 144
                      /\ (width >= 664 => x >= 520)
  BY <1>1, LogoPlace DEF PaintInv
<1>3. x >= 488 /\ x + 128 <= width
  BY <1>1, <1>2 DEF Dim
<1>4. IsArea(logo) /\ logo.x = x /\ logo.w = 128 /\ logo.y = 16 /\ logo.h = 128
  BY <1>2 DEF IsArea, Area
<1>5. digest = Area(width - 196, height - 212, 180, 180)
  BY <1>1, DigestPlace DEF PaintInv
<1>6. /\ digest.x = width - 196 /\ digest.w = 180
      /\ digest.y = height - 212 /\ digest.h = 180
  BY <1>5 DEF Area
<1>7. ASSUME toast = Toast(width, height)
      PROVE  /\ IsArea(toast) /\ toast.x = 16 /\ toast.w = 304 /\ toast.h = 16
             /\ toast.y >= 448 /\ toast.y <= height - 32
  <2>1. PICK y \in Nat : toast = Area(16, y, 304, 16) /\ y <= height - 32 /\ y >= 448
    BY <1>1, <1>7, ToastPlace
  <2> QED
    BY <2>1 DEF IsArea, Area
<1> QED
  BY <1>2, <1>3, <1>4, <1>6, <1>7 DEF TypeOK, PaintInv

LEMMA CursorBoxes ==
    ASSUME TypeOK
    PROVE  /\ IsArea(AwaitingCursor) /\ AwaitingCursor.x = 16 /\ AwaitingCursor.w = 8
           /\ AwaitingCursor.y = 16 /\ AwaitingCursor.h = 16
           /\ IsArea(ParkedCursor) /\ ParkedCursor.x = 320 /\ ParkedCursor.w = 8
           /\ ParkedCursor.y = 400 /\ ParkedCursor.h = 16
<1>1. Dim(width, height)
  BY ModesAreLarge
<1>2. ASSUME NEW col \in 0..75, NEW row \in 0..27
      PROVE  Cells(width, height, col, row, 1) = Area(16 + col * 8, 16 + row * 16, 8, 16)
  BY <1>1, OneCell
<1>3. /\ 0 \in 0..75 /\ 0 \in 0..27 /\ 38 \in 0..75 /\ 24 \in 0..27
      /\ 16 + 0 * 8 = 16 /\ 16 + 0 * 16 = 16 /\ 16 + 38 * 8 = 320 /\ 16 + 24 * 16 = 400
  OBVIOUS
<1>5. AwaitingCursor = Area(16, 16, 8, 16)
  <2>1. AwaitingCursor = Area(16 + 0 * 8, 16 + 0 * 16, 8, 16)
    BY <1>2, <1>3 DEF AwaitingCursor
  <2> QED
    BY <1>3, <2>1
<1>6. ParkedCursor = Area(320, 400, 8, 16)
  <2>1. ParkedCursor = Area(16 + 38 * 8, 16 + 24 * 16, 8, 16)
    BY <1>2, <1>3 DEF ParkedCursor
  <2> QED
    BY <1>3, <2>1
<1>4. AwaitingCursor = Area(16, 16, 8, 16) /\ ParkedCursor = Area(320, 400, 8, 16)
  BY <1>5, <1>6
<1> QED
  BY <1>4 DEF IsArea, Area

\* Digest, logo, toast and the two cursors are on the screen and apart from
\* each other, in every mode and after every refusal.
THEOREM WidgetsStayApart == Spec => []WidgetsApart
<1>1. ASSUME TypeOK, PaintInv, ~Unpainted
      PROVE  LET widgets == <<logo, digest, toast, AwaitingCursor, ParkedCursor>>
             IN  \A i \in 1..5 : /\ OnScreen(widgets[i])
                                 /\ \A j \in 1..(i - 1) : ~Overlap(widgets[i], widgets[j])
  <2> DEFINE A == AwaitingCursor
             P == ParkedCursor
  <2>1. /\ width \in Nat /\ width >= 640 /\ height \in Nat /\ height >= 480
        /\ modes[gop][1] = width /\ modes[gop][2] = height
    <3>1. Dim(width, height) /\ modes[gop] = <<width, height>>
      BY <1>1, ModesAreLarge DEF TypeOK
    <3> QED
      BY <3>1 DEF Dim
  <2>2. /\ IsArea(logo) /\ logo.x + logo.w <= width /\ logo.x >= 488
        /\ logo.y = 16 /\ logo.h = 128
        /\ IsArea(digest) /\ digest.x = width - 196 /\ digest.w = 180
        /\ digest.y = height - 212 /\ digest.h = 180
    BY <1>1, WidgetBoxes
  <2>3. /\ IsArea(A) /\ A.x = 16 /\ A.w = 8 /\ A.y = 16 /\ A.h = 16
        /\ IsArea(P) /\ P.x = 320 /\ P.w = 8 /\ P.y = 400 /\ P.h = 16
    BY <1>1, CursorBoxes
  <2> HIDE DEF A, P
  <2>4. OnScreen(logo) /\ OnScreen(digest) /\ OnScreen(A) /\ OnScreen(P)
    BY <2>1, <2>2, <2>3 DEF OnScreen
  <2>5. /\ ~Overlap(digest, logo) /\ ~Overlap(A, logo) /\ ~Overlap(P, logo)
        /\ ~Overlap(A, digest) /\ ~Overlap(P, digest) /\ ~Overlap(P, A)
    <3>1. logo.y + logo.h <= digest.y
      BY <2>1, <2>2
    <3>2. A.x + A.w <= logo.x /\ P.x + P.w <= logo.x
      BY <2>2, <2>3 DEF IsArea
    <3>3. A.x + A.w <= digest.x /\ P.x + P.w <= digest.x
      BY <2>1, <2>2, <2>3
    <3>4. A.x + A.w <= P.x
      BY <2>3
    <3> QED
      BY <2>2, <2>3, <3>1, <3>2, <3>3, <3>4, Apart
  <2>6. /\ OnScreen(toast) /\ ~Overlap(toast, logo) /\ ~Overlap(toast, digest)
        /\ ~Overlap(A, toast) /\ ~Overlap(P, toast)
    <3>1. CASE toast = Nowhere
      <4>1. OnScreen(Nowhere)
        BY <2>1 DEF OnScreen, Nowhere, Area
      <4> QED
        BY <2>2, <2>3, <3>1, <4>1, NowhereApart
    <3>2. CASE IsArea(toast) /\ toast.x = 16 /\ toast.w = 304 /\ toast.h = 16
               /\ toast.y >= 448 /\ toast.y <= height - 32
      <4>1. OnScreen(toast)
        BY <2>1, <3>2 DEF OnScreen, IsArea
      <4>2. toast.x + toast.w <= logo.x /\ toast.x + toast.w <= digest.x
        BY <2>1, <2>2, <3>2 DEF IsArea
      <4>3. A.y + A.h <= toast.y /\ P.y + P.h <= toast.y
        BY <2>3, <3>2 DEF IsArea
      <4> QED
        BY <2>2, <2>3, <3>2, <4>1, <4>2, <4>3, Apart
    <3> QED
      BY <1>1, <3>1, <3>2, WidgetBoxes
  <2> QED
    BY <2>4, <2>5, <2>6 DEF A, P
<1>2. TypeOK /\ PaintInv => WidgetsApart
  BY <1>1 DEF WidgetsApart
<1> QED
  BY <1>2, ResolutionTrue, PTL

-----------------------------------------------------------------------------
(* The hash *)

\* Every pixel of the screen, not only those beside an edge.
LEMMA HashReads ==
    ASSUME TypeOK, PaintInv, ~Unpainted, width <= MAX_WIDTH,
           NEW px \in 0..(width - 1), NEW py \in 0..(height - 1)
    PROVE  Hashed(px, py) <=> ~InArea(px, py, digest)
<1>1. width \in Nat /\ width >= 640 /\ height \in Nat /\ height >= 480 /\ width <= 1920
  BY ModesAreLarge DEF Dim, MAX_WIDTH
<1>2. DigestXY(width, height) = <<width - 196, height - 212>> /\ DIGEST_REGION_PX = 180
  BY ModesAreLarge, DigestPlace DEF DIGEST_REGION_PX
<1>3. hash = HashOf(width, height)
  BY DEF PaintInv
<1>4. /\ AtMost(width, MAX_WIDTH) = width
      /\ AtMost(width - 196, width) = width - 196
      /\ AtMost((width - 196) + 180, width) = width - 16
  BY <1>1 DEF AtMost, MAX_WIDTH
<1>5. HashXY(width, height)[1] = width - 196 /\ HashXY(width, height)[2] = height - 212
  <2>1. HashXY(width, height) = DigestXY(width, height)
    BY DEF HashXY, DigestXY
  <2> QED
    BY <1>2, <2>1
<1>6. /\ hash.rows = height /\ hash.row_width = width
      /\ hash.left_end = width - 196 /\ hash.right_start = width - 16
      /\ hash.top = height - 212 /\ hash.bottom = (height - 212) + 180
  BY <1>2, <1>3, <1>4, <1>5 DEF HashOf
<1>7. /\ digest.x = width - 196 /\ digest.w = 180
      /\ digest.y = height - 212 /\ digest.h = 180
  BY WidgetBoxes
<1> QED
  BY <1>1, <1>6, <1>7 DEF Hashed, InArea

\* Up to 1920 pixels of width the hash covers exactly the pixels around the
\* digest.
THEOREM HashStaysComplete == Spec => []HashCoversRest
<1>1. ASSUME TypeOK, PaintInv, ~Unpainted, width <= MAX_WIDTH
      PROVE  \A px \in EdgesX, py \in EdgesY :
                 Hashed(px, py) <=> ~InArea(px, py, digest)
  <2>1. width \in Nat /\ width >= 640 /\ height \in Nat /\ height >= 480
    BY <1>1, ModesAreLarge DEF Dim
  <2>2. /\ digest.x = width - 196 /\ digest.w = 180
        /\ digest.y = height - 212 /\ digest.h = 180
    BY <1>1, WidgetBoxes
  <2>3. EdgesX \subseteq 0..(width - 1) /\ EdgesY \subseteq 0..(height - 1)
    BY <2>1, <2>2 DEF EdgesX, EdgesY
  <2> QED
    BY <1>1, <2>3, HashReads
<1>2. TypeOK /\ PaintInv => HashCoversRest
  BY <1>1 DEF HashCoversRest
<1> QED
  BY <1>2, ResolutionTrue, PTL

-----------------------------------------------------------------------------
(* The text *)

LEMMA RowFacts ==
    ASSUME NEW row \in Rows
    PROVE  /\ RowCells(row) \in Nat /\ RowCells(row) >= 1 /\ RowCells(row) <= 119
           /\ (row <= 7 => RowCells(row) <= 63)
<1>1. CASE row < 19
  <2>1. row \in 0..18 /\ RowCells(row) = ScriptRows[row + 1]
    BY <1>1 DEF RowCells, Rows
  <2>2. \A i \in 1..19 : ScriptRows[i] \in 1..63
    BY DEF ScriptRows
  <2> QED
    BY <2>1, <2>2
<1>2. CASE row \in 19..20
  <2>1. RowCells(row) = TelemetryRows[row - 18]
    BY <1>2 DEF RowCells, Rows
  <2>2. \A i \in 1..2 : TelemetryRows[i] \in 1..119
    BY DEF TelemetryRows
  <2> QED
    BY <1>2, <2>1, <2>2
<1>3. CASE row \in 21..26
  <2>1. RowCells(row) = BootloaderRows[row - 20]
    BY <1>3 DEF RowCells, Rows
  <2>2. \A i \in 1..6 : BootloaderRows[i] \in 1..119
    BY DEF BootloaderRows
  <2> QED
    BY <1>3, <2>1, <2>2
<1> QED
  BY <1>1, <1>2, <1>3 DEF Rows

LEMMA LineBox ==
    ASSUME TypeOK, NEW row \in Rows
    PROVE  /\ IsArea(Line(row)) /\ Line(row) # Nowhere
           /\ Line(row).x = 16 /\ Line(row).w <= RowCells(row) * 8
           /\ Line(row).x + Line(row).w <= width
           /\ Line(row).y = 16 + row * 16 /\ Line(row).h = 16
           /\ (width >= 984 => Line(row).w = RowCells(row) * 8)
<1> DEFINE n == RowCells(row)
<1>1. Dim(width, height)
  BY ModesAreLarge
<1>2. n \in Nat /\ n >= 1 /\ n <= 119 /\ row \in 0..27 /\ 0 \in 0..75
  BY RowFacts DEF Rows
<1> HIDE DEF n
<1>3. PICK len \in Nat :
          /\ Cells(width, height, 0, row, n) = Area(16 + 0 * 8, 16 + row * 16, len, 16)
          /\ len >= 8 /\ len <= n * 8 /\ 16 + 0 * 8 + len <= width - 16
          /\ (width >= 32 + (0 + n) * 8 => len = n * 8)
  BY <1>1, <1>2, CellsPlace
<1>4. Line(row) = Area(16, 16 + row * 16, len, 16)
  BY <1>3 DEF Line, n
<1>5. width \in Nat /\ (width >= 984 => width >= 32 + (0 + n) * 8)
  BY <1>1, <1>2 DEF Dim
<1>6. 16 + row * 16 \in Nat /\ 16 \in Nat
  BY <1>2
<1>7. IsArea(Line(row))
  BY <1>4, <1>6, AreaType
<1>8. /\ Line(row).x = 16 /\ Line(row).w = len /\ Line(row).y = 16 + row * 16
      /\ Line(row).h = 16
  BY <1>4 DEF Area
<1>9. Line(row) # Nowhere
  BY <1>3, <1>8 DEF Nowhere, Area
<1> QED
  BY <1>3, <1>5, <1>7, <1>8, <1>9 DEF n

\* From 984 by 660 on, no text is cut off, lost, or run into anything; below,
\* what can go wrong is named by the side that is too short.
THEOREM TextNeverCollides == Spec => []TextStaysClear
<1>1. ASSUME TypeOK, PaintInv, NEW row \in Rows
      PROVE  /\ Line(row) # Nowhere /\ OnScreen(Line(row))
             /\ ~Overlap(Line(row), toast)
             /\ width >= 664 => ~Overlap(Line(row), logo)
             /\ height >= 660 => ~Overlap(Line(row), digest)
             /\ width >= 984 => Line(row).w = RowCells(row) * CELL_W
  <2> DEFINE L == Line(row)
             n == RowCells(row)
  <2>1. /\ width \in Nat /\ width >= 640 /\ height \in Nat /\ height >= 480
        /\ modes[gop][1] = width /\ modes[gop][2] = height
    <3>1. Dim(width, height) /\ modes[gop] = <<width, height>>
      BY <1>1, ModesAreLarge DEF TypeOK
    <3> QED
      BY <3>1 DEF Dim
  <2>2. /\ IsArea(L) /\ L # Nowhere /\ L.x = 16 /\ L.w <= n * 8 /\ L.x + L.w <= width
        /\ L.y = 16 + row * 16 /\ L.h = 16 /\ (width >= 984 => L.w = n * 8)
    BY <1>1, LineBox
  <2>3. n \in Nat /\ (row <= 7 => n <= 63) /\ row \in 0..26
    BY <1>1, RowFacts DEF Rows
  <2> HIDE DEF L, n
  <2>4. L.x \in Nat /\ L.w \in Nat /\ L.y + L.h <= 448
    BY <2>2, <2>3 DEF IsArea
  <2>5. OnScreen(L)
    <3>1. L.x + L.w <= width /\ L.y + L.h <= height
      BY <2>1, <2>2, <2>4 DEF IsArea
    <3> QED
      BY <2>1, <3>1 DEF OnScreen
  <2>6. CASE Unpainted
    <3>1. logo = Nowhere /\ toast = Nowhere /\ digest = Nowhere
      BY <1>1, <2>6 DEF Unpainted, PaintInv
    <3>2. ~Overlap(L, logo) /\ ~Overlap(L, toast) /\ ~Overlap(L, digest)
      BY <2>2, <3>1, NowhereApart
    <3> QED
      BY <2>2, <2>5, <3>2 DEF L, n, CELL_W
  <2>7. CASE ~Unpainted
    <3>1. /\ IsArea(logo) /\ logo.y = 16 /\ logo.h = 128
          /\ (width >= 664 => logo.x >= 520)
          /\ IsArea(digest) /\ digest.y = height - 212
          /\ toast = Nowhere \/ (IsArea(toast) /\ toast.y >= 448)
      BY <1>1, <2>7, WidgetBoxes
    <3>2. ~Overlap(L, toast)
      <4>1. CASE toast = Nowhere
        BY <2>2, <4>1, NowhereApart
      <4>2. CASE IsArea(toast) /\ toast.y >= 448
        <5>1. L.y + L.h <= toast.y
          BY <2>2, <2>3, <4>2 DEF IsArea
        <5> QED
          BY <2>2, <4>2, <5>1, Apart
      <4> QED
        BY <3>1, <4>1, <4>2
    <3>3. ASSUME width >= 664
          PROVE  ~Overlap(L, logo)
      <4>1. CASE row <= 7
        <5>1. L.x + L.w <= logo.x
          BY <2>2, <2>3, <3>1, <3>3, <4>1 DEF IsArea
        <5> QED
          BY <2>2, <3>1, <5>1, Apart
      <4>2. CASE row > 7
        <5>1. logo.y + logo.h <= L.y
          BY <2>2, <2>3, <3>1, <4>2
        <5> QED
          BY <2>2, <3>1, <5>1, Apart
      <4> QED
        BY <2>3, <4>1, <4>2
    <3>4. ASSUME height >= 660
          PROVE  ~Overlap(L, digest)
      <4>1. L.y + L.h <= digest.y
        BY <2>1, <2>2, <2>3, <3>1, <3>4
      <4> QED
        BY <2>2, <3>1, <4>1, Apart
    <3> QED
      BY <2>2, <2>5, <3>2, <3>3, <3>4 DEF L, n, CELL_W
  <2> QED
    BY <2>6, <2>7
<1>2. TypeOK /\ PaintInv => TextStaysClear
  BY <1>1 DEF TextStaysClear
<1> QED
  BY <1>2, ResolutionTrue, PTL
-----------------------------------------------------------------------------
(* nearest_mode, over a list of any length *)

\* Induction up to n, on a set: what holds of 1 and of i + 1 with i holds of
\* all numbers up to n.
LEMMA UpTo ==
    ASSUME NEW n \in Nat, NEW T, 1 \in T,
           \A i \in 1..n : i \in T /\ i + 1 <= n => i + 1 \in T
    PROVE  \A i \in 1..n : i \in T
<1> DEFINE D == {i \in 1..n : i \notin T}
<1> SUFFICES ASSUME D # {}
             PROVE  FALSE
  OBVIOUS
<1>1. PICK m \in D : \A k \in D : ~(<<k, m>> \in OpToRel(<, Nat))
  <2>1. D \subseteq Nat
    OBVIOUS
  <2> QED
    BY <2>1, WFMin, NatLessThanWellFounded
<1>2. m \in 2..n /\ m - 1 \in 1..n
  OBVIOUS
<1>3. m - 1 \in D
  BY <1>2
<1>4. <<m - 1, m>> \in OpToRel(<, Nat)
  BY <1>2 DEF OpToRel
<1> QED
  BY <1>1, <1>3, <1>4

\* m is no better than best.
NoBetter(req, m, best) ==
    LET s == Score(req, m)  b == Score(req, best)
    IN  \/ b < s
        \/ b = s /\ best[1] < m[1]
        \/ b = s /\ best[1] = m[1] /\ best[2] <= m[2]

\* Better is a total order's strict half.
LEMMA BetterOrders ==
    ASSUME NEW req \in Nat \X Nat, NEW m \in Nat \X Nat,
           NEW p \in Nat \X Nat, NEW q \in Nat \X Nat
    PROVE  /\ Better(req, p, q) => NoBetter(req, q, p)
           /\ ~Better(req, p, q) => NoBetter(req, p, q)
           /\ NoBetter(req, p, p)
           /\ NoBetter(req, m, q) /\ NoBetter(req, q, p) => NoBetter(req, m, p)
<1>1. /\ Score(req, m) \in Nat /\ Score(req, p) \in Nat /\ Score(req, q) \in Nat
      /\ m[1] \in Nat /\ p[1] \in Nat /\ q[1] \in Nat
      /\ m[2] \in Nat /\ p[2] \in Nat /\ q[2] \in Nat
  BY DEF Score, AbsDiff
<1> QED
  BY <1>1 DEF Better, NoBetter

\* best is the list of the best modes so far, up to the n-th.
BestSoFar(req, list, n, best) ==
    best = [i \in 1..n |->
              IF i = 1 THEN 1
              ELSE IF Better(req, list[i], list[best[i - 1]]) THEN i
                   ELSE best[i - 1]]

LEMMA BestExists ==
    ASSUME NEW req, NEW list, NEW n \in Nat, n >= 1
    PROVE  \E best : BestSoFar(req, list, n, best)
<1> DEFINE T == {k \in 1..n : \E best : BestSoFar(req, list, k, best)}
<1>1. 1 \in T
  <2>1. BestSoFar(req, list, 1, [i \in 1..1 |-> 1])
    BY DEF BestSoFar
  <2> QED
    BY <2>1
<1>2. ASSUME NEW k \in 1..n, k \in T, k + 1 <= n
      PROVE  k + 1 \in T
  <2>1. PICK f : BestSoFar(req, list, k, f)
    BY <1>2
  <2> DEFINE g == [i \in 1..(k + 1) |->
                     IF i <= k THEN f[i]
                     ELSE IF Better(req, list[i], list[f[i - 1]]) THEN i
                          ELSE f[i - 1]]
  <2>2. \A i \in 1..k : f[i] = IF i = 1 THEN 1
                               ELSE IF Better(req, list[i], list[f[i - 1]])
                                    THEN i ELSE f[i - 1]
    BY <2>1 DEF BestSoFar
  <2>3. \A i \in 1..(k + 1) : i # 1 => i - 1 \in 1..k /\ g[i - 1] = f[i - 1]
    OBVIOUS
  <2>4. \A i \in 1..(k + 1) :
          g[i] = IF i = 1 THEN 1
                 ELSE IF Better(req, list[i], list[g[i - 1]]) THEN i
                      ELSE g[i - 1]
    <3> TAKE i \in 1..(k + 1)
    <3>1. CASE i <= k
      <4>1. g[i] = f[i] /\ i \in 1..k
        BY <3>1
      <4> HIDE DEF g
      <4> QED
        BY <2>2, <2>3, <4>1
    <3>2. CASE i = k + 1
      <4>1. i # 1 /\ g[i] = IF Better(req, list[i], list[f[i - 1]]) THEN i
                            ELSE f[i - 1]
        BY <3>2
      <4> HIDE DEF g
      <4> QED
        BY <2>3, <4>1
    <3> QED
      BY <3>1, <3>2
  <2>5. BestSoFar(req, list, k + 1, g)
    <3>1. g = [i \in 1..(k + 1) |-> g[i]]
      OBVIOUS
    <3> HIDE DEF g
    <3> QED
      BY <2>4, <3>1 DEF BestSoFar
  <2> QED
    BY <1>2, <2>5
<1> HIDE DEF T
<1>3. n \in T
  BY <1>1, <1>2, UpTo
<1> QED
  BY <1>3 DEF T

\* The fold of nearest_mode ends on a mode no other one of the list beats.
LEMMA NearestUnbeaten ==
    ASSUME NEW req \in Nat \X Nat, NEW list \in Seq(Nat \X Nat), list # <<>>
    PROVE  /\ nearest_mode(req, list) \in DOMAIN list
           /\ \A i \in DOMAIN list :
                NoBetter(req, list[i], list[nearest_mode(req, list)])
<1> DEFINE L == Len(list)
           best == CHOOSE f : BestSoFar(req, list, L, f)
<1>1. L \in Nat /\ L >= 1 /\ DOMAIN list = 1..L
  OBVIOUS
<1>2. nearest_mode(req, list) = best[L]
  BY <1>1 DEF nearest_mode, BestSoFar
<1>3. BestSoFar(req, list, L, best)
  BY <1>1, BestExists
<1> HIDE DEF best
<1>4. \A i \in 1..L : best[i] = IF i = 1 THEN 1
                                ELSE IF Better(req, list[i], list[best[i - 1]])
                                     THEN i ELSE best[i - 1]
  BY <1>3 DEF BestSoFar
<1>5. \A i \in 1..L : list[i] \in Nat \X Nat
  BY <1>1
<1> HIDE DEF L
<1> DEFINE T == {k \in 1..L : /\ best[k] \in 1..k
                              /\ \A i \in 1..k :
                                    NoBetter(req, list[i], list[best[k]])}
<1>6. 1 \in T
  <2>1. best[1] = 1
    BY <1>1, <1>4
  <2>2. NoBetter(req, list[1], list[1])
    BY <1>1, <1>5, BetterOrders
  <2>3. 1 \in 1..L /\ \A i \in 1..1 : i = 1
    BY <1>1
  <2> QED
    BY <2>1, <2>2, <2>3
<1>7. ASSUME NEW k \in 1..L, k \in T, k + 1 <= L
      PROVE  k + 1 \in T
  <2> DEFINE b == best[k]
             c == best[k + 1]
  <2>1. b \in 1..k /\ b \in 1..L /\ k + 1 \in 1..L
        /\ \A i \in 1..k : i \in 1..L /\ NoBetter(req, list[i], list[b])
    BY <1>1, <1>7
  <2>2. c = IF Better(req, list[k + 1], list[b]) THEN k + 1 ELSE b
    <3>1. k + 1 # 1 /\ (k + 1) - 1 = k
      BY <1>1
    <3> QED
      BY <1>4, <2>1, <3>1
  <2> HIDE DEF b
  <2>3. c \in 1..(k + 1) /\ c \in 1..L
    BY <2>1, <2>2
  <2>4. NoBetter(req, list[k + 1], list[c]) /\ NoBetter(req, list[b], list[c])
    BY <1>5, <2>1, <2>2, BetterOrders
  <2> HIDE DEF c
  <2>5. ASSUME NEW i \in 1..(k + 1)
        PROVE  NoBetter(req, list[i], list[c])
    <3>1. CASE i = k + 1
      BY <2>4, <3>1
    <3>2. CASE i \in 1..k
      BY <1>5, <2>1, <2>3, <2>4, <3>2, BetterOrders
    <3> QED
      BY <3>1, <3>2
  <2> QED
    BY <2>1, <2>3, <2>5 DEF c
<1> HIDE DEF T
<1>8. L \in T
  <2>1. \A i \in 1..L : i \in T /\ i + 1 <= L => i + 1 \in T
    BY <1>7
  <2>2. \A i \in 1..L : i \in T
    BY <1>1, <1>6, <2>1, UpTo
  <2> QED
    BY <1>1, <2>2
<1> QED
  BY <1>1, <1>2, <1>8 DEF T

\* For every list of modes, in whatever order the firmware reports it: an
\* obedient firmware shows the nearest mode, of those the narrowest, of those
\* the lowest.
THEOREM NearestAlwaysBest == Spec => []NearestIsBest
<1>1. Init => NearestIsBest
  BY DEF Init, NearestIsBest
<1>2. TypeOK /\ PaintInv /\ NearestIsBest /\ [Next]_vars => NearestIsBest'
  <2> SUFFICES ASSUME TypeOK, NearestIsBest, [Next]_vars
               PROVE  NearestIsBest'
    OBVIOUS
  <2>1. modes \in Seq(Nat \X Nat) /\ modes # <<>>
        /\ \A i \in DOMAIN modes : modes[i] \in Nat \X Nat
    BY DisplayAssumption DEF TypeOK
  <2>2. ASSUME NEW req \in Nat \X Nat, set_mode(req)
        PROVE  NearestIsBest'
    <3>1. CASE obeyed' = FALSE
      BY <3>1 DEF NearestIsBest
    <3>2. CASE obeyed' = TRUE /\ gop' = nearest_mode(req, modes)
      <4> DEFINE g == nearest_mode(req, modes)
      <4>1. /\ g \in DOMAIN modes
            /\ \A i \in DOMAIN modes : NoBetter(req, modes[i], modes[g])
        BY <2>1, NearestUnbeaten
      <4>2. /\ modes' = modes /\ asked' = req
            /\ width' = modes[g][1] /\ height' = modes[g][2]
        BY <2>2, <3>2 DEF set_mode, Query
      <4> HIDE DEF g
      <4>3. modes[g] = <<width', height'>>
        BY <2>1, <4>1, <4>2
      <4>4. \A i \in DOMAIN modes : NoBetter(asked', modes[i], <<width', height'>>)
        BY <4>1, <4>2, <4>3
      <4> QED
        BY <4>2, <4>4 DEF NearestIsBest, NoBetter
    <3> QED
      BY <2>2, <3>1, <3>2 DEF set_mode
  <2>3. CASE UNCHANGED vars
    BY <2>3 DEF vars, NearestIsBest
  <2>4. CASE Boot
    BY <2>2, <2>4 DEF Boot
  <2>5. CASE \E req \in MODE_KEYS : SwitchMode(req)
    <3>1. MODE_KEYS \subseteq Nat \X Nat
      BY DEF MODE_KEYS
    <3> QED
      BY <2>2, <2>5, <3>1 DEF SwitchMode
  <2>6. CASE \E i \in DOMAIN modes : SwitchMode(modes[i])
    BY <2>1, <2>2, <2>6 DEF SwitchMode
  <2>7. CASE ToastExpires
    BY <2>7 DEF ToastExpires, NearestIsBest
  <2> QED
    BY <2>3, <2>4, <2>5, <2>6, <2>7 DEF Next
<1> QED
  BY <1>1, <1>2, ResolutionTrue, PTL DEF Spec
=============================================================================
