---------------------------- MODULE Surface_proof ----------------------------
(***************************************************************************)
(* What the operators of Surface.tla do to an output record, for any       *)
(* number of rows on screen and any capacity of the ring.                  *)
(***************************************************************************)
EXTENDS Surface, SequenceTheorems, TLAPS

Rows(o) == o.fb.rows

\* o has the fields of an output record, and a line in every row.
HasScreen(o) ==
    /\ DOMAIN o = {"fb", "ring", "toast", "qr"}
    /\ DOMAIN o.fb = {"mode", "chrome", "cursor", "rows"}
    /\ DOMAIN o.fb.rows = Row

\* p differs from o in rows of text at most.
OnlyRows(o, p) ==
    /\ p.fb.mode = o.fb.mode /\ p.fb.chrome = o.fb.chrome
    /\ p.fb.cursor = o.fb.cursor
    /\ p.ring = o.ring /\ p.toast = o.toast /\ p.qr = o.qr

-----------------------------------------------------------------------------
(* Rows *)

LEMMA RowIsInt == LastRow \in Row /\ \A r \in Row : r \in Int
BY SurfaceAssumption DEF Row

LEMMA DrawAtRows ==
    ASSUME NEW o, HasScreen(o), NEW row, NEW line
    PROVE  /\ HasScreen(DrawAt(o, row, line))
           /\ OnlyRows(o, DrawAt(o, row, line))
           /\ \A r \in Row :
                Rows(DrawAt(o, row, line))[r] =
                  IF r # row THEN Rows(o)[r]
                  ELSE IF Rows(o)[r] \in {Blank, line} THEN line ELSE Garbled
BY DEF HasScreen, OnlyRows, Rows, DrawAt

\* A character or a digit more leaves the other rows alone, and the text of
\* its own.
LEMMA DrawEchoRows ==
    ASSUME NEW o, HasScreen(o), NEW row, NEW ch
    PROVE  /\ HasScreen(DrawEcho(o, row, ch))
           /\ OnlyRows(o, DrawEcho(o, row, ch))
           /\ \A r \in Row : r # row =>
                Rows(DrawEcho(o, row, ch))[r] = Rows(o)[r]
           /\ \A r \in Row : "text" \in DOMAIN Rows(o)[r] =>
                /\ "text" \in DOMAIN Rows(DrawEcho(o, row, ch))[r]
                /\ Rows(DrawEcho(o, row, ch))[r].text = Rows(o)[r].text
BY DEF HasScreen, OnlyRows, Rows, DrawEcho

LEMMA DrawNumberRows ==
    ASSUME NEW o, HasScreen(o), NEW row, NEW k
    PROVE  /\ HasScreen(DrawNumber(o, row, k))
           /\ OnlyRows(o, DrawNumber(o, row, k))
           /\ \A r \in Row : r # row =>
                Rows(DrawNumber(o, row, k))[r] = Rows(o)[r]
           /\ \A r \in Row : "text" \in DOMAIN Rows(o)[r] =>
                /\ "text" \in DOMAIN Rows(DrawNumber(o, row, k))[r]
                /\ Rows(DrawNumber(o, row, k))[r].text = Rows(o)[r].text
BY DEF HasScreen, OnlyRows, Rows, DrawNumber

LEMMA ClearRowRows ==
    ASSUME NEW o, HasScreen(o), NEW row
    PROVE  /\ HasScreen(ClearRow(o, row))
           /\ OnlyRows(o, ClearRow(o, row))
           /\ \A r \in Row :
                Rows(ClearRow(o, row))[r] =
                  IF r # row THEN Rows(o)[r] ELSE Blank
BY DEF HasScreen, OnlyRows, Rows, ClearRow

LEMMA ClearRowsRows ==
    ASSUME NEW o, HasScreen(o), NEW first, NEW last
    PROVE  /\ HasScreen(ClearRows(o, first, last))
           /\ OnlyRows(o, ClearRows(o, first, last))
           /\ \A r \in Row :
                Rows(ClearRows(o, first, last))[r] =
                  IF r \in first..last THEN Blank ELSE Rows(o)[r]
BY DEF HasScreen, OnlyRows, Rows, ClearRows

LEMMA PushRows ==
    ASSUME NEW o, HasScreen(o), NEW e
    PROVE  /\ HasScreen(Push(o, e)) /\ Rows(Push(o, e)) = Rows(o)
           /\ Push(o, e).fb = o.fb /\ Push(o, e).toast = o.toast
           /\ Push(o, e).qr = o.qr
           /\ Push(o, e).ring = Recent(Append(o.ring, e), RingCap)
BY DEF HasScreen, Rows, Push

LEMMA RefreshRows ==
    ASSUME NEW o, HasScreen(o)
    PROVE  /\ HasScreen(Refresh(o)) /\ Rows(Refresh(o)) = Rows(o)
           /\ Refresh(o).fb = o.fb /\ Refresh(o).toast = o.toast
           /\ Refresh(o).ring = o.ring
           /\ QrCurrent(Refresh(o)) /\ QrSeesScreen(Refresh(o))
<1>1. /\ HasScreen(Refresh(o)) /\ Rows(Refresh(o)) = Rows(o)
      /\ Refresh(o).fb = o.fb /\ Refresh(o).toast = o.toast
      /\ Refresh(o).ring = o.ring /\ Refresh(o).qr = <<Shot(o)>>
  BY DEF HasScreen, Rows, Refresh
<1>2. Shot(Refresh(o)) = Shot(o)
  BY <1>1 DEF Shot
<1>3. <<Shot(o)>> # <<>> /\ <<Shot(o)>>[1].fb = o.fb
  BY DEF Shot
<1> QED
  BY <1>1, <1>2, <1>3 DEF QrCurrent, QrSeesScreen, QrShown

LEMMA RenderLineRows ==
    ASSUME NEW o, HasScreen(o), NEW row, NEW line
    PROVE  /\ HasScreen(RenderLine(o, row, line))
           /\ Rows(RenderLine(o, row, line)) = Rows(DrawAt(o, row, line))
BY DrawAtRows, PushRows, RefreshRows DEF RenderLine

LEMMA LineFields ==
    ASSUME NEW text, NEW k
    PROVE  /\ Line(text).text = text
           /\ Numbered(text, k).text = text
           /\ DOMAIN Numbered(text, k) = {"text", "n", "echo"}
BY DEF Line, Numbered

-----------------------------------------------------------------------------
(* The ring *)

\* A sequence of whatever kind of entries.
IsSeq(s) == \E S : s \in Seq(S)

\* What a push of e makes of the entries s of the ring: they move some places
\* to the front, those that do not fall out, and the new one is the last.
PushedOnto(s, t, e) ==
    /\ IsSeq(s) /\ Len(s) \in Nat /\ DOMAIN s = 1..Len(s)
    /\ IsSeq(t) /\ Len(t) \in Nat /\ DOMAIN t = 1..Len(t)
    /\ Len(t) <= RingCap /\ Len(t) <= Len(s) + 1
    /\ RingCap > 0 => Len(t) > 0
    /\ Len(t) < RingCap => Len(t) = Len(s) + 1
    /\ \A i \in 1..Len(t) :
         t[i] = IF i = Len(t) THEN e ELSE s[i + (Len(s) + 1 - Len(t))]

LEMMA PushRing ==
    ASSUME NEW s, IsSeq(s), NEW e
    PROVE  PushedOnto(s, Recent(Append(s, e), RingCap), e)
<1> DEFINE a == Append(s, e)
           t == Recent(a, RingCap)
<1>1. PICK S : s \in Seq(S)
  BY DEF IsSeq
<1>2. s \in Seq(S \cup {e})
  BY <1>1, SeqMonotonic, Zenon
<1>3. /\ a \in Seq(S \cup {e}) /\ Len(a) = Len(s) + 1
      /\ a[Len(s) + 1] = e
      /\ \A i \in 1..Len(s) : a[i] = s[i]
  BY <1>2, AppendProperties
<1>4. Len(s) \in Nat /\ DOMAIN s = 1..Len(s)
  BY <1>1
<1> HIDE DEF a
<1>5. CASE Len(a) <= RingCap
  <2>1. t = a
    BY <1>5 DEF Recent
  <2>2. DOMAIN a = 1..Len(a)
    BY <1>3
  <2>3. \A i \in 1..Len(a) : a[i] = IF i = Len(a) THEN e ELSE s[i + 0]
    BY <1>3, <1>4
  <2>4. IsSeq(a)
    BY <1>3 DEF IsSeq
  <2> HIDE DEF t
  <2> QED
    BY <1>3, <1>4, <1>5, <2>1, <2>2, <2>3, <2>4, SurfaceAssumption
       DEF t, a, PushedOnto
<1>6. CASE ~(Len(a) <= RingCap)
  <2> DEFINE d == Len(s) + 1 - RingCap
  <2>1. t = SubSeq(a, d + 1, Len(a))
    BY <1>3, <1>4, <1>6, SurfaceAssumption DEF Recent
  <2>2. d \in Nat /\ d + 1 \in Int /\ Len(a) \in Int /\ d + 1 <= Len(a) + 1
    BY <1>3, <1>4, <1>6, SurfaceAssumption
  <2>3. \A i \in (d + 1)..Len(a) : a[i] \in S \cup {e}
    <3>1. \A i \in (d + 1)..Len(a) : i \in 1..Len(a)
      BY <2>2
    <3> QED
      BY <1>3, <3>1, ElementOfSeq
  <2>4. /\ t \in Seq(S \cup {e})
        /\ Len(t) = IF d + 1 <= Len(a) THEN Len(a) - (d + 1) + 1 ELSE 0
        /\ \A i \in 1..(Len(a) - (d + 1) + 1) : t[i] = a[(d + 1) + i - 1]
    <3> HIDE DEF d, t
    <3> QED
      BY <2>1, <2>2, <2>3, SubSeqProperties
  <2>5. Len(t) = RingCap /\ DOMAIN t = 1..Len(t) /\ Len(t) + d = Len(s) + 1
    <3> HIDE DEF t
    <3>1. DOMAIN t = 1..Len(t)
      BY <2>4, LenProperties
    <3>2. Len(t) = IF d + 1 <= Len(a) THEN Len(a) - (d + 1) + 1 ELSE 0
      BY <2>4
    <3>3. d + 1 <= Len(a) <=> RingCap # 0
      BY <1>3, <1>4, SurfaceAssumption
    <3>4. Len(t) = RingCap
      BY <1>3, <1>4, <3>2, <3>3, SurfaceAssumption
    <3> QED
      BY <1>4, <3>1, <3>4, SurfaceAssumption
  <2>6. \A i \in 1..Len(t) : t[i] = IF i = Len(t) THEN e ELSE s[i + d]
    <3> HIDE DEF t
    <3>1. \A i \in 1..Len(t) : t[i] = a[i + d]
      BY <1>3, <1>4, <2>2, <2>4, <2>5, SurfaceAssumption
    <3> QED
      BY <1>3, <1>4, <2>2, <2>5, <3>1, SurfaceAssumption
  <2>7. IsSeq(t)
    BY <2>4 DEF IsSeq
  <2>8. d = Len(s) + 1 - Len(t) /\ Len(t) <= Len(s) + 1
    <3> HIDE DEF t
    <3> QED
      BY <1>3, <1>4, <2>2, <2>5, SurfaceAssumption
  <2> HIDE DEF t, d
  <2> QED
    BY <1>3, <1>4, <2>5, <2>6, <2>7, <2>8, SurfaceAssumption
       DEF t, a, PushedOnto
<1> QED
  BY <1>5, <1>6

\* A push leaves a sequence in the ring.
LEMMA PushSeq ==
    ASSUME NEW o, HasScreen(o), IsSeq(o.ring), NEW e
    PROVE  IsSeq(Push(o, e).ring)
BY PushRing, PushRows DEF PushedOnto
=============================================================================
