---------------------------- MODULE Sextant_proof ----------------------------
(***************************************************************************)
(* Theorems about the whole run, for every script length, delay, mode list *)
(* and ring, and for everything the operator and the firmware may do.      *)
(***************************************************************************)
EXTENDS SextantScene, Bootloader_proof

(* The inductive invariant: conditions on an output record *)

\* A snapshot that Scene may hold: how far each half of the script has come.
SnapshotOK(rs) ==
    /\ rs \in [at : {"awaiting", "pre", "bootloader", "post", "parked"},
              pre : 0..PreLen, post : 0..PostLen]
    /\ rs.at = "awaiting" => rs.pre = 0
    /\ rs.at \in {"bootloader", "post", "parked"} => rs.pre = PreLen
    /\ rs.at \in {"awaiting", "pre", "bootloader"} => rs.post = 0
    /\ rs.at = "pre" => rs.pre > 0
    /\ rs.at = "post" => rs.post > 0
    /\ rs.at = "parked" => rs.post = PostLen

\* The text that a snapshot puts on a row.
Want(rs, r) ==
    IF r < rs.pre THEN ScriptLine("pre", r)
    ELSE IF r \in next_row..(next_row + rs.post - 1)
    THEN ScriptLine("post", r - next_row)
    ELSE IF rs.at = "parked" /\ r = parked_row THEN Line("online")
    ELSE Blank

\* Booting... stays on screen without being part of any snapshot, until a
\* repaint.
BootingShown(o, rs) ==
    \/ Rows(o)[booting_row] = Want(rs, booting_row)
    \/ /\ rs.at \in {"post", "parked"}
       /\ "text" \in DOMAIN Rows(o)[booting_row]
       /\ Rows(o)[booting_row].text = "booting"

\* The screen shows what the snapshot says.
Shown(o, rs) ==
    /\ \A r \in Row \ {toast_row, booting_row} : Rows(o)[r] = Want(rs, r)
    /\ BootingShown(o, rs)

Requested == ModeKey \cup Mode

\* The newest mode switch in the ring, if there is one, is this one.
LastSwitch(ring, req, applied) ==
    \A i \in 1..Len(ring) :
       /\ ring[i].kind = "ModeSwitch"
       /\ \A j \in 1..Len(ring) : ring[j].kind = "ModeSwitch" => j <= i
       => ring[i].requested = req /\ ring[i].applied = applied

\* The bottom row is empty, or a live toast tells the truth on it.
Toasted(o) ==
    \/ Rows(o)[toast_row] = Blank
    \/ /\ o.toast > 0
       /\ \E req \in Requested :
            /\ Rows(o)[toast_row] = ToastLine(req, o.fb.mode)
            /\ LastSwitch(o.ring, req, o.fb.mode)

\* CycleLedger of a ring.
SwitchedTo(ring, i, k) ==
    i \in 1..Len(ring) =>
      /\ ring[i].kind = "ModeSwitch"
      /\ k \in DOMAIN ModeList
      /\ ring[i].requested = ModeList[k]

EntryOK(ring, i) ==
    ring[i].kind = "ModeCycle" =>
       IF ring[i].interrupted
       THEN /\ i - 1 \in 1..Len(ring) => ring[i - 1].kind = "Keypress"
            /\ i > 2 => SwitchedTo(ring, i - 2, ring[i].count)
       ELSE /\ ring[i].count = Len(ModeList)
            /\ i > 1 => SwitchedTo(ring, i - 1, Len(ModeList))

Ledger(ring) == \A i \in 1..Len(ring) : EntryOK(ring, i)

\* What holds of the output everywhere.
Sound(o) ==
    /\ IsOutput(o)
    /\ o.fb.chrome = TRUE /\ o.fb.mode \in Mode /\ o.toast \in 0..ToastPolls
    /\ Toasted(o) /\ Ledger(o.ring)

\* The QR on screen attests the mode and every row but the toast's.
Attested(o) ==
    /\ QrShown(o)
    /\ o.qr[1].fb.mode = o.fb.mode
    /\ \A r \in Row \ {toast_row} : o.qr[1].fb.rows[r] = Rows(o)[r]

Good(o, rs) == Sound(o) /\ Shown(o, rs) /\ Attested(o)

(* The inductive invariant: conditions on a state *)

\* The loops that poll for mode keys.
Loops == {"awaiting", "pace", "parked"}

\* The loop that polls, or will again after the cycle in progress.
Loop == IF pc = "cycle" THEN caller ELSE pc

\* repaint_state is the snapshot of the loop.
PlaceOK(loop, at) ==
    /\ loop = "awaiting" => at = "awaiting"
    /\ loop = "pace" => at \in {"pre", "post"}
    /\ loop = "parked" => at = "parked"
    /\ loop \in Pauses \cup {"reset"} => at = "bootloader"
    /\ loop = "off" => at \in {"bootloader", "parked"}

PlaceInv == SnapshotOK(repaint_state) /\ PlaceOK(Loop, repaint_state.at)

\* A cycle has k modes behind it, the others before it, and its switch to
\* the last of them is what was recorded last.
Remaining(k, list) ==
    /\ IsSeq(list) /\ Len(list) = Len(ModeList) - k
    /\ \A i \in 1..Len(list) : list[i] = ModeList[k + i]

CycleInv ==
    IF pc = "cycle"
    THEN /\ caller \in Loops
         /\ count \in 1..Len(ModeList) /\ Remaining(count, todo)
         /\ SwitchedTo(out.ring, Len(out.ring), count)
    ELSE caller = "none" /\ todo = <<>> /\ count = 0

CursorOK(c) ==
    c \in [phase : {"on", "off"}, since : 0..(BlinkPolls - 1),
           blinks : 0..(GlitchEveryN - 1), glyph : {"canonical", "broken"}]

Glyphs == {"none", "canonical", "broken"}

SceneTyped ==
    /\ phase \in {"awaiting", "booting", "parked"}
    /\ CursorOK(cursor) /\ last_glyph \in Glyphs
    /\ elapsed \in 0..(PacePolls - 1)

\* In the bootloader the transcript stays, and nothing appears below.
Locked == Snapshot("bootloader", PreLen, 0)

Untouched(o) ==
    \A r \in Row \ (SceneRow \cup {toast_row}) : Rows(o)[r] = Want(Locked, r)

OutInv ==
    /\ Sound(out)
    /\ IF repaint_state.at = "bootloader" THEN ScreenInv /\ Untouched(out)
       ELSE Shown(out, repaint_state)
    /\ ~(pc = "retrying" /\ dots = 0) => Attested(out)

SextInv ==
    /\ pc \in Loops \cup Pauses \cup {"cycle", "off", "reset"}
    /\ IInv /\ SceneTyped /\ dwell \in 0..(DwellPolls - 1)
    /\ CycleInv /\ PlaceInv /\ OutInv

-----------------------------------------------------------------------------
(* Constants and rows *)

LEMMA Times ==
    /\ PreLen \in Nat /\ PreLen > 0 /\ PostLen \in Nat /\ PostLen > 0
    /\ PacePolls \in Nat /\ PacePolls > 0
    /\ ToastPolls \in Nat /\ ToastPolls > 0
    /\ DwellPolls \in Nat /\ DwellPolls > 0
    /\ BlinkPolls \in Nat /\ BlinkPolls > 0
    /\ GlitchEveryN \in Nat /\ GlitchEveryN > 0
    /\ start_row = PreLen
BY SextantAssumption

LEMMA Layout ==
    /\ start_row \in Nat /\ LastRow \in Nat /\ toast_row = LastRow
    /\ booting_row = start_row + 2 /\ next_row = start_row + 3
    /\ parked_row = next_row + PostLen + 1
    /\ parked_row < toast_row /\ wrong_indicator_row < toast_row
    /\ wrong_indicator_row = start_row + 7
    /\ toast_row \in Row /\ booting_row \in Row /\ parked_row \in Row
    /\ \A r \in 0..toast_row : r \in Row
    /\ \A r \in Row : r \in 0..toast_row
<1>1. /\ start_row \in Nat /\ booting_row = start_row + 2
      /\ wrong_indicator_row = start_row + 7
  BY Apart
<1>2. /\ LastRow \in Nat /\ toast_row = LastRow /\ next_row = start_row + 3
      /\ parked_row = next_row + PostLen + 1
      /\ parked_row < toast_row /\ wrong_indicator_row < toast_row
  BY SurfaceAssumption, RowsAssumption DEF toast_row, next_row, parked_row
<1> QED
  BY <1>1, <1>2, Times DEF Row

\* Rows that no snapshot writes on.
LEMMA WantBlank ==
    ASSUME NEW rs, SnapshotOK(rs)
    PROVE  /\ Want(rs, toast_row) = Blank /\ Want(rs, booting_row) = Blank
           /\ \A r \in Row : r >= rs.pre /\ r < next_row => Want(rs, r) = Blank
           /\ \A r \in Row : r >= next_row + rs.post =>
                Want(rs, r) = IF rs.at = "parked" /\ r = parked_row
                              THEN Line("online") ELSE Blank
BY Layout, Times DEF SnapshotOK, Want

LEMMA WantClean ==
    ASSUME NEW rs, NEW r
    PROVE  "text" \in DOMAIN Want(rs, r) /\ Want(rs, r).text # "garbled"
<1>1. /\ "text" \in DOMAIN Blank /\ Blank.text # "garbled"
      /\ "text" \in DOMAIN Line("online") /\ Line("online").text # "garbled"
  BY CleanLines DEF Blank
<1>2. ASSUME NEW k
      PROVE  /\ "text" \in DOMAIN ScriptLine("pre", k)
             /\ ScriptLine("pre", k).text # "garbled"
             /\ "text" \in DOMAIN ScriptLine("post", k)
             /\ ScriptLine("post", k).text # "garbled"
  BY CleanLines DEF ScriptLine
<1> QED
  BY <1>1, <1>2 DEF Want

LEMMA ToastClean ==
    ASSUME NEW req, NEW applied
    PROVE  /\ "text" \in DOMAIN ToastLine(req, applied)
           /\ ToastLine(req, applied).text = "toast"
           /\ ToastLine(req, applied).echo = <<req, applied>>
BY DEF ToastLine, Line
-----------------------------------------------------------------------------
(* Repaint *)

LEMMA ClearedRows ==
    ASSUME NEW o, IsOutput(o)
    PROVE  LET p == WithChrome(Cleared(o))
           IN  /\ IsOutput(p) /\ \A r \in Row : Rows(p)[r] = Blank
               /\ p.fb.chrome = TRUE /\ p.fb.mode = o.fb.mode
               /\ p.toast = o.toast /\ p.ring = o.ring
BY DEF IsOutput, HasScreen, Rows, WithChrome, Cleared

LEMMA PrefixRows ==
    ASSUME NEW o, IsOutput(o), NEW script, NEW first, NEW k
    PROVE  LET p == WithPrefix(o, script, first, k)
           IN  /\ IsOutput(p) /\ OnlyRows(o, p)
               /\ \A r \in Row : Rows(p)[r] =
                    IF r \notin first..(first + k - 1) THEN Rows(o)[r]
                    ELSE IF Rows(o)[r] \in {Blank, ScriptLine(script, r - first)}
                    THEN ScriptLine(script, r - first) ELSE Garbled
BY DEF IsOutput, HasScreen, OnlyRows, Rows, WithPrefix

LEMMA RedrawnRows ==
    ASSUME NEW o, IsOutput(o), NEW rs, SnapshotOK(rs)
    PROVE  /\ IsOutput(Redrawn(o, rs))
           /\ Redrawn(o, rs).fb.chrome = TRUE
           /\ Redrawn(o, rs).fb.mode = o.fb.mode
           /\ Redrawn(o, rs).toast = o.toast /\ Redrawn(o, rs).ring = o.ring
           /\ \A r \in Row : Rows(Redrawn(o, rs))[r] = Want(rs, r)
<1> DEFINE p0 == WithChrome(Cleared(o))
           p1 == WithPrefix(p0, "pre", 0, rs.pre)
           p2 == WithPrefix(p1, "post", next_row, rs.post)
           p3 == DrawAt(p2, parked_row, Line("online"))
<1>0. Redrawn(o, rs) = IF rs.at = "parked" THEN p3 ELSE p2
  BY DEF Redrawn
<1>1. /\ IsOutput(p0) /\ \A r \in Row : Rows(p0)[r] = Blank
      /\ p0.fb.chrome = TRUE /\ p0.fb.mode = o.fb.mode
      /\ p0.toast = o.toast /\ p0.ring = o.ring
  BY ClearedRows
<1> HIDE DEF p0
<1>2. /\ IsOutput(p1) /\ OnlyRows(p0, p1)
      /\ \A r \in Row : Rows(p1)[r] = IF r < rs.pre THEN ScriptLine("pre", r)
                                      ELSE Blank
  <2>1. \A r \in Row : /\ r - 0 = r
                       /\ r \in 0..(0 + rs.pre - 1) <=> r < rs.pre
    BY Layout, Times DEF SnapshotOK
  <2> QED
    BY <1>1, <2>1, PrefixRows
<1> HIDE DEF p1
<1>3. /\ IsOutput(p2) /\ OnlyRows(p1, p2)
      /\ \A r \in Row : Rows(p2)[r] =
           IF r < rs.pre THEN ScriptLine("pre", r)
           ELSE IF r \in next_row..(next_row + rs.post - 1)
           THEN ScriptLine("post", r - next_row) ELSE Blank
  <2>1. \A r \in Row : r \in next_row..(next_row + rs.post - 1) =>
          ~(r < rs.pre)
    BY Layout, Times DEF SnapshotOK
  <2> QED
    BY <1>2, <2>1, PrefixRows
<1> HIDE DEF p2
<1>4. CASE rs.at = "parked"
  <2>1. ~(parked_row < rs.pre)
        /\ parked_row \notin next_row..(next_row + rs.post - 1)
    BY Layout, Times DEF SnapshotOK
  <2>2. Rows(p2)[parked_row] = Blank
    BY <1>3, <2>1, Layout
  <2>3. /\ IsOutput(p3) /\ OnlyRows(p2, p3)
        /\ \A r \in Row : Rows(p3)[r] =
             IF r = parked_row THEN Line("online") ELSE Rows(p2)[r]
    BY <1>3, <2>2, DrawAtRows DEF IsOutput, OnlyRows
  <2> HIDE DEF p3
  <2> QED
    BY <1>0, <1>1, <1>2, <1>3, <1>4, <2>1, <2>3 DEF OnlyRows, Want
<1>5. CASE rs.at # "parked"
  BY <1>0, <1>1, <1>2, <1>3, <1>5 DEF OnlyRows, Want
<1> QED
  BY <1>4, <1>5

LEMMA RefreshAttested ==
    ASSUME NEW o, IsOutput(o)
    PROVE  /\ IsOutput(Refresh(o)) /\ Refresh(o).fb = o.fb
           /\ Refresh(o).toast = o.toast /\ Refresh(o).ring = o.ring
           /\ Rows(Refresh(o)) = Rows(o) /\ Attested(Refresh(o))
<1>1. /\ HasScreen(Refresh(o)) /\ Refresh(o).fb = o.fb
      /\ Refresh(o).toast = o.toast /\ Refresh(o).ring = o.ring
      /\ Rows(Refresh(o)) = Rows(o) /\ QrSeesScreen(Refresh(o))
  BY RefreshRows DEF IsOutput
<1> HIDE DEF Refresh
<1> QED
  BY <1>1 DEF QrSeesScreen, Attested, IsOutput, Rows

\* A repaint makes the screen agree with the snapshot, whatever was on it.
LEMMA RepaintGood ==
    ASSUME NEW o, IsOutput(o), NEW rs, SnapshotOK(rs),
           o.fb.mode \in Mode, o.toast \in 0..ToastPolls, Ledger(o.ring)
    PROVE  /\ Good(Repaint(o, rs), rs)
           /\ Repaint(o, rs).fb.mode = o.fb.mode
           /\ Repaint(o, rs).ring = o.ring
           /\ Rows(Repaint(o, rs))[toast_row] = Blank
<1> DEFINE d == Redrawn(o, rs)
           p == Refresh(d)
<1>0. Repaint(o, rs) = p
  BY DEF Repaint
<1>1. /\ IsOutput(d) /\ d.fb.chrome = TRUE
      /\ d.fb.mode = o.fb.mode /\ d.toast = o.toast /\ d.ring = o.ring
      /\ \A r \in Row : Rows(d)[r] = Want(rs, r)
  BY RedrawnRows
<1> HIDE DEF d
<1>2. /\ IsOutput(p) /\ p.fb = d.fb /\ p.toast = d.toast /\ p.ring = d.ring
      /\ Rows(p) = Rows(d) /\ Attested(p)
  BY <1>1, RefreshAttested
<1> HIDE DEF p
<1>3. Rows(p)[toast_row] = Blank
  BY <1>1, <1>2, WantBlank, Layout
<1>4. Shown(p, rs)
  BY <1>1, <1>2, Layout DEF Shown, BootingShown
<1>5. Sound(p)
  BY <1>1, <1>2, <1>3 DEF Sound, Toasted
<1> QED
  BY <1>0, <1>1, <1>2, <1>3, <1>4, <1>5 DEF Good

-----------------------------------------------------------------------------
(* What is recorded *)

LEMMA PushedLast ==
    ASSUME NEW s, NEW t, NEW e, PushedOnto(s, t, e)
    PROVE  Len(t) > 0 => t[Len(t)] = e
<1>1. Len(t) \in Nat
  BY DEF PushedOnto
<1>2. \A i \in 1..Len(t) : i = Len(t) => t[i] = e
  BY DEF PushedOnto
<1> QED
  BY <1>1, <1>2

\* Entries keep their neighbours as they move to the front.
LEMMA EntryMoves ==
    ASSUME NEW s, NEW t, NEW d \in Nat, NEW i \in Nat,
           Len(s) \in Nat, Len(t) \in Nat,
           i \in 1..Len(t), i + d <= Len(s), EntryOK(s, i + d),
           \A j \in 1..i : t[j] = s[j + d]
    PROVE  EntryOK(t, i)
<1>1. t[i] = s[i + d]
  OBVIOUS
<1>2. ASSUME i > 1
      PROVE  /\ i - 1 \in 1..Len(t) /\ t[i - 1] = s[(i + d) - 1]
             /\ (i + d) - 1 \in 1..Len(s) /\ i + d > 1
  <2>1. i - 1 \in 1..i /\ (i - 1) + d = (i + d) - 1
    BY <1>2
  <2> QED
    BY <1>2, <2>1
<1>3. ASSUME i > 2
      PROVE  /\ i - 2 \in 1..Len(t) /\ t[i - 2] = s[(i + d) - 2]
             /\ (i + d) - 2 \in 1..Len(s) /\ i + d > 2
  <2>1. i - 2 \in 1..i /\ (i - 2) + d = (i + d) - 2
    BY <1>3
  <2> QED
    BY <1>3, <2>1
<1>4. i - 1 \in 1..Len(t) => i > 1
  OBVIOUS
<1> QED
  BY <1>1, <1>2, <1>3, <1>4 DEF EntryOK, SwitchedTo

LEMMA LedgerLater ==
    ASSUME NEW s, NEW t, Later(s, t, SceneKinds), Ledger(s)
    PROVE  Ledger(t)
<1>1. PICK d \in Nat :
         /\ Len(s) <= Len(t) + d
         /\ \A i \in 1..Len(t) : IF i + d <= Len(s) THEN t[i] = s[i + d]
                                 ELSE t[i].kind \in SceneKinds
  BY DEF Later, Moved
<1>2. Len(s) \in Nat /\ Len(t) \in Nat
  BY DEF Later
<1>3. ASSUME NEW i \in 1..Len(t), i + d <= Len(s)
      PROVE  EntryOK(t, i)
  <2>1. i + d \in 1..Len(s) /\ i \in Nat
    BY <1>2, <1>3
  <2>2. EntryOK(s, i + d)
    BY <2>1 DEF Ledger
  <2>3. \A j \in 1..i : t[j] = s[j + d]
    BY <1>1, <1>2, <1>3
  <2> QED
    BY <1>2, <1>3, <2>1, <2>2, <2>3, EntryMoves
<1>4. ASSUME NEW i \in 1..Len(t), ~(i + d <= Len(s))
      PROVE  EntryOK(t, i)
  BY <1>1, <1>4 DEF EntryOK, SceneKinds, Marks
<1> QED
  BY <1>3, <1>4 DEF Ledger

LEMMA LedgerPushed ==
    ASSUME NEW s, NEW t, NEW e, PushedOnto(s, t, e), Ledger(s),
           Len(t) > 0 => EntryOK(t, Len(t))
    PROVE  Ledger(t)
<1> DEFINE d == Len(s) + 1 - Len(t)
<1>1. Len(s) \in Nat /\ Len(t) \in Nat /\ d \in Nat /\ Len(t) + d = Len(s) + 1
  <2>1. Len(s) \in Nat /\ Len(t) \in Nat /\ Len(t) <= Len(s) + 1
    BY DEF PushedOnto
  <2> QED
    BY <2>1
<1>2. \A i \in 1..Len(t) : i # Len(t) => t[i] = s[i + d]
  BY DEF PushedOnto
<1> HIDE DEF d
<1>3. ASSUME NEW i \in 1..Len(t), i # Len(t)
      PROVE  EntryOK(t, i)
  <2>1. i + d \in 1..Len(s) /\ i \in Nat /\ i + d <= Len(s)
    BY <1>1, <1>3
  <2>2. EntryOK(s, i + d)
    BY <2>1 DEF Ledger
  <2>3. \A j \in 1..i : t[j] = s[j + d]
    BY <1>1, <1>2, <1>3
  <2> QED
    BY <1>1, <1>3, <2>1, <2>2, <2>3, EntryMoves
<1> QED
  BY <1>1, <1>3 DEF Ledger

LEMMA LastSwitchLater ==
    ASSUME NEW s, NEW t, Later(s, t, SceneKinds), NEW req, NEW applied,
           LastSwitch(s, req, applied)
    PROVE  LastSwitch(t, req, applied)
<1>1. PICK d \in Nat :
         /\ Len(s) <= Len(t) + d
         /\ \A i \in 1..Len(t) : IF i + d <= Len(s) THEN t[i] = s[i + d]
                                 ELSE t[i].kind \in SceneKinds
  BY DEF Later, Moved
<1>2. Len(s) \in Nat /\ Len(t) \in Nat
  BY DEF Later
<1>3. ASSUME NEW i \in 1..Len(t), t[i].kind = "ModeSwitch",
             \A j \in 1..Len(t) : t[j].kind = "ModeSwitch" => j <= i
      PROVE  t[i].requested = req /\ t[i].applied = applied
  <2>1. i + d <= Len(s) /\ t[i] = s[i + d]
    BY <1>1, <1>3 DEF SceneKinds, Marks
  <2>2. i + d \in 1..Len(s)
    BY <1>2, <2>1
  <2>3. ASSUME NEW j \in 1..Len(s), s[j].kind = "ModeSwitch"
        PROVE  j <= i + d
    <3>1. CASE j <= d
      BY <3>1
    <3>2. CASE j > d
      <4>1. j - d \in 1..Len(t) /\ (j - d) + d = j
        BY <1>1, <1>2, <3>2
      <4>2. t[j - d] = s[j]
        BY <1>1, <4>1
      <4>3. j - d <= i
        BY <1>3, <2>3, <4>1, <4>2
      <4> QED
        BY <4>3
    <3> QED
      BY <3>1, <3>2
  <2> QED
    BY <1>3, <2>1, <2>2, <2>3 DEF LastSwitch
<1> QED
  BY <1>3 DEF LastSwitch

LEMMA LastSwitchPushed ==
    ASSUME NEW s, NEW t, NEW e, PushedOnto(s, t, e), e.kind # "ModeSwitch",
           NEW req, NEW applied, LastSwitch(s, req, applied)
    PROVE  LastSwitch(t, req, applied)
<1> DEFINE d == Len(s) + 1 - Len(t)
<1>1. Len(s) \in Nat /\ Len(t) \in Nat /\ d \in Nat /\ Len(t) + d = Len(s) + 1
  <2>1. Len(s) \in Nat /\ Len(t) \in Nat /\ Len(t) <= Len(s) + 1
    BY DEF PushedOnto
  <2> QED
    BY <2>1
<1>2. \A i \in 1..Len(t) : t[i] = IF i = Len(t) THEN e ELSE s[i + d]
  BY DEF PushedOnto
<1> HIDE DEF d
<1>3. ASSUME NEW i \in 1..Len(t), t[i].kind = "ModeSwitch",
             \A j \in 1..Len(t) : t[j].kind = "ModeSwitch" => j <= i
      PROVE  t[i].requested = req /\ t[i].applied = applied
  <2>1. i # Len(t) /\ t[i] = s[i + d]
    BY <1>2, <1>3
  <2>2. i + d \in 1..Len(s)
    BY <1>1, <2>1
  <2>3. ASSUME NEW j \in 1..Len(s), s[j].kind = "ModeSwitch"
        PROVE  j <= i + d
    <3>1. CASE j <= d
      BY <3>1, <1>1
    <3>2. CASE j > d
      <4>1. j - d \in 1..Len(t) /\ (j - d) + d = j /\ j - d # Len(t)
        BY <1>1, <3>2
      <4>2. t[j - d] = s[j]
        BY <1>2, <4>1
      <4>3. j - d <= i
        BY <1>3, <2>3, <4>1, <4>2
      <4> QED
        BY <4>3, <1>1
    <3> QED
      BY <1>1, <3>1, <3>2
  <2> QED
    BY <1>3, <2>1, <2>2, <2>3 DEF LastSwitch
<1> QED
  BY <1>3 DEF LastSwitch

\* The three ways an entry about the mode gets into the ring.
LEMMA SwitchPushed ==
    ASSUME NEW s, NEW t, NEW req, NEW applied,
           PushedOnto(s, t, ModeSwitch(req, applied)), Ledger(s)
    PROVE  /\ LastSwitch(t, req, applied) /\ Ledger(t)
           /\ \A k \in DOMAIN ModeList :
                req = ModeList[k] => SwitchedTo(t, Len(t), k)
<1>1. Len(t) \in Nat
  BY DEF PushedOnto
<1>2. Len(t) > 0 => /\ Len(t) \in 1..Len(t)
                    /\ t[Len(t)].kind = "ModeSwitch"
                    /\ t[Len(t)].requested = req
                    /\ t[Len(t)].applied = applied
  <2>1. Len(t) > 0 => t[Len(t)] = ModeSwitch(req, applied)
    BY PushedLast
  <2> QED
    BY <1>1, <2>1 DEF ModeSwitch
<1>3. Ledger(t)
  BY <1>2, LedgerPushed DEF EntryOK
<1>4. LastSwitch(t, req, applied)
  BY <1>1, <1>2 DEF LastSwitch
<1> QED
  BY <1>1, <1>2, <1>3, <1>4 DEF SwitchedTo

LEMMA CyclePushed ==
    ASSUME NEW s, NEW t, PushedOnto(s, t, ModeCycle(Len(ModeList), FALSE)),
           Ledger(s), SwitchedTo(s, Len(s), Len(ModeList))
    PROVE  Ledger(t)
<1> DEFINE e == ModeCycle(Len(ModeList), FALSE)
<1>1. /\ Len(s) \in Nat /\ Len(t) \in Nat /\ Len(t) <= Len(s) + 1
      /\ \A i \in 1..Len(t) :
           t[i] = IF i = Len(t) THEN e ELSE s[i + (Len(s) + 1 - Len(t))]
  BY DEF PushedOnto
<1>2. e.kind = "ModeCycle" /\ e.count = Len(ModeList) /\ e.interrupted = FALSE
  BY DEF ModeCycle
<1> HIDE DEF e
<1>3. ASSUME Len(t) > 0
      PROVE  EntryOK(t, Len(t))
  <2>1. t[Len(t)] = e
    BY <1>1, <1>3
  <2>2. ASSUME Len(t) > 1
        PROVE  SwitchedTo(t, Len(t) - 1, Len(ModeList))
    <3>1. /\ Len(t) - 1 \in 1..Len(t) /\ Len(t) - 1 # Len(t)
          /\ (Len(t) - 1) + (Len(s) + 1 - Len(t)) = Len(s)
          /\ Len(s) \in 1..Len(s)
      BY <1>1, <2>2
    <3>2. t[Len(t) - 1] = s[Len(s)]
      BY <1>1, <3>1
    <3> QED
      BY <3>1, <3>2 DEF SwitchedTo
  <2> QED
    BY <1>2, <2>1, <2>2 DEF EntryOK
<1> QED
  BY <1>3, LedgerPushed

LEMMA StopPushed ==
    ASSUME NEW s, NEW u, NEW t, NEW key, NEW k,
           PushedOnto(s, u, Keypress(key)), PushedOnto(u, t, ModeCycle(k, TRUE)),
           Ledger(s), SwitchedTo(s, Len(s), k)
    PROVE  Ledger(t)
<1> DEFINE e == ModeCycle(k, TRUE)
<1>1. /\ Len(s) \in Nat /\ Len(u) \in Nat /\ Len(u) <= Len(s) + 1
      /\ \A i \in 1..Len(u) :
           u[i] = IF i = Len(u) THEN Keypress(key)
                  ELSE s[i + (Len(s) + 1 - Len(u))]
  BY DEF PushedOnto
<1>2. /\ Len(t) \in Nat /\ Len(t) <= Len(u) + 1
      /\ \A i \in 1..Len(t) :
           t[i] = IF i = Len(t) THEN e ELSE u[i + (Len(u) + 1 - Len(t))]
  BY DEF PushedOnto
<1>3. /\ e.kind = "ModeCycle" /\ e.count = k /\ e.interrupted = TRUE
      /\ Keypress(key).kind = "Keypress"
  BY DEF ModeCycle, Keypress
<1> HIDE DEF e
<1>4. Ledger(u)
  <2>1. Len(u) > 0 => u[Len(u)] = Keypress(key)
    BY <1>1
  <2>2. Len(u) > 0 => EntryOK(u, Len(u))
    BY <1>3, <2>1 DEF EntryOK
  <2> QED
    BY <2>2, LedgerPushed
<1>5. ASSUME Len(t) > 0
      PROVE  EntryOK(t, Len(t))
  <2>1. t[Len(t)] = e
    BY <1>2, <1>5
  <2>2. ASSUME Len(t) > 1
        PROVE  /\ t[Len(t) - 1].kind = "Keypress"
               /\ Len(t) - 1 \in 1..Len(t)
    <3>1. /\ Len(t) - 1 \in 1..Len(t) /\ Len(t) - 1 # Len(t)
          /\ (Len(t) - 1) + (Len(u) + 1 - Len(t)) = Len(u)
          /\ Len(u) \in 1..Len(u)
      BY <1>1, <1>2, <2>2
    <3>2. t[Len(t) - 1] = u[Len(u)]
      BY <1>2, <3>1
    <3> QED
      BY <1>1, <1>3, <3>1, <3>2
  <2>3. ASSUME Len(t) > 2
        PROVE  SwitchedTo(t, Len(t) - 2, k)
    <3>1. /\ Len(t) - 2 \in 1..Len(t) /\ Len(t) - 2 # Len(t)
          /\ (Len(t) - 2) + (Len(u) + 1 - Len(t)) = Len(u) - 1
          /\ Len(u) - 1 \in 1..Len(u) /\ Len(u) - 1 # Len(u)
          /\ (Len(u) - 1) + (Len(s) + 1 - Len(u)) = Len(s)
          /\ Len(s) \in 1..Len(s)
      BY <1>1, <1>2, <2>3
    <3>2. t[Len(t) - 2] = u[Len(u) - 1]
      BY <1>2, <3>1
    <3>3. u[Len(u) - 1] = s[Len(s)]
      BY <1>1, <3>1
    <3> QED
      BY <3>1, <3>2, <3>3 DEF SwitchedTo
  <2>4. Len(t) - 1 \in 1..Len(t) => Len(t) > 1
    BY <1>2
  <2> QED
    BY <1>3, <2>1, <2>2, <2>3, <2>4 DEF EntryOK
<1> QED
  BY <1>4, <1>5, LedgerPushed

-----------------------------------------------------------------------------
(* What a call makes of a good output *)

LEMMA RefreshGood ==
    ASSUME NEW o, Sound(o)
    PROVE  /\ Sound(Refresh(o)) /\ Attested(Refresh(o))
           /\ \A rs : Shown(o, rs) => Good(Refresh(o), rs)
           /\ Refresh(o).ring = o.ring
<1> DEFINE p == Refresh(o)
<1>1. /\ IsOutput(p) /\ p.fb = o.fb /\ p.toast = o.toast
      /\ p.ring = o.ring /\ Rows(p) = Rows(o) /\ Attested(p)
  BY RefreshAttested DEF Sound
<1> HIDE DEF p
<1>2. Sound(p)
  BY <1>1 DEF Sound, Toasted
<1>3. ASSUME NEW rs, Shown(o, rs)
      PROVE  Good(p, rs)
  BY <1>1, <1>2, <1>3 DEF Good, Shown, BootingShown
<1> QED
  BY <1>1, <1>2, <1>3 DEF p

LEMMA PushSound ==
    ASSUME NEW o, Sound(o), NEW e, e.kind # "ModeSwitch",
           Ledger(Push(o, e).ring)
    PROVE  /\ Sound(Push(o, e))
           /\ \A rs : Shown(o, rs) => Shown(Push(o, e), rs)
           /\ \A rs : Good(o, rs) => Good(Push(o, e), rs)
           /\ PushedOnto(o.ring, Push(o, e).ring, e)
<1> DEFINE p == Push(o, e)
<1>1. HasScreen(o) /\ IsSeq(o.ring)
  BY DEF Sound, IsOutput
<1>2. /\ HasScreen(p) /\ p.fb = o.fb /\ Rows(p) = Rows(o)
      /\ p.toast = o.toast /\ p.qr = o.qr
      /\ PushedOnto(o.ring, p.ring, e)
  BY <1>1, PushRows, PushRing
<1>3. IsSeq(p.ring) /\ Ledger(p.ring)
  BY <1>1, PushSeq
<1> HIDE DEF p
<1>4. Toasted(p)
  BY <1>2, LastSwitchPushed DEF Sound, Toasted
<1>5. Sound(p)
  BY <1>2, <1>3, <1>4 DEF Sound, IsOutput
<1>6. ASSUME NEW rs, Shown(o, rs)
      PROVE  Shown(p, rs)
  BY <1>2, <1>6 DEF Shown, BootingShown
<1>7. Attested(o) => Attested(p)
  BY <1>2 DEF Attested, QrShown
<1> QED
  BY <1>2, <1>5, <1>6, <1>7 DEF Good, p

\* An event that is not about the mode.
LEMMA OtherPush ==
    ASSUME NEW o, Sound(o), NEW e, e.kind \in SceneKinds
    PROVE  /\ Sound(Push(o, e))
           /\ \A rs : Shown(o, rs) => Shown(Push(o, e), rs)
           /\ \A rs : Good(o, rs) => Good(Push(o, e), rs)
<1>1. Later(o.ring, Push(o, e).ring, SceneKinds)
  BY LaterPush, PushRows DEF Sound, IsOutput
<1>2. Ledger(Push(o, e).ring)
  BY <1>1, LedgerLater DEF Sound
<1>3. e.kind # "ModeSwitch"
  BY DEF SceneKinds, Marks
<1> QED
  BY <1>2, <1>3, PushSound

\* A line more on screen, drawn where the new snapshot has it.
LEMMA ShowLine ==
    ASSUME NEW o, Sound(o), NEW rs,
           NEW row \in Row \ {toast_row, booting_row},
           Rows(o)[row] = Blank,
           \A r \in Row \ {toast_row, booting_row, row} :
              Rows(o)[r] = Want(rs, r),
           BootingShown(o, rs)
    PROVE  /\ Good(RenderLine(o, row, Want(rs, row)), rs)
           /\ Good(Refresh(DrawAt(o, row, Want(rs, row))), rs)
<1> DEFINE d == DrawAt(o, row, Want(rs, row))
           p == Push(d, LineRendered(row))
<1>1. /\ HasScreen(d) /\ OnlyRows(o, d)
      /\ \A r \in Row :
           Rows(d)[r] = IF r # row THEN Rows(o)[r] ELSE Want(rs, row)
  <2>1. HasScreen(o)
    BY DEF Sound, IsOutput
  <2> QED
    BY <2>1, DrawAtRows
<1>2. RenderLine(o, row, Want(rs, row)) = Refresh(p)
  BY DEF RenderLine
<1> HIDE DEF d
<1>3. Sound(d)
  BY <1>1, Layout DEF Sound, Toasted, IsOutput, OnlyRows
<1>4. Shown(d, rs)
  BY <1>1, Layout DEF Shown, BootingShown
<1>5. Good(Refresh(d), rs)
  BY <1>3, <1>4, RefreshGood
<1>6. Sound(p) /\ Shown(p, rs)
  BY <1>3, <1>4, OtherPush, MarkKinds, SceneEvents
<1> HIDE DEF p
<1>7. Good(Refresh(p), rs)
  BY <1>6, RefreshGood
<1> QED
  BY <1>2, <1>5, <1>7 DEF d

LEMMA TickGood ==
    ASSUME NEW o, NEW rs, Good(o, rs), SnapshotOK(rs)
    PROVE  Good(TickToast(o, rs), rs) /\ TickToast(o, rs).ring = o.ring
<1>0. IsOutput(o) /\ o.toast \in 0..ToastPolls /\ ToastPolls \in Nat
  BY Times DEF Good, Sound
<1>1. CASE o.toast = 0
  BY <1>1 DEF TickToast
<1>2. CASE o.toast = 1
  <2> DEFINE z == [o EXCEPT !.toast = 0]
  <2>1. /\ IsOutput(z) /\ z.fb = o.fb /\ z.ring = o.ring /\ z.toast = 0
    BY <1>0 DEF IsOutput, HasScreen
  <2>2. TickToast(o, rs) = Repaint(z, rs)
    BY <1>2 DEF TickToast
  <2> HIDE DEF z
  <2>3. /\ z.fb.mode \in Mode /\ z.toast \in 0..ToastPolls /\ Ledger(z.ring)
    BY <1>0, <2>1 DEF Good, Sound
  <2>4. Good(Repaint(z, rs), rs) /\ Repaint(z, rs).ring = z.ring
    BY <2>1, <2>3, RepaintGood
  <2> QED
    BY <2>1, <2>2, <2>4
<1>3. CASE o.toast > 1
  <2> DEFINE z == [o EXCEPT !.toast = @ - 1]
  <2>1. /\ IsOutput(z) /\ z.fb = o.fb /\ Rows(z) = Rows(o)
        /\ z.ring = o.ring /\ z.qr = o.qr /\ z.toast = o.toast - 1
    BY <1>0 DEF IsOutput, HasScreen, Rows
  <2>2. TickToast(o, rs) = z
    BY <1>0, <1>3 DEF TickToast
  <2>3. z.toast > 0 /\ z.toast \in 0..ToastPolls
    BY <1>0, <1>3, <2>1
  <2> HIDE DEF z
  <2>4. Sound(z)
    BY <2>1, <2>3 DEF Good, Sound, Toasted
  <2>5. Shown(z, rs) /\ Attested(z)
    BY <2>1 DEF Good, Shown, BootingShown, Attested, QrShown
  <2> QED
    BY <2>1, <2>2, <2>4, <2>5 DEF Good
<1> QED
  BY <1>0, <1>1, <1>2, <1>3

\* A switch cleans the screen up, whatever was shown before.
LEMMA SwitchGood ==
    ASSUME NEW o, Sound(o), NEW rs, SnapshotOK(rs), NEW req \in Requested,
           NEW applied \in Mode
    PROVE  LET p == SwitchMode(o, req, applied, rs)
           IN  /\ Good(p, rs)
               /\ \A k \in DOMAIN ModeList :
                    req = ModeList[k] => SwitchedTo(p.ring, Len(p.ring), k)
<1> DEFINE e == ModeSwitch(req, applied)
           o1 == [o EXCEPT !.fb.mode = applied]
           o2 == Push(o1, e)
           o3 == Repaint(o2, rs)
           o4 == DrawAt(o3, toast_row, ToastLine(req, applied))
           o5 == [o4 EXCEPT !.toast = ToastPolls]
<1>0. SwitchMode(o, req, applied, rs) = o5
  BY DEF SwitchMode, DrawToast
<1>1. /\ HasScreen(o1) /\ o1.fb.mode = applied /\ o1.ring = o.ring
      /\ o1.toast = o.toast /\ IsSeq(o.ring)
  BY DEF Sound, IsOutput, HasScreen
<1> HIDE DEF o1
<1>2. /\ HasScreen(o2) /\ o2.fb = o1.fb /\ o2.toast = o1.toast
      /\ PushedOnto(o.ring, o2.ring, e) /\ IsSeq(o2.ring)
  BY <1>1, PushRows, PushRing, PushSeq
<1> HIDE DEF o2
<1>3. /\ LastSwitch(o2.ring, req, applied) /\ Ledger(o2.ring)
      /\ \A k \in DOMAIN ModeList :
           req = ModeList[k] => SwitchedTo(o2.ring, Len(o2.ring), k)
  BY <1>2, SwitchPushed DEF Sound
<1>4. /\ IsOutput(o2) /\ o2.fb.mode \in Mode /\ o2.toast \in 0..ToastPolls
  BY <1>1, <1>2 DEF Sound, IsOutput
<1>5. /\ Good(o3, rs) /\ o3.fb.mode = o2.fb.mode
      /\ o3.ring = o2.ring /\ Rows(o3)[toast_row] = Blank
  BY <1>3, <1>4, RepaintGood
<1> HIDE DEF o3
<1>6. /\ HasScreen(o4) /\ OnlyRows(o3, o4)
      /\ \A r \in Row : Rows(o4)[r] = IF r # toast_row THEN Rows(o3)[r]
                                       ELSE ToastLine(req, applied)
  <2>1. HasScreen(o3)
    BY <1>5 DEF Good, Sound, IsOutput
  <2> QED
    BY <1>5, <2>1, DrawAtRows
<1> HIDE DEF o4
<1>7. /\ HasScreen(o5) /\ o5.fb = o4.fb /\ Rows(o5) = Rows(o4)
      /\ o5.ring = o4.ring /\ o5.qr = o4.qr /\ o5.toast = ToastPolls
  BY <1>6 DEF HasScreen, Rows
<1> HIDE DEF o5
<1>8. /\ o5.ring = o2.ring /\ o5.fb.mode = applied /\ o5.fb.chrome = TRUE
      /\ o5.qr = o3.qr /\ o3.fb.mode = applied
      /\ \A r \in Row : Rows(o5)[r] = IF r # toast_row THEN Rows(o3)[r]
                                       ELSE ToastLine(req, applied)
  BY <1>1, <1>2, <1>5, <1>6, <1>7 DEF OnlyRows, Good, Sound
<1>9. Toasted(o5)
  BY <1>3, <1>7, <1>8, Layout, Times DEF Toasted
<1>10. Sound(o5)
  BY <1>2, <1>3, <1>7, <1>8, <1>9, Times DEF Sound, IsOutput
<1>11. Shown(o5, rs)
  BY <1>5, <1>8, Layout DEF Good, Shown, BootingShown
<1>12. Attested(o5)
  BY <1>5, <1>8 DEF Good, Attested, QrShown
<1> QED
  BY <1>0, <1>3, <1>8, <1>10, <1>11, <1>12 DEF Good

-----------------------------------------------------------------------------
(* The cursor *)

LEMMA CursorTicks ==
    ASSUME NEW c, CursorOK(c)
    PROVE  CursorOK(Tick(c)) /\ Glyph(Tick(c)) \in Glyphs
<1>1. CASE c.since + 1 < BlinkPolls
  <2>1. Tick(c) = [c EXCEPT !.since = @ + 1]
    BY <1>1 DEF Tick
  <2> QED
    BY <1>1, <2>1, Times DEF CursorOK, Glyphs, Glyph
<1>2. CASE ~(c.since + 1 < BlinkPolls)
  <2> DEFINE z == [c EXCEPT !.since = 0]
  <2>1. CursorOK(z)
    BY Times DEF CursorOK
  <2>2. Tick(c) = IF c.phase = "on" THEN [z EXCEPT !.phase = "off"]
                  ELSE Lit(z)
    BY <1>2 DEF Tick
  <2> HIDE DEF z
  <2>3. CursorOK([z EXCEPT !.phase = "off"])
    BY <2>1 DEF CursorOK
  <2>4. CursorOK(Lit(z))
    <3>1. CASE z.blinks + 1 >= GlitchEveryN
      <4>1. Lit(z) = [phase |-> "on", since |-> z.since, blinks |-> 0,
                      glyph |-> "broken"]
        BY <2>1, <3>1 DEF Lit, CursorOK
      <4>2. z.since \in 0..(BlinkPolls - 1) /\ 0 \in 0..(GlitchEveryN - 1)
        BY <2>1, Times DEF CursorOK
      <4> QED
        BY <4>1, <4>2 DEF CursorOK
    <3>2. CASE ~(z.blinks + 1 >= GlitchEveryN)
      <4>1. Lit(z) = [phase |-> "on", since |-> z.since,
                      blinks |-> z.blinks + 1, glyph |-> "canonical"]
        BY <2>1, <3>2 DEF Lit, CursorOK
      <4>2. /\ z.since \in 0..(BlinkPolls - 1)
            /\ z.blinks + 1 \in 0..(GlitchEveryN - 1)
        BY <2>1, <3>2, Times DEF CursorOK
      <4> QED
        BY <4>1, <4>2 DEF CursorOK
    <3> QED
      BY <3>1, <3>2
  <2>5. CursorOK(Tick(c))
    BY <2>2, <2>3, <2>4
  <2> QED
    BY <2>5 DEF CursorOK, Glyphs, Glyph
<1> QED
  BY <1>1, <1>2

\* The glyph of the cursor is no text.
LEMMA BlinkGood ==
    ASSUME NEW o, NEW rs, Good(o, rs), SnapshotOK(rs), NEW last
    PROVE  /\ Good(Blinked(o, last, rs), rs)
           /\ Blinked(o, last, rs).ring = o.ring
<1> DEFINE g == Glyph(Tick(cursor))
           d == [o EXCEPT !.fb.cursor = g]
           p == IF g # last THEN Refresh(d) ELSE d
<1>0. Blinked(o, last, rs) = TickToast(p, rs)
  BY DEF Blinked
<1> HIDE DEF g
<1>1. /\ HasScreen(d) /\ Rows(d) = Rows(o) /\ d.fb.mode = o.fb.mode
      /\ d.fb.chrome = o.fb.chrome
      /\ d.ring = o.ring /\ d.toast = o.toast /\ d.qr = o.qr
  BY DEF Good, Sound, IsOutput, HasScreen, Rows
<1> HIDE DEF d
<1>2. Sound(d)
  BY <1>1 DEF Good, Sound, Toasted, IsOutput
<1>3. Shown(d, rs) /\ Attested(d)
  BY <1>1 DEF Good, Shown, BootingShown, Attested, QrShown
<1>4. Good(d, rs) /\ Good(Refresh(d), rs) /\ Refresh(d).ring = d.ring
  BY <1>2, <1>3, RefreshGood DEF Good
<1>5. Good(p, rs) /\ p.ring = o.ring
  BY <1>1, <1>4
<1> HIDE DEF p
<1> QED
  BY <1>0, <1>5, TickGood

-----------------------------------------------------------------------------
(* The transcript grows by a line *)

\* The snapshot q has a line more than rs.
Adds(rs, q, row, line) ==
    /\ SnapshotOK(q)
    /\ row \in Row \ {toast_row, booting_row}
    /\ Want(rs, row) = Blank /\ Want(q, row) = line
    /\ \A r \in Row : r # row => Want(q, r) = Want(rs, r)
    /\ rs.at \in {"post", "parked"} => q.at \in {"post", "parked"}

LEMMA FirstLine ==
    Adds(Snapshot("awaiting", 0, 0), Snapshot("pre", 1, 0),
         0, ScriptLine("pre", 0))
<1> DEFINE q == Snapshot("pre", 1, 0)
           rs == Snapshot("awaiting", 0, 0)
<1>1. SnapshotOK(q)
  BY Times DEF SnapshotOK, Snapshot
<1>2. 0 \in Row \ {toast_row, booting_row}
  BY Layout, Times
<1>3. \A r \in Row : /\ r \in Nat
                     /\ r < 1 <=> r = 0
                     /\ r \notin next_row..(next_row + 0 - 1)
  BY Layout, Times
<1>4. /\ q.at = "pre" /\ q.pre = 1 /\ q.post = 0
      /\ rs.at = "awaiting" /\ rs.pre = 0 /\ rs.post = 0
  BY DEF Snapshot
<1> HIDE DEF q, rs
<1>5. \A r \in Row : /\ Want(rs, r) = Blank
                     /\ Want(q, r) = IF r = 0 THEN ScriptLine("pre", 0)
                                     ELSE Blank
  BY <1>3, <1>4 DEF Want
<1>6. Adds(rs, q, 0, ScriptLine("pre", 0))
  BY <1>1, <1>2, <1>4, <1>5 DEF Adds
<1> QED
  BY <1>6 DEF q, rs

LEMMA PreLine ==
    ASSUME NEW rs, SnapshotOK(rs), rs.at = "pre", rs.pre < PreLen
    PROVE  Adds(rs, Snapshot("pre", rs.pre + 1, 0), rs.pre,
                ScriptLine("pre", rs.pre))
<1> DEFINE q == Snapshot("pre", rs.pre + 1, 0)
           k == rs.pre
<1>1. k \in 0..PreLen /\ rs.post = 0 /\ k \in Nat /\ k < start_row
  BY Times DEF SnapshotOK
<1>2. SnapshotOK(q)
  BY <1>1, Times DEF SnapshotOK, Snapshot
<1>3. k \in Row \ {toast_row, booting_row}
  BY <1>1, Layout, Times
<1>4. \A r \in Row : /\ r \in Nat
                     /\ r < k + 1 <=> r < k \/ r = k
                     /\ r \notin next_row..(next_row + 0 - 1)
  BY <1>1, Layout, Times
<1>5. /\ q.at = "pre" /\ q.pre = k + 1 /\ q.post = 0
  BY DEF Snapshot
<1>6. ~(k < k)
  BY <1>1
<1> HIDE DEF q, k
<1>7. \A r \in Row : /\ Want(rs, r) = IF r < k THEN ScriptLine("pre", r)
                                      ELSE Blank
                     /\ Want(q, r) = IF r < k \/ r = k
                                     THEN ScriptLine("pre", r) ELSE Blank
  BY <1>1, <1>4, <1>5 DEF Want, k
<1>8. Adds(rs, q, k, ScriptLine("pre", k))
  BY <1>2, <1>3, <1>5, <1>6, <1>7 DEF Adds
<1> QED
  BY <1>8 DEF q, k

\* From the second line of POST on, and the first one after the bootloader.
LEMMA PostLine ==
    ASSUME NEW rs, SnapshotOK(rs), rs.at \in {"bootloader", "post"},
           rs.post < PostLen
    PROVE  Adds(rs, Snapshot("post", PreLen, rs.post + 1),
                next_row + rs.post, ScriptLine("post", rs.post))
<1> DEFINE q == Snapshot("post", PreLen, rs.post + 1)
           k == rs.post
<1>1. k \in 0..PostLen /\ rs.pre = PreLen /\ k \in Nat
  BY Times DEF SnapshotOK
<1>2. SnapshotOK(q)
  BY <1>1, Times DEF SnapshotOK, Snapshot
<1>3. /\ next_row + k \in Row \ {toast_row, booting_row}
      /\ (next_row + k) - next_row = k
      /\ ~(next_row + k < PreLen) /\ PreLen \in Nat /\ next_row + k \in Nat
  BY <1>1, Layout, Times
<1>4. \A r \in Row :
        r \in next_row..(next_row + (k + 1) - 1) <=>
          r \in next_row..(next_row + k - 1) \/ r = next_row + k
  BY <1>1, Layout, Times
<1>5. next_row + k \notin next_row..(next_row + k - 1)
  BY <1>1, Layout, Times
<1>6. q.at = "post" /\ q.pre = PreLen /\ q.post = k + 1
  BY DEF Snapshot
<1> HIDE DEF q, k
<1>7. \A r \in Row :
        /\ Want(rs, r) = IF r < PreLen THEN ScriptLine("pre", r)
                         ELSE IF r \in next_row..(next_row + k - 1)
                         THEN ScriptLine("post", r - next_row) ELSE Blank
        /\ Want(q, r) = IF r < PreLen THEN ScriptLine("pre", r)
                        ELSE IF \/ r \in next_row..(next_row + k - 1)
                                \/ r = next_row + k
                        THEN ScriptLine("post", r - next_row) ELSE Blank
  BY <1>1, <1>4, <1>6 DEF Want, k
<1>8. Adds(rs, q, next_row + k, ScriptLine("post", k))
  BY <1>2, <1>3, <1>5, <1>6, <1>7 DEF Adds
<1> QED
  BY <1>8 DEF q, k

LEMMA ParkedLine ==
    ASSUME NEW rs, SnapshotOK(rs), rs.at = "post", rs.post = PostLen
    PROVE  Adds(rs, Snapshot("parked", PreLen, PostLen), parked_row,
                Line("online"))
<1> DEFINE q == Snapshot("parked", PreLen, PostLen)
<1>1. rs.pre = PreLen
  BY DEF SnapshotOK
<1>2. SnapshotOK(q)
  BY Times DEF SnapshotOK, Snapshot
<1>3. /\ parked_row \in Row \ {toast_row, booting_row}
      /\ ~(parked_row < PreLen)
      /\ parked_row \notin next_row..(next_row + PostLen - 1)
  BY Layout, Times
<1>4. q.at = "parked" /\ q.pre = PreLen /\ q.post = PostLen
  BY DEF Snapshot
<1> HIDE DEF q
<1>5. Adds(rs, q, parked_row, Line("online"))
  BY <1>1, <1>2, <1>3, <1>4 DEF Adds, Want
<1> QED
  BY <1>5 DEF q

LEMMA AddLine ==
    ASSUME NEW o, NEW rs, Sound(o), Shown(o, rs),
           NEW q, NEW row, NEW line, Adds(rs, q, row, line)
    PROVE  /\ Good(RenderLine(o, row, line), q)
           /\ Good(Refresh(DrawAt(o, row, line)), q)
<1>1. /\ row \in Row \ {toast_row, booting_row} /\ line = Want(q, row)
      /\ Rows(o)[row] = Blank
  BY DEF Adds, Shown
<1>2. \A r \in Row \ {toast_row, booting_row, row} : Rows(o)[r] = Want(q, r)
  BY DEF Adds, Shown
<1>3. BootingShown(o, q)
  BY <1>1, Layout DEF Adds, Shown, BootingShown
<1> QED
  BY <1>1, <1>2, <1>3, ShowLine

-----------------------------------------------------------------------------
(* Into the bootloader *)

LEMMA LockedOK == SnapshotOK(Locked) /\ Locked.at = "bootloader"
BY Times DEF Locked, SnapshotOK, Snapshot

\* The bootloader leaves alone what Sound is about.
LEMMA FrameSound ==
    ASSUME NEW o, NEW p, Sound(o), Framed(o, p, SceneKinds)
    PROVE  Sound(p)
<1>1. /\ IsOutput(p) /\ p.fb.mode = o.fb.mode /\ p.fb.chrome = o.fb.chrome
      /\ p.toast = o.toast /\ Later(o.ring, p.ring, SceneKinds)
      /\ \A r \in Row \ SceneRow : Rows(p)[r] = Rows(o)[r]
  BY DEF Framed
<1>2. toast_row \in Row \ SceneRow
  BY Layout, Apart
<1>3. Rows(p)[toast_row] = Rows(o)[toast_row]
  BY <1>1, <1>2
<1>4. Toasted(p)
  BY <1>1, <1>3, LastSwitchLater DEF Sound, Toasted
<1> QED
  BY <1>1, <1>4, LedgerLater DEF Sound

LEMMA RefreshedAttested ==
    ASSUME NEW o, Refreshed(o)
    PROVE  Attested(o)
BY DEF Refreshed, QrSeesScreen, Attested, Rows

LEMMA FrameUntouched ==
    ASSUME NEW o, NEW p, Untouched(o), Framed(o, p, SceneKinds)
    PROVE  Untouched(p)
BY DEF Untouched, Framed

\* A state of the bootloader, as SextInv describes it.
Entering ==
    /\ pc = "b64_pause" /\ IInv
    /\ repaint_state = Locked /\ elapsed \in 0..(PacePolls - 1)
    /\ OutInv

LEMMA BootEntry ==
    ASSUME IInv, pc \in Loops \cup {"cycle"}, keys' \in keys..MaxKeys,
           NEW o, NEW rs, Good(o, rs), SnapshotOK(rs), rs.at = "pre",
           rs.pre = PreLen, CallBootloader(o)
    PROVE  Entering'
<1>1. /\ pc' = "b64_pause" /\ out' = Entered(o)
      /\ repaint_state' = Locked /\ elapsed' = 0
      /\ highest_row' = start_row /\ prompt_attempt' = 0
      /\ wrong_paste_count' = 0
      /\ UNCHANGED <<buf, idle, dots, secs>>
  BY DEF CallBootloader, Locked, loops
<1>2. nudge_rendered' = FALSE
  BY Zenon DEF CallBootloader
<1>3. IInv'
  <2>1. buf = <<>>
    BY DEF IInv, EntryInv, Loops
  <2>2. nudge_rendered' \in BOOLEAN
    BY <1>2, Zenon
  <2>3. highest_row' \in start_row..wrong_indicator_row
    BY <1>1, SceneRows
  <2>4. keys' \in 0..MaxKeys
    BY Params DEF IInv, BootTypeOK
  <2>5. BootTypeOK'
    BY <1>1, <2>2, <2>3, <2>4, Params DEF IInv, BootTypeOK
  <2>6. EntryInv'
    BY <1>1, <2>1, Params DEF EntryInv
  <2>7. AttemptInv'
    <3>0. \A n \in 0..MaxKeys : 0 <= n + 1 /\ 0 <= n
      BY Params
    <3>1. 0 <= keys' + 1 /\ 0 <= keys'
      BY <2>4, <3>0
    <3> QED
      BY <1>1, <3>1 DEF AttemptInv
  <2> QED
    BY <2>5, <2>6, <2>7 DEF IInv
<1>4. /\ Sound(o) /\ IsOutput(o) /\ rs.post = 0
      /\ \A r \in Row \ {toast_row, booting_row} : Rows(o)[r] = Want(rs, r)
      /\ Rows(o)[booting_row] = Want(rs, booting_row)
  BY DEF Good, Sound, Shown, BootingShown, SnapshotOK
<1>5. \A r \in Row : Want(rs, r) = Want(Locked, r)
  BY DEF Want, Locked, Snapshot, SnapshotOK
<1>6. \A r \in SceneRow : r # toast_row /\ Rows(o)[r] = Blank
  <2>1. ASSUME NEW r \in SceneRow
        PROVE  r \in Row /\ r # toast_row /\ r >= PreLen /\ r \in Int
    BY Apart, Layout, Times
  <2>2. ASSUME NEW r \in SceneRow
        PROVE  Want(rs, r) = Blank
    <3>1. \/ r >= next_row + rs.post
          \/ r >= rs.pre /\ r < next_row
      BY <1>4, <2>1, Layout, Times
    <3> QED
      BY <2>1, <3>1, WantBlank
  <2> QED
    BY <1>4, <2>1, <2>2
<1>7. Handled(o, out', SceneKinds)
  BY <1>1, <1>4, FrameRender, MarkKinds, SceneRows DEF Entered
<1>8. Sound(out') /\ Attested(out')
  BY <1>4, <1>7, FrameSound, RefreshedAttested DEF Handled
<1>9. Untouched(out')
  <2>1. Untouched(o)
    BY <1>4, <1>5 DEF Untouched
  <2> QED
    BY <1>7, <2>1, FrameUntouched DEF Handled
<1>10. /\ HasScreen(out')
       /\ \A r \in Row : Rows(out')[r] =
            IF r # start_row THEN Rows(o)[r]
            ELSE IF Rows(o)[r] \in {Blank, Line("b64_offline")}
            THEN Line("b64_offline") ELSE Garbled
  BY <1>1, <1>4, RenderLineRows, DrawAtRows DEF Entered, IsOutput
<1>11. \A r \in Row : Rows(out')[r] = IF r = start_row THEN Line("b64_offline")
                                       ELSE Rows(o)[r]
  <2>1. start_row \in SceneRow
    BY Layout, Apart
  <2> QED
    BY <1>6, <1>10, <2>1
<1>12. CleanRows(out')
  <2>1. ASSUME NEW r \in Row
        PROVE  "text" \in DOMAIN Rows(o)[r] /\ Rows(o)[r].text # "garbled"
    <3>1. CASE r # toast_row
      BY <1>4, <3>1, WantClean
    <3>2. CASE r = toast_row
      <4>1. "text" \in DOMAIN Blank /\ Blank.text # "garbled"
        BY CleanLines DEF Blank
      <4> QED
        BY <1>4, <3>2, <4>1, ToastClean DEF Sound, Toasted
    <3> QED
      BY <3>1, <3>2
  <2>2. /\ "text" \in DOMAIN Line("b64_offline")
        /\ Line("b64_offline").text # "garbled"
    BY CleanLines
  <2> QED
    BY <1>10, <1>11, <2>1, <2>2 DEF CleanRows
<1>13. ScreenInv'
  <2>1. HighestInv'
    BY <1>1, <1>2 DEF HighestInv
  <2>2. BelowInv'
    BY <1>1, <1>6, <1>11, Apart DEF BelowInv
  <2>3. NudgeInv'
    <3>1. nudge_row \in Row => nudge_row \in SceneRow /\ nudge_row # start_row
      BY Apart
    <3> QED
      BY <1>2, <1>6, <1>11, <3>1 DEF NudgeInv
  <2>4. BareInv'
    BY <1>1 DEF BareInv
  <2> QED
    BY <1>12, <2>1, <2>2, <2>3, <2>4 DEF ScreenInv
<1>14. OutInv'
  BY <1>1, <1>8, <1>9, <1>13, LockedOK DEF OutInv
<1> QED
  BY <1>1, <1>3, <1>14, Times DEF Entering

\* The bootloader's own steps.
LEMMA BootStepInv ==
    ASSUME SextInv, Quiet \/ Keystroke, UNCHANGED sceneVars
    PROVE  SextInv'
<1>1. /\ pc \in Pauses /\ pc' \in Pauses \cup {"off", "reset"}
  BY PauseSteps DEF Pauses
<1>2. /\ pc # "cycle" /\ pc' # "cycle" /\ IInv
      /\ repaint_state.at = "bootloader" /\ SnapshotOK(repaint_state)
      /\ Sound(out) /\ ScreenInv /\ Untouched(out)
      /\ ~(pc = "retrying" /\ dots = 0) => Attested(out)
  BY <1>1 DEF SextInv, PlaceInv, PlaceOK, Loop, OutInv, Pauses
<1>3. UNCHANGED <<phase, repaint_state, cursor, last_glyph, elapsed, caller,
                  todo, count, dwell>>
  BY DEF sceneVars, cycleVars
<1>4. IInv'
  BY <1>2, QuietIInv, KeystrokeIInv
<1>5. ScreenInv'
  BY <1>2, BootScreen DEF BootloaderStep
<1>6. /\ Framed(out, out', SceneKinds)
      /\ \/ Refreshed(out') /\ ~(pc' = "retrying" /\ dots' = 0)
         \/ Unnoticed
         \/ pc' = "retrying" /\ dots' = 0
  BY <1>2, BootFrame DEF BootloaderStep, Sound
<1>7. Sound(out') /\ Untouched(out')
  BY <1>2, <1>6, FrameSound, FrameUntouched
<1>8. ~(pc' = "retrying" /\ dots' = 0) => Attested(out')
  <2>1. CASE Unnoticed
    BY <1>2, <2>1 DEF Unnoticed, Attested, QrShown, Rows
  <2> QED
    BY <1>6, <2>1, RefreshedAttested
<1>9. OutInv'
  BY <1>2, <1>3, <1>5, <1>7, <1>8 DEF OutInv
<1>10. PlaceInv'
  BY <1>1, <1>2, <1>3 DEF PlaceInv, PlaceOK, Loop, Pauses
<1>11. SceneTyped' /\ dwell' \in 0..(DwellPolls - 1)
  BY <1>3 DEF SextInv, SceneTyped
<1>12. CycleInv'
  BY <1>2, <1>3 DEF SextInv, CycleInv
<1> QED
  BY <1>1, <1>4, <1>9, <1>10, <1>11, <1>12 DEF SextInv

-----------------------------------------------------------------------------
(* The loops *)

\* What holds when a loop polls next, or the bootloader takes over.
Between ==
    /\ pc \in Loops \cup {"b64_pause"}
    /\ IInv /\ SceneTyped
    /\ SnapshotOK(repaint_state) /\ PlaceOK(pc, repaint_state.at)
    /\ OutInv

LEMMA Settled ==
    ASSUME Between', caller' = "none", todo' = <<>>, count' = 0,
           dwell' \in 0..(DwellPolls - 1)
    PROVE  SextInv'
<1>1. pc' \in Loops \cup Pauses /\ pc' # "cycle"
  BY DEF Between, Loops, Pauses
<1>2. CycleInv'
  BY <1>1 DEF CycleInv
<1>3. PlaceInv'
  BY <1>1 DEF Between, PlaceInv, Loop
<1> QED
  BY <1>1, <1>2, <1>3 DEF Between, SextInv

\* Outside the bootloader its variables rest.
LEMMA RestIInv ==
    ASSUME IInv, pc \in Loops \cup {"cycle", "booted"}, UNCHANGED bootVars,
           keys' \in keys..MaxKeys, pc' \in Loops \cup {"cycle", "off"}
    PROVE  IInv'
<1>1. UNCHANGED <<highest_row, prompt_attempt, wrong_paste_count,
                  nudge_rendered, buf, idle, dots, secs>>
  BY DEF bootVars, counters, loops
<1>2. /\ keys \in 0..MaxKeys /\ buf = <<>> /\ prompt_attempt <= keys + 1
      /\ prompt_attempt \in 0..(MaxKeys + 1)
  BY DEF IInv, BootTypeOK, EntryInv, AttemptInv, Loops
<1>3. keys' \in 0..MaxKeys /\ prompt_attempt <= keys' + 1
  <2>1. \A m \in 0..MaxKeys, a \in 0..(MaxKeys + 1) :
          \A n \in m..MaxKeys :
             n \in 0..MaxKeys /\ (a <= m + 1 => a <= n + 1)
    BY Params
  <2> QED
    BY <1>2, <2>1
<1>4. BootTypeOK'
  BY <1>1, <1>3 DEF IInv, BootTypeOK
<1>5. EntryInv'
  BY <1>1, <1>2 DEF EntryInv, Menu, Loops
<1>6. AttemptInv'
  BY <1>1, <1>3 DEF AttemptInv, Loops
<1> QED
  BY <1>4, <1>5, <1>6 DEF IInv

\* A state between two polls of a loop.
Polled(o, rs, loop) ==
    /\ IInv /\ SceneTyped /\ pc \in Loops \cup {"cycle"}
    /\ keys' \in keys..MaxKeys
    /\ Good(o, rs) /\ SnapshotOK(rs)
    /\ loop \in Loops /\ PlaceOK(loop, rs.at)

LEMMA BlinkInv ==
    ASSUME NEW o, NEW rs, NEW last, NEW loop, Polled(o, rs, loop),
           Blink(o, last, rs), pc' = loop, repaint_state' = rs,
           phase' \in {"awaiting", "booting", "parked"},
           elapsed' \in 0..(PacePolls - 1), UNCHANGED bootVars
    PROVE  Between'
<1>1. IInv'
  BY RestIInv DEF Polled
<1>2. Good(out', rs)
  BY BlinkGood DEF Blink, Polled
<1>3. SceneTyped'
  BY CursorTicks DEF Blink, Polled, SceneTyped
<1>4. rs.at # "bootloader"
  BY DEF Polled, PlaceOK, Loops
<1>5. OutInv'
  BY <1>2, <1>4 DEF OutInv, Good
<1> QED
  BY <1>1, <1>3, <1>5 DEF Polled, Between

\* A line of the script, and the pause after it.
LEMMA PlayLineInv ==
    ASSUME NEW o, NEW script, NEW k, NEW row, NEW rs,
           IInv, SceneTyped, pc \in Loops \cup {"cycle", "booted"},
           keys' \in keys..MaxKeys, SnapshotOK(rs), rs.at \in {"pre", "post"},
           Good(RenderLine(o, row, ScriptLine(script, k)), rs),
           PlayLine(o, script, k, row, rs),
           UNCHANGED <<cursor, last_glyph, bootVars>>,
           phase' \in {"awaiting", "booting", "parked"}
    PROVE  Between'
<1>1. /\ pc' = "pace" /\ repaint_state' = rs /\ elapsed' = 0
      /\ Good(out', rs)
  BY DEF PlayLine
<1>2. IInv'
  BY <1>1, RestIInv DEF Loops
<1>3. SceneTyped'
  BY <1>1, Times DEF SceneTyped
<1>4. OutInv'
  BY <1>1 DEF OutInv, Good
<1> QED
  BY <1>1, <1>2, <1>3, <1>4 DEF Between, PlaceOK, Loops, Pauses

LEMMA ParkInv ==
    ASSUME NEW o, NEW rs, Polled(o, rs, "pace"), rs.at = "post",
           rs.post = PostLen, Park(o)
    PROVE  Between'
<1> DEFINE pushed == Push(o, SceneTransition("booting", "parked"))
           left == Refresh(pushed)
           shown == Refresh(DrawAt(left, parked_row, Line("online")))
           q == Snapshot("parked", PreLen, PostLen)
<1>1. /\ pc' = "parked" /\ phase' = "parked" /\ repaint_state' = q
      /\ elapsed' = 0 /\ Blink(shown, "none", q) /\ UNCHANGED bootVars
  BY DEF Park
<1>2. Adds(rs, q, parked_row, Line("online")) /\ SnapshotOK(q)
  BY ParkedLine DEF Polled, Adds
<1>3. q.at = "parked"
  BY DEF Snapshot
<1> HIDE DEF q
<1>4. Sound(pushed) /\ Shown(pushed, rs)
  BY OtherPush, SceneEvents DEF Polled, Good
<1> HIDE DEF pushed
<1>5. Good(left, rs)
  BY <1>4, RefreshGood
<1> HIDE DEF left
<1>6. Good(shown, q)
  BY <1>2, <1>5, AddLine DEF Good
<1> HIDE DEF shown
<1>7. Polled(shown, q, "parked")
  BY <1>2, <1>3, <1>6 DEF Polled, PlaceOK, Loops, Pauses
<1>8. elapsed' \in 0..(PacePolls - 1)
  BY <1>1, Times
<1> QED
  BY <1>1, <1>7, <1>8, BlinkInv

LEMMA PaceInv ==
    ASSUME NEW o, Polled(o, repaint_state, "pace"), PaceOn(o)
    PROVE  Between'
<1> DEFINE t == TickToast(o, repaint_state)
           rs == repaint_state
           k == IF rs.at = "pre" THEN rs.pre ELSE rs.post
           still == UNCHANGED <<phase, cursor, last_glyph, bootVars>>
<1>1. \/ /\ elapsed + 1 < PacePolls /\ pc' = "pace" /\ out' = t
         /\ elapsed' = elapsed + 1 /\ UNCHANGED repaint_state /\ still
      \/ /\ rs.at = "pre" /\ rs.pre < PreLen /\ still
         /\ PlayLine(t, "pre", rs.pre, rs.pre, Snapshot("pre", rs.pre + 1, 0))
      \/ rs.at = "pre" /\ rs.pre = PreLen /\ CallBootloader(t)
      \/ /\ rs.at = "post" /\ rs.post < PostLen /\ still
         /\ PlayLine(t, "post", rs.post, next_row + rs.post,
                     Snapshot("post", PreLen, rs.post + 1))
      \/ rs.at = "post" /\ rs.post = PostLen /\ Park(t)
  BY DEF PaceOn, paced
<1>2. /\ IInv /\ SceneTyped /\ pc \in Loops \cup {"cycle"}
      /\ keys' \in keys..MaxKeys /\ SnapshotOK(rs)
      /\ rs.at \in {"pre", "post"}
  BY DEF Polled, PlaceOK
<1>3. Good(t, rs)
  BY TickGood DEF Polled
<1> HIDE DEF t
<1>4. phase \in {"awaiting", "booting", "parked"}
  BY <1>2 DEF SceneTyped
<1>5. CASE /\ elapsed + 1 < PacePolls /\ pc' = "pace" /\ out' = t
           /\ elapsed' = elapsed + 1 /\ UNCHANGED repaint_state /\ still
  <2>1. IInv'
    BY <1>2, <1>5, RestIInv DEF Loops
  <2>2. SceneTyped'
    <3>1. elapsed' \in 0..(PacePolls - 1)
      BY <1>2, <1>5, Times DEF SceneTyped
    <3> QED
      BY <1>2, <1>5, <3>1 DEF SceneTyped
  <2>3. OutInv'
    BY <1>2, <1>3, <1>5 DEF OutInv, Good
  <2> QED
    BY <1>2, <1>5, <2>1, <2>2, <2>3 DEF Between, PlaceOK, Loops, Pauses
<1>6. CASE /\ rs.at = "pre" /\ rs.pre < PreLen /\ still
           /\ PlayLine(t, "pre", rs.pre, rs.pre,
                       Snapshot("pre", rs.pre + 1, 0))
  <2> DEFINE q == Snapshot("pre", rs.pre + 1, 0)
  <2>1. Adds(rs, q, rs.pre, ScriptLine("pre", rs.pre)) /\ SnapshotOK(q)
    BY <1>2, <1>6, PreLine DEF Adds
  <2>2. q.at \in {"pre", "post"}
    BY DEF Snapshot
  <2>3. PlayLine(t, "pre", rs.pre, rs.pre, q) /\ still
    BY <1>6
  <2> HIDE DEF q
  <2>4. Good(RenderLine(t, rs.pre, ScriptLine("pre", rs.pre)), q)
    BY <1>3, <2>1, AddLine DEF Good
  <2> QED
    BY <1>2, <1>4, <2>1, <2>2, <2>3, <2>4, PlayLineInv
<1>7. CASE rs.at = "pre" /\ rs.pre = PreLen /\ CallBootloader(t)
  <2>1. Entering'
    BY <1>2, <1>3, <1>7, BootEntry
  <2>2. UNCHANGED <<phase, cursor, last_glyph>>
    BY <1>7 DEF CallBootloader
  <2>3. SceneTyped'
    BY <1>2, <2>1, <2>2 DEF SceneTyped, Entering
  <2>4. SnapshotOK(repaint_state') /\ repaint_state'.at = "bootloader"
    BY <2>1, LockedOK DEF Entering
  <2> QED
    BY <2>1, <2>3, <2>4 DEF Entering, Between, PlaceOK
<1>8. CASE /\ rs.at = "post" /\ rs.post < PostLen /\ still
           /\ PlayLine(t, "post", rs.post, next_row + rs.post,
                       Snapshot("post", PreLen, rs.post + 1))
  <2> DEFINE q == Snapshot("post", PreLen, rs.post + 1)
             row == next_row + rs.post
  <2>1. Adds(rs, q, row, ScriptLine("post", rs.post)) /\ SnapshotOK(q)
    BY <1>2, <1>8, PostLine DEF Adds
  <2>2. q.at \in {"pre", "post"}
    BY DEF Snapshot
  <2>3. PlayLine(t, "post", rs.post, row, q) /\ still
    BY <1>8
  <2> HIDE DEF q, row
  <2>4. Good(RenderLine(t, row, ScriptLine("post", rs.post)), q)
    BY <1>3, <2>1, AddLine DEF Good
  <2> QED
    BY <1>2, <1>4, <2>1, <2>2, <2>3, <2>4, PlayLineInv
<1>9. CASE rs.at = "post" /\ rs.post = PostLen /\ Park(t)
  <2>1. Polled(t, rs, "pace")
    BY <1>2, <1>3 DEF Polled
  <2> QED
    BY <1>9, <2>1, ParkInv
<1> QED
  BY <1>1, <1>5, <1>6, <1>7, <1>8, <1>9

\* A mode key handled, its loop polls again.
LEMMA ReturnInv ==
    ASSUME NEW o, NEW loop, Polled(o, repaint_state, loop), ReturnTo(loop, o)
    PROVE  SextInv'
<1>1. /\ caller' = "none" /\ todo' = <<>> /\ count' = 0 /\ dwell' = 0
      /\ \/ loop = "pace" /\ PaceOn(o)
         \/ /\ pc' = loop /\ Blink(o, last_glyph, repaint_state)
            /\ UNCHANGED <<phase, repaint_state, elapsed, bootVars>>
  BY DEF ReturnTo
<1>2. ASSUME loop = "pace", PaceOn(o)
      PROVE  Between'
  BY <1>2, PaceInv
<1>3. ASSUME pc' = loop, Blink(o, last_glyph, repaint_state),
             UNCHANGED <<phase, repaint_state, elapsed, bootVars>>
      PROVE  Between'
  <2>1. /\ phase' \in {"awaiting", "booting", "parked"}
        /\ elapsed' \in 0..(PacePolls - 1)
    BY <1>3 DEF Polled, SceneTyped
  <2> QED
    BY <1>3, <2>1, BlinkInv
<1>4. dwell' \in 0..(DwellPolls - 1)
  BY <1>1, Times
<1> QED
  BY <1>1, <1>2, <1>3, <1>4, Settled

LEMMA AllModes ==
    /\ IsSeq(ModeList) /\ Len(ModeList) \in Nat /\ Len(ModeList) > 0
    /\ DOMAIN ModeList = 1..Len(ModeList)
    /\ \A i \in 1..Len(ModeList) : ModeList[i] \in Mode
    /\ Remaining(0, ModeList)
<1>1. ModeList \in Seq(Mode) /\ ModeList # <<>>
  BY SextantAssumption
<1>2. /\ IsSeq(ModeList) /\ Len(ModeList) \in Nat
      /\ DOMAIN ModeList = 1..Len(ModeList)
  BY <1>1, LenProperties DEF IsSeq
<1>3. Len(ModeList) > 0
  BY <1>1, <1>2, EmptySeq
<1>4. \A i \in 1..Len(ModeList) : ModeList[i] \in Mode /\ 0 + i = i
  BY <1>1, <1>2, ElementOfSeq
<1> QED
  BY <1>2, <1>3, <1>4 DEF Remaining

LEMMA NextOfCycle ==
    ASSUME NEW k, k \in 0..Len(ModeList), NEW list, Remaining(k, list),
           list # <<>>
    PROVE  /\ k + 1 \in 1..Len(ModeList) /\ Head(list) = ModeList[k + 1]
           /\ Remaining(k + 1, Tail(list))
<1>1. PICK S : list \in Seq(S)
  BY DEF Remaining, IsSeq
<1>2. /\ Len(list) \in Nat /\ Len(list) > 0 /\ Len(list) = Len(ModeList) - k
  BY <1>1, EmptySeq DEF Remaining
<1>3. /\ Head(list) = list[1] /\ Tail(list) \in Seq(S)
      /\ Len(Tail(list)) = Len(list) - 1
      /\ \A i \in 1..Len(Tail(list)) : Tail(list)[i] = list[i + 1]
  BY <1>1, HeadTailProperties
<1>4. k + 1 \in 1..Len(ModeList) /\ Len(Tail(list)) = Len(ModeList) - (k + 1)
  BY <1>2, <1>3, AllModes
<1>5. ASSUME NEW i \in 1..Len(Tail(list))
      PROVE  Tail(list)[i] = ModeList[(k + 1) + i]
  <2>1. i + 1 \in 1..Len(list) /\ k + (i + 1) = (k + 1) + i
    BY <1>2, <1>3
  <2> QED
    BY <1>3, <2>1 DEF Remaining
<1>6. Head(list) = ModeList[k + 1]
  BY <1>2, <1>3 DEF Remaining
<1> QED
  BY <1>3, <1>4, <1>5, <1>6 DEF Remaining, IsSeq

\* The next mode of a cycle is asked for.
LEMMA CycleInvKept ==
    ASSUME NEW o, NEW list, NEW k \in 0..Len(ModeList), NEW loop,
           Polled(o, repaint_state, loop), Remaining(k, list), list # <<>>,
           CycleTo(o, list, k, loop)
    PROVE  SextInv'
<1> DEFINE rs == repaint_state
<1>1. /\ pc' = "cycle" /\ todo' = Tail(list) /\ count' = k + 1 /\ dwell' = 0
      /\ caller' = loop
      /\ UNCHANGED <<phase, repaint_state, cursor, last_glyph, elapsed,
                     bootVars>>
  BY DEF CycleTo
<1>2. PICK applied \in Mode : out' = SwitchMode(o, Head(list), applied, rs)
  BY DEF CycleTo
<1>3. /\ k + 1 \in 1..Len(ModeList) /\ Head(list) = ModeList[k + 1]
      /\ Remaining(k + 1, Tail(list))
  BY NextOfCycle
<1>4. Head(list) \in Requested
  BY <1>3, AllModes DEF Requested
<1>5. /\ Sound(o) /\ SnapshotOK(rs) /\ IInv /\ SceneTyped
      /\ pc \in Loops \cup {"cycle"} /\ keys' \in keys..MaxKeys
      /\ loop \in Loops /\ PlaceOK(loop, rs.at)
  BY DEF Polled, Good
<1>6. Good(out', rs) /\ SwitchedTo(out'.ring, Len(out'.ring), k + 1)
  BY <1>2, <1>3, <1>4, <1>5, AllModes, SwitchGood
<1>7. IInv'
  BY <1>1, <1>5, RestIInv
<1>8. SceneTyped' /\ dwell' \in 0..(DwellPolls - 1)
  BY <1>1, <1>5, Times DEF SceneTyped
<1>9. CycleInv'
  BY <1>1, <1>3, <1>5, <1>6 DEF CycleInv
<1>10. PlaceInv'
  BY <1>1, <1>5 DEF PlaceInv, Loop
<1>11. rs.at # "bootloader"
  BY <1>5 DEF PlaceOK, Loops
<1>12. OutInv'
  BY <1>1, <1>6, <1>11 DEF OutInv, Good
<1> QED
  BY <1>1, <1>7, <1>8, <1>9, <1>10, <1>12 DEF SextInv

\* A key of MODE_KEYS or '0' in any loop.
LEMMA HandleInv ==
    ASSUME NEW key, NEW o, NEW loop, Polled(o, repaint_state, loop),
           HandleModeKey(key, o, loop)
    PROVE  SextInv'
<1>1. CASE CycleTo(o, ModeList, 0, loop)
  <2>1. ModeList # <<>> /\ 0 \in 0..Len(ModeList) /\ Remaining(0, ModeList)
    BY AllModes, SextantAssumption
  <2> QED
    BY <1>1, <2>1, CycleInvKept, Zenon
<1>2. ASSUME key \in ModeKey, NEW applied \in Mode,
             ReturnTo(loop, SwitchMode(o, key, applied, repaint_state))
      PROVE  SextInv'
  <2> DEFINE p == SwitchMode(o, key, applied, repaint_state)
  <2>1. Good(p, repaint_state)
    BY <1>2, SwitchGood DEF Requested, Polled, Good
  <2>2. ReturnTo(loop, p)
    BY <1>2
  <2> HIDE DEF p
  <2>3. Polled(p, repaint_state, loop)
    BY <2>1 DEF Polled
  <2> QED
    BY <2>2, <2>3, ReturnInv
<1> QED
  BY <1>1, <1>2 DEF HandleModeKey

-----------------------------------------------------------------------------
(* The actions *)

LEMMA PolledNow ==
    ASSUME SextInv, pc \in Loops \cup {"cycle"}, keys' \in keys..MaxKeys
    PROVE  Polled(out, repaint_state, Loop)
<1>1. Loop \in Loops /\ SnapshotOK(repaint_state) /\ PlaceOK(Loop, repaint_state.at)
  BY DEF SextInv, CycleInv, PlaceInv, Loop
<1>2. Good(out, repaint_state)
  BY <1>1 DEF SextInv, OutInv, Good, PlaceOK, Loops
<1> QED
  BY <1>1, <1>2 DEF SextInv, Polled

LEMMA KeyCounted ==
    ASSUME SextInv
    PROVE  /\ UNCHANGED keys => keys' \in keys..MaxKeys
           /\ \A k : PressKey(k) => keys' \in keys..MaxKeys
<1>1. \A n \in 0..MaxKeys : /\ n \in n..MaxKeys
                            /\ n < MaxKeys => n + 1 \in n..MaxKeys
  BY Params
<1>2. keys \in 0..MaxKeys
  BY DEF SextInv, IInv, BootTypeOK
<1> QED
  BY <1>1, <1>2 DEF PressKey

LEMMA PolledPressed ==
    ASSUME NEW rs, NEW loop, Polled(out, rs, loop), NEW k
    PROVE  Polled(Pressed(k), rs, loop)
<1>1. Good(Pressed(k), rs)
  BY OtherPush, SceneEvents DEF Polled, Good, Pressed
<1> QED
  BY <1>1 DEF Polled

LEMMA QuietInv ==
    ASSUME SextInv, BlinkQuiet \/ PaceQuiet
    PROVE  SextInv'
<1>1. /\ pc \in Loops /\ pc # "cycle"
      /\ UNCHANGED <<caller, todo, count, dwell, keys>>
  BY DEF BlinkQuiet, PaceQuiet, cycleVars, Loops
<1>2. Polled(out, repaint_state, pc)
  BY <1>1, PolledNow, KeyCounted DEF Loop
<1>3. /\ caller' = "none" /\ todo' = <<>> /\ count' = 0
      /\ dwell' \in 0..(DwellPolls - 1)
  BY <1>1 DEF SextInv, CycleInv
<1>4. ASSUME BlinkQuiet
      PROVE  Between'
  <2>1. /\ Blink(out, last_glyph, repaint_state)
        /\ UNCHANGED <<pc, phase, repaint_state, elapsed, bootVars>>
    BY <1>4 DEF BlinkQuiet
  <2>2. /\ phase' \in {"awaiting", "booting", "parked"}
        /\ elapsed' \in 0..(PacePolls - 1)
    BY <2>1 DEF SextInv, SceneTyped
  <2> QED
    BY <1>2, <2>1, <2>2, BlinkInv
<1>5. ASSUME PaceQuiet
      PROVE  Between'
  BY <1>2, <1>5, PaceInv DEF PaceQuiet
<1> QED
  BY <1>3, <1>4, <1>5, Settled

LEMMA PaceKeyInv ==
    ASSUME SextInv, NEW k, PaceOtherKey(k)
    PROVE  SextInv'
<1>1. /\ pc = "pace" /\ PressKey(k) /\ PaceOn(Pressed(k))
      /\ UNCHANGED <<caller, todo, count, dwell>>
  BY DEF PaceOtherKey, cycleVars
<1>2. Polled(out, repaint_state, "pace")
  BY <1>1, PolledNow, KeyCounted DEF Loop, Loops
<1>3. Polled(Pressed(k), repaint_state, "pace")
  BY <1>2, PolledPressed
<1>4. /\ caller' = "none" /\ todo' = <<>> /\ count' = 0
      /\ dwell' \in 0..(DwellPolls - 1)
  BY <1>1 DEF SextInv, CycleInv
<1> QED
  BY <1>1, <1>3, <1>4, PaceInv, Settled

LEMMA ModeKeyInv ==
    ASSUME SextInv, NEW k, ModeKeyPressed(k)
    PROVE  SextInv'
<1>1. /\ pc \in Loops /\ pc # "cycle" /\ PressKey(k)
      /\ HandleModeKey(k, Pressed(k), pc)
  BY DEF ModeKeyPressed, Loops
<1>2. Polled(out, repaint_state, pc)
  BY <1>1, PolledNow, KeyCounted DEF Loop
<1>3. Polled(Pressed(k), repaint_state, pc)
  BY <1>2, PolledPressed
<1> QED
  BY <1>1, <1>3, HandleInv

\* The dwell of a cycle: it waits, goes on to the next mode, or ends and
\* records that it has.
LEMMA CycleQuietInv ==
    ASSUME SextInv, CycleQuiet
    PROVE  SextInv'
<1> DEFINE o == TickToast(out, repaint_state)
<1>1. /\ pc = "cycle" /\ UNCHANGED keys
      /\ \/ /\ dwell + 1 < DwellPolls /\ dwell' = dwell + 1 /\ out' = o
            /\ UNCHANGED <<pc, phase, repaint_state, cursor, last_glyph,
                           elapsed, caller, todo, count, bootVars>>
         \/ todo # <<>> /\ CycleTo(o, todo, count, caller)
         \/ todo = <<>> /\ ReturnTo(caller, Push(o, ModeCycle(count, FALSE)))
  BY DEF CycleQuiet, dwelt
<1>2. Polled(out, repaint_state, caller)
  BY <1>1, PolledNow, KeyCounted DEF Loop
<1>3. /\ caller \in Loops /\ count \in 1..Len(ModeList)
      /\ Remaining(count, todo)
      /\ SwitchedTo(out.ring, Len(out.ring), count)
  BY <1>1 DEF SextInv, CycleInv
<1>4. Good(o, repaint_state) /\ o.ring = out.ring
  BY <1>2, TickGood DEF Polled
<1> HIDE DEF o
<1>5. Polled(o, repaint_state, caller)
  BY <1>2, <1>4 DEF Polled
<1>6. CASE /\ dwell + 1 < DwellPolls /\ dwell' = dwell + 1 /\ out' = o
           /\ UNCHANGED <<pc, phase, repaint_state, cursor, last_glyph,
                          elapsed, caller, todo, count, bootVars>>
  <2>1. IInv'
    BY <1>1, <1>2, <1>6, RestIInv DEF Polled
  <2>2. dwell' \in 0..(DwellPolls - 1)
    BY <1>6, Times DEF SextInv
  <2>3. SceneTyped' /\ PlaceInv'
    BY <1>6 DEF SextInv, SceneTyped, PlaceInv, Loop
  <2>4. CycleInv'
    BY <1>1, <1>3, <1>4, <1>6 DEF CycleInv
  <2>5. repaint_state.at # "bootloader"
    BY <1>2 DEF Polled, PlaceOK, Loops
  <2>6. OutInv'
    BY <1>4, <1>6, <2>5 DEF OutInv, Good
  <2> QED
    BY <1>1, <1>6, <2>1, <2>2, <2>3, <2>4, <2>6 DEF SextInv
<1>7. CASE todo # <<>> /\ CycleTo(o, todo, count, caller)
  <2>1. count \in 0..Len(ModeList)
    BY <1>3, AllModes
  <2> QED
    BY <1>3, <1>5, <1>7, <2>1, CycleInvKept
<1>8. CASE todo = <<>> /\ ReturnTo(caller, Push(o, ModeCycle(count, FALSE)))
  <2> DEFINE e == ModeCycle(count, FALSE)
  <2>1. count = Len(ModeList)
    <3>1. Len(todo) = 0
      BY <1>8, EmptySeq
    <3> QED
      BY <1>3, <3>1, AllModes DEF Remaining
  <2>2. PushedOnto(o.ring, Push(o, e).ring, e)
    BY <1>4, PushRing, PushRows DEF Good, Sound, IsOutput
  <2>3. Ledger(Push(o, e).ring)
    BY <1>3, <1>4, <2>1, <2>2, CyclePushed DEF Good, Sound
  <2>4. e.kind # "ModeSwitch"
    BY DEF ModeCycle
  <2> HIDE DEF e
  <2>5. Good(Push(o, e), repaint_state)
    BY <1>4, <2>3, <2>4, PushSound DEF Good
  <2>6. Polled(Push(o, e), repaint_state, caller)
    BY <1>5, <2>5 DEF Polled
  <2>7. ReturnTo(caller, Push(o, e))
    BY <1>8 DEF e
  <2> QED
    BY <2>6, <2>7, ReturnInv
<1> QED
  BY <1>1, <1>6, <1>7, <1>8

LEMMA CycleKeyInv ==
    ASSUME SextInv, NEW k, CycleKey(k)
    PROVE  SextInv'
<1> DEFINE e == ModeCycle(count, TRUE)
           o == Pressed(k)
           p == Push(o, e)
<1>1. /\ pc = "cycle" /\ PressKey(k)
      /\ HandleModeKey(k, p, caller) \/ ReturnTo(caller, p)
  BY DEF CycleKey
<1>2. Polled(out, repaint_state, caller)
  BY <1>1, PolledNow, KeyCounted DEF Loop
<1>3. SwitchedTo(out.ring, Len(out.ring), count)
  BY <1>1 DEF SextInv, CycleInv
<1>4. Polled(o, repaint_state, caller)
  BY <1>2, PolledPressed
<1>5. PushedOnto(out.ring, o.ring, Keypress(k))
  BY <1>2, PushRing, PushRows DEF Pressed, Polled, Good, Sound, IsOutput
<1> HIDE DEF o
<1>6. PushedOnto(o.ring, p.ring, e)
  BY <1>4, PushRing, PushRows DEF Polled, Good, Sound, IsOutput
<1>7. Ledger(p.ring)
  BY <1>2, <1>3, <1>5, <1>6, StopPushed DEF Polled, Good, Sound
<1>8. e.kind # "ModeSwitch"
  BY DEF ModeCycle
<1> HIDE DEF e
<1>9. Good(p, repaint_state)
  BY <1>4, <1>7, <1>8, PushSound DEF Polled, Good
<1> HIDE DEF p
<1>10. Polled(p, repaint_state, caller)
  BY <1>4, <1>9 DEF Polled
<1> QED
  BY <1>1, <1>10, HandleInv, ReturnInv

\* The first line of PRE, on a screen cleared of everything, a toast too.
LEMMA LeaveAwaitingInv ==
    ASSUME SextInv, NEW k, LeaveAwaiting(k)
    PROVE  SextInv'
<1> DEFINE pushed == Push(Pressed(k), SceneTransition("awaiting", "booting"))
           left == Refresh(pushed)
           o == WithChrome(Cleared(left))
           rs == Snapshot("awaiting", 0, 0)
           q == Snapshot("pre", 1, 0)
<1>1. /\ pc = "awaiting" /\ PressKey(k) /\ phase' = "booting"
      /\ PlayLine(o, "pre", 0, 0, q)
      /\ UNCHANGED <<cursor, last_glyph, bootVars>>
      /\ UNCHANGED <<caller, todo, count, dwell>>
  BY DEF LeaveAwaiting, cycleVars
<1>2. Polled(out, repaint_state, "awaiting")
  BY <1>1, PolledNow, KeyCounted DEF Loop, Loops
<1>3. Sound(Pressed(k))
  BY <1>2, PolledPressed DEF Polled, Good
<1>4. Sound(pushed)
  BY <1>3, OtherPush, SceneEvents
<1> HIDE DEF pushed
<1>5. Sound(left)
  BY <1>4, RefreshGood
<1> HIDE DEF left
<1>6. /\ IsOutput(o) /\ \A r \in Row : Rows(o)[r] = Blank
      /\ o.fb.chrome = TRUE /\ o.fb.mode = left.fb.mode
      /\ o.toast = left.toast /\ o.ring = left.ring
  BY <1>5, ClearedRows DEF Sound
<1> HIDE DEF o
<1>7. Sound(o)
  BY <1>5, <1>6, Layout DEF Sound, Toasted
<1>8. Adds(rs, q, 0, ScriptLine("pre", 0)) /\ SnapshotOK(q)
  BY FirstLine DEF Adds
<1>9. Shown(o, rs)
  <2>1. /\ \A r \in Row : Want(rs, r) = Blank
    <3>1. \A r \in Row : ~(r < 0) /\ r \notin next_row..(next_row + 0 - 1)
      BY Layout
    <3>2. rs.at = "awaiting" /\ rs.pre = 0 /\ rs.post = 0
      BY DEF Snapshot
    <3> HIDE DEF rs
    <3> QED
      BY <3>1, <3>2 DEF Want
  <2> QED
    BY <1>6, <2>1, Layout DEF Shown, BootingShown
<1>10. q.at \in {"pre", "post"}
  BY DEF Snapshot
<1> HIDE DEF q, rs
<1>11. Good(RenderLine(o, 0, ScriptLine("pre", 0)), q)
  BY <1>7, <1>8, <1>9, AddLine
<1>12. IInv /\ SceneTyped /\ keys' \in keys..MaxKeys
  BY <1>2 DEF Polled
<1>13. Between'
  BY <1>1, <1>8, <1>10, <1>11, <1>12, PlayLineInv DEF Loops
<1>14. /\ caller' = "none" /\ todo' = <<>> /\ count' = 0
       /\ dwell' \in 0..(DwellPolls - 1)
  BY <1>1 DEF SextInv, CycleInv
<1> QED
  BY <1>13, <1>14, Settled

LEMMA LeaveParkedInv ==
    ASSUME SextInv, NEW k, LeaveParked(k)
    PROVE  SextInv'
<1> DEFINE pushed == Push(Pressed(k), SceneTransition("parked", "parked"))
<1>1. /\ pc = "parked" /\ PressKey(k) /\ pc' = "off"
      /\ out' = Refresh(pushed)
      /\ UNCHANGED <<phase, repaint_state, cursor, last_glyph, elapsed,
                     caller, todo, count, dwell, bootVars>>
  BY DEF LeaveParked, cycleVars
<1>2. Polled(out, repaint_state, "parked")
  BY <1>1, PolledNow, KeyCounted DEF Loop, Loops
<1>3. Good(Pressed(k), repaint_state)
  BY <1>2, PolledPressed DEF Polled
<1>4. Sound(pushed) /\ Shown(pushed, repaint_state)
  BY <1>3, OtherPush, SceneEvents DEF Good
<1> HIDE DEF pushed
<1>5. Good(out', repaint_state)
  BY <1>1, <1>4, RefreshGood
<1>6. repaint_state.at = "parked"
  BY <1>2 DEF Polled, PlaceOK
<1>7. IInv'
  BY <1>1, <1>2, RestIInv DEF Polled
<1>8. OutInv'
  BY <1>1, <1>5, <1>6 DEF OutInv, Good
<1>9. PlaceInv'
  BY <1>1, <1>6 DEF SextInv, PlaceInv, PlaceOK, Loop, Loops, Pauses
<1>10. SceneTyped' /\ dwell' \in 0..(DwellPolls - 1)
  BY <1>1 DEF SextInv, SceneTyped
<1>11. CycleInv'
  BY <1>1 DEF SextInv, CycleInv
<1> QED
  BY <1>1, <1>7, <1>8, <1>9, <1>10, <1>11 DEF SextInv

\* The bootloader has left nothing but Booting... below the transcript, so
\* the first line of POST meets no other text.
LEMMA ResumeInv ==
    ASSUME SextInv, Resume
    PROVE  SextInv'
<1> DEFINE q == Snapshot("post", PreLen, 1)
<1>1. /\ pc = "booted" /\ PlayLine(out, "post", 0, next_row, q)
      /\ UNCHANGED <<phase, cursor, last_glyph, bootVars, caller, todo, count,
                     dwell, keys>>
  BY DEF Resume, cycleVars
<1>2. /\ IInv /\ SceneTyped /\ Sound(out) /\ ScreenInv /\ Untouched(out)
  <2>1. repaint_state.at = "bootloader"
    BY <1>1 DEF SextInv, PlaceInv, PlaceOK, Loop, Pauses
  <2> QED
    BY <2>1 DEF SextInv, OutInv
<1>3. /\ Adds(Locked, q, next_row, ScriptLine("post", 0)) /\ SnapshotOK(q)
  <2>1. /\ Locked.at = "bootloader" /\ Locked.post = 0 /\ 0 < PostLen
        /\ next_row + 0 = next_row /\ 0 + 1 = 1
    BY Layout, Times DEF Locked, Snapshot
  <2>2. Adds(Locked, Snapshot("post", PreLen, Locked.post + 1),
             next_row + Locked.post, ScriptLine("post", Locked.post))
    BY <2>1, LockedOK, PostLine
  <2> QED
    BY <2>1, <2>2 DEF Adds
<1>4. q.at = "post"
  BY DEF Snapshot
<1> HIDE DEF q
<1>5. \A r \in SceneRow : IF r = booting_row THEN Rows(out)[r].text = "booting"
                          ELSE Rows(out)[r] = Blank
  BY <1>1, <1>2 DEF ScreenInv, BareInv
<1>6. \A r \in Row \ {toast_row, booting_row} : Rows(out)[r] = Want(Locked, r)
  <2>1. ASSUME NEW r \in SceneRow, r # booting_row
        PROVE  Want(Locked, r) = Blank
    <3>1. /\ r \in Row /\ ~(r < PreLen)
          /\ r \notin next_row..(next_row + 0 - 1)
      BY Apart, Layout, Times
    <3>2. Locked.at = "bootloader" /\ Locked.pre = PreLen /\ Locked.post = 0
      BY DEF Locked, Snapshot
    <3> QED
      BY <3>1, <3>2 DEF Want
  <2> QED
    BY <1>2, <1>5, <2>1 DEF Untouched
<1>7. BootingShown(out, q)
  <2>1. booting_row \in SceneRow
    BY Apart, Layout
  <2>2. /\ "text" \in DOMAIN Rows(out)[booting_row]
        /\ Rows(out)[booting_row].text = "booting"
    BY <1>2, <1>5, <2>1, Layout DEF ScreenInv, CleanRows
  <2> QED
    BY <1>4, <2>2 DEF BootingShown
<1>8. /\ next_row \in Row \ {toast_row, booting_row}
      /\ Rows(out)[next_row] = Blank
      /\ \A r \in Row \ {toast_row, booting_row, next_row} :
           Rows(out)[r] = Want(q, r)
      /\ Want(q, next_row) = ScriptLine("post", 0)
  BY <1>3, <1>6 DEF Adds
<1>9. Good(RenderLine(out, next_row, ScriptLine("post", 0)), q)
  BY <1>2, <1>7, <1>8, ShowLine
<1>10. keys' \in keys..MaxKeys
  BY <1>1, KeyCounted
<1>11. phase' \in {"awaiting", "booting", "parked"}
  BY <1>1, <1>2 DEF SceneTyped
<1>12. Between'
  BY <1>1, <1>2, <1>3, <1>4, <1>9, <1>10, <1>11, PlayLineInv
<1>13. /\ caller' = "none" /\ todo' = <<>> /\ count' = 0
       /\ dwell' \in 0..(DwellPolls - 1)
  BY <1>1 DEF SextInv, CycleInv
<1> QED
  BY <1>12, <1>13, Settled

LEMMA StepInv ==
    SextInv /\ [Next]_allVars => SextInv'
<1> SUFFICES ASSUME SextInv, [Next]_allVars
             PROVE  SextInv'
  OBVIOUS
<1>1. CASE UNCHANGED allVars
  <2>1. UNCHANGED <<pc, out, highest_row, prompt_attempt, wrong_paste_count,
                    nudge_rendered, buf, idle, dots, secs, keys, phase,
                    repaint_state, cursor, last_glyph, elapsed, caller, todo,
                    count, dwell>>
    BY <1>1 DEF allVars, vars, counters, loops, sceneVars, cycleVars
  <2> QED
    BY <2>1
       DEF SextInv, IInv, BootTypeOK, EntryInv, AttemptInv, SceneTyped,
           CycleInv, PlaceInv, Loop, OutInv, ScreenInv, HighestInv, BelowInv,
           NudgeInv, BareInv
<1>2. CASE Unattended
  BY <1>2, QuietInv, CycleQuietInv, ResumeInv, BootStepInv DEF Unattended
<1>3. CASE Attended
  BY <1>3, BootStepInv, ModeKeyInv, CycleKeyInv, PaceKeyInv, LeaveAwaitingInv,
     LeaveParkedInv
     DEF Attended
<1>4. CASE PromptIdlePoll /\ UNCHANGED sceneVars
  BY <1>1, <1>4 DEF PromptIdlePoll, allVars
<1> QED
  BY <1>1, <1>2, <1>3, <1>4 DEF Next, Stopped

LEMMA DarkSound ==
    Sound(WithChrome(Dark)) /\ Shown(WithChrome(Dark), Snapshot("awaiting", 0, 0))
<1> DEFINE o == WithChrome(Dark)
           rs == Snapshot("awaiting", 0, 0)
<1>1. IsSeq(<<>>) /\ Len(<<>>) = 0
  BY EmptySeq, Zenon DEF IsSeq
<1>2. /\ HasScreen(o) /\ o.ring = <<>> /\ o.toast = 0
      /\ o.fb.mode = FirstMode /\ o.fb.chrome = TRUE
      /\ \A r \in Row : Rows(o)[r] = Blank
  BY DEF HasScreen, Rows, WithChrome, Dark
<1> HIDE DEF o
<1>3. IsOutput(o)
  BY <1>1, <1>2 DEF IsOutput
<1>4. Ledger(o.ring)
  BY <1>1, <1>2 DEF Ledger
<1>5. FirstMode \in Mode
  BY SextantAssumption
<1>6. Sound(o)
  BY <1>2, <1>3, <1>4, <1>5, Layout, Times DEF Sound, Toasted
<1>7. \A r \in Row : Want(rs, r) = Blank
  <2>1. \A r \in Row : ~(r < 0) /\ r \notin next_row..(next_row + 0 - 1)
    BY Layout
  <2>2. rs.at = "awaiting" /\ rs.pre = 0 /\ rs.post = 0
    BY DEF Snapshot
  <2> HIDE DEF rs
  <2> QED
    BY <2>1, <2>2 DEF Want
<1>8. Shown(o, rs)
  BY <1>2, <1>7, Layout DEF Shown, BootingShown
<1> QED
  BY <1>6, <1>8 DEF o

LEMMA InitInv == Init => SextInv
<1> SUFFICES ASSUME Init
             PROVE  SextInv
  OBVIOUS
<1> DEFINE rs == Snapshot("awaiting", 0, 0)
           ready == Refresh(WithChrome(Dark))
           lit == [ready EXCEPT !.fb.cursor = last_glyph]
<1>1. /\ pc = "awaiting" /\ phase = "awaiting" /\ repaint_state = rs
      /\ cursor = Tick(CursorNew) /\ last_glyph = Glyph(cursor)
      /\ out = Refresh(lit) /\ elapsed = 0 /\ dwell = 0
      /\ caller = "none" /\ todo = <<>> /\ count = 0
      /\ highest_row = start_row /\ prompt_attempt = 0
      /\ wrong_paste_count = 0 /\ idle = 0 /\ dots = 0 /\ secs = 0 /\ keys = 0
  BY DEF Init
<1>2. nudge_rendered \in BOOLEAN
  <2>1. nudge_rendered = FALSE
    BY Zenon DEF Init
  <2> QED
    BY <2>1, Zenon
<1>3. buf = <<>> /\ buf \in Seq(Printable) /\ Len(buf) = 0
  <2>1. buf = <<>>
    BY DEF Init
  <2> QED
    BY <2>1, EmptyBuffer, Zenon
<1>4. IInv
  <2>1. highest_row \in start_row..wrong_indicator_row
    BY <1>1, SceneRows
  <2>2. BootTypeOK
    BY <1>1, <1>2, <1>3, <2>1, Params DEF BootTypeOK
  <2>3. EntryInv /\ AttemptInv
    BY <1>1, <1>3 DEF EntryInv, AttemptInv, Menu
  <2> QED
    BY <2>2, <2>3 DEF IInv
<1>5. SceneTyped
  <2>1. CursorOK(CursorNew)
    BY Times DEF CursorOK, CursorNew
  <2>2. CursorOK(cursor) /\ last_glyph \in Glyphs
    BY <1>1, <2>1, CursorTicks
  <2> QED
    BY <1>1, <2>2, Times DEF SceneTyped
<1>6. SnapshotOK(rs) /\ rs.at = "awaiting"
  BY Times DEF SnapshotOK, Snapshot
<1>7. OutInv
  <2>1. Sound(ready) /\ Shown(ready, rs)
    BY DarkSound, RefreshGood DEF Good
  <2> HIDE DEF ready, rs
  <2>2. /\ HasScreen(lit) /\ Rows(lit) = Rows(ready)
        /\ lit.fb.mode = ready.fb.mode /\ lit.fb.chrome = ready.fb.chrome
        /\ lit.ring = ready.ring /\ lit.toast = ready.toast
    BY <2>1 DEF Sound, IsOutput, HasScreen, Rows
  <2> HIDE DEF lit
  <2>3. Sound(lit) /\ Shown(lit, rs)
    BY <2>1, <2>2 DEF Sound, Toasted, IsOutput, Shown, BootingShown
  <2>4. Good(out, rs)
    BY <1>1, <2>3, RefreshGood
  <2> QED
    BY <1>1, <1>6, <2>4 DEF OutInv, Good
<1> HIDE DEF rs
<1>8. PlaceInv
  BY <1>1, <1>6 DEF PlaceInv, PlaceOK, Loop, Loops, Pauses
<1>9. CycleInv
  BY <1>1 DEF CycleInv
<1> QED
  BY <1>1, <1>4, <1>5, <1>7, <1>8, <1>9, Times DEF SextInv, Loops

-----------------------------------------------------------------------------
(* The theorems *)

\* The inductive invariant: what is on screen, what repaint_state says, where
\* the program is and what it has recorded agree, in every loop, cycle and
\* pause.
THEOREM SextantInvariant == Spec => []SextInv
BY InitInv, StepInv, PTL DEF Spec

\* Every variable of the scene and of the bootloader in it keeps its type,
\* and a mode cycle always knows the loop it returns to.
THEOREM SextantTypeCorrect == Spec => []TypeOK
<1>1. ASSUME SextInv
      PROVE  TypeOK
  <2>1. /\ BootTypeOK /\ SceneTyped /\ CycleInv /\ SnapshotOK(repaint_state)
        /\ Sound(out) /\ dwell \in 0..(DwellPolls - 1)
        /\ pc \in Loops \cup Pauses \cup {"cycle", "off", "reset"}
    BY <1>1 DEF SextInv, IInv, PlaceInv, OutInv
  <2>2. count \in 0..Len(ModeList)
    BY <2>1, AllModes DEF CycleInv
  <2>3. /\ cursor.since \in 0..(BlinkPolls - 1)
        /\ cursor.blinks \in 0..(GlitchEveryN - 1)
    BY <2>1 DEF SceneTyped, CursorOK
  <2>4. pc \in {"awaiting", "pace", "parked", "cycle", "off", "reset"}
                \cup BootPauses
    BY <2>1 DEF Loops, Pauses, BootPauses
  <2>5. /\ out.fb.mode \in Mode /\ out.toast \in 0..ToastPolls
    BY <2>1 DEF Sound
  <2>6. IF pc = "cycle" THEN caller \in {"awaiting", "pace", "parked"}
        ELSE caller = "none" /\ todo = <<>> /\ count = 0
    BY <2>1 DEF CycleInv, Loops
  <2> QED
    BY <2>1, <2>2, <2>3, <2>4, <2>5, <2>6
       DEF TypeOK, SceneTyped, SnapshotOK, Glyphs
<1> QED
  BY <1>1, SextantInvariant, PTL

\* No text is ever drawn over another one: not by a transcript line after a
\* mode switch, not by a toast, and not by POST below Booting....
THEOREM NeverGhostText == Spec => []NoGhostText
<1>1. ASSUME SextInv
      PROVE  NoGhostText
  <2>1. ASSUME NEW r \in Row
        PROVE  Rows(out)[r].text # "garbled"
    <3>1. CASE repaint_state.at = "bootloader"
      BY <1>1, <3>1 DEF SextInv, OutInv, ScreenInv, CleanRows
    <3>2. CASE repaint_state.at # "bootloader"
      <4>1. Shown(out, repaint_state) /\ Toasted(out)
        BY <1>1, <3>2 DEF SextInv, OutInv, Sound
      <4>2. Blank.text # "garbled"
        BY CleanLines DEF Blank
      <4>3. CASE r = toast_row
        BY <4>1, <4>2, <4>3, ToastClean DEF Toasted
      <4>4. CASE r = booting_row
        BY <4>1, <4>4, WantClean DEF Shown, BootingShown
      <4>5. CASE r \notin {toast_row, booting_row}
        BY <4>1, <4>5, WantClean DEF Shown
      <4> QED
        BY <4>3, <4>4, <4>5
    <3> QED
      BY <3>1, <3>2
  <2> QED
    BY <2>1 DEF NoGhostText, NoGhost, Rows
<1> QED
  BY <1>1, SextantInvariant, PTL

\* Whenever a mode switch may come, repaint_state describes the transcript on
\* screen: a repaint draws the very rows that are there, the toast's and that
\* of Booting... excepted.
THEOREM RepaintAlwaysFaithful == Spec => []RepaintIsFaithful
<1>1. ASSUME SextInv
      PROVE  RepaintIsFaithful
  <2> DEFINE rs == repaint_state
  <2>1. IsOutput(out) /\ SnapshotOK(rs) /\ out.fb.chrome = TRUE
    BY <1>1 DEF SextInv, OutInv, Sound, PlaceInv
  <2>2. \A r \in Row : Redrawn(out, rs).fb.rows[r] = Want(rs, r)
    BY <2>1, RedrawnRows DEF Rows
  <2>3. ASSUME rs.at = "bootloader", NEW r \in 0..(start_row - 1)
        PROVE  out.fb.rows[r] = Redrawn(out, rs).fb.rows[r]
    <3>1. r \in Row /\ r \notin SceneRow /\ r # toast_row
      BY Apart, Layout
    <3>2. out.fb.rows[r] = Want(Locked, r)
      BY <1>1, <2>3, <3>1 DEF SextInv, OutInv, Untouched, Rows
    <3>3. Want(rs, r) = Want(Locked, r)
      BY <2>1, <2>3 DEF Want, Locked, Snapshot, SnapshotOK
    <3> QED
      BY <2>2, <3>1, <3>2, <3>3
  <2>4. ASSUME rs.at # "bootloader", NEW r \in Row \ {toast_row, booting_row}
        PROVE  out.fb.rows[r] = Redrawn(out, rs).fb.rows[r]
    BY <1>1, <2>2, <2>4 DEF SextInv, OutInv, Shown, Rows
  <2> QED
    BY <2>1, <2>3, <2>4 DEF RepaintIsFaithful
<1> QED
  BY <1>1, SextantInvariant, PTL

\* At every poll and pause but the first of the retry animation there is a QR
\* on screen that attests the video mode and every row but the toast's.
THEOREM QrAlwaysCovers == Spec => []QrCoversTranscript
<1>1. SextInv => QrCoversTranscript
  BY DEF SextInv, OutInv, Attested, QrCoversTranscript, Rows
<1> QED
  BY <1>1, SextantInvariant, PTL

\* A toast on screen has time left and names the mode the screen is in, and
\* the newest mode switch in the ring is the one it announces: also when a
\* cycle, a repaint or the bootloader came in between, and however many
\* entries the ring has lost.
THEOREM ToastAlwaysTells == Spec => []ToastTellsTheMode
<1>1. ASSUME SextInv
      PROVE  ToastTellsTheMode
  <2> DEFINE line == out.fb.rows[toast_row]
             switches == {i \in DOMAIN out.ring :
                            out.ring[i].kind = "ModeSwitch"}
  <2>1. Toasted(out) /\ DOMAIN out.ring = 1..Len(out.ring)
    <3>1. IsOutput(out) /\ Toasted(out)
      BY <1>1 DEF SextInv, OutInv, Sound
    <3>2. DOMAIN out.ring = 1..Len(out.ring)
      BY <3>1, SameRing DEF IsOutput, Later
    <3> QED
      BY <3>1, <3>2
  <2>2. ASSUME line # Blank
        PROVE  /\ out.toast > 0
               /\ line.text = "toast" /\ line.echo[2] = out.fb.mode
               /\ \A i \in switches :
                     (\A j \in switches : j <= i) =>
                       line.echo = <<out.ring[i].requested,
                                     out.ring[i].applied>>
    <3>1. PICK req \in Requested :
            /\ line = ToastLine(req, out.fb.mode)
            /\ LastSwitch(out.ring, req, out.fb.mode)
      BY <2>1, <2>2 DEF Toasted, Rows
    <3>2. /\ out.toast > 0
          /\ line.text = "toast" /\ line.echo = <<req, out.fb.mode>>
      BY <2>1, <2>2, <3>1, ToastClean DEF Toasted, Rows
    <3>3. ASSUME NEW i \in switches, \A j \in switches : j <= i
          PROVE  out.ring[i].requested = req /\ out.ring[i].applied = out.fb.mode
      BY <2>1, <3>1, <3>3 DEF LastSwitch
    <3> QED
      BY <3>2, <3>3
  <2> QED
    BY <2>2 DEF ToastTellsTheMode
<1> QED
  BY <1>1, SextantInvariant, PTL

\* Every ModeCycle entry agrees with its neighbours in the ring, for every
\* number of modes and every capacity of the ring.
THEOREM CycleLedgerKept == Spec => []CycleLedger
<1>1. ASSUME SextInv
      PROVE  CycleLedger
  <2>1. IsOutput(out) /\ Ledger(out.ring)
    BY <1>1 DEF SextInv, OutInv, Sound
  <2>2. DOMAIN out.ring = 1..Len(out.ring) /\ Len(out.ring) \in Nat
    BY <2>1, SameRing DEF IsOutput, Later
  <2> QED
    BY <2>1, <2>2 DEF Ledger, EntryOK, SwitchedTo, CycleLedger
<1> QED
  BY <1>1, SextantInvariant, PTL
=============================================================================
