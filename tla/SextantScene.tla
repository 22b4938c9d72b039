---------------------------- MODULE SextantScene ----------------------------
(***************************************************************************)
(* The properties of the whole run.                                        *)
(***************************************************************************)
EXTENDS Sextant

BootPauses == {"b64_pause", "nist_pause", "prompt", "retrying", "paste",
               "booting", "booted", "countdown", "halted"}

-----------------------------------------------------------------------------
(* Safety *)

\* Every variable of the scene and of the bootloader in it keeps its type; a
\* cycle in progress always knows the loop it returns to, and no other loop
\* carries cycle state.
TypeOK ==
    /\ pc \in {"awaiting", "pace", "parked", "cycle", "off", "reset"}
              \cup BootPauses
    /\ BootTypeOK
    /\ out.fb.mode \in Mode
    /\ out.toast \in 0..ToastPolls
    /\ phase \in {"awaiting", "booting", "parked"}
    /\ repaint_state \in [at : {"awaiting", "pre", "bootloader", "post",
                                "parked"},
                          pre : 0..PreLen, post : 0..PostLen]
    /\ cursor.since \in 0..(BlinkPolls - 1)
    /\ cursor.blinks \in 0..(GlitchEveryN - 1)
    /\ last_glyph \in {"none", "canonical", "broken"}
    /\ elapsed \in 0..(PacePolls - 1)
    /\ dwell \in 0..(DwellPolls - 1)
    /\ count \in 0..Len(ModeList)
    /\ IF pc = "cycle" THEN caller \in {"awaiting", "pace", "parked"}
       ELSE caller = "none" /\ todo = <<>> /\ count = 0

\* No text is ever drawn over another one, across mode switches, toasts,
\* repaints and the bootloader's own rows.
NoGhostText == NoGhost(out)

\* A mode switch may come at any poll, so at every poll repaint_state must
\* describe the transcript on screen: repainting would draw the same rows
\* again.  Two rows are excepted, the toast's and that of Booting..., and in
\* the bootloader, which a repaint cannot reach, all but the transcript's.
RepaintIsFaithful ==
    LET again    == Redrawn(out, repaint_state).fb
        promised == IF repaint_state.at = "bootloader" THEN 0..(start_row - 1)
                    ELSE Row \ {toast_row, booting_row}
    IN  /\ out.fb.chrome
        /\ \A r \in promised : out.fb.rows[r] = again.rows[r]

\* At every poll and in every pause a QR is on screen, and it attests the
\* current video mode and every row but the toast's; the one exception is
\* the first pause of the retry animation.
QrCoversTranscript ==
    ~(pc = "retrying" /\ dots = 0) =>
      /\ QrShown(out)
      /\ out.qr[1].fb.mode = out.fb.mode
      /\ \A r \in Row \ {toast_row} : out.qr[1].fb.rows[r] = out.fb.rows[r]

\* A toast on screen is about to expire and tells the truth: it names the
\* mode the screen is in, and the last mode switch on record, if the ring
\* still holds one, is the one it announces.
ToastTellsTheMode ==
    LET line     == out.fb.rows[toast_row]
        switches == {i \in DOMAIN out.ring : out.ring[i].kind = "ModeSwitch"}
    IN  line # Blank =>
          /\ out.toast > 0
          /\ line.text = "toast" /\ line.echo[2] = out.fb.mode
          /\ \A i \in switches :
                (\A j \in switches : j <= i) =>
                  line.echo = <<out.ring[i].requested, out.ring[i].applied>>

\* A cycle's record agrees with the events around it: one that ran to its
\* end follows the switch to the last mode and counts them all; one that was
\* interrupted follows the key that did it, and that key the switch to the
\* mode its count names.
CycleLedger ==
    LET ring == out.ring
        switched(i, k) == i \in DOMAIN ring =>
                            /\ ring[i].kind = "ModeSwitch"
                            /\ k \in DOMAIN ModeList
                            /\ ring[i].requested = ModeList[k]
    IN  \A i \in DOMAIN ring : ring[i].kind = "ModeCycle" =>
          IF ring[i].interrupted
          THEN /\ i - 1 \in DOMAIN ring => ring[i - 1].kind = "Keypress"
               /\ i > 2 => switched(i - 2, ring[i].count)
          ELSE /\ ring[i].count = Len(ModeList)
               /\ i > 1 => switched(i - 1, Len(ModeList))

-----------------------------------------------------------------------------
(* Liveness, once the operator's keys have come to an end *)

\* The transcript plays to the prompt, and after the bootloader to the
\* parked screen, whatever mode keys and cycles came in between.
BootPlaysOn ==
    /\ (pc = "pace" /\ phase = "booting" /\ repaint_state.at = "pre")
          ~> pc = "prompt"
    /\ pc = "booted" ~> pc = "parked"

\* A mode cycle ends.
CycleEnds == pc = "cycle" ~> pc # "cycle"

\* Toasts and cursors are drawn behind the digest's back, but never for
\* good: time and again the QR attests exactly the screen it is on.
DigestCatchesUp == []<>QrSeesScreen(out)

\* A toast goes away by itself in every loop that polls for mode keys (it
\* lives for TOAST_MS, scene.rs:194), whatever cycles and other toasts come
\* in between.  In the bootloader nothing ticks it.
ToastExpires ==
    out.toast > 0 ~> out.toast = 0 \/ pc \in BootPauses \cup {"off", "reset"}

-----------------------------------------------------------------------------
(* What the documents and comments say beyond what the code does *)

\* "Snapshot of what is currently on screen, sufficient for Scene::repaint
\* to reconstruct the visible content" (scene.rs:371).  Booting... is on
\* screen and in no snapshot.
RepaintIsComplete ==
    repaint_state.at # "bootloader" =>
      \A r \in Row \ {toast_row} :
         out.fb.rows[r] = Redrawn(out, repaint_state).fb.rows[r]

\* The ring is "drained to the UEFI Serial protocol just before ACPI
\* shutdown" (event.rs:4).  The bootloader's own shutdown drains nothing.
DrainedBeforeShutdown == pc = "off" => serial = out.ring
=============================================================================
