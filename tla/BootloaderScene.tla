--------------------------- MODULE BootloaderScene ---------------------------
(***************************************************************************)
(* The bootloader on its own: started on a screen that shows the boot      *)
(* transcript above start_row, with its properties.                        *)
(***************************************************************************)
EXTENDS Bootloader, FiniteSets

\* The screen bootloader::run is called on: the transcript's lines are up to
\* date in the digest, the rows below are blank.
Transcript ==
    LET shown == [mode |-> "boot", chrome |-> TRUE, cursor |-> "none",
                  rows |-> [r \in Row |-> IF r < start_row THEN Line("script")
                                          ELSE Blank]]
    IN  Refresh([fb |-> shown, ring |-> <<>>, toast |-> 0,
                 qr |-> <<>>])

Init == EnterBootloader(Transcript) /\ keys = 0

\* Power is off, the machine has reset, or the caller goes on.
Stopped == pc \in {"off", "reset", "booted"} /\ UNCHANGED vars

Next == BootloaderStep \/ Stopped

\* Time passes: whatever the operator does, the program returns from its
\* stalls.  Nothing makes the operator press a key.
Spec == Init /\ [][Next]_vars /\ WF_vars(Quiet)

-----------------------------------------------------------------------------
(* Reading the event log: what an entry owes to those before it.  A ring    *)
(* that is full may have lost the beginning.                               *)

Full(ring) == Len(ring) >= RingCap

\* The number that a decision at position j has to name: one more than the
\* retry before it.
NamesNext(ring, j, n) ==
    LET decisions == {i \in 1..(j - 1) : ring[i].kind = "BootloaderDecision"}
    IN  /\ decisions = {} => n = 1 \/ Full(ring)
        /\ \A i \in decisions : (\A k \in decisions : k <= i) =>
              ring[i].choice = "retry" /\ n = ring[i].attempt + 1

\* The scene waits for a paste from the decision to ignore on, and for
\* another one after each verdict.
StartsEntry(e) ==
    \/ e.kind = "PasteReceived"
    \/ e.kind = "BootloaderDecision" /\ e.choice = "ignore"

Begun(ring, j) == \E i \in 1..(j - 1) : StartsEntry(ring[i])

\* Where the printable keys of the entry are that goes on at position j.
TypedBefore(ring, j) ==
    {i \in 1..(j - 1) : /\ ring[i].kind = "Keypress"
                        /\ ring[i].key \in Printable
                        /\ \A k \in i..(j - 1) : ~StartsEntry(ring[k])}

Rank(S, i) == Cardinality({k \in S : k <= i})

\* They spell w.
Spells(ring, j, w) ==
    LET typed == TypedBefore(ring, j)
    IN  /\ Len(w) = Cardinality(typed)
        /\ \A i \in typed : ring[i].key = w[Rank(typed, i)]

WrongPastes(ring) ==
    {i \in 1..Len(ring) : ring[i].kind = "PasteReceived" /\ ~ring[i].correct}

\* A verdict is about what was typed for it.
VerdictOK(ring, j) ==
    /\ Begun(ring, j) \/ Full(ring)
    /\ Begun(ring, j) =>
         /\ ring[j].len = Cardinality(TypedBefore(ring, j))
         /\ ring[j].correct <=> Spells(ring, j, PasteTarget)

-----------------------------------------------------------------------------
(* Safety *)

\* Every variable keeps its type, and the counters stay within the limits
\* the constants of bootloader.rs set.
TypeOK ==
    /\ pc \in {"b64_pause", "nist_pause", "prompt", "retrying", "paste",
              "booting", "booted", "countdown", "halted", "off", "reset"}
    /\ BootTypeOK

\* No draw ever lands on another text: every row that is reused is cleared
\* on every path that leads to the draw (prompt over animation, blob over
\* prompt and nudge, countdown and Booting... over whatever the scene had).
NoGhostText == NoGhost(out)

\* Whenever time passes the QR on screen attests the screen as it is, the
\* first pause of the retry animation excepted, and the only events it does
\* not carry are the keys of the operator that changed nothing.
QrTellsTheScreen ==
    ~(pc = "retrying" /\ dots = 0) =>
      /\ QrSeesScreen(out)
      /\ \/ pc = "reset"
         \/ \A i \in DOMAIN Unattested(out) :
               /\ Unattested(out)[i].kind = "Keypress"
               /\ IF pc = "prompt"
                  THEN Unattested(out)[i].key \notin {"r", "i", "a"}
                  ELSE Unattested(out)[i].key \notin Printable \cup {"enter"}

\* The prompt on screen and the recorded decisions tell the same story: each
\* decision names the attempt after the retry before it, nothing but a retry
\* is followed by another decision, the prompt shows the number that the next
\* one will name, and the nudge is on screen from the RetryNudgeAfter-th
\* retry on.
PromptLedger ==
    LET ring == out.ring
    IN  /\ \A j \in 1..Len(ring) : ring[j].kind = "BootloaderDecision" =>
              NamesNext(ring, j, ring[j].attempt)
        /\ pc = "prompt" /\ prompt_row \in Row =>
             LET n == out.fb.rows[prompt_row].n
             IN  /\ out.fb.rows[prompt_row] = PromptLine(n)
                 /\ NamesNext(ring, Len(ring) + 1, n)
                 /\ nudge_row \in Row =>
                      out.fb.rows[nudge_row] =
                        IF n > RetryNudgeAfter THEN Line("nudge") ELSE Blank

\* Every verdict on a paste agrees with the keys recorded since the prompt
\* or the verdict before: its length counts the printable ones and it is
\* positive exactly when they spell the target.  While the next paste is
\* typed, its row shows those keys and the row below the wrong ones so far.
PasteLedger ==
    LET ring == out.ring
        now  == Len(ring) + 1
    IN  /\ \A j \in 1..Len(ring) :
              ring[j].kind = "PasteReceived" => VerdictOK(ring, j)
        /\ pc = "paste" =>
             /\ Begun(ring, now) \/ Full(ring)
             /\ input_row \in Row =>
                  LET typed == out.fb.rows[input_row].echo
                  IN  /\ out.fb.rows[input_row] =
                            [Line("input") EXCEPT !.echo = typed]
                      /\ Begun(ring, now) => Spells(ring, now, typed)
             /\ wrong_indicator_row \in Row /\ ~Full(ring) =>
                  LET wrong == Cardinality(WrongPastes(ring))
                  IN  out.fb.rows[wrong_indicator_row] =
                        IF wrong = 0 THEN Blank ELSE Numbered("wrong", wrong)

\* The last screens are bare: highest_row has covered every row the scene
\* ever wrote, so that nothing of prompt, nudge, blob, paste or indicator
\* is left beside Booting... or beside the countdown and the halt line.
LastScreensBare ==
    LET only(lines) ==
          \A r \in Row : r >= start_row =>
             \/ out.fb.rows[r] = Blank
             \/ r \in DOMAIN lines /\ out.fb.rows[r].text = lines[r]
    IN  /\ pc \in {"booting", "booted"} =>
             only([r \in {booting_row} |-> "booting"])
        /\ pc = "countdown" =>
             only([r \in {countdown_row} |-> "countdown"])
        /\ pc \in {"halted", "off"} =>
             only([r \in {countdown_row, halt_row} |->
                     IF r = halt_row THEN "halt" ELSE "countdown"])

-----------------------------------------------------------------------------
(* What the comments of bootloader.rs say beyond what the code does *)

\* "a screenshot taken at any time during the bootloader scene sees a QR
\* whose payload matches what is currently on screen" (bootloader.rs:23).
\* The first pause of the retry animation shows new text under an old QR.
QrMatchesScreen == QrSeesScreen(out)

\* Where re-prompts after a wrong paste have been recorded by position i.
RepromptsBy(ring, i) ==
    {j \in 1..i : ring[j] = LineRendered(wrong_indicator_row)}

\* WRONG_PASTE_LIMIT is the "maximum number of wrong-paste re-prompts before
\* falling through to the visible countdown (does not include the first paste
\* attempt)" (bootloader.rs:80-81): the countdown that a wrong paste starts
\* comes after that many re-prompts.  The code counts wrong pastes, the first
\* one included, and starts it one re-prompt earlier.
RepromptsGranted ==
    LET ring == out.ring
    IN  \A i \in 2..Len(ring) :
           /\ ring[i].kind = "BootloaderTimeout"
           /\ ring[i - 1].kind = "PasteReceived"
           => Cardinality(RepromptsBy(ring, i)) = WrongPasteLimit

-----------------------------------------------------------------------------
(* Refinement *)

Gate == INSTANCE BootGate WITH
    Char <- Printable, Secret <- PasteTarget,
    MaxOffer <- PasteBufferLen, Limit <- WrongPasteLimit,
    offer <- buf, strikes <- wrong_paste_count,
    gate <- CASE pc \in {"b64_pause", "nist_pause", "prompt", "retrying"}
                                                -> "locked"
              [] pc = "paste"                   -> "entry"
              [] pc \in {"booting", "booted"}   -> "open"
              [] pc \in {"countdown", "halted"} -> "failed"
              [] OTHER                          -> pc

\* The scene implements the gate: only the exact target opens it, the
\* WrongPasteLimit-th wrong offer shuts it (as "Three strikes" at
\* bootloader.rs:524 has it; the doc of the constant allows one more, see
\* RepromptsGranted), an offer that fills the buffer is wrong unread, and
\* what was typed before a verdict never counts after.
ImplementsGate == Gate!Spec

-----------------------------------------------------------------------------
(* Liveness *)

\* Once the operator stops pressing keys, a paste prompt does not hang: the
\* boot goes on or the power goes off (silent wait and countdown run out).
PasteEnds == pc = "paste" ~> pc \in {"booted", "off"}
=============================================================================
