------------------------------ MODULE BootGate ------------------------------
(***************************************************************************)
(* What the locked bootloader promises, without screen, log or timing: a   *)
(* gate that only the secret opens, that tolerates fewer than Limit wrong  *)
(* offers, and that ends in a power-off or a reset when it does not open.  *)
(* Bootloader.tla implements it.                                           *)
(***************************************************************************)
EXTENDS Naturals, Sequences

CONSTANTS Char,      \* characters an offer is made of
          Secret,    \* the offer that opens the gate
          MaxOffer,  \* an offer this long is rejected unread
          Limit      \* wrong offers, the first one counted, until the
                     \* gate gives up

VARIABLES gate,      \* "locked", "entry", "open", "failed", "off", "reset"
          offer,     \* what has been typed towards the next verdict
          strikes    \* wrong offers so far

vars == <<gate, offer, strikes>>

Init == gate = "locked" /\ offer = <<>> /\ strikes = 0

\* The operator leaves the menu for the entry prompt, or resets the machine.
Enter ==
    /\ gate = "locked"
    /\ gate' = "entry"
    /\ UNCHANGED <<offer, strikes>>

Reset ==
    /\ gate = "locked"
    /\ gate' = "reset"
    /\ UNCHANGED <<offer, strikes>>

Type(c) ==
    /\ gate = "entry"
    /\ Len(offer) + 1 < MaxOffer
    /\ offer' = Append(offer, c)
    /\ UNCHANGED <<gate, strikes>>

\* An offer is complete: submitted, or as long as offers may get.
Strike ==
    /\ gate = "entry"
    /\ offer # Secret \/ Len(offer) + 1 = MaxOffer
    /\ strikes' = strikes + 1
    /\ gate' = IF strikes' = Limit THEN "failed" ELSE "entry"
    /\ offer' = <<>>

Open ==
    /\ gate = "entry"
    /\ offer = Secret
    /\ gate' = "open"
    /\ offer' = <<>>
    /\ UNCHANGED strikes

\* The operator has gone silent.
GiveUp ==
    /\ gate = "entry"
    /\ gate' = "failed"
    /\ offer' = <<>>
    /\ UNCHANGED strikes

PowerOff ==
    /\ gate = "failed"
    /\ gate' = "off"
    /\ UNCHANGED <<offer, strikes>>

Next ==
    \/ Enter \/ Reset \/ Strike \/ Open \/ GiveUp \/ PowerOff
    \/ \E c \in Char : Type(c)

Spec == Init /\ [][Next]_vars
=============================================================================
