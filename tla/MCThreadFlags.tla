---------------------------- MODULE MCThreadFlags ----------------------------
(***************************************************************************)
(* Instances of ThreadFlags for TLC.                                       *)
(***************************************************************************)
EXTENDS ThreadFlags

CONSTANTS A, B, t1, isr

Wait(f, all, clear, timeout) ==
    [flags |-> f, all |-> all, clear |-> clear, timeout |-> timeout]

\* A client that waits for both of its flags, as furi_hal_nfc_wait_event_common
\* does, or for one of them, as furi_hal_nfc_event_wait_for_specific_irq does,
\* without clearing it too (FuriFlagNoClear).
Any == {Wait({A, B}, FALSE, TRUE, n) : n \in {0, 3, Forever}}
One == {Wait({A}, FALSE, TRUE, 3), Wait({B}, FALSE, FALSE, Forever)}
MixedWaits == Any \cup One \cup {Wait({A, B}, TRUE, TRUE, Forever)}
ClearA == {{A}}
=============================================================================
