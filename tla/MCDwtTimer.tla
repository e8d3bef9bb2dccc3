----------------------------- MODULE MCDwtTimer -----------------------------
(***************************************************************************)
(* DwtTimer with a counter of 16 values that goes round almost twice, and  *)
(* cores whose clocks do not divide the second, of ten "nanoseconds": a    *)
(* lap is 53 or 22 of them.                                                *)
(***************************************************************************)
EXTENDS DwtTimer

CONSTANTS c1, c2

MCCoroutines == {c1, c2}
MCClocks     == {3, 7}
MCDurations  == {0, 9, 20}
=============================================================================
