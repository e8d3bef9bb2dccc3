----------------------------- MODULE MCDwtClock -----------------------------
(***************************************************************************)
(* DwtClock with words of 32 values, seconds of 10 "nanoseconds" and core  *)
(* clocks that do not divide them.                                         *)
(***************************************************************************)
EXTENDS DwtClock

MCOneClock  == {3}
MCTwoClocks == {3, 7}
=============================================================================
