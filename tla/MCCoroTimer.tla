---------------------------- MODULE MCCoroTimer ----------------------------
(***************************************************************************)
(* CoroTimer on small instances.  The clock runs to 3; the durations are   *)
(* zero, negative, within and beyond that.  The time points' counts are    *)
(* six bits wide: wide enough for every sum in one run, while in the other *)
(* the largest duration is std::chrono::nanoseconds::max().                *)
(***************************************************************************)
EXTENDS CoroTimer

CONSTANTS c1, c2

MCCoroutines == {c1, c2}
MCDurations  == {-1, 0, 2, 4}
MCTimePoints == {1, 3}
MCForever    == {2, MaxRep}
=============================================================================
