--------------------------- MODULE MCSysTickTimer ---------------------------
(***************************************************************************)
(* A small instance of SysTickTimer: words of two values, whose count      *)
(* starts just below a carry and carries again, two ticks a second, and    *)
(* core clocks of two and three cycles a tick.  The interrupt may be kept  *)
(* out for longer than either period.                                      *)
(***************************************************************************)
EXTENDS SysTickTimer, TLC

CONSTANTS r1, r2

MCReaders     == {r1, r2}
MCStart       == <<0, 1>>
MCFrequencies == {4, 6}

\* The two readers are interchangeable.
MCSymmetry == Permutations(MCReaders)
=============================================================================
