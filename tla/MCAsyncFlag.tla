---------------------------- MODULE MCAsyncFlag ----------------------------
(***************************************************************************)
(* AsyncFlag with two flags and three coroutines: enough for one           *)
(* resumption nested in another and a third coroutine to disturb them.     *)
(***************************************************************************)
EXTENDS AsyncFlag, TLC

CONSTANTS f1, f2, c1, c2, c3

MCFlags      == {f1, f2}
MCCoroutines == {c1, c2, c3}

\* Flags are interchangeable, and so are coroutines.
MCSymmetry == Permutations(MCFlags) \cup Permutations(MCCoroutines)
=============================================================================
