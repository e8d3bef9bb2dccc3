------------------------ MODULE MCFlagFromInterrupt ------------------------
(***************************************************************************)
(* FlagFromInterrupt with three coroutines that wait in turn.              *)
(***************************************************************************)
EXTENDS FlagFromInterrupt

CONSTANTS c1, c2, c3

MCCoroutines == {c1, c2, c3}
=============================================================================
