---------------------------- MODULE MCAsyncQueue ----------------------------
(***************************************************************************)
(* AsyncQueue, ring and coroutines, on a small instance.  Two messages     *)
(* tell an order from its reverse, MaxSent lets the indices wrap around    *)
(* the ring, and a second coroutine trips the assertion of the first or    *)
(* takes its place.  The move constructor of one message may throw.        *)
(***************************************************************************)
EXTENDS AsyncQueue

CONSTANTS m1, m2, c1, c2

MCMessages   == {m1, m2}
MCFragile    == {m1}
MCCoroutines == {c1, c2}
=============================================================================
