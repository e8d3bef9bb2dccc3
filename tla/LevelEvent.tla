----------------------------- MODULE LevelEvent -----------------------------
(***************************************************************************)
(* What async_flag promises the coroutines that wait for it, with no       *)
(* handles and no stack: an event that is up or down.  To raise it lets    *)
(* everyone go who waits for it, and at once, so that nobody ever waits    *)
(* for an event that is up; nothing else lets a coroutine go.  Whoever     *)
(* finds it up does not wait, which is a stuttering step here.             *)
(***************************************************************************)
CONSTANTS Flags,      \* the events
          Coroutines, \* who may wait
          NoFlag      \* what a coroutine waits for that waits for nothing

VARIABLES up,      \* the events that are up
          waiting, \* what each coroutine waits for, or NoFlag
          lost     \* the coroutines that nothing will let go any more

eventVars == <<up, waiting, lost>>

Waiters(f) == {c \in Coroutines : waiting[c] = f}

\* Nobody waits for f any more.
LetGo(f) ==
    [c \in Coroutines |-> IF waiting[c] = f THEN NoFlag ELSE waiting[c]]

EventInit ==
    /\ up = {}
    /\ waiting = [c \in Coroutines |-> NoFlag]
    /\ lost = {}

Raise(f) ==
    /\ up' = up \cup {f}
    /\ waiting' = LetGo(f)
    /\ UNCHANGED lost

Lower(f) ==
    /\ up' = up \ {f}
    /\ UNCHANGED <<waiting, lost>>

\* One coroutine at a time waits for an event: whoever waited is lost.
Wait(c, f) ==
    /\ f \notin up
    /\ waiting[c] = NoFlag /\ c \notin lost
    /\ waiting' = [LetGo(f) EXCEPT ![c] = f]
    /\ lost' = lost \cup Waiters(f)
    /\ UNCHANGED up

\* The event is no more, and whoever waits for it is lost.
Abandon(f) ==
    /\ waiting' = LetGo(f)
    /\ lost' = lost \cup Waiters(f)
    /\ UNCHANGED up

EventNext ==
    \/ \E f \in Flags : Raise(f) \/ Lower(f) \/ Abandon(f)
    \/ \E c \in Coroutines, f \in Flags : Wait(c, f)

EventSpec == EventInit /\ [][EventNext]_eventVars
=============================================================================
