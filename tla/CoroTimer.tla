----------------------------- MODULE CoroTimer -----------------------------
(***************************************************************************)
(* coro_timer: a deadline on the steady clock, the coroutine that waits    *)
(* for it, and process(), with which the event loop resumes the coroutine  *)
(* once the deadline has passed.  coro/include/coro/coro_timer.hpp         *)
(*                                                                         *)
(* One thread of control: the event loop, or the coroutine it entered.     *)
(* Either may move the deadline or cancel the timer.  Time passes between  *)
(* any two steps.  A time point counts nanoseconds in an int64_t, here any *)
(* signed integer from -MaxRep - 1 to MaxRep, whose sum wraps as the       *)
(* targets' two's complement addition does.                                *)
(* The assertion "Only one waiter" stops the program, as in the host-tests *)
(* preset, or is compiled out, as in the Release presets: the steps here   *)
(* are those of both builds.                                               *)
(***************************************************************************)
EXTENDS Integers

CONSTANTS Coroutines, \* the coroutines that may wait
          NoHandle,   \* a null std::coroutine_handle
          Durations,  \* the arguments of expires_after
          TimePoints, \* the arguments of expires_at
          MaxRep,     \* the largest count of a time point
          MaxTime     \* bound on the steady clock

Rep == -MaxRep - 1 .. MaxRep

ASSUME NoHandleAssumption == NoHandle \notin Coroutines
ASSUME RepAssumption ==
    /\ MaxRep \in Nat /\ MaxTime \in 0 .. MaxRep
    /\ Durations \subseteq Rep /\ TimePoints \subseteq Rep

VARIABLES
    now,       \* what steady_clock::now() returns
    deadline_, \* the deadline as the code computes it
    due,       \* history: the deadline that was asked for
    handle_,   \* the coroutine that waits, or NoHandle
    active_,   \* is a wait in progress?
    running,   \* the coroutine whose code runs, or NoHandle for the loop
    state,     \* where each coroutine is
    halted     \* TRUE once the assertion "Only one waiter" has failed

timerVars == <<now, deadline_, due, handle_, active_, running, state, halted>>
appVars   == <<now, deadline_, due, halted>>

States == {"fresh",    \* created, not started (initial_suspend)
           "body",     \* in its own code
           "parked",   \* suspended in co_await timer.async_wait()
           "fired",    \* async_wait() is over: about to go on
           "stranded", \* suspended, and cancelled or replaced
           "done"}     \* returned

\* A default-constructed timer; expires_after is also its other constructor.
TimerInit ==
    /\ now = 0
    /\ deadline_ = 0 /\ due = 0
    /\ handle_ = NoHandle /\ active_ = FALSE
    /\ running = NoHandle
    /\ state = [c \in Coroutines |-> "fresh"]
    /\ halted = FALSE

Goto(c, s) == state' = [state EXCEPT ![c] = s]

ApplicationRuns == ~halted /\ (running # NoHandle => state[running] = "body")

\* time_point + duration.
Plus(t, d) == (((t + d) + MaxRep + 1) % (2 * MaxRep + 2)) - MaxRep - 1
-----------------------------------------------------------------------------
(***************************************************************************)
(* The application: the loop or the coroutine that runs.                   *)
(***************************************************************************)
ExpiresAfter(d) ==
    /\ ApplicationRuns
    /\ deadline_' = Plus(now, d)
    /\ due' = now + d
    /\ UNCHANGED <<now, handle_, active_, running, state, halted>>

ExpiresAt(tp) ==
    /\ ApplicationRuns
    /\ deadline_' = tp
    /\ due' = tp
    /\ UNCHANGED <<now, handle_, active_, running, state, halted>>

\* The waiter is forgotten: nothing will resume it any more.
Strand == state' = [c \in Coroutines |-> IF c = handle_ THEN "stranded"
                                                        ELSE state[c]]
Cancel_LosesRace ==
    /\ ApplicationRuns
    /\ IF now >= deadline_ THEN UNCHANGED <<handle_, active_>>
                           ELSE handle_' = NoHandle /\ active_' = FALSE
    /\ Strand
    /\ UNCHANGED <<appVars, running>>
Cancel ==
    /\ ApplicationRuns
    /\ handle_' = NoHandle
    /\ active_' = FALSE
    /\ Strand
    /\ UNCHANGED <<appVars, running>>

\* launch_task(...).resume() in the loop.
Launch(c) ==
    /\ ~halted /\ running = NoHandle /\ state[c] = "fresh"
    /\ running' = c
    /\ Goto(c, "body")
    /\ UNCHANGED <<appVars, handle_, active_>>
-----------------------------------------------------------------------------
(***************************************************************************)
(* A coroutine: co_await timer.async_wait().                               *)
(***************************************************************************)
Runs(c) == ~halted /\ running = c

\* The deadline has passed already: the coroutine is not suspended.
AwaitReady(c) ==
    /\ Runs(c) /\ state[c] = "body"
    /\ now >= deadline_
    /\ Goto(c, "fired")
    /\ UNCHANGED <<appVars, handle_, active_, running>>

\* The deadline is still to come: the coroutine is recorded and suspended.
\* A second waiter fails the assertion or replaces the first.
Replace(c) == state' = [d \in Coroutines |-> IF d = c THEN "parked"
                                        ELSE IF d = handle_ THEN "stranded"
                                        ELSE state[d]]
AwaitSuspend(c) ==
    /\ Runs(c) /\ state[c] = "body"
    /\ now < deadline_
    /\ \/ /\ handle_' = c
          /\ active_' = TRUE
          /\ running' = NoHandle
          /\ Replace(c)
          /\ UNCHANGED halted
       \/ /\ handle_ # NoHandle
          /\ halted' = TRUE
          /\ UNCHANGED <<handle_, active_, running, state>>
    /\ UNCHANGED <<now, deadline_, due>>

\* await_resume does nothing; the coroutine goes on.
GoOn(c) ==
    /\ Runs(c) /\ state[c] = "fired"
    /\ Goto(c, "body")
    /\ UNCHANGED <<appVars, handle_, active_, running>>

Return(c) ==
    /\ Runs(c) /\ state[c] = "body"
    /\ running' = NoHandle
    /\ Goto(c, "done")
    /\ UNCHANGED <<appVars, handle_, active_>>
-----------------------------------------------------------------------------
(***************************************************************************)
(* The event loop calls process(), which disarms the timer before it       *)
(* resumes the coroutine: the coroutine may wait for the timer again.      *)
(***************************************************************************)
Process_IgnoresDeadline ==
    /\ ~halted /\ running = NoHandle
    /\ active_ /\ handle_ # NoHandle
    /\ handle_' = NoHandle
    /\ active_' = FALSE
    /\ running' = handle_
    /\ Goto(handle_, "fired")
    /\ UNCHANGED appVars
Process_AfterDeadline ==
    /\ ~halted /\ running = NoHandle
    /\ active_ /\ handle_ # NoHandle /\ now > deadline_
    /\ handle_' = NoHandle
    /\ active_' = FALSE
    /\ running' = handle_
    /\ Goto(handle_, "fired")
    /\ UNCHANGED appVars
Process_KeepsHandle ==
    /\ ~halted /\ running = NoHandle
    /\ active_ /\ handle_ # NoHandle /\ now >= deadline_
    /\ handle_' = handle_
    /\ active_' = FALSE
    /\ running' = handle_
    /\ Goto(handle_, "fired")
    /\ UNCHANGED appVars
Process ==
    /\ ~halted /\ running = NoHandle
    /\ active_ /\ handle_ # NoHandle /\ now >= deadline_
    /\ handle_' = NoHandle
    /\ active_' = FALSE
    /\ running' = handle_
    /\ Goto(handle_, "fired")
    /\ UNCHANGED appVars

Advance ==
    /\ ~halted /\ now < MaxTime
    /\ now' = now + 1
    /\ UNCHANGED <<deadline_, due, handle_, active_, running, state, halted>>

Application ==
    \/ \E d \in Durations : ExpiresAfter(d)
    \/ \E tp \in TimePoints : ExpiresAt(tp)
    \/ Cancel
    \/ \E c \in Coroutines : Launch(c)

Coroutine(c) == AwaitReady(c) \/ AwaitSuspend(c) \/ GoOn(c) \/ Return(c)

TimerNext == \/ Application
             \/ \E c \in Coroutines : Coroutine(c)
             \/ Process
             \/ Advance

TimerSpec == TimerInit /\ [][TimerNext]_timerVars

\* The loop calls process() again and again, whenever control is in the loop.
FairTimerSpec == TimerSpec /\ WF_timerVars(Process)
-----------------------------------------------------------------------------
(***************************************************************************)
(* Properties.                                                             *)
(***************************************************************************)
TimerTypeOK ==
    /\ now \in 0 .. MaxTime
    /\ deadline_ \in Rep /\ due \in Int
    /\ handle_ \in Coroutines \cup {NoHandle}
    /\ active_ \in BOOLEAN
    /\ running \in Coroutines \cup {NoHandle}
    /\ state \in [Coroutines -> States]
    /\ halted \in BOOLEAN

(***************************************************************************)
(* A wait never ends before the deadline that was asked for last, whether  *)
(* the deadline was set before the wait, moved during it, or by another    *)
(* coroutine (coro_timer_test.cpp, DoesNotFireTooEarly and ResetDeadline). *)
(***************************************************************************)
NeverEarly ==
    [][\A c \in Coroutines :
         state[c] # "fired" /\ state'[c] = "fired" => now >= due]_timerVars

(***************************************************************************)
(* The timer, its flag and its waiter agree: handle_ names the one         *)
(* coroutine that is suspended on the timer, active_ says whether there is *)
(* one.  So nothing but a suspended coroutine is resumed, and once a wait. *)
(***************************************************************************)
WaiterIsParked ==
    /\ active_ <=> handle_ # NoHandle
    /\ \A c \in Coroutines : state[c] = "parked" <=> handle_ = c
    /\ \A c \in Coroutines : state[c] \in {"body", "fired"} <=> running = c

(***************************************************************************)
(* cancel() wins: a coroutine whose wait was cancelled never runs again,   *)
(* even when the deadline had passed and process() was still to come, or   *)
(* when the timer is used again (coro_timer_test.cpp, CancelPreventsResume)*)
(* Nor does one that another waiter has replaced.                          *)
(***************************************************************************)
CancelledStaysCancelled ==
    [][\A c \in Coroutines :
         state[c] = "stranded" => state'[c] = "stranded"]_timerVars

(***************************************************************************)
(* A timer whose deadline has passed fires, unless it is moved or          *)
(* cancelled first, provided no coroutine keeps control from the loop: one *)
(* that awaits a deadline already passed is never suspended, and can.      *)
(***************************************************************************)
FiresWhenDue ==
    []<>(running = NoHandle) =>
        \A c \in Coroutines :
            (handle_ = c /\ now >= deadline_)
                ~> (handle_ # c \/ now < deadline_ \/ halted)
=============================================================================
