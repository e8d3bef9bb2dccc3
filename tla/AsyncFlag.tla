----------------------------- MODULE AsyncFlag -----------------------------
(***************************************************************************)
(* async_flag: a flag that a coroutine co_awaits and that resumes it from  *)
(* inside the assignment that raises it.  coro/include/coro/async_flag.hpp *)
(*                                                                         *)
(* One thread of control.  The event loop calls into coroutines, and a     *)
(* coroutine that raises a flag or launches another calls into that one;   *)
(* stack holds the coroutines entered and not yet suspended, innermost     *)
(* first, so its head is the one whose code runs (the loop's, when the     *)
(* stack is empty).  No step lies between await_ready and the end of       *)
(* await_suspend: nothing else runs there, and the test of value_ in       *)
(* await_suspend (lines 38-39) repeats that of await_ready and fails.      *)
(* The assertion "Only one waiter" stops the program, as in the host-tests *)
(* preset, or is compiled out, as in the Release presets: the steps here   *)
(* are those of both builds.                                               *)
(***************************************************************************)
EXTENDS Naturals, Sequences

CONSTANTS Flags,      \* the async_flag objects
          Coroutines, \* the coroutines that wait for them and raise them
          NoFlag,     \* no flag awaited yet
          NoHandle    \* a null std::coroutine_handle

ASSUME NoFlagAssumption   == NoFlag \notin Flags
ASSUME NoHandleAssumption == NoHandle \notin Coroutines

VARIABLES
    value_,  \* per flag: is it up?
    handle_, \* per flag: the coroutine that waits for it, or NoHandle
    alive,   \* per flag: FALSE once ~async_flag has run
    state,   \* where each coroutine is
    awaited, \* the flag of a coroutine's latest co_await
    stack,   \* the coroutines entered and not suspended, innermost first
    halted   \* TRUE once the assertion "Only one waiter" has failed

flagVars == <<value_, handle_, alive, state, awaited, stack, halted>>

States == {"fresh",    \* created, not started (initial_suspend)
           "body",     \* in its own code
           "parked",   \* suspended in co_await
           "replaced", \* suspended, and another waits for its flag
           "resume",   \* resumed, or never suspended: before await_resume
           "done"}     \* returned

FlagInit ==
    /\ value_ = [f \in Flags |-> FALSE]
    /\ handle_ = [f \in Flags |-> NoHandle]
    /\ state = [c \in Coroutines |-> "fresh"]
    /\ alive = [f \in Flags |-> TRUE]
    /\ awaited = [c \in Coroutines |-> NoFlag]
    /\ stack = <<>>
    /\ halted = FALSE

Goto(c, s) == state' = [state EXCEPT ![c] = s]

\* Whose code runs: the innermost coroutine, or the loop.
Runs(c) == ~halted /\ stack # <<>> /\ Head(stack) = c
ApplicationRuns == ~halted /\ (stack # <<>> => state[Head(stack)] = "body")
-----------------------------------------------------------------------------
(***************************************************************************)
(* flag = v, in the loop or in a coroutine.  Raising the flag takes the    *)
(* waiter's handle and resumes it on top of the caller.                    *)
(***************************************************************************)
Wakes(f, v) == v /\ handle_[f] # NoHandle

Assign_NeverResumes(f, v) ==
    /\ ApplicationRuns /\ alive[f]
    /\ value_' = [value_ EXCEPT ![f] = v]
    /\ UNCHANGED <<handle_, alive, state, awaited, stack, halted>>
Assign_ResumesOnClear(f, v) ==
    /\ ApplicationRuns /\ alive[f]
    /\ value_' = [value_ EXCEPT ![f] = v]
    /\ \/ /\ handle_[f] # NoHandle
          /\ handle_' = [handle_ EXCEPT ![f] = NoHandle]
          /\ stack' = <<handle_[f]>> \o stack
          /\ Goto(handle_[f], "resume")
       \/ /\ handle_[f] = NoHandle
          /\ UNCHANGED <<handle_, state, stack>>
    /\ UNCHANGED <<alive, awaited, halted>>
Assign_KeepsHandle(f, v) ==
    /\ ApplicationRuns /\ alive[f]
    /\ value_' = [value_ EXCEPT ![f] = v]
    /\ \/ /\ Wakes(f, v)
          /\ stack' = <<handle_[f]>> \o stack
          /\ Goto(handle_[f], "resume")
       \/ /\ ~Wakes(f, v)
          /\ UNCHANGED <<state, stack>>
    /\ UNCHANGED <<handle_, alive, awaited, halted>>
Assign(f, v) ==
    /\ ApplicationRuns /\ alive[f]
    /\ value_' = [value_ EXCEPT ![f] = v]
    /\ \/ /\ Wakes(f, v)
          /\ handle_' = [handle_ EXCEPT ![f] = NoHandle]
          /\ stack' = <<handle_[f]>> \o stack
          /\ Goto(handle_[f], "resume")
       \/ /\ ~Wakes(f, v)
          /\ UNCHANGED <<handle_, state, stack>>
    /\ UNCHANGED <<alive, awaited, halted>>

\* co_await flag with the flag up: await_ready, and on to await_resume.
AwaitReady(c, f) ==
    /\ Runs(c) /\ state[c] = "body" /\ alive[f]
    /\ value_[f]
    /\ awaited' = [awaited EXCEPT ![c] = f]
    /\ Goto(c, "resume")
    /\ UNCHANGED <<value_, handle_, alive, stack, halted>>

\* co_await flag with the flag down: await_suspend records the handle and
\* returns control to the caller.  A second waiter fails the assertion or
\* replaces the first, which nothing will resume any more.
Replace(c, f) ==
    state' = [d \in Coroutines |-> IF d = c THEN "parked"
                                ELSE IF d = handle_[f] THEN "replaced"
                                ELSE state[d]]
AwaitSuspend_EvenIfUp(c, f) ==
    /\ Runs(c) /\ state[c] = "body" /\ alive[f]
    /\ handle_[f] = NoHandle
    /\ handle_' = [handle_ EXCEPT ![f] = c]
    /\ awaited' = [awaited EXCEPT ![c] = f]
    /\ Goto(c, "parked")
    /\ stack' = Tail(stack)
    /\ UNCHANGED <<value_, alive, halted>>
AwaitSuspend(c, f) ==
    /\ Runs(c) /\ state[c] = "body" /\ alive[f]
    /\ ~value_[f]
    /\ \/ /\ handle_' = [handle_ EXCEPT ![f] = c]
          /\ awaited' = [awaited EXCEPT ![c] = f]
          /\ Replace(c, f)
          /\ stack' = Tail(stack)
          /\ UNCHANGED halted
       \/ /\ handle_[f] # NoHandle
          /\ halted' = TRUE
          /\ UNCHANGED <<handle_, awaited, state, stack>>
    /\ UNCHANGED <<value_, alive>>

\* await_resume forgets whatever handle is recorded, its own or not.
AwaitResume(c) ==
    /\ Runs(c) /\ state[c] = "resume"
    /\ handle_' = [handle_ EXCEPT ![awaited[c]] = NoHandle]
    /\ Goto(c, "body")
    /\ UNCHANGED <<value_, alive, awaited, stack, halted>>

\* launch_task(...).resume(), in the loop or in a coroutine.
Launch(c) ==
    /\ ApplicationRuns /\ state[c] = "fresh"
    /\ stack' = <<c>> \o stack
    /\ Goto(c, "body")
    /\ UNCHANGED <<value_, handle_, alive, awaited, halted>>

\* The coroutine ends and control returns to its caller.
Return(c) ==
    /\ Runs(c) /\ state[c] = "body"
    /\ stack' = Tail(stack)
    /\ Goto(c, "done")
    /\ UNCHANGED <<value_, handle_, alive, awaited, halted>>

\* ~async_flag forgets its waiter, which stays suspended for good.
Destroy(f) ==
    /\ ApplicationRuns /\ alive[f]
    /\ handle_' = [handle_ EXCEPT ![f] = NoHandle]
    /\ alive' = [alive EXCEPT ![f] = FALSE]
    /\ UNCHANGED <<value_, state, awaited, stack, halted>>

FlagNext ==
    \/ \E f \in Flags, v \in BOOLEAN : Assign(f, v)
    \/ \E f \in Flags : Destroy(f)
    \/ \E c \in Coroutines, f \in Flags : AwaitReady(c, f) \/ AwaitSuspend(c, f)
    \/ \E c \in Coroutines : AwaitResume(c) \/ Launch(c) \/ Return(c)

FlagSpec == FlagInit /\ [][FlagNext]_flagVars
-----------------------------------------------------------------------------
(***************************************************************************)
(* Properties.                                                             *)
(***************************************************************************)
FlagTypeOK ==
    /\ value_ \in [Flags -> BOOLEAN]
    /\ handle_ \in [Flags -> Coroutines \cup {NoHandle}]
    /\ state \in [Coroutines -> States]
    /\ alive \in [Flags -> BOOLEAN]
    /\ awaited \in [Coroutines -> Flags \cup {NoFlag}]
    /\ stack \in Seq(Coroutines)
    /\ halted \in BOOLEAN

(***************************************************************************)
(* No signal is lost: a coroutine that nobody has replaced stays suspended *)
(* only while its flag is down and remembers it, through any nesting of    *)
(* assignments and any handle that await_resume wipes.  (A flag destroyed  *)
(* under its waiter strands it: async_flag_test.cpp,                       *)
(* CoroutineOutlivesFlag.)                                                 *)
(***************************************************************************)
NoLostSignal ==
    \A c \in Coroutines :
        state[c] = "parked" /\ alive[awaited[c]]
            => handle_[awaited[c]] = c /\ ~value_[awaited[c]]

(***************************************************************************)
(* co_await flag returns true: await_resume reads value_ after the         *)
(* resumption, and nobody has cleared it in between.                       *)
(***************************************************************************)
AwaitReturnsTrue ==
    \A c \in Coroutines :
        state[c] = "resume" => alive[awaited[c]] /\ value_[awaited[c]]

(***************************************************************************)
(* Only a suspended coroutine is ever resumed (anything else is undefined  *)
(* behaviour): a recorded handle is one that waits for that flag, and no   *)
(* coroutine is entered twice, however deep the assignments nest.          *)
(***************************************************************************)
HandleWaits ==
    \A f \in Flags :
        handle_[f] # NoHandle => /\ alive[f]
                                 /\ state[handle_[f]] = "parked"
                                 /\ awaited[handle_[f]] = f

EnteredOnce ==
    /\ \A i, j \in 1 .. Len(stack) : stack[i] = stack[j] => i = j
    /\ \A i \in 1 .. Len(stack) : state[stack[i]] \in {"body", "resume"}

OnlySuspendedAreResumed == HandleWaits /\ EnteredOnce

\* Only the innermost coroutine can be between its resumption and
\* await_resume: whoever called into another one is in its own code.
CallersInBody ==
    \A i \in 2 .. Len(stack) : state[stack[i]] = "body"

\* A coroutine that has waited, or is about to go on, has awaited a flag.
AwaitedKnown ==
    \A c \in Coroutines :
        state[c] \in {"parked", "resume"} => awaited[c] \in Flags

\* Whoever runs or is about to run is on the stack.
RunningOnStack ==
    \A c \in Coroutines :
        state[c] \in {"body", "resume"}
            => \E i \in 1 .. Len(stack) : stack[i] = c

\* The inductive invariant behind the three.
FlagInv ==
    /\ FlagTypeOK
    /\ NoLostSignal
    /\ AwaitReturnsTrue
    /\ HandleWaits
    /\ EnteredOnce
    /\ CallersInBody
    /\ AwaitedKnown
    /\ RunningOnStack

(***************************************************************************)
(* What its users may rely on: the flags are the events of LevelEvent.     *)
(* A coroutine waits while it is suspended, nobody has replaced it and its *)
(* flag lives; no handle, no stack and no await_resume shows.              *)
(***************************************************************************)
Waits(c)    == state[c] = "parked" /\ alive[awaited[c]]
Stranded(c) == \/ state[c] = "replaced"
               \/ state[c] = "parked" /\ ~alive[awaited[c]]

EventUp      == {f \in Flags : value_[f]}
EventWaiting == [c \in Coroutines |-> IF Waits(c) THEN awaited[c] ELSE NoFlag]
EventLost    == {c \in Coroutines : Stranded(c)}

Event == INSTANCE LevelEvent
           WITH up <- EventUp, waiting <- EventWaiting, lost <- EventLost

\* Every step of the flags is a step of the events or none, through any
\* nesting of assignments: a raise lets go whoever waits, no other step does,
\* and nobody sleeps on a flag that is up.
ImplementsEvent == Event!EventSpec
=============================================================================
