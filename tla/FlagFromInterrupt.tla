------------------------- MODULE FlagFromInterrupt -------------------------
(***************************************************************************)
(* async_flag with its flag raised by an interrupt handler, which may run  *)
(* between any two steps of a co_await or an assignment in the program and *)
(* runs the waiter it resumes in the interrupt.                            *)
(* coro/include/coro/async_flag.hpp                                        *)
(*                                                                         *)
(* value_ and handle_ are plain members: an access is one instruction of   *)
(* the target, but the compiler may use a value loaded before for a later  *)
(* access (lines 33 and 38, lines 17 and 19, lines 19 and 20).             *)
(* The handler, with the coroutines in it, runs to its end before the      *)
(* program goes on.  The flag has one waiter at a time, as line 37         *)
(* asserts; here it is a rule of use, which covers the whole co_await.     *)
(***************************************************************************)
EXTENDS Naturals

CONSTANTS Coroutines, \* the coroutines that wait for the flag in turn
          NoHandle    \* a null std::coroutine_handle

ASSUME NoHandleAssumption == NoHandle \notin Coroutines

VARIABLES
    value_, handle_, \* the flag
    state,     \* where each coroutine is
    loopRuns,  \* the innermost coroutine the program has entered, or NoHandle
    irqRuns,   \* the innermost coroutine the handler has entered, or NoHandle
    caller,    \* per coroutine: the one that entered it, or NoHandle
    phase,     \* the last line done of an assignment in the program, or "no"
    taken,     \* the handle that it has loaded
    missed,    \* history: was the flag raised inside this co_await?
    raced,     \* history: has the handler entered a coroutine since the test
               \* of the handle in this assignment?
    undefined  \* has a handle been resumed that is not a suspended coroutine's?

runVars  == <<loopRuns, irqRuns, caller>>
loopVars == <<phase, taken>>
history  == <<missed, raced>>
flagVars == <<value_, handle_, state, runVars, loopVars, history, undefined>>

States == {"fresh",   \* created, not started
           "body",    \* in its own code
           "tested",  \* await_ready has returned false
           "checked", \* await_suspend has found the flag down
           "parked",  \* suspended in co_await
           "resume",  \* resumed, or never suspended: before await_resume
           "done"}    \* returned

Phases == {"no", "stored", "tested", "loaded", "cleared"}

Init ==
    /\ value_ = FALSE /\ handle_ = NoHandle
    /\ state = [c \in Coroutines |-> "fresh"]
    /\ loopRuns = NoHandle /\ irqRuns = NoHandle
    /\ caller = [c \in Coroutines |-> NoHandle]
    /\ phase = "no" /\ taken = NoHandle
    /\ missed = FALSE /\ raced = FALSE /\ undefined = FALSE

Goto(c, s) == state' = [state EXCEPT ![c] = s]

Awaiting(c) == state[c] \in {"tested", "checked", "parked", "resume"}
Waiting(c) == state[c] \in {"tested", "checked"}

\* The program stands still while the handler runs.
Runs(c) == \/ irqRuns = c
           \/ irqRuns = NoHandle /\ phase = "no" /\ loopRuns = c

\* The loop's, the handler's or a coroutine's own code runs.  The handler may
\* always begin.
OwnCode(c)  == c # NoHandle => state[c] = "body"
ProgramRuns == irqRuns = NoHandle /\ phase = "no" /\ OwnCode(loopRuns)
HandlerRuns == OwnCode(irqRuns)

\* Code enters a coroutine on top of itself, and a coroutine gives control
\* back to whoever entered it.
ProgramEnters(c) ==
    /\ caller' = [caller EXCEPT ![c] = loopRuns]
    /\ loopRuns' = c
    /\ UNCHANGED <<irqRuns, raced>>

HandlerEnters(c) ==
    /\ caller' = [caller EXCEPT ![c] = irqRuns]
    /\ irqRuns' = c
    /\ raced' = (raced \/ phase \in {"tested", "loaded", "cleared"})
    /\ UNCHANGED loopRuns

Leave(c) ==
    /\ IF irqRuns = c THEN irqRuns' = caller[c] /\ UNCHANGED loopRuns
                      ELSE loopRuns' = caller[c] /\ UNCHANGED irqRuns
    /\ caller' = [caller EXCEPT ![c] = NoHandle]
-----------------------------------------------------------------------------
(***************************************************************************)
(* A coroutine, in the program or in the handler.                          *)
(***************************************************************************)
\* The loop, the handler or a coroutine starts another one.
Launch(c) ==
    /\ state[c] = "fresh"
    /\ Goto(c, "body")
    /\ \/ ProgramRuns /\ ProgramEnters(c)
       \/ HandlerRuns /\ HandlerEnters(c)
    /\ UNCHANGED <<value_, handle_, loopVars, missed, undefined>>

\* co_await flag: await_ready.
AwaitReady_RecordsFirst(c) ==
    /\ Runs(c) /\ state[c] = "body"
    /\ \A d \in Coroutines : ~Awaiting(d)
    /\ Goto(c, IF value_ THEN "resume" ELSE "tested")
    /\ handle_' = c
    /\ missed' = FALSE
    /\ UNCHANGED <<value_, runVars, loopVars, raced, undefined>>
AwaitReady(c) ==
    /\ Runs(c) /\ state[c] = "body"
    /\ \A d \in Coroutines : ~Awaiting(d)
    /\ Goto(c, IF value_ THEN "resume" ELSE "tested")
    /\ missed' = FALSE
    /\ UNCHANGED <<value_, handle_, runVars, loopVars, raced, undefined>>

\* await_suspend: lines 37 and 38, with value_ as it is or as it was.
AwaitSuspend(c) ==
    /\ Runs(c) /\ state[c] = "tested"
    /\ \E value \in {value_, FALSE} :
         Goto(c, IF value THEN "resume" ELSE "checked")
    /\ UNCHANGED <<value_, handle_, runVars, loopVars, history, undefined>>

\* Line 41; what is left of await_suspend touches nothing.
Record_OnlyIfDown(c) ==
    /\ Runs(c) /\ state[c] = "checked"
    /\ handle_' = IF value_ THEN handle_ ELSE c
    /\ Goto(c, "parked") /\ Leave(c)
    /\ UNCHANGED <<value_, loopVars, history, undefined>>
Record(c) ==
    /\ Runs(c) /\ state[c] = "checked"
    /\ handle_' = c
    /\ Goto(c, "parked") /\ Leave(c)
    /\ UNCHANGED <<value_, loopVars, history, undefined>>

AwaitResume(c) ==
    /\ Runs(c) /\ state[c] = "resume"
    /\ handle_' = NoHandle
    /\ Goto(c, "body")
    /\ UNCHANGED <<value_, runVars, loopVars, history, undefined>>

Return(c) ==
    /\ Runs(c) /\ state[c] = "body"
    /\ Goto(c, "done") /\ Leave(c)
    /\ UNCHANGED <<value_, handle_, loopVars, history, undefined>>
-----------------------------------------------------------------------------
(***************************************************************************)
(* flag = false; and flag = true in the handler, or in a coroutine there:  *)
(* no step of the program falls into it.                                   *)
(***************************************************************************)
Lower ==
    /\ ProgramRuns \/ HandlerRuns
    /\ value_' = FALSE
    /\ UNCHANGED <<handle_, state, runVars, loopVars, history, undefined>>

Raise_OnlyStores ==
    /\ HandlerRuns
    /\ value_' = TRUE
    /\ missed' = (missed \/ \E c \in Coroutines : Waiting(c))
    /\ UNCHANGED <<handle_, state, runVars, loopVars, raced, undefined>>
Raise ==
    /\ HandlerRuns
    /\ value_' = TRUE
    /\ missed' = (missed \/ \E c \in Coroutines : Waiting(c))
    /\ \/ /\ handle_ = NoHandle
          /\ UNCHANGED <<handle_, state, runVars, raced, undefined>>
       \/ /\ handle_ # NoHandle /\ state[handle_] = "parked"
          /\ handle_' = NoHandle
          /\ Goto(handle_, "resume") /\ HandlerEnters(handle_)
          /\ UNCHANGED undefined
       \/ /\ handle_ # NoHandle /\ state[handle_] # "parked"
          /\ undefined' = TRUE
          /\ UNCHANGED <<handle_, state, runVars, raced>>
    /\ UNCHANGED loopVars

(***************************************************************************)
(* flag = true in the program, line by line: the handler may run between   *)
(* any two of them.                                                        *)
(***************************************************************************)
\* Line 17.
Store ==
    /\ ProgramRuns
    /\ value_' = TRUE
    /\ phase' = "stored" /\ raced' = FALSE
    /\ UNCHANGED <<handle_, state, runVars, taken, missed, undefined>>

\* Line 19, with value_ as it is or as it was stored; the compiler may let
\* line 20 use the handle that was loaded for the test.
Test ==
    /\ phase = "stored" /\ irqRuns = NoHandle
    /\ \E value \in {value_, TRUE} :
         \/ /\ ~value \/ handle_ = NoHandle
            /\ phase' = "no"
            /\ UNCHANGED taken
         \/ /\ value /\ handle_ # NoHandle
            /\ \/ phase' = "tested" /\ UNCHANGED taken
               \/ phase' = "loaded" /\ taken' = handle_
    /\ UNCHANGED <<value_, handle_, state, runVars, history, undefined>>

\* Line 20, where handle_ is loaded again.
Load ==
    /\ phase = "tested" /\ irqRuns = NoHandle
    /\ phase' = "loaded" /\ taken' = handle_
    /\ UNCHANGED <<value_, handle_, state, runVars, history, undefined>>

\* Line 21.
Clear_KeepsHandle ==
    /\ phase = "loaded" /\ irqRuns = NoHandle
    /\ phase' = "cleared"
    /\ UNCHANGED <<value_, handle_, state, runVars, taken, history, undefined>>
Clear ==
    /\ phase = "loaded" /\ irqRuns = NoHandle
    /\ phase' = "cleared" /\ handle_' = NoHandle
    /\ UNCHANGED <<value_, state, runVars, taken, history, undefined>>

\* Line 22.
Resume ==
    /\ phase = "cleared" /\ irqRuns = NoHandle
    /\ IF taken # NoHandle /\ state[taken] = "parked"
       THEN /\ Goto(taken, "resume") /\ ProgramEnters(taken)
            /\ phase' = "no" /\ taken' = NoHandle
            /\ UNCHANGED undefined
       ELSE /\ undefined' = TRUE
            /\ UNCHANGED <<state, runVars, loopVars, raced>>
    /\ UNCHANGED <<value_, handle_, missed>>

RaiseInProgram == Store \/ Test \/ Load \/ Clear \/ Resume
-----------------------------------------------------------------------------
\* Nothing can be said of a program after undefined behaviour.
Next ==
    /\ ~undefined
    /\ \/ \E c \in Coroutines : \/ Launch(c) \/ AwaitReady(c)
                                \/ AwaitSuspend(c) \/ Record(c)
                                \/ AwaitResume(c) \/ Return(c)
       \/ Lower \/ Raise
       \/ RaiseInProgram

Spec == Init /\ [][Next]_flagVars
-----------------------------------------------------------------------------
(***************************************************************************)
(* Properties.                                                             *)
(***************************************************************************)
(***************************************************************************)
(* Only suspended coroutines are resumed, wherever in a co_await the       *)
(* interrupt falls: the one place where it does harm is an assignment in   *)
(* the program, between its test of the handle and its resumption of what  *)
(* it has loaded since, which may be a handle used up or none at all.      *)
(***************************************************************************)
OnlySuspendedAreResumed == undefined => raced

(***************************************************************************)
(* Nobody is forgotten: a suspended coroutine is recorded, so that the     *)
(* next raise of the flag resumes it, or an assignment is about to resume  *)
(* it.  But where the interrupt has entered a coroutine inside such an     *)
(* assignment, line 21 may wipe the handle of one that waits since then.   *)
(***************************************************************************)
NobodyForgotten ==
    \A c \in Coroutines :
        state[c] = "parked" => \/ handle_ = c
                               \/ phase = "cleared" /\ (taken = c \/ raced)

(***************************************************************************)
(* But a coroutine may sleep with its flag up, until it is raised again:   *)
(* when the interrupt fell between await_ready and the recording of the    *)
(* handle, and only then.                                                  *)
(***************************************************************************)
SleepsUpOnlyIfMissed ==
    value_ /\ ~missed /\ phase = "no" =>
        \A c \in Coroutines : state[c] # "parked"

(***************************************************************************)
(* The inductive invariant behind the three: one coroutine at most is in a *)
(* co_await; whoever is in the middle of one is the innermost coroutine of *)
(* the program or of the handler, and those that it was entered from are   *)
(* in their own code; a flag raised during a co_await is remembered as     *)
(* missed; and an assignment that no interrupt has fallen into since its   *)
(* test holds the one recorded handle.  (A recorded handle may here be one *)
(* that a raced assignment has resumed: it never is, but the proof is the  *)
(* shorter for it, and the three properties need no more.)                 *)
(***************************************************************************)
FlagTypeOK ==
    /\ value_ \in BOOLEAN /\ phase \in Phases
    /\ missed \in BOOLEAN /\ raced \in BOOLEAN /\ undefined \in BOOLEAN
    /\ handle_ \in Coroutines \cup {NoHandle}
    /\ loopRuns \in Coroutines \cup {NoHandle}
    /\ irqRuns \in Coroutines \cup {NoHandle}
    /\ taken \in Coroutines \cup {NoHandle}
    /\ caller \in [Coroutines -> Coroutines \cup {NoHandle}]
    /\ state \in [Coroutines -> States]

OneAwaits ==
    \A c, d \in Coroutines : Awaiting(c) /\ Awaiting(d) => c = d

HandleIsParked ==
    \A c \in Coroutines :
        handle_ = c => state[c] = "parked" \/ (raced /\ state[c] = "resume")

RunnersRun ==
    /\ \A c \in Coroutines :
         c \in {loopRuns, irqRuns}
             => state[c] \in {"body", "tested", "checked", "resume"}
    /\ \A c \in Coroutines :
         state[c] \in {"tested", "checked", "resume"}
             => c \in {loopRuns, irqRuns}
    /\ irqRuns = loopRuns => irqRuns = NoHandle

CallersStand ==
    /\ \A c \in Coroutines :
         caller[c] # NoHandle => /\ state[caller[c]] = "body"
                                 /\ caller[c] \notin {loopRuns, irqRuns}
    /\ \A c, d \in Coroutines :
         caller[c] = caller[d] /\ caller[c] # NoHandle => c = d

RaisedIsMissed == \A c \in Coroutines : Waiting(c) /\ value_ => missed

AssignmentHolds ==
    /\ phase # "no" => OwnCode(loopRuns)
    /\ phase \in {"tested", "loaded", "cleared"} /\ ~raced =>
         irqRuns = NoHandle
    /\ phase = "tested" /\ ~raced => handle_ # NoHandle
    /\ phase = "loaded" /\ ~raced => handle_ = taken /\ taken # NoHandle
    /\ phase = "cleared" /\ ~raced =>
         taken # NoHandle /\ state[taken] = "parked" /\ handle_ = NoHandle

InterruptInv ==
    /\ FlagTypeOK /\ OneAwaits /\ HandleIsParked /\ RunnersRun
    /\ CallersStand /\ RaisedIsMissed /\ AssignmentHolds
    /\ NobodyForgotten /\ SleepsUpOnlyIfMissed /\ OnlySuspendedAreResumed
=============================================================================
