----------------------------- MODULE AsyncQueue -----------------------------
(***************************************************************************)
(* async_queue as its users see it: the ring of SpscRing, the awaiter that *)
(* co_await queue.async_pop() runs, and process(), which the event loop    *)
(* calls to resume the coroutine that waits.                               *)
(* coro/include/coro/async_queue.hpp:97-151 and 169.                       *)
(*                                                                         *)
(* The consumer context is one thread of control: the event loop, or the   *)
(* coroutine it launched or resumed, which runs until it suspends or ends. *)
(* The producer runs beside it and may step between any two of its steps.  *)
(* The assertion "Only one waiter" stops the program, as in the host-tests *)
(* preset, or is compiled out, as in the Release presets: the steps here   *)
(* are those of both builds.                                               *)
(***************************************************************************)
EXTENDS SpscRing

CONSTANTS Coroutines, \* the consumers' coroutines
          NoHandle    \* a null std::coroutine_handle

ASSUME NoHandleAssumption == NoHandle \notin Coroutines

VARIABLES
    waiter_, \* the handle process() will resume
    running, \* the coroutine the event loop is inside, or NoHandle
    state,   \* where each coroutine is
    halted   \* why the program stopped, or "no"

coroVars  == <<waiter_, running, state, halted>>
queueVars == <<ringVars, coroVars>>

States == {"fresh",    \* created, not started (initial_suspend)
           "body",     \* running its own code
           "suspend",  \* in await_suspend, before the handle is recorded
           "recheck",  \* in await_suspend, after the handle is recorded
           "parked",   \* suspended in co_await
           "replaced", \* suspended, and another has taken its place
           "resume",   \* in await_resume, before try_pop
           "take",     \* in await_resume, from try_pop to its return
           "done"}     \* returned

QueueInit ==
    /\ RingInit
    /\ waiter_ = NoHandle
    /\ running = NoHandle
    /\ state = [c \in Coroutines |-> "fresh"]
    /\ halted = "no"

Goto(c, s) == state' = [state EXCEPT ![c] = s]
-----------------------------------------------------------------------------
(***************************************************************************)
(* co_await queue.async_pop(), in the coroutine that runs.                 *)
(***************************************************************************)
AwaitReady(c) ==
    /\ alive /\ running = c /\ state[c] = "body"
    /\ Goto(c, IF empty THEN "suspend" ELSE "resume")
    /\ UNCHANGED <<ringVars, waiter_, running, halted>>

\* The assertion, which a second waiter fails where it is compiled in, then
\* the check for a push since await_ready, then the handle is recorded: the
\* waiter that was there before is one nothing will resume any more.
Replace(c) ==
    state' = [d \in Coroutines |-> IF d = c THEN "recheck"
                                ELSE IF d = waiter_ THEN "replaced"
                                ELSE state[d]]
AwaitSuspend_NotRecorded(c) ==
    /\ running = c /\ state[c] = "suspend"
    /\ \/ /\ ~empty
          /\ Goto(c, "resume")
       \/ /\ empty
          /\ Replace(c)
    /\ UNCHANGED <<ringVars, waiter_, running, halted>>
AwaitSuspend(c) ==
    /\ running = c /\ state[c] = "suspend"
    /\ \/ /\ waiter_ # NoHandle
          /\ halted' = "only one waiter"
          /\ UNCHANGED <<waiter_, state>>
       \/ /\ ~empty
          /\ Goto(c, "resume")
          /\ UNCHANGED <<waiter_, halted>>
       \/ /\ empty
          /\ waiter_' = c
          /\ Replace(c)
          /\ UNCHANGED halted
    /\ UNCHANGED <<ringVars, running>>

\* The check for a push just before the handle was recorded: go on without
\* suspending, or give control back to whoever resumed the coroutine.
Recheck_KeepsWaiter(c) ==
    /\ running = c /\ state[c] = "recheck"
    /\ \/ /\ ~empty
          /\ Goto(c, "resume")
          /\ UNCHANGED <<waiter_, running>>
       \/ /\ empty
          /\ running' = NoHandle
          /\ Goto(c, "parked")
          /\ UNCHANGED waiter_
    /\ UNCHANGED <<ringVars, halted>>
Recheck(c) ==
    /\ running = c /\ state[c] = "recheck"
    /\ \/ /\ ~empty
          /\ waiter_' = NoHandle
          /\ Goto(c, "resume")
          /\ UNCHANGED running
       \/ /\ empty
          /\ running' = NoHandle
          /\ Goto(c, "parked")
          /\ UNCHANGED waiter_
    /\ UNCHANGED <<ringVars, halted>>

\* await_resume asserts that try_pop finds an item, and takes it.
AwaitResume(c) ==
    /\ running = c /\ state[c] = "resume"
    /\ \/ /\ empty
          /\ halted' = "resumed without an item"
          /\ UNCHANGED <<ringVars, state>>
       \/ /\ TryPop
          /\ Goto(c, "take")
          /\ UNCHANGED halted
    /\ UNCHANGED <<waiter_, running>>

\* The coroutine returns; final_suspend never suspends, its frame is gone.
Return(c) ==
    /\ running = c /\ state[c] = "body"
    /\ Goto(c, "done")
    /\ running' = NoHandle
    /\ UNCHANGED <<ringVars, waiter_, halted>>
-----------------------------------------------------------------------------
(***************************************************************************)
(* The event loop.                                                         *)
(***************************************************************************)
InLoop == running = NoHandle /\ consumer = "idle"

\* launch_task(...).resume().
Launch(c) ==
    /\ alive /\ InLoop /\ state[c] = "fresh"
    /\ running' = c
    /\ Goto(c, "body")
    /\ UNCHANGED <<ringVars, waiter_, halted>>

\* process() takes the handle before it resumes the coroutine, which may
\* wait again before control returns here.
Process_NoEmptyCheck ==
    /\ alive /\ InLoop
    /\ waiter_ # NoHandle
    /\ waiter_' = NoHandle
    /\ running' = waiter_
    /\ Goto(waiter_, "resume")
    /\ UNCHANGED <<ringVars, halted>>
Process_OnlyWhenFull ==
    /\ alive /\ InLoop
    /\ ~empty /\ full /\ waiter_ # NoHandle
    /\ waiter_' = NoHandle
    /\ running' = waiter_
    /\ Goto(waiter_, "resume")
    /\ UNCHANGED <<ringVars, halted>>
Process ==
    /\ alive /\ InLoop
    /\ ~empty /\ waiter_ # NoHandle
    /\ waiter_' = NoHandle
    /\ running' = waiter_
    /\ Goto(waiter_, "resume")
    /\ UNCHANGED <<ringVars, halted>>

\* process() with nothing to hand over, or nobody to hand it to.
ProcessNothing ==
    /\ alive /\ InLoop
    /\ empty \/ waiter_ = NoHandle
    /\ UNCHANGED queueVars

\* The loop may also call try_pop itself.
LoopPop ==
    /\ InLoop
    /\ TryPop \/ TryPopEmpty
    /\ UNCHANGED coroVars

\* The rest of a try_pop, the loop's or the running coroutine's, to the
\* return of the message.
Handed ==
    /\ HandOver
    /\ IF running = NoHandle THEN UNCHANGED state ELSE Goto(running, "body")
    /\ UNCHANGED <<waiter_, running, halted>>

\* A message whose move constructor throws, before its slot is released or
\* after: the coroutine, or the loop, catches the exception and goes on
\* without the message, or the program ends (unhandled_exception).
Thrown ==
    /\ MoveThrows \/ HandOverThrows
    /\ \/ /\ IF running = NoHandle THEN UNCHANGED state
                                  ELSE Goto(running, "body")
          /\ UNCHANGED halted
       \/ /\ halted' = "terminated"
          /\ UNCHANGED state
    /\ UNCHANGED <<waiter_, running>>

PopStep ==
    \/ (MoveOut \/ ReleaseSlot) /\ UNCHANGED coroVars
    \/ Handed
    \/ Thrown
-----------------------------------------------------------------------------
\* An assertion or std::terminate stops the program for good.
Alive == halted = "no"

Coroutine(c) ==
    Alive /\ (\/ AwaitReady(c) \/ AwaitSuspend(c) \/ Recheck(c)
              \/ AwaitResume(c) \/ Return(c))

ProducerStep == Alive /\ Producer /\ UNCHANGED coroVars

Memory == Alive /\ (SeeTail \/ SeeHead) /\ UNCHANGED coroVars

Loop == Alive /\ (Process \/ ProcessNothing \/ LoopPop)

DestroyQueue == Alive /\ InLoop /\ Destroy /\ UNCHANGED coroVars

QueueNext ==
    \/ ProducerStep
    \/ Memory
    \/ Alive /\ PopStep
    \/ \E c \in Coroutines : Coroutine(c)
    \/ \E c \in Coroutines : Alive /\ Launch(c)
    \/ Loop
    \/ DestroyQueue

QueueSpec == QueueInit /\ [][QueueNext]_queueVars

(***************************************************************************)
(* The fairness a running program has: stores become visible in finite     *)
(* time, a try_pop that began goes on and does not throw every time, a     *)
(* coroutine that runs reaches its next co_await or its end, and the event *)
(* loop calls process() again and again (README.md:144-150).  Nothing is   *)
(* asked of the producer.                                                  *)
(***************************************************************************)
QueueFairness ==
    /\ WF_queueVars(Memory)
    /\ WF_queueVars(Alive /\ PopStep)
    /\ SF_queueVars(Alive /\ MoveOut /\ UNCHANGED coroVars)
    /\ WF_queueVars(\E c \in Coroutines : Coroutine(c))
    /\ WF_queueVars(Alive /\ Process)

FairQueueSpec == QueueSpec /\ QueueFairness
-----------------------------------------------------------------------------
QueueTypeOK ==
    /\ RingTypeOK
    /\ waiter_ \in Coroutines \cup {NoHandle}
    /\ running \in Coroutines \cup {NoHandle}
    /\ state \in [Coroutines -> States]
    /\ halted \in {"no", "only one waiter", "resumed without an item",
                   "terminated"}

(***************************************************************************)
(* The assertion of await_resume (async_queue.hpp:128) never fails: from   *)
(* the check that found an item, in await_ready, in either check of        *)
(* await_suspend or in process(), to the try_pop, nobody else can take it. *)
(***************************************************************************)
NeverResumedWithoutItem == halted # "resumed without an item"

(***************************************************************************)
(* No waiter is forgotten: whoever is suspended, and nobody has replaced,  *)
(* is the one process() will resume, though the handle is written before   *)
(* the last check for an item and wiped again when there is one.           *)
(***************************************************************************)
ParkedIsWaiter ==
    \A c \in Coroutines : state[c] = "parked" => waiter_ = c

(***************************************************************************)
(* process() never resumes a coroutine that runs or has ended: outside     *)
(* await_suspend a recorded waiter is suspended.  The second check of      *)
(* await_suspend (async_queue.hpp:117-120) and the exchange in process()   *)
(* (line 147) both have to clear it for this to hold.                      *)
(***************************************************************************)
WaiterIsParked ==
    \A c \in Coroutines : waiter_ = c => state[c] \in {"recheck", "parked"}

(***************************************************************************)
(* No lost wake-up: a message accepted while a coroutine is suspended, or  *)
(* just before it suspends, gets the coroutine resumed, unless the loop    *)
(* pops the messages itself, another takes its place, or the queue or the  *)
(* program ends.                                                           *)
(***************************************************************************)
NoLostWakeup ==
    \A c \in Coroutines :
        (state[c] = "parked" /\ sent # received)
            ~> \/ state[c] # "parked"
               \/ sent = received
               \/ ~alive
               \/ halted # "no"
(***************************************************************************)
(* The inductive invariant behind the four safety properties: the ring's,  *)
(* the coroutine that runs is the only one between suspensions, a try_pop  *)
(* inside a coroutine is that coroutine's, an item found stays, and the    *)
(* recorded handle and the suspended coroutine agree.                      *)
(***************************************************************************)
RunsAlone ==
    \A c \in Coroutines :
        state[c] \in {"body", "suspend", "recheck", "resume", "take"}
            <=> running = c

PopIsTheirs ==
    consumer # "idle" /\ running # NoHandle => state[running] = "take"

ItemStays ==
    \A c \in Coroutines : state[c] = "resume" => ~empty

RecheckIsWaiter ==
    \A c \in Coroutines : state[c] = "recheck" => waiter_ = c

QueueInv ==
    /\ RingInv /\ QueueTypeOK
    /\ RunsAlone /\ PopIsTheirs /\ ItemStays
    /\ NeverResumedWithoutItem
    /\ WaiterIsParked /\ RecheckIsWaiter
    /\ ParkedIsWaiter
=============================================================================
