------------------------------ MODULE CoroTask ------------------------------
(***************************************************************************)
(* coro_task: the frames of coroutines, the memory resource they come      *)
(* from, the task objects that hold their handles, and the primitives      *)
(* (flag, queue, timer) in which they wait.  coro/include/coro/            *)
(* coro_task.hpp                                                           *)
(*                                                                         *)
(* One thread of control: the event loop, or the coroutine entered last    *)
(* (the head of stack), calls anything the class offers, in any order.     *)
(* What C++ leaves undefined ends a behaviour (halted); misused remembers  *)
(* whether the program has broken the two rules that no document states:   *)
(* leave a task alone once it has been resumed, and the resource while a   *)
(* frame lives.                                                            *)
(* A frame is one activation: a freed address given out again is another.  *)
(***************************************************************************)
EXTENDS Integers, Sequences, FiniteSets

CONSTANTS Frames,       \* the activations of coroutines in a run
          Tasks,        \* the places where a coro_task object may live
          Primitives,   \* the flags, queues and timers
          Resources,    \* the std::pmr::memory_resource objects
          Default,      \* new_delete_resource()
          Capacity,     \* how many frames a resource has room for
          NoHandle,     \* a null std::coroutine_handle
          NoTask        \* a place with no task object

ASSUME HandleAssumption ==
    /\ NoHandle \notin Frames /\ NoTask \notin Frames /\ NoTask # NoHandle
ASSUME ResourceAssumption == Default \in Resources /\ Capacity \in Nat

VARIABLES
    PLATFORM_HOST, \* is this a host build?  It never changes.
    resource, \* what get_resource() returns
    state,    \* where each frame is
    origin,   \* the resource a frame was allocated from
    used,     \* how many frames each resource has given out
    h,        \* the handle of each task object
    waiter,   \* the handle that each primitive will resume
    stack,    \* the frames entered and not suspended, innermost first
    halted,   \* "no", "terminated", or "undefined" behaviour
    misused   \* history: has the program broken a rule of use?

memory   == <<PLATFORM_HOST, resource, origin, used>>
taskVars == <<memory, state, h, waiter, stack, halted, misused>>

States == {"none",    \* not allocated yet
           "created", \* suspended at the start
           "running", \* entered
           "waiting", \* suspended in a co_await
           "freed"}   \* ended: the frame is gone

Live(f) == state[f] \in {"created", "running", "waiting"}

TaskInit ==
    /\ PLATFORM_HOST \in BOOLEAN
    /\ resource = Default
    /\ state = [f \in Frames |-> "none"]
    /\ origin = [f \in Frames |-> Default]
    /\ used = [r \in Resources |-> 0]
    /\ h = [t \in Tasks |-> NoTask]
    /\ waiter = [p \in Primitives |-> NoHandle]
    /\ stack = <<>>
    /\ halted = "no" /\ misused = FALSE

Goto(f, s) == state' = [state EXCEPT ![f] = s]
-----------------------------------------------------------------------------
(***************************************************************************)
(* The application: the loop, or the coroutine that runs.                  *)
(***************************************************************************)
set_resource(r) ==
    /\ resource' = r
    /\ misused' = (misused \/ (r # resource /\ \E f \in Frames : Live(f)))
    /\ UNCHANGED <<PLATFORM_HOST, state, origin, used, h, waiter, stack,
                   halted>>

\* launch_task: the frame is allocated, and suspended at its start.
launch_task(t, f) ==
    /\ h[t] = NoTask /\ state[f] = "none"
    /\ used[resource] < Capacity
    /\ used' = [used EXCEPT ![resource] = @ + 1]
    /\ origin' = [origin EXCEPT ![f] = resource]
    /\ Goto(f, "created")
    /\ h' = [h EXCEPT ![t] = f]
    /\ UNCHANGED <<PLATFORM_HOST, resource, waiter, stack, halted, misused>>

\* allocate throws, and launch_task is noexcept.
LaunchFails ==
    /\ used[resource] = Capacity
    /\ halted' = "terminated"
    /\ UNCHANGED <<memory, state, h, waiter, stack, misused>>

\* The move constructor leaves a null handle behind.
Move(t, u) ==
    /\ h[t] # NoTask /\ h[u] = NoTask
    /\ h' = [h EXCEPT ![t] = NoHandle, ![u] = h[t]]
    /\ UNCHANGED <<memory, state, waiter, stack, halted, misused>>

\* A task object dies; coro_task has no destructor, the frame stays.
Drop(t) ==
    /\ h[t] # NoTask
    /\ h' = [h EXCEPT ![t] = NoTask]
    /\ UNCHANGED <<memory, state, waiter, stack, halted, misused>>

\* Resuming is defined for a suspended coroutine only.
Suspended(f) == state[f] \in {"created", "waiting"}
Enter(f) ==
    \/ /\ Suspended(f)
       /\ Goto(f, "running")
       /\ stack' = <<f>> \o stack
       /\ UNCHANGED halted
    \/ /\ ~Suspended(f)
       /\ halted' = "undefined"
       /\ UNCHANGED <<state, stack>>

\* resume() of a task resumed before enters the coroutine behind the back of
\* the primitive it waits in, or asks a frame that runs or is gone.
resume(t) ==
    /\ h[t] # NoTask
    /\ \/ /\ h[t] = NoHandle
          /\ UNCHANGED <<state, stack, halted, misused>>
       \/ /\ h[t] # NoHandle
          /\ misused' = (misused \/ state[h[t]] # "created")
          /\ Enter(h[t])
    /\ UNCHANGED <<memory, h, waiter>>

\* done() may be asked of a suspended coroutine, or with a null handle.
done(t) ==
    /\ h[t] # NoTask
    /\ \/ /\ h[t] = NoHandle
          /\ UNCHANGED <<halted, misused>>
       \/ /\ h[t] # NoHandle
          /\ misused' = (misused \/ state[h[t]] # "created")
          /\ halted' = IF Suspended(h[t]) THEN "no" ELSE "undefined"
    /\ UNCHANGED <<memory, state, h, waiter, stack>>

\* process() of a queue or timer, an assignment to a flag: the primitive
\* clears its handle and resumes the coroutine.
Wake_KeepsHandle(p) ==
    /\ waiter[p] # NoHandle
    /\ Enter(waiter[p])
    /\ UNCHANGED <<memory, h, waiter, misused>>
Wake(p) ==
    /\ waiter[p] # NoHandle
    /\ waiter' = [waiter EXCEPT ![p] = NoHandle]
    /\ Enter(waiter[p])
    /\ UNCHANGED <<memory, h, misused>>

\* coro_timer::cancel(), or the end of a flag, queue or timer under its
\* waiter: the coroutine is suspended for good.
Forget(p) ==
    /\ waiter[p] # NoHandle
    /\ waiter' = [waiter EXCEPT ![p] = NoHandle]
    /\ UNCHANGED <<memory, state, h, stack, halted, misused>>
-----------------------------------------------------------------------------
(***************************************************************************)
(* The coroutine that runs.                                                *)
(***************************************************************************)
\* co_await of a primitive.  If another coroutine waits for it already, the
\* assertion "Only one waiter" ends the program or, compiled out, lets the
\* new one take its place.
Await_NotRecorded(p) ==
    /\ stack # <<>> /\ waiter[p] = NoHandle
    /\ Goto(Head(stack), "waiting")
    /\ stack' = Tail(stack)
    /\ UNCHANGED <<memory, h, waiter, halted, misused>>
Await(p) ==
    /\ stack # <<>>
    /\ \/ /\ waiter[p] # NoHandle
          /\ halted' = "terminated"
          /\ UNCHANGED <<state, waiter, stack>>
       \/ /\ waiter' = [waiter EXCEPT ![p] = Head(stack)]
          /\ Goto(Head(stack), "waiting")
          /\ stack' = Tail(stack)
          /\ UNCHANGED halted
    /\ UNCHANGED <<memory, h, misused>>

\* The coroutine ends: final_suspend never suspends, so the frame goes to
\* operator delete, which asks the resource in force now to take it back,
\* and off the host ends the program.
Return_ToDefault ==
    /\ stack # <<>>
    /\ \/ /\ PLATFORM_HOST /\ Default = origin[Head(stack)]
          /\ used' = [used EXCEPT ![Default] = @ - 1]
          /\ Goto(Head(stack), "freed")
          /\ stack' = Tail(stack)
          /\ UNCHANGED halted
       \/ /\ PLATFORM_HOST /\ Default # origin[Head(stack)]
          /\ halted' = "undefined"
          /\ UNCHANGED <<used, state, stack>>
    /\ UNCHANGED <<PLATFORM_HOST, resource, origin, h, waiter, misused>>
Return_NothingFreed ==
    /\ stack # <<>>
    /\ Goto(Head(stack), "freed")
    /\ stack' = Tail(stack)
    /\ UNCHANGED <<memory, h, waiter, halted, misused>>
Return_FreesAnywhere ==
    /\ stack # <<>>
    /\ used' = [used EXCEPT ![resource] = @ - 1]
    /\ Goto(Head(stack), "freed")
    /\ stack' = Tail(stack)
    /\ UNCHANGED <<PLATFORM_HOST, resource, origin, h, waiter, halted,
                   misused>>
Return ==
    /\ stack # <<>>
    /\ \/ /\ PLATFORM_HOST /\ resource = origin[Head(stack)]
          /\ used' = [used EXCEPT ![resource] = @ - 1]
          /\ Goto(Head(stack), "freed")
          /\ stack' = Tail(stack)
          /\ UNCHANGED halted
       \/ /\ PLATFORM_HOST /\ resource # origin[Head(stack)]
          /\ halted' = "undefined"
          /\ UNCHANGED <<used, state, stack>>
       \/ /\ ~PLATFORM_HOST
          /\ halted' = "terminated"
          /\ UNCHANGED <<used, state, stack>>
    /\ UNCHANGED <<PLATFORM_HOST, resource, origin, h, waiter, misused>>

\* unhandled_exception.
Throw ==
    /\ stack # <<>>
    /\ halted' = "terminated"
    /\ UNCHANGED <<memory, state, h, waiter, stack, misused>>
-----------------------------------------------------------------------------
TaskNext ==
    /\ halted = "no"
    /\ \/ \E r \in Resources : set_resource(r)
       \/ \E t \in Tasks, f \in Frames : launch_task(t, f)
       \/ LaunchFails
       \/ \E t, u \in Tasks : Move(t, u)
       \/ \E t \in Tasks : Drop(t) \/ resume(t) \/ done(t)
       \/ \E p \in Primitives : Wake(p) \/ Forget(p) \/ Await(p)
       \/ Return
       \/ Throw

TaskSpec == TaskInit /\ [][TaskNext]_taskVars
-----------------------------------------------------------------------------
(***************************************************************************)
(* Properties.                                                             *)
(***************************************************************************)
TaskTypeOK ==
    /\ PLATFORM_HOST \in BOOLEAN
    /\ resource \in Resources
    /\ state \in [Frames -> States]
    /\ origin \in [Frames -> Resources]
    /\ used \in [Resources -> Int]
    /\ h \in [Tasks -> Frames \cup {NoHandle, NoTask}]
    /\ waiter \in [Primitives -> Frames \cup {NoHandle}]
    /\ stack \in Seq(Frames)
    /\ halted \in {"no", "terminated", "undefined"}
    /\ misused \in BOOLEAN

(***************************************************************************)
(* A program that keeps the two rules never reaches undefined behaviour:   *)
(* no handle, in a task or in a primitive, is used after its frame is gone *)
(* or while it runs, whoever wakes, launches, moves or forgets whom, and   *)
(* every frame goes back to the resource it came from.                     *)
(***************************************************************************)
UndefinedOnlyIfMisused == halted = "undefined" => misused

(***************************************************************************)
(* A frame has one owner: however tasks are moved, two never hold the same *)
(* handle, or one of them would resume it a second time.                   *)
(***************************************************************************)
OneOwner ==
    \A t, u \in Tasks : h[t] = h[u] /\ h[t] \in Frames => t = u

(***************************************************************************)
(* The memory a resource has given out is that of its live frames: an      *)
(* ended coroutine costs nothing, any other costs its frame for ever.      *)
(***************************************************************************)
MemoryAccounted ==
    \A r \in Resources :
        used[r] = Cardinality({f \in Frames : Live(f) /\ origin[f] = r})

(***************************************************************************)
(* A live frame that nothing can resume any more is a leak.  It comes from *)
(* a task dropped before it was resumed, from a primitive that forgets its *)
(* waiter (coro_timer::cancel(), ~async_flag, ~async_queue, or the end of  *)
(* a timer under its waiter), or from a second waiter in the first one's   *)
(* place, and from nothing else.                                           *)
(***************************************************************************)
Reachable(f) ==
    \/ \E t \in Tasks : h[t] = f
    \/ \E p \in Primitives : waiter[p] = f
    \/ \E i \in 1 .. Len(stack) : stack[i] = f

Replaces(p) == waiter[p] # NoHandle /\ Await(p)

LeaksOnlyByDroppingOrForgetting ==
    [][(\E f \in Frames : /\ Live(f) /\ Reachable(f)
                          /\ Live(f)' /\ ~Reachable(f)')
         => \/ \E t \in Tasks : Drop(t)
            \/ \E p \in Primitives : Forget(p) \/ Replaces(p)
       ]_taskVars

(***************************************************************************)
(* Off the host nothing is ever deallocated, since the first coroutine to  *)
(* return ends the program: a resource has room for Capacity launches, not *)
(* for Capacity coroutines at a time.                                      *)
(***************************************************************************)
PoolOnlyFills ==
    ~PLATFORM_HOST =>
        \A r \in Resources :
            used[r] = Cardinality({f \in Frames :
                                     state[f] # "none" /\ origin[f] = r})

(***************************************************************************)
(* The inductive invariant behind the first two.  In a program that keeps  *)
(* the rules, a primitive holds a suspended coroutine, which no other      *)
(* primitive holds, and live frames come from the resource in force.       *)
(***************************************************************************)
StackIsRunning ==
    /\ \A i \in 1 .. Len(stack) : state[stack[i]] = "running"
    /\ \A i, j \in 1 .. Len(stack) : stack[i] = stack[j] => i = j
    /\ \A f \in Frames : state[f] = "running"
                          => \E i \in 1 .. Len(stack) : stack[i] = f

HandlesAllocated ==
    /\ \A t \in Tasks : h[t] \in Frames => state[h[t]] # "none"
    /\ \A p \in Primitives : waiter[p] \in Frames => state[waiter[p]] # "none"

WaitersWait ==
    /\ \A p \in Primitives :
         waiter[p] # NoHandle => state[waiter[p]] = "waiting"
    /\ \A p, q \in Primitives :
         waiter[p] = waiter[q] /\ waiter[p] # NoHandle => p = q

LiveFromResource == \A f \in Frames : Live(f) => origin[f] = resource

TaskInv ==
    /\ TaskTypeOK
    /\ OneOwner
    /\ StackIsRunning
    /\ HandlesAllocated
    /\ ~misused => WaitersWait /\ LiveFromResource
    /\ UndefinedOnlyIfMisused
=============================================================================
