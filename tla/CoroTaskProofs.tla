--------------------------- MODULE CoroTaskProofs ---------------------------
(***************************************************************************)
(* Proofs about CoroTask, for any number of coroutines, tasks, primitives  *)
(* and resources of any capacity, on the host and off it.                  *)
(***************************************************************************)
EXTENDS CoroTask, FiniteSetTheorems, TLAPS

USE HandleAssumption, ResourceAssumption

-----------------------------------------------------------------------------
\* Entering a frame puts it on top of the stack.
LEMMA Push ==
    ASSUME NEW s \in Seq(Frames), NEW f \in Frames
    PROVE  /\ <<f>> \o s \in Seq(Frames)
           /\ Len(s) \in Nat /\ Len(<<f>> \o s) = Len(s) + 1
           /\ (<<f>> \o s)[1] = f
           /\ \A i \in 1 .. Len(s) : s[i] \in Frames
           /\ \A i \in 2 .. Len(s) + 1 : (<<f>> \o s)[i] = s[i - 1]
  OBVIOUS

\* A frame that suspends or ends leaves the top.
LEMMA Pop ==
    ASSUME NEW s \in Seq(Frames), s # <<>>
    PROVE  /\ Tail(s) \in Seq(Frames)
           /\ Len(s) \in Nat /\ Len(s) >= 1 /\ Len(Tail(s)) = Len(s) - 1
           /\ Head(s) = s[1] /\ Head(s) \in Frames
           /\ \A i \in 1 .. Len(s) : s[i] \in Frames
           /\ \A i \in 1 .. Len(s) - 1 : Tail(s)[i] = s[i + 1]
  OBVIOUS

LEMMA EnterKeepsStack ==
    ASSUME TaskTypeOK, StackIsRunning,
           NEW f \in Frames, Suspended(f),
           state' = [state EXCEPT ![f] = "running"],
           stack' = <<f>> \o stack
    PROVE  stack' \in Seq(Frames) /\ StackIsRunning'
<1>1. /\ stack' \in Seq(Frames) /\ Len(stack) \in Nat
      /\ Len(stack') = Len(stack) + 1
      /\ stack'[1] = f
      /\ \A i \in 1 .. Len(stack) : stack[i] \in Frames
      /\ \A i \in 2 .. Len(stack) + 1 : stack'[i] = stack[i - 1]
  BY Push DEF TaskTypeOK
<1>2. /\ state'[f] = "running"
      /\ \A g \in Frames : g # f => state'[g] = state[g]
  BY DEF TaskTypeOK
<1>3. \A i \in 1 .. Len(stack) : stack[i] # f
  BY DEF StackIsRunning, Suspended
<1>4. \A i \in 1 .. Len(stack') : i = 1 \/ (i # 1 /\ i - 1 \in 1 .. Len(stack)
                                            /\ stack'[i] = stack[i - 1])
  BY <1>1
<1>5. \A i \in 1 .. Len(stack') : state'[stack'[i]] = "running"
  BY <1>1, <1>2, <1>4 DEF StackIsRunning
<1>6. \A i, j \in 1 .. Len(stack') : stack'[i] = stack'[j] => i = j
  <2> SUFFICES ASSUME NEW i \in 1 .. Len(stack'), NEW j \in 1 .. Len(stack'),
                      stack'[i] = stack'[j]
               PROVE  i = j
    OBVIOUS
  <2>0. \A k \in 1 .. Len(stack') : k # 1 => stack'[k] # f
    BY <1>3, <1>4
  <2>1. CASE i = 1 \/ j = 1
    BY <1>1, <2>0, <2>1
  <2>2. CASE i # 1 /\ j # 1
    <3>1. /\ i - 1 \in 1 .. Len(stack) /\ j - 1 \in 1 .. Len(stack)
          /\ stack[i - 1] = stack[j - 1]
      BY <1>4, <2>2
    <3>2. i - 1 = j - 1
      BY <3>1 DEF StackIsRunning
    <3> QED
      BY <1>1, <3>2
  <2> QED
    BY <2>1, <2>2
<1>7. ASSUME NEW g \in Frames, state'[g] = "running"
      PROVE  \E i \in 1 .. Len(stack') : stack'[i] = g
  <2>1. CASE g = f
    BY <1>1, <2>1
  <2>2. CASE g # f
    <3>1. PICK i \in 1 .. Len(stack) : stack[i] = g
      BY <1>2, <1>7, <2>2 DEF StackIsRunning
    <3>2. i + 1 \in 2 .. Len(stack) + 1 /\ (i + 1) - 1 = i
          /\ i + 1 \in 1 .. Len(stack')
      BY <1>1
    <3>3. stack'[i + 1] = g
      BY <1>1, <3>1, <3>2
    <3> QED
      BY <3>2, <3>3
  <2> QED
    BY <2>1, <2>2
<1> QED
  BY <1>1, <1>5, <1>6, <1>7 DEF StackIsRunning

LEMMA LeaveKeepsStack ==
    ASSUME TaskTypeOK, StackIsRunning, stack # <<>>,
           NEW s \in {"waiting", "freed"},
           state' = [state EXCEPT ![Head(stack)] = s],
           stack' = Tail(stack)
    PROVE  stack' \in Seq(Frames) /\ StackIsRunning'
<1>1. /\ stack' \in Seq(Frames) /\ Len(stack) \in Nat /\ Len(stack) >= 1
      /\ Len(stack') = Len(stack) - 1
      /\ stack[1] = Head(stack) /\ Head(stack) \in Frames
      /\ \A i \in 1 .. Len(stack) : stack[i] \in Frames
      /\ \A i \in 1 .. Len(stack) - 1 : stack'[i] = stack[i + 1]
  BY Pop DEF TaskTypeOK
<1>2. /\ state'[Head(stack)] = s
      /\ \A g \in Frames : g # Head(stack) => state'[g] = state[g]
  BY <1>1 DEF TaskTypeOK
<1>3. \A i \in 1 .. Len(stack') : /\ i + 1 \in 1 .. Len(stack) /\ i + 1 # 1
                                  /\ stack'[i] = stack[i + 1]
  BY <1>1
<1>4. \A i \in 1 .. Len(stack) : i # 1 => stack[i] # Head(stack)
  BY <1>1 DEF StackIsRunning
<1>5. \A i \in 1 .. Len(stack') : state'[stack'[i]] = "running"
  BY <1>1, <1>2, <1>3, <1>4 DEF StackIsRunning
<1>6. \A i, j \in 1 .. Len(stack') : stack'[i] = stack'[j] => i = j
  <2> SUFFICES ASSUME NEW i \in 1 .. Len(stack'), NEW j \in 1 .. Len(stack'),
                      stack'[i] = stack'[j]
               PROVE  i = j
    OBVIOUS
  <2>1. i + 1 = j + 1
    BY <1>3 DEF StackIsRunning
  <2> QED
    BY <1>1, <2>1
<1>7. ASSUME NEW g \in Frames, state'[g] = "running"
      PROVE  \E i \in 1 .. Len(stack') : stack'[i] = g
  <2>1. g # Head(stack) /\ state[g] = "running"
    BY <1>2, <1>7
  <2>2. PICK i \in 1 .. Len(stack) : stack[i] = g
    BY <2>1 DEF StackIsRunning
  <2>3. i # 1
    BY <1>1, <2>1, <2>2
  <2>4. i - 1 \in 1 .. Len(stack') /\ i - 1 \in 1 .. Len(stack) - 1
        /\ (i - 1) + 1 = i
    BY <1>1, <2>3
  <2>5. stack'[i - 1] = g
    BY <1>1, <2>2, <2>4
  <2> QED
    BY <2>4, <2>5
<1> QED
  BY <1>1, <1>5, <1>6, <1>7 DEF StackIsRunning

\* What a step needs to keep when the state of one frame changes.
LEMMA OtherFrames ==
    ASSUME TaskTypeOK, NEW f \in Frames, NEW s \in States, Goto(f, s)
    PROVE  /\ state' \in [Frames -> States]
           /\ state'[f] = s
           /\ \A g \in Frames : g # f => state'[g] = state[g]
  BY DEF TaskTypeOK, Goto
-----------------------------------------------------------------------------
\* Every action preserves the invariant.  Enter is the part that resume and
\* Wake share; in a program that keeps the rules it meets a suspended frame.
LEMMA EnterStep ==
    ASSUME TaskInv, NEW f \in Frames, state[f] # "none", Enter(f),
           UNCHANGED <<memory, h>>
    PROVE  /\ state' \in [Frames -> States] /\ stack' \in Seq(Frames)
           /\ halted' \in {"no", "terminated", "undefined"}
           /\ StackIsRunning'
           /\ \A g \in Frames : state[g] # "none" => state'[g] # "none"
           /\ LiveFromResource => LiveFromResource'
           /\ \A g \in Frames : g # f => state'[g] = state[g]
           /\ Suspended(f) => halted' = halted
<1>1. CASE Suspended(f) /\ Goto(f, "running") /\ stack' = <<f>> \o stack
           /\ halted' = halted
  <2>1. /\ state' \in [Frames -> States] /\ state'[f] = "running"
        /\ \A g \in Frames : g # f => state'[g] = state[g]
    BY <1>1, OtherFrames DEF TaskInv, States
  <2>2. stack' \in Seq(Frames) /\ StackIsRunning'
    BY <1>1, EnterKeepsStack DEF TaskInv, Goto
  <2>3. LiveFromResource => LiveFromResource'
    BY <1>1, <2>1 DEF LiveFromResource, Live, Suspended, memory
  <2> QED
    BY <1>1, <2>1, <2>2, <2>3 DEF TaskInv, TaskTypeOK
<1>2. CASE ~Suspended(f) /\ halted' = "undefined" /\ UNCHANGED <<state, stack>>
  BY <1>2 DEF TaskInv, TaskTypeOK, StackIsRunning, LiveFromResource, Live,
              memory
<1> QED
  BY <1>1, <1>2 DEF Enter

LEMMA SetResourceStep ==
    ASSUME TaskInv, NEW r \in Resources, set_resource(r), halted = "no"
    PROVE  TaskInv'
<1>1. misused' \in BOOLEAN
  BY DEF set_resource
<1>2. TaskTypeOK'
  BY <1>1 DEF TaskInv, TaskTypeOK, set_resource
<1>3. ASSUME ~misused'
      PROVE  ~misused /\ (r = resource \/ \A f \in Frames : ~Live(f))
  BY <1>3 DEF set_resource
<1>4. ~misused' => (WaitersWait /\ LiveFromResource)'
  BY <1>3 DEF TaskInv, WaitersWait, LiveFromResource, Live, set_resource
<1> QED
  BY <1>2, <1>4 DEF TaskInv, OneOwner, StackIsRunning, HandlesAllocated,
                   UndefinedOnlyIfMisused, set_resource

LEMMA LaunchStep ==
    ASSUME TaskInv, NEW t \in Tasks, NEW f \in Frames, launch_task(t, f),
           halted = "no"
    PROVE  TaskInv'
<1>1. /\ state' \in [Frames -> States] /\ state'[f] = "created"
      /\ \A g \in Frames : g # f => state'[g] = state[g]
  BY OtherFrames DEF TaskInv, launch_task, States
<1>2. TaskTypeOK'
  <2>1. used' \in [Resources -> Int]
    BY DEF TaskInv, TaskTypeOK, launch_task
  <2>2. origin' \in [Frames -> Resources]
    BY DEF TaskInv, TaskTypeOK, launch_task
  <2>3. h' \in [Tasks -> Frames \cup {NoHandle, NoTask}]
    BY DEF TaskInv, TaskTypeOK, launch_task
  <2> QED
    BY <1>1, <2>1, <2>2, <2>3 DEF TaskInv, TaskTypeOK, launch_task
<1>3. OneOwner'
  BY DEF TaskInv, TaskTypeOK, OneOwner, HandlesAllocated, launch_task
<1>4. StackIsRunning'
  <2>1. \A i \in 1 .. Len(stack) : stack[i] \in Frames /\ stack[i] # f
    BY DEF TaskInv, TaskTypeOK, StackIsRunning, launch_task
  <2> QED
    BY <1>1, <2>1 DEF TaskInv, StackIsRunning, launch_task
<1>5. HandlesAllocated'
  BY <1>1 DEF TaskInv, TaskTypeOK, HandlesAllocated, launch_task
<1>6. ~misused' => (WaitersWait /\ LiveFromResource)'
  BY <1>1 DEF TaskInv, TaskTypeOK, HandlesAllocated, WaitersWait,
              LiveFromResource, Live, launch_task
<1> QED
  BY <1>2, <1>3, <1>4, <1>5, <1>6
     DEF TaskInv, UndefinedOnlyIfMisused, launch_task

LEMMA LaunchFailsStep ==
    ASSUME TaskInv, LaunchFails
    PROVE  TaskInv'
  BY DEF TaskInv, TaskTypeOK, OneOwner, StackIsRunning, HandlesAllocated,
         WaitersWait, LiveFromResource, Live, UndefinedOnlyIfMisused,
         LaunchFails, memory

LEMMA MoveStep ==
    ASSUME TaskInv, NEW t \in Tasks, NEW u \in Tasks, Move(t, u)
    PROVE  TaskInv'
<1>1. /\ h' = [h EXCEPT ![t] = NoHandle, ![u] = h[t]] /\ t # u
      /\ h'[t] = NoHandle /\ h'[u] = h[t]
      /\ \A v \in Tasks : v # t /\ v # u => h'[v] = h[v]
  BY DEF TaskInv, TaskTypeOK, Move
<1>2. TaskTypeOK'
  BY <1>1 DEF TaskInv, TaskTypeOK, Move, memory
<1>3. OneOwner' /\ HandlesAllocated'
  BY <1>1 DEF TaskInv, TaskTypeOK, OneOwner, HandlesAllocated, Move
<1> QED
  BY <1>2, <1>3 DEF TaskInv, StackIsRunning, WaitersWait, LiveFromResource,
                   Live, UndefinedOnlyIfMisused, Move, memory

LEMMA DropStep ==
    ASSUME TaskInv, NEW t \in Tasks, Drop(t)
    PROVE  TaskInv'
  BY DEF TaskInv, TaskTypeOK, OneOwner, StackIsRunning, HandlesAllocated,
         WaitersWait, LiveFromResource, Live, UndefinedOnlyIfMisused,
         Drop, memory

LEMMA ResumeStep ==
    ASSUME TaskInv, NEW t \in Tasks, resume(t), halted = "no"
    PROVE  TaskInv'
<1>1. CASE h[t] = NoHandle /\ UNCHANGED <<state, stack, halted, misused>>
  BY <1>1 DEF TaskInv, TaskTypeOK, OneOwner, StackIsRunning, HandlesAllocated,
              WaitersWait, LiveFromResource, Live, UndefinedOnlyIfMisused,
              resume, memory
<1>2. CASE /\ h[t] # NoHandle
           /\ misused' = (misused \/ state[h[t]] # "created")
           /\ Enter(h[t])
  <2>1. h[t] \in Frames /\ state[h[t]] # "none" /\ UNCHANGED <<memory, h>>
    BY <1>2 DEF TaskInv, TaskTypeOK, HandlesAllocated, resume
  <2>2. /\ state' \in [Frames -> States] /\ stack' \in Seq(Frames)
        /\ halted' \in {"no", "terminated", "undefined"}
        /\ StackIsRunning'
        /\ \A g \in Frames : state[g] # "none" => state'[g] # "none"
        /\ LiveFromResource => LiveFromResource'
        /\ \A g \in Frames : g # h[t] => state'[g] = state[g]
        /\ Suspended(h[t]) => halted' = halted
    BY <1>2, <2>1, EnterStep
  <2>3. misused' \in BOOLEAN
    BY <1>2
  <2>4. ~misused' => ~misused /\ state[h[t]] = "created"
    BY <1>2
  <2>5. TaskTypeOK'
    BY <2>1, <2>2, <2>3 DEF TaskInv, TaskTypeOK, resume, memory
  <2>6. OneOwner' /\ HandlesAllocated'
    BY <2>2 DEF TaskInv, TaskTypeOK, OneOwner, HandlesAllocated, resume
  <2>7. ~misused' => (WaitersWait /\ LiveFromResource)'
    BY <2>2, <2>4 DEF TaskInv, TaskTypeOK, WaitersWait, resume
  <2>8. UndefinedOnlyIfMisused'
    BY <2>2, <2>4 DEF UndefinedOnlyIfMisused, Suspended
  <2> QED
    BY <2>2, <2>5, <2>6, <2>7, <2>8 DEF TaskInv
<1> QED
  BY <1>1, <1>2 DEF resume

LEMMA DoneStep ==
    ASSUME TaskInv, NEW t \in Tasks, done(t), halted = "no"
    PROVE  TaskInv'
<1>1. misused' \in BOOLEAN /\ (~misused' => ~misused)
  <2>1. misused \in BOOLEAN
    BY DEF TaskInv, TaskTypeOK
  <2>2. misused' = misused \/ misused' = (misused \/ state[h[t]] # "created")
    BY DEF done
  <2> QED
    BY <2>1, <2>2
<1>2. halted' = "undefined" => misused'
  BY DEF done, Suspended
<1>3. halted' \in {"no", "terminated", "undefined"}
  BY DEF done
<1> QED
  BY <1>1, <1>2, <1>3
     DEF TaskInv, TaskTypeOK, OneOwner, StackIsRunning, HandlesAllocated,
         WaitersWait, LiveFromResource, Live, UndefinedOnlyIfMisused,
         done, memory

LEMMA WakeStep ==
    ASSUME TaskInv, NEW p \in Primitives, Wake(p), halted = "no"
    PROVE  TaskInv'
<1>1. /\ waiter[p] \in Frames /\ state[waiter[p]] # "none"
      /\ UNCHANGED <<memory, h>>
  BY DEF TaskInv, TaskTypeOK, HandlesAllocated, Wake
<1>2. /\ state' \in [Frames -> States] /\ stack' \in Seq(Frames)
      /\ halted' \in {"no", "terminated", "undefined"}
      /\ StackIsRunning'
      /\ \A g \in Frames : state[g] # "none" => state'[g] # "none"
      /\ LiveFromResource => LiveFromResource'
      /\ \A g \in Frames : g # waiter[p] => state'[g] = state[g]
      /\ Suspended(waiter[p]) => halted' = halted
  BY <1>1, EnterStep DEF Wake
<1>3. /\ waiter'[p] = NoHandle
      /\ \A q \in Primitives : q # p => waiter'[q] = waiter[q]
  BY DEF TaskInv, TaskTypeOK, Wake
<1>4. TaskTypeOK'
  BY <1>1, <1>2 DEF TaskInv, TaskTypeOK, Wake, memory
<1>5. OneOwner' /\ HandlesAllocated'
  BY <1>2, <1>3 DEF TaskInv, TaskTypeOK, OneOwner, HandlesAllocated, Wake
<1>6. ~misused' => (WaitersWait /\ LiveFromResource)'
  BY <1>2, <1>3 DEF TaskInv, TaskTypeOK, WaitersWait, Wake
<1>7. UndefinedOnlyIfMisused'
  BY <1>2 DEF TaskInv, WaitersWait, UndefinedOnlyIfMisused, Suspended, Wake
<1> QED
  BY <1>2, <1>4, <1>5, <1>6, <1>7 DEF TaskInv

LEMMA ForgetStep ==
    ASSUME TaskInv, NEW p \in Primitives, Forget(p)
    PROVE  TaskInv'
<1>1. /\ waiter'[p] = NoHandle
      /\ \A q \in Primitives : q # p => waiter'[q] = waiter[q]
  BY DEF TaskInv, TaskTypeOK, Forget
<1>2. TaskTypeOK'
  BY DEF TaskInv, TaskTypeOK, Forget, memory
<1>3. WaitersWait => WaitersWait'
  BY <1>1 DEF WaitersWait, Forget
<1>4. HandlesAllocated'
  BY <1>1 DEF TaskInv, HandlesAllocated, Forget
<1> QED
  BY <1>2, <1>3, <1>4
     DEF TaskInv, OneOwner, StackIsRunning, LiveFromResource, Live,
         UndefinedOnlyIfMisused, Forget, memory

LEMMA RecordStep ==
    ASSUME TaskInv, NEW p \in Primitives, stack # <<>>,
           waiter' = [waiter EXCEPT ![p] = Head(stack)],
           Goto(Head(stack), "waiting"),
           stack' = Tail(stack),
           UNCHANGED <<memory, h, misused, halted>>
    PROVE  TaskInv'
<1> DEFINE f == Head(stack)
<1>1. f \in Frames /\ state[f] = "running"
  BY Pop DEF TaskInv, TaskTypeOK, StackIsRunning
<1>2. /\ state' \in [Frames -> States] /\ state'[f] = "waiting"
      /\ \A g \in Frames : g # f => state'[g] = state[g]
  BY <1>1, OtherFrames DEF TaskInv, States
<1>3. stack' \in Seq(Frames) /\ StackIsRunning'
  BY LeaveKeepsStack DEF TaskInv, Goto
<1>4. /\ waiter'[p] = f
      /\ \A q \in Primitives : q # p => waiter'[q] = waiter[q]
  BY DEF TaskInv, TaskTypeOK
<1>5. TaskTypeOK'
  BY <1>1, <1>2, <1>3 DEF TaskInv, TaskTypeOK, memory
<1>6. OneOwner' /\ HandlesAllocated'
  BY <1>1, <1>2, <1>4 DEF TaskInv, TaskTypeOK, OneOwner, HandlesAllocated
<1>7. ASSUME WaitersWait PROVE WaitersWait'
  <2>1. \A q \in Primitives : waiter[q] # NoHandle => waiter[q] \in Frames
    BY DEF TaskInv, TaskTypeOK
  <2>2. \A q \in Primitives : waiter[q] # f
    BY <1>1, <1>7 DEF WaitersWait
  <2>3. \A q \in Primitives :
          waiter'[q] # NoHandle => state'[waiter'[q]] = "waiting"
    BY <1>2, <1>4, <1>7, <2>1, <2>2 DEF WaitersWait
  <2>4. \A q, r \in Primitives :
          waiter'[q] = waiter'[r] /\ waiter'[q] # NoHandle => q = r
    BY <1>4, <1>7, <2>2 DEF WaitersWait
  <2> QED
    BY <2>3, <2>4 DEF WaitersWait
<1>8. LiveFromResource => LiveFromResource'
  BY <1>1, <1>2 DEF LiveFromResource, Live, memory
<1> QED
  BY <1>3, <1>5, <1>6, <1>7, <1>8 DEF TaskInv, UndefinedOnlyIfMisused

LEMMA AwaitStep ==
    ASSUME TaskInv, NEW p \in Primitives, Await(p)
    PROVE  TaskInv'
<1>1. CASE halted' = "terminated" /\ UNCHANGED <<state, waiter, stack>>
  BY <1>1 DEF TaskInv, TaskTypeOK, OneOwner, StackIsRunning, HandlesAllocated,
              WaitersWait, LiveFromResource, Live, UndefinedOnlyIfMisused,
              Await, memory
<1>2. CASE /\ waiter' = [waiter EXCEPT ![p] = Head(stack)]
           /\ Goto(Head(stack), "waiting")
           /\ stack' = Tail(stack)
           /\ UNCHANGED halted
  BY <1>2, RecordStep DEF Await
<1> QED
  BY <1>1, <1>2 DEF Await

LEMMA ReturnStep ==
    ASSUME TaskInv, Return, halted = "no"
    PROVE  TaskInv'
<1> DEFINE f == Head(stack)
<1>1. f \in Frames /\ state[f] = "running" /\ UNCHANGED <<resource, origin>>
  BY Pop DEF TaskInv, TaskTypeOK, StackIsRunning, Return
<1>2. CASE /\ used' = [used EXCEPT ![resource] = @ - 1]
           /\ Goto(f, "freed") /\ stack' = Tail(stack) /\ UNCHANGED halted
  <2>1. /\ state' \in [Frames -> States] /\ state'[f] = "freed"
        /\ \A g \in Frames : g # f => state'[g] = state[g]
    BY <1>1, <1>2, OtherFrames DEF TaskInv, States
  <2>2. stack' \in Seq(Frames) /\ StackIsRunning'
    BY <1>2, LeaveKeepsStack DEF TaskInv, Return, Goto
  <2>3. TaskTypeOK'
    BY <1>1, <1>2, <2>1, <2>2 DEF TaskInv, TaskTypeOK, Return
  <2>4. OneOwner' /\ HandlesAllocated'
    BY <1>1, <2>1 DEF TaskInv, TaskTypeOK, OneOwner, HandlesAllocated, Return
  <2>5. WaitersWait => WaitersWait'
    BY <1>1, <2>1 DEF TaskInv, TaskTypeOK, WaitersWait, Return
  <2>6. LiveFromResource => LiveFromResource'
    BY <1>1, <2>1 DEF LiveFromResource, Live
  <2> QED
    BY <1>2, <2>2, <2>3, <2>4, <2>5, <2>6
       DEF TaskInv, UndefinedOnlyIfMisused, Return
<1>3. CASE /\ halted' = "undefined" /\ resource # origin[f]
           /\ UNCHANGED <<used, state, stack>>
  <2>1. misused /\ misused' = misused
    BY <1>1, <1>3 DEF TaskInv, LiveFromResource, Live, Return
  <2> QED
    BY <1>1, <1>3, <2>1
       DEF TaskInv, TaskTypeOK, OneOwner, StackIsRunning, HandlesAllocated,
           UndefinedOnlyIfMisused, Return
<1>4. CASE halted' = "terminated" /\ UNCHANGED <<used, state, stack>>
  BY <1>1, <1>4
     DEF TaskInv, TaskTypeOK, OneOwner, StackIsRunning, HandlesAllocated,
         WaitersWait, LiveFromResource, Live, UndefinedOnlyIfMisused, Return
<1> QED
  BY <1>2, <1>3, <1>4 DEF Return

LEMMA ThrowStep ==
    ASSUME TaskInv, Throw
    PROVE  TaskInv'
  BY DEF TaskInv, TaskTypeOK, OneOwner, StackIsRunning, HandlesAllocated,
         WaitersWait, LiveFromResource, Live, UndefinedOnlyIfMisused,
         Throw, memory
-----------------------------------------------------------------------------
(***************************************************************************)
(* The inductive invariant of the tasks holds in every program.            *)
(***************************************************************************)
THEOREM TaskInvariant == TaskSpec => []TaskInv
<1>1. TaskInit => TaskInv
  <2> SUFFICES ASSUME TaskInit PROVE TaskInv
    OBVIOUS
  <2>1. TaskTypeOK
    <3>1. /\ PLATFORM_HOST \in BOOLEAN /\ resource \in Resources
          /\ origin \in [Frames -> Resources]
      BY ResourceAssumption DEF TaskInit
    <3>2. /\ state \in [Frames -> States]
          /\ h \in [Tasks -> Frames \cup {NoHandle, NoTask}]
          /\ waiter \in [Primitives -> Frames \cup {NoHandle}]
      BY DEF TaskInit, States
    <3>3. used \in [Resources -> Int]
      BY DEF TaskInit
    <3>4. stack \in Seq(Frames)
      BY DEF TaskInit
    <3>5. halted \in {"no", "terminated", "undefined"} /\ misused \in BOOLEAN
      BY DEF TaskInit
    <3> QED
      BY <3>1, <3>2, <3>3, <3>4, <3>5 DEF TaskTypeOK
  <2>2. StackIsRunning
    BY DEF TaskInit, StackIsRunning
  <2>3. OneOwner /\ HandlesAllocated /\ WaitersWait /\ LiveFromResource
    BY DEF TaskInit, OneOwner, HandlesAllocated, WaitersWait,
           LiveFromResource, Live
  <2> QED
    BY <2>1, <2>2, <2>3 DEF TaskInv, TaskInit, UndefinedOnlyIfMisused
<1>2. TaskInv /\ [TaskNext]_taskVars => TaskInv'
  <2> SUFFICES ASSUME TaskInv, [TaskNext]_taskVars PROVE TaskInv'
    OBVIOUS
  <2>1. CASE TaskNext
    BY <2>1, SetResourceStep, LaunchStep, LaunchFailsStep, MoveStep, DropStep,
       ResumeStep, DoneStep, WakeStep, ForgetStep, AwaitStep, ReturnStep,
       ThrowStep DEF TaskNext
  <2>2. CASE UNCHANGED taskVars
    BY <2>2 DEF TaskInv, TaskTypeOK, OneOwner, StackIsRunning,
                HandlesAllocated, WaitersWait, LiveFromResource, Live,
                UndefinedOnlyIfMisused, taskVars, memory
  <2> QED
    BY <2>1, <2>2
<1> QED
  BY <1>1, <1>2, PTL DEF TaskSpec

(***************************************************************************)
(* A program that leaves a task alone once it has been resumed, and the    *)
(* resource while frames live, never uses a handle whose frame is gone or  *)
(* runs, and returns each frame where it came from (coro_task.hpp:34-58).  *)
(***************************************************************************)
THEOREM RulesSuffice == TaskSpec => []UndefinedOnlyIfMisused
  BY TaskInvariant, PTL DEF TaskInv

(***************************************************************************)
(* Two task objects never hold the same frame (coro_task.hpp:46-49).       *)
(***************************************************************************)
THEOREM FramesHaveOneOwner == TaskSpec => []OneOwner
  BY TaskInvariant, PTL DEF TaskInv

(***************************************************************************)
(* Type correctness of the tasks, frames and handles.                      *)
(***************************************************************************)
THEOREM TaskTypeCorrect == TaskSpec => []TaskTypeOK
  BY TaskInvariant, PTL DEF TaskInv
-----------------------------------------------------------------------------
(***************************************************************************)
(* Leaks.  Reachable is a matter of h, waiter and stack: the lemmas say    *)
(* which changes of them keep a frame in reach.                            *)
(***************************************************************************)
Kept(f) == Reachable(f) => Reachable(f)'

LEMMA SameHolders ==
    ASSUME NEW f \in Frames, UNCHANGED <<waiter, stack>>,
           \A t \in Tasks : h[t] = f => \E u \in Tasks : h'[u] = f
    PROVE  Kept(f)
  BY DEF Kept, Reachable

LEMMA EnterReaches ==
    ASSUME TaskInv, NEW f \in Frames, Live(f), NEW g \in Frames, Enter(g),
           UNCHANGED h,
           \A p \in Primitives : waiter[p] = f => waiter'[p] = f \/ g = f
    PROVE  Kept(f)
<1>1. stack \in Seq(Frames) /\ Len(stack) \in Nat
  BY DEF TaskInv, TaskTypeOK
<1>2. CASE Suspended(g) /\ stack' = <<g>> \o stack
  <2>1. /\ Len(stack') = Len(stack) + 1 /\ stack'[1] = g
        /\ \A i \in 2 .. Len(stack) + 1 : stack'[i] = stack[i - 1]
    BY <1>1, <1>2, Push
  <2>2. ASSUME NEW i \in 1 .. Len(stack), stack[i] = f
        PROVE  i + 1 \in 1 .. Len(stack') /\ stack'[i + 1] = f
    BY <1>1, <2>1, <2>2
  <2>3. g = f => 1 \in 1 .. Len(stack') /\ stack'[1] = f
    BY <1>1, <2>1
  <2> QED
    BY <2>2, <2>3 DEF Kept, Reachable
<1>3. CASE ~Suspended(g) /\ UNCHANGED <<state, stack>>
  <2>1. g = f => \E i \in 1 .. Len(stack) : stack[i] = f
    BY <1>3 DEF TaskInv, StackIsRunning, Suspended, Live
  <2> QED
    BY <1>3, <2>1 DEF Kept, Reachable
<1> QED
  BY <1>2, <1>3 DEF Enter

LEMMA LeaveReaches ==
    ASSUME TaskInv, NEW f \in Frames, stack # <<>>, stack' = Tail(stack),
           UNCHANGED h,
           \A p \in Primitives : waiter[p] = f => waiter'[p] = f,
           f = Head(stack) => \E p \in Primitives : waiter'[p] = f
    PROVE  Kept(f)
<1>1. stack \in Seq(Frames)
  BY DEF TaskInv, TaskTypeOK
<1>2. /\ Len(stack) \in Nat /\ Len(stack') = Len(stack) - 1
      /\ Head(stack) = stack[1]
      /\ \A i \in 1 .. Len(stack) - 1 : stack'[i] = stack[i + 1]
  BY <1>1, Pop
<1>3. ASSUME NEW i \in 1 .. Len(stack), stack[i] = f, i # 1
      PROVE  i - 1 \in 1 .. Len(stack') /\ stack'[i - 1] = f
  BY <1>2, <1>3
<1> QED
  BY <1>2, <1>3 DEF Kept, Reachable

(***************************************************************************)
(* A live frame goes out of reach only when a task object is dropped, a    *)
(* timer or flag forgets its waiter (coro_task.hpp:46-49, coro_timer.hpp   *)
(* 24-27, async_flag.hpp:12-14), or a second one takes the first one's     *)
(* place, whatever rules the program breaks.                               *)
(***************************************************************************)
THEOREM LeaksAreTheirs == TaskSpec => LeaksOnlyByDroppingOrForgetting
<1> DEFINE Theirs == \/ \E t \in Tasks : Drop(t)
                     \/ \E p \in Primitives : Forget(p) \/ Replaces(p)
<1>1. TaskInv /\ [TaskNext]_taskVars
        => [(\E f \in Frames : /\ Live(f) /\ Reachable(f)
                               /\ Live(f)' /\ ~Reachable(f)') => Theirs
           ]_taskVars
  <2> SUFFICES ASSUME TaskInv, TaskNext,
                      NEW f \in Frames, Live(f), Live(f)', ~Theirs
               PROVE  Kept(f)
    BY DEF Kept
  <2>1. CASE \E r \in Resources : set_resource(r)
    BY <2>1, SameHolders DEF set_resource
  <2>2. CASE \E t \in Tasks, g \in Frames : launch_task(t, g)
    <3> PICK t \in Tasks, g \in Frames : launch_task(t, g)
      BY <2>2
    <3>1. \A u \in Tasks : h[u] = f => h'[u] = f
      BY DEF launch_task, TaskInv, TaskTypeOK
    <3> QED
      BY <3>1, SameHolders DEF launch_task
  <2>3. CASE LaunchFails
    BY <2>3, SameHolders DEF LaunchFails
  <2>4. CASE \E t, u \in Tasks : Move(t, u)
    <3> PICK t \in Tasks, u \in Tasks : Move(t, u)
      BY <2>4
    <3>1. h'[u] = h[t] /\ \A v \in Tasks : v # t /\ v # u => h'[v] = h[v]
      BY DEF Move, TaskInv, TaskTypeOK
    <3>2. \A v \in Tasks : h[v] = f => \E w \in Tasks : h'[w] = f
      BY <3>1 DEF Move
    <3> QED
      BY <3>2, SameHolders DEF Move
  <2>5. CASE \E t \in Tasks : resume(t)
    <3> PICK t \in Tasks : resume(t)
      BY <2>5
    <3>1. CASE h[t] = NoHandle
      BY <3>1, SameHolders DEF resume
    <3>2. CASE h[t] # NoHandle
      <4>1. h[t] \in Frames /\ Enter(h[t]) /\ UNCHANGED <<h, waiter>>
        BY <3>2 DEF resume, TaskInv, TaskTypeOK
      <4> QED
        BY <4>1, EnterReaches
    <3> QED
      BY <3>1, <3>2
  <2>6. CASE \E t \in Tasks : done(t)
    BY <2>6, SameHolders DEF done
  <2>7. CASE \E p \in Primitives : Wake(p)
    <3> PICK p \in Primitives : Wake(p)
      BY <2>7
    <3>1. /\ waiter[p] \in Frames /\ Enter(waiter[p]) /\ UNCHANGED h
          /\ \A q \in Primitives : q # p => waiter'[q] = waiter[q]
      BY DEF Wake, TaskInv, TaskTypeOK
    <3>2. \A q \in Primitives :
            waiter[q] = f => waiter'[q] = f \/ waiter[p] = f
      BY <3>1
    <3> QED
      BY <3>1, <3>2, EnterReaches
  <2>8. CASE \E p \in Primitives : Await(p)
    <3> PICK p \in Primitives : Await(p)
      BY <2>8
    <3>1. /\ stack # <<>> /\ stack' = Tail(stack) /\ UNCHANGED h
          /\ waiter[p] = NoHandle /\ waiter'[p] = Head(stack)
          /\ \A q \in Primitives : q # p => waiter'[q] = waiter[q]
      BY DEF Await, Replaces, TaskInv, TaskTypeOK
    <3>2. \A q \in Primitives : waiter[q] = f => waiter'[q] = f
      BY <3>1
    <3> QED
      BY <3>1, <3>2, LeaveReaches
  <2>9. CASE Return
    <3>1. CASE UNCHANGED stack
      BY <2>9, <3>1, SameHolders DEF Return
    <3>2. CASE Goto(Head(stack), "freed") /\ stack' = Tail(stack)
      <4>1. Head(stack) \in Frames
        BY <2>9, Pop DEF Return, TaskInv, TaskTypeOK
      <4>2. state'[Head(stack)] = "freed"
        BY <3>2, <4>1 DEF Goto, TaskInv, TaskTypeOK
      <4>3. f # Head(stack)
        BY <4>2 DEF Live
      <4>4. stack # <<>> /\ UNCHANGED <<h, waiter>>
        BY <2>9 DEF Return
      <4> QED
        BY <3>2, <4>3, <4>4, LeaveReaches
    <3> QED
      BY <2>9, <3>1, <3>2 DEF Return
  <2>10. CASE Throw
    BY <2>10, SameHolders DEF Throw
  <2> QED
    BY <2>1, <2>2, <2>3, <2>4, <2>5, <2>6, <2>7, <2>8, <2>9, <2>10
       DEF TaskNext
<1> QED
  BY <1>1, TaskInvariant, PTL DEF TaskSpec, LeaksOnlyByDroppingOrForgetting
-----------------------------------------------------------------------------
(***************************************************************************)
(* Memory.  The frames launched so far are finitely many, whatever Frames  *)
(* is, so that those of a resource can be counted.                         *)
(***************************************************************************)
LiveFrom(r)     == {f \in Frames : Live(f) /\ origin[f] = r}
LaunchedFrom(r) == {f \in Frames : state[f] # "none" /\ origin[f] = r}

MemoryInv ==
    /\ IsFiniteSet({f \in Frames : state[f] # "none"})
    /\ MemoryAccounted
    /\ PoolOnlyFills

LEMMA FramesAreFinite ==
    ASSUME MemoryInv, NEW r \in Resources
    PROVE  IsFiniteSet(LiveFrom(r)) /\ IsFiniteSet(LaunchedFrom(r))
<1>1. /\ LiveFrom(r) \subseteq {f \in Frames : state[f] # "none"}
      /\ LaunchedFrom(r) \subseteq {f \in Frames : state[f] # "none"}
  BY DEF LiveFrom, LaunchedFrom, Live
<1> QED
  BY <1>1, FS_Subset DEF MemoryInv

\* A step that allocates and frees nothing.
LEMMA NothingAllocated ==
    ASSUME MemoryInv, UNCHANGED memory,
           \A f \in Frames : /\ (state'[f] = "none") <=> (state[f] = "none")
                             /\ Live(f)' <=> Live(f)
    PROVE  MemoryInv'
<1>1. {f \in Frames : state'[f] # "none"} = {f \in Frames : state[f] # "none"}
  OBVIOUS
<1>2. \A r \in Resources : /\ LiveFrom(r)' = LiveFrom(r)
                           /\ LaunchedFrom(r)' = LaunchedFrom(r)
  BY DEF LiveFrom, LaunchedFrom, memory
<1>3. MemoryAccounted'
  BY <1>2 DEF MemoryInv, MemoryAccounted, LiveFrom, memory
<1>4. PoolOnlyFills'
  BY <1>2 DEF MemoryInv, PoolOnlyFills, LaunchedFrom, memory
<1> QED
  BY <1>1, <1>3, <1>4 DEF MemoryInv

LEMMA LaunchAllocates ==
    ASSUME TaskInv, MemoryInv, NEW t \in Tasks, NEW f \in Frames,
           launch_task(t, f)
    PROVE  MemoryInv'
<1>1. /\ state[f] = "none" /\ state'[f] = "created"
      /\ \A g \in Frames : g # f => state'[g] = state[g]
  BY OtherFrames DEF TaskInv, launch_task, States
<1>2. /\ resource \in Resources
      /\ origin'[f] = resource
      /\ \A g \in Frames : g # f => origin'[g] = origin[g]
      /\ used'[resource] = used[resource] + 1
      /\ \A r \in Resources : r # resource => used'[r] = used[r]
      /\ PLATFORM_HOST' = PLATFORM_HOST
  BY DEF TaskInv, TaskTypeOK, launch_task
<1>3. {g \in Frames : state'[g] # "none"}
        = {g \in Frames : state[g] # "none"} \cup {f}
  BY <1>1
<1>4. IsFiniteSet({g \in Frames : state'[g] # "none"})
  BY <1>3, FS_AddElement DEF MemoryInv
<1>5. \A r \in Resources : r = resource =>
        /\ LiveFrom(r)' = LiveFrom(r) \cup {f} /\ f \notin LiveFrom(r)
        /\ LaunchedFrom(r)' = LaunchedFrom(r) \cup {f}
        /\ f \notin LaunchedFrom(r)
  BY <1>1, <1>2 DEF LiveFrom, LaunchedFrom, Live
<1>6. \A r \in Resources : r # resource =>
        LiveFrom(r)' = LiveFrom(r) /\ LaunchedFrom(r)' = LaunchedFrom(r)
  BY <1>1, <1>2 DEF LiveFrom, LaunchedFrom, Live
<1>7. \A r \in Resources : r = resource =>
        /\ Cardinality(LiveFrom(r)') = Cardinality(LiveFrom(r)) + 1
        /\ Cardinality(LaunchedFrom(r)') = Cardinality(LaunchedFrom(r)) + 1
  BY <1>5, FramesAreFinite, FS_AddElement
<1>8. MemoryAccounted'
  <2>1. \A r \in Resources : used[r] = Cardinality(LiveFrom(r))
    BY DEF MemoryInv, MemoryAccounted, LiveFrom
  <2>2. \A r \in Resources : used'[r] = Cardinality(LiveFrom(r)')
    BY <1>2, <1>6, <1>7, <2>1
  <2> QED
    BY <2>2 DEF MemoryAccounted, LiveFrom
<1>9. PoolOnlyFills'
  <2> SUFFICES ASSUME ~PLATFORM_HOST
               PROVE  \A r \in Resources :
                        used'[r] = Cardinality(LaunchedFrom(r)')
    BY <1>2 DEF PoolOnlyFills, LaunchedFrom
  <2>1. \A r \in Resources : used[r] = Cardinality(LaunchedFrom(r))
    BY DEF MemoryInv, PoolOnlyFills, LaunchedFrom
  <2> QED
    BY <1>2, <1>6, <1>7, <2>1
<1> QED
  BY <1>4, <1>8, <1>9 DEF MemoryInv

LEMMA ReturnFrees ==
    ASSUME TaskInv, MemoryInv, Return
    PROVE  MemoryInv'
<1> DEFINE f == Head(stack)
<1>1. f \in Frames /\ state[f] = "running"
  BY Pop DEF TaskInv, TaskTypeOK, StackIsRunning, Return
<1>2. UNCHANGED <<PLATFORM_HOST, resource, origin>> /\ resource \in Resources
  BY DEF TaskInv, TaskTypeOK, Return
<1>3. CASE UNCHANGED <<used, state>>
  BY <1>2, <1>3, NothingAllocated DEF memory, Live
<1>4. CASE /\ PLATFORM_HOST /\ resource = origin[f]
           /\ used' = [used EXCEPT ![resource] = @ - 1]
           /\ Goto(f, "freed")
  <2>1. /\ state'[f] = "freed"
        /\ \A g \in Frames : g # f => state'[g] = state[g]
    BY <1>1, <1>4, OtherFrames DEF TaskInv, States
  <2>2. /\ used'[resource] = used[resource] - 1
        /\ \A r \in Resources : r # resource => used'[r] = used[r]
    BY <1>2, <1>4 DEF TaskInv, TaskTypeOK
  <2>3. {g \in Frames : state'[g] # "none"}
          = {g \in Frames : state[g] # "none"}
    BY <1>1, <2>1
  <2>4. \A r \in Resources : r = resource =>
          LiveFrom(r)' = LiveFrom(r) \ {f} /\ f \in LiveFrom(r)
    BY <1>1, <1>2, <1>4, <2>1 DEF LiveFrom, Live
  <2>5. \A r \in Resources : r # resource => LiveFrom(r)' = LiveFrom(r)
    BY <1>1, <1>2, <1>4, <2>1 DEF LiveFrom, Live
  <2>6. \A r \in Resources : r = resource =>
          Cardinality(LiveFrom(r)') = Cardinality(LiveFrom(r)) - 1
    BY <2>4, FramesAreFinite, FS_RemoveElement
  <2>7. MemoryAccounted'
    <3>1. \A r \in Resources : used[r] = Cardinality(LiveFrom(r))
      BY DEF MemoryInv, MemoryAccounted, LiveFrom
    <3>2. \A r \in Resources : used'[r] = Cardinality(LiveFrom(r)')
      BY <2>2, <2>5, <2>6, <3>1
    <3> QED
      BY <3>2 DEF MemoryAccounted, LiveFrom
  <2> QED
    BY <1>2, <1>4, <2>3, <2>7 DEF MemoryInv, PoolOnlyFills
<1> QED
  BY <1>3, <1>4 DEF Return

\* Entering and suspending leave a live frame live.
LEMMA EnterAllocatesNothing ==
    ASSUME TaskInv, MemoryInv, NEW f \in Frames, Enter(f), UNCHANGED memory
    PROVE  MemoryInv'
<1>1. CASE Suspended(f) /\ Goto(f, "running")
  <2>1. /\ state'[f] = "running"
        /\ \A g \in Frames : g # f => state'[g] = state[g]
    BY <1>1, OtherFrames DEF TaskInv, States
  <2> QED
    BY <1>1, <2>1, NothingAllocated DEF Live, Suspended
<1>2. CASE UNCHANGED state
  BY <1>2, NothingAllocated DEF Live
<1> QED
  BY <1>1, <1>2 DEF Enter

LEMMA AwaitAllocatesNothing ==
    ASSUME TaskInv, MemoryInv, NEW p \in Primitives, Await(p)
    PROVE  MemoryInv'
<1>1. UNCHANGED memory
  BY DEF Await
<1>2. CASE UNCHANGED state
  BY <1>1, <1>2, NothingAllocated DEF Live
<1>3. CASE Goto(Head(stack), "waiting")
  <2>1. Head(stack) \in Frames /\ state[Head(stack)] = "running"
    BY Pop DEF TaskInv, TaskTypeOK, StackIsRunning, Await
  <2>2. /\ state'[Head(stack)] = "waiting"
        /\ \A g \in Frames : g # Head(stack) => state'[g] = state[g]
    BY <1>3, <2>1, OtherFrames DEF TaskInv, States
  <2> QED
    BY <1>1, <2>1, <2>2, NothingAllocated DEF Live
<1> QED
  BY <1>2, <1>3 DEF Await

LEMMA MemoryInvariant == TaskSpec => []MemoryInv
<1>1. TaskInit => MemoryInv
  <2> SUFFICES ASSUME TaskInit PROVE MemoryInv
    OBVIOUS
  <2>1. {f \in Frames : state[f] # "none"} = {}
    BY DEF TaskInit
  <2>2. \A r \in Resources : LiveFrom(r) = {} /\ LaunchedFrom(r) = {}
    BY DEF TaskInit, LiveFrom, LaunchedFrom, Live
  <2>3. \A r \in Resources : used[r] = 0
    BY DEF TaskInit
  <2>4. IsFiniteSet({}) /\ Cardinality({}) = 0
    BY FS_EmptySet
  <2>5. MemoryAccounted
    BY <2>2, <2>3, <2>4 DEF MemoryAccounted, LiveFrom
  <2>6. PoolOnlyFills
    BY <2>2, <2>3, <2>4 DEF PoolOnlyFills, LaunchedFrom
  <2> QED
    BY <2>1, <2>4, <2>5, <2>6 DEF MemoryInv
<1>2. TaskInv /\ MemoryInv /\ [TaskNext]_taskVars => MemoryInv'
  <2> SUFFICES ASSUME TaskInv, MemoryInv, [TaskNext]_taskVars
               PROVE  MemoryInv'
    OBVIOUS
  <2>1. CASE \E r \in Resources : set_resource(r)
    <3>1. UNCHANGED <<PLATFORM_HOST, state, origin, used>>
      BY <2>1 DEF set_resource
    <3> QED
      BY <3>1 DEF MemoryInv, MemoryAccounted, PoolOnlyFills, Live
  <2>2. CASE \E t \in Tasks, f \in Frames : launch_task(t, f)
    BY <2>2, LaunchAllocates
  <2>3. CASE \/ LaunchFails \/ Throw \/ UNCHANGED taskVars
             \/ \E t, u \in Tasks : Move(t, u)
             \/ \E t \in Tasks : Drop(t) \/ done(t)
             \/ \E p \in Primitives : Forget(p)
    <3>1. UNCHANGED <<memory, state>>
      BY <2>3 DEF LaunchFails, Throw, Move, Drop, done, Forget, taskVars
    <3> QED
      BY <3>1, NothingAllocated DEF Live
  <2>4. CASE \E t \in Tasks : resume(t)
    <3> PICK t \in Tasks : resume(t)
      BY <2>4
    <3>1. CASE h[t] = NoHandle
      BY <3>1, NothingAllocated DEF resume, Live
    <3>2. CASE h[t] # NoHandle
      <4>1. h[t] \in Frames /\ Enter(h[t]) /\ UNCHANGED memory
        BY <3>2 DEF resume, TaskInv, TaskTypeOK
      <4> QED
        BY <4>1, EnterAllocatesNothing
    <3> QED
      BY <3>1, <3>2
  <2>5. CASE \E p \in Primitives : Wake(p)
    <3> PICK p \in Primitives : Wake(p)
      BY <2>5
    <3>1. waiter[p] \in Frames /\ Enter(waiter[p]) /\ UNCHANGED memory
      BY DEF Wake, TaskInv, TaskTypeOK
    <3> QED
      BY <3>1, EnterAllocatesNothing
  <2>6. CASE \E p \in Primitives : Await(p)
    BY <2>6, AwaitAllocatesNothing
  <2>7. CASE Return
    BY <2>7, ReturnFrees
  <2> QED
    BY <2>1, <2>2, <2>3, <2>4, <2>5, <2>6, <2>7 DEF TaskNext
<1> QED
  BY <1>1, <1>2, TaskInvariant, PTL DEF TaskSpec

(***************************************************************************)
(* A resource has given out the memory of its live frames and no more,     *)
(* whatever rules the program breaks: an ended coroutine costs nothing,    *)
(* and no frame is paid for twice (coro_task.hpp:30-41).                   *)
(***************************************************************************)
THEOREM FramesAreAccounted == TaskSpec => []MemoryAccounted
  BY MemoryInvariant, PTL DEF MemoryInv

(***************************************************************************)
(* Off the host a resource has given out one frame for every launch there  *)
(* has been, since operator delete never returns one (coro_task.hpp:34-41).*)
(***************************************************************************)
THEOREM TargetPoolOnlyFills == TaskSpec => []PoolOnlyFills
  BY MemoryInvariant, PTL DEF MemoryInv
=============================================================================
