--------------------------- MODULE AsyncFlagProofs ---------------------------
(***************************************************************************)
(* Proofs about AsyncFlag, for any number of flags and coroutines.         *)
(***************************************************************************)
EXTENDS AsyncFlag, TLAPS

USE NoFlagAssumption, NoHandleAssumption

-----------------------------------------------------------------------------
\* Calling into a coroutine puts it on top of the stack.
LEMMA Push ==
    ASSUME NEW s \in Seq(Coroutines), NEW c \in Coroutines
    PROVE  /\ <<c>> \o s \in Seq(Coroutines)
           /\ Len(<<c>> \o s) = Len(s) + 1
           /\ (<<c>> \o s)[1] = c
           /\ \A i \in 2 .. Len(s) + 1 : (<<c>> \o s)[i] = s[i - 1]
  OBVIOUS

\* A suspension takes the top off, and leaves the rest in its order.
LEMMA Pop ==
    ASSUME NEW s \in Seq(Coroutines), s # <<>>
    PROVE  /\ Tail(s) \in Seq(Coroutines)
           /\ Len(s) >= 1 /\ Len(Tail(s)) = Len(s) - 1
           /\ Head(s) = s[1] /\ Head(s) \in Coroutines
           /\ \A i \in 1 .. Len(s) - 1 : Tail(s)[i] = s[i + 1]
  OBVIOUS

\* What the steps need to know of a state with the invariant.
LEMMA FlagFacts ==
    ASSUME FlagInv
    PROVE  /\ stack \in Seq(Coroutines) /\ Len(stack) \in Nat
           /\ \A i \in 1 .. Len(stack) : stack[i] \in Coroutines
           /\ ApplicationRuns => \A c \in Coroutines : state[c] # "resume"
<1>1. stack \in Seq(Coroutines) /\ Len(stack) \in Nat
  BY DEF FlagInv, FlagTypeOK
<1>2. \A i \in 1 .. Len(stack) : stack[i] \in Coroutines
  BY <1>1
<1>3. ASSUME ApplicationRuns, NEW c \in Coroutines, state[c] = "resume"
      PROVE  FALSE
  <2>1. PICK i \in 1 .. Len(stack) : stack[i] = c
    BY <1>3 DEF FlagInv, RunningOnStack
  <2>2. stack # <<>> /\ Head(stack) = stack[1]
    BY <1>1, <2>1, Pop
  <2>3. i # 1
    BY <1>3, <2>1, <2>2 DEF ApplicationRuns
  <2>4. i \in 2 .. Len(stack)
    BY <1>1, <2>1, <2>3
  <2> QED
    BY <1>3, <2>1, <2>4 DEF FlagInv, CallersInBody
<1> QED
  BY <1>1, <1>2, <1>3

\* The stack's part of the invariant, kept when a coroutine that is not on
\* it is entered while the application's own code runs.
LEMMA EnterKeepsStack ==
    ASSUME FlagInv, ApplicationRuns,
           NEW c \in Coroutines, NEW s \in {"body", "resume"},
           state[c] \in {"fresh", "parked"},
           state' = [state EXCEPT ![c] = s],
           stack' = <<c>> \o stack
    PROVE  EnteredOnce' /\ CallersInBody' /\ RunningOnStack'
<1>1. /\ stack \in Seq(Coroutines) /\ Len(stack) \in Nat
      /\ Len(stack') = Len(stack) + 1
      /\ stack'[1] = c
      /\ \A i \in 2 .. Len(stack) + 1 : stack'[i] = stack[i - 1]
      /\ \A i \in 2 .. Len(stack) + 1 : i - 1 \in 1 .. Len(stack)
  BY FlagFacts, Push
<1>2. /\ state'[c] = s
      /\ \A d \in Coroutines : d # c => state'[d] = state[d]
  BY DEF FlagInv, FlagTypeOK
<1>3. \A i \in 1 .. Len(stack) : /\ state[stack[i]] = "body"
                                 /\ stack[i] # c /\ stack[i] \in Coroutines
  BY FlagFacts DEF FlagInv, EnteredOnce
<1>4. EnteredOnce'
  <2>1. \A i, j \in 1 .. Len(stack') : stack'[i] = stack'[j] => i = j
    <3> SUFFICES ASSUME NEW i \in 1 .. Len(stack'), NEW j \in 1 .. Len(stack'),
                        stack'[i] = stack'[j]
                 PROVE  i = j
      OBVIOUS
    <3>1. i = 1 \/ i \in 2 .. Len(stack) + 1
      BY <1>1
    <3>2. j = 1 \/ j \in 2 .. Len(stack) + 1
      BY <1>1
    <3>3. ASSUME i \in 2 .. Len(stack) + 1, j \in 2 .. Len(stack) + 1
          PROVE  i = j
      <4>1. /\ i - 1 \in 1 .. Len(stack) /\ j - 1 \in 1 .. Len(stack)
            /\ stack[i - 1] = stack[j - 1]
        BY <1>1, <3>3
      <4>2. i - 1 = j - 1
        BY <4>1 DEF FlagInv, EnteredOnce
      <4> QED
        BY <3>3, <4>2
    <3> QED
      BY <1>1, <1>3, <3>1, <3>2, <3>3
  <2>2. \A i \in 1 .. Len(stack') : state'[stack'[i]] \in {"body", "resume"}
    BY <1>1, <1>2, <1>3
  <2> QED
    BY <2>1, <2>2 DEF EnteredOnce
<1>5. CallersInBody'
  BY <1>1, <1>2, <1>3 DEF CallersInBody
<1>6. RunningOnStack'
  <2> SUFFICES ASSUME NEW d \in Coroutines, state'[d] \in {"body", "resume"}
               PROVE  \E i \in 1 .. Len(stack') : stack'[i] = d
    BY DEF RunningOnStack
  <2>1. CASE d = c
    BY <1>1, <2>1
  <2>2. CASE d # c
    <3>1. PICK i \in 1 .. Len(stack) : stack[i] = d
      BY <1>2, <2>2 DEF FlagInv, RunningOnStack
    <3>2. i + 1 \in 2 .. Len(stack) + 1 /\ (i + 1) - 1 = i
      BY <1>1, <3>1
    <3>3. stack'[i + 1] = stack[i]
      BY <1>1, <3>2
    <3>4. i + 1 \in 1 .. Len(stack')
      BY <1>1, <3>1
    <3> QED
      BY <3>1, <3>3, <3>4
  <2> QED
    BY <2>1, <2>2
<1> QED
  BY <1>4, <1>5, <1>6

\* Kept when the innermost coroutine suspends or ends, and may take the
\* place of another one that is suspended.
LEMMA LeaveKeepsStack ==
    ASSUME FlagInv,
           NEW c \in Coroutines,
           Runs(c), state[c] = "body",
           state'[c] \in {"parked", "done"},
           \A d \in Coroutines :
             \/ d = c
             \/ state'[d] = state[d]
             \/ state[d] = "parked" /\ state'[d] = "replaced",
           stack' = Tail(stack)
    PROVE  EnteredOnce' /\ CallersInBody' /\ RunningOnStack'
<1>1. /\ stack \in Seq(Coroutines) /\ Len(stack) \in Nat /\ Len(stack) >= 1
      /\ Len(stack') = Len(stack) - 1
      /\ stack[1] = c
      /\ \A i \in 1 .. Len(stack) - 1 : stack'[i] = stack[i + 1]
      /\ \A i \in 1 .. Len(stack) - 1 : i + 1 \in 2 .. Len(stack)
  BY FlagFacts, Pop DEF Runs
<1>2. \A d \in Coroutines :
         /\ d # c /\ state[d] # "parked" => state'[d] = state[d]
         /\ state'[d] \in {"body", "resume"} => d # c /\ state'[d] = state[d]
  OBVIOUS
<1>3. \A i \in 2 .. Len(stack) : /\ state[stack[i]] = "body"
                                 /\ stack[i] # c /\ stack[i] \in Coroutines
  <2> SUFFICES ASSUME NEW i \in 2 .. Len(stack)
               PROVE  /\ state[stack[i]] = "body"
                      /\ stack[i] # c /\ stack[i] \in Coroutines
    OBVIOUS
  <2>1. i \in 1 .. Len(stack) /\ 1 \in 1 .. Len(stack) /\ i # 1
    BY <1>1
  <2>2. stack[i] \in Coroutines
    BY <2>1, FlagFacts
  <2>3. stack[i] # stack[1]
    BY <2>1 DEF FlagInv, EnteredOnce
  <2> QED
    BY <1>1, <2>2, <2>3 DEF FlagInv, CallersInBody
<1>4. EnteredOnce'
  <2>1. ASSUME NEW i \in 1 .. Len(stack'), NEW j \in 1 .. Len(stack'),
               stack'[i] = stack'[j]
        PROVE  i = j
    <3>1. /\ i + 1 \in 1 .. Len(stack) /\ j + 1 \in 1 .. Len(stack)
          /\ stack[i + 1] = stack[j + 1]
      BY <1>1, <2>1
    <3>2. i + 1 = j + 1
      BY <3>1 DEF FlagInv, EnteredOnce
    <3> QED
      BY <1>1, <3>2
  <2>2. \A i \in 1 .. Len(stack') : state'[stack'[i]] \in {"body", "resume"}
    BY <1>1, <1>2, <1>3
  <2> QED
    BY <2>1, <2>2 DEF EnteredOnce
<1>5. CallersInBody'
  BY <1>1, <1>2, <1>3 DEF CallersInBody
<1>6. RunningOnStack'
  <2> SUFFICES ASSUME NEW d \in Coroutines, state'[d] \in {"body", "resume"}
               PROVE  \E i \in 1 .. Len(stack') : stack'[i] = d
    BY DEF RunningOnStack
  <2>1. d # c /\ state[d] \in {"body", "resume"}
    BY <1>2
  <2>2. PICK i \in 1 .. Len(stack) : stack[i] = d
    BY <2>1 DEF FlagInv, RunningOnStack
  <2>3. i - 1 \in 1 .. Len(stack') /\ (i - 1) + 1 = i
    BY <1>1, <2>1, <2>2
  <2>4. stack'[i - 1] = stack[i]
    BY <1>1, <2>3
  <2> QED
    BY <2>2, <2>3, <2>4
<1> QED
  BY <1>4, <1>5, <1>6

\* Kept when the innermost coroutine goes on.
LEMMA StayKeepsStack ==
    ASSUME FlagInv,
           NEW c \in Coroutines, NEW s \in {"body", "resume"},
           Runs(c),
           state' = [state EXCEPT ![c] = s],
           stack' = stack
    PROVE  EnteredOnce' /\ CallersInBody' /\ RunningOnStack'
<1>1. /\ stack \in Seq(Coroutines) /\ Len(stack) \in Nat /\ Len(stack) >= 1
      /\ stack[1] = c
  BY FlagFacts, Pop DEF Runs
<1>2. /\ state'[c] = s
      /\ \A d \in Coroutines : d # c => state'[d] = state[d]
  BY DEF FlagInv, FlagTypeOK
<1>3. \A i \in 2 .. Len(stack) : stack[i] # c /\ stack[i] \in Coroutines
  <2> SUFFICES ASSUME NEW i \in 2 .. Len(stack)
               PROVE  stack[i] # c /\ stack[i] \in Coroutines
    OBVIOUS
  <2>1. i \in 1 .. Len(stack) /\ 1 \in 1 .. Len(stack) /\ i # 1
    BY <1>1
  <2> QED
    BY <1>1, <2>1, FlagFacts DEF FlagInv, EnteredOnce
<1>4. EnteredOnce'
  BY <1>1, <1>2, <1>3, FlagFacts DEF FlagInv, EnteredOnce
<1>5. CallersInBody'
  BY <1>1, <1>2, <1>3 DEF FlagInv, CallersInBody
<1>6. RunningOnStack'
  <2> SUFFICES ASSUME NEW d \in Coroutines, state'[d] \in {"body", "resume"}
               PROVE  \E i \in 1 .. Len(stack) : stack[i] = d
    BY DEF RunningOnStack
  <2>1. CASE d = c
    BY <1>1, <2>1
  <2>2. CASE d # c
    BY <1>2, <2>2 DEF FlagInv, RunningOnStack
  <2> QED
    BY <2>1, <2>2
<1> QED
  BY <1>4, <1>5, <1>6
-----------------------------------------------------------------------------
(***************************************************************************)
(* The invariant holds at the start and every operation keeps it.          *)
(***************************************************************************)
LEMMA FlagInitInv == FlagInit => FlagInv
<1> SUFFICES ASSUME FlagInit PROVE FlagInv
  OBVIOUS
<1> USE DEF FlagInit
<1>1. FlagTypeOK
  <2>1. value_ \in [Flags -> BOOLEAN] /\ alive \in [Flags -> BOOLEAN]
    BY Zenon
  <2>2. /\ handle_ \in [Flags -> Coroutines \cup {NoHandle}]
        /\ state \in [Coroutines -> States]
        /\ awaited \in [Coroutines -> Flags \cup {NoFlag}]
        /\ stack \in Seq(Coroutines)
    BY DEF States
  <2> QED
    BY <2>1, <2>2 DEF FlagTypeOK
<1>2. NoLostSignal /\ AwaitReturnsTrue /\ HandleWaits /\ AwaitedKnown
  BY DEF NoLostSignal, AwaitReturnsTrue, HandleWaits, AwaitedKnown
<1>3. EnteredOnce /\ CallersInBody /\ RunningOnStack
  BY DEF EnteredOnce, CallersInBody, RunningOnStack
<1> QED
  BY <1>1, <1>2, <1>3 DEF FlagInv

LEMMA AssignInv ==
    ASSUME FlagInv, NEW f \in Flags, NEW v \in BOOLEAN, Assign(f, v)
    PROVE  FlagInv'
<1>0. /\ ApplicationRuns /\ alive[f]
      /\ value_' = [value_ EXCEPT ![f] = v]
      /\ UNCHANGED <<alive, awaited, halted>>
  BY DEF Assign
<1>1. CASE Wakes(f, v)
  <2> DEFINE c == handle_[f]
  <2>0. /\ v /\ c # NoHandle
        /\ handle_' = [handle_ EXCEPT ![f] = NoHandle]
        /\ stack' = <<c>> \o stack
        /\ state' = [state EXCEPT ![c] = "resume"]
    BY <1>1 DEF Assign, Wakes, Goto
  <2>1. c \in Coroutines /\ state[c] = "parked" /\ awaited[c] = f
    BY <2>0 DEF FlagInv, FlagTypeOK, HandleWaits
  <2> HIDE DEF c
  <2>2. FlagTypeOK'
    BY <1>0, <2>0, <2>1, Push, FlagFacts DEF FlagInv, FlagTypeOK, States
  <2>3. EnteredOnce' /\ CallersInBody' /\ RunningOnStack'
    BY <1>0, <2>0, <2>1, EnterKeepsStack
  <2>4. NoLostSignal'
    BY <1>0, <2>0, <2>1
       DEF FlagInv, FlagTypeOK, NoLostSignal, HandleWaits, AwaitedKnown, c
  <2>5. AwaitReturnsTrue'
    BY <1>0, <2>0, <2>1, FlagFacts DEF FlagInv, FlagTypeOK, AwaitReturnsTrue
  <2>6. HandleWaits'
    BY <1>0, <2>0, <2>1 DEF FlagInv, FlagTypeOK, HandleWaits
  <2>7. AwaitedKnown'
    BY <1>0, <2>0, <2>1 DEF FlagInv, FlagTypeOK, AwaitedKnown
  <2> QED
    BY <2>2, <2>3, <2>4, <2>5, <2>6, <2>7 DEF FlagInv
<1>2. CASE ~Wakes(f, v)
  <2>0. UNCHANGED <<handle_, state, stack>> /\ (v => handle_[f] = NoHandle)
    BY <1>2 DEF Assign, Wakes
  <2>1. FlagTypeOK'
    BY <1>0, <2>0 DEF FlagInv, FlagTypeOK
  <2>2. NoLostSignal'
    BY <1>0, <2>0 DEF FlagInv, FlagTypeOK, NoLostSignal, AwaitedKnown
  <2>3. AwaitReturnsTrue'
    BY <1>0, <2>0, FlagFacts DEF AwaitReturnsTrue
  <2>4. /\ HandleWaits' /\ EnteredOnce' /\ CallersInBody'
        /\ AwaitedKnown' /\ RunningOnStack'
    BY <1>0, <2>0 DEF FlagInv, HandleWaits, EnteredOnce, CallersInBody,
                      AwaitedKnown, RunningOnStack
  <2> QED
    BY <2>1, <2>2, <2>3, <2>4 DEF FlagInv
<1> QED
  BY <1>1, <1>2

LEMMA AwaitReadyInv ==
    ASSUME FlagInv, NEW c \in Coroutines, NEW f \in Flags, AwaitReady(c, f)
    PROVE  FlagInv'
<1>0. /\ Runs(c) /\ state[c] = "body" /\ alive[f] /\ value_[f]
      /\ awaited' = [awaited EXCEPT ![c] = f]
      /\ state' = [state EXCEPT ![c] = "resume"]
      /\ UNCHANGED <<value_, handle_, alive, stack, halted>>
  BY DEF AwaitReady, Goto
<1>1. FlagTypeOK'
  BY <1>0 DEF FlagInv, FlagTypeOK, States
<1>2. EnteredOnce' /\ CallersInBody' /\ RunningOnStack'
  BY <1>0, StayKeepsStack
<1>3. NoLostSignal' /\ AwaitReturnsTrue' /\ HandleWaits' /\ AwaitedKnown'
  BY <1>0 DEF FlagInv, FlagTypeOK, NoLostSignal, AwaitReturnsTrue, HandleWaits,
              AwaitedKnown
<1> QED
  BY <1>1, <1>2, <1>3 DEF FlagInv

LEMMA AwaitSuspendInv ==
    ASSUME FlagInv, NEW c \in Coroutines, NEW f \in Flags, AwaitSuspend(c, f)
    PROVE  FlagInv'
<1>0. /\ Runs(c) /\ state[c] = "body" /\ alive[f] /\ ~value_[f]
      /\ UNCHANGED <<value_, alive>>
  BY DEF AwaitSuspend
<1>1. CASE /\ handle_' = [handle_ EXCEPT ![f] = c]
           /\ awaited' = [awaited EXCEPT ![c] = f]
           /\ Replace(c, f)
           /\ stack' = Tail(stack)
           /\ UNCHANGED halted
  <2>1. FlagTypeOK'
    BY <1>0, <1>1, Pop, FlagFacts DEF FlagInv, FlagTypeOK, States, Runs, Replace
  <2>2. /\ state'[c] = "parked"
        /\ \A d \in Coroutines :
             \/ d = c
             \/ d # handle_[f] /\ state'[d] = state[d]
             \/ d = handle_[f] /\ state[d] = "parked" /\ state'[d] = "replaced"
    BY <1>1 DEF Replace, FlagInv, HandleWaits
  <2>3. EnteredOnce' /\ CallersInBody' /\ RunningOnStack'
    BY <1>0, <1>1, <2>2, LeaveKeepsStack
  <2>4. NoLostSignal'
    BY <1>0, <1>1, <2>2
       DEF FlagInv, FlagTypeOK, NoLostSignal, HandleWaits, AwaitedKnown
  <2>5. AwaitReturnsTrue' /\ HandleWaits' /\ AwaitedKnown'
    BY <1>0, <1>1, <2>2
       DEF FlagInv, FlagTypeOK, AwaitReturnsTrue, HandleWaits, AwaitedKnown
  <2> QED
    BY <2>1, <2>3, <2>4, <2>5 DEF FlagInv
<1>2. CASE halted' = TRUE /\ UNCHANGED <<handle_, awaited, state, stack>>
  BY <1>0, <1>2 DEF FlagInv, FlagTypeOK, NoLostSignal, AwaitReturnsTrue,
                    HandleWaits, EnteredOnce, CallersInBody, AwaitedKnown,
                    RunningOnStack
<1> QED
  BY <1>1, <1>2 DEF AwaitSuspend

LEMMA AwaitResumeInv ==
    ASSUME FlagInv, NEW c \in Coroutines, AwaitResume(c)
    PROVE  FlagInv'
<1>0. /\ Runs(c) /\ state[c] = "resume"
      /\ handle_' = [handle_ EXCEPT ![awaited[c]] = NoHandle]
      /\ state' = [state EXCEPT ![c] = "body"]
      /\ UNCHANGED <<value_, alive, awaited, stack, halted>>
  BY DEF AwaitResume, Goto
<1>1. awaited[c] \in Flags /\ value_[awaited[c]]
  BY <1>0 DEF FlagInv, AwaitedKnown, AwaitReturnsTrue
<1>2. FlagTypeOK'
  BY <1>0, <1>1 DEF FlagInv, FlagTypeOK, States
<1>3. EnteredOnce' /\ CallersInBody' /\ RunningOnStack'
  BY <1>0, StayKeepsStack
<1>4. NoLostSignal'
  BY <1>0, <1>1 DEF FlagInv, FlagTypeOK, NoLostSignal, AwaitedKnown
<1>5. AwaitReturnsTrue' /\ HandleWaits' /\ AwaitedKnown'
  BY <1>0, <1>1 DEF FlagInv, FlagTypeOK, AwaitReturnsTrue, HandleWaits,
                    AwaitedKnown
<1> QED
  BY <1>2, <1>3, <1>4, <1>5 DEF FlagInv

LEMMA LaunchInv ==
    ASSUME FlagInv, NEW c \in Coroutines, Launch(c)
    PROVE  FlagInv'
<1>0. /\ ApplicationRuns /\ state[c] = "fresh"
      /\ stack' = <<c>> \o stack
      /\ state' = [state EXCEPT ![c] = "body"]
      /\ UNCHANGED <<value_, handle_, alive, awaited, halted>>
  BY DEF Launch, Goto
<1>1. FlagTypeOK'
  BY <1>0, Push, FlagFacts DEF FlagInv, FlagTypeOK, States
<1>2. EnteredOnce' /\ CallersInBody' /\ RunningOnStack'
  BY <1>0, EnterKeepsStack
<1>3. NoLostSignal' /\ AwaitReturnsTrue' /\ HandleWaits' /\ AwaitedKnown'
  BY <1>0 DEF FlagInv, FlagTypeOK, NoLostSignal, AwaitReturnsTrue, HandleWaits,
              AwaitedKnown
<1> QED
  BY <1>1, <1>2, <1>3 DEF FlagInv

LEMMA ReturnInv ==
    ASSUME FlagInv, NEW c \in Coroutines, Return(c)
    PROVE  FlagInv'
<1>0. /\ Runs(c) /\ state[c] = "body"
      /\ stack' = Tail(stack)
      /\ state' = [state EXCEPT ![c] = "done"]
      /\ UNCHANGED <<value_, handle_, alive, awaited, halted>>
  BY DEF Return, Goto
<1>1. FlagTypeOK'
  BY <1>0, Pop, FlagFacts DEF FlagInv, FlagTypeOK, States, Runs
<1>2. EnteredOnce' /\ CallersInBody' /\ RunningOnStack'
  <2>1. /\ state'[c] = "done"
        /\ \A d \in Coroutines : d = c \/ state'[d] = state[d]
    BY <1>0 DEF FlagInv, FlagTypeOK
  <2> QED
    BY <1>0, <2>1, LeaveKeepsStack
<1>3. NoLostSignal' /\ AwaitReturnsTrue' /\ HandleWaits' /\ AwaitedKnown'
  BY <1>0 DEF FlagInv, FlagTypeOK, NoLostSignal, AwaitReturnsTrue, HandleWaits,
              AwaitedKnown
<1> QED
  BY <1>1, <1>2, <1>3 DEF FlagInv

LEMMA DestroyInv ==
    ASSUME FlagInv, NEW f \in Flags, Destroy(f)
    PROVE  FlagInv'
<1>0. /\ ApplicationRuns /\ alive[f]
      /\ handle_' = [handle_ EXCEPT ![f] = NoHandle]
      /\ alive' = [alive EXCEPT ![f] = FALSE]
      /\ UNCHANGED <<value_, state, awaited, stack, halted>>
  BY DEF Destroy
<1>1. FlagTypeOK'
  BY <1>0 DEF FlagInv, FlagTypeOK
<1>2. NoLostSignal' /\ HandleWaits'
  BY <1>0 DEF FlagInv, FlagTypeOK, NoLostSignal, HandleWaits, AwaitedKnown
<1>3. AwaitReturnsTrue'
  BY <1>0, FlagFacts DEF AwaitReturnsTrue
<1>4. EnteredOnce' /\ CallersInBody' /\ AwaitedKnown' /\ RunningOnStack'
  BY <1>0 DEF FlagInv, EnteredOnce, CallersInBody, AwaitedKnown, RunningOnStack
<1> QED
  BY <1>1, <1>2, <1>3, <1>4 DEF FlagInv

(***************************************************************************)
(* The invariant of async_flag, for any nesting of assignments.            *)
(***************************************************************************)
THEOREM FlagInvariant == FlagSpec => []FlagInv
<1>1. FlagInit => FlagInv
  BY FlagInitInv
<1>2. FlagInv /\ [FlagNext]_flagVars => FlagInv'
  <2> SUFFICES ASSUME FlagInv, [FlagNext]_flagVars PROVE FlagInv'
    OBVIOUS
  <2>1. ASSUME NEW f \in Flags, NEW v \in BOOLEAN, Assign(f, v) PROVE FlagInv'
    BY <2>1, AssignInv
  <2>2. ASSUME NEW f \in Flags, Destroy(f) PROVE FlagInv'
    BY <2>2, DestroyInv
  <2>3. ASSUME NEW c \in Coroutines, NEW f \in Flags, AwaitReady(c, f)
        PROVE  FlagInv'
    BY <2>3, AwaitReadyInv
  <2>4. ASSUME NEW c \in Coroutines, NEW f \in Flags, AwaitSuspend(c, f)
        PROVE  FlagInv'
    BY <2>4, AwaitSuspendInv
  <2>5. ASSUME NEW c \in Coroutines, AwaitResume(c) PROVE FlagInv'
    BY <2>5, AwaitResumeInv
  <2>6. ASSUME NEW c \in Coroutines, Launch(c) PROVE FlagInv'
    BY <2>6, LaunchInv
  <2>7. ASSUME NEW c \in Coroutines, Return(c) PROVE FlagInv'
    BY <2>7, ReturnInv
  <2>8. CASE UNCHANGED flagVars
    BY <2>8 DEF flagVars, FlagInv, FlagTypeOK, NoLostSignal, AwaitReturnsTrue,
                HandleWaits, EnteredOnce, CallersInBody, AwaitedKnown,
                RunningOnStack
  <2> QED
    BY <2>1, <2>2, <2>3, <2>4, <2>5, <2>6, <2>7, <2>8 DEF FlagNext
<1> QED
  BY <1>1, <1>2, PTL DEF FlagSpec

\* A suspended coroutine's flag is down and remembers it.
THEOREM NoSignalLost == FlagSpec => []NoLostSignal
<1>1. FlagInv => NoLostSignal
  BY DEF FlagInv
<1> QED
  BY <1>1, FlagInvariant, PTL

\* co_await flag returns true.
THEOREM AwaitTrue == FlagSpec => []AwaitReturnsTrue
<1>1. FlagInv => AwaitReturnsTrue
  BY DEF FlagInv
<1> QED
  BY <1>1, FlagInvariant, PTL

\* No coroutine is resumed but a suspended one, and none is entered twice.
THEOREM ResumptionsValid == FlagSpec => []OnlySuspendedAreResumed
<1>1. FlagInv => OnlySuspendedAreResumed
  BY DEF FlagInv, OnlySuspendedAreResumed
<1> QED
  BY <1>1, FlagInvariant, PTL

\* Type correctness of flags and coroutines (async_flag.hpp:51-52).
THEOREM FlagTypeCorrect == FlagSpec => []FlagTypeOK
  BY FlagInvariant, PTL DEF FlagInv
-----------------------------------------------------------------------------
(***************************************************************************)
(* The refinement of LevelEvent.                                           *)
(***************************************************************************)
\* A coroutine that waits is the one that its flag remembers.
LEMMA WaiterIsRemembered ==
    ASSUME FlagInv, NEW c \in Coroutines
    PROVE  /\ Waits(c) => /\ awaited[c] \in Flags /\ handle_[awaited[c]] = c
                          /\ ~value_[awaited[c]]
           /\ \A f \in Flags : EventWaiting[c] = f
                                 <=> Waits(c) /\ awaited[c] = f
  BY DEF FlagInv, NoLostSignal, AwaitedKnown, Waits, EventWaiting

\* A step that changes neither who waits nor who is stranded.
LEMMA NobodyMoves ==
    ASSUME \A c \in Coroutines : /\ Waits(c)' <=> Waits(c)
                                 /\ Stranded(c)' <=> Stranded(c)
                                 /\ Waits(c) => awaited'[c] = awaited[c]
    PROVE  EventWaiting' = EventWaiting /\ EventLost' = EventLost
  BY DEF EventWaiting, EventLost

LEMMA AssignIsEvent ==
    ASSUME FlagInv, NEW f \in Flags, NEW v \in BOOLEAN, Assign(f, v)
    PROVE  Event!Raise(f) \/ Event!Lower(f)
<1>0. /\ alive' = alive /\ awaited' = awaited /\ alive[f]
      /\ value_' = [value_ EXCEPT ![f] = v]
  BY DEF Assign
<1>1. EventUp' = IF v THEN EventUp \cup {f} ELSE EventUp \ {f}
  BY <1>0 DEF EventUp, FlagInv, FlagTypeOK
<1>2. CASE Wakes(f, v)
  <2> DEFINE h == handle_[f]
  <2>1. v /\ h \in Coroutines /\ state[h] = "parked" /\ awaited[h] = f
    BY <1>2 DEF Wakes, FlagInv, FlagTypeOK, HandleWaits
  <2>2. state' = [state EXCEPT ![h] = "resume"]
    BY <1>2 DEF Assign, Goto
  <2> HIDE DEF h
  <2>3. /\ state'[h] = "resume"
        /\ \A c \in Coroutines : c # h => state'[c] = state[c]
    BY <2>1, <2>2 DEF FlagInv, FlagTypeOK
  <2>4. \A c \in Coroutines : Waits(c) /\ awaited[c] = f <=> c = h
    BY <1>0, <2>1, WaiterIsRemembered DEF Waits, h
  <2>5. \A c \in Coroutines : /\ Waits(c)' <=> Waits(c) /\ c # h
                              /\ Stranded(c)' <=> Stranded(c)
    BY <1>0, <2>1, <2>3 DEF Waits, Stranded
  <2>6. EventLost' = EventLost
    BY <2>5 DEF EventLost
  <2>7. EventWaiting' = Event!LetGo(f)
    <3>1. \A c \in Coroutines : EventWaiting[c] = f <=> c = h
      BY <2>4, WaiterIsRemembered
    <3> QED
      BY <1>0, <2>5, <3>1 DEF Event!LetGo, EventWaiting
  <2> QED
    BY <1>1, <2>1, <2>6, <2>7 DEF Event!Raise
<1>3. CASE ~Wakes(f, v)
  <2>1. state' = state
    BY <1>3 DEF Assign
  <2>2. EventWaiting' = EventWaiting /\ EventLost' = EventLost
    BY <1>0, <2>1 DEF EventWaiting, EventLost, Waits, Stranded
  <2>3. CASE v
    <3>1. handle_[f] = NoHandle
      BY <1>3, <2>3 DEF Wakes
    <3>2. \A c \in Coroutines : EventWaiting[c] # f
      BY <3>1, WaiterIsRemembered
    <3>3. Event!LetGo(f) = EventWaiting
      BY <3>2 DEF Event!LetGo, EventWaiting
    <3> QED
      BY <1>1, <2>2, <2>3, <3>3 DEF Event!Raise
  <2>4. CASE ~v
    BY <1>1, <2>2, <2>4 DEF Event!Lower
  <2> QED
    BY <2>3, <2>4
<1> QED
  BY <1>2, <1>3

LEMMA DestroyIsEvent ==
    ASSUME FlagInv, NEW f \in Flags, Destroy(f)
    PROVE  Event!Abandon(f)
<1>0. /\ alive' = [alive EXCEPT ![f] = FALSE]
      /\ UNCHANGED <<value_, state, awaited>> /\ alive[f]
  BY DEF Destroy
<1>1. \A c \in Coroutines :
        state[c] = "parked" => /\ awaited[c] \in Flags
                               /\ alive'[awaited[c]]
                                    <=> alive[awaited[c]] /\ awaited[c] # f
  BY <1>0 DEF FlagInv, FlagTypeOK, AwaitedKnown
<1>2. \A c \in Coroutines :
        /\ Waits(c)' <=> Waits(c) /\ awaited[c] # f
        /\ Stranded(c)' <=> Stranded(c) \/ (Waits(c) /\ awaited[c] = f)
  BY <1>0, <1>1 DEF Waits, Stranded
<1>3. \A c \in Coroutines : EventWaiting[c] = f <=> Waits(c) /\ awaited[c] = f
  BY WaiterIsRemembered
<1>4. EventUp' = EventUp
  BY <1>0 DEF EventUp
<1>5. EventWaiting' = Event!LetGo(f)
  BY <1>0, <1>2, <1>3 DEF Event!LetGo, EventWaiting
<1>6. EventLost' = EventLost \cup Event!Waiters(f)
  BY <1>2, <1>3 DEF Event!Waiters, EventLost
<1> QED
  BY <1>4, <1>5, <1>6 DEF Event!Abandon

LEMMA AwaitSuspendIsEvent ==
    ASSUME FlagInv, NEW c \in Coroutines, NEW f \in Flags, AwaitSuspend(c, f)
    PROVE  Event!Wait(c, f) \/ UNCHANGED Event!eventVars
<1>0. /\ state[c] = "body" /\ alive[f] /\ ~value_[f]
      /\ UNCHANGED <<value_, alive>>
  BY DEF AwaitSuspend
<1>1. CASE /\ awaited' = [awaited EXCEPT ![c] = f]
           /\ Replace(c, f)
  <2>0. PICK h : h = handle_[f]
    OBVIOUS
  <2>1. /\ h # c
        /\ h \in Coroutines =>
             state[h] = "parked" /\ awaited[h] = f /\ alive[f]
    BY <1>0, <2>0 DEF FlagInv, FlagTypeOK, HandleWaits
  <2>2. /\ state'[c] = "parked" /\ awaited'[c] = f
        /\ \A d \in Coroutines \ {c} :
             /\ awaited'[d] = awaited[d]
             /\ state'[d] = IF d = h THEN "replaced" ELSE state[d]
    <3>1. /\ awaited'[c] = f
          /\ \A d \in Coroutines \ {c} : awaited'[d] = awaited[d]
      BY <1>1 DEF FlagInv, FlagTypeOK
    <3>2. /\ state'[c] = "parked"
          /\ \A d \in Coroutines \ {c} :
               state'[d] = IF d = h THEN "replaced" ELSE state[d]
      BY <1>1, <2>0 DEF Replace
    <3> QED
      BY <3>1, <3>2
  <2>3. \A d \in Coroutines : Waits(d) /\ awaited[d] = f <=> d = h
    BY <1>0, <2>0, <2>1, WaiterIsRemembered DEF Waits
  <2>4. ~Waits(c) /\ ~Stranded(c)
    BY <1>0 DEF Waits, Stranded
  <2>5. /\ \A d \in Coroutines \ {c} :
             /\ Waits(d)' <=> Waits(d) /\ d # h
             /\ Stranded(d)' <=> Stranded(d) \/ d = h
        /\ Waits(c)' /\ ~Stranded(c)'
    <3>1. Waits(c)' /\ ~Stranded(c)'
      BY <1>0, <2>2 DEF Waits, Stranded
    <3>2. \A d \in Coroutines \ {c} : d # h =>
            /\ Waits(d)' <=> Waits(d)
            /\ Stranded(d)' <=> Stranded(d)
      BY <1>0, <2>2 DEF Waits, Stranded
    <3>3. h \in Coroutines \ {c} => ~Waits(h)' /\ Stranded(h)'
      BY <2>2 DEF Waits, Stranded
    <3> QED
      BY <3>1, <3>2, <3>3
  <2>6. \A d \in Coroutines : EventWaiting[d] = f <=> d = h
    BY <2>3, WaiterIsRemembered
  <2>7. EventUp' = EventUp /\ f \notin EventUp
    BY <1>0 DEF EventUp
  <2>8. EventWaiting' = [Event!LetGo(f) EXCEPT ![c] = f]
    BY <2>1, <2>2, <2>5, <2>6 DEF Event!LetGo, EventWaiting
  <2>9. EventLost' = EventLost \cup Event!Waiters(f)
    BY <2>1, <2>4, <2>5, <2>6 DEF Event!Waiters, EventLost
  <2>10. EventWaiting[c] = NoFlag /\ c \notin EventLost
    BY <2>4 DEF EventWaiting, EventLost
  <2> QED
    BY <2>7, <2>8, <2>9, <2>10 DEF Event!Wait
<1>2. CASE UNCHANGED <<awaited, state>>
  BY <1>0, <1>2 DEF Event!eventVars, EventUp, EventWaiting, EventLost, Waits,
                    Stranded
<1> QED
  BY <1>1, <1>2 DEF AwaitSuspend

\* The other steps are between a coroutine and its caller.
LEMMA OthersAreNoEvents ==
    ASSUME FlagInv, NEW c \in Coroutines,
           \/ \E f \in Flags : AwaitReady(c, f)
           \/ AwaitResume(c) \/ Launch(c) \/ Return(c)
    PROVE  UNCHANGED Event!eventVars
<1>1. /\ state[c] \in {"fresh", "body", "resume"} /\ UNCHANGED <<value_, alive>>
      /\ \E s \in {"body", "resume", "done"} : state' = [state EXCEPT ![c] = s]
      /\ \A d \in Coroutines \ {c} : awaited'[d] = awaited[d]
  BY DEF FlagInv, FlagTypeOK, AwaitReady, AwaitResume, Launch, Return, Goto
<1>2. /\ state'[c] \in {"body", "resume", "done"}
      /\ \A d \in Coroutines \ {c} : state'[d] = state[d]
  BY <1>1 DEF FlagInv, FlagTypeOK
<1>3. \A d \in Coroutines : /\ Waits(d)' <=> Waits(d)
                            /\ Stranded(d)' <=> Stranded(d)
                            /\ Waits(d) => awaited'[d] = awaited[d]
  BY <1>1, <1>2 DEF Waits, Stranded
<1>4. EventUp' = EventUp
  BY <1>1 DEF EventUp
<1> QED
  BY <1>3, <1>4, NobodyMoves DEF Event!eventVars

(***************************************************************************)
(* async_flag implements the event: a raise lets go whoever waits, nothing *)
(* else lets a coroutine go, and nobody sleeps on a flag that is up.       *)
(***************************************************************************)
THEOREM FlagImplementsEvent == FlagSpec => ImplementsEvent
<1>1. FlagInit => Event!EventInit
  BY DEF FlagInit, Event!EventInit, EventUp, EventWaiting, EventLost, Waits,
         Stranded
<1>2. FlagInv /\ [FlagNext]_flagVars => [Event!EventNext]_Event!eventVars
  <2> SUFFICES ASSUME FlagInv, [FlagNext]_flagVars
               PROVE  Event!EventNext \/ UNCHANGED Event!eventVars
    OBVIOUS
  <2>1. ASSUME NEW f \in Flags, NEW v \in BOOLEAN, Assign(f, v)
        PROVE  Event!EventNext
    BY <2>1, AssignIsEvent DEF Event!EventNext
  <2>2. ASSUME NEW f \in Flags, Destroy(f) PROVE Event!EventNext
    BY <2>2, DestroyIsEvent DEF Event!EventNext
  <2>3. ASSUME NEW c \in Coroutines, NEW f \in Flags, AwaitSuspend(c, f)
        PROVE  Event!EventNext \/ UNCHANGED Event!eventVars
    BY <2>3, AwaitSuspendIsEvent DEF Event!EventNext
  <2>4. ASSUME NEW c \in Coroutines,
               \/ \E f \in Flags : AwaitReady(c, f)
               \/ AwaitResume(c) \/ Launch(c) \/ Return(c)
        PROVE  UNCHANGED Event!eventVars
    BY <2>4, OthersAreNoEvents
  <2>5. CASE UNCHANGED flagVars
    BY <2>5 DEF flagVars, Event!eventVars, EventUp, EventWaiting, EventLost,
                Waits, Stranded
  <2> QED
    BY <2>1, <2>2, <2>3, <2>4, <2>5 DEF FlagNext
<1> QED
  BY <1>1, <1>2, FlagInvariant, PTL DEF FlagSpec, ImplementsEvent,
     Event!EventSpec
=============================================================================
