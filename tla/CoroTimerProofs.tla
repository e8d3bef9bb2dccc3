--------------------------- MODULE CoroTimerProofs ---------------------------
(***************************************************************************)
(* Proofs about CoroTimer, for any number of coroutines, any durations and *)
(* time points and any width of the clock.                                 *)
(***************************************************************************)
EXTENDS CoroTimer, TLAPS

USE NoHandleAssumption, RepAssumption

\* No deadline that is asked for lies beyond what a time point can hold.
DeadlinesFit == \A t \in 0 .. MaxTime, d \in Durations : t + d \in Rep

\* The inductive invariant: the timer and its waiter agree, and, as long as
\* the deadlines fit, the deadline is the one that was asked for.
TimerInv ==
    /\ TimerTypeOK
    /\ WaiterIsParked
    /\ DeadlinesFit => deadline_ = due
-----------------------------------------------------------------------------
\* Whatever is added, the sum is a time point.
LEMMA PlusInRep ==
    ASSUME NEW t \in Int, NEW d \in Int
    PROVE  Plus(t, d) \in Rep
<1> DEFINE x == (t + d) + MaxRep + 1
           m == 2 * MaxRep + 2
<1>1. x \in Int /\ m \in Nat /\ m > 0
  OBVIOUS
<1>2. x % m \in 0 .. m - 1
  <2> HIDE DEF x, m
  <2> QED
    BY <1>1
<1> QED
  BY <1>2 DEF Plus, Rep

\* A sum that a time point can hold is computed exactly.
LEMMA PlusExact ==
    ASSUME NEW t \in Int, NEW d \in Int, t + d \in Rep
    PROVE  Plus(t, d) = t + d
<1> DEFINE x == (t + d) + MaxRep + 1
           m == 2 * MaxRep + 2
<1>1. /\ x \in Int /\ m \in Nat /\ m > 0
      /\ x \in 0 .. m - 1
  BY DEF Rep
<1>2. x % m = x
  <2> HIDE DEF x, m
  <2> QED
    BY <1>1
<1> QED
  BY <1>2 DEF Plus

\* The coroutine that runs is the one whose code is running.
LEMMA TimerFacts ==
    ASSUME TimerInv
    PROVE  /\ now \in 0 .. MaxTime /\ now \in Int
           /\ \A c \in Coroutines : state[c] = "parked" <=> handle_ = c
           /\ handle_ # NoHandle => handle_ \in Coroutines
  BY DEF TimerInv, TimerTypeOK, WaiterIsParked
-----------------------------------------------------------------------------
LEMMA TimerInitInv == TimerInit => TimerInv
<1> SUFFICES ASSUME TimerInit PROVE TimerInv
  OBVIOUS
<1> USE DEF TimerInit
<1>1. TimerTypeOK
  <2>1. now \in 0 .. MaxTime
    OBVIOUS
  <2>2. deadline_ \in Rep /\ due \in Int
    BY DEF Rep
  <2>3. state \in [Coroutines -> States]
    BY DEF States
  <2> QED
    BY <2>1, <2>2, <2>3 DEF TimerTypeOK
<1>2. WaiterIsParked
  BY DEF WaiterIsParked
<1> QED
  BY <1>1, <1>2 DEF TimerInv

\* Moving the deadline.
LEMMA SetDeadlineInv ==
    ASSUME TimerInv,
           \/ \E d \in Durations : ExpiresAfter(d)
           \/ \E tp \in TimePoints : ExpiresAt(tp)
    PROVE  TimerInv'
<1>1. UNCHANGED <<now, handle_, active_, running, state, halted>>
  BY DEF ExpiresAfter, ExpiresAt
<1>2. WaiterIsParked'
  BY <1>1 DEF TimerInv, WaiterIsParked
<1>3. ASSUME NEW d \in Durations, ExpiresAfter(d)
      PROVE  /\ deadline_' \in Rep /\ due' \in Int
             /\ DeadlinesFit => deadline_' = due'
  <2>1. d \in Int /\ now \in Int /\ now \in 0 .. MaxTime
    BY TimerFacts DEF Rep
  <2>2. deadline_' = Plus(now, d) /\ due' = now + d
    BY <1>3 DEF ExpiresAfter
  <2>3. DeadlinesFit => now + d \in Rep
    BY <2>1 DEF DeadlinesFit
  <2> QED
    BY <2>1, <2>2, <2>3, PlusInRep, PlusExact
<1>4. ASSUME NEW tp \in TimePoints, ExpiresAt(tp)
      PROVE  deadline_' \in Rep /\ due' \in Int /\ deadline_' = due'
  BY <1>4 DEF ExpiresAt, Rep
<1>5. TimerTypeOK'
  BY <1>1, <1>3, <1>4 DEF TimerInv, TimerTypeOK
<1> QED
  BY <1>1, <1>2, <1>3, <1>4, <1>5 DEF TimerInv, DeadlinesFit

LEMMA CancelInv ==
    ASSUME TimerInv, Cancel
    PROVE  TimerInv'
<1>0. /\ ApplicationRuns
      /\ handle_' = NoHandle /\ active_' = FALSE
      /\ state' = [c \in Coroutines |-> IF c = handle_ THEN "stranded"
                                                      ELSE state[c]]
      /\ UNCHANGED <<now, deadline_, due, halted, running>>
  BY DEF Cancel, Strand, appVars
<1>1. TimerTypeOK'
  BY <1>0 DEF TimerInv, TimerTypeOK, States
<1>2. WaiterIsParked'
  BY <1>0 DEF TimerInv, TimerTypeOK, WaiterIsParked
<1> QED
  BY <1>0, <1>1, <1>2 DEF TimerInv, DeadlinesFit

LEMMA ProcessInv ==
    ASSUME TimerInv, Process
    PROVE  TimerInv'
<1>0. /\ running = NoHandle /\ handle_ # NoHandle
      /\ handle_' = NoHandle /\ active_' = FALSE /\ running' = handle_
      /\ state' = [state EXCEPT ![handle_] = "fired"]
      /\ UNCHANGED <<now, deadline_, due, halted>>
  BY DEF Process, Goto, appVars
<1>1. TimerTypeOK'
  BY <1>0 DEF TimerInv, TimerTypeOK, States
<1>2. WaiterIsParked'
  BY <1>0 DEF TimerInv, TimerTypeOK, WaiterIsParked
<1> QED
  BY <1>0, <1>1, <1>2 DEF TimerInv, DeadlinesFit

LEMMA CoroutineInv ==
    ASSUME TimerInv, NEW c \in Coroutines, Launch(c) \/ Coroutine(c)
    PROVE  TimerInv'
<1>1. CASE Launch(c)
  <2>0. /\ running = NoHandle /\ state[c] = "fresh" /\ running' = c
        /\ state' = [state EXCEPT ![c] = "body"]
        /\ UNCHANGED <<now, deadline_, due, halted, handle_, active_>>
    BY <1>1 DEF Launch, Goto, appVars
  <2>1. TimerTypeOK'
    BY <2>0 DEF TimerInv, TimerTypeOK, States
  <2>2. WaiterIsParked'
    BY <2>0 DEF TimerInv, TimerTypeOK, WaiterIsParked
  <2> QED
    BY <2>0, <2>1, <2>2 DEF TimerInv, DeadlinesFit
<1>2. CASE AwaitReady(c) \/ GoOn(c)
  <2>0. /\ state[c] \in {"body", "fired"}
        /\ \E s \in {"body", "fired"} : state' = [state EXCEPT ![c] = s]
        /\ UNCHANGED <<now, deadline_, due, halted, handle_, active_, running>>
    BY <1>2 DEF AwaitReady, GoOn, Goto, appVars
  <2>1. TimerTypeOK'
    BY <2>0 DEF TimerInv, TimerTypeOK, States
  <2>2. WaiterIsParked'
    BY <2>0 DEF TimerInv, TimerTypeOK, WaiterIsParked
  <2> QED
    BY <2>0, <2>1, <2>2 DEF TimerInv, DeadlinesFit
<1>3. CASE AwaitSuspend(c)
  <2>1. CASE /\ running = c /\ running' = NoHandle /\ state[c] = "body"
             /\ handle_' = c /\ active_' = TRUE
             /\ Replace(c)
             /\ UNCHANGED <<now, deadline_, due, halted>>
    <3>1. TimerTypeOK'
      BY <2>1 DEF Replace, TimerInv, TimerTypeOK, States
    <3>2. WaiterIsParked'
      BY <2>1 DEF Replace, TimerInv, TimerTypeOK, WaiterIsParked
    <3> QED
      BY <2>1, <3>1, <3>2 DEF TimerInv, DeadlinesFit
  <2>2. CASE /\ halted' = TRUE
             /\ UNCHANGED <<now, deadline_, due, handle_, active_, running,
                            state>>
    BY <2>2 DEF TimerInv, TimerTypeOK, WaiterIsParked, DeadlinesFit
  <2> QED
    BY <1>3, <2>1, <2>2 DEF AwaitSuspend, Runs
<1>4. CASE Return(c)
  <2>0. /\ running = c /\ running' = NoHandle /\ state[c] = "body"
        /\ state' = [state EXCEPT ![c] = "done"]
        /\ UNCHANGED <<now, deadline_, due, halted, handle_, active_>>
    BY <1>4 DEF Return, Goto, Runs, appVars
  <2>1. TimerTypeOK'
    BY <2>0 DEF TimerInv, TimerTypeOK, States
  <2>2. WaiterIsParked'
    BY <2>0 DEF TimerInv, TimerTypeOK, WaiterIsParked
  <2> QED
    BY <2>0, <2>1, <2>2 DEF TimerInv, DeadlinesFit
<1> QED
  BY <1>1, <1>2, <1>3, <1>4 DEF Coroutine

LEMMA PassingTimeInv ==
    ASSUME TimerInv, Advance \/ UNCHANGED timerVars
    PROVE  TimerInv'
  BY DEF Advance, timerVars, TimerInv, TimerTypeOK, WaiterIsParked, DeadlinesFit

LEMMA TimerStepInv ==
    ASSUME TimerInv, [TimerNext]_timerVars
    PROVE  TimerInv'
  BY SetDeadlineInv, CancelInv, ProcessInv, CoroutineInv, PassingTimeInv
     DEF TimerNext, Application

THEOREM TimerInvariant == TimerSpec => []TimerInv
  BY TimerInitInv, TimerStepInv, PTL DEF TimerSpec

(***************************************************************************)
(* The timer, its flag and its waiter agree, so process() resumes nothing  *)
(* but a suspended coroutine, once a wait.                                 *)
(***************************************************************************)
THEOREM WaiterAgrees == TimerSpec => []WaiterIsParked
<1>1. TimerInv => WaiterIsParked
  BY DEF TimerInv
<1> QED
  BY <1>1, TimerInvariant, PTL

(***************************************************************************)
(* No wait ends before the deadline asked for, for every use of the timer  *)
(* whose deadlines a time point can hold: the one way to fire early is the *)
(* overflow of expires_after.                                              *)
(***************************************************************************)
THEOREM TimerNeverEarly == DeadlinesFit => (TimerSpec => NeverEarly)
<1> SUFFICES ASSUME DeadlinesFit PROVE TimerSpec => NeverEarly
  OBVIOUS
<1>1. ASSUME TimerInv, [TimerNext]_timerVars,
             NEW c \in Coroutines, state[c] # "fired", state'[c] = "fired"
      PROVE  now >= due
  <2>0. now \in Int /\ deadline_ = due
    BY <1>1 DEF TimerInv, TimerTypeOK
  <2>1. state' # state
    BY <1>1
  <2>2. CASE Process
    BY <2>0, <2>2 DEF Process
  <2>3. CASE Cancel
    BY <1>1, <2>3 DEF Cancel, Strand
  <2>4. ASSUME NEW d \in Coroutines, AwaitReady(d) PROVE now >= due
    BY <2>0, <2>4 DEF AwaitReady
  <2>5. ASSUME NEW d \in Coroutines,
               Launch(d) \/ AwaitSuspend(d) \/ GoOn(d) \/ Return(d)
        PROVE  state'[c] # "fired"
    BY <1>1, <2>5
       DEF Launch, AwaitSuspend, Replace, GoOn, Return, Goto, TimerInv,
           TimerTypeOK
  <2>6. CASE \/ \E d \in Durations : ExpiresAfter(d)
             \/ \E tp \in TimePoints : ExpiresAt(tp)
             \/ Advance
             \/ UNCHANGED timerVars
    BY <2>1, <2>6 DEF ExpiresAfter, ExpiresAt, Advance, timerVars
  <2> QED
    BY <1>1, <2>2, <2>3, <2>4, <2>5, <2>6 DEF TimerNext, Application, Coroutine
<1>2. TimerInv /\ [TimerNext]_timerVars
        => [\A c \in Coroutines :
              state[c] # "fired" /\ state'[c] = "fired" => now >= due]_timerVars
  BY <1>1
<1> QED
  BY <1>2, TimerInvariant, PTL DEF TimerSpec, NeverEarly

(***************************************************************************)
(* A cancelled wait is over for good.                                      *)
(***************************************************************************)
THEOREM CancelIsFinal == TimerSpec => CancelledStaysCancelled
<1>1. ASSUME TimerInv, [TimerNext]_timerVars,
             NEW c \in Coroutines, state[c] = "stranded"
      PROVE  state'[c] = "stranded"
  <2>0. handle_ # c /\ running # c
    BY <1>1 DEF TimerInv, WaiterIsParked
  <2>1. CASE Process
    BY <1>1, <2>0, <2>1 DEF Process, Goto, TimerInv, TimerTypeOK
  <2>2. CASE Cancel
    BY <1>1, <2>2 DEF Cancel, Strand
  <2>3. ASSUME NEW d \in Coroutines, Launch(d) \/ Coroutine(d)
        PROVE  state'[c] = "stranded"
    BY <1>1, <2>0, <2>3
       DEF Launch, Coroutine, AwaitReady, AwaitSuspend, Replace, GoOn, Return,
           Runs, Goto, TimerInv, TimerTypeOK
  <2>4. CASE \/ \E d \in Durations : ExpiresAfter(d)
             \/ \E tp \in TimePoints : ExpiresAt(tp)
             \/ Advance
             \/ UNCHANGED timerVars
    BY <1>1, <2>4 DEF ExpiresAfter, ExpiresAt, Advance, timerVars
  <2> QED
    BY <1>1, <2>1, <2>2, <2>3, <2>4 DEF TimerNext, Application
<1>2. TimerInv /\ [TimerNext]_timerVars
        => [\A c \in Coroutines :
              state[c] = "stranded" => state'[c] = "stranded"]_timerVars
  BY <1>1
<1> QED
  BY <1>2, TimerInvariant, PTL DEF TimerSpec, CancelledStaysCancelled

(***************************************************************************)
(* Type correctness: whatever is added to it, the deadline is a time point *)
(* (coro_timer.hpp:61-63).                                                 *)
(***************************************************************************)
THEOREM TimerTypeCorrect == TimerSpec => []TimerTypeOK
  BY TimerInvariant, PTL DEF TimerInv
=============================================================================
