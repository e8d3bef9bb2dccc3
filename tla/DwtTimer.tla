------------------------------ MODULE DwtTimer ------------------------------
(***************************************************************************)
(* A coro_timer on the clock of the STM32F7: CoroTimer, whose now() is     *)
(* what DwtClock makes of a cycle counter that wraps.                      *)
(* coro/include/coro/coro_timer.hpp, on                                    *)
(* chrono_clocks/include/chrono_clocks/traits/stm32_dwt_traits.hpp         *)
(*                                                                         *)
(* The core keeps the frequency it has, and the event loop comes round to  *)
(* process() at least every MaxPoll cycles, coroutines included: a timer   *)
(* that is polled only now and then may miss even more.                    *)
(***************************************************************************)
EXTENDS DwtClock, Integers

CONSTANTS Coroutines, NoHandle, Durations, MaxRep, \* as in CoroTimer
          MaxPoll \* the longest time between two calls of process()

\* The loop comes round at least once a lap, and no core runs at a gigahertz.
ASSUME PollAssumption ==
    /\ MaxPoll \in Nat \ {0} /\ MaxPoll < Word
    /\ \A f \in CoreClocks : f <= Second
ASSUME TimerAssumption ==
    NoHandle \notin Coroutines /\ MaxRep \in Nat /\ Durations \subseteq Nat

VARIABLES
    deadline_, due, handle_, active_, running, state, halted, \* the timer's
    unpolled, \* cycles since process() was called
    realDue,  \* history: the time, since init, that was asked for
    setLap,   \* history: how often CYCCNT had wrapped when it was asked
    waitLap   \* history: and when the coroutine was suspended

timer   == <<deadline_, due, handle_, active_, running, state, halted>>
laps    == <<realDue, setLap, waitLap>>
allVars == <<vars, timer, unpolled, laps>>

T == INSTANCE CoroTimer WITH MaxTime <- 0, TimePoints <- {}

Lap == cycles \div Word
Elapsed == (cycles * Second) \div SystemCoreClock

Init ==
    /\ DwtInit /\ T!TimerInit
    /\ unpolled = 0 /\ realDue = 0 /\ setLap = 0 /\ waitLap = 0

Start == init_dwt /\ UNCHANGED <<timer, unpolled, laps>>

Run ==
    /\ unpolled < MaxPoll
    /\ Cycle
    /\ unpolled' = unpolled + 1
    /\ UNCHANGED <<timer, laps>>

Set(d) ==
    /\ UNCHANGED <<vars, unpolled, waitLap>>
    /\ enabled /\ T!ExpiresAfter(d)
    /\ realDue' = Elapsed + d /\ setLap' = Lap

Suspend(c) ==
    /\ UNCHANGED <<vars, unpolled, realDue, setLap>>
    /\ T!AwaitSuspend(c)
    /\ waitLap' = Lap

GoOn ==
    /\ UNCHANGED <<vars, unpolled, laps>>
    /\ \/ T!Cancel
       \/ \E c \in Coroutines : \/ T!Launch(c)
                                \/ T!AwaitReady(c)
                                \/ T!GoOn(c)
                                \/ T!Return(c)

\* The loop calls process(), which may find nothing to do.
Poll ==
    /\ UNCHANGED <<vars, laps>>
    /\ running = NoHandle
    /\ \/ T!Process
       \/ /\ ~(active_ /\ handle_ # NoHandle /\ now >= deadline_)
          /\ UNCHANGED timer
    /\ unpolled' = 0

Next ==
    \/ Start \/ Run \/ GoOn \/ Poll
    \/ \E d \in Durations : Set(d)
    \/ \E c \in Coroutines : Suspend(c)

Spec == Init /\ [][Next]_allVars
-----------------------------------------------------------------------------
(***************************************************************************)
(* Properties.                                                             *)
(***************************************************************************)
\* MaxPoll cycles, rounded up.
PollTime == Nanoseconds(MaxPoll) + 1
Overdue == handle_ # NoHandle /\ Elapsed > realDue + PollTime

(***************************************************************************)
(* A suspended coroutine goes on at the first process() after the time it  *)
(* asked for, unless the counter wraps before process() has seen the       *)
(* deadline: the deadline then lies beyond the last reading but MaxPoll,   *)
(* or it was set before a wrap and awaited after.                          *)
(***************************************************************************)
PunctualInALap ==
    Overdue => \/ deadline_ + PollTime > Nanoseconds(Word - 1)
               \/ waitLap > setLap

(***************************************************************************)
(* However often the counter wraps, no wait ends before the time asked for *)
(* has really passed, but for the fraction of a nanosecond that a reading  *)
(* drops: what the wrap loses only ever makes timers late.                 *)
(***************************************************************************)
NeverEarlyInTime ==
    [][\A c \in Coroutines :
         state[c] # "fired" /\ state'[c] = "fired" => Elapsed + 1 >= realDue
      ]_allVars

(***************************************************************************)
(* The inductive invariants behind them.  The counter is the cycles of its *)
(* lap; what the laps before the deadline was set add to it is what the    *)
(* real time asked for is ahead of it, to a nanosecond; and at the last    *)
(* process() the deadline had not passed, or was set since.                *)
(***************************************************************************)
CounterInv ==
    /\ cycles \in Nat /\ CYCCNT = cycles % Word /\ dwt_high = 0
    /\ SystemCoreClock \in CoreClocks
    /\ ~enabled => cycles = 0

LapTime(n) == (n * Word * Second) \div SystemCoreClock

DeadlineInv ==
    /\ deadline_ \in Nat /\ realDue \in Nat
    /\ setLap \in Nat /\ waitLap \in Nat /\ setLap <= Lap
    /\ realDue \in {deadline_ + LapTime(setLap),
                    deadline_ + LapTime(setLap) + 1}
    /\ state \in [Coroutines -> T!States]

\* The wait began in the lap of its deadline, which a call of process()
\* meets before the counter wraps.
AwaitedInLap ==
    /\ handle_ # NoHandle /\ waitLap <= setLap
    /\ deadline_ + PollTime <= Nanoseconds(Word - 1)
NotMissed ==
    /\ Lap = setLap
    /\ (CYCCNT - unpolled) * Second < (deadline_ + 1) * SystemCoreClock
    /\ (cycles - unpolled) * Second < (realDue + 1) * SystemCoreClock

WaitInv ==
    /\ unpolled \in 0 .. MaxPoll
    /\ active_ <=> handle_ # NoHandle
    /\ AwaitedInLap => NotMissed
=============================================================================
