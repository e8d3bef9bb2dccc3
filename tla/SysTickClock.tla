---------------------------- MODULE SysTickClock ----------------------------
(***************************************************************************)
(* The steady clock of the STM32F1 and F3 parts: a count of milliseconds   *)
(* in two words of Word values each (Word is 2^32), wall_low and           *)
(* wall_high, which the SysTick interrupt increments and steady_clock::    *)
(* now() reads one word at a time.                                         *)
(* chrono_clocks/include/chrono_clocks/traits/stm32_systick_traits.hpp     *)
(*                                                                         *)
(* systick_irq preempts a reader between any two of its loads.  SysTick    *)
(* has the highest interrupt priority (the reset value, which init_systick *)
(* leaves), so no reader runs between the two increments of systick_irq.   *)
(* The readers are the contexts below it: threads of the program and its   *)
(* other interrupt handlers, which may preempt one another.                *)
(***************************************************************************)
EXTENDS Naturals

CONSTANTS Readers, \* the contexts that call monotonic_ticks()
          Word,    \* how many values a word has
          Start,   \* <<wall_high, wall_low>> when the first reader starts
          MaxTicks \* bound on the ticks of the run

ASSUME WordAssumption == Word \in Nat \ {0}
ASSUME StartAssumption ==
    Start \in (0 .. Word - 1) \X (0 .. Word - 1)
ASSUME MaxTicksAssumption == MaxTicks \in Nat

VARIABLES
    wall_high, wall_low, \* the two words of the count
    irq,   \* how far systick_irq is: "idle", "carry"
    ticks, \* history: the number of milliseconds counted
    pc,    \* where each reader is: "idle", "high1", "low", "high2"
    h1, l, \* the locals of monotonic_ticks
    since, \* history: ticks when the call in progress began
    latest, \* history: the latest time any call has returned
    floor  \* history: latest when the call in progress began

clockVars  == <<wall_high, wall_low, irq, ticks>>
readerVars == <<pc, h1, l, since, latest, floor>>
vars       == <<clockVars, readerVars>>

\* The 64-bit count of a high and a low word.
Milliseconds(high, low) == high * Word + low

ClockInit ==
    /\ wall_high = Start[1] /\ wall_low = Start[2]
    /\ irq = "idle"
    /\ ticks = Milliseconds(Start[1], Start[2])
    /\ pc = [r \in Readers |-> "idle"]
    /\ h1 = [r \in Readers |-> 0] /\ l = [r \in Readers |-> 0]
    /\ since = [r \in Readers |-> 0]
    /\ floor = [r \in Readers |-> 0]
    /\ latest = 0
-----------------------------------------------------------------------------
(***************************************************************************)
(* systick_irq, once a millisecond.                                        *)
(***************************************************************************)
LastTick == Milliseconds(Start[1], Start[2]) + MaxTicks

IncrementLow_NoCarry ==
    /\ irq = "idle" /\ ticks < LastTick
    /\ wall_low' = (wall_low + 1) % Word
    /\ ticks' = ticks + 1
    /\ UNCHANGED <<irq, wall_high, readerVars>>
IncrementLow ==
    /\ irq = "idle" /\ ticks < LastTick
    /\ wall_low' = (wall_low + 1) % Word
    /\ \/ /\ wall_low' = 0
          /\ irq' = "carry"
          /\ UNCHANGED ticks
       \/ /\ wall_low' # 0
          /\ ticks' = ticks + 1
          /\ UNCHANGED irq
    /\ UNCHANGED <<wall_high, readerVars>>

\* The high word wraps after 2^64 ms: MaxTicks keeps a run below that.
IncrementHigh ==
    /\ irq = "carry"
    /\ wall_high' = wall_high + 1
    /\ ticks' = ticks + 1
    /\ irq' = "idle"
    /\ UNCHANGED <<wall_low, readerVars>>

(***************************************************************************)
(* monotonic_ticks(): high, low, high again, until the two highs agree.    *)
(***************************************************************************)
ReaderMayRun_Preempts == TRUE
ReaderMayRun == irq = "idle"

Goto(r, s) == pc' = [pc EXCEPT ![r] = s]

Call(r) ==
    /\ ReaderMayRun /\ pc[r] = "idle"
    /\ since' = [since EXCEPT ![r] = ticks]
    /\ floor' = [floor EXCEPT ![r] = latest]
    /\ Goto(r, "high1")
    /\ UNCHANGED <<clockVars, h1, l, latest>>

ReadHigh1(r) ==
    /\ ReaderMayRun /\ pc[r] = "high1"
    /\ h1' = [h1 EXCEPT ![r] = wall_high]
    /\ Goto(r, "low")
    /\ UNCHANGED <<clockVars, l, since, latest, floor>>

ReadLow(r) ==
    /\ ReaderMayRun /\ pc[r] = "low"
    /\ l' = [l EXCEPT ![r] = wall_low]
    /\ Goto(r, "high2")
    /\ UNCHANGED <<clockVars, h1, since, latest, floor>>

\* The conversion to nanoseconds keeps the order of the results (it
\* multiplies by 10^6, and overflows after 292 years), and is left out.
Returned(r) == Milliseconds(h1[r], l[r])

Return(r) ==
    /\ latest' = IF Returned(r) > latest THEN Returned(r) ELSE latest
    /\ Goto(r, "idle")
    /\ UNCHANGED <<clockVars, h1, l, since, floor>>

\* The highs agree: return.
ReadHigh2_NoCheck(r) ==
    /\ ReaderMayRun /\ pc[r] = "high2"
    /\ Return(r)
ReadHigh2(r) ==
    /\ ReaderMayRun /\ pc[r] = "high2"
    /\ wall_high = h1[r]
    /\ Return(r)

\* The highs differ: the low word may belong to either, so read again.
Retry(r) ==
    /\ ReaderMayRun /\ pc[r] = "high2"
    /\ wall_high # h1[r]
    /\ Goto(r, "high1")
    /\ UNCHANGED <<clockVars, h1, l, since, latest, floor>>

Reader(r) == Call(r) \/ ReadHigh1(r) \/ ReadLow(r) \/ ReadHigh2(r) \/ Retry(r)

ClockNext == IncrementLow \/ IncrementHigh \/ \E r \in Readers : Reader(r)

ClockSpec == ClockInit /\ [][ClockNext]_vars
-----------------------------------------------------------------------------
(***************************************************************************)
(* Properties.                                                             *)
(***************************************************************************)
ClockTypeOK ==
    /\ wall_high \in Nat /\ wall_low \in 0 .. Word - 1
    /\ irq \in {"idle", "carry"}
    /\ ticks \in Nat
    /\ pc \in [Readers -> {"idle", "high1", "low", "high2"}]
    /\ h1 \in [Readers -> Nat] /\ l \in [Readers -> 0 .. Word - 1]
    /\ since \in [Readers -> Nat] /\ floor \in [Readers -> Nat]
    /\ latest \in Nat

(***************************************************************************)
(* The two words are the count of milliseconds, but inside systick_irq.    *)
(***************************************************************************)
WordsCount ==
    IF irq = "idle"
      THEN ticks = Milliseconds(wall_high, wall_low)
      ELSE wall_low = 0 /\ ticks + 1 = Milliseconds(wall_high + 1, 0)

\* Reader r's call returns in this step.
Returns(r) == pc[r] # "idle" /\ pc'[r] = "idle"

(***************************************************************************)
(* No torn read: wherever the interrupt falls among the three loads, and   *)
(* however often, now() returns a time at which the clock stood during the *)
(* call.                                                                   *)
(***************************************************************************)
ReadsAreAtomic ==
    [][\A r \in Readers :
         Returns(r) => since[r] <= Returned(r) /\ Returned(r) <= ticks]_vars

(***************************************************************************)
(* Steady (steady_clock.hpp:18): a call that begins after another one has  *)
(* returned, in the same context or in another, returns no earlier time.   *)
(***************************************************************************)
NeverGoesBack ==
    [][\A r \in Readers : Returns(r) => floor[r] <= Returned(r)]_vars

(***************************************************************************)
(* The inductive invariant: the words count, a reader's first high word is *)
(* not ahead of the clock, and, as long as the high word has not moved on, *)
(* what the reader has read of the count is a time during its call.        *)
(***************************************************************************)
LoadsHold ==
    \A r \in Readers :
        /\ floor[r] <= since[r] /\ since[r] <= ticks
        /\ pc[r] = "high2" /\ h1[r] = wall_high
              => since[r] <= Returned(r) /\ Returned(r) <= ticks
        /\ pc[r] \in {"low", "high2"} => h1[r] <= wall_high

ClockInv ==
    /\ ClockTypeOK
    /\ WordsCount
    /\ latest <= ticks
    /\ LoadsHold
=============================================================================
