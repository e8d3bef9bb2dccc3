---------------------------- MODULE SysTickTimer ----------------------------
(***************************************************************************)
(* The clock of the F1 and F3 against real time: SysTickClock, driven by   *)
(* the SysTick counter as init_systick() sets it up, whose interrupt the   *)
(* application may keep out for a while, and by a core clock that the      *)
(* application changes.                                                    *)
(* chrono_clocks/include/chrono_clocks/traits/stm32_systick_traits.hpp     *)
(*                                                                         *)
(* Real time is kept in Units of a second that every cycle and every tick  *)
(* is a whole number of.  The core clocks are whole numbers of kHz, as     *)
(* those are that an 8 MHz oscillator and the PLL make: with any other the *)
(* division of init_systick() would make every tick too short.             *)
(***************************************************************************)
EXTENDS SysTickClock

CONSTANTS Frequencies,    \* the core clocks, in cycles per second
          TicksPerSecond, \* 1000
          Unit,           \* Units of real time in a second
          MaxDelay,       \* how many cycles the interrupt may be kept out
          MaxInits,       \* bound: calls of init()
          MaxCycles       \* bound: cycles after the last of them

ASSUME TimerAssumption ==
    /\ TicksPerSecond \in Nat \ {0} /\ Unit \in Nat \ {0}
    /\ Unit % TicksPerSecond = 0
    /\ \A f \in Frequencies : /\ f \in Nat /\ f \div TicksPerSecond >= 2
                              /\ f % TicksPerSecond = 0 /\ Unit % f = 0
    /\ MaxDelay \in Nat /\ MaxInits \in Nat /\ MaxCycles \in Nat

VARIABLES
    SystemCoreClock, \* what the application says the core clock is
    ENABLE,          \* SysTick->CTRL
    LOAD, VAL,       \* SysTick->LOAD and VAL
    pending,         \* the interrupt, raised and not taken yet
    delay,           \* cycles that the interrupt has been kept out
    cycles,          \* since init()
    inits,           \* calls of init()
    elapsed,         \* real time since the first of them
    clock,           \* SystemCoreClock as init() found it
    drifted,         \* history: has the counter run at another clock?
    lost             \* history: has an interrupt been raised over another?

regVars   == <<ENABLE, LOAD, VAL>>
realVars  == <<cycles, inits, elapsed, clock, drifted, lost>>
chipVars  == <<SystemCoreClock, regVars, pending, delay, realVars>>
timerVars == <<vars, chipVars>>

TimerInit ==
    /\ ClockInit
    /\ SystemCoreClock \in Frequencies
    /\ ENABLE = FALSE /\ LOAD = 0 /\ VAL = 0
    /\ pending = FALSE /\ delay = 0
    /\ cycles = 0 /\ inits = 0 /\ elapsed = 0
    /\ clock = SystemCoreClock /\ drifted = FALSE /\ lost = FALSE

\* init().  A store to VAL, whatever is stored, clears the counter.
init_systick_OneTooMany ==
    /\ inits < MaxInits
    /\ LOAD' = SystemCoreClock \div TicksPerSecond
    /\ VAL' = 0 /\ ENABLE' = TRUE
    /\ cycles' = 0 /\ inits' = inits + 1 /\ clock' = SystemCoreClock
    /\ UNCHANGED <<vars, SystemCoreClock, pending, delay, elapsed, drifted,
                   lost>>
init_systick_KeepsCounting ==
    /\ inits < MaxInits
    /\ LOAD' = SystemCoreClock \div TicksPerSecond - 1
    /\ ENABLE' = TRUE
    /\ cycles' = 0 /\ inits' = inits + 1 /\ clock' = SystemCoreClock
    /\ UNCHANGED <<vars, SystemCoreClock, VAL, pending, delay, elapsed,
                   drifted, lost>>
init_systick ==
    /\ inits < MaxInits
    /\ LOAD' = SystemCoreClock \div TicksPerSecond - 1
    /\ VAL' = 0 /\ ENABLE' = TRUE
    /\ cycles' = 0 /\ inits' = inits + 1 /\ clock' = SystemCoreClock
    /\ UNCHANGED <<vars, SystemCoreClock, pending, delay, elapsed, drifted,
                   lost>>

\* The counter reloads from zero, and reaching zero raises the interrupt,
\* which stays raised, once, until it is taken.
Cycle ==
    /\ ENABLE /\ cycles < MaxCycles
    /\ pending => delay < MaxDelay
    /\ VAL' = IF VAL = 0 THEN LOAD ELSE VAL - 1
    /\ pending' = (pending \/ VAL = 1)
    /\ delay' = IF pending THEN delay + 1 ELSE 0
    /\ cycles' = cycles + 1
    /\ elapsed' = elapsed + Unit \div SystemCoreClock
    /\ drifted' = (drifted \/ clock # SystemCoreClock)
    /\ lost' = (lost \/ (pending /\ VAL = 1))
    /\ UNCHANGED <<vars, SystemCoreClock, ENABLE, LOAD, inits, clock>>

\* The application changes the core clock.  Nothing tells SysTick.
Rescale ==
    /\ \E f \in Frequencies \ {SystemCoreClock} : SystemCoreClock' = f
    /\ UNCHANGED <<vars, regVars, pending, delay, realVars>>

\* systick_irq() is entered, and the interrupt is no longer pending.
Enter ==
    /\ pending
    /\ IncrementLow
    /\ pending' = FALSE /\ delay' = 0
    /\ UNCHANGED <<SystemCoreClock, regVars, realVars>>

Carry == IncrementHigh /\ UNCHANGED chipVars

Read(r) == Reader(r) /\ UNCHANGED chipVars

TimerNext ==
    \/ init_systick \/ Cycle \/ Rescale
    \/ Enter \/ Carry
    \/ \E r \in Readers : Read(r)

TimerSpec == TimerInit /\ [][TimerNext]_timerVars
-----------------------------------------------------------------------------
(***************************************************************************)
(* Properties.                                                             *)
(***************************************************************************)
\* The interrupts that the counter has raised, the one in progress and the
\* one that waits among them.
Raised == (ticks - Milliseconds(Start[1], Start[2]))
            + (IF irq = "carry" THEN 1 ELSE 0) + (IF pending THEN 1 ELSE 0)
Tick == Unit \div TicksPerSecond

(***************************************************************************)
(* The count follows real time: it is never ahead, so that no timer is     *)
(* early, and behind by less than a tick for each call of init(), which    *)
(* cuts a tick short.  Two things break it, and neither is in this code's  *)
(* hands: a core clock changed without another init(), and an interrupt    *)
(* kept out for too long.                                                  *)
(***************************************************************************)
TimeKept ==
    inits > 0 /\ ~drifted /\ ~lost =>
        /\ Raised * Tick <= elapsed
        /\ elapsed < (Raised + inits) * Tick

(***************************************************************************)
(* A tick is lost only if the interrupt has been kept out for a whole      *)
(* period, whenever init() is called again.                                *)
(***************************************************************************)
LostOnlyAfterWholePeriod ==
    [][lost' /\ ~lost => delay >= LOAD]_timerVars

\* The inductive invariant behind it: what is left of the period, together
\* with the delay, makes a period.
PeriodInv ==
    /\ SystemCoreClock \in Frequencies
    /\ LOAD \in Nat /\ VAL \in Nat /\ delay \in Nat /\ VAL <= LOAD
    /\ pending \in BOOLEAN
    /\ pending /\ VAL # 0 => delay + VAL > LOAD

(***************************************************************************)
(* The inductive invariant behind TimeKept: the ticks raised and the part  *)
(* of a period that the counter has counted off since make up real time,   *)
(* but for the parts that later calls of init() threw away.                *)
(***************************************************************************)
Phase     == IF VAL = 0 THEN 0 ELSE LOAD + 1 - VAL
CycleTime == Unit \div clock

TimeInv ==
    /\ PeriodInv
    /\ clock \in Frequencies
    /\ elapsed \in Nat /\ inits \in Nat
    /\ inits = 0 => ~ENABLE /\ ~pending /\ Raised = 0 /\ elapsed = 0
    /\ inits > 0 => LOAD + 1 = clock \div TicksPerSecond
    /\ inits > 0 /\ ~drifted /\ ~lost =>
         /\ Raised * Tick + Phase * CycleTime <= elapsed
         /\ elapsed <= (Raised + inits - 1) * Tick + Phase * CycleTime
=============================================================================
