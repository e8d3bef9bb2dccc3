------------------------------ MODULE DwtClock ------------------------------
(***************************************************************************)
(* The steady clock of the STM32F7 parts: the DWT cycle counter, a word of *)
(* Word values (2^32), scaled to nanoseconds by SystemCoreClock.           *)
(* chrono_clocks/include/chrono_clocks/traits/stm32_dwt_traits.hpp         *)
(*                                                                         *)
(* dwt_high and dwt_last, which were to extend the counter, are private    *)
(* and never assigned: the loop of monotonic_ticks always ends at its      *)
(* first turn, and a call depends on the one load of CYCCNT.               *)
(***************************************************************************)
EXTENDS Naturals

CONSTANTS Word,       \* how many values a uint32_t has
          Second,     \* nanoseconds in a second
          CoreClocks, \* the frequencies SystemCoreClock may have
          MaxCycles   \* bound on the cycles counted in a run

ASSUME WordAssumption       == Word \in Nat \ {0}
ASSUME SecondAssumption     == Second \in 1 .. Word
ASSUME CoreClocksAssumption == CoreClocks \subseteq Nat \ {0}
ASSUME MaxCyclesAssumption  == MaxCycles \in Nat

VARIABLES
    enabled,         \* has init_dwt run?
    CYCCNT,          \* the hardware counter
    dwt_high,        \* the static member
    SystemCoreClock, \* what CMSIS says the core's frequency is
    cycles,          \* history: the cycles since init_dwt
    latest           \* history: what the last call of now() returned

vars == <<enabled, CYCCNT, dwt_high, SystemCoreClock, cycles, latest>>

DwtInit ==
    /\ enabled = FALSE
    /\ CYCCNT = 0 /\ dwt_high = 0
    /\ SystemCoreClock \in CoreClocks
    /\ cycles = 0
    /\ latest = 0

\* init(), which a program calls once, at its start.
init_dwt ==
    /\ ~enabled
    /\ enabled' = TRUE
    /\ CYCCNT' = 0
    /\ UNCHANGED <<dwt_high, SystemCoreClock, cycles, latest>>

\* A core cycle.
Cycle ==
    /\ enabled /\ cycles < MaxCycles
    /\ CYCCNT' = (CYCCNT + 1) % Word
    /\ cycles' = cycles + 1
    /\ UNCHANGED <<enabled, dwt_high, SystemCoreClock, latest>>

\* The application reconfigures its clock tree and calls
\* SystemCoreClockUpdate(), of CMSIS.
Rescale ==
    /\ SystemCoreClock' \in CoreClocks \ {SystemCoreClock}
    /\ UNCHANGED <<enabled, CYCCNT, dwt_high, cycles, latest>>

\* cycles * 1'000'000'000ull / SystemCoreClock, in 64 bits.
Nanoseconds_DivideFirst(count) == (count \div SystemCoreClock) * Second
Nanoseconds(count) == ((count * Second) % (Word * Word)) \div SystemCoreClock

\* What a call of monotonic_ticks returns now.
now == Nanoseconds(dwt_high * Word + CYCCNT)

monotonic_ticks ==
    /\ latest' = now
    /\ UNCHANGED <<enabled, CYCCNT, dwt_high, SystemCoreClock, cycles>>

DwtNext == init_dwt \/ Cycle \/ Rescale \/ monotonic_ticks

DwtSpec == DwtInit /\ [][DwtNext]_vars
-----------------------------------------------------------------------------
(***************************************************************************)
(* Steady (steady_clock.hpp:18): no call returns less than the one before. *)
(***************************************************************************)
NeverGoesBack == [][latest' >= latest]_vars

(***************************************************************************)
(* What holds until CYCCNT wraps, 19.9 seconds at 216 MHz: now() is the    *)
(* time since init to the nanosecond, at the frequency of the call.  The   *)
(* scaling neither loses precision nor overflows its 64-bit product.       *)
(***************************************************************************)
NowIsExact == cycles < Word => now = (cycles * Second) \div SystemCoreClock
=============================================================================
