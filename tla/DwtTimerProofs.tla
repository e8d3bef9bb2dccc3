--------------------------- MODULE DwtTimerProofs ---------------------------
(***************************************************************************)
(* Proofs about DwtClock and DwtTimer, for a counter of any width, any     *)
(* core clocks and durations, any number of coroutines and any number of   *)
(* laps of the counter.                                                    *)
(***************************************************************************)
EXTENDS DwtTimer, TLAPS

-----------------------------------------------------------------------------
(***************************************************************************)
(* Arithmetic: divisions that drop the remainder, and laps.                *)
(***************************************************************************)
LEMMA Division ==
    ASSUME NEW a \in Nat, NEW f \in Nat \ {0}
    PROVE  /\ a \div f \in Nat /\ a % f \in 0 .. f - 1
           /\ a = (a \div f) * f + (a % f)
  OBVIOUS

LEMMA FloorType ==
    ASSUME NEW a \in Nat, NEW f \in Nat \ {0}
    PROVE  /\ a \div f \in Nat
           /\ (a \div f) * f <= a /\ a < (a \div f + 1) * f
<1> DEFINE q == a \div f
<1>1. q \in Nat /\ a % f \in 0 .. f - 1 /\ a = q * f + (a % f)
  BY Division
<1> HIDE DEF q
<1>2. (q + 1) * f = q * f + f /\ q * f \in Nat
  BY <1>1
<1> QED
  BY <1>1, <1>2 DEF q

\* A quotient is below n exactly if the dividend is below n times f.
LEMMA FloorBelow ==
    ASSUME NEW a \in Nat, NEW f \in Nat \ {0}, NEW n \in Int
    PROVE  (a \div f < n) <=> (a < n * f)
<1> DEFINE q == a \div f
<1>1. q \in Nat /\ q * f <= a /\ a < (q + 1) * f
  BY FloorType
<1> HIDE DEF q
<1>2. /\ n * f \in Int /\ q * f \in Int /\ (q + 1) * f \in Int
  BY <1>1
<1>3. q < n => (q + 1) * f <= n * f
  BY <1>1
<1>4. q >= n => q * f >= n * f
  BY <1>1
<1> QED
  BY <1>1, <1>2, <1>3, <1>4 DEF q

LEMMA FloorSum ==
    ASSUME NEW a \in Nat, NEW b \in Nat, NEW f \in Nat \ {0}
    PROVE  (a + b) \div f \in {a \div f + b \div f, a \div f + b \div f + 1}
<1> DEFINE p == a \div f
           q == b \div f
           s == (a + b) \div f
<1>1. /\ p \in Nat /\ p * f <= a /\ a < (p + 1) * f
      /\ q \in Nat /\ q * f <= b /\ b < (q + 1) * f
      /\ a + b \in Nat /\ s \in Nat
  BY FloorType
<1>2. \A n \in Int : (s < n) <=> (a + b < n * f)
  BY <1>1, FloorBelow
<1> HIDE DEF p, q, s
<1>3. /\ (p + 1) * f = p * f + f /\ (q + 1) * f = q * f + f
      /\ (p + q) * f = p * f + q * f
      /\ (p + q + 2) * f = p * f + q * f + 2 * f
      /\ p * f \in Nat /\ q * f \in Nat
  BY <1>1
<1>4. a + b >= (p + q) * f /\ a + b < (p + q + 2) * f
  BY <1>1, <1>3
<1>5. s >= p + q /\ s < p + q + 2
  BY <1>1, <1>2, <1>4
<1> QED
  BY <1>1, <1>5 DEF p, q, s

LEMMA FloorMonotone ==
    ASSUME NEW a \in Nat, NEW b \in Nat, NEW f \in Nat \ {0}, a <= b
    PROVE  a \div f <= b \div f
<1> DEFINE p == a \div f
           q == b \div f
<1>1. p \in Nat /\ p * f <= a /\ q \in Nat
  BY FloorType
<1>2. (q < p) <=> (b < p * f)
  BY <1>1, FloorBelow
<1> HIDE DEF p, q
<1>3. p * f \in Nat
  BY <1>1
<1> QED
  BY <1>1, <1>2, <1>3 DEF p, q

\* A number has one quotient and one remainder.
LEMMA DivisionIsUnique ==
    ASSUME NEW q \in Nat, NEW w \in Nat \ {0}, NEW r \in 0 .. w - 1
    PROVE  /\ (q * w + r) \div w = q /\ (q * w + r) % w = r
<1> DEFINE n == q * w + r
           p == n \div w
<1>1. n \in Nat /\ n = p * w + (n % w) /\ p \in Nat /\ n % w \in 0 .. w - 1
  <2>1. n \in Nat
    OBVIOUS
  <2> HIDE DEF n
  <2> QED
    BY <2>1, Division DEF p
<1>2. q < p \/ p < q \/ p = q
  BY <1>1
<1>3. q < p => q * w + w <= p * w
  <2> HIDE DEF p
  <2>1. p * w = q * w + (p - q) * w
    BY <1>1
  <2>2. q < p => (p - q) * w >= w
    BY <1>1
  <2> QED
    BY <1>1, <2>1, <2>2
<1>4. p < q => p * w + w <= q * w
  <2> HIDE DEF p
  <2>1. q * w = p * w + (q - p) * w
    BY <1>1
  <2>2. p < q => (q - p) * w >= w
    BY <1>1
  <2> QED
    BY <1>1, <2>1, <2>2
<1>5. p = q
  <2>1. q * w \in Nat /\ p * w \in Nat 
    BY <1>1
  <2> HIDE DEF p
  <2> QED
    BY <1>1, <1>2, <1>3, <1>4, <2>1
<1>6. n % w = r
  BY <1>1, <1>5
<1> QED
  BY <1>5, <1>6

LEMMA NextLap ==
    ASSUME NEW n \in Nat, NEW w \in Nat \ {0}
    PROVE  /\ n \div w \in Nat /\ n % w \in 0 .. w - 1
           /\ n = (n \div w) * w + (n % w)
           /\ ((n % w) + 1) % w = (n + 1) % w
           /\ n % w < w - 1 => /\ (n + 1) % w = (n % w) + 1
                               /\ (n + 1) \div w = n \div w
           /\ n % w = w - 1 => /\ (n + 1) % w = 0
                               /\ (n + 1) \div w = n \div w + 1
<1> DEFINE q == n \div w
           r == n % w
<1>1. q \in Nat /\ r \in 0 .. w - 1 /\ n = q * w + r
  BY Division
<1> HIDE DEF q, r
<1>2. CASE r < w - 1
  <2>1. r + 1 \in 0 .. w - 1 /\ n + 1 = q * w + (r + 1)
    BY <1>1, <1>2
  <2>2. (n + 1) \div w = q /\ (n + 1) % w = r + 1
    BY <1>1, <2>1, DivisionIsUnique
  <2>3. (r + 1) % w = r + 1
    BY <2>1
  <2> QED
    BY <1>1, <1>2, <2>2, <2>3 DEF q, r
<1>3. CASE r = w - 1
  <2>1. q + 1 \in Nat /\ 0 \in 0 .. w - 1 /\ n + 1 = (q + 1) * w + 0
    BY <1>1, <1>3
  <2>2. (n + 1) \div w = q + 1 /\ (n + 1) % w = 0
    BY <1>1, <2>1, DivisionIsUnique
  <2>3. r + 1 = w
    BY <1>1, <1>3
  <2>4. w % w = 0
    OBVIOUS
  <2> QED
    BY <1>1, <1>3, <2>2, <2>3, <2>4 DEF q, r
<1> QED
  BY <1>1, <1>2, <1>3
-----------------------------------------------------------------------------
USE WordAssumption, SecondAssumption, CoreClocksAssumption, TimerAssumption

\* The 64-bit product does not overflow for any count the counter can show.
LEMMA NanosecondsExact ==
    ASSUME SystemCoreClock \in CoreClocks, NEW n \in Nat, n < Word
    PROVE  /\ n * Second \in Nat
           /\ Nanoseconds(n) = (n * Second) \div SystemCoreClock
           /\ Nanoseconds(n) \in Nat
<1>1. /\ Second \in Nat /\ Second <= Word /\ Word \in Nat \ {0}
      /\ SystemCoreClock \in Nat \ {0}
  OBVIOUS
<1>2. n * Second \in Nat
  BY <1>1
<1>3. n * Second <= n * Word /\ n * Word < Word * Word
  BY <1>1
<1>4. n * Second < Word * Word /\ Word * Word \in Nat
  BY <1>1, <1>2, <1>3
<1> DEFINE a == n * Second
           b == Word * Word
<1>5. a % b = a
  <2>1. a \in Nat /\ b \in Nat /\ a < b
    BY <1>2, <1>4
  <2> HIDE DEF a, b
  <2> QED
    BY <2>1
<1> QED
  BY <1>1, <1>2, <1>5, FloorType DEF Nanoseconds

LEMMA Reading ==
    ASSUME CounterInv
    PROVE  /\ SystemCoreClock \in Nat \ {0}
           /\ Lap \in Nat /\ CYCCNT \in 0 .. Word - 1
           /\ cycles \in Nat /\ cycles = Lap * Word + CYCCNT
           /\ CYCCNT * Second \in Nat
           /\ now = (CYCCNT * Second) \div SystemCoreClock /\ now \in Nat
           /\ Elapsed = (cycles * Second) \div SystemCoreClock
           /\ Elapsed \in Nat
<1>1. /\ SystemCoreClock \in Nat \ {0}
      /\ cycles \in Nat /\ CYCCNT = cycles % Word /\ dwt_high = 0
  BY DEF CounterInv
<1>2. /\ Lap \in Nat /\ CYCCNT \in 0 .. Word - 1
      /\ cycles = Lap * Word + CYCCNT
  BY <1>1, Division DEF Lap
<1>3. dwt_high * Word + CYCCNT = CYCCNT
  BY <1>1, <1>2
<1>4. /\ CYCCNT * Second \in Nat
      /\ now = (CYCCNT * Second) \div SystemCoreClock /\ now \in Nat
  BY <1>1, <1>2, <1>3, NanosecondsExact DEF CounterInv, now
<1>5. cycles * Second \in Nat
  BY <1>1
<1>6. Elapsed \in Nat
  BY <1>1, <1>5, FloorType DEF Elapsed
<1> QED
  BY <1>1, <1>2, <1>4, <1>6 DEF Elapsed

LEMMA CounterStep ==
    ASSUME CounterInv, [DwtNext]_vars
    PROVE  CounterInv'
<1>1. CASE init_dwt
  BY <1>1 DEF init_dwt, CounterInv
<1>2. CASE Cycle
  <2>1. /\ CYCCNT' = (CYCCNT + 1) % Word /\ cycles' = cycles + 1
        /\ UNCHANGED <<dwt_high, SystemCoreClock, enabled>> /\ enabled
    BY <1>2 DEF Cycle
  <2>2. cycles \in Nat /\ CYCCNT = cycles % Word
    BY DEF CounterInv
  <2>3. ((cycles % Word) + 1) % Word = (cycles + 1) % Word
    BY <2>2, NextLap
  <2> QED
    BY <2>1, <2>2, <2>3 DEF CounterInv
<1>3. CASE Rescale
  BY <1>3 DEF Rescale, CounterInv
<1>4. CASE monotonic_ticks \/ UNCHANGED vars
  BY <1>4 DEF monotonic_ticks, vars, CounterInv
<1> QED
  BY <1>1, <1>2, <1>3, <1>4 DEF DwtNext

LEMMA CounterInitInv == DwtInit => CounterInv
  BY DEF DwtInit, CounterInv

(***************************************************************************)
(* The counter register holds the cycles counted modulo its width, and the *)
(* core clock is one that the application may choose.                      *)
(***************************************************************************)
THEOREM CounterInvariant == DwtSpec => []CounterInv
  BY CounterInitInv, CounterStep, PTL DEF DwtSpec

(***************************************************************************)
(* Until the counter wraps, now() is the time since init() to the          *)
(* nanosecond: the product of monotonic_ticks never overflows 64 bits, and *)
(* nothing is lost but the last division's remainder, for any core clock   *)
(* and after any change of it (stm32_dwt_traits.hpp).                      *)
(***************************************************************************)
THEOREM ClockIsExact == DwtSpec => []NowIsExact
<1>1. CounterInv => NowIsExact
  <2> SUFFICES ASSUME CounterInv, cycles < Word
               PROVE  now = (cycles * Second) \div SystemCoreClock
    BY DEF NowIsExact
  <2>1. cycles \in Nat /\ CYCCNT = cycles % Word
    BY DEF CounterInv
  <2>2. CYCCNT = cycles
    BY <2>1
  <2> QED
    BY <2>2, Reading
<1> QED
  BY <1>1, CounterInvariant, PTL

(***************************************************************************)
(* The clock under a timer is the clock of DwtClock: what holds of that    *)
(* one's readings holds of those that the timer is given.                  *)
(***************************************************************************)
THEOREM TimerKeepsClock == Spec => DwtSpec
<1>1. Init => DwtInit
  BY DEF Init
<1>2. [Next]_allVars => [DwtNext]_vars
  BY DEF Next, allVars, Start, Run, Set, Suspend, GoOn, Poll, DwtNext
<1> QED
  BY <1>1, <1>2, PTL DEF Spec, DwtSpec
-----------------------------------------------------------------------------
(***************************************************************************)
(* Deadlines.  None lies beyond what a time point of MaxRep can hold: on   *)
(* the targets, none is further ahead than 292 years, less a lap.          *)
(***************************************************************************)
DeadlinesFit ==
    \A f \in CoreClocks, n \in 0 .. Word - 1, d \in Durations :
        (n * Second) \div f + d <= MaxRep

\* A sum that a time point can hold is computed exactly.
LEMMA PlusExact ==
    ASSUME NEW t \in Nat, NEW d \in Nat, t + d <= MaxRep
    PROVE  T!Plus(t, d) = t + d
<1> DEFINE x == (t + d) + MaxRep + 1
           m == 2 * MaxRep + 2
<1>1. x \in 0 .. m - 1 /\ m \in Nat /\ m > 0
  OBVIOUS
<1>2. x % m = x
  <2> HIDE DEF x, m
  <2> QED
    BY <1>1
<1> QED
  BY <1>2 DEF T!Plus

\* Real time is the laps and the reading, to a nanosecond.
LEMMA ElapsedSplit ==
    ASSUME CounterInv
    PROVE  Elapsed \in {now + LapTime(Lap), now + LapTime(Lap) + 1}
<1>1. /\ SystemCoreClock \in Nat \ {0} /\ Lap \in Nat
      /\ CYCCNT \in 0 .. Word - 1 /\ cycles = Lap * Word + CYCCNT
      /\ CYCCNT * Second \in Nat
      /\ now = (CYCCNT * Second) \div SystemCoreClock
      /\ Elapsed = (cycles * Second) \div SystemCoreClock
  BY Reading
<1>2. Lap * Word \in Nat /\ Lap * Word * Second \in Nat
  BY <1>1
<1>3. cycles * Second = CYCCNT * Second + Lap * Word * Second
  BY <1>1, <1>2
<1>4. /\ now \in Nat /\ LapTime(Lap) \in Nat
      /\ Elapsed \in {now + LapTime(Lap), now + LapTime(Lap) + 1}
  BY <1>1, <1>2, <1>3, FloorSum, FloorType DEF LapTime
<1> QED
  BY <1>4

LEMMA LapTimeGrows ==
    ASSUME SystemCoreClock \in CoreClocks, NEW m \in Nat, NEW n \in Nat, m <= n
    PROVE  /\ LapTime(m) \in Nat /\ LapTime(n) \in Nat
           /\ LapTime(m) <= LapTime(n)
<1>1. /\ m * Word \in Nat /\ m * Word * Second \in Nat
      /\ n * Word \in Nat /\ n * Word * Second \in Nat
  OBVIOUS
<1>2. m * Word <= n * Word
  OBVIOUS
<1>3. m * Word * Second <= n * Word * Second
  BY <1>1, <1>2
<1> QED
  BY <1>1, <1>3, FloorType, FloorMonotone DEF LapTime

\* A counted cycle ends the lap or does not.
LEMMA CycleLaps ==
    ASSUME CounterInv, Cycle
    PROVE  /\ cycles' = cycles + 1
           /\ \/ CYCCNT < Word - 1 /\ CYCCNT' = CYCCNT + 1 /\ Lap' = Lap
              \/ CYCCNT = Word - 1 /\ CYCCNT' = 0 /\ Lap' = Lap + 1
<1>1. /\ CYCCNT' = (CYCCNT + 1) % Word /\ cycles' = cycles + 1
      /\ cycles \in Nat /\ CYCCNT = cycles % Word
  BY DEF CounterInv, Cycle
<1>2. /\ CYCCNT \in 0 .. Word - 1
      /\ ((cycles % Word) + 1) % Word = (cycles + 1) % Word
      /\ CYCCNT < Word - 1 => /\ (cycles + 1) % Word = CYCCNT + 1
                              /\ (cycles + 1) \div Word = cycles \div Word
      /\ CYCCNT = Word - 1 => /\ (cycles + 1) % Word = 0
                              /\ (cycles + 1) \div Word = cycles \div Word + 1
  BY <1>1, NextLap
<1>3. CYCCNT' = (cycles + 1) % Word /\ Lap' = (cycles + 1) \div Word
  BY <1>1, <1>2 DEF Lap
<1>4. CYCCNT < Word - 1 \/ CYCCNT = Word - 1
  BY <1>2
<1> QED
  BY <1>1, <1>2, <1>3, <1>4 DEF Lap

\* What a step of the timer leaves as it is.
LEMMA SameClock ==
    ASSUME UNCHANGED vars
    PROVE  /\ UNCHANGED <<enabled, CYCCNT, dwt_high, SystemCoreClock, cycles>>
           /\ UNCHANGED <<now, Lap, Elapsed>>
           /\ \A n : Nanoseconds(n)' = Nanoseconds(n)
           /\ \A n : LapTime(n)' = LapTime(n)
           /\ PollTime' = PollTime
  BY DEF vars, now, Nanoseconds, Lap, Elapsed, LapTime, PollTime

LEMMA DeadlineStep ==
    ASSUME DeadlinesFit, CounterInv, DeadlineInv, [Next]_allVars
    PROVE  DeadlineInv'
<1>0. /\ deadline_ \in Nat /\ realDue \in Nat
      /\ setLap \in Nat /\ waitLap \in Nat /\ setLap <= Lap
      /\ realDue \in {deadline_ + LapTime(setLap),
                      deadline_ + LapTime(setLap) + 1}
      /\ state \in [Coroutines -> T!States]
      /\ Lap \in Nat
  BY Reading DEF DeadlineInv
<1>1. ASSUME UNCHANGED SystemCoreClock, Lap' \in Nat, Lap <= Lap',
             UNCHANGED <<deadline_, realDue, setLap>>,
             waitLap' \in Nat, state' \in [Coroutines -> T!States]
      PROVE  DeadlineInv'
  BY <1>0, <1>1 DEF DeadlineInv, LapTime
<1>2. CASE Start
  <2>1. /\ UNCHANGED <<SystemCoreClock, cycles, timer, laps>>
    BY <1>2 DEF Start, init_dwt
  <2> QED
    BY <1>0, <1>1, <2>1 DEF Lap, timer, laps
<1>3. CASE Run
  <2>1. Cycle /\ UNCHANGED <<SystemCoreClock, timer, laps>>
    BY <1>3 DEF Run, Cycle
  <2>2. Lap' \in Nat /\ Lap <= Lap'
    BY <1>0, <2>1, CycleLaps
  <2> QED
    BY <1>0, <1>1, <2>1, <2>2 DEF timer, laps
<1>4. ASSUME NEW d \in Durations, Set(d) PROVE DeadlineInv'
  <2>1. /\ UNCHANGED <<SystemCoreClock, now, Lap, Elapsed>>
        /\ LapTime(Lap)' = LapTime(Lap)
        /\ deadline_' = T!Plus(now, d) /\ state' = state
        /\ realDue' = Elapsed + d /\ setLap' = Lap /\ waitLap' = waitLap
    BY <1>4, SameClock DEF Set, T!ExpiresAfter
  <2>2. /\ SystemCoreClock \in CoreClocks /\ CYCCNT \in 0 .. Word - 1
        /\ now = (CYCCNT * Second) \div SystemCoreClock /\ now \in Nat
        /\ Elapsed \in Nat
    BY Reading DEF CounterInv
  <2>3. now + d <= MaxRep
    BY <2>2 DEF DeadlinesFit
  <2>4. deadline_' = now + d /\ d \in Nat
    BY <2>1, <2>2, <2>3, PlusExact
  <2>5. Elapsed \in {now + LapTime(Lap), now + LapTime(Lap) + 1}
    BY ElapsedSplit
  <2>6. LapTime(Lap) \in Nat /\ LapTime(setLap)' = LapTime(Lap)
    BY <1>0, <2>1, <2>2, LapTimeGrows DEF LapTime
  <2> QED
    BY <1>0, <2>1, <2>2, <2>4, <2>5, <2>6 DEF DeadlineInv
<1>5. ASSUME NEW c \in Coroutines, Suspend(c) PROVE DeadlineInv'
  <2>1. /\ UNCHANGED <<SystemCoreClock, Lap, realDue, setLap, deadline_>>
        /\ waitLap' = Lap
    BY <1>5, SameClock DEF Suspend, T!AwaitSuspend
  <2>2. state' \in [Coroutines -> T!States]
    BY <1>0, <1>5 DEF Suspend, T!AwaitSuspend, T!Replace, T!States
  <2> QED
    BY <1>0, <1>1, <2>1, <2>2
<1>6. CASE GoOn
  <2>1. UNCHANGED <<SystemCoreClock, Lap, realDue, setLap, waitLap>>
    BY <1>6, SameClock DEF GoOn, laps
  <2>2. UNCHANGED deadline_
    BY <1>6 DEF GoOn, T!Cancel, T!Launch, T!AwaitReady, T!GoOn, T!Return,
                T!appVars
  <2>3. state' \in [Coroutines -> T!States]
    BY <1>0, <1>6 DEF GoOn, T!Cancel, T!Strand, T!Launch, T!AwaitReady,
                      T!GoOn, T!Return, T!Goto, T!States
  <2> QED
    BY <1>0, <1>1, <2>1, <2>2, <2>3
<1>7. CASE Poll
  <2>1. UNCHANGED <<SystemCoreClock, Lap, realDue, setLap, waitLap>>
    BY <1>7, SameClock DEF Poll, laps
  <2>2. UNCHANGED deadline_
    BY <1>7 DEF Poll, timer, T!Process, T!appVars
  <2>3. state' \in [Coroutines -> T!States]
    BY <1>0, <1>7 DEF Poll, timer, T!Process, T!Goto, T!States
  <2> QED
    BY <1>0, <1>1, <2>1, <2>2, <2>3
<1>8. CASE UNCHANGED allVars
  <2>1. UNCHANGED <<SystemCoreClock, Lap, timer, laps>>
    BY <1>8, SameClock DEF allVars
  <2> QED
    BY <1>0, <1>1, <2>1 DEF timer, laps
<1> QED
  BY <1>2, <1>3, <1>4, <1>5, <1>6, <1>7, <1>8 DEF Next

LEMMA DeadlineInvariant ==
    ASSUME DeadlinesFit
    PROVE  Spec => [](CounterInv /\ DeadlineInv)
<1>1. Init => CounterInv /\ DeadlineInv
  <2> SUFFICES ASSUME Init PROVE CounterInv /\ DeadlineInv
    OBVIOUS
  <2>1. CounterInv
    BY CounterInitInv DEF Init
  <2>2. /\ deadline_ = 0 /\ realDue = 0 /\ setLap = 0 /\ waitLap = 0
        /\ state = [c \in Coroutines |-> "fresh"]
    BY DEF Init, T!TimerInit
  <2>3. Lap \in Nat
    BY <2>1, Reading
  <2>4. LapTime(0) = 0
    <3>1. SystemCoreClock \in Nat \ {0} /\ 0 * Word * Second = 0
      BY <2>1 DEF CounterInv
    <3> QED
      BY <3>1, DivisionIsUnique DEF LapTime
  <2> QED
    BY <2>1, <2>2, <2>3, <2>4 DEF DeadlineInv, T!States
<1>2. CounterInv /\ [Next]_allVars => CounterInv'
  <2>1. [Next]_allVars => [DwtNext]_vars
    BY DEF Next, allVars, Start, Run, Set, Suspend, GoOn, Poll, DwtNext
  <2> QED
    BY <2>1, CounterStep
<1> QED
  BY <1>1, <1>2, DeadlineStep, PTL DEF Spec

(***************************************************************************)
(* However often the counter wraps before, between and after the calls, no *)
(* wait ends a nanosecond or more before the real time asked for           *)
(* (coro_timer.hpp:35-44 on stm32_dwt_traits.hpp), as long as the          *)
(* deadlines fit in a time point.                                          *)
(***************************************************************************)
THEOREM WaitsAreNeverShort ==
    ASSUME DeadlinesFit
    PROVE  Spec => NeverEarlyInTime
<1>1. CounterInv /\ DeadlineInv /\ [Next]_allVars
        => [\A c \in Coroutines :
              state[c] # "fired" /\ state'[c] = "fired"
                => Elapsed + 1 >= realDue]_allVars
  <2> SUFFICES ASSUME CounterInv, DeadlineInv, Next,
                      NEW c \in Coroutines,
                      state[c] # "fired", state'[c] = "fired"
               PROVE  Elapsed + 1 >= realDue
    OBVIOUS
  <2>1. state \in [Coroutines -> T!States]
    BY DEF DeadlineInv
  <2>2. now >= deadline_
    <3>1. CASE Start \/ Run \/ \E d \in Durations : Set(d)
      BY <3>1 DEF Start, Run, Set, T!ExpiresAfter, timer
    <3>2. CASE GoOn
      BY <2>1, <3>2 DEF GoOn, T!Cancel, T!Strand, T!Launch, T!AwaitReady,
                        T!GoOn, T!Return, T!Goto
    <3>3. CASE Poll
      BY <3>3 DEF Poll, T!Process, timer
    <3>4. CASE \E e \in Coroutines : Suspend(e)
      BY <2>1, <3>4 DEF Suspend, T!AwaitSuspend, T!Replace
    <3> QED
      BY <3>1, <3>2, <3>3, <3>4 DEF Next
  <2>3. /\ setLap \in Nat /\ setLap <= Lap /\ Lap \in Nat
        /\ now \in Nat /\ deadline_ \in Nat
        /\ SystemCoreClock \in CoreClocks
    BY Reading DEF DeadlineInv, CounterInv
  <2>4. /\ LapTime(setLap) \in Nat /\ LapTime(Lap) \in Nat
        /\ LapTime(setLap) <= LapTime(Lap)
    BY <2>3, LapTimeGrows
  <2>5. /\ Elapsed \in {now + LapTime(Lap), now + LapTime(Lap) + 1}
        /\ realDue \in {deadline_ + LapTime(setLap),
                        deadline_ + LapTime(setLap) + 1}
    BY ElapsedSplit DEF DeadlineInv
  <2> QED
    BY <2>2, <2>3, <2>4, <2>5
<1> QED
  BY <1>1, DeadlineInvariant, PTL DEF Spec, NeverEarlyInTime
-----------------------------------------------------------------------------
(***************************************************************************)
(* Punctuality.                                                            *)
(***************************************************************************)
LEMMA PollFacts ==
    ASSUME CounterInv
    PROVE  /\ MaxPoll \in Nat \ {0} /\ MaxPoll * Second \in Nat
           /\ Nanoseconds(MaxPoll) \in Nat
           /\ MaxPoll * Second < (Nanoseconds(MaxPoll) + 1) * SystemCoreClock
           /\ Word - 1 \in Nat /\ (Word - 1) * Second \in Nat
           /\ Nanoseconds(Word - 1) \in Nat
           /\ Nanoseconds(Word - 1) * SystemCoreClock <= (Word - 1) * Second
           /\ SystemCoreClock \in Nat \ {0} /\ SystemCoreClock <= Second
<1>1. /\ SystemCoreClock \in CoreClocks /\ SystemCoreClock \in Nat \ {0}
      /\ SystemCoreClock <= Second
      /\ MaxPoll \in Nat \ {0} /\ MaxPoll < Word
      /\ Word - 1 \in Nat /\ Word - 1 < Word
  BY PollAssumption DEF CounterInv
<1>2. /\ MaxPoll * Second \in Nat
      /\ Nanoseconds(MaxPoll) = (MaxPoll * Second) \div SystemCoreClock
      /\ (Word - 1) * Second \in Nat
      /\ Nanoseconds(Word - 1) = ((Word - 1) * Second) \div SystemCoreClock
  BY <1>1, NanosecondsExact
<1> QED
  BY <1>1, <1>2, FloorType

\* Where the timer has not fired, by a reading below the deadline in the lap
\* in which it was set, the deadline has not passed.
LEMMA ReadBeforeDeadline ==
    ASSUME CounterInv, DeadlineInv, Lap = setLap, now < deadline_
    PROVE  /\ CYCCNT * Second < (deadline_ + 1) * SystemCoreClock
           /\ cycles * Second < (realDue + 1) * SystemCoreClock
<1> DEFINE f == SystemCoreClock
           a == CYCCNT * Second
           b == Lap * Word * Second
           k == LapTime(Lap)
<1>1. /\ f \in Nat \ {0} /\ a \in Nat /\ now = a \div f
      /\ Lap \in Nat /\ CYCCNT \in 0 .. Word - 1
      /\ cycles = Lap * Word + CYCCNT
      /\ deadline_ \in Nat /\ realDue \in Nat /\ realDue >= deadline_ + k
  <2>1. LapTime(Lap) \in Nat
    BY Reading, LapTimeGrows DEF CounterInv
  <2> QED
    BY <2>1, Reading DEF DeadlineInv
<1>2. a < deadline_ * f
  BY <1>1, FloorBelow
<1>3. b \in Nat /\ k \in Nat /\ b < (k + 1) * f
  <2>1. b \in Nat
    BY <1>1
  <2> QED
    BY <1>1, <2>1, FloorType DEF LapTime
<1>4. cycles * Second = a + b
  BY <1>1
<1> HIDE DEF f, a, b, k
<1>5. /\ (deadline_ + 1) * f = deadline_ * f + f
      /\ (k + 1) * f = k * f + f
      /\ (deadline_ + k + 1) * f = deadline_ * f + k * f + f
      /\ deadline_ * f \in Nat /\ k * f \in Nat
  BY <1>1, <1>3
<1>6. (realDue + 1) * f \in Nat /\ (deadline_ + k + 1) * f <= (realDue + 1) * f
  BY <1>1, <1>3
<1>7. a + b < (realDue + 1) * f
  BY <1>1, <1>2, <1>3, <1>5, <1>6
<1> QED
  BY <1>1, <1>2, <1>4, <1>5, <1>7 DEF f, a

\* A deadline set now, however short, has not passed either.
LEMMA SetInTime ==
    ASSUME CounterInv, NEW d \in Nat
    PROVE  /\ CYCCNT * Second < (now + d + 1) * SystemCoreClock
           /\ cycles * Second < (Elapsed + d + 1) * SystemCoreClock
<1> DEFINE f == SystemCoreClock
<1>1. /\ f \in Nat \ {0} /\ CYCCNT * Second \in Nat /\ cycles \in Nat
      /\ now = (CYCCNT * Second) \div f /\ now \in Nat
      /\ Elapsed = (cycles * Second) \div f /\ Elapsed \in Nat
  BY Reading
<1>2. cycles * Second \in Nat
  BY <1>1
<1>3. /\ CYCCNT * Second < (now + 1) * f
      /\ cycles * Second < (Elapsed + 1) * f
  BY <1>1, <1>2, FloorType
<1> HIDE DEF f
<1>4. /\ (now + 1) * f <= (now + d + 1) * f
      /\ (Elapsed + 1) * f <= (Elapsed + d + 1) * f
      /\ (now + 1) * f \in Nat /\ (now + d + 1) * f \in Nat
      /\ (Elapsed + 1) * f \in Nat /\ (Elapsed + d + 1) * f \in Nat
  BY <1>1
<1> QED
  BY <1>1, <1>2, <1>3, <1>4 DEF f

\* What has been counted since process() was called only takes away.
LEMMA UnpolledLess ==
    ASSUME NEW n \in Nat, NEW u \in Nat, NEW b \in Int, n * Second < b
    PROVE  (n - u) * Second < b
<1>1. (n - u) * Second = n * Second - u * Second
  OBVIOUS
<1>2. u * Second \in Nat /\ n * Second \in Nat
  OBVIOUS
<1> QED
  BY <1>1, <1>2

\* A cycle: the last of a lap is too late for a deadline that process()
\* was to meet in it, since process() has been called since.
LEMMA RunKeepsWait ==
    ASSUME CounterInv, DeadlineInv, WaitInv, Run
    PROVE  WaitInv'
<1>1. /\ Cycle /\ unpolled < MaxPoll /\ unpolled' = unpolled + 1
      /\ UNCHANGED <<SystemCoreClock, timer, laps>>
  BY DEF Run, Cycle
<1>2. /\ UNCHANGED <<deadline_, handle_, active_, realDue, setLap, waitLap>>
      /\ PollTime' = PollTime
      /\ Nanoseconds(Word - 1)' = Nanoseconds(Word - 1)
  BY <1>1 DEF timer, laps, PollTime, Nanoseconds
<1>3. /\ unpolled \in Nat /\ unpolled <= MaxPoll - 1
      /\ MaxPoll \in Nat \ {0} /\ Second \in Nat \ {0}
      /\ deadline_ \in Nat /\ realDue \in Nat
      /\ cycles \in Nat /\ CYCCNT \in 0 .. Word - 1
      /\ cycles' = cycles + 1 /\ SystemCoreClock \in Nat \ {0}
  BY <1>1, PollFacts, Reading, CycleLaps DEF WaitInv, DeadlineInv
<1>4. ASSUME AwaitedInLap PROVE NotMissed'
  <2>1. /\ Lap = setLap
        /\ (CYCCNT - unpolled) * Second < (deadline_ + 1) * SystemCoreClock
        /\ (cycles - unpolled) * Second < (realDue + 1) * SystemCoreClock
    BY <1>4 DEF WaitInv, NotMissed
  <2>2. CYCCNT # Word - 1
    <3> SUFFICES ASSUME CYCCNT = Word - 1 PROVE FALSE
      OBVIOUS
    <3> DEFINE f == SystemCoreClock
               p == Nanoseconds(MaxPoll)
               n == Nanoseconds(Word - 1)
    <3>1. /\ p \in Nat /\ n \in Nat /\ f \in Nat /\ f <= Second
          /\ MaxPoll * Second < (p + 1) * f
          /\ n * f <= (Word - 1) * Second
          /\ deadline_ + (p + 1) <= n
      BY <1>4, PollFacts DEF AwaitedInLap, PollTime
    <3>2. (Word - 1 - unpolled) * Second < (deadline_ + 1) * f
      BY <2>1
    <3> HIDE DEF f, p, n
    <3>3. (deadline_ + p + 1) * f <= n * f
      BY <1>3, <3>1
    <3>4. /\ (deadline_ + p + 1) * f = deadline_ * f + p * f + f
          /\ (deadline_ + 1) * f = deadline_ * f + f
          /\ (p + 1) * f = p * f + f
      BY <1>3, <3>1
    <3>5. /\ (Word - 1 - unpolled) * Second
               = (Word - 1) * Second - unpolled * Second
          /\ (MaxPoll - 1) * Second = MaxPoll * Second - Second
      BY <1>3
    <3>6. unpolled * Second <= (MaxPoll - 1) * Second
      BY <1>3
    <3>7. /\ deadline_ * f \in Nat /\ p * f \in Nat /\ n * f \in Nat
          /\ (Word - 1) * Second \in Int /\ unpolled * Second \in Int
          /\ MaxPoll * Second \in Int /\ Second \in Nat
      BY <1>3, <3>1
    <3> QED
      BY <3>1, <3>2, <3>3, <3>4, <3>5, <3>6, <3>7
  <2>3. CYCCNT' = CYCCNT + 1 /\ Lap' = Lap
    BY <1>1, <2>2, CycleLaps
  <2>4. /\ CYCCNT' - unpolled' = CYCCNT - unpolled
        /\ cycles' - unpolled' = cycles - unpolled
    BY <1>1, <1>3, <2>3
  <2> QED
    BY <1>1, <1>2, <2>1, <2>3, <2>4 DEF NotMissed
<1> QED
  BY <1>1, <1>2, <1>3, <1>4 DEF WaitInv, AwaitedInLap

LEMMA SetKeepsWait ==
    ASSUME DeadlinesFit, CounterInv, DeadlineInv, WaitInv,
           NEW d \in Durations, Set(d)
    PROVE  WaitInv'
<1>1. /\ UNCHANGED <<SystemCoreClock, cycles, CYCCNT, Lap>>
      /\ UNCHANGED <<handle_, active_, unpolled>>
      /\ deadline_' = T!Plus(now, d)
      /\ realDue' = Elapsed + d /\ setLap' = Lap
  BY SameClock DEF Set, T!ExpiresAfter
<1>2. /\ SystemCoreClock \in CoreClocks /\ CYCCNT \in 0 .. Word - 1
      /\ now = (CYCCNT * Second) \div SystemCoreClock /\ now \in Nat
      /\ Elapsed \in Nat /\ cycles \in Nat /\ d \in Nat
      /\ SystemCoreClock \in Nat
  BY Reading DEF CounterInv
<1>3. now + d <= MaxRep
  BY <1>2 DEF DeadlinesFit
<1>4. deadline_' = now + d
  BY <1>1, <1>2, <1>3, PlusExact
<1>5. /\ CYCCNT * Second < (deadline_' + 1) * SystemCoreClock
      /\ cycles * Second < (realDue' + 1) * SystemCoreClock
  BY <1>1, <1>2, <1>4, SetInTime
<1>6. unpolled \in Nat
  BY PollFacts DEF WaitInv
<1>7. /\ (deadline_' + 1) * SystemCoreClock \in Int
      /\ (realDue' + 1) * SystemCoreClock \in Int
  BY <1>1, <1>2, <1>4
<1>8. /\ (CYCCNT - unpolled) * Second < (deadline_' + 1) * SystemCoreClock
      /\ (cycles - unpolled) * Second < (realDue' + 1) * SystemCoreClock
  BY <1>2, <1>5, <1>6, <1>7, UnpolledLess
<1>9. NotMissed'
  BY <1>1, <1>8 DEF NotMissed
<1> QED
  BY <1>1, <1>9 DEF WaitInv

\* A reading below the deadline, in its lap, whatever has not been polled.
LEMMA StillToCome ==
    ASSUME CounterInv, DeadlineInv, Lap = setLap, now < deadline_,
           UNCHANGED <<vars, deadline_, realDue, setLap>>, unpolled' \in Nat
    PROVE  NotMissed'
<1>1. UNCHANGED <<SystemCoreClock, cycles, CYCCNT, Lap>>
  BY SameClock
<1>2. /\ CYCCNT * Second < (deadline_ + 1) * SystemCoreClock
      /\ cycles * Second < (realDue + 1) * SystemCoreClock
  BY ReadBeforeDeadline
<1>3. /\ CYCCNT \in Nat /\ cycles \in Nat
      /\ (deadline_ + 1) * SystemCoreClock \in Int
      /\ (realDue + 1) * SystemCoreClock \in Int
  BY Reading DEF DeadlineInv
<1>4. /\ (CYCCNT - unpolled') * Second < (deadline_ + 1) * SystemCoreClock
      /\ (cycles - unpolled') * Second < (realDue + 1) * SystemCoreClock
  BY <1>2, <1>3, UnpolledLess
<1> QED
  BY <1>1, <1>4 DEF NotMissed

LEMMA SuspendKeepsWait ==
    ASSUME CounterInv, DeadlineInv, WaitInv, NEW c \in Coroutines, Suspend(c)
    PROVE  WaitInv'
<1>1. /\ UNCHANGED <<vars, deadline_, realDue, setLap, unpolled>>
      /\ now < deadline_ /\ waitLap' = Lap
      /\ \/ handle_' = c /\ active_' = TRUE
         \/ UNCHANGED <<handle_, active_>>
  BY DEF Suspend, T!AwaitSuspend
<1>2. setLap \in Nat /\ setLap <= Lap /\ Lap \in Nat
  BY Reading DEF DeadlineInv
<1>3. unpolled' \in Nat
  BY <1>1, PollFacts DEF WaitInv
<1>4. AwaitedInLap' => NotMissed'
  BY <1>1, <1>2, <1>3, StillToCome DEF AwaitedInLap
<1>5. (active_ <=> handle_ # NoHandle)'
  BY <1>1 DEF WaitInv
<1> QED
  BY <1>1, <1>4, <1>5 DEF WaitInv

LEMMA PollKeepsWait ==
    ASSUME CounterInv, DeadlineInv, WaitInv, Poll
    PROVE  WaitInv'
<1>1. /\ UNCHANGED <<vars, realDue, setLap, waitLap>> /\ unpolled' = 0
      /\ UNCHANGED <<PollTime, Nanoseconds(Word - 1)>>
  BY SameClock DEF Poll, laps
<1>2. CASE T!Process
  BY <1>1, <1>2, PollFacts DEF T!Process, WaitInv, AwaitedInLap
<1>3. CASE ~(active_ /\ handle_ # NoHandle /\ now >= deadline_)
           /\ UNCHANGED timer
  <2>1. UNCHANGED <<handle_, active_, deadline_>>
    BY <1>3 DEF timer
  <2>2. ASSUME AwaitedInLap' PROVE NotMissed'
    <3>1. AwaitedInLap
      BY <1>1, <2>1, <2>2 DEF AwaitedInLap
    <3>2. Lap = setLap /\ now < deadline_
      BY <1>3, <3>1, Reading DEF AwaitedInLap, WaitInv, NotMissed, DeadlineInv
    <3> QED
      BY <1>1, <2>1, <3>2, StillToCome
  <2> QED
    BY <1>1, <2>1, <2>2, PollFacts DEF WaitInv
<1> QED
  BY <1>2, <1>3 DEF Poll

LEMMA WaitStep ==
    ASSUME DeadlinesFit, CounterInv, DeadlineInv, WaitInv, [Next]_allVars
    PROVE  WaitInv'
<1>1. ASSUME UNCHANGED <<SystemCoreClock, cycles, CYCCNT, unpolled, laps,
                         deadline_, handle_, active_>>
      PROVE  WaitInv'
  BY <1>1 DEF WaitInv, AwaitedInLap, NotMissed, PollTime, Nanoseconds, Lap,
              laps
<1>2. CASE Start
  <2>1. /\ ~enabled /\ CYCCNT' = 0 /\ cycles = 0
        /\ UNCHANGED <<SystemCoreClock, cycles, unpolled, laps, timer>>
    BY <1>2 DEF Start, init_dwt, CounterInv
  <2>2. CYCCNT = 0
    BY <2>1, DivisionIsUnique DEF CounterInv
  <2> QED
    BY <1>1, <2>1, <2>2 DEF timer
<1>3. CASE GoOn
  <2>1. /\ UNCHANGED <<SystemCoreClock, cycles, CYCCNT, unpolled, laps>>
        /\ UNCHANGED deadline_
    BY <1>3 DEF GoOn, vars, T!Cancel, T!Launch, T!AwaitReady, T!GoOn,
                T!Return, T!appVars
  <2>2. \/ handle_' = NoHandle /\ active_' = FALSE
        \/ UNCHANGED <<handle_, active_>>
    BY <1>3 DEF GoOn, T!Cancel, T!Launch, T!AwaitReady, T!GoOn, T!Return
  <2>3. handle_' = NoHandle /\ active_' = FALSE => WaitInv'
    BY <2>1 DEF WaitInv, AwaitedInLap
  <2> QED
    BY <1>1, <2>1, <2>2, <2>3
<1>4. CASE UNCHANGED allVars
  BY <1>1, <1>4 DEF allVars, vars, timer
<1> QED
  BY <1>2, <1>3, <1>4, RunKeepsWait, SetKeepsWait, SuspendKeepsWait,
     PollKeepsWait DEF Next

(***************************************************************************)
(* A wait ends at the first process() after its deadline, for a counter of *)
(* any width and any core below a gigahertz, wherever the loop is between  *)
(* two calls of process(), unless the counter wraps before process() has   *)
(* seen the deadline, or has wrapped between expires_after and the wait.   *)
(***************************************************************************)
THEOREM WaitsArePunctual ==
    ASSUME DeadlinesFit
    PROVE  Spec => []PunctualInALap
<1>1. Init => WaitInv
  <2> SUFFICES ASSUME Init PROVE WaitInv
    OBVIOUS
  <2>1. unpolled = 0 /\ handle_ = NoHandle /\ active_ = FALSE
    BY DEF Init, T!TimerInit
  <2> QED
    BY <2>1, PollAssumption DEF WaitInv, AwaitedInLap
<1>2. CounterInv /\ DeadlineInv /\ WaitInv => PunctualInALap
  <2> SUFFICES ASSUME CounterInv, DeadlineInv, WaitInv
               PROVE  PunctualInALap
    OBVIOUS
  <2>a. deadline_ \in Nat /\ waitLap \in Nat /\ setLap \in Nat
    BY DEF DeadlineInv
  <2>b. PollTime \in Nat /\ Nanoseconds(Word - 1) \in Nat
    BY PollFacts DEF PollTime
  <2> SUFFICES ASSUME Overdue, AwaitedInLap PROVE FALSE
    BY <2>a, <2>b DEF PunctualInALap, Overdue, AwaitedInLap
  <2> DEFINE f == SystemCoreClock
             p == Nanoseconds(MaxPoll)
             a == cycles * Second
  <2>1. /\ f \in Nat \ {0} /\ p \in Nat /\ MaxPoll * Second < (p + 1) * f
        /\ MaxPoll * Second \in Nat
        /\ cycles \in Nat /\ realDue \in Nat
        /\ unpolled \in Nat /\ unpolled <= MaxPoll /\ MaxPoll \in Nat
    BY PollFacts, Reading DEF WaitInv, DeadlineInv
  <2>2. (cycles - unpolled) * Second < (realDue + 1) * f
    BY DEF WaitInv, NotMissed
  <2>3. a \in Nat /\ Elapsed = a \div f /\ Elapsed > realDue + p + 1
    <3>1. Elapsed > realDue + PollTime
      BY DEF Overdue
    <3> QED
      BY <2>1, <3>1, Reading DEF PollTime
  <2>4. a >= (realDue + p + 2) * f
    <3>1. realDue + p + 2 \in Int /\ ~(a \div f < realDue + p + 2)
      BY <2>1, <2>3, Reading
    <3>2. (realDue + p + 2) * f \in Nat
      BY <2>1
    <3>3. \A n \in Int : (a \div f < n) <=> (a < n * f)
      BY <2>1, <2>3, FloorBelow
    <3> HIDE DEF f, p, a
    <3> QED
      BY <2>3, <3>1, <3>2, <3>3
  <2>5. /\ (cycles - unpolled) * Second = a - unpolled * Second
        /\ unpolled * Second <= MaxPoll * Second /\ unpolled * Second \in Nat
    BY <2>1
  <2> HIDE DEF f, p, a
  <2>6. /\ (realDue + p + 2) * f = (realDue + 1) * f + (p + 1) * f
        /\ (realDue + 1) * f \in Nat /\ (p + 1) * f \in Nat
    BY <2>1
  <2> QED
    BY <2>1, <2>2, <2>3, <2>4, <2>5, <2>6
<1> QED
  BY <1>1, <1>2, WaitStep, DeadlineInvariant, PTL DEF Spec
=============================================================================
