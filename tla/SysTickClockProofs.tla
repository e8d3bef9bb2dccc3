------------------------- MODULE SysTickClockProofs -------------------------
(***************************************************************************)
(* Proofs about SysTickClock, for any number of readers, any word size and *)
(* any run of ticks, and about SysTickTimer, which drives it, for any core *)
(* clocks.                                                                 *)
(***************************************************************************)
EXTENDS SysTickTimer, Integers, TLAPS

USE WordAssumption, StartAssumption, MaxTicksAssumption

\* A count is a natural number, and one more high word is Word more.
LEMMA CountType ==
    ASSUME NEW high \in Nat, NEW low \in Nat
    PROVE  /\ Milliseconds(high, low) \in Nat
           /\ Milliseconds(high, low) = Milliseconds(high, 0) + low
           /\ Milliseconds(high + 1, 0) = Milliseconds(high, 0) + Word
<1>1. high * Word \in Nat /\ (high + 1) * Word = high * Word + Word
  OBVIOUS
<1> QED
  BY <1>1 DEF Milliseconds

LEMMA ClockInitInv == ClockInit => ClockInv
<1> SUFFICES ASSUME ClockInit PROVE ClockInv
  OBVIOUS
<1>1. /\ wall_high \in Nat /\ wall_low \in 0 .. Word - 1
      /\ ticks = Milliseconds(wall_high, wall_low) /\ ticks \in Nat
  BY CountType DEF ClockInit
<1> USE DEF ClockInit
<1>2. ClockTypeOK
  BY <1>1 DEF ClockTypeOK
<1>3. WordsCount /\ latest <= ticks /\ LoadsHold
  BY <1>1 DEF WordsCount, LoadsHold
<1> QED
  BY <1>2, <1>3 DEF ClockInv

\* What the clock's own steps leave the readers with: time goes on, and a
\* high word moves only up.
LEMMA TickKeepsLoads ==
    ASSUME ClockInv, UNCHANGED readerVars,
           ticks' \in Nat, ticks <= ticks',
           wall_high' \in Nat, wall_high' \in {wall_high, wall_high + 1}
    PROVE  latest' <= ticks' /\ LoadsHold'
<1>0. /\ UNCHANGED <<pc, h1, l, since, latest, floor>>
      /\ latest \in Nat /\ ticks \in Nat /\ wall_high \in Nat
      /\ latest <= ticks
  BY DEF ClockInv, ClockTypeOK, readerVars
<1>1. LoadsHold'
  <2> SUFFICES ASSUME NEW r \in Readers
               PROVE  /\ floor[r] <= since[r] /\ since[r] <= ticks'
                      /\ pc[r] = "high2" /\ h1[r] = wall_high'
                            => since[r] <= Returned(r) /\ Returned(r) <= ticks'
                      /\ pc[r] \in {"low", "high2"} => h1[r] <= wall_high'
    BY <1>0 DEF LoadsHold, Returned
  <2>1. /\ floor[r] \in Nat /\ since[r] \in Nat /\ h1[r] \in Nat /\ l[r] \in Nat
        /\ Returned(r) \in Nat
    BY CountType DEF ClockInv, ClockTypeOK, Returned
  <2>2. /\ floor[r] <= since[r] /\ since[r] <= ticks
        /\ pc[r] = "high2" /\ h1[r] = wall_high
              => since[r] <= Returned(r) /\ Returned(r) <= ticks
        /\ pc[r] \in {"low", "high2"} => h1[r] <= wall_high
    BY DEF ClockInv, LoadsHold
  <2> QED
    BY <1>0, <2>1, <2>2
<1> QED
  BY <1>0, <1>1

LEMMA IncrementLowInv ==
    ASSUME ClockInv, IncrementLow
    PROVE  ClockInv'
<1>0. /\ irq = "idle"
      /\ wall_low' = (wall_low + 1) % Word
      /\ UNCHANGED <<wall_high, readerVars>>
      /\ \/ wall_low' = 0 /\ irq' = "carry" /\ ticks' = ticks
         \/ wall_low' # 0 /\ irq' = "idle" /\ ticks' = ticks + 1
  BY DEF IncrementLow
<1>1. /\ wall_high \in Nat /\ wall_low \in 0 .. Word - 1 /\ ticks \in Nat
      /\ ticks = Milliseconds(wall_high, wall_low)
  BY <1>0 DEF ClockInv, ClockTypeOK, WordsCount
<1>2. /\ wall_low' \in 0 .. Word - 1
      /\ wall_low' = 0 => wall_low + 1 = Word
      /\ wall_low' # 0 => wall_low' = wall_low + 1
  BY <1>0, <1>1
<1>3. ClockTypeOK'
  BY <1>0, <1>1, <1>2 DEF ClockInv, ClockTypeOK, readerVars
<1>4. WordsCount'
  BY <1>0, <1>1, <1>2, CountType DEF WordsCount, Milliseconds
<1>5. latest' <= ticks' /\ LoadsHold'
  BY <1>0, <1>1, TickKeepsLoads
<1> QED
  BY <1>3, <1>4, <1>5 DEF ClockInv

LEMMA IncrementHighInv ==
    ASSUME ClockInv, IncrementHigh
    PROVE  ClockInv'
<1>0. /\ irq = "carry" /\ irq' = "idle"
      /\ wall_high' = wall_high + 1 /\ ticks' = ticks + 1
      /\ UNCHANGED <<wall_low, readerVars>>
  BY DEF IncrementHigh
<1>1. /\ wall_high \in Nat /\ ticks \in Nat
      /\ wall_low = 0 /\ ticks + 1 = Milliseconds(wall_high + 1, 0)
  BY <1>0 DEF ClockInv, ClockTypeOK, WordsCount
<1>2. ClockTypeOK'
  BY <1>0, <1>1 DEF ClockInv, ClockTypeOK, readerVars
<1>3. WordsCount'
  BY <1>0, <1>1 DEF WordsCount, Milliseconds
<1>4. latest' <= ticks' /\ LoadsHold'
  BY <1>0, <1>1, TickKeepsLoads
<1> QED
  BY <1>2, <1>3, <1>4 DEF ClockInv

\* A step of a reader, in each of its places.
LEMMA ReaderInv ==
    ASSUME ClockInv, NEW r \in Readers, Reader(r)
    PROVE  ClockInv'
<1>0. /\ irq = "idle"
      /\ UNCHANGED <<wall_high, wall_low, irq, ticks>>
      /\ wall_high \in Nat /\ wall_low \in 0 .. Word - 1 /\ ticks \in Nat
      /\ latest \in Nat /\ latest <= ticks
      /\ ticks = Milliseconds(wall_high, wall_low)
  BY DEF Reader, Call, ReadHigh1, ReadLow, ReadHigh2, Retry, Return,
         ReaderMayRun, clockVars, ClockInv, ClockTypeOK, WordsCount
<1>1. WordsCount'
  BY <1>0 DEF WordsCount, Milliseconds
<1>2. \A q \in Readers :
        /\ floor[q] \in Nat /\ since[q] \in Nat
        /\ h1[q] \in Nat /\ l[q] \in 0 .. Word - 1 /\ Returned(q) \in Nat
        /\ floor[q] <= since[q] /\ since[q] <= ticks
        /\ pc[q] = "high2" /\ h1[q] = wall_high
              => since[q] <= Returned(q) /\ Returned(q) <= ticks
        /\ pc[q] \in {"low", "high2"} => h1[q] <= wall_high
  BY CountType DEF ClockInv, ClockTypeOK, LoadsHold, Returned
<1>3. CASE Call(r)
  <2>0. /\ since' = [since EXCEPT ![r] = ticks]
        /\ floor' = [floor EXCEPT ![r] = latest]
        /\ pc' = [pc EXCEPT ![r] = "high1"]
        /\ UNCHANGED <<h1, l, latest>>
    BY <1>3 DEF Call, Goto
  <2>1. ClockTypeOK'
    BY <1>0, <2>0 DEF ClockInv, ClockTypeOK
  <2>2. LoadsHold'
    BY <1>0, <1>2, <2>0 DEF ClockInv, ClockTypeOK, LoadsHold, Returned
  <2> QED
    BY <1>0, <1>1, <2>0, <2>1, <2>2 DEF ClockInv
<1>4. CASE ReadHigh1(r)
  <2>0. /\ h1' = [h1 EXCEPT ![r] = wall_high]
        /\ pc' = [pc EXCEPT ![r] = "low"]
        /\ UNCHANGED <<l, since, latest, floor>>
    BY <1>4 DEF ReadHigh1, Goto
  <2>1. ClockTypeOK'
    BY <1>0, <2>0 DEF ClockInv, ClockTypeOK
  <2>2. LoadsHold'
    BY <1>0, <1>2, <2>0 DEF ClockInv, ClockTypeOK, LoadsHold, Returned
  <2> QED
    BY <1>0, <1>1, <2>0, <2>1, <2>2 DEF ClockInv
<1>5. CASE ReadLow(r)
  <2>0. /\ pc[r] = "low"
        /\ l' = [l EXCEPT ![r] = wall_low]
        /\ pc' = [pc EXCEPT ![r] = "high2"]
        /\ UNCHANGED <<h1, since, latest, floor>>
    BY <1>5 DEF ReadLow, Goto
  <2>1. ClockTypeOK'
    BY <1>0, <2>0 DEF ClockInv, ClockTypeOK
  <2>2. h1[r] = wall_high => Returned(r)' = ticks
    BY <1>0, <2>0 DEF ClockInv, ClockTypeOK, Returned, Milliseconds
  <2>3. \A q \in Readers : q # r => Returned(q)' = Returned(q)
    BY <2>0 DEF ClockInv, ClockTypeOK, Returned, Milliseconds
  <2>4. /\ pc'[r] = "high2"
        /\ \A q \in Readers : q # r => pc'[q] = pc[q]
    BY <2>0 DEF ClockInv, ClockTypeOK
  <2>5. LoadsHold'
    BY <1>0, <1>2, <2>0, <2>2, <2>3, <2>4 DEF LoadsHold
  <2> QED
    BY <1>0, <1>1, <2>0, <2>1, <2>5 DEF ClockInv
<1>6. CASE ReadHigh2(r)
  <2>0. /\ pc[r] = "high2" /\ wall_high = h1[r]
        /\ latest' = IF Returned(r) > latest THEN Returned(r) ELSE latest
        /\ pc' = [pc EXCEPT ![r] = "idle"]
        /\ UNCHANGED <<h1, l, since, floor>>
    BY <1>6 DEF ReadHigh2, Return, Goto
  <2>1. latest' \in Nat /\ latest' <= ticks
    BY <1>0, <1>2, <2>0
  <2>2. ClockTypeOK'
    BY <1>0, <2>0, <2>1 DEF ClockInv, ClockTypeOK
  <2>3. LoadsHold'
    BY <1>0, <1>2, <2>0 DEF ClockInv, ClockTypeOK, LoadsHold, Returned
  <2> QED
    BY <1>0, <1>1, <2>1, <2>2, <2>3 DEF ClockInv
<1>7. CASE Retry(r)
  <2>0. /\ pc' = [pc EXCEPT ![r] = "high1"]
        /\ UNCHANGED <<h1, l, since, latest, floor>>
    BY <1>7 DEF Retry, Goto
  <2>1. ClockTypeOK'
    BY <1>0, <2>0 DEF ClockInv, ClockTypeOK
  <2>2. LoadsHold'
    BY <1>0, <1>2, <2>0 DEF ClockInv, ClockTypeOK, LoadsHold, Returned
  <2> QED
    BY <1>0, <1>1, <2>0, <2>1, <2>2 DEF ClockInv
<1> QED
  BY <1>3, <1>4, <1>5, <1>6, <1>7 DEF Reader

LEMMA ClockStutterInv ==
    ASSUME ClockInv, UNCHANGED vars
    PROVE  ClockInv'
  BY DEF vars, clockVars, readerVars, ClockInv, ClockTypeOK, WordsCount,
         LoadsHold, Returned, Milliseconds

LEMMA ClockStepInv ==
    ASSUME ClockInv, [ClockNext]_vars
    PROVE  ClockInv'
  BY IncrementLowInv, IncrementHighInv, ReaderInv, ClockStutterInv DEF ClockNext

THEOREM ClockInvariant == ClockSpec => []ClockInv
  BY ClockInitInv, ClockStepInv, PTL DEF ClockSpec

(***************************************************************************)
(* The two words are the count of milliseconds outside systick_irq.        *)
(***************************************************************************)
THEOREM CountExact == ClockSpec => []WordsCount
<1>1. ClockInv => WordsCount
  BY DEF ClockInv
<1> QED
  BY <1>1, ClockInvariant, PTL

\* A call that returns read a time of its own duration.
LEMMA ReturnFacts ==
    ASSUME ClockInv, [ClockNext]_vars, NEW r \in Readers, Returns(r)
    PROVE  /\ since[r] <= Returned(r) /\ Returned(r) <= ticks
           /\ floor[r] <= Returned(r)
<1>1. ReadHigh2(r)
  <2>1. pc'[r] # pc[r] /\ pc'[r] = "idle"
    BY DEF Returns
  <2>2. ASSUME NEW q \in Readers, Reader(q) PROVE ReadHigh2(r)
    BY <2>1, <2>2 DEF Reader, Call, ReadHigh1, ReadLow, ReadHigh2, Retry,
                      Return, Goto, ClockInv, ClockTypeOK
  <2>3. IncrementLow \/ IncrementHigh \/ UNCHANGED vars => pc' = pc
    BY DEF IncrementLow, IncrementHigh, vars, readerVars
  <2> QED
    BY <2>1, <2>2, <2>3 DEF ClockNext
<1>2. pc[r] = "high2" /\ wall_high = h1[r]
  BY <1>1 DEF ReadHigh2
<1>3. /\ floor[r] \in Nat /\ since[r] \in Nat /\ Returned(r) \in Nat
      /\ floor[r] <= since[r]
      /\ since[r] <= Returned(r) /\ Returned(r) <= ticks
  BY <1>2, CountType DEF ClockInv, ClockTypeOK, LoadsHold, Returned
<1> QED
  BY <1>3

(***************************************************************************)
(* No read is torn, for any word size and any interrupt pattern.           *)
(***************************************************************************)
THEOREM NoTornRead == ClockSpec => ReadsAreAtomic
<1>1. ClockInv /\ [ClockNext]_vars
        => [\A r \in Readers : Returns(r) => since[r] <= Returned(r)
                                              /\ Returned(r) <= ticks]_vars
  BY ReturnFacts
<1> QED
  BY <1>1, ClockInvariant, PTL DEF ClockSpec, ReadsAreAtomic

(***************************************************************************)
(* The clock is steady across every context that reads it.                 *)
(***************************************************************************)
THEOREM ClockIsSteady == ClockSpec => NeverGoesBack
<1>1. ClockInv /\ [ClockNext]_vars
        => [\A r \in Readers : Returns(r) => floor[r] <= Returned(r)]_vars
  BY ReturnFacts
<1> QED
  BY <1>1, ClockInvariant, PTL DEF ClockSpec, NeverGoesBack

\* Type correctness of the two words and of the readers' loads.
THEOREM ClockTypeCorrect == ClockSpec => []ClockTypeOK
  BY ClockInvariant, PTL DEF ClockInv
-----------------------------------------------------------------------------
(***************************************************************************)
(* The clock that the SysTick counter drives, however long its interrupt   *)
(* is kept out and whatever the core clock, is the clock of SysTickClock:  *)
(* what holds of that one's reads holds here.                              *)
(***************************************************************************)
THEOREM TimerImplementsClock == TimerSpec => ClockSpec
<1>1. TimerInit => ClockInit
  BY DEF TimerInit
<1>2. [TimerNext]_timerVars => [ClockNext]_vars
  BY DEF TimerNext, timerVars, init_systick, Cycle, Rescale, Enter, Carry,
         Read, ClockNext
<1> QED
  BY <1>1, <1>2, PTL DEF TimerSpec, ClockSpec

LEMMA PeriodStepInv ==
    ASSUME PeriodInv, [TimerNext]_timerVars
    PROVE  PeriodInv'
<1> USE DEF PeriodInv
<1>1. CASE init_systick
  <2>1. /\ SystemCoreClock \div TicksPerSecond >= 2
        /\ SystemCoreClock \div TicksPerSecond \in Nat
    BY TimerAssumption
  <2> QED
    BY <1>1, <2>1 DEF init_systick
<1>2. CASE Cycle
  BY <1>2 DEF Cycle
<1>3. CASE Rescale
  BY <1>3 DEF Rescale, regVars
<1>4. CASE Enter
  BY <1>4 DEF Enter, regVars
<1>5. CASE UNCHANGED chipVars
  BY <1>5 DEF chipVars, regVars
<1> QED
  BY <1>1, <1>2, <1>3, <1>4, <1>5 DEF TimerNext, timerVars, Carry, Read

\* An interrupt is lost only if it has been kept out for a whole period,
\* even where init() starts a period afresh.
THEOREM PeriodPasses == TimerSpec => LostOnlyAfterWholePeriod
<1>1. TimerInit => PeriodInv
  <2> SUFFICES ASSUME TimerInit PROVE PeriodInv
    OBVIOUS
  <2>1. /\ SystemCoreClock \in Frequencies
        /\ LOAD \in Nat /\ VAL \in Nat /\ delay \in Nat /\ VAL <= LOAD
        /\ pending = FALSE
    BY DEF TimerInit
  <2>2. pending \in BOOLEAN /\ ~pending
    BY <2>1
  <2> QED
    BY <2>1, <2>2 DEF PeriodInv
<1>2. PeriodInv /\ [TimerNext]_timerVars
        => [lost' /\ ~lost => delay >= LOAD]_timerVars
  <2> SUFFICES ASSUME PeriodInv, TimerNext, lost', ~lost
               PROVE  delay >= LOAD
    OBVIOUS
  <2>1. CASE Cycle
    <3>1. pending /\ VAL = 1
      BY <2>1, Zenon DEF Cycle
    <3> QED
      BY <3>1 DEF PeriodInv
  <2>2. CASE UNCHANGED lost
    BY <2>2
  <2> QED
    BY <2>1, <2>2 DEF TimerNext, init_systick, Rescale, Enter, Carry, Read,
                      chipVars, realVars
<1> QED
  BY <1>1, <1>2, PeriodStepInv, PTL DEF TimerSpec, LostOnlyAfterWholePeriod
-----------------------------------------------------------------------------
(***************************************************************************)
(* Real time.  A tick is a whole number of cycles, of any core clock.      *)
(***************************************************************************)
LEMMA Multiple ==
    ASSUME NEW n \in Nat, NEW d \in Nat \ {0}, n % d = 0
    PROVE  n \div d \in Nat /\ n = d * (n \div d)
  OBVIOUS

LEMMA CyclesOfATick ==
    ASSUME NEW f \in Frequencies
    PROVE  /\ Tick \in Nat /\ Unit \div f \in Nat \ {0}
           /\ f \div TicksPerSecond \in Nat /\ f \div TicksPerSecond >= 2
           /\ (f \div TicksPerSecond) * (Unit \div f) = Tick
<1> DEFINE q == f \div TicksPerSecond
           u == Unit \div f
<1>1. /\ TicksPerSecond \in Nat \ {0} /\ f \in Nat \ {0} /\ q >= 2
      /\ Unit \in Nat
  BY TimerAssumption
<1>2. q \in Nat /\ f = TicksPerSecond * q
  BY <1>1, Multiple, TimerAssumption
<1>3. u \in Nat /\ Unit = f * u
  BY <1>1, Multiple, TimerAssumption
<1>4. Tick \in Nat /\ Unit = TicksPerSecond * Tick
  BY <1>1, Multiple, TimerAssumption DEF Tick
<1> HIDE DEF q, u
<1>5. TicksPerSecond * (q * u) = TicksPerSecond * Tick
  BY <1>1, <1>2, <1>3, <1>4
<1>6. q * u = Tick
  BY <1>1, <1>2, <1>3, <1>4, <1>5
<1>7. u # 0
  BY <1>1, <1>3, TimerAssumption
<1> QED
  BY <1>1, <1>2, <1>3, <1>4, <1>6, <1>7 DEF q, u

\* The rules of arithmetic that the steps use.
LEMMA Distribute ==
    ASSUME NEW a \in Int, NEW b \in Int, NEW c \in Int
    PROVE  (a + b) * c = a * c + b * c
  OBVIOUS

LEMMA Monotone ==
    ASSUME NEW a \in Int, NEW b \in Int, NEW c \in Nat, a <= b
    PROVE  a * c <= b * c
  OBVIOUS

LEMMA RaisedType == ASSUME ClockInv PROVE Raised \in Int
<1>1. Milliseconds(Start[1], Start[2]) \in Nat /\ ticks \in Nat
  BY CountType DEF ClockInv, ClockTypeOK
<1> QED
  BY <1>1 DEF Raised

\* What the counter has counted off of a period is less than a tick.
LEMMA PhaseIsShort ==
    ASSUME TimeInv, inits > 0
    PROVE  /\ Phase \in Nat /\ Phase <= LOAD /\ LOAD >= 1
           /\ CycleTime \in Nat /\ Tick \in Nat
           /\ (LOAD + 1) * CycleTime = Tick
           /\ LOAD * CycleTime + CycleTime = Tick
           /\ Phase * CycleTime \in Nat
           /\ Phase * CycleTime <= Tick
           /\ CycleTime > 0 => Phase * CycleTime < Tick
<1>1. /\ LOAD \in Nat /\ VAL \in Nat /\ VAL <= LOAD
      /\ clock \in Frequencies /\ LOAD + 1 = clock \div TicksPerSecond
  BY DEF TimeInv, PeriodInv
<1>2. /\ CycleTime \in Nat /\ Tick \in Nat /\ LOAD >= 1
      /\ (LOAD + 1) * CycleTime = Tick
  BY <1>1, CyclesOfATick DEF CycleTime
<1>3. Phase \in Nat /\ Phase <= LOAD
  BY <1>1 DEF Phase
<1>4. LOAD * CycleTime + CycleTime = Tick
  BY <1>1, <1>2, Distribute
<1>5. Phase * CycleTime <= LOAD * CycleTime /\ Phase * CycleTime \in Nat
  BY <1>1, <1>2, <1>3, Monotone
<1>6. LOAD * CycleTime \in Nat
  BY <1>1, <1>2
<1> QED
  BY <1>1, <1>2, <1>3, <1>4, <1>5, <1>6

LEMMA InitKeepsTime ==
    ASSUME ClockInv, TimeInv, PeriodInv', init_systick
    PROVE  TimeInv'
<1>1. /\ inits' = inits + 1 /\ elapsed' = elapsed /\ VAL' = 0
      /\ clock' = SystemCoreClock
      /\ LOAD' = SystemCoreClock \div TicksPerSecond - 1
      /\ UNCHANGED <<vars, pending, drifted, lost>>
  BY DEF init_systick
<1>2. /\ SystemCoreClock \in Frequencies /\ inits \in Nat /\ elapsed \in Nat
  BY DEF TimeInv, PeriodInv
<1>3. /\ Tick \in Nat /\ Unit \div SystemCoreClock \in Nat
      /\ SystemCoreClock \div TicksPerSecond \in Nat
      /\ SystemCoreClock \div TicksPerSecond >= 2
  BY <1>2, CyclesOfATick
<1>4. Raised' = Raised /\ Raised \in Int
  BY <1>1, RaisedType DEF Raised, vars, clockVars
<1>5. Phase' = 0 /\ CycleTime' \in Nat /\ Phase' * CycleTime' = 0
  BY <1>1, <1>3 DEF Phase, CycleTime
<1>6. ASSUME ~drifted, ~lost
      PROVE  /\ Raised * Tick <= elapsed
             /\ elapsed <= (Raised + inits) * Tick
  <2>1. CASE inits = 0
    BY <1>3, <2>1 DEF TimeInv
  <2>2. CASE inits > 0
    <3>1. /\ Phase * CycleTime \in Nat /\ Phase * CycleTime <= Tick
      BY <2>2, PhaseIsShort
    <3>2. /\ Raised * Tick + Phase * CycleTime <= elapsed
          /\ elapsed <= (Raised + inits - 1) * Tick + Phase * CycleTime
      BY <1>6, <2>2 DEF TimeInv
    <3>3. /\ (Raised + inits - 1) + 1 = Raised + inits
          /\ Raised + inits - 1 \in Int
      BY <1>2, <1>4
    <3>4. (Raised + inits) * Tick = (Raised + inits - 1) * Tick + 1 * Tick
      BY <1>3, <3>3, Distribute
    <3>5. /\ Raised * Tick \in Int /\ (Raised + inits - 1) * Tick \in Int
      BY <1>3, <1>4, <3>3
    <3> HIDE DEF Raised, Phase, CycleTime, Tick
    <3> QED
      BY <1>2, <1>3, <3>1, <3>2, <3>4, <3>5
  <2> QED
    BY <1>2, <2>1, <2>2
<1>7. Raised + inits' - 1 = Raised + inits
  BY <1>1, <1>2, <1>4
<1>8. inits' > 0 /\ ~drifted' /\ ~lost' =>
        /\ Raised' * Tick + Phase' * CycleTime' <= elapsed'
        /\ elapsed' <= (Raised' + inits' - 1) * Tick + Phase' * CycleTime'
  <2>1. Raised * Tick \in Int /\ (Raised + inits) * Tick \in Int
    BY <1>2, <1>3, <1>4
  <2> QED
    BY <1>1, <1>4, <1>5, <1>6, <1>7, <2>1
<1> QED
  BY <1>1, <1>2, <1>3, <1>8 DEF TimeInv, Tick

LEMMA CycleKeepsTime ==
    ASSUME ClockInv, TimeInv, PeriodInv', Cycle
    PROVE  TimeInv'
<1>1. /\ ENABLE
      /\ VAL' = IF VAL = 0 THEN LOAD ELSE VAL - 1
      /\ elapsed' = elapsed + Unit \div SystemCoreClock
      /\ UNCHANGED <<vars, LOAD, ENABLE, inits, clock>>
  BY DEF Cycle
<1>2. /\ inits \in Nat /\ elapsed \in Nat /\ inits > 0
      /\ clock \in Frequencies /\ SystemCoreClock \in Frequencies
      /\ LOAD + 1 = clock \div TicksPerSecond
      /\ LOAD \in Nat /\ VAL \in Nat /\ VAL <= LOAD
  BY <1>1 DEF TimeInv, PeriodInv
<1>3. /\ Phase \in Nat /\ LOAD >= 1
      /\ CycleTime \in Nat /\ Tick \in Nat
      /\ (LOAD + 1) * CycleTime = Tick
  BY <1>2, PhaseIsShort
<1>4. elapsed' \in Nat
  BY <1>1, <1>2, CyclesOfATick
<1>5. ASSUME ~drifted', ~lost'
      PROVE  /\ Raised' * Tick + Phase' * CycleTime' <= elapsed'
             /\ elapsed' <= (Raised' + inits' - 1) * Tick + Phase' * CycleTime'
  <2>1. ~drifted /\ ~lost /\ clock = SystemCoreClock /\ ~(pending /\ VAL = 1)
    BY <1>5, Zenon DEF Cycle
  <2>2. elapsed' = elapsed + CycleTime /\ CycleTime' = CycleTime
    BY <1>1, <2>1 DEF CycleTime
  <2>3. /\ Raised * Tick + Phase * CycleTime <= elapsed
        /\ elapsed <= (Raised + inits - 1) * Tick + Phase * CycleTime
    BY <1>2, <2>1 DEF TimeInv
  <2>4. /\ Raised \in Int /\ Raised + inits - 1 \in Int
        /\ Raised * Tick \in Int /\ (Raised + inits - 1) * Tick \in Int
        /\ Phase * CycleTime \in Nat
    BY <1>2, <1>3, RaisedType
  <2>5. (Phase + 1) * CycleTime = Phase * CycleTime + CycleTime
    BY <1>3, Distribute
  <2>6. CASE VAL = 1
    <3>1. pending' = TRUE /\ pending = FALSE
      <4>1. pending' = (pending \/ VAL = 1) /\ pending \in BOOLEAN
        BY DEF Cycle, TimeInv, PeriodInv
      <4> QED
        BY <2>1, <2>6, <4>1, Zenon
    <3>2. Raised' = Raised + 1
      <4>1. Milliseconds(Start[1], Start[2]) \in Nat /\ ticks \in Nat
        BY CountType DEF ClockInv, ClockTypeOK
      <4> QED
        BY <1>1, <3>1, <4>1 DEF Raised, vars, clockVars
    <3>3. Phase + 1 = LOAD + 1 /\ Phase' = 0
      BY <1>1, <1>2, <2>6 DEF Phase
    <3>4. Phase' * CycleTime' = 0 /\ Phase * CycleTime + CycleTime = Tick
      BY <1>3, <2>2, <2>5, <3>3
    <3>5. /\ (Raised + 1) * Tick = Raised * Tick + Tick
          /\ (Raised + inits - 1 + 1) * Tick
               = (Raised + inits - 1) * Tick + Tick
      BY <1>3, <2>4, Distribute
    <3>6. Raised' + inits' - 1 = Raised + inits - 1 + 1
      BY <1>1, <1>2, <2>4, <3>2
    <3>7. /\ Raised' * Tick = Raised * Tick + Tick
          /\ (Raised' + inits' - 1) * Tick = (Raised + inits - 1) * Tick + Tick
      BY <3>2, <3>5, <3>6
    <3> QED
      BY <1>2, <1>3, <2>2, <2>3, <2>4, <3>4, <3>7
  <2>7. CASE VAL # 1
    <3>1. Raised' = Raised
      <4>1. pending' = pending
        <5>1. pending' = (pending \/ VAL = 1) /\ pending \in BOOLEAN
          BY DEF Cycle, TimeInv, PeriodInv
        <5> QED
          BY <2>7, <5>1, Zenon
      <4> QED
        BY <1>1, <4>1 DEF Raised, vars, clockVars
    <3>2. Phase' = Phase + 1
      BY <1>1, <1>2, <1>3, <2>7 DEF Phase
    <3>3. Phase' * CycleTime' = Phase * CycleTime + CycleTime
      BY <2>2, <2>5, <3>2
    <3>4. /\ Raised' * Tick = Raised * Tick
          /\ (Raised' + inits' - 1) * Tick = (Raised + inits - 1) * Tick
      BY <1>1, <3>1
    <3> QED
      BY <1>2, <1>3, <2>2, <2>3, <2>4, <3>3, <3>4
  <2> QED
    BY <2>6, <2>7
<1> QED
  BY <1>1, <1>2, <1>4, <1>5 DEF TimeInv, Tick

\* The interrupt moves from the hardware's account to the program's.
LEMMA CountingKeepsTime ==
    ASSUME TimeInv, PeriodInv', Raised' = Raised, pending' => pending,
           UNCHANGED <<regVars, realVars>>
    PROVE  TimeInv'
<1>1. UNCHANGED <<Phase, CycleTime>>
  BY DEF Phase, CycleTime, regVars, realVars
<1> QED
  BY <1>1 DEF TimeInv, Tick, regVars, realVars

LEMMA TimeStepInv ==
    ASSUME ClockInv, TimeInv, [TimerNext]_timerVars
    PROVE  TimeInv'
<1>0. PeriodInv'
  BY PeriodStepInv DEF TimeInv
<1>1. Milliseconds(Start[1], Start[2]) \in Nat /\ ticks \in Nat
  BY CountType DEF ClockInv, ClockTypeOK
<1>2. CASE Rescale
  BY <1>0, <1>2, CountingKeepsTime DEF Rescale, Raised, vars, clockVars
<1>3. CASE Enter
  <2>1. pending /\ irq = "idle" /\ ~pending'
    BY <1>3 DEF Enter, IncrementLow
  <2>2. \/ irq' = "carry" /\ ticks' = ticks
        \/ irq' = "idle" /\ ticks' = ticks + 1
    BY <1>3 DEF Enter, IncrementLow
  <2>3. Raised' = Raised
    BY <1>1, <2>1, <2>2 DEF Raised
  <2> QED
    BY <1>0, <1>3, <2>1, <2>3, CountingKeepsTime DEF Enter
<1>4. CASE Carry
  <2>1. irq = "carry" /\ irq' = "idle" /\ ticks' = ticks + 1
    BY <1>4 DEF Carry, IncrementHigh
  <2>2. Raised' = Raised
    BY <1>1, <1>4, <2>1 DEF Raised, Carry, chipVars
  <2> QED
    BY <1>0, <1>4, <2>2, CountingKeepsTime DEF Carry, chipVars
<1>5. CASE UNCHANGED <<clockVars, chipVars>>
  BY <1>0, <1>5, CountingKeepsTime DEF Raised, clockVars, chipVars
<1>6. ASSUME NEW r \in Readers, Read(r)
      PROVE  UNCHANGED <<clockVars, chipVars>>
  BY <1>6 DEF Read, Reader, Call, ReadHigh1, ReadLow, ReadHigh2, Retry, Return
<1>7. UNCHANGED timerVars => UNCHANGED <<clockVars, chipVars>>
  BY DEF timerVars, vars
<1> QED
  BY <1>0, <1>2, <1>3, <1>4, <1>5, <1>6, <1>7, InitKeepsTime, CycleKeepsTime
     DEF TimerNext

(***************************************************************************)
(* The count keeps real time, for any core clocks that are whole numbers   *)
(* of kHz, however often init() is called and the interrupt is held up: it *)
(* is never ahead, and behind by less than a tick for each call of init(), *)
(* until an interrupt is lost or the counter runs at a clock that init()   *)
(* was not told of (stm32_systick_traits.hpp).                             *)
(***************************************************************************)
THEOREM CountKeepsTime == TimerSpec => []TimeKept
<1>1. TimerInit => TimeInv
  <2> SUFFICES ASSUME TimerInit PROVE TimeInv
    OBVIOUS
  <2>1. /\ SystemCoreClock \in Frequencies /\ clock \in Frequencies
        /\ LOAD = 0 /\ VAL = 0 /\ delay = 0 /\ inits = 0 /\ elapsed = 0
        /\ ~ENABLE /\ ~pending /\ pending \in BOOLEAN
    BY DEF TimerInit
  <2>2. Raised = 0
    BY CountType DEF TimerInit, ClockInit, Raised
  <2> QED
    BY <2>1, <2>2 DEF TimeInv, PeriodInv
<1>2. TimeInv /\ ClockInv => TimeKept
  <2> SUFFICES ASSUME TimeInv, ClockInv, inits > 0, ~drifted, ~lost
               PROVE  /\ Raised * Tick <= elapsed
                      /\ elapsed < (Raised + inits) * Tick
    BY DEF TimeKept
  <2>1. /\ Phase * CycleTime \in Nat /\ Phase * CycleTime < Tick
        /\ Tick \in Nat
    <3>1. CycleTime > 0
      BY CyclesOfATick DEF TimeInv, CycleTime
    <3> QED
      BY <3>1, PhaseIsShort
  <2>2. /\ Raised * Tick + Phase * CycleTime <= elapsed
        /\ elapsed <= (Raised + inits - 1) * Tick + Phase * CycleTime
        /\ inits \in Nat /\ elapsed \in Nat
    BY DEF TimeInv
  <2>3. /\ Raised \in Int /\ Raised + inits - 1 \in Int
        /\ Raised * Tick \in Int /\ (Raised + inits - 1) * Tick \in Int
        /\ (Raised + inits - 1) + 1 = Raised + inits
    BY <2>1, <2>2, RaisedType
  <2>4. (Raised + inits) * Tick = (Raised + inits - 1) * Tick + Tick
    BY <2>1, <2>3, Distribute
  <2> QED
    BY <2>1, <2>2, <2>3, <2>4
<1>3. TimerSpec => []ClockInv
  BY TimerImplementsClock, ClockInvariant, PTL
<1> QED
  BY <1>1, <1>2, <1>3, TimeStepInv, PTL DEF TimerSpec
=============================================================================
