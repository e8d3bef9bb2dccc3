# Verification of the STM32 platform drivers

TLA+ models of the drivers' stateful parts, the TLC configurations that check
them on small instances, and theorems that the TLAPS proof system checks for
every instance. File names are relative to the root of the repository.

## 1. The system

A header-only C++20 framework for STM32F1, F3 and F7 microcontrollers and the
host. An application has one *event loop*, *interrupt handlers* that preempt it,
and *coroutines* that the loop starts and that wait in three primitives.

| component | state | operations | used by, or with |
|---|---|---|---|
| `async_queue` (coro/include/coro/async_queue.hpp) | ring of Capacity + 1 slots, `head_`, `tail_` (atomics), `waiter_` | `try_emplace`, `try_push` (producer, often an interrupt), `try_pop`, `co_await async_pop()`, `process()`, destructor (consumer) | memory shared by an interrupt and the loop; the loop resumes the waiter |
| `async_flag` (async_flag.hpp) | `value_`, `handle_` | assignment, `co_await`, destructor | the assignment resumes the waiter on the assigner's stack |
| `coro_timer` (coro_timer.hpp) | `deadline_`, `handle_`, `active_` | `expires_after`, `expires_at`, `cancel`, `co_await async_wait()`, `process()` | `steady_clock::now()`; the loop resumes the waiter |
| `coro_task` (coro_task.hpp) | a coroutine handle; the frames; a global memory resource | `launch_task`, `resume`, `done`, move, `set_resource`, end of a coroutine | every coroutine; the primitives keep handles to its frames |
| SysTick traits (F1, F3) | `wall_low`, `wall_high`, the SysTick registers | `init`, `systick_irq` (interrupt), `monotonic_ticks` | `steady_clock`, `system_clock` |
| DWT traits (F7) | CYCCNT, `dwt_high` | `init`, `monotonic_ticks` | `steady_clock`, `system_clock` |
| `system_clock` | `wall_offset` | `now` | the traits |
| test and host traits | `ticks`, none | `advance`, `reset`, `now` | the host builds |
| `gpio` | the port's ODR (hardware) | `set`, `reset`, `toggle`, `is_set` | any context |
| HAL templates (templates/stm32f*/) and archives (cmake/external/hal/) | the modules enabled, the headers read | commenting lines in or out; the preprocessor's pass | the vendor's drivers |
| Clock concept, platform selection, `IGpio` | none | none | compile time |

What is hard, and what makes each part correct:

* **async_queue** is lock-free between an interrupt and the loop. Every access
  to the other side's index may be interleaved with the other side, and may
  return an older value. Correct means: bounded FIFO delivery, each object
  constructed and destroyed once, and none of the two sides on a slot of the
  other; a constructor that throws leaves the ring as it was, and it must be known
  when a message is lost to one all the same. Above the ring, a coroutine
  that goes to sleep races a push: no wake-up may be lost, no waiter forgotten,
  nothing resumed that is not suspended or for which there is no item.
* **async_flag** resumes inside an assignment. A coroutine may run on top of
  another, wait again, assign, launch or destroy flags before the assignment
  returns. Correct means: a coroutine sleeps on a live flag only while it is
  down and remembers it, `co_await` returns true, only suspended coroutines are
  resumed. An application may also raise a flag from an interrupt, which no
  document forbids for flags: where exactly that goes wrong has to be known.
* **coro_timer** may be moved, cancelled or reused while it is awaited, and its
  coroutine runs inside `process()`. Correct means: never early, never after
  `cancel()`, and at some time once due; on the F7's clock, which goes round,
  it must be known what is left of that.
* **coro_task** frees a frame at the coroutine's end, with handles to it in task
  objects and primitives, and with a resource that may have changed. Correct
  means: no handle is used after the end or while the coroutine runs, memory
  goes back where it came from, and leaks have known causes.
* **The clocks** are read without a lock while an interrupt or the hardware
  advances them. Correct means: no torn read, steady, and in step with real
  time.
* **gpio** shares one register among the pins of a port. Correct means: a call
  on one pin does not undo a call on another, and where it does must be known.
* **HAL templates** are edited by hand. Correct means: whatever is enabled
  compiles, in the order of the includes, and links, and it is known which edits
  have no effect.

The full list of hazards, each at its line and with the properties that watch
it, is in PROJECT.json under "hazards".

## 2. Modules

| module | models | state that is not in the code |
|---|---|---|
| `BoundedFifo` | what `async_queue` promises: an abstract channel | |
| `SpscRing` | the ring: `try_emplace`, `try_push`, `try_pop`, destructor, in steps | views `head_seen`, `tail_seen`; progress of each side; histories `sent`, `received`, `delivered` |
| `AsyncQueue` | extends `SpscRing` with the awaiter, `process()` and the loop | where each coroutine is; `halted` |
| `LevelEvent` | what `async_flag` promises: an abstract event | |
| `AsyncFlag` | any number of flags and coroutines, in one thread | the stack of coroutines entered; where each is |
| `FlagFromInterrupt` | one flag that an interrupt raises | who runs in the program and in the interrupt, and who entered whom (`caller`); the line an assignment is at (`phase`) and its local `h` (`taken`); `missed`, `raced` |
| `CoroTimer` | one timer, its coroutines and the loop | `due`, the deadline asked for, without overflow |
| `CoroTask` | frames, task objects, primitives, memory resources | the stack; `origin`, `used`; `misused` |
| `SysTickClock` | `systick_irq` and any number of readers | `ticks`, `since`, `floor`, `latest` |
| `SysTickTimer` | extends `SysTickClock` with `init_systick`, the counter, its interrupt and real time | `elapsed`, `cycles`, `delay`, `drifted`, `lost` |
| `DwtClock` | CYCCNT, its scaling, the core frequency | `cycles`, `latest` |
| `DwtTimer` | composes `DwtClock` with an instance of `CoroTimer` | `realDue`, `setLap`, `waitLap`, `unpolled` |
| `GpioPort` | ports of output pins, contexts by priority | `commanded`, `exposed` |
| `HalConf` | the three HAL templates as the preprocessor reads them, and the archives | `edited` |
| `*Proofs` | the theorems, by component; `PreemptionProofs` those of `GpioPort` and `FlagFromInterrupt` | |
| `MC*` | the small instances | |

Each module names the code it models in its header, and PROJECT.json ("map")
gives the lines of each definition. An operator whose name is that of another
one with a suffix (`Process_KeepsHandle`) is a plausible bug: no specification
uses it. Put in the place of the original it breaks the property that
PROJECT.json pairs it with, which shows that the property depends on the code.
Coroutines are named `fresh` until `launch_task(...).resume()` (`Launch`: the
promise suspends initially), and are `done` for good after `Return`.

**Both builds.** The primitives assert that they have one waiter. A build with
assertions stops there (`halted`); the Release presets define NDEBUG, and the
second waiter takes the first one's place, which nothing resumes any more
(`replaced`, in `CoroTimer` and `CoroTask` stranded or unreachable). Both are
steps of the models (`AwaitSuspend`, with the helper `Replace`), so that every
property is about either build.

How state and actions correspond to the code:

**SpscRing.** The indices are the atomics. A call of `try_emplace` is
`TryEmplace` (the load of `head_` and the check), `Construct` and `Publish` (the
release store of `tail_`), or `TryEmplaceFull`, or it ends in `ConstructThrows`.
`try_pop` is `TryPop`, `MoveOut` (the move and the destruction, in a slot only
the consumer reaches), `ReleaseSlot` and `HandOver` (the way from the local
optional to the caller, which in `await_resume` is a second move, line 129), or
`TryPopEmpty`. It may end in `MoveThrows`, before the slot is released, where the
message stays in the queue, or in `HandOverThrows`, after it, where the message is
in no slot any more and lost. `Fragile` holds the messages whose move constructor
may throw. What an acquire load of the other side's index returns is
`head_seen` and `tail_seen`. Stores become visible in order, at any later time
(`SeeHead`, `SeeTail`), which is what coherence of an atomic allows; the release
and acquire pairs make the slot contents visible with the index, so slots need
no views. On one core the views never lag, and those runs are among the modelled ones.

**AsyncQueue.** The consumer's side is one thread of control: the loop, or the
coroutine it entered (`running`). `state` follows a coroutine through
`await_ready` (`AwaitReady`), the two halves of `await_suspend` (`AwaitSuspend`
up to the recording of the handle, `Recheck` after it) and `await_resume`
(`AwaitResume`, then the steps of `try_pop` up to the second move). The producer and the views may
step between any two of these. `Process` takes the handle and enters the
coroutine. A coroutine or the loop may catch what a move constructor throws and go
on without the message (`Thrown`); an exception that leaves a coroutine, and a
failed assertion, stop the program (`halted`). To its users the queue is
`BoundedFifo`: messages go in at the back, are taken from the front into a hand,
and are delivered from there, or lost there if they are fragile.

**AsyncFlag.** `stack` holds the coroutines entered, innermost first. `Assign`
pushes the waiter it resumes; `AwaitSuspend` and `Return` pop. `await_ready` and
`await_suspend` are one step, because nothing else runs between them in a single
thread; for the same reason lines 38-39, which test the flag again, never find
it up. To its users a flag is an event of `LevelEvent`: `Raise`, `Lower`, `Wait`
and `Abandon` are its assignments, a `co_await` that suspends, and its
destructor; every other step is between a coroutine and its caller.

**FlagFromInterrupt.** Here an interrupt handler may assign to the flag between
any two accesses of the program to its members, and the coroutine it resumes runs
inside the handler. The handler, the program and every coroutine may start other
coroutines (`Launch`), which may wait for the flag in turn; `caller` says who
entered whom. `AwaitReady`, `AwaitSuspend` (whose load the compiler may merge with
the one before) and `Record` are the steps of a `co_await`. An assignment of the
program goes line by line: `Store` (17), `Test` (19), `Load` (20), `Clear` (21),
`Resume` (22). Lines 19 and 20 load the plain member `handle_` twice, or once if
the compiler merges them, and `Test` may do either; a null handle that the second
load finds is resumed by line 22, which is undefined. The handler itself is not
interrupted (`Raise`). After undefined behaviour nothing is said (`Next`). The
rule that a flag has one waiter, which line 37 asserts, is here a guard of
`AwaitReady` and covers the whole `co_await`: what a second waiter does is in
`AsyncFlag`.

**CoroTimer.** One action per operation. A time point is a signed integer from
-MaxRep - 1 to MaxRep, and its addition wraps (`Plus`). Time passes between any
two steps (`Advance`). A coroutine that is suspended when `cancel()` runs is
`stranded`: nothing in the code can resume it.

**CoroTask.** A frame goes from `none` through `created`, `running` and
`waiting` to `freed`. Tasks are places that hold a handle, a null handle or
nothing; a primitive is anything that holds the handle of a waiter and resumes
it (`Wake`), drops it (`Forget`: `cancel()`, or the end of a flag, queue or
timer under its waiter) or has it replaced. `Enter` is what resuming does:
undefined unless the frame is suspended. `Return` is the end of a coroutine,
which calls `operator delete`: `PLATFORM_HOST` says whether that deallocates,
from the resource in force, or terminates.

**SysTickClock.** `IncrementLow` and `IncrementHigh` are the two increments of
the handler. A reader makes its three loads in three steps, and interrupts fall
anywhere between them. A reader never runs inside the handler: SysTick keeps the
highest priority, which is its reset value and the value 0 of
`TICK_INT_PRIORITY` in the templates (templates/stm32f1/stm32f1xx_hal_conf.h:113
and templates/stm32f3/stm32f3xx_hal_conf.h:135 call it "lowest by default"; on a
Cortex-M, 0 is the highest). The model relies on this, and
`ReaderMayRun_Preempts` shows why: with a lower priority another handler could
read a carry half done, and time would go back by 2^32 ms. The conversion from
milliseconds to nanoseconds preserves order for 292 years and is left out.

**SysTickTimer.** The counter goes from LOAD to zero and round again, once a
`Cycle`; reaching zero raises the interrupt (`pending`), which the application
may keep out for up to `MaxDelay` cycles before it is taken (`Enter`, then
`Carry` if the low word wrapped). `init_systick` may be called again at any
time, and the core clock may change at any time (`Rescale`), which nothing tells
SysTick. `elapsed` is real time, in units that every cycle is a whole number of.

**DwtClock.** `monotonic_ticks` is one step: `dwt_high` never changes, so the
call depends on one load. `Rescale` is the application's change of
`SystemCoreClock`, external to this repository.

**DwtTimer.** `T` is an instance of `CoroTimer` on the same variables, whose
`now` is that of `DwtClock`; each action is one of the timer's, or of the
clock's, or a call of `process()` (`Poll`), which comes at least every `MaxPoll`
cycles. `Elapsed` is the real time since `init()`.

**GpioPort.** `set` and `reset` are atomic stores to BSRR; `toggle` is a load
and a store of ODR. A context of higher priority may run between them, and may
drive the same port. `exposed` remembers the pins it drives there, until they are
set or reset again.

**HalConf.** The template is read line by line: the list of modules, each line as
it stands (`Keep`) or edited (`Edit`), then the conditional includes (`Include`).
The values that stand between the two, each defined unless the toolchain gives
it, are left out. The lists, the
include order and the archives' sources are the data of the three templates and
of cmake/external/hal/. `DmaUsers`, the modules whose vendor headers use
`DMA_HandleTypeDef`, is external.

## 3. Runs

| run | instance | states | shows |
|---|---|---|---|
| `async_queue` | capacity 2, 2 messages, one of them fragile, 5 accepted, 2 coroutines | 244950 | of the ring `SlotDiscipline`, `OccupancyExact`, `DestroyedOnce`, `StaleViewsAreSafe`, and that it implements `BoundedFifo`; of the coroutines `NeverResumedWithoutItem`, `ParkedIsWaiter`, `WaiterIsParked`, and `NoLostWakeup` under fairness; the inductive `QueueInv` |
| `async_flag` | 2 flags, 3 coroutines, symmetry | 2154 | `NoLostSignal`, `AwaitReturnsTrue`, `OnlySuspendedAreResumed`, that it implements `LevelEvent`; the inductive `FlagInv` |
| `flag_from_interrupt` | 3 coroutines | 6977 | `OnlySuspendedAreResumed` and `NobodyForgotten` (but for one race), `SleepsUpOnlyIfMissed`; the inductive `InterruptInv` |
| `coro_timer` | 2 coroutines, time to 3, durations -1, 0, 2, 4 | 834 | `WaiterIsParked`, `NeverEarly`, `CancelledStaysCancelled`, and `FiresWhenDue` under fairness |
| `coro_timer_forever` | durations 2 and MaxRep | (violated) | `NeverEarly` fails when the deadline overflows |
| `systick_clock` | 2 readers, symmetry, words of 2 values, 2 calls of `init`, clocks of 2 and 3 cycles a tick, an interrupt kept out for up to 4 cycles | 6794974 | the inductive `ClockInv`, `ReadsAreAtomic`, `NeverGoesBack`, `TimeKept`, `LostOnlyAfterWholePeriod` |
| `dwt_timer` | words of 16 values, 30 cycles, two frequencies, durations 0, 9, 20, 2 coroutines | 261445 | `NowIsExact` before the wrap; `PunctualInALap`, `NeverEarlyInTime` across it |
| `dwt_clock_wrap` | one frequency, 33 cycles | (violated) | `NeverGoesBack` fails when CYCCNT wraps |
| `dwt_clock_rescale` | two frequencies, 31 cycles | (violated) | `NeverGoesBack` fails when the frequency rises |
| `gpio_port` | 2 ports of 2 pins, program and one interrupt, toggles that are preempted and toggles that preempt | 3696 | `PinsAsCommanded` |
| `coro_task` | 3 frames, 2 tasks, 2 primitives, 2 resources of 2 frames, symmetry, host and device | 71810 | `UndefinedOnlyIfMisused`, `MemoryAccounted`, `PoolOnlyFills`, `LeaksOnlyByDroppingOrForgetting`, the inductive `TaskInv` |
| `hal_conf` | the three templates, 2 changes | 160808 | `NeedsComeFirst`, `EditDecides`, `EnabledIsUsable` |

Bounds, and why they are enough:

* `MaxSent` (messages accepted): 5 messages through 3 slots take both indices
  around the ring and past their first position. Capacity 2 tells full, partly
  full and empty apart. The theorems cover every capacity and any number of
  messages.
* Three coroutines and two flags give a resumption nested in another, with a
  third coroutine to disturb both. `AsyncFlag` and `FlagFromInterrupt` have no
  other bound.
* `MaxTime` and `MaxRep`: the clock passes every deadline the durations 0 and 2
  set, and never reaches that of 4 set late. In `coro_timer` the counts are wide
  enough for every sum, in `coro_timer_forever` they are not; in `dwt_timer`
  they are.
* `MaxTicks`: the count starts one tick below a carry, and in words of two
  values several carries may fall into one call of `now()`. The high word itself
  wraps only after 2^64 ms.
* `MaxCycles`, `MaxInits`, `MaxDelay` in `systick_clock`: 5 cycles after each of
  two calls of `init()` make up to four ticks, and an interrupt kept out for 4
  cycles outlasts a period of either clock, so that ticks are in fact lost.
* `MaxCycles` in the DWT runs: 31 stays below a wrap of a 32-valued word, 33
  goes over it; in `dwt_timer` 30 cycles go almost twice round 16 values, and a
  lap is 53 or 22 units, so that the duration 20 fits into what is left of a
  lap or not. The core clocks 3 and 7 divide neither the second (10) nor the
  word. `MaxPoll` 2 leaves a cycle between a deadline and the call that sees it.
* Three frames, two tasks and two primitives: a coroutine resumed twice over, a
  waiter replaced while a third runs, and a resource that is full.
* `MaxEdits`: what the properties say is of one line, or of a module and DMA, so
  that two changes meet every case.

`CHECK_DEADLOCK FALSE` stands where the modelled program really stops: when all
messages are sent and the queue is destroyed, when every coroutine has ended,
when an assertion or std::terminate has stopped the program, when the cycles of
`dwt_timer` are used up, or when a template has been read to its end. The
SysTick clock and the ports may always step, and are checked for deadlock.

### Fairness

`FairQueueSpec` asks that the event loop calls `process()` again and again
(README.md:144-150 tells the application to), that a coroutine which runs
reaches its next `co_await` or its end, that a `try_pop` which began goes on and
does not throw for ever, and that stores become visible in finite time. It asks
nothing of the producer. `FairTimerSpec` asks for `process()` only;
`FiresWhenDue` adds a premise, that control returns to the loop again and again,
because a coroutine that awaits a deadline already passed is not suspended and
may keep the processor for ever.

### Where code and documents disagree

1. `coro_timer::expires_after` overflows for durations near
   `nanoseconds::max()`: the wait that should last for ever is over at once.
   Signed overflow is undefined in C++; the model takes the wrapped sum, which
   the targets compute.
2. The STM32F7 clock is called overflow-safe (README.md:81), but `dwt_high` is
   never assigned: it returns to zero every 2^32 cycles, 19.9 s at 216 MHz.
   For timers this means (`PunctualInALap`, `NeverEarlyInTime`): never early,
   but a deadline beyond the wrap is not seen, and the coroutine waits a lap or
   for ever.
3. `steady_clock::is_steady` is true, but on the F7 a rise of `SystemCoreClock`
   between two calls takes the clock back.

What else the models make visible, and the properties state as it is:

* The module lists of the HAL templates name modules for which there is no
  `#include`: CRYP and SDRAM on the F1, CRYP, LCD, LPTIM and RNG on the F3. The
  F3's and F7's templates enable modules that their archives do not compile: SPI
  and I2C, UART and I2C (`EnabledIsUsable`). In two lists
  some lines decide nothing, because another line names the same module: the F1's
  enables GPIO twice, and has CORTEX, DMA, FLASH, PWR and RCC both commented out
  and active, as the F7's has EXTI (`EditDecides`).
* A flag raised by an interrupt inside a `co_await` of it leaves the coroutine
  asleep with the flag up, until it is raised again. An interrupt that enters
  a coroutine inside another assignment, between its test of the handle and its
  resumption, has the assignment resume a null handle or a coroutine that is not
  suspended; or it wipes the handle of one that has begun to wait in between
  (`FlagFromInterrupt`: `OnlySuspendedAreResumed`, `NobodyForgotten`).
* A message whose second move (`async_queue.hpp:129`) throws is lost: its slot has
  been released. The abstract channel allows this of fragile messages, and of no
  others.
* A `toggle` undoes what is done to other pins of its port between its load and
  its store, and nothing else (`PinsAsCommanded`).
* After a change of the core clock, SysTick's milliseconds have another length
  until `init()` is called again; and `init_systick` rounds LOAD down, so that a
  clock that is not a whole number of kHz makes every tick short (the model
  assumes that it is).
* Off the host, a coroutine that returns ends the program (`PoolOnlyFills`).

Also, `host_traits.hpp:12` lacks a semicolon, so a host build that is not a test
build does not compile once it includes a clock.

## 4. Proofs

Theorems hold for every value of the constants that their module's assumptions
allow (a capacity of at least one, a word of at least one value, null handles
that are no coroutine). Each rests on an inductive invariant, which TLC has
checked on the small instances before it was proved; `QueueInv`, `FlagInv`,
`InterruptInv`, `ClockInv` and `TaskInv` are properties of the runs, and the others are built
from the properties of the runs.

* **AsyncQueueProofs**, first part, the ring. `RingInvariant` proves `RingInv`.
  The properties alone are not inductive: that a slot is free when a message is
  constructed follows only from how many slots lie between the indices
  (`IndicesCount`), from a producer whose stale `head_` shows no more room than
  there is (`ViewsLag`), from a check that still holds while the operation goes
  on (`OperationsHold`), and from what each slot holds (`SlotContents`). The
  arithmetic of the ring, `Distance` and `next`, is in lemmas of its own; then
  there is one lemma per action. If no message is fragile, what has left the ring
  has been delivered, but for the message in the hand (`NoneLost`: the run has a
  fragile message, so that it says there by `BoundedFifo` alone that the other is
  never lost). From `RingInv` follow `TypeCorrect`,
  `SlotsDisciplined`, `DeliveredInOrder`, `OccupancyIsExact`,
  `DestructorComplete`, `StaleIndicesSafe`, and `RingImplementsFifo`: every step
  of the ring is one of `BoundedFifo`'s or a stutter, under the mapping `Fifo`.
* **AsyncQueueProofs**, second part, the queue. `QueueStepIsRingStep` carries all
  of this up to the queue (`QueueImplementsRing`, `QueueImplementsFifo`).
  `QueueInvariant` proves `QueueInv`, which adds to `RingInv` that one coroutine
  runs at a time (`RunsAlone`), that a `try_pop` inside a coroutine is its own
  (`PopIsTheirs`), that an item once found stays (`ItemStays`: nobody else pops
  in between), and that the recorded handle and the suspended coroutine agree.
  `ItemIsThere`, `ResumedIsParked`, `NoWaiterForgotten` and `QueueTypeCorrect`
  follow.
* **AsyncFlagProofs.** `FlagInvariant` proves `FlagInv`: a handle and its waiter
  agree in both directions, and the stack holds distinct coroutines of which only
  the innermost may stand between its resumption and `await_resume`. The last
  part is what lets `await_resume` forget the recorded handle safely: nobody else
  has waited for that flag in the meantime. `NoSignalLost`, `AwaitTrue`,
  `ResumptionsValid` and `FlagTypeCorrect` follow, and `FlagImplementsEvent`: every
  step is one of `LevelEvent`'s or a stutter, under the mapping `Event`. What that
  adds is the other direction: a raise lets go everyone who waits, and nothing
  else lets anyone go.
* **PreemptionProofs**, the ports. `NoUpdateLost` proves `PinsAsCommanded` for any
  contexts, ports and pins, whatever preempts what. Behind it is `GpioInvariant`: a
  toggle in progress holds the port's own value, but for the pins driven inside it
  (`LoadedIsCurrent`). No rule of use is assumed; a program in which nothing that
  drives a port preempts a toggle there has no exposed pins.
* **PreemptionProofs**, the flag raised from an interrupt. `InterruptInvariant`
  proves `InterruptInv`: whoever is in the middle of a `co_await` is the innermost
  coroutine of the program or of the handler (`RunnersRun`), those it was entered
  from stand in their own code, each below one other (`CallersStand`), a flag
  raised during a `co_await` is remembered as missed (`RaisedIsMissed`), and an
  assignment that no interrupt has fallen into since its test holds the recorded
  handle (`AssignmentHolds`). There is one lemma per action, and one for each way
  of entering and leaving a coroutine. `InterruptResumesSuspended`,
  `InterruptForgetsNobody` and `MissedOnlyInsideAwait` follow.
* **CoroTimerProofs.** `WaiterAgrees` and `CancelIsFinal` hold without condition.
  `TimerNeverEarly` assumes `DeadlinesFit`, that no sum overflows: the condition
  `coro_timer_forever` breaks. Also `TimerInvariant`, `TimerTypeCorrect`.
* **CoroTaskProofs.** `TaskInvariant` proves `TaskInv`: the stack is the running
  frames, each once (`StackIsRunning`), and in a program that keeps the two rules
  primitives hold suspended frames, each its own (`WaitersWait`), and live frames
  come from the resource in force (`LiveFromResource`). `RulesSuffice`,
  `FramesHaveOneOwner` and `TaskTypeCorrect` follow, and `LeaksAreTheirs` says
  how a live frame gets out of reach, for programs that break the rules too.
  `FramesAreAccounted` and `TargetPoolOnlyFills` prove `MemoryAccounted` and
  `PoolOnlyFills` together (`MemoryInv`), with one thing more: the frames launched
  so far are finitely many, though `Frames` may be infinite. Each step moves at
  most one frame in or out of the sets that are counted.
* **SysTickClockProofs.** `ClockInvariant` proves `ClockInv`; its part
  `LoadsHold` says what the loads made so far tell while the high word stands
  still. `CountExact`, `NoTornRead`, `ClockIsSteady` and `ClockTypeCorrect`
  follow, across all readers, for a count that may start anywhere.
  `TimerImplementsClock` carries them to `SysTickTimer`. `PeriodPasses` proves
  `LostOnlyAfterWholePeriod` from `PeriodInv`: what is left of the period,
  together with the time the interrupt has waited, is more than LOAD.
  `CountKeepsTime` proves `TimeKept` from `TimeInv`: the ticks raised, and the part
  of a period that the counter has counted off since (`Phase`), make up real time,
  but for the parts that calls of `init()` threw away. It needs core clocks that
  are whole numbers of kHz, which is `TimerAssumption`; for others LOAD is rounded
  down, and the count does get ahead of real time.
* **DwtTimerProofs.** `ClockIsExact` proves `NowIsExact` for a counter of any
  width and any core clocks: a word that the 10^9 of a second fits in is enough
  for the product to fit in two. `TimerKeepsClock` says that the timer leaves the
  clock as it is. `WaitsAreNeverShort` and `WaitsArePunctual` prove
  `NeverEarlyInTime` and `PunctualInALap` for any number of laps of the counter,
  any durations and coroutines, under `DeadlinesFit`. The first needs that the
  real time asked for is ahead of the deadline by the laps gone by when it was
  set, to the nanosecond that a reading drops (`DeadlineInv`); the second, that a
  wait begun in the lap of its deadline had not come due at the last call of
  `process()` (`NotMissed` in `WaitInv`). Its bound `MaxPoll` on the time
  between two calls is shorter than a lap, 19.9 s at 216 MHz, and its core clocks
  are not above 1 GHz (`PollAssumption`): a loop slower than that, or a cycle
  shorter than a nanosecond, is not covered. Division and remainder are in lemmas
  of their own (`FloorBelow`, `FloorSum`, `NextLap`).
* **HalConfProofs.** `ConfInvariant` holds for every set of lines edited, where
  the run edits two: what is enabled and read follows from the lines read so far. What the proofs take from the three
  templates is in a few lemmas about their data: DMA's `#include` is the fourth and
  nothing before it needs it (`DmaIsFourth`), which lines share a name
  (`ActiveNames`, `CommentedNames`, `InTemplate`), and which lines an `#include` answers
  (`HeadersListed`). From these, `DmaComesFirst`, `OneLineDecides` and
  `EnabledCanBeUsed` prove the three properties of the run.

Every invariant and every action property of the passing runs is stated by a
theorem. Only model-checked: the liveness properties `NoLostWakeup` and
`FiresWhenDue`, which are beyond the prover. The three runs that find a property
violated prove nothing, but each shows that a hypothesis above is needed:
`DeadlinesFit`, a counter that has not wrapped, a core clock that stays.

## 5. Not modelled

* `system_clock` and `wall_ticks`: the steady clock plus `wall_offset`, which
  nothing sets.
* The fake clock of the tests, which is a variable they move (`Advance` of
  `CoroTimer`), and the host's, which does not compile.
* `is_set`, `capacity` and `operator bool`, which only read.
* The values that the HAL templates define, guarded or not, and `assert_param`, which expands to
  nothing: they decide nothing here. The vendor's drivers are not in the
  repository.
* Compile-time parts (the Clock concept, platform selection, `IGpio`), the build
  system, scripts, CI and tests.
* Pushes from two producers at a time: the class is a single-producer queue by
  its documentation.

## 6. Plan

Done, in this order: the ring and its abstract channel; the queue's coroutine
side; the flag; the timer; the two clocks; the ports; the frames and tasks; the
flag raised from an interrupt; the clocks against real time, and a timer on the
one that wraps; the HAL templates; proofs for each, with the refinements of the
queue, of the SysTick clock and of the flag.

What could still be added, by importance:

1. A composed runtime: one event loop with a queue, a flag and a timer, whose
   coroutines wait in one after the other.
2. The safety that the liveness properties rest on, as theorems: that a
   suspended waiter whose item or deadline has come can always be resumed by the
   next `process()`.
3. An abstract timer that `CoroTimer` implements under `DeadlinesFit`.
