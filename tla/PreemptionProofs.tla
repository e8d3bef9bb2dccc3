-------------------------- MODULE PreemptionProofs --------------------------
(***************************************************************************)
(* Proofs about what code does that an interrupt pre-empts: GpioPort, for  *)
(* any contexts, ports and pins, where a toggle undoes no call but those   *)
(* made inside it; and FlagFromInterrupt, for any number of coroutines and *)
(* wherever the interrupt falls.                                           *)
(***************************************************************************)
EXTENDS GpioPort, FlagFromInterrupt, TLAPS

-----------------------------------------------------------------------------
(***************************************************************************)
(* The pins of a port.                                                     *)
(***************************************************************************)
LEMMA GpioInitInv == GpioInit => GpioInv
  BY DEF GpioInit, GpioInv, GpioTypeOK, PinsAsCommanded, LoadedIsCurrent

\* A store to pin p of port q by context c: what is unexposed after it was
\* so before it and is another pin, or is p and no toggle is in progress on q.
LEMMA Exposes ==
    ASSUME NEW c \in Contexts, NEW q \in Ports, NEW p \in Pins,
           Expose(c, q, p), exposed \subseteq Ports \X Pins
    PROVE  /\ exposed' \subseteq Ports \X Pins
           /\ \A r \in Ports, b \in Pins : <<r, b>> \notin exposed' =>
                \/ <<r, b>> # <<q, p>> /\ <<r, b>> \notin exposed
                \/ r = q /\ b = p /\ ~Inside(c, q)
  BY DEF Expose

\* set and reset: one pin of one port becomes what was commanded.
LEMMA StoreInv ==
    ASSUME GpioInv, NEW c \in Contexts, NEW q \in Ports, NEW p \in Pins,
           set(c, q, p) \/ reset(c, q, p)
    PROVE  GpioInv'
<1>0. /\ toggling[c] = <<>> /\ UNCHANGED toggling /\ Expose(c, q, p)
      /\ exposed \subseteq Ports \X Pins
  BY DEF set, reset, Idle, GpioInv, GpioTypeOK
<1>1. /\ ODR' \in [Ports -> SUBSET Pins]
      /\ commanded' \in [Ports -> SUBSET Pins]
      /\ p \in ODR'[q] <=> p \in commanded'[q]
      /\ \A r \in Ports, b \in Pins : <<r, b>> # <<q, p>> =>
           /\ b \in ODR'[r] <=> b \in ODR[r]
           /\ b \in commanded'[r] <=> b \in commanded[r]
  <2>1. ODR \in [Ports -> SUBSET Pins] /\ commanded \in [Ports -> SUBSET Pins]
    BY DEF GpioInv, GpioTypeOK
  <2>2. CASE set(c, q, p)
    BY <2>1, <2>2 DEF set
  <2>3. CASE reset(c, q, p)
    BY <2>1, <2>3 DEF reset
  <2> QED
    BY <2>2, <2>3
<1>2. /\ exposed' \subseteq Ports \X Pins
      /\ \A r \in Ports, b \in Pins : <<r, b>> \notin exposed' =>
           \/ <<r, b>> # <<q, p>> /\ <<r, b>> \notin exposed
           \/ r = q /\ b = p /\ ~Inside(c, q)
  BY <1>0, Exposes
<1>3. GpioTypeOK'
  BY <1>0, <1>1, <1>2 DEF GpioInv, GpioTypeOK
<1>4. PinsAsCommanded'
  BY <1>1, <1>2 DEF GpioInv, PinsAsCommanded
<1>5. LoadedIsCurrent'
  <2> SUFFICES ASSUME NEW d \in Contexts, NEW b \in Pins,
                      toggling[d] # <<>>,
                      <<toggling[d][1], b>> \notin exposed'
               PROVE  b \in toggling[d][3] <=> b \in ODR'[toggling[d][1]]
    BY <1>0 DEF LoadedIsCurrent
  <2> DEFINE r == toggling[d][1]
  <2>1. r \in Ports
    BY DEF GpioInv, GpioTypeOK
  <2>2. r = q => Inside(c, q)
    BY <1>0 DEF Inside
  <2>3. <<r, b>> # <<q, p>> /\ <<r, b>> \notin exposed
    BY <1>2, <2>1, <2>2
  <2>4. b \in toggling[d][3] <=> b \in ODR[r]
    BY <2>3 DEF GpioInv, LoadedIsCurrent
  <2> QED
    BY <1>1, <2>1, <2>3, <2>4
<1> QED
  BY <1>3, <1>4, <1>5 DEF GpioInv

LEMMA ToggleLoadInv ==
    ASSUME GpioInv, NEW c \in Contexts, NEW q \in Ports, NEW p \in Pins,
           toggle_load(c, q, p)
    PROVE  GpioInv'
<1>0. /\ toggling' = [toggling EXCEPT ![c] = <<q, p, ODR[q]>>]
      /\ UNCHANGED <<ODR, commanded, exposed>>
  BY DEF toggle_load
<1>1. GpioTypeOK'
  <2>1. <<q, p, ODR[q]>> \in Ports \X Pins \X SUBSET Pins
    BY DEF GpioInv, GpioTypeOK
  <2> QED
    BY <1>0, <2>1 DEF GpioInv, GpioTypeOK
<1>2. PinsAsCommanded'
  BY <1>0 DEF GpioInv, PinsAsCommanded
<1>3. LoadedIsCurrent'
  BY <1>0 DEF GpioInv, GpioTypeOK, LoadedIsCurrent
<1> QED
  BY <1>1, <1>2, <1>3 DEF GpioInv

\* The store of a toggle puts back the pins that it has loaded: they are
\* the port's own, but for those driven since.
LEMMA ToggleStoreInv ==
    ASSUME GpioInv, NEW c \in Contexts, NEW q \in Ports, NEW p \in Pins,
           toggle_store(c, q, p)
    PROVE  GpioInv'
<1> DEFINE loaded == toggling[c][3]
<1>0. /\ toggling[c] # <<>> /\ toggling[c][1] = q
      /\ ODR' = [ODR EXCEPT ![q] = Flip(loaded, p)]
      /\ commanded' = [commanded EXCEPT ![q] = Flip(commanded[q], p)]
      /\ toggling' = [toggling EXCEPT ![c] = <<>>]
      /\ exposed' = IF Inside(c, q) THEN exposed \cup {<<q, p>>} ELSE exposed
  BY DEF toggle_store
<1>1. /\ ODR \in [Ports -> SUBSET Pins] /\ commanded \in [Ports -> SUBSET Pins]
      /\ exposed \subseteq Ports \X Pins /\ loaded \subseteq Pins
  BY <1>0 DEF GpioInv, GpioTypeOK
<1>2. \A b \in Pins : <<q, b>> \notin exposed =>
           /\ b \in loaded <=> b \in ODR[q]
           /\ b \in ODR[q] <=> b \in commanded[q]
  BY <1>0 DEF GpioInv, LoadedIsCurrent, PinsAsCommanded
<1>3. \A r \in Ports, b \in Pins :
           <<r, b>> \notin exposed' => <<r, b>> \notin exposed
  BY <1>0
<1> HIDE DEF loaded
<1>4. /\ Flip(loaded, p) \subseteq Pins /\ Flip(commanded[q], p) \subseteq Pins
      /\ \A b \in Pins : b \in Flip(loaded, p) <=>
                           (b # p /\ b \in loaded) \/ (b = p /\ b \notin loaded)
      /\ \A b \in Pins : b \in Flip(commanded[q], p) <=>
                           \/ b # p /\ b \in commanded[q]
                           \/ b = p /\ b \notin commanded[q]
  BY <1>1 DEF Flip
<1>5. /\ ODR'[q] = Flip(loaded, p) /\ commanded'[q] = Flip(commanded[q], p)
      /\ \A r \in Ports : r # q =>
           ODR'[r] = ODR[r] /\ commanded'[r] = commanded[r]
  BY <1>0, <1>1
<1>6. GpioTypeOK'
  <2>1. exposed' \subseteq Ports \X Pins
    BY <1>0, <1>1
  <2> QED
    BY <1>0, <1>1, <1>4, <2>1 DEF GpioInv, GpioTypeOK
<1>7. PinsAsCommanded'
  <2> SUFFICES ASSUME NEW r \in Ports, NEW b \in Pins,
                      <<r, b>> \notin exposed'
               PROVE  b \in ODR'[r] <=> b \in commanded'[r]
    BY DEF PinsAsCommanded
  <2>1. CASE r = q
    BY <1>2, <1>3, <1>4, <1>5, <2>1
  <2>2. CASE r # q
    BY <1>3, <1>5, <2>2 DEF GpioInv, PinsAsCommanded
  <2> QED
    BY <2>1, <2>2
<1>8. LoadedIsCurrent'
  <2> SUFFICES ASSUME NEW d \in Contexts, NEW b \in Pins,
                      toggling'[d] # <<>>,
                      <<toggling'[d][1], b>> \notin exposed'
               PROVE  b \in toggling'[d][3] <=> b \in ODR'[toggling'[d][1]]
    BY DEF LoadedIsCurrent
  <2>1. d # c /\ toggling'[d] = toggling[d]
    BY <1>0 DEF GpioInv, GpioTypeOK
  <2>2. toggling[d][1] \in Ports
    BY <2>1 DEF GpioInv, GpioTypeOK
  <2>3. <<toggling[d][1], b>> \notin exposed
    BY <1>3, <2>1, <2>2
  <2>4. b \in toggling[d][3] <=> b \in ODR[toggling[d][1]]
    BY <2>1, <2>3 DEF GpioInv, LoadedIsCurrent
  <2>5. CASE toggling[d][1] = q
    <3>1. Inside(c, q)
      BY <2>1, <2>5 DEF Inside
    <3>2. b # p
      BY <1>0, <2>1, <2>5, <3>1
    <3>3. b \in ODR'[q] <=> b \in ODR[q]
      BY <1>2, <1>4, <1>5, <2>3, <2>5, <3>2
    <3> QED
      BY <2>1, <2>4, <2>5, <3>3
  <2>6. CASE toggling[d][1] # q
    BY <1>5, <2>1, <2>2, <2>4, <2>6
  <2> QED
    BY <2>5, <2>6
<1> QED
  BY <1>6, <1>7, <1>8 DEF GpioInv

(***************************************************************************)
(* However the contexts preempt one another's toggles (gpio.hpp:40-42), a  *)
(* toggle in progress holds what its port holds, but for the pins driven   *)
(* inside it.                                                              *)
(***************************************************************************)
THEOREM GpioInvariant == GpioSpec => []GpioInv
<1>1. GpioInit => GpioInv
  BY GpioInitInv
<1>2. GpioInv /\ [GpioNext]_vars => GpioInv'
  <2> SUFFICES ASSUME GpioInv, [GpioNext]_vars PROVE GpioInv'
    OBVIOUS
  <2>1. CASE UNCHANGED vars
    BY <2>1 DEF vars, GpioInv, GpioTypeOK, PinsAsCommanded, LoadedIsCurrent
  <2>2. ASSUME NEW c \in Contexts, NEW q \in Ports, NEW p \in Pins,
               \/ set(c, q, p)
               \/ reset(c, q, p)
               \/ toggle_load(c, q, p)
               \/ toggle_store(c, q, p)
        PROVE  GpioInv'
    BY <2>2, StoreInv, ToggleLoadInv, ToggleStoreInv
  <2> QED
    BY <2>1, <2>2 DEF GpioNext
<1> QED
  BY <1>1, <1>2, PTL DEF GpioSpec

(***************************************************************************)
(* For any contexts, ports and pins, the only calls that a toggle undoes   *)
(* are those on the pins driven inside it: every other pin is as it was    *)
(* commanded.                                                              *)
(***************************************************************************)
THEOREM NoUpdateLost == GpioSpec => []PinsAsCommanded
<1>1. GpioInv => PinsAsCommanded
  BY DEF GpioInv
<1> QED
  BY <1>1, GpioInvariant, PTL

-----------------------------------------------------------------------------
(***************************************************************************)
(* The flag.  First, who runs and who has entered whom.                    *)
(***************************************************************************)
USE NoHandleAssumption

\* The states a coroutine passes through between suspensions.
Active == {"body", "tested", "checked", "resume"}

LEMMA InterruptInit == Init => InterruptInv
  BY DEF Init, InterruptInv, FlagTypeOK, OneAwaits, HandleIsParked,
         NobodyForgotten, RunnersRun, CallersStand, RaisedIsMissed,
         AssignmentHolds, SleepsUpOnlyIfMissed, OnlySuspendedAreResumed,
         Awaiting, Waiting, States, Phases

\* What the invariant says of the coroutine that runs.
LEMMA Runner ==
    ASSUME InterruptInv, NEW c \in Coroutines, Runs(c)
    PROVE  /\ state \in [Coroutines -> States]
           /\ state[c] \in Active
           /\ state[c] # "resume" => handle_ # c
           /\ \A d \in Coroutines : caller[d] # c
           /\ c \in {loopRuns, irqRuns}
           /\ irqRuns = c => loopRuns # c
           /\ irqRuns # c => irqRuns = NoHandle /\ loopRuns = c
           /\ irqRuns # c => phase = "no"
           /\ phase \in {"tested", "loaded", "cleared"} => raced
<1>1. c \in {loopRuns, irqRuns} /\ state[c] \in Active
  BY DEF InterruptInv, RunnersRun, Runs, Active
<1>2. /\ irqRuns # c => irqRuns = NoHandle /\ loopRuns = c
      /\ irqRuns # c => phase = "no"
      /\ irqRuns = c => loopRuns # c
  BY DEF InterruptInv, RunnersRun, Runs
<1>3. \A d \in Coroutines : caller[d] # c
  BY <1>1 DEF InterruptInv, CallersStand
<1>4. /\ state[c] # "resume" => handle_ # c
      /\ state \in [Coroutines -> States]
  BY <1>1 DEF InterruptInv, HandleIsParked, FlagTypeOK, Active
<1>5. phase \in {"tested", "loaded", "cleared"} => raced
  BY <1>2 DEF InterruptInv, AssignmentHolds
<1> QED
  BY <1>1, <1>2, <1>3, <1>4, <1>5

\* It stays the innermost one while it goes on.
LEMMA StaysRunning ==
    ASSUME InterruptInv, NEW c \in Coroutines, Runs(c),
           NEW s \in Active, state' = [state EXCEPT ![c] = s],
           UNCHANGED runVars
    PROVE  RunnersRun' /\ CallersStand'
<1>1. /\ state \in [Coroutines -> States]
      /\ UNCHANGED <<loopRuns, irqRuns, caller>>
  BY DEF InterruptInv, FlagTypeOK, runVars
<1>2. RunnersRun'
  BY <1>1, Runner DEF InterruptInv, RunnersRun, Active
<1>3. CallersStand'
  BY <1>1, Runner DEF InterruptInv, FlagTypeOK, CallersStand
<1> QED
  BY <1>2, <1>3

\* When it stops, whoever entered it goes on.
LEMMA LeavesRunning ==
    ASSUME InterruptInv, NEW c \in Coroutines, Runs(c), Leave(c),
           NEW s \in {"parked", "done"}, state' = [state EXCEPT ![c] = s]
    PROVE  /\ RunnersRun' /\ CallersStand'
           /\ loopRuns' \in Coroutines \cup {NoHandle}
           /\ irqRuns' \in Coroutines \cup {NoHandle}
           /\ caller' \in [Coroutines -> Coroutines \cup {NoHandle}]
           /\ phase # "no" => loopRuns' = loopRuns /\ loopRuns # c
<1> DEFINE d == caller[c]
<1>1. /\ state \in [Coroutines -> States]
      /\ caller \in [Coroutines -> Coroutines \cup {NoHandle}]
      /\ loopRuns \in Coroutines \cup {NoHandle}
      /\ irqRuns \in Coroutines \cup {NoHandle}
      /\ d \in Coroutines \cup {NoHandle}
  BY DEF InterruptInv, FlagTypeOK
<1>2. caller' = [caller EXCEPT ![c] = NoHandle]
  BY DEF Leave
<1>3. /\ irqRuns = c => irqRuns' = d /\ loopRuns' = loopRuns
      /\ irqRuns # c => loopRuns' = d /\ irqRuns' = NoHandle
  BY Runner DEF Leave
<1>4. /\ d # NoHandle => state[d] = "body" /\ d \notin {loopRuns, irqRuns}
      /\ d # c
  BY <1>1, Runner DEF InterruptInv, CallersStand
<1>5. \A e \in Coroutines : e # c => state'[e] = state[e]
  BY <1>1
<1>6. state'[c] = s
  BY <1>1
<1>7. RunnersRun'
  <2>1. /\ \A e \in Coroutines : e \in {loopRuns', irqRuns'} =>
             e # c /\ (e = d \/ e \in {loopRuns, irqRuns})
        /\ irqRuns' = loopRuns' => irqRuns' = NoHandle
        /\ \A e \in {loopRuns, irqRuns} :
             e \in Coroutines /\ e # c => e \in {loopRuns', irqRuns'}
    BY <1>1, <1>3, <1>4, Runner DEF InterruptInv, RunnersRun
  <2> HIDE DEF d
  <2>2. \A e \in Coroutines : e \in {loopRuns', irqRuns'} =>
           state'[e] \in {"body", "tested", "checked", "resume"}
    BY <2>1, <1>4, <1>5 DEF InterruptInv, RunnersRun
  <2>3. \A e \in Coroutines : state'[e] \in {"tested", "checked", "resume"}
           => e \in {loopRuns', irqRuns'}
    BY <2>1, <1>5, <1>6 DEF InterruptInv, RunnersRun
  <2> QED
    BY <2>1, <2>2, <2>3 DEF RunnersRun
<1>8. CallersStand'
  <2>1. \A e \in Coroutines : caller'[e] # NoHandle =>
           /\ e # c /\ caller'[e] = caller[e] /\ caller[e] \in Coroutines
           /\ caller[e] # d /\ caller[e] # c
    BY <1>1, <1>2, Runner DEF InterruptInv, CallersStand
  <2>2. \A e \in Coroutines : caller'[e] # NoHandle =>
           /\ state'[caller'[e]] = "body"
           /\ caller'[e] \notin {loopRuns', irqRuns'}
    BY <2>1, <1>1, <1>3, <1>5 DEF InterruptInv, CallersStand
  <2>3. \A e, f \in Coroutines :
           caller'[e] = caller'[f] /\ caller'[e] # NoHandle => e = f
    BY <2>1 DEF InterruptInv, CallersStand
  <2> QED
    BY <2>2, <2>3 DEF CallersStand
<1> QED
  BY <1>1, <1>2, <1>3, <1>7, <1>8, Runner

\* Whoever is entered runs on top of the code that enters it.
LEMMA EntersRunning ==
    ASSUME InterruptInv, NEW c \in Coroutines,
           state[c] \in {"fresh", "parked"},
           NEW s \in {"body", "resume"}, state' = [state EXCEPT ![c] = s],
           \/ HandlerRuns /\ HandlerEnters(c)
           \/ irqRuns = NoHandle /\ OwnCode(loopRuns) /\ ProgramEnters(c)
    PROVE  /\ RunnersRun' /\ CallersStand'
           /\ loopRuns' \in Coroutines \cup {NoHandle}
           /\ irqRuns' \in Coroutines \cup {NoHandle}
           /\ caller' \in [Coroutines -> Coroutines \cup {NoHandle}]
           /\ c \notin {loopRuns, irqRuns}
<1>1. /\ state \in [Coroutines -> States]
      /\ caller \in [Coroutines -> Coroutines \cup {NoHandle}]
      /\ loopRuns \in Coroutines \cup {NoHandle}
      /\ irqRuns \in Coroutines \cup {NoHandle}
  BY DEF InterruptInv, FlagTypeOK
<1>2. c \notin {loopRuns, irqRuns}
  BY DEF InterruptInv, RunnersRun
<1>3. \A e \in Coroutines : caller[e] # c
  BY <1>1 DEF InterruptInv, CallersStand
<1>4. /\ state'[c] = s
      /\ \A e \in Coroutines : e # c => state'[e] = state[e]
  BY <1>1
<1>5. PICK b \in {loopRuns, irqRuns} :
          /\ b # NoHandle => state[b] = "body"
          /\ caller' = [caller EXCEPT ![c] = b]
          /\ {loopRuns, irqRuns} \subseteq {b, loopRuns', irqRuns'}
          /\ {loopRuns', irqRuns'} \subseteq {c, loopRuns, irqRuns, NoHandle}
          /\ c \in {loopRuns', irqRuns'} /\ irqRuns' # loopRuns'
          /\ b # NoHandle => b \notin {loopRuns', irqRuns'}
  <2>1. CASE HandlerRuns /\ HandlerEnters(c)
    BY <1>1, <1>2, <2>1 DEF HandlerRuns, HandlerEnters, OwnCode,
                            InterruptInv, RunnersRun
  <2>2. CASE irqRuns = NoHandle /\ OwnCode(loopRuns) /\ ProgramEnters(c)
    BY <1>1, <1>2, <2>2 DEF ProgramEnters, OwnCode, InterruptInv, RunnersRun
  <2> QED
    BY <2>1, <2>2
<1>6. RunnersRun'
  BY <1>1, <1>4, <1>5 DEF InterruptInv, RunnersRun
<1>7. CallersStand'
  <2>1. \A e \in Coroutines : e # c => caller'[e] = caller[e]
    BY <1>1, <1>5
  <2>2. caller'[c] = b /\ b # c
    BY <1>1, <1>2, <1>5
  <2>3. \A e \in Coroutines : caller[e] # NoHandle =>
           /\ caller[e] \in Coroutines /\ caller[e] # b /\ caller[e] # c
           /\ state[caller[e]] = "body"
           /\ caller[e] \notin {loopRuns', irqRuns'}
    BY <1>1, <1>3, <1>5 DEF InterruptInv, CallersStand
  <2>4. \A e \in Coroutines : caller'[e] # NoHandle =>
           /\ state'[caller'[e]] = "body"
           /\ caller'[e] \notin {loopRuns', irqRuns'}
    BY <2>1, <2>2, <2>3, <1>1, <1>4, <1>5
  <2>5. \A e, f \in Coroutines :
           caller'[e] = caller'[f] /\ caller'[e] # NoHandle => e = f
    BY <2>1, <2>2, <2>3 DEF InterruptInv, CallersStand
  <2> QED
    BY <2>4, <2>5 DEF CallersStand
<1>8. /\ loopRuns' \in Coroutines \cup {NoHandle}
      /\ irqRuns' \in Coroutines \cup {NoHandle}
      /\ caller' \in [Coroutines -> Coroutines \cup {NoHandle}]
  BY <1>1, <1>5
<1> QED
  BY <1>2, <1>6, <1>7, <1>8
-----------------------------------------------------------------------------
(***************************************************************************)
(* Then one lemma per step.                                                *)
(***************************************************************************)
LEMMA LaunchInv ==
    ASSUME InterruptInv, ~undefined, NEW c \in Coroutines, Launch(c)
    PROVE  InterruptInv'
<1>1. /\ state[c] = "fresh" /\ state \in [Coroutines -> States]
      /\ state' = [state EXCEPT ![c] = "body"]
      /\ UNCHANGED <<value_, handle_, phase, taken, missed, undefined>>
      /\ \/ ProgramRuns /\ ProgramEnters(c)
         \/ HandlerRuns /\ HandlerEnters(c)
  BY DEF Launch, Goto, loopVars, InterruptInv, FlagTypeOK
<1>2. /\ RunnersRun' /\ CallersStand'
      /\ loopRuns' \in Coroutines \cup {NoHandle}
      /\ irqRuns' \in Coroutines \cup {NoHandle}
      /\ caller' \in [Coroutines -> Coroutines \cup {NoHandle}]
      /\ c \notin {loopRuns, irqRuns}
  BY <1>1, EntersRunning DEF ProgramRuns
<1>3. FlagTypeOK'
  BY <1>1, <1>2 DEF InterruptInv, FlagTypeOK, States, ProgramEnters,
                    HandlerEnters
<1>4. /\ raced => raced'
      /\ phase \in {"tested", "loaded", "cleared"} => raced'
      /\ phase # "no" => loopRuns' = loopRuns
  <2>1. raced \in BOOLEAN
    BY DEF InterruptInv, FlagTypeOK
  <2>2. CASE ProgramRuns /\ ProgramEnters(c)
    BY <2>2 DEF ProgramRuns, ProgramEnters
  <2>3. CASE HandlerRuns /\ HandlerEnters(c)
    BY <2>1, <2>3 DEF HandlerEnters
  <2> QED
    BY <1>1, <2>2, <2>3
<1>5. AssignmentHolds'
  <2>1. phase' # "no" => OwnCode(loopRuns)'
    BY <1>1, <1>2, <1>4 DEF InterruptInv, AssignmentHolds, OwnCode, FlagTypeOK
  <2>2. /\ phase' = "tested" => raced'
        /\ phase' = "loaded" => raced'
        /\ phase' = "cleared" => raced'
    BY <1>1, <1>4
  <2>3. phase' \in {"tested", "loaded", "cleared"} => raced'
    BY <2>2
  <2> QED
    BY <2>1, <2>2, <2>3, Zenon DEF AssignmentHolds
<1>6. OneAwaits' /\ HandleIsParked' /\ RaisedIsMissed'
  BY <1>1, <1>4 DEF InterruptInv, OneAwaits, HandleIsParked, RaisedIsMissed,
                    Awaiting, Waiting
<1>7. NobodyForgotten' /\ SleepsUpOnlyIfMissed' /\ OnlySuspendedAreResumed'
  BY <1>1, <1>4 DEF InterruptInv, NobodyForgotten, SleepsUpOnlyIfMissed,
                    OnlySuspendedAreResumed
<1> QED
  BY <1>2, <1>3, <1>5, <1>6, <1>7 DEF InterruptInv

LEMMA AwaitReadyInv ==
    ASSUME InterruptInv, ~undefined, NEW c \in Coroutines, AwaitReady(c)
    PROVE  InterruptInv'
<1>0. PICK s \in {"resume", "tested"} :
          /\ s = IF value_ THEN "resume" ELSE "tested"
          /\ state' = [state EXCEPT ![c] = s]
  BY DEF AwaitReady, Goto
<1>1. /\ Runs(c) /\ state[c] = "body"
      /\ \A d \in Coroutines : ~Awaiting(d)
      /\ missed' = FALSE
      /\ UNCHANGED <<value_, handle_, phase, taken, raced, undefined>>
      /\ UNCHANGED runVars /\ UNCHANGED <<loopRuns, irqRuns, caller>>
  BY DEF AwaitReady, loopVars, runVars
<1>2. RunnersRun' /\ CallersStand'
  BY <1>0, <1>1, StaysRunning DEF Active
<1>3. FlagTypeOK'
  BY <1>0, <1>1 DEF InterruptInv, FlagTypeOK, States
<1>4. OneAwaits' /\ HandleIsParked' /\ NobodyForgotten' /\ RaisedIsMissed'
  BY <1>0, <1>1, Runner
     DEF InterruptInv, OneAwaits, HandleIsParked, NobodyForgotten,
         RaisedIsMissed, Waiting, Awaiting
<1>5. AssignmentHolds'
  BY <1>0, <1>1, Runner DEF InterruptInv, AssignmentHolds, OwnCode
<1>6. SleepsUpOnlyIfMissed' /\ OnlySuspendedAreResumed'
  BY <1>0, <1>1, Runner DEF InterruptInv, SleepsUpOnlyIfMissed, Awaiting,
                            OnlySuspendedAreResumed
<1> QED
  BY <1>2, <1>3, <1>4, <1>5, <1>6 DEF InterruptInv

LEMMA AwaitSuspendInv ==
    ASSUME InterruptInv, ~undefined, NEW c \in Coroutines, AwaitSuspend(c)
    PROVE  InterruptInv'
<1>0. PICK s \in {"resume", "checked"} : state' = [state EXCEPT ![c] = s]
  BY DEF AwaitSuspend, Goto
<1>1. /\ Runs(c) /\ state[c] = "tested"
      /\ UNCHANGED <<value_, handle_, phase, taken, missed, raced,
                     undefined>>
      /\ UNCHANGED runVars /\ UNCHANGED <<loopRuns, irqRuns, caller>>
  BY DEF AwaitSuspend, loopVars, history, runVars
<1>2. RunnersRun' /\ CallersStand'
  BY <1>0, <1>1, StaysRunning DEF Active
<1>3. FlagTypeOK'
  BY <1>0, <1>1 DEF InterruptInv, FlagTypeOK, States
<1>4. OneAwaits' /\ HandleIsParked' /\ NobodyForgotten' /\ RaisedIsMissed'
  BY <1>0, <1>1, Runner
     DEF InterruptInv, OneAwaits, HandleIsParked, NobodyForgotten,
         RaisedIsMissed, Waiting, Awaiting
<1>5. AssignmentHolds'
  BY <1>0, <1>1, Runner DEF InterruptInv, AssignmentHolds, OwnCode
<1>6. SleepsUpOnlyIfMissed' /\ OnlySuspendedAreResumed'
  BY <1>0, <1>1, Runner DEF InterruptInv, SleepsUpOnlyIfMissed,
                            OnlySuspendedAreResumed
<1> QED
  BY <1>2, <1>3, <1>4, <1>5, <1>6 DEF InterruptInv

LEMMA RecordInv ==
    ASSUME InterruptInv, ~undefined, NEW c \in Coroutines, Record(c)
    PROVE  InterruptInv'
<1>1. /\ Runs(c) /\ state[c] = "checked" /\ handle_' = c /\ Leave(c)
      /\ state' = [state EXCEPT ![c] = "parked"]
      /\ UNCHANGED <<value_, phase, taken, missed, raced, undefined>>
  BY DEF Record, Goto, loopVars, history
<1>2. \A d \in Coroutines : d # c => ~Awaiting(d)
  BY <1>1 DEF InterruptInv, OneAwaits, Awaiting
<1>3. /\ RunnersRun' /\ CallersStand'
      /\ loopRuns' \in Coroutines \cup {NoHandle}
      /\ irqRuns' \in Coroutines \cup {NoHandle}
      /\ caller' \in [Coroutines -> Coroutines \cup {NoHandle}]
      /\ phase # "no" => loopRuns' = loopRuns /\ loopRuns # c
  BY <1>1, LeavesRunning
<1>4. FlagTypeOK'
  <2>1. handle_' \in Coroutines \cup {NoHandle}
    BY <1>1
  <2>2. state' \in [Coroutines -> States]
    BY <1>1 DEF InterruptInv, FlagTypeOK, States
  <2> QED
    BY <1>1, <1>3, <2>1, <2>2 DEF InterruptInv, FlagTypeOK
<1>5. OneAwaits' /\ HandleIsParked' /\ NobodyForgotten' /\ RaisedIsMissed'
  BY <1>1, <1>2, Runner
     DEF InterruptInv, OneAwaits, HandleIsParked, NobodyForgotten,
         RaisedIsMissed, Waiting, Awaiting
<1>6. AssignmentHolds'
  BY <1>1, <1>3, Runner DEF InterruptInv, AssignmentHolds, OwnCode
<1>7. SleepsUpOnlyIfMissed' /\ OnlySuspendedAreResumed'
  BY <1>1, <1>2
     DEF InterruptInv, SleepsUpOnlyIfMissed, OnlySuspendedAreResumed,
         RaisedIsMissed, Waiting
<1> QED
  BY <1>3, <1>4, <1>5, <1>6, <1>7 DEF InterruptInv

LEMMA AwaitResumeInv ==
    ASSUME InterruptInv, ~undefined, NEW c \in Coroutines, AwaitResume(c)
    PROVE  InterruptInv'
<1>1. /\ Runs(c) /\ state[c] = "resume" /\ handle_' = NoHandle
      /\ state' = [state EXCEPT ![c] = "body"]
      /\ UNCHANGED <<value_, phase, taken, missed, raced, undefined>>
      /\ UNCHANGED runVars /\ UNCHANGED <<loopRuns, irqRuns, caller>>
  BY DEF AwaitResume, Goto, loopVars, history, runVars
<1>2. \A d \in Coroutines : d # c => ~Awaiting(d)
  BY <1>1 DEF InterruptInv, OneAwaits, Awaiting
<1>3. RunnersRun' /\ CallersStand'
  BY <1>1, StaysRunning DEF Active
<1>4. FlagTypeOK'
  BY <1>1 DEF InterruptInv, FlagTypeOK, States
<1>5. OneAwaits' /\ HandleIsParked' /\ NobodyForgotten' /\ RaisedIsMissed'
  BY <1>1, <1>2, Runner
     DEF InterruptInv, OneAwaits, HandleIsParked, NobodyForgotten,
         RaisedIsMissed, Waiting, Awaiting
<1>6. AssignmentHolds'
  BY <1>1, Runner DEF InterruptInv, AssignmentHolds, OwnCode
<1>7. SleepsUpOnlyIfMissed' /\ OnlySuspendedAreResumed'
  BY <1>1, Runner
     DEF InterruptInv, SleepsUpOnlyIfMissed, OnlySuspendedAreResumed
<1> QED
  BY <1>3, <1>4, <1>5, <1>6, <1>7 DEF InterruptInv

LEMMA ReturnInv ==
    ASSUME InterruptInv, ~undefined, NEW c \in Coroutines, Return(c)
    PROVE  InterruptInv'
<1>1. /\ Runs(c) /\ state[c] = "body" /\ Leave(c)
      /\ state' = [state EXCEPT ![c] = "done"]
      /\ UNCHANGED <<value_, handle_, phase, taken, missed, raced,
                     undefined>>
  BY DEF Return, Goto, loopVars, history
<1>2. /\ RunnersRun' /\ CallersStand'
      /\ loopRuns' \in Coroutines \cup {NoHandle}
      /\ irqRuns' \in Coroutines \cup {NoHandle}
      /\ caller' \in [Coroutines -> Coroutines \cup {NoHandle}]
      /\ phase # "no" => loopRuns' = loopRuns /\ loopRuns # c
  BY <1>1, LeavesRunning
<1>3. FlagTypeOK'
  BY <1>1, <1>2 DEF InterruptInv, FlagTypeOK, States
<1>4. OneAwaits' /\ HandleIsParked' /\ NobodyForgotten' /\ RaisedIsMissed'
  BY <1>1, Runner
     DEF InterruptInv, OneAwaits, HandleIsParked, NobodyForgotten,
         RaisedIsMissed, Waiting, Awaiting
<1>5. AssignmentHolds'
  BY <1>1, <1>2, Runner DEF InterruptInv, AssignmentHolds, OwnCode
<1>6. SleepsUpOnlyIfMissed' /\ OnlySuspendedAreResumed'
  BY <1>1, Runner
     DEF InterruptInv, SleepsUpOnlyIfMissed, OnlySuspendedAreResumed
<1> QED
  BY <1>2, <1>3, <1>4, <1>5, <1>6 DEF InterruptInv

LEMMA LowerInv ==
    ASSUME InterruptInv, Lower
    PROVE  InterruptInv'
<1>1. /\ value_' = FALSE
      /\ UNCHANGED <<handle_, state, loopRuns, irqRuns, caller, phase, taken,
                     missed, raced, undefined>>
  BY DEF Lower, runVars, loopVars, history
<1> QED
  BY <1>1
     DEF InterruptInv, FlagTypeOK, OneAwaits, HandleIsParked,
         NobodyForgotten, RunnersRun, CallersStand, RaisedIsMissed,
         AssignmentHolds, SleepsUpOnlyIfMissed, OnlySuspendedAreResumed,
         Awaiting, Waiting, OwnCode

LEMMA RaiseInv ==
    ASSUME InterruptInv, ~undefined, Raise
    PROVE  InterruptInv'
<1>1. /\ HandlerRuns /\ value_' = TRUE
      /\ missed' = (missed \/ \E c \in Coroutines : Waiting(c))
      /\ UNCHANGED <<phase, taken>>
  BY DEF Raise, loopVars
<1>2. CASE handle_ = NoHandle
  <2>1. UNCHANGED <<handle_, state, loopRuns, irqRuns, caller, raced,
                    undefined>>
    BY <1>2 DEF Raise, runVars
  <2>2. phase = "no" => \A c \in Coroutines : state[c] # "parked"
    BY <1>2 DEF InterruptInv, NobodyForgotten
  <2>3. FlagTypeOK' /\ OneAwaits' /\ HandleIsParked' /\ NobodyForgotten'
    BY <1>1, <2>1 DEF InterruptInv, FlagTypeOK, OneAwaits, HandleIsParked,
                      NobodyForgotten, Awaiting
  <2>4. RunnersRun' /\ CallersStand' /\ RaisedIsMissed' /\ AssignmentHolds'
    BY <1>1, <2>1 DEF InterruptInv, RunnersRun, CallersStand, OwnCode,
                      RaisedIsMissed, Waiting, AssignmentHolds
  <2>5. SleepsUpOnlyIfMissed' /\ OnlySuspendedAreResumed'
    BY <1>1, <2>1, <2>2
       DEF InterruptInv, SleepsUpOnlyIfMissed, OnlySuspendedAreResumed
  <2> QED
    BY <2>3, <2>4, <2>5 DEF InterruptInv
<1>3. CASE handle_ # NoHandle /\ state[handle_] = "parked"
  <2>0. PICK c \in Coroutines : handle_ = c
    BY <1>3 DEF InterruptInv, FlagTypeOK
  <2>1. /\ state[c] = "parked" /\ handle_' = NoHandle /\ HandlerEnters(c)
        /\ state \in [Coroutines -> States]
        /\ state' = [state EXCEPT ![c] = "resume"]
        /\ undefined' = undefined
    BY <1>3, <2>0 DEF Raise, Goto, InterruptInv, FlagTypeOK
  <2>2. \A d \in Coroutines : d # c => ~Awaiting(d)
    BY <2>1 DEF InterruptInv, OneAwaits, Awaiting
  <2>3. /\ RunnersRun' /\ CallersStand'
        /\ loopRuns' \in Coroutines \cup {NoHandle}
        /\ irqRuns' \in Coroutines \cup {NoHandle}
        /\ caller' \in [Coroutines -> Coroutines \cup {NoHandle}]
        /\ c \notin {loopRuns, irqRuns}
    BY <1>1, <2>1, EntersRunning
  <2>4. /\ loopRuns' = loopRuns /\ raced \in BOOLEAN
        /\ raced' = (raced \/ phase \in {"tested", "loaded", "cleared"})
    BY <2>1 DEF HandlerEnters, InterruptInv, FlagTypeOK
  <2>5. FlagTypeOK'
    BY <1>1, <2>1, <2>3, <2>4 DEF InterruptInv, FlagTypeOK, States
  <2>6. OneAwaits' /\ HandleIsParked' /\ NobodyForgotten' /\ RaisedIsMissed'
    BY <1>1, <2>1, <2>2
       DEF InterruptInv, OneAwaits, HandleIsParked, NobodyForgotten,
           RaisedIsMissed, Waiting, Awaiting
  <2>7. AssignmentHolds'
    BY <1>1, <2>1, <2>3, <2>4
       DEF InterruptInv, AssignmentHolds, OwnCode
  <2>8. SleepsUpOnlyIfMissed' /\ OnlySuspendedAreResumed'
    BY <1>1, <2>1, <2>2, <2>4
       DEF InterruptInv, SleepsUpOnlyIfMissed, OnlySuspendedAreResumed,
           Awaiting
  <2> QED
    BY <2>3, <2>5, <2>6, <2>7, <2>8 DEF InterruptInv
<1>4. CASE handle_ # NoHandle /\ state[handle_] # "parked"
  <2>1. /\ undefined' = TRUE
        /\ UNCHANGED <<handle_, state, loopRuns, irqRuns, caller, raced>>
    BY <1>4 DEF Raise, runVars
  <2>2. /\ handle_ \in Coroutines
        /\ raced /\ state[handle_] = "resume"
    BY <1>4 DEF InterruptInv, FlagTypeOK, HandleIsParked
  <2>3. \A c \in Coroutines : state[c] # "parked"
    BY <2>2 DEF InterruptInv, OneAwaits, Awaiting
  <2>4. FlagTypeOK' /\ OneAwaits' /\ HandleIsParked' /\ NobodyForgotten'
    BY <1>1, <2>1 DEF InterruptInv, FlagTypeOK, OneAwaits, HandleIsParked,
                      NobodyForgotten, Awaiting
  <2>5. RunnersRun' /\ CallersStand' /\ RaisedIsMissed' /\ AssignmentHolds'
    BY <1>1, <2>1 DEF InterruptInv, RunnersRun, CallersStand, OwnCode,
                      RaisedIsMissed, Waiting, AssignmentHolds
  <2>6. SleepsUpOnlyIfMissed' /\ OnlySuspendedAreResumed'
    BY <2>1, <2>2, <2>3
       DEF SleepsUpOnlyIfMissed, OnlySuspendedAreResumed
  <2> QED
    BY <2>4, <2>5, <2>6 DEF InterruptInv
<1> QED
  BY <1>2, <1>3, <1>4

LEMMA StoreLineInv ==
    ASSUME InterruptInv, ~undefined, Store
    PROVE  InterruptInv'
<1>1. /\ irqRuns = NoHandle /\ phase = "no" /\ OwnCode(loopRuns)
      /\ value_' = TRUE /\ phase' = "stored" /\ raced' = FALSE
      /\ UNCHANGED <<handle_, state, loopRuns, irqRuns, caller, taken, missed,
                     undefined>>
  BY DEF Store, ProgramRuns, runVars
<1>2. \A c \in Coroutines : ~Waiting(c)
  BY <1>1 DEF InterruptInv, RunnersRun, OwnCode, Waiting
<1>0. \A c \in Coroutines : state[c] # "resume"
  BY <1>1 DEF InterruptInv, RunnersRun, OwnCode
<1>3. FlagTypeOK' /\ OneAwaits' /\ HandleIsParked' /\ NobodyForgotten'
  BY <1>0, <1>1 DEF InterruptInv, FlagTypeOK, OneAwaits, HandleIsParked,
                    NobodyForgotten, Awaiting, Phases
<1>4. RunnersRun' /\ CallersStand' /\ RaisedIsMissed' /\ AssignmentHolds'
  BY <1>1, <1>2 DEF InterruptInv, RunnersRun, CallersStand, RaisedIsMissed,
                    AssignmentHolds, OwnCode, Waiting
<1>5. SleepsUpOnlyIfMissed' /\ OnlySuspendedAreResumed'
  BY <1>1 DEF SleepsUpOnlyIfMissed, OnlySuspendedAreResumed
<1> QED
  BY <1>3, <1>4, <1>5 DEF InterruptInv

\* An assignment ends at its test only when it or the handler has left nobody
\* recorded, or when the flag is down again.
LEMMA TestInv ==
    ASSUME InterruptInv, ~undefined, Test
    PROVE  InterruptInv'
<1>1. /\ irqRuns = NoHandle /\ phase = "stored"
      /\ UNCHANGED <<value_, handle_, state, loopRuns, irqRuns, caller,
                     missed, raced, undefined>>
  BY DEF Test, runVars, history
<1>2. \/ ~value_ /\ phase' = "no" /\ taken' = taken
      \/ handle_ = NoHandle /\ phase' = "no" /\ taken' = taken
      \/ handle_ # NoHandle /\ phase' = "tested" /\ taken' = taken
      \/ handle_ # NoHandle /\ phase' = "loaded" /\ taken' = handle_
  BY DEF Test
<1>3. FlagTypeOK' /\ OneAwaits' /\ HandleIsParked' /\ NobodyForgotten'
  BY <1>1, <1>2 DEF InterruptInv, FlagTypeOK, OneAwaits, HandleIsParked,
                    NobodyForgotten, Awaiting, Phases
<1>4. RunnersRun' /\ CallersStand' /\ RaisedIsMissed'
  BY <1>1 DEF InterruptInv, RunnersRun, CallersStand, RaisedIsMissed, Waiting
<1>5. AssignmentHolds'
  BY <1>1, <1>2 DEF InterruptInv, AssignmentHolds, OwnCode
<1>6. handle_ = NoHandle => \A c \in Coroutines : state[c] # "parked"
  BY <1>1 DEF InterruptInv, NobodyForgotten
<1>7. SleepsUpOnlyIfMissed' /\ OnlySuspendedAreResumed'
  BY <1>1, <1>2, <1>6 DEF InterruptInv, SleepsUpOnlyIfMissed,
                          OnlySuspendedAreResumed
<1> QED
  BY <1>3, <1>4, <1>5, <1>7 DEF InterruptInv

LEMMA LoadInv ==
    ASSUME InterruptInv, ~undefined, Load
    PROVE  InterruptInv'
<1>1. /\ irqRuns = NoHandle /\ phase = "tested"
      /\ phase' = "loaded" /\ taken' = handle_
      /\ UNCHANGED <<value_, handle_, state, loopRuns, irqRuns, caller,
                     missed, raced, undefined>>
  BY DEF Load, runVars, history
<1>2. FlagTypeOK' /\ OneAwaits' /\ HandleIsParked' /\ NobodyForgotten'
  BY <1>1 DEF InterruptInv, FlagTypeOK, OneAwaits, HandleIsParked,
              NobodyForgotten, Awaiting, Phases
<1>3. RunnersRun' /\ CallersStand' /\ RaisedIsMissed' /\ AssignmentHolds'
  BY <1>1 DEF InterruptInv, RunnersRun, CallersStand, RaisedIsMissed,
              Waiting, AssignmentHolds, OwnCode
<1>4. SleepsUpOnlyIfMissed' /\ OnlySuspendedAreResumed'
  BY <1>1 DEF InterruptInv, SleepsUpOnlyIfMissed, OnlySuspendedAreResumed
<1> QED
  BY <1>2, <1>3, <1>4 DEF InterruptInv

\* Line 21 forgets the waiter that the assignment holds, or, after an
\* interrupt, any other.
LEMMA ClearInv ==
    ASSUME InterruptInv, ~undefined, Clear
    PROVE  InterruptInv'
<1>1. /\ irqRuns = NoHandle /\ phase = "loaded"
      /\ phase' = "cleared" /\ handle_' = NoHandle
      /\ UNCHANGED <<value_, state, loopRuns, irqRuns, caller, taken, missed,
                     raced, undefined>>
  BY DEF Clear, runVars, history
<1>2. ~raced => handle_ = taken /\ taken \in Coroutines
  BY <1>1 DEF InterruptInv, AssignmentHolds, FlagTypeOK
<1>3. FlagTypeOK' /\ OneAwaits' /\ HandleIsParked'
  BY <1>1 DEF InterruptInv, FlagTypeOK, OneAwaits, HandleIsParked,
              Awaiting, Phases
<1>4. NobodyForgotten'
  BY <1>1, <1>2 DEF InterruptInv, NobodyForgotten
<1>5. RunnersRun' /\ CallersStand' /\ RaisedIsMissed'
  BY <1>1 DEF InterruptInv, RunnersRun, CallersStand, RaisedIsMissed, Waiting
<1>6. AssignmentHolds'
  BY <1>1, <1>2 DEF InterruptInv, AssignmentHolds, OwnCode, HandleIsParked
<1>7. SleepsUpOnlyIfMissed' /\ OnlySuspendedAreResumed'
  BY <1>1 DEF InterruptInv, SleepsUpOnlyIfMissed, OnlySuspendedAreResumed
<1> QED
  BY <1>3, <1>4, <1>5, <1>6, <1>7 DEF InterruptInv

\* The one step that may resume what is not a suspended coroutine.
LEMMA ResumeInv ==
    ASSUME InterruptInv, ~undefined, Resume
    PROVE  InterruptInv'
<1>1. /\ irqRuns = NoHandle /\ phase = "cleared" /\ OwnCode(loopRuns)
      /\ UNCHANGED <<value_, handle_, missed>>
  BY DEF Resume, InterruptInv, AssignmentHolds
<1>2. CASE taken # NoHandle /\ state[taken] = "parked"
  <2>0. PICK c \in Coroutines : taken = c
    BY <1>2 DEF InterruptInv, FlagTypeOK
  <2>1. /\ state' = [state EXCEPT ![c] = "resume"] /\ ProgramEnters(c)
        /\ state \in [Coroutines -> States] /\ state[c] = "parked"
        /\ phase' = "no" /\ taken' = NoHandle /\ undefined' = undefined
        /\ irqRuns' = irqRuns /\ raced' = raced
    BY <1>2, <2>0 DEF Resume, Goto, ProgramEnters, InterruptInv, FlagTypeOK
  <2>2. \A d \in Coroutines : d # c => ~Awaiting(d)
    BY <2>1 DEF InterruptInv, OneAwaits, Awaiting
  <2>3. /\ RunnersRun' /\ CallersStand'
        /\ loopRuns' \in Coroutines \cup {NoHandle}
        /\ caller' \in [Coroutines -> Coroutines \cup {NoHandle}]
    BY <1>1, <2>1, EntersRunning
  <2>4. FlagTypeOK'
    BY <1>1, <2>1, <2>3 DEF InterruptInv, FlagTypeOK, States, Phases
  <2>5. OneAwaits' /\ NobodyForgotten' /\ RaisedIsMissed'
    BY <1>1, <2>1, <2>2
       DEF InterruptInv, OneAwaits, NobodyForgotten, RaisedIsMissed, Waiting,
           Awaiting
  <2>6. HandleIsParked'
    <3>1. handle_ = c => raced
      BY <1>1, <2>0 DEF InterruptInv, AssignmentHolds
    <3> QED
      BY <1>1, <2>1, <3>1 DEF InterruptInv, HandleIsParked
  <2>7. AssignmentHolds'
    BY <2>1 DEF AssignmentHolds
  <2>8. SleepsUpOnlyIfMissed' /\ OnlySuspendedAreResumed'
    BY <1>1, <2>1, <2>2
       DEF InterruptInv, SleepsUpOnlyIfMissed, OnlySuspendedAreResumed,
           Awaiting
  <2> QED
    BY <2>3, <2>4, <2>5, <2>6, <2>7, <2>8 DEF InterruptInv
<1>3. CASE ~(taken # NoHandle /\ state[taken] = "parked")
  <2>1. /\ undefined' = TRUE
        /\ UNCHANGED <<state, loopRuns, irqRuns, caller, phase, taken, raced>>
    BY <1>3 DEF Resume, runVars, loopVars
  <2>2. raced
    BY <1>1, <1>3 DEF InterruptInv, AssignmentHolds
  <2>3. FlagTypeOK' /\ OneAwaits' /\ HandleIsParked' /\ NobodyForgotten'
    BY <1>1, <2>1 DEF InterruptInv, FlagTypeOK, OneAwaits, HandleIsParked,
                      NobodyForgotten, Awaiting
  <2>4. RunnersRun' /\ CallersStand' /\ RaisedIsMissed' /\ AssignmentHolds'
    BY <1>1, <2>1 DEF InterruptInv, RunnersRun, CallersStand, RaisedIsMissed,
                      Waiting, AssignmentHolds, OwnCode
  <2>5. SleepsUpOnlyIfMissed' /\ OnlySuspendedAreResumed'
    BY <1>1, <2>1, <2>2 DEF InterruptInv, SleepsUpOnlyIfMissed,
                            OnlySuspendedAreResumed
  <2> QED
    BY <2>3, <2>4, <2>5 DEF InterruptInv
<1> QED
  BY <1>2, <1>3
-----------------------------------------------------------------------------
(***************************************************************************)
(* The invariant of the flag and its waiters, with an interrupt that falls *)
(* between any two steps of the program, and any coroutines it runs.       *)
(***************************************************************************)
THEOREM InterruptInvariant == Spec => []InterruptInv
<1>1. Init => InterruptInv
  BY InterruptInit
<1>2. InterruptInv /\ [Next]_flagVars => InterruptInv'
  <2> SUFFICES ASSUME InterruptInv, [Next]_flagVars PROVE InterruptInv'
    OBVIOUS
  <2>1. CASE Next
    <3>1. ~undefined
      BY <2>1 DEF Next
    <3>2. CASE \E c \in Coroutines :
                 \/ Launch(c) \/ AwaitReady(c) \/ AwaitSuspend(c)
                 \/ Record(c) \/ AwaitResume(c) \/ Return(c)
      BY <3>1, <3>2, LaunchInv, AwaitReadyInv, AwaitSuspendInv, RecordInv,
         AwaitResumeInv, ReturnInv
    <3>3. CASE Lower \/ Raise
      BY <3>1, <3>3, LowerInv, RaiseInv
    <3>4. CASE RaiseInProgram
      BY <3>1, <3>4, StoreLineInv, TestInv, LoadInv, ClearInv, ResumeInv
         DEF RaiseInProgram
    <3> QED
      BY <2>1, <3>2, <3>3, <3>4 DEF Next
  <2>2. CASE UNCHANGED flagVars
    <3>1. UNCHANGED <<value_, handle_, state, loopRuns, irqRuns, caller,
                      phase, taken, missed, raced, undefined>>
      BY <2>2 DEF flagVars, runVars, loopVars, history
    <3> QED
      BY <3>1
         DEF InterruptInv, FlagTypeOK, OneAwaits, HandleIsParked,
             NobodyForgotten, RunnersRun, CallersStand, RaisedIsMissed,
             AssignmentHolds, SleepsUpOnlyIfMissed, OnlySuspendedAreResumed,
             Awaiting, Waiting, OwnCode
  <2> QED
    BY <2>1, <2>2
<1> QED
  BY <1>1, <1>2, PTL DEF Spec

(***************************************************************************)
(* A handle used up, wiped or null is resumed (async_flag.hpp:22) only by  *)
(* an assignment in the program that the interrupt has fallen into between *)
(* its test of the handle (line 19) and the resumption.                    *)
(***************************************************************************)
THEOREM InterruptResumesSuspended == Spec => []OnlySuspendedAreResumed
<1>1. InterruptInv => OnlySuspendedAreResumed
  BY DEF InterruptInv
<1> QED
  BY <1>1, InterruptInvariant, PTL

(***************************************************************************)
(* Whoever is suspended is recorded in the flag or about to be resumed,    *)
(* wherever the interrupt falls and whatever it starts or resumes, but     *)
(* when it has fallen into that part of an assignment, whose line 21 may   *)
(* then wipe the handle of a waiter it has not loaded.                     *)
(***************************************************************************)
THEOREM InterruptForgetsNobody == Spec => []NobodyForgotten
<1>1. InterruptInv => NobodyForgotten
  BY DEF InterruptInv
<1> QED
  BY <1>1, InterruptInvariant, PTL

\* A coroutine sleeps with its flag up only if the flag was raised between
\* await_ready and the recording of the handle.
THEOREM MissedOnlyInsideAwait == Spec => []SleepsUpOnlyIfMissed
<1>1. InterruptInv => SleepsUpOnlyIfMissed
  BY DEF InterruptInv
<1> QED
  BY <1>1, InterruptInvariant, PTL
=============================================================================
