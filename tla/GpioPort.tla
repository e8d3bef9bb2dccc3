------------------------------ MODULE GpioPort ------------------------------
(***************************************************************************)
(* The output pins of GPIO ports, driven by driver::gpio objects from      *)
(* contexts that preempt one another.                                      *)
(* gpio/include/platform/stm32/gpio.hpp                                    *)
(*                                                                         *)
(* set and reset are one store to BSRR, which the port applies to the      *)
(* named pins atomically.  toggle is a load of ODR and a store of all its  *)
(* pins, and a context of higher priority may run between the two.         *)
(* is_set only reads (IDR, the level at the pins) and has no action.       *)
(***************************************************************************)
EXTENDS Naturals

CONSTANTS Contexts, \* priorities: 0 is the program, above it interrupts
          Ports,
          Pins,     \* the pins of a port
          Uses,     \* <<c, q>>: context c calls set or reset on port q
          Toggles   \* <<c, q>>: context c calls toggle on port q

ASSUME ContextsAssumption == Contexts \subseteq Nat
ASSUME UsesAssumption ==
    Uses \subseteq Contexts \X Ports /\ Toggles \subseteq Contexts \X Ports

VARIABLES
    ODR,       \* per port: the pins that are high
    toggling,  \* per context: <<>>, or the port, the pin and the loaded ODR of
               \* a toggle between its load and its store
    commanded, \* history: per port, the pins high by the calls that returned
    exposed    \* history: the pins <<q, p>> driven while another context was
               \* inside a toggle on port q, and not set or reset since

vars == <<ODR, toggling, commanded, exposed>>

\* Out of reset the pins are low.
GpioInit ==
    /\ ODR = [q \in Ports |-> {}]
    /\ toggling = [c \in Contexts |-> <<>>]
    /\ commanded = [q \in Ports |-> {}]
    /\ exposed = {}

\* A context runs while none above it is in the middle of a call.
MayRun(c) == \A d \in Contexts : d > c => toggling[d] = <<>>

Idle(c) == MayRun(c) /\ toggling[c] = <<>>

\* Has context c preempted a toggle on port q?
Inside(c, q) ==
    \E d \in Contexts \ {c} : toggling[d] # <<>> /\ toggling[d][1] = q

Expose(c, q, p) ==
    exposed' = IF Inside(c, q) THEN exposed \cup {<<q, p>>}
                               ELSE exposed \ {<<q, p>>}

Flip(pins, p) == IF p \in pins THEN pins \ {p} ELSE pins \cup {p}

\* BSRR = pin.
set(c, q, p) ==
    /\ Idle(c) /\ <<c, q>> \in Uses
    /\ ODR' = [ODR EXCEPT ![q] = @ \cup {p}]
    /\ commanded' = [commanded EXCEPT ![q] = @ \cup {p}]
    /\ Expose(c, q, p)
    /\ UNCHANGED toggling

\* BSRR = pin << 16.
reset_NoShift(c, q, p) ==
    /\ Idle(c) /\ <<c, q>> \in Uses
    /\ ODR' = [ODR EXCEPT ![q] = @ \cup {p}]
    /\ commanded' = [commanded EXCEPT ![q] = @ \ {p}]
    /\ Expose(c, q, p)
    /\ UNCHANGED toggling
reset(c, q, p) ==
    /\ Idle(c) /\ <<c, q>> \in Uses
    /\ ODR' = [ODR EXCEPT ![q] = @ \ {p}]
    /\ commanded' = [commanded EXCEPT ![q] = @ \ {p}]
    /\ Expose(c, q, p)
    /\ UNCHANGED toggling

\* ODR ^= pin: the load, then the store.
toggle_load(c, q, p) ==
    /\ Idle(c) /\ <<c, q>> \in Toggles
    /\ toggling' = [toggling EXCEPT ![c] = <<q, p, ODR[q]>>]
    /\ UNCHANGED <<ODR, commanded, exposed>>

toggle_store(c, q, p) ==
    /\ MayRun(c) /\ toggling[c] # <<>>
    /\ toggling[c][1] = q /\ toggling[c][2] = p
    /\ ODR' = [ODR EXCEPT ![q] = Flip(toggling[c][3], p)]
    /\ commanded' = [commanded EXCEPT ![q] = Flip(@, p)]
    /\ toggling' = [toggling EXCEPT ![c] = <<>>]
    /\ exposed' = IF Inside(c, q) THEN exposed \cup {<<q, p>>} ELSE exposed

GpioNext ==
    \E c \in Contexts, q \in Ports, p \in Pins :
        \/ set(c, q, p)
        \/ reset(c, q, p)
        \/ toggle_load(c, q, p)
        \/ toggle_store(c, q, p)

GpioSpec == GpioInit /\ [][GpioNext]_vars
-----------------------------------------------------------------------------
(***************************************************************************)
(* Properties.                                                             *)
(***************************************************************************)
GpioTypeOK ==
    /\ ODR \in [Ports -> SUBSET Pins]
    /\ toggling \in [Contexts -> {<<>>} \cup (Ports \X Pins \X SUBSET Pins)]
    /\ commanded \in [Ports -> SUBSET Pins]
    /\ exposed \subseteq Ports \X Pins

(***************************************************************************)
(* Every pin is where the calls that returned have put it, whatever else   *)
(* was done on its port.  A call is undone only if it drove the pin inside *)
(* a toggle of the same port that its context had preempted, and that pin  *)
(* alone is wrong, until it is next set or reset.  (The tests check the    *)
(* fake, call by call: gpio_test.cpp:28-54.)                               *)
(***************************************************************************)
PinsAsCommanded ==
    \A q \in Ports, p \in Pins :
        <<q, p>> \notin exposed => (p \in ODR[q] <=> p \in commanded[q])

\* The inductive invariant: a toggle in progress holds the port's own value,
\* but for the pins driven inside it.
LoadedIsCurrent ==
    \A c \in Contexts : \A p \in Pins :
        toggling[c] # <<>> =>
            LET q == toggling[c][1] IN
              <<q, p>> \notin exposed => (p \in toggling[c][3] <=> p \in ODR[q])

GpioInv == GpioTypeOK /\ PinsAsCommanded /\ LoadedIsCurrent
=============================================================================
