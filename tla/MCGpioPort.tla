----------------------------- MODULE MCGpioPort -----------------------------
(***************************************************************************)
(* GpioPort with two ports of two pins, a program and one interrupt.       *)
(* Both set, reset and toggle pins of port B, so that the interrupt falls  *)
(* into toggles of the program; port A is the program's own.               *)
(***************************************************************************)
EXTENDS GpioPort

CONSTANTS A, B, p1, p2

MCContexts == {0, 1}
MCPorts    == {A, B}
MCPins     == {p1, p2}
MCUses     == {<<0, A>>, <<0, B>>, <<1, B>>}
MCToggles  == {<<0, A>>, <<0, B>>, <<1, B>>}
=============================================================================
