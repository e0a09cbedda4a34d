------------------------------ MODULE MCKernelEntry ------------------------------
(***************************************************************************)
(* The three interrupts the drivers enable and three processes: handlers   *)
(* nest up to four deep.                                                   *)
(***************************************************************************)
EXTENDS KernelEntry

CONSTANTS clock, keyboard, at_wini, p1, p2, p3

Irqs   == {clock, keyboard, at_wini}
Rows   == {p1, p2, p3}
================================================================================
