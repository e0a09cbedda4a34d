------------------------------- MODULE MCTerminal -------------------------------
(***************************************************************************)
(* Two consoles of seven cells, a screen of two lines of two: like the     *)
(* real ones (5461 cells, 25 lines of 80) a console is longer than the     *)
(* screen and no whole number of lines.  Processes write to console 0.     *)
(***************************************************************************)
EXTENDS Terminal

FirstConsole == {0}
================================================================================
