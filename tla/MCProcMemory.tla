------------------------------ MODULE MCProcMemory ------------------------------
(***************************************************************************)
(* The process table and its memory with one task, INIT, and two slots to  *)
(* fork into: enough for zombies beside a waiting parent, grandchildren,   *)
(* and a slot that is used again while it is still somebody's parent.  The *)
(* kernel ends at most at 1 MB, as in the real memory map.                 *)
(***************************************************************************)
EXTENDS ProcMemory

OneStatus   == {7}
TwoStatuses == {7, 8}
================================================================================
