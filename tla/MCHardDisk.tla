------------------------------- MODULE MCHardDisk -------------------------------
(***************************************************************************)
(* Drives of 13 sectors with two layouts: a partition and the root device  *)
(* in an extended one; and two extended partitions, of which the first has *)
(* a chain of tables that goes back to before where it began.              *)
(***************************************************************************)
EXTENDS HardDisk, TLC

entry(id, start, size) == [sys_id |-> id, start_sect |-> start, nr_sects |-> size]
unused == entry("none", 0, 0)

OneLogical ==
  0 :> <<entry("data", 1, 1), unused, entry("extended", 2, 9), unused>>
  @@ 2 :> <<entry("data", 2, 3), unused, unused, unused>>

TwoChains ==
  0 :> <<entry("extended", 1, 5), entry("data", 12, 1), entry("extended", 6, 6), unused>>
  @@ 1 :> <<entry("data", 2, 1), entry("extended", 4, 1), unused, unused>>
  @@ 5 :> <<unused, entry("extended", 1, 1), unused, unused>>
  @@ 2 :> <<entry("data", 2, 1), entry("extended", 3, 1), unused, unused>>
  @@ 6 :> <<entry("data", 1, 3), entry("extended", 4, 1), unused, unused>>
  @@ 10 :> <<entry("data", 1, 1), unused, unused, unused>>

TwoLayouts == {OneLogical, TwoChains}
AllKinds   == [prompt : BOOLEAN, latching : BOOLEAN]
TwoValues  == 0 .. 1
================================================================================
