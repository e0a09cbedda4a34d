------------------------------ MODULE MCFileTable ------------------------------
(***************************************************************************)
(* A native process and one to be forked with two descriptors each, three  *)
(* slots of inode_table, one of which holds the root, and two files; or    *)
(* one process with more names than the disk has i-nodes for files.        *)
(***************************************************************************)
EXTENDS FileTable

TwoFiles   == {"echo", "a"}
ThreeFiles == {"echo", "a", "b"}
FourFiles  == ThreeFiles \cup {"c"}
OneProcess == {1}
Processes  == 1 .. 2
================================================================================
