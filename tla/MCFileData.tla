------------------------------- MODULE MCFileData -------------------------------
(***************************************************************************)
(* Two files of three sectors of two bytes, of which fsbuf holds two: the  *)
(* longest call takes two turns (three or four of kread()), and a second   *)
(* one runs into the end of the file or beyond its sectors.                *)
(***************************************************************************)
EXTENDS FileData

ThreeLens == {1, 2, 5}
TwoFds    == 1 .. 2
================================================================================
