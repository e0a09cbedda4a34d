----------------------------- MODULE MCFileSectors -----------------------------
(***************************************************************************)
(* One process and four names on a disk with room for three files.  Between*)
(* the directory and "echo" two files fit, and half a file more; behind    *)
(* "echo" half a file.                                                     *)
(***************************************************************************)
EXTENDS FileSectors, TLC

CONSTANTS a, b, c

FourNames  == {"echo", a, b, c}
OneProcess == {1}
NewNames   == Permutations({a, b, c})
================================================================================
