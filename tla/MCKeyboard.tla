------------------------------- MODULE MCKeyboard -------------------------------
(***************************************************************************)
(* Keys of every kind: one letter, both shift keys, a control key behind   *)
(* E0, caps lock, and the two long sequences.  The ring is shorter than the longest   *)
(* sequence, so it wraps around and fills up in the middle of a key.       *)
(***************************************************************************)
EXTENDS Keyboard

SomeKeys == {"a", "SHIFT_L", "SHIFT_R", "CTRL_R", "CAPS_LOCK", "PRINTSCREEN", "PAUSEBREAK"}
AltKeys  == {"ALT_L", "ALT_R"}
================================================================================
