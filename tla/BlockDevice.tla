------------------------------ MODULE BlockDevice ------------------------------
(***************************************************************************)
(* What hd_rdwt_block() promises its callers: a call moves the sectors it  *)
(* is asked for, each once and in order, and returns when the last one has *)
(* been moved.  Nothing else is read or written.                           *)
(***************************************************************************)
EXTENDS Integers, Sequences

CONSTANTS
  Calls,     (* what is asked for: [rw, sect, count, data]                   *)
  NoCall

VARIABLES
  media,     (* the content of every sector                                  *)
  call,      (* the call in progress, or NoCall                              *)
  moved,     (* how many of its sectors have been moved                      *)
  result     (* those that have been read                                    *)

vars == <<media, call, moved, result>>

Init ==
  /\ call = NoCall
  /\ moved = 0
  /\ result = << >>

Call ==
  /\ call = NoCall
  /\ call' \in Calls
  /\ moved' = 0
  /\ result' = << >>
  /\ UNCHANGED media

Read ==
  /\ call.rw = "read" /\ moved < call.count
  /\ moved' = moved + 1
  /\ result' = Append(result, media[call.sect + moved])
  /\ UNCHANGED <<media, call>>

Write ==
  /\ call.rw = "write" /\ moved < call.count
  /\ moved' = moved + 1
  /\ media' = [media EXCEPT ![call.sect + moved] = call.data[moved + 1]]
  /\ UNCHANGED <<call, result>>

Return ==
  /\ call # NoCall /\ moved = call.count
  /\ call' = NoCall
  /\ moved' = 0
  /\ UNCHANGED <<media, result>>

Next == Call \/ Read \/ Write \/ Return

Spec == Init /\ [][Next]_vars
================================================================================
