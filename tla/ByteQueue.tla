------------------------------- MODULE ByteQueue -------------------------------
(***************************************************************************)
(* What the ring of the keyboard promises: a queue of at most Capacity     *)
(* bytes.  A byte that finds it full is dropped; those in it are read in   *)
(* the order they came, each once.                                         *)
(***************************************************************************)
EXTENDS Naturals, Sequences

CONSTANTS Bytes, Capacity

VARIABLE queue

Init == queue = <<>>

Put == \E b \in Bytes : Len(queue) < Capacity /\ queue' = Append(queue, b)

Get == queue # <<>> /\ queue' = Tail(queue)

Next == Put \/ Get

Spec == Init /\ [][Next]_queue
================================================================================
