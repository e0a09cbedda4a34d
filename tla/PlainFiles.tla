------------------------------- MODULE PlainFiles -------------------------------
(***************************************************************************)
(* What reading and writing promise, each as one step.  A file is a        *)
(* sequence of bytes with room for Capacity of them.  A call that stays    *)
(* inside the file, or inside its room, does what it is asked for and no   *)
(* more.  Of the others only this is promised: a read begins with the      *)
(* bytes up to the end of the file and loses none, a write fills the room. *)
(***************************************************************************)
EXTENDS Integers, Sequences, SequencesExt

CONSTANTS Files, Capacity, NoCall, NoAnswer

VARIABLES
  content,   (* of every file                                                *)
  place,     (* of every descriptor: its file, and its position              *)
  call,      (* the call being made, [op, fd, file, pos, count, data]        *)
  answer     (* of the call: how many bytes were moved, and those read       *)

vars == <<content, place, call, answer>>

slice(file, pos, n) == SubSeq(file, pos + 1, pos + n)

overwritten(file, pos, data) ==
  [k \in 1 .. Max({Len(file), pos + Len(data)}) |->
     IF k \in pos + 1 .. pos + Len(data) THEN data[k - pos] ELSE file[k]]

(* Init leaves contents and descriptors open.                              *)
Init == call = NoCall /\ answer = NoAnswer

Open ==
  /\ call = NoCall
  /\ \E fd \in DOMAIN place : \E f \in Files :
       place' = [place EXCEPT ![fd] = [file |-> f, pos |-> 0]]
  /\ UNCHANGED <<content, call, answer>>

Begin ==
  /\ call = NoCall
  /\ call' # NoCall
  /\ UNCHANGED <<content, place, answer>>

(* What a call leaves alone, and the position after it.  kread() has its   *)
(* own position.                                                           *)
others_kept == \A f \in Files \ {call.file} : content'[f] = content[f]
moved_on ==
  place' = IF call.op = "kread" THEN place
           ELSE [place EXCEPT ![call.fd].pos = @ + answer'.moved]

ReadInside ==
  /\ call.op \in {"read", "kread"}
  /\ call.pos + call.count <= Len(content[call.file])
  /\ answer' = [moved |-> call.count,
                bytes |-> slice(content[call.file], call.pos, call.count)]
  /\ UNCHANGED content

ReadBeyond ==
  LET file == content[call.file]
  IN  /\ call.op \in {"read", "kread"}
      /\ call.pos + call.count > Len(file)
      /\ IsPrefix(slice(file, call.pos, Len(file) - call.pos), answer'.bytes)
      /\ answer'.moved = Len(answer'.bytes) /\ answer'.moved <= call.count
      /\ IsPrefix(file, content'[call.file])
      /\ others_kept

WriteInside ==
  /\ call.op = "write"
  /\ call.pos + call.count <= Capacity
  /\ answer' = [moved |-> call.count, bytes |-> << >>]
  /\ content' = [content EXCEPT ![call.file] = overwritten(@, call.pos, call.data)]

WriteBeyond ==
  LET room == Max({Capacity - call.pos, 0})
  IN  /\ call.op = "write"
      /\ call.pos + call.count > Capacity
      /\ answer'.moved <= call.count
      /\ content'[call.file] =
           overwritten(content[call.file], Min({call.pos, Capacity}), slice(call.data, 0, room))
      /\ \A f \in Files : Len(content'[f]) >= Len(content[f])

Do ==
  /\ call # NoCall /\ answer = NoAnswer
  /\ ReadInside \/ ReadBeyond \/ WriteInside \/ WriteBeyond
  /\ moved_on
  /\ UNCHANGED call

Return ==
  /\ answer # NoAnswer
  /\ call' = NoCall
  /\ answer' = NoAnswer
  /\ UNCHANGED <<content, place>>

Next == Open \/ Begin \/ Do \/ Return

Spec == Init /\ [][Next]_vars
================================================================================
