-------------------------------- MODULE FileData --------------------------------
(***************************************************************************)
(* Reading and writing files (fs/fs.c): the loops of sys_read(),           *)
(* sys_writef() and kread() over the sectors of a file, its size and the   *)
(* positions of descriptors.  A call of hd_rdwt_block() is one step (it is *)
(* a BlockDevice); one turn of a loop makes a read, and a write of the     *)
(* same sectors, with nothing in between that could change them.           *)
(***************************************************************************)
EXTENDS Integers, Sequences, FiniteSetsExt

CONSTANTS
  SECTOR_SIZE,
  FSBUF_SECTS,   (* FSBUF_SIZE >> SECTOR_SIZE_SHIFT                          *)
  NR_SECTS,      (* i_nr_sects of every file                                 *)
  NR_OF_FILES,   (* one behind the other on the disk                         *)
  Fds,           (* descriptors                                              *)
  MaxCalls,      (* bound: calls made                                        *)
  Lens           (* bound: bytes asked for by one call                       *)

ASSUME FileDataAssumption ==
  /\ SECTOR_SIZE \in Nat \ {0} /\ FSBUF_SECTS \in Nat \ {0}
  /\ NR_SECTS \in Nat \ {0} /\ NR_OF_FILES \in Nat \ {0}
  /\ IsFiniteSet(Lens) /\ Lens # {} /\ Lens \subseteq Nat

FileNrs  == 0 .. NR_OF_FILES - 1
Capacity == NR_SECTS * SECTOR_SIZE
MaxLen   == Max(Lens)
(* A loop may touch sectors behind the last file.                          *)
DiskBytes == 0 .. (NR_OF_FILES * NR_SECTS + FSBUF_SECTS + 1) * SECTOR_SIZE + MaxLen
NoCall == [op |-> "none", fd |-> 0, file |-> 0, pos |-> 0, count |-> 0, data |-> << >>]
NoAnswer == [moved |-> -1, bytes |-> << >>]

VARIABLES
  disk,        (* the bytes of its data sectors                              *)
  i_size,      (* of every file                                              *)
  desc,        (* fd_inode and fd_pos of every descriptor                    *)
  call,        (* the call being made                                        *)
  i, off, bytes_rw, bytes_left,   (* variables of its loop                   *)
  buf,         (* what it has read                                           *)
  done,        (* it is about to return                                      *)
  calls,       (* so far; every byte that is written differs by it           *)
  before       (* history: the files when the call was made                  *)

loop == <<i, off, bytes_rw, bytes_left, buf>>
vars == <<disk, i_size, desc, call, loop, done, calls, before>>

i_start_sect(f) == f * NR_SECTS

(* The bytes of a file that are in its own sectors.                        *)
bytes_of(f) == [k \in 1 .. Min({i_size[f], Capacity}) |->
                  disk[i_start_sect(f) * SECTOR_SIZE + k - 1]]
files == [f \in FileNrs |-> bytes_of(f)]

(* The first file is the one the installer wrote, the others are new.      *)
Init ==
  /\ disk = [a \in DiskBytes |-> -a]
  /\ i_size = [f \in FileNrs |-> IF f = 0 THEN Capacity ELSE 0]
  /\ desc = [fd \in Fds |-> [file |-> 0, pos |-> 0]]
  /\ call = NoCall
  /\ i = 0 /\ off = 0 /\ bytes_rw = 0 /\ bytes_left = 0
  /\ buf = << >>
  /\ done = FALSE
  /\ calls = 0
  /\ before = << >>

--------------------------------------------------------------------------------
(* sys_open(), of a file that is there; FileTable has the rest of it.      *)
Open(fd, f) ==
  /\ call = NoCall
  /\ desc' = [desc EXCEPT ![fd] = [file |-> f, pos |-> 0]]
  /\ UNCHANGED <<disk, i_size, call, loop, done, calls, before>>

(* The sectors of a call: from the one of its position to the one of its   *)
(* end, which is not beyond the end of the file, or for a write not beyond *)
(* its last sector.  A turn of the loop moves chunk of them.               *)
pos_end(c) ==
  Min({c.pos + c.count, IF c.op = "write" THEN Capacity ELSE i_size[c.file]})

rw_sect_min(c) == i_start_sect(c.file) + c.pos \div SECTOR_SIZE
rw_sect_max(c) == i_start_sect(c.file) + pos_end(c) \div SECTOR_SIZE

chunkOfCall(c) == rw_sect_max(c) - rw_sect_min(c) + 1   \* mutant
chunkOneShort(c) == Min({rw_sect_max(c) - rw_sect_min(c), FSBUF_SECTS})   \* mutant
chunk(c) ==
  IF c.op = "kread" THEN 1 ELSE Min({rw_sect_max(c) - rw_sect_min(c) + 1, FSBUF_SECTS})

(* sys_read(), sys_writef() and kread() up to their loops, with files that *)
(* were opened with O_RDWR: of another file a call returns 0 before it     *)
(* has changed anything, and has no step.  The bound on positions: reading *)
(* at the end again and again moves it without limit.                      *)
Begin(c) ==
  /\ call = NoCall /\ calls < MaxCalls
  /\ c.pos <= Capacity
  /\ call' = c
  /\ i' = rw_sect_min(c)
  /\ off' = c.pos % SECTOR_SIZE
  /\ bytes_rw' = 0
  /\ bytes_left' = c.count
  /\ buf' = << >>
  /\ calls' = calls + 1
  /\ before' = files
  /\ UNCHANGED <<disk, i_size, desc, done>>

Requests ==
  {[op |-> "read", fd |-> fd, file |-> desc[fd].file, pos |-> desc[fd].pos,
    count |-> n, data |-> << >>] : fd \in Fds, n \in Lens}
  \cup
  {[op |-> "write", fd |-> fd, file |-> desc[fd].file, pos |-> desc[fd].pos,
    count |-> n, data |-> [k \in 1 .. n |-> 100 * calls + k]] : fd \in Fds, n \in Lens}
  \cup
  {[op |-> "kread", fd |-> 0, file |-> f, pos |-> 0,
    count |-> n, data |-> << >>] : f \in FileNrs, n \in Lens}

(* A turn of the loop: as many bytes as are left, or as there are in the   *)
(* sectors of the turn; only the first begins inside a sector.             *)
keepsOff == off   \* mutant
off_after == 0

bytes == Min({bytes_left, chunk(call) * SECTOR_SIZE - off})
first == i * SECTOR_SIZE + off

Turns ==
  /\ call # NoCall /\ ~done
  /\ i <= rw_sect_max(call)
  /\ i' = i + chunk(call)
  /\ off' = off_after
  /\ bytes_rw' = bytes_rw + bytes
  /\ bytes_left' = bytes_left - bytes
  /\ UNCHANGED <<i_size, call, done, calls, before>>

ReadTurn ==
  /\ Turns
  /\ call.op \in {"read", "kread"}
  /\ buf' = buf \o [k \in 1 .. bytes |-> disk[first + k - 1]]
  /\ desc' = IF call.op = "kread" THEN desc
             ELSE [desc EXCEPT ![call.fd].pos = @ + bytes]
  /\ UNCHANGED disk

WriteTurn ==
  /\ Turns
  /\ call.op = "write"
  /\ disk' = [a \in DiskBytes |->
       IF a \in first .. first + bytes - 1
       THEN call.data[bytes_rw + a - first + 1] ELSE disk[a]]
  /\ desc' = [desc EXCEPT ![call.fd].pos = @ + bytes]
  /\ UNCHANGED buf

(* After the loop: a position behind the end moves it.                     *)
Finish ==
  LET pos == desc[call.fd].pos
  IN  /\ call # NoCall /\ ~done
      /\ i > rw_sect_max(call)
      /\ i_size' = IF call.op # "kread" /\ pos > i_size[call.file]
                   THEN [i_size EXCEPT ![call.file] = pos] ELSE i_size
      /\ done' = TRUE
      /\ UNCHANGED <<disk, desc, call, loop, calls, before>>

Return ==
  /\ done
  /\ done' = FALSE
  /\ call' = NoCall
  /\ i' = 0 /\ off' = 0 /\ bytes_rw' = 0 /\ bytes_left' = 0
  /\ buf' = << >>
  /\ before' = << >>
  /\ UNCHANGED <<disk, i_size, desc, calls>>

Next ==
  \/ \E fd \in Fds, f \in FileNrs : Open(fd, f)
  \/ \E c \in Requests : Begin(c)
  \/ ReadTurn \/ WriteTurn
  \/ Finish
  \/ Return

Spec == Init /\ [][Next]_vars /\ WF_vars(ReadTurn \/ WriteTurn \/ Finish \/ Return)

--------------------------------------------------------------------------------
(* Types; and what a turn moves at once fits into fsbuf, which             *)
(* hd_rdwt_block() fills without looking at its size.                      *)
TypeOK ==
  /\ disk \in [DiskBytes -> Int]
  /\ i_size \in [FileNrs -> Nat]
  /\ desc \in [Fds -> [file : FileNrs, pos : Nat]]
  /\ i \in Nat /\ off \in 0 .. SECTOR_SIZE - 1
  /\ bytes_rw \in 0 .. MaxLen /\ bytes_left \in 0 .. MaxLen
  /\ Len(buf) <= MaxLen
  /\ call # NoCall => chunk(call) \in 1 .. FSBUF_SECTS

(* Every call returns: the loops, which go on to the sector of the end     *)
(* whatever is left of the bytes, come to an end wherever they begin.      *)
EveryCallReturns == call # NoCall ~> call = NoCall

(* A call of sys_read(), sys_writef() or kread(), taken as a whole from    *)
(* its first turn to its return, does what PlainFiles promises: the turns  *)
(* put together neither lose, repeat nor misplace a byte, no other file    *)
(* changes and the position moves by what was moved.                       *)
Plain == INSTANCE PlainFiles WITH
  Files   <- FileNrs,
  content <- IF call = NoCall \/ done THEN files ELSE before,
  answer  <- IF done THEN [moved |-> bytes_rw, bytes |-> buf] ELSE NoAnswer,
  place   <- IF call.op \in {"read", "write"} /\ ~done
             THEN [desc EXCEPT ![call.fd].pos = call.pos] ELSE desc

AsPromised == Plain!Spec
================================================================================
