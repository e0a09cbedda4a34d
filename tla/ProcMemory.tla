------------------------------- MODULE ProcMemory -------------------------------
(***************************************************************************)
(* The memory behind the process table: the segments sys_fork gives the    *)
(* child, the image it copies there (mm/fork.c), the place alloc_mem picks *)
(* (mm/mm.c) and the program sys_exec loads (mm/exec.c).  Every step is a  *)
(* step of ProcTable.  Addresses and sizes are in pages of 4 KB.           *)
(***************************************************************************)
EXTENDS ProcTable

CONSTANTS
  KERNEL_LIMIT,    (* limit of INIT's segments: the end of the kernel        *)
  MEM_PAGES,       (* memory_size                                            *)
  ProgramPages     (* how far the programs that are executed reach           *)

(* Forked images are 1 MB each, from 10 MB on.  A flat segment has the     *)
(* largest limit of 20 bits; a size wraps with the 32-bit int.             *)
PROCS_BASE              == 2560
PROC_IMAGE_SIZE_DEFAULT == 256
AddressSpace            == 1048576
FLAT_LIMIT              == AddressSpace - 1

ASSUME MemoryAssumption ==
  /\ KERNEL_LIMIT \in 0 .. PROC_IMAGE_SIZE_DEFAULT - 1
  /\ MEM_PAGES \in Nat
  /\ ProgramPages \in 1 .. PROC_IMAGE_SIZE_DEFAULT

VARIABLES
  seg,             (* base and limit in ldts                                 *)
  image            (* what was last copied to the place of every forked slot,
                      and what the native processes were built with          *)

mem   == <<seg, image>>
mvars == <<vars, seg, image>>

Forked == Slots \ Natives

MInit ==
  /\ Init
  /\ seg = [p \in Slots |->
              [base |-> 0,
               limit |-> IF p = INIT THEN KERNEL_LIMIT
                         ELSE IF p \in Natives THEN FLAT_LIMIT ELSE 0]]
  /\ image = [p \in Slots |->
                IF p = INIT THEN "INIT" ELSE IF p \in Natives THEN "Test" ELSE "none"]

--------------------------------------------------------------------------------
(* alloc_mem(): the place is fixed by the slot.  What it finds wrong with  *)
(* the size or the memory is printed only.                                 *)
allocClose(pid) == PROCS_BASE + pid * 128   \* mutant: images half as far apart
allocNoBase(pid) ==   \* mutant
  (pid - (NR_TASKS + NATIVE_PROCS + 1)) * PROC_IMAGE_SIZE_DEFAULT
alloc_mem(pid) ==
  PROCS_BASE + (pid - (NR_TASKS + NATIVE_PROCS)) * PROC_IMAGE_SIZE_DEFAULT

(* Do size pages from base reach into the place of slot q?                 *)
Reaches(base, size, q) ==
  /\ base < alloc_mem(q) + PROC_IMAGE_SIZE_DEFAULT
  /\ alloc_mem(q) < base + size

(* phys_copy() of size pages of content to base.                           *)
phys_copy(base, size, content) ==
  image' = [q \in Slots |-> IF q \in Forked /\ Reaches(base, size, q)
                            THEN content ELSE image[q]]

(* What sys_fork copies: (limit + 1) * 4096 bytes, as a 32-bit int.        *)
CallerSizeOneMore(p) == (seg[p].limit + 2) % AddressSpace   \* mutant
CallerSize(p) == (seg[p].limit + 1) % AddressSpace

MFork ==
  /\ Fork
  /\ IF FreeSlots = {} THEN UNCHANGED mem
     ELSE LET c == p_proc_ready'
          IN  /\ seg' = [seg EXCEPT ![c] =
                           [base |-> alloc_mem(c),
                            limit |-> PROC_IMAGE_SIZE_DEFAULT - 1]]
              /\ phys_copy(alloc_mem(c), CallerSize(p_proc_ready), image[p_proc_ready])

(* sys_exec(): the segments of the file go where the caller's own segment  *)
(* has them.                                                               *)
MExec ==
  /\ Exec
  /\ phys_copy(seg[p_proc_ready].base, ProgramPages, "program")
  /\ UNCHANGED seg

MNext ==
  \/ (\E c \in Calls : SysCall(c)) /\ UNCHANGED mem
  \/ MFork
  \/ MExec
  \/ Wait /\ UNCHANGED mem
  \/ Exit /\ UNCHANGED mem
  \/ Other /\ UNCHANGED mem
  \/ SysReturn /\ UNCHANGED mem
  \/ ClockTick /\ UNCHANGED mem
  \/ NestedTick /\ UNCHANGED mem

MSpec == MInit /\ [][MNext]_mvars

(* With the fairness of ProcTable.                                         *)
MFairSpec == MSpec /\ Fairness

--------------------------------------------------------------------------------
MTypeOK ==
  /\ TypeOK
  /\ seg \in [Slots -> [base : Nat, limit : Nat]]
  /\ image \in [Slots -> {"none", "INIT", "Test", "program"}]

InUse(p) == FREE_SLOT \notin flags[p]

(* Forked processes share no memory with each other, and lie above what    *)
(* the kernel and the native processes use.                                *)
ImagesApart ==
  \A p, q \in Forked :
    /\ InUse(p) => seg[p].base >= PROCS_BASE
    /\ InUse(p) /\ InUse(q) /\ p # q =>
         \/ seg[p].base + seg[p].limit < seg[q].base
         \/ seg[q].base + seg[q].limit < seg[p].base

(* fork writes to the memory of the child it makes, exec to the memory of  *)
(* its caller, and nothing else changes any image: the sizes copied never  *)
(* reach a neighbour.                                                      *)
OwnImageOnly ==
  [][\A q \in Slots : image'[q] # image[q] =>
       \/ kpc = "fork" /\ q = p_proc_ready'
       \/ kpc = "exec" /\ q = p_proc_ready]_mvars

(* fork.c: "child is a copy of the parent".  It is not for a parent with   *)
(* flat segments: the size of 4 GB is 0, and nothing is copied.            *)
ChildIsCopy ==
  [][kpc = "fork" /\ p_proc_ready' # p_proc_ready =>
       image'[p_proc_ready'] = image[p_proc_ready]]_mvars

(* mm.c: "memory allocation failed" is printed for an image that does not  *)
(* fit the memory, and the process is given the image.                     *)
ImagesInMemory ==
  \A p \in Forked : InUse(p) => seg[p].base + seg[p].limit < MEM_PAGES

================================================================================
