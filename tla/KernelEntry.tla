------------------------------ MODULE KernelEntry ------------------------------
(***************************************************************************)
(* Entering and leaving the kernel (kernel/init/kernel.asm): hardware      *)
(* interrupts nested in each other and in system calls, k_reenter, the     *)
(* masks of the 8259, the kernel stack and the rows of proc_table the      *)
(* registers of a process are saved in; and the first restart at the end   *)
(* of kernel_main.                                                         *)
(*                                                                         *)
(* Interrupts are off from the entry of a handler to its sti and from its  *)
(* cli to the iretd, so each of these stretches is one step.  The body of  *)
(* a handler runs with interrupts on, and any unmasked interrupt may come  *)
(* before or after it.                                                     *)
(***************************************************************************)
EXTENDS Integers, Sequences

CONSTANTS
  IRQ,        (* the interrupts the drivers use                              *)
  CLOCK,      (* CLOCK_IRQ                                                   *)
  AT_WINI,    (* AT_WINI_IRQ, the disk                                       *)
  CALL,       (* the trap of a system call                                   *)
  Procs,      (* the rows of proc_table                                      *)
  GARBAGE,    (* registers that are no process's                             *)
  QuietBoot   (* assume no interrupt inside the first restart?               *)

ASSUME KernelEntryAssumption ==
  /\ CLOCK \in IRQ
  /\ AT_WINI \in IRQ \ {CLOCK}
  /\ CALL \notin IRQ
  /\ Procs # {}
  /\ GARBAGE \notin Procs
  /\ QuietBoot \in BOOLEAN

VARIABLES
  base,          (* what the kernel was entered from: "boot" in kernel_main,
                    "esp" and "dec" inside its call of restart, or "user"    *)
  frames,        (* the handlers that were entered and have not returned     *)
  k_reenter,
  IF_flag,       (* interrupts are enabled in the CPU                        *)
  mask,          (* interrupts masked at the 8259                            *)
  p_proc_ready,
  sp0,           (* the row tss.esp0 points at                               *)
  saved,         (* whose registers each row holds                           *)
  cur            (* whose registers user mode runs with                      *)

vars == <<base, frames, k_reenter, IF_flag, mask, p_proc_ready, sp0, saved, cur>>

Frame == [what : IRQ \cup {CALL},              \* the interrupt or the trap
          ret  : {"restart", "restart_reenter"}, \* what save pushed
          on   : {"row", "kernel"},            \* where save stored registers
          done : BOOLEAN]                      \* the handler has run

depth == Len(frames)
top   == frames[depth]

(* kernel_main(), with all interrupts masked and off.                      *)
Init ==
  /\ base = "boot"
  /\ frames = <<>>
  /\ k_reenter = 0
  /\ IF_flag = FALSE
  /\ mask = IRQ
  /\ p_proc_ready \in Procs
  /\ sp0 = p_proc_ready
  /\ saved = [p \in Procs |-> p]
  /\ cur = p_proc_ready

--------------------------------------------------------------------------------
(* Where esp points when nothing interrupts: on the kernel stack, or at    *)
(* the row user mode traps into or restart has loaded.                     *)
stack ==
  IF depth = 0 THEN (IF base = "boot" THEN "kernel" ELSE "row")
  ELSE IF top.ret = "restart" THEN "kernel" ELSE top.on

(* The registers of a process are stored in the row tss.esp0 points at.    *)
(* An entry from inside restart, behind its dec, overwrites the row.       *)
storeRegs ==
  IF depth > 0 \/ base \in {"boot", "esp"} THEN saved
  ELSE IF base = "user" THEN [saved EXCEPT ![sp0] = cur]
  ELSE [saved EXCEPT ![p_proc_ready] = GARBAGE]

(* save(): which of the two returns is pushed depends on k_reenter alone.  *)
returnOffByOne == IF k_reenter <= 0 THEN "restart" ELSE "restart_reenter"  \* mutant
returnOf == IF k_reenter + 1 = 0 THEN "restart" ELSE "restart_reenter"

save(what) ==
  /\ saved' = storeRegs
  /\ k_reenter' = k_reenter + 1
  /\ frames' = Append(frames, [what |-> what, ret |-> returnOf, on |-> stack, done |-> FALSE])

(* hwint_master, hwint_slave: save, mask the interrupt, EOI, sti.          *)
maskNothing(n) == mask   \* mutant
masked(n) == mask \cup {n}

Interrupt(n) ==
  /\ IF_flag
  /\ n \notin mask
  /\ QuietBoot => (depth = 0 => base \notin {"esp", "dec"})
  /\ save(n)
  /\ mask' = masked(n)
  /\ UNCHANGED <<base, IF_flag, p_proc_ready, sp0, cur>>

(* int 90h in user mode: save, sti.                                        *)
SysCall ==
  /\ base = "user"
  /\ depth = 0
  /\ save(CALL)
  /\ UNCHANGED <<base, IF_flag, mask, p_proc_ready, sp0, cur>>

--------------------------------------------------------------------------------
(* The C function of the handler.  Of those of the interrupts only         *)
(* clock_handler schedules, and not when it interrupted the kernel; fork,  *)
(* wait and exit choose another process.                                   *)
schedulesAlways(what) == what \in {CLOCK, CALL}   \* mutant
schedules(what) == what = CALL \/ (what = CLOCK /\ k_reenter = 0)

Handler ==
  /\ depth > 0
  /\ ~top.done
  /\ \/ UNCHANGED p_proc_ready
     \/ /\ schedules(top.what)
        /\ p_proc_ready' \in Procs
  /\ frames' = [frames EXCEPT ![depth].done = TRUE]
  /\ UNCHANGED <<base, k_reenter, IF_flag, mask, sp0, saved, cur>>

(* restart: user mode goes on with the row of p_proc_ready, and the next   *)
(* trap will store registers there.                                        *)
restartKeepsTss == cur' = saved[p_proc_ready] /\ UNCHANGED sp0   \* mutant
restart == cur' = saved[p_proc_ready] /\ sp0' = p_proc_ready

(* The end of a handler: cli, unmask the interrupt, return to what save    *)
(* pushed.  restart starts from the row, whatever is on the kernel stack.  *)
unmasked(n) == mask \ {n}

Leave ==
  /\ depth > 0
  /\ top.done
  /\ mask' = unmasked(top.what)
  /\ k_reenter' = k_reenter - 1
  /\ IF top.ret = "restart"
     THEN /\ restart
          /\ frames' = <<>>
          /\ base' = "user"
     ELSE /\ frames' = SubSeq(frames, 1, depth - 1)
          /\ UNCHANGED <<base, sp0, cur>>
  /\ UNCHANGED <<IF_flag, p_proc_ready, saved>>

--------------------------------------------------------------------------------
(* kernel_main(): init_clock and init_keyboard unmask their interrupts;    *)
(* then the first set_cursor of init_tty enables interrupts in the CPU and *)
(* they stay enabled, through init_hd and the restart at the end.          *)
EnableIrq(n) ==
  /\ base = "boot" /\ depth = 0
  /\ n \in mask
  /\ IF_flag <=> n = AT_WINI
  /\ mask' = mask \ {n}
  /\ UNCHANGED <<base, frames, k_reenter, IF_flag, p_proc_ready, sp0, saved, cur>>

SetCursor ==
  /\ base = "boot" /\ depth = 0
  /\ mask = {AT_WINI}
  /\ ~IF_flag
  /\ IF_flag' = TRUE
  /\ UNCHANGED <<base, frames, k_reenter, mask, p_proc_ready, sp0, saved, cur>>

FirstRestart ==
  /\ depth = 0
  /\ \/ /\ base = "boot" /\ IF_flag /\ mask = {}
        /\ base' = "esp"
        /\ UNCHANGED <<k_reenter, sp0, cur>>
     \/ /\ base = "esp"
        /\ base' = "dec"
        /\ sp0' = p_proc_ready
        /\ k_reenter' = k_reenter - 1
        /\ UNCHANGED cur
     \/ /\ base = "dec"
        /\ base' = "user"
        /\ cur' = saved[p_proc_ready]
        /\ UNCHANGED <<k_reenter, sp0>>
  /\ UNCHANGED <<frames, IF_flag, mask, p_proc_ready, saved>>

Next ==
  \/ \E n \in IRQ : Interrupt(n) \/ EnableIrq(n)
  \/ SysCall
  \/ Handler
  \/ Leave
  \/ SetCursor
  \/ FirstRestart

Spec == Init /\ [][Next]_vars

--------------------------------------------------------------------------------
TypeOK ==
  /\ base \in {"boot", "esp", "dec", "user"}
  /\ frames \in Seq(Frame)
  /\ k_reenter \in Int
  /\ IF_flag \in BOOLEAN
  /\ mask \in SUBSET IRQ
  /\ p_proc_ready \in Procs
  /\ sp0 \in Procs
  /\ saved \in [Procs -> Procs \cup {GARBAGE}]
  /\ cur \in Procs \cup {GARBAGE}

(* What clock_handler and save rely on: k_reenter counts the handlers in   *)
(* progress below the current one, from -1 in user mode; before the first  *)
(* process runs it is one more.                                            *)
ReenterCounts ==
  k_reenter = depth - 1 + (IF base \in {"boot", "esp"} THEN 1 ELSE 0)

(* A handler of an interrupt is never entered while it is in progress, so  *)
(* the kernel stack holds at most one frame of each; and once processes    *)
(* run, an interrupt is masked exactly while it is handled.                *)
OneHandlerEach ==
  /\ \A i, j \in 1 .. depth : frames[i].what = frames[j].what => i = j
  /\ base = "user" => mask = {frames[i].what : i \in 1 .. depth} \ {CALL}

(* Only the outermost handler leaves by restart, which forgets the kernel  *)
(* stack: no handler in progress is ever lost.                             *)
RestartIsOutermost ==
  /\ \A i \in 1 .. depth : frames[i].ret = "restart" => i = 1
  /\ base = "user" /\ depth > 0 => frames[1].ret = "restart"

(* Every row holds the registers of its own process, and user mode runs    *)
(* p_proc_ready on its own row: no process resumes with another's state.   *)
OwnRegisters ==
  /\ \A p \in Procs : saved[p] = p
  /\ base = "user" /\ depth = 0 => cur = p_proc_ready /\ sp0 = p_proc_ready

(* A system call or an interrupt handler never sees p_proc_ready change    *)
(* under it: only the outermost handler, when nothing is nested in it,     *)
(* changes it.                                                             *)
StableUnderNesting == [][p_proc_ready' # p_proc_ready => depth = 1]_vars

(* kernel.asm: a save that finds k_reenter # 0 is "already on the kernel   *)
(* stack".                                                                 *)
NestedOnKernelStack ==
  \A i \in 1 .. depth : frames[i].ret = "restart_reenter" => frames[i].on = "kernel"

================================================================================
