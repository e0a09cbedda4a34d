------------------------------- MODULE ProcTable -------------------------------
(***************************************************************************)
(* The process table: fork, wait, exit and exec (mm/), the scheduler       *)
(* (kernel/proc/proc.c) and the clock interrupt (kernel/proc/clock.c).     *)
(*                                                                         *)
(* A system call is three steps: the trap, the handler, the return.  The   *)
(* kernel runs handlers with interrupts on but reschedules only when       *)
(* k_reenter is 0, so between the three steps the clock can tick without   *)
(* switching processes (NestedTick); no other process runs.                *)
(***************************************************************************)
EXTENDS Integers

CONSTANTS
  NR_TASKS,        (* kernel tasks, the first slots of proc_table (task_tty) *)
  NATIVE_PROCS,    (* processes built into the kernel: INIT, TestA, ...      *)
  NR_PROCS,        (* slots for user processes, the native ones included     *)
  TASK_TICKS,      (* priority given to tasks by kernel_main                 *)
  USER_TICKS,      (* priority given to native user processes                *)
  ExitStatus,      (* the statuses programs pass to exit                     *)
  MaxDebt          (* bound: how far nested ticks may push ticks below zero  *)

Slots   == 0 .. NR_TASKS + NR_PROCS - 1
Natives == 0 .. NR_TASKS + NATIVE_PROCS - 1
INIT    == NR_TASKS

ASSUME ConstantsAssumption ==
  /\ NR_TASKS \in Nat \ {0}
  /\ NATIVE_PROCS \in Nat \ {0}
  /\ NR_PROCS \in Nat
  /\ NATIVE_PROCS <= NR_PROCS
  /\ TASK_TICKS \in Nat \ {0}
  /\ USER_TICKS \in Nat \ {0}
  /\ ExitStatus \subseteq Int
  /\ MaxDebt \in Nat

(* The bits of p_flags; a process is runnable when none is set.            *)
WAITING   == "WAITING"
HANGING   == "HANGING"
FREE_SLOT == "FREE_SLOT"

ORIG_STACK == 1047552    \* PROC_IMAGE_SIZE_DEFAULT - PROC_ORIGIN_STACK, in bytes
GARBAGE    == -2         \* an eax that is no result: see save and Exit

Calls  == {"fork", "wait", "exit", "exec", "other"}

VARIABLES
  flags,         (* p_flags of every slot, as the set of bits that are on    *)
  parent,        (* p_parent                                                 *)
  ticks,         (* remaining ticks                                          *)
  priority,      (* what schedule() refills ticks with                       *)
  exit_status,
  eax,           (* regs.eax, the value the process resumes with             *)
  p_proc_ready,  (* the process that runs                                    *)
  kpc,           (* "user", the system call being served, or "ret"           *)
  esi,           (* the caller's stack frame, kept by sys_call               *)
  retval         (* what the handler returned                                *)

rows == <<parent, priority, exit_status>>
vars == <<flags, ticks, eax, rows, p_proc_ready, kpc, esi, retval>>

--------------------------------------------------------------------------------
(* schedule(): the runnable process with most ticks left, the first one in *)
(* table order on a tie; when nobody has ticks every slot is refilled and  *)
(* the scan starts over.  f and t are p_flags and ticks as schedule()      *)
(* finds them.  Without a runnable process of positive priority the loop   *)
(* never ends, and the step does not exist.                                *)
ReadyWithTicks(f, t) == {p \in Slots : t[p] > 0}   \* mutant
Ready(f, t) == {p \in Slots : f[p] = {} /\ t[p] > 0}

refillTasks(t) ==   \* mutant
  [p \in Slots |-> IF p < NR_TASKS THEN priority[p] ELSE t[p]]
refill(t) == priority

schedule(f, t) ==
  LET full == IF Ready(f, t) = {} THEN refill(t) ELSE t
  IN  /\ ticks' = full
      /\ \E p \in Ready(f, full) :
           /\ \A q \in Ready(f, full) :
                full[q] < full[p] \/ (full[q] = full[p] /\ p <= q)
           /\ p_proc_ready' = p

--------------------------------------------------------------------------------
(* init_prot() zeroes the table; kernel_main() fills in the native slots   *)
(* and marks the others free.                                              *)
Init ==
  /\ flags = [p \in Slots |-> IF p \in Natives THEN {} ELSE {FREE_SLOT}]
  /\ parent = [p \in Slots |-> 0]
  /\ priority = [p \in Slots |-> IF p < NR_TASKS THEN TASK_TICKS
                                 ELSE IF p \in Natives THEN USER_TICKS ELSE 0]
  /\ ticks = priority
  /\ exit_status = [p \in Slots |-> 0]
  /\ eax = [p \in Slots |-> GARBAGE]
  /\ p_proc_ready = 0
  /\ kpc = "user"
  /\ esi = 0
  /\ retval = 0

--------------------------------------------------------------------------------
(* save: entering the kernel from user mode stores the registers of the    *)
(* running process in its row.  What its eax holds is the program's.       *)
save == eax' = [eax EXCEPT ![p_proc_ready] = GARBAGE]

(* The trap: the stubs of syscall.asm, save and sys_call.  Tasks make no   *)
(* system call; exec is called by forked processes.                        *)
SysCall(c) ==
  /\ kpc = "user"
  /\ p_proc_ready >= NR_TASKS
  /\ c = "exec" => p_proc_ready \notin Natives
  /\ save
  /\ kpc' = c
  /\ esi' = p_proc_ready
  /\ UNCHANGED <<flags, ticks, rows, p_proc_ready, retval>>

(* Mutant: the result stored in the row of the process that runs next.     *)
SysReturnToRunning ==
  /\ kpc = "ret"
  /\ eax' = [eax EXCEPT ![p_proc_ready] = retval]
  /\ kpc' = "user"
  /\ esi' = 0
  /\ retval' = 0
  /\ UNCHANGED <<flags, ticks, rows, p_proc_ready>>

(* After the handler: the result goes into the caller's saved eax, and     *)
(* restart resumes whatever p_proc_ready is.                               *)
SysReturn ==
  /\ kpc = "ret"
  /\ eax' = [eax EXCEPT ![esi] = retval]
  /\ kpc' = "user"
  /\ esi' = 0
  /\ retval' = 0
  /\ UNCHANGED <<flags, ticks, rows, p_proc_ready>>

Return(v) == kpc' = "ret" /\ retval' = v /\ UNCHANGED esi

--------------------------------------------------------------------------------
FreeSlots == {p \in Slots : flags[p] = {FREE_SLOT}}

(* sys_fork(): the first free slot becomes a copy of the caller and runs   *)
(* at once.                                                                *)
Fork ==
  /\ kpc = "fork"
  /\ \/ /\ FreeSlots = {}
        /\ Return(-1)
        /\ UNCHANGED <<flags, ticks, eax, rows, p_proc_ready>>
     \/ \E c \in FreeSlots :
          LET pid == p_proc_ready
          IN  /\ \A p \in FreeSlots : c <= p
              /\ flags' = [flags EXCEPT ![c] = flags[pid]]
              /\ parent' = [parent EXCEPT ![c] = pid]
              /\ ticks' = [ticks EXCEPT ![c] = ticks[pid]]
              /\ priority' = [priority EXCEPT ![c] = priority[pid]]
              /\ exit_status' = [exit_status EXCEPT ![c] = exit_status[pid]]
              /\ eax' = [eax EXCEPT ![c] = 0]
              /\ p_proc_ready' = c
              /\ Return(c)

(* sys_wait(): the first HANGING child is reaped; otherwise a caller whose *)
(* pid is the p_parent of any slot blocks, and somebody else runs.         *)
Children(pid) == {p \in Slots : parent[p] = pid}
ZombiesOfAnyone(pid) == {p \in Slots : HANGING \in flags[p]}   \* mutant
Zombies(pid)  == {p \in Children(pid) : HANGING \in flags[p]}

Wait ==
  LET pid == p_proc_ready
  IN  /\ kpc = "wait"
      /\ \/ \E c \in Zombies(pid) :
              /\ \A p \in Zombies(pid) : c <= p
              /\ flags' = [flags EXCEPT ![c] = {FREE_SLOT}]
              /\ Return(exit_status[c])
              /\ UNCHANGED <<ticks, p_proc_ready>>
         \/ /\ Zombies(pid) = {}
            /\ flags' = IF Children(pid) = {} THEN flags
                        ELSE [flags EXCEPT ![pid] = @ \cup {WAITING}]
            /\ schedule(flags', ticks)
            /\ Return(0)
      /\ UNCHANGED <<eax, rows>>

(* Is the parent blocked in wait?                                          *)
NeverWaits(pp) == FALSE   \* mutant
Waits(pp) == WAITING \in flags[pp]

(* sys_exit(): a waiting parent gets the status and the slot is freed;     *)
(* otherwise the process hangs until it is waited for.                     *)
Exit ==
  LET pid == p_proc_ready
      pp  == parent[pid]
  IN  /\ kpc = "exit"
      /\ \E status \in ExitStatus :
           /\ exit_status' = [exit_status EXCEPT ![pid] = status]
           /\ IF Waits(pp)
              THEN /\ flags' = [flags EXCEPT ![pp] = @ \ {WAITING},
                                             ![pid] = {FREE_SLOT}]
                   /\ eax' = [eax EXCEPT ![pp] = status]
              ELSE /\ flags' = [flags EXCEPT ![pid] = @ \cup {HANGING}]
                   /\ UNCHANGED eax
      /\ schedule(flags', ticks)
      /\ Return(GARBAGE)
      /\ UNCHANGED <<parent, priority>>

(* sys_exec(): the program the caller starts finds argv in eax, and again  *)
(* when the result of the call is stored there.                            *)
Exec ==
  /\ kpc = "exec"
  /\ eax' = [eax EXCEPT ![p_proc_ready] = ORIG_STACK]
  /\ Return(ORIG_STACK)
  /\ UNCHANGED <<flags, ticks, rows, p_proc_ready>>

(* Every other entry of sys_call_table leaves the process table alone.     *)
Other ==
  /\ kpc = "other"
  /\ Return(0)
  /\ UNCHANGED <<flags, ticks, eax, rows, p_proc_ready>>

--------------------------------------------------------------------------------
(* clock_handler() with k_reenter = 0: the interrupted process was in user *)
(* mode; when its ticks are used up somebody else runs.                    *)
ClockTick ==
  /\ kpc = "user"
  /\ LET t == [ticks EXCEPT ![p_proc_ready] = @ - 1]
     IN  IF t[p_proc_ready] > 0
         THEN ticks' = t /\ UNCHANGED p_proc_ready
         ELSE schedule(flags, t)
  /\ save
  /\ UNCHANGED <<flags, rows, kpc, esi, retval>>

(* clock_handler() with k_reenter # 0: a tick is charged, nothing else.    *)
NestedTick ==
  /\ kpc # "user"
  /\ ticks[p_proc_ready] > -MaxDebt
  /\ ticks' = [ticks EXCEPT ![p_proc_ready] = @ - 1]
  /\ UNCHANGED <<flags, eax, rows, p_proc_ready, kpc, esi, retval>>

Handler == Fork \/ Wait \/ Exit \/ Exec \/ Other

Next ==
  \/ \E c \in Calls : SysCall(c)
  \/ Fork
  \/ Wait
  \/ Exit
  \/ Exec
  \/ Other
  \/ SysReturn
  \/ ClockTick
  \/ NestedTick

Spec == Init /\ [][Next]_vars

(* System calls end, and the timer cannot always miss user mode.           *)
Fairness == WF_vars(Handler) /\ WF_vars(SysReturn) /\ SF_vars(ClockTick)

FairSpec == Spec /\ Fairness

--------------------------------------------------------------------------------
(* Types: pids are slots, and nothing is stored beyond the table.          *)
TypeOK ==
  /\ flags \in [Slots -> SUBSET {WAITING, HANGING, FREE_SLOT}]
  /\ parent \in [Slots -> Slots]
  /\ ticks \in [Slots -> Int]
  /\ priority \in [Slots -> Nat]
  /\ exit_status \in [Slots -> Int]
  /\ eax \in [Slots -> Int]
  /\ p_proc_ready \in Slots
  /\ kpc \in Calls \cup {"user", "ret"}
  /\ esi \in Slots
  /\ retval \in Int

(* Whatever a handler, the clock or a return leaves in p_proc_ready is a   *)
(* process that can run: restart never resumes a free, blocked or dead one.*)
RunningIsRunnable == flags[p_proc_ready] = {}

(* No exit is missed: when a process is blocked in wait, none of its       *)
(* children is already hanging, whichever of exit and wait came first.     *)
NoMissedExit ==
  \A p, c \in Slots :
    WAITING \in flags[p] /\ parent[c] = p => HANGING \notin flags[c]

(* The slots of the native processes are never free, so sys_fork's child   *)
(* is always a slot alloc_mem has memory for: the assertion commented out  *)
(* in sys_fork and in alloc_mem.                                           *)
NativesStay == \A p \in Natives : FREE_SLOT \notin flags[p]

(* Every runnable process runs, unless processes are forked for ever: a    *)
(* child starts with its parent's ticks and the parent keeps them too.     *)
EveryoneRuns ==
  \/ []<><<Fork>>_vars
  \/ \A p \in Slots : (flags[p] = {}) ~> (p_proc_ready = p \/ flags[p] # {})

(* wait.c on a caller that blocks: it "has children".  A slot that is      *)
(* freed keeps its p_parent, so a caller whose last child was reaped       *)
(* blocks too, and nobody is left to wake it up.                           *)
WaitingHasChild ==
  \A p \in Slots : WAITING \in flags[p] =>
    \E c \in Children(p) : FREE_SLOT \notin flags[c]

(* wait.c: "if the proc has any child, make INIT the new parent".  The     *)
(* loop is commented out, and orphans keep a parent that is gone.          *)
OrphansGoToInit ==
  \A p \in Slots \ Natives :
    FREE_SLOT \notin flags[p] => flags[parent[p]] \notin {{HANGING}, {FREE_SLOT}}

--------------------------------------------------------------------------------
(* The steps of a call add up to the one step ProcLife promises, and a     *)
(* resumption.                                                             *)
lifeOf(f) ==
  CASE FREE_SLOT \in f -> "free"
    [] WAITING \in f   -> "blocked"
    [] HANGING \in f   -> "zombie"
    [] OTHER           -> "live"

(* A call has its answer from its handler on, before the return stores it, *)
(* and a blocked one has none; until the return has resumed somebody the   *)
(* processor is the kernel's.  An answer that is -2 is not told apart from *)
(* none.                                                                   *)
answerOf(p) == IF WAITING \in flags[p] THEN GARBAGE
               ELSE IF kpc = "ret" /\ p = esi THEN retval ELSE eax[p]

Life == INSTANCE ProcLife WITH
  Callers <- Slots \ 0 .. NR_TASKS - 1,
  Results <- {0, ORIG_STACK},
  None    <- GARBAGE,
  Kernel  <- -1,
  life    <- [p \in Slots |-> lifeOf(flags[p])],
  status  <- exit_status,
  answer  <- [p \in Slots |-> answerOf(p)],
  running <- IF kpc = "ret" THEN -1 ELSE p_proc_ready

(* The calls implement ProcLife: every exit status reaches one wait of the *)
(* parent, and an answer is changed by nobody before its caller runs.      *)
(* Stores into another row are seen, answers dropped on the way, and those *)
(* stored over a status that was delivered.                                *)
LifeSpec == Life!Spec

================================================================================
