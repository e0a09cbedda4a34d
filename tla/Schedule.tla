-------------------------------- MODULE Schedule --------------------------------
(***************************************************************************)
(* schedule() (kernel/proc/proc.c) statement by statement.  wait and exit  *)
(* call it with interrupts on, so the clock can tick between any two of    *)
(* its reads and writes of ticks and p_proc_ready; clock_handler calls it  *)
(* with its own interrupt masked.  The build does not optimise: every      *)
(* mention of p->ticks reads memory.                                       *)
(***************************************************************************)
EXTENDS Integers

CONSTANTS
  NR_TASKS,
  NR_PROCS,
  TASK_TICKS,     (* priority of tasks                                       *)
  USER_TICKS,     (* priority of user processes; 0 in slots never used       *)
  MaxDebt,        (* bound: how far ticks are below zero when it is called   *)
  MaxLate         (* bound: ticks of the clock during one call               *)

Slots == 0 .. NR_TASKS + NR_PROCS - 1

ASSUME ScheduleAssumption ==
  /\ NR_TASKS \in Nat \ {0}
  /\ NR_PROCS \in Nat
  /\ TASK_TICKS \in Nat \ {0}
  /\ USER_TICKS \in Nat
  /\ MaxDebt \in Nat
  /\ MaxLate \in Nat

VARIABLES
  runnable,       (* the slots with p_flags = 0                              *)
  priority,
  ticks,
  p_proc_ready,
  p,              (* the slot the loop is at                                 *)
  greatest_ticks,
  pc,             (* the statement to be executed                            *)
  late,           (* ticks of the clock since the call                       *)
  before          (* ticks when schedule() was called                        *)

table == <<runnable, priority, before>>
vars  == <<table, ticks, p_proc_ready, p, greatest_ticks, pc, late>>

(* Only user processes block, hang or are free; ticks never exceed the     *)
(* priority.                                                               *)
Init ==
  /\ runnable \in {r \in SUBSET Slots : 0 .. NR_TASKS - 1 \subseteq r}
  /\ priority \in {f \in [Slots -> {0, USER_TICKS, TASK_TICKS}] :
                     \A q \in 0 .. NR_TASKS - 1 : f[q] = TASK_TICKS}
  /\ ticks \in {f \in [Slots -> -MaxDebt .. TASK_TICKS + USER_TICKS] :
                  \A q \in Slots : f[q] <= priority[q]}
  /\ before = ticks
  /\ p_proc_ready \in Slots
  /\ p = 0
  /\ greatest_ticks = 0
  /\ pc = "compare"
  /\ late = 0

--------------------------------------------------------------------------------
(* On to the next slot, or to the end of the scan.                         *)
advance == p' = p + 1 /\ pc' = IF p + 1 \in Slots THEN "compare" ELSE "end"

(* if (p->p_flags == 0) if (p->ticks > greatest_ticks)                     *)
comparesFlagless(q) == ticks[q] > greatest_ticks                     \* mutant
comparesZero(q) == q \in runnable /\ ticks[q] > 0                    \* mutant
comparesEqual(q) == q \in runnable /\ ticks[q] >= greatest_ticks     \* mutant
compares(q) == q \in runnable /\ ticks[q] > greatest_ticks

Compare ==
  /\ pc = "compare"
  /\ IF compares(p) THEN pc' = "take" /\ UNCHANGED p ELSE advance
  /\ UNCHANGED <<table, ticks, p_proc_ready, greatest_ticks, late>>

(* greatest_ticks = p->ticks; it is read once more.                        *)
Take ==
  /\ pc = "take"
  /\ greatest_ticks' = ticks[p]
  /\ pc' = "choose"
  /\ UNCHANGED <<table, ticks, p_proc_ready, p, late>>

(* p_proc_ready = p                                                        *)
Choose ==
  /\ pc = "choose"
  /\ p_proc_ready' = p
  /\ advance
  /\ UNCHANGED <<table, ticks, greatest_ticks, late>>

(* while (!greatest_ticks), and the refill inside it.                      *)
End ==
  /\ pc = "end"
  /\ IF greatest_ticks = 0
     THEN pc' = "refill" /\ p' = 0
     ELSE pc' = "done" /\ UNCHANGED p
  /\ UNCHANGED <<table, ticks, p_proc_ready, greatest_ticks, late>>

refillNobody(q) == ticks[q]   \* mutant
refilled(q) == priority[q]

Refill ==
  /\ pc = "refill"
  /\ ticks' = [ticks EXCEPT ![p] = refilled(p)]
  /\ IF p + 1 \in Slots
     THEN p' = p + 1 /\ UNCHANGED pc
     ELSE p' = 0 /\ pc' = "compare"
  /\ UNCHANGED <<table, p_proc_ready, greatest_ticks, late>>

(* clock_handler() with k_reenter # 0.  It charges whoever p_proc_ready is *)
(* at that moment: the caller or a candidate of the scan.                  *)
NestedTick ==
  /\ pc # "done"
  /\ late < MaxLate
  /\ late' = late + 1
  /\ ticks' = [ticks EXCEPT ![p_proc_ready] = @ - 1]
  /\ UNCHANGED <<table, p_proc_ready, p, greatest_ticks, pc>>

Loop == Compare \/ Take \/ Choose \/ End \/ Refill

Next ==
  \/ Compare
  \/ Take
  \/ Choose
  \/ End
  \/ Refill
  \/ NestedTick

Spec == Init /\ [][Next]_vars

(* The kernel runs on between the ticks.                                   *)
FairSpec == Spec /\ WF_vars(Loop)

--------------------------------------------------------------------------------
TypeOK ==
  /\ runnable \subseteq Slots
  /\ priority \in [Slots -> Nat]
  /\ ticks \in [Slots -> Int]
  /\ before \in [Slots -> Int]
  /\ p_proc_ready \in Slots
  /\ p \in 0 .. NR_TASKS + NR_PROCS
  /\ pc \in {"compare", "take", "choose", "end", "refill", "done"}
  /\ pc \notin {"end", "done"} => p \in Slots
  /\ greatest_ticks \in Int
  /\ late \in 0 .. MaxLate

(* Whatever ticks come while it runs, schedule() returns with a runnable   *)
(* process, although p_proc_ready is a process that cannot run when a call *)
(* that blocks or ends its caller begins the scan.                         *)
ChosenIsRunnable == pc = "done" => p_proc_ready \in runnable

(* Nobody who can run has more ticks left than the chosen one, except by   *)
(* the ticks that came meanwhile.                                          *)
ChosenIsBest ==
  pc = "done" => \A q \in runnable : ticks[q] <= ticks[p_proc_ready] + late

flagsOf == [q \in Slots |-> IF q \in runnable THEN {} ELSE {"HANGING"}]

(* Without ticks in between, the loop computes what ProcTable takes it to  *)
(* do in one step.                                                         *)
Table == INSTANCE ProcTable WITH
  NATIVE_PROCS <- NR_PROCS,
  ExitStatus   <- {0},
  flags        <- flagsOf,
  parent       <- before,
  exit_status  <- before,
  eax          <- before,
  kpc          <- pc,
  esi          <- 0,
  retval       <- 0

OneStep ==
  [][pc = "end" /\ pc' = "done" /\ late = 0 => Table!schedule(flagsOf, before)]_vars

(* schedule() returns.                                                     *)
Returns == <>(pc = "done")

================================================================================
