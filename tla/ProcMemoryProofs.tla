---------------------------- MODULE ProcMemoryProofs ----------------------------
(***************************************************************************)
(* Proofs about ProcTable for every table size, every set of statuses and  *)
(* every choice of ticks; then, for every kernel size and memory size too, *)
(* that forked processes never share memory and that fork and exec write   *)
(* only where they should.                                                 *)
(***************************************************************************)
EXTENDS ProcMemory, TLAPS

--------------------------------------------------------------------------------
(* The inductive invariant.  A slot is in one state at a time; tasks never *)
(* block or die; the native processes are children of slot 0, a task, so   *)
(* nobody waits for them; a handler runs for the user process that         *)
(* trapped, which is still the one in p_proc_ready.                        *)
OneFlag ==
  \A p \in Slots : flags[p] \in {{}, {WAITING}, {HANGING}, {FREE_SLOT}}

TasksRun == \A p \in Slots : p < NR_TASKS => flags[p] = {}

NativeParents == \A p \in Natives : parent[p] = 0

CallerRuns == kpc \in Calls => p_proc_ready >= NR_TASKS /\ esi = p_proc_ready

IInv ==
  /\ TypeOK
  /\ OneFlag
  /\ TasksRun
  /\ NativeParents
  /\ CallerRuns
  /\ RunningIsRunnable
  /\ NativesStay
  /\ NoMissedExit

(* The three bits are different bits.                                      *)
LEMMA FlagsDiffer ==
  /\ WAITING # HANGING
  /\ WAITING # FREE_SLOT
  /\ HANGING # FREE_SLOT
  BY DEF WAITING, HANGING, FREE_SLOT

(* The slots are naturals; task slots and native slots are slots.          *)
LEMMA SlotsFacts ==
  /\ NR_TASKS \in Nat \ {0}
  /\ Slots \subseteq Nat
  /\ Natives \subseteq Slots
  /\ 0 \in Slots
  /\ 0 \in Natives
  BY ConstantsAssumption DEF Slots, Natives

(* What schedule() leaves in p_proc_ready is a runnable process, and ticks *)
(* stay integers.                                                          *)
LEMMA ScheduleChooses ==
  ASSUME NEW f, NEW t \in [Slots -> Int], TypeOK, schedule(f, t)
  PROVE  /\ p_proc_ready' \in Slots
         /\ f[p_proc_ready'] = {}
         /\ ticks' \in [Slots -> Int]
  <1>1. refill(t) \in [Slots -> Int]
    BY DEF refill, TypeOK
  <1> QED
    BY <1>1 DEF schedule, Ready

(* The initial table satisfies the invariant.                              *)
LEMMA InitIInv == Init => IInv
  <1> SUFFICES ASSUME Init PROVE IInv
    OBVIOUS
  <1> USE SlotsFacts, FlagsDiffer, ConstantsAssumption DEF Init
  <1>1. TypeOK
    BY DEF TypeOK, GARBAGE, Slots
  <1>2. OneFlag /\ TasksRun
    BY DEF OneFlag, TasksRun, Natives
  <1>3. NativeParents /\ CallerRuns
    BY DEF NativeParents, CallerRuns, Calls
  <1>4. RunningIsRunnable /\ NativesStay
    BY DEF RunningIsRunnable, NativesStay, Natives
  <1>5. NoMissedExit
    BY DEF NoMissedExit
  <1> QED
    BY <1>1, <1>2, <1>3, <1>4, <1>5 DEF IInv

--------------------------------------------------------------------------------
(* One lemma per action: it preserves the invariant.                       *)
LEMMA SysCallStep ==
  ASSUME IInv, NEW c \in Calls, SysCall(c)
  PROVE  IInv'
  <1> USE SlotsFacts DEF IInv, SysCall, save, rows
  <1>1. TypeOK'
    BY DEF TypeOK, GARBAGE
  <1>2. CallerRuns'
    BY DEF CallerRuns
  <1>3. RunningIsRunnable' /\ NativesStay' /\ NoMissedExit'
    BY DEF RunningIsRunnable, NativesStay, NoMissedExit
  <1> QED
    BY <1>1, <1>2, <1>3 DEF OneFlag, TasksRun, NativeParents

LEMMA SysReturnStep ==
  ASSUME IInv, SysReturn
  PROVE  IInv'
  <1> USE SlotsFacts DEF IInv, SysReturn, rows
  <1>1. TypeOK'
    BY DEF TypeOK
  <1>2. CallerRuns'
    BY DEF CallerRuns, Calls
  <1>3. RunningIsRunnable' /\ NativesStay' /\ NoMissedExit'
    BY DEF RunningIsRunnable, NativesStay, NoMissedExit
  <1> QED
    BY <1>1, <1>2, <1>3 DEF OneFlag, TasksRun, NativeParents

(* The slot fork takes is free, so it is no native one, and its new parent *)
(* runs, so it waits for nobody.                                           *)
LEMMA ForkStep ==
  ASSUME IInv, Fork
  PROVE  IInv'
  <1> USE SlotsFacts, FlagsDiffer DEF IInv
  <1>1. CASE FreeSlots = {} /\ Return(-1) /\ UNCHANGED <<flags, ticks, eax, rows, p_proc_ready>>
    <2>1. TypeOK'
      BY <1>1 DEF TypeOK, Return, rows, Calls
    <2>2. CallerRuns'
      BY <1>1 DEF CallerRuns, Return, Calls
    <2> QED
      BY <1>1, <2>1, <2>2
      DEF rows, OneFlag, TasksRun, NativeParents, RunningIsRunnable,
          NativesStay, NoMissedExit
  <1>2. CASE ~(FreeSlots = {} /\ Return(-1) /\ UNCHANGED <<flags, ticks, eax, rows, p_proc_ready>>)
    <2>1. PICK c \in FreeSlots :
            /\ flags' = [flags EXCEPT ![c] = flags[p_proc_ready]]
            /\ parent' = [parent EXCEPT ![c] = p_proc_ready]
            /\ ticks' = [ticks EXCEPT ![c] = ticks[p_proc_ready]]
            /\ priority' = [priority EXCEPT ![c] = priority[p_proc_ready]]
            /\ exit_status' = [exit_status EXCEPT ![c] = exit_status[p_proc_ready]]
            /\ eax' = [eax EXCEPT ![c] = 0]
            /\ p_proc_ready' = c
            /\ Return(c)
      BY <1>2 DEF Fork
    <2>2. c \in Slots /\ flags[c] = {FREE_SLOT} /\ c \notin Natives
      BY DEF FreeSlots, NativesStay
    <2>3. p_proc_ready \in Slots /\ flags[p_proc_ready] = {}
      BY DEF TypeOK, RunningIsRunnable
    <2>4. TypeOK'
      BY <2>1, <2>2, <2>3 DEF TypeOK, Return
    <2>5. OneFlag' /\ TasksRun'
      BY <2>1, <2>2, <2>3 DEF OneFlag, TasksRun, TypeOK
    <2>6. NativeParents' /\ CallerRuns'
      BY <2>1, <2>2 DEF NativeParents, CallerRuns, Return, Calls, TypeOK
    <2>7. RunningIsRunnable' /\ NativesStay'
      BY <2>1, <2>2, <2>3 DEF RunningIsRunnable, NativesStay, TypeOK
    <2>8. NoMissedExit'
      BY <2>1, <2>2, <2>3 DEF NoMissedExit, TypeOK
    <2> QED
      BY <2>4, <2>5, <2>6, <2>7, <2>8
  <1> QED
    BY <1>1, <1>2

(* wait frees a hanging child of a user process, or blocks a caller none   *)
(* of whose children hangs.                                                *)
LEMMA WaitStep ==
  ASSUME IInv, Wait
  PROVE  IInv'
  <1> USE SlotsFacts, FlagsDiffer DEF IInv
  <1>0. /\ p_proc_ready \in Slots
        /\ p_proc_ready >= NR_TASKS
        /\ flags[p_proc_ready] = {}
        /\ UNCHANGED <<eax, parent, priority, exit_status, esi>>
        /\ kpc' = "ret" /\ kpc' \notin Calls
    BY DEF Wait, Return, rows, CallerRuns, RunningIsRunnable, TypeOK, Calls
  <1>1. ASSUME NEW c \in Zombies(p_proc_ready),
               flags' = [flags EXCEPT ![c] = {FREE_SLOT}],
               Return(exit_status[c]),
               UNCHANGED <<ticks, p_proc_ready>>
        PROVE  IInv'
    <2>1. c \in Slots /\ parent[c] = p_proc_ready /\ HANGING \in flags[c]
      BY DEF Zombies, Children
    <2>2. c \notin Natives /\ c >= NR_TASKS /\ c # p_proc_ready
      <3>1. 0 < NR_TASKS /\ c # p_proc_ready
        BY <1>0, <2>1
      <3>2. c \notin Natives
        BY <1>0, <2>1, <3>1 DEF NativeParents
      <3> QED
        BY <2>1, <3>1, <3>2 DEF TasksRun
    <2>3. TypeOK'
      BY <1>0, <1>1, <2>1 DEF TypeOK, Return
    <2>4. OneFlag' /\ TasksRun'
      BY <1>1, <2>1, <2>2 DEF OneFlag, TasksRun, TypeOK
    <2>5. NativeParents' /\ CallerRuns'
      BY <1>0 DEF NativeParents, CallerRuns
    <2>6. RunningIsRunnable' /\ NativesStay'
      BY <1>0, <1>1, <2>1, <2>2 DEF RunningIsRunnable, NativesStay, TypeOK
    <2>7. NoMissedExit'
      BY <1>0, <1>1, <2>1 DEF NoMissedExit, TypeOK
    <2> QED
      BY <2>3, <2>4, <2>5, <2>6, <2>7
  <1>2. ASSUME Zombies(p_proc_ready) = {},
               flags' = IF Children(p_proc_ready) = {} THEN flags
                        ELSE [flags EXCEPT ![p_proc_ready] = @ \cup {WAITING}],
               schedule(flags', ticks),
               Return(0)
        PROVE  IInv'
    <2>0. /\ flags' \in [Slots -> SUBSET {WAITING, HANGING, FREE_SLOT}]
          /\ flags'[p_proc_ready] \in {{}, {WAITING}}
          /\ \A p \in Slots : p # p_proc_ready => flags'[p] = flags[p]
      BY <1>0, <1>2 DEF TypeOK
    <2>1. /\ p_proc_ready' \in Slots
          /\ flags'[p_proc_ready'] = {}
          /\ ticks' \in [Slots -> Int]
      BY <1>2, ScheduleChooses DEF TypeOK
    <2>2. TypeOK'
      BY <1>0, <1>2, <2>0, <2>1 DEF TypeOK, Return
    <2>3. OneFlag' /\ TasksRun'
      <3>1. ASSUME NEW q \in Slots
            PROVE  /\ flags'[q] \in {{}, {WAITING}, {HANGING}, {FREE_SLOT}}
                   /\ q < NR_TASKS => flags'[q] = {}
        <4>1. CASE q = p_proc_ready
          <5>1. flags'[q] \in {{}, {WAITING}}
            BY <2>0, <4>1
          <5>2. ~(q < NR_TASKS)
            BY <1>0, <4>1
          <5> QED
            BY <5>1, <5>2
        <4>2. CASE q # p_proc_ready
          BY <1>0, <2>0, <4>2 DEF OneFlag, TasksRun
        <4> QED
          BY <4>1, <4>2
      <3> QED
        BY <3>1 DEF OneFlag, TasksRun
    <2>4. NativeParents' /\ CallerRuns'
      BY <1>0 DEF NativeParents, CallerRuns
    <2>5. RunningIsRunnable' /\ NativesStay'
      BY <1>0, <2>0, <2>1 DEF RunningIsRunnable, NativesStay
    <2>6. \A q \in Slots : parent[q] = p_proc_ready => HANGING \notin flags[q]
      BY <1>2 DEF Zombies, Children
    <2>7. NoMissedExit'
      BY <1>0, <2>0, <2>6 DEF NoMissedExit
    <2> QED
      BY <2>2, <2>3, <2>4, <2>5, <2>7
  <1> QED
    BY <1>1, <1>2 DEF Wait

(* exit frees the caller or leaves it hanging; it never hangs while its    *)
(* parent waits, and a parent that is woken waits no longer.               *)
LEMMA ExitStep ==
  ASSUME IInv, Exit
  PROVE  IInv'
  <1> DEFINE pid == p_proc_ready
             pp  == parent[p_proc_ready]
  <1> USE SlotsFacts, FlagsDiffer DEF IInv
  <1>1. /\ pid \in Slots /\ pp \in Slots
        /\ pid >= NR_TASKS
        /\ flags[pid] = {}
        /\ UNCHANGED <<parent, priority>>
        /\ Return(GARBAGE)
        /\ kpc' \notin Calls
    BY DEF Exit, Return, CallerRuns, RunningIsRunnable, TypeOK, Calls
  <1>2. PICK status \in ExitStatus :
          /\ exit_status' = [exit_status EXCEPT ![pid] = status]
          /\ IF Waits(pp)
             THEN /\ flags' = [flags EXCEPT ![pp] = @ \ {WAITING},
                                            ![pid] = {FREE_SLOT}]
                  /\ eax' = [eax EXCEPT ![pp] = status]
             ELSE /\ flags' = [flags EXCEPT ![pid] = @ \cup {HANGING}]
                  /\ UNCHANGED eax
    BY DEF Exit
  <1>3. status \in Int
    BY ConstantsAssumption
  <1>4. flags' \in [Slots -> SUBSET {WAITING, HANGING, FREE_SLOT}]
    BY <1>1, <1>2 DEF TypeOK
  <1>5. /\ p_proc_ready' \in Slots
        /\ flags'[p_proc_ready'] = {}
        /\ ticks' \in [Slots -> Int]
    <2>1. schedule(flags', ticks)
      BY DEF Exit
    <2> QED
      BY <2>1, ScheduleChooses DEF TypeOK
  <1>6. TypeOK'
    BY <1>1, <1>2, <1>3, <1>4, <1>5 DEF TypeOK, Return, GARBAGE
  <1>7. NativeParents' /\ CallerRuns' /\ RunningIsRunnable'
    BY <1>1, <1>5 DEF NativeParents, CallerRuns, RunningIsRunnable
  <1>8. CASE Waits(pp)
    <2>1. /\ pp # pid
          /\ flags[pp] = {WAITING}
      BY <1>1, <1>8 DEF Waits, OneFlag
    <2>2. /\ flags'[pp] = {}
          /\ flags'[pid] = {FREE_SLOT}
          /\ \A q \in Slots : q # pp /\ q # pid => flags'[q] = flags[q]
      BY <1>1, <1>2, <1>8, <2>1 DEF TypeOK
    <2>3. pid \notin Natives
      <3>1. 0 < NR_TASKS /\ flags[0] = {}
        BY DEF TasksRun
      <3>2. WAITING \in flags[parent[pid]]
        BY <1>8 DEF Waits
      <3> QED
        BY <3>1, <3>2 DEF NativeParents
    <2>4. OneFlag'
      BY <2>2 DEF OneFlag
    <2>5. TasksRun'
      BY <1>1, <2>2 DEF TasksRun
    <2>6. NativesStay'
      BY <2>2, <2>3 DEF NativesStay
    <2>7. NoMissedExit'
      BY <1>1, <2>1, <2>2 DEF NoMissedExit
    <2> QED
      BY <1>6, <1>7, <2>4, <2>5, <2>6, <2>7
  <1>9. CASE ~Waits(pp)
    <2>1. /\ flags'[pid] = {HANGING}
          /\ \A q \in Slots : q # pid => flags'[q] = flags[q]
      BY <1>1, <1>2, <1>9 DEF TypeOK
    <2>2. OneFlag' /\ TasksRun' /\ NativesStay'
      BY <1>1, <2>1 DEF OneFlag, TasksRun, NativesStay
    <2>3. NoMissedExit'
      BY <1>1, <1>9, <2>1 DEF NoMissedExit, Waits
    <2> QED
      BY <1>6, <1>7, <2>2, <2>3
  <1> QED
    BY <1>8, <1>9

LEMMA ExecStep ==
  ASSUME IInv, Exec
  PROVE  IInv'
  <1> USE SlotsFacts DEF IInv, Exec, Return, rows
  <1>1. TypeOK'
    BY DEF TypeOK, ORIG_STACK
  <1>2. CallerRuns'
    BY DEF CallerRuns, Calls
  <1> QED
    BY <1>1, <1>2
    DEF OneFlag, TasksRun, NativeParents, RunningIsRunnable, NativesStay,
        NoMissedExit

LEMMA OtherStep ==
  ASSUME IInv, Other
  PROVE  IInv'
  <1> USE SlotsFacts DEF IInv, Other, Return, rows
  <1>1. TypeOK'
    BY DEF TypeOK
  <1>2. CallerRuns'
    BY DEF CallerRuns, Calls
  <1> QED
    BY <1>1, <1>2
    DEF OneFlag, TasksRun, NativeParents, RunningIsRunnable, NativesStay,
        NoMissedExit

(* The clock changes ticks and, from user mode, the running process.       *)
LEMMA ClockTickStep ==
  ASSUME IInv, ClockTick
  PROVE  IInv'
  <1> USE SlotsFacts DEF IInv
  <1> DEFINE t == [ticks EXCEPT ![p_proc_ready] = @ - 1]
  <1>1. /\ UNCHANGED <<flags, parent, priority, exit_status, kpc, esi, retval>>
        /\ kpc' \notin Calls
        /\ save
        /\ t \in [Slots -> Int]
    BY DEF ClockTick, rows, TypeOK, Calls
  <1>2. /\ p_proc_ready' \in Slots
        /\ flags[p_proc_ready'] = {}
        /\ ticks' \in [Slots -> Int]
    <2>1. CASE t[p_proc_ready] > 0
      BY <1>1, <2>1 DEF ClockTick, TypeOK, RunningIsRunnable
    <2>2. CASE ~(t[p_proc_ready] > 0)
      <3>1. schedule(flags, t)
        BY <2>2 DEF ClockTick
      <3> HIDE DEF t
      <3> QED
        BY <1>1, <3>1, ScheduleChooses
    <2> QED
      BY <2>1, <2>2
  <1>3. eax' \in [Slots -> Int]
    BY <1>1 DEF TypeOK, save, GARBAGE
  <1> HIDE DEF t
  <1>4. TypeOK'
    BY <1>1, <1>2, <1>3 DEF TypeOK
  <1> QED
    BY <1>1, <1>2, <1>4
    DEF OneFlag, TasksRun, NativeParents, CallerRuns, RunningIsRunnable,
        NativesStay, NoMissedExit

LEMMA NestedTickStep ==
  ASSUME IInv, NestedTick
  PROVE  IInv'
  <1> USE SlotsFacts DEF IInv, NestedTick, rows
  <1>1. TypeOK'
    BY DEF TypeOK
  <1> QED
    BY <1>1
    DEF OneFlag, TasksRun, NativeParents, CallerRuns, RunningIsRunnable,
        NativesStay, NoMissedExit

--------------------------------------------------------------------------------
LEMMA NextIInv == IInv /\ [Next]_vars => IInv'
  <1>1. ASSUME IInv, UNCHANGED vars PROVE IInv'
    BY <1>1
    DEF vars, rows, IInv, TypeOK, OneFlag, TasksRun, NativeParents, CallerRuns,
        RunningIsRunnable, NativesStay, NoMissedExit
  <1> QED
    BY <1>1, SysCallStep, SysReturnStep, ForkStep, WaitStep, ExitStep, ExecStep,
       OtherStep, ClockTickStep, NestedTickStep
    DEF Next

(* The inductive invariant holds in every state of every behaviour.        *)
THEOREM Invariance == Spec => []IInv
  BY InitIInv, NextIInv, PTL DEF Spec

(* Every variable keeps its type.                                          *)
THEOREM TypeCorrect == Spec => []TypeOK
  BY Invariance, PTL DEF IInv

(* restart only ever resumes a process that can run.                       *)
THEOREM ResumesRunnable == Spec => []RunningIsRunnable
  BY Invariance, PTL DEF IInv

(* No parent is blocked in wait beside a child that has already exited.    *)
THEOREM ExitsNotMissed == Spec => []NoMissedExit
  BY Invariance, PTL DEF IInv

(* sys_fork never takes the slot of a native process.                      *)
THEOREM NativeSlotsStay == Spec => []NativesStay
  BY Invariance, PTL DEF IInv

--------------------------------------------------------------------------------
(* The refinement.  What ProcLife calls life, answer and running, by name. *)
lifeMap   == [p \in Slots |-> lifeOf(flags[p])]
answerMap == [p \in Slots |-> answerOf(p)]
runMap    == IF kpc = "ret" THEN -1 ELSE p_proc_ready
Callers   == Slots \ 0 .. NR_TASKS - 1

(* The process whose call is served has taken its last answer: the trap    *)
(* has put the program's own eax into its row.                             *)
Blank == kpc \in Calls => eax[p_proc_ready] = GARBAGE

(* Nobody but a live process has an answer: what an exiting process leaves *)
(* in its row is none.                                                     *)
Silent == \A p \in Slots : flags[p] # {} => answerOf(p) = GARBAGE

LInv == IInv /\ Blank /\ Silent

LEMMA InitLInv == Init => LInv
  BY InitIInv DEF Init, LInv, Blank, Silent, answerOf, Calls

(* From user mode, a process that goes on loses its answer, as it should.  *)
LEMMA UserLInv ==
  ASSUME IInv, Blank, Silent, kpc = "user", save, kpc' # "ret",
         kpc' \in Calls => p_proc_ready' = p_proc_ready, UNCHANGED flags
  PROVE  Blank' /\ Silent'
  <1>1. p_proc_ready \in Slots /\ eax \in [Slots -> Int]
    BY DEF IInv, TypeOK
  <1>2. Blank'
    BY <1>1 DEF Blank, save
  <1>3. ASSUME NEW p \in Slots, flags[p] # {}
        PROVE  answerOf(p)' = GARBAGE
    <2>1. WAITING \in flags[p] \/ eax[p] = GARBAGE
      BY <1>3 DEF Silent, answerOf
    <2> QED
      BY <1>1, <2>1 DEF save, answerOf
  <1> QED
    BY <1>2, <1>3 DEF Silent


LEMMA LifeOf ==
  /\ lifeOf({}) = "live"
  /\ lifeOf({WAITING}) = "blocked"
  /\ lifeOf({HANGING}) = "zombie"
  /\ lifeOf({FREE_SLOT}) = "free"
  BY FlagsDiffer DEF lifeOf

(* Under the invariant the four lives are the four values of p_flags.      *)
LEMMA LifeMeans ==
  ASSUME IInv, NEW p \in Slots
  PROVE  /\ lifeMap[p] = "live" <=> flags[p] = {}
         /\ lifeMap[p] = "blocked" <=> WAITING \in flags[p]
         /\ lifeMap[p] = "zombie" <=> HANGING \in flags[p]
         /\ lifeMap[p] = "free" <=> flags[p] = {FREE_SLOT}
  <1>1. flags[p] \in {{}, {WAITING}, {HANGING}, {FREE_SLOT}}
    BY DEF IInv, OneFlag
  <1>2. lifeMap[p] = lifeOf(flags[p])
    BY DEF lifeMap
  <1> QED
    BY <1>1, <1>2, LifeOf, FlagsDiffer

(* What a handler knows: its caller runs, and the answers are in the rows. *)
LEMMA InHandler ==
  ASSUME IInv, Blank, kpc \in Calls
  PROVE  /\ p_proc_ready \in Slots /\ p_proc_ready \in Callers
         /\ flags[p_proc_ready] = {} /\ lifeMap[p_proc_ready] = "live"
         /\ esi = p_proc_ready /\ runMap = p_proc_ready
         /\ answerMap = [p \in Slots |-> IF WAITING \in flags[p] THEN GARBAGE ELSE eax[p]]
         /\ answerMap[p_proc_ready] = GARBAGE
         /\ flags \in [Slots -> SUBSET {WAITING, HANGING, FREE_SLOT}]
         /\ eax \in [Slots -> Int]
  <1>1. /\ p_proc_ready \in Slots /\ flags[p_proc_ready] = {}
        /\ esi = p_proc_ready /\ p_proc_ready >= NR_TASKS /\ kpc # "ret"
        /\ flags \in [Slots -> SUBSET {WAITING, HANGING, FREE_SLOT}]
        /\ eax \in [Slots -> Int]
    BY DEF IInv, TypeOK, RunningIsRunnable, CallerRuns, Calls
  <1>2. p_proc_ready \in Callers
    BY <1>1, SlotsFacts DEF Callers
  <1>3. lifeMap[p_proc_ready] = "live"
    BY <1>1, LifeMeans
  <1>4. answerMap = [p \in Slots |-> IF WAITING \in flags[p] THEN GARBAGE ELSE eax[p]]
    BY <1>1 DEF answerMap, answerOf
  <1> QED
    BY <1>1, <1>2, <1>3, <1>4 DEF Blank, runMap

LEMMA InitLife == Init => Life!Init
  <1> SUFFICES ASSUME Init PROVE Life!Init
    OBVIOUS
  <1>1. lifeMap = [p \in Slots |-> IF p \in Natives THEN "live" ELSE "free"]
    BY LifeOf DEF Init, lifeMap
  <1>2. answerMap = [p \in Slots |-> GARBAGE]
    BY DEF Init, answerMap, answerOf
  <1>3. runMap \in Natives
    BY SlotsFacts DEF Init, runMap
  <1> QED
    BY <1>1, <1>2, <1>3 DEF Init, Life!Init, lifeMap, answerMap, runMap

(* A process that goes on, from user mode, is a step of ProcLife.          *)
LEMMA GoOnLife ==
  ASSUME IInv, NEW q, q = p_proc_ready, kpc = "user", save, kpc' # "ret",
         UNCHANGED <<flags, rows>>,
         p_proc_ready' \in Slots, flags[p_proc_ready'] = {}
  PROVE  Life!GoOn(q)
  <1>1. p_proc_ready \in Slots /\ flags[p_proc_ready] = {}
    BY DEF IInv, TypeOK, RunningIsRunnable
  <1>2. answerMap' = [answerMap EXCEPT ![q] = GARBAGE]
    BY <1>1 DEF save, answerMap, answerOf, IInv, TypeOK
  <1>3. lifeMap' = lifeMap
    BY DEF lifeMap
  <1>4. runMap = q /\ runMap' = p_proc_ready'
    BY DEF runMap
  <1>5. lifeMap[p_proc_ready'] = "live"
    BY LifeOf DEF lifeMap
  <1> QED
    BY <1>2, <1>3, <1>4, <1>5 DEF Life!GoOn, lifeMap, answerMap, runMap, rows

(* The return of a call resumes a process that can run, and the answers    *)
(* are what they were.                                                     *)
LEMMA ResumeLife ==
  ASSUME IInv, NEW q, q = p_proc_ready, SysReturn
  PROVE  Life!Resume(q)
  <1>1. /\ runMap = -1 /\ runMap' = q
        /\ UNCHANGED <<flags, parent, exit_status>>
    BY DEF SysReturn, runMap, rows
  <1>2. lifeMap[q] = "live" /\ lifeMap' = lifeMap
    BY <1>1, LifeMeans DEF lifeMap, IInv, TypeOK, RunningIsRunnable
  <1>3. answerMap' = answerMap
    BY <1>1 DEF SysReturn, answerMap, answerOf, IInv, TypeOK
  <1> QED
    BY <1>1, <1>2, <1>3 DEF Life!Resume, lifeMap, answerMap, runMap

(* Every handler is a call of the process that runs, and the processor is  *)
(* the kernel's until its return.                                          *)
LEMMA CallsLife ==
  ASSUME IInv, Blank, kpc \in Calls, kpc' = "ret"
  PROVE  Life!Calls(p_proc_ready)
  <1>1. runMap' = -1
    BY DEF runMap
  <1> QED
    BY <1>1, InHandler DEF Life!Calls, lifeMap, answerMap, runMap

(* What the table and the answers are after a handler that returned v.     *)
LEMMA AfterHandler ==
  ASSUME IInv, Blank, kpc \in Calls, NEW v, Return(v)
  PROVE  /\ kpc' = "ret"
         /\ answerMap' = [p \in Slots |-> IF WAITING \in flags'[p] THEN GARBAGE
                                          ELSE IF p = p_proc_ready THEN v ELSE eax'[p]]
  BY InHandler DEF Return, answerMap, answerOf

LEMMA ForkLife ==
  ASSUME IInv, Blank, NEW q, q = p_proc_ready, Fork
  PROVE  Life!Fork(q)
  <1>1. kpc \in Calls
    BY DEF Fork, Calls
  <1>2. CASE FreeSlots = {} /\ Return(-1) /\ UNCHANGED <<flags, ticks, eax, rows, p_proc_ready>>
    <2>1. \A c \in Slots : lifeMap[c] # "free"
      BY <1>2, LifeMeans DEF FreeSlots
    <2>2. kpc' = "ret" /\ answerMap' = [answerMap EXCEPT ![q] = -1]
      BY <1>1, <1>2, InHandler, AfterHandler
    <2>3. lifeMap' = lifeMap
      BY <1>2 DEF lifeMap
    <2>4. Life!Calls(q)
      BY <1>1, <2>2, CallsLife
    <2> QED
      BY <1>2, <2>1, <2>2, <2>3, <2>4 DEF Life!Fork, lifeMap, answerMap, rows
  <1>3. CASE ~(FreeSlots = {} /\ Return(-1) /\ UNCHANGED <<flags, ticks, eax, rows, p_proc_ready>>)
    <2>1. PICK c \in FreeSlots :
            /\ flags' = [flags EXCEPT ![c] = flags[q]]
            /\ parent' = [parent EXCEPT ![c] = q]
            /\ exit_status' = [exit_status EXCEPT ![c] = exit_status[q]]
            /\ eax' = [eax EXCEPT ![c] = 0]
            /\ Return(c)
      BY <1>3 DEF Fork
    <2>2. c \in Slots /\ lifeMap[c] = "free" /\ c # q /\ q \in Slots /\ flags[q] = {}
      BY <1>1, <2>1, LifeMeans, InHandler DEF FreeSlots
    <2>3. lifeMap' = [lifeMap EXCEPT ![c] = "live"]
      BY <1>1, <2>1, <2>2, LifeOf, InHandler DEF lifeMap
    <2>4. kpc' = "ret" /\ answerMap' = [answerMap EXCEPT ![c] = 0, ![q] = c]
      BY <1>1, <2>1, <2>2, InHandler, AfterHandler
    <2>5. Life!Calls(q)
      BY <1>1, <2>4, CallsLife
    <2> QED
      BY <2>1, <2>2, <2>3, <2>4, <2>5 DEF Life!Fork, lifeMap, answerMap
  <1> QED
    BY <1>2, <1>3

(* The zombies of ProcLife are those of the table.                         *)
LEMMA SameFamily ==
  ASSUME IInv, NEW p \in Slots
  PROVE  /\ Life!Children(p) = Children(p)
         /\ Life!Zombies(p) = Zombies(p)
  BY LifeMeans DEF Life!Children, Life!Zombies, Children, Zombies, lifeMap

LEMMA WaitLife ==
  ASSUME IInv, Blank, NEW q, q = p_proc_ready, Wait
  PROVE  Life!Wait(q)
  <1>1. /\ kpc \in Calls /\ kpc' = "ret"
        /\ UNCHANGED <<eax, parent, exit_status>>
    BY DEF Wait, Return, Calls, rows
  <1>2. /\ q \in Slots /\ flags[q] = {} /\ Life!Calls(q)
        /\ Life!Zombies(q) = Zombies(q) /\ Life!Children(q) = Children(q)
    BY <1>1, InHandler, CallsLife, SameFamily
  <1>3. ASSUME NEW c \in Zombies(q), flags' = [flags EXCEPT ![c] = {FREE_SLOT}],
               Return(exit_status[c])
        PROVE  Life!Wait(q)
    <2>1. c \in Slots /\ flags[c] = {HANGING} /\ c # q
      BY <1>2, <1>3, FlagsDiffer DEF Zombies, Children, IInv, OneFlag
    <2>2. lifeMap' = [lifeMap EXCEPT ![c] = "free"]
      BY <1>1, <1>3, <2>1, LifeOf, InHandler DEF lifeMap
    <2>3. answerMap' = [answerMap EXCEPT ![q] = exit_status[c]]
      BY <1>1, <1>2, <1>3, <2>1, InHandler, AfterHandler, FlagsDiffer
    <2> QED
      BY <1>1, <1>2, <1>3, <2>2, <2>3 DEF Life!Wait, lifeMap, answerMap
  <1>4. ASSUME Zombies(q) = {}, Children(q) = {}, flags' = flags, Return(0)
        PROVE  Life!Wait(q)
    <2>1. lifeMap' = lifeMap
      BY <1>4 DEF lifeMap
    <2>2. answerMap' = [answerMap EXCEPT ![q] = 0]
      BY <1>1, <1>2, <1>4, InHandler, AfterHandler
    <2> QED
      BY <1>1, <1>2, <1>4, <2>1, <2>2 DEF Life!Wait, lifeMap, answerMap
  <1>5. ASSUME Zombies(q) = {}, Children(q) # {},
               flags' = [flags EXCEPT ![q] = @ \cup {WAITING}], Return(0)
        PROVE  Life!Wait(q)
    <2>1. flags' = [flags EXCEPT ![q] = {WAITING}]
      BY <1>2, <1>5
    <2>2. lifeMap' = [lifeMap EXCEPT ![q] = "blocked"]
      BY <1>1, <1>2, <2>1, LifeOf, InHandler DEF lifeMap
    <2>3. answerMap' = answerMap
      BY <1>1, <1>2, <1>5, <2>1, InHandler, AfterHandler
    <2> QED
      BY <1>1, <1>2, <1>5, <2>2, <2>3 DEF Life!Wait, lifeMap, answerMap
  <1> QED
    BY <1>3, <1>4, <1>5 DEF Wait

LEMMA ExitLife ==
  ASSUME IInv, Blank, NEW q, q = p_proc_ready, Exit
  PROVE  Life!Exit(q)
  <1> DEFINE pp == parent[q]
  <1>1. /\ kpc \in Calls /\ Return(GARBAGE) /\ kpc' = "ret"
        /\ UNCHANGED parent
    BY DEF Exit, Return, Calls
  <1>2. /\ q \in Slots /\ flags[q] = {} /\ Life!Calls(q) /\ pp \in Slots
    BY <1>1, InHandler, CallsLife DEF IInv, TypeOK
  <1>3. PICK s \in ExitStatus :
          /\ exit_status' = [exit_status EXCEPT ![q] = s]
          /\ IF Waits(pp)
             THEN /\ flags' = [flags EXCEPT ![pp] = @ \ {WAITING},
                                            ![q] = {FREE_SLOT}]
                  /\ eax' = [eax EXCEPT ![pp] = s]
             ELSE /\ flags' = [flags EXCEPT ![q] = @ \cup {HANGING}]
                  /\ UNCHANGED eax
    BY DEF Exit
  <1>4. Waits(pp) <=> lifeMap[pp] = "blocked"
    BY <1>2, LifeMeans DEF Waits
  <1>5. CASE Waits(pp)
    <2>1. pp # q /\ flags[pp] = {WAITING} /\ flags[pp] \ {WAITING} = {}
      BY <1>2, <1>5, FlagsDiffer DEF Waits, IInv, OneFlag
    <2>2. flags' = [flags EXCEPT ![pp] = {}, ![q] = {FREE_SLOT}]
      BY <1>3, <1>5, <2>1
    <2>3. lifeMap' = [lifeMap EXCEPT ![pp] = "live", ![q] = "free"]
      BY <1>1, <1>2, <2>1, <2>2, LifeOf, InHandler DEF lifeMap
    <2>4. answerMap' = [answerMap EXCEPT ![pp] = s]
      <3>1. answerMap[q] = GARBAGE
        BY <1>1, InHandler
      <3> QED
        BY <1>1, <1>2, <1>3, <1>5, <2>1, <2>2, <3>1, InHandler, AfterHandler, FlagsDiffer
    <2> QED
      BY <1>1, <1>2, <1>3, <1>4, <1>5, <2>3, <2>4 DEF Life!Exit, lifeMap, answerMap
  <1>6. CASE ~Waits(pp)
    <2>1. flags' = [flags EXCEPT ![q] = {HANGING}]
      BY <1>2, <1>3, <1>6
    <2>2. lifeMap' = [lifeMap EXCEPT ![q] = "zombie"]
      BY <1>1, <1>2, <2>1, LifeOf, InHandler DEF lifeMap
    <2>3. answerMap' = answerMap
      <3>1. answerMap[q] = GARBAGE
        BY <1>1, InHandler
      <3> QED
        BY <1>1, <1>2, <1>3, <1>6, <2>1, <3>1, InHandler, AfterHandler, FlagsDiffer
    <2> QED
      BY <1>1, <1>2, <1>3, <1>4, <1>6, <2>2, <2>3 DEF Life!Exit, lifeMap, answerMap
  <1> QED
    BY <1>5, <1>6

LEMMA AnswerLife ==
  ASSUME IInv, Blank, NEW q, q = p_proc_ready, Exec \/ Other
  PROVE  Life!Answer(q)
  <1>1. /\ kpc \in Calls /\ kpc' = "ret"
        /\ UNCHANGED <<flags, parent, exit_status>>
    BY DEF Exec, Other, Return, Calls, rows
  <1>2. q \in Slots /\ flags[q] = {} /\ Life!Calls(q)
    BY <1>1, InHandler, CallsLife
  <1>3. PICK r \in {0, ORIG_STACK} : answerMap' = [answerMap EXCEPT ![q] = r]
    <2>1. CASE Exec
      <3>1. Return(ORIG_STACK) /\ eax' = [eax EXCEPT ![q] = ORIG_STACK]
        BY <2>1 DEF Exec
      <3>2. answerMap' = [answerMap EXCEPT ![q] = ORIG_STACK]
        BY <1>1, <1>2, <3>1, InHandler, AfterHandler
      <3> QED
        BY <3>2
    <2>2. CASE Other
      <3>1. Return(0) /\ UNCHANGED eax
        BY <2>2 DEF Other
      <3>2. answerMap' = [answerMap EXCEPT ![q] = 0]
        BY <1>1, <1>2, <3>1, InHandler, AfterHandler
      <3> QED
        BY <3>2
    <2> QED
      BY <2>1, <2>2
  <1>4. lifeMap' = lifeMap
    BY <1>1 DEF lifeMap
  <1> QED
    BY <1>1, <1>2, <1>3, <1>4 DEF Life!Answer, lifeMap, answerMap

(* A nested tick does not show.                                            *)
LEMMA Stutters ==
  ASSUME IInv, NestedTick \/ UNCHANGED vars
  PROVE  UNCHANGED Life!vars
  <1>1. UNCHANGED <<flags, eax, parent, exit_status, p_proc_ready, kpc, esi, retval>>
    BY DEF NestedTick, vars, rows
  <1> QED
    BY <1>1 DEF Life!vars, answerOf

(* A handler is one call of ProcLife.                                      *)
Handled(q) == Life!Fork(q) \/ Life!Wait(q) \/ Life!Exit(q) \/ Life!Answer(q)

LEMMA HandlerLife ==
  ASSUME IInv, Blank, Handler
  PROVE  Handled(p_proc_ready) /\ kpc \in Calls /\ kpc' = "ret"
  <1>1. kpc \in Calls /\ kpc' = "ret"
    BY DEF Handler, Fork, Wait, Exit, Exec, Other, Return, Calls
  <1> QED
    BY <1>1, ForkLife, WaitLife, ExitLife, AnswerLife DEF Handler, Handled

(* In terms of ProcLife: only the living have answers.                     *)
LEMMA SilentMeans ==
  ASSUME IInv
  PROVE  Silent <=> \A p \in Slots : lifeMap[p] # "live" => answerMap[p] = GARBAGE
  BY LifeMeans DEF Silent, answerMap

(* A handler changes the answers of its caller, of a free slot it makes a  *)
(* process of, and of a blocked parent: none of them had one.              *)
LEMMA HandlerAnswers ==
  ASSUME IInv, Blank, Silent, Handler, NEW p \in Slots
  PROVE  /\ answerMap[p] # GARBAGE => answerMap'[p] = answerMap[p]
         /\ lifeMap'[p] # "live" => answerMap'[p] = GARBAGE
  <1> DEFINE q == p_proc_ready
  <1>1. /\ Handled(q) /\ q \in Slots
        /\ lifeMap[q] = "live" /\ answerMap[q] = GARBAGE
    BY HandlerLife, InHandler
  <1>2. \A r \in Slots : lifeMap[r] # "live" => answerMap[r] = GARBAGE
    BY SilentMeans
  <1>3. answerMap = [r \in Slots |-> answerMap[r]] /\ lifeMap = [r \in Slots |-> lifeMap[r]]
    BY DEF answerMap, lifeMap
  <1>4. parent \in [Slots -> Slots]
    BY DEF IInv, TypeOK
  <1> HIDE DEF q
  <1>5. CASE Life!Fork(q)
    BY <1>1, <1>2, <1>3, <1>5 DEF Life!Fork, lifeMap, answerMap
  <1>6. CASE Life!Wait(q)
    BY <1>1, <1>2, <1>3, <1>6 DEF Life!Wait, Life!Zombies, Life!Children, lifeMap, answerMap
  <1>7. CASE Life!Exit(q)
    <2>1. PICK s \in ExitStatus :
            IF lifeMap[parent[q]] = "blocked"
            THEN /\ lifeMap' = [lifeMap EXCEPT ![parent[q]] = "live", ![q] = "free"]
                 /\ answerMap' = [answerMap EXCEPT ![parent[q]] = s]
            ELSE /\ lifeMap' = [lifeMap EXCEPT ![q] = "zombie"]
                 /\ answerMap' = answerMap
      BY <1>7 DEF Life!Exit, lifeMap, answerMap
    <2>2. parent[q] \in Slots
      BY <1>1, <1>4
    <2> QED
      BY <1>1, <1>2, <1>3, <2>1, <2>2
  <1>8. CASE Life!Answer(q)
    BY <1>1, <1>2, <1>3, <1>8 DEF Life!Answer, lifeMap, answerMap
  <1> QED
    BY <1>1, <1>5, <1>6, <1>7, <1>8 DEF Handled

(* What the kernel and the programs do from user mode.                     *)
LEMMA FromUser ==
  ASSUME IInv, (\E c \in Calls : SysCall(c)) \/ ClockTick
  PROVE  /\ kpc = "user" /\ save /\ kpc' # "ret"
         /\ kpc' \in Calls => p_proc_ready' = p_proc_ready
         /\ UNCHANGED <<flags, rows>>
  <1>1. ASSUME NEW c \in Calls, SysCall(c)
        PROVE  /\ kpc = "user" /\ save /\ kpc' # "ret"
               /\ p_proc_ready' = p_proc_ready /\ UNCHANGED <<flags, rows>>
    BY <1>1 DEF SysCall, Calls
  <1>2. ASSUME ClockTick
        PROVE  /\ kpc = "user" /\ save /\ kpc' = "user" /\ UNCHANGED <<flags, rows>>
    BY <1>2 DEF ClockTick
  <1> QED
    BY <1>1, <1>2 DEF Calls

(* The return and a nested tick leave every answer alone.                  *)
LEMMA AnswersStay ==
  ASSUME IInv, SysReturn \/ NestedTick \/ UNCHANGED vars
  PROVE  /\ UNCHANGED <<answerMap, flags>>
         /\ kpc' \in Calls => kpc \in Calls /\ UNCHANGED <<eax, p_proc_ready>>
  <1>1. CASE SysReturn
    BY <1>1 DEF SysReturn, answerMap, answerOf, IInv, TypeOK, Calls
  <1>2. CASE NestedTick \/ UNCHANGED vars
    BY <1>2 DEF NestedTick, vars, answerMap, answerOf
  <1> QED
    BY <1>1, <1>2

LEMMA NextLInv == LInv /\ [Next]_vars => LInv'
  <1> SUFFICES ASSUME LInv, [Next]_vars PROVE Blank' /\ Silent'
    BY NextIInv DEF LInv
  <1>1. IInv /\ IInv' /\ Blank /\ Silent
    BY NextIInv DEF LInv
  <1>2. CASE (\E c \in Calls : SysCall(c)) \/ ClockTick
    BY <1>1, <1>2, FromUser, UserLInv
  <1>3. CASE Handler
    <2>1. Blank'
      BY <1>1, <1>3, HandlerLife DEF Blank, Calls
    <2>2. \A p \in Slots : lifeMap'[p] # "live" => answerMap'[p] = GARBAGE
      BY <1>1, <1>3, HandlerAnswers
    <2>3. ASSUME NEW p \in Slots, flags'[p] # {}
          PROVE  lifeMap'[p] # "live"
      <3>1. flags'[p] \in {{WAITING}, {HANGING}, {FREE_SLOT}}
        BY <1>1, <2>3 DEF IInv, OneFlag
      <3> QED
        BY <3>1, LifeOf DEF lifeMap
    <2> QED
      BY <2>1, <2>2, <2>3 DEF Silent, answerMap
  <1>4. CASE SysReturn \/ NestedTick \/ UNCHANGED vars
    <2>1. \A p \in Slots : answerOf(p)' = answerOf(p)
      BY <1>1, <1>4, AnswersStay DEF answerMap
    <2> QED
      BY <1>1, <1>4, <2>1, AnswersStay DEF Blank, Silent
  <1> QED
    BY <1>2, <1>3, <1>4 DEF Next, Handler

LEMMA NextLife == LInv /\ [Next]_vars => [Life!Next]_(Life!vars)
  <1> SUFFICES ASSUME IInv, IInv', Blank, [Next]_vars
               PROVE  Life!Next \/ UNCHANGED Life!vars
    BY NextIInv DEF LInv
  <1>1. PICK q \in Slots : q = p_proc_ready
    BY DEF IInv, TypeOK
  <1>2. CASE (\E c \in Calls : SysCall(c)) \/ ClockTick
    <2>1. p_proc_ready' \in Slots /\ flags[p_proc_ready'] = {}
      BY <1>2, FromUser DEF IInv, TypeOK, RunningIsRunnable
    <2>2. Life!GoOn(q)
      BY <1>1, <1>2, <2>1, FromUser, GoOnLife
    <2> QED
      BY <1>1, <2>2 DEF Life!Next
  <1>3. CASE Handler
    <2>1. q \in Callers /\ Handled(q)
      BY <1>1, <1>3, HandlerLife, InHandler
    <2> QED
      BY <2>1 DEF Life!Next, Callers, Handled
  <1>4. CASE SysReturn
    <2>1. Life!Resume(q)
      BY <1>1, <1>4, ResumeLife
    <2> QED
      BY <1>1, <2>1 DEF Life!Next
  <1>5. CASE NestedTick \/ UNCHANGED vars
    BY <1>5, Stutters
  <1> QED
    BY <1>2, <1>3, <1>4, <1>5 DEF Next, Handler

(* The calls implement ProcLife: every step of the kernel is one call of   *)
(* ProcLife, a process going on or being resumed, or no change at all.     *)
THEOREM ImplementsLife == Spec => LifeSpec
  BY InitLInv, NextLInv, InitLife, NextLife, PTL DEF Spec, LifeSpec, Life!Spec

(* An answer stays as it is, whatever the others call, exit and fork, for  *)
(* as long as its process has not run in user mode: the number of a child, *)
(* an exit status, the result of a call.                                   *)
AnswersWait ==
  [][\A p \in Slots : answerOf(p) # GARBAGE =>
       answerOf(p)' = answerOf(p) \/ (kpc = "user" /\ p = p_proc_ready)]_vars

THEOREM AnswersReachCallers == Spec => AnswersWait
  <1>1. ASSUME LInv, [Next]_vars, NEW p \in Slots, answerOf(p) # GARBAGE
        PROVE  answerOf(p)' = answerOf(p) \/ (kpc = "user" /\ p = p_proc_ready)
    <2>1. IInv /\ Blank /\ Silent
      BY <1>1 DEF LInv
    <2>2. CASE (\E c \in Calls : SysCall(c)) \/ ClockTick
      <3>1. kpc = "user" /\ save /\ kpc' # "ret" /\ UNCHANGED flags
        BY <2>1, <2>2, FromUser
      <3>2. p # p_proc_ready => answerOf(p)' = answerOf(p)
        BY <2>1, <3>1 DEF save, answerOf, IInv, TypeOK
      <3> QED
        BY <3>1, <3>2
    <2>3. CASE Handler
      BY <1>1, <2>1, <2>3, HandlerAnswers DEF answerMap
    <2>4. CASE SysReturn \/ NestedTick \/ UNCHANGED vars
      BY <2>1, <2>4, AnswersStay DEF answerMap
    <2> QED
      BY <1>1, <2>2, <2>3, <2>4 DEF Next, Handler
  <1>2. LInv /\ [Next]_vars =>
          [\A p \in Slots : answerOf(p) # GARBAGE =>
             answerOf(p)' = answerOf(p) \/ (kpc = "user" /\ p = p_proc_ready)]_vars
    BY <1>1
  <1> QED
    BY <1>2, InitLInv, NextLInv, PTL DEF Spec, AnswersWait

--------------------------------------------------------------------------------
(* Every process has the segments its kind gets: the kernel's for INIT,    *)
(* flat ones for the other native processes, those of its slot when forked. *)
Segments ==
  /\ \A p \in Natives : seg[p].limit \in {KERNEL_LIMIT, FLAT_LIMIT}
  /\ \A p \in Forked :
       InUse(p) => seg[p] = [base |-> alloc_mem(p),
                             limit |-> PROC_IMAGE_SIZE_DEFAULT - 1]

(* exec serves forked processes.                                           *)
ExecByForked == kpc = "exec" => p_proc_ready \notin Natives

MInv == IInv /\ MTypeOK /\ Segments /\ ExecByForked

LEMMA ForkedSlots ==
  ASSUME NEW p \in Forked
  PROVE  p \in Nat /\ p >= NR_TASKS + NATIVE_PROCS
  BY ConstantsAssumption DEF Forked, Slots, Natives

(* The places of two forked slots are at least one image apart.            *)
LEMMA PlacesApart ==
  ASSUME NEW p \in Forked, NEW q \in Forked, p < q
  PROVE  /\ alloc_mem(p) \in Nat
         /\ alloc_mem(p) >= PROCS_BASE
         /\ alloc_mem(p) + PROC_IMAGE_SIZE_DEFAULT <= alloc_mem(q)
  BY ForkedSlots, ConstantsAssumption
  DEF alloc_mem, PROCS_BASE, PROC_IMAGE_SIZE_DEFAULT

LEMMA PlaceType ==
  ASSUME NEW p \in Forked
  PROVE  alloc_mem(p) \in Nat /\ alloc_mem(p) >= PROCS_BASE
  BY ForkedSlots, ConstantsAssumption
  DEF alloc_mem, PROCS_BASE, PROC_IMAGE_SIZE_DEFAULT

(* A copy of at most one image to the place of a slot reaches no other.    *)
LEMMA CopyStays ==
  ASSUME NEW p \in Forked, NEW q \in Forked, p # q,
         NEW size \in 0 .. PROC_IMAGE_SIZE_DEFAULT
  PROVE  ~Reaches(alloc_mem(p), size, q)
  <1> USE ForkedSlots, PlaceType DEF Reaches, PROC_IMAGE_SIZE_DEFAULT
  <1>1. CASE p < q
    BY <1>1, PlacesApart
  <1>2. CASE q < p
    BY <1>2, PlacesApart
  <1> QED
    BY <1>1, <1>2

LEMMA CallerSizeBound ==
  ASSUME MInv
  PROVE  CallerSize(p_proc_ready) \in 0 .. PROC_IMAGE_SIZE_DEFAULT
  <1> DEFINE limit == seg[p_proc_ready].limit
  <1>1. p_proc_ready \in Slots /\ InUse(p_proc_ready)
    BY DEF MInv, IInv, TypeOK, RunningIsRunnable, InUse
  <1>2. limit \in {KERNEL_LIMIT, FLAT_LIMIT, PROC_IMAGE_SIZE_DEFAULT - 1}
    <2>1. CASE p_proc_ready \in Natives
      BY <2>1 DEF MInv, Segments
    <2>2. CASE p_proc_ready \notin Natives
      <3>1. PICK p \in Forked : p = p_proc_ready
        BY <1>1, <2>2 DEF Forked
      <3>2. FREE_SLOT \notin flags[p]
        BY <1>1, <3>1 DEF InUse
      <3>3. seg[p] = [base |-> alloc_mem(p), limit |-> PROC_IMAGE_SIZE_DEFAULT - 1]
        BY <3>2 DEF MInv, Segments, InUse
      <3> QED
        BY <3>1, <3>3
    <2> QED
      BY <2>1, <2>2
  <1> HIDE DEF limit
  <1>3. CallerSize(p_proc_ready) = (limit + 1) % AddressSpace
    BY DEF CallerSize, limit
  <1>4. (limit + 1) % AddressSpace \in 0 .. PROC_IMAGE_SIZE_DEFAULT
    <2>1. CASE limit = FLAT_LIMIT
      BY <2>1, SMT DEF FLAT_LIMIT, AddressSpace, PROC_IMAGE_SIZE_DEFAULT
    <2>2. CASE limit \in 0 .. PROC_IMAGE_SIZE_DEFAULT - 1
      BY <2>2, SMT DEF AddressSpace, PROC_IMAGE_SIZE_DEFAULT
    <2>3. CASE limit = KERNEL_LIMIT
      BY <2>2, <2>3, MemoryAssumption
    <2>4. CASE limit = PROC_IMAGE_SIZE_DEFAULT - 1
      BY <2>2, <2>4, SMT DEF PROC_IMAGE_SIZE_DEFAULT
    <2> QED
      BY <1>2, <2>1, <2>3, <2>4
  <1> QED
    BY <1>3, <1>4

(* fork and exec change the image of one forked slot only.                 *)
LEMMA ForkOwn ==
  ASSUME MInv, MFork
  PROVE  \A q \in Slots : image'[q] # image[q] => q = p_proc_ready'
  <1>1. CASE FreeSlots = {}
    BY <1>1 DEF MFork, mem
  <1>2. CASE FreeSlots # {}
    <2>1. p_proc_ready' \in FreeSlots
      BY <1>2 DEF MFork, Fork
    <2>2. p_proc_ready' \in Forked
      BY <2>1 DEF FreeSlots, Forked, MInv, IInv, NativesStay
    <2>3. phys_copy(alloc_mem(p_proc_ready'), CallerSize(p_proc_ready), image[p_proc_ready])
      BY <1>2 DEF MFork
    <2>4. ASSUME NEW q \in Slots, q # p_proc_ready'
          PROVE  image'[q] = image[q]
      <3>1. q \in Forked => ~Reaches(alloc_mem(p_proc_ready'), CallerSize(p_proc_ready), q)
        BY <2>2, <2>4, CallerSizeBound, CopyStays
      <3> QED
        BY <2>3, <2>4, <3>1 DEF phys_copy
    <2> QED
      BY <2>4
  <1> QED
    BY <1>1, <1>2

LEMMA ExecOwn ==
  ASSUME MInv, MExec
  PROVE  \A q \in Slots : image'[q] # image[q] => q = p_proc_ready
  <1>1. p_proc_ready \in Slots /\ FREE_SLOT \notin flags[p_proc_ready]
    BY DEF MInv, IInv, TypeOK, RunningIsRunnable
  <1>2. phys_copy(seg[p_proc_ready].base, ProgramPages, "program")
    BY DEF MExec
  <1>3. p_proc_ready \in Forked
    <2>1. kpc = "exec"
      BY DEF MExec, Exec
    <2> QED
      BY <1>1, <2>1 DEF Forked, MInv, ExecByForked
  <1>4. seg[p_proc_ready].base = alloc_mem(p_proc_ready)
    <2>1. PICK p \in Forked : p = p_proc_ready
      BY <1>3
    <2>2. seg[p] = [base |-> alloc_mem(p), limit |-> PROC_IMAGE_SIZE_DEFAULT - 1]
      BY <1>1, <2>1 DEF MInv, Segments, InUse
    <2>3. seg[p].base = alloc_mem(p)
      BY <2>2
    <2> QED
      BY <2>1, <2>3
  <1>5. ASSUME NEW q \in Slots, q # p_proc_ready
        PROVE  image'[q] = image[q]
    <2>1. q \in Forked => ~Reaches(alloc_mem(p_proc_ready), ProgramPages, q)
      BY <1>3, <1>5, CopyStays, MemoryAssumption DEF PROC_IMAGE_SIZE_DEFAULT
    <2> QED
      BY <1>2, <1>4, <1>5, <2>1 DEF phys_copy
  <1> QED
    BY <1>5

--------------------------------------------------------------------------------
(* Every step of the memory is a step of the table.                        *)
LEMMA StepOfTable == [MNext]_mvars => [Next]_vars
  BY DEF MNext, MFork, MExec, Next, mvars

(* Except by fork no free slot is taken.                                   *)
LEMMA FreeStaysFree ==
  ASSUME IInv, [Next]_vars, ~Fork, NEW p \in Slots, FREE_SLOT \in flags[p]
  PROVE  FREE_SLOT \in flags'[p]
  <1> USE FlagsDiffer DEF IInv, TypeOK
  <1>1. CASE Wait
    <2>1. p # p_proc_ready
      BY DEF RunningIsRunnable
    <2>2. \/ \E c \in Slots : flags' = [flags EXCEPT ![c] = {FREE_SLOT}]
          \/ flags' = flags
          \/ flags' = [flags EXCEPT ![p_proc_ready] = @ \cup {WAITING}]
      BY <1>1 DEF Wait, Zombies, Children
    <2> QED
      BY <2>1, <2>2
  <1>2. CASE Exit
    <2>1. p # p_proc_ready
      BY DEF RunningIsRunnable
    <2>2. \/ flags' = [flags EXCEPT ![parent[p_proc_ready]] = @ \ {WAITING},
                                    ![p_proc_ready] = {FREE_SLOT}]
          \/ flags' = [flags EXCEPT ![p_proc_ready] = @ \cup {HANGING}]
      BY <1>2 DEF Exit
    <2> QED
      BY <2>1, <2>2
  <1>3. CASE ~Wait /\ ~Exit
    <2>1. flags' = flags
      BY <1>3 DEF Next, SysCall, Exec, Other, SysReturn, ClockTick, NestedTick, vars, rows
    <2> QED
      BY <2>1
  <1> QED
    BY <1>1, <1>2, <1>3

LEMMA InitMInv == MInit => MInv
  <1> SUFFICES ASSUME MInit PROVE MInv
    OBVIOUS
  <1>1. IInv
    BY InitIInv DEF MInit
  <1>2. MTypeOK
    <2>1. FLAT_LIMIT \in Nat /\ KERNEL_LIMIT \in Nat
      BY MemoryAssumption, SMT DEF FLAT_LIMIT, AddressSpace, PROC_IMAGE_SIZE_DEFAULT
    <2> QED
      BY <1>1, <2>1 DEF MInit, MTypeOK, IInv
  <1>3. Segments
    <2>1. \A p \in Natives : seg[p].limit \in {KERNEL_LIMIT, FLAT_LIMIT}
      BY SlotsFacts DEF MInit
    <2>2. \A p \in Forked : ~InUse(p)
      BY DEF MInit, Init, Forked, InUse
    <2> QED
      BY <2>1, <2>2 DEF Segments
  <1>4. ExecByForked
    BY DEF MInit, Init, ExecByForked
  <1> QED
    BY <1>1, <1>2, <1>3, <1>4 DEF MInv

(* The only step that gives segments: the child gets those of its slot.    *)
LEMMA ForkSegments ==
  ASSUME MInv, MFork
  PROVE  MTypeOK' /\ Segments'
  <1>1. IInv' /\ TypeOK'
    BY ForkStep DEF MInv, IInv, MFork
  <1>2. CASE FreeSlots = {}
    <2>1. UNCHANGED <<flags, seg, image>>
      BY <1>2 DEF MFork, Fork, mem
    <2> QED
      BY <1>1, <2>1 DEF MInv, MTypeOK, Segments, InUse
  <1>3. CASE FreeSlots # {}
    <2>1. PICK c \in FreeSlots : c = p_proc_ready' /\ flags' = [flags EXCEPT ![c] = flags[p_proc_ready]]
      BY <1>3 DEF MFork, Fork
    <2>2. c \in Slots /\ c \in Forked
      BY <2>1 DEF FreeSlots, Forked, MInv, IInv, NativesStay
    <2>3. /\ seg' = [seg EXCEPT ![c] = [base |-> alloc_mem(c),
                                       limit |-> PROC_IMAGE_SIZE_DEFAULT - 1]]
          /\ phys_copy(alloc_mem(c), CallerSize(p_proc_ready), image[p_proc_ready])
      BY <1>3, <2>1 DEF MFork
    <2>4. alloc_mem(c) \in Nat /\ PROC_IMAGE_SIZE_DEFAULT - 1 \in Nat
      BY <2>2, PlaceType DEF PROC_IMAGE_SIZE_DEFAULT
    <2>5. seg' \in [Slots -> [base : Nat, limit : Nat]]
      BY <2>2, <2>3, <2>4 DEF MInv, MTypeOK
    <2>6. image' \in [Slots -> {"none", "INIT", "Test", "program"}]
      <3>1. p_proc_ready \in Slots
        BY DEF MInv, IInv, TypeOK
      <3> QED
        BY <2>3, <3>1 DEF phys_copy, MInv, MTypeOK
    <2>7. Segments'
      <3>1. ASSUME NEW p \in Natives
            PROVE  seg'[p].limit \in {KERNEL_LIMIT, FLAT_LIMIT}
        <4>1. p # c
          BY <2>2 DEF Forked
        <4>2. seg'[p] = seg[p]
          BY <2>3, <4>1, SlotsFacts DEF MInv, MTypeOK
        <4> QED
          BY <4>2 DEF MInv, Segments
      <3>2. ASSUME NEW p \in Forked, InUse(p)'
            PROVE  seg'[p] = [base |-> alloc_mem(p), limit |-> PROC_IMAGE_SIZE_DEFAULT - 1]
        <4>1. CASE p = c
          BY <2>2, <2>3, <4>1 DEF MInv, MTypeOK
        <4>2. CASE p # c
          <5>1. seg'[p] = seg[p] /\ flags'[p] = flags[p]
            BY <2>1, <2>3, <4>2 DEF MInv, MTypeOK, IInv, TypeOK, Forked
          <5>2. FREE_SLOT \notin flags[p]
            BY <3>2, <5>1 DEF InUse
          <5> QED
            BY <5>1, <5>2 DEF MInv, Segments, InUse
        <4> QED
          BY <4>1, <4>2
      <3> QED
        BY <3>1, <3>2 DEF Segments, alloc_mem
    <2> QED
      BY <1>1, <2>5, <2>6, <2>7 DEF MTypeOK
  <1> QED
    BY <1>2, <1>3

LEMMA NextMInv == MInv /\ [MNext]_mvars => MInv'
  <1> SUFFICES ASSUME MInv, [MNext]_mvars PROVE MInv'
    OBVIOUS
  <1>1. IInv' /\ TypeOK'
    BY StepOfTable, NextIInv DEF MInv, IInv
  <1>2. ExecByForked'
    <2>1. ASSUME NEW c \in Calls, SysCall(c) PROVE ExecByForked'
      BY <2>1 DEF SysCall, ExecByForked
    <2>2. CASE Fork \/ Wait \/ Exit \/ Exec \/ Other
      BY <2>2 DEF Fork, Wait, Exit, Exec, Other, Return, ExecByForked
    <2>3. CASE SysReturn \/ ClockTick
      BY <2>3 DEF SysReturn, ClockTick, ExecByForked
    <2>4. CASE NestedTick \/ UNCHANGED vars
      BY <2>4 DEF NestedTick, vars, ExecByForked, MInv
    <2> QED
      BY <2>1, <2>2, <2>3, <2>4, StepOfTable DEF Next
  <1>3. CASE MFork
    BY <1>1, <1>2, <1>3, ForkSegments DEF MInv
  <1>4. CASE ~MFork
    <2>1. seg' = seg /\ image' \in [Slots -> {"none", "INIT", "Test", "program"}]
      <3>1. CASE MExec
        BY <3>1 DEF MExec, phys_copy, MInv, MTypeOK
      <3>2. CASE ~MExec
        BY <1>4, <3>2 DEF MNext, mvars, mem, MInv, MTypeOK
      <3> QED
        BY <3>1, <3>2
    <2>2. [Next]_vars /\ ~Fork
      <3>1. MExec => ~Fork
        BY DEF MExec, Exec, Fork
      <3>2. \A c \in Calls : SysCall(c) => ~Fork
        BY DEF SysCall, Fork
      <3>3. Wait \/ Exit \/ Other \/ SysReturn \/ ClockTick => ~Fork
        BY DEF Wait, Exit, Other, SysReturn, ClockTick, Fork
      <3>4. NestedTick \/ UNCHANGED mvars => ~Fork
        BY DEF NestedTick, mvars, vars, Fork, Return
      <3> QED
        BY <1>4, <3>1, <3>2, <3>3, <3>4, StepOfTable DEF MNext
    <2>3. \A p \in Slots : FREE_SLOT \in flags[p] => FREE_SLOT \in flags'[p]
      BY <2>2, FreeStaysFree DEF MInv
    <2>4. Segments'
      BY <2>1, <2>3 DEF MInv, Segments, InUse, Forked, alloc_mem
    <2> QED
      BY <1>1, <1>2, <2>1, <2>4 DEF MInv, MTypeOK
  <1> QED
    BY <1>3, <1>4

(* The segments follow the slot in every reachable state.                  *)
THEOREM MemoryInvariance == MSpec => []MInv
  BY InitMInv, NextMInv, PTL DEF MSpec

(* Table, segments and images keep their types.                            *)
THEOREM MemoryTypes == MSpec => []MTypeOK
  BY MemoryInvariance, PTL DEF MInv

(* No two forked processes share memory, whatever the sizes.               *)
THEOREM ForkedApart == MSpec => []ImagesApart
  <1>1. MInv => ImagesApart
    <2> SUFFICES ASSUME MInv, NEW p \in Forked, NEW q \in Forked
        PROVE  /\ InUse(p) => seg[p].base >= PROCS_BASE
               /\ InUse(p) /\ InUse(q) /\ p # q =>
                    \/ seg[p].base + seg[p].limit < seg[q].base
                    \/ seg[q].base + seg[q].limit < seg[p].base
      BY DEF ImagesApart
    <2>1. ASSUME NEW r \in Forked, InUse(r)
          PROVE  /\ seg[r].base = alloc_mem(r)
                 /\ seg[r].limit = PROC_IMAGE_SIZE_DEFAULT - 1
      <3>1. seg[r] = [base |-> alloc_mem(r), limit |-> PROC_IMAGE_SIZE_DEFAULT - 1]
        BY <2>1 DEF MInv, Segments
      <3> QED
        BY <3>1
    <2>2. alloc_mem(p) \in Nat /\ alloc_mem(p) >= PROCS_BASE /\ alloc_mem(q) \in Nat
      BY PlaceType
    <2>3. InUse(p) => seg[p].base >= PROCS_BASE
      BY <2>1, <2>2
    <2>4. ASSUME InUse(p), InUse(q), p # q
          PROVE  \/ seg[p].base + seg[p].limit < seg[q].base
                 \/ seg[q].base + seg[q].limit < seg[p].base
      <3>1. PROC_IMAGE_SIZE_DEFAULT \in Nat
        BY DEF PROC_IMAGE_SIZE_DEFAULT
      <3>2. CASE p < q
        BY <2>1, <2>2, <2>4, <3>1, <3>2, PlacesApart
      <3>3. CASE q < p
        BY <2>1, <2>2, <2>4, <3>1, <3>3, PlacesApart
      <3> QED
        BY <2>4, <3>2, <3>3, ForkedSlots
    <2> QED
      BY <2>3, <2>4
  <1> QED
    BY <1>1, MemoryInvariance, PTL

(* fork writes only the child's memory and exec only its caller's.         *)
THEOREM WritesStayHome == MSpec => OwnImageOnly
  <1>1. MInv /\ [MNext]_mvars =>
          [\A q \in Slots : image'[q] # image[q] =>
             \/ kpc = "fork" /\ q = p_proc_ready'
             \/ kpc = "exec" /\ q = p_proc_ready]_mvars
    <2> SUFFICES ASSUME MInv, MNext, NEW q \in Slots, image'[q] # image[q]
        PROVE  \/ kpc = "fork" /\ q = p_proc_ready'
               \/ kpc = "exec" /\ q = p_proc_ready
      OBVIOUS
    <2>1. CASE MFork
      BY <2>1, ForkOwn DEF MFork, Fork
    <2>2. CASE MExec
      BY <2>2, ExecOwn DEF MExec, Exec
    <2>3. CASE ~MFork /\ ~MExec
      BY <2>3 DEF MNext, mem
    <2> QED
      BY <2>1, <2>2, <2>3
  <1> QED
    BY <1>1, MemoryInvariance, PTL DEF MSpec, OwnImageOnly
================================================================================
