--------------------------- MODULE KernelEntryProofs ---------------------------
(***************************************************************************)
(* Proofs about KernelEntry for any set of interrupts and processes, when  *)
(* no interrupt comes inside the first restart.                            *)
(***************************************************************************)
EXTENDS KernelEntry, SequenceTheorems, TLAPS

(* An interrupt in progress is masked and, once processes run, nothing     *)
(* else is; the trap is only ever the outermost frame.                     *)
InService == {frames[i].what : i \in 1 .. depth} \ {CALL}

Masks ==
  /\ InService \cap mask = InService
  /\ base = "user" => mask \subseteq InService
  /\ \A i \in 1 .. depth : frames[i].what = CALL => i = 1

(* Before the first restart no handler leaves by restart; from then on     *)
(* interrupts are on, and during it nothing is in progress.                *)
Boot ==
  /\ base = "boot" => \A i \in 1 .. depth : frames[i].ret # "restart"
  /\ base # "boot" => IF_flag
  /\ base \in {"esp", "dec"} => depth = 0
  /\ base \in {"esp", "dec"} => mask = {}
  /\ base = "dec" => sp0 = p_proc_ready

IInv ==
  /\ TypeOK
  /\ ReenterCounts
  /\ OneHandlerEach
  /\ Masks
  /\ Boot
  /\ RestartIsOutermost
  /\ OwnRegisters

(* What the sequence operators do to a stack of frames.                    *)
LEMMA DepthNat ==
  ASSUME TypeOK
  PROVE  /\ depth \in Nat
         /\ \A i \in 1 .. depth : frames[i] \in Frame
  BY DEF TypeOK, depth

LEMMA Pushed ==
  ASSUME TypeOK, NEW f \in Frame, frames' = Append(frames, f)
  PROVE  /\ frames' \in Seq(Frame)
         /\ depth' = depth + 1
         /\ \A i \in 1 .. depth : frames'[i] = frames[i]
         /\ frames'[depth + 1] = f
  BY DepthNat DEF TypeOK, depth

LEMMA Popped ==
  ASSUME TypeOK, depth > 0, frames' = SubSeq(frames, 1, depth - 1)
  PROVE  /\ frames' \in Seq(Frame)
         /\ depth' = depth - 1
         /\ \A i \in 1 .. depth - 1 : frames'[i] = frames[i]
  <1> DEFINE n == depth - 1
  <1>1. n \in Nat /\ \A i \in 1 .. n : frames[i] \in Frame
    BY DepthNat
  <1>2. /\ frames' \in Seq(Frame)
        /\ Len(frames') = IF 1 <= n THEN n - 1 + 1 ELSE 0
        /\ \A i \in 1 .. n - 1 + 1 : frames'[i] = frames[1 + i - 1]
    BY <1>1, SubSeqProperties
  <1>3. Len(frames') = n
    BY <1>1, <1>2
  <1>4. \A i \in 1 .. n : frames'[i] = frames[i]
    BY <1>1, <1>2
  <1> QED
    BY <1>2, <1>3, <1>4 DEF depth

LEMMA Ran ==
  ASSUME TypeOK, depth > 0, frames' = [frames EXCEPT ![depth].done = TRUE]
  PROVE  /\ frames' \in Seq(Frame)
         /\ depth' = depth
         /\ \A i \in 1 .. depth : /\ frames'[i].what = frames[i].what
                                  /\ frames'[i].ret = frames[i].ret
  <1>1. depth \in 1 .. Len(frames) /\ frames[depth] \in Frame
    BY DepthNat DEF depth
  <1>2. [frames[depth] EXCEPT !.done = TRUE] \in Frame
    BY <1>1 DEF Frame
  <1>3. frames' = [frames EXCEPT ![depth] = [frames[depth] EXCEPT !.done = TRUE]]
    OBVIOUS
  <1>4. /\ [frames[depth] EXCEPT !.done = TRUE].what = frames[depth].what
        /\ [frames[depth] EXCEPT !.done = TRUE].ret = frames[depth].ret
    BY <1>1 DEF Frame
  <1>5. frames' \in Seq(Frame) /\ Len(frames') = Len(frames)
    BY <1>1, <1>2, <1>3 DEF TypeOK
  <1>6. ASSUME NEW i \in 1 .. depth
        PROVE  /\ frames'[i].what = frames[i].what
               /\ frames'[i].ret = frames[i].ret
    <2>1. CASE i = depth
      BY <1>1, <1>3, <1>4, <2>1 DEF TypeOK
    <2>2. CASE i # depth
      BY <1>1, <1>3, <2>2 DEF TypeOK, depth
    <2> QED
      BY <2>1, <2>2
  <1> QED
    BY <1>5, <1>6 DEF depth

LEMMA InitIInv == Init => IInv
  <1> SUFFICES ASSUME Init PROVE IInv
    OBVIOUS
  <1>1. frames \in Seq(Frame) /\ depth = 0
    BY DEF Init, depth
  <1>2. 1 .. depth = {}
    BY <1>1
  <1>3. TypeOK
    <2>1. saved \in [Procs -> Procs \cup {GARBAGE}]
      BY DEF Init
    <2>2. IF_flag \in BOOLEAN /\ mask \in SUBSET IRQ
      BY DEF Init
    <2> QED
      BY <1>1, <2>1, <2>2 DEF Init, TypeOK
  <1>4. ReenterCounts
    BY <1>1 DEF Init, ReenterCounts
  <1>5. Masks /\ OneHandlerEach
    BY <1>1, <1>2 DEF Init, Masks, OneHandlerEach, InService
  <1>6. Boot /\ RestartIsOutermost /\ OwnRegisters
    BY <1>1, <1>2 DEF Init, Boot, RestartIsOutermost, OwnRegisters
  <1> QED
    BY <1>3, <1>4, <1>5, <1>6 DEF IInv

--------------------------------------------------------------------------------
(* One lemma per action.  What an entry does, for an interrupt and a trap. *)
LEMMA SavePushes ==
  ASSUME IInv, NEW what \in IRQ \cup {CALL}, save(what)
  PROVE  /\ frames' \in Seq(Frame)
         /\ depth' = depth + 1
         /\ \A i \in 1 .. depth : frames'[i] = frames[i]
         /\ frames'[depth + 1].what = what
         /\ frames'[depth + 1].ret = returnOf
         /\ k_reenter' = k_reenter + 1
  <1>1. stack \in {"row", "kernel"}
    <2>1. CASE depth = 0
      BY <2>1 DEF stack
    <2>2. CASE depth # 0
      <3>1. top \in Frame
        BY <2>2, DepthNat DEF IInv, top
      <3> QED
        BY <2>2, <3>1 DEF stack, Frame
    <2> QED
      BY <2>1, <2>2
  <1> DEFINE f == [what |-> what, ret |-> returnOf, on |-> stack, done |-> FALSE]
  <1>2. f \in Frame /\ f.what = what /\ f.ret = returnOf
    BY <1>1 DEF Frame, returnOf
  <1>3. frames' = Append(frames, f) /\ k_reenter' = k_reenter + 1
    BY DEF save
  <1> HIDE DEF f
  <1> QED
    BY <1>2, <1>3, Pushed DEF IInv

(* With no interrupt inside the first restart, a first entry comes from    *)
(* user mode, finds k_reenter at -1 and pushes restart; every other entry  *)
(* pushes restart_reenter and leaves the rows alone.                       *)
LEMMA SaveReturns ==
  ASSUME IInv, base \in {"boot", "user"} \/ depth > 0
  PROVE  /\ base = "user" /\ depth = 0 => returnOf = "restart"
         /\ ~(base = "user" /\ depth = 0) => returnOf = "restart_reenter"
         /\ storeRegs = saved
  <1>1. depth \in Nat
    BY DepthNat DEF IInv
  <1>2. base \in {"boot", "user"}
    BY <1>1 DEF IInv, Boot, TypeOK
  <1>3. storeRegs = saved
    <2>1. CASE depth > 0 \/ base = "boot"
      BY <2>1 DEF storeRegs
    <2>2. CASE depth = 0 /\ base = "user"
      <3>1. cur = sp0 /\ saved[sp0] = sp0 /\ storeRegs = [saved EXCEPT ![sp0] = cur]
        BY <2>2 DEF IInv, OwnRegisters, TypeOK, storeRegs
      <3> QED
        BY <3>1 DEF IInv, TypeOK
    <2> QED
      BY <1>1, <1>2, <2>1, <2>2
  <1> QED
    BY <1>1, <1>2, <1>3 DEF IInv, ReenterCounts, returnOf

(* An entry that is not in progress yet, from user mode or from a place    *)
(* where the kernel stack is in use.                                       *)
LEMMA Entered ==
  ASSUME IInv, base \in {"boot", "user"} \/ depth > 0,
         NEW what \in IRQ \cup {CALL}, save(what),
         \A i \in 1 .. depth : frames[i].what # what,
         what = CALL => depth = 0 /\ base = "user" /\ mask' = mask,
         what # CALL => mask' = mask \cup {what},
         UNCHANGED <<base, IF_flag, p_proc_ready, sp0, cur>>
  PROVE  IInv'
  <1>1. /\ frames' \in Seq(Frame)
        /\ depth' = depth + 1
        /\ \A i \in 1 .. depth : frames'[i] = frames[i]
        /\ frames'[depth + 1].what = what
        /\ frames'[depth + 1].ret = returnOf
        /\ k_reenter' = k_reenter + 1
    BY SavePushes
  <1>2. saved' = saved
    BY SaveReturns DEF save
  <1>3. /\ depth \in Nat
        /\ \A i \in 1 .. depth : frames[i] \in Frame
    BY DepthNat DEF IInv
  <1>4. base \in {"boot", "user"}
    BY <1>3 DEF IInv, Boot, TypeOK
  <1>5. /\ \A i \in 1 .. depth' : i \in 1 .. depth \/ i = depth + 1
        /\ \A i \in 1 .. depth : i \in 1 .. depth'
        /\ depth + 1 \in 1 .. depth'
    BY <1>1, <1>3
  <1>6. {frames'[i].what : i \in 1 .. depth'} = {frames[i].what : i \in 1 .. depth} \cup {what}
    BY <1>1, <1>5
  <1>7. InService' = InService \cup ({what} \ {CALL})
    BY <1>6 DEF InService
  <1>8. TypeOK'
    <2>1. k_reenter' \in Int
      BY <1>1 DEF IInv, TypeOK
    <2>2. mask' \in SUBSET IRQ
      BY DEF IInv, TypeOK
    <2> QED
      BY <1>1, <1>2, <2>1, <2>2 DEF IInv, TypeOK
  <1>9. ReenterCounts'
    BY <1>1, <1>3 DEF IInv, ReenterCounts
  <1>10. Masks'
    <2>1. \A i \in 1 .. depth' : frames'[i].what = CALL => i = 1
      BY <1>1, <1>3, <1>5 DEF IInv, Masks
    <2>2. InService' \cap mask' = InService'
      BY <1>7 DEF IInv, Masks
    <2>3. base' = "user" => mask' \subseteq InService'
      BY <1>7 DEF IInv, Masks
    <2> QED
      BY <2>1, <2>2, <2>3 DEF Masks
  <1>11. OneHandlerEach'
    <2>1. \A i, j \in 1 .. depth' : frames'[i].what = frames'[j].what => i = j
      BY <1>1, <1>5 DEF IInv, OneHandlerEach
    <2>2. base' = "user" => mask' = {frames'[i].what : i \in 1 .. depth'} \ {CALL}
      BY <1>10 DEF Masks, InService
    <2> QED
      BY <2>1, <2>2 DEF OneHandlerEach
  <1>12. Boot'
    <2>1. base = "boot" => returnOf = "restart_reenter"
      BY SaveReturns
    <2>2. base = "boot" => \A i \in 1 .. depth' : frames'[i].ret # "restart"
      BY <1>1, <1>5, <2>1 DEF IInv, Boot
    <2> QED
      BY <1>4, <2>2 DEF IInv, Boot
  <1>13. RestartIsOutermost'
    <2>1. /\ base = "user" /\ depth = 0 => returnOf = "restart"
          /\ ~(base = "user" /\ depth = 0) => returnOf = "restart_reenter"
      BY SaveReturns
    <2>3. \A i \in 1 .. depth' : frames'[i].ret = "restart" => i = 1
      BY <1>1, <1>3, <1>5, <2>1 DEF IInv, RestartIsOutermost
    <2>4. base' = "user" /\ depth' > 0 => frames'[1].ret = "restart"
      BY <1>1, <1>3, <1>5, <2>1 DEF IInv, RestartIsOutermost
    <2> QED
      BY <2>3, <2>4 DEF RestartIsOutermost
  <1>14. OwnRegisters'
    BY <1>1, <1>2, <1>3 DEF IInv, OwnRegisters
  <1> QED
    BY <1>8, <1>9, <1>10, <1>11, <1>12, <1>13, <1>14 DEF IInv

LEMMA InterruptStep ==
  ASSUME IInv, QuietBoot, NEW n \in IRQ, Interrupt(n)
  PROVE  IInv'
  <1>1. n # CALL
    BY KernelEntryAssumption
  <1>2. \A i \in 1 .. depth : frames[i].what # n
    BY <1>1 DEF IInv, Masks, InService, Interrupt
  <1>3. depth \in Nat
    BY DepthNat DEF IInv
  <1>4. base \in {"boot", "user"} \/ depth > 0
    BY <1>3 DEF Interrupt, IInv, TypeOK
  <1> QED
    BY <1>1, <1>2, <1>4, Entered DEF Interrupt, masked

LEMMA SysCallStep ==
  ASSUME IInv, SysCall
  PROVE  IInv'
  <1>1. \A i \in 1 .. depth : frames[i].what # CALL
    BY DEF SysCall
  <1> QED
    BY <1>1, Entered DEF SysCall

LEMMA HandlerStep ==
  ASSUME IInv, Handler
  PROVE  IInv'
  <1>1. /\ frames' \in Seq(Frame)
        /\ depth' = depth
        /\ \A i \in 1 .. depth : /\ frames'[i].what = frames[i].what
                                 /\ frames'[i].ret = frames[i].ret
    BY Ran DEF IInv, Handler
  <1>2. /\ UNCHANGED <<base, k_reenter, IF_flag, mask, sp0, saved, cur>>
        /\ p_proc_ready' \in Procs
        /\ depth > 0
    BY DEF Handler, IInv, TypeOK
  <1>3. depth \in Nat
    BY DepthNat DEF IInv
  <1>4. {frames'[i].what : i \in 1 .. depth'} = {frames[i].what : i \in 1 .. depth}
    BY <1>1
  <1>5. TypeOK'
    BY <1>1, <1>2 DEF IInv, TypeOK
  <1>6. ReenterCounts'
    BY <1>1, <1>2 DEF IInv, ReenterCounts
  <1>7. Masks'
    BY <1>1, <1>2, <1>4 DEF IInv, Masks, InService
  <1>8. OneHandlerEach'
    BY <1>1, <1>2, <1>4 DEF IInv, OneHandlerEach
  <1>9. Boot'
    BY <1>1, <1>2 DEF IInv, Boot
  <1>10. RestartIsOutermost'
    BY <1>1, <1>2, <1>3 DEF IInv, RestartIsOutermost
  <1>11. OwnRegisters'
    BY <1>1, <1>2, <1>3 DEF IInv, OwnRegisters
  <1> QED
    BY <1>5, <1>6, <1>7, <1>8, <1>9, <1>10, <1>11 DEF IInv

(* The end of the outermost handler of a process.                          *)
LEMMA LeaveToUser ==
  ASSUME IInv, Leave, top.ret = "restart"
  PROVE  IInv'
  <1>1. depth \in Nat /\ depth > 0 /\ depth \in 1 .. depth
    BY DepthNat DEF IInv, Leave
  <1>2. depth = 1
    BY <1>1 DEF IInv, RestartIsOutermost, top
  <1>3. base = "user"
    BY <1>1 DEF IInv, TypeOK, Boot, top
  <1>4. /\ frames' = <<>> /\ base' = "user"
        /\ cur' = saved[p_proc_ready] /\ sp0' = p_proc_ready
        /\ k_reenter' = k_reenter - 1
        /\ mask' = mask \ {top.what}
        /\ UNCHANGED <<IF_flag, p_proc_ready, saved>>
    BY DEF Leave, restart, unmasked
  <1>5. frames' \in Seq(Frame) /\ depth' = 0 /\ 1 .. depth' = {}
    BY <1>4 DEF depth
  <1>6. mask' = {}
    <2>1. \A i \in 1 .. depth : frames[i].what = top.what
      BY <1>2 DEF top
    <2> QED
      BY <1>3, <1>4, <2>1 DEF IInv, Masks, InService
  <1>7. InService' = {}
    BY <1>5 DEF InService
  <1>8. TypeOK'
    BY <1>4, <1>5, <1>6 DEF IInv, TypeOK, OwnRegisters
  <1>9. ReenterCounts'
    BY <1>2, <1>3, <1>4, <1>5 DEF IInv, ReenterCounts
  <1>10. Masks' /\ OneHandlerEach'
    BY <1>5, <1>6, <1>7 DEF Masks, OneHandlerEach
  <1>11. Boot'
    BY <1>3, <1>4 DEF IInv, Boot
  <1>12. RestartIsOutermost'
    BY <1>5 DEF RestartIsOutermost
  <1>13. OwnRegisters'
    BY <1>4 DEF IInv, OwnRegisters, TypeOK
  <1> QED
    BY <1>8, <1>9, <1>10, <1>11, <1>12, <1>13 DEF IInv

(* The end of a nested handler: the handler below goes on.                 *)
LEMMA LeaveToKernel ==
  ASSUME IInv, Leave, top.ret # "restart"
  PROVE  IInv'
  <1>1. depth \in Nat /\ depth > 0 /\ depth \in 1 .. depth
    BY DepthNat DEF IInv, Leave
  <1>2. /\ frames' = SubSeq(frames, 1, depth - 1)
        /\ k_reenter' = k_reenter - 1
        /\ mask' = mask \ {top.what}
        /\ UNCHANGED <<base, sp0, cur, IF_flag, p_proc_ready, saved>>
    BY DEF Leave, unmasked
  <1>3. /\ frames' \in Seq(Frame)
        /\ depth' = depth - 1
        /\ \A i \in 1 .. depth - 1 : frames'[i] = frames[i]
    BY <1>1, <1>2, Popped DEF IInv
  <1>4. /\ \A i \in 1 .. depth' : i \in 1 .. depth /\ i # depth
        /\ \A i \in 1 .. depth : i \in 1 .. depth' \/ i = depth
    BY <1>1, <1>3
  <1>5. /\ \A i \in 1 .. depth' : frames'[i] = frames[i]
        /\ \A i \in 1 .. depth' : frames[i].what # top.what
    BY <1>1, <1>3, <1>4 DEF IInv, OneHandlerEach, top
  <1>6. {frames'[i].what : i \in 1 .. depth'} = {frames[i].what : i \in 1 .. depth} \ {top.what}
    BY <1>4, <1>5 DEF top
  <1>7. InService' = InService \ {top.what}
    BY <1>6 DEF InService
  <1>8. TypeOK'
    <2>1. k_reenter' \in Int /\ mask' \in SUBSET IRQ
      BY <1>2 DEF IInv, TypeOK
    <2> QED
      BY <1>2, <1>3, <2>1 DEF IInv, TypeOK
  <1>9. ReenterCounts'
    BY <1>1, <1>2, <1>3 DEF IInv, ReenterCounts
  <1>10. Masks'
    <2>1. InService' \cap mask' = InService'
      BY <1>2, <1>7 DEF IInv, Masks
    <2>2. base' = "user" => mask' \subseteq InService'
      BY <1>2, <1>7 DEF IInv, Masks
    <2>3. \A i \in 1 .. depth' : frames'[i].what = CALL => i = 1
      BY <1>4, <1>5 DEF IInv, Masks
    <2> QED
      BY <2>1, <2>2, <2>3 DEF Masks
  <1>11. OneHandlerEach'
    <2>1. \A i, j \in 1 .. depth' : frames'[i].what = frames'[j].what => i = j
      BY <1>4, <1>5 DEF IInv, OneHandlerEach
    <2>2. base' = "user" => mask' = {frames'[i].what : i \in 1 .. depth'} \ {CALL}
      BY <1>10 DEF Masks, InService
    <2> QED
      BY <2>1, <2>2 DEF OneHandlerEach
  <1>12. Boot'
    <2>1. base' \notin {"esp", "dec"}
      BY <1>1, <1>2 DEF IInv, Boot
    <2>2. base' = "boot" => \A i \in 1 .. depth' : frames'[i].ret # "restart"
      BY <1>2, <1>4, <1>5 DEF IInv, Boot
    <2>3. base' # "boot" => IF_flag'
      BY <1>2 DEF IInv, Boot
    <2> QED
      BY <2>1, <2>2, <2>3 DEF Boot
  <1>13. RestartIsOutermost'
    <2>1. \A i \in 1 .. depth' : frames'[i].ret = "restart" => i = 1
      BY <1>4, <1>5 DEF IInv, RestartIsOutermost
    <2>2. depth' > 0 => 1 \in 1 .. depth'
      BY <1>1, <1>3
    <2>3. base' = "user" /\ depth' > 0 => frames'[1].ret = "restart"
      BY <1>1, <1>2, <1>5, <2>2 DEF IInv, RestartIsOutermost
    <2> QED
      BY <2>1, <2>3 DEF RestartIsOutermost
  <1>14. OwnRegisters'
    <2>1. base = "user" => depth' # 0
      BY <1>1, <1>3 DEF IInv, RestartIsOutermost, top
    <2> QED
      BY <1>2, <2>1 DEF IInv, OwnRegisters
  <1> QED
    BY <1>8, <1>9, <1>10, <1>11, <1>12, <1>13, <1>14 DEF IInv

(* Booting: nothing is in progress before or after these steps.            *)
LEMMA BootStep ==
  ASSUME IInv, SetCursor \/ FirstRestart \/ \E n \in IRQ : EnableIrq(n)
  PROVE  IInv'
  <1>1. depth = 0 /\ frames' = frames /\ depth' = depth /\ 1 .. depth = {}
    BY DEF SetCursor, FirstRestart, EnableIrq, depth
  <1>2. InService = {} /\ InService' = {}
    BY <1>1 DEF InService
  <1>3. UNCHANGED <<p_proc_ready, saved>> /\ mask' \subseteq mask
    BY DEF SetCursor, FirstRestart, EnableIrq
  <1>4. \/ base = "boot" /\ base' = "boot"
           /\ UNCHANGED <<k_reenter, sp0, cur>> /\ IF_flag' \in BOOLEAN
        \/ base = "boot" /\ base' = "esp" /\ IF_flag /\ mask = {}
           /\ UNCHANGED <<k_reenter, sp0, cur, IF_flag>>
        \/ base = "esp" /\ base' = "dec" /\ sp0' = p_proc_ready
           /\ k_reenter' = k_reenter - 1 /\ UNCHANGED <<cur, IF_flag>>
        \/ base = "dec" /\ base' = "user" /\ cur' = saved[p_proc_ready]
           /\ UNCHANGED <<k_reenter, sp0, IF_flag>>
    BY DEF SetCursor, FirstRestart, EnableIrq, IInv, TypeOK
  <1>5. /\ TypeOK
        /\ base = "dec" => sp0 = p_proc_ready
        /\ base \in {"esp", "dec"} => IF_flag /\ mask = {}
        /\ \A p \in Procs : saved[p] = p
    BY DEF IInv, Boot, OwnRegisters
  <1>6. TypeOK'
    <2>1. mask' \in SUBSET IRQ /\ k_reenter' \in Int /\ base' \in {"boot", "esp", "dec", "user"}
      BY <1>3, <1>4, <1>5 DEF TypeOK
    <2>2. IF_flag' \in BOOLEAN
      BY <1>4, <1>5 DEF TypeOK
    <2>3. sp0' \in Procs /\ cur' \in Procs \cup {GARBAGE}
      BY <1>4, <1>5 DEF TypeOK
    <2>4. saved' \in [Procs -> Procs \cup {GARBAGE}] /\ p_proc_ready' \in Procs
      BY <1>3, <1>5 DEF TypeOK
    <2>5. frames' \in Seq(Frame)
      BY <1>1, <1>5 DEF TypeOK
    <2> QED
      BY <2>1, <2>2, <2>3, <2>4, <2>5 DEF TypeOK
  <1>7. ReenterCounts'
    BY <1>1, <1>4 DEF IInv, ReenterCounts, TypeOK
  <1>8. Masks' /\ OneHandlerEach'
    <2>1. base' = "user" => mask' = {}
      BY <1>3, <1>4, <1>5
    <2> QED
      BY <1>1, <1>2, <2>1 DEF Masks, OneHandlerEach
  <1>9. Boot'
    BY <1>1, <1>3, <1>4, <1>5 DEF Boot
  <1>10. RestartIsOutermost'
    BY <1>1 DEF RestartIsOutermost
  <1>11. OwnRegisters'
    BY <1>1, <1>3, <1>4, <1>5 DEF OwnRegisters, TypeOK
  <1> QED
    BY <1>6, <1>7, <1>8, <1>9, <1>10, <1>11 DEF IInv

LEMMA LeaveStep ==
  ASSUME IInv, Leave
  PROVE  IInv'
  BY LeaveToUser, LeaveToKernel

LEMMA NextIInv ==
  ASSUME QuietBoot, IInv, [Next]_vars
  PROVE  IInv'
  <1>1. CASE \E n \in IRQ : Interrupt(n)
    BY <1>1, InterruptStep
  <1>2. CASE \E n \in IRQ : EnableIrq(n)
    BY <1>2, BootStep
  <1>3. CASE SysCall
    BY <1>3, SysCallStep
  <1>4. CASE Handler
    BY <1>4, HandlerStep
  <1>5. CASE Leave
    BY <1>5, LeaveStep
  <1>6. CASE SetCursor \/ FirstRestart
    BY <1>6, BootStep
  <1>7. CASE UNCHANGED vars
    BY <1>7 DEF vars, IInv, TypeOK, ReenterCounts, OneHandlerEach, Masks, InService,
                Boot, RestartIsOutermost, OwnRegisters, depth
  <1> QED
    BY <1>1, <1>2, <1>3, <1>4, <1>5, <1>6, <1>7 DEF Next

--------------------------------------------------------------------------------
THEOREM EntryInvariance ==
  ASSUME QuietBoot
  PROVE  Spec => []IInv
  BY InitIInv, NextIInv, PTL DEF Spec

(* The kernel stack holds frames of handlers, and rows hold registers.     *)
THEOREM TypeCorrect ==
  ASSUME QuietBoot
  PROVE  Spec => []TypeOK
  BY EntryInvariance, PTL DEF IInv

(* k_reenter counts the handlers in progress, whatever nests in what: what *)
(* save and clock_handler conclude from it is right.                       *)
THEOREM KReenterIsDepth ==
  ASSUME QuietBoot
  PROVE  Spec => []ReenterCounts
  BY EntryInvariance, PTL DEF IInv

(* No interrupt is handled twice at once, and none stays masked after its  *)
(* handler: the kernel stack holds one frame of each at most.              *)
THEOREM HandledOnce ==
  ASSUME QuietBoot
  PROVE  Spec => []OneHandlerEach
  BY EntryInvariance, PTL DEF IInv

(* restart, which drops the kernel stack, ends the outermost handler only. *)
THEOREM RestartDropsNothing ==
  ASSUME QuietBoot
  PROVE  Spec => []RestartIsOutermost
  BY EntryInvariance, PTL DEF IInv

(* A process always resumes with the registers it was interrupted with.    *)
THEOREM RegistersKept ==
  ASSUME QuietBoot
  PROVE  Spec => []OwnRegisters
  BY EntryInvariance, PTL DEF IInv

(* A handler never finds p_proc_ready changed by an interrupt nested in    *)
(* it: with k_reenter = 0 the clock is the outermost handler, and a trap   *)
(* comes from user mode only.                                              *)
THEOREM NestedHandlersKeepProc ==
  ASSUME QuietBoot
  PROVE  Spec => StableUnderNesting
  <1>1. ASSUME IInv, [Next]_vars, p_proc_ready' # p_proc_ready
        PROVE  depth = 1
    <2>1. Handler
      BY <1>1 DEF Next, vars, Interrupt, EnableIrq, SysCall, Leave, SetCursor, FirstRestart
    <2>2. depth \in Nat /\ depth > 0 /\ depth \in 1 .. depth
      BY <1>1, <2>1, DepthNat DEF IInv, Handler
    <2>3. CASE top.what = CALL
      BY <1>1, <2>2, <2>3 DEF IInv, Masks, top
    <2>4. CASE top.what = CLOCK /\ k_reenter = 0
      <3>1. base # "boot" => base = "user"
        BY <1>1, <2>2 DEF IInv, Boot, TypeOK
      <3>2. CASE base = "user"
        BY <1>1, <2>2, <2>4, <3>2 DEF IInv, ReenterCounts
      <3>3. CASE base = "boot"
        BY <1>1, <2>2, <2>4, <3>3 DEF IInv, ReenterCounts
      <3> QED
        BY <3>1, <3>2, <3>3
    <2> QED
      BY <1>1, <2>1, <2>3, <2>4 DEF Handler, schedules
  <1>2. IInv /\ [Next]_vars => [p_proc_ready' # p_proc_ready => depth = 1]_vars
    BY <1>1
  <1> QED
    BY <1>2, EntryInvariance, PTL DEF Spec, StableUnderNesting

================================================================================
