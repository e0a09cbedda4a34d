----------------------------- MODULE ScheduleProofs -----------------------------
(***************************************************************************)
(* Proofs about Schedule: for any table, any ticks and any number of ticks *)
(* of the clock during the call.                                           *)
(***************************************************************************)
EXTENDS Schedule, TLAPS

(* The runnable slots the scan has passed.                                 *)
scanned == {q \in runnable : q < p}

(* What the scan knows: nothing passed beats greatest_ticks, or the slot   *)
(* it is taking, by more than the ticks that came.                         *)
Scan ==
  pc \in {"compare", "take", "choose", "end", "done"} =>
    \A q \in scanned : ticks[q] <= greatest_ticks + late

Taking ==
  /\ pc \in {"take", "choose"} => p \in runnable
  /\ pc \in {"take", "choose"} => \A q \in scanned : ticks[q] <= ticks[p] + late
  /\ pc = "choose" => ticks[p] <= greatest_ticks /\ greatest_ticks <= ticks[p] + late

(* greatest_ticks is not zero only if a slot of this scan was chosen.      *)
Chosen ==
  pc \in {"compare", "take", "end", "done"} /\ greatest_ticks # 0 =>
    /\ p_proc_ready \in runnable
    /\ greatest_ticks <= ticks[p_proc_ready] + late
    /\ \A q \in scanned : ticks[q] <= ticks[p_proc_ready] + late

Position ==
  /\ pc \in {"end", "done"} => p = NR_TASKS + NR_PROCS
  /\ pc = "done" => greatest_ticks # 0
  /\ pc = "refill" => greatest_ticks = 0

IInv == TypeOK /\ Scan /\ Taking /\ Chosen /\ Position

LEMMA Numbers ==
  /\ NR_TASKS + NR_PROCS \in Nat
  /\ 0 \in Slots
  /\ Slots \subseteq Nat
  /\ \A q : q \in Slots <=> q \in Int /\ 0 <= q /\ q < NR_TASKS + NR_PROCS
  BY ScheduleAssumption DEF Slots

LEMMA InitIInv == Init => IInv
  <1> SUFFICES ASSUME Init PROVE IInv
    OBVIOUS
  <1>1. scanned = {}
    <2>1. p = 0 /\ \A q \in runnable : q \in Slots
      BY DEF Init
    <2> QED
      BY <2>1, Numbers DEF scanned
  <1>2. priority \in [Slots -> Nat]
    <2>1. {0, USER_TICKS, TASK_TICKS} \subseteq Nat
      BY ScheduleAssumption
    <2>2. priority \in [Slots -> {0, USER_TICKS, TASK_TICKS}]
      BY DEF Init
    <2> QED
      BY <2>1, <2>2
  <1>3. ticks \in [Slots -> Int] /\ before \in [Slots -> Int]
    <2>1. ticks \in [Slots -> -MaxDebt .. TASK_TICKS + USER_TICKS] /\ before = ticks
      BY DEF Init
    <2> QED
      BY <2>1
  <1>4. TypeOK
    <2>1. runnable \subseteq Slots /\ p_proc_ready \in Slots
      BY DEF Init
    <2>2. p = 0 /\ greatest_ticks = 0 /\ pc = "compare" /\ late = 0
      BY DEF Init
    <2> QED
      BY <1>2, <1>3, <2>1, <2>2, Numbers, ScheduleAssumption DEF TypeOK
  <1>5. Scan /\ Taking /\ Chosen /\ Position
    BY <1>1 DEF Init, Scan, Taking, Chosen, Position
  <1> QED
    BY <1>4, <1>5 DEF IInv

(* On to the next slot: it is passed from now on.                          *)
LEMMA Advanced ==
  ASSUME IInv, p \in Slots, advance, UNCHANGED runnable
  PROVE  /\ p' \in 0 .. NR_TASKS + NR_PROCS
         /\ pc' \in {"compare", "end"}
         /\ pc' = "compare" => p' \in Slots
         /\ pc' = "end" => p' = NR_TASKS + NR_PROCS
         /\ \A q \in scanned' : q \in scanned \/ (q = p /\ q \in runnable)
  <1>1. p' = p + 1 /\ pc' = IF p + 1 \in Slots THEN "compare" ELSE "end"
    BY DEF advance
  <1>2. runnable' \subseteq Slots
    BY DEF IInv, TypeOK
  <1> QED
    BY <1>1, <1>2, Numbers DEF scanned

LEMMA CompareStep ==
  ASSUME IInv, Compare
  PROVE  IInv'
  <1>1. /\ pc = "compare" /\ p \in Slots /\ TypeOK
        /\ UNCHANGED <<runnable, priority, before, ticks, p_proc_ready, greatest_ticks, late>>
    BY DEF Compare, IInv, TypeOK, table
  <1>2. CASE compares(p) /\ pc' = "take" /\ p' = p
    <2>1. TypeOK'
      BY <1>1, <1>2 DEF TypeOK
    <2>2. scanned' = scanned
      BY <1>1, <1>2 DEF scanned
    <2>3. Scan'
      BY <1>1, <1>2, <2>2 DEF IInv, Scan
    <2>4. \A q \in scanned : ticks[q] <= ticks[p] + late
      <3> SUFFICES ASSUME NEW q \in scanned PROVE ticks[q] <= ticks[p] + late
        OBVIOUS
      <3>1. ticks[q] \in Int /\ ticks[p] \in Int /\ late \in Int /\ greatest_ticks \in Int
        BY <1>1, ScheduleAssumption DEF TypeOK, scanned
      <3>2. ticks[q] <= greatest_ticks + late /\ ticks[p] > greatest_ticks
        BY <1>1, <1>2 DEF IInv, Scan, compares
      <3> QED
        BY <3>1, <3>2
    <2>5. Taking'
      BY <1>1, <1>2, <2>2, <2>4 DEF Taking, compares
    <2>6. Chosen'
      BY <1>1, <1>2, <2>2 DEF IInv, Chosen
    <2>7. Position'
      BY <1>2 DEF Position
    <2> QED
      BY <2>1, <2>3, <2>5, <2>6, <2>7 DEF IInv
  <1>3. CASE ~compares(p) /\ advance
    <2>1. /\ p' \in 0 .. NR_TASKS + NR_PROCS
          /\ pc' \in {"compare", "end"}
          /\ pc' = "compare" => p' \in Slots
          /\ pc' = "end" => p' = NR_TASKS + NR_PROCS
          /\ \A q \in scanned' : q \in scanned \/ (q = p /\ q \in runnable)
      BY <1>1, <1>3, Advanced
    <2>2. TypeOK'
      BY <1>1, <2>1 DEF TypeOK
    <2>3. ASSUME NEW q \in scanned'
          PROVE  /\ ticks[q] \in Int /\ greatest_ticks \in Int /\ late \in Nat
                 /\ ticks[q] <= greatest_ticks + late
      <3>1. ticks[q] \in Int /\ ticks[p] \in Int /\ late \in Nat /\ greatest_ticks \in Int
        BY <1>1, <2>1, ScheduleAssumption DEF TypeOK, scanned
      <3>2. CASE q \in scanned
        BY <1>1, <3>1, <3>2 DEF IInv, Scan
      <3>3. CASE q = p /\ q \in runnable
        BY <1>3, <3>1, <3>3 DEF compares
      <3> QED
        BY <2>1, <3>1, <3>2, <3>3
    <2>4. Scan'
      BY <1>1, <2>3 DEF Scan
    <2>5. Taking' /\ Position'
      BY <2>1 DEF Taking, Position
    <2>6. Chosen'
      <3> SUFFICES ASSUME greatest_ticks # 0
                   PROVE  /\ p_proc_ready \in runnable
                          /\ greatest_ticks <= ticks[p_proc_ready] + late
                          /\ \A q \in scanned' : ticks[q] <= ticks[p_proc_ready] + late
        BY <1>1 DEF Chosen
      <3>1. /\ p_proc_ready \in runnable
            /\ greatest_ticks <= ticks[p_proc_ready] + late
            /\ \A q \in scanned : ticks[q] <= ticks[p_proc_ready] + late
        BY <1>1 DEF IInv, Chosen
      <3>2. ASSUME NEW q \in scanned' PROVE ticks[q] <= ticks[p_proc_ready] + late
        <4>1. CASE q \in scanned
          BY <3>1, <4>1
        <4>2. CASE q = p /\ q \in runnable
          <5>1. ticks[q] <= greatest_ticks
            BY <1>1, <1>3, <4>2 DEF compares, TypeOK
          <5>2. ticks[q] \in Int /\ ticks[p_proc_ready] + late \in Int /\ greatest_ticks \in Int
            BY <1>1, <4>2, ScheduleAssumption DEF TypeOK
          <5> QED
            BY <3>1, <5>1, <5>2
        <4> QED
          BY <2>1, <4>1, <4>2
      <3> QED
        BY <3>1, <3>2
    <2> QED
      BY <2>2, <2>4, <2>5, <2>6 DEF IInv
  <1> QED
    BY <1>2, <1>3 DEF Compare

LEMMA TakeStep ==
  ASSUME IInv, Take
  PROVE  IInv'
  <1>1. /\ pc = "take" /\ p \in Slots /\ TypeOK /\ pc' = "choose"
        /\ greatest_ticks' = ticks[p] /\ ticks[p] \in Int /\ late \in Nat
        /\ UNCHANGED <<runnable, priority, before, ticks, p_proc_ready, p, late>>
    BY ScheduleAssumption DEF Take, IInv, TypeOK, table
  <1>2. TypeOK'
    BY <1>1 DEF TypeOK
  <1>3. scanned' = scanned
    BY <1>1 DEF scanned
  <1>4. Scan' /\ Taking'
    BY <1>1, <1>3 DEF IInv, Scan, Taking
  <1>5. Chosen' /\ Position'
    BY <1>1 DEF Chosen, Position
  <1> QED
    BY <1>2, <1>4, <1>5 DEF IInv

LEMMA ChooseStep ==
  ASSUME IInv, Choose
  PROVE  IInv'
  <1>1. /\ pc = "choose" /\ p \in Slots /\ TypeOK /\ advance
        /\ p_proc_ready' = p /\ p \in runnable
        /\ UNCHANGED <<runnable, priority, before, ticks, greatest_ticks, late>>
    BY DEF Choose, IInv, TypeOK, Taking, table
  <1>2. /\ p' \in 0 .. NR_TASKS + NR_PROCS
        /\ pc' \in {"compare", "end"}
        /\ pc' = "compare" => p' \in Slots
        /\ pc' = "end" => p' = NR_TASKS + NR_PROCS
        /\ \A q \in scanned' : q \in scanned \/ (q = p /\ q \in runnable)
    BY <1>1, Advanced
  <1>3. TypeOK'
    BY <1>1, <1>2 DEF TypeOK
  <1>4. ticks[p] \in Int /\ late \in Nat /\ greatest_ticks \in Int
    BY <1>1, ScheduleAssumption DEF TypeOK
  <1>5. Taking' /\ Position'
    BY <1>2 DEF Taking, Position
  <1>6. \A q \in scanned' : ticks[q] <= ticks[p] + late
    BY <1>1, <1>2, <1>4 DEF IInv, Taking
  <1>7. greatest_ticks <= ticks[p] + late
    BY <1>1 DEF IInv, Taking
  <1>8. Chosen'
    BY <1>1, <1>6, <1>7 DEF Chosen
  <1>9. Scan'
    <2>1. ticks[p] <= greatest_ticks
      BY <1>1 DEF IInv, Taking
    <2>2. \A q \in scanned' : ticks[q] <= greatest_ticks + late
      BY <1>1, <1>2, <1>4, <2>1 DEF IInv, Scan
    <2> QED
      BY <1>1, <2>2 DEF Scan
  <1> QED
    BY <1>3, <1>5, <1>8, <1>9 DEF IInv

LEMMA EndStep ==
  ASSUME IInv, End
  PROVE  IInv'
  <1>1. /\ pc = "end" /\ TypeOK /\ p = NR_TASKS + NR_PROCS
        /\ UNCHANGED <<runnable, priority, before, ticks, p_proc_ready, greatest_ticks, late>>
    BY DEF End, IInv, Position, table
  <1>2. CASE greatest_ticks = 0 /\ pc' = "refill" /\ p' = 0
    <2>1. TypeOK'
      BY <1>1, <1>2, Numbers DEF TypeOK
    <2> QED
      BY <1>1, <1>2, <2>1 DEF IInv, Scan, Taking, Chosen, Position
  <1>3. CASE greatest_ticks # 0 /\ pc' = "done" /\ p' = p
    <2>1. TypeOK' /\ scanned' = scanned
      BY <1>1, <1>3 DEF TypeOK, scanned
    <2> QED
      BY <1>1, <1>3, <2>1 DEF IInv, Scan, Taking, Chosen, Position
  <1> QED
    BY <1>2, <1>3 DEF End

LEMMA RefillStep ==
  ASSUME IInv, Refill
  PROVE  IInv'
  <1>1. /\ pc = "refill" /\ p \in Slots /\ TypeOK /\ greatest_ticks = 0
        /\ ticks' = [ticks EXCEPT ![p] = priority[p]]
        /\ UNCHANGED <<runnable, priority, before, p_proc_ready, greatest_ticks, late>>
    BY DEF Refill, IInv, TypeOK, Position, table, refilled
  <1>2. ticks' \in [Slots -> Int]
    BY <1>1 DEF TypeOK
  <1>3. \/ p' \in Slots /\ pc' = "refill"
        \/ p' = 0 /\ pc' = "compare"
    BY <1>1, Numbers DEF Refill
  <1>4. TypeOK'
    BY <1>1, <1>2, <1>3, Numbers DEF TypeOK
  <1>5. pc' = "compare" => scanned' = {}
    <2> SUFFICES ASSUME pc' = "compare" PROVE scanned' = {}
      OBVIOUS
    <2>1. p' = 0 /\ \A q \in runnable' : q \in Slots
      BY <1>1, <1>3 DEF TypeOK
    <2> QED
      BY <2>1, Numbers DEF scanned
  <1> QED
    BY <1>1, <1>3, <1>4, <1>5 DEF IInv, Scan, Taking, Chosen, Position

(* A tick takes one from one slot and adds one to late.                    *)
LEMMA NestedTickStep ==
  ASSUME IInv, NestedTick
  PROVE  IInv'
  <1>1. /\ TypeOK /\ late' = late + 1 /\ late \in Nat /\ greatest_ticks \in Int
        /\ ticks' = [ticks EXCEPT ![p_proc_ready] = @ - 1]
        /\ UNCHANGED <<runnable, priority, before, p_proc_ready, p, greatest_ticks, pc>>
    BY ScheduleAssumption DEF NestedTick, IInv, TypeOK, table
  <1>2. \A q \in Slots : /\ ticks[q] \in Int /\ ticks'[q] \in Int
                         /\ ticks'[q] <= ticks[q] /\ ticks[q] <= ticks'[q] + 1
    BY <1>1 DEF TypeOK
  <1>3. scanned' = scanned /\ scanned \subseteq Slots
    BY <1>1 DEF scanned, TypeOK
  <1>4. TypeOK'
    <2>1. late' \in 0 .. MaxLate
      BY <1>1, ScheduleAssumption DEF NestedTick
    <2>2. ticks' \in [Slots -> Int]
      BY <1>1 DEF TypeOK
    <2> QED
      BY <1>1, <2>1, <2>2 DEF TypeOK
  <1>5. \A q, r \in Slots : ticks[q] <= ticks[r] + late => ticks'[q] <= ticks'[r] + late'
    BY <1>1, <1>2
  <1>6. \A q \in Slots : greatest_ticks <= ticks[q] + late => greatest_ticks <= ticks'[q] + late'
    BY <1>1, <1>2
  <1>7. \A q \in Slots : ticks[q] <= greatest_ticks + late => ticks'[q] <= greatest_ticks + late'
    BY <1>1, <1>2
  <1>8. \A q \in Slots : ticks[q] <= greatest_ticks => ticks'[q] <= greatest_ticks
    BY <1>1, <1>2
  <1>9. pc \in {"take", "choose"} => p \in Slots
    BY <1>1 DEF TypeOK
  <1>10. Scan'
    BY <1>1, <1>3, <1>7 DEF IInv, Scan
  <1>11. Taking'
    BY <1>1, <1>3, <1>5, <1>6, <1>8, <1>9 DEF IInv, Taking
  <1>12. Chosen'
    BY <1>1, <1>3, <1>5, <1>6 DEF IInv, Chosen, TypeOK
  <1>13. Position'
    BY <1>1 DEF IInv, Position
  <1> QED
    BY <1>4, <1>10, <1>11, <1>12, <1>13 DEF IInv

LEMMA NextIInv == IInv /\ [Next]_vars => IInv'
  <1>1. ASSUME IInv, UNCHANGED vars PROVE IInv'
    BY <1>1 DEF vars, table, IInv, TypeOK, Scan, Taking, Chosen, Position, scanned
  <1> QED
    BY <1>1, CompareStep, TakeStep, ChooseStep, EndStep, RefillStep, NestedTickStep DEF Next

--------------------------------------------------------------------------------
THEOREM ScheduleInvariance == Spec => []IInv
  BY InitIInv, NextIInv, PTL DEF Spec

(* The scan stays inside the table, and counts stay counts.                *)
THEOREM TypeCorrect == Spec => []TypeOK
  BY ScheduleInvariance, PTL DEF IInv

(* schedule() returns with a process that can run, for any number of ticks *)
(* that come during the scan and the refills.                              *)
THEOREM ChoosesRunnable == Spec => []ChosenIsRunnable
  <1>1. IInv => ChosenIsRunnable
    BY DEF IInv, Position, Chosen, ChosenIsRunnable
  <1> QED
    BY <1>1, ScheduleInvariance, PTL

(* ... and the choice is off by no more ticks than came.                   *)
THEOREM ChoosesBest == Spec => []ChosenIsBest
  <1>1. ASSUME IInv, pc = "done", NEW q \in runnable
        PROVE  ticks[q] <= ticks[p_proc_ready] + late
    <2>1. q \in scanned
      BY <1>1, Numbers DEF IInv, Position, TypeOK, scanned
    <2> QED
      BY <1>1, <2>1 DEF IInv, Position, Chosen
  <1>2. IInv => ChosenIsBest
    BY <1>1 DEF ChosenIsBest
  <1> QED
    BY <1>2, ScheduleInvariance, PTL

--------------------------------------------------------------------------------
(* While no tick has come the scan is exact: which slot it has chosen, and *)
(* which table it has scanned, the one of the call or, when nobody there   *)
(* had ticks left, the refilled one.                                       *)
NobodyReady == \A q \in runnable : before[q] <= 0

Exact ==
  /\ greatest_ticks >= 0
  /\ pc # "refill" => ticks = before \/ (NobodyReady /\ ticks = priority)
  /\ pc = "refill" => NobodyReady /\ \A q \in Slots : q < p => ticks[q] = priority[q]
  /\ pc = "take" => greatest_ticks < ticks[p] /\ \A q \in scanned : ticks[q] < ticks[p]
  /\ pc = "choose" => /\ 0 < greatest_ticks /\ ticks[p] = greatest_ticks
                      /\ \A q \in scanned : ticks[q] < ticks[p]

FirstBest ==
  pc \in {"compare", "take", "end"} /\ greatest_ticks # 0 =>
    /\ p_proc_ready \in scanned
    /\ ticks[p_proc_ready] = greatest_ticks
    /\ \A q \in scanned : ticks[q] <= greatest_ticks
    /\ \A q \in scanned : q < p_proc_ready => ticks[q] < greatest_ticks

Undisturbed == late = 0 => Exact /\ FirstBest

LEMMA InitUndisturbed == Init => Undisturbed
  <1> SUFFICES ASSUME Init PROVE Exact /\ FirstBest
    BY DEF Undisturbed
  <1> QED
    BY DEF Init, Exact, FirstBest

(* What the steps without a tick leave alone.                              *)
LEMMA Still ==
  ASSUME IInv, Undisturbed, late' = 0, Loop
  PROVE  /\ late = 0 /\ Exact /\ FirstBest /\ TypeOK
         /\ UNCHANGED <<runnable, priority, before>>
  BY DEF Undisturbed, IInv, Loop, Compare, Take, Choose, End, Refill, table

LEMMA CompareUndisturbed ==
  ASSUME IInv, Undisturbed, Compare
  PROVE  Undisturbed'
  <1> SUFFICES ASSUME late' = 0 PROVE Exact' /\ FirstBest'
    BY DEF Undisturbed
  <1>1. /\ pc = "compare" /\ p \in Slots /\ late = 0 /\ Exact /\ FirstBest /\ TypeOK
        /\ UNCHANGED <<runnable, priority, before, ticks, p_proc_ready, greatest_ticks>>
    BY Still DEF Compare, TypeOK, Loop
  <1>2. ticks[p] \in Int /\ greatest_ticks \in Int /\ p \in Int
    BY <1>1, Numbers DEF TypeOK
  <1>3. \A q \in scanned : ticks[q] \in Int /\ q \in Int /\ q < p
    BY <1>1, Numbers DEF scanned, TypeOK
  <1>4. \A q \in scanned : ticks[q] <= greatest_ticks
    BY <1>1, <1>2, <1>3 DEF IInv, Scan
  <1>5. CASE compares(p) /\ pc' = "take" /\ p' = p
    <2>1. scanned' = scanned
      BY <1>1, <1>5 DEF scanned
    <2>2. \A q \in scanned : ticks[q] < ticks[p]
      BY <1>2, <1>3, <1>4, <1>5 DEF compares
    <2>3. Exact'
      BY <1>1, <1>2, <1>5, <2>1, <2>2 DEF Exact, NobodyReady, compares
    <2>4. FirstBest'
      BY <1>1, <1>5, <2>1 DEF FirstBest
    <2> QED
      BY <2>3, <2>4
  <1>6. CASE ~compares(p) /\ advance
    <2>1. /\ pc' \in {"compare", "end"}
          /\ \A q \in scanned' : q \in scanned \/ (q = p /\ q \in runnable)
      BY <1>1, <1>6, Advanced
    <2>2. \A q \in scanned : q \in scanned'
      BY <1>1, <1>2, <1>3, <1>6 DEF scanned, advance
    <2>3. Exact'
      BY <1>1, <2>1 DEF Exact, NobodyReady
    <2>4. p \in runnable => ticks[p] <= greatest_ticks
      BY <1>2, <1>6 DEF compares
    <2>5. ASSUME greatest_ticks # 0
          PROVE  /\ p_proc_ready \in scanned'
                 /\ ticks[p_proc_ready] = greatest_ticks
                 /\ \A q \in scanned' : ticks[q] <= greatest_ticks
                 /\ \A q \in scanned' : q < p_proc_ready => ticks[q] < greatest_ticks
      <3>1. /\ p_proc_ready \in scanned /\ ticks[p_proc_ready] = greatest_ticks
            /\ \A q \in scanned : q < p_proc_ready => ticks[q] < greatest_ticks
        BY <1>1, <2>5 DEF FirstBest
      <3>2. p_proc_ready \in Int /\ p_proc_ready < p
        BY <1>3, <3>1
      <3>3. ASSUME NEW q \in scanned'
            PROVE  /\ ticks[q] <= greatest_ticks
                   /\ q < p_proc_ready => ticks[q] < greatest_ticks
        <4>1. CASE q \in scanned
          BY <1>4, <3>1, <4>1
        <4>2. CASE q = p /\ q \in runnable
          BY <1>2, <2>4, <3>2, <4>2
        <4> QED
          BY <2>1, <4>1, <4>2
      <3> QED
        BY <2>2, <3>1, <3>3
    <2>6. FirstBest'
      BY <1>1, <2>5 DEF FirstBest
    <2> QED
      BY <2>3, <2>6
  <1> QED
    BY <1>5, <1>6 DEF Compare

LEMMA TakeUndisturbed ==
  ASSUME IInv, Undisturbed, Take
  PROVE  Undisturbed'
  <1> SUFFICES ASSUME late' = 0 PROVE Exact' /\ FirstBest'
    BY DEF Undisturbed
  <1>1. /\ pc = "take" /\ p \in Slots /\ late = 0 /\ Exact /\ TypeOK
        /\ pc' = "choose" /\ greatest_ticks' = ticks[p]
        /\ UNCHANGED <<runnable, priority, before, ticks, p>>
    BY Still DEF Take, TypeOK, Loop
  <1>2. ticks[p] \in Int /\ greatest_ticks \in Int
    BY <1>1 DEF TypeOK
  <1>3. scanned' = scanned
    BY <1>1 DEF scanned
  <1>4. /\ greatest_ticks >= 0 /\ greatest_ticks < ticks[p]
        /\ \A q \in scanned : ticks[q] < ticks[p]
        /\ ticks = before \/ (NobodyReady /\ ticks = priority)
    BY <1>1 DEF Exact
  <1>5. 0 < ticks[p] /\ ticks[p] >= 0
    BY <1>2, <1>4
  <1>6. Exact'
    BY <1>1, <1>3, <1>4, <1>5 DEF Exact, NobodyReady
  <1>7. FirstBest'
    BY <1>1 DEF FirstBest
  <1> QED
    BY <1>6, <1>7

LEMMA ChooseUndisturbed ==
  ASSUME IInv, Undisturbed, Choose
  PROVE  Undisturbed'
  <1> SUFFICES ASSUME late' = 0 PROVE Exact' /\ FirstBest'
    BY DEF Undisturbed
  <1>1. /\ pc = "choose" /\ p \in Slots /\ late = 0 /\ Exact /\ TypeOK
        /\ advance /\ p_proc_ready' = p
        /\ UNCHANGED <<runnable, priority, before, ticks, greatest_ticks>>
    BY Still DEF Choose, TypeOK, Loop
  <1>2. /\ pc' \in {"compare", "end"}
        /\ \A q \in scanned' : q \in scanned \/ (q = p /\ q \in runnable)
    BY <1>1, Advanced
  <1>3. p \in runnable
    BY <1>1 DEF IInv, Taking
  <1>4. ticks[p] \in Int /\ greatest_ticks \in Int /\ p \in Int
    BY <1>1, Numbers DEF TypeOK
  <1>5. \A q \in scanned : ticks[q] \in Int /\ q \in Int /\ q < p
    BY <1>1, Numbers DEF scanned, TypeOK
  <1>6. /\ greatest_ticks >= 0 /\ ticks[p] = greatest_ticks
        /\ \A q \in scanned : ticks[q] < ticks[p]
        /\ ticks = before \/ (NobodyReady /\ ticks = priority)
    BY <1>1 DEF Exact
  <1>7. Exact'
    BY <1>1, <1>2, <1>6 DEF Exact, NobodyReady
  <1>8. p \in scanned'
    BY <1>1, <1>3, <1>4 DEF scanned, advance
  <1>9. ASSUME NEW q \in scanned'
        PROVE  ticks[q] <= greatest_ticks /\ (q < p => ticks[q] < greatest_ticks)
    <2>1. CASE q \in scanned
      BY <1>4, <1>5, <1>6, <2>1
    <2>2. CASE q = p
      BY <1>4, <1>6, <2>2
    <2> QED
      BY <1>2, <2>1, <2>2
  <1>10. FirstBest'
    BY <1>1, <1>6, <1>8, <1>9 DEF FirstBest
  <1> QED
    BY <1>7, <1>10

(* A whole scan that chose nobody passed nobody with ticks left: in the    *)
(* table of the call, for the refill to come.                              *)
LEMMA EndUndisturbed ==
  ASSUME IInv, Undisturbed, End
  PROVE  Undisturbed'
  <1> SUFFICES ASSUME late' = 0 PROVE Exact' /\ FirstBest'
    BY DEF Undisturbed
  <1>1. /\ pc = "end" /\ late = 0 /\ Exact /\ TypeOK /\ p = NR_TASKS + NR_PROCS
        /\ UNCHANGED <<runnable, priority, before, ticks, p_proc_ready, greatest_ticks>>
    BY Still DEF End, Loop, IInv, Position
  <1>2. pc' \in {"refill", "done"}
    BY DEF End
  <1>3. FirstBest'
    BY <1>2 DEF FirstBest
  <1>4. ASSUME pc' = "refill"
        PROVE  NobodyReady /\ \A q \in Slots : q < p' => ticks[q] = priority[q]
    <2>1. greatest_ticks = 0 /\ p' = 0
      BY <1>4 DEF End
    <2>2. \A q \in Slots : ~(q < 0)
      BY Numbers
    <2>3. ticks = before => NobodyReady
      <3> SUFFICES ASSUME ticks = before, NEW q \in runnable PROVE before[q] <= 0
        BY DEF NobodyReady
      <3>1. q \in scanned /\ ticks[q] \in Int
        BY <1>1, Numbers DEF scanned, TypeOK
      <3>2. ticks[q] <= greatest_ticks + late
        BY <1>1, <3>1 DEF IInv, Scan
      <3> QED
        BY <1>1, <2>1, <3>1, <3>2
    <2> QED
      BY <1>1, <2>1, <2>2, <2>3 DEF Exact
  <1>5. Exact'
    BY <1>1, <1>2, <1>4 DEF Exact, NobodyReady
  <1> QED
    BY <1>3, <1>5

LEMMA RefillUndisturbed ==
  ASSUME IInv, Undisturbed, Refill
  PROVE  Undisturbed'
  <1> SUFFICES ASSUME late' = 0 PROVE Exact' /\ FirstBest'
    BY DEF Undisturbed
  <1>1. /\ pc = "refill" /\ p \in Slots /\ late = 0 /\ Exact /\ TypeOK
        /\ greatest_ticks = 0 /\ ticks' = [ticks EXCEPT ![p] = priority[p]]
        /\ UNCHANGED <<runnable, priority, before, greatest_ticks>>
    BY Still DEF Refill, TypeOK, Loop, IInv, Position, refilled
  <1>2. NobodyReady /\ \A q \in Slots : q < p => ticks[q] = priority[q]
    BY <1>1 DEF Exact
  <1>3. FirstBest'
    BY <1>1 DEF FirstBest
  <1>4. NobodyReady'
    BY <1>1, <1>2 DEF NobodyReady
  <1>5. \A q \in Slots : q < p + 1 => ticks'[q] = priority[q]
    BY <1>1, <1>2, Numbers DEF TypeOK
  <1>6. CASE p + 1 \in Slots /\ p' = p + 1 /\ pc' = pc
    BY <1>1, <1>3, <1>4, <1>5, <1>6 DEF Exact
  <1>7. CASE p + 1 \notin Slots /\ p' = 0 /\ pc' = "compare"
    <2>1. \A q \in Slots : q < p + 1
      BY <1>1, <1>7, Numbers
    <2>2. ticks' = priority
      BY <1>1, <1>5, <2>1 DEF TypeOK
    <2> QED
      BY <1>1, <1>3, <1>4, <1>7, <2>2 DEF Exact
  <1> QED
    BY <1>3, <1>6, <1>7 DEF Refill

LEMMA NextUndisturbed == IInv /\ Undisturbed /\ [Next]_vars => Undisturbed'
  <1>1. ASSUME IInv, NestedTick PROVE late' # 0
    BY <1>1, ScheduleAssumption DEF NestedTick, IInv, TypeOK
  <1>2. ASSUME IInv, Undisturbed, UNCHANGED vars PROVE Undisturbed'
    BY <1>2 DEF vars, table, Undisturbed, Exact, FirstBest, NobodyReady, scanned
  <1>3. ASSUME IInv, NestedTick PROVE Undisturbed'
    BY <1>1, <1>3 DEF Undisturbed
  <1> QED
    BY <1>2, <1>3, CompareUndisturbed, TakeUndisturbed, ChooseUndisturbed, EndUndisturbed,
       RefillUndisturbed DEF Next

(* The scan that ends the call, in a table without ticks in between.       *)
LEMMA LastScan ==
  ASSUME IInv, Undisturbed, Next, pc = "end", pc' = "done", late = 0
  PROVE  Table!schedule(flagsOf, before)
  <1> DEFINE full == IF Table!Ready(flagsOf, before) = {} THEN priority ELSE before
  <1>1. /\ greatest_ticks # 0 /\ TypeOK /\ Exact /\ FirstBest /\ p = NR_TASKS + NR_PROCS
        /\ UNCHANGED <<ticks, p_proc_ready>>
    BY DEF Next, End, Compare, Take, Choose, Refill, NestedTick, advance, Undisturbed, IInv,
           Position
  <1>2. \A t : Table!Ready(flagsOf, t) = {q \in runnable : t[q] > 0}
    BY <1>1 DEF Table!Ready, Table!Slots, Slots, flagsOf, TypeOK
  <1>3. scanned = runnable
    BY <1>1, Numbers DEF scanned, TypeOK
  <1>4. /\ p_proc_ready \in runnable /\ ticks[p_proc_ready] = greatest_ticks
        /\ greatest_ticks \in Int /\ greatest_ticks > 0
        /\ \A q \in runnable : ticks[q] <= greatest_ticks
        /\ \A q \in runnable : q < p_proc_ready => ticks[q] < greatest_ticks
    BY <1>1, <1>3 DEF FirstBest, Exact, TypeOK
  <1>5. ticks = full
    <2>1. Table!Ready(flagsOf, before) = {} <=> NobodyReady
      <3>1. \A q \in runnable : before[q] \in Int
        BY <1>1 DEF TypeOK
      <3> QED
        BY <1>2, <3>1 DEF NobodyReady
    <2>2. ticks = before => ~NobodyReady
      BY <1>4 DEF NobodyReady
    <2> QED
      BY <1>1, <2>1, <2>2 DEF Exact
  <1>6. p_proc_ready \in Table!Ready(flagsOf, ticks)
    BY <1>2, <1>4
  <1>7. ASSUME NEW q \in Table!Ready(flagsOf, ticks)
        PROVE  \/ ticks[q] < ticks[p_proc_ready]
               \/ ticks[q] = ticks[p_proc_ready] /\ p_proc_ready <= q
    <2>1. q \in runnable /\ ticks[q] \in Int /\ q \in Int /\ p_proc_ready \in Int
      BY <1>1, <1>2, Numbers DEF TypeOK
    <2> QED
      BY <1>4, <2>1
  <1>8. ticks' = full /\ p_proc_ready' = p_proc_ready
    BY <1>1, <1>5
  <1> QED
    BY <1>5, <1>6, <1>7, <1>8 DEF Table!schedule, Table!refill

(* The loop with its two writes of p_proc_ready, its rescans and its       *)
(* refills does, when no tick comes, what one step of ProcTable does: the  *)
(* first of the slots with most ticks left, in a table refilled only if    *)
(* nobody who can run had any.                                             *)
THEOREM ComputesOneStep == Spec => OneStep
  <1>1. Spec => []Undisturbed
    BY InitUndisturbed, NextUndisturbed, ScheduleInvariance, PTL DEF Spec
  <1>2. ASSUME IInv, Undisturbed, [Next]_vars
        PROVE  [pc = "end" /\ pc' = "done" /\ late = 0 => Table!schedule(flagsOf, before)]_vars
    BY <1>2, LastScan
  <1> QED
    BY <1>1, <1>2, ScheduleInvariance, PTL DEF Spec, OneStep

================================================================================
