-------------------------------- MODULE ProcLife --------------------------------
(***************************************************************************)
(* What the process calls promise, each as one step: who is alive, who     *)
(* waits, whose exit status is kept for whom, what every call answers, and *)
(* that the answer is there when the caller runs.  ProcTable implements    *)
(* it, with its traps, its scheduler, its clock and its saved registers.   *)
(*                                                                         *)
(* The family is by slot number, as in the code: the child of a slot stays *)
(* its child when the slot is given to another process.                    *)
(***************************************************************************)
EXTENDS Integers

CONSTANTS
  Slots,       (* process numbers                                           *)
  Natives,     (* alive from the start                                      *)
  Callers,     (* the processes that make calls                             *)
  ExitStatus,  (* the statuses programs pass to exit                        *)
  Results,     (* what exec answers                                         *)
  None,        (* no answer: the program has it, or its call is not over    *)
  Kernel       (* nobody runs: a call is over, but nobody was resumed yet   *)

VARIABLES
  life,        (* "free", "live", "blocked" in wait, or "zombie"            *)
  parent,
  status,      (* of a zombie                                               *)
  answer,      (* of the last call of a process, until it has gone on       *)
  running      (* the process that has the processor, or Kernel             *)

vars == <<life, parent, status, answer, running>>

Init ==
  /\ life = [p \in Slots |-> IF p \in Natives THEN "live" ELSE "free"]
  /\ parent = [p \in Slots |-> 0]
  /\ status = [p \in Slots |-> 0]
  /\ answer = [p \in Slots |-> None]
  /\ running \in Natives

Children(p) == {c \in Slots : parent[c] = p}
Zombies(p)  == {c \in Children(p) : life[c] = "zombie"}

(* Nobody but the process that runs takes its answer and goes on, to a     *)
(* call or until another live process takes its turn.                      *)
GoOn(p) ==
  /\ running = p
  /\ answer' = [answer EXCEPT ![p] = None]
  /\ \E q \in Slots : life[q] = "live" /\ running' = q
  /\ UNCHANGED <<life, parent, status>>

(* The process that runs makes a call when it has taken the last answer.   *)
Calls(p) ==
  /\ running = p /\ life[p] = "live" /\ answer[p] = None
  /\ running' = Kernel

(* After a call a live process is resumed, not always the caller.          *)
Resume(q) ==
  /\ running = Kernel /\ life[q] = "live"
  /\ running' = q
  /\ UNCHANGED <<life, parent, status, answer>>

(* fork answers the child's number to the parent and 0 to the child, or -1 *)
(* when every slot is taken.                                               *)
Fork(p) ==
  /\ Calls(p)
  /\ \/ \E c \in Slots :
          /\ life[c] = "free"
          /\ life' = [life EXCEPT ![c] = "live"]
          /\ parent' = [parent EXCEPT ![c] = p]
          /\ status' = [status EXCEPT ![c] = status[p]]
          /\ answer' = [answer EXCEPT ![c] = 0, ![p] = c]
     \/ /\ \A c \in Slots : life[c] # "free"
        /\ answer' = [answer EXCEPT ![p] = -1]
        /\ UNCHANGED <<life, parent, status>>

(* wait answers the status of a zombie child, whose slot is free again;    *)
(* without one it blocks, with no answer yet, if any slot names p as its   *)
(* parent, or answers 0.                                                   *)
Wait(p) ==
  /\ Calls(p)
  /\ \/ \E c \in Zombies(p) :
          /\ life' = [life EXCEPT ![c] = "free"]
          /\ answer' = [answer EXCEPT ![p] = status[c]]
     \/ /\ Zombies(p) = {} /\ Children(p) = {}
        /\ answer' = [answer EXCEPT ![p] = 0]
        /\ UNCHANGED life
     \/ /\ Zombies(p) = {} /\ Children(p) # {}
        /\ life' = [life EXCEPT ![p] = "blocked"]
        /\ UNCHANGED answer
  /\ UNCHANGED <<parent, status>>

(* exit answers the wait of a blocked parent; otherwise the caller stays,  *)
(* with its status, until it is waited for.                                *)
Exit(p) ==
  /\ Calls(p)
  /\ \E s \in ExitStatus :
       /\ status' = [status EXCEPT ![p] = s]
       /\ IF life[parent[p]] = "blocked"
          THEN /\ life' = [life EXCEPT ![parent[p]] = "live", ![p] = "free"]
               /\ answer' = [answer EXCEPT ![parent[p]] = s]
          ELSE /\ life' = [life EXCEPT ![p] = "zombie"]
               /\ UNCHANGED answer
  /\ UNCHANGED parent

(* Every other call only answers.                                          *)
Answer(p) ==
  /\ Calls(p)
  /\ \E r \in Results : answer' = [answer EXCEPT ![p] = r]
  /\ UNCHANGED <<life, parent, status>>

Next ==
  \/ \E p \in Slots : GoOn(p) \/ Resume(p)
  \/ \E p \in Callers : Fork(p) \/ Wait(p) \/ Exit(p) \/ Answer(p)

Spec == Init /\ [][Next]_vars
================================================================================
