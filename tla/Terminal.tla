-------------------------------- MODULE Terminal --------------------------------
(***************************************************************************)
(* The terminal task and the consoles (kernel/tty/tty.c, console.c).       *)
(* task_tty reads a key for the current TTY, and writes what the ring of   *)
(* each TTY holds to its console.  The clock takes the processor away from *)
(* it between any two instructions, and the calls of other processes that  *)
(* write to a console (sys_write, printl) run in full before it goes on.   *)
(* So every read and every write the task makes of a CONSOLE is a step of  *)
(* its own, and a character written by a call is one step.                 *)
(*                                                                         *)
(* Positions are cells of the video memory, console after console.         *)
(***************************************************************************)
EXTENDS Integers, Sequences

CONSTANTS
  NR_CONSOLES,
  CONSOLE_SIZE,    (* v_mem_limit: cells of a console                        *)
  SCREEN_WIDTH,
  SCREEN_SIZE,     (* cells on the screen                                    *)
  TTY_IN_BYTES,    (* keys the ring of a TTY holds                           *)
  Written,         (* the consoles processes write to: their nr_tty          *)
  DISP_POS,        (* where the loader's output ended                        *)
  WORD             (* an unsigned int is a number below WORD                 *)

Consoles == 0 .. NR_CONSOLES - 1
Chars    == {"newline", "backspace", "letter"}
SCR_UP   == "up"
SCR_DN   == "down"

original_addr(c) == c * CONSOLE_SIZE
limit(c) == original_addr(c) + CONSOLE_SIZE
Area(c)  == original_addr(c) .. limit(c) - 1

ASSUME TerminalAssumption ==
  /\ NR_CONSOLES \in Nat \ {0}
  /\ SCREEN_WIDTH \in Nat \ {0}
  /\ SCREEN_SIZE \in Nat \ {0}
  /\ CONSOLE_SIZE \in Nat /\ SCREEN_SIZE <= CONSOLE_SIZE /\ SCREEN_WIDTH <= CONSOLE_SIZE
  /\ CONSOLE_SIZE > 2             (* init_tty() draws two characters           *)
  /\ TTY_IN_BYTES \in Nat \ {0}
  /\ Written \subseteq Consoles
  /\ DISP_POS \in Area(0)
  /\ WORD \in Nat /\ WORD >= NR_CONSOLES * CONSOLE_SIZE + SCREEN_SIZE + SCREEN_WIDTH

VARIABLES
  cursor,               (* of every console                                  *)
  current_start_addr,   (* the first cell of it on the screen                *)
  nr_current_console,
  crtc,                 (* the cursor and the start address set in the CRTC  *)
  inbuf,                (* the ring of every TTY, oldest key first           *)
  pc,                   (* the next instruction of the task, or "hung" when a
                           call never returns                                *)
  back,                 (* where the task goes on after flush                *)
  p_tty,                (* the TTY of the task's loop                        *)
  con,                  (* the console the task works on                     *)
  ch,                   (* the character it writes, or the way it scrolls    *)
  p_vmem,               (* the cell it will write to                         *)
  reg                   (* the value it has loaded                           *)

consoles == <<cursor, current_start_addr, nr_current_console, crtc>>
locals   == <<con, ch, p_vmem>>
vars == <<consoles, inbuf, pc, back, p_tty, locals, reg>>

(* init_tty() has drawn the number of each console but the first, and      *)
(* selected console 0.                                                     *)
Init ==
  /\ cursor = [c \in Consoles |-> IF c = 0 THEN DISP_POS ELSE original_addr(c) + 2]
  /\ current_start_addr = [c \in Consoles |-> original_addr(c)]
  /\ nr_current_console = 0
  /\ crtc = [cursor |-> DISP_POS, start |-> original_addr(0)]
  /\ inbuf = [c \in Consoles |-> <<>>]
  /\ pc = "read"
  /\ back = "read"
  /\ p_tty = 0
  /\ con = 0
  /\ ch = "letter"
  /\ p_vmem = 0
  /\ reg = 0

--------------------------------------------------------------------------------
(* What out_char() does with a cursor, in unsigned ints.                   *)
fitsAlways(c, k, at) == TRUE   \* mutant
fitsOneMore(c, k, at) ==   \* mutant
  CASE k = "newline"   -> at < limit(c) - SCREEN_WIDTH
    [] k = "backspace" -> at > original_addr(c)
    [] OTHER           -> at < limit(c)
fits(c, k, at) ==
  CASE k = "newline"   -> at < limit(c) - SCREEN_WIDTH
    [] k = "backspace" -> at > original_addr(c)
    [] OTHER           -> at < limit(c) - 1

moved(c, k, at) ==
  CASE k = "newline"   -> (original_addr(c) + SCREEN_WIDTH *
                            (((at - original_addr(c)) % WORD) \div SCREEN_WIDTH + 1)) % WORD
    [] k = "backspace" -> (at - 1) % WORD
    [] OTHER           -> (at + 1) % WORD

(* scroll_screen()                                                         *)
scrollsTooFew(c, way, start) ==   \* mutant
  IF way = SCR_DN THEN start + SCREEN_SIZE + SCREEN_WIDTH < limit(c)
  ELSE start > original_addr(c)
scrolls(c, way, start) ==
  IF way = SCR_DN THEN start + SCREEN_SIZE < limit(c) ELSE start > original_addr(c)
scrolled(way, start) ==
  IF way = SCR_DN THEN start + SCREEN_WIDTH ELSE start - SCREEN_WIDTH

below(at, start) == at >= start + SCREEN_SIZE

--------------------------------------------------------------------------------
(* tty_do_read(): keyboard_read() has a key, or none; in_process() puts it *)
(* into the ring, scrolls, or selects another console.                     *)
put_key(c, k) ==
  inbuf' = IF Len(inbuf[c]) < TTY_IN_BYTES
           THEN [inbuf EXCEPT ![c] = Append(@, k)] ELSE inbuf

isTTY(c) == TRUE   \* mutant
is_current_console(c) == c = nr_current_console

Read ==
  /\ pc = "read"
  /\ \/ pc' = "write" /\ UNCHANGED <<inbuf, back, con, ch, nr_current_console>>
     \/ /\ is_current_console(p_tty)
        /\ \/ /\ \E k \in Chars : put_key(p_tty, k)
              /\ pc' = "write"
              /\ UNCHANGED <<back, con, ch, nr_current_console>>
           \/ /\ ch' \in {SCR_UP, SCR_DN}
              /\ con' = p_tty
              /\ pc' = "scroll"
              /\ back' = "write"
              /\ UNCHANGED <<inbuf, nr_current_console>>
           \/ /\ nr_current_console' \in Consoles
              /\ con' = nr_current_console'
              /\ pc' = "flush"
              /\ back' = "write"
              /\ UNCHANGED <<inbuf, ch>>
  /\ UNCHANGED <<cursor, current_start_addr, crtc, p_tty, p_vmem, reg>>

(* Between out_char() calls the locals are dead; so are, after their use,   *)
(* p_vmem and reg.                                                         *)
dead == con' = 0 /\ ch' = "letter" /\ p_vmem' = 0 /\ back' = "read"
nextTTY == p_tty' = (p_tty + 1) % NR_CONSOLES /\ dead

hasKey(c) == inbuf[c] # <<>>

(* tty_do_write(), up to the first statement of out_char().                *)
Write ==
  /\ pc = "write"
  /\ IF ~hasKey(p_tty)
     THEN pc' = "read" /\ nextTTY /\ UNCHANGED inbuf
     ELSE /\ inbuf' = [inbuf EXCEPT ![p_tty] = Tail(@)]
          /\ con' = p_tty
          /\ ch' = Head(inbuf[p_tty])
          /\ p_vmem' = cursor[p_tty]
          /\ pc' = "test"
          /\ UNCHANGED <<p_tty, back>>
  /\ UNCHANGED <<consoles, reg>>

(* out_char(): the switch, its reads and writes of the cursor, and the     *)
(* loop that scrolls.                                                      *)
Test ==
  /\ pc = "test"
  /\ pc' = IF fits(con, ch, cursor[con]) THEN "load" ELSE "loop"
  /\ UNCHANGED <<consoles, inbuf, back, p_tty, locals, reg>>

Load ==
  /\ pc \in {"load", "loop"}
  /\ reg' = cursor[con]
  /\ pc' = IF pc = "load" THEN "store" ELSE "bound"
  /\ UNCHANGED <<consoles, inbuf, back, p_tty, locals>>

Store ==
  /\ pc = "store"
  /\ cursor' = [cursor EXCEPT ![con] = moved(con, ch, reg)]
  /\ pc' = "loop"
  /\ p_vmem' = 0 /\ reg' = 0
  /\ UNCHANGED <<current_start_addr, nr_current_console, crtc, inbuf, back, p_tty, con, ch>>

Bound ==
  /\ pc = "bound"
  /\ IF below(reg, current_start_addr[con])
     THEN pc' = "scroll" /\ back' = "loop" /\ ch' = SCR_DN
     ELSE pc' = "flush" /\ back' = "read" /\ UNCHANGED ch
  /\ p_vmem' = 0 /\ reg' = 0
  /\ UNCHANGED <<consoles, inbuf, p_tty, con>>

(* scroll_screen()                                                         *)
Scroll ==
  /\ \/ /\ pc = "scroll"
        /\ pc' = IF scrolls(con, ch, current_start_addr[con]) THEN "sload" ELSE "flush"
        /\ UNCHANGED <<current_start_addr, reg>>
     \/ /\ pc = "sload"
        /\ reg' = current_start_addr[con]
        /\ pc' = "sstore"
        /\ UNCHANGED current_start_addr
     \/ /\ pc = "sstore"
        /\ current_start_addr' = [current_start_addr EXCEPT ![con] = scrolled(ch, reg)]
        /\ pc' = "flush"
        /\ reg' = 0
  /\ UNCHANGED <<cursor, nr_current_console, crtc, inbuf, back, p_tty, locals>>

(* flush(): each of the two numbers is read, and then set in the CRTC with *)
(* interrupts off.                                                         *)
Flush ==
  /\ \/ /\ pc = "flush"
        /\ is_current_console(con)
        /\ reg' = cursor[con]
        /\ pc' = "cursor"
        /\ UNCHANGED <<crtc, p_tty, locals, back>>
     \/ /\ pc = "cursor"
        /\ crtc' = [crtc EXCEPT !.cursor = reg]
        /\ reg' = 0
        /\ pc' = "fload"
        /\ UNCHANGED <<p_tty, locals, back>>
     \/ /\ pc = "fload"
        /\ reg' = current_start_addr[con]
        /\ pc' = "start"
        /\ UNCHANGED <<crtc, p_tty, locals, back>>
     \/ /\ pc = "start" \/ (pc = "flush" /\ ~is_current_console(con))
        /\ crtc' = IF pc = "start" THEN [crtc EXCEPT !.start = reg] ELSE crtc
        /\ reg' = 0
        /\ pc' = back
        /\ CASE back = "read"  -> nextTTY
             [] back = "write" -> dead /\ UNCHANGED p_tty
             [] back = "loop"  -> UNCHANGED <<p_tty, locals, back>>
  /\ UNCHANGED <<cursor, current_start_addr, nr_current_console, inbuf>>

Task == Read \/ Write \/ Test \/ Load \/ Store \/ Bound \/ Scroll \/ Flush

--------------------------------------------------------------------------------
(* out_char() by a call of a process: all of it between two steps of the   *)
(* task.  When the screen can be scrolled no further and the cursor is     *)
(* still below it, the call never returns.                                 *)
flushed(c, at, start) ==
  IF is_current_console(c) THEN [cursor |-> at, start |-> start] ELSE crtc

CallWrite(c, k) ==
  LET at   == IF fits(c, k, cursor[c]) THEN moved(c, k, cursor[c]) ELSE cursor[c]
      s(n) == current_start_addr[c] + n * SCREEN_WIDTH
      rolls(n) == \A m \in 0 .. n - 1 : below(at, s(m)) /\ scrolls(c, SCR_DN, s(m))
  IN  /\ pc # "hung"
      /\ cursor' = [cursor EXCEPT ![c] = at]
      /\ \E n \in 0 .. CONSOLE_SIZE :
           /\ rolls(n) /\ ~rolls(n + 1)
           /\ current_start_addr' = [current_start_addr EXCEPT ![c] = s(n)]
           /\ crtc' = flushed(c, at, s(n))
           /\ pc' = IF below(at, s(n)) THEN "hung" ELSE pc
      /\ UNCHANGED <<nr_current_console, inbuf, back, p_tty, locals, reg>>

Next ==
  \/ Read
  \/ Write
  \/ Test
  \/ Load
  \/ Store
  \/ Bound
  \/ Scroll
  \/ Flush
  \/ \E c \in Written, k \in Chars : CallWrite(c, k)

Spec == Init /\ [][Next]_vars

(* The task has its share of the processor.                                *)
FairSpec == Spec /\ WF_vars(Task)

--------------------------------------------------------------------------------
TypeOK ==
  /\ cursor \in [Consoles -> 0 .. WORD - 1]
  /\ current_start_addr \in [Consoles -> 0 .. WORD - 1]
  /\ nr_current_console \in Consoles
  /\ crtc \in [cursor : 0 .. WORD - 1, start : 0 .. WORD - 1]
  /\ inbuf \in [Consoles -> Seq(Chars)]
  /\ pc \in {"read", "write", "test", "load", "store", "loop", "bound", "scroll",
             "sload", "sstore", "flush", "cursor", "fload", "start", "hung"}
  /\ back \in {"read", "write", "loop"}
  /\ p_tty \in Consoles
  /\ con \in Consoles
  /\ ch \in Chars \cup {SCR_UP, SCR_DN}
  /\ p_vmem \in 0 .. WORD - 1
  /\ reg \in 0 .. WORD - 1

(* console.h: v_mem_limit is "the size of the video memory the console     *)
(* takes", from original_addr on.  The cursor of a console that processes  *)
(* write to does not stay in it.                                           *)
CursorInside == \A c \in Consoles : cursor[c] \in Area(c)

(* On a console only the task writes to it does, although out_char() tests *)
(* the cursor before it reads it again to move it.                         *)
OwnCursorInside == \A c \in Consoles \ Written : cursor[c] \in Area(c)

(* There, out_char() draws into its own console, not into a neighbour's    *)
(* cells: the address it computed first is still right when it is used.    *)
DrawsInside ==
  con \notin Written =>
    /\ pc \in {"load", "store"} /\ ch = "letter" => p_vmem \in Area(con)
    /\ pc \in {"load", "store"} /\ ch = "backspace" => p_vmem - 1 \in Area(con)

(* What the CRTC shows is the cursor and the part of the current console,  *)
(* whenever the task is between two keys, if no process writes to it.      *)
ScreenFollows ==
  pc \in {"read", "write"} /\ nr_current_console \notin Written =>
    crtc = [cursor |-> cursor[nr_current_console],
            start |-> current_start_addr[nr_current_console]]

(* A key is written to the console it was typed at before the next one is  *)
(* read, so a ring never holds two and put_key() never drops one.          *)
OneKey == \A c \in Consoles :
  Len(inbuf[c]) <= (IF pc \in {"write", "hung"} /\ c = p_tty THEN 1 ELSE 0)

(* The loop that scrolls ends: every key is dealt with, unless a call of a *)
(* process has stopped the system.                                         *)
EveryKeyEnds ==
  (pc \notin {"read", "write"} /\ con \notin Written) ~> (pc \in {"read", "write", "hung"})

================================================================================
