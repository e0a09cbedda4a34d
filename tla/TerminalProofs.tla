----------------------------- MODULE TerminalProofs -----------------------------
(***************************************************************************)
(* The consoles that only the terminal task writes to, whatever processes  *)
(* do to the others between any two of its instructions: for every number  *)
(* and size of consoles and of the screen.                                 *)
(***************************************************************************)
EXTENDS Terminal, SequenceTheorems, TLAPS

Points == {"read", "write", "test", "load", "store", "loop", "bound", "scroll",
           "sload", "sstore", "flush", "cursor", "fload", "start", "hung"}

Types ==
  /\ cursor \in [Consoles -> Int]
  /\ current_start_addr \in [Consoles -> Int]
  /\ nr_current_console \in Consoles
  /\ crtc \in [cursor : Int, start : Int]
  /\ inbuf \in [Consoles -> Seq(Chars)]
  /\ pc \in Points
  /\ back \in {"read", "write", "loop"}
  /\ p_tty \in Consoles
  /\ con \in Consoles
  /\ ch \in Chars \cup {SCR_UP, SCR_DN}
  /\ p_vmem \in Int
  /\ reg \in Int

(* What out_char() has found out about its console is still so when it     *)
(* uses it: nobody else has moved the cursor.                              *)
Known ==
  con \notin Written =>
    /\ pc \in {"test", "load", "store"} => ch \in Chars /\ p_vmem = cursor[con]
    /\ pc \in {"load", "store"} => fits(con, ch, cursor[con])
    /\ pc = "store" => reg = cursor[con]

(* The CRTC shows the current console, except from where the task takes it *)
(* up to the end of its flush(), which sets first one number and then the  *)
(* other.                                                                  *)
Shown == crtc = [cursor |-> cursor[nr_current_console],
                 start |-> current_start_addr[nr_current_console]]

Following ==
  /\ pc \in {"cursor", "fload", "start"} => con = nr_current_console
  /\ nr_current_console \notin Written =>
       /\ pc \in {"read", "write"} \/ con # nr_current_console => Shown
       /\ pc = "cursor" => reg = cursor[con]
       /\ pc \in {"fload", "start"} => crtc.cursor = cursor[con]
       /\ pc = "start" => reg = current_start_addr[con]

IInv == Types /\ OwnCursorInside /\ Known /\ Following /\ OneKey

--------------------------------------------------------------------------------
LEMMA Constants ==
  /\ NR_CONSOLES \in Nat /\ CONSOLE_SIZE \in Nat /\ SCREEN_WIDTH \in Nat /\ SCREEN_SIZE \in Nat
  /\ NR_CONSOLES > 0 /\ SCREEN_WIDTH > 0 /\ SCREEN_SIZE > 0
  /\ SCREEN_SIZE <= CONSOLE_SIZE /\ SCREEN_WIDTH <= CONSOLE_SIZE
  /\ WORD \in Nat /\ WORD > 0
  /\ Consoles \subseteq Int
  /\ 0 \in Consoles
  /\ DISP_POS \in Area(0)
  <1>1. /\ NR_CONSOLES \in Nat /\ CONSOLE_SIZE \in Nat /\ SCREEN_WIDTH \in Nat
        /\ SCREEN_SIZE \in Nat /\ WORD \in Nat
        /\ NR_CONSOLES > 0 /\ SCREEN_WIDTH > 0 /\ SCREEN_SIZE > 0
        /\ SCREEN_SIZE <= CONSOLE_SIZE /\ SCREEN_WIDTH <= CONSOLE_SIZE
        /\ WORD >= NR_CONSOLES * CONSOLE_SIZE + SCREEN_SIZE + SCREEN_WIDTH
        /\ DISP_POS \in Area(0)
    BY TerminalAssumption
  <1>2. NR_CONSOLES * CONSOLE_SIZE \in Nat
    BY <1>1
  <1>3. WORD > 0
    BY <1>1, <1>2
  <1>4. Consoles \subseteq Int /\ 0 \in Consoles
    BY <1>1 DEF Consoles
  <1> QED
    BY <1>1, <1>3, <1>4

(* All cells of a console are numbers below WORD.                          *)
LEMMA AreaBelowWord ==
  ASSUME NEW c \in Consoles
  PROVE  /\ original_addr(c) \in Nat /\ limit(c) \in Nat
         /\ limit(c) = original_addr(c) + CONSOLE_SIZE
         /\ limit(c) <= WORD
  <1>1. /\ c \in Nat /\ c <= NR_CONSOLES - 1
    BY Constants DEF Consoles
  <1>2. WORD >= NR_CONSOLES * CONSOLE_SIZE + SCREEN_SIZE + SCREEN_WIDTH
    BY TerminalAssumption
  <1>3. c * CONSOLE_SIZE \in Nat
    BY <1>1, Constants
  <1>4. c * CONSOLE_SIZE + CONSOLE_SIZE <= NR_CONSOLES * CONSOLE_SIZE
    <2>1. PICK d \in Nat : NR_CONSOLES = c + 1 + d
      <3>1. NR_CONSOLES - c - 1 \in Nat /\ NR_CONSOLES = c + 1 + (NR_CONSOLES - c - 1)
        BY <1>1, Constants
      <3> QED
        BY <3>1
    <2>2. NR_CONSOLES * CONSOLE_SIZE = c * CONSOLE_SIZE + CONSOLE_SIZE + d * CONSOLE_SIZE
      BY <1>1, <2>1, Constants
    <2>3. d * CONSOLE_SIZE \in Nat
      BY <2>1, Constants
    <2> QED
      BY <1>1, <1>3, <2>2, <2>3, Constants
  <1>5. NR_CONSOLES * CONSOLE_SIZE \in Nat
    BY Constants
  <1> QED
    BY <1>2, <1>3, <1>4, <1>5, Constants DEF original_addr, limit

LEMMA MovedType ==
  ASSUME NEW c \in Consoles, NEW k, NEW at \in Int
  PROVE  moved(c, k, at) \in Int
  <1>1. original_addr(c) \in Int
    BY AreaBelowWord
  <1>2. ((at - original_addr(c)) % WORD) \div SCREEN_WIDTH + 1 \in Int
    BY <1>1, Constants
  <1>3. SCREEN_WIDTH * (((at - original_addr(c)) % WORD) \div SCREEN_WIDTH + 1) \in Int
    BY <1>2, Constants
  <1>4. /\ (original_addr(c) + SCREEN_WIDTH *
              (((at - original_addr(c)) % WORD) \div SCREEN_WIDTH + 1)) % WORD \in Int
        /\ (at - 1) % WORD \in Int
        /\ (at + 1) % WORD \in Int
    BY <1>1, <1>3, Constants
  <1> QED
    BY <1>4 DEF moved

(* A cursor that fits is moved inside its console.                         *)
LEMMA MovedInside ==
  ASSUME NEW c \in Consoles, NEW k \in Chars, NEW at \in Area(c), fits(c, k, at)
  PROVE  moved(c, k, at) \in Area(c)
  <1>1. /\ original_addr(c) \in Nat /\ limit(c) \in Nat /\ limit(c) <= WORD
        /\ at \in Int /\ at >= original_addr(c) /\ at <= limit(c) - 1
    BY AreaBelowWord DEF Area
  <1>2. CASE k = "newline"
    <2> DEFINE x == at - original_addr(c)
               q == x \div SCREEN_WIDTH
    <2>1. x \in Nat /\ x < WORD /\ x + SCREEN_WIDTH < limit(c) - original_addr(c)
      BY <1>1, <1>2, Constants DEF fits
    <2>2. x % WORD = x
      BY <2>1, Constants
    <2>3. q \in Nat /\ SCREEN_WIDTH * q <= x /\ x < SCREEN_WIDTH * q + SCREEN_WIDTH
      BY <2>1, Constants
    <2>4. SCREEN_WIDTH * (q + 1) = SCREEN_WIDTH * q + SCREEN_WIDTH
      BY <2>3, Constants
    <2> DEFINE p == SCREEN_WIDTH * q
    <2>5. p \in Nat
      BY <2>3, Constants
    <2>6. moved(c, k, at) = (original_addr(c) + (p + SCREEN_WIDTH)) % WORD
      BY <1>2, <2>2, <2>4 DEF moved
    <2>7. p <= x /\ x < p + SCREEN_WIDTH
      BY <2>3
    <2> HIDE DEF p, q
    <2>8. /\ original_addr(c) + (p + SCREEN_WIDTH) \in Nat
          /\ original_addr(c) + (p + SCREEN_WIDTH) > at
          /\ original_addr(c) + (p + SCREEN_WIDTH) < limit(c)
      BY <1>1, <2>1, <2>5, <2>7, Constants
    <2>9. moved(c, k, at) = original_addr(c) + (p + SCREEN_WIDTH)
      BY <1>1, <2>6, <2>8, Constants
    <2> QED
      BY <1>1, <2>8, <2>9 DEF Area
  <1>3. CASE k = "backspace"
    <2>1. at > original_addr(c) /\ moved(c, k, at) = (at - 1) % WORD
      BY <1>3 DEF fits, moved
    <2>2. (at - 1) % WORD = at - 1
      BY <1>1, <2>1, Constants
    <2> QED
      BY <1>1, <2>1, <2>2 DEF Area
  <1>4. CASE k = "letter"
    <2>1. at < limit(c) - 1 /\ moved(c, k, at) = (at + 1) % WORD
      BY <1>4 DEF fits, moved
    <2>2. (at + 1) % WORD = at + 1
      BY <1>1, <2>1, Constants
    <2> QED
      BY <1>1, <2>1, <2>2 DEF Area
  <1> QED
    BY <1>2, <1>3, <1>4 DEF Chars

--------------------------------------------------------------------------------
LEMMA InitIInv == Init => IInv
  <1> SUFFICES ASSUME Init PROVE IInv
    OBVIOUS
  <1> USE DEF Init
  <1>1. \A c \in Consoles : original_addr(c) \in Int /\ original_addr(c) + 2 \in Int
    BY AreaBelowWord
  <1>2. DISP_POS \in Int /\ 0 \in Consoles
    BY Constants DEF Area
  <1>3. Types
    <2>1. cursor \in [Consoles -> Int] /\ current_start_addr \in [Consoles -> Int]
      BY <1>1, <1>2
    <2>2. crtc \in [cursor : Int, start : Int]
      BY <1>1, <1>2
    <2>3. inbuf \in [Consoles -> Seq(Chars)]
      BY EmptySeq
    <2> QED
      BY <1>2, <2>1, <2>2, <2>3 DEF Types, Points, Chars
  <1>4. Following
    BY <1>2 DEF Following, Shown
  <1>5. OneKey
    BY EmptySeq DEF OneKey
  <1>6. Known
    BY DEF Known
  <1>7. OwnCursorInside
    <2> SUFFICES ASSUME NEW c \in Consoles PROVE cursor[c] \in Area(c)
      BY DEF OwnCursorInside
    <2>1. CASE c = 0
      BY <1>2, <2>1, Constants
    <2>2. CASE c # 0
      <3>1. cursor[c] = original_addr(c) + 2 /\ CONSOLE_SIZE > 2
        BY <2>2, TerminalAssumption
      <3> QED
        BY <3>1, AreaBelowWord, Constants DEF Area
    <2> QED
      BY <2>1, <2>2
  <1> QED
    BY <1>3, <1>4, <1>5, <1>6, <1>7 DEF IInv

--------------------------------------------------------------------------------
(* A character written by a call: the task does not notice, and nothing    *)
(* changes on the other consoles.                                          *)
LEMMA CallEffect ==
  ASSUME Types, NEW c \in Written, NEW k \in Chars, CallWrite(c, k)
  PROVE  /\ cursor' \in [Consoles -> Int] /\ current_start_addr' \in [Consoles -> Int]
         /\ crtc' \in [cursor : Int, start : Int]
         /\ \A d \in Consoles \ {c} : /\ cursor'[d] = cursor[d]
                                      /\ current_start_addr'[d] = current_start_addr[d]
         /\ c # nr_current_console => crtc' = crtc
         /\ pc' \in {pc, "hung"}
         /\ UNCHANGED <<nr_current_console, inbuf, back, p_tty, locals, reg>>
  <1> DEFINE at   == IF fits(c, k, cursor[c]) THEN moved(c, k, cursor[c]) ELSE cursor[c]
             s(n) == current_start_addr[c] + n * SCREEN_WIDTH
  <1>1. c \in Consoles
    BY TerminalAssumption
  <1>2. at \in Int
    BY <1>1, MovedType DEF Types
  <1>3. cursor' = [cursor EXCEPT ![c] = at]
    BY DEF CallWrite
  <1>4. PICK n \in 0 .. CONSOLE_SIZE :
          /\ current_start_addr' = [current_start_addr EXCEPT ![c] = s(n)]
          /\ crtc' = flushed(c, at, s(n))
          /\ pc' = IF below(at, s(n)) THEN "hung" ELSE pc
    BY DEF CallWrite
  <1>5. s(n) \in Int
    <2>1. n \in Int /\ n * SCREEN_WIDTH \in Int
      BY <1>4, Constants
    <2> QED
      BY <1>1, <2>1 DEF Types
  <1>6. UNCHANGED <<nr_current_console, inbuf, back, p_tty, locals, reg>>
    BY DEF CallWrite
  <1> HIDE DEF at, s
  <1>7. crtc' \in [cursor : Int, start : Int] /\ (c # nr_current_console => crtc' = crtc)
    BY <1>2, <1>4, <1>5 DEF flushed, is_current_console, Types
  <1>8. cursor' \in [Consoles -> Int] /\ current_start_addr' \in [Consoles -> Int]
    BY <1>1, <1>2, <1>3, <1>4, <1>5 DEF Types
  <1>9. \A d \in Consoles \ {c} : /\ cursor'[d] = cursor[d]
                                  /\ current_start_addr'[d] = current_start_addr[d]
    BY <1>3, <1>4 DEF Types
  <1>10. pc' \in {pc, "hung"}
    BY <1>4
  <1> QED
    BY <1>6, <1>7, <1>8, <1>9, <1>10

LEMMA NextTTY ==
  ASSUME p_tty \in Consoles
  PROVE  (p_tty + 1) % NR_CONSOLES \in Consoles
  BY Constants DEF Consoles

(* The four stretches of flush(); the last one leaves it.                  *)
Looks  == pc = "flush" /\ is_current_console(con) /\ reg' = cursor[con] /\ pc' = "cursor"
          /\ UNCHANGED <<crtc, p_tty, con, ch, p_vmem, back>>
Sets   == pc = "cursor" /\ crtc' = [crtc EXCEPT !.cursor = reg] /\ reg' = 0 /\ pc' = "fload"
          /\ UNCHANGED <<p_tty, con, ch, p_vmem, back>>
Loads  == pc = "fload" /\ reg' = current_start_addr[con] /\ pc' = "start"
          /\ UNCHANGED <<crtc, p_tty, con, ch, p_vmem, back>>
Leaves == /\ pc = "start" \/ (pc = "flush" /\ ~is_current_console(con))
          /\ crtc' = IF pc = "start" THEN [crtc EXCEPT !.start = reg] ELSE crtc
          /\ reg' = 0
          /\ pc' = back
          /\ \/ back = "read" /\ p_tty' = (p_tty + 1) % NR_CONSOLES /\ dead
             \/ back = "write" /\ p_tty' = p_tty /\ dead
             \/ back = "loop" /\ UNCHANGED <<p_tty, con, ch, p_vmem, back>>

LEMMA FlushSteps ==
  ASSUME Types, Flush
  PROVE  /\ Looks \/ Sets \/ Loads \/ Leaves
         /\ UNCHANGED <<cursor, current_start_addr, nr_current_console, inbuf>>
  <1>1. CASE pc = "cursor"
    BY <1>1 DEF Flush, Sets, locals
  <1>2. CASE pc = "fload"
    BY <1>2 DEF Flush, Loads, locals
  <1>3. CASE pc = "flush" /\ is_current_console(con)
    BY <1>3 DEF Flush, Looks, locals
  <1>4. CASE pc = "start" \/ (pc = "flush" /\ ~is_current_console(con))
    <2>1. CASE back = "read"
      BY <1>4, <2>1 DEF Flush, Leaves, nextTTY
    <2>2. CASE back = "write"
      BY <1>4, <2>2 DEF Flush, Leaves
    <2>3. CASE back = "loop"
      BY <1>4, <2>3 DEF Flush, Leaves, locals
    <2> QED
      BY <2>1, <2>2, <2>3 DEF Types
  <1> QED
    BY <1>1, <1>2, <1>3, <1>4 DEF Flush

LEMMA SetOne ==
  ASSUME NEW r \in [cursor : Int, start : Int], NEW v \in Int
  PROVE  /\ r.cursor \in Int /\ r.start \in Int
         /\ [r EXCEPT !.cursor = v] = [cursor |-> v, start |-> r.start]
         /\ [r EXCEPT !.start = v] = [cursor |-> r.cursor, start |-> v]
  OBVIOUS

LEMMA TypesStep ==
  ASSUME Types, [Next]_vars
  PROVE  Types'
  <1> USE DEF Types, Points
  <1>1. CASE Read
    <2>1. inbuf' \in [Consoles -> Seq(Chars)]
      <3>1. ASSUME NEW k \in Chars, put_key(p_tty, k) PROVE inbuf' \in [Consoles -> Seq(Chars)]
        <4>1. Append(inbuf[p_tty], k) \in Seq(Chars)
          BY AppendProperties
        <4> QED
          BY <3>1, <4>1 DEF put_key
      <3> QED
        BY <1>1, <3>1 DEF Read
    <2>2. pc' \in Points /\ back' \in {"read", "write", "loop"}
      BY <1>1 DEF Read
    <2>3. con' \in Consoles /\ nr_current_console' \in Consoles
      BY <1>1 DEF Read
    <2>4. ch' \in Chars \cup {SCR_UP, SCR_DN}
      BY <1>1 DEF Read
    <2>5. UNCHANGED <<cursor, current_start_addr, crtc, p_tty, p_vmem, reg>>
      BY <1>1 DEF Read
    <2> QED
      BY <2>1, <2>2, <2>3, <2>4, <2>5
  <1>2. CASE Write
    <2>1. CASE ~hasKey(p_tty)
      BY <1>2, <2>1, NextTTY, Constants DEF Write, nextTTY, dead, consoles, Chars
    <2>2. CASE hasKey(p_tty)
      <3>1. Head(inbuf[p_tty]) \in Chars /\ Tail(inbuf[p_tty]) \in Seq(Chars)
        BY <2>2, HeadTailProperties DEF hasKey
      <3> QED
        BY <1>2, <2>2, <3>1 DEF Write, consoles
    <2> QED
      BY <2>1, <2>2
  <1>3. CASE Test
    BY <1>3 DEF Test, consoles, locals
  <1>4. CASE Load
    BY <1>4 DEF Load, consoles, locals
  <1>5. CASE Store
    <2>1. moved(con, ch, reg) \in Int
      BY MovedType
    <2> QED
      BY <1>5, <2>1 DEF Store
  <1>6. CASE Bound
    BY <1>6 DEF Bound, consoles
  <1>7. CASE Scroll
    <2>1. scrolled(ch, reg) \in Int
      BY Constants DEF scrolled
    <2>2. current_start_addr' \in [Consoles -> Int] /\ reg' \in Int /\ pc' \in Points
      BY <1>7, <2>1 DEF Scroll
    <2> QED
      BY <1>7, <2>2 DEF Scroll, locals
  <1>8. CASE Flush
    <2>1. crtc' \in [cursor : Int, start : Int] /\ reg' \in Int
      <3>1. CASE Sets
        <4>1. crtc' = [cursor |-> reg, start |-> crtc.start] /\ crtc.start \in Int
          BY <3>1, SetOne DEF Sets
        <4>2. crtc' \in [cursor : Int, start : Int]
          BY <4>1
        <4>3. reg' = 0
          BY <3>1 DEF Sets
        <4> QED
          BY <4>2, <4>3
      <3>2. CASE Leaves
        <4>1. crtc' = crtc \/ crtc' = [cursor |-> crtc.cursor, start |-> reg]
          BY <3>2, SetOne DEF Leaves
        <4>2. crtc.cursor \in Int
          BY SetOne
        <4>3. crtc' \in [cursor : Int, start : Int]
          BY <4>1, <4>2
        <4>4. reg' = 0
          BY <3>2 DEF Leaves
        <4> QED
          BY <4>3, <4>4
      <3> QED
        BY <1>8, <3>1, <3>2, FlushSteps DEF Looks, Loads
    <2>2. /\ pc' \in Points /\ back' \in {"read", "write", "loop"} /\ p_tty' \in Consoles
          /\ con' \in Consoles /\ ch' \in Chars \cup {SCR_UP, SCR_DN} /\ p_vmem' \in Int
      BY <1>8, NextTTY, Constants DEF Flush, nextTTY, dead, locals, Chars
    <2> QED
      BY <1>8, <2>1, <2>2 DEF Flush
  <1>9. ASSUME NEW c \in Written, NEW k \in Chars, CallWrite(c, k) PROVE Types'
    BY <1>9, CallEffect DEF locals
  <1>10. CASE UNCHANGED vars
    BY <1>10 DEF vars, consoles, locals
  <1> QED
    BY <1>1, <1>2, <1>3, <1>4, <1>5, <1>6, <1>7, <1>8, <1>9, <1>10 DEF Next

(* Only Store moves a cursor of such a console, to where MovedInside says. *)
LEMMA CursorStep ==
  ASSUME IInv, [Next]_vars
  PROVE  OwnCursorInside'
  <1> SUFFICES ASSUME NEW c \in Consoles \ Written PROVE cursor'[c] \in Area(c)
    BY DEF OwnCursorInside
  <1>1. cursor[c] \in Area(c)
    BY DEF IInv, OwnCursorInside
  <1>2. CASE Store
    <2>1. CASE con = c
      <3>1. ch \in Chars /\ reg = cursor[c] /\ fits(c, ch, cursor[c])
        BY <1>2, <2>1 DEF IInv, Known, Store
      <3>2. cursor'[c] = moved(c, ch, cursor[c])
        BY <1>2, <2>1, <3>1 DEF IInv, Types, Store
      <3> QED
        BY <1>1, <3>1, <3>2, MovedInside
    <2>2. CASE con # c
      BY <1>1, <1>2, <2>2 DEF IInv, Types, Store
    <2> QED
      BY <2>1, <2>2
  <1>3. ASSUME NEW d \in Written, NEW k \in Chars, CallWrite(d, k) PROVE cursor'[c] = cursor[c]
    BY <1>3, CallEffect DEF IInv
  <1>4. CASE cursor' = cursor
    BY <1>1, <1>4
  <1> QED
    BY <1>1, <1>2, <1>3, <1>4 DEF Next, Read, Write, Test, Load, Bound, Scroll, Flush, vars, consoles

LEMMA KnownStep ==
  ASSUME IInv, [Next]_vars
  PROVE  Known'
  <1> USE DEF IInv, Known
  <1>1. CASE Read
    BY <1>1 DEF Read
  <1>2. CASE Write
    <2>1. hasKey(p_tty) => Head(inbuf[p_tty]) \in Chars
      BY HeadTailProperties DEF hasKey, Types
    <2> QED
      BY <1>2, <2>1 DEF Write, consoles
  <1>3. CASE Test
    BY <1>3 DEF Test, consoles, locals
  <1>4. CASE Load
    BY <1>4 DEF Load, consoles, locals
  <1>5. CASE Store
    BY <1>5 DEF Store
  <1>6. CASE Bound
    BY <1>6 DEF Bound
  <1>7. CASE Scroll
    BY <1>7 DEF Scroll
  <1>8. CASE Flush
    BY <1>8 DEF Flush, Types
  <1>9. ASSUME NEW c \in Written, NEW k \in Chars, CallWrite(c, k) PROVE Known'
    <2>1. /\ UNCHANGED <<con, ch, p_vmem, reg>> /\ pc' \in {pc, "hung"}
          /\ \A d \in Consoles \ {c} : cursor'[d] = cursor[d]
      BY <1>9, CallEffect DEF locals
    <2>2. con \in Consoles
      BY DEF Types
    <2> QED
      BY <2>1, <2>2
  <1>10. CASE UNCHANGED vars
    BY <1>10 DEF vars, consoles, locals
  <1> QED
    BY <1>1, <1>2, <1>3, <1>4, <1>5, <1>6, <1>7, <1>8, <1>9, <1>10 DEF Next

LEMMA FollowingStep ==
  ASSUME IInv, [Next]_vars
  PROVE  Following'
  <1> USE DEF IInv, Following, Shown
  <1>1. CASE Read
    BY <1>1 DEF Read
  <1>2. CASE Write
    BY <1>2 DEF Write, consoles
  <1>3. CASE Test
    BY <1>3 DEF Test, consoles, locals
  <1>4. CASE Load
    BY <1>4 DEF Load, consoles, locals
  <1>5. CASE Store
    BY <1>5 DEF Store, Types
  <1>6. CASE Bound
    BY <1>6 DEF Bound, consoles
  <1>7. CASE Scroll
    BY <1>7 DEF Scroll, locals, Types
  <1>8. CASE Flush
    <2>1. UNCHANGED <<cursor, current_start_addr, nr_current_console>>
      BY <1>8, FlushSteps
    <2>2. CASE Looks
      BY <2>1, <2>2 DEF Looks, is_current_console
    <2>3. CASE Sets
      <3>1. crtc' = [cursor |-> reg, start |-> crtc.start]
        BY <2>3, SetOne DEF Sets, Types
      <3>2. crtc'.cursor = reg
        BY <3>1
      <3> QED
        BY <2>1, <2>3, <3>1, <3>2 DEF Sets
    <2>4. CASE Loads
      BY <2>1, <2>4 DEF Loads
    <2>5. CASE Leaves
      <3>2. nr_current_console \notin Written => Shown'
        <4>1. CASE pc = "start"
          <5>1. crtc' = [cursor |-> crtc.cursor, start |-> reg]
            BY <2>5, <4>1, SetOne DEF Leaves, Types
          <5> QED
            BY <2>1, <2>5, <4>1, <5>1
        <4>2. CASE pc # "start"
          BY <2>1, <2>5, <4>2 DEF Leaves, is_current_console
        <4> QED
          BY <4>1, <4>2
      <3> QED
        BY <2>1, <2>5, <3>2 DEF Leaves, Types
    <2> QED
      BY <1>8, <2>2, <2>3, <2>4, <2>5, FlushSteps
  <1>9. ASSUME NEW c \in Written, NEW k \in Chars, CallWrite(c, k) PROVE Following'
    <2>1. /\ UNCHANGED <<nr_current_console, con, reg>> /\ pc' \in {pc, "hung"}
          /\ c # nr_current_console => crtc' = crtc
          /\ \A d \in Consoles \ {c} : /\ cursor'[d] = cursor[d]
                                       /\ current_start_addr'[d] = current_start_addr[d]
      BY <1>9, CallEffect DEF locals
    <2>2. con \in Consoles /\ nr_current_console \in Consoles
      BY DEF Types
    <2> QED
      BY <2>1, <2>2
  <1>10. CASE UNCHANGED vars
    BY <1>10 DEF vars, consoles, locals
  <1> QED
    BY <1>1, <1>2, <1>3, <1>4, <1>5, <1>6, <1>7, <1>8, <1>9, <1>10 DEF Next

LEMMA OneKeyStep ==
  ASSUME IInv, [Next]_vars
  PROVE  OneKey'
  <1> SUFFICES ASSUME NEW c \in Consoles
               PROVE  Len(inbuf'[c]) <= (IF pc' \in {"write", "hung"} /\ c = p_tty' THEN 1 ELSE 0)
    BY DEF OneKey
  <1>1. inbuf[c] \in Seq(Chars) /\ Len(inbuf[c]) \in Nat
    BY LenProperties DEF IInv, Types
  <1>2. Len(inbuf[c]) <= (IF pc \in {"write", "hung"} /\ c = p_tty THEN 1 ELSE 0)
    BY DEF IInv, OneKey
  <1>3. CASE Read
    <2>1. CASE inbuf' = inbuf
      BY <1>1, <1>2, <1>3, <2>1 DEF Read
    <2>2. ASSUME NEW k \in Chars, put_key(p_tty, k), pc' = "write"
          PROVE  Len(inbuf'[c]) <= (IF c = p_tty THEN 1 ELSE 0)
      <3>1. Len(Append(inbuf[p_tty], k)) = Len(inbuf[p_tty]) + 1
        BY AppendProperties DEF IInv, Types
      <3>2. pc = "read" /\ p_tty' = p_tty
        BY <1>3 DEF Read
      <3>3. Len(inbuf[c]) = 0
        BY <1>1, <1>2, <3>2
      <3>4. inbuf' = inbuf \/ inbuf' = [inbuf EXCEPT ![p_tty] = Append(inbuf[p_tty], k)]
        BY <2>2 DEF put_key
      <3>5. c \in DOMAIN inbuf /\ p_tty \in DOMAIN inbuf
        BY DEF IInv, Types
      <3>6. CASE inbuf' = inbuf
        BY <3>3, <3>6
      <3>7. CASE inbuf' = [inbuf EXCEPT ![p_tty] = Append(inbuf[p_tty], k)]
        <4>1. CASE c = p_tty
          <5>1. inbuf'[c] = Append(inbuf[p_tty], k)
            BY <3>5, <3>7, <4>1
          <5> QED
            BY <3>1, <3>3, <4>1, <5>1
        <4>2. CASE c # p_tty
          <5>1. inbuf'[c] = inbuf[c]
            BY <3>5, <3>7, <4>2
          <5> QED
            BY <3>3, <4>2, <5>1
        <4> QED
          BY <4>1, <4>2
      <3> QED
        BY <3>4, <3>6, <3>7
    <2> QED
      BY <1>3, <2>1, <2>2 DEF Read
  <1>4. CASE Write
    <2>1. CASE ~hasKey(p_tty)
      <3>1. c = p_tty => Len(inbuf[c]) = 0
        BY <2>1, EmptySeq DEF hasKey
      <3> QED
        BY <1>1, <1>2, <1>4, <2>1, <3>1 DEF Write
    <2>2. CASE hasKey(p_tty)
      <3>1. c = p_tty => Len(Tail(inbuf[c])) = Len(inbuf[c]) - 1
        BY <1>1, <2>2, HeadTailProperties DEF hasKey
      <3> QED
        BY <1>1, <1>2, <1>4, <2>2, <3>1 DEF Write, IInv, Types
    <2> QED
      BY <2>1, <2>2
  <1>5. CASE Flush
    <2>1. inbuf' = inbuf /\ pc \notin {"write", "hung"}
      BY <1>5, FlushSteps DEF Flush
    <2> QED
      BY <1>1, <1>2, <2>1
  <1>6. CASE Test \/ Load \/ Store \/ Bound \/ Scroll
    BY <1>1, <1>2, <1>6 DEF Test, Load, Store, Bound, Scroll
  <1>7. ASSUME NEW d \in Written, NEW k \in Chars, CallWrite(d, k)
        PROVE  inbuf' = inbuf /\ p_tty' = p_tty /\ pc' \in {pc, "hung"}
    BY <1>7, CallEffect DEF IInv
  <1>8. CASE UNCHANGED vars
    BY <1>2, <1>8 DEF vars
  <1> QED
    BY <1>1, <1>2, <1>3, <1>4, <1>5, <1>6, <1>7, <1>8 DEF Next

LEMMA DrawsStep == IInv => DrawsInside
  <1> SUFFICES ASSUME IInv, con \notin Written, pc \in {"load", "store"}
               PROVE  /\ ch = "letter" => p_vmem \in Area(con)
                      /\ ch = "backspace" => p_vmem - 1 \in Area(con)
    BY DEF DrawsInside
  <1>1. con \in Consoles /\ p_vmem = cursor[con] /\ fits(con, ch, p_vmem)
    BY DEF IInv, Types, Known
  <1>2. p_vmem \in Area(con)
    BY <1>1 DEF IInv, OwnCursorInside
  <1>3. original_addr(con) \in Nat /\ limit(con) \in Nat
    BY <1>1, AreaBelowWord
  <1> QED
    BY <1>1, <1>2, <1>3 DEF Area, fits

--------------------------------------------------------------------------------
(* Every action of the task, of the interrupts and of the processes keeps  *)
(* the parts of IInv, each of which needs the others.                      *)
THEOREM Invariant == Spec => []IInv
  <1>1. IInv /\ [Next]_vars => IInv'
    BY TypesStep, CursorStep, KnownStep, FollowingStep, OneKeyStep DEF IInv
  <1> QED
    BY <1>1, InitIInv, PTL DEF Spec

(* The cursor of a console that only the task writes to never leaves it,   *)
(* although out_char() reads it twice and the clock comes in between.      *)
THEOREM CursorsStay == Spec => []OwnCursorInside
  BY Invariant, PTL DEF IInv

(* The cell out_char() has computed is one of its console when it draws.   *)
THEOREM NeighboursUntouched == Spec => []DrawsInside
  BY Invariant, DrawsStep, PTL

(* Between two keys the CRTC shows the current console.                    *)
THEOREM ScreenIsCurrent == Spec => []ScreenFollows
  <1>1. IInv => ScreenFollows
    BY DEF IInv, Following, Shown, ScreenFollows
  <1> QED
    BY <1>1, Invariant, PTL

(* The rings of the TTYs never hold two keys.                              *)
THEOREM NoKeyDropped == Spec => []OneKey
  BY Invariant, PTL DEF IInv
================================================================================
