-------------------------------- MODULE Keyboard --------------------------------
(***************************************************************************)
(* The keyboard (kernel/tty/keyboard.c): keyboard_handler() puts scan      *)
(* codes into a ring, and keyboard_read(), called by task_tty, takes them  *)
(* out, joins those that belong together and turns them into keys.         *)
(*                                                                         *)
(* The keyboard itself is external: keys that are pressed and released and *)
(* the bytes they send, which the interrupt hands over one by one.         *)
(***************************************************************************)
EXTENDS Integers, Sequences

CONSTANTS
  KB_IN_BYTES,   (* bytes the ring holds                                     *)
  KEYS,          (* the keys that are used                                   *)
  MaxTyped       (* bound: presses and releases                              *)

ASSUME KeyboardAssumption ==
  /\ KB_IN_BYTES \in Nat \ {0}
  /\ KEYS \subseteq {"a", "CAPS_LOCK", "SHIFT_L", "SHIFT_R", "CTRL_L", "CTRL_R",
                     "ALT_L", "ALT_R", "PRINTSCREEN", "PAUSEBREAK"}
  /\ MaxTyped \in Nat

VARIABLES
  buf, p_head, p_tail, count,   (* kb_in                                     *)
  IF_flag,       (* interrupts enabled                                       *)
  pc,            (* where keyboard_read() is                                 *)
  got,           (* the bytes it has read for one key                        *)
  reg,           (* count, as loaded by count--                              *)
  modifiers,     (* which of shift_l, ..., alt_r and the locks are set       *)
  sent,          (* what keyboard_read() gave to in_process()                *)
  held,          (* the keys that are down                                   *)
  wire,          (* bytes the keyboard has sent, not yet handed over         *)
  typed,         (* presses and releases keyboard_read() has not dealt with  *)
  down,          (* the keys that are down according to those it has         *)
  strokes,       (* presses and releases so far                              *)
  dropped        (* a byte has found the ring full; from then on typed and
                    down are empty                                           *)

ring     == <<buf, p_head, p_tail, count>>
reader   == <<pc, got, reg, modifiers, sent>>
keyboard == <<held, wire, strokes>>
vars == <<ring, IF_flag, reader, keyboard, typed, down, dropped>>

--------------------------------------------------------------------------------
E0 == 224
E1 == 225
FLAG_BREAK == 128

(* The rows of keymap these keys need: without and with shift, and after   *)
(* E0.  All the others are taken to be like an unused one.                 *)
keymap(scan_code) ==
  CASE scan_code = 30 -> <<"a", "A", "nul">>
    [] scan_code = 42 -> <<"SHIFT_L", "SHIFT_L", "nul">>
    [] scan_code = 54 -> <<"SHIFT_R", "SHIFT_R", "nul">>
    [] scan_code = 29 -> <<"CTRL_L", "CTRL_L", "CTRL_R">>
    [] scan_code = 56 -> <<"ALT_L", "ALT_L", "ALT_R">>
    [] scan_code = 58 -> <<"CAPS_LOCK", "CAPS_LOCK", "nul">>
    [] scan_code = 69 -> <<"NUM_LOCK", "NUM_LOCK", "nul">>
    [] scan_code = 55 -> <<"*", "*", "nul">>
    [] OTHER          -> <<"nul", "nul", "nul">>

pausebrk_scode == <<E1, 29, 69, E1, 157, 197>>

(* External: what a key sends when it is pressed or released.              *)
plain(k) ==
  CASE k = "a" -> <<30>>             [] k = "CAPS_LOCK" -> <<58>>
    [] k = "SHIFT_L" -> <<42>>       [] k = "SHIFT_R" -> <<54>>
    [] k = "CTRL_L" -> <<29>>        [] k = "CTRL_R" -> <<E0, 29>>
    [] k = "ALT_L" -> <<56>>         [] k = "ALT_R" -> <<E0, 56>>

codes(e) ==
  CASE e.key = "PRINTSCREEN" -> IF e.make THEN <<E0, 42, E0, 55>> ELSE <<E0, 183, E0, 170>>
    [] e.key = "PAUSEBREAK"  -> IF e.make THEN pausebrk_scode ELSE <<>>
    [] OTHER ->
         IF e.make THEN plain(e.key)
         ELSE [plain(e.key) EXCEPT ![Len(plain(e.key))] = @ + FLAG_BREAK]

(* init_keyboard()                                                         *)
Init ==
  /\ buf = [i \in 0 .. KB_IN_BYTES - 1 |-> 0]
  /\ p_head = 0
  /\ p_tail = 0
  /\ count = 0
  /\ IF_flag = TRUE
  /\ pc = "idle"
  /\ got = <<>>
  /\ reg = 0
  /\ modifiers = {"NUM_LOCK"}
  /\ sent = "nothing"
  /\ held = {}
  /\ wire = <<>>
  /\ typed = <<>>
  /\ down = {}
  /\ strokes = 0
  /\ dropped = FALSE

--------------------------------------------------------------------------------
(* External: a key goes down, or up.                                       *)
Stroke(k) ==
  LET e == [key |-> k, make |-> k \notin held]
  IN  /\ strokes < MaxTyped
      /\ strokes' = strokes + 1
      /\ held' = IF e.make THEN held \cup {k} ELSE held \ {k}
      /\ wire' = wire \o codes(e)
      /\ typed' = IF dropped \/ codes(e) = <<>> THEN typed ELSE Append(typed, e)
      /\ UNCHANGED <<ring, IF_flag, reader, down, dropped>>

next(i) == IF i + 1 = KB_IN_BYTES THEN 0 ELSE i + 1

(* keyboard_handler()                                                      *)
hasRoom == count < KB_IN_BYTES

Interrupt ==
  /\ IF_flag
  /\ wire # <<>>
  /\ wire' = Tail(wire)
  /\ IF hasRoom
     THEN /\ buf' = [buf EXCEPT ![p_head] = Head(wire)]
          /\ p_head' = next(p_head)
          /\ count' = count + 1
          /\ UNCHANGED <<typed, down, dropped>>
     ELSE /\ dropped' = TRUE
          /\ typed' = <<>>
          /\ down' = {}
          /\ UNCHANGED <<buf, p_head, count>>
  /\ UNCHANGED <<p_tail, IF_flag, reader, held, strokes>>

--------------------------------------------------------------------------------
(* Does keyboard_read() want another byte after those it got?              *)
startsWith(s, t) == Len(s) <= Len(t) /\ s = SubSeq(t, 1, Len(s))

wantsNoRelease(s) ==   \* mutant
  \/ s[1] = E1 /\ startsWith(s, pausebrk_scode) /\ Len(s) < 6
  \/ s[1] = E0 /\ Len(s) = 1
  \/ s[1] = E0 /\ Len(s) = 2 /\ s[2] = 42
  \/ s[1] = E0 /\ Len(s) = 3 /\ s[2] = 42 /\ s[3] = E0
wantsSeventh(s) ==   \* mutant
  \/ s[1] = E1 /\ (Len(s) = 6 \/ startsWith(s, pausebrk_scode)) /\ Len(s) < 7
  \/ s[1] = E0 /\ Len(s) = 1
  \/ s[1] = E0 /\ Len(s) = 2 /\ s[2] \in {42, 183}
  \/ s[1] = E0 /\ Len(s) = 3 /\ s[2] \in {42, 183} /\ s[3] = E0
wantsMore(s) ==
  \/ s[1] = E1 /\ startsWith(s, pausebrk_scode) /\ Len(s) < 6
  \/ s[1] = E0 /\ Len(s) = 1
  \/ s[1] = E0 /\ Len(s) = 2 /\ s[2] \in {42, 183}
  \/ s[1] = E0 /\ Len(s) = 3 /\ s[2] \in {42, 183} /\ s[3] = E0

(* get_byte_from_kbuf(): it waits for a byte, takes it with interrupts     *)
(* off, and count-- is a read and a write.                                 *)
disable_nothing == TRUE   \* mutant
disable_int == FALSE

GetByte ==
  \/ /\ pc \in {"idle", "wait"}
     /\ count > 0
     /\ IF_flag' = disable_int
     /\ pc' = "take"
     /\ UNCHANGED <<ring, got, reg>>
  \/ /\ pc = "take"
     /\ got' = Append(got, buf[p_tail])
     /\ p_tail' = next(p_tail)
     /\ reg' = count
     /\ pc' = "put"
     /\ UNCHANGED <<buf, p_head, count, IF_flag>>
  \/ /\ pc = "put"
     /\ count' = reg - 1
     /\ reg' = 0
     /\ IF_flag' = TRUE
     /\ pc' = IF wantsMore(got) THEN "wait" ELSE "decode"
     /\ UNCHANGED <<buf, p_head, p_tail, got>>

Read ==
  /\ GetByte
  /\ UNCHANGED <<modifiers, sent, keyboard, typed, down, dropped>>

--------------------------------------------------------------------------------
(* The rest of keyboard_read(): the bytes mean PAUSEBREAK or PRINTSCREEN,  *)
(* which go nowhere, or the key of one scan code.                          *)
isPauseOnly(s) == s = pausebrk_scode   \* mutant
isWhole(s) == s \in {pausebrk_scode, <<E0, 42, E0, 55>>, <<E0, 183, E0, 170>>}

code_with_E0 == got[1] = E0
scan_code == IF code_with_E0 THEN got[2] ELSE got[1]
make == scan_code < FLAG_BREAK

key ==
  LET keyrow == keymap(scan_code % FLAG_BREAK)
      caps == (modifiers \cap {"SHIFT_L", "SHIFT_R"} # {})
                # ("CAPS_LOCK" \in modifiers /\ keyrow[1] = "a")
  IN  IF code_with_E0 THEN keyrow[3] ELSE IF caps THEN keyrow[2] ELSE keyrow[1]

(* The switch over keys: those that are down while they are held, in the   *)
(* variable that stands for them, and the locks.                           *)
flagOfEitherShift(k) ==   \* mutant
  CASE k = "SHIFT_R" -> "SHIFT_L" [] k = "ALT_R" -> "ALT_L" [] OTHER -> k
flagOf(k) == IF k = "ALT_R" THEN "ALT_L" ELSE k

switched ==
  LET flag == {flagOf(key)}
  IN  CASE key \in {"SHIFT_L", "SHIFT_R", "CTRL_L", "CTRL_R", "ALT_L", "ALT_R"} ->
             IF make THEN modifiers \cup flag ELSE modifiers \ flag
        [] key \in {"CAPS_LOCK", "NUM_LOCK"} /\ make ->
             (modifiers \cup flag) \ (modifiers \cap flag)
        [] OTHER -> modifiers

Decode ==
  /\ pc = "decode"
  /\ IF isWhole(got)
     THEN sent' = "nothing" /\ UNCHANGED modifiers
     ELSE /\ modifiers' = switched
          /\ sent' = IF make THEN key ELSE "nothing"
  /\ pc' = "idle"
  /\ got' = <<>>
  /\ IF typed = <<>> THEN UNCHANGED <<typed, down>>
     ELSE /\ typed' = Tail(typed)
          /\ down' = IF Head(typed).make THEN down \cup {Head(typed).key}
                     ELSE down \ {Head(typed).key}
  /\ UNCHANGED <<ring, IF_flag, reg, keyboard, dropped>>

Next ==
  \/ \E k \in KEYS : Stroke(k)
  \/ Interrupt
  \/ Read
  \/ Decode

Spec == Init /\ [][Next]_vars

(* Bytes are handed over, and task_tty has its share of the processor.     *)
FairSpec == Spec /\ WF_vars(Interrupt) /\ WF_vars(Read \/ Decode)

--------------------------------------------------------------------------------
TypeOK ==
  /\ buf \in [0 .. KB_IN_BYTES - 1 -> 0 .. 255]
  /\ p_head \in 0 .. KB_IN_BYTES - 1
  /\ p_tail \in 0 .. KB_IN_BYTES - 1
  /\ count \in 0 .. KB_IN_BYTES
  /\ IF_flag \in BOOLEAN
  /\ pc \in {"idle", "wait", "take", "put", "decode"}
  /\ got \in Seq(0 .. 255)
  /\ reg \in 0 .. KB_IN_BYTES
  /\ typed \in Seq([key : KEYS, make : BOOLEAN])
  /\ wire \in Seq(0 .. 255)
  /\ held \subseteq KEYS
  /\ down \subseteq KEYS
  /\ strokes \in 0 .. MaxTyped
  /\ dropped \in BOOLEAN

(* The ring with its pointers and its count, changed by the interrupt and  *)
(* by the task, is a queue: no byte is lost but those dropped, none is     *)
(* read twice, out of order or overwritten.                                *)
Queue == INSTANCE ByteQueue WITH
  Bytes    <- 0 .. 255,
  Capacity <- KB_IN_BYTES,
  queue    <- [i \in 1 .. (IF pc = "put" THEN reg - 1 ELSE count) |->
                 buf[(p_tail + i - 1) % KB_IN_BYTES]]

RingIsQueue == Queue!Spec

(* Unless a byte was dropped, what keyboard_read() takes for one key are   *)
(* the bytes of one press or release, no more and no less.                 *)
InStep ==
  pc = "decode" /\ ~dropped => typed # <<>> /\ got = codes(Head(typed))

(* Unless a byte was dropped, a key that is typed reaches in_process() as  *)
(* itself, letters in the case that shift and caps lock call for.          *)
meant(e) ==
  IF ~e.make \/ e.key \in {"PRINTSCREEN", "PAUSEBREAK"} THEN "nothing"
  ELSE IF e.key = "a"
       THEN IF (down \cap {"SHIFT_L", "SHIFT_R"} # {}) # ("CAPS_LOCK" \in modifiers)
            THEN "A" ELSE "a"
       ELSE e.key

TypedAsMeant ==
  [][pc = "decode" /\ pc' = "idle" /\ ~dropped => sent' = meant(Head(typed))]_vars

(* Unless a byte was dropped, the variables for shift and control follow   *)
(* the keys, whichever of the two of a kind are down.                      *)
ModifiersFollow ==
  ~dropped => \A k \in {"SHIFT_L", "SHIFT_R", "CTRL_L", "CTRL_R"} :
    k \in modifiers <=> k \in down

(* keyboard.c: alt_r is the "r left state", the state of the right Alt     *)
(* key.  It is never set: the key changes alt_l.                           *)
AltFollows ==
  ~dropped => \A k \in {"ALT_L", "ALT_R"} : k \in modifiers <=> k \in down

(* keyboard_read() deals with every key; it waits inside one only when a   *)
(* byte was dropped.                                                       *)
EveryKeyHandled == (typed # <<>>) ~> (typed = <<>> \/ dropped)

================================================================================
