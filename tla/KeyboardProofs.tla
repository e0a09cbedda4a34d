----------------------------- MODULE KeyboardProofs -----------------------------
(***************************************************************************)
(* The ring of the keyboard is a queue, and what keyboard_read() takes out *)
(* of it are the keys that were typed: for every size of the ring, however *)
(* the interrupt and the task interleave and whatever is typed ahead.      *)
(***************************************************************************)
EXTENDS Keyboard, SequenceTheorems, TLAPS

Byte  == 0 .. 255
Event == [key : KEYS, make : BOOLEAN]
K     == KB_IN_BYTES

LEMMA Size == K \in Nat /\ K > 0
  BY KeyboardAssumption DEF K

LEMMA Wrap ==
  ASSUME NEW p \in 0 .. K - 1
  PROVE  /\ p % K = p
         /\ next(p) \in 0 .. K - 1
         /\ \A j \in 0 .. K - 1 : /\ (p + j) % K \in 0 .. K - 1
                                  /\ (next(p) + j) % K = (p + (j + 1)) % K
                                  /\ next((p + j) % K) = (p + (j + 1)) % K
                                  /\ \A m \in 0 .. K - 1 : j # m => (p + j) % K # (p + m) % K
  <1>1. \A a \in 0 .. K - 1 : a % K = a /\ (a + K) % K = a
    BY Size
  <1>2. next(p) = IF p + 1 = K THEN 0 ELSE p + 1
    BY DEF next, K
  <1>3. p % K = p /\ next(p) \in 0 .. K - 1
    BY <1>1, <1>2, Size
  <1>4. ASSUME NEW j \in 0 .. K
        PROVE  (p + j) % K = IF p + j < K THEN p + j ELSE p + j - K
    <2>1. CASE p + j < K
      <3>1. p + j \in 0 .. K - 1
        BY <2>1, Size
      <3> QED
        BY <1>1, <2>1, <3>1
    <2>2. CASE p + j >= K
      <3>1. PICK a \in 0 .. K - 1 : a = p + j - K
        BY <2>2, Size
      <3>2. p + j = a + K
        BY <3>1, Size
      <3> QED
        BY <1>1, <2>2, <3>1, <3>2, Size
    <2> QED
      BY <2>1, <2>2, Size
  <1>5. ASSUME NEW j \in 0 .. K - 1
        PROVE  /\ (p + j) % K \in 0 .. K - 1
               /\ next((p + j) % K) = (p + (j + 1)) % K
    <2>1. j \in 0 .. K /\ j + 1 \in 0 .. K
      BY Size
    <2>2. /\ (p + j) % K = IF p + j < K THEN p + j ELSE p + j - K
          /\ (p + (j + 1)) % K = IF p + (j + 1) < K THEN p + (j + 1) ELSE p + (j + 1) - K
      BY <1>4, <2>1
    <2> QED
      BY <2>1, <2>2, Size DEF next, K
  <1>6. ASSUME NEW j \in 0 .. K - 1 PROVE (next(p) + j) % K = (p + (j + 1)) % K
    <2>1. CASE p + 1 = K
      <3>1. (next(p) + j) % K = j
        BY <1>1, <1>2, <2>1
      <3>2. p + (j + 1) = j + K
        BY <2>1, Size
      <3> QED
        BY <1>1, <3>1, <3>2
    <2>2. CASE p + 1 # K
      <3>1. next(p) + j = p + (j + 1)
        BY <1>2, <2>2, Size
      <3> QED
        BY <3>1
    <2> QED
      BY <2>1, <2>2
  <1>7. ASSUME NEW j \in 0 .. K - 1, NEW m \in 0 .. K - 1, j # m
        PROVE  (p + j) % K # (p + m) % K
    <2>1. j \in 0 .. K /\ m \in 0 .. K
      BY Size
    <2>2. /\ (p + j) % K = IF p + j < K THEN p + j ELSE p + j - K
          /\ (p + m) % K = IF p + m < K THEN p + m ELSE p + m - K
      BY <1>4, <2>1
    <2> QED
      BY <1>7, <2>2, Size
  <1> QED
    BY <1>3, <1>5, <1>6, <1>7

--------------------------------------------------------------------------------
(* What the keys send.                                                     *)
LEMMA Released ==
  /\ \A x \in Nat : [<<x>> EXCEPT ![Len(<<x>>)] = @ + FLAG_BREAK] = <<x + 128>>
  /\ \A x, y \in Nat : [<<x, y>> EXCEPT ![Len(<<x, y>>)] = @ + FLAG_BREAK] = <<x, y + 128>>
  BY DEF FLAG_BREAK

LEMMA Codes ==
  ASSUME NEW e \in Event
  PROVE  /\ e.key = "a"         => codes(e) = IF e.make THEN <<30>> ELSE <<158>>
         /\ e.key = "CAPS_LOCK" => codes(e) = IF e.make THEN <<58>> ELSE <<186>>
         /\ e.key = "SHIFT_L"   => codes(e) = IF e.make THEN <<42>> ELSE <<170>>
         /\ e.key = "SHIFT_R"   => codes(e) = IF e.make THEN <<54>> ELSE <<182>>
         /\ e.key = "CTRL_L"    => codes(e) = IF e.make THEN <<29>> ELSE <<157>>
         /\ e.key = "ALT_L"     => codes(e) = IF e.make THEN <<56>> ELSE <<184>>
         /\ e.key = "CTRL_R"    => codes(e) = IF e.make THEN <<E0, 29>> ELSE <<E0, 157>>
         /\ e.key = "ALT_R"     => codes(e) = IF e.make THEN <<E0, 56>> ELSE <<E0, 184>>
         /\ e.key = "PRINTSCREEN" =>
              codes(e) = IF e.make THEN <<E0, 42, E0, 55>> ELSE <<E0, 183, E0, 170>>
         /\ e.key = "PAUSEBREAK" => codes(e) = IF e.make THEN pausebrk_scode ELSE <<>>
         /\ e.key \in {"a", "CAPS_LOCK", "SHIFT_L", "SHIFT_R", "CTRL_L", "CTRL_R",
                       "ALT_L", "ALT_R", "PRINTSCREEN", "PAUSEBREAK"}
  <1>1. e.key \in {"a", "CAPS_LOCK", "SHIFT_L", "SHIFT_R", "CTRL_L", "CTRL_R",
                   "ALT_L", "ALT_R", "PRINTSCREEN", "PAUSEBREAK"}
    BY KeyboardAssumption DEF Event
  <1>2. e.make \in BOOLEAN
    BY DEF Event
  <1>3. CASE e.key = "PRINTSCREEN"
    BY <1>3 DEF codes
  <1>4. CASE e.key = "PAUSEBREAK"
    BY <1>4 DEF codes
  <1>5. CASE e.key \notin {"PRINTSCREEN", "PAUSEBREAK"}
    <2>1. codes(e) = IF e.make THEN plain(e.key)
                     ELSE [plain(e.key) EXCEPT ![Len(plain(e.key))] = @ + FLAG_BREAK]
      BY <1>2, <1>5 DEF codes
    <2>2. PICK s : s = plain(e.key)
      OBVIOUS
    <2>3. codes(e) = IF e.make THEN s ELSE [s EXCEPT ![Len(s)] = @ + FLAG_BREAK]
      BY <2>1, <2>2
    <2>4. CASE e.key = "a"
      BY <2>2, <2>3, <2>4, Released DEF plain
    <2>5. CASE e.key = "CAPS_LOCK"
      BY <2>2, <2>3, <2>5, Released DEF plain
    <2>6. CASE e.key = "SHIFT_L"
      BY <2>2, <2>3, <2>6, Released DEF plain
    <2>7. CASE e.key = "SHIFT_R"
      BY <2>2, <2>3, <2>7, Released DEF plain
    <2>8. CASE e.key = "CTRL_L"
      BY <2>2, <2>3, <2>8, Released DEF plain
    <2>9. CASE e.key = "ALT_L"
      BY <2>2, <2>3, <2>9, Released DEF plain
    <2>10. CASE e.key = "CTRL_R"
      BY <2>2, <2>3, <2>10, Released DEF plain, E0
    <2>11. CASE e.key = "ALT_R"
      BY <2>2, <2>3, <2>11, Released DEF plain, E0
    <2> QED
      BY <1>1, <1>5, <2>4, <2>5, <2>6, <2>7, <2>8, <2>9, <2>10, <2>11
  <1> QED
    BY <1>1, <1>3, <1>4, <1>5

(* keyboard_read() goes on as long as, and only as long as, what it has is *)
(* the beginning of a longer sequence.                                     *)
LEMMA Prefix ==
  ASSUME NEW c \in Seq(Byte), NEW m \in 1 .. Len(c)
  PROVE  /\ SubSeq(c, 1, m) \in Seq(Byte)
         /\ Len(SubSeq(c, 1, m)) = m
         /\ \A i \in 1 .. m : SubSeq(c, 1, m)[i] = c[i]
  <1>1. m \in Nat /\ Len(c) \in Nat /\ m >= 1 /\ m <= Len(c)
    BY LenProperties
  <1>2. \A i \in 1 .. m : c[i] \in Byte
    BY <1>1, ElementOfSeq
  <1>3. /\ SubSeq(c, 1, m) \in Seq(Byte)
        /\ Len(SubSeq(c, 1, m)) = IF 1 <= m THEN m - 1 + 1 ELSE 0
        /\ \A i \in 1 .. m - 1 + 1 : SubSeq(c, 1, m)[i] = c[1 + i - 1]
    BY <1>1, <1>2, SubSeqProperties
  <1>4. m - 1 + 1 = m
    BY <1>1
  <1>5. \A i \in 1 .. m : 1 + i - 1 = i
    BY <1>1
  <1> QED
    BY <1>1, <1>3, <1>4, <1>5

LEMMA WantsMore ==
  ASSUME NEW e \in Event
  PROVE  /\ codes(e) \in Seq(Byte)
         /\ \A m \in 1 .. Len(codes(e)) :
              wantsMore(SubSeq(codes(e), 1, m)) <=> m < Len(codes(e))
  <1>1. PICK c : c = codes(e)
    OBVIOUS
  <1> SUFFICES /\ c \in Seq(Byte)
               /\ \A m \in 1 .. Len(c) : wantsMore(SubSeq(c, 1, m)) <=> m < Len(c)
    BY <1>1
  <1>2. ASSUME NEW x \in Byte, c = <<x>>, x # E0, x # E1
        PROVE  /\ c \in Seq(Byte)
               /\ \A m \in 1 .. Len(c) : wantsMore(SubSeq(c, 1, m)) <=> m < Len(c)
    <2>1. c \in Seq(Byte) /\ Len(c) = 1 /\ c[1] = x
      BY <1>2
    <2> SUFFICES ASSUME NEW m \in 1 .. Len(c) PROVE wantsMore(SubSeq(c, 1, m)) <=> m < Len(c)
      BY <2>1
    <2>2. PICK s : s = SubSeq(c, 1, m)
      OBVIOUS
    <2>3. s[1] = x
      BY <2>1, <2>2, Prefix
    <2>4. ~wantsMore(s)
      BY <1>2, <2>3 DEF wantsMore
    <2> QED
      BY <2>1, <2>2, <2>4
  <1>3. ASSUME NEW x \in Byte, c = <<E0, x>>, x \notin {42, 183}
        PROVE  /\ c \in Seq(Byte)
               /\ \A m \in 1 .. Len(c) : wantsMore(SubSeq(c, 1, m)) <=> m < Len(c)
    <2>1. c \in Seq(Byte) /\ Len(c) = 2 /\ c[1] = E0 /\ c[2] = x
      BY <1>3 DEF E0, Byte
    <2> SUFFICES ASSUME NEW m \in 1 .. Len(c) PROVE wantsMore(SubSeq(c, 1, m)) <=> m < Len(c)
      BY <2>1
    <2>2. PICK s : s = SubSeq(c, 1, m)
      OBVIOUS
    <2>3. Len(s) = m /\ s[1] = E0 /\ (m = 2 => s[2] = x) /\ m \in 1 .. 2
      BY <2>1, <2>2, Prefix
    <2>4. wantsMore(s) <=> m < 2
      BY <1>3, <2>3 DEF wantsMore, E0, E1
    <2> QED
      BY <2>1, <2>2, <2>4
  <1>4. ASSUME NEW x \in {42, 183}, NEW y \in Byte, c = <<E0, x, E0, y>>
        PROVE  /\ c \in Seq(Byte)
               /\ \A m \in 1 .. Len(c) : wantsMore(SubSeq(c, 1, m)) <=> m < Len(c)
    <2>1. c \in Seq(Byte) /\ Len(c) = 4 /\ c[1] = E0 /\ c[2] = x /\ c[3] = E0
      BY <1>4 DEF E0, Byte
    <2> SUFFICES ASSUME NEW m \in 1 .. Len(c) PROVE wantsMore(SubSeq(c, 1, m)) <=> m < Len(c)
      BY <2>1
    <2>2. PICK s : s = SubSeq(c, 1, m)
      OBVIOUS
    <2>3. /\ Len(s) = m /\ m \in 1 .. 4
          /\ s[1] = E0 /\ (m >= 2 => s[2] = x) /\ (m >= 3 => s[3] = E0)
      BY <2>1, <2>2, Prefix
    <2>4. wantsMore(s) <=> m < 4
      BY <1>4, <2>3 DEF wantsMore, E0, E1
    <2> QED
      BY <2>1, <2>2, <2>4
  <1>5. ASSUME c = pausebrk_scode
        PROVE  /\ c \in Seq(Byte)
               /\ \A m \in 1 .. Len(c) : wantsMore(SubSeq(c, 1, m)) <=> m < Len(c)
    <2>1. c \in Seq(Byte) /\ Len(c) = 6 /\ c[1] = E1
      BY <1>5 DEF pausebrk_scode, E1, Byte
    <2> SUFFICES ASSUME NEW m \in 1 .. Len(c) PROVE wantsMore(SubSeq(c, 1, m)) <=> m < Len(c)
      BY <2>1
    <2>2. PICK s : s = SubSeq(c, 1, m)
      OBVIOUS
    <2>3. Len(s) = m /\ m \in 1 .. 6 /\ s[1] = E1
      BY <2>1, <2>2, Prefix
    <2>4. startsWith(s, pausebrk_scode)
      BY <1>5, <2>1, <2>2, <2>3 DEF startsWith
    <2>5. wantsMore(s) <=> m < 6
      BY <2>3, <2>4 DEF wantsMore, E0, E1
    <2> QED
      BY <2>1, <2>2, <2>5
  <1>6. CASE c = <<>>
    BY <1>6, EmptySeq
  <1>7. \/ c = <<>> \/ c = pausebrk_scode
        \/ \E x \in Byte \ {E0, E1} : c = <<x>>
        \/ \E x \in Byte \ {42, 183} : c = <<E0, x>>
        \/ \E x \in {42, 183}, y \in Byte : c = <<E0, x, E0, y>>
    <2>1. /\ {30, 158, 58, 186, 42, 170, 54, 182, 29, 157, 56, 184} \subseteq Byte \ {E0, E1}
          /\ {29, 157, 56, 184} \subseteq Byte \ {42, 183}
          /\ {55, 170} \subseteq Byte
      BY DEF Byte, E0, E1
    <2>2. \/ c = <<>> \/ c = pausebrk_scode
          \/ \E x \in {30, 158, 58, 186, 42, 170, 54, 182, 29, 157, 56, 184} : c = <<x>>
          \/ \E x \in {29, 157, 56, 184} : c = <<E0, x>>
          \/ \E x \in {42, 183}, y \in {55, 170} : c = <<E0, x, E0, y>>
      <3>1. CASE e.key \in {"a", "CAPS_LOCK", "SHIFT_L", "SHIFT_R", "CTRL_L", "ALT_L"}
        BY <1>1, <3>1, Codes
      <3>2. CASE e.key \in {"CTRL_R", "ALT_R"}
        BY <1>1, <3>2, Codes
      <3>3. CASE e.key \in {"PRINTSCREEN", "PAUSEBREAK"}
        BY <1>1, <3>3, Codes
      <3> QED
        BY <3>1, <3>2, <3>3, Codes
    <2> QED
      BY <2>1, <2>2
  <1> QED
    BY <1>2, <1>3, <1>4, <1>5, <1>6, <1>7

--------------------------------------------------------------------------------
(* The ring.  get_byte_from_kbuf() has moved p_tail before it lowers the   *)
(* count; in between the interrupt is off, so the count it has loaded is   *)
(* still the count.                                                        *)
inRing == IF pc = "put" THEN reg - 1 ELSE count
queue  == [i \in 1 .. inRing |-> buf[(p_tail + i - 1) % KB_IN_BYTES]]

RingInv ==
  /\ buf \in [0 .. K - 1 -> Byte]
  /\ p_head \in 0 .. K - 1
  /\ p_tail \in 0 .. K - 1
  /\ count \in 0 .. K
  /\ wire \in Seq(Byte)
  /\ got \in Seq(Byte)
  /\ pc \in {"idle", "wait", "take", "put", "decode"}
  /\ pc \in {"take", "put"} => count > 0 /\ ~IF_flag
  /\ pc = "put" => reg = count
  /\ p_head = (p_tail + inRing) % K

LEMMA QueueType ==
  ASSUME RingInv
  PROVE  /\ inRing \in 0 .. K
         /\ pc # "put" => inRing = count
         /\ queue \in Seq(Byte) /\ Len(queue) = inRing
         /\ \A i \in 1 .. inRing : queue[i] = buf[(p_tail + (i - 1)) % K]
  <1>1. inRing \in 0 .. K /\ (pc # "put" => inRing = count)
    BY Size DEF RingInv, inRing
  <1>2. ASSUME NEW i \in 1 .. inRing
        PROVE  /\ p_tail + i - 1 = p_tail + (i - 1)
               /\ buf[(p_tail + (i - 1)) % K] \in Byte
    <2>1. i - 1 \in 0 .. K - 1 /\ p_tail \in 0 .. K - 1
      BY <1>1, Size DEF RingInv
    <2>2. (p_tail + (i - 1)) % K \in 0 .. K - 1
      BY <2>1, Wrap
    <2>3. p_tail + i - 1 = p_tail + (i - 1)
      BY <2>1, Size
    <2> QED
      BY <2>2, <2>3 DEF RingInv
  <1>3. queue = [i \in 1 .. inRing |-> buf[(p_tail + (i - 1)) % K]]
    BY <1>2 DEF queue, K
  <1>4. queue \in [1 .. inRing -> Byte]
    BY <1>2, <1>3
  <1>5. inRing \in Nat
    BY <1>1, Size
  <1>6. queue \in Seq(Byte) /\ Len(queue) = inRing
    BY <1>4, <1>5
  <1> QED
    BY <1>1, <1>3, <1>6

QueueTyped ==
  /\ queue \in Seq(Byte) /\ Len(queue) = inRing
  /\ \A i \in 1 .. inRing : queue[i] = buf[(p_tail + (i - 1)) % K]

LEMMA QueueTypeNext == RingInv' => QueueTyped'
  <1>1. RingInv => QueueTyped
    BY QueueType DEF QueueTyped
  <1> QED
    BY <1>1, PTL

LEMMA KeepRing ==
  ASSUME RingInv, UNCHANGED ring, inRing' = inRing,
         wire' \in Seq(Byte), got' \in Seq(Byte),
         pc' \in {"idle", "wait", "take", "put", "decode"},
         pc' \in {"take", "put"} => count > 0 /\ ~IF_flag',
         pc' = "put" => reg' = count
  PROVE  RingInv' /\ queue' = queue
  BY DEF RingInv, queue, ring

(* keyboard_handler() puts its byte where no byte is waiting.              *)
LEMMA InterruptRing ==
  ASSUME RingInv, Interrupt
  PROVE  /\ RingInv'
         /\ count < K => Len(queue) < K /\ queue' = Append(queue, Head(wire))
         /\ ~(count < K) => queue' = queue
         /\ Head(wire) \in Byte
  <1>1. Head(wire) \in Byte /\ Tail(wire) \in Seq(Byte)
    BY HeadTailProperties DEF RingInv, Interrupt
  <1>2. pc \notin {"take", "put"} /\ pc' = pc /\ inRing = count /\ inRing' = count'
    BY DEF RingInv, Interrupt, reader, inRing
  <1>3. CASE count < K
    <2>1. /\ buf' = [buf EXCEPT ![p_head] = Head(wire)] /\ p_head' = next(p_head)
          /\ count' = count + 1 /\ p_tail' = p_tail /\ wire' = Tail(wire)
          /\ UNCHANGED <<IF_flag, pc, got, reg>>
      BY <1>3 DEF Interrupt, hasRoom, reader, K
    <2>2. p_head \in 0 .. K - 1 /\ p_tail \in 0 .. K - 1 /\ count \in 0 .. K - 1
      BY <1>3, Size DEF RingInv
    <2>3. p_head = (p_tail + count) % K
      BY <1>2 DEF RingInv
    <2>4. p_head' \in 0 .. K - 1 /\ p_head' = (p_tail + (count + 1)) % K
      BY <2>1, <2>2, <2>3, Wrap
    <2>5. buf' \in [0 .. K - 1 -> Byte]
      BY <1>1, <2>1, <2>2 DEF RingInv
    <2>6. count' \in 0 .. K
      BY <2>1, <2>2, Size
    <2>7. RingInv'
      BY <1>1, <1>2, <2>1, <2>2, <2>4, <2>5, <2>6 DEF RingInv
    <2>8. /\ Len(queue) = count /\ queue \in Seq(Byte)
          /\ \A i \in 1 .. count : queue[i] = buf[(p_tail + (i - 1)) % K]
      BY <1>2, QueueType
    <2>9. /\ queue' \in Seq(Byte) /\ Len(queue') = count + 1
          /\ \A i \in 1 .. count + 1 : queue'[i] = buf'[(p_tail + (i - 1)) % K]
      BY <1>2, <2>1, <2>7, QueueTypeNext DEF QueueTyped
    <2>10. ASSUME NEW i \in 1 .. count PROVE queue'[i] = queue[i]
      <3>1. i - 1 \in 0 .. K - 1 /\ i - 1 # count /\ i \in 1 .. count + 1
        BY <2>2, Size
      <3>2. (p_tail + (i - 1)) % K \in 0 .. K - 1 /\ (p_tail + (i - 1)) % K # p_head
        BY <2>2, <2>3, <3>1, Wrap
      <3>3. buf'[(p_tail + (i - 1)) % K] = buf[(p_tail + (i - 1)) % K]
        BY <2>1, <3>2 DEF RingInv
      <3> QED
        BY <2>8, <2>9, <3>1, <3>3
    <2>11. queue'[count + 1] = Head(wire)
      <3>1. count + 1 \in 1 .. count + 1 /\ (count + 1) - 1 = count
        BY <2>2, Size
      <3>2. buf'[p_head] = Head(wire)
        BY <2>1, <2>2 DEF RingInv
      <3> QED
        BY <2>3, <2>9, <3>1, <3>2
    <2>12. queue' = Append(queue, Head(wire))
      <3>1. /\ Append(queue, Head(wire)) \in Seq(Byte)
            /\ Len(Append(queue, Head(wire))) = count + 1
            /\ \A i \in 1 .. count : Append(queue, Head(wire))[i] = queue[i]
            /\ Append(queue, Head(wire))[count + 1] = Head(wire)
        BY <1>1, <2>8, AppendProperties
      <3>2. \A i \in 1 .. count + 1 : i \in 1 .. count \/ i = count + 1
        BY <2>2, Size
      <3>3. \A i \in 1 .. count + 1 : queue'[i] = Append(queue, Head(wire))[i]
        BY <2>10, <2>11, <3>1, <3>2
      <3> QED
        BY <2>9, <3>1, <3>3, SeqEqual
    <2> QED
      BY <1>1, <1>3, <2>7, <2>8, <2>12
  <1>4. CASE ~(count < K)
    <2>1. UNCHANGED ring /\ wire' = Tail(wire) /\ UNCHANGED <<IF_flag, pc, got, reg>>
      BY <1>4 DEF Interrupt, hasRoom, ring, reader, K
    <2>2. count' = count
      BY <2>1 DEF ring
    <2>3. RingInv' /\ queue' = queue
      BY <1>1, <1>2, <2>1, <2>2, KeepRing DEF RingInv
    <2> QED
      BY <1>1, <1>4, <2>3
  <1> QED
    BY <1>3, <1>4

(* get_byte_from_kbuf() takes the oldest byte, and the count follows.      *)
LEMMA TakeRing ==
  ASSUME RingInv, GetByte, pc = "take", wire' = wire
  PROVE  /\ RingInv'
         /\ queue # <<>> /\ queue' = Tail(queue)
         /\ got' = Append(got, Head(queue)) /\ Head(queue) \in Byte
  <1>1. /\ got' = Append(got, buf[p_tail]) /\ p_tail' = next(p_tail) /\ reg' = count
        /\ pc' = "put" /\ UNCHANGED <<buf, p_head, count, IF_flag>>
    BY DEF GetByte
  <1>2. count \in 1 .. K /\ ~IF_flag /\ inRing = count /\ p_tail \in 0 .. K - 1
    BY Size DEF RingInv, inRing
  <1>3. inRing' = count - 1
    BY <1>1 DEF inRing
  <1>4. /\ queue \in Seq(Byte) /\ Len(queue) = count
        /\ \A i \in 1 .. count : queue[i] = buf[(p_tail + (i - 1)) % K]
    BY <1>2, QueueType
  <1>5. queue # <<>>
    BY <1>2, <1>4, Size, EmptySeq
  <1>6. /\ Head(queue) \in Byte /\ Tail(queue) \in Seq(Byte) /\ Len(Tail(queue)) = count - 1
        /\ \A i \in 1 .. count - 1 : Tail(queue)[i] = queue[i + 1]
    BY <1>4, <1>5, HeadTailProperties
  <1>7. Head(queue) = buf[p_tail]
    <2>1. 1 \in 1 .. count /\ p_tail + (1 - 1) = p_tail
      BY <1>2, Size
    <2>2. queue[1] = buf[p_tail % K]
      BY <1>4, <2>1
    <2>3. p_tail % K = p_tail
      BY <1>2, Wrap
    <2>4. Head(queue) = queue[1]
      BY <1>4, <1>5
    <2> QED
      BY <2>2, <2>3, <2>4
  <1>8. got' \in Seq(Byte)
    BY <1>1, <1>6, <1>7, AppendProperties DEF RingInv
  <1>9. p_tail' \in 0 .. K - 1 /\ p_head = (p_tail' + (count - 1)) % K
    <2>1. count - 1 \in 0 .. K - 1 /\ (count - 1) + 1 = count
      BY <1>2, Size
    <2>2. (next(p_tail) + (count - 1)) % K = (p_tail + count) % K
      BY <1>2, <2>1, Wrap
    <2> QED
      BY <1>1, <1>2, <2>2, Wrap DEF RingInv
  <1>10. RingInv'
    BY <1>1, <1>2, <1>3, <1>8, <1>9 DEF RingInv
  <1>11. /\ queue' \in Seq(Byte) /\ Len(queue') = count - 1
         /\ \A i \in 1 .. count - 1 : queue'[i] = buf[(p_tail' + (i - 1)) % K]
    BY <1>1, <1>3, <1>10, QueueTypeNext DEF QueueTyped
  <1>12. ASSUME NEW i \in 1 .. count - 1 PROVE queue'[i] = Tail(queue)[i]
    <2>1. i - 1 \in 0 .. K - 1 /\ (i - 1) + 1 = (i + 1) - 1 /\ i + 1 \in 1 .. count
      BY <1>2, Size
    <2>2. (next(p_tail) + (i - 1)) % K = (p_tail + ((i + 1) - 1)) % K
      BY <1>2, <2>1, Wrap
    <2> QED
      BY <1>1, <1>4, <1>6, <1>11, <2>1, <2>2
  <1>13. queue' = Tail(queue)
    BY <1>6, <1>11, <1>12, SeqEqual
  <1> QED
    BY <1>1, <1>5, <1>6, <1>7, <1>10, <1>13

LEMMA PutRing ==
  ASSUME RingInv, GetByte, pc # "take", wire' = wire
  PROVE  RingInv' /\ queue' = queue
  <1>1. CASE pc \in {"idle", "wait"}
    <2>1. count > 0 /\ IF_flag' = FALSE /\ pc' = "take" /\ UNCHANGED <<ring, got, reg>>
      BY <1>1 DEF GetByte, disable_int
    <2>2. inRing' = inRing
      BY <1>1, <2>1 DEF inRing, ring
    <2> QED
      BY <2>1, <2>2, KeepRing DEF RingInv
  <1>2. CASE pc = "put"
    <2>1. /\ count' = reg - 1 /\ reg' = 0 /\ pc' \in {"wait", "decode"}
          /\ UNCHANGED <<buf, p_head, p_tail, got>>
      BY <1>2 DEF GetByte
    <2>2. inRing' = inRing /\ inRing = count'
      BY <1>2, <2>1 DEF inRing
    <2>3. count' \in 0 .. K
      BY <1>2, <2>1, Size DEF RingInv
    <2>4. RingInv'
      BY <2>1, <2>2, <2>3 DEF RingInv
    <2>5. queue' = queue
      BY <2>1, <2>2 DEF queue
    <2> QED
      BY <2>4, <2>5
  <1> QED
    BY <1>1, <1>2 DEF RingInv, GetByte

LEMMA StrokeRing ==
  ASSUME RingInv, NEW k \in KEYS, Stroke(k)
  PROVE  RingInv' /\ queue' = queue
  <1>1. PICK e \in Event : wire' = wire \o codes(e)
    <2>1. [key |-> k, make |-> k \notin held] \in Event
      BY DEF Event
    <2> QED
      BY <2>1 DEF Stroke
  <1>2. wire' \in Seq(Byte)
    BY <1>1, WantsMore, ConcatProperties DEF RingInv
  <1>3. UNCHANGED <<ring, IF_flag, pc, got, reg>>
    BY DEF Stroke, reader
  <1>4. inRing' = inRing
    BY <1>3 DEF inRing, ring
  <1> QED
    BY <1>2, <1>3, <1>4, KeepRing DEF RingInv

LEMMA DecodeRing ==
  ASSUME RingInv, Decode
  PROVE  RingInv' /\ queue' = queue
  <1>1. /\ pc = "decode" /\ pc' = "idle" /\ got' = <<>>
        /\ UNCHANGED <<ring, IF_flag, reg, wire>>
    BY DEF Decode, keyboard
  <1>2. inRing' = inRing
    BY <1>1 DEF inRing, ring
  <1>3. got' \in Seq(Byte)
    BY <1>1, EmptySeq
  <1> QED
    BY <1>1, <1>2, <1>3, KeepRing DEF RingInv

LEMMA StutterRing ==
  ASSUME RingInv, UNCHANGED vars
  PROVE  RingInv' /\ queue' = queue
  <1>1. UNCHANGED <<ring, IF_flag, pc, got, reg, wire>>
    BY DEF vars, reader, keyboard
  <1>2. inRing' = inRing
    BY <1>1 DEF inRing, ring
  <1> QED
    BY <1>1, <1>2, KeepRing DEF RingInv

LEMMA InitRing == Init => RingInv /\ queue = <<>>
  <1> SUFFICES ASSUME Init PROVE RingInv /\ queue = <<>>
    OBVIOUS
  <1>1. inRing = 0
    BY DEF Init, inRing
  <1>2. RingInv
    <2>1. buf \in [0 .. K - 1 -> Byte]
      BY DEF Init, K, Byte
    <2>2. 0 \in 0 .. K - 1 /\ 0 % K = 0
      BY Size, Wrap
    <2>3. <<>> \in Seq(Byte)
      BY EmptySeq
    <2>4. 0 \in 0 .. K /\ 0 + 0 = 0
      BY Size
    <2> QED
      BY <1>1, <2>1, <2>2, <2>3, <2>4 DEF Init, RingInv
  <1>3. Len(queue) = 0 /\ queue \in Seq(Byte)
    BY <1>1, <1>2, QueueType
  <1> QED
    BY <1>2, <1>3, EmptySeq

LEMMA RingStep ==
  ASSUME RingInv, [Next]_vars
  PROVE  /\ RingInv'
         /\ \/ queue' = queue
            \/ \E b \in Byte : Len(queue) < K /\ queue' = Append(queue, b)
            \/ queue # <<>> /\ queue' = Tail(queue)
  <1>1. CASE Interrupt
    BY <1>1, InterruptRing
  <1>2. CASE Read
    <2>1. GetByte /\ wire' = wire
      BY <1>2 DEF Read, keyboard
    <2> QED
      BY <2>1, TakeRing, PutRing
  <1>3. CASE \E k \in KEYS : Stroke(k)
    BY <1>3, StrokeRing
  <1>4. CASE Decode
    BY <1>4, DecodeRing
  <1>5. CASE UNCHANGED vars
    BY <1>5, StutterRing
  <1> QED
    BY <1>1, <1>2, <1>3, <1>4, <1>5 DEF Next

(* The two pointers and the count, changed on either side of an interrupt, *)
(* make a queue: no byte is lost in the ring, none is read twice, out of   *)
(* order or overwritten.                                                   *)
THEOREM RingImplementsQueue == Spec => RingIsQueue
  <1>1. Init => RingInv /\ Queue!Init
    BY InitRing DEF Queue!Init, queue, inRing
  <1>2. RingInv /\ [Next]_vars => RingInv' /\ [Queue!Next]_queue
    <2> SUFFICES ASSUME RingInv, [Next]_vars PROVE RingInv' /\ [Queue!Next]_queue
      OBVIOUS
    <2>1. CASE queue' = queue
      BY <2>1, RingStep
    <2>2. ASSUME NEW b \in Byte, Len(queue) < K, queue' = Append(queue, b) PROVE Queue!Next
      BY <2>2 DEF Queue!Next, Queue!Put, queue, inRing, Byte, K
    <2>3. ASSUME queue # <<>>, queue' = Tail(queue) PROVE Queue!Next
      BY <2>3 DEF Queue!Next, Queue!Get, queue, inRing
    <2> QED
      BY <2>1, <2>2, <2>3, RingStep
  <1>3. RingInv /\ [Next]_vars =>
          RingInv' /\ [Queue!Next]_([i \in 1 .. (IF pc = "put" THEN reg - 1 ELSE count) |->
                                      buf[(p_tail + i - 1) % KB_IN_BYTES]])
    BY <1>2 DEF queue, inRing
  <1> QED
    BY <1>1, <1>3, PTL DEF Spec, RingIsQueue, Queue!Spec

--------------------------------------------------------------------------------
(* The bytes s are what the presses and releases t have sent, one after    *)
(* the other: start says behind how many bytes each begins.                *)
Starts(s, t, n, m, start) ==
  /\ start \in [1 .. n + 1 -> 0 .. m]
  /\ start[1] = 0
  /\ start[n + 1] = m
  /\ \A k \in 1 .. n :
       /\ codes(t[k]) # <<>>
       /\ start[k + 1] = start[k] + Len(codes(t[k]))
       /\ \A j \in 1 .. Len(codes(t[k])) : s[start[k] + j] = codes(t[k])[j]
  /\ \A k, i \in 1 .. n + 1 : k <= i => start[k] <= start[i]

Parses(s, t) == \E start : Starts(s, t, Len(t), Len(s), start)

LEMMA CodesLen ==
  ASSUME NEW e \in Event
  PROVE  /\ codes(e) \in Seq(Byte) /\ Len(codes(e)) \in Nat
         /\ codes(e) # <<>> => Len(codes(e)) >= 1
  <1>1. codes(e) \in Seq(Byte)
    BY WantsMore
  <1>2. Len(codes(e)) \in Nat /\ (codes(e) # <<>> => Len(codes(e)) \in Nat \ {0})
    BY <1>1, LenProperties, EmptySeq
  <1> QED
    BY <1>1, <1>2

LEMMA ParsesNothing == Parses(<<>>, <<>>)
  <1>1. Len(<<>>) = 0
    BY EmptySeq
  <1>2. PICK f : f = [k \in 1 .. 1 |-> 0]
    OBVIOUS
  <1>3. /\ f \in [1 .. Len(<<>>) + 1 -> 0 .. Len(<<>>)]
        /\ f[1] = 0 /\ f[Len(<<>>) + 1] = Len(<<>>)
        /\ \A k, m \in 1 .. Len(<<>>) + 1 : k <= m => f[k] <= f[m]
    BY <1>1, <1>2
  <1>4. 1 .. Len(<<>>) = {}
    BY <1>1
  <1> QED
    BY <1>3, <1>4 DEF Parses, Starts

LEMMA ParsesOneMore ==
  ASSUME NEW s \in Seq(Byte), NEW t \in Seq(Event), NEW e \in Event,
         Parses(s, t), codes(e) # <<>>
  PROVE  Parses(s \o codes(e), Append(t, e))
  <1>1. PICK c : c = codes(e)
    OBVIOUS
  <1>2. PICK L, N, C : L = Len(s) /\ N = Len(t) /\ C = Len(c)
    OBVIOUS
  <1>3. /\ L \in Nat /\ N \in Nat /\ C \in Nat /\ C >= 1
        /\ c \in Seq(Byte)
    BY <1>1, <1>2, LenProperties, CodesLen
  <1>4. PICK z : z = s \o c
    OBVIOUS
  <1>5. /\ Len(z) = L + C
        /\ \A i \in 1 .. L : z[i] = s[i]
        /\ \A j \in 1 .. C : z[L + j] = c[j]
    <2>1. /\ Len(z) = L + C
          /\ \A i \in 1 .. L + C : z[i] = IF i <= L THEN s[i] ELSE c[i - L]
      BY <1>2, <1>3, <1>4, ConcatProperties
    <2>2. ASSUME NEW j \in 1 .. C PROVE z[L + j] = c[j]
      <3>1. L + j \in 1 .. L + C /\ ~(L + j <= L) /\ (L + j) - L = j
        BY <1>3
      <3> QED
        BY <2>1, <3>1
    <2>3. \A i \in 1 .. L : i \in 1 .. L + C /\ i <= L
      BY <1>3
    <2> QED
      BY <2>1, <2>2, <2>3
  <1>6. PICK u : u = Append(t, e)
    OBVIOUS
  <1>7. /\ Len(u) = N + 1
        /\ \A k \in 1 .. N : u[k] = t[k]
        /\ u[N + 1] = e
    BY <1>2, <1>6, AppendProperties
  <1>8. PICK f \in [1 .. N + 1 -> 0 .. L] :
          /\ f[1] = 0 /\ f[N + 1] = L
          /\ \A k \in 1 .. N : /\ codes(t[k]) # <<>>
                               /\ f[k + 1] = f[k] + Len(codes(t[k]))
                               /\ \A j \in 1 .. Len(codes(t[k])) : s[f[k] + j] = codes(t[k])[j]
          /\ \A k, m \in 1 .. N + 1 : k <= m => f[k] <= f[m]
    BY <1>2 DEF Parses, Starts
  <1>9. PICK g : g = [k \in 1 .. N + 2 |-> IF k = N + 2 THEN L + C ELSE f[k]]
    OBVIOUS
  <1>10. /\ g[N + 2] = L + C
         /\ \A k \in 1 .. N + 1 : g[k] = f[k] /\ f[k] \in 0 .. L
    BY <1>3, <1>8, <1>9
  <1>11. g \in [1 .. N + 2 -> 0 .. L + C]
    <2>1. \A k \in 1 .. N + 2 : k = N + 2 \/ k \in 1 .. N + 1
      BY <1>3
    <2>2. /\ L + C \in 0 .. L + C
          /\ \A a \in 0 .. L : a \in 0 .. L + C
      BY <1>3
    <2>3. ASSUME NEW k \in 1 .. N + 2 PROVE g[k] \in 0 .. L + C
      <3>1. CASE k = N + 2
        BY <1>10, <2>2, <3>1
      <3>2. CASE k \in 1 .. N + 1
        BY <1>10, <2>2, <3>2
      <3> QED
        BY <2>1, <3>1, <3>2
    <2> QED
      BY <1>9, <2>3
  <1>12. g[1] = 0
    BY <1>3, <1>8, <1>10
  <1>13. ASSUME NEW k \in 1 .. N + 1
         PROVE  /\ codes(u[k]) # <<>>
                /\ g[k + 1] = g[k] + Len(codes(u[k]))
                /\ \A j \in 1 .. Len(codes(u[k])) : z[g[k] + j] = codes(u[k])[j]
    <2>1. CASE k = N + 1
      <3>1. u[k] = e /\ g[k] = L /\ g[k + 1] = L + C
        BY <1>3, <1>7, <1>8, <1>10, <2>1
      <3> QED
        BY <1>1, <1>2, <1>5, <3>1
    <2>2. CASE k # N + 1
      <3>1. k \in 1 .. N /\ k \in 1 .. N + 1 /\ k + 1 \in 1 .. N + 1
        BY <1>3, <2>2
      <3>2. PICK d : d = codes(t[k])
        OBVIOUS
      <3>3. t[k] \in Event
        BY <1>2, <3>1, ElementOfSeq
      <3>4. Len(d) \in Nat
        BY <3>2, <3>3, CodesLen
      <3>5. /\ u[k] = t[k] /\ g[k] = f[k] /\ g[k + 1] = f[k + 1]
            /\ f[k] \in 0 .. L /\ f[k + 1] \in 0 .. L
            /\ f[k + 1] = f[k] + Len(d) /\ d # <<>>
            /\ \A j \in 1 .. Len(d) : s[f[k] + j] = d[j]
        BY <1>7, <1>8, <1>10, <3>1, <3>2
      <3>6. ASSUME NEW j \in 1 .. Len(d) PROVE z[g[k] + j] = d[j]
        <4>1. f[k] + j \in 1 .. L
          BY <1>3, <3>4, <3>5
        <4> QED
          BY <1>5, <3>5, <4>1
      <3> QED
        BY <3>2, <3>5, <3>6
    <2> QED
      BY <2>1, <2>2
  <1>14. ASSUME NEW k \in 1 .. N + 2, NEW m \in 1 .. N + 2, k <= m PROVE g[k] <= g[m]
    <2>1. CASE m = N + 2
      <3>1. g[k] \in 0 .. L + C
        BY <1>11
      <3> QED
        BY <1>3, <1>10, <2>1, <3>1
    <2>2. CASE m # N + 2
      <3>1. k \in 1 .. N + 1 /\ m \in 1 .. N + 1
        BY <1>3, <1>14, <2>2
      <3> QED
        BY <1>8, <1>10, <1>14, <3>1
    <2> QED
      BY <2>1, <2>2
  <1>15. PICK I : I = N + 1
    OBVIOUS
  <1>16. Parses(z, u)
    <2>1. PICK M : M = L + C
      OBVIOUS
    <2>2. /\ I + 1 = N + 2 /\ Len(u) = I /\ Len(z) = M
      BY <1>3, <1>5, <1>7, <1>15, <2>1
    <2>3. g \in [1 .. I + 1 -> 0 .. M]
      BY <1>11, <2>1, <2>2
    <2>4. g[1] = 0 /\ g[I + 1] = M
      BY <1>10, <1>12, <2>1, <2>2
    <2>5. \A k \in 1 .. I : /\ codes(u[k]) # <<>>
                            /\ g[k + 1] = g[k] + Len(codes(u[k]))
                            /\ \A j \in 1 .. Len(codes(u[k])) : z[g[k] + j] = codes(u[k])[j]
      BY <1>13, <1>15
    <2>6. \A k, m \in 1 .. I + 1 : k <= m => g[k] <= g[m]
      BY <1>14, <2>2
    <2>7. Starts(z, u, I, M, g)
      BY <2>3, <2>4, <2>5, <2>6 DEF Starts
    <2> QED
      BY <2>2, <2>7 DEF Parses
  <1> QED
    BY <1>1, <1>4, <1>6, <1>16

(* If there are bytes they begin with those of the first.                  *)
LEMMA ParsesFirst ==
  ASSUME NEW s \in Seq(Byte), NEW t \in Seq(Event), Parses(s, t), s # <<>>
  PROVE  /\ t # <<>> /\ t[1] \in Event /\ Head(t) = t[1]
         /\ codes(t[1]) \in Seq(Byte)
         /\ Len(codes(t[1])) \in 1 .. Len(s)
         /\ \A j \in 1 .. Len(codes(t[1])) : s[j] = codes(t[1])[j]
  <1>1. PICK f \in [1 .. Len(t) + 1 -> 0 .. Len(s)] :
          /\ f[1] = 0 /\ f[Len(t) + 1] = Len(s)
          /\ \A k \in 1 .. Len(t) : /\ codes(t[k]) # <<>>
                                    /\ f[k + 1] = f[k] + Len(codes(t[k]))
                                    /\ \A j \in 1 .. Len(codes(t[k])) : s[f[k] + j] = codes(t[k])[j]
    BY DEF Parses, Starts
  <1>2. Len(s) \in Nat \ {0} /\ Len(t) \in Nat
    BY EmptySeq, LenProperties
  <1>3. t # <<>>
    <2>1. Len(t) # 0
      BY <1>1, <1>2
    <2> QED
      BY <2>1, EmptySeq
  <1>4. Len(t) \in Nat \ {0}
    BY <1>3, EmptySeq
  <1>5. 1 \in 1 .. Len(t) /\ 1 + 1 \in 1 .. Len(t) + 1
    BY <1>4
  <1>6. t[1] \in Event /\ Head(t) = t[1]
    BY <1>3, <1>5, ElementOfSeq
  <1>7. PICK c : c = codes(t[1])
    OBVIOUS
  <1>8. c \in Seq(Byte) /\ Len(c) \in Nat /\ Len(c) >= 1
    BY <1>1, <1>5, <1>6, <1>7, CodesLen
  <1>9. f[1 + 1] = 0 + Len(c) /\ f[1 + 1] \in 0 .. Len(s)
    BY <1>1, <1>5, <1>7
  <1>10. Len(c) \in 1 .. Len(s)
    BY <1>2, <1>8, <1>9
  <1>11. \A j \in 1 .. Len(c) : s[j] = c[j]
    <2>1. \A j \in 1 .. Len(c) : s[0 + j] = c[j] /\ 0 + j = j
      BY <1>1, <1>5, <1>7
    <2> QED
      BY <2>1
  <1> QED
    BY <1>3, <1>6, <1>7, <1>8, <1>10, <1>11

(* Without those bytes the others are left.                                *)
LEMMA ParsesRest ==
  ASSUME NEW s \in Seq(Byte), NEW t \in Seq(Event), t # <<>>, Parses(codes(t[1]) \o s, t)
  PROVE  Parses(s, Tail(t))
  <1>1. PICK N, L : N = Len(t) - 1 /\ L = Len(s)
    OBVIOUS
  <1>2. N \in Nat /\ Len(t) = N + 1 /\ L \in Nat
    <2>1. Len(t) \in Nat \ {0} /\ Len(s) \in Nat
      BY EmptySeq, LenProperties
    <2> QED
      BY <1>1, <2>1
  <1>3. t[1] \in Event
    BY <1>2, ElementOfSeq
  <1>4. PICK c, C : c = codes(t[1]) /\ C = Len(c)
    OBVIOUS
  <1>5. c \in Seq(Byte) /\ C \in Nat
    BY <1>3, <1>4, CodesLen
  <1>6. PICK z : z = c \o s
    OBVIOUS
  <1>7. Len(z) = C + L /\ \A i \in 1 .. L : z[C + i] = s[i]
    <2>1. /\ Len(z) = C + L
          /\ \A i \in 1 .. C + L : z[i] = IF i <= C THEN c[i] ELSE s[i - C]
      BY <1>1, <1>4, <1>5, <1>6, ConcatProperties
    <2>2. ASSUME NEW i \in 1 .. L PROVE z[C + i] = s[i]
      <3>1. C + i \in 1 .. C + L /\ ~(C + i <= C) /\ (C + i) - C = i
        BY <1>2, <1>5
      <3> QED
        BY <2>1, <3>1
    <2> QED
      BY <2>1, <2>2
  <1>8. PICK u : u = Tail(t)
    OBVIOUS
  <1>9. Len(u) = N /\ u \in Seq(Event) /\ \A k \in 1 .. N : u[k] = t[k + 1]
    BY <1>1, <1>2, <1>8, HeadTailProperties
  <1>10. PICK f \in [1 .. N + 2 -> 0 .. C + L] :
          /\ f[1] = 0 /\ f[N + 2] = C + L
          /\ \A k \in 1 .. N + 1 : /\ codes(t[k]) # <<>>
                                   /\ f[k + 1] = f[k] + Len(codes(t[k]))
                                   /\ \A j \in 1 .. Len(codes(t[k])) : z[f[k] + j] = codes(t[k])[j]
          /\ \A k, m \in 1 .. N + 2 : k <= m => f[k] <= f[m]
    <2>1. Len(t) + 1 = N + 2
      BY <1>2
    <2> QED
      BY <1>2, <1>4, <1>6, <1>7, <2>1 DEF Parses, Starts
  <1>11. f[2] = C
    <2>1. 1 \in 1 .. N + 1 /\ 1 + 1 = 2
      BY <1>2
    <2> QED
      BY <1>4, <1>5, <1>10, <2>1
  <1>12. ASSUME NEW k \in 1 .. N + 1 PROVE f[k + 1] \in C .. C + L
    <2>1. 2 \in 1 .. N + 2 /\ k + 1 \in 1 .. N + 2 /\ 2 <= k + 1
      BY <1>2
    <2>2. f[2] <= f[k + 1] /\ f[k + 1] \in 0 .. C + L
      BY <1>10, <2>1
    <2> QED
      BY <1>2, <1>5, <1>11, <2>2
  <1>13. PICK g : g = [k \in 1 .. N + 1 |-> f[k + 1] - C]
    OBVIOUS
  <1>14. g \in [1 .. N + 1 -> 0 .. L]
    <2>1. ASSUME NEW k \in 1 .. N + 1 PROVE f[k + 1] - C \in 0 .. L
      BY <1>2, <1>5, <1>12
    <2> QED
      BY <1>13, <2>1
  <1>15. g[1] = 0 /\ g[N + 1] = L
    <2>1. 1 \in 1 .. N + 1 /\ N + 1 \in 1 .. N + 1 /\ 1 + 1 = 2 /\ (N + 1) + 1 = N + 2
      BY <1>2
    <2>2. g[1] = C - C /\ g[N + 1] = (C + L) - C
      BY <1>10, <1>11, <1>13, <2>1
    <2> QED
      BY <1>2, <1>5, <2>2
  <1>16. ASSUME NEW k \in 1 .. N
         PROVE  /\ codes(u[k]) # <<>>
                /\ g[k + 1] = g[k] + Len(codes(u[k]))
                /\ \A j \in 1 .. Len(codes(u[k])) : s[g[k] + j] = codes(u[k])[j]
    <2>1. k \in 1 .. N + 1 /\ k + 1 \in 1 .. N + 1 /\ (k + 1) + 1 \in 1 .. N + 2
      BY <1>2
    <2>2. PICK d, D : d = codes(t[k + 1]) /\ D = Len(d)
      OBVIOUS
    <2>3. t[k + 1] \in Event
      BY <1>2, <2>1, ElementOfSeq
    <2>4. D \in Nat
      BY <2>2, <2>3, CodesLen
    <2>5. /\ d # <<>> /\ f[(k + 1) + 1] = f[k + 1] + D
          /\ \A j \in 1 .. D : z[f[k + 1] + j] = d[j]
      BY <1>10, <2>1, <2>2
    <2>6. /\ g[k] = f[k + 1] - C /\ g[k + 1] = f[(k + 1) + 1] - C
          /\ f[k + 1] \in C .. C + L /\ f[(k + 1) + 1] \in C .. C + L
      BY <1>12, <1>13, <2>1
    <2>7. g[k + 1] = g[k] + D
      BY <1>2, <1>5, <2>4, <2>5, <2>6
    <2>8. ASSUME NEW j \in 1 .. D PROVE s[g[k] + j] = d[j]
      <3>1. PICK a, b : a = f[k + 1] /\ b = f[(k + 1) + 1]
        OBVIOUS
      <3>2. a \in C .. C + L /\ b \in C .. C + L /\ b = a + D /\ g[k] = a - C
        BY <2>5, <2>6, <3>1
      <3>3. g[k] + j \in 1 .. L /\ C + (g[k] + j) = a + j
        BY <1>2, <1>5, <2>4, <3>2
      <3> QED
        BY <1>7, <2>5, <3>1, <3>3
    <2>9. u[k] = t[k + 1]
      BY <1>9
    <2> QED
      BY <2>2, <2>5, <2>7, <2>8, <2>9
  <1>17. ASSUME NEW k \in 1 .. N + 1, NEW m \in 1 .. N + 1, k <= m PROVE g[k] <= g[m]
    <2>1. k + 1 \in 1 .. N + 2 /\ m + 1 \in 1 .. N + 2 /\ k + 1 <= m + 1
      BY <1>2, <1>17
    <2>2. f[k + 1] <= f[m + 1] /\ f[k + 1] \in C .. C + L /\ f[m + 1] \in C .. C + L
      BY <1>10, <1>12, <2>1
    <2> QED
      BY <1>2, <1>5, <1>13, <2>2
  <1>18. Parses(s, u)
    <2>1. Len(u) = N /\ Len(s) = L
      BY <1>1, <1>9
    <2>2. Starts(s, u, N, L, g)
      BY <1>14, <1>15, <1>16, <1>17 DEF Starts
    <2> QED
      BY <2>1, <2>2 DEF Parses
  <1> QED
    BY <1>8, <1>18


--------------------------------------------------------------------------------
(* Every byte on its way: those keyboard_read() has for one key, those in  *)
(* the ring, those the keyboard has not handed over.                       *)
stream == got \o (queue \o wire)

LEMMA Shift ==
  ASSUME NEW s \in Seq(Byte), NEW t \in Seq(Byte), t # <<>>
  PROVE  Append(s, Head(t)) \o Tail(t) = s \o t
  <1>1. PICK N, M : N = Len(s) /\ M = Len(t)
    OBVIOUS
  <1>2. N \in Nat /\ M \in Nat \ {0}
    BY <1>1, EmptySeq, LenProperties
  <1>3. PICK h, r : h = Head(t) /\ r = Tail(t)
    OBVIOUS
  <1>4. /\ h \in Byte /\ r \in Seq(Byte) /\ Len(r) = M - 1 /\ h = t[1]
        /\ \A i \in 1 .. M - 1 : r[i] = t[i + 1]
    BY <1>1, <1>3, HeadTailProperties
  <1>5. PICK a : a = Append(s, h)
    OBVIOUS
  <1>6. /\ a \in Seq(Byte) /\ Len(a) = N + 1
        /\ \A i \in 1 .. N : a[i] = s[i]
        /\ a[N + 1] = h
    BY <1>1, <1>4, <1>5, AppendProperties
  <1>7. PICK x, y : x = a \o r /\ y = s \o t
    OBVIOUS
  <1>8. /\ x \in Seq(Byte) /\ Len(x) = N + M
        /\ \A i \in 1 .. N + M : x[i] = IF i <= N + 1 THEN a[i] ELSE r[i - (N + 1)]
    <2>1. (N + 1) + (M - 1) = N + M
      BY <1>2
    <2>2. /\ x \in Seq(Byte) /\ Len(x) = (N + 1) + (M - 1)
          /\ \A i \in 1 .. (N + 1) + (M - 1) :
               x[i] = IF i <= N + 1 THEN a[i] ELSE r[i - (N + 1)]
      <3>1. /\ a \o r \in Seq(Byte) /\ Len(a \o r) = Len(a) + Len(r)
            /\ \A i \in 1 .. Len(a) + Len(r) :
                 (a \o r)[i] = IF i <= Len(a) THEN a[i] ELSE r[i - Len(a)]
        BY <1>4, <1>6, ConcatProperties
      <3>2. Len(a) = N + 1 /\ Len(r) = M - 1
        BY <1>4, <1>6
      <3> QED
        BY <1>7, <3>1, <3>2, Zenon
    <2> QED
      BY <2>1, <2>2
  <1>9. /\ y \in Seq(Byte) /\ Len(y) = N + M
        /\ \A i \in 1 .. N + M : y[i] = IF i <= N THEN s[i] ELSE t[i - N]
    BY <1>1, <1>7, ConcatProperties
  <1>10. ASSUME NEW i \in 1 .. N + M PROVE x[i] = y[i]
    <2>1. CASE i <= N
      <3>1. i \in 1 .. N /\ i <= N + 1
        BY <1>2, <2>1
      <3> QED
        BY <1>6, <1>8, <1>9, <2>1, <3>1
    <2>2. CASE i = N + 1
      <3>1. ~(i <= N) /\ i <= N + 1 /\ i - N = 1
        BY <1>2, <2>2
      <3> QED
        BY <1>4, <1>6, <1>8, <1>9, <2>2, <3>1
    <2>3. CASE i > N + 1
      <3>1. /\ ~(i <= N) /\ ~(i <= N + 1)
            /\ i - (N + 1) \in 1 .. M - 1 /\ (i - (N + 1)) + 1 = i - N
        BY <1>2, <2>3
      <3> QED
        BY <1>4, <1>8, <1>9, <3>1
    <2> QED
      BY <1>2, <2>1, <2>2, <2>3
  <1>11. x = y
    BY <1>8, <1>9, <1>10, SeqEqual
  <1> QED
    BY <1>3, <1>5, <1>7, <1>11

(* Unless a byte was dropped, the bytes on their way are those of the keys *)
(* not dealt with, and keyboard_read() is inside the first of them.        *)
Inside ==
  /\ Parses(stream, typed)
  /\ got # <<>> =>
       /\ Len(got) <= Len(codes(typed[1]))
       /\ pc \in {"wait", "take"} => Len(got) < Len(codes(typed[1]))
       /\ pc = "decode" => Len(got) = Len(codes(typed[1]))

Aligned ==
  /\ typed \in Seq(Event)
  /\ pc = "idle" => got = <<>>
  /\ pc \in {"wait", "put", "decode"} => got # <<>>
  /\ ~dropped => Inside

LEMMA Stream ==
  ASSUME RingInv
  PROVE  /\ queue \o wire \in Seq(Byte) /\ stream \in Seq(Byte)
         /\ stream = (got \o queue) \o wire
         /\ \A i \in 1 .. Len(got) : stream[i] = got[i]
         /\ got # <<>> => stream # <<>>
  <1>1. queue \in Seq(Byte) /\ wire \in Seq(Byte) /\ got \in Seq(Byte)
    BY QueueType DEF RingInv
  <1>2. PICK q, w, g : q = queue /\ w = wire /\ g = got
    OBVIOUS
  <1>3. q \o w \in Seq(Byte) /\ Len(q \o w) \in Nat /\ Len(g) \in Nat
    BY <1>1, <1>2, ConcatProperties, LenProperties
  <1>4. /\ g \o (q \o w) \in Seq(Byte)
        /\ Len(g \o (q \o w)) = Len(g) + Len(q \o w)
        /\ \A i \in 1 .. Len(g) + Len(q \o w) :
             (g \o (q \o w))[i] = IF i <= Len(g) THEN g[i] ELSE (q \o w)[i - Len(g)]
    BY <1>1, <1>2, <1>3, ConcatProperties
  <1>5. \A i \in 1 .. Len(g) : i \in 1 .. Len(g) + Len(q \o w) /\ i <= Len(g)
    BY <1>3
  <1>6. g \o (q \o w) = (g \o q) \o w
    BY <1>1, <1>2, ConcatAssociative
  <1>7. g # <<>> => g \o (q \o w) # <<>>
    <2> SUFFICES ASSUME g # <<>> PROVE Len(g \o (q \o w)) # 0
      BY EmptySeq
    <2>1. Len(g) \in Nat \ {0}
      BY <1>1, <1>2, EmptySeq
    <2> QED
      BY <1>3, <1>4, <2>1
  <1> QED
    BY <1>2, <1>3, <1>4, <1>5, <1>6, <1>7 DEF stream

(* What keyboard_read() has is the beginning of what the first key sent.   *)
LEMMA Beginning ==
  ASSUME RingInv, typed \in Seq(Event), Inside, got # <<>>
  PROVE  /\ typed # <<>> /\ typed[1] \in Event /\ Head(typed) = typed[1]
         /\ codes(typed[1]) \in Seq(Byte)
         /\ Len(got) \in 1 .. Len(codes(typed[1]))
         /\ got = SubSeq(codes(typed[1]), 1, Len(got))
         /\ Len(got) = Len(codes(typed[1])) => got = codes(typed[1])
  <1>1. PICK s, t, g : s = stream /\ t = typed /\ g = got
    OBVIOUS
  <1>2. /\ s \in Seq(Byte) /\ s # <<>> /\ \A i \in 1 .. Len(g) : s[i] = g[i]
        /\ t \in Seq(Event) /\ Parses(s, t)
        /\ g \in Seq(Byte) /\ Len(g) \in Nat \ {0} /\ Len(g) <= Len(codes(t[1]))
    <2>1. Len(g) \in Nat \ {0}
      BY <1>1, EmptySeq DEF RingInv
    <2> QED
      BY <1>1, <2>1, Stream DEF RingInv, Inside
  <1>3. PICK c : c = codes(t[1])
    OBVIOUS
  <1>4. /\ t # <<>> /\ t[1] \in Event /\ Head(t) = t[1]
        /\ c \in Seq(Byte) /\ Len(c) \in 1 .. Len(s)
        /\ \A j \in 1 .. Len(c) : s[j] = c[j]
    BY <1>2, <1>3, ParsesFirst
  <1>5. PICK N, C : N = Len(g) /\ C = Len(c)
    OBVIOUS
  <1>6. N \in 1 .. C /\ C \in Nat /\ N \in Nat
    <2>1. C \in Nat /\ N \in Nat \ {0} /\ N <= C
      BY <1>2, <1>3, <1>4, <1>5, LenProperties
    <2> QED
      BY <2>1
  <1>7. \A i \in 1 .. N : g[i] = c[i]
    <2>1. \A i \in 1 .. N : i \in 1 .. C
      BY <1>6
    <2> QED
      BY <1>2, <1>4, <1>5, <2>1
  <1>8. /\ SubSeq(c, 1, N) \in Seq(Byte) /\ Len(SubSeq(c, 1, N)) = N
        /\ \A i \in 1 .. N : SubSeq(c, 1, N)[i] = c[i]
    BY <1>4, <1>5, <1>6, Prefix
  <1>9. g = SubSeq(c, 1, N)
    BY <1>2, <1>5, <1>7, <1>8, SeqEqual
  <1>10. N = C => g = c
    BY <1>2, <1>4, <1>5, <1>7, SeqEqual
  <1> QED
    BY <1>1, <1>3, <1>4, <1>5, <1>6, <1>9, <1>10

LEMMA Whole ==
  ASSUME RingInv, Aligned, pc = "decode", ~dropped
  PROVE  /\ typed # <<>> /\ Head(typed) = typed[1] /\ Head(typed) \in Event
         /\ got = codes(typed[1]) /\ got # <<>>
  <1>1. Inside /\ got # <<>> /\ typed \in Seq(Event)
    BY DEF Aligned
  <1>2. Len(got) = Len(codes(typed[1]))
    BY <1>1 DEF Inside
  <1> QED
    BY <1>1, <1>2, Beginning

LEMMA AlignedInit == Init => Aligned
  <1> SUFFICES ASSUME Init PROVE Aligned
    OBVIOUS
  <1>1. queue = <<>>
    BY InitRing
  <1>2. stream = <<>>
    <2>1. <<>> \in Seq(Byte)
      BY EmptySeq
    <2>2. <<>> \o (<<>> \o <<>>) = <<>>
      BY <2>1, ConcatEmptySeq
    <2> QED
      BY <1>1, <2>2 DEF Init, stream
  <1>3. typed = <<>> /\ got = <<>> /\ pc = "idle"
    BY DEF Init
  <1>4. Inside
    BY <1>2, <1>3, ParsesNothing DEF Inside
  <1>5. typed \in Seq(Event)
    BY <1>3, EmptySeq
  <1> QED
    BY <1>3, <1>4, <1>5 DEF Aligned

(* The first key stays the first when another is typed behind it.          *)
LEMMA StrokeAligned ==
  ASSUME RingInv, Aligned, NEW k \in KEYS, Stroke(k)
  PROVE  Aligned'
  <1>1. PICK e \in Event :
          /\ wire' = wire \o codes(e)
          /\ typed' = IF dropped \/ codes(e) = <<>> THEN typed ELSE Append(typed, e)
    <2>1. [key |-> k, make |-> k \notin held] \in Event
      BY DEF Event
    <2> QED
      BY <2>1 DEF Stroke
  <1>2. UNCHANGED <<pc, got, dropped>> /\ queue' = queue
    BY StrokeRing DEF Stroke, reader
  <1>3. typed \in Seq(Event) /\ typed' \in Seq(Event)
    BY <1>1, AppendProperties DEF Aligned
  <1>4. PICK c : c = codes(e)
    OBVIOUS
  <1>5. c \in Seq(Byte)
    BY <1>4, CodesLen
  <1>6. ASSUME ~dropped PROVE Inside'
    <2>1. Inside
      BY <1>6 DEF Aligned
    <2>2. stream' = stream \o c
      <3>1. /\ queue \o wire \in Seq(Byte) /\ queue \in Seq(Byte)
            /\ wire \in Seq(Byte) /\ got \in Seq(Byte)
        BY Stream, QueueType DEF RingInv
      <3>2. queue \o (wire \o c) = (queue \o wire) \o c
        BY <1>5, <3>1, ConcatAssociative
      <3>3. got \o ((queue \o wire) \o c) = (got \o (queue \o wire)) \o c
        BY <1>5, <3>1, ConcatAssociative
      <3>4. stream' = got \o (queue \o (wire \o c))
        BY <1>1, <1>2, <1>4 DEF stream
      <3> QED
        BY <3>2, <3>3, <3>4 DEF stream
    <2>3. CASE c = <<>>
      <3>1. stream' = stream /\ typed' = typed
        BY <1>1, <1>4, <2>2, <2>3, Stream, ConcatEmptySeq
      <3> QED
        BY <1>2, <2>1, <3>1 DEF Inside
    <2>4. CASE c # <<>>
      <3>1. typed' = Append(typed, e)
        BY <1>1, <1>4, <1>6, <2>4
      <3>2. PICK s, t : s = stream /\ t = typed
        OBVIOUS
      <3>3. Parses(s \o codes(e), Append(t, e))
        BY <1>3, <1>4, <2>1, <2>4, <3>2, Stream, ParsesOneMore DEF Inside
      <3>4. Parses(stream', typed')
        BY <1>4, <2>2, <3>1, <3>2, <3>3
      <3>5. got # <<>> => typed'[1] = typed[1]
        <4> SUFFICES ASSUME got # <<>> PROVE Append(typed, e)[1] = typed[1]
          BY <3>1
        <4>1. typed # <<>>
          BY <1>3, <2>1, Beginning
        <4>2. Len(typed) \in Nat \ {0}
          BY <1>3, <4>1, EmptySeq
        <4>3. 1 \in 1 .. Len(typed)
          BY <4>2
        <4> QED
          BY <1>3, <4>3, AppendProperties
      <3> QED
        BY <1>2, <2>1, <3>4, <3>5 DEF Inside
    <2> QED
      BY <2>3, <2>4
  <1> QED
    BY <1>2, <1>3, <1>6 DEF Aligned

(* A byte that goes from the keyboard into the ring stays where it was in  *)
(* the order.                                                              *)
LEMMA InterruptAligned ==
  ASSUME RingInv, Aligned, Interrupt
  PROVE  Aligned'
  <1>1. UNCHANGED <<pc, got>> /\ wire # <<>> /\ wire' = Tail(wire)
    BY DEF Interrupt, reader
  <1>2. CASE ~(count < K)
    <2>1. dropped' = TRUE /\ typed' = <<>>
      BY <1>2 DEF Interrupt, hasRoom, K
    <2>2. typed' \in Seq(Event)
      BY <2>1, EmptySeq
    <2> QED
      BY <1>1, <2>1, <2>2 DEF Aligned
  <1>3. CASE count < K
    <2>1. UNCHANGED <<typed, dropped>>
      BY <1>3 DEF Interrupt, hasRoom, K
    <2>2. queue' = Append(queue, Head(wire))
      BY <1>3, InterruptRing
    <2>3. Append(queue, Head(wire)) \o Tail(wire) = queue \o wire
      BY <1>1, Shift, QueueType DEF RingInv
    <2>4. stream' = stream
      BY <1>1, <2>2, <2>3 DEF stream
    <2> QED
      BY <1>1, <2>1, <2>4 DEF Aligned, Inside
  <1> QED
    BY <1>2, <1>3

Streaming == got # <<>> => stream # <<>>

LEMMA StreamNext == RingInv' => Streaming'
  <1>1. RingInv => Streaming
    BY Stream DEF Streaming
  <1> QED
    BY <1>1, PTL

LEMMA WaitAligned ==
  ASSUME RingInv, Aligned, GetByte, pc \in {"idle", "wait"},
         UNCHANGED <<wire, typed, dropped>>
  PROVE  Aligned'
  <1>1. pc' = "take" /\ got' = got
    BY DEF GetByte
  <1>2. stream' = stream
    BY <1>1, PutRing DEF stream
  <1>3. ASSUME got # <<>>, Inside PROVE pc = "wait" /\ Len(got) < Len(codes(typed[1]))
    BY <1>3 DEF Aligned, Inside
  <1> QED
    BY <1>1, <1>2, <1>3 DEF Aligned, Inside

(* The byte that is taken belongs to the key keyboard_read() is at, or is  *)
(* the first of the next.                                                  *)
LEMMA TakeAligned ==
  ASSUME RingInv, Aligned, GetByte, pc = "take", UNCHANGED <<wire, typed, dropped>>
  PROVE  Aligned'
  <1>1. /\ queue # <<>> /\ queue' = Tail(queue)
        /\ got' = Append(got, Head(queue)) /\ Head(queue) \in Byte
        /\ RingInv'
    BY TakeRing
  <1>2. pc' = "put"
    BY DEF GetByte
  <1>3. queue \in Seq(Byte) /\ wire \in Seq(Byte) /\ got \in Seq(Byte)
    BY QueueType DEF RingInv
  <1>4. got' \in Seq(Byte) /\ got' # <<>> /\ Len(got') = Len(got) + 1
    BY <1>1, <1>3, AppendProperties
  <1>5. stream' = stream
    <2>1. Tail(queue) \in Seq(Byte)
      BY <1>1, <1>3, HeadTailProperties
    <2>2. stream' = Append(got, Head(queue)) \o (Tail(queue) \o wire)
      BY <1>1 DEF stream
    <2>3. Append(got, Head(queue)) \in Seq(Byte)
      BY <1>1, <1>4
    <2>4. Append(got, Head(queue)) \o (Tail(queue) \o wire)
            = (Append(got, Head(queue)) \o Tail(queue)) \o wire
      <3>1. PICK a, b, w : a = Append(got, Head(queue)) /\ b = Tail(queue) /\ w = wire
        OBVIOUS
      <3>2. a \in Seq(Byte) /\ b \in Seq(Byte) /\ w \in Seq(Byte)
        BY <1>3, <2>1, <2>3, <3>1
      <3>3. a \o (b \o w) = (a \o b) \o w
        BY <3>2, ConcatAssociative
      <3> QED
        BY <3>1, <3>3, Zenon
    <2>5. Append(got, Head(queue)) \o Tail(queue) = got \o queue
      BY <1>1, <1>3, Shift
    <2> QED
      BY <2>2, <2>4, <2>5, Stream
  <1>6. ASSUME Inside PROVE Len(got') <= Len(codes(typed[1]))
    <2>1. PICK s, t, c, N : s = stream /\ t = typed /\ c = codes(t[1]) /\ N = Len(got)
      OBVIOUS
    <2>2. s # <<>>
      BY <1>1, <1>4, <1>5, <2>1, StreamNext DEF Streaming
    <2>3. /\ codes(t[1]) \in Seq(Byte) /\ Len(codes(t[1])) \in 1 .. Len(s)
      BY <1>6, <2>1, <2>2, Stream, ParsesFirst DEF Inside, Aligned
    <2>4. Len(c) \in Nat /\ Len(c) >= 1 /\ N \in Nat
      BY <1>3, <2>1, <2>3, LenProperties
    <2>5. CASE got = <<>>
      <3>1. N = 0
        BY <2>1, <2>5, EmptySeq
      <3> QED
        BY <1>4, <2>1, <2>4, <3>1
    <2>6. CASE got # <<>>
      <3>1. N < Len(c)
        BY <1>6, <2>1, <2>6 DEF Inside
      <3> QED
        BY <1>4, <2>1, <2>4, <3>1
    <2> QED
      BY <2>5, <2>6
  <1> QED
    BY <1>2, <1>4, <1>5, <1>6 DEF Aligned, Inside

(* After each byte keyboard_read() knows whether the key is complete.      *)
LEMMA PutAligned ==
  ASSUME RingInv, Aligned, GetByte, pc = "put", UNCHANGED <<wire, typed, dropped>>
  PROVE  Aligned'
  <1>1. got' = got /\ pc' = IF wantsMore(got) THEN "wait" ELSE "decode"
    BY DEF GetByte
  <1>2. stream' = stream
    BY <1>1, PutRing DEF stream
  <1>3. got # <<>> /\ typed \in Seq(Event)
    BY DEF Aligned
  <1>4. ASSUME Inside
        PROVE  /\ Len(got) <= Len(codes(typed[1]))
               /\ pc' = "wait" => Len(got) < Len(codes(typed[1]))
               /\ pc' = "decode" => Len(got) = Len(codes(typed[1]))
    <2>1. PICK g, e : g = got /\ e = typed[1]
      OBVIOUS
    <2>2. /\ e \in Event /\ Len(g) \in 1 .. Len(codes(e))
          /\ g = SubSeq(codes(e), 1, Len(g))
      BY <1>3, <1>4, <2>1, Beginning
    <2>3. wantsMore(g) <=> Len(g) < Len(codes(e))
      BY <2>2, WantsMore
    <2>4. Len(g) \in Nat /\ Len(codes(e)) \in Nat /\ Len(g) <= Len(codes(e))
      BY <2>2, CodesLen
    <2> QED
      BY <1>1, <2>1, <2>3, <2>4
  <1>5. pc' \in {"wait", "decode"}
    BY <1>1
  <1> QED
    BY <1>1, <1>2, <1>3, <1>4, <1>5 DEF Aligned, Inside

(* The next key begins where the last one ended.                           *)
LEMMA DecodeAligned ==
  ASSUME RingInv, Aligned, Decode
  PROVE  Aligned'
  <1>1. /\ pc = "decode" /\ pc' = "idle" /\ got' = <<>> /\ UNCHANGED <<wire, dropped>>
        /\ typed' = IF typed = <<>> THEN typed ELSE Tail(typed)
    BY DEF Decode, keyboard
  <1>2. typed \in Seq(Event) /\ typed' \in Seq(Event)
    BY <1>1, HeadTailProperties DEF Aligned
  <1>3. ASSUME ~dropped PROVE Parses(stream', typed')
    <2>1. typed # <<>> /\ got = codes(typed[1])
      BY <1>1, <1>3, Whole
    <2>2. PICK t, s : t = typed /\ s = queue \o wire
      OBVIOUS
    <2>3. s \in Seq(Byte)
      BY <2>2, Stream
    <2>4. stream = codes(t[1]) \o s
      BY <2>1, <2>2 DEF stream
    <2>5. Parses(codes(t[1]) \o s, t)
      BY <1>3, <2>2, <2>4 DEF Aligned, Inside
    <2>6. Parses(s, Tail(t))
      BY <1>2, <2>1, <2>2, <2>3, <2>5, ParsesRest
    <2>7. stream' = s
      <3>1. stream' = <<>> \o s
        BY <1>1, <2>2, DecodeRing DEF stream
      <3> QED
        BY <2>3, <3>1, ConcatEmptySeq
    <2> QED
      BY <1>1, <2>1, <2>2, <2>6, <2>7
  <1> QED
    BY <1>1, <1>2, <1>3 DEF Aligned, Inside

LEMMA AlignedStep ==
  ASSUME RingInv, Aligned, [Next]_vars
  PROVE  Aligned'
  <1>1. CASE \E k \in KEYS : Stroke(k)
    BY <1>1, StrokeAligned
  <1>2. CASE Interrupt
    BY <1>2, InterruptAligned
  <1>3. CASE Read
    <2>1. GetByte /\ UNCHANGED <<wire, typed, dropped>>
      BY <1>3 DEF Read, keyboard
    <2> QED
      BY <2>1, WaitAligned, TakeAligned, PutAligned DEF GetByte
  <1>4. CASE Decode
    BY <1>4, DecodeAligned
  <1>5. CASE UNCHANGED vars
    <2>1. UNCHANGED <<pc, got, wire, typed, dropped>>
      BY <1>5 DEF vars, reader, keyboard
    <2>2. stream' = stream
      BY <1>5, <2>1, StutterRing DEF stream
    <2> QED
      BY <2>1, <2>2 DEF Aligned, Inside
  <1> QED
    BY <1>1, <1>2, <1>3, <1>4, <1>5 DEF Next

--------------------------------------------------------------------------------
(* What keyboard_read() makes of the bytes of one press or release.        *)
LEMMA Decoded ==
  ASSUME NEW e \in Event, codes(e) # <<>>, got = codes(e)
  PROVE  /\ isWhole(got) <=> e.key \in {"PRINTSCREEN", "PAUSEBREAK"}
         /\ ~isWhole(got) =>
              /\ make <=> e.make
              /\ e.key # "a" => key = e.key
              /\ e.key = "a" =>
                   key = IF (modifiers \cap {"SHIFT_L", "SHIFT_R"} # {})
                              # ("CAPS_LOCK" \in modifiers)
                         THEN "A" ELSE "a"
  <1>1. e.make \in BOOLEAN /\ e.key \in {"a", "CAPS_LOCK", "SHIFT_L", "SHIFT_R", "CTRL_L",
                                         "CTRL_R", "ALT_L", "ALT_R", "PRINTSCREEN", "PAUSEBREAK"}
    BY Codes DEF Event
  <1>2. CASE e.key \in {"PRINTSCREEN", "PAUSEBREAK"}
    <2>1. \/ got = pausebrk_scode \/ got = <<E0, 42, E0, 55>> \/ got = <<E0, 183, E0, 170>>
      BY <1>1, <1>2, Codes
    <2> QED
      BY <1>2, <2>1 DEF isWhole
  <1>3. ASSUME NEW x \in 1 .. 223, got = <<x>>
        PROVE  /\ ~isWhole(got) /\ scan_code = x /\ ~code_with_E0 /\ (make <=> x < 128)
    <2>1. got[1] = x /\ Len(got) = 1
      BY <1>3
    <2>2. ~code_with_E0
      BY <2>1 DEF code_with_E0, E0
    <2>3. scan_code = x
      BY <2>1, <2>2 DEF scan_code
    <2>4. ~isWhole(got)
      <3>1. Len(pausebrk_scode) = 6 /\ Len(<<E0, 42, E0, 55>>) = 4 /\ Len(<<E0, 183, E0, 170>>) = 4
        BY DEF pausebrk_scode
      <3>2. /\ got # pausebrk_scode /\ got # <<E0, 42, E0, 55>> /\ got # <<E0, 183, E0, 170>>
        <4>1. Len(got) # 6 /\ Len(got) # 4
          BY <2>1
        <4> QED
          BY <3>1, <4>1, Zenon
      <3> QED
        BY <3>2, Zenon DEF isWhole
    <2> QED
      BY <2>2, <2>3, <2>4 DEF make, FLAG_BREAK
  <1>4. ASSUME NEW x \in 1 .. 223, got = <<E0, x>>
        PROVE  /\ ~isWhole(got) /\ scan_code = x /\ code_with_E0 /\ (make <=> x < 128)
    <2>1. got[1] = E0 /\ got[2] = x /\ Len(got) = 2
      BY <1>4
    <2>2. code_with_E0
      BY <2>1 DEF code_with_E0
    <2>3. scan_code = x
      BY <2>1, <2>2 DEF scan_code
    <2>4. ~isWhole(got)
      <3>1. Len(pausebrk_scode) = 6 /\ Len(<<E0, 42, E0, 55>>) = 4 /\ Len(<<E0, 183, E0, 170>>) = 4
        BY DEF pausebrk_scode
      <3>2. /\ got # pausebrk_scode /\ got # <<E0, 42, E0, 55>> /\ got # <<E0, 183, E0, 170>>
        <4>1. Len(got) # 6 /\ Len(got) # 4
          BY <2>1
        <4> QED
          BY <3>1, <4>1, Zenon
      <3> QED
        BY <3>2, Zenon DEF isWhole
    <2> QED
      BY <2>2, <2>3, <2>4 DEF make, FLAG_BREAK
  <1>5. ASSUME NEW x \in 1 .. 127, NEW y \in {x, x + 128}, scan_code = y
        PROVE  scan_code % FLAG_BREAK = x
    BY <1>5 DEF FLAG_BREAK
  <1>6. CASE e.key = "a"
    <2>1. \E y \in {30, 30 + 128} : got = <<y>> /\ (y < 128 <=> e.make)
      BY <1>1, <1>6, Codes
    <2>2. /\ ~isWhole(got) /\ ~code_with_E0 /\ (make <=> e.make) /\ scan_code % FLAG_BREAK = 30
      BY <1>3, <1>5, <2>1
    <2>3. keymap(30) = <<"a", "A", "nul">>
      BY DEF keymap
    <2> QED
      BY <1>1, <1>6, <2>2, <2>3 DEF key
  <1> DEFINE sends(x) ==
        \E y \in {x, x + 128} : y \in 1 .. 223 /\ got = <<y>> /\ (y < 128 <=> e.make)
  <1>7. ASSUME NEW x \in 1 .. 127, NEW n, keymap(x) = <<n, n, "nul">>, n # "a", sends(x)
        PROVE  ~isWhole(got) /\ (make <=> e.make) /\ key = n
    <2>2. /\ ~isWhole(got) /\ ~code_with_E0 /\ (make <=> e.make) /\ scan_code % FLAG_BREAK = x
      BY <1>3, <1>5, <1>7
    <2> QED
      BY <1>7, <2>2 DEF key
  <1> HIDE DEF sends
  <1>8. CASE e.key = "CAPS_LOCK"
    <2>1. sends(58)
      BY <1>1, <1>8, Codes DEF sends
    <2>2. keymap(58) = <<"CAPS_LOCK", "CAPS_LOCK", "nul">>
      BY DEF keymap
    <2>3. ~isWhole(got) /\ (make <=> e.make) /\ key = "CAPS_LOCK"
      <3>1. 58 \in 1 .. 127 /\ "CAPS_LOCK" # "a"
        OBVIOUS
      <3> QED
        BY <1>7, <2>1, <2>2, <3>1, Zenon
    <2> QED
      BY <1>8, <2>3
  <1>9. CASE e.key = "SHIFT_L"
    <2>1. sends(42)
      BY <1>1, <1>9, Codes DEF sends
    <2>2. keymap(42) = <<"SHIFT_L", "SHIFT_L", "nul">>
      BY DEF keymap
    <2>3. ~isWhole(got) /\ (make <=> e.make) /\ key = "SHIFT_L"
      <3>1. 42 \in 1 .. 127 /\ "SHIFT_L" # "a"
        OBVIOUS
      <3> QED
        BY <1>7, <2>1, <2>2, <3>1, Zenon
    <2> QED
      BY <1>9, <2>3
  <1>10. CASE e.key = "SHIFT_R"
    <2>1. sends(54)
      BY <1>1, <1>10, Codes DEF sends
    <2>2. keymap(54) = <<"SHIFT_R", "SHIFT_R", "nul">>
      BY DEF keymap
    <2>3. ~isWhole(got) /\ (make <=> e.make) /\ key = "SHIFT_R"
      <3>1. 54 \in 1 .. 127 /\ "SHIFT_R" # "a"
        OBVIOUS
      <3> QED
        BY <1>7, <2>1, <2>2, <3>1, Zenon
    <2> QED
      BY <1>10, <2>3
  <1>11. CASE e.key \in {"CTRL_L", "CTRL_R"}
    <2>1. \E y \in {29, 29 + 128} :
            /\ y \in 1 .. 223 /\ (y < 128 <=> e.make)
            /\ got = IF e.key = "CTRL_L" THEN <<y>> ELSE <<E0, y>>
      BY <1>1, <1>11, Codes
    <2>2. /\ ~isWhole(got) /\ (code_with_E0 <=> e.key = "CTRL_R") /\ (make <=> e.make)
          /\ scan_code % FLAG_BREAK = 29
      BY <1>3, <1>4, <1>5, <1>11, <2>1
    <2>3. keymap(29) = <<"CTRL_L", "CTRL_L", "CTRL_R">>
      BY DEF keymap
    <2> QED
      BY <1>1, <1>11, <2>2, <2>3 DEF key
  <1>12. CASE e.key \in {"ALT_L", "ALT_R"}
    <2>1. \E y \in {56, 56 + 128} :
            /\ y \in 1 .. 223 /\ (y < 128 <=> e.make)
            /\ got = IF e.key = "ALT_L" THEN <<y>> ELSE <<E0, y>>
      BY <1>1, <1>12, Codes
    <2>2. /\ ~isWhole(got) /\ (code_with_E0 <=> e.key = "ALT_R") /\ (make <=> e.make)
          /\ scan_code % FLAG_BREAK = 56
      BY <1>3, <1>4, <1>5, <1>12, <2>1
    <2>3. keymap(56) = <<"ALT_L", "ALT_L", "ALT_R">>
      BY DEF keymap
    <2> QED
      BY <1>1, <1>12, <2>2, <2>3 DEF key
  <1> QED
    BY <1>1, <1>2, <1>6, <1>8, <1>9, <1>10, <1>11, <1>12

Four == {"SHIFT_L", "SHIFT_R", "CTRL_L", "CTRL_R"}

LEMMA Switched ==
  ASSUME NEW e \in Event, codes(e) # <<>>, got = codes(e), ~isWhole(got), NEW k \in Four
  PROVE  k \in switched <=> IF e.key = k THEN e.make ELSE k \in modifiers
  <1>1. /\ e.key \notin {"PRINTSCREEN", "PAUSEBREAK"}
        /\ make <=> e.make
        /\ e.key # "a" => key = e.key
        /\ e.key = "a" => key \in {"a", "A"}
    BY Decoded
  <1>2. e.key \in {"a", "CAPS_LOCK", "SHIFT_L", "SHIFT_R", "CTRL_L", "CTRL_R",
                   "ALT_L", "ALT_R", "PRINTSCREEN", "PAUSEBREAK"}
    BY Codes
  <1>3. CASE e.key = "a"
    <2>1. switched = modifiers
      BY <1>1, <1>3 DEF switched
    <2> QED
      BY <1>3, <2>1 DEF Four
  <1>4. CASE e.key = "CAPS_LOCK"
    <2>1. key = "CAPS_LOCK" /\ flagOf(key) = "CAPS_LOCK"
      BY <1>1, <1>4 DEF flagOf
    <2>2. switched = IF make THEN (modifiers \cup {"CAPS_LOCK"}) \ (modifiers \cap {"CAPS_LOCK"})
                     ELSE modifiers
      BY <2>1 DEF switched
    <2> QED
      BY <1>4, <2>2 DEF Four
  <1>5. CASE e.key \in {"SHIFT_L", "SHIFT_R", "CTRL_L", "CTRL_R", "ALT_L", "ALT_R"}
    <2>1. key = e.key
      BY <1>1, <1>5
    <2>2. switched = IF make THEN modifiers \cup {flagOf(key)} ELSE modifiers \ {flagOf(key)}
      BY <1>5, <2>1 DEF switched
    <2>3. k = flagOf(key) <=> e.key = k
      BY <1>5, <2>1 DEF flagOf, Four
    <2> QED
      BY <1>1, <2>2, <2>3
  <1> QED
    BY <1>1, <1>2, <1>3, <1>4, <1>5

Follow == \A k \in Four : k \in modifiers <=> k \in down

LEMMA FollowDecode ==
  ASSUME RingInv, Aligned, Follow, Decode, ~dropped
  PROVE  Follow'
  <1>1. pc = "decode"
    BY DEF Decode
  <1>2. PICK e \in Event : e = Head(typed) /\ codes(e) # <<>> /\ got = codes(e) /\ typed # <<>>
    BY <1>1, Whole
  <1>3. down' = IF e.make THEN down \cup {e.key} ELSE down \ {e.key}
    BY <1>2 DEF Decode
  <1>4. modifiers' = IF isWhole(got) THEN modifiers ELSE switched
    BY DEF Decode
  <1> SUFFICES ASSUME NEW k \in Four PROVE k \in modifiers' <=> k \in down'
    BY DEF Follow
  <1>5. k \in down' <=> IF e.key = k THEN e.make ELSE k \in down
    BY <1>3
  <1>6. CASE isWhole(got)
    <2>1. e.key # k
      BY <1>2, <1>6, Decoded DEF Four
    <2> QED
      BY <1>4, <1>5, <1>6, <2>1 DEF Follow
  <1>7. CASE ~isWhole(got)
    BY <1>2, <1>4, <1>5, <1>7, Switched DEF Follow
  <1> QED
    BY <1>6, <1>7

LEMMA MeantDecode ==
  ASSUME RingInv, Aligned, Follow, Decode, ~dropped
  PROVE  sent' = meant(Head(typed))
  <1>1. pc = "decode"
    BY DEF Decode
  <1>2. PICK e \in Event : e = Head(typed) /\ codes(e) # <<>> /\ got = codes(e)
    BY <1>1, Whole
  <1>3. CASE isWhole(got)
    <2>1. sent' = "nothing"
      BY <1>3 DEF Decode
    <2>2. e.key \in {"PRINTSCREEN", "PAUSEBREAK"}
      BY <1>2, <1>3, Decoded
    <2> QED
      BY <1>2, <2>1, <2>2 DEF meant
  <1>4. CASE ~isWhole(got)
    <2>1. sent' = IF make THEN key ELSE "nothing"
      BY <1>4 DEF Decode
    <2>2. e.key \notin {"PRINTSCREEN", "PAUSEBREAK"} /\ (make <=> e.make)
      BY <1>2, <1>4, Decoded
    <2>3. CASE e.key = "a"
      <3>1. key = IF (modifiers \cap {"SHIFT_L", "SHIFT_R"} # {}) # ("CAPS_LOCK" \in modifiers)
                  THEN "A" ELSE "a"
        BY <1>2, <1>4, <2>3, Decoded
      <3>2. modifiers \cap {"SHIFT_L", "SHIFT_R"} = down \cap {"SHIFT_L", "SHIFT_R"}
        BY DEF Follow, Four
      <3> QED
        BY <1>2, <2>1, <2>2, <2>3, <3>1, <3>2 DEF meant
    <2>4. CASE e.key # "a"
      <3>1. key = e.key
        BY <1>2, <1>4, <2>4, Decoded
      <3> QED
        BY <1>2, <2>1, <2>2, <2>4, <3>1 DEF meant
    <2> QED
      BY <2>3, <2>4
  <1> QED
    BY <1>3, <1>4

(* The inductive invariant.                                                *)
KInv == RingInv /\ Aligned /\ (~dropped => Follow)

LEMMA KInvStep == KInv /\ [Next]_vars => KInv'
  <1> SUFFICES ASSUME KInv, [Next]_vars PROVE KInv'
    OBVIOUS
  <1>1. RingInv' /\ Aligned'
    BY RingStep, AlignedStep DEF KInv
  <1>2. ASSUME UNCHANGED <<modifiers, down, dropped>> PROVE ~dropped' => Follow'
    BY <1>2 DEF KInv, Follow
  <1>3. CASE Interrupt
    <2>1. dropped' = TRUE \/ UNCHANGED <<modifiers, down, dropped>>
      BY <1>3 DEF Interrupt, reader
    <2> QED
      BY <1>1, <1>2, <2>1 DEF KInv
  <1>4. CASE Decode
    <2>1. dropped' = dropped
      BY <1>4 DEF Decode
    <2> QED
      BY <1>1, <1>4, <2>1, FollowDecode DEF KInv
  <1>5. CASE (\E k \in KEYS : Stroke(k)) \/ Read \/ UNCHANGED vars
    <2>1. UNCHANGED <<modifiers, down, dropped>>
      BY <1>5 DEF Stroke, Read, vars, reader
    <2> QED
      BY <1>1, <1>2, <2>1 DEF KInv
  <1> QED
    BY <1>3, <1>4, <1>5 DEF Next

(* Every key, interrupt and step of keyboard_read() keeps the ring a queue *)
(* and the bytes on their way those of the keys not dealt with.            *)
THEOREM Invariant == Spec => []KInv
  <1>1. Init => KInv
    <2> SUFFICES ASSUME Init PROVE KInv
      OBVIOUS
    <2>1. Follow
      BY DEF Init, Follow, Four
    <2> QED
      BY <2>1, InitRing, AlignedInit DEF KInv
  <1> QED
    BY <1>1, KInvStep, PTL DEF Spec

(* What keyboard_read() takes for one key are the bytes of one press or    *)
(* release, unless a byte was dropped: for every ring, and however far the *)
(* typist is ahead.                                                        *)
THEOREM KeysApart == Spec => []InStep
  <1>1. KInv => InStep
    BY Whole DEF KInv, InStep
  <1> QED
    BY <1>1, Invariant, PTL

(* The variables for shift and control follow the keys.                    *)
THEOREM ModifiersRight == Spec => []ModifiersFollow
  <1>1. KInv => ModifiersFollow
    BY DEF KInv, ModifiersFollow, Follow, Four
  <1> QED
    BY <1>1, Invariant, PTL

(* keyboard_read() gives in_process() the key that was typed, and letters  *)
(* in the case that the shift keys and caps lock call for.                 *)
THEOREM KeysMeant == Spec => TypedAsMeant
  <1>1. KInv /\ [Next]_vars =>
          [pc = "decode" /\ pc' = "idle" /\ ~dropped => sent' = meant(Head(typed))]_vars
    <2> SUFFICES ASSUME KInv, Next, pc = "decode", pc' = "idle", ~dropped
                 PROVE  sent' = meant(Head(typed))
      OBVIOUS
    <2>1. Decode
      BY DEF Next, Stroke, Interrupt, Read, GetByte, reader
    <2> QED
      BY <2>1, MeantDecode DEF KInv
  <1> QED
    BY <1>1, Invariant, PTL DEF Spec, TypedAsMeant
================================================================================
