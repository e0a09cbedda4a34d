----------------------------- MODULE FileDataProofs -----------------------------
(***************************************************************************)
(* The loops of sys_read(), sys_writef() and kread(), taken from the first *)
(* turn to the return, do what PlainFiles promises: for every size of      *)
(* sectors, of fsbuf, of files and of calls.                               *)
(***************************************************************************)
EXTENDS FileData, SequenceTheorems, FiniteSetTheorems, WellFoundedInduction, TLAPS

SS  == SECTOR_SIZE
Cap == Capacity

LEMMA MinOfTwo == \A a, b \in Int : Min({a, b}) = IF a <= b THEN a ELSE b
  <1> SUFFICES ASSUME NEW a \in Int, NEW b \in Int
               PROVE  Min({a, b}) = IF a <= b THEN a ELSE b
    OBVIOUS
  <1>1. PICK m : m = IF a <= b THEN a ELSE b
    OBVIOUS
  <1>2. m \in {a, b} /\ \A y \in {a, b} : m <= y
    BY <1>1
  <1>3. \A x \in {a, b} : (\A y \in {a, b} : x <= y) => x = m
    BY <1>2
  <1> QED
    BY <1>1, <1>2, <1>3 DEF Min

(* A finite set of numbers has a largest one.                              *)
LEMMA Least ==
  ASSUME NEW S \in SUBSET Nat, S # {}
  PROVE  \E m \in S : \A n \in S : m <= n
  <1> DEFINE below == OpToRel(<, Nat)
  <1>1. IsWellFoundedOn(below, Nat)
    BY NatLessThanWellFounded DEF below, OpToRel
  <1>2. PICK m \in S : \A n \in S : <<n, m>> \notin below
    BY <1>1, WFMin, Zenon
  <1> SUFFICES ASSUME NEW n \in S PROVE m <= n
    BY <1>2
  <1>3. n \in Nat /\ m \in Nat
    OBVIOUS
  <1>4. <<n, m>> \notin below
    BY <1>2
  <1>5. ~(n < m)
    BY <1>3, <1>4 DEF below, OpToRel
  <1> QED
    BY <1>3, <1>5

LEMMA Bounded ==
  ASSUME NEW S \in SUBSET Nat, IsFiniteSet(S)
  PROVE  \E b \in Nat : \A n \in S : n <= b
  <1>1. PICK N \in Nat : ExistsBijection(1 .. N, S)
    BY FS_CardinalityType
  <1>2. PICK f \in [1 .. N -> S] : \A s \in S : \E k \in 1 .. N : f[k] = s
    BY <1>1 DEF ExistsBijection, Bijection, Injection, Surjection
  <1> DEFINE bounded(m) == \E b \in Nat : \A k \in 1 .. m : f[k] <= b
             Bad == {m \in 0 .. N : ~bounded(m)}
  <1> HIDE DEF bounded
  <1>3. CASE Bad # {}
    <2> Bad \in SUBSET Nat
      OBVIOUS
    <2>1. PICK m \in Bad : \A n \in Bad : m <= n
      BY <1>3, Least
    <2>2. m # 0
      <3>1. bounded(0)
        <4>1. 0 \in Nat /\ \A k \in 1 .. 0 : f[k] <= 0
          OBVIOUS
        <4> QED
          BY <4>1 DEF bounded
      <3> QED
        BY <2>1, <3>1
    <2>3. m - 1 \in 0 .. N /\ m \in 1 .. N
      BY <2>1, <2>2
    <2>4. PICK b \in Nat : \A k \in 1 .. m - 1 : f[k] <= b
      <3>1. m - 1 \notin Bad
        BY <2>1, <2>3
      <3>2. bounded(m - 1)
        BY <2>3, <3>1
      <3> QED
        BY <3>2 DEF bounded
    <2>5. f[m] \in S /\ f[m] \in Nat
      BY <2>3
    <2>6. PICK c \in Nat : b <= c /\ f[m] <= c
      BY <2>5
    <2>7. \A k \in 1 .. m : f[k] <= c
      <3> SUFFICES ASSUME NEW k \in 1 .. m PROVE f[k] <= c
        OBVIOUS
      <3>1. k = m \/ k \in 1 .. m - 1
        BY <2>3
      <3>2. k \in 1 .. N
        BY <2>3
      <3>3. f[k] \in S /\ f[k] \in Nat
        BY <3>2
      <3> QED
        BY <2>4, <2>6, <3>1, <3>3
    <2> QED
      BY <2>1, <2>7 DEF bounded
  <1>4. CASE Bad = {}
    <2>1. bounded(N)
      BY <1>4
    <2>2. PICK b \in Nat : \A k \in 1 .. N : f[k] <= b
      BY <2>1 DEF bounded
    <2> QED
      BY <1>2, <2>2
  <1> QED
    BY <1>3, <1>4

LEMMA LargestLen == MaxLen \in Lens /\ \A n \in Lens : n <= MaxLen
  <1>1. IsFiniteSet(Lens) /\ Lens # {} /\ Lens \subseteq Nat
    BY FileDataAssumption
  <1> DEFINE Bounds == {b \in Nat : \A n \in Lens : n <= b}
  <1>2. Bounds # {}
    BY <1>1, Bounded
  <1>3. PICK m \in Bounds : \A b \in Bounds : m <= b
    BY <1>2, Least
  <1>4. m \in Lens
    <2> SUFFICES ASSUME m \notin Lens PROVE FALSE
      OBVIOUS
    <2>1. \A n \in Lens : n \in Nat /\ n <= m - 1
      BY <1>1, <1>3
    <2>2. m # 0
      <3>1. PICK n \in Lens : TRUE
        BY <1>1
      <3>2. n \in Nat /\ n <= m - 1
        BY <2>1
      <3> QED
        BY <3>2
    <2>3. m - 1 \in Bounds
      BY <2>1, <2>2
    <2> QED
      BY <1>3, <2>3
  <1>5. \E x \in Lens : \A y \in Lens : x >= y
    BY <1>1, <1>3, <1>4
  <1>6. MaxLen \in Lens /\ \A y \in Lens : MaxLen >= y
    BY <1>5 DEF MaxLen, Max
  <1> QED
    BY <1>1, <1>6

--------------------------------------------------------------------------------
(* Sectors and bytes.                                                      *)
LEMMA Product ==
  /\ \A a, b \in Nat : a * b \in Nat
  /\ \A a, b, c \in Nat : a <= b => a * c <= b * c
  /\ \A a, b, c \in Nat : (a + b) * c = a * c + b * c
  /\ \A a, b, c \in Nat : (a * b) * c = a * (b * c)
  <1>1. \A a, b \in Nat : a * b \in Nat
    OBVIOUS
  <1>2. \A a, b, c \in Nat : (a + b) * c = a * c + b * c
    OBVIOUS
  <1>3. ASSUME NEW a \in Nat, NEW b \in Nat, NEW c \in Nat, a <= b PROVE a * c <= b * c
    <2>1. PICK d \in Nat : b = a + d
      BY <1>3
    <2>2. b * c = a * c + d * c /\ d * c \in Nat /\ a * c \in Nat
      BY <1>1, <1>2, <2>1
    <2> QED
      BY <2>2
  <1>4. \A a, b, c \in Nat : (a * b) * c = a * (b * c)
    OBVIOUS
  <1> QED
    BY <1>1, <1>2, <1>3, <1>4

LEMMA Sizes ==
  /\ SS \in Nat /\ SS >= 1
  /\ FSBUF_SECTS \in Nat /\ FSBUF_SECTS >= 1
  /\ NR_SECTS \in Nat /\ NR_SECTS >= 1 /\ NR_OF_FILES \in Nat /\ NR_OF_FILES >= 1
  /\ Cap \in Nat /\ Cap >= SS /\ Cap = NR_SECTS * SS
  <1>1. /\ SS \in Nat /\ SS >= 1
        /\ FSBUF_SECTS \in Nat /\ FSBUF_SECTS >= 1
        /\ NR_SECTS \in Nat /\ NR_SECTS >= 1 /\ NR_OF_FILES \in Nat /\ NR_OF_FILES >= 1
    BY FileDataAssumption DEF SS
  <1>2. Cap = NR_SECTS * SS
    BY DEF Cap, Capacity, SS
  <1>3. NR_SECTS * SS \in Nat /\ 1 * SS <= NR_SECTS * SS
    BY <1>1, Product
  <1> QED
    BY <1>1, <1>2, <1>3

(* Where byte n of a file is.                                              *)
LEMMA Sector ==
  ASSUME NEW n \in Nat
  PROVE  /\ n \div SS \in Nat /\ n % SS \in 0 .. SS - 1
         /\ n = (n \div SS) * SS + (n % SS)
         /\ n < (n \div SS + 1) * SS
  <1>1. n \div SS \in Nat /\ n % SS \in 0 .. SS - 1
    BY Sizes
  <1>2. n = (n \div SS) * SS + (n % SS)
    <2>1. n = SS * (n \div SS) + (n % SS)
      BY Sizes, SMTT(30)
    <2>2. SS * (n \div SS) = (n \div SS) * SS
      BY <1>1, Sizes
    <2> QED
      BY <2>1, <2>2
  <1>3. (n \div SS + 1) * SS = (n \div SS) * SS + 1 * SS /\ (n \div SS) * SS \in Nat
    BY <1>1, Sizes, Product
  <1> QED
    BY <1>1, <1>2, <1>3, Sizes

base(f) == i_start_sect(f) * SECTOR_SIZE

LEMMA Apart ==
  /\ \A f \in FileNrs : base(f) \in Nat /\ i_start_sect(f) \in Nat /\ base(f) = i_start_sect(f) * SS
  /\ \A f, g \in FileNrs : f < g => base(f) + Cap <= base(g)
  /\ \A f \in FileNrs : \A a \in Int : base(f) <= a /\ a < base(f) + Cap => a \in DiskBytes
  <1>1. ASSUME NEW f \in Nat
        PROVE  /\ base(f) \in Nat /\ i_start_sect(f) \in Nat /\ base(f) = i_start_sect(f) * SS
               /\ base(f) = f * Cap
    <2>1. i_start_sect(f) = f * NR_SECTS /\ i_start_sect(f) \in Nat
      BY Sizes, Product DEF i_start_sect
    <2>2. base(f) = (f * NR_SECTS) * SS
      BY <2>1 DEF base, SS
    <2> QED
      BY <2>1, <2>2, Sizes, Product
  <1>2. \A f \in FileNrs : f \in Nat /\ f + 1 <= NR_OF_FILES
    BY Sizes DEF FileNrs
  <1>3. ASSUME NEW f \in Nat, NEW g \in Nat, f < g PROVE base(f) + Cap <= base(g)
    <2>1. (f + 1) * Cap <= g * Cap /\ (f + 1) * Cap = f * Cap + 1 * Cap
      BY <1>3, Sizes, Product
    <2>2. 1 * Cap = Cap /\ base(f) = f * Cap /\ base(g) = g * Cap
      BY <1>1, Sizes
    <2>3. PICK x, y : x = f * Cap /\ y = g * Cap
      OBVIOUS
    <2>4. (f + 1) * Cap = x + Cap /\ (f + 1) * Cap <= y
      BY <2>1, <2>2, <2>3
    <2> QED
      BY <2>2, <2>3, <2>4
  <1>4. ASSUME NEW f \in FileNrs, NEW a \in Int, base(f) <= a, a < base(f) + Cap
        PROVE  a \in DiskBytes
    <2>1. PICK d : d = (NR_OF_FILES * NR_SECTS + FSBUF_SECTS + 1) * SS + MaxLen
      OBVIOUS
    <2>2. DiskBytes = 0 .. d
      BY <2>1 DEF DiskBytes, SS
    <2>3. MaxLen \in Nat
      BY LargestLen, FileDataAssumption
    <2>4. /\ NR_OF_FILES * NR_SECTS \in Nat
          /\ (NR_OF_FILES * NR_SECTS + (FSBUF_SECTS + 1)) * SS
               = (NR_OF_FILES * NR_SECTS) * SS + (FSBUF_SECTS + 1) * SS
          /\ (FSBUF_SECTS + 1) * SS \in Nat
          /\ (NR_OF_FILES * NR_SECTS) * SS = NR_OF_FILES * Cap
          /\ NR_OF_FILES * Cap \in Nat
      BY Sizes, Product
    <2>5. NR_OF_FILES * NR_SECTS + FSBUF_SECTS + 1 = NR_OF_FILES * NR_SECTS + (FSBUF_SECTS + 1)
      BY <2>4, Sizes
    <2>6. d \in Nat /\ NR_OF_FILES * Cap <= d
      BY <2>1, <2>3, <2>4, <2>5
    <2>7. f \in Nat /\ f + 1 <= NR_OF_FILES
      BY <1>2
    <2>8. (f + 1) * Cap <= NR_OF_FILES * Cap /\ (f + 1) * Cap = f * Cap + 1 * Cap
      BY <2>7, Sizes, Product
    <2>9. base(f) \in Nat /\ base(f) = f * Cap
      BY <1>1, <2>7
    <2>10. base(f) + Cap <= d
      BY <2>4, <2>6, <2>8, <2>9, Sizes
    <2> QED
      BY <1>4, <2>2, <2>6, <2>9, <2>10, Sizes
  <1> QED
    BY <1>1, <1>2, <1>3, <1>4

--------------------------------------------------------------------------------
(* The invariant: what a call has moved so far, and where it goes on.      *)
size(f) == Min({i_size[f], Capacity})
start   == base(call.file) + call.pos
written == IF call.op = "write" THEN start .. start + bytes_rw - 1 ELSE {}

Types ==
  /\ disk \in [DiskBytes -> Int]
  /\ i_size \in [FileNrs -> Nat]
  /\ desc \in [Fds -> [file : FileNrs, pos : Nat]]
  /\ calls \in Nat
  /\ i \in Nat /\ off \in 0 .. SS - 1
  /\ bytes_rw \in Nat /\ bytes_left \in Nat
  /\ done \in BOOLEAN

Called ==
  /\ call.op \in {"read", "write", "kread"}
  /\ call.file \in FileNrs
  /\ call.count \in Lens
  /\ call.pos \in Nat /\ call.pos <= Cap /\ call.pos <= i_size[call.file]
  /\ call.op = "write" => call.data \in [1 .. call.count -> Int]
  /\ call.op # "kread" => /\ call.fd \in Fds
                          /\ desc[call.fd] = [file |-> call.file, pos |-> call.pos + bytes_rw]
  /\ bytes_rw + bytes_left = call.count

(* The next turn begins where the last one ended, or there is nothing left *)
(* to move.                                                                *)
Placed ==
  /\ i >= rw_sect_min(call)
  /\ i > rw_sect_min(call) => off = 0
  /\ bytes_left # 0 => i * SS + off = start + bytes_rw

Held ==
  buf = IF call.op = "write" THEN << >> ELSE [k \in 1 .. bytes_rw |-> disk[start + k - 1]]

(* Nothing was written but what the call was given.                        *)
Kept ==
  /\ before = [g \in FileNrs |-> before[g]]
  /\ \A g \in FileNrs :
       /\ before[g] \in [1 .. size(g) -> Int]
       /\ \A k \in 1 .. size(g) :
            base(g) + k - 1 \notin written => disk[base(g) + k - 1] = before[g][k]
  /\ \A a \in DiskBytes : a \in written => disk[a] = call.data[a - start + 1]

Between == call # NoCall /\ ~done /\ call.op # "kread"

(* Only inside a call is a position behind the end of its file.            *)
Settled ==
  \A fd \in Fds : desc[fd].pos <= i_size[desc[fd].file] \/ (Between /\ fd = call.fd)

Idle == ~done /\ bytes_rw = 0 /\ bytes_left = 0 /\ buf = << >>

DInv ==
  /\ Types
  /\ Settled
  /\ call = NoCall => Idle
  /\ call # NoCall => Called /\ Placed /\ Held
  /\ call # NoCall /\ ~done => Kept

LEMMA Counts == \A n \in Lens : n \in Nat /\ n <= MaxLen
  BY LargestLen, FileDataAssumption

LEMMA SizeType ==
  ASSUME Types
  PROVE  \A f \in FileNrs : /\ size(f) \in Nat /\ size(f) <= Cap /\ size(f) <= i_size[f]
                            /\ size(f) = i_size[f] \/ size(f) = Cap
                            /\ i_size[f] \in Nat
  <1> SUFFICES ASSUME NEW f \in FileNrs
               PROVE  /\ size(f) \in Nat /\ size(f) <= Cap /\ size(f) <= i_size[f]
                      /\ size(f) = i_size[f] \/ size(f) = Cap
                      /\ i_size[f] \in Nat
    OBVIOUS
  <1>1. i_size[f] \in Nat /\ Cap \in Nat
    BY Sizes DEF Types
  <1>2. size(f) = IF i_size[f] <= Cap THEN i_size[f] ELSE Cap
    BY <1>1, MinOfTwo DEF size, Cap
  <1> QED
    BY <1>1, <1>2

(* The sectors a call goes through, and how many at once.                  *)
limit == IF call.op = "write" THEN Cap ELSE i_size[call.file]

Sectors ==
  /\ pos_end(call) \in Nat
  /\ pos_end(call) < call.pos + call.count => pos_end(call) = limit
  /\ call.pos <= pos_end(call) /\ pos_end(call) <= call.pos + call.count
  /\ rw_sect_min(call) \in Nat /\ rw_sect_max(call) \in Nat
  /\ rw_sect_min(call) <= rw_sect_max(call)
  /\ chunk(call) \in 1 .. FSBUF_SECTS
  /\ start \in Nat
  /\ rw_sect_min(call) * SS + (call.pos % SS) = start
  /\ base(call.file) + pos_end(call) < (rw_sect_max(call) + 1) * SS

LEMMA SectorsOfCall ==
  ASSUME Types, Called
  PROVE  Sectors
  <1>0. PICK P, C, f : P = call.pos /\ C = call.count /\ f = call.file
    OBVIOUS
  <1>1. PICK E, L : /\ E = pos_end(call)
                    /\ L = limit
    OBVIOUS
  <1>2. /\ P \in Nat /\ C \in Nat /\ f \in FileNrs /\ L \in Nat /\ P <= L
    BY <1>0, <1>1, Sizes, Counts DEF Called, Types, limit
  <1>3. E = IF P + C <= L THEN P + C ELSE L
    BY <1>0, <1>1, <1>2, MinOfTwo DEF pos_end, Cap, limit
  <1>4. E \in Nat /\ P <= E /\ E <= P + C /\ (E < P + C => E = L)
    BY <1>2, <1>3
  <1>5. PICK Q, p, e : Q = i_start_sect(f) /\ p = P \div SS /\ e = E \div SS
    OBVIOUS
  <1>6. /\ Q \in Nat /\ base(f) = Q * SS /\ base(f) \in Nat
        /\ p \in Nat /\ P = p * SS + (P % SS) /\ P < (p + 1) * SS /\ P % SS \in 0 .. SS - 1
        /\ e \in Nat /\ E = e * SS + (E % SS) /\ E < (e + 1) * SS /\ E % SS \in 0 .. SS - 1
    BY <1>2, <1>4, <1>5, Apart, Sector
  <1>7. p <= e
    <2> SUFFICES ASSUME e + 1 <= p PROVE FALSE
      BY <1>6
    <2>1. (e + 1) * SS <= p * SS /\ p * SS \in Nat /\ (e + 1) * SS \in Nat
      BY <1>6, Sizes, Product
    <2> QED
      BY <1>2, <1>4, <1>6, <2>1
  <1>8. rw_sect_min(call) = Q + p /\ rw_sect_max(call) = Q + e
    BY <1>0, <1>1, <1>5 DEF rw_sect_min, rw_sect_max, SS
  <1>9. chunk(call) \in 1 .. FSBUF_SECTS
    <2>1. PICK n : n = (Q + e) - (Q + p) + 1
      OBVIOUS
    <2>2. n \in Nat /\ n >= 1
      BY <1>6, <1>7, <2>1
    <2>3. chunk(call) = IF call.op = "kread" THEN 1 ELSE Min({n, FSBUF_SECTS})
      BY <1>8, <2>1 DEF chunk
    <2>4. Min({n, FSBUF_SECTS}) = IF n <= FSBUF_SECTS THEN n ELSE FSBUF_SECTS
      BY <2>2, Sizes, MinOfTwo
    <2> QED
      BY <2>2, <2>3, <2>4, Sizes
  <1>10. start = base(f) + P
    BY <1>0 DEF start
  <1>11. (Q + p) * SS = Q * SS + p * SS /\ p * SS \in Nat
    BY <1>6, Sizes, Product
  <1>12. (Q + (e + 1)) * SS = Q * SS + (e + 1) * SS /\ (Q + e) + 1 = Q + (e + 1)
         /\ (e + 1) * SS \in Nat
    BY <1>6, Sizes, Product
  <1>13. (Q + p) * SS + (P % SS) = base(f) + P
    BY <1>2, <1>6, <1>11
  <1>14. base(f) + E < ((Q + e) + 1) * SS
    BY <1>4, <1>6, <1>12
  <1>15. Q + p \in Nat /\ Q + e \in Nat /\ Q + p <= Q + e
    BY <1>6, <1>7
  <1>16. start \in Nat
    BY <1>2, <1>6, <1>10
  <1>17. /\ rw_sect_min(call) \in Nat /\ rw_sect_max(call) \in Nat
         /\ rw_sect_min(call) <= rw_sect_max(call)
    BY <1>8, <1>15
  <1>18. rw_sect_min(call) * SS + (call.pos % SS) = start
    <2>1. (Q + p) * SS + (P % SS) = start
      BY <1>10, <1>13
    <2> QED
      BY <1>0, <1>1, <1>8, <2>1, Zenon
  <1>19. base(call.file) + pos_end(call) < (rw_sect_max(call) + 1) * SS
    BY <1>0, <1>1, <1>8, <1>14, Zenon
  <1>20. /\ pos_end(call) \in Nat
         /\ pos_end(call) < call.pos + call.count => pos_end(call) = limit
         /\ call.pos <= pos_end(call) /\ pos_end(call) <= call.pos + call.count
    BY <1>0, <1>1, <1>4, Zenon
  <1> QED
    BY <1>9, <1>16, <1>17, <1>18, <1>19, <1>20, Zenon DEF Sectors

--------------------------------------------------------------------------------
(* One turn of a loop.                                                     *)
LEMMA TurnMoves ==
  ASSUME DInv, Turns
  PROVE  /\ Called /\ Placed /\ Held /\ Kept
         /\ bytes \in Nat /\ bytes <= bytes_left
         /\ i' \in Nat /\ off' = 0 /\ i' > rw_sect_min(call)
         /\ bytes_rw' = bytes_rw + bytes /\ bytes_left' = bytes_left - bytes
         /\ bytes_rw' \in Nat /\ bytes_left' \in Nat
         /\ bytes_left' # 0 => i' * SS + off' = start + bytes_rw'
         /\ bytes # 0 => first = start + bytes_rw
         /\ start \in Nat
  <1>1. call # NoCall /\ ~done /\ Types /\ Called /\ Placed /\ Held /\ Kept
    BY DEF DInv, Turns
  <1>2. /\ i' = i + chunk(call) /\ off' = 0
        /\ bytes_rw' = bytes_rw + bytes /\ bytes_left' = bytes_left - bytes
    BY DEF Turns, off_after
  <1>3. chunk(call) \in 1 .. FSBUF_SECTS /\ start \in Nat /\ rw_sect_min(call) \in Nat
    BY <1>1, SectorsOfCall DEF Sectors
  <1>4. PICK n, I, o, l, w, s : /\ n = chunk(call) /\ I = i /\ o = off /\ l = bytes_left
                                /\ w = bytes_rw /\ s = start
    OBVIOUS
  <1>5. /\ n \in Nat /\ n >= 1 /\ I \in Nat /\ o \in 0 .. SS - 1
        /\ l \in Nat /\ w \in Nat /\ s \in Nat /\ I >= rw_sect_min(call)
        /\ l # 0 => I * SS + o = s + w
    BY <1>1, <1>3, <1>4, Sizes DEF Types, Placed
  <1>6. n * SS \in Nat /\ n * SS >= SS /\ I * SS \in Nat /\ (I + n) * SS = I * SS + n * SS
    <2>1. 1 * SS <= n * SS /\ 1 * SS = SS
      BY <1>5, Sizes, Product
    <2> QED
      BY <1>5, <2>1, Sizes, Product
  <1>7. n * SS - o \in Nat
    BY <1>5, <1>6, Sizes
  <1>8. bytes = IF l <= n * SS - o THEN l ELSE n * SS - o
    BY <1>4, <1>5, <1>7, MinOfTwo DEF bytes, SS
  <1>9. PICK b : b = bytes
    OBVIOUS
  <1>10. b \in Nat /\ b <= l /\ (l - b # 0 => l # 0 /\ b = n * SS - o)
    BY <1>5, <1>7, <1>8, <1>9
  <1>11. l - b # 0 => (I + n) * SS + 0 = s + (w + b)
    BY <1>5, <1>6, <1>10
  <1>12. b # 0 => l # 0
    BY <1>5, <1>10
  <1>13. first = I * SS + o
    BY <1>4 DEF first, SS
  <1>14. bytes_left' # 0 => i' * SS + off' = start + bytes_rw'
    BY <1>2, <1>4, <1>9, <1>11, Zenon
  <1>15. bytes # 0 => first = start + bytes_rw
    BY <1>4, <1>5, <1>9, <1>12, <1>13
  <1>16. i' \in Nat /\ i' > rw_sect_min(call)
    BY <1>2, <1>3, <1>4, <1>5
  <1>17. bytes_rw' \in Nat /\ bytes_left' \in Nat /\ bytes \in Nat /\ bytes <= bytes_left
    BY <1>2, <1>4, <1>5, <1>9, <1>10
  <1> QED
    BY <1>1, <1>2, <1>3, <1>14, <1>15, <1>16, <1>17

(* The rest of the invariant follows for reads and for writes.             *)
LEMMA TurnKeeps ==
  ASSUME DInv, Turns,
         desc' = IF call.op = "kread" THEN desc ELSE [desc EXCEPT ![call.fd].pos = @ + bytes]
  PROVE  /\ desc' \in [Fds -> [file : FileNrs, pos : Nat]]
         /\ Called' /\ Placed' /\ Settled'
         /\ call' # NoCall /\ ~done' /\ start' = start /\ UNCHANGED <<call, i_size, calls, before>>
  <1>1. UNCHANGED <<i_size, call, done, calls, before>> /\ call # NoCall /\ ~done
    BY DEF Turns
  <1>2. Types /\ Called /\ Settled
    BY TurnMoves DEF DInv
  <1>3. bytes \in Nat /\ bytes_rw' = bytes_rw + bytes /\ bytes_left' = bytes_left - bytes
    BY TurnMoves
  <1>4. bytes_rw \in Nat /\ bytes_left \in Nat /\ call.pos \in Nat /\ call.count \in Nat
    BY <1>2, Counts DEF Types, Called
  <1>5. bytes_rw' + bytes_left' = call.count
    BY <1>2, <1>3, <1>4 DEF Called
  <1>6. start' = start
    BY <1>1 DEF start
  <1>7. Placed'
    <2>1. rw_sect_min(call)' = rw_sect_min(call)
      BY <1>1
    <2>2. rw_sect_min(call) \in Nat
      BY <1>2, SectorsOfCall DEF Sectors
    <2> QED
      BY <1>6, <2>1, <2>2, TurnMoves DEF Placed
  <1>8. CASE call.op = "kread"
    <2>1. desc' = desc
      BY <1>8
    <2> QED
      BY <1>1, <1>2, <1>5, <1>6, <1>7, <1>8, <2>1 DEF Called, Settled, Between, Types
  <1>9. CASE call.op # "kread"
    <2>1. call.fd \in Fds /\ desc[call.fd] = [file |-> call.file, pos |-> call.pos + bytes_rw]
      BY <1>2, <1>9 DEF Called
    <2>2. PICK d : d = call.fd
      OBVIOUS
    <2>3. desc' = [desc EXCEPT ![d] = [file |-> call.file, pos |-> call.pos + bytes_rw']]
      <3>1. desc' = [desc EXCEPT ![d].pos = @ + bytes]
        BY <1>9, <2>2
      <3>2. (call.pos + bytes_rw) + bytes = call.pos + bytes_rw'
        BY <1>3, <1>4
      <3>3. d \in Fds /\ desc \in [Fds -> [file : FileNrs, pos : Nat]]
        BY <1>2, <2>1, <2>2 DEF Types
      <3>4. desc' = [desc EXCEPT ![d] = [desc[d] EXCEPT !.pos = desc[d].pos + bytes]]
        BY <3>1, <3>3
      <3>5. [desc[d] EXCEPT !.pos = desc[d].pos + bytes]
              = [file |-> call.file, pos |-> call.pos + bytes_rw']
        BY <2>1, <2>2, <3>2
      <3> QED
        BY <3>4, <3>5
    <2>4. /\ desc' \in [Fds -> [file : FileNrs, pos : Nat]]
          /\ desc'[d] = [file |-> call.file, pos |-> call.pos + bytes_rw']
          /\ \A x \in Fds : x # d => desc'[x] = desc[x]
      <3>1. call.file \in FileNrs /\ call.pos + bytes_rw' \in Nat
        BY <1>2, <1>3, <1>4 DEF Called
      <3> QED
        BY <1>2, <2>1, <2>2, <2>3, <3>1 DEF Types
    <2>5. Settled'
      BY <1>1, <1>2, <1>9, <2>2, <2>4 DEF Settled, Between
    <2>6. Called'
      BY <1>1, <1>2, <1>5, <1>9, <2>1, <2>2, <2>4 DEF Called
    <2> QED
      BY <1>1, <1>6, <1>7, <2>4, <2>5, <2>6
  <1> QED
    BY <1>8, <1>9

(* Two stretches of a function, one behind the other.                      *)
LEMMA Joined ==
  ASSUME NEW d, NEW x \in Int, NEW m \in Nat, NEW n \in Nat
  PROVE  [k \in 1 .. m |-> d[x + k - 1]] \o [k \in 1 .. n |-> d[x + m + k - 1]]
           = [k \in 1 .. m + n |-> d[x + k - 1]]
  <1> DEFINE V == {d[a] : a \in Int}
             s == [k \in 1 .. m |-> d[x + k - 1]]
             t == [k \in 1 .. n |-> d[x + m + k - 1]]
             u == [k \in 1 .. m + n |-> d[x + k - 1]]
  <1>1. s \in Seq(V) /\ Len(s) = m
    <2>1. \A k \in 1 .. m : d[x + k - 1] \in V
      OBVIOUS
    <2> HIDE DEF V
    <2>2. s \in [1 .. m -> V]
      BY <2>1
    <2> QED
      BY <2>2
  <1>2. t \in Seq(V) /\ Len(t) = n
    <2>1. \A k \in 1 .. n : d[x + m + k - 1] \in V
      OBVIOUS
    <2> HIDE DEF V
    <2>2. t \in [1 .. n -> V]
      BY <2>1
    <2> QED
      BY <2>2
  <1>3. u \in Seq(V) /\ Len(u) = m + n
    <2>1. \A k \in 1 .. m + n : d[x + k - 1] \in V
      OBVIOUS
    <2> HIDE DEF V
    <2>2. u \in [1 .. m + n -> V]
      BY <2>1
    <2>3. m + n \in Nat
      OBVIOUS
    <2> HIDE DEF u
    <2>4. PICK N : N = m + n
      OBVIOUS
    <2>5. N \in Nat /\ u \in [1 .. N -> V]
      BY <2>2, <2>3, <2>4
    <2>6. u \in Seq(V) /\ Len(u) = N
      BY <2>5
    <2> QED
      BY <2>4, <2>6
  <1>4. s \o t \in Seq(V) /\ Len(s \o t) = m + n
    <2> HIDE DEF V, s, t, u
    <2> QED
      BY <1>1, <1>2
  <1>5. \A k \in 1 .. m + n : (s \o t)[k] = u[k]
    <2> SUFFICES ASSUME NEW k \in 1 .. m + n PROVE (s \o t)[k] = u[k]
      OBVIOUS
    <2>1. (s \o t)[k] = IF k <= m THEN s[k] ELSE t[k - m]
      <3> HIDE DEF V, s, t, u
      <3> QED
        BY <1>1, <1>2
    <2>2. k <= m => s[k] = d[x + k - 1]
      OBVIOUS
    <2>3. k > m => t[k - m] = d[x + m + (k - m) - 1] /\ x + m + (k - m) - 1 = x + k - 1
      OBVIOUS
    <2>4. u[k] = d[x + k - 1]
      OBVIOUS
    <2> QED
      BY <2>1, <2>2, <2>3, <2>4
  <1> HIDE DEF V, s, t, u
  <1>6. s \o t = u
    BY <1>1, <1>2, <1>3, <1>4, <1>5, SeqEqual
  <1> QED
    BY <1>6 DEF s, t, u

(* Reading: what was moved is what is on the disk.                         *)
LEMMA ReadTurnKeeps ==
  ASSUME DInv, ReadTurn
  PROVE  DInv'
  <1>1. /\ Turns /\ call.op \in {"read", "kread"} /\ disk' = disk
        /\ buf' = buf \o [k \in 1 .. bytes |-> disk[first + k - 1]]
        /\ desc' = IF call.op = "kread" THEN desc
                   ELSE [desc EXCEPT ![call.fd].pos = @ + bytes]
    BY DEF ReadTurn
  <1>2. /\ desc' \in [Fds -> [file : FileNrs, pos : Nat]]
        /\ Called' /\ Placed' /\ Settled'
        /\ call' # NoCall /\ ~done' /\ start' = start /\ UNCHANGED <<call, i_size, calls, before>>
    BY <1>1, TurnKeeps
  <1>3. /\ Held /\ Kept /\ bytes \in Nat /\ i' \in Nat /\ off' = 0
        /\ bytes_rw' = bytes_rw + bytes /\ bytes_rw' \in Nat /\ bytes_left' \in Nat
        /\ bytes # 0 => first = start + bytes_rw
        /\ start \in Nat
    BY <1>1, TurnMoves
  <1>4. Types
    BY DEF DInv
  <1>5. Types'
    <2>1. UNCHANGED <<disk, i_size, calls, done>>
      BY <1>1 DEF Turns
    <2>2. off' \in 0 .. SS - 1
      BY <1>3, Sizes
    <2> QED
      BY <1>2, <1>3, <1>4, <2>1, <2>2 DEF Types
  <1>6. Held'
    <2>1. PICK s, w, b : s = start /\ w = bytes_rw /\ b = bytes
      OBVIOUS
    <2>2. s \in Nat /\ w \in Nat /\ b \in Nat
      BY <1>3, <1>4, <2>1 DEF Types
    <2>3. [k \in 1 .. bytes |-> disk[first + k - 1]] = [k \in 1 .. b |-> disk[s + w + k - 1]]
      <3>1. CASE b = 0
        BY <2>1, <3>1
      <3>2. CASE b # 0
        <4>1. first = s + w
          BY <1>3, <2>1, <3>2
        <4> QED
          BY <2>1, <4>1
      <3> QED
        BY <3>1, <3>2
    <2>4. buf = [k \in 1 .. w |-> disk[s + k - 1]]
      BY <1>1, <1>3, <2>1 DEF Held
    <2>5. buf' = [k \in 1 .. w + b |-> disk[s + k - 1]]
      <3>1. PICK d : d = disk
        OBVIOUS
      <3>2. s \in Int
        BY <2>2
      <3>3. [k \in 1 .. w |-> d[s + k - 1]] \o [k \in 1 .. b |-> d[s + w + k - 1]]
              = [k \in 1 .. w + b |-> d[s + k - 1]]
        BY <2>2, <3>2, Joined
      <3>4. buf' = [k \in 1 .. w |-> d[s + k - 1]] \o [k \in 1 .. b |-> d[s + w + k - 1]]
        <4>1. buf' = buf \o [k \in 1 .. bytes |-> disk[first + k - 1]]
          BY <1>1
        <4> QED
          BY <2>3, <2>4, <3>1, <4>1
      <3> QED
        BY <3>1, <3>3, <3>4
    <2>6. start' = s /\ bytes_rw' = w + b
      BY <1>2, <1>3, <2>1
    <2> QED
      BY <1>1, <1>2, <2>5, <2>6 DEF Held
  <1>7. Kept'
    <2>1. written = {} /\ written' = {}
      BY <1>1, <1>2 DEF written
    <2>2. \A g : size(g)' = size(g)
      BY <1>2 DEF size
    <2> QED
      BY <1>1, <1>2, <1>3, <2>1, <2>2 DEF Kept
  <1> QED
    BY <1>2, <1>5, <1>6, <1>7 DEF DInv

(* Writing: what was moved is what the call was given, at its place.       *)
LEMMA WriteTurnKeeps ==
  ASSUME DInv, WriteTurn
  PROVE  DInv'
  <1>1. /\ Turns /\ call.op = "write" /\ buf' = buf
        /\ desc' = [desc EXCEPT ![call.fd].pos = @ + bytes]
        /\ disk' = [a \in DiskBytes |->
             IF a \in first .. first + bytes - 1
             THEN call.data[bytes_rw + a - first + 1] ELSE disk[a]]
    BY DEF WriteTurn
  <1>2. /\ desc' \in [Fds -> [file : FileNrs, pos : Nat]]
        /\ Called' /\ Placed' /\ Settled'
        /\ call' # NoCall /\ ~done' /\ start' = start /\ UNCHANGED <<call, i_size, calls, before>>
    <2>1. desc' = IF call.op = "kread" THEN desc ELSE [desc EXCEPT ![call.fd].pos = @ + bytes]
      BY <1>1
    <2> QED
      BY <1>1, <2>1, TurnKeeps
  <1>3. /\ Called /\ Held /\ Kept /\ bytes \in Nat /\ bytes <= bytes_left
        /\ i' \in Nat /\ off' = 0
        /\ bytes_rw' = bytes_rw + bytes /\ bytes_rw' \in Nat /\ bytes_left' \in Nat
        /\ bytes # 0 => first = start + bytes_rw
        /\ start \in Nat
    BY <1>1, TurnMoves
  <1>4. Types
    BY DEF DInv
  <1>5. PICK s, w, b, D : s = start /\ w = bytes_rw /\ b = bytes /\ D = call.data
    OBVIOUS
  <1>6. /\ s \in Nat /\ w \in Nat /\ b \in Nat
        /\ D \in [1 .. call.count -> Int] /\ w + b <= call.count /\ call.count \in Nat
    <2>1. call.count \in Nat /\ bytes_left \in Nat /\ bytes_rw \in Nat
      BY <1>3, <1>4, Counts DEF Called, Types
    <2> QED
      BY <1>1, <1>3, <1>5, <2>1 DEF Called
  <1>7. \A a \in DiskBytes :
          disk'[a] = IF s + w <= a /\ a <= s + w + b - 1 THEN D[a - s + 1] ELSE disk[a]
    <2> SUFFICES ASSUME NEW a \in DiskBytes
                 PROVE  disk'[a] = IF s + w <= a /\ a <= s + w + b - 1 THEN D[a - s + 1] ELSE disk[a]
      OBVIOUS
    <2>0. a \in Int
      BY DEF DiskBytes
    <2>1. disk'[a] = IF a \in first .. first + b - 1
                     THEN D[w + a - first + 1] ELSE disk[a]
      BY <1>1, <1>5
    <2>2. CASE b = 0
      <3>0. first \in Int
        <4>1. i \in Nat /\ off \in 0 .. SS - 1 /\ SS \in Nat
          BY <1>4, Sizes DEF Types
        <4>2. first = i * SS + off /\ i * SS \in Nat
          BY <4>1, Product DEF first, SS
        <4> QED
          BY <4>1, <4>2
      <3>1. a \notin first .. first + b - 1
        BY <2>0, <2>2, <3>0
      <3> QED
        BY <1>6, <2>0, <2>1, <2>2, <3>1
    <2>3. CASE b # 0
      <3>1. first = s + w
        BY <1>3, <1>5, <2>3
      <3>2. w + a - first + 1 = a - s + 1
        BY <1>6, <2>0, <3>1
      <3>3. a \in first .. first + b - 1 <=> s + w <= a /\ a <= s + w + b - 1
        BY <1>6, <2>0, <3>1
      <3> QED
        BY <2>1, <3>2, <3>3
    <2> QED
      BY <2>2, <2>3
  <1>8. disk' \in [DiskBytes -> Int]
    <2>1. \A a \in DiskBytes : disk'[a] \in Int
      <3> SUFFICES ASSUME NEW a \in DiskBytes PROVE disk'[a] \in Int
        OBVIOUS
      <3>1. a \in Int /\ disk[a] \in Int
        <4>1. a \in Int
          BY DEF DiskBytes
        <4>2. disk[a] \in Int
          BY <1>4 DEF Types
        <4> QED
          BY <4>1, <4>2
      <3>2. s + w <= a /\ a <= s + w + b - 1 => a - s + 1 \in 1 .. call.count
        BY <1>6, <3>1
      <3> QED
        BY <1>6, <1>7, <3>1, <3>2
    <2>2. disk' = [a \in DiskBytes |-> disk'[a]]
      BY <1>1
    <2> QED
      BY <2>1, <2>2
  <1>9. Types'
    <2>1. UNCHANGED <<i_size, calls, done>>
      BY <1>1 DEF Turns
    <2>2. off' \in 0 .. SS - 1
      BY <1>3, Sizes
    <2> QED
      BY <1>2, <1>3, <1>4, <1>8, <2>1, <2>2 DEF Types
  <1>10. Held'
    BY <1>1, <1>2, <1>3 DEF Held
  <1>11. written = s .. s + w - 1 /\ written' = s .. s + (w + b) - 1
    <2>1. call'.op = "write" /\ start' = s /\ bytes_rw' = w + b
      BY <1>1, <1>2, <1>3, <1>5
    <2> QED
      BY <1>1, <1>5, <2>1 DEF written
  <1>12. \A a \in DiskBytes : a \in written' => disk'[a] = D[a - s + 1]
    <2> SUFFICES ASSUME NEW a \in DiskBytes, a \in written' PROVE disk'[a] = D[a - s + 1]
      OBVIOUS
    <2>1. a \in Int
      BY DEF DiskBytes
    <2>2. a \in written => disk[a] = D[a - s + 1]
      BY <1>3, <1>5 DEF Kept
    <2>3. a \in written \/ (s + w <= a /\ a <= s + w + b - 1)
      BY <1>6, <1>11, <2>1
    <2> QED
      BY <1>7, <2>2, <2>3
  <1>13. \A a \in DiskBytes : a \notin written' => a \notin written /\ disk'[a] = disk[a]
    <2> SUFFICES ASSUME NEW a \in DiskBytes, a \notin written'
                 PROVE  a \notin written /\ disk'[a] = disk[a]
      OBVIOUS
    <2>1. a \in Int
      BY DEF DiskBytes
    <2>2. a \notin written /\ ~(s + w <= a /\ a <= s + w + b - 1)
      BY <1>6, <1>11, <2>1
    <2> QED
      BY <1>7, <2>2
  <1>14. Kept'
    <2>1. \A g : size(g)' = size(g)
      BY <1>2 DEF size
    <2>2. \A g \in FileNrs : \A k \in 1 .. size(g) : base(g) + k - 1 \in DiskBytes
      BY <1>4, SizeType, Apart, Sizes
    <2>3. ASSUME NEW g \in FileNrs, NEW k \in 1 .. size(g), base(g) + k - 1 \notin written'
          PROVE  disk'[base(g) + k - 1] = before[g][k]
      <3>1. PICK a \in DiskBytes : a = base(g) + k - 1
        BY <2>2
      <3>2. a \notin written /\ disk'[a] = disk[a]
        BY <1>13, <2>3, <3>1
      <3>3. base(g) + k - 1 \notin written => disk[base(g) + k - 1] = before[g][k]
        BY <1>3 DEF Kept
      <3> QED
        BY <3>1, <3>2, <3>3
    <2>4. before' = before /\ start' = s /\ call'.data = D
      BY <1>2, <1>5
    <2>5. /\ before = [g \in FileNrs |-> before[g]]
          /\ \A g \in FileNrs : before[g] \in [1 .. size(g) -> Int]
      BY <1>3 DEF Kept
    <2> QED
      BY <1>12, <2>1, <2>3, <2>4, <2>5 DEF Kept
  <1> QED
    BY <1>2, <1>9, <1>10, <1>14 DEF DInv

--------------------------------------------------------------------------------
(* The other actions.                                                      *)
LEMMA OpenKeeps ==
  ASSUME DInv, NEW fd \in Fds, NEW f \in FileNrs, Open(fd, f)
  PROVE  DInv'
  <1>1. /\ call = NoCall /\ call' = NoCall /\ desc' = [desc EXCEPT ![fd] = [file |-> f, pos |-> 0]]
        /\ UNCHANGED <<disk, i_size, i, off, bytes_rw, bytes_left, buf, done, calls, before>>
    BY DEF Open, loop
  <1>2. Types /\ Settled /\ Idle
    BY <1>1 DEF DInv
  <1>3. /\ desc' \in [Fds -> [file : FileNrs, pos : Nat]]
        /\ desc'[fd] = [file |-> f, pos |-> 0]
        /\ \A x \in Fds : x # fd => desc'[x] = desc[x]
    BY <1>1, <1>2 DEF Types
  <1>4. i_size[f] \in Nat
    BY <1>2 DEF Types
  <1>5. Settled'
    <2>1. \A x \in Fds : desc[x].pos <= i_size[desc[x].file]
      BY <1>1, <1>2 DEF Settled, Between
    <2>2. ASSUME NEW x \in Fds PROVE desc'[x].pos <= i_size'[desc'[x].file]
      BY <1>1, <1>3, <1>4, <2>1
    <2> QED
      BY <2>2 DEF Settled
  <1>6. Types'
    BY <1>1, <1>2, <1>3 DEF Types
  <1>7. Idle'
    BY <1>1, <1>2 DEF Idle
  <1> QED
    BY <1>1, <1>5, <1>6, <1>7 DEF DInv

LEMMA RequestTypes ==
  ASSUME DInv, call = NoCall, NEW c \in Requests
  PROVE  /\ c.op \in {"read", "write", "kread"}
         /\ c.file \in FileNrs /\ c.count \in Lens
         /\ c.pos \in Nat /\ c.pos <= i_size[c.file]
         /\ c.op = "write" => c.data \in [1 .. c.count -> Int]
         /\ c.op # "kread" => /\ c.fd \in Fds
                              /\ desc[c.fd] = [file |-> c.file, pos |-> c.pos]
  <1>1. Types /\ Settled
    BY DEF DInv
  <1>2. ASSUME NEW fd \in Fds
        PROVE  /\ desc[fd].file \in FileNrs /\ desc[fd].pos \in Nat
               /\ desc[fd] = [file |-> desc[fd].file, pos |-> desc[fd].pos]
               /\ desc[fd].pos <= i_size[desc[fd].file]
    <2>1. desc[fd] \in [file : FileNrs, pos : Nat]
      BY <1>1 DEF Types
    <2> QED
      BY <1>1, <2>1 DEF Settled, Between
  <1>3. CASE \E fd \in Fds, n \in Lens :
               c = [op |-> "read", fd |-> fd, file |-> desc[fd].file, pos |-> desc[fd].pos,
                    count |-> n, data |-> << >>]
    BY <1>2, <1>3
  <1>4. CASE \E fd \in Fds, n \in Lens :
               c = [op |-> "write", fd |-> fd, file |-> desc[fd].file, pos |-> desc[fd].pos,
                    count |-> n, data |-> [k \in 1 .. n |-> 100 * calls + k]]
    <2>1. PICK fd \in Fds, n \in Lens :
               c = [op |-> "write", fd |-> fd, file |-> desc[fd].file, pos |-> desc[fd].pos,
                    count |-> n, data |-> [k \in 1 .. n |-> 100 * calls + k]]
      BY <1>4
    <2>2. calls \in Nat /\ n \in Nat
      BY <1>1, Counts DEF Types
    <2>3. [k \in 1 .. n |-> 100 * calls + k] \in [1 .. n -> Int]
      BY <2>2
    <2>4. c.data \in [1 .. c.count -> Int]
      BY <2>1, <2>3
    <2>5. c.op = "write" /\ c.fd = fd /\ c.file = desc[fd].file /\ c.pos = desc[fd].pos /\ c.count = n
      BY <2>1
    <2> QED
      BY <1>2, <2>4, <2>5
  <1>5. CASE \E f \in FileNrs, n \in Lens :
               c = [op |-> "kread", fd |-> 0, file |-> f, pos |-> 0, count |-> n, data |-> << >>]
    <2>1. \A f \in FileNrs : i_size[f] \in Nat
      BY <1>1 DEF Types
    <2> QED
      BY <1>5, <2>1
  <1> QED
    BY <1>3, <1>4, <1>5 DEF Requests

LEMMA BeginKeeps ==
  ASSUME DInv, NEW c \in Requests, Begin(c)
  PROVE  DInv'
  <1>1. /\ call = NoCall /\ c.pos <= Cap /\ call' = c
        /\ i' = rw_sect_min(c) /\ off' = c.pos % SS
        /\ bytes_rw' = 0 /\ bytes_left' = c.count /\ buf' = << >>
        /\ calls' = calls + 1 /\ before' = files
        /\ UNCHANGED <<disk, i_size, desc, done>>
    BY DEF Begin, SS, Cap
  <1>2. Types /\ Settled /\ Idle
    BY <1>1 DEF DInv
  <1>3. /\ c.op \in {"read", "write", "kread"}
        /\ c.file \in FileNrs /\ c.count \in Lens
        /\ c.pos \in Nat /\ c.pos <= i_size[c.file]
        /\ c.op = "write" => c.data \in [1 .. c.count -> Int]
        /\ c.op # "kread" => /\ c.fd \in Fds
                             /\ desc[c.fd] = [file |-> c.file, pos |-> c.pos]
    BY <1>1, RequestTypes
  <1>4. call' # NoCall
    BY <1>1, <1>3 DEF NoCall
  <1>5. c.count \in Nat
    BY <1>3, Counts
  <1>6. /\ c.pos \div SS \in Nat /\ c.pos % SS \in 0 .. SS - 1
        /\ c.pos = (c.pos \div SS) * SS + (c.pos % SS)
        /\ i_start_sect(c.file) \in Nat /\ base(c.file) = i_start_sect(c.file) * SS
        /\ base(c.file) \in Nat
    BY <1>3, Sector, Apart
  <1>7. i' = i_start_sect(c.file) + c.pos \div SS /\ i' \in Nat
    BY <1>1, <1>6 DEF rw_sect_min, SS
  <1>8. Types'
    <2>1. off' \in 0 .. SS - 1 /\ bytes_rw' \in Nat /\ bytes_left' \in Nat /\ calls' \in Nat
      BY <1>1, <1>2, <1>5, <1>6 DEF Types
    <2> QED
      BY <1>1, <1>2, <1>7, <2>1 DEF Types
  <1>9. Called'
    <2>1. c.op # "kread" => /\ c.fd \in Fds
                            /\ desc'[c.fd] = [file |-> c.file, pos |-> c.pos + bytes_rw']
      BY <1>1, <1>3
    <2>2. bytes_rw' + bytes_left' = c.count
      BY <1>1, <1>5
    <2> QED
      BY <1>1, <1>3, <2>1, <2>2 DEF Called
  <1>10. Placed'
    <2>1. start' = base(c.file) + c.pos
      BY <1>1 DEF start
    <2>2. i' * SS + off' = base(c.file) + c.pos
      <3>1. PICK q, p, o, I : /\ q = i_start_sect(c.file) /\ p = c.pos \div SS
                              /\ o = c.pos % SS /\ I = i'
        OBVIOUS
      <3>2. (q + p) * SS = q * SS + p * SS
        BY <1>6, <3>1, Sizes, Product
      <3>3. /\ q * SS = base(c.file) /\ p * SS + o = c.pos /\ I = q + p
            /\ p \in Nat /\ o \in Nat /\ p * SS \in Nat
        <4>1. q * SS = base(c.file) /\ p * SS + o = c.pos /\ I = q + p /\ p \in Nat
              /\ o \in 0 .. SS - 1
          BY <1>6, <1>7, <3>1, Zenon
        <4>2. p * SS \in Nat /\ o \in Nat
          BY <4>1, Sizes, Product
        <4> QED
          BY <4>1, <4>2
      <3>4. I * SS + o = base(c.file) + c.pos
        BY <1>6, <3>2, <3>3
      <3> QED
        BY <1>1, <3>1, <3>4
    <2>3. start' + bytes_rw' = base(c.file) + c.pos
      BY <1>1, <1>3, <1>6, <2>1
    <2>4. i' = rw_sect_min(call)'
      BY <1>1
    <2> QED
      BY <1>7, <2>2, <2>3, <2>4 DEF Placed
  <1>11. Held'
    <2>1. bytes_rw' = 0 /\ buf' = << >>
      BY <1>1
    <2> QED
      BY <2>1 DEF Held
  <1>12. Kept'
    <2>1. written' = {}
      <3>1. start' \in Nat
        <4>1. start' = base(c.file) + c.pos
          BY <1>1 DEF start
        <4> QED
          BY <1>3, <1>6, <4>1
      <3>2. start' .. start' + bytes_rw' - 1 = {}
        <4>1. PICK s : s = start'
          OBVIOUS
        <4>2. \A n \in Nat : n .. n - 1 = {}
          OBVIOUS
        <4>3. s + 0 - 1 = s - 1 /\ s \in Nat
          BY <3>1, <4>1
        <4> QED
          BY <1>1, <4>1, <4>2, <4>3
      <3> QED
        BY <3>2, Zenon DEF written
    <2>2. \A g : size(g)' = size(g)
      BY <1>1 DEF size
    <2>3. \A g \in FileNrs : before'[g] = [k \in 1 .. size(g) |-> disk[base(g) + k - 1]]
      BY <1>1 DEF files, bytes_of, size, base
    <2>4. \A g \in FileNrs : before'[g] \in [1 .. size(g) -> Int]
      <3>1. \A g \in FileNrs : \A k \in 1 .. size(g) : disk[base(g) + k - 1] \in Int
        <4>1. \A g \in FileNrs : \A k \in 1 .. size(g) : base(g) + k - 1 \in DiskBytes
          BY <1>2, SizeType, Apart, Sizes
        <4> QED
          BY <1>2, <4>1 DEF Types
      <3> QED
        BY <2>3, <3>1
    <2>5. before' = [g \in FileNrs |-> before'[g]]
      BY <1>1 DEF files
    <2>6. \A g \in FileNrs : \A k \in 1 .. size(g) :
            disk'[base(g) + k - 1] = before'[g][k]
      BY <1>1, <2>3
    <2> QED
      BY <2>1, <2>2, <2>4, <2>5, <2>6 DEF Kept
  <1>13. Settled'
    BY <1>1, <1>2 DEF Settled, Between
  <1> QED
    BY <1>4, <1>8, <1>9, <1>10, <1>11, <1>12, <1>13 DEF DInv

LEMMA FinishKeeps ==
  ASSUME DInv, Finish
  PROVE  DInv'
  <1>1. /\ call # NoCall /\ ~done /\ done' = TRUE
        /\ i_size' = IF call.op # "kread" /\ desc[call.fd].pos > i_size[call.file]
                     THEN [i_size EXCEPT ![call.file] = desc[call.fd].pos] ELSE i_size
        /\ UNCHANGED <<disk, desc, call, i, off, bytes_rw, bytes_left, buf, calls, before>>
    BY DEF Finish, loop
  <1>2. Types /\ Settled /\ Called /\ Placed /\ Held
    BY <1>1 DEF DInv
  <1>3. call.file \in FileNrs /\ i_size[call.file] \in Nat
    BY <1>2 DEF Called, Types
  <1>4. PICK f : f = call.file
    OBVIOUS
  <1>5. /\ i_size' \in [FileNrs -> Nat]
        /\ \A g \in FileNrs : i_size[g] <= i_size'[g]
        /\ call.op # "kread" => desc[call.fd].pos <= i_size'[f]
    <2>1. CASE call.op # "kread" /\ desc[call.fd].pos > i_size[call.file]
      <3>1. PICK p : p = desc[call.fd].pos
        OBVIOUS
      <3>2. p \in Nat
        BY <1>2, <2>1, <3>1 DEF Called, Types
      <3>3. i_size' = [i_size EXCEPT ![f] = p]
        BY <1>1, <1>4, <2>1, <3>1
      <3> QED
        BY <1>2, <1>3, <1>4, <2>1, <3>1, <3>2, <3>3 DEF Types
    <2>2. CASE ~(call.op # "kread" /\ desc[call.fd].pos > i_size[call.file])
      <3>1. i_size' = i_size
        BY <1>1, <2>2
      <3>2. call.op # "kread" => desc[call.fd].pos \in Nat
        BY <1>2 DEF Called, Types
      <3> QED
        BY <1>2, <1>3, <1>4, <2>2, <3>1, <3>2 DEF Types
    <2> QED
      BY <2>1, <2>2
  <1>6. Types'
    BY <1>1, <1>2, <1>5 DEF Types
  <1>7. Settled'
    <2> SUFFICES ASSUME NEW fd \in Fds PROVE desc[fd].pos <= i_size'[desc[fd].file]
      BY <1>1 DEF Settled
    <2>1. desc[fd].file \in FileNrs /\ desc[fd].pos \in Nat
      BY <1>2 DEF Types
    <2>2. CASE Between /\ fd = call.fd
      <3>1. desc[fd].file = f
        BY <1>2, <1>4, <2>2 DEF Between, Called
      <3> QED
        BY <1>5, <2>2, <3>1 DEF Between
    <2>3. CASE ~(Between /\ fd = call.fd)
      <3>1. desc[fd].pos <= i_size[desc[fd].file]
        BY <1>2, <2>3 DEF Settled
      <3>2. i_size[desc[fd].file] \in Nat /\ i_size'[desc[fd].file] \in Nat
        BY <1>2, <1>5, <2>1 DEF Types
      <3> QED
        BY <1>5, <2>1, <3>1, <3>2
    <2> QED
      BY <2>2, <2>3
  <1>8. Called'
    <2>1. call.pos <= i_size'[call.file]
      BY <1>2, <1>3, <1>5 DEF Called
    <2> QED
      BY <1>1, <1>2, <2>1 DEF Called
  <1>9. Placed' /\ Held'
    <2>1. start' = start /\ rw_sect_min(call)' = rw_sect_min(call)
      BY <1>1 DEF start, rw_sect_min, i_start_sect
    <2> QED
      BY <1>1, <1>2, <2>1 DEF Placed, Held
  <1> QED
    BY <1>1, <1>6, <1>7, <1>8, <1>9 DEF DInv

LEMMA ReturnKeeps ==
  ASSUME DInv, Return
  PROVE  DInv'
  <1>1. /\ done /\ done' = FALSE /\ call' = NoCall
        /\ i' = 0 /\ off' = 0 /\ bytes_rw' = 0 /\ bytes_left' = 0
        /\ buf' = << >> /\ UNCHANGED <<disk, i_size, desc, calls>>
    BY DEF Return
  <1>2. Types /\ Settled
    BY DEF DInv
  <1>3. Types'
    <2>1. 0 \in 0 .. SS - 1 /\ 0 \in Nat
      BY Sizes
    <2>2. off' \in 0 .. SS - 1 /\ i' \in Nat /\ bytes_rw' \in Nat /\ bytes_left' \in Nat
          /\ done' \in BOOLEAN
      BY <1>1, <2>1, Zenon
    <2> QED
      BY <1>1, <1>2, <2>2 DEF Types
  <1>4. Settled'
    BY <1>1, <1>2 DEF Settled, Between
  <1> QED
    BY <1>1, <1>3, <1>4 DEF DInv, Idle

LEMMA DataInit == Init => DInv
  <1> SUFFICES ASSUME Init PROVE DInv
    OBVIOUS
  <1>1. Types
    <2>1. disk \in [DiskBytes -> Int]
      BY DEF Init, DiskBytes
    <2>2. i_size \in [FileNrs -> Nat]
      BY Sizes DEF Init, Cap
    <2>3. desc \in [Fds -> [file : FileNrs, pos : Nat]]
      <3>1. 0 \in FileNrs
        BY Sizes DEF FileNrs
      <3> QED
        BY <3>1 DEF Init
    <2>4. 0 \in 0 .. SS - 1 /\ 0 \in Nat
      BY Sizes
    <2>5. /\ off \in 0 .. SS - 1 /\ i \in Nat /\ bytes_rw \in Nat /\ bytes_left \in Nat
          /\ done \in BOOLEAN /\ calls \in Nat
      BY <2>4, Zenon DEF Init
    <2> QED
      BY <2>1, <2>2, <2>3, <2>5 DEF Types
  <1>2. Settled
    <2>1. \A f \in FileNrs : i_size[f] \in Nat
      BY <1>1 DEF Types
    <2>2. 0 \in FileNrs
      BY Sizes DEF FileNrs
    <2>3. \A fd \in Fds : desc[fd] = [file |-> 0, pos |-> 0]
      BY DEF Init
    <2> QED
      BY <2>1, <2>2, <2>3 DEF Settled
  <1> QED
    BY <1>1, <1>2 DEF Init, DInv, Idle

LEMMA DataStep == DInv /\ [Next]_vars => DInv'
  <1> SUFFICES ASSUME DInv, [Next]_vars PROVE DInv'
    OBVIOUS
  <1>1. ASSUME NEW fd \in Fds, NEW f \in FileNrs, Open(fd, f) PROVE DInv'
    BY <1>1, OpenKeeps
  <1>2. ASSUME NEW c \in Requests, Begin(c) PROVE DInv'
    BY <1>2, BeginKeeps
  <1>3. CASE ReadTurn
    BY <1>3, ReadTurnKeeps
  <1>4. CASE WriteTurn
    BY <1>4, WriteTurnKeeps
  <1>5. CASE Finish
    BY <1>5, FinishKeeps
  <1>6. CASE Return
    BY <1>6, ReturnKeeps
  <1>7. CASE UNCHANGED vars
    BY <1>7 DEF vars, loop, DInv, Types, Settled, Between, Idle, Called, Placed, Held, Kept,
                written, start, size, rw_sect_min, i_start_sect, base
  <1> QED
    BY <1>1, <1>2, <1>3, <1>4, <1>5, <1>6, <1>7 DEF Next

LEMMA DataInvariant == Spec => []DInv
  BY DataInit, DataStep, PTL DEF Spec

(* No position, size or count leaves its range, and what one turn moves    *)
(* fits into fsbuf: sys_read(), sys_writef() and kread() (TypeOK).         *)
THEOREM DataTypesHold == Spec => []TypeOK
  <1>1. DInv => TypeOK
    <2> SUFFICES ASSUME DInv PROVE TypeOK
      OBVIOUS
    <2>1. Types
      BY DEF DInv
    <2>2. MaxLen \in Nat
      BY LargestLen, FileDataAssumption
    <2>3. bytes_rw \in 0 .. MaxLen /\ bytes_left \in 0 .. MaxLen /\ Len(buf) <= MaxLen
      <3>1. CASE call = NoCall
        BY <2>2, <3>1 DEF DInv, Idle
      <3>2. CASE call # NoCall
        <4>1. Called /\ Held
          BY <3>2 DEF DInv
        <4>2. call.count \in Nat /\ call.count <= MaxLen /\ bytes_rw \in Nat /\ bytes_left \in Nat
          BY <2>1, <4>1, Counts DEF Called, Types
        <4>3. bytes_rw \in 0 .. MaxLen /\ bytes_left \in 0 .. MaxLen
          BY <2>2, <4>1, <4>2 DEF Called
        <4>4. Len(buf) <= MaxLen
          <5>1. PICK w : w = bytes_rw
            OBVIOUS
          <5>2. w \in Nat /\ w <= MaxLen
            BY <2>2, <4>3, <5>1
          <5>3. CASE call.op = "write"
            <6>1. buf = << >>
              BY <4>1, <5>3 DEF Held
            <6> QED
              BY <2>2, <6>1
          <5>4. CASE call.op # "write"
            <6>1. buf = [k \in 1 .. w |-> disk[start + k - 1]]
              BY <4>1, <5>1, <5>4 DEF Held
            <6>2. Len([k \in 1 .. w |-> disk[start + k - 1]]) = w
              BY <5>2
            <6> QED
              BY <5>2, <6>1, <6>2
          <5> QED
            BY <5>3, <5>4
        <4> QED
          BY <4>3, <4>4
      <3> QED
        BY <3>1, <3>2
    <2>4. call # NoCall => chunk(call) \in 1 .. FSBUF_SECTS
      <3> SUFFICES ASSUME call # NoCall PROVE chunk(call) \in 1 .. FSBUF_SECTS
        OBVIOUS
      <3> QED
        BY <2>1, SectorsOfCall DEF DInv, Sectors
    <2> QED
      BY <2>1, <2>3, <2>4 DEF TypeOK, Types, SS
  <1> QED
    BY <1>1, DataInvariant, PTL

--------------------------------------------------------------------------------
(* FileData implements PlainFiles.                                         *)
Content == IF call = NoCall \/ done THEN files ELSE before
Answer  == IF done THEN [moved |-> bytes_rw, bytes |-> buf] ELSE NoAnswer
Place   == IF call.op \in {"read", "write"} /\ ~done
           THEN [desc EXCEPT ![call.fd].pos = call.pos] ELSE desc

LEMMA PlainMinMax ==
  \A a, b \in Int : /\ Plain!Min({a, b}) = IF a <= b THEN a ELSE b
                    /\ Plain!Max({a, b}) = IF a >= b THEN a ELSE b
  <1> SUFFICES ASSUME NEW a \in Int, NEW b \in Int
               PROVE  /\ Plain!Min({a, b}) = IF a <= b THEN a ELSE b
                      /\ Plain!Max({a, b}) = IF a >= b THEN a ELSE b
    OBVIOUS
  <1>1. Plain!Min({a, b}) = IF a <= b THEN a ELSE b
    <2>1. PICK m : m = IF a <= b THEN a ELSE b
      OBVIOUS
    <2>2. m \in {a, b} /\ \A y \in {a, b} : m <= y
      BY <2>1
    <2>3. \A x \in {a, b} : (\A y \in {a, b} : x <= y) => x = m
      BY <2>2
    <2> QED
      BY <2>1, <2>2, <2>3 DEF Plain!Min
  <1>2. Plain!Max({a, b}) = IF a >= b THEN a ELSE b
    <2>1. PICK m : m = IF a >= b THEN a ELSE b
      OBVIOUS
    <2>2. m \in {a, b} /\ \A y \in {a, b} : m >= y
      BY <2>1
    <2>3. \A x \in {a, b} : (\A y \in {a, b} : x >= y) => x = m
      BY <2>2
    <2> QED
      BY <2>1, <2>2, <2>3 DEF Plain!Max
  <1> QED
    BY <1>1, <1>2

(* A part of a sequence is a function; so is a prefix.                     *)
LEMMA Part ==
  ASSUME NEW s, NEW p \in Nat, NEW n \in Nat
  PROVE  /\ Plain!slice(s, p, n) = [k \in 1 .. n |-> s[p + k]]
         /\ Len(Plain!slice(s, p, n)) = n
         /\ \A k \in 1 .. n : Plain!slice(s, p, n)[k] = s[p + k]
  <1> DEFINE V == {s[a] : a \in Int}
             t == SubSeq(s, p + 1, p + n)
             u == [k \in 1 .. n |-> s[p + k]]
  <1>1. \A a \in Int : s[a] \in V
    OBVIOUS
  <1> HIDE DEF V
  <1>2. t \in Seq(V) /\ Len(t) = n /\ \A k \in 1 .. n : t[k] = s[p + k]
    <2>1. p + 1 \in Int /\ p + n \in Int /\ \A a \in p + 1 .. p + n : s[a] \in V
      BY <1>1
    <2>2. /\ t \in Seq(V)
          /\ Len(t) = IF p + 1 <= p + n THEN (p + n) - (p + 1) + 1 ELSE 0
          /\ \A k \in 1 .. (p + n) - (p + 1) + 1 : t[k] = s[(p + 1) + k - 1]
      BY <2>1, SubSeqProperties
    <2>3. \A k \in 1 .. n : k \in 1 .. (p + n) - (p + 1) + 1 /\ (p + 1) + k - 1 = p + k
      OBVIOUS
    <2> HIDE DEF t
    <2>4. \A k \in 1 .. n : t[k] = s[p + k]
      <3> SUFFICES ASSUME NEW k \in 1 .. n PROVE t[k] = s[p + k]
        OBVIOUS
      <3>1. t[k] = s[(p + 1) + k - 1]
        BY <2>2, <2>3
      <3> QED
        BY <2>3, <3>1
    <2>5. Len(t) = n
      BY <2>2
    <2> QED
      BY <2>2, <2>4, <2>5
  <1>3. u \in Seq(V) /\ Len(u) = n
    <2>1. \A k \in 1 .. n : s[p + k] \in V
      BY <1>1
    <2>2. u \in [1 .. n -> V]
      BY <2>1
    <2> HIDE DEF u
    <2> QED
      BY <2>2
  <1>4. \A k \in 1 .. n : t[k] = u[k]
    BY <1>2
  <1> HIDE DEF t, u
  <1>5. t = u
    BY <1>2, <1>3, <1>4, SeqEqual
  <1> QED
    BY <1>2, <1>5 DEF t, u, Plain!slice

LEMMA Prefix ==
  ASSUME NEW s, NEW t, Len(s) \in Nat, Len(t) \in Nat, Len(s) <= Len(t),
         \A k \in 1 .. Len(s) : s[k] = t[k]
  PROVE  Plain!IsPrefix(s, t)
  <1> DEFINE m == Len(s)
  <1>0. m \in Nat /\ \A k \in 1 .. m : s[k] = t[k]
    OBVIOUS
  <1> HIDE DEF m
  <1> 0 \in Nat
    OBVIOUS
  <1>1. Plain!slice(s, 0, m) = [k \in 1 .. m |-> s[0 + k]]
    BY <1>0, Part
  <1>2. Plain!slice(t, 0, m) = [k \in 1 .. m |-> t[0 + k]]
    BY <1>0, Part
  <1>3. \A k \in 1 .. m : s[0 + k] = t[0 + k]
    BY <1>0
  <1>4. Plain!slice(s, 0, m) = Plain!slice(t, 0, m)
    BY <1>1, <1>2, <1>3
  <1>5. 0 + 1 = 1 /\ 0 + m = m
    BY <1>0
  <1>6. SubSeq(s, 1, m) = SubSeq(t, 1, m)
    BY <1>4, <1>5 DEF Plain!slice
  <1> QED
    BY <1>6 DEF m, Plain!IsPrefix

(* What a call has moved when its loop ends: everything, or more than the  *)
(* file, or its room, has.                                                 *)
LEMMA Ends ==
  ASSUME DInv, Finish
  PROVE  /\ bytes_rw \in Nat /\ bytes_rw <= call.count
         /\ call.pos + call.count <= limit => bytes_rw = call.count
         /\ call.pos + call.count > limit => call.pos + bytes_rw > limit
  <1>1. Types /\ Called /\ Placed /\ i > rw_sect_max(call)
    BY DEF DInv, Finish
  <1>2. Sectors
    BY <1>1, SectorsOfCall
  <1>3. PICK P, C, w, l, E, L, I, M, B :
          /\ P = call.pos /\ C = call.count /\ w = bytes_rw /\ l = bytes_left
          /\ E = pos_end(call) /\ L = limit /\ I = i /\ M = rw_sect_max(call) /\ B = base(call.file)
    OBVIOUS
  <1>4. /\ P \in Nat /\ C \in Nat /\ w \in Nat /\ l \in Nat /\ w + l = C
        /\ I \in Nat /\ B \in Nat
    <2>1. base(call.file) \in Nat
      BY <1>1, Apart DEF Called
    <2> QED
      BY <1>1, <1>3, <2>1, Counts DEF Types, Called
  <1>5. /\ E \in Nat /\ (E < P + C => E = L) /\ E <= P + C
        /\ M \in Nat /\ M < I /\ B + E < (M + 1) * SS
    <2>1. /\ E \in Nat /\ (E < P + C => E = L) /\ E <= P + C
          /\ M \in Nat /\ B + E < (M + 1) * SS
      BY <1>2, <1>3, Zenon DEF Sectors
    <2> QED
      BY <1>1, <1>3, <2>1
  <1>6. L \in Nat
    <2>1. i_size[call.file] \in Nat
      BY <1>1 DEF Types, Called
    <2> QED
      BY <1>3, <2>1, Sizes DEF limit
  <1>7. l # 0 => P + w > E
    <2> SUFFICES ASSUME l # 0 PROVE P + w > E
      OBVIOUS
    <2>1. i * SS + off = start + bytes_rw
      BY <1>1, <1>3 DEF Placed
    <2>2. I * SS + off = B + P + w
      BY <1>3, <2>1 DEF start
    <2>3. (M + 1) * SS <= I * SS /\ (M + 1) * SS \in Nat /\ I * SS \in Nat
      <3>1. M + 1 \in Nat /\ M + 1 <= I
        BY <1>4, <1>5
      <3> QED
        BY <1>4, <3>1, Sizes, Product
    <2>4. off \in Nat
      BY <1>1, Sizes DEF Types
    <2> QED
      BY <1>4, <1>5, <2>2, <2>3, <2>4
  <1>8. /\ w <= C
        /\ P + C <= L => w = C
        /\ P + C > L => P + w > L
    BY <1>4, <1>5, <1>6, <1>7
  <1> QED
    BY <1>3, <1>4, <1>8, Zenon

(* The files when a call ends.                                             *)
LEMMA After ==
  ASSUME DInv, Finish
  PROVE  /\ \A g \in FileNrs : g # call.file => size(g)' = size(g)
         /\ size(call.file)' =
              IF call.op # "kread" /\ call.pos + bytes_rw > i_size[call.file]
              THEN (IF call.pos + bytes_rw <= Cap THEN call.pos + bytes_rw ELSE Cap)
              ELSE size(call.file)
         /\ \A g \in FileNrs : size(g)' \in Nat /\ size(g) <= size(g)' /\ size(g)' <= Cap
         /\ files' = [g \in FileNrs |-> [k \in 1 .. size(g)' |-> disk[base(g) + k - 1]]]
  <1>1. /\ call # NoCall /\ ~done /\ disk' = disk /\ desc' = desc /\ call' = call
        /\ i_size' = IF call.op # "kread" /\ desc[call.fd].pos > i_size[call.file]
                     THEN [i_size EXCEPT ![call.file] = desc[call.fd].pos] ELSE i_size
    BY DEF Finish
  <1>2. Types /\ Called
    BY <1>1 DEF DInv
  <1>3. Types'
    BY FinishKeeps DEF DInv
  <1>4. PICK f, q : f = call.file /\ q = call.pos + bytes_rw
    OBVIOUS
  <1>5. f \in FileNrs /\ q \in Nat /\ i_size[f] \in Nat /\ i_size \in [FileNrs -> Nat]
    BY <1>2, <1>4 DEF Types, Called
  <1>6. i_size' = IF call.op # "kread" /\ q > i_size[f] THEN [i_size EXCEPT ![f] = q] ELSE i_size
    <2>1. call.op # "kread" => desc[call.fd].pos = q
      BY <1>2, <1>4 DEF Called
    <2> QED
      BY <1>1, <1>4, <2>1
  <1>7. /\ \A g \in FileNrs : g # f => i_size'[g] = i_size[g]
        /\ i_size'[f] = IF call.op # "kread" /\ q > i_size[f] THEN q ELSE i_size[f]
    BY <1>5, <1>6
  <1>8. \A g \in FileNrs : /\ size(g) = IF i_size[g] <= Cap THEN i_size[g] ELSE Cap
                           /\ size(g)' = IF i_size'[g] <= Cap THEN i_size'[g] ELSE Cap
                           /\ i_size[g] \in Nat /\ i_size'[g] \in Nat
    <2> SUFFICES ASSUME NEW g \in FileNrs
                 PROVE  /\ size(g) = IF i_size[g] <= Cap THEN i_size[g] ELSE Cap
                        /\ size(g)' = IF i_size'[g] <= Cap THEN i_size'[g] ELSE Cap
                        /\ i_size[g] \in Nat /\ i_size'[g] \in Nat
      OBVIOUS
    <2>1. i_size[g] \in Nat /\ i_size'[g] \in Nat
      BY <1>2, <1>3 DEF Types
    <2>2. size(g) = Min({i_size[g], Cap}) /\ size(g)' = Min({i_size'[g], Cap})
      BY DEF size, Cap
    <2> QED
      BY <2>1, <2>2, Sizes, MinOfTwo
  <1>9. \A g \in FileNrs : g # f => size(g)' = size(g)
    BY <1>7, <1>8
  <1>10. \A g \in FileNrs : size(g)' \in Nat /\ size(g) <= size(g)' /\ size(g)' <= Cap
    <2>1. \A g \in FileNrs : i_size[g] <= i_size'[g]
      BY <1>5, <1>7, <1>8
    <2> QED
      BY <1>8, <2>1, Sizes
  <1>11. size(f)' = IF call.op # "kread" /\ q > i_size[f]
                    THEN (IF q <= Cap THEN q ELSE Cap) ELSE size(f)
    BY <1>5, <1>7, <1>8
  <1>12. files' = [g \in FileNrs |-> [k \in 1 .. size(g)' |-> disk[base(g) + k - 1]]]
    BY <1>1 DEF files, bytes_of, size, base
  <1>13. size(call.file)' = size(f)'
    BY <1>1, <1>4
  <1> QED
    BY <1>4, <1>9, <1>10, <1>11, <1>12, <1>13


(* The end of a call that reads: it has the bytes of the file from its     *)
(* position on, and no file has changed, but for its size.                 *)
LEMMA EndOfRead ==
  ASSUME DInv, Finish, call.op # "write",
         NEW F, F = before[call.file], NEW P, P = call.pos, NEW C, C = call.count
  PROVE  /\ P \in Nat /\ C \in Nat /\ P <= Len(F)
         /\ bytes_rw <= C /\ bytes_rw = Len(buf)
         /\ P + C <= Len(F) =>
              /\ files' = before /\ bytes_rw = C
              /\ buf = Plain!slice(F, P, C)
         /\ P + C > Len(F) =>
              /\ Plain!IsPrefix(Plain!slice(F, P, Len(F) - P), buf)
              /\ Plain!IsPrefix(F, files'[call.file])
              /\ \A g \in FileNrs \ {call.file} : files'[g] = before[g]
  <1>1. call # NoCall /\ ~done /\ Types /\ Called /\ Held /\ Kept
    BY DEF DInv, Finish
  <1>2. PICK f, w, d, b, z, y, B :
          /\ f = call.file /\ w = bytes_rw /\ d = disk /\ b = buf
          /\ z = size(call.file) /\ y = size(call.file)' /\ B = base(call.file)
    OBVIOUS
  <1>3. /\ f \in FileNrs /\ P \in Nat /\ C \in Nat /\ w \in Nat /\ B \in Nat
        /\ z \in Nat /\ z <= Cap /\ z <= i_size[f] /\ (z = i_size[f] \/ z = Cap)
        /\ i_size[f] \in Nat /\ P <= Cap /\ P <= i_size[f]
    <2>1. f \in FileNrs /\ P <= Cap /\ P <= i_size[f] /\ P \in Nat /\ C \in Lens /\ w \in Nat
      BY <1>1, <1>2 DEF Called, Types
    <2>2. base(f) \in Nat
      BY <2>1, Apart
    <2>3. /\ size(f) \in Nat /\ size(f) <= Cap /\ size(f) <= i_size[f]
          /\ size(f) = i_size[f] \/ size(f) = Cap
          /\ i_size[f] \in Nat
      BY <1>1, <2>1, SizeType
    <2> QED
      BY <1>2, <2>1, <2>2, <2>3, Counts
  <1>4. P <= z
    BY <1>3, Sizes
  <1>5. F \in [1 .. z -> Int] /\ (\A k \in 1 .. z : F[k] = d[B + k - 1]) /\ Len(F) = z
    <2>1. written = {}
      BY DEF written
    <2>2. before[f] \in [1 .. size(f) -> Int]
          /\ \A k \in 1 .. size(f) : disk[base(f) + k - 1] = before[f][k]
      BY <1>1, <1>3, <2>1 DEF Kept
    <2>3. F \in [1 .. z -> Int] /\ \A k \in 1 .. z : F[k] = d[B + k - 1]
      BY <1>2, <2>2
    <2> QED
      BY <1>3, <2>3
  <1>6. b = [k \in 1 .. w |-> d[B + P + k - 1]] /\ Len(b) = w
    <2>1. b = [k \in 1 .. w |-> d[B + P + k - 1]]
      BY <1>1, <1>2 DEF Held, start
    <2>2. Len([k \in 1 .. w |-> d[B + P + k - 1]]) = w
      BY <1>3
    <2> QED
      BY <2>1, <2>2
  <1>7. /\ w <= C
        /\ P + C <= i_size[f] => w = C
        /\ P + C > i_size[f] => P + w > i_size[f]
    <2>1. limit = i_size[f]
      BY <1>2 DEF limit
    <2> QED
      BY <1>2, <2>1, Ends
  <1>8. /\ \A g \in FileNrs : g # f => size(g)' = size(g)
        /\ y = IF call.op # "kread" /\ P + w > i_size[f]
               THEN (IF P + w <= Cap THEN P + w ELSE Cap) ELSE z
        /\ y \in Nat /\ z <= y
        /\ files' = [g \in FileNrs |-> [k \in 1 .. size(g)' |-> disk[base(g) + k - 1]]]
    <2>1. f = call.file /\ P = call.pos /\ w = bytes_rw /\ z = size(call.file) /\ y = size(call.file)'
      BY <1>2
    <2>2. y \in Nat /\ z <= y
      <3>1. PICK g \in FileNrs : g = call.file
        BY <1>1 DEF Called
      <3>2. size(g)' \in Nat /\ size(g) <= size(g)'
        BY After
      <3>3. y = size(g)'
        <4>1. call' = call
          BY DEF Finish
        <4> QED
          BY <2>1, <3>1, <4>1
      <3> QED
        BY <2>1, <3>1, <3>2, <3>3
    <2>3. /\ \A g \in FileNrs : g # f => size(g)' = size(g)
          /\ files' = [g \in FileNrs |-> [k \in 1 .. size(g)' |-> disk[base(g) + k - 1]]]
      BY <2>1, After
    <2>4. y = IF call.op # "kread" /\ P + w > i_size[f]
               THEN (IF P + w <= Cap THEN P + w ELSE Cap) ELSE z
      BY <2>1, After
    <2> QED
      BY <2>2, <2>3, <2>4
  <1>9. \A g \in FileNrs : g # f => files'[g] = before[g]
    <2> SUFFICES ASSUME NEW g \in FileNrs, g # f PROVE files'[g] = before[g]
      OBVIOUS
    <2>1. files'[g] = [k \in 1 .. size(g) |-> disk[base(g) + k - 1]]
      BY <1>8
    <2>2. written = {}
      BY DEF written
    <2>3. before[g] \in [1 .. size(g) -> Int]
          /\ \A k \in 1 .. size(g) : disk[base(g) + k - 1] = before[g][k]
      BY <1>1, <2>2 DEF Kept
    <2> QED
      BY <2>1, <2>3
  <1>10. files'[f] = [k \in 1 .. y |-> d[B + k - 1]]
    <2>1. call' = call
      BY DEF Finish
    <2>2. size(f)' = y
      BY <1>2, <2>1
    <2> QED
      BY <1>2, <1>3, <1>8, <2>2
  <1>11. ASSUME P + C <= z
         PROVE  files' = before /\ w = C /\ b = Plain!slice(F, P, C)
    <2>1. w = C
      BY <1>3, <1>7, <1>11
    <2>2. y = z
      BY <1>3, <1>8, <1>11, <2>1
    <2>3. files'[f] = before[f]
      <3>1. F = [k \in 1 .. z |-> d[B + k - 1]]
        BY <1>5
      <3> QED
        BY <1>2, <1>10, <2>2, <3>1
    <2>4. files' = before
      <3>1. before = [g \in FileNrs |-> before[g]]
        BY <1>1 DEF Kept
      <3>2. files' = [g \in FileNrs |-> files'[g]]
        BY <1>8
      <3> QED
        BY <1>9, <2>3, <3>1, <3>2
    <2>5. Plain!slice(F, P, C) = [k \in 1 .. C |-> F[P + k]]
      <3>0. P \in Nat /\ C \in Nat
        BY <1>3
      <3>1. PICK p \in Nat, n \in Nat : p = P /\ n = C
        BY <3>0, Zenon
      <3>2. Plain!slice(F, p, n) = [k \in 1 .. n |-> F[p + k]]
        BY Part
      <3> QED
        BY <3>1, <3>2
    <2>6. \A k \in 1 .. C : F[P + k] = d[B + P + k - 1]
      <3> SUFFICES ASSUME NEW k \in 1 .. C PROVE F[P + k] = d[B + P + k - 1]
        OBVIOUS
      <3>1. P + k \in 1 .. z /\ B + (P + k) - 1 = B + P + k - 1
        BY <1>3, <1>11
      <3>2. F[P + k] = d[B + (P + k) - 1]
        BY <1>5, <3>1
      <3> QED
        BY <3>1, <3>2
    <2>7. b = [k \in 1 .. C |-> d[B + P + k - 1]]
      BY <1>6, <2>1
    <2> QED
      BY <2>1, <2>4, <2>5, <2>6, <2>7
  <1>12. ASSUME P + C > z
         PROVE  /\ Plain!IsPrefix(Plain!slice(F, P, z - P), b)
                /\ Plain!IsPrefix(F, files'[f])
    <2>1. z - P \in Nat /\ z - P <= w
      BY <1>3, <1>4, <1>7, <1>12
    <2>2. PICK e, s : e = z - P /\ s = Plain!slice(F, P, e)
      OBVIOUS
    <2>3. Plain!IsPrefix(s, b)
      <3>1. e \in Nat /\ e <= w /\ P \in Nat
        BY <1>3, <2>1, <2>2
      <3>2. Len(s) = e /\ \A k \in 1 .. e : s[k] = F[P + k]
        <4>1. PICK p \in Nat, n \in Nat : p = P /\ n = e
          BY <3>1, Zenon
        <4>2. /\ Len(Plain!slice(F, p, n)) = n
              /\ \A k \in 1 .. n : Plain!slice(F, p, n)[k] = F[p + k]
          BY Part
        <4> QED
          BY <2>2, <4>1, <4>2
      <3>3. \A k \in 1 .. e : s[k] = b[k]
        <4> SUFFICES ASSUME NEW k \in 1 .. e PROVE s[k] = b[k]
          OBVIOUS
        <4>1. P + k \in 1 .. z /\ B + (P + k) - 1 = B + P + k - 1 /\ k \in 1 .. w
          BY <1>3, <2>2, <3>1
        <4>2. F[P + k] = d[B + (P + k) - 1]
          BY <1>5, <4>1
        <4>3. b[k] = d[B + P + k - 1]
          BY <1>6, <4>1
        <4> QED
          BY <3>2, <4>1, <4>2, <4>3
      <3> QED
        <4>1. Len(b) = w /\ w \in Nat
          BY <1>3, <1>6
        <4> QED
          BY <3>1, <3>2, <3>3, <4>1, Prefix
    <2>4. Plain!IsPrefix(F, files'[f])
      <3>1. PICK t : t = [k \in 1 .. y |-> d[B + k - 1]]
        OBVIOUS
      <3>2. Len(t) = y
        <4>1. Len([k \in 1 .. y |-> d[B + k - 1]]) = y
          BY <1>8
        <4> QED
          BY <3>1, <4>1
      <3>3. \A k \in 1 .. z : F[k] = t[k]
        BY <1>3, <1>5, <1>8, <3>1
      <3>4. Plain!IsPrefix(F, t)
        BY <1>3, <1>5, <1>8, <3>2, <3>3, Prefix
      <3> QED
        BY <1>10, <3>1, <3>4
    <2> QED
      BY <2>2, <2>3, <2>4
  <1> QED
    <2>1. \A g \in FileNrs \ {call.file} : files'[g] = before[g]
      BY <1>2, <1>9
    <2> QED
      BY <1>2, <1>3, <1>4, <1>5, <1>6, <1>7, <1>11, <1>12, <2>1, Zenon

(* The end of a call that writes n bytes of what it was given into the     *)
(* room of its file.                                                       *)
LEMMA Overwrites ==
  ASSUME DInv, Finish, call.op = "write",
         NEW X, Len(X) \in Nat, \A k \in 1 .. Len(X) : X[k] = call.data[k],
         Len(X) = bytes_rw \/ (Len(X) <= bytes_rw /\ call.pos + Len(X) = Cap),
         size(call.file)' = IF size(call.file) >= call.pos + Len(X)
                            THEN size(call.file) ELSE call.pos + Len(X)
  PROVE  files'[call.file] = Plain!overwritten(before[call.file], call.pos, X)
  <1>1. call # NoCall /\ ~done /\ Types /\ Called /\ Held /\ Kept
    BY DEF DInv, Finish
  <1>2. PICK f, w, d, z, y, B, F, P, n, D :
          /\ f = call.file /\ w = bytes_rw /\ d = disk /\ F = before[call.file]
          /\ z = size(call.file) /\ y = size(call.file)' /\ B = base(call.file)
          /\ P = call.pos /\ n = Len(X) /\ D = call.data
    OBVIOUS
  <1>3. /\ f \in FileNrs /\ P \in Nat /\ w \in Nat /\ B \in Nat
        /\ z \in Nat /\ z <= Cap /\ P <= z /\ n \in Nat
    <2>1. f \in FileNrs /\ P <= Cap /\ P <= i_size[f] /\ P \in Nat /\ w \in Nat
      BY <1>1, <1>2 DEF Called, Types
    <2>2. base(f) \in Nat
      BY <2>1, Apart
    <2>3. /\ size(f) \in Nat /\ size(f) <= Cap /\ size(f) <= i_size[f]
          /\ size(f) = i_size[f] \/ size(f) = Cap
          /\ i_size[f] \in Nat
      BY <1>1, <2>1, SizeType
    <2> QED
      BY <1>2, <2>1, <2>2, <2>3
  <1>4. /\ y = IF z >= P + n THEN z ELSE P + n
        /\ n = w \/ (n <= w /\ P + n = Cap)
        /\ \A k \in 1 .. n : X[k] = D[k]
    <2>1. size(call.file)' = IF size(call.file) >= call.pos + Len(X)
                             THEN size(call.file) ELSE call.pos + Len(X)
      OBVIOUS
    <2>2. Len(X) = bytes_rw \/ (Len(X) <= bytes_rw /\ call.pos + Len(X) = Cap)
      OBVIOUS
    <2> QED
      BY <1>2, <2>1, <2>2
  <1>5. y \in Nat /\ y <= Cap /\ files'[f] = [k \in 1 .. y |-> d[B + k - 1]]
    <2>1. call' = call
      BY DEF Finish
    <2>2. size(f)' = y
      BY <1>2, <2>1
    <2>3. /\ size(f)' \in Nat /\ size(f)' <= Cap
          /\ files'[f] = [k \in 1 .. size(f)' |-> disk[base(f) + k - 1]]
      BY <1>3, After
    <2> QED
      BY <1>2, <2>2, <2>3
  <1>6. written = B + P .. B + P + w - 1
    BY <1>2 DEF written, start
  <1>7. F \in [1 .. z -> Int] /\ Len(F) = z
    <2>1. before[f] \in [1 .. size(f) -> Int]
      BY <1>1, <1>3 DEF Kept
    <2>2. F \in [1 .. z -> Int]
      BY <1>2, <2>1
    <2> QED
      BY <1>3, <2>2
  <1>8. \A k \in 1 .. z : k <= P \/ k > P + w => d[B + k - 1] = F[k]
    <2> SUFFICES ASSUME NEW k \in 1 .. z, k <= P \/ k > P + w PROVE d[B + k - 1] = F[k]
      OBVIOUS
    <2>1. B + k - 1 \notin written
      BY <1>3, <1>6
    <2>2. \A j \in 1 .. size(f) : base(f) + j - 1 \notin written => disk[base(f) + j - 1] = before[f][j]
      BY <1>1, <1>3 DEF Kept
    <2>3. \A j \in 1 .. z : B + j - 1 \notin written => d[B + j - 1] = F[j]
      BY <1>2, <2>2
    <2> QED
      BY <2>1, <2>3
  <1>9. \A k \in 1 .. y : P + 1 <= k /\ k <= P + n => d[B + k - 1] = X[k - P]
    <2> SUFFICES ASSUME NEW k \in 1 .. y, P + 1 <= k, k <= P + n PROVE d[B + k - 1] = X[k - P]
      OBVIOUS
    <2>1. B + k - 1 \in written
      BY <1>3, <1>4, <1>6
    <2>2. B + k - 1 \in DiskBytes
      <3>1. B <= B + k - 1 /\ B + k - 1 < B + Cap /\ B + k - 1 \in Int
        BY <1>3, <1>5, Sizes
      <3>2. \A a \in Int : B <= a /\ a < B + Cap => a \in DiskBytes
        BY <1>2, <1>3, Apart
      <3> QED
        BY <3>1, <3>2
    <2>3. d[B + k - 1] = D[(B + k - 1) - start + 1]
      BY <1>1, <1>2, <2>1, <2>2 DEF Kept
    <2>4. (B + k - 1) - start + 1 = k - P
      <3>1. start = B + P
        BY <1>2 DEF start
      <3> QED
        BY <1>3, <3>1
    <2>5. k - P \in 1 .. n
      BY <1>3
    <2> QED
      BY <1>4, <2>3, <2>4, <2>5
  <1>10. \A k \in 1 .. y : d[B + k - 1] = IF k \in P + 1 .. P + n THEN X[k - P] ELSE F[k]
    <2> SUFFICES ASSUME NEW k \in 1 .. y
                 PROVE  d[B + k - 1] = IF k \in P + 1 .. P + n THEN X[k - P] ELSE F[k]
      OBVIOUS
    <2>1. CASE k \in P + 1 .. P + n
      BY <1>3, <1>9, <2>1
    <2>2. CASE k \notin P + 1 .. P + n
      <3>1. k <= P \/ k > P + n
        BY <1>3, <2>2
      <3>2. k \in 1 .. z
        BY <1>3, <1>4, <1>5, <3>1
      <3>3. k <= P \/ k > P + w
        BY <1>3, <1>4, <1>5, <3>1, Sizes
      <3> QED
        BY <1>8, <2>2, <3>2, <3>3
    <2> QED
      BY <2>1, <2>2
  <1>11. Plain!overwritten(F, P, X)
           = [k \in 1 .. y |-> IF k \in P + 1 .. P + n THEN X[k - P] ELSE F[k]]
    <2>1. Len(F) = z /\ Len(X) = n /\ z \in Nat /\ n \in Nat /\ P \in Nat
      BY <1>2, <1>3, <1>7
    <2>2. P + n \in Int /\ z \in Int
      BY <2>1
    <2>3. Plain!Max({z, P + n}) = y
      BY <1>4, <2>2, PlainMinMax
    <2>4. Plain!overwritten(F, P, X)
            = [k \in 1 .. Plain!Max({z, P + n}) |-> IF k \in P + 1 .. P + n THEN X[k - P] ELSE F[k]]
      BY <2>1, Zenon DEF Plain!overwritten
    <2> QED
      BY <2>3, <2>4, Zenon
  <1>12. files'[f] = Plain!overwritten(F, P, X)
    BY <1>5, <1>10, <1>11
  <1> QED
    BY <1>2, <1>12

(* The end of a call that writes.                                          *)
LEMMA EndOfWrite ==
  ASSUME DInv, Finish, call.op = "write",
         NEW F, F = before[call.file], NEW P, P = call.pos, NEW C, C = call.count,
         NEW D, D = call.data
  PROVE  /\ P \in Nat /\ C \in Nat /\ P <= Cap /\ bytes_rw <= C /\ buf = << >>
         /\ P + C <= Cap =>
              /\ bytes_rw = C
              /\ files' = [before EXCEPT ![call.file] = Plain!overwritten(F, P, D)]
         /\ P + C > Cap =>
              /\ files'[call.file] = Plain!overwritten(F, P, Plain!slice(D, 0, Cap - P))
              /\ \A g \in FileNrs : Len(files'[g]) >= Len(before[g])
  <1>1. call # NoCall /\ ~done /\ Types /\ Called /\ Held /\ Kept
    BY DEF DInv, Finish
  <1>2. PICK f, w, z : f = call.file /\ w = bytes_rw /\ z = size(call.file)
    OBVIOUS
  <1>3. /\ f \in FileNrs /\ P \in Nat /\ C \in Nat /\ w \in Nat
        /\ z \in Nat /\ z <= Cap /\ z <= i_size[f] /\ (z = i_size[f] \/ z = Cap)
        /\ i_size[f] \in Nat /\ P <= Cap /\ P <= i_size[f]
        /\ D \in [1 .. C -> Int]
    <2>1. f \in FileNrs /\ P <= Cap /\ P <= i_size[f] /\ P \in Nat /\ C \in Lens /\ w \in Nat
          /\ D \in [1 .. C -> Int]
      BY <1>1, <1>2 DEF Called, Types
    <2>2. /\ size(f) \in Nat /\ size(f) <= Cap /\ size(f) <= i_size[f]
          /\ size(f) = i_size[f] \/ size(f) = Cap
          /\ i_size[f] \in Nat
      BY <1>1, <2>1, SizeType
    <2> QED
      BY <1>2, <2>1, <2>2, Counts
  <1>4. Len(D) = C
    BY <1>3
  <1>5. /\ w <= C
        /\ P + C <= Cap => w = C
        /\ P + C > Cap => P + w > Cap
    <2>1. limit = Cap
      BY DEF limit
    <2> QED
      BY <1>2, <2>1, Ends
  <1>6. PICK y : y = size(call.file)'
    OBVIOUS
  <1>7. y = IF P + w > i_size[f] THEN (IF P + w <= Cap THEN P + w ELSE Cap) ELSE z
    <2>1. size(call.file)' =
              IF call.op # "kread" /\ call.pos + bytes_rw > i_size[call.file]
              THEN (IF call.pos + bytes_rw <= Cap THEN call.pos + bytes_rw ELSE Cap)
              ELSE size(call.file)
      BY After
    <2> QED
      BY <1>2, <1>6, <2>1
  <1>8. buf = << >>
    BY <1>1 DEF Held
  <1>9. ASSUME P + C <= Cap
        PROVE  files' = [before EXCEPT ![f] = Plain!overwritten(F, P, D)]
    <2>1. w = C
      BY <1>5, <1>9
    <2>2. y = IF z >= P + C THEN z ELSE P + C
      BY <1>3, <1>7, <1>9, <2>1
    <2>3. files'[f] = Plain!overwritten(F, P, D)
      <3>1. Len(D) \in Nat /\ Len(D) = bytes_rw /\ \A k \in 1 .. Len(D) : D[k] = call.data[k]
        BY <1>2, <1>3, <1>4, <2>1
      <3>2. size(call.file)' = IF size(call.file) >= call.pos + Len(D)
                               THEN size(call.file) ELSE call.pos + Len(D)
        BY <1>2, <1>4, <1>6, <2>2
      <3>3. files'[call.file] = Plain!overwritten(before[call.file], call.pos, D)
        BY <3>1, <3>2, Overwrites
      <3> QED
        BY <1>2, <3>3
    <2>4. ASSUME NEW g \in FileNrs, g # f PROVE files'[g] = before[g]
      <3>1. /\ size(g)' = size(g)
            /\ files'[g] = [k \in 1 .. size(g)' |-> disk[base(g) + k - 1]]
        BY <1>2, <2>4, After
      <3>2. before[g] \in [1 .. size(g) -> Int]
            /\ \A k \in 1 .. size(g) :
                 base(g) + k - 1 \notin written => disk[base(g) + k - 1] = before[g][k]
        BY <1>1 DEF Kept
      <3>3. \A k \in 1 .. size(g) : base(g) + k - 1 \notin written
        <4>1. PICK B, G, u : B = base(f) /\ G = base(g) /\ u = size(g)
          OBVIOUS
        <4>2. B \in Nat /\ G \in Nat /\ u \in Nat /\ u <= Cap
          BY <1>1, <1>3, <4>1, Apart, SizeType
        <4>3. B + Cap <= G \/ G + Cap <= B
          <5>1. f < g \/ g < f
            <6>1. f \in Int /\ g \in Int
              BY <1>3, Sizes DEF FileNrs
            <6> QED
              BY <2>4, <6>1
          <5> QED
            BY <1>3, <4>1, <5>1, Apart
        <4>4. written = B + P .. B + P + w - 1
          BY <1>2, <4>1 DEF written, start
        <4>5. P + w <= Cap
          BY <1>9, <2>1
        <4>6. \A k \in 1 .. u : G + k - 1 \notin B + P .. B + P + w - 1
          BY <1>3, <4>2, <4>3, <4>5, Sizes
        <4> QED
          BY <4>1, <4>4, <4>6
      <3> QED
        BY <3>1, <3>2, <3>3
    <2>5. before = [g \in FileNrs |-> before[g]]
      BY <1>1 DEF Kept
    <2>6. files' = [g \in FileNrs |-> files'[g]]
      <3>1. files' = [g \in FileNrs |-> [k \in 1 .. size(g)' |-> disk[base(g) + k - 1]]]
        BY After
      <3> QED
        BY <3>1
    <2> QED
      BY <1>3, <2>3, <2>4, <2>5, <2>6
  <1>10. ASSUME P + C > Cap
         PROVE  /\ files'[f] = Plain!overwritten(F, P, Plain!slice(D, 0, Cap - P))
                /\ \A g \in FileNrs : Len(files'[g]) >= Len(before[g])
    <2>1. PICK n \in Nat : n = Cap - P
      BY <1>3, Sizes
    <2>2. n <= w /\ n <= C /\ P + n = Cap
      BY <1>3, <1>5, <1>10, <2>1, Sizes
    <2>3. y = IF z >= P + n THEN z ELSE P + n
      BY <1>3, <1>5, <1>7, <1>10, <2>2, Sizes
    <2>4. PICK X : X = Plain!slice(D, 0, n)
      OBVIOUS
    <2>5. Len(X) = n /\ \A k \in 1 .. n : X[k] = D[k]
      <3>1. 0 \in Nat
        OBVIOUS
      <3>2. Len(Plain!slice(D, 0, n)) = n /\ \A k \in 1 .. n : Plain!slice(D, 0, n)[k] = D[0 + k]
        BY <3>1, Part
      <3>3. \A k \in 1 .. n : 0 + k = k
        OBVIOUS
      <3> QED
        BY <2>4, <3>2, <3>3
    <2>6. files'[f] = Plain!overwritten(F, P, X)
      <3>1. /\ Len(X) \in Nat /\ \A k \in 1 .. Len(X) : X[k] = call.data[k]
            /\ Len(X) <= bytes_rw /\ call.pos + Len(X) = Cap
        BY <1>2, <2>2, <2>5
      <3>2. size(call.file)' = IF size(call.file) >= call.pos + Len(X)
                               THEN size(call.file) ELSE call.pos + Len(X)
        BY <1>2, <1>6, <2>3, <2>5
      <3>3. files'[call.file] = Plain!overwritten(before[call.file], call.pos, X)
        BY <3>1, <3>2, Overwrites
      <3> QED
        BY <1>2, <3>3
    <2>7. ASSUME NEW g \in FileNrs PROVE Len(files'[g]) >= Len(before[g])
      <3>1. /\ size(g)' \in Nat /\ size(g) <= size(g)'
            /\ files'[g] = [k \in 1 .. size(g)' |-> disk[base(g) + k - 1]]
        BY After
      <3>2. before[g] \in [1 .. size(g) -> Int] /\ size(g) \in Nat
        BY <1>1, SizeType DEF Kept
      <3>3. PICK u, v : u = size(g) /\ v = size(g)'
        OBVIOUS
      <3>4. Len(before[g]) = u
        BY <3>2, <3>3
      <3>5. Len(files'[g]) = v
        <4>1. v \in Nat /\ files'[g] = [k \in 1 .. v |-> disk[base(g) + k - 1]]
          BY <3>1, <3>3
        <4>2. Len([k \in 1 .. v |-> disk[base(g) + k - 1]]) = v
          BY <4>1
        <4> QED
          BY <4>1, <4>2
      <3> QED
        BY <3>1, <3>2, <3>3, <3>4, <3>5
    <2> QED
      BY <2>1, <2>4, <2>6, <2>7
  <1> QED
    BY <1>2, <1>3, <1>5, <1>8, <1>9, <1>10, Zenon

--------------------------------------------------------------------------------
(* Every step is a step of PlainFiles, or none.                            *)
LEMMA Unchanged ==
  ASSUME UNCHANGED <<Content, Place, call, Answer>>
  PROVE  UNCHANGED Plain!vars
  <1>1. Content' = Content /\ Place' = Place /\ call' = call /\ Answer' = Answer
    OBVIOUS
  <1> QED
    BY <1>1, Zenon DEF Plain!vars, Content, Place, Answer

LEMMA OpenIsOpen ==
  ASSUME DInv, NEW fd \in Fds, NEW f \in FileNrs, Open(fd, f)
  PROVE  Plain!Open
  <1>1. /\ call = NoCall /\ desc' = [desc EXCEPT ![fd] = [file |-> f, pos |-> 0]]
        /\ UNCHANGED <<disk, i_size, call, bytes_rw, buf, done, before>>
    BY DEF Open, loop
  <1>2. Types /\ Idle
    BY <1>1 DEF DInv
  <1>3. ~done /\ ~done' /\ call.op = "none" /\ call' = call
    BY <1>1, <1>2 DEF Idle, NoCall
  <1>4. Place = desc /\ Place' = desc'
    BY <1>3 DEF Place
  <1>5. files' = files
    BY <1>1 DEF files, bytes_of
  <1>6. Content' = Content
    BY <1>1, <1>5 DEF Content
  <1>7. Answer' = Answer
    BY <1>3 DEF Answer
  <1>8. DOMAIN desc = Fds
    BY <1>2 DEF Types
  <1>9. /\ call = NoCall
        /\ \E x \in DOMAIN Place : \E y \in FileNrs :
             Place' = [Place EXCEPT ![x] = [file |-> y, pos |-> 0]]
        /\ UNCHANGED <<Content, call, Answer>>
    BY <1>1, <1>4, <1>6, <1>7, <1>8
  <1> QED
    BY <1>9, Zenon DEF Plain!Open, Place, Content, Answer

LEMMA BeginIsBegin ==
  ASSUME DInv, NEW c \in Requests, Begin(c)
  PROVE  Plain!Begin
  <1>1. call = NoCall /\ call' = c /\ before' = files /\ UNCHANGED <<disk, i_size, desc, done>>
    BY DEF Begin
  <1>2. Types /\ Idle
    BY <1>1 DEF DInv
  <1>3. ~done /\ ~done' /\ call.op = "none"
    BY <1>1, <1>2 DEF Idle, NoCall
  <1>4. /\ c.op \in {"read", "write", "kread"}
        /\ c.op # "kread" => /\ c.fd \in Fds
                             /\ desc[c.fd] = [file |-> c.file, pos |-> c.pos]
    BY <1>1, RequestTypes
  <1>5. call' # NoCall
    BY <1>1, <1>4 DEF NoCall
  <1>6. Content = files /\ Content' = before'
    BY <1>1, <1>3, <1>5 DEF Content
  <1>7. Answer = NoAnswer /\ Answer' = NoAnswer
    BY <1>3 DEF Answer
  <1>8. Place = desc
    BY <1>3 DEF Place
  <1>9. Place' = desc
    <2>1. CASE c.op \in {"read", "write"}
      <3>1. Place' = [desc' EXCEPT ![c.fd].pos = c.pos]
        BY <1>1, <1>3, <2>1 DEF Place
      <3>2. c.fd \in Fds /\ desc[c.fd] = [file |-> c.file, pos |-> c.pos]
        BY <1>4, <2>1
      <3>3. desc \in [Fds -> [file : FileNrs, pos : Nat]]
        BY <1>2 DEF Types
      <3>4. [desc EXCEPT ![c.fd].pos = c.pos] = desc
        <4>1. PICK x, p, f : x = c.fd /\ p = c.pos /\ f = c.file
          OBVIOUS
        <4>2. [desc[x] EXCEPT !.pos = p] = desc[x]
          BY <3>2, <4>1
        <4>3. [desc EXCEPT ![x] = desc[x]] = desc
          BY <3>3
        <4>4. [desc EXCEPT ![x].pos = p] = [desc EXCEPT ![x] = [desc[x] EXCEPT !.pos = p]]
          BY <3>3
        <4> QED
          BY <4>1, <4>2, <4>3, <4>4
      <3> QED
        BY <1>1, <3>1, <3>4
    <2>2. CASE c.op \notin {"read", "write"}
      BY <1>1, <2>2 DEF Place
    <2> QED
      BY <2>1, <2>2
  <1>10. /\ call = NoCall /\ call' # NoCall
         /\ UNCHANGED <<Content, Place, Answer>>
    BY <1>1, <1>5, <1>6, <1>7, <1>8, <1>9
  <1> QED
    BY <1>10, Zenon DEF Plain!Begin, Place, Content, Answer

(* What the abstract position is while a call is being made.               *)
LEMMA PlaceInCall ==
  ASSUME DInv, call # NoCall, ~done
  PROVE  /\ call.op = "kread" => Place = desc
         /\ call.op # "kread" =>
              /\ Place = [desc EXCEPT ![call.fd] = [file |-> call.file, pos |-> call.pos]]
              /\ desc = [Place EXCEPT ![call.fd].pos = @ + bytes_rw]
  <1>1. Types /\ Called
    BY DEF DInv
  <1>2. CASE call.op = "kread"
    BY <1>2 DEF Place
  <1>3. CASE call.op # "kread"
    <2>1. call.op \in {"read", "write"} /\ call.fd \in Fds
          /\ desc[call.fd] = [file |-> call.file, pos |-> call.pos + bytes_rw]
      BY <1>1, <1>3 DEF Called
    <2>2. PICK x, p, f, w : x = call.fd /\ p = call.pos /\ f = call.file /\ w = bytes_rw
      OBVIOUS
    <2>3. Place = [desc EXCEPT ![x].pos = p]
      BY <2>1, <2>2 DEF Place
    <2>4. x \in Fds /\ desc \in [Fds -> [file : FileNrs, pos : Nat]]
          /\ desc[x] = [file |-> f, pos |-> p + w]
      BY <1>1, <2>1, <2>2 DEF Types
    <2>5. Place = [desc EXCEPT ![x] = [file |-> f, pos |-> p]]
      <3>1. Place = [desc EXCEPT ![x] = [desc[x] EXCEPT !.pos = p]]
        BY <2>3, <2>4
      <3>2. [desc[x] EXCEPT !.pos = p] = [file |-> f, pos |-> p]
        BY <2>4
      <3> QED
        BY <3>1, <3>2
    <2>6. PICK q : q = Place
      OBVIOUS
    <2>7. DOMAIN q = Fds /\ q[x] = [file |-> f, pos |-> p] /\ q = [desc EXCEPT ![x] = q[x]]
      BY <2>4, <2>5, <2>6
    <2>8. [q EXCEPT ![x].pos = @ + w] = [q EXCEPT ![x] = [file |-> f, pos |-> p + w]]
      <3>1. [q EXCEPT ![x].pos = @ + w] = [q EXCEPT ![x] = [q[x] EXCEPT !.pos = q[x].pos + w]]
        BY <2>7
      <3>2. [q[x] EXCEPT !.pos = q[x].pos + w] = [file |-> f, pos |-> p + w]
        BY <2>7
      <3> QED
        BY <3>1, <3>2
    <2>9. desc = [q EXCEPT ![x] = desc[x]]
      BY <2>4, <2>7
    <2> QED
      BY <1>3, <2>2, <2>4, <2>5, <2>6, <2>8, <2>9
  <1> QED
    BY <1>2, <1>3

LEMMA TurnIsNothing ==
  ASSUME DInv, ReadTurn \/ WriteTurn
  PROVE  UNCHANGED <<Content, Place, call, Answer>>
  <1>1. Turns
    BY DEF ReadTurn, WriteTurn
  <1>2. call # NoCall /\ ~done /\ UNCHANGED <<call, done, before>>
    BY <1>1 DEF Turns
  <1>3. Content' = Content
    BY <1>2 DEF Content
  <1>4. Answer' = Answer
    BY <1>2 DEF Answer
  <1>5. Place' = Place
    <2>1. CASE call.op = "kread"
      BY <1>2, <2>1 DEF Place, ReadTurn, WriteTurn
    <2>2. CASE call.op # "kread"
      <3>1. desc' = [desc EXCEPT ![call.fd].pos = @ + bytes]
        BY <2>2 DEF ReadTurn, WriteTurn
      <3>2. Types /\ Called /\ call.op \in {"read", "write"} /\ call.fd \in Fds
        BY <1>2, <2>2 DEF DInv, Called
      <3>3. Types'
        BY ReadTurnKeeps, WriteTurnKeeps DEF DInv
      <3>4. PICK x, p : x = call.fd /\ p = call.pos
        OBVIOUS
      <3>5. Place = [desc EXCEPT ![x].pos = p] /\ Place' = [desc' EXCEPT ![x].pos = p]
        BY <1>2, <3>2, <3>4 DEF Place
      <3>6. PICK d, e : d = desc /\ e = desc'
        OBVIOUS
      <3>7. /\ d \in [Fds -> [file : FileNrs, pos : Nat]]
            /\ e \in [Fds -> [file : FileNrs, pos : Nat]]
            /\ x \in Fds
        BY <3>2, <3>3, <3>4, <3>6 DEF Types
      <3>8. e = [d EXCEPT ![x] = [d[x] EXCEPT !.pos = d[x].pos + bytes]]
        BY <3>1, <3>4, <3>6, <3>7
      <3>9. [d EXCEPT ![x].pos = p] = [d EXCEPT ![x] = [file |-> d[x].file, pos |-> p]]
        <4>1. [d EXCEPT ![x].pos = p] = [d EXCEPT ![x] = [d[x] EXCEPT !.pos = p]]
          BY <3>7
        <4>2. d[x] \in [file : FileNrs, pos : Nat]
          BY <3>7
        <4>3. [d[x] EXCEPT !.pos = p] = [file |-> d[x].file, pos |-> p]
          BY <4>2
        <4> QED
          BY <4>1, <4>3
      <3>10. [e EXCEPT ![x].pos = p] = [e EXCEPT ![x] = [file |-> e[x].file, pos |-> p]]
        <4>1. [e EXCEPT ![x].pos = p] = [e EXCEPT ![x] = [e[x] EXCEPT !.pos = p]]
          BY <3>7
        <4>2. e[x] \in [file : FileNrs, pos : Nat]
          BY <3>7
        <4>3. [e[x] EXCEPT !.pos = p] = [file |-> e[x].file, pos |-> p]
          BY <4>2
        <4> QED
          BY <4>1, <4>3
      <3>11. e[x].file = d[x].file /\ \A y \in Fds : y # x => e[y] = d[y]
        BY <3>7, <3>8
      <3>12. [e EXCEPT ![x] = [file |-> e[x].file, pos |-> p]]
               = [d EXCEPT ![x] = [file |-> d[x].file, pos |-> p]]
        BY <3>7, <3>11
      <3> QED
        BY <3>5, <3>6, <3>9, <3>10, <3>12
    <2> QED
      BY <2>1, <2>2
  <1> QED
    BY <1>2, <1>3, <1>4, <1>5

LEMMA ReturnIsReturn ==
  ASSUME DInv, Return
  PROVE  Plain!Return
  <1>1. /\ done /\ done' = FALSE /\ call' = NoCall
        /\ UNCHANGED <<disk, i_size, desc>>
    BY DEF Return
  <1>2. Types
    BY DEF DInv
  <1>3. Content = files /\ Content' = files' /\ files' = files
    <2>1. files' = files
      BY <1>1 DEF files, bytes_of
    <2> QED
      BY <1>1, <2>1 DEF Content
  <1>4. Place = desc /\ Place' = desc'
    BY <1>1 DEF Place, NoCall
  <1>5. Answer # NoAnswer /\ Answer' = NoAnswer
    <2>1. Answer = [moved |-> bytes_rw, bytes |-> buf] /\ bytes_rw \in Nat
      BY <1>1, <1>2 DEF Answer, Types
    <2>2. Answer.moved = bytes_rw /\ NoAnswer.moved = -1
      BY <2>1 DEF NoAnswer
    <2> QED
      BY <1>1, <2>1, <2>2 DEF Answer
  <1>6. /\ Answer # NoAnswer /\ call' = NoCall /\ Answer' = NoAnswer
        /\ UNCHANGED <<Content, Place>>
    BY <1>1, <1>3, <1>4, <1>5
  <1> QED
    BY <1>6, Zenon DEF Plain!Return, Place, Content, Answer

LEMMA FinishIsDo ==
  ASSUME DInv, Finish
  PROVE  Plain!Do
  <1>1. /\ call # NoCall /\ ~done /\ done' = TRUE /\ call' = call
        /\ desc' = desc /\ bytes_rw' = bytes_rw /\ buf' = buf
    BY DEF Finish, loop
  <1>2. Called
    BY <1>1 DEF DInv
  <1>3. PICK F, P, C, D, w :
          /\ F = before[call.file] /\ P = call.pos /\ C = call.count /\ D = call.data
          /\ w = bytes_rw
    OBVIOUS
  <1>4. Content = before /\ Content' = files' /\ Content[call.file] = F
    BY <1>1, <1>3 DEF Content
  <1>5. Answer = NoAnswer /\ Answer' = [moved |-> w, bytes |-> buf]
    BY <1>1, <1>3 DEF Answer
  <1>6. Answer'.moved = w /\ Answer'.bytes = buf
    BY <1>5
  <1>7. Place' = IF call.op = "kread" THEN Place
                 ELSE [Place EXCEPT ![call.fd].pos = @ + Answer'.moved]
    <2>1. Place' = desc
      BY <1>1 DEF Place
    <2> QED
      BY <1>1, <1>3, <1>6, <2>1, PlaceInCall
  <1>8. ASSUME call.op # "write" PROVE Plain!ReadInside \/ Plain!ReadBeyond
    <2>1. call.op \in {"read", "kread"}
      BY <1>2, <1>8 DEF Called
    <2>2. /\ P \in Nat /\ C \in Nat /\ P <= Len(F)
          /\ w <= C /\ w = Len(buf)
          /\ P + C <= Len(F) =>
               /\ files' = before /\ w = C
               /\ buf = Plain!slice(F, P, C)
          /\ P + C > Len(F) =>
               /\ Plain!IsPrefix(Plain!slice(F, P, Len(F) - P), buf)
               /\ Plain!IsPrefix(F, files'[call.file])
               /\ \A g \in FileNrs \ {call.file} : files'[g] = before[g]
      BY <1>3, <1>8, EndOfRead
    <2>3. CASE P + C <= Len(F)
      <3>1. Answer' = [moved |-> call.count, bytes |-> Plain!slice(Content[call.file], call.pos, call.count)]
        BY <1>3, <1>4, <1>5, <2>2, <2>3
      <3>2. Content' = Content /\ call.pos + call.count <= Len(Content[call.file])
        BY <1>3, <1>4, <2>2, <2>3
      <3> QED
        BY <2>1, <3>1, <3>2, Zenon DEF Plain!ReadInside, Content, Answer
    <2>4. CASE ~(P + C <= Len(F))
      <3>1. P + C > Len(F)
        <4>1. Len(F) \in Nat
          <5>1. F \in [1 .. size(call.file) -> Int] /\ size(call.file) \in Nat
            BY <1>1, <1>2, <1>3, SizeType DEF DInv, Kept, Called
          <5> QED
            BY <5>1
        <4> QED
          BY <2>2, <2>4, <4>1
      <3>2. /\ call.pos + call.count > Len(Content[call.file])
            /\ Plain!IsPrefix(Plain!slice(Content[call.file], call.pos, Len(Content[call.file]) - call.pos),
                              Answer'.bytes)
            /\ Answer'.moved = Len(Answer'.bytes) /\ Answer'.moved <= call.count
            /\ Plain!IsPrefix(Content[call.file], Content'[call.file])
            /\ \A f \in FileNrs \ {call.file} : Content'[f] = Content[f]
        BY <1>3, <1>4, <1>6, <2>2, <3>1
      <3> QED
        BY <2>1, <3>2, Zenon DEF Plain!ReadBeyond, Plain!others_kept, Content, Answer
    <2> QED
      BY <2>3, <2>4
  <1>9. ASSUME call.op = "write" PROVE Plain!WriteInside \/ Plain!WriteBeyond
    <2>1. /\ P \in Nat /\ C \in Nat /\ P <= Cap /\ w <= C /\ buf = << >>
          /\ P + C <= Cap =>
               /\ w = C
               /\ files' = [before EXCEPT ![call.file] = Plain!overwritten(F, P, D)]
          /\ P + C > Cap =>
               /\ files'[call.file] = Plain!overwritten(F, P, Plain!slice(D, 0, Cap - P))
               /\ \A g \in FileNrs : Len(files'[g]) >= Len(before[g])
      BY <1>3, <1>9, EndOfWrite
    <2>2. CASE P + C <= Cap
      <3>1. Answer' = [moved |-> call.count, bytes |-> << >>]
        BY <1>3, <1>5, <2>1, <2>2
      <3>2. Content' = [Content EXCEPT ![call.file] = Plain!overwritten(@, call.pos, call.data)]
        BY <1>3, <1>4, <2>1, <2>2
      <3>3. call.pos + call.count <= Capacity
        BY <1>3, <2>2 DEF Cap
      <3> QED
        BY <1>9, <3>1, <3>2, <3>3, Zenon DEF Plain!WriteInside, Content, Answer
    <2>3. CASE ~(P + C <= Cap)
      <3>1. P + C > Capacity
        BY <2>1, <2>3, Sizes DEF Cap
      <3>2. Plain!Max({Capacity - P, 0}) = Capacity - P /\ Plain!Min({P, Capacity}) = P
        <4>1. Capacity \in Nat /\ P <= Capacity
          BY <2>1, Sizes DEF Cap
        <4>2. PICK r : r = Capacity - P
          OBVIOUS
        <4>3. r \in Int /\ 0 \in Int /\ P \in Int /\ Capacity \in Int /\ r >= 0
          BY <2>1, <4>1, <4>2
        <4>4. Plain!Max({r, 0}) = r
          BY <4>3, PlainMinMax
        <4>5. Plain!Min({P, Capacity}) = P
          BY <4>1, <4>3, PlainMinMax
        <4> QED
          BY <4>2, <4>4, <4>5
      <3>3. /\ Answer'.moved <= call.count
            /\ call.pos + call.count > Capacity
            /\ Content'[call.file] =
                 Plain!overwritten(Content[call.file], Plain!Min({call.pos, Capacity}),
                                   Plain!slice(call.data, 0, Plain!Max({Capacity - call.pos, 0})))
            /\ \A f \in FileNrs : Len(Content'[f]) >= Len(Content[f])
        BY <1>3, <1>4, <1>6, <2>1, <3>1, <3>2 DEF Cap
      <3> QED
        BY <1>9, <3>3, Zenon DEF Plain!WriteBeyond, Content, Answer
    <2> QED
      BY <2>2, <2>3
  <1>10. Plain!ReadInside \/ Plain!ReadBeyond \/ Plain!WriteInside \/ Plain!WriteBeyond
    BY <1>8, <1>9, Zenon
  <1>11. Plain!moved_on
    BY <1>7, Zenon DEF Plain!moved_on, Place, Answer
  <1> QED
    BY <1>1, <1>5, <1>10, <1>11, Zenon DEF Plain!Do, Answer

LEMMA PlainInit == Init => Plain!Init
  <1> SUFFICES ASSUME Init PROVE Plain!Init
    OBVIOUS
  <1>1. call = NoCall /\ Answer = NoAnswer
    BY DEF Init, Answer
  <1> QED
    BY <1>1, Zenon DEF Plain!Init, Answer

LEMMA PlainStep == DInv /\ [Next]_vars => [Plain!Next]_(Plain!vars)
  <1> SUFFICES ASSUME DInv, [Next]_vars PROVE Plain!Next \/ UNCHANGED Plain!vars
    OBVIOUS
  <1>1. ASSUME NEW fd \in Fds, NEW f \in FileNrs, Open(fd, f) PROVE Plain!Next
    <2>1. Plain!Open
      BY <1>1, OpenIsOpen
    <2> QED
      BY <2>1 DEF Plain!Next
  <1>2. ASSUME NEW c \in Requests, Begin(c) PROVE Plain!Next
    <2>1. Plain!Begin
      BY <1>2, BeginIsBegin
    <2> QED
      BY <2>1 DEF Plain!Next
  <1>3. CASE ReadTurn \/ WriteTurn
    BY <1>3, TurnIsNothing, Unchanged
  <1>4. CASE Finish
    BY <1>4, FinishIsDo DEF Plain!Next
  <1>5. CASE Return
    BY <1>5, ReturnIsReturn DEF Plain!Next
  <1>6. CASE UNCHANGED vars
    <2>1. UNCHANGED <<disk, i_size, desc, call, bytes_rw, buf, done, before>>
      BY <1>6 DEF vars, loop
    <2>2. files' = files
      BY <2>1 DEF files, bytes_of
    <2>3. UNCHANGED <<Content, Place, call, Answer>>
      BY <2>1, <2>2 DEF Content, Place, Answer
    <2> QED
      BY <2>3, Unchanged
  <1> QED
    BY <1>1, <1>2, <1>3, <1>4, <1>5, <1>6 DEF Next

(* A call of sys_read(), sys_writef() or kread(), from its first turn to   *)
(* its return, does what PlainFiles promises (AsPromised): its turns lose, *)
(* repeat and misplace no byte, a write into the room of a file changes no *)
(* other file, and the position moves by what was moved.                   *)
THEOREM LoopsKeepPromise == Spec => AsPromised
  BY PlainInit, DataInvariant, PlainStep, PTL DEF Spec, AsPromised, Plain!Spec
================================================================================
