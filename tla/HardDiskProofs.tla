----------------------------- MODULE HardDiskProofs -----------------------------
(***************************************************************************)
(* Proofs about HardDisk, for drives of every size and kind, every layout  *)
(* of partitions and calls of every length: what hd_open() finds, and that *)
(* hd_rdwt_block() is a block device.                                      *)
(***************************************************************************)
EXTENDS HardDisk, WellFoundedInduction, TLAPS

--------------------------------------------------------------------------------
(* Where the kernel is.                                                    *)
Types ==
  /\ tables \in Layouts
  /\ kind \in Kinds
  /\ drive \in [state : {"idle", "busy", "drq"}, cmd : {"none", "identify", "read", "write"},
                sect : {drive.sect}, left : Nat, data : Data \cup {GARBAGE}]
  /\ intrq \in BOOLEAN /\ irr \in BOOLEAN /\ DataReady \in BOOLEAN
  /\ stage \in {"identify", "primary", "extended", "calls"}
  /\ pc \in {"open", "wait", "clear", "data", "idle", "loop", "status", "write"}
  /\ moved \in Nat

Position ==
  /\ pc = "open" => stage = "identify"
  /\ pc \in {"idle", "loop", "status", "write"} => stage = "calls"
  /\ call = NoCall <=> stage # "calls" \/ pc = "idle"
  /\ call # NoCall => call \in CallsOn(root(tables).size)
  /\ call = NoCall => moved = 0
  /\ pc \in {"status", "write"} => call.rw = "write"
  /\ pc = "data" => call.rw # "write"

(* The command the drive is at: for how many sectors, how many are behind  *)
(* it, and where it is.  It is at none while nobody waits for it.          *)
asked == IF call = NoCall THEN 1 ELSE sectors_of(count_register(call.count))
behind == asked - drive.left

Command ==
  /\ drive.state # "idle" => drive.left > 0
  /\ pc \in {"open", "idle"} => drive.state = "idle" /\ ~irr /\ ~DataReady
  /\ drive.cmd = "write" /\ drive.state # "idle" => call.rw = "write"
  /\ call # NoCall => drive.sect = root(tables).base + call.sect + behind
  /\ drive.left <= asked \/ pc \in {"open", "idle"}

(* A read, of a call or of a table.  An interrupt on its way, or seen, is  *)
(* one for a sector that is in the buffer of the drive.                    *)
Reading ==
  call.rw # "write" /\ pc \notin {"open", "idle"} =>
    /\ behind = moved
    /\ irr \/ DataReady => drive.state = "drq"
    /\ ~(irr /\ DataReady)
    /\ pc = "clear" => DataReady
    /\ pc = "data"  => ~irr /\ ~DataReady /\ drive.state = "drq"

(* A write.  The drive is a sector ahead of the kernel while the interrupt *)
(* for that sector has not been waited for, and never further.             *)
Writing ==
  call.rw = "write" =>
    /\ drive.cmd = "write"
    /\ pc \notin {"wait", "clear"} => ~irr /\ ~DataReady
    /\ ~(irr /\ DataReady)
    /\ pc = "clear" => DataReady
    /\ IF irr \/ DataReady
       THEN behind = moved + 1 /\ drive.state # "busy"
       ELSE /\ behind = moved
            /\ drive.state = "busy" /\ drive.data # GARBAGE =>
                 pc = "wait" /\ drive.data = call.data[moved + 1]
            /\ pc \in {"write", "wait"} => ~intrq

DInv == Types /\ Position /\ Command /\ Reading /\ Writing

(* What the kernel knows when it has gone through the entries up to the    *)
(* j-th of the first table, and when it is at the i-th table of the j-th.  *)
Primaries(t, h, j) ==
  \A e \in Entries :
    h.primary[e] = IF e <= j /\ t[0][e].sys_id # "none"
                   THEN [base |-> t[0][e].start_sect, size |-> t[0][e].nr_sects]
                   ELSE no_part

Logicals(t, h, j, i) ==
  \A e \in Entries, k \in 0 .. NR_SUB_PER_PART - 1 :
    h.logical[(e - 1) * NR_SUB_PER_PART + k] =
      IF t[0][e].sys_id = "extended" /\ (e < j \/ (e = j /\ k < i))
      THEN logicals(t, t[0][e].start_sect, k)
      ELSE no_part

Rows(h) ==
  h = [primary |-> [d \in 0 .. NR_PART_PER_DRIVE |-> h.primary[d]],
       logical |-> [d \in 0 .. NR_SUB_PER_DRIVE - 1 |-> h.logical[d]]]

(* In the i-th table of the j-th entry: where it is, and that every table  *)
(* before it has led on.                                                   *)
InChain(t, a) ==
  LET start == chain(t, t[0][a.j].start_sect)
  IN  /\ a = [j |-> a.j, i |-> a.i, s |-> start[a.i]]
      /\ a.j \in Entries /\ a.i \in 0 .. NR_SUB_PER_PART - 1
      /\ t[0][a.j].sys_id = "extended"
      /\ \A m \in 0 .. a.i - 1 : t[start[m]][2].sys_id # "none"

Found ==
  /\ Rows(hd_info)
  /\ stage \in {"identify", "primary"} =>
       Primaries(tables, hd_info, 0) /\ Logicals(tables, hd_info, 1, 0)
  /\ stage = "primary" => drive.sect = 0
  /\ stage = "extended" =>
       /\ part_tbl = tables[0] /\ InChain(tables, at) /\ drive.sect = at.s
       /\ Primaries(tables, hd_info, at.j) /\ Logicals(tables, hd_info, at.j, at.i)
  /\ PartitionsFound

IInv == DInv /\ Found

--------------------------------------------------------------------------------
LEMMA Constants ==
  /\ NR_SUB_PER_PART \in Nat /\ NR_SUB_PER_PART >= 1
  /\ COUNT_VALUES \in Nat /\ COUNT_VALUES >= 1
  /\ GARBAGE \notin Data /\ Data \subseteq Nat
  /\ MaxCount \in Nat
  BY HardDiskAssumption DEF GARBAGE

LEMMA RootPartition ==
  ASSUME NEW t \in Layouts
  PROVE  /\ root(t).base \in Nat /\ root(t).size \in Nat
         /\ root(t).base + root(t).size <= NR_SECTORS /\ NR_SECTORS \in Nat
         /\ t[0][3].sys_id = "extended"
  BY HardDiskAssumption

LEMMA CallFacts ==
  ASSUME NEW size \in Nat, NEW c \in CallsOn(size)
  PROVE  /\ c.rw \in {"read", "write"} /\ c # NoCall
         /\ c.sect \in Nat /\ c.count \in Nat /\ c.count >= 1
         /\ c.sect + c.count <= size
         /\ c.rw = "write" => c.data \in [1 .. c.count -> Data]
  <1>1. PICK n \in 1 .. MaxCount :
          \/ c \in [rw : {"read"}, sect : 0 .. size - n, count : {n}, data : {<< >>}]
          \/ c \in [rw : {"write"}, sect : 0 .. size - n, count : {n}, data : [1 .. n -> Data]]
    BY DEF CallsOn
  <1> QED
    BY <1>1, Constants DEF NoCall

(* The count in the register is not zero and not more than the count of    *)
(* the call.                                                               *)
LEMMA Register ==
  ASSUME NEW n \in Nat, n >= 1
  PROVE  /\ sectors_of(count_register(n)) \in Nat
         /\ 1 <= sectors_of(count_register(n)) /\ sectors_of(count_register(n)) <= n
  <1> DEFINE q == n \div COUNT_VALUES
             r == n % COUNT_VALUES
  <1>1. q \in Nat /\ r \in Nat /\ r < COUNT_VALUES
    BY Constants
  <1>2. n = COUNT_VALUES * (n \div COUNT_VALUES) + (n % COUNT_VALUES)
    BY Constants, SMTT(30)
  <1>3. n = COUNT_VALUES * q + r
    BY <1>2
  <1> HIDE DEF q, r
  <1>4. COUNT_VALUES * q \in Nat
    BY <1>1, Constants
  <1>5. r = 0 => COUNT_VALUES <= n
    <2> SUFFICES ASSUME r = 0 PROVE COUNT_VALUES <= n
      OBVIOUS
    <2>1. q # 0
      <3> SUFFICES ASSUME q = 0 PROVE FALSE
        OBVIOUS
      <3>1. COUNT_VALUES * 0 = 0
        BY Constants
      <3> QED
        BY <1>3, <3>1
    <2>2. q >= 1
      BY <1>1, <2>1
    <2>3. COUNT_VALUES * q >= COUNT_VALUES * 1
      BY <1>1, <2>2, Constants
    <2> QED
      BY <1>1, <1>3, <1>4, <2>3, Constants
  <1>6. r <= n
    BY <1>1, <1>3, <1>4
  <1>7. sectors_of(count_register(n)) = IF r = 0 THEN COUNT_VALUES ELSE r
    BY DEF sectors_of, count_register, r
  <1> QED
    BY <1>1, <1>5, <1>6, <1>7, Constants

LEMMA AskedFacts ==
  ASSUME DInv
  PROVE  /\ asked \in Nat /\ asked >= 1
         /\ call # NoCall => /\ asked <= call.count
                             /\ call.rw \in {"read", "write"}
                             /\ call.sect \in Nat /\ call.count \in Nat
                             /\ call.sect + call.count <= root(tables).size
                             /\ call.rw = "write" => call.data \in [1 .. call.count -> Data]
         /\ call.rw = "write" => call # NoCall
  <1>1. CASE call = NoCall
    BY <1>1 DEF asked, NoCall
  <1>2. CASE call # NoCall
    <2>1. root(tables).size \in Nat /\ call \in CallsOn(root(tables).size)
      BY <1>2, RootPartition DEF DInv, Types, Position
    <2> QED
      BY <1>2, <2>1, CallFacts, Register DEF asked
  <1> QED
    BY <1>1, <1>2

LEMMA InitDInv == Init => DInv
  <1> SUFFICES ASSUME Init PROVE DInv
    OBVIOUS
  <1>1. Types
    BY DEF Init, Types, GARBAGE
  <1>2. Position
    BY DEF Init, Position
  <1>3. Command /\ Reading /\ Writing
    BY DEF Init, Command, Reading, Writing, NoCall
  <1> QED
    BY <1>1, <1>2, <1>3 DEF DInv

--------------------------------------------------------------------------------
(* The kernel gives the drive a command.                                   *)
LEMMA Accepted ==
  ASSUME Types, NEW cmd \in {"identify", "read", "write"}, NEW sect, NEW n \in Nat
  PROVE  /\ accepted(cmd, sect, n) \in
              [state : {"idle", "busy", "drq"}, cmd : {"none", "identify", "read", "write"},
               sect : {accepted(cmd, sect, n).sect}, left : Nat, data : Data \cup {GARBAGE}]
         /\ accepted(cmd, sect, n).cmd = cmd /\ accepted(cmd, sect, n).sect = sect
         /\ accepted(cmd, sect, n).left = sectors_of(n)
         /\ accepted(cmd, sect, n).data = GARBAGE
         /\ accepted(cmd, sect, n).state \in {"busy", "drq"}
  BY Constants DEF accepted, sectors_of

LEMMA DriveShape ==
  ASSUME Types
  PROVE  drive = [state |-> drive.state, cmd |-> drive.cmd, sect |-> drive.sect,
                  left |-> drive.left, data |-> drive.data]
  BY DEF Types

LEMMA Taken ==
  ASSUME Types, drive.state = "drq", drive.left > 0
  PROVE  /\ taken(drive) \in
              [state : {"idle", "busy", "drq"}, cmd : {"none", "identify", "read", "write"},
               sect : {taken(drive).sect}, left : Nat, data : Data \cup {GARBAGE}]
         /\ taken(drive).state = IF drive.left = 1 THEN "idle" ELSE "busy"
         /\ taken(drive).left = drive.left - 1
         /\ taken(drive).sect = drive.sect + 1
         /\ taken(drive).cmd = drive.cmd
  <1> DEFINE s == IF drive.left = 1 THEN "idle" ELSE "busy"
             d == [drive EXCEPT !.state = s, !.sect = drive.sect + 1, !.left = drive.left - 1]
  <1>1. taken(drive) = d
    BY DEF taken
  <1>2. /\ d.state = s /\ d.sect = drive.sect + 1 /\ d.left = drive.left - 1
        /\ d.cmd = drive.cmd /\ d.data = drive.data
        /\ d = [state |-> s, cmd |-> drive.cmd, sect |-> drive.sect + 1,
                left |-> drive.left - 1, data |-> drive.data]
    <2> DEFINE r == [state |-> drive.state, cmd |-> drive.cmd, sect |-> drive.sect,
                     left |-> drive.left, data |-> drive.data]
    <2>1. d = [r EXCEPT !.state = s, !.sect = drive.sect + 1, !.left = drive.left - 1]
      BY DriveShape
    <2> HIDE DEF d, s
    <2> QED
      BY <2>1
  <1>3. /\ s \in {"idle", "busy", "drq"} /\ drive.left - 1 \in Nat
        /\ drive.cmd \in {"none", "identify", "read", "write"}
        /\ drive.data \in Data \cup {GARBAGE}
    BY DEF Types
  <1> HIDE DEF d, s
  <1> QED
    BY <1>1, <1>2, <1>3 DEF s

(* At boot: for one sector, while nothing is pending.                      *)
LEMMA BootCommand ==
  ASSUME DInv, call = NoCall, stage' \in {"identify", "primary", "extended"}, pc' = "wait",
         ~irr, ~DataReady, NEW cmd \in {"identify", "read"}, NEW sect,
         hd_cmd_out(cmd, sect, 1),
         UNCHANGED <<tables, kind, irr, DataReady, call, moved>>
  PROVE  DInv'
  <1>1. drive' = accepted(cmd, sect, 1) /\ intrq' = FALSE /\ Types
    BY DEF hd_cmd_out, DInv
  <1>2. /\ drive' \in [state : {"idle", "busy", "drq"},
                       cmd : {"none", "identify", "read", "write"},
                       sect : {drive'.sect}, left : Nat, data : Data \cup {GARBAGE}]
        /\ drive'.cmd # "write" /\ drive'.left = 1 /\ drive'.state # "idle"
    <2>1. sectors_of(1) = 1 /\ cmd \in {"identify", "read", "write"} /\ cmd # "write"
      BY DEF sectors_of
    <2> QED
      BY <1>1, <2>1, Accepted
  <1>3. Types'
    BY <1>1, <1>2 DEF Types
  <1>4. moved = 0
    BY DEF DInv, Position
  <1>5. Position'
    BY <1>4 DEF DInv, Position
  <1>6. asked' = 1 /\ behind' = 0
    BY <1>2 DEF asked, behind
  <1>7. Command' /\ Reading' /\ Writing'
    BY <1>2, <1>4, <1>6 DEF Command, Reading, Writing, NoCall
  <1> QED
    BY <1>3, <1>5, <1>7 DEF DInv

LEMMA IdentifyStep ==
  ASSUME DInv, Identify
  PROVE  DInv'
  <1>1. /\ call = NoCall /\ ~irr /\ ~DataReady /\ stage' = "identify"
        /\ UNCHANGED <<tables, kind, irr, DataReady, call, moved>>
        /\ hd_cmd_out("identify", 0, 1) /\ pc' = "wait"
    BY DEF DInv, Position, Command, Identify, boot
  <1> QED
    BY <1>1, BootCommand

(* What the kernel does with the sector it has waited for at boot: it asks *)
(* for the next one, or takes it and is open to calls.                     *)
LEMMA BootShape ==
  ASSUME DInv, BootData
  PROVE  /\ call = NoCall /\ moved = 0 /\ pc = "data"
         /\ stage \in {"identify", "primary", "extended"}
         /\ ~irr /\ ~DataReady /\ drive.state = "drq" /\ drive.left = 1
         /\ UNCHANGED <<tables, kind, media, irr, DataReady, call, moved, result>>
         /\ \/ /\ stage' \in {"primary", "extended"} /\ pc' = "wait"
               /\ \E sect : hd_cmd_out("read", sect, 1)
            \/ /\ stage' = "calls" /\ pc' = "idle"
               /\ drive' = taken(drive) /\ UNCHANGED intrq
  <1>1. stage \in {"identify", "primary", "extended"} /\ pc = "data"
    BY DEF BootData, Identified, Primary, Extended
  <1>2. call = NoCall /\ moved = 0 /\ call.rw # "write"
    BY <1>1 DEF DInv, Position
  <1>3. ~irr /\ ~DataReady /\ drive.state = "drq" /\ drive.left = 1
    <2>1. asked = 1 /\ drive.left \in Nat
      BY <1>2 DEF asked, DInv, Types
    <2>2. drive.left <= 1 /\ (drive.state # "idle" => drive.left > 0)
      BY <1>1, <2>1 DEF DInv, Command
    <2> QED
      BY <1>1, <1>2, <2>1, <2>2 DEF DInv, Reading
  <1>4. UNCHANGED <<tables, kind, media, irr, DataReady, call, moved, result>>
    BY DEF BootData
  <1>5. ASSUME NEW tbl, NEW j, NEW info, GoOn(tbl, j, info)
        PROVE  \/ /\ stage' \in {"primary", "extended"} /\ pc' = "wait"
                  /\ \E sect : hd_cmd_out("read", sect, 1)
               \/ /\ stage' = "calls" /\ pc' = "idle"
                  /\ drive' = taken(drive) /\ UNCHANGED intrq
    BY <1>5, Zenon DEF GoOn, get_part_table
  <1>6. \/ /\ stage' \in {"primary", "extended"} /\ pc' = "wait"
           /\ \E sect : hd_cmd_out("read", sect, 1)
        \/ /\ stage' = "calls" /\ pc' = "idle"
           /\ drive' = taken(drive) /\ UNCHANGED intrq
    <2>1. CASE Identified
      BY <2>1 DEF Identified, get_part_table
    <2>2. CASE Primary
      BY <1>5, <2>2 DEF Primary
    <2>3. CASE Extended
      <3>1. CASE \E tbl, j, info : GoOn(tbl, j, info)
        BY <1>5, <3>1
      <3>2. CASE \E sect : get_part_table(sect) /\ UNCHANGED stage
        BY <2>3, <3>2 DEF get_part_table, Extended
      <3> QED
        BY <2>3, <3>1, <3>2, Zenon DEF Extended
    <2> QED
      BY <2>1, <2>2, <2>3 DEF BootData
  <1> QED
    BY <1>1, <1>2, <1>3, <1>4, <1>6

LEMMA BootStep ==
  ASSUME DInv, BootData
  PROVE  DInv'
  <1>1. CASE /\ stage' \in {"primary", "extended"} /\ pc' = "wait"
             /\ \E sect : hd_cmd_out("read", sect, 1)
    <2>1. PICK sect : hd_cmd_out("read", sect, 1)
      BY <1>1
    <2> QED
      BY <1>1, <2>1, BootShape, BootCommand
  <1>2. CASE stage' = "calls" /\ pc' = "idle" /\ drive' = taken(drive) /\ UNCHANGED intrq
    <2>1. /\ call' = NoCall /\ moved' = 0 /\ ~irr' /\ ~DataReady' /\ drive.left = 1
          /\ drive.state = "drq" /\ Types /\ UNCHANGED <<tables, kind, intrq, irr, DataReady>>
      BY <1>2, BootShape DEF DInv
    <2>2. /\ drive'.state = "idle"
          /\ drive' \in [state : {"idle", "busy", "drq"},
                         cmd : {"none", "identify", "read", "write"},
                         sect : {drive'.sect}, left : Nat, data : Data \cup {GARBAGE}]
      BY <1>2, <2>1, Taken
    <2>3. Types'
      BY <1>2, <2>1, <2>2 DEF Types
    <2>4. Position' /\ Command' /\ Reading' /\ Writing'
      BY <1>2, <2>1, <2>2 DEF Position, Command, Reading, Writing, NoCall
    <2> QED
      BY <2>3, <2>4 DEF DInv
  <1> QED
    BY <1>1, <1>2, BootShape

--------------------------------------------------------------------------------
(* The steps that leave the drive and the call alone.                      *)
LEMMA WaitStep ==
  ASSUME DInv, Wait
  PROVE  DInv'
  <1>1. /\ pc = "wait" /\ DataReady /\ pc' = "clear"
        /\ UNCHANGED <<tables, kind, drive, intrq, irr, DataReady, stage, call, moved>>
    BY DEF Wait, device, boot
  <1>2. asked' = asked /\ behind' = behind
    BY <1>1 DEF asked, behind
  <1>3. Types' /\ Position'
    BY <1>1 DEF DInv, Types, Position
  <1>4. Command' /\ Reading' /\ Writing'
    BY <1>1, <1>2 DEF DInv, Command, Reading, Writing
  <1> QED
    BY <1>3, <1>4 DEF DInv

(* A read has its sector in the buffer; of a write the kernel now knows.   *)
LEMMA ClearStep ==
  ASSUME DInv, Clear
  PROVE  DInv'
  <1>1. /\ pc = "clear" /\ DataReady' = FALSE /\ Types /\ moved \in Nat
        /\ UNCHANGED <<tables, kind, drive, intrq, irr, stage, call>>
    BY DEF Clear, device, boot, cleared, DInv, Types
  <1>2. asked' = asked /\ behind' = behind
    BY <1>1 DEF asked, behind
  <1>3. CASE call.rw = "write" /\ pc' = "loop" /\ moved' = moved + 1
    <2>1. call # NoCall
      BY <1>3, AskedFacts
    <2>2. stage = "calls"
      BY <2>1 DEF DInv, Position
    <2>3. Types' /\ Position'
      <3>1. Types'
        <4>1. moved' \in Nat
          BY <1>1, <1>3
        <4>2. pc' \in {"open", "wait", "clear", "data", "idle", "loop", "status", "write"}
          BY <1>3
        <4>3. DataReady' \in BOOLEAN
          BY <1>1
        <4> QED
          BY <1>1, <4>1, <4>2, <4>3 DEF Types
      <3>2. call \in CallsOn(root(tables).size)
        BY <2>1 DEF DInv, Position
      <3> QED
        BY <1>1, <1>3, <2>1, <2>2, <3>1, <3>2 DEF Position
    <2>4. DataReady /\ ~irr /\ behind = moved + 1 /\ drive.state # "busy" /\ drive.cmd = "write"
      BY <1>1, <1>3 DEF DInv, Writing
    <2>5. Command' /\ Reading'
      BY <1>1, <1>2, <1>3 DEF DInv, Command, Reading
    <2>6. Writing'
      BY <1>1, <1>2, <1>3, <2>4 DEF Writing
    <2> QED
      BY <2>3, <2>5, <2>6 DEF DInv
  <1>4. CASE call.rw # "write" /\ pc' = "data" /\ moved' = moved
    <2>1. Types' /\ Position'
      BY <1>1, <1>4 DEF DInv, Types, Position
    <2>2. DataReady /\ ~irr /\ behind = moved /\ drive.state = "drq"
      BY <1>1, <1>4 DEF DInv, Reading
    <2>3. Command' /\ Reading' /\ Writing'
      BY <1>1, <1>2, <1>4, <2>2 DEF DInv, Command, Reading, Writing
    <2> QED
      BY <2>1, <2>3 DEF DInv
  <1> QED
    BY <1>1, <1>3, <1>4 DEF Clear

(* A call begins: nothing is left over from the one before.                *)
LEMMA CallStep ==
  ASSUME DInv, get_geo(ROOT_DEV) = root(tables),
         NEW c \in CallsOn(get_geo(ROOT_DEV).size), Call(c)
  PROVE  DInv'
  <1> DEFINE sect == c.sect + get_geo(ROOT_DEV).base
             n == count_register(c.count)
  <1>1. /\ pc = "idle" /\ call' = c /\ moved' = 0 /\ pc' = "loop"
        /\ drive' = accepted(c.rw, sect, n) /\ intrq' = FALSE
        /\ UNCHANGED <<tables, kind, irr, DataReady, stage>>
    BY DEF Call, hd_cmd_out, boot
  <1>2. /\ Types /\ tables \in Layouts /\ stage = "calls" /\ ~irr /\ ~DataReady
    BY <1>1 DEF DInv, Types, Position, Command
  <1>3. /\ c.rw \in {"read", "write"} /\ c # NoCall /\ c.sect \in Nat /\ c.count \in Nat
        /\ c.count >= 1 /\ root(tables).base \in Nat /\ c \in CallsOn(root(tables).size)
    BY <1>2, RootPartition, CallFacts
  <1>4. sectors_of(n) \in Nat /\ sectors_of(n) >= 1 /\ n \in Nat
    BY <1>3, Register, Constants DEF count_register
  <1>5. /\ drive' \in [state : {"idle", "busy", "drq"},
                       cmd : {"none", "identify", "read", "write"},
                       sect : {drive'.sect}, left : Nat, data : Data \cup {GARBAGE}]
        /\ drive'.cmd = c.rw /\ drive'.sect = root(tables).base + c.sect
        /\ drive'.left = sectors_of(n) /\ drive'.data = GARBAGE /\ drive'.state # "idle"
    <2>1. sect = root(tables).base + c.sect
      BY <1>3
    <2>2. c.rw \in {"identify", "read", "write"}
      BY <1>3
    <2> HIDE DEF sect, n
    <2> QED
      BY <1>1, <1>2, <1>4, <2>1, <2>2, Accepted
  <1>6. asked' = sectors_of(n) /\ behind' = 0
    BY <1>1, <1>3, <1>4, <1>5 DEF asked, behind
  <1> HIDE DEF sect, n
  <1>7. Types'
    BY <1>1, <1>2, <1>5 DEF Types
  <1>8. Position'
    BY <1>1, <1>2, <1>3 DEF Position
  <1>9. Command'
    BY <1>1, <1>2, <1>3, <1>4, <1>5, <1>6 DEF Command
  <1>10. Reading' /\ Writing'
    BY <1>1, <1>2, <1>3, <1>5, <1>6 DEF Reading, Writing
  <1> QED
    BY <1>7, <1>8, <1>9, <1>10 DEF DInv

(* A call returns only when the drive has done all of it.                  *)
LEMMA Finished ==
  ASSUME DInv, pc = "loop", ~(moved < call.count)
  PROVE  /\ call # NoCall /\ behind = call.count /\ moved = call.count
         /\ drive.state = "idle" /\ ~irr /\ ~DataReady
  <1>1. call # NoCall
    BY DEF DInv, Position
  <1>2. /\ asked \in Nat /\ asked <= call.count /\ call.count \in Nat /\ moved \in Nat
        /\ drive.left \in Nat /\ call.rw \in {"read", "write"}
    BY <1>1, AskedFacts DEF DInv, Types
  <1>3. behind = moved
    BY <1>2 DEF DInv, Reading, Writing
  <1>4. drive.left = 0 /\ behind = call.count /\ moved = call.count
    BY <1>2, <1>3 DEF behind
  <1>5. drive.state = "idle"
    BY <1>4 DEF DInv, Command
  <1>6. ~irr /\ ~DataReady
    BY <1>2, <1>5 DEF DInv, Reading, Writing
  <1> QED
    BY <1>1, <1>4, <1>5, <1>6

LEMMA LoopStep ==
  ASSUME DInv, Loop
  PROVE  DInv'
  <1>1. /\ pc = "loop" /\ call # NoCall /\ stage = "calls" /\ Types
        /\ UNCHANGED <<tables, kind, drive, intrq, irr, DataReady, stage>>
    BY DEF Loop, device, boot, DInv, Position
  <1>2. CASE /\ moved < call.count /\ UNCHANGED <<call, moved>>
             /\ pc' = IF call.rw = "read" THEN "wait" ELSE "status"
    <2>1. asked' = asked /\ behind' = behind
      BY <1>1, <1>2 DEF asked, behind
    <2>2. call.rw \in {"read", "write"}
      BY <1>1, AskedFacts
    <2>3. Types' /\ Position'
      BY <1>1, <1>2, <2>2 DEF DInv, Types, Position
    <2>4. Command' /\ Reading'
      BY <1>1, <1>2, <2>1, <2>2 DEF DInv, Command, Reading
    <2>5. Writing'
      BY <1>1, <1>2, <2>1, <2>2 DEF DInv, Writing
    <2> QED
      BY <2>3, <2>4, <2>5 DEF DInv
  <1>3. CASE ~(moved < call.count) /\ pc' = "idle" /\ call' = NoCall /\ moved' = 0
    <2>1. drive.state = "idle" /\ ~irr /\ ~DataReady
      BY <1>1, <1>3, Finished
    <2>2. Types' /\ Position'
      BY <1>1, <1>3 DEF Types, Position
    <2>3. Command' /\ Reading' /\ Writing'
      BY <1>1, <1>3, <2>1 DEF Command, Reading, Writing, NoCall
    <2> QED
      BY <2>2, <2>3 DEF DInv
  <1> QED
    BY <1>2, <1>3 DEF Loop

LEMMA ReadStatusStep ==
  ASSUME DInv, ReadStatus
  PROVE  DInv'
  <1>1. /\ pc = "status" /\ intrq' = FALSE /\ pc' = "write" /\ call.rw = "write"
        /\ UNCHANGED <<tables, kind, drive, irr, DataReady, stage, call, moved>>
    BY DEF ReadStatus, boot, status_read, DInv, Position
  <1>2. asked' = asked /\ behind' = behind
    BY <1>1 DEF asked, behind
  <1>3. Types' /\ Position'
    BY <1>1 DEF DInv, Types, Position
  <1>4. Command' /\ Reading' /\ Writing'
    BY <1>1, <1>2 DEF DInv, Command, Reading, Writing
  <1> QED
    BY <1>3, <1>4 DEF DInv

(* The drive takes the sector only if it has asked for it.                 *)
LEMMA WriteDataStep ==
  ASSUME DInv, WriteData
  PROVE  DInv'
  <1>1. /\ pc = "write" /\ pc' = "wait" /\ call.rw = "write" /\ call # NoCall /\ Types
        /\ stage = "calls"
        /\ UNCHANGED <<tables, kind, intrq, irr, DataReady, stage, call, moved>>
    BY AskedFacts DEF WriteData, boot, DInv, Position
  <1>2. /\ ~irr /\ ~DataReady /\ behind = moved /\ ~intrq /\ drive.cmd = "write"
        /\ ~(drive.state = "busy" /\ drive.data # GARBAGE)
    BY <1>1 DEF DInv, Writing
  <1>3. CASE drive.state = "drq"
    <2>1. drive' = [drive EXCEPT !.state = "busy", !.data = call.data[moved + 1]]
      BY <1>3 DEF WriteData
    <2>2. call.data[moved + 1] \in Data
      <3>1. /\ moved \in Nat /\ asked \in Nat /\ drive.left \in Nat /\ drive.left > 0
            /\ asked <= call.count /\ call.count \in Nat
            /\ call.data \in [1 .. call.count -> Data]
        BY <1>1, <1>3, AskedFacts DEF DInv, Types, Command
      <3>2. moved + 1 \in 1 .. call.count
        BY <1>2, <3>1 DEF behind
      <3> QED
        BY <3>1, <3>2
    <2>3. drive' = [state |-> "busy", cmd |-> drive.cmd, sect |-> drive.sect,
                    left |-> drive.left, data |-> call.data[moved + 1]]
      <3> DEFINE r == [state |-> drive.state, cmd |-> drive.cmd, sect |-> drive.sect,
                       left |-> drive.left, data |-> drive.data]
      <3>1. drive' = [r EXCEPT !.state = "busy", !.data = call.data[moved + 1]]
        BY <1>1, <2>1, DriveShape
      <3> QED
        BY <3>1
    <2>4. Types'
      BY <1>1, <2>2, <2>3 DEF Types
    <2>5. Position'
      BY <1>1 DEF DInv, Position
    <2>6. asked' = asked /\ behind' = behind
      BY <1>1, <2>3 DEF asked, behind
    <2>7. Command'
      BY <1>1, <1>2, <1>3, <2>3, <2>6 DEF DInv, Command
    <2>8. Reading' /\ Writing'
      BY <1>1, <1>2, <2>3, <2>6 DEF Reading, Writing
    <2> QED
      BY <2>4, <2>5, <2>7, <2>8 DEF DInv
  <1>4. CASE drive.state # "drq"
    <2>1. drive' = drive
      BY <1>4 DEF WriteData
    <2>2. asked' = asked /\ behind' = behind
      BY <1>1, <2>1 DEF asked, behind
    <2>3. Types' /\ Position'
      BY <1>1, <2>1 DEF DInv, Types, Position
    <2>4. Command' /\ Reading' /\ Writing'
      BY <1>1, <1>2, <2>1, <2>2 DEF DInv, Command, Reading, Writing
    <2> QED
      BY <2>3, <2>4 DEF DInv
  <1> QED
    BY <1>3, <1>4

(* Reading takes the sector behind as many as have been moved.             *)
LEMMA ReadDataStep ==
  ASSUME DInv, ReadData
  PROVE  DInv'
  <1>1. /\ pc = "data" /\ stage = "calls" /\ pc' = "loop" /\ drive' = taken(drive)
        /\ moved' = moved + 1 /\ Types /\ call.rw # "write" /\ call # NoCall
        /\ UNCHANGED <<tables, kind, intrq, irr, DataReady, stage, call>>
    BY DEF ReadData, boot, DInv, Position
  <1>2. /\ behind = moved /\ ~irr /\ ~DataReady /\ drive.state = "drq"
    BY <1>1 DEF DInv, Reading
  <1>3. drive.left > 0 /\ drive.left <= asked /\ drive.sect = root(tables).base + call.sect + behind
    BY <1>1, <1>2 DEF DInv, Command
  <1>4. /\ moved \in Nat /\ drive.left \in Nat /\ asked \in Nat
        /\ call.sect \in Nat /\ root(tables).base \in Nat
    BY <1>1, AskedFacts, RootPartition DEF Types
  <1>5. /\ drive' \in [state : {"idle", "busy", "drq"},
                       cmd : {"none", "identify", "read", "write"},
                       sect : {drive'.sect}, left : Nat, data : Data \cup {GARBAGE}]
        /\ drive'.state = IF drive.left = 1 THEN "idle" ELSE "busy"
        /\ drive'.left = drive.left - 1 /\ drive'.sect = drive.sect + 1
        /\ drive'.cmd = drive.cmd
    BY <1>1, <1>2, <1>3, Taken
  <1>6. asked' = asked /\ behind' = behind + 1
    BY <1>1, <1>4, <1>5 DEF asked, behind
  <1>7. Types'
    BY <1>1, <1>4, <1>5 DEF Types
  <1>8. Position'
    BY <1>1 DEF DInv, Position
  <1>9. Command'
    <2>1. drive'.state # "idle" => drive'.left > 0
      BY <1>4, <1>3, <1>5
    <2>2. drive'.sect = root(tables).base + call.sect + behind'
      BY <1>3, <1>4, <1>5, <1>6 DEF behind
    <2>3. drive'.left <= asked'
      BY <1>3, <1>4, <1>5, <1>6
    <2>4. drive'.cmd # "write" \/ drive'.state = "idle"
      BY <1>1, <1>2, <1>5 DEF DInv, Command
    <2> QED
      BY <1>1, <2>1, <2>2, <2>3, <2>4 DEF Command
  <1>10. Reading' /\ Writing'
    BY <1>1, <1>2, <1>6 DEF Reading, Writing
  <1> QED
    BY <1>7, <1>8, <1>9, <1>10 DEF DInv

LEMMA InterruptStep ==
  ASSUME DInv, Interrupt
  PROVE  DInv'
  <1>1. /\ irr /\ irr' = FALSE /\ DataReady' = TRUE /\ Types
        /\ UNCHANGED <<tables, kind, drive, intrq, stage, pc, call, moved>>
    BY DEF Interrupt, boot, DInv
  <1>2. asked' = asked /\ behind' = behind
    BY <1>1 DEF asked, behind
  <1>3. Types' /\ Position'
    BY <1>1 DEF DInv, Types, Position
  <1>4. pc \notin {"open", "idle"}
    BY <1>1 DEF DInv, Command
  <1>5. Command'
    BY <1>1, <1>2, <1>4 DEF DInv, Command
  <1>6. Reading'
    BY <1>1, <1>2, <1>4 DEF DInv, Reading
  <1>7. Writing'
    BY <1>1, <1>2 DEF DInv, Writing
  <1> QED
    BY <1>3, <1>5, <1>6, <1>7 DEF DInv

--------------------------------------------------------------------------------
(* The drive: it does nothing but for a call, or a table, that is waited   *)
(* for.                                                                    *)
LEMMA DriveState ==
  ASSUME Types, NEW s \in {"idle", "busy", "drq"}
  PROVE  [drive EXCEPT !.state = s] = [state |-> s, cmd |-> drive.cmd, sect |-> drive.sect,
                                       left |-> drive.left, data |-> drive.data]
  <1> DEFINE r == [state |-> drive.state, cmd |-> drive.cmd, sect |-> drive.sect,
                   left |-> drive.left, data |-> drive.data]
  <1>1. [drive EXCEPT !.state = s] = [r EXCEPT !.state = s]
    BY DriveShape
  <1> QED
    BY <1>1

LEMMA DriveReadsStep ==
  ASSUME DInv, DriveReads, UNCHANGED <<DataReady, boot, pc, call, moved, result>>
  PROVE  DInv'
  <1>1. /\ drive.state = "busy" /\ drive.cmd # "write" /\ drive.left > 0
        /\ drive' = [drive EXCEPT !.state = "drq"] /\ raise /\ Types
        /\ UNCHANGED <<tables, kind, DataReady, stage, pc, call, moved>>
    BY DEF DriveReads, boot, DInv
  <1>2. drive' = [state |-> "drq", cmd |-> drive.cmd, sect |-> drive.sect,
                  left |-> drive.left, data |-> drive.data]
    BY <1>1, DriveState
  <1>3. intrq' \in BOOLEAN /\ irr' \in BOOLEAN
    BY <1>1, HardDiskAssumption DEF Types, raise
  <1>4. Types' /\ Position'
    <2>1. Types'
      BY <1>1, <1>2, <1>3 DEF Types
    <2>2. Position'
      BY <1>1 DEF DInv, Position
    <2> QED
      BY <2>1, <2>2
  <1>5. asked' = asked /\ behind' = behind
    BY <1>1, <1>2 DEF asked, behind
  <1>6. call.rw # "write" /\ pc \notin {"open", "idle"}
    BY <1>1 DEF DInv, Writing, Command
  <1>7. ~irr /\ ~DataReady /\ pc \notin {"clear", "data"}
    BY <1>1, <1>6 DEF DInv, Reading
  <1>8. Command'
    BY <1>1, <1>2, <1>5, <1>6 DEF DInv, Command
  <1>9. Reading' /\ Writing'
    BY <1>1, <1>2, <1>5, <1>6, <1>7 DEF DInv, Reading, Writing
  <1> QED
    BY <1>4, <1>8, <1>9 DEF DInv

LEMMA DriveAsksStep ==
  ASSUME DInv, DriveAsks, UNCHANGED <<DataReady, boot, pc, call, moved, result>>
  PROVE  DInv'
  <1>1. /\ drive.state = "busy" /\ drive.cmd = "write" /\ drive.data = GARBAGE
        /\ drive' = [drive EXCEPT !.state = "drq"] /\ Types
        /\ UNCHANGED <<tables, kind, intrq, irr, DataReady, stage, pc, call, moved>>
    BY DEF DriveAsks, boot, DInv
  <1>2. drive' = [state |-> "drq", cmd |-> drive.cmd, sect |-> drive.sect,
                  left |-> drive.left, data |-> drive.data]
    BY <1>1, DriveState
  <1>3. Types' /\ Position'
    <2>1. Types'
      BY <1>1, <1>2 DEF Types
    <2>2. Position'
      BY <1>1 DEF DInv, Position
    <2> QED
      BY <2>1, <2>2
  <1>4. asked' = asked /\ behind' = behind
    BY <1>1, <1>2 DEF asked, behind
  <1>5. call.rw = "write" /\ pc \notin {"open", "idle"}
    BY <1>1 DEF DInv, Command
  <1>6. Command'
    BY <1>1, <1>2, <1>4, <1>5 DEF DInv, Command
  <1>7. Reading' /\ Writing'
    BY <1>1, <1>2, <1>4, <1>5 DEF DInv, Reading, Writing
  <1> QED
    BY <1>3, <1>6, <1>7 DEF DInv

(* A stored sector is the one the kernel waits for, and is signalled.      *)
LEMMA DriveWritesShape ==
  ASSUME DInv, DriveWrites
  PROVE  /\ call.rw = "write" /\ call # NoCall /\ pc = "wait" /\ ~irr /\ ~DataReady /\ ~intrq
         /\ drive.cmd = "write" /\ behind = moved /\ drive.left > 0 /\ drive.left <= asked
         /\ asked <= call.count /\ call.count \in Nat /\ asked \in Nat
         /\ drive.left \in Nat /\ moved \in Nat
         /\ drive.data = call.data[moved + 1]
         /\ drive.sect = root(tables).base + call.sect + moved
         /\ drive' = [state |-> IF drive.left = 1 THEN "idle" ELSE "drq", cmd |-> drive.cmd,
                      sect |-> drive.sect + 1, left |-> drive.left - 1, data |-> drive.data]
         /\ irr' = TRUE /\ intrq' \in BOOLEAN
  <1>1. /\ drive.state = "busy" /\ drive.cmd = "write" /\ drive.data # GARBAGE /\ raise /\ Types
        /\ drive' = [drive EXCEPT !.state = IF drive.left = 1 THEN "idle" ELSE "drq",
                                  !.sect = drive.sect + 1, !.left = drive.left - 1]
    BY DEF DriveWrites, DInv
  <1>2. call.rw = "write" /\ call # NoCall /\ pc \notin {"open", "idle"} /\ drive.left > 0
        /\ drive.left <= asked /\ drive.sect = root(tables).base + call.sect + behind
    <2>1. call.rw = "write"
      BY <1>1 DEF DInv, Command
    <2>2. call # NoCall
      BY <2>1, AskedFacts
    <2> QED
      BY <1>1, <2>1, <2>2 DEF DInv, Command
  <1>3. /\ ~irr /\ ~DataReady /\ behind = moved /\ pc = "wait" /\ ~intrq
        /\ drive.data = call.data[moved + 1]
    BY <1>1, <1>2 DEF DInv, Writing
  <1>4. /\ asked <= call.count /\ call.count \in Nat /\ asked \in Nat
        /\ drive.left \in Nat /\ moved \in Nat
    BY <1>1, <1>2, AskedFacts DEF Types
  <1>5. drive' = [state |-> IF drive.left = 1 THEN "idle" ELSE "drq", cmd |-> drive.cmd,
                  sect |-> drive.sect + 1, left |-> drive.left - 1, data |-> drive.data]
    <2> DEFINE r == [state |-> drive.state, cmd |-> drive.cmd, sect |-> drive.sect,
                     left |-> drive.left, data |-> drive.data]
               s == IF drive.left = 1 THEN "idle" ELSE "drq"
    <2> HIDE DEF s
    <2>1. drive' = [r EXCEPT !.state = s, !.sect = drive.sect + 1, !.left = drive.left - 1]
      BY <1>1, DriveShape DEF s
    <2>2. drive' = [state |-> s, cmd |-> drive.cmd, sect |-> drive.sect + 1,
                    left |-> drive.left - 1, data |-> drive.data]
      BY <2>1
    <2> QED
      BY <2>2 DEF s
  <1>6. irr' = TRUE /\ intrq' \in BOOLEAN
    BY <1>1, <1>3, HardDiskAssumption DEF raise, Types
  <1> QED
    BY <1>1, <1>2, <1>3, <1>4, <1>5, <1>6

LEMMA DriveWritesStep ==
  ASSUME DInv, DriveWrites, UNCHANGED <<DataReady, boot, pc, call, moved, result>>
  PROVE  DInv'
  <1>1. /\ Types /\ UNCHANGED <<tables, kind, DataReady, stage, pc, call, moved>>
    BY DEF DriveWrites, boot, DInv
  <1>2. /\ call.rw = "write" /\ call # NoCall /\ pc = "wait" /\ ~irr /\ ~DataReady
        /\ drive.cmd = "write" /\ behind = moved /\ drive.left > 0 /\ drive.left <= asked
        /\ asked \in Nat /\ drive.left \in Nat /\ moved \in Nat
        /\ drive.sect = root(tables).base + call.sect + moved
        /\ irr' = TRUE /\ intrq' \in BOOLEAN
    BY DriveWritesShape
  <1>3. drive' = [state |-> IF drive.left = 1 THEN "idle" ELSE "drq", cmd |-> drive.cmd,
                  sect |-> drive.sect + 1, left |-> drive.left - 1, data |-> drive.data]
    BY DriveWritesShape
  <1>4. Types'
    <2>1. drive.data \in Data \cup {GARBAGE} /\ drive.left - 1 \in Nat
      BY <1>1, <1>2 DEF Types
    <2> QED
      BY <1>1, <1>2, <1>3, <2>1 DEF Types
  <1>5. Position'
    BY <1>1 DEF DInv, Position
  <1>6. asked' = asked /\ behind' = moved + 1
    BY <1>1, <1>2, <1>3 DEF asked, behind
  <1>7. Command'
    <2>1. root(tables).base \in Nat /\ call.sect \in Nat
      BY <1>1, <1>2, AskedFacts, RootPartition DEF Types
    <2>2. drive'.sect = root(tables).base + call.sect + behind'
      BY <1>2, <1>3, <1>6, <2>1
    <2>3. drive'.state # "idle" => drive'.left > 0
      BY <1>2, <1>3
    <2>4. drive'.left <= asked'
      BY <1>2, <1>3, <1>6
    <2> QED
      BY <1>1, <1>2, <2>2, <2>3, <2>4 DEF Command
  <1>8. Reading' /\ Writing'
    BY <1>1, <1>2, <1>3, <1>6 DEF Reading, Writing
  <1> QED
    BY <1>4, <1>5, <1>7, <1>8 DEF DInv

LEMMA StutterDInv ==
  ASSUME DInv, UNCHANGED vars
  PROVE  DInv'
  <1>1. UNCHANGED <<tables, kind, drive, intrq, irr, DataReady, stage, pc, call, moved>>
    BY DEF vars, device, boot
  <1>2. asked' = asked /\ behind' = behind
    BY <1>1 DEF asked, behind
  <1> QED
    BY <1>1, <1>2 DEF DInv, Types, Position, Command, Reading, Writing

(* The calls are of the root device once it is found.                      *)
LEMMA NextDInv ==
  ASSUME DInv, stage = "calls" => get_geo(ROOT_DEV) = root(tables), [Next]_vars
  PROVE  DInv'
  <1>1. ASSUME NEW c \in CallsOn(get_geo(ROOT_DEV).size), Call(c) PROVE DInv'
    <2>1. stage = "calls"
      BY <1>1 DEF Call, DInv, Position
    <2> QED
      BY <1>1, <2>1, CallStep
  <1>2. CASE Kernel
    BY <1>1, <1>2, IdentifyStep, WaitStep, ClearStep, BootStep, LoopStep, ReadStatusStep,
       WriteDataStep, ReadDataStep DEF Kernel
  <1>3. CASE Drive
    BY <1>3, DriveReadsStep, DriveAsksStep, DriveWritesStep DEF Drive
  <1> QED
    BY <1>2, <1>3, InterruptStep, StutterDInv DEF Next

--------------------------------------------------------------------------------
(* The chain of tables, which a recursive function defines.                *)
LEMMA Least ==
  ASSUME NEW S \in SUBSET Nat, S # {}
  PROVE  \E m \in S : \A n \in S : m <= n
  <1> DEFINE less == OpToRel(<, Nat)
  <1>1. PICK m \in S : \A n \in S : <<n, m>> \notin less
    BY NatLessThanWellFounded, WFMin, Zenon DEF less, OpToRel
  <1>2. \A n \in S : ~(n < m)
    BY <1>1 DEF less, OpToRel
  <1>3. m \in Nat /\ \A n \in S : n \in Nat
    OBVIOUS
  <1> QED
    BY <1>2, <1>3

(* A recursive equation over Nat has a solution: its finite prefixes exist *)
(* and agree.                                                              *)
LEMMA ChainEquation ==
  ASSUME NEW t, NEW ext
  PROVE  chain(t, ext) = [k \in Nat |-> IF k = 0 THEN ext
                                        ELSE ext + t[chain(t, ext)[k - 1]][2].start_sect]
  <1> DEFINE next(s) == ext + t[s][2].start_sect
             step(f, k) == IF k = 0 THEN ext ELSE next(f[k - 1])
             prefix(f, n) == f = [k \in 0 .. n |-> step(f, k)]
  <1>1. chain(t, ext) = CHOOSE f : f = [k \in Nat |-> step(f, k)]
    BY DEF chain
  <1> HIDE DEF next
  <1>2. \A n \in Nat : \E f : prefix(f, n)
    <2> DEFINE Bad == {n \in Nat : ~\E f : prefix(f, n)}
    <2> SUFFICES ASSUME Bad # {} PROVE FALSE
      OBVIOUS
    <2>1. PICK m \in Bad : \A n \in Bad : m <= n
      BY Least
    <2>2. m # 0
      <3> SUFFICES ASSUME m = 0 PROVE FALSE
        OBVIOUS
      <3>1. prefix([k \in 0 .. 0 |-> ext], 0)
        OBVIOUS
      <3> QED
        BY <2>1, <3>1
    <2>3. m - 1 \in Nat /\ m - 1 \notin Bad
      <3>1. m \in Nat
        BY <2>1
      <3> HIDE DEF Bad
      <3> QED
        BY <2>1, <2>2, <3>1
    <2>4. PICK f : prefix(f, m - 1)
      BY <2>3
    <2> DEFINE g == [k \in 0 .. m |-> step(f, k)]
    <2>5. \A k \in 0 .. m - 1 : f[k] = step(f, k) /\ g[k] = step(f, k)
      BY <2>3, <2>4
    <2>6. \A k \in 0 .. m : k # 0 => k - 1 \in 0 .. m - 1
      BY <2>3
    <2>7. \A k \in 0 .. m : step(f, k) = step(g, k)
      BY <2>5, <2>6
    <2>8. g = [k \in 0 .. m |-> step(g, k)]
      BY <2>7
    <2> QED
      BY <2>1, <2>8
  <1>3. ASSUME NEW m \in Nat, NEW n \in Nat, NEW f, NEW g, prefix(f, m), prefix(g, n)
        PROVE  \A k \in Nat : k <= m /\ k <= n => f[k] = g[k]
    <2> DEFINE Bad == {k \in Nat : k <= m /\ k <= n /\ f[k] # g[k]}
    <2> SUFFICES ASSUME Bad # {} PROVE FALSE
      OBVIOUS
    <2>1. PICK k \in Bad : \A l \in Bad : k <= l
      BY Least
    <2>2. k \in Nat /\ k <= m /\ k <= n /\ f[k] # g[k]
      BY <2>1
    <2>3. f[k] = step(f, k) /\ g[k] = step(g, k)
      BY <1>3, <2>2
    <2>4. k # 0
      BY <2>2, <2>3
    <2>5. k - 1 \in Nat /\ k - 1 <= m /\ k - 1 <= n /\ k - 1 \notin Bad
      BY <2>1, <2>2, <2>4
    <2>6. f[k - 1] = g[k - 1]
      BY <2>5
    <2> QED
      BY <2>2, <2>3, <2>4, <2>6
  <1> DEFINE A(n) == CHOOSE f : prefix(f, n)
             G == [k \in Nat |-> A(k)[k]]
  <1>4. \A n \in Nat : prefix(A(n), n)
    BY <1>2
  <1> HIDE DEF A
  <1>5. ASSUME NEW k \in Nat PROVE G[k] = step(G, k)
    <2>1. A(k)[k] = step(A(k), k)
      BY <1>4
    <2>2. CASE k = 0
      BY <2>1, <2>2
    <2>3. CASE k # 0
      <3>1. k - 1 \in Nat /\ k - 1 <= k /\ k - 1 <= k - 1
        BY <2>3
      <3>2. prefix(A(k), k) /\ prefix(A(k - 1), k - 1)
        BY <1>4, <3>1
      <3> HIDE DEF prefix
      <3>3. A(k)[k - 1] = A(k - 1)[k - 1]
        BY <1>3, <3>1, <3>2
      <3> QED
        BY <2>1, <2>3, <3>1, <3>3
    <2> QED
      BY <2>2, <2>3
  <1>6. G = [k \in Nat |-> step(G, k)]
    BY <1>5
  <1> HIDE DEF G
  <1>7. \E f : f = [k \in Nat |-> step(f, k)]
    BY <1>6
  <1>8. chain(t, ext) = [k \in Nat |-> step(chain(t, ext), k)]
    BY <1>1, <1>7
  <1> QED
    BY <1>8 DEF next

LEMMA ChainFacts ==
  ASSUME NEW t, NEW ext
  PROVE  /\ chain(t, ext)[0] = ext
         /\ \A k \in Nat : chain(t, ext)[k + 1] = ext + t[chain(t, ext)[k]][2].start_sect
  <1> DEFINE c == chain(t, ext)
  <1>1. c = [k \in Nat |-> IF k = 0 THEN ext ELSE ext + t[c[k - 1]][2].start_sect]
    BY ChainEquation
  <1> HIDE DEF c
  <1>2. c[0] = ext
    BY <1>1
  <1>3. ASSUME NEW k \in Nat PROVE c[k + 1] = ext + t[c[k]][2].start_sect
    <2>1. k + 1 \in Nat /\ k + 1 # 0 /\ (k + 1) - 1 = k
      OBVIOUS
    <2>2. c[k + 1] = ext + t[c[(k + 1) - 1]][2].start_sect
      BY <1>1, <2>1
    <2> QED
      BY <2>1, <2>2
  <1> QED
    BY <1>2, <1>3 DEF c

(* Every chain ends, in one place.                                         *)
LEMMA ChainEnd ==
  ASSUME NEW t, NEW ext
  PROVE  /\ chain_end(t, ext) \in 0 .. NR_SUB_PER_PART - 1
         /\ chain_end(t, ext) = NR_SUB_PER_PART - 1
              \/ t[chain(t, ext)[chain_end(t, ext)]][2].sys_id = "none"
         /\ \A m \in 0 .. chain_end(t, ext) - 1 : t[chain(t, ext)[m]][2].sys_id # "none"
  <1> DEFINE last(k) == k = NR_SUB_PER_PART - 1 \/ t[chain(t, ext)[k]][2].sys_id = "none"
             S == {k \in 0 .. NR_SUB_PER_PART - 1 : last(k)}
  <1>1. S \in SUBSET Nat /\ NR_SUB_PER_PART - 1 \in S
    BY Constants
  <1>2. PICK k \in S : \A l \in S : k <= l
    BY <1>1, Least
  <1>3. \A m \in 0 .. k - 1 : m \notin S /\ m \in 0 .. NR_SUB_PER_PART - 1
    BY <1>2, Constants
  <1>4. /\ k \in 0 .. NR_SUB_PER_PART - 1 /\ last(k)
        /\ \A m \in 0 .. k - 1 : t[chain(t, ext)[m]][2].sys_id # "none"
    BY <1>2, <1>3
  <1> QED
    BY <1>4 DEF chain_end

LEMMA ChainEndIs ==
  ASSUME NEW t, NEW ext, NEW i \in 0 .. NR_SUB_PER_PART - 1,
         \A m \in 0 .. i - 1 : t[chain(t, ext)[m]][2].sys_id # "none"
  PROVE  /\ i <= chain_end(t, ext)
         /\ i = NR_SUB_PER_PART - 1 \/ t[chain(t, ext)[i]][2].sys_id = "none"
              => chain_end(t, ext) = i
  <1>1. PICK e : e = chain_end(t, ext)
    OBVIOUS
  <1>2. /\ e \in 0 .. NR_SUB_PER_PART - 1
        /\ e = NR_SUB_PER_PART - 1 \/ t[chain(t, ext)[e]][2].sys_id = "none"
        /\ \A m \in 0 .. e - 1 : t[chain(t, ext)[m]][2].sys_id # "none"
    BY <1>1, ChainEnd
  <1>3. i <= e
    <2> SUFFICES ASSUME e < i PROVE FALSE
      BY <1>2, Constants
    <2>1. e \in 0 .. i - 1 /\ e # NR_SUB_PER_PART - 1
      BY <1>2, Constants
    <2> QED
      BY <1>2, <2>1
  <1>4. ASSUME i = NR_SUB_PER_PART - 1 \/ t[chain(t, ext)[i]][2].sys_id = "none"
        PROVE  e = i
    <2> SUFFICES ASSUME i < e PROVE FALSE
      BY <1>2, <1>3, Constants
    <2>1. i \in 0 .. e - 1 /\ i # NR_SUB_PER_PART - 1
      BY <1>2, Constants
    <2> QED
      BY <1>2, <1>4, <2>1
  <1> QED
    BY <1>1, <1>3, <1>4

--------------------------------------------------------------------------------
(* hd_open().  The rows of the logical partitions of two entries, and of   *)
(* two tables of one, are different rows.                                  *)
LEMMA RowsDiffer ==
  ASSUME NEW e \in Entries, NEW j \in Entries,
         NEW k \in 0 .. NR_SUB_PER_PART - 1, NEW i \in 0 .. NR_SUB_PER_PART - 1
  PROVE  /\ (j - 1) * NR_SUB_PER_PART + i \in 0 .. NR_SUB_PER_DRIVE - 1
         /\ (e - 1) * NR_SUB_PER_PART + k = (j - 1) * NR_SUB_PER_PART + i => e = j /\ k = i
  <1> DEFINE N == NR_SUB_PER_PART
  <1>1. N \in Nat /\ N >= 1 /\ k \in 0 .. N - 1 /\ i \in 0 .. N - 1
    BY Constants
  <1>2. NR_SUB_PER_DRIVE = 4 * N
    BY <1>1 DEF NR_SUB_PER_DRIVE, NR_PART_PER_DRIVE
  <1>3. e \in {1, 2, 3, 4} /\ j \in {1, 2, 3, 4}
    BY DEF Entries, NR_PART_PER_DRIVE
  <1> HIDE DEF N
  <1>4. \A x \in {1, 2, 3, 4} : (x - 1) * N = IF x = 1 THEN 0 ELSE IF x = 2 THEN N
                                             ELSE IF x = 3 THEN 2 * N ELSE 3 * N
    BY <1>1
  <1>5. (j - 1) * N + i \in 0 .. NR_SUB_PER_DRIVE - 1
    BY <1>1, <1>2, <1>3, <1>4
  <1>6. (e - 1) * N + k = (j - 1) * N + i => e = j /\ k = i
    BY <1>1, <1>3, <1>4
  <1> QED
    BY <1>5, <1>6 DEF N

(* The next extended entry after the j-th.                                 *)
LEMMA NextExtended ==
  ASSUME NEW E \in SUBSET (1 .. 4), E # {}
  PROVE  Min(E) \in E /\ \A e \in E : Min(E) <= e
  <1>1. E \in SUBSET Nat
    OBVIOUS
  <1>2. PICK m \in E : \A e \in E : m <= e
    BY <1>1, Least
  <1> QED
    BY <1>2 DEF Min

(* partition() goes over the entries after the j-th.                       *)
LEMMA GoOnFinds ==
  ASSUME NEW j \in 0 .. NR_PART_PER_DRIVE, NEW info, Rows(info), UNCHANGED tables,
         Primaries(tables, info, j), Logicals(tables, info, j + 1, 0),
         part_tbl' = tables[0], GoOn(tables[0], j, info)
  PROVE  Found'
  <1> DEFINE tbl  == tables[0]
             E    == {e \in j + 1 .. NR_PART_PER_DRIVE : tbl[e].sys_id = "extended"}
             last == IF E = {} THEN NR_PART_PER_DRIVE ELSE Min(E)
             row(d) == [base |-> tbl[d].start_sect, size |-> tbl[d].nr_sects]
             new  == [d \in DOMAIN info.primary |->
                        IF d \in j + 1 .. last /\ tbl[d].sys_id # "none" THEN row(d)
                        ELSE info.primary[d]]
  <1>1. /\ hd_info' = [info EXCEPT !.primary = new]
        /\ IF E = {}
           THEN stage' = "calls"
           ELSE /\ stage' = "extended"
                /\ at' = [j |-> last, i |-> 0, s |-> tbl[last].start_sect]
                /\ get_part_table(tbl[last].start_sect)
    BY Zenon DEF GoOn
  <1>2. /\ last \in 1 .. 4 /\ j <= last /\ j \in 0 .. 4
        /\ E # {} => last \in E
        /\ \A e \in j + 1 .. 4 : tbl[e].sys_id = "extended" => E # {} /\ last <= e
    <2>1. E \in SUBSET (1 .. 4) /\ j \in 0 .. 4
      BY DEF NR_PART_PER_DRIVE
    <2>2. CASE E = {}
      BY <2>1, <2>2 DEF NR_PART_PER_DRIVE
    <2>3. CASE E # {}
      <3>1. Min(E) \in E /\ \A e \in E : Min(E) <= e
        BY <2>1, <2>3, NextExtended
      <3>2. PICK m : m = Min(E)
        OBVIOUS
      <3>3. m \in E /\ last = m /\ \A e \in E : m <= e
        BY <2>3, <3>1, <3>2
      <3> HIDE DEF last
      <3> QED
        BY <2>1, <2>3, <3>3 DEF NR_PART_PER_DRIVE
    <2> QED
      BY <2>2, <2>3
  <1>3. /\ hd_info'.logical = info.logical /\ hd_info'.primary = new /\ Rows(hd_info')
    <2> DEFINE p == [d \in 0 .. NR_PART_PER_DRIVE |-> info.primary[d]]
               l == [d \in 0 .. NR_SUB_PER_DRIVE - 1 |-> info.logical[d]]
    <2>1. info = [primary |-> p, logical |-> l]
      BY DEF Rows
    <2>2. p = info.primary /\ l = info.logical
      BY <2>1
    <2>3. hd_info' = [primary |-> new, logical |-> l]
      <3> HIDE DEF new, p, l
      <3> QED
        BY <1>1, <2>1
    <2>4. DOMAIN info.primary = 0 .. NR_PART_PER_DRIVE
      BY <2>2
    <2>5. new = [d \in 0 .. NR_PART_PER_DRIVE |-> new[d]]
      BY <2>4
    <2>6. l = [d \in 0 .. NR_SUB_PER_DRIVE - 1 |-> l[d]]
      OBVIOUS
    <2> HIDE DEF new, p, l
    <2>7. hd_info'.primary = new /\ hd_info'.logical = l
      BY <2>3
    <2>8. hd_info' = [primary |-> [d \in 0 .. NR_PART_PER_DRIVE |-> hd_info'.primary[d]],
                      logical |-> [d \in 0 .. NR_SUB_PER_DRIVE - 1 |-> hd_info'.logical[d]]]
      BY <2>3, <2>5, <2>6, <2>7
    <2> QED
      BY <2>2, <2>7, <2>8 DEF Rows
  <1>4. Primaries(tables, hd_info', last)
    <2> SUFFICES ASSUME NEW e \in Entries
                 PROVE  new[e] = IF e <= last /\ tbl[e].sys_id # "none" THEN row(e) ELSE no_part
      BY <1>3 DEF Primaries
    <2>1. e \in DOMAIN info.primary /\ e \in 1 .. 4
      <3>1. DOMAIN info.primary = 0 .. NR_PART_PER_DRIVE
        BY DEF Rows
      <3> QED
        BY <3>1 DEF Entries, NR_PART_PER_DRIVE
    <2>2. info.primary[e] = IF e <= j /\ tbl[e].sys_id # "none" THEN row(e) ELSE no_part
      BY DEF Primaries
    <2>3. new[e] = IF e \in j + 1 .. last /\ tbl[e].sys_id # "none" THEN row(e)
                   ELSE info.primary[e]
      BY <2>1
    <2> HIDE DEF tbl, new, row, last
    <2> QED
      BY <1>2, <2>1, <2>2, <2>3
  <1>5. ASSUME NEW e \in Entries, NEW k \in 0 .. NR_SUB_PER_PART - 1
        PROVE  hd_info'.logical[(e - 1) * NR_SUB_PER_PART + k] =
                 IF tbl[e].sys_id = "extended" /\ (E = {} \/ e < last)
                 THEN logicals(tables, tbl[e].start_sect, k) ELSE no_part
    <2>1. info.logical[(e - 1) * NR_SUB_PER_PART + k] =
            IF tbl[e].sys_id = "extended" /\ (e < j + 1 \/ (e = j + 1 /\ k < 0))
            THEN logicals(tables, tbl[e].start_sect, k) ELSE no_part
      BY DEF Logicals
    <2>2. ~(k < 0) /\ e \in 1 .. 4
      BY Constants DEF Entries, NR_PART_PER_DRIVE
    <2>3. tbl[e].sys_id = "extended" => (e < j + 1 <=> E = {} \/ e < last)
      <3> HIDE DEF tbl, E, last
      <3>1. CASE e < j + 1
        <4>1. CASE E = {}
          BY <3>1, <4>1
        <4>2. CASE E # {}
          <5>1. last \in j + 1 .. 4
            BY <1>2, <4>2 DEF E, NR_PART_PER_DRIVE
          <5> QED
            BY <1>2, <2>2, <3>1, <5>1
        <4> QED
          BY <4>1, <4>2
      <3>2. CASE ~(e < j + 1)
        BY <1>2, <2>2, <3>2
      <3> QED
        BY <3>1, <3>2
    <2> HIDE DEF tbl, E, last
    <2> QED
      BY <1>3, <2>1, <2>2, <2>3
  <1>6. CASE E = {}
    <2>1. \A e \in Entries : e <= last
      BY <1>6 DEF Entries
    <2>2. PartitionsFound'
      <3> SUFFICES ASSUME NEW e \in Entries
                   PROVE  /\ hd_info'.primary[e] = IF tbl[e].sys_id = "none" THEN no_part
                                                    ELSE row(e)
                          /\ \A k \in 0 .. NR_SUB_PER_PART - 1 :
                               hd_info'.logical[(e - 1) * NR_SUB_PER_PART + k] =
                                 IF tbl[e].sys_id = "extended"
                                 THEN logicals(tables, tbl[e].start_sect, k) ELSE no_part
        BY DEF PartitionsFound
      <3>1. hd_info'.primary[e] = IF e <= last /\ tbl[e].sys_id # "none" THEN row(e) ELSE no_part
        BY <1>4 DEF Primaries
      <3> HIDE DEF tbl, E, last, row
      <3> QED
        BY <1>5, <1>6, <2>1, <3>1
    <2> QED
      BY <1>1, <1>3, <1>6, <2>2 DEF Found
  <1>7. CASE E # {}
    <2> DEFINE a == [j |-> last, i |-> 0, s |-> tbl[last].start_sect]
    <2>1. /\ stage' = "extended" /\ at' = a /\ drive' = accepted("read", tbl[last].start_sect, 1)
      BY <1>1, <1>7 DEF get_part_table, hd_cmd_out
    <2>2. drive'.sect = tbl[last].start_sect
      BY <2>1 DEF accepted
    <2>3. InChain(tables, a)
      <3>1. a.j = last /\ a.i = 0 /\ a.s = tbl[last].start_sect
        OBVIOUS
      <3>2. chain(tables, tbl[last].start_sect)[0] = tbl[last].start_sect
        BY ChainFacts
      <3>3. last \in Entries /\ tbl[last].sys_id = "extended" /\ 0 \in 0 .. NR_SUB_PER_PART - 1
        BY <1>2, <1>7, Constants DEF Entries, NR_PART_PER_DRIVE
      <3>4. \A m \in 0 .. 0 - 1 : FALSE
        OBVIOUS
      <3> HIDE DEF last, E
      <3> QED
        BY <3>1, <3>2, <3>3, <3>4 DEF InChain
    <2>4. Logicals(tables, hd_info', last, 0)
      <3> SUFFICES ASSUME NEW e \in Entries, NEW k \in 0 .. NR_SUB_PER_PART - 1
                   PROVE  hd_info'.logical[(e - 1) * NR_SUB_PER_PART + k] =
                            IF tbl[e].sys_id = "extended" /\ (e < last \/ (e = last /\ k < 0))
                            THEN logicals(tables, tbl[e].start_sect, k) ELSE no_part
        BY DEF Logicals
      <3>1. ~(k < 0)
        BY Constants
      <3> HIDE DEF tbl, E, last
      <3> QED
        BY <1>5, <1>7, <3>1
    <2>5. a.j = last /\ a.i = 0 /\ a.s = tbl[last].start_sect
      OBVIOUS
    <2>6. stage' \notin {"identify", "primary", "calls"}
      BY <2>1
    <2> HIDE DEF a, last, E, new
    <2> QED
      BY <1>3, <1>4, <2>1, <2>2, <2>3, <2>4, <2>5, <2>6 DEF Found, PartitionsFound
  <1> QED
    BY <1>6, <1>7

(* The sector that was waited for at boot is the table.                    *)
LEMMA TableRead ==
  ASSUME DInv, BootData
  PROVE  table_read = tables[drive.sect]
  BY BootShape DEF table_read

LEMMA IdentifiedFinds ==
  ASSUME Found, Identified, UNCHANGED tables
  PROVE  Found'
  <1>1. /\ stage = "identify" /\ stage' = "primary" /\ drive' = accepted("read", 0, 1)
        /\ hd_info' = [hd_info EXCEPT !.primary[0] = [base |-> 0, size |-> NR_SECTORS]]
    BY DEF Identified, get_part_table, hd_cmd_out
  <1>2. drive'.sect = 0
    BY <1>1 DEF accepted
  <1> DEFINE p == [d \in 0 .. NR_PART_PER_DRIVE |-> hd_info.primary[d]]
             l == [d \in 0 .. NR_SUB_PER_DRIVE - 1 |-> hd_info.logical[d]]
             q == [p EXCEPT ![0] = [base |-> 0, size |-> NR_SECTORS]]
  <1>3. hd_info = [primary |-> p, logical |-> l] /\ p = hd_info.primary /\ l = hd_info.logical
    <2>1. hd_info = [primary |-> p, logical |-> l]
      BY DEF Found, Rows
    <2> HIDE DEF p, l
    <2> QED
      BY <2>1
  <1>4. /\ q = [d \in 0 .. NR_PART_PER_DRIVE |-> q[d]]
        /\ l = [d \in 0 .. NR_SUB_PER_DRIVE - 1 |-> l[d]]
        /\ \A e \in Entries : q[e] = p[e]
    BY DEF Entries, NR_PART_PER_DRIVE
  <1>5. hd_info' = [hd_info EXCEPT !.primary = q]
    BY <1>1, <1>3
  <1> HIDE DEF p, l, q
  <1>6. hd_info' = [primary |-> q, logical |-> l]
    BY <1>3, <1>5
  <1>7. Rows(hd_info')
    BY <1>4, <1>6 DEF Rows
  <1>8. /\ \A e \in Entries : hd_info'.primary[e] = hd_info.primary[e]
        /\ hd_info'.logical = hd_info.logical
    BY <1>3, <1>4, <1>6
  <1>9. Primaries(tables, hd_info', 0) /\ Logicals(tables, hd_info', 1, 0)
    BY <1>1, <1>8 DEF Found, Primaries, Logicals
  <1> QED
    BY <1>1, <1>2, <1>7, <1>9 DEF Found, PartitionsFound

LEMMA PrimaryFinds ==
  ASSUME Found, Primary, table_read = tables[drive.sect], UNCHANGED tables
  PROVE  Found'
  <1>1. /\ stage = "primary" /\ table_read = tables[0] /\ part_tbl' = tables[0]
        /\ GoOn(tables[0], 0, hd_info)
    BY DEF Primary, Found
  <1>2. Rows(hd_info) /\ Primaries(tables, hd_info, 0) /\ Logicals(tables, hd_info, 0 + 1, 0)
    BY <1>1 DEF Found
  <1>3. 0 \in 0 .. NR_PART_PER_DRIVE
    BY DEF NR_PART_PER_DRIVE
  <1> QED
    BY <1>1, <1>2, <1>3, GoOnFinds

(* One more logical partition is known.                                    *)
LEMMA OneMore ==
  ASSUME NEW j \in Entries, NEW i \in 0 .. NR_SUB_PER_PART - 1, NEW h, NEW new,
         Rows(h), Primaries(tables, h, j), Logicals(tables, h, j, i),
         tables[0][j].sys_id = "extended",
         new = logicals(tables, tables[0][j].start_sect, i)
  PROVE  LET g == [h EXCEPT !.logical[(j - 1) * NR_SUB_PER_PART + i] = new]
         IN  Rows(g) /\ Primaries(tables, g, j) /\ Logicals(tables, g, j, i + 1)
  <1> DEFINE r == (j - 1) * NR_SUB_PER_PART + i
             p == [d \in 0 .. NR_PART_PER_DRIVE |-> h.primary[d]]
             l == [d \in 0 .. NR_SUB_PER_DRIVE - 1 |-> h.logical[d]]
             m == [l EXCEPT ![r] = new]
             g == [h EXCEPT !.logical[r] = new]
  <1>1. h = [primary |-> p, logical |-> l] /\ p = h.primary /\ l = h.logical
    <2>1. h = [primary |-> p, logical |-> l]
      BY DEF Rows
    <2> HIDE DEF p, l
    <2> QED
      BY <2>1
  <1>2. r \in 0 .. NR_SUB_PER_DRIVE - 1
    BY RowsDiffer
  <1>3. g = [h EXCEPT !.logical = m]
    BY <1>1
  <1>4. /\ p = [d \in 0 .. NR_PART_PER_DRIVE |-> p[d]]
        /\ m = [d \in 0 .. NR_SUB_PER_DRIVE - 1 |-> m[d]]
        /\ \A d \in 0 .. NR_SUB_PER_DRIVE - 1 : m[d] = IF d = r THEN new ELSE l[d]
    OBVIOUS
  <1> HIDE DEF r, p, l, m, g
  <1>5. g = [primary |-> p, logical |-> m]
    BY <1>1, <1>3
  <1>6. Rows(g) /\ g.primary = h.primary /\ g.logical = m
    BY <1>1, <1>4, <1>5 DEF Rows
  <1>7. Primaries(tables, g, j)
    BY <1>6 DEF Primaries
  <1>8. ASSUME NEW e \in Entries, NEW k \in 0 .. NR_SUB_PER_PART - 1
        PROVE  m[(e - 1) * NR_SUB_PER_PART + k] =
                 IF tables[0][e].sys_id = "extended" /\ (e < j \/ (e = j /\ k < i + 1))
                 THEN logicals(tables, tables[0][e].start_sect, k) ELSE no_part
    <2> DEFINE d == (e - 1) * NR_SUB_PER_PART + k
    <2>1. d \in 0 .. NR_SUB_PER_DRIVE - 1 /\ (d = r <=> e = j /\ k = i)
      BY RowsDiffer DEF r
    <2>2. l[d] = IF tables[0][e].sys_id = "extended" /\ (e < j \/ (e = j /\ k < i))
                 THEN logicals(tables, tables[0][e].start_sect, k) ELSE no_part
      BY <1>1 DEF Logicals
    <2>3. k \in Int /\ i \in Int /\ e \in Int /\ j \in Int
      BY Constants DEF Entries, NR_PART_PER_DRIVE
    <2> HIDE DEF d
    <2>4. CASE e = j /\ k = i
      BY <1>4, <2>1, <2>3, <2>4 DEF d
    <2>5. CASE ~(e = j /\ k = i)
      <3>1. m[d] = l[d]
        BY <1>4, <2>1, <2>5
      <3>2. (e = j /\ k < i + 1) <=> (e = j /\ k < i)
        BY <2>3, <2>5
      <3> QED
        BY <2>2, <3>1, <3>2 DEF d
    <2> QED
      BY <2>4, <2>5 DEF d
  <1>9. Logicals(tables, g, j, i + 1)
    BY <1>6, <1>8 DEF Logicals
  <1> QED
    BY <1>6, <1>7, <1>9 DEF g, r

LEMMA ExtendedFinds ==
  ASSUME Found, Extended, table_read = tables[drive.sect], UNCHANGED tables
  PROVE  Found'
  <1> DEFINE tbl  == table_read
             ext  == tables[0][at.j].start_sect
             new  == [base |-> at.s + tbl[1].start_sect, size |-> tbl[1].nr_sects]
             info == [hd_info EXCEPT !.logical[(at.j - 1) * NR_SUB_PER_PART + at.i] = new]
             ends == tbl[2].sys_id = "none" \/ at.i + 1 = NR_SUB_PER_PART
  <1>1. /\ stage = "extended" /\ part_tbl' = part_tbl
        /\ IF ends THEN GoOn(part_tbl, at.j, info)
           ELSE /\ hd_info' = info
                /\ at' = [at EXCEPT !.i = @ + 1, !.s = chained(tbl)]
                /\ get_part_table(chained(tbl))
                /\ UNCHANGED stage
    BY DEF Extended
  <1>2. /\ Rows(hd_info) /\ part_tbl = tables[0] /\ InChain(tables, at) /\ drive.sect = at.s
        /\ Primaries(tables, hd_info, at.j) /\ Logicals(tables, hd_info, at.j, at.i)
    BY <1>1 DEF Found
  <1>3. /\ at = [j |-> at.j, i |-> at.i, s |-> at.s]
        /\ at.j \in Entries /\ at.i \in 0 .. NR_SUB_PER_PART - 1
        /\ at.s = chain(tables, ext)[at.i] /\ tbl = tables[at.s]
        /\ tables[0][at.j].sys_id = "extended"
        /\ \A m \in 0 .. at.i - 1 : tables[chain(tables, ext)[m]][2].sys_id # "none"
    BY <1>2 DEF InChain
  <1>4. PICK i \in Nat : i = at.i
    BY <1>3, Constants
  <1>5. /\ i <= chain_end(tables, ext) /\ chain_end(tables, ext) \in Nat
        /\ ends => chain_end(tables, ext) = i
    <2>1. i \in 0 .. NR_SUB_PER_PART - 1
      BY <1>3, <1>4
    <2>2. ends => i = NR_SUB_PER_PART - 1 \/ tables[chain(tables, ext)[i]][2].sys_id = "none"
      <3>1. i + 1 = NR_SUB_PER_PART => i = NR_SUB_PER_PART - 1
        BY Constants
      <3>2. tbl = tables[chain(tables, ext)[i]]
        BY <1>3, <1>4
      <3> HIDE DEF tbl, ext
      <3> QED
        BY <1>4, <3>1, <3>2
    <2>3. /\ i <= chain_end(tables, ext)
          /\ i = NR_SUB_PER_PART - 1 \/ tables[chain(tables, ext)[i]][2].sys_id = "none"
               => chain_end(tables, ext) = i
      <3> HIDE DEF ext
      <3> QED
        BY <1>3, <1>4, <2>1, ChainEndIs
    <2>4. chain_end(tables, ext) \in Nat
      BY ChainEnd, Constants
    <2> HIDE DEF ends
    <2> QED
      BY <2>2, <2>3, <2>4
  <1>6. new = logicals(tables, ext, i)
    <2>1. ~(i > chain_end(tables, ext))
      BY <1>5
    <2> HIDE DEF ext
    <2> QED
      BY <1>3, <1>4, <2>1 DEF logicals
  <1>7. Rows(info) /\ Primaries(tables, info, at.j) /\ Logicals(tables, info, at.j, i + 1)
    <2> HIDE DEF new, tbl
    <2> QED
      BY <1>2, <1>3, <1>4, <1>6, OneMore
  <1>8. CASE ends
    <2>1. Logicals(tables, info, at.j + 1, 0)
      <3> SUFFICES ASSUME NEW e \in Entries, NEW k \in 0 .. NR_SUB_PER_PART - 1
                   PROVE  info.logical[(e - 1) * NR_SUB_PER_PART + k] =
                            IF tables[0][e].sys_id = "extended"
                               /\ (e < at.j + 1 \/ (e = at.j + 1 /\ k < 0))
                            THEN logicals(tables, tables[0][e].start_sect, k) ELSE no_part
        BY DEF Logicals
      <3>1. info.logical[(e - 1) * NR_SUB_PER_PART + k] =
              IF tables[0][e].sys_id = "extended" /\ (e < at.j \/ (e = at.j /\ k < i + 1))
              THEN logicals(tables, tables[0][e].start_sect, k) ELSE no_part
        BY <1>7 DEF Logicals
      <3>2. k \in Nat /\ e \in Nat /\ at.j \in Nat
        BY <1>3, Constants DEF Entries, NR_PART_PER_DRIVE
      <3>3. ASSUME e = at.j, ~(k < i + 1)
            PROVE  logicals(tables, tables[0][e].start_sect, k) = no_part
        <4>1. k > chain_end(tables, ext)
          BY <1>5, <1>8, <3>2, <3>3
        <4> QED
          BY <3>3, <4>1 DEF logicals
      <3> HIDE DEF info
      <3> QED
        BY <3>1, <3>2, <3>3
    <2>2. at.j \in 0 .. NR_PART_PER_DRIVE /\ part_tbl' = tables[0] /\ GoOn(tables[0], at.j, info)
      <3>1. at.j \in 0 .. NR_PART_PER_DRIVE
        BY <1>3 DEF Entries, NR_PART_PER_DRIVE
      <3> HIDE DEF info, ends
      <3> QED
        BY <1>1, <1>2, <1>8, <3>1
    <2> HIDE DEF info
    <2> QED
      BY <1>7, <2>1, <2>2, GoOnFinds
  <1>9. CASE ~ends
    <2> DEFINE s == chained(tbl)
               a == [j |-> at.j, i |-> i + 1, s |-> s]
    <2>1. /\ hd_info' = info /\ at' = [at EXCEPT !.i = i + 1, !.s = s]
          /\ drive' = accepted("read", s, 1) /\ stage' = "extended" /\ part_tbl' = tables[0]
      BY <1>1, <1>2, <1>4, <1>9 DEF get_part_table, hd_cmd_out
    <2>2. at' = a
      <3> DEFINE b == [j |-> at.j, i |-> at.i, s |-> at.s]
      <3>1. at' = [b EXCEPT !.i = i + 1, !.s = s]
        BY <1>3, <2>1
      <3> HIDE DEF s
      <3> QED
        BY <3>1
    <2>3. drive'.sect = s
      BY <2>1 DEF accepted
    <2>4. s = chain(tables, ext)[i + 1]
      <3>1. hd_info.primary[at.j].base = ext
        <4>1. /\ hd_info.primary[at.j] =
                   IF at.j <= at.j /\ tables[0][at.j].sys_id # "none"
                   THEN [base |-> tables[0][at.j].start_sect, size |-> tables[0][at.j].nr_sects]
                   ELSE no_part
          BY <1>2, <1>3 DEF Primaries
        <4>2. at.j <= at.j /\ tables[0][at.j].sys_id # "none"
          BY <1>3 DEF Entries, NR_PART_PER_DRIVE
        <4> QED
          BY <4>1, <4>2
      <3>2. chain(tables, ext)[i + 1] = ext + tables[chain(tables, ext)[i]][2].start_sect
        BY ChainFacts
      <3> HIDE DEF ext
      <3> QED
        BY <1>3, <1>4, <3>1, <3>2 DEF chained
    <2>5. InChain(tables, a)
      <3>1. i + 1 \in 0 .. NR_SUB_PER_PART - 1
        <4>1. i \in 0 .. NR_SUB_PER_PART - 1 /\ i + 1 # NR_SUB_PER_PART
          BY <1>3, <1>4, <1>9
        <4> QED
          BY <4>1, Constants
      <3>2. ASSUME NEW m \in 0 .. (i + 1) - 1
            PROVE  tables[chain(tables, ext)[m]][2].sys_id # "none"
        <4>1. m = i \/ m \in 0 .. at.i - 1
          BY <1>4
        <4>2. tables[chain(tables, ext)[i]][2].sys_id # "none"
          BY <1>3, <1>4, <1>9
        <4> QED
          BY <1>3, <4>1, <4>2
      <3>3. a.j = at.j /\ a.i = i + 1 /\ a.s = s /\ a = [j |-> a.j, i |-> a.i, s |-> a.s]
        OBVIOUS
      <3> HIDE DEF a, s
      <3> QED
        BY <1>3, <2>4, <3>1, <3>2, <3>3 DEF InChain
    <2>6. a.j = at.j /\ a.i = i + 1 /\ a.s = s
      OBVIOUS
    <2> HIDE DEF a, s, info
    <2> QED
      BY <1>7, <2>1, <2>2, <2>3, <2>5, <2>6 DEF Found, PartitionsFound
  <1> QED
    BY <1>8, <1>9

(* Nothing else changes what is known, or sends the drive elsewhere while  *)
(* a table is waited for.                                                  *)
LEMMA StillFound ==
  ASSUME Found, UNCHANGED <<tables, boot>>,
         stage \in {"primary", "extended"} => drive'.sect = drive.sect
  PROVE  Found'
  BY DEF Found, PartitionsFound, boot

LEMMA OthersFind ==
  ASSUME DInv, Found, [Next]_vars, ~BootData
  PROVE  Found'
  <1>1. CASE Identify
    <2>1. stage = "identify" /\ UNCHANGED <<tables, boot>>
      BY <1>1 DEF Identify, DInv, Position
    <2> QED
      BY <2>1, StillFound
  <1>2. CASE Wait \/ Clear \/ Loop \/ ReadStatus \/ Interrupt \/ UNCHANGED vars
    <2>1. UNCHANGED <<tables, boot, drive>>
      BY <1>2 DEF Wait, Clear, Loop, ReadStatus, Interrupt, vars, device
    <2> QED
      BY <2>1, StillFound
  <1>3. CASE ReadData \/ WriteData \/ \E c \in CallsOn(get_geo(ROOT_DEV).size) : Call(c)
    <2>1. stage = "calls" /\ UNCHANGED <<tables, boot>>
      BY <1>3 DEF ReadData, WriteData, Call, DInv, Position
    <2> QED
      BY <2>1, StillFound
  <1>4. CASE Drive
    <2>1. UNCHANGED <<tables, boot>> /\ Types
      BY <1>4 DEF Drive, DriveReads, DriveAsks, DriveWrites, DInv
    <2>2. CASE DriveReads \/ DriveAsks
      <3>1. drive'.sect = drive.sect
        BY <2>1, <2>2, DriveState DEF DriveReads, DriveAsks
      <3> QED
        BY <2>1, <3>1, StillFound
    <2>3. CASE DriveWrites
      <3>1. stage = "calls"
        BY <2>3, DriveWritesShape DEF DInv, Position
      <3> QED
        BY <2>1, <3>1, StillFound
    <2> QED
      BY <1>4, <2>2, <2>3 DEF Drive
  <1> QED
    BY <1>1, <1>2, <1>3, <1>4 DEF Next, Kernel

LEMMA NextFound ==
  ASSUME DInv, Found, [Next]_vars
  PROVE  Found'
  <1>1. CASE BootData
    <2>1. table_read = tables[drive.sect] /\ UNCHANGED tables
      BY <1>1, TableRead, BootShape
    <2> QED
      BY <1>1, <2>1, IdentifiedFinds, PrimaryFinds, ExtendedFinds DEF BootData
  <1> QED
    BY <1>1, OthersFind

LEMMA InitFound == Init => Found
  <1> SUFFICES ASSUME Init PROVE Found
    OBVIOUS
  <1>1. /\ hd_info.primary = [d \in 0 .. NR_PART_PER_DRIVE |-> no_part]
        /\ hd_info.logical = [d \in 0 .. NR_SUB_PER_DRIVE - 1 |-> no_part]
        /\ hd_info = [primary |-> hd_info.primary, logical |-> hd_info.logical]
        /\ stage = "identify"
    BY DEF Init
  <1>2. Rows(hd_info)
    BY <1>1 DEF Rows
  <1>3. Primaries(tables, hd_info, 0)
    BY <1>1 DEF Primaries, Entries, NR_PART_PER_DRIVE
  <1>4. Logicals(tables, hd_info, 1, 0)
    <2> SUFFICES ASSUME NEW e \in Entries, NEW k \in 0 .. NR_SUB_PER_PART - 1
                 PROVE  /\ hd_info.logical[(e - 1) * NR_SUB_PER_PART + k] = no_part
                        /\ ~(e < 1 \/ (e = 1 /\ k < 0))
      BY DEF Logicals
    <2>1. (e - 1) * NR_SUB_PER_PART + k \in 0 .. NR_SUB_PER_DRIVE - 1
      BY RowsDiffer
    <2>2. ~(e < 1 \/ (e = 1 /\ k < 0))
      BY Constants DEF Entries, NR_PART_PER_DRIVE
    <2> QED
      BY <1>1, <2>1, <2>2
  <1> QED
    BY <1>1, <1>2, <1>3, <1>4 DEF Found, PartitionsFound

(* The root device is where the tables say: the first logical partition of *)
(* the third entry.                                                        *)
LEMMA ModSmall ==
  ASSUME NEW a \in Nat, NEW b \in Nat, a < b
  PROVE  a % b = a
  <1> DEFINE q == a \div b
             r == a % b
  <1>1. q \in Nat /\ r \in Nat
    OBVIOUS
  <1>2. a = b * (a \div b) + (a % b)
    BY SMTT(30)
  <1>3. a = b * q + r
    BY <1>2
  <1> HIDE DEF q, r
  <1>4. q = 0
    <2> SUFFICES ASSUME q >= 1 PROVE FALSE
      BY <1>1
    <2>1. b * q >= b * 1 /\ b * q \in Nat
      BY <1>1
    <2> QED
      BY <1>1, <1>3, <2>1
  <1>5. b * 0 = 0
    OBVIOUS
  <1> QED
    BY <1>1, <1>3, <1>4, <1>5 DEF r

LEMMA RootFound ==
  ASSUME DInv, Found, stage = "calls"
  PROVE  get_geo(ROOT_DEV) = root(tables)
  <1> DEFINE ext == tables[0][3].start_sect
  <1>1. ~(ROOT_DEV < MAX_PRIM)
    BY Constants, HardDiskAssumption
    DEF MINOR_hd1a, MAX_PRIM, MAX_DRIVES, NR_PRIM_PER_DRIVE, NR_PART_PER_DRIVE
  <1>2. (ROOT_DEV - MINOR_hd1a) % NR_SUB_PER_DRIVE = (3 - 1) * NR_SUB_PER_PART + 0
    <2> DEFINE N == NR_SUB_PER_PART
    <2>1. N \in Nat /\ N >= 1
      BY Constants
    <2>2. ROOT_DEV - MINOR_hd1a = 2 * N /\ NR_SUB_PER_DRIVE = 4 * N
      BY <2>1, HardDiskAssumption DEF MINOR_hd1a, NR_SUB_PER_DRIVE, NR_PART_PER_DRIVE
    <2> HIDE DEF N
    <2>3. 2 * N \in Nat /\ 4 * N \in Nat /\ 2 * N < 4 * N /\ (3 - 1) * N + 0 = 2 * N
      BY <2>1
    <2>4. (2 * N) % (4 * N) = 2 * N
      BY <2>3, ModSmall
    <2> QED
      BY <2>2, <2>3, <2>4 DEF N
  <1>3. 3 \in Entries /\ 0 \in 0 .. NR_SUB_PER_PART - 1
    BY Constants DEF Entries, NR_PART_PER_DRIVE
  <1>4. tables[0][3].sys_id = "extended"
    BY RootPartition DEF DInv, Types
  <1>5. PartitionsFound
    BY DEF Found
  <1>6. hd_info.logical[(3 - 1) * NR_SUB_PER_PART + 0] = logicals(tables, ext, 0)
    BY <1>3, <1>4, <1>5 DEF PartitionsFound
  <1>7. ~(0 > chain_end(tables, ext)) /\ chain(tables, ext)[0] = ext
    <2>1. chain_end(tables, ext) \in Nat
      BY ChainEnd, Constants
    <2>2. chain(tables, ext)[0] = ext
      BY ChainFacts
    <2> QED
      BY <2>1, <2>2
  <1>8. logicals(tables, ext, 0) = root(tables)
    BY <1>7 DEF logicals, root
  <1> QED
    BY <1>1, <1>2, <1>6, <1>8 DEF get_geo

LEMMA NextIInv == IInv /\ [Next]_vars => IInv'
  BY NextDInv, NextFound, RootFound DEF IInv

--------------------------------------------------------------------------------
THEOREM HardDiskInvariance == Spec => []IInv
  <1>1. Init => IInv
    BY InitDInv, InitFound DEF IInv
  <1> QED
    BY <1>1, NextIInv, PTL DEF Spec

(* hd_open() ends with the partitions that the tables on the drive         *)
(* describe, each in its row, and no others: along every chain of tables,  *)
(* for any order in which the drive, its interrupts and the reads come.    *)
THEOREM FindsPartitions == Spec => []PartitionsFound
  <1>1. IInv => PartitionsFound
    BY DEF IInv, Found
  <1> QED
    BY <1>1, HardDiskInvariance, PTL

--------------------------------------------------------------------------------
(* hd_rdwt_block() is a block device.  What it has moved of a write is     *)
(* what the drive has stored.                                              *)
through == IF call.rw = "write"
           THEN sectors_of(count_register(call.count)) - drive.left ELSE moved

LEMMA ThroughIs ==
  ASSUME DInv
  PROVE  /\ call.rw = "write" => through = behind
         /\ call.rw # "write" => through = moved
  BY AskedFacts DEF through, asked, behind

(* The sectors of the root device are sectors of the drive.                *)
LEMMA Absolute ==
  ASSUME NEW t \in Layouts, NEW c \in CallsOn(root(t).size)
  PROVE  LET a == [c EXCEPT !.sect = @ + root(t).base]
         IN  /\ a \in CallsOn(NR_SECTORS) /\ a # NoCall
             /\ a.rw = c.rw /\ a.count = c.count /\ a.data = c.data
             /\ a.sect = c.sect + root(t).base
  <1> DEFINE size == root(t).size
             base == root(t).base
             a    == [c EXCEPT !.sect = c.sect + base]
  <1>1. /\ size \in Nat /\ base \in Nat /\ NR_SECTORS \in Nat /\ base + size <= NR_SECTORS
    BY RootPartition
  <1>2. PICK n \in 1 .. MaxCount :
          \/ c \in [rw : {"read"}, sect : 0 .. size - n, count : {n}, data : {<< >>}]
          \/ c \in [rw : {"write"}, sect : 0 .. size - n, count : {n}, data : [1 .. n -> Data]]
    BY DEF CallsOn
  <1> HIDE DEF size, base
  <1>3. /\ c.sect \in 0 .. size - n /\ c.count = n /\ n \in Nat
        /\ c = [rw |-> c.rw, sect |-> c.sect, count |-> c.count, data |-> c.data]
        /\ \/ c.rw = "read" /\ c.data \in {<< >>}
           \/ c.rw = "write" /\ c.data \in [1 .. n -> Data]
    BY <1>2, Constants
  <1>4. a = [rw |-> c.rw, sect |-> c.sect + base, count |-> c.count, data |-> c.data]
    <2> DEFINE r == [rw |-> c.rw, sect |-> c.sect, count |-> c.count, data |-> c.data]
    <2>1. a = [r EXCEPT !.sect = c.sect + base]
      BY <1>3
    <2> HIDE DEF a
    <2> QED
      BY <2>1
  <1>5. c.sect + base \in 0 .. NR_SECTORS - n
    BY <1>1, <1>3
  <1> HIDE DEF a
  <1>6. /\ a.rw = c.rw /\ a.count = c.count /\ a.data = c.data /\ a.sect = c.sect + base
    BY <1>4
  <1>7. a # NoCall
    BY <1>3, <1>6 DEF NoCall
  <1>8. \/ a \in [rw : {"read"}, sect : 0 .. NR_SECTORS - n, count : {n}, data : {<< >>}]
        \/ a \in [rw : {"write"}, sect : 0 .. NR_SECTORS - n, count : {n}, data : [1 .. n -> Data]]
    BY <1>3, <1>4, <1>5
  <1>9. a \in CallsOn(NR_SECTORS)
    BY <1>8 DEF CallsOn
  <1> QED
    BY <1>6, <1>7, <1>9 DEF a, base

LEMMA AbsoluteCall ==
  ASSUME DInv
  PROVE  /\ call = NoCall => absolute(call) = NoCall
         /\ call # NoCall =>
              /\ absolute(call) # NoCall
              /\ absolute(call).rw = call.rw /\ absolute(call).count = call.count
              /\ absolute(call).data = call.data
              /\ absolute(call).sect = call.sect + root(tables).base
  <1>1. call # NoCall => tables \in Layouts /\ call \in CallsOn(root(tables).size)
    BY DEF DInv, Types, Position
  <1> QED
    BY <1>1, Absolute DEF absolute, RootBase

(* Steps that move no sector and begin or end no call.                     *)
LEMMA Unmoved ==
  ASSUME UNCHANGED <<tables, media, call, result>>, through' = through
  PROVE  UNCHANGED Device!vars
  <1>1. absolute(call)' = absolute(call)
    BY DEF absolute, RootBase
  <1> QED
    BY <1>1 DEF Device!vars, through

LEMMA KernelUnmoved ==
  ASSUME DInv,
         Identify \/ Wait \/ Clear \/ BootData \/ ReadStatus \/ WriteData
         \/ (Loop /\ moved < call.count)
  PROVE  UNCHANGED Device!vars
  <1>1. CASE Identify \/ BootData
    <2>1. call = NoCall /\ UNCHANGED <<tables, media, call, moved, result>>
      BY <1>1, BootShape DEF Identify, DInv, Position
    <2>2. through' = through
      BY <2>1 DEF through, NoCall
    <2> QED
      BY <2>1, <2>2, Unmoved
  <1>2. CASE Wait \/ ReadStatus \/ (Loop /\ moved < call.count)
    <2>1. UNCHANGED <<tables, media, drive, call, moved, result>>
      BY <1>2 DEF Wait, ReadStatus, Loop, device
    <2>2. through' = through
      BY <2>1 DEF through
    <2> QED
      BY <2>1, <2>2, Unmoved
  <1>3. CASE Clear
    <2>1. UNCHANGED <<tables, media, drive, call, result>> /\ (call.rw = "write" \/ moved' = moved)
      BY <1>3 DEF Clear, device
    <2>2. through' = through
      BY <2>1 DEF through
    <2> QED
      BY <2>1, <2>2, Unmoved
  <1>4. CASE WriteData
    <2>1. UNCHANGED <<tables, media, call, moved, result>> /\ Types
      BY <1>4 DEF WriteData, DInv
    <2>2. drive'.left = drive.left
      BY <1>4, <2>1, DriveShape DEF WriteData
    <2>3. through' = through
      BY <2>1, <2>2 DEF through
    <2> QED
      BY <2>1, <2>3, Unmoved
  <1> QED
    BY <1>1, <1>2, <1>3, <1>4

LEMMA DeviceUnmoved ==
  ASSUME DInv, Interrupt \/ (Drive /\ ~DriveWrites) \/ UNCHANGED vars
  PROVE  UNCHANGED Device!vars
  <1>1. UNCHANGED <<tables, media, call, moved, result>> /\ Types
    BY DEF Interrupt, Drive, DriveReads, DriveAsks, vars, device, DInv
  <1>2. drive'.left = drive.left
    <2>1. CASE Interrupt \/ UNCHANGED vars
      BY <2>1 DEF Interrupt, vars, device
    <2>2. CASE DriveReads \/ DriveAsks
      BY <1>1, <2>2, DriveState DEF DriveReads, DriveAsks
    <2> QED
      BY <2>1, <2>2 DEF Drive
  <1>3. through' = through
    BY <1>1, <1>2 DEF through
  <1> QED
    BY <1>1, <1>3, Unmoved

LEMMA CallBegins ==
  ASSUME DInv, get_geo(ROOT_DEV) = root(tables),
         NEW c \in CallsOn(get_geo(ROOT_DEV).size), Call(c)
  PROVE  Device!Call
  <1> DEFINE n == count_register(c.count)
  <1>1. /\ pc = "idle" /\ call' = c /\ moved' = 0 /\ result' = << >>
        /\ drive' = accepted(c.rw, c.sect + get_geo(ROOT_DEV).base, n)
        /\ UNCHANGED <<tables, media>>
    BY DEF Call, hd_cmd_out
  <1>2. call = NoCall /\ tables \in Layouts /\ Types
    BY <1>1 DEF DInv, Types, Position
  <1>3. /\ c \in CallsOn(root(tables).size) /\ c # NoCall
        /\ c.rw \in {"read", "write"} /\ c.count \in Nat /\ c.count >= 1
    BY <1>2, RootPartition, CallFacts
  <1>4. n \in Nat /\ sectors_of(n) \in Nat
    BY <1>3, Register, Constants DEF count_register
  <1>5. drive'.left = sectors_of(n)
    <2> HIDE DEF n
    <2> QED
      BY <1>1 DEF accepted
  <1>6. through' = 0
    BY <1>1, <1>4, <1>5 DEF through
  <1>7. absolute(call)' \in CallsOn(NR_SECTORS)
    <2>1. absolute(call)' = [c EXCEPT !.sect = @ + root(tables).base]
      BY <1>1, <1>3 DEF absolute, RootBase
    <2> QED
      BY <1>2, <1>3, <2>1, Absolute
  <1>8. absolute(call) = NoCall
    BY <1>2 DEF absolute
  <1> QED
    BY <1>1, <1>6, <1>7, <1>8 DEF Device!Call, through

LEMMA CallReturns ==
  ASSUME DInv, Loop, ~(moved < call.count)
  PROVE  Device!Return
  <1>1. /\ pc = "loop" /\ call' = NoCall /\ moved' = 0 /\ UNCHANGED <<tables, media, result>>
    BY DEF Loop, device
  <1>2. call # NoCall /\ behind = call.count /\ moved = call.count
    BY <1>1, Finished
  <1>3. absolute(call) # NoCall /\ absolute(call).count = call.count
    BY <1>2, AbsoluteCall
  <1>4. through = absolute(call).count
    BY <1>2, <1>3, ThroughIs
  <1>5. absolute(call)' = NoCall /\ through' = 0
    BY <1>1 DEF absolute, through, NoCall
  <1> QED
    BY <1>1, <1>3, <1>4, <1>5 DEF Device!Return, through

(* The sector read is the next of the call.                                *)
LEMMA SectorRead ==
  ASSUME DInv, ReadData
  PROVE  Device!Read
  <1>1. /\ pc = "data" /\ stage = "calls" /\ drive' = taken(drive) /\ moved' = moved + 1
        /\ result' = Append(result, IF drive.state = "drq" THEN media[drive.sect] ELSE GARBAGE)
        /\ UNCHANGED <<tables, media, call>>
    BY DEF ReadData
  <1>2. call.rw # "write" /\ call # NoCall /\ Types
    BY <1>1 DEF DInv, Position
  <1>3. behind = moved /\ drive.state = "drq" /\ drive.left > 0
        /\ drive.sect = root(tables).base + call.sect + behind
    BY <1>1, <1>2 DEF DInv, Reading, Command
  <1>4. /\ asked \in Nat /\ asked <= call.count /\ call.count \in Nat /\ call.sect \in Nat
        /\ call.rw = "read" /\ drive.left \in Nat /\ moved \in Nat /\ root(tables).base \in Nat
    BY <1>2, AskedFacts, RootPartition DEF Types
  <1>5. moved < call.count
    BY <1>3, <1>4 DEF behind
  <1>6. /\ absolute(call).rw = "read" /\ absolute(call).count = call.count
        /\ absolute(call).sect = call.sect + root(tables).base
    BY <1>2, <1>4, AbsoluteCall
  <1>7. drive.sect = absolute(call).sect + moved
    BY <1>3, <1>4, <1>6
  <1>8. absolute(call)' = absolute(call)
    BY <1>1 DEF absolute, RootBase
  <1>9. result' = Append(result, media[absolute(call).sect + moved])
    BY <1>1, <1>3, <1>7
  <1>10. call.rw # "write" /\ call'.rw # "write"
    BY <1>1, <1>2
  <1> QED
    BY <1>1, <1>5, <1>6, <1>8, <1>9, <1>10 DEF Device!Read

(* The sector stored is the next of the call, and holds its data.          *)
LEMMA SectorWritten ==
  ASSUME DInv, DriveWrites, UNCHANGED <<DataReady, boot, pc, call, moved, result>>
  PROVE  Device!Write
  <1>1. /\ media' = [media EXCEPT ![drive.sect] = drive.data] /\ UNCHANGED <<tables, call, result>>
        /\ Types
    BY DEF DriveWrites, DInv
  <1>2. /\ call.rw = "write" /\ call # NoCall /\ behind = moved /\ drive.left > 0
        /\ asked <= call.count /\ call.count \in Nat /\ asked \in Nat
        /\ drive.left \in Nat /\ moved \in Nat
        /\ drive.data = call.data[moved + 1]
        /\ drive.sect = root(tables).base + call.sect + moved
    BY DriveWritesShape
  <1>3. drive'.left = drive.left - 1
    BY DriveWritesShape
  <1>4. call.sect \in Nat /\ root(tables).base \in Nat
    BY <1>1, <1>2, AskedFacts, RootPartition DEF Types
  <1>5. through = moved /\ sectors_of(count_register(call.count)) = asked
    BY <1>2, ThroughIs DEF asked
  <1>6. through' = through + 1
    BY <1>1, <1>2, <1>3, <1>5 DEF through, behind
  <1>7. /\ absolute(call).rw = "write" /\ absolute(call).count = call.count
        /\ absolute(call).data = call.data
        /\ absolute(call).sect = call.sect + root(tables).base
    BY <1>2, AbsoluteCall
  <1>8. through < absolute(call).count
    BY <1>2, <1>5, <1>7 DEF behind
  <1>9. drive.sect = absolute(call).sect + through
    BY <1>2, <1>4, <1>5, <1>7
  <1>10. absolute(call)' = absolute(call)
    BY <1>1 DEF absolute, RootBase
  <1>11. media' = [media EXCEPT ![absolute(call).sect + through] =
                                  absolute(call).data[through + 1]]
    BY <1>1, <1>2, <1>5, <1>7, <1>9
  <1> QED
    BY <1>1, <1>6, <1>7, <1>8, <1>10, <1>11 DEF Device!Write, through

LEMMA NextDevice == IInv /\ [Next]_vars => [Device!Next]_(Device!vars)
  <1> SUFFICES ASSUME IInv, [Next]_vars PROVE Device!Next \/ UNCHANGED Device!vars
    OBVIOUS
  <1>1. DInv /\ Found
    BY DEF IInv
  <1>2. ASSUME NEW c \in CallsOn(get_geo(ROOT_DEV).size), Call(c) PROVE Device!Next
    <2>1. stage = "calls"
      BY <1>1, <1>2 DEF Call, DInv, Position
    <2> QED
      BY <1>1, <1>2, <2>1, RootFound, CallBegins DEF Device!Next
  <1>3. CASE Loop
    BY <1>1, <1>3, KernelUnmoved, CallReturns DEF Device!Next
  <1>4. CASE ReadData
    BY <1>1, <1>4, SectorRead DEF Device!Next
  <1>5. CASE Drive
    BY <1>1, <1>5, SectorWritten, DeviceUnmoved DEF Drive, Device!Next
  <1>6. CASE Identify \/ Wait \/ Clear \/ BootData \/ ReadStatus \/ WriteData
    BY <1>1, <1>6, KernelUnmoved
  <1>7. CASE Interrupt \/ UNCHANGED vars
    BY <1>1, <1>7, DeviceUnmoved
  <1> QED
    BY <1>2, <1>3, <1>4, <1>5, <1>6, <1>7 DEF Next, Kernel

LEMMA InitDevice == Init => Device!Init
  BY DEF Init, Device!Init, absolute, NoCall

(* Whichever drive it talks to, and however the interrupts come, the calls *)
(* of hd_rdwt_block() move the sectors they are asked for, each once, in   *)
(* order, to or from the place the partition tables give the root device,  *)
(* and return only when the drive has done them all.                       *)
THEOREM ImplementsBlockDevice == Spec => IsBlockDevice
  <1>1. Init => IInv
    BY InitDInv, InitFound DEF IInv
  <1> QED
    BY <1>1, NextIInv, InitDevice, NextDevice, PTL DEF Spec, IsBlockDevice, Device!Spec

--------------------------------------------------------------------------------
(* What a call has moved: of a read, the sectors of the result; of a       *)
(* write, the sectors on the drive.                                        *)
place(i) == root(tables).base + call.sect + i - 1

Transferred ==
  /\ call.rw = "read" =>
       /\ Len(result) = moved
       /\ \A i \in 1 .. moved : result[i] = media[place(i)]
  /\ call.rw = "write" => \A i \in 1 .. behind : media[place(i)] = call.data[i]

Contents ==
  /\ media \in [Sectors -> Data \cup {Min(Data)}]
  /\ result \in Seq(Data \cup {Min(Data)})

(* A call that returns has moved all its sectors.                          *)
Whole == \A i \in 1 .. call.count : /\ call.rw = "read" => result[i] = media[place(i)]
                                    /\ call.rw = "write" => media[place(i)] = call.data[i]

ReturnsWhole == [][call # NoCall /\ call' = NoCall => Whole]_vars

LEMMA Places ==
  ASSUME DInv, call # NoCall
  PROVE  /\ call.count \in Nat /\ root(tables).base \in Nat /\ call.sect \in Nat
         /\ \A i \in 1 .. call.count : place(i) \in Sectors
         /\ \A i, k \in 1 .. call.count : place(i) = place(k) => i = k
  <1>1. /\ root(tables).base \in Nat /\ root(tables).size \in Nat /\ NR_SECTORS \in Nat
        /\ root(tables).base + root(tables).size <= NR_SECTORS
    BY RootPartition DEF DInv, Types
  <1>2. /\ call.sect \in Nat /\ call.count \in Nat
        /\ call.sect + call.count <= root(tables).size
    BY AskedFacts
  <1> QED
    BY <1>1, <1>2 DEF place, Sectors

LEMMA ReadTransfers ==
  ASSUME DInv, Contents, Transferred, ReadData
  PROVE  Contents' /\ Transferred'
  <1> DEFINE V == Data \cup {Min(Data)}
  <1>1. /\ pc = "data" /\ stage = "calls" /\ moved' = moved + 1
        /\ result' = Append(result, IF drive.state = "drq" THEN media[drive.sect] ELSE GARBAGE)
        /\ UNCHANGED <<tables, media, call>>
    BY DEF ReadData
  <1>2. call.rw # "write" /\ call # NoCall /\ Types
    BY <1>1 DEF DInv, Position
  <1>3. behind = moved /\ drive.state = "drq" /\ drive.left > 0
        /\ drive.sect = root(tables).base + call.sect + behind
    BY <1>1, <1>2 DEF DInv, Reading, Command
  <1>4. /\ asked \in Nat /\ asked <= call.count /\ call.count \in Nat /\ call.sect \in Nat
        /\ call.rw = "read" /\ drive.left \in Nat /\ moved \in Nat /\ root(tables).base \in Nat
    BY <1>2, AskedFacts, RootPartition DEF Types
  <1>5. moved + 1 \in 1 .. call.count /\ drive.sect = place(moved + 1)
    BY <1>3, <1>4 DEF behind, place
  <1>6. drive.sect \in Sectors
    BY <1>2, <1>5, Places
  <1>7. media \in [Sectors -> V] /\ result \in Seq(V) /\ Len(result) = moved
    BY <1>4 DEF Contents, Transferred
  <1> HIDE DEF V
  <1>8. media[drive.sect] \in V /\ result' = Append(result, media[drive.sect])
    BY <1>1, <1>3, <1>6, <1>7
  <1>9. /\ result' \in Seq(V) /\ Len(result') = moved + 1
        /\ result'[moved + 1] = media[drive.sect]
        /\ \A i \in 1 .. moved : result'[i] = result[i]
    BY <1>4, <1>7, <1>8
  <1>10. \A i \in 1 .. moved' : result'[i] = media[place(i)]
    <2> SUFFICES ASSUME NEW i \in 1 .. moved + 1 PROVE result'[i] = media[place(i)]
      BY <1>1
    <2>1. CASE i = moved + 1
      BY <1>5, <1>9, <2>1
    <2>2. CASE i \in 1 .. moved
      BY <1>4, <1>9, <2>2 DEF Transferred
    <2> QED
      BY <1>4, <2>1, <2>2
  <1>11. \A i : place(i)' = place(i)
    BY <1>1 DEF place
  <1>12. Contents'
    BY <1>1, <1>7, <1>9 DEF Contents, V
  <1>13. Transferred'
    BY <1>1, <1>4, <1>9, <1>10, <1>11 DEF Transferred
  <1> QED
    BY <1>12, <1>13

LEMMA WriteTransfers ==
  ASSUME DInv, Contents, Transferred, DriveWrites,
         UNCHANGED <<DataReady, boot, pc, call, moved, result>>
  PROVE  Contents' /\ Transferred'
  <1>1. /\ media' = [media EXCEPT ![drive.sect] = drive.data] /\ UNCHANGED <<tables, call, result>>
        /\ Types /\ media \in [Sectors -> Data \cup {Min(Data)}]
    BY DEF DriveWrites, DInv, Contents
  <1>2. /\ call.rw = "write" /\ call # NoCall /\ behind = moved /\ drive.left > 0
        /\ asked <= call.count /\ call.count \in Nat /\ asked \in Nat
        /\ drive.left \in Nat /\ moved \in Nat
        /\ drive.data = call.data[moved + 1]
        /\ drive.sect = root(tables).base + call.sect + moved
    BY DriveWritesShape
  <1>3. drive'.left = drive.left - 1
    BY DriveWritesShape
  <1>4. behind' = moved + 1
    BY <1>1, <1>2, <1>3 DEF behind, asked
  <1>5. call.sect \in Nat /\ root(tables).base \in Nat /\ call.data \in [1 .. call.count -> Data]
    BY <1>1, <1>2, AskedFacts, RootPartition DEF Types
  <1>6. moved + 1 \in 1 .. call.count /\ drive.sect = place(moved + 1)
    BY <1>2, <1>5 DEF behind, place
  <1>7. drive.data \in Data /\ drive.sect \in Sectors
    BY <1>2, <1>5, <1>6, Places
  <1>8. media' \in [Sectors -> Data \cup {Min(Data)}]
    BY <1>1, <1>7
  <1>9. \A i \in 1 .. moved + 1 : media'[place(i)] = call.data[i]
    <2> SUFFICES ASSUME NEW i \in 1 .. moved + 1 PROVE media'[place(i)] = call.data[i]
      OBVIOUS
    <2>1. i \in 1 .. call.count /\ place(i) \in Sectors
      BY <1>2, <1>6, Places
    <2>2. CASE i = moved + 1
      BY <1>1, <1>2, <1>6, <1>7, <2>2
    <2>3. CASE i \in 1 .. moved
      <3>1. i # moved + 1
        BY <1>2, <2>3
      <3>2. place(i) # drive.sect
        BY <1>2, <1>6, <2>1, <3>1, Places
      <3>3. media[place(i)] = call.data[i]
        BY <1>2, <2>3 DEF Transferred
      <3> QED
        BY <1>1, <2>1, <3>2, <3>3
    <2> QED
      BY <1>2, <2>2, <2>3
  <1>10. \A i : place(i)' = place(i)
    BY <1>1 DEF place
  <1>11. Contents'
    BY <1>1, <1>8 DEF Contents
  <1>12. Transferred'
    BY <1>1, <1>2, <1>4, <1>9, <1>10 DEF Transferred
  <1> QED
    BY <1>11, <1>12

LEMMA NextTransferred == IInv /\ Contents /\ Transferred /\ [Next]_vars => Contents' /\ Transferred'
  <1> SUFFICES ASSUME IInv, Contents, Transferred, [Next]_vars PROVE Contents' /\ Transferred'
    OBVIOUS
  <1>1. DInv /\ Found
    BY DEF IInv
  <1>2. ASSUME UNCHANGED <<tables, media, call, result>>, through' = through,
               call.rw # "write" => moved' = moved
        PROVE  Contents' /\ Transferred'
    <2>1. \A i : place(i)' = place(i)
      BY <1>2 DEF place
    <2>2. call.rw = "write" => behind' = behind
      BY <1>1, <1>2, AskedFacts DEF through, behind, asked
    <2>3. Contents'
      BY <1>2 DEF Contents
    <2>4. Transferred'
      BY <1>2, <2>1, <2>2 DEF Transferred
    <2> QED
      BY <2>3, <2>4
  <1>3. CASE ReadData
    BY <1>1, <1>3, ReadTransfers
  <1>4. CASE Drive /\ DriveWrites
    BY <1>1, <1>4, WriteTransfers DEF Drive
  <1>5. ASSUME NEW c \in CallsOn(get_geo(ROOT_DEV).size), Call(c) PROVE Contents' /\ Transferred'
    <2>1. /\ pc = "idle" /\ call' = c /\ moved' = 0 /\ result' = << >> /\ media' = media
          /\ drive' = accepted(c.rw, c.sect + get_geo(ROOT_DEV).base, count_register(c.count))
          /\ tables' = tables
      BY <1>5 DEF Call, hd_cmd_out
    <2>2. get_geo(ROOT_DEV) = root(tables) /\ tables \in Layouts
      BY <1>1, <2>1, RootFound DEF DInv, Position, Types
    <2>3. c # NoCall /\ c.count \in Nat /\ c.count >= 1
      BY <1>5, <2>2, RootPartition, CallFacts
    <2>4. sectors_of(count_register(c.count)) \in Nat
      BY <2>3, Register
    <2>5. behind' = 0
      <3>1. drive'.left = sectors_of(count_register(c.count))
        BY <2>1 DEF accepted
      <3>2. asked' = sectors_of(count_register(c.count))
        BY <2>1, <2>3 DEF asked
      <3> QED
        BY <2>4, <3>1, <3>2 DEF behind
    <2>6. Contents'
      BY <2>1 DEF Contents
    <2>7. Transferred'
      BY <2>1, <2>5 DEF Transferred
    <2> QED
      BY <2>6, <2>7
  <1>6. CASE Loop /\ ~(moved < call.count)
    BY <1>6 DEF Loop, device, Contents, Transferred, NoCall
  <1>7. CASE Identify \/ BootData
    <2>1. call = NoCall /\ UNCHANGED <<tables, media, call, moved, result>>
      BY <1>1, <1>7, BootShape DEF Identify, DInv, Position
    <2> QED
      BY <1>2, <2>1 DEF through, NoCall
  <1>8. CASE Wait \/ Clear \/ ReadStatus \/ (Loop /\ moved < call.count)
    <2>1. /\ UNCHANGED <<tables, media, drive, call, result>>
          /\ call.rw = "write" \/ moved' = moved
      BY <1>8 DEF Wait, Clear, ReadStatus, Loop, device
    <2> QED
      BY <1>2, <2>1 DEF through
  <1>9. CASE WriteData
    <2>1. UNCHANGED <<tables, media, call, moved, result>>
      BY <1>9 DEF WriteData
    <2>2. drive'.left = drive.left
      BY <1>1, <1>9, DriveShape DEF WriteData, DInv
    <2> QED
      BY <1>2, <2>1, <2>2 DEF through
  <1>10. CASE Interrupt \/ (Drive /\ ~DriveWrites) \/ UNCHANGED vars
    <2>1. UNCHANGED <<tables, media, call, moved, result>>
      BY <1>10 DEF Interrupt, Drive, DriveReads, DriveAsks, vars, device
    <2>2. drive'.left = drive.left
      <3>1. CASE Interrupt \/ UNCHANGED vars
        BY <3>1 DEF Interrupt, vars, device
      <3>2. CASE DriveReads \/ DriveAsks
        BY <1>1, <3>2, DriveState DEF DriveReads, DriveAsks, DInv
      <3> QED
        BY <1>10, <3>1, <3>2 DEF Drive
    <2> QED
      BY <1>2, <2>1, <2>2 DEF through
  <1> QED
    BY <1>3, <1>4, <1>5, <1>6, <1>7, <1>8, <1>9, <1>10 DEF Next, Kernel

LEMMA InitTransferred == Init => Contents /\ Transferred
  <1> SUFFICES ASSUME Init PROVE Contents /\ Transferred
    OBVIOUS
  <1>1. media \in [Sectors -> {Min(Data)}] /\ result = << >> /\ call.rw = "none"
    BY DEF Init, NoCall
  <1>2. {Min(Data)} \subseteq Data \cup {Min(Data)}
    OBVIOUS
  <1> QED
    BY <1>1, <1>2 DEF Contents, Transferred

LEMMA ReturnStep ==
  ASSUME IInv, Transferred, [Next]_vars, call # NoCall, call' = NoCall
  PROVE  Whole
  <1>1. DInv /\ Found
    BY DEF IInv
  <1>2. ~(\E c \in CallsOn(get_geo(ROOT_DEV).size) : Call(c))
    BY <1>1 DEF Call, DInv, Position
  <1>3. pc = "loop" /\ ~(moved < call.count)
    BY <1>1, <1>2, BootShape
    DEF Next, Kernel, Drive, Identify, Wait, Clear, Loop, ReadStatus, WriteData, ReadData,
        Interrupt, vars
  <1>4. behind = call.count /\ moved = call.count
    BY <1>1, <1>3, Finished
  <1> QED
    BY <1>4 DEF Transferred, Whole

(* A read that returns has given the content of every sector asked for; a  *)
(* write that returns has left every sector on the drive with its data.    *)
THEOREM CallsAreWhole == Spec => ReturnsWhole
  <1>1. Init => IInv
    BY InitDInv, InitFound DEF IInv
  <1>2. IInv /\ Transferred /\ [Next]_vars => [call # NoCall /\ call' = NoCall => Whole]_vars
    BY ReturnStep
  <1> QED
    BY <1>1, <1>2, NextIInv, InitTransferred, NextTransferred, PTL DEF Spec, ReturnsWhole

================================================================================
