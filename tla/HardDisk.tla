-------------------------------- MODULE HardDisk --------------------------------
(***************************************************************************)
(* The hard disk driver (driver/hd.c): hd_rdwt_block(), which asks the     *)
(* drive for sectors and waits for its interrupts, and before that         *)
(* hd_open(), which finds the partitions in the same way.  System calls do *)
(* not preempt each other, so there is one call at a time; the interrupt   *)
(* of the disk comes between any two steps of it.                          *)
(*                                                                         *)
(* The drive is external: an ATA drive in PIO mode.  An interrupt is a     *)
(* rise of its line, which falls when the status register is read or a     *)
(* command is written.                                                     *)
(***************************************************************************)
EXTENDS Integers, Sequences, FiniteSetsExt

CONSTANTS
  NR_SUB_PER_PART,   (* logical partitions looked for in an extended one     *)
  ROOT_DEV,          (* the device of the calls                              *)
  COUNT_VALUES,      (* values of the byte the sector count is kept in       *)
  NR_SECTORS,        (* of the drive                                         *)
  Layouts,           (* partition tables: one for every sector that has one  *)
  Kinds,             (* of drives: is DRQ set with the write command, and is
                        the line kept up until the status is read            *)
  Data,              (* contents of a sector                                 *)
  MaxCount           (* bound: sectors asked for by one call                 *)

MINOR_hd1a        == 16
NR_PART_PER_DRIVE == 4
NR_PRIM_PER_DRIVE == NR_PART_PER_DRIVE + 1
NR_SUB_PER_DRIVE  == NR_SUB_PER_PART * NR_PART_PER_DRIVE
MAX_DRIVES        == 2
MAX_PRIM          == MAX_DRIVES * NR_PRIM_PER_DRIVE - 1

Entries == 1 .. NR_PART_PER_DRIVE
Sectors == 0 .. NR_SECTORS - 1
no_part == [base |-> 0, size |-> 0]
NoCall  == [rw |-> "none", sect |-> 0, count |-> 0, data |-> << >>]
GARBAGE == -1           (* what the data register gives without DRQ          *)

(* The partition of the root device: the first logical one of the third    *)
(* entry, which an installed system has.                                   *)
root(t) == LET s == t[0][3].start_sect
           IN  [base |-> s + t[s][1].start_sect, size |-> t[s][1].nr_sects]

ASSUME HardDiskAssumption ==
  /\ NR_SUB_PER_PART \in Nat \ {0}
  /\ ROOT_DEV = MINOR_hd1a + 2 * NR_SUB_PER_PART
  /\ COUNT_VALUES \in Nat \ {0}
  /\ NR_SECTORS \in Nat
  /\ \A t \in Layouts :
       /\ t[0][3].sys_id = "extended"
       /\ root(t).base \in Nat /\ root(t).size \in Nat
       /\ root(t).base + root(t).size <= NR_SECTORS
  /\ Kinds \subseteq [prompt : BOOLEAN, latching : BOOLEAN]
  /\ Data \subseteq Nat
  /\ MaxCount \in Nat

VARIABLES
  tables, kind,   (* of this drive                                           *)
  media,          (* the content of its sectors                              *)
  drive,          (* what it is doing, for which command, at which sector,
                     how many are left, and the data it was given            *)
  intrq,          (* the line                                                *)
  irr,            (* an interrupt is latched in the 8259                     *)
  DataReady,
  hd_info,        (* primary and logical                                     *)
  stage,          (* what the kernel reads: "identify", a table of "primary"
                     or "extended" partitions, or "calls" of processes       *)
  part_tbl,       (* of the primary partitions                               *)
  at,             (* in partition(): the entry j, the sub-partition i and
                     the sector s of its table                               *)
  pc,             (* where the read or write of a sector is                  *)
  call, moved,    (* the call, and how many sectors it has gone through      *)
  result          (* what it has read                                        *)

device == <<tables, kind, media, drive, intrq, irr>>
boot   == <<hd_info, stage, part_tbl, at>>
vars   == <<device, DataReady, boot, pc, call, moved, result>>

--------------------------------------------------------------------------------
(* External: the drive.                                                    *)
sectors_of(nsector) == IF nsector = 0 THEN COUNT_VALUES ELSE nsector

accepted(cmd, sect, nsector) ==
  [state |-> IF cmd = "write" /\ kind.prompt THEN "drq" ELSE "busy",
   cmd |-> cmd, sect |-> sect, left |-> sectors_of(nsector), data |-> GARBAGE]

raise ==
  /\ intrq' = kind.latching
  /\ irr' = (irr \/ ~intrq)

(* The next sector is in its buffer.                                       *)
DriveReads ==
  /\ drive.state = "busy" /\ drive.cmd # "write" /\ drive.left > 0
  /\ drive' = [drive EXCEPT !.state = "drq"]
  /\ raise
  /\ UNCHANGED <<tables, kind, media>>

(* It is ready for the first sector: this is not signalled.                *)
DriveAsks ==
  /\ drive.state = "busy" /\ drive.cmd = "write" /\ drive.data = GARBAGE
  /\ drive' = [drive EXCEPT !.state = "drq"]
  /\ UNCHANGED <<tables, kind, media, intrq, irr>>

(* It has stored a sector, and is ready for the next if there is one.      *)
DriveWrites ==
  /\ drive.state = "busy" /\ drive.cmd = "write" /\ drive.data # GARBAGE
  /\ media' = [media EXCEPT ![drive.sect] = drive.data]
  /\ drive' = [drive EXCEPT !.state = IF drive.left = 1 THEN "idle" ELSE "drq",
                            !.sect = @ + 1, !.left = @ - 1]
  /\ raise
  /\ UNCHANGED <<tables, kind>>

Drive ==
  /\ DriveReads \/ DriveAsks \/ DriveWrites
  /\ UNCHANGED <<DataReady, boot, pc, call, moved, result>>

(* hd_handler()                                                            *)
Interrupt ==
  /\ irr
  /\ irr' = FALSE
  /\ DataReady' = TRUE
  /\ UNCHANGED <<tables, kind, media, drive, intrq, boot, pc, call, moved, result>>

--------------------------------------------------------------------------------
(* hd_cmd_out()                                                            *)
hd_cmd_out(cmd, sect, nsector) ==
  /\ drive' = accepted(cmd, sect, nsector)
  /\ intrq' = FALSE

(* The waits, while(!DataReady), and what follows them.                    *)
Wait ==
  /\ pc = "wait"
  /\ DataReady
  /\ pc' = "clear"
  /\ UNCHANGED <<device, DataReady, boot, call, moved, result>>

kept(ready) == ready   \* mutant
cleared(ready) == FALSE

Clear ==
  /\ pc = "clear"
  /\ DataReady' = cleared(DataReady)
  /\ IF call.rw = "write"
     THEN pc' = "loop" /\ moved' = moved + 1
     ELSE pc' = "data" /\ UNCHANGED moved
  /\ UNCHANGED <<device, boot, call, result>>

(* port_read(): the sector goes to hdbuf and on from there.                *)
taken(d) ==
  IF d.state # "drq" THEN d
  ELSE [d EXCEPT !.state = IF d.left = 1 THEN "idle" ELSE "busy",
                 !.sect = @ + 1, !.left = @ - 1]

table_read ==
  IF drive.state = "drq" THEN tables[drive.sect]
  ELSE [e \in Entries |-> [sys_id |-> "none", start_sect |-> 0, nr_sects |-> 0]]

(* get_part_table(), up to its wait.                                       *)
get_part_table(sect) == hd_cmd_out("read", sect, 1) /\ pc' = "wait"

--------------------------------------------------------------------------------
(* hd_open(), hd_identify()                                                *)
Identify ==
  /\ pc = "open"
  /\ hd_cmd_out("identify", 0, 1)
  /\ pc' = "wait"
  /\ UNCHANGED <<tables, kind, media, irr, DataReady, boot, call, moved, result>>

Identified ==
  /\ stage = "identify"
  /\ hd_info' = [hd_info EXCEPT !.primary[0] = [base |-> 0, size |-> NR_SECTORS]]
  /\ get_part_table(0)
  /\ stage' = "primary"
  /\ UNCHANGED <<part_tbl, at>>

(* partition(), P_PRIMARY: the entries after the j-th, up to the next      *)
(* extended one, whose first table is read; when there is none left the    *)
(* kernel goes on.                                                         *)
GoOn(tbl, j, info) ==
  LET extended == {e \in j + 1 .. NR_PART_PER_DRIVE : tbl[e].sys_id = "extended"}
      last     == IF extended = {} THEN NR_PART_PER_DRIVE ELSE Min(extended)
  IN  /\ hd_info' = [info EXCEPT !.primary = [d \in DOMAIN @ |->
           IF d \in j + 1 .. last /\ tbl[d].sys_id # "none"
           THEN [base |-> tbl[d].start_sect, size |-> tbl[d].nr_sects] ELSE @[d]]]
      /\ IF extended = {}
         THEN /\ stage' = "calls" /\ pc' = "idle"
              /\ drive' = taken(drive)
              /\ UNCHANGED <<intrq, at>>
         ELSE /\ stage' = "extended"
              /\ at' = [j |-> last, i |-> 0, s |-> tbl[last].start_sect]
              /\ get_part_table(tbl[last].start_sect)

Primary ==
  /\ stage = "primary"
  /\ part_tbl' = table_read
  /\ GoOn(table_read, 0, hd_info)

(* partition(), P_EXTENDED: the i-th logical partition of the j-th entry.  *)
chained_to_last(tbl) == at.s + tbl[2].start_sect   \* mutant
chained(tbl) == hd_info.primary[at.j].base + tbl[2].start_sect

Extended ==
  LET tbl    == table_read
      dev_nr == (at.j - 1) * NR_SUB_PER_PART + at.i
      info   == [hd_info EXCEPT !.logical[dev_nr] =
                   [base |-> at.s + tbl[1].start_sect, size |-> tbl[1].nr_sects]]
  IN  /\ stage = "extended"
      /\ UNCHANGED part_tbl
      /\ IF tbl[2].sys_id = "none" \/ at.i + 1 = NR_SUB_PER_PART
         THEN GoOn(part_tbl, at.j, info)
         ELSE /\ hd_info' = info
              /\ at' = [at EXCEPT !.i = @ + 1, !.s = chained(tbl)]
              /\ get_part_table(chained(tbl))
              /\ UNCHANGED stage

BootData ==
  /\ pc = "data"
  /\ Identified \/ Primary \/ Extended
  /\ UNCHANGED <<tables, kind, media, irr, DataReady, call, moved, result>>

--------------------------------------------------------------------------------
(* get_geo(), and the same choice in hd_rdwt_block().                      *)
get_geo(dev) ==
  IF dev < MAX_PRIM THEN hd_info.primary[dev]
  ELSE hd_info.logical[(dev - MINOR_hd1a) % NR_SUB_PER_DRIVE]

(* The count is stored in a byte.                                          *)
count_register(n) == n % COUNT_VALUES

(* hd_rdwt_block(): up to its loop, the loop, and for every sector what is *)
(* done before the wait and after it.                                      *)
Call(c) ==
  /\ pc = "idle"
  /\ hd_cmd_out(c.rw, c.sect + get_geo(ROOT_DEV).base, count_register(c.count))
  /\ call' = c
  /\ moved' = 0
  /\ result' = << >>
  /\ pc' = "loop"
  /\ UNCHANGED <<tables, kind, media, irr, DataReady, boot>>

Loop ==
  /\ pc = "loop"
  /\ IF moved < call.count
     THEN /\ pc' = IF call.rw = "read" THEN "wait" ELSE "status"
          /\ UNCHANGED <<call, moved>>
     ELSE pc' = "idle" /\ call' = NoCall /\ moved' = 0
  /\ UNCHANGED <<device, DataReady, boot, result>>

ReadData ==
  /\ pc = "data" /\ stage = "calls"
  /\ result' = Append(result, IF drive.state = "drq" THEN media[drive.sect] ELSE GARBAGE)
  /\ drive' = taken(drive)
  /\ moved' = moved + 1
  /\ pc' = "loop"
  /\ UNCHANGED <<tables, kind, media, intrq, irr, DataReady, boot, call>>

(* The condition of the wait for DRQ is STATUS & (DRQ != DRQ): the status  *)
(* is read once, and whatever it is the data follows.                      *)
status_not_read(line) == line   \* mutant
status_read(line) == FALSE

ReadStatus ==
  /\ pc = "status"
  /\ intrq' = status_read(intrq)
  /\ pc' = "write"
  /\ UNCHANGED <<tables, kind, media, drive, irr, DataReady, boot, call, moved, result>>

WriteData ==
  /\ pc = "write"
  /\ drive' = IF drive.state = "drq"
              THEN [drive EXCEPT !.state = "busy", !.data = call.data[moved + 1]]
              ELSE drive
  /\ pc' = "wait"
  /\ UNCHANGED <<tables, kind, media, intrq, irr, DataReady, boot, call, moved, result>>

--------------------------------------------------------------------------------
(* What callers ask for: sectors of the root device.                       *)
CallsOn(size) ==
  UNION {[rw : {"read"}, sect : 0 .. size - n, count : {n}, data : {<< >>}]
         \cup [rw : {"write"}, sect : 0 .. size - n, count : {n}, data : [1 .. n -> Data]] :
         n \in 1 .. MaxCount}

Init ==
  /\ tables \in Layouts
  /\ kind \in Kinds
  /\ media \in [Sectors -> {Min(Data)}]
  /\ drive = [state |-> "idle", cmd |-> "none", sect |-> 0, left |-> 0, data |-> GARBAGE]
  /\ intrq = FALSE
  /\ irr = FALSE
  /\ DataReady = FALSE
  /\ hd_info = [primary |-> [d \in 0 .. NR_PART_PER_DRIVE |-> no_part],
                logical |-> [d \in 0 .. NR_SUB_PER_DRIVE - 1 |-> no_part]]
  /\ stage = "identify"
  /\ part_tbl = [e \in Entries |-> [sys_id |-> "none", start_sect |-> 0, nr_sects |-> 0]]
  /\ at = [j |-> 0, i |-> 0, s |-> 0]
  /\ pc = "open"
  /\ call = NoCall
  /\ moved = 0
  /\ result = << >>

Kernel ==
  \/ Identify \/ Wait \/ Clear \/ BootData
  \/ \E c \in CallsOn(get_geo(ROOT_DEV).size) : Call(c)
  \/ Loop \/ ReadStatus \/ WriteData \/ ReadData

Next == Kernel \/ Interrupt \/ Drive

(* The processor goes on, an interrupt is taken in the end, and the drive  *)
(* does what it was told: nobody need make a call.                         *)
Fairness ==
  /\ WF_vars(Identify \/ Wait \/ Clear \/ BootData)
  /\ WF_vars(Loop \/ ReadStatus \/ WriteData \/ ReadData)
  /\ WF_vars(Interrupt)
  /\ WF_vars(Drive)

Spec == Init /\ [][Next]_vars /\ Fairness

--------------------------------------------------------------------------------
(* The partitions, from the tables alone: where the k-th table of the      *)
(* chain in an extended partition is, and which logical partition it holds.*)
chain(t, ext) == LET start[k \in Nat] ==
                   IF k = 0 THEN ext ELSE ext + t[start[k - 1]][2].start_sect
                 IN  start
chain_end(t, ext) == CHOOSE k \in 0 .. NR_SUB_PER_PART - 1 :
  /\ k = NR_SUB_PER_PART - 1 \/ t[chain(t, ext)[k]][2].sys_id = "none"
  /\ \A m \in 0 .. k - 1 : t[chain(t, ext)[m]][2].sys_id # "none"

logicals(t, ext, k) ==
  IF k > chain_end(t, ext) THEN no_part
  ELSE LET s == chain(t, ext)[k]
       IN  [base |-> s + t[s][1].start_sect, size |-> t[s][1].nr_sects]

(* When the first call is made the kernel knows the partitions there are,  *)
(* and no others, whatever order interrupts and reads came in.             *)
PartitionsFound ==
  stage = "calls" =>
    \A e \in Entries :
      LET entry == tables[0][e]
      IN  /\ hd_info.primary[e] = IF entry.sys_id = "none" THEN no_part
             ELSE [base |-> entry.start_sect, size |-> entry.nr_sects]
          /\ \A k \in 0 .. NR_SUB_PER_PART - 1 :
               hd_info.logical[(e - 1) * NR_SUB_PER_PART + k] =
                 IF entry.sys_id = "extended" THEN logicals(tables, entry.start_sect, k)
                 ELSE no_part

(* A call returns if the drive can answer it.  It cannot answer one for    *)
(* more sectors than the byte can count; nor a write for which it sets DRQ *)
(* later than the code writes; nor, when its line stays up until the       *)
(* status is read, a read of more than one sector.                         *)
Answered(c) ==
  /\ c.count <= COUNT_VALUES
  /\ c.rw = "write" => kind.prompt
  /\ c.rw = "read"  => c.count = 1 \/ ~kind.latching

EveryCallReturns == (Answered(call) /\ pc # "idle") ~> (pc = "idle")

(* hd_rdwt_block() is a block device, whichever drive it talks to: the     *)
(* calls that return have moved the sectors they were asked for.  The      *)
(* sectors of the root device are those of its partition in the tables.    *)
RootBase == root(tables).base
absolute(c) == IF c = NoCall THEN c ELSE [c EXCEPT !.sect = @ + RootBase]

Device == INSTANCE BlockDevice WITH
  Calls <- CallsOn(NR_SECTORS),
  call  <- absolute(call),
  moved <- IF call.rw = "write"
           THEN sectors_of(count_register(call.count)) - drive.left ELSE moved

IsBlockDevice == Device!Spec
================================================================================
