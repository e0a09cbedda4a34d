------------------------------ MODULE FileSectors ------------------------------
(***************************************************************************)
(* The sectors of files (fs/fs.c, fs/misc.c): the sector map and the two   *)
(* fields of an i-node that say where its file is, next to the bookkeeping *)
(* of FileTable.                                                           *)
(***************************************************************************)
EXTENDS FileTable

CONSTANTS
  SMAP_BITS,               (* bits of the sector map                         *)
  N_1ST_SECT,              (* the sector of bit 1, the first data sector     *)
  NR_DEFAULT_FILE_SECTS,   (* the size of every file that is created         *)
  INSTALL_START_SECT,      (* where the installer has put "echo", and its    *)
  INSTALL_NR_SECTS         (* size                                           *)

VARIABLES
  smap,           (* the bits of the sector map that are set                 *)
  i_start_sect,   (* of the i-nodes on the disk; the copies in memory are    *)
  i_nr_sects,     (* written through, so there is one value                  *)
  failed          (* history: an allocation has not got all it asked for     *)

sectors == <<smap, i_start_sect, i_nr_sects, failed>>
svars   == <<vars, sectors>>

Bits == 0 .. SMAP_BITS - 1

(* sys_delete(): "sect M <-> bit (M - sb.n_1stsect + 1)".                  *)
bit_of_next(sect) == sect - N_1ST_SECT   \* mutant
bit_of(sect) == sect - N_1ST_SECT + 1

run_of(bit, n) == (bit .. bit + n - 1) \cap Bits
bits_of(num)   == run_of(bit_of(i_start_sect[num]), i_nr_sects[num])

ASSUME FileSectorsAssumption ==
  /\ SMAP_BITS \in Nat /\ N_1ST_SECT \in Nat
  /\ NR_DEFAULT_FILE_SECTS \in Nat /\ INSTALL_NR_SECTS \in Nat
  /\ INSTALL_START_SECT \in Nat
  /\ bit_of(INSTALL_START_SECT) > NR_DEFAULT_FILE_SECTS
  /\ bit_of(INSTALL_START_SECT) + INSTALL_NR_SECTS <= SMAP_BITS

(* mkfs(): bit 0 is reserved, the directory and "echo" have their sectors. *)
SInit ==
  /\ Init
  /\ smap = (0 .. NR_DEFAULT_FILE_SECTS)
              \cup run_of(bit_of(INSTALL_START_SECT), INSTALL_NR_SECTS)
  /\ i_start_sect = [n \in Nums |-> CASE n = ROOT_INODE -> N_1ST_SECT
                                      [] n = 3          -> INSTALL_START_SECT
                                      [] OTHER          -> 0]
  /\ i_nr_sects = [n \in Nums |-> CASE n = ROOT_INODE -> NR_DEFAULT_FILE_SECTS
                                    [] n = 3          -> INSTALL_NR_SECTS
                                    [] OTHER          -> 0]
  /\ failed = FALSE

--------------------------------------------------------------------------------
(* alloc_smap_bit(): the sector of the first free bit, 0 if there is none. *)
(* It sets as many bits from there on as the file gets sectors, free or    *)
(* not, or up to the end of the map.                                       *)
free_bits    == Bits \ smap
sectOneLow == IF free_bits = {} THEN 0 ELSE Min(free_bits) - 2 + N_1ST_SECT   \* mutant
free_sect_nr == IF free_bits = {} THEN 0 ELSE Min(free_bits) - 1 + N_1ST_SECT
allocated    == IF free_bits = {} THEN {}
                ELSE run_of(Min(free_bits), NR_DEFAULT_FILE_SECTS)

got_all == /\ alloc_imap_bit # 0
           /\ allocated \cap smap = {}
           /\ free_bits # {} /\ Min(free_bits) + NR_DEFAULT_FILE_SECTS <= SMAP_BITS

(* The sectors are taken even when there is no i-node left to name them.   *)
SCreate(p, path) ==
  /\ Create(p, path)
  /\ smap' = smap \cup allocated
  /\ i_start_sect' = [n \in Nums |->
       IF n = alloc_imap_bit THEN free_sect_nr ELSE i_start_sect[n]]
  /\ i_nr_sects' = [n \in Nums |->
       IF n = alloc_imap_bit THEN NR_DEFAULT_FILE_SECTS ELSE i_nr_sects[n]]
  /\ failed' = (failed \/ ~got_all)

(* sys_delete() clears the bits of the first byte, of the whole ones and   *)
(* of the last: together those from bit_of on, whether they are the        *)
(* file's or not.  Bits before the map are in other memory.                *)
SDelete(path) ==
  /\ Delete(path)
  /\ LET num == search_file(path)
     IN  IF refused(num)
         THEN UNCHANGED sectors
         ELSE /\ smap' = smap \ bits_of(num)
              /\ i_start_sect' = [i_start_sect EXCEPT ![num] = 0]
              /\ i_nr_sects' = [i_nr_sects EXCEPT ![num] = 0]
              /\ UNCHANGED failed

Others ==
  /\ \/ \E p \in PROCS, path \in Paths : Open(p, path)
     \/ \E p \in PROCS, fd \in Files : Close(p, fd)
     \/ \E path \in Paths : KRead(path)
     \/ \E p, child \in PROCS : Fork(p, child)
     \/ \E p \in PROCS : Exit(p)
  /\ UNCHANGED sectors

SNext ==
  \/ \E p \in PROCS, path \in Names : SCreate(p, path)
  \/ \E path \in Paths : SDelete(path)
  \/ Others

SSpec == SInit /\ [][SNext]_svars

--------------------------------------------------------------------------------
STypeOK ==
  /\ TypeOK
  /\ smap \subseteq Bits
  /\ i_start_sect \in [Nums -> Int]
  /\ i_nr_sects \in [Nums -> Nat]
  /\ failed \in BOOLEAN

(* While allocations get what they ask for, no sector belongs to two       *)
(* files: what alloc_smap_bit() takes, sys_delete() gives back and mkfs()  *)
(* lays out never meet.                                                    *)
FilesApart ==
  ~failed => \A m, n \in imap : m # n => bits_of(m) \cap bits_of(n) = {}

(* While allocations get what they ask for, a bit of the sector map is set *)
(* exactly if it is reserved or a file has the sector: none is given away  *)
(* under a file and none is lost.                                          *)
MapIsExact ==
  ~failed => smap = {0} \cup UNION {bits_of(n) : n \in imap}

(* misc.c, of each bit it sets: assert(((fsbuf[j] >> k) & 1) == 0).  Only  *)
(* the first is looked at: a file that is created just before one that     *)
(* lies further on is given the sectors of that one.                       *)
TakenBitsWereFree ==
  [][\A p \in PROCS, path \in Names : SCreate(p, path) => allocated \cap smap = {}]_svars

================================================================================
