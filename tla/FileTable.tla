------------------------------- MODULE FileTable -------------------------------
(***************************************************************************)
(* Files and who has them open (fs/fs.c, fs/misc.c): the descriptors of    *)
(* processes, f_desc_table, inode_table, and on the disk the i-node map,   *)
(* the i-nodes and the only directory.  A system call is not preempted by  *)
(* another process, so each call is one step.                              *)
(*                                                                         *)
(* Sectors and the content of files are left out; so are reads and writes, *)
(* which change none of this.                                              *)
(***************************************************************************)
EXTENDS Integers, FiniteSetsExt

CONSTANTS
  NR_FILES,             (* entries of filp and of f_desc_table               *)
  NR_INODE,             (* slots of inode_table                              *)
  DISK_INODES,          (* bits of the i-node map                            *)
  ENTRIES_PER_SECTOR,   (* SECTOR_SIZE / DIR_ENTRY_SIZE                      *)
  PROCS, NATIVE_PROCS,  (* processes, and those that exist from the start    *)
  Names,                (* of regular files                                  *)
  MaxCount              (* bound: i_cnt that is reached, and how far fd_cnt  *)
                        (* falls below 1                                     *)

ROOT_INODE == 1
TTY_INODE  == 2
NIL   == -1             (* a null pointer in filp                            *)
NULL  == 0              (* a null pointer to an i-node; slots are from 1 on  *)
Slots == 1 .. NR_INODE
Files == 0 .. NR_FILES - 1
Descs == 0 .. NR_FILES  (* the last one is the memory behind f_desc_table    *)
Nums  == 1 .. DISK_INODES
Modes == {"none", "directory", "special", "regular"}
Paths == Names \cup {"/", "tty"}
MaxEntries == DISK_INODES + 2
Entries    == 1 .. MaxEntries   (* of the directory                          *)

ASSUME FileTableAssumption ==
  /\ NR_FILES \in Nat \ {0}
  /\ NR_INODE \in Nat \ {0}
  /\ DISK_INODES \in Nat /\ DISK_INODES >= 3
  /\ ENTRIES_PER_SECTOR \in Nat \ {0}
  /\ NATIVE_PROCS \subseteq PROCS
  /\ "echo" \in Names /\ Names \cap {"/", "tty", ".", ""} = {}
  /\ MaxCount \in Nat \ {0}

VARIABLES
  live,          (* the processes there are                                  *)
  filp,          (* of each, from -1 on: filp[-1] is the nr_tty before it    *)
  f_desc_table,  (* fd_inode and fd_cnt                                      *)
  inode_table,   (* i_num, i_cnt, i_mode                                     *)
  imap,          (* the numbers whose bit in the i-node map is set           *)
  i_mode,        (* of the i-nodes on the disk                               *)
  dir,           (* the entries of the directory, used, free and past its end*)
  nr_dir_entries,   (* the size of the directory                             *)
  stale             (* sys_delete has left the entry of a deleted file       *)

disk == <<imap, i_mode, dir, nr_dir_entries, stale>>
vars == <<live, filp, f_desc_table, inode_table, disk>>

free_entry == [inode_nr |-> 0, name |-> ""]

(* mkfs() and init_fs(), which keeps the i-node of the root.               *)
Init ==
  /\ live = NATIVE_PROCS
  /\ filp = [p \in PROCS |-> [i \in -1 .. NR_FILES - 1 |-> NIL]]
  /\ f_desc_table = [d \in Descs |-> [fd_inode |-> NULL, fd_cnt |-> 0]]
  /\ inode_table = [s \in Slots |->
       IF s = 1 THEN [i_num |-> ROOT_INODE, i_cnt |-> 1, i_mode |-> "directory"]
       ELSE [i_num |-> 0, i_cnt |-> 0, i_mode |-> "none"]]
  /\ imap = 1 .. 3
  /\ i_mode = [n \in Nums |-> CASE n = ROOT_INODE -> "directory"
                                [] n = TTY_INODE  -> "special"
                                [] n = 3          -> "regular"
                                [] OTHER          -> "none"]
  /\ dir = [i \in Entries |->
       CASE i = 1 -> [inode_nr |-> ROOT_INODE, name |-> "."]
         [] i = 2 -> [inode_nr |-> TTY_INODE, name |-> "tty"]
         [] i = 3 -> [inode_nr |-> 3, name |-> "echo"]
         [] OTHER -> free_entry]
  /\ nr_dir_entries = 3
  /\ stale = FALSE

--------------------------------------------------------------------------------
(* search_file(): the number of the first entry with that name.  It looks  *)
(* at the entry behind the last one too, unless that is in another sector. *)
searched ==
  {i \in Entries : i <= nr_dir_entries
                        + (IF nr_dir_entries % ENTRIES_PER_SECTOR = 0 THEN 0 ELSE 1)}

search_file(path) ==
  LET found == {i \in searched : dir[i].name = path}
  IN  IF path = "/" THEN ROOT_INODE
      ELSE IF found = {} THEN 0 ELSE dir[Min(found)].inode_nr

(* get_inode(): the slot it returns, and inode_table after it.  With no    *)
(* free slot it fills in memory from address 0 on and returns NULL.        *)
cached(num) == {s \in Slots : inode_table[s].i_cnt # 0 /\ inode_table[s].i_num = num}
free_slots  == {s \in Slots : inode_table[s].i_cnt = 0}

slotFreeFirst(num) ==   \* mutant
  IF num = 0 THEN NULL
  ELSE IF cached(num) # {} \/ free_slots # {} THEN Min(cached(num) \cup free_slots) ELSE NULL
slot(num) ==
  IF num = 0 THEN NULL
  ELSE IF cached(num) # {} THEN Min(cached(num))
  ELSE IF free_slots # {} THEN Min(free_slots) ELSE NULL

get_uncounted(num) ==   \* mutant
  LET s == slot(num)
  IN  IF s = NULL \/ s \in cached(num) THEN inode_table
      ELSE [inode_table EXCEPT ![s] = [i_num |-> num, i_cnt |-> 1, i_mode |-> i_mode[num]]]
get_inode(num) ==
  LET s == slot(num)
  IN  IF s = NULL THEN inode_table
      ELSE IF s \in cached(num) THEN [inode_table EXCEPT ![s].i_cnt = @ + 1]
      ELSE [inode_table EXCEPT ![s] =
              [i_num |-> num, i_cnt |-> 1, i_mode |-> i_mode[num]]]

(* The bound on counts: no call that would pass it is made.                *)
bounded(num) ==
  \A s \in cached(num) : inode_table[s].i_cnt < MaxCount

put_inode(table, s) == IF s = NULL THEN table ELSE [table EXCEPT ![s].i_cnt = @ - 1]

(* The entry of filp sys_open() takes: fd is -1 and i is NR_FILES if none  *)
(* is free.  It uses the descriptor of the same index.                     *)
free_fds(p) == {i \in Files : filp[p][i] = NIL}
free_fd(p)  == IF free_fds(p) = {} THEN -1 ELSE Min(free_fds(p))

connect(p, pin) ==
  LET fd == free_fd(p)
      i  == IF fd = -1 THEN NR_FILES ELSE fd
  IN  /\ filp' = [filp EXCEPT ![p][fd] = i]
      /\ f_desc_table' = [f_desc_table EXCEPT ![i] = [fd_inode |-> pin, fd_cnt |-> 1]]

--------------------------------------------------------------------------------
(* sys_open() without O_CREAT.  If there is no such file nothing changes.  *)
Open(p, path) ==
  LET num == search_file(path)
  IN  /\ p \in live
      /\ slot(num) # NULL
      /\ bounded(num)
      /\ connect(p, slot(num))
      /\ inode_table' = get_inode(num)
      /\ UNCHANGED <<live, disk>>

(* alloc_imap_bit(): 0 when all bits are set.                              *)
alloc_past_end == Min((1 .. DISK_INODES + 1) \ imap)   \* mutant
alloc_imap_bit == IF imap = Nums THEN 0 ELSE Min(Nums \ imap)

(* new_dir_entry(): the first free entry, or the one behind the last.      *)
new_dir_entry(inode_nr, filename) ==
  LET free  == {i \in 1 .. nr_dir_entries : dir[i].inode_nr = 0}
      entry == IF free = {} THEN nr_dir_entries + 1 ELSE Min(free)
  IN  /\ dir' = [dir EXCEPT ![entry] = [inode_nr |-> inode_nr, name |-> filename]]
      /\ nr_dir_entries' = IF free = {} THEN entry ELSE nr_dir_entries

(* sys_open() with O_CREAT.  With inode_table full the file is created,    *)
(* and not opened.                                                         *)
Create(p, path) ==
  LET num == alloc_imap_bit
      pin == slot(num)
  IN  /\ p \in live
      /\ search_file(path) = 0
      /\ imap' = imap \cup ({num} \ {0})
      /\ i_mode' = [n \in Nums |-> IF n = num THEN "regular" ELSE i_mode[n]]
      /\ new_dir_entry(num, path)
      /\ IF pin = NULL
         THEN UNCHANGED <<filp, f_desc_table, inode_table>>
         ELSE /\ connect(p, pin)
              /\ inode_table' = [inode_table EXCEPT ![pin] =
                   [i_num |-> num, i_cnt |-> 1, i_mode |-> "regular"]]
      /\ UNCHANGED <<live, stale>>

(* sys_close() of a file the process has open.                             *)
Close(p, fd) ==
  LET d == filp[p][fd]
  IN  /\ p \in live
      /\ d # NIL
      /\ f_desc_table[d].fd_cnt > 1 - MaxCount
      /\ inode_table' = put_inode(inode_table, f_desc_table[d].fd_inode)
      /\ f_desc_table' = [f_desc_table EXCEPT ![d] =
           [fd_cnt   |-> @.fd_cnt - 1,
            fd_inode |-> IF @.fd_cnt = 1 THEN NULL ELSE @.fd_inode]]
      /\ filp' = [filp EXCEPT ![p][fd] = NIL]
      /\ UNCHANGED <<live, disk>>

--------------------------------------------------------------------------------
(* The entry sys_delete() clears, among those of the directory, and the    *)
(* size it leaves when that was the last one.                              *)
entries_of(num) == {i \in Entries : i <= nr_dir_entries /\ dir[i].inode_nr = num}

clear_name(num) ==   \* mutant
  /\ dir' = [i \in DOMAIN dir |->
               IF i \in entries_of(num) THEN [dir[i] EXCEPT !.name = ""] ELSE dir[i]]
  /\ stale' = (stale \/ entries_of(num) = {})
  /\ UNCHANGED nr_dir_entries
clear_entry(num) ==
  IF entries_of(num) = {}
  THEN stale' = TRUE /\ UNCHANGED <<dir, nr_dir_entries>>
  ELSE LET e == Min(entries_of(num))
       IN  /\ dir' = [dir EXCEPT ![e] = free_entry]
           /\ nr_dir_entries' =
                IF e = nr_dir_entries
                THEN Cardinality({i \in 1 .. e - 1 : dir[i].inode_nr # 0})
                ELSE nr_dir_entries
           /\ UNCHANGED stale

(* sys_delete(): it gets the i-node first, and keeps it if the file is not *)
(* a regular one or i_cnt says it is open.                                 *)
openedOneMore(s) == s # NULL /\ inode_table[s].i_cnt > 1   \* mutant
opened(s) == s # NULL /\ inode_table[s].i_cnt > 0

refused(num) ==
  LET s == slot(num)
  IN  IF s \in cached(num) THEN inode_table[s].i_mode # "regular" \/ opened(s)
      ELSE i_mode[num] # "regular"

Delete(path) ==
  LET num == search_file(path)
      s   == slot(num)
  IN  /\ live # {}
      /\ path # "/"
      /\ num # 0
      /\ bounded(num)
      /\ IF refused(num)
         THEN inode_table' = get_inode(num) /\ UNCHANGED disk
         ELSE /\ imap' = imap \ {num}
              /\ i_mode' = [i_mode EXCEPT ![num] = "none"]
              /\ inode_table' =
                   IF s = NULL THEN inode_table
                   ELSE put_inode([get_inode(num) EXCEPT ![s].i_mode = "none"], s)
              /\ clear_entry(num)
      /\ UNCHANGED <<live, filp, f_desc_table>>

(* kread(), called by sys_exec(): it keeps the i-node it gets.             *)
KRead(path) ==
  /\ live # {}
  /\ bounded(search_file(path))
  /\ inode_table' = get_inode(search_file(path))
  /\ UNCHANGED <<live, filp, f_desc_table, disk>>

--------------------------------------------------------------------------------
(* sys_fork() copies the row of the process.  sys_exit() closes nothing;   *)
(* the row of a process that is gone is not read again before fork fills   *)
(* it, so it is emptied here.                                              *)
Fork(p, child) ==
  /\ p \in live
  /\ child \in PROCS \ (live \cup NATIVE_PROCS)
  /\ live' = live \cup {child}
  /\ filp' = [filp EXCEPT ![child] = filp[p]]
  /\ UNCHANGED <<f_desc_table, inode_table, disk>>

Exit(p) ==
  /\ p \in live
  /\ live' = live \ {p}
  /\ filp' = [filp EXCEPT ![p] = [i \in -1 .. NR_FILES - 1 |-> NIL]]
  /\ UNCHANGED <<f_desc_table, inode_table, disk>>

Next ==
  \/ \E p \in PROCS, path \in Paths : Open(p, path)
  \/ \E p \in PROCS, path \in Names : Create(p, path)
  \/ \E p \in PROCS, fd \in Files : Close(p, fd)
  \/ \E path \in Paths : Delete(path)
  \/ \E path \in Paths : KRead(path)
  \/ \E p, child \in PROCS : Fork(p, child)
  \/ \E p \in PROCS : Exit(p)

Spec == Init /\ [][Next]_vars

--------------------------------------------------------------------------------
TypeOK ==
  /\ live \subseteq PROCS
  /\ filp \in [PROCS -> [-1 .. NR_FILES - 1 -> {NIL} \cup Descs]]
  /\ f_desc_table \in [Descs -> [fd_inode : {NULL} \cup Slots, fd_cnt : Int]]
  /\ inode_table \in [Slots -> [i_num : {0} \cup Nums, i_cnt : Int, i_mode : Modes]]
  /\ imap \subseteq Nums
  /\ i_mode \in [Nums -> Modes]
  /\ dir \in [Entries -> [inode_nr : {0} \cup Nums, name : Paths \cup {".", ""}]]
  /\ nr_dir_entries \in Entries
  /\ stale \in BOOLEAN

(* The descriptors that refer to a slot of inode_table, and root_inode.    *)
refs(s) ==
  Cardinality({d \in Descs : f_desc_table[d].fd_inode = s})
    + (IF s = 1 THEN 1 ELSE 0)

(* A slot that a descriptor refers to is never handed to another file:     *)
(* i_cnt does not fall below its references, although descriptors are      *)
(* shared, overwritten by the next open() and closed more than once.       *)
NoDangling == ~stale => \A s \in Slots : inode_table[s].i_cnt >= refs(s)

(* An i-node is in memory once, so that what one process writes into it    *)
(* (its size) is what the others see.                                      *)
OneSlotPerInode == ~stale => \A num \in Nums : Cardinality(cached(num)) <= 1

(* A file that a descriptor refers to is on the disk: it is not deleted    *)
(* and its number is not given to another while it is open.                *)
OpenFilesStay ==
  ~stale => \A d \in Descs :
    LET s == f_desc_table[d].fd_inode
    IN  s # NULL => /\ inode_table[s].i_num \in imap
                    /\ inode_table[s].i_mode = i_mode[inode_table[s].i_num]

(* No two entries of the directory share an i-node, and it is allocated.   *)
NumbersApart ==
  ~stale => \A i, j \in Entries :
    dir[i].inode_nr # 0 =>
      /\ dir[i].inode_nr \in imap
      /\ dir[i].inode_nr = dir[j].inode_nr => i = j

(* fs.h: fd_cnt is "How many procs share this desc".                       *)
DescriptorCounts == \A d \in Files :
  f_desc_table[d].fd_cnt = Cardinality({p \in live : \E fd \in Files : filp[p][fd] = d})

(* fs.c, where sys_delete() refuses because i_cnt is above 1: "the file    *)
(* was opened", so some descriptor refers to it.                           *)
CountedIsOpen == \A s \in Slots :
  inode_table[s].i_cnt > 0 /\ inode_table[s].i_mode = "regular" => refs(s) > 0

(* fs.c: assert(flg), sys_delete() has found the entry of the file.        *)
EntryCleared == ~stale

(* fs.c: the size of the directory is "including unused slots", so every   *)
(* entry that is in use is one of them, and the file can be found.         *)
EntriesInside == \A i \in Entries : dir[i].inode_nr # 0 => i <= nr_dir_entries

================================================================================
