--------------------------- MODULE FileSectorsProofs ---------------------------
(***************************************************************************)
(* The directory, the i-node map, the i-nodes in memory and the sector map *)
(* agree, and no sector belongs to two files, until a deletion leaves its  *)
(* entry or an allocation fails: for every disk, every size of files and   *)
(* of the tables, and every number of processes, names and i-nodes.        *)
(***************************************************************************)
EXTENDS FileSectors, FiniteSetTheorems, WellFoundedInduction, TLAPS

(* What alloc_imap_bit() and alloc_smap_bit() look for is found if it is   *)
(* there.                                                                  *)
LEMMA Least ==
  ASSUME NEW S, S \subseteq Nat, S # {}
  PROVE  Min(S) \in S
  <1> DEFINE below == OpToRel(<, Nat)
  <1>1. IsWellFoundedOn(below, Nat)
    BY NatLessThanWellFounded DEF below, OpToRel
  <1>2. PICK x \in S : \A y \in S : <<y, x>> \notin below
    BY <1>1, WFMin, Zenon
  <1>3. \A y \in S : x <= y
    <2> SUFFICES ASSUME NEW y \in S PROVE x <= y
      OBVIOUS
    <2>1. <<y, x>> \notin below
      BY <1>2
    <2>2. y \in Nat /\ x \in Nat
      BY <1>2
    <2>3. ~ (y < x)
      BY <2>1, <2>2 DEF below, OpToRel
    <2> QED
      BY <2>2, <2>3
  <1> QED
    BY <1>2, <1>3 DEF Min

LEMMA Disk ==
  /\ DISK_INODES \in Nat /\ DISK_INODES >= 3
  /\ Nums \subseteq Nat
  /\ 0 \notin Nums
  /\ 1 \in Nums /\ 2 \in Nums /\ 3 \in Nums
  /\ Entries = 1 .. DISK_INODES + 2
  /\ Bits \subseteq Nat
  <1>1. DISK_INODES \in Nat /\ DISK_INODES >= 3 /\ SMAP_BITS \in Nat
    BY FileTableAssumption, FileSectorsAssumption
  <1> QED
    BY <1>1 DEF Nums, Bits, Entries, MaxEntries

--------------------------------------------------------------------------------
(* The i-node map and the directory.  Whatever entries a deletion has left *)
(* behind the last one, those that count name i-nodes that are allocated,  *)
(* each another one: so there is room for one more.                        *)
Entry == [inode_nr : {0} \cup Nums, name : Paths \cup {".", ""}]

DiskTypes ==
  /\ imap \subseteq Nums
  /\ i_mode \in [Nums -> Modes]
  /\ dir \in [Entries -> Entry]
  /\ nr_dir_entries \in 1 .. DISK_INODES + 1
  /\ stale \in BOOLEAN

DirectoryInside ==
  \A i, j \in 1 .. nr_dir_entries :
    dir[i].inode_nr # 0 =>
      /\ dir[i].inode_nr \in imap
      /\ dir[i].inode_nr = dir[j].inode_nr => i = j

RootStays ==
  /\ ROOT_INODE \in imap
  /\ dir[1] = [inode_nr |-> ROOT_INODE, name |-> "."]
  /\ \A i \in Entries \ {1} : dir[i].inode_nr # ROOT_INODE

DiskInv == DiskTypes /\ DirectoryInside /\ RootStays /\ NumbersApart

LEMMA InitDisk == Init => DiskInv
  <1> SUFFICES ASSUME Init PROVE DiskInv
    OBVIOUS
  <1>1. imap = {1, 2, 3} /\ nr_dir_entries = 3 /\ stale = FALSE
    BY DEF Init
  <1>2. \A i \in Entries : dir[i].inode_nr = (CASE i = 1 -> 1 [] i = 2 -> 2 [] i = 3 -> 3 [] OTHER -> 0)
    BY DEF Init, ROOT_INODE, TTY_INODE, free_entry
  <1>3. 1 .. 3 \subseteq Entries /\ 3 \in 1 .. DISK_INODES + 1
    BY Disk
  <1>4. i_mode \in [Nums -> Modes]
    BY DEF Init, Modes
  <1>5. dir \in [Entries -> Entry]
    <2>1. "echo" \in Paths /\ "tty" \in Paths
      BY FileTableAssumption DEF Paths
    <2>2. ASSUME NEW i \in Entries PROVE dir[i] \in Entry
      BY <2>1, Disk DEF Init, ROOT_INODE, TTY_INODE, free_entry, Entry
    <2> QED
      BY <2>2 DEF Init
  <1>6. DiskTypes
    BY <1>1, <1>3, <1>4, <1>5, Disk DEF DiskTypes
  <1>7. DirectoryInside
    BY <1>1, <1>2, <1>3 DEF DirectoryInside
  <1>8. RootStays
    <2>1. dir[1] = [inode_nr |-> ROOT_INODE, name |-> "."]
      BY <1>3 DEF Init
    <2> QED
      BY <1>1, <1>2, <2>1 DEF RootStays, ROOT_INODE
  <1>9. NumbersApart
    BY <1>1, <1>2 DEF NumbersApart
  <1> QED
    BY <1>6, <1>7, <1>8, <1>9 DEF DiskInv

LEMMA KeepDisk ==
  ASSUME DiskInv, UNCHANGED disk
  PROVE  DiskInv'
  <1>1. /\ imap' = imap /\ i_mode' = i_mode /\ dir' = dir
        /\ nr_dir_entries' = nr_dir_entries /\ stale' = stale
    BY DEF disk
  <1>2. DiskTypes' /\ RootStays'
    BY <1>1 DEF DiskInv, DiskTypes, RootStays
  <1>3. DirectoryInside' /\ NumbersApart'
    BY <1>1 DEF DiskInv, DirectoryInside, NumbersApart
  <1> QED
    BY <1>2, <1>3 DEF DiskInv

(* A file that is found is allocated, and only "/" is the root.            *)
LEMMA Searched ==
  ASSUME DiskInv, NEW path \in Paths
  PROVE  /\ search_file(path) \in {0} \cup Nums
         /\ search_file(path) # 0 /\ ~stale => search_file(path) \in imap
         /\ path # "/" => search_file(path) # ROOT_INODE
  <1> DEFINE found == {i \in searched : dir[i].name = path}
  <1>1. CASE path = "/"
    BY <1>1, Disk DEF search_file, ROOT_INODE, DiskInv, RootStays
  <1>2. CASE path # "/" /\ found = {}
    BY <1>2, Disk DEF search_file, ROOT_INODE
  <1>3. CASE path # "/" /\ found # {}
    <2>1. found \subseteq Entries /\ Entries \subseteq Nat
      BY Disk DEF searched
    <2>2. PICK F : F = found
      OBVIOUS
    <2>3. PICK e \in F : e = Min(F)
      BY <1>3, <2>1, <2>2, Least
    <2>4. e \in Entries /\ dir[e].name = path
      BY <2>1, <2>2, <2>3
    <2>5. search_file(path) = dir[e].inode_nr
      BY <1>3, <2>2, <2>3 DEF search_file
    <2>6. e # 1
      <3>1. path # "."
        BY FileTableAssumption DEF Paths
      <3> QED
        BY <2>4, <3>1 DEF DiskInv, RootStays
    <2>7. dir[e].inode_nr \in {0} \cup Nums
      BY <2>4 DEF DiskInv, DiskTypes, Entry
    <2> QED
      BY <2>4, <2>5, <2>6, <2>7 DEF DiskInv, RootStays, NumbersApart
  <1> QED
    BY <1>1, <1>2, <1>3

LEMMA NewNumber ==
  ASSUME imap \subseteq Nums
  PROVE  alloc_imap_bit = 0 \/ alloc_imap_bit \in Nums \ imap
  <1>1. CASE imap = Nums
    BY <1>1 DEF alloc_imap_bit
  <1>2. CASE imap # Nums
    <2>1. Min(Nums \ imap) \in Nums \ imap
      BY <1>2, Disk, Least
    <2> QED
      BY <1>2, <2>1 DEF alloc_imap_bit
  <1> QED
    BY <1>1, <1>2

(* A directory without a free entry names as many i-nodes as it has        *)
(* entries.                                                                *)
LEMMA Room ==
  ASSUME DiskInv, \A i \in 1 .. nr_dir_entries : dir[i].inode_nr # 0
  PROVE  nr_dir_entries <= DISK_INODES
  <1>1. PICK n : n = nr_dir_entries
    OBVIOUS
  <1>2. n \in Nat /\ 1 .. n \subseteq Entries
    BY <1>1, Disk DEF DiskInv, DiskTypes
  <1>3. PICK f : f = [i \in 1 .. n |-> dir[i].inode_nr]
    OBVIOUS
  <1>4. f \in [1 .. n -> Nums]
    BY <1>1, <1>2, <1>3 DEF DiskInv, DiskTypes, Entry
  <1>5. /\ IsFiniteSet(1 .. n) /\ Cardinality(1 .. n) = n
        /\ IsFiniteSet(Nums) /\ Cardinality(Nums) = DISK_INODES
    <2>1. n >= 1
      BY <1>1 DEF DiskInv, DiskTypes
    <2>2. IsFiniteSet(1 .. n) /\ Cardinality(1 .. n) = n
      BY <1>2, <2>1, FS_Interval
    <2>3. IsFiniteSet(1 .. DISK_INODES) /\ Cardinality(1 .. DISK_INODES) = DISK_INODES
      BY Disk, FS_Interval
    <2> QED
      BY <2>2, <2>3 DEF Nums
  <1>6. ASSUME DISK_INODES < n PROVE FALSE
    <2>1. PICK x, y \in 1 .. n : x # y /\ f[x] = f[y]
      BY <1>4, <1>5, <1>6, FS_PigeonHole
    <2> QED
      BY <1>1, <1>3, <2>1 DEF DiskInv, DirectoryInside
  <1> QED
    BY <1>1, <1>2, <1>6, Disk

(* The entry a new file gets is a free one of the directory or the next.   *)
LEMMA NewEntry ==
  ASSUME DiskInv, NEW num, NEW path, new_dir_entry(num, path)
  PROVE  \E e \in Entries \ {1} :
           /\ dir' = [dir EXCEPT ![e] = [inode_nr |-> num, name |-> path]]
           /\ nr_dir_entries' \in 1 .. DISK_INODES + 1
           /\ 1 .. nr_dir_entries' \subseteq (1 .. nr_dir_entries) \cup {e}
  <1>1. PICK n : n = nr_dir_entries
    OBVIOUS
  <1>2. n \in Nat /\ n >= 1 /\ n <= DISK_INODES + 1 /\ 1 .. n \subseteq Entries
    BY <1>1, Disk DEF DiskInv, DiskTypes
  <1>3. PICK free : free = {i \in 1 .. n : dir[i].inode_nr = 0}
    OBVIOUS
  <1>4. CASE free = {}
    <2>1. dir' = [dir EXCEPT ![n + 1] = [inode_nr |-> num, name |-> path]] /\ nr_dir_entries' = n + 1
      BY <1>1, <1>3, <1>4 DEF new_dir_entry
    <2>2. n <= DISK_INODES
      BY <1>1, <1>3, <1>4, Room
    <2>3. n + 1 \in Entries \ {1} /\ n + 1 \in 1 .. DISK_INODES + 1
      BY <1>2, <2>2, Disk
    <2>4. 1 .. n + 1 \subseteq (1 .. n) \cup {n + 1}
      BY <1>2
    <2> QED
      BY <1>1, <2>1, <2>3, <2>4
  <1>5. CASE free # {}
    <2>0. free \subseteq 1 .. n /\ free \subseteq Nat
      BY <1>3
    <2>1. PICK e \in free : e = Min(free)
      BY <1>5, <2>0, Least
    <2>2. dir' = [dir EXCEPT ![e] = [inode_nr |-> num, name |-> path]] /\ nr_dir_entries' = n
      BY <1>1, <1>3, <1>5, <2>1 DEF new_dir_entry
    <2>3. e \in Entries /\ dir[e].inode_nr = 0
      BY <1>2, <1>3, <2>1
    <2>4. e # 1
      BY <2>3 DEF DiskInv, RootStays, ROOT_INODE
    <2>5. n \in 1 .. DISK_INODES + 1
      BY <1>2, Disk
    <2> QED
      BY <1>1, <2>2, <2>3, <2>4, <2>5
  <1> QED
    BY <1>4, <1>5

LEMMA CreateDisk ==
  ASSUME DiskInv, NEW p \in PROCS, NEW path \in Names, Create(p, path)
  PROVE  DiskInv'
  <1>0. PICK num : num = alloc_imap_bit
    OBVIOUS
  <1>1. /\ imap' = imap \cup ({num} \ {0})
        /\ i_mode' = [n \in Nums |-> IF n = num THEN "regular" ELSE i_mode[n]]
        /\ new_dir_entry(num, path)
        /\ stale' = stale
    BY <1>0 DEF Create
  <1>2. num = 0 \/ num \in Nums \ imap
    BY <1>0, NewNumber DEF DiskInv, DiskTypes
  <1>3. PICK e \in Entries \ {1} :
          /\ dir' = [dir EXCEPT ![e] = [inode_nr |-> num, name |-> path]]
          /\ nr_dir_entries' \in 1 .. DISK_INODES + 1
          /\ 1 .. nr_dir_entries' \subseteq (1 .. nr_dir_entries) \cup {e}
    BY <1>1, NewEntry
  <1>4. dir \in [Entries -> Entry] /\ imap \subseteq Nums /\ i_mode \in [Nums -> Modes]
    BY DEF DiskInv, DiskTypes
  <1>5. \A k \in Entries : dir'[k].inode_nr = IF k = e THEN num ELSE dir[k].inode_nr
    BY <1>3, <1>4
  <1>6. DiskTypes'
    <2>1. [inode_nr |-> num, name |-> path] \in Entry
      BY <1>2 DEF Entry, Paths
    <2>2. dir' \in [Entries -> Entry]
      BY <1>3, <1>4, <2>1
    <2>3. imap' \subseteq Nums /\ i_mode' \in [Nums -> Modes]
      BY <1>1, <1>2, <1>4 DEF Modes
    <2>4. stale' \in BOOLEAN
      BY <1>1 DEF DiskInv, DiskTypes
    <2> QED
      BY <1>3, <2>2, <2>3, <2>4 DEF DiskTypes
  <1>7. 1 .. nr_dir_entries \subseteq Entries /\ 1 .. nr_dir_entries' \subseteq Entries
    BY <1>3, Disk DEF DiskInv, DiskTypes
  <1>8. DirectoryInside'
    <2> SUFFICES ASSUME NEW i \in 1 .. nr_dir_entries', NEW j \in 1 .. nr_dir_entries',
                        dir'[i].inode_nr # 0
                 PROVE  /\ dir'[i].inode_nr \in imap'
                        /\ dir'[i].inode_nr = dir'[j].inode_nr => i = j
      BY DEF DirectoryInside
    <2>1. /\ i \in Entries /\ j \in Entries
          /\ i = e \/ i \in 1 .. nr_dir_entries
          /\ j = e \/ j \in 1 .. nr_dir_entries
      BY <1>3, <1>7
    <2>2. ASSUME NEW k \in 1 .. nr_dir_entries PROVE dir[k].inode_nr \in imap \cup {0}
      BY DEF DiskInv, DirectoryInside
    <2>3. dir'[i].inode_nr \in imap'
      BY <1>1, <1>5, <2>1, <2>2
    <2>4. dir'[i].inode_nr = dir'[j].inode_nr => i = j
      <3>1. CASE i = e /\ j # e
        BY <1>2, <1>5, <2>1, <2>2, <3>1
      <3>2. CASE i # e /\ j = e
        BY <1>2, <1>5, <2>1, <2>2, <3>2
      <3>3. CASE i # e /\ j # e
        BY <1>5, <2>1, <3>3 DEF DiskInv, DirectoryInside
      <3> QED
        BY <3>1, <3>2, <3>3
    <2> QED
      BY <2>3, <2>4
  <1>9. RootStays'
    <2>1. ROOT_INODE \in imap /\ ROOT_INODE # 0
      BY DEF DiskInv, RootStays, ROOT_INODE
    <2>2. 1 \in Entries
      BY Disk
    <2>3. dir'[1] = [inode_nr |-> ROOT_INODE, name |-> "."]
      BY <1>3, <1>4, <2>2 DEF DiskInv, RootStays
    <2>4. \A i \in Entries \ {1} : dir'[i].inode_nr # ROOT_INODE
      BY <1>2, <1>5, <2>1 DEF DiskInv, RootStays
    <2> QED
      BY <1>1, <2>1, <2>3, <2>4 DEF RootStays
  <1>10. NumbersApart'
    <2> SUFFICES ASSUME ~stale', NEW i \in Entries, NEW j \in Entries, dir'[i].inode_nr # 0
                 PROVE  /\ dir'[i].inode_nr \in imap'
                        /\ dir'[i].inode_nr = dir'[j].inode_nr => i = j
      BY DEF NumbersApart
    <2>1. ASSUME NEW k \in Entries PROVE dir[k].inode_nr # num \/ num = 0
      BY <1>1, <1>2 DEF DiskInv, NumbersApart
    <2>2. dir'[i].inode_nr \in imap'
      BY <1>1, <1>5 DEF DiskInv, NumbersApart
    <2>3. dir'[i].inode_nr = dir'[j].inode_nr => i = j
      BY <1>1, <1>5, <2>1 DEF DiskInv, NumbersApart
    <2> QED
      BY <2>2, <2>3
  <1> QED
    BY <1>6, <1>8, <1>9, <1>10 DEF DiskInv

(* sys_delete() clears the only entry that counts, or finds none.          *)
LEMMA Cleared ==
  ASSUME DiskInv, NEW num \in Nums \ {ROOT_INODE}, clear_entry(num)
  PROVE  \/ /\ stale' = TRUE /\ dir' = dir /\ nr_dir_entries' = nr_dir_entries
            /\ \A i \in 1 .. nr_dir_entries : dir[i].inode_nr # num
         \/ /\ stale' = stale
            /\ nr_dir_entries' \in 1 .. nr_dir_entries
            /\ \E e \in Entries \ {1} : /\ dir[e].inode_nr = num
                                        /\ e \in 1 .. nr_dir_entries
                                        /\ dir' = [dir EXCEPT ![e] = free_entry]
  <1>1. PICK n : n = nr_dir_entries
    OBVIOUS
  <1>2. n \in Nat /\ n >= 1 /\ n <= DISK_INODES + 1 /\ 1 .. n \subseteq Entries
    BY <1>1, Disk DEF DiskInv, DiskTypes
  <1>3. PICK E : E = entries_of(num)
    OBVIOUS
  <1>4. E = {i \in 1 .. n : dir[i].inode_nr = num}
    BY <1>1, <1>2, <1>3, Disk DEF entries_of
  <1>5. CASE E = {}
    BY <1>1, <1>3, <1>4, <1>5 DEF clear_entry
  <1>6. CASE E # {}
    <2>0. E \subseteq 1 .. n /\ E \subseteq Nat
      BY <1>4
    <2>1. PICK e \in E : e = Min(E)
      BY <1>6, <2>0, Least
    <2>2. /\ dir' = [dir EXCEPT ![e] = free_entry]
          /\ nr_dir_entries' = IF e = n THEN Cardinality({i \in 1 .. e - 1 : dir[i].inode_nr # 0})
                               ELSE n
          /\ stale' = stale
      BY <1>1, <1>3, <1>6, <2>1 DEF clear_entry
    <2>3. e \in 1 .. n /\ e \in Entries /\ dir[e].inode_nr = num
      BY <1>2, <1>4, <2>1
    <2>4. e # 1
      BY <2>3 DEF DiskInv, RootStays
    <2>5. nr_dir_entries' \in 1 .. n
      <3>1. PICK U : U = {i \in 1 .. e - 1 : dir[i].inode_nr # 0}
        OBVIOUS
      <3>2. IsFiniteSet(1 .. e - 1) /\ Cardinality(1 .. e - 1) = e - 1
        BY <2>3, <2>4, FS_Interval
      <3>3. IsFiniteSet(U) /\ Cardinality(U) <= e - 1
        BY <3>1, <3>2, FS_Subset
      <3>4. 1 \in U
        BY <2>3, <2>4, <3>1 DEF DiskInv, RootStays, ROOT_INODE
      <3>5. Cardinality(U) \in Nat /\ Cardinality(U) # 0
        BY <3>3, <3>4, FS_CardinalityType, FS_EmptySet
      <3>6. Cardinality(U) \in 1 .. n
        BY <1>2, <2>3, <3>3, <3>5
      <3> QED
        BY <1>2, <2>2, <3>1, <3>6
    <2> QED
      BY <1>1, <2>2, <2>3, <2>4, <2>5
  <1> QED
    BY <1>5, <1>6

LEMMA DeleteDisk ==
  ASSUME DiskInv, NEW path \in Paths, Delete(path)
  PROVE  DiskInv'
  <1>0. PICK num : num = search_file(path)
    OBVIOUS
  <1>1. num \in Nums \ {ROOT_INODE}
    BY <1>0, Searched DEF Delete
  <1>2. CASE refused(num)
    BY <1>0, <1>2, KeepDisk DEF Delete
  <1>3. CASE ~refused(num)
    <2>1. imap' = imap \ {num} /\ i_mode' = [i_mode EXCEPT ![num] = "none"] /\ clear_entry(num)
      BY <1>0, <1>3 DEF Delete
    <2>2. dir \in [Entries -> Entry] /\ imap \subseteq Nums /\ i_mode \in [Nums -> Modes]
      BY DEF DiskInv, DiskTypes
    <2>3. imap' \subseteq Nums /\ i_mode' \in [Nums -> Modes] /\ ROOT_INODE \in imap'
      BY <1>1, <2>1, <2>2 DEF Modes, DiskInv, RootStays
    <2>4. CASE /\ stale' = TRUE /\ dir' = dir /\ nr_dir_entries' = nr_dir_entries
               /\ \A i \in 1 .. nr_dir_entries : dir[i].inode_nr # num
      <3>1. DiskTypes'
        BY <2>3, <2>4 DEF DiskInv, DiskTypes
      <3>2. DirectoryInside'
        BY <2>1, <2>4 DEF DiskInv, DirectoryInside
      <3>3. RootStays'
        BY <2>3, <2>4 DEF DiskInv, RootStays
      <3>4. NumbersApart'
        BY <2>4 DEF NumbersApart
      <3> QED
        BY <3>1, <3>2, <3>3, <3>4 DEF DiskInv
    <2>5. ASSUME stale' = stale, nr_dir_entries' \in 1 .. nr_dir_entries,
                 NEW e \in Entries \ {1}, dir[e].inode_nr = num, e \in 1 .. nr_dir_entries,
                 dir' = [dir EXCEPT ![e] = free_entry]
          PROVE  DiskInv'
      <3>1. \A k \in Entries : dir'[k].inode_nr = IF k = e THEN 0 ELSE dir[k].inode_nr
        BY <2>2, <2>5 DEF free_entry
      <3>2. /\ nr_dir_entries' \in 1 .. DISK_INODES + 1
            /\ 1 .. nr_dir_entries' \subseteq 1 .. nr_dir_entries
            /\ 1 .. nr_dir_entries \subseteq Entries
        BY <2>5, Disk DEF DiskInv, DiskTypes
      <3>3. DiskTypes'
        <4>1. free_entry \in Entry
          BY DEF free_entry, Entry
        <4>2. dir' \in [Entries -> Entry]
          BY <2>2, <2>5, <4>1
        <4>3. stale' \in BOOLEAN
          BY <2>5 DEF DiskInv, DiskTypes
        <4> QED
          BY <2>3, <3>2, <4>2, <4>3 DEF DiskTypes
      <3>4. DirectoryInside'
        <4> SUFFICES ASSUME NEW i \in 1 .. nr_dir_entries', NEW j \in 1 .. nr_dir_entries',
                            dir'[i].inode_nr # 0
                     PROVE  /\ dir'[i].inode_nr \in imap'
                            /\ dir'[i].inode_nr = dir'[j].inode_nr => i = j
          BY DEF DirectoryInside
        <4>1. /\ i \in 1 .. nr_dir_entries /\ j \in 1 .. nr_dir_entries
              /\ i \in Entries /\ j \in Entries
          BY <3>2
        <4>2. i # e /\ dir[i].inode_nr # num
          BY <1>1, <2>5, <3>1, <4>1, Disk DEF DiskInv, DirectoryInside
        <4> QED
          BY <2>1, <3>1, <4>1, <4>2 DEF DiskInv, DirectoryInside
      <3>5. RootStays'
        <4>1. 1 \in Entries
          BY Disk
        <4>2. dir'[1] = [inode_nr |-> ROOT_INODE, name |-> "."]
          BY <2>2, <2>5, <4>1 DEF DiskInv, RootStays
        <4>3. \A i \in Entries \ {1} : dir'[i].inode_nr # ROOT_INODE
          BY <3>1 DEF DiskInv, RootStays, ROOT_INODE
        <4> QED
          BY <2>3, <4>2, <4>3 DEF RootStays
      <3>6. NumbersApart'
        <4> SUFFICES ASSUME ~stale', NEW i \in Entries, NEW j \in Entries, dir'[i].inode_nr # 0
                     PROVE  /\ dir'[i].inode_nr \in imap'
                            /\ dir'[i].inode_nr = dir'[j].inode_nr => i = j
          BY DEF NumbersApart
        <4>1. i # e /\ dir[i].inode_nr # num
          BY <1>1, <2>5, <3>1, Disk DEF DiskInv, NumbersApart
        <4> QED
          BY <2>1, <2>5, <3>1, <4>1 DEF DiskInv, NumbersApart
      <3> QED
        BY <3>3, <3>4, <3>5, <3>6 DEF DiskInv
    <2> QED
      BY <1>1, <2>1, <2>4, <2>5, Cleared
  <1> QED
    BY <1>2, <1>3

--------------------------------------------------------------------------------
(* Descriptors and the i-nodes in memory.  A descriptor with an i-node has *)
(* been closed by nobody since it was opened; an i-node that is counted is *)
(* a copy of the one on the disk, and the only one.                        *)
TableTypes ==
  /\ live \subseteq PROCS
  /\ filp \in [PROCS -> [-1 .. NR_FILES - 1 -> {NIL} \cup Descs]]
  /\ f_desc_table \in [Descs -> [fd_inode : {NULL} \cup Slots, fd_cnt : Int]]
  /\ inode_table \in [Slots -> [i_num : {0} \cup Nums, i_cnt : Int, i_mode : Modes]]

OpenedOnce ==
  \A d \in Descs : f_desc_table[d].fd_inode # NULL => f_desc_table[d].fd_cnt = 1

Copies ==
  ~stale => \A s \in Slots : inode_table[s].i_cnt # 0 =>
    /\ inode_table[s].i_num \in imap
    /\ inode_table[s].i_mode = i_mode[inode_table[s].i_num]
    /\ \A t \in Slots :
         inode_table[t].i_cnt # 0 /\ inode_table[t].i_num = inode_table[s].i_num => s = t

TableInv == TableTypes /\ OpenedOnce /\ Copies /\ NoDangling

FileInv == DiskInv /\ TableInv

LEMMA SlotsAndDescs ==
  /\ Slots \subseteq Nat /\ NULL \notin Slots /\ 1 \in Slots
  /\ Files \subseteq Descs /\ Files \subseteq -1 .. NR_FILES - 1
  /\ -1 \in -1 .. NR_FILES - 1
  /\ Files \subseteq Nat /\ NR_FILES \in Descs
  /\ IsFiniteSet(Descs)
  <1>1. NR_FILES \in Nat \ {0} /\ NR_INODE \in Nat \ {0}
    BY FileTableAssumption
  <1>2. IsFiniteSet(0 .. NR_FILES)
    BY <1>1, FS_Interval
  <1> QED
    BY <1>1, <1>2 DEF Slots, NULL, Files, Descs

LEMMA RefsType ==
  \A s : /\ IsFiniteSet({d \in Descs : f_desc_table[d].fd_inode = s})
         /\ refs(s) \in Nat
         /\ refs(s)' \in Nat
  <1> SUFFICES ASSUME NEW s
               PROVE  /\ IsFiniteSet({d \in Descs : f_desc_table[d].fd_inode = s})
                      /\ refs(s) \in Nat /\ refs(s)' \in Nat
    OBVIOUS
  <1>1. ASSUME NEW f
        PROVE  /\ IsFiniteSet({d \in Descs : f[d].fd_inode = s})
               /\ Cardinality({d \in Descs : f[d].fd_inode = s}) \in Nat
    <2>1. {d \in Descs : f[d].fd_inode = s} \in SUBSET Descs
      OBVIOUS
    <2> QED
      BY <2>1, SlotsAndDescs, FS_Subset, FS_CardinalityType
  <1>2. Cardinality({d \in Descs : f_desc_table[d].fd_inode = s}) \in Nat
    BY <1>1
  <1>3. Cardinality({d \in Descs : f_desc_table'[d].fd_inode = s}) \in Nat
    BY <1>1
  <1> QED
    BY <1>1, <1>2, <1>3 DEF refs

(* What a descriptor refers to is referred to.                             *)
LEMMA Referred ==
  ASSUME NEW d \in Descs
  PROVE  refs(f_desc_table[d].fd_inode) >= 1
  <1>1. PICK s : s = f_desc_table[d].fd_inode
    OBVIOUS
  <1>2. PICK H : H = {e \in Descs : f_desc_table[e].fd_inode = s}
    OBVIOUS
  <1>3. d \in H /\ IsFiniteSet(H)
    BY <1>1, <1>2, RefsType
  <1>4. Cardinality(H) \in Nat /\ Cardinality(H) # 0
    BY <1>3, FS_CardinalityType, FS_EmptySet
  <1>5. refs(s) >= 1
    BY <1>2, <1>4 DEF refs
  <1> QED
    BY <1>1, <1>5

(* What slot() returns.                                                    *)
LEMMA SlotCases ==
  ASSUME NEW num
  PROVE  \/ slot(num) = NULL /\ (num = 0 \/ cached(num) = {})
         \/ num # 0 /\ slot(num) \in cached(num)
         \/ num # 0 /\ cached(num) = {} /\ slot(num) \in free_slots
  <1>1. cached(num) \subseteq Nat /\ free_slots \subseteq Nat
    BY SlotsAndDescs DEF cached, free_slots
  <1>2. PICK C, F : C = cached(num) /\ F = free_slots
    OBVIOUS
  <1>3. (C # {} => Min(C) \in C) /\ (F # {} => Min(F) \in F)
    BY <1>1, <1>2, Least
  <1>4. slot(num) = IF num = 0 THEN NULL ELSE IF C # {} THEN Min(C)
                    ELSE IF F # {} THEN Min(F) ELSE NULL
    BY <1>2 DEF slot
  <1> QED
    BY <1>2, <1>3, <1>4

(* get_inode() counts its slot once more, and fills it if it was free.     *)
LEMMA GetInode ==
  ASSUME TableTypes, DiskTypes, NEW num \in {0} \cup Nums, NEW T, T = get_inode(num)
  PROVE  /\ T \in [Slots -> [i_num : {0} \cup Nums, i_cnt : Int, i_mode : Modes]]
         /\ \A s \in Slots : s # slot(num) => T[s] = inode_table[s]
         /\ slot(num) # NULL =>
              /\ slot(num) \in Slots
              /\ T[slot(num)].i_num = num
              /\ T[slot(num)].i_cnt = inode_table[slot(num)].i_cnt + 1
              /\ T[slot(num)].i_mode = IF cached(num) = {} THEN i_mode[num]
                                       ELSE inode_table[slot(num)].i_mode
  <1> DEFINE Inode == [i_num : {0} \cup Nums, i_cnt : Int, i_mode : Modes]
  <1>1. PICK s : s = slot(num)
    OBVIOUS
  <1>2. inode_table \in [Slots -> Inode]
    BY DEF TableTypes
  <1>3. CASE s = NULL
    BY <1>1, <1>2, <1>3, SlotsAndDescs DEF get_inode
  <1>4. CASE num # 0 /\ s \in cached(num)
    <2>1. s \in Slots /\ s # NULL /\ inode_table[s].i_num = num
      BY <1>4, SlotsAndDescs DEF cached
    <2>2. T = [inode_table EXCEPT ![s] = [inode_table[s] EXCEPT !.i_cnt = inode_table[s].i_cnt + 1]]
      BY <1>1, <1>4, <2>1 DEF get_inode
    <2>3. inode_table[s] \in Inode
      BY <1>2, <2>1
    <2>4. PICK r : r = [inode_table[s] EXCEPT !.i_cnt = inode_table[s].i_cnt + 1]
      OBVIOUS
    <2>5. /\ r \in Inode /\ r.i_num = num
          /\ r.i_cnt = inode_table[s].i_cnt + 1 /\ r.i_mode = inode_table[s].i_mode
      BY <2>1, <2>3, <2>4
    <2>6. T \in [Slots -> Inode] /\ T[s] = r /\ \A t \in Slots : t # s => T[t] = inode_table[t]
      BY <1>2, <2>1, <2>2, <2>4, <2>5
    <2> QED
      BY <1>1, <1>4, <2>1, <2>5, <2>6
  <1>5. CASE num # 0 /\ cached(num) = {} /\ s \in free_slots
    <2>1. s \in Slots /\ s # NULL /\ inode_table[s].i_cnt = 0
      BY <1>5, SlotsAndDescs DEF free_slots
    <2>2. T = [inode_table EXCEPT ![s] = [i_num |-> num, i_cnt |-> 1, i_mode |-> i_mode[num]]]
      BY <1>1, <1>5, <2>1 DEF get_inode
    <2>3. [i_num |-> num, i_cnt |-> 1, i_mode |-> i_mode[num]] \in Inode
      BY <1>5 DEF DiskTypes
    <2>4. /\ T \in [Slots -> Inode]
          /\ T[s] = [i_num |-> num, i_cnt |-> 1, i_mode |-> i_mode[num]]
          /\ \A t \in Slots : t # s => T[t] = inode_table[t]
      BY <1>2, <2>1, <2>2, <2>3
    <2> QED
      BY <1>1, <1>5, <2>1, <2>4
  <1> QED
    BY <1>1, <1>3, <1>4, <1>5, SlotCases

(* If the i-node is allocated, the copies stay what they are.              *)
LEMMA GetCopies ==
  ASSUME DiskInv, TableInv, NEW num \in {0} \cup Nums,
         num # 0 /\ ~stale => num \in imap,
         inode_table' = get_inode(num), UNCHANGED disk
  PROVE  Copies'
  <1> SUFFICES ASSUME ~stale', NEW s \in Slots, inode_table'[s].i_cnt # 0
               PROVE  /\ inode_table'[s].i_num \in imap'
                      /\ inode_table'[s].i_mode = i_mode'[inode_table'[s].i_num]
                      /\ \A t \in Slots :
                           inode_table'[t].i_cnt # 0 /\ inode_table'[t].i_num = inode_table'[s].i_num
                             => s = t
    BY DEF Copies
  <1>1. ~stale /\ imap' = imap /\ i_mode' = i_mode
    BY DEF disk
  <1>2. PICK g : g = slot(num)
    OBVIOUS
  <1>3. /\ \A t \in Slots : t # g => inode_table'[t] = inode_table[t]
        /\ g # NULL => /\ g \in Slots
                       /\ inode_table'[g].i_num = num
                       /\ inode_table'[g].i_mode = IF cached(num) = {} THEN i_mode[num]
                                                   ELSE inode_table[g].i_mode
    BY <1>2, GetInode DEF DiskInv, TableInv
  <1>4. g # NULL => /\ num # 0
                    /\ g \in cached(num) \/ cached(num) = {}
    BY <1>2, SlotCases
  <1>5. g # NULL => /\ inode_table'[g].i_mode = i_mode[num]
                    /\ \A t \in Slots : t # g /\ inode_table[t].i_cnt # 0 => inode_table[t].i_num # num
    <2>1. CASE g # NULL /\ g \in cached(num)
      BY <1>1, <1>3, <2>1 DEF TableInv, Copies, cached
    <2>2. CASE g # NULL /\ cached(num) = {}
      BY <1>3, <2>2 DEF cached
    <2> QED
      BY <1>4, <2>1, <2>2
  <1>6. CASE s = g
    <2>1. g # NULL
      BY <1>6, SlotsAndDescs
    <2> QED
      BY <1>1, <1>3, <1>4, <1>5, <1>6, <2>1
  <1>7. CASE s # g
    <2>1. /\ inode_table'[s] = inode_table[s]
          /\ inode_table[s].i_num \in imap /\ inode_table[s].i_mode = i_mode[inode_table[s].i_num]
      BY <1>1, <1>3, <1>7 DEF TableInv, Copies
    <2>2. ASSUME NEW t \in Slots, inode_table'[t].i_cnt # 0,
                 inode_table'[t].i_num = inode_table'[s].i_num
          PROVE  s = t
      <3>1. t # g
        <4>1. t = g => g # NULL
          BY SlotsAndDescs
        <4> QED
          BY <1>3, <1>5, <1>7, <2>1, <2>2, <4>1
      <3> QED
        BY <1>1, <1>3, <2>1, <2>2, <3>1 DEF TableInv, Copies
    <2> QED
      BY <1>1, <2>1, <2>2
  <1> QED
    BY <1>6, <1>7

(* A call that opens nothing only raises counts.                           *)
LEMMA GetTable ==
  ASSUME DiskInv, TableInv, NEW num \in {0} \cup Nums,
         num # 0 /\ ~stale => num \in imap,
         inode_table' = get_inode(num), UNCHANGED <<live, filp, f_desc_table, disk>>
  PROVE  TableInv'
  <1>1. Copies'
    BY GetCopies
  <1>2. TableTypes'
    <2>1. inode_table' \in [Slots -> [i_num : {0} \cup Nums, i_cnt : Int, i_mode : Modes]]
      BY GetInode DEF DiskInv, TableInv
    <2> QED
      BY <2>1 DEF TableInv, TableTypes
  <1>3. OpenedOnce'
    BY DEF TableInv, OpenedOnce
  <1>4. NoDangling'
    <2> SUFFICES ASSUME ~stale', NEW s \in Slots PROVE inode_table'[s].i_cnt >= refs(s)'
      BY DEF NoDangling
    <2>1. refs(s)' = refs(s) /\ refs(s) \in Nat
      BY RefsType DEF refs
    <2>2. inode_table[s].i_cnt >= refs(s) /\ inode_table[s].i_cnt \in Int
      BY DEF disk, TableInv, TableTypes, NoDangling
    <2>3. inode_table'[s].i_cnt \in {inode_table[s].i_cnt, inode_table[s].i_cnt + 1}
      <3>1. PICK g : g = slot(num)
        OBVIOUS
      <3>2. /\ s # g => inode_table'[s] = inode_table[s]
            /\ g # NULL => inode_table'[g].i_cnt = inode_table[g].i_cnt + 1
        BY <3>1, GetInode DEF DiskInv, TableInv
      <3> QED
        BY <3>2, SlotsAndDescs
    <2> QED
      BY <2>1, <2>2, <2>3
  <1> QED
    BY <1>1, <1>2, <1>3, <1>4 DEF TableInv

(* connect() adds a reference to its i-node, and may drop another's.       *)
LEMMA Connected ==
  ASSUME TableTypes, OpenedOnce, NEW p \in PROCS, NEW pin \in Slots, connect(p, pin)
  PROVE  /\ filp' \in [PROCS -> [-1 .. NR_FILES - 1 -> {NIL} \cup Descs]]
         /\ f_desc_table' \in [Descs -> [fd_inode : {NULL} \cup Slots, fd_cnt : Int]]
         /\ OpenedOnce'
         /\ \A s \in Slots : refs(s)' <= refs(s) + (IF s = pin THEN 1 ELSE 0)
  <1>1. PICK fd : fd = free_fd(p)
    OBVIOUS
  <1>2. fd = -1 \/ fd \in Files
    <2>1. PICK F : F = free_fds(p)
      OBVIOUS
    <2>2. F \subseteq Files /\ F \subseteq Nat
      BY <2>1, SlotsAndDescs DEF free_fds
    <2>3. F # {} => Min(F) \in F
      BY <2>2, Least
    <2> QED
      BY <1>1, <2>1, <2>2, <2>3 DEF free_fd
  <1>3. PICK i : i = IF fd = -1 THEN NR_FILES ELSE fd
    OBVIOUS
  <1>4. i \in Descs /\ fd \in -1 .. NR_FILES - 1
    BY <1>2, <1>3, SlotsAndDescs
  <1>5. /\ filp' = [filp EXCEPT ![p][fd] = i]
        /\ f_desc_table' = [f_desc_table EXCEPT ![i] = [fd_inode |-> pin, fd_cnt |-> 1]]
    BY <1>1, <1>3 DEF connect
  <1>6. filp' \in [PROCS -> [-1 .. NR_FILES - 1 -> {NIL} \cup Descs]]
    BY <1>4, <1>5 DEF TableTypes
  <1>7. f_desc_table' \in [Descs -> [fd_inode : {NULL} \cup Slots, fd_cnt : Int]]
    <2>1. [fd_inode |-> pin, fd_cnt |-> 1] \in [fd_inode : {NULL} \cup Slots, fd_cnt : Int]
      OBVIOUS
    <2> QED
      BY <1>4, <1>5, <2>1 DEF TableTypes
  <1>8. \A d \in Descs : f_desc_table'[d] = IF d = i THEN [fd_inode |-> pin, fd_cnt |-> 1]
                                            ELSE f_desc_table[d]
    BY <1>5 DEF TableTypes
  <1>9. OpenedOnce'
    BY <1>8 DEF OpenedOnce
  <1>10. ASSUME NEW s \in Slots PROVE refs(s)' <= refs(s) + (IF s = pin THEN 1 ELSE 0)
    <2>1. PICK H, K : /\ H = {d \in Descs : f_desc_table[d].fd_inode = s}
                      /\ K = {d \in Descs : f_desc_table'[d].fd_inode = s}
      OBVIOUS
    <2>2. IsFiniteSet(H) /\ Cardinality(H) \in Nat
      BY <2>1, RefsType, FS_CardinalityType
    <2>3. refs(s) = Cardinality(H) + (IF s = 1 THEN 1 ELSE 0)
      BY <2>1 DEF refs
    <2>4. refs(s)' = Cardinality(K) + (IF s = 1 THEN 1 ELSE 0)
      BY <2>1 DEF refs
    <2>5. CASE s = pin
      <3>1. K \subseteq H \cup {i}
        BY <1>8, <2>1
      <3>2. IsFiniteSet(H \cup {i}) /\ Cardinality(H \cup {i}) <= Cardinality(H) + 1
        BY <2>2, FS_AddElement
      <3>3. Cardinality(K) <= Cardinality(H \cup {i}) /\ IsFiniteSet(K)
        BY <3>1, <3>2, FS_Subset
      <3>4. Cardinality(K) \in Nat /\ Cardinality(H \cup {i}) \in Nat
        BY <3>2, <3>3, FS_CardinalityType
      <3> QED
        BY <2>2, <2>3, <2>4, <2>5, <3>2, <3>3, <3>4
    <2>6. CASE s # pin
      <3>1. K \subseteq H
        BY <1>8, <2>1, <2>6
      <3>2. Cardinality(K) <= Cardinality(H) /\ IsFiniteSet(K)
        BY <2>2, <3>1, FS_Subset
      <3>3. Cardinality(K) \in Nat
        BY <3>2, FS_CardinalityType
      <3> QED
        BY <2>2, <2>3, <2>4, <2>6, <3>2, <3>3
    <2> QED
      BY <2>5, <2>6
  <1> QED
    BY <1>6, <1>7, <1>9, <1>10

--------------------------------------------------------------------------------
LEMMA InitTable == Init => TableInv
  <1> SUFFICES ASSUME Init PROVE TableInv
    OBVIOUS
  <1>1. inode_table = [s \in Slots |->
          IF s = 1 THEN [i_num |-> ROOT_INODE, i_cnt |-> 1, i_mode |-> "directory"]
          ELSE [i_num |-> 0, i_cnt |-> 0, i_mode |-> "none"]]
    BY DEF Init
  <1>2. \A d \in Descs : f_desc_table[d].fd_inode = NULL
    BY DEF Init
  <1>3. TableTypes
    <2>1. live \subseteq PROCS
      BY FileTableAssumption DEF Init
    <2>2. filp \in [PROCS -> [-1 .. NR_FILES - 1 -> {NIL} \cup Descs]]
      BY DEF Init
    <2>3. f_desc_table \in [Descs -> [fd_inode : {NULL} \cup Slots, fd_cnt : Int]]
      BY DEF Init
    <2>4. ASSUME NEW s \in Slots
          PROVE  inode_table[s] \in [i_num : {0} \cup Nums, i_cnt : Int, i_mode : Modes]
      BY <1>1, Disk DEF ROOT_INODE, Modes
    <2>5. inode_table \in [Slots -> [i_num : {0} \cup Nums, i_cnt : Int, i_mode : Modes]]
      BY <1>1, <2>4
    <2> QED
      BY <2>1, <2>2, <2>3, <2>5 DEF TableTypes
  <1>4. OpenedOnce
    BY <1>2 DEF OpenedOnce
  <1>5. Copies
    <2>1. \A s \in Slots : inode_table[s].i_cnt # 0 => s = 1
      BY <1>1
    <2>2. inode_table[1] = [i_num |-> 1, i_cnt |-> 1, i_mode |-> "directory"]
      BY <1>1, SlotsAndDescs DEF ROOT_INODE
    <2>3. imap = {1, 2, 3} /\ i_mode[1] = "directory"
      BY Disk DEF Init, ROOT_INODE, TTY_INODE
    <2> QED
      BY <2>1, <2>2, <2>3 DEF Copies
  <1>6. NoDangling
    <2> SUFFICES ASSUME NEW s \in Slots PROVE inode_table[s].i_cnt >= refs(s)
      BY DEF NoDangling
    <2>1. PICK H : H = {d \in Descs : f_desc_table[d].fd_inode = s}
      OBVIOUS
    <2>2. H = {}
      BY <1>2, <2>1, SlotsAndDescs DEF NULL
    <2>3. Cardinality(H) = 0
      BY <2>2, FS_EmptySet
    <2>4. refs(s) = IF s = 1 THEN 1 ELSE 0
      BY <2>1, <2>3 DEF refs
    <2>5. inode_table[s].i_cnt = IF s = 1 THEN 1 ELSE 0
      BY <1>1
    <2> QED
      BY <2>4, <2>5
  <1> QED
    BY <1>3, <1>4, <1>5, <1>6 DEF TableInv

LEMMA OpenTable ==
  ASSUME FileInv, NEW p \in PROCS, NEW path \in Paths, Open(p, path)
  PROVE  TableInv'
  <1> USE DEF FileInv, TableInv
  <1>1. PICK num : num = search_file(path)
    OBVIOUS
  <1>2. num \in {0} \cup Nums /\ (num # 0 /\ ~stale => num \in imap)
    BY <1>1, Searched
  <1>3. /\ slot(num) # NULL /\ connect(p, slot(num)) /\ inode_table' = get_inode(num)
        /\ live' = live /\ UNCHANGED disk
    BY <1>1 DEF Open
  <1>4. PICK g : g = slot(num)
    OBVIOUS
  <1>5. /\ inode_table' \in [Slots -> [i_num : {0} \cup Nums, i_cnt : Int, i_mode : Modes]]
        /\ \A s \in Slots : s # g => inode_table'[s] = inode_table[s]
        /\ g \in Slots /\ inode_table'[g].i_cnt = inode_table[g].i_cnt + 1
    BY <1>2, <1>3, <1>4, GetInode DEF DiskInv
  <1>6. /\ filp' \in [PROCS -> [-1 .. NR_FILES - 1 -> {NIL} \cup Descs]]
        /\ f_desc_table' \in [Descs -> [fd_inode : {NULL} \cup Slots, fd_cnt : Int]]
        /\ OpenedOnce'
        /\ \A s \in Slots : refs(s)' <= refs(s) + (IF s = g THEN 1 ELSE 0)
    BY <1>3, <1>4, <1>5, Connected
  <1>7. TableTypes'
    BY <1>3, <1>5, <1>6 DEF TableTypes
  <1>8. Copies'
    BY <1>2, <1>3, GetCopies
  <1>9. NoDangling'
    <2> SUFFICES ASSUME ~stale', NEW s \in Slots PROVE inode_table'[s].i_cnt >= refs(s)'
      BY DEF NoDangling
    <2>1. inode_table[s].i_cnt >= refs(s) /\ inode_table[s].i_cnt \in Int
      BY <1>3 DEF disk, TableTypes, NoDangling
    <2>2. refs(s) \in Nat /\ refs(s)' \in Nat
      BY RefsType
    <2>3. refs(s)' <= refs(s) + (IF s = g THEN 1 ELSE 0)
      BY <1>6
    <2> QED
      BY <1>5, <2>1, <2>2, <2>3
  <1> QED
    BY <1>6, <1>7, <1>8, <1>9

(* No copy of the number is in memory, so the slot it gets is free.        *)
LEMMA CreateTable ==
  ASSUME FileInv, NEW p \in PROCS, NEW path \in Names, Create(p, path)
  PROVE  TableInv'
  <1> USE DEF FileInv, TableInv
  <1>1. PICK num : num = alloc_imap_bit
    OBVIOUS
  <1>2. num = 0 \/ num \in Nums \ imap
    BY <1>1, NewNumber DEF DiskInv, DiskTypes
  <1>3. PICK g : g = slot(num)
    OBVIOUS
  <1>4. /\ imap' = imap \cup ({num} \ {0})
        /\ i_mode' = [n \in Nums |-> IF n = num THEN "regular" ELSE i_mode[n]]
        /\ live' = live /\ stale' = stale
        /\ g = NULL => UNCHANGED <<filp, f_desc_table, inode_table>>
        /\ g # NULL => /\ connect(p, g)
                       /\ inode_table' = [inode_table EXCEPT ![g] =
                            [i_num |-> num, i_cnt |-> 1, i_mode |-> "regular"]]
    BY <1>1, <1>3 DEF Create
  <1>5. \A n \in imap : n # num /\ i_mode'[n] = i_mode[n]
    BY <1>2, <1>4, Disk DEF DiskInv, DiskTypes
  <1>6. ASSUME ~stale, NEW s \in Slots, inode_table[s].i_cnt # 0
        PROVE  /\ inode_table[s].i_num \in imap' /\ inode_table[s].i_num # num
               /\ inode_table[s].i_mode = i_mode'[inode_table[s].i_num]
    BY <1>4, <1>5, <1>6 DEF Copies
  <1>7. CASE g = NULL
    <2>1. UNCHANGED <<live, filp, f_desc_table, inode_table, stale>>
      BY <1>4, <1>7
    <2>2. TableTypes' /\ OpenedOnce'
      BY <2>1 DEF TableTypes, OpenedOnce
    <2>3. Copies'
      BY <1>6, <2>1 DEF Copies
    <2>4. NoDangling'
      BY <2>1 DEF NoDangling, refs
    <2> QED
      BY <2>2, <2>3, <2>4
  <1>8. CASE g # NULL
    <2>1. g \in Slots /\ num \in Nums
      <3>1. num # 0 /\ (g \in cached(num) \/ g \in free_slots)
        BY <1>3, <1>8, SlotCases
      <3> QED
        BY <1>2, <3>1 DEF cached, free_slots
    <2>2. PICK r : r = [i_num |-> num, i_cnt |-> 1, i_mode |-> "regular"]
      OBVIOUS
    <2>3. /\ inode_table' \in [Slots -> [i_num : {0} \cup Nums, i_cnt : Int, i_mode : Modes]]
          /\ inode_table'[g] = r
          /\ \A s \in Slots : s # g => inode_table'[s] = inode_table[s]
      <3>1. r \in [i_num : {0} \cup Nums, i_cnt : Int, i_mode : Modes]
        BY <2>1, <2>2 DEF Modes
      <3>2. inode_table' = [inode_table EXCEPT ![g] = r]
        BY <1>4, <1>8, <2>2
      <3> QED
        BY <2>1, <3>1, <3>2 DEF TableTypes
    <2>4. /\ filp' \in [PROCS -> [-1 .. NR_FILES - 1 -> {NIL} \cup Descs]]
          /\ f_desc_table' \in [Descs -> [fd_inode : {NULL} \cup Slots, fd_cnt : Int]]
          /\ OpenedOnce'
          /\ \A s \in Slots : refs(s)' <= refs(s) + (IF s = g THEN 1 ELSE 0)
      BY <1>4, <1>8, <2>1, Connected
    <2>5. TableTypes'
      BY <1>4, <2>3, <2>4 DEF TableTypes
    <2>6. Copies'
      <3> SUFFICES ASSUME ~stale', NEW s \in Slots, inode_table'[s].i_cnt # 0
                   PROVE  /\ inode_table'[s].i_num \in imap'
                          /\ inode_table'[s].i_mode = i_mode'[inode_table'[s].i_num]
                          /\ \A t \in Slots :
                               inode_table'[t].i_cnt # 0
                                 /\ inode_table'[t].i_num = inode_table'[s].i_num => s = t
        BY DEF Copies
      <3>1. CASE s = g
        <4>1. inode_table'[s].i_num = num /\ inode_table'[s].i_mode = "regular"
          BY <2>2, <2>3, <3>1
        <4>2. num \in imap' /\ i_mode'[num] = "regular"
          BY <1>4, <2>1, Disk
        <4>3. \A t \in Slots : t # g /\ inode_table'[t].i_cnt # 0 => inode_table'[t].i_num # num
          BY <1>4, <1>6, <2>3
        <4> QED
          BY <3>1, <4>1, <4>2, <4>3
      <3>2. CASE s # g
        <4>1. inode_table'[s] = inode_table[s] /\ inode_table'[g].i_num = num
          BY <2>2, <2>3, <3>2
        <4> QED
          BY <1>4, <1>6, <2>3, <3>2, <4>1 DEF Copies
      <3> QED
        BY <3>1, <3>2
    <2>7. NoDangling'
      <3> SUFFICES ASSUME ~stale', NEW s \in Slots PROVE inode_table'[s].i_cnt >= refs(s)'
        BY DEF NoDangling
      <3>1. inode_table[s].i_cnt >= refs(s) /\ inode_table[s].i_cnt \in Int
        BY <1>4 DEF TableTypes, NoDangling
      <3>2. refs(s) \in Nat /\ refs(s)' \in Nat
        BY RefsType
      <3>3. refs(s)' <= refs(s) + (IF s = g THEN 1 ELSE 0)
        BY <2>4
      <3>4. CASE s = g
        <4>1. cached(num) = {}
          BY <1>4, <1>6 DEF cached
        <4>2. inode_table[g].i_cnt = 0
          BY <1>3, <1>8, <4>1, SlotCases DEF free_slots
        <4> QED
          BY <2>2, <2>3, <3>1, <3>2, <3>3, <3>4, <4>2
      <3>5. CASE s # g
        BY <2>3, <3>1, <3>2, <3>3, <3>5
      <3> QED
        BY <3>4, <3>5
    <2> QED
      BY <2>4, <2>5, <2>6, <2>7
  <1> QED
    BY <1>7, <1>8

(* The descriptor loses its i-node, and the i-node the reference.          *)
LEMMA CloseTable ==
  ASSUME FileInv, NEW p \in PROCS, NEW fd \in Files, Close(p, fd)
  PROVE  TableInv'
  <1> USE DEF FileInv, TableInv
  <1>1. PICK d : d = filp[p][fd]
    OBVIOUS
  <1>2. d \in Descs
    BY <1>1, SlotsAndDescs DEF Close, TableTypes
  <1>3. PICK s : s = f_desc_table[d].fd_inode
    OBVIOUS
  <1>4. s = NULL \/ s \in Slots
    BY <1>2, <1>3 DEF TableTypes
  <1>5. PICK r : r = [fd_cnt   |-> f_desc_table[d].fd_cnt - 1,
                      fd_inode |-> IF f_desc_table[d].fd_cnt = 1 THEN NULL ELSE f_desc_table[d].fd_inode]
    OBVIOUS
  <1>6. r.fd_inode = NULL /\ r \in [fd_inode : {NULL} \cup Slots, fd_cnt : Int]
    BY <1>2, <1>5 DEF OpenedOnce, TableTypes
  <1>7. /\ inode_table' = put_inode(inode_table, s)
        /\ f_desc_table' = [f_desc_table EXCEPT ![d] = r]
        /\ filp' = [filp EXCEPT ![p][fd] = NIL]
        /\ live' = live /\ UNCHANGED disk
    BY <1>1, <1>3, <1>5 DEF Close
  <1>8. \A e \in Descs : f_desc_table'[e] = IF e = d THEN r ELSE f_desc_table[e]
    BY <1>7 DEF TableTypes
  <1>9. /\ inode_table' \in [Slots -> [i_num : {0} \cup Nums, i_cnt : Int, i_mode : Modes]]
        /\ \A t \in Slots : /\ inode_table'[t].i_num = inode_table[t].i_num
                            /\ inode_table'[t].i_mode = inode_table[t].i_mode
                            /\ inode_table'[t].i_cnt =
                                 inode_table[t].i_cnt - (IF t = s THEN 1 ELSE 0)
    <2>1. CASE s = NULL
      <3>1. inode_table' = inode_table
        BY <1>7, <2>1 DEF put_inode
      <3> QED
        BY <2>1, <3>1, SlotsAndDescs DEF TableTypes
    <2>2. CASE s # NULL
      <3>1. s \in Slots
        BY <1>4, <2>2
      <3>2. PICK q : q = [inode_table[s] EXCEPT !.i_cnt = inode_table[s].i_cnt - 1]
        OBVIOUS
      <3>3. inode_table' = [inode_table EXCEPT ![s] = q]
        BY <1>7, <2>2, <3>2 DEF put_inode
      <3>4. inode_table[s] \in [i_num : {0} \cup Nums, i_cnt : Int, i_mode : Modes]
        BY <3>1 DEF TableTypes
      <3>5. /\ q \in [i_num : {0} \cup Nums, i_cnt : Int, i_mode : Modes]
            /\ q.i_num = inode_table[s].i_num /\ q.i_mode = inode_table[s].i_mode
            /\ q.i_cnt = inode_table[s].i_cnt - 1
        BY <3>2, <3>4
      <3>6. /\ inode_table' \in [Slots -> [i_num : {0} \cup Nums, i_cnt : Int, i_mode : Modes]]
            /\ \A t \in Slots : inode_table'[t] = IF t = s THEN q ELSE inode_table[t]
        BY <3>1, <3>3, <3>5 DEF TableTypes
      <3>7. \A t \in Slots : inode_table[t].i_cnt - 0 = inode_table[t].i_cnt
        BY DEF TableTypes
      <3> QED
        BY <3>5, <3>6, <3>7
    <2> QED
      BY <2>1, <2>2
  <1>10. TableTypes'
    <2>1. filp' \in [PROCS -> [-1 .. NR_FILES - 1 -> {NIL} \cup Descs]]
      BY <1>7 DEF TableTypes
    <2>2. f_desc_table' \in [Descs -> [fd_inode : {NULL} \cup Slots, fd_cnt : Int]]
      BY <1>6, <1>7 DEF TableTypes
    <2> QED
      BY <1>7, <1>9, <2>1, <2>2 DEF TableTypes
  <1>11. OpenedOnce'
    BY <1>6, <1>8 DEF OpenedOnce
  <1>12. s # NULL /\ ~stale => inode_table[s].i_cnt >= 1
    <2>1. refs(s) >= 1 /\ refs(s) \in Nat
      BY <1>2, <1>3, Referred, RefsType
    <2>2. s # NULL => inode_table[s].i_cnt \in Int
      BY <1>4 DEF TableTypes
    <2> QED
      BY <1>4, <2>1, <2>2 DEF NoDangling
  <1>13. Copies'
    <2> SUFFICES ASSUME ~stale
                 PROVE  \A t \in Slots : inode_table'[t].i_cnt # 0 => inode_table[t].i_cnt # 0
      BY <1>7, <1>9 DEF disk, Copies
    <2>1. \A t \in Slots : inode_table[t].i_cnt \in Int
      BY DEF TableTypes
    <2>2. \A t \in Slots : t = s => inode_table[t].i_cnt >= 1
      BY <1>12, SlotsAndDescs
    <2> QED
      BY <1>9, <2>1, <2>2
  <1>14. NoDangling'
    <2> SUFFICES ASSUME ~stale', NEW t \in Slots PROVE inode_table'[t].i_cnt >= refs(t)'
      BY DEF NoDangling
    <2>1. inode_table[t].i_cnt >= refs(t) /\ inode_table[t].i_cnt \in Int
      BY <1>7 DEF disk, TableTypes, NoDangling
    <2>2. refs(t) \in Nat /\ refs(t)' \in Nat
      BY RefsType
    <2>3. PICK H, K : /\ H = {e \in Descs : f_desc_table[e].fd_inode = t}
                      /\ K = {e \in Descs : f_desc_table'[e].fd_inode = t}
      OBVIOUS
    <2>4. IsFiniteSet(H) /\ Cardinality(H) \in Nat
      BY <2>3, RefsType, FS_CardinalityType
    <2>5. K = H \ {d}
      BY <1>2, <1>6, <1>8, <2>3, SlotsAndDescs
    <2>6. d \in H <=> t = s
      BY <1>2, <1>3, <2>3
    <2>7. Cardinality(K) = IF t = s THEN Cardinality(H) - 1 ELSE Cardinality(H)
      BY <2>4, <2>5, <2>6, FS_RemoveElement
    <2>8. refs(t) = Cardinality(H) + (IF t = 1 THEN 1 ELSE 0)
      BY <2>3 DEF refs
    <2>9. refs(t)' = Cardinality(K) + (IF t = 1 THEN 1 ELSE 0)
      BY <2>3 DEF refs
    <2> QED
      BY <1>9, <2>1, <2>2, <2>4, <2>7, <2>8, <2>9
  <1> QED
    BY <1>10, <1>11, <1>13, <1>14

(* A file that is deleted is in no slot that is counted.                   *)
LEMMA DeleteTable ==
  ASSUME FileInv, NEW path \in Paths, Delete(path)
  PROVE  TableInv'
  <1> USE DEF FileInv, TableInv
  <1>1. PICK num : num = search_file(path)
    OBVIOUS
  <1>2. num \in Nums \ {ROOT_INODE} /\ num # 0 /\ (~stale => num \in imap)
    BY <1>1, Searched DEF Delete
  <1>3. CASE refused(num)
    <2>1. inode_table' = get_inode(num) /\ UNCHANGED <<live, filp, f_desc_table, disk>>
      BY <1>1, <1>3 DEF Delete
    <2> QED
      BY <1>2, <2>1, GetTable
  <1>4. CASE ~refused(num)
    <2>1. PICK g : g = slot(num)
      OBVIOUS
    <2>2. PICK T : T = get_inode(num)
      OBVIOUS
    <2>3. /\ imap' = imap \ {num} /\ i_mode' = [i_mode EXCEPT ![num] = "none"]
          /\ inode_table' = IF g = NULL THEN inode_table
                            ELSE put_inode([T EXCEPT ![g].i_mode = "none"], g)
          /\ clear_entry(num)
          /\ UNCHANGED <<live, filp, f_desc_table>>
      BY <1>1, <1>4, <2>1, <2>2 DEF Delete
    <2>4. /\ T \in [Slots -> [i_num : {0} \cup Nums, i_cnt : Int, i_mode : Modes]]
          /\ \A t \in Slots : t # g => T[t] = inode_table[t]
          /\ g # NULL => /\ g \in Slots
                         /\ T[g].i_cnt = inode_table[g].i_cnt + 1
      <3>1. num \in {0} \cup Nums
        BY <1>2
      <3> QED
        BY <2>1, <2>2, <3>1, GetInode DEF DiskInv
    <2>5. /\ inode_table' \in [Slots -> [i_num : {0} \cup Nums, i_cnt : Int, i_mode : Modes]]
          /\ \A t \in Slots : t # g => inode_table'[t] = inode_table[t]
          /\ g # NULL => inode_table'[g].i_cnt = inode_table[g].i_cnt
      <3>1. CASE g = NULL
        BY <2>3, <3>1 DEF TableTypes
      <3>2. CASE g # NULL
        <4>1. g \in Slots /\ T[g].i_cnt = inode_table[g].i_cnt + 1 /\ inode_table[g].i_cnt \in Int
          BY <2>4, <3>2 DEF TableTypes
        <4>2. PICK q : q = [T[g] EXCEPT !.i_mode = "none"]
          OBVIOUS
        <4>3. T[g] \in [i_num : {0} \cup Nums, i_cnt : Int, i_mode : Modes]
          BY <2>4, <4>1
        <4>4. /\ q \in [i_num : {0} \cup Nums, i_cnt : Int, i_mode : Modes]
              /\ q.i_cnt = inode_table[g].i_cnt + 1
          BY <4>1, <4>2, <4>3 DEF Modes
        <4>5. PICK U : U = [T EXCEPT ![g] = q]
          OBVIOUS
        <4>6. /\ U \in [Slots -> [i_num : {0} \cup Nums, i_cnt : Int, i_mode : Modes]]
              /\ \A t \in Slots : t # g => U[t] = inode_table[t]
              /\ U[g] = q
          BY <2>4, <4>1, <4>4, <4>5
        <4>7. PICK o : o = [q EXCEPT !.i_cnt = q.i_cnt - 1]
          OBVIOUS
        <4>8. /\ o \in [i_num : {0} \cup Nums, i_cnt : Int, i_mode : Modes]
              /\ o.i_cnt = inode_table[g].i_cnt
          BY <4>1, <4>4, <4>7
        <4>9. inode_table' = put_inode(U, g)
          BY <2>3, <3>2, <4>2, <4>5
        <4>10. inode_table' = [U EXCEPT ![g] = o]
          BY <3>2, <4>6, <4>7, <4>9 DEF put_inode
        <4> QED
          BY <4>1, <4>6, <4>8, <4>10
      <3> QED
        BY <3>1, <3>2
    <2>6. TableTypes' /\ OpenedOnce'
      BY <2>3, <2>5 DEF TableTypes, OpenedOnce
    <2>7. \A t \in Slots : inode_table'[t].i_cnt = inode_table[t].i_cnt
      BY <2>5, SlotsAndDescs
    <2>8. ~stale' => ~stale
      BY <2>3 DEF clear_entry
    <2>9. ASSUME ~stale PROVE cached(num) = {}
      <3> SUFFICES ASSUME cached(num) # {} PROVE FALSE
        OBVIOUS
      <3>1. g \in cached(num)
        BY <2>1, <1>2, SlotCases
      <3>2. g \in Slots /\ inode_table[g].i_cnt # 0
        BY <3>1 DEF cached
      <3>3. inode_table[g].i_cnt > 0
        <4>1. inode_table[g].i_cnt >= refs(g) /\ inode_table[g].i_cnt \in Int
          BY <2>9, <3>2 DEF NoDangling, TableTypes
        <4>2. refs(g) \in Nat
          BY RefsType
        <4> QED
          BY <3>2, <4>1, <4>2
      <3> QED
        BY <1>4, <2>1, <3>1, <3>2, <3>3, SlotsAndDescs DEF refused, opened
    <2>10. Copies'
      <3> SUFFICES ASSUME ~stale', NEW s \in Slots, inode_table'[s].i_cnt # 0
                   PROVE  /\ inode_table'[s].i_num \in imap'
                          /\ inode_table'[s].i_mode = i_mode'[inode_table'[s].i_num]
                          /\ \A t \in Slots :
                               inode_table'[t].i_cnt # 0
                                 /\ inode_table'[t].i_num = inode_table'[s].i_num => s = t
        BY DEF Copies
      <3>1. ~stale /\ cached(num) = {}
        BY <2>8, <2>9
      <3>2. g # NULL => inode_table[g].i_cnt = 0
        BY <2>1, <3>1, SlotCases, SlotsAndDescs DEF free_slots, cached
      <3>3. \A t \in Slots : inode_table'[t].i_cnt # 0 => inode_table'[t] = inode_table[t]
        BY <2>5, <2>7, <3>2, SlotsAndDescs
      <3>4. inode_table'[s] = inode_table[s] /\ inode_table[s].i_cnt # 0
        BY <2>7, <3>3
      <3>5. inode_table[s].i_num \in imap \ {num}
        BY <3>1, <3>4 DEF Copies, cached
      <3>6. i_mode'[inode_table[s].i_num] = i_mode[inode_table[s].i_num]
        BY <2>3, <3>5 DEF DiskInv, DiskTypes
      <3> QED
        BY <2>3, <2>7, <3>1, <3>3, <3>4, <3>5, <3>6 DEF Copies
    <2>11. NoDangling'
      <3> SUFFICES ASSUME ~stale', NEW s \in Slots PROVE inode_table'[s].i_cnt >= refs(s)'
        BY DEF NoDangling
      <3>1. refs(s)' = refs(s)
        BY <2>3 DEF refs
      <3> QED
        BY <2>7, <2>8, <3>1 DEF NoDangling
    <2> QED
      BY <2>6, <2>10, <2>11
  <1> QED
    BY <1>3, <1>4

LEMMA RowsTable ==
  ASSUME FileInv, UNCHANGED <<f_desc_table, inode_table, disk>>,
         live' \subseteq PROCS, filp' \in [PROCS -> [-1 .. NR_FILES - 1 -> {NIL} \cup Descs]]
  PROVE  FileInv'
  <1>1. DiskInv'
    BY KeepDisk DEF FileInv
  <1>2. TableTypes' /\ OpenedOnce'
    BY DEF FileInv, TableInv, TableTypes, OpenedOnce
  <1>3. Copies' /\ NoDangling'
    BY DEF FileInv, TableInv, disk, Copies, NoDangling, refs
  <1> QED
    BY <1>1, <1>2, <1>3 DEF FileInv, TableInv

LEMMA FileStep == FileInv /\ [Next]_vars => FileInv'
  <1> SUFFICES ASSUME FileInv, [Next]_vars PROVE FileInv'
    OBVIOUS
  <1>1. ASSUME NEW p \in PROCS, NEW path \in Paths, Open(p, path) PROVE FileInv'
    <2>1. UNCHANGED disk
      BY <1>1 DEF Open
    <2> QED
      BY <1>1, <2>1, OpenTable, KeepDisk DEF FileInv
  <1>2. ASSUME NEW p \in PROCS, NEW path \in Names, Create(p, path) PROVE FileInv'
    BY <1>2, CreateTable, CreateDisk DEF FileInv
  <1>3. ASSUME NEW p \in PROCS, NEW fd \in Files, Close(p, fd) PROVE FileInv'
    <2>1. UNCHANGED disk
      BY <1>3 DEF Close
    <2> QED
      BY <1>3, <2>1, CloseTable, KeepDisk DEF FileInv
  <1>4. ASSUME NEW path \in Paths, Delete(path) PROVE FileInv'
    BY <1>4, DeleteTable, DeleteDisk DEF FileInv
  <1>5. ASSUME NEW path \in Paths, KRead(path) PROVE FileInv'
    <2>1. PICK num : num = search_file(path)
      OBVIOUS
    <2>2. num \in {0} \cup Nums /\ (num # 0 /\ ~stale => num \in imap)
      BY <2>1, Searched DEF FileInv
    <2>3. inode_table' = get_inode(num) /\ UNCHANGED <<live, filp, f_desc_table, disk>>
      BY <1>5, <2>1 DEF KRead
    <2> QED
      BY <2>2, <2>3, GetTable, KeepDisk DEF FileInv
  <1>6. ASSUME NEW p \in PROCS, NEW child \in PROCS, Fork(p, child) PROVE FileInv'
    <2>1. filp' \in [PROCS -> [-1 .. NR_FILES - 1 -> {NIL} \cup Descs]]
      BY <1>6 DEF Fork, FileInv, TableInv, TableTypes
    <2>2. live' \subseteq PROCS /\ UNCHANGED <<f_desc_table, inode_table, disk>>
      BY <1>6 DEF Fork, FileInv, TableInv, TableTypes
    <2> QED
      BY <2>1, <2>2, RowsTable
  <1>7. ASSUME NEW p \in PROCS, Exit(p) PROVE FileInv'
    <2>1. filp' \in [PROCS -> [-1 .. NR_FILES - 1 -> {NIL} \cup Descs]]
      BY <1>7 DEF Exit, FileInv, TableInv, TableTypes
    <2>2. live' \subseteq PROCS /\ UNCHANGED <<f_desc_table, inode_table, disk>>
      BY <1>7 DEF Exit, FileInv, TableInv, TableTypes
    <2> QED
      BY <2>1, <2>2, RowsTable
  <1>8. CASE UNCHANGED vars
    BY <1>8, RowsTable DEF vars, FileInv, TableInv, TableTypes
  <1> QED
    BY <1>1, <1>2, <1>3, <1>4, <1>5, <1>6, <1>7, <1>8 DEF Next

LEMMA OneSlot ==
  ASSUME TableInv
  PROVE  OneSlotPerInode
  <1> SUFFICES ASSUME ~stale, NEW num \in Nums PROVE Cardinality(cached(num)) <= 1
    BY DEF OneSlotPerInode
  <1>1. PICK C : C = cached(num)
    OBVIOUS
  <1>2. CASE C = {}
    BY <1>1, <1>2, FS_EmptySet
  <1>3. CASE C # {}
    <2>1. PICK s \in C : TRUE
      BY <1>3
    <2>2. \A t \in C : t = s
      BY <1>1, <2>1 DEF TableInv, Copies, cached
    <2>3. C = {s}
      BY <2>1, <2>2
    <2> QED
      BY <1>1, <2>3, FS_Singleton
  <1> QED
    BY <1>2, <1>3

LEMMA Stay ==
  ASSUME TableInv
  PROVE  OpenFilesStay
  <1> SUFFICES ASSUME ~stale, NEW d \in Descs, NEW s, s = f_desc_table[d].fd_inode, s # NULL
               PROVE  /\ inode_table[s].i_num \in imap
                      /\ inode_table[s].i_mode = i_mode[inode_table[s].i_num]
    BY DEF OpenFilesStay
  <1>1. s \in Slots
    BY DEF TableInv, TableTypes
  <1>2. inode_table[s].i_cnt # 0
    <2>1. refs(s) >= 1 /\ refs(s) \in Nat
      BY Referred, RefsType
    <2> QED
      BY <1>1, <2>1 DEF TableInv, TableTypes, NoDangling
  <1> QED
    BY <1>1, <1>2 DEF TableInv, Copies

(* Every call keeps the directory, the i-nodes and the counts of the       *)
(* tables in agreement.                                                    *)
THEOREM FileTables == Spec => []FileInv
  <1>1. Init => FileInv
    BY InitDisk, InitTable DEF FileInv
  <1> QED
    BY <1>1, FileStep, PTL DEF Spec

(* However descriptors are shared, overwritten and closed, the count of an *)
(* i-node in memory stays at or above the descriptors that refer to it.    *)
THEOREM CountsCover == Spec => []NoDangling
  <1>1. FileInv => NoDangling
    BY DEF FileInv, TableInv
  <1> QED
    BY <1>1, FileTables, PTL

(* No i-node is in memory twice.                                           *)
THEOREM InodeOnce == Spec => []OneSlotPerInode
  <1>1. FileInv => OneSlotPerInode
    BY OneSlot DEF FileInv
  <1> QED
    BY <1>1, FileTables, PTL

--------------------------------------------------------------------------------
(* Sectors: an i-node that is not allocated has none, and bit 0 belongs to *)
(* no file.                                                                *)
SectorTypes ==
  /\ smap \subseteq Bits
  /\ i_start_sect \in [Nums -> Int]
  /\ i_nr_sects \in [Nums -> Nat]
  /\ failed \in BOOLEAN

FreeHasNone == \A n \in Nums \ imap : i_nr_sects[n] = 0
Reserved    == ~failed => \A n \in imap : 0 \notin bits_of(n)

SInv ==
  DiskInv /\ SectorTypes /\ FreeHasNone /\ Reserved /\ FilesApart /\ MapIsExact

LEMMA BitIsInt == \A sect \in Int : bit_of(sect) \in Int
  <1>1. N_1ST_SECT \in Nat
    BY FileSectorsAssumption
  <1> QED
    BY <1>1 DEF bit_of

LEMMA NoRun == \A bit \in Int : run_of(bit, 0) = {}
  BY DEF run_of

--------------------------------------------------------------------------------
LEMMA InitSInv == SInit => SInv
  <1> SUFFICES ASSUME SInit PROVE SInv
    OBVIOUS
  <1> DEFINE R   == NR_DEFAULT_FILE_SECTS
             bit == bit_of(INSTALL_START_SECT)
             I   == INSTALL_NR_SECTS
  <1>1. imap = {1, 2, 3}
    BY DEF SInit, Init
  <1>2. DiskInv
    BY InitDisk DEF SInit
  <1>3. /\ R \in Nat /\ I \in Nat /\ bit \in Int /\ SMAP_BITS \in Nat
        /\ N_1ST_SECT \in Nat /\ INSTALL_START_SECT \in Nat
        /\ bit > R /\ bit + I <= SMAP_BITS
    BY FileSectorsAssumption DEF bit_of
  <1>4. SectorTypes
    <2>1. smap \subseteq Bits
      <3>1. 0 .. R \subseteq Bits
        BY <1>3 DEF Bits
      <3> QED
        BY <3>1 DEF SInit, run_of
    <2>2. i_start_sect \in [Nums -> Int] /\ i_nr_sects \in [Nums -> Nat] /\ failed = FALSE
      BY <1>3 DEF SInit
    <2> QED
      BY <2>1, <2>2 DEF SectorTypes
  <1>5. /\ i_start_sect[1] = N_1ST_SECT /\ i_nr_sects[1] = R
        /\ i_start_sect[2] = 0 /\ i_nr_sects[2] = 0
        /\ i_start_sect[3] = INSTALL_START_SECT /\ i_nr_sects[3] = I
        /\ \A n \in Nums \ {1, 3} : i_nr_sects[n] = 0
    BY Disk DEF SInit, ROOT_INODE
  <1>6. FreeHasNone
    BY <1>1, <1>5 DEF FreeHasNone
  <1>7. bits_of(1) = 1 .. R
    <2>1. bit_of(N_1ST_SECT) = 1
      BY <1>3 DEF bit_of
    <2>2. bits_of(1) = (1 .. 1 + R - 1) \cap Bits
      BY <1>5, <2>1 DEF bits_of, run_of
    <2>3. 1 + R - 1 = R /\ R <= SMAP_BITS - 1
      <3> HIDE DEF bit
      <3> QED
        BY <1>3
    <2>4. 1 .. R \subseteq Bits
      BY <1>3, <2>3 DEF Bits
    <2> QED
      BY <2>2, <2>3, <2>4
  <1>8. bits_of(2) = {}
    <2>1. bit_of(0) \in Int
      BY <1>3 DEF bit_of
    <2> QED
      BY <1>5, <2>1, NoRun DEF bits_of
  <1>9. bits_of(3) = run_of(bit, I)
    BY <1>5 DEF bits_of
  <1>10. bits_of(1) \cap bits_of(3) = {} /\ 0 \notin bits_of(1) /\ 0 \notin bits_of(3)
    <2>1. \A b \in bits_of(3) : b > R
      <3> HIDE DEF bit
      <3> QED
        BY <1>3, <1>9 DEF run_of, Bits
    <2>2. \A b \in bits_of(1) : b >= 1 /\ b <= R
      BY <1>3, <1>7
    <2>3. \A b \in bits_of(1) : b \in Int
      BY <1>3, <1>7
    <2> HIDE DEF bit
    <2>4. bits_of(1) \cap bits_of(3) = {}
      <3> SUFFICES ASSUME NEW b, b \in bits_of(1), b \in bits_of(3) PROVE FALSE
        OBVIOUS
      <3> QED
        BY <2>1, <2>2, <2>3, <1>3
    <2> QED
      BY <2>1, <2>2, <2>4, <1>3
  <1>11. FilesApart /\ Reserved
    BY <1>1, <1>8, <1>10 DEF FilesApart, Reserved
  <1>12. MapIsExact
    <2>1. 0 .. R = {0} \cup (1 .. R)
      BY <1>3
    <2>2. smap = {0} \cup bits_of(1) \cup bits_of(3)
      BY <1>7, <1>9, <2>1 DEF SInit
    <2>3. UNION {bits_of(n) : n \in imap} = bits_of(1) \cup bits_of(2) \cup bits_of(3)
      BY <1>1
    <2> QED
      BY <1>8, <2>2, <2>3 DEF MapIsExact
  <1> QED
    BY <1>2, <1>4, <1>6, <1>11, <1>12 DEF SInv

--------------------------------------------------------------------------------
LEMMA KeepSInv ==
  ASSUME SInv, UNCHANGED <<disk, sectors>>
  PROVE  SInv'
  <1>1. /\ imap' = imap /\ smap' = smap
        /\ i_start_sect' = i_start_sect /\ i_nr_sects' = i_nr_sects /\ failed' = failed
    BY DEF disk, sectors
  <1>2. SectorTypes' /\ FreeHasNone'
    BY <1>1 DEF SInv, SectorTypes, FreeHasNone
  <1>3. DiskInv'
    BY KeepDisk DEF SInv
  <1>4. Reserved' /\ FilesApart' /\ MapIsExact'
    BY <1>1 DEF SInv, Reserved, FilesApart, MapIsExact, bits_of
  <1> QED
    BY <1>2, <1>3, <1>4 DEF SInv

(* If the call gets all it asks for, the number is new and the bits are    *)
(* those of the new file and were nobody's.                                *)
LEMMA CreateSInv ==
  ASSUME SInv, NEW p \in PROCS, NEW path \in Names, SCreate(p, path)
  PROVE  SInv'
  <1> DEFINE R == NR_DEFAULT_FILE_SECTS
  <1>0. PICK num : num = alloc_imap_bit
    OBVIOUS
  <1>1. /\ imap \subseteq Nums /\ smap \subseteq Bits
        /\ i_start_sect \in [Nums -> Int] /\ i_nr_sects \in [Nums -> Nat]
        /\ failed \in BOOLEAN /\ R \in Nat /\ N_1ST_SECT \in Nat
    BY FileSectorsAssumption DEF SInv, DiskInv, DiskTypes, SectorTypes
  <1>2. /\ imap' = imap \cup ({num} \ {0})
        /\ smap' = smap \cup allocated
        /\ i_start_sect' = [n \in Nums |-> IF n = num THEN free_sect_nr ELSE i_start_sect[n]]
        /\ i_nr_sects' = [n \in Nums |-> IF n = num THEN R ELSE i_nr_sects[n]]
        /\ failed' = (failed \/ ~got_all)
    BY <1>0 DEF SCreate, Create
  <1>3. num = 0 \/ num \in Nums \ imap
    BY <1>0, <1>1, NewNumber
  <1>4. free_bits # {} => Min(free_bits) \in Bits /\ Min(free_bits) \in Int
    <2>1. free_bits \subseteq Bits /\ free_bits \subseteq Nat
      BY Disk DEF free_bits
    <2>2. PICK S : S = free_bits
      OBVIOUS
    <2>3. S \subseteq Bits /\ S \subseteq Nat
      BY <2>1, <2>2
    <2>4. S # {} => Min(S) \in S
      BY <2>3, Least
    <2>5. S # {} => Min(S) \in Bits /\ Min(S) \in Int
      <3> SUFFICES ASSUME S # {} PROVE Min(S) \in Bits /\ Min(S) \in Int
        OBVIOUS
      <3>1. PICK b \in S : b = Min(S)
        BY <2>4
      <3> QED
        BY <2>3, <3>1
    <2> QED
      BY <2>2, <2>5, Zenon
  <1>5. DiskInv'
    BY CreateDisk DEF SInv, SCreate
  <1>6. SectorTypes'
    <2>1. allocated \subseteq Bits
      BY DEF allocated, run_of
    <2>2. free_sect_nr \in Int
      BY <1>1, <1>4 DEF free_sect_nr
    <2> QED
      BY <1>1, <1>2, <2>1, <2>2 DEF SectorTypes, got_all
  <1>7. FreeHasNone'
    <2> SUFFICES ASSUME NEW n \in Nums \ imap' PROVE i_nr_sects'[n] = 0
      BY DEF FreeHasNone
    <2>1. n \notin imap /\ n # num
      BY <1>2, Disk
    <2> QED
      BY <1>2, <2>1 DEF SInv, FreeHasNone
  <1>8. ASSUME ~failed'
        PROVE  /\ \A n \in imap : bits_of(n)' = bits_of(n)
               /\ num \in Nums \ imap /\ imap' = imap \cup {num}
               /\ bits_of(num)' = allocated
               /\ allocated \cap smap = {}
               /\ \A n \in imap : bits_of(n) \subseteq smap
               /\ 0 \in smap
               /\ smap = {0} \cup UNION {bits_of(n) : n \in imap}
    <2>1. ~failed /\ num # 0 /\ allocated \cap smap = {} /\ free_bits # {}
      BY <1>0, <1>2, <1>8 DEF got_all
    <2>2. num \in Nums \ imap
      BY <1>3, <2>1
    <2>3. ASSUME NEW n \in imap PROVE bits_of(n)' = bits_of(n)
      <3>1. n \in Nums /\ n # num
        BY <1>1, <2>2
      <3>2. i_start_sect'[n] = i_start_sect[n] /\ i_nr_sects'[n] = i_nr_sects[n]
        BY <1>2, <3>1
      <3> QED
        BY <3>2 DEF bits_of
    <2>4. bits_of(num)' = allocated
      <3>1. i_start_sect'[num] = Min(free_bits) - 1 + N_1ST_SECT /\ i_nr_sects'[num] = R
        BY <1>2, <2>1, <2>2 DEF free_sect_nr
      <3>2. bit_of(i_start_sect'[num]) = Min(free_bits)
        BY <1>1, <1>4, <2>1, <3>1 DEF bit_of
      <3> QED
        BY <2>1, <3>1, <3>2 DEF bits_of, allocated
    <2>5. smap = {0} \cup UNION {bits_of(n) : n \in imap}
      BY <2>1 DEF SInv, MapIsExact
    <2>6. imap' = imap \cup {num}
      BY <1>2, <2>1
    <2>7. \A n \in imap : bits_of(n) \subseteq smap
      BY <2>5
    <2> QED
      BY <2>1, <2>2, <2>3, <2>4, <2>5, <2>6, <2>7
  <1>9. Reserved'
    <2> SUFFICES ASSUME ~failed', NEW n \in imap' PROVE 0 \notin bits_of(n)'
      BY DEF Reserved
    <2>1. CASE n \in imap
      BY <1>2, <1>8, <2>1 DEF SInv, Reserved
    <2>2. CASE n = num
      BY <1>8, <2>2
    <2> QED
      BY <1>8, <2>1, <2>2
  <1>10. FilesApart'
    <2> SUFFICES ASSUME ~failed', NEW m \in imap', NEW n \in imap', m # n
                 PROVE  bits_of(m)' \cap bits_of(n)' = {}
      BY DEF FilesApart
    <2>1. CASE m \in imap /\ n \in imap
      BY <1>2, <1>8, <2>1 DEF SInv, FilesApart
    <2>2. CASE m = num /\ n \in imap
      BY <1>8, <2>2
    <2>3. CASE m \in imap /\ n = num
      BY <1>8, <2>3
    <2> QED
      BY <1>8, <2>1, <2>2, <2>3
  <1>11. MapIsExact'
    <2> SUFFICES ASSUME ~failed'
                 PROVE  smap' = {0} \cup UNION {bits_of(n)' : n \in imap'}
      BY DEF MapIsExact
    <2>1. ASSUME NEW b
          PROVE  (\E n \in imap' : b \in bits_of(n)')
                 <=> (\E n \in imap : b \in bits_of(n)) \/ b \in allocated
      <3>1. (\E n \in imap' : b \in bits_of(n)')
            <=> (\E n \in imap : b \in bits_of(n)') \/ b \in bits_of(num)'
        BY <1>8
      <3> QED
        BY <1>8, <3>1
    <2>2. ASSUME NEW b
          PROVE  b \in smap' <=> b = 0 \/ \E n \in imap' : b \in bits_of(n)'
      BY <1>2, <1>8, <2>1
    <2> QED
      BY <2>2
  <1> QED
    BY <1>5, <1>6, <1>7, <1>9, <1>10, <1>11 DEF SInv

(* The number is one of an i-node, allocated or not: in the latter case it *)
(* has no sectors.                                                         *)
LEMMA DeleteSInv ==
  ASSUME SInv, NEW path \in Paths, SDelete(path)
  PROVE  SInv'
  <1>0. PICK num : num = search_file(path)
    OBVIOUS
  <1>1. /\ imap \subseteq Nums /\ smap \subseteq Bits
        /\ i_start_sect \in [Nums -> Int] /\ i_nr_sects \in [Nums -> Nat]
        /\ failed \in BOOLEAN /\ N_1ST_SECT \in Nat
    BY FileSectorsAssumption DEF SInv, DiskInv, DiskTypes, SectorTypes
  <1>2. num \in Nums
    BY <1>0, Searched DEF SInv, SDelete, Delete
  <1>3. CASE refused(num)
    <2>1. UNCHANGED <<disk, sectors>>
      BY <1>0, <1>3 DEF SDelete, Delete
    <2> QED
      BY <2>1, KeepSInv
  <1>4. CASE ~refused(num)
    <2>1. /\ imap' = imap \ {num}
          /\ smap' = smap \ bits_of(num)
          /\ i_start_sect' = [i_start_sect EXCEPT ![num] = 0]
          /\ i_nr_sects' = [i_nr_sects EXCEPT ![num] = 0]
          /\ failed' = failed
      BY <1>0, <1>4 DEF SDelete, Delete
    <2>2. DiskInv'
      BY DeleteDisk DEF SInv, SDelete
    <2>3. SectorTypes'
      <3>1. smap' \subseteq Bits
        BY <1>1, <2>1
      <3>2. i_start_sect' \in [Nums -> Int]
        <4>1. i_start_sect' = [n \in Nums |-> IF n = num THEN 0 ELSE i_start_sect[n]]
          BY <1>1, <2>1
        <4>2. \A n \in Nums : i_start_sect[n] \in Int
          BY <1>1
        <4> QED
          BY <4>1, <4>2
      <3>3. i_nr_sects' \in [Nums -> Nat]
        BY <1>1, <2>1
      <3> QED
        BY <1>1, <2>1, <3>1, <3>2, <3>3 DEF SectorTypes
    <2>4. FreeHasNone'
      <3> SUFFICES ASSUME NEW n \in Nums \ imap' PROVE i_nr_sects'[n] = 0
        BY DEF FreeHasNone
      <3>1. CASE n = num
        BY <1>1, <1>2, <2>1, <3>1
      <3>2. CASE n # num
        BY <1>1, <2>1, <3>2 DEF SInv, FreeHasNone
      <3> QED
        BY <3>1, <3>2
    <2>5. ASSUME NEW n \in imap' PROVE n \in imap /\ n # num /\ bits_of(n)' = bits_of(n)
      <3>1. n \in imap /\ n # num /\ n \in Nums
        BY <1>1, <2>1
      <3>2. i_start_sect'[n] = i_start_sect[n] /\ i_nr_sects'[n] = i_nr_sects[n]
        BY <1>1, <2>1, <3>1
      <3> QED
        BY <3>1, <3>2 DEF bits_of
    <2>6. Reserved' /\ FilesApart'
      BY <2>1, <2>5 DEF SInv, Reserved, FilesApart
    <2>7. MapIsExact'
      <3> SUFFICES ASSUME ~failed'
                   PROVE  smap' = {0} \cup UNION {bits_of(n)' : n \in imap'}
        BY DEF MapIsExact
      <3>1. smap = {0} \cup UNION {bits_of(n) : n \in imap}
        BY <2>1 DEF SInv, MapIsExact
      <3>2. UNION {bits_of(n)' : n \in imap'} = UNION {bits_of(n) : n \in imap'}
        BY <2>5
      <3>3. CASE num \in imap
        <4>1. 0 \notin bits_of(num) /\ \A n \in imap' : bits_of(n) \cap bits_of(num) = {}
          BY <2>1, <2>5, <3>3 DEF SInv, Reserved, FilesApart
        <4>2. ASSUME NEW b
              PROVE  (\E n \in imap : b \in bits_of(n))
                     <=> (\E n \in imap' : b \in bits_of(n)) \/ b \in bits_of(num)
          BY <2>1, <3>3
        <4>3. ASSUME NEW b
              PROVE  b \in smap' <=> b = 0 \/ \E n \in imap' : b \in bits_of(n)'
          BY <2>1, <2>5, <3>1, <4>1, <4>2
        <4> QED
          BY <4>3
      <3>4. CASE num \notin imap
        <4>1. i_nr_sects[num] = 0 /\ i_start_sect[num] \in Int
          BY <1>1, <1>2, <3>4 DEF SInv, FreeHasNone
        <4>2. bits_of(num) = {}
          BY <4>1, BitIsInt, NoRun DEF bits_of
        <4>3. imap' = imap /\ smap' = smap
          BY <2>1, <3>4, <4>2
        <4> QED
          BY <3>1, <3>2, <4>3
      <3> QED
        BY <3>3, <3>4
    <2> QED
      BY <2>2, <2>3, <2>4, <2>6, <2>7 DEF SInv
  <1> QED
    BY <1>3, <1>4

LEMMA OthersSInv ==
  ASSUME SInv, Others \/ UNCHANGED svars
  PROVE  SInv'
  <1>1. UNCHANGED <<disk, sectors>>
    BY DEF Others, Open, Close, KRead, Fork, Exit, svars, vars
  <1> QED
    BY <1>1, KeepSInv

(* Every call keeps the sector map in agreement with the files.            *)
THEOREM Sectors == SSpec => []SInv
  <1>1. SInv /\ [SNext]_svars => SInv'
    BY CreateSInv, DeleteSInv, OthersSInv DEF SNext
  <1> QED
    BY <1>1, InitSInv, PTL DEF SSpec

(* Whatever files are created and deleted in whatever order, no sector     *)
(* belongs to two of them until an allocation gets less than it asks for.  *)
THEOREM NoSharedSector == SSpec => []FilesApart
  BY Sectors, PTL DEF SInv

(* Until then the sector map is exactly what the files say: deleting gives *)
(* back the bits that creating took.                                       *)
THEOREM MapAgrees == SSpec => []MapIsExact
  BY Sectors, PTL DEF SInv

(* Until a deletion leaves its entry, no i-node has two entries in the     *)
(* directory, and no entry names an i-node that may be given away.  That   *)
(* an allocated i-node has an entry is not true: one behind the end of the *)
(* directory is overwritten by the next file.                              *)
THEOREM NumbersKeptApart == SSpec => []NumbersApart
  <1>1. SInv => NumbersApart
    BY DEF SInv, DiskInv
  <1> QED
    BY <1>1, Sectors, PTL

(* With sectors a step is one of FileTable, so what holds there holds here.*)
THEOREM SectorsRefine == SSpec => Spec
  <1>1. SInit => Init
    BY DEF SInit
  <1>2. [SNext]_svars => [Next]_vars
    BY DEF SNext, SCreate, SDelete, Others, Next, svars
  <1> QED
    BY <1>1, <1>2, PTL DEF SSpec, Spec

(* Calls take the tables, the directory and the sector map only to values  *)
(* of their types: an entry of the directory, a slot or a number that is   *)
(* computed exists.                                                        *)
THEOREM SectorTypesHold == SSpec => []STypeOK
  <1>1. FileInv /\ SInv => STypeOK
    <2>1. DISK_INODES + 1 <= DISK_INODES + 2
      BY Disk
    <2>2. ASSUME DiskTypes PROVE nr_dir_entries \in Entries
      BY <2>2, Disk DEF DiskTypes
    <2> QED
      BY <2>2 DEF FileInv, DiskInv, DiskTypes, Entry, TableInv, TableTypes, SInv, SectorTypes, STypeOK, TypeOK
  <1> QED
    BY <1>1, FileTables, Sectors, SectorsRefine, PTL

(* A file that is open is not deleted, and its number is given to no other.*)
THEOREM OpenFilesKept == SSpec => []OpenFilesStay
  <1>1. FileInv => OpenFilesStay
    BY Stay DEF FileInv
  <1> QED
    BY <1>1, FileTables, SectorsRefine, PTL
================================================================================
