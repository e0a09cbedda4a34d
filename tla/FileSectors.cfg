CONSTANTS
  a = a
  b = b
  c = c
  NR_FILES = 1
  NR_INODE = 2
  DISK_INODES = 5
  ENTRIES_PER_SECTOR = 32
  PROCS <- OneProcess
  NATIVE_PROCS <- OneProcess
  Names <- FourNames
  MaxCount = 2
  SMAP_BITS = 11
  N_1ST_SECT = 4
  NR_DEFAULT_FILE_SECTS = 2
  INSTALL_START_SECT = 11
  INSTALL_NR_SECTS = 2
SYMMETRY NewNames
SPECIFICATION SSpec
INVARIANTS STypeOK OpenFilesStay NumbersApart FilesApart MapIsExact
CHECK_DEADLOCK FALSE
