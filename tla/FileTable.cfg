CONSTANTS
  NR_FILES = 2
  NR_INODE = 3
  DISK_INODES = 4
  ENTRIES_PER_SECTOR = 32
  PROCS <- Processes
  NATIVE_PROCS <- OneProcess
  Names <- TwoFiles
  MaxCount = 2
SPECIFICATION Spec
INVARIANTS NoDangling OneSlotPerInode OpenFilesStay
CHECK_DEADLOCK FALSE
