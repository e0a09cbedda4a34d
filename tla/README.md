# PangXie in TLA+

PangXie is a small teaching kernel for the 386 (C and NASM): a boot sector and a
loader, a kernel with a process table, a clock, terminals, a disk driver, a flat
file system and the system calls of a minimal Unix. This directory holds TLA+
modules translated from its source, TLC configurations that check them on small
instances, and proofs that TLAPS checks for every value of the constants.

Run from this directory:

    tlc -workers 2 -config ProcMemory.cfg MCProcMemory   # one of the runs below
    tlapm ProcMemoryProofs.tla                           # one of the proof modules

## 1. The system

There is one CPU. User code runs in ring 1 or 3, tasks in ring 1, the kernel in
ring 0. All of the kernel shares one 4 KB stack. The kernel is entered through
`save` (by an interrupt or by `int 90h`) and left through `restart` or
`restart_reenter`. Handlers of interrupts and system calls run with interrupts
*on*; processes are switched only by a handler that was entered from user mode.

| component | state | operations | talks to |
|---|---|---|---|
| kernel entry (`kernel/init/kernel.asm`, `i8259.c`) | `k_reenter`, the kernel stack, `tss.esp0`, the masks of the 8259, the saved registers of `proc_table` | `save`, `restart`, `sys_call`, `hwint00..15` | enters every handler |
| scheduler and clock (`kernel/proc/`) | `p_proc_ready`, `ticks`, `priority`, `clock_ticks` | `schedule`, `clock_handler`, `sys_get_ticks`, `milli_delay` | called by the clock, `wait`, `exit`; changes who `restart` resumes |
| process calls (`mm/fork.c`, `wait.c`, `exec.c`) | `p_flags`, `p_parent`, `exit_status`, `regs.eax`, `p_proc_ready` | `sys_fork`, `sys_wait`, `sys_exit`, `sys_exec` | `schedule`, `alloc_mem`, `kread` |
| memory of processes (`mm/mm.c`) | `memory_size`, `ldts` of a process, its image | `init_mm`, `alloc_mem`, `free_mem` (empty), the copy in `sys_fork` | fork, exec |
| keyboard (`kernel/tty/keyboard.c`) | the ring `kb_in` of 32 scan codes, shift, alt, ctrl and lock flags | `keyboard_handler` (interrupt), `keyboard_read` (task) | 8042; `in_process` of the TTY |
| terminals (`kernel/tty/tty.c`, `console.c`) | the ring of every TTY, `cursor` and `current_start_addr` of every console, `nr_current_console` | `task_tty`, `sys_write`, `sys_printx`, `out_char`, `scroll_screen`, `select_console` | keyboard; the VGA; called from `task_tty` *and* from system calls |
| disk driver (`driver/hd.c`) | `DataReady`, `hdbuf`, `hd_info` | `hd_open`, `hd_identify`, `partition`, `hd_rdwt_block`, `hd_handler` | the drive; the file system |
| file system (`fs/fs.c`, `fs/misc.c`) | `f_desc_table`, `inode_table`, `filp` of every process, the bitmaps, the directory and the i-nodes on disk, `fsbuf` | `sys_open`, `sys_close`, `sys_read`, `sys_writef`, `sys_delete`, `kread`, `get_inode`, `alloc_imap_bit`, `alloc_smap_bit`, ... | disk driver; process table |
| start (`kernel/init/main.c`, `start.c`, `protect.c`) | the initial table, descriptors | `cstart`, `kernel_main`, `init_prot` | everything, once |
| stubs, library, boot, commands | none | `syscall.asm`, `lib/`, `boot/`, `command/` | |

What is hard in it:

* **Interleaving.** The clock and the other interrupts come between any two
  instructions of a handler; `k_reenter` alone keeps them from switching
  processes under it, and the mask of an interrupt alone keeps its handler from
  nesting in itself. `task_tty` is preempted inside `out_char` by processes
  whose `write` calls the same `out_char` on the same console.
* **Order.** `exit` and the parent's `wait` come in either order. `fork`, `wait`
  and `exit` make another process current *before* the result of the call is
  stored. The kernel enables interrupts before its first `restart`.
* **Stale state.** `p_parent` of a freed slot; `filp` copied by `fork` without
  counting; `DataReady`, one flag for every interrupt of the disk.
* **Limits and arithmetic.** No free slot, a full ring, a full console, a size of
  4 GB in a 32-bit int, sector counts in a byte, ticks below zero, calls that begin
  and end inside sectors, a sector map that runs into a file that lies further on.
* **The drive.** It answers when it likes: between any two statements of the driver,
  sooner or later than the driver supposes, with one interrupt or several.
* **Partial failure.** `sys_delete` that returns without `put_inode`, `sys_exec`
  that never looks whether the file could be read, `alloc_mem` that only prints.

What makes each component correct:

* kernel entry: every process resumes with its own registers, no handler in
  progress is lost, no interrupt nests in itself, the kernel never switches
  processes under a nested handler;
* scheduler: it chooses a runnable process with most ticks left, whatever ticks
  come meanwhile, it returns, and everyone runnable runs at some time;
* process calls: every exit status reaches one `wait` of the parent; every
  result reaches its caller; freed slots and dead processes never run;
* memory: images do not overlap, and a copy or a load writes to one image only;
* keyboard: what is read is what was typed, in order, up to a full ring;
  modifiers follow the keys;
* terminals: a TTY's input is a queue; the cursor stays inside its console and
  no character written is lost;
* disk: a sector is moved when, and only when, the drive is ready for it;
* file system: `fd_cnt` and `i_cnt` are the number of references; a bit of a map
  is set exactly when an i-node or a file owns it; two files never share a
  sector; read returns what was last written.

## 2. The modules

    ProcLife        what fork, wait, exit promise, one step per call
       ^  implemented by (LifeSpec, theorem ImplementsLife)
    ProcTable       trap, handler, return, clock; schedule() as one step
       ^  EXTENDS                     ^  the loop of schedule() is that one step
    ProcMemory      segments, images  |  (OneStep)
                                    Schedule    schedule() statement by statement
    KernelEntry     save, restart, interrupts, masks, the first restart
    Terminal        task_tty and the consoles, interrupted by writes of processes
    ByteQueue       a bounded queue
       ^  implemented by (RingIsQueue)
    Keyboard        the ring of scan codes, keyboard_read
    FileTable       descriptors, i-nodes and the directory
       ^  EXTENDS
    FileSectors     the sector map, and where files are
    PlainFiles      what read and write promise, one step per call
       ^  implemented by (AsPromised)
    FileData        sys_read, sys_writef and kread turn by turn
       |  every hd_rdwt_block of a turn is a call of
    BlockDevice     what reading and writing sectors promises
       ^  implemented by (IsBlockDevice)
    HardDisk        the driver, its interrupt and an external drive

`X`, `MCX`, `XProofs` and `X.cfg` are the module, its small instance, its
theorems and its run. ProcTable is checked with ProcMemory and its theorems are in
ProcMemoryProofs; FileTable is checked once by itself and once with FileSectors, and its
theorems are in FileSectorsProofs. Definitions marked `mutant` are wrong on purpose:
each is what a slip in the code would make of the definition below it, and breaks
one of the properties; no specification uses them.

### ProcTable

One row of `proc_table` per slot: tasks first, then the native user processes
(`INIT`, `TestA`, ...), then the slots fork hands out.

| code | model |
|---|---|
| `p_flags` | `flags[p]`, the set of bits that are on |
| `p_parent`, `ticks`, `priority`, `exit_status` | the functions of the same names |
| `regs.eax` | `eax[p]`: a result, or `GARBAGE` when the program's own |
| `p_proc_ready` | the slot it points at |
| where the kernel is | `kpc`: `"user"`, the call whose handler is to run, `"ret"` |
| `esi` pushed by `sys_call` | `esi`, the caller |
| `eax` of the handler | `retval` |

A call is three steps. `SysCall` is the stub, `int 90h`, `save` and `sys_call`
up to the `call`; `Fork`, `Wait`, `Exit`, `Exec` and `Other` are the handlers
with all they call, `schedule()` included; `SysReturn` is the `mov [esi+...], eax`
and `restart`. Between them no other process runs: only interrupts come, and of
these only the clock touches the table. `ClockTick` is `clock_handler` from user
mode (`k_reenter = 0` inside it), `NestedTick` the same handler inside a call,
where it charges a tick and returns. `KernelEntry` justifies that division.

The handlers are single steps although ticks may come inside them too. The ticks
they commute with come before or after; inside `schedule()` they do not commute,
and that loop has a module of its own, `Schedule`.

`Wait` on a caller that blocks returns 0 and reaches `SysReturn`: `schedule()`
returns in this kernel, so the `return 0` behind it *is* executed. The 0 goes to
the saved `eax` of the blocked process and an exiting child overwrites it.

Left out: names, argv, `filp`, `nr_tty`, `p_name`.

### ProcLife

The abstract specification: `life`, `parent`, `status` and `answer` per process, and who
is `running`. `Fork`, `Wait`, `Exit` and `Answer` each do in one step what the call
promises; then nobody runs until `Resume`. `GoOn` is a program using up its answer and,
perhaps, being preempted. Only the process that runs can go on, so nobody else's answer
is lost; a call needs the last answer used up, so none is stored over another; and a
process that is blocked has no answer before the exit that wakes it. Before a handler
ends, the processor is its caller's. ProcTable implements it under the mapping at its end:
a result that is still in `retval` counts as answered, and from the handler to the end of
`SysReturn` nobody runs.

### Schedule

`schedule()` as the compiler sees it: the comparison, the second read of
`p->ticks`, the assignment to `p_proc_ready`, the test at the end and the refill
slot by slot, with `clock_handler` possible between any two of them. A nested tick
charges whoever `p_proc_ready` is then, the caller or a candidate. The Makefile
passes no `-O`, so every mention of a field reads memory. It starts from every
table that `ProcTable` can call it on: any user processes blocked or gone, any
ticks not above the priority, and slots whose priority is 0.

### ProcMemory

ProcTable with `ldts` and the memory behind it, in pages of 4 KB. `MFork` is
`Fork` plus `alloc_mem`, the two descriptors and `phys_copy`; `MExec` is `Exec`
plus the load. Sizes are 20 bits of pages, which is 32 bits of bytes, and wrap.
The places of forked slots start 1 MB apart at 10 MB, as in `mm.h`.

### KernelEntry

`save`, `restart`, `restart_reenter`, the `hwint` macros and the enabling of
interrupts in `kernel_main`. Each stretch of code that runs with interrupts off is
one step; `Handler`, the C function, is a step other interrupts may precede and
follow. `frames` is what the kernel stack holds, `saved[r]` says whose registers
row `r` of `proc_table` holds, `cur` whose registers the CPU has. `FirstRestart`
takes the three instructions of the `restart` that `kernel_main` jumps to apart,
since interrupts are on by then.

### Terminal

`task_tty` runs as a process: it loses the processor between any two
instructions, but it is in no system call, so whole system calls of other
processes (`sys_write`, and the `printl` of the kernel's own calls) come in
between. `pc` is the place in `tty_do_read`, `tty_do_write`, `out_char`,
`scroll_screen` and `flush` it has reached; every read and every write of a field
of a `CONSOLE` is a step (the Makefile passes no `-O`), and `reg` holds what was
read. `CallWrite` is one `out_char` by a call, as a whole: no other process runs
during a call. `back` is the place after `flush`, which has three callers.

Positions are cells of the video memory, `crtc` what was last set in the CRTC.
The keys are three: a newline, a backspace, any letter; whether a key scrolls or
selects a console instead is a choice. `p_vmem` is the address of the cell in
units of cells. Cursors are unsigned and wrap at `WORD`, which stands for 2^32.
When a call's loop at `console.c:103` has nothing left to scroll and the cursor is
still below the screen, it never returns: `pc = "hung"`.

### Keyboard

`Interrupt` is `keyboard_handler`, `GetByte` the three stretches of
`get_byte_from_kbuf` (the wait, the read with the move of `p_tail`, the write of
`count`), `Decode` the rest of `keyboard_read`. `IF_flag` is what `disable_int`
and `enable_int` set. `wantsMore` says, for the bytes read so far, whether the
nested conditions of `keyboard_read` read another.

The keyboard is outside the code: `Stroke` presses or releases a key and queues
the bytes a PC keyboard sends for it. `typed` and `down` are history: the presses
and releases `keyboard_read` has not dealt with and, according to those it has,
the keys that are down. Once a byte was dropped they say nothing any more.

`ByteQueue` is the abstract ring; `RingIsQueue` maps the cells from `p_tail` on to
it, with `reg - 1` for `count` between the read and the write of `count--`.

### FileTable

| code | model |
|---|---|
| `filp[]` of a process, and `nr_tty`, which lies before it | `filp[p]`, from -1 on; `NIL` for 0 |
| `f_desc_table[]`, and the memory behind it | `f_desc_table`, 0 to `NR_FILES` |
| `inode_table[]` | slots 1 to `NR_INODE`; slot 0 is the null pointer |
| the i-node map, the i-nodes' `i_mode`, the directory on disk | `imap`, `i_mode`, `dir` |
| `i_size` of the root / `DIR_ENTRY_SIZE` | `nr_dir_entries` |

A call is one step, since processes are not switched during it. `Open` and
`Create` are `sys_open` without and with `O_CREAT`; `KRead` is what `sys_exec`
does to the i-nodes; `Fork` and `Exit` are what these calls do to `filp`. Calls
that fail without changing anything have no step.

The directory is kept entry by entry, with what lies behind its end, because
`search_file` looks one entry further than `new_dir_entry` and `sys_delete` do.
Descriptors are modelled as they are: `sys_open` takes the entry of `f_desc_table` with the
index it has in the caller's `filp`, so a second process takes over the entry of the first,
and with `filp` full it writes `filp[-1]` and behind `f_desc_table`. A full `inode_table`
is modelled as it is, too: `get_inode` fills in memory from
address 0 on and returns a null pointer; `sys_delete` goes on with that memory,
`sys_open` gives up. That memory is read by nobody after the call.

`stale` is history: `sys_delete` has left the entry of a file it deleted
(`EntryCleared`, which denies that, is false of the code). From then on two files may get one i-node,
and the properties about the bookkeeping of i-nodes do not speak of such states.

A program closes only files it has open. `fd_pos`, `i_size` of files and the read and
write loops are in FileData, sectors in FileSectors, and the three TTY files are one.

### FileSectors

FileTable with the sector map (`smap`, the bits that are set) and `i_start_sect` and
`i_nr_sects` of the i-nodes on the disk; the i-nodes in memory are written through.
`SCreate` is `Create` plus `alloc_smap_bit` and the rest of `new_inode`, `SDelete` is
`Delete` plus the clearing of bits and of the i-node. The loops over bytes and bits
are modelled by the set of bits they set or clear.

`failed` is history: an allocation has taken bits that were not free, has reached the
end of the map, or had no i-node. Nothing in the code looks at any of these, and
nothing is promised from then on.

### FileData

| code | model |
|---|---|
| the data sectors, byte by byte | `disk` |
| `pin->i_size`; `fd_inode`, `fd_pos` | `i_size`; `desc` |
| the locals of the three functions | `call` (with `pos`), `i`, `off`, `bytes_rw`, `bytes_left` |
| the caller's buffer | `buf` for a read, `call.data` for a write |

Descriptors are opened with `O_RDWR`: `sys_read` and `sys_writef` refuse any other at once
(`fs.c:61`, `120`), with 0 and no change of state, so that such a call is no step.

`Begin` is what comes before a loop, `ReadTurn` and `WriteTurn` are a turn of it,
`Finish` the adjustment of `i_size`, `Return` the return. In a turn of `sys_writef` the
sectors are read, changed in `fsbuf` and written back; processes are not switched
during a call, so nothing comes in between and the turn changes just the bytes it was
given. Files lie one behind the other, as `alloc_smap_bit` puts them; the first is full,
as the installer leaves `echo`, the others are new. `kread` is only asked for position 0,
as in `sys_exec`.

`PlainFiles` is what callers may expect of a whole call: the bytes asked for, if they are
inside the file (for a write: inside its room), the position moved by what was moved, no
other byte changed. The code keeps less of a call that goes beyond, and so does PlainFiles:
a read at the end may return bytes of the sector behind the end, moves `fd_pos` past `i_size`
and then makes the file longer; a write beyond the last sector, or at it, goes on into the
next file. What stays promised is the part inside. Under the mapping at the end of FileData
a call happens at its `Finish`: until then `before` stands for the files.

### HardDisk

`pc` is where the driver is: every wait, every clearing of `DataReady` and every access to
the drive is a step, since interrupts are on and `hd_handler` may come between any two of
them. `stage` says which caller it is in: `hd_identify`, `partition` for the primary table
or for the tables in an extended partition, or `hd_rdwt_block` for a process.

The drive is outside the code: an ATA drive in PIO mode. `drive` is the command it is at;
`DriveReads`, `DriveAsks` and `DriveWrites` are what it does by itself, `taken` and
`WriteData` what an access to its data register does. There are four kinds of it: DRQ after
a write command is set with the command or later; the interrupt line falls by itself or
stays up until the status register is read. The 8259 latches the rise of the line (`irr`).
`STATUS & (DRQ != DRQ)` at `hd.c:286` is 0, so the loop there is one read of the status: data
follows whether the drive asked for it or not, and the line falls.

Error bits are not looked at by the code and not modelled. `IsBlockDevice` maps a write to
what the drive has stored, a read to what was copied, and sectors of the root device to
sectors of the drive. That device, `ROOT_DEV`, is 48 in `config.h`: the first logical
partition in the third entry. `HardDiskAssumption` says that every layout has it and that
it ends on the drive, as on a disk the system was installed on. Nothing is assumed of the
other entries.

## 3. The runs

| run | instance | what it shows |
|---|---|---|
| `schedule` | 1 task, 2 user slots, every start, up to 3 ticks during the scan | `ChosenIsRunnable`, `ChosenIsBest` (the choice is off by no more than the ticks that came), `OneStep` (without a tick it is the one step of ProcTable), `Returns` |
| `proc_memory` | 1 task, 1 native process, 3 user slots, 2 ticks for the task, 2 statuses, kernel of 1 MB, 32 MB, with fairness | types (`MTypeOK`); only a runnable process is resumed (`RunningIsRunnable`); no process waits while a child hangs (`NoMissedExit`); native slots are never freed (`NativesStay`); ProcTable implements ProcLife (`LifeSpec`: every status reaches one wait, and every answer is there when its process runs); everyone runnable runs (`EveryoneRuns`); images are apart (`ImagesApart`) and written by their owners only (`OwnImageOnly`) |
| `kernel_entry` | 3 interrupts, 3 processes | `ReenterCounts`, `OneHandlerEach`, `RestartIsOutermost`, `OwnRegisters`, `StableUnderNesting` |
| `terminal` | 2 consoles of 7 cells, a screen of 2 lines of 2, processes write to console 0, with fairness | consoles only the task writes to: `OwnCursorInside`, `DrawsInside`, `ScreenFollows`, `EveryKeyEnds` |
| `keyboard` | a ring of 5 bytes, 7 keys, 3 presses and releases, with fairness | `RingIsQueue`, `InStep` (a key's bytes are taken together), `TypedAsMeant`, `ModifiersFollow`, `EveryKeyHandled` |
| `file_table` | 2 processes, 2 descriptors each, 3 slots for i-nodes, 2 files | `NoDangling` (`i_cnt` never falls below the descriptors that refer to the slot), `OneSlotPerInode`, `OpenFilesStay` with descriptors that two processes share and close |
| `file_sectors` | 1 process, 4 names, 5 i-nodes of which 3 can be files, files of 2 sectors, 11 bits | types (`STypeOK`); `OpenFilesStay` (an open file is not deleted, nor its number given away), `NumbersApart` (no i-node has two entries, and every entry names an allocated one); until an allocation fails no sector belongs to two files (`FilesApart`) and the map has the bits of the files, no more and no less (`MapIsExact`) |
| `file_data` | 2 files of 3 sectors of 2 bytes, `fsbuf` of 2 sectors, 2 descriptors, 3 calls for 1, 2 or 5 bytes, with fairness | every call is one step of PlainFiles (`AsPromised`) and returns (`EveryCallReturns`); a turn fits `fsbuf` (`TypeOK`) |
| `hard_disk` | 13 sectors, 2 layouts, 4 kinds of drive, calls of up to 3 sectors where the count wraps at 2, with fairness | the partitions found are those of the tables (`PartitionsFound`); what a call moved is what it was asked for (`IsBlockDevice`); a call the drive can answer returns (`EveryCallReturns`) |

Each of the following runs checks one sentence of a comment, a message or an
assertion of the source, and TLC finds a behaviour of the code that does
otherwise.

| run | sentence | what happens |
|---|---|---|
| `boot_interrupt` | `kernel.asm:347` already on the kernel stack | an interrupt inside the first `restart` is pushed into `proc_table` |
| `wait_for_nobody` | `wait.c:41` has children, but no child is HANGING | a freed slot still counts as a child: the caller blocks for ever |
| `shared_console` | `console.h:17` the video memory the console takes | the cursor of console 0 leaves it when the task and a process write at once |

Nine more sentences of the source are stated in the modules and are false of the
code as well; they have no run, and putting one of them behind `INVARIANT` (or
`PROPERTY`) in a configuration of its module shows the behaviour.

| definition | sentence | what happens |
|---|---|---|
| `ChildIsCopy` (ProcMemory) | `fork.c:88` child is a copy of the parent | TestA, B and C have segments of 4 GB; the size is 0 in 32 bits and nothing is copied |
| `ImagesInMemory` (ProcMemory) | `mm.c:49` memory allocation failed | on a small machine the child is created in memory that does not exist |
| `OrphansGoToInit` (ProcTable) | `wait.c:70` make INIT the new parent | orphans keep the pid of a dead process |
| `AltFollows` (Keyboard, `AltKeys`) | `keyboard.c:25` the state of the right Alt key | it is never set, the key changes `alt_l` |
| `DescriptorCounts` (FileTable) | `fs.h:112` how many procs share this desc | fork does not count |
| `CountedIsOpen` (FileTable) | `fs.c:272` the file was opened | an exec is enough |
| `EntryCleared` (FileTable) | `fs.c:408` `assert(flg)` | the entry behind the end is found, deleted and left |
| `TakenBitsWereFree` (FileSectors) | `misc.c:178` the bit was 0 | only the first bit is looked at: the 15th file of 2048 sectors gets those of `echo` |
| `EntriesInside` (FileTable) | `fs.c:372` including unused slots | a deletion cuts off entries in use |

### Bounds

* Process table: three user slots give a parent, a child and a grandchild, a
  zombie beside a waiting parent, and a slot used again while it still is
  somebody's parent. `MaxDebt` bounds how far below zero nested ticks take a
  process: in this run they take it to zero, where it loses its turn. A larger instance
  (`MaxDebt` 1 and one status, 697,465 states) passes as well, the theorems hold for
  every `MaxDebt`, and `schedule` starts below zero.
* Schedule: two candidates and a task that always runs; the three ticks may undo
  a comparison before each of them and once more after a refill.
* KernelEntry: three interrupts nest in one another and in a call, which is as
  deep as the masks let them; a third process shows that rows are not mixed up.
* Terminal: as on the real screen a console is longer than the screen and no whole
  number of lines (5461 cells, 80 by 25 there). One console is written to by
  processes and one is not. `WORD` is beyond every sum of positions.
* Keyboard: the ring is shorter than the longest sequence, so it wraps and fills up
  inside a key; three presses hold both Shift keys and a letter, or caps lock and a letter, or
  let a sequence follow another.
* FileTable: two instances, because one with both is too large. In `file_table` two
  processes share, overwrite and close descriptors, and three slots with the root in
  one run out with two files and the TTY. In `file_sectors` one process can have three
  files, which are the least with which a deletion leaves a used entry behind the
  end, and creates a fourth when the i-node map is full. `MaxCount` bounds `i_cnt`,
  which execs raise for ever, at 2 (where `sys_delete` refuses), and how far repeated
  closes take `fd_cnt` below 1.
* FileSectors: a file more than fit before the sectors of `echo`, so that deletions make
  holes, holes are filled, and an allocation runs into `echo` and to the end of the map.
  The names that are not there at the start are interchangeable (symmetry). With 6 i-nodes
  and 5 names it passes too (1.7 million states, four minutes).
* FileData: a call covers up to three or four sectors, more than `fsbuf` holds, and begins
  and ends inside sectors and on their borders; a second and a third call, through the same
  descriptor or another on the same file, overwrite, append, and run beyond the end and into
  the next file. Positions up to the end of a file are started from; from there on reading
  moves them without limit. A fourth call (1,265,776 states, files of two sectors) shows
  nothing new.
* HardDisk: the count wraps at 2 instead of 256, so that calls fit it, fill it exactly (a
  register of 0) and exceed it. One layout has the root device alone in its extended
  partition; the other has two extended partitions, one with a chain longer than the driver
  follows it.

### Fairness

* ProcTable: handlers end and calls return (WF). The timer interrupts the kernel as
  well as user programs, and only a tick in user mode switches processes; it is
  assumed that it does not miss user mode for ever (SF on `ClockTick`). Programs
  need not call anything. `EveryoneRuns` excepts forks without end: a child gets the ticks
  its parent has left and the parent keeps them, so the others do starve.
* Schedule: the loop goes on (WF); ticks during one call are bounded by `MaxLate`:
  a tick takes 10 ms and the scan of a few slots does not.
* Terminal and Keyboard: the terminal task is a process with its share of the
  processor (WF on its steps), which `EveryoneRuns` provides as long as forks end,
  and a byte the keyboard has sent is handed over when interrupts are on (WF).
* FileData: the loops go on (WF); a call of the driver ends.
* HardDisk: the processor goes on, an interrupt that is latched is taken, since interrupts
  are on in the waits, and the drive does what it was told to (WF each). Nobody need make a
  call. `EveryCallReturns` excepts what the code cannot get an answer to: more sectors than
  the byte can count, a write to a drive that sets DRQ late, and a read of several sectors
  from a drive whose line stays up, because `hd_handler` does not read the status.
* The rest are safety properties, under no fairness.

### Where the model may stop

`CHECK_DEADLOCK FALSE` stands in five kinds of runs: `schedule()` has returned; a
call is caught in the loop of `out_char`; all keys of the bounded typing have been
read; every process has exited; the driver waits for a drive that waits for it. Elsewhere deadlock is checked.

## 4. The proofs

The proofs assume of the constants only what the `...Assumption`s of the modules
say, and hold for all other values of them: any number of slots, interrupts,
processes and pages.

* `ProcMemoryProofs`, for ProcTable. `TypeCorrect`, `ResumesRunnable`, `ExitsNotMissed`,
  `NativeSlotsStay`, from one inductive invariant. The properties alone are not
  inductive: that a waiting parent is never overlooked needs that a slot is in one
  state at a time (`OneFlag`), that native processes have no user parent
  (`NativeParents`), and that the process whose handler runs is still
  `p_proc_ready` (`CallerRuns`); that `schedule()` finds somebody needs that tasks
  always run (`TasksRun`). `ImplementsLife` is step simulation on top of it: a call
  maps to the atomic call of ProcLife at its handler, `SysReturn` to `Resume`, traps and
  ticks from user mode to `GoOn`, and nested ticks to a stutter. It needs that the caller
  has used up its last answer (`Blank`). `AnswersReachCallers` says for all the steps
  together that an answer stays as it is until its process has run in user mode; that
  needs that only live processes have one (`Silent`).
* `ProcMemoryProofs`, for the memory. `ForkedApart` and `WritesStayHome`, from the
  invariant of the table and `Segments`: every process has the segments its kind gets. The second is
  an action property: a copy is as long as the *caller's* segment, so it stays in
  the child's image because every caller's limit is at most an image's, or the size
  is 0 in 32 bits.
* `ScheduleProofs`. `ChoosesRunnable` and `ChoosesBest`: during a scan nothing that
  was passed beats `greatest_ticks` by more than the ticks that came (`Scan`,
  `Taking`), and `greatest_ticks` is 0 unless this scan chose somebody (`Chosen`).
  Ticks may come in any number. `ComputesOneStep` is the other half: while no tick has come
  (`Exact`) the ticks are those of the beginning or, when nobody ready had any, the
  priorities, and what was chosen is the first of the best of the slots passed
  (`FirstBest`); so the loop, with its two writes of `p_proc_ready` and its second scan,
  ends where the one step of ProcTable does.
* `KernelEntryProofs`. `KReenterIsDepth`, `HandledOnce`, `RestartDropsNothing`,
  `RegistersKept`, `NestedHandlersKeepProc`, under the assumption `QuietBoot` that
  no interrupt comes inside the first `restart`; `boot_interrupt` shows what
  happens without it. The invariant adds that what is in progress is masked
  (`Masks`) and what holds before processes run (`Boot`).
* `FileSectorsProofs`. The disk first: `NoSharedSector`, `MapAgrees` and `NumbersKeptApart`
  (`Sectors`). What is free in the map is nobody's, so a new file meets no other; files
  do not meet, so a deletion clears only its own bits; and three facts more: bit 0
  belongs to no file (`Reserved`), an i-node that is not allocated has no sectors
  (`FreeHasNone`), an entry of the directory is inside it (`DirectoryInside`). Then the
  tables: `CountsCover`, `InodeOnce`, `OpenFilesKept` (`FileTables`). The count of a slot
  covers its descriptors only if a descriptor in use names a slot in use, and a slot is
  that of one file only if its copy of the i-node is the one on the disk (`Copies`) and
  the root stays (`RootStays`); `sys_delete` refuses a count above 1, so no file goes
  that a descriptor refers to. Cardinalities follow the descriptors one at a time. Last,
  `SectorsRefine`: the system with sectors implements the one without, so all of this
  holds of it, and `SectorTypesHold` its types. As in the runs, these hold until a
  deletion leaves its entry (`stale`) or an allocation gets less than it asks for: from
  then on the code breaks them. `NumbersKeptApart` says that an i-node has at most one
  entry; that it has one is not true: a directory that shrinks over a hole leaves entries
  behind its end, and the next file may take one. That `Min` of a set of numbers is in the set comes from
  the well-foundedness of `<`.
* `FileDataProofs`. `LoopsKeepPromise` is the refinement `AsPromised`, and `DataTypesHold`
  the types, for sectors, an `fsbuf`, files and calls of any size and any number of calls.
  Between two turns of a loop (`DInv`) the next one begins at the byte the last one ended
  before, unless nothing is left (`Placed`: only the first turn begins inside a sector);
  `buf` is the stretch of the disk from where the call began (`Held`); every byte of a file
  is as it was, but those written, which are the ones given (`Kept`); and no descriptor
  stands behind the end of its file, but that of the call (`Settled`), so a call begins
  inside it. Every turn maps to a stutter: the position a caller sees is the one the call
  began with until `Finish`, which maps to one of the four ways a call of PlainFiles may
  end. That a loop which ended has moved everything, or more than its limit, follows from
  the sector of `pos_end` being the last one it goes through (`Ends`). Files are apart on
  the disk (`Apart`), hence a write that stays in its room changes no other.
* `TerminalProofs`. `CursorsStay`, `NeighboursUntouched`, `ScreenIsCurrent` and
  `NoKeyDropped`, for consoles of any size above two cells (`init_tty` draws two
  characters) and any set of consoles that processes write to. `out_char` tests the
  cursor, computes an address from it, and reads it again to move it: the invariant says
  for each of its instructions what of the test is still true (`Known`), which holds
  because only processes interrupt the task there and they write to other consoles. The
  others need what the CRTC was last told (`Following`).
* `KeyboardProofs`. `RingImplementsQueue`: the ring is a queue for every `KB_IN_BYTES`.
  `get_byte_from_kbuf` moves `p_tail` before it lowers the count; until then one byte
  less is in the queue than the count says, and since interrupts are off the count it
  loaded is still the count (`RingInv`). `KeysApart`, `ModifiersRight` and `KeysMeant`:
  the bytes on their way (those `keyboard_read` has, the ring's, the wire's) are those of
  the keys not dealt with, one after the other (`Parses`), and what `keyboard_read` has
  is a beginning of the first key's (`Aligned`). That is preserved because the conditions
  of `keyboard_read` want another byte exactly as long as a sequence is not complete
  (`WantsMore`, for every key and every length); then each complete sequence is decoded
  to the key that sent it (`Decoded`).
* `HardDiskProofs`. `ImplementsBlockDevice` is the refinement `IsBlockDevice`. The driver
  knows of the drive only that there was an interrupt, so the invariant says what each
  one stands for. Of a read (`Reading`), one on its way or seen is for a sector that is
  still in the drive's buffer, and never two are outstanding. Of a write (`Writing`), the
  drive is at most one sector ahead, and it is while the interrupt of that sector has not
  been waited for; without one it is at the sector the driver is at. `Command` relates how
  much is left of the command to where the drive is, and says that none is in progress
  when a new one begins. `DriveWrites` maps to `Write`, `ReadData` to `Read`, the end of
  the loop to `Return`; all else stutters. Device sectors are drive sectors only if the
  root partition was found where it is, so `PartitionsFound` (theorem `FindsPartitions`)
  is needed too. Its invariant (`Found`) says that the entries before the current one, and
  of this one the tables before the current one, are known and the others empty; and that
  every table passed has led on (`InChain`). The chain is a recursive function: that it
  satisfies its equation comes from the least number on which two beginnings of it would
  differ (`ChainEquation`). `CallsAreWhole` says it for a caller (`ReturnsWhole`): what is
  moved so far has arrived (`Transferred`, `Contents`), and a call that returns has moved
  all.

The types of each proved module are part of its invariant or a theorem of its own
(`TypeCorrect`, `MemoryTypes`, `SectorTypesHold`, `DataTypesHold`).

Three things the proofs changed in the models. `Terminal` assumed nothing of
`CONSOLE_SIZE`, and a console of two cells leaves its memory at start-up. `codes` of
`Keyboard` was a `CASE` with two guards true at once; TLC takes the first, the
definition allows either, and only one is what a keyboard sends. `HardDisk` assumed nothing
of the layouts: with a root partition that ends beyond the drive, a call within it touches
sectors that are not there.

Only model-checked: the liveness properties (`EveryoneRuns`, `Returns`, `EveryKeyEnds`,
`EveryKeyHandled`, and `EveryCallReturns` of FileData and of HardDisk), since fairness and
`ENABLED` are out of the prover's reach; and the violations, which are single behaviours.
`TypeOK` of Terminal and of Keyboard is stated beside the variables for the reader and
belongs to no run; what the proofs need of it is in `Types` and `RingInv`.

## 5. What is left

In this order:

1. `Exec`: the argument stack, whose size nothing checks, and the segments of the ELF file
   that are copied.
2. FileData over HardDisk: `hd_rdwt_block` is called with positions and sizes that FileData
   computes, and both are checked, but each by itself.

Not to be modelled: the boot sector and the loader (sequential code on BIOS
services), printing and formatting, the formats of descriptors and gates, the
user's `echo`, the keypad's table of `keyboard_read`, and the 8042's LEDs.
