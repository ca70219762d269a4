# Michaelsoft Binbows: specifications, model checking and proofs

This directory specifies the operating system kernel in `src/` in TLA+: its page manager,
process manager, scheduler, FAT32 driver, terminal, clock and shell. TLC checks small
instances; TLAPS proves the invariants, and most of the action properties, of all of these
parts for every size: any number of frames, slots, clusters, keys, columns, shells, folders.
Paths like `process.c:66` name files of
`src/src/`.

Contents: 1 the system · 2 modules and how they correspond to the code · 3 runs, bounds,
fairness · 4 proofs · 5 findings and other divergences · 6 what is not modelled · 7 plan.

## 1. The system

A 32-bit x86 kernel boots from a FAT32-like image, mounts it, starts the program `shell` in
user mode and from then on runs only inside interrupts: the timer (IRQ 0), the keyboard
(IRQ 1), page faults, and system calls (`int 0x30`). **Every gate clears the interrupt
flag**, so the kernel is never reentered: whatever it does between entry and `iret` is one
uninterrupted computation, and the timer switches processes only in user mode. That is the
ground on which the models choose their steps.

| Component | State | Operations | Talks to |
|---|---|---|---|
| page manager (`paging.c`) | frame map and free counter; pool of 32 page directories | allocate/free a frame, create/release a directory, load CR3 | called by the process manager |
| process manager (`process.c`) | table of 16 control blocks, `active_process_count` | `process_create_user_process`, `process_destroy` | page manager; FAT32 `read` to load the program, inside the new address space |
| scheduler (`scheduler.c`) | current process, states, saved contexts | save context, round-robin scan, context switch | timer, exit |
| interrupts (`interrupt.c`) | interrupt controller | timer, keyboard, page fault, system calls 0–11, 19, 69, 78, 420, 666 | everything |
| FAT32 driver (`fat32.c`, `disk.c`) | allocation table in memory; boot sector, table and clusters on disk | mount/format, `read`, `read_directory`, `write`, `delete` | disk; called by system calls 0–3 and by process creation |
| keyboard and terminal (`keyboard.c`, `framebuffer.c`) | one-character buffer, cursor, `template_length`, screen | key interrupt, `putchar`, `puts`, `clear_screen` | controller; called by system calls 4–7, 19, 69 |
| shell (`user-shell.c`) | per process: command buffer, `current_path`, `working_directory`; find's calls, each with a copy of a folder's table | line editing; cd, ls, mkdir, cat, cp, mv, rm, find, exec, ps, kill, clear, motivation | all of it by system calls |
| clock (`clock.c`, `cmos.c`) | registers of the clock chip | `read_rtc`, `writeClock` | system call 78; writes to the screen the shell uses, as does `testing` (system call 420) |

**What is hard here.** Process creation allocates a slot, a directory and frames one after
the other and can fail in the middle, in a foreign address space; destruction releases them
in another order, possibly of the very process that called. The file system changes three
structures on disk in separate writes and can lose power between any two. Keys arrive
between any two system calls of a shell that echoes, prints prompts and lets the driver
judge backspaces by a cursor it moves later. Several shells share one disk and interleave at
system calls, while a command such as `mv` is a sequence of them. `find` walks
a tree on copies of tables that other shells change behind it. The clock chip changes its
registers while they are read. The repository has no tests. `PROJECT.json` lists these hazards
line by line, each with the properties that cover it, or why none does.

**What makes each part correct.**
- *Page manager*: the counter agrees with the map; no frame is mapped twice.
- *Process manager*: a process owns its directory and exactly the pages its control block
  counts; nothing leaks; a failed call changes nothing that lives.
- *Scheduler*: the scan finds the next Ready process, nobody starves, the kernel's mapping
  is never lost.
- *FAT32*: chains partition the disk; memory and disk agree; a power failure hurts only the
  file being written; seen from outside it is a set of files.
- *Terminal*: the screen shows the line being typed; no interrupt stays unanswered.
- *Shell*: path and directory agree; commands go where they say, come back, and lose nothing;
  a search finds everything that stays, once, and ends.
- *Clock*: the time shown was the time.

## 2. Modules

| Module | What it is |
|---|---|
| `Paging` | the page manager, one operator per C function, and `PagingSpec`, the contract a caller keeps |
| `RoundRobin`, `Scheduler` | the scan of the scheduler in closed form, and the loop itself as a recursive function, checked against it |
| `Kernel` | process table, creation, destruction, timer, exec, exit, kill; EXTENDS `Paging` and `RoundRobin` |
| `ProcessTable`, `KernelRefinement` | the abstract process table and the mapping under which `Kernel` implements it |
| `Fat32` | the FAT32 driver with its disk writes |
| `Fat32Crash` | `Fat32` with power failures at any moment, and a ghost that says whether one cut an operation short |
| `FileStore`, `Fat32Refinement` | the abstract file store and the mapping under which `Fat32` implements it |
| `Shell` | the shell's commands, on an instance of `FileStore`: composed with the promise of the driver, which the refinement shows it keeps |
| `Find` | the command find, call by call, on an instance of `FileStore` that other shells change meanwhile |
| `Terminal` | keyboard interrupt, cursor, screen, the shell's main loop, and the programs that write beside it |
| `Clock` | clock chip, `read_rtc`, `writeClock` |
| `KernelInvariant`, `Fat32Invariant`, `TerminalInvariant`, `ClockInvariant`, `ShellInvariant`, `FindInvariant` | the inductive invariant of each |
| `PagingProofs`, `KernelProofs`, `Fat32Proofs`, `TerminalProofs`, `ClockProofs`, `ShellProofs`, `FindProofs` | the proofs; `KernelProofs` also those about `Scheduler` and `KernelRefinement` |
| `NatLemmas` | facts about numbers that several of them need: least elements, remainders, quotients |
| `MCKernel`, `MCFat32`, `MCShell`, `MCFind`, `MCClock` | values of the constants for TLC (`Terminal` needs none) |

Operators introduced by a comment "Mutant" are small changes of the definition after them,
used to see that the properties would notice; no specification uses them.

**Kernel.** `pc` says where the single thread of the kernel is; `pc = "user"` means a
process runs, and only then may the timer fire or a program make a call. Inside the kernel each
page frame taken or released is a step, so the invariants are checked in the middle of
creation and destruction. The steps of `process_create_user_process` are the `Create…`
actions in the order of process.c:35-106: the three early refusals
(`CreateRefused`, with the code of `RefusalCode`); choice of slot and directory (`CreateChooseSlot`, which, as the code, does not notice a NULL directory); one
`CreateAllocateFrame` per page; CR3 loaded with the new directory; `read()`, which succeeds
or fails; and either the control block filled in, or CR3 restored, `CreateUndoFrame` per page and
code 4. `process_destroy` is the `Destroy…` actions; `pc = "cancel"` marks the path that
would take the frames again (process.c:141-147), which is shown unreachable. `MapsKernel`
decides whether the machine survives a load of CR3; after the active directory is zeroed the kernel
lives on the TLB, so that `TlbMiss` may fault at any moment. A return code is stored through the caller's address space
(`StoreReturn`). kill checks no range: for a text that names no slot (`SyscallKillOutside`) the memory beside the
table decides, which either looks inactive, and the call answers 1, or is destroyed like a process, after which
("wild") nothing is promised. Programs are classes: `shell` calls
exec and kill, `imm0` exits, `testing` (and `clock`) loop. Registers are left out.

**Fat32.** An operation is one step that computes the new table in memory, the return code
and the sequence of disk writes (`pending`); `DiskWrite` then moves them to the disk one at
a time, so every power failure point is a state. One write stands for the blocks of one
cluster (four, issued by one `write_blocks`): a cluster half written is the target's own
data or a directory cluster whose changed entry lies in one block, so splitting it would not
show more. The table is written in blocks, as it is several blocks long in the code. Bytes
are tokens made of the file's name, extension and cluster number, so that any two files
differ everywhere. `read_directory` refuses a buffer that is not of a table's size, like the code. What callers pass is part of the model: `ProperParents` and
`ProperRemoval` are what the shell ensures by finding folders before using them, while
`AnySpec` takes the interface at its word.

**FileStore.** Files and folders as sets, every call atomic, every return code true. Its
constants let the same module serve as specification of `Fat32` and as ground of `Shell` and `Find`.

**Shell.** A command on files saves its position (`Begin`; `saved` is `save_directory` and
`save_path`), goes to the folder its argument names (`Go`), makes its system call there, each an action of its
own, so that `cp` and `mv` are preempted between read, write and removal, and comes back
(`End`). Every exit path of the code has its own restore, and so has every disjunct of the model, so that a
forgotten one would show: `home`, a ghost, is where the commands that are meant to move have put the shell,
and `FileCommandsStay` compares. Lookups (`multiple_cd`) belong to the step they
prepare: nothing a shell does removes a folder, which `FoldersStay` checks. Paths are
sequences of components; `at.last` is the code's `last_folder_name`, under which
`read_directory` is asked for the table, including the code's peculiarity that a folder's
own name and its parent's answer too. Three peculiarities of names are in the model: a component that only begins
with ".." is taken for ".." (`IsUp`); a name of 8 characters fills `path_buffer`, so that whether `strcmp` recognises
it depends on the byte behind it (`Luck`, a choice per lookup); and `current_path` has `MAX_CMD_LENGTH`
bytes that nobody counts (`Fits`). A shell that writes beyond them is "wild": it overwrites its own variables, and
the model stops there (`Sane`). `Paths` and `Commands` are what is typed; they are constants, so that no bound is in the
actions.

**Terminal.** Every system call of the main loop is an action, and `keyboard_isr` may fall
between any two. A NUL written behind `cmd_buffer` (line 1044 with a full buffer) is a
choice over what the linker may have put there. A prompt has the length of the path and 18 more, any
of `PromptLengths`, anew at each prompt (`prompt_length`); one longer than a row makes the driver refuse every
backspace, since no column exceeds `template_length`. A write outside the screen, to column 80 of
the last row or below it after `clear`, is not seen. Two more programs write to the screen
between any two steps: `clock` the end of the last row and `testing` the end of row 0
(`ClockWrites`, `BannerWrites`); `LineShown` promises nothing about those cells and
everything about the rest.

**Scheduler.** The loop runs with interrupts off and changes nothing until it is left, so it
is a function of the table: `Iteration` is its test and body, `Scan` its n-th state.
`ScanFindsTarget` says of every table that it is left at the slot `RoundRobin` gives
`Kernel`, or goes round for ever where that gives none.

**Find.** `stack` holds the calls of `findHelper` in progress. One step goes from one
`read_directory` to the next, since printing in between touches nothing others touch: `Visit`
is one iteration of the loop with the call it makes, `Return` the end of a call, `Others` a
change by another shell between two reads. What the code takes from the stack without
having written it is a choice: whether `strcmp` recognises a name of 8 characters in
`real_name`, which has no room for the NUL (`Cluster`), and whether what `path` holds before
its first use contains the target (`Visit`). Two ghosts state what is promised: `owed` is what was there when the
search began, has not been removed since and matches; `namesake` says that a file, in a table
or in a copy of one that is still being worked on, had the name of a folder, which
`findHelper` cannot tell apart. `LongInLong` says that a folder whose name fills its field
lies in another such folder: then `real_name` may not be recognised, the caller's folder is
asked instead, and it answers to its own name and its parent's.

**Clock.** The chip announces an update, carries seconds before the rest, and ends; reads of registers fall
anywhere. `binary` and `h24` are its register B, so BCD and 12-hour conversions are
checked by decoding what the model's chip encodes.

## 3. Runs

| Run | Instance | Question | Distinct states |
|---|---|---|---|
| `kernel_scarce` | 4 slots, 6 frames, 4 directories, 2 pages | the inductive invariant, when memory runs out first; is the scheduler's loop, on every table, what the closed form says? | 3 960 |
| `kernel_full` | 3 slots, 8 frames, 4 directories | isolation, halting, refinement, starvation, when slots run out first | 92 630 |
| `kernel_exec_fault` | 3 slots, 3 directories | finding 1 | – |
| `fat32_driver` | 5 clusters, folders of 2 children, files of 1–2 clusters, 2 names × 2 extensions | chains, table, crash safety; does the driver implement `FileStore`, call by call? | 1 093 |
| `fat32_format`, `fat32_delete_boot`, `fat32_folder_delete` | 5, 5 and 6 clusters | findings 2, 3 and 4 | – |
| `terminal` | 3 columns × 2 rows, buffer of 3, prompts of 1 and of 4, queue of 2 keys, clock and banner of one cell | does the screen show the line; is every interrupt answered? | 347 509 |
| `terminal_early_key` | 2 columns × 3 rows, buffer of 4, keys from boot on | finding 5 | – |
| `clock` | minutes and seconds modulo 11, 3 updates, 4 register formats | is the shown time real; does the call return? | 284 160 |
| `shell` | 2 shells, 2 folders besides the root, 7 paths, 15 commands, `current_path` of 16 bytes | where cd goes, that file commands come back, that nothing is lost | 206 244 |
| `find` | 2 folders besides the root, 3 entries each, 5 clusters, stack for 4 calls, 4 changes during a search | does a search find everything, once, and end? | 208 263 |

**Bounds and why they are enough.** The parameters that matter are which resource runs out
first and how full things get. Kernel: 6 frames are memory for two processes in four slots,
8 for three in three; with 4 directories three leaked ones already starve the pool. Programs
of two pages make every loop run more than once. The text `<<1,0>>` brings in the two-digit pid, `<<9>>` and the empty text, which is read as
two NULs, the ones that name no slot. The scan is checked on every table without a Running process (there is none during a scan) and every current slot of 4, and before the first process. FAT32: with 2
free clusters files of 2 clusters, folders, folders with children and full disks all occur, a chain of two is reused
backwards, and `FAT_BLOCK = 4` puts the table into two writes. Terminal: a line of prompt
and full buffer, 4 or 7 characters, reaches the end of a row of 3(+1) columns or wraps there, starts on each row, and wraps the bottom;
the prompt of 4 is longer than a row; the byte wraps at 8, above all other values as 256 is. Clock: numbers up to 10
have one or two digits and carry BCD; start times lie around the carries of hour and day and
3 updates span a call and its repetition. Shell: two shells are what interference takes; paths include
up, down, here, absolute ones, failures in the middle, and a component that only begins with ".."; `current_path` holds
root/longname/ but not root/d/longname/, and "longname" fills its buffer; files are copied and moved here, above,
below, into folders and onto themselves, exist or not, and rm meets a folder; store capacity 9 and folders of 4
entries make a copy fail for want of space and of slots. Find: two folders
nest or stand side by side, one of them with a name that fills its field, and file and folder share a name; the
targets are everything and a name without extension; four changes let a folder get the name that a stale copy still
holds as a file's, and something to hold. That a folder is listed twice by this needs two
such copies and one more file name (`FileNames = {"f", "d"}`, two minutes instead of one), which is left to the proof of `ListsOnce`; a stack of 4 calls is one more than the deepest search
without confused names takes, which `FindEnds` confirms. Two long names, one in the other, are not in the
instance: with two folders they do no harm but to `FindComplete`, which excepts them
(`MayBeMissed`), and for more folders there are the proofs. The bounds `MaxQueue` and
`MaxOutput` only limit the environment. `MaxTicks` does more: after that many updates the chip has stopped, and
`ReadReturns` relies on it, since a chip that updated between any two passes for ever would keep `read_rtc`
in its loop. The real one updates once a second, and a pass takes microseconds.

**Fairness.** *Kernel* (`FairSpec`): weak fairness of the kernel's own code, which nobody
interrupts; strong fairness of the timer, because a tick inside the kernel stays pending in
the controller and fires on the way back to user mode, so programs cannot evade it by making
calls. *Terminal*: weak fairness of the shell, from `NoStarvation` of `Kernel`, and of a requested interrupt's delivery. *Clock*: the chip
completes announced updates (bounded in number) and the driver runs on. *Find*: weak fairness of the search itself, from `NoStarvation` again; the other shells have
none. Safety runs need none.
Deadlock checking is off where the system may stop or be stopped: the machine can halt (`Kernel`), a search can use up its stack (`Find`), the
overrun of the command buffer ends in "wild" (`Terminal`), so does one of `current_path` (`Shell`), and in the runs of findings.

**What the runs show.** All 7 "pass" runs hold, and the 5 others find what section 5 describes. The most telling ones: `HaltCauses` (the
machine stops only when no shell can be loaded at boot, or for one of the four other causes it lists, which are in section 5), `ImplementsProcessTable`
and `ImplementsFileStore`, `DiskHoldsTheRest` (at every moment of every operation the disk
alone holds all files but the one being changed), `LineShown` (with backspace races), `FileCommandsStay`,
`MovesKeepContents`, `FindComplete` (though other shells change the tree under the search)
and `ShownTimeWasReal`. Each property also has a mutant in `PROJECT.json`, a plausible slip in the code that makes it fail.

## 4. Proofs

Every theorem is `Spec => ...` of the specification the runs check, with the constants left
open. `PROJECT.json` lists them; the invariants they rest on are in the modules
`...Invariant`, and TLC agreed with each on the runs' instances before it was proved.

### Assumptions

All are named ASSUMEs, and TLC evaluates them in the runs. `PagingAssumption`,
`ProcessCountAssumption`, `KernelAssumption`: sizes are positive, buffer sizes are 32-bit and
take at least one page, texts typed after kill are digits or any other bytes, whether or not they name a slot. `DirectoryPerSlot`: a page
directory for every slot (the code has 32 for 16). `TerminalAssumption`: letters are none of the
special keys, every prompt fits on the screen with a full command and is shorter than a byte counts, and the range of a byte exceeds command length
and columns by more than one (the code: 256 against 128 + 80; the proof needs this room, and with
5 against 2 + 2 TLC finds `LineShown` violated, see `Overrun`). `ClockAssumption`: a minute and an
hour of at most 60. `ShellAssumption`, `Fat32Assumption`, `FindAssumption`: the root is a
folder, no other folder has its name, sizes leave room for the reserved clusters and slots, the stack of
`find` has room for more calls than there are folders, and commands have arguments of their kind. `Fat32` is proved
under proper callers, switched off between operations (`Spec`), as its run is: `DiskHoldsTheRest` looks at the disk
after every single write, which is what a failure at that instant leaves. What may happen after the
reboot is the subject of `Fat32Crash`.

### What is proved, and by which invariant

**Page manager** (`PagingProofs`: `PagingSpec => []PagingInv`). The contract keeps the free
counter equal to the number of free frames and no frame mapped twice. The counter alone is not
inductive: freeing a frame that is free already, or frame 0, would break it, and it is
isolation that excludes both; so the two are proved together, with `page_frame_map[0]`.

**Processes** (`KernelProofs`: `Spec => []KernelInv`, one lemma per action). The properties are
not inductive, because they speak of the moments between system calls. `CoreInv` adds what
holds inside: who can be where in the kernel and that the current process is Running except when
the call has destroyed it (`ControlInv`, `BootInv`, `RunnerInv`); that the slot and directory being
filled are nobody else's, map the pages up to `page`, and that the frames still needed are free,
which the early check establishes (`CreateInv`); who maps what in the middle (`DestroyInv`,
`MappedByOwner`, `FramesMapped`). `HaltInv` and `NameInv` are inductive beside it. `KernelKeepsContract`
says that every kernel step is a step of `PagingSpec`, so that the page manager's theorems are
used and not proved again. Further results:
- `HaltsExplained`: the machine stops only for the five causes in `HaltCauses`, a kill text that names no slot among them. It needs that a
  directory is missing only when the pool was empty, and that exit works in slot 0's directory.
- `KernelImplementsProcessTable`: each kernel step is a step of `ProcessTable` or none. The
  point is that success and "out of memory" agree: the pages held by the live processes,
  counted as pairs of slot and page, map one to one into the frames in use.
- `SchedulerFindsTarget`: the loop, a recursive function, ends on every table of every size
  where the closed form says. Its n-th iteration is at the n-th slot, by a least counterexample.
- `BystandersSafe`: an action property, from the same invariant.

**FAT32** (`Fat32Proofs`: `Spec => []FatInv`). An operation changes the table in memory at once and
the disk write by write, so the invariant is about the future: `Promised` says that *every* prefix
of the writes still to come leaves a disk that holds all files and folders but the target
(`Holds`), and that the last one leaves disk and table consistent (`Settled`, `Consistent`). Each
operation establishes it, each write consumes one step of it, and a power failure at any moment would leave what
the prefix promised. From it: `ChainsPartition`, `DiskHoldsRest`,
`OnlyTheTargetDangles`, type correctness, and `TableIsWrittenBack`, which excepts a disk that has just been
formatted, as finding 2 makes it. `DiskHoldsRest` is about the instant of the failure; after a reboot the driver follows
an entry that dangles wherever it leads, and that is finding 3: proper callers, and power lost in
the middle of an operation. `Fat32Crash` says where such harm can come from: for `TornSpec`, in which power fails at any
moment and the driver goes on after the reboot, `FaultsNeedTornOperations` and `ClearingNeedsTornOperations`
prove that the kernel faults in the driver, and that the boot sector is cleared, only after some
operation was cut short. Finding 4 is about callers that are not proper (`AnySpec`).
Chains are values of a recursive function; that it has values, and which, is proved by least
counterexamples on numbers (`LeastNat` in `NatLemmas`).

**Terminal** (`TerminalProofs`: `Spec => []TerminalInv`): type correctness, `LineIsShown`,
`OnlyOneIsStale`. Every line has a prompt of its own length. `BackspaceInv` says what the one key in the driver's buffer may do to
the cursor when the cursor has moved since it was accepted; `OnlyOneIsStale` is about the command buffer, where a
backspace leaves its character behind;
`OverrunInv` that a length wrapped below 0 cannot come back to a true one, since each backspace
costs a column.

**Clock** (`ClockProofs`: `Spec => []ClockInv`): type correctness, `ShownTimeRight`. `seen` is the list of the
chip's times during a call; `PassInv` says at which of them each register was read. Two equal
passes then pin the time down, if the call is shorter than a minute, which
`ShownTimeWasReal` requires.

**Shell** (`ShellProofs`: `Spec => []ShellInv`, any number of shells, any typed paths and commands; the shells'
own paths are limited by `current_path`, the overrun of which ends the model):
`PromptTellsTruth`, `CdIsRight`, `FileCommandsStayPut`, `FoldersAreKept`, `MovesLoseNothing`. A path is
true when there is a *way* through the tree that spells it (`IsWay`). What `multiple_cd` computes component by component, and
what `Follow` means by the path, are recursive functions; that they agree is shown at the
least position where they would not. `CdIsRight` excepts components that only begin with ".." and allows a
path with a name of 8 characters to be refused (section 5). `FileCommandsStayPut` rests on `HomeOK`: during a
command what is saved is where the shell was, and every restore takes it from there. `MovesLoseNothing` rests on `ReadOK` and
`MoveOK`: `mv` looks the source up twice, and both lookups lead to the same folder.

**Find** (`FindProofs`: `Spec => []FindInv`, trees of any size, any number of changes):
`SearchIsComplete`, `ListsOnce`, `NeverStuck`, type correctness. `CompleteInv`: whatever is owed is led to by an
entry that some call has still to visit, and the call knows where that is. `OnceInv`: without
confused names the calls are for folders each in the one before, so there are at most as many as
folders (pigeonhole gives `NeverStuck`), and nothing left to visit has been printed or leads back. That other
shells only add folders makes ways stable; the folders above another are defined as a least closed
set, so no recursion is needed.

### What the proofs found

- `FindListsOnce` was false as it first stood, beyond the bounds of its run: four changes let a
  folder get the name that two stale copies hold for a file. `namesake` now counts those names. The same attempt found `LongInLong`, which takes three folders to do harm.
- `LineShown` needs the byte to exceed command length and columns; the first assumption was too weak.

### What stays with TLC

Liveness (`NoStarvation`, `KeyboardListens`, `KeysAreTaken`, `ReadReturns`, `FindEnds`): TLAPS does
not handle fairness and ENABLED. For `FindEnds`, `NeverStuck` and the shape of the stack are proved; that the visits run
out is not. `ImplementsFileStore` is checked by TLC only: its notion of free space is a sum over files
(`MapThenSumSet`), whose value for every set needs induction over data. No module uses RECURSIVE
operators.

## 5. Findings and other divergences

With a run that shows them:

1. **exec can stop the machine** (`kernel_exec_fault`): a failed exec never releases its
   page directory (process.c:69-77), and the NULL that results when the pool is empty is not
   noticed (process.c:56): CR3 is loaded from it. process.h:111-116 promises a return code.
2. **Formatting leaves the allocation table in memory** (`fat32_format`, fat32.c:145): fat32.c:138-142 and
   fat32.h:173-178 say that it is written into cluster 1. A reboot before the first file finds a
   signature and an empty table, and nothing can be written any more (fat32.c:167).
3. **Deleting a file that a power failure left dangling clears the boot sector**
   (`fat32_delete_boot`, fat32.c:448): the next boot formats the disk. Callers are proper here; the power fails
   in the middle of a write.
4. **A folder with one entry is deleted as empty** (`fat32_folder_delete`, fat32.c:417): the
   test starts at slot 3, the first child is in slot 2.
5. **A key before the shell starts silences the keyboard** (`terminal_early_key`,
   keyboard.c:29): the handler neither reads nor acknowledges.

Seen while modelling, without a text in the repository that they contradict, or part of
what a property excepts:
- A shell that kills itself hangs the machine or faults: its address space is gone when the
  code is stored (interrupt.c:161-167; a cause in `HaltCauses`).
- exit moves to the directory saved in slot 0, whoever owns it (interrupt.c:141; likewise).
- kill reads "10" as 1: the first digit counts ones (interrupt.c:155; `ParsedPid`).
- kill takes texts that name no slot: "99", letters, nothing at all
  (interrupt.c:151-161, process.c:134; `SyscallKillOutside`, a cause in `HaltCauses`).
- After a power failure, reading a file whose table entry was not written faults (mode "hang").
- The last cluster of a file is accepted as a parent folder (fat32.c:305; `ProperParents`).
- The erased character stays in the command buffer, and with a full buffer the NUL lands
  behind it (user-shell.c:1044; `OneStaleCharacter`, `Overrun`).
- A line that has wrapped from the bottom to the top cannot be erased back (keyboard.c:98; `LineFits`).
- A prompt longer than a row, as deep folders make it, refuses every backspace (keyboard.c:41; `PromptLengths`).
- 12 PM is shown as hour 0 and 12 AM as 12 in the 12-hour format (cmos.c:63).
- `cd ..x` goes to the parent, for any x: two characters are compared (user-shell.c:1063; `IsUp`).
- A name of 8 characters has no NUL in `path_buffer` and may or may not be recognised, by `cd` and by `cp` into a
  folder (user-shell.c:44, 1079; `Luck`).
- `current_path` has 128 bytes and `strcat` counts none of them: fourteen nested folders with names of 8 overrun it
  (user-shell.c:1080; `Fits`, "wild").
- `ls <path>` leaves the shell in that path, and so does `mkdir <path>/root` (user-shell.c:327).
- mv removes the source by name: if another shell has replaced it since, what it removes was
  never copied (user-shell.c:799; `alone` in `MovesKeepContents`).
- find takes a file named like the folder it lies in, or like that folder's parent, for the folder, and
  descends into it until the stack is used up; page faults are answered by nothing, so the
  shell faults for ever (user-shell.c:841; interrupt.c:69; `namesake` in `FindEnds`, `FindListsOnce`).
- find never matches a name of 8 characters with an extension (user-shell.c:873; `Matches`),
  and in a folder with such a name inside another may miss what lies there, or go up again and
  print a folder twice (user-shell.c:841; `MayBeMissed`, `LongInLong`).
- find calls itself for files as for folders, by name: when a folder is made with the name that a
  file had when its table was copied, its contents are printed for the file and again for the
  folder (user-shell.c:890; `namesake`).
- find's `path` is not initialised; what lies there may make the first folder print in full
  (user-shell.c:887; `garbage` in `Visit`).
- `testing` passes a character where system call 420 reads through an address (testing.c:17,
  interrupt.c:180), so that the banner's character is any.

## 6. Not modelled

Hardware set-up at boot, segments and the task state (constant tables), port input/output (single instructions), the string library for itself (what its
unbounded `strcat` and its `strcmp` of unterminated names do to the shell is in `Shell`), the ATA protocol of the disk, saved registers and
`eflags`, colours, ps (it only prints), the cutting of command lines, paths of 128 characters and more
in find (they overrun its buffer), the host side of the inserter (what it does to the disk is mount, write and unmount of
`Fat32`), and the build. One composed system is not built: a terminal with two shells,
which share cursor, key buffer and template length.

## 7. Plan

The order followed: page manager and processes first, since everything stands on their
isolation; then the file system, whose damage lasts; then terminal, clock and shell, and find;
then the proofs, in the same order. Left:
1. *Prove* `ImplementsFileStore`: with free space counted as the cardinality of the set of pairs of
   file and cluster, so that no sum is needed; then the chains are a bijection between allocated
   clusters and that set, and used slots one between slots and entries. It needs one more
   invariant, that no two entries of a folder have the same name.
2. *Prove* that under proper callers only empty folders are deleted.
3. *Model*: two shells on one terminal; how a line is cut into path, name and extension.
4. *Prove* what a reboot keeps after an operation was cut short: that only entries which dangle, and those deleted
   through them, are harmed.
