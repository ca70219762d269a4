------------------------------- MODULE Kernel -------------------------------
(***************************************************************************)
(* Processes of the kernel, from boot on: the process table                *)
(* (src/src/process/process.c), the round-robin scheduler                  *)
(* (src/src/scheduler/scheduler.c), the timer interrupt and the system     *)
(* calls that start, end and kill processes (src/src/Interrupt/interrupt.c)*)
(* on top of the page manager (module Paging).                             *)
(*                                                                         *)
(* The kernel does not reenter: every gate clears the interrupt flag.  So  *)
(* pc says where the one thread of the kernel is, and the timer can fire   *)
(* only at pc = "user".  Inside the kernel every page frame allocated or   *)
(* released is a step of its own, so that the invariants are checked in    *)
(* the middle of process_create_user_process and process_destroy too.      *)
(*                                                                         *)
(* External: the file system's read(), which loads the program, succeeds   *)
(* or fails; the user programs are known by the system calls they make.    *)
(***************************************************************************)
EXTENDS Paging, RoundRobin, Sequences

CONSTANTS
  PAGE_FRAME_SIZE,   \* bytes of a page frame (4 MiB in the code)
  UINT32,            \* 2^32: unsigned arithmetic wraps here
  BufferSizes,       \* request.buffer_size values that callers pass (0x100000)
  KERNEL_VIRTUAL_ADDRESS_BASE,  \* the first address of the kernel
  Entrypoints,       \* request.buf values that callers pass (0)
  KillTexts,         \* arguments of "kill": the differences of one or two
                     \* characters from '0', which need not be digits
  RADIX              \* 10: the base in which two digits are combined

(* The programs the disk image holds (src/makefile): "shell" starts and     *)
(* kills processes and never returns; "testing" (and "clock", its like)     *)
(* loops for ever; "imm0" returns from main, and crt0 then calls exit.      *)
Programs == {"shell", "testing", "imm0"}
NoName   == "none"

ceil_div(numerator, denominator) == ((numerator + denominator - 1) % UINT32) \div denominator

PageFrameCountNeeded(size) == ceil_div((size + PAGE_FRAME_SIZE) % UINT32, PAGE_FRAME_SIZE)

BootEntry == 0     \* where kernel_setup, and the shell, put a program

(* The process id the kernel reads from the first two characters: the first *)
(* counts ones and the second counts tens, whatever characters they are.    *)
(* An empty argument is two NULs, which are -'0' each.                      *)
ParsedPid(text) == IF Len(text) = 1 THEN text[1] ELSE text[1] + text[2] * RADIX

ASSUME KernelAssumption ==
  /\ PAGE_FRAME_SIZE \in Nat \ {0}
  /\ UINT32 \in Nat \ {0}
  /\ BufferSizes # {} /\ BufferSizes \subseteq 0 .. UINT32 - 1
  /\ \A size \in BufferSizes : PageFrameCountNeeded(size) \in Nat \ {0}
  /\ KERNEL_VIRTUAL_ADDRESS_BASE \in Nat
  /\ BootEntry \in Entrypoints /\ Entrypoints \subseteq Nat
  /\ \A text \in KillTexts : ParsedPid(text) \in Int
  /\ RADIX \in Nat

(* There is a page directory for every slot: 16 slots, 32 directories       *)
(* (process.h:14, paging.h:149).                                             *)
ASSUME DirectoryPerSlot == PROCESS_COUNT_MAX <= PAGING_DIRECTORY_TABLE_MAX_COUNT

KERNEL_DIR == -2     \* _paging_kernel_page_directory, active during boot

(* Where the kernel stops: in a loop, at a fault; or it goes on with memory *)
(* that is not its own, and nothing is promised any more.                   *)
Halted == {"hang", "fault", "wild"}

VARIABLES
  current_pid,            \* slot of the running process, -1 before the first
  state,                  \* slot -> metadata.state
  pid,                    \* slot -> metadata.pid
  nama,                   \* slot -> metadata.nama, the program's name
  dir,                    \* slot -> context.page_directory_virtual_addr
  page_frame_used_count,  \* slot -> memory.page_frame_used_count
  active_process_count,   \* process_manager_state.active_process_count
  cr3,                    \* the active page directory
  pc,                     \* where the kernel is; "user" when a process runs
  caller,                 \* who called create or destroy
  request,                \* argument of process_create_user_process
  p_index,                \* the slot being created or destroyed
  page,                   \* index of the loop over page frames
  curr_dir,               \* the directory create restores after read()
  retcode                 \* result on its way to the caller

processVars == <<state, pid, nama, dir, page_frame_used_count, active_process_count>>
localVars   == <<caller, request, p_index, page, curr_dir, retcode>>
kernelVars  == <<current_pid, processVars, cr3, pc, localVars>>
vars        == <<pagingVars, kernelVars>>

NoCaller  == "nobody"
NoRetcode == -1
Request(program, size, entry) == [name |-> program, buffer_size |-> size, buf |-> entry]
BootSize == CHOOSE size \in BufferSizes : TRUE
NoRequest == Request(NoName, BootSize, BootEntry)
Needed == PageFrameCountNeeded(request.buffer_size)

(* Does the CPU find the kernel when directory d is loaded into CR3? *)
MapsKernel(d) == d = KERNEL_DIR \/ (d \in Dirs /\ kernel_mapped[d])
MapsUser(d)   == d \in Dirs /\ page_table[d][0] # NOT_PRESENT

InUser(program) == pc = "user" /\ nama[current_pid] = program

ForgetLocals ==
  /\ caller' = NoCaller /\ request' = NoRequest /\ p_index' = 0
  /\ page' = 0 /\ curr_dir' = NULL /\ retcode' = NoRetcode

(* kernel_setup calls process_create_user_process for "shell" while the     *)
(* boot directory is active and the process table is zeroed.                *)
Init ==
  /\ PagingInit
  /\ current_pid = NoPid
  /\ state = [p \in Slots |-> "Inactive"]
  /\ pid = [p \in Slots |-> 0]
  /\ nama = [p \in Slots |-> NoName]
  /\ dir = [p \in Slots |-> NULL]
  /\ page_frame_used_count = [p \in Slots |-> 0]
  /\ active_process_count = 0
  /\ cr3 = KERNEL_DIR
  /\ pc = "create" /\ caller = "boot"
  /\ request = Request("shell", BootSize, BootEntry)
  /\ p_index = 0 /\ page = 0 /\ curr_dir = NULL /\ retcode = NoRetcode

-----------------------------------------------------------------------------
(* process_create_user_process *)

Return(code) == pc' = "return" /\ retcode' = code

(* The refusals before anything is changed, in the order of the tests: the  *)
(* table is full, the entry point is the kernel's, the memory is too small. *)
RefusalCode ==
  IF active_process_count >= PROCESS_COUNT_MAX THEN 1
  ELSE IF request.buf >= KERNEL_VIRTUAL_ADDRESS_BASE THEN 2
  ELSE IF ~paging_allocate_check(Needed) \/ Needed > PROCESS_PAGE_FRAME_COUNT_MAX THEN 3
  ELSE 0

CreateRefused ==
  /\ pc = "create" /\ RefusalCode # 0
  /\ Return(RefusalCode)
  /\ UNCHANGED <<pagingVars, current_pid, processVars, cr3, caller, request, p_index, page, curr_dir>>

(* Mutant: any slot that is not Running counts as inactive. *)
NotRunningIndex(p) ==
  IF \E q \in Slots : state[q] # "Running"
  THEN p \in Slots /\ state[p] # "Running" /\ \A q \in Slots : state[q] # "Running" => p <= q
  ELSE p = PROCESS_COUNT_MAX

(* process_list_get_inactive_index: the lowest inactive slot.  It returns   *)
(* PROCESS_COUNT_MAX when there is none, an index outside the table.        *)
IsInactiveIndex(p) ==
  IF \E q \in Slots : state[q] = "Inactive"
  THEN p \in Slots /\ state[p] = "Inactive" /\ \A q \in Slots : state[q] = "Inactive" => p <= q
  ELSE p = PROCESS_COUNT_MAX

(* Mutant: nobody checks that there are frames enough. *)
ChooseSlotUnchecked ==
  /\ pc = "create"
  /\ active_process_count < PROCESS_COUNT_MAX
  /\ \E p \in 0 .. PROCESS_COUNT_MAX, d \in Dirs \cup {NULL} :
       /\ IsInactiveIndex(p)
       /\ paging_create_new_page_directory(d)
       /\ p_index' = p
       /\ dir' = [dir EXCEPT ![p] = d]
  /\ page' = 0 /\ pc' = "allocate"
  /\ UNCHANGED <<current_pid, state, pid, nama, page_frame_used_count, active_process_count,
                 cr3, caller, request, curr_dir, retcode>>

(* The new directory goes into the context of the chosen slot at once, and  *)
(* stays there whatever happens next; a NULL directory is not noticed.      *)
CreateChooseSlot ==
  /\ pc = "create" /\ RefusalCode = 0
  /\ \E p \in 0 .. PROCESS_COUNT_MAX, d \in Dirs \cup {NULL} :
       /\ IsInactiveIndex(p)
       /\ paging_create_new_page_directory(d)
       /\ p_index' = p
       /\ dir' = [dir EXCEPT ![p] = d]
  /\ page' = 0 /\ pc' = "allocate"
  /\ UNCHANGED <<current_pid, state, pid, nama, page_frame_used_count, active_process_count,
                 cr3, caller, request, curr_dir, retcode>>

CreateAllocateFrame ==
  /\ pc = "allocate" /\ page < Needed
  /\ paging_allocate_user_page_frame(dir[p_index], page)
  /\ page' = page + 1
  /\ UNCHANGED <<current_pid, processVars, cr3, pc, caller, request, p_index, curr_dir, retcode>>

(* The program is read into its own address space: CR3 is switched for the  *)
(* duration of read().  Loading a directory without the kernel ends there.  *)
CreateEnterNewDirectory ==
  /\ pc = "allocate" /\ page = Needed
  /\ curr_dir' = cr3
  /\ cr3' = dir[p_index]
  /\ pc' = IF MapsKernel(dir[p_index]) THEN "read" ELSE "fault"
  /\ UNCHANGED <<pagingVars, current_pid, processVars, caller, request, p_index, page, retcode>>

(* Mutant: the first frame is not given back. *)
ReadFailsSkipsFrame ==
  /\ pc = "read"
  /\ cr3' = curr_dir
  /\ page' = 1 /\ pc' = "undo"
  /\ UNCHANGED <<pagingVars, current_pid, processVars, caller, request, p_index, curr_dir, retcode>>

(* Mutant: the old directory is not restored. *)
ReadFailsStaysThere ==
  /\ pc = "read"
  /\ page' = 0 /\ pc' = "undo"
  /\ UNCHANGED <<pagingVars, current_pid, processVars, cr3, caller, request, p_index, curr_dir, retcode>>

(* read() failed: the old directory is restored and the frames are given    *)
(* back one by one.  The page directory is not.                             *)
CreateReadFails ==
  /\ pc = "read"
  /\ cr3' = curr_dir
  /\ page' = 0 /\ pc' = "undo"
  /\ UNCHANGED <<pagingVars, current_pid, processVars, caller, request, p_index, curr_dir, retcode>>

CreateUndoFrame ==
  /\ pc = "undo" /\ page < Needed
  /\ paging_free_user_page_frame(dir[p_index], page)
  /\ page' = page + 1
  /\ UNCHANGED <<current_pid, processVars, cr3, pc, caller, request, p_index, curr_dir, retcode>>

CreateFsReadFailure ==
  /\ pc = "undo" /\ page = Needed
  /\ Return(4)
  /\ UNCHANGED <<pagingVars, current_pid, processVars, cr3, caller, request, p_index, page, curr_dir>>

(* The part of CreateReadSucceeds that its mutants keep. *)
ReadySlotWith(frames, newpid, count, program) ==
  /\ pc = "read"
  /\ cr3' = curr_dir
  /\ page_frame_used_count' = [page_frame_used_count EXCEPT ![p_index] = frames]
  /\ pid' = [pid EXCEPT ![p_index] = newpid]
  /\ active_process_count' = active_process_count + count
  /\ state' = [state EXCEPT ![p_index] = "Ready"]
  /\ nama' = [nama EXCEPT ![p_index] = program]
  /\ Return(0)
  /\ UNCHANGED <<pagingVars, current_pid, dir, caller, request, p_index, page, curr_dir>>

(* Mutants: the process is counted twice; the pid is the number of          *)
(* processes; the frames are not recorded; the name is not copied.          *)
ReadyCountedTwice == ReadySlotWith(Needed, p_index, 2, request.name)
ReadyPidFromCount == ReadySlotWith(Needed, active_process_count, 1, request.name)
ReadyFramesUnrecorded == ReadySlotWith(page_frame_used_count[p_index], p_index, 1, request.name)
ReadyWithoutName == ReadySlotWith(Needed, p_index, 1, nama[p_index])

(* read() succeeded: the rest of the control block is filled in.  The pid   *)
(* is the lowest inactive slot looked up a second time, the slot itself     *)
(* still being inactive.                                                    *)
CreateReadSucceeds ==
  /\ pc = "read"
  /\ cr3' = curr_dir
  /\ page_frame_used_count' = [page_frame_used_count EXCEPT ![p_index] = Needed]
  /\ \E q \in 0 .. PROCESS_COUNT_MAX :
       IsInactiveIndex(q) /\ pid' = [pid EXCEPT ![p_index] = q]
  /\ active_process_count' = active_process_count + 1
  /\ state' = [state EXCEPT ![p_index] = "Ready"]
  /\ nama' = [nama EXCEPT ![p_index] = request.name]
  /\ Return(0)
  /\ UNCHANGED <<pagingVars, current_pid, dir, caller, request, p_index, page, curr_dir>>

-----------------------------------------------------------------------------
(* process_destroy *)

DestroyInactive ==
  /\ pc = "destroy" /\ page = 0
  /\ state[p_index] = "Inactive"
  /\ Return(1)
  /\ UNCHANGED <<pagingVars, current_pid, processVars, cr3, caller, request, p_index, page, curr_dir>>

DestroyFreeFrame ==
  /\ pc = "destroy" /\ page < page_frame_used_count[p_index]
  /\ state[p_index] # "Inactive"
  /\ paging_free_user_page_frame(dir[p_index], page)
  /\ page' = page + 1
  /\ UNCHANGED <<current_pid, processVars, cr3, pc, caller, request, p_index, curr_dir, retcode>>

(* Mutant: the process is not counted out. *)
FreeDirectoryUncounted ==
  /\ pc = "destroy" /\ page = page_frame_used_count[p_index]
  /\ state[p_index] # "Inactive"
  /\ paging_free_page_directory(dir[p_index])
  /\ state' = [state EXCEPT ![p_index] = "Inactive"]
  /\ Return(0)
  /\ UNCHANGED <<active_process_count, current_pid, pid, nama, dir, page_frame_used_count, cr3, caller,
                 request, p_index, page, curr_dir>>

(* Mutant: the active directory is released, not the target's. *)
FreeActiveDirectory ==
  /\ pc = "destroy" /\ page = page_frame_used_count[p_index]
  /\ state[p_index] # "Inactive"
  /\ paging_free_page_directory(cr3)
  /\ state' = [state EXCEPT ![p_index] = "Inactive"]
  /\ active_process_count' = active_process_count - 1
  /\ Return(0)
  /\ UNCHANGED <<current_pid, pid, nama, dir, page_frame_used_count, cr3, caller, request,
                 p_index, page, curr_dir>>

(* Mutant: the search for the directory misses the last one of the pool. *)
FreeDirectoryMissesLast ==
  /\ pc = "destroy" /\ page = page_frame_used_count[p_index]
  /\ state[p_index] # "Inactive"
  /\ IF dir[p_index] < PAGING_DIRECTORY_TABLE_MAX_COUNT - 1
     THEN /\ paging_free_page_directory(dir[p_index])
          /\ state' = [state EXCEPT ![p_index] = "Inactive"]
          /\ active_process_count' = active_process_count - 1
          /\ Return(0)
     ELSE /\ pc' = "cancel"
          /\ UNCHANGED <<pagingVars, state, active_process_count, retcode>>
  /\ UNCHANGED <<current_pid, pid, nama, dir, page_frame_used_count, cr3, caller, request,
                 p_index, page, curr_dir>>

(* pc = "cancel" stands for the path that takes the frames again because    *)
(* the directory is none of the pool's; DestroyNeverCancelled says that no  *)
(* process gets there, so the path itself has no action.                    *)
DestroyFreeDirectory ==
  /\ pc = "destroy" /\ page = page_frame_used_count[p_index]
  /\ state[p_index] # "Inactive"
  /\ IF dir[p_index] \in Dirs
     THEN /\ paging_free_page_directory(dir[p_index])
          /\ state' = [state EXCEPT ![p_index] = "Inactive"]
          /\ active_process_count' = active_process_count - 1
          /\ Return(0)
     ELSE /\ pc' = "cancel"
          /\ UNCHANGED <<pagingVars, state, active_process_count, retcode>>
  /\ UNCHANGED <<current_pid, pid, nama, dir, page_frame_used_count, cr3, caller, request,
                 p_index, page, curr_dir>>

-----------------------------------------------------------------------------
(* The scheduler and the timer *)

(* Mutant: the address space is not switched. *)
SwitchKeepsDirectory(st, dr) ==
  \E p \in SwitchTargets(st, current_pid) :
    /\ state' = [st EXCEPT ![p] = "Running"]
    /\ current_pid' = p
    /\ cr3' = IF current_pid = NoPid THEN dr[p] ELSE cr3
    /\ pc' = "user"

(* scheduler_switch_to_next_process with process states st and saved page   *)
(* directories dr.                                                          *)
ContextSwitch(st, dr) ==
  IF SwitchTargets(st, current_pid) = {}
  THEN pc' = "hang" /\ state' = st /\ UNCHANGED <<current_pid, cr3>>
  ELSE \E p \in SwitchTargets(st, current_pid) :
         /\ state' = [st EXCEPT ![p] = "Running"]
         /\ current_pid' = p
         /\ cr3' = dr[p]
         /\ pc' = IF MapsKernel(dr[p]) THEN "user" ELSE "fault"

(* Mutant: the interrupted process is not made Ready. *)
TimerLeavesRunning ==
  /\ pc = "user"
  /\ dir' = [dir EXCEPT ![current_pid] = cr3]
  /\ ContextSwitch(state, dir')
  /\ UNCHANGED <<pagingVars, pid, nama, page_frame_used_count, active_process_count, localVars>>

(* The timer interrupt: save the context of the current process, make it    *)
(* Ready, acknowledge, switch.                                              *)
TimerInterrupt ==
  /\ pc = "user"
  /\ dir' = [dir EXCEPT ![current_pid] = cr3]
  /\ ContextSwitch([state EXCEPT ![current_pid] = "Ready"], dir')
  /\ UNCHANGED <<pagingVars, pid, nama, page_frame_used_count, active_process_count, localVars>>

-----------------------------------------------------------------------------
(* System calls *)

(* Call 8, exec, from a shell; and call 666 (the command motivation), which  *)
(* loads testing.  Nobody reads the code that 666 returns.                  *)
SyscallProcessCreate ==
  /\ InUser("shell")
  /\ \E program \in Programs, size \in BufferSizes, entry \in Entrypoints :
       request' = Request(program, size, entry)
  /\ caller' = "exec" /\ pc' = "create"
  /\ UNCHANGED <<pagingVars, current_pid, processVars, cr3, p_index, page, curr_dir, retcode>>

(* Call 11: kill, from a shell.                                             *)
SyscallKill(text) ==
  /\ InUser("shell") /\ ParsedPid(text) \in Slots
  /\ p_index' = ParsedPid(text)
  /\ caller' = "kill" /\ pc' = "destroy" /\ page' = 0
  /\ UNCHANGED <<pagingVars, current_pid, processVars, cr3, request, curr_dir, retcode>>

(* Nobody checks that the text names a slot, and process_destroy indexes    *)
(* the table with it.  The memory found there may look like an inactive     *)
(* process, and kill fails; or it is taken for a process and destroyed.     *)
SyscallKillOutside(text) ==
  /\ InUser("shell") /\ ParsedPid(text) \notin Slots
  /\ \/ caller' = "kill" /\ Return(1)
     \/ pc' = "wild" /\ UNCHANGED <<caller, retcode>>
  /\ UNCHANGED <<pagingVars, current_pid, processVars, cr3, request, p_index, page, curr_dir>>

(* Mutant: exit destroys the process of slot 0. *)
ExitDestroysFirst ==
  /\ InUser("imm0")
  /\ cr3' = dir[0]
  /\ p_index' = 0
  /\ caller' = "exit" /\ page' = 0
  /\ pc' = IF MapsKernel(dir[0]) THEN "destroy" ELSE "fault"
  /\ UNCHANGED <<pagingVars, current_pid, processVars, request, curr_dir, retcode>>

(* Call 10: exit.  The kernel first moves to the page directory saved in    *)
(* slot 0, whoever owns it by now.                                          *)
SyscallExit ==
  /\ InUser("imm0")
  /\ cr3' = dir[0]
  /\ p_index' = pid[current_pid]
  /\ caller' = "exit" /\ page' = 0
  /\ pc' = IF MapsKernel(dir[0]) THEN "destroy" ELSE "fault"
  /\ UNCHANGED <<pagingVars, current_pid, processVars, request, curr_dir, retcode>>

(* While the active directory has lost its kernel entry the kernel lives on *)
(* what the TLB still holds: the next access may or may not fault.          *)
RunsOnTlb == ~MapsKernel(cr3)

TlbMiss ==
  /\ pc = "return" /\ RunsOnTlb
  /\ pc' = "fault"
  /\ UNCHANGED <<pagingVars, current_pid, processVars, cr3, localVars>>

(* kernel_setup ignores the return code, starts the timer and switches. *)
BootReturn ==
  /\ pc = "return" /\ caller = "boot"
  /\ ContextSwitch(state, dir)
  /\ ForgetLocals
  /\ UNCHANGED <<pagingVars, pid, nama, dir, page_frame_used_count, active_process_count>>

(* Calls 8 and 11 store the return code in the caller's memory.  When the   *)
(* active directory no longer maps it, the page fault handler returns and   *)
(* the store faults again, for ever.                                        *)
StoreReturn ==
  /\ pc = "return" /\ caller \in {"exec", "kill"}
  /\ IF MapsUser(cr3)
     THEN pc' = "user" /\ ForgetLocals
     ELSE pc' = "hang" /\ UNCHANGED localVars
  /\ UNCHANGED <<pagingVars, current_pid, processVars, cr3>>

(* exit does not look at the result of process_destroy. *)
ExitReturn ==
  /\ pc = "return" /\ caller = "exit"
  /\ ContextSwitch(state, dir)
  /\ ForgetLocals
  /\ UNCHANGED <<pagingVars, pid, nama, dir, page_frame_used_count, active_process_count>>

-----------------------------------------------------------------------------

CreateStep ==
  \/ CreateRefused \/ CreateChooseSlot
  \/ CreateAllocateFrame \/ CreateEnterNewDirectory
  \/ CreateReadFails \/ CreateUndoFrame \/ CreateFsReadFailure \/ CreateReadSucceeds

DestroyStep == DestroyInactive \/ DestroyFreeFrame \/ DestroyFreeDirectory

ReturnStep == TlbMiss \/ BootReturn \/ StoreReturn \/ ExitReturn

KernelStep == CreateStep \/ DestroyStep \/ ReturnStep

UserStep ==
  \/ SyscallProcessCreate
  \/ \E text \in KillTexts : SyscallKill(text) \/ SyscallKillOutside(text)
  \/ SyscallExit

Next == KernelStep \/ UserStep \/ TimerInterrupt

(* The kernel's own code runs on until it leaves the kernel.  The timer is  *)
(* strongly fair: a tick that arrives inside the kernel stays pending in    *)
(* the interrupt controller and fires when interrupts are enabled again, so *)
(* it cannot be missed for ever however many system calls are made.         *)
Fairness == WF_vars(KernelStep) /\ SF_vars(TimerInterrupt)

Spec == Init /\ [][Next]_vars

FairSpec == Spec /\ Fairness

-----------------------------------------------------------------------------
(* Properties *)

Live == {p \in Slots : state[p] # "Inactive"}

TypeOK ==
  /\ PagingTypeOK
  /\ current_pid \in Slots \cup {NoPid}
  /\ state \in [Slots -> States]
  /\ pid \in [Slots -> Slots]
  /\ nama \in [Slots -> Programs \cup {NoName}]
  /\ dir \in [Slots -> Dirs \cup {NULL}]
  /\ page_frame_used_count \in [Slots -> 0 .. PROCESS_PAGE_FRAME_COUNT_MAX]
  /\ active_process_count \in 0 .. PROCESS_COUNT_MAX
  /\ cr3 \in Dirs \cup {NULL, KERNEL_DIR}
  /\ pc \in {"create", "allocate", "read", "undo", "destroy", "return", "user", "cancel"} \cup Halted
  /\ caller \in {"boot", "exec", "kill", "exit", NoCaller}
  /\ request \in [name : Programs \cup {NoName}, buffer_size : BufferSizes, buf : Entrypoints]
  /\ p_index \in Slots
  /\ page \in 0 .. PROCESS_PAGE_FRAME_COUNT_MAX
  /\ curr_dir \in Dirs \cup {NULL, KERNEL_DIR}
  /\ retcode \in {NoRetcode, 0, 1, 2, 3, 4}

(* The pages process p still has: all of them, or what the loop of          *)
(* process_destroy has not reached yet.                                     *)
PagesOf(p) ==
  (IF pc = "destroy" /\ p = p_index THEN page ELSE 0) .. page_frame_used_count[p] - 1

(* A process owns its address space, at every step of every create and      *)
(* destroy: its directory is handed out, no other process has it, it maps   *)
(* the kernel, and it maps exactly the pages the control block counts.      *)
ProcessMemory ==
  \A p \in Live :
    /\ dir[p] \in Dirs /\ page_directory_used[dir[p]] /\ MapsKernel(dir[p])
    /\ \A q \in Live \ {p} : dir[q] # dir[p]
    /\ \A v \in Pages : page_table[dir[p]][v] # NOT_PRESENT <=> v \in PagesOf(p)

(* No frame is lost: whenever a process runs, the frames marked in use are  *)
(* the kernel's and those that live processes map.  A failed create and a   *)
(* destroy give back every frame.                                           *)
NoFrameLost ==
  pc = "user" =>
    {f \in Frames : page_frame_map[f]} =
      {0} \cup UNION {{page_table[dir[p]][v] : v \in PagesOf(p)} : p \in Live}

(* The counter that process_create_user_process tests agrees with the       *)
(* table.  It is why process_list_get_inactive_index always finds a slot:   *)
(* "should never happen" at process.c:21.                                   *)
ActiveCountExact == active_process_count = Cardinality(Live)

(* A process's pid is its slot: process_destroy and exit index the table    *)
(* with a pid, although create looks the inactive slot up twice.            *)
PidIsSlot == \A p \in Live : pid[p] = p

(* In user mode exactly one process is Running, it is current_pid, and it   *)
(* runs in its own directory.                                               *)
OneRunning ==
  pc = "user" =>
    /\ current_pid \in Live
    /\ \A p \in Slots : state[p] = "Running" <=> p = current_pid
    /\ cr3 = dir[current_pid]

(* The kernel stays mapped through every address space switch; it can lose  *)
(* its mapping only by destroying the process whose directory is active.    *)
KernelStaysMapped ==
  pc \notin Halted /\ RunsOnTlb =>
    pc = "return" /\ p_index = current_pid /\ state[current_pid] = "Inactive"

(* However shells kill each other, one of them is alive whenever a process  *)
(* runs: nobody is left without a shell.                                    *)
AShellLives == pc = "user" => \E p \in Live : nama[p] = "shell"

(* When exit looks for the next process there is one: the scheduler never   *)
(* falls through to the slot that has just been destroyed.                  *)
ExitFindsNext == pc = "return" /\ caller = "exit" => ReadySlots(state) # {}

(* process_destroy never takes the path that re-allocates the frames.       *)
DestroyNeverCancelled == pc # "cancel"

(* What happens to one process leaves the others alone: a step changes the  *)
(* control block, the directory or the mappings of a live process only when *)
(* it is the one being destroyed.                                           *)
BystandersUntouched ==
  [][\A p \in Live :
       ~ (pc = "destroy" /\ p = p_index) =>
          /\ state'[p] # "Inactive"
          /\ dir'[p] = dir[p] /\ pid'[p] = pid[p] /\ nama'[p] = nama[p]
          /\ page_frame_used_count'[p] = page_frame_used_count[p]
          /\ page_table'[dir[p]] = page_table[dir[p]]
          /\ kernel_mapped'[dir[p]]]_vars

(* The machine stops only for one of these causes: no shell could be loaded *)
(* at boot; exec got no page directory although fewer processes than        *)
(* directories exist, the others having been leaked; a shell killed itself; *)
(* a shell gave kill a text that names no slot; or exit ran while the owner *)
(* of slot 0 was gone or was itself exiting.                                *)
HaltCauses ==
  [][pc \notin Halted /\ pc' \in Halted =>
       \/ caller' = "exec" /\ FreeDirs = {} /\ Cardinality(Live) < Cardinality(Dirs)
       \/ caller' = "kill" /\ p_index = current_pid
       \/ pc' = "wild" /\ InUser("shell") /\ \E text \in KillTexts : ParsedPid(text) \notin Slots
       \/ caller' = "exit" /\ state[0] = "Inactive"
       \/ current_pid = NoPid /\ Live = {}]_vars

(* The kernel drives the page manager by its contract: it maps only absent  *)
(* entries and releases only directories it has emptied.                    *)
UsesPagingByContract == PagingSpec

(* Every Ready process gets the processor, unless it is killed first or the *)
(* machine has stopped.                                                     *)
NoStarvation == \A p \in Slots : state[p] = "Ready" ~> state[p] # "Ready" \/ pc \in Halted

-----------------------------------------------------------------------------
(* What the sources say and the code does not do; see the findings. *)

(* process.h:111-112: process_create_user_process returns one of the        *)
(* PROCESS_CREATE_* codes.                                                  *)
CreateReturnsItsCode == pc \in Halted => caller # "exec"
=============================================================================
