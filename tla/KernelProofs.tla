----------------------------- MODULE KernelProofs -----------------------------
(***************************************************************************)
(* Proofs about the kernel's processes (module Kernel), for every number   *)
(* of slots, frames, directories and pages, every buffer size and every    *)
(* argument of kill.  CoreInv is inductive; the properties follow.  Of the *)
(* scheduler's loop (module Scheduler) it is shown where it ends, and of   *)
(* the kernel that it implements the process table (module ProcessTable).  *)
(***************************************************************************)
EXTENDS KernelInvariant, KernelRefinement, Scheduler, PagingProofs, NatLemmas

(* The special values are none of the things they stand beside.             *)
LEMMA SpecialValues ==
  /\ NULL \notin Dirs /\ KERNEL_DIR \notin Dirs /\ KERNEL_DIR # NULL
  /\ NoPid \notin Slots /\ NOT_PRESENT \notin Frames
  /\ \A p \in Slots : p \in Int /\ 0 <= p /\ p < PROCESS_COUNT_MAX
BY ProcessCountAssumption, PagingAssumption
DEF NULL, Dirs, KERNEL_DIR, NoPid, Slots, NOT_PRESENT, Frames

LEMMA SlotsFinite == IsFiniteSet(Slots) /\ Cardinality(Slots) = PROCESS_COUNT_MAX
BY FS_Interval, ProcessCountAssumption DEF Slots

LEMMA LiveFinite == IsFiniteSet(Live) /\ Cardinality(Live) \in Nat
BY SlotsFinite, FS_Subset, FS_CardinalityType DEF Live

(* "Should never happen" (process.c:21) does not: the counter being below   *)
(* the limit, a slot is inactive.                                           *)
LEMMA InactiveSlotExists ==
  ASSUME ActiveCountExact, active_process_count < PROCESS_COUNT_MAX
  PROVE  \E q \in Slots : state[q] = "Inactive"
<1> SUFFICES ASSUME \A q \in Slots : state[q] # "Inactive" PROVE FALSE
  OBVIOUS
<1>1. Live = Slots
  BY DEF Live
<1>2. QED
  BY <1>1, SlotsFinite, ProcessCountAssumption DEF ActiveCountExact

(* What a call needs is a number of frames. *)
LEMMA NeededNat == ASSUME TypeOK PROVE Needed \in Nat
BY KernelAssumption DEF TypeOK, Needed

(* What passes the early refusals has a slot and memory left.               *)
LEMMA Refusals ==
  /\ RefusalCode \in {0, 1, 2, 3}
  /\ TypeOK /\ RefusalCode = 0 => /\ active_process_count < PROCESS_COUNT_MAX
                                   /\ paging_allocate_check(Needed)
                                   /\ Needed <= PROCESS_PAGE_FRAME_COUNT_MAX
<1>1. RefusalCode \in {0, 1, 2, 3}
  BY DEF RefusalCode
<1>2. ASSUME TypeOK, RefusalCode = 0
      PROVE  /\ active_process_count < PROCESS_COUNT_MAX
             /\ paging_allocate_check(Needed)
             /\ Needed <= PROCESS_PAGE_FRAME_COUNT_MAX
  <2>1. Needed \in Nat /\ active_process_count \in Nat
    BY <1>2, NeededNat DEF TypeOK
  <2>2. QED
    BY <1>2, <2>1, ProcessCountAssumption, PagingAssumption DEF RefusalCode
<1>3. QED
  BY <1>1, <1>2

(* Every step of the kernel is a step of a page manager whose contract is   *)
(* kept, or leaves the page manager alone.                                  *)
LEMMA ContractStep == ASSUME CoreInv, [Next]_vars PROVE [PagingNext]_pagingVars
<1> USE DEF CoreInv
<1>1. CASE CreateChooseSlot
  BY <1>1 DEF CreateChooseSlot, PagingNext
<1>2. CASE CreateAllocateFrame
  <2>1. dir[p_index] \in Dirs \cup {NULL} /\ page \in Pages
    BY <1>2, NeededNat, PagingAssumption DEF CreateAllocateFrame, CreateInv, Creating, TypeOK, Pages
  <2>2. AllocateAbsent(dir[p_index], page)
    BY <1>2, <2>1, NeededNat DEF CreateAllocateFrame, AllocateAbsent, CreateInv, Creating, CreatedPages, TypeOK
  <2>3. QED
    BY <2>1, <2>2 DEF PagingNext
<1>3. CASE CreateUndoFrame
  <2>1. dir[p_index] \in Dirs /\ page \in Pages
    BY <1>3, NeededNat, PagingAssumption DEF CreateUndoFrame, CreateInv, Creating, TypeOK, Pages
  <2>2. FreeUsed(dir[p_index], page)
    BY <1>3, <2>1 DEF CreateUndoFrame, FreeUsed, CreateInv, Creating
  <2>3. QED
    BY <2>1, <2>2 DEF PagingNext
<1>4. CASE DestroyFreeFrame
  <2>1. p_index \in Live /\ page \in Pages
    BY <1>4, PagingAssumption DEF DestroyFreeFrame, Live, TypeOK, Pages
  <2>2. dir[p_index] \in Dirs /\ FreeUsed(dir[p_index], page)
    BY <1>4, <2>1 DEF DestroyFreeFrame, FreeUsed, ProcessMemory
  <2>3. QED
    BY <2>1, <2>2 DEF PagingNext
<1>5. CASE DestroyFreeDirectory
  <2>1. p_index \in Live
    BY <1>5 DEF DestroyFreeDirectory, Live, TypeOK
  <2>2. dir[p_index] \in Dirs /\ page_directory_used[dir[p_index]]
    BY <2>1 DEF ProcessMemory
  <2>3. page_table[dir[p_index]] = NoPages
    <3>1. PagesOf(p_index) = {}
      BY <1>5, <2>1 DEF DestroyFreeDirectory, PagesOf, TypeOK
    <3>2. \A v \in Pages : page_table[dir[p_index]][v] = NOT_PRESENT
      BY <2>1, <3>1 DEF ProcessMemory
    <3>3. page_table[dir[p_index]] \in [Pages -> Frames \cup {NOT_PRESENT}]
      BY <2>2 DEF PagingInv, PagingTypeOK
    <3>4. QED
      BY <3>2, <3>3 DEF NoPages
  <2>4. FreeEmptyDirectory(dir[p_index])
    BY <1>5, <2>2, <2>3 DEF DestroyFreeDirectory, FreeEmptyDirectory
  <2>5. QED
    BY <2>2, <2>4 DEF PagingNext
<1>6. CASE UNCHANGED pagingVars
  BY <1>6
<1>7. ASSUME ~UNCHANGED pagingVars
      PROVE  \/ CreateChooseSlot \/ CreateAllocateFrame \/ CreateUndoFrame
             \/ DestroyFreeFrame \/ DestroyFreeDirectory
  BY <1>7 DEF Next, vars, KernelStep, CreateStep, DestroyStep, ReturnStep, UserStep,
    CreateRefused, CreateEnterNewDirectory, CreateReadFails,
    CreateFsReadFailure, CreateReadSucceeds, DestroyInactive, TlbMiss, BootReturn, StoreReturn,
    ExitReturn, SyscallProcessCreate, SyscallKill, SyscallKillOutside, SyscallExit, TimerInterrupt
<1>8. QED
  BY <1>1, <1>2, <1>3, <1>4, <1>5, <1>6, <1>7

LEMMA PagingInvKept == ASSUME CoreInv, [Next]_vars PROVE PagingInv'
BY ContractStep, PagingStepInv DEF CoreInv

-----------------------------------------------------------------------------
(* Steps that touch neither the page manager nor the process table          *)

LEMMA TablesUntouched ==
  ASSUME CoreInv, UNCHANGED <<pagingVars, processVars>>
  PROVE  /\ Live' = Live
         /\ ActiveCountExact' /\ PidIsSlot' /\ PagingTypeOK'
         /\ \A d : MapsKernel(d)' <=> MapsKernel(d)
         /\ \A d : MapsUser(d)' <=> MapsUser(d)
         /\ \A d, v : MappedIn(d, v)' <=> MappedIn(d, v)
         /\ \A p : IsInactiveIndex(p)' <=> IsInactiveIndex(p)
BY DEF CoreInv, PagingInv, pagingVars, processVars, Live, ActiveCountExact, PidIsSlot, PagingTypeOK,
  MapsKernel, MapsUser, MappedIn, IsInactiveIndex

LEMMA CreateRefusedInv ==
  ASSUME CoreInv, PagingInv', CreateRefused
  PROVE  CoreInv'
<1> USE DEF CoreInv, CreateRefused, Return, pagingVars, processVars
<1>1. /\ pc = "create" /\ pc' = "return"
      /\ UNCHANGED <<pagingVars, processVars, current_pid, cr3, caller, request, p_index, page, curr_dir>>
  OBVIOUS
<1>2. TypeOK'
  BY Refusals DEF TypeOK, PagingTypeOK
<1>3. /\ Live' = Live /\ ActiveCountExact' /\ PidIsSlot'
      /\ \A d : MapsKernel(d)' <=> MapsKernel(d)
      /\ \A d, v : MappedIn(d, v)' <=> MappedIn(d, v)
  BY TablesUntouched
<1>4. ProcessMemory'
  BY <1>1, <1>3 DEF ProcessMemory, PagesOf
<1>5. KernelStaysMapped'
  BY <1>1, <1>3 DEF KernelStaysMapped, RunsOnTlb, Halted
<1>6. ControlInv' /\ CreateInv' /\ DestroyInv'
  BY <1>1 DEF ControlInv, CreateInv, DestroyInv, Creating, NoCaller
<1>7. BootInv'
  BY <1>1, <1>3 DEF BootInv, HomeDir, Halted
<1>8. RunnerInv'
  BY <1>1, <1>3 DEF RunnerInv, ControlInv, HomeDir, Halted, CurrentGone, Creating
<1>9. MappedByOwner' /\ FramesMapped'
  BY <1>1, <1>3 DEF MappedByOwner, FramesMapped, Creating, Halted
<1>10. QED
  BY <1>2, <1>3, <1>4, <1>5, <1>6, <1>7, <1>8, <1>9

(* A slot chosen for a new process is not a live one. *)
LEMMA InactiveIndexFree ==
  ASSUME NEW p, IsInactiveIndex(p), p \in Slots
  PROVE  state[p] = "Inactive" /\ p \notin Live /\ \A q : IsInactiveIndex(q) => q = p
BY SpecialValues DEF IsInactiveIndex, Live, Slots

(* During create and before it, nothing has happened to the caller.         *)
LEMMA CallerKept ==
  ASSUME CoreInv, pc = "create" \/ Creating
  PROVE  /\ caller \in {"boot", "exec"} /\ pc \notin Halted
         /\ caller = "boot" => HomeDir = KERNEL_DIR
         /\ caller = "exec" => /\ current_pid \in Live /\ HomeDir = dir[current_pid]
                               /\ state[current_pid] = "Running"
         /\ MapsKernel(HomeDir)
<1> USE DEF CoreInv
<1>1. caller \in {"boot", "exec"} /\ pc \notin Halted
  BY DEF ControlInv, Creating, Halted
<1>2. caller = "boot" => HomeDir = KERNEL_DIR
  BY <1>1 DEF BootInv
<1>3. caller = "exec" => /\ current_pid \in Live /\ HomeDir = dir[current_pid]
                         /\ state[current_pid] = "Running"
  BY <1>1 DEF RunnerInv, CurrentGone, Live, Creating
<1>4. MapsKernel(HomeDir)
  BY <1>1, <1>2, <1>3 DEF MapsKernel, ProcessMemory
<1>5. QED
  BY <1>1, <1>2, <1>3, <1>4

LEMMA CreateEnterInv ==
  ASSUME CoreInv, PagingInv', CreateEnterNewDirectory
  PROVE  CoreInv'
<1> USE DEF CoreInv, CreateEnterNewDirectory, pagingVars, processVars
<1>1. /\ pc = "allocate" /\ page = Needed /\ curr_dir' = cr3 /\ cr3' = dir[p_index]
      /\ pc' = IF MapsKernel(dir[p_index]) THEN "read" ELSE "fault"
      /\ UNCHANGED <<pagingVars, processVars, current_pid, caller, request, p_index, page, retcode>>
  OBVIOUS
<1>2. TypeOK'
  BY <1>1 DEF TypeOK, PagingTypeOK, Halted
<1>3. /\ Live' = Live /\ ActiveCountExact' /\ PidIsSlot'
      /\ \A d : MapsKernel(d)' <=> MapsKernel(d)
      /\ \A d, v : MappedIn(d, v)' <=> MappedIn(d, v)
      /\ \A p : IsInactiveIndex(p)' <=> IsInactiveIndex(p)
  BY TablesUntouched
<1>4. Needed' = Needed /\ Creating /\ HomeDir = cr3
  BY <1>1 DEF Needed, Creating, HomeDir
<1>5. ProcessMemory'
  BY <1>1, <1>3 DEF ProcessMemory, PagesOf
<1>6. KernelStaysMapped'
  BY <1>1, <1>3 DEF KernelStaysMapped, RunsOnTlb, Halted
<1>7. ControlInv' /\ DestroyInv'
  BY <1>1 DEF ControlInv, DestroyInv, Creating, NoCaller, Halted
<1>8. CreateInv'
  <2>1. CASE pc' = "fault"
    BY <2>1 DEF CreateInv, Creating
  <2>2. CASE pc' = "read"
    <3>1. dir[p_index] \in Dirs
      BY <1>1, <2>2, SpecialValues DEF MapsKernel, TypeOK
    <3>2. CreatedPages' = CreatedPages
      BY <1>1, <1>4, <2>2 DEF CreatedPages
    <3>3. QED
      BY <1>1, <1>3, <1>4, <2>2, <3>1, <3>2 DEF CreateInv, Creating
  <2>3. QED
    BY <1>1, <2>1, <2>2
<1>9. BootInv'
  BY <1>1, <1>3, <1>4 DEF BootInv, HomeDir, Halted
<1>10. RunnerInv'
  BY <1>1, <1>3, <1>4, CallerKept DEF RunnerInv, HomeDir, Halted, CurrentGone, Creating
<1>11. MappedByOwner' /\ FramesMapped'
  <2>1. CASE pc' = "fault"
    <3>1. dir[p_index] \notin Dirs
      BY <1>1, <1>4, <2>1 DEF CreateInv, MapsKernel
    <3>2. MappedByOwner'
      BY <1>1, <1>3, <3>1 DEF MappedByOwner
    <3>3. QED
      BY <2>1, <3>2 DEF FramesMapped, Halted
  <2>2. CASE pc' = "read"
    <3>1. dir[p_index] \in Dirs
      BY <1>1, <2>2, SpecialValues DEF MapsKernel, TypeOK
    <3>2. QED
      BY <1>1, <1>3, <2>2, <3>1 DEF MappedByOwner, FramesMapped, Creating, Halted
  <2>3. QED
    BY <1>1, <2>1, <2>2
<1>12. QED
  BY <1>2, <1>3, <1>5, <1>6, <1>7, <1>8, <1>9, <1>10, <1>11

LEMMA CreateReadFailsInv ==
  ASSUME CoreInv, PagingInv', CreateReadFails
  PROVE  CoreInv'
<1> USE DEF CoreInv, CreateReadFails, pagingVars, processVars
<1>1. /\ pc = "read" /\ pc' = "undo" /\ cr3' = curr_dir /\ page' = 0
      /\ UNCHANGED <<pagingVars, processVars, current_pid, caller, request, p_index, curr_dir, retcode>>
  OBVIOUS
<1>2. TypeOK'
  BY <1>1, PagingAssumption DEF TypeOK, PagingTypeOK
<1>3. /\ Live' = Live /\ ActiveCountExact' /\ PidIsSlot'
      /\ \A d : MapsKernel(d)' <=> MapsKernel(d)
      /\ \A d, v : MappedIn(d, v)' <=> MappedIn(d, v)
      /\ \A p : IsInactiveIndex(p)' <=> IsInactiveIndex(p)
  BY TablesUntouched
<1>4. Needed' = Needed /\ Needed \in Nat /\ Creating /\ HomeDir = curr_dir /\ HomeDir' = curr_dir
  BY <1>1, NeededNat DEF Needed, Creating, HomeDir
<1>5. ProcessMemory'
  BY <1>1, <1>3 DEF ProcessMemory, PagesOf
<1>6. KernelStaysMapped'
  BY <1>1, <1>3, <1>4, CallerKept DEF KernelStaysMapped, RunsOnTlb
<1>7. ControlInv' /\ DestroyInv'
  BY <1>1 DEF ControlInv, DestroyInv, Creating, NoCaller
<1>8. CreateInv'
  <2>1. CreatedPages' = CreatedPages
    BY <1>1, <1>4 DEF CreatedPages
  <2>2. QED
    BY <1>1, <1>3, <1>4, <2>1 DEF CreateInv, Creating
<1>9. BootInv'
  BY <1>1, <1>3, <1>4 DEF BootInv, Halted
<1>10. RunnerInv'
  BY <1>1, <1>3, <1>4, CallerKept DEF RunnerInv, Halted, CurrentGone, Creating
<1>11. MappedByOwner' /\ FramesMapped'
  BY <1>1, <1>3 DEF MappedByOwner, FramesMapped, Creating, Halted
<1>12. QED
  BY <1>2, <1>3, <1>5, <1>6, <1>7, <1>8, <1>9, <1>10, <1>11

LEMMA CreateFsReadFailureInv ==
  ASSUME CoreInv, PagingInv', CreateFsReadFailure
  PROVE  CoreInv'
<1> USE DEF CoreInv, CreateFsReadFailure, Return, pagingVars, processVars
<1>1. /\ pc = "undo" /\ page = Needed /\ pc' = "return" /\ retcode' = 4
      /\ UNCHANGED <<pagingVars, processVars, current_pid, cr3, caller, request, p_index, page, curr_dir>>
  OBVIOUS
<1>2. TypeOK'
  BY <1>1 DEF TypeOK, PagingTypeOK
<1>3. /\ Live' = Live /\ ActiveCountExact' /\ PidIsSlot'
      /\ \A d : MapsKernel(d)' <=> MapsKernel(d)
      /\ \A d, v : MappedIn(d, v)' <=> MappedIn(d, v)
  BY TablesUntouched
<1>4. Creating /\ HomeDir = cr3 /\ HomeDir' = cr3 /\ Needed \in Nat
  BY <1>1, NeededNat DEF Creating, HomeDir
<1>5. ProcessMemory'
  BY <1>1, <1>3 DEF ProcessMemory, PagesOf
<1>6. KernelStaysMapped'
  BY <1>1, <1>3, <1>4, CallerKept DEF KernelStaysMapped, RunsOnTlb
<1>7. ControlInv' /\ DestroyInv' /\ CreateInv'
  BY <1>1 DEF ControlInv, DestroyInv, CreateInv, Creating, NoCaller
<1>8. BootInv'
  BY <1>1, <1>3, <1>4 DEF BootInv, Halted
<1>9. RunnerInv'
  BY <1>1, <1>3, <1>4, CallerKept DEF RunnerInv, Halted, CurrentGone, Creating, Live
<1>10. MappedByOwner' /\ FramesMapped'
  <2>1. \A v \in Pages : ~MappedIn(dir[p_index], v)
    BY <1>1, <1>4 DEF CreateInv, CreatedPages, MappedIn, Pages
  <2>2. QED
    BY <1>1, <1>3, <2>1 DEF MappedByOwner, FramesMapped, Creating, Halted
<1>11. QED
  BY <1>2, <1>3, <1>5, <1>6, <1>7, <1>8, <1>9, <1>10

-----------------------------------------------------------------------------
(* process_create_user_process, where it changes frames and slots           *)

LEMMA CreateChooseSlotInv ==
  ASSUME CoreInv, PagingInv', CreateChooseSlot
  PROVE  CoreInv'
<1> USE DEF CoreInv
<1>1. PICK p \in 0 .. PROCESS_COUNT_MAX, d \in Dirs \cup {NULL} :
        /\ IsInactiveIndex(p)
        /\ paging_create_new_page_directory(d)
        /\ p_index' = p
        /\ dir' = [dir EXCEPT ![p] = d]
  BY DEF CreateChooseSlot
<1>2. /\ pc = "create" /\ pc' = "allocate" /\ page' = 0
      /\ UNCHANGED <<current_pid, state, pid, nama, page_frame_used_count, active_process_count,
                     cr3, caller, request, curr_dir, retcode>>
      /\ active_process_count < PROCESS_COUNT_MAX
      /\ Needed <= free_page_frame_count /\ Needed <= PROCESS_PAGE_FRAME_COUNT_MAX
  BY Refusals DEF CreateChooseSlot, paging_allocate_check
<1>3. p \in Slots /\ state[p] = "Inactive" /\ p \notin Live
  <2>1. \E q \in Slots : state[q] = "Inactive"
    BY <1>2, InactiveSlotExists
  <2>2. QED
    BY <1>1, <2>1 DEF IsInactiveIndex, Live
<1>4. /\ Live' = Live /\ Needed' = Needed /\ Needed \in Nat /\ HomeDir' = cr3 /\ HomeDir = cr3
      /\ \A q : IsInactiveIndex(q)' <=> IsInactiveIndex(q)
  BY <1>2, NeededNat DEF Live, Needed, HomeDir, IsInactiveIndex
<1>5. /\ UNCHANGED <<page_frame_map, free_page_frame_count>>
      /\ d \in Dirs => /\ ~page_directory_used[d]
                       /\ page_directory_used' = [page_directory_used EXCEPT ![d] = TRUE]
                       /\ page_table' = [page_table EXCEPT ![d] = NoPages]
                       /\ kernel_mapped' = [kernel_mapped EXCEPT ![d] = TRUE]
      /\ d \notin Dirs => UNCHANGED <<page_directory_used, page_table, kernel_mapped>>
  BY <1>1, SpecialValues DEF paging_create_new_page_directory, FreeDirs
<1>6. \A e \in Dirs : e # d => /\ page_directory_used'[e] = page_directory_used[e]
                               /\ page_table'[e] = page_table[e]
                               /\ kernel_mapped'[e] = kernel_mapped[e]
  BY <1>5 DEF PagingInv, PagingTypeOK
<1>7. d \in Dirs => /\ page_directory_used'[d] /\ kernel_mapped'[d]
                    /\ \A v \in Pages : page_table'[d][v] = NOT_PRESENT
  BY <1>5 DEF PagingInv, PagingTypeOK, NoPages
<1>8. \A q \in Live : dir'[q] = dir[q] /\ dir[q] \in Dirs /\ dir[q] # d
  BY <1>1, <1>3, <1>5 DEF ProcessMemory, TypeOK, Live
<1>9. dir'[p] = d
  BY <1>1, <1>3 DEF TypeOK
<1>10. MapsKernel(cr3) /\ \A e : MapsKernel(e) => MapsKernel(e)'
  <2>1. MapsKernel(cr3)
    BY <1>2, <1>4, CallerKept
  <2>2. QED
    BY <2>1, <1>6, <1>7 DEF MapsKernel
<1>11. TypeOK'
  BY <1>1, <1>2, <1>3, PagingAssumption DEF TypeOK, PagingInv
<1>12. ActiveCountExact' /\ PidIsSlot'
  BY <1>2, <1>4 DEF ActiveCountExact, PidIsSlot
<1>13. ProcessMemory'
  <2>1. \A q : PagesOf(q)' = PagesOf(q)
    BY <1>2 DEF PagesOf
  <2>2. QED
    BY <1>4, <1>6, <1>8, <1>10, <2>1 DEF ProcessMemory
<1>14. KernelStaysMapped'
  BY <1>2, <1>10 DEF KernelStaysMapped, RunsOnTlb
<1>15. ControlInv' /\ DestroyInv'
  BY <1>2 DEF ControlInv, DestroyInv, Creating, NoCaller
<1>16. CreateInv'
  <2>1. CreatedPages' = 0 .. -1
    BY <1>2 DEF CreatedPages
  <2>2. IsInactiveIndex(p_index)'
    BY <1>1, <1>2 DEF IsInactiveIndex
  <2>3. \A v \in Pages : v \notin CreatedPages'
    BY <2>1
  <2>4. QED
    BY <1>1, <1>2, <1>4, <1>5, <1>7, <1>8, <1>9, <2>2, <2>3 DEF CreateInv, Creating
<1>17. BootInv'
  BY <1>2, <1>4 DEF BootInv, Halted
<1>18. RunnerInv'
  BY <1>2, <1>4, <1>8, CallerKept DEF RunnerInv, Halted, CurrentGone
<1>19. \A e \in Dirs, v \in Pages :
         /\ MappedIn(e, v)' => MappedIn(e, v) /\ e # d
         /\ MappedIn(e, v) /\ e # d => MappedIn(e, v)'
         /\ MappedIn(e, v) => d \notin Dirs \/ e # d
  BY <1>5, <1>6, <1>7 DEF MappedIn
<1>20. MappedByOwner'
  BY <1>2, <1>4, <1>8, <1>19 DEF MappedByOwner, Creating
<1>21. FramesMapped'
  <2>1. CASE d \notin Dirs
    BY <1>1, <1>2, <1>9, <2>1 DEF FramesMapped
  <2>2. CASE d \in Dirs
    BY <1>2, <1>5, <1>6, <1>19, <2>2 DEF FramesMapped, Halted
  <2>3. QED
    BY <2>1, <2>2
<1>22. QED
  BY <1>11, <1>12, <1>13, <1>14, <1>15, <1>16, <1>17, <1>18, <1>20, <1>21

LEMMA CreateAllocateFrameInv ==
  ASSUME CoreInv, PagingInv', CreateAllocateFrame
  PROVE  CoreInv'
<1> USE DEF CoreInv
<1> DEFINE d == dir[p_index]
<1>1. /\ pc = "allocate" /\ page < Needed /\ page' = page + 1
      /\ UNCHANGED <<current_pid, processVars, cr3, pc, caller, request, p_index, curr_dir, retcode>>
      /\ paging_allocate_user_page_frame(d, page)
  BY DEF CreateAllocateFrame
<1>2. /\ Creating /\ Creating' /\ Live' = Live /\ Needed' = Needed /\ Needed \in Nat /\ page \in Nat
      /\ HomeDir' = cr3 /\ HomeDir = cr3
      /\ \A q : IsInactiveIndex(q)' <=> IsInactiveIndex(q)
  BY <1>1, NeededNat DEF Live, Needed, HomeDir, IsInactiveIndex, processVars, Creating, TypeOK
<1>3. /\ Needed - page <= free_page_frame_count /\ free_page_frame_count \in Nat
      /\ Needed <= PROCESS_PAGE_FRAME_COUNT_MAX /\ page \in Pages
  BY <1>1, <1>2, PagingAssumption DEF CreateInv, TypeOK, PagingTypeOK, Pages
<1>4. free_page_frame_count >= 1 /\ FreeFrames # {}
  <2>1. free_page_frame_count >= 1
    BY <1>1, <1>2, <1>3
  <2>2. Cardinality(FreeFrames) # 0
    BY <2>1 DEF PagingInv, FrameAccounting
  <2>3. QED
    BY <2>1, <2>2, FS_EmptySet
<1>5. PICK f \in FreeFrames :
        /\ page_frame_map' = [page_frame_map EXCEPT ![f] = TRUE]
        /\ free_page_frame_count' = free_page_frame_count - 1
        /\ page_table' = IF d \in Dirs
                         THEN [page_table EXCEPT ![d] = [@ EXCEPT ![page] = f]]
                         ELSE page_table
  <2>1. paging_allocate_check(1)
    BY <1>4 DEF paging_allocate_check
  <2>2. QED
    BY <1>1, <1>4, <2>1, Zenon DEF paging_allocate_user_page_frame
<1>6. UNCHANGED <<page_directory_used, kernel_mapped>>
  BY <1>1 DEF paging_allocate_user_page_frame
<1>7. f \in Frames /\ f # NOT_PRESENT
  BY SpecialValues DEF FreeFrames
<1>8. \A e \in Dirs, v \in Pages :
        page_table'[e][v] = IF e = d /\ v = page THEN f ELSE page_table[e][v]
  BY <1>5 DEF PagingInv, PagingTypeOK
<1>9. \A q \in Live : dir[q] \in Dirs /\ dir[q] # d
  BY <1>2 DEF ProcessMemory, CreateInv
<1>10. UNCHANGED <<state, pid, nama, dir, page_frame_used_count, active_process_count>>
  BY <1>1 DEF processVars
<1>11. TypeOK'
  BY <1>1, <1>2, <1>3, <1>10, PagingAssumption DEF TypeOK, PagingInv, Pages
<1>12. ActiveCountExact' /\ PidIsSlot'
  BY <1>2, <1>10 DEF ActiveCountExact, PidIsSlot
<1>13. ProcessMemory'
  <2>1. \A q : PagesOf(q)' = PagesOf(q)
    BY <1>1, <1>10 DEF PagesOf
  <2>2. \A q \in Live, v \in Pages : page_table'[dir[q]][v] = page_table[dir[q]][v]
    BY <1>8, <1>9
  <2>3. QED
    BY <1>2, <1>6, <1>10, <2>1, <2>2 DEF ProcessMemory, MapsKernel
<1>14. KernelStaysMapped'
  BY <1>1, <1>6, <1>10 DEF KernelStaysMapped, RunsOnTlb, MapsKernel
<1>15. ControlInv' /\ DestroyInv'
  BY <1>1 DEF ControlInv, DestroyInv, Creating
<1>16. CreateInv'
  <2>1. \A v \in Pages : v \in CreatedPages' <=> v \in CreatedPages \/ v = page
    BY <1>1, <1>2, <1>3 DEF CreatedPages, Pages
  <2>2. d \in Dirs => \A v \in Pages : page_table'[d][v] # NOT_PRESENT <=> v \in CreatedPages'
    BY <1>2, <1>3, <1>7, <1>8, <2>1 DEF CreateInv
  <2>3. QED
    BY <1>1, <1>2, <1>3, <1>5, <1>6, <1>10, <2>2 DEF CreateInv
<1>17. BootInv'
  BY <1>1, <1>2, <1>10 DEF BootInv
<1>18. RunnerInv'
  BY <1>1, <1>2, <1>10, CallerKept DEF RunnerInv, CurrentGone
<1>19. \A e \in Dirs, v \in Pages :
         /\ MappedIn(e, v)' => MappedIn(e, v) \/ e = d
         /\ MappedIn(e, v) => MappedIn(e, v)'
         /\ MappedIn(e, v) => page_table'[e][v] = page_table[e][v]
  <2>1. d \in Dirs => page_table[d][page] = NOT_PRESENT
    BY <1>1, <1>2, <1>3 DEF CreateInv, CreatedPages
  <2>2. QED
    BY <1>6, <1>7, <1>8, <2>1 DEF MappedIn
<1>20. MappedByOwner'
  BY <1>1, <1>2, <1>10, <1>19 DEF MappedByOwner
<1>21. FramesMapped'
  <2>1. CASE d \notin Dirs
    BY <1>1, <1>10, <2>1 DEF FramesMapped
  <2>2. CASE d \in Dirs
    <3>1. page_directory_used'[d] /\ page_table'[d][page] = f
      BY <1>2, <1>3, <1>6, <1>8, <2>2 DEF CreateInv
    <3>2. \A g \in Frames : page_frame_map'[g] => g = f \/ page_frame_map[g]
      BY <1>5, <1>7 DEF PagingInv, PagingTypeOK
    <3>3. \A g \in Frames : page_frame_map[g] /\ g # 0 =>
            \E e \in Dirs, v \in Pages : MappedIn(e, v) /\ page_table[e][v] = g
      BY <1>1, <2>2 DEF FramesMapped, Halted
    <3>4. ASSUME NEW g \in Frames, page_frame_map'[g], g # 0
          PROVE  \E e \in Dirs, v \in Pages : MappedIn(e, v)' /\ page_table'[e][v] = g
      <4>1. CASE g = f
        BY <1>3, <1>7, <2>2, <3>1, <4>1 DEF MappedIn
      <4>2. CASE g # f
        BY <1>19, <3>2, <3>3, <3>4, <4>2
      <4>3. QED
        BY <4>1, <4>2
    <3>5. QED
      BY <3>4 DEF FramesMapped
  <2>3. QED
    BY <2>1, <2>2
<1>22. QED
  BY <1>11, <1>12, <1>13, <1>14, <1>15, <1>16, <1>17, <1>18, <1>20, <1>21

(* Releasing page number page of directory d, which maps it. *)
LEMMA FreedPage ==
  ASSUME CoreInv, NEW d \in Dirs, NEW v \in Pages,
         page_directory_used[d], page_table[d][v] # NOT_PRESENT, paging_free_user_page_frame(d, v)
  PROVE  /\ UNCHANGED <<page_directory_used, kernel_mapped>>
         /\ \A e \in Dirs, w \in Pages :
              page_table'[e][w] = IF e = d /\ w = v THEN NOT_PRESENT ELSE page_table[e][w]
         /\ \A e \in Dirs, w \in Pages : MappedIn(e, w)' <=> MappedIn(e, w) /\ ~(e = d /\ w = v)
         /\ \A g \in Frames : page_frame_map'[g] => page_frame_map[g] /\ g # page_table[d][v]
<1> USE DEF CoreInv
<1>1. /\ page_frame_map' = [page_frame_map EXCEPT ![page_table[d][v]] = FALSE]
      /\ page_table' = [page_table EXCEPT ![d] = [@ EXCEPT ![v] = NOT_PRESENT]]
      /\ UNCHANGED <<page_directory_used, kernel_mapped>>
  BY DEF paging_free_user_page_frame
<1>2. \A e \in Dirs, w \in Pages :
        page_table'[e][w] = IF e = d /\ w = v THEN NOT_PRESENT ELSE page_table[e][w]
  BY <1>1 DEF PagingInv, PagingTypeOK
<1>3. \A e \in Dirs, w \in Pages : MappedIn(e, w)' <=> MappedIn(e, w) /\ ~(e = d /\ w = v)
  BY <1>1, <1>2 DEF MappedIn
<1>4. \A g \in Frames : page_frame_map'[g] => page_frame_map[g] /\ g # page_table[d][v]
  BY <1>1 DEF PagingInv, PagingTypeOK
<1>5. QED
  BY <1>1, <1>2, <1>3, <1>4

(* A frame still in use after a page was released is still mapped.          *)
LEMMA FreedPageMapped ==
  ASSUME CoreInv, NEW d \in Dirs, NEW v \in Pages,
         page_directory_used[d], page_table[d][v] # NOT_PRESENT, paging_free_user_page_frame(d, v),
         pc \notin Halted, ~(pc = "allocate" /\ dir[p_index] \notin Dirs)
  PROVE  FramesMapped'
<1> SUFFICES ASSUME NEW g \in Frames, page_frame_map'[g], g # 0
             PROVE  \E e \in Dirs, w \in Pages : MappedIn(e, w)' /\ page_table'[e][w] = g
  BY DEF FramesMapped
<1>1. PICK e \in Dirs, w \in Pages : MappedIn(e, w) /\ page_table[e][w] = g
  BY FreedPage DEF CoreInv, FramesMapped
<1>2. ~(e = d /\ w = v)
  BY <1>1, FreedPage
<1>3. QED
  BY <1>1, <1>2, FreedPage

LEMMA CreateUndoFrameInv ==
  ASSUME CoreInv, PagingInv', CreateUndoFrame
  PROVE  CoreInv'
<1> USE DEF CoreInv
<1> DEFINE d == dir[p_index]
<1>1. /\ pc = "undo" /\ page < Needed /\ page' = page + 1
      /\ UNCHANGED <<current_pid, processVars, cr3, pc, caller, request, p_index, curr_dir, retcode>>
      /\ paging_free_user_page_frame(d, page)
  BY DEF CreateUndoFrame
<1>2. /\ Creating /\ Creating' /\ Live' = Live /\ Needed' = Needed /\ Needed \in Nat /\ page \in Nat
      /\ HomeDir' = cr3 /\ HomeDir = cr3
      /\ \A q : IsInactiveIndex(q)' <=> IsInactiveIndex(q)
  BY <1>1, NeededNat DEF Live, Needed, HomeDir, IsInactiveIndex, processVars, Creating, TypeOK
<1>3. Needed <= PROCESS_PAGE_FRAME_COUNT_MAX /\ page \in Pages /\ d \in Dirs /\ page_directory_used[d]
  BY <1>1, <1>2, PagingAssumption DEF CreateInv, Pages
<1>4. page_table[d][page] # NOT_PRESENT
  BY <1>1, <1>2, <1>3 DEF CreateInv, CreatedPages
<1>5. /\ UNCHANGED <<page_directory_used, kernel_mapped>>
      /\ \A e \in Dirs, w \in Pages :
           page_table'[e][w] = IF e = d /\ w = page THEN NOT_PRESENT ELSE page_table[e][w]
      /\ \A e \in Dirs, w \in Pages : MappedIn(e, w)' => MappedIn(e, w)
  BY <1>1, <1>3, <1>4, FreedPage
<1>6. \A q \in Live : dir[q] \in Dirs /\ dir[q] # d
  BY <1>2, <1>3 DEF ProcessMemory, CreateInv
<1>7. UNCHANGED <<state, pid, nama, dir, page_frame_used_count, active_process_count>>
  BY <1>1 DEF processVars
<1>8. TypeOK'
  BY <1>1, <1>2, <1>3, <1>7, PagingAssumption DEF TypeOK, PagingInv, Pages
<1>9. ActiveCountExact' /\ PidIsSlot'
  BY <1>2, <1>7 DEF ActiveCountExact, PidIsSlot
<1>10. ProcessMemory'
  <2>1. \A q : PagesOf(q)' = PagesOf(q)
    BY <1>1, <1>7 DEF PagesOf
  <2>2. \A q \in Live, v \in Pages : page_table'[dir[q]][v] = page_table[dir[q]][v]
    BY <1>5, <1>6
  <2>3. QED
    BY <1>2, <1>5, <1>7, <2>1, <2>2 DEF ProcessMemory, MapsKernel
<1>11. KernelStaysMapped'
  BY <1>1, <1>5, <1>7 DEF KernelStaysMapped, RunsOnTlb, MapsKernel
<1>12. ControlInv' /\ DestroyInv'
  BY <1>1 DEF ControlInv, DestroyInv, Creating
<1>13. CreateInv'
  <2>1. \A v \in Pages : v \in CreatedPages' <=> v \in CreatedPages /\ v # page
    BY <1>1, <1>2, <1>3 DEF CreatedPages, Pages
  <2>2. \A v \in Pages : page_table'[d][v] # NOT_PRESENT <=> v \in CreatedPages'
    BY <1>2, <1>3, <1>5, <2>1 DEF CreateInv
  <2>3. QED
    BY <1>1, <1>2, <1>3, <1>5, <1>7, <2>2 DEF CreateInv
<1>14. BootInv'
  BY <1>1, <1>2, <1>7 DEF BootInv
<1>15. RunnerInv'
  BY <1>1, <1>2, <1>7, CallerKept DEF RunnerInv, CurrentGone
<1>16. MappedByOwner'
  BY <1>1, <1>2, <1>5, <1>7 DEF MappedByOwner
<1>17. FramesMapped'
  BY <1>1, <1>3, <1>4, FreedPageMapped DEF Halted
<1>18. QED
  BY <1>8, <1>9, <1>10, <1>11, <1>12, <1>13, <1>14, <1>15, <1>16, <1>17

LEMMA CreateReadSucceedsInv ==
  ASSUME CoreInv, PagingInv', CreateReadSucceeds
  PROVE  CoreInv'
<1> USE DEF CoreInv
<1> DEFINE d == dir[p_index]
<1>1. /\ pc = "read" /\ pc' = "return" /\ retcode' = 0 /\ cr3' = curr_dir
      /\ page_frame_used_count' = [page_frame_used_count EXCEPT ![p_index] = Needed]
      /\ active_process_count' = active_process_count + 1
      /\ state' = [state EXCEPT ![p_index] = "Ready"]
      /\ nama' = [nama EXCEPT ![p_index] = request.name]
      /\ UNCHANGED <<pagingVars, current_pid, dir, caller, request, p_index, page, curr_dir>>
  BY DEF CreateReadSucceeds, Return
<1>2. /\ Creating /\ ~Creating' /\ Needed \in Nat /\ p_index \in Slots
      /\ HomeDir' = curr_dir /\ HomeDir = curr_dir
  BY <1>1, NeededNat DEF HomeDir, Creating, TypeOK
<1>3. state[p_index] = "Inactive" /\ p_index \notin Live /\ \A q : IsInactiveIndex(q) => q = p_index
  BY <1>2, InactiveIndexFree DEF CreateInv
<1>4. pid' = [pid EXCEPT ![p_index] = p_index]
  BY <1>3 DEF CreateReadSucceeds
<1>5. Live' = Live \cup {p_index}
  BY <1>1, <1>2 DEF Live, TypeOK
<1>6. UNCHANGED <<page_frame_map, free_page_frame_count, page_directory_used, page_table, kernel_mapped>>
  BY <1>1 DEF pagingVars
<1>7. /\ d \in Dirs /\ page_directory_used[d] /\ kernel_mapped[d] /\ \A q \in Live : dir[q] # d
      /\ \A v \in Pages : page_table[d][v] # NOT_PRESENT <=> v \in 0 .. Needed - 1
      /\ Needed <= PROCESS_PAGE_FRAME_COUNT_MAX
  BY <1>1, <1>2 DEF CreateInv, CreatedPages
<1>8. /\ state'[p_index] = "Ready" /\ pid'[p_index] = p_index /\ nama'[p_index] = request.name
      /\ page_frame_used_count'[p_index] = Needed
      /\ \A q \in Slots : q # p_index =>
           /\ state'[q] = state[q] /\ pid'[q] = pid[q] /\ nama'[q] = nama[q]
           /\ page_frame_used_count'[q] = page_frame_used_count[q]
  BY <1>1, <1>2, <1>4 DEF TypeOK
<1>9. \A q \in Live : q \in Slots /\ q # p_index
  BY <1>3 DEF Live
<1>10. ActiveCountExact'
  <2>1. Cardinality(Live \cup {p_index}) = Cardinality(Live) + 1
    BY <1>3, LiveFinite, FS_AddElement
  <2>2. QED
    BY <1>1, <1>5, <2>1 DEF ActiveCountExact
<1>11. TypeOK'
  <2>1. active_process_count' \in 0 .. PROCESS_COUNT_MAX
    <3>1. Live' \subseteq Slots
      BY <1>2, <1>5 DEF Live
    <3>2. Cardinality(Live') <= PROCESS_COUNT_MAX /\ Cardinality(Live') \in Nat
      BY <3>1, SlotsFinite, FS_Subset, FS_CardinalityType
    <3>3. QED
      BY <1>10, <3>2, ProcessCountAssumption DEF ActiveCountExact
  <2>2. request.name \in Programs \cup {NoName} /\ "Ready" \in States
    BY DEF TypeOK, States
  <2>3. QED
    BY <1>1, <1>2, <1>4, <1>7, <2>1, <2>2 DEF TypeOK, PagingInv
<1>12. PidIsSlot'
  BY <1>5, <1>8, <1>9 DEF PidIsSlot
<1>13. ProcessMemory'
  <2>1. \A q \in Live : PagesOf(q)' = PagesOf(q)
    BY <1>1, <1>8, <1>9 DEF PagesOf
  <2>2. PagesOf(p_index)' = 0 .. Needed - 1
    BY <1>1, <1>8 DEF PagesOf
  <2>3. \A q \in Live' :
          /\ dir'[q] \in Dirs /\ page_directory_used'[dir'[q]] /\ kernel_mapped'[dir'[q]]
          /\ \A r \in Live' \ {q} : dir'[r] # dir'[q]
    <3>1. \A q \in Live : /\ dir[q] \in Dirs /\ page_directory_used[dir[q]] /\ kernel_mapped[dir[q]]
                          /\ \A r \in Live \ {q} : dir[r] # dir[q]
      BY SpecialValues DEF ProcessMemory, MapsKernel
    <3>2. QED
      BY <1>1, <1>5, <1>6, <1>7, <3>1
  <2>4. \A q \in Live' : \A v \in Pages : page_table'[dir'[q]][v] # NOT_PRESENT <=> v \in PagesOf(q)'
    <3>1. ASSUME NEW q \in Live, NEW v \in Pages
          PROVE  page_table'[dir'[q]][v] # NOT_PRESENT <=> v \in PagesOf(q)'
      BY <1>1, <1>6, <2>1 DEF ProcessMemory
    <3>2. ASSUME NEW v \in Pages
          PROVE  page_table'[d][v] # NOT_PRESENT <=> v \in PagesOf(p_index)'
      BY <1>6, <1>7, <2>2
    <3>3. QED
      BY <1>1, <1>5, <3>1, <3>2
  <2>5. QED
    BY <2>3, <2>4 DEF ProcessMemory, MapsKernel
<1>14. KernelStaysMapped'
  BY <1>1, <1>2, <1>6, CallerKept DEF KernelStaysMapped, RunsOnTlb, MapsKernel
<1>15. ControlInv' /\ DestroyInv' /\ CreateInv'
  BY <1>1, <1>2 DEF ControlInv, DestroyInv, CreateInv, Creating, NoCaller
<1>16. BootInv'
  <2>1. caller = "boot" => /\ current_pid = NoPid /\ request.name = "shell"
                           /\ HomeDir = KERNEL_DIR /\ Live = {}
    BY <1>1 DEF BootInv, Halted
  <2>2. QED
    BY <1>1, <1>2, <1>5, <1>8, <2>1 DEF BootInv
<1>17. RunnerInv'
  <2>1. caller # "boot" => /\ caller = "exec" /\ current_pid \in Live /\ HomeDir = dir[current_pid]
                           /\ state[current_pid] = "Running" /\ current_pid # p_index
    BY <1>2, <1>3, CallerKept
  <2>2. caller # "boot" => /\ \A p \in Slots : state[p] = "Running" => p = current_pid
                           /\ nama[current_pid] = "shell"
    BY <1>1, <2>1 DEF RunnerInv, Halted
  <2>3. QED
    BY <1>1, <1>2, <1>5, <1>8, <1>9, <2>1, <2>2 DEF RunnerInv, CurrentGone
<1>18. \A e, v : MappedIn(e, v)' <=> MappedIn(e, v)
  BY <1>6 DEF MappedIn
<1>19. MappedByOwner'
  BY <1>1, <1>5, <1>18 DEF MappedByOwner
<1>20. FramesMapped'
  BY <1>1, <1>6, <1>18 DEF FramesMapped, Halted
<1>21. QED
  BY <1>10, <1>11, <1>12, <1>13, <1>14, <1>15, <1>16, <1>17, <1>19, <1>20

-----------------------------------------------------------------------------
(* process_destroy                                                          *)

(* Whoever called process_destroy is still there until it is done.          *)
LEMMA DestroyCaller ==
  ASSUME CoreInv, pc = "destroy"
  PROVE  /\ caller \in {"kill", "exit"} /\ pc \notin Halted
         /\ current_pid \in Live /\ state[current_pid] = "Running"
         /\ \A p \in Slots : state[p] = "Running" => p = current_pid
         /\ caller = "kill" => cr3 = dir[current_pid] /\ nama[current_pid] = "shell"
         /\ caller = "exit" => p_index = current_pid /\ nama[current_pid] = "imm0"
         /\ \E p \in Live : nama[p] = "shell"
         /\ MapsKernel(cr3)
<1> USE DEF CoreInv
<1>1. caller \in {"kill", "exit"} /\ pc \notin Halted
  BY DEF ControlInv, Halted
<1>2. MapsKernel(cr3)
  BY <1>1 DEF KernelStaysMapped, RunsOnTlb
<1>3. QED
  BY <1>1, <1>2 DEF RunnerInv, CurrentGone, HomeDir, Live

LEMMA DestroyInactiveInv ==
  ASSUME CoreInv, PagingInv', DestroyInactive
  PROVE  CoreInv'
<1> USE DEF CoreInv, DestroyInactive, Return, pagingVars, processVars
<1>1. /\ pc = "destroy" /\ pc' = "return" /\ retcode' = 1 /\ state[p_index] = "Inactive" /\ page = 0
      /\ UNCHANGED <<pagingVars, processVars, current_pid, cr3, caller, request, p_index, page, curr_dir>>
  OBVIOUS
<1>2. TypeOK'
  BY <1>1 DEF TypeOK, PagingTypeOK
<1>3. /\ Live' = Live /\ ActiveCountExact' /\ PidIsSlot'
      /\ \A d : MapsKernel(d)' <=> MapsKernel(d)
      /\ \A d, v : MappedIn(d, v)' <=> MappedIn(d, v)
  BY TablesUntouched
<1>4. ProcessMemory'
  BY <1>1, <1>3 DEF ProcessMemory, PagesOf
<1>5. KernelStaysMapped'
  BY <1>1, <1>3, DestroyCaller DEF KernelStaysMapped, RunsOnTlb
<1>6. ControlInv' /\ DestroyInv' /\ CreateInv'
  BY <1>1 DEF ControlInv, DestroyInv, CreateInv, Creating, NoCaller
<1>7. BootInv'
  BY <1>1, DestroyCaller DEF BootInv
<1>8. RunnerInv'
  BY <1>1, <1>3, DestroyCaller DEF RunnerInv, CurrentGone, HomeDir, Live
<1>9. MappedByOwner' /\ FramesMapped'
  BY <1>1, <1>3 DEF MappedByOwner, FramesMapped, Creating, Halted
<1>10. QED
  BY <1>2, <1>3, <1>4, <1>5, <1>6, <1>7, <1>8, <1>9

LEMMA DestroyFreeFrameInv ==
  ASSUME CoreInv, PagingInv', DestroyFreeFrame
  PROVE  CoreInv'
<1> USE DEF CoreInv
<1> DEFINE d == dir[p_index]
<1>1. /\ pc = "destroy" /\ page < page_frame_used_count[p_index] /\ page' = page + 1
      /\ UNCHANGED <<current_pid, processVars, cr3, pc, caller, request, p_index, curr_dir, retcode>>
      /\ paging_free_user_page_frame(d, page)
  BY DEF DestroyFreeFrame
<1>2. p_index \in Live /\ Live' = Live
  BY <1>1 DEF DestroyFreeFrame, Live, TypeOK, processVars
<1>3. page \in Pages /\ d \in Dirs /\ page_directory_used[d]
  BY <1>1, <1>2, PagingAssumption DEF TypeOK, Pages, Live, ProcessMemory
<1>4. page_table[d][page] # NOT_PRESENT
  BY <1>1, <1>2, <1>3 DEF ProcessMemory, PagesOf, TypeOK, Live
<1>5. /\ UNCHANGED <<page_directory_used, kernel_mapped>>
      /\ \A e \in Dirs, w \in Pages :
           page_table'[e][w] = IF e = d /\ w = page THEN NOT_PRESENT ELSE page_table[e][w]
      /\ \A e \in Dirs, w \in Pages : MappedIn(e, w)' => MappedIn(e, w)
  BY <1>1, <1>3, <1>4, FreedPage
<1>6. \A q \in Live : dir[q] \in Dirs /\ (q # p_index => dir[q] # d)
  BY <1>2 DEF ProcessMemory
<1>7. UNCHANGED <<state, pid, nama, dir, page_frame_used_count, active_process_count>>
  BY <1>1 DEF processVars
<1>8. TypeOK'
  BY <1>1, <1>3, <1>7, PagingAssumption DEF TypeOK, PagingInv, Pages
<1>9. ActiveCountExact' /\ PidIsSlot'
  BY <1>2, <1>7 DEF ActiveCountExact, PidIsSlot
<1>10. ProcessMemory'
  <2>1. \A q \in Live, v \in Pages : page_table'[dir[q]][v] # NOT_PRESENT <=> v \in PagesOf(q)'
    <3> SUFFICES ASSUME NEW q \in Live, NEW v \in Pages
                 PROVE  page_table'[dir[q]][v] # NOT_PRESENT <=> v \in PagesOf(q)'
      OBVIOUS
    <3>1. CASE q # p_index
      BY <1>1, <1>5, <1>6, <1>7, <3>1 DEF ProcessMemory, PagesOf
    <3>2. CASE q = p_index
      <4>1. PagesOf(q) = page .. page_frame_used_count[p_index] - 1
        BY <1>1, <3>2 DEF PagesOf
      <4>2. PagesOf(q)' = page + 1 .. page_frame_used_count[p_index] - 1
        BY <1>1, <1>7, <3>2 DEF PagesOf
      <4>3. v \in PagesOf(q)' <=> v \in PagesOf(q) /\ v # page
        BY <1>2, <1>3, <4>1, <4>2 DEF Pages, TypeOK, Live
      <4>4. page_table[d][v] # NOT_PRESENT <=> v \in PagesOf(q)
        BY <3>2 DEF ProcessMemory
      <4>5. QED
        BY <1>3, <1>5, <3>2, <4>3, <4>4
    <3>3. QED
      BY <3>1, <3>2
  <2>2. QED
    BY <1>2, <1>5, <1>7, <2>1 DEF ProcessMemory, MapsKernel
<1>11. KernelStaysMapped'
  BY <1>1, <1>5, <1>7 DEF KernelStaysMapped, RunsOnTlb, MapsKernel
<1>12. ControlInv' /\ CreateInv'
  BY <1>1 DEF ControlInv, CreateInv, Creating
<1>13. DestroyInv'
  BY <1>1, <1>2, <1>7 DEF DestroyInv, Live, TypeOK
<1>14. BootInv'
  BY <1>1, DestroyCaller DEF BootInv
<1>15. RunnerInv'
  BY <1>1, <1>2, <1>7, DestroyCaller DEF RunnerInv, CurrentGone, HomeDir, Live
<1>16. MappedByOwner'
  BY <1>1, <1>2, <1>5, <1>7 DEF MappedByOwner, Creating
<1>17. FramesMapped'
  BY <1>1, <1>3, <1>4, FreedPageMapped DEF Halted
<1>18. QED
  BY <1>8, <1>9, <1>10, <1>11, <1>12, <1>13, <1>14, <1>15, <1>16, <1>17

LEMMA DestroyFreeDirectoryInv ==
  ASSUME CoreInv, PagingInv', DestroyFreeDirectory
  PROVE  CoreInv'
<1> USE DEF CoreInv
<1> DEFINE d == dir[p_index]
<1>1. p_index \in Live /\ p_index \in Slots
  BY DEF DestroyFreeDirectory, Live, TypeOK
<1>2. d \in Dirs /\ page_directory_used[d] /\ \A q \in Live \ {p_index} : dir[q] # d
  BY <1>1 DEF ProcessMemory
<1>3. /\ pc = "destroy" /\ pc' = "return" /\ retcode' = 0 /\ page = page_frame_used_count[p_index]
      /\ page_directory_used' = [page_directory_used EXCEPT ![d] = FALSE]
      /\ page_table' = [page_table EXCEPT ![d] = NoPages]
      /\ kernel_mapped' = [kernel_mapped EXCEPT ![d] = FALSE]
      /\ UNCHANGED <<page_frame_map, free_page_frame_count>>
      /\ state' = [state EXCEPT ![p_index] = "Inactive"]
      /\ active_process_count' = active_process_count - 1
      /\ UNCHANGED <<current_pid, pid, nama, dir, page_frame_used_count, cr3, caller, request,
                     p_index, page, curr_dir>>
  BY <1>2 DEF DestroyFreeDirectory, Return, paging_free_page_directory
<1>4. Live' = Live \ {p_index}
  BY <1>1, <1>3 DEF Live, TypeOK
<1>5. \A e \in Dirs : e # d => /\ page_directory_used'[e] = page_directory_used[e]
                               /\ page_table'[e] = page_table[e]
                               /\ kernel_mapped'[e] = kernel_mapped[e]
  BY <1>3 DEF PagingInv, PagingTypeOK
<1>6. ~page_directory_used'[d] /\ \A v \in Pages : page_table'[d][v] = NOT_PRESENT
  BY <1>2, <1>3 DEF PagingInv, PagingTypeOK, NoPages
<1>7. \A v \in Pages : page_table[d][v] = NOT_PRESENT
  <2>1. PagesOf(p_index) = {}
    BY <1>1, <1>3 DEF PagesOf, TypeOK
  <2>2. QED
    BY <1>1, <2>1 DEF ProcessMemory
<1>8. ActiveCountExact'
  <2>1. Cardinality(Live \ {p_index}) = Cardinality(Live) - 1
    BY <1>1, LiveFinite, FS_RemoveElement
  <2>2. QED
    BY <1>3, <1>4, <2>1 DEF ActiveCountExact
<1>9. TypeOK'
  <2>1. Live' \subseteq Live /\ IsFiniteSet(Live)
    BY <1>4, LiveFinite
  <2>2. Cardinality(Live') \in Nat
    BY <2>1, FS_Subset, FS_CardinalityType
  <2>3. active_process_count' \in 0 .. PROCESS_COUNT_MAX
    BY <1>3, <1>8, <2>2, ProcessCountAssumption DEF ActiveCountExact, TypeOK
  <2>4. QED
    BY <1>1, <1>3, <2>3 DEF TypeOK, PagingInv, States
<1>10. PidIsSlot'
  BY <1>3, <1>4 DEF PidIsSlot
<1>11. ProcessMemory'
  <2>1. \A q \in Live' : dir[q] \in Dirs /\ dir[q] # d /\ PagesOf(q)' = PagesOf(q)
    BY <1>2, <1>3, <1>4 DEF ProcessMemory, PagesOf
  <2>2. QED
    BY <1>3, <1>4, <1>5, <2>1 DEF ProcessMemory, MapsKernel
<1>12. KernelStaysMapped'
  <2>1. CASE p_index = current_pid
    BY <1>1, <1>3, <2>1 DEF KernelStaysMapped, TypeOK
  <2>2. CASE p_index # current_pid
    <3>1. cr3 = dir[current_pid] /\ current_pid \in Live /\ MapsKernel(cr3)
      BY <1>3, <2>2, DestroyCaller
    <3>2. cr3 \in Dirs /\ cr3 # d
      BY <1>2, <2>2, <3>1 DEF ProcessMemory
    <3>3. MapsKernel(cr3)'
      BY <1>3, <1>5, <3>1, <3>2, SpecialValues DEF MapsKernel
    <3>4. QED
      BY <3>3 DEF KernelStaysMapped, RunsOnTlb
  <2>3. QED
    BY <2>1, <2>2
<1>13. ControlInv' /\ CreateInv' /\ DestroyInv'
  BY <1>3, DestroyCaller DEF ControlInv, CreateInv, DestroyInv, Creating, NoCaller
<1>14. BootInv'
  BY <1>3, DestroyCaller DEF BootInv
<1>15. RunnerInv'
  <2>1. /\ state'[p_index] = "Inactive"
        /\ \A q \in Slots : q # p_index => state'[q] = state[q]
    BY <1>1, <1>3 DEF TypeOK
  <2>2. CurrentGone' <=> p_index = current_pid
    BY <1>1, <1>3, <2>1, DestroyCaller DEF CurrentGone, Live
  <2>3. caller = "kill" /\ p_index = current_pid => ~MapsUser(cr3)'
    <3>1. 0 \in Pages
      BY PagingAssumption DEF Pages
    <3>2. QED
      BY <1>3, <1>6, <3>1, DestroyCaller DEF MapsUser
  <2>4. ~(caller = "kill" /\ p_index = current_pid) => \E p \in Live' : nama[p] = "shell"
    <3>1. CASE p_index # current_pid
      BY <1>3, <1>4, <3>1, DestroyCaller
    <3>2. CASE caller = "exit"
      <4>1. nama[p_index] = "imm0"
        BY <1>3, <3>2, DestroyCaller
      <4>2. PICK p \in Live : nama[p] = "shell"
        BY <1>3, DestroyCaller
      <4>3. p # p_index
        BY <4>1, <4>2
      <4>4. QED
        BY <1>4, <4>2, <4>3
    <3>3. QED
      BY <1>3, <3>1, <3>2, DestroyCaller
  <2>5. QED
    BY <1>3, <2>1, <2>2, <2>3, <2>4, DestroyCaller DEF RunnerInv, HomeDir, Live
<1>16. MappedByOwner'
  <2>1. \A e \in Dirs, v \in Pages : MappedIn(e, v)' => MappedIn(e, v) /\ e # d
    BY <1>5, <1>6 DEF MappedIn
  <2>2. ~Creating
    BY <1>3 DEF Creating
  <2>3. QED
    BY <1>3, <1>4, <2>1, <2>2 DEF MappedByOwner
<1>17. FramesMapped'
  <2>1. \A e \in Dirs, v \in Pages :
          MappedIn(e, v) => MappedIn(e, v)' /\ page_table'[e][v] = page_table[e][v]
    BY <1>5, <1>7 DEF MappedIn
  <2>2. QED
    BY <1>3, <2>1 DEF FramesMapped, Halted
<1>18. QED
  BY <1>8, <1>9, <1>10, <1>11, <1>12, <1>13, <1>14, <1>15, <1>16, <1>17

-----------------------------------------------------------------------------
(* System calls and what follows them                                       *)

(* In user mode the current process is live, alone in being Running, in its *)
(* own directory, and there is a shell.                                     *)
LEMMA UserMode ==
  ASSUME CoreInv, pc = "user"
  PROVE  /\ caller = NoCaller /\ pc \notin Halted
         /\ current_pid \in Live /\ state[current_pid] = "Running"
         /\ \A p \in Slots : state[p] = "Running" => p = current_pid
         /\ cr3 = dir[current_pid]
         /\ \E p \in Live : nama[p] = "shell"
         /\ MapsKernel(cr3)
<1> USE DEF CoreInv
<1>1. caller = NoCaller /\ pc \notin Halted
  BY DEF ControlInv, Halted
<1>2. MapsKernel(cr3)
  BY <1>1 DEF KernelStaysMapped, RunsOnTlb
<1>3. QED
  BY <1>1, <1>2 DEF RunnerInv, CurrentGone, HomeDir, Live, NoCaller

(* The locals are back to what they are when no call is in progress.        *)
LEMMA ForgottenLocals ==
  ASSUME ForgetLocals
  PROVE  /\ caller' = NoCaller
         /\ request' \in [name : Programs \cup {NoName}, buffer_size : BufferSizes, buf : Entrypoints]
         /\ p_index' \in Slots /\ page' \in 0 .. PROCESS_PAGE_FRAME_COUNT_MAX
         /\ curr_dir' \in Dirs \cup {NULL, KERNEL_DIR} /\ retcode' \in {NoRetcode, 0, 1, 2, 3, 4}
<1>1. BootSize \in BufferSizes /\ BootEntry \in Entrypoints
  BY KernelAssumption DEF BootSize
<1>2. QED
  BY <1>1, ProcessCountAssumption, PagingAssumption
  DEF ForgetLocals, NoRequest, Request, Slots

LEMMA SyscallCreateInv ==
  ASSUME CoreInv, PagingInv', SyscallProcessCreate
  PROVE  CoreInv'
<1> USE DEF CoreInv, SyscallProcessCreate, InUser, pagingVars, processVars
<1>1. /\ pc = "user" /\ nama[current_pid] = "shell" /\ caller' = "exec" /\ pc' = "create"
      /\ request' \in [name : Programs \cup {NoName}, buffer_size : BufferSizes, buf : Entrypoints]
      /\ UNCHANGED <<pagingVars, processVars, current_pid, cr3, p_index, page, curr_dir, retcode>>
  BY DEF Request
<1>2. TypeOK'
  BY <1>1 DEF TypeOK, PagingTypeOK
<1>3. /\ Live' = Live /\ ActiveCountExact' /\ PidIsSlot'
      /\ \A d : MapsKernel(d)' <=> MapsKernel(d)
      /\ \A d, v : MappedIn(d, v)' <=> MappedIn(d, v)
  BY TablesUntouched
<1>4. ProcessMemory'
  BY <1>1, <1>3 DEF ProcessMemory, PagesOf
<1>5. KernelStaysMapped'
  BY <1>1, <1>3, UserMode DEF KernelStaysMapped, RunsOnTlb
<1>6. ControlInv' /\ DestroyInv' /\ CreateInv' /\ BootInv'
  BY <1>1 DEF ControlInv, DestroyInv, CreateInv, BootInv, Creating, NoCaller
<1>7. RunnerInv'
  BY <1>1, <1>3, UserMode DEF RunnerInv, CurrentGone, HomeDir, Live
<1>8. MappedByOwner' /\ FramesMapped'
  BY <1>1, <1>3 DEF MappedByOwner, FramesMapped, Creating, Halted
<1>9. QED
  BY <1>2, <1>3, <1>4, <1>5, <1>6, <1>7, <1>8

LEMMA SyscallKillInv ==
  ASSUME CoreInv, PagingInv', NEW text \in KillTexts, SyscallKill(text)
  PROVE  CoreInv'
<1> USE DEF CoreInv, SyscallKill, InUser, pagingVars, processVars
<1>1. /\ pc = "user" /\ nama[current_pid] = "shell" /\ caller' = "kill" /\ pc' = "destroy" /\ page' = 0
      /\ p_index' \in Slots
      /\ UNCHANGED <<pagingVars, processVars, current_pid, cr3, request, curr_dir, retcode>>
  OBVIOUS
<1>2. TypeOK'
  BY <1>1, PagingAssumption DEF TypeOK, PagingTypeOK
<1>3. /\ Live' = Live /\ ActiveCountExact' /\ PidIsSlot'
      /\ \A d : MapsKernel(d)' <=> MapsKernel(d)
      /\ \A d, v : MappedIn(d, v)' <=> MappedIn(d, v)
  BY TablesUntouched
<1>4. ProcessMemory'
  <2>1. \A p : PagesOf(p)' = PagesOf(p)
    BY <1>1 DEF PagesOf
  <2>2. QED
    BY <1>1, <1>3, <2>1 DEF ProcessMemory
<1>5. KernelStaysMapped'
  BY <1>1, <1>3, UserMode DEF KernelStaysMapped, RunsOnTlb
<1>6. ControlInv' /\ DestroyInv' /\ CreateInv' /\ BootInv'
  BY <1>1 DEF ControlInv, DestroyInv, CreateInv, BootInv, Creating, NoCaller
<1>7. RunnerInv'
  BY <1>1, <1>3, UserMode DEF RunnerInv, CurrentGone, HomeDir, Live
<1>8. MappedByOwner' /\ FramesMapped'
  BY <1>1, <1>3 DEF MappedByOwner, FramesMapped, Creating, Halted
<1>9. QED
  BY <1>2, <1>3, <1>4, <1>5, <1>6, <1>7, <1>8

LEMMA SyscallKillOutsideInv ==
  ASSUME CoreInv, PagingInv', NEW text \in KillTexts, SyscallKillOutside(text)
  PROVE  CoreInv'
<1> USE DEF CoreInv, SyscallKillOutside, Return, InUser, pagingVars, processVars
<1>1. /\ pc = "user" /\ nama[current_pid] = "shell"
      /\ \/ caller' = "kill" /\ pc' = "return" /\ retcode' = 1
         \/ pc' = "wild" /\ UNCHANGED <<caller, retcode>>
      /\ UNCHANGED <<pagingVars, processVars, current_pid, cr3, request, p_index, page, curr_dir>>
  OBVIOUS
<1>2. TypeOK'
  BY <1>1 DEF TypeOK, PagingTypeOK, Halted
<1>3. /\ Live' = Live /\ ActiveCountExact' /\ PidIsSlot'
      /\ \A d : MapsKernel(d)' <=> MapsKernel(d)
      /\ \A d, v : MappedIn(d, v)' <=> MappedIn(d, v)
  BY TablesUntouched
<1>4. ProcessMemory'
  BY <1>1, <1>3 DEF ProcessMemory, PagesOf
<1>5. KernelStaysMapped'
  BY <1>1, <1>3, UserMode DEF KernelStaysMapped, RunsOnTlb
<1>6. ControlInv' /\ DestroyInv' /\ CreateInv' /\ BootInv'
  BY <1>1 DEF ControlInv, DestroyInv, CreateInv, BootInv, Creating, NoCaller, Halted
<1>7. RunnerInv'
  BY <1>1, <1>3, UserMode DEF RunnerInv, CurrentGone, HomeDir, Live, Halted
<1>8. MappedByOwner' /\ FramesMapped'
  BY <1>1, <1>3 DEF MappedByOwner, FramesMapped, Creating, Halted
<1>9. QED
  BY <1>2, <1>3, <1>4, <1>5, <1>6, <1>7, <1>8

LEMMA SyscallExitInv ==
  ASSUME CoreInv, PagingInv', SyscallExit
  PROVE  CoreInv'
<1> USE DEF CoreInv, SyscallExit, InUser, pagingVars, processVars
<1>1. /\ pc = "user" /\ nama[current_pid] = "imm0" /\ caller' = "exit" /\ page' = 0
      /\ cr3' = dir[0] /\ p_index' = pid[current_pid]
      /\ pc' = IF MapsKernel(dir[0]) THEN "destroy" ELSE "fault"
      /\ UNCHANGED <<pagingVars, processVars, current_pid, request, curr_dir, retcode>>
  OBVIOUS
<1>2. p_index' = current_pid /\ current_pid \in Slots
  BY <1>1, UserMode DEF PidIsSlot, Live
<1>3. TypeOK'
  <2>1. dir[0] \in Dirs \cup {NULL}
    BY ProcessCountAssumption DEF TypeOK, Slots
  <2>2. 0 \in 0 .. PROCESS_PAGE_FRAME_COUNT_MAX
    BY PagingAssumption
  <2>3. QED
    BY <1>1, <1>2, <2>1, <2>2 DEF TypeOK, PagingTypeOK, Halted
<1>4. /\ Live' = Live /\ ActiveCountExact' /\ PidIsSlot'
      /\ \A d : MapsKernel(d)' <=> MapsKernel(d)
      /\ \A d, v : MappedIn(d, v)' <=> MappedIn(d, v)
  BY TablesUntouched
<1>5. ProcessMemory'
  <2>1. \A p : PagesOf(p)' = PagesOf(p)
    BY <1>1 DEF PagesOf
  <2>2. QED
    BY <1>1, <1>4, <2>1 DEF ProcessMemory
<1>6. KernelStaysMapped'
  BY <1>1, <1>4 DEF KernelStaysMapped, RunsOnTlb, Halted
<1>7. ControlInv' /\ DestroyInv' /\ CreateInv' /\ BootInv'
  BY <1>1 DEF ControlInv, DestroyInv, CreateInv, BootInv, Creating, NoCaller
<1>8. RunnerInv'
  BY <1>1, <1>2, <1>4, UserMode DEF RunnerInv, CurrentGone, Live, Halted
<1>9. MappedByOwner' /\ FramesMapped'
  BY <1>1, <1>4 DEF MappedByOwner, FramesMapped, Creating, Halted
<1>10. QED
  BY <1>3, <1>4, <1>5, <1>6, <1>7, <1>8, <1>9

LEMMA TlbMissInv ==
  ASSUME CoreInv, PagingInv', TlbMiss
  PROVE  CoreInv'
<1> USE DEF CoreInv, TlbMiss, pagingVars, processVars, localVars
<1>1. /\ pc = "return" /\ pc' = "fault"
      /\ UNCHANGED <<pagingVars, processVars, current_pid, cr3, localVars>>
  OBVIOUS
<1>2. TypeOK'
  BY <1>1 DEF TypeOK, PagingTypeOK, Halted
<1>3. /\ Live' = Live /\ ActiveCountExact' /\ PidIsSlot'
      /\ \A d : MapsKernel(d)' <=> MapsKernel(d)
      /\ \A d, v : MappedIn(d, v)' <=> MappedIn(d, v)
  BY TablesUntouched
<1>4. ProcessMemory'
  BY <1>1, <1>3 DEF ProcessMemory, PagesOf
<1>5. /\ KernelStaysMapped' /\ ControlInv' /\ BootInv' /\ RunnerInv' /\ CreateInv' /\ DestroyInv'
      /\ FramesMapped'
  BY <1>1 DEF KernelStaysMapped, ControlInv, BootInv, RunnerInv, CreateInv, DestroyInv, FramesMapped,
    Creating, Halted
<1>6. MappedByOwner'
  BY <1>1, <1>3 DEF MappedByOwner, Creating
<1>7. QED
  BY <1>2, <1>3, <1>4, <1>5, <1>6

LEMMA StoreReturnInv ==
  ASSUME CoreInv, PagingInv', StoreReturn
  PROVE  CoreInv'
<1> USE DEF CoreInv, StoreReturn, pagingVars, processVars
<1>1. /\ pc = "return" /\ caller \in {"exec", "kill"}
      /\ UNCHANGED <<pagingVars, processVars, current_pid, cr3>>
      /\ \/ MapsUser(cr3) /\ pc' = "user" /\ ForgetLocals
         \/ pc' = "hang" /\ UNCHANGED localVars
  OBVIOUS
<1>2. TypeOK'
  <2>1. CASE ForgetLocals
    BY <1>1, <2>1, ForgottenLocals DEF TypeOK, PagingTypeOK, Halted
  <2>2. CASE UNCHANGED localVars
    BY <1>1, <2>2 DEF TypeOK, PagingTypeOK, Halted, localVars
  <2>3. QED
    BY <1>1, <2>1, <2>2
<1>3. /\ Live' = Live /\ ActiveCountExact' /\ PidIsSlot'
      /\ \A d : MapsKernel(d)' <=> MapsKernel(d)
      /\ \A d, v : MappedIn(d, v)' <=> MappedIn(d, v)
  BY TablesUntouched
<1>4. ProcessMemory'
  BY <1>1, <1>3 DEF ProcessMemory, PagesOf
<1>5. CreateInv' /\ DestroyInv'
  BY <1>1 DEF CreateInv, DestroyInv, Creating
<1>6. MappedByOwner' /\ FramesMapped'
  BY <1>1, <1>3 DEF MappedByOwner, FramesMapped, Creating, Halted
<1>7. CASE MapsUser(cr3) /\ pc' = "user" /\ ForgetLocals
  <2>1. caller' = NoCaller
    BY <1>7 DEF ForgetLocals
  <2>2. ~CurrentGone /\ current_pid \in Slots /\ MapsKernel(cr3)
    BY <1>1, <1>7 DEF RunnerInv, KernelStaysMapped, RunsOnTlb, CurrentGone, Halted
  <2>3. KernelStaysMapped' /\ ControlInv' /\ BootInv'
    BY <1>1, <1>3, <1>7, <2>1, <2>2
    DEF KernelStaysMapped, RunsOnTlb, ControlInv, BootInv, Creating, NoCaller
  <2>4. RunnerInv'
    BY <1>1, <1>3, <1>7, <2>1, <2>2 DEF RunnerInv, CurrentGone, HomeDir, NoCaller, Halted
  <2>5. QED
    BY <1>2, <1>3, <1>4, <1>5, <1>6, <2>3, <2>4
<1>8. CASE pc' = "hang" /\ UNCHANGED localVars
  <2>1. KernelStaysMapped' /\ ControlInv' /\ BootInv' /\ RunnerInv'
    BY <1>1, <1>8 DEF KernelStaysMapped, ControlInv, BootInv, RunnerInv, Creating, Halted, localVars
  <2>2. QED
    BY <1>2, <1>3, <1>4, <1>5, <1>6, <2>1
<1>9. QED
  BY <1>1, <1>7, <1>8

-----------------------------------------------------------------------------
(* The context switch                                                       *)

(* Switching to a Ready process from a table in which nobody is Running and *)
(* the same processes live as before keeps the invariant.                   *)
LEMMA SwitchInv ==
  ASSUME CoreInv, PagingInv', UNCHANGED pagingVars,
         UNCHANGED <<pid, nama, dir, page_frame_used_count, active_process_count>>,
         pc \in {"return", "user"}, caller' = NoCaller,
         request' \in [name : Programs \cup {NoName}, buffer_size : BufferSizes, buf : Entrypoints],
         p_index' \in Slots, page' \in 0 .. PROCESS_PAGE_FRAME_COUNT_MAX,
         curr_dir' \in Dirs \cup {NULL, KERNEL_DIR}, retcode' \in {NoRetcode, 0, 1, 2, 3, 4},
         NEW st, st \in [Slots -> States],
         \A p \in Slots : st[p] # "Running" /\ (st[p] = "Inactive" <=> state[p] = "Inactive"),
         \/ pc' = "hang" /\ state' = st /\ UNCHANGED <<current_pid, cr3>>
         \/ /\ \E p \in Live : nama[p] = "shell"
            /\ \E p \in Slots : /\ st[p] = "Ready"
                                /\ state' = [st EXCEPT ![p] = "Running"]
                                /\ current_pid' = p /\ cr3' = dir[p]
                                /\ pc' = IF MapsKernel(dir[p]) THEN "user" ELSE "fault"
  PROVE  CoreInv'
<1> USE DEF CoreInv
<1>1. UNCHANGED <<page_frame_map, free_page_frame_count, page_directory_used, page_table, kernel_mapped>>
  BY DEF pagingVars
<1>2. /\ \A d : MapsKernel(d)' <=> MapsKernel(d)
      /\ \A d, v : MappedIn(d, v)' <=> MappedIn(d, v)
  BY <1>1 DEF MapsKernel, MappedIn
<1>3. state' \in [Slots -> States] /\ Live' = Live
  BY DEF Live, States
<1>4. pc' \in {"user"} \cup Halted /\ ~Creating /\ ~Creating'
  BY DEF Halted, Creating
<1>5. TypeOK'
  BY <1>3, <1>4 DEF TypeOK, PagingInv
<1>6. ActiveCountExact' /\ PidIsSlot'
  BY <1>3 DEF ActiveCountExact, PidIsSlot
<1>7. ProcessMemory'
  <2>1. \A p : PagesOf(p)' = PagesOf(p)
    BY <1>4 DEF PagesOf, Halted
  <2>2. QED
    BY <1>1, <1>2, <1>3, <2>1 DEF ProcessMemory
<1>8. ControlInv' /\ BootInv' /\ CreateInv' /\ DestroyInv'
  BY <1>4 DEF ControlInv, BootInv, CreateInv, DestroyInv, Creating, NoCaller, Halted
<1>9. MappedByOwner'
  BY <1>2, <1>3, <1>4 DEF MappedByOwner
<1>10. FramesMapped'
  BY <1>1, <1>2, <1>4 DEF FramesMapped, Halted
<1>11. KernelStaysMapped' /\ RunnerInv'
  <2>1. CASE pc' \in Halted
    BY <2>1 DEF KernelStaysMapped, RunnerInv
  <2>2. CASE pc' \notin Halted
    <3>1. PICK p \in Slots : /\ st[p] = "Ready"
                             /\ state' = [st EXCEPT ![p] = "Running"]
                             /\ current_pid' = p /\ cr3' = dir[p]
                             /\ pc' = IF MapsKernel(dir[p]) THEN "user" ELSE "fault"
      BY <2>2 DEF Halted
    <3>2. pc' = "user" /\ MapsKernel(dir[p])
      BY <2>2, <3>1 DEF Halted
    <3>3. KernelStaysMapped'
      BY <1>2, <3>1, <3>2 DEF KernelStaysMapped, RunsOnTlb
    <3>4. state'[p] = "Running" /\ \A q \in Slots : q # p => state'[q] # "Running"
      BY <3>1
    <3>5. \E q \in Live : nama[q] = "shell"
      BY <2>2 DEF Halted
    <3>6. RunnerInv'
      BY <1>3, <3>1, <3>2, <3>4, <3>5 DEF RunnerInv, CurrentGone, HomeDir, NoCaller
    <3>7. QED
      BY <3>3, <3>6
  <2>3. QED
    BY <2>1, <2>2
<1>12. QED
  BY <1>5, <1>6, <1>7, <1>8, <1>9, <1>10, <1>11

(* The scan stops at a Ready slot when there is one.                        *)
LEMMA TargetsReady ==
  ASSUME NEW st, NEW cur, NEW p \in SwitchTargets(st, cur), ReadySlots(st) # {} \/ cur = NoPid
  PROVE  p \in Slots /\ st[p] = "Ready"
BY DEF SwitchTargets, ReadySlots, NoPid

LEMMA TimerInterruptInv ==
  ASSUME CoreInv, PagingInv', TimerInterrupt
  PROVE  CoreInv'
<1> USE DEF CoreInv
<1> DEFINE st == [state EXCEPT ![current_pid] = "Ready"]
<1>1. /\ pc = "user" /\ current_pid \in Slots /\ state[current_pid] = "Running"
      /\ cr3 = dir[current_pid] /\ caller = NoCaller
      /\ \A p \in Slots : state[p] = "Running" => p = current_pid
      /\ \E p \in Live : nama[p] = "shell"
  BY UserMode DEF TimerInterrupt, Live
<1>2. dir' = dir
  BY <1>1 DEF TimerInterrupt, TypeOK
<1>3. /\ st \in [Slots -> States]
      /\ \A p \in Slots : st[p] # "Running" /\ (st[p] = "Inactive" <=> state[p] = "Inactive")
      /\ ReadySlots(st) # {}
  BY <1>1 DEF TypeOK, States, ReadySlots
<1>4. /\ UNCHANGED <<pagingVars, pid, nama, page_frame_used_count, active_process_count>>
      /\ UNCHANGED <<caller, request, p_index, page, curr_dir, retcode>>
  BY DEF TimerInterrupt, localVars
<1>5. \/ pc' = "hang" /\ state' = st /\ UNCHANGED <<current_pid, cr3>>
      \/ \E p \in SwitchTargets(st, current_pid) :
           /\ state' = [st EXCEPT ![p] = "Running"]
           /\ current_pid' = p /\ cr3' = dir[p]
           /\ pc' = IF MapsKernel(dir[p]) THEN "user" ELSE "fault"
  BY <1>2 DEF TimerInterrupt, ContextSwitch
<1>6. \/ pc' = "hang" /\ state' = st /\ UNCHANGED <<current_pid, cr3>>
      \/ \E p \in Slots : /\ st[p] = "Ready"
                          /\ state' = [st EXCEPT ![p] = "Running"]
                          /\ current_pid' = p /\ cr3' = dir[p]
                          /\ pc' = IF MapsKernel(dir[p]) THEN "user" ELSE "fault"
  BY <1>3, <1>5, TargetsReady
<1> HIDE DEF st
<1>7. /\ request \in [name : Programs \cup {NoName}, buffer_size : BufferSizes, buf : Entrypoints]
      /\ p_index \in Slots /\ page \in 0 .. PROCESS_PAGE_FRAME_COUNT_MAX
      /\ curr_dir \in Dirs \cup {NULL, KERNEL_DIR} /\ retcode \in {NoRetcode, 0, 1, 2, 3, 4}
  BY DEF TypeOK
<1>8. QED
  BY <1>1, <1>2, <1>3, <1>4, <1>6, <1>7, SwitchInv

LEMMA BootReturnInv ==
  ASSUME CoreInv, PagingInv', BootReturn
  PROVE  CoreInv'
<1> USE DEF CoreInv
<1>1. /\ pc = "return" /\ caller = "boot" /\ ForgetLocals
      /\ UNCHANGED <<pagingVars, pid, nama, dir, page_frame_used_count, active_process_count>>
  BY DEF BootReturn
<1>2. current_pid = NoPid /\ \A p \in Live : state[p] = "Ready" /\ nama[p] = "shell"
  BY <1>1 DEF BootInv, Halted
<1>3. /\ state \in [Slots -> States]
      /\ \A p \in Slots : state[p] # "Running" /\ (state[p] = "Inactive" <=> state[p] = "Inactive")
  BY <1>2 DEF TypeOK, Live
<1>4. \/ pc' = "hang" /\ state' = state /\ UNCHANGED <<current_pid, cr3>>
      \/ \E p \in Slots : /\ state[p] = "Ready"
                          /\ state' = [state EXCEPT ![p] = "Running"]
                          /\ current_pid' = p /\ cr3' = dir[p]
                          /\ pc' = IF MapsKernel(dir[p]) THEN "user" ELSE "fault"
  BY <1>2, TargetsReady DEF BootReturn, ContextSwitch
<1>5. \A p \in Slots : state[p] = "Ready" => p \in Live /\ nama[p] = "shell"
  BY <1>2 DEF Live
<1>6. QED
  BY <1>1, <1>3, <1>4, <1>5, ForgottenLocals, SwitchInv

LEMMA ExitReturnInv ==
  ASSUME CoreInv, PagingInv', ExitReturn
  PROVE  CoreInv'
<1> USE DEF CoreInv
<1>1. /\ pc = "return" /\ caller = "exit" /\ ForgetLocals
      /\ UNCHANGED <<pagingVars, pid, nama, dir, page_frame_used_count, active_process_count>>
  BY DEF ExitReturn
<1>2. /\ current_pid \in Slots /\ state[current_pid] = "Inactive"
      /\ \A p \in Slots : state[p] = "Running" => p = current_pid
      /\ \E p \in Live : nama[p] = "shell"
  BY <1>1 DEF RunnerInv, CurrentGone, Halted
<1>3. /\ state \in [Slots -> States]
      /\ \A p \in Slots : state[p] # "Running" /\ (state[p] = "Inactive" <=> state[p] = "Inactive")
  BY <1>2 DEF TypeOK
<1>4. ReadySlots(state) # {}
  BY <1>2, <1>3 DEF ReadySlots, Live, States
<1>5. \/ pc' = "hang" /\ state' = state /\ UNCHANGED <<current_pid, cr3>>
      \/ \E p \in Slots : /\ state[p] = "Ready"
                          /\ state' = [state EXCEPT ![p] = "Running"]
                          /\ current_pid' = p /\ cr3' = dir[p]
                          /\ pc' = IF MapsKernel(dir[p]) THEN "user" ELSE "fault"
  BY <1>4, TargetsReady DEF ExitReturn, ContextSwitch
<1>6. QED
  BY <1>1, <1>2, <1>3, <1>5, ForgottenLocals, SwitchInv

-----------------------------------------------------------------------------
(* The invariant                                                            *)

LEMMA CoreInitInv == Init => CoreInv
<1> SUFFICES ASSUME Init PROVE CoreInv
  OBVIOUS
<1>1. PagingInv
  BY PagingInitInv DEF Init
<1>2. Live = {} /\ \A p \in Slots : state[p] = "Inactive"
  BY DEF Init, Live
<1>3. TypeOK
  <2>1. BootSize \in BufferSizes /\ BootEntry \in Entrypoints
    BY KernelAssumption DEF BootSize
  <2>2. request \in [name : Programs \cup {NoName}, buffer_size : BufferSizes, buf : Entrypoints]
    BY <2>1 DEF Init, Request, Programs
  <2>3. 0 \in Slots /\ 0 \in 0 .. PROCESS_PAGE_FRAME_COUNT_MAX /\ 0 \in 0 .. PROCESS_COUNT_MAX
    BY ProcessCountAssumption, PagingAssumption DEF Slots
  <2>4. QED
    BY <1>1, <2>2, <2>3 DEF Init, TypeOK, PagingInv, States
<1>4. ActiveCountExact /\ PidIsSlot /\ ProcessMemory
  BY <1>2, FS_EmptySet DEF Init, ActiveCountExact, PidIsSlot, ProcessMemory
<1>5. KernelStaysMapped
  BY DEF Init, KernelStaysMapped, RunsOnTlb, MapsKernel
<1>6. ControlInv /\ BootInv /\ RunnerInv /\ CreateInv /\ DestroyInv
  BY <1>2 DEF Init, ControlInv, BootInv, RunnerInv, CreateInv, DestroyInv, Creating, NoCaller, HomeDir, Request
<1>7. \A d \in Dirs, v \in Pages : ~MappedIn(d, v)
  BY DEF Init, PagingInit, MappedIn
<1>8. \A f \in Frames : page_frame_map[f] => f = 0
  BY Zenon DEF Init, PagingInit
<1>9. MappedByOwner /\ FramesMapped
  BY <1>7, <1>8 DEF MappedByOwner, FramesMapped
<1>10. QED
  BY <1>1, <1>3, <1>4, <1>5, <1>6, <1>9 DEF CoreInv

LEMMA CoreStutterInv == CoreInv /\ UNCHANGED vars => CoreInv'
<1> SUFFICES ASSUME CoreInv, UNCHANGED vars PROVE CoreInv'
  OBVIOUS
<1> USE DEF CoreInv, vars, kernelVars, localVars, processVars, pagingVars
<1>1. TypeOK' /\ PagingInv'
  BY DEF TypeOK, PagingInv, PagingTypeOK, FrameAccounting, FreeFrames, FrameIsolation, MappedIn
<1>2. Live' = Live /\ ActiveCountExact' /\ PidIsSlot'
  BY TablesUntouched
<1>3. ProcessMemory' /\ KernelStaysMapped'
  BY <1>2 DEF ProcessMemory, PagesOf, KernelStaysMapped, RunsOnTlb, MapsKernel
<1>4. ControlInv' /\ DestroyInv'
  BY DEF ControlInv, DestroyInv, Creating
<1>5. BootInv' /\ RunnerInv'
  BY <1>2 DEF BootInv, RunnerInv, HomeDir, CurrentGone, MapsUser
<1>6. CreateInv'
  BY <1>2 DEF CreateInv, Creating, CreatedPages, Needed, IsInactiveIndex
<1>7. MappedByOwner' /\ FramesMapped'
  BY <1>2 DEF MappedByOwner, FramesMapped, MappedIn, Creating
<1>8. QED
  BY <1>1, <1>2, <1>3, <1>4, <1>5, <1>6, <1>7

LEMMA CoreStepInv == CoreInv /\ [Next]_vars => CoreInv'
<1> SUFFICES ASSUME CoreInv, [Next]_vars PROVE CoreInv'
  OBVIOUS
<1>1. PagingInv'
  BY PagingInvKept
<1>2. CASE CreateStep
  BY <1>1, <1>2, CreateRefusedInv, CreateChooseSlotInv, CreateAllocateFrameInv, CreateEnterInv,
    CreateReadFailsInv, CreateUndoFrameInv, CreateFsReadFailureInv, CreateReadSucceedsInv DEF CreateStep
<1>3. CASE DestroyStep
  BY <1>1, <1>3, DestroyInactiveInv, DestroyFreeFrameInv, DestroyFreeDirectoryInv DEF DestroyStep
<1>4. CASE ReturnStep
  BY <1>1, <1>4, TlbMissInv, BootReturnInv, StoreReturnInv, ExitReturnInv DEF ReturnStep
<1>5. CASE UserStep
  BY <1>1, <1>5, SyscallCreateInv, SyscallKillInv, SyscallKillOutsideInv, SyscallExitInv DEF UserStep
<1>6. CASE TimerInterrupt
  BY <1>1, <1>6, TimerInterruptInv
<1>7. CASE UNCHANGED vars
  BY <1>7, CoreStutterInv
<1>8. QED
  BY <1>2, <1>3, <1>4, <1>5, <1>6, <1>7 DEF Next, KernelStep

(* CoreInv holds in every state of the kernel.                            *)
THEOREM CoreInvHolds == Spec => []CoreInv
BY CoreInitInv, CoreStepInv, PTL DEF Spec

-----------------------------------------------------------------------------
(* What follows from it                                                     *)

(* The kernel's state keeps its shape: no index leaves the process table,   *)
(* the pages of a process or the pool of directories.                       *)
THEOREM TypeCorrect == Spec => []TypeOK
<1>1. CoreInv => TypeOK
  BY DEF CoreInv
<1>2. QED
  BY <1>1, CoreInvHolds, PTL

(* The kernel keeps the contract of the page manager: it maps only absent   *)
(* entries and frees only directories it has emptied, in every system call. *)
THEOREM KernelKeepsContract == Spec => UsesPagingByContract
<1>1. Init => PagingInit
  BY DEF Init
<1>2. CoreInv /\ [Next]_vars => [PagingNext]_pagingVars
  BY ContractStep
<1>3. QED
  BY <1>1, <1>2, CoreInvHolds, PTL DEF Spec, UsesPagingByContract, PagingSpec

(* The counter on which process creation decides is the number of free      *)
(* frames, between any two steps of the kernel.                             *)
THEOREM FreeCountCorrect == Spec => []FrameAccounting
BY KernelKeepsContract, FrameAccountingHolds, PTL DEF UsesPagingByContract

(* No two processes, and no process and the kernel, ever share a frame.     *)
THEOREM MemoryIsolated == Spec => []FrameIsolation
BY KernelKeepsContract, FrameIsolationHolds, PTL DEF UsesPagingByContract

(* Every process has its own directory, which maps the kernel and exactly   *)
(* the pages its control block counts, even while another is being created  *)
(* or destroyed.                                                            *)
THEOREM ProcessMemoryCorrect == Spec => []ProcessMemory
<1>1. CoreInv => ProcessMemory
  BY DEF CoreInv
<1>2. QED
  BY <1>1, CoreInvHolds, PTL

(* active_process_count is the number of processes.                         *)
THEOREM ActiveCountCorrect == Spec => []ActiveCountExact
<1>1. CoreInv => ActiveCountExact
  BY DEF CoreInv
<1>2. QED
  BY <1>1, CoreInvHolds, PTL

(* The pid, which create looks up a second time, is the slot.               *)
THEOREM PidsAreSlots == Spec => []PidIsSlot
<1>1. CoreInv => PidIsSlot
  BY DEF CoreInv
<1>2. QED
  BY <1>1, CoreInvHolds, PTL

(* In user mode exactly the current process is Running, in its own          *)
(* directory.                                                               *)
THEOREM OneRunningAlways == Spec => []OneRunning
<1>1. CoreInv => OneRunning
  BY UserMode DEF OneRunning, Live
<1>2. QED
  BY <1>1, CoreInvHolds, PTL

(* The kernel loses its own mapping only by destroying the process whose    *)
(* directory is active.                                                     *)
THEOREM KernelMapped == Spec => []KernelStaysMapped
<1>1. CoreInv => KernelStaysMapped
  BY DEF CoreInv
<1>2. QED
  BY <1>1, CoreInvHolds, PTL

(* Whenever a process runs there is a shell.                                *)
THEOREM ShellsSurvive == Spec => []AShellLives
<1>1. CoreInv => AShellLives
  BY UserMode DEF AShellLives
<1>2. QED
  BY <1>1, CoreInvHolds, PTL

(* exit always finds a process to switch to.                                *)
THEOREM ExitSwitches == Spec => []ExitFindsNext
<1>1. ASSUME CoreInv, pc = "return", caller = "exit" PROVE ReadySlots(state) # {}
  <2>1. /\ current_pid \in Slots /\ state[current_pid] = "Inactive"
        /\ \A p \in Slots : state[p] = "Running" => p = current_pid
        /\ \E p \in Live : nama[p] = "shell"
    BY <1>1 DEF CoreInv, RunnerInv, CurrentGone, Halted
  <2>2. QED
    BY <1>1, <2>1 DEF CoreInv, TypeOK, ReadySlots, Live, States
<1>2. CoreInv => ExitFindsNext
  BY <1>1 DEF ExitFindsNext
<1>3. QED
  BY <1>2, CoreInvHolds, PTL

(* process_destroy never takes the frames of a process again.               *)
THEOREM DestroyCompletes == Spec => []DestroyNeverCancelled
<1>1. CoreInv => DestroyNeverCancelled
  BY DEF CoreInv, ControlInv, DestroyNeverCancelled
<1>2. QED
  BY <1>1, CoreInvHolds, PTL

(* When a process runs, the frames in use are frame 0 and those that live   *)
(* processes map: failed creates and destroys gave back all the others.     *)
THEOREM FramesKept == Spec => []NoFrameLost
<1> DEFINE Held == UNION {{page_table[dir[p]][v] : v \in PagesOf(p)} : p \in Live}
<1>1. ASSUME CoreInv, pc = "user", NEW f \in Frames, page_frame_map[f], f # 0
      PROVE  f \in Held
  <2>1. PICK d \in Dirs, v \in Pages : MappedIn(d, v) /\ page_table[d][v] = f
    BY <1>1 DEF CoreInv, FramesMapped, Halted
  <2>2. PICK p \in Live : dir[p] = d
    BY <1>1, <2>1 DEF CoreInv, MappedByOwner, Creating
  <2>3. v \in PagesOf(p)
    BY <1>1, <2>1, <2>2 DEF CoreInv, ProcessMemory, MappedIn
  <2>4. QED
    BY <2>1, <2>2, <2>3
<1>2. ASSUME CoreInv, pc = "user", NEW f \in Held
      PROVE  f \in Frames /\ page_frame_map[f]
  <2>0. PICK p \in Live : f \in {page_table[dir[p]][v] : v \in PagesOf(p)}
    BY <1>2
  <2>1. PICK v \in PagesOf(p) : f = page_table[dir[p]][v]
    BY <2>0
  <2>2. v \in Pages
    BY <1>2, <2>1, PagingAssumption DEF PagesOf, CoreInv, TypeOK, Live, Pages
  <2>3. dir[p] \in Dirs /\ MappedIn(dir[p], v)
    BY <1>2, <2>1, <2>2 DEF CoreInv, ProcessMemory, MappedIn
  <2>4. QED
    BY <1>2, <2>1, <2>2, <2>3 DEF CoreInv, PagingInv, PagingTypeOK, FrameIsolation, MappedIn
<1>3. ASSUME CoreInv PROVE 0 \in Frames /\ page_frame_map[0]
  BY <1>3, PagingAssumption DEF CoreInv, PagingInv, Frames
<1> HIDE DEF Held
<1>4. ASSUME CoreInv, pc = "user" PROVE {f \in Frames : page_frame_map[f]} = {0} \cup Held
  BY <1>1, <1>2, <1>3, <1>4
<1>5. CoreInv => NoFrameLost
  BY <1>4 DEF NoFrameLost, Held
<1>6. QED
  BY <1>5, CoreInvHolds, PTL

-----------------------------------------------------------------------------
(* What a step may not do to a process it is not about                      *)

Undisturbed(p) ==
  /\ state'[p] # "Inactive"
  /\ dir'[p] = dir[p] /\ pid'[p] = pid[p] /\ nama'[p] = nama[p]
  /\ page_frame_used_count'[p] = page_frame_used_count[p]
  /\ page_table'[dir[p]] = page_table[dir[p]]
  /\ kernel_mapped'[dir[p]] = kernel_mapped[dir[p]]

(* A switch changes no more than Ready and Running.                         *)
LEMMA SwitchUndisturbed ==
  ASSUME CoreInv, UNCHANGED pagingVars,
         UNCHANGED <<pid, nama, dir, page_frame_used_count>>,
         NEW st, st \in [Slots -> States], \A q \in Live : st[q] # "Inactive",
         \/ state' = st
         \/ \E q \in Slots : state' = [st EXCEPT ![q] = "Running"],
         NEW p \in Live
  PROVE  Undisturbed(p)
<1>1. UNCHANGED <<page_table, kernel_mapped>>
  BY DEF pagingVars
<1>2. state'[p] # "Inactive"
  BY DEF Live
<1>3. QED
  BY <1>1, <1>2 DEF Undisturbed

LEMMA BystanderStep ==
  ASSUME CoreInv, [Next]_vars, NEW p \in Live, ~(pc = "destroy" /\ p = p_index)
  PROVE  Undisturbed(p)
<1> USE DEF CoreInv
<1>1. /\ p \in Slots /\ state[p] # "Inactive" /\ dir[p] \in Dirs /\ page_directory_used[dir[p]]
      /\ \A q \in Live \ {p} : dir[q] # dir[p]
  BY DEF ProcessMemory, Live
<1>2. CASE UNCHANGED <<pagingVars, processVars>>
  BY <1>1, <1>2 DEF Undisturbed, pagingVars, processVars
<1>3. CASE CreateChooseSlot
  <2>1. PICK i \in 0 .. PROCESS_COUNT_MAX, d \in Dirs \cup {NULL} :
          /\ IsInactiveIndex(i)
          /\ paging_create_new_page_directory(d)
          /\ dir' = [dir EXCEPT ![i] = d]
    BY <1>3 DEF CreateChooseSlot
  <2>2. p # i
    BY <1>1, <2>1, InactiveIndexFree DEF IsInactiveIndex
  <2>3. page_table'[dir[p]] = page_table[dir[p]] /\ kernel_mapped'[dir[p]] = kernel_mapped[dir[p]]
    BY <1>1, <2>1 DEF paging_create_new_page_directory, FreeDirs, PagingInv, PagingTypeOK
  <2>4. QED
    BY <1>1, <1>3, <2>1, <2>2, <2>3 DEF CreateChooseSlot, Undisturbed, TypeOK
<1>4. CASE CreateAllocateFrame
  <2>1. dir[p_index] \in Dirs => dir[p] # dir[p_index]
    BY <1>4 DEF CreateAllocateFrame, CreateInv, Creating
  <2>2. page_table'[dir[p]] = page_table[dir[p]] /\ UNCHANGED kernel_mapped
    BY <1>1, <1>4, <2>1 DEF CreateAllocateFrame, paging_allocate_user_page_frame, PagingInv, PagingTypeOK
  <2>3. QED
    BY <1>1, <1>4, <2>2 DEF CreateAllocateFrame, Undisturbed, processVars
<1>5. CASE CreateUndoFrame
  <2>1. dir[p_index] \in Dirs /\ dir[p] # dir[p_index]
    BY <1>5 DEF CreateUndoFrame, CreateInv, Creating
  <2>2. page_table'[dir[p]] = page_table[dir[p]] /\ UNCHANGED kernel_mapped
    BY <1>1, <1>5, <2>1 DEF CreateUndoFrame, paging_free_user_page_frame, PagingInv, PagingTypeOK
  <2>3. QED
    BY <1>1, <1>5, <2>2 DEF CreateUndoFrame, Undisturbed, processVars
<1>6. CASE CreateReadSucceeds
  <2>1. p # p_index
    BY <1>6, InactiveIndexFree DEF CreateReadSucceeds, CreateInv, Creating, TypeOK
  <2>2. PICK i \in 0 .. PROCESS_COUNT_MAX : pid' = [pid EXCEPT ![p_index] = i]
    BY <1>6 DEF CreateReadSucceeds
  <2>3. QED
    BY <1>1, <1>6, <2>1, <2>2 DEF CreateReadSucceeds, Undisturbed, pagingVars, TypeOK
<1>7. CASE DestroyFreeFrame \/ DestroyFreeDirectory
  <2>1. pc = "destroy" /\ p_index \in Live /\ p # p_index
    BY <1>7 DEF DestroyFreeFrame, DestroyFreeDirectory, Live, TypeOK
  <2>2. dir[p_index] \in Dirs /\ dir[p] # dir[p_index]
    BY <1>1, <2>1 DEF ProcessMemory
  <2>3. page_table'[dir[p]] = page_table[dir[p]] /\ kernel_mapped'[dir[p]] = kernel_mapped[dir[p]]
    BY <1>1, <1>7, <2>2 DEF DestroyFreeFrame, DestroyFreeDirectory, paging_free_user_page_frame,
      paging_free_page_directory, PagingInv, PagingTypeOK
  <2>4. state'[p] = state[p] /\ UNCHANGED <<pid, nama, dir, page_frame_used_count>>
    BY <1>1, <1>7, <2>1, <2>2 DEF DestroyFreeFrame, DestroyFreeDirectory, processVars, TypeOK
  <2>5. QED
    BY <1>1, <2>3, <2>4 DEF Undisturbed
<1>8. CASE BootReturn \/ ExitReturn
  <2>1. state \in [Slots -> States] /\ \A q \in Live : state[q] # "Inactive"
    BY DEF TypeOK, Live
  <2>2. \/ state' = state
        \/ \E q \in Slots : state' = [state EXCEPT ![q] = "Running"]
    BY <1>8 DEF BootReturn, ExitReturn, ContextSwitch, SwitchTargets, ReadySlots
  <2>3. UNCHANGED pagingVars /\ UNCHANGED <<pid, nama, dir, page_frame_used_count>>
    BY <1>8 DEF BootReturn, ExitReturn
  <2>4. QED
    BY <2>1, <2>2, <2>3, SwitchUndisturbed
<1>9. CASE TimerInterrupt
  <2> DEFINE st == [state EXCEPT ![current_pid] = "Ready"]
  <2>1. current_pid \in Slots /\ cr3 = dir[current_pid] /\ state[current_pid] = "Running"
    BY <1>9, UserMode DEF TimerInterrupt, Live
  <2>2. st \in [Slots -> States] /\ \A q \in Live : st[q] # "Inactive"
    BY <2>1 DEF TypeOK, Live, States
  <2>3. UNCHANGED pagingVars /\ UNCHANGED <<pid, nama, dir, page_frame_used_count>>
    BY <1>9, <2>1 DEF TimerInterrupt, TypeOK
  <2>4. \/ state' = st
        \/ \E q \in Slots : state' = [st EXCEPT ![q] = "Running"]
    BY <1>9, <2>3 DEF TimerInterrupt, ContextSwitch, SwitchTargets, ReadySlots
  <2> HIDE DEF st
  <2>5. QED
    BY <2>2, <2>3, <2>4, SwitchUndisturbed
<1>10. ASSUME ~UNCHANGED <<pagingVars, processVars>>
       PROVE  \/ CreateChooseSlot \/ CreateAllocateFrame \/ CreateUndoFrame \/ CreateReadSucceeds
              \/ DestroyFreeFrame \/ DestroyFreeDirectory \/ BootReturn \/ ExitReturn \/ TimerInterrupt
  BY <1>10 DEF Next, vars, kernelVars, KernelStep, CreateStep, DestroyStep, ReturnStep, UserStep,
    CreateRefused, CreateEnterNewDirectory, CreateReadFails,
    CreateFsReadFailure, DestroyInactive, TlbMiss, StoreReturn,
    SyscallProcessCreate, SyscallKill, SyscallKillOutside, SyscallExit
<1>11. QED
  BY <1>2, <1>3, <1>4, <1>5, <1>6, <1>7, <1>8, <1>9, <1>10

(* Creating, switching and destroying leave every other process its control *)
(* block, its directory, its mappings and its kernel.                       *)
THEOREM BystandersSafe == Spec => BystandersUntouched
<1>1. ASSUME CoreInv, [Next]_vars
      PROVE  [\A p \in Live :
                ~ (pc = "destroy" /\ p = p_index) =>
                   /\ state'[p] # "Inactive"
                   /\ dir'[p] = dir[p] /\ pid'[p] = pid[p] /\ nama'[p] = nama[p]
                   /\ page_frame_used_count'[p] = page_frame_used_count[p]
                   /\ page_table'[dir[p]] = page_table[dir[p]]
                   /\ kernel_mapped'[dir[p]]]_vars
  <2>1. \A p \in Live : kernel_mapped[dir[p]]
    BY <1>1, SpecialValues DEF CoreInv, ProcessMemory, MapsKernel
  <2>2. QED
    BY <1>1, <2>1, BystanderStep DEF Undisturbed
<1>2. QED
  BY <1>1, CoreInvHolds, PTL DEF Spec, BystandersUntouched

-----------------------------------------------------------------------------
(* Why the machine stops                                                    *)

(* With somebody Ready the scan finds a slot: some Ready slot is nearest.   *)
LEMMA ScanFinds ==
  ASSUME NEW st, NEW cur \in Slots \cup {NoPid}, ReadySlots(st) # {}
  PROVE  SwitchTargets(st, cur) # {}
<1> DEFINE D == {Distance(cur, p) : p \in ReadySlots(st)}
<1>1. D # {} /\ D \subseteq Nat
  <2>1. \A p \in Slots : Distance(cur, p) \in Nat
    BY ProcessCountAssumption DEF Distance, Slots, NoPid
  <2>2. QED
    BY <2>1 DEF ReadySlots
<1>2. PICK n \in D : \A m \in D : n <= m
  BY <1>1, LeastNat
<1>3. QED
  BY <1>2 DEF SwitchTargets

(* A switch gives the processor to a live process and ends none.            *)
LEMMA SwitchLive ==
  ASSUME CoreInv, BootReturn \/ ExitReturn \/ TimerInterrupt
  PROVE  /\ Live' = Live /\ dir' = dir
         /\ (pc' = "hang" /\ UNCHANGED current_pid) \/ current_pid' \in Live
<1> USE DEF CoreInv
<1>1. CASE BootReturn
  <2>1. SwitchTargets(state, current_pid) \subseteq {p \in Slots : state[p] = "Ready"}
    BY <1>1, TargetsReady DEF BootReturn, BootInv, Halted
  <2>2. QED
    BY <1>1, <2>1 DEF BootReturn, ContextSwitch, Live, TypeOK
<1>2. CASE ExitReturn
  <2>1. ReadySlots(state) # {}
    BY <1>2 DEF ExitReturn, RunnerInv, TypeOK, Halted, CurrentGone, ReadySlots, Live, States
  <2>2. SwitchTargets(state, current_pid) \subseteq {p \in Slots : state[p] = "Ready"}
    BY <2>1, TargetsReady
  <2>3. QED
    BY <1>2, <2>2 DEF ExitReturn, ContextSwitch, Live, TypeOK
<1>3. CASE TimerInterrupt
  <2> DEFINE st == [state EXCEPT ![current_pid] = "Ready"]
  <2>1. current_pid \in Slots /\ state[current_pid] = "Running" /\ dir' = dir
    BY <1>3, UserMode DEF TimerInterrupt, Live, TypeOK
  <2>2. ReadySlots(st) # {} /\ st \in [Slots -> States]
    BY <2>1 DEF ReadySlots, TypeOK, States
  <2>3. SwitchTargets(st, current_pid) \subseteq {p \in Slots : st[p] = "Ready"}
    BY <2>2, TargetsReady
  <2>4. \A p \in Slots : st[p] = "Inactive" <=> state[p] = "Inactive"
    BY <2>1 DEF TypeOK
  <2>5. \/ state' = st /\ pc' = "hang" /\ UNCHANGED current_pid
        \/ /\ current_pid' \in Slots /\ st[current_pid'] = "Ready"
           /\ state' = [st EXCEPT ![current_pid'] = "Running"]
    BY <1>3, <2>3 DEF TimerInterrupt, ContextSwitch
  <2>6. QED
    BY <2>1, <2>2, <2>4, <2>5 DEF Live
<1>4. QED
  BY <1>1, <1>2, <1>3

LEMMA HaltInitInv == Init => HaltInv
BY DEF Init, HaltInv, Live, Creating

LEMMA HaltStepInv == ASSUME KernelInv, [Next]_vars PROVE HaltInv'
<1> USE DEF KernelInv, CoreInv, HaltInv
<1>1. CASE CreateChooseSlot
  <2>1. PICK p \in 0 .. PROCESS_COUNT_MAX, d \in Dirs \cup {NULL} :
          /\ IsInactiveIndex(p)
          /\ paging_create_new_page_directory(d)
          /\ p_index' = p
          /\ dir' = [dir EXCEPT ![p] = d]
    BY <1>1 DEF CreateChooseSlot
  <2>2. pc = "create" /\ pc' = "allocate" /\ UNCHANGED <<state, page_frame_used_count, caller>>
    BY <1>1 DEF CreateChooseSlot
  <2>3. p \in Slots
    BY <1>1, <2>1, InactiveSlotExists, Refusals DEF CreateChooseSlot, IsInactiveIndex
  <2>4. dir'[p_index'] \notin Dirs => FreeDirs' = {}
    BY <2>1, <2>3 DEF TypeOK, paging_create_new_page_directory, FreeDirs
  <2>5. QED
    BY <2>2, <2>4 DEF Live, ControlInv
<1>2. CASE CreateReadSucceeds
  <2>1. Needed \in Nat \ {0}
    BY KernelAssumption DEF TypeOK, Needed
  <2>2. QED
    BY <1>2, <2>1 DEF CreateReadSucceeds, Return, Live, TypeOK, ControlInv, Creating
<1>3. CASE DestroyFreeDirectory
  BY <1>3 DEF DestroyFreeDirectory, Return, Live, TypeOK, Creating
<1>4. CASE BootReturn \/ ExitReturn \/ TimerInterrupt
  <2>1. pc' \in {"user"} \cup Halted /\ UNCHANGED page_frame_used_count
    BY <1>4 DEF BootReturn, ExitReturn, TimerInterrupt, ContextSwitch, Halted
  <2>2. Live' = Live
    BY <1>4, SwitchLive
  <2>3. QED
    BY <2>1, <2>2 DEF Creating, Halted
<1>5. CASE StoreReturn
  BY <1>5 DEF StoreReturn, Live, processVars, ForgetLocals, Creating, localVars, NoCaller, FreeDirs, pagingVars
<1>6. CASE CreateAllocateFrame \/ CreateUndoFrame \/ DestroyFreeFrame
  BY <1>6 DEF CreateAllocateFrame, CreateUndoFrame, DestroyFreeFrame, paging_allocate_user_page_frame,
    paging_free_user_page_frame, Live, processVars, Creating, FreeDirs
<1>7. CASE CreateRefused \/ CreateEnterNewDirectory \/ CreateReadFails
           \/ CreateFsReadFailure
  BY <1>7 DEF CreateRefused, CreateEnterNewDirectory, CreateReadFails,
    CreateFsReadFailure, Return, Live, processVars, pagingVars, Creating, FreeDirs, ControlInv, Halted
<1>8. CASE DestroyInactive \/ TlbMiss \/ SyscallProcessCreate \/ SyscallExit
           \/ \E text \in KillTexts : SyscallKill(text) \/ SyscallKillOutside(text)
  BY <1>8 DEF DestroyInactive, TlbMiss, SyscallProcessCreate, SyscallExit, SyscallKill, SyscallKillOutside,
    Return, Live, processVars, localVars, pagingVars, Creating, FreeDirs, InUser, Halted, ControlInv
<1>9. CASE UNCHANGED vars
  BY <1>9 DEF vars, kernelVars, Live, processVars, localVars, pagingVars, Creating, FreeDirs
<1>10. QED
  BY <1>1, <1>2, <1>3, <1>4, <1>5, <1>6, <1>7, <1>8, <1>9
  DEF Next, KernelStep, CreateStep, DestroyStep, ReturnStep, UserStep

LEMMA NameInitInv == Init => NameInv
BY DEF Init, NameInv, Live, Request, NoName

LEMMA NameStepInv == ASSUME KernelInv, [Next]_vars PROVE NameInv'
<1> USE DEF KernelInv, CoreInv, NameInv
<1>1. CASE CreateReadSucceeds
  BY <1>1 DEF CreateReadSucceeds, Return, Live, TypeOK, Creating
<1>2. CASE SyscallProcessCreate
  BY <1>2 DEF SyscallProcessCreate, Request, Programs, NoName, processVars, Live
<1>3. CASE DestroyFreeDirectory
  BY <1>3 DEF DestroyFreeDirectory, Return, Live, TypeOK, Creating
<1>4. CASE BootReturn \/ ExitReturn \/ TimerInterrupt
  <2>1. pc' \in {"user"} \cup Halted /\ UNCHANGED nama
    BY <1>4 DEF BootReturn, ExitReturn, TimerInterrupt, ContextSwitch, Halted
  <2>2. Live' = Live
    BY <1>4, SwitchLive
  <2>3. QED
    BY <2>1, <2>2 DEF Creating, Halted
<1>5. ASSUME UNCHANGED <<state, nama>>, pc' = "create" \/ Creating' => UNCHANGED request /\ (pc = "create" \/ Creating)
      PROVE  NameInv'
  BY <1>5 DEF Live
<1>6. CASE \/ CreateRefused \/ CreateChooseSlot \/ CreateAllocateFrame
           \/ CreateEnterNewDirectory \/ CreateReadFails \/ CreateUndoFrame \/ CreateFsReadFailure
  BY <1>5, <1>6 DEF CreateRefused, CreateChooseSlot, CreateAllocateFrame,
    CreateEnterNewDirectory, CreateReadFails, CreateUndoFrame, CreateFsReadFailure, Return, processVars, Creating
<1>7. CASE \/ DestroyInactive \/ DestroyFreeFrame \/ TlbMiss \/ StoreReturn \/ SyscallExit
           \/ \E text \in KillTexts : SyscallKill(text) \/ SyscallKillOutside(text)
  BY <1>5, <1>7 DEF DestroyInactive, DestroyFreeFrame, TlbMiss, StoreReturn, SyscallExit, SyscallKill, SyscallKillOutside,
    Return, processVars, Creating
<1>8. CASE UNCHANGED vars
  BY <1>5, <1>8 DEF vars, kernelVars, processVars, localVars, Creating
<1>9. QED
  BY <1>1, <1>2, <1>3, <1>4, <1>6, <1>7, <1>8
  DEF Next, KernelStep, CreateStep, DestroyStep, ReturnStep, UserStep

(* The whole inductive invariant that the runs check.                       *)
THEOREM KernelInvHolds == Spec => []KernelInv
<1>1. Init => KernelInv
  BY CoreInitInv, HaltInitInv, NameInitInv DEF KernelInv
<1>2. KernelInv /\ [Next]_vars => KernelInv'
  BY CoreStepInv, HaltStepInv, NameStepInv DEF KernelInv
<1>3. QED
  BY <1>1, <1>2, PTL DEF Spec

(* Each step that stops the machine has one of the causes.                  *)
LEMMA HaltStep ==
  ASSUME KernelInv, [Next]_vars, pc \notin Halted, pc' \in Halted
  PROVE  \/ caller' = "exec" /\ FreeDirs = {} /\ Cardinality(Live) < Cardinality(Dirs)
         \/ caller' = "kill" /\ p_index = current_pid
         \/ pc' = "wild" /\ InUser("shell") /\ \E text \in KillTexts : ParsedPid(text) \notin Slots
         \/ caller' = "exit" /\ state[0] = "Inactive"
         \/ current_pid = NoPid /\ Live = {}
<1> USE DEF KernelInv, CoreInv
<1>1. CASE CreateEnterNewDirectory
  <2>1. /\ Creating /\ ~MapsKernel(dir[p_index]) /\ caller' = caller /\ caller \in {"boot", "exec"}
        /\ p_index \in Slots
    BY <1>1 DEF CreateEnterNewDirectory, Creating, ControlInv, Halted, TypeOK
  <2>2. FreeDirs = {}
    BY <2>1 DEF HaltInv, CreateInv, MapsKernel
  <2>3. CASE caller = "boot"
    BY <1>1, <2>3 DEF BootInv, CreateEnterNewDirectory
  <2>4. CASE caller = "exec"
    <3>1. p_index \notin Live /\ Live \subseteq Slots \ {p_index}
      BY <2>1, InactiveIndexFree DEF CreateInv, Live
    <3>2. Cardinality(Slots \ {p_index}) = PROCESS_COUNT_MAX - 1 /\ IsFiniteSet(Slots \ {p_index})
      BY <2>1, SlotsFinite, FS_RemoveElement
    <3>3. Cardinality(Live) <= PROCESS_COUNT_MAX - 1
      BY <3>1, <3>2, FS_Subset
    <3>4. Cardinality(Dirs) = PAGING_DIRECTORY_TABLE_MAX_COUNT
      BY FS_Interval, PagingAssumption DEF Dirs
    <3>5. QED
      BY <2>1, <2>2, <2>4, <3>3, <3>4, LiveFinite, DirectoryPerSlot, ProcessCountAssumption, PagingAssumption
  <2>5. QED
    BY <2>1, <2>3, <2>4
<1>2. CASE BootReturn
  <2>1. current_pid = NoPid /\ \A p \in Live : state[p] = "Ready"
    BY <1>2 DEF BootReturn, BootInv, Halted
  <2>2. SwitchTargets(state, current_pid) = {}
    <3>1. \A p \in SwitchTargets(state, current_pid) : p \in Live
      BY <2>1, TargetsReady DEF Live
    <3>2. QED
      BY <1>2, <3>1 DEF BootReturn, ContextSwitch, ProcessMemory, Halted
  <2>3. ReadySlots(state) = {}
    BY <2>1, <2>2, ScanFinds
  <2>4. QED
    BY <2>1, <2>3 DEF ReadySlots, Live
<1>3. CASE ExitReturn
  <2>1. ReadySlots(state) # {}
    BY <1>3 DEF ExitReturn, RunnerInv, TypeOK, Halted, CurrentGone, ReadySlots, Live, States
  <2>2. \A p \in SwitchTargets(state, current_pid) : p \in Live
    BY <2>1, TargetsReady DEF Live
  <2>3. QED
    BY <1>3, <2>1, <2>2, ScanFinds DEF ExitReturn, ContextSwitch, ProcessMemory, Halted, TypeOK
<1>4. CASE TimerInterrupt
  <2> DEFINE st == [state EXCEPT ![current_pid] = "Ready"]
  <2>1. current_pid \in Slots /\ state[current_pid] = "Running" /\ dir' = dir
    BY <1>4, UserMode DEF TimerInterrupt, Live, TypeOK
  <2>2. ReadySlots(st) # {} /\ \A p \in Slots : st[p] = "Ready" => p \in Live
    BY <2>1 DEF ReadySlots, TypeOK, States, Live
  <2>3. \A p \in SwitchTargets(st, current_pid) : p \in Live
    BY <2>2, TargetsReady
  <2>4. QED
    BY <1>4, <2>1, <2>2, <2>3, ScanFinds DEF TimerInterrupt, ContextSwitch, ProcessMemory, Halted
<1>5. CASE SyscallExit
  <2>1. caller' = "exit" /\ ~MapsKernel(dir[0])
    BY <1>5 DEF SyscallExit, Halted
  <2>2. 0 \in Slots /\ (state[0] # "Inactive" => 0 \in Live)
    BY ProcessCountAssumption DEF Slots, Live
  <2>3. QED
    BY <2>1, <2>2 DEF ProcessMemory
<1>6. CASE TlbMiss
  <2>1. /\ pc = "return" /\ RunsOnTlb /\ UNCHANGED <<caller, state, current_pid>>
        /\ p_index = current_pid /\ state[current_pid] = "Inactive" /\ p_index \in Slots
    BY <1>6 DEF TlbMiss, KernelStaysMapped, processVars, localVars, TypeOK
  <2>2. caller \in {"kill", "exit"}
    BY <2>1, SpecialValues DEF ControlInv, RunnerInv, BootInv, CurrentGone, TypeOK, Halted
  <2>3. caller = "exit" => state[0] = "Inactive"
    <3>1. 0 \in Slots
      BY ProcessCountAssumption DEF Slots
    <3>2. QED
      BY <2>1, <3>1 DEF HaltInv, RunsOnTlb, ProcessMemory, Live
  <2>4. QED
    BY <2>1, <2>2, <2>3
<1>7. CASE StoreReturn
  <2>1. /\ pc = "return" /\ caller \in {"exec", "kill"} /\ ~MapsUser(cr3) /\ caller' = caller
        /\ UNCHANGED <<state, current_pid, p_index>>
    BY <1>7 DEF StoreReturn, Halted, localVars, processVars
  <2>2. current_pid \in Slots /\ cr3 = dir[current_pid]
    BY <2>1 DEF RunnerInv, HomeDir, Halted
  <2>3. CurrentGone
    <3>1. SUFFICES ASSUME current_pid \in Live PROVE FALSE
      BY <2>2 DEF CurrentGone, Live
    <3>2. 0 \in Pages /\ 0 \in PagesOf(current_pid)
      BY <2>1, <2>2, <3>1, PagingAssumption DEF Pages, PagesOf, HaltInv, TypeOK
    <3>3. QED
      BY <2>1, <2>2, <3>1, <3>2 DEF ProcessMemory, MapsUser
  <2>4. QED
    BY <2>1, <2>3 DEF RunnerInv, Halted
<1>8. CASE CreateRefused \/ CreateChooseSlot \/ CreateAllocateFrame
           \/ CreateReadFails \/ CreateUndoFrame \/ CreateFsReadFailure \/ CreateReadSucceeds
  BY <1>8 DEF CreateRefused, CreateChooseSlot, CreateAllocateFrame,
    CreateReadFails, CreateUndoFrame, CreateFsReadFailure, CreateReadSucceeds, Return, Halted
<1>9. CASE DestroyStep \/ SyscallProcessCreate \/ \E text \in KillTexts : SyscallKill(text)
  BY <1>9 DEF DestroyStep, DestroyInactive, DestroyFreeFrame, DestroyFreeDirectory, SyscallProcessCreate,
    SyscallKill, Return, Halted
<1>10. CASE \E text \in KillTexts : SyscallKillOutside(text)
  BY <1>10 DEF SyscallKillOutside, Return, Halted
<1>11. CASE UNCHANGED vars
  BY <1>11 DEF vars, kernelVars
<1>12. QED
  BY <1>1, <1>2, <1>3, <1>4, <1>5, <1>6, <1>7, <1>8, <1>9, <1>10, <1>11
  DEF Next, KernelStep, CreateStep, ReturnStep, UserStep

(* The machine stops only after a failed boot, a leak of directories, a     *)
(* shell's suicide, a text for kill that names no slot (whatever texts the  *)
(* shells give), or an exit without the owner of slot 0.                    *)
THEOREM HaltsExplained == Spec => HaltCauses
<1>1. ASSUME KernelInv, [Next]_vars
      PROVE  [pc \notin Halted /\ pc' \in Halted =>
                \/ caller' = "exec" /\ FreeDirs = {} /\ Cardinality(Live) < Cardinality(Dirs)
                \/ caller' = "kill" /\ p_index = current_pid
                \/ pc' = "wild" /\ InUser("shell") /\ \E text \in KillTexts : ParsedPid(text) \notin Slots
                \/ caller' = "exit" /\ state[0] = "Inactive"
                \/ current_pid = NoPid /\ Live = {}]_vars
  BY <1>1, HaltStep
<1>2. QED
  BY <1>1, KernelInvHolds, PTL DEF Spec, HaltCauses

-----------------------------------------------------------------------------
(* The scan of the scheduler                                                *)

(* Where the scan is after k iterations that found nothing.                 *)
Visit(cur, k) == IF cur + 1 + k <= PROCESS_COUNT_MAX THEN cur + 1 + k ELSE cur + 1 + k - PROCESS_COUNT_MAX

Turns == PROCESS_COUNT_MAX + 3

(* All that is used of the recursive function.                              *)
Runs(run, st, cur) ==
  /\ run[0] = Scanning(cur + 1)
  /\ \A k \in 1 .. Turns : run[k] = Iteration(st, cur, run[k - 1])

LEMMA ScanRuns ==
  ASSUME NEW st, NEW cur
  PROVE  \E run : Runs(run, st, cur) /\ Scan(st, cur, Turns) = run[Turns]
<1> DEFINE Start == Scanning(cur + 1)
           Upto(n, run) == run = [k \in 0 .. n |-> IF k = 0 THEN Start ELSE Iteration(st, cur, run[k - 1])]
           T == {n \in Nat : ~ \E run : Upto(n, run)}
<1>1. Turns \in Nat
  BY ProcessCountAssumption DEF Turns
<1>2. T = {}
  <2> SUFFICES ASSUME T # {} PROVE FALSE
    OBVIOUS
  <2>1. PICK n \in T : \A m \in T : n <= m
    <3>1. T \in SUBSET Nat
      OBVIOUS
    <3> HIDE DEF T
    <3>2. QED
      BY <3>1, LeastNat
  <2>2. Upto(0, [k \in 0 .. 0 |-> Start])
    OBVIOUS
  <2>3. n \in Nat \ {0} /\ n - 1 \in Nat /\ n - 1 \notin T
    <3>1. n \in Nat /\ n # 0
      BY <2>2
    <3>2. n - 1 \in Nat /\ ~ (n <= n - 1)
      BY <3>1
    <3> HIDE DEF T
    <3>3. QED
      BY <2>1, <3>1, <3>2
  <2>4. PICK old : Upto(n - 1, old)
    BY <2>3
  <2> DEFINE new == [k \in 0 .. n |-> IF k = n THEN Iteration(st, cur, old[n - 1]) ELSE old[k]]
  <2>5. \A k \in 0 .. n - 1 : old[k] = IF k = 0 THEN Start ELSE Iteration(st, cur, old[k - 1])
    <3> HIDE DEF Start
    <3>1. QED
      BY <2>4
  <2>6. /\ \A k \in 0 .. n : new[k] = IF k = n THEN Iteration(st, cur, old[n - 1]) ELSE old[k]
        /\ new = [k \in 0 .. n |-> new[k]]
    OBVIOUS
  <2> HIDE DEF new, Start
  <2>7. ASSUME NEW k \in 0 .. n
        PROVE  new[k] = IF k = 0 THEN Start ELSE Iteration(st, cur, new[k - 1])
    <3>1. CASE k = n
      BY <2>3, <2>6, <3>1
    <3>2. CASE k # n
      <4>1. k \in 0 .. n - 1 /\ (k # 0 => k - 1 \in 0 .. n /\ k - 1 # n)
        BY <2>3, <3>2
      <4>2. QED
        BY <2>5, <2>6, <3>2, <4>1
    <3>3. QED
      BY <3>1, <3>2
  <2>8. Upto(n, new)
    BY <2>6, <2>7
  <2>9. QED
    BY <2>1, <2>8
<1>3. \E run : Upto(Turns, run)
  BY <1>1, <1>2
<1> DEFINE r == CHOOSE run : Upto(Turns, run)
<1>4. Upto(Turns, r)
  BY <1>3
<1>5. Scan(st, cur, Turns) = r[Turns]
  BY DEF Scan
<1> HIDE DEF r
<1>6. Runs(r, st, cur)
  <2> HIDE DEF Start
  <2>1. \A k \in 0 .. Turns : r[k] = IF k = 0 THEN Start ELSE Iteration(st, cur, r[k - 1])
    BY <1>4
  <2>2. QED
    BY <1>1, <2>1 DEF Runs, Start
<1>7. QED
  BY <1>5, <1>6

(* Induction along the scan.                                                *)
LEMMA AlongTheScan ==
  ASSUME NEW S, 0 \in S, \A k \in 1 .. Turns : k - 1 \in S => k \in S
  PROVE  Turns \in S
<1> DEFINE T == {k \in 0 .. Turns : k \notin S}
<1>1. Turns \in Nat
  BY ProcessCountAssumption DEF Turns
<1>2. T = {}
  <2> SUFFICES ASSUME T # {} PROVE FALSE
    OBVIOUS
  <2>1. PICK k \in T : \A m \in T : k <= m
    <3>1. T \in SUBSET Nat
      BY <1>1
    <3> HIDE DEF T
    <3>2. QED
      BY <3>1, LeastNat
  <2>2. k \in 1 .. Turns /\ k - 1 \in 0 .. Turns /\ ~ (k <= k - 1)
    <3>1. k \in 0 .. Turns /\ k # 0
      BY <2>1
    <3>2. QED
      BY <1>1, <3>1
  <2>3. k - 1 \in S
    <3>1. k - 1 \notin T
      <4> HIDE DEF T
      <4>1. QED
        BY <2>1, <2>2
    <3>2. QED
      BY <2>2, <3>1
  <2>4. QED
    BY <2>1, <2>2, <2>3
<1>3. QED
  BY <1>1, <1>2

(* A scan that passes over d slots and stops at the next.                   *)
LEMMA ScanStops ==
  ASSUME NEW st, NEW cur, NEW p, NEW d \in 0 .. PROCESS_COUNT_MAX - 1,
         Visit(cur, 0) = cur + 1,
         \A k \in 0 .. d - 1 : Iteration(st, cur, Scanning(Visit(cur, k))) = Scanning(Visit(cur, k + 1)),
         Iteration(st, cur, Scanning(Visit(cur, d))) = FoundAt(p)
  PROVE  Scan(st, cur, Turns) = FoundAt(p)
<1>1. PICK run : Runs(run, st, cur) /\ Scan(st, cur, Turns) = run[Turns]
  BY ScanRuns
<1> DEFINE Right(k) == run[k] = IF k <= d THEN Scanning(Visit(cur, k)) ELSE FoundAt(p)
           S == {k \in 0 .. Turns : Right(k)}
<1>2. Turns \in Nat /\ d \in Nat /\ d < Turns
  BY ProcessCountAssumption DEF Turns
<1>3. 0 \in S
  BY <1>1, <1>2 DEF Runs
<1>4. ASSUME NEW k \in 1 .. Turns, k - 1 \in S PROVE k \in S
  <2>1. run[k] = Iteration(st, cur, run[k - 1])
    BY <1>1 DEF Runs
  <2>2. CASE k <= d
    <3>1. k - 1 \in 0 .. d - 1 /\ k - 1 <= d /\ (k - 1) + 1 = k
      BY <1>2, <2>2
    <3>2. run[k - 1] = Scanning(Visit(cur, k - 1))
      BY <1>4, <3>1
    <3>3. Iteration(st, cur, Scanning(Visit(cur, k - 1))) = Scanning(Visit(cur, k))
      BY <3>1
    <3>4. QED
      BY <2>1, <2>2, <3>2, <3>3
  <2>3. CASE k - 1 = d
    <3>1. run[k - 1] = Scanning(Visit(cur, d)) /\ ~ (k <= d)
      BY <1>2, <1>4, <2>3
    <3>2. QED
      BY <2>1, <3>1
  <2>4. CASE k > d /\ k - 1 # d
    <3>1. ~ (k <= d) /\ ~ (k - 1 <= d)
      BY <1>2, <2>4
    <3>2. run[k - 1] = FoundAt(p)
      BY <1>4, <3>1
    <3>3. Iteration(st, cur, FoundAt(p)) = FoundAt(p)
      BY DEF Iteration, FoundAt
    <3>4. QED
      BY <2>1, <3>1, <3>2, <3>3
  <2>5. QED
    BY <1>2, <2>2, <2>3, <2>4
<1>5. Turns \in S
  <2> HIDE DEF S
  <2>1. QED
    BY <1>3, <1>4, AlongTheScan
<1>6. QED
  BY <1>1, <1>2, <1>5

(* The slot visited after k others, and how far it is.                      *)
LEMMA VisitDistance ==
  ASSUME NEW cur \in Slots \cup {NoPid}, NEW k \in 0 .. PROCESS_COUNT_MAX - 1
  PROVE  /\ Visit(cur, k) \in 0 .. PROCESS_COUNT_MAX /\ Wrapped(Visit(cur, k)) \in Slots
         /\ Distance(cur, Wrapped(Visit(cur, k))) = k
         /\ Visit(cur, k) = cur <=> cur > 0 /\ k = PROCESS_COUNT_MAX - 1
         /\ k + 1 < PROCESS_COUNT_MAX => Visit(cur, k + 1) = Wrapped(Visit(cur, k)) + 1
<1> PICK N \in Nat \ {0} : N = PROCESS_COUNT_MAX
  BY ProcessCountAssumption
<1> PICK w : w = Wrapped(Visit(cur, k))
  OBVIOUS
<1>1. cur \in Int /\ -1 <= cur /\ cur < N /\ k \in Nat /\ k < N
  BY DEF Slots, NoPid
<1>2. w = IF cur + 1 + k < N THEN cur + 1 + k ELSE cur + 1 + k - N
  BY <1>1 DEF Wrapped, Visit
<1>3. w \in 0 .. N - 1
  BY <1>1, <1>2
<1>4. w - cur - 1 + N = N * (IF cur + 1 + k < N THEN 1 ELSE 0) + k
  BY <1>1, <1>2
<1>5. (w - cur - 1 + N) % N = k
  <2>1. PICK e \in Nat, q \in {0, 1} : e = w - cur - 1 + N /\ e = N * q + k
    <3>1. w - cur - 1 + N \in Nat
      BY <1>1, <1>2
    <3>2. QED
      BY <1>4, <3>1
  <2>2. q \in Nat /\ k \in 0 .. N - 1
    BY <1>1
  <2>3. e % N = k
    BY <2>1, <2>2, DivModUnique
  <2>4. QED
    BY <2>1, <2>3
<1>6. Distance(cur, w) = k
  BY <1>5 DEF Distance
<1>7. QED
  BY <1>1, <1>2, <1>3, <1>6 DEF Visit, Slots

(* And the other way round: every slot is visited at its distance.          *)
LEMMA DistanceVisit ==
  ASSUME NEW cur \in Slots \cup {NoPid}, NEW p \in Slots
  PROVE  Distance(cur, p) \in 0 .. PROCESS_COUNT_MAX - 1 /\ Wrapped(Visit(cur, Distance(cur, p))) = p
<1> PICK N \in Nat \ {0} : N = PROCESS_COUNT_MAX
  BY ProcessCountAssumption
<1> PICK k : k = IF p > cur THEN p - cur - 1 ELSE p - cur - 1 + N
  OBVIOUS
<1>1. cur \in Int /\ -1 <= cur /\ cur < N /\ p \in Nat /\ p < N
  BY DEF Slots, NoPid
<1>2. k \in 0 .. N - 1
  BY <1>1
<1>3. Wrapped(Visit(cur, k)) = p
  BY <1>1 DEF Wrapped, Visit
<1>4. Distance(cur, p) = k
  <2>1. k \in 0 .. PROCESS_COUNT_MAX - 1
    BY <1>2
  <2>2. Distance(cur, Wrapped(Visit(cur, k))) = k
    BY <2>1, VisitDistance
  <2>3. QED
    BY <1>3, <2>2, Zenon
<1>5. QED
  BY <1>2, <1>3, <1>4

(* An iteration that passes over a slot.                                    *)
LEMMA PassesOver ==
  ASSUME NEW st, NEW cur, NEW k, Visit(cur, k) # cur, st[Wrapped(Visit(cur, k))] # "Ready",
         Visit(cur, k + 1) = Wrapped(Visit(cur, k)) + 1
  PROVE  Iteration(st, cur, Scanning(Visit(cur, k))) = Scanning(Visit(cur, k + 1))
BY DEF Iteration, Scanning

LEMMA ScanReachesReady ==
  ASSUME NEW cur \in Slots \cup {NoPid}, NEW st, ReadySlots(st) # {}
  PROVE  \E p \in SwitchTargets(st, cur) : Scan(st, cur, Turns) = FoundAt(p)
<1> DEFINE Ds == {Distance(cur, q) : q \in ReadySlots(st)}
<1>1. \A q \in ReadySlots(st) : q \in Slots /\ Distance(cur, q) \in Nat
  BY DistanceVisit DEF ReadySlots
<1>2. PICK p \in ReadySlots(st) : \A q \in ReadySlots(st) : Distance(cur, p) <= Distance(cur, q)
  <2>1. Ds \in SUBSET Nat /\ Ds # {}
    BY <1>1
  <2> HIDE DEF Ds
  <2>2. PICK least \in Ds : \A m \in Ds : least <= m
    BY <2>1, LeastNat
  <2>3. QED
    BY <2>2 DEF Ds
<1>3. p \in SwitchTargets(st, cur)
  BY <1>2 DEF SwitchTargets
<1>4. PICK d \in 0 .. PROCESS_COUNT_MAX - 1 : d = Distance(cur, p) /\ Wrapped(Visit(cur, d)) = p
  BY <1>1, DistanceVisit
<1>5. d < PROCESS_COUNT_MAX /\ d \in Nat /\ PROCESS_COUNT_MAX \in Nat
  BY ProcessCountAssumption
<1>6. ASSUME NEW k \in 0 .. d - 1
      PROVE  Iteration(st, cur, Scanning(Visit(cur, k))) = Scanning(Visit(cur, k + 1))
  <2>1. k \in 0 .. PROCESS_COUNT_MAX - 1 /\ k # PROCESS_COUNT_MAX - 1 /\ k + 1 < PROCESS_COUNT_MAX /\ ~ (d <= k)
    BY <1>5
  <2>2. st[Wrapped(Visit(cur, k))] # "Ready"
    <3>1. Wrapped(Visit(cur, k)) \in Slots /\ Distance(cur, Wrapped(Visit(cur, k))) = k
      BY <2>1, VisitDistance
    <3>2. Wrapped(Visit(cur, k)) \notin ReadySlots(st)
      BY <1>2, <1>4, <2>1, <3>1
    <3>3. QED
      BY <3>1, <3>2 DEF ReadySlots
  <2>3. Visit(cur, k) # cur /\ Visit(cur, k + 1) = Wrapped(Visit(cur, k)) + 1
    BY <2>1, VisitDistance
  <2>4. QED
    BY <2>2, <2>3, PassesOver
<1>7. Iteration(st, cur, Scanning(Visit(cur, d))) = FoundAt(p)
  <2>1. st[p] = "Ready"
    BY DEF ReadySlots
  <2>2. Visit(cur, d) = cur => p = cur
    <3>1. Visit(cur, d) = cur => cur \in Slots
      BY VisitDistance, ProcessCountAssumption DEF Slots, NoPid
    <3>2. cur \in Slots => Wrapped(cur) = cur
      BY ProcessCountAssumption DEF Wrapped, Slots
    <3>3. QED
      BY <1>4, <3>1, <3>2
  <2>3. QED
    BY <1>4, <2>1, <2>2 DEF Iteration, Scanning
<1>8. Visit(cur, 0) = cur + 1
  BY ProcessCountAssumption DEF Visit, Slots, NoPid
<1>9. Scan(st, cur, Turns) = FoundAt(p)
  BY <1>6, <1>7, <1>8, ScanStops
<1>10. QED
  BY <1>3, <1>9

(* With nobody ready the scan comes round to a current process ...          *)
LEMMA ScanComesRound ==
  ASSUME NEW cur \in Slots, cur > 0, NEW st, ReadySlots(st) = {}
  PROVE  Scan(st, cur, Turns) = FoundAt(cur) /\ SwitchTargets(st, cur) = {cur}
<1> PICK d \in 0 .. PROCESS_COUNT_MAX - 1 : d = PROCESS_COUNT_MAX - 1
  BY ProcessCountAssumption
<1>1. PROCESS_COUNT_MAX \in Nat
  BY ProcessCountAssumption
<1>2. ASSUME NEW k \in 0 .. d - 1
      PROVE  Iteration(st, cur, Scanning(Visit(cur, k))) = Scanning(Visit(cur, k + 1))
  <2>1. k \in 0 .. PROCESS_COUNT_MAX - 1 /\ k # PROCESS_COUNT_MAX - 1 /\ k + 1 < PROCESS_COUNT_MAX
    BY <1>1
  <2>2. st[Wrapped(Visit(cur, k))] # "Ready"
    BY <2>1, VisitDistance DEF ReadySlots
  <2>3. Visit(cur, k) # cur /\ Visit(cur, k + 1) = Wrapped(Visit(cur, k)) + 1
    BY <2>1, VisitDistance
  <2>4. QED
    BY <2>2, <2>3, PassesOver
<1>3. Iteration(st, cur, Scanning(Visit(cur, d))) = FoundAt(cur)
  BY VisitDistance DEF Iteration, Scanning
<1>4. Visit(cur, 0) = cur + 1
  BY ProcessCountAssumption DEF Visit, Slots
<1>5. Scan(st, cur, Turns) = FoundAt(cur)
  BY <1>2, <1>3, <1>4, ScanStops
<1>6. QED
  BY <1>5 DEF SwitchTargets

(* ... but never to slot 0 or to no process: it spins.                      *)
LEMMA ScanSpins ==
  ASSUME NEW cur \in Slots \cup {NoPid}, ~ (cur > 0), NEW st, ReadySlots(st) = {}
  PROVE  ~ Scan(st, cur, Turns).found /\ SwitchTargets(st, cur) = {}
<1>1. PICK run : Runs(run, st, cur) /\ Scan(st, cur, Turns) = run[Turns]
  BY ScanRuns
<1> DEFINE S == {k \in 0 .. Turns : \E x \in cur + 1 .. PROCESS_COUNT_MAX : run[k] = Scanning(x)}
<1>2. Turns \in Nat /\ PROCESS_COUNT_MAX \in Nat \ {0} /\ cur \in {-1, 0}
  BY ProcessCountAssumption DEF Turns, Slots, NoPid
<1>3. 0 \in S
  BY <1>1, <1>2 DEF Runs
<1>4. ASSUME NEW k \in 1 .. Turns, k - 1 \in S PROVE k \in S
  <2>1. PICK x \in cur + 1 .. PROCESS_COUNT_MAX : run[k - 1] = Scanning(x)
    BY <1>4
  <2>2. x # cur /\ Wrapped(x) \in Slots /\ Wrapped(x) + 1 \in cur + 1 .. PROCESS_COUNT_MAX
    BY <1>2 DEF Wrapped, Slots
  <2>3. st[Wrapped(x)] # "Ready"
    BY <2>2 DEF ReadySlots
  <2>4. Iteration(st, cur, Scanning(x)) = Scanning(Wrapped(x) + 1)
    BY <2>2, <2>3 DEF Iteration, Scanning
  <2>5. run[k] = Scanning(Wrapped(x) + 1)
    BY <1>1, <2>1, <2>4 DEF Runs
  <2>6. k \in 0 .. Turns
    BY <1>2
  <2>7. QED
    BY <2>2, <2>5, <2>6
<1>5. Turns \in S
  <2> HIDE DEF S
  <2>1. QED
    BY <1>3, <1>4, AlongTheScan
<1>6. ~ run[Turns].found
  <2>1. PICK x \in cur + 1 .. PROCESS_COUNT_MAX : run[Turns] = Scanning(x)
    BY <1>5
  <2>2. QED
    BY <2>1 DEF Scanning
<1>7. SwitchTargets(st, cur) = {}
  BY DEF SwitchTargets
<1>8. QED
  BY <1>1, <1>6, <1>7

LEMMA ScanIsRoundRobin ==
  ASSUME current_pid \in Slots \cup {NoPid}
  PROVE  ScanFindsTarget
<1> SUFFICES ASSUME NEW st \in [Slots -> {"Inactive", "Ready"}]
             PROVE  LET end == Scan(st, current_pid, Turns)
                    IN  IF SwitchTargets(st, current_pid) = {} THEN ~end.found
                        ELSE end.found /\ end.context_id \in SwitchTargets(st, current_pid)
  BY DEF ScanFindsTarget, Turns
<1>1. CASE ReadySlots(st) # {}
  BY <1>1, ScanReachesReady DEF FoundAt
<1>2. CASE ReadySlots(st) = {} /\ current_pid > 0
  <2>1. current_pid \in Slots
    BY <1>2 DEF NoPid
  <2>2. QED
    BY <1>2, <2>1, ScanComesRound DEF FoundAt
<1>3. CASE ReadySlots(st) = {} /\ ~ (current_pid > 0)
  BY <1>3, ScanSpins
<1>4. QED
  BY <1>1, <1>2, <1>3

(* The loop of the scheduler, whenever it may be entered, ends at the next  *)
(* ready process in turn, or spins where RoundRobin says it has none.       *)
THEOREM SchedulerFindsTarget == Spec => []ScanFindsTarget
<1>1. TypeOK => ScanFindsTarget
  BY ScanIsRoundRobin DEF TypeOK
<1>2. QED
  BY <1>1, TypeCorrect, PTL

-----------------------------------------------------------------------------
(* Creation and destruction implement the process table: each step of the  *)
(* kernel is, under the mapping of module KernelRefinement, a step of the   *)
(* table or no step at all.                                                 *)

(* The memory a created process needs is there beside what the others hold: *)
(* each page of each of them is a frame of its own, and none is frame 0.    *)
HeldPages == UNION {{p} \X (1 .. MemoryOf(p)) : p \in Slots}

LEMMA HeldFrames ==
  ASSUME KernelInv, pc = "read"
  PROVE  /\ Cardinality(HeldPages) + Needed <= PAGE_FRAME_MAX_COUNT - 1
         /\ Cardinality(HeldPages) \in Nat
<1> USE DEF KernelInv, CoreInv
<1> DEFINE New == {p_index} \X (1 .. Needed)
           All == HeldPages \cup New
           Home(c) == page_table[dir[c[1]]][c[2] - 1]
           f == [c \in All |-> Home(c)]
           T == 1 .. PAGE_FRAME_MAX_COUNT - 1
<1>1. /\ Needed \in Nat /\ Needed <= PROCESS_PAGE_FRAME_COUNT_MAX /\ p_index \in Slots
      /\ p_index \notin Live /\ dir[p_index] \in Dirs /\ page_directory_used[dir[p_index]]
      /\ \A p \in Live : dir[p] # dir[p_index]
      /\ \A v \in Pages : page_table[dir[p_index]][v] # NOT_PRESENT <=> v \in 0 .. Needed - 1
  BY NeededNat, InactiveIndexFree DEF CreateInv, Creating, CreatedPages, TypeOK
<1>0. /\ \A p \in Live : /\ p \in Slots /\ page_frame_used_count[p] \in Nat
                          /\ page_frame_used_count[p] <= PROCESS_PAGE_FRAME_COUNT_MAX
      /\ PROCESS_PAGE_FRAME_COUNT_MAX \in Nat
  BY PagingAssumption DEF TypeOK, Live
<1>2. \A c \in HeldPages : c[1] \in Live /\ c[2] \in 1 .. page_frame_used_count[c[1]] /\ c = <<c[1], c[2]>>
  BY <1>0 DEF HeldPages, MemoryOf
<1>3. \A c \in HeldPages : c[2] \in Nat /\ 1 <= c[2] /\ c[2] <= PROCESS_PAGE_FRAME_COUNT_MAX
  BY <1>0, <1>2
<1>4. \A c \in New : /\ c[1] = p_index /\ c = <<c[1], c[2]>>
                     /\ c[2] \in Nat /\ 1 <= c[2] /\ c[2] <= Needed
  BY <1>1
<1>5. HeldPages \cap New = {}
  BY <1>1, <1>2, <1>4
<1>6. IsFiniteSet(HeldPages) /\ IsFiniteSet(New) /\ Cardinality(New) = Needed
  <2>1. HeldPages \subseteq Slots \X (1 .. PROCESS_PAGE_FRAME_COUNT_MAX)
    BY <1>0, <1>2, <1>3
  <2>2. IsFiniteSet(Slots \X (1 .. PROCESS_PAGE_FRAME_COUNT_MAX))
    <3>1. IsFiniteSet(1 .. PROCESS_PAGE_FRAME_COUNT_MAX)
      BY <1>0, FS_Interval
    <3>2. QED
      BY <3>1, SlotsFinite, FS_Product
  <2>3. IsFiniteSet({p_index}) /\ Cardinality({p_index}) = 1
    BY FS_Singleton
  <2>4. IsFiniteSet(1 .. Needed) /\ Cardinality(1 .. Needed) = Needed
    BY <1>1, FS_Interval
  <2>5. IsFiniteSet(New) /\ Cardinality(New) = Cardinality({p_index}) * Cardinality(1 .. Needed)
    BY <2>3, <2>4, FS_Product, Zenon
  <2>6. IsFiniteSet(HeldPages)
    BY <2>1, <2>2, FS_Subset
  <2>7. QED
    BY <1>1, <2>3, <2>4, <2>5, <2>6
<1> HIDE DEF New
<1>7. Cardinality(All) = Cardinality(HeldPages) + Needed /\ Cardinality(HeldPages) \in Nat
  <2>1. Cardinality(All) = Cardinality(HeldPages) + Cardinality(New) - Cardinality(HeldPages \cap New)
    BY <1>6, FS_Union
  <2>2. Cardinality(HeldPages \cap New) = 0
    BY <1>5, FS_EmptySet
  <2>3. Cardinality(HeldPages) \in Nat
    BY <1>6, FS_CardinalityType
  <2>4. QED
    BY <1>1, <1>6, <2>1, <2>2, <2>3
<1>8. ASSUME NEW c \in All
      PROVE  /\ dir[c[1]] \in Dirs /\ c[2] - 1 \in Pages /\ MappedIn(dir[c[1]], c[2] - 1)
             /\ c[1] \in Live \cup {p_index} /\ c[2] \in Nat /\ c = <<c[1], c[2]>>
  <2>1. CASE c \in HeldPages
    <3>1. c[1] \in Live /\ c[2] \in Nat /\ c[2] - 1 \in Pages /\ c[2] - 1 \in PagesOf(c[1])
      BY <1>0, <1>2, <1>3, <2>1 DEF PagesOf, Pages
    <3>2. QED
      BY <1>2, <2>1, <3>1 DEF ProcessMemory, MappedIn
  <2>2. CASE c \in New
    <3>1. c[1] = p_index /\ c[2] \in Nat /\ c[2] - 1 \in Pages /\ c[2] - 1 \in 0 .. Needed - 1
      BY <1>0, <1>1, <1>4, <2>2 DEF Pages
    <3>2. QED
      BY <1>1, <1>4, <2>2, <3>1 DEF MappedIn
  <2>3. QED
    BY <2>1, <2>2
<1>9. f \in Injection(All, T)
  <2>1. ASSUME NEW c \in All PROVE Home(c) \in T
    <3>1. Home(c) \in Frames /\ Home(c) # 0
      BY <1>8 DEF PagingInv, PagingTypeOK, FrameIsolation, MappedIn
    <3>2. QED
      BY <3>1 DEF Frames
  <2>2. ASSUME NEW c \in All, NEW e \in All, Home(c) = Home(e) PROVE c = e
    <3>1. dir[c[1]] = dir[e[1]] /\ c[2] - 1 = e[2] - 1
      BY <1>8, <2>2 DEF PagingInv, FrameIsolation
    <3>2. c[1] = e[1]
      BY <1>1, <1>8, <3>1 DEF ProcessMemory
    <3>3. QED
      BY <1>8, <3>1, <3>2
  <2>3. QED
    BY <2>1, <2>2 DEF Injection, IsInjective
<1>10. IsFiniteSet(T) /\ Cardinality(T) = PAGE_FRAME_MAX_COUNT - 1
  BY FS_Interval, PagingAssumption
<1>11. Cardinality(All) <= Cardinality(T)
  <2> HIDE DEF f, All, T
  <2>1. QED
    BY <1>9, <1>10, FS_Injection
<1>12. QED
  BY <1>7, <1>10, <1>11
-----------------------------------------------------------------------------
(* The steps of the process table that the steps of the kernel are          *)

LEMMA TableInit == Init => Table!Init
BY DEF Init, Table!Init, NameOf, MemoryOf, Live, Table!Slots, Slots, NoName, Table!NoName, NoPid, Table!NoPid

(* When no process appears, disappears or changes its memory, and the       *)
(* processor stays where it is, nothing happens in the table.               *)
LEMMA TableStutter ==
  ASSUME UNCHANGED <<state, nama, page_frame_used_count, current_pid>>
  PROVE  UNCHANGED Table!vars
BY DEF Table!vars, NameOf, MemoryOf, Live

LEMMA CreateRefines ==
  ASSUME KernelInv, CreateReadSucceeds
  PROVE  Table!Create(p_index, request.name, Needed)
<1> USE DEF KernelInv, CoreInv
<1>1. /\ pc = "read" /\ p_index \in Slots /\ p_index \notin Live /\ IsInactiveIndex(p_index)
      /\ state[p_index] = "Inactive"
  BY InactiveIndexFree DEF CreateReadSucceeds, CreateInv, Creating, TypeOK
<1>2. /\ current_pid' = current_pid
      /\ state' = [state EXCEPT ![p_index] = "Ready"]
      /\ nama' = [nama EXCEPT ![p_index] = request.name]
      /\ page_frame_used_count' = [page_frame_used_count EXCEPT ![p_index] = Needed]
  BY DEF CreateReadSucceeds
<1>3. Live' = Live \cup {p_index}
  BY <1>1, <1>2 DEF Live, TypeOK
<1>4. \/ current_pid = NoPid /\ request.name = "shell"
      \/ current_pid # NoPid /\ NameOf(current_pid) = "shell" /\ current_pid \in Slots
  BY <1>1, CallerKept, SpecialValues DEF Creating, BootInv, RunnerInv, NameOf, Live
<1>5. NameOf(p_index) = NoName /\ \A q \in Slots : q < p_index => NameOf(q) # NoName
  BY <1>1 DEF NameOf, IsInactiveIndex, Live, NameInv, Slots
<1>6. Table!InUse + Needed <= PAGE_FRAME_MAX_COUNT - 1
  <2>1. Table!InUse = Cardinality(HeldPages)
    <3>1. \A S : Table!Cardinality(S) = Cardinality(S)
      BY DEF Table!Cardinality, Cardinality
    <3>2. UNION {{p} \X (1 .. [q \in Slots |-> MemoryOf(q)][p]) : p \in Slots} = HeldPages
      BY DEF HeldPages
    <3>3. QED
      BY <3>1, <3>2 DEF Table!InUse, Table!Slots, Slots
  <2>2. QED
    BY <1>1, <2>1, HeldFrames
<1>7. /\ [p \in Slots |-> NameOf(p)]' = [[p \in Slots |-> NameOf(p)] EXCEPT ![p_index] = request.name]
      /\ [p \in Slots |-> MemoryOf(p)]' = [[p \in Slots |-> MemoryOf(p)] EXCEPT ![p_index] = Needed]
  <2>1. \A p \in Slots : /\ NameOf(p)' = IF p = p_index THEN request.name ELSE NameOf(p)
                         /\ MemoryOf(p)' = IF p = p_index THEN Needed ELSE MemoryOf(p)
    BY <1>1, <1>2, <1>3 DEF NameOf, MemoryOf, TypeOK
  <2>2. QED
    BY <2>1
<1>8. QED
  BY <1>1, <1>2, <1>4, <1>5, <1>6, <1>7
  DEF Table!Create, Table!Present, Table!Slots, Slots, NoPid, Table!NoPid, NoName, Table!NoName

LEMMA DestroyRefines ==
  ASSUME KernelInv, DestroyFreeDirectory
  PROVE  Table!Destroy(p_index)
<1> USE DEF KernelInv, CoreInv
<1>1. pc = "destroy" /\ p_index \in Live /\ p_index \in Slots
  BY DEF DestroyFreeDirectory, Live, TypeOK
<1>2. /\ state' = [state EXCEPT ![p_index] = "Inactive"]
      /\ UNCHANGED <<current_pid, nama, page_frame_used_count>>
  BY <1>1 DEF DestroyFreeDirectory, ProcessMemory
<1>3. Live' = Live \ {p_index}
  BY <1>1, <1>2 DEF Live, TypeOK
<1>4. /\ current_pid \in Live /\ current_pid \in Slots /\ caller \in {"kill", "exit"}
      /\ caller = "kill" => nama[current_pid] = "shell"
      /\ caller = "exit" => p_index = current_pid /\ nama[current_pid] = "imm0"
  BY <1>1 DEF ControlInv, RunnerInv, CurrentGone, Halted, Live
<1>5. /\ current_pid # NoPid /\ NameOf(p_index) # NoName
      /\ NameOf(current_pid) = "shell" \/ (NameOf(current_pid) = "imm0" /\ p_index = current_pid)
  BY <1>1, <1>4, SpecialValues DEF NameOf, NameInv
<1>6. /\ [p \in Slots |-> NameOf(p)]' = [[p \in Slots |-> NameOf(p)] EXCEPT ![p_index] = NoName]
      /\ [p \in Slots |-> MemoryOf(p)]' = [[p \in Slots |-> MemoryOf(p)] EXCEPT ![p_index] = 0]
  <2>1. \A p \in Slots : /\ NameOf(p)' = IF p = p_index THEN NoName ELSE NameOf(p)
                         /\ MemoryOf(p)' = IF p = p_index THEN 0 ELSE MemoryOf(p)
    BY <1>1, <1>2, <1>3 DEF NameOf, MemoryOf
  <2>2. QED
    BY <2>1
<1>7. QED
  BY <1>1, <1>2, <1>4, <1>5, <1>6
  DEF Table!Destroy, Table!Present, Table!Slots, Slots, NoPid, Table!NoPid, NoName, Table!NoName

LEMMA SwitchRefines ==
  ASSUME KernelInv, BootReturn \/ ExitReturn \/ TimerInterrupt
  PROVE  UNCHANGED Table!vars \/ \E p \in Slots : Table!Dispatch(p)
<1> USE DEF KernelInv, CoreInv
<1>1. Live' = Live /\ (UNCHANGED current_pid \/ current_pid' \in Live)
  BY SwitchLive
<1>2. UNCHANGED <<nama, page_frame_used_count>>
  BY DEF BootReturn, ExitReturn, TimerInterrupt
<1>3. \A p \in Slots : NameOf(p)' = NameOf(p) /\ MemoryOf(p)' = MemoryOf(p)
  BY <1>1, <1>2 DEF NameOf, MemoryOf
<1>4. /\ [p \in Slots |-> NameOf(p)]' = [p \in Slots |-> NameOf(p)]
      /\ [p \in Slots |-> MemoryOf(p)]' = [p \in Slots |-> MemoryOf(p)]
  BY <1>3
<1>5. CASE UNCHANGED current_pid
  BY <1>4, <1>5 DEF Table!vars
<1>6. CASE current_pid' \in Live
  <2>1. current_pid' \in Slots /\ NameOf(current_pid') # NoName
    BY <1>6 DEF Live, NameOf, NameInv
  <2>2. Table!Dispatch(current_pid')
    BY <1>4, <2>1 DEF Table!Dispatch, Table!Present, NoName, Table!NoName
  <2>3. QED
    BY <2>1, <2>2
<1>7. QED
  BY <1>1, <1>5, <1>6

LEMMA TableStep == ASSUME KernelInv, [Next]_vars PROVE [Table!Next]_(Table!vars)
<1> USE DEF KernelInv, CoreInv
<1>1. CASE CreateReadSucceeds
  <2>1. /\ p_index \in Slots /\ request.name \in Programs
        /\ Needed \in {PageFrameCountNeeded(size) : size \in BufferSizes}
    BY <1>1 DEF CreateReadSucceeds, TypeOK, NameInv, Creating, Needed
  <2>2. QED
    BY <1>1, <2>1, CreateRefines DEF Table!Next, Table!Slots, Slots, Programs, Table!Programs
<1>2. CASE DestroyFreeDirectory
  <2>1. p_index \in Slots
    BY DEF TypeOK
  <2>2. QED
    BY <1>2, <2>1, DestroyRefines DEF Table!Next, Table!Slots, Slots
<1>3. CASE BootReturn \/ ExitReturn \/ TimerInterrupt
  BY <1>3, SwitchRefines DEF Table!Next, Table!Slots, Slots
<1>4. ASSUME ~UNCHANGED <<state, nama, page_frame_used_count, current_pid>>
      PROVE  \/ CreateReadSucceeds \/ DestroyFreeDirectory
             \/ BootReturn \/ ExitReturn \/ TimerInterrupt
  BY <1>4 DEF Next, vars, kernelVars, processVars, KernelStep, CreateStep, DestroyStep, ReturnStep, UserStep,
    CreateRefused, CreateChooseSlot, CreateAllocateFrame,
    CreateEnterNewDirectory, CreateReadFails, CreateUndoFrame, CreateFsReadFailure, DestroyInactive,
    DestroyFreeFrame, TlbMiss, StoreReturn, SyscallProcessCreate, SyscallKill, SyscallKillOutside, SyscallExit
<1>5. QED
  BY <1>1, <1>2, <1>3, <1>4, TableStutter

(* The kernel implements the process table: whatever the frames, the        *)
(* directories and the order of the calls, processes come whole, within the *)
(* memory there is, into the first empty slot, at the request of a shell,   *)
(* and go whole, at the request of a shell or by their own exit.            *)
THEOREM KernelImplementsProcessTable == Spec => ImplementsProcessTable
<1>1. Init => Table!Init
  BY TableInit
<1>2. KernelInv /\ [Next]_vars => [Table!Next]_(Table!vars)
  BY TableStep
<1>3. QED
  BY <1>1, <1>2, KernelInvHolds, PTL DEF Spec, ImplementsProcessTable, Table!Spec
=============================================================================
