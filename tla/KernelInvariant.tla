--------------------------- MODULE KernelInvariant ---------------------------
(***************************************************************************)
(* The inductive invariant of Kernel.  The properties of module Kernel     *)
(* speak of the moments between system calls, or of one piece of state;    *)
(* what makes them hold in the middle of process_create_user_process and   *)
(* process_destroy is spelled out here.  Module KernelProofs proves that   *)
(* every step preserves it.                                                *)
(***************************************************************************)
EXTENDS Kernel

(* process_create_user_process has chosen a slot and not yet returned.      *)
Creating == pc \in {"allocate", "read", "undo"}

(* The pages the new directory maps at that point.                          *)
CreatedPages ==
  (IF pc = "undo" THEN page ELSE 0) .. (IF pc = "allocate" THEN page ELSE Needed) - 1

(* The directory of whoever called the kernel: active but for read().       *)
HomeDir == IF pc = "read" THEN curr_dir ELSE cr3

(* The current process has been destroyed by the call in progress.          *)
CurrentGone == current_pid \in Slots /\ state[current_pid] = "Inactive"

(* Who can be where in the kernel.                                          *)
ControlInv ==
  /\ pc # "cancel"
  /\ pc = "user" => caller = NoCaller
  /\ caller = NoCaller => pc \in {"user"} \cup Halted
  /\ pc = "create" \/ Creating => caller \in {"boot", "exec"}
  /\ pc = "destroy" => caller \in {"kill", "exit"}

(* During boot there is no process; the first one is a shell.               *)
BootInv ==
  pc \notin Halted /\ caller = "boot" =>
    /\ current_pid = NoPid
    /\ request.name = "shell"
    /\ HomeDir = KERNEL_DIR
    /\ pc # "return" => Live = {}
    /\ \A p \in Live : state[p] = "Ready" /\ nama[p] = "shell"

(* After boot the kernel works for the current process, which is Running    *)
(* unless the call has destroyed it.                                        *)
RunnerInv ==
  pc \notin Halted /\ caller # "boot" =>
    /\ current_pid \in Slots
    /\ \A p \in Slots : state[p] = "Running" => p = current_pid
    /\ CurrentGone => pc = "return" /\ caller \in {"kill", "exit"} /\ p_index = current_pid
    /\ ~CurrentGone => state[current_pid] = "Running"
    /\ caller # "exit" => HomeDir = dir[current_pid]
    /\ caller \in {"exec", "kill"} => nama[current_pid] = "shell"
    /\ caller = "exit" => p_index = current_pid /\ nama[current_pid] = "imm0"
    /\ caller = "exit" /\ pc = "return" => CurrentGone
    /\ caller = "kill" /\ CurrentGone => ~MapsUser(cr3)
    /\ ~(caller = "kill" /\ CurrentGone) => \E p \in Live : nama[p] = "shell"

(* The slot and the directory that process_create_user_process is filling   *)
(* belong to nobody else, and the frames it has still to take are there.    *)
CreateInv ==
  Creating =>
    /\ Needed <= PROCESS_PAGE_FRAME_COUNT_MAX /\ page <= Needed
    /\ IsInactiveIndex(p_index)
    /\ pc = "allocate" => Needed - page <= free_page_frame_count
    /\ pc # "allocate" => dir[p_index] \in Dirs
    /\ dir[p_index] \in Dirs =>
         /\ page_directory_used[dir[p_index]] /\ kernel_mapped[dir[p_index]]
         /\ \A p \in Live : dir[p] # dir[p_index]
         /\ \A v \in Pages : page_table[dir[p_index]][v] # NOT_PRESENT <=> v \in CreatedPages

DestroyInv ==
  pc = "destroy" => page = 0 \/ (state[p_index] # "Inactive" /\ page <= page_frame_used_count[p_index])

(* Only processes, and the one being created, map frames ...                *)
MappedByOwner ==
  \A d \in Dirs, v \in Pages :
    MappedIn(d, v) => (\E p \in Live : dir[p] = d) \/ (Creating /\ dir[p_index] = d)

(* ... and every frame in use is the kernel's or is mapped, except while    *)
(* frames are spent on a directory that could not be had.                   *)
FramesMapped ==
  pc \notin Halted /\ ~(pc = "allocate" /\ dir[p_index] \notin Dirs) =>
    \A f \in Frames :
      page_frame_map[f] /\ f # 0 => \E d \in Dirs, v \in Pages : MappedIn(d, v) /\ page_table[d][v] = f

(* Why the kernel stops only where HaltCauses says: a process has a page to *)
(* store a return code in, a missing directory means that none was left,    *)
(* and exit works in the directory saved in slot 0.                         *)
HaltInv ==
  /\ \A p \in Live : page_frame_used_count[p] > 0
  /\ Creating /\ dir[p_index] \notin Dirs => FreeDirs = {}
  /\ caller = "exit" /\ pc \in {"destroy", "return"} => cr3 = dir[0]

(* A process is named after the program it was created for.                 *)
NameInv ==
  /\ \A p \in Live : nama[p] # NoName
  /\ pc = "create" \/ Creating => request.name # NoName

(* Inductive on its own; HaltInv and NameInv are inductive beside it.       *)
CoreInv ==
  /\ TypeOK
  /\ PagingInv
  /\ ActiveCountExact
  /\ PidIsSlot
  /\ ProcessMemory
  /\ KernelStaysMapped
  /\ ControlInv
  /\ BootInv
  /\ RunnerInv
  /\ CreateInv
  /\ DestroyInv
  /\ MappedByOwner
  /\ FramesMapped

(* TLC checks this on small instances, TLAPS proves it for all.             *)
KernelInv == CoreInv /\ HaltInv /\ NameInv
=============================================================================
