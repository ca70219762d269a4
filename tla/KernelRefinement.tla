-------------------------- MODULE KernelRefinement --------------------------
(***************************************************************************)
(* Kernel, with its frames, directories and intermediate steps, implements *)
(* the process table of module ProcessTable: a process exists abstractly   *)
(* from the step that makes it Ready until the step that makes it          *)
(* Inactive, and holds the frames its control block counts.                *)
(***************************************************************************)
EXTENDS Kernel

NameOf(p)   == IF p \in Live THEN nama[p] ELSE NoName
MemoryOf(p) == IF p \in Live THEN page_frame_used_count[p] ELSE 0

Table == INSTANCE ProcessTable WITH
  CAPACITY <- PAGE_FRAME_MAX_COUNT - 1,
  Sizes    <- {PageFrameCountNeeded(size) : size \in BufferSizes},
  name     <- [p \in Slots |-> NameOf(p)],
  memory   <- [p \in Slots |-> MemoryOf(p)],
  cpu      <- current_pid

(* Every behaviour of the kernel, halting ones included, is a behaviour of  *)
(* the process table: processes come and go in one step, in the first empty *)
(* slot, within the memory there is, and only when a shell or the process   *)
(* itself asks for it.                                                      *)
ImplementsProcessTable == Table!Spec
=============================================================================
