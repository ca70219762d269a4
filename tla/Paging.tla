------------------------------- MODULE Paging -------------------------------
(***************************************************************************)
(* The page manager of the kernel: src/src/Paging/paging.c.                *)
(*                                                                         *)
(* It hands out 4 MiB page frames of physical memory and page directories  *)
(* taken from a static pool.  A page directory is modelled by the part the *)
(* kernel ever writes: its user entries (page_table) and the higher-half   *)
(* kernel entry 0x300 (kernel_mapped).  Every operation below is the whole *)
(* C function of the same name; it is a step of its own because the kernel *)
(* runs with interrupts disabled.                                          *)
(*                                                                         *)
(* PagingSpec is the contract of the page manager: what happens when its   *)
(* caller maps only absent entries and releases only empty directories.    *)
(* None of the C functions checks this; module Kernel shows that process   *)
(* creation and destruction keep to it.                                    *)
(***************************************************************************)
EXTENDS Integers, FiniteSets

CONSTANTS
  PAGE_FRAME_MAX_COUNT,              \* physical page frames (32 in the code)
  PAGING_DIRECTORY_TABLE_MAX_COUNT,  \* page directories in the pool (32)
  PROCESS_PAGE_FRAME_COUNT_MAX       \* user pages a process may have (8)

ASSUME PagingAssumption ==
  /\ PAGE_FRAME_MAX_COUNT \in Nat \ {0}
  /\ PAGING_DIRECTORY_TABLE_MAX_COUNT \in Nat \ {0}
  /\ PROCESS_PAGE_FRAME_COUNT_MAX \in Nat \ {0}

Frames == 0 .. PAGE_FRAME_MAX_COUNT - 1
Dirs   == 0 .. PAGING_DIRECTORY_TABLE_MAX_COUNT - 1
Pages  == 0 .. PROCESS_PAGE_FRAME_COUNT_MAX - 1   \* page v is address v * 4 MiB

NOT_PRESENT == -1    \* a page directory entry whose present bit is clear
NULL        == -1    \* no page directory

VARIABLES
  page_frame_map,         \* frame -> is it in use
  free_page_frame_count,  \* the counter kept beside the map
  page_directory_used,    \* directory -> is it handed out
  page_table,             \* directory -> page -> frame, or NOT_PRESENT
  kernel_mapped           \* directory -> is the higher-half kernel entry present

pagingVars == <<page_frame_map, free_page_frame_count, page_directory_used,
                page_table, kernel_mapped>>

FreeFrames == {f \in Frames : ~page_frame_map[f]}
FreeDirs   == {d \in Dirs : ~page_directory_used[d]}
NoPages    == [v \in Pages |-> NOT_PRESENT]

(* Frame 0 holds the kernel.  Directory 0 is statically filled like the     *)
(* boot directory although nobody has asked for it yet.                     *)
PagingInit ==
  /\ page_frame_map = [f \in Frames |-> f = 0]
  /\ free_page_frame_count = PAGE_FRAME_MAX_COUNT - 1
  /\ page_directory_used = [d \in Dirs |-> FALSE]
  /\ page_table = [d \in Dirs |-> [v \in Pages |-> IF d = 0 /\ v = 0 THEN 0 ELSE NOT_PRESENT]]
  /\ kernel_mapped = [d \in Dirs |-> d = 0]

-----------------------------------------------------------------------------
(* Operations *)

paging_allocate_check(amount) == amount <= free_page_frame_count

(* Mutant: the frame is mapped but not marked. *)
allocate_unmarked(d, v) ==
  /\ \E f \in FreeFrames :
       /\ \A g \in FreeFrames : f <= g
       /\ page_table' = IF d \in Dirs THEN [page_table EXCEPT ![d] = [@ EXCEPT ![v] = f]] ELSE page_table
  /\ UNCHANGED <<page_frame_map, free_page_frame_count, page_directory_used, kernel_mapped>>

(* The entry is overwritten whatever it held.  With a NULL directory the    *)
(* frame is spent and the entry is written to the user memory at address 0. *)
paging_allocate_user_page_frame(d, v) ==
  /\ IF paging_allocate_check(1) /\ FreeFrames # {}
     THEN \E f \in FreeFrames :
            /\ \A g \in FreeFrames : f <= g
            /\ page_frame_map' = [page_frame_map EXCEPT ![f] = TRUE]
            /\ free_page_frame_count' = free_page_frame_count - 1
            /\ page_table' = IF d \in Dirs
                             THEN [page_table EXCEPT ![d] = [@ EXCEPT ![v] = f]]
                             ELSE page_table
     ELSE UNCHANGED <<page_frame_map, free_page_frame_count, page_table>>
  /\ UNCHANGED <<page_directory_used, kernel_mapped>>

(* Mutant: the counter is not incremented. *)
free_uncounted(d, v) ==
  /\ IF page_table[d][v] # NOT_PRESENT
     THEN /\ page_frame_map' = [page_frame_map EXCEPT ![page_table[d][v]] = FALSE]
          /\ page_table' = [page_table EXCEPT ![d] = [@ EXCEPT ![v] = NOT_PRESENT]]
     ELSE UNCHANGED <<page_frame_map, page_table>>
  /\ UNCHANGED <<free_page_frame_count, page_directory_used, kernel_mapped>>

paging_free_user_page_frame(d, v) ==
  /\ IF page_table[d][v] # NOT_PRESENT
     THEN /\ page_frame_map' = [page_frame_map EXCEPT ![page_table[d][v]] = FALSE]
          /\ free_page_frame_count' = free_page_frame_count + 1
          /\ page_table' = [page_table EXCEPT ![d] = [@ EXCEPT ![v] = NOT_PRESENT]]
     ELSE UNCHANGED <<page_frame_map, free_page_frame_count, page_table>>
  /\ UNCHANGED <<page_directory_used, kernel_mapped>>

(* Mutant: the directory is not marked used. *)
create_directory_unmarked(d) ==
  /\ d \in FreeDirs /\ \A e \in FreeDirs : d <= e
  /\ page_table' = [page_table EXCEPT ![d] = NoPages]
  /\ kernel_mapped' = [kernel_mapped EXCEPT ![d] = TRUE]
  /\ UNCHANGED <<page_frame_map, free_page_frame_count, page_directory_used>>

(* The result d is the lowest unused directory, or NULL when all are used. *)
paging_create_new_page_directory(d) ==
  /\ IF FreeDirs # {}
     THEN /\ d \in FreeDirs
          /\ \A e \in FreeDirs : d <= e
          /\ page_directory_used' = [page_directory_used EXCEPT ![d] = TRUE]
          /\ page_table' = [page_table EXCEPT ![d] = NoPages]
          /\ kernel_mapped' = [kernel_mapped EXCEPT ![d] = TRUE]
     ELSE /\ d = NULL
          /\ UNCHANGED <<page_directory_used, page_table, kernel_mapped>>
  /\ UNCHANGED <<page_frame_map, free_page_frame_count>>

(* The whole directory is zeroed, the kernel entry included; frames that    *)
(* are still mapped are not given back.                                     *)
paging_free_page_directory(d) ==
  /\ page_directory_used' = [page_directory_used EXCEPT ![d] = FALSE]
  /\ page_table' = [page_table EXCEPT ![d] = NoPages]
  /\ kernel_mapped' = [kernel_mapped EXCEPT ![d] = FALSE]
  /\ UNCHANGED <<page_frame_map, free_page_frame_count>>

-----------------------------------------------------------------------------
(* The page manager under a caller that keeps its side of the contract *)

AllocateAbsent(d, v) ==
  /\ d \in Dirs => page_directory_used[d] /\ page_table[d][v] = NOT_PRESENT
  /\ paging_allocate_user_page_frame(d, v)

FreeUsed(d, v) == page_directory_used[d] /\ paging_free_user_page_frame(d, v)

FreeEmptyDirectory(d) ==
  /\ page_directory_used[d]
  /\ page_table[d] = NoPages
  /\ paging_free_page_directory(d)

PagingNext ==
  \/ \E d \in Dirs \cup {NULL} : paging_create_new_page_directory(d)
  \/ \E d \in Dirs \cup {NULL}, v \in Pages : AllocateAbsent(d, v)
  \/ \E d \in Dirs, v \in Pages : FreeUsed(d, v)
  \/ \E d \in Dirs : FreeEmptyDirectory(d)

PagingSpec == PagingInit /\ [][PagingNext]_pagingVars

-----------------------------------------------------------------------------
(* Properties *)

PagingTypeOK ==
  /\ page_frame_map \in [Frames -> BOOLEAN]
  /\ free_page_frame_count \in Nat
  /\ page_directory_used \in [Dirs -> BOOLEAN]
  /\ page_table \in [Dirs -> [Pages -> Frames \cup {NOT_PRESENT}]]
  /\ kernel_mapped \in [Dirs -> BOOLEAN]

(* The free counter, on which paging_allocate_check decides, agrees with    *)
(* the frame map it is kept beside: no path counts a frame twice, frees a   *)
(* frame twice, or changes one without the other.                           *)
FrameAccounting == free_page_frame_count = Cardinality(FreeFrames)

MappedIn(d, v) == page_directory_used[d] /\ page_table[d][v] # NOT_PRESENT

(* Memory isolation: a frame a directory maps is marked in use, is not the  *)
(* kernel's frame 0, and is mapped by no other entry of any directory that  *)
(* is handed out.                                                           *)
FrameIsolation ==
  \A d, e \in Dirs : \A v, w \in Pages :
    MappedIn(d, v) =>
      /\ page_frame_map[page_table[d][v]]
      /\ page_table[d][v] # 0
      /\ MappedIn(e, w) /\ page_table[e][w] = page_table[d][v] => e = d /\ w = v

(* Inductive: the counter alone is not, because freeing a frame that was    *)
(* already free, or frame 0, would break it; isolation excludes both.       *)
PagingInv ==
  /\ PagingTypeOK
  /\ FrameAccounting
  /\ FrameIsolation
  /\ page_frame_map[0]
=============================================================================
