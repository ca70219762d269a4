---------------------------- MODULE PagingProofs ----------------------------
(***************************************************************************)
(* Proofs about the page manager (module Paging), for every number of      *)
(* frames, directories and pages: under callers that keep the contract the *)
(* counter agrees with the map and no frame is mapped twice.               *)
(***************************************************************************)
EXTENDS Paging, FiniteSetTheorems, TLAPS

(* The free frames are a finite set, whatever the map says.                 *)
LEMMA FreeFramesFinite == IsFiniteSet(FreeFrames)
<1>1. IsFiniteSet(Frames)
  BY FS_Interval, PagingAssumption DEF Frames
<1>2. QED
  BY <1>1, FS_Subset DEF FreeFrames

(* Nothing changes, nothing breaks. *)
LEMMA PagingStutterInv == PagingInv /\ UNCHANGED pagingVars => PagingInv'
BY DEF PagingInv, pagingVars, PagingTypeOK, FrameAccounting, FreeFrames, FrameIsolation, MappedIn

LEMMA PagingInitInv == PagingInit => PagingInv
<1> SUFFICES ASSUME PagingInit PROVE PagingInv
  OBVIOUS
<1> USE PagingAssumption
<1>1. 0 \in Frames /\ \A f \in Frames : f \in Int
  BY DEF Frames
<1>2. PagingTypeOK
  BY <1>1 DEF PagingInit, PagingTypeOK
<1>3. FrameAccounting
  <2>1. FreeFrames = 1 .. PAGE_FRAME_MAX_COUNT - 1
    <3>1. FreeFrames = {f \in Frames : f # 0}
      BY Zenon DEF FreeFrames, PagingInit
    <3>2. QED
      BY <3>1 DEF Frames
  <2>2. Cardinality(1 .. PAGE_FRAME_MAX_COUNT - 1) = PAGE_FRAME_MAX_COUNT - 1
    <3>1. CASE PAGE_FRAME_MAX_COUNT - 1 >= 1
      BY <3>1, FS_Interval
    <3>2. CASE PAGE_FRAME_MAX_COUNT = 1
      <4>1. 1 .. PAGE_FRAME_MAX_COUNT - 1 = {}
        BY <3>2
      <4>2. QED
        BY <3>2, <4>1, FS_EmptySet
    <3>3. QED
      BY <3>1, <3>2
  <2>3. QED
    BY <2>1, <2>2 DEF FrameAccounting, PagingInit
<1>4. FrameIsolation
  BY DEF FrameIsolation, MappedIn, PagingInit
<1>5. QED
  BY <1>1, <1>2, <1>3, <1>4 DEF PagingInv, PagingInit

(* Taking the lowest free frame keeps the invariant: the frame was free, so *)
(* nobody maps it.                                                          *)
LEMMA AllocatePreservesInv ==
  ASSUME PagingInv, NEW d \in Dirs \cup {NULL}, NEW v \in Pages, AllocateAbsent(d, v)
  PROVE  PagingInv'
<1> USE DEF AllocateAbsent, paging_allocate_user_page_frame
<1> NULL \notin Dirs /\ NOT_PRESENT \notin Frames
  BY DEF NULL, NOT_PRESENT, Dirs, Frames
<1>1. CASE ~(paging_allocate_check(1) /\ FreeFrames # {})
  <2>1. UNCHANGED pagingVars
    BY <1>1, Zenon DEF pagingVars
  <2>2. QED
    BY <2>1, PagingStutterInv
<1>2. CASE paging_allocate_check(1) /\ FreeFrames # {}
  <2>1. PICK f \in FreeFrames :
          /\ page_frame_map' = [page_frame_map EXCEPT ![f] = TRUE]
          /\ free_page_frame_count' = free_page_frame_count - 1
          /\ page_table' = IF d \in Dirs
                           THEN [page_table EXCEPT ![d] = [@ EXCEPT ![v] = f]]
                           ELSE page_table
    BY <1>2
  <2>2. f \in Frames /\ ~page_frame_map[f]
    BY DEF FreeFrames
  <2>3. free_page_frame_count \in Nat /\ free_page_frame_count >= 1
    BY <1>2 DEF PagingInv, PagingTypeOK, paging_allocate_check
  <2>4. UNCHANGED <<page_directory_used, kernel_mapped>>
    OBVIOUS
  <2>5. PagingTypeOK'
    BY <2>1, <2>2, <2>3, <2>4 DEF PagingInv, PagingTypeOK
  <2>6. FrameAccounting'
    <3>1. FreeFrames' = FreeFrames \ {f}
      BY <2>1, <2>2 DEF FreeFrames, PagingInv, PagingTypeOK
    <3>2. Cardinality(FreeFrames \ {f}) = Cardinality(FreeFrames) - 1
      BY FreeFramesFinite, FS_RemoveElement
    <3>3. QED
      BY <2>1, <3>1, <3>2 DEF FrameAccounting, PagingInv
  <2>7. FrameIsolation'
    <3> SUFFICES ASSUME NEW a \in Dirs, NEW b \in Dirs, NEW x \in Pages, NEW y \in Pages,
                        MappedIn(a, x)'
                 PROVE  /\ page_frame_map'[page_table'[a][x]]
                        /\ page_table'[a][x] # 0
                        /\ MappedIn(b, y)' /\ page_table'[b][y] = page_table'[a][x] => b = a /\ y = x
      BY DEF FrameIsolation
    <3>1. \A c \in Dirs, z \in Pages :
            page_table'[c][z] = IF c = d /\ z = v THEN f ELSE page_table[c][z]
      BY <2>1 DEF PagingInv, PagingTypeOK
    <3>2. \A c \in Dirs, z \in Pages :
            MappedIn(c, z) => page_table[c][z] \in Frames /\ page_frame_map[page_table[c][z]]
                              /\ page_table[c][z] # f
      BY <2>2 DEF PagingInv, PagingTypeOK, FrameIsolation, MappedIn
    <3>3. f # 0
      BY <2>2 DEF PagingInv
    <3>4. page_frame_map'[f] /\ \A g \in Frames : page_frame_map[g] => page_frame_map'[g]
      BY <2>1, <2>2 DEF PagingInv, PagingTypeOK
    <3>5. \A c \in Dirs, z \in Pages :
            MappedIn(c, z)' => (c = d /\ z = v) \/ MappedIn(c, z)
      BY <2>4, <3>1 DEF MappedIn
    <3>6. CASE a = d /\ x = v
      BY <3>1, <3>2, <3>3, <3>4, <3>5, <3>6
    <3>7. CASE ~(a = d /\ x = v)
      <4>1. MappedIn(a, x) /\ page_table'[a][x] = page_table[a][x]
        BY <3>1, <3>5, <3>7
      <4>2. page_frame_map'[page_table'[a][x]] /\ page_table'[a][x] # 0
        BY <4>1, <3>2, <3>4 DEF PagingInv, FrameIsolation
      <4>3. ASSUME MappedIn(b, y)', page_table'[b][y] = page_table'[a][x] PROVE b = a /\ y = x
        <5>1. ~(b = d /\ y = v)
          BY <3>1, <3>2, <4>1, <4>3
        <5>2. MappedIn(b, y) /\ page_table[b][y] = page_table[a][x]
          BY <3>1, <3>5, <4>1, <4>3, <5>1
        <5>3. QED
          BY <4>1, <5>2 DEF PagingInv, FrameIsolation
      <4>4. QED
        BY <4>2, <4>3
    <3>8. QED
      BY <3>6, <3>7
  <2>8. page_frame_map'[0]
    BY <2>1 DEF PagingInv, PagingTypeOK
  <2>9. QED
    BY <2>5, <2>6, <2>7, <2>8 DEF PagingInv
<1>3. QED
  BY <1>1, <1>2

(* Giving a frame back keeps the invariant: the frame was in use and is not *)
(* frame 0, and nobody else maps it.                                        *)
LEMMA FreePreservesInv ==
  ASSUME PagingInv, NEW d \in Dirs, NEW v \in Pages, FreeUsed(d, v)
  PROVE  PagingInv'
<1> USE DEF FreeUsed, paging_free_user_page_frame
<1> NOT_PRESENT \notin Frames
  BY DEF NOT_PRESENT, Frames
<1>1. CASE page_table[d][v] = NOT_PRESENT
  BY <1>1, PagingStutterInv DEF pagingVars
<1>2. CASE page_table[d][v] # NOT_PRESENT
  <2> DEFINE f == page_table[d][v]
  <2>1. MappedIn(d, v)
    BY <1>2 DEF MappedIn
  <2>2. f \in Frames /\ page_frame_map[f] /\ f # 0
    BY <1>2, <2>1 DEF PagingInv, PagingTypeOK, FrameIsolation
  <2>3. /\ page_frame_map' = [page_frame_map EXCEPT ![f] = FALSE]
        /\ free_page_frame_count' = free_page_frame_count + 1
        /\ page_table' = [page_table EXCEPT ![d] = [@ EXCEPT ![v] = NOT_PRESENT]]
        /\ UNCHANGED <<page_directory_used, kernel_mapped>>
    BY <1>2
  <2>4. PagingTypeOK'
    BY <2>2, <2>3 DEF PagingInv, PagingTypeOK
  <2>5. FrameAccounting'
    <3>1. FreeFrames' = FreeFrames \cup {f} /\ f \notin FreeFrames
      BY <2>2, <2>3 DEF FreeFrames, PagingInv, PagingTypeOK
    <3>2. Cardinality(FreeFrames \cup {f}) = Cardinality(FreeFrames) + 1
      BY <3>1, FreeFramesFinite, FS_AddElement
    <3>3. QED
      BY <2>3, <3>1, <3>2 DEF FrameAccounting, PagingInv
  <2>6. FrameIsolation'
    <3>1. \A c \in Dirs, z \in Pages :
            page_table'[c][z] = IF c = d /\ z = v THEN NOT_PRESENT ELSE page_table[c][z]
      BY <2>3 DEF PagingInv, PagingTypeOK
    <3>2. \A c \in Dirs, z \in Pages :
            MappedIn(c, z)' => MappedIn(c, z) /\ page_table'[c][z] = page_table[c][z]
                               /\ page_table[c][z] # f
      BY <2>1, <2>3, <3>1 DEF MappedIn, PagingInv, FrameIsolation
    <3>3. \A g \in Frames : g # f => page_frame_map'[g] = page_frame_map[g]
      BY <2>2, <2>3 DEF PagingInv, PagingTypeOK
    <3>4. QED
      BY <3>2, <3>3 DEF PagingInv, PagingTypeOK, FrameIsolation, MappedIn
  <2>7. page_frame_map'[0]
    BY <2>2, <2>3 DEF PagingInv, PagingTypeOK
  <2>8. QED
    BY <2>4, <2>5, <2>6, <2>7 DEF PagingInv
<1>3. QED
  BY <1>1, <1>2

(* Directories come and go empty, so the mappings of the others are all     *)
(* there is.                                                                *)
LEMMA DirectoryPreservesInv ==
  ASSUME PagingInv, NEW d \in Dirs \cup {NULL},
         paging_create_new_page_directory(d) \/ (d \in Dirs /\ FreeEmptyDirectory(d))
  PROVE  PagingInv'
<1> USE DEF paging_create_new_page_directory, FreeEmptyDirectory, paging_free_page_directory
<1>1. UNCHANGED <<page_frame_map, free_page_frame_count>>
  OBVIOUS
<1>2. NoPages \in [Pages -> Frames \cup {NOT_PRESENT}] /\ \A v \in Pages : NoPages[v] = NOT_PRESENT
  BY DEF NoPages
<1>3. PagingTypeOK'
  BY <1>1, <1>2 DEF PagingInv, PagingTypeOK
<1>4. FrameAccounting'
  BY <1>1 DEF PagingInv, FrameAccounting, FreeFrames
<1>5. \A c \in Dirs, z \in Pages :
        MappedIn(c, z)' => MappedIn(c, z) /\ page_table'[c][z] = page_table[c][z]
  BY <1>2 DEF MappedIn, PagingInv, PagingTypeOK
<1>6. FrameIsolation'
  BY <1>1, <1>5 DEF PagingInv, FrameIsolation
<1>7. QED
  BY <1>1, <1>3, <1>4, <1>6 DEF PagingInv

LEMMA PagingStepInv == PagingInv /\ [PagingNext]_pagingVars => PagingInv'
<1> SUFFICES ASSUME PagingInv, [PagingNext]_pagingVars PROVE PagingInv'
  OBVIOUS
<1>1. CASE UNCHANGED pagingVars
  BY <1>1, PagingStutterInv
<1>2. ASSUME NEW d \in Dirs \cup {NULL}, paging_create_new_page_directory(d) PROVE PagingInv'
  BY <1>2, DirectoryPreservesInv
<1>3. ASSUME NEW d \in Dirs \cup {NULL}, NEW v \in Pages, AllocateAbsent(d, v) PROVE PagingInv'
  BY <1>3, AllocatePreservesInv
<1>4. ASSUME NEW d \in Dirs, NEW v \in Pages, FreeUsed(d, v) PROVE PagingInv'
  BY <1>4, FreePreservesInv
<1>5. ASSUME NEW d \in Dirs, FreeEmptyDirectory(d) PROVE PagingInv'
  BY <1>5, DirectoryPreservesInv
<1>6. QED
  BY <1>1, <1>2, <1>3, <1>4, <1>5 DEF PagingNext

(* The free counter agrees with the frame map in every state of the page    *)
(* manager, for any number of frames: paging_allocate_check decides on the  *)
(* truth.                                                                   *)
THEOREM FrameAccountingHolds == PagingSpec => []FrameAccounting
<1>1. PagingInv => FrameAccounting
  BY DEF PagingInv
<1>2. QED
  BY <1>1, PagingInitInv, PagingStepInv, PTL DEF PagingSpec

(* No frame is ever mapped by two entries of directories that are handed    *)
(* out, and never the kernel's.                                             *)
THEOREM FrameIsolationHolds == PagingSpec => []FrameIsolation
<1>1. PagingInv => FrameIsolation
  BY DEF PagingInv
<1>2. QED
  BY <1>1, PagingInitInv, PagingStepInv, PTL DEF PagingSpec

(* The state of the page manager keeps its shape.                           *)
THEOREM PagingTypeCorrect == PagingSpec => []PagingTypeOK
<1>1. PagingInv => PagingTypeOK
  BY DEF PagingInv
<1>2. QED
  BY <1>1, PagingInitInv, PagingStepInv, PTL DEF PagingSpec
=============================================================================
