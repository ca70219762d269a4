-------------------------------- MODULE Fat32 --------------------------------
(***************************************************************************)
(* The FAT32 driver: src/src/filesystem/fat32.c, over the disk of          *)
(* src/src/filesystem/disk.c.                                              *)
(*                                                                         *)
(* The driver keeps the file allocation table in memory (fat) and writes   *)
(* it back at the end of every operation that changed it.  An operation    *)
(* runs to its end with interrupts off, so nothing interleaves with it but *)
(* a loss of power: a call below computes the memory it leaves and the     *)
(* disk writes it makes, in their order, and the writes then reach the     *)
(* disk one at a time (DiskWrite).  Reads inside an operation happen       *)
(* before its writes, or see clusters it has not written.                  *)
(*                                                                         *)
(* The bytes of cluster k of a file are a token made of the file's name,   *)
(* its extension and k, so that no two files have a cluster alike.  Sizes  *)
(* count clusters: the driver itself rounds filesize up to whole clusters. *)
(***************************************************************************)
EXTENDS Integers, Sequences, FiniteSets

CONSTANTS
  CLUSTER_MAP_SIZE,   \* clusters of the disk (512 in the code)
  DIR_SLOTS,          \* entries of a directory table (64)
  FAT_BLOCK,          \* allocation table entries in one disk block (128)
  Names, Exts,        \* names and extensions callers use; NoExt is "\0\0\0"
  MaxSize             \* clusters of the largest file callers write

DIR_TABLE_SIZE == 1   \* clusters of a directory table

NoExt    == "-"
RootName == "root"

ASSUME Fat32Assumption ==
  /\ CLUSTER_MAP_SIZE \in Nat /\ CLUSTER_MAP_SIZE > 3
  /\ DIR_SLOTS \in Nat /\ DIR_SLOTS > 2
  /\ FAT_BLOCK \in Nat \ {0}
  /\ NoExt \in Exts /\ RootName \notin Names
  /\ MaxSize \in Nat \ {0}

Clusters     == 0 .. CLUSTER_MAP_SIZE - 1
DataClusters == 2 .. CLUSTER_MAP_SIZE - 1    \* 0: boot sector, 1: the FAT
Root         == 2
Slots        == 0 .. DIR_SLOTS - 1

FAT32_FAT_EMPTY_ENTRY == 0
FAT32_FAT_END_OF_FILE == -1     \* also CLUSTER_1_VALUE
CLUSTER_0_VALUE       == -2     \* an index far outside the table

(* Directory entries.  An entry is in use when its user_attribute is        *)
(* UATTR_NOT_EMPTY; the other bytes of an unused one do not matter.         *)
Entry(name, ext, isdir, cluster, size) ==
  [name |-> name, ext |-> ext, dir |-> isdir, cluster |-> cluster, filesize |-> size]
NoName   == ""
NoEntry  == Entry(NoName, NoExt, FALSE, 0, 0)
InUse(e) == e # NoEntry

(* The content of a cluster: file data, or a directory table.  Zeroes, and  *)
(* file data, read as a table without entries.                              *)
NoTable == [s \in Slots |-> NoEntry]
NoData  == <<>>
Zeroes  == [data |-> NoData, table |-> NoTable]
Bytes(name, ext, k) == <<name, ext, k>>
DataCluster(name, ext, k) == [data |-> Bytes(name, ext, k), table |-> NoTable]
TableCluster(t) == [data |-> NoData, table |-> t]

VARIABLES
  signature,  \* does the boot sector hold fs_signature
  disk_fat,   \* cluster 1 on disk, the file allocation table
  disk,       \* the other clusters on disk
  mode,       \* "off", "up", or "hang" when the kernel faults in the driver
  fat,        \* fat32_driver.fat_table.cluster_map, in memory
  pending,    \* disk writes the operation in progress has still to make
  target,     \* the entry that operation creates or removes
  result      \* the code it returns

diskVars == <<signature, disk_fat, disk>>
vars == <<diskVars, mode, fat, pending, target, result>>

Idle == mode = "up" /\ pending = <<>>

NoFat    == [c \in Clusters |-> FAT32_FAT_EMPTY_ENTRY]
NoTarget == <<>>

(* A new disk is all zeroes. *)
Init ==
  /\ signature = FALSE
  /\ disk_fat = NoFat
  /\ disk = [c \in DataClusters |-> Zeroes]
  /\ mode = "off" /\ fat = NoFat
  /\ pending = <<>> /\ target = NoTarget /\ result = 0

-----------------------------------------------------------------------------
(* Disk writes *)

WriteBoot(b)       == [what |-> "boot", signature |-> b]
WriteCluster(c, x) == [what |-> "cluster", cluster |-> c, content |-> x]
WriteFatBlock(b, f) == [what |-> "fat", block |-> b, fat |-> f]
Fault              == [what |-> "fault"]

(* Mutant: only whole disk blocks are written. *)
whole_blocks_only(f) ==
  [b \in 1 .. (CLUSTER_MAP_SIZE \div FAT_BLOCK) |-> WriteFatBlock(b - 1, f)]

(* write_cluster_map, one disk block after the other. *)
write_cluster_map(f) ==
  [b \in 1 .. ((CLUSTER_MAP_SIZE + FAT_BLOCK - 1) \div FAT_BLOCK) |-> WriteFatBlock(b - 1, f)]

DiskWrite ==
  /\ mode = "up" /\ pending # <<>>
  /\ LET w == Head(pending) IN
       /\ signature' = IF w.what = "boot" THEN w.signature ELSE signature
       /\ disk' = IF w.what = "cluster" THEN [disk EXCEPT ![w.cluster] = w.content] ELSE disk
       /\ disk_fat' = IF w.what = "fat"
                      THEN [c \in Clusters |-> IF c \div FAT_BLOCK = w.block THEN w.fat[c] ELSE disk_fat[c]]
                      ELSE disk_fat
       /\ mode' = IF w.what = "fault" THEN "hang" ELSE mode
  /\ pending' = Tail(pending)
  /\ target' = IF Len(pending) = 1 THEN NoTarget ELSE target
  /\ UNCHANGED <<fat, result>>

(* Power is lost, in the middle of an operation or between two. *)
PowerLoss ==
  /\ mode # "off"
  /\ mode' = "off" /\ fat' = NoFat
  /\ pending' = <<>> /\ target' = NoTarget /\ result' = 0
  /\ UNCHANGED diskVars

-----------------------------------------------------------------------------
(* Mounting *)

(* create_directory_table: slot 0 names the directory itself, slot 1 its    *)
(* parent.                                                                  *)
DirectoryTable(name, self, parentname, parent) ==
  [s \in Slots |-> CASE s = 0 -> Entry(name, NoExt, TRUE, self, 0)
                     [] s = 1 -> Entry(parentname, NoExt, TRUE, parent, 0)
                     [] OTHER -> NoEntry]

(* Mutant: clusters 0 and 1 are not reserved. *)
UnreservedFat == [c \in Clusters |-> IF c = Root THEN FAT32_FAT_END_OF_FILE ELSE FAT32_FAT_EMPTY_ENTRY]

FreshFat == [c \in Clusters |-> CASE c = 0 -> CLUSTER_0_VALUE
                                  [] c \in {1, Root} -> FAT32_FAT_END_OF_FILE
                                  [] OTHER -> FAT32_FAT_EMPTY_ENTRY]

(* create_fat32: the root cluster is written twice, first without entries   *)
(* in use; the allocation table stays in memory.                            *)
create_fat32 ==
  /\ fat' = FreshFat
  /\ pending' = <<WriteBoot(TRUE), WriteCluster(Root, Zeroes),
                  WriteCluster(Root, TableCluster(DirectoryTable(RootName, Root, RootName, Root)))>>

initialize_filesystem_fat32 ==
  /\ mode = "off"
  /\ mode' = "up"
  /\ IF signature THEN fat' = disk_fat /\ pending' = <<>> ELSE create_fat32
  /\ target' = NoTarget /\ result' = 0
  /\ UNCHANGED diskVars

-----------------------------------------------------------------------------
(* Reading the structures *)

Table(d, c) == d[c].table
UsedSlots(t) == {s \in Slots : InUse(t[s])}
FreeSlots(t) == {s \in Slots : ~InUse(t[s])}
FirstSlot(S) == CHOOSE s \in S : \A u \in S : s <= u

(* Following the table from cluster c the way read and delete do: until the *)
(* value is END_OF_FILE, through anything else.  The entry of a free        *)
(* cluster leads to cluster 0, and the entry of cluster 0 out of the table. *)
Onward(f, c) == IF c \in Clusters THEN f[c] ELSE c

Step(f, c) ==
  LET at[k \in 0 .. CLUSTER_MAP_SIZE] == IF k = 0 THEN c ELSE Onward(f, at[k - 1])
  IN  at

WalkLength(f, c) ==
  LET stops == {k \in 0 .. CLUSTER_MAP_SIZE : Step(f, c)[k] \notin Clusters}
  IN  IF stops = {} THEN CLUSTER_MAP_SIZE ELSE FirstSlot(stops)

Walk(f, c) ==
  LET at == Step(f, c) IN [k \in 1 .. WalkLength(f, c) |-> at[k - 1]]

WalkEnds(f, c) == Step(f, c)[WalkLength(f, c)] = FAT32_FAT_END_OF_FILE

EmptyClusters(f) == {c \in Clusters : f[c] = FAT32_FAT_EMPTY_ENTRY}

(* The n lowest empty clusters, in order. *)
Allocation(f, n) ==
  [k \in 1 .. n |-> CHOOSE c \in EmptyClusters(f) :
                      Cardinality({e \in EmptyClusters(f) : e < c}) = k - 1]

(* The table with cs chained together. *)
Chained(f, cs) ==
  [c \in Clusters |->
     IF \E k \in 1 .. Len(cs) : cs[k] = c
     THEN LET k == CHOOSE k \in 1 .. Len(cs) : cs[k] = c
          IN  IF k = Len(cs) THEN FAT32_FAT_END_OF_FILE ELSE cs[k + 1]
     ELSE f[c]]

(* Mutant: only the first cluster of the chain is released. *)
ReleasedFirst(f, cs) == [f EXCEPT ![cs[1]] = FAT32_FAT_EMPTY_ENTRY]

Released(f, cs) ==
  [c \in Clusters |-> IF \E k \in 1 .. Len(cs) : cs[k] = c THEN FAT32_FAT_EMPTY_ENTRY ELSE f[c]]

IsFolder(parent) == fat[parent] = FAT32_FAT_END_OF_FILE

FileKey(parent, name, ext) == <<parent, name, ext>>
FolderKey(parent, name)    == <<parent, name, "folder">>

-----------------------------------------------------------------------------
(* The operations *)

Answer(code) == result' = code /\ UNCHANGED <<diskVars, mode, fat, pending, target>>

Named(parent, name) == {s \in UsedSlots(Table(disk, parent)) : Table(disk, parent)[s].name = name}
FilesNamed(parent, name, ext) ==
  {s \in Named(parent, name) : ~Table(disk, parent)[s].dir /\ Table(disk, parent)[s].ext = ext}
FoldersNamed(parent, name) == {s \in Named(parent, name) : Table(disk, parent)[s].dir}

(* The first of the files found, which is read when it fits. *)
Found(parent, name, ext) == Table(disk, parent)[FirstSlot(FilesNamed(parent, name, ext))]

read_code(parent, name, ext, size) ==
  IF ~IsFolder(parent) THEN -1
  ELSE IF FilesNamed(parent, name, ext) # {}
  THEN IF Found(parent, name, ext).filesize > size THEN 2 ELSE 0
  ELSE IF FoldersNamed(parent, name) # {} THEN 1
  ELSE IF Named(parent, name) = {} THEN 3
  ELSE -1

(* A chain that does not end leads the kernel out of the table.             *)
ReadFaults(parent, name, ext, size) ==
  /\ IsFolder(parent) /\ FilesNamed(parent, name, ext) # {}
  /\ Found(parent, name, ext).filesize <= size
  /\ ~WalkEnds(fat, Found(parent, name, ext).cluster)

read(parent, name, ext, size) ==
  /\ Idle
  /\ IF ReadFaults(parent, name, ext, size)
     THEN mode' = "hang" /\ result' = 0 /\ UNCHANGED <<diskVars, fat, pending, target>>
     ELSE Answer(read_code(parent, name, ext, size))

(* A buffer of any size but one directory table is refused.                 *)
read_directory_code(parent, name, size) ==
  IF size # DIR_TABLE_SIZE \/ ~IsFolder(parent) THEN -1
  ELSE IF FoldersNamed(parent, name) # {} THEN 0
  ELSE IF Named(parent, name) # {} THEN 1
  ELSE 2

read_directory(parent, name, size) == Idle /\ Answer(read_directory_code(parent, name, size))

(* Mutant: the extension is not compared. *)
ClashByName(t, name, ext, size) == \E s \in UsedSlots(t) : t[s].name = name

(* size = 0 asks for a folder, and then any folder of that name is in the   *)
(* way; a file is stopped by any entry of its name and extension, folders   *)
(* and slots 0 and 1 included.                                              *)
Clash(t, name, ext, size) ==
  \E s \in UsedSlots(t) :
    /\ t[s].name = name
    /\ IF size = 0 THEN t[s].dir ELSE t[s].ext = ext

NeededClusters(size) == IF size = 0 THEN 1 ELSE size

Begin(writes, key) ==
  /\ pending' = writes /\ target' = key /\ result' = 0
  /\ UNCHANGED <<diskVars, mode>>

write(parent, name, ext, size) ==
  /\ Idle
  /\ LET t  == Table(disk, parent)
         cs == Allocation(fat, NeededClusters(size))
         f  == Chained(fat, cs)
         s  == FirstSlot(FreeSlots(t))
     IN  IF ~IsFolder(parent) THEN Answer(2)
         ELSE IF Clash(t, name, ext, size) THEN Answer(1)
         ELSE IF FreeSlots(t) = {} THEN Answer(-1)
         ELSE IF NeededClusters(size) > Cardinality(EmptyClusters(fat)) THEN Answer(-1)
         ELSE /\ fat' = f
              /\ IF size = 0
                 THEN Begin(<<WriteCluster(cs[1], TableCluster(DirectoryTable(name, cs[1], t[0].name, parent))),
                              WriteCluster(parent, TableCluster([t EXCEPT ![s] = Entry(name, NoExt, TRUE, cs[1], 0)]))>>
                            \o write_cluster_map(f),
                            FolderKey(parent, name))
                 ELSE Begin([k \in 1 .. size |-> WriteCluster(cs[k], DataCluster(name, ext, k))]
                            \o <<WriteCluster(parent, TableCluster([t EXCEPT ![s] = Entry(name, ext, FALSE, cs[1], size)]))>>
                            \o write_cluster_map(f),
                            FileKey(parent, name, ext))

(* The first entry of that name and extension, whatever it is.              *)
Matching(parent, name, ext) ==
  LET t == Table(disk, parent) IN {s \in UsedSlots(t) : t[s].name = name /\ t[s].ext = ext}

(* delete counts a folder as empty without looking at its slot 2.           *)
LooksEmpty(c) == \A s \in Slots : s >= 3 => ~InUse(Table(disk, c)[s])

(* Zeroing a cluster; cluster 0 is the boot sector, and the clusters out of *)
(* the table are where the kernel faults.                                   *)
ZeroCluster(c) == IF c = 0 THEN WriteBoot(FALSE) ELSE WriteCluster(c, Zeroes)

(* Mutant: the table is written before the entry is removed. *)
TableFirst(removed, zeroes, map) == map \o zeroes \o <<removed>>

(* Mutant: the directory is cleared before it is rewritten. *)
DirectoryClearedFirst(removed, zeroes, map) ==
  <<WriteCluster(removed.cluster, Zeroes), removed>> \o zeroes \o map

(* The entry goes first, then the clusters, then the table. *)
DeleteWrites(removed, zeroes, map) == <<removed>> \o zeroes \o map

delete(parent, name, ext) ==
  /\ Idle
  /\ LET t  == Table(disk, parent)
         s  == FirstSlot(Matching(parent, name, ext))
         c  == t[s].cluster
         cs == Walk(fat, c)
         removed == WriteCluster(parent, TableCluster([t EXCEPT ![s] = NoEntry]))
     IN  IF ~IsFolder(parent) THEN Answer(-1)
         ELSE IF Matching(parent, name, ext) = {} THEN Answer(1)
         ELSE IF t[s].dir
         THEN IF s = 0 THEN Answer(-1)
              ELSE IF ~LooksEmpty(c) THEN Answer(2)
              ELSE /\ fat' = Released(fat, <<c>>)
                   /\ Begin(DeleteWrites(removed, <<WriteCluster(c, Zeroes)>>, write_cluster_map(fat')),
                            FolderKey(parent, name))
         ELSE /\ fat' = Released(fat, cs)
              /\ Begin(DeleteWrites(removed, [k \in 1 .. Len(cs) |-> ZeroCluster(cs[k])],
                                 IF WalkEnds(fat, c) THEN write_cluster_map(fat') ELSE <<Fault>>),
                       FileKey(parent, name, ext))

-----------------------------------------------------------------------------
(* Callers *)

(* The folders that can be reached from the root: the clusters in every set *)
(* that has the root and, with a folder, its children.                      *)
Children(d, c) == {Table(d, c)[s].cluster : s \in {u \in Slots : u >= 2 /\ Table(d, c)[u].dir}}

Closed(d, S) == Root \in S /\ \A c \in S : Children(d, c) \subseteq S

Folders(d) == {c \in DataClusters : \A S \in SUBSET DataClusters : Closed(d, S) => c \in S}

(* What the shell keeps to, since it finds parents by reading folders and   *)
(* does not remove folders: a parent is a folder, or a number that no file  *)
(* ends with; and a folder that is removed is another than the parent and   *)
(* has no entry left.                                                       *)
ProperParents ==
  LET folders == Folders(disk)
  IN  {parent \in DataClusters : IsFolder(parent) => parent \in folders}

ProperRemoval(parent, name, ext) ==
  \A s \in Matching(parent, name, ext) :
    Table(disk, parent)[s].dir /\ s # 0 =>
      s # 1 /\ \A u \in Slots : u >= 2 => ~InUse(Table(disk, Table(disk, parent)[s].cluster)[u])

ProperReads ==
  \/ \E parent \in ProperParents, name \in Names, ext \in Exts, size \in 1 .. MaxSize :
       read(parent, name, ext, size)
  \/ \E parent \in ProperParents, name \in Names, size \in 1 .. MaxSize : read_directory(parent, name, size)

ProperWrite == \E parent \in ProperParents, name \in Names, ext \in Exts, size \in 0 .. MaxSize :
  write(parent, name, ext, size)

ProperDelete == \E parent \in ProperParents, name \in Names, ext \in Exts :
  ProperRemoval(parent, name, ext) /\ delete(parent, name, ext)

AnyWrite == \E parent \in DataClusters, name \in Names, ext \in Exts, size \in 0 .. MaxSize :
  write(parent, name, ext, size)

AnyDelete == \E parent \in DataClusters, name \in Names, ext \in Exts : delete(parent, name, ext)

SwitchOff == Idle /\ PowerLoss

(* The driver under such callers, switched off only between operations. *)
Next ==
  \/ initialize_filesystem_fat32
  \/ DiskWrite
  \/ ProperReads
  \/ ProperWrite
  \/ ProperDelete
  \/ SwitchOff

Spec == Init /\ [][Next]_vars

(* The driver as its interface allows it to be called. *)
AnyNext == initialize_filesystem_fat32 \/ DiskWrite \/ ProperReads \/ AnyWrite \/ AnyDelete \/ SwitchOff
AnySpec == Init /\ [][AnyNext]_vars

(* Proper callers, and power that may fail at any moment. *)
CrashNext == Next \/ PowerLoss
CrashSpec == Init /\ [][CrashNext]_vars

-----------------------------------------------------------------------------
(* Properties *)

UsedEntries == [name : Names \cup {RootName}, ext : Exts, dir : BOOLEAN,
                cluster : DataClusters, filesize : 0 .. MaxSize]

Contents == [data : {NoData} \cup (Names \X Exts \X (1 .. MaxSize)),
             table : [Slots -> {NoEntry} \cup UsedEntries]]

Fats == [Clusters -> Clusters \cup {FAT32_FAT_END_OF_FILE, CLUSTER_0_VALUE}]

TypeOK ==
  /\ signature \in BOOLEAN
  /\ disk_fat \in Fats /\ fat \in Fats
  /\ DOMAIN disk = DataClusters /\ \A c \in DataClusters : disk[c] \in Contents
  /\ mode \in {"off", "up", "hang"}
  /\ \A k \in 1 .. Len(pending) : pending[k].what \in {"boot", "cluster", "fat", "fault"}
  /\ result \in {-1, 0, 1, 2, 3}

(* A disk after the first n of some writes: the last write to a cluster     *)
(* counts.                                                                  *)
Written(d, writes, n) ==
  [c \in DataClusters |->
     LET to == {k \in 1 .. n : writes[k].what = "cluster" /\ writes[k].cluster = c}
     IN  IF to = {} THEN d[c] ELSE writes[CHOOSE k \in to : \A l \in to : l <= k].content]

(* The disk as it will be when the operation in progress is done. *)
FinalDisk == Written(disk, pending, Len(pending))

FinalFat == IF mode = "off" THEN disk_fat ELSE fat

(* The entries of a disk: what is in each folder that can be reached.       *)
EntryAt(d, c, s) == [folder |-> c, slot |-> s, entry |-> Table(d, c)[s]]

Entries(d) ==
  UNION {{EntryAt(d, c, s) : s \in {u \in Slots : u >= 2 /\ InUse(Table(d, c)[u])}} : c \in Folders(d)}

ClustersOf(f, x) == IF x.entry.dir THEN <<x.entry.cluster>> ELSE Walk(f, x.entry.cluster)

SetOf(cs) == {cs[k] : k \in 1 .. Len(cs)}

(* An entry is sound in an allocation table when its chain ends, has the    *)
(* length the entry says, and stays off the boot sector and the table.      *)
Sound(f, x) ==
  IF x.entry.dir THEN f[x.entry.cluster] = FAT32_FAT_END_OF_FILE
  ELSE /\ WalkEnds(f, x.entry.cluster)
       /\ Len(ClustersOf(f, x)) = x.entry.filesize
       /\ SetOf(ClustersOf(f, x)) \subseteq DataClusters

(* Whenever the driver is up on a disk that was ever written, the table in  *)
(* memory is sound: every entry's chain ends where it should, no cluster    *)
(* belongs to two entries, and every allocated cluster belongs to one, so   *)
(* that no space is lost however files come and go.                         *)
ChainsPartitionClusters ==
  mode = "up" /\ IsFolder(Root) =>
    /\ \A x \in Entries(FinalDisk) : Sound(fat, x)
    /\ \A x, y \in Entries(FinalDisk) :
         x # y => SetOf(ClustersOf(fat, x)) \cap SetOf(ClustersOf(fat, y)) = {}
    /\ {c \in DataClusters : fat[c] # FAT32_FAT_EMPTY_ENTRY} =
         {Root} \cup UNION {SetOf(ClustersOf(fat, x)) : x \in Entries(FinalDisk)}

(* Between operations, once there is a table or an entry on the disk, the   *)
(* table on disk is the one in memory: the power may go and nothing is lost *)
(* or left allocated.  That formatting puts no table there is a finding.    *)
TableWrittenBack ==
  Idle /\ (disk_fat # NoFat \/ Entries(disk) # {}) => disk_fat = fat

KeyOf(x) == IF x.entry.dir THEN FolderKey(x.folder, x.entry.name)
            ELSE FileKey(x.folder, x.entry.name, x.entry.ext)

Stored(d, f, x) ==
  LET cs == Walk(f, x.entry.cluster)
  IN  [key |-> KeyOf(x), cluster |-> x.entry.cluster,
       data |-> IF x.entry.dir THEN <<>> ELSE [k \in 1 .. Len(cs) |-> d[cs[k]].data]]

(* The power may fail now: at every moment of every operation the disk      *)
(* alone holds every file and folder that the operation does not create or  *)
(* remove, with its contents, though the table and the directory reach the  *)
(* disk in different writes.                                                *)
DiskHoldsTheRest ==
  \A x \in Entries(FinalDisk) :
    KeyOf(x) # target =>
      \E y \in Entries(disk) :
        /\ KeyOf(y) = KeyOf(x)
        /\ Sound(disk_fat, y)
        /\ Stored(disk, disk_fat, y) = Stored(FinalDisk, FinalFat, x)

(* And what a power failure can break is only the entry being created: a    *)
(* deletion cut short leaves no entry behind that leads nowhere.            *)
OnlyTargetDangles ==
  \A x \in Entries(disk) :
    ~ Sound(disk_fat, x) => KeyOf(x) = target /\ x \in Entries(FinalDisk)

-----------------------------------------------------------------------------
(* What the sources say and the code does not do; see the findings.         *)

(* fat32.c:138-142 and fat32.h:173-178: formatting writes the signature and *)
(* a proper table, with its three reserved entries, into cluster 1.         *)
FormatWritesTable ==
  Idle /\ signature =>
    /\ disk_fat[0] = CLUSTER_0_VALUE
    /\ disk_fat[1] = FAT32_FAT_END_OF_FILE
    /\ disk_fat[Root] = FAT32_FAT_END_OF_FILE

(* fat32.h:22: clusters 0 and 1 are reserved.  Deleting a file whose entry  *)
(* a power failure left dangling clears cluster 0, the boot sector, and the *)
(* next boot formats the disk.                                              *)
BootSectorKept == [][signature => signature']_vars

(* fat32.h:239 and 242: only an empty folder is deleted, and 2 is answered  *)
(* for another.                                                             *)
OnlyEmptyFoldersDeleted ==
  [][\A x \in Entries(disk) :
       Idle /\ x.entry.dir /\ fat[x.entry.cluster] # fat'[x.entry.cluster] /\ mode' = "up" =>
         \A s \in Slots : s >= 2 => ~InUse(Table(disk, x.entry.cluster)[s])]_vars
=============================================================================
