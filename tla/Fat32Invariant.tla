---------------------------- MODULE Fat32Invariant ----------------------------
(***************************************************************************)
(* The inductive invariant of Fat32 under proper callers.                  *)
(***************************************************************************)
EXTENDS Fat32

(* The clusters cs form a chain in the table f.                             *)
IsChain(f, cs) ==
  /\ cs \in Seq(DataClusters) /\ cs # <<>>
  /\ \A j, k \in 1 .. Len(cs) : cs[j] = cs[k] => j = k
  /\ \A k \in 1 .. Len(cs) : f[cs[k]] = IF k = Len(cs) THEN FAT32_FAT_END_OF_FILE ELSE cs[k + 1]

(* The entry x has a chain in f, as long as it says.                        *)
HasChain(f, x) ==
  /\ IsChain(f, ClustersOf(f, x))
  /\ ClustersOf(f, x)[1] = x.entry.cluster
  /\ x.entry.dir \/ Len(ClustersOf(f, x)) = x.entry.filesize

OwnedBy(f, x) == SetOf(ClustersOf(f, x))

ReservedEntries(f) ==
  f \in Fats /\ f[0] = CLUSTER_0_VALUE /\ f[1] = FAT32_FAT_END_OF_FILE /\ f[Root] = FAT32_FAT_END_OF_FILE

FolderTables(d) == \A c \in Folders(d) : Table(d, c)[0].dir /\ Table(d, c)[1].dir

ChainsApart(d, f) ==
  \A x, y \in Entries(d) : x # y => OwnedBy(f, x) \cap OwnedBy(f, y) = {}

RootApart(d, f) == \A x \in Entries(d) : Root \notin OwnedBy(f, x)

Accounted(d, f) ==
  \A c \in DataClusters :
    f[c] # FAT32_FAT_EMPTY_ENTRY <=> c = Root \/ \E x \in Entries(d) : c \in OwnedBy(f, x)

(* The disk d and the table f fit together. *)
Consistent(d, f) ==
  /\ ReservedEntries(f)
  /\ FolderTables(d)
  /\ \A x \in Entries(d) : HasChain(f, x)
  /\ ChainsApart(d, f)
  /\ RootApart(d, f)
  /\ Accounted(d, f)

(* A disk without any file or folder. *)
Blank(d) == \A c \in DataClusters : \A s \in Slots : s >= 2 => ~ InUse(Table(d, c)[s])

DiskType(d) == d \in [DataClusters -> Contents]

(* The writes an operation makes; f is the table in memory. *)
IsWrite(f, w) ==
  \/ w = WriteBoot(TRUE)
  \/ w.what = "cluster" /\ w = WriteCluster(w.cluster, w.content) /\ w.cluster \in DataClusters /\ w.content \in Contents
  \/ w.what = "fat" /\ w = WriteFatBlock(w.block, f)

WritesOK(f, ws) == ws \in Seq(SetOf(ws)) /\ \A k \in 1 .. Len(ws) : IsWrite(f, ws[k])

(* The table on disk after the first n of the writes ws. *)
TableWritten(t, f, ws, n) ==
  [c \in Clusters |-> IF \E k \in 1 .. n : ws[k].what = "fat" /\ ws[k].block = c \div FAT_BLOCK THEN f[c] ELSE t[c]]

(* What a mount may find on the disk: files and a table that fit together,  *)
(* or, until the first change, no table and no files.                       *)
Mountable(t, d) == Consistent(d, t) \/ (t = NoFat /\ Blank(d))

(* Between operations: the driver works with a consistent table, which is   *)
(* the one on disk unless nothing was ever written there; or it found no    *)
(* table and is of no use.                                                  *)
Settled(t, d, f) ==
  \/ Consistent(d, f) /\ (t = f \/ (t = NoFat /\ Blank(d)))
  \/ f = NoFat /\ t = NoFat /\ Blank(d)

(* A disk d with a table t holds what the final one will, but for the       *)
(* target; and what leads nowhere on it is the target that is created.      *)
Holds(d, t, f, final, key) ==
  /\ \A x \in Entries(final) :
       KeyOf(x) # key =>
         \E y \in Entries(d) :
           /\ KeyOf(y) = KeyOf(x) /\ Sound(t, y)
           /\ Stored(d, t, y) = Stored(final, f, x)
  /\ \A x \in Entries(d) : ~ Sound(t, x) => KeyOf(x) = key /\ x \in Entries(final)

(* The driver is up, and the writes ws are still to be made: they will      *)
(* settle it, and up to there every one leaves a disk that holds the rest.  *)
Promised(sig, t, d, f, ws, key) ==
  /\ sig \/ \E k \in 1 .. Len(ws) : ws[k].what = "boot"
  /\ Settled(TableWritten(t, f, ws, Len(ws)), Written(d, ws, Len(ws)), f)
  /\ \A n \in 0 .. Len(ws) :
       Holds(Written(d, ws, n), TableWritten(t, f, ws, n), f, Written(d, ws, Len(ws)), key)

FatType ==
  /\ signature \in BOOLEAN /\ DiskType(disk)
  /\ disk_fat \in Fats /\ fat \in Fats
  /\ mode \in {"off", "up"}
  /\ WritesOK(fat, pending)
  /\ result \in {-1, 0, 1, 2, 3}

OffInv == mode = "off" => pending = <<>> /\ (signature \/ disk_fat = NoFat) /\ Mountable(disk_fat, disk)

UpInv == mode = "up" => Promised(signature, disk_fat, disk, fat, pending, target)

FatInv == FatType /\ OffInv /\ UpInv
=============================================================================
