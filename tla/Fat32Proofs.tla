----------------------------- MODULE Fat32Proofs -----------------------------
(***************************************************************************)
(* Proofs about Fat32 under proper callers: FatInv of Fat32Invariant is    *)
(* inductive, and the properties its runs check follow from it; and, for   *)
(* power that fails at any moment, what only a failure in the middle of an *)
(* operation can bring about (Fat32Crash).                                 *)
(*                                                                         *)
(* The order: walks over chains; the folders and entries of a disk; what   *)
(* adding an entry and removing one do to a consistent disk; the clusters  *)
(* an allocation gives; sequences of disk writes; the plans of write and   *)
(* delete, of which every prefix keeps the promise; the steps; the         *)
(* theorems.                                                               *)
(***************************************************************************)
EXTENDS Fat32Crash, NatLemmas, FiniteSetTheorems, SequenceTheorems, TLAPS

-----------------------------------------------------------------------------
(* Numbers and chains *)

LEMMA FirstSlotIs ==
  ASSUME NEW S \in SUBSET Nat, NEW s \in S, \A u \in S : s <= u
  PROVE  FirstSlot(S) = s
<1>1. \A u \in S : (\A v \in S : u <= v) => u = s
  <2> SUFFICES ASSUME NEW u \in S, \A v \in S : u <= v PROVE u = s
    OBVIOUS
  <2>1. u <= s /\ s <= u /\ u \in Nat /\ s \in Nat
    OBVIOUS
  <2>2. QED
    BY <2>1
<1>2. QED
  BY <1>1, Zenon DEF FirstSlot

(* The first slot of a set is in it and below the others. *)
LEMMA FirstSlotLeast ==
  ASSUME NEW S \in SUBSET Nat, S # {}
  PROVE  FirstSlot(S) \in S /\ \A u \in S : FirstSlot(S) <= u
<1>1. \E s \in S : \A u \in S : s <= u
  BY LeastNat, Zenon
<1>2. QED
  BY <1>1, Zenon DEF FirstSlot

(* Following the table from a cluster, step by step. *)
Follows(f, c, at) ==
  /\ at[0] = c
  /\ \A k \in 1 .. CLUSTER_MAP_SIZE : at[k] = Onward(f, at[k - 1])

(* The walk from a cluster goes where the table leads. *)
LEMMA StepFollows ==
  ASSUME NEW f, NEW c
  PROVE  Follows(f, c, Step(f, c))
<1> DEFINE Upto(at, n) == at = [k \in 0 .. n |-> IF k = 0 THEN c ELSE Onward(f, at[k - 1])]
           T == {n \in Nat : ~ \E at : Upto(at, n)}
           M == CLUSTER_MAP_SIZE
<1> M \in Nat
  BY Fat32Assumption
<1>1. T = {}
  <2> SUFFICES ASSUME T # {} PROVE FALSE
    OBVIOUS
  <2>1. PICK n \in T : \A m \in T : n <= m
    <3>1. T \in SUBSET Nat
      OBVIOUS
    <3> HIDE DEF T
    <3>2. QED
      BY <3>1, LeastNat, Zenon
  <2>2. n \in Nat /\ ~ \E at : Upto(at, n)
    BY DEF T
  <2>3. n # 0
    <3> DEFINE g == [k \in 0 .. 0 |-> c]
    <3>1. Upto(g, 0)
      OBVIOUS
    <3>2. QED
      BY <2>2, <3>1
  <2>4. n - 1 \in Nat /\ ~ (n - 1 \in T)
    <3>1. n - 1 \in Nat /\ ~ (n <= n - 1)
      BY <2>2, <2>3
    <3> HIDE DEF T
    <3>2. QED
      BY <2>1, <3>1
  <2>5. \E at : Upto(at, n - 1)
    BY <2>4 DEF T
  <2>6. PICK at : Upto(at, n - 1)
    BY <2>5
  <2> DEFINE g == [k \in 0 .. n |-> IF k = 0 THEN c ELSE Onward(f, at[k - 1])]
  <2>7. \A k \in 0 .. n - 1 : g[k] = at[k]
    <3>1. \A k \in 0 .. n - 1 : at[k] = IF k = 0 THEN c ELSE Onward(f, at[k - 1])
      BY <2>2, <2>6
    <3>2. \A k \in 0 .. n - 1 : k \in 0 .. n
      BY <2>2
    <3>3. QED
      BY <3>1, <3>2
  <2>8. \A k \in 0 .. n : (IF k = 0 THEN c ELSE Onward(f, at[k - 1])) = IF k = 0 THEN c ELSE Onward(f, g[k - 1])
    <3>1. \A k \in 0 .. n : k = 0 \/ k - 1 \in 0 .. n - 1
      BY <2>2
    <3> HIDE DEF g
    <3>2. QED
      BY <2>7, <3>1
  <2>9. Upto(g, n)
    BY <2>8
  <2>10. QED
    BY <2>2, <2>9
<1>2. \E at : Upto(at, M)
  BY <1>1 DEF T
<1>3. PICK at : Upto(at, M)
  BY <1>2
<1>4. Upto(CHOOSE g : Upto(g, M), M)
  BY <1>3, Zenon
<1>5. Upto(Step(f, c), M)
  BY <1>4, Zenon DEF Step
<1>6. \A k \in 0 .. M : Step(f, c)[k] = IF k = 0 THEN c ELSE Onward(f, Step(f, c)[k - 1])
  <2> DEFINE s == Step(f, c)
  <2>1. s = [k \in 0 .. M |-> IF k = 0 THEN c ELSE Onward(f, s[k - 1])]
    BY <1>5
  <2> HIDE DEF s
  <2>2. \A k \in 0 .. M : s[k] = IF k = 0 THEN c ELSE Onward(f, s[k - 1])
    BY <2>1
  <2>3. QED
    BY <2>2 DEF s
<1>7. 0 \in 0 .. M /\ \A k \in 1 .. M : k \in 0 .. M /\ k # 0
  OBVIOUS
<1>8. QED
  BY <1>6, <1>7 DEF Follows

(* A chain is no longer than the disk. *)
LEMMA ChainFits ==
  ASSUME NEW f, NEW cs, IsChain(f, cs)
  PROVE  Len(cs) \in 1 .. CLUSTER_MAP_SIZE
<1> DEFINE n == Len(cs)
           S == 1 .. n
<1>1. n \in Nat /\ n # 0 /\ cs \in [S -> DataClusters]
  BY DEF IsChain
<1>2. \A j, k \in S : cs[j] = cs[k] => j = k
  BY DEF IsChain
<1>3. cs \in Injection(S, DataClusters)
  BY <1>1, <1>2 DEF Injection, IsInjective
<1>4. IsFiniteSet(DataClusters) /\ Cardinality(DataClusters) <= CLUSTER_MAP_SIZE
  BY FS_Interval, Fat32Assumption DEF DataClusters
<1>5. IsFiniteSet(S) /\ Cardinality(S) = n
  BY <1>1, FS_Interval
<1> HIDE DEF S, n
<1>6. Cardinality(S) <= Cardinality(DataClusters)
  BY <1>3, <1>4, FS_Injection
<1>7. Cardinality(DataClusters) \in Nat
  BY <1>4, FS_CardinalityType
<1>8. n \in 1 .. CLUSTER_MAP_SIZE
  BY <1>1, <1>4, <1>5, <1>6, <1>7, Fat32Assumption
<1>9. QED
  BY <1>8 DEF n

(* Following the table along a chain visits it, and then ends. *)
LEMMA ChainSteps ==
  ASSUME NEW f, NEW cs, IsChain(f, cs)
  PROVE  /\ \A k \in 1 .. Len(cs) : Step(f, cs[1])[k - 1] = cs[k]
         /\ Step(f, cs[1])[Len(cs)] = FAT32_FAT_END_OF_FILE
<1> DEFINE at == Step(f, cs[1])
           n == Len(cs)
           T == {k \in Nat : k \in 1 .. n /\ at[k - 1] # cs[k]}
<1>1. Follows(f, cs[1], at)
  BY StepFollows, Zenon
<1>2. n \in 1 .. CLUSTER_MAP_SIZE
  BY ChainFits, Zenon
<1>3. /\ \A k \in 1 .. n : cs[k] \in Clusters /\ Onward(f, cs[k]) = f[cs[k]]
      /\ \A k \in 1 .. n : f[cs[k]] = IF k = n THEN FAT32_FAT_END_OF_FILE ELSE cs[k + 1]
  <2>1. \A k \in 1 .. n : cs[k] \in DataClusters
    BY DEF IsChain
  <2>2. DataClusters \subseteq Clusters
    BY DEF DataClusters, Clusters
  <2>3. QED
    BY <2>1, <2>2 DEF Onward, IsChain
<1> HIDE DEF at, n
<1> CLUSTER_MAP_SIZE \in Nat
  BY Fat32Assumption
<1>4. T = {}
  <2> SUFFICES ASSUME T # {} PROVE FALSE
    OBVIOUS
  <2>1. PICK k \in T : \A m \in T : k <= m
    <3>1. T \in SUBSET Nat
      OBVIOUS
    <3> HIDE DEF T
    <3>2. QED
      BY <3>1, LeastNat, Zenon
  <2>2. k \in 1 .. n /\ at[k - 1] # cs[k] /\ k # 1
    BY <1>1 DEF Follows
  <2>3. k - 1 \in 1 .. n /\ ~ (k - 1 \in T) /\ k - 1 \in 1 .. CLUSTER_MAP_SIZE
    BY <1>2, <2>1, <2>2
  <2>4. at[(k - 1) - 1] = cs[k - 1]
    BY <2>3
  <2>5. at[k - 1] = Onward(f, cs[k - 1])
    BY <1>1, <2>3, <2>4, Zenon DEF Follows
  <2>6. Onward(f, cs[k - 1]) = cs[(k - 1) + 1]
    <3>1. k - 1 # n
      BY <1>2, <2>2
    <3>2. QED
      BY <1>3, <2>3, <3>1, Zenon
  <2>7. (k - 1) + 1 = k
    BY <2>2
  <2>8. QED
    BY <2>2, <2>5, <2>6, <2>7
<1>5. \A k \in 1 .. n : at[k - 1] = cs[k]
  BY <1>2, <1>4
<1>6. at[n] = FAT32_FAT_END_OF_FILE
  <2>1. at[n] = Onward(f, at[n - 1])
    BY <1>1, <1>2 DEF Follows
  <2>2. QED
    BY <1>2, <1>3, <1>5, <2>1
<1>7. QED
  BY <1>5, <1>6 DEF at, n

(* Walking from the start of a chain gives the chain, and ends. *)
LEMMA ChainWalk ==
  ASSUME NEW f, NEW cs, IsChain(f, cs)
  PROVE  Walk(f, cs[1]) = cs /\ WalkEnds(f, cs[1])
<1> DEFINE at == Step(f, cs[1])
           n == Len(cs)
           stops == {k \in 0 .. CLUSTER_MAP_SIZE : at[k] \notin Clusters}
<1>1. /\ \A k \in 1 .. n : at[k - 1] = cs[k]
      /\ at[n] = FAT32_FAT_END_OF_FILE
  BY ChainSteps, Zenon
<1>2. n \in 1 .. CLUSTER_MAP_SIZE
  BY ChainFits, Zenon
<1>3. /\ \A k \in 1 .. n : cs[k] \in Clusters
      /\ cs = [k \in 1 .. n |-> cs[k]]
  <2>1. cs \in Seq(DataClusters)
    BY DEF IsChain
  <2>2. cs = [k \in 1 .. n |-> cs[k]]
    BY <2>1
  <2>3. DataClusters \subseteq Clusters
    BY DEF DataClusters, Clusters
  <2>4. QED
    BY <2>1, <2>2, <2>3
<1>4. FirstSlot(stops) = n /\ stops # {}
  <2> HIDE DEF at, n
  <2>1. n \in stops
    BY <1>1, <1>2, Fat32Assumption DEF FAT32_FAT_END_OF_FILE, Clusters
  <2>2. \A u \in stops : n <= u
    <3> SUFFICES ASSUME NEW u \in 0 .. CLUSTER_MAP_SIZE, u < n PROVE at[u] \in Clusters
      BY <1>2
    <3>1. u + 1 \in 1 .. n /\ (u + 1) - 1 = u
      BY <1>2, Fat32Assumption
    <3>2. QED
      BY <1>1, <1>3, <3>1
  <2>3. stops \in SUBSET Nat
    BY Fat32Assumption
  <2> HIDE DEF stops
  <2>4. QED
    BY <2>1, <2>2, <2>3, FirstSlotIs, Zenon
<1>5. WalkLength(f, cs[1]) = n
  BY <1>4, Zenon DEF WalkLength
<1>6. Walk(f, cs[1]) = [k \in 1 .. n |-> at[k - 1]]
  BY <1>5, Zenon DEF Walk
<1>7. [k \in 1 .. n |-> at[k - 1]] = [k \in 1 .. n |-> cs[k]]
  BY <1>1
<1>8. QED
  BY <1>1, <1>3, <1>5, <1>6, <1>7, Zenon DEF WalkEnds

-----------------------------------------------------------------------------
(* Folders *)

(* What a slot of a directory table can hold.                               *)
LEMMA SlotHolds ==
  ASSUME NEW d, DiskType(d), NEW c \in DataClusters, NEW s \in Slots
  PROVE  /\ Table(d, c) \in [Slots -> {NoEntry} \cup UsedEntries]
         /\ Table(d, c)[s] \in {NoEntry} \cup UsedEntries
         /\ InUse(Table(d, c)[s]) => Table(d, c)[s] \in UsedEntries /\ Table(d, c)[s].cluster \in DataClusters
         /\ Table(d, c)[s].dir => InUse(Table(d, c)[s]) /\ Table(d, c)[s].cluster \in DataClusters
<1>1. d[c] \in Contents
  BY DEF DiskType
<1>2. Table(d, c) \in [Slots -> {NoEntry} \cup UsedEntries]
  BY <1>1 DEF Contents, Table
<1>3. \A e \in UsedEntries : e.cluster \in DataClusters
  BY DEF UsedEntries
<1>4. NoEntry.dir = FALSE
  BY DEF NoEntry, Entry
<1>5. QED
  BY <1>2, <1>3, <1>4 DEF InUse

(* An entry whose cluster is on the disk is in use.                         *)
LEMMA UsedInUse ==
  ASSUME NEW e \in UsedEntries
  PROVE  InUse(e)
<1>1. NoEntry.cluster = 0 /\ e.cluster \in DataClusters
  BY DEF NoEntry, Entry, UsedEntries
<1>2. QED
  BY <1>1, Fat32Assumption DEF InUse, DataClusters

(* The children of a folder, element by element. *)
LEMMA ChildIs ==
  ASSUME NEW d, NEW c, NEW x
  PROVE  x \in Children(d, c) <=>
           \E s \in Slots : s >= 2 /\ Table(d, c)[s].dir /\ x = Table(d, c)[s].cluster
BY DEF Children

(* Folders lead to clusters of the disk. *)
LEMMA ChildrenOnDisk ==
  ASSUME NEW d, DiskType(d), NEW c \in DataClusters
  PROVE  Children(d, c) \subseteq DataClusters
BY SlotHolds, ChildIs

(* The root cluster exists. *)
LEMMA RootOnDisk == Root \in DataClusters
BY Fat32Assumption DEF Root, DataClusters

(* The folders are in every closed set of clusters. *)
LEMMA FoldersLeast ==
  ASSUME NEW d, NEW S, S \subseteq DataClusters, Closed(d, S)
  PROVE  Folders(d) \subseteq S
BY DEF Folders

(* The folders of a folder are among them. *)
LEMMA FoldersClosed ==
  ASSUME NEW d, DiskType(d)
  PROVE  Closed(d, Folders(d)) /\ Folders(d) \subseteq DataClusters
<1>1. Root \in Folders(d)
  BY RootOnDisk DEF Folders, Closed
<1>2. ASSUME NEW c \in Folders(d), NEW x \in Children(d, c) PROVE x \in Folders(d)
  <2>1. c \in DataClusters
    BY DEF Folders
  <2>2. x \in DataClusters
    BY <2>1, ChildrenOnDisk
  <2>3. \A S \in SUBSET DataClusters : Closed(d, S) => c \in S
    BY DEF Folders
  <2>4. \A S \in SUBSET DataClusters : Closed(d, S) => x \in S
    BY <2>3 DEF Closed
  <2>5. QED
    BY <2>2, <2>4 DEF Folders
<1>3. QED
  BY <1>1, <1>2 DEF Closed, Folders

(* A folder other than the root is in a folder.                             *)
LEMMA FoldersRooted ==
  ASSUME NEW d, DiskType(d), NEW c \in Folders(d), c # Root
  PROVE  \E p \in Folders(d) : c \in Children(d, p)
<1> DEFINE S == {x \in Folders(d) : x = Root \/ \E p \in Folders(d) : x \in Children(d, p)}
<1>1. Closed(d, Folders(d)) /\ Folders(d) \subseteq DataClusters
  BY FoldersClosed
<1>2. Closed(d, S) /\ S \subseteq DataClusters
  BY <1>1 DEF Closed
<1>3. Folders(d) \subseteq S
  BY <1>2, FoldersLeast, Zenon
<1>4. QED
  BY <1>3

(* The entries of a disk, element by element. *)
LEMMA EntryIs ==
  ASSUME NEW d, NEW x
  PROVE  x \in Entries(d) <=>
           \E c \in Folders(d), s \in Slots : s >= 2 /\ InUse(Table(d, c)[s]) /\ x = EntryAt(d, c, s)
BY DEF Entries

(* Fields of an entry. *)
LEMMA EntryHas ==
  ASSUME NEW d, DiskType(d), NEW x \in Entries(d)
  PROVE  /\ x.folder \in Folders(d) /\ x.folder \in DataClusters
         /\ x.slot \in Slots /\ x.slot >= 2
         /\ x.entry = Table(d, x.folder)[x.slot]
         /\ x = EntryAt(d, x.folder, x.slot)
         /\ InUse(x.entry) /\ x.entry \in UsedEntries
<1>1. PICK c \in Folders(d), s \in Slots : s >= 2 /\ InUse(Table(d, c)[s]) /\ x = EntryAt(d, c, s)
  BY EntryIs
<1>2. c \in DataClusters
  BY DEF Folders
<1>3. Table(d, c)[s] \in UsedEntries
  BY <1>1, <1>2, SlotHolds
<1>4. x.folder = c /\ x.slot = s /\ x.entry = Table(d, c)[s]
  BY <1>1 DEF EntryAt
<1>5. QED
  BY <1>1, <1>2, <1>3, <1>4

(* The subfolders are the clusters of the directory entries.                *)
LEMMA SubfolderEntry ==
  ASSUME NEW d, DiskType(d), NEW c \in Folders(d), c # Root
  PROVE  \E x \in Entries(d) : x.entry.dir /\ x.entry.cluster = c
<1>1. PICK p \in Folders(d) : c \in Children(d, p)
  BY FoldersRooted
<1>2. PICK s \in Slots : s >= 2 /\ Table(d, p)[s].dir /\ c = Table(d, p)[s].cluster
  BY <1>1, ChildIs
<1>3. p \in DataClusters
  BY DEF Folders
<1>4. InUse(Table(d, p)[s])
  BY <1>2, <1>3, SlotHolds
<1>5. EntryAt(d, p, s) \in Entries(d)
  BY <1>2, <1>4, EntryIs
<1>6. EntryAt(d, p, s).entry = Table(d, p)[s]
  BY DEF EntryAt
<1>7. QED
  BY <1>2, <1>5, <1>6

(* Two disks with the same tables in the folders of one have the same       *)
(* folders and entries.                                                     *)
SameTables(d, e) == \A c \in Folders(d) : Table(e, c) = Table(d, c)

(* Disks with the same tables in the folders of one have the same entries. *)
LEMMA SameFolders ==
  ASSUME NEW d, NEW e, DiskType(d), DiskType(e), SameTables(d, e)
  PROVE  Folders(e) = Folders(d) /\ Entries(e) = Entries(d)
<1>1. Closed(d, Folders(d)) /\ Folders(d) \subseteq DataClusters
  BY FoldersClosed
<1>2. Closed(e, Folders(e)) /\ Folders(e) \subseteq DataClusters
  BY FoldersClosed
<1>3. \A c \in Folders(d) : Children(e, c) = Children(d, c)
  BY DEF SameTables, Children
<1>4. Closed(e, Folders(d))
  BY <1>1, <1>3 DEF Closed
<1>5. Folders(e) \subseteq Folders(d)
  BY <1>1, <1>4, FoldersLeast, Zenon
<1>6. Closed(d, Folders(e))
  BY <1>2, <1>3, <1>5 DEF Closed
<1>7. Folders(d) \subseteq Folders(e)
  BY <1>2, <1>6, FoldersLeast, Zenon
<1>8. Folders(e) = Folders(d)
  BY <1>5, <1>7
<1>9. \A c \in Folders(d), s \in Slots : EntryAt(e, c, s) = EntryAt(d, c, s)
  BY DEF SameTables, EntryAt
<1>10. \A x : x \in Entries(e) <=> x \in Entries(d)
  <2> SUFFICES ASSUME NEW x PROVE x \in Entries(e) <=> x \in Entries(d)
    OBVIOUS
  <2>1. x \in Entries(e) <=> \E c \in Folders(d), s \in Slots : s >= 2 /\ InUse(Table(e, c)[s]) /\ x = EntryAt(e, c, s)
    BY <1>8, EntryIs
  <2>2. x \in Entries(d) <=> \E c \in Folders(d), s \in Slots : s >= 2 /\ InUse(Table(d, c)[s]) /\ x = EntryAt(d, c, s)
    BY EntryIs
  <2>3. \A c \in Folders(d), s \in Slots : InUse(Table(e, c)[s]) <=> InUse(Table(d, c)[s])
    BY DEF SameTables
  <2> HIDE DEF Entries, Folders, InUse, EntryAt
  <2>4. QED
    BY <2>1, <2>2, <2>3, <1>9
<1>11. QED
  BY <1>8, <1>10

(* A blank disk has no folder but the root, and no entries.                 *)
LEMMA BlankHasNothing ==
  ASSUME NEW d, DiskType(d), Blank(d)
  PROVE  Folders(d) = {Root} /\ Entries(d) = {}
<1>1. \A c \in DataClusters, s \in Slots : s >= 2 => ~ Table(d, c)[s].dir /\ ~ InUse(Table(d, c)[s])
  BY SlotHolds DEF Blank
<1>2. \A c \in DataClusters : Children(d, c) = {}
  BY <1>1 DEF Children
<1>3. Closed(d, {Root})
  BY <1>2, RootOnDisk DEF Closed
<1>4. Folders(d) \subseteq {Root}
  BY <1>3, RootOnDisk, FoldersLeast
<1>5. Folders(d) = {Root}
  BY <1>4, FoldersClosed DEF Closed
<1>6. \A x : x \notin Entries(d)
  BY <1>1, <1>5, RootOnDisk, EntryIs
<1>7. QED
  BY <1>5, <1>6

-----------------------------------------------------------------------------
(* Chains of entries *)

LEMMA ChainOwned ==
  ASSUME NEW f, NEW cs, IsChain(f, cs)
  PROVE  /\ SetOf(cs) \subseteq DataClusters /\ cs[1] \in SetOf(cs)
         /\ \A c \in SetOf(cs) : f[c] # FAT32_FAT_EMPTY_ENTRY
<1>1. Len(cs) \in Nat /\ Len(cs) >= 1 /\ \A k \in 1 .. Len(cs) : cs[k] \in DataClusters
  BY DEF IsChain
<1>2. \A k \in 1 .. Len(cs) : f[cs[k]] # FAT32_FAT_EMPTY_ENTRY
  <2> SUFFICES ASSUME NEW k \in 1 .. Len(cs) PROVE f[cs[k]] # FAT32_FAT_EMPTY_ENTRY
    OBVIOUS
  <2>1. f[cs[k]] = IF k = Len(cs) THEN FAT32_FAT_END_OF_FILE ELSE cs[k + 1]
    BY DEF IsChain
  <2>2. k # Len(cs) => k + 1 \in 1 .. Len(cs)
    BY <1>1
  <2>3. 0 \notin DataClusters
    BY DEF DataClusters
  <2>4. QED
    BY <1>1, <2>1, <2>2, <2>3 DEF FAT32_FAT_END_OF_FILE, FAT32_FAT_EMPTY_ENTRY
<1>3. QED
  BY <1>1, <1>2 DEF SetOf

(* A chain is a chain in every table that agrees with the first on it.      *)
LEMMA ChainKept ==
  ASSUME NEW f, NEW cs, IsChain(f, cs), NEW g, \A c \in SetOf(cs) : g[c] = f[c]
  PROVE  IsChain(g, cs)
<1>1. \A k \in 1 .. Len(cs) : g[cs[k]] = f[cs[k]]
  BY DEF SetOf
<1>2. QED
  BY <1>1 DEF IsChain

(* The clusters of an entry are the chain from its first one.               *)
LEMMA EntryChain ==
  ASSUME NEW g, NEW cs, IsChain(g, cs), NEW x, x.entry.cluster = cs[1],
         IF x.entry.dir THEN Len(cs) = 1 ELSE Len(cs) = x.entry.filesize
  PROVE  HasChain(g, x) /\ ClustersOf(g, x) = cs /\ OwnedBy(g, x) = SetOf(cs)
<1>1. ClustersOf(g, x) = cs
  <2>1. CASE x.entry.dir
    <3>1. cs = <<cs[1]>>
      <4>1. cs \in Seq(DataClusters) /\ Len(cs) = 1
        BY <2>1 DEF IsChain
      <4>2. QED
        BY <4>1
    <3>2. QED
      BY <2>1, <3>1 DEF ClustersOf
  <2>2. CASE ~ x.entry.dir
    BY <2>2, ChainWalk DEF ClustersOf
  <2>3. QED
    BY <2>1, <2>2
<1>2. QED
  BY <1>1 DEF HasChain, OwnedBy

(* An entry keeps its chain while its clusters keep their table entries. *)
LEMMA EntryChainKept ==
  ASSUME NEW f, NEW x, HasChain(f, x), NEW g, \A c \in OwnedBy(f, x) : g[c] = f[c]
  PROVE  HasChain(g, x) /\ ClustersOf(g, x) = ClustersOf(f, x) /\ OwnedBy(g, x) = OwnedBy(f, x)
<1> DEFINE cs == ClustersOf(f, x)
<1>1. IsChain(f, cs) /\ cs[1] = x.entry.cluster /\ (x.entry.dir \/ Len(cs) = x.entry.filesize)
  BY DEF HasChain
<1>2. x.entry.dir => Len(cs) = 1
  BY DEF ClustersOf
<1> HIDE DEF cs
<1>3. \A c \in SetOf(cs) : g[c] = f[c]
  BY DEF cs, OwnedBy
<1>4. IsChain(g, cs)
  BY <1>1, <1>3, ChainKept
<1>5. HasChain(g, x) /\ ClustersOf(g, x) = cs /\ OwnedBy(g, x) = SetOf(cs)
  BY <1>1, <1>2, <1>4, EntryChain
<1>6. QED
  BY <1>5 DEF cs, OwnedBy

(* What an entry owns are allocated clusters of the disk. *)
LEMMA OwnedOnDisk ==
  ASSUME NEW f, NEW x, HasChain(f, x)
  PROVE  /\ OwnedBy(f, x) \subseteq DataClusters /\ x.entry.cluster \in OwnedBy(f, x)
         /\ \A c \in OwnedBy(f, x) : f[c] # FAT32_FAT_EMPTY_ENTRY
BY ChainOwned DEF HasChain, OwnedBy

(* A folder owns its one cluster. *)
LEMMA FolderOwns ==
  ASSUME NEW f, NEW x, x.entry.dir
  PROVE  OwnedBy(f, x) = {x.entry.cluster} /\ ClustersOf(f, x) = <<x.entry.cluster>>
<1>1. Len(<<x.entry.cluster>>) = 1 /\ <<x.entry.cluster>>[1] = x.entry.cluster
  OBVIOUS
<1>2. QED
  BY <1>1 DEF OwnedBy, ClustersOf, SetOf

(* Of the folders, an entry can own only the one that it is the entry of.   *)
LEMMA FolderOwnedByItsEntry ==
  ASSUME NEW d, NEW f, DiskType(d), Consistent(d, f), NEW x \in Entries(d),
         NEW c \in Folders(d), c \in OwnedBy(f, x)
  PROVE  x.entry.dir /\ c = x.entry.cluster
<1>1. c # Root
  BY DEF Consistent, RootApart
<1>2. PICK y \in Entries(d) : y.entry.dir /\ y.entry.cluster = c
  BY <1>1, SubfolderEntry
<1>3. c \in OwnedBy(f, y)
  BY <1>2, FolderOwns
<1>4. x = y
  BY <1>3 DEF Consistent, ChainsApart
<1>5. QED
  BY <1>2, <1>4

(* A cluster that is free is no folder.                                     *)
LEMMA FolderInUse ==
  ASSUME NEW d, NEW f, DiskType(d), Consistent(d, f), NEW c \in Folders(d)
  PROVE  f[c] = FAT32_FAT_END_OF_FILE /\ f[c] # FAT32_FAT_EMPTY_ENTRY
<1>1. CASE c = Root
  BY <1>1 DEF Consistent, ReservedEntries, FAT32_FAT_END_OF_FILE, FAT32_FAT_EMPTY_ENTRY
<1>2. CASE c # Root
  <2>1. PICK y \in Entries(d) : y.entry.dir /\ y.entry.cluster = c
    BY <1>2, SubfolderEntry
  <2>2. IsChain(f, <<c>>)
    BY <2>1, FolderOwns DEF Consistent, HasChain
  <2>3. f[c] = FAT32_FAT_END_OF_FILE
    <3>1. Len(<<c>>) = 1 /\ <<c>>[1] = c
      OBVIOUS
    <3>2. QED
      BY <2>2, <3>1 DEF IsChain
  <2>4. QED
    BY <2>3 DEF FAT32_FAT_END_OF_FILE, FAT32_FAT_EMPTY_ENTRY
<1>3. QED
  BY <1>1, <1>2

(* Equal entries are in the same place. *)
LEMMA SameEntryAt ==
  ASSUME NEW d, NEW e, NEW b, NEW c, NEW s, NEW u, EntryAt(d, b, s) = EntryAt(e, c, u)
  PROVE  b = c /\ s = u /\ Table(d, b)[s] = Table(e, c)[u]
<1>1. /\ EntryAt(d, b, s).folder = b /\ EntryAt(d, b, s).slot = s /\ EntryAt(d, b, s).entry = Table(d, b)[s]
      /\ EntryAt(e, c, u).folder = c /\ EntryAt(e, c, u).slot = u /\ EntryAt(e, c, u).entry = Table(e, c)[u]
  BY DEF EntryAt
<1>2. QED
  BY <1>1

-----------------------------------------------------------------------------
(* Adding an entry *)

(* The disk e and table g are d and f with one entry more: it is in slot s  *)
(* of folder p, and owns the clusters cs, which were free and hold no       *)
(* entries.                                                                 *)
Free(f, cs) == \A c \in SetOf(cs) : f[c] = FAT32_FAT_EMPTY_ENTRY

Fills(e, cs, x) ==
  /\ \A c \in SetOf(cs) : \A u \in Slots : u >= 2 => ~ InUse(Table(e, c)[u])
  /\ x.dir => Table(e, cs[1])[0].dir /\ Table(e, cs[1])[1].dir

SameElsewhere(d, e, C, p) == \A c \in DataClusters : c \notin C /\ c # p => Table(e, c) = Table(d, c)

SameTableElsewhere(f, g, C) == \A c \in Clusters : c \notin C => g[c] = f[c]

Describes(x, cs) ==
  x \in UsedEntries /\ x.cluster = cs[1] /\ IF x.dir THEN Len(cs) = 1 ELSE Len(cs) = x.filesize

Added(d, f, e, g, p, s, cs, x) ==
  /\ DiskType(d) /\ DiskType(e) /\ Consistent(d, f)
  /\ p \in Folders(d) /\ s \in Slots /\ s >= 2 /\ ~ InUse(Table(d, p)[s])
  /\ Describes(x, cs) /\ IsChain(g, cs) /\ Free(f, cs) /\ Fills(e, cs, x)
  /\ g \in Fats /\ SameTableElsewhere(f, g, SetOf(cs))
  /\ Table(e, p) = [Table(d, p) EXCEPT ![s] = x]
  /\ SameElsewhere(d, e, SetOf(cs), p)

NewFolders(cs, x) == IF x.dir THEN {cs[1]} ELSE {}

(* The tables of the old folders, in the new disk. *)
LEMMA AddedTables ==
  ASSUME NEW d, NEW f, NEW e, NEW g, NEW p, NEW s, NEW cs, NEW x, Added(d, f, e, g, p, s, cs, x)
  PROVE  /\ \A c \in Folders(d) : c \notin SetOf(cs)
         /\ \A c \in Folders(d), u \in Slots :
              Table(e, c)[u] = IF c = p /\ u = s THEN x ELSE Table(d, c)[u]
<1> USE DEF Added
<1>1. ASSUME NEW c \in Folders(d) PROVE c \notin SetOf(cs)
  BY FolderInUse DEF Free
<1>2. Folders(d) \subseteq DataClusters
  BY FoldersClosed
<1>3. ASSUME NEW c \in Folders(d), NEW u \in Slots
      PROVE  Table(e, c)[u] = IF c = p /\ u = s THEN x ELSE Table(d, c)[u]
  <2>1. CASE c = p
    <3>1. Table(d, p) \in [Slots -> {NoEntry} \cup UsedEntries]
      BY <1>2, SlotHolds
    <3>2. QED
      BY <2>1, <3>1
  <2>2. CASE c # p
    BY <1>1, <1>2, <2>2 DEF SameElsewhere
  <2>3. QED
    BY <2>1, <2>2
<1>4. QED
  BY <1>1, <1>3

(* The folders afterwards. *)
LEMMA AddedFolders ==
  ASSUME NEW d, NEW f, NEW e, NEW g, NEW p, NEW s, NEW cs, NEW x, Added(d, f, e, g, p, s, cs, x)
  PROVE  Folders(e) = Folders(d) \cup NewFolders(cs, x)
<1>1. \A c \in Folders(d), u \in Slots :
        Table(e, c)[u] = IF c = p /\ u = s THEN x ELSE Table(d, c)[u]
  BY AddedTables
<1>2. DiskType(d) /\ DiskType(e) /\ p \in Folders(d) /\ s \in Slots /\ s >= 2 /\ ~ InUse(Table(d, p)[s])
  BY DEF Added
<1>3. x.cluster = cs[1] /\ cs[1] \in DataClusters /\ cs[1] \in SetOf(cs)
  BY ChainOwned DEF Added, Describes
<1>4. Closed(d, Folders(d)) /\ Folders(d) \subseteq DataClusters
  BY <1>2, FoldersClosed
<1>5. Closed(e, Folders(e)) /\ Folders(e) \subseteq DataClusters
  BY <1>2, FoldersClosed
<1>6. Folders(d) \subseteq Folders(e)
  <2> DEFINE S == Folders(d) \cap Folders(e)
  <2>1. Root \in S
    BY <1>4, <1>5 DEF Closed
  <2>2. ASSUME NEW c \in S, NEW y \in Children(d, c) PROVE y \in S
    <3>1. PICK u \in Slots : u >= 2 /\ Table(d, c)[u].dir /\ y = Table(d, c)[u].cluster
      BY ChildIs
    <3>2. InUse(Table(d, c)[u])
      BY <1>2, <1>4, <3>1, SlotHolds
    <3>3. Table(e, c)[u] = Table(d, c)[u]
      BY <1>1, <1>2, <3>2
    <3>4. y \in Children(e, c)
      BY <3>1, <3>3, ChildIs
    <3>5. QED
      BY <1>4, <1>5, <3>4 DEF Closed
  <2>3. Closed(d, S)
    BY <2>1, <2>2 DEF Closed
  <2>4. Folders(d) \subseteq S
    BY <1>4, <2>3, FoldersLeast
  <2>5. QED
    BY <2>4
<1>7. NewFolders(cs, x) \subseteq Folders(e)
  <2>1. ASSUME x.dir PROVE cs[1] \in Folders(e)
    <3>1. Table(e, p)[s] = x
      BY <1>1, <1>2
    <3>2. cs[1] \in Children(e, p)
      BY <1>2, <1>3, <2>1, <3>1, ChildIs
    <3>3. QED
      BY <1>2, <1>5, <1>6, <3>2 DEF Closed
  <2>2. QED
    BY <2>1 DEF NewFolders
<1>8. Folders(e) \subseteq Folders(d) \cup NewFolders(cs, x)
  <2> DEFINE S == Folders(d) \cup NewFolders(cs, x)
  <2>1. Root \in S /\ S \subseteq DataClusters
    BY <1>3, <1>4 DEF Closed, NewFolders
  <2>2. ASSUME NEW c \in S, NEW y \in Children(e, c) PROVE y \in S
    <3>1. PICK u \in Slots : u >= 2 /\ Table(e, c)[u].dir /\ y = Table(e, c)[u].cluster
      BY ChildIs
    <3>2. CASE c \in Folders(d)
      <4>1. CASE c = p /\ u = s
        BY <1>1, <1>3, <3>1, <3>2, <4>1 DEF NewFolders
      <4>2. CASE ~ (c = p /\ u = s)
        <5>1. y \in Children(d, c)
          BY <1>1, <3>1, <3>2, <4>2, ChildIs
        <5>2. QED
          BY <1>4, <3>2, <5>1 DEF Closed
      <4>3. QED
        BY <4>1, <4>2
    <3>3. CASE c \in NewFolders(cs, x)
      <4>1. c \in SetOf(cs) /\ c \in DataClusters
        BY <1>3, <3>3 DEF NewFolders
      <4>2. ~ InUse(Table(e, c)[u])
        BY <3>1, <4>1 DEF Added, Fills
      <4>3. QED
        BY <1>2, <3>1, <4>1, <4>2, SlotHolds
    <3>4. QED
      BY <3>2, <3>3
  <2>3. Closed(e, S)
    BY <2>1, <2>2 DEF Closed
  <2> HIDE DEF S
  <2>4. Folders(e) \subseteq S
    BY <2>1, <2>3, FoldersLeast
  <2>5. QED
    BY <2>4 DEF S
<1>9. QED
  BY <1>6, <1>7, <1>8

(* One entry more. *)
LEMMA AddedEntries ==
  ASSUME NEW d, NEW f, NEW e, NEW g, NEW p, NEW s, NEW cs, NEW x, Added(d, f, e, g, p, s, cs, x)
  PROVE  /\ Entries(e) = Entries(d) \cup {EntryAt(e, p, s)}
         /\ EntryAt(e, p, s).entry = x /\ EntryAt(e, p, s) \notin Entries(d)
<1>1. \A c \in Folders(d), u \in Slots :
        Table(e, c)[u] = IF c = p /\ u = s THEN x ELSE Table(d, c)[u]
  BY AddedTables
<1>2. DiskType(d) /\ DiskType(e) /\ p \in Folders(d) /\ s \in Slots /\ s >= 2 /\ ~ InUse(Table(d, p)[s])
  BY DEF Added
<1>3. Folders(e) = Folders(d) \cup NewFolders(cs, x)
  BY AddedFolders
<1>4. Table(e, p)[s] = x /\ InUse(x)
  BY <1>1, <1>2, UsedInUse DEF Added, Describes
<1>5. EntryAt(e, p, s).entry = x
  BY <1>4 DEF EntryAt
<1>6. EntryAt(e, p, s) \notin Entries(d)
  <2> SUFFICES ASSUME EntryAt(e, p, s) \in Entries(d) PROVE FALSE
    OBVIOUS
  <2>1. PICK c \in Folders(d), u \in Slots : InUse(Table(d, c)[u]) /\ EntryAt(e, p, s) = EntryAt(d, c, u)
    BY EntryIs
  <2>2. c = p /\ u = s
    BY <2>1, SameEntryAt
  <2>3. QED
    BY <1>2, <2>1, <2>2
<1>7. ASSUME NEW y \in Entries(e) PROVE y \in Entries(d) \cup {EntryAt(e, p, s)}
  <2>1. PICK c \in Folders(e), u \in Slots : u >= 2 /\ InUse(Table(e, c)[u]) /\ y = EntryAt(e, c, u)
    BY EntryIs
  <2>2. c \notin NewFolders(cs, x)
    <3> SUFFICES ASSUME c \in NewFolders(cs, x) PROVE FALSE
      OBVIOUS
    <3>1. c \in SetOf(cs)
      BY ChainOwned DEF NewFolders, Added
    <3>2. QED
      BY <2>1, <3>1 DEF Added, Fills
  <2>3. c \in Folders(d)
    BY <1>3, <2>2
  <2>4. CASE c = p /\ u = s
    BY <2>1, <2>4
  <2>5. CASE ~ (c = p /\ u = s)
    <3>1. Table(e, c)[u] = Table(d, c)[u]
      BY <1>1, <2>3, <2>5
    <3>2. y = EntryAt(d, c, u)
      BY <2>1, <3>1 DEF EntryAt
    <3>3. QED
      BY <2>1, <2>3, <3>1, <3>2, EntryIs
  <2>6. QED
    BY <2>4, <2>5
<1>8. ASSUME NEW y \in Entries(d) PROVE y \in Entries(e)
  <2>1. PICK c \in Folders(d), u \in Slots : u >= 2 /\ InUse(Table(d, c)[u]) /\ y = EntryAt(d, c, u)
    BY EntryIs
  <2>2. Table(e, c)[u] = Table(d, c)[u]
    BY <1>1, <1>2, <2>1
  <2>3. y = EntryAt(e, c, u)
    BY <2>1, <2>2 DEF EntryAt
  <2>4. QED
    BY <1>3, <2>1, <2>2, <2>3, EntryIs
<1>9. EntryAt(e, p, s) \in Entries(e)
  BY <1>2, <1>3, <1>4, EntryIs
<1>10. QED
  BY <1>5, <1>6, <1>7, <1>8, <1>9

(* The new entry has the chain, and the old ones keep theirs. *)
LEMMA AddedChains ==
  ASSUME NEW d, NEW f, NEW e, NEW g, NEW p, NEW s, NEW cs, NEW x, Added(d, f, e, g, p, s, cs, x)
  PROVE  /\ HasChain(g, EntryAt(e, p, s)) /\ OwnedBy(g, EntryAt(e, p, s)) = SetOf(cs)
         /\ \A y \in Entries(d) :
              /\ HasChain(f, y) /\ HasChain(g, y) /\ ClustersOf(g, y) = ClustersOf(f, y)
              /\ OwnedBy(g, y) = OwnedBy(f, y) /\ OwnedBy(f, y) \cap SetOf(cs) = {}
<1>1. HasChain(g, EntryAt(e, p, s)) /\ OwnedBy(g, EntryAt(e, p, s)) = SetOf(cs)
  <2> DEFINE y == EntryAt(e, p, s)
  <2>1. y.entry = x
    BY AddedEntries
  <2>2. IsChain(g, cs) /\ x.cluster = cs[1] /\ IF x.dir THEN Len(cs) = 1 ELSE Len(cs) = x.filesize
    BY DEF Added, Describes
  <2> HIDE DEF y
  <2>3. HasChain(g, y) /\ OwnedBy(g, y) = SetOf(cs)
    BY <2>1, <2>2, EntryChain
  <2>4. QED
    BY <2>3 DEF y
<1>2. ASSUME NEW y \in Entries(d)
      PROVE  /\ HasChain(f, y) /\ HasChain(g, y) /\ ClustersOf(g, y) = ClustersOf(f, y)
             /\ OwnedBy(g, y) = OwnedBy(f, y) /\ OwnedBy(f, y) \cap SetOf(cs) = {}
  <2>1. HasChain(f, y)
    BY DEF Added, Consistent
  <2>2. OwnedBy(f, y) \cap SetOf(cs) = {}
    BY <2>1, OwnedOnDisk DEF Added, Free
  <2>3. \A c \in OwnedBy(f, y) : g[c] = f[c]
    BY <2>1, <2>2, OwnedOnDisk DEF Added, SameTableElsewhere, Clusters, DataClusters
  <2>4. QED
    BY <2>1, <2>2, <2>3, EntryChainKept
<1>3. QED
  BY <1>1, <1>2

(* What was added leaves disk and table consistent. *)
LEMMA AddedConsistent ==
  ASSUME NEW d, NEW f, NEW e, NEW g, NEW p, NEW s, NEW cs, NEW x, Added(d, f, e, g, p, s, cs, x)
  PROVE  Consistent(e, g)
<1> DEFINE new == EntryAt(e, p, s)
<1>1. Entries(e) = Entries(d) \cup {new} /\ new.entry = x /\ new \notin Entries(d)
  BY AddedEntries
<1>2. /\ HasChain(g, new) /\ OwnedBy(g, new) = SetOf(cs)
      /\ \A y \in Entries(d) :
           HasChain(g, y) /\ OwnedBy(g, y) = OwnedBy(f, y) /\ OwnedBy(f, y) \cap SetOf(cs) = {}
  BY AddedChains
<1> HIDE DEF new
<1>3. Consistent(d, f) /\ g \in Fats /\ SameTableElsewhere(f, g, SetOf(cs)) /\ Free(f, cs) /\ IsChain(g, cs)
  BY DEF Added
<1>4. SetOf(cs) \subseteq DataClusters /\ \A c \in SetOf(cs) : g[c] # FAT32_FAT_EMPTY_ENTRY
  BY <1>3, ChainOwned
<1>5. Root \notin SetOf(cs)
  BY <1>3 DEF Free, Consistent, ReservedEntries, FAT32_FAT_END_OF_FILE, FAT32_FAT_EMPTY_ENTRY
<1>6. ReservedEntries(g)
  <2>1. {0, 1, Root} \cap SetOf(cs) = {} /\ {0, 1, Root} \subseteq Clusters
    BY <1>4, <1>5, Fat32Assumption DEF DataClusters, Clusters, Root
  <2>2. g[0] = f[0] /\ g[1] = f[1] /\ g[Root] = f[Root]
    BY <1>3, <2>1 DEF SameTableElsewhere
  <2>3. QED
    BY <1>3, <2>2 DEF Consistent, ReservedEntries
<1>7. FolderTables(e)
  <2> SUFFICES ASSUME NEW c \in Folders(e) PROVE Table(e, c)[0].dir /\ Table(e, c)[1].dir
    BY DEF FolderTables
  <2>1. CASE c \in Folders(d)
    <3>1. 0 \in Slots /\ 1 \in Slots /\ s # 0 /\ s # 1
      BY Fat32Assumption DEF Slots, Added
    <3>2. Table(e, c)[0] = Table(d, c)[0] /\ Table(e, c)[1] = Table(d, c)[1]
      BY <2>1, <3>1, AddedTables
    <3>3. QED
      BY <1>3, <2>1, <3>2 DEF Consistent, FolderTables
  <2>2. CASE c \in NewFolders(cs, x)
    BY <2>2 DEF NewFolders, Added, Fills
  <2>3. QED
    BY <2>1, <2>2, AddedFolders
<1>8. ChainsApart(e, g)
  BY <1>1, <1>2, <1>3 DEF Consistent, ChainsApart
<1>9. RootApart(e, g)
  BY <1>1, <1>2, <1>3, <1>5 DEF Consistent, RootApart
<1>10. Accounted(e, g)
  <2> SUFFICES ASSUME NEW c \in DataClusters
               PROVE  g[c] # FAT32_FAT_EMPTY_ENTRY <=> c = Root \/ \E y \in Entries(e) : c \in OwnedBy(g, y)
    BY DEF Accounted
  <2>1. CASE c \in SetOf(cs)
    BY <1>1, <1>2, <1>4, <2>1
  <2>2. CASE c \notin SetOf(cs)
    <3>1. g[c] = f[c]
      BY <1>3, <2>2 DEF SameTableElsewhere, DataClusters, Clusters
    <3>2. f[c] # FAT32_FAT_EMPTY_ENTRY <=> c = Root \/ \E y \in Entries(d) : c \in OwnedBy(f, y)
      BY <1>3 DEF Consistent, Accounted
    <3>3. (\E y \in Entries(e) : c \in OwnedBy(g, y)) <=> \E y \in Entries(d) : c \in OwnedBy(f, y)
      BY <1>1, <1>2, <2>2
    <3>4. QED
      BY <3>1, <3>2, <3>3
  <2>3. QED
    BY <2>1, <2>2
<1>11. QED
  BY <1>1, <1>2, <1>6, <1>7, <1>8, <1>9, <1>10 DEF Consistent

-----------------------------------------------------------------------------
(* Removing an entry *)

(* The disk e and table g are d and f without the entry x, its clusters     *)
(* free.  A folder that goes has no entries left.                           *)
NoEntriesIn(d, c) == \A u \in Slots : u >= 2 => ~ InUse(Table(d, c)[u])

Removed(d, f, e, g, x) ==
  /\ DiskType(d) /\ DiskType(e) /\ Consistent(d, f) /\ x \in Entries(d)
  /\ x.entry.dir => NoEntriesIn(d, x.entry.cluster)
  /\ g \in Fats /\ SameTableElsewhere(f, g, OwnedBy(f, x))
  /\ \A c \in OwnedBy(f, x) : g[c] = FAT32_FAT_EMPTY_ENTRY
  /\ Table(e, x.folder) = [Table(d, x.folder) EXCEPT ![x.slot] = NoEntry]
  /\ SameElsewhere(d, e, OwnedBy(f, x), x.folder)

OldFolders(x) == IF x.entry.dir THEN {x.entry.cluster} ELSE {}

(* The tables of the folders that stay. *)
LEMMA RemovedTables ==
  ASSUME NEW d, NEW f, NEW e, NEW g, NEW x, Removed(d, f, e, g, x)
  PROVE  /\ x.folder \notin OwnedBy(f, x)
         /\ \A c \in Folders(d) : c \in OwnedBy(f, x) => c \in OldFolders(x)
         /\ \A c \in Folders(d) \ OldFolders(x), u \in Slots :
              Table(e, c)[u] = IF c = x.folder /\ u = x.slot THEN NoEntry ELSE Table(d, c)[u]
<1>1. ASSUME NEW c \in Folders(d), c \in OwnedBy(f, x) PROVE x.entry.dir /\ c = x.entry.cluster
  BY <1>1, FolderOwnedByItsEntry DEF Removed
<1>2. DiskType(d) /\ DiskType(e) /\ x \in Entries(d) /\ Folders(d) \subseteq DataClusters
  BY FoldersClosed DEF Removed
<1>3. /\ x.folder \in Folders(d) /\ x.folder \in DataClusters
      /\ x.slot \in Slots /\ x.slot >= 2 /\ x.entry = Table(d, x.folder)[x.slot] /\ InUse(x.entry)
  BY <1>2, EntryHas
<1>4. x.folder \notin OwnedBy(f, x)
  <2> SUFFICES ASSUME x.folder \in OwnedBy(f, x) PROVE FALSE
    OBVIOUS
  <2>1. x.entry.dir /\ x.folder = x.entry.cluster
    BY <1>1, <1>3
  <2>2. NoEntriesIn(d, x.folder)
    BY <2>1 DEF Removed
  <2>3. QED
    BY <1>3, <2>2 DEF NoEntriesIn
<1>5. ASSUME NEW c \in Folders(d) \ OldFolders(x), NEW u \in Slots
      PROVE  Table(e, c)[u] = IF c = x.folder /\ u = x.slot THEN NoEntry ELSE Table(d, c)[u]
  <2>1. CASE c = x.folder
    <3>1. Table(d, c) \in [Slots -> {NoEntry} \cup UsedEntries]
      BY <1>2, SlotHolds
    <3>2. Table(e, c) = [Table(d, c) EXCEPT ![x.slot] = NoEntry]
      BY <2>1 DEF Removed
    <3>3. QED
      BY <2>1, <3>1, <3>2
  <2>2. CASE c # x.folder
    <3>1. c \notin OwnedBy(f, x) /\ c \in DataClusters
      BY <1>1, <1>2 DEF OldFolders
    <3>2. Table(e, c) = Table(d, c)
      BY <2>2, <3>1 DEF Removed, SameElsewhere
    <3>3. QED
      BY <2>2, <3>2
  <2>3. QED
    BY <2>1, <2>2
<1>6. QED
  BY <1>1, <1>4, <1>5 DEF OldFolders

(* The folders afterwards. *)
LEMMA RemovedFolders ==
  ASSUME NEW d, NEW f, NEW e, NEW g, NEW x, Removed(d, f, e, g, x)
  PROVE  Folders(e) = Folders(d) \ OldFolders(x)
<1>1. \A c \in Folders(d) \ OldFolders(x), u \in Slots :
        Table(e, c)[u] = IF c = x.folder /\ u = x.slot THEN NoEntry ELSE Table(d, c)[u]
  BY RemovedTables
<1>2. DiskType(d) /\ DiskType(e) /\ x \in Entries(d) /\ Consistent(d, f)
  BY DEF Removed
<1>3. Closed(d, Folders(d)) /\ Folders(d) \subseteq DataClusters
  BY <1>2, FoldersClosed
<1>4. Closed(e, Folders(e)) /\ Folders(e) \subseteq DataClusters
  BY <1>2, FoldersClosed
<1>5. /\ x.folder \in Folders(d) /\ x.slot \in Slots /\ x.slot >= 2
      /\ x.entry = Table(d, x.folder)[x.slot] /\ x.entry \in UsedEntries
  BY <1>2, EntryHas
<1>6. ~ NoEntry.dir
  BY DEF NoEntry, Entry
<1>7. Root \notin OldFolders(x)
  BY <1>2, FolderOwns DEF OldFolders, Consistent, RootApart
<1> DEFINE S == Folders(d) \ OldFolders(x)
<1>8. Root \in S /\ S \subseteq DataClusters
  BY <1>3, <1>7 DEF Closed
<1>9. ASSUME NEW c \in S, NEW y \in Children(e, c) PROVE y \in S
  <2>1. PICK u \in Slots : u >= 2 /\ Table(e, c)[u].dir /\ y = Table(e, c)[u].cluster
    BY ChildIs
  <2>2. ~ (c = x.folder /\ u = x.slot) /\ Table(e, c)[u] = Table(d, c)[u]
    BY <1>1, <1>6, <2>1
  <2>3. y \in Folders(d)
    <3>1. y \in Children(d, c)
      BY <2>1, <2>2, ChildIs
    <3>2. QED
      BY <1>3, <3>1 DEF Closed
  <2>4. ASSUME y \in OldFolders(x) PROVE FALSE
    <3>1. x.entry.dir /\ y = x.entry.cluster
      BY <2>4 DEF OldFolders
    <3> DEFINE z == EntryAt(d, c, u)
    <3>2. InUse(Table(d, c)[u])
      BY <1>2, <1>3, <2>1, <2>2, SlotHolds
    <3>3. z \in Entries(d)
      BY <2>1, <3>2, EntryIs
    <3>4. z.entry = Table(d, c)[u] /\ z.folder = c /\ z.slot = u
      BY DEF EntryAt
    <3> HIDE DEF z
    <3>5. z.entry.dir /\ z.entry.cluster = y
      BY <2>1, <2>2, <3>4
    <3>6. y \in OwnedBy(f, z) /\ y \in OwnedBy(f, x)
      BY <3>1, <3>5, FolderOwns
    <3>7. z = x
      BY <1>2, <3>3, <3>6 DEF Consistent, ChainsApart
    <3>8. QED
      BY <2>2, <3>4, <3>7
  <2>5. QED
    BY <2>3, <2>4
<1>10. Closed(e, S)
  BY <1>8, <1>9 DEF Closed
<1>11. Folders(e) \subseteq S
  <2> HIDE DEF S
  <2>1. QED
    BY <1>8, <1>10, FoldersLeast
<1>12. S \subseteq Folders(e)
  <2> DEFINE R == Folders(e) \cup OldFolders(x)
  <2>1. Root \in R /\ R \subseteq DataClusters
    BY <1>4, <1>5 DEF Closed, OldFolders, UsedEntries
  <2>2. ASSUME NEW c \in R, NEW y \in Children(d, c) PROVE y \in R
    <3>1. PICK u \in Slots : u >= 2 /\ Table(d, c)[u].dir /\ y = Table(d, c)[u].cluster
      BY ChildIs
    <3>2. CASE c \in OldFolders(x)
      <4>1. NoEntriesIn(d, c)
        BY <3>2 DEF Removed, OldFolders
      <4>2. InUse(Table(d, c)[u])
        BY <1>2, <2>1, <3>1, SlotHolds
      <4>3. QED
        BY <3>1, <4>1, <4>2 DEF NoEntriesIn
    <3>3. CASE c \notin OldFolders(x)
      <4>1. c \in S /\ c \in Folders(e)
        BY <1>11, <3>3
      <4>2. CASE c = x.folder /\ u = x.slot
        BY <1>5, <3>1, <4>2 DEF OldFolders
      <4>3. CASE ~ (c = x.folder /\ u = x.slot)
        <5>1. Table(e, c)[u] = Table(d, c)[u]
          BY <1>1, <4>1, <4>3
        <5>2. y \in Children(e, c)
          BY <3>1, <5>1, ChildIs
        <5>3. QED
          BY <1>4, <4>1, <5>2 DEF Closed
      <4>4. QED
        BY <4>2, <4>3
    <3>4. QED
      BY <3>2, <3>3
  <2>3. Closed(d, R)
    BY <2>1, <2>2 DEF Closed
  <2> HIDE DEF R
  <2>4. Folders(d) \subseteq R
    BY <2>1, <2>3, FoldersLeast
  <2>5. QED
    BY <2>4 DEF R
<1>13. QED
  BY <1>11, <1>12

(* One entry less. *)
LEMMA RemovedEntries ==
  ASSUME NEW d, NEW f, NEW e, NEW g, NEW x, Removed(d, f, e, g, x)
  PROVE  Entries(e) = Entries(d) \ {x}
<1>1. \A c \in Folders(d) \ OldFolders(x), u \in Slots :
        Table(e, c)[u] = IF c = x.folder /\ u = x.slot THEN NoEntry ELSE Table(d, c)[u]
  BY RemovedTables
<1>2. DiskType(d) /\ x \in Entries(d)
  BY DEF Removed
<1>3. /\ x.folder \in Folders(d) /\ x.slot \in Slots /\ x = EntryAt(d, x.folder, x.slot)
  BY <1>2, EntryHas
<1>4. Folders(e) = Folders(d) \ OldFolders(x)
  BY RemovedFolders
<1>5. ~ InUse(NoEntry)
  BY DEF InUse
<1>6. ASSUME NEW y \in Entries(e) PROVE y \in Entries(d) \ {x}
  <2>1. PICK c \in Folders(e), u \in Slots : u >= 2 /\ InUse(Table(e, c)[u]) /\ y = EntryAt(e, c, u)
    BY EntryIs
  <2>2. ~ (c = x.folder /\ u = x.slot) /\ Table(e, c)[u] = Table(d, c)[u]
    BY <1>1, <1>4, <1>5, <2>1
  <2>3. y = EntryAt(d, c, u)
    BY <2>1, <2>2 DEF EntryAt
  <2>4. y # x
    BY <1>3, <2>2, <2>3, SameEntryAt
  <2>5. QED
    BY <1>4, <2>1, <2>2, <2>3, <2>4, EntryIs
<1>7. ASSUME NEW y \in Entries(d), y # x PROVE y \in Entries(e)
  <2>1. PICK c \in Folders(d), u \in Slots : u >= 2 /\ InUse(Table(d, c)[u]) /\ y = EntryAt(d, c, u)
    BY EntryIs
  <2>2. c \notin OldFolders(x)
    <3> SUFFICES ASSUME c \in OldFolders(x) PROVE FALSE
      OBVIOUS
    <3>1. NoEntriesIn(d, c)
      BY DEF Removed, OldFolders
    <3>2. QED
      BY <2>1, <3>1 DEF NoEntriesIn
  <2>3. ~ (c = x.folder /\ u = x.slot)
    BY <1>3, <1>7, <2>1
  <2>4. Table(e, c)[u] = Table(d, c)[u]
    BY <1>1, <2>1, <2>2, <2>3
  <2>5. y = EntryAt(e, c, u)
    BY <2>1, <2>4 DEF EntryAt
  <2>6. QED
    BY <1>4, <2>1, <2>2, <2>4, <2>5, EntryIs
<1>8. QED
  BY <1>6, <1>7

(* The entries left keep their chains. *)
LEMMA RemovedChains ==
  ASSUME NEW d, NEW f, NEW e, NEW g, NEW x, Removed(d, f, e, g, x)
  PROVE  \A y \in Entries(e) :
           /\ HasChain(f, y) /\ HasChain(g, y) /\ ClustersOf(g, y) = ClustersOf(f, y)
           /\ OwnedBy(g, y) = OwnedBy(f, y) /\ OwnedBy(f, y) \cap OwnedBy(f, x) = {}
<1> SUFFICES ASSUME NEW y \in Entries(e)
             PROVE  /\ HasChain(f, y) /\ HasChain(g, y) /\ ClustersOf(g, y) = ClustersOf(f, y)
                    /\ OwnedBy(g, y) = OwnedBy(f, y) /\ OwnedBy(f, y) \cap OwnedBy(f, x) = {}
  OBVIOUS
<1>1. y \in Entries(d) /\ y # x /\ x \in Entries(d) /\ Consistent(d, f)
  BY RemovedEntries DEF Removed
<1>2. HasChain(f, y) /\ OwnedBy(f, y) \cap OwnedBy(f, x) = {}
  BY <1>1 DEF Consistent, ChainsApart
<1>3. \A c \in OwnedBy(f, y) : g[c] = f[c]
  BY <1>2, OwnedOnDisk DEF Removed, SameTableElsewhere, Clusters, DataClusters
<1>4. QED
  BY <1>2, <1>3, EntryChainKept

(* What was removed leaves disk and table consistent. *)
LEMMA RemovedConsistent ==
  ASSUME NEW d, NEW f, NEW e, NEW g, NEW x, Removed(d, f, e, g, x)
  PROVE  Consistent(e, g)
<1> DEFINE C == OwnedBy(f, x)
<1>1. Entries(e) = Entries(d) \ {x} /\ x \in Entries(d)
  BY RemovedEntries DEF Removed
<1>2. \A y \in Entries(e) : HasChain(g, y) /\ OwnedBy(g, y) = OwnedBy(f, y) /\ OwnedBy(f, y) \cap C = {}
  BY RemovedChains
<1>3. Consistent(d, f) /\ g \in Fats /\ SameTableElsewhere(f, g, C)
  BY DEF Removed
<1>4. C \subseteq DataClusters /\ \A c \in C : g[c] = FAT32_FAT_EMPTY_ENTRY /\ f[c] # FAT32_FAT_EMPTY_ENTRY
  BY <1>1, <1>3, OwnedOnDisk DEF Removed, Consistent
<1>5. Root \notin C
  BY <1>1, <1>3 DEF Consistent, RootApart
<1>6. ReservedEntries(g)
  <2>1. {0, 1, Root} \cap C = {} /\ {0, 1, Root} \subseteq Clusters
    BY <1>4, <1>5, Fat32Assumption DEF DataClusters, Clusters, Root
  <2>2. g[0] = f[0] /\ g[1] = f[1] /\ g[Root] = f[Root]
    BY <1>3, <2>1 DEF SameTableElsewhere
  <2>3. QED
    BY <1>3, <2>2 DEF Consistent, ReservedEntries
<1>7. FolderTables(e)
  <2> SUFFICES ASSUME NEW c \in Folders(e) PROVE Table(e, c)[0].dir /\ Table(e, c)[1].dir
    BY DEF FolderTables
  <2>1. c \in Folders(d) \ OldFolders(x)
    BY RemovedFolders
  <2>2. 0 \in Slots /\ 1 \in Slots /\ x.slot # 0 /\ x.slot # 1
    <3>1. DiskType(d) /\ x.slot \in Slots /\ x.slot >= 2
      BY EntryHas DEF Removed
    <3>2. QED
      BY <3>1, Fat32Assumption DEF Slots
  <2>3. Table(e, c)[0] = Table(d, c)[0] /\ Table(e, c)[1] = Table(d, c)[1]
    BY <2>1, <2>2, RemovedTables
  <2>4. QED
    BY <1>3, <2>1, <2>3 DEF Consistent, FolderTables
<1> HIDE DEF C
<1>8. ChainsApart(e, g)
  BY <1>1, <1>2, <1>3 DEF Consistent, ChainsApart
<1>9. RootApart(e, g)
  BY <1>1, <1>2, <1>3 DEF Consistent, RootApart
<1>10. Accounted(e, g)
  <2> SUFFICES ASSUME NEW c \in DataClusters
               PROVE  g[c] # FAT32_FAT_EMPTY_ENTRY <=> c = Root \/ \E y \in Entries(e) : c \in OwnedBy(g, y)
    BY DEF Accounted
  <2>1. CASE c \in C
    BY <1>2, <1>4, <1>5, <2>1
  <2>2. CASE c \notin C
    <3>1. g[c] = f[c]
      BY <1>3, <2>2 DEF SameTableElsewhere, DataClusters, Clusters
    <3>2. f[c] # FAT32_FAT_EMPTY_ENTRY <=> c = Root \/ \E y \in Entries(d) : c \in OwnedBy(f, y)
      BY <1>3 DEF Consistent, Accounted
    <3>3. (\E y \in Entries(e) : c \in OwnedBy(g, y)) <=> \E y \in Entries(d) : c \in OwnedBy(f, y)
      <4>1. ~ (c \in OwnedBy(f, x))
        BY <2>2 DEF C
      <4>2. QED
        BY <1>1, <1>2, <4>1
    <3>4. QED
      BY <3>1, <3>2, <3>3
  <2>3. QED
    BY <2>1, <2>2
<1>11. QED
  BY <1>1, <1>2, <1>3, <1>6, <1>7, <1>8, <1>9, <1>10 DEF Consistent

-----------------------------------------------------------------------------
(* Allocating and releasing clusters *)

Rank(S, c) == Cardinality({e \in S : e < c})

(* Every rank is some element's. *)
LEMMA Ranks ==
  ASSUME NEW S \in SUBSET Nat, IsFiniteSet(S), NEW k \in 1 .. Cardinality(S)
  PROVE  \E c \in S : Rank(S, c) = k - 1
<1> DEFINE N == Cardinality(S)
           R == 0 .. N - 1
           g == [c \in S |-> Rank(S, c)]
           B(c) == {e \in S : e < c}
<1>1. N \in Nat
  BY FS_CardinalityType
<1>2. \A c \in S : IsFiniteSet(B(c)) /\ Cardinality(B(c)) \in Nat /\ Cardinality(B(c)) < N
  <2> SUFFICES ASSUME NEW c \in S PROVE IsFiniteSet(B(c)) /\ Cardinality(B(c)) \in Nat /\ Cardinality(B(c)) < N
    OBVIOUS
  <2>1. B(c) \in SUBSET S /\ B(c) # S
    OBVIOUS
  <2> HIDE DEF B
  <2>2. IsFiniteSet(B(c)) /\ Cardinality(B(c)) <= N /\ Cardinality(B(c)) # N
    BY <2>1, FS_Subset
  <2>3. Cardinality(B(c)) \in Nat
    BY <2>2, FS_CardinalityType
  <2>4. QED
    BY <1>1, <2>2, <2>3
<1>3. \A a, b \in S : a < b => Cardinality(B(a)) < Cardinality(B(b))
  <2> SUFFICES ASSUME NEW a \in S, NEW b \in S, a < b PROVE Cardinality(B(a)) < Cardinality(B(b))
    OBVIOUS
  <2>1. B(a) \in SUBSET B(b) /\ a \in B(b) /\ a \notin B(a)
    <3>1. \A e \in S : e < a => e < b
      OBVIOUS
    <3>2. ~ (a < a)
      OBVIOUS
    <3>3. QED
      BY <3>1, <3>2
  <2>2. B(a) # B(b)
    BY <2>1
  <2>3. IsFiniteSet(B(b)) /\ Cardinality(B(a)) \in Nat /\ Cardinality(B(b)) \in Nat
    BY <1>2
  <2> HIDE DEF B
  <2>4. Cardinality(B(a)) <= Cardinality(B(b)) /\ Cardinality(B(a)) # Cardinality(B(b))
    BY <2>1, <2>2, <2>3, FS_Subset
  <2>5. QED
    BY <2>3, <2>4
<1>4. \A c \in S : Rank(S, c) = Cardinality(B(c))
  BY DEF Rank
<1> HIDE DEF B
<1>5. \A a, b \in S : Rank(S, a) = Rank(S, b) => a = b
  <2> SUFFICES ASSUME NEW a \in S, NEW b \in S, Rank(S, a) = Rank(S, b) PROVE a = b
    OBVIOUS
  <2>1. a \in Nat /\ b \in Nat
    OBVIOUS
  <2>2. ~ (a < b) /\ ~ (b < a)
    BY <1>2, <1>3, <1>4
  <2>3. QED
    BY <2>1, <2>2
<1>6. \A c \in S : Rank(S, c) \in R
  BY <1>1, <1>2, <1>4
<1>7. g \in Injection(S, R)
  <2>1. g \in [S -> R] /\ \A c \in S : g[c] = Rank(S, c)
    BY <1>6
  <2> HIDE DEF g, R
  <2>2. QED
    BY <1>5, <2>1 DEF Injection, IsInjective
<1>8. IsFiniteSet(R) /\ Cardinality(R) = N
  <2>1. ASSUME NEW m \in Nat PROVE IsFiniteSet(0 .. m - 1) /\ Cardinality(0 .. m - 1) = m
    <3>1. 0 \in Int /\ m - 1 \in Int
      OBVIOUS
    <3>2. Cardinality(0 .. m - 1) = IF 0 > m - 1 THEN 0 ELSE (m - 1) - 0 + 1
      BY <3>1, FS_Interval
    <3>3. QED
      BY <3>1, <3>2, FS_Interval
  <2>2. QED
    BY <1>1, <2>1 DEF R
<1> HIDE DEF R, N, g
<1>9. g \in Surjection(S, R)
  <2>1. Cardinality(S) = Cardinality(R)
    BY <1>8 DEF N
  <2>2. QED
    BY <1>7, <1>8, <2>1, FS_Injection
<1>10. k - 1 \in R
  <2>1. N \in Nat /\ k \in 1 .. N
    BY <1>1 DEF N
  <2> HIDE DEF N
  <2>2. QED
    BY <2>1 DEF R
<1>11. \E c \in S : g[c] = k - 1
  BY <1>9, <1>10 DEF Surjection
<1>12. QED
  BY <1>11 DEF g

(* Free clusters are never the reserved ones. *)
LEMMA EmptyOnDisk ==
  ASSUME NEW f, ReservedEntries(f)
  PROVE  /\ EmptyClusters(f) \subseteq DataClusters /\ EmptyClusters(f) \in SUBSET Nat
         /\ IsFiniteSet(EmptyClusters(f)) /\ Cardinality(EmptyClusters(f)) \in Nat
<1>1. \A c \in EmptyClusters(f) : c \in Clusters /\ c # 0 /\ c # 1
  BY DEF EmptyClusters, ReservedEntries, CLUSTER_0_VALUE, FAT32_FAT_END_OF_FILE, FAT32_FAT_EMPTY_ENTRY
<1>2. \A c \in EmptyClusters(f) : c \in DataClusters /\ c \in Nat
  BY <1>1, Fat32Assumption DEF Clusters, DataClusters
<1>3. IsFiniteSet(DataClusters)
  BY Fat32Assumption, FS_Interval DEF DataClusters
<1>4. IsFiniteSet(EmptyClusters(f))
  BY <1>2, <1>3, FS_Subset
<1>5. QED
  BY <1>2, <1>4, FS_CardinalityType

(* The clusters of cs are different data clusters. *)
Distinct(cs) ==
  /\ cs \in Seq(DataClusters) /\ cs # <<>>
  /\ \A j, k \in 1 .. Len(cs) : cs[j] = cs[k] => j = k

(* An allocation gives as many free clusters as were asked for.             *)
LEMMA AllocationGives ==
  ASSUME NEW f, ReservedEntries(f), NEW n \in Nat \ {0}, ~ (n > Cardinality(EmptyClusters(f)))
  PROVE  /\ Distinct(Allocation(f, n)) /\ Len(Allocation(f, n)) = n
         /\ Free(f, Allocation(f, n))
<1> DEFINE S == EmptyClusters(f)
           cs == Allocation(f, n)
<1>1. S \subseteq DataClusters /\ S \in SUBSET Nat /\ IsFiniteSet(S) /\ Cardinality(S) \in Nat
  BY EmptyOnDisk
<1>2. \A c \in S : f[c] = FAT32_FAT_EMPTY_ENTRY
  BY DEF EmptyClusters
<1>3. cs = [k \in 1 .. n |-> CHOOSE c \in S : Rank(S, c) = k - 1]
  BY DEF Allocation, Rank
<1> HIDE DEF S, cs
<1>4. \A k \in 1 .. n : k \in 1 .. Cardinality(S)
  BY <1>1 DEF S
<1>5. \A k \in 1 .. n : cs[k] \in S /\ Rank(S, cs[k]) = k - 1
  <2> SUFFICES ASSUME NEW k \in 1 .. n PROVE cs[k] \in S /\ Rank(S, cs[k]) = k - 1
    OBVIOUS
  <2>1. \E c \in S : Rank(S, c) = k - 1
    BY <1>1, <1>4, Ranks
  <2>2. cs[k] = CHOOSE c \in S : Rank(S, c) = k - 1
    BY <1>3
  <2>3. QED
    BY <2>1, <2>2, Zenon
<1>6. cs \in Seq(DataClusters) /\ Len(cs) = n /\ cs # <<>>
  <2>1. cs \in [1 .. n -> DataClusters]
    <3>1. \A k \in 1 .. n : cs[k] \in DataClusters
      BY <1>1, <1>5
    <3>2. cs = [k \in 1 .. n |-> cs[k]]
      BY <1>3
    <3>3. QED
      BY <3>1, <3>2
  <2>2. QED
    BY <2>1
<1>7. \A j, k \in 1 .. n : cs[j] = cs[k] => j = k
  <2> SUFFICES ASSUME NEW j \in 1 .. n, NEW k \in 1 .. n, cs[j] = cs[k] PROVE j = k
    OBVIOUS
  <2>1. j - 1 = k - 1
    BY <1>5
  <2>2. QED
    BY <2>1
<1>8. Distinct(cs) /\ Free(f, cs)
  BY <1>2, <1>5, <1>6, <1>7 DEF Distinct, Free, SetOf
<1>9. QED
  BY <1>6, <1>8 DEF cs

(* Chaining clusters makes a chain of them and changes no other entry. *)
LEMMA ChainedGives ==
  ASSUME NEW f \in Fats, NEW cs, Distinct(cs)
  PROVE  /\ IsChain(Chained(f, cs), cs) /\ Chained(f, cs) \in Fats
         /\ SameTableElsewhere(f, Chained(f, cs), SetOf(cs))
<1> DEFINE g == Chained(f, cs)
           link(k) == IF k = Len(cs) THEN FAT32_FAT_END_OF_FILE ELSE cs[k + 1]
<1>1. /\ cs \in Seq(DataClusters) /\ cs # <<>> /\ Len(cs) \in Nat
      /\ \A j, k \in 1 .. Len(cs) : cs[j] = cs[k] => j = k
      /\ \A k \in 1 .. Len(cs) : cs[k] \in DataClusters /\ cs[k] \in Clusters
  <2>1. /\ cs \in Seq(DataClusters) /\ cs # <<>>
        /\ \A j, k \in 1 .. Len(cs) : cs[j] = cs[k] => j = k
    BY DEF Distinct
  <2>2. DataClusters \subseteq Clusters
    BY DEF DataClusters, Clusters
  <2>3. \A k \in 1 .. Len(cs) : cs[k] \in DataClusters
    BY <2>1
  <2>4. QED
    BY <2>1, <2>2, <2>3
<1>2. g = [c \in Clusters |-> IF \E k \in 1 .. Len(cs) : cs[k] = c
                              THEN link(CHOOSE k \in 1 .. Len(cs) : cs[k] = c) ELSE f[c]]
  BY DEF Chained
<1>3. \A k \in 1 .. Len(cs) : link(k) \in Clusters \cup {FAT32_FAT_END_OF_FILE, CLUSTER_0_VALUE}
  BY <1>1
<1> HIDE DEF g, link
<1>4. \A k \in 1 .. Len(cs) : g[cs[k]] = link(k)
  <2> SUFFICES ASSUME NEW k \in 1 .. Len(cs) PROVE g[cs[k]] = link(k)
    OBVIOUS
  <2>1. (CHOOSE j \in 1 .. Len(cs) : cs[j] = cs[k]) = k
    BY <1>1
  <2>2. g[cs[k]] = link(CHOOSE j \in 1 .. Len(cs) : cs[j] = cs[k])
    BY <1>1, <1>2
  <2>3. QED
    BY <2>1, <2>2
<1>5. \A c \in Clusters : c \notin SetOf(cs) => g[c] = f[c]
  BY <1>2 DEF SetOf
<1>6. g \in Fats
  <2>1. \A c \in Clusters : g[c] \in Clusters \cup {FAT32_FAT_END_OF_FILE, CLUSTER_0_VALUE}
    <3> SUFFICES ASSUME NEW c \in Clusters PROVE g[c] \in Clusters \cup {FAT32_FAT_END_OF_FILE, CLUSTER_0_VALUE}
      OBVIOUS
    <3>1. CASE \E k \in 1 .. Len(cs) : cs[k] = c
      BY <1>3, <1>4, <3>1
    <3>2. CASE ~ \E k \in 1 .. Len(cs) : cs[k] = c
      BY <1>2, <3>2 DEF Fats
    <3>3. QED
      BY <3>1, <3>2
  <2>2. g = [c \in Clusters |-> g[c]]
    BY <1>2
  <2>3. QED
    BY <2>1, <2>2 DEF Fats
<1>7. IsChain(g, cs)
  BY <1>1, <1>4 DEF IsChain, link
<1>8. QED
  BY <1>5, <1>6, <1>7 DEF SameTableElsewhere, g

(* Releasing clusters frees them and changes no other entry. *)
LEMMA ReleasedGives ==
  ASSUME NEW f \in Fats, NEW cs
  PROVE  /\ Released(f, cs) \in Fats /\ SameTableElsewhere(f, Released(f, cs), SetOf(cs))
         /\ SetOf(cs) \subseteq DataClusters => \A c \in SetOf(cs) : Released(f, cs)[c] = FAT32_FAT_EMPTY_ENTRY
<1>1. Released(f, cs) = [c \in Clusters |-> IF c \in SetOf(cs) THEN FAT32_FAT_EMPTY_ENTRY ELSE f[c]]
  BY DEF Released, SetOf
<1>2. FAT32_FAT_EMPTY_ENTRY \in Clusters
  BY Fat32Assumption DEF FAT32_FAT_EMPTY_ENTRY, Clusters
<1>3. Released(f, cs) \in Fats
  BY <1>1, <1>2 DEF Fats
<1>4. QED
  BY <1>1, <1>3 DEF SameTableElsewhere, DataClusters, Clusters

-----------------------------------------------------------------------------
(* Disk writes *)

ToCluster(ws, n, c) == {k \in 1 .. n : ws[k].what = "cluster" /\ ws[k].cluster = c}

(* A set of positions has a last one. *)
LEMMA LastOf ==
  ASSUME NEW n \in Nat, NEW S \in SUBSET (1 .. n), S # {}
  PROVE  \E k \in S : \A l \in S : l <= k
<1> DEFINE T == {n - k : k \in S}
<1>1. T \in SUBSET Nat /\ T # {}
  <2>1. \A k \in S : n - k \in Nat
    OBVIOUS
  <2>2. QED
    BY <2>1
<1>2. PICK m \in T : \A i \in T : m <= i
  <2> HIDE DEF T
  <2>1. QED
    BY <1>1, LeastNat, Zenon
<1>3. PICK k \in S : m = n - k
  OBVIOUS
<1>4. \A l \in S : n - k <= n - l
  BY <1>2, <1>3
<1>5. QED
  BY <1>4

(* A cluster has the content of the last write to it. *)
LEMMA WrittenIs ==
  ASSUME NEW d, NEW ws, NEW n \in Nat, NEW c \in DataClusters
  PROVE  /\ ToCluster(ws, n, c) = {} => Written(d, ws, n)[c] = d[c]
         /\ \A k \in ToCluster(ws, n, c) :
              (\A l \in ToCluster(ws, n, c) : l <= k) => Written(d, ws, n)[c] = ws[k].content
         /\ ToCluster(ws, n, c) # {} =>
              \E k \in ToCluster(ws, n, c) : \A l \in ToCluster(ws, n, c) : l <= k
<1> DEFINE to == ToCluster(ws, n, c)
<1>1. Written(d, ws, n)[c] = IF to = {} THEN d[c] ELSE ws[CHOOSE k \in to : \A l \in to : l <= k].content
  BY DEF Written, ToCluster
<1>2. to \in SUBSET (1 .. n)
  BY DEF ToCluster
<1> HIDE DEF to
<1>3. ASSUME NEW k \in to, \A l \in to : l <= k
      PROVE  (CHOOSE j \in to : \A l \in to : l <= j) = k
  <2>1. \A j \in to : (\A l \in to : l <= j) => j = k
    <3> SUFFICES ASSUME NEW j \in to, \A l \in to : l <= j PROVE j = k
      OBVIOUS
    <3>1. j <= k /\ k <= j /\ j \in Nat /\ k \in Nat
      BY <1>2, <1>3
    <3>2. QED
      BY <3>1
  <2>2. QED
    BY <1>3, <2>1, Zenon
<1>4. to # {} => \E k \in to : \A l \in to : l <= k
  BY <1>2, LastOf
<1>5. QED
  BY <1>1, <1>3, <1>4 DEF to

(* A cluster written once has what was written. *)
LEMMA WrittenOnce ==
  ASSUME NEW d, NEW ws, NEW n \in Nat, NEW c \in DataClusters, NEW k \in 1 .. n,
         ws[k].what = "cluster", ws[k].cluster = c,
         \A l \in 1 .. n : l # k /\ ws[l].what = "cluster" => ws[l].cluster # c
  PROVE  Written(d, ws, n)[c] = ws[k].content
<1>1. ToCluster(ws, n, c) = {k}
  BY DEF ToCluster
<1>2. QED
  BY <1>1, WrittenIs

(* A cluster not written to stays as it was. *)
LEMMA WrittenNever ==
  ASSUME NEW d, NEW ws, NEW n \in Nat, NEW c \in DataClusters,
         \A l \in 1 .. n : ws[l].what = "cluster" => ws[l].cluster # c
  PROVE  Written(d, ws, n)[c] = d[c]
<1>1. ToCluster(ws, n, c) = {}
  BY DEF ToCluster
<1>2. QED
  BY <1>1, WrittenIs

(* Before the first write nothing has changed. *)
LEMMA NothingWritten ==
  ASSUME NEW d, DiskType(d), NEW t \in Fats, NEW f, NEW ws
  PROVE  Written(d, ws, 0) = d /\ TableWritten(t, f, ws, 0) = t
<1>1. \A c \in DataClusters : Written(d, ws, 0)[c] = d[c]
  BY WrittenNever
<1>2. Written(d, ws, 0) = [c \in DataClusters |-> Written(d, ws, 0)[c]]
  BY DEF Written
<1>3. d = [c \in DataClusters |-> d[c]]
  BY DEF DiskType
<1>4. Written(d, ws, 0) = d
  BY <1>1, <1>2, <1>3
<1>5. TableWritten(t, f, ws, 0) = [c \in Clusters |-> t[c]]
  BY DEF TableWritten
<1>6. QED
  BY <1>4, <1>5 DEF Fats

(* Writes leave a disk. *)
LEMMA WrittenType ==
  ASSUME NEW d, DiskType(d), NEW f, NEW ws, WritesOK(f, ws), NEW n \in 0 .. Len(ws)
  PROVE  DiskType(Written(d, ws, n))
<1>1. Len(ws) \in Nat /\ n \in Nat /\ \A k \in 1 .. n : IsWrite(f, ws[k])
  BY DEF WritesOK
<1>2. ASSUME NEW c \in DataClusters PROVE Written(d, ws, n)[c] \in Contents
  <2>1. CASE ToCluster(ws, n, c) = {}
    BY <1>1, <2>1, WrittenIs DEF DiskType
  <2>2. CASE ToCluster(ws, n, c) # {}
    <3>1. PICK k \in ToCluster(ws, n, c) : Written(d, ws, n)[c] = ws[k].content
      BY <1>1, <2>2, WrittenIs
    <3>2. k \in 1 .. n /\ ws[k].what = "cluster"
      BY DEF ToCluster
    <3>3. ws[k].content \in Contents
      <4>1. IsWrite(f, ws[k])
        BY <1>1, <3>2
      <4>2. WriteBoot(TRUE).what # "cluster" /\ "fat" # "cluster"
        BY DEF WriteBoot
      <4>3. QED
        BY <3>2, <4>1, <4>2 DEF IsWrite
    <3>4. QED
      BY <3>1, <3>3
  <2>3. QED
    BY <2>1, <2>2
<1>3. Written(d, ws, n) = [c \in DataClusters |-> Written(d, ws, n)[c]]
  BY DEF Written
<1> HIDE DEF Written
<1>4. QED
  BY <1>2, <1>3 DEF DiskType

(* A table partly written has entries of the old one and the new one. *)
LEMMA TableWrittenType ==
  ASSUME NEW t \in Fats, NEW f \in Fats, NEW ws, NEW n
  PROVE  /\ TableWritten(t, f, ws, n) \in Fats
         /\ \A c \in Clusters : TableWritten(t, f, ws, n)[c] \in {t[c], f[c]}
BY DEF TableWritten, Fats

(* The first write, and then the others. *)
Shifted(d, t, f, ws, n) ==
  /\ n + 1 \in 1 .. Len(ws)
  /\ Written(Written(d, ws, 1), Tail(ws), n) = Written(d, ws, n + 1)
  /\ TableWritten(TableWritten(t, f, ws, 1), f, Tail(ws), n) = TableWritten(t, f, ws, n + 1)

(* n writes after the first are n + 1 writes. *)
LEMMA OneWrite ==
  ASSUME NEW d, NEW t, NEW f, NEW ws, WritesOK(f, ws), ws # <<>>, NEW n \in 0 .. Len(Tail(ws))
  PROVE  Shifted(d, t, f, ws, n)
<1> DEFINE vs == Tail(ws)
           b == Written(d, ws, 1)
<1>1. ws \in Seq(SetOf(ws)) /\ vs \in Seq(SetOf(ws)) /\ Len(ws) \in Nat /\ Len(vs) = Len(ws) - 1
      /\ \A k \in 1 .. Len(vs) : vs[k] = ws[k + 1]
  BY HeadTailProperties DEF WritesOK
<1>2. n \in Nat /\ n + 1 \in 1 .. Len(ws) /\ \A k \in 1 .. n : vs[k] = ws[k + 1]
  BY <1>1
<1> HIDE DEF vs
<1>3. ASSUME NEW c \in DataClusters PROVE Written(b, vs, n)[c] = Written(d, ws, n + 1)[c]
  <2> DEFINE S == ToCluster(vs, n, c)
             T == ToCluster(ws, n + 1, c)
  <2>1. \A k \in 1 .. n : k \in S <=> k + 1 \in T
    BY <1>2 DEF ToCluster
  <2>2. S \subseteq 1 .. n /\ T \subseteq 1 .. n + 1
    BY DEF ToCluster
  <2>3. \A k \in T : k = 1 \/ (k - 1 \in S /\ (k - 1) + 1 = k)
    <3>1. \A k \in T : k = 1 \/ (k - 1 \in 1 .. n /\ (k - 1) + 1 = k)
      BY <1>2, <2>2
    <3>2. QED
      BY <2>1, <3>1
  <2>4. /\ S = {} => Written(b, vs, n)[c] = b[c]
        /\ \A k \in S : (\A l \in S : l <= k) => Written(b, vs, n)[c] = vs[k].content
        /\ S # {} => \E k \in S : \A l \in S : l <= k
    <3> HIDE DEF b
    <3>1. n \in Nat
      BY <1>2
    <3>2. S = {} => Written(b, vs, n)[c] = b[c]
      BY <3>1, WrittenIs
    <3>3. ASSUME NEW k \in S, \A l \in S : l <= k PROVE Written(b, vs, n)[c] = vs[k].content
      BY <3>1, <3>3, WrittenIs
    <3>4. S # {} => \E k \in S : \A l \in S : l <= k
      BY <3>1, WrittenIs
    <3>5. QED
      BY <3>2, <3>3, <3>4
  <2>5. /\ T = {} => Written(d, ws, n + 1)[c] = d[c]
        /\ \A k \in T : (\A l \in T : l <= k) => Written(d, ws, n + 1)[c] = ws[k].content
    BY <1>2, WrittenIs
  <2>6. /\ 1 \in T => b[c] = ws[1].content
        /\ 1 \notin T => b[c] = d[c]
    <3>1. ToCluster(ws, 1, c) = IF 1 \in T THEN {1} ELSE {}
      BY <1>2 DEF ToCluster
    <3>2. /\ ToCluster(ws, 1, c) = {} => b[c] = d[c]
          /\ \A k \in ToCluster(ws, 1, c) :
              (\A l \in ToCluster(ws, 1, c) : l <= k) => b[c] = ws[k].content
      BY WrittenIs
    <3>3. QED
      BY <3>1, <3>2
  <2> HIDE DEF S, T, b
  <2>7. CASE S # {}
    <3>1. PICK k \in S : \A l \in S : l <= k
      BY <2>4, <2>7
    <3>2. k \in 1 .. n /\ k + 1 \in T /\ \A l \in T : l <= k + 1
      BY <1>2, <2>1, <2>2, <2>3, <3>1
    <3>3. Written(b, vs, n)[c] = vs[k].content /\ Written(d, ws, n + 1)[c] = ws[k + 1].content
      BY <2>4, <2>5, <3>1, <3>2
    <3>4. QED
      BY <1>2, <3>2, <3>3
  <2>8. CASE S = {} /\ 1 \in T
    <3>1. \A l \in T : l <= 1
      BY <2>3, <2>8
    <3>2. QED
      BY <2>4, <2>5, <2>6, <2>8, <3>1
  <2>9. CASE S = {} /\ 1 \notin T
    <3>1. T = {}
      BY <2>3, <2>9
    <3>2. QED
      BY <2>4, <2>5, <2>6, <2>9, <3>1
  <2>10. QED
    BY <2>7, <2>8, <2>9
<1>4. Written(b, vs, n) = Written(d, ws, n + 1)
  <2>1. Written(b, vs, n) = [c \in DataClusters |-> Written(b, vs, n)[c]]
    BY DEF Written
  <2>2. Written(d, ws, n + 1) = [c \in DataClusters |-> Written(d, ws, n + 1)[c]]
    BY DEF Written
  <2> HIDE DEF b
  <2>3. QED
    BY <1>3, <2>1, <2>2
<1>5. TableWritten(TableWritten(t, f, ws, 1), f, vs, n) = TableWritten(t, f, ws, n + 1)
  <2> DEFINE P(k, c) == ws[k].what = "fat" /\ ws[k].block = c \div FAT_BLOCK
  <2>1. \A c \in Clusters : (\E k \in 1 .. n + 1 : P(k, c)) <=> P(1, c) \/ \E k \in 1 .. n : P(k + 1, c)
    <3>1. \A k \in 1 .. n + 1 : k = 1 \/ (k - 1 \in 1 .. n /\ (k - 1) + 1 = k)
      BY <1>2
    <3>2. 1 \in 1 .. n + 1 /\ \A k \in 1 .. n : k + 1 \in 1 .. n + 1
      BY <1>2
    <3> HIDE DEF P
    <3>3. QED
      BY <3>1, <3>2
  <2>2. \A c \in Clusters : TableWritten(t, f, ws, n + 1)[c] = IF \E k \in 1 .. n + 1 : P(k, c) THEN f[c] ELSE t[c]
    BY DEF TableWritten
  <2>3. \A c \in Clusters : TableWritten(t, f, ws, 1)[c] = IF P(1, c) THEN f[c] ELSE t[c]
    BY DEF TableWritten
  <2>4. \A c \in Clusters : TableWritten(TableWritten(t, f, ws, 1), f, vs, n)[c] =
                              IF \E k \in 1 .. n : P(k + 1, c) THEN f[c] ELSE TableWritten(t, f, ws, 1)[c]
    BY <1>2 DEF TableWritten
  <2> HIDE DEF P
  <2>5. \A c \in Clusters : TableWritten(TableWritten(t, f, ws, 1), f, vs, n)[c] = TableWritten(t, f, ws, n + 1)[c]
    BY <2>1, <2>2, <2>3, <2>4
  <2>6. QED
    BY <2>5 DEF TableWritten
<1>6. QED
  BY <1>2, <1>4, <1>5 DEF Shifted, vs, b

IsSeq(ws) == ws \in Seq(SetOf(ws))

(* A sequence is one over its own elements. *)
LEMMA SeqOwn ==
  ASSUME NEW X, NEW ws \in Seq(X)
  PROVE  IsSeq(ws) /\ Len(ws) \in Nat
<1>1. Len(ws) \in Nat /\ ws = [k \in 1 .. Len(ws) |-> ws[k]]
  OBVIOUS
<1>2. \A k \in 1 .. Len(ws) : ws[k] \in SetOf(ws)
  BY DEF SetOf
<1>3. ws \in [1 .. Len(ws) -> SetOf(ws)]
  BY <1>1, <1>2
<1>4. ws \in Seq(SetOf(ws))
  BY <1>1, <1>3
<1>5. QED
  BY <1>1, <1>4 DEF IsSeq

(* ws is a, then b. *)
Joined(a, b, ws) ==
  /\ IsSeq(ws) /\ Len(a) \in Nat /\ Len(b) \in Nat /\ Len(ws) = Len(a) + Len(b)
  /\ \A k \in 1 .. Len(a) : k \in 1 .. Len(ws) /\ ws[k] = a[k]
  /\ \A k \in 1 .. Len(b) : Len(a) + k \in 1 .. Len(ws) /\ ws[Len(a) + k] = b[k]
  /\ \A k \in 1 .. Len(ws) : k \in 1 .. Len(a) \/ k - Len(a) \in 1 .. Len(b)

(* What concatenation gives. *)
LEMMA Join ==
  ASSUME NEW a, NEW b, IsSeq(a), IsSeq(b)
  PROVE  Joined(a, b, a \o b)
<1> DEFINE X == SetOf(a) \cup SetOf(b)
<1>1. a \in Seq(X) /\ b \in Seq(X)
  <2>1. a \in Seq(SetOf(a)) /\ b \in Seq(SetOf(b))
    BY DEF IsSeq
  <2>2. SetOf(a) \subseteq X /\ SetOf(b) \subseteq X
    OBVIOUS
  <2> HIDE DEF X
  <2>3. QED
    BY <2>1, <2>2
<1> HIDE DEF X
<1>2. /\ a \o b \in Seq(X) /\ Len(a \o b) = Len(a) + Len(b)
      /\ \A i \in 1 .. Len(a) + Len(b) : (a \o b)[i] = IF i <= Len(a) THEN a[i] ELSE b[i - Len(a)]
  BY <1>1, ConcatProperties
<1>3. Len(a) \in Nat /\ Len(b) \in Nat
  BY <1>1
<1>4. IsSeq(a \o b)
  BY <1>2, SeqOwn
<1>5. \A k \in 1 .. Len(a) : k \in 1 .. Len(a \o b) /\ (a \o b)[k] = a[k]
  BY <1>2, <1>3
<1>6. \A k \in 1 .. Len(b) : Len(a) + k \in 1 .. Len(a \o b) /\ (a \o b)[Len(a) + k] = b[k]
  <2> SUFFICES ASSUME NEW k \in 1 .. Len(b)
               PROVE  Len(a) + k \in 1 .. Len(a \o b) /\ (a \o b)[Len(a) + k] = b[k]
    OBVIOUS
  <2>1. Len(a) + k \in 1 .. Len(a) + Len(b) /\ ~ (Len(a) + k <= Len(a)) /\ (Len(a) + k) - Len(a) = k
    BY <1>3
  <2>2. QED
    BY <1>2, <2>1
<1>7. \A k \in 1 .. Len(a \o b) : k \in 1 .. Len(a) \/ k - Len(a) \in 1 .. Len(b)
  BY <1>2, <1>3
<1>8. QED
  BY <1>2, <1>3, <1>4, <1>5, <1>6, <1>7 DEF Joined

(* write_cluster_map writes every entry of the table, and nothing else. *)
LEMMA MapWrites ==
  ASSUME NEW f
  PROVE  /\ IsSeq(write_cluster_map(f)) /\ Len(write_cluster_map(f)) \in Nat
         /\ \A k \in 1 .. Len(write_cluster_map(f)) : write_cluster_map(f)[k] = WriteFatBlock(k - 1, f)
         /\ \A c \in Clusters : (c \div FAT_BLOCK) + 1 \in 1 .. Len(write_cluster_map(f))
<1> DEFINE N == CLUSTER_MAP_SIZE
           W == FAT_BLOCK
           Q == (N + W - 1) \div W
           M == write_cluster_map(f)
<1>1. N \in Nat /\ N > 3 /\ W \in Nat \ {0} /\ N + W - 1 \in Nat
  BY Fat32Assumption
<1>2. Q \in Nat
  <2> HIDE DEF N, W
  <2>1. QED
    BY <1>1, DivMod
<1>3. M = [k \in 1 .. Q |-> WriteFatBlock(k - 1, f)]
  BY DEF write_cluster_map
<1>4. \A c \in Clusters : c \in Nat /\ c + W <= N + W - 1
  <2> HIDE DEF W
  <2>1. QED
    BY <1>1 DEF Clusters
<1>5. ASSUME NEW c \in Nat, c + W <= N + W - 1 PROVE (c \div W) + 1 \in 1 .. Q
  <2> DEFINE q == c \div W
             r == c % W
             top == N + W - 1
  <2>1. q \in Nat /\ r \in 0 .. W - 1 /\ r = c - W * q
    <3> HIDE DEF W
    <3>1. QED
      BY <1>1, DivMod
  <2> HIDE DEF q, r, N, W
  <2>2. c + W = W * (q + 1) + r
    <3>1. W * (q + 1) = W * q + W
      BY <1>1, <2>1
    <3>2. W * q \in Nat /\ W * (q + 1) \in Nat
      BY <1>1, <2>1
    <3>3. QED
      BY <1>1, <1>5, <2>1, <3>1, <3>2
  <2>3. (c + W) \div W = q + 1
    <3>1. q + 1 \in Nat /\ c + W \in Nat
      BY <1>1, <1>5, <2>1
    <3>2. QED
      BY <1>1, <2>1, <2>2, <3>1, DivModUnique
  <2>4. top \in Nat /\ c + W \in Nat /\ c + W <= top
    BY <1>1, <1>5
  <2> HIDE DEF top
  <2>5. CASE c + W = top
    <3>1. Q = q + 1
      BY <2>3, <2>5 DEF top
    <3>2. QED
      BY <1>2, <2>1, <3>1 DEF q
  <2>6. CASE c + W # top
    <3>1. c + W < top
      BY <2>4, <2>6
    <3>2. (c + W) \div W < top \div W \/ (c + W) \div W = top \div W
      BY <1>1, <2>4, <3>1, DivMonotone
    <3>3. top \div W = Q
      BY DEF top
    <3> HIDE DEF Q
    <3>4. q + 1 <= Q
      BY <1>2, <2>1, <2>3, <3>2, <3>3
    <3>5. QED
      BY <1>2, <2>1, <3>4 DEF q
  <2>7. QED
    BY <2>5, <2>6
<1> HIDE DEF Q, N, W
<1>6. Len(M) = Q /\ IsSeq(M)
  <2>1. M \in Seq({M[k] : k \in 1 .. Q}) /\ Len(M) = Q
    <3> HIDE DEF M
    <3>1. \A k \in 1 .. Q : M[k] \in {M[j] : j \in 1 .. Q}
      OBVIOUS
    <3>2. M = [k \in 1 .. Q |-> M[k]]
      BY <1>3
    <3>3. QED
      BY <1>2, <3>1, <3>2
  <2>2. QED
    BY <2>1, SeqOwn
<1>7. \A c \in Clusters : (c \div W) + 1 \in 1 .. Q
  BY <1>4, <1>5
<1> HIDE DEF M
<1>8. Len(M) \in Nat /\ \A k \in 1 .. Len(M) : M[k] = WriteFatBlock(k - 1, f)
  BY <1>2, <1>3, <1>6
<1>9. QED
  BY <1>6, <1>7, <1>8 DEF M, W

(* Directory and data writes first, and then the table.                     *)
NoTableWrite(ws) == \A k \in 1 .. Len(ws) : ws[k].what # "fat"

(* The table is written after the clusters: until then it is the old one. *)
LEMMA TableLast ==
  ASSUME NEW d, DiskType(d), NEW t \in Fats, NEW f \in Fats, NEW a, IsSeq(a), NoTableWrite(a),
         NEW n \in 0 .. Len(a \o write_cluster_map(f))
  PROVE  /\ Len(a) \in Nat /\ n \in Nat
         /\ Len(a \o write_cluster_map(f)) = Len(a) + Len(write_cluster_map(f))
         /\ n <= Len(a) => /\ Written(d, a \o write_cluster_map(f), n) = Written(d, a, n)
                           /\ TableWritten(t, f, a \o write_cluster_map(f), n) = t
         /\ n >= Len(a) => Written(d, a \o write_cluster_map(f), n) = Written(d, a, Len(a))
         /\ n = Len(a) + Len(write_cluster_map(f)) => TableWritten(t, f, a \o write_cluster_map(f), n) = f
<1> DEFINE m == write_cluster_map(f)
           ws == a \o m
<1>1. /\ IsSeq(m) /\ Len(m) \in Nat /\ \A k \in 1 .. Len(m) : m[k] = WriteFatBlock(k - 1, f)
      /\ \A c \in Clusters : (c \div FAT_BLOCK) + 1 \in 1 .. Len(m)
  BY MapWrites
<1> HIDE DEF m
<1>2. /\ Len(a) \in Nat /\ Len(ws) = Len(a) + Len(m)
      /\ \A k \in 1 .. Len(a) : k \in 1 .. Len(ws) /\ ws[k] = a[k]
      /\ \A k \in 1 .. Len(m) : Len(a) + k \in 1 .. Len(ws) /\ ws[Len(a) + k] = m[k]
      /\ \A k \in 1 .. Len(ws) : k \in 1 .. Len(a) \/ k - Len(a) \in 1 .. Len(m)
  <2>1. Joined(a, m, ws)
    BY <1>1, Join
  <2>2. QED
    BY <2>1 DEF Joined
<1>3. n \in 0 .. Len(ws) /\ n \in Nat
  BY <1>1, <1>2 DEF m
<1> HIDE DEF ws
<1>4. \A k \in 1 .. Len(ws) : k > Len(a) => ws[k].what = "fat" /\ ws[k].what # "cluster"
  <2> SUFFICES ASSUME NEW k \in 1 .. Len(ws), k > Len(a) PROVE ws[k].what = "fat" /\ ws[k].what # "cluster"
    OBVIOUS
  <2>1. k - Len(a) \in 1 .. Len(m) /\ Len(a) + (k - Len(a)) = k
    BY <1>2
  <2>2. ws[k] = m[k - Len(a)]
    BY <1>2, <2>1
  <2>3. \A b : WriteFatBlock(b, f).what = "fat"
    BY DEF WriteFatBlock
  <2>4. ws[k] = WriteFatBlock((k - Len(a)) - 1, f)
    BY <1>1, <2>1, <2>2
  <2>5. QED
    BY <2>3, <2>4
<1>5. ASSUME n <= Len(a) PROVE Written(d, ws, n) = Written(d, a, n) /\ TableWritten(t, f, ws, n) = t
  <2>1. \A k \in 1 .. n : ws[k] = a[k] /\ k \in 1 .. Len(a)
    <3>1. \A k \in 1 .. n : k \in 1 .. Len(a)
      BY <1>2, <1>3, <1>5
    <3>2. QED
      BY <1>2, <3>1
  <2>2. \A c \in DataClusters : ToCluster(ws, n, c) = ToCluster(a, n, c)
    BY <2>1 DEF ToCluster
  <2>3. Written(d, ws, n) = Written(d, a, n)
    <3>1. ASSUME NEW c \in DataClusters PROVE Written(d, ws, n)[c] = Written(d, a, n)[c]
      <4>1. CASE ToCluster(a, n, c) = {}
        BY <1>3, <2>2, <4>1, WrittenIs
      <4>2. CASE ToCluster(a, n, c) # {}
        <5>1. PICK k \in ToCluster(a, n, c) : \A l \in ToCluster(a, n, c) : l <= k
          BY <1>3, <4>2, WrittenIs
        <5>2. Written(d, ws, n)[c] = ws[k].content /\ Written(d, a, n)[c] = a[k].content
          BY <1>3, <2>2, <5>1, WrittenIs
        <5>3. k \in 1 .. n
          BY DEF ToCluster
        <5>4. QED
          BY <2>1, <5>2, <5>3
      <4>3. QED
        BY <4>1, <4>2
    <3>2. QED
      BY <3>1 DEF Written
  <2>4. TableWritten(t, f, ws, n) = t
    <3>1. \A k \in 1 .. n : ws[k].what # "fat"
      BY <2>1 DEF NoTableWrite
    <3>2. TableWritten(t, f, ws, n) = [c \in Clusters |-> t[c]]
      BY <3>1 DEF TableWritten
    <3>3. QED
      BY <3>2 DEF Fats
  <2>5. QED
    BY <2>3, <2>4
<1>6. ASSUME n >= Len(a) PROVE Written(d, ws, n) = Written(d, a, Len(a))
  <2>1. \A k \in 1 .. n : ws[k].what = "cluster" => k \in 1 .. Len(a)
    BY <1>2, <1>3, <1>4
  <2>2. \A k \in 1 .. Len(a) : k \in 1 .. n /\ ws[k] = a[k]
    BY <1>2, <1>3, <1>6
  <2>3. \A c \in DataClusters : ToCluster(ws, n, c) = ToCluster(a, Len(a), c)
    BY <2>1, <2>2 DEF ToCluster
  <2>4. ASSUME NEW c \in DataClusters PROVE Written(d, ws, n)[c] = Written(d, a, Len(a))[c]
    <3>1. CASE ToCluster(a, Len(a), c) = {}
      BY <1>2, <1>3, <2>3, <3>1, WrittenIs
    <3>2. CASE ToCluster(a, Len(a), c) # {}
      <4>1. PICK k \in ToCluster(a, Len(a), c) : \A l \in ToCluster(a, Len(a), c) : l <= k
        BY <1>2, <3>2, WrittenIs
      <4>2. Written(d, ws, n)[c] = ws[k].content /\ Written(d, a, Len(a))[c] = a[k].content
        BY <1>2, <1>3, <2>3, <4>1, WrittenIs
      <4>3. k \in 1 .. Len(a)
        BY DEF ToCluster
      <4>4. QED
        BY <2>2, <4>2, <4>3
    <3>3. QED
      BY <3>1, <3>2
  <2>5. QED
    BY <2>4 DEF Written
<1>7. ASSUME n = Len(a) + Len(m) PROVE TableWritten(t, f, ws, n) = f
  <2>1. ASSUME NEW c \in Clusters PROVE TableWritten(t, f, ws, n)[c] = f[c]
    <3> DEFINE k == (c \div FAT_BLOCK) + 1
    <3>1. k \in 1 .. Len(m) /\ k - 1 = c \div FAT_BLOCK
      <4>1. (c \div FAT_BLOCK) \in Nat
        <5>1. c \in Nat /\ FAT_BLOCK \in Nat \ {0}
          BY Fat32Assumption DEF Clusters
        <5>2. QED
          BY <5>1, DivMod
      <4>2. QED
        BY <1>1, <4>1
    <3> HIDE DEF k
    <3>2. Len(a) + k \in 1 .. n /\ ws[Len(a) + k] = WriteFatBlock(c \div FAT_BLOCK, f)
      BY <1>1, <1>2, <1>7, <3>1
    <3>3. ws[Len(a) + k].what = "fat" /\ ws[Len(a) + k].block = c \div FAT_BLOCK
      BY <3>2 DEF WriteFatBlock
    <3>4. QED
      BY <3>2, <3>3 DEF TableWritten
  <2>2. QED
    BY <2>1 DEF TableWritten, Fats
<1>8. QED
  BY <1>2, <1>3, <1>5, <1>6, <1>7 DEF m, ws

-----------------------------------------------------------------------------
(* What the writes of an operation leave on the disk, part of them made *)

(* First the contents X of the clusters cs, then y in cluster p.            *)
AddWrites(a, cs, X, p, y) ==
  /\ Len(a) = Len(cs) + 1
  /\ \A k \in 1 .. Len(cs) : a[k] = WriteCluster(cs[k], X[k])
  /\ a[Len(cs) + 1] = WriteCluster(p, y)

(* First y in cluster p, then zeroes in the clusters cs.                    *)
RemoveWrites(a, cs, p, y) ==
  /\ Len(a) = Len(cs) + 1
  /\ a[1] = WriteCluster(p, y)
  /\ \A k \in 1 .. Len(cs) : a[k + 1] = WriteCluster(cs[k], Zeroes)

(* The fields of a cluster write. *)
LEMMA WriteClusterIs ==
  ASSUME NEW c, NEW x
  PROVE  /\ WriteCluster(c, x).what = "cluster" /\ WriteCluster(c, x).cluster = c
         /\ WriteCluster(c, x).content = x
BY DEF WriteCluster

AddLeaves(d, a, n, cs, X, p, y) ==
  /\ \A k \in 1 .. Len(cs) : n = Len(a) => Written(d, a, n)[cs[k]] = X[k]
  /\ Written(d, a, n)[p] = IF n = Len(a) THEN y ELSE d[p]
  /\ \A c \in DataClusters : c \notin SetOf(cs) /\ c # p => Written(d, a, n)[c] = d[c]

RemoveLeaves(d, a, n, cs, p, y) ==
  /\ Written(d, a, n)[p] = IF n = 0 THEN d[p] ELSE y
  /\ \A c \in DataClusters : c \notin SetOf(cs) /\ c # p => Written(d, a, n)[c] = d[c]

(* The disk after the first n of the writes that add. *)
LEMMA AddWritten ==
  ASSUME NEW d, NEW a, NEW cs, Distinct(cs), NEW X, NEW p \in DataClusters, p \notin SetOf(cs), NEW y,
         AddWrites(a, cs, X, p, y), NEW n \in 0 .. Len(a)
  PROVE  AddLeaves(d, a, n, cs, X, p, y)
<1> DEFINE m == Len(cs)
<1>1. /\ m \in Nat /\ \A k \in 1 .. m : cs[k] \in DataClusters
      /\ \A j, k \in 1 .. m : cs[j] = cs[k] => j = k
  BY DEF Distinct
<1>2. /\ Len(a) = m + 1
      /\ \A k \in 1 .. m : a[k].what = "cluster" /\ a[k].cluster = cs[k] /\ a[k].content = X[k] /\ a[k].cluster # p
      /\ a[m + 1].what = "cluster" /\ a[m + 1].cluster = p /\ a[m + 1].content = y
  BY WriteClusterIs DEF AddWrites, SetOf
<1> HIDE DEF m
<1>3. n \in Nat /\ \A k \in 1 .. n : k \in 1 .. m \/ (k = m + 1 /\ n = Len(a))
  BY <1>1, <1>2
<1>4. ASSUME NEW k \in 1 .. m, n = Len(a) PROVE Written(d, a, n)[cs[k]] = X[k]
  <2>1. k \in 1 .. n /\ a[k].what = "cluster" /\ a[k].cluster = cs[k]
    BY <1>1, <1>2, <1>4
  <2>2. \A l \in 1 .. n : l # k /\ a[l].what = "cluster" => a[l].cluster # cs[k]
    BY <1>1, <1>2, <1>3
  <2>3. Written(d, a, n)[cs[k]] = a[k].content
    BY <1>1, <1>3, <2>1, <2>2, WrittenOnce
  <2>4. QED
    BY <1>2, <2>3
<1>5. Written(d, a, n)[p] = IF n = Len(a) THEN y ELSE d[p]
  <2>1. CASE n = Len(a)
    <3>1. m + 1 \in 1 .. n
      BY <1>1, <1>2, <2>1
    <3>2. \A l \in 1 .. n : l # m + 1 /\ a[l].what = "cluster" => a[l].cluster # p
      BY <1>2, <1>3
    <3>3. Written(d, a, n)[p] = a[m + 1].content
      BY <1>2, <1>3, <3>1, <3>2, WrittenOnce
    <3>4. QED
      BY <1>2, <2>1, <3>3
  <2>2. CASE n # Len(a)
    <3>1. \A l \in 1 .. n : a[l].what = "cluster" => a[l].cluster # p
      BY <1>2, <1>3, <2>2
    <3>2. QED
      BY <1>3, <2>2, <3>1, WrittenNever
  <2>3. QED
    BY <2>1, <2>2
<1>6. ASSUME NEW c \in DataClusters, c \notin SetOf(cs), c # p PROVE Written(d, a, n)[c] = d[c]
  <2>1. \A k \in 1 .. m : cs[k] # c
    BY <1>6 DEF SetOf, m
  <2>2. \A l \in 1 .. n : a[l].what = "cluster" => a[l].cluster # c
    BY <1>2, <1>3, <1>6, <2>1
  <2>3. QED
    BY <1>3, <2>2, WrittenNever
<1>7. QED
  BY <1>4, <1>5, <1>6 DEF m, AddLeaves

(* The disk after the first n of the writes that remove. *)
LEMMA RemoveWritten ==
  ASSUME NEW d, NEW a, NEW cs, Distinct(cs), NEW p \in DataClusters, p \notin SetOf(cs), NEW y,
         RemoveWrites(a, cs, p, y), NEW n \in 0 .. Len(a)
  PROVE  RemoveLeaves(d, a, n, cs, p, y)
<1> DEFINE m == Len(cs)
<1>1. m \in Nat /\ \A k \in 1 .. m : cs[k] \in DataClusters
  BY DEF Distinct
<1>2. /\ Len(a) = m + 1
      /\ \A k \in 1 .. m : a[k + 1].what = "cluster" /\ a[k + 1].cluster = cs[k] /\ cs[k] # p
      /\ a[1].what = "cluster" /\ a[1].cluster = p /\ a[1].content = y
  BY WriteClusterIs DEF RemoveWrites, SetOf
<1> HIDE DEF m
<1>3. n \in Nat /\ \A l \in 1 .. n : l # 1 => l - 1 \in 1 .. m /\ (l - 1) + 1 = l
  BY <1>1, <1>2
<1>4. \A l \in 1 .. n : l # 1 => l - 1 \in 1 .. m /\ a[l].cluster = cs[l - 1]
  <2> SUFFICES ASSUME NEW l \in 1 .. n, l # 1 PROVE l - 1 \in 1 .. m /\ a[l].cluster = cs[l - 1]
    OBVIOUS
  <2>1. l - 1 \in 1 .. m /\ (l - 1) + 1 = l
    BY <1>3
  <2>2. a[(l - 1) + 1].cluster = cs[l - 1]
    BY <1>2, <2>1
  <2>3. QED
    BY <2>1, <2>2
<1>5. Written(d, a, n)[p] = IF n = 0 THEN d[p] ELSE y
  <2>1. CASE n = 0
    BY <1>3, <2>1, WrittenNever
  <2>2. CASE n # 0
    <3>1. 1 \in 1 .. n
      BY <1>3, <2>2
    <3>2. \A l \in 1 .. n : l # 1 /\ a[l].what = "cluster" => a[l].cluster # p
      BY <1>2, <1>4
    <3>3. Written(d, a, n)[p] = a[1].content
      BY <1>2, <1>3, <3>1, <3>2, WrittenOnce
    <3>4. QED
      BY <1>2, <2>2, <3>3
  <2>3. QED
    BY <2>1, <2>2
<1>6. ASSUME NEW c \in DataClusters, c \notin SetOf(cs), c # p PROVE Written(d, a, n)[c] = d[c]
  <2>1. \A k \in 1 .. m : cs[k] # c
    BY <1>6 DEF SetOf, m
  <2>2. \A l \in 1 .. n : a[l].what = "cluster" => a[l].cluster # c
    BY <1>2, <1>4, <1>6, <2>1
  <2>3. QED
    BY <1>3, <2>2, WrittenNever
<1>7. QED
  BY <1>5, <1>6 DEF RemoveLeaves

-----------------------------------------------------------------------------
(* Entries that an operation leaves alone *)

LEMMA ChainSound ==
  ASSUME NEW f, NEW x, HasChain(f, x)
  PROVE  Sound(f, x)
<1> DEFINE cs == ClustersOf(f, x)
<1>1. IsChain(f, cs) /\ cs[1] = x.entry.cluster /\ (x.entry.dir \/ Len(cs) = x.entry.filesize)
  BY DEF HasChain
<1>2. CASE x.entry.dir
  <2>1. cs = <<x.entry.cluster>>
    BY <1>2 DEF ClustersOf
  <2>2. Len(cs) = 1 /\ f[cs[1]] = FAT32_FAT_END_OF_FILE
    <3>1. Len(cs) = 1
      BY <2>1
    <3> HIDE DEF cs
    <3>2. QED
      BY <1>1, <3>1 DEF IsChain
  <2>3. QED
    BY <1>1, <1>2, <2>2 DEF Sound
<1>3. CASE ~ x.entry.dir
  <2> HIDE DEF cs
  <2>1. WalkEnds(f, cs[1]) /\ SetOf(cs) \subseteq DataClusters
    BY <1>1, ChainWalk, ChainOwned
  <2>2. QED
    BY <1>1, <1>3, <2>1 DEF Sound, cs
<1>4. QED
  BY <1>2, <1>3

(* An entry whose chain is the same in two tables, and its data on two      *)
(* disks, is stored alike.                                                  *)
LEMMA StoredAlike ==
  ASSUME NEW f, NEW x, HasChain(f, x), NEW t, NEW g, NEW d, NEW e,
         \A c \in OwnedBy(f, x) : t[c] = f[c] /\ g[c] = f[c],
         ~ x.entry.dir => \A c \in OwnedBy(f, x) : d[c] = e[c]
  PROVE  Sound(t, x) /\ Stored(d, t, x) = Stored(e, g, x)
<1> DEFINE cs == ClustersOf(f, x)
<1>1. HasChain(t, x) /\ ClustersOf(t, x) = cs
  <2>1. \A c \in OwnedBy(f, x) : t[c] = f[c]
    OBVIOUS
  <2>2. QED
    BY <2>1, EntryChainKept
<1>2. HasChain(g, x) /\ ClustersOf(g, x) = cs
  <2>1. \A c \in OwnedBy(f, x) : g[c] = f[c]
    OBVIOUS
  <2>2. QED
    BY <2>1, EntryChainKept
<1>3. Sound(t, x)
  BY <1>1, ChainSound
<1>4. CASE x.entry.dir
  <2>1. Stored(d, t, x) = Stored(e, g, x)
    BY <1>4 DEF Stored
  <2>2. QED
    BY <1>3, <2>1
<1>5. CASE ~ x.entry.dir
  <2>1. Walk(t, x.entry.cluster) = cs /\ Walk(g, x.entry.cluster) = cs
    BY <1>1, <1>2, <1>5 DEF ClustersOf
  <2>2. \A k \in 1 .. Len(cs) : d[cs[k]] = e[cs[k]]
    BY <1>5 DEF OwnedBy, SetOf
  <2> HIDE DEF cs
  <2>3. [k \in 1 .. Len(cs) |-> d[cs[k]].data] = [k \in 1 .. Len(cs) |-> e[cs[k]].data]
    BY <2>2
  <2>4. QED
    BY <1>3, <1>5, <2>1, <2>3 DEF Stored
<1>6. QED
  BY <1>3, <1>4, <1>5

-----------------------------------------------------------------------------
(* What holds while an operation is under way *)

AgreeOn(f, g, x) == \A c \in OwnedBy(f, x) : g[c] = f[c]
SameData(f, d, e, x) == ~ x.entry.dir => \A c \in OwnedBy(f, x) : d[c] = e[c]

(* The disk b with table t stands between d with f and e with g.            *)
Between(d, f, b, t, e, g, key) ==
  /\ \A x \in Entries(d) : HasChain(f, x)
  /\ \A x \in Entries(e) : KeyOf(x) # key => x \in Entries(d) /\ x \in Entries(b)
  /\ \A x \in Entries(b) : x \in Entries(d) \/ (KeyOf(x) = key /\ x \in Entries(e))
  /\ \A x \in Entries(d) : x \in Entries(b) => AgreeOn(f, t, x)
  /\ \A x \in Entries(d) : x \in Entries(e) => AgreeOn(f, g, x) /\ SameData(f, b, e, x)

(* A disk that stands between holds the rest. *)
LEMMA BetweenHolds ==
  ASSUME NEW d, NEW f, NEW b, NEW t, NEW e, NEW g, NEW key, Between(d, f, b, t, e, g, key)
  PROVE  Holds(b, t, g, e, key)
<1>1. ASSUME NEW x \in Entries(e), KeyOf(x) # key
      PROVE  x \in Entries(b) /\ Sound(t, x) /\ Stored(b, t, x) = Stored(e, g, x)
  <2>1. x \in Entries(d) /\ x \in Entries(b)
    BY <1>1 DEF Between
  <2>2. HasChain(f, x) /\ AgreeOn(f, t, x) /\ AgreeOn(f, g, x) /\ SameData(f, b, e, x)
    BY <2>1 DEF Between
  <2>3. \A c \in OwnedBy(f, x) : t[c] = f[c] /\ g[c] = f[c]
    BY <2>2 DEF AgreeOn
  <2>4. ~ x.entry.dir => \A c \in OwnedBy(f, x) : b[c] = e[c]
    BY <2>2 DEF SameData
  <2>5. QED
    BY <2>1, <2>2, <2>3, <2>4, StoredAlike
<1>2. ASSUME NEW x \in Entries(b), ~ Sound(t, x) PROVE KeyOf(x) = key /\ x \in Entries(e)
  <2>1. CASE x \in Entries(d)
    <3>1. HasChain(f, x) /\ AgreeOn(f, t, x)
      BY <2>1 DEF Between
    <3>2. HasChain(t, x)
      BY <3>1, EntryChainKept DEF AgreeOn
    <3>3. QED
      BY <1>2, <3>2, ChainSound
  <2>2. CASE x \notin Entries(d)
    BY <2>2 DEF Between
  <2>3. QED
    BY <2>1, <2>2
<1>3. QED
  BY <1>1, <1>2 DEF Holds

(* A settled disk holds all there is. *)
LEMMA SettledHolds ==
  ASSUME NEW t, NEW d, DiskType(d), NEW f, Settled(t, d, f), NEW key
  PROVE  Holds(d, t, f, d, key)
<1>1. CASE Entries(d) = {}
  BY <1>1 DEF Holds
<1>2. CASE Entries(d) # {}
  <2>1. Consistent(d, f) /\ t = f
    BY <1>2, BlankHasNothing DEF Settled
  <2>2. Between(d, f, d, f, d, f, key)
    BY <2>1 DEF Between, AgreeOn, SameData, Consistent
  <2>3. QED
    BY <2>1, <2>2, BetweenHolds
<1>3. QED
  BY <1>1, <1>2

(* A blank disk to the end of an operation. *)
LEMMA BlankHolds ==
  ASSUME NEW b, NEW t, NEW e, NEW f, DiskType(b), DiskType(e), Blank(b), Blank(e), NEW key
  PROVE  Holds(b, t, f, e, key)
BY BlankHasNothing DEF Holds

(* The table written is between the old one and the new one, and these      *)
(* agree on what an entry owns.                                             *)
LEMMA TableBetween ==
  ASSUME NEW t \in Fats, NEW f, NEW g \in Fats, NEW ws, NEW n, NEW x, HasChain(f, x), t = f, AgreeOn(f, g, x)
  PROVE  AgreeOn(f, TableWritten(t, g, ws, n), x)
<1>1. \A c \in OwnedBy(f, x) : c \in Clusters
  BY OwnedOnDisk DEF DataClusters, Clusters
<1>2. \A c \in Clusters : TableWritten(t, g, ws, n)[c] \in {t[c], g[c]}
  BY TableWrittenType
<1>3. QED
  BY <1>1, <1>2 DEF AgreeOn

-----------------------------------------------------------------------------
(* Creating a file or a folder *)

(* On disk d with table t, f in memory: entry x for slot s of folder p,     *)
(* with the clusters cs of contents X; y is the new content of p and g the  *)
(* new table; a are the writes that come before those of the table.         *)
AddPlan(d, t, f, g, a, p, s, cs, X, x, y) ==
  /\ DiskType(d) /\ t \in Fats /\ f \in Fats
  /\ Consistent(d, f) /\ (t = f \/ (t = NoFat /\ Blank(d)))
  /\ p \in Folders(d) /\ s \in Slots /\ s >= 2 /\ ~ InUse(Table(d, p)[s])
  /\ Distinct(cs) /\ Free(f, cs) /\ g = Chained(f, cs) /\ Describes(x, cs)
  /\ IsSeq(a) /\ AddWrites(a, cs, X, p, y)
  /\ y \in Contents /\ y.table = [Table(d, p) EXCEPT ![s] = x]
  /\ \A k \in 1 .. Len(cs) : X[k] \in Contents /\ \A u \in Slots : u >= 2 => ~ InUse(X[k].table[u])
  /\ x.dir => X[1].table[0].dir /\ X[1].table[1].dir

(* The plan writes only clusters of the disk. *)
LEMMA AddPlanWrites ==
  ASSUME NEW d, NEW t, NEW f, NEW g, NEW a, NEW p, NEW s, NEW cs, NEW X, NEW x, NEW y,
         AddPlan(d, t, f, g, a, p, s, cs, X, x, y)
  PROVE  /\ p \in DataClusters /\ p \notin SetOf(cs) /\ Distinct(cs) /\ AddWrites(a, cs, X, p, y)
         /\ IsChain(g, cs) /\ g \in Fats /\ SameTableElsewhere(f, g, SetOf(cs))
         /\ NoTableWrite(a) /\ IsSeq(a) /\ Len(a) \in Nat /\ Len(a) = Len(cs) + 1 /\ Len(cs) \in Nat
         /\ WritesOK(g, a \o write_cluster_map(g))
<1>1. /\ DiskType(d) /\ Consistent(d, f) /\ f \in Fats /\ p \in Folders(d) /\ Distinct(cs) /\ Free(f, cs)
      /\ g = Chained(f, cs) /\ IsSeq(a) /\ AddWrites(a, cs, X, p, y) /\ y \in Contents
      /\ \A k \in 1 .. Len(cs) : X[k] \in Contents
  BY DEF AddPlan
<1>2. p \in DataClusters /\ p \notin SetOf(cs)
  BY <1>1, FoldersClosed, FolderInUse DEF Free
<1>3. IsChain(g, cs) /\ g \in Fats /\ SameTableElsewhere(f, g, SetOf(cs))
  BY <1>1, ChainedGives
<1>4. Len(cs) \in Nat /\ \A k \in 1 .. Len(cs) : cs[k] \in DataClusters
  BY <1>1 DEF Distinct
<1>5. Len(a) = Len(cs) + 1 /\ \A k \in 1 .. Len(a) : k \in 1 .. Len(cs) \/ k = Len(cs) + 1
  BY <1>1, <1>4 DEF AddWrites
<1>6. \A k \in 1 .. Len(a) : \E c \in DataClusters, z \in Contents : a[k] = WriteCluster(c, z)
  BY <1>1, <1>2, <1>4, <1>5 DEF AddWrites
<1>7. \A c \in DataClusters, z \in Contents : IsWrite(g, WriteCluster(c, z)) /\ WriteCluster(c, z).what # "fat"
  BY WriteClusterIs DEF IsWrite
<1>8. NoTableWrite(a)
  BY <1>6, <1>7 DEF NoTableWrite
<1>9. WritesOK(g, a \o write_cluster_map(g))
  <2> DEFINE m == write_cluster_map(g)
             ws == a \o m
  <2>1. IsSeq(m) /\ \A k \in 1 .. Len(m) : m[k] = WriteFatBlock(k - 1, g)
    BY MapWrites
  <2>2. \A b : IsWrite(g, WriteFatBlock(b, g))
    BY DEF IsWrite, WriteFatBlock
  <2> HIDE DEF m
  <2>3. /\ IsSeq(ws)
        /\ \A k \in 1 .. Len(a) : ws[k] = a[k]
        /\ \A k \in 1 .. Len(m) : ws[Len(a) + k] = m[k]
        /\ \A k \in 1 .. Len(ws) : k \in 1 .. Len(a) \/ k - Len(a) \in 1 .. Len(m)
    <3>1. Joined(a, m, ws)
      BY <1>1, <2>1, Join
    <3>2. QED
      BY <3>1 DEF Joined
  <2> HIDE DEF ws
  <2>4. ASSUME NEW k \in 1 .. Len(ws) PROVE IsWrite(g, ws[k])
    <3>1. CASE k \in 1 .. Len(a)
      BY <1>6, <1>7, <2>3, <3>1
    <3>2. CASE k - Len(a) \in 1 .. Len(m)
      <4>1. Len(a) + (k - Len(a)) = k
        BY <1>4, <1>5
      <4>2. ws[k] = WriteFatBlock((k - Len(a)) - 1, g)
        BY <2>1, <2>3, <3>2, <4>1
      <4>3. QED
        BY <2>2, <4>2
    <3>3. QED
      BY <2>3, <3>1, <3>2
  <2>5. WritesOK(g, ws)
    BY <2>3, <2>4 DEF WritesOK, IsSeq
  <2>6. QED
    BY <2>5 DEF ws, m
<1>10. QED
  BY <1>1, <1>2, <1>3, <1>4, <1>5, <1>8, <1>9

(* The plan adds one entry. *)
LEMMA AddPlanAdded ==
  ASSUME NEW d, NEW t, NEW f, NEW g, NEW a, NEW p, NEW s, NEW cs, NEW X, NEW x, NEW y,
         AddPlan(d, t, f, g, a, p, s, cs, X, x, y), DiskType(Written(d, a, Len(a)))
  PROVE  Added(d, f, Written(d, a, Len(a)), g, p, s, cs, x)
<1> DEFINE e == Written(d, a, Len(a))
<1>1. /\ p \in DataClusters /\ p \notin SetOf(cs) /\ Distinct(cs) /\ AddWrites(a, cs, X, p, y)
      /\ IsChain(g, cs) /\ g \in Fats /\ SameTableElsewhere(f, g, SetOf(cs)) /\ Len(a) \in 0 .. Len(a)
      /\ Len(cs) \in Nat /\ Len(cs) >= 1
  <2>1. Len(cs) >= 1 /\ \A l \in Nat : l \in 0 .. l
    BY AddPlanWrites DEF Distinct
  <2>2. QED
    BY <2>1, AddPlanWrites
<1>2. /\ \A k \in 1 .. Len(cs) : e[cs[k]] = X[k]
      /\ e[p] = y
      /\ \A c \in DataClusters : c \notin SetOf(cs) /\ c # p => e[c] = d[c]
  <2>1. AddLeaves(d, a, Len(a), cs, X, p, y)
    BY <1>1, AddWritten
  <2>2. QED
    BY <2>1 DEF AddLeaves
<1> HIDE DEF e
<1>3. /\ DiskType(d) /\ Consistent(d, f) /\ p \in Folders(d) /\ s \in Slots /\ s >= 2 /\ ~ InUse(Table(d, p)[s])
      /\ Free(f, cs) /\ Describes(x, cs) /\ y.table = [Table(d, p) EXCEPT ![s] = x]
      /\ \A k \in 1 .. Len(cs) : \A u \in Slots : u >= 2 => ~ InUse(X[k].table[u])
      /\ x.dir => X[1].table[0].dir /\ X[1].table[1].dir
  BY DEF AddPlan
<1>4. Fills(e, cs, x)
  <2>1. \A k \in 1 .. Len(cs) : Table(e, cs[k]) = X[k].table
    BY <1>2 DEF Table
  <2>2. 1 \in 1 .. Len(cs)
    BY <1>1
  <2>3. QED
    BY <1>3, <2>1, <2>2 DEF Fills, SetOf
<1>5. Table(e, p) = [Table(d, p) EXCEPT ![s] = x]
  BY <1>2, <1>3 DEF Table
<1>6. SameElsewhere(d, e, SetOf(cs), p)
  BY <1>2 DEF SameElsewhere, Table
<1>7. DiskType(e)
  BY DEF e
<1>8. QED
  BY <1>1, <1>3, <1>4, <1>5, <1>6, <1>7 DEF Added, e

(* Creating keeps the promise. *)
LEMMA AddPlanPromise ==
  ASSUME NEW d, NEW t, NEW f, NEW g, NEW a, NEW p, NEW s, NEW cs, NEW X, NEW x, NEW y,
         AddPlan(d, t, f, g, a, p, s, cs, X, x, y), NEW sig, sig, NEW key,
         key = KeyOf([folder |-> p, slot |-> s, entry |-> x])
  PROVE  Promised(sig, t, d, g, a \o write_cluster_map(g), key)
<1> DEFINE m == write_cluster_map(g)
           ws == a \o m
           L == Len(ws)
           e == Written(d, a, Len(a))
           new == EntryAt(e, p, s)
<1>1. /\ p \in DataClusters /\ p \notin SetOf(cs) /\ Distinct(cs) /\ AddWrites(a, cs, X, p, y)
      /\ g \in Fats /\ NoTableWrite(a) /\ IsSeq(a) /\ Len(a) \in Nat
      /\ WritesOK(g, ws) /\ Len(a) = Len(cs) + 1 /\ Len(cs) \in Nat
  BY AddPlanWrites
<1>2. /\ DiskType(d) /\ t \in Fats /\ f \in Fats /\ Consistent(d, f) /\ (t = f \/ (t = NoFat /\ Blank(d)))
      /\ Free(f, cs)
  BY DEF AddPlan
<1>3. Len(m) \in Nat /\ L = Len(a) + Len(m) /\ L \in Nat /\ L \in 0 .. L /\ Len(a) \in 0 .. L
  <2>1. IsSeq(m) /\ Len(m) \in Nat
    BY MapWrites
  <2>2. L = Len(a) + Len(m)
    <3>1. Joined(a, m, ws)
      BY <1>1, <2>1, Join
    <3>2. QED
      BY <3>1 DEF Joined
  <2> HIDE DEF m, ws, L
  <2>3. QED
    BY <1>1, <2>1, <2>2
<1>4. Written(d, ws, L) = e /\ TableWritten(t, g, ws, L) = g /\ Written(d, ws, Len(a)) = e
  <2>1. L >= Len(a) /\ Len(a) >= Len(a) /\ L = Len(a) + Len(m)
    BY <1>1, <1>3
  <2>2. QED
    BY <1>1, <1>2, <1>3, <2>1, TableLast
<1>5. DiskType(e)
  <2>1. DiskType(Written(d, ws, L))
    BY <1>1, <1>2, <1>3, WrittenType
  <2>2. QED
    BY <1>4, <2>1
<1>6. Added(d, f, e, g, p, s, cs, x)
  BY <1>5, AddPlanAdded
<1>7. Consistent(e, g)
  BY <1>6, AddedConsistent
<1>8. Entries(e) = Entries(d) \cup {new} /\ new.entry = x /\ KeyOf(new) = key
  <2>1. Entries(e) = Entries(d) \cup {new} /\ new.entry = x
    BY <1>6, AddedEntries
  <2>2. new.folder = p /\ new.slot = s
    BY DEF EntryAt
  <2> HIDE DEF new
  <2>3. KeyOf(new) = key
    BY <2>1, <2>2 DEF KeyOf
  <2>4. QED
    BY <2>1, <2>3
<1>9. \A z \in Entries(d) :
        HasChain(f, z) /\ OwnedBy(g, z) = OwnedBy(f, z) /\ OwnedBy(f, z) \cap SetOf(cs) = {} /\ AgreeOn(f, g, z)
  <2>1. \A z \in Entries(d) :
          HasChain(f, z) /\ OwnedBy(g, z) = OwnedBy(f, z) /\ OwnedBy(f, z) \cap SetOf(cs) = {}
    BY <1>6, AddedChains
  <2>2. \A z \in Entries(d) : AgreeOn(f, g, z)
    BY <2>1, OwnedOnDisk, AddPlanWrites DEF AgreeOn, SameTableElsewhere, Clusters, DataClusters
  <2>3. QED
    BY <2>1, <2>2
<1>10. ASSUME NEW n \in 0 .. L
       PROVE  Holds(Written(d, ws, n), TableWritten(t, g, ws, n), g, e, key)
  <2> DEFINE b == Written(d, ws, n)
             tn == TableWritten(t, g, ws, n)
  <2>1. DiskType(b)
    BY <1>1, <1>2, WrittenType
  <2>2. Entries(b) = Entries(d) \/ Entries(b) = Entries(e)
    <3>1. CASE n < Len(a)
      <4>1. n \in 0 .. Len(a) /\ n # Len(a) /\ n <= Len(a) /\ n \in Nat
        BY <1>1, <3>1
      <4>2. b = Written(d, a, n)
        BY <1>1, <1>2, <4>1, TableLast
      <4>3. /\ Written(d, a, n)[p] = d[p]
            /\ \A c \in DataClusters : c \notin SetOf(cs) /\ c # p => Written(d, a, n)[c] = d[c]
        <5>1. AddLeaves(d, a, n, cs, X, p, y)
          BY <1>1, <4>1, AddWritten
        <5>2. QED
          BY <4>1, <5>1 DEF AddLeaves
      <4>4. \A c \in Folders(d) : c \in DataClusters /\ c \notin SetOf(cs)
        BY <1>2, <1>6, FoldersClosed, AddedTables
      <4>5. SameTables(d, b)
        BY <4>2, <4>3, <4>4 DEF SameTables, Table
      <4> HIDE DEF b
      <4>6. QED
        BY <1>2, <2>1, <4>5, SameFolders
    <3>2. CASE ~ (n < Len(a))
      <4>1. n >= Len(a)
        BY <1>1, <1>3, <3>2
      <4>2. b = e
        BY <1>1, <1>2, <4>1, TableLast
      <4>3. QED
        BY <4>2
    <3>3. QED
      BY <3>1, <3>2
  <2>3. ASSUME NEW z \in Entries(d) PROVE AgreeOn(f, tn, z)
    <3>1. t = f
      BY <1>2, BlankHasNothing
    <3>2. QED
      BY <1>1, <1>2, <1>9, <3>1, TableBetween
  <2>4. ASSUME NEW z \in Entries(d) PROVE SameData(f, b, e, z)
    <3> SUFFICES ASSUME ~ z.entry.dir, NEW c \in OwnedBy(f, z) PROVE b[c] = e[c]
      BY DEF SameData
    <3>1. c \in DataClusters /\ c \notin SetOf(cs)
      BY <1>9, OwnedOnDisk
    <3>2. c # p
      BY <1>2, FolderOwnedByItsEntry DEF AddPlan
    <3>3. \A k \in 0 .. Len(a) : Written(d, a, k)[c] = d[c]
      <4>1. \A k \in 0 .. Len(a) : AddLeaves(d, a, k, cs, X, p, y)
        BY <1>1, AddWritten
      <4>2. QED
        BY <3>1, <3>2, <4>1 DEF AddLeaves
    <3>4. e[c] = d[c]
      BY <1>1, <3>3
    <3>5. CASE n <= Len(a)
      <4>1. b = Written(d, a, n)
        BY <1>1, <1>2, <3>5, TableLast
      <4>2. n \in 0 .. Len(a)
        BY <1>1, <3>5
      <4>3. QED
        BY <3>3, <3>4, <4>1, <4>2
    <3>6. CASE ~ (n <= Len(a))
      <4>1. n >= Len(a)
        BY <1>1, <1>3, <3>6
      <4>2. b = e
        BY <1>1, <1>2, <4>1, TableLast
      <4>3. QED
        BY <4>2
    <3>7. QED
      BY <3>5, <3>6
  <2> HIDE DEF b, tn, new, e
  <2>5. Between(d, f, b, tn, e, g, key)
    <3>1. \A z \in Entries(e) : KeyOf(z) # key => z \in Entries(d) /\ z \in Entries(b)
      BY <1>8, <2>2
    <3>2. \A z \in Entries(b) : z \in Entries(d) \/ (KeyOf(z) = key /\ z \in Entries(e))
      BY <1>8, <2>2
    <3>3. QED
      BY <1>9, <2>3, <2>4, <3>1, <3>2 DEF Between
  <2>6. QED
    BY <2>5, BetweenHolds DEF b, tn
<1>11. Settled(g, e, g)
  BY <1>7 DEF Settled
<1>12. QED
  BY <1>4, <1>10, <1>11 DEF Promised

-----------------------------------------------------------------------------
(* Removing a file or an empty folder *)

(* On disk d with table t, f in memory: entry z goes, with its clusters cs; *)
(* y is the new content of its folder and g the new table; a are the writes *)
(* that come before those of the table.                                     *)
RemovePlan(d, t, f, g, a, z, cs, y) ==
  /\ DiskType(d) /\ t \in Fats /\ f \in Fats
  /\ Consistent(d, f) /\ (t = f \/ (t = NoFat /\ Blank(d)))
  /\ z \in Entries(d) /\ (z.entry.dir => NoEntriesIn(d, z.entry.cluster))
  /\ cs = ClustersOf(f, z) /\ g = Released(f, cs)
  /\ IsSeq(a) /\ RemoveWrites(a, cs, z.folder, y)
  /\ y \in Contents /\ y.table = [Table(d, z.folder) EXCEPT ![z.slot] = NoEntry]

(* A zeroed cluster is a content of clusters. *)
LEMMA ZeroesContents == Zeroes \in Contents /\ Zeroes.table = NoTable /\ NoTable \in [Slots -> {NoEntry} \cup UsedEntries]
BY DEF Zeroes, Contents, NoTable

(* The plan writes only clusters of the disk. *)
LEMMA RemovePlanWrites ==
  ASSUME NEW d, NEW t, NEW f, NEW g, NEW a, NEW z, NEW cs, NEW y, RemovePlan(d, t, f, g, a, z, cs, y)
  PROVE  /\ z.folder \in DataClusters /\ z.folder \notin SetOf(cs) /\ Distinct(cs) /\ RemoveWrites(a, cs, z.folder, y)
         /\ g \in Fats /\ SameTableElsewhere(f, g, SetOf(cs)) /\ SetOf(cs) = OwnedBy(f, z)
         /\ (\A c \in SetOf(cs) : g[c] = FAT32_FAT_EMPTY_ENTRY) /\ t = f
         /\ NoTableWrite(a) /\ IsSeq(a) /\ Len(a) \in Nat /\ Len(a) = Len(cs) + 1 /\ Len(cs) \in Nat
         /\ WritesOK(g, a \o write_cluster_map(g))
<1>1. /\ DiskType(d) /\ Consistent(d, f) /\ f \in Fats /\ z \in Entries(d) /\ cs = ClustersOf(f, z)
      /\ g = Released(f, cs) /\ IsSeq(a) /\ RemoveWrites(a, cs, z.folder, y) /\ y \in Contents
      /\ (z.entry.dir => NoEntriesIn(d, z.entry.cluster)) /\ (t = f \/ (t = NoFat /\ Blank(d)))
  BY DEF RemovePlan
<1>2. HasChain(f, z) /\ IsChain(f, cs) /\ Distinct(cs) /\ SetOf(cs) = OwnedBy(f, z) /\ SetOf(cs) \subseteq DataClusters
  BY <1>1, ChainOwned DEF Consistent, HasChain, IsChain, Distinct, OwnedBy
<1>3. g \in Fats /\ SameTableElsewhere(f, g, SetOf(cs)) /\ \A c \in SetOf(cs) : g[c] = FAT32_FAT_EMPTY_ENTRY
  BY <1>1, <1>2, ReleasedGives
<1>4. z.folder \in Folders(d) /\ z.folder \in DataClusters /\ z.slot \in Slots /\ z.slot >= 2
      /\ InUse(Table(d, z.folder)[z.slot])
  BY <1>1, EntryHas
<1>5. z.folder \notin SetOf(cs)
  <2> SUFFICES ASSUME z.folder \in SetOf(cs) PROVE FALSE
    OBVIOUS
  <2>1. z.entry.dir /\ z.folder = z.entry.cluster
    BY <1>1, <1>2, <1>4, FolderOwnedByItsEntry
  <2>2. NoEntriesIn(d, z.folder)
    BY <1>1, <2>1
  <2>3. QED
    BY <1>4, <2>2 DEF NoEntriesIn
<1>6. Len(cs) \in Nat /\ \A k \in 1 .. Len(cs) : cs[k] \in DataClusters
  BY <1>2 DEF Distinct
<1>7. Len(a) = Len(cs) + 1 /\ \A k \in 1 .. Len(a) : k = 1 \/ (k - 1 \in 1 .. Len(cs) /\ (k - 1) + 1 = k)
  BY <1>1, <1>6 DEF RemoveWrites
<1>8. \A k \in 1 .. Len(a) : \E c \in DataClusters, x \in Contents : a[k] = WriteCluster(c, x)
  <2> SUFFICES ASSUME NEW k \in 1 .. Len(a) PROVE \E c \in DataClusters, x \in Contents : a[k] = WriteCluster(c, x)
    OBVIOUS
  <2>1. CASE k = 1
    BY <1>1, <1>4, <2>1 DEF RemoveWrites
  <2>2. CASE k # 1
    <3>1. k - 1 \in 1 .. Len(cs) /\ (k - 1) + 1 = k
      BY <1>7, <2>2
    <3>2. a[(k - 1) + 1] = WriteCluster(cs[k - 1], Zeroes)
      BY <1>1, <3>1 DEF RemoveWrites
    <3>3. QED
      BY <1>6, <3>1, <3>2, ZeroesContents
  <2>3. QED
    BY <2>1, <2>2
<1>9. \A c \in DataClusters, x \in Contents : IsWrite(g, WriteCluster(c, x)) /\ WriteCluster(c, x).what # "fat"
  BY WriteClusterIs DEF IsWrite
<1>10. NoTableWrite(a)
  BY <1>8, <1>9 DEF NoTableWrite
<1>11. WritesOK(g, a \o write_cluster_map(g))
  <2> DEFINE m == write_cluster_map(g)
             ws == a \o m
  <2>1. IsSeq(m) /\ \A k \in 1 .. Len(m) : m[k] = WriteFatBlock(k - 1, g)
    BY MapWrites
  <2>2. \A b : IsWrite(g, WriteFatBlock(b, g))
    BY DEF IsWrite, WriteFatBlock
  <2> HIDE DEF m
  <2>3. /\ IsSeq(ws)
        /\ \A k \in 1 .. Len(a) : ws[k] = a[k]
        /\ \A k \in 1 .. Len(m) : ws[Len(a) + k] = m[k]
        /\ \A k \in 1 .. Len(ws) : k \in 1 .. Len(a) \/ k - Len(a) \in 1 .. Len(m)
    <3>1. Joined(a, m, ws)
      BY <1>1, <2>1, Join
    <3>2. QED
      BY <3>1 DEF Joined
  <2> HIDE DEF ws
  <2>4. ASSUME NEW k \in 1 .. Len(ws) PROVE IsWrite(g, ws[k])
    <3>1. CASE k \in 1 .. Len(a)
      BY <1>8, <1>9, <2>3, <3>1
    <3>2. CASE k - Len(a) \in 1 .. Len(m)
      <4>1. Len(a) + (k - Len(a)) = k
        BY <1>6, <1>7
      <4>2. ws[k] = WriteFatBlock((k - Len(a)) - 1, g)
        BY <2>1, <2>3, <3>2, <4>1
      <4>3. QED
        BY <2>2, <4>2
    <3>3. QED
      BY <2>3, <3>1, <3>2
  <2>5. WritesOK(g, ws)
    BY <2>3, <2>4 DEF WritesOK, IsSeq
  <2>6. QED
    BY <2>5 DEF ws, m
<1>12. t = f
  BY <1>1, BlankHasNothing
<1>13. Len(a) \in Nat
  BY <1>6, <1>7
<1>14. QED
  BY <1>1, <1>2, <1>3, <1>4, <1>5, <1>6, <1>7, <1>10, <1>11, <1>12, <1>13

(* The plan removes one entry. *)
LEMMA RemovePlanRemoved ==
  ASSUME NEW d, NEW t, NEW f, NEW g, NEW a, NEW z, NEW cs, NEW y, RemovePlan(d, t, f, g, a, z, cs, y),
         NEW n \in 1 .. Len(a), DiskType(Written(d, a, n))
  PROVE  Removed(d, f, Written(d, a, n), g, z)
<1> DEFINE e == Written(d, a, n)
<1>1. /\ z.folder \in DataClusters /\ z.folder \notin SetOf(cs) /\ Distinct(cs) /\ RemoveWrites(a, cs, z.folder, y)
      /\ g \in Fats /\ SameTableElsewhere(f, g, SetOf(cs)) /\ SetOf(cs) = OwnedBy(f, z)
      /\ (\A c \in SetOf(cs) : g[c] = FAT32_FAT_EMPTY_ENTRY) /\ Len(a) \in Nat
  BY RemovePlanWrites
<1>2. n \in 0 .. Len(a) /\ n # 0
  BY <1>1
<1>3. RemoveLeaves(d, a, n, cs, z.folder, y)
  BY <1>1, <1>2, RemoveWritten
<1>4. e[z.folder] = y /\ \A c \in DataClusters : c \notin SetOf(cs) /\ c # z.folder => e[c] = d[c]
  BY <1>2, <1>3 DEF RemoveLeaves
<1> HIDE DEF e
<1>5. /\ DiskType(d) /\ Consistent(d, f) /\ z \in Entries(d) /\ (z.entry.dir => NoEntriesIn(d, z.entry.cluster))
      /\ y.table = [Table(d, z.folder) EXCEPT ![z.slot] = NoEntry]
  BY DEF RemovePlan
<1>6. Table(e, z.folder) = [Table(d, z.folder) EXCEPT ![z.slot] = NoEntry]
  BY <1>4, <1>5 DEF Table
<1>7. SameElsewhere(d, e, OwnedBy(f, z), z.folder)
  BY <1>1, <1>4 DEF SameElsewhere, Table
<1>8. DiskType(e)
  BY DEF e
<1>9. QED
  BY <1>1, <1>5, <1>6, <1>7, <1>8 DEF Removed, e

(* Removing keeps the promise. *)
LEMMA RemovePlanPromise ==
  ASSUME NEW d, NEW t, NEW f, NEW g, NEW a, NEW z, NEW cs, NEW y, RemovePlan(d, t, f, g, a, z, cs, y),
         NEW sig, sig
  PROVE  Promised(sig, t, d, g, a \o write_cluster_map(g), KeyOf(z))
<1> DEFINE m == write_cluster_map(g)
           ws == a \o m
           L == Len(ws)
           e == Written(d, a, Len(a))
           key == KeyOf(z)
<1>1. /\ z.folder \in DataClusters /\ z.folder \notin SetOf(cs) /\ Distinct(cs) /\ RemoveWrites(a, cs, z.folder, y)
      /\ g \in Fats /\ SameTableElsewhere(f, g, SetOf(cs)) /\ SetOf(cs) = OwnedBy(f, z) /\ t = f
      /\ NoTableWrite(a) /\ IsSeq(a) /\ Len(a) \in Nat
      /\ WritesOK(g, ws) /\ Len(a) = Len(cs) + 1 /\ Len(cs) \in Nat
  BY RemovePlanWrites
<1>2. DiskType(d) /\ t \in Fats /\ f \in Fats /\ Consistent(d, f) /\ z \in Entries(d)
  BY DEF RemovePlan
<1>3. Len(m) \in Nat /\ L = Len(a) + Len(m) /\ L \in Nat /\ L \in 0 .. L /\ Len(a) \in 0 .. L /\ Len(a) \in 1 .. Len(a)
      /\ Len(a) \in 0 .. Len(a)
  <2>1. IsSeq(m) /\ Len(m) \in Nat
    BY MapWrites
  <2>2. L = Len(a) + Len(m)
    <3>1. Joined(a, m, ws)
      BY <1>1, <2>1, Join
    <3>2. QED
      BY <3>1 DEF Joined
  <2> HIDE DEF m, ws, L
  <2>3. QED
    BY <1>1, <2>1, <2>2
<1>4. Written(d, ws, L) = e /\ TableWritten(t, g, ws, L) = g /\ Written(d, ws, Len(a)) = e
  <2>1. L >= Len(a) /\ Len(a) >= Len(a) /\ L = Len(a) + Len(m)
    BY <1>1, <1>3
  <2>2. QED
    BY <1>1, <1>2, <1>3, <2>1, TableLast
<1>5. ASSUME NEW n \in 0 .. Len(a) PROVE n \in 0 .. L /\ Written(d, ws, n) = Written(d, a, n) /\ DiskType(Written(d, a, n))
  <2>1. n \in 0 .. L /\ n <= Len(a)
    BY <1>1, <1>3
  <2>2. Written(d, ws, n) = Written(d, a, n)
    BY <1>1, <1>2, <2>1, TableLast
  <2>3. DiskType(Written(d, ws, n))
    BY <1>1, <1>2, <2>1, WrittenType
  <2>4. QED
    BY <2>1, <2>2, <2>3
<1>6. \A n \in 1 .. Len(a) : Removed(d, f, Written(d, a, n), g, z)
  <2> SUFFICES ASSUME NEW n \in 1 .. Len(a) PROVE Removed(d, f, Written(d, a, n), g, z)
    OBVIOUS
  <2>1. n \in 0 .. Len(a)
    BY <1>1
  <2>2. QED
    BY <1>5, <2>1, RemovePlanRemoved
<1>7. Removed(d, f, e, g, z) /\ Consistent(e, g)
  BY <1>3, <1>6, RemovedConsistent
<1>8. Entries(e) = Entries(d) \ {z}
  BY <1>7, RemovedEntries
<1>9. \A x \in Entries(e) :
        HasChain(f, x) /\ OwnedBy(g, x) = OwnedBy(f, x) /\ OwnedBy(f, x) \cap SetOf(cs) = {} /\ AgreeOn(f, g, x)
  <2>1. \A x \in Entries(e) :
          HasChain(f, x) /\ OwnedBy(g, x) = OwnedBy(f, x) /\ OwnedBy(f, x) \cap SetOf(cs) = {}
    BY <1>1, <1>7, RemovedChains
  <2>2. \A x \in Entries(e) : AgreeOn(f, g, x)
    BY <1>1, <2>1, OwnedOnDisk DEF AgreeOn, SameTableElsewhere, Clusters, DataClusters
  <2>3. QED
    BY <2>1, <2>2
<1>10. ASSUME NEW n \in 0 .. L
       PROVE  Holds(Written(d, ws, n), TableWritten(t, g, ws, n), g, e, key)
  <2> DEFINE b == Written(d, ws, n)
             tn == TableWritten(t, g, ws, n)
  <2>1. n = 0 => b = d /\ tn = t
    BY <1>2, NothingWritten
  <2>2. n # 0 => Entries(b) = Entries(e)
    <3> SUFFICES ASSUME n # 0 PROVE Entries(b) = Entries(e)
      OBVIOUS
    <3>1. CASE n <= Len(a)
      <4>1. n \in 1 .. Len(a) /\ n \in 0 .. Len(a)
        BY <1>1, <1>3, <3>1
      <4>2. b = Written(d, a, n)
        BY <1>5, <4>1
      <4>3. Entries(b) = Entries(d) \ {z}
        BY <1>6, <4>1, <4>2, RemovedEntries
      <4>4. QED
        BY <1>8, <4>3
    <3>2. CASE ~ (n <= Len(a))
      <4>1. n >= Len(a)
        BY <1>1, <1>3, <3>2
      <4>2. b = e
        BY <1>1, <1>2, <4>1, TableLast
      <4>3. QED
        BY <4>2
    <3>3. QED
      BY <3>1, <3>2
  <2>3. ASSUME NEW x \in Entries(e) PROVE AgreeOn(f, tn, x)
    BY <1>1, <1>2, <1>9, TableBetween
  <2>4. ASSUME NEW x \in Entries(e) PROVE SameData(f, b, e, x)
    <3> SUFFICES ASSUME ~ x.entry.dir, NEW c \in OwnedBy(f, x) PROVE b[c] = e[c]
      BY DEF SameData
    <3>1. c \in DataClusters /\ c \notin SetOf(cs)
      BY <1>9, OwnedOnDisk
    <3>2. c # z.folder
      <4>1. z.folder \in Folders(d) /\ x \in Entries(d)
        BY <1>2, <1>8, EntryHas
      <4>2. QED
        BY <1>2, <4>1, FolderOwnedByItsEntry
    <3>3. \A k \in 0 .. Len(a) : Written(d, a, k)[c] = d[c]
      <4>1. \A k \in 0 .. Len(a) : RemoveLeaves(d, a, k, cs, z.folder, y)
        BY <1>1, RemoveWritten
      <4>2. QED
        BY <3>1, <3>2, <4>1 DEF RemoveLeaves
    <3>4. e[c] = d[c]
      BY <1>3, <3>3
    <3>5. CASE n <= Len(a)
      <4>1. n \in 0 .. Len(a)
        BY <1>1, <1>3, <3>5
      <4>2. b = Written(d, a, n)
        BY <1>5, <4>1
      <4>3. QED
        BY <3>3, <3>4, <4>1, <4>2
    <3>6. CASE ~ (n <= Len(a))
      <4>1. n >= Len(a)
        BY <1>1, <1>3, <3>6
      <4>2. b = e
        BY <1>1, <1>2, <4>1, TableLast
      <4>3. QED
        BY <4>2
    <3>7. QED
      BY <3>5, <3>6
  <2> HIDE DEF b, tn, e
  <2>5. \A x \in Entries(d) : HasChain(f, x)
    BY <1>2 DEF Consistent
  <2>6. CASE n = 0
    <3>1. Between(d, f, b, tn, e, g, key)
      <4>1. \A x \in Entries(d) : AgreeOn(f, tn, x)
        BY <1>1, <2>1, <2>6 DEF AgreeOn
      <4>2. QED
        BY <1>8, <1>9, <2>1, <2>4, <2>5, <2>6, <4>1 DEF Between
    <3>2. QED
      BY <3>1, BetweenHolds DEF b, tn
  <2>7. CASE n # 0
    <3>1. Between(d, f, b, tn, e, g, key)
      BY <1>8, <1>9, <2>2, <2>3, <2>4, <2>5, <2>7 DEF Between
    <3>2. QED
      BY <3>1, BetweenHolds DEF b, tn
  <2>8. QED
    BY <2>6, <2>7
<1>11. Settled(g, e, g)
  BY <1>7 DEF Settled
<1>12. QED
  BY <1>4, <1>10, <1>11 DEF Promised

-----------------------------------------------------------------------------
(* Formatting *)

LEMMA DirectoryTableIs ==
  ASSUME NEW name \in Names \cup {RootName}, NEW self \in DataClusters,
         NEW parentname \in Names \cup {RootName}, NEW parent \in DataClusters,
         NEW x, x = TableCluster(DirectoryTable(name, self, parentname, parent))
  PROVE  /\ x \in Contents /\ x.table[0].dir /\ x.table[1].dir
         /\ \A u \in Slots : u >= 2 => ~ InUse(x.table[u])
<1> DEFINE t == DirectoryTable(name, self, parentname, parent)
<1>1. /\ Entry(name, NoExt, TRUE, self, 0) \in UsedEntries
      /\ Entry(parentname, NoExt, TRUE, parent, 0) \in UsedEntries
  BY Fat32Assumption DEF Entry, UsedEntries
<1>2. 0 \in Slots /\ 1 \in Slots
  BY Fat32Assumption DEF Slots
<1>3. /\ DOMAIN t = Slots /\ t \in [Slots -> {NoEntry} \cup UsedEntries]
      /\ t[0] = Entry(name, NoExt, TRUE, self, 0) /\ t[1] = Entry(parentname, NoExt, TRUE, parent, 0)
      /\ \A u \in Slots : u >= 2 => t[u] = NoEntry
  <2>1. \A u \in Slots : t[u] \in {NoEntry} \cup UsedEntries
    BY <1>1 DEF DirectoryTable
  <2>2. \A u \in Slots : u >= 2 => u # 0 /\ u # 1
    BY DEF Slots
  <2>3. DOMAIN t = Slots /\ t = [u \in Slots |-> t[u]]
    BY DEF DirectoryTable
  <2>4. t[0] = Entry(name, NoExt, TRUE, self, 0)
    BY <1>2 DEF DirectoryTable
  <2>5. t[1] = Entry(parentname, NoExt, TRUE, parent, 0)
    BY <1>2 DEF DirectoryTable
  <2>6. \A u \in Slots : u >= 2 => t[u] = NoEntry
    BY <2>2 DEF DirectoryTable
  <2> HIDE DEF t
  <2>7. t \in [Slots -> {NoEntry} \cup UsedEntries]
    BY <2>1, <2>3
  <2>8. QED
    BY <2>3, <2>4, <2>5, <2>6, <2>7
<1> HIDE DEF t
<1>4. x.table = t /\ x.data = NoData /\ x = [data |-> NoData, table |-> t]
  BY DEF TableCluster, t
<1>5. x \in Contents
  BY <1>3, <1>4 DEF Contents
<1>6. QED
  BY <1>3, <1>4, <1>5 DEF InUse, Entry

(* The table of a formatted disk has the reserved entries. *)
LEMMA FreshFatIs == FreshFat \in Fats /\ ReservedEntries(FreshFat)
<1>1. 0 \in Clusters /\ 1 \in Clusters /\ Root \in Clusters /\ 0 # Root /\ 1 # Root
  BY Fat32Assumption DEF Clusters, Root
<1>2. FreshFat \in Fats
  BY <1>1 DEF FreshFat, Fats, FAT32_FAT_EMPTY_ENTRY
<1>3. QED
  BY <1>1, <1>2 DEF ReservedEntries, FreshFat

(* It fits a disk that has only the root folder. *)
LEMMA FreshConsistent ==
  ASSUME NEW d, DiskType(d), Blank(d), Table(d, Root)[0].dir, Table(d, Root)[1].dir
  PROVE  Consistent(d, FreshFat)
<1>1. Folders(d) = {Root} /\ Entries(d) = {}
  BY BlankHasNothing
<1>2. ASSUME NEW c \in DataClusters PROVE FreshFat[c] # FAT32_FAT_EMPTY_ENTRY <=> c = Root
  BY DEF FreshFat, Clusters, DataClusters, Root, FAT32_FAT_EMPTY_ENTRY, FAT32_FAT_END_OF_FILE
<1>3. QED
  BY <1>1, <1>2, FreshFatIs DEF Consistent, FolderTables, ChainsApart, RootApart, Accounted

FormatWrites == <<WriteBoot(TRUE), WriteCluster(Root, Zeroes),
                  WriteCluster(Root, TableCluster(DirectoryTable(RootName, Root, RootName, Root)))>>

(* What formatting writes: no table, and no entries. *)
LEMMA FormatWritesIs ==
  /\ WritesOK(FreshFat, FormatWrites) /\ NoTableWrite(FormatWrites) /\ Len(FormatWrites) = 3
  /\ FormatWrites[1].what = "boot"
  /\ FormatWrites[3].what = "cluster" /\ FormatWrites[3].cluster = Root
  /\ FormatWrites[3].content.table[0].dir /\ FormatWrites[3].content.table[1].dir
  /\ \A k \in 1 .. 3 : FormatWrites[k].what = "cluster" =>
       \A u \in Slots : u >= 2 => ~ InUse(FormatWrites[k].content.table[u])
<1> DEFINE x == TableCluster(DirectoryTable(RootName, Root, RootName, Root))
           boot == WriteBoot(TRUE)
           zero == WriteCluster(Root, Zeroes)
           root == WriteCluster(Root, x)
           ws == <<boot, zero, root>>
<1>1. /\ x \in Contents /\ x.table[0].dir /\ x.table[1].dir
      /\ \A u \in Slots : u >= 2 => ~ InUse(x.table[u])
  BY RootOnDisk, DirectoryTableIs
<1>2. Zeroes \in Contents /\ \A u \in Slots : ~ InUse(Zeroes.table[u])
  BY ZeroesContents DEF InUse, NoTable
<1> HIDE DEF x
<1>3. /\ boot.what = "boot" /\ IsWrite(FreshFat, boot)
      /\ zero.what = "cluster" /\ zero.content = Zeroes /\ IsWrite(FreshFat, zero)
      /\ root.what = "cluster" /\ root.cluster = Root /\ root.content = x /\ IsWrite(FreshFat, root)
  <2>1. boot.what = "boot" /\ IsWrite(FreshFat, boot)
    BY DEF IsWrite, WriteBoot
  <2>2. zero.what = "cluster" /\ zero.content = Zeroes /\ IsWrite(FreshFat, zero)
    BY <1>2, RootOnDisk, WriteClusterIs DEF IsWrite
  <2>3. root.what = "cluster" /\ root.cluster = Root /\ root.content = x /\ IsWrite(FreshFat, root)
    <3>1. x \in Contents
      BY <1>1
    <3>2. root.what = "cluster" /\ root.cluster = Root /\ root.content = x
      BY WriteClusterIs
    <3>3. QED
      BY <3>1, <3>2, RootOnDisk DEF IsWrite
  <2>4. QED
    BY <2>1, <2>2, <2>3
<1>9. ws = FormatWrites
  BY DEF ws, x, boot, zero, root, FormatWrites
<1> HIDE DEF boot, zero, root
<1>4. /\ Len(ws) = 3 /\ ws[1] = boot /\ ws[2] = zero /\ ws[3] = root /\ ws \in Seq({boot, zero, root})
  OBVIOUS
<1> HIDE DEF ws
<1>5. \A k \in 1 .. 3 : k = 1 \/ k = 2 \/ k = 3
  OBVIOUS
<1>6. WritesOK(FreshFat, ws)
  <2>1. IsSeq(ws)
    BY <1>4, SeqOwn
  <2>2. QED
    BY <1>3, <1>4, <1>5, <2>1 DEF WritesOK, IsSeq
<1>7. NoTableWrite(ws)
  BY <1>3, <1>4, <1>5 DEF NoTableWrite
<1>8. \A k \in 1 .. 3 : ws[k].what = "cluster" => \A u \in Slots : u >= 2 => ~ InUse(ws[k].content.table[u])
  BY <1>1, <1>2, <1>3, <1>4, <1>5
<1>10. QED
  BY <1>1, <1>3, <1>4, <1>6, <1>7, <1>8, <1>9

(* A formatted disk keeps the promise: nothing was there to lose. *)
LEMMA FormatPromise ==
  ASSUME NEW d, DiskType(d), Blank(d), NEW sig
  PROVE  Promised(sig, NoFat, d, FreshFat, FormatWrites, NoTarget)
<1> DEFINE ws == FormatWrites
           e == Written(d, ws, 3)
<1> HIDE DEF ws
<1>1. /\ WritesOK(FreshFat, ws) /\ NoTableWrite(ws) /\ Len(ws) = 3 /\ ws[1].what = "boot"
      /\ ws[3].what = "cluster" /\ ws[3].cluster = Root
      /\ ws[3].content.table[0].dir /\ ws[3].content.table[1].dir
      /\ \A k \in 1 .. 3 : ws[k].what = "cluster" => \A u \in Slots : u >= 2 => ~ InUse(ws[k].content.table[u])
  BY FormatWritesIs DEF ws
<1>2. ASSUME NEW n \in 0 .. 3
      PROVE  DiskType(Written(d, ws, n)) /\ Blank(Written(d, ws, n)) /\ TableWritten(NoFat, FreshFat, ws, n) = NoFat
  <2>0. n \in Nat /\ n \in 0 .. Len(ws) /\ \A k \in 1 .. n : k \in 1 .. 3 /\ k \in 1 .. Len(ws)
    BY <1>1
  <2>1. DiskType(Written(d, ws, n))
    BY <1>1, <2>0, WrittenType
  <2>2. ASSUME NEW c \in DataClusters, NEW u \in Slots, u >= 2 PROVE ~ InUse(Table(Written(d, ws, n), c)[u])
    <3>1. CASE ToCluster(ws, n, c) = {}
      <4>1. Written(d, ws, n)[c] = d[c]
        BY <2>0, <3>1, WrittenIs
      <4>2. QED
        BY <2>2, <4>1 DEF Blank, Table
    <3>2. CASE ToCluster(ws, n, c) # {}
      <4>1. PICK k \in ToCluster(ws, n, c) : \A l \in ToCluster(ws, n, c) : l <= k
        BY <2>0, <3>2, WrittenIs
      <4>2. Written(d, ws, n)[c] = ws[k].content
        BY <2>0, <4>1, WrittenIs
      <4>3. k \in 1 .. 3 /\ ws[k].what = "cluster"
        BY <2>0 DEF ToCluster
      <4>4. QED
        BY <1>1, <2>2, <4>2, <4>3 DEF Table
    <3>3. QED
      BY <3>1, <3>2
  <2>3. TableWritten(NoFat, FreshFat, ws, n) = NoFat
    BY <1>1, <2>0 DEF TableWritten, NoTableWrite, NoFat
  <2>4. QED
    BY <2>1, <2>2, <2>3 DEF Blank
<1>3. e[Root] = ws[3].content
  <2>1. 3 \in Nat /\ 3 \in ToCluster(ws, 3, Root) /\ \A l \in ToCluster(ws, 3, Root) : l <= 3
    BY <1>1 DEF ToCluster
  <2>2. QED
    BY <2>1, RootOnDisk, WrittenIs
<1>4. Table(e, Root)[0].dir /\ Table(e, Root)[1].dir
  BY <1>1, <1>3 DEF Table
<1>5. 3 \in 0 .. 3 /\ 1 \in 1 .. Len(ws)
  BY <1>1
<1>6. Settled(NoFat, e, FreshFat)
  BY <1>2, <1>4, <1>5, FreshConsistent DEF Settled
<1>7. \A n \in 0 .. 3 : Holds(Written(d, ws, n), TableWritten(NoFat, FreshFat, ws, n), FreshFat, e, NoTarget)
  BY <1>2, <1>5, BlankHolds
<1>8. TableWritten(NoFat, FreshFat, ws, 3) = NoFat
  BY <1>2, <1>5
<1> HIDE DEF e
<1>9. Promised(sig, NoFat, d, FreshFat, ws, NoTarget)
  BY <1>1, <1>5, <1>6, <1>7, <1>8 DEF Promised, e
<1>10. QED
  BY <1>9 DEF ws

-----------------------------------------------------------------------------
(* Mounting a disk that was written before *)

LEMMA MountPromise ==
  ASSUME NEW t \in Fats, NEW d, DiskType(d), Mountable(t, d), NEW sig, sig, NEW key
  PROVE  Promised(sig, t, d, t, <<>>, key) /\ WritesOK(t, <<>>)
<1>1. Settled(t, d, t)
  BY DEF Mountable, Settled
<1>2. Holds(d, t, t, d, key)
  BY <1>1, SettledHolds
<1>3. Len(<<>>) = 0 /\ \A n \in 0 .. 0 : n = 0
  OBVIOUS
<1>4. Written(d, <<>>, 0) = d /\ TableWritten(t, t, <<>>, 0) = t
  BY NothingWritten
<1>5. Promised(sig, t, d, t, <<>>, key)
  BY <1>1, <1>2, <1>3, <1>4 DEF Promised
<1>6. WritesOK(t, <<>>)
  BY <1>3 DEF WritesOK, SetOf
<1>7. QED
  BY <1>5, <1>6

(* And what is settled may be mounted later. *)
LEMMA SettledMountable ==
  ASSUME NEW t, NEW d, NEW f, Settled(t, d, f)
  PROVE  Mountable(t, d)
BY DEF Settled, Mountable

(* With no write left, the driver is settled. *)
LEMMA PromiseKept ==
  ASSUME NEW sig, NEW t \in Fats, NEW d, DiskType(d), NEW f, NEW key, Promised(sig, t, d, f, <<>>, key)
  PROVE  sig /\ Settled(t, d, f)
<1>1. Len(<<>>) = 0 /\ \A k \in 1 .. 0 : FALSE
  OBVIOUS
<1>2. Written(d, <<>>, 0) = d /\ TableWritten(t, f, <<>>, 0) = t
  BY NothingWritten
<1>3. QED
  BY <1>1, <1>2 DEF Promised

-----------------------------------------------------------------------------
(* One write reaches the disk *)

SignatureAfter(sig, w) == IF w.what = "boot" THEN w.signature ELSE sig
DiskAfter(d, w) == IF w.what = "cluster" THEN [d EXCEPT ![w.cluster] = w.content] ELSE d
TableAfter(t, w) ==
  IF w.what = "fat" THEN [c \in Clusters |-> IF c \div FAT_BLOCK = w.block THEN w.fat[c] ELSE t[c]] ELSE t

(* The first of the writes, and the others. *)
LEMMA WritesAre ==
  ASSUME NEW f, NEW ws, WritesOK(f, ws), ws # <<>>
  PROVE  /\ Len(ws) \in Nat /\ 1 \in 1 .. Len(ws) /\ Head(ws) = ws[1] /\ IsWrite(f, ws[1])
         /\ Len(Tail(ws)) = Len(ws) - 1 /\ \A k \in 1 .. Len(Tail(ws)) : Tail(ws)[k] = ws[k + 1]
         /\ WritesOK(f, Tail(ws)) /\ (Len(ws) = 1 <=> Tail(ws) = <<>>)
<1> DEFINE vs == Tail(ws)
<1>1. /\ ws \in Seq(SetOf(ws)) /\ vs \in Seq(SetOf(ws)) /\ Len(ws) \in Nat /\ Len(ws) # 0
      /\ Len(vs) = Len(ws) - 1 /\ \A k \in 1 .. Len(vs) : vs[k] = ws[k + 1]
      /\ Head(ws) = ws[1]
  BY HeadTailProperties, EmptySeq DEF WritesOK
<1>2. Len(ws) = 1 <=> vs = <<>>
  BY <1>1, EmptySeq
<1> HIDE DEF vs
<1>3. 1 \in 1 .. Len(ws) /\ \A k \in 1 .. Len(vs) : k + 1 \in 1 .. Len(ws)
  BY <1>1
<1>4. IsWrite(f, ws[1]) /\ \A k \in 1 .. Len(vs) : IsWrite(f, vs[k])
  BY <1>1, <1>3 DEF WritesOK
<1>5. WritesOK(f, vs)
  BY <1>1, <1>4, SeqOwn DEF WritesOK, IsSeq
<1>6. QED
  BY <1>1, <1>2, <1>3, <1>4, <1>5 DEF vs

(* The first write, as DiskWrite makes it. *)
LEMMA FirstWrite ==
  ASSUME NEW d, DiskType(d), NEW t \in Fats, NEW f \in Fats, NEW ws, WritesOK(f, ws), ws # <<>>,
         NEW sig \in BOOLEAN
  PROVE  /\ DiskAfter(d, ws[1]) = Written(d, ws, 1)
         /\ TableAfter(t, ws[1]) = TableWritten(t, f, ws, 1)
         /\ ws[1].what # "fault"
         /\ SignatureAfter(sig, ws[1]) = (sig \/ ws[1].what = "boot")
<1> DEFINE w == ws[1]
<1>1. IsWrite(f, w)
  BY WritesAre
<1>2. 1 \in Nat /\ 1 \in 1 .. 1 /\ \A k \in 1 .. 1 : k = 1
  OBVIOUS
<1>3. w.what \in {"boot", "cluster", "fat"} /\ (w.what = "boot" => w.signature = TRUE)
  BY <1>1, WriteClusterIs DEF IsWrite, WriteBoot, WriteFatBlock
<1>4. w.what = "fat" => w.fat = f
  BY <1>1, <1>3, WriteClusterIs DEF IsWrite, WriteBoot, WriteFatBlock
<1>5. TableAfter(t, w) = TableWritten(t, f, ws, 1)
  <2>1. CASE w.what = "fat"
    BY <1>2, <1>4, <2>1 DEF TableAfter, TableWritten
  <2>2. CASE w.what # "fat"
    <3>1. TableWritten(t, f, ws, 1) = [c \in Clusters |-> t[c]]
      BY <1>2, <2>2 DEF TableWritten
    <3>2. QED
      BY <2>2, <3>1 DEF TableAfter, Fats
  <2>3. QED
    BY <2>1, <2>2
<1>6. DiskAfter(d, w) = Written(d, ws, 1)
  <2>1. ASSUME NEW c \in DataClusters
        PROVE  Written(d, ws, 1)[c] = IF w.what = "cluster" /\ w.cluster = c THEN w.content ELSE d[c]
    <3>1. CASE w.what = "cluster" /\ w.cluster = c
      <4>1. Written(d, ws, 1)[c] = ws[1].content
        BY <1>2, <3>1, WrittenOnce
      <4>2. QED
        BY <3>1, <4>1
    <3>2. CASE ~ (w.what = "cluster" /\ w.cluster = c)
      <4>1. Written(d, ws, 1)[c] = d[c]
        BY <1>2, <3>2, WrittenNever
      <4>2. QED
        BY <3>2, <4>1
    <3>3. QED
      BY <3>1, <3>2
  <2>2. DOMAIN d = DataClusters /\ d = [c \in DataClusters |-> d[c]]
    BY DEF DiskType
  <2>3. Written(d, ws, 1) = [c \in DataClusters |-> Written(d, ws, 1)[c]]
    BY DEF Written
  <2>4. \A c \in DataClusters :
          DiskAfter(d, w)[c] = IF w.what = "cluster" /\ w.cluster = c THEN w.content ELSE d[c]
    BY <2>2 DEF DiskAfter
  <2>5. DiskAfter(d, w) = [c \in DataClusters |-> DiskAfter(d, w)[c]]
    BY <2>2 DEF DiskAfter
  <2>6. QED
    BY <2>1, <2>3, <2>4, <2>5
<1>7. QED
  BY <1>3, <1>5, <1>6 DEF SignatureAfter

(* It keeps the promise, and the last one settles the disk. *)
LEMMA WriteKeepsPromise ==
  ASSUME NEW sig \in BOOLEAN, NEW d, DiskType(d), NEW t \in Fats, NEW f \in Fats, NEW ws, WritesOK(f, ws), ws # <<>>,
         NEW key, Promised(sig, t, d, f, ws, key)
  PROVE  Promised(SignatureAfter(sig, ws[1]), TableAfter(t, ws[1]), DiskAfter(d, ws[1]), f, Tail(ws),
                  IF Len(ws) = 1 THEN NoTarget ELSE key)
<1> DEFINE vs == Tail(ws)
           b == Written(d, ws, 1)
           u == TableWritten(t, f, ws, 1)
           sig1 == SignatureAfter(sig, ws[1])
           key1 == IF Len(ws) = 1 THEN NoTarget ELSE key
<1>1. /\ DiskAfter(d, ws[1]) = b /\ TableAfter(t, ws[1]) = u /\ sig1 = (sig \/ ws[1].what = "boot")
  BY FirstWrite
<1>2. /\ Len(ws) \in Nat /\ Len(vs) = Len(ws) - 1 /\ Len(vs) \in Nat /\ Len(vs) + 1 = Len(ws)
      /\ \A k \in 1 .. Len(vs) : vs[k] = ws[k + 1]
      /\ WritesOK(f, vs) /\ (Len(ws) = 1 => vs = <<>>) /\ Len(vs) \in 0 .. Len(vs) /\ 1 \in 0 .. Len(ws)
      /\ \A k \in 1 .. Len(ws) : k = 1 \/ (k - 1 \in 1 .. Len(vs) /\ (k - 1) + 1 = k)
      /\ \A n \in 0 .. Len(vs) : n + 1 \in 0 .. Len(ws)
  <2>1. /\ Len(ws) \in Nat /\ 1 \in 1 .. Len(ws) /\ Len(vs) = Len(ws) - 1
        /\ \A k \in 1 .. Len(vs) : vs[k] = ws[k + 1]
        /\ WritesOK(f, vs) /\ (Len(ws) = 1 => vs = <<>>)
    BY WritesAre
  <2> HIDE DEF vs
  <2>2. QED
    BY <2>1
<1>3. ASSUME NEW n \in 0 .. Len(vs)
      PROVE  Written(b, vs, n) = Written(d, ws, n + 1) /\ TableWritten(u, f, vs, n) = TableWritten(t, f, ws, n + 1)
  <2>1. Shifted(d, t, f, ws, n)
    BY OneWrite
  <2>2. QED
    BY <2>1 DEF Shifted
<1>4. DiskType(b) /\ u \in Fats
  BY <1>2, WrittenType, TableWrittenType
<1> HIDE DEF b, u, vs, sig1, key1
<1>5. /\ Written(b, vs, Len(vs)) = Written(d, ws, Len(ws))
      /\ TableWritten(u, f, vs, Len(vs)) = TableWritten(t, f, ws, Len(ws))
  <2>1. /\ Written(b, vs, Len(vs)) = Written(d, ws, Len(vs) + 1)
        /\ TableWritten(u, f, vs, Len(vs)) = TableWritten(t, f, ws, Len(vs) + 1)
    BY <1>2, <1>3
  <2>2. QED
    BY <1>2, <2>1
<1>6. sig1 \/ \E k \in 1 .. Len(vs) : vs[k].what = "boot"
  <2>1. CASE sig
    BY <1>1, <2>1
  <2>2. CASE \E k \in 1 .. Len(ws) : ws[k].what = "boot"
    <3>1. PICK k \in 1 .. Len(ws) : ws[k].what = "boot"
      BY <2>2
    <3>2. CASE k = 1
      BY <1>1, <3>1, <3>2
    <3>3. CASE k # 1
      <4>1. k - 1 \in 1 .. Len(vs) /\ (k - 1) + 1 = k
        BY <1>2, <3>3
      <4>2. vs[k - 1] = ws[(k - 1) + 1]
        BY <1>2, <4>1
      <4>3. QED
        BY <3>1, <4>1, <4>2
    <3>4. QED
      BY <3>2, <3>3
  <2>3. QED
    BY <2>1, <2>2 DEF Promised
<1>7. Settled(TableWritten(u, f, vs, Len(vs)), Written(b, vs, Len(vs)), f)
  BY <1>5 DEF Promised
<1>8. ASSUME NEW n \in 0 .. Len(vs)
      PROVE  Holds(Written(b, vs, n), TableWritten(u, f, vs, n), f, Written(b, vs, Len(vs)), key1)
  <2>1. CASE Len(ws) = 1
    <3>1. n = Len(vs)
      BY <1>2, <2>1
    <3>2. DiskType(Written(b, vs, n))
      BY <1>2, <1>4, WrittenType
    <3>3. QED
      BY <1>7, <3>1, <3>2, SettledHolds
  <2>2. CASE Len(ws) # 1
    <3>1. Holds(Written(d, ws, n + 1), TableWritten(t, f, ws, n + 1), f, Written(d, ws, Len(ws)), key)
      BY <1>2 DEF Promised
    <3>2. key1 = key
      BY <2>2 DEF key1
    <3>3. QED
      BY <1>3, <1>5, <3>1, <3>2
  <2>3. QED
    BY <2>1, <2>2
<1>9. Promised(sig1, u, b, f, vs, key1)
  BY <1>6, <1>7, <1>8 DEF Promised
<1>10. QED
  BY <1>1, <1>9 DEF vs, sig1, key1

-----------------------------------------------------------------------------
(* The plans of write *)

(* The driver finds a folder to work in only on a consistent disk. *)
LEMMA FolderOfUse ==
  ASSUME NEW t, NEW d, NEW f, Settled(t, d, f), NEW p \in DataClusters, f[p] = FAT32_FAT_END_OF_FILE
  PROVE  Consistent(d, f) /\ (t = f \/ (t = NoFat /\ Blank(d)))
<1>1. NoFat[p] # FAT32_FAT_END_OF_FILE
  BY DEF NoFat, DataClusters, Clusters, FAT32_FAT_EMPTY_ENTRY, FAT32_FAT_END_OF_FILE
<1>2. QED
  BY <1>1 DEF Settled

(* The first free slot of a folder is not one of its first two. *)
LEMMA FreeSlot ==
  ASSUME NEW d, NEW f, DiskType(d), Consistent(d, f), NEW p \in Folders(d),
         FreeSlots(Table(d, p)) # {}, NEW s, s = FirstSlot(FreeSlots(Table(d, p)))
  PROVE  s \in Slots /\ s >= 2 /\ ~ InUse(Table(d, p)[s])
<1>1. FreeSlots(Table(d, p)) \in SUBSET Nat
  BY DEF FreeSlots, Slots
<1>2. s \in FreeSlots(Table(d, p))
  BY <1>1, FirstSlotLeast
<1>3. s \in Slots /\ ~ InUse(Table(d, p)[s])
  BY <1>2 DEF FreeSlots
<1>4. p \in DataClusters
  BY FoldersClosed
<1>5. InUse(Table(d, p)[0]) /\ InUse(Table(d, p)[1])
  <2>1. Table(d, p)[0].dir /\ Table(d, p)[1].dir
    BY DEF Consistent, FolderTables
  <2>2. 0 \in Slots /\ 1 \in Slots
    BY Fat32Assumption DEF Slots
  <2>3. QED
    BY <1>4, <2>1, <2>2, SlotHolds
<1>6. s # 0 /\ s # 1
  BY <1>3, <1>5
<1>7. QED
  BY <1>3, <1>6 DEF Slots

(* The new content of a folder. *)
Rewrites(d, p, s, x, y) == y \in Contents /\ y.table = [Table(d, p) EXCEPT ![s] = x]

(* It is a content of clusters. *)
LEMMA FolderRewritten ==
  ASSUME NEW d, DiskType(d), NEW p \in DataClusters, NEW s \in Slots, NEW x \in {NoEntry} \cup UsedEntries,
         NEW y, y = TableCluster([Table(d, p) EXCEPT ![s] = x])
  PROVE  Rewrites(d, p, s, x, y)
<1> DEFINE t == [Table(d, p) EXCEPT ![s] = x]
<1>1. Table(d, p) \in [Slots -> {NoEntry} \cup UsedEntries]
  BY SlotHolds
<1>2. t \in [Slots -> {NoEntry} \cup UsedEntries]
  BY <1>1
<1> HIDE DEF t
<1>3. y = [data |-> NoData, table |-> t]
  BY DEF TableCluster, t
<1>4. y.table = t /\ y.data = NoData
  BY <1>3
<1>5. y \in Contents
  BY <1>2, <1>3, <1>4 DEF Contents
<1>6. QED
  BY <1>4, <1>5 DEF t, Rewrites

FolderWrites(p, y, c, z) == <<WriteCluster(c, z), WriteCluster(p, y)>>

(* write plans to add a folder. *)
LEMMA WriteFolderPlan ==
  ASSUME NEW d, NEW t \in Fats, NEW f \in Fats, DiskType(d), Consistent(d, f), t = f \/ (t = NoFat /\ Blank(d)),
         NEW p \in Folders(d), NEW s \in Slots, s >= 2, ~ InUse(Table(d, p)[s]),
         NEW cs, Distinct(cs), Free(f, cs), Len(cs) = 1, NEW name \in Names,
         NEW x, x = Entry(name, NoExt, TRUE, cs[1], 0),
         NEW y, y = TableCluster([Table(d, p) EXCEPT ![s] = x]),
         NEW z, z = TableCluster(DirectoryTable(name, cs[1], Table(d, p)[0].name, p))
  PROVE  AddPlan(d, t, f, Chained(f, cs), FolderWrites(p, y, cs[1], z), p, s, cs, <<z>>, x, y)
<1> DEFINE a == FolderWrites(p, y, cs[1], z)
           X == <<z>>
           g == Chained(f, cs)
<1>1. p \in DataClusters /\ cs[1] \in DataClusters
  BY FoldersClosed DEF Distinct
<1>2. x \in UsedEntries /\ x.cluster = cs[1] /\ x.dir
  <2>1. 0 \in 0 .. MaxSize
    BY Fat32Assumption
  <2>2. QED
    BY <1>1, <2>1, Fat32Assumption DEF Entry, UsedEntries
<1>3. Describes(x, cs)
  BY <1>2 DEF Describes
<1>4. y \in Contents /\ y.table = [Table(d, p) EXCEPT ![s] = x]
  <2>1. Rewrites(d, p, s, x, y)
    BY <1>1, <1>2, FolderRewritten
  <2>2. QED
    BY <2>1 DEF Rewrites
<1>5. Table(d, p)[0].name \in Names \cup {RootName}
  <2>1. 0 \in Slots /\ Table(d, p)[0].dir
    BY Fat32Assumption DEF Slots, Consistent, FolderTables
  <2>2. Table(d, p)[0] \in UsedEntries
    BY <1>1, <2>1, SlotHolds
  <2>3. QED
    BY <2>2 DEF UsedEntries
<1>6. z \in Contents /\ z.table[0].dir /\ z.table[1].dir /\ \A u \in Slots : u >= 2 => ~ InUse(z.table[u])
  BY <1>1, <1>5, DirectoryTableIs
<1>7. IsSeq(a) /\ AddWrites(a, cs, X, p, y)
  <2> DEFINE w == WriteCluster(cs[1], z)
             v == WriteCluster(p, y)
  <2>1. a = <<w, v>>
    BY DEF FolderWrites
  <2> HIDE DEF w, v, a
  <2>2. a \in Seq({w, v}) /\ Len(a) = 2 /\ a[1] = w /\ a[2] = v /\ X[1] = z
    BY <2>1
  <2>3. IsSeq(a)
    BY <2>2, SeqOwn
  <2>4. \A k \in 1 .. Len(cs) : k = 1
    OBVIOUS
  <2>5. AddWrites(a, cs, X, p, y)
    BY <2>2, <2>4 DEF AddWrites, w, v
  <2>6. QED
    BY <2>3, <2>5
<1>8. /\ \A k \in 1 .. Len(cs) : X[k] \in Contents /\ \A u \in Slots : u >= 2 => ~ InUse(X[k].table[u])
      /\ X[1].table[0].dir /\ X[1].table[1].dir
  <2>1. X[1] = z /\ \A k \in 1 .. Len(cs) : k = 1
    OBVIOUS
  <2> HIDE DEF X
  <2>2. QED
    BY <1>6, <2>1
<1>9. g = Chained(f, cs)
  OBVIOUS
<1> HIDE DEF a, X, g
<1>10. AddPlan(d, t, f, g, a, p, s, cs, X, x, y)
  BY <1>3, <1>4, <1>7, <1>8, <1>9 DEF AddPlan
<1>11. QED
  BY <1>10 DEF a, X, g

FileWrites(cs, name, ext) == [k \in 1 .. Len(cs) |-> WriteCluster(cs[k], DataCluster(name, ext, k))]

(* A cluster of file data is a content of clusters, with no entries. *)
LEMMA DataClusterIs ==
  ASSUME NEW name \in Names, NEW ext \in Exts, NEW k \in 1 .. MaxSize
  PROVE  DataCluster(name, ext, k) \in Contents /\ DataCluster(name, ext, k).table = NoTable
<1>1. DataCluster(name, ext, k) = [data |-> Bytes(name, ext, k), table |-> NoTable]
  BY DEF DataCluster
<1>2. Bytes(name, ext, k) \in Names \X Exts \X (1 .. MaxSize)
  BY DEF Bytes
<1>3. NoTable \in [Slots -> {NoEntry} \cup UsedEntries]
  BY ZeroesContents
<1>4. QED
  BY <1>1, <1>2, <1>3 DEF Contents

(* write plans to add a file. *)
LEMMA WriteFilePlan ==
  ASSUME NEW d, NEW t \in Fats, NEW f \in Fats, DiskType(d), Consistent(d, f), t = f \/ (t = NoFat /\ Blank(d)),
         NEW p \in Folders(d), NEW s \in Slots, s >= 2, ~ InUse(Table(d, p)[s]),
         NEW size \in 1 .. MaxSize,
         NEW cs, Distinct(cs), Free(f, cs), Len(cs) = size, NEW name \in Names, NEW ext \in Exts,
         NEW x, x = Entry(name, ext, FALSE, cs[1], size),
         NEW y, y = TableCluster([Table(d, p) EXCEPT ![s] = x])
  PROVE  AddPlan(d, t, f, Chained(f, cs), FileWrites(cs, name, ext) \o <<WriteCluster(p, y)>>, p, s, cs,
                 [k \in 1 .. Len(cs) |-> DataCluster(name, ext, k)], x, y)
<1> DEFINE zs == FileWrites(cs, name, ext)
           one == <<WriteCluster(p, y)>>
           a == zs \o one
           X == [k \in 1 .. Len(cs) |-> DataCluster(name, ext, k)]
           g == Chained(f, cs)
<1>0. MaxSize \in Nat /\ size \in Nat /\ size >= 1 /\ size <= MaxSize /\ 1 \in 1 .. Len(cs)
  BY Fat32Assumption
<1>1. p \in DataClusters /\ cs[1] \in DataClusters
  BY <1>0, FoldersClosed DEF Distinct
<1>2. x \in UsedEntries /\ x.cluster = cs[1] /\ x.dir = FALSE /\ x.filesize = size
  BY <1>0, <1>1 DEF Entry, UsedEntries
<1>3. Describes(x, cs)
  BY <1>2 DEF Describes
<1>4. y \in Contents /\ y.table = [Table(d, p) EXCEPT ![s] = x]
  <2>1. Rewrites(d, p, s, x, y)
    BY <1>1, <1>2, FolderRewritten
  <2>2. QED
    BY <2>1 DEF Rewrites
<1>5. \A k \in 1 .. Len(cs) : X[k] = DataCluster(name, ext, k) /\ k \in 1 .. MaxSize
  BY <1>0
<1>6. \A k \in 1 .. Len(cs) : X[k] \in Contents /\ \A u \in Slots : u >= 2 => ~ InUse(X[k].table[u])
  BY <1>5, DataClusterIs DEF NoTable, InUse
<1>7. IsSeq(a) /\ AddWrites(a, cs, X, p, y)
  <2> DEFINE v == WriteCluster(p, y)
  <2>1. IsSeq(zs) /\ Len(zs) = Len(cs) /\ \A k \in 1 .. Len(cs) : zs[k] = WriteCluster(cs[k], X[k])
    <3>1. \A k \in 1 .. Len(cs) : zs[k] = WriteCluster(cs[k], X[k])
      BY <1>5 DEF FileWrites
    <3>2. zs = [k \in 1 .. size |-> zs[k]]
      BY DEF FileWrites
    <3> HIDE DEF zs
    <3>3. \A k \in 1 .. size : zs[k] \in {zs[k1] : k1 \in 1 .. size}
      OBVIOUS
    <3>4. zs \in [1 .. size -> {zs[k1] : k1 \in 1 .. size}]
      BY <3>2, <3>3
    <3>5. zs \in Seq({zs[k1] : k1 \in 1 .. size}) /\ Len(zs) = size
      BY <1>0, <3>4
    <3>6. QED
      BY <3>1, <3>5, SeqOwn
  <2>2. IsSeq(one) /\ Len(one) = 1 /\ one[1] = v
    <3> HIDE DEF v
    <3>1. <<v>> \in Seq({v}) /\ Len(<<v>>) = 1 /\ <<v>>[1] = v
      OBVIOUS
    <3>2. one = <<v>>
      BY DEF v
    <3> HIDE DEF one
    <3>3. QED
      BY <3>1, <3>2, SeqOwn
  <2> HIDE DEF zs, one, v
  <2>3. /\ IsSeq(a) /\ Len(a) = Len(zs) + Len(one)
        /\ \A k \in 1 .. Len(zs) : a[k] = zs[k]
        /\ \A k \in 1 .. Len(one) : a[Len(zs) + k] = one[k]
    <3>1. Joined(zs, one, a)
      BY <2>1, <2>2, Join
    <3>2. QED
      BY <3>1 DEF Joined
  <2> HIDE DEF a, X
  <2>4. a[Len(cs) + 1] = v
    <3>1. 1 \in 1 .. Len(one)
      BY <2>2
    <3>2. QED
      BY <2>1, <2>2, <2>3, <3>1
  <2>5. AddWrites(a, cs, X, p, y)
    BY <2>1, <2>2, <2>3, <2>4 DEF AddWrites, v
  <2>6. QED
    BY <2>3, <2>5
<1>8. ~ x.dir
  BY <1>2
<1>9. g = Chained(f, cs)
  OBVIOUS
<1> HIDE DEF a, X, g
<1>10. AddPlan(d, t, f, g, a, p, s, cs, X, x, y)
  BY <1>3, <1>4, <1>6, <1>7, <1>8, <1>9 DEF AddPlan
<1>11. QED
  BY <1>10 DEF a, X, g, zs, one

-----------------------------------------------------------------------------
(* The plans of delete *)

LEMMA DeletePlan ==
  ASSUME NEW d, NEW t \in Fats, NEW f \in Fats, DiskType(d), Consistent(d, f), t = f \/ (t = NoFat /\ Blank(d)),
         NEW z \in Entries(d), z.entry.dir => NoEntriesIn(d, z.entry.cluster),
         NEW cs, cs = ClustersOf(f, z),
         NEW y, y = TableCluster([Table(d, z.folder) EXCEPT ![z.slot] = NoEntry]),
         NEW zs, IsSeq(zs), Len(zs) = Len(cs), \A k \in 1 .. Len(cs) : zs[k] = WriteCluster(cs[k], Zeroes)
  PROVE  RemovePlan(d, t, f, Released(f, cs), <<WriteCluster(z.folder, y)>> \o zs, z, cs, y)
<1> DEFINE p == z.folder
           v == WriteCluster(p, y)
           one == <<v>>
           a == one \o zs
           g == Released(f, cs)
<1>1. p \in DataClusters /\ z.slot \in Slots
  BY EntryHas
<1>2. y \in Contents /\ y.table = [Table(d, p) EXCEPT ![z.slot] = NoEntry]
  <2>1. Rewrites(d, p, z.slot, NoEntry, y)
    BY <1>1, FolderRewritten
  <2>2. QED
    BY <2>1 DEF Rewrites
<1>3. Len(cs) \in Nat
  <2>1. HasChain(f, z)
    BY DEF Consistent
  <2>2. QED
    BY <2>1 DEF HasChain, IsChain
<1>4. IsSeq(a) /\ RemoveWrites(a, cs, p, y)
  <2>1. IsSeq(one) /\ Len(one) = 1 /\ one[1] = v
    <3> HIDE DEF v
    <3>1. <<v>> \in Seq({v}) /\ Len(<<v>>) = 1 /\ <<v>>[1] = v
      OBVIOUS
    <3>2. one = <<v>>
      OBVIOUS
    <3> HIDE DEF one
    <3>3. QED
      BY <3>1, <3>2, SeqOwn
  <2> HIDE DEF one, v
  <2>2. Joined(one, zs, a)
    BY <2>1, Join
  <2> HIDE DEF a
  <2>3. IsSeq(a) /\ Len(a) = Len(one) + Len(zs) /\ \A k \in 1 .. Len(one) : a[k] = one[k]
    BY <2>2 DEF Joined
  <2>4. \A k \in 1 .. Len(zs) : a[Len(one) + k] = zs[k]
    BY <2>2 DEF Joined
  <2>5. a[1] = v /\ Len(a) = Len(cs) + 1 /\ \A k \in 1 .. Len(cs) : a[k + 1] = WriteCluster(cs[k], Zeroes)
    <3>1. 1 \in 1 .. Len(one) /\ Len(a) = Len(cs) + 1
      BY <1>3, <2>1, <2>3
    <3>2. \A k \in 1 .. Len(cs) : k \in 1 .. Len(zs) /\ Len(one) + k = k + 1
      BY <1>3, <2>1
    <3>3. QED
      BY <2>1, <2>3, <2>4, <3>1, <3>2
  <2>6. QED
    BY <2>3, <2>5 DEF RemoveWrites, v
<1> HIDE DEF a, g
<1>5. RemovePlan(d, t, f, g, a, z, cs, y)
  BY <1>2, <1>4 DEF RemovePlan, g
<1>6. QED
  BY <1>5 DEF a, g, one, v

FileZeroes(cs) == [k \in 1 .. Len(cs) |-> ZeroCluster(cs[k])]

(* The clusters of a chain are zeroed as clusters, none as boot sector. *)
LEMMA FileZeroesAre ==
  ASSUME NEW cs \in Seq(DataClusters)
  PROVE  /\ IsSeq(FileZeroes(cs)) /\ Len(FileZeroes(cs)) = Len(cs)
         /\ \A k \in 1 .. Len(cs) : FileZeroes(cs)[k] = WriteCluster(cs[k], Zeroes)
<1> DEFINE zs == FileZeroes(cs)
<1>1. Len(cs) \in Nat /\ \A k \in 1 .. Len(cs) : cs[k] \in DataClusters
  OBVIOUS
<1>2. \A c \in DataClusters : c # 0
  BY DEF DataClusters
<1>3. \A k \in 1 .. Len(cs) : zs[k] = WriteCluster(cs[k], Zeroes)
  BY <1>1, <1>2 DEF FileZeroes, ZeroCluster
<1>4. zs = [k \in 1 .. Len(cs) |-> zs[k]]
  BY DEF FileZeroes
<1> HIDE DEF zs
<1>5. zs \in [1 .. Len(cs) -> {zs[k] : k \in 1 .. Len(cs)}]
  BY <1>4
<1>6. zs \in Seq({zs[k] : k \in 1 .. Len(cs)}) /\ Len(zs) = Len(cs)
  BY <1>1, <1>5
<1>7. QED
  BY <1>3, <1>6, SeqOwn DEF zs

(* The entry that delete finds, where it is not one of a folder's first two. *)
LEMMA FoundEntry ==
  ASSUME NEW d, NEW f, DiskType(d), Consistent(d, f), NEW p \in Folders(d), NEW s \in Slots, s >= 2,
         InUse(Table(d, p)[s]), NEW z, z = EntryAt(d, p, s)
  PROVE  /\ z \in Entries(d) /\ z.folder = p /\ z.slot = s /\ z.entry = Table(d, p)[s]
         /\ HasChain(f, z)
         /\ ~ z.entry.dir => /\ ClustersOf(f, z) = Walk(f, z.entry.cluster)
                             /\ Walk(f, z.entry.cluster) \in Seq(DataClusters)
                             /\ WalkEnds(f, z.entry.cluster)
<1>1. z.folder = p /\ z.slot = s /\ z.entry = Table(d, p)[s]
  BY DEF EntryAt
<1>2. z \in Entries(d)
  BY EntryIs
<1>3. HasChain(f, z)
  BY <1>2 DEF Consistent
<1>4. ASSUME ~ z.entry.dir
      PROVE  /\ ClustersOf(f, z) = Walk(f, z.entry.cluster)
             /\ Walk(f, z.entry.cluster) \in Seq(DataClusters)
             /\ WalkEnds(f, z.entry.cluster)
  <2>1. ClustersOf(f, z) = Walk(f, z.entry.cluster)
    BY <1>4 DEF ClustersOf
  <2>2. IsChain(f, ClustersOf(f, z)) /\ ClustersOf(f, z)[1] = z.entry.cluster
    BY <1>3 DEF HasChain
  <2>3. WalkEnds(f, z.entry.cluster)
    BY <2>2, ChainWalk
  <2>4. QED
    BY <2>1, <2>2, <2>3 DEF IsChain
<1>5. QED
  BY <1>1, <1>2, <1>3, <1>4

-----------------------------------------------------------------------------
(* The steps preserve the invariant *)

LEMMA InitFatInv == Init => FatInv
<1> SUFFICES ASSUME Init PROVE FatInv
  OBVIOUS
<1>1. /\ signature = FALSE /\ disk_fat = NoFat /\ disk = [c \in DataClusters |-> Zeroes]
      /\ mode = "off" /\ fat = NoFat /\ pending = <<>> /\ result = 0
  BY DEF Init
<1>2. DiskType(disk)
  BY <1>1, ZeroesContents DEF DiskType
<1>3. NoFat \in Fats
  BY Fat32Assumption DEF NoFat, Fats, Clusters, FAT32_FAT_EMPTY_ENTRY
<1>4. Blank(disk)
  BY <1>1 DEF Blank, Table, Zeroes, NoTable, InUse
<1>5. Len(<<>>) = 0 /\ <<>> \in Seq(SetOf(<<>>))
  OBVIOUS
<1>6. WritesOK(fat, pending)
  BY <1>1, <1>5 DEF WritesOK
<1>7. FatType
  BY <1>1, <1>2, <1>3, <1>6 DEF FatType
<1>8. OffInv
  BY <1>1, <1>4 DEF OffInv, Mountable
<1>9. UpInv
  BY <1>1 DEF UpInv
<1>10. QED
  BY <1>7, <1>8, <1>9 DEF FatInv

(* What an idle driver can rely on. *)
IdleFacts ==
  /\ signature = TRUE /\ DiskType(disk) /\ disk_fat \in Fats /\ fat \in Fats
  /\ mode = "up" /\ pending = <<>> /\ Settled(disk_fat, disk, fat)

(* An idle driver has them. *)
LEMMA IdleHas ==
  ASSUME FatInv, Idle
  PROVE  IdleFacts
<1>1. /\ signature \in BOOLEAN /\ DiskType(disk) /\ disk_fat \in Fats /\ fat \in Fats
      /\ mode = "up" /\ pending = <<>>
  BY DEF FatInv, FatType, Idle
<1>2. Promised(signature, disk_fat, disk, fat, <<>>, target)
  BY <1>1 DEF FatInv, UpInv
<1>3. signature /\ Settled(disk_fat, disk, fat)
  BY <1>1, <1>2, PromiseKept
<1>4. QED
  BY <1>1, <1>3 DEF IdleFacts

(* An operation that only answers. *)
Answers == result' \in {-1, 0, 1, 2, 3} /\ UNCHANGED <<diskVars, mode, fat, pending, target>>

(* It keeps the invariant. *)
LEMMA AnswersKeep ==
  ASSUME FatInv, Answers
  PROVE  FatInv'
<1>1. /\ signature' = signature /\ disk_fat' = disk_fat /\ disk' = disk /\ mode' = mode /\ fat' = fat
      /\ pending' = pending /\ target' = target /\ result' \in {-1, 0, 1, 2, 3}
  BY DEF Answers, diskVars
<1>2. FatType /\ OffInv /\ UpInv
  BY DEF FatInv
<1>3. FatType'
  BY <1>1, <1>2 DEF FatType
<1>4. OffInv'
  BY <1>1, <1>2 DEF OffInv
<1>5. UpInv'
  BY <1>1, <1>2 DEF UpInv
<1>6. QED
  BY <1>3, <1>4, <1>5 DEF FatInv

(* An operation that begins to write. *)
LEMMA BeginsKeep ==
  ASSUME IdleFacts, NEW key, Begin(pending', key), fat' \in Fats, WritesOK(fat', pending'),
         Promised(TRUE, disk_fat, disk, fat', pending', key)
  PROVE  FatInv'
<1>1. /\ signature' = TRUE /\ disk_fat' = disk_fat /\ disk' = disk /\ mode' = "up"
      /\ target' = key /\ result' = 0 /\ DiskType(disk) /\ disk_fat \in Fats
  BY DEF Begin, IdleFacts, diskVars
<1>2. FatType'
  BY <1>1 DEF FatType
<1>3. OffInv' /\ UpInv'
  BY <1>1 DEF OffInv, UpInv
<1>4. QED
  BY <1>2, <1>3 DEF FatInv

(* Mounting and formatting keep it. *)
LEMMA MountKeeps ==
  ASSUME FatInv, initialize_filesystem_fat32
  PROVE  FatInv'
<1>1. /\ mode = "off" /\ mode' = "up" /\ target' = NoTarget /\ result' = 0
      /\ signature' = signature /\ disk_fat' = disk_fat /\ disk' = disk
  BY DEF initialize_filesystem_fat32, diskVars
<1>2. /\ signature \in BOOLEAN /\ DiskType(disk) /\ disk_fat \in Fats
      /\ (signature \/ disk_fat = NoFat) /\ Mountable(disk_fat, disk)
  BY <1>1 DEF FatInv, FatType, OffInv
<1>3. fat' \in Fats /\ WritesOK(fat', pending') /\ Promised(signature, disk_fat, disk, fat', pending', NoTarget)
  <2>1. CASE signature
    <3>1. fat' = disk_fat /\ pending' = <<>>
      BY <2>1 DEF initialize_filesystem_fat32
    <3>2. Promised(signature, disk_fat, disk, disk_fat, <<>>, NoTarget) /\ WritesOK(disk_fat, <<>>)
      BY <1>2, <2>1, MountPromise
    <3>3. QED
      BY <1>2, <3>1, <3>2
  <2>2. CASE ~ signature
    <3>1. fat' = FreshFat /\ pending' = FormatWrites
      BY <2>2 DEF initialize_filesystem_fat32, create_fat32, FormatWrites
    <3>2. disk_fat = NoFat
      BY <1>2, <2>2
    <3>3. Blank(disk)
      <4>1. NoFat[Root] # FAT32_FAT_END_OF_FILE
        BY RootOnDisk DEF NoFat, DataClusters, Clusters, FAT32_FAT_EMPTY_ENTRY, FAT32_FAT_END_OF_FILE
      <4>2. QED
        BY <1>2, <3>2, <4>1 DEF Mountable, Consistent, ReservedEntries
    <3>4. Promised(signature, NoFat, disk, FreshFat, FormatWrites, NoTarget)
      BY <1>2, <3>3, FormatPromise
    <3>5. QED
      BY <3>1, <3>2, <3>4, FreshFatIs, FormatWritesIs
  <2>3. QED
    BY <2>1, <2>2
<1>4. FatType'
  BY <1>1, <1>2, <1>3 DEF FatType
<1>5. OffInv' /\ UpInv'
  BY <1>1, <1>3 DEF OffInv, UpInv
<1>6. QED
  BY <1>4, <1>5 DEF FatInv

(* A disk write keeps it. *)
LEMMA DiskWriteKeeps ==
  ASSUME FatInv, DiskWrite
  PROVE  FatInv'
<1>1. /\ signature \in BOOLEAN /\ DiskType(disk) /\ disk_fat \in Fats /\ fat \in Fats
      /\ WritesOK(fat, pending) /\ pending # <<>> /\ mode = "up" /\ result \in {-1, 0, 1, 2, 3}
      /\ Promised(signature, disk_fat, disk, fat, pending, target)
  BY DEF FatInv, FatType, UpInv, DiskWrite
<1>2. Head(pending) = pending[1] /\ WritesOK(fat, Tail(pending)) /\ 1 \in 0 .. Len(pending)
  <2>1. Head(pending) = pending[1] /\ WritesOK(fat, Tail(pending)) /\ Len(pending) \in Nat /\ 1 \in 1 .. Len(pending)
    BY <1>1, WritesAre
  <2>2. QED
    BY <2>1
<1>3. /\ DiskAfter(disk, pending[1]) = Written(disk, pending, 1)
      /\ TableAfter(disk_fat, pending[1]) = TableWritten(disk_fat, fat, pending, 1)
      /\ pending[1].what # "fault"
      /\ SignatureAfter(signature, pending[1]) \in BOOLEAN
  <2>1. DiskAfter(disk, pending[1]) = Written(disk, pending, 1)
    BY <1>1, FirstWrite
  <2>2. TableAfter(disk_fat, pending[1]) = TableWritten(disk_fat, fat, pending, 1)
    BY <1>1, FirstWrite
  <2>3. pending[1].what # "fault"
    BY <1>1, FirstWrite
  <2>4. SignatureAfter(signature, pending[1]) = (signature \/ pending[1].what = "boot")
    BY <1>1, FirstWrite
  <2>5. QED
    BY <2>1, <2>2, <2>3, <2>4
<1>4. /\ signature' = SignatureAfter(signature, pending[1])
      /\ disk' = DiskAfter(disk, pending[1])
      /\ disk_fat' = TableAfter(disk_fat, pending[1])
      /\ mode' = "up" /\ fat' = fat /\ result' = result /\ pending' = Tail(pending)
      /\ target' = IF Len(pending) = 1 THEN NoTarget ELSE target
  <2>1. signature' = SignatureAfter(signature, pending[1])
    BY <1>2 DEF DiskWrite, SignatureAfter
  <2>2. disk' = DiskAfter(disk, pending[1])
    BY <1>2 DEF DiskWrite, DiskAfter
  <2>3. disk_fat' = TableAfter(disk_fat, pending[1])
    BY <1>2 DEF DiskWrite, TableAfter
  <2>4. mode' = "up"
    BY <1>1, <1>2, <1>3 DEF DiskWrite
  <2>5. QED
    BY <2>1, <2>2, <2>3, <2>4 DEF DiskWrite
<1>5. Promised(signature', disk_fat', disk', fat, Tail(pending), target')
  BY <1>1, <1>4, WriteKeepsPromise
<1>6. DiskType(disk') /\ disk_fat' \in Fats
  BY <1>1, <1>2, <1>3, <1>4, WrittenType, TableWrittenType
<1>7. FatType'
  BY <1>1, <1>2, <1>3, <1>4, <1>6 DEF FatType
<1>8. OffInv' /\ UpInv'
  BY <1>4, <1>5 DEF OffInv, UpInv
<1>9. QED
  BY <1>7, <1>8 DEF FatInv

(* Switching off between operations keeps it. *)
LEMMA SwitchOffKeeps ==
  ASSUME FatInv, SwitchOff
  PROVE  FatInv'
<1>1. /\ Idle /\ mode' = "off" /\ fat' = NoFat /\ pending' = <<>> /\ result' = 0
      /\ signature' = signature /\ disk_fat' = disk_fat /\ disk' = disk
  BY DEF SwitchOff, PowerLoss, diskVars
<1>2. signature = TRUE /\ DiskType(disk) /\ disk_fat \in Fats /\ Settled(disk_fat, disk, fat)
  BY <1>1, IdleHas DEF IdleFacts
<1>3. Mountable(disk_fat, disk)
  BY <1>2, SettledMountable
<1>4. NoFat \in Fats
  BY Fat32Assumption DEF NoFat, Fats, Clusters, FAT32_FAT_EMPTY_ENTRY
<1>5. Len(<<>>) = 0 /\ <<>> \in Seq(SetOf(<<>>))
  OBVIOUS
<1>6. WritesOK(NoFat, <<>>)
  BY <1>5 DEF WritesOK
<1>7. FatType'
  BY <1>1, <1>2, <1>4, <1>6 DEF FatType
<1>8. OffInv' /\ UpInv'
  BY <1>1, <1>2, <1>3 DEF OffInv, UpInv
<1>9. QED
  BY <1>7, <1>8 DEF FatInv

(* A parent that is a folder is one of the disk's, and the disk consistent. *)
ParentFacts(p) ==
  /\ p \in Folders(disk) /\ Consistent(disk, fat)
  /\ disk_fat = fat \/ (disk_fat = NoFat /\ Blank(disk))
  /\ Table(disk, p)[0].dir /\ Table(disk, p)[1].dir

(* A parent that IsFolder accepts has them. *)
LEMMA ParentHas ==
  ASSUME IdleFacts, NEW p \in ProperParents, IsFolder(p)
  PROVE  ParentFacts(p)
<1>1. p \in DataClusters /\ p \in Folders(disk)
  BY DEF ProperParents
<1>2. Consistent(disk, fat) /\ (disk_fat = fat \/ (disk_fat = NoFat /\ Blank(disk)))
  BY <1>1, FolderOfUse DEF IdleFacts, IsFolder
<1>3. Table(disk, p)[0].dir /\ Table(disk, p)[1].dir
  BY <1>1, <1>2 DEF Consistent, FolderTables
<1>4. QED
  BY <1>1, <1>2, <1>3 DEF ParentFacts

(* Reading keeps it: the walk of a file that is found ends. *)
LEMMA ReadsKeep ==
  ASSUME FatInv, ProperReads
  PROVE  FatInv'
<1>1. Idle
  BY DEF ProperReads, read, read_directory
<1>2. IdleFacts
  BY <1>1, IdleHas
<1>3. CASE \E parent \in ProperParents, name \in Names, ext \in Exts, size \in 1 .. MaxSize :
             read(parent, name, ext, size)
  <2>1. PICK parent \in ProperParents, name \in Names, ext \in Exts, size \in 1 .. MaxSize :
               read(parent, name, ext, size)
    BY <1>3
  <2> DEFINE t == Table(disk, parent)
             files == FilesNamed(parent, name, ext)
  <2>2. read_code(parent, name, ext, size) \in {-1, 0, 1, 2, 3}
    BY DEF read_code
  <2>3. CASE Answer(read_code(parent, name, ext, size))
    BY <2>2, <2>3, AnswersKeep DEF Answer, Answers
  <2>4. CASE ReadFaults(parent, name, ext, size)
    <3> DEFINE s == FirstSlot(files)
    <3>1. ParentFacts(parent)
      BY <1>2, <2>4, ParentHas DEF ReadFaults
    <3>2. files \in SUBSET Nat
      BY DEF FilesNamed, Named, UsedSlots, Slots
    <3>3. s \in files
      BY <2>4, <3>2, FirstSlotLeast DEF ReadFaults
    <3>4. s \in Slots /\ InUse(t[s]) /\ ~ t[s].dir
      BY <3>3 DEF FilesNamed, Named, UsedSlots
    <3>5. ~ WalkEnds(fat, t[s].cluster)
      BY <2>4 DEF ReadFaults, Found
    <3> HIDE DEF s
    <3>6. s >= 2
      BY <3>1, <3>4 DEF ParentFacts, Slots
    <3>7. WalkEnds(fat, t[s].cluster)
      BY <1>2, <3>1, <3>4, <3>6, FoundEntry DEF ParentFacts, IdleFacts
    <3>8. QED
      BY <3>5, <3>7
  <2>5. QED
    BY <2>1, <2>3, <2>4 DEF read
<1>4. CASE \E parent \in ProperParents, name \in Names, size \in 1 .. MaxSize : read_directory(parent, name, size)
  <2>1. \E code \in {-1, 0, 1, 2, 3} : Answer(code)
    BY <1>4 DEF read_directory, read_directory_code
  <2>2. QED
    BY <2>1, AnswersKeep DEF Answer, Answers
<1>5. QED
  BY <1>3, <1>4 DEF ProperReads

(* Creating a file or a folder keeps it. *)
LEMMA WriteKeeps ==
  ASSUME FatInv, ProperWrite
  PROVE  FatInv'
<1>1. PICK parent \in ProperParents, name \in Names, ext \in Exts, size \in 0 .. MaxSize :
             write(parent, name, ext, size)
  BY DEF ProperWrite
<1> DEFINE t  == Table(disk, parent)
           n  == NeededClusters(size)
           cs == Allocation(fat, n)
           f  == Chained(fat, cs)
           s  == FirstSlot(FreeSlots(t))
           dirx == Entry(name, NoExt, TRUE, cs[1], 0)
           diry == TableCluster([t EXCEPT ![s] = dirx])
           dirz == TableCluster(DirectoryTable(name, cs[1], t[0].name, parent))
           filex == Entry(name, ext, FALSE, cs[1], size)
           filey == TableCluster([t EXCEPT ![s] = filex])
           diras == FolderWrites(parent, diry, cs[1], dirz)
           fileas == FileWrites(cs, name, ext) \o <<WriteCluster(parent, filey)>>
<1>2. IdleFacts
  BY <1>1, IdleHas DEF write
<1>3. n \in Nat \ {0} /\ size \in Nat /\ (size = 0 => n = 1) /\ (size # 0 => n = size /\ size \in 1 .. MaxSize)
  BY Fat32Assumption DEF NeededClusters
<1>4. \/ \E code \in {-1, 0, 1, 2, 3} : Answer(code)
      \/ /\ IsFolder(parent) /\ FreeSlots(t) # {} /\ ~ (n > Cardinality(EmptyClusters(fat)))
         /\ fat' = f
         /\ \/ size = 0 /\ Begin(diras \o write_cluster_map(f), FolderKey(parent, name))
            \/ size # 0 /\ Begin([k \in 1 .. size |-> WriteCluster(cs[k], DataCluster(name, ext, k))]
                                 \o <<WriteCluster(parent, filey)>> \o write_cluster_map(f), FileKey(parent, name, ext))
  BY <1>1 DEF write, FolderWrites
<1>5. CASE \E code \in {-1, 0, 1, 2, 3} : Answer(code)
  BY <1>5, AnswersKeep DEF Answer, Answers
<1>6. CASE /\ IsFolder(parent) /\ FreeSlots(t) # {} /\ ~ (n > Cardinality(EmptyClusters(fat)))
           /\ fat' = f
           /\ \/ size = 0 /\ Begin(diras \o write_cluster_map(f), FolderKey(parent, name))
              \/ size # 0 /\ Begin([k \in 1 .. size |-> WriteCluster(cs[k], DataCluster(name, ext, k))]
                                 \o <<WriteCluster(parent, filey)>> \o write_cluster_map(f), FileKey(parent, name, ext))
  <2>1. /\ parent \in Folders(disk) /\ Consistent(disk, fat) /\ (disk_fat = fat \/ (disk_fat = NoFat /\ Blank(disk)))
        /\ DiskType(disk) /\ disk_fat \in Fats /\ fat \in Fats
    BY <1>2, <1>6, ParentHas DEF ParentFacts, IdleFacts
  <2>2. Distinct(cs) /\ Len(cs) = n /\ Free(fat, cs)
    <3>1. ReservedEntries(fat)
      BY <2>1 DEF Consistent
    <3> HIDE DEF n
    <3>2. Distinct(cs)
      BY <1>3, <1>6, <3>1, AllocationGives
    <3>3. Len(cs) = n
      BY <1>3, <1>6, <3>1, AllocationGives
    <3>4. Free(fat, cs)
      BY <1>3, <1>6, <3>1, AllocationGives
    <3>5. QED
      BY <3>2, <3>3, <3>4
  <2> HIDE DEF n, cs
  <2>3. s \in Slots /\ s >= 2 /\ ~ InUse(t[s])
    BY <1>6, <2>1, FreeSlot
  <2> HIDE DEF s
  <2>4. CASE size = 0
    <3>1. AddPlan(disk, disk_fat, fat, f, diras, parent, s, cs, <<dirz>>, dirx, diry)
      BY <1>3, <2>1, <2>2, <2>3, <2>4, WriteFolderPlan
    <3>2. pending' = diras \o write_cluster_map(f) /\ Begin(pending', FolderKey(parent, name))
      BY <1>6, <2>4 DEF Begin
    <3>3. FolderKey(parent, name) = KeyOf([folder |-> parent, slot |-> s, entry |-> dirx])
      BY DEF KeyOf, Entry
    <3> HIDE DEF f, dirx, diry, dirz, diras
    <3>4. f \in Fats /\ WritesOK(f, diras \o write_cluster_map(f))
      BY <3>1, AddPlanWrites
    <3>5. Promised(TRUE, disk_fat, disk, f, diras \o write_cluster_map(f), FolderKey(parent, name))
      BY <3>1, <3>3, AddPlanPromise
    <3>6. QED
      BY <1>2, <1>6, <3>2, <3>4, <3>5, BeginsKeep
  <2>5. CASE size # 0
    <3> DEFINE X == [k \in 1 .. Len(cs) |-> DataCluster(name, ext, k)]
    <3>1. AddPlan(disk, disk_fat, fat, f, fileas, parent, s, cs, X, filex, filey)
      BY <1>3, <2>1, <2>2, <2>3, <2>5, WriteFilePlan
    <3>2. pending' = fileas \o write_cluster_map(f) /\ Begin(pending', FileKey(parent, name, ext))
      BY <1>3, <1>6, <2>2, <2>5 DEF Begin, FileWrites
    <3>3. FileKey(parent, name, ext) = KeyOf([folder |-> parent, slot |-> s, entry |-> filex])
      BY DEF KeyOf, Entry
    <3> HIDE DEF f, filex, filey, fileas, X
    <3>4. f \in Fats /\ WritesOK(f, fileas \o write_cluster_map(f))
      BY <3>1, AddPlanWrites
    <3>5. Promised(TRUE, disk_fat, disk, f, fileas \o write_cluster_map(f), FileKey(parent, name, ext))
      BY <3>1, <3>3, AddPlanPromise
    <3>6. QED
      BY <1>2, <1>6, <3>2, <3>4, <3>5, BeginsKeep
  <2>6. QED
    BY <2>4, <2>5
<1>7. QED
  BY <1>4, <1>5, <1>6

(* Deleting a file or an empty folder keeps it. *)
LEMMA DeleteKeeps ==
  ASSUME FatInv, ProperDelete
  PROVE  FatInv'
<1>1. PICK parent \in ProperParents, name \in Names, ext \in Exts :
             ProperRemoval(parent, name, ext) /\ delete(parent, name, ext)
  BY DEF ProperDelete
<1> DEFINE t  == Table(disk, parent)
           s  == FirstSlot(Matching(parent, name, ext))
           c  == t[s].cluster
           cs == Walk(fat, c)
           y == TableCluster([t EXCEPT ![s] = NoEntry])
           removed == WriteCluster(parent, y)
<1>2. IdleFacts
  BY <1>1, IdleHas DEF delete
<1>3. \/ \E code \in {-1, 0, 1, 2, 3} : Answer(code)
      \/ /\ IsFolder(parent) /\ Matching(parent, name, ext) # {}
         /\ t[s].dir /\ s # 0 /\ fat' = Released(fat, <<c>>)
         /\ Begin(DeleteWrites(removed, <<WriteCluster(c, Zeroes)>>, write_cluster_map(fat')), FolderKey(parent, name))
      \/ /\ IsFolder(parent) /\ Matching(parent, name, ext) # {}
         /\ ~ t[s].dir /\ fat' = Released(fat, cs)
         /\ Begin(DeleteWrites(removed, [k \in 1 .. Len(cs) |-> ZeroCluster(cs[k])],
                               IF WalkEnds(fat, c) THEN write_cluster_map(fat') ELSE <<Fault>>),
                  FileKey(parent, name, ext))
  BY <1>1 DEF delete
<1>4. CASE \E code \in {-1, 0, 1, 2, 3} : Answer(code)
  BY <1>4, AnswersKeep DEF Answer, Answers
<1>5. ASSUME IsFolder(parent), Matching(parent, name, ext) # {}
      PROVE  /\ parent \in Folders(disk) /\ Consistent(disk, fat)
             /\ (disk_fat = fat \/ (disk_fat = NoFat /\ Blank(disk)))
             /\ DiskType(disk) /\ disk_fat \in Fats /\ fat \in Fats
             /\ s \in Slots /\ InUse(t[s]) /\ t[s].name = name /\ t[s].ext = ext
             /\ s \in Matching(parent, name, ext)
             /\ t[0].dir /\ t[1].dir
  <2>1. Matching(parent, name, ext) \in SUBSET Nat
    BY DEF Matching, UsedSlots, Slots
  <2>2. s \in Matching(parent, name, ext)
    BY <1>5, <2>1, FirstSlotLeast
  <2>3. s \in Slots /\ InUse(t[s]) /\ t[s].name = name /\ t[s].ext = ext
    BY <2>2 DEF Matching, UsedSlots
  <2>4. QED
    BY <1>2, <1>5, <2>2, <2>3, ParentHas DEF ParentFacts, IdleFacts
<1>6. CASE /\ IsFolder(parent) /\ Matching(parent, name, ext) # {}
           /\ t[s].dir /\ s # 0 /\ fat' = Released(fat, <<c>>)
           /\ Begin(DeleteWrites(removed, <<WriteCluster(c, Zeroes)>>, write_cluster_map(fat')), FolderKey(parent, name))
  <2> DEFINE z == EntryAt(disk, parent, s)
             g == Released(fat, <<c>>)
             zs == <<WriteCluster(c, Zeroes)>>
             a == <<WriteCluster(parent, y)>> \o zs
             key == FolderKey(parent, name)
  <2>1. s # 1 /\ \A u \in Slots : u >= 2 => ~ InUse(Table(disk, c)[u])
    BY <1>1, <1>5, <1>6 DEF ProperRemoval
  <2>2. s \in Slots /\ s >= 2
    BY <1>5, <1>6, <2>1 DEF Slots
  <2> HIDE DEF s
  <2>3. z \in Entries(disk) /\ z.folder = parent /\ z.slot = s /\ z.entry = t[s]
    BY <1>5, <1>6, <2>2, FoundEntry
  <2> HIDE DEF z
  <2>4. ClustersOf(fat, z) = <<c>> /\ NoEntriesIn(disk, z.entry.cluster)
    BY <1>6, <2>1, <2>3, FolderOwns DEF NoEntriesIn
  <2>5. IsSeq(zs) /\ Len(zs) = Len(<<c>>) /\ \A k \in 1 .. Len(<<c>>) : zs[k] = WriteCluster(<<c>>[k], Zeroes)
    <3> HIDE DEF c
    <3>1. Len(zs) = 1 /\ Len(<<c>>) = 1 /\ zs[1] = WriteCluster(c, Zeroes) /\ <<c>>[1] = c /\ zs \in Seq({zs[1]})
      OBVIOUS
    <3> HIDE DEF zs
    <3>2. \A k \in 1 .. 1 : k = 1
      OBVIOUS
    <3>3. QED
      BY <3>1, <3>2, SeqOwn
  <2>6. y = TableCluster([Table(disk, z.folder) EXCEPT ![z.slot] = NoEntry])
    BY <2>3
  <2> DEFINE one == <<c>>
  <2> HIDE DEF y, c, zs
  <2>7. ClustersOf(fat, z) = one /\ Len(zs) = Len(one) /\ \A k \in 1 .. Len(one) : zs[k] = WriteCluster(one[k], Zeroes)
    BY <2>4, <2>5
  <2> HIDE DEF one
  <2>8. RemovePlan(disk, disk_fat, fat, Released(fat, one), a, z, one, y)
    BY <1>5, <1>6, <2>3, <2>4, <2>5, <2>6, <2>7, DeletePlan
  <2>9. fat' = Released(fat, one)
    BY <1>6 DEF one
  <2>10. pending' = a \o write_cluster_map(fat') /\ Begin(pending', key)
    BY <1>6 DEF Begin, DeleteWrites, zs
  <2>11. key = KeyOf(z)
    BY <1>5, <1>6, <2>3 DEF KeyOf
  <2> HIDE DEF a, key
  <2>12. fat' \in Fats /\ WritesOK(fat', a \o write_cluster_map(fat'))
    BY <2>8, <2>9, RemovePlanWrites
  <2>13. Promised(TRUE, disk_fat, disk, fat', a \o write_cluster_map(fat'), key)
    BY <2>8, <2>9, <2>11, RemovePlanPromise
  <2>14. QED
    BY <1>2, <2>10, <2>12, <2>13, BeginsKeep
<1>7. CASE /\ IsFolder(parent) /\ Matching(parent, name, ext) # {}
           /\ ~ t[s].dir /\ fat' = Released(fat, cs)
           /\ Begin(DeleteWrites(removed, [k \in 1 .. Len(cs) |-> ZeroCluster(cs[k])],
                                 IF WalkEnds(fat, c) THEN write_cluster_map(fat') ELSE <<Fault>>),
                    FileKey(parent, name, ext))
  <2> DEFINE z == EntryAt(disk, parent, s)
             zs == FileZeroes(cs)
             a == <<WriteCluster(parent, y)>> \o zs
             key == FileKey(parent, name, ext)
  <2>1. s \in Slots /\ s >= 2
    BY <1>5, <1>7 DEF Slots
  <2> HIDE DEF s
  <2>2. z \in Entries(disk) /\ z.folder = parent /\ z.slot = s /\ z.entry = t[s]
    BY <1>5, <1>7, <2>1, FoundEntry
  <2>3. ClustersOf(fat, z) = cs /\ cs \in Seq(DataClusters) /\ WalkEnds(fat, c)
    <3>1. /\ z.entry = t[s]
          /\ ~ z.entry.dir => /\ ClustersOf(fat, z) = Walk(fat, z.entry.cluster)
                              /\ Walk(fat, z.entry.cluster) \in Seq(DataClusters)
                              /\ WalkEnds(fat, z.entry.cluster)
      BY <1>5, <1>7, <2>1, FoundEntry
    <3>2. QED
      BY <1>7, <3>1
  <2> HIDE DEF z
  <2>4. IsSeq(zs) /\ Len(zs) = Len(cs) /\ \A k \in 1 .. Len(cs) : zs[k] = WriteCluster(cs[k], Zeroes)
    BY <2>3, FileZeroesAre
  <2>5. y = TableCluster([Table(disk, z.folder) EXCEPT ![z.slot] = NoEntry])
    BY <2>2
  <2>6. pending' = a \o write_cluster_map(fat') /\ Begin(pending', key)
    BY <1>7, <2>3 DEF Begin, DeleteWrites, FileZeroes
  <2>7. key = KeyOf(z)
    BY <1>5, <1>7, <2>2 DEF KeyOf
  <2>8. ~ z.entry.dir
    BY <1>7, <2>2
  <2> HIDE DEF y, cs, c, zs
  <2>9. RemovePlan(disk, disk_fat, fat, Released(fat, cs), a, z, cs, y)
    BY <1>5, <1>7, <2>2, <2>3, <2>4, <2>5, <2>8, DeletePlan
  <2> HIDE DEF a, key
  <2>10. fat' \in Fats /\ WritesOK(fat', a \o write_cluster_map(fat'))
    BY <1>7, <2>9, RemovePlanWrites
  <2>11. Promised(TRUE, disk_fat, disk, fat', a \o write_cluster_map(fat'), key)
    BY <1>7, <2>7, <2>9, RemovePlanPromise
  <2>12. QED
    BY <1>2, <2>6, <2>10, <2>11, BeginsKeep
<1>8. QED
  BY <1>3, <1>4, <1>6, <1>7

(* A step keeps FatInv. *)
LEMMA FatStep ==
  ASSUME FatInv, [Next]_vars
  PROVE  FatInv'
<1>1. CASE initialize_filesystem_fat32
  BY <1>1, MountKeeps
<1>2. CASE DiskWrite
  BY <1>2, DiskWriteKeeps
<1>3. CASE ProperReads
  BY <1>3, ReadsKeep
<1>4. CASE ProperWrite
  BY <1>4, WriteKeeps
<1>5. CASE ProperDelete
  BY <1>5, DeleteKeeps
<1>6. CASE SwitchOff
  BY <1>6, SwitchOffKeeps
<1>7. CASE UNCHANGED vars
  <2>1. /\ signature' = signature /\ disk_fat' = disk_fat /\ disk' = disk /\ mode' = mode /\ fat' = fat
        /\ pending' = pending /\ target' = target /\ result' = result
    BY <1>7 DEF vars, diskVars
  <2>2. FatType' /\ OffInv' /\ UpInv'
    BY <2>1 DEF FatInv, FatType, OffInv, UpInv
  <2>3. QED
    BY <2>2 DEF FatInv
<1>8. QED
  BY <1>1, <1>2, <1>3, <1>4, <1>5, <1>6, <1>7 DEF Next

(* FatInv is an invariant of the driver under proper callers. *)
THEOREM FatInvariance == Spec => []FatInv
<1>1. Init => FatInv
  BY InitFatInv
<1>2. FatInv /\ [Next]_vars => FatInv'
  BY FatStep
<1>3. QED
  BY <1>1, <1>2, PTL DEF Spec

(* Every variable of the driver stays in its type. *)
THEOREM TypeCorrect == Spec => []TypeOK
<1>1. FatInv => TypeOK
  <2> SUFFICES ASSUME FatInv PROVE TypeOK
    OBVIOUS
  <2>1. FatType
    BY DEF FatInv
  <2>2. DOMAIN disk = DataClusters /\ \A c \in DataClusters : disk[c] \in Contents
    BY <2>1 DEF FatType, DiskType
  <2>3. \A k \in 1 .. Len(pending) : pending[k].what \in {"boot", "cluster", "fat", "fault"}
    <3>1. \A k \in 1 .. Len(pending) : IsWrite(fat, pending[k])
      BY <2>1 DEF FatType, WritesOK
    <3>2. QED
      BY <3>1 DEF IsWrite, WriteBoot
  <2>4. QED
    BY <2>1, <2>2, <2>3 DEF FatType, TypeOK
<1>2. QED
  BY <1>1, FatInvariance, PTL

(* The chains of the table partition the clusters of the disk.              *)
THEOREM ChainsPartition == Spec => []ChainsPartitionClusters
<1>1. FatInv => ChainsPartitionClusters
  <2> SUFFICES ASSUME FatInv, mode = "up", IsFolder(Root)
               PROVE  /\ \A x \in Entries(FinalDisk) : Sound(fat, x)
                      /\ \A x, y \in Entries(FinalDisk) :
                           x # y => SetOf(ClustersOf(fat, x)) \cap SetOf(ClustersOf(fat, y)) = {}
                      /\ {c \in DataClusters : fat[c] # FAT32_FAT_EMPTY_ENTRY} =
                           {Root} \cup UNION {SetOf(ClustersOf(fat, x)) : x \in Entries(FinalDisk)}
    BY DEF ChainsPartitionClusters
  <2> DEFINE d == FinalDisk
  <2>1. Settled(TableWritten(disk_fat, fat, pending, Len(pending)), d, fat)
    BY DEF FatInv, UpInv, Promised, FinalDisk
  <2> HIDE DEF d
  <2>2. Consistent(d, fat)
    BY <2>1, RootOnDisk, FolderOfUse DEF IsFolder
  <2>3. \A x \in Entries(d) : HasChain(fat, x)
    BY <2>2 DEF Consistent
  <2>4. \A x \in Entries(d) : Sound(fat, x)
    BY <2>3, ChainSound
  <2>5. \A x, y \in Entries(d) : x # y => SetOf(ClustersOf(fat, x)) \cap SetOf(ClustersOf(fat, y)) = {}
    BY <2>2 DEF Consistent, ChainsApart, OwnedBy
  <2>6. \A x \in Entries(d) : SetOf(ClustersOf(fat, x)) \subseteq DataClusters
    BY <2>3, OwnedOnDisk DEF OwnedBy
  <2>7. \A c \in DataClusters :
          fat[c] # FAT32_FAT_EMPTY_ENTRY <=> c = Root \/ \E x \in Entries(d) : c \in SetOf(ClustersOf(fat, x))
    BY <2>2 DEF Consistent, Accounted, OwnedBy
  <2>8. {c \in DataClusters : fat[c] # FAT32_FAT_EMPTY_ENTRY} =
          {Root} \cup UNION {SetOf(ClustersOf(fat, x)) : x \in Entries(d)}
    BY <2>6, <2>7, RootOnDisk
  <2>9. QED
    BY <2>4, <2>5, <2>8 DEF d
<1>2. QED
  BY <1>1, FatInvariance, PTL

(* Between operations, once there is a table or an entry on the disk, the   *)
(* table on disk is the one in memory.                                      *)
THEOREM TableIsWrittenBack == Spec => []TableWrittenBack
<1>1. FatInv => TableWrittenBack
  <2> SUFFICES ASSUME FatInv, Idle, disk_fat # NoFat \/ Entries(disk) # {} PROVE disk_fat = fat
    BY DEF TableWrittenBack
  <2>1. DiskType(disk) /\ Settled(disk_fat, disk, fat)
    BY IdleHas DEF IdleFacts
  <2>2. QED
    BY <2>1, BlankHasNothing DEF Settled
<1>2. QED
  BY <1>1, FatInvariance, PTL

(* At every moment the disk holds what the operation under way leaves.      *)
LEMMA HoldsNow ==
  ASSUME FatInv
  PROVE  Holds(disk, disk_fat, FinalFat, FinalDisk, target)
<1>1. DiskType(disk) /\ disk_fat \in Fats /\ mode \in {"off", "up"} /\ WritesOK(fat, pending)
  BY DEF FatInv, FatType
<1>2. Written(disk, pending, 0) = disk /\ TableWritten(disk_fat, fat, pending, 0) = disk_fat
  BY <1>1, NothingWritten
<1>3. CASE mode = "up"
  <2>1. Len(pending) \in Nat
    BY <1>1 DEF WritesOK
  <2>2. 0 \in 0 .. Len(pending)
    BY <2>1
  <2>3. Promised(signature, disk_fat, disk, fat, pending, target)
    BY <1>3 DEF FatInv, UpInv
  <2>4. Holds(Written(disk, pending, 0), TableWritten(disk_fat, fat, pending, 0), fat, FinalDisk, target)
    BY <2>2, <2>3 DEF Promised, FinalDisk
  <2>5. FinalFat = fat
    BY <1>3 DEF FinalFat
  <2>6. QED
    BY <1>2, <2>4, <2>5
<1>4. CASE mode = "off"
  <2>1. pending = <<>> /\ Mountable(disk_fat, disk) /\ FinalFat = disk_fat
    BY <1>4 DEF FatInv, OffInv, FinalFat
  <2>2. Len(<<>>) = 0
    OBVIOUS
  <2>3. FinalDisk = disk
    BY <1>2, <2>1, <2>2 DEF FinalDisk
  <2>4. Settled(disk_fat, disk, disk_fat)
    BY <2>1 DEF Mountable, Settled
  <2>5. Holds(disk, disk_fat, disk_fat, disk, target)
    BY <1>1, <2>4, SettledHolds
  <2>6. QED
    BY <2>1, <2>3, <2>5
<1>5. QED
  BY <1>1, <1>3, <1>4

(* Whenever the power fails, the disk alone holds every file and folder     *)
(* that the operation under way does not create or remove.                  *)
THEOREM DiskHoldsRest == Spec => []DiskHoldsTheRest
<1>1. FatInv => DiskHoldsTheRest
  BY HoldsNow DEF Holds, DiskHoldsTheRest
<1>2. QED
  BY <1>1, FatInvariance, PTL

(* And only the entry that is being created can lead nowhere.               *)
THEOREM OnlyTheTargetDangles == Spec => []OnlyTargetDangles
<1>1. FatInv => OnlyTargetDangles
  BY HoldsNow DEF Holds, OnlyTargetDangles
<1>2. QED
  BY <1>1, FatInvariance, PTL

-----------------------------------------------------------------------------
(* Power that fails at any moment *)

(* A step of a driver on a disk without torn operations keeps the signature. *)
LEMMA SignatureKept ==
  ASSUME FatInv, [Next]_vars
  PROVE  signature => signature'
<1>1. CASE DiskWrite
  <2>1. /\ signature \in BOOLEAN /\ DiskType(disk) /\ disk_fat \in Fats /\ fat \in Fats
        /\ WritesOK(fat, pending) /\ pending # <<>>
    BY <1>1 DEF FatInv, FatType, DiskWrite
  <2>2. Head(pending) = pending[1]
    BY <2>1, WritesAre
  <2>3. SignatureAfter(signature, pending[1]) = (signature \/ pending[1].what = "boot")
    BY <2>1, FirstWrite
  <2>4. QED
    BY <1>1, <2>2, <2>3 DEF DiskWrite, SignatureAfter
<1>2. CASE initialize_filesystem_fat32 \/ SwitchOff \/ UNCHANGED vars
  BY <1>2 DEF initialize_filesystem_fat32, SwitchOff, PowerLoss, vars, diskVars
<1>3. CASE ProperReads
  <2>1. CASE \E parent \in ProperParents, name \in Names, ext \in Exts, size \in 1 .. MaxSize :
               read(parent, name, ext, size)
    <3>1. PICK parent \in ProperParents, name \in Names, ext \in Exts, size \in 1 .. MaxSize :
                 read(parent, name, ext, size)
      BY <2>1
    <3>2. (\E code : Answer(code)) \/ UNCHANGED diskVars
      BY <3>1 DEF read
    <3>3. QED
      BY <3>2 DEF Answer, diskVars
  <2>2. CASE \E parent \in ProperParents, name \in Names, size \in 1 .. MaxSize : read_directory(parent, name, size)
    BY <2>2 DEF read_directory, Answer, diskVars
  <2>3. QED
    BY <1>3, <2>1, <2>2 DEF ProperReads
<1>4. CASE ProperWrite
  <2>1. PICK parent \in ProperParents, name \in Names, ext \in Exts, size \in 0 .. MaxSize :
               write(parent, name, ext, size)
    BY <1>4 DEF ProperWrite
  <2>2. (\E code : Answer(code)) \/ \E writes, key : Begin(writes, key)
    BY <2>1 DEF write
  <2>3. QED
    BY <2>2 DEF Answer, Begin, diskVars
<1>5. CASE ProperDelete
  <2>1. PICK parent \in ProperParents, name \in Names, ext \in Exts : delete(parent, name, ext)
    BY <1>5 DEF ProperDelete
  <2>2. (\E code : Answer(code)) \/ \E writes, key : Begin(writes, key)
    BY <2>1 DEF delete
  <2>3. QED
    BY <2>2 DEF Answer, Begin, diskVars
<1>6. QED
  BY <1>1, <1>2, <1>3, <1>4, <1>5 DEF Next

(* Until an operation is cut short FatInv holds.                            *)
THEOREM TornInvariance == TornSpec => []TornInv
<1>1. TornInit => TornInv
  BY InitFatInv DEF TornInit, TornInv
<1>2. TornInv /\ [TornNext]_tornVars => TornInv'
  <2> SUFFICES ASSUME TornInv, [TornNext]_tornVars PROVE TornInv'
    OBVIOUS
  <2>1. CASE torn
    BY <2>1 DEF TornInv, TornNext, tornVars
  <2>2. CASE ~ torn /\ [Next]_vars /\ torn' = torn
    BY <2>2, FatStep DEF TornInv
  <2>3. CASE ~ torn /\ PowerLoss /\ torn' = (torn \/ pending # <<>>)
    <3>1. CASE pending = <<>>
      <4>1. FatInv /\ mode # "off"
        BY <2>3 DEF TornInv, PowerLoss
      <4>2. mode = "up"
        BY <4>1 DEF FatInv, FatType
      <4>3. SwitchOff
        BY <2>3, <3>1, <4>2 DEF SwitchOff, Idle
      <4>4. QED
        BY <2>3, <3>1, <4>1, <4>3, SwitchOffKeeps DEF TornInv
    <3>2. CASE pending # <<>>
      BY <2>3, <3>2 DEF TornInv
    <3>3. QED
      BY <3>1, <3>2
  <2>4. QED
    BY <2>1, <2>2, <2>3 DEF TornInv, TornNext, tornVars
<1>3. QED
  BY <1>1, <1>2, PTL DEF TornSpec

(* However the power fails, the kernel faults in the driver only after it   *)
(* failed in the middle of an operation.                                    *)
THEOREM FaultsNeedTornOperations == TornSpec => []FaultNeedsCut
<1>1. TornInv => FaultNeedsCut
  BY DEF TornInv, FaultNeedsCut, FatInv, FatType
<1>2. QED
  BY <1>1, TornInvariance, PTL

(* And only then can a call of proper callers clear the boot sector.        *)
THEOREM ClearingNeedsTornOperations == TornSpec => ClearingNeedsCut
<1>1. TornInv /\ [TornNext]_tornVars => [signature /\ ~signature' => torn]_tornVars
  <2> SUFFICES ASSUME TornInv, [TornNext]_tornVars, ~ torn PROVE signature => signature'
    BY DEF TornInv
  <2>1. FatInv
    BY DEF TornInv
  <2>2. CASE [Next]_vars
    BY <2>1, <2>2, SignatureKept
  <2>3. CASE PowerLoss
    BY <2>3 DEF PowerLoss, diskVars
  <2>4. QED
    BY <2>2, <2>3 DEF TornNext, tornVars
<1>2. QED
  BY <1>1, TornInvariance, PTL DEF TornSpec, ClearingNeedsCut
=============================================================================
