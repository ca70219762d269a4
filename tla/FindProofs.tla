----------------------------- MODULE FindProofs -----------------------------
(***************************************************************************)
(* Proofs about find (module Find), for any number of folders, files and   *)
(* changes by other shells.                                                *)
(*                                                                         *)
(* The folders above another are the least set closed under parents; all   *)
(* that is said of the tree follows from that, without recursion.  Folders *)
(* come and do not go, so that the ways the calls have taken stay ways.    *)
(***************************************************************************)
EXTENDS FindInvariant, FiniteSetTheorems, SequenceTheorems, TLAPS

-----------------------------------------------------------------------------
(* The tree of folders *)

(* A folder's name and parent are those of its entry.                       *)
LEMMA FolderFacts ==
  ASSUME TreeInv, NEW d \in folders
  PROVE  /\ FS!NameOf(d.id) = d.name /\ FS!ParentOf(d.id) = d.folder
         /\ d.id # Root /\ d.id \in Existing /\ d.folder \in Existing
         /\ d.id \in Ids /\ d.folder \in Ids /\ d.name \in DirNames
<1>1. \A e \in folders : e.id = d.id => e = d
  BY DEF TreeInv
<1>2. (CHOOSE e \in folders : e.id = d.id) = d
  BY <1>1
<1>3. d \in [folder : Ids, name : DirNames, id : Ids \ {Root}]
  BY DEF TreeInv
<1>4. d.folder \in Existing /\ d.id \in Existing
  BY DEF TreeInv, Existing
<1> QED
  BY <1>2, <1>3, <1>4 DEF FS!NameOf, FS!ParentOf

(* Folders that exist: the root, and those with an entry.                   *)
LEMMA ExistingFacts ==
  ASSUME TreeInv, NEW p \in Existing
  PROVE  /\ p \in Ids /\ FS!ParentOf(p) \in Existing
         /\ p = Root \/ \E d \in folders : d.id = p
<1>1. p = Root \/ \E d \in folders : d.id = p
  BY DEF Existing
<1>2. CASE p = Root
  BY <1>2, FindAssumption DEF FS!ParentOf, Existing
<1>3. CASE \E d \in folders : d.id = p
  BY <1>1, <1>3, FolderFacts
<1> QED
  BY <1>1, <1>2, <1>3

(* The folders above p are folders, p among them, with their parents.       *)
LEMMA AboveClosed ==
  ASSUME TreeInv, NEW p \in Existing
  PROVE  Above(p) \subseteq Existing /\ p \in Above(p) /\ ClosedUpward(Above(p))
<1>1. Above(p) \subseteq Existing /\ p \in Above(p)
  BY DEF Above
<1>2. ASSUME NEW q \in Above(p) PROVE FS!ParentOf(q) \in Above(p)
  BY <1>1, <1>2, ExistingFacts DEF Above, ClosedUpward
<1> QED
  BY <1>1, <1>2 DEF ClosedUpward

(* No set of folders with p that has all their parents is smaller.          *)
LEMMA AboveLeast ==
  ASSUME NEW p, NEW S \in SUBSET Existing, p \in S, ClosedUpward(S)
  PROVE  Above(p) \subseteq S
BY DEF Above

(* What is above a folder above p is above p.                               *)
LEMMA AboveTransitive ==
  ASSUME TreeInv, NEW p \in Existing, NEW q \in Above(p)
  PROVE  Above(q) \subseteq Above(p)
BY AboveClosed, AboveLeast

(* Above a folder are itself and what is above its parent.                  *)
LEMMA AboveStep ==
  ASSUME TreeInv, NEW p \in Existing
  PROVE  Above(p) = {p} \cup Above(FS!ParentOf(p))
<1> DEFINE u == FS!ParentOf(p)
<1>1. u \in Existing
  BY ExistingFacts
<1>2. Above(u) \subseteq Existing /\ u \in Above(u) /\ ClosedUpward(Above(u))
  BY <1>1, AboveClosed
<1>3. ClosedUpward({p} \cup Above(u))
  BY <1>2 DEF ClosedUpward
<1>4. Above(p) \subseteq {p} \cup Above(u)
  BY <1>2, <1>3, AboveLeast
<1>5. p \in Above(p) /\ u \in Above(p)
  BY AboveClosed DEF ClosedUpward
<1>6. Above(u) \subseteq Above(p)
  BY <1>5, AboveTransitive
<1> QED
  BY <1>4, <1>5, <1>6

(* From a folder above r that is not r itself, a child leads down to r.     *)
LEMMA WayDown ==
  ASSUME TreeInv, NEW r \in Existing, NEW q \in Above(r), q # r
  PROVE  \E d \in folders : d.folder = q /\ d.id \in Above(r)
<1> SUFFICES ASSUME \A d \in folders : d.folder = q => d.id \notin Above(r)
             PROVE  FALSE
  OBVIOUS
<1> DEFINE S == Above(r) \ {q}
<1>1. S \in SUBSET Existing /\ r \in S
  BY AboveClosed
<1>2. ASSUME NEW s \in S PROVE FS!ParentOf(s) \in S
  <2>1. s \in Existing /\ FS!ParentOf(s) \in Above(r)
    BY AboveClosed DEF ClosedUpward
  <2>2. CASE s = Root
    BY <2>1, <2>2 DEF FS!ParentOf
  <2>3. CASE \E d \in folders : d.id = s
    BY <2>1, <2>3, FolderFacts
  <2> QED
    BY <2>1, <2>2, <2>3, ExistingFacts
<1>3. Above(r) \subseteq S
  BY <1>1, <1>2, AboveLeast DEF ClosedUpward
<1> QED
  BY <1>3

(* What a folder's table holds.                                             *)
LEMMA TableFacts ==
  ASSUME TreeInv, StoreInv, NEW p \in Existing, NEW e \in Table(p)
  PROVE  /\ e.folder = p /\ e \in Entries
         /\ e.id = NoFolder => \E x \in files : x.name = e.name
         /\ e.id # NoFolder => /\ e \in FolderEntries
                               /\ \E d \in folders : d.folder = p /\ e = Entry(p, d.name, NoExt, d.id)
<1>1. p \in Ids
  BY ExistingFacts
<1>2. CASE \E x \in FS!FilesIn(p) : e = Entry(p, x.name, x.ext, NoFolder)
  BY <1>1, <1>2 DEF FS!FilesIn, StoreInv, Entry, Entries
<1>3. CASE \E d \in FS!FoldersIn(p) : e = Entry(p, d.name, NoExt, d.id)
  <2>1. PICK d \in FS!FoldersIn(p) : e = Entry(p, d.name, NoExt, d.id)
    BY <1>3
  <2>2. d \in folders /\ d.folder = p
    BY DEF FS!FoldersIn
  <2>3. d.id \in Ids /\ d.name \in DirNames
    BY <2>2, FolderFacts
  <2>4. d.id # NoFolder
    BY <2>3, FindAssumption
  <2> QED
    BY <1>1, <2>1, <2>2, <2>3, <2>4 DEF Entry, Entries, FolderEntries, Names, Exts
<1> QED
  BY <1>2, <1>3 DEF Table

(* An entry in a folder's table of a folder, and that folder.               *)
LEMMA FolderEntryFacts ==
  ASSUME TreeInv, NEW e \in FolderEntries
  PROVE  /\ e.id \in Existing /\ e.id # Root /\ e.id # NoFolder /\ e.ext = NoExt
         /\ FS!NameOf(e.id) = e.name /\ FS!ParentOf(e.id) = e.folder /\ e.folder \in Existing
         /\ e.name \in DirNames
         /\ e.name # FS!NameOf(e.folder) /\ e.name # FS!NameOf(FS!ParentOf(e.folder))
         /\ e.id \notin Above(e.folder)
         /\ \A f \in FolderEntries : f.id = e.id \/ (f.folder = e.folder /\ f.name = e.name) => f = e
         /\ \A d \in folders : d.folder = e.folder /\ d.name = e.name => d.id = e.id
         /\ e \in Table(e.folder)
<1>1. PICK d \in folders : e = Entry(d.folder, d.name, NoExt, d.id)
  BY DEF FolderEntries
<1>2. e.id = d.id /\ e.folder = d.folder /\ e.name = d.name /\ e.ext = NoExt
  BY <1>1 DEF Entry
<1>3. d.id # NoFolder
  BY FolderFacts, FindAssumption
<1>4. d.name # FS!NameOf(d.folder) /\ d.name # FS!NameOf(FS!ParentOf(d.folder)) /\ d.id \notin Above(d.folder)
  BY DEF TreeInv
<1>5. ASSUME NEW f \in FolderEntries, f.id = e.id \/ (f.folder = e.folder /\ f.name = e.name)
      PROVE  f = e
  <2>1. PICK g \in folders : f = Entry(g.folder, g.name, NoExt, g.id)
    BY DEF FolderEntries
  <2>2. g = d
    BY <1>2, <1>5, <2>1 DEF TreeInv, Entry
  <2> QED
    BY <1>1, <2>1, <2>2
<1>6. ASSUME NEW g \in folders, g.folder = e.folder, g.name = e.name PROVE g.id = e.id
  BY <1>2, <1>6 DEF TreeInv
<1>7. e \in Table(e.folder)
  <2>1. d \in FS!FoldersIn(d.folder)
    BY DEF FS!FoldersIn
  <2>2. e = Entry(e.folder, d.name, NoExt, d.id)
    BY <1>1, <1>2
  <2> QED
    BY <1>2, <2>1, <2>2 DEF Table
<1> QED
  BY <1>2, <1>3, <1>4, <1>5, <1>6, <1>7, FolderFacts

-----------------------------------------------------------------------------
(* Folders come and do not go *)

IdsApart == \A d \in folders : d.id # Root /\ \A e \in folders : d.id = e.id => d = e

(* New folders change nothing about the names, parents and ways of others.  *)
LEMMA StableTree ==
  ASSUME TreeInv, folders \subseteq folders', IdsApart', NEW p \in Existing
  PROVE  /\ p \in Existing' /\ FS!NameOf(p)' = FS!NameOf(p) /\ FS!ParentOf(p)' = FS!ParentOf(p)
         /\ Above(p)' = Above(p)
<1>1. ASSUME NEW q \in Existing
      PROVE  q \in Existing' /\ FS!NameOf(q)' = FS!NameOf(q) /\ FS!ParentOf(q)' = FS!ParentOf(q)
  <2>1. CASE q = Root
    BY <2>1 DEF Existing, FS!NameOf, FS!ParentOf
  <2>2. CASE q # Root
    <3>1. PICK d \in folders : d.id = q
      BY <2>2 DEF Existing
    <3>2. d \in folders' /\ \A e \in folders' : e.id = q => e = d
      BY <3>1 DEF IdsApart
    <3>3. (CHOOSE e \in folders' : e.id = q) = d
      BY <3>1, <3>2
    <3>4. FS!NameOf(q) = d.name /\ FS!ParentOf(q) = d.folder
      BY <3>1, FolderFacts
    <3>5. FS!NameOf(q)' = d.name /\ FS!ParentOf(q)' = d.folder
      BY <2>2, <3>3 DEF FS!NameOf, FS!ParentOf
    <3>6. q \in Existing'
      BY <3>1, <3>2 DEF Existing
    <3> QED
      BY <3>4, <3>5, <3>6
  <2> QED
    BY <2>1, <2>2
<1>2. Above(p) \subseteq Existing /\ p \in Above(p) /\ ClosedUpward(Above(p))
  BY AboveClosed
<1>3. Above(p)' \subseteq Above(p)
  <2>1. Above(p) \subseteq Existing' /\ \A q \in Above(p) : FS!ParentOf(q)' \in Above(p)
    BY <1>1, <1>2 DEF ClosedUpward
  <2> QED
    BY <1>2, <2>1 DEF Above, ClosedUpward
<1>4. ASSUME NEW q \in Above(p), NEW S \in SUBSET (Existing'), p \in S, \A s \in S : FS!ParentOf(s)' \in S
      PROVE  q \in S
  <2>1. S \cap Existing \in SUBSET Existing /\ p \in S \cap Existing
    BY <1>4
  <2>2. ClosedUpward(S \cap Existing)
    BY <1>1, <1>4, ExistingFacts DEF ClosedUpward
  <2>3. Above(p) \subseteq S \cap Existing
    BY <2>1, <2>2, AboveLeast
  <2> QED
    BY <2>3
<1>5. Above(p) \subseteq Above(p)'
  <2>1. Above(p) \subseteq Existing'
    BY <1>1, <1>2
  <2> QED
    BY <1>4, <2>1 DEF Above, ClosedUpward
<1> QED
  BY <1>1, <1>3, <1>5

(* In a tree the ids tell the folders apart.                                *)
LEMMA TreeIdsApart ==
  ASSUME TreeInv
  PROVE  IdsApart
BY DEF TreeInv, IdsApart

(* The same for what find wants, when the target is the same.               *)
LEMMA StableWants ==
  ASSUME TreeInv, TreeInv', folders \subseteq folders', target' = target, NEW p \in Existing
  PROVE  /\ p \in Existing' /\ FS!NameOf(p)' = FS!NameOf(p) /\ FS!ParentOf(p)' = FS!ParentOf(p)
         /\ Above(p)' = Above(p)
         /\ Inside(p)' = Inside(p) /\ MayBeMissed(p)' = MayBeMissed(p)
<1>1. ASSUME NEW q \in Existing
      PROVE  /\ q \in Existing' /\ FS!NameOf(q)' = FS!NameOf(q) /\ FS!ParentOf(q)' = FS!ParentOf(q)
             /\ Above(q)' = Above(q)
  <2>1. IdsApart'
    BY DEF TreeInv, IdsApart
  <2> QED
    BY <2>1, StableTree
<1>2. \A q \in Above(p) : q \in Existing /\ FS!ParentOf(q) \in Existing
  BY AboveClosed, ExistingFacts
<1>3. \A q \in Above(p) : /\ FS!NameOf(q)' = FS!NameOf(q)
                          /\ FS!NameOf(FS!ParentOf(q))' = FS!NameOf(FS!ParentOf(q))
  <2> TAKE q \in Above(p)
  <2>1. FS!ParentOf(q)' = FS!ParentOf(q) /\ FS!NameOf(q)' = FS!NameOf(q)
    BY <1>1, <1>2
  <2> DEFINE u == FS!ParentOf(q)
  <2>2. u \in Existing /\ u' = u
    BY <1>2, <2>1
  <2>3. FS!NameOf(u)' = FS!NameOf(u)
    <3> HIDE DEF u
    <3>1. \A w \in Existing : FS!NameOf(w)' = FS!NameOf(w)
      BY <1>1
    <3> QED
      BY <2>2, <3>1 DEF FS!NameOf
  <2> QED
    BY <2>1, <2>3
<1>4. Inside(p)' = Inside(p)
  BY <1>1, <1>3 DEF Inside
<1>5. MayBeMissed(p)' = MayBeMissed(p)
  BY <1>1, <1>3 DEF MayBeMissed
<1> QED
  BY <1>1, <1>4, <1>5

(* Folders whose names may be confused stay.                                *)
LEMMA StableLongInLong ==
  ASSUME TreeInv, TreeInv', folders \subseteq folders', LongInLong
  PROVE  LongInLong'
<1>1. PICK d \in folders : {d.name, FS!NameOf(d.folder)} \subseteq LongNames
  BY DEF LongInLong
<1>2. d.folder \in Existing
  BY FolderFacts
<1>3. FS!NameOf(d.folder)' = FS!NameOf(d.folder)
  <2>1. IdsApart'
    BY DEF TreeInv, IdsApart
  <2> QED
    BY <1>2, <2>1, StableTree
<1> QED
  BY <1>1, <1>3 DEF LongInLong

(* Entries of folders stay.                                                 *)
LEMMA StableEntries ==
  ASSUME folders \subseteq folders'
  PROVE  FolderEntries \subseteq FolderEntries'
BY DEF FolderEntries

-----------------------------------------------------------------------------
(* What other shells do to the store *)

FileAdded(p, name) ==
  /\ \E data : files' = files \cup {[folder |-> p, name |-> name, ext |-> "txt", data |-> data]}
  /\ UNCHANGED <<folders, open>>

FileRemoved == files' \subseteq files /\ UNCHANGED <<folders, open>>

FolderAdded(p, name) ==
  \E id \in Ids \ Existing :
    /\ name \notin FS!FolderNames(p)
    /\ folders' = folders \cup {[folder |-> p, name |-> name, id |-> id]}
    /\ UNCHANGED <<files, open>>

(* A file or folder appears, or a file goes.                                *)
LEMMA OthersChange ==
  ASSUME TreeInv, Others
  PROVE  \/ \E p \in Existing, name \in FileNames : FileAdded(p, name)
         \/ FileRemoved
         \/ \E p \in Existing, name \in DirNames : FolderAdded(p, name)
<1>1. PICK p \in Existing :
        \/ \E name \in FileNames :
             \/ FS!Write(p, name, "txt", <<Bytes(name, "txt", 1)>>)
             \/ FS!Delete(p, name, "txt")
        \/ \E name \in DirNames : FS!MakeFolder(p, name)
  BY DEF Others
<1>2. ASSUME NEW code, FS!Answer(code) PROVE FileRemoved
  BY <1>2 DEF FS!Answer, FileRemoved
<1>3. ASSUME NEW name \in FileNames, NEW data, FS!Write(p, name, "txt", data)
      PROVE  FileAdded(p, name) \/ FileRemoved
  <2>1. CASE \E code : FS!Answer(code)
    BY <1>2, <2>1
  <2>2. CASE ~ \E code : FS!Answer(code)
    <3>1. /\ files' = files \cup {[folder |-> p, name |-> name, ext |-> "txt", data |-> data]}
          /\ UNCHANGED <<folders, open>>
      BY <1>3, <2>2 DEF FS!Write
    <3> QED
      BY <3>1 DEF FileAdded
  <2> QED
    BY <2>1, <2>2
<1>4. ASSUME NEW name \in FileNames, FS!Delete(p, name, "txt") PROVE FileRemoved
  <2>1. CASE \E code : FS!Answer(code)
    BY <1>2, <2>1
  <2>2. CASE ~ \E code : FS!Answer(code)
    BY <1>4, <2>2 DEF FS!Delete, FileRemoved, NoExt
  <2> QED
    BY <2>1, <2>2
<1>5. ASSUME NEW name \in DirNames, FS!MakeFolder(p, name) PROVE FolderAdded(p, name) \/ FileRemoved
  <2>1. CASE \E code : FS!Answer(code)
    BY <1>2, <2>1
  <2>2. CASE ~ \E code : FS!Answer(code)
    <3>1. /\ name \notin FS!FolderNames(p)
          /\ \E id \in Ids :
               /\ id # Root /\ \A d \in folders : d.id # id
               /\ folders' = folders \cup {[folder |-> p, name |-> name, id |-> id]}
               /\ UNCHANGED <<files, open>>
      BY <1>5, <2>2 DEF FS!MakeFolder
    <3> QED
      BY <3>1 DEF FolderAdded, Existing
  <2> QED
    BY <2>1, <2>2
<1> QED
  BY <1>1, <1>3, <1>4, <1>5

(* A new folder is a leaf of the tree: its id was nobody's, and its name is *)
(* not one its folder answers to.                                           *)
LEMMA FolderAddedTree ==
  ASSUME TreeInv, NEW p \in Existing, NEW name \in DirNames, FolderAdded(p, name)
  PROVE  TreeInv' /\ folders \subseteq folders'
<1>1. PICK id \in Ids \ Existing :
        /\ name \notin FS!FolderNames(p)
        /\ folders' = folders \cup {[folder |-> p, name |-> name, id |-> id]}
  BY DEF FolderAdded
<1> DEFINE new == [folder |-> p, name |-> name, id |-> id]
<1>2. id # Root /\ id # p /\ \A d \in folders : d.id # id
  BY DEF Existing
<1>3. p \in Ids
  BY ExistingFacts
<1>4. IdsApart'
  BY <1>1, <1>2, TreeIdsApart DEF IdsApart
<1>5. \A q \in Existing : /\ q \in Existing' /\ FS!NameOf(q)' = FS!NameOf(q)
                          /\ FS!ParentOf(q)' = FS!ParentOf(q) /\ Above(q)' = Above(q)
  BY <1>1, <1>4, StableTree
<1>6. \A q \in Existing : FS!ParentOf(q) \in Existing
  BY ExistingFacts
<1>7. \A q \in Existing : FS!NameOf(FS!ParentOf(q))' = FS!NameOf(FS!ParentOf(q))
  <2> TAKE q \in Existing
  <2> DEFINE u == FS!ParentOf(q)
  <2>1. u \in Existing /\ u' = u
    BY <1>5, <1>6
  <2>2. FS!NameOf(u)' = FS!NameOf(u)
    <3> HIDE DEF u
    <3> QED
      BY <1>5, <2>1 DEF FS!NameOf
  <2> QED
    BY <2>2
<1>8. folders' \subseteq [folder : Ids, name : DirNames, id : Ids \ {Root}]
  BY <1>1, <1>2, <1>3 DEF TreeInv
<1>9. ASSUME NEW d \in folders', NEW e \in folders', d.id = e.id \/ (d.folder = e.folder /\ d.name = e.name)
      PROVE  d = e
  <2>1. \A f \in folders : f.folder = p => f.name # name
    BY <1>1 DEF FS!FolderNames, FS!FoldersIn
  <2>2. d \in folders /\ e \in folders => d = e
    BY <1>9 DEF TreeInv
  <2>3. d = new /\ e \in folders => FALSE
    BY <1>2, <1>9, <2>1
  <2>4. e = new /\ d \in folders => FALSE
    BY <1>2, <1>9, <2>1
  <2> QED
    BY <1>1, <2>2, <2>3, <2>4
<1>10. ASSUME NEW d \in folders'
       PROVE  /\ d.folder \in Existing'
              /\ d.name \notin {FS!NameOf(d.folder), FS!NameOf(FS!ParentOf(d.folder))}'
              /\ d.id \notin Above(d.folder)'
  <2>1. d.folder \in Existing
    BY <1>1, FolderFacts
  <2>2. d.name \notin {FS!NameOf(d.folder), FS!NameOf(FS!ParentOf(d.folder))}
    <3>1. CASE d \in folders
      BY <3>1 DEF TreeInv
    <3>2. CASE d = new
      BY <1>1, <3>2 DEF FS!FolderNames
    <3> QED
      BY <1>1, <3>1, <3>2
  <2>3. d.id \notin Above(d.folder)
    <3>1. CASE d \in folders
      BY <3>1 DEF TreeInv
    <3>2. CASE d = new
      BY <1>1, <3>2, AboveClosed
    <3> QED
      BY <1>1, <3>1, <3>2
  <2>4. /\ FS!NameOf(d.folder)' = FS!NameOf(d.folder)
        /\ FS!NameOf(FS!ParentOf(d.folder))' = FS!NameOf(FS!ParentOf(d.folder))
        /\ Above(d.folder)' = Above(d.folder) /\ d.folder \in Existing'
    BY <1>5, <1>7, <2>1
  <2> QED
    BY <2>2, <2>3, <2>4
<1> QED
  BY <1>1, <1>8, <1>9, <1>10 DEF TreeInv

(* The same folders.                                                        *)
LEMMA SameTree ==
  ASSUME TreeInv, folders' = folders
  PROVE  TreeInv'
<1>1. Existing' = Existing
  BY DEF Existing
<1>2. \A q : /\ FS!NameOf(q)' = FS!NameOf(q) /\ FS!ParentOf(q)' = FS!ParentOf(q)
             /\ FS!NameOf(FS!ParentOf(q))' = FS!NameOf(FS!ParentOf(q))
  BY DEF FS!NameOf, FS!ParentOf
<1>3. \A q : Above(q)' = Above(q)
  BY <1>1, <1>2 DEF Above, ClosedUpward
<1> QED
  BY <1>1, <1>2, <1>3 DEF TreeInv

(* The tree stays a tree and grows; every file is one that was there or has *)
(* the name that some shell gave it.                                        *)
LEMMA OthersTree ==
  ASSUME TreeInv, StoreInv, Others
  PROVE  TreeInv' /\ StoreInv' /\ folders \subseteq folders'
<1>1. CASE \E p \in Existing, name \in FileNames : FileAdded(p, name)
  <2>1. PICK p \in Existing, name \in FileNames : FileAdded(p, name)
    BY <1>1
  <2>2. p \in Ids /\ name \in Names /\ "txt" \in Exts
    BY ExistingFacts DEF Names, Exts
  <2>3. StoreInv'
    BY <2>1, <2>2 DEF FileAdded, StoreInv
  <2> QED
    BY <2>1, <2>3, SameTree DEF FileAdded
<1>2. CASE FileRemoved
  BY <1>2, SameTree DEF FileRemoved, StoreInv
<1>3. CASE \E p \in Existing, name \in DirNames : FolderAdded(p, name)
  <2>1. PICK p \in Existing, name \in DirNames : FolderAdded(p, name)
    BY <1>3
  <2>2. StoreInv'
    BY <2>1 DEF FolderAdded, StoreInv
  <2> QED
    BY <2>1, <2>2, FolderAddedTree
<1> QED
  BY <1>1, <1>2, <1>3, OthersChange

(* A copy of a table stays one: the folders in it are still there.          *)
LEMMA FrameStable ==
  ASSUME folders \subseteq folders', NEW fr, NEW p, FrameOf(fr, p)
  PROVE  FrameOf(fr, p)'
<1>1. FolderEntries \subseteq FolderEntries'
  BY StableEntries
<1> QED
  BY <1>1 DEF FrameOf

(* The other shells leave the calls of find as they are.                    *)
LEMMA OthersStack ==
  ASSUME FindInv, Others
  PROVE  StackInv' /\ SearchType' /\ NamesakeInv'
<1>1. TreeInv' /\ StoreInv' /\ folders \subseteq folders'
  BY OthersTree DEF FindInv
<1>2. UNCHANGED <<pc, target, stack, printed>> /\ owed' = owed \cap Stored'
  BY DEF Others
<1>3. IdsApart'
  BY <1>1 DEF TreeInv, IdsApart
<1>4. \A p \in Existing : p \in Existing'
  BY <1>1, <1>3, StableTree DEF FindInv
<1>5. \A i \in 1 .. Len(stack) : stack[i].wd \in Existing' /\ \E p \in Existing' : FrameOf(stack[i], p)'
  <2> TAKE i \in 1 .. Len(stack)
  <2>1. PICK p \in Existing : stack[i].wd \in Existing /\ FrameOf(stack[i], p)
    BY DEF FindInv, StackInv
  <2>2. FrameOf(stack[i], p)'
    <3> DEFINE fr == stack[i]
    <3>1. fr' = fr
      BY <1>2
    <3> HIDE DEF fr
    <3>2. \A gr : FrameOf(gr, p) => FrameOf(gr, p)'
      BY <1>1, FrameStable
    <3>3. FrameOf(fr, p)'
      BY <1>2, <2>1, <3>1, <3>2 DEF FrameOf, fr
    <3> QED
      BY <3>3 DEF fr
  <2> QED
    BY <1>4, <2>1, <2>2
<1>6. StackInv'
  BY <1>2, <1>5 DEF FindInv, StackInv
<1>7. SearchType'
  BY <1>2, FindAssumption DEF Others, FindInv, SearchType
<1>8. NamesakeInv'
  BY <1>2 DEF Others, NamesakeInv, FindInv, SearchType
<1> QED
  BY <1>6, <1>7, <1>8

(* What is owed stays within reach of the calls: the way to it has not      *)
(* changed, and what was removed is owed no more.                           *)
LEMMA OthersComplete ==
  ASSUME FindInv, Others
  PROVE  CompleteInv'
<1>1. TreeInv /\ TreeInv' /\ folders \subseteq folders'
  BY OthersTree DEF FindInv
<1>2. UNCHANGED <<pc, target, stack, printed>> /\ owed' = owed \cap Stored'
  BY DEF Others
<1>3. ASSUME NEW p \in Existing
      PROVE  /\ FS!NameOf(p)' = FS!NameOf(p) /\ Above(p)' = Above(p)
             /\ Inside(p)' = Inside(p) /\ MayBeMissed(p)' = MayBeMissed(p)
  BY <1>1, <1>2, StableWants
<1> SUFFICES ASSUME pc = "find", NEW e \in owed, e \in Stored'
             PROVE  /\ ~MayBeMissed(e.folder)' /\ Prints(e, Inside(e.folder))'
                    /\ \E i \in 1 .. Len(stack) : Covers(stack[i], e)'
  BY <1>2 DEF CompleteInv
<1>4. /\ e \in Stored /\ ~MayBeMissed(e.folder) /\ Prints(e, Inside(e.folder))
      /\ \E i \in 1 .. Len(stack) : Covers(stack[i], e)
  BY DEF FindInv, CompleteInv
<1>5. e.folder \in Existing
  <2>1. PICK p \in Existing : e \in Table(p)
    BY <1>4 DEF Stored
  <2> QED
    BY <2>1, TableFacts DEF FindInv
<1>6. Prints(e, Inside(e.folder))'
  <2>1. Inside(e.folder)' = Inside(e.folder)
    BY <1>3, <1>5
  <2> QED
    BY <1>2, <1>4, <2>1 DEF Prints, Matches
<1>7. PICK i \in 1 .. Len(stack) : Covers(stack[i], e)
  BY <1>4
<1>8. PICK x \in stack[i].left :
        /\ Leads(x, e) /\ Reliable(stack[i], x.folder)
        /\ target # Everything /\ Inside(x.folder) => stack[i].inside
  BY <1>7 DEF Covers
<1>9. x.folder \in Existing
  BY <1>7, <1>8 DEF FindInv, StackInv, FrameOf
<1>10. Leads(x, e)'
  <2>1. Above(e.folder)' = Above(e.folder)
    BY <1>3, <1>5
  <2> QED
    BY <1>8, <2>1 DEF Leads
<1>11. Reliable(stack[i], x.folder)'
  <2>1. FS!NameOf(x.folder)' = FS!NameOf(x.folder)
    BY <1>3, <1>9
  <2> QED
    BY <1>2, <1>8, <2>1 DEF Reliable
<1>12. Inside(x.folder)' = Inside(x.folder)
  BY <1>3, <1>9
<1>13. Covers(stack[i], e)'
  BY <1>2, <1>8, <1>10, <1>11, <1>12 DEF Covers
<1> QED
  BY <1>3, <1>4, <1>5, <1>6, <1>7, <1>13

(* The calls still descend folder by folder: nothing comes between a folder *)
(* and its parent.                                                          *)
LEMMA OthersOnce ==
  ASSUME FindInv, Others
  PROVE  OnceInv' /\ StuckInv'
<1>1. TreeInv /\ TreeInv' /\ folders \subseteq folders'
  BY OthersTree DEF FindInv
<1>2. UNCHANGED <<pc, target, stack, printed>>
  BY DEF Others
<1>3. ASSUME NEW p \in Existing
      PROVE  p \in Existing' /\ FS!NameOf(p)' = FS!NameOf(p) /\ Above(p)' = Above(p)
  BY <1>1, <1>2, StableWants
<1>4. (namesake => namesake') /\ (LongInLong => LongInLong')
  BY <1>1, StableLongInLong DEF Others, FindInv, SearchType
<1>5. StuckInv'
  BY <1>2, <1>4 DEF FindInv, StuckInv
<1>6. ASSUME pc = "find", ~namesake', ~LongInLong'
      PROVE  /\ \E ps \in [1 .. Len(stack) -> Existing'] : IsDescent(ps)'
             /\ \A y \in printed : y.folder \in Existing' /\ NotYet(y)'
  <2>1. /\ \E ps \in [1 .. Len(stack) -> Existing] : IsDescent(ps)
        /\ \A y \in printed : y.folder \in Existing /\ NotYet(y)
    BY <1>4, <1>6 DEF FindInv, OnceInv
  <2>2. PICK ps \in [1 .. Len(stack) -> Existing] : IsDescent(ps)
    BY <2>1
  <2>3. \A i \in 1 .. Len(stack) : /\ ps[i] \in Existing /\ ps[i] \in Existing'
                                   /\ FS!NameOf(ps[i])' = FS!NameOf(ps[i])
                                   /\ Above(ps[i])' = Above(ps[i])
    BY <1>3, <2>2
  <2>4. ASSUME NEW i \in 1 .. Len(stack)
        PROVE  /\ FrameOf(stack[i], ps[i])'
               /\ \/ stack[i].wd = ps[i]
                  \/ i > 1 /\ stack[i].wd = ps[i - 1] /\ ps[i] # Root /\ FS!NameOf(ps[i])' \in LongNames
    <3>1. FrameOf(stack[i], ps[i])
      BY <2>2 DEF IsDescent
    <3>2. FolderEntries \subseteq FolderEntries'
      BY <1>1, StableEntries
    <3>3. FrameOf(stack[i], ps[i])'
      BY <1>2, <3>1, <3>2 DEF FrameOf
    <3> QED
      BY <2>2, <2>3, <3>3 DEF IsDescent
  <2>5. ASSUME NEW i \in 1 .. Len(stack), NEW k \in 1 .. Len(stack)
        PROVE  /\ i < k => ps[i] \in Above(ps[k])' /\ ps[i] # ps[k]
               /\ i <= k => \A x \in stack[i].left : x.id \notin Above(ps[k])'
    BY <2>2, <2>3 DEF IsDescent
  <2>6. IsDescent(ps)'
    BY <1>2, <2>4, <2>5 DEF IsDescent
  <2>7. ps \in [1 .. Len(stack) -> Existing']
    BY <2>2, <2>3
  <2>8. ASSUME NEW y \in printed PROVE y.folder \in Existing' /\ NotYet(y)'
    <3>1. y.folder \in Existing /\ NotYet(y)
      BY <2>1
    <3>2. y.folder \in Existing' /\ Above(y.folder)' = Above(y.folder)
      BY <1>3, <3>1
    <3> QED
      BY <1>2, <3>1, <3>2 DEF NotYet
  <2> QED
    BY <2>6, <2>7, <2>8
<1>7. OnceInv'
  BY <1>2, <1>6 DEF OnceInv
<1> QED
  BY <1>5, <1>7

(* The other shells keep the whole invariant.                               *)
LEMMA OthersInv ==
  ASSUME FindInv, Others
  PROVE  FindInv'
BY OthersTree, OthersStack, OthersComplete, OthersOnce DEF FindInv

-----------------------------------------------------------------------------
(* The beginning and the end of calls *)

(* A read changes nothing but the code.                                     *)
LEMMA ReadChangesNothing ==
  ASSUME StoreInv, NEW p, NEW name, FS!ReadDirectory(p, name, FS!DIR_TABLE_SIZE)
  PROVE  /\ UNCHANGED <<files, folders, open>>
         /\ result' = 0 <=> p \in Existing /\ name \in FS!FolderNames(p)
<1>1. FS!Exists(p) <=> p \in Existing
  BY DEF FS!Exists, StoreInv, Existing
<1> QED
  BY <1>1 DEF FS!ReadDirectory, FS!ReadDirectoryCode, FS!Answer

(* With the same files and folders everything they tell is the same.        *)
LEMMA SameStore ==
  ASSUME UNCHANGED <<files, folders>>
  PROVE  /\ Existing' = Existing /\ Stored' = Stored /\ FolderEntries' = FolderEntries
         /\ LongInLong' = LongInLong
         /\ \A p : /\ FS!NameOf(p)' = FS!NameOf(p) /\ FS!ParentOf(p)' = FS!ParentOf(p)
                   /\ Above(p)' = Above(p) /\ Table(p)' = Table(p) /\ MayBeMissed(p)' = MayBeMissed(p)
         /\ \A fr, p : FrameOf(fr, p)' = FrameOf(fr, p)
<1>1. Existing' = Existing /\ FolderEntries' = FolderEntries
  BY DEF Existing, FolderEntries
<1>2. \A p : /\ FS!NameOf(p)' = FS!NameOf(p) /\ FS!ParentOf(p)' = FS!ParentOf(p)
             /\ FS!NameOf(FS!ParentOf(p))' = FS!NameOf(FS!ParentOf(p))
  BY DEF FS!NameOf, FS!ParentOf
<1>3. \A p : Above(p)' = Above(p)
  BY <1>1, <1>2 DEF Above, ClosedUpward
<1>4. \A p : Table(p)' = Table(p)
  BY DEF Table, FS!FilesIn, FS!FoldersIn
<1>5. Stored' = Stored
  BY <1>1, <1>4 DEF Stored
<1>6. \A p : MayBeMissed(p)' = MayBeMissed(p)
  BY <1>2, <1>3 DEF MayBeMissed
<1>7. LongInLong' = LongInLong
  BY <1>2 DEF LongInLong
<1>8. \A fr, p : FrameOf(fr, p)' = FrameOf(fr, p)
  BY <1>1 DEF FrameOf
<1> QED
  BY <1>1, <1>2, <1>3, <1>4, <1>5, <1>6, <1>7, <1>8

(* A fresh call works on a folder's table.                                  *)
LEMMA FreshFrame ==
  ASSUME TreeInv, StoreInv, NEW wd \in Existing, NEW p \in Existing, NEW inside \in BOOLEAN
  PROVE  /\ Frame(wd, Table(p), inside) \in Frames
         /\ FrameOf(Frame(wd, Table(p), inside), p)
         /\ \A x \in Table(p) : x.id \notin Above(p)
<1>1. wd \in Ids
  BY ExistingFacts
<1>2. \A e \in Table(p) : e \in Entries /\ e.folder = p /\ (e.id # NoFolder => e \in FolderEntries)
  BY TableFacts
<1>3. Frame(wd, Table(p), inside) \in Frames
  BY <1>1, <1>2 DEF Frame, Frames
<1>4. FrameOf(Frame(wd, Table(p), inside), p)
  BY <1>2 DEF Frame, FrameOf
<1>5. ASSUME NEW x \in Table(p) PROVE x.id \notin Above(p)
  <2>1. CASE x.id = NoFolder
    BY <2>1, AboveClosed, ExistingFacts, FindAssumption
  <2>2. CASE x.id # NoFolder
    BY <1>2, <2>2, FolderEntryFacts
  <2> QED
    BY <2>1, <2>2
<1> QED
  BY <1>3, <1>4, <1>5

(* What lies in a folder or below it is reached from its table.             *)
LEMMA TableLeads ==
  ASSUME TreeInv, StoreInv, NEW p \in Existing, NEW e \in Stored, p \in Above(e.folder)
  PROVE  \E x \in Table(p) : x.folder = p /\ Leads(x, e)
<1>1. PICK q \in Existing : e \in Table(q)
  BY DEF Stored
<1>2. e.folder = q
  BY <1>1, TableFacts
<1>3. CASE p = q
  BY <1>1, <1>2, <1>3 DEF Leads
<1>4. CASE p # q
  <2>1. PICK d \in folders : d.folder = p /\ d.id \in Above(q)
    BY <1>2, <1>4, WayDown
  <2>2. Entry(p, d.name, NoExt, d.id) \in Table(p)
    BY <2>1 DEF Table, FS!FoldersIn
  <2>3. Leads(Entry(p, d.name, NoExt, d.id), e) /\ Entry(p, d.name, NoExt, d.id).folder = p
    BY <1>2, <2>1 DEF Leads, Entry
  <2> QED
    BY <2>2, <2>3
<1> QED
  BY <1>3, <1>4

(* A fresh disk holds only the program of the shell, and nothing is sought. *)
LEMMA InitInv == Init => FindInv
<1> SUFFICES ASSUME Init PROVE FindInv
  OBVIOUS
<1>1. TreeInv
  BY DEF Init, TreeInv
<1>2. StoreInv
  BY FindAssumption DEF Init, StoreInv, Names, Exts
<1>3. StackInv
  BY FindAssumption, EmptySeq DEF Init, StackInv
<1>4. SearchType
  <2>1. namesake \in BOOLEAN
    BY DEF Init
  <2>2. changes \in 0 .. MaxChanges
    BY FindAssumption DEF Init
  <2> QED
    BY <2>1, <2>2 DEF Init, SearchType
<1> QED
  BY <1>1, <1>2, <1>3, <1>4 DEF Init, FindInv, CompleteInv, NamesakeInv, OnceInv, StuckInv

(* find begins with one call, on the table of the working directory, from   *)
(* which all it is to print can be reached.                                 *)
LEMMA StartFind ==
  ASSUME FindInv, NEW start \in Existing, NEW t \in Targets, Start(start, t)
  PROVE  FindInv'
<1> DEFINE inside == t # Everything /\ Inside(start)'
<1>1. UNCHANGED <<files, folders, open>>
  BY ReadChangesNothing DEF Start, FindInv
<1>0. PICK fr : fr = Frame(start, Table(start), inside)
  OBVIOUS
<1>2. target' = t /\ pc' = "find" /\ stack' = <<fr>> /\ owed' = Wanted(start)' /\ printed' = {}
      /\ namesake' = Namesake /\ changes' = 0
  BY <1>0 DEF Start
<1>3. TreeInv /\ StoreInv /\ TreeInv' /\ StoreInv'
  BY <1>1, SameTree DEF FindInv, StoreInv
<1>4. inside \in BOOLEAN
  BY DEF Inside
<1>5. fr \in Frames /\ FrameOf(fr, start) /\ \A x \in Table(start) : x.id \notin Above(start)
  <2> HIDE DEF inside
  <2> QED
    BY <1>0, <1>3, <1>4, FreshFrame
<1>6. fr.wd = start /\ fr.left = Table(start) /\ fr.inside = inside
  BY <1>0 DEF Frame
<1>7. Len(stack') = 1 /\ stack'[1] = fr
  BY <1>2
<1>8. Existing' = Existing /\ Stored' = Stored
      /\ \A p : Above(p)' = Above(p) /\ Table(p)' = Table(p) /\ FrameOf(fr, p)' = FrameOf(fr, p)
  BY <1>1, SameStore
<1>9. StackInv'
  <2>1. stack' \in Seq(Frames)
    BY <1>2, <1>5
  <2>2. 1 <= StackFrames
    <3>1. Cardinality(Ids) \in Nat
      BY FindAssumption, FS_CardinalityType
    <3> QED
      BY <3>1, FindAssumption
  <2>3. FrameOf(fr, start)'
    BY <1>5, <1>8
  <2>4. stack' # <<>>
    BY <1>2
  <2> QED
    <3>1. \A i \in 1 .. Len(stack') : i = 1
      BY <1>7
    <3>2. start \in Existing' /\ fr.wd \in Existing'
      BY <1>6, <1>8
    <3>3. \A i \in 1 .. Len(stack') : stack'[i].wd \in Existing' /\ \E p \in Existing' : FrameOf(stack[i], p)'
      BY <1>7, <2>3, <3>1, <3>2 DEF FrameOf
    <3> QED
      BY <1>2, <1>7, <2>1, <2>2, <2>4, <3>3 DEF StackInv
<1>10. SearchType'
  <2>1. owed' \subseteq Entries
    <3>1. \A e \in Stored : e \in Entries
      BY <1>3, TableFacts DEF Stored
    <3> QED
      BY <1>2, <1>8, <3>1 DEF Wanted
  <2>2. namesake' \in BOOLEAN
    BY <1>2 DEF Namesake
  <2> QED
    BY <1>2, <2>1, <2>2, FindAssumption DEF SearchType
<1>11. CompleteInv'
  <2> SUFFICES ASSUME NEW e \in owed'
               PROVE  /\ (e \in Stored)' /\ ~MayBeMissed(e.folder)' /\ Prints(e, Inside(e.folder))'
                      /\ Covers(fr, e)'
    BY <1>7 DEF CompleteInv
  <2>1. /\ e \in Stored' /\ start \in Above(e.folder)' /\ ~MayBeMissed(e.folder)'
        /\ Prints(e, Inside(e.folder))'
    BY <1>2 DEF Wanted
  <2>2. e \in Stored /\ start \in Above(e.folder)
    BY <1>8, <2>1
  <2>3. PICK x \in Table(start) : x.folder = start /\ Leads(x, e)
    BY <1>3, <2>2, TableLeads
  <2>4. Leads(x, e)'
    BY <1>8, <2>3 DEF Leads
  <2>5. Reliable(fr, x.folder)'
    BY <1>6, <2>3 DEF Reliable
  <2>6. t # Everything /\ Inside(x.folder)' => fr.inside
    BY <1>6, <2>3
  <2>7. Covers(fr, e)'
    BY <1>2, <1>6, <2>4, <2>5, <2>6 DEF Covers
  <2> QED
    BY <2>1, <2>7
<1>12. NamesakeInv'
  <2>1. \A x \in Table(start) : x.id = NoFolder => \E f \in files : f.name = x.name
    BY <1>3, TableFacts
  <2>2. NamesOfFiles' \subseteq {x.name : x \in files}
    BY <1>1, <1>6, <1>7, <2>1 DEF NamesOfFiles
  <2>3. Namesake' => Namesake
    BY <1>1, <2>2 DEF Namesake, NamesOfFiles
  <2> QED
    BY <1>2, <2>3 DEF NamesakeInv
<1>13. OnceInv'
  <2> DEFINE ps == [i \in 1 .. 1 |-> start]
  <2>1. ps \in [1 .. Len(stack') -> Existing']
    BY <1>7, <1>8
  <2>2. FrameOf(fr, start)' /\ \A x \in fr.left : x.id \notin Above(start)'
    BY <1>5, <1>6, <1>8
  <2>3. IsDescent(ps)'
    BY <1>6, <1>7, <2>2 DEF IsDescent, FrameOf
  <2> QED
    BY <1>2, <2>1, <2>3 DEF OnceInv
<1>14. StuckInv'
  BY <1>2 DEF StuckInv
<1> QED
  BY <1>3, <1>9, <1>10, <1>11, <1>12, <1>13, <1>14 DEF FindInv

(* A stack without its last element.                                        *)
LEMMA FrontFacts ==
  ASSUME NEW S, NEW s \in Seq(S), s # <<>>
  PROVE  /\ Len(s) \in Nat \ {0} /\ Last(s) = s[Len(s)] /\ Last(s) \in S
         /\ Front(s) \in Seq(S) /\ Len(Front(s)) = Len(s) - 1
         /\ \A i \in 1 .. Len(s) - 1 : Front(s)[i] = s[i]
<1>1. Len(s) \in Nat /\ Len(s) # 0
  BY EmptySeq
<1>2. Last(s) = s[Len(s)] /\ Last(s) \in S
  BY <1>1 DEF Last
<1>3. /\ SubSeq(s, 1, Len(s) - 1) \in Seq(S) /\ Len(SubSeq(s, 1, Len(s) - 1)) = Len(s) - 1
      /\ \A i \in 1 .. Len(s) - 1 : SubSeq(s, 1, Len(s) - 1)[i] = s[i]
  <2> DEFINE m == Len(s) - 1
  <2>1. m \in Nat /\ m <= Len(s) /\ \A i \in 1 .. m : s[i] \in S
    BY <1>1
  <2>2. m - 1 + 1 = m /\ \A i \in 1 .. m : 1 + i - 1 = i
    BY <2>1
  <2> HIDE DEF m
  <2>3. /\ SubSeq(s, 1, m) \in Seq(S) /\ Len(SubSeq(s, 1, m)) = IF 1 <= m THEN m - 1 + 1 ELSE 0
        /\ \A i \in 1 .. m - 1 + 1 : SubSeq(s, 1, m)[i] = s[1 + i - 1]
    BY <2>1, SubSeqProperties
  <2>4. SubSeq(s, 1, m) \in Seq(S) /\ Len(SubSeq(s, 1, m)) = m /\ \A i \in 1 .. m : SubSeq(s, 1, m)[i] = s[i]
    BY <2>1, <2>2, <2>3
  <2> QED
    BY <2>4 DEF m
<1>4. Front(s) = SubSeq(s, 1, Len(s) - 1)
  BY DEF Front
<1> QED
  BY <1>1, <1>2, <1>3, <1>4

(* What a search in progress has on its stack.                              *)
LEMMA Searching ==
  ASSUME FindInv, pc = "find"
  PROVE  /\ stack \in Seq(Frames) /\ stack # <<>> /\ Len(stack) \in Nat \ {0}
         /\ Last(stack) = stack[Len(stack)] /\ Last(stack) \in Frames
         /\ Front(stack) \in Seq(Frames) /\ Len(Front(stack)) = Len(stack) - 1
         /\ \A i \in 1 .. Len(stack) - 1 : Front(stack)[i] = stack[i]
<1>1. stack \in Seq(Frames) /\ stack # <<>>
  BY DEF FindInv, StackInv
<1> QED
  BY <1>1, FrontFacts

(* A call ends with nothing left to visit, so no entry depends on it.       *)
LEMMA ReturnLeavesNothing ==
  ASSUME FindInv, Return, NEW e \in owed
  PROVE  \E i \in 1 .. Len(stack) - 1 : Covers(stack[i], e)
<1>1. pc = "find" /\ Last(stack).left = {}
  BY DEF Return
<1>2. PICK i \in 1 .. Len(stack) : Covers(stack[i], e)
  BY <1>1 DEF FindInv, CompleteInv
<1>3. i # Len(stack)
  BY <1>1, <1>2, Searching DEF Covers
<1> QED
  BY <1>1, <1>2, <1>3, Searching

(* When a call returns, those before it go on where they were.              *)
LEMMA ReturnInv ==
  ASSUME FindInv, Return
  PROVE  FindInv'
<1>1. /\ pc = "find" /\ Last(stack).left = {} /\ stack' = Front(stack)
      /\ UNCHANGED <<files, folders, open>>
      /\ pc' = IF stack' = <<>> THEN "prompt" ELSE "find"
      /\ IF stack' = <<>>
         THEN printed' = {} /\ owed' = {} /\ namesake' = FALSE /\ changes' = 0 /\ target' = Everything
         ELSE UNCHANGED <<printed, owed, namesake, changes, target>>
  BY DEF Return, AfterReturn, storeVars
<1>2. TreeInv' /\ StoreInv'
  BY <1>1, SameTree DEF FindInv, StoreInv
<1>3. /\ stack' \in Seq(Frames) /\ Len(stack') = Len(stack) - 1 /\ Len(stack) \in Nat \ {0}
      /\ \A i \in 1 .. Len(stack') : i \in 1 .. Len(stack) /\ stack'[i] = stack[i]
  BY <1>1, Searching
<1>4. /\ Existing' = Existing /\ Stored' = Stored /\ LongInLong' = LongInLong
      /\ \A p : /\ Above(p)' = Above(p) /\ FS!NameOf(p)' = FS!NameOf(p)
                /\ MayBeMissed(p)' = MayBeMissed(p)
      /\ \A fr, p : FrameOf(fr, p)' = FrameOf(fr, p)
  BY <1>1, SameStore
<1>5. StackInv'
  <2>1. Len(stack') <= StackFrames
    BY <1>3, FindAssumption DEF FindInv, StackInv
  <2>2. ASSUME NEW i \in 1 .. Len(stack')
        PROVE  stack'[i].wd \in Existing' /\ \E p \in Existing' : FrameOf(stack[i], p)'
    <3>1. PICK p \in Existing : stack[i].wd \in Existing /\ FrameOf(stack[i], p)
      BY <1>3 DEF FindInv, StackInv
    <3>2. stack'[i] = stack[i]
      BY <1>3
    <3>3. FrameOf(stack[i], p)'
      <4>1. \A fr : FrameOf(fr, p) => FrameOf(fr, p)'
        BY <1>4
      <4>2. PICK fr : fr = stack[i]
        OBVIOUS
      <4>3. FrameOf(fr, p)'
        BY <3>1, <4>1, <4>2
      <4> QED
        BY <3>2, <4>2, <4>3 DEF FrameOf
    <3> QED
      BY <1>4, <3>1, <3>2, <3>3
  <2> QED
    BY <1>1, <1>3, <2>1, <2>2 DEF StackInv
<1>6. SearchType'
  <2>1. namesake' \in BOOLEAN
    BY <1>1 DEF FindInv, SearchType
  <2>2. changes' \in 0 .. MaxChanges
    BY <1>1, FindAssumption DEF FindInv, SearchType
  <2>3. printed' \subseteq Entries /\ owed' \subseteq Entries
    BY <1>1 DEF FindInv, SearchType
  <2>4. target' \in Targets \cup {Everything} /\ pc' \in {"prompt", "find", "stuck"}
    BY <1>1 DEF FindInv, SearchType
  <2>5. pc' = "prompt" => owed' = {}
    BY <1>1
  <2> QED
    BY <2>1, <2>2, <2>3, <2>4, <2>5 DEF SearchType
<1>7. CompleteInv'
  <2> SUFFICES ASSUME pc' = "find", NEW e \in owed'
               PROVE  /\ e \in Stored' /\ ~MayBeMissed(e.folder)' /\ Prints(e, Inside(e.folder))'
                      /\ \E i \in 1 .. Len(stack') : Covers(stack[i], e)'
    BY DEF CompleteInv
  <2>1. e \in owed /\ target' = target
    BY <1>1
  <2>2. /\ e \in Stored /\ ~MayBeMissed(e.folder) /\ Prints(e, Inside(e.folder))
    BY <1>1, <2>1 DEF FindInv, CompleteInv
  <2>3. \A p : Inside(p)' = Inside(p)
    BY <1>4, <2>1 DEF Inside
  <2>4. Prints(e, Inside(e.folder))'
    BY <2>1, <2>2, <2>3 DEF Prints, Matches
  <2>5. PICK i \in 1 .. Len(stack) - 1 : Covers(stack[i], e)
    BY <2>1, ReturnLeavesNothing
  <2>6. i \in 1 .. Len(stack') /\ stack'[i] = stack[i]
    BY <1>3
  <2>7. Covers(stack[i], e)'
    BY <1>4, <2>1, <2>3, <2>5, <2>6 DEF Covers, Leads, Reliable
  <2> QED
    BY <1>4, <2>2, <2>4, <2>6, <2>7
<1>8. NamesakeInv'
  <2>1. NamesOfFiles' \subseteq NamesOfFiles
    BY <1>1, <1>3 DEF NamesOfFiles
  <2> QED
    BY <1>1, <2>1 DEF FindInv, NamesakeInv, Namesake
<1>9. OnceInv'
  <2> SUFFICES ASSUME pc' = "find", ~namesake', ~LongInLong'
               PROVE  /\ \E ps \in [1 .. Len(stack') -> Existing'] : IsDescent(ps)'
                      /\ \A y \in printed' : y.folder \in Existing' /\ NotYet(y)'
    BY DEF OnceInv
  <2>1. UNCHANGED <<printed, namesake>>
    BY <1>1
  <2>2. /\ \E ps \in [1 .. Len(stack) -> Existing] : IsDescent(ps)
        /\ \A y \in printed : y.folder \in Existing /\ NotYet(y)
    BY <1>1, <1>4, <2>1 DEF FindInv, OnceInv
  <2>3. PICK ps \in [1 .. Len(stack) -> Existing] : IsDescent(ps)
    BY <2>2
  <2> DEFINE qs == [i \in 1 .. Len(stack) - 1 |-> ps[i]]
  <2>4. PICK rs : rs = qs
    OBVIOUS
  <2>5. rs \in [1 .. Len(stack') -> Existing'] /\ \A i \in 1 .. Len(stack') : rs[i] = ps[i]
    BY <1>3, <1>4, <2>3, <2>4
  <2>6. ASSUME NEW i \in 1 .. Len(stack')
        PROVE  /\ FrameOf(stack[i], rs[i])'
               /\ \/ stack'[i].wd = rs[i]
                  \/ i > 1 /\ stack'[i].wd = rs[i - 1] /\ rs[i] # Root /\ FS!NameOf(rs[i])' \in LongNames
    <3>1. i \in 1 .. Len(stack) /\ stack'[i] = stack[i] /\ rs[i] = ps[i]
      BY <1>3, <2>5
    <3>2. FrameOf(stack[i], ps[i])
      BY <2>3, <3>1 DEF IsDescent
    <3>3. FrameOf(stack[i], rs[i])'
      <4>1. FolderEntries' = FolderEntries
        BY <1>1, SameStore
      <4> QED
        BY <3>1, <3>2, <4>1 DEF FrameOf
    <3>4. i > 1 => rs[i - 1] = ps[i - 1]
      BY <1>3, <2>5
    <3>5. \A p : FS!NameOf(p)' = FS!NameOf(p)
      BY <1>4
    <3> QED
      BY <2>3, <3>1, <3>3, <3>4, <3>5 DEF IsDescent
  <2>7. ASSUME NEW i \in 1 .. Len(stack'), NEW k \in 1 .. Len(stack')
        PROVE  /\ i < k => rs[i] \in Above(rs[k])' /\ rs[i] # rs[k]
               /\ i <= k => \A x \in stack'[i].left : x.id \notin Above(rs[k])'
    BY <1>3, <1>4, <2>3, <2>5 DEF IsDescent
  <2>8. IsDescent(rs)'
    BY <2>6, <2>7 DEF IsDescent
  <2>9. ASSUME NEW y \in printed PROVE NotYet(y)'
    BY <1>3, <1>4, <2>2 DEF NotYet
  <2> QED
    BY <1>4, <2>1, <2>2, <2>5, <2>8, <2>9
<1>10. StuckInv'
  BY <1>1 DEF StuckInv
<1> QED
  BY <1>2, <1>5, <1>6, <1>7, <1>8, <1>9, <1>10 DEF FindInv

-----------------------------------------------------------------------------
(* A visit *)

Updated(fr, v) == [fr EXCEPT !.left = @ \ {v}, !.first = FALSE]
Callers(v)     == Append(Front(stack), Updated(Last(stack), v))

(* The entry v of the last call is visited, and its name is taken for that  *)
(* of the folder p, in the table of own; or for no folder's.                *)
Looked(v, own) == own \in Cluster(v.name, Last(stack).wd, Last(stack).subs)

Enters(v, own, p, inside) ==
  /\ Looked(v, own) /\ v.name \in FS!FolderNames(own) /\ p \in Answering(own, v.name)
  /\ Last(stack).inside \/ v.name = target.name => inside
  /\ pc' = "find" /\ Len(stack) # StackFrames
  /\ stack' = Append(Callers(v), Frame(own, Table(p), inside))

PassesBy(v) ==
  /\ \E own : Looked(v, own) /\ v.name \notin FS!FolderNames(own)
  /\ pc' = "find" /\ stack' = Callers(v)

RunsOut(v) == pc' = "stuck" /\ Len(stack) = StackFrames /\ stack' = Callers(v)

Visits(v) ==
  /\ pc = "find" /\ v \in Last(stack).left
  /\ UNCHANGED <<files, folders, open, target, namesake, changes>>
  /\ printed' = IF Prints(v, Last(stack).inside) THEN printed \cup {v} ELSE printed
  /\ owed' = owed \ printed'
  /\ \/ \E own, p \in Existing, inside \in BOOLEAN : Enters(v, own, p, inside)
     \/ PassesBy(v)
     \/ RunsOut(v)

(* Whatever folder answers is there.                                        *)
LEMMA ClusterExists ==
  ASSUME TreeInv, NEW wd \in Existing, NEW subs \in SUBSET FolderEntries, NEW name,
         NEW own \in Cluster(name, wd, subs)
  PROVE  own \in Existing
<1>1. \A d \in subs : d.id \in Existing
  BY FolderEntryFacts
<1> QED
  BY <1>1 DEF Cluster

(* The folder that is read is there.                                        *)
LEMMA AnsweringExists ==
  ASSUME TreeInv, NEW own \in Existing, NEW name, NEW p \in Answering(own, name)
  PROVE  p \in Existing
<1>1. FS!ParentOf(own) \in Existing
  BY ExistingFacts
<1>2. \A d \in FS!FoldersIn(own) : d.id \in Existing
  BY FolderFacts DEF FS!FoldersIn
<1> QED
  BY <1>1, <1>2 DEF Answering

(* A visit enters a folder, finds none of the name, or has no stack left.   *)
LEMMA VisitCases ==
  ASSUME FindInv, Visit
  PROVE  \E v \in Last(stack).left : Visits(v)
<1> DEFINE top == Last(stack)
<1>1. pc = "find" /\ UNCHANGED <<target, namesake, changes>>
  BY DEF Visit
<1>2. PICK v \in top.left :
        /\ printed' = IF Prints(v, top.inside) THEN printed \cup {v} ELSE printed
        /\ owed' = owed \ printed'
        /\ \E garbage \in IF top.first /\ target # Everything THEN BOOLEAN ELSE {FALSE} :
             Call(v.name, top.wd, top.subs, top.inside \/ garbage \/ v.name = target.name, Callers(v))
  BY DEF Visit, Callers, Updated
<1>3. PICK garbage \in BOOLEAN :
        Call(v.name, top.wd, top.subs, top.inside \/ garbage \/ v.name = target.name, Callers(v))
  BY <1>2
<1>4. PICK inside \in BOOLEAN : inside = (top.inside \/ garbage \/ v.name = target.name)
  <2>1. (top.inside \/ garbage \/ v.name = target.name) \in BOOLEAN
    OBVIOUS
  <2> QED
    BY <2>1
<1>5. Call(v.name, top.wd, top.subs, inside, Callers(v))
  BY <1>3, <1>4
<1>6. top.inside \/ v.name = target.name => inside
  BY <1>4
<1>7. top.wd \in Existing /\ top.subs \in SUBSET FolderEntries
  BY <1>1, Searching DEF FindInv, StackInv, FrameOf
<1>8. CASE Len(Callers(v)) = StackFrames
  <2>1. pc' = "stuck" /\ stack' = Callers(v) /\ UNCHANGED <<files, folders, open>>
    BY <1>5, <1>8 DEF Call, storeVars
  <2>2. Len(Callers(v)) = Len(stack)
    <3>1. Updated(top, v) \in Frames
      BY <1>1, Searching DEF Updated, Frames
    <3> QED
      BY <1>1, <3>1, Searching, AppendProperties DEF Callers
  <2>3. RunsOut(v)
    BY <1>8, <2>1, <2>2 DEF RunsOut
  <2> QED
    BY <1>1, <1>2, <2>1, <2>3 DEF Visits
<1>9. CASE Len(Callers(v)) # StackFrames
  <2>1. PICK own \in Cluster(v.name, top.wd, top.subs) :
          /\ FS!ReadDirectory(own, v.name, FS!DIR_TABLE_SIZE) /\ pc' = pc
          /\ IF result' = 0
             THEN \E p \in Answering(own, v.name) : stack' = Push(Callers(v), own, p, inside)
             ELSE stack' = Callers(v)
    BY <1>5, <1>9 DEF Call
  <2>2. own \in Existing
    BY <1>7, <2>1, ClusterExists DEF FindInv
  <2>3. UNCHANGED <<files, folders, open>> /\ (result' = 0 <=> v.name \in FS!FolderNames(own))
    BY <2>1, <2>2, ReadChangesNothing DEF FindInv
  <2>4. CASE v.name \in FS!FolderNames(own)
    <3>1. PICK p \in Answering(own, v.name) : stack' = Push(Callers(v), own, p, inside)
      BY <2>1, <2>3, <2>4
    <3>2. p \in Existing
      BY <2>2, <3>1, AnsweringExists DEF FindInv
    <3>3. Len(stack) # StackFrames
      <4>1. Updated(top, v) \in Frames
        BY <1>1, Searching DEF Updated, Frames
      <4>2. Len(Callers(v)) = Len(stack)
        BY <1>1, <4>1, Searching, AppendProperties DEF Callers
      <4> QED
        BY <1>9, <4>2
    <3>4. Enters(v, own, p, inside)
      BY <1>1, <1>6, <2>1, <2>4, <3>1, <3>3 DEF Enters, Looked, Push
    <3> QED
      BY <1>1, <1>2, <2>2, <2>3, <3>2, <3>4 DEF Visits
  <2>5. CASE v.name \notin FS!FolderNames(own)
    <3>1. stack' = Callers(v)
      BY <2>1, <2>3, <2>5
    <3>2. PassesBy(v)
      BY <1>1, <2>1, <2>5, <3>1 DEF PassesBy, Looked
    <3> QED
      BY <1>1, <1>2, <2>3, <3>2 DEF Visits
  <2> QED
    BY <2>4, <2>5
<1> QED
  BY <1>8, <1>9

(* The stack after a visit: the last call has one entry less to visit, and  *)
(* there may be a new call.                                                 *)
LEMMA VisitedStack ==
  ASSUME FindInv, NEW v, Visits(v)
  PROVE  LET n == Len(stack)
         IN  /\ n \in Nat \ {0} /\ Last(stack) = stack[n] /\ stack[n] \in Frames
             /\ Updated(stack[n], v) \in Frames
             /\ Updated(stack[n], v).wd = stack[n].wd /\ Updated(stack[n], v).subs = stack[n].subs
             /\ Updated(stack[n], v).inside = stack[n].inside
             /\ Updated(stack[n], v).left = stack[n].left \ {v}
             /\ Callers(v) \in Seq(Frames) /\ Len(Callers(v)) = n
             /\ \A i \in 1 .. n - 1 : stack'[i] = stack[i]
             /\ stack'[n] = Updated(stack[n], v)
             /\ \/ stack' = Callers(v)
                \/ \E own, p \in Existing, inside \in BOOLEAN :
                     /\ Enters(v, own, p, inside)
                     /\ stack' \in Seq(Frames) /\ Len(stack') = n + 1
                     /\ stack'[n + 1] = Frame(own, Table(p), inside)
<1> DEFINE n == Len(stack)
           top == Updated(stack[n], v)
           callers == Callers(v)
<1>1. /\ n \in Nat \ {0} /\ Last(stack) = stack[n] /\ stack[n] \in Frames
      /\ Front(stack) \in Seq(Frames) /\ Len(Front(stack)) = n - 1
      /\ \A i \in 1 .. n - 1 : Front(stack)[i] = stack[i]
  BY Searching DEF Visits
<1>2. /\ top \in Frames /\ top.wd = stack[n].wd /\ top.subs = stack[n].subs
      /\ top.inside = stack[n].inside /\ top.left = stack[n].left \ {v}
  BY <1>1 DEF Updated, Frames
<1> HIDE DEF top
<1>3. /\ callers \in Seq(Frames) /\ Len(callers) = n /\ callers[n] = top
      /\ \A i \in 1 .. n - 1 : callers[i] = stack[i]
  <2>1. callers = Append(Front(stack), top)
    BY <1>1 DEF Callers, top
  <2>2. n - 1 + 1 = n
    BY <1>1
  <2> QED
    BY <1>1, <1>2, <2>1, <2>2, AppendProperties
<1> HIDE DEF callers
<1>4. CASE stack' = callers
  BY <1>1, <1>2, <1>3, <1>4 DEF top, callers
<1>5. CASE \E own, p \in Existing, inside \in BOOLEAN : Enters(v, own, p, inside)
  <2>1. PICK own \in Existing, p \in Existing, inside \in BOOLEAN : Enters(v, own, p, inside)
    BY <1>1, <1>5, ClusterExists DEF Enters, Looked, FindInv, StackInv, FrameOf
  <2>2. Frame(own, Table(p), inside) \in Frames
    BY <2>1, FreshFrame DEF FindInv
  <2>3. stack' = Append(callers, Frame(own, Table(p), inside))
    BY <2>1 DEF Enters, callers
  <2>4. /\ stack' \in Seq(Frames) /\ Len(stack') = n + 1 /\ stack'[n + 1] = Frame(own, Table(p), inside)
        /\ \A i \in 1 .. n : stack'[i] = callers[i]
    BY <1>3, <2>2, <2>3, AppendProperties
  <2>5. stack'[n] = top /\ \A i \in 1 .. n - 1 : stack'[i] = stack[i]
    BY <1>1, <1>3, <2>4
  <2> QED
    BY <1>1, <1>2, <1>3, <2>1, <2>4, <2>5 DEF top, callers
<1> QED
  BY <1>4, <1>5 DEF Visits, PassesBy, RunsOut, callers

(* The calls after a visit are on tables as before, or on a fresh one.      *)
LEMMA VisitStack ==
  ASSUME FindInv, NEW v, Visits(v)
  PROVE  TreeInv' /\ StoreInv' /\ StackInv' /\ SearchType' /\ NamesakeInv'
<1>0. PICK n : n = Len(stack)
  OBVIOUS
<1> DEFINE top == Updated(stack[n], v)
<1>1. /\ n \in Nat \ {0} /\ Last(stack) = stack[n] /\ stack[n] \in Frames
      /\ top.wd = stack[n].wd /\ top.subs = stack[n].subs /\ top.left = stack[n].left \ {v}
      /\ Callers(v) \in Seq(Frames) /\ Len(Callers(v)) = n
      /\ \A i \in 1 .. n - 1 : stack'[i] = stack[i]
      /\ stack'[n] = top
      /\ \/ stack' = Callers(v)
         \/ \E own, p \in Existing, inside \in BOOLEAN :
              /\ Enters(v, own, p, inside)
              /\ stack' \in Seq(Frames) /\ Len(stack') = n + 1
              /\ stack'[n + 1] = Frame(own, Table(p), inside)
  BY <1>0, VisitedStack
<1> HIDE DEF top
<1>2. /\ pc = "find" /\ v \in stack[n].left /\ UNCHANGED <<files, folders, open, target, namesake, changes>>
      /\ pc' \in {"find", "stuck"} /\ owed' \subseteq owed /\ printed' \subseteq printed \cup {v}
  BY <1>1 DEF Visits, Enters, PassesBy, RunsOut
<1>3. TreeInv /\ StoreInv /\ TreeInv' /\ StoreInv'
  BY <1>2, SameTree DEF FindInv, StoreInv
<1>4. Existing' = Existing /\ FolderEntries' = FolderEntries
  BY <1>2, SameStore
<1>5. \A i \in 1 .. n : stack[i].wd \in Existing /\ \E p \in Existing : FrameOf(stack[i], p)
  BY <1>0 DEF FindInv, StackInv
<1>6. ASSUME NEW i \in 1 .. n
      PROVE  stack'[i].wd \in Existing /\ \E p \in Existing : FrameOf(stack[i], p)'
  <2>1. PICK p \in Existing : FrameOf(stack[i], p)
    BY <1>5
  <2>2. stack'[i].left \subseteq stack[i].left /\ stack'[i].subs = stack[i].subs /\ stack'[i].wd = stack[i].wd
    BY <1>1
  <2>3. FrameOf(stack[i], p)'
    BY <1>4, <2>1, <2>2 DEF FrameOf
  <2> QED
    BY <1>5, <2>1, <2>2, <2>3
<1>7. v \in Entries
  BY <1>1, <1>2 DEF Frames
<1>8. SearchType'
  <2>1. namesake' \in BOOLEAN
    BY <1>2 DEF FindInv, SearchType
  <2>2. printed' \subseteq Entries /\ owed' \subseteq Entries
    BY <1>2, <1>7 DEF FindInv, SearchType
  <2> QED
    BY <1>2, <2>1, <2>2 DEF FindInv, SearchType
<1>9. \A x \in stack[n].left : x \in UNION {stack[i].left : i \in 1 .. n}
  BY <1>1
<1>10. CASE stack' = Callers(v)
  <2>1. Len(stack') = n /\ stack' # <<>>
    BY <1>1, <1>10
  <2>2. StackInv'
    BY <1>0, <1>1, <1>2, <1>4, <1>6, <1>10, <2>1 DEF FindInv, StackInv
  <2>3. \A i \in 1 .. n : stack'[i].left \subseteq stack[i].left
    BY <1>1
  <2>4. NamesOfFiles' \subseteq NamesOfFiles
    BY <1>0, <1>2, <2>1, <2>3 DEF NamesOfFiles
  <2>5. NamesakeInv'
    BY <1>2, <2>4 DEF FindInv, NamesakeInv, Namesake
  <2> QED
    BY <1>3, <1>8, <2>2, <2>5
<1>11. CASE \E own, p \in Existing, inside \in BOOLEAN :
              /\ Enters(v, own, p, inside)
              /\ stack' \in Seq(Frames) /\ Len(stack') = n + 1
              /\ stack'[n + 1] = Frame(own, Table(p), inside)
  <2>1. PICK own \in Existing, p \in Existing, inside \in BOOLEAN :
              /\ Enters(v, own, p, inside)
              /\ stack' \in Seq(Frames) /\ Len(stack') = n + 1
              /\ stack'[n + 1] = Frame(own, Table(p), inside)
    BY <1>11
  <2>2. PICK fr : fr = Frame(own, Table(p), inside)
    OBVIOUS
  <2>3. FrameOf(fr, p) /\ fr.wd = own /\ fr.left = Table(p)
    BY <1>3, <2>1, <2>2, FreshFrame DEF Frame
  <2>4. stack'[n + 1].wd \in Existing /\ FrameOf(stack[n + 1], p)'
    <3>1. stack'[n + 1] = fr
      BY <2>1, <2>2
    <3>2. fr.wd \in Existing
      BY <2>1, <2>3
    <3>3. FrameOf(stack[n + 1], p)'
      <4>1. (\A e \in fr.left \cup fr.subs : e.folder = p) /\ fr.subs \subseteq FolderEntries'
            /\ \A e \in fr.left : e.id # NoFolder => e \in fr.subs
        BY <1>4, <2>3 DEF FrameOf
      <4> QED
        BY <3>1, <4>1 DEF FrameOf
    <3> QED
      BY <3>1, <3>2, <3>3
  <2>5. n + 1 <= StackFrames
    BY <1>0, <1>1, <2>1, FindAssumption DEF Enters, FindInv, StackInv
  <2>6. \A i \in 1 .. n + 1 : i \in 1 .. n \/ i = n + 1
    BY <1>1
  <2>7. \A i \in 1 .. n + 1 : stack'[i].wd \in Existing /\ \E q \in Existing : FrameOf(stack[i], q)'
    BY <1>6, <2>4, <2>6
  <2>8. stack' # <<>>
    BY <1>1, <2>1
  <2>9. StackInv'
    BY <1>2, <1>4, <2>1, <2>5, <2>7, <2>8 DEF StackInv
  <2>10. \A x \in Table(p) : x.id = NoFolder => \E f \in files : f.name = x.name
    BY <1>3, TableFacts
  <2>11. ASSUME NEW i \in 1 .. Len(stack'), NEW x \in stack'[i].left, x.id = NoFolder
         PROVE  x.name \in NamesOfFiles
    <3>1. CASE i \in 1 .. n
      <4>1. x \in stack[i].left
        BY <1>1, <2>11, <3>1
      <4> QED
        BY <1>0, <2>11, <3>1, <4>1 DEF NamesOfFiles
    <3>2. CASE i = n + 1
      BY <2>1, <2>2, <2>3, <2>10, <2>11, <3>2 DEF NamesOfFiles
    <3> QED
      BY <2>1, <2>6, <3>1, <3>2
  <2>12. NamesOfFiles' \subseteq NamesOfFiles
    BY <1>2, <2>11 DEF NamesOfFiles
  <2>13. NamesakeInv'
    BY <1>2, <2>12 DEF FindInv, NamesakeInv, Namesake
  <2> QED
    BY <1>3, <1>8, <2>9, <2>13
<1> QED
  BY <1>1, <1>10, <1>11

(* A folder in the caller's table is found, unless its name is long: then   *)
(* the call may think it is in its own folder.  From there, too, it is the  *)
(* only one that answers.                                                   *)
LEMMA FolderFound ==
  ASSUME TreeInv, NEW subs \in SUBSET FolderEntries, NEW v \in subs,
         \A d \in subs : d.folder = v.folder
  PROVE  \A wd : \A own \in Cluster(v.name, wd, subs) :
           /\ own = v.id \/ (own = wd /\ v.name \in LongNames)
           /\ own \in {v.id, v.folder} => v.name \in FS!FolderNames(own)
           /\ own \in {v.id, v.folder} => \A q \in Answering(own, v.name) : q = v.id
<1> TAKE wd
<1> TAKE own \in Cluster(v.name, wd, subs)
<1> DEFINE p == v.folder
<1>1. v \in FolderEntries /\ v.folder = p
  OBVIOUS
<1>2. \A d \in subs : d.name = v.name => d = v
  BY <1>1, FolderEntryFacts
<1> HIDE DEF p
<1>3. {e.id : e \in {d \in subs : d.name = v.name}} = {v.id}
  BY <1>2
<1>4. own = v.id \/ (own = wd /\ v.name \in LongNames)
  BY <1>3 DEF Cluster
<1>5. /\ FS!NameOf(v.id) = v.name
      /\ v.name # FS!NameOf(p) /\ v.name # FS!NameOf(FS!ParentOf(p))
      /\ \A d \in folders : d.folder = p /\ d.name = v.name => d.id = v.id
      /\ \E d \in folders : d.folder = p /\ d.name = v.name /\ d.id = v.id
  BY <1>1, FolderEntryFacts DEF FolderEntries, Entry
<1>6. CASE own = v.id
  BY <1>5, <1>6 DEF FS!FolderNames, Answering
<1>7. CASE own = p
  <2>1. v.name \in FS!FolderNames(p)
    BY <1>5 DEF FS!FolderNames, FS!FoldersIn
  <2>2. {d.id : d \in {e \in FS!FoldersIn(p) : e.name = v.name}} = {v.id}
    BY <1>5 DEF FS!FoldersIn
  <2> QED
    BY <1>4, <1>5, <1>7, <2>1, <2>2 DEF Answering
<1> QED
  BY <1>4, <1>6, <1>7 DEF p

(* A folder that leads to an entry owed is entered when it is visited, by a *)
(* call that leads to the entry in its turn.                                *)
LEMMA EntersOnTheWay ==
  ASSUME FindInv, NEW v, Visits(v), pc' = "find",
         NEW e \in owed,
         Reliable(Last(stack), v.folder),
         target # Everything /\ Inside(v.folder) => Last(stack).inside,
         v.id \in Above(e.folder)
  PROVE  Len(stack') = Len(stack) + 1 /\ Covers(stack'[Len(stack) + 1], e)
<1> DEFINE top == Last(stack)
<1>1. /\ v \in top.left /\ e \in Stored /\ ~MayBeMissed(e.folder)
      /\ top = stack[Len(stack)] /\ Len(stack) \in Nat \ {0} /\ top.inside \in BOOLEAN
  BY Searching DEF Visits, FindInv, CompleteInv, Frames
<1>2. e.folder \in Existing
  <2>1. PICK q \in Existing : e \in Table(q)
    BY <1>1 DEF Stored
  <2> QED
    BY <2>1, TableFacts DEF FindInv
<1>3. v.id # NoFolder
  BY <1>2, AboveClosed, ExistingFacts, FindAssumption DEF FindInv
<1>4. PICK p \in Existing : FrameOf(top, p)
  BY <1>1 DEF FindInv, StackInv
<1>5. v.folder = p /\ v \in top.subs /\ top.subs \in SUBSET FolderEntries /\ \A d \in top.subs : d.folder = p
  BY <1>1, <1>3, <1>4 DEF FrameOf
<1>6. /\ v.id \in Existing /\ v.id # Root /\ FS!NameOf(v.id) = v.name /\ FS!ParentOf(v.id) = p
  BY <1>5, FolderEntryFacts DEF FindInv
<1>7. ASSUME NEW own, Looked(v, own)
      PROVE  /\ own = v.id \/ (own = p /\ v.name \in LongNames)
             /\ v.name \in FS!FolderNames(own) /\ \A r \in Answering(own, v.name) : r = v.id
  <2>1. own \in Cluster(v.name, top.wd, top.subs)
    BY <1>7 DEF Looked
  <2>0. \A d \in top.subs : d.folder = v.folder
    BY <1>5
  <2>2. /\ own = v.id \/ (own = top.wd /\ v.name \in LongNames)
        /\ own \in {v.id, v.folder} => v.name \in FS!FolderNames(own)
        /\ own \in {v.id, v.folder} => \A r \in Answering(own, v.name) : r = v.id
    BY <1>5, <2>0, <2>1, FolderFound DEF FindInv
  <2>3. CASE own = v.id
    BY <2>2, <2>3
  <2>4. CASE own # v.id
    <3>1. own = top.wd /\ v.name \in LongNames
      BY <2>2, <2>4
    <3>2. ~ (FS!NameOf(p) \in LongNames)
      BY <1>1, <1>6, <3>1 DEF MayBeMissed
    <3>3. top.wd = p
      BY <1>5, <3>2 DEF Reliable
    <3> QED
      BY <1>5, <2>2, <3>1, <3>3
  <2> QED
    BY <2>3, <2>4
<1>8. ~PassesBy(v) /\ ~RunsOut(v)
  BY <1>7 DEF PassesBy, RunsOut
<1>9. PICK own \in Existing, q \in Existing, inside \in BOOLEAN :
        /\ Enters(v, own, q, inside)
        /\ Len(stack') = Len(stack) + 1
        /\ stack'[Len(stack) + 1] = Frame(own, Table(q), inside)
  <2>1. stack' # Callers(v)
    BY <1>8 DEF Visits, Enters, PassesBy, RunsOut, FindInv
  <2> QED
    BY <2>1, VisitedStack
<1>10. q = v.id /\ (own = v.id \/ (own = p /\ v.name \in LongNames))
  BY <1>7, <1>9 DEF Enters
<1>11. PICK x \in Table(v.id) : x.folder = v.id /\ Leads(x, e)
  BY <1>1, <1>6, TableLeads DEF FindInv
<1>12. PICK fr : fr = Frame(own, Table(v.id), inside)
  OBVIOUS
<1>13. fr.wd = own /\ fr.left = Table(v.id) /\ fr.inside = inside
  BY <1>12 DEF Frame
<1>14. Reliable(fr, v.id)
  BY <1>6, <1>10, <1>13 DEF Reliable
<1>15. ASSUME target # Everything, Inside(v.id) PROVE inside
  <2>1. PICK q2 \in Above(v.id) \ {Root} : FS!NameOf(q2) = target.name
    BY <1>15 DEF Inside
  <2>2. CASE q2 = v.id
    BY <1>6, <1>9, <2>1, <2>2 DEF Enters
  <2>3. CASE q2 # v.id
    <3>1. q2 \in Above(p)
      BY <1>6, <2>1, <2>3, AboveStep DEF FindInv
    <3>2. Inside(v.folder)
      BY <1>5, <2>1, <3>1 DEF Inside
    <3> QED
      BY <1>9, <1>15, <3>2 DEF Enters
  <2> QED
    BY <2>2, <2>3
<1>16. Covers(fr, e)
  BY <1>11, <1>13, <1>14, <1>15 DEF Covers
<1> QED
  BY <1>9, <1>10, <1>12, <1>16

(* With the same files, folders and target the same is reached and printed. *)
LEMMA SameCovers ==
  ASSUME UNCHANGED <<files, folders, target>>
  PROVE  /\ \A p : Inside(p)' = Inside(p)
         /\ \A e, inside : Prints(e, inside)' = Prints(e, inside)
         /\ \A fr, e : Covers(fr, e)' = Covers(fr, e)
<1>1. \A p : FS!NameOf(p)' = FS!NameOf(p) /\ Above(p)' = Above(p)
  BY SameStore
<1>2. \A p : Inside(p)' = Inside(p)
  BY <1>1 DEF Inside
<1>3. \A e, inside : Prints(e, inside)' = Prints(e, inside)
  BY DEF Prints, Matches
<1>4. \A fr, e : Covers(fr, e)' = Covers(fr, e)
  BY <1>1, <1>2 DEF Covers, Leads, Reliable
<1> QED
  BY <1>2, <1>3, <1>4

(* A visit leaves everything owed within reach: what the visited entry led  *)
(* to is reached by the new call.                                           *)
LEMMA VisitComplete ==
  ASSUME FindInv, NEW v, Visits(v)
  PROVE  CompleteInv'
<1>0. PICK n : n = Len(stack)
  OBVIOUS
<1>1. /\ n \in Nat \ {0} /\ Last(stack) = stack[n]
      /\ Updated(stack[n], v).wd = stack[n].wd
      /\ Updated(stack[n], v).inside = stack[n].inside
      /\ Updated(stack[n], v).left = stack[n].left \ {v}
      /\ \A i \in 1 .. n - 1 : stack'[i] = stack[i]
      /\ stack'[n] = Updated(stack[n], v)
      /\ Len(Callers(v)) = n
      /\ stack' = Callers(v) \/ Len(stack') = n + 1
  BY <1>0, VisitedStack
<1>2. n <= Len(stack')
  BY <1>1
<1>3. pc = "find" /\ UNCHANGED <<files, folders, target>> /\ owed' = owed \ printed'
  BY DEF Visits
<1> SUFFICES ASSUME pc' = "find", NEW e \in owed'
             PROVE  /\ e \in Stored' /\ ~MayBeMissed(e.folder)' /\ Prints(e, Inside(e.folder))'
                    /\ \E i \in 1 .. Len(stack') : Covers(stack[i], e)'
  BY DEF CompleteInv
<1>4. e \in owed /\ e \notin printed'
  BY <1>3
<1>5. /\ e \in Stored /\ ~MayBeMissed(e.folder) /\ Prints(e, Inside(e.folder))
      /\ \E i \in 1 .. n : Covers(stack[i], e)
  BY <1>0, <1>3, <1>4 DEF FindInv, CompleteInv
<1>6. e \in Stored' /\ ~MayBeMissed(e.folder)'
  BY <1>3, <1>5, SameStore
<1>7. Prints(e, Inside(e.folder))'
  <2>1. Inside(e.folder)' = Inside(e.folder)
    BY <1>3, SameCovers
  <2> QED
    BY <1>3, <1>5, <2>1 DEF Prints, Matches
<1>8. \E i \in 1 .. Len(stack') : Covers(stack'[i], e)
  <2>1. PICK i \in 1 .. n : Covers(stack[i], e)
    BY <1>5
  <2>2. PICK x \in stack[i].left :
          /\ Leads(x, e) /\ Reliable(stack[i], x.folder)
          /\ target # Everything /\ Inside(x.folder) => stack[i].inside
    BY <2>1 DEF Covers
  <2>3. CASE i # n
    BY <1>1, <1>2, <2>1, <2>3
  <2>4. CASE i = n /\ x # v
    <3>1. x \in stack'[n].left /\ stack'[n].wd = stack[n].wd /\ stack'[n].inside = stack[n].inside
      BY <1>1, <2>2, <2>4
    <3>2. Covers(stack'[n], e)
      BY <2>2, <2>4, <3>1 DEF Covers, Reliable
    <3> QED
      BY <1>1, <1>2, <3>2
  <2>5. CASE i = n /\ x = v
    <3>1. v # e
      <4>1. SUFFICES ASSUME v = e PROVE FALSE
        OBVIOUS
      <4>2. Prints(v, Last(stack).inside)
        BY <1>1, <1>5, <2>2, <2>5, <4>1 DEF Prints
      <4> QED
        BY <1>4, <4>1, <4>2 DEF Visits
    <3>2. v.id \in Above(e.folder)
      BY <2>2, <2>5, <3>1 DEF Leads
    <3>3. Len(stack') = n + 1 /\ Covers(stack'[n + 1], e)
      BY <1>0, <1>1, <1>4, <2>2, <2>5, <3>2, EntersOnTheWay
    <3> QED
      BY <1>1, <3>3
  <2> QED
    BY <2>3, <2>4, <2>5
<1>9. \E i \in 1 .. Len(stack') : Covers(stack[i], e)'
  <2>1. PICK i \in 1 .. Len(stack') : Covers(stack'[i], e)
    BY <1>8
  <2>2. PICK fr : fr = stack'[i]
    OBVIOUS
  <2>3. Covers(fr, e)'
    BY <1>3, <2>1, <2>2, SameCovers
  <2> QED
    BY <2>2, <2>3 DEF Covers
<1> QED
  BY <1>6, <1>7, <1>9

(* With nothing to be confused, a visited file is no folder's, and a folder *)
(* is entered by its name.                                                  *)
LEMMA EntersItself ==
  ASSUME FindInv, NEW v, Visits(v), ~namesake, ~LongInLong,
         NEW p \in Existing, FrameOf(Last(stack), p),
         Last(stack).wd = p \/ (p # Root /\ FS!NameOf(p) \in LongNames),
         NEW own, NEW q, NEW inside, Enters(v, own, q, inside)
  PROVE  /\ v.id # NoFolder /\ q = v.id
         /\ own = v.id \/ (own = p /\ v.name \in LongNames)
<1> DEFINE top == Last(stack)
<1>1. /\ v \in top.left /\ pc = "find" /\ top.subs \in SUBSET FolderEntries
      /\ \A d \in top.subs : d.folder = p
  BY DEF Visits, FrameOf
<1>2. top = stack[Len(stack)] /\ Len(stack) \in Nat \ {0} /\ top.wd \in Existing
  BY <1>1, Searching DEF FindInv, StackInv
<1>3. v.id # NoFolder
  <2>1. SUFFICES ASSUME v.id = NoFolder PROVE FALSE
    OBVIOUS
  <2>2. v.name \in NamesOfFiles
    BY <1>1, <1>2, <2>1 DEF NamesOfFiles
  <2>3. v.name # RootName /\ \A d \in folders : d.name # v.name
    BY <1>1, <2>2 DEF FindInv, NamesakeInv, Namesake
  <2>4. {d \in top.subs : d.name = v.name} = {}
    BY <1>1, <2>3 DEF FolderEntries, Entry
  <2>5. own = top.wd
    BY <2>4 DEF Enters, Looked, Cluster
  <2>6. ASSUME NEW r \in Existing PROVE FS!NameOf(r) # v.name
    <3>1. CASE r = Root
      BY <2>3, <3>1 DEF FS!NameOf
    <3>2. CASE \E d \in folders : d.id = r
      BY <2>3, <3>2, FolderFacts DEF FindInv
    <3> QED
      BY <3>1, <3>2, ExistingFacts DEF FindInv
  <2>7. v.name \notin FS!FolderNames(own)
    BY <1>2, <2>3, <2>5, <2>6, ExistingFacts DEF FindInv, FS!FolderNames, FS!FoldersIn
  <2> QED
    BY <2>7 DEF Enters
<1>4. v \in top.subs
  BY <1>1, <1>3 DEF FrameOf
<1>5. own \in Cluster(v.name, top.wd, top.subs)
  BY DEF Enters, Looked
<1>6. /\ own = v.id \/ (own = top.wd /\ v.name \in LongNames)
      /\ own \in {v.id, p} => \A r \in Answering(own, v.name) : r = v.id
  <2>1. v.folder = p
    BY <1>1, <1>4
  <2> QED
    BY <1>1, <1>4, <1>5, <2>1, FolderFound DEF FindInv
<1>7. own = v.id \/ (own = p /\ v.name \in LongNames)
  <2>1. SUFFICES ASSUME v.name \in LongNames, FS!NameOf(p) \in LongNames PROVE FALSE
    BY <1>6
  <2>2. PICK d \in folders : d.name = v.name /\ d.folder = p
    BY <1>1, <1>4 DEF FolderEntries, Entry
  <2> QED
    BY <2>1, <2>2 DEF LongInLong
<1>8. q = v.id
  BY <1>6, <1>7 DEF Enters
<1> QED
  BY <1>3, <1>7, <1>8

(* A call left over from before works on the same folder, with one entry    *)
(* less to visit if it is the last; nothing is visited twice.               *)
LEMMA DescentVisited ==
  ASSUME FindInv, NEW v, Visits(v), NEW ps, IsDescent(ps)
  PROVE  LET n == Len(stack)
         IN  /\ v.folder = ps[n]
             /\ \A i \in 1 .. n :
                  /\ FrameOf(stack'[i], ps[i])
                  /\ stack'[i].wd = stack[i].wd
                  /\ \A x \in stack'[i].left : x \in stack[i].left /\ x # v
                  /\ \A k \in 1 .. n : i <= k => \A x \in stack'[i].left : x.id \notin Above(ps[k])
<1>0. PICK n : n = Len(stack)
  OBVIOUS
<1>1. /\ n \in Nat \ {0} /\ Last(stack) = stack[n]
      /\ Updated(stack[n], v).wd = stack[n].wd /\ Updated(stack[n], v).subs = stack[n].subs
      /\ Updated(stack[n], v).left = stack[n].left \ {v}
      /\ \A i \in 1 .. n - 1 : stack'[i] = stack[i]
      /\ stack'[n] = Updated(stack[n], v)
  BY <1>0, VisitedStack
<1>2. v \in stack[n].left
  BY <1>1 DEF Visits
<1>3. /\ \A i \in 1 .. n : FrameOf(stack[i], ps[i])
      /\ \A i, k \in 1 .. n : /\ i < k => ps[i] # ps[k]
                              /\ i <= k => \A x \in stack[i].left : x.id \notin Above(ps[k])
  BY <1>0 DEF IsDescent
<1>4. v.folder = ps[n]
  BY <1>1, <1>2, <1>3 DEF FrameOf
<1>5. ASSUME NEW i \in 1 .. n
      PROVE  /\ FrameOf(stack'[i], ps[i]) /\ stack'[i].wd = stack[i].wd
             /\ \A x \in stack'[i].left : x \in stack[i].left /\ x # v
  <2>1. CASE i = n
    BY <1>1, <1>3, <2>1 DEF FrameOf
  <2>2. CASE i # n
    <3>1. stack'[i] = stack[i] /\ ps[i] # ps[n]
      BY <1>1, <1>3, <2>2
    <3>2. \A x \in stack[i].left : x.folder = ps[i]
      BY <1>3 DEF FrameOf
    <3> QED
      BY <1>3, <1>4, <3>1, <3>2
  <2> QED
    BY <2>1, <2>2
<1> QED
  BY <1>0, <1>3, <1>4, <1>5

(* A visit prolongs the descent by the folder visited, and what is still to *)
(* be visited afterwards has not been printed.                              *)
LEMMA VisitOnce ==
  ASSUME FindInv, NEW v, Visits(v)
  PROVE  OnceInv'
<1>0. PICK n : n = Len(stack)
  OBVIOUS
<1>1. /\ n \in Nat \ {0} /\ Last(stack) = stack[n] /\ Len(Callers(v)) = n
      /\ \/ stack' = Callers(v)
         \/ \E own, p \in Existing, inside \in BOOLEAN :
              /\ Enters(v, own, p, inside)
              /\ Len(stack') = n + 1
              /\ stack'[n + 1] = Frame(own, Table(p), inside)
  BY <1>0, VisitedStack
<1>2. /\ pc = "find" /\ v \in stack[n].left
      /\ UNCHANGED <<files, folders, open, target, namesake>>
      /\ printed' \subseteq printed \cup {v}
  BY <1>1 DEF Visits
<1>3. TreeInv /\ StoreInv
  BY DEF FindInv
<1>4. /\ Existing' = Existing /\ FolderEntries' = FolderEntries /\ LongInLong' = LongInLong
      /\ \A p : Above(p)' = Above(p) /\ FS!NameOf(p)' = FS!NameOf(p)
  BY <1>2, SameStore
<1> SUFFICES ASSUME pc' = "find", ~namesake, ~LongInLong
             PROVE  /\ \E ps \in [1 .. Len(stack') -> Existing'] : IsDescent(ps)'
                    /\ \A y \in printed' : y.folder \in Existing' /\ NotYet(y)'
  BY <1>2, <1>4 DEF OnceInv
<1>5. /\ \E ps \in [1 .. n -> Existing] : IsDescent(ps)
      /\ \A y \in printed : y.folder \in Existing /\ NotYet(y)
  BY <1>0, <1>2 DEF FindInv, OnceInv
<1>6. PICK ps \in [1 .. n -> Existing] : IsDescent(ps)
  BY <1>5
<1>7. /\ v.folder = ps[n] /\ ps[n] \in Existing
      /\ \A i \in 1 .. n :
           /\ FrameOf(stack'[i], ps[i])
           /\ stack'[i].wd = stack[i].wd
           /\ \A x \in stack'[i].left : x \in stack[i].left /\ x # v
           /\ \A k \in 1 .. n : i <= k => \A x \in stack'[i].left : x.id \notin Above(ps[k])
  BY <1>0, <1>1, <1>6, DescentVisited
<1>8. /\ \A i \in 1 .. n :
           stack[i].wd = ps[i] \/ (i > 1 /\ stack[i].wd = ps[i - 1] /\ ps[i] # Root /\ FS!NameOf(ps[i]) \in LongNames)
      /\ \A i, k \in 1 .. n : i < k => ps[i] \in Above(ps[k]) /\ ps[i] # ps[k]
      /\ FrameOf(stack[n], ps[n])
  BY <1>0, <1>1, <1>6 DEF IsDescent
<1>9. ASSUME NEW i \in 1 .. n PROVE FrameOf(stack[i], ps[i])'
  BY <1>4, <1>7 DEF FrameOf
<1>10. ASSUME NEW y \in printed'
       PROVE  /\ y.folder \in Existing
              /\ \A i \in 1 .. n : \A x \in stack'[i].left : x # y /\ x.id \notin Above(y.folder)
  <2>1. CASE y \in printed
    BY <1>0, <1>5, <1>7, <2>1 DEF NotYet
  <2>2. CASE y = v
    BY <1>1, <1>7, <2>2
  <2> QED
    BY <1>2, <2>1, <2>2
<1>11. CASE stack' = Callers(v)
  <2>1. Len(stack') = n
    BY <1>1, <1>11
  <2>2. IsDescent(ps)'
    BY <1>4, <1>7, <1>8, <1>9, <2>1 DEF IsDescent
  <2>3. \A y \in printed' : NotYet(y)'
    BY <1>4, <1>10, <2>1 DEF NotYet
  <2> QED
    BY <1>4, <1>6, <1>10, <2>1, <2>2, <2>3
<1>12. CASE \E own, p \in Existing, inside \in BOOLEAN :
              /\ Enters(v, own, p, inside)
              /\ Len(stack') = n + 1
              /\ stack'[n + 1] = Frame(own, Table(p), inside)
  <2>1. PICK own \in Existing, q \in Existing, inside \in BOOLEAN :
              /\ Enters(v, own, q, inside)
              /\ Len(stack') = n + 1
              /\ stack'[n + 1] = Frame(own, Table(q), inside)
    BY <1>12
  <2>2. v.id # NoFolder /\ q = v.id /\ (own = v.id \/ (own = ps[n] /\ v.name \in LongNames))
    <3>1. PICK p : p = ps[n]
      OBVIOUS
    <3>2. Last(stack).wd = p \/ (p # Root /\ FS!NameOf(p) \in LongNames)
      BY <1>1, <1>8, <3>1
    <3>3. p \in Existing /\ FrameOf(Last(stack), p)
      BY <1>1, <1>7, <1>8, <3>1
    <3> QED
      BY <2>1, <3>1, <3>2, <3>3, EntersItself
  <2>3. v \in FolderEntries
    BY <1>2, <1>8, <2>2 DEF FrameOf
  <2>4. /\ v.id \in Existing /\ v.id # Root /\ FS!NameOf(v.id) = v.name /\ FS!ParentOf(v.id) = v.folder
        /\ v.id \notin Above(v.folder)
        /\ \A f \in FolderEntries : f.id = v.id => f = v
    BY <1>3, <2>3, FolderEntryFacts
  <2>5. Above(v.id) = {v.id} \cup Above(ps[n]) /\ ps[n] \in Above(ps[n])
    BY <1>3, <1>7, <2>4, AboveStep, AboveClosed
  <2>6. PICK fr : fr = Frame(own, Table(v.id), inside)
    OBVIOUS
  <2>7. stack'[n + 1] = fr /\ fr.wd = own /\ fr.left = Table(v.id)
    BY <2>1, <2>2, <2>6 DEF Frame
  <2>8. FrameOf(fr, v.id) /\ \A x \in Table(v.id) : x.id \notin Above(v.id)
    BY <1>3, <2>1, <2>2, <2>6, FreshFrame
  <2>9. FrameOf(fr, v.id)'
    BY <1>4, <2>8 DEF FrameOf
  <2>10. PICK rs : rs = [i \in 1 .. n + 1 |-> IF i = n + 1 THEN v.id ELSE ps[i]]
    OBVIOUS
  <2>11. /\ rs \in [1 .. Len(stack') -> Existing'] /\ rs[n + 1] = v.id
         /\ \A i \in 1 .. n : rs[i] = ps[i]
    BY <1>1, <1>4, <1>6, <2>1, <2>4, <2>10
  <2>12. \A i \in 1 .. n + 1 : i \in 1 .. n \/ i = n + 1
    BY <1>1
  <2>13. ASSUME NEW i \in 1 .. n, NEW x \in stack'[i].left PROVE x.id \notin Above(v.id)
    <3>1. x.id \notin Above(ps[n])
      BY <1>1, <1>7
    <3>2. x.id # v.id
      <4>1. SUFFICES ASSUME x.id = v.id PROVE FALSE
        OBVIOUS
      <4>2. x \in FolderEntries
        BY <1>7, <2>2, <4>1 DEF FrameOf
      <4> QED
        BY <1>7, <2>4, <4>1, <4>2
    <3> QED
      BY <2>5, <3>1, <3>2
  <2>14. ASSUME NEW i \in 1 .. n + 1
         PROVE  /\ FrameOf(stack[i], rs[i])'
                /\ \/ stack'[i].wd = rs[i]
                   \/ i > 1 /\ stack'[i].wd = rs[i - 1] /\ rs[i] # Root /\ FS!NameOf(rs[i])' \in LongNames
    <3>1. CASE i \in 1 .. n
      <4>1. rs[i] = ps[i] /\ (i > 1 => rs[i - 1] = ps[i - 1])
        BY <1>1, <2>11, <3>1
      <4>2. FrameOf(stack[i], rs[i])'
        BY <1>4, <1>7, <3>1, <4>1 DEF FrameOf
      <4> QED
        BY <1>4, <1>7, <1>8, <3>1, <4>1, <4>2
    <3>2. CASE i = n + 1
      <4>1. i > 1 /\ rs[i - 1] = ps[n]
        BY <1>1, <2>11, <3>2
      <4>2. FrameOf(stack[i], rs[i])'
        BY <2>7, <2>9, <2>11, <3>2 DEF FrameOf
      <4> QED
        BY <1>4, <2>2, <2>4, <2>7, <2>11, <3>2, <4>1, <4>2
    <3> QED
      BY <2>12, <3>1, <3>2
  <2>15. ASSUME NEW i \in 1 .. n + 1, NEW k \in 1 .. n + 1
         PROVE  /\ i < k => rs[i] \in Above(rs[k]) /\ rs[i] # rs[k]
                /\ i <= k => \A x \in stack'[i].left : x.id \notin Above(rs[k])
    <3>1. CASE k \in 1 .. n
      BY <1>1, <1>7, <1>8, <2>11, <2>12, <3>1
    <3>2. CASE k = n + 1
      <4>1. i \in 1 .. n => rs[i] = ps[i] /\ ps[i] \in Above(ps[n])
        BY <1>1, <1>8, <2>5, <2>11
      <4>2. i \in 1 .. n => rs[i] \in Above(v.id) /\ rs[i] # v.id
        BY <1>7, <2>4, <2>5, <4>1
      <4>3. i < k => i \in 1 .. n
        BY <1>1, <3>2
      <4>4. \A x \in stack'[i].left : x.id \notin Above(v.id)
        BY <2>7, <2>8, <2>12, <2>13
      <4> QED
        BY <2>11, <3>2, <4>2, <4>3, <4>4
    <3> QED
      BY <2>12, <3>1, <3>2
  <2>16. IsDescent(rs)'
    BY <1>4, <2>1, <2>14, <2>15 DEF IsDescent
  <2>17. ASSUME NEW y \in printed' PROVE v.id \notin Above(y.folder)
    <3>1. CASE y \in printed
      BY <1>0, <1>1, <1>2, <1>5, <3>1 DEF NotYet
    <3>2. CASE y = v
      BY <2>4, <3>2
    <3> QED
      BY <1>2, <3>1, <3>2
  <2>18. ASSUME NEW y \in printed', NEW x \in Table(v.id)
         PROVE  x # y /\ x.id \notin Above(y.folder)
    <3>1. x.folder = v.id /\ (x.id # NoFolder => x \in FolderEntries)
      BY <1>3, <2>4, TableFacts
    <3>2. y.folder \in Above(y.folder) /\ Above(y.folder) \subseteq Existing /\ ClosedUpward(Above(y.folder))
      BY <1>3, <1>10, AboveClosed
    <3>3. x # y
      BY <2>17, <3>1, <3>2
    <3>4. CASE x.id = NoFolder
      BY <1>3, <3>2, <3>3, <3>4, ExistingFacts, FindAssumption
    <3>5. CASE x.id # NoFolder
      <4>1. FS!ParentOf(x.id) = v.id
        BY <1>3, <3>1, <3>5, FolderEntryFacts
      <4> QED
        BY <2>17, <3>2, <3>3, <4>1 DEF ClosedUpward
    <3> QED
      BY <3>4, <3>5
  <2>19. ASSUME NEW y \in printed' PROVE NotYet(y)'
    <3>1. \A i \in 1 .. n + 1 : \A x \in stack'[i].left : x # y /\ x.id \notin Above(y.folder)
      BY <1>10, <2>7, <2>12, <2>18
    <3> QED
      BY <1>4, <2>1, <3>1 DEF NotYet
  <2> QED
    BY <1>4, <1>10, <2>11, <2>16, <2>19
<1> QED
  BY <1>1, <1>11, <1>12

(* The calls are as many as there are folders one in the other, so that the *)
(* stack has room for them.                                                 *)
LEMMA VisitStuck ==
  ASSUME FindInv, NEW v, Visits(v)
  PROVE  StuckInv'
<1>1. pc = "find" /\ UNCHANGED <<files, folders, namesake>>
  BY DEF Visits
<1>2. LongInLong' = LongInLong
  BY <1>1, SameStore
<1> SUFFICES ASSUME pc' = "stuck", ~namesake, ~LongInLong
             PROVE  FALSE
  BY <1>1, <1>2 DEF StuckInv
<1>3. Len(stack) = StackFrames
  BY DEF Visits, Enters, PassesBy, RunsOut
<1>4. PICK ps \in [1 .. StackFrames -> Existing] : IsDescent(ps)
  BY <1>1, <1>3 DEF FindInv, OnceInv
<1>5. \A i, k \in 1 .. StackFrames : i # k => ps[i] # ps[k]
  BY <1>3, <1>4, FindAssumption DEF IsDescent
<1>6. ps \in [1 .. StackFrames -> Ids]
  BY <1>4, ExistingFacts DEF FindInv
<1>7. /\ IsFiniteSet(1 .. StackFrames) /\ Cardinality(1 .. StackFrames) = StackFrames
  <2>1. StackFrames >= 1
    BY FindAssumption, FS_CardinalityType
  <2> QED
    BY <2>1, FS_Interval, FindAssumption
<1>8. \E i, k \in 1 .. StackFrames : i # k /\ ps[i] = ps[k]
  BY <1>6, <1>7, FS_PigeonHole, FindAssumption
<1> QED
  BY <1>5, <1>8

(* A visit keeps the whole invariant.                                       *)
LEMMA VisitInv ==
  ASSUME FindInv, Visit
  PROVE  FindInv'
<1>1. PICK v : Visits(v)
  BY VisitCases
<1> QED
  BY <1>1, VisitStack, VisitComplete, VisitOnce, VisitStuck DEF FindInv

-----------------------------------------------------------------------------
(* The theorems *)

(* So does a step that changes nothing.                                     *)
LEMMA StutterInv ==
  ASSUME FindInv, UNCHANGED vars
  PROVE  FindInv'
<1>1. UNCHANGED <<files, folders, open, pc, target, stack, printed, owed, namesake, changes>>
  BY DEF vars, storeVars, findVars
<1>2. TreeInv' /\ StoreInv'
  BY <1>1, SameTree DEF FindInv, StoreInv
<1>3. /\ Existing' = Existing /\ Stored' = Stored /\ FolderEntries' = FolderEntries
      /\ LongInLong' = LongInLong
      /\ \A p : /\ FS!NameOf(p)' = FS!NameOf(p) /\ Above(p)' = Above(p)
                /\ MayBeMissed(p)' = MayBeMissed(p)
      /\ \A fr, p : FrameOf(fr, p)' = FrameOf(fr, p)
  BY <1>1, SameStore
<1>4. StackInv'
  BY <1>1, <1>3 DEF FindInv, StackInv, FrameOf
<1>5. SearchType'
  BY <1>1 DEF FindInv, SearchType
<1>6. CompleteInv'
  BY <1>1, <1>3 DEF FindInv, CompleteInv, Covers, Leads, Reliable, Inside, Prints, Matches
<1>7. NamesakeInv'
  <2>1. UNION {stack'[i].left : i \in 1 .. Len(stack')} = UNION {stack[i].left : i \in 1 .. Len(stack)}
    BY <1>1
  <2>2. NamesOfFiles' = NamesOfFiles
    BY <1>1, <2>1 DEF NamesOfFiles
  <2> QED
    BY <1>1, <2>2 DEF FindInv, NamesakeInv, Namesake
<1>8. OnceInv'
  BY <1>1, <1>3 DEF FindInv, OnceInv, IsDescent, NotYet, FrameOf
<1>9. StuckInv'
  BY <1>1, <1>3 DEF FindInv, StuckInv
<1> QED
  BY <1>2, <1>4, <1>5, <1>6, <1>7, <1>8, <1>9 DEF FindInv

(* Between any two reads of a search FindInv holds, however many folders,   *)
(* files and other shells there are.                                        *)
THEOREM FindInvHolds == Spec => []FindInv
<1>1. Init => FindInv
  BY InitInv
<1>2. FindInv /\ [Next]_vars => FindInv'
  <2> SUFFICES ASSUME FindInv, [Next]_vars PROVE FindInv'
    OBVIOUS
  <2>1. CASE Others
    BY <2>1, OthersInv
  <2>2. CASE Visit
    BY <2>2, VisitInv
  <2>3. CASE Return
    BY <2>3, ReturnInv
  <2>4. CASE \E start \in Existing, t \in Targets : Start(start, t)
    BY <2>4, StartFind
  <2>5. CASE UNCHANGED vars
    BY <2>5, StutterInv
  <2> QED
    BY <2>1, <2>2, <2>3, <2>4, <2>5 DEF Next, Search
<1> QED
  BY <1>1, <1>2, PTL DEF Spec

(* Calls of findHelper work on folders of the store and copies of their     *)
(* tables, and never need more stack than there is.                         *)
THEOREM FindTypeCorrect == Spec => []TypeOK
<1>1. FindInv => TypeOK
  <2> SUFFICES ASSUME FindInv PROVE TypeOK
    OBVIOUS
  <2>1. TreeInv /\ StoreInv /\ StackInv /\ SearchType
    BY DEF FindInv
  <2>2. \A i \in 1 .. Len(stack) : stack[i].wd \in Ids /\ \A e \in stack[i].left : e.folder \in Ids
    <3> TAKE i \in 1 .. Len(stack)
    <3>1. stack[i] \in Frames
      BY <2>1 DEF StackInv
    <3> QED
      BY <3>1 DEF Frames, Entries
  <2>3. \A e \in printed \cup owed : e.folder \in Ids
    BY <2>1 DEF SearchType, Entries
  <2>4. namesake \in BOOLEAN
    BY <2>1 DEF SearchType
  <2>5. pc = "prompt" <=> stack = <<>>
    BY <2>1 DEF StackInv
  <2> QED
    BY <2>1, <2>2, <2>3, <2>4, <2>5 DEF TypeOK, TreeInv, StoreInv, StackInv, SearchType
<1> QED
  BY <1>1, FindInvHolds, PTL

(* A search that ends has printed everything it should, whatever the other  *)
(* shells changed meanwhile: the last call ends with nothing left to visit, *)
(* and whatever is owed depends on some call.                               *)
THEOREM SearchIsComplete == Spec => FindComplete
<1>1. FindInv /\ [Next]_vars => [pc = "find" /\ pc' = "prompt" => owed = {}]_vars
  <2> SUFFICES ASSUME FindInv, Next, pc = "find", pc' = "prompt" PROVE owed = {}
    OBVIOUS
  <2>1. Return
    <3>1. ~Others
      BY DEF Others
    <3>2. ~Visit
      BY VisitCases DEF Visits, Enters, PassesBy, RunsOut
    <3>3. ~ \E start \in Existing, t \in Targets : Start(start, t)
      BY DEF Start
    <3> QED
      BY <3>1, <3>2, <3>3 DEF Next, Search
  <2>2. Front(stack) = <<>>
    BY <2>1 DEF Return, AfterReturn
  <2>3. Len(stack) = 1
    BY <2>2, Searching
  <2> QED
    BY <2>1, <2>3, ReturnLeavesNothing
<1> QED
  BY <1>1, FindInvHolds, PTL DEF Spec, FindComplete

(* What is printed has not been printed before, unless a file and a folder  *)
(* share a name or two long names follow each other in a path.              *)
THEOREM ListsOnce == Spec => FindListsOnce
<1> DEFINE Once == Visit /\ ~namesake /\ ~LongInLong =>
                     LET n == Len(stack)
                     IN  \A e \in stack[n].left \ stack'[n].left :
                           Prints(e, stack[n].inside) => e \notin printed
<1>1. FindInv /\ [Next]_vars => [Once]_vars
  <2> SUFFICES ASSUME FindInv, Visit, ~namesake, ~LongInLong,
                      NEW e \in stack[Len(stack)].left
               PROVE  e \notin printed
    OBVIOUS
  <2>1. pc = "find"
    BY DEF Visit
  <2>2. \A y \in printed : NotYet(y)
    BY <2>1 DEF FindInv, OnceInv
  <2>3. Len(stack) \in 1 .. Len(stack)
    BY <2>1, Searching
  <2> QED
    BY <2>2, <2>3 DEF NotYet
<1> QED
  BY <1>1, FindInvHolds, PTL DEF Spec, FindListsOnce

(* With the same exceptions find never needs more calls than the stack has  *)
(* room for, one more than there can be folders.                            *)
THEOREM NeverStuck == Spec => [](pc = "stuck" => namesake \/ LongInLong)
<1>1. FindInv => (pc = "stuck" => namesake \/ LongInLong)
  BY DEF FindInv, StuckInv
<1> QED
  BY <1>1, FindInvHolds, PTL
=============================================================================
