------------------------------ MODULE FileStore ------------------------------
(***************************************************************************)
(* What the file system promises to its callers: a set of files and        *)
(* folders on which every operation acts at once or not at all, answers    *)
(* with a code that tells the truth, and fails for want of space only when *)
(* the files and folders there are really fill the disk.  There is no      *)
(* allocation table here, no chain, no slot and no disk write.  Module     *)
(* Fat32Refinement shows that Fat32 implements this, and module Shell runs  *)
(* on it.                                                                   *)
(***************************************************************************)
EXTENDS Integers, Sequences, FiniteSetsExt

CONSTANTS
  Ids,         \* names a folder can be addressed by
  Root,        \* the folder there always is
  Names, Exts, NoExt, RootName,
  MaxSize,     \* clusters of the largest file
  CAPACITY,    \* clusters for files and folders besides the root
  FOLDER_SIZE, \* files and folders one folder can hold
  Bytes(_, _, _)

VARIABLES
  files,    \* a set of files: their folder, name, extension and contents
  folders,  \* a set of folders: the folder they are in, name and id
  open,     \* can the store be used
  result    \* the code of the last operation

vars == <<files, folders, open, result>>

Init == files = {} /\ folders = {} /\ ~open /\ result = 0

Exists(p) == open /\ (p = Root \/ \E d \in folders : d.id = p)
NameOf(p) == IF p = Root THEN RootName ELSE (CHOOSE d \in folders : d.id = p).name
ParentOf(p) == IF p = Root THEN Root ELSE (CHOOSE d \in folders : d.id = p).folder

FilesIn(p)   == {x \in files : x.folder = p}
FoldersIn(p) == {d \in folders : d.folder = p}

(* A folder also answers to its own name and to its parent's. *)
FolderNames(p) == {d.name : d \in FoldersIn(p)} \cup {NameOf(p), NameOf(ParentOf(p))}

Space == MapThenSumSet(LAMBDA x : Len(x.data), files) + Cardinality(folders)
SpaceFor(n) == Space + n <= CAPACITY
SlotIn(p) == Cardinality(FilesIn(p)) + Cardinality(FoldersIn(p)) < FOLDER_SIZE

Answer(code) == result' = code /\ UNCHANGED <<files, folders, open>>

Write(p, name, ext, data) ==
  IF ~Exists(p) THEN Answer(2)
  ELSE IF (\E x \in FilesIn(p) : x.name = name /\ x.ext = ext) \/ (ext = NoExt /\ name \in FolderNames(p))
  THEN Answer(1)
  ELSE IF ~SlotIn(p) \/ ~SpaceFor(Len(data)) THEN Answer(-1)
  ELSE /\ files' = files \cup {[folder |-> p, name |-> name, ext |-> ext, data |-> data]}
       /\ result' = 0
       /\ UNCHANGED <<folders, open>>

MakeFolder(p, name) ==
  IF ~Exists(p) THEN Answer(2)
  ELSE IF name \in FolderNames(p) THEN Answer(1)
  ELSE IF ~SlotIn(p) \/ ~SpaceFor(1) THEN Answer(-1)
  ELSE \E id \in Ids :
         /\ id # Root /\ \A d \in folders : d.id # id
         /\ folders' = folders \cup {[folder |-> p, name |-> name, id |-> id]}
         /\ result' = 0
         /\ UNCHANGED <<files, open>>

(* An extensionless file and a folder of one name can stand side by side;   *)
(* then either may go.                                                      *)
Delete(p, name, ext) ==
  IF ~Exists(p) \/ (ext = NoExt /\ name = NameOf(p)) THEN Answer(-1)
  ELSE \/ \E x \in FilesIn(p) :
            /\ x.name = name /\ x.ext = ext
            /\ files' = files \ {x}
            /\ result' = 0
            /\ UNCHANGED <<folders, open>>
       \/ \E d \in FoldersIn(p) :
            /\ d.name = name /\ ext = NoExt
            /\ FilesIn(d.id) = {} /\ FoldersIn(d.id) = {}
            /\ folders' = folders \ {d}
            /\ result' = 0
            /\ UNCHANGED <<files, open>>
       \/ /\ \A x \in FilesIn(p) : ~(x.name = name /\ x.ext = ext)
          /\ ~(ext = NoExt /\ name \in FolderNames(p))
          /\ Answer(1)

ReadCode(p, name, ext, size) ==
  IF ~Exists(p) THEN -1
  ELSE IF \E x \in FilesIn(p) : x.name = name /\ x.ext = ext
  THEN IF \E x \in FilesIn(p) : x.name = name /\ x.ext = ext /\ Len(x.data) > size THEN 2 ELSE 0
  ELSE IF name \in FolderNames(p) THEN 1
  ELSE IF \E x \in FilesIn(p) : x.name = name THEN -1 ELSE 3

Read(p, name, ext, size) == Answer(ReadCode(p, name, ext, size))

(* A directory is one cluster, and read as a whole.                         *)
DIR_TABLE_SIZE == 1

ReadDirectoryCode(p, name, size) ==
  IF size # DIR_TABLE_SIZE \/ ~Exists(p) THEN -1
  ELSE IF name \in FolderNames(p) THEN 0
  ELSE IF \E x \in FilesIn(p) : x.name = name THEN 1 ELSE 2

ReadDirectory(p, name, size) == Answer(ReadDirectoryCode(p, name, size))

(* Mounting and switching off leave the files alone; what a mount finds may *)
(* be unusable.                                                             *)
OpenOrClose == open' \in BOOLEAN /\ result' = 0 /\ UNCHANGED <<files, folders>>

Next ==
  \/ OpenOrClose
  \/ \E p \in Ids, name \in Names, ext \in Exts :
       \/ \E size \in 1 .. MaxSize :
            \/ Write(p, name, ext, [k \in 1 .. size |-> Bytes(name, ext, k)])
            \/ Read(p, name, ext, size)
            \/ ReadDirectory(p, name, size)
       \/ MakeFolder(p, name)
       \/ Delete(p, name, ext)

Spec == Init /\ [][Next]_vars
=============================================================================
