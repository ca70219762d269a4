--------------------------- MODULE Fat32Refinement ---------------------------
(***************************************************************************)
(* Fat32 under proper callers implements FileStore: an operation takes     *)
(* effect at the call, the disk writes that follow are invisible, and the  *)
(* files of the store are what chains and directory tables spell out.      *)
(***************************************************************************)
EXTENDS Fat32

FileContents(d, cs) == [k \in 1 .. Len(cs) |-> d[cs[k]].data]

StoredFiles ==
  LET d == FinalDisk
  IN  {[folder |-> x.folder, name |-> x.entry.name, ext |-> x.entry.ext,
        data |-> FileContents(d, Walk(FinalFat, x.entry.cluster))]
         : x \in {y \in Entries(d) : ~y.entry.dir}}

StoredFolders ==
  {[folder |-> x.folder, name |-> x.entry.name, id |-> x.entry.cluster]
     : x \in {y \in Entries(FinalDisk) : y.entry.dir}}

Store == INSTANCE FileStore WITH
  Ids         <- DataClusters,
  CAPACITY    <- CLUSTER_MAP_SIZE - 3,
  FOLDER_SIZE <- DIR_SLOTS - 2,
  files       <- StoredFiles,
  folders     <- StoredFolders,
  open        <- mode = "up" /\ IsFolder(Root)

(* Each call that writes is the call of the same name of the store.         *)
CallsAgree ==
  \A p \in ProperParents, name \in Names :
    /\ write(p, name, NoExt, 0) => Store!MakeFolder(p, name)
    /\ \A ext \in Exts :
         /\ ProperRemoval(p, name, ext) /\ delete(p, name, ext) => Store!Delete(p, name, ext)
         /\ \A size \in 1 .. MaxSize :
              write(p, name, ext, size) =>
                Store!Write(p, name, ext, [k \in 1 .. size |-> Bytes(name, ext, k)])

(* And a call that only reads answers what the store would.                 *)
AnswersAgree ==
  Idle =>
    \A p \in ProperParents, name \in Names, size \in 1 .. MaxSize :
      /\ read_directory_code(p, name, size) = Store!ReadDirectoryCode(p, name, size)
      /\ \A ext \in Exts :
           /\ ~ReadFaults(p, name, ext, size)
           /\ read_code(p, name, ext, size) = Store!ReadCode(p, name, ext, size)

(* The driver is a file store: the contents of every file are what was      *)
(* written to it, whatever was created and deleted since and however the    *)
(* clusters were reused, and the code every call returns is the one the     *)
(* store gives for that call.                                               *)
ImplementsFileStore == Store!Spec /\ []AnswersAgree /\ [][CallsAgree]_vars
=============================================================================
