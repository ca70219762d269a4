--------------------------- MODULE ShellInvariant ---------------------------
(***************************************************************************)
(* What holds between any two system calls of the shells.                  *)
(***************************************************************************)
EXTENDS Shell

Stands(tree, d) == d = Root \/ \E e \in tree : e.id = d

(* The folders are a tree: no two share an id, nor a name in one folder,    *)
(* none has the name by which absolute paths begin, and each is in one that *)
(* is there.                                                                *)
IsTree(tree) ==
  /\ tree \subseteq [folder : Ids, name : DirNames \ {RootName}, id : Ids \ {Root}]
  /\ \A d, e \in tree : d.id = e.id \/ (d.folder = e.folder /\ d.name = e.name) => d = e
  /\ \A e \in tree : Stands(tree, e.folder)

TreeInv == IsTree(folders)

(* A folder holds one file of a name and extension.                         *)
FilesInv ==
  \A x, y \in files : x.folder = y.folder /\ x.name = y.name /\ x.ext = y.ext => x = y

(* A way through a tree that spells the path: one folder for each of its    *)
(* components, each in the one before, from the root.  The components are   *)
(* names that change_dir looks for, so that none of them leads elsewhere.   *)
IsWay(tree, path, way) ==
  /\ path # <<>> /\ path[1] = RootName /\ way[1] = Root
  /\ \A k \in 2 .. Len(path) :
       /\ path[k] \notin {".", NoName} /\ ~IsUp(path[k])
       /\ [folder |-> way[k - 1], name |-> path[k], id |-> way[k]] \in tree

Spells(tree, path, dir) ==
  /\ path \in Seq(DirNames \cup {RootName})
  /\ \E way \in [1 .. Len(path) -> Ids] : IsWay(tree, path, way) /\ way[Len(path)] = dir

(* Each shell is in a folder that its path spells, and so is the position   *)
(* to which its command goes back.                                          *)
PathOK(s) ==
  /\ Spells(folders, current_path[s], working_directory[s])
  /\ Spells(folders, saved[s].path, saved[s].dir)

(* A command goes back to where the shell was when it was typed.            *)
HomeOK(s) ==
  /\ pc[s] \in {"prompt", "exec"} => Here(s) = home[s]
  /\ pc[s] \in Calls => saved[s] = home[s]

(* The command in progress is one that was typed and not refused, and one   *)
(* that makes such a call; cp writes a full buffer.                         *)
TaskOK(s) ==
  LET c == task[s].command
  IN  /\ pc[s] \in Calls => c \in Commands /\ ~Refused(c)
      /\ pc[s] = "mkdir" => c.cmd = "mkdir" /\ ~NamesRoot(c)
      /\ pc[s] \in {"read", "write", "into"} => c.cmd \in {"cp", "mv"}
      /\ pc[s] = "remove" => c.cmd \in {"rm", "mv"}
      /\ pc[s] \in {"write", "into"} => Len(task[s].data) = ReadSize

(* cp reads where the path of its source leads from the saved directory.    *)
ReadOK(s) ==
  pc[s] = "read" => Resolve(folders, saved[s].dir, task[s].command.src.path) = {working_directory[s]}

(* As long as no other shell changes files, the source that cp has read is  *)
(* where its path leads from the saved directory, and mv removes that file  *)
(* when its copy is elsewhere.                                              *)
IsSource(s, x) ==
  /\ x \in files /\ Padded(x.data) = task[s].data /\ Len(x.data) <= ReadSize
  /\ x.name = task[s].command.src.name /\ x.ext = task[s].command.src.ext

Copying(s) == \E x \in files :
  IsSource(s, x) /\ Resolve(folders, saved[s].dir, task[s].command.src.path) = {x.folder}

Removing(s) == \E x, y \in files :
  IsSource(s, x) /\ x.folder = working_directory[s] /\ y # x /\ y.data = task[s].data

MoveOK(s) ==
  alone[s] =>
    /\ pc[s] \in {"write", "into"} => Copying(s)
    /\ pc[s] = "remove" /\ task[s].command.cmd = "mv" => Removing(s)

ShellInv ==
  /\ TypeOK /\ TreeInv /\ FilesInv
  /\ \A s \in Shells : PathOK(s) /\ HomeOK(s) /\ TaskOK(s) /\ ReadOK(s) /\ MoveOK(s)
=============================================================================
