-------------------------------- MODULE Shell --------------------------------
(***************************************************************************)
(* The commands of the shell (src/src/user-shell.c), at the grain of the   *)
(* system calls they make, on the file store that Fat32 implements.        *)
(*                                                                         *)
(* Several shells run at once, since a shell can start another; each has   *)
(* its own working_directory and current_path, and all share the files.    *)
(* The timer may switch shells between any two system calls.  No command   *)
(* removes a folder (FoldersStay), so looking up a path component by       *)
(* component finds what looking it up at once finds, and a lookup is part  *)
(* of the step it prepares.                                                *)
(*                                                                         *)
(* A command on files saves the directory, goes to the one its argument    *)
(* names, makes its system call there and comes back, on every exit path   *)
(* by an assignment of its own: a step is a system call with what the      *)
(* command does until the next one.                                        *)
(*                                                                         *)
(* A path is the sequence of its components; NoName is what stands         *)
(* between two slashes in a row.  Commands are well-formed: how a line is  *)
(* cut into a path, a name and an extension is left out.  So are find and  *)
(* what commands print.                                                    *)
(***************************************************************************)
EXTENDS Integers, Sequences, SequencesExt

CONSTANTS
  Shells,                  \* slots for shells
  Ids, Root,               \* names a folder can be addressed by; the root
  CAPACITY, FOLDER_SIZE,   \* limits of the store, see FileStore
  Paths,                   \* paths that are typed after cd and ls
  Commands,                \* the other commands that are typed, see Typed
  FileNames, DirNames,     \* names that are typed
  UpNames,                 \* names that begin with ".." and go on
  NameLength,              \* the length of the names of folders
  NAME_SIZE,               \* the size of a name's buffer, 8
  MAX_CMD_LENGTH           \* the size of current_path, 128

NoExt    == "-"
RootName == "root"
NoName   == ""
Names    == FileNames \cup DirNames \cup {"shell", "testcat"}
Exts     == {NoExt, "txt"}
ReadSize == 3     \* clusters cp and cat read and cp writes
MaxSize  == 4     \* clusters of the shell's image, too many for cp and cat

VARIABLES
  files, folders, result,   \* the store, and the code of its last call
  open,                     \* the disk is mounted before the first shell runs
  working_directory,
  current_path,             \* as the sequence of its components
  pc,                       \* "off", "start", "prompt", or the next system call
  task,                     \* the command in progress, its buffer and request
  saved,                    \* save_directory and save_path of that command
  home,                     \* ghost: where the commands that move have put the shell
  alone                     \* ghost: no other shell has changed a file since cp read

storeVars == <<files, folders, result, open>>
shellVars == <<working_directory, current_path, pc, task, saved, home, alone>>
vars == <<storeVars, shellVars>>

Bytes(name, ext, k) == <<name, ext, k>>
Zero == <<>>
Padded(data) == [k \in 1 .. ReadSize |-> IF k <= Len(data) THEN data[k] ELSE Zero]
Text(data)   == {<<k, data[k]>> : k \in {j \in 1 .. Len(data) : data[j] # Zero}}

FS == INSTANCE FileStore

File(folder, name, ext, data) == [folder |-> folder, name |-> name, ext |-> ext, data |-> data]
ShellImage == File(Root, "shell", NoExt, [k \in 1 .. MaxSize |-> Bytes("shell", NoExt, k)])

Place(path, name, ext) == [path |-> path, name |-> name, ext |-> ext]
NoPlace == Place(<<>>, "shell", NoExt)

(* A command that is typed: its name and its one or two arguments. *)
Typed(cmd, src, dest) == [cmd |-> cmd, src |-> src, dest |-> dest]
NoCommand == Typed("none", NoPlace, NoPlace)

Task(command, data, dir) == [command |-> command, data |-> data, dir |-> dir]
NoTask == Task(NoCommand, <<>>, Root)

Position(dir, path) == [dir |-> dir, path |-> path]
Beginning == Position(Root, <<RootName>>)

Calls    == {"mkdir", "cat", "exec", "read", "write", "into", "remove"}
Prompts  == {"off", "start", "prompt"}

ASSUME ShellAssumption ==
  /\ Root \in Ids /\ RootName \notin FileNames
  /\ \A c \in Commands :
       /\ c.cmd \in {"mkdir", "cat", "exec", "cp", "mv", "rm"}
       /\ \A place \in {c.src, c.dest} :
            place.path \in Seq(STRING) /\ place.name \in Names \cup {RootName} /\ place.ext \in Exts
       /\ c.cmd = "mkdir" => c.src.name \in DirNames \cup {RootName}
       /\ c.cmd \in {"cp", "mv"} => c.src.name # RootName /\ c.dest.name # RootName
  /\ Paths \subseteq Seq(STRING) /\ NoName \notin UpNames
  /\ NameLength \in [DirNames \cup {RootName} -> Nat]
  /\ NAME_SIZE \in Nat /\ MAX_CMD_LENGTH \in Nat

(* The disk as the inserter leaves it; the kernel starts one shell. *)
Init ==
  /\ files = {ShellImage} /\ folders = {} /\ result = 0 /\ open = TRUE
  /\ working_directory = [s \in Shells |-> Root]
  /\ current_path = [s \in Shells |-> <<RootName>>]
  /\ \E first \in Shells : pc = [s \in Shells |-> IF s = first THEN "start" ELSE "off"]
  /\ task = [s \in Shells |-> NoTask]
  /\ saved = [s \in Shells |-> Beginning] /\ home = [s \in Shells |-> Beginning]
  /\ alone = [s \in Shells |-> FALSE]

-----------------------------------------------------------------------------
(* Changing directory *)

(* On the way: a folder, the path that leads there, the folder's name as   *)
(* the shell remembers it in last_folder_name, and how it went.             *)
At(dir, path, last) == [how |-> "fine", dir |-> dir, path |-> path, last |-> last]
Failed(at) == [at EXCEPT !.how = "fail"]
Wild(at)   == [at EXCEPT !.how = "wild"]

(* A name that fills its buffer has no NUL behind it: strcmp recognises it  *)
(* only if the byte that follows in memory happens to be one.               *)
Long(name) == name \in DirNames /\ NameLength[name] >= NAME_SIZE
Recognised(name, lucky) == lucky \/ ~Long(name)
Sure(path) == \A k \in DOMAIN path : ~Long(path[k])
Luck(path) == IF Sure(path) THEN {TRUE} ELSE BOOLEAN

(* current_path as a text: each component with a slash, and a NUL. *)
TextLength(path) == FoldLeft(LAMBDA n, name : n + NameLength[name] + 1, 1, path)
Fits(path) == TextLength(path) <= MAX_CMD_LENGTH

(* read_directory is asked for the entry called at.last in the table of     *)
(* folder at.dir: the folder itself, its parent, or one of its children.    *)
TableOf(at) ==
  IF at.last = FS!NameOf(at.dir) THEN {at.dir}
  ELSE IF at.last = FS!NameOf(FS!ParentOf(at.dir)) THEN {FS!ParentOf(at.dir)}
  ELSE {d.id : d \in {e \in FS!FoldersIn(at.dir) : e.name = at.last}}

(* Mutants: the path keeps the component that ".." leaves; and takes ".."   *)
(* in like a name.                                                          *)
UpKeepsPath(at, d) == At(FS!ParentOf(d), at.path, FS!NameOf(FS!ParentOf(d)))
UpIsAName(at, d) == At(FS!ParentOf(d), Append(at.path, ".."), FS!NameOf(FS!ParentOf(d)))

Up(at, d) == At(FS!ParentOf(d), Front(at.path), FS!NameOf(FS!ParentOf(d)))

MayGoUp(at) == at.dir # Root

(* Only the first two characters are compared with "..". *)
IsUp(component) == component = ".." \/ component \in UpNames

(* Into a folder of the table.  Nobody checks that the path has room.       *)
Down(at, e) ==
  LET path == Append(at.path, e.name)
  IN  IF Fits(path) THEN At(e.id, path, e.name) ELSE Wild(at)

(* change_dir, with the table of folder d. *)
change_dir(at, d, component, lucky) ==
  LET inside == {e \in FS!FoldersIn(d) : e.name = component /\ Recognised(component, lucky)}
  IN  IF component = "." THEN [at EXCEPT !.last = FS!NameOf(d)]
      ELSE IF IsUp(component) THEN IF MayGoUp(at) THEN Up(at, d) ELSE Failed(at)
      ELSE IF inside = {} THEN Failed(at)
      ELSE Down(at, CHOOSE e \in inside : TRUE)

(* One component of a path. *)
Step(at, component, lucky) ==
  IF at.how # "fine" THEN at
  ELSE IF component = NoName \/ TableOf(at) = {} THEN Failed(at)
  ELSE change_dir(at, CHOOSE d \in TableOf(at) : TRUE, component, lucky)

(* One component after the other. *)
Walked(start, path, lucky) ==
  LET at[k \in 0 .. Len(path)] == IF k = 0 THEN start ELSE Step(at[k - 1], path[k], lucky)
  IN  at[Len(path)]

Here(s) == Position(working_directory[s], current_path[s])

(* Mutant: the directory is not restored after a failure.                   *)
cd_without_restore(from, path, lucky) ==
  LET absolute == path # <<>> /\ path[1] = RootName
      start == IF absolute THEN At(Root, <<RootName>>, RootName)
                           ELSE At(from.dir, from.path, Last(from.path))
  IN  Walked(start, IF absolute THEN Tail(path) ELSE path, lucky)

(* A path that begins with "root" is absolute.  After a failure both        *)
(* variables are restored to what they were.                                *)
multiple_cd(from, path, lucky) ==
  LET absolute == path # <<>> /\ path[1] = RootName
      start == IF absolute THEN At(Root, <<RootName>>, RootName)
                           ELSE At(from.dir, from.path, Last(from.path))
      end == Walked(start, IF absolute THEN Tail(path) ELSE path, lucky)
  IN  IF end.how = "fail" THEN [end EXCEPT !.dir = from.dir, !.path = from.path] ELSE end

Move(s, at) ==
  /\ working_directory' = [working_directory EXCEPT ![s] = at.dir]
  /\ current_path' = [current_path EXCEPT ![s] = at.path]

(* cd and ls stay where they have gone; a shell that has written over its   *)
(* own memory does we do not know what.                                     *)
Settle(s, at) ==
  /\ Move(s, at)
  /\ pc' = [pc EXCEPT ![s] = IF at.how = "wild" THEN "wild" ELSE "prompt"]
  /\ home' = [home EXCEPT ![s] = Position(at.dir, at.path)]

Cd(s, path) ==
  /\ pc[s] = "prompt"
  /\ UNCHANGED <<storeVars, task, saved, alone>>
  /\ \E lucky \in Luck(path) : Settle(s, multiple_cd(Here(s), path, lucky))

(* ls with an argument goes there, lists, and stays there. *)
Ls(s, path) ==
  /\ pc[s] = "prompt"
  /\ UNCHANGED <<task, saved, alone>>
  /\ \E lucky \in Luck(path) :
       LET at == multiple_cd(Here(s), path, lucky)
       IN  /\ Settle(s, at)
           /\ IF at.how = "fine" THEN FS!ReadDirectory(at.dir, Last(at.path), FS!DIR_TABLE_SIZE)
                                 ELSE UNCHANGED storeVars

-----------------------------------------------------------------------------
(* Commands on files *)

(* The file operations of a shell end the peace of all others. *)
Disturb(s) == alone' = [t \in Shells |-> IF t # s /\ files' # files THEN FALSE ELSE alone[t]]

(* exec, and cp into a folder, come back before their system call, with the *)
(* folder they have found in the request.                                   *)
BackBefore(call) == call \in {"exec", "into"}

(* A command has saved its position as from and has gone to at.  It comes   *)
(* back when that has failed; otherwise its next system call is call.       *)
Go(s, from, at, call, t) ==
  LET fine == at.how = "fine"
  IN  /\ Move(s, IF fine /\ ~BackBefore(call) THEN at ELSE from)
      /\ pc' = [pc EXCEPT ![s] = IF fine THEN call ELSE IF at.how = "fail" THEN "prompt" ELSE "wild"]
      /\ task' = [task EXCEPT ![s] = IF fine THEN [t EXCEPT !.dir = at.dir] ELSE NoTask]
      /\ saved' = [saved EXCEPT ![s] = IF fine THEN from ELSE Beginning]
      /\ UNCHANGED home

(* A command ends where back says. *)
End(s, back) ==
  /\ Move(s, back)
  /\ pc' = [pc EXCEPT ![s] = "prompt"] /\ task' = [task EXCEPT ![s] = NoTask]
  /\ saved' = [saved EXCEPT ![s] = Beginning]
  /\ UNCHANGED home

(* Mutant: rm does not refuse a name without an extension.                  *)
RefusesCopies(c) == c.cmd \in {"cp", "mv"} /\ c.src.ext = NoExt

(* cp, mv and rm refuse a name without an extension, so that rm never       *)
(* removes a folder; mkdir refuses the name "root".                         *)
Refused(c) == c.cmd \in {"cp", "mv", "rm"} /\ c.src.ext = NoExt
NamesRoot(c) == c.cmd = "mkdir" /\ c.src.name = RootName

FirstCall(c) == CASE c.cmd \in {"cp", "mv"} -> "read" [] c.cmd = "rm" -> "remove" [] OTHER -> c.cmd

(* The beginning of every command: save the position, go to the path of the *)
(* first argument.                                                          *)
Begin(s, c) ==
  /\ pc[s] = "prompt" /\ ~Refused(c)
  /\ \E lucky \in Luck(c.src.path) :
       LET at == multiple_cd(Here(s), c.src.path, lucky)
       IN  /\ ~(NamesRoot(c) /\ at.how = "fine")
           /\ Go(s, Here(s), at, FirstCall(c), Task(c, <<>>, Root))
  /\ UNCHANGED <<storeVars, alone>>

(* A folder named "root" is refused before the directory is restored. *)
MkdirRefused(s, c) ==
  /\ pc[s] = "prompt" /\ NamesRoot(c)
  /\ \E lucky \in Luck(c.src.path) :
       LET at == multiple_cd(Here(s), c.src.path, lucky)
       IN  at.how = "fine" /\ Settle(s, at)
  /\ UNCHANGED <<storeVars, task, saved, alone>>

(* Call 2 of mkdir, in the folder it has gone to, and back. *)
Mkdir(s) ==
  /\ pc[s] = "mkdir"
  /\ FS!MakeFolder(working_directory[s], task[s].command.src.name)
  /\ Disturb(s)
  /\ End(s, saved[s])

(* Call 0 of cat. *)
Cat(s) ==
  LET src == task[s].command.src
  IN  /\ pc[s] = "cat"
      /\ FS!Read(working_directory[s], src.name, src.ext, ReadSize)
      /\ End(s, saved[s])
      /\ UNCHANGED alone

(* Call 0 of cp, and of mv, which begins with cp: the source is read into a *)
(* buffer of ReadSize clusters; then back, and on to the destination.  One  *)
(* with an extension names the copy; one without is a folder that the copy  *)
(* goes into under its old name.                                            *)
CopyRead(s) ==
  LET src  == task[s].command.src
      dest == task[s].command.dest
  IN  /\ pc[s] = "read"
      /\ FS!Read(working_directory[s], src.name, src.ext, ReadSize)
      /\ \/ result' # 0 /\ End(s, saved[s]) /\ UNCHANGED alone
         \/ /\ result' = 0
            /\ \E lucky \in Luck(dest.path), x \in FS!FilesIn(working_directory[s]) :
                 /\ x.name = src.name /\ x.ext = src.ext
                 /\ Go(s, saved[s], multiple_cd(saved[s], dest.path, lucky),
                       IF dest.ext = NoExt THEN "into" ELSE "write",
                       [task[s] EXCEPT !.data = Padded(x.data)])
            /\ alone' = [alone EXCEPT ![s] = TRUE]

(* Mutant: mv goes on when cp has failed. *)
NextRemoves(s, code) == task[s].command.cmd = "mv"

Removes(s, code) == code = 0 /\ task[s].command.cmd = "mv"

(* The end of cp, back at the saved position.  mv goes on as rm does, which *)
(* saves it once more, when cp has answered 0.                              *)
CopyEnds(s, code) ==
  IF Removes(s, code)
  THEN \E lucky \in Luck(task[s].command.src.path) :
         Go(s, saved[s], multiple_cd(saved[s], task[s].command.src.path, lucky), "remove", task[s])
  ELSE End(s, saved[s])

(* Mutant: after a failed write cp does not come back.                      *)
CopyWriteStays(s) ==
  /\ pc[s] = "write"
  /\ LET dest == task[s].command.dest
     IN  FS!Write(working_directory[s], dest.name, dest.ext, task[s].data)
  /\ IF result' = 0 THEN CopyEnds(s, result') ELSE End(s, Here(s))
  /\ Disturb(s)

(* Call 2 of cp, in the folder of the destination. *)
CopyWrite(s) ==
  /\ pc[s] = "write"
  /\ LET dest == task[s].command.dest
     IN  FS!Write(working_directory[s], dest.name, dest.ext, task[s].data)
  /\ CopyEnds(s, result')
  /\ Disturb(s)

(* Calls 1 and 2 of cp into a folder, which is looked for by name in the    *)
(* table of the folder that the path of the destination leads to.           *)
CopyInto(s) ==
  LET c == task[s].command
      named == {d \in FS!FoldersIn(task[s].dir) : d.name = c.dest.name}
  IN  /\ pc[s] = "into"
      /\ \E lucky \in Luck(<<c.dest.name>>) :
           LET into == {d \in named : Recognised(d.name, lucky)}
           IN  IF into = {} THEN UNCHANGED storeVars /\ CopyEnds(s, 4)
               ELSE /\ FS!Write((CHOOSE d \in into : TRUE).id, c.src.name, c.src.ext, task[s].data)
                    /\ CopyEnds(s, result')
      /\ Disturb(s)

(* Call 3 of rm, and of mv, which removes the source by name without        *)
(* looking at the result.                                                   *)
Rm(s) ==
  LET src == task[s].command.src
  IN  /\ pc[s] = "remove"
      /\ FS!Delete(working_directory[s], src.name, src.ext)
      /\ Disturb(s)
      /\ End(s, saved[s])

-----------------------------------------------------------------------------
(* Starting shells *)

(* Call 8 of exec, of a program that is a shell. *)
Exec(s) ==
  /\ pc[s] = "exec"
  /\ FS!Read(task[s].dir, task[s].command.src.name, NoExt, MaxSize)
  /\ LET off == {t \in Shells : pc[t] = "off"}
     IN  IF result' = 0 /\ off # {}
         THEN \E t \in off : pc' = [pc EXCEPT ![s] = "prompt", ![t] = "start"]
         ELSE pc' = [pc EXCEPT ![s] = "prompt"]
  /\ task' = [task EXCEPT ![s] = NoTask] /\ saved' = [saved EXCEPT ![s] = Beginning]
  /\ UNCHANGED <<working_directory, current_path, home, alone>>

(* main writes a file for testing, if it is not there. *)
Start(s) ==
  /\ pc[s] = "start"
  /\ FS!Write(Root, "testcat", "txt", <<Bytes("testcat", "txt", 1)>>)
  /\ Settle(s, At(Root, <<RootName>>, RootName))
  /\ Disturb(s)
  /\ UNCHANGED <<task, saved>>

-----------------------------------------------------------------------------

Command(s) ==
  \/ \E path \in Paths : Cd(s, path) \/ Ls(s, path)
  \/ \E c \in Commands : Begin(s, c) \/ MkdirRefused(s, c)

Call(s) ==
  \/ Mkdir(s) \/ Cat(s) \/ Exec(s)
  \/ CopyRead(s) \/ CopyWrite(s) \/ CopyInto(s) \/ Rm(s)

(* What a shell does to the disk after it has written over its own memory   *)
(* is not followed.                                                         *)
Sane == \A s \in Shells : pc[s] # "wild"

Next == Sane /\ \E s \in Shells : Command(s) \/ Call(s) \/ Start(s)

Spec == Init /\ [][Next]_vars

-----------------------------------------------------------------------------
(* Properties *)

Contents == Names \X Exts \X (1 .. MaxSize) \cup {Zero}

PathTexts == Seq(DirNames \cup {RootName})
Positions == [dir : Ids, path : PathTexts]

TypeOK ==
  /\ files \subseteq [folder : Ids, name : Names, ext : Exts, data : Seq(Contents)]
  /\ \A x \in files : Len(x.data) \in 1 .. MaxSize
  /\ folders \subseteq [folder : Ids, name : DirNames, id : Ids \ {Root}]
  /\ result \in {-1, 0, 1, 2, 3} /\ open = TRUE
  /\ working_directory \in [Shells -> Ids]
  /\ current_path \in [Shells -> PathTexts]
  /\ pc \in [Shells -> Prompts \cup Calls \cup {"wild"}]
  /\ task \in [Shells -> [command : Commands \cup {NoCommand}, data : Seq(Contents), dir : Ids]]
  /\ saved \in [Shells -> Positions] /\ home \in [Shells -> Positions]
  /\ alone \in [Shells -> BOOLEAN]

(* The folders that a path leads to from folder dir, by the tree alone: one *)
(* or none.  Two slashes in a row lead nowhere.                             *)
ParentIn(tree, d) == IF d = Root THEN Root ELSE (CHOOSE e \in tree : e.id = d).folder

Leads(tree, d, component) ==
  IF component = "." THEN {d}
  ELSE IF IsUp(component) THEN IF d = Root THEN {} ELSE {ParentIn(tree, d)}
  ELSE IF component = NoName THEN {}
  ELSE {e.id : e \in {f \in tree : f.folder = d /\ f.name = component}}

LeadsFrom(tree, ds, component) == UNION {Leads(tree, d, component) : d \in ds}

Follow(tree, dir, path) ==
  LET found[k \in 0 .. Len(path)] == IF k = 0 THEN {dir} ELSE LeadsFrom(tree, found[k - 1], path[k])
  IN  found[Len(path)]

Resolve(tree, dir, path) ==
  IF path # <<>> /\ path[1] = RootName THEN Follow(tree, Root, Tail(path)) ELSE Follow(tree, dir, path)

(* The prompt tells the truth, and so does the path inside a command: it    *)
(* leads from the root to the folder the shell works in.  multiple_cd       *)
(* depends on it: it reads a folder under the last name of the path.        *)
PathSpellsDirectory ==
  \A s \in Shells : pc[s] # "wild" =>
    Resolve(folders, Root, current_path[s]) = {working_directory[s]}

(* cd goes where its path leads, by the names of the tree and from wherever *)
(* earlier commands left the shell; and when the path leads nowhere, the    *)
(* shell stays where it was, in folder and in path.  A path with a name     *)
(* that fills its buffer may be refused, but leads nowhere else.  Left out  *)
(* are components that only begin with "..", and a path the buffer of       *)
(* which overflows.                                                         *)
Plain(path) == \A k \in DOMAIN path : path[k] \notin UpNames

CdGoesWhereItSays ==
  [][\A s \in Shells, path \in Paths :
       Cd(s, path) /\ Plain(path) /\ pc'[s] # "wild" =>
         LET there == Resolve(folders, working_directory[s], path)
         IN  \/ there # {} /\ {working_directory'[s]} = there
             \/ /\ there = {} \/ ~Sure(path)
                /\ working_directory'[s] = working_directory[s] /\ current_path'[s] = current_path[s]]_vars

(* Commands on files come back.  Whenever a shell asks for the next         *)
(* command it is where cd, ls, main or a refused mkdir has put it, whatever *)
(* mkdir, cat, cp, mv, rm and exec have done since, whichever of their      *)
(* calls failed.                                                            *)
FileCommandsStay == \A s \in Shells : pc[s] = "prompt" => Here(s) = home[s]

(* No command removes a folder, where another shell may be at work, or a    *)
(* program, without which no shell could be started again.                  *)
FoldersStay ==
  [][folders \subseteq folders' /\ {x \in files : x.ext = NoExt} \subseteq files']_vars

(* mv loses nothing: unless another shell changed a file in between, what   *)
(* was in the file it removes is still in a file afterwards, whether or not *)
(* the copy succeeded, the disk was full, or source and destination were    *)
(* one.                                                                     *)
Texts(fs) == {Text(x.data) : x \in fs}
MovesKeepContents ==
  [][\A s \in Shells :
       pc[s] = "remove" /\ pc'[s] # "remove" /\ task[s].command.cmd = "mv" /\ alone[s] =>
         Texts(files) \subseteq Texts(files')]_vars
=============================================================================
