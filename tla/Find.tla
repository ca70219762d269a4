--------------------------------- MODULE Find ---------------------------------
(***************************************************************************)
(* The command find of the shell (find and findHelper of                   *)
(* src/src/user-shell.c): a recursive walk through the folders, while      *)
(* other shells change them.                                               *)
(*                                                                         *)
(* Each call of findHelper looks up its folder by name in a copy of its    *)
(* caller's table, reads the folder's table with system call 1, prints     *)
(* what matches, and calls itself for every entry, file or folder.  Between*)
(* two reads the timer may switch to another shell, so that the tables on  *)
(* the stack are copies of the past.  One step of find goes from one read  *)
(* to the next; what it prints in between is in the same step, since       *)
(* printing touches nothing that others touch.                             *)
(*                                                                         *)
(* Entries are visited in any order (the code: by slot).  Paths are shorter*)
(* than the 128 characters findHelper has room for.                        *)
(***************************************************************************)
EXTENDS Integers, Sequences, SequencesExt, FiniteSets

CONSTANTS
  Ids, Root,               \* names a folder can be addressed by; the root
  CAPACITY, FOLDER_SIZE,   \* limits of the store, see FileStore
  FileNames, DirNames,     \* names the other shells use
  LongNames,               \* those that fill the 8 characters of their field
  Targets,                 \* arguments of find
  StackFrames,             \* calls of findHelper that the stack has room for
  MaxChanges               \* bound: what other shells change during one find

NoExt    == "-"
RootName == "root"
NoFolder == "file"                  \* the id of an entry that is a file
Names    == FileNames \cup DirNames \cup {"shell"}
Exts     == {NoExt, "txt"}
MaxSize  == 1
Bytes(name, ext, k) == <<name, ext, k>>

Target(name, ext) == [name |-> name, ext |-> ext]
Everything == Target("", NoExt)     \* find without an argument

ASSUME FindAssumption ==
  /\ Root \in Ids /\ RootName \notin DirNames
  /\ LongNames \subseteq Names /\ RootName \notin LongNames
  /\ IsFiniteSet(Ids) /\ NoFolder \notin Ids
  /\ \A t \in Targets : t = Everything \/ (t.name \in Names /\ t.ext \in Exts)
  /\ StackFrames \in Nat /\ Cardinality(Ids) < StackFrames /\ MaxChanges \in Nat

VARIABLES
  files, folders, result, open,   \* the store
  pc,         \* "prompt", "find", or "stuck": faulting for ever for want of stack
  target,     \* what is looked for
  stack,      \* the calls of findHelper in progress, the innermost last
  printed,    \* entries printed so far
  owed,       \* ghost: what must still be printed: what was there when find
              \* started, has not been removed since, and matches
  namesake,   \* ghost: during this find a file had the name of a folder, or
              \* a folder got the name a file had when its table was copied
  changes     \* changes of other shells during this find

storeVars == <<files, folders, result, open>>
findVars  == <<pc, target, stack, printed, owed, namesake, changes>>
vars == <<storeVars, findVars>>

FS == INSTANCE FileStore

(* An entry of a folder's table.                                            *)
Entry(folder, name, ext, id) == [folder |-> folder, name |-> name, ext |-> ext, id |-> id]

(* Mutant: slot 1, the parent, counts as an entry.                          *)
TableFromSlotOne(p) ==
  {Entry(p, x.name, x.ext, NoFolder) : x \in FS!FilesIn(p)} \cup
  {Entry(p, d.name, NoExt, d.id) : d \in FS!FoldersIn(p)} \cup
  {Entry(p, FS!NameOf(FS!ParentOf(p)), NoExt, FS!ParentOf(p))}

(* Slots 2 to 63 of folder p's table.  Slot 0 is p and slot 1 its parent.   *)
Table(p) ==
  {Entry(p, x.name, x.ext, NoFolder) : x \in FS!FilesIn(p)} \cup
  {Entry(p, d.name, NoExt, d.id) : d \in FS!FoldersIn(p)}

Existing == {Root} \cup {d.id : d \in folders}
Stored   == UNION {Table(p) : p \in Existing}

(* Names of files, in the tables or in the copies of them that find has yet *)
(* to go through.                                                           *)
NamesOfFiles ==
  {x.name : x \in files} \cup
  {e.name : e \in {e \in UNION {stack[i].left : i \in 1 .. Len(stack)} : e.id = NoFolder}}

Namesake == \E name \in NamesOfFiles : name = RootName \/ \E d \in folders : d.name = name

(* A folder whose name fills its field lies in another such folder.         *)
LongInLong == \E d \in folders : {d.name, FS!NameOf(d.folder)} \subseteq LongNames

(* The disk as the inserter leaves it.                                      *)
Init ==
  /\ files = {[folder |-> Root, name |-> "shell", ext |-> NoExt, data |-> <<Bytes("shell", NoExt, 1)>>]}
  /\ folders = {} /\ result = 0 /\ open = TRUE
  /\ pc = "prompt" /\ target = Everything /\ stack = <<>>
  /\ printed = {} /\ owed = {} /\ namesake = FALSE /\ changes = 0

-----------------------------------------------------------------------------
(* What find looks for *)

(* strcmp on two 8.3 fields: a name that fills its field runs on into the   *)
(* extension, and then equals no argument.                                  *)
Matches(e) == e.name = target.name /\ e.ext = target.ext /\ (e.ext = NoExt \/ e.name \notin LongNames)

(* Also printed is what lies anywhere below a folder of the target's name.  *)
Prints(e, inside) == target = Everything \/ Matches(e) \/ inside

(* The folders on the way from the root to p, p included: the smallest set  *)
(* with p that has the parent of each of its members.                       *)
ClosedUpward(S) == \A q \in S : FS!ParentOf(q) \in S
Above(p) == {q \in Existing : \A S \in SUBSET Existing : p \in S /\ ClosedUpward(S) => q \in S}

Inside(p) == \E q \in Above(p) \ {Root} : FS!NameOf(q) = target.name

(* A folder whose name fills its field, in another such folder, may be      *)
(* missed: see Cluster.                                                     *)
MayBeMissed(p) ==
  \E q \in Above(p) \ {Root} : {FS!NameOf(q), FS!NameOf(FS!ParentOf(q))} \subseteq LongNames

Wanted(start) ==
  {e \in Stored : start \in Above(e.folder) /\ ~MayBeMissed(e.folder) /\ Prints(e, Inside(e.folder))}

-----------------------------------------------------------------------------
(* findHelper *)

(* A call: local_working_directory, the folders in its copy of the table,   *)
(* the entries not visited yet, whether its path contains the target, and   *)
(* whether no entry has been visited yet.                                   *)
Frame(wd, table, inside) ==
  [wd |-> wd, subs |-> {e \in table : e.id # NoFolder}, left |-> table, inside |-> inside, first |-> TRUE]

(* Mutant: the folder found in the caller's table is not entered.           *)
StayInCaller(name, wd, subs) == {wd}

(* local_working_directory: the folder called name in the caller's table,   *)
(* if there is one.  real_name has no room for the NUL behind a name of 8   *)
(* characters, which then compares equal or not as the stack has it.        *)
Cluster(name, wd, subs) ==
  LET found == {e.id : e \in {d \in subs : d.name = name}}
  IN  IF found = {} THEN {wd}
      ELSE IF name \in LongNames THEN found \cup {wd} ELSE found

(* read_directory takes the first folder of that name in the table of wd:   *)
(* wd itself, its parent, or one of its children.                           *)
Answering(wd, name) ==
  IF name = FS!NameOf(wd) THEN {wd}
  ELSE IF name = FS!NameOf(FS!ParentOf(wd)) THEN {FS!ParentOf(wd)}
  ELSE {d.id : d \in {e \in FS!FoldersIn(wd) : e.name = name}}

(* Mutant: the caller goes on in the table of the folder called.            *)
PushShared(callers, own, p, inside) ==
  [i \in 1 .. Len(callers) |-> [callers[i] EXCEPT !.left = IF i = Len(callers) THEN Table(p) ELSE @]]
    \o <<Frame(own, Table(p), inside)>>

Push(callers, own, p, inside) == Append(callers, Frame(own, Table(p), inside))

(* findHelper up to its loop.  Without room for one more call the shell     *)
(* faults on its stack, again and again (interrupt.c does nothing about     *)
(* page faults).  A name that is no folder's ends the call at once.         *)
Call(name, wd, subs, inside, callers) ==
  IF Len(callers) = StackFrames
  THEN pc' = "stuck" /\ stack' = callers /\ UNCHANGED storeVars
  ELSE \E own \in Cluster(name, wd, subs) :
         /\ FS!ReadDirectory(own, name, FS!DIR_TABLE_SIZE)
         /\ pc' = pc
         /\ IF result' = 0
            THEN \E p \in Answering(own, name) : stack' = Push(callers, own, p, inside)
            ELSE stack' = callers

(* find starts in the shell's working directory, under its name (see        *)
(* PathSpellsDirectory of Shell) and with an empty table.                   *)
Start(start, t) ==
  /\ pc = "prompt"
  /\ target' = t /\ pc' = "find"
  /\ FS!ReadDirectory(start, FS!NameOf(start), FS!DIR_TABLE_SIZE)
  /\ stack' = <<Frame(start, Table(start), t # Everything /\ Inside(start)')>>
  /\ owed' = Wanted(start)' /\ printed' = {}
  /\ namesake' = Namesake /\ changes' = 0

(* One iteration of the loop.  path is not initialized: the first time what *)
(* the stack holds stands in front of it, and may contain the target.       *)
Visit ==
  /\ pc = "find"
  /\ LET top == Last(stack)
     IN  \E e \in top.left :
           /\ printed' = IF Prints(e, top.inside) THEN printed \cup {e} ELSE printed
           /\ owed' = owed \ printed'
           /\ \E garbage \in IF top.first /\ target # Everything THEN BOOLEAN ELSE {FALSE} :
                Call(e.name, top.wd, top.subs, top.inside \/ garbage \/ e.name = target.name,
                     Append(Front(stack), [top EXCEPT !.left = @ \ {e}, !.first = FALSE]))
  /\ UNCHANGED <<target, namesake, changes>>

(* Mutant: the whole search ends with the first folder.                     *)
AtOnce(callers) == "prompt"

AfterReturn(callers) == IF callers = <<>> THEN "prompt" ELSE "find"

(* The end of the loop, and at last of find.                                *)
Return ==
  /\ pc = "find" /\ Last(stack).left = {}
  /\ stack' = Front(stack)
  /\ pc' = AfterReturn(stack')
  /\ IF stack' = <<>>
     THEN printed' = {} /\ owed' = {} /\ namesake' = FALSE /\ changes' = 0 /\ target' = Everything
     ELSE UNCHANGED <<printed, owed, namesake, changes, target>>
  /\ UNCHANGED storeVars

(* The other shells make, copy, move and remove files and make folders; no  *)
(* command removes a folder (FoldersStay of Shell).  Calls that fail change *)
(* nothing.                                                                 *)
Others ==
  /\ \E p \in Existing :
       \/ \E name \in FileNames :
            \/ FS!Write(p, name, "txt", <<Bytes(name, "txt", 1)>>)
            \/ FS!Delete(p, name, "txt")
       \/ \E name \in DirNames : FS!MakeFolder(p, name)
  /\ result' = 0
  /\ changes' = IF pc = "prompt" THEN 0 ELSE changes + 1
  /\ changes' <= MaxChanges
  /\ owed' = owed \cap Stored'
  /\ UNCHANGED <<pc, target, stack, printed>>
  /\ namesake' = (namesake \/ (pc # "prompt" /\ Namesake'))

Search == Visit \/ Return

Next == Others \/ Search \/ \E start \in Existing, t \in Targets : Start(start, t)

(* The scheduler gives the shell the processor again and again (Kernel's    *)
(* NoStarvation).                                                           *)
Spec == Init /\ [][Next]_vars /\ WF_vars(Search)

-----------------------------------------------------------------------------
(* Properties *)

TypeOK ==
  /\ \A x \in files : x.folder \in Ids /\ x.name \in Names /\ x.ext \in Exts
  /\ folders \subseteq [folder : Ids, name : DirNames, id : Ids \ {Root}]
  /\ pc \in {"prompt", "find", "stuck"} /\ (pc = "prompt" <=> stack = <<>>)
  /\ target \in Targets \cup {Everything} /\ Len(stack) <= StackFrames
  /\ \A i \in 1 .. Len(stack) : stack[i].wd \in Ids /\ \A e \in stack[i].left : e.folder \in Ids
  /\ \A e \in printed \cup owed : e.folder \in Ids
  /\ namesake \in BOOLEAN /\ changes \in 0 .. MaxChanges

(* A search that comes to its end has printed all it should: every file and *)
(* folder below the working directory that matches, was there when the      *)
(* search began and was never removed, whatever other shells made, moved or *)
(* removed around it meanwhile.                                             *)
FindComplete == [][pc = "find" /\ pc' = "prompt" => owed = {}]_vars

(* Nothing is printed twice, unless a file has the name of a folder, or a   *)
(* long name lies in another.  Then findHelper may take the one for the     *)
(* other.                                                                   *)
FindListsOnce ==
  [][Visit /\ ~namesake /\ ~LongInLong =>
       LET n == Len(stack)
       IN  \A e \in stack[n].left \ stack'[n].left : Prints(e, stack[n].inside) => e \notin printed]_vars

(* Every search ends, and ends at the prompt with the same exceptions: a    *)
(* file named like the folder it lies in is taken for that folder, and the  *)
(* search descends into it until the stack is used up; and so for a folder  *)
(* with a long name that is taken for one above it.                         *)
FindEnds == pc = "find" ~> pc = "prompt" \/ (pc = "stuck" /\ (namesake \/ LongInLong))
=============================================================================
