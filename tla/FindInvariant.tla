---------------------------- MODULE FindInvariant ----------------------------
(***************************************************************************)
(* What holds between any two reads of a search.                           *)
(***************************************************************************)
EXTENDS Find

(* The folders are a tree: no two share an id, nor a name in one folder,    *)
(* none has a name its folder answers to, and none lies in itself.          *)
TreeInv ==
  /\ folders \subseteq [folder : Ids, name : DirNames, id : Ids \ {Root}]
  /\ \A d, e \in folders : d.id = e.id \/ (d.folder = e.folder /\ d.name = e.name) => d = e
  /\ \A d \in folders :
       /\ d.folder \in Existing
       /\ d.name \notin {FS!NameOf(d.folder), FS!NameOf(FS!ParentOf(d.folder))}
       /\ d.id \notin Above(d.folder)

StoreInv ==
  /\ \A x \in files : x.folder \in Ids /\ x.name \in Names /\ x.ext \in Exts
  /\ open = TRUE

Entries == [folder : Ids, name : Names, ext : Exts, id : Ids \cup {NoFolder}]
Frames  == [wd : Ids, subs : SUBSET Entries, left : SUBSET Entries, inside : BOOLEAN, first : BOOLEAN]

FolderEntries == {Entry(d.folder, d.name, NoExt, d.id) : d \in folders}

(* A call works on copies of one folder's table; the folders in it are      *)
(* still there.                                                             *)
FrameOf(fr, p) ==
  /\ \A e \in fr.left \cup fr.subs : e.folder = p
  /\ fr.subs \subseteq FolderEntries
  /\ \A e \in fr.left : e.id # NoFolder => e \in fr.subs

StackInv ==
  /\ stack \in Seq(Frames) /\ Len(stack) <= StackFrames
  /\ pc = "prompt" <=> stack = <<>>
  /\ \A i \in 1 .. Len(stack) : stack[i].wd \in Existing /\ \E p \in Existing : FrameOf(stack[i], p)

SearchType ==
  /\ pc \in {"prompt", "find", "stuck"}
  /\ target \in Targets \cup {Everything}
  /\ printed \subseteq Entries /\ owed \subseteq Entries
  /\ namesake \in BOOLEAN /\ changes \in 0 .. MaxChanges
  /\ pc = "prompt" => owed = {}

(* The entry e is owed, and the search will come to it: some call has still *)
(* to visit it, or a folder above it, and knows where it is and whether it  *)
(* is to be printed.  Of a folder with a long name a call may think that it *)
(* is in the one above, which does no harm to names that are not long.      *)
Reliable(fr, p) == fr.wd = p \/ (p # Root /\ FS!NameOf(p) \in LongNames)
Leads(x, e)     == x = e \/ x.id \in Above(e.folder)
Covers(fr, e) ==
  \E x \in fr.left :
    /\ Leads(x, e) /\ Reliable(fr, x.folder)
    /\ target # Everything /\ Inside(x.folder) => fr.inside

CompleteInv ==
  pc = "find" =>
    \A e \in owed :
      /\ e \in Stored /\ ~MayBeMissed(e.folder) /\ Prints(e, Inside(e.folder))
      /\ \E i \in 1 .. Len(stack) : Covers(stack[i], e)

(* The names of folders and of files that find knows cannot be confused.    *)
NamesakeInv == pc # "prompt" /\ Namesake => namesake

(* Then the calls are those for the folders ps, each in the one before; and *)
(* no entry is still to be visited that has been, or that leads to a folder *)
(* the search is or was in.                                                 *)
IsDescent(ps) ==
  /\ \A i \in 1 .. Len(stack) :
       /\ FrameOf(stack[i], ps[i])
       /\ stack[i].wd = ps[i] \/ (i > 1 /\ stack[i].wd = ps[i - 1] /\ ps[i] # Root /\ FS!NameOf(ps[i]) \in LongNames)
  /\ \A i, k \in 1 .. Len(stack) :
       /\ i < k => ps[i] \in Above(ps[k]) /\ ps[i] # ps[k]
       /\ i <= k => \A x \in stack[i].left : x.id \notin Above(ps[k])

NotYet(y) == \A i \in 1 .. Len(stack) : \A x \in stack[i].left : x # y /\ x.id \notin Above(y.folder)

OnceInv ==
  pc = "find" /\ ~namesake /\ ~LongInLong =>
    /\ \E ps \in [1 .. Len(stack) -> Existing] : IsDescent(ps)
    /\ \A y \in printed : y.folder \in Existing /\ NotYet(y)

StuckInv == pc = "stuck" => namesake \/ LongInLong

FindInv ==
  TreeInv /\ StoreInv /\ StackInv /\ SearchType /\ CompleteInv /\ NamesakeInv /\ OnceInv /\ StuckInv
=============================================================================
