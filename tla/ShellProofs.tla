---------------------------- MODULE ShellProofs ----------------------------
(***************************************************************************)
(* Any number of shells, any tree of folders, any commands, and paths of   *)
(* any length.                                                             *)
(*                                                                         *)
(* A path is spelled by a way: one folder for each component.  Walking and *)
(* following (Walked, Follow) are recursive functions over the positions   *)
(* of a path; that they agree is shown for the least position at which     *)
(* they would not.                                                         *)
(***************************************************************************)
EXTENDS ShellInvariant, NatLemmas

Components == DirNames \cup {RootName}

-----------------------------------------------------------------------------
(* Ways through the tree                                                    *)

LEMMA FolderNamed ==
  ASSUME TreeInv, NEW d \in folders
  PROVE  FS!NameOf(d.id) = d.name /\ FS!ParentOf(d.id) = d.folder /\ d.id # Root
<1>1. d.id # Root
  BY DEF TreeInv, IsTree
<1>2. (CHOOSE e \in folders : e.id = d.id) = d
  BY DEF TreeInv, IsTree
<1>3. QED
  BY <1>1, <1>2 DEF FS!NameOf, FS!ParentOf

LEMMA WayNamed ==
  ASSUME TreeInv, NEW path \in Seq(Components), NEW way \in [1 .. Len(path) -> Ids],
         IsWay(folders, path, way), NEW k \in 1 .. Len(path)
  PROVE  /\ FS!NameOf(way[k]) = path[k]
         /\ IF k = 1 THEN way[k] = Root
            ELSE way[k] # Root /\ FS!ParentOf(way[k]) = way[k - 1]
<1>1. CASE k = 1
  BY <1>1 DEF IsWay, FS!NameOf
<1>2. CASE k # 1
  <2>1. k \in 2 .. Len(path)
    BY <1>2
  <2> DEFINE d == [folder |-> way[k - 1], name |-> path[k], id |-> way[k]]
  <2>2. d \in folders
    BY <2>1 DEF IsWay
  <2>3. FS!NameOf(d.id) = d.name /\ FS!ParentOf(d.id) = d.folder /\ d.id # Root
    <3> HIDE DEF d
    <3>1. QED
      BY <2>2, FolderNamed
  <2>4. QED
    BY <1>2, <2>3
<1>3. QED
  BY <1>1, <1>2

LEMMA NonEmptyLength ==
  ASSUME NEW S, NEW seq \in Seq(S), seq # <<>>
  PROVE  Len(seq) \in Nat \ {0}
OBVIOUS

LEMMA LastOfAppend ==
  ASSUME NEW S, NEW seq \in Seq(S), NEW x \in S
  PROVE  Last(Append(seq, x)) = x
BY DEF Last

LEMMA NoNameIsNone == NoName # "." /\ ~IsUp(NoName)
<1>1. NoName # "." /\ NoName # ".."
  BY Zenon DEF NoName
<1>2. QED
  BY <1>1, ShellAssumption DEF IsUp

(* The end of a spelled path carries the last name of the path.             *)
LEMMA EndNamed ==
  ASSUME TreeInv, NEW path, NEW dir, Spells(folders, path, dir)
  PROVE  /\ path \in Seq(Components) /\ path # <<>> /\ path[1] = RootName
         /\ dir \in Ids /\ FS!NameOf(dir) = Last(path) /\ Last(path) \in Components
         /\ Stands(folders, dir)
<1>1. PICK way \in [1 .. Len(path) -> Ids] : IsWay(folders, path, way) /\ way[Len(path)] = dir
  BY DEF Spells
<1>2. path \in Seq(Components) /\ path # <<>> /\ path[1] = RootName
  BY <1>1 DEF Spells, IsWay, Components
<1>3. Len(path) \in Nat /\ Len(path) \in 1 .. Len(path) /\ path[Len(path)] \in Components
  BY <1>2
<1>4. FS!NameOf(way[Len(path)]) = path[Len(path)]
  BY <1>1, <1>2, <1>3, WayNamed
<1>5. Stands(folders, dir)
  <2>1. CASE Len(path) = 1
    BY <1>1, <2>1 DEF IsWay, Stands
  <2>2. CASE Len(path) # 1
    <3>1. Len(path) \in 2 .. Len(path)
      <4>1. \A n \in Nat : n \in 1 .. n /\ n # 1 => n \in 2 .. n
        OBVIOUS
      <4>2. QED
        BY <1>3, <2>2, <4>1
    <3> DEFINE e == [folder |-> way[Len(path) - 1], name |-> path[Len(path)], id |-> way[Len(path)]]
    <3>2. e \in folders /\ e.id = dir
      BY <1>1, <3>1 DEF IsWay
    <3>3. QED
      BY <3>2 DEF Stands
  <2>3. QED
    BY <2>1, <2>2
<1>6. QED
  BY <1>1, <1>2, <1>3, <1>4, <1>5 DEF Last

(* Outside the root, the path without its last component spells the parent. *)
LEMMA WayUp ==
  ASSUME TreeInv, NEW path, NEW dir, Spells(folders, path, dir), dir # Root
  PROVE  Spells(folders, Front(path), FS!ParentOf(dir))
<1>1. PICK way \in [1 .. Len(path) -> Ids] : IsWay(folders, path, way) /\ way[Len(path)] = dir
  BY DEF Spells
<1>2. path \in Seq(Components) /\ path # <<>> /\ Len(path) \in Nat \ {0}
  <2>1. path \in Seq(Components) /\ path # <<>>
    BY EndNamed
  <2>2. QED
    BY <2>1, NonEmptyLength
<1>3. Len(path) # 1
  BY <1>1 DEF IsWay
<1>4. PICK n \in Nat \ {0} : n \in 1 .. Len(path) /\ n + 1 = Len(path) /\ n = Len(path) - 1
  <2>1. \A m \in Nat \ {0} : m # 1 => m - 1 \in Nat \ {0} /\ m - 1 \in 1 .. m /\ (m - 1) + 1 = m
    OBVIOUS
  <2>2. QED
    BY <1>2, <1>3, <2>1
<1> DEFINE up == [k \in 1 .. n |-> way[k]]
<1>5. /\ Front(path) \in Seq(Components) /\ Len(Front(path)) = n
      /\ \A k \in 1 .. n : Front(path)[k] = path[k]
  BY <1>2, <1>4 DEF Front
<1>6. up \in [1 .. n -> Ids] /\ \A k \in 1 .. n : up[k] = way[k]
  BY <1>4
<1>7. FS!ParentOf(dir) = way[n]
  <2>1. FS!ParentOf(way[Len(path)]) = way[Len(path) - 1]
    BY <1>1, <1>2, <1>3, WayNamed
  <2>2. QED
    BY <1>1, <1>4, <2>1
<1> HIDE DEF up
<1>8. up[n] = way[n]
  BY <1>4, <1>6
<1>9. IsWay(folders, Front(path), up)
  <2>1. Front(path) # <<>> /\ Front(path)[1] = RootName /\ up[1] = Root
    BY <1>1, <1>4, <1>5, <1>6 DEF IsWay
  <2>2. ASSUME NEW k \in 2 .. n
        PROVE  /\ Front(path)[k] = path[k] /\ up[k] = way[k] /\ up[k - 1] = way[k - 1]
               /\ k \in 2 .. Len(path)
    BY <1>4, <1>5, <1>6
  <2>3. QED
    BY <1>1, <1>5, <2>1, <2>2 DEF IsWay
<1>10. QED
  BY <1>5, <1>6, <1>7, <1>8, <1>9 DEF Spells, Components

(* A path can be continued with a folder of the one it spells.              *)
LEMMA WayDown ==
  ASSUME TreeInv, NEW path, NEW dir, Spells(folders, path, dir),
         NEW d \in folders, d.folder = dir, d.name \notin {".", NoName}, ~IsUp(d.name)
  PROVE  Spells(folders, Append(path, d.name), d.id)
<1>1. PICK way \in [1 .. Len(path) -> Ids] : IsWay(folders, path, way) /\ way[Len(path)] = dir
  BY DEF Spells
<1>2. path \in Seq(Components) /\ path # <<>> /\ Len(path) \in Nat \ {0}
  <2>1. path \in Seq(Components) /\ path # <<>>
    BY EndNamed
  <2>2. QED
    BY <2>1, NonEmptyLength
<1>3. d = [folder |-> d.folder, name |-> d.name, id |-> d.id] /\ d.name \in DirNames /\ d.id \in Ids
  BY DEF TreeInv, IsTree
<1> PICK n \in Nat \ {0} : n = Len(path)
  BY <1>2
<1> DEFINE long == Append(path, d.name)
           down == [k \in 1 .. n + 1 |-> IF k = n + 1 THEN d.id ELSE way[k]]
<1>4. /\ long \in Seq(Components) /\ Len(long) = n + 1 /\ long[n + 1] = d.name
      /\ \A k \in 1 .. n : long[k] = path[k]
  BY <1>2, <1>3 DEF Components
<1>5. /\ down \in [1 .. n + 1 -> Ids] /\ down[n + 1] = d.id
      /\ \A k \in 1 .. n : down[k] = way[k]
  BY <1>2, <1>3
<1> HIDE DEF down, long
<1>6. IsWay(folders, long, down)
  <2>1. long # <<>> /\ long[1] = RootName /\ down[1] = Root
    <3>1. 1 \in 1 .. n
      BY <1>2
    <3>2. QED
      BY <1>1, <1>4, <1>5, <3>1 DEF IsWay
  <2>2. ASSUME NEW k \in 2 .. n + 1
        PROVE  /\ long[k] \notin {".", NoName} /\ ~IsUp(long[k])
               /\ [folder |-> down[k - 1], name |-> long[k], id |-> down[k]] \in folders
    <3>1. CASE k = n + 1
      <4>1. down[k - 1] = dir
        BY <1>1, <1>2, <1>5, <3>1
      <4>2. QED
        BY <1>3, <1>4, <1>5, <3>1, <4>1
    <3>2. CASE k # n + 1
      <4>1. k \in 2 .. n /\ k \in 1 .. n /\ k - 1 \in 1 .. n
        BY <1>2, <3>2
      <4>2. QED
        BY <1>1, <1>4, <1>5, <4>1 DEF IsWay
    <3>3. QED
      BY <3>1, <3>2
  <2>3. QED
    BY <1>2, <1>4, <2>1, <2>2 DEF IsWay
<1>7. QED
  BY <1>4, <1>5, <1>6 DEF Spells, Components, long

(* What is spelled stays spelled when folders are added.                    *)
LEMMA StillSpells ==
  ASSUME NEW tree, NEW more, tree \subseteq more, NEW path, NEW dir, Spells(tree, path, dir)
  PROVE  Spells(more, path, dir)
BY DEF Spells, IsWay

LEMMA RootSpelled == Spells(folders, <<RootName>>, Root)
<1> DEFINE p == <<RootName>>
           w == [k \in 1 .. Len(p) |-> Root]
<1>1. p \in Seq(Components) /\ p # <<>> /\ p[1] = RootName /\ Len(p) = 1
  BY DEF Components
<1>2. w \in [1 .. Len(p) -> Ids] /\ w[1] = Root
  BY <1>1, ShellAssumption
<1> HIDE DEF p, w
<1>3. IsWay(folders, p, w)
  BY <1>1, <1>2 DEF IsWay
<1>4. QED
  BY <1>1, <1>2, <1>3 DEF Spells, Components, p

-----------------------------------------------------------------------------
(* Looking up a path                                                        *)

Hows == {"fine", "fail", "wild"}

(* A position is sound when its path spells its folder, and as long as all  *)
(* went well it carries the last name of the path.                          *)
IsPosition(at) ==
  /\ at = [how |-> at.how, dir |-> at.dir, path |-> at.path, last |-> at.last]
  /\ at.how \in Hows
  /\ Spells(folders, at.path, at.dir)
  /\ at.how = "fine" => at.last = Last(at.path)

LEMMA FailedPosition ==
  ASSUME NEW at, IsPosition(at)
  PROVE  IsPosition(Failed(at)) /\ Failed(at).how = "fail"
BY DEF IsPosition, Failed, Hows

LEMMA WildPosition ==
  ASSUME NEW at, IsPosition(at)
  PROVE  IsPosition(Wild(at)) /\ Wild(at).how = "wild"
BY DEF IsPosition, Wild, Hows

LEMMA SoundPosition ==
  ASSUME NEW path, NEW dir, NEW last, Spells(folders, path, dir), last = Last(path)
  PROVE  /\ IsPosition(At(dir, path, last)) /\ At(dir, path, last).dir = dir
         /\ At(dir, path, last).path = path /\ At(dir, path, last).how = "fine"
BY DEF IsPosition, At, Hows

(* change_dir is given the table of the folder the position is in.          *)
LEMMA TableFound ==
  ASSUME TreeInv, NEW at, IsPosition(at), at.how = "fine"
  PROVE  TableOf(at) = {at.dir}
<1>1. FS!NameOf(at.dir) = at.last
  BY EndNamed DEF IsPosition
<1>2. QED
  BY <1>1 DEF TableOf

(* What one component does: a fine end is where the tree leads, and a       *)
(* failure says that it leads nowhere or that the name fills its buffer.    *)
Goes(dir, component, end) ==
  /\ IsPosition(end)
  /\ end.how = "fine" => Leads(folders, dir, component) = {end.dir}
  /\ end.how = "fail" => Leads(folders, dir, component) = {} \/ Long(component)

LEMMA ChangeDir ==
  ASSUME TreeInv, NEW at, IsPosition(at), at.how = "fine", NEW component, component # NoName,
         NEW lucky
  PROVE  Goes(at.dir, component, change_dir(at, at.dir, component, lucky))
<1> DEFINE d == at.dir
           inside == {e \in FS!FoldersIn(d) : e.name = component /\ Recognised(component, lucky)}
           there == {f \in folders : f.folder = d /\ f.name = component}
           end == change_dir(at, d, component, lucky)
<1>1. Spells(folders, at.path, d) /\ at.last = Last(at.path)
  BY DEF IsPosition
<1>2. FS!NameOf(d) = Last(at.path)
  BY <1>1, EndNamed
<1> HIDE DEF d
<1>3. inside \subseteq there /\ (Long(component) \/ inside = there)
  BY DEF FS!FoldersIn, Recognised
<1>4. component # "." /\ ~IsUp(component) => Leads(folders, d, component) = {x.id : x \in there}
  BY DEF Leads
<1>5. CASE component = "."
  <2>1. end = [at EXCEPT !.last = FS!NameOf(d)] /\ Leads(folders, d, component) = {d}
    BY <1>5 DEF change_dir, Leads
  <2>2. end = at
    BY <1>1, <1>2, <2>1 DEF IsPosition
  <2>3. QED
    BY <2>1, <2>2 DEF Goes, d
<1>6. CASE component # "." /\ IsUp(component) /\ d # Root
  <2>1. end = At(FS!ParentOf(d), Front(at.path), FS!NameOf(FS!ParentOf(d)))
    BY <1>6 DEF change_dir, MayGoUp, Up, d
  <2>2. Leads(folders, d, component) = {FS!ParentOf(d)}
    BY <1>6 DEF Leads, ParentIn, FS!ParentOf
  <2>3. Spells(folders, Front(at.path), FS!ParentOf(d))
    BY <1>1, <1>6, WayUp
  <2>4. FS!NameOf(FS!ParentOf(d)) = Last(Front(at.path))
    BY <2>3, EndNamed
  <2>5. IsPosition(end) /\ end.dir = FS!ParentOf(d) /\ end.how = "fine"
    BY <2>1, <2>3, <2>4, SoundPosition
  <2>6. QED
    BY <2>2, <2>5 DEF Goes, d
<1>7. CASE component # "." /\ IsUp(component) /\ d = Root
  <2>1. end = Failed(at) /\ Leads(folders, d, component) = {}
    BY <1>7 DEF change_dir, MayGoUp, Leads, d
  <2>2. QED
    BY <2>1, FailedPosition DEF Goes, d
<1>8. CASE component # "." /\ ~IsUp(component) /\ inside = {}
  <2>1. end = Failed(at)
    BY <1>8 DEF change_dir
  <2>2. Leads(folders, d, component) = {} \/ Long(component)
    BY <1>8, <1>3, <1>4
  <2>3. QED
    BY <2>1, <2>2, FailedPosition DEF Goes, d
<1>9. CASE component # "." /\ ~IsUp(component) /\ inside # {}
  <2>1. PICK e \in inside : e = CHOOSE x \in inside : TRUE
    BY <1>9
  <2>2. e \in folders /\ e.folder = d /\ e.name = component /\ e.name \notin {".", NoName} /\ ~IsUp(e.name)
    BY <1>9, <2>1 DEF FS!FoldersIn
  <2>3. \A x \in there : x = e
    BY <2>2 DEF TreeInv, IsTree
  <2>4. Leads(folders, d, component) = {e.id}
    BY <1>9, <1>4, <2>2, <2>3
  <2> DEFINE long == Append(at.path, component)
  <2>5. end = IF Fits(long) THEN At(e.id, long, component) ELSE Wild(at)
    BY <1>9, <2>1, <2>2 DEF change_dir, Down
  <2>6. Spells(folders, long, e.id)
    BY <1>1, <2>2, WayDown
  <2>7. Last(long) = component
    <3>1. at.path \in Seq(Components) /\ component \in Components
      <4>1. e.name \in DirNames
        BY <2>2 DEF TreeInv, IsTree
      <4>2. QED
        BY <1>1, <2>2, <4>1, EndNamed DEF Components
    <3>2. QED
      BY <3>1, LastOfAppend
  <2> HIDE DEF long
  <2>8. CASE Fits(long)
    <3>1. IsPosition(end) /\ end.dir = e.id /\ end.how = "fine"
      BY <2>5, <2>6, <2>7, <2>8, SoundPosition
    <3>2. QED
      BY <2>4, <3>1 DEF Goes, d
  <2>9. CASE ~Fits(long)
    <3>1. IsPosition(end) /\ end.how = "wild"
      BY <2>5, <2>9, WildPosition
    <3>2. QED
      BY <3>1 DEF Goes, d
  <2>10. QED
    BY <2>8, <2>9
<1>10. QED
  BY <1>5, <1>6, <1>7, <1>8, <1>9 DEF d

LEMMA StepGoes ==
  ASSUME TreeInv, NEW at, IsPosition(at), at.how = "fine", NEW component, NEW lucky
  PROVE  Goes(at.dir, component, Step(at, component, lucky))
<1>1. CASE component = NoName
  <2>1. Step(at, component, lucky) = Failed(at)
    BY <1>1 DEF Step
  <2>2. Leads(folders, at.dir, component) = {}
    BY <1>1, NoNameIsNone DEF Leads
  <2>3. QED
    BY <2>1, <2>2, FailedPosition DEF Goes
<1>2. CASE component # NoName
  <2>1. TableOf(at) = {at.dir}
    BY TableFound
  <2>2. Step(at, component, lucky) = change_dir(at, at.dir, component, lucky)
    <3>1. (CHOOSE d \in {at.dir} : TRUE) = at.dir /\ {at.dir} # {}
      OBVIOUS
    <3>2. QED
      BY <1>2, <2>1, <3>1 DEF Step
  <2>3. QED
    BY <1>2, <2>2, ChangeDir
<1>3. QED
  BY <1>1, <1>2

(* The positions after each component, and the folders found after each.    *)
Passes(at, start, path, lucky) ==
  at[0] = start /\ \A k \in 1 .. Len(path) : at[k] = Step(at[k - 1], path[k], lucky)

Findings(tree, found, dir, path) ==
  found[0] = {dir} /\ \A k \in 1 .. Len(path) : found[k] = LeadsFrom(tree, found[k - 1], path[k])

LEMMA WalkedPositions ==
  ASSUME NEW start, NEW path, NEW lucky, Len(path) \in Nat
  PROVE  \E at : Passes(at, start, path, lucky) /\ Walked(start, path, lucky) = at[Len(path)]
<1> DEFINE Upto(at, n) == at = [k \in 0 .. n |-> IF k = 0 THEN start ELSE Step(at[k - 1], path[k], lucky)]
           T == {n \in Nat : ~ \E at : Upto(at, n)}
<1>1. T = {}
  <2> SUFFICES ASSUME T # {} PROVE FALSE
    OBVIOUS
  <2>1. PICK n \in T : \A m \in T : n <= m
    <3>1. T \in SUBSET Nat
      OBVIOUS
    <3> HIDE DEF T
    <3>2. QED
      BY <3>1, LeastNat
  <2>2. n \in Nat /\ ~ \E at : Upto(at, n)
    BY <2>1
  <2>3. CASE n = 0
    <3> DEFINE f == [k \in 0 .. 0 |-> start]
    <3>1. Upto(f, 0)
      OBVIOUS
    <3>2. QED
      BY <2>2, <2>3, <3>1
  <2>4. CASE n # 0
    <3>1. n - 1 \in Nat /\ \E at : Upto(at, n - 1)
      <4>1. n - 1 \in Nat /\ ~ (n <= n - 1)
        BY <2>2, <2>4
      <4>2. ~ (n - 1 \in T)
        <5> HIDE DEF T
        <5>1. QED
          BY <2>1, <4>1
      <4>3. QED
        BY <4>1, <4>2
    <3>2. PICK f : Upto(f, n - 1)
      BY <3>1
    <3> DEFINE g == [k \in 0 .. n |-> IF k = n THEN Step(f[n - 1], path[n], lucky) ELSE f[k]]
    <3>3. ASSUME NEW k \in 0 .. n
          PROVE  g[k] = IF k = 0 THEN start ELSE Step(g[k - 1], path[k], lucky)
      <4>1. CASE k = n
        BY <2>2, <2>4, <4>1
      <4>2. CASE k # n
        <5>1. k \in 0 .. n - 1 /\ (k # 0 => k - 1 \in 0 .. n /\ k - 1 # n)
          BY <2>2, <2>4, <4>2
        <5>2. g[k] = f[k] /\ (k # 0 => g[k - 1] = f[k - 1])
          BY <4>2, <5>1
        <5>3. f[k] = IF k = 0 THEN start ELSE Step(f[k - 1], path[k], lucky)
          BY <3>2, <5>1
        <5>4. QED
          BY <5>2, <5>3
      <4>3. QED
        BY <4>1, <4>2
    <3>4. Upto(g, n)
      <4>1. DOMAIN g = 0 .. n /\ g = [k \in 0 .. n |-> g[k]]
        OBVIOUS
      <4> HIDE DEF g
      <4>2. QED
        BY <3>3, <4>1
    <3> HIDE DEF g
    <3>5. QED
      BY <2>2, <3>4
  <2>5. QED
    BY <2>3, <2>4
<1>2. PICK f : Upto(f, Len(path))
  BY <1>1
<1> DEFINE at == CHOOSE at : Upto(at, Len(path))
<1>3. Upto(at, Len(path))
  BY <1>2, Zenon
<1>4. Walked(start, path, lucky) = at[Len(path)]
  BY DEF Walked
<1> HIDE DEF at
<1>5. Passes(at, start, path, lucky)
  BY <1>3 DEF Passes
<1>6. QED
  BY <1>4, <1>5

LEMMA FollowFindings ==
  ASSUME NEW tree, NEW dir, NEW path, Len(path) \in Nat
  PROVE  \E found : Findings(tree, found, dir, path) /\ Follow(tree, dir, path) = found[Len(path)]
<1> DEFINE Upto(found, n) == found = [k \in 0 .. n |-> IF k = 0 THEN {dir} ELSE LeadsFrom(tree, found[k - 1], path[k])]
           T == {n \in Nat : ~ \E found : Upto(found, n)}
<1>1. T = {}
  <2> SUFFICES ASSUME T # {} PROVE FALSE
    OBVIOUS
  <2>1. PICK n \in T : \A m \in T : n <= m
    <3>1. T \in SUBSET Nat
      OBVIOUS
    <3> HIDE DEF T
    <3>2. QED
      BY <3>1, LeastNat
  <2>2. n \in Nat /\ ~ \E found : Upto(found, n)
    BY <2>1
  <2>3. CASE n = 0
    <3> DEFINE f == [k \in 0 .. 0 |-> {dir}]
    <3>1. Upto(f, 0)
      OBVIOUS
    <3>2. QED
      BY <2>2, <2>3, <3>1
  <2>4. CASE n # 0
    <3>1. n - 1 \in Nat /\ \E found : Upto(found, n - 1)
      <4>1. n - 1 \in Nat /\ ~ (n <= n - 1)
        BY <2>2, <2>4
      <4>2. ~ (n - 1 \in T)
        <5> HIDE DEF T
        <5>1. QED
          BY <2>1, <4>1
      <4>3. QED
        BY <4>1, <4>2
    <3>2. PICK f : Upto(f, n - 1)
      BY <3>1
    <3> DEFINE g == [k \in 0 .. n |-> IF k = n THEN LeadsFrom(tree, f[n - 1], path[n]) ELSE f[k]]
    <3>3. ASSUME NEW k \in 0 .. n
          PROVE  g[k] = IF k = 0 THEN {dir} ELSE LeadsFrom(tree, g[k - 1], path[k])
      <4>1. CASE k = n
        BY <2>2, <2>4, <4>1
      <4>2. CASE k # n
        <5>1. k \in 0 .. n - 1 /\ (k # 0 => k - 1 \in 0 .. n /\ k - 1 # n)
          BY <2>2, <2>4, <4>2
        <5>2. g[k] = f[k] /\ (k # 0 => g[k - 1] = f[k - 1])
          BY <4>2, <5>1
        <5>3. f[k] = IF k = 0 THEN {dir} ELSE LeadsFrom(tree, f[k - 1], path[k])
          BY <3>2, <5>1
        <5>4. QED
          BY <5>2, <5>3
      <4>3. QED
        BY <4>1, <4>2
    <3>4. Upto(g, n)
      <4>1. DOMAIN g = 0 .. n /\ g = [k \in 0 .. n |-> g[k]]
        OBVIOUS
      <4> HIDE DEF g
      <4>2. QED
        BY <3>3, <4>1
    <3> HIDE DEF g
    <3>5. QED
      BY <2>2, <3>4
  <2>5. QED
    BY <2>3, <2>4
<1>2. PICK f : Upto(f, Len(path))
  BY <1>1
<1> DEFINE found == CHOOSE found : Upto(found, Len(path))
<1>3. Upto(found, Len(path))
  BY <1>2, Zenon
<1>4. Follow(tree, dir, path) = found[Len(path)]
  BY DEF Follow
<1> HIDE DEF found
<1>5. Findings(tree, found, dir, path)
  <2>1. 0 \in 0 .. Len(path) /\ \A k \in 1 .. Len(path) : k \in 0 .. Len(path) /\ k # 0
    OBVIOUS
  <2>2. \A k \in 0 .. Len(path) : found[k] = IF k = 0 THEN {dir} ELSE LeadsFrom(tree, found[k - 1], path[k])
    <3> DEFINE V(k) == IF k = 0 THEN {dir} ELSE LeadsFrom(tree, found[k - 1], path[k])
    <3>1. found = [k \in 0 .. Len(path) |-> V(k)]
      BY <1>3
    <3> HIDE DEF V
    <3>2. \A k \in 0 .. Len(path) : found[k] = V(k)
      BY <3>1
    <3>3. QED
      BY <3>2 DEF V
  <2>3. QED
    BY <2>1, <2>2 DEF Findings
<1>6. QED
  BY <1>4, <1>5

(* Walking and following agree, unless the walk has gone wild; it fails     *)
(* where the path leads somewhere only on account of a name that fills its  *)
(* buffer.                                                                  *)
LEMMA WalkedFollows ==
  ASSUME TreeInv, NEW start, IsPosition(start), start.how = "fine", NEW path \in Seq(STRING), NEW lucky
  PROVE  LET end == Walked(start, path, lucky)
         IN  /\ IsPosition(end)
             /\ end.how = "fine" => Follow(folders, start.dir, path) = {end.dir}
             /\ end.how = "fail" => Follow(folders, start.dir, path) = {} \/ ~Sure(path)
<1>0. Len(path) \in Nat
  OBVIOUS
<1>1. PICK at : Passes(at, start, path, lucky) /\ Walked(start, path, lucky) = at[Len(path)]
  BY <1>0, WalkedPositions
<1>2. PICK found : Findings(folders, found, start.dir, path) /\ Follow(folders, start.dir, path) = found[Len(path)]
  BY <1>0, FollowFindings
<1> DEFINE Agree(k) == /\ IsPosition(at[k])
                       /\ at[k].how = "fine" => found[k] = {at[k].dir}
                       /\ at[k].how = "fail" => found[k] = {} \/ ~Sure(path)
           T == {k \in 0 .. Len(path) : ~ Agree(k)}
<1>3. T = {}
  <2> SUFFICES ASSUME T # {} PROVE FALSE
    OBVIOUS
  <2>1. PICK k \in T : \A m \in T : k <= m
    <3>1. T \in SUBSET Nat
      OBVIOUS
    <3> HIDE DEF T
    <3>2. QED
      BY <3>1, LeastNat
  <2>2. Agree(0)
    BY <1>1, <1>2 DEF Passes, Findings
  <2>3. k \in 1 .. Len(path) /\ Agree(k - 1)
    <3>1. k \in 0 .. Len(path) /\ k # 0
      BY <2>1, <2>2
    <3>2. k \in 1 .. Len(path) /\ k - 1 \in 0 .. Len(path) /\ ~ (k <= k - 1)
      BY <3>1
    <3>3. ~ (k - 1 \in T)
      <4> HIDE DEF T
      <4>1. QED
        BY <2>1, <3>2
    <3>4. QED
      BY <3>2, <3>3
  <2>4. at[k] = Step(at[k - 1], path[k], lucky) /\ found[k] = LeadsFrom(folders, found[k - 1], path[k])
    BY <1>1, <1>2, <2>3 DEF Passes, Findings
  <2>5. Agree(k)
    <3>1. CASE at[k - 1].how = "fine"
      <4> DEFINE before == at[k - 1]
      <4>1. Goes(before.dir, path[k], Step(before, path[k], lucky))
        BY <2>3, <3>1, StepGoes
      <4>2. found[k] = Leads(folders, before.dir, path[k])
        BY <2>3, <2>4, <3>1 DEF LeadsFrom
      <4>3. Long(path[k]) => ~Sure(path)
        BY <2>3 DEF Sure
      <4> HIDE DEF before
      <4>4. QED
        BY <2>4, <4>1, <4>2, <4>3 DEF Goes, before
    <3>2. CASE at[k - 1].how # "fine"
      <4>1. at[k] = at[k - 1]
        BY <2>4, <3>2 DEF Step
      <4>2. found[k - 1] = {} => found[k] = {}
        BY <2>4 DEF LeadsFrom
      <4>3. QED
        BY <2>3, <3>2, <4>1, <4>2
    <3>3. QED
      BY <3>1, <3>2
  <2>6. QED
    BY <2>1, <2>5
<1>4. Agree(Len(path))
  BY <1>3
<1>5. QED
  BY <1>1, <1>2, <1>4

(* A spelled path is followed to the folder it spells.                      *)
LEMMA SpelledFollows ==
  ASSUME TreeInv, NEW path, NEW dir, Spells(folders, path, dir)
  PROVE  Resolve(folders, Root, path) = {dir}
<1>1. PICK way \in [1 .. Len(path) -> Ids] : IsWay(folders, path, way) /\ way[Len(path)] = dir
  BY DEF Spells
<1>2. path \in Seq(Components) /\ path # <<>> /\ path[1] = RootName
  BY EndNamed
<1>3. PICK n \in Nat : Len(path) = n + 1 /\ Len(Tail(path)) = n /\ \A k \in 1 .. n : Tail(path)[k] = path[k + 1]
  <2>1. PICK n \in Nat : Len(path) = n + 1
    <3>1. \A m \in Nat \ {0} : m - 1 \in Nat /\ m = (m - 1) + 1
      OBVIOUS
    <3>2. QED
      BY <1>2, <3>1, NonEmptyLength
  <2>2. QED
    BY <1>2, <2>1
<1> DEFINE tail == Tail(path)
<1>4. Resolve(folders, Root, path) = Follow(folders, Root, tail)
  BY <1>2 DEF Resolve
<1> HIDE DEF tail
<1>5. PICK found : Findings(folders, found, Root, tail) /\ Follow(folders, Root, tail) = found[Len(tail)]
  BY <1>3, FollowFindings DEF tail
<1> DEFINE T == {k \in 0 .. n : found[k] # {way[k + 1]}}
<1>6. T = {}
  <2> SUFFICES ASSUME T # {} PROVE FALSE
    OBVIOUS
  <2>1. PICK k \in T : \A m \in T : k <= m
    <3>1. T \in SUBSET Nat
      OBVIOUS
    <3> HIDE DEF T
    <3>2. QED
      BY <3>1, LeastNat
  <2>2. found[0] = {way[0 + 1]}
    BY <1>1, <1>5 DEF Findings, IsWay
  <2>3. k \in 1 .. n /\ found[k - 1] = {way[k]}
    <3>1. k \in 0 .. n /\ k # 0
      BY <2>1, <2>2
    <3>2. k \in 1 .. n /\ k - 1 \in 0 .. n /\ ~ (k <= k - 1) /\ (k - 1) + 1 = k
      BY <3>1
    <3>3. ~ (k - 1 \in T)
      <4> HIDE DEF T
      <4>1. QED
        BY <2>1, <3>2
    <3>4. QED
      BY <3>2, <3>3
  <2>4. found[k] = LeadsFrom(folders, {way[k]}, tail[k])
    BY <1>3, <1>5, <2>3 DEF Findings, tail
  <2> DEFINE e == [folder |-> way[k], name |-> tail[k], id |-> way[k + 1]]
  <2>5. e \in folders /\ tail[k] \notin {".", NoName} /\ ~IsUp(tail[k])
    <3>1. k + 1 \in 2 .. Len(path) /\ (k + 1) - 1 = k /\ tail[k] = path[k + 1]
      BY <1>3, <2>3 DEF tail
    <3>2. QED
      BY <1>1, <3>1 DEF IsWay
  <2>6. \A x \in folders : x.folder = way[k] /\ x.name = tail[k] => x = e
    BY <2>5 DEF TreeInv, IsTree
  <2>7. {x \in folders : x.folder = way[k] /\ x.name = tail[k]} = {e}
    BY <2>5, <2>6
  <2>8. Leads(folders, way[k], tail[k]) = {way[k + 1]}
    <3>1. {x.id : x \in {e}} = {way[k + 1]}
      OBVIOUS
    <3>2. QED
      BY <2>5, <2>7, <3>1 DEF Leads
  <2>9. found[k] = {way[k + 1]}
    BY <2>4, <2>8 DEF LeadsFrom
  <2>10. QED
    BY <2>1, <2>9
<1>7. n \in 0 .. n /\ found[n] = {way[n + 1]}
  BY <1>6
<1>8. QED
  BY <1>1, <1>3, <1>4, <1>5, <1>7 DEF tail

(* What every command with a path relies on: multiple_cd ends where the     *)
(* path leads, or has failed and changed nothing, or has gone wild.         *)
Arrives(from, path, at) ==
  /\ Spells(folders, at.path, at.dir) /\ at.how \in Hows
  /\ at.how = "fine" => Resolve(folders, from.dir, path) = {at.dir}
  /\ at.how = "fail" => /\ Resolve(folders, from.dir, path) = {} \/ ~Sure(path)
                        /\ at.dir = from.dir /\ at.path = from.path

LEMMA CdArrives ==
  ASSUME TreeInv, NEW from, Spells(folders, from.path, from.dir), NEW path \in Seq(STRING), NEW lucky
  PROVE  Arrives(from, path, multiple_cd(from, path, lucky))
<1> DEFINE absolute == path # <<>> /\ path[1] = RootName
           start == IF absolute THEN At(Root, <<RootName>>, RootName)
                                ELSE At(from.dir, from.path, Last(from.path))
           rest == IF absolute THEN Tail(path) ELSE path
           end == Walked(start, rest, lucky)
<1>1. /\ IsPosition(At(from.dir, from.path, Last(from.path)))
      /\ At(from.dir, from.path, Last(from.path)).how = "fine"
      /\ At(from.dir, from.path, Last(from.path)).dir = from.dir
  BY SoundPosition
<1>2. /\ IsPosition(At(Root, <<RootName>>, RootName)) /\ At(Root, <<RootName>>, RootName).how = "fine"
      /\ At(Root, <<RootName>>, RootName).dir = Root
  <2>1. Last(<<RootName>>) = RootName
    BY DEF Last
  <2>2. QED
    BY <2>1, RootSpelled, SoundPosition
<1>3. IsPosition(start) /\ start.how = "fine" /\ start.dir = IF absolute THEN Root ELSE from.dir
  BY <1>1, <1>2
<1>4. rest \in Seq(STRING) /\ (~Sure(rest) => ~Sure(path))
  <2>1. CASE absolute
    <3>1. rest \in Seq(STRING) /\ \A k \in DOMAIN rest : k + 1 \in DOMAIN path /\ rest[k] = path[k + 1]
      BY <2>1
    <3>2. QED
      BY <3>1 DEF Sure
  <2>2. QED
    BY <2>1
<1>5. Resolve(folders, from.dir, path) = Follow(folders, start.dir, rest)
  BY <1>3 DEF Resolve
<1>6. multiple_cd(from, path, lucky) =
        IF end.how = "fail" THEN [end EXCEPT !.dir = from.dir, !.path = from.path] ELSE end
  BY DEF multiple_cd
<1> HIDE DEF start, rest, absolute
<1>7. /\ IsPosition(end)
      /\ end.how = "fine" => Follow(folders, start.dir, rest) = {end.dir}
      /\ end.how = "fail" => Follow(folders, start.dir, rest) = {} \/ ~Sure(rest)
  BY <1>3, <1>4, WalkedFollows
<1> HIDE DEF end
<1>8. CASE end.how = "fail"
  <2> DEFINE back == [end EXCEPT !.dir = from.dir, !.path = from.path]
  <2>1. back.how = "fail" /\ back.dir = from.dir /\ back.path = from.path
    BY <1>7, <1>8 DEF IsPosition
  <2> HIDE DEF back
  <2>2. QED
    BY <1>4, <1>5, <1>6, <1>7, <1>8, <2>1 DEF Arrives, Hows, back
<1>9. CASE end.how # "fail"
  BY <1>5, <1>6, <1>7, <1>9 DEF Arrives, IsPosition
<1>10. QED
  BY <1>8, <1>9

(* Folders that are added do not change where a path leads.                 *)
Grows(tree, more) == IsTree(tree) /\ IsTree(more) /\ tree \subseteq more
Few(S) == \A x, y \in S : x = y
AllStand(tree, ds) == \A d \in ds : Stands(tree, d)

LEMMA LeadsKept ==
  ASSUME NEW tree, NEW more, IsTree(tree), IsTree(more), tree \subseteq more, NEW d, NEW component,
         Stands(tree, d)
  PROVE  Leads(tree, d, component) \subseteq Leads(more, d, component)
<1>1. ParentIn(tree, d) = ParentIn(more, d)
  <2>1. CASE d = Root
    BY <2>1 DEF ParentIn
  <2>2. CASE d # Root
    <3>1. PICK e \in tree : e.id = d
      BY <2>2 DEF Stands
    <3>2. (CHOOSE x \in tree : x.id = d) = e
      BY <3>1 DEF IsTree
    <3>3. (CHOOSE x \in more : x.id = d) = e
      BY <3>1 DEF IsTree
    <3>4. ParentIn(tree, d) = e.folder
      BY <2>2, <3>2, Zenon DEF ParentIn
    <3>5. ParentIn(more, d) = e.folder
      BY <2>2, <3>3, Zenon DEF ParentIn
    <3>6. QED
      BY <3>4, <3>5
  <2>3. QED
    BY <2>1, <2>2
<1>2. QED
  BY <1>1 DEF Leads

(* A path leads to one folder at most, and to one that stands.              *)
LEMMA LeadsToFew ==
  ASSUME NEW tree, IsTree(tree), NEW d, NEW component
  PROVE  Few(Leads(tree, d, component))
BY DEF Few, Leads, IsTree

LEMMA LeadsStands ==
  ASSUME NEW tree, IsTree(tree), NEW d, Stands(tree, d), NEW component,
         NEW x \in Leads(tree, d, component)
  PROVE  Stands(tree, x)
<1>1. CASE component = "."
  BY <1>1 DEF Leads
<1>2. CASE component # "." /\ IsUp(component)
  <2>1. d # Root /\ x = ParentIn(tree, d)
    BY <1>2 DEF Leads
  <2>2. PICK e \in tree : e.id = d
    BY <2>1 DEF Stands
  <2>3. (CHOOSE y \in tree : y.id = d) = e
    BY <2>2 DEF IsTree
  <2>4. x = e.folder
    BY <2>1, <2>3 DEF ParentIn
  <2>5. QED
    BY <2>2, <2>4 DEF IsTree
<1>3. CASE component # "." /\ ~IsUp(component)
  BY <1>3 DEF Leads, Stands
<1>4. QED
  BY <1>1, <1>2, <1>3

LEMMA LeadsFromKept ==
  ASSUME NEW tree, NEW more, Grows(tree, more),
         NEW ds, NEW es, ds \subseteq es, Few(es), AllStand(tree, ds), NEW component
  PROVE  /\ LeadsFrom(tree, ds, component) \subseteq LeadsFrom(more, es, component)
         /\ Few(LeadsFrom(more, es, component))
         /\ AllStand(tree, LeadsFrom(tree, ds, component))
<1>1. LeadsFrom(tree, ds, component) \subseteq LeadsFrom(more, es, component)
  <2>1. \A d \in ds : Leads(tree, d, component) \subseteq Leads(more, d, component)
    BY LeadsKept DEF Grows, AllStand
  <2>2. QED
    BY <2>1 DEF LeadsFrom
<1>2. Few(LeadsFrom(more, es, component))
  <2>1. \A d \in es : Few(Leads(more, d, component))
    BY LeadsToFew DEF Grows
  <2>2. QED
    BY <2>1 DEF LeadsFrom, Few
<1>3. AllStand(tree, LeadsFrom(tree, ds, component))
  <2>1. \A d \in ds : \A x \in Leads(tree, d, component) : Stands(tree, x)
    BY LeadsStands DEF Grows, AllStand
  <2>2. QED
    BY <2>1 DEF LeadsFrom, AllStand
<1>4. QED
  BY <1>1, <1>2, <1>3

LEMMA FollowKept ==
  ASSUME NEW tree, NEW more, Grows(tree, more),
         NEW dir, Stands(tree, dir), NEW path, Len(path) \in Nat
  PROVE  Follow(tree, dir, path) \subseteq Follow(more, dir, path) /\ Few(Follow(more, dir, path))
<1>1. PICK f : Findings(tree, f, dir, path) /\ Follow(tree, dir, path) = f[Len(path)]
  BY FollowFindings
<1>2. PICK g : Findings(more, g, dir, path) /\ Follow(more, dir, path) = g[Len(path)]
  BY FollowFindings
<1> DEFINE Agree(k) == f[k] \subseteq g[k] /\ Few(g[k]) /\ AllStand(tree, f[k])
           T == {k \in 0 .. Len(path) : ~ Agree(k)}
<1>3. T = {}
  <2> SUFFICES ASSUME T # {} PROVE FALSE
    OBVIOUS
  <2>1. PICK k \in T : \A m \in T : k <= m
    <3>1. T \in SUBSET Nat
      OBVIOUS
    <3> HIDE DEF T
    <3>2. QED
      BY <3>1, LeastNat
  <2>2. Agree(0)
    BY <1>1, <1>2 DEF Findings, Few, AllStand
  <2>3. k \in 1 .. Len(path) /\ Agree(k - 1)
    <3>1. k \in 0 .. Len(path) /\ k # 0
      BY <2>1, <2>2
    <3>2. k \in 1 .. Len(path) /\ k - 1 \in 0 .. Len(path) /\ ~ (k <= k - 1)
      BY <3>1
    <3>3. ~ (k - 1 \in T)
      <4> HIDE DEF T
      <4>1. QED
        BY <2>1, <3>2
    <3>4. QED
      BY <3>2, <3>3
  <2>4. f[k] = LeadsFrom(tree, f[k - 1], path[k]) /\ g[k] = LeadsFrom(more, g[k - 1], path[k])
    BY <1>1, <1>2, <2>3 DEF Findings
  <2>5. Agree(k)
    <3>1. f[k - 1] \subseteq g[k - 1] /\ Few(g[k - 1]) /\ AllStand(tree, f[k - 1])
      BY <2>3
    <3>2. /\ LeadsFrom(tree, f[k - 1], path[k]) \subseteq LeadsFrom(more, g[k - 1], path[k])
          /\ Few(LeadsFrom(more, g[k - 1], path[k]))
          /\ AllStand(tree, LeadsFrom(tree, f[k - 1], path[k]))
      BY <3>1, LeadsFromKept, Zenon
    <3>3. QED
      BY <2>4, <3>2, Zenon
  <2>6. QED
    BY <2>1, <2>5
<1>4. Agree(Len(path))
  BY <1>3
<1>5. QED
  BY <1>1, <1>2, <1>4

IsPath(path) == path \in Seq(STRING)
LeadsTo(tree, dir, path, end) == Resolve(tree, dir, path) = {end}

LEMMA ResolveKept ==
  ASSUME NEW tree, NEW more, Grows(tree, more),
         NEW dir, Stands(tree, dir), NEW path, IsPath(path), NEW end, LeadsTo(tree, dir, path, end)
  PROVE  LeadsTo(more, dir, path, end)
<1>1. PICK start, rest : /\ start \in {Root, dir} /\ Len(rest) \in Nat
                         /\ \A t : Resolve(t, dir, path) = Follow(t, start, rest)
  <2>1. CASE path # <<>> /\ path[1] = RootName
    <3>1. Len(Tail(path)) \in Nat
      BY <2>1 DEF IsPath
    <3>2. \A t : Resolve(t, dir, path) = Follow(t, Root, Tail(path))
      BY <2>1 DEF Resolve
    <3>3. QED
      BY <3>1, <3>2
  <2>2. CASE ~ (path # <<>> /\ path[1] = RootName)
    <3>1. \A t : Resolve(t, dir, path) = Follow(t, dir, path)
      BY <2>2 DEF Resolve
    <3>2. Len(path) \in Nat
      BY DEF IsPath
    <3>3. QED
      BY <3>1, <3>2
  <2>3. QED
    BY <2>1, <2>2
<1>2. Stands(tree, start)
  BY <1>1 DEF Stands
<1>3. Follow(tree, start, rest) \subseteq Follow(more, start, rest) /\ Few(Follow(more, start, rest))
  BY <1>1, <1>2, FollowKept
<1>4. Resolve(tree, dir, path) = Follow(tree, start, rest) /\ Resolve(more, dir, path) = Follow(more, start, rest)
  BY <1>1
<1>5. \A S, T : S = {end} /\ S \subseteq T /\ Few(T) => T = {end}
  BY DEF Few
<1>6. QED
  BY <1>3, <1>4, <1>5, Zenon DEF LeadsTo

-----------------------------------------------------------------------------
(* The store                                                                *)

StoreOK ==
  /\ files \subseteq [folder : Ids, name : Names, ext : Exts, data : Seq(Contents)]
  /\ \A x \in files : Len(x.data) \in 1 .. MaxSize
  /\ folders \subseteq [folder : Ids, name : DirNames, id : Ids \ {Root}]
  /\ result \in {-1, 0, 1, 2, 3} /\ open = TRUE /\ FilesInv

LEMMA AnswerKeeps ==
  ASSUME StoreOK, TreeInv, NEW code \in {-1, 0, 1, 2, 3}, FS!Answer(code)
  PROVE  StoreOK' /\ TreeInv' /\ folders' = folders /\ files' = files
<1>1. result' = code /\ files' = files /\ folders' = folders /\ open' = open
  BY DEF FS!Answer
<1>2. QED
  BY <1>1 DEF StoreOK, FilesInv, TreeInv, IsTree

LEMMA ReadKeeps ==
  ASSUME StoreOK, TreeInv, NEW p, NEW name, NEW ext, NEW size, FS!Read(p, name, ext, size)
  PROVE  StoreOK' /\ TreeInv' /\ folders' = folders /\ files' = files
<1>1. \E code \in {-1, 0, 1, 2, 3} : FS!Answer(code)
  BY DEF FS!Read, FS!ReadCode
<1>2. QED
  BY <1>1, AnswerKeeps

LEMMA ReadDirectoryKeeps ==
  ASSUME StoreOK, TreeInv, NEW p, NEW name, NEW size, FS!ReadDirectory(p, name, size)
  PROVE  StoreOK' /\ TreeInv' /\ folders' = folders /\ files' = files
<1>1. \E code \in {-1, 0, 1, 2, 3} : FS!Answer(code)
  BY DEF FS!ReadDirectory, FS!ReadDirectoryCode
<1>2. QED
  BY <1>1, AnswerKeeps

LEMMA WriteKeeps ==
  ASSUME StoreOK, TreeInv, NEW p \in Ids, NEW name \in Names, NEW ext \in Exts,
         NEW data \in Seq(Contents), Len(data) \in 1 .. MaxSize, FS!Write(p, name, ext, data)
  PROVE  /\ StoreOK' /\ TreeInv' /\ folders' = folders /\ files \subseteq files'
         /\ result' = 0 => \E y \in files' : y \notin files /\ y.data = data
<1> DEFINE new == [folder |-> p, name |-> name, ext |-> ext, data |-> data]
<1>1. CASE \E code \in {-1, 1, 2} : FS!Answer(code)
  <2>1. PICK code \in {-1, 1, 2} : FS!Answer(code)
    BY <1>1
  <2>2. result' = code
    BY <2>1 DEF FS!Answer
  <2>3. QED
    BY <2>1, <2>2, AnswerKeeps
<1>2. CASE /\ ~ \E x \in FS!FilesIn(p) : x.name = name /\ x.ext = ext
           /\ files' = files \cup {new} /\ result' = 0 /\ folders' = folders /\ open' = open
  <2>1. /\ new \in [folder : Ids, name : Names, ext : Exts, data : Seq(Contents)]
        /\ Len(new.data) \in 1 .. MaxSize
        /\ new.folder = p /\ new.name = name /\ new.ext = ext /\ new.data = data
    OBVIOUS
  <2>2. \A x \in files : ~ (x.folder = p /\ x.name = name /\ x.ext = ext)
    BY <1>2 DEF FS!FilesIn
  <2>3. files' = files \cup {new}
    BY <1>2
  <2> HIDE DEF new
  <2>4. FilesInv'
    BY <2>1, <2>2, <2>3 DEF StoreOK, FilesInv
  <2>5. new \in files' /\ new \notin files
    BY <2>1, <2>2, <2>3
  <2>6. QED
    BY <1>2, <2>1, <2>3, <2>4, <2>5 DEF StoreOK, TreeInv, IsTree
<1>3. QED
  BY <1>1, <1>2 DEF FS!Write

LEMMA MakeFolderKeeps ==
  ASSUME StoreOK, TreeInv, NEW p \in Ids, NEW name \in DirNames, name # RootName, Stands(folders, p),
         FS!MakeFolder(p, name)
  PROVE  StoreOK' /\ TreeInv' /\ folders \subseteq folders' /\ files' = files
<1>1. CASE \E code \in {-1, 1, 2} : FS!Answer(code)
  BY <1>1, AnswerKeeps
<1>2. CASE /\ name \notin FS!FolderNames(p)
           /\ \E id \in Ids : /\ id # Root /\ \A d \in folders : d.id # id
                             /\ folders' = folders \cup {[folder |-> p, name |-> name, id |-> id]}
                             /\ result' = 0 /\ files' = files /\ open' = open
  <2>1. PICK id \in Ids : /\ id # Root /\ \A d \in folders : d.id # id
                          /\ folders' = folders \cup {[folder |-> p, name |-> name, id |-> id]}
                          /\ result' = 0 /\ files' = files /\ open' = open
    BY <1>2
  <2> DEFINE new == [folder |-> p, name |-> name, id |-> id]
  <2>2. /\ new \in [folder : Ids, name : DirNames \ {RootName}, id : Ids \ {Root}]
        /\ new.id = id /\ new.folder = p /\ new.name = name
    BY <2>1
  <2>3. \A d \in folders : ~ (d.folder = p /\ d.name = name)
    BY <1>2 DEF FS!FolderNames, FS!FoldersIn
  <2>4. folders' = folders \cup {new}
    BY <2>1
  <2> HIDE DEF new
  <2>5. \A d, e \in folders' : d.id = e.id \/ (d.folder = e.folder /\ d.name = e.name) => d = e
    BY <2>1, <2>2, <2>3, <2>4 DEF TreeInv, IsTree
  <2>6. folders' \subseteq [folder : Ids, name : DirNames \ {RootName}, id : Ids \ {Root}]
    BY <2>2, <2>4 DEF TreeInv, IsTree
  <2>7. folders' \subseteq [folder : Ids, name : DirNames, id : Ids \ {Root}]
    BY <2>6
  <2>8. \A e \in folders' : Stands(folders', e.folder)
    BY <2>2, <2>4 DEF TreeInv, IsTree, Stands
  <2>9. QED
    BY <2>1, <2>4, <2>5, <2>6, <2>7, <2>8 DEF StoreOK, FilesInv, TreeInv, IsTree
<1>3. QED
  BY <1>1, <1>2 DEF FS!MakeFolder

(* Names with an extension are files: nothing else is deleted.              *)
LEMMA DeleteKeeps ==
  ASSUME StoreOK, TreeInv, NEW p, NEW name, NEW ext, ext # NoExt, FS!Delete(p, name, ext)
  PROVE  /\ StoreOK' /\ TreeInv' /\ folders' = folders
         /\ {x \in files : x.ext = NoExt} \subseteq files'
<1>1. CASE \E code \in {-1, 1} : FS!Answer(code)
  BY <1>1, AnswerKeeps
<1>2. CASE \E x \in FS!FilesIn(p) : /\ x.name = name /\ x.ext = ext /\ files' = files \ {x}
                                  /\ result' = 0 /\ folders' = folders /\ open' = open
  BY <1>2 DEF StoreOK, FilesInv, TreeInv, IsTree
<1>3. QED
  BY <1>1, <1>2 DEF FS!Delete

-----------------------------------------------------------------------------
(* The commands                                                             *)

Keeps == folders \subseteq folders' /\ {x \in files : x.ext = NoExt} \subseteq files'

LEMMA StoreInv == ShellInv => StoreOK /\ TreeInv
BY DEF ShellInv, TypeOK, StoreOK, FilesInv

LEMMA StoreUnchanged ==
  ASSUME ShellInv, UNCHANGED storeVars
  PROVE  StoreOK' /\ TreeInv' /\ Keeps /\ files' = files /\ folders' = folders
BY StoreInv DEF storeVars, StoreOK, FilesInv, TreeInv, IsTree, Keeps

(* A step of one shell leaves the others where they are, except that exec   *)
(* starts one.                                                              *)
Untouched(t) ==
  /\ working_directory'[t] = working_directory[t] /\ current_path'[t] = current_path[t]
  /\ task'[t] = task[t] /\ saved'[t] = saved[t] /\ home'[t] = home[t]
  /\ pc'[t] = pc[t] \/ (pc[t] = "off" /\ pc'[t] = "start")

OthersUntouched(s) == \A t \in Shells : t # s => Untouched(t)

(* Whoever still thinks that nobody has changed a file is right.            *)
Unaware(t) == alone'[t] => alone[t] /\ files' = files

AloneRight(s) == alone' \in [Shells -> BOOLEAN] /\ \A t \in Shells : t # s => Unaware(t)

Sound(s) == ShellInv' /\ Keeps /\ OthersUntouched(s)

ShellTypes ==
  /\ working_directory \in [Shells -> Ids]
  /\ current_path \in [Shells -> PathTexts]
  /\ pc \in [Shells -> Prompts \cup Calls \cup {"wild"}]
  /\ task \in [Shells -> [command : Commands \cup {NoCommand}, data : Seq(Contents), dir : Ids]]
  /\ saved \in [Shells -> Positions] /\ home \in [Shells -> Positions]

LEMMA SpelledPosition ==
  ASSUME TreeInv, NEW path, NEW dir, Spells(folders, path, dir)
  PROVE  path \in PathTexts /\ dir \in Ids /\ Position(dir, path) \in Positions
<1>1. path \in PathTexts /\ dir \in Ids
  BY EndNamed DEF PathTexts, Components
<1>2. QED
  BY <1>1 DEF Position, Positions

(* Where a path led a shell, it leads it still when folders are added.      *)
LEMMA LeadsStill ==
  ASSUME ShellInv, TreeInv', folders \subseteq folders', NEW t \in Shells,
         NEW path \in Seq(STRING), NEW end, Resolve(folders, saved[t].dir, path) = {end}
  PROVE  Resolve(folders', saved[t].dir, path) = {end}
<1>1. Stands(folders, saved[t].dir)
  <2>1. Spells(folders, saved[t].path, saved[t].dir)
    BY DEF ShellInv, PathOK
  <2>2. QED
    BY <2>1, EndNamed, StoreInv
<1>2. Grows(folders, folders')
  BY DEF ShellInv, TreeInv, Grows
<1>3. PICK tree, more, dir : tree = folders /\ more = folders' /\ dir = saved[t].dir
  OBVIOUS
<1>4. Grows(tree, more) /\ Stands(tree, dir) /\ IsPath(path) /\ LeadsTo(tree, dir, path, end)
  BY <1>1, <1>2, <1>3 DEF IsPath, LeadsTo
<1>5. LeadsTo(more, dir, path, end)
  BY <1>4, ResolveKept, Zenon
<1>6. QED
  BY <1>3, <1>5 DEF LeadsTo

LEMMA TypedPlaces ==
  ASSUME NEW c \in Commands
  PROVE  /\ c.src.path \in Seq(STRING) /\ c.dest.path \in Seq(STRING)
         /\ c.src.name \in Names \cup {RootName} /\ c.dest.name \in Names \cup {RootName}
         /\ c.src.ext \in Exts /\ c.dest.ext \in Exts
         /\ c.cmd \in {"mkdir", "cat", "exec", "cp", "mv", "rm"}
BY ShellAssumption

LEMMA UntouchedOK ==
  ASSUME ShellInv, TreeInv', folders \subseteq folders', NEW t \in Shells, Untouched(t), Unaware(t)
  PROVE  PathOK(t)' /\ HomeOK(t)' /\ TaskOK(t)' /\ ReadOK(t)' /\ MoveOK(t)'
<1>1. PathOK(t) /\ HomeOK(t) /\ TaskOK(t) /\ ReadOK(t) /\ MoveOK(t)
  BY DEF ShellInv
<1>2. /\ working_directory'[t] = working_directory[t] /\ current_path'[t] = current_path[t]
      /\ task'[t] = task[t] /\ saved'[t] = saved[t] /\ home'[t] = home[t]
      /\ pc'[t] = pc[t] \/ (pc[t] = "off" /\ pc'[t] = "start")
  BY DEF Untouched
<1>3. PathOK(t)'
  BY <1>1, <1>2, StillSpells DEF PathOK
<1>4. HomeOK(t)'
  BY <1>1, <1>2 DEF HomeOK, Here, Calls
<1>5. TaskOK(t)'
  BY <1>1, <1>2 DEF TaskOK, Calls
<1>6. ReadOK(t)'
  <2>1. SUFFICES ASSUME pc'[t] = "read"
                 PROVE  Resolve(folders', saved[t].dir, task[t].command.src.path) = {working_directory[t]}
    BY <1>2 DEF ReadOK
  <2>2. pc[t] = "read" /\ task[t].command \in Commands
    BY <1>1, <1>2, <2>1 DEF TaskOK, Calls
  <2>3. PICK path \in Seq(STRING) : path = task[t].command.src.path
    BY <2>2, TypedPlaces
  <2>4. Resolve(folders, saved[t].dir, path) = {working_directory[t]}
    BY <1>1, <2>2, <2>3 DEF ReadOK
  <2>5. QED
    BY <2>3, <2>4, LeadsStill
<1>7. MoveOK(t)'
  <2>1. SUFFICES ASSUME alone'[t]
                 PROVE  /\ pc'[t] \in {"write", "into"} => Copying(t)'
                        /\ pc'[t] = "remove" /\ task'[t].command.cmd = "mv" => Removing(t)'
    BY DEF MoveOK
  <2>2. alone[t] /\ files' = files
    BY <2>1 DEF Unaware
  <2>3. \A x : IsSource(t, x) => IsSource(t, x)'
    BY <1>2, <2>2 DEF IsSource
  <2>4. ASSUME pc'[t] \in {"write", "into"} PROVE Copying(t)'
    <3>1. pc[t] \in {"write", "into"} /\ task[t].command \in Commands
      BY <1>1, <1>2, <2>4 DEF TaskOK, Calls
    <3>2. PICK x \in files : /\ IsSource(t, x)
                             /\ Resolve(folders, saved[t].dir, task[t].command.src.path) = {x.folder}
      BY <1>1, <2>2, <3>1 DEF MoveOK, Copying
    <3>3. PICK path \in Seq(STRING) : path = task[t].command.src.path
      BY <3>1, TypedPlaces
    <3>4. Resolve(folders', saved[t].dir, path) = {x.folder}
      BY <3>2, <3>3, LeadsStill
    <3>5. QED
      BY <1>2, <2>2, <2>3, <3>2, <3>3, <3>4 DEF Copying
  <2>5. ASSUME pc'[t] = "remove", task'[t].command.cmd = "mv" PROVE Removing(t)'
    <3>1. Removing(t)
      BY <1>1, <1>2, <2>2, <2>5 DEF MoveOK
    <3>2. QED
      BY <1>2, <2>2, <2>3, <3>1 DEF Removing
  <2>6. QED
    BY <2>4, <2>5
<1>8. QED
  BY <1>3, <1>4, <1>5, <1>6, <1>7

(* What one shell does is sound when it is sound for that shell.            *)
Moved(s) == ShellTypes' /\ OthersUntouched(s) /\ PathOK(s)' /\ HomeOK(s)'

LEMMA OneShell ==
  ASSUME ShellInv, StoreOK', TreeInv', Keeps, NEW s \in Shells, Moved(s), AloneRight(s),
         TaskOK(s)', ReadOK(s)', MoveOK(s)'
  PROVE  Sound(s)
<1>1. TypeOK' /\ FilesInv'
  BY DEF Moved, ShellTypes, AloneRight, StoreOK, TypeOK
<1>2. ASSUME NEW t \in Shells
      PROVE  PathOK(t)' /\ HomeOK(t)' /\ TaskOK(t)' /\ ReadOK(t)' /\ MoveOK(t)'
  <2>1. CASE t = s
    BY <2>1 DEF Moved
  <2>2. CASE t # s
    BY <2>2, UntouchedOK DEF Moved, OthersUntouched, AloneRight, Keeps
  <2>3. QED
    BY <2>1, <2>2
<1>3. QED
  BY <1>1, <1>2 DEF Sound, ShellInv, Moved

(* A shell that is done with its command.                                   *)
LEMMA DoneSound ==
  ASSUME ShellInv, StoreOK', TreeInv', Keeps, NEW s \in Shells, Moved(s), AloneRight(s),
         pc'[s] \in {"prompt", "wild"}
  PROVE  Sound(s)
<1>1. TaskOK(s)' /\ ReadOK(s)' /\ MoveOK(s)'
  BY DEF TaskOK, ReadOK, MoveOK, Calls
<1>2. QED
  BY <1>1, OneShell

LEMMA AloneUnchanged ==
  ASSUME ShellInv, NEW s \in Shells, alone' = alone, files' = files
  PROVE  AloneRight(s)
BY DEF AloneRight, Unaware, ShellInv, TypeOK

LEMMA Disturbed ==
  ASSUME ShellInv, NEW s \in Shells, Disturb(s)
  PROVE  AloneRight(s) /\ alone'[s] = alone[s]
BY DEF Disturb, AloneRight, Unaware, ShellInv, TypeOK

LEMMA NoTaskType ==
  NoTask \in [command : Commands \cup {NoCommand}, data : Seq(Contents), dir : Ids]
BY ShellAssumption DEF NoTask, Task

LEMMA BeginningSound == Beginning \in Positions /\ Spells(folders, Beginning.path, Beginning.dir)
<1>1. Beginning.path = <<RootName>> /\ Beginning.dir = Root
  BY DEF Beginning, Position
<1>2. Beginning \in Positions
  BY ShellAssumption DEF Beginning, Position, Positions, PathTexts
<1>3. QED
  BY <1>1, <1>2, RootSpelled

(* The three ways in which a step of a shell ends: it settles at a prompt,  *)
(* it comes back, or it goes on to another system call.                     *)
LEMMA Settled ==
  ASSUME ShellInv, folders \subseteq folders', NEW s \in Shells, NEW at, Settle(s, at),
         Spells(folders, at.path, at.dir), task' = task, saved' = saved
  PROVE  Moved(s) /\ pc'[s] \in {"prompt", "wild"}
<1>1. /\ working_directory' = [working_directory EXCEPT ![s] = at.dir]
      /\ current_path' = [current_path EXCEPT ![s] = at.path]
      /\ pc' = [pc EXCEPT ![s] = IF at.how = "wild" THEN "wild" ELSE "prompt"]
      /\ home' = [home EXCEPT ![s] = Position(at.dir, at.path)]
  BY DEF Settle, Move
<1>2. at.path \in PathTexts /\ at.dir \in Ids /\ Position(at.dir, at.path) \in Positions
  BY SpelledPosition, StoreInv
<1>3. ShellTypes
  BY DEF ShellInv, TypeOK, ShellTypes
<1>4. ShellTypes'
  BY <1>1, <1>2, <1>3 DEF ShellTypes, Prompts
<1>5. OthersUntouched(s)
  BY <1>1, <1>3 DEF ShellTypes, OthersUntouched, Untouched
<1>6. PathOK(s)'
  <2>1. PathOK(s)
    BY DEF ShellInv
  <2>2. working_directory'[s] = at.dir /\ current_path'[s] = at.path
    BY <1>1, <1>3 DEF ShellTypes
  <2>3. QED
    BY <2>1, <2>2, StillSpells DEF PathOK
<1>7. pc'[s] \in {"prompt", "wild"} /\ HomeOK(s)'
  BY <1>1, <1>3 DEF ShellTypes, HomeOK, Here, Calls
<1>8. QED
  BY <1>4, <1>5, <1>6, <1>7 DEF Moved

LEMMA Ended ==
  ASSUME ShellInv, folders \subseteq folders', NEW s \in Shells, pc[s] \in Calls, End(s, saved[s])
  PROVE  Moved(s) /\ pc'[s] = "prompt"
<1>1. /\ working_directory' = [working_directory EXCEPT ![s] = saved[s].dir]
      /\ current_path' = [current_path EXCEPT ![s] = saved[s].path]
      /\ pc' = [pc EXCEPT ![s] = "prompt"] /\ task' = [task EXCEPT ![s] = NoTask]
      /\ saved' = [saved EXCEPT ![s] = Beginning] /\ home' = home
  BY DEF End, Move
<1>2. ShellTypes /\ PathOK(s) /\ saved[s] = home[s]
  BY DEF ShellInv, TypeOK, ShellTypes, HomeOK
<1>3. saved[s].path \in PathTexts /\ saved[s].dir \in Ids /\ saved[s] = Position(saved[s].dir, saved[s].path)
  BY <1>2 DEF ShellTypes, Positions, Position
<1>4. ShellTypes'
  BY <1>1, <1>2, <1>3, NoTaskType, BeginningSound DEF ShellTypes, Prompts
<1>5. OthersUntouched(s)
  BY <1>1, <1>2 DEF ShellTypes, OthersUntouched, Untouched
<1>6. /\ working_directory'[s] = saved[s].dir /\ current_path'[s] = saved[s].path
      /\ saved'[s] = Beginning /\ pc'[s] = "prompt"
  BY <1>1, <1>2 DEF ShellTypes
<1>7. PathOK(s)'
  BY <1>2, <1>6, BeginningSound, StillSpells DEF PathOK
<1>8. HomeOK(s)'
  BY <1>1, <1>2, <1>3, <1>6 DEF HomeOK, Here, Calls
<1>9. QED
  BY <1>4, <1>5, <1>6, <1>7, <1>8 DEF Moved

IsTask(t) ==
  t \in [command : Commands, data : Seq(Contents), dir : Ids]

LEMMA Gone ==
  ASSUME ShellInv, folders \subseteq folders', NEW s \in Shells, NEW from, from = home[s],
         Spells(folders, from.path, from.dir), NEW at, Spells(folders, at.path, at.dir), at.how \in Hows,
         NEW call \in Calls, NEW t, IsTask(t), Go(s, from, at, call, t)
  PROVE  /\ Moved(s)
         /\ \/ pc'[s] \in {"prompt", "wild"}
            \/ /\ pc'[s] = call /\ at.how = "fine" /\ saved'[s] = from
               /\ task'[s].command = t.command /\ task'[s].data = t.data
               /\ ~BackBefore(call) => working_directory'[s] = at.dir
<1> DEFINE fine == at.how = "fine"
           there == IF fine /\ ~BackBefore(call) THEN at ELSE from
           next == IF fine THEN call ELSE IF at.how = "fail" THEN "prompt" ELSE "wild"
           todo == IF fine THEN [t EXCEPT !.dir = at.dir] ELSE NoTask
           keep == IF fine THEN from ELSE Beginning
<1>1. /\ working_directory' = [working_directory EXCEPT ![s] = there.dir]
      /\ current_path' = [current_path EXCEPT ![s] = there.path]
      /\ pc' = [pc EXCEPT ![s] = next] /\ task' = [task EXCEPT ![s] = todo]
      /\ saved' = [saved EXCEPT ![s] = keep] /\ home' = home
  BY DEF Go, Move
<1>2. ShellTypes
  BY DEF ShellInv, TypeOK, ShellTypes
<1>3. at.path \in PathTexts /\ at.dir \in Ids
  BY SpelledPosition, StoreInv
<1>4. from \in Positions /\ from = Position(from.dir, from.path) /\ from.path \in PathTexts /\ from.dir \in Ids
  BY <1>2 DEF ShellTypes, Positions, Position
<1>5. there.path \in PathTexts /\ there.dir \in Ids /\ Spells(folders, there.path, there.dir)
  BY <1>3, <1>4
<1>6. next \in Prompts \cup Calls \cup {"wild"}
  BY DEF Prompts
<1>7. /\ todo \in [command : Commands \cup {NoCommand}, data : Seq(Contents), dir : Ids]
      /\ fine => todo.command = t.command /\ todo.data = t.data
  BY <1>3, NoTaskType DEF IsTask
<1>8. keep \in Positions /\ Spells(folders, keep.path, keep.dir)
  BY <1>4, BeginningSound
<1> HIDE DEF there, next, todo, keep
<1>9. ShellTypes'
  BY <1>1, <1>2, <1>5, <1>6, <1>7, <1>8 DEF ShellTypes
<1>10. OthersUntouched(s)
  BY <1>1, <1>2 DEF ShellTypes, OthersUntouched, Untouched
<1>11. /\ working_directory'[s] = there.dir /\ current_path'[s] = there.path
       /\ pc'[s] = next /\ task'[s] = todo /\ saved'[s] = keep /\ home'[s] = home[s]
  BY <1>1, <1>2 DEF ShellTypes
<1>12. PathOK(s)'
  BY <1>5, <1>8, <1>11, StillSpells DEF PathOK
<1>13. HomeOK(s)'
  <2>1. next \in {"prompt", "exec"} => there = from
    BY DEF next, there, BackBefore, Calls
  <2>2. next \in Calls => keep = from
    <3>1. "prompt" \notin Calls /\ "wild" \notin Calls
      BY DEF Calls
    <3>2. QED
      BY <3>1 DEF next, keep
  <2>3. QED
    BY <1>4, <1>11, <2>1, <2>2 DEF HomeOK, Here
<1>14. fine \/ next \in {"prompt", "wild"}
  BY DEF next, Hows
<1>15. fine => next = call /\ keep = from /\ (~BackBefore(call) => there = at)
  BY DEF next, keep, there
<1>16. QED
  BY <1>7, <1>9, <1>10, <1>11, <1>12, <1>13, <1>14, <1>15 DEF Moved

(* A command with a path starts from where the shell is, and the second     *)
(* path of cp and mv from where it was.                                     *)
LEMMA HereArrives ==
  ASSUME ShellInv, NEW s \in Shells, NEW path \in Seq(STRING), NEW lucky
  PROVE  Arrives(Here(s), path, multiple_cd(Here(s), path, lucky))
<1> DEFINE from == Here(s)
<1>1. from.dir = working_directory[s] /\ from.path = current_path[s]
  BY DEF Here, Position
<1>2. Spells(folders, from.path, from.dir)
  BY <1>1 DEF ShellInv, PathOK
<1> HIDE DEF from
<1>3. Arrives(from, path, multiple_cd(from, path, lucky))
  BY <1>2, CdArrives, StoreInv
<1>4. QED
  BY <1>3 DEF from

LEMMA SavedArrives ==
  ASSUME ShellInv, NEW s \in Shells, NEW path \in Seq(STRING), NEW lucky
  PROVE  Arrives(saved[s], path, multiple_cd(saved[s], path, lucky))
<1>1. Spells(folders, saved[s].path, saved[s].dir)
  BY DEF ShellInv, PathOK
<1>2. PICK from : from = saved[s]
  OBVIOUS
<1>3. Arrives(from, path, multiple_cd(from, path, lucky))
  BY <1>1, <1>2, CdArrives, StoreInv
<1>4. QED
  BY <1>2, <1>3

LEMMA CdSound ==
  ASSUME ShellInv, NEW s \in Shells, NEW path \in Seq(STRING), Cd(s, path) PROVE Sound(s)
<1>1. /\ UNCHANGED storeVars /\ task' = task /\ saved' = saved /\ alone' = alone
      /\ \E lucky \in Luck(path) : Settle(s, multiple_cd(Here(s), path, lucky))
  BY DEF Cd
<1>2. PICK lucky \in Luck(path) : Settle(s, multiple_cd(Here(s), path, lucky))
  BY <1>1
<1> DEFINE at == multiple_cd(Here(s), path, lucky)
<1>3. Spells(folders, at.path, at.dir)
  BY HereArrives DEF Arrives
<1>4. Settle(s, at)
  BY <1>2
<1> HIDE DEF at
<1>5. StoreOK' /\ TreeInv' /\ Keeps /\ files' = files
  BY <1>1, StoreUnchanged
<1>6. Moved(s) /\ pc'[s] \in {"prompt", "wild"}
  BY <1>1, <1>3, <1>4, <1>5, Settled DEF Keeps
<1>7. QED
  BY <1>1, <1>5, <1>6, AloneUnchanged, DoneSound

LEMMA LsSound ==
  ASSUME ShellInv, NEW s \in Shells, NEW path \in Seq(STRING), Ls(s, path) PROVE Sound(s)
<1>1. PICK lucky \in Luck(path) :
        LET at == multiple_cd(Here(s), path, lucky)
        IN  /\ Settle(s, at)
            /\ IF at.how = "fine" THEN FS!ReadDirectory(at.dir, Last(at.path), FS!DIR_TABLE_SIZE)
                                  ELSE UNCHANGED storeVars
  BY DEF Ls
<1> DEFINE at == multiple_cd(Here(s), path, lucky)
<1>2. Spells(folders, at.path, at.dir)
  BY HereArrives DEF Arrives
<1>3. /\ Settle(s, at) /\ task' = task /\ saved' = saved /\ alone' = alone
      /\ FS!ReadDirectory(at.dir, Last(at.path), FS!DIR_TABLE_SIZE) \/ UNCHANGED storeVars
  BY <1>1 DEF Ls
<1> HIDE DEF at
<1>4. StoreOK' /\ TreeInv' /\ Keeps /\ files' = files
  <2>1. CASE UNCHANGED storeVars
    BY <2>1, StoreUnchanged
  <2>2. CASE FS!ReadDirectory(at.dir, Last(at.path), FS!DIR_TABLE_SIZE)
    BY <2>2, StoreInv, ReadDirectoryKeeps DEF Keeps
  <2>3. QED
    BY <1>3, <2>1, <2>2
<1>5. Moved(s) /\ pc'[s] \in {"prompt", "wild"}
  BY <1>2, <1>3, <1>4, Settled DEF Keeps
<1>6. QED
  BY <1>3, <1>4, <1>5, AloneUnchanged, DoneSound

LEMMA FirstCalls ==
  ASSUME NEW c \in Commands
  PROVE  /\ FirstCall(c) \in {"mkdir", "cat", "exec", "read", "remove"}
         /\ FirstCall(c) = "mkdir" => c.cmd = "mkdir"
         /\ FirstCall(c) = "read" => c.cmd \in {"cp", "mv"}
         /\ FirstCall(c) = "remove" => c.cmd = "rm"
<1>1. c.cmd \in {"mkdir", "cat", "exec", "cp", "mv", "rm"}
  BY TypedPlaces
<1>2. QED
  BY <1>1 DEF FirstCall

LEMMA BeginSound ==
  ASSUME ShellInv, NEW s \in Shells, NEW c \in Commands, Begin(s, c) PROVE Sound(s)
<1>1. PICK lucky \in Luck(c.src.path) :
        LET at == multiple_cd(Here(s), c.src.path, lucky)
        IN  /\ ~(NamesRoot(c) /\ at.how = "fine")
            /\ Go(s, Here(s), at, FirstCall(c), Task(c, <<>>, Root))
  BY DEF Begin
<1> DEFINE at == multiple_cd(Here(s), c.src.path, lucky)
           from == Here(s)
           t == Task(c, <<>>, Root)
<1>2. c.src.path \in Seq(STRING)
  BY TypedPlaces
<1>3. Arrives(from, c.src.path, at)
  BY <1>2, HereArrives
<1>4. /\ pc[s] = "prompt" /\ ~Refused(c) /\ UNCHANGED storeVars /\ alone' = alone
      /\ ~(NamesRoot(c) /\ at.how = "fine") /\ Go(s, from, at, FirstCall(c), t)
  BY <1>1 DEF Begin
<1>5. from = home[s] /\ from.dir = working_directory[s] /\ from.path = current_path[s]
  BY <1>4 DEF ShellInv, HomeOK, Here, Position
<1>6. IsTask(t) /\ t.command = c
  BY ShellAssumption DEF IsTask, Task
<1>7. Spells(folders, from.path, from.dir)
  BY <1>5 DEF ShellInv, PathOK
<1>8. StoreOK' /\ TreeInv' /\ Keeps /\ files' = files /\ folders' = folders
  BY <1>4, StoreUnchanged
<1>9. FirstCall(c) \in Calls
  BY FirstCalls DEF Calls
<1> HIDE DEF at, from, t
<1>10. /\ Moved(s)
       /\ \/ pc'[s] \in {"prompt", "wild"}
          \/ /\ pc'[s] = FirstCall(c) /\ at.how = "fine" /\ saved'[s] = from
             /\ task'[s].command = c
             /\ ~BackBefore(FirstCall(c)) => working_directory'[s] = at.dir
  BY <1>3, <1>4, <1>5, <1>6, <1>7, <1>8, <1>9, Gone DEF Arrives
<1>11. AloneRight(s)
  BY <1>4, <1>8, AloneUnchanged
<1>12. CASE pc'[s] \in {"prompt", "wild"}
  BY <1>8, <1>10, <1>11, <1>12, DoneSound
<1>13. CASE /\ pc'[s] = FirstCall(c) /\ at.how = "fine" /\ saved'[s] = from
            /\ task'[s].command = c
            /\ ~BackBefore(FirstCall(c)) => working_directory'[s] = at.dir
  <2>1. TaskOK(s)'
    BY <1>4, <1>13, FirstCalls DEF TaskOK
  <2>2. ReadOK(s)'
    <3>1. SUFFICES ASSUME pc'[s] = "read"
                   PROVE  Resolve(folders, from.dir, c.src.path) = {working_directory'[s]}
      BY <1>8, <1>13 DEF ReadOK
    <3>2. working_directory'[s] = at.dir
      BY <1>13, <3>1 DEF BackBefore
    <3>3. QED
      BY <1>3, <1>13, <3>2 DEF Arrives
  <2>3. MoveOK(s)'
    BY <1>13, FirstCalls DEF MoveOK
  <2>4. QED
    BY <1>8, <1>10, <1>11, <2>1, <2>2, <2>3, OneShell
<1>14. QED
  BY <1>10, <1>12, <1>13

LEMMA MkdirRefusedSound ==
  ASSUME ShellInv, NEW s \in Shells, NEW c \in Commands, MkdirRefused(s, c) PROVE Sound(s)
<1>1. PICK lucky \in Luck(c.src.path) : Settle(s, multiple_cd(Here(s), c.src.path, lucky))
  BY DEF MkdirRefused
<1> DEFINE at == multiple_cd(Here(s), c.src.path, lucky)
<1>2. c.src.path \in Seq(STRING)
  BY TypedPlaces
<1>3. Spells(folders, at.path, at.dir)
  BY <1>2, HereArrives DEF Arrives
<1>4. Settle(s, at) /\ UNCHANGED storeVars /\ task' = task /\ saved' = saved /\ alone' = alone
  BY <1>1 DEF MkdirRefused
<1> HIDE DEF at
<1>5. StoreOK' /\ TreeInv' /\ Keeps /\ files' = files
  BY <1>4, StoreUnchanged
<1>6. Moved(s) /\ pc'[s] \in {"prompt", "wild"}
  BY <1>3, <1>4, <1>5, Settled DEF Keeps
<1>7. QED
  BY <1>4, <1>5, <1>6, AloneUnchanged, DoneSound

(* The last call of a command, and back.                                    *)
LEMMA EndSound ==
  ASSUME ShellInv, NEW s \in Shells, pc[s] \in Calls, End(s, saved[s]),
         StoreOK', TreeInv', Keeps, AloneRight(s)
  PROVE  Sound(s)
BY Ended, DoneSound DEF Keeps

LEMMA MkdirSound == ASSUME ShellInv, NEW s \in Shells, Mkdir(s) PROVE Sound(s)
<1> DEFINE c == task[s].command
<1>1. /\ pc[s] = "mkdir" /\ FS!MakeFolder(working_directory[s], c.src.name)
      /\ Disturb(s) /\ End(s, saved[s])
  BY DEF Mkdir
<1>2. c \in Commands /\ c.cmd = "mkdir" /\ ~NamesRoot(c)
  BY <1>1 DEF ShellInv, TaskOK, Calls
<1>3. c.src.name \in DirNames /\ c.src.name # RootName
  BY <1>2, ShellAssumption DEF NamesRoot
<1>4. working_directory[s] \in Ids /\ Stands(folders, working_directory[s])
  <2>1. Spells(folders, current_path[s], working_directory[s])
    BY DEF ShellInv, PathOK
  <2>2. QED
    BY <2>1, EndNamed, StoreInv
<1>5. StoreOK' /\ TreeInv' /\ Keeps
  BY <1>1, <1>3, <1>4, StoreInv, MakeFolderKeeps DEF Keeps
<1>6. pc[s] \in Calls
  BY <1>1 DEF Calls
<1>7. QED
  BY <1>1, <1>5, <1>6, Disturbed, EndSound

LEMMA CatSound == ASSUME ShellInv, NEW s \in Shells, Cat(s) PROVE Sound(s)
<1> DEFINE src == task[s].command.src
<1>1. /\ pc[s] = "cat" /\ FS!Read(working_directory[s], src.name, src.ext, ReadSize)
      /\ End(s, saved[s]) /\ alone' = alone
  BY DEF Cat
<1>2. StoreOK' /\ TreeInv' /\ Keeps /\ files' = files
  BY <1>1, StoreInv, ReadKeeps DEF Keeps
<1>3. pc[s] \in Calls
  BY <1>1 DEF Calls
<1>4. QED
  BY <1>1, <1>2, <1>3, AloneUnchanged, EndSound

(* exec has come back before its call.                                      *)
LEMMA ExecSound == ASSUME ShellInv, NEW s \in Shells, Exec(s) PROVE Sound(s)
<1>1. /\ pc[s] = "exec" /\ FS!Read(task[s].dir, task[s].command.src.name, NoExt, MaxSize)
      /\ \/ pc' = [pc EXCEPT ![s] = "prompt"]
         \/ \E t \in Shells : pc[t] = "off" /\ pc' = [pc EXCEPT ![s] = "prompt", ![t] = "start"]
      /\ task' = [task EXCEPT ![s] = NoTask] /\ saved' = [saved EXCEPT ![s] = Beginning]
      /\ working_directory' = working_directory /\ current_path' = current_path
      /\ home' = home /\ alone' = alone
  BY DEF Exec
<1>2. StoreOK' /\ TreeInv' /\ Keeps /\ files' = files
  BY <1>1, StoreInv, ReadKeeps DEF Keeps
<1>3. ShellTypes /\ PathOK(s) /\ HomeOK(s)
  BY DEF ShellInv, TypeOK, ShellTypes
<1>4. /\ pc' \in [Shells -> Prompts \cup Calls \cup {"wild"}] /\ pc'[s] = "prompt"
      /\ \A t \in Shells : t # s => pc'[t] = pc[t] \/ (pc[t] = "off" /\ pc'[t] = "start")
  BY <1>1, <1>3 DEF ShellTypes, Prompts
<1>5. ShellTypes'
  BY <1>1, <1>3, <1>4, NoTaskType, BeginningSound DEF ShellTypes
<1>6. OthersUntouched(s)
  BY <1>1, <1>3, <1>4 DEF ShellTypes, OthersUntouched, Untouched
<1>7. PathOK(s)'
  <2>1. saved'[s] = Beginning
    BY <1>1, <1>3 DEF ShellTypes
  <2>2. QED
    BY <1>1, <1>2, <1>3, <2>1, BeginningSound, StillSpells DEF PathOK, Keeps
<1>8. HomeOK(s)'
  BY <1>1, <1>3, <1>4 DEF HomeOK, Here, Calls
<1>9. Moved(s) /\ AloneRight(s)
  BY <1>1, <1>2, <1>5, <1>6, <1>7, <1>8, AloneUnchanged DEF Moved
<1>10. QED
  BY <1>2, <1>4, <1>9, DoneSound

(* What is read fills the buffer.                                           *)
LEMMA PaddedBuffer ==
  ASSUME NEW data \in Seq(Contents)
  PROVE  Padded(data) \in Seq(Contents) /\ Len(Padded(data)) = ReadSize
<1>1. ASSUME NEW k \in 1 .. ReadSize PROVE (IF k <= Len(data) THEN data[k] ELSE Zero) \in Contents
  <2>1. Zero \in Contents
    BY DEF Contents
  <2>2. k <= Len(data) => k \in 1 .. Len(data)
    BY DEF ReadSize
  <2>3. QED
    BY <2>1, <2>2
<1>2. Padded(data) \in [1 .. ReadSize -> Contents]
  BY <1>1 DEF Padded
<1>3. ReadSize \in Nat
  BY DEF ReadSize
<1>4. QED
  BY <1>2, <1>3

LEMMA CopyReadSound == ASSUME ShellInv, NEW s \in Shells, CopyRead(s) PROVE Sound(s)
<1> DEFINE c    == task[s].command
           src  == c.src
           dest == c.dest
           call == IF dest.ext = NoExt THEN "into" ELSE "write"
           t(x) == [task[s] EXCEPT !.data = Padded(x.data)]
<1>1. /\ pc[s] = "read" /\ FS!Read(working_directory[s], src.name, src.ext, ReadSize)
      /\ \/ End(s, saved[s]) /\ alone' = alone
         \/ /\ result' = 0 /\ alone' = [alone EXCEPT ![s] = TRUE]
            /\ \E lucky \in Luck(dest.path), x \in FS!FilesIn(working_directory[s]) :
                 /\ x.name = src.name /\ x.ext = src.ext
                 /\ Go(s, saved[s], multiple_cd(saved[s], dest.path, lucky), call, t(x))
  BY DEF CopyRead
<1>2. StoreOK' /\ TreeInv' /\ Keeps /\ files' = files /\ folders' = folders
  BY <1>1, StoreInv, ReadKeeps DEF Keeps
<1>3. pc[s] \in Calls /\ TaskOK(s) /\ HomeOK(s) /\ ReadOK(s) /\ PathOK(s)
  BY <1>1 DEF Calls, ShellInv
<1>4. c \in Commands /\ ~Refused(c) /\ c.cmd \in {"cp", "mv"} /\ saved[s] = home[s]
  BY <1>1, <1>3 DEF TaskOK, HomeOK
<1>5. CASE End(s, saved[s]) /\ alone' = alone
  BY <1>2, <1>3, <1>5, AloneUnchanged, EndSound
<1>6. ASSUME result' = 0, alone' = [alone EXCEPT ![s] = TRUE],
             NEW lucky \in Luck(dest.path), NEW x \in FS!FilesIn(working_directory[s]),
             x.name = src.name, x.ext = src.ext,
             Go(s, saved[s], multiple_cd(saved[s], dest.path, lucky), call, t(x))
      PROVE  Sound(s)
  <2> DEFINE at == multiple_cd(saved[s], dest.path, lucky)
             from == saved[s]
  <2>1. dest.path \in Seq(STRING)
    BY <1>4, TypedPlaces
  <2>2. Spells(folders, at.path, at.dir) /\ at.how \in Hows
    BY <2>1, SavedArrives DEF Arrives
  <2>3. x \in files /\ x.folder = working_directory[s] /\ x.data \in Seq(Contents)
    BY StoreInv DEF FS!FilesIn, StoreOK, FilesInv
  <2>4. task[s] \in [command : Commands \cup {NoCommand}, data : Seq(Contents), dir : Ids]
    BY DEF ShellInv, TypeOK
  <2>5. IsTask(t(x)) /\ t(x).command = c /\ t(x).data = Padded(x.data) /\ Len(Padded(x.data)) = ReadSize
    BY <1>4, <2>3, <2>4, PaddedBuffer DEF IsTask
  <2>6. call \in Calls
    BY DEF Calls
  <2>7. Spells(folders, from.path, from.dir) /\ from = home[s]
    BY <1>3, <1>4 DEF PathOK
  <2> DEFINE todo == t(x)
  <2>8. Go(s, from, at, call, todo) /\ IsTask(todo)
    BY <1>6, <2>5
  <2> HIDE DEF at, from, call, todo
  <2>9. /\ Moved(s)
        /\ \/ pc'[s] \in {"prompt", "wild"}
           \/ /\ pc'[s] = call /\ saved'[s] = from
              /\ task'[s].command = todo.command /\ task'[s].data = todo.data
    BY <1>2, <2>2, <2>6, <2>7, <2>8, Gone
  <2>10. AloneRight(s)
    BY <1>2, <1>6 DEF AloneRight, Unaware, ShellInv, TypeOK
  <2>11. CASE pc'[s] \in {"prompt", "wild"}
    BY <1>2, <2>9, <2>10, <2>11, DoneSound
  <2>12. CASE /\ pc'[s] = call /\ saved'[s] = from
              /\ task'[s].command = todo.command /\ task'[s].data = todo.data
    <3>1. /\ pc'[s] \in {"write", "into"} /\ saved'[s] = saved[s]
          /\ task'[s].command = c /\ task'[s].data = Padded(x.data)
      BY <2>5, <2>12 DEF call, from, todo
    <3>2. TaskOK(s)'
      BY <1>4, <2>5, <3>1 DEF TaskOK
    <3>3. ReadOK(s)'
      BY <3>1 DEF ReadOK
    <3>4. IsSource(s, x)'
      <4>1. Len(x.data) <= ReadSize
        <5>1. Len(x.data) \in Nat /\ ReadSize \in Nat
          BY <2>3 DEF ReadSize
        <5>2. ~ \E y \in FS!FilesIn(working_directory[s]) : y.name = src.name /\ y.ext = src.ext /\ Len(y.data) > ReadSize
          BY <1>1, <1>6 DEF FS!Read, FS!ReadCode, FS!Answer
        <5>3. QED
          BY <1>6, <5>1, <5>2
      <4>2. QED
        BY <1>2, <1>6, <2>3, <3>1, <4>1 DEF IsSource
    <3>5. Resolve(folders, saved[s].dir, src.path) = {x.folder}
      BY <1>1, <1>3, <2>3 DEF ReadOK
    <3>6. Copying(s)'
      BY <1>2, <2>3, <3>1, <3>4, <3>5 DEF Copying
    <3>7. MoveOK(s)'
      BY <3>1, <3>6 DEF MoveOK
    <3>8. QED
      BY <1>2, <2>9, <2>10, <3>2, <3>3, <3>7, OneShell
  <2>13. QED
    BY <2>9, <2>11, <2>12
<1>7. QED
  BY <1>1, <1>5, <1>6

(* After the copy: mv goes to its source once more.                         *)
LEMMA CopiedSound ==
  ASSUME ShellInv, NEW s \in Shells, pc[s] \in {"write", "into"}, Disturb(s),
         StoreOK', TreeInv', folders' = folders, files \subseteq files', NEW code, CopyEnds(s, code),
         code = 0 => \E y \in files' : y \notin files /\ y.data = task[s].data
  PROVE  Sound(s)
<1> DEFINE c == task[s].command
<1>1. pc[s] \in Calls /\ TaskOK(s) /\ HomeOK(s) /\ PathOK(s) /\ MoveOK(s)
  BY DEF Calls, ShellInv
<1>2. c \in Commands /\ ~Refused(c) /\ saved[s] = home[s]
  BY <1>1 DEF TaskOK, HomeOK
<1>3. AloneRight(s) /\ alone'[s] = alone[s] /\ Keeps
  BY Disturbed DEF Keeps
<1>4. CASE End(s, saved[s])
  BY <1>1, <1>3, <1>4, EndSound
<1>5. CASE Removes(s, code)
  <2>1. PICK lucky \in Luck(c.src.path) :
          Go(s, saved[s], multiple_cd(saved[s], c.src.path, lucky), "remove", task[s])
    BY <1>5 DEF CopyEnds
  <2> DEFINE at == multiple_cd(saved[s], c.src.path, lucky)
             from == saved[s]
             todo == task[s]
  <2>2. c.src.path \in Seq(STRING)
    BY <1>2, TypedPlaces
  <2>3. Arrives(from, c.src.path, at)
    BY <2>2, SavedArrives
  <2>4. Spells(folders, at.path, at.dir) /\ at.how \in Hows
    BY <2>3 DEF Arrives
  <2>5. IsTask(todo)
    BY <1>2 DEF IsTask, ShellInv, TypeOK
  <2>6. Spells(folders, from.path, from.dir) /\ from = home[s]
    BY <1>1, <1>2 DEF PathOK
  <2>7. Go(s, from, at, "remove", todo) /\ "remove" \in Calls /\ ~BackBefore("remove")
    BY <2>1 DEF Calls, BackBefore
  <2>8. c.cmd = "mv" /\ code = 0
    BY <1>5 DEF Removes
  <2> HIDE DEF at, from, todo
  <2>9. /\ Moved(s)
        /\ \/ pc'[s] \in {"prompt", "wild"}
           \/ /\ pc'[s] = "remove" /\ at.how = "fine"
              /\ task'[s].command = todo.command /\ task'[s].data = todo.data
              /\ working_directory'[s] = at.dir
    BY <2>4, <2>5, <2>6, <2>7, Gone
  <2>10. CASE pc'[s] \in {"prompt", "wild"}
    BY <1>3, <2>9, <2>10, DoneSound
  <2>11. CASE /\ pc'[s] = "remove" /\ at.how = "fine"
              /\ task'[s].command = todo.command /\ task'[s].data = todo.data
              /\ working_directory'[s] = at.dir
    <3>1. task'[s].command = c /\ task'[s].data = task[s].data
      BY <2>11 DEF todo
    <3>2. TaskOK(s)' /\ ReadOK(s)'
      BY <1>2, <2>8, <2>11, <3>1 DEF TaskOK, ReadOK
    <3>3. alone'[s] => Removing(s)'
      <4>1. SUFFICES ASSUME alone[s] PROVE Removing(s)'
        BY <1>3
      <4>2. PICK x \in files : IsSource(s, x) /\ Resolve(folders, saved[s].dir, c.src.path) = {x.folder}
        BY <1>1, <4>1 DEF MoveOK, Copying
      <4>3. PICK y \in files' : y \notin files /\ y.data = task[s].data
        BY <2>8
      <4>4. x.folder = at.dir
        BY <2>3, <2>11, <4>2 DEF Arrives, from
      <4>5. IsSource(s, x)' /\ x \in files' /\ y # x
        BY <3>1, <4>2, <4>3 DEF IsSource
      <4>6. QED
        BY <2>11, <3>1, <4>3, <4>4, <4>5 DEF Removing
    <3>4. MoveOK(s)'
      BY <2>11, <3>3 DEF MoveOK
    <3>5. QED
      BY <1>3, <2>9, <3>2, <3>4, OneShell
  <2>12. QED
    BY <2>9, <2>10, <2>11
<1>6. QED
  BY <1>4, <1>5 DEF CopyEnds

LEMMA CopyWriteSound == ASSUME ShellInv, NEW s \in Shells, CopyWrite(s) PROVE Sound(s)
<1> DEFINE c    == task[s].command
           dest == c.dest
<1>1. /\ pc[s] = "write" /\ FS!Write(working_directory[s], dest.name, dest.ext, task[s].data)
      /\ CopyEnds(s, result') /\ Disturb(s)
  BY DEF CopyWrite
<1>2. c \in Commands /\ c.cmd \in {"cp", "mv"} /\ Len(task[s].data) = ReadSize
  BY <1>1 DEF ShellInv, TaskOK, Calls
<1>3. task[s].data \in Seq(Contents) /\ Len(task[s].data) \in 1 .. MaxSize /\ working_directory[s] \in Ids
  BY <1>2 DEF ShellInv, TypeOK, ReadSize, MaxSize
<1>4. dest.name \in Names /\ dest.ext \in Exts
  BY <1>2, ShellAssumption
<1>5. /\ StoreOK' /\ TreeInv' /\ folders' = folders /\ files \subseteq files'
      /\ result' = 0 => \E y \in files' : y \notin files /\ y.data = task[s].data
  BY <1>1, <1>3, <1>4, StoreInv, WriteKeeps
<1>6. PICK code : code = result' /\ CopyEnds(s, code)
  BY <1>1
<1>7. QED
  BY <1>1, <1>5, <1>6, CopiedSound

LEMMA CopyIntoSound == ASSUME ShellInv, NEW s \in Shells, CopyInto(s) PROVE Sound(s)
<1> DEFINE c     == task[s].command
           named == {d \in FS!FoldersIn(task[s].dir) : d.name = c.dest.name}
<1>1. pc[s] = "into" /\ Disturb(s)
  BY DEF CopyInto
<1>2. PICK lucky \in Luck(<<c.dest.name>>) :
        LET into == {d \in named : Recognised(d.name, lucky)}
        IN  IF into = {} THEN UNCHANGED storeVars /\ CopyEnds(s, 4)
            ELSE /\ FS!Write((CHOOSE d \in into : TRUE).id, c.src.name, c.src.ext, task[s].data)
                 /\ CopyEnds(s, result')
  BY DEF CopyInto
<1> DEFINE into == {d \in named : Recognised(d.name, lucky)}
           dir  == (CHOOSE d \in into : TRUE).id
<1>3. \/ UNCHANGED storeVars /\ CopyEnds(s, 4)
      \/ /\ into # {} /\ FS!Write(dir, c.src.name, c.src.ext, task[s].data)
         /\ CopyEnds(s, result')
  BY <1>2
<1>4. c \in Commands /\ c.cmd \in {"cp", "mv"} /\ Len(task[s].data) = ReadSize
  BY <1>1 DEF ShellInv, TaskOK, Calls
<1>5. task[s].data \in Seq(Contents) /\ Len(task[s].data) \in 1 .. MaxSize
  BY <1>4 DEF ShellInv, TypeOK, ReadSize, MaxSize
<1>6. c.src.name \in Names /\ c.src.ext \in Exts
  BY <1>4, ShellAssumption
<1>7. into # {} => dir \in Ids
  <2>1. \A d \in into : d.id \in Ids
    BY StoreInv DEF FS!FoldersIn, StoreOK, FilesInv
  <2>2. into # {} => (CHOOSE d \in into : TRUE) \in into
    OBVIOUS
  <2> HIDE DEF into
  <2>3. QED
    BY <2>1, <2>2
<1> HIDE DEF into, dir
<1>8. CASE UNCHANGED storeVars /\ CopyEnds(s, 4)
  <2>1. StoreOK' /\ TreeInv' /\ folders' = folders /\ files' = files
    BY <1>8, StoreUnchanged
  <2>2. PICK code : code = 4 /\ CopyEnds(s, code) /\ code # 0
    BY <1>8
  <2>3. QED
    BY <1>1, <2>1, <2>2, CopiedSound
<1>9. CASE /\ into # {} /\ FS!Write(dir, c.src.name, c.src.ext, task[s].data)
           /\ CopyEnds(s, result')
  <2>1. /\ StoreOK' /\ TreeInv' /\ folders' = folders /\ files \subseteq files'
        /\ result' = 0 => \E y \in files' : y \notin files /\ y.data = task[s].data
    BY <1>5, <1>6, <1>7, <1>9, StoreInv, WriteKeeps
  <2>2. PICK code : code = result' /\ CopyEnds(s, code)
    BY <1>9
  <2>3. QED
    BY <1>1, <2>1, <2>2, CopiedSound
<1>10. QED
  BY <1>3, <1>8, <1>9

LEMMA RmSound == ASSUME ShellInv, NEW s \in Shells, Rm(s) PROVE Sound(s)
<1> DEFINE c == task[s].command
<1>1. /\ pc[s] = "remove" /\ FS!Delete(working_directory[s], c.src.name, c.src.ext)
      /\ Disturb(s) /\ End(s, saved[s])
  BY DEF Rm
<1>2. ~Refused(c) /\ c.cmd \in {"rm", "mv"}
  BY <1>1 DEF ShellInv, TaskOK, Calls
<1>3. c.src.ext # NoExt
  BY <1>2 DEF Refused
<1>4. StoreOK' /\ TreeInv' /\ Keeps
  BY <1>1, <1>3, StoreInv, DeleteKeeps DEF Keeps
<1>5. pc[s] \in Calls
  BY <1>1 DEF Calls
<1>6. QED
  BY <1>1, <1>4, <1>5, Disturbed, EndSound

LEMMA StartSound == ASSUME ShellInv, NEW s \in Shells, Start(s) PROVE Sound(s)
<1> DEFINE data == <<Bytes("testcat", "txt", 1)>>
           at == At(Root, <<RootName>>, RootName)
<1>1. /\ FS!Write(Root, "testcat", "txt", data) /\ Settle(s, at) /\ Disturb(s)
      /\ task' = task /\ saved' = saved
  BY DEF Start
<1>2. data \in Seq(Contents) /\ Len(data) \in 1 .. MaxSize
  <2>1. Bytes("testcat", "txt", 1) \in Contents
    BY DEF Bytes, Contents, Names, Exts, MaxSize
  <2>2. QED
    BY <2>1 DEF MaxSize
<1>3. "testcat" \in Names /\ "txt" \in Exts /\ Root \in Ids
  BY ShellAssumption DEF Names, Exts
<1>4. Spells(folders, at.path, at.dir)
  BY RootSpelled DEF At
<1> HIDE DEF data, at
<1>5. StoreOK' /\ TreeInv' /\ Keeps
  BY <1>1, <1>2, <1>3, StoreInv, WriteKeeps DEF Keeps
<1>6. Moved(s) /\ pc'[s] \in {"prompt", "wild"}
  BY <1>1, <1>4, <1>5, Settled DEF Keeps
<1>7. QED
  BY <1>1, <1>5, <1>6, Disturbed, DoneSound

-----------------------------------------------------------------------------
(* All steps                                                                *)

LEMMA StepSound ==
  ASSUME ShellInv, NEW s \in Shells, Command(s) \/ Call(s) \/ Start(s)
  PROVE  Sound(s)
<1>1. Paths \subseteq Seq(STRING)
  BY ShellAssumption
<1>2. Command(s) => Sound(s)
  BY <1>1, CdSound, LsSound, BeginSound, MkdirRefusedSound DEF Command
<1>3. Call(s) => Sound(s)
  BY MkdirSound, CatSound, ExecSound, CopyReadSound, CopyWriteSound, CopyIntoSound, RmSound DEF Call
<1>4. QED
  BY <1>2, <1>3, StartSound

LEMMA NextSound == ShellInv /\ [Next]_vars => ShellInv' /\ Keeps
<1> SUFFICES ASSUME ShellInv, [Next]_vars PROVE ShellInv' /\ Keeps
  OBVIOUS
<1>1. CASE Next
  BY <1>1, StepSound DEF Next, Sound
<1>2. CASE UNCHANGED vars
  <2>1. /\ UNCHANGED storeVars
        /\ working_directory' = working_directory /\ current_path' = current_path
        /\ pc' = pc /\ task' = task /\ saved' = saved /\ home' = home /\ alone' = alone
    BY <1>2 DEF vars, shellVars
  <2>2. TreeInv' /\ Keeps /\ files' = files /\ StoreOK'
    BY <2>1, StoreUnchanged
  <2>3. TypeOK' /\ FilesInv'
    BY <2>1, <2>2 DEF ShellInv, TypeOK, StoreOK
  <2>4. \A t \in Shells : Untouched(t) /\ Unaware(t)
    BY <2>1, <2>2 DEF Untouched, Unaware
  <2>5. QED
    BY <2>2, <2>3, <2>4, UntouchedOK DEF ShellInv, Keeps
<1>3. QED
  BY <1>1, <1>2

LEMMA InitSound == Init => ShellInv
<1> SUFFICES ASSUME Init PROVE ShellInv
  OBVIOUS
<1>1. TypeOK
  <2>1. ShellImage \in [folder : Ids, name : Names, ext : Exts, data : Seq(Contents)]
    <3>1. [k \in 1 .. MaxSize |-> Bytes("shell", NoExt, k)] \in Seq(Contents)
      <4>1. \A k \in 1 .. MaxSize : Bytes("shell", NoExt, k) \in Contents
        BY DEF Bytes, Contents, Names, Exts, NoExt
      <4>2. [k \in 1 .. MaxSize |-> Bytes("shell", NoExt, k)] \in [1 .. MaxSize -> Contents]
        BY <4>1
      <4>3. MaxSize \in Nat
        BY DEF MaxSize
      <4>4. QED
        BY <4>2, <4>3
    <3>2. QED
      BY <3>1, ShellAssumption DEF ShellImage, File, Names, Exts
  <2>2. Len(ShellImage.data) = MaxSize /\ MaxSize \in 1 .. MaxSize
    BY DEF ShellImage, File, MaxSize
  <2>3. <<RootName>> \in PathTexts
    BY DEF PathTexts
  <2>4. files \subseteq [folder : Ids, name : Names, ext : Exts, data : Seq(Contents)] /\ \A x \in files : Len(x.data) \in 1 .. MaxSize
    BY <2>1, <2>2 DEF Init
  <2>5. working_directory \in [Shells -> Ids] /\ current_path \in [Shells -> PathTexts]
    BY <2>3, ShellAssumption DEF Init
  <2>6. pc \in [Shells -> Prompts \cup Calls \cup {"wild"}]
    BY DEF Init, Prompts
  <2>7. /\ task \in [Shells -> [command : Commands \cup {NoCommand}, data : Seq(Contents), dir : Ids]]
        /\ saved \in [Shells -> Positions] /\ home \in [Shells -> Positions]
    BY NoTaskType, BeginningSound DEF Init
  <2>8. QED
    BY <2>4, <2>5, <2>6, <2>7 DEF Init, TypeOK
<1>2. TreeInv /\ FilesInv
  BY DEF Init, TreeInv, IsTree, FilesInv
<1>3. ASSUME NEW s \in Shells PROVE PathOK(s) /\ HomeOK(s) /\ TaskOK(s) /\ ReadOK(s) /\ MoveOK(s)
  <2>1. /\ working_directory[s] = Root /\ current_path[s] = <<RootName>>
        /\ saved[s] = Beginning /\ pc[s] \in {"off", "start"}
    BY DEF Init
  <2>2. PathOK(s)
    BY <2>1, RootSpelled, BeginningSound DEF PathOK
  <2>3. QED
    BY <2>1, <2>2 DEF HomeOK, TaskOK, ReadOK, MoveOK, Calls
<1>4. QED
  BY <1>1, <1>2, <1>3 DEF ShellInv

(* ShellInv holds between any two system calls of any number of shells.     *)
THEOREM ShellInvHolds == Spec => []ShellInv
<1>1. Init => ShellInv
  BY InitSound
<1>2. ShellInv /\ [Next]_vars => ShellInv'
  BY NextSound
<1>3. QED
  BY <1>1, <1>2, PTL DEF Spec

(* Working directory, path, saved position, task and files keep their types *)
(* through all commands of all shells.                                      *)
THEOREM ShellTypeCorrect == Spec => []TypeOK
<1>1. ShellInv => TypeOK
  BY DEF ShellInv
<1>2. QED
  BY <1>1, ShellInvHolds, PTL

(* The prompt tells the truth: the path shown leads to the folder worked in.*)
THEOREM PromptTellsTruth == Spec => []PathSpellsDirectory
<1>1. ShellInv => PathSpellsDirectory
  <2>1. ASSUME ShellInv, NEW s \in Shells
        PROVE  Resolve(folders, Root, current_path[s]) = {working_directory[s]}
    <3>1. PICK path, dir : path = current_path[s] /\ dir = working_directory[s]
      OBVIOUS
    <3>2. Spells(folders, path, dir)
      BY <2>1, <3>1 DEF ShellInv, PathOK
    <3>3. QED
      BY <2>1, <3>1, <3>2, StoreInv, SpelledFollows
  <2>2. QED
    BY <2>1 DEF PathSpellsDirectory
<1>2. QED
  BY <1>1, ShellInvHolds, PTL

(* cd goes where its path leads, or stays where it was in folder and path;  *)
(* it stays where the path leads somewhere only if a name in it fills its   *)
(* buffer.                                                                  *)
THEOREM CdIsRight == Spec => CdGoesWhereItSays
<1> DEFINE Right ==
       \A s \in Shells, path \in Paths :
         Cd(s, path) /\ Plain(path) /\ pc'[s] # "wild" =>
           LET there == Resolve(folders, working_directory[s], path)
           IN  \/ there # {} /\ {working_directory'[s]} = there
               \/ /\ there = {} \/ ~Sure(path)
                  /\ working_directory'[s] = working_directory[s] /\ current_path'[s] = current_path[s]
<1>1. ShellInv => Right
  <2> SUFFICES ASSUME ShellInv, NEW s \in Shells, NEW path \in Paths, Cd(s, path), pc'[s] # "wild"
               PROVE  LET there == Resolve(folders, working_directory[s], path)
                      IN  \/ there # {} /\ {working_directory'[s]} = there
                          \/ /\ there = {} \/ ~Sure(path)
                             /\ working_directory'[s] = working_directory[s] /\ current_path'[s] = current_path[s]
    OBVIOUS
  <2>1. PICK lucky \in Luck(path) : Settle(s, multiple_cd(Here(s), path, lucky))
    BY DEF Cd
  <2> DEFINE at == multiple_cd(Here(s), path, lucky)
  <2>2. path \in Seq(STRING)
    BY ShellAssumption
  <2>3. Arrives(Here(s), path, at)
    BY <2>2, HereArrives
  <2>4. /\ working_directory' = [working_directory EXCEPT ![s] = at.dir]
        /\ current_path' = [current_path EXCEPT ![s] = at.path]
        /\ pc' = [pc EXCEPT ![s] = IF at.how = "wild" THEN "wild" ELSE "prompt"]
    BY <2>1 DEF Settle, Move
  <2>5. Here(s).dir = working_directory[s] /\ Here(s).path = current_path[s]
    BY DEF Here, Position
  <2> HIDE DEF at
  <2>6. working_directory'[s] = at.dir /\ current_path'[s] = at.path /\ at.how # "wild"
    BY <2>4 DEF ShellInv, TypeOK
  <2>7. QED
    BY <2>3, <2>5, <2>6 DEF Arrives, Hows
<1> HIDE DEF Right
<1>2. Spec => [][Right]_vars
  BY <1>1, ShellInvHolds, PTL DEF Spec
<1>3. QED
  BY <1>2 DEF Right, CdGoesWhereItSays

(* Whatever its commands on files have done, and whichever of their calls   *)
(* failed, a shell asks for the next command where cd, ls, main or a        *)
(* refused mkdir has put it.                                                *)
THEOREM FileCommandsStayPut == Spec => []FileCommandsStay
<1>1. ShellInv => FileCommandsStay
  BY DEF ShellInv, HomeOK, FileCommandsStay
<1>2. QED
  BY <1>1, ShellInvHolds, PTL

(* No command removes a folder or a file without extension.                 *)
THEOREM FoldersAreKept == Spec => FoldersStay
<1>1. ShellInv /\ [Next]_vars =>
        [folders \subseteq folders' /\ {x \in files : x.ext = NoExt} \subseteq files']_vars
  BY NextSound DEF Keeps
<1>2. QED
  BY <1>1, ShellInvHolds, PTL DEF Spec, FoldersStay

(* Filling up the buffer adds nothing to what a file says.                  *)
LEMMA PaddedSaysTheSame ==
  ASSUME NEW data \in Seq(Contents), Len(data) <= ReadSize
  PROVE  Text(Padded(data)) = Text(data)
<1>1. PICK n \in Nat : n = Len(data) /\ n <= ReadSize
  OBVIOUS
<1> DEFINE pad == Padded(data)
<1>2. Len(pad) = ReadSize /\ ReadSize \in Nat
  BY PaddedBuffer DEF ReadSize
<1>3. \A k \in 1 .. ReadSize : pad[k] = IF k <= n THEN data[k] ELSE Zero
  BY <1>1 DEF Padded
<1> HIDE DEF pad
<1>4. {k \in 1 .. Len(pad) : pad[k] # Zero} = {k \in 1 .. Len(data) : data[k] # Zero}
  <2>1. \A k \in 1 .. ReadSize : pad[k] # Zero => k \in 1 .. n /\ pad[k] = data[k]
    BY <1>1, <1>2, <1>3
  <2>2. \A k \in 1 .. n : k \in 1 .. ReadSize /\ pad[k] = data[k]
    BY <1>1, <1>2, <1>3
  <2>3. QED
    BY <1>1, <1>2, <2>1, <2>2
<1>5. \A k \in {j \in 1 .. Len(data) : data[j] # Zero} : pad[k] = data[k]
  BY <1>1, <1>2, <1>3
<1>6. QED
  BY <1>4, <1>5 DEF Text, pad

(* Only the call that removes ends the removal.                             *)
LEMMA RemovalIsRm ==
  ASSUME ShellInv, Next, NEW s \in Shells, pc[s] = "remove", pc'[s] # "remove"
  PROVE  Rm(s)
<1>1. PICK t \in Shells : Command(t) \/ Call(t) \/ Start(t)
  BY DEF Next
<1>2. Sound(t)
  BY <1>1, StepSound
<1>3. t = s
  BY <1>2 DEF Sound, OthersUntouched, Untouched
<1>4. pc[t] = "remove"
  BY <1>3
<1>5. ~Command(t)
  BY <1>4 DEF Command, Cd, Ls, Begin, MkdirRefused
<1>6. ~Start(t)
  BY <1>4 DEF Start
<1>7. Call(t) => Rm(t)
  BY <1>4 DEF Call, Mkdir, Cat, Exec, CopyRead, CopyWrite, CopyInto
<1>8. QED
  BY <1>1, <1>3, <1>5, <1>6, <1>7

(* What mv removes is the file it has copied, and its text is in the copy.  *)
LEMMA RemovedIsCopied ==
  ASSUME ShellInv, NEW s \in Shells, Rm(s), task[s].command.cmd = "mv", alone[s]
  PROVE  Texts(files) \subseteq Texts(files')
<1> DEFINE src == task[s].command.src
<1>1. pc[s] = "remove" /\ FS!Delete(working_directory[s], src.name, src.ext)
  BY DEF Rm
<1>2. PICK x, y \in files :
        IsSource(s, x) /\ x.folder = working_directory[s] /\ y # x /\ y.data = task[s].data
  BY <1>1 DEF ShellInv, MoveOK, Removing
<1>3. /\ x.data \in Seq(Contents) /\ Len(x.data) <= ReadSize /\ y.data = Padded(x.data)
      /\ x.name = src.name /\ x.ext = src.ext
  BY <1>2 DEF ShellInv, TypeOK, IsSource
<1>4. Text(y.data) = Text(x.data)
  BY <1>3, PaddedSaysTheSame
<1>5. ~Refused(task[s].command) /\ task[s].command.cmd \in {"rm", "mv"}
  BY <1>1 DEF ShellInv, TaskOK, Calls
<1>6. src.ext # NoExt
  BY <1>5 DEF Refused
<1>7. files' = files \/ files' = files \ {x}
  <2>1. files' = files \/ \E z \in FS!FilesIn(working_directory[s]) :
                            z.name = src.name /\ z.ext = src.ext /\ files' = files \ {z}
    BY <1>1 DEF FS!Delete, FS!Answer
  <2>2. \A z \in FS!FilesIn(working_directory[s]) : z.name = src.name /\ z.ext = src.ext => z = x
    BY <1>2, <1>3 DEF FS!FilesIn, ShellInv, FilesInv
  <2>3. QED
    BY <2>1, <2>2
<1>8. QED
  BY <1>2, <1>4, <1>7 DEF Texts

(* mv loses nothing that no other shell has touched.                        *)
THEOREM MovesLoseNothing == Spec => MovesKeepContents
<1> DEFINE Right ==
       \A s \in Shells :
         pc[s] = "remove" /\ pc'[s] # "remove" /\ task[s].command.cmd = "mv" /\ alone[s] =>
           Texts(files) \subseteq Texts(files')
<1>1. ShellInv /\ [Next]_vars => [Right]_vars
  BY RemovalIsRm, RemovedIsCopied
<1> HIDE DEF Right
<1>2. Spec => [][Right]_vars
  BY <1>1, ShellInvHolds, PTL DEF Spec
<1>3. QED
  BY <1>2 DEF Right, MovesKeepContents
=============================================================================
