------------------------------ MODULE MCShell -------------------------------
(* A small instance of Shell. *)
EXTENDS Shell, TLC

CONSTANTS first, second, root, i1, i2

(* Relative and absolute paths, up, here, paths that lead nowhere, one      *)
(* whose last component only begins with "..", and a name of 8 characters:  *)
(* current_path has room for root/longname/ but not for root/d/longname/.   *)
MCPaths == {<<>>, <<"d">>, <<"..">>, <<"d", "e", "..">>, <<"longname">>, <<".", "">>,
            <<"root", "d", "..x">>}

TextFile == Place(<<>>, "testcat", "txt")
AboveIt  == Place(<<"..">>, "testcat", "txt")
Copy     == Place(<<>>, "f", "txt")
CopyUp   == Place(<<"..">>, "f", "txt")
CopyDown == Place(<<"longname">>, "f", "txt")
Folder   == Place(<<>>, "d", NoExt)
LongOne  == Place(<<"..">>, "longname", NoExt)

(* Folders in two places, and one named "root" in a third; files that are   *)
(* there or not; a folder that rm is to refuse; copies here, above, below,  *)
(* on top of the source, and into a folder with a short or a long name.     *)
MCCommands ==
  {Typed("mkdir", place, NoPlace) : place \in {Folder, Place(<<"d">>, "e", NoExt),
                                               Place(<<>>, "longname", NoExt), Place(<<"d">>, "root", NoExt)}}
  \cup {Typed("cat", AboveIt, NoPlace), Typed("exec", Place(<<"..">>, "shell", NoExt), NoPlace)}
  \cup {Typed("rm", place, NoPlace) : place \in {TextFile, CopyUp, Folder}}
  \cup {Typed("cp", TextFile, dest) : dest \in {CopyDown, Folder}}
  \cup {Typed("mv", TextFile, dest) : dest \in {TextFile, CopyUp, LongOne}}
  \cup {Typed("mv", AboveIt, Copy)}

MCNameLength == [name \in {"d", "e", "longname", "root"} |->
                   IF name = "longname" THEN 8 ELSE IF name = "root" THEN 4 ELSE 1]

Symmetry == Permutations({first, second}) \cup Permutations({i1, i2})
=============================================================================
