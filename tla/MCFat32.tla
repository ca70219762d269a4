------------------------------ MODULE MCFat32 -------------------------------
(* Small instances of Fat32 for model checking. *)
EXTENDS Fat32Refinement

MCNames == {"a", "b"}
MCExts  == {NoExt, "txt"}
=============================================================================
