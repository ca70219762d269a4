------------------------------- MODULE MCFind -------------------------------
(* A small instance of Find. *)
EXTENDS Find

CONSTANTS root, i1, i2

(* All entries; and what is called d, a folder or a file without extension, *)
(* with all that lies in folders called d.                                  *)
MCTargets == {Everything, Target("d", NoExt)}
=============================================================================
