------------------------------ MODULE MCKernel ------------------------------
(* Small instances of Kernel for model checking. *)
EXTENDS KernelRefinement, KernelInvariant, Scheduler

(* Every program image needs two frames, like the 1 MiB request buffer of   *)
(* the code beside one frame of stack.                                      *)
MCBufferSizes == {1}

(* Callers load programs at address 0. *)
MCEntrypoints == {0}

(* One-digit arguments naming every slot; "10", which kills process 1; and  *)
(* "9" and an empty argument, which are outside the table.                  *)
MCKillTexts == {<<p>> : p \in Slots} \cup {<<1, 0>>, <<9>>, <<-48, -48>>}
=============================================================================
