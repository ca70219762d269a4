---------------------------- MODULE ProcessTable ----------------------------
(***************************************************************************)
(* What the process manager promises to the programs that run on it, with  *)
(* no page directory, no frame map and no kernel control point: a process  *)
(* appears with all its memory, or not at all, in the first empty slot; it *)
(* disappears whole, by its own exit or by a shell's kill; memory is never *)
(* handed out twice; and the processor is only given to a process that is  *)
(* there.  Module KernelRefinement shows that Kernel implements this.      *)
(***************************************************************************)
EXTENDS Integers, FiniteSets

CONSTANTS
  PROCESS_COUNT_MAX,   \* slots
  CAPACITY,            \* frames available to processes
  Sizes                \* frames a process may need

Slots  == 0 .. PROCESS_COUNT_MAX - 1
NoPid  == -1
NoName == "none"
Programs == {"shell", "testing", "imm0"}

VARIABLES
  name,    \* slot -> the program of its process, or NoName
  memory,  \* slot -> the frames its process holds
  cpu      \* the slot that has the processor, NoPid before the first

vars == <<name, memory, cpu>>

Present(p) == name[p] # NoName

(* Every frame in use, counted by its owner and its place there.            *)
InUse == Cardinality(UNION {{p} \X (1 .. memory[p]) : p \in Slots})

Init ==
  /\ name = [p \in Slots |-> NoName]
  /\ memory = [p \in Slots |-> 0]
  /\ cpu = NoPid

(* Only the boot code, or a shell that is running, starts a process. *)
Create(p, program, size) ==
  /\ \/ cpu = NoPid /\ program = "shell"
     \/ cpu # NoPid /\ name[cpu] = "shell"
  /\ ~Present(p) /\ \A q \in Slots : q < p => Present(q)
  /\ InUse + size <= CAPACITY
  /\ name' = [name EXCEPT ![p] = program]
  /\ memory' = [memory EXCEPT ![p] = size]
  /\ UNCHANGED cpu

(* A shell ends any process, a program that returns ends itself. *)
Destroy(p) ==
  /\ cpu # NoPid /\ Present(p)
  /\ name[cpu] = "shell" \/ (name[cpu] = "imm0" /\ p = cpu)
  /\ name' = [name EXCEPT ![p] = NoName]
  /\ memory' = [memory EXCEPT ![p] = 0]
  /\ UNCHANGED cpu

Dispatch(p) ==
  /\ Present(p)
  /\ cpu' = p
  /\ UNCHANGED <<name, memory>>

Next == \E p \in Slots :
  \/ \E program \in Programs, size \in Sizes : Create(p, program, size)
  \/ Destroy(p)
  \/ Dispatch(p)

Spec == Init /\ [][Next]_vars
=============================================================================
