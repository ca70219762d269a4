------------------------------ MODULE Scheduler ------------------------------
(***************************************************************************)
(* The loop of scheduler_switch_to_next_process                            *)
(* (src/src/scheduler/scheduler.c:32-41), iteration by iteration, for      *)
(* every process table it can be called with: when it runs, the process    *)
(* that held the processor is Ready again (timer) or Inactive (exit), and  *)
(* nobody is Running.  The loop changes nothing until it is left, and runs *)
(* with interrupts off, so it is a function of the table.                  *)
(***************************************************************************)
EXTENDS Kernel

(* Mutant: the last slot is skipped. *)
WrapsEarly(context_id) == IF context_id >= PROCESS_COUNT_MAX - 1 THEN 0 ELSE context_id

Wrapped(context_id) == IF context_id >= PROCESS_COUNT_MAX THEN 0 ELSE context_id

Scanning(context_id) == [context_id |-> context_id, found |-> FALSE]
FoundAt(context_id)  == [context_id |-> context_id, found |-> TRUE]

(* The test of the loop and, if it does not end there, the body.            *)
Iteration(st, cur, scan) ==
  LET slot == Wrapped(scan.context_id)
  IN  IF scan.found THEN scan
      ELSE IF scan.context_id = cur THEN FoundAt(cur)
      ELSE IF st[slot] = "Ready" THEN FoundAt(slot)
      ELSE Scanning(slot + 1)

(* After n iterations. *)
Scan(st, cur, n) ==
  LET run[k \in 0 .. n] == IF k = 0 THEN Scanning(cur + 1) ELSE Iteration(st, cur, run[k - 1])
  IN  run[n]

(* The loop stops, and stops at the slot that the closed form of RoundRobin *)
(* gives: the nearest Ready slot after the current one, the current one     *)
(* last.  Where the closed form gives none it never stops: context_id takes *)
(* one of PROCESS_COUNT_MAX + 1 values, so that a scan that has not stopped *)
(* after more iterations than that is going round in circles.               *)
ScanFindsTarget ==
  \A st \in [Slots -> {"Inactive", "Ready"}] :
    LET end == Scan(st, current_pid, PROCESS_COUNT_MAX + 3)
    IN  IF SwitchTargets(st, current_pid) = {} THEN ~end.found
        ELSE end.found /\ end.context_id \in SwitchTargets(st, current_pid)
=============================================================================
