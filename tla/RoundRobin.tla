----------------------------- MODULE RoundRobin -----------------------------
(***************************************************************************)
(* What the scan of scheduler_switch_to_next_process                       *)
(* (src/src/scheduler/scheduler.c:32-41) computes, in closed form.  Module *)
(* Scheduler steps through the loop itself and checks that the two agree.  *)
(***************************************************************************)
EXTENDS Integers

CONSTANT PROCESS_COUNT_MAX   \* slots of the process table (16 in the code)

ASSUME ProcessCountAssumption == PROCESS_COUNT_MAX \in Nat \ {0}

Slots  == 0 .. PROCESS_COUNT_MAX - 1
States == {"Inactive", "Ready", "Running"}
NoPid  == -1                 \* current_pid before the first switch

(* How many slots the scan passes over before it looks at slot p. *)
Distance(cur, p) == (p - cur - 1 + PROCESS_COUNT_MAX) % PROCESS_COUNT_MAX

ReadySlots(st) == {p \in Slots : st[p] = "Ready"}

(* Mutant: the scan starts at slot 0 every time. *)
LowestReady(st, cur) == {p \in ReadySlots(st) : \A q \in ReadySlots(st) : p <= q}

(* Where the scan stops.  With nobody Ready it falls through at the current *)
(* slot, whatever the state of that slot, without looking at it; but from   *)
(* slot 0, and before the first process, it never meets its stop condition: *)
(* the wrap to 0 happens after the test of the loop.  Then the result is    *)
(* empty: the loop spins with interrupts off.                               *)
SwitchTargets(st, cur) ==
  IF ReadySlots(st) # {}
  THEN {p \in ReadySlots(st) : \A q \in ReadySlots(st) : Distance(cur, p) <= Distance(cur, q)}
  ELSE {p \in Slots : p = cur /\ cur > 0}
=============================================================================
