------------------------------ MODULE Fat32Crash ------------------------------
(***************************************************************************)
(* Fat32 under proper callers while the power may fail at any moment, with *)
(* a variable that only observes: torn says that some operation was cut    *)
(* short, its remaining disk writes lost.  Spec of Fat32 is the part of    *)
(* this in which no operation is.                                          *)
(***************************************************************************)
EXTENDS Fat32Invariant

VARIABLE torn

tornVars == <<vars, torn>>

TornInit == Init /\ torn = FALSE

TornNext ==
  \/ Next /\ torn' = torn
  \/ PowerLoss /\ torn' = (torn \/ pending # <<>>)

TornSpec == TornInit /\ [][TornNext]_tornVars

(* Until then the disk and the driver are as without power failures.        *)
TornInv == torn \in BOOLEAN /\ (torn \/ FatInv)

(* The kernel faults in the driver only after an operation was cut short.   *)
FaultNeedsCut == mode = "hang" => torn

(* And only then is the boot sector ever cleared.                           *)
ClearingNeedsCut == [][signature /\ ~signature' => torn]_tornVars
=============================================================================
