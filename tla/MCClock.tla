------------------------------- MODULE MCClock -------------------------------
(* Minutes and seconds count to 10, so that they carry and need two digits. *)
EXTENDS Clock

(* Before, at and after every carry: of seconds into minutes and hours, of  *)
(* one digit into two, at noon and at midnight, and where the seven hours   *)
(* added pass midnight.                                                     *)
MCStartTimes ==
  [hour : {0, 8, 9, 11, 12, 16, 19, 23}, minute : {8, 10}, second : {8, 9, 10}]
=============================================================================
