------------------------- MODULE MCScheduleInform -------------------------
(* TLC instances of ScheduleInform; the constants are in the .cfg files. *)
EXTENDS ScheduleInform
=============================================================================
