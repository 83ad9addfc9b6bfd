-------------------------- MODULE MCChangeDuState --------------------------
(* TLC instances of ChangeDuState. *)
EXTENDS ChangeDuState
=============================================================================
