--------------------------- MODULE MCCwmpSession ---------------------------
(* TLC instances of CwmpSession. *)
EXTENDS CwmpSession
=============================================================================
