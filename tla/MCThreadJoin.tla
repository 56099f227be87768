---------------------------- MODULE MCThreadJoin ----------------------------
(* ThreadJoin for TLC.                                                     *)
EXTENDS ThreadJoin
=============================================================================
