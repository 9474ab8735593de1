---------------------------- MODULE MCElogWatch ----------------------------
(* An instance of ElogWatch for TLC: the last log is of a type that the      *)
(* configuration of error types does not name.                              *)
EXTENDS ElogWatch

MCEIds      == 1 .. 3
MCSupported == {1, 2}
=============================================================================
