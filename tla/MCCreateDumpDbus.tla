-------------------------- MODULE MCCreateDumpDbus --------------------------
(* An instance of CreateDumpDbus for TLC: two clients, so that one waits      *)
(* while the other is served, and two types of dumps.                         *)
EXTENDS CreateDumpDbus

MCTypes == <<"BMC", "EROT">>
=============================================================================
