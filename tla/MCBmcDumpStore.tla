--------------------------- MODULE MCBmcDumpStore ---------------------------
(* An instance of BmcDumpStore for TLC. *)
EXTENDS BmcDumpStore, TLC

\* The originator is worth saving: it is not the one restore() falls back on.
MCRequests == {[type |-> "USER", originator |-> "Client"]}

\* Processes are interchangeable.
PidSymmetry == Permutations(Pids)
=============================================================================
