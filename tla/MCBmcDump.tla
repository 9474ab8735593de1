----------------------------- MODULE MCBmcDump -----------------------------
(* Instances of BmcDump for TLC. *)
EXTENDS BmcDump, TLC

\* A user's dump comes from a client; a core or error dump from the BMC.
MCRequests == {[type |-> "USER",  originator |-> "Client"],
               [type |-> "OTHER", originator |-> "Internal"]}

\* Processes are interchangeable.  Only for runs without liveness properties.
PidSymmetry == Permutations(Pids)
=============================================================================
