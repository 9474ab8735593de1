---------------------------- MODULE MCSystemDump ----------------------------
(* Instances of SystemDump for TLC. *)
EXTENDS SystemDumpStore, TLC

\* Two dumps that may be collected together.
MCTwoTypes == {"RetLTSSM", "EROT"}

\* The dumps that exclude each other.
MCRetimerTypes == {"RetLTSSM", "RetRegister"}

\* Processes are interchangeable.  Only for runs without liveness properties.
PidSymmetry == Permutations(Pids)
=============================================================================
