---------------------------- MODULE MCLimitedDump ----------------------------
(* A small instance of LimitedDump and its store, for TLC: the builds with and *)
(* without rotation, and with and without a limit on the number of dumps.     *)
EXTENDS LimitedDumpStore

MCConfig(m, r, n) == [manager |-> m, rotates |-> r, limit |-> n]

MCConfigs ==
  {MCConfig("bmc", FALSE, 0), MCConfig("bmc", TRUE, 0),
   MCConfig("faultlog", FALSE, 0), MCConfig("faultlog", TRUE, 2),
   MCConfig("fdr", FALSE, 1)}
=============================================================================
