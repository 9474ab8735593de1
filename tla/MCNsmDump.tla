----------------------------- MODULE MCNsmDump -----------------------------
(* An instance of NsmDump for TLC: three records, so that there is a first,  *)
(* a middle and a last one, and counters that reach their limits, one that of *)
(* the code.                                                                *)
EXTENDS NsmDump

MCRecords    == 3
MCErrorCount == 3
MCInProgress == 2
=============================================================================
