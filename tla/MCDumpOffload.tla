--------------------------- MODULE MCDumpOffload ---------------------------
(* An instance of DumpOffload for TLC: two dumps, two readers, a path, one    *)
(* block more than a socket takes, and a descriptor for every use at once,    *)
(* but for those that deleted entries keep.                                   *)
EXTENDS DumpOffload

CONSTANTS d1, d2, r1, r2, u1

MCDumps   == {d1, d2}
MCReaders == {r1, r2}
MCUris    == {u1}
MCFds     == 1 .. 4
=============================================================================
