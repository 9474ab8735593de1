--------------------------- MODULE MCOpenpowerDump ---------------------------
(* A small instance of OpenpowerDump, for TLC. *)
EXTENDS OpenpowerDump

MCSourceIds == {1, 2}
MCSizes     == {1, 2}
=============================================================================
