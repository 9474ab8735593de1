-------------------------- MODULE SystemDumpStore --------------------------
(***************************************************************************)
(* The system dump manager implements the dump store as well: a dump is    *)
(* kept when its archive is on disk, and offered when an entry names its   *)
(* file.  Who asked for it is not saved: all dumps look alike.             *)
(***************************************************************************)
EXTENDS SystemDump

Kept == [id \in Ids |-> IF id \in files THEN "dump" ELSE "none"]

OfferedOnBus == [id \in Ids |-> IF entries[id].file THEN "dump" ELSE "none"]

Store == INSTANCE DumpStore
           WITH Originators <- {"dump"}, Unsaved <- "dump",
                kept <- Kept, offered <- OfferedOnBus

\* Every behaviour of the manager, with its limit, its collectors and its
\* crashes, is one of a store that outlives the daemon: what is offered is
\* kept; the limit, like a delete, loses an archive only where it was on offer,
\* and never one whose event is on its way; a restart offers what was kept.
ImplementsDumpStore == Store!Spec
=============================================================================
