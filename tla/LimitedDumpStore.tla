-------------------------- MODULE LimitedDumpStore --------------------------
(***************************************************************************)
(* The managers that delete to make room implement the dump store: a dump  *)
(* is kept when its archive is on disk, and offered when an entry names    *)
(* its file.  Who asked for it is not in the model.                        *)
(***************************************************************************)
EXTENDS LimitedDump

Kept == [i \in Ids |-> IF i \in archive THEN "dump" ELSE "none"]

OfferedOnBus == [i \in Ids |-> IF entries[i].file THEN "dump" ELSE "none"]

Store == INSTANCE DumpStore
           WITH Originators <- {"dump"}, Unsaved <- "dump",
                kept <- Kept, offered <- OfferedOnBus

\* Every behaviour of these managers is one of a store that outlives the
\* daemon: the quota and the limits lose an archive only where it was on offer,
\* and with its entry, also when a request is refused or the daemon is ended in
\* the middle of deleting; a restart offers what was kept.
ImplementsDumpStore == Store!Spec
=============================================================================
