---------------------------- MODULE BmcDumpStore ----------------------------
(***************************************************************************)
(* The BMC dump manager implements the dump store: a dump is kept when its *)
(* archive is on disk, and offered when an entry names its file.           *)
(***************************************************************************)
EXTENDS BmcDump

Kept == [id \in Ids |-> IF id \in dirs /\ archive[id] # "none"
                        THEN SavedOriginator(id) ELSE "none"]

\* getFileHandle and initiateOffload serve an entry whose file is not empty.
OfferedOnBus == [id \in Ids |-> IF entries[id].file
                                THEN entries[id].originator ELSE "none"]

Store == INSTANCE DumpStore
           WITH Unsaved <- "Internal", kept <- Kept, offered <- OfferedOnBus

\* Every behaviour of the manager, its processes, its disk and its crashes is
\* one of a store that outlives the daemon: what is offered is kept, under the
\* originator it was published with, or the BMC's own where serialize() could
\* not save that one; a restart offers exactly what was kept; nothing is lost
\* but by a delete of a dump that was on offer.
ImplementsDumpStore == Store!Spec
=============================================================================
