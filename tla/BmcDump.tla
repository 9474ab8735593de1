------------------------------ MODULE BmcDump ------------------------------
(***************************************************************************)
(* The BMC dump manager (dump_manager_bmc.cpp), its D-Bus entries          *)
(* (bmc_dump_entry, dump_entry), the dreport processes it forks, the       *)
(* directory they write into and the inotify watches on it.                *)
(*                                                                         *)
(* The daemon is one sd-event loop: every handler is atomic with respect   *)
(* to the others, and interleaves with the dreport processes, with the     *)
(* kernel's event queues and with a crash.                                 *)
(*                                                                         *)
(* Only what decides a dump's fate is kept.  A dump type is "USER" or      *)
(* "OTHER"; a dump directory <dumpDir>/<id> holds at most one archive      *)
(* (file name, time stamp and size are dropped) and the originator saved   *)
(* in .preserve.  A refused createDump (bad argument, quota, failed fork)  *)
(* changes nothing and is no step.                                         *)
(***************************************************************************)
EXTENDS Integers, FiniteSets

CONSTANTS
  MaxId,       \* bound on lastEntryId (uint32_t in the code)
  Pids,        \* process ids a dreport can be given
  Requests,    \* the [type, originator] pairs callers of createDump use
  Faults       \* which rare faults of the environment may occur

DumpTypes   == {"USER", "OTHER"}
Originators == {"Client", "Internal"}

(***************************************************************************)
(* "stop":    a dreport is stopped by a signal (WSTOPPED is watched for)   *)
(* "source":  the Child event source of a forked dreport cannot be made    *)
(* "survive": dreport outlives the daemon (else it dies with its service)  *)
(* "rmfail":  a dump directory cannot be removed, and stays as it is       *)
(* "savefail": the originator of a dump cannot be written to .preserve     *)
(***************************************************************************)
FaultKinds == {"stop", "source", "survive", "rmfail", "savefail"}

ASSUME MaxIdAssumption   == MaxId \in Nat
ASSUME RequestAssumption ==
  Requests \subseteq [type : DumpTypes, originator : Originators]
ASSUME FaultAssumption   == Faults \subseteq FaultKinds

VARIABLES
  up,                   \* the daemon is running
  entries,              \* the entry map: D-Bus objects, and null pointers
  lastEntryId,          \* id of the last dump requested or restored
  progressTimer,        \* ids of entries whose progress timer runs
  fUserDumpInProgress,  \* the flag that refuses a second user dump
  childPtrMap,          \* pids whose exit the event loop reports
  childWatchMap,        \* ids whose directory has an inotify watch
  dirEvents,            \* ids whose IN_CREATE is queued on the main watch
  fileEvents,           \* ids whose IN_CLOSE_WRITE is queued on their watch
  dreport,              \* the dreport process of each pid
  dirs,                 \* ids whose dump directory exists
  archive,              \* the archive in each dump directory
  preserved             \* the originator saved in each .preserve directory, or
                        \* "lost" where serialize() left nothing to read

memory == <<entries, lastEntryId, progressTimer, fUserDumpInProgress,
            childPtrMap>>
queues == <<childWatchMap, dirEvents, fileEvents>>
disk   == <<dirs, archive, preserved>>
vars   == <<up, memory, queues, dreport, disk>>

Ids == 1 .. MaxId

-----------------------------------------------------------------------------
(* Entries *)

LiveStatus == {"InProgress", "Completed", "Failed"}
NoEntry    == [status |-> "none", file |-> FALSE, originator |-> "none"]
NullEntry  == [status |-> "null", file |-> FALSE, originator |-> "none"]
EntryType  == [status : LiveStatus \cup {"none", "null"}, file : BOOLEAN,
               originator : Originators \cup {"none"}]

Live(id) == entries[id].status \in LiveStatus

NewEntry(originator) ==
  [status |-> "InProgress", file |-> FALSE, originator |-> originator]

CompletedEntry(originator) ==
  [status |-> "Completed", file |-> TRUE, originator |-> originator]

\* createDumpFailed looks its entry up with operator[], which inserts a null
\* pointer when the entry has been deleted.
EntryAfterFailure(e) ==
  IF e.status \in LiveStatus THEN [e EXCEPT !.status = "Failed"] ELSE NullEntry

\* createEntry: update the entry, or make a completed one; a null pointer in
\* the map is found and left alone.
EntryAfterClose(e) ==
  CASE e.status \in LiveStatus -> CompletedEntry(e.originator)
    [] e.status = "none"       -> CompletedEntry("Internal")
    [] e.status = "null"       -> e

-----------------------------------------------------------------------------
(* Processes *)

Running == {"collecting", "packaging", "copied", "truncated"}
Exited  == {"exited0", "exited1"}

NoProcess   == [phase |-> "none", id |-> 0, type |-> "OTHER"]
ProcessType == [phase : Running \cup Exited, id : Ids, type : DumpTypes]
                 \cup {NoProcess}

SetPhase(p, phase) == dreport' = [dreport EXCEPT ![p].phase = phase]

\* A process nobody watches is reaped without the manager noticing.
ExitWith(p, phase) ==
  dreport' = [dreport EXCEPT ![p] =
                IF p \in childPtrMap THEN [@ EXCEPT !.phase = phase]
                                     ELSE NoProcess]

-----------------------------------------------------------------------------
(* Requests over D-Bus *)

\* captureDump forks dreport for the next id, in a process of its own.
Fork(p, type) ==
  /\ up
  /\ dreport[p].phase = "none"
  /\ lastEntryId < MaxId
  /\ ~(fUserDumpInProgress /\ type = "USER")
  /\ dreport' = [dreport EXCEPT ![p] =
                   [phase |-> "collecting", id |-> lastEntryId + 1,
                    type |-> type]]

\* createDump.  When the id is already taken by an object on the bus, making
\* the Entry throws after the fork: the entry is not replaced and the flag is
\* not set.
CreateDump(p, r) ==
  LET id == lastEntryId + 1 IN
  /\ Fork(p, r.type)
  /\ childPtrMap' = childPtrMap \cup {p}
  /\ lastEntryId' = id
  /\ entries' = IF entries[id].status = "none"
                THEN [entries EXCEPT ![id] = NewEntry(r.originator)]
                ELSE entries
  /\ progressTimer' = IF entries[id].status = "none"
                      THEN progressTimer \cup {id} ELSE progressTimer
  /\ fUserDumpInProgress' = \/ fUserDumpInProgress
                            \/ r.type = "USER" /\ ~Live(id)
  /\ UNCHANGED <<up, queues, disk>>

\* createDump when the Child source cannot be made: the call fails, but the
\* dreport it forked runs on, and lastEntryId is not advanced.
CreateDumpChildSourceFails(p, r) ==
  /\ "source" \in Faults
  /\ Fork(p, r.type)
  /\ UNCHANGED <<up, memory, queues, disk>>

\* Removing the dump directory takes everything in it.
RemoveDumps(ids) ==
  /\ dirs' = dirs \ ids
  /\ archive' = [id \in Ids |-> IF id \in ids THEN "none" ELSE archive[id]]
  /\ preserved' = [id \in Ids |-> IF id \in ids THEN "none" ELSE preserved[id]]

\* Mutant: delete_ removes the directory of the id, file or no file.
MutantDirectoriesOf(ids) == ids \cap dirs

\* delete_ removes the parent directory of the entry's file; an entry still in
\* progress has an empty file name, and no directory is removed.
DirectoriesOf(ids) == {id \in ids : entries[id].file}

\* A directory that cannot be removed is logged only.
Removable(ids) == IF "rmfail" \in Faults THEN SUBSET DirectoriesOf(ids)
                                         ELSE {DirectoriesOf(ids)}

\* Entry::delete_.
DeleteEntry(id) ==
  /\ up
  /\ Live(id)
  /\ \E gone \in Removable({id}) : RemoveDumps(gone)
  /\ entries' = [entries EXCEPT ![id] = NoEntry]
  /\ progressTimer' = progressTimer \ {id}
  /\ UNCHANGED <<up, lastEntryId, fUserDumpInProgress, childPtrMap, queues,
                 dreport>>

NullIds == {id \in Ids : entries[id].status = "null"}

\* Manager::deleteAll.
DeleteAll ==
  /\ up
  /\ NullIds = {}
  /\ \E id \in Ids : Live(id)
  /\ \E gone \in Removable({id \in Ids : Live(id)}) : RemoveDumps(gone)
  /\ entries' = [id \in Ids |-> NoEntry]
  /\ progressTimer' = {}
  /\ UNCHANGED <<up, lastEntryId, fUserDumpInProgress, childPtrMap, queues,
                 dreport>>

-----------------------------------------------------------------------------
(* dreport: mkdir the dump directory, tar, cp the archive into it          *)

DreportMakeDir(p) ==
  LET id == dreport[p].id IN
  /\ dreport[p].phase = "collecting"
  /\ SetPhase(p, "packaging")
  /\ dirs' = dirs \cup {id}
  /\ dirEvents' = IF up /\ id \notin dirs THEN dirEvents \cup {id} ELSE dirEvents
  /\ UNCHANGED <<up, memory, childWatchMap, fileEvents, archive, preserved>>

\* The archive is written and closed; only a watched directory tells.
DreportWrite(p, content, phase) ==
  LET id == dreport[p].id IN
  /\ dreport[p].phase = "packaging"
  /\ id \in dirs
  /\ SetPhase(p, phase)
  /\ archive' = [archive EXCEPT ![id] = content]
  /\ fileEvents' = IF id \in childWatchMap THEN fileEvents \cup {id}
                                           ELSE fileEvents
  /\ UNCHANGED <<up, memory, childWatchMap, dirEvents, dirs, preserved>>

DreportCopy(p) == DreportWrite(p, "whole", "copied")

\* cp runs out of space, or is killed: what it wrote so far is closed too.
DreportCopyTruncated(p) == DreportWrite(p, "partial", "truncated")

\* The directory was removed meanwhile: cp makes a plain file of that name,
\* which the main watch reports and createEntry rejects by its name.
DreportCopyAstray(p) ==
  /\ dreport[p].phase = "packaging"
  /\ dreport[p].id \notin dirs
  /\ SetPhase(p, "copied")
  /\ UNCHANGED <<up, memory, queues, disk>>

\* A copied archive may yet end in a failure: the status of package() is that
\* of the removal of the temporary copy.
DreportExits(p) ==
  /\ \/ dreport[p].phase = "copied" /\ ExitWith(p, "exited0")
     \/ dreport[p].phase \in {"copied", "truncated"} /\ ExitWith(p, "exited1")
  /\ UNCHANGED <<up, memory, queues, disk>>

\* tar or cp fails, or a signal kills it, before there is an archive.
DreportFails(p) ==
  /\ dreport[p].phase \in {"collecting", "packaging"}
  /\ ExitWith(p, "exited1")
  /\ UNCHANGED <<up, memory, queues, disk>>

\* initialize() fails: a bare "exit", with status 0 and nothing written.
DreportGivesUp(p) ==
  /\ dreport[p].phase = "collecting"
  /\ ExitWith(p, "exited0")
  /\ UNCHANGED <<up, memory, queues, disk>>

-----------------------------------------------------------------------------
(* Event-loop callbacks *)

\* watchCallback on IN_CREATE of a directory: watch it for closed files.
WatchDirectory(id) ==
  /\ id \in dirEvents
  /\ dirEvents' = dirEvents \ {id}
  /\ childWatchMap' = IF id \in dirs THEN childWatchMap \cup {id}
                                     ELSE childWatchMap
  /\ UNCHANGED <<up, memory, fileEvents, dreport, disk>>

\* Mutant: the updated entry is not serialized.
MutantNotSerialized(id) ==
  /\ id \in fileEvents
  /\ archive[id] # "none"
  /\ fileEvents' = fileEvents \ {id}
  /\ childWatchMap' = childWatchMap \ {id}
  /\ entries' = [entries EXCEPT ![id] = EntryAfterClose(@)]
  /\ progressTimer' = progressTimer \ {id}
  /\ UNCHANGED <<up, lastEntryId, fUserDumpInProgress, childPtrMap, dirEvents,
                 dreport, disk>>

\* serialize() of an entry that existed.  Should .preserve not open, or the
\* write throw or fall short, that is logged at most: the update goes on.
Serialize(id) ==
  \/ preserved' = IF Live(id)
                  THEN [preserved EXCEPT ![id] = entries[id].originator]
                  ELSE preserved
  \/ /\ "savefail" \in Faults
     /\ Live(id)
     /\ preserved' = [preserved EXCEPT ![id] = "lost"]

\* watchCallback on IN_CLOSE_WRITE: drop the watch, then createEntry.
FileClosed(id) ==
  /\ id \in fileEvents
  /\ archive[id] # "none"
  /\ fileEvents' = fileEvents \ {id}
  /\ childWatchMap' = childWatchMap \ {id}
  /\ entries' = [entries EXCEPT ![id] = EntryAfterClose(@)]
  /\ progressTimer' = progressTimer \ {id}
  /\ Serialize(id)
  /\ UNCHANGED <<up, lastEntryId, fUserDumpInProgress, childPtrMap, dirEvents,
                 dreport, dirs, archive>>

\* Mutant: the flag is reset whatever the type of the dump.
MutantAnyTypeResets(p, failed) ==
  /\ entries' = IF failed
                THEN [entries EXCEPT ![dreport[p].id] = EntryAfterFailure(@)]
                ELSE entries
  /\ fUserDumpInProgress' = FALSE
  /\ childPtrMap' = childPtrMap \ {p}

\* Mutant: a failure is handled and the callback returns early.
MutantFailureKeepsFlag(p, failed) ==
  /\ entries' = IF failed
                THEN [entries EXCEPT ![dreport[p].id] = EntryAfterFailure(@)]
                ELSE entries
  /\ fUserDumpInProgress' = (/\ fUserDumpInProgress
                             /\ failed \/ dreport[p].type # "USER")
  /\ childPtrMap' = childPtrMap \ {p}

\* Mutant: si_status is not looked at.
MutantIgnoresStatus(p, failed) ==
  /\ fUserDumpInProgress' = (fUserDumpInProgress /\ dreport[p].type # "USER")
  /\ childPtrMap' = childPtrMap \ {p}
  /\ UNCHANGED entries

\* What the Child callback does with the manager's state.
ChildCallback(p, failed) ==
  /\ entries' = IF failed
                THEN [entries EXCEPT ![dreport[p].id] = EntryAfterFailure(@)]
                ELSE entries
  /\ fUserDumpInProgress' = (fUserDumpInProgress /\ dreport[p].type # "USER")
  /\ childPtrMap' = childPtrMap \ {p}

ChildExited(p) ==
  /\ p \in childPtrMap
  /\ dreport[p].phase \in Exited
  /\ ChildCallback(p, dreport[p].phase = "exited1")
  /\ dreport' = [dreport EXCEPT ![p] = NoProcess]
  /\ UNCHANGED <<up, lastEntryId, progressTimer, queues, disk>>

\* A stop is reported like an exit, with the signal as a non-zero si_status.
ChildStopped(p) ==
  /\ "stop" \in Faults
  /\ p \in childPtrMap
  /\ dreport[p].phase \in Running
  /\ ChildCallback(p, TRUE)
  /\ UNCHANGED <<up, lastEntryId, progressTimer, queues, dreport, disk>>

\* The progress timer of an entry, past the 45 minutes a dump may take: it
\* stops.  kill() is guarded by entryProcessGroupID > 0, a member nothing ever
\* sets: no dreport is signalled (and should the garbage in it be the group of
\* the daemon itself, that is a Crash).
TimerExpires(id) ==
  /\ id \in progressTimer
  /\ progressTimer' = progressTimer \ {id}
  /\ UNCHANGED <<up, entries, lastEntryId, fUserDumpInProgress, childPtrMap,
                 queues, dreport, disk>>

-----------------------------------------------------------------------------
(* Crash and restart *)

\* The daemon is gone.  Its children die with it, in the middle of a copy if
\* they are in cutShort, unless they may survive.
DaemonGone(cutShort, archiveNow) ==
  /\ up' = FALSE
  /\ entries' = [id \in Ids |-> NoEntry]
  /\ lastEntryId' = 0
  /\ progressTimer' = {}
  /\ fUserDumpInProgress' = FALSE
  /\ childPtrMap' = {}
  /\ childWatchMap' = {}
  /\ dirEvents' = {}
  /\ fileEvents' = {}
  /\ \/ /\ "survive" \in Faults
        /\ cutShort = {}
        /\ dreport' = [p \in Pids |-> IF dreport[p].phase \in Running
                                      THEN dreport[p] ELSE NoProcess]
     \/ dreport' = [p \in Pids |-> NoProcess]
  /\ archive' = [id \in Ids |-> IF id \in cutShort THEN "partial"
                                                   ELSE archiveNow[id]]

\* Dumps whose archive is being copied into their directory.
BeingCopied == {id \in dirs : /\ archive[id] = "none"
                              /\ \E p \in Pids : /\ dreport[p].id = id
                                                 /\ dreport[p].phase = "packaging"}

Crash ==
  /\ up
  /\ \E cutShort \in SUBSET BeingCopied : DaemonGone(cutShort, archive)
  /\ UNCHANGED <<dirs, preserved>>

\* deleteAll calls delete_ through a null pointer, once it has deleted the
\* entries that come before it.
DeleteAllCrashes ==
  /\ up
  /\ \E n \in NullIds :
       /\ \A m \in NullIds : n <= m
       /\ \E gone \in Removable({id \in Ids : Live(id) /\ id < n}) :
            /\ dirs' = dirs \ gone
            /\ preserved' = [id \in Ids |-> IF id \in gone THEN "none"
                                                           ELSE preserved[id]]
            /\ \E cutShort \in SUBSET BeingCopied :
                 DaemonGone(cutShort \ gone,
                            [id \in Ids |-> IF id \in gone THEN "none"
                                                           ELSE archive[id]])

\* Mutant: restore() takes the last id from the archives it finds.
MutantLastArchived(n) ==
  /\ n \in {0} \cup {id \in dirs : archive[id] # "none"}
  /\ \A id \in dirs : archive[id] # "none" => id <= n

IsLastId(n) ==
  /\ n = 0 \/ n \in dirs
  /\ \A id \in dirs : id <= n

\* deserialize: the originator comes from .preserve when one can be read there.
SavedOriginator(id) ==
  IF preserved[id] \in Originators THEN preserved[id] ELSE "Internal"

\* Mutant: every dump directory is restored, an empty one too.
MutantRestoresEmpty(id) ==
  IF id \in dirs THEN CompletedEntry(SavedOriginator(id)) ELSE NoEntry

\* deserializeEntry: whatever archive is there makes a completed entry.
RestoredEntry(id) ==
  IF id \in dirs /\ archive[id] # "none"
  THEN CompletedEntry(SavedOriginator(id)) ELSE NoEntry

\* A new daemon: the constructors, then restore().
Restart ==
  /\ ~up
  /\ up' = TRUE
  /\ entries' = [id \in Ids |-> RestoredEntry(id)]
  /\ \E n \in 0 .. MaxId : IsLastId(n) /\ lastEntryId' = n
  /\ UNCHANGED <<progressTimer, fUserDumpInProgress, childPtrMap, queues,
                 dreport, disk>>

-----------------------------------------------------------------------------

Init ==
  /\ up = TRUE
  /\ entries = [id \in Ids |-> NoEntry]
  /\ lastEntryId = 0
  /\ progressTimer = {}
  /\ fUserDumpInProgress = FALSE
  /\ childPtrMap = {}
  /\ childWatchMap = {}
  /\ dirEvents = {}
  /\ fileEvents = {}
  /\ dreport = [p \in Pids |-> NoProcess]
  /\ dirs = {}
  /\ archive = [id \in Ids |-> "none"]
  /\ preserved = [id \in Ids |-> "none"]

Request ==
  \/ \E p \in Pids, r \in Requests : CreateDump(p, r)
  \/ \E p \in Pids, r \in Requests : CreateDumpChildSourceFails(p, r)
  \/ \E id \in Ids : DeleteEntry(id)
  \/ DeleteAll

DreportProgress(p) ==
  \/ DreportMakeDir(p)
  \/ DreportCopy(p)
  \/ DreportCopyTruncated(p)
  \/ DreportCopyAstray(p)
  \/ DreportExits(p)
  \/ DreportFails(p)
  \/ DreportGivesUp(p)

Callback ==
  \/ \E id \in Ids : WatchDirectory(id) \/ FileClosed(id) \/ TimerExpires(id)
  \/ \E p \in Pids : ChildExited(p)

Next ==
  \/ Request
  \/ \E p \in Pids : DreportProgress(p)
  \/ Callback
  \/ \E p \in Pids : ChildStopped(p)
  \/ Crash
  \/ DeleteAllCrashes
  \/ Restart

Spec == Init /\ [][Next]_vars

\* The event loop dispatches every pending event and runs every timer.
Fairness ==
  /\ \A id \in Ids : /\ WF_vars(WatchDirectory(id))
                     /\ WF_vars(FileClosed(id))
                     /\ WF_vars(TimerExpires(id))
  /\ \A p \in Pids : WF_vars(ChildExited(p))

\* Nothing in the code bounds how long dreport runs; that it ends is assumed
\* where a property says so.  Nobody is obliged to ask for a dump, to delete
\* one or to restart the daemon.
DreportEnds == \A p \in Pids : WF_vars(DreportProgress(p))

FairSpec == Spec /\ Fairness /\ DreportEnds

-----------------------------------------------------------------------------
(* Properties *)

TypeOK ==
  /\ up \in BOOLEAN
  /\ entries \in [Ids -> EntryType]
  /\ lastEntryId \in 0 .. MaxId
  /\ progressTimer \subseteq Ids
  /\ fUserDumpInProgress \in BOOLEAN
  /\ childPtrMap \subseteq Pids
  /\ childWatchMap \subseteq Ids
  /\ dirEvents \subseteq Ids
  /\ fileEvents \subseteq Ids
  /\ dreport \in [Pids -> ProcessType]
  /\ dirs \subseteq Ids
  /\ archive \in [Ids -> {"none", "partial", "whole"}]
  /\ preserved \in [Ids -> Originators \cup {"none", "lost"}]

Alive(p)      == dreport[p].phase # "none"
UserDump(p)   == dreport[p].phase \in Running /\ dreport[p].type = "USER"

\* At most one dump asked for by a user is collected at any time, and while
\* one is, the flag of dump_manager_bmc.hpp:131 is up: a second is refused.
UserDumpExclusion ==
  /\ \A p \in Pids : UserDump(p) => fUserDumpInProgress
  /\ \A p, q \in Pids : UserDump(p) /\ UserDump(q) => p = q

\* The flag is only up on account of a user dump whose exit the event loop
\* will still report: it cannot be left up and refuse user dumps for ever.
FlagHasOwner ==
  fUserDumpInProgress => \E p \in childPtrMap : /\ Alive(p)
                                                /\ dreport[p].type = "USER"

\* An id names one dump: two processes never write into the same dump
\* directory, and the next id to be given has neither an object on the bus,
\* nor a directory, nor a process.
IdsNameOneDump ==
  /\ \A p, q \in Pids : Alive(p) /\ Alive(q) /\ dreport[p].id = dreport[q].id
                          => p = q
  /\ up => \A id \in Ids : id > lastEntryId =>
             /\ entries[id] = NoEntry
             /\ id \notin dirs
             /\ \A p \in Pids : Alive(p) => dreport[p].id # id

\* A dump that is offered for download is on disk: an entry with a file name
\* has its archive, whatever was deleted, truncated or restored meanwhile.
OfferedDumpsAreOnDisk ==
  \A id \in Ids : entries[id].file => id \in dirs /\ archive[id] # "none"

\* A restart loses nothing of a completed dump: what restore() would make of
\* the files on disk is the entry as it is now, originator included; where
\* serialize() failed all but the originator, which is then the BMC's own.
CompletedDumpsRecoverable ==
  \A id \in Ids : entries[id].status = "Completed" =>
    RestoredEntry(id) = IF preserved[id] = "lost"
                        THEN [entries[id] EXCEPT !.originator = "Internal"]
                        ELSE entries[id]

\* Why the two invariants above are kept: a directory is watched, or about to
\* be, only while it is new.
WatchedDirsAreNew ==
  /\ fileEvents \subseteq childWatchMap
  /\ dirEvents \cap childWatchMap = {}
  /\ \A id \in dirEvents \cup childWatchMap : /\ id \in dirs
                                              /\ ~entries[id].file
                                              /\ preserved[id] = "none"
  /\ ~up => dirEvents \cup childWatchMap = {}

FilesHaveDirectories ==
  \A id \in Ids : archive[id] # "none" \/ preserved[id] # "none" => id \in dirs

EntriesWellFormed ==
  \A id \in Ids : /\ Live(id) => entries[id].originator \in Originators
                  /\ entries[id].status = "Completed" => entries[id].file
                  /\ ~Live(id) => ~entries[id].file

DiskInv ==
  /\ WatchedDirsAreNew
  /\ FilesHaveDirectories
  /\ EntriesWellFormed
  /\ OfferedDumpsAreOnDisk
  /\ CompletedDumpsRecoverable

\* Why UserDumpExclusion and IdsNameOneDump are kept, when a dreport is never
\* stopped, left without its Child source, or left behind by the daemon.
EveryDreportWatched == \A p \in Pids : Alive(p) => up /\ p \in childPtrMap

FlagCoversUserDumps ==
  \A p \in Pids : Alive(p) /\ dreport[p].type = "USER" => fUserDumpInProgress

OneUserDump ==
  \A p, q \in Pids : Alive(p) /\ dreport[p].type = "USER" /\
                     Alive(q) /\ dreport[q].type = "USER" => p = q

KnownIds ==
  /\ \A p \in Pids : Alive(p) => dreport[p].id <= lastEntryId
  /\ ~up => entries = [id \in Ids |-> NoEntry]

ProcessInv ==
  /\ EveryDreportWatched
  /\ FlagCoversUserDumps
  /\ OneUserDump
  /\ KnownIds
  /\ IdsNameOneDump

\* A dump whose directory is watched before its archive is there leaves
\* InProgress (or is gone), provided dreport ends.
WatchedDumpSettles ==
  \A id \in Ids :
    (/\ entries[id].status = "InProgress"
     /\ id \in childWatchMap
     /\ archive[id] = "none") ~> entries[id].status # "InProgress"

\* A user is not locked out for ever: the flag comes down, provided dreport
\* ends.
UserSlotFreed == fUserDumpInProgress ~> ~fUserDumpInProgress

=============================================================================
