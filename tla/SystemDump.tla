----------------------------- MODULE SystemDump -----------------------------
(***************************************************************************)
(* The system dump manager of the nvidia-dumps extension                   *)
(* (dump_manager_system.cpp, system_dump_entry) and the retimer debug mode *)
(* it switches (retimer_debug_mode_state.cpp).                             *)
(*                                                                         *)
(* Every diagnostic type has a collector program of its own, forked like   *)
(* dreport; two types that read the retimers exclude each other.  The      *)
(* number of entries is limited: a request first deletes the oldest ones.  *)
(*                                                                         *)
(* BmcDump has the details of directories and watches.  Here a collector   *)
(* makes its directory when it writes its archive, and the archive is      *)
(* either reported or, its directory being watched too late, not.  The     *)
(* progress timer changes nothing but itself (its kill is guarded by the   *)
(* same member nothing sets) and is left out.                              *)
(***************************************************************************)
EXTENDS Integers, FiniteSets

CONSTANTS
  MaxId,       \* bound on lastEntryId (uint32_t in the code)
  Pids,        \* process ids a collector can be given
  Types,       \* the diagnostic types asked for, perhaps "", the dreport dump
  MaxLimit,    \* SYSTEM_DUMP_MAX_LIMIT, when it is not 0
  Faults       \* which rare faults may occur

Retimer == {"RetLTSSM", "RetRegister"}

(***************************************************************************)
(* "fork":   fork fails                                                    *)
(* "source": the Child event source of a forked collector cannot be made   *)
(* "stop":   a collector is stopped by a signal (WSTOPPED is watched for)  *)
(* "rmfail": a dump directory cannot be removed                            *)
(* "i2c":    the FPGA register cannot be written                           *)
(* "client": a D-Bus client writes the DebugMode property itself           *)
(***************************************************************************)
FaultKinds == {"fork", "source", "stop", "rmfail", "i2c", "client"}

ASSUME MaxIdAssumption    == MaxId \in Nat
ASSUME MaxLimitAssumption == MaxLimit \in Nat \ {0}
ASSUME TypesAssumption    == "none" \notin Types
ASSUME FaultAssumption    == Faults \subseteq FaultKinds

VARIABLES
  up,              \* the daemon is running
  entries,         \* the entry map: D-Bus objects, and null pointers
  lastEntryId,     \* id of the last dump requested or restored
  dumpInProgress,  \* the types that are refused
  childPtrMap,     \* pids whose exit the event loop reports
  fileEvents,      \* ids whose IN_CLOSE_WRITE is queued
  collector,       \* the collector process of each pid
  files,           \* ids whose archive is on disk
  retimerDebug     \* the retimers are in debug mode (FPGA register 0xe3)

vars == <<up, entries, lastEntryId, dumpInProgress, childPtrMap, fileEvents,
          collector, files, retimerDebug>>

Ids == 1 .. MaxId

LiveStatus == {"InProgress", "Completed", "Failed"}
NoEntry    == [status |-> "none", file |-> FALSE, type |-> "none"]
NullEntry  == [status |-> "null", file |-> FALSE, type |-> "none"]
EntryType  == [status : LiveStatus \cup {"none", "null"}, file : BOOLEAN,
               type : Types \cup {"", "none"}]

Present == {id \in Ids : entries[id].status # "none"}
NullIds == {id \in Ids : entries[id].status = "null"}
Live(id) == entries[id].status \in LiveStatus

NewEntry(type)       == [status |-> "InProgress", file |-> FALSE, type |-> type]
CompletedEntry(type) == [status |-> "Completed", file |-> TRUE, type |-> type]

\* createDumpFailed inserts a null pointer for an entry that is gone.
EntryAfterFailure(e) ==
  IF e.status \in LiveStatus THEN [e EXCEPT !.status = "Failed"] ELSE NullEntry

\* createEntry: an entry made for a file nobody asked for has no type; it
\* cannot be inserted over a null pointer.
EntryAfterClose(e) ==
  CASE e.status \in LiveStatus -> CompletedEntry(e.type)
    [] e.status = "none"       -> CompletedEntry("")
    [] e.status = "null"       -> e

NoProcess   == [phase |-> "none", id |-> 0, type |-> "none"]
ProcessType == [phase : {"collecting", "written", "exited0", "exited1"},
                id : Ids, type : Types] \cup {NoProcess}

Alive(p) == collector[p].phase # "none"

\* delete_ removes the directory of the entry's file, when it has a file; one
\* that cannot be removed is logged only.
RemoveFiles(ids) ==
  \E stuck \in IF "rmfail" \in Faults THEN SUBSET ids ELSE {{}} :
    files' = files \ {id \in ids \ stuck : entries[id].file}

\* The DebugMode setter; a register that cannot be written is logged only.
SwitchDebugMode(value) ==
  \/ retimerDebug' = value
  \/ "i2c" \in Faults /\ UNCHANGED retimerDebug

-----------------------------------------------------------------------------
(* createDump *)

\* The oldest entries limitDumpEntries deletes, so that one more fits.
Excess ==
  IF Cardinality(Present) < MaxLimit THEN {}
  ELSE {id \in Present :
          Cardinality({old \in Present : old < id})
            < Cardinality(Present) - (MaxLimit - 1)}

\* Mutant: the excess files are removed, the entries are not erased.
MutantLimitKeepsEntries == entries

\* limitDumpEntries, unless it meets a null pointer: every entry is deleted
\* through delete_, one in progress has no file yet and loses its entry only.
KeepAfterLimit == [id \in Ids |-> IF id \in Excess THEN NoEntry ELSE entries[id]]

LimitDumpEntries == Excess \cap NullIds = {} /\ RemoveFiles(Excess)

\* Refused as a duplicate: the same type, or the other retimer dump.
InProgress(t) ==
  \/ t \in dumpInProgress
  \/ t \in Retimer /\ dumpInProgress \cap Retimer # {}

\* What every request that is not refused does before the fork: the limit, debug
\* mode on for an LTSSM dump.
Prepare(t) ==
  /\ up
  /\ ~InProgress(t)
  /\ LimitDumpEntries
  /\ IF t = "RetLTSSM" THEN SwitchDebugMode(TRUE) ELSE UNCHANGED retimerDebug

\* captureDump forks the collector of the type for the next id.
Fork(p, t) ==
  /\ Prepare(t)
  /\ collector[p].phase = "none"
  /\ lastEntryId < MaxId
  /\ collector' = [collector EXCEPT ![p] =
                     [phase |-> "collecting", id |-> lastEntryId + 1, type |-> t]]

\* captureDump registers the type and, in the parent, the Child source.
CaptureDump(p, t) ==
  /\ Fork(p, t)
  /\ childPtrMap' = childPtrMap \cup {p}
  /\ lastEntryId' = lastEntryId + 1
  /\ dumpInProgress' = dumpInProgress \cup {t}
  /\ UNCHANGED <<up, fileEvents>>

\* createDump.
CreateDump(p, t) ==
  /\ CaptureDump(p, t)
  /\ LET id   == lastEntryId + 1
         kept == KeepAfterLimit
     IN  entries' = IF kept[id].status = "none"
                    THEN [kept EXCEPT ![id] = NewEntry(t)] ELSE kept

\* The originator is looked at after the fork: when it is not valid the call
\* fails and there is no entry, but everything else goes on.
CreateDumpBadOriginator(p, t) ==
  /\ CaptureDump(p, t)
  /\ entries' = KeepAfterLimit

\* A request that is refused, as a duplicate, for its type or for want of
\* space: the limit has been applied before anything is checked.
RefuseDump ==
  /\ up
  /\ Excess # {}
  /\ LimitDumpEntries
  /\ entries' = KeepAfterLimit
  /\ UNCHANGED <<up, lastEntryId, dumpInProgress, childPtrMap, fileEvents,
                 collector, retimerDebug>>

\* fork fails after the type was registered and debug mode switched on.
ForkFails(t) ==
  /\ "fork" \in Faults
  /\ Prepare(t)
  /\ entries' = KeepAfterLimit
  /\ dumpInProgress' = dumpInProgress \cup {t}
  /\ UNCHANGED <<up, lastEntryId, childPtrMap, fileEvents, collector>>

\* The Child source fails: the type is taken back, the collector runs on.
ChildSourceFails(p, t) ==
  /\ "source" \in Faults
  /\ Fork(p, t)
  /\ entries' = KeepAfterLimit
  /\ UNCHANGED <<up, lastEntryId, dumpInProgress, childPtrMap, fileEvents>>

-----------------------------------------------------------------------------
(* Other D-Bus requests *)

\* Mutant: delete_ removes <dumpDir>/<id>, file or no file.
MutantDeletesById(id) ==
  /\ up
  /\ Live(id)
  /\ entries' = [entries EXCEPT ![id] = NoEntry]
  /\ files' = files \ {id}
  /\ UNCHANGED <<up, lastEntryId, dumpInProgress, childPtrMap, fileEvents,
                 collector, retimerDebug>>

\* Entry::delete_.
DeleteEntry(id) ==
  /\ up
  /\ Live(id)
  /\ RemoveFiles({id})
  /\ entries' = [entries EXCEPT ![id] = NoEntry]
  /\ UNCHANGED <<up, lastEntryId, dumpInProgress, childPtrMap, fileEvents,
                 collector, retimerDebug>>

\* Manager::deleteAll.
DeleteAll ==
  /\ up
  /\ NullIds = {} /\ Present # {}
  /\ RemoveFiles(Present)
  /\ entries' = [id \in Ids |-> NoEntry]
  /\ UNCHANGED <<up, lastEntryId, dumpInProgress, childPtrMap, fileEvents,
                 collector, retimerDebug>>

\* The DebugMode property of the retimer object, written by a client.
SetDebugMode(value) ==
  /\ "client" \in Faults
  /\ up
  /\ SwitchDebugMode(value)
  /\ UNCHANGED <<up, entries, lastEntryId, dumpInProgress, childPtrMap,
                 fileEvents, collector, files>>

-----------------------------------------------------------------------------
(* The collectors, external *)

\* The archive is closed.  A directory that is not new is not watched, and one
\* that is watched too late is not heard.
CollectorWrites(p) ==
  LET id == collector[p].id IN
  /\ collector[p].phase = "collecting"
  /\ collector' = [collector EXCEPT ![p].phase = "written"]
  /\ files' = files \cup {id}
  /\ \/ UNCHANGED fileEvents
     \/ id \notin files /\ fileEvents' = fileEvents \cup {id}
  /\ UNCHANGED <<up, entries, lastEntryId, dumpInProgress, childPtrMap,
                 retimerDebug>>

CollectorExits(p, phase) ==
  /\ collector[p].phase \in {"collecting", "written"}
  /\ collector' = [collector EXCEPT ![p] =
                     IF p \in childPtrMap THEN [@ EXCEPT !.phase = phase]
                                          ELSE NoProcess]
  /\ UNCHANGED <<up, entries, lastEntryId, dumpInProgress, childPtrMap,
                 fileEvents, files, retimerDebug>>

-----------------------------------------------------------------------------
(* Event-loop callbacks *)

\* Mutant: the type is given back by the Child callback only.
MutantCloseKeepsType(id) ==
  /\ id \in fileEvents
  /\ fileEvents' = fileEvents \ {id}
  /\ entries' = [entries EXCEPT ![id] = EntryAfterClose(@)]
  /\ IF entries[id].type = "RetLTSSM" THEN SwitchDebugMode(FALSE)
                                      ELSE UNCHANGED retimerDebug
  /\ UNCHANGED <<up, lastEntryId, dumpInProgress, childPtrMap, collector, files>>

\* watchCallback and createEntry: a known entry's type is no longer in
\* progress, and debug mode is switched off for an LTSSM dump.
FileClosed(id) ==
  /\ id \in fileEvents
  /\ fileEvents' = fileEvents \ {id}
  /\ entries' = [entries EXCEPT ![id] = EntryAfterClose(@)]
  /\ dumpInProgress' = dumpInProgress \ {entries[id].type}
  /\ IF entries[id].type = "RetLTSSM" THEN SwitchDebugMode(FALSE)
                                      ELSE UNCHANGED retimerDebug
  /\ UNCHANGED <<up, lastEntryId, childPtrMap, collector, files>>

\* Mutant: only a dump that succeeds gives its type back.
MutantFailureKeepsType(p, failed) ==
  /\ entries' = IF failed
                THEN [entries EXCEPT ![collector[p].id] = EntryAfterFailure(@)]
                ELSE entries
  /\ childPtrMap' = childPtrMap \ {p}
  /\ dumpInProgress' = IF failed THEN dumpInProgress
                       ELSE dumpInProgress \ {collector[p].type}

\* What the Child callback does with the manager's state.
ChildCallback(p, failed) ==
  /\ entries' = IF failed
                THEN [entries EXCEPT ![collector[p].id] = EntryAfterFailure(@)]
                ELSE entries
  /\ childPtrMap' = childPtrMap \ {p}
  /\ dumpInProgress' = dumpInProgress \ {collector[p].type}

ChildExited(p) ==
  /\ p \in childPtrMap
  /\ collector[p].phase \in {"exited0", "exited1"}
  /\ ChildCallback(p, collector[p].phase = "exited1")
  /\ collector' = [collector EXCEPT ![p] = NoProcess]
  /\ UNCHANGED <<up, lastEntryId, fileEvents, files, retimerDebug>>

\* A stop is reported like an exit, with the signal as a non-zero si_status.
ChildStopped(p) ==
  /\ "stop" \in Faults
  /\ p \in childPtrMap
  /\ collector[p].phase \in {"collecting", "written"}
  /\ ChildCallback(p, TRUE)
  /\ UNCHANGED <<up, lastEntryId, fileEvents, collector, files, retimerDebug>>

-----------------------------------------------------------------------------
(* Crash and restart *)

\* The collectors die with the daemon; the retimers stay as they are.
DaemonGone ==
  /\ up' = FALSE
  /\ entries' = [id \in Ids |-> NoEntry]
  /\ lastEntryId' = 0
  /\ dumpInProgress' = {}
  /\ childPtrMap' = {}
  /\ fileEvents' = {}
  /\ collector' = [p \in Pids |-> NoProcess]
  /\ UNCHANGED retimerDebug

Crash == up /\ DaemonGone /\ UNCHANGED files

\* Entries before the first null pointer are deleted, then delete_ is called
\* through it.
CrashOnNull(ids) ==
  /\ up
  /\ \E n \in ids \cap NullIds :
       /\ \A m \in ids \cap NullIds : n <= m
       /\ RemoveFiles({id \in ids : id < n})
  /\ DaemonGone

LimitCrashes     == CrashOnNull(Excess)
DeleteAllCrashes == CrashOnNull(Present)

\* Mutant: the last id is not restored.
MutantForgetsLastId(n) == n = 0

IsLastId(n) ==
  /\ n = 0 \/ n \in files
  /\ \A id \in files : id <= n

\* The constructor, then restore(): one entry, without a type, for every
\* archive; the retimer object starts with what the FPGA register says.
Restart ==
  /\ ~up
  /\ up' = TRUE
  /\ entries' = [id \in Ids |-> IF id \in files THEN CompletedEntry("")
                                                ELSE NoEntry]
  /\ \E n \in 0 .. MaxId : IsLastId(n) /\ lastEntryId' = n
  /\ UNCHANGED <<dumpInProgress, childPtrMap, fileEvents, collector, files,
                 retimerDebug>>

-----------------------------------------------------------------------------

Init ==
  /\ up = TRUE
  /\ entries = [id \in Ids |-> NoEntry]
  /\ lastEntryId = 0
  /\ dumpInProgress = {}
  /\ childPtrMap = {}
  /\ fileEvents = {}
  /\ collector = [p \in Pids |-> NoProcess]
  /\ files = {}
  /\ retimerDebug = FALSE

Request ==
  \/ \E p \in Pids, t \in Types : \/ CreateDump(p, t)
                                \/ CreateDumpBadOriginator(p, t)
                                \/ ChildSourceFails(p, t)
  \/ \E t \in Types : ForkFails(t)
  \/ RefuseDump
  \/ \E id \in Ids : DeleteEntry(id)
  \/ DeleteAll
  \/ \E value \in BOOLEAN : SetDebugMode(value)

CollectorProgress(p) ==
  \/ CollectorWrites(p)
  \/ CollectorExits(p, "exited0")
  \/ CollectorExits(p, "exited1")

Next ==
  \/ Request
  \/ \E p \in Pids : CollectorProgress(p)
  \/ \E id \in Ids : FileClosed(id)
  \/ \E p \in Pids : ChildExited(p) \/ ChildStopped(p)
  \/ Crash
  \/ LimitCrashes
  \/ DeleteAllCrashes
  \/ Restart

Spec == Init /\ [][Next]_vars

\* The event loop dispatches every pending event; that a collector ends is
\* assumed, nothing in the code sees to it.
Fairness ==
  /\ \A id \in Ids : WF_vars(FileClosed(id))
  /\ \A p \in Pids : WF_vars(ChildExited(p)) /\ WF_vars(CollectorProgress(p))

FairSpec == Spec /\ Fairness

-----------------------------------------------------------------------------
(* Properties *)

TypeOK ==
  /\ up \in BOOLEAN
  /\ entries \in [Ids -> EntryType]
  /\ lastEntryId \in 0 .. MaxId
  /\ dumpInProgress \subseteq Types
  /\ childPtrMap \subseteq Pids
  /\ fileEvents \subseteq Ids
  /\ collector \in [Pids -> ProcessType]
  /\ files \subseteq Ids
  /\ retimerDebug \in BOOLEAN

\* "Check whether there is same dump already running.  Also ensure RetLTSSM
\* and RetRegister will not run at the same time": of two collectors still at
\* work, neither has the type of the other, nor do both read the retimers.
NoConflictingDumps ==
  \A p, q \in Pids :
    /\ p # q
    /\ collector[p].phase = "collecting"
    /\ collector[q].phase = "collecting"
    => /\ collector[p].type # collector[q].type
       /\ ~({collector[p].type, collector[q].type} \subseteq Retimer)

\* dumpInProgress is "a set containing string of dump types that are in
\* progress": a type in it has a collector whose end the event loop will
\* report, so that it is not refused for ever.
InProgressHasCollector ==
  \A t \in dumpInProgress :
    \E p \in childPtrMap : Alive(p) /\ collector[p].type = t

\* As long as an LTSSM dump is registered as in progress, the retimers are in
\* the debug mode it needs (when no client switches it off, and the register
\* can be written).
RegisteredLtssmInDebugMode == "RetLTSSM" \in dumpInProgress => retimerDebug

\* createEntry reads the size of the file it was told of and does not catch
\* the exception of a missing one: a reported archive is still there.
ReportedFilesExist == fileEvents \subseteq files

\* A dump that is offered for download is on disk, whatever was deleted, cut
\* by the limit or restored meanwhile.
OfferedDumpsAreOnDisk == \A id \in Ids : entries[id].file => id \in files

\* The next id to be given has neither an object, nor an archive, nor a
\* collector, and no two collectors share an id.
IdsNameOneDump ==
  /\ \A p, q \in Pids :
       Alive(p) /\ Alive(q) /\ collector[p].id = collector[q].id => p = q
  /\ up => \A id \in Ids : id > lastEntryId =>
             /\ entries[id] = NoEntry
             /\ id \notin files
             /\ \A p \in Pids : Alive(p) => collector[p].id # id

\* A type does not stay refused: every registered type is given back, provided
\* the collectors end.
TypeGivenBack ==
  \A t \in Types : t \in dumpInProgress ~> t \notin dumpInProgress
=============================================================================
