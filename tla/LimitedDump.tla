---------------------------- MODULE LimitedDump ----------------------------
(***************************************************************************)
(* The limits of the dump managers: the quota and the rotation of the BMC  *)
(* dump manager (getAllowedSize, dump_manager_bmc.cpp), and the fault log  *)
(* and FDR managers (dump-extensions/faultlog-dump, fdr-dump), which keep  *)
(* a number of dumps and delete the oldest to make room for one more.      *)
(*                                                                         *)
(* One manager, as one build configures it, is modelled at a time.  Sizes  *)
(* are in units a dump's size is a few of.  What BmcDump shows of the BMC  *)
(* manager (types, timers, the watch on each new directory) is left out:   *)
(* here the event of a closed archive is either queued or missed.  A       *)
(* capture dies with the daemon, as systemd stops its whole control group. *)
(* A directory that is removed goes with all that is in it, or, where that *)
(* fails, stays with it.  The scripts stand behind the actions named Job.  *)
(***************************************************************************)
EXTENDS Integers, FiniteSetsExt

CONSTANTS
  Configs,     \* the builds: the manager, whether it rotates, its limit
  MaxId,       \* bound on the ids given
  MaxJobs,     \* bound on the captures at one time
  TOTAL_SIZE,
  MIN_SPACE_REQD,
  MAX_SIZE,
  EXCESS       \* what an archive may have above the size dreport was given

ConfigType == [manager : {"bmc", "faultlog", "fdr"}, rotates : BOOLEAN,
               limit : Nat]

\* The BMC manager has no limit on their number.
ASSUME ConfigAssumption ==
  /\ Configs \subseteq ConfigType
  /\ \A c \in Configs : c.manager = "bmc" => c.limit = 0
ASSUME BoundAssumption  == MaxId \in Nat /\ MaxJobs \in Nat
ASSUME SizeAssumption   ==
  /\ TOTAL_SIZE \in Nat /\ MAX_SIZE \in Nat \ {0}
  /\ MIN_SPACE_REQD \in 1 .. MAX_SIZE
  /\ EXCESS \in Nat

VARIABLES
  config,
  up,           \* the daemon runs
  entries,      \* the entry map, null pointers included
  lastEntryId,
  job,          \* the capture of each id
  allowed,      \* the size each capture was given, until its archive is written
  closed,       \* ids whose IN_CLOSE_WRITE is queued
  dirs,         \* ids whose dump directory exists
  archive,      \* ids whose archive is in it
  used,         \* the size of the archive in each directory
  saved,        \* ids whose originator is saved beside it, in .preserve
  overlapped    \* observed: a BMC manager that does not rotate has had two
                \* captures at one time

memory == <<entries, lastEntryId>>
jobs   == <<job, allowed>>
disk   == <<dirs, archive, used, saved>>
vars   == <<config, up, memory, jobs, closed, disk, overlapped>>

Ids     == 1 .. MaxId
IsBmc   == config.manager = "bmc"
IsFault == config.manager = "faultlog"
IsFdr   == config.manager = "fdr"

NoEntry    == [status |-> "none", file |-> FALSE]
NullEntry  == [status |-> "null", file |-> FALSE]
NewEntry   == [status |-> "InProgress", file |-> FALSE]
Offered    == [status |-> "Completed", file |-> TRUE]
LiveStatus == {"InProgress", "Completed", "Failed"}
EntryType  == [status : LiveStatus \cup {"none", "null"}, file : BOOLEAN]

Live       == {i \in Ids : entries[i].status \in LiveStatus}
Nulls      == {i \in Ids : entries[i].status = "null"}
InMap      == Live \cup Nulls
Running    == {i \in Ids : job[i] # "none"}

-----------------------------------------------------------------------------
(* Space *)

Archived(is) == MapThenSumSet(LAMBDA i : used[i], is)

\* What is saved takes a unit.
SizeOf(is) == Archived(is) + Cardinality(saved \cap is)

Left(taken) == IF taken > TOTAL_SIZE THEN 0 ELSE TOTAL_SIZE - taken
\* Mutant: the size of one dump is not limited.
MutantUncapped(n) == n

Capped(n) == IF n > MAX_SIZE THEN MAX_SIZE ELSE n

\* Mutant: delete_ removes the directory, file or no file.
MutantDirectoriesOf(is) == is

\* delete_ removes the parent directory of the entry's file, and one that is in
\* progress or has failed has no file.
DirectoriesOf(is) == {i \in is : entries[i].file}

\* Mutant: only what belongs to an entry is counted.
MutantEstimate(is) == Left(SizeOf(DirectoriesOf(Live))) + SizeOf(is)

\* The BMC manager works out what it will have when it has deleted these: it
\* adds the size of each one's directory, whether delete_ removes it or not.
Estimate(is) == Left(SizeOf(dirs)) + SizeOf(is)

\* The fault log manager walks the directory again: freed are the directories
\* that were removed, the failure of which is logged.
Measured(is, freed) == Left(SizeOf(dirs \ (freed \cap is)))

\* The walk throws when a file goes away meanwhile, and counts as no space.
WalkFails == Running # {}

-----------------------------------------------------------------------------
(* The limits: gone is what the manager has deleted so far, freed the         *)
(* directories that went with it                                             *)

\* Mutant: one is too many only when the limit is exceeded.
MutantTooMany(gone) ==
  config.limit > 0 /\ Cardinality(InMap \ gone) > config.limit

\* limitDumpEntries
TooMany(gone) == config.limit > 0 /\ Cardinality(InMap \ gone) >= config.limit

\* Mutant: the minimum itself is not enough.
MutantTooFull(gone, freed) ==
  \/ IsBmc /\ Estimate(gone) <= MIN_SPACE_REQD
  \/ IsFault /\ (Measured(gone, freed) <= MIN_SPACE_REQD \/ WalkFails)

\* limitTotalDumpSize, and the loop of getAllowedSize
TooFull(gone, freed) ==
  \/ IsBmc /\ Estimate(gone) < MIN_SPACE_REQD
  \/ IsFault /\ (Measured(gone, freed) < MIN_SPACE_REQD \/ WalkFails)

EnoughSpace(gone, freed) ==
  /\ IsBmc => Estimate(gone) >= MIN_SPACE_REQD
  /\ IsFault => Measured(gone, freed) >= MIN_SPACE_REQD

\* A fault log goes on with less than it needs, when there is no dump left to
\* delete and some space.
GoesOn(gone, freed) ==
  /\ ~TooMany(gone)
  /\ \/ EnoughSpace(gone, freed)
     \/ IsFault /\ config.rotates /\ InMap = gone /\ Measured(gone, freed) > 0

\* The manager is to delete one more.
DeletesMore(gone, freed) == TooMany(gone) \/ (config.rotates /\ TooFull(gone, freed))

NextOne(gone) == Min(InMap \ gone)

\* Mutant: the newest goes first.
MutantFirst(n) == {i \in InMap : Cardinality({j \in InMap : j > i}) < n}

\* The entries are ordered by id, and the oldest goes first.
First(n) == {i \in InMap : Cardinality({j \in InMap : j < i}) < n}

\* gone can have been deleted, and nothing went wrong yet.
Deletes(gone, freed) ==
  /\ gone \subseteq Live
  /\ gone = First(Cardinality(gone))
  /\ IsBmc => gone \subseteq dirs
  /\ \A n \in 0 .. Cardinality(gone) - 1 : DeletesMore(First(n), freed)

\* createDump is refused: there is no space; or (BMC) the directory of the one
\* to delete is not there to be measured; or, the limits applied, the fork
\* fails, or (FDR) the partition is full or the parameters are wrong.
Refuses(gone, freed) ==
  /\ Deletes(gone, freed)
  /\ ~TooMany(gone)
  /\ \/ /\ IsBmc /\ TooFull(gone, freed)
        /\ config.rotates => gone # InMap /\ NextOne(gone) \notin dirs
     \/ /\ IsFault /\ TooFull(gone, freed)
        /\ config.rotates => gone = InMap /\ (Measured(gone, freed) = 0 \/ WalkFails)
     \/ GoesOn(gone, freed)

\* The one to delete is a null pointer, or (BMC) there is none.
Crashes(gone, freed) ==
  /\ Deletes(gone, freed)
  /\ DeletesMore(gone, freed)
  /\ IF gone = InMap THEN IsBmc
     ELSE NextOne(gone) \in Nulls /\ (IsBmc => NextOne(gone) \in dirs)

RemoveDirectories(is) ==
  /\ dirs' = dirs \ is
  /\ archive' = archive \ is
  /\ used' = [i \in Ids |-> IF i \in is THEN 0 ELSE used[i]]
  /\ saved' = saved \ is

Without(is) == [i \in Ids |-> IF i \in is THEN NoEntry ELSE entries[i]]

-----------------------------------------------------------------------------
(* createDump *)

Fork(i, phase, size) ==
  /\ Cardinality(Running) < MaxJobs
  /\ lastEntryId' = i
  /\ job' = [job EXCEPT ![i] = phase]
  /\ allowed' = [allowed EXCEPT ![i] = size]
  /\ overlapped' = (overlapped \/ (IsBmc /\ ~config.rotates /\ Running # {}))

\* Only dreport is given a size, that which was estimated.
AllowedSize(gone) == IF IsBmc THEN Capped(Estimate(gone)) ELSE MAX_SIZE

Capture(gone, freed) ==
  /\ up /\ lastEntryId < MaxId
  /\ Deletes(gone, freed)
  /\ GoesOn(gone, freed)
  /\ RemoveDirectories(freed)
  /\ Fork(lastEntryId + 1, "started", AllowedSize(gone))
  /\ UNCHANGED <<config, up, closed>>

CreateDump(gone, freed) ==
  /\ Capture(gone, freed)
  /\ entries' = [Without(gone) EXCEPT ![lastEntryId + 1] = NewEntry]

\* The fault log and FDR managers look at the originator of a request when its
\* script runs: no entry is made for an invalid one.
CreateDumpBadOriginator(gone, freed) ==
  /\ ~IsBmc
  /\ Capture(gone, freed)
  /\ entries' = Without(gone)

RefuseDump(gone, freed) ==
  /\ up
  /\ Refuses(gone, freed)
  /\ RemoveDirectories(freed)
  /\ entries' = Without(gone)
  /\ UNCHANGED <<config, up, lastEntryId, jobs, closed, overlapped>>

\* An FDR action other than Collect: the script is given an id, no entry is
\* made for it and no limit applied.
FdrAction ==
  /\ up /\ IsFdr /\ lastEntryId < MaxId
  /\ Fork(lastEntryId + 1, "acting", 0)
  /\ UNCHANGED <<config, up, entries, closed, disk>>

\* delete_, as called by a client, and by deleteAll for each entry.
DeleteEntry(i) ==
  /\ up /\ i \in Live
  /\ \E freed \in SUBSET DirectoriesOf({i}) : RemoveDirectories(freed)
  /\ entries' = Without({i})
  /\ UNCHANGED <<config, up, lastEntryId, jobs, closed, overlapped>>

-----------------------------------------------------------------------------
(* The scripts, external: a directory, an archive in it, and the end *)

JobMakesDir(i) ==
  /\ job[i] = "started"
  /\ job' = [job EXCEPT ![i] = "writing"]
  /\ dirs' = dirs \cup {i}
  /\ UNCHANGED <<config, up, memory, allowed, closed, archive, used, saved, overlapped>>

\* dreport counts what it collects, and packs it without looking at the size of
\* the archive.
JobWrites(i, size) ==
  /\ job[i] = "writing"
  /\ size <= allowed[i] + (IF IsBmc THEN EXCESS ELSE 0)
  /\ IsFdr => size = 1    \* the FDR manager does not look at sizes
  /\ job' = [job EXCEPT ![i] = "written"]
  /\ allowed' = [allowed EXCEPT ![i] = 0]
  /\ archive' = archive \cup {i}
  /\ used' = [used EXCEPT ![i] = size]
  /\ closed' \in {closed, closed \cup {i}}
  /\ UNCHANGED <<config, up, memory, dirs, saved, overlapped>>

\* createDumpFailed looks its entry up with operator[].
Failed(e) == IF e.status \in LiveStatus THEN [e EXCEPT !.status = "Failed"]
                                        ELSE NullEntry

\* The exit of the script, and the Child callback.
JobExits(i, ok) ==
  /\ i \in Running
  /\ ok => job[i] \in {"written", "acting"}
  /\ job' = [job EXCEPT ![i] = "none"]
  /\ allowed' = [allowed EXCEPT ![i] = 0]
  /\ entries' = IF ok THEN entries ELSE [entries EXCEPT ![i] = Failed(@)]
  /\ UNCHANGED <<config, up, lastEntryId, closed, disk, overlapped>>

-----------------------------------------------------------------------------
(* The events of closed archives *)

\* The entry is updated, or made.  A null pointer is left alone by the BMC
\* manager; the others go through it (see Crash).  An entry of the BMC manager
\* that is updated saves its originator, unless that fails.
createEntry(i) ==
  /\ i \in Nulls => IsBmc
  /\ entries' = IF i \in Nulls THEN entries ELSE [entries EXCEPT ![i] = Offered]
  /\ saved' = saved \/ (IsBmc /\ i \in Live /\ saved' = saved \cup {i})

\* watchCallback
FileClosed(i) ==
  /\ up /\ i \in closed
  /\ closed' = closed \ {i}
  /\ createEntry(i)
  /\ UNCHANGED <<config, up, lastEntryId, jobs, dirs, archive, used, overlapped>>

-----------------------------------------------------------------------------
(* The daemon goes down and restores its entries *)

Dies ==
  /\ up' = FALSE
  /\ entries' = [i \in Ids |-> NoEntry]
  /\ lastEntryId' = 0
  /\ job' = [i \in Ids |-> "none"]
  /\ allowed' = [i \in Ids |-> 0]
  /\ closed' = {}
  /\ UNCHANGED <<config, overlapped>>

\* For any reason, one of which is that createEntry of the fault log and FDR
\* managers goes through a null pointer.
Crash == up /\ Dies /\ UNCHANGED disk

CreateCrashes(gone, freed) ==
  /\ up
  /\ Crashes(gone, freed)
  /\ RemoveDirectories(freed)
  /\ Dies

\* Mutant: the ids of the directories without an archive are not looked at.
MutantRestores ==
  /\ entries' = [i \in Ids |-> IF i \in archive THEN Offered ELSE NoEntry]
  /\ lastEntryId' = Max(archive \cup {0})

restore ==
  /\ entries' = [i \in Ids |-> IF i \in archive THEN Offered ELSE NoEntry]
  /\ lastEntryId' = Max(dirs \cup {0})

Restart ==
  /\ ~up
  /\ up' = TRUE
  /\ restore
  /\ UNCHANGED <<config, jobs, closed, disk, overlapped>>

-----------------------------------------------------------------------------
Init ==
  /\ config \in Configs
  /\ up = TRUE
  /\ entries = [i \in Ids |-> NoEntry]
  /\ lastEntryId = 0
  /\ job = [i \in Ids |-> "none"]
  /\ allowed = [i \in Ids |-> 0]
  /\ closed = {}
  /\ dirs = {}
  /\ archive = {}
  /\ used = [i \in Ids |-> 0]
  /\ saved = {}
  /\ overlapped = FALSE

Next ==
  \/ \E gone \in SUBSET Live : \E freed \in SUBSET DirectoriesOf(gone) :
       \/ CreateDump(gone, freed) \/ CreateDumpBadOriginator(gone, freed)
       \/ RefuseDump(gone, freed) \/ CreateCrashes(gone, freed)
  \/ FdrAction
  \/ \E i \in Ids : DeleteEntry(i) \/ JobMakesDir(i) \/ FileClosed(i)
  \/ \E i \in Ids, size \in 1 .. MAX_SIZE + EXCESS : JobWrites(i, size)
  \/ \E i \in Ids, ok \in BOOLEAN : JobExits(i, ok)
  \/ Crash
  \/ Restart

Spec == Init /\ [][Next]_vars

-----------------------------------------------------------------------------
(* Properties *)

\* The variables keep their types; only archives take space, an originator is
\* saved beside one, and only an offered or failed entry has a file.
TypeOK ==
  /\ config \in Configs
  /\ up \in BOOLEAN
  /\ entries \in [Ids -> EntryType]
  /\ \A i \in Ids : entries[i].file => entries[i].status \in {"Completed", "Failed"}
  /\ lastEntryId \in 0 .. MaxId
  /\ job \in [Ids -> {"none", "started", "writing", "written", "acting"}]
  /\ allowed \in [Ids -> 0 .. MAX_SIZE]
  /\ closed \subseteq archive
  /\ archive \subseteq dirs
  /\ dirs \subseteq Ids
  /\ used \in [Ids -> 0 .. MAX_SIZE + EXCESS]
  /\ \A i \in Ids : used[i] # 0 => i \in archive
  /\ saved \subseteq archive
  /\ overlapped \in BOOLEAN

\* The id the next capture is given is that of no entry, no directory and no
\* script there is, whatever was deleted and whatever a restart found: it writes
\* into no other dump's directory, and no other entry takes its archive.  (After
\* a restart, the id of a dump or a script of which nothing is left can be given
\* again.)
NextIdIsFree ==
  up => \A i \in Ids :
          i \in InMap \/ i \in dirs \/ i \in Running => i <= lastEntryId

\* A BMC dump manager that does not rotate keeps its total, as long as its
\* captures run one at a time: however many there were, only the last can have
\* exceeded what was left, by what its archive has above the size it was given;
\* and what is saved beside the archives is not counted on.
QuotaKept ==
  IsBmc /\ ~config.rotates /\ ~overlapped =>
    SizeOf(dirs) <= TOTAL_SIZE + EXCESS + Cardinality(saved)

\* What createDump removes to make room, whether or not it is refused then.
Removed == {i \in InMap : entries'[i] = NoEntry}
Freed   == dirs \ dirs'
Adds    == /\ lastEntryId' > lastEntryId
           /\ \/ CreateDump(Removed, Freed)
              \/ CreateDumpBadOriginator(Removed, Freed)
MakesRoom == Removed # {} /\ (Adds \/ RefuseDump(Removed, Freed))

\* No entry is removed to make room for a dump while an older one is kept.
OldestFirst ==
  [][\A i \in Removed, j \in InMap \ Removed : j < i => ~MakesRoom]_vars

\* A dump is only added where the manager keeps as many as its limit, whatever
\* the null pointers and the late archives have added to the map before.
CountLimited ==
  [][/\ config.limit > 0
     /\ Adds
     => Cardinality(InMap') <= config.limit]_vars

\* With no capture under way, the dumps removed for a new one were in its way:
\* with the newest of them kept there would be too many or too little space.  A
\* directory that could not be removed frees none, and costs the next dump.
RemovesOnlyWhatItMust ==
  [][Running = {} /\ MakesRoom =>
       LET kept == Removed \ {Max(Removed)}
       IN  \/ /\ config.limit > 0
              /\ Cardinality(InMap \ kept) >= config.limit
           \/ /\ config.rotates
              /\ (IF IsBmc THEN Estimate(kept) ELSE Measured(kept, Freed))
                   < MIN_SPACE_REQD]_vars

=============================================================================
