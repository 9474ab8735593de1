# phosphor-debug-collector in TLA+

This directory is a verification development of phosphor-debug-collector, the
daemon that collects, keeps and offers dumps on a BMC, together with the
extensions of the nvidia branch. It holds TLA+ modules translated from the
source, configurations that model-check them with TLC, and theorems that TLAPS
checks. `PROJECT.json` ties every definition to the lines it models, every run
to its properties, and every property to a mutation of the code that breaks it.

Paths below are relative to `src/`.

## 1. The system

One process, `dump_manager_main.cpp`, runs an sd-event loop. Everything the
daemon does is a handler of that loop: a D-Bus method, a signal match, an
inotify callback, a Child callback for a process that ended, a timer. Handlers
are atomic with respect to one another. They interleave with what is outside
the loop: the collector processes, the kernel's inotify and signal queues, the
logging service, clients, and the end of the daemon itself. Nothing in the
daemon waits for a dump: a request forks a collector and returns; the rest of
the dump's life is a race of events.

| Component | State | Operations | Talks to | What is hard |
|---|---|---|---|---|
| BMC dump manager (`dump_manager_bmc`, `dump_manager`) | entry map, last id, user flag, Child sources, directory watches | createDump, deleteAll, watchCallback, Child callback, restore | dreport (fork, exit status, files), entries, inotify watch | file event and exit in either order; delete of a dump in progress; restart; failures after the fork |
| BMC dump entry (`bmc_dump_entry`, `dump_entry`) | status, file, originator, progress timer, open handle | update, setFailedStatus, delete_, getFileHandle, initiateOffload, serialize | manager, disk, offload | timer against exit; crash before the entry is saved |
| dreport (`tools/dreport.d/dreport`) | temporary directory, dump directory, archive | initialize, collect, package | manager (exit status), disk | every step can fail, with or without an archive |
| inotify watch (`watch.cpp`) | mask, path, descriptor | callback | managers | several events in one read |
| system dump manager, nvidia (`dump-extensions/nvidia-dumps/`) | entry map, last id, set of types in progress, Child sources | createDump, limit, watchCallback, Child callback, restore | collector programs, retimer debug mode | a type is registered before the fork and released twice; limit |
| retimer debug mode (`retimer_debug_mode_state.cpp`) | one FPGA register bit | the DebugMode property | system dump manager, clients | who switches it off |
| error log watch (`elog_watch`, `dump_serialize`) | set of log ids, in memory and in a file | addCallback, delCallback, constructor | logging service, BMC dump manager | announced again, announced while down, torn file |
| core file and ramoops monitors | none | callback, start-up pass | BMC dump manager over D-Bus | several files in one callback |
| dump offload (`dump_offload.cpp`) | socket | requestOffload | a reader | blocks the event loop |
| fault log and FDR managers, nvidia | entry map, last id | as the system manager, with count and size limits | collector programs | limits against dumps in progress; null entries |
| create-dump-dbus (`create-dump-dbus/`) | client connections, copies in /tmp | request, wait, copy | dump managers over D-Bus | timeouts, clients that leave, a server that dies |
| NSM network dump tool (`nsm-net-dump-tool/`) | record handle, counters | next record, save, erase | NSM daemon over D-Bus | an error taken for the end |
| openpower managers, PLDM (`dump-extensions/openpower-dumps/`) | entries with a source id | createDump, notify, offload, delete | the host | the host's notification against the request, ids given again |

What makes each correct, in one sentence: the BMC manager must be a store that
outlives its daemon, admit one user dump at a time and give an id to one dump;
the system manager must keep conflicting collectors apart and never refuse a
type for ever; the log watch must give each log at most one dump and must not
forget one it was told of; the limits must delete the oldest dumps, no more of
them than is needed, and give no id that is still of a dump, a directory or a
script; the NSM tool must not have a switch erase what it did not save; create-dump-dbus must tell each client how
each of its dumps went, and end every request; the openpower managers must have
one entry for each dump of the host.

## 2. Modules

| Module | Models | Kind |
|---|---|---|
| `BmcDump` | BMC dump manager, its entries, dreport, watches, crash and restart | component |
| `MCBmcDump` | instances of it | TLC |
| `BmcDumpProofs` | its invariants, and the refinement | theorems |
| `DumpStore` | what a dump manager promises | abstract specification |
| `BmcDumpStore` | the refinement mapping from `BmcDump` to `DumpStore` | composition |
| `MCBmcDumpStore` | an instance of the refinement | TLC |
| `SystemDump`, `MCSystemDump` | system dump manager of the nvidia extension, retimer debug mode | component |
| `SystemDumpStore` | the refinement mapping from `SystemDump` to `DumpStore` | composition |
| `SystemDumpProofs` | its invariants, and the refinement | theorems |
| `ElogWatch`, `MCElogWatch` | error log watch and its saved list | component |
| `ElogWatchProofs` | its invariants, and that announcements are heard | theorems |
| `LimitedDump`, `MCLimitedDump` | quota and rotation of the BMC manager, fault log manager, FDR manager | component |
| `LimitedDumpStore` | the refinement mapping from `LimitedDump` to `DumpStore` | composition |
| `LimitedDumpProofs` | its invariants, what it deletes, and the refinement | theorems |
| `NsmDump`, `MCNsmDump` | NSM network dump tool | component |
| `CreateDumpDbus`, `MCCreateDumpDbus` | server and clients of create-dump-dbus | component |
| `OpenpowerDump`, `MCOpenpowerDump` | system and resource dump managers of OpenPOWER | component |
| `DumpOffload`, `MCDumpOffload` | file handles and the offload of a dump | component |
| `NsmDumpProofs`, `CreateDumpDbusProofs`, `OpenpowerDumpProofs`, `DumpOffloadProofs` | the invariants of these four, and the bounds on the steps of three | theorems |

### BmcDump

State. `entries` is the map of D-Bus objects (absent, live with a status, or a
null pointer, which `operator[]` can insert). `file` says whether the entry's
file name is set, which is what decides whether `delete_` removes a directory.
`dreport` gives the phase of each process. `dirs`, `archive` and `preserved`
are the disk: `<dumpDir>/<id>`, the archive in it (none, partial, whole), and
the originator in `.preserve`. `dirEvents` and `fileEvents` are the kernel's
queues between a process and the loop.

Actions. One per handler: `CreateDump` is createDump with captureDump and the
fork; `FileClosed` is watchCallback with removeWatch, createEntry, update and
serialize; `ChildExited` is the Child callback; `Restart` is construction and
restore. dreport has an action per step that the manager can tell: making the
directory, copying the archive (whole, cut short, or astray when the directory
is gone), and ending. `Crash` ends the daemon at any point, in the middle of a
copy too.

What is left out: names, times, sizes; refused requests, which change nothing;
the rotation of the build option and the quota (in `LimitedDump`); file handles
and offload (in `DumpOffload`); a crash in the middle of writing `.preserve`; a dreport
whose mkdir fails (it ends as in `DreportCopyAstray` or `DreportFails`); a
child whose exec fails, which unwinds as a second daemon.

`Serialize` is serialize(): it saves the originator of an entry that existed, or
fails, which is logged at most, and the entry is completed all the same.

`Faults` names the rare faults of the environment: `stop` (a dreport is stopped
by a signal), `source` (the Child event source cannot be made), `survive`
(dreport outlives the daemon), `rmfail` (a directory cannot be removed, and
stays with all that is in it), `savefail` (`.preserve` cannot be opened or
written). A run says which may occur. `entryProcessGroupID` is read uninitialised by the timer;
nothing ever stores a dreport's group there, so the timer only stops itself,
and a garbage value that names the daemon's own group is a `Crash`.

### DumpStore, and the managers that implement it

The abstract store has three variables: whether the daemon is up, which dumps
are kept (with the originator a restart would report), which are offered.
Dumps are stored, published, deleted; the daemon stops and starts. Stopping is
the one step that says how a crash may leave things: a dump on offer stays as
it was or is gone, one that was not and is kept stays, and something new may
have been left by a write that was cut short.

`BmcDumpStore`, `SystemDumpStore` and `LimitedDumpStore` map the three models
of the managers to it: a dump is kept when its archive is on disk, and offered
when an entry names its file. Only the BMC manager saves who asked; for the
others all dumps look alike. The store says what a client can rely on:

- `OfferedAreKept`: a dump on offer is kept, under the originator it is offered
  with, or under the one reported when none was saved (`Unsaved`: of the BMC
  manager the BMC itself, `Internal`);
- `NoneGoesUnseen`: no step, a crash among them, loses a dump that is kept and
  not on offer;
- `OriginatorStays`: which originator a restart reports for a dump is settled
  when it is offered, and stays with it as long as it is kept.

What the managers differ in (one flag or a set of types, limits, rotation,
quota) is below the level of the store: whatever they delete to make room, they
delete as a client would.

### SystemDump

The manager differs from the BMC's in what it guards: a set of types instead of
one flag, a limit on the number of entries instead of a size quota. Directories
and watches are as in `BmcDump`, and not repeated: a collector writes its
archive in one step that is reported or not. `Prepare` is what every accepted
request does before the fork; the limit is part of every request, refused ones
too (`RefuseDump`). `captureDump` can fail at the fork (`ForkFails`) and at the
event source (`ChildSourceFails`); createDump can fail after it, on an
originator it parses too late (`CreateDumpBadOriginator`: the collector runs,
the type is registered, there is no entry). The empty type, the dump of dreport,
is a type like the others. `retimerDebug` is the FPGA bit; it survives the
daemon. `Faults` are `fork`, `source`, `stop` and `rmfail` as in `BmcDump`,
`i2c` (the register cannot be written) and `client` (a D-Bus client writes
DebugMode). The progress timer changes nothing but itself and is
left out, and so is the ServiceReady state, which follows the debug mode. The
run without a limit (`SYSTEM_DUMP_MAX_LIMIT` 0) is the model with a limit that
`MaxId` never reaches.

### ElogWatch

The logging service is external: it adds and removes logs, and announces the
logs it still has when it restarts. Signals sent while the daemon is down are
lost. `AddCallback` notes the id, saves the list and asks for a dump, which is
made or refused for the quota; `AddCallbackFails` is any other exception, which
ends the daemon. `TornWrite`, at most `MaxTears` times, stops the daemon in the middle of overwriting the
list; `Restart` reads what is there, as cereal does: the first ids, then an
error, after which the file is removed.

### LimitedDump

Three managers of one shape: the BMC's, when its quota and rotation are looked
at, and the two of the nvidia extension that limit what they keep. `config`
picks the manager and its build options; it never changes. Sizes are small
numbers. `SizeOf` is getDirectorySize: the archives (`Archived`) and, one unit
each, the originators that the BMC manager saves in the directories it measures
(`saved`, at the file event of an entry, unless serialize() fails). dreport is
given a size and packs its archive without looking at it again
(`tools/dreport.d/dreport`, `package`): `JobWrites` lets it exceed the size
given by up to `EXCESS`.

What one request deletes before it forks or is refused is a set `gone` of
entries, always the oldest, that the loops of the code reach one by one
(`Deletes`), and a set `freed` of those of their directories that were removed:
`delete_` logs a removal that fails, and the entry goes all the same
(`faultlog_dump_entry.cpp:35`). `TooMany` is limitDumpEntries, `TooFull` is
limitTotalDumpSize and the loop of getAllowedSize. The BMC manager adds up what
it expects to free (`Estimate`), the fault log manager walks the directory again
(`Measured`), and sees what stayed. A request that is refused has deleted what
it had (`RefuseDump`); one that meets a null pointer, or no entry at all, ends
the daemon (`CreateCrashes`). `FdrAction` is an FDR request other than Collect.
The watch on each new directory is not repeated from `BmcDump`: the close of an
archive is queued or missed. A capture that keeps running without an event
source is in `BmcDump` and `SystemDump`, and left out here. A directory is
removed whole or not at all.

### NsmDump

One process and one device. `RequestRecord`, `PollStatus`, `SaveRecord`,
`ReadRecord` and `NextRecord` are the loop that the four functions share (it is
written out four times in `main.cpp`); `SendErase` and `EraseStatus` are the
erase loop of `getSwitchDump`. The record a handle names and the handle that
follows are the device's: it may name any (`getNextRecord`), the same or an
earlier one too, and the loop goes on until it names 0 (`main.cpp:634`).
`ReadRecord` reads the descriptor of a record until it ends (`:441`), which
nothing in the tool bounds; it is an action beside those of the tool, which
waits for it. Every call may fail at any time. Three failures cannot be noticed:
a handle that cannot be read is taken for 0, the end (`:354`), a wrong handle for
the right one, and a read or write error in the middle of a record for the end of
the record. `unnoticed` records them, and the properties of the saved data allow
for them: without it
`ErasedOnlyIfSaved` fails, that is, a switch is asked to erase a dump that is
reported as "completed successfully" and of which records are missing. The
narrowing of the index to eight bits (`main.cpp:960`) is left out, and so is
`sendSwitchResetCommand`, which nothing calls.

### CreateDumpDbus

The server handles a request inside one callback of its event loop, so it is a
sequential program; `pc` is where it is. Time is counted in polls. Its
environment is the dump it waits for (which may complete, fail, hang or be
deleted), and the clients, which queue on the socket and may leave. `Dies` is
the end of the server, by a signal, by the exception of `sendMsg` to a client
that has gone, or by that of `directory_iterator` on a directory that was
removed. A client whose server died reads nothing for ever: `read()` returns 0,
which `doCreateDumpCall` takes for an empty message
(`create_dump_dbus.cpp:550`); that is the state `spinning`, and the reason why
`RequestEnds` says that a client leaves `reading`, not that it ends.

### OpenpowerDump

`kind` picks the system or the resource manager. The dumps are the host's; the
manager's entries refer to them by `source`, which the host gives when it
notifies. `NotifyIgnored`, `NotifyNew`, `NotifyStale` and `NotifyThrows` are the
outcomes of notify. `NotifyStale` erases an entry under the iterator of its
loop (`dump_manager_system.cpp:75`): what the loop does then is a choice over
what a build may do. `acks` are the requests to delete a dump that are on their
way to the host through PLDM. delete_ asks twice whether the host runs, to refuse
an entry that is offloaded and to have the host delete the dump
(`system_dump_entry.cpp:39`, `:52`): each look has its own answer (`Sees`), and
the host moves at most once within a call, before any of its looks (`Looks`).
`sending` is which dumps the host sends because this daemon asked it to: what
`OffloadNotDeleted` is about. It ends with the host, with the daemon that asked,
and when pldmd clears the URI. The crash of the daemon forgets the entries, as
`restore()` is empty; `missed` keeps which dumps of the host it was not told of,
and `HostDumpsKnown` allows for those. Endpoint ids are left out: `readEID`
reads the file into a string that shadows the variable it returns
(`pldm_oem_cmds.cpp:79`), and the default id is always used.

### DumpOffload

`GetFileHandle` and `CloseFD` are the two ends of a handle; a request for a
handle that is open yet changes nothing. `open` is the daemon's table of
descriptors: the kernel gives the lowest number that is free, so that a number
closed is soon given again. `pc` is `idle` while the event loop runs, and `wait`
and `send` inside an offload, when nothing else in the daemon moves; the
readers, the watchdog and the end of the daemon do. `entries` has what matters
of an entry: whether its file is named, its handle, its Offloaded property. A
dump in progress, whose file is not named, can be asked for too (`AcceptFails`).
The time-out of the connection is `NobodyConnects`. That of the writes is not in
the model, because it cannot occur: `accept` gives a connection that blocks
whatever its listener does, so that the first `write()` of `writeOnUnixSocket`
waits for the reader until all is written, and `select` is only asked before
it. `litter` says which sockets a daemon that ended has left.

## 3. Runs

The type invariants of `BmcDump`, `SystemDump`, `ElogWatch`, `OpenpowerDump` and
`CreateDumpDbus` are proved (section 4) and in no run. Instances are small on
purpose: the races of this code are between one dump and its own events, or
between two dumps. Two processes and two ids give every pair;
`MaxId` bounds `lastEntryId` and lets an id be reused or skipped across a
restart. Processes are interchangeable and symmetric in the runs without liveness. Every
configuration but those of `OpenpowerDump`, where the daemon can always go down or
come back, says `CHECK_DEADLOCK FALSE`: with the last id given, or no request made,
the system may rest.

Runs that pass:

| Run | Instance | Shows |
|---|---|---|
| `bmc_supervised` | 2 ids, 2 processes, user and internal requests, `rmfail`, fair | `UserDumpExclusion`, `IdsNameOneDump`, `WatchedDumpSettles`, `UserSlotFreed` |
| `bmc_faults` | 2 ids, 2 processes, user requests, every fault of `Faults` | `FlagHasOwner`, `OfferedDumpsAreOnDisk`, `CompletedDumpsRecoverable`, `ImplementsDumpStore` |
| `sys_supervised` | 3 ids, 2 processes, two independent types, limit 1, `client`, `i2c`, fair | `InProgressHasCollector`, `IdsNameOneDump`, `TypeGivenBack` |
| `sys_faults` | 2 ids, 2 processes, the two types that exclude each other, limit 2, `fork`, `source`, `stop`, `rmfail` | `RegisteredLtssmInDebugMode`, `ReportedFilesExist`, `ImplementsDumpStore` |
| `elog_watch` | 3 logs, one of no interest, 2 signals, 1 torn list, fair | `OneDumpPerLog`, `ListSurvivesRestart`, `AnnouncedLogRecorded` |
| `limited_dump` | five builds: BMC with and without rotation, fault log without limits and with rotation and a limit of 2, FDR with a limit of 1; 3 ids, 2 captures, sizes up to 2, and an excess of 1, of 2 | `TypeOK`, `NextIdIsFree`, `QuotaKept`, `ImplementsDumpStore`, `OldestFirst`, `CountLimited`, `RemovesOnlyWhatItMust` |
| `nsm_dump` | 3 records, 3 errors, 2 polls, fair | `TypeOK`, `ErasedOnlyIfSaved`, `SuccessMeansSaved`, `OutputInOrder`, `Terminates` |
| `create_dump_dbus` | 2 clients, 2 types, 2 failed polls, fair | `OneVerdictPerType`, `ToldCopyIsThere`, `RequestEnds` |
| `dump_offload` | 2 dumps, 2 readers, 1 path, 4 descriptors, 2 blocks, of which a socket takes 1, fair | `TypeOK`, `HandleIsOfItsDump`, `OffloadedWasSent`, `NothingLeftBehind`, `OffloadEnds` |
| `openpower_dump` | 3 ids, 2 source ids, 2 sizes, both managers | `SourceNamesOneEntry`, `HostDumpsKnown`, `OffloadNotDeleted` |

`UserDumpExclusion`, `IdsNameOneDump` and the liveness of `bmc_supervised` are
checked without the faults `stop`, `source` and `survive`, and the first two
need that: each of the three lets a dreport run that nobody supervises. With
`Faults = {"stop"}`, TLC finds two user dumps at once: the Child source also
watches for a stop (`dump_manager_bmc.cpp:165`), and a stop is taken for an
end. `OfferedDumpsAreOnDisk`, `CompletedDumpsRecoverable`, `FlagHasOwner` and
the refinement hold under every fault that `Faults` names; what a failing
serialize() loses is the originator, and then the BMC's own is reported after a
restart, which the two properties allow. In the same way `InProgressHasCollector`
is checked without `fork`: after a failed fork (`dump_manager_system.cpp:679`)
the type stays registered, and is refused until the daemon restarts; debug mode,
which was switched on for it, stays on. A limit of
1 makes every request delete every other dump; a limit of 2 makes it delete
some. `RegisteredLtssmInDebugMode` is checked without `client` and `i2c`, each
of which breaks it by itself.

Three records give a first, a middle and a last one; two clients, one that waits
while the other is served; three ids with a limit of two, a dump that is deleted
and one that is kept. The total of `limited_dump` is one dump of the largest
size, or two smaller ones, so that the quota and the rotation bite. `QuotaKept`
is stated of captures that run one at a time: of two at a time, which are given
the same space, nothing in the code bounds the total. One at a time exceed it by
what the last archive has above its size, and by the originators saved, neither
of which the code counts on: the bound says that nothing more is added up,
however many captures there were. That bound is on what is there when dreport
keeps to `EXCESS`, and the code has no number for that. `NextIdIsFree` is about
what is there: after a restart the id of a dump of which nothing is left, of a
capture that died before its directory, or of an FDR action is given again.
`RemovesOnlyWhatItMust` is stated with no capture under way:
with one, the fault log manager's walk of the directory may fail and count as no
space (`dump_manager_faultlog.cpp:587`), and it then deletes every dump.

Runs that find a disagreement between the code and what the repository says of
it (each is a finding in `PROJECT.json`, with the quoted line):

| Run | The code |
|---|---|
| `sys_exclusion` | a type released twice lets a second collector of it start beside the first |
| `op_new_dump` | to delete a stale entry asks the host to delete the new dump of the same id |

The models show other disagreements, for which no run is kept. Each is a
behaviour of the actions named:

- a dump deleted while in progress whose dreport then fails leaves a null pointer
  in the entry map (`EntryAfterFailure`, `dump_manager_bmc.hpp:89`), through
  which `deleteAll` calls (`DeleteAllCrashes`);
- a late `FileClosed` turns a dump that `ChildExited` had failed into a
  completed one (`bmc_dump_entry.hpp:155`);
- an archive closed before `WatchDirectory` is never reported, and its entry
  stays in progress (`dump_manager_bmc.cpp:265`);
- `TimerExpires` does not end its dreport: the process group it would signal is
  never set (`bmc_dump_entry.hpp:261`);
- a system dump that `LimitDumpEntries` deleted while in progress comes back
  with `FileClosed`, over the limit of `meson.options:135`;
- an error log whose dump is refused for the quota stays in the list of those
  that have one (`elog_watch.cpp:137`, `elog_watch.hpp:96`);
- the client of create-dump-dbus loops at the end of its connection
  (`create_dump_dbus.cpp:550`), and a client that leaves ends the server (`:583`);
- an FDR action whose script fails inserts a null pointer (`FdrAction`,
  `JobExits`), and the next Collect at the limit ends the daemon; a Collect that
  is refused for its space or its parameters has deleted a dump before;
- the BMC manager's rotation counts the directory of an entry in progress as
  freed, and with no entry left ends the daemon (`dump_manager_bmc.cpp:352-362`);
- a reader that stays connected and stops reading stops the event loop, until
  the watchdog ends the daemon: `Stalled` in `OffloadEnds`
  (`dump_offload.cpp:53-64`);
- an entry deleted between `GetFileHandle` and `CloseFD` never closes its
  handle (`dump_entry.hpp:180`);
- an offload whose request to the host fails leaves the URI set, and the entry
  cannot be deleted while the host runs (`system_dump_entry.cpp:28`);
- an entry whose serialize() fails is completed, and after a restart the BMC is
  said to have asked for it (`Serialize`, `dump_entry.cpp:81`);
- a fault log whose directory cannot be removed goes from D-Bus and keeps its
  space, and the limit deletes the next (`faultlog_dump_entry.cpp:35`); a restart
  brings it back;
- a device of the NSM service that names a handle again keeps the tool reading
  and appending for ever (`NextRecord`, `nsm-net-dump-tool/main.cpp:634`);
- a request to create-dump-dbus deletes the copies that earlier clients were told
  of (`DeleteCopies`, `create_dump_dbus.cpp:297`).

### Fairness

Weak fairness of the event-loop actions (`WatchDirectory`, `FileClosed`,
`ChildExited`, `TimerExpires`, and the callbacks of `ElogWatch`): sd-event
dispatches every pending event, and an event stays pending until it is handled.
`DreportEnds` (and its like in `SystemDump`) adds that a collector goes on and
ends. Nothing in the code bounds that (the timeout does not work), so it is an
assumption of the properties that name it. `NsmDump` assumes that its calls
return, which D-Bus sees to, and that a descriptor it reads ends
(`DescriptorsEnd`), which nothing in the tool does; of the rest of the device
nothing is assumed, so that `Terminates` allows for one that leads the tool from
record to record for ever (`MisleadingHandle`). `CreateDumpDbus` assumes that
server and clients go on, and nothing of the dump; `DumpOffload` that the handler
of a request goes on while it can, and nothing of its reader. Nobody is obliged to ask for a dump, to
delete one, to crash the daemon or to restart it. Progress properties therefore
allow for a daemon that stays down: `WatchedDumpSettles` and `UserSlotFreed`
hold through a crash because the entry and the flag go with it.

## 4. Proofs

TLC's instances are bounded; the theorems are for every value of the constants
that the modules' assumptions admit: every number of ids, every set of
processes, requests, types and logs, every limit, and, where the table says
nothing else, every choice of faults.

| Theorem | Statement |
|---|---|
| `TypeCorrect` | `Spec => []TypeOK` |
| `FlagAlwaysHasOwner` | `Spec => []FlagHasOwner` |
| `OfferedOnDisk` | `Spec => []OfferedDumpsAreOnDisk` |
| `CompletedRecoverable` | `Spec => []CompletedDumpsRecoverable` |
| `OneUserDumpAtATime` | `Spec => []UserDumpExclusion`, when no dreport goes unsupervised |
| `IdsAreUnique` | `Spec => []IdsNameOneDump`, when no dreport goes unsupervised |
| `WatchedDumpsAreFollowed` | `Spec => []WaitedForEnds /\ WaitedForUntilSettled`, when no dreport goes unsupervised |
| `BmcDumpIsADumpStore` | `Spec => ImplementsDumpStore` |
| `DumpsAreKept` | `Spec => []Store!OfferedAreKept /\ Store!NoneGoesUnseen /\ Store!OriginatorStays` |
| `SystemTypeCorrect` | `Spec => []TypeOK` |
| `SystemOfferedOnDisk` | `Spec => []OfferedDumpsAreOnDisk` |
| `SystemDumpIsADumpStore` | `Spec => ImplementsDumpStore` |
| `SystemDumpsAreKept` | `Spec => []Store!OfferedAreKept /\ Store!NoneGoesUnseen` |
| `ReportedFilesOnDisk` | `Spec => []ReportedFilesExist` |
| `LtssmInDebugMode` | `Spec => []RegisteredLtssmInDebugMode`, without `i2c` and `client` |
| `TypesHaveCollectors` | `Spec => []InProgressHasCollector`, without `fork` |
| `SystemIdsAreUnique` | `Spec => []IdsNameOneDump`, without `source` |
| `ElogTypeCorrect` | `Spec => []TypeOK` |
| `ListOnDisk` | `Spec => []ListSurvivesRestart` |
| `OneDumpForEachLog` | `Spec => []OneDumpPerLog` |
| `AnnouncedLogsAreHeard` | `Spec => AnnouncedUntilRecorded /\ CallbacksTakeSignals` |

and, each module with `InvHolds`, its inductive invariant:

| Module | Theorem | Statement |
|---|---|---|
| `NsmDumpProofs` | `TypeCorrect` | `Spec => []TypeOK` |
| | `ErasesOnlySaved` | `Spec => []ErasedOnlyIfSaved` |
| | `RecordsInOrder` | `Spec => []OutputInOrder` |
| | `SuccessIsWhole` | `Spec => []SuccessMeansSaved` |
| | `ToolRunsOut` | `Spec => [](Rank \in Nat) /\ RunsOut` |
| `CreateDumpDbusProofs` | `TypeCorrect` | `Spec => []TypeOK` |
| | `VerdictPerType` | `Spec => []OneVerdictPerType` |
| | `CopiesAreThere` | `Spec => []ToldCopyIsThere` |
| | `RequestIsBounded` | `Spec => [](Work \in 0 .. RequestSteps) /\ RequestRunsOut` |
| `OpenpowerDumpProofs` | `TypeCorrect` | `Spec => []TypeOK` |
| | `OneEntryPerSource` | `Spec => []SourceNamesOneEntry` |
| | `NoDumpForgotten` | `Spec => []HostDumpsKnown` |
| | `SentNotDeleted` | `Spec => OffloadNotDeleted` |
| `LimitedDumpProofs` | `TypeCorrect` | `Spec => []TypeOK` |
| | `KeepsQuota` | `Spec => []QuotaKept` |
| | `LimitedDumpIsADumpStore` | `Spec => ImplementsDumpStore` |
| | `DumpsAreKept` | `Spec => []Store!OfferedAreKept /\ Store!NoneGoesUnseen` |
| | `IdsAreFresh` | `Spec => []NextIdIsFree` |
| | `DeletesOldestFirst` | `Spec => OldestFirst` |
| | `LimitsTheCount` | `Spec => CountLimited` |
| | `DeletesNoMore` | `Spec => RemovesOnlyWhatItMust` |
| `DumpOffloadProofs` | `TypeCorrect` | `Spec => []TypeOK` |
| | `HandleOfDump` | `Spec => []HandleIsOfItsDump` |
| | `SentWhole` | `Spec => []OffloadedWasSent` |
| | `LeavesNothing` | `Spec => []NothingLeftBehind` |
| | `OffloadIsBounded` | `Spec => [](StepsLeft \in 0 .. Size + 2) /\ OffloadRunsOut` |

The argument for the disk. `OfferedDumpsAreOnDisk` is not inductive: a file
event could be queued for a directory that a delete then removes. `DiskInv`
adds why it cannot. A directory is watched, or about to be, only while it is
new (`WatchedDirsAreNew`): the watch is made on the directory's creation and
dropped at its first closed file, and only after that does an entry name the
file; a delete removes directories of entries that name a file; so no event is
queued for a directory a delete can remove, and none for an entry that is
already saved. That last part also gives `CompletedDumpsRecoverable`: an entry
is completed once, and what it was completed with is what is saved, unless
serialize() failed then.
`FilesHaveDirectories` and `EntriesWellFormed` are the bookkeeping.

The argument for the processes. `ProcessInv` says that every live dreport has a
Child source (`EveryDreportWatched`), that a user's keeps the flag up
(`FlagCoversUserDumps`), that there is one of them (`OneUserDump`) and that the
ids in use are at most `lastEntryId` (`KnownIds`). It is proved under the
assumption that excludes `stop`, `source` and `survive`, the three ways a
dreport escapes supervision (section 3 says how it fails with `stop`).
The proof is by pairs of processes and by ids, so that a step has to be
considered for the one process it moves only.

The refinement. `BmcDumpProofs` maps each action to a step of the store or
to none: creating, failing, timing out and dreport's own ends are stutters;
writing the archive is `Store`, `FileClosed` is `Publish`, deletes are
`Delete`, both kinds of crash are `Stop`, a restart is `Start`. It uses
`TypeOK` and `DiskInv`. In the two other managers a request is a `Delete` too, of
what the limit takes away, and what is used is that an archive whose close is
still queued has no entry that names it. What a client relies on is then proved
of the managers themselves: `OfferedAreKept` from the same invariants, the two
action properties from the steps of the store.

The system dump manager. What `DumpInv` adds to the two disk invariants is that
an id whose file event is queued has no entry that names its file: a delete
removes files of entries that name one, so it cannot remove a file whose event
is still queued. `InProgressHasCollector` and `RegisteredLtssmInDebugMode` are
inductive as they stand; each needs the exclusion of the fault that breaks it.
Ids are unique by pairs of processes, as for the BMC; here a stopped collector
does no harm, since the next id does not depend on it.

The error log watch. `LogInv` says why a log that has its dump is not given
another: it is in the saved list, or it will not be announced any more
(`NeverAgain`), and that because its removal, once announced, is the last thing
said of it (`RemovalsAreLast`). A torn list forgets a log, and counts.
`ListInv` is `ListSurvivesRestart` together with what is known of a torn file.

The NSM tool. The properties speak of a whole file at the end; what is inductive
is what a file holds at each record. `FilesInv` says that the file of the
function that runs has the first records, as many as the handle has moved on,
and that a function that has not begun has an empty one; a function in
`unnoticed` is excused. `EraseInv` then says that only `getSwitchDump`, with
its file whole, is ever at the erase commands, and `ResultInv` where each
result was decided.

The server of create-dump-dbus. `ToldInv` ties what a client was told, and what
is left to do for it, to what it asked: the one followed by the other is the
request. A client that waits was told nothing (`QueueInv`), so that the next
request begins anew. Each copy told of in the last request is there, and the
one about to be told of too (`CopyInv`): a request clears the copies before it
makes its first.

The managers of OpenPOWER. `SourceNamesOneEntry` and `HostDumpsKnown` are
inductive with the types and one fact: an id has an entry exactly where it has
a status (`StatusInv`). Each outcome of notify is a case of its own, and in
`NotifyStale` whatever the invalid iterator reaches. `OffloadNotDeleted` needs
both `SourceNamesOneEntry` and `SendingInv`: a dump that is sent is sent by a
host that runs, and has an entry with a URI. It has no other entry, so that only
a delete of that one could ask for it; that delete passes its first look only
when the host has moved before it, which has ended the sending.

The limits. `Inv` is about the captures: one that has not written its archive
has no file that the manager could offer or delete (`WritingInv`), no file event
outlives the daemon (`ClosedInv`), and the next id is free. The three
properties of what a request deletes are of single steps: from `Inv`, and from
lemmas on the oldest entries, which the loops reach one at a time.

The quota. `Archived` is a fold, that is, a recursive function that the library
chooses. No induction is needed to know its value: the number of blocks that the
archives take (`Blocks`) satisfies the equation of the fold (`CountIsFold`),
and a function that satisfies it has that value, because a smallest set where it
had not would contradict the equation (`FoldIsCount`). Totals are then compared
as sets are. `QuotaKept` itself is not inductive: `QuotaInv` adds that what the
one capture that runs was given fits beside every archive, until it has written
its own: an excess left by the capture before leaves less, or nothing, to give.
It needs the sizes (`SizeInv`), and that a manager without rotation deletes
nothing to make room (`DeletesNothing`).

The offload. `JobInv` names the descriptors that the offload holds and the
reader it serves at each place of the handler, `SocketInv` that nothing else is
open on a socket, and `ReaderInv` that who is not served yet was sent nothing:
with it the reader of a dump marked offloaded has all of that dump and of no
other. A handle stays of its dump because a descriptor the kernel gives is one
that nobody holds (`NewFdIsFree`).

How long things take. Three of the liveness properties say that a handler or a
program ends. Their safety half is proved: a number of steps left that every step
of the program lowers and that its environment does not raise, but for what the
property excludes. `Rank` counts, for the NSM tool, the turns that the error and
busy counters leave at the record it is at, those of the records after it and of
the erase, and the function that is yet to run; `RunsOut` says that only a wrong
handle raises it. `Work`, for a request to create-dump-dbus, counts the polls and
looks left of the type it is at and those of the types after it; `StepsLeft`, for
an offload, the blocks that were not sent. Fairness adds that the steps are
taken, and that part, with `DescriptorsEnd` of the tool and `Stalled` of the
offload, is TLC's.

Nothing is waited for in vain. `WatchedDumpSettles` says that a dump whose
directory was watched in time is completed, failed or deleted. Its safety half is
`WatchedDumpsAreFollowed`: such a dump is waited for until it is settled, and
while it is, either the close of its archive is queued, or a dreport that is to
write it, or that failed, is one whose end the Child callback is told of. The
invariant is `FollowInv`; it needs `IdsNameOneDump`, or a second dump under the
same id would be waited for on account of the first one's process, and
`WatchedDirsAreNew`, or a delete would remove the archive that is waited for.
`AnnouncedLogsAreHeard` is the same of the error log watch: while the daemon runs,
an announcement of a supported log keeps its place in the queue or comes nearer,
and leaves it only with its log in the list.

Only model-checked: liveness itself, since fairness and ENABLED are beyond the
prover (`WatchedDumpSettles`, `UserSlotFreed`, `TypeGivenBack`,
`AnnouncedLogRecorded`, `Terminates`, `RequestEnds`, `OffloadEnds`). Every
invariant and every action property that a passing run checks is also a theorem,
under the assumptions on the faults that the tables name.

## 5. Not modelled

- The layout of the inotify buffer (`watch.cpp`): several events of one read.
- The core file and ramoops monitors: one call to the BMC manager each, no state.
- The plugins of dreport (shell commands that collect data), the generated dump
  type tables, the legacy fault log manager (not instantiated by
  `dump_manager_main.cpp`).
- The command lines of the collectors and the decoding of CPER records into
  properties: data that no property tells apart.

## 6. Running

    tlc -workers 2 -config bmc_supervised.cfg MCBmcDump
    tlapm BmcDumpProofs.tla
    tlapm SystemDumpProofs.tla
    tlapm ElogWatchProofs.tla
    tlapm LimitedDumpProofs.tla
    tlapm NsmDumpProofs.tla
    tlapm CreateDumpDbusProofs.tla
    tlapm OpenpowerDumpProofs.tla
    tlapm DumpOffloadProofs.tla
