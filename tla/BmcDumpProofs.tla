--------------------------- MODULE BmcDumpProofs ---------------------------
(* What holds of the BMC dump manager for any number of ids and processes, *)
(* and that it implements the dump store.                                  *)
EXTENDS BmcDumpStore, TLAPS

USE DEF memory, queues, disk, vars

-----------------------------------------------------------------------------
(* Types *)

LEMMA EntryTypes ==
  ASSUME NEW e \in EntryType, NEW o \in Originators
  PROVE  /\ NoEntry \in EntryType
         /\ NullEntry \in EntryType
         /\ NewEntry(o) \in EntryType
         /\ CompletedEntry(o) \in EntryType
         /\ EntryAfterFailure(e) \in EntryType
         /\ EntryAfterClose(e) \in EntryType
BY DEF EntryType, NoEntry, NullEntry, NewEntry, CompletedEntry, LiveStatus,
       EntryAfterFailure, EntryAfterClose, Originators

LEMMA ProcessTypes ==
  ASSUME NEW q \in ProcessType, q.phase # "none",
         NEW phase \in Running \cup Exited
  PROVE  /\ q.id \in Ids
         /\ [q EXCEPT !.phase = phase] \in ProcessType
BY DEF ProcessType, NoProcess

LEMMA RequestTypes ==
  ASSUME NEW r \in Requests
  PROVE  r.type \in DumpTypes /\ r.originator \in Originators
BY RequestAssumption

LEMMA RestoredEntryType ==
  ASSUME TypeOK, NEW id \in Ids
  PROVE  RestoredEntry(id) \in EntryType
BY DEF TypeOK, RestoredEntry, SavedOriginator, NoEntry, CompletedEntry, EntryType, LiveStatus,
       Originators

\* A dreport that moves on stays a process.
LEMMA DreportTypes ==
  ASSUME TypeOK, NEW p \in Pids, dreport[p].phase # "none",
         NEW phase \in Running \cup Exited
  PROVE  /\ dreport[p].id \in Ids
         /\ SetPhase(p, phase) => dreport' \in [Pids -> ProcessType]
         /\ ExitWith(p, phase) => dreport' \in [Pids -> ProcessType]
<1>1. dreport[p] \in ProcessType /\ dreport \in [Pids -> ProcessType]
  BY DEF TypeOK
<1>2. /\ NoProcess \in ProcessType
      /\ [dreport[p] EXCEPT !.phase = phase] \in ProcessType
  BY <1>1, ProcessTypes DEF ProcessType
<1>3. QED  BY <1>1, <1>2, ProcessTypes DEF SetPhase, ExitWith

LEMMA ForkTypes ==
  ASSUME TypeOK, NEW p \in Pids, NEW r \in Requests, Fork(p, r.type)
  PROVE  /\ dreport' \in [Pids -> ProcessType]
         /\ lastEntryId + 1 \in Ids
<1>1. lastEntryId + 1 \in Ids
  BY MaxIdAssumption DEF TypeOK, Fork, Ids
<1>2. [phase |-> "collecting", id |-> lastEntryId + 1, type |-> r.type]
        \in ProcessType
  BY <1>1, RequestTypes, MaxIdAssumption
     DEF ProcessType, Running
<1>3. QED  BY <1>1, <1>2 DEF TypeOK, Fork

\* What a delete removes are directories of entries it deletes.
LEMMA RemovableDirectories ==
  ASSUME NEW ids \in SUBSET Ids, NEW gone \in Removable(ids)
  PROVE  gone \in SUBSET DirectoriesOf(ids) /\ gone \in SUBSET Ids
BY DEF Removable, DirectoriesOf

LEMMA TypeStep == TypeOK /\ [Next]_vars => TypeOK'
<1> SUFFICES ASSUME TypeOK, [Next]_vars  PROVE TypeOK'
  OBVIOUS
<1>a. /\ NoEntry \in EntryType /\ NullEntry \in EntryType
      /\ \A o \in Originators : NewEntry(o) \in EntryType
      /\ \A id \in Ids : /\ EntryAfterFailure(entries[id]) \in EntryType
                         /\ EntryAfterClose(entries[id]) \in EntryType
  <2>1. "Client" \in Originators
    BY DEF Originators
  <2>2. \A id \in Ids : entries[id] \in EntryType
    BY DEF TypeOK
  <2>3. NoEntry \in EntryType
    BY DEF NoEntry, EntryType, LiveStatus
  <2>4. QED  BY <2>1, <2>2, <2>3, EntryTypes
<1>1. ASSUME NEW p \in Pids, NEW r \in Requests, CreateDump(p, r)
      PROVE  TypeOK'
  <2>1. /\ dreport' \in [Pids -> ProcessType]
        /\ lastEntryId' \in Ids
    BY <1>1, ForkTypes DEF CreateDump
  <2>2. /\ entries' \in [Ids -> EntryType]
        /\ progressTimer' \subseteq Ids
    BY <1>1, <1>a, <2>1, RequestTypes DEF CreateDump, TypeOK
  <2>3. fUserDumpInProgress' \in BOOLEAN
    BY <1>1 DEF CreateDump, TypeOK
  <2>4. lastEntryId' \in 0 .. MaxId
    BY <2>1, MaxIdAssumption DEF Ids
  <2>5. QED  BY <1>1, <2>1, <2>2, <2>3, <2>4 DEF CreateDump, TypeOK
<1>2. ASSUME NEW p \in Pids, NEW r \in Requests,
             CreateDumpChildSourceFails(p, r)
      PROVE  TypeOK'
  BY <1>2, ForkTypes DEF CreateDumpChildSourceFails, TypeOK
<1>3. ASSUME NEW id \in Ids, DeleteEntry(id)
      PROVE  TypeOK'
  <2>1. PICK gone \in Removable({id}) : RemoveDumps(gone)
    BY <1>3 DEF DeleteEntry
  <2>2. QED  BY <1>3, <1>a, <2>1 DEF DeleteEntry, RemoveDumps, TypeOK
<1>4. CASE DeleteAll
  <2>1. PICK gone \in Removable({id \in Ids : Live(id)}) : RemoveDumps(gone)
    BY <1>4 DEF DeleteAll
  <2>2. QED  BY <1>4, <1>a, <2>1 DEF DeleteAll, RemoveDumps, TypeOK
<1>5. ASSUME NEW p \in Pids, DreportProgress(p)
      PROVE  TypeOK'
  <2>1. CASE DreportMakeDir(p)
    BY <2>1, DreportTypes DEF DreportMakeDir, Running, TypeOK
  <2>2. CASE DreportCopy(p)
    BY <2>2, DreportTypes DEF DreportCopy, DreportWrite, Running, TypeOK
  <2>3. CASE DreportCopyTruncated(p)
    BY <2>3, DreportTypes DEF DreportCopyTruncated, DreportWrite, Running, TypeOK
  <2>4. CASE DreportCopyAstray(p)
    BY <2>4, DreportTypes DEF DreportCopyAstray, Running, TypeOK
  <2>5. CASE DreportExits(p)
    BY <2>5, DreportTypes DEF DreportExits, Exited, TypeOK
  <2>6. CASE DreportFails(p)
    BY <2>6, DreportTypes DEF DreportFails, Exited, TypeOK
  <2>7. CASE DreportGivesUp(p)
    BY <2>7, DreportTypes DEF DreportGivesUp, Exited, TypeOK
  <2>8. QED
    BY <1>5, <2>1, <2>2, <2>3, <2>4, <2>5, <2>6, <2>7 DEF DreportProgress
<1>6. ASSUME NEW id \in Ids, WatchDirectory(id)
      PROVE  TypeOK'
  BY <1>6 DEF WatchDirectory, TypeOK
<1>7. ASSUME NEW id \in Ids, FileClosed(id)
      PROVE  TypeOK'
  <2>1. entries' \in [Ids -> EntryType]
    BY <1>7, <1>a DEF FileClosed, TypeOK
  <2>2. preserved' \in [Ids -> Originators \cup {"none", "lost"}]
    BY <1>7 DEF FileClosed, Serialize, Live, LiveStatus, TypeOK, EntryType
  <2>3. QED  BY <1>7, <2>1, <2>2 DEF FileClosed, TypeOK
<1>8. ASSUME NEW id \in Ids, TimerExpires(id)
      PROVE  TypeOK'
  BY <1>8 DEF TimerExpires, TypeOK
<1>9. ASSUME NEW p \in Pids, NEW failed \in BOOLEAN, ChildCallback(p, failed)
      PROVE  /\ entries' \in [Ids -> EntryType]
             /\ fUserDumpInProgress' \in BOOLEAN
             /\ childPtrMap' \subseteq Pids
  BY <1>9, <1>a DEF ChildCallback, TypeOK
<1>10. ASSUME NEW p \in Pids, ChildExited(p)
       PROVE  TypeOK'
  BY <1>10, <1>9 DEF ChildExited, TypeOK, ProcessType
<1>11. ASSUME NEW p \in Pids, ChildStopped(p)
       PROVE  TypeOK'
  BY <1>11, <1>9 DEF ChildStopped, TypeOK
<1>12. ASSUME NEW cutShort, NEW now \in [Ids -> {"none", "partial", "whole"}],
              DaemonGone(cutShort, now)
       PROVE  /\ up' \in BOOLEAN
              /\ entries' \in [Ids -> EntryType]
              /\ lastEntryId' \in 0 .. MaxId
              /\ progressTimer' = {}
              /\ fUserDumpInProgress' \in BOOLEAN
              /\ childPtrMap' = {}
              /\ childWatchMap' = {}
              /\ dirEvents' = {}
              /\ fileEvents' = {}
              /\ dreport' \in [Pids -> ProcessType]
              /\ archive' \in [Ids -> {"none", "partial", "whole"}]
  <2>1. NoProcess \in ProcessType
    BY DEF ProcessType
  <2>2. dreport' \in [Pids -> ProcessType]
    BY <1>12, <2>1 DEF DaemonGone, TypeOK
  <2>3. archive' \in [Ids -> {"none", "partial", "whole"}]
    BY <1>12 DEF DaemonGone
  <2>4. entries' \in [Ids -> EntryType]
    BY <1>12, <1>a DEF DaemonGone
  <2>5. 0 \in 0 .. MaxId
    BY MaxIdAssumption
  <2>6. QED  BY <1>12, <2>2, <2>3, <2>4, <2>5 DEF DaemonGone
<1>13. CASE Crash
  BY <1>13, <1>12 DEF Crash, TypeOK
<1>14. CASE DeleteAllCrashes
  <2>1. PICK n \in NullIds, gone \in SUBSET Ids :
          /\ dirs' = dirs \ gone
          /\ preserved' = [id \in Ids |-> IF id \in gone THEN "none"
                                                         ELSE preserved[id]]
          /\ \E cutShort \in SUBSET BeingCopied :
               DaemonGone(cutShort \ gone,
                          [id \in Ids |-> IF id \in gone THEN "none"
                                                         ELSE archive[id]])
    BY <1>14, RemovableDirectories DEF DeleteAllCrashes
  <2>2. [id \in Ids |-> IF id \in gone THEN "none" ELSE archive[id]]
          \in [Ids -> {"none", "partial", "whole"}]
    BY DEF TypeOK
  <2>3. QED  BY <2>1, <2>2, <1>12 DEF TypeOK
<1>15. CASE Restart
  BY <1>15, RestoredEntryType DEF Restart, TypeOK
<1>16. CASE UNCHANGED vars
  BY <1>16 DEF TypeOK
<1>17. QED
  BY <1>1, <1>2, <1>3, <1>4, <1>5, <1>6, <1>7, <1>8, <1>10, <1>11, <1>13,
     <1>14, <1>15, <1>16 DEF Next, Request, Callback

LEMMA TypeInit == Init => TypeOK
<1>1. NoEntry \in EntryType
  BY DEF NoEntry, EntryType, LiveStatus
<1>2. NoProcess \in ProcessType
  BY DEF ProcessType
<1>3. 0 \in 0 .. MaxId
  BY MaxIdAssumption
<1>4. QED  BY <1>1, <1>2, <1>3 DEF Init, TypeOK

\* TypeOK: every map, queue and file the manager keeps has its type, whatever
\* faults occur.
THEOREM TypeCorrect == Spec => []TypeOK
BY TypeInit, TypeStep, PTL DEF Spec

-----------------------------------------------------------------------------
(* The flag that refuses a second user dump *)

\* A step that neither moves a watched process nor touches the flag keeps its
\* owner.
LEMMA OwnerKept ==
  ASSUME FlagHasOwner, fUserDumpInProgress' => fUserDumpInProgress,
         childPtrMap \subseteq childPtrMap',
         \A p \in childPtrMap : Alive(p) => /\ Alive(p)'
                                            /\ dreport'[p].type = dreport[p].type
  PROVE  FlagHasOwner'
BY DEF FlagHasOwner

LEMMA FlagStep == TypeOK /\ FlagHasOwner /\ [Next]_vars => FlagHasOwner'
<1> SUFFICES ASSUME TypeOK, FlagHasOwner, [Next]_vars  PROVE FlagHasOwner'
  OBVIOUS
<1>0. childPtrMap \subseteq Pids /\ dreport \in [Pids -> ProcessType]
  BY DEF TypeOK
<1>1. ASSUME NEW p \in Pids, NEW r \in Requests, CreateDump(p, r)
      PROVE  FlagHasOwner'
  <2>1. /\ \A q \in Pids \ {p} : dreport'[q] = dreport[q]
        /\ dreport'[p].phase = "collecting"
        /\ dreport'[p].type = r.type
        /\ p \in childPtrMap'
        /\ ~Alive(p)
    BY <1>1, <1>0 DEF CreateDump, Fork, Alive
  <2>2. CASE r.type = "USER"
    BY <2>1, <2>2 DEF FlagHasOwner, Alive
  <2>3. CASE r.type # "USER"
    <3>1. fUserDumpInProgress' => fUserDumpInProgress
      BY <1>1, <2>3 DEF CreateDump
    <3>2. childPtrMap \subseteq childPtrMap'
      BY <1>1 DEF CreateDump
    <3>3. QED  BY <3>1, <3>2, <2>1, <1>0, OwnerKept DEF Alive
  <2>4. QED  BY <2>2, <2>3
<1>2. ASSUME NEW p \in Pids, NEW r \in Requests,
             CreateDumpChildSourceFails(p, r)
      PROVE  FlagHasOwner'
  BY <1>2, <1>0, OwnerKept DEF CreateDumpChildSourceFails, Fork, Alive
<1>3. ASSUME NEW p \in Pids, DreportProgress(p)
      PROVE  FlagHasOwner'
  <2>1. dreport[p].phase # "none"
    BY <1>3
       DEF DreportProgress, DreportMakeDir, DreportCopy, DreportCopyTruncated,
           DreportWrite, DreportCopyAstray, DreportExits, DreportFails,
           DreportGivesUp
  <2>2. UNCHANGED <<fUserDumpInProgress, childPtrMap>>
    BY <1>3
       DEF DreportProgress, DreportMakeDir, DreportCopy, DreportCopyTruncated,
           DreportWrite, DreportCopyAstray, DreportExits, DreportFails,
           DreportGivesUp
  <2>3. PICK phase \in Running \cup Exited :
          SetPhase(p, phase) \/ ExitWith(p, phase)
    BY <1>3
       DEF DreportProgress, DreportMakeDir, DreportCopy, DreportCopyTruncated,
           DreportWrite, DreportCopyAstray, DreportExits, DreportFails,
           DreportGivesUp, Running, Exited
  <2>4. dreport[p] \in ProcessType
    BY <1>0
  <2>5. /\ [dreport[p] EXCEPT !.phase = phase].type = dreport[p].type
        /\ [dreport[p] EXCEPT !.phase = phase].phase = phase
        /\ phase # "none"
    BY <2>1, <2>4 DEF ProcessType, NoProcess, Running, Exited
  <2>6. \A q \in childPtrMap : Alive(q) =>
          Alive(q)' /\ dreport'[q].type = dreport[q].type
    BY <2>3, <2>5, <1>0 DEF SetPhase, ExitWith, Alive
  <2>7. QED  BY <2>2, <2>6, OwnerKept
<1>4. ASSUME NEW p \in Pids, NEW failed \in BOOLEAN, p \in childPtrMap,
             ChildCallback(p, failed),
             \A q \in Pids \ {p} : dreport'[q] = dreport[q]
      PROVE  FlagHasOwner'
  <2>1. /\ fUserDumpInProgress' => fUserDumpInProgress /\ dreport[p].type # "USER"
        /\ childPtrMap' = childPtrMap \ {p}
    BY <1>4 DEF ChildCallback
  <2>2. QED  BY <2>1, <1>4, <1>0 DEF FlagHasOwner, Alive
<1>5. ASSUME NEW p \in Pids, ChildExited(p) \/ ChildStopped(p)
      PROVE  FlagHasOwner'
  BY <1>5, <1>4, <1>0 DEF ChildExited, ChildStopped
<1>6. CASE Crash \/ DeleteAllCrashes
  <2>1. fUserDumpInProgress' = FALSE
    BY <1>6 DEF Crash, DeleteAllCrashes, DaemonGone
  <2>2. QED  BY <2>1 DEF FlagHasOwner
<1>7. ASSUME UNCHANGED <<fUserDumpInProgress, childPtrMap, dreport>>
      PROVE  FlagHasOwner'
  BY <1>7 DEF FlagHasOwner, Alive
<1>8. ASSUME NEW id \in Ids,
             DeleteEntry(id) \/ WatchDirectory(id) \/ FileClosed(id)
               \/ TimerExpires(id)
      PROVE  FlagHasOwner'
  BY <1>8, <1>7 DEF DeleteEntry, WatchDirectory, FileClosed, TimerExpires
<1>9. CASE DeleteAll \/ Restart \/ UNCHANGED vars
  BY <1>9, <1>7 DEF DeleteAll, Restart
<1>10. QED
  BY <1>1, <1>2, <1>3, <1>5, <1>6, <1>8, <1>9 DEF Next, Request, Callback

\* FlagHasOwner: while a user dump is refused there is a user dump whose end
\* the event loop will report, whichever of the faults in Faults occur.
THEOREM FlagAlwaysHasOwner == Spec => []FlagHasOwner
<1>1. Init => FlagHasOwner
  BY DEF Init, FlagHasOwner
<1>2. QED  BY <1>1, FlagStep, TypeCorrect, PTL DEF Spec
-----------------------------------------------------------------------------
(* What is on disk *)

\* DiskInv, for one dump.
DumpInv(id) ==
  /\ id \in fileEvents => id \in childWatchMap
  /\ ~(id \in dirEvents /\ id \in childWatchMap)
  /\ id \in dirEvents \/ id \in childWatchMap => /\ up
                                                 /\ id \in dirs
                                                 /\ ~entries[id].file
                                                 /\ preserved[id] = "none"
  /\ archive[id] # "none" \/ preserved[id] # "none" => id \in dirs
  /\ Live(id) => entries[id].originator \in Originators
  /\ ~Live(id) => ~entries[id].file
  /\ entries[id].file => id \in dirs /\ archive[id] # "none"
  /\ entries[id].status = "Completed" =>
       /\ entries[id].file
       /\ preserved[id] = "lost" \/ entries[id].originator = SavedOriginator(id)

\* What CompletedDumpsRecoverable says of one dump.
Recoverable(id) ==
  RestoredEntry(id) = IF preserved[id] = "lost"
                      THEN [entries[id] EXCEPT !.originator = "Internal"]
                      ELSE entries[id]

LEMMA RecoverableMeans ==
  ASSUME NEW id \in Ids, entries[id] \in EntryType,
         entries[id].status = "Completed"
  PROVE  Recoverable(id) <=>
           /\ id \in dirs
           /\ archive[id] # "none"
           /\ entries[id].file
           /\ preserved[id] = "lost" \/ entries[id].originator = SavedOriginator(id)
<1> DEFINE e == IF preserved[id] = "lost"
                THEN [entries[id] EXCEPT !.originator = "Internal"]
                ELSE entries[id]
           o == IF preserved[id] = "lost" THEN "Internal" ELSE entries[id].originator
<1>1. e = [status |-> "Completed", file |-> entries[id].file, originator |-> o]
  BY DEF EntryType
<1>2. CASE id \in dirs /\ archive[id] # "none"
  <2>1. RestoredEntry(id) = [status |-> "Completed", file |-> TRUE,
                             originator |-> SavedOriginator(id)]
    BY <1>2 DEF RestoredEntry, CompletedEntry
  <2>2. entries[id].file \in BOOLEAN
    BY DEF EntryType
  <2>3. preserved[id] = "lost" => SavedOriginator(id) = "Internal"
    BY DEF SavedOriginator, Originators
  <2>4. ASSUME Recoverable(id)
        PROVE  entries[id].file /\ o = SavedOriginator(id)
    <3> HIDE DEF o
    <3>1. [status |-> "Completed", file |-> entries[id].file, originator |-> o]
            = [status |-> "Completed", file |-> TRUE,
               originator |-> SavedOriginator(id)]
      BY <1>1, <2>1, <2>4 DEF Recoverable
    <3>2. QED  BY <3>1
  <2>5. ASSUME entries[id].file, o = SavedOriginator(id)
        PROVE  Recoverable(id)
    <3>1. entries[id].file = TRUE
      BY <2>2, <2>5
    <3>2. QED  BY <1>1, <2>1, <2>5, <3>1, Zenon DEF Recoverable
  <2>6. QED  BY <1>2, <2>3, <2>4, <2>5
<1>3. CASE ~(id \in dirs /\ archive[id] # "none")
  <2>1. RestoredEntry(id).status = "none"
    BY <1>3 DEF RestoredEntry, NoEntry
  <2>2. e.status = "Completed"
    <3> HIDE DEF o
    <3>1. QED  BY <1>1
  <2>3. QED  BY <1>3, <2>1, <2>2 DEF Recoverable
<1>4. QED  BY <1>2, <1>3

AllDumpsInv == \A id \in Ids : DumpInv(id)

LEMMA DiskInvPerDump == TypeOK => (DiskInv <=> AllDumpsInv)
<1> SUFFICES ASSUME TypeOK  PROVE DiskInv <=> AllDumpsInv
  OBVIOUS
<1>1. \A id \in Ids : entries[id] \in EntryType
  BY DEF TypeOK
<1>2. ASSUME DiskInv, NEW id \in Ids  PROVE DumpInv(id)
  BY <1>1, <1>2, RecoverableMeans
     DEF DiskInv, WatchedDirsAreNew, FilesHaveDirectories, EntriesWellFormed,
         OfferedDumpsAreOnDisk, CompletedDumpsRecoverable, Recoverable, DumpInv
<1>3. ASSUME \A id \in Ids : DumpInv(id)  PROVE DiskInv
  <2>1. WatchedDirsAreNew
    BY <1>3 DEF TypeOK, DumpInv, WatchedDirsAreNew
  <2>2. FilesHaveDirectories /\ EntriesWellFormed /\ OfferedDumpsAreOnDisk
    BY <1>3 DEF DumpInv, FilesHaveDirectories, EntriesWellFormed,
                OfferedDumpsAreOnDisk
  <2>3. CompletedDumpsRecoverable
    BY <1>1, <1>3, RecoverableMeans
       DEF DumpInv, CompletedDumpsRecoverable, Recoverable
  <2>4. QED  BY <2>1, <2>2, <2>3 DEF DiskInv
<1>4. QED  BY <1>2, <1>3 DEF AllDumpsInv

LEMMA DumpStep ==
  ASSUME TypeOK, NEW id \in Ids, DumpInv(id), [Next]_vars
  PROVE  DumpInv(id)'
<1>0. /\ entries \in [Ids -> EntryType]
      /\ archive \in [Ids -> {"none", "partial", "whole"}]
      /\ preserved \in [Ids -> Originators \cup {"none", "lost"}]
  BY DEF TypeOK
<1>a. entries[id] \in EntryType
  BY <1>0
<1>1. ASSUME NEW p \in Pids, NEW r \in Requests, CreateDump(p, r)
      PROVE  DumpInv(id)'
  <2>1. CASE entries'[id] = entries[id]
    BY <1>1, <2>1 DEF CreateDump, DumpInv, Live, SavedOriginator
  <2>2. CASE entries'[id] = NewEntry(r.originator)
    BY <1>1, <2>2, RequestTypes
       DEF CreateDump, DumpInv, Live, SavedOriginator, NewEntry, LiveStatus
  <2>3. QED  BY <1>0, <1>1, <2>1, <2>2 DEF CreateDump
<1>2. ASSUME NEW p \in Pids, NEW r \in Requests,
             CreateDumpChildSourceFails(p, r)
      PROVE  DumpInv(id)'
  BY <1>2 DEF CreateDumpChildSourceFails, DumpInv, Live, SavedOriginator
<1>3. ASSUME NEW j \in Ids, DeleteEntry(j)
      PROVE  DumpInv(id)'
  <2>1. PICK gone \in SUBSET DirectoriesOf({j}) : RemoveDumps(gone)
    BY <1>3, RemovableDirectories DEF DeleteEntry
  <2>2. CASE j = id
    BY <1>0, <1>3, <2>1, <2>2
       DEF DeleteEntry, RemoveDumps, DirectoriesOf, DumpInv, Live,
           SavedOriginator, NoEntry, LiveStatus
  <2>3. CASE j # id
    BY <1>0, <1>3, <2>1, <2>3
       DEF DeleteEntry, RemoveDumps, DirectoriesOf, DumpInv, Live,
           SavedOriginator
  <2>4. QED  BY <2>2, <2>3
<1>4. CASE DeleteAll
  <2>1. PICK gone \in SUBSET DirectoriesOf(Ids) : RemoveDumps(gone)
    BY <1>4, RemovableDirectories DEF DeleteAll, DirectoriesOf
  <2>2. QED
    BY <1>0, <1>4, <2>1
       DEF DeleteAll, RemoveDumps, DirectoriesOf, DumpInv, Live,
           SavedOriginator, NoEntry, LiveStatus
<1>5. ASSUME NEW p \in Pids, DreportProgress(p)
      PROVE  DumpInv(id)'
  <2>1. CASE DreportMakeDir(p)
    BY <2>1 DEF DreportMakeDir, DumpInv, Live, SavedOriginator
  <2>2. ASSUME NEW content \in {"partial", "whole"}, NEW phase,
               DreportWrite(p, content, phase)
        PROVE  DumpInv(id)'
    <3>1. archive'[id] # archive[id] => archive'[id] # "none" /\ id \in dirs
      <4>1. CASE dreport[p].id = id
        BY <1>0, <2>2, <4>1 DEF DreportWrite
      <4>2. CASE dreport[p].id # id
        BY <1>0, <2>2, <4>2 DEF DreportWrite
      <4>3. QED  BY <4>1, <4>2
    <3>2. QED
      BY <2>2, <3>1 DEF DreportWrite, DumpInv, Live, SavedOriginator
  <2>3. CASE DreportCopyAstray(p) \/ DreportExits(p) \/ DreportFails(p)
               \/ DreportGivesUp(p)
    BY <2>3 DEF DreportCopyAstray, DreportExits, DreportFails, DreportGivesUp,
                DumpInv, Live, SavedOriginator
  <2>4. QED
    BY <1>5, <2>1, <2>2, <2>3
       DEF DreportProgress, DreportCopy, DreportCopyTruncated
<1>6. ASSUME NEW j \in Ids, WatchDirectory(j)
      PROVE  DumpInv(id)'
  BY <1>6 DEF WatchDirectory, DumpInv, Live, SavedOriginator
<1>7. ASSUME NEW j \in Ids, FileClosed(j)
      PROVE  DumpInv(id)'
  <2>1. CASE j # id
    BY <1>0, <1>7, <2>1 DEF FileClosed, Serialize, DumpInv, Live, SavedOriginator
  <2>2. CASE j = id /\ Live(id)
    <3>1. /\ entries'[id] = CompletedEntry(entries[id].originator)
          /\ preserved'[id] \in {entries[id].originator, "lost"}
          /\ entries[id].originator \in Originators
      <4>1. EntryAfterClose(entries[id]) = CompletedEntry(entries[id].originator)
        BY <2>2 DEF EntryAfterClose, Live, LiveStatus
      <4>2. QED  BY <1>0, <1>7, <2>2, <4>1 DEF FileClosed, Serialize, DumpInv
    <3>2. QED
      BY <1>7, <2>2, <3>1
         DEF FileClosed, Serialize, DumpInv, Live, SavedOriginator, CompletedEntry,
             LiveStatus, Originators
  <2>3. CASE j = id /\ ~Live(id)
    <3>1. entries'[id] = CompletedEntry("Internal") \/ entries'[id] = entries[id]
      BY <1>0, <1>a, <1>7, <2>3
         DEF FileClosed, EntryAfterClose, Live, EntryType
    <3>2. QED
      BY <1>7, <2>3, <3>1
         DEF FileClosed, Serialize, DumpInv, Live, SavedOriginator, CompletedEntry,
             LiveStatus, Originators
  <2>4. QED  BY <2>1, <2>2, <2>3
<1>8. ASSUME NEW j \in Ids, TimerExpires(j)
      PROVE  DumpInv(id)'
  BY <1>8 DEF TimerExpires, DumpInv, Live, SavedOriginator
<1>9. ASSUME NEW p \in Pids, NEW failed \in BOOLEAN, ChildCallback(p, failed),
             UNCHANGED <<up, queues, disk>>
      PROVE  DumpInv(id)'
  <2>1. entries'[id] \in {entries[id], EntryAfterFailure(entries[id])}
    BY <1>0, <1>9 DEF ChildCallback
  <2>2. CASE Live(id)
    BY <1>a, <1>9, <2>1, <2>2
       DEF DumpInv, Live, SavedOriginator, EntryAfterFailure, LiveStatus,
           EntryType
  <2>3. CASE ~Live(id)
    BY <1>9, <2>1, <2>3
       DEF DumpInv, Live, SavedOriginator, EntryAfterFailure, LiveStatus,
           NullEntry
  <2>4. QED  BY <2>2, <2>3
<1>10. ASSUME NEW p \in Pids, ChildExited(p) \/ ChildStopped(p)
       PROVE  DumpInv(id)'
  BY <1>10, <1>9 DEF ChildExited, ChildStopped
<1>11. ASSUME NEW cutShort \in SUBSET dirs', NEW now, DaemonGone(cutShort, now),
              now[id] # "none" \/ preserved'[id] # "none" => id \in dirs'
       PROVE  DumpInv(id)'
  BY <1>11 DEF DaemonGone, DumpInv, Live, SavedOriginator, NoEntry, LiveStatus
<1>12. CASE Crash
  BY <1>12, <1>11 DEF Crash, BeingCopied, DumpInv
<1>13. CASE DeleteAllCrashes
  <2>1. PICK gone \in SUBSET Ids :
          /\ dirs' = dirs \ gone
          /\ preserved' = [j \in Ids |-> IF j \in gone THEN "none"
                                                        ELSE preserved[j]]
          /\ \E cutShort \in SUBSET BeingCopied :
               DaemonGone(cutShort \ gone,
                          [j \in Ids |-> IF j \in gone THEN "none"
                                                        ELSE archive[j]])
    BY <1>13, RemovableDirectories DEF DeleteAllCrashes
  <2>2. PICK cutShort \in SUBSET BeingCopied :
          DaemonGone(cutShort \ gone,
                     [j \in Ids |-> IF j \in gone THEN "none" ELSE archive[j]])
    BY <2>1
  <2>3. cutShort \ gone \in SUBSET dirs'
    BY <2>1 DEF BeingCopied
  <2>4. QED  BY <2>1, <2>2, <2>3, <1>11 DEF DumpInv
<1>14. CASE Restart
  <2>1. entries'[id] = RestoredEntry(id)
    BY <1>14 DEF Restart
  <2>2. preserved[id] \in Originators \cup {"none", "lost"}
    BY <1>0
  <2>3. QED
    BY <1>14, <2>1, <2>2
       DEF Restart, RestoredEntry, NoEntry, CompletedEntry, DumpInv, Live,
           SavedOriginator, LiveStatus, Originators
<1>15. CASE UNCHANGED vars
  BY <1>15 DEF DumpInv, Live, SavedOriginator
<1>16. QED
  BY <1>1, <1>2, <1>3, <1>4, <1>5, <1>6, <1>7, <1>8, <1>10, <1>12, <1>13,
     <1>14, <1>15 DEF Next, Request, Callback

LEMMA DiskInvariant == Spec => []DiskInv
<1>1. Init => AllDumpsInv
  BY DEF Init, AllDumpsInv, DumpInv, Live, NoEntry, LiveStatus, SavedOriginator
<1>2. TypeOK /\ AllDumpsInv /\ [Next]_vars => AllDumpsInv'
  BY DumpStep DEF AllDumpsInv
<1>3. QED  BY <1>1, <1>2, TypeCorrect, DiskInvPerDump, PTL DEF Spec

\* OfferedDumpsAreOnDisk: an entry that names a file has its archive on disk.
THEOREM OfferedOnDisk == Spec => []OfferedDumpsAreOnDisk
BY DiskInvariant, PTL DEF DiskInv

\* CompletedDumpsRecoverable: restore() would make every completed entry again
\* from the files on disk, whichever of the faults in Faults occur - with the BMC's
\* own originator where serialize() failed.
THEOREM CompletedRecoverable == Spec => []CompletedDumpsRecoverable
BY DiskInvariant, PTL DEF DiskInv
-----------------------------------------------------------------------------
(* One user dump at a time, one dump per id *)

\* The rare faults that let a dreport run without the manager waiting for it.
Unsupervised == {"stop", "source", "survive"}

\* ProcessInv, for two processes and one dump.
PairInv(p, q) ==
  /\ Alive(p) => /\ up
                 /\ p \in childPtrMap
                 /\ dreport[p].id <= lastEntryId
                 /\ dreport[p].type = "USER" => fUserDumpInProgress
  /\ Alive(p) /\ Alive(q) /\ dreport[p].id = dreport[q].id => p = q
  /\ Alive(p) /\ dreport[p].type = "USER" /\
     Alive(q) /\ dreport[q].type = "USER" => p = q

IdInv(id) ==
  /\ up /\ id > lastEntryId => entries[id] = NoEntry /\ id \notin dirs
  /\ ~up => entries[id] = NoEntry

AllInv == /\ \A p, q \in Pids : PairInv(p, q)
          /\ \A id \in Ids : IdInv(id)

LEMMA AllInvMeans == TypeOK => (ProcessInv <=> AllInv)
<1> SUFFICES ASSUME TypeOK  PROVE ProcessInv <=> AllInv
  OBVIOUS
<1>1. \A p \in Pids : Alive(p) => dreport[p].id \in Nat
  BY DreportTypes DEF TypeOK, Alive, ProcessType, NoProcess, Ids
<1>2. lastEntryId \in Nat
  BY DEF TypeOK
<1>3. entries = [id \in Ids |-> NoEntry] <=> \A id \in Ids : entries[id] = NoEntry
  BY DEF TypeOK
<1>4. ASSUME ProcessInv  PROVE AllInv
  BY <1>3, <1>4
     DEF AllInv, PairInv, IdInv, ProcessInv, EveryDreportWatched,
         FlagCoversUserDumps, OneUserDump, KnownIds, IdsNameOneDump
<1>5. ASSUME AllInv  PROVE ProcessInv
  <2>1. \A id \in Ids : id > lastEntryId =>
          \A p \in Pids : Alive(p) => dreport[p].id # id
    BY <1>1, <1>2, <1>5 DEF AllInv, PairInv, Ids
  <2>2. QED
    BY <1>3, <1>5, <2>1
       DEF AllInv, PairInv, IdInv, ProcessInv, EveryDreportWatched,
           FlagCoversUserDumps, OneUserDump, KnownIds, IdsNameOneDump
<1>6. QED  BY <1>4, <1>5

\* How a dreport process changes when it moves on or is reaped.
LEMMA ProgressChanges ==
  ASSUME TypeOK, NEW p \in Pids, DreportProgress(p)
  PROVE  /\ UNCHANGED <<up, lastEntryId, fUserDumpInProgress, childPtrMap, entries>>
         /\ dirs' \subseteq dirs \cup {dreport[p].id}
         /\ Alive(p)
         /\ \A q \in Pids : Alive(q)' => /\ Alive(q)
                                         /\ dreport'[q].id = dreport[q].id
                                         /\ dreport'[q].type = dreport[q].type
<1>1. dreport[p].phase # "none"
  BY DEF DreportProgress, DreportMakeDir, DreportCopy, DreportCopyTruncated,
         DreportWrite, DreportCopyAstray, DreportExits, DreportFails,
         DreportGivesUp
<1>2. PICK phase : SetPhase(p, phase) \/ ExitWith(p, phase)
  BY DEF DreportProgress, DreportMakeDir, DreportCopy, DreportCopyTruncated,
         DreportWrite, DreportCopyAstray, DreportExits, DreportFails,
         DreportGivesUp
<1>3. dreport \in [Pids -> ProcessType]
  BY DEF TypeOK
<1>4. /\ [dreport[p] EXCEPT !.phase = phase].type = dreport[p].type
      /\ [dreport[p] EXCEPT !.phase = phase].id = dreport[p].id
  BY <1>3 DEF ProcessType, NoProcess
<1>5. \A q \in Pids : Alive(q)' => /\ Alive(q)
                                   /\ dreport'[q].id = dreport[q].id
                                   /\ dreport'[q].type = dreport[q].type
  <2>1. \A q \in Pids : q # p => dreport'[q] = dreport[q]
    BY <1>2, <1>3 DEF SetPhase, ExitWith
  <2>2. \/ dreport'[p] = [dreport[p] EXCEPT !.phase = phase]
        \/ dreport'[p] = NoProcess
    BY <1>2, <1>3 DEF SetPhase, ExitWith
  <2>3. dreport'[p].phase # "none" => /\ dreport'[p].id = dreport[p].id
                                      /\ dreport'[p].type = dreport[p].type
    <3>1. CASE dreport'[p] = [dreport[p] EXCEPT !.phase = phase]
      BY <1>4, <3>1, Zenon
    <3>2. CASE dreport'[p] = NoProcess
      BY <3>2 DEF NoProcess
    <3>3. QED  BY <2>2, <3>1, <3>2
  <2>4. QED  BY <1>1, <2>1, <2>3 DEF Alive
<1>6. /\ UNCHANGED <<up, lastEntryId, fUserDumpInProgress, childPtrMap, entries>>
      /\ dirs' \subseteq dirs \cup {dreport[p].id}
  BY DEF DreportProgress, DreportMakeDir, DreportCopy, DreportCopyTruncated,
         DreportWrite, DreportCopyAstray, DreportExits, DreportFails,
         DreportGivesUp
<1>7. QED  BY <1>1, <1>5, <1>6 DEF Alive

\* Steps that change no process and nothing PairInv looks at.
LEMMA PairsKept ==
  ASSUME UNCHANGED <<up, lastEntryId, fUserDumpInProgress, childPtrMap, dreport>>,
         NEW p \in Pids, NEW q \in Pids, PairInv(p, q)
  PROVE  PairInv(p, q)'
BY DEF PairInv, Alive

LEMMA PairStep ==
  ASSUME Faults \cap Unsupervised = {}, TypeOK, AllInv, [Next]_vars,
         NEW p \in Pids, NEW q \in Pids
  PROVE  PairInv(p, q)'
<1>0. /\ dreport \in [Pids -> ProcessType]
      /\ lastEntryId \in Nat
      /\ \A r \in Pids : Alive(r) => dreport[r].id \in Nat
  BY DreportTypes DEF TypeOK, Alive, ProcessType, NoProcess, Ids
<1>a. PairInv(p, q) /\ PairInv(q, p)
  BY DEF AllInv
<1>1. ASSUME NEW n \in Pids, NEW r \in Requests, CreateDump(n, r)
      PROVE  PairInv(p, q)'
  <2>1. /\ dreport' = [dreport EXCEPT ![n] = [phase |-> "collecting",
                                              id |-> lastEntryId + 1,
                                              type |-> r.type]]
        /\ up' = up /\ up
        /\ lastEntryId' = lastEntryId + 1
        /\ childPtrMap' = childPtrMap \cup {n}
        /\ ~Alive(n)
        /\ fUserDumpInProgress => fUserDumpInProgress'
        /\ r.type = "USER" => ~fUserDumpInProgress
    BY <1>1 DEF CreateDump, Fork, Alive
  <2>2. r.type = "USER" => fUserDumpInProgress'
    <3>1. lastEntryId + 1 \in Ids /\ lastEntryId + 1 > lastEntryId
      BY <1>0, <1>1, ForkTypes DEF CreateDump
    <3>2. entries[lastEntryId + 1] = NoEntry
      BY <3>1, <2>1 DEF AllInv, IdInv
    <3>3. ~Live(lastEntryId + 1)
      BY <3>2 DEF Live, NoEntry, LiveStatus
    <3>4. QED  BY <3>3, <1>1 DEF CreateDump
  <2>3. \A m \in Pids : m # n => dreport'[m] = dreport[m]
    BY <1>0, <2>1
  <2>4. /\ dreport'[n].id = lastEntryId + 1
        /\ dreport'[n].type = r.type
    BY <1>0, <2>1
  <2>5. \A m \in Pids : Alive(m) => /\ dreport[m].id <= lastEntryId
                                    /\ dreport[m].type = "USER" => fUserDumpInProgress
    BY DEF AllInv, PairInv
  <2>6. \A m \in Pids : Alive(m) => dreport[m].id # lastEntryId + 1
    <3> SUFFICES ASSUME NEW m \in Pids, Alive(m)
                 PROVE  dreport[m].id # lastEntryId + 1
      OBVIOUS
    <3>1. dreport[m].id \in Nat /\ dreport[m].id <= lastEntryId
      BY <1>0, <2>5
    <3>2. QED  BY <1>0, <3>1
  <2>7. CASE p = n
    <3>1. /\ p \in childPtrMap'
          /\ dreport'[p].id <= lastEntryId'
          /\ dreport'[p].type = "USER" => fUserDumpInProgress'
      BY <1>0, <2>1, <2>2, <2>4, <2>7
    <3>2. CASE q = n
      BY <2>1, <2>7, <3>1, <3>2 DEF PairInv, Alive
    <3>3. CASE q # n
      BY <1>0, <2>1, <2>3, <2>4, <2>5, <2>6, <2>7, <3>1, <3>3 DEF PairInv, Alive
    <3>4. QED  BY <3>2, <3>3
  <2>8. CASE p # n /\ q = n
    BY <1>0, <1>a, <2>1, <2>2, <2>3, <2>4, <2>5, <2>6, <2>8 DEF PairInv, Alive
  <2>9. CASE p # n /\ q # n
    BY <1>0, <1>a, <2>1, <2>3, <2>9 DEF PairInv, Alive
  <2>10. QED  BY <2>7, <2>8, <2>9
<1>2. ASSUME NEW n \in Pids, DreportProgress(n)
      PROVE  PairInv(p, q)'
  BY <1>2, <1>a, ProgressChanges DEF PairInv
<1>3. ASSUME NEW n \in Pids, ChildExited(n)
      PROVE  PairInv(p, q)'
  <2>1. /\ dreport' = [dreport EXCEPT ![n] = NoProcess]
        /\ childPtrMap' = childPtrMap \ {n}
        /\ fUserDumpInProgress' = (fUserDumpInProgress /\ dreport[n].type # "USER")
        /\ UNCHANGED <<up, lastEntryId>>
        /\ Alive(n)
    BY <1>3 DEF ChildExited, ChildCallback, Exited, Alive
  <2>2. /\ ~Alive(n)'
        /\ \A m \in Pids : m # n => dreport'[m] = dreport[m]
    BY <1>0, <2>1 DEF Alive, NoProcess
  <2>3. PairInv(p, n) /\ PairInv(n, p)
    BY DEF AllInv
  <2>4. QED  BY <1>a, <2>1, <2>2, <2>3 DEF PairInv, Alive
<1>4. CASE Crash \/ DeleteAllCrashes
  <2>1. dreport' = [m \in Pids |-> NoProcess]
    BY <1>4 DEF Crash, DeleteAllCrashes, DaemonGone, Unsupervised
  <2>2. QED  BY <2>1 DEF PairInv, Alive, NoProcess
<1>5. CASE Restart
  <2>1. ~up /\ UNCHANGED dreport
    BY <1>5 DEF Restart
  <2>2. \A m \in Pids : ~Alive(m)
    BY <2>1 DEF AllInv, PairInv
  <2>3. QED  BY <2>1, <2>2 DEF PairInv, Alive
<1>6. ASSUME NEW id \in Ids,
             DeleteEntry(id) \/ WatchDirectory(id) \/ FileClosed(id)
               \/ TimerExpires(id)
      PROVE  PairInv(p, q)'
  BY <1>6, <1>a, PairsKept
     DEF DeleteEntry, WatchDirectory, FileClosed, TimerExpires
<1>7. CASE DeleteAll \/ UNCHANGED vars
  BY <1>7, <1>a, PairsKept DEF DeleteAll
<1>8. ASSUME NEW n \in Pids, NEW r \in Requests,
             CreateDumpChildSourceFails(n, r) \/ ChildStopped(n)
      PROVE  FALSE
  BY <1>8 DEF CreateDumpChildSourceFails, ChildStopped, Unsupervised
<1>9. ASSUME NEW n \in Pids, ChildStopped(n)
      PROVE  FALSE
  BY <1>9 DEF ChildStopped, Unsupervised
<1>10. QED
  BY <1>1, <1>2, <1>3, <1>4, <1>5, <1>6, <1>7, <1>8, <1>9
     DEF Next, Request, Callback

LEMMA IdStep ==
  ASSUME Faults \cap Unsupervised = {}, TypeOK, DiskInv, AllInv, [Next]_vars,
         NEW id \in Ids
  PROVE  IdInv(id)'
<1>0. /\ IdInv(id)
      /\ lastEntryId \in Nat
      /\ id \in Nat
      /\ entries \in [Ids -> EntryType]
  BY DEF AllInv, TypeOK, Ids
<1>a. id \in dirEvents \cup childWatchMap \cup fileEvents => up /\ id \in dirs
  BY DEF DiskInv, WatchedDirsAreNew
<1>b. \A p \in Pids : Alive(p) => up /\ dreport[p].id <= lastEntryId
  BY DEF AllInv, PairInv
<1>1. ASSUME NEW n \in Pids, NEW r \in Requests, CreateDump(n, r)
      PROVE  IdInv(id)'
  <2>1. up' /\ up /\ lastEntryId' = lastEntryId + 1 /\ dirs' = dirs
    BY <1>1 DEF CreateDump, Fork, disk
  <2>2. id # lastEntryId + 1 => entries'[id] = entries[id]
    BY <1>0, <1>1 DEF CreateDump
  <2>3. QED  BY <1>0, <2>1, <2>2 DEF IdInv
<1>2. ASSUME NEW n \in Pids, DreportProgress(n)
      PROVE  IdInv(id)'
  <2>1. /\ UNCHANGED <<up, lastEntryId, entries>>
        /\ dirs' \subseteq dirs \cup {dreport[n].id}
        /\ Alive(n)
    BY <1>2, ProgressChanges
  <2>2. dreport[n].id <= lastEntryId
    BY <1>b, <2>1
  <2>3. id > lastEntryId => id # dreport[n].id
    BY <1>0, <2>2
  <2>4. QED  BY <1>0, <2>1, <2>3 DEF IdInv
<1>3. ASSUME NEW n \in Pids, ChildExited(n)
      PROVE  IdInv(id)'
  <2>1. /\ UNCHANGED <<up, lastEntryId, dirs>>
        /\ id # dreport[n].id => entries'[id] = entries[id]
        /\ Alive(n)
    BY <1>0, <1>3 DEF ChildExited, ChildCallback, Exited, Alive, disk
  <2>2. up /\ dreport[n].id <= lastEntryId
    BY <1>b, <2>1
  <2>3. id > lastEntryId => id # dreport[n].id
    BY <1>0, <2>2
  <2>4. QED  BY <1>0, <2>1, <2>2, <2>3 DEF IdInv
<1>4. CASE Crash \/ DeleteAllCrashes
  <2>1. ~up' /\ entries' = [i \in Ids |-> NoEntry]
    BY <1>4 DEF Crash, DeleteAllCrashes, DaemonGone
  <2>2. QED  BY <2>1 DEF IdInv
<1>5. CASE Restart
  <2>1. PICK n \in 0 .. MaxId : IsLastId(n) /\ lastEntryId' = n
    BY <1>5 DEF Restart
  <2>2. up' /\ dirs' = dirs /\ entries'[id] = RestoredEntry(id)
    BY <1>5 DEF Restart, disk
  <2>3. n \in Nat
    BY MaxIdAssumption, <2>1
  <2>4. id > n => id \notin dirs
    BY <1>0, <2>1, <2>3 DEF IsLastId
  <2>5. QED  BY <2>1, <2>2, <2>4 DEF IdInv, RestoredEntry
<1>6. CASE DeleteEntry(id) \/ DeleteAll
  <2>1. /\ UNCHANGED <<up, lastEntryId>>
        /\ dirs' \subseteq dirs
        /\ entries'[id] = NoEntry
    BY <1>0, <1>6 DEF DeleteEntry, DeleteAll, RemoveDumps, disk
  <2>2. QED  BY <1>0, <2>1 DEF IdInv
<1>7. ASSUME NEW other \in Ids, other # id,
             DeleteEntry(other) \/ FileClosed(other)
      PROVE  IdInv(id)'
  <2>1. /\ UNCHANGED <<up, lastEntryId>>
        /\ dirs' \subseteq dirs
        /\ entries'[id] = entries[id]
    BY <1>0, <1>7 DEF DeleteEntry, FileClosed, RemoveDumps, disk
  <2>2. QED  BY <1>0, <2>1 DEF IdInv
<1>8. CASE FileClosed(id)
  <2>1. UNCHANGED <<up, lastEntryId, dirs>> /\ id \in fileEvents
    BY <1>8 DEF FileClosed
  <2>2. up /\ id \in dirs
    BY <1>a, <2>1
  <2>3. QED  BY <1>0, <2>1, <2>2 DEF IdInv
<1>9. ASSUME NEW any \in Ids, WatchDirectory(any) \/ TimerExpires(any)
      PROVE  IdInv(id)'
  BY <1>0, <1>9 DEF WatchDirectory, TimerExpires, memory, disk, IdInv
<1>10. CASE UNCHANGED vars
  BY <1>0, <1>10 DEF vars, memory, disk, IdInv
<1>11. ASSUME NEW n \in Pids, NEW r \in Requests,
              CreateDumpChildSourceFails(n, r)
       PROVE  FALSE
  BY <1>11 DEF CreateDumpChildSourceFails, Unsupervised
<1>12. ASSUME NEW n \in Pids, ChildStopped(n)
       PROVE  FALSE
  BY <1>12 DEF ChildStopped, Unsupervised
<1>13. QED
  BY <1>1, <1>2, <1>3, <1>4, <1>5, <1>6, <1>7, <1>8, <1>9, <1>10, <1>11, <1>12
     DEF Next, Request, Callback

LEMMA SupervisedStep ==
  Faults \cap Unsupervised = {} =>
    (TypeOK /\ DiskInv /\ AllInv /\ [Next]_vars => AllInv')
<1> SUFFICES ASSUME Faults \cap Unsupervised = {}, TypeOK, DiskInv, AllInv,
                    [Next]_vars
             PROVE  AllInv'
  OBVIOUS
<1>1. \A p, q \in Pids : PairInv(p, q)'
  BY PairStep
<1>2. \A id \in Ids : IdInv(id)'
  BY IdStep
<1>3. QED  BY <1>1, <1>2 DEF AllInv

LEMMA SupervisedInvariant ==
  ASSUME Faults \cap Unsupervised = {}
  PROVE  Spec => []ProcessInv
<1>1. Init => AllInv
  BY DEF Init, AllInv, PairInv, IdInv, Alive, NoProcess
<1>2. TypeOK /\ DiskInv /\ AllInv /\ [Next]_vars => AllInv'
  BY SupervisedStep
<1>3. TypeOK /\ AllInv => ProcessInv
  BY AllInvMeans
<1>4. QED  BY <1>1, <1>2, <1>3, TypeCorrect, DiskInvariant, PTL DEF Spec

\* UserDumpExclusion: when every dreport is supervised from its fork to its
\* exit, two user dumps are never collected at once.
THEOREM OneUserDumpAtATime ==
  ASSUME Faults \cap Unsupervised = {}
  PROVE  Spec => []UserDumpExclusion
<1>1. ProcessInv => UserDumpExclusion
  BY DEF ProcessInv, FlagCoversUserDumps, OneUserDump, UserDumpExclusion,
         UserDump, Alive, Running
<1>2. QED  BY <1>1, SupervisedInvariant, PTL

\* IdsNameOneDump: under the same conditions an id is never given twice, to
\* two processes or over an object or a directory that is still there.
THEOREM IdsAreUnique ==
  ASSUME Faults \cap Unsupervised = {}
  PROVE  Spec => []IdsNameOneDump
BY SupervisedInvariant, PTL DEF ProcessInv

-----------------------------------------------------------------------------
(* The dumps that are waited for: those in progress whose directory was      *)
(* watched in time.                                                          *)

InProgress(id) == entries[id].status = "InProgress"
New(id)        == id \in dirEvents \cup childWatchMap

\* Its archive is still to come, or the close of it is queued.
WaitedFor(id) ==
  /\ InProgress(id)
  /\ id \in childWatchMap
  /\ id \in fileEvents \/ archive[id] = "none"

\* A dreport that will write the archive of this dump, or has failed to, and
\* whose end the Child callback is told of.
Reporter(p, id) ==
  /\ p \in childPtrMap
  /\ dreport[p].id = id
  /\ dreport[p].phase \in {"packaging", "exited1"}

\* Whatever is waited for, something on its way ends: the close of an archive
\* that is there, or the exit of a process.
FollowInv(id) ==
  /\ id \in fileEvents => archive[id] # "none"
  /\ InProgress(id) /\ New(id) /\ archive[id] = "none" =>
       \E p \in Pids : Reporter(p, id)

WaitedForEnds ==
  \A id \in Ids : WaitedFor(id) =>
    \/ id \in fileEvents /\ archive[id] # "none"
    \/ \E p \in Pids : Reporter(p, id)

\* A dump that is waited for is, until it is no longer in progress.
WaitedForUntilSettled ==
  [][\A id \in Ids : WaitedFor(id) => WaitedFor(id)' \/ ~InProgress(id)']_vars

\* What is new has a directory, and no file that a delete removes.
LEMMA NewHasDirectory ==
  ASSUME DiskInv, NEW id \in Ids, New(id) \/ id \in fileEvents
  PROVE  up /\ id \in dirs /\ ~entries[id].file
BY DEF DiskInv, WatchedDirsAreNew, New

LEMMA ReporterStays ==
  ASSUME NEW p \in Pids, NEW id \in Ids, Reporter(p, id),
         p \in childPtrMap', dreport'[p] = dreport[p]
  PROVE  \E q \in Pids : Reporter(q, id)'
BY DEF Reporter

\* Steps after which the dump is as new, in progress and without an archive
\* only if it was, and each process that reports on it still does.
LEMMA FollowKept ==
  ASSUME NEW id \in Ids, FollowInv(id),
         id \in fileEvents' => id \in fileEvents /\ archive'[id] = archive[id],
         InProgress(id)' /\ New(id)' /\ archive'[id] = "none" =>
           InProgress(id) /\ New(id) /\ archive[id] = "none",
         \A p \in Pids : InProgress(id)' /\ New(id) /\ Reporter(p, id) =>
                           p \in childPtrMap' /\ dreport'[p] = dreport[p]
  PROVE  FollowInv(id)'
BY ReporterStays DEF FollowInv

\* A process that moves on, and the others.
LEMMA OtherProcesses ==
  ASSUME TypeOK, NEW n \in Pids, DreportProgress(n)
  PROVE  /\ \A p \in Pids \ {n} : dreport'[p] = dreport[p]
         /\ UNCHANGED <<up, entries, childPtrMap, childWatchMap>>
         /\ dreport[n] \in ProcessType /\ dreport[n].phase \in Running
BY DEF TypeOK, DreportProgress, DreportMakeDir, DreportCopy,
       DreportCopyTruncated, DreportWrite, DreportCopyAstray, DreportExits,
       DreportFails, DreportGivesUp, SetPhase, ExitWith, Running

LEMMA ProgressFollows ==
  ASSUME TypeOK, DiskInv, EveryDreportWatched, NEW id \in Ids, FollowInv(id),
         NEW n \in Pids, DreportProgress(n)
  PROVE  FollowInv(id)'
<1>0. /\ dreport \in [Pids -> ProcessType]
      /\ archive \in [Ids -> {"none", "partial", "whole"}]
      /\ \A p \in Pids \ {n} : dreport'[p] = dreport[p]
      /\ UNCHANGED <<up, entries, childPtrMap, childWatchMap>>
      /\ n \in childPtrMap
  BY OtherProcesses DEF TypeOK, EveryDreportWatched, Alive, Running
<1>1. CASE DreportMakeDir(n)
  <2>1. /\ dreport[n].phase = "collecting" /\ SetPhase(n, "packaging")
        /\ dirEvents' \subseteq dirEvents \cup {dreport[n].id}
        /\ UNCHANGED <<fileEvents, archive>>
    BY <1>1 DEF DreportMakeDir
  <2>2. CASE dreport[n].id = id
    <3>1. Reporter(n, id)'
      BY <1>0, <2>1, <2>2 DEF Reporter, SetPhase
    <3>2. QED  BY <2>1, <3>1 DEF FollowInv
  <2>3. CASE dreport[n].id # id
    <3>1. New(id)' => New(id)
      BY <1>0, <2>1, <2>3 DEF New
    <3>2. \A p \in Pids : Reporter(p, id) => p # n
      BY <2>3 DEF Reporter
    <3>3. QED  BY <1>0, <2>1, <3>1, <3>2, FollowKept DEF InProgress, Reporter
  <2>4. QED  BY <2>2, <2>3
<1>2. CASE DreportCopy(n) \/ DreportCopyTruncated(n)
  <2>1. PICK content \in {"whole", "partial"} :
          /\ dreport[n].phase = "packaging"
          /\ archive' = [archive EXCEPT ![dreport[n].id] = content]
          /\ fileEvents' \subseteq fileEvents \cup {dreport[n].id}
          /\ UNCHANGED dirEvents
    BY <1>2 DEF DreportCopy, DreportCopyTruncated, DreportWrite
  <2>2. CASE dreport[n].id = id
    <3>1. archive'[id] # "none"
      BY <1>0, <2>1, <2>2
    <3>2. QED  BY <3>1 DEF FollowInv
  <2>3. CASE dreport[n].id # id
    <3>1. archive'[id] = archive[id]
      BY <1>0, <2>1, <2>3
    <3>2. \A p \in Pids : Reporter(p, id) => p # n
      BY <2>3 DEF Reporter
    <3>3. QED  BY <1>0, <2>1, <2>3, <3>1, <3>2, FollowKept
               DEF InProgress, New, Reporter
  <2>4. QED  BY <2>2, <2>3
<1>3. CASE DreportCopyAstray(n) \/ DreportExits(n) \/ DreportGivesUp(n)
  <2>1. UNCHANGED <<fileEvents, dirEvents, archive>>
    BY <1>3 DEF DreportCopyAstray, DreportExits, DreportGivesUp
  <2>2. ASSUME New(id)  PROVE ~Reporter(n, id)
    <3>1. id \in dirs
      BY <2>2, NewHasDirectory
    <3>2. QED  BY <1>3, <3>1 DEF DreportCopyAstray, DreportExits,
                                 DreportGivesUp, Reporter
  <2>3. QED  BY <1>0, <2>1, <2>2, FollowKept DEF InProgress, New, Reporter
<1>4. CASE DreportFails(n)
  <2>1. UNCHANGED <<fileEvents, dirEvents, archive>> /\ ExitWith(n, "exited1")
    BY <1>4 DEF DreportFails
  <2>2. dreport'[n].phase = "exited1" /\ dreport'[n].id = dreport[n].id
    <3>1. dreport'[n] = [dreport[n] EXCEPT !.phase = "exited1"]
      BY <1>0, <2>1 DEF ExitWith
    <3>2. QED  BY <1>0, <3>1 DEF ProcessType, NoProcess
  <2>3. \A p \in Pids : Reporter(p, id) => Reporter(p, id)'
    BY <1>0, <2>2 DEF Reporter
  <2>4. QED  BY <1>0, <2>1, <2>3 DEF FollowInv, InProgress, New
<1>5. QED  BY <1>1, <1>2, <1>3, <1>4 DEF DreportProgress

LEMMA FollowStep ==
  ASSUME Faults \cap Unsupervised = {}, TypeOK, DiskInv, ProcessInv,
         NEW id \in Ids, FollowInv(id), [Next]_vars
  PROVE  FollowInv(id)'
<1>0. /\ dreport \in [Pids -> ProcessType]
      /\ entries \in [Ids -> EntryType] /\ entries[id] \in EntryType
      /\ archive \in [Ids -> {"none", "partial", "whole"}]
      /\ EveryDreportWatched
  BY DEF TypeOK, ProcessInv
<1>1. ASSUME NEW n \in Pids, NEW r \in Requests, CreateDump(n, r)
      PROVE  FollowInv(id)'
  <2>1. /\ up /\ dreport[n].phase = "none"
        /\ \A p \in Pids \ {n} : dreport'[p] = dreport[p]
        /\ childPtrMap \subseteq childPtrMap'
        /\ id # lastEntryId + 1 => entries'[id] = entries[id]
        /\ UNCHANGED <<fileEvents, dirEvents, childWatchMap, archive>>
    BY <1>0, <1>1 DEF CreateDump, Fork
  <2>2. New(id) => id # lastEntryId + 1
    <3>1. ASSUME New(id), id = lastEntryId + 1  PROVE FALSE
      <4>1. id > lastEntryId
        BY <3>1 DEF TypeOK
      <4>2. id \notin dirs
        BY <2>1, <4>1 DEF ProcessInv, IdsNameOneDump
      <4>3. QED  BY <3>1, <4>2, NewHasDirectory
    <3>2. QED  BY <3>1
  <2>3. \A p \in Pids : Reporter(p, id) => p # n
    BY <2>1 DEF Reporter
  <2>4. QED  BY <2>1, <2>2, <2>3, FollowKept DEF InProgress, New, Reporter
<1>2. ASSUME NEW n \in Pids, DreportProgress(n)
      PROVE  FollowInv(id)'
  BY <1>0, <1>2, ProgressFollows
<1>3. ASSUME NEW n \in Pids, ChildExited(n)
      PROVE  FollowInv(id)'
  <2>1. /\ \A p \in Pids \ {n} : dreport'[p] = dreport[p]
        /\ childPtrMap' = childPtrMap \ {n}
        /\ UNCHANGED <<fileEvents, dirEvents, childWatchMap, archive>>
        /\ entries' = IF dreport[n].phase = "exited1"
                      THEN [entries EXCEPT ![dreport[n].id] = EntryAfterFailure(@)]
                      ELSE entries
        /\ dreport[n].phase \in Exited
    BY <1>0, <1>3 DEF ChildExited, ChildCallback
  <2>2. EntryAfterFailure(entries[id]).status # "InProgress"
    BY <1>0 DEF EntryAfterFailure, NullEntry, EntryType
  <2>3. CASE Reporter(n, id)
    <3>1. entries'[id] = EntryAfterFailure(entries[id])
      BY <1>0, <2>1, <2>3 DEF Reporter, Exited
    <3>2. QED  BY <2>1, <2>2, <3>1, FollowKept DEF InProgress, New
  <2>4. CASE ~Reporter(n, id)
    <3>1. entries'[id] \in {entries[id], EntryAfterFailure(entries[id])}
      BY <1>0, <2>1
    <3>2. InProgress(id)' => InProgress(id)
      BY <2>2, <3>1 DEF InProgress
    <3>3. QED  BY <2>1, <2>4, <3>2, FollowKept DEF New, Reporter
  <2>5. QED  BY <2>3, <2>4
<1>4. CASE Crash \/ DeleteAllCrashes
  BY <1>4 DEF Crash, DeleteAllCrashes, DaemonGone, FollowInv, New
<1>5. CASE Restart
  <2>1. ~up /\ UNCHANGED <<fileEvents, dirEvents, childWatchMap>>
    BY <1>5 DEF Restart
  <2>2. ~New(id) /\ id \notin fileEvents
    BY <2>1, NewHasDirectory
  <2>3. QED  BY <2>1, <2>2 DEF FollowInv, New
<1>6. ASSUME NEW ids \in SUBSET Ids, NEW gone \in Removable(ids),
             RemoveDumps(gone),
             \A i \in Ids : \/ entries'[i] = NoEntry
                            \/ i \notin ids /\ entries'[i] = entries[i],
             UNCHANGED <<childPtrMap, queues, dreport>>
      PROVE  FollowInv(id)'
  <2>1. id \in gone => entries[id].file /\ entries'[id] = NoEntry
    BY <1>6, RemovableDirectories DEF DirectoriesOf
  <2>2. id \notin gone => archive'[id] = archive[id]
    BY <1>6 DEF RemoveDumps
  <2>3. id \in fileEvents => id \notin gone
    BY <2>1, NewHasDirectory
  <2>4. InProgress(id)' => InProgress(id) /\ id \notin gone
    BY <1>6, <2>1 DEF InProgress, NoEntry
  <2>5. QED  BY <1>6, <2>2, <2>3, <2>4, FollowKept DEF New, Reporter
<1>7. ASSUME NEW i \in Ids, DeleteEntry(i)
      PROVE  FollowInv(id)'
  <2>1. PICK gone \in Removable({i}) : RemoveDumps(gone)
    BY <1>7 DEF DeleteEntry
  <2>2. \A k \in Ids : \/ entries'[k] = NoEntry
                       \/ k \notin {i} /\ entries'[k] = entries[k]
    BY <1>0, <1>7 DEF DeleteEntry
  <2>3. QED  BY <1>6, <1>7, <2>1, <2>2 DEF DeleteEntry
<1>8. CASE DeleteAll
  <2> DEFINE ids == {k \in Ids : Live(k)}
  <2>1. PICK gone \in Removable(ids) : RemoveDumps(gone)
    BY <1>8 DEF DeleteAll
  <2>2. \A k \in Ids : entries'[k] = NoEntry
    BY <1>8 DEF DeleteAll
  <2>3. UNCHANGED <<childPtrMap, queues, dreport>>
    BY <1>8 DEF DeleteAll
  <2>4. ids \in SUBSET Ids
    OBVIOUS
  <2> HIDE DEF ids
  <2>5. QED  BY <1>6, <2>1, <2>2, <2>3, <2>4
<1>9. ASSUME NEW i \in Ids, FileClosed(i)
      PROVE  FollowInv(id)'
  <2>1. /\ fileEvents' \subseteq fileEvents /\ childWatchMap' \subseteq childWatchMap
        /\ UNCHANGED <<dirEvents, archive, childPtrMap, dreport>>
        /\ entries'[id] \in {entries[id], EntryAfterClose(entries[id])}
    BY <1>0, <1>9 DEF FileClosed
  <2>2. EntryAfterClose(entries[id]).status # "InProgress"
    BY <1>0 DEF EntryAfterClose, CompletedEntry, EntryType, LiveStatus
  <2>3. InProgress(id)' => InProgress(id)
    BY <2>1, <2>2 DEF InProgress
  <2>4. QED  BY <2>1, <2>3, FollowKept DEF New, Reporter
<1>10. ASSUME NEW i \in Ids, WatchDirectory(i) \/ TimerExpires(i)
       PROVE  FollowInv(id)'
  <2>1. /\ New(id)' => New(id)
        /\ UNCHANGED <<fileEvents, entries, archive, childPtrMap, dreport>>
    BY <1>10 DEF WatchDirectory, TimerExpires, New
  <2>2. QED  BY <2>1, FollowKept DEF InProgress, Reporter
<1>11. CASE UNCHANGED vars
  BY <1>11 DEF FollowInv, InProgress, New, Reporter
<1>12. ASSUME NEW n \in Pids, NEW r \in Requests,
              CreateDumpChildSourceFails(n, r) \/ ChildStopped(n)
       PROVE  FALSE
  BY <1>12 DEF CreateDumpChildSourceFails, ChildStopped, Unsupervised
<1>13. ASSUME NEW n \in Pids, ChildStopped(n)
       PROVE  FALSE
  BY <1>13 DEF ChildStopped, Unsupervised
<1>14. QED
  BY <1>1, <1>2, <1>3, <1>4, <1>5, <1>7, <1>8, <1>9, <1>10, <1>11, <1>12,
     <1>13
     DEF Next, Request, Callback

\* Only what ends a dump ends the wait for it.
LEMMA WaitStep ==
  ASSUME TypeOK, DiskInv, NEW id \in Ids, WaitedFor(id), [Next]_vars
  PROVE  WaitedFor(id)' \/ ~InProgress(id)'
<1>0. /\ dreport \in [Pids -> ProcessType]
      /\ entries \in [Ids -> EntryType] /\ entries[id] \in EntryType
      /\ archive \in [Ids -> {"none", "partial", "whole"}]
      /\ up /\ ~entries[id].file
      /\ InProgress(id) /\ entries[id].status = "InProgress"
      /\ id \in childWatchMap
  BY NewHasDirectory DEF TypeOK, WaitedFor, New, InProgress
<1> SUFFICES ASSUME InProgress(id)'
             PROVE  /\ id \in childWatchMap'
                    /\ id \in fileEvents' \/ archive'[id] = "none"
  BY DEF WaitedFor
<1>a. ASSUME childWatchMap' = childWatchMap,
             fileEvents \subseteq fileEvents', archive'[id] = archive[id]
      PROVE  /\ id \in childWatchMap'
             /\ id \in fileEvents' \/ archive'[id] = "none"
  BY <1>0, <1>a DEF WaitedFor
<1>1. CASE Request
  <2>1. childWatchMap' = childWatchMap /\ fileEvents' = fileEvents
    BY <1>1 DEF Request, CreateDump, CreateDumpChildSourceFails, DeleteEntry,
                DeleteAll
  <2>2. archive'[id] = archive[id]
    <3>1. ASSUME NEW n \in Pids, NEW r \in Requests,
                 CreateDump(n, r) \/ CreateDumpChildSourceFails(n, r)
          PROVE  archive'[id] = archive[id]
      BY <3>1 DEF CreateDump, CreateDumpChildSourceFails
    <3>2. ASSUME NEW i \in Ids, DeleteEntry(i)
          PROVE  archive'[id] = archive[id]
      <4>1. PICK gone \in Removable({i}) : RemoveDumps(gone)
        BY <3>2 DEF DeleteEntry
      <4>2. id \notin gone
        BY <1>0, <4>1, RemovableDirectories DEF DirectoriesOf
      <4>3. QED  BY <4>1, <4>2 DEF RemoveDumps
    <3>3. ~DeleteAll
      <4>1. ASSUME DeleteAll  PROVE entries'[id] = NoEntry
        BY <4>1 DEF DeleteAll
      <4>2. QED  BY <4>1 DEF InProgress, NoEntry
    <3>4. QED  BY <1>1, <3>1, <3>2, <3>3 DEF Request
  <2>3. QED  BY <1>a, <2>1, <2>2
<1>2. ASSUME NEW n \in Pids, DreportProgress(n)
      PROVE  /\ id \in childWatchMap'
             /\ id \in fileEvents' \/ archive'[id] = "none"
  <2>1. CASE DreportCopy(n) \/ DreportCopyTruncated(n)
    <3>1. PICK content :
            /\ archive' = [archive EXCEPT ![dreport[n].id] = content]
            /\ fileEvents' = IF dreport[n].id \in childWatchMap
                             THEN fileEvents \cup {dreport[n].id} ELSE fileEvents
            /\ childWatchMap' = childWatchMap
      BY <2>1 DEF DreportCopy, DreportCopyTruncated, DreportWrite
    <3>2. CASE dreport[n].id = id
      BY <1>0, <3>1, <3>2
    <3>3. CASE dreport[n].id # id
      BY <1>0, <1>a, <3>1, <3>3
    <3>4. QED  BY <3>2, <3>3
  <2>2. CASE ~(DreportCopy(n) \/ DreportCopyTruncated(n))
    BY <1>2, <1>a, <2>2
       DEF DreportProgress, DreportMakeDir, DreportCopyAstray, DreportExits,
           DreportFails, DreportGivesUp
  <2>3. QED  BY <2>1, <2>2
<1>3. ASSUME NEW i \in Ids, FileClosed(i)
      PROVE  /\ id \in childWatchMap'
             /\ id \in fileEvents' \/ archive'[id] = "none"
  <2>1. i # id
    <3>1. ASSUME i = id  PROVE FALSE
      <4>1. entries'[id] = EntryAfterClose(entries[id])
        BY <1>0, <1>3, <3>1 DEF FileClosed
      <4>2. EntryAfterClose(entries[id]).status = "Completed"
        BY <1>0 DEF EntryAfterClose, CompletedEntry, LiveStatus
      <4>3. QED  BY <4>1, <4>2 DEF InProgress
    <3>2. QED  BY <3>1
  <2>2. QED  BY <1>0, <1>3, <2>1 DEF FileClosed, WaitedFor
<1>4. ASSUME NEW i \in Ids, WatchDirectory(i)
      PROVE  /\ id \in childWatchMap'
             /\ id \in fileEvents' \/ archive'[id] = "none"
  BY <1>0, <1>4 DEF WatchDirectory, WaitedFor
<1>6. ~(Crash \/ DeleteAllCrashes)
  <2>1. ASSUME Crash \/ DeleteAllCrashes  PROVE entries'[id] = NoEntry
    BY <2>1 DEF Crash, DeleteAllCrashes, DaemonGone
  <2>2. QED  BY <2>1 DEF InProgress, NoEntry
<1>7. ~Restart
  BY <1>0 DEF Restart
<1>8. CASE UNCHANGED vars
  BY <1>a, <1>8
<1>9. ASSUME NEW n \in Pids, ChildExited(n) \/ ChildStopped(n)
      PROVE  /\ id \in childWatchMap'
             /\ id \in fileEvents' \/ archive'[id] = "none"
  BY <1>a, <1>9 DEF ChildExited, ChildStopped
<1>10. ASSUME NEW i \in Ids, TimerExpires(i)
       PROVE  /\ id \in childWatchMap'
              /\ id \in fileEvents' \/ archive'[id] = "none"
  BY <1>a, <1>10 DEF TimerExpires
<1>11. QED
  BY <1>1, <1>2, <1>3, <1>4, <1>6, <1>7, <1>8, <1>9, <1>10 DEF Next, Callback

\* A dump in progress whose directory was watched before its archive was there
\* is waited for until it is settled, and never in vain: the close of its
\* archive is queued, or a dreport is at it, or has failed, whose end
\* ChildExited is told of.  It is what WatchedDumpSettles stands on, with the
\* fairness of the callbacks and of dreport.
THEOREM WatchedDumpsAreFollowed ==
  ASSUME Faults \cap Unsupervised = {}
  PROVE  Spec => []WaitedForEnds /\ WaitedForUntilSettled
<1> DEFINE AllFollow == \A id \in Ids : FollowInv(id)
<1>1. Init => AllFollow
  BY DEF Init, FollowInv, New
<1>2. TypeOK /\ DiskInv /\ ProcessInv /\ AllFollow /\ [Next]_vars => AllFollow'
  BY FollowStep
<1>3. AllFollow => WaitedForEnds
  BY DEF FollowInv, WaitedForEnds, WaitedFor, New
<1>4. TypeOK /\ DiskInv /\ [Next]_vars =>
        [\A id \in Ids : WaitedFor(id) => WaitedFor(id)' \/ ~InProgress(id)']_vars
  BY WaitStep
<1> HIDE DEF AllFollow
<1>5. QED  BY <1>1, <1>2, <1>3, <1>4, TypeCorrect, DiskInvariant,
              SupervisedInvariant, PTL DEF Spec, WaitedForUntilSettled

-----------------------------------------------------------------------------
(* The dump store: for any number of ids and processes and any Faults, the   *)
(* manager implements it.  The simulation is step by step; it rests on       *)
(* TypeOK and on DiskInv.                                                    *)

IsKept(id) == id \in dirs /\ archive[id] # "none"

\* What DiskInv and TypeOK say of one dump.
LEMMA StoreFacts ==
  ASSUME TypeOK, DiskInv, NEW id \in Ids
  PROVE  /\ entries[id] \in EntryType
         /\ entries[id].file => Live(id)
         /\ Live(id) => entries[id].originator \in Originators
         /\ entries[id].file => IsKept(id)
         /\ archive[id] # "none" => id \in dirs
         /\ SavedOriginator(id) \in Originators
         /\ id \in dirEvents \cup childWatchMap \cup fileEvents =>
              /\ up /\ id \in dirs
              /\ ~entries[id].file
              /\ preserved[id] = "none"
BY DEF TypeOK, DiskInv, EntriesWellFormed, OfferedDumpsAreOnDisk, IsKept,
       FilesHaveDirectories, WatchedDirsAreNew, SavedOriginator, Originators,
       EntryType

\* The refinement mapping, dump by dump, before and after a step.
LEMMA Mapping ==
  ASSUME TypeOK, DiskInv
  PROVE  /\ Kept \in [Ids -> Originators \cup {"none"}]
         /\ OfferedOnBus \in [Ids -> Originators \cup {"none"}]
         /\ \A id \in Ids :
              /\ Kept[id] = "none" <=> ~IsKept(id)
              /\ IsKept(id) => Kept[id] = SavedOriginator(id)
              /\ OfferedOnBus[id] = "none" <=> ~entries[id].file
              /\ entries[id].file => OfferedOnBus[id] = entries[id].originator
<1>1. "none" \notin Originators
  BY DEF Originators
<1>2. QED  BY <1>1, StoreFacts DEF Kept, OfferedOnBus, IsKept

LEMMA MappingAfter ==
  /\ Kept' = [id \in Ids |-> IF IsKept(id)' THEN SavedOriginator(id)' ELSE "none"]
  /\ OfferedOnBus' = [id \in Ids |-> IF entries'[id].file
                                     THEN entries'[id].originator ELSE "none"]
BY DEF Kept, OfferedOnBus, IsKept

LEMMA KeptUnchanged ==
  ASSUME TypeOK, DiskInv,
         \A id \in Ids : /\ IsKept(id)' <=> IsKept(id)
                         /\ IsKept(id) => preserved'[id] = preserved[id]
  PROVE  Kept' = Kept
BY MappingAfter DEF Kept, IsKept, SavedOriginator

LEMMA OfferedUnchanged ==
  ASSUME TypeOK, DiskInv,
         \A id \in Ids : /\ entries'[id].file <=> entries[id].file
                         /\ entries[id].file =>
                              entries'[id].originator = entries[id].originator
  PROVE  OfferedOnBus' = OfferedOnBus
BY MappingAfter DEF OfferedOnBus

\* Steps that leave the disk and the entries alone.
LEMMA StutterStep ==
  ASSUME UNCHANGED <<up, entries, dirs, archive, preserved>>
  PROVE  UNCHANGED Store!vars
BY DEF Store!vars, Kept, OfferedOnBus, SavedOriginator

LEMMA CreateStep ==
  ASSUME TypeOK, DiskInv, NEW p \in Pids, NEW r \in Requests, CreateDump(p, r)
  PROVE  UNCHANGED Store!vars
<1>1. entries \in [Ids -> EntryType] /\ UNCHANGED <<up, dirs, archive, preserved>>
  BY DEF CreateDump, TypeOK, disk
<1>2. \A id \in Ids : /\ entries'[id].file <=> entries[id].file
                      /\ entries[id].file =>
                           entries'[id].originator = entries[id].originator
  <2> SUFFICES ASSUME NEW id \in Ids
               PROVE  \/ entries'[id] = entries[id]
                      \/ ~entries'[id].file /\ ~entries[id].file
    OBVIOUS
  <2>1. CASE entries'[id] = entries[id]
    BY <2>1
  <2>2. CASE entries'[id] # entries[id]
    <3>1. /\ entries[id].status = "none"
          /\ entries'[id] = NewEntry(r.originator)
      BY <1>1, <2>2 DEF CreateDump
    <3>2. ~entries[id].file
      BY <3>1, StoreFacts DEF Live, LiveStatus
    <3>3. QED  BY <3>1, <3>2 DEF NewEntry
  <2>3. QED  BY <2>1, <2>2
<1>3. Kept' = Kept
  BY <1>1, KeptUnchanged DEF IsKept
<1>4. QED  BY <1>1, <1>2, <1>3, OfferedUnchanged DEF Store!vars

LEMMA DeleteStep ==
  ASSUME TypeOK, DiskInv, NEW ids \in SUBSET Ids, up, up' = up,
         entries' = [id \in Ids |-> IF id \in ids THEN NoEntry ELSE entries[id]],
         NEW gone \in SUBSET DirectoriesOf(ids), RemoveDumps(gone)
  PROVE  Store!Delete(ids)
<1>1. OfferedOnBus' = Store!Without(OfferedOnBus, ids)
  BY MappingAfter, Mapping DEF Store!Without, Store!None, NoEntry, OfferedOnBus
<1>2. Store!Offered(ids) = DirectoriesOf(ids)
  BY Mapping DEF Store!Offered, Store!None, DirectoriesOf
<1>3. Kept' = Store!Without(Kept, gone)
  BY MappingAfter DEF RemoveDumps, DirectoriesOf, Store!Without, Store!None,
                      Kept, IsKept, SavedOriginator
<1>4. QED  BY <1>1, <1>2, <1>3 DEF Store!Delete

LEMMA ProcessId ==
  ASSUME TypeOK, NEW p \in Pids, dreport[p].phase # "none"
  PROVE  dreport[p].id \in Ids
BY DEF TypeOK, ProcessType, NoProcess

LEMMA WriteStep ==
  ASSUME TypeOK, DiskInv, NEW p \in Pids, NEW phase,
         NEW content \in {"whole", "partial"}, DreportWrite(p, content, phase)
  PROVE  \/ UNCHANGED Store!vars
         \/ \E id \in Ids : Store!Store(id)
<1>1. PICK id \in Ids : id = dreport[p].id
  BY ProcessId DEF DreportWrite
<1>2. /\ id \in dirs
      /\ archive' = [archive EXCEPT ![id] = content]
      /\ UNCHANGED <<up, entries, dirs, preserved>>
      /\ archive \in [Ids -> {"none", "partial", "whole"}]
  BY <1>1 DEF DreportWrite, TypeOK, memory
<1>3. OfferedOnBus' = OfferedOnBus
  BY <1>2, OfferedUnchanged
<1>4. CASE archive[id] # "none"
  <2>1. Kept' = Kept
    BY <1>1, <1>2, <1>4, KeptUnchanged DEF IsKept
  <2>2. QED  BY <1>2, <1>3, <2>1 DEF Store!vars
<1>5. CASE archive[id] = "none"
  <2>1. Kept[id] = "none"
    BY <1>1, <1>5, Mapping DEF IsKept
  <2>2. Kept' = [Kept EXCEPT ![id] = SavedOriginator(id)]
    <3>1. \A other \in Ids : other # id => (IsKept(other)' <=> IsKept(other))
      BY <1>1, <1>2 DEF IsKept
    <3>2. IsKept(id)'
      BY <1>1, <1>2 DEF IsKept
    <3>3. \A other \in Ids : SavedOriginator(other)' = SavedOriginator(other)
      BY <1>2 DEF SavedOriginator
    <3>4. QED  BY <1>1, <3>1, <3>2, <3>3, MappingAfter DEF Kept, IsKept
  <2>3. SavedOriginator(id) \in Originators
    BY <1>1, StoreFacts
  <2>4. QED  BY <1>1, <1>2, <1>3, <2>1, <2>2, <2>3 DEF Store!Store, Store!None
<1>6. QED  BY <1>4, <1>5

\* The steps of dreport other than the writing of the archive.
LEMMA ProgressStep ==
  ASSUME TypeOK, DiskInv, NEW p \in Pids, DreportProgress(p)
  PROVE  \/ UNCHANGED Store!vars
         \/ \E id \in Ids : Store!Store(id)
<1>1. CASE DreportMakeDir(p)
  <2>1. PICK id \in Ids : id = dreport[p].id
    BY <1>1, ProcessId DEF DreportMakeDir
  <2>2. /\ dirs' = dirs \cup {id}
        /\ UNCHANGED <<up, entries, archive, preserved>>
    BY <1>1, <2>1 DEF DreportMakeDir, memory
  <2>3. Kept' = Kept
    BY <2>2, StoreFacts, KeptUnchanged DEF IsKept
  <2>4. OfferedOnBus' = OfferedOnBus
    BY <2>2, OfferedUnchanged
  <2>5. QED  BY <2>2, <2>3, <2>4 DEF Store!vars
<1>2. CASE DreportCopy(p) \/ DreportCopyTruncated(p)
  BY <1>2, WriteStep DEF DreportCopy, DreportCopyTruncated
<1>3. CASE \/ DreportCopyAstray(p) \/ DreportExits(p)
           \/ DreportFails(p) \/ DreportGivesUp(p)
  BY <1>3, StutterStep
     DEF DreportCopyAstray, DreportExits, DreportFails, DreportGivesUp,
         memory, disk
<1>4. QED  BY <1>1, <1>2, <1>3 DEF DreportProgress

LEMMA CloseStep ==
  ASSUME TypeOK, DiskInv, NEW id \in Ids, FileClosed(id)
  PROVE  UNCHANGED Store!vars \/ Store!Publish(id)
<1>1. /\ up /\ id \in dirs
      /\ archive[id] # "none"
      /\ ~entries[id].file
      /\ preserved[id] = "none"
      /\ entries \in [Ids -> EntryType]
      /\ preserved \in [Ids -> Originators \cup {"none", "lost"}]
      /\ entries' = [entries EXCEPT ![id] = EntryAfterClose(@)]
      /\ UNCHANGED <<up, dirs, archive>>
      /\ Serialize(id)
  BY StoreFacts DEF FileClosed, TypeOK
<1>2. \A other \in Ids : IsKept(other)' <=> IsKept(other)
  BY <1>1 DEF IsKept
<1>3. CASE entries[id].status = "null"
  <2>1. entries' = entries /\ preserved' = preserved
    BY <1>1, <1>3 DEF EntryAfterClose, Serialize, Live, LiveStatus
  <2>2. QED  BY <1>1, <2>1, StutterStep
<1>4. CASE entries[id].status # "null"
  <2> DEFINE o == IF Live(id) THEN entries[id].originator ELSE "Internal"
  <2>1. o \in Originators
    BY StoreFacts DEF Originators
  <2>2. entries'[id] = CompletedEntry(o)
    BY <1>1, <1>4 DEF EntryAfterClose, Live, LiveStatus, EntryType
  <2>3. PICK saved \in BOOLEAN :
          SavedOriginator(id)' = IF saved THEN o ELSE "Internal"
    <3>1. CASE preserved'[id] = "lost"
      <4>1. SavedOriginator(id)' = "Internal"
        BY <3>1 DEF SavedOriginator, Originators
      <4>2. QED  BY <4>1
    <3>2. CASE preserved'[id] # "lost"
      <4>1. SavedOriginator(id)' = o
        BY <1>1, <2>1, <3>2 DEF SavedOriginator, Serialize, Originators
      <4>2. QED  BY <4>1
    <3>3. QED  BY <3>1, <3>2
  <2>4. \A other \in Ids : other # id => /\ entries'[other] = entries[other]
                                         /\ preserved'[other] = preserved[other]
    BY <1>1 DEF Serialize
  <2>a. entries'[id].file /\ entries'[id].originator = o
    BY <2>2 DEF CompletedEntry
  <2>5. OfferedOnBus' = [OfferedOnBus EXCEPT ![id] = o]
    <3> HIDE DEF o
    <3>1. QED  BY <2>4, <2>a, MappingAfter DEF OfferedOnBus
  <2>6. Kept' = [Kept EXCEPT ![id] = IF saved THEN o ELSE "Internal"]
    <3> HIDE DEF o
    <3>1. \A other \in Ids : other # id =>
            SavedOriginator(other)' = SavedOriginator(other)
      BY <2>4 DEF SavedOriginator
    <3>2. IsKept(id)'
      BY <1>1 DEF IsKept
    <3>3. QED  BY <1>2, <2>3, <3>1, <3>2, MappingAfter DEF Kept, IsKept
  <2>7. Kept[id] # "none" /\ OfferedOnBus[id] = "none"
    BY <1>1, Mapping DEF IsKept
  <2>8. QED
    <3> HIDE DEF o
    <3>1. QED  BY <1>1, <2>1, <2>5, <2>6, <2>7 DEF Store!Publish, Store!None
<1>5. QED  BY <1>3, <1>4

LEMMA ChildStep ==
  ASSUME TypeOK, DiskInv, NEW p \in Pids, ChildExited(p) \/ ChildStopped(p)
  PROVE  UNCHANGED Store!vars
<1>1. PICK id \in Ids : id = dreport[p].id
  BY ProcessId DEF ChildExited, ChildStopped, Exited, Running
<1>2. /\ entries' = entries \/ entries' = [entries EXCEPT ![id] = EntryAfterFailure(@)]
      /\ UNCHANGED <<up, dirs, archive, preserved>>
      /\ entries \in [Ids -> EntryType]
  BY <1>1 DEF ChildExited, ChildStopped, ChildCallback, TypeOK, disk
<1>3. /\ EntryAfterFailure(entries[id]).file <=> entries[id].file
      /\ entries[id].file => EntryAfterFailure(entries[id]).originator
                               = entries[id].originator
  <2>1. CASE Live(id)
    BY <1>2, <2>1 DEF EntryAfterFailure, Live, EntryType
  <2>2. CASE ~Live(id)
    BY <2>2, StoreFacts DEF EntryAfterFailure, Live, NullEntry
  <2>3. QED  BY <2>1, <2>2
<1>4. OfferedOnBus' = OfferedOnBus
  BY <1>2, <1>3, OfferedUnchanged
<1>5. Kept' = Kept
  BY <1>2, KeptUnchanged DEF IsKept
<1>6. QED  BY <1>2, <1>4, <1>5 DEF Store!vars

\* The daemon goes, with some dumps deleted and some copies cut short.
LEMMA GoneStep ==
  ASSUME TypeOK, DiskInv, up, ~up', up' \in BOOLEAN,
         entries' = [id \in Ids |-> NoEntry],
         NEW gone \in SUBSET DirectoriesOf(Ids), gone \cap dirs' = {},
         \A id \in Ids :
           /\ preserved'[id] \in Originators \cup {"none", "lost"}
           /\ IsKept(id) /\ id \notin gone => /\ id \in dirs'
                                             /\ archive'[id] = archive[id]
                                             /\ preserved'[id] = preserved[id]
  PROVE  Store!Stop
<1>1. Store!Offered(Ids) = DirectoriesOf(Ids)
  BY Mapping DEF Store!Offered, Store!None, DirectoriesOf
<1>2. OfferedOnBus' = [id \in Ids |-> "none"]
  BY MappingAfter DEF NoEntry
<1>3. \A id \in Ids : SavedOriginator(id)' \in Originators
  BY DEF SavedOriginator, Originators
<1>4. Kept' \in [Ids -> Originators \cup {"none"}]
  BY <1>3, MappingAfter
<1>5. ASSUME NEW id \in Ids
      PROVE  \/ Kept'[id] = Kept[id]
             \/ IF OfferedOnBus[id] # "none" THEN Kept'[id] = "none"
                                             ELSE Kept[id] = "none"
  <2>1. CASE id \in gone
    <3>1. Kept'[id] = "none"
      BY <2>1, MappingAfter DEF IsKept
    <3>2. OfferedOnBus[id] # "none"
      BY <1>1, <2>1 DEF Store!Offered, Store!None
    <3>3. QED  BY <3>1, <3>2
  <2>2. CASE IsKept(id) /\ id \notin gone
    <3>1. Kept'[id] = Kept[id]
      BY <2>2, MappingAfter DEF Kept, IsKept, SavedOriginator
    <3>2. QED  BY <3>1
  <2>3. CASE ~IsKept(id)
    <3>1. Kept[id] = "none" /\ OfferedOnBus[id] = "none"
      BY <2>3, Mapping, StoreFacts
    <3>2. QED  BY <3>1
  <2>4. QED  BY <2>1, <2>2, <2>3
<1>6. QED  BY <1>1, <1>2, <1>4, <1>5 DEF Store!Stop, Store!None

LEMMA CrashStep ==
  ASSUME TypeOK, DiskInv, Crash \/ DeleteAllCrashes
  PROVE  Store!Stop
<1>0. /\ preserved \in [Ids -> Originators \cup {"none", "lost"}]
      /\ \A id \in BeingCopied : archive[id] = "none"
  BY DEF TypeOK, BeingCopied
<1>1. CASE Crash
  <2>1. PICK cutShort \in SUBSET BeingCopied : DaemonGone(cutShort, archive)
    BY <1>1 DEF Crash
  <2>2. /\ archive' = [id \in Ids |-> IF id \in cutShort THEN "partial"
                                                       ELSE archive[id]]
        /\ entries' = [id \in Ids |-> NoEntry]
        /\ up' = FALSE
    BY <2>1 DEF DaemonGone
  <2>3. up /\ dirs' = dirs /\ preserved' = preserved
    BY <1>1 DEF Crash
  <2>4. {} \in SUBSET DirectoriesOf(Ids)
    OBVIOUS
  <2>7. {} \cap dirs' = {}
    OBVIOUS
  <2>5. \A id \in Ids : IsKept(id) => id \in dirs' /\ archive'[id] = archive[id]
    BY <1>0, <2>2, <2>3 DEF IsKept
  <2>6. QED  BY <1>0, <2>2, <2>3, <2>4, <2>5, <2>7, GoneStep
<1>2. CASE DeleteAllCrashes
  <2>1. PICK gone \in SUBSET DirectoriesOf(Ids) :
          /\ dirs' = dirs \ gone
          /\ preserved' = [id \in Ids |-> IF id \in gone THEN "none"
                                                         ELSE preserved[id]]
          /\ \E cutShort \in SUBSET BeingCopied :
               DaemonGone(cutShort \ gone,
                          [id \in Ids |-> IF id \in gone THEN "none"
                                                         ELSE archive[id]])
    <3>1. PICK n \in NullIds :
            \E gone \in Removable({id \in Ids : Live(id) /\ id < n}) :
              /\ dirs' = dirs \ gone
              /\ preserved' = [id \in Ids |-> IF id \in gone THEN "none"
                                                             ELSE preserved[id]]
              /\ \E cutShort \in SUBSET BeingCopied :
                   DaemonGone(cutShort \ gone,
                              [id \in Ids |-> IF id \in gone THEN "none"
                                                             ELSE archive[id]])
      BY <1>2 DEF DeleteAllCrashes
    <3>2. \A gone \in Removable({id \in Ids : Live(id) /\ id < n}) :
            gone \in SUBSET DirectoriesOf({id \in Ids : Live(id) /\ id < n})
      BY RemovableDirectories
    <3>3. \A gone \in Removable({id \in Ids : Live(id) /\ id < n}) :
            gone \in SUBSET DirectoriesOf(Ids)
      BY <3>2 DEF DirectoriesOf
    <3>4. QED  BY <3>1, <3>3
  <2>2. PICK cutShort \in SUBSET BeingCopied :
          DaemonGone(cutShort \ gone,
                     [id \in Ids |-> IF id \in gone THEN "none" ELSE archive[id]])
    BY <2>1
  <2>3. /\ \A id \in Ids : id \notin cutShort /\ id \notin gone =>
                             archive'[id] = archive[id]
        /\ entries' = [id \in Ids |-> NoEntry]
        /\ up' = FALSE
    BY <2>2 DEF DaemonGone
  <2>4. up
    BY <1>2 DEF DeleteAllCrashes
  <2>5. \A id \in Ids :
          /\ preserved'[id] \in Originators \cup {"none", "lost"}
          /\ IsKept(id) /\ id \notin gone => /\ id \in dirs'
                                            /\ archive'[id] = archive[id]
                                            /\ preserved'[id] = preserved[id]
    BY <1>0, <2>1, <2>3 DEF IsKept
  <2>7. gone \cap dirs' = {}
    BY <2>1
  <2>6. QED  BY <2>3, <2>4, <2>5, <2>7, GoneStep
<1>3. QED  BY <1>1, <1>2

LEMMA RestartStep ==
  ASSUME TypeOK, DiskInv, Restart
  PROVE  Store!Start
<1>1. /\ ~up /\ up'
      /\ entries' = [id \in Ids |-> RestoredEntry(id)]
      /\ UNCHANGED <<dirs, archive, preserved>>
      /\ up' = TRUE
  BY DEF Restart, disk
<1>2. Kept' = Kept
  BY <1>1, KeptUnchanged DEF IsKept
<1>3. \A id \in Ids : /\ entries'[id].file <=> IsKept(id)
                      /\ IsKept(id) => entries'[id].originator = SavedOriginator(id)
  BY <1>1 DEF RestoredEntry, CompletedEntry, NoEntry, IsKept
<1>4. OfferedOnBus' = Kept
  BY <1>3, MappingAfter DEF Kept, IsKept
<1>5. QED  BY <1>1, <1>2, <1>4 DEF Store!Start

\* Every step of the manager is a step of the store, or none.
LEMMA StoreStep ==
  TypeOK /\ DiskInv /\ [Next]_vars => [Store!Next]_(Store!vars)
<1> SUFFICES ASSUME TypeOK, DiskInv, [Next]_vars
             PROVE  Store!Next \/ UNCHANGED Store!vars
  BY DEF Store!vars
<1>1. ASSUME NEW p \in Pids, NEW r \in Requests, CreateDump(p, r)
      PROVE  UNCHANGED Store!vars
  BY <1>1, CreateStep
<1>2. ASSUME NEW p \in Pids, NEW r \in Requests, CreateDumpChildSourceFails(p, r)
      PROVE  UNCHANGED Store!vars
  BY <1>2, StutterStep DEF CreateDumpChildSourceFails, memory, disk
<1>3. ASSUME NEW id \in Ids, DeleteEntry(id)
      PROVE  Store!Delete({id})
  <2>1. entries' = [i \in Ids |-> IF i \in {id} THEN NoEntry ELSE entries[i]]
    BY <1>3 DEF DeleteEntry, TypeOK
  <2>2. PICK gone \in SUBSET DirectoriesOf({id}) : RemoveDumps(gone)
    BY <1>3, RemovableDirectories DEF DeleteEntry
  <2>3. QED  BY <1>3, <2>1, <2>2, DeleteStep DEF DeleteEntry
<1>4. ASSUME DeleteAll
      PROVE  Store!Delete(Ids)
  <2>1. PICK gone \in SUBSET DirectoriesOf(Ids) : RemoveDumps(gone)
    BY <1>4, RemovableDirectories DEF DeleteAll, DirectoriesOf
  <2>2. entries' = [i \in Ids |-> IF i \in Ids THEN NoEntry ELSE entries[i]]
    BY <1>4 DEF DeleteAll
  <2>3. QED  BY <1>4, <2>1, <2>2, DeleteStep DEF DeleteAll
<1>5. ASSUME NEW p \in Pids, DreportProgress(p)
      PROVE  \/ UNCHANGED Store!vars
             \/ \E id \in Ids : Store!Store(id)
  BY <1>5, ProgressStep
<1>6. ASSUME NEW id \in Ids, WatchDirectory(id) \/ TimerExpires(id)
      PROVE  UNCHANGED Store!vars
  BY <1>6, StutterStep DEF WatchDirectory, TimerExpires, memory, disk
<1>7. ASSUME NEW id \in Ids, FileClosed(id)
      PROVE  UNCHANGED Store!vars \/ Store!Publish(id)
  BY <1>7, CloseStep
<1>8. ASSUME NEW p \in Pids, ChildExited(p) \/ ChildStopped(p)
      PROVE  UNCHANGED Store!vars
  BY <1>8, ChildStep
<1>9. ASSUME Crash \/ DeleteAllCrashes
      PROVE  Store!Stop
  BY <1>9, CrashStep
<1>10. ASSUME Restart
       PROVE  Store!Start
  BY <1>10, RestartStep
<1>11. CASE UNCHANGED vars
  BY <1>11, StutterStep DEF vars, memory, disk
<1>12. QED
  BY <1>1, <1>2, <1>3, <1>4, <1>5, <1>6, <1>7, <1>8, <1>9, <1>10, <1>11
     DEF Next, Request, Callback, Store!Next

\* ImplementsDumpStore: the BMC dump manager is a dump store that outlives the
\* daemon, for every number of ids and processes and every choice of faults.
THEOREM BmcDumpIsADumpStore == Spec => ImplementsDumpStore
<1>1. Init => Store!Init
  BY DEF Init, Store!Init, Store!None, Kept, OfferedOnBus, NoEntry
<1>2. QED
  BY <1>1, StoreStep, TypeCorrect, DiskInvariant, PTL
     DEF Spec, ImplementsDumpStore, Store!Spec

-----------------------------------------------------------------------------
(* What follows from the store, whatever implements it *)

StoreTypeOK ==
  /\ Kept \in [Ids -> Originators \cup {"none"}]
  /\ OfferedOnBus \in [Ids -> Originators \cup {"none"}]

StoreInv == StoreTypeOK /\ Store!OfferedAreKept

USE DEF Store!None

\* From the store's own actions alone: a dump is offered as it is kept, and what
\* happens to what is kept is a matter of whether it is on offer.
LEMMA StoreActions ==
  ASSUME StoreInv, Store!Next
  PROVE  /\ StoreInv'
         /\ \A id \in Ids :
              /\ Kept[id] # "none" /\ OfferedOnBus[id] = "none"
                   => Kept'[id] # "none"
              /\ OfferedOnBus[id] # "none"
                   => Kept'[id] \in {Kept[id], "none"}
<1> USE DEF StoreInv, StoreTypeOK, Store!OfferedAreKept
<1>0. "none" \notin Originators /\ "Internal" \in Originators
  BY DEF Originators
<1>1. ASSUME NEW id \in Ids, Store!Store(id) \/ Store!Publish(id)
      PROVE  /\ StoreInv'
             /\ \A i \in Ids : /\ Kept[i] # "none" => Kept'[i] # "none"
                               /\ OfferedOnBus[i] # "none" => Kept'[i] = Kept[i]
  <2>1. CASE Store!Store(id)
    <3>1. PICK o \in Originators : Kept' = [Kept EXCEPT ![id] = o]
      BY <2>1 DEF Store!Store
    <3>2. Kept[id] = "none" /\ OfferedOnBus' = OfferedOnBus
      BY <2>1 DEF Store!Store
    <3>3. QED  BY <1>0, <3>1, <3>2
  <2>2. CASE Store!Publish(id)
    <3>1. PICK o \in Originators, saved \in BOOLEAN :
            /\ OfferedOnBus' = [OfferedOnBus EXCEPT ![id] = o]
            /\ Kept' = [Kept EXCEPT ![id] = IF saved THEN o ELSE "Internal"]
      BY <2>2 DEF Store!Publish
    <3>2. Kept[id] # "none" /\ OfferedOnBus[id] = "none"
      BY <2>2 DEF Store!Publish
    <3>3. QED  BY <1>0, <3>1, <3>2
  <2>3. QED  BY <1>1, <2>1, <2>2
<1>2. ASSUME NEW ids \in SUBSET Ids, Store!Delete(ids)
      PROVE  /\ StoreInv'
             /\ \A i \in Ids : \/ Kept'[i] = Kept[i]
                               \/ OfferedOnBus[i] # "none" /\ Kept'[i] = "none"
  <2>1. PICK gone \in SUBSET Store!Offered(ids) : Kept' = Store!Without(Kept, gone)
    BY <1>2 DEF Store!Delete
  <2>2. OfferedOnBus' = Store!Without(OfferedOnBus, ids)
    BY <1>2 DEF Store!Delete
  <2>3. QED  BY <2>1, <2>2 DEF Store!Without, Store!Offered
<1>3. ASSUME Store!Stop
      PROVE  /\ StoreInv'
             /\ \A i \in Ids :
                  \/ Kept'[i] = Kept[i]
                  \/ IF OfferedOnBus[i] # "none" THEN Kept'[i] = "none"
                                                 ELSE Kept[i] = "none"
  BY <1>3 DEF Store!Stop
<1>4. ASSUME Store!Start  PROVE StoreInv' /\ Kept' = Kept
  BY <1>4 DEF Store!Start
<1>5. QED  BY <1>1, <1>2, <1>3, <1>4 DEF Store!Next

\* What a client relies on, of the BMC dump manager with all its processes and
\* crashes: what is on offer is on disk, under the same originator or under none
\* that was saved; which of the two is settled when it is offered, and no restart
\* changes it; and no archive goes that was never on offer.
THEOREM DumpsAreKept ==
  Spec => /\ []Store!OfferedAreKept
          /\ Store!NoneGoesUnseen
          /\ Store!OriginatorStays
<1>1. Store!Init => StoreInv
  BY DEF Store!Init, StoreInv, StoreTypeOK, Store!OfferedAreKept
<1>2. StoreInv /\ [Store!Next]_(Store!vars) => StoreInv'
  <2> SUFFICES ASSUME StoreInv, [Store!Next]_(Store!vars)  PROVE StoreInv'
    OBVIOUS
  <2>1. CASE Store!Next
    BY <2>1, StoreActions
  <2>2. CASE UNCHANGED Store!vars
    BY <2>2 DEF Store!vars, StoreInv, StoreTypeOK, Store!OfferedAreKept
  <2>3. QED  BY <2>1, <2>2
<1>3. StoreInv => Store!OfferedAreKept
  BY DEF StoreInv
<1>4. StoreInv /\ [Store!Next]_(Store!vars)
        => [\A id \in Ids : Kept[id] # "none" /\ OfferedOnBus[id] = "none"
                              => Kept'[id] # "none"]_(Store!vars)
  BY StoreActions
<1>5. StoreInv /\ [Store!Next]_(Store!vars)
        => [\A id \in Ids : OfferedOnBus[id] # "none"
                              => Kept'[id] \in {Kept[id], "none"}]_(Store!vars)
  BY StoreActions
<1>6. QED  BY <1>1, <1>2, <1>3, <1>4, <1>5, BmcDumpIsADumpStore, PTL
          DEF ImplementsDumpStore, Store!Spec, Store!NoneGoesUnseen,
              Store!OriginatorStays
=============================================================================
