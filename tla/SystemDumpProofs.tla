-------------------------- MODULE SystemDumpProofs --------------------------
(***************************************************************************)
(* Proofs about the system dump manager of the nvidia extension: its       *)
(* types, what is on disk, the types in progress, the retimers and the ids.*)
(***************************************************************************)
EXTENDS SystemDumpStore, TLAPS

(* Types *)

LEMMA EntryTypes ==
  /\ NoEntry \in EntryType /\ NullEntry \in EntryType
  /\ \A t \in Types : NewEntry(t) \in EntryType
  /\ \A t \in Types \cup {"", "none"} : CompletedEntry(t) \in EntryType
  /\ \A e \in EntryType : EntryAfterFailure(e) \in EntryType
  /\ \A e \in EntryType : EntryAfterClose(e) \in EntryType
<1>1. NoEntry \in EntryType /\ NullEntry \in EntryType
  BY DEF NoEntry, NullEntry, EntryType, LiveStatus
<1>2. \A t \in Types : NewEntry(t) \in EntryType
  BY DEF NewEntry, EntryType, LiveStatus
<1>3. \A t \in Types \cup {"", "none"} : CompletedEntry(t) \in EntryType
  BY DEF CompletedEntry, EntryType, LiveStatus
<1>4. ASSUME NEW e \in EntryType  PROVE EntryAfterFailure(e) \in EntryType
  BY <1>1 DEF EntryAfterFailure, EntryType, LiveStatus
<1>5. ASSUME NEW e \in EntryType  PROVE EntryAfterClose(e) \in EntryType
  <2>1. e.type \in Types \cup {"", "none"}
    BY DEF EntryType
  <2>2. e.status \in {"InProgress", "Completed", "Failed", "none", "null"}
    BY DEF EntryType, LiveStatus
  <2>3. QED  BY <1>3, <2>1, <2>2 DEF EntryAfterClose, LiveStatus
<1>6. QED  BY <1>1, <1>2, <1>3, <1>4, <1>5

LEMMA KeptTypes ==
  ASSUME TypeOK  PROVE KeepAfterLimit \in [Ids -> EntryType]
BY EntryTypes DEF TypeOK, KeepAfterLimit

\* The retimers' bit is one, whatever became of the writing of its register.
LEMMA SwitchTypes ==
  ASSUME TypeOK, NEW value \in BOOLEAN, SwitchDebugMode(value)
  PROVE  retimerDebug' \in BOOLEAN
BY DEF TypeOK, SwitchDebugMode

LEMMA RemoveFilesTypes ==
  ASSUME TypeOK, NEW ids \in SUBSET Ids, RemoveFiles(ids)
  PROVE  files' \subseteq files
BY DEF RemoveFiles

LEMMA ForkTypes ==
  ASSUME TypeOK, NEW p \in Pids, NEW t \in Types, Fork(p, t)
  PROVE  /\ collector' \in [Pids -> ProcessType]
         /\ files' \subseteq Ids
         /\ retimerDebug' \in BOOLEAN
         /\ lastEntryId + 1 \in Ids
         /\ up
<1>1. lastEntryId \in 0 .. MaxId /\ lastEntryId < MaxId
  BY DEF Fork, TypeOK
<1>2. lastEntryId + 1 \in Ids
  BY <1>1, MaxIdAssumption DEF Ids
<1>3. [phase |-> "collecting", id |-> lastEntryId + 1, type |-> t] \in ProcessType
  BY <1>2 DEF ProcessType
<1>4. collector' \in [Pids -> ProcessType]
  BY <1>3 DEF Fork, TypeOK
<1>5. files' \subseteq files
  BY RemoveFilesTypes DEF Fork, Prepare, LimitDumpEntries, Excess, Present
<1>6. retimerDebug' \in BOOLEAN
  BY SwitchTypes DEF Fork, Prepare, TypeOK
<1>7. QED  BY <1>2, <1>4, <1>5, <1>6 DEF Fork, Prepare, TypeOK

LEMMA TypeStep == TypeOK /\ [Next]_vars => TypeOK'
<1> SUFFICES ASSUME TypeOK, [Next]_vars  PROVE TypeOK'
  OBVIOUS
<1>0. NoProcess \in ProcessType /\ 0 \in 0 .. MaxId
  BY MaxIdAssumption DEF ProcessType
<1>1. ASSUME NEW p \in Pids, NEW t \in Types, CaptureDump(p, t),
             entries' \in [Ids -> EntryType]
      PROVE  TypeOK'
  <2>1. /\ collector' \in [Pids -> ProcessType]
        /\ files' \subseteq Ids
        /\ retimerDebug' \in BOOLEAN
        /\ lastEntryId' \in Ids
    BY <1>1, ForkTypes DEF CaptureDump
  <2>2. lastEntryId' \in 0 .. MaxId
    BY <2>1, MaxIdAssumption DEF Ids
  <2>3. QED  BY <1>1, <2>1, <2>2 DEF CaptureDump, TypeOK
<1>2. ASSUME NEW p \in Pids, NEW t \in Types, CreateDump(p, t)
      PROVE  TypeOK'
  <2>1. lastEntryId + 1 \in Ids
    BY <1>2, ForkTypes DEF CreateDump, CaptureDump
  <2>2. entries' \in [Ids -> EntryType]
    BY <1>2, <2>1, KeptTypes, EntryTypes DEF CreateDump
  <2>3. QED  BY <1>1, <1>2, <2>2 DEF CreateDump
<1>3. ASSUME NEW p \in Pids, NEW t \in Types, CreateDumpBadOriginator(p, t)
      PROVE  TypeOK'
  BY <1>1, <1>3, KeptTypes DEF CreateDumpBadOriginator
<1>4. ASSUME NEW p \in Pids, NEW t \in Types, ChildSourceFails(p, t)
      PROVE  TypeOK'
  BY <1>4, ForkTypes, KeptTypes DEF ChildSourceFails, TypeOK
<1>5. ASSUME NEW t \in Types, ForkFails(t)
      PROVE  TypeOK'
  <2>1. files' \subseteq files
    BY <1>5, RemoveFilesTypes
       DEF ForkFails, Prepare, LimitDumpEntries, Excess, Present
  <2>2. retimerDebug' \in BOOLEAN
    BY <1>5, SwitchTypes DEF ForkFails, Prepare, TypeOK
  <2>3. QED  BY <1>5, <2>1, <2>2, KeptTypes DEF ForkFails, TypeOK
<1>6. CASE RefuseDump
  <2>1. files' \subseteq files
    BY <1>6, RemoveFilesTypes DEF RefuseDump, LimitDumpEntries, Excess, Present
  <2>2. QED  BY <1>6, <2>1, KeptTypes DEF RefuseDump, TypeOK
<1>7. ASSUME NEW id \in Ids, DeleteEntry(id)
      PROVE  TypeOK'
  <2>1. files' \subseteq files
    BY <1>7, RemoveFilesTypes DEF DeleteEntry
  <2>2. QED  BY <1>7, <2>1, EntryTypes DEF DeleteEntry, TypeOK
<1>8. CASE DeleteAll
  <2>1. files' \subseteq files
    BY <1>8, RemoveFilesTypes DEF DeleteAll, Present
  <2>2. QED  BY <1>8, <2>1, EntryTypes DEF DeleteAll, TypeOK
<1>9. ASSUME NEW value \in BOOLEAN, SetDebugMode(value)
      PROVE  TypeOK'
  BY <1>9, SwitchTypes DEF SetDebugMode, TypeOK
<1>10. ASSUME NEW p \in Pids, CollectorWrites(p)
       PROVE  TypeOK'
  <2>1. /\ collector[p] \in ProcessType
        /\ collector[p].phase = "collecting"
    BY <1>10 DEF CollectorWrites, TypeOK
  <2>2. collector[p].id \in Ids
    BY <2>1 DEF ProcessType, NoProcess
  <2>3. [collector[p] EXCEPT !.phase = "written"] \in ProcessType
    BY <2>1 DEF ProcessType, NoProcess
  <2>4. collector' \in [Pids -> ProcessType]
    BY <1>10, <2>3 DEF CollectorWrites, TypeOK
  <2>5. QED  BY <1>10, <2>2, <2>4 DEF CollectorWrites, TypeOK
<1>11. ASSUME NEW p \in Pids, NEW phase \in {"exited0", "exited1"},
              CollectorExits(p, phase)
       PROVE  TypeOK'
  <2>1. /\ collector[p] \in ProcessType
        /\ collector[p].phase \in {"collecting", "written"}
    BY <1>11 DEF CollectorExits, TypeOK
  <2>2. [collector[p] EXCEPT !.phase = phase] \in ProcessType
    BY <2>1 DEF ProcessType, NoProcess
  <2>3. collector' \in [Pids -> ProcessType]
    BY <1>0, <1>11, <2>2 DEF CollectorExits, TypeOK
  <2>4. QED  BY <1>11, <2>3 DEF CollectorExits, TypeOK
<1>12. ASSUME NEW id \in Ids, FileClosed(id)
       PROVE  TypeOK'
  <2>1. entries' \in [Ids -> EntryType]
    BY <1>12, EntryTypes DEF FileClosed, TypeOK
  <2>2. retimerDebug' \in BOOLEAN
    BY <1>12, SwitchTypes DEF FileClosed, TypeOK
  <2>3. QED  BY <1>12, <2>1, <2>2 DEF FileClosed, TypeOK
<1>13. ASSUME NEW p \in Pids, NEW failed \in BOOLEAN, ChildCallback(p, failed)
       PROVE  /\ entries' \in [Ids -> EntryType]
              /\ childPtrMap' \subseteq Pids
              /\ dumpInProgress' \subseteq Types
  BY <1>13, EntryTypes DEF ChildCallback, TypeOK
<1>14. ASSUME NEW p \in Pids, ChildExited(p)
       PROVE  TypeOK'
  BY <1>0, <1>13, <1>14 DEF ChildExited, TypeOK
<1>15. ASSUME NEW p \in Pids, ChildStopped(p)
       PROVE  TypeOK'
  BY <1>13, <1>15 DEF ChildStopped, TypeOK
<1>16. ASSUME DaemonGone, files' \subseteq files
       PROVE  TypeOK'
  BY <1>0, <1>16, EntryTypes DEF DaemonGone, TypeOK
<1>17. CASE Crash \/ LimitCrashes \/ DeleteAllCrashes
  <2>1. DaemonGone
    BY <1>17 DEF Crash, LimitCrashes, DeleteAllCrashes, CrashOnNull
  <2>2. files' \subseteq files
    BY <1>17, RemoveFilesTypes
       DEF Crash, LimitCrashes, DeleteAllCrashes, CrashOnNull, Excess, Present
  <2>3. QED  BY <1>16, <2>1, <2>2
<1>18. CASE Restart
  <2>1. entries' \in [Ids -> EntryType]
    BY <1>18, EntryTypes DEF Restart, TypeOK
  <2>2. QED  BY <1>18, <2>1 DEF Restart, TypeOK
<1>19. CASE UNCHANGED vars
  BY <1>19 DEF vars, TypeOK
<1>20. QED
  BY <1>2, <1>3, <1>4, <1>5, <1>6, <1>7, <1>8, <1>9, <1>10, <1>11, <1>12,
     <1>14, <1>15, <1>17, <1>18, <1>19 DEF Next, Request, CollectorProgress

\* TypeOK: every map, set and process of the system dump manager keeps its
\* type, whatever faults occur.
THEOREM SystemTypeCorrect == Spec => []TypeOK
<1>1. Init => TypeOK
  <2>1. NoProcess \in ProcessType /\ 0 \in 0 .. MaxId
    BY MaxIdAssumption DEF ProcessType
  <2>2. QED  BY <2>1, EntryTypes DEF Init, TypeOK
<1>2. QED  BY <1>1, TypeStep, PTL DEF Spec
-----------------------------------------------------------------------------
(* What is reported and what is offered is on disk *)

CollectorsDieWithDaemon == \A p \in Pids : Alive(p) => up

\* An archive whose event is queued is on disk and not offered yet, so that no
\* delete removes it.
DumpInv(id) ==
  /\ id \in fileEvents => up /\ id \in files /\ ~entries[id].file
  /\ entries[id].file => id \in files

LEMMA DaemonStep ==
  TypeOK /\ CollectorsDieWithDaemon /\ [Next]_vars => CollectorsDieWithDaemon'
<1> SUFFICES ASSUME TypeOK, CollectorsDieWithDaemon, [Next]_vars,
                    NEW p \in Pids
             PROVE  Alive(p)' => up'
  BY DEF CollectorsDieWithDaemon
<1>0. collector \in [Pids -> ProcessType]
  BY DEF TypeOK
<1>1. ASSUME UNCHANGED <<up, collector>>
      PROVE  Alive(p)' => up'
  BY <1>1 DEF Alive, CollectorsDieWithDaemon
<1>2. ASSUME NEW q \in Pids, NEW t \in Types,
             \/ CreateDump(q, t)
             \/ CreateDumpBadOriginator(q, t)
             \/ ChildSourceFails(q, t)
      PROVE  up'
  <2>1. Fork(q, t) /\ up' = up
    BY <1>2 DEF CreateDump, CreateDumpBadOriginator, CaptureDump,
                ChildSourceFails
  <2>2. QED  BY <2>1 DEF Fork, Prepare
<1>3. ASSUME NEW t \in Types, ForkFails(t)
      PROVE  Alive(p)' => up'
  BY <1>1, <1>3 DEF ForkFails
<1>4. ASSUME NEW id \in Ids, DeleteEntry(id) \/ FileClosed(id)
      PROVE  Alive(p)' => up'
  BY <1>1, <1>4 DEF DeleteEntry, FileClosed
<1>5. ASSUME NEW value \in BOOLEAN, SetDebugMode(value)
      PROVE  Alive(p)' => up'
  BY <1>1, <1>5 DEF SetDebugMode
<1>6. ASSUME NEW q \in Pids, CollectorProgress(q) \/ ChildExited(q)
      PROVE  Alive(p)' => up'
  <2>1. UNCHANGED up /\ (p # q => collector'[p] = collector[p])
    BY <1>0, <1>6 DEF CollectorProgress, CollectorWrites, CollectorExits,
                      ChildExited
  <2>2. Alive(q)
    BY <1>6 DEF CollectorProgress, CollectorWrites, CollectorExits,
                ChildExited, Alive
  <2>3. QED  BY <2>1, <2>2 DEF Alive, CollectorsDieWithDaemon
<1>7. ASSUME NEW q \in Pids, ChildStopped(q)
      PROVE  Alive(p)' => up'
  BY <1>1, <1>7 DEF ChildStopped
<1>8. CASE Crash \/ LimitCrashes \/ DeleteAllCrashes
  BY <1>8 DEF Crash, LimitCrashes, DeleteAllCrashes, CrashOnNull, DaemonGone,
              Alive, NoProcess
<1>9. CASE RefuseDump \/ DeleteAll \/ UNCHANGED vars
  BY <1>1, <1>9 DEF RefuseDump, DeleteAll, vars
<1>10. CASE Restart
  BY <1>10 DEF Restart
<1>11. QED
  BY <1>2, <1>3, <1>4, <1>5, <1>6, <1>7, <1>8, <1>9, <1>10 DEF Next, Request

\* A step that deletes: an entry it keeps keeps its file, and a queued event
\* keeps its archive, because no entry offers it yet.
LEMMA RemovalStep ==
  ASSUME NEW id \in Ids, DumpInv(id), NEW ids \in SUBSET Ids, RemoveFiles(ids),
         UNCHANGED <<up, fileEvents>>,
         \/ ~entries'[id].file
         \/ id \notin ids /\ entries'[id] = entries[id],
         id \in fileEvents => ~entries'[id].file
  PROVE  DumpInv(id)'
BY DEF DumpInv, RemoveFiles

\* The same of the entries a request keeps after the limit.
LEMMA LimitStep ==
  ASSUME NEW id \in Ids, DumpInv(id), LimitDumpEntries,
         UNCHANGED <<up, fileEvents>>,
         \/ entries'[id] = KeepAfterLimit[id]
         \/ ~entries'[id].file
  PROVE  DumpInv(id)'
<1>1. Excess \in SUBSET Ids /\ RemoveFiles(Excess)
  BY DEF Excess, Present, LimitDumpEntries
<1>2. \/ ~entries'[id].file
      \/ id \notin Excess /\ entries'[id] = entries[id]
  BY DEF KeepAfterLimit, NoEntry
<1>3. id \in fileEvents => ~entries'[id].file
  BY <1>2 DEF DumpInv
<1>4. QED  BY <1>1, <1>2, <1>3, RemovalStep

LEMMA DumpStep ==
  ASSUME TypeOK, CollectorsDieWithDaemon, NEW id \in Ids, DumpInv(id),
         [Next]_vars
  PROVE  DumpInv(id)'
<1>0. /\ entries \in [Ids -> EntryType]
      /\ fileEvents \subseteq Ids
      /\ files \subseteq Ids
  BY DEF TypeOK
<1>1. ASSUME UNCHANGED <<up, fileEvents, files>>,
             entries'[id].file => entries[id].file
      PROVE  DumpInv(id)'
  BY <1>1 DEF DumpInv
<1>2. ASSUME NEW p \in Pids, NEW t \in Types, CreateDump(p, t)
      PROVE  DumpInv(id)'
  <2>1. LimitDumpEntries /\ UNCHANGED <<up, fileEvents>>
    BY <1>2 DEF CreateDump, CaptureDump, Fork, Prepare
  <2>2. \/ entries'[id] = KeepAfterLimit[id]
        \/ entries'[id] = NewEntry(t)
    BY <1>2 DEF CreateDump, KeepAfterLimit
  <2>3. QED  BY <2>1, <2>2, LimitStep DEF NewEntry
<1>3. ASSUME NEW p \in Pids, NEW t \in Types,
             CreateDumpBadOriginator(p, t) \/ ChildSourceFails(p, t)
      PROVE  DumpInv(id)'
  <2>1. LimitDumpEntries /\ UNCHANGED <<up, fileEvents>>
    BY <1>3 DEF CreateDumpBadOriginator, CaptureDump, ChildSourceFails, Fork,
                Prepare
  <2>2. entries'[id] = KeepAfterLimit[id]
    BY <1>3 DEF CreateDumpBadOriginator, ChildSourceFails
  <2>3. QED  BY <2>1, <2>2, LimitStep
<1>4. CASE RefuseDump
  <2>1. LimitDumpEntries /\ UNCHANGED <<up, fileEvents>>
        /\ entries'[id] = KeepAfterLimit[id]
    BY <1>4 DEF RefuseDump
  <2>2. QED  BY <2>1, LimitStep
<1>5. ASSUME NEW t \in Types, ForkFails(t)
      PROVE  DumpInv(id)'
  <2>1. LimitDumpEntries /\ UNCHANGED <<up, fileEvents>>
        /\ entries'[id] = KeepAfterLimit[id]
    BY <1>5 DEF ForkFails, Prepare
  <2>2. QED  BY <2>1, LimitStep
<1>6. ASSUME NEW j \in Ids, DeleteEntry(j)
      PROVE  DumpInv(id)'
  <2>1. RemoveFiles({j}) /\ UNCHANGED <<up, fileEvents>>
    BY <1>6 DEF DeleteEntry
  <2>2. \/ ~entries'[id].file
        \/ id \notin {j} /\ entries'[id] = entries[id]
    BY <1>0, <1>6 DEF DeleteEntry, NoEntry
  <2>3. id \in fileEvents => ~entries'[id].file
    BY <2>2 DEF DumpInv
  <2>4. {j} \in SUBSET Ids
    OBVIOUS
  <2>5. QED  BY <2>1, <2>2, <2>3, <2>4, RemovalStep
<1>7. CASE DeleteAll
  <2>1. RemoveFiles(Present) /\ UNCHANGED <<up, fileEvents>>
        /\ ~entries'[id].file
    BY <1>7 DEF DeleteAll, NoEntry
  <2>2. Present \in SUBSET Ids
    BY DEF Present
  <2>3. QED  BY <2>1, <2>2, RemovalStep
<1>8. ASSUME NEW value \in BOOLEAN, SetDebugMode(value)
      PROVE  DumpInv(id)'
  BY <1>1, <1>8 DEF SetDebugMode
<1>9. ASSUME NEW p \in Pids, CollectorWrites(p)
      PROVE  DumpInv(id)'
  <2>1. up
    BY <1>9 DEF CollectorWrites, CollectorsDieWithDaemon, Alive
  <2>2. QED  BY <1>9, <2>1 DEF CollectorWrites, DumpInv
<1>10. ASSUME NEW p \in Pids, NEW phase, CollectorExits(p, phase)
       PROVE  DumpInv(id)'
  BY <1>1, <1>10 DEF CollectorExits
<1>11. ASSUME NEW j \in Ids, FileClosed(j)
       PROVE  DumpInv(id)'
  <2>1. /\ fileEvents' = fileEvents \ {j}
        /\ UNCHANGED <<up, files>>
        /\ j # id => entries'[id] = entries[id]
    BY <1>0, <1>11 DEF FileClosed
  <2>2. j = id => id \in files
    BY <1>11 DEF FileClosed, DumpInv
  <2>3. QED  BY <2>1, <2>2 DEF DumpInv
<1>12. ASSUME NEW p \in Pids, NEW failed \in BOOLEAN, ChildCallback(p, failed)
       PROVE  entries'[id].file => entries[id].file
  <2>1. entries'[id] \in {entries[id], EntryAfterFailure(entries[id])}
    BY <1>0, <1>12 DEF ChildCallback
  <2>2. entries[id] \in EntryType
    BY <1>0
  <2>3. [entries[id] EXCEPT !.status = "Failed"].file = entries[id].file
    BY <2>2 DEF EntryType
  <2>4. EntryAfterFailure(entries[id]).file => entries[id].file
    BY <2>3 DEF EntryAfterFailure, NullEntry
  <2>5. QED  BY <2>1, <2>4
<1>13. ASSUME NEW p \in Pids, ChildExited(p) \/ ChildStopped(p)
       PROVE  DumpInv(id)'
  BY <1>1, <1>12, <1>13 DEF ChildExited, ChildStopped
<1>14. CASE Crash \/ LimitCrashes \/ DeleteAllCrashes
  BY <1>14 DEF Crash, LimitCrashes, DeleteAllCrashes, CrashOnNull, DaemonGone,
               DumpInv, NoEntry
<1>15. CASE Restart
  BY <1>15 DEF Restart, DumpInv, CompletedEntry, NoEntry
<1>16. CASE UNCHANGED vars
  BY <1>1, <1>16 DEF vars
<1>17. QED
  BY <1>2, <1>3, <1>4, <1>5, <1>6, <1>7, <1>8, <1>9, <1>10, <1>11, <1>13,
     <1>14, <1>15, <1>16 DEF Next, Request, CollectorProgress

AllDumpsInv == \A id \in Ids : DumpInv(id)

LEMMA DiskInvariant == Spec => [](CollectorsDieWithDaemon /\ AllDumpsInv)
<1>1. Init => CollectorsDieWithDaemon /\ AllDumpsInv
  BY DEF Init, CollectorsDieWithDaemon, AllDumpsInv, DumpInv, NoEntry, Alive,
         NoProcess
<1>2. TypeOK /\ CollectorsDieWithDaemon /\ AllDumpsInv /\ [Next]_vars
        => AllDumpsInv'
  BY DumpStep DEF AllDumpsInv
<1>3. QED  BY <1>1, <1>2, DaemonStep, SystemTypeCorrect, PTL DEF Spec

\* OfferedDumpsAreOnDisk: whatever a delete or the limit removed, whatever was
\* restored, a dump with a file name has its archive.
THEOREM SystemOfferedOnDisk == Spec => []OfferedDumpsAreOnDisk
<1>1. AllDumpsInv => OfferedDumpsAreOnDisk
  BY DEF AllDumpsInv, DumpInv, OfferedDumpsAreOnDisk
<1>2. QED  BY <1>1, DiskInvariant, PTL

\* ReportedFilesExist: createEntry never asks for the size of an archive that
\* was removed after its event was queued.
THEOREM ReportedFilesOnDisk == Spec => []ReportedFilesExist
<1>1. TypeOK /\ AllDumpsInv => ReportedFilesExist
  BY DEF TypeOK, AllDumpsInv, DumpInv, ReportedFilesExist
<1>2. QED  BY <1>1, DiskInvariant, SystemTypeCorrect, PTL
-----------------------------------------------------------------------------
(* The types in progress *)

\* RegisteredLtssmInDebugMode: when the register can be written and only the
\* dump manager writes it, it never switches debug mode off under an LTSSM
\* dump that is registered, whatever fails, stops or is deleted.
THEOREM LtssmInDebugMode ==
  ASSUME Faults \cap {"i2c", "client"} = {}
  PROVE  Spec => []RegisteredLtssmInDebugMode
<1>1. ASSUME NEW value, SwitchDebugMode(value)
      PROVE  retimerDebug' = value
  BY <1>1 DEF SwitchDebugMode
<1>2. ASSUME NEW t, Prepare(t), dumpInProgress' \subseteq dumpInProgress \cup {t},
             RegisteredLtssmInDebugMode
      PROVE  RegisteredLtssmInDebugMode'
  BY <1>1, <1>2 DEF Prepare, RegisteredLtssmInDebugMode
<1>3. ASSUME dumpInProgress' \subseteq dumpInProgress, UNCHANGED retimerDebug,
             RegisteredLtssmInDebugMode
      PROVE  RegisteredLtssmInDebugMode'
  BY <1>3 DEF RegisteredLtssmInDebugMode
<1>4. ASSUME RegisteredLtssmInDebugMode, [Next]_vars
      PROVE  RegisteredLtssmInDebugMode'
  <2>1. ASSUME NEW p \in Pids, NEW t \in Types,
               \/ CreateDump(p, t)
               \/ CreateDumpBadOriginator(p, t)
               \/ ChildSourceFails(p, t)
        PROVE  RegisteredLtssmInDebugMode'
    BY <1>2, <1>4, <2>1 DEF CreateDump, CreateDumpBadOriginator, CaptureDump,
                            ChildSourceFails, Fork
  <2>2. ASSUME NEW t \in Types, ForkFails(t)
        PROVE  RegisteredLtssmInDebugMode'
    BY <1>2, <1>4, <2>2 DEF ForkFails
  <2>3. ASSUME NEW id \in Ids, DeleteEntry(id)
        PROVE  RegisteredLtssmInDebugMode'
    BY <1>3, <1>4, <2>3 DEF DeleteEntry
  <2>4. ASSUME NEW p \in Pids, CollectorProgress(p)
        PROVE  RegisteredLtssmInDebugMode'
    BY <1>3, <1>4, <2>4 DEF CollectorProgress, CollectorWrites, CollectorExits
  <2>5. ASSUME NEW id \in Ids, FileClosed(id)
        PROVE  RegisteredLtssmInDebugMode'
    <3>1. dumpInProgress' = dumpInProgress \ {entries[id].type}
      BY <2>5 DEF FileClosed
    <3>2. CASE entries[id].type = "RetLTSSM"
      BY <3>1, <3>2 DEF RegisteredLtssmInDebugMode
    <3>3. CASE entries[id].type # "RetLTSSM"
      BY <1>3, <1>4, <2>5, <3>1, <3>3 DEF FileClosed
    <3>4. QED  BY <3>2, <3>3
  <2>6. ASSUME NEW p \in Pids, ChildExited(p) \/ ChildStopped(p)
        PROVE  RegisteredLtssmInDebugMode'
    BY <1>3, <1>4, <2>6 DEF ChildExited, ChildStopped, ChildCallback
  <2>7. CASE Crash \/ LimitCrashes \/ DeleteAllCrashes
    BY <1>3, <1>4, <2>7
       DEF Crash, LimitCrashes, DeleteAllCrashes, CrashOnNull, DaemonGone
  <2>8. CASE RefuseDump \/ DeleteAll \/ Restart \/ UNCHANGED vars
    BY <1>3, <1>4, <2>8 DEF RefuseDump, DeleteAll, Restart, vars
  <2>9. ASSUME NEW value \in BOOLEAN, SetDebugMode(value)
        PROVE  FALSE
    BY <2>9 DEF SetDebugMode
  <2>10. QED
    BY <1>4, <2>1, <2>2, <2>3, <2>4, <2>5, <2>6, <2>7, <2>8, <2>9
       DEF Next, Request
<1>5. Init => RegisteredLtssmInDebugMode
  BY DEF Init, RegisteredLtssmInDebugMode
<1>6. QED  BY <1>4, <1>5, PTL DEF Spec

HasCollector(t) == \E p \in childPtrMap : Alive(p) /\ collector[p].type = t

\* A collector that is the reason for a registered type keeps it registered,
\* or goes together with it.
LEMMA InProgressStep ==
  ASSUME "fork" \notin Faults, TypeOK, InProgressHasCollector, [Next]_vars,
         NEW t \in dumpInProgress'
  PROVE  HasCollector(t)'
<1>0. collector \in [Pids -> ProcessType] /\ childPtrMap \subseteq Pids
  BY DEF TypeOK
<1>a. t \in dumpInProgress => HasCollector(t)
  BY DEF InProgressHasCollector, HasCollector
<1>1. ASSUME t \in dumpInProgress, NEW q \in Pids,
             childPtrMap \ {q} \subseteq childPtrMap',
             \A p \in Pids : p # q => collector'[p] = collector[p],
             \/ ~Alive(q)
             \/ q \notin childPtrMap
             \/ collector[q].type # t
      PROVE  HasCollector(t)'
  <2>1. PICK p \in childPtrMap : Alive(p) /\ collector[p].type = t
    BY <1>a, <1>1 DEF HasCollector
  <2>2. p # q
    BY <1>1, <2>1
  <2>3. p \in childPtrMap' /\ collector'[p] = collector[p]
    BY <1>0, <1>1, <2>2
  <2>4. QED  BY <2>1, <2>3 DEF HasCollector, Alive
<1>2. ASSUME UNCHANGED <<childPtrMap, collector>>, t \in dumpInProgress
      PROVE  HasCollector(t)'
  BY <1>a, <1>2 DEF HasCollector, Alive
<1>3. ASSUME NEW q \in Pids, NEW u \in Types, CaptureDump(q, u)
      PROVE  HasCollector(t)'
  <2>1. /\ ~Alive(q)
        /\ q \in childPtrMap' /\ childPtrMap \subseteq childPtrMap'
        /\ collector'[q].phase = "collecting" /\ collector'[q].type = u
        /\ \A p \in Pids : p # q => collector'[p] = collector[p]
        /\ t \in dumpInProgress \/ t = u
    BY <1>0, <1>3 DEF CaptureDump, Fork, Alive
  <2>2. CASE t = u
    BY <2>1, <2>2 DEF HasCollector, Alive
  <2>3. CASE t \in dumpInProgress
    BY <1>1, <2>1, <2>3
  <2>4. QED  BY <2>1, <2>2, <2>3
<1>4. ASSUME NEW q \in Pids, NEW u \in Types, ChildSourceFails(q, u)
      PROVE  HasCollector(t)'
  <2>1. /\ ~Alive(q)
        /\ UNCHANGED <<childPtrMap, dumpInProgress>>
        /\ \A p \in Pids : p # q => collector'[p] = collector[p]
    BY <1>0, <1>4 DEF ChildSourceFails, Fork, Alive
  <2>2. QED  BY <1>1, <2>1
<1>5. ASSUME NEW q \in Pids, CollectorProgress(q)
      PROVE  HasCollector(t)'
  <2>1. /\ UNCHANGED <<childPtrMap, dumpInProgress>>
        /\ \A p \in Pids : p # q => collector'[p] = collector[p]
    BY <1>0, <1>5 DEF CollectorProgress, CollectorWrites, CollectorExits
  <2>2. CASE q \notin childPtrMap
    BY <1>1, <2>1, <2>2
  <2>3. CASE q \in childPtrMap
    <3>1. collector[q] \in ProcessType /\ collector[q].phase # "none"
      BY <1>0, <1>5 DEF CollectorProgress, CollectorWrites, CollectorExits
    <3>2. collector'[q].type = collector[q].type /\ collector'[q].phase # "none"
      BY <1>0, <1>5, <2>3, <3>1
         DEF CollectorProgress, CollectorWrites, CollectorExits, ProcessType,
             NoProcess
    <3>3. QED  BY <1>0, <1>a, <2>1, <3>2 DEF HasCollector, Alive
  <2>4. QED  BY <2>2, <2>3
<1>6. ASSUME NEW q \in Pids, ChildExited(q) \/ ChildStopped(q)
      PROVE  HasCollector(t)'
  <2>1. /\ childPtrMap' = childPtrMap \ {q}
        /\ dumpInProgress' = dumpInProgress \ {collector[q].type}
        /\ \A p \in Pids : p # q => collector'[p] = collector[p]
    BY <1>0, <1>6 DEF ChildExited, ChildStopped, ChildCallback
  <2>2. QED  BY <1>1, <2>1
<1>7. ASSUME NEW id \in Ids, DeleteEntry(id) \/ FileClosed(id)
      PROVE  HasCollector(t)'
  BY <1>2, <1>7 DEF DeleteEntry, FileClosed
<1>8. ASSUME NEW value \in BOOLEAN, SetDebugMode(value)
      PROVE  HasCollector(t)'
  BY <1>2, <1>8 DEF SetDebugMode
<1>9. CASE Crash \/ LimitCrashes \/ DeleteAllCrashes
  BY <1>9 DEF Crash, LimitCrashes, DeleteAllCrashes, CrashOnNull, DaemonGone
<1>10. CASE RefuseDump \/ DeleteAll \/ Restart \/ UNCHANGED vars
  BY <1>2, <1>10 DEF RefuseDump, DeleteAll, Restart, vars
<1>11. ASSUME NEW u \in Types, ForkFails(u)
       PROVE  FALSE
  BY <1>11 DEF ForkFails
<1>12. QED
  BY <1>3, <1>4, <1>5, <1>6, <1>7, <1>8, <1>9, <1>10, <1>11
     DEF Next, Request, CreateDump, CreateDumpBadOriginator

\* InProgressHasCollector: as long as fork succeeds, a type that is refused has
\* a collector whose end the event loop reports, even when requests fail after
\* the fork, collectors are stopped or entries are deleted.
THEOREM TypesHaveCollectors ==
  ASSUME "fork" \notin Faults
  PROVE  Spec => []InProgressHasCollector
<1>1. Init => InProgressHasCollector
  BY DEF Init, InProgressHasCollector
<1>2. TypeOK /\ InProgressHasCollector /\ [Next]_vars => InProgressHasCollector'
  BY InProgressStep DEF InProgressHasCollector, HasCollector
<1>3. QED  BY <1>1, <1>2, SystemTypeCorrect, PTL DEF Spec
-----------------------------------------------------------------------------
(* One dump for each id *)

\* What no two processes, and no process and id, may do to each other.
PairInv(p, q) ==
  /\ Alive(p) => collector[p].id <= lastEntryId
  /\ Alive(p) /\ Alive(q) /\ collector[p].id = collector[q].id => p = q

IdInv(id) == up /\ id > lastEntryId => entries[id] = NoEntry /\ id \notin files

IdsInv == /\ CollectorsDieWithDaemon
          /\ \A p, q \in Pids : PairInv(p, q)
          /\ \A id \in Ids : IdInv(id) /\ DumpInv(id)

LEMMA PairStep ==
  ASSUME "source" \notin Faults, TypeOK, IdsInv, [Next]_vars,
         NEW p \in Pids, NEW q \in Pids
  PROVE  PairInv(p, q)'
<1>0. /\ collector \in [Pids -> ProcessType]
      /\ lastEntryId \in Nat
      /\ \A r \in Pids : Alive(r) => /\ up
                                     /\ collector[r].id \in Nat
                                     /\ collector[r].id <= lastEntryId
  <2>1. collector \in [Pids -> ProcessType] /\ lastEntryId \in Nat
    BY MaxIdAssumption DEF TypeOK
  <2>2. \A r \in Pids : Alive(r) => collector[r].id \in Nat
    BY <2>1 DEF Alive, ProcessType, NoProcess, Ids
  <2>3. QED  BY <2>1, <2>2 DEF IdsInv, PairInv, CollectorsDieWithDaemon
<1>a. PairInv(p, q)
  BY DEF IdsInv
<1>1. ASSUME UNCHANGED <<lastEntryId, collector>>
      PROVE  PairInv(p, q)'
  BY <1>a, <1>1 DEF PairInv, Alive
<1>2. ASSUME NEW r \in Pids, NEW t \in Types, CaptureDump(r, t)
      PROVE  PairInv(p, q)'
  <2>1. /\ collector'[r].id = lastEntryId + 1
        /\ \A other \in Pids : other # r => collector'[other] = collector[other]
        /\ lastEntryId' = lastEntryId + 1
    BY <1>0, <1>2 DEF CaptureDump, Fork
  <2>2. \A other \in Pids : /\ Alive(other)' /\ other # r =>
                                 /\ collector'[other].id \in Nat
                                 /\ collector'[other].id <= lastEntryId
    BY <1>0, <2>1 DEF Alive
  <2>3. QED  BY <1>0, <1>a, <2>1, <2>2 DEF PairInv, Alive
<1>3. ASSUME NEW r \in Pids, UNCHANGED lastEntryId,
             \A other \in Pids : other # r => collector'[other] = collector[other],
             Alive(r)' => Alive(r) /\ collector'[r].id = collector[r].id
      PROVE  PairInv(p, q)'
  BY <1>a, <1>3 DEF PairInv, Alive
<1>4. ASSUME NEW r \in Pids, CollectorProgress(r)
      PROVE  PairInv(p, q)'
  <2>1. /\ UNCHANGED lastEntryId
        /\ \A other \in Pids : other # r => collector'[other] = collector[other]
        /\ Alive(r)
    BY <1>0, <1>4 DEF CollectorProgress, CollectorWrites, CollectorExits, Alive
  <2>2. collector[r] \in ProcessType
    BY <1>0
  <2>3. Alive(r)' => collector'[r].id = collector[r].id
    BY <1>0, <1>4, <2>2
       DEF CollectorProgress, CollectorWrites, CollectorExits, Alive, NoProcess,
           ProcessType
  <2>4. QED  BY <1>3, <2>1, <2>3
<1>5. ASSUME NEW r \in Pids, ChildExited(r)
      PROVE  PairInv(p, q)'
  <2>1. /\ UNCHANGED lastEntryId
        /\ \A other \in Pids : other # r => collector'[other] = collector[other]
        /\ ~Alive(r)'
    BY <1>0, <1>5 DEF ChildExited, Alive, NoProcess
  <2>2. QED  BY <1>3, <2>1
<1>6. ASSUME NEW r \in Pids, ChildStopped(r)
      PROVE  PairInv(p, q)'
  BY <1>1, <1>6 DEF ChildStopped
<1>7. ASSUME NEW t \in Types, ForkFails(t)
      PROVE  PairInv(p, q)'
  BY <1>1, <1>7 DEF ForkFails
<1>8. ASSUME NEW id \in Ids, DeleteEntry(id) \/ FileClosed(id)
      PROVE  PairInv(p, q)'
  BY <1>1, <1>8 DEF DeleteEntry, FileClosed
<1>9. ASSUME NEW value \in BOOLEAN, SetDebugMode(value)
      PROVE  PairInv(p, q)'
  BY <1>1, <1>9 DEF SetDebugMode
<1>10. CASE Crash \/ LimitCrashes \/ DeleteAllCrashes
  BY <1>10 DEF Crash, LimitCrashes, DeleteAllCrashes, CrashOnNull, DaemonGone,
               PairInv, Alive, NoProcess
<1>11. CASE Restart
  <2>1. ~up /\ UNCHANGED collector
    BY <1>11 DEF Restart
  <2>2. QED  BY <1>0, <2>1 DEF PairInv, Alive
<1>12. CASE RefuseDump \/ DeleteAll \/ UNCHANGED vars
  BY <1>1, <1>12 DEF RefuseDump, DeleteAll, vars
<1>13. ASSUME NEW r \in Pids, NEW t \in Types, ChildSourceFails(r, t)
       PROVE  FALSE
  BY <1>13 DEF ChildSourceFails
<1>14. QED
  BY <1>2, <1>4, <1>5, <1>6, <1>7, <1>8, <1>9, <1>10, <1>11, <1>12, <1>13
     DEF Next, Request, CreateDump, CreateDumpBadOriginator

LEMMA IdStep ==
  ASSUME "source" \notin Faults, TypeOK, IdsInv, [Next]_vars, NEW id \in Ids
  PROVE  IdInv(id)'
<1>0. /\ entries \in [Ids -> EntryType]
      /\ lastEntryId \in Nat /\ id \in Nat
      /\ IdInv(id) /\ DumpInv(id)
      /\ collector \in [Pids -> ProcessType]
  BY MaxIdAssumption DEF TypeOK, IdsInv, Ids
<1>a. \A p \in Pids : Alive(p) => up /\ ~(id = collector[p].id /\ id > lastEntryId)
  BY <1>0 DEF IdsInv, PairInv, CollectorsDieWithDaemon
<1>1. ASSUME lastEntryId' \in {lastEntryId, lastEntryId + 1}, UNCHANGED up,
             files' \subseteq files,
             id = lastEntryId' \/ entries'[id] \in {entries[id], NoEntry}
      PROVE  IdInv(id)'
  BY <1>0, <1>1 DEF IdInv
<1>2. ASSUME LimitDumpEntries
      PROVE  files' \subseteq files /\ KeepAfterLimit[id] \in {entries[id], NoEntry}
  <2>1. Excess \in SUBSET Ids /\ RemoveFiles(Excess)
    BY <1>2 DEF Excess, Present, LimitDumpEntries
  <2>2. QED  BY <2>1, RemoveFilesTypes DEF KeepAfterLimit
<1>3. ASSUME NEW p \in Pids, NEW t \in Types,
             CreateDump(p, t) \/ CreateDumpBadOriginator(p, t)
      PROVE  IdInv(id)'
  <2>1. /\ lastEntryId' = lastEntryId + 1
        /\ UNCHANGED up
        /\ LimitDumpEntries
    BY <1>3 DEF CreateDump, CreateDumpBadOriginator, CaptureDump, Fork, Prepare
  <2>2. id # lastEntryId + 1 => entries'[id] = KeepAfterLimit[id]
    BY <1>3 DEF CreateDump, CreateDumpBadOriginator, KeepAfterLimit
  <2>3. QED  BY <1>1, <1>2, <2>1, <2>2
<1>4. ASSUME NEW t \in Types, ForkFails(t)
      PROVE  IdInv(id)'
  <2>1. LimitDumpEntries /\ UNCHANGED <<up, lastEntryId>>
        /\ entries'[id] = KeepAfterLimit[id]
    BY <1>4 DEF ForkFails, Prepare
  <2>2. QED  BY <1>1, <1>2, <2>1
<1>5. CASE RefuseDump
  <2>1. LimitDumpEntries /\ UNCHANGED <<up, lastEntryId>>
        /\ entries'[id] = KeepAfterLimit[id]
    BY <1>5 DEF RefuseDump
  <2>2. QED  BY <1>1, <1>2, <2>1
<1>6. ASSUME NEW j \in Ids, DeleteEntry(j)
      PROVE  IdInv(id)'
  <2>1. files' \subseteq files /\ UNCHANGED <<up, lastEntryId>>
    BY <1>6, RemoveFilesTypes DEF DeleteEntry
  <2>2. entries'[id] \in {entries[id], NoEntry}
    BY <1>0, <1>6 DEF DeleteEntry
  <2>3. QED  BY <1>1, <2>1, <2>2
<1>7. CASE DeleteAll
  <2>1. files' \subseteq files /\ UNCHANGED <<up, lastEntryId>>
    BY <1>7, RemoveFilesTypes DEF DeleteAll, Present
  <2>2. entries'[id] = NoEntry
    BY <1>7 DEF DeleteAll
  <2>3. QED  BY <1>1, <2>1, <2>2
<1>8. ASSUME NEW p \in Pids, CollectorWrites(p)
      PROVE  IdInv(id)'
  <2>1. /\ UNCHANGED <<up, lastEntryId, entries>>
        /\ files' = files \cup {collector[p].id}
        /\ Alive(p)
    BY <1>8 DEF CollectorWrites, Alive
  <2>2. QED  BY <1>0, <1>a, <2>1 DEF IdInv
<1>9. ASSUME UNCHANGED <<up, lastEntryId, entries, files>>
      PROVE  IdInv(id)'
  BY <1>0, <1>9 DEF IdInv
<1>10. ASSUME NEW p \in Pids, NEW phase, CollectorExits(p, phase)
       PROVE  IdInv(id)'
  BY <1>9, <1>10 DEF CollectorExits
<1>11. ASSUME NEW value \in BOOLEAN, SetDebugMode(value)
       PROVE  IdInv(id)'
  BY <1>9, <1>11 DEF SetDebugMode
<1>12. ASSUME NEW j \in Ids, FileClosed(j)
       PROVE  IdInv(id)'
  <2>1. /\ UNCHANGED <<up, lastEntryId, files>>
        /\ j # id => entries'[id] = entries[id]
        /\ j \in fileEvents
    BY <1>0, <1>12 DEF FileClosed
  <2>2. j = id => id \in files
    BY <1>0, <2>1 DEF DumpInv
  <2>3. QED  BY <1>0, <2>1, <2>2 DEF IdInv
<1>13. ASSUME NEW p \in Pids, ChildExited(p) \/ ChildStopped(p)
       PROVE  IdInv(id)'
  <2>1. /\ UNCHANGED <<up, lastEntryId, files>>
        /\ id # collector[p].id => entries'[id] = entries[id]
        /\ Alive(p)
    BY <1>0, <1>13 DEF ChildExited, ChildStopped, ChildCallback, Alive
  <2>2. QED  BY <1>0, <1>a, <2>1 DEF IdInv
<1>14. CASE Crash \/ LimitCrashes \/ DeleteAllCrashes
  BY <1>14 DEF Crash, LimitCrashes, DeleteAllCrashes, CrashOnNull, DaemonGone,
               IdInv
<1>15. CASE Restart
  <2>1. PICK n \in 0 .. MaxId : IsLastId(n) /\ lastEntryId' = n
    BY <1>15 DEF Restart
  <2>2. id > n => id \notin files
    BY <1>0, <2>1, MaxIdAssumption DEF IsLastId
  <2>3. files' = files /\ (id \notin files => entries'[id] = NoEntry)
    BY <1>15 DEF Restart
  <2>4. QED  BY <2>1, <2>2, <2>3 DEF IdInv
<1>16. CASE UNCHANGED vars
  BY <1>9, <1>16 DEF vars
<1>17. ASSUME NEW p \in Pids, NEW t \in Types, ChildSourceFails(p, t)
       PROVE  FALSE
  BY <1>17 DEF ChildSourceFails
<1>18. QED
  BY <1>3, <1>4, <1>5, <1>6, <1>7, <1>8, <1>10, <1>11, <1>12, <1>13, <1>14,
     <1>15, <1>16, <1>17 DEF Next, Request, CollectorProgress

\* IdsNameOneDump: as long as every collector gets its event source, an id is
\* given to one dump, whatever is stopped, deleted, cut by the limit or
\* restored after a crash.
THEOREM SystemIdsAreUnique ==
  ASSUME "source" \notin Faults
  PROVE  Spec => []IdsNameOneDump
<1>1. Init => IdsInv
  BY DEF Init, IdsInv, CollectorsDieWithDaemon, PairInv, IdInv, DumpInv, Alive,
         NoEntry, NoProcess
<1>2. TypeOK /\ IdsInv /\ [Next]_vars => IdsInv'
  <2> SUFFICES ASSUME TypeOK, IdsInv, [Next]_vars  PROVE IdsInv'
    OBVIOUS
  <2>1. CollectorsDieWithDaemon'
    BY DaemonStep DEF IdsInv
  <2>2. \A p, q \in Pids : PairInv(p, q)'
    BY PairStep
  <2>3. \A id \in Ids : IdInv(id)'
    BY IdStep
  <2>4. \A id \in Ids : DumpInv(id)'
    BY DumpStep DEF IdsInv
  <2>5. QED  BY <2>1, <2>2, <2>3, <2>4 DEF IdsInv
<1>3. TypeOK /\ IdsInv => IdsNameOneDump
  <2> SUFFICES ASSUME TypeOK, IdsInv  PROVE IdsNameOneDump
    OBVIOUS
  <2>1. ASSUME NEW p \in Pids, NEW id \in Ids, Alive(p), id > lastEntryId
        PROVE  collector[p].id # id
    <3>1. collector[p].id <= lastEntryId /\ lastEntryId \in Nat /\ id \in Nat
      BY <2>1, MaxIdAssumption DEF IdsInv, PairInv, TypeOK, Ids
    <3>2. QED  BY <2>1, <3>1
  <2>2. QED  BY <2>1 DEF IdsInv, PairInv, IdInv, IdsNameOneDump
<1>4. QED  BY <1>1, <1>2, <1>3, SystemTypeCorrect, PTL DEF Spec
-----------------------------------------------------------------------------
(* The dump store: the manager implements it, for every limit and whatever   *)
(* faults occur.  The simulation is step by step; it rests on what is known  *)
(* of the disk, and on files being named by live entries only.               *)

FilesOfLive == \A id \in Ids : entries[id].file => Live(id)

\* What a step can make of an entry, but for the limit and the deletes.
LEMMA EntryFates ==
  ASSUME TypeOK, FilesOfLive, NEW id \in Ids
  PROVE  /\ EntryAfterFailure(entries[id]).file <=> entries[id].file
         /\ entries[id].file =>
              EntryAfterFailure(entries[id]).status \in LiveStatus
         /\ EntryAfterClose(entries[id]).file =>
              EntryAfterClose(entries[id]).status \in LiveStatus
         /\ entries[id].status # "null" => EntryAfterClose(entries[id]).file
<1>1. entries[id] \in EntryType
  BY DEF TypeOK
<1>2. CASE Live(id)
  <2>1. [entries[id] EXCEPT !.status = "Failed"].file = entries[id].file
    BY <1>1 DEF EntryType
  <2>2. [entries[id] EXCEPT !.status = "Failed"].status = "Failed"
    BY <1>1 DEF EntryType
  <2>3. EntryAfterFailure(entries[id]) = [entries[id] EXCEPT !.status = "Failed"]
    BY <1>2 DEF EntryAfterFailure, Live
  <2>4. EntryAfterClose(entries[id]) = CompletedEntry(entries[id].type)
    BY <1>2 DEF EntryAfterClose, Live, LiveStatus
  <2>5. QED  BY <2>1, <2>2, <2>3, <2>4 DEF CompletedEntry, LiveStatus
<1>3. CASE ~Live(id)
  <2>1. ~entries[id].file /\ entries[id].status \in {"none", "null"}
    BY <1>1, <1>3 DEF FilesOfLive, Live, EntryType
  <2>2. EntryAfterFailure(entries[id]) = NullEntry
    BY <1>3 DEF EntryAfterFailure, Live
  <2>3. EntryAfterClose(entries[id]) =
          IF entries[id].status = "none" THEN CompletedEntry("") ELSE entries[id]
    BY <2>1 DEF EntryAfterClose, LiveStatus
  <2>4. /\ CompletedEntry("").file /\ CompletedEntry("").status \in LiveStatus
        /\ ~NullEntry.file
    BY DEF CompletedEntry, NullEntry, LiveStatus
  <2>5. QED  BY <2>1, <2>2, <2>3, <2>4
<1>4. QED  BY <1>2, <1>3

LEMMA FilesOfLiveStep == TypeOK /\ FilesOfLive /\ [Next]_vars => FilesOfLive'
<1> SUFFICES ASSUME TypeOK, FilesOfLive, [Next]_vars, NEW id \in Ids
             PROVE  entries'[id].file => entries'[id].status \in LiveStatus
  BY DEF FilesOfLive, Live
<1>0. entries \in [Ids -> EntryType]
  BY DEF TypeOK
<1>1. ASSUME \/ entries'[id] = entries[id]
             \/ ~entries'[id].file
      PROVE  entries'[id].file => entries'[id].status \in LiveStatus
  BY <1>1 DEF FilesOfLive, Live
<1>2. ASSUME \/ entries' = KeepAfterLimit
             \/ \E t \in Types, new \in Ids :
                  entries' = [KeepAfterLimit EXCEPT ![new] = NewEntry(t)]
      PROVE  \/ entries'[id] = entries[id]
             \/ ~entries'[id].file
  <2>1. KeepAfterLimit[id] = IF id \in Excess THEN NoEntry ELSE entries[id]
    BY DEF KeepAfterLimit
  <2>2. KeepAfterLimit \in [Ids -> EntryType]
    BY KeptTypes
  <2>3. \/ entries'[id] = KeepAfterLimit[id]
        \/ \E t \in Types : entries'[id] = NewEntry(t)
    BY <1>2, <2>2
  <2>4. ~NoEntry.file /\ \A t \in Types : ~NewEntry(t).file
    BY DEF NoEntry, NewEntry
  <2>5. QED  BY <2>1, <2>3, <2>4
<1>3. ASSUME NEW p \in Pids, NEW t \in Types, CreateDump(p, t)
      PROVE  entries'[id].file => entries'[id].status \in LiveStatus
  <2>1. lastEntryId + 1 \in Ids
    BY <1>3, ForkTypes DEF CreateDump, CaptureDump
  <2>2. \/ entries' = KeepAfterLimit
        \/ entries' = [KeepAfterLimit EXCEPT ![lastEntryId + 1] = NewEntry(t)]
    BY <1>3 DEF CreateDump
  <2>3. QED  BY <1>1, <1>2, <2>1, <2>2
<1>4. CASE \/ \E p \in Pids, t \in Types : \/ CreateDumpBadOriginator(p, t)
                                            \/ ChildSourceFails(p, t)
           \/ \E t \in Types : ForkFails(t)
           \/ RefuseDump
  BY <1>1, <1>2, <1>4
     DEF CreateDumpBadOriginator, ChildSourceFails, ForkFails, RefuseDump
<1>5. ASSUME NEW j \in Ids, DeleteEntry(j)
      PROVE  entries'[id].file => entries'[id].status \in LiveStatus
  BY <1>0, <1>1, <1>5 DEF DeleteEntry, NoEntry
<1>6. CASE DeleteAll \/ Crash \/ LimitCrashes \/ DeleteAllCrashes
  BY <1>1, <1>6 DEF DeleteAll, Crash, LimitCrashes, DeleteAllCrashes,
                    CrashOnNull, DaemonGone, NoEntry
<1>7. ASSUME NEW value \in BOOLEAN, SetDebugMode(value)
      PROVE  entries'[id].file => entries'[id].status \in LiveStatus
  BY <1>1, <1>7 DEF SetDebugMode
<1>8. ASSUME NEW p \in Pids, CollectorProgress(p)
      PROVE  entries'[id].file => entries'[id].status \in LiveStatus
  BY <1>1, <1>8 DEF CollectorProgress, CollectorWrites, CollectorExits
<1>9. ASSUME NEW j \in Ids, FileClosed(j)
      PROVE  entries'[id].file => entries'[id].status \in LiveStatus
  <2>1. entries'[id] \in {entries[id], EntryAfterClose(entries[id])}
    BY <1>0, <1>9 DEF FileClosed
  <2>2. QED  BY <1>1, <2>1, EntryFates
<1>10. ASSUME NEW p \in Pids, ChildExited(p) \/ ChildStopped(p)
       PROVE  entries'[id].file => entries'[id].status \in LiveStatus
  <2>1. entries'[id] \in {entries[id], EntryAfterFailure(entries[id])}
    BY <1>0, <1>10 DEF ChildExited, ChildStopped, ChildCallback
  <2>2. QED  BY <1>1, <2>1, EntryFates
<1>11. CASE Restart
  BY <1>11 DEF Restart, CompletedEntry, NoEntry, LiveStatus
<1>12. CASE UNCHANGED vars
  BY <1>1, <1>12 DEF vars
<1>13. QED
  BY <1>3, <1>4, <1>5, <1>6, <1>7, <1>8, <1>9, <1>10, <1>11, <1>12
     DEF Next, Request

\* The refinement mapping, dump by dump, before and after a step.
LEMMA Mapping ==
  /\ Kept \in [Ids -> {"dump", "none"}]
  /\ Kept' \in [Ids -> {"dump", "none"}]
  /\ OfferedOnBus \in [Ids -> {"dump", "none"}]
  /\ OfferedOnBus' \in [Ids -> {"dump", "none"}]
  /\ \A id \in Ids :
       /\ Kept[id] = "dump" <=> id \in files
       /\ Kept'[id] = "dump" <=> id \in files'
       /\ OfferedOnBus[id] = "dump" <=> entries[id].file
       /\ OfferedOnBus'[id] = "dump" <=> entries'[id].file
BY DEF Kept, OfferedOnBus

LEMMA StutterStep ==
  ASSUME UNCHANGED <<up, files>>,
         \A id \in Ids : entries'[id].file <=> entries[id].file
  PROVE  UNCHANGED Store!vars
<1>1. Kept' = Kept
  BY Mapping DEF Kept
<1>2. OfferedOnBus' = OfferedOnBus
  BY Mapping DEF OfferedOnBus
<1>3. QED  BY <1>1, <1>2 DEF Store!vars

\* Entries go, with the files they name, but for those that cannot be removed.
LEMMA DeleteStep ==
  ASSUME NEW ids \in SUBSET Ids, up, up' = up, RemoveFiles(ids),
         \A id \in Ids : entries'[id].file <=> entries[id].file /\ id \notin ids
  PROVE  Store!Delete(ids)
<1>1. PICK stuck \in SUBSET ids :
        files' = files \ {id \in ids \ stuck : entries[id].file}
  BY DEF RemoveFiles
<1> DEFINE gone == {id \in ids \ stuck : entries[id].file}
<1>2. gone \in SUBSET Store!Offered(ids)
  BY Mapping DEF Store!Offered, Store!None
<1>3. Kept' = Store!Without(Kept, gone)
  BY <1>1 DEF Kept, Store!Without, Store!None
<1>4. OfferedOnBus' = Store!Without(OfferedOnBus, ids)
  BY DEF OfferedOnBus, Store!Without, Store!None
<1> HIDE DEF gone
<1>5. QED  BY <1>2, <1>3, <1>4 DEF Store!Delete

\* The requests: the limit deletes, and no entry that is made has a file.
LEMMA RequestStep ==
  ASSUME TypeOK, FilesOfLive, up, up' = up, LimitDumpEntries,
         \/ entries' = KeepAfterLimit
         \/ \E new \in Ids, t \in Types :
              /\ KeepAfterLimit[new].status = "none"
              /\ entries' = [KeepAfterLimit EXCEPT ![new] = NewEntry(t)]
  PROVE  Store!Delete(Excess)
<1>1. Excess \in SUBSET Ids /\ RemoveFiles(Excess)
  BY DEF Excess, Present, LimitDumpEntries
<1>2. \A id \in Ids :
        KeepAfterLimit[id].file <=> entries[id].file /\ id \notin Excess
  BY DEF KeepAfterLimit, NoEntry
<1>3. \A id \in Ids : KeepAfterLimit[id].status = "none" =>
                         ~KeepAfterLimit[id].file
  BY DEF KeepAfterLimit, NoEntry, FilesOfLive, Live, LiveStatus
<1>4. \A id \in Ids : entries'[id].file <=> KeepAfterLimit[id].file
  <2>1. KeepAfterLimit \in [Ids -> EntryType]
    BY KeptTypes
  <2>2. QED  BY <1>3, <2>1 DEF NewEntry
<1>5. QED  BY <1>1, <1>2, <1>4, DeleteStep

LEMMA CreateStep ==
  ASSUME TypeOK, FilesOfLive, NEW p \in Pids, NEW t \in Types, CreateDump(p, t)
  PROVE  Store!Delete(Excess)
<1>1. lastEntryId + 1 \in Ids
  BY ForkTypes DEF CreateDump, CaptureDump
<1>2. up /\ up' = up /\ LimitDumpEntries
  BY DEF CreateDump, CaptureDump, Fork, Prepare
<1>3. \/ entries' = KeepAfterLimit
      \/ /\ KeepAfterLimit[lastEntryId + 1].status = "none"
         /\ entries' = [KeepAfterLimit EXCEPT ![lastEntryId + 1] = NewEntry(t)]
  BY DEF CreateDump
<1>4. QED  BY <1>1, <1>2, <1>3, RequestStep

\* The archive is new, or written over.
LEMMA WriteStep ==
  ASSUME TypeOK, NEW p \in Pids, CollectorWrites(p)
  PROVE  UNCHANGED Store!vars \/ \E id \in Ids : Store!Store(id)
<1> DEFINE id == collector[p].id
<1>1. id \in Ids
  BY DEF CollectorWrites, TypeOK, ProcessType, NoProcess
<1>2. files' = files \cup {id} /\ UNCHANGED <<up, entries>>
  BY DEF CollectorWrites
<1> HIDE DEF id
<1>3. CASE id \in files
  BY <1>2, <1>3, StutterStep
<1>4. CASE id \notin files
  <2>1. Kept' = [Kept EXCEPT ![id] = "dump"]
    BY <1>1, <1>2 DEF Kept
  <2>2. OfferedOnBus' = OfferedOnBus
    BY <1>2 DEF OfferedOnBus
  <2>3. Kept[id] = "none"
    BY <1>1, <1>4 DEF Kept
  <2>4. QED  BY <1>1, <1>2, <2>1, <2>2, <2>3 DEF Store!Store, Store!None
<1>5. QED  BY <1>3, <1>4

LEMMA CloseStep ==
  ASSUME TypeOK, FilesOfLive, AllDumpsInv, NEW id \in Ids, FileClosed(id)
  PROVE  UNCHANGED Store!vars \/ Store!Publish(id)
<1>1. /\ up /\ id \in files /\ ~entries[id].file
      /\ UNCHANGED <<up, files>>
      /\ entries' = [entries EXCEPT ![id] = EntryAfterClose(entries[id])]
      /\ entries \in [Ids -> EntryType]
  BY DEF FileClosed, AllDumpsInv, DumpInv, TypeOK
<1>2. CASE entries[id].status = "null"
  <2>1. EntryAfterClose(entries[id]) = entries[id]
    BY <1>2 DEF EntryAfterClose, LiveStatus
  <2>2. QED  BY <1>1, <2>1, StutterStep
<1>3. CASE entries[id].status # "null"
  <2>1. entries'[id].file
    BY <1>1, <1>3, EntryFates
  <2>2. OfferedOnBus' = [OfferedOnBus EXCEPT ![id] = "dump"]
    BY <1>1, <2>1 DEF OfferedOnBus
  <2>3. Kept' = [Kept EXCEPT ![id] = "dump"]
    BY <1>1 DEF Kept
  <2>4. Kept[id] = "dump" /\ OfferedOnBus[id] = "none"
    BY <1>1 DEF Kept, OfferedOnBus
  <2>5. QED  BY <1>1, <2>2, <2>3, <2>4 DEF Store!Publish, Store!None
<1>4. QED  BY <1>2, <1>3

LEMMA ChildStep ==
  ASSUME TypeOK, FilesOfLive, NEW p \in Pids, ChildExited(p) \/ ChildStopped(p)
  PROVE  UNCHANGED Store!vars
<1>1. UNCHANGED <<up, files>>
  BY DEF ChildExited, ChildStopped
<1>2. ASSUME NEW id \in Ids
      PROVE  entries'[id] \in {entries[id], EntryAfterFailure(entries[id])}
  BY DEF ChildExited, ChildStopped, ChildCallback, TypeOK
<1>3. QED  BY <1>1, <1>2, EntryFates, StutterStep

\* The daemon goes, perhaps in the middle of deleting.
LEMMA GoneStep ==
  ASSUME up, DaemonGone, files' = files \/ \E ids \in SUBSET Ids : RemoveFiles(ids)
  PROVE  Store!Stop
<1>1. PICK gone \in SUBSET Ids :
        files' = files \ gone /\ \A id \in gone : entries[id].file
  <2>1. CASE files' = files
    <3>1. files' = files \ {} /\ {} \in SUBSET Ids
      BY <2>1
    <3>2. QED  BY <3>1
  <2>2. CASE \E ids \in SUBSET Ids : RemoveFiles(ids)
    <3>1. PICK ids \in SUBSET Ids : RemoveFiles(ids)
      BY <2>2
    <3>2. PICK stuck \in SUBSET ids :
            files' = files \ {id \in ids \ stuck : entries[id].file}
      BY <3>1 DEF RemoveFiles
    <3>3. {id \in ids \ stuck : entries[id].file} \in SUBSET Ids
      OBVIOUS
    <3>4. QED  BY <3>2, <3>3
  <2>3. QED  BY <2>1, <2>2
<1>2. gone \in SUBSET Store!Offered(Ids)
  BY <1>1, Mapping DEF Store!Offered, Store!None
<1>3. OfferedOnBus' = [id \in Ids |-> "none"]
  BY DEF DaemonGone, OfferedOnBus, NoEntry
<1>4. Kept' = Store!Without(Kept, gone)
  BY <1>1 DEF Kept, Store!Without, Store!None
<1>5. /\ Kept' \in [Ids -> {"dump"} \cup {"none"}]
      /\ \A id \in Ids : \/ Kept'[id] = Kept[id]
                         \/ OfferedOnBus[id] # "none" /\ Kept'[id] = "none"
  BY <1>2, <1>4, Mapping DEF Store!Without, Store!Offered, Store!None
<1>6. up' = FALSE
  BY DEF DaemonGone
<1>7. QED  BY <1>2, <1>3, <1>5, <1>6 DEF Store!Stop, Store!None

LEMMA RestartStep ==
  ASSUME Restart  PROVE Store!Start
<1>1. ~up /\ up' = TRUE /\ files' = files
  BY DEF Restart
<1>2. \A id \in Ids : entries'[id].file <=> id \in files
  BY DEF Restart, CompletedEntry, NoEntry
<1>3. OfferedOnBus' = Kept /\ Kept' = Kept
  BY <1>1, <1>2 DEF OfferedOnBus, Kept
<1>4. QED  BY <1>1, <1>3 DEF Store!Start

\* Every step of the manager is a step of the store, or none.
LEMMA StoreStep ==
  TypeOK /\ FilesOfLive /\ AllDumpsInv /\ [Next]_vars
    => [Store!Next]_(Store!vars)
<1> SUFFICES ASSUME TypeOK, FilesOfLive, AllDumpsInv, [Next]_vars
             PROVE  Store!Next \/ UNCHANGED Store!vars
  BY DEF Store!vars
<1>0. Excess \in SUBSET Ids /\ Present \in SUBSET Ids
  BY DEF Excess, Present
<1>1. ASSUME NEW p \in Pids, NEW t \in Types, CreateDump(p, t)
      PROVE  Store!Delete(Excess)
  BY <1>1, CreateStep
<1>2. ASSUME NEW p \in Pids, NEW t \in Types,
             \/ CreateDumpBadOriginator(p, t)
             \/ ChildSourceFails(p, t)
      PROVE  Store!Delete(Excess)
  BY <1>2, RequestStep DEF CreateDumpBadOriginator, CaptureDump,
                           ChildSourceFails, Fork, Prepare
<1>3. ASSUME NEW t \in Types, ForkFails(t)
      PROVE  Store!Delete(Excess)
  BY <1>3, RequestStep DEF ForkFails, Prepare
<1>4. ASSUME RefuseDump
      PROVE  Store!Delete(Excess)
  BY <1>4, RequestStep DEF RefuseDump
<1>5. ASSUME NEW id \in Ids, DeleteEntry(id)
      PROVE  Store!Delete({id})
  <2>1. \A j \in Ids : entries'[j].file <=> entries[j].file /\ j \notin {id}
    BY <1>5 DEF DeleteEntry, TypeOK, NoEntry
  <2>2. QED  BY <1>5, <2>1, DeleteStep DEF DeleteEntry
<1>6. ASSUME DeleteAll
      PROVE  Store!Delete(Present)
  <2>1. \A id \in Ids : entries[id].file => id \in Present
    BY DEF FilesOfLive, Live, LiveStatus, Present
  <2>2. \A id \in Ids : entries'[id].file <=> entries[id].file /\ id \notin Present
    BY <1>6, <2>1 DEF DeleteAll, NoEntry
  <2>3. QED  BY <1>0, <1>6, <2>2, DeleteStep DEF DeleteAll
<1>7. ASSUME NEW value \in BOOLEAN, SetDebugMode(value)
      PROVE  UNCHANGED Store!vars
  BY <1>7, StutterStep DEF SetDebugMode
<1>8. ASSUME NEW p \in Pids, CollectorProgress(p)
      PROVE  UNCHANGED Store!vars \/ \E id \in Ids : Store!Store(id)
  BY <1>8, WriteStep, StutterStep DEF CollectorProgress, CollectorExits
<1>9. ASSUME NEW id \in Ids, FileClosed(id)
      PROVE  UNCHANGED Store!vars \/ Store!Publish(id)
  BY <1>9, CloseStep
<1>10. ASSUME NEW p \in Pids, ChildExited(p) \/ ChildStopped(p)
       PROVE  UNCHANGED Store!vars
  BY <1>10, ChildStep
<1>11. ASSUME Crash \/ LimitCrashes \/ DeleteAllCrashes
       PROVE  Store!Stop
  <2>1. ASSUME NEW ids \in SUBSET Ids, CrashOnNull(ids)
        PROVE  Store!Stop
    <3>1. PICK n \in ids : RemoveFiles({id \in ids : id < n})
      BY <2>1 DEF CrashOnNull
    <3>2. {id \in ids : id < n} \in SUBSET Ids
      OBVIOUS
    <3>3. QED  BY <2>1, <3>1, <3>2, GoneStep DEF CrashOnNull
  <2>2. QED  BY <1>0, <1>11, <2>1, GoneStep
               DEF Crash, LimitCrashes, DeleteAllCrashes
<1>12. ASSUME Restart
       PROVE  Store!Start
  BY <1>12, RestartStep
<1>13. CASE UNCHANGED vars
  BY <1>13, StutterStep DEF vars
<1>14. QED
  BY <1>0, <1>1, <1>2, <1>3, <1>4, <1>5, <1>6, <1>7, <1>8, <1>9, <1>10, <1>11,
     <1>12, <1>13 DEF Next, Request, Store!Next

\* ImplementsDumpStore: the system dump manager is a dump store that outlives
\* the daemon, for every limit, number of ids and processes, and whatever
\* faults occur.
THEOREM SystemDumpIsADumpStore == Spec => ImplementsDumpStore
<1>1. Init => Store!Init /\ FilesOfLive
  BY DEF Init, Store!Init, Store!None, Kept, OfferedOnBus, NoEntry, FilesOfLive
<1>2. Spec => []FilesOfLive
  BY <1>1, FilesOfLiveStep, SystemTypeCorrect, PTL DEF Spec
<1>3. QED
  BY <1>1, <1>2, StoreStep, SystemTypeCorrect, DiskInvariant, PTL
     DEF Spec, ImplementsDumpStore, Store!Spec

-----------------------------------------------------------------------------
(* What follows from the store, whatever implements it *)

StoreTypeOK ==
  /\ Kept \in [Ids -> {"dump", "none"}]
  /\ OfferedOnBus \in [Ids -> {"dump", "none"}]

StoreInv == StoreTypeOK /\ Store!OfferedAreKept

USE DEF Store!None

\* From the store's own actions alone: a dump is offered as it is kept, and what
\* happens to what is kept is a matter of whether it is on offer.
LEMMA StoreActions ==
  ASSUME StoreInv, Store!Next
  PROVE  /\ StoreInv'
         /\ \A id \in Ids :
              Kept[id] # "none" /\ OfferedOnBus[id] = "none"
                => Kept'[id] # "none"
<1> USE DEF StoreInv, StoreTypeOK, Store!OfferedAreKept
<1>1. ASSUME NEW id \in Ids, Store!Store(id) \/ Store!Publish(id)
      PROVE  /\ StoreInv'
             /\ \A i \in Ids : Kept[i] # "none" => Kept'[i] # "none"
  <2>1. CASE Store!Store(id)
    <3>1. PICK o \in {"dump"} : Kept' = [Kept EXCEPT ![id] = o]
      BY <2>1 DEF Store!Store
    <3>2. Kept[id] = "none" /\ OfferedOnBus' = OfferedOnBus
      BY <2>1 DEF Store!Store
    <3>3. QED  BY <3>1, <3>2
  <2>2. CASE Store!Publish(id)
    <3>1. PICK o \in {"dump"} : /\ Kept' = [Kept EXCEPT ![id] = o]
                                /\ OfferedOnBus' = [OfferedOnBus EXCEPT ![id] = o]
      BY <2>2 DEF Store!Publish
    <3>2. Kept[id] # "none" /\ OfferedOnBus[id] = "none"
      BY <2>2 DEF Store!Publish
    <3>3. QED  BY <3>1, <3>2
  <2>3. QED  BY <1>1, <2>1, <2>2
<1>2. ASSUME NEW ids \in SUBSET Ids, Store!Delete(ids)
      PROVE  /\ StoreInv'
             /\ \A i \in Ids : \/ Kept'[i] = Kept[i]
                               \/ OfferedOnBus[i] # "none" /\ Kept'[i] = "none"
  <2>1. PICK gone \in SUBSET Store!Offered(ids) : Kept' = Store!Without(Kept, gone)
    BY <1>2 DEF Store!Delete
  <2>2. OfferedOnBus' = Store!Without(OfferedOnBus, ids)
    BY <1>2 DEF Store!Delete
  <2>3. QED  BY <2>1, <2>2 DEF Store!Without, Store!Offered
<1>3. ASSUME Store!Stop
      PROVE  /\ StoreInv'
             /\ \A i \in Ids :
                  \/ Kept'[i] = Kept[i]
                  \/ IF OfferedOnBus[i] # "none" THEN Kept'[i] = "none"
                                                 ELSE Kept[i] = "none"
  BY <1>3 DEF Store!Stop
<1>4. ASSUME Store!Start  PROVE StoreInv' /\ Kept' = Kept
  BY <1>4 DEF Store!Start
<1>5. QED  BY <1>1, <1>2, <1>3, <1>4 DEF Store!Next

\* What a client relies on, of the system dump manager: what is on offer is on
\* disk; and no archive goes that was not on offer, by the limit neither, nor one
\* whose close is still to be handled.
THEOREM SystemDumpsAreKept ==
  Spec => /\ []Store!OfferedAreKept
          /\ Store!NoneGoesUnseen
<1>1. Store!Init => StoreInv
  BY DEF Store!Init, StoreInv, StoreTypeOK, Store!OfferedAreKept
<1>2. StoreInv /\ [Store!Next]_(Store!vars) => StoreInv'
  <2> SUFFICES ASSUME StoreInv, [Store!Next]_(Store!vars)  PROVE StoreInv'
    OBVIOUS
  <2>1. CASE Store!Next
    BY <2>1, StoreActions
  <2>2. CASE UNCHANGED Store!vars
    BY <2>2 DEF Store!vars, StoreInv, StoreTypeOK, Store!OfferedAreKept
  <2>3. QED  BY <2>1, <2>2
<1>3. StoreInv => Store!OfferedAreKept
  BY DEF StoreInv
<1>4. StoreInv /\ [Store!Next]_(Store!vars)
        => [\A id \in Ids : Kept[id] # "none" /\ OfferedOnBus[id] = "none"
                              => Kept'[id] # "none"]_(Store!vars)
  BY StoreActions
<1>5. QED  BY <1>1, <1>2, <1>3, <1>4, SystemDumpIsADumpStore, PTL
          DEF ImplementsDumpStore, Store!Spec, Store!NoneGoesUnseen
=============================================================================
