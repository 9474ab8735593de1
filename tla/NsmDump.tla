------------------------------ MODULE NsmDump ------------------------------
(***************************************************************************)
(* nsm-net-dump-tool (nsm-net-dump-tool/main.cpp): it reads the debug      *)
(* information of a device from the NSM service over D-Bus, record by      *)
(* record, appends the records to a file and, for an NVSwitch, has the     *)
(* device erase what it saved.                                             *)
(*                                                                         *)
(* The NSM service is external.  It answers a request for the record of a  *)
(* handle later, in its Status property, and then gives the record in Fd   *)
(* and the handle of the record that follows in NextRecordHandle: handle 0 *)
(* asks for the first record, and is what follows the last one.  A call to *)
(* it may fail, and so may what it was asked for; it may name any handle   *)
(* for the one that follows, and the descriptor it gives need never end.   *)
(***************************************************************************)
EXTENDS Integers, Sequences

CONSTANTS
  Records,              \* how many records a device has
  MAX_ERROR_COUNT,      \* errors after which the tool gives up, of one record
  MAX_IN_PROGRESS_COUNT \* polls after which it does

ASSUME RecordsAssumption == Records \in Nat \ {0}
ASSUME CountsAssumption  == /\ MAX_ERROR_COUNT \in Nat \ {0}
                            /\ MAX_IN_PROGRESS_COUNT \in Nat \ {0}

VARIABLES
  function,       \* the function of the tool that runs
  pc,             \* where it is
  currentRecord,  \* the handle of the record it is at
  errorCounter,
  busyCounter,
  res,            \* its result so far
  res_dump,       \* what the tool exits with
  output,         \* the file each function writes: the records appended to it,
                  \* followed until a failure is hidden from the function
  unnoticed,      \* ghost: functions a failure was hidden from
  status,         \* the Status property
  info            \* the debug information the switch has saved

control == <<function, pc>>
loop    == <<currentRecord, errorCounter, busyCounter, res>>
device  == <<status, info>>
ghost   == <<output, unnoticed>>
vars    == <<control, loop, res_dump, ghost, device>>

Handles   == 0 .. Records           \* the last names no record of the device
Functions == {"getSwitchDump", "getLinkMgmtNICDump", "getLinkMgmtNICLog",
              "getGPUDump"}
OperationStatus == {"Success", "InProgress", "Error"}

FollowedBy(h) == IF h + 1 < Records THEN h + 1 ELSE 0
Whole         == [i \in 1 .. Records |-> i - 1]

-----------------------------------------------------------------------------
(* The NSM service, external *)

\* It has the record, or could not get it.
DeviceAnswers ==
  /\ status = "InProgress"
  /\ status' \in {"Success", "Error"}
  /\ UNCHANGED <<control, loop, res_dump, ghost, info>>

DeviceErases ==
  /\ info = "erasing"
  /\ info' = "erased"
  /\ UNCHANGED <<control, loop, res_dump, ghost, status>>

-----------------------------------------------------------------------------
(* The calls: what they return, and what they do to the service *)

sendRequestRecordCommand(r) ==
  \/ r = "Success" /\ status' = "InProgress"
  \/ r = "Error" /\ UNCHANGED status

\* A status that cannot be read counts as an error.
getRequestRecordCommandStatus(r) == r \in {status, "Error"}

sendSwitchEraseCommand(r) ==
  \/ r = "Success" /\ info' = IF info = "saved" THEN "erasing" ELSE info
  \/ r = "Error" /\ UNCHANGED info

getSwitchEraseStatus(r) ==
  \/ r = "Success" /\ info = "erased"
  \/ r = "InProgress" /\ info = "erasing"
  \/ r = "Error"

\* Mutant: a handle that cannot be read leaves the old one in place.
MutantKeepsHandle(h) ==
  /\ h \in {FollowedBy(currentRecord), currentRecord}
  /\ UNCHANGED unnoticed

\* Any handle is taken for what follows, and one that cannot be read for 0, the
\* end: that it is not the right one goes unnoticed.
getNextRecord(h) ==
  IF h = FollowedBy(currentRecord) THEN UNCHANGED unnoticed
  ELSE unnoticed' = unnoticed \cup {function}

-----------------------------------------------------------------------------
(* The loop every function has *)

Start(f) ==
  /\ function' = f
  /\ pc' = "request"
  /\ currentRecord' = 0
  /\ errorCounter' = 0
  /\ busyCounter' = 0
  /\ res' = "InProgress"

\* The counters start anew at every loop.
NextLoop(l) ==
  /\ pc' = l
  /\ errorCounter' = 0
  /\ busyCounter' = 0
  /\ res' = "InProgress"

\* Mutant: the polls are one too many.
MutantCountsPast(e, b, r) ==
  /\ errorCounter' = e
  /\ busyCounter' = b
  /\ IF e > MAX_ERROR_COUNT \/ b > MAX_IN_PROGRESS_COUNT
     THEN pc' = "end" /\ res' = r
     ELSE UNCHANGED <<pc, res>>

\* The loop is left when a counter has reached its maximum.
Count(e, b, r) ==
  /\ errorCounter' = e
  /\ busyCounter' = b
  /\ IF e = MAX_ERROR_COUNT \/ b = MAX_IN_PROGRESS_COUNT
     THEN pc' = "end" /\ res' = r
     ELSE UNCHANGED <<pc, res>>

\* Ask for the record of currentRecord.
RequestRecord ==
  /\ pc = "request"
  /\ \/ sendRequestRecordCommand("Success") /\ NextLoop("poll")
     \/ /\ sendRequestRecordCommand("Error")
        /\ Count(errorCounter + 1, busyCounter, "Error")
  /\ UNCHANGED <<function, currentRecord, res_dump, ghost, info>>

\* Poll until the device has it.
PollStatus ==
  /\ pc = "poll"
  /\ \/ getRequestRecordCommandStatus("Success") /\ NextLoop("save")
     \/ /\ getRequestRecordCommandStatus("Error")
        /\ Count(errorCounter + 1, busyCounter, "InProgress")
     \/ /\ getRequestRecordCommandStatus("InProgress")
        /\ Count(errorCounter, busyCounter + 1, "InProgress")
  /\ UNCHANGED <<function, currentRecord, res_dump, ghost, device>>

\* saveRecord gets the descriptor the record is read from, or fails.
SaveRecord ==
  /\ pc = "save"
  /\ pc' \in {"read", "end"}
  /\ UNCHANGED <<function, loop, res_dump, ghost, device>>

\* It reads from it until read() returns no more: the end of the record, or an
\* error, which is not told from it; nor is a failing write.
ReadRecord ==
  /\ pc = "read"
  /\ \/ /\ status = "Success" /\ function \notin unnoticed
        /\ output' = [output EXCEPT ![function] = Append(@, currentRecord)]
        /\ UNCHANGED unnoticed
     \/ unnoticed' = unnoticed \cup {function} /\ UNCHANGED output
  /\ pc' = "next"
  /\ res' = "Success"
  /\ UNCHANGED <<function, currentRecord, errorCounter, busyCounter, res_dump,
                 device>>

\* Go to the record that follows.
NextRecord ==
  /\ pc = "next"
  /\ \E h \in Handles :
       /\ getNextRecord(h)
       /\ currentRecord' = h
       /\ IF h = 0 THEN pc' = "end" /\ UNCHANGED <<errorCounter, busyCounter, res>>
                   ELSE NextLoop("request")
  /\ UNCHANGED <<function, res_dump, output, device>>

RecordLoop == RequestRecord \/ PollStatus \/ SaveRecord \/ NextRecord

\* A function returns to main, which returns its result.
Return ==
  /\ pc' = "exited"
  /\ res_dump' = res
  /\ UNCHANGED <<function, loop, ghost, device>>

-----------------------------------------------------------------------------
(* The functions *)

\* Mutant: the switch is erased whatever the result.
MutantErasesAnyway ==
  /\ pc = "end"
  /\ NextLoop("erase")
  /\ UNCHANGED <<function, currentRecord, res_dump, ghost, device>>

\* What was read whole is erased.
StartErase ==
  /\ pc = "end"
  /\ res = "Success"
  /\ NextLoop("erase")
  /\ UNCHANGED <<function, currentRecord, res_dump, ghost, device>>

\* Has a counter of the erase loop, or its result, ended it?
Erasing ==
  /\ res # "Success"
  /\ errorCounter < MAX_ERROR_COUNT
  /\ busyCounter < MAX_IN_PROGRESS_COUNT

\* The command is sent again before every look at its status.
SendErase ==
  /\ pc = "erase" /\ Erasing
  /\ \/ /\ sendSwitchEraseCommand("Success")
        /\ pc' = "eraseStatus"
        /\ UNCHANGED <<errorCounter, res>>
     \/ /\ sendSwitchEraseCommand("Error")
        /\ errorCounter' = errorCounter + 1
        /\ res' = "Error"
        /\ UNCHANGED pc
  /\ UNCHANGED <<function, currentRecord, busyCounter, res_dump, ghost, status>>

\* Mutant: a device that is busy erasing is not counted.
MutantErasesForever ==
  /\ pc = "eraseStatus"
  /\ \E r \in OperationStatus :
       /\ getSwitchEraseStatus(r)
       /\ res' = r
       /\ errorCounter' = errorCounter + (IF r = "Error" THEN 1 ELSE 0)
  /\ pc' = "erase"
  /\ UNCHANGED <<function, currentRecord, busyCounter, res_dump, ghost, device>>

EraseStatus ==
  /\ pc = "eraseStatus"
  /\ \E r \in OperationStatus :
       /\ getSwitchEraseStatus(r)
       /\ res' = r
       /\ errorCounter' = errorCounter + (IF r = "Error" THEN 1 ELSE 0)
       /\ busyCounter' = busyCounter + (IF r = "InProgress" THEN 1 ELSE 0)
  /\ pc' = "erase"
  /\ UNCHANGED <<function, currentRecord, res_dump, ghost, device>>

SwitchErased ==
  /\ pc = "erase" /\ ~Erasing
  /\ Return

getSwitchDump ==
  /\ function = "getSwitchDump"
  /\ \/ RecordLoop
     \/ StartErase
     \/ SendErase
     \/ EraseStatus
     \/ SwitchErased
     \/ pc = "end" /\ res # "Success" /\ Return

\* main keeps the result of the dump and goes on to the log.
getLinkMgmtNICDump ==
  /\ function = "getLinkMgmtNICDump"
  /\ \/ RecordLoop
     \/ /\ pc = "end"
        /\ res_dump' = res
        /\ Start("getLinkMgmtNICLog")
        /\ UNCHANGED <<ghost, device>>

\* Mutant: the log's result is what the tool exits with.
MutantExitsWithLog ==
  /\ function = "getLinkMgmtNICLog"
  /\ RecordLoop \/ (pc = "end" /\ Return)

\* The log's own result is dropped.
getLinkMgmtNICLog ==
  /\ function = "getLinkMgmtNICLog"
  /\ \/ RecordLoop
     \/ /\ pc = "end"
        /\ pc' = "exited"
        /\ UNCHANGED <<function, loop, res_dump, ghost, device>>

getGPUDump ==
  /\ function = "getGPUDump"
  /\ RecordLoop \/ (pc = "end" /\ Return)

\* The target names a switch, the NIC, a GPU, or nothing the tool knows.
main ==
  /\ pc = "main"
  /\ \/ \E f \in Functions \ {"getLinkMgmtNICLog"} : Start(f)
     \/ pc' = "exited" /\ UNCHANGED <<function, loop>>
  /\ UNCHANGED <<res_dump, ghost, device>>

-----------------------------------------------------------------------------
Init ==
  /\ function = "main"
  /\ pc = "main"
  /\ currentRecord = 0
  /\ errorCounter = 0
  /\ busyCounter = 0
  /\ res = "InProgress"
  /\ res_dump = "Error"
  /\ output = [f \in Functions |-> <<>>]
  /\ unnoticed = {}
  /\ status = "Error"
  /\ info = "saved"

Tool ==
  \/ main
  \/ getSwitchDump
  \/ getLinkMgmtNICDump
  \/ getLinkMgmtNICLog
  \/ getGPUDump

Next == Tool \/ ReadRecord \/ DeviceAnswers \/ DeviceErases

Spec == Init /\ [][Next]_vars

\* An assumption about the device: what it gives to read ends.  Nothing in the
\* tool bounds it.
DescriptorsEnd == WF_vars(ReadRecord)

\* Every call returns, if only because D-Bus gives it up; that the device
\* answers what it was asked for is not assumed.
FairSpec == Spec /\ WF_vars(Tool) /\ DescriptorsEnd

-----------------------------------------------------------------------------
(* Properties *)

TypeOK ==
  /\ function \in Functions \cup {"main"}
  /\ pc \in {"main", "request", "poll", "save", "read", "next", "end",
             "erase", "eraseStatus", "exited"}
  /\ currentRecord \in Handles
  /\ errorCounter \in 0 .. MAX_ERROR_COUNT
  /\ busyCounter \in 0 .. MAX_IN_PROGRESS_COUNT
  /\ res \in OperationStatus
  /\ res_dump \in OperationStatus
  /\ output \in [Functions -> Seq(Handles)]
  /\ unnoticed \subseteq Functions
  /\ status \in OperationStatus
  /\ info \in {"saved", "erasing", "erased"}

Saved(f) == f \in unnoticed \/ output[f] = Whole

\* However its calls fail and are repeated, the tool asks a switch to erase its
\* debug information (main.cpp:645) only when every record of it is in the
\* file - or when the failure was one it cannot notice: a handle it could not
\* read, or a wrong one, a record cut short.
ErasedOnlyIfSaved == info # "saved" => Saved("getSwitchDump")

\* An exit status of 0 means a whole dump and, of a switch, that the device
\* says it has erased it; the NIC's log must not change what its dump came to.
SuccessMeansSaved ==
  (pc = "exited" /\ res_dump = "Success") =>
    CASE function = "getSwitchDump"     -> /\ Saved("getSwitchDump")
                                           /\ info = "erased"
      [] function = "getLinkMgmtNICLog" -> Saved("getLinkMgmtNICDump")
      [] function = "getGPUDump"        -> Saved("getGPUDump")
      [] OTHER                          -> FALSE

\* What is in a file is the first records of the device, each once and in
\* order: the file is only appended to (main.cpp:439), so that a record asked
\* for again after it was saved would be in it twice.
OutputInOrder ==
  \A f \in Functions \ unnoticed :
    /\ Len(output[f]) <= Records
    /\ \A i \in DOMAIN output[f] : output[f][i] = i - 1

\* The device names for the next record one that is neither that nor the end.
MisleadingHandle ==
  NextRecord /\ currentRecord' \notin {0, FollowedBy(currentRecord)}

\* The tool ends, however its calls fail, and though the device never answers or
\* is busy for ever - unless the device leads it from record to record for ever
\* (main.cpp:634 stops at handle 0 only) or never ends a record (:441).
Terminates == <>(pc = "exited") \/ []<><<MisleadingHandle>>_vars
=============================================================================
