--------------------------- MODULE NsmDumpProofs ---------------------------
(***************************************************************************)
(* Proofs about NsmDump, for every number of records and every limit of    *)
(* the counters.  The invariant Inv says, for every place the tool can be  *)
(* at, how many records its file has then: as many as the handle it is at. *)
(***************************************************************************)
EXTENDS NsmDump, TLAPS

FirstRecords(s) ==
  /\ Len(s) <= Records
  /\ \A i \in DOMAIN s : s[i] = i - 1

\* The functions that run, or have run.
Started ==
  IF function = "getLinkMgmtNICLog"
  THEN {"getLinkMgmtNICDump", "getLinkMgmtNICLog"}
  ELSE {function} \cap Functions

\* What the file of the function that runs has.
Progress ==
  LET saved == Len(output[function])
  IN  /\ pc \in {"request", "poll", "save", "read"} => saved = currentRecord
      /\ pc = "next" => saved = currentRecord + 1
      /\ pc \in {"request", "poll", "save", "read", "next"} =>
           currentRecord < Records
      /\ pc = "end" /\ res = "Success" => saved = Records

FilesInv ==
  /\ \A f \in Functions \ unnoticed :
       FirstRecords(output[f]) /\ (f \notin Started => output[f] = <<>>)
  /\ function \in Functions \ unnoticed => Progress

PlaceInv ==
  /\ function = "main" => pc \in {"main", "exited"}
  /\ pc = "main" => function = "main"
  /\ function = "getLinkMgmtNICDump" => pc # "exited"
  /\ function \in {"main", "getLinkMgmtNICDump"} => res_dump = "Error"
  /\ pc \in {"save", "read"} => res = "InProgress"

CountInv ==
  pc \in {"request", "poll", "eraseStatus"} =>
    errorCounter < MAX_ERROR_COUNT /\ busyCounter < MAX_IN_PROGRESS_COUNT

EraseInv ==
  /\ pc \in {"erase", "eraseStatus"} =>
       function = "getSwitchDump" /\ Saved("getSwitchDump")
  /\ info # "saved" =>
       /\ function = "getSwitchDump" /\ Saved("getSwitchDump")
       /\ pc \in {"erase", "eraseStatus", "exited"}
  /\ pc = "erase" /\ res = "Success" => info = "erased"

ResultInv ==
  res_dump = "Success" =>
    /\ function = "getLinkMgmtNICLog" => Saved("getLinkMgmtNICDump")
    /\ pc = "exited" /\ function = "getSwitchDump" =>
         Saved("getSwitchDump") /\ info = "erased"
    /\ pc = "exited" /\ function = "getGPUDump" => Saved("getGPUDump")

Inv ==
  /\ TypeOK
  /\ PlaceInv
  /\ CountInv
  /\ FilesInv
  /\ EraseInv
  /\ ResultInv

-----------------------------------------------------------------------------
(* What the files come to *)

USE DEF Handles, Functions, OperationStatus

\* Appending the record that is next keeps a file in order.
LEMMA AppendsRecord ==
  ASSUME NEW s \in Seq(Handles), FirstRecords(s), Len(s) < Records
  PROVE  /\ FirstRecords(Append(s, Len(s)))
         /\ Len(Append(s, Len(s))) = Len(s) + 1
  BY RecordsAssumption DEF FirstRecords

\* A file in order that has as many records as the device is whole.
LEMMA AllRecordsAreWhole ==
  ASSUME NEW s \in Seq(Handles), FirstRecords(s), Len(s) = Records
  PROVE  s = Whole
<1>1. /\ s = [i \in 1 .. Len(s) |-> s[i]]
      /\ DOMAIN s = 1 .. Len(s)
  OBVIOUS
<1> QED
  BY <1>1 DEF FirstRecords, Whole

LEMMA WholeIsInOrder == Whole \in Seq(Handles) /\ Len(Whole) = Records
  BY RecordsAssumption DEF Whole

\* At the end of a loop that succeeded the file is whole, as far as one can
\* notice.
LEMMA EndIsSaved ==
  ASSUME TypeOK, FilesInv, function \in Functions, pc = "end", res = "Success"
  PROVE  Saved(function)
<1>1. CASE function \in unnoticed
  BY <1>1 DEF Saved
<1>2. CASE function \notin unnoticed
  <2>1. FirstRecords(output[function]) /\ Len(output[function]) = Records
    BY <1>2 DEF FilesInv, Progress
  <2>2. output[function] = Whole
    BY <2>1, AllRecordsAreWhole DEF TypeOK
  <2> QED
    BY <2>2 DEF Saved
<1> QED
  BY <1>1, <1>2

-----------------------------------------------------------------------------
(* Every step keeps the invariant *)

LEMMA InitInv == Init => Inv
<1> SUFFICES ASSUME Init PROVE Inv
  OBVIOUS
<1>1. TypeOK
  BY RecordsAssumption, CountsAssumption DEF Init, TypeOK
<1>2. FilesInv
  <2>1. \A f \in Functions : output[f] = <<>>
    BY DEF Init
  <2>2. FirstRecords(<<>>)
    BY RecordsAssumption DEF FirstRecords
  <2> QED
    BY <2>1, <2>2 DEF FilesInv, Progress, Init
<1>3. PlaceInv /\ CountInv /\ EraseInv /\ ResultInv
  BY DEF Init, PlaceInv, CountInv, EraseInv, ResultInv
<1> QED
  BY <1>1, <1>2, <1>3 DEF Inv

\* The steps that append to no file, and hide no failure: what is left to show
\* of the files is how many records the one of the function that runs has.
LEMMA SameFiles ==
  ASSUME Inv, UNCHANGED ghost, Started \subseteq Started',
         function' \in Functions \ unnoticed' => Progress'
  PROVE  FilesInv'
  BY DEF Inv, FilesInv, FirstRecords, ghost

LEMMA StartStep ==
  ASSUME Inv, NEW f \in Functions, f \notin Started, Start(f),
         Started \subseteq Started', UNCHANGED <<ghost, device>>,
         pc # "eraseStatus", pc # "erase", info = "saved",
         res_dump' \in OperationStatus,
         f = "getLinkMgmtNICDump" => res_dump' = "Error",
         f = "getLinkMgmtNICLog" /\ res_dump' = "Success" =>
           Saved("getLinkMgmtNICDump")
  PROVE  Inv'
<1>1. /\ function' = f /\ pc' = "request" /\ currentRecord' = 0
      /\ errorCounter' = 0 /\ busyCounter' = 0 /\ res' = "InProgress"
      /\ output' = output /\ unnoticed' = unnoticed
      /\ status' = status /\ info' = info
  BY DEF Start, ghost, device
<1>2. TypeOK'
  BY <1>1, RecordsAssumption, CountsAssumption DEF Inv, TypeOK
<1>3. PlaceInv' /\ EraseInv'
  BY <1>1 DEF PlaceInv, EraseInv
<1>4. CountInv'
  BY <1>1, CountsAssumption DEF CountInv
<1>5. FilesInv'
  <2>1. function' \in Functions \ unnoticed' => Progress'
    BY <1>1, RecordsAssumption DEF Progress, Inv, FilesInv
  <2> QED
    BY <2>1, SameFiles
<1>6. ResultInv'
  BY <1>1 DEF ResultInv, Saved
<1> QED
  BY <1>2, <1>3, <1>4, <1>5, <1>6 DEF Inv

LEMMA MainStep == Inv /\ main => Inv'
<1> SUFFICES ASSUME Inv, main PROVE Inv'
  OBVIOUS
<1>1. /\ pc = "main" /\ function = "main"
      /\ res_dump = "Error" /\ info = "saved"
      /\ UNCHANGED <<res_dump, ghost, device>>
  BY DEF main, Inv, PlaceInv, EraseInv
<1>2. CASE \E f \in Functions \ {"getLinkMgmtNICLog"} : Start(f)
  <2>1. PICK f \in Functions \ {"getLinkMgmtNICLog"} : Start(f)
    BY <1>2
  <2>2. Started = {}
    BY <1>1 DEF Started
  <2> QED
    BY <1>1, <2>1, <2>2, StartStep
<1>3. CASE pc' = "exited" /\ UNCHANGED <<function, loop>>
  <2>1. TypeOK' /\ PlaceInv' /\ CountInv' /\ EraseInv' /\ ResultInv'
    BY <1>1, <1>3 DEF Inv, TypeOK, PlaceInv, CountInv, EraseInv, ResultInv,
                      Saved, loop, ghost, device
  <2>2. FilesInv'
    BY <1>1, <1>3 DEF Inv, FilesInv, Started, FirstRecords, loop, ghost, device
  <2> QED
    BY <2>1, <2>2 DEF Inv
<1> QED
  BY <1>2, <1>3 DEF main

\* The steps of the loop, whose function and result stay: an append is of the
\* record that is next, and the rest is the place and the counters.
LEMMA LoopStep ==
  ASSUME Inv, function \in Functions,
         pc \in {"request", "poll", "save", "read", "next"},
         pc' \in {"request", "poll", "save", "read", "next", "end"},
         UNCHANGED <<function, res_dump, info>>,
         unnoticed \subseteq unnoticed',
         \A f \in Functions \ {function} : output'[f] = output[f],
         TypeOK', CountInv', FilesInv',
         pc' \in {"save", "read"} => res' = "InProgress"
  PROVE  Inv'
<1>1. /\ function' = function /\ res_dump' = res_dump /\ info' = info
      /\ \A f \in Functions \ {function} : Saved(f) => Saved(f)'
  BY DEF Saved
<1>2. PlaceInv'
  BY <1>1 DEF Inv, PlaceInv
<1>3. info = "saved"
  BY DEF Inv, EraseInv
<1>4. EraseInv'
  BY <1>1, <1>3 DEF EraseInv
<1>5. ResultInv'
  BY <1>1 DEF Inv, ResultInv
<1> QED
  BY <1>2, <1>4, <1>5 DEF Inv

LEMMA RequestRecordStep ==
  Inv /\ function \in Functions /\ RequestRecord => Inv'
<1> SUFFICES ASSUME Inv, function \in Functions, RequestRecord PROVE Inv'
  OBVIOUS
<1> USE CountsAssumption
<1>1. /\ pc = "request" /\ pc' \in {"request", "poll", "end"}
      /\ UNCHANGED <<function, currentRecord, res_dump, info>>
      /\ UNCHANGED <<output, unnoticed>>
      /\ pc' = "end" => res' # "Success"
  BY DEF RequestRecord, NextLoop, Count, ghost
<1>2. TypeOK' /\ CountInv'
  BY DEF RequestRecord, NextLoop, Count, sendRequestRecordCommand, Inv, TypeOK,
         CountInv, ghost
<1>3. FilesInv'
  <2>1. function' \in Functions \ unnoticed' => Progress'
    BY <1>1 DEF Inv, FilesInv, Progress
  <2> QED
    BY <1>1, <2>1, SameFiles DEF ghost, Started
<1> QED
  BY <1>1, <1>2, <1>3, LoopStep

LEMMA PollStatusStep ==
  Inv /\ function \in Functions /\ PollStatus => Inv'
<1> SUFFICES ASSUME Inv, function \in Functions, PollStatus PROVE Inv'
  OBVIOUS
<1> USE CountsAssumption
<1>1. /\ pc = "poll" /\ pc' \in {"poll", "save", "end"}
      /\ UNCHANGED <<function, currentRecord, res_dump, status, info>>
      /\ UNCHANGED <<output, unnoticed>>
      /\ pc' \in {"save", "end"} => res' = "InProgress"
  BY DEF PollStatus, NextLoop, Count, ghost, device
<1>2. TypeOK' /\ CountInv'
  BY DEF PollStatus, NextLoop, Count, Inv, TypeOK, CountInv, ghost, device
<1>3. FilesInv'
  <2>1. function' \in Functions \ unnoticed' => Progress'
    BY <1>1 DEF Inv, FilesInv, Progress
  <2> QED
    BY <1>1, <2>1, SameFiles DEF ghost, Started
<1> QED
  BY <1>1, <1>2, <1>3, LoopStep

LEMMA SaveRecordStep ==
  Inv /\ function \in Functions /\ SaveRecord => Inv'
<1> SUFFICES ASSUME Inv, function \in Functions, SaveRecord PROVE Inv'
  OBVIOUS
<1>1. /\ pc = "save" /\ res = "InProgress"
      /\ pc' \in {"read", "end"}
      /\ UNCHANGED <<function, currentRecord, errorCounter, busyCounter, res,
                     res_dump, output, unnoticed, status, info>>
  BY DEF SaveRecord, Inv, PlaceInv, device, loop, ghost
<1>2. TypeOK' /\ CountInv'
  BY <1>1 DEF Inv, TypeOK, CountInv
<1>3. FilesInv'
  <2>1. function' \in Functions \ unnoticed' => Progress'
    BY <1>1 DEF Inv, FilesInv, Progress
  <2> QED
    BY <1>1, <2>1, SameFiles DEF Started, ghost
<1> QED
  BY <1>1, <1>2, <1>3, LoopStep

LEMMA ReadRecordStep ==
  Inv /\ function \in Functions /\ ReadRecord => Inv'
<1> SUFFICES ASSUME Inv, function \in Functions, ReadRecord PROVE Inv'
  OBVIOUS
<1>1. /\ pc = "read" /\ pc' = "next" /\ res' = "Success"
      /\ UNCHANGED <<function, currentRecord, errorCounter, busyCounter,
                     res_dump, status, info>>
      /\ output \in [Functions -> Seq(Handles)]
      /\ currentRecord \in Handles
  BY DEF ReadRecord, Inv, TypeOK, device
<1>2. CASE /\ function \notin unnoticed
           /\ output' = [output EXCEPT ![function] = Append(@, currentRecord)]
           /\ UNCHANGED unnoticed
  <2>1. output'[function] = Append(output[function], currentRecord)
    BY <1>1, <1>2
  <2>2. /\ output' \in [Functions -> Seq(Handles)]
        /\ \A f \in Functions \ {function} : output'[f] = output[f]
    BY <1>1, <1>2
  <2>3. TypeOK' /\ CountInv'
    BY <1>1, <1>2, <2>2 DEF Inv, TypeOK, CountInv
  <2>4. /\ FirstRecords(output[function])
        /\ Len(output[function]) = currentRecord /\ currentRecord < Records
    BY <1>1, <1>2 DEF Inv, FilesInv, Progress
  <2>5. /\ FirstRecords(output'[function])
        /\ Len(output'[function]) = currentRecord + 1
    BY <1>1, <2>1, <2>4, AppendsRecord
  <2>6. FilesInv'
    <3>1. Started' = Started /\ function \in Started
      BY <1>1 DEF Started
    <3>2. Progress'
      BY <1>1, <2>4, <2>5 DEF Progress
    <3> QED
      BY <1>1, <1>2, <2>2, <2>5, <3>1, <3>2 DEF Inv, FilesInv, FirstRecords
  <2> QED
    BY <1>1, <1>2, <2>2, <2>3, <2>6, LoopStep
<1>3. CASE unnoticed' = unnoticed \cup {function} /\ UNCHANGED output
  <2>1. TypeOK' /\ CountInv'
    BY <1>1, <1>3 DEF Inv, TypeOK, CountInv
  <2>2. FilesInv'
    <3>1. Started' = Started
      BY <1>1 DEF Started
    <3> QED
      BY <1>1, <1>3, <3>1 DEF Inv, FilesInv, FirstRecords
  <2> QED
    BY <1>1, <1>3, <2>1, <2>2, LoopStep
<1> QED
  BY <1>2, <1>3 DEF ReadRecord

LEMMA NextRecordStep ==
  Inv /\ function \in Functions /\ NextRecord => Inv'
<1> SUFFICES ASSUME Inv, function \in Functions, NextRecord PROVE Inv'
  OBVIOUS
<1>1. /\ pc = "next"
      /\ UNCHANGED <<function, res_dump, output, status, info>>
  BY DEF NextRecord, device
<1>2. PICK h \in Handles :
        /\ getNextRecord(h)
        /\ currentRecord' = h
        /\ IF h = 0 THEN pc' = "end" /\ UNCHANGED <<errorCounter, busyCounter, res>>
                    ELSE NextLoop("request")
  BY DEF NextRecord
<1>3. TypeOK' /\ CountInv'
  <2>1. unnoticed' \subseteq Functions
    BY <1>2 DEF Inv, TypeOK, getNextRecord
  <2>2. CASE h = 0
    BY <1>1, <1>2, <2>1, <2>2 DEF Inv, TypeOK, CountInv
  <2>3. CASE h # 0
    BY <1>1, <1>2, <2>1, <2>3, CountsAssumption DEF Inv, TypeOK, CountInv, NextLoop
  <2> QED
    BY <2>2, <2>3
<1>4. FilesInv'
  <2>1. CASE h # FollowedBy(currentRecord)
    <3>1. unnoticed' = unnoticed \cup {function}
      BY <1>2, <2>1 DEF getNextRecord
    <3> QED
      BY <1>1, <3>1 DEF Inv, FilesInv, FirstRecords, Started
  <2>2. CASE h = FollowedBy(currentRecord)
    <3>0. UNCHANGED unnoticed
      BY <1>2, <2>2 DEF getNextRecord
    <3>1. ASSUME function \notin unnoticed PROVE Progress'
      <4>1. Len(output[function]) = currentRecord + 1 /\ currentRecord < Records
        BY <1>1, <3>1 DEF Inv, FilesInv, Progress
      <4>2. currentRecord \in 0 .. Records
        BY DEF Inv, TypeOK
      <4>3. CASE currentRecord + 1 < Records
        <5>1. h = currentRecord + 1 /\ h # 0
          BY <2>2, <4>2, <4>3, RecordsAssumption DEF FollowedBy
        <5> QED
          BY <1>1, <1>2, <4>1, <4>3, <5>1 DEF Progress, NextLoop
      <4>4. CASE ~(currentRecord + 1 < Records)
        <5>1. h = 0 /\ currentRecord + 1 = Records
          BY <2>2, <4>1, <4>2, <4>4, RecordsAssumption DEF FollowedBy
        <5> QED
          BY <1>1, <1>2, <4>1, <5>1 DEF Progress
      <4> QED
        BY <4>3, <4>4
    <3> QED
      BY <1>1, <3>0, <3>1, SameFiles DEF ghost, Started
  <2> QED
    BY <2>1, <2>2
<1> QED
  <2>1. pc' \in {"request", "end"} /\ unnoticed \subseteq unnoticed'
    BY <1>2 DEF NextLoop, getNextRecord
  <2> QED
    BY <1>1, <1>3, <1>4, <2>1, LoopStep

LEMMA RecordLoopStep ==
  Inv /\ function \in Functions /\ RecordLoop => Inv'
  BY RequestRecordStep, PollStatusStep, SaveRecordStep, NextRecordStep
     DEF RecordLoop
\* The erase loop: only the place, the counters, the result and what the device
\* has change.
LEMMA EraseLoopStep ==
  ASSUME Inv, function = "getSwitchDump", Saved("getSwitchDump"),
         UNCHANGED <<function, res_dump, ghost>>,
         pc # "exited", pc' \in {"erase", "eraseStatus"},
         TypeOK', CountInv', pc' = "erase" /\ res' = "Success" => info' = "erased"
  PROVE  Inv'
<1>1. UNCHANGED <<output, unnoticed>> /\ Saved("getSwitchDump")'
  BY DEF ghost, Saved
<1>2. FilesInv'
  BY SameFiles DEF Progress, Started
<1>3. PlaceInv' /\ EraseInv' /\ ResultInv'
  BY <1>1 DEF Inv, PlaceInv, EraseInv, ResultInv
<1> QED
  BY <1>2, <1>3 DEF Inv

LEMMA StartEraseStep ==
  Inv /\ function = "getSwitchDump" /\ StartErase => Inv'
<1> SUFFICES ASSUME Inv, function = "getSwitchDump", StartErase PROVE Inv'
  OBVIOUS
<1>1. Saved("getSwitchDump")
  BY EndIsSaved DEF StartErase, Inv
<1>2. TypeOK' /\ CountInv'
  BY CountsAssumption
     DEF Inv, TypeOK, CountInv, StartErase, NextLoop, ghost, device
<1> QED
  BY <1>1, <1>2, EraseLoopStep DEF StartErase, NextLoop

LEMMA SendEraseStep ==
  Inv /\ function = "getSwitchDump" /\ SendErase => Inv'
<1> SUFFICES ASSUME Inv, function = "getSwitchDump", SendErase PROVE Inv'
  OBVIOUS
<1>1. Saved("getSwitchDump")
  BY DEF SendErase, Inv, EraseInv
<1>2. TypeOK' /\ CountInv'
  BY CountsAssumption
     DEF Inv, TypeOK, CountInv, SendErase, Erasing, sendSwitchEraseCommand, ghost
<1>3. pc' \in {"erase", "eraseStatus"} /\ (pc' = "erase" => res' # "Success")
  BY DEF SendErase
<1> QED
  BY <1>1, <1>2, <1>3, EraseLoopStep DEF SendErase

LEMMA EraseStatusStep ==
  Inv /\ function = "getSwitchDump" /\ EraseStatus => Inv'
<1> SUFFICES ASSUME Inv, function = "getSwitchDump", EraseStatus PROVE Inv'
  OBVIOUS
<1>1. Saved("getSwitchDump")
  BY DEF EraseStatus, Inv, EraseInv
<1>2. PICK r \in OperationStatus :
        /\ getSwitchEraseStatus(r)
        /\ res' = r
        /\ errorCounter' = errorCounter + (IF r = "Error" THEN 1 ELSE 0)
        /\ busyCounter' = busyCounter + (IF r = "InProgress" THEN 1 ELSE 0)
  BY DEF EraseStatus
<1>3. TypeOK' /\ CountInv'
  BY <1>2, CountsAssumption
     DEF Inv, TypeOK, CountInv, EraseStatus, ghost, device
<1>4. res' = "Success" => info' = "erased"
  BY <1>2 DEF EraseStatus, getSwitchEraseStatus, device
<1> QED
  BY <1>1, <1>3, <1>4, EraseLoopStep DEF EraseStatus

\* A function returns to main: its result is that of the tool.
LEMMA ReturnStep ==
  ASSUME Inv, Return, function \in {"getSwitchDump", "getGPUDump"},
         function = "getSwitchDump" /\ res = "Success" =>
           Saved("getSwitchDump") /\ info = "erased",
         function = "getGPUDump" /\ res = "Success" => Saved("getGPUDump")
  PROVE  Inv'
<1>1. /\ UNCHANGED <<function, res, currentRecord, errorCounter, busyCounter,
                     output, unnoticed, status, info>>
      /\ pc' = "exited" /\ res_dump' = res
  BY DEF Return, loop, ghost, device
<1>2. TypeOK' /\ PlaceInv' /\ CountInv'
  BY <1>1 DEF Inv, TypeOK, PlaceInv, CountInv
<1>3. FilesInv'
  <2>1. Progress'
    BY <1>1 DEF Progress
  <2> QED
    BY <1>1, <2>1, SameFiles DEF ghost, Started
<1>4. EraseInv' /\ ResultInv'
  BY <1>1 DEF Inv, EraseInv, ResultInv, Saved
<1> QED
  BY <1>2, <1>3, <1>4 DEF Inv

LEMMA SwitchStep == Inv /\ getSwitchDump => Inv'
<1> SUFFICES ASSUME Inv, getSwitchDump PROVE Inv'
  OBVIOUS
<1>1. function = "getSwitchDump" /\ function \in Functions
  BY DEF getSwitchDump
<1>2. CASE RecordLoop
  BY <1>1, <1>2, RecordLoopStep
<1>3. CASE StartErase \/ SendErase \/ EraseStatus
  BY <1>1, <1>3, StartEraseStep, SendEraseStep, EraseStatusStep
<1>4. CASE SwitchErased
  <2>1. Return /\ Saved("getSwitchDump") /\ (res = "Success" => info = "erased")
    BY <1>4 DEF SwitchErased, Inv, EraseInv
  <2> QED
    BY <1>1, <2>1, ReturnStep
<1>5. CASE pc = "end" /\ res # "Success" /\ Return
  BY <1>1, <1>5, ReturnStep
<1> QED
  BY <1>2, <1>3, <1>4, <1>5 DEF getSwitchDump

LEMMA NICDumpStep == Inv /\ getLinkMgmtNICDump => Inv'
<1> SUFFICES ASSUME Inv, getLinkMgmtNICDump PROVE Inv'
  OBVIOUS
<1>1. function = "getLinkMgmtNICDump" /\ function \in Functions
  BY DEF getLinkMgmtNICDump
<1>2. CASE RecordLoop
  BY <1>1, <1>2, RecordLoopStep
<1>3. CASE /\ pc = "end" /\ res_dump' = res
           /\ Start("getLinkMgmtNICLog")
           /\ UNCHANGED <<ghost, device>>
  <2>1. res = "Success" => Saved("getLinkMgmtNICDump")
    BY <1>1, <1>3, EndIsSaved DEF Inv
  <2>2. /\ function' = "getLinkMgmtNICLog"
        /\ Started = {"getLinkMgmtNICDump"}
        /\ Started \subseteq Started'
    BY <1>1, <1>3 DEF Start, Started
  <2>3. info = "saved" /\ res \in OperationStatus
    BY <1>1 DEF Inv, TypeOK, EraseInv
  <2> QED
    BY <1>1, <1>3, <2>1, <2>2, <2>3, StartStep
<1> QED
  BY <1>2, <1>3 DEF getLinkMgmtNICDump

LEMMA NICLogStep == Inv /\ getLinkMgmtNICLog => Inv'
<1> SUFFICES ASSUME Inv, getLinkMgmtNICLog PROVE Inv'
  OBVIOUS
<1>1. function = "getLinkMgmtNICLog" /\ function \in Functions
  BY DEF getLinkMgmtNICLog
<1>2. CASE RecordLoop
  BY <1>1, <1>2, RecordLoopStep
<1>3. CASE /\ pc = "end" /\ pc' = "exited"
           /\ UNCHANGED <<function, loop, res_dump, ghost, device>>
  <2>1. TypeOK' /\ PlaceInv' /\ CountInv' /\ EraseInv' /\ ResultInv'
    BY <1>1, <1>3 DEF Inv, TypeOK, PlaceInv, CountInv, EraseInv, ResultInv, Saved,
                      loop, ghost, device
  <2>2. FilesInv'
    BY <1>1, <1>3, SameFiles DEF Progress, Started
  <2> QED
    BY <2>1, <2>2 DEF Inv
<1> QED
  BY <1>2, <1>3 DEF getLinkMgmtNICLog

LEMMA GPUStep == Inv /\ getGPUDump => Inv'
<1> SUFFICES ASSUME Inv, getGPUDump PROVE Inv'
  OBVIOUS
<1>1. function = "getGPUDump" /\ function \in Functions
  BY DEF getGPUDump
<1>2. CASE RecordLoop
  BY <1>1, <1>2, RecordLoopStep
<1>3. CASE pc = "end" /\ Return
  <2>1. res = "Success" => Saved("getGPUDump")
    BY <1>1, <1>3, EndIsSaved DEF Inv
  <2> QED
    BY <1>1, <1>3, <2>1, ReturnStep
<1> QED
  BY <1>2, <1>3 DEF getGPUDump

LEMMA DeviceStep == Inv /\ (DeviceAnswers \/ DeviceErases) => Inv'
<1> SUFFICES ASSUME Inv, DeviceAnswers \/ DeviceErases PROVE Inv'
  OBVIOUS
<1>1. /\ UNCHANGED <<function, pc, currentRecord, errorCounter, busyCounter, res,
                     res_dump, output, unnoticed>>
      /\ status' \in OperationStatus
      /\ info' \in {"saved", "erasing", "erased"}
      /\ info' # "saved" => info # "saved"
      /\ info = "erased" => info' = "erased"
  BY DEF Inv, TypeOK, DeviceAnswers, DeviceErases, control, loop, ghost
<1>2. TypeOK' /\ PlaceInv' /\ CountInv' /\ EraseInv' /\ ResultInv'
  BY <1>1 DEF Inv, TypeOK, PlaceInv, CountInv, EraseInv, ResultInv, Saved
<1>3. FilesInv'
  BY <1>1, SameFiles DEF Progress, Started, ghost, Inv, FilesInv
<1> QED
  BY <1>2, <1>3 DEF Inv

LEMMA NextInv == Inv /\ [Next]_vars => Inv'
<1> SUFFICES ASSUME Inv, [Next]_vars PROVE Inv'
  OBVIOUS
<1>1. CASE Tool
  BY <1>1, MainStep, SwitchStep, NICDumpStep, NICLogStep, GPUStep DEF Tool
<1>4. CASE ReadRecord
  <2>1. function \in Functions
    BY <1>4 DEF ReadRecord, Inv, TypeOK, PlaceInv
  <2> QED
    BY <1>4, <2>1, ReadRecordStep
<1>2. CASE DeviceAnswers \/ DeviceErases
  BY <1>2, DeviceStep
<1>3. CASE UNCHANGED vars
  <2>1. TypeOK' /\ PlaceInv' /\ CountInv' /\ EraseInv' /\ ResultInv'
    BY <1>3 DEF vars, control, loop, ghost, device, Inv, TypeOK, PlaceInv, CountInv,
                EraseInv, ResultInv, Saved
  <2>2. FilesInv'
    BY <1>3, SameFiles DEF vars, control, loop, ghost, device, Progress, Started,
                           Inv, FilesInv
  <2> QED
    BY <2>1, <2>2 DEF Inv
<1> QED
  BY <1>1, <1>2, <1>3, <1>4 DEF Next

\* The strengthened invariant holds of every behaviour: at every place in the
\* loops the file has as many records as the handle counts.
THEOREM InvHolds == Spec => []Inv
<1>1. Init => Inv
  BY InitInv
<1>2. Inv /\ [Next]_vars => Inv'
  BY NextInv
<1> QED
  BY <1>1, <1>2, PTL DEF Spec

-----------------------------------------------------------------------------
(* The theorems *)

\* Type correctness; that the counters stay within their limits is what ends
\* every loop.
THEOREM TypeCorrect == Spec => []TypeOK
<1>1. Inv => TypeOK
  BY DEF Inv
<1> QED
  BY <1>1, InvHolds, PTL

\* A switch is asked to erase only what the tool has saved whole, or cannot know
\* it has not, whatever fails and however often.
THEOREM ErasesOnlySaved == Spec => []ErasedOnlyIfSaved
<1>1. Inv => ErasedOnlyIfSaved
  BY DEF Inv, EraseInv, ErasedOnlyIfSaved
<1> QED
  BY <1>1, InvHolds, PTL

\* No record is twice in a file, none is skipped.
THEOREM RecordsInOrder == Spec => []OutputInOrder
<1>1. Inv => OutputInOrder
  BY DEF Inv, FilesInv, FirstRecords, OutputInOrder
<1> QED
  BY <1>1, InvHolds, PTL

\* The tool exits with success only when the dump is whole and, of a switch, the
\* device said that it erased it; the log of the NIC has no part in it.
THEOREM SuccessIsWhole == Spec => []SuccessMeansSaved
<1>1. Inv => SuccessMeansSaved
  <2> SUFFICES ASSUME Inv, pc = "exited", res_dump = "Success"
               PROVE  SuccessMeansSaved
    BY DEF SuccessMeansSaved
  <2>1. function \in Functions \ {"getLinkMgmtNICDump"}
    BY DEF Inv, TypeOK, PlaceInv
  <2> QED
    BY <2>1 DEF Inv, ResultInv, SuccessMeansSaved
<1> QED
  BY <1>1, InvHolds, PTL

-----------------------------------------------------------------------------
(* The tool ends: how many steps it may still make *)

\* One loop makes at most so many turns; a record takes a few loops, an erase one.
Turns  == MAX_ERROR_COUNT + MAX_IN_PROGRESS_COUNT
Left   == Turns - errorCounter - busyCounter
Loops  == 5 * (Turns + 1)
Erase  == 3 * Turns + 4

\* For the records from r on, the handle of no record among them.
Ahead(r) == (Records + 1 - r) * Loops

\* What the function that runs may still make.
StepsLeft ==
  CASE pc = "request"     -> Ahead(currentRecord) + Erase + Left
    [] pc = "poll"        -> Ahead(currentRecord) + Erase + Left - (Turns + 1)
    [] pc = "save"        -> Ahead(currentRecord) + Erase - 2 * (Turns + 1)
    [] pc = "read"        -> Ahead(currentRecord) + Erase - 2 * (Turns + 1) - 1
    [] pc = "next"        -> Ahead(currentRecord) + Erase - 2 * (Turns + 1) - 2
    [] pc = "end"         -> Erase
    [] pc = "erase"       -> 3 * Left + (IF res = "Success" THEN 1 ELSE 3)
    [] pc = "eraseStatus" -> 3 * Left + 2
    [] OTHER              -> 0

FunctionSteps == Ahead(0) + Erase + Turns + 1

\* main runs two functions for the NIC, and one otherwise.
FunctionsLeft ==
  CASE pc = "main"                     -> 2 * FunctionSteps
    [] function = "getLinkMgmtNICDump" -> FunctionSteps
    [] OTHER                           -> 0

Rank == StepsLeft + FunctionsLeft

\* Every step of the tool brings its end nearer, and no answer of the device puts
\* it off but one: a handle that is neither that of the next record nor 0.  This
\* is what Terminates stands on.
RunsOut ==
  [][~MisleadingHandle =>
       /\ Rank' <= Rank
       /\ Tool \/ ReadRecord => Rank' < Rank]_vars

LEMMA TurnsType ==
  /\ Turns \in Nat
  /\ Loops \in Nat /\ Loops = 5 * Turns + 5
  /\ Erase \in Nat /\ Erase = 3 * Turns + 4
  BY CountsAssumption DEF Turns, Loops, Erase

LEMMA LeftType ==
  ASSUME TypeOK PROVE Left \in 0 .. Turns
  BY CountsAssumption DEF TypeOK, Left, Turns

LEMMA Product ==
  ASSUME NEW n \in Nat \ {0}, NEW k \in Nat
  PROVE  n * k \in Nat /\ n * k >= k
  OBVIOUS

LEMMA AheadType ==
  ASSUME NEW r \in Handles
  PROVE  Ahead(r) \in Nat /\ Ahead(r) >= Loops
<1>1. Records + 1 - r \in Nat \ {0}
  BY RecordsAssumption
<1> QED
  BY <1>1, TurnsType, Product DEF Ahead

LEMMA AheadFalls ==
  ASSUME NEW r \in Handles
  PROVE  Ahead(r + 1) = Ahead(r) - Loops
<1>1. (Records + 1 - (r + 1)) * Loops = (Records + 1 - r) * Loops - Loops
  BY RecordsAssumption, TurnsType
<1> QED
  BY <1>1 DEF Ahead

LEMMA FunctionStepsType ==
  FunctionSteps \in Nat /\ FunctionSteps = Ahead(0) + Erase + Turns + 1
  BY RecordsAssumption, TurnsType, AheadType DEF FunctionSteps

LEMMA StepsLeftType == Inv => StepsLeft \in Nat
<1> SUFFICES ASSUME Inv PROVE StepsLeft \in Nat
  OBVIOUS
<1> USE TurnsType
<1>1. Left \in 0 .. Turns /\ currentRecord \in Handles
  BY LeftType DEF Inv, TypeOK
<1>2. Ahead(currentRecord) \in Nat /\ Ahead(currentRecord) >= Loops
  BY <1>1, AheadType
<1> QED
  BY <1>1, <1>2 DEF StepsLeft

LEMMA StepsLeftTypeNext == (Inv => StepsLeft \in Nat)'
  BY StepsLeftType, PTL

LEMMA RankType == Inv => Rank \in Nat
<1>1. FunctionsLeft \in Nat
  BY FunctionStepsType DEF FunctionsLeft
<1> QED
  BY <1>1, StepsLeftType DEF Rank

LEMMA AddsLess ==
  ASSUME NEW a \in Int, NEW b \in Int, NEW c \in Int, a < b
  PROVE  a + c < b + c
  OBVIOUS

LEMMA RankTypeNext == (Inv => Rank \in Nat)'
  BY RankType, PTL

\* In the same function it is enough that its own steps get fewer.
LEMMA SameFunction ==
  ASSUME Inv, Inv', UNCHANGED function, pc # "main", pc' # "main",
         StepsLeft' < StepsLeft
  PROVE  Rank' < Rank
<1>0. StepsLeft \in Int /\ StepsLeft' \in Int
  BY StepsLeftType, StepsLeftTypeNext
<1>1. FunctionsLeft' = FunctionsLeft
  BY DEF FunctionsLeft
<1>2. FunctionsLeft \in Int
  BY FunctionStepsType DEF FunctionsLeft
<1>3. Rank = StepsLeft + FunctionsLeft /\ Rank' = StepsLeft' + FunctionsLeft'
  BY DEF Rank
<1>4. StepsLeft' + FunctionsLeft < StepsLeft + FunctionsLeft
  BY <1>0, <1>2, AddsLess
<1> QED
  BY <1>1, <1>3, <1>4

LEMMA RequestRecordRuns ==
  ASSUME Inv, Inv', RequestRecord
  PROVE  pc' # "main" /\ StepsLeft' < StepsLeft
<1> USE TurnsType
<1>1. /\ pc = "request" /\ currentRecord' = currentRecord
      /\ currentRecord \in Handles /\ Left \in 0 .. Turns
  BY LeftType DEF RequestRecord, Inv, TypeOK
<1>2. Ahead(currentRecord) \in Nat /\ Ahead(currentRecord) >= Loops
  BY <1>1, AheadType
<1>3. StepsLeft = Ahead(currentRecord) + Erase + Left
  BY <1>1 DEF StepsLeft
<1>4. CASE NextLoop("poll")
  <2>1. StepsLeft' = Ahead(currentRecord) + Erase + Turns - (Turns + 1)
    BY <1>1, <1>4 DEF NextLoop, StepsLeft, Left
  <2> QED
    BY <1>1, <1>2, <1>3, <1>4, <2>1 DEF NextLoop
<1>5. CASE pc' = "end"
  <2>1. StepsLeft' = Erase
    BY <1>5 DEF StepsLeft
  <2> QED
    BY <1>1, <1>2, <1>3, <1>5, <2>1
<1>6. CASE /\ errorCounter' = errorCounter + 1 /\ busyCounter' = busyCounter
           /\ pc' = pc
  <2>1. Left' = Left - 1
    BY <1>6, CountsAssumption DEF Left, Turns, Inv, TypeOK
  <2>2. StepsLeft' = Ahead(currentRecord) + Erase + (Left - 1)
    BY <1>1, <1>6, <2>1 DEF StepsLeft
  <2> QED
    BY <1>1, <1>2, <1>3, <1>6, <2>2
<1> QED
  BY <1>4, <1>5, <1>6 DEF RequestRecord, Count

LEMMA PollStatusRuns ==
  ASSUME Inv, Inv', PollStatus
  PROVE  pc' # "main" /\ StepsLeft' < StepsLeft
<1> USE TurnsType
<1>1. /\ pc = "poll" /\ currentRecord' = currentRecord
      /\ currentRecord \in Handles /\ Left \in 0 .. Turns
  BY LeftType DEF PollStatus, Inv, TypeOK
<1>2. Ahead(currentRecord) \in Nat /\ Ahead(currentRecord) >= Loops
  BY <1>1, AheadType
<1>3. StepsLeft = Ahead(currentRecord) + Erase + Left - (Turns + 1)
  BY <1>1 DEF StepsLeft
<1>4. CASE NextLoop("save")
  <2>1. StepsLeft' = Ahead(currentRecord) + Erase - 2 * (Turns + 1)
    BY <1>1, <1>4 DEF NextLoop, StepsLeft
  <2> QED
    BY <1>1, <1>2, <1>3, <1>4, <2>1 DEF NextLoop
<1>5. CASE pc' = "end"
  <2>1. StepsLeft' = Erase
    BY <1>5 DEF StepsLeft
  <2> QED
    BY <1>1, <1>2, <1>3, <1>5, <2>1
<1>6. CASE /\ \/ errorCounter' = errorCounter + 1 /\ busyCounter' = busyCounter
              \/ errorCounter' = errorCounter /\ busyCounter' = busyCounter + 1
           /\ pc' = pc
  <2>0. errorCounter \in Int /\ busyCounter \in Int
    BY CountsAssumption DEF Inv, TypeOK
  <2>1. Left' = Left - 1
    BY <1>6, <2>0 DEF Left
  <2>2. StepsLeft' = Ahead(currentRecord) + Erase + (Left - 1) - (Turns + 1)
    BY <1>1, <1>6, <2>1 DEF StepsLeft
  <2> QED
    BY <1>1, <1>2, <1>3, <1>6, <2>2
<1> QED
  BY <1>4, <1>5, <1>6 DEF PollStatus, Count

LEMMA SaveRecordRuns ==
  ASSUME Inv, Inv', SaveRecord
  PROVE  pc' # "main" /\ StepsLeft' < StepsLeft
<1> USE TurnsType
<1>1. /\ pc = "save" /\ pc' \in {"read", "end"} /\ currentRecord' = currentRecord
      /\ currentRecord \in Handles
  BY DEF SaveRecord, Inv, TypeOK, loop
<1>2. Ahead(currentRecord) \in Nat /\ Ahead(currentRecord) >= Loops
  BY <1>1, AheadType
<1>3. StepsLeft = Ahead(currentRecord) + Erase - 2 * (Turns + 1)
  BY <1>1 DEF StepsLeft
<1>4. StepsLeft' = IF pc' = "read"
                   THEN Ahead(currentRecord) + Erase - 2 * (Turns + 1) - 1
                   ELSE Erase
  BY <1>1 DEF StepsLeft
<1> QED
  BY <1>1, <1>2, <1>3, <1>4

LEMMA ReadRecordRuns ==
  ASSUME Inv, Inv', ReadRecord
  PROVE  Rank' < Rank
<1> USE TurnsType
<1>1. /\ pc = "read" /\ pc' = "next" /\ currentRecord' = currentRecord
      /\ currentRecord \in Handles /\ UNCHANGED function
  BY DEF ReadRecord, Inv, TypeOK
<1>2. Ahead(currentRecord) \in Nat
  BY <1>1, AheadType
<1>3. StepsLeft = Ahead(currentRecord) + Erase - 2 * (Turns + 1) - 1
  BY <1>1 DEF StepsLeft
<1>4. StepsLeft' = Ahead(currentRecord) + Erase - 2 * (Turns + 1) - 2
  BY <1>1 DEF StepsLeft
<1>5. StepsLeft' < StepsLeft
  BY <1>2, <1>3, <1>4
<1> QED
  BY <1>1, <1>5, SameFunction

\* A record that is done gives up its loops, unless the handle misleads.
LEMMA NextRecordRuns ==
  ASSUME Inv, Inv', NextRecord, ~MisleadingHandle
  PROVE  pc' # "main" /\ StepsLeft' < StepsLeft
<1> USE TurnsType
<1>1. pc = "next" /\ currentRecord \in Handles
  BY DEF NextRecord, Inv, TypeOK
<1>2. Ahead(currentRecord) \in Nat /\ Ahead(currentRecord) >= Loops
  BY <1>1, AheadType
<1>3. StepsLeft = Ahead(currentRecord) + Erase - 2 * (Turns + 1) - 2
  BY <1>1 DEF StepsLeft
<1>4. CASE pc' = "end"
  <2>1. StepsLeft' = Erase
    BY <1>4 DEF StepsLeft
  <2> QED
    BY <1>2, <1>3, <1>4, <2>1
<1>5. CASE NextLoop("request") /\ currentRecord' = currentRecord + 1
  <2>1. Ahead(currentRecord + 1) = Ahead(currentRecord) - Loops
    BY <1>1, AheadFalls
  <2>2. Left' = Turns
    BY <1>5 DEF NextLoop, Left
  <2>3. StepsLeft' = Ahead(currentRecord') + Erase + Left'
    BY <1>5 DEF NextLoop, StepsLeft
  <2>4. StepsLeft' = Ahead(currentRecord) - Loops + Erase + Turns
    BY <1>5, <2>1, <2>2, <2>3
  <2> QED
    BY <1>2, <1>3, <1>5, <2>4 DEF NextLoop
<1>6. /\ currentRecord' \in {0, currentRecord + 1}
      /\ IF currentRecord' = 0 THEN pc' = "end" ELSE NextLoop("request")
  BY DEF NextRecord, MisleadingHandle, FollowedBy
<1>7. CASE currentRecord' = 0
  BY <1>4, <1>6, <1>7
<1>8. CASE currentRecord' # 0
  BY <1>5, <1>6, <1>8
<1> QED
  BY <1>7, <1>8

LEMMA RecordLoopRuns ==
  ASSUME Inv, Inv', RecordLoop, ~MisleadingHandle
  PROVE  Rank' < Rank
<1>1. pc # "main" /\ UNCHANGED function
  BY DEF RecordLoop, RequestRecord, PollStatus, SaveRecord, NextRecord, loop
<1>2. pc' # "main" /\ StepsLeft' < StepsLeft
  BY RequestRecordRuns, PollStatusRuns, SaveRecordRuns, NextRecordRuns
     DEF RecordLoop
<1> QED
  BY <1>1, <1>2, SameFunction

\* Each turn of the erase loop that does not end it counts.
LEMMA EraseLoopRuns ==
  ASSUME Inv, Inv', StartErase \/ SendErase \/ EraseStatus
  PROVE  Rank' < Rank
<1> USE TurnsType
<1>1. Left \in 0 .. Turns
  BY LeftType DEF Inv
<1>2. CASE StartErase
  <2>1. StepsLeft = Erase
    BY <1>2 DEF StartErase, StepsLeft
  <2>2. StepsLeft' = 3 * Turns + 3
    BY <1>2 DEF StartErase, NextLoop, StepsLeft, Left
  <2>3. StepsLeft' < StepsLeft
    BY <2>1, <2>2
  <2> QED
    BY <1>2, <2>3, SameFunction DEF StartErase, NextLoop
<1>3. CASE SendErase
  <2>1. StepsLeft = 3 * Left + 3
    BY <1>3 DEF SendErase, Erasing, StepsLeft
  <2>2. CASE pc' = "eraseStatus" /\ UNCHANGED errorCounter
    <3>1. Left' = Left
      BY <1>3, <2>2 DEF SendErase, Left
    <3>2. StepsLeft' = 3 * Left + 2
      BY <2>2, <3>1 DEF StepsLeft
    <3> QED
      BY <1>1, <1>3, <2>1, <2>2, <3>2, SameFunction DEF SendErase
  <2>3. CASE pc' = "erase" /\ errorCounter' = errorCounter + 1 /\ res' = "Error"
    <3>1. Left' = Left - 1
      BY <1>3, <2>3, CountsAssumption DEF SendErase, Left, Turns, Inv, TypeOK
    <3>2. StepsLeft' = 3 * (Left - 1) + 3
      BY <2>3, <3>1 DEF StepsLeft
    <3> QED
      BY <1>1, <1>3, <2>1, <2>3, <3>2, SameFunction DEF SendErase
  <2> QED
    BY <1>3, <2>2, <2>3 DEF SendErase
<1>4. CASE EraseStatus
  <2>1. StepsLeft = 3 * Left + 2
    BY <1>4 DEF EraseStatus, StepsLeft
  <2>2. CASE res' = "Success"
    <3>1. Left' = Left
      BY <1>4, <2>2, CountsAssumption DEF EraseStatus, Left, Turns, Inv, TypeOK
    <3>2. StepsLeft' = 3 * Left + 1
      BY <1>4, <2>2, <3>1 DEF EraseStatus, StepsLeft
    <3> QED
      BY <1>1, <1>4, <2>1, <3>2, SameFunction DEF EraseStatus
  <2>3. CASE res' \in {"Error", "InProgress"}
    <3>1. Left' = Left - 1
      BY <1>4, <2>3, CountsAssumption DEF EraseStatus, Left, Turns, Inv, TypeOK
    <3>2. StepsLeft' = 3 * (Left - 1) + 3
      BY <1>4, <2>3, <3>1 DEF EraseStatus, StepsLeft
    <3> QED
      BY <1>1, <1>4, <2>1, <3>2, SameFunction DEF EraseStatus
  <2> QED
    BY <1>4, <2>2, <2>3 DEF EraseStatus
<1> QED
  BY <1>2, <1>3, <1>4

\* A function that has ended has no steps left; one that has not has some.
LEMMA ExitRuns ==
  ASSUME Inv, Inv', pc \in {"end", "erase"}, pc' = "exited", UNCHANGED function
  PROVE  Rank' < Rank
<1>1. StepsLeft' = 0
  BY DEF StepsLeft
<1>2. Left \in 0 .. Turns
  BY LeftType DEF Inv
<1>3. StepsLeft \in Nat \ {0}
  BY <1>2, TurnsType DEF StepsLeft
<1> QED
  BY <1>1, <1>3, SameFunction

\* A function that starts has all its steps before it.
LEMMA StartsFull ==
  ASSUME NEW f, Start(f)
  PROVE  StepsLeft' = FunctionSteps - 1
<1>1. Left' = Turns
  BY TurnsType DEF Start, Left
<1>2. StepsLeft' = Ahead(0) + Erase + Turns
  BY <1>1 DEF Start, StepsLeft
<1> QED
  BY <1>2, FunctionStepsType, TurnsType, RecordsAssumption, AheadType

LEMMA MainRuns ==
  ASSUME Inv, Inv', main
  PROVE  Rank' < Rank
<1> USE FunctionStepsType
<1>0. FunctionSteps >= 1
  BY RecordsAssumption, TurnsType, AheadType
<1>1. pc = "main" /\ function = "main"
  BY DEF main, Inv, PlaceInv
<1>2. StepsLeft = 0 /\ FunctionsLeft = 2 * FunctionSteps
  BY <1>1 DEF StepsLeft, FunctionsLeft
<1>3. Rank = 2 * FunctionSteps
  BY <1>2 DEF Rank
<1>4. CASE \E f \in Functions \ {"getLinkMgmtNICLog"} : Start(f)
  <2>1. PICK f \in Functions \ {"getLinkMgmtNICLog"} : Start(f)
    BY <1>4
  <2>2. StepsLeft' = FunctionSteps - 1
    BY <2>1, StartsFull
  <2>3. FunctionsLeft' \in {0, FunctionSteps}
    BY <2>1 DEF Start, FunctionsLeft
  <2>4. Rank' = StepsLeft' + FunctionsLeft'
    BY DEF Rank
  <2> QED
    BY <1>0, <1>3, <2>2, <2>3, <2>4
<1>5. CASE pc' = "exited" /\ UNCHANGED function
  <2>1. StepsLeft' = 0 /\ FunctionsLeft' = 0
    BY <1>1, <1>5 DEF StepsLeft, FunctionsLeft
  <2>2. Rank' = StepsLeft' + FunctionsLeft'
    BY DEF Rank
  <2> QED
    BY <1>0, <1>3, <2>1, <2>2
<1> QED
  BY <1>4, <1>5 DEF main

LEMMA SwitchRuns ==
  ASSUME Inv, Inv', getSwitchDump, ~MisleadingHandle
  PROVE  Rank' < Rank
<1>1. CASE RecordLoop
  BY <1>1, RecordLoopRuns
<1>2. CASE StartErase \/ SendErase \/ EraseStatus
  BY <1>2, EraseLoopRuns
<1>3. CASE pc \in {"end", "erase"} /\ Return
  BY <1>3, ExitRuns DEF Return
<1> QED
  BY <1>1, <1>2, <1>3 DEF getSwitchDump, SwitchErased

\* From the dump of the NIC to its log: the steps of the dump are spent.
LEMMA NICDumpRuns ==
  ASSUME Inv, Inv', getLinkMgmtNICDump, ~MisleadingHandle
  PROVE  Rank' < Rank
<1>1. CASE RecordLoop
  BY <1>1, RecordLoopRuns
<1>2. CASE pc = "end" /\ Start("getLinkMgmtNICLog")
  <2>1. StepsLeft' = FunctionSteps - 1 /\ FunctionsLeft' = 0
    BY <1>2, StartsFull DEF Start, FunctionsLeft
  <2>2. StepsLeft = Erase /\ FunctionsLeft = FunctionSteps
    BY <1>2 DEF getLinkMgmtNICDump, StepsLeft, FunctionsLeft
  <2>3. Rank = StepsLeft + FunctionsLeft /\ Rank' = StepsLeft' + FunctionsLeft'
    BY DEF Rank
  <2> QED
    BY <2>1, <2>2, <2>3, TurnsType, FunctionStepsType
<1> QED
  BY <1>1, <1>2 DEF getLinkMgmtNICDump

\* The tool runs out of steps: at any time it has a number of them before it, and
\* each one leaves fewer, whatever is refused or never answered, but where the
\* device leads it on with a handle.  That the steps are taken - reading a record
\* to its end among them - is fairness, and Terminates adds it.
THEOREM ToolRunsOut == Spec => [](Rank \in Nat) /\ RunsOut
<1>1. ASSUME Inv, Inv', Tool, ~MisleadingHandle PROVE Rank' < Rank
  <2>1. CASE main
    BY <1>1, <2>1, MainRuns
  <2>2. CASE getSwitchDump
    BY <1>1, <2>2, SwitchRuns
  <2>3. CASE getLinkMgmtNICDump
    BY <1>1, <2>3, NICDumpRuns
  <2>4. CASE getLinkMgmtNICLog \/ getGPUDump
    <3>1. CASE RecordLoop
      BY <1>1, <3>1, RecordLoopRuns
    <3>2. CASE pc = "end" /\ pc' = "exited" /\ UNCHANGED function
      BY <1>1, <3>2, ExitRuns
    <3> QED
      BY <2>4, <3>1, <3>2 DEF getLinkMgmtNICLog, getGPUDump, Return
  <2> QED
    BY <1>1, <2>1, <2>2, <2>3, <2>4 DEF Tool
<1>2. ASSUME Inv, DeviceAnswers \/ DeviceErases
      PROVE  Rank' = Rank
  <2>1. UNCHANGED <<control, loop>>
    BY <1>2 DEF DeviceAnswers, DeviceErases
  <2>2. StepsLeft' = StepsLeft /\ FunctionsLeft' = FunctionsLeft
    BY <2>1 DEF control, loop, StepsLeft, Left, FunctionsLeft
  <2> QED
    BY <2>2 DEF Rank
<1>3. Inv /\ Inv' /\ [Next]_vars =>
        [~MisleadingHandle =>
           /\ Rank' <= Rank
           /\ Tool \/ ReadRecord => Rank' < Rank]_vars
  <2> SUFFICES ASSUME Inv, Inv', Next, ~MisleadingHandle
               PROVE  /\ Rank' <= Rank
                      /\ Tool \/ ReadRecord => Rank' < Rank
    OBVIOUS
  <2>1. Rank \in Nat
    BY RankType
  <2>2. Rank' \in Nat
    BY RankTypeNext
  <2>3. CASE Tool \/ ReadRecord
    <3>1. Rank' < Rank
      BY <1>1, <2>3, ReadRecordRuns
    <3> QED
      BY <2>1, <2>2, <3>1
  <2>4. CASE ~(Tool \/ ReadRecord)
    <3>1. Rank' = Rank
      BY <1>2, <2>4 DEF Next
    <3> QED
      BY <2>1, <2>4, <3>1
  <2> QED
    BY <2>3, <2>4
<1>4. Inv => Rank \in Nat
  BY RankType
<1> QED
  BY <1>3, <1>4, InvHolds, PTL DEF Spec, RunsOut
=============================================================================
