-------------------------- MODULE ElogWatchProofs --------------------------
(***************************************************************************)
(* Proofs about the error log watch: its list survives restarts, and a log *)
(* gets at most one dump, plus one for every torn write of the list.       *)
(***************************************************************************)
EXTENDS ElogWatch, SequenceTheorems, TLAPS

(* Signals *)

\* What a signal of the service does to the queue.
LEMMA AnnounceOne ==
  ASSUME NEW s \in SignalType, signals \in Seq(SignalType), Announce(<<s>>)
  PROVE  \/ UNCHANGED signals
         \/ /\ signals' \in Seq(SignalType)
            /\ Len(signals') = Len(signals) + 1
            /\ Len(signals') <= MaxSignals
            /\ signals'[Len(signals) + 1] = s
            /\ \A i \in 1 .. Len(signals) : signals'[i] = signals[i]
<1>1. CASE UNCHANGED signals
  BY <1>1
<1>2. CASE signals' = signals \o <<s>> /\ Len(signals) + 1 <= MaxSignals
  <2>1. <<s>> \in Seq(SignalType) /\ Len(<<s>>) = 1 /\ <<s>>[1] = s
    OBVIOUS
  <2>2. signals \o <<s>> \in Seq(SignalType)
    BY <2>1, ConcatProperties
  <2>3. Len(signals \o <<s>>) = Len(signals) + 1
    BY <2>1, ConcatProperties
  <2>4. Len(signals) \in Nat
    BY LenProperties
  <2>5. \A i \in 1 .. Len(signals) + 1 :
          (signals \o <<s>>)[i] = IF i <= Len(signals) THEN signals[i]
                                  ELSE <<s>>[i - Len(signals)]
    BY <2>1, ConcatProperties
  <2>6. (signals \o <<s>>)[Len(signals) + 1] = s
    BY <2>1, <2>4, <2>5
  <2>7. \A i \in 1 .. Len(signals) : (signals \o <<s>>)[i] = signals[i]
    BY <2>4, <2>5
  <2>8. QED  BY <1>2, <2>2, <2>3, <2>6, <2>7
<1>3. QED
  BY <1>1, <1>2 DEF Announce

\* What handling a signal does to it.
LEMMA TailOf ==
  ASSUME signals \in Seq(SignalType), signals # <<>>, signals' = Tail(signals)
  PROVE  /\ signals' \in Seq(SignalType)
         /\ Len(signals') = Len(signals) - 1
         /\ Len(signals) \in Nat \ {0}
         /\ Head(signals) = signals[1]
         /\ \A i \in 1 .. Len(signals') : signals'[i] = signals[i + 1]
BY HeadTailProperties, LenProperties, EmptySeq
-----------------------------------------------------------------------------
(* Types *)

LEMMA TypeStep == TypeOK /\ [Next]_vars => TypeOK'
<1> SUFFICES ASSUME TypeOK, [Next]_vars  PROVE TypeOK'
  OBVIOUS
<1>0. \A e \in EIds : Added(e) \in SignalType /\ Removed(e) \in SignalType
  BY DEF Added, Removed, SignalType
<1>a. <<>> \in Seq(SignalType) /\ Len(<<>>) = 0
  OBVIOUS
<1>b. MaxSignals \in Nat /\ MaxTears \in Nat
  BY SignalsAssumption, TearsAssumption
<1>1. ASSUME NEW e \in EIds, LogAdded(e) \/ LogRemoved(e) \/ LogRestored(e)
      PROVE  TypeOK'
  <2>1. PICK s \in SignalType : Announce(<<s>>)
    BY <1>0, <1>1 DEF LogAdded, LogRemoved, LogRestored
  <2>2. signals' \in Seq(SignalType) /\ Len(signals') <= MaxSignals
    BY <2>1, AnnounceOne DEF TypeOK
  <2>3. QED
    BY <1>1, <2>2 DEF LogAdded, LogRemoved, LogRestored, service, TypeOK
<1>2. ASSUME signals # <<>>, signals' = Tail(signals)
      PROVE  signals' \in Seq(SignalType) /\ Len(signals') <= MaxSignals
  BY <1>2, <1>b, TailOf DEF TypeOK
<1>3. ASSUME NEW e \in EIds, AddIgnored(e)
      PROVE  TypeOK'
  BY <1>3, <1>2 DEF AddIgnored, NextSignal, service, TypeOK
<1>4. ASSUME NEW e \in EIds, AddCallback(e)
      PROVE  TypeOK'
  <2>1. dumps' \in [EIds -> 0 .. MaxTears + 2]
    <3>1. dumps[e] < MaxTears + 2 => dumps[e] + 1 \in 0 .. MaxTears + 2
      BY <1>b DEF TypeOK
    <3>2. QED  BY <1>4, <3>1 DEF AddCallback, TypeOK
  <2>2. QED
    BY <1>4, <1>2, <2>1
       DEF AddCallback, IsNew, NextSignal, Serialize, service, TypeOK
<1>5. ASSUME NEW e \in EIds, AddCallbackFails(e)
      PROVE  TypeOK'
  <2>1. signals' \in Seq(SignalType) /\ Len(signals') <= MaxSignals
    BY <1>5, <1>a, <1>b DEF AddCallbackFails, Down
  <2>2. QED
    BY <1>5, <2>1 DEF AddCallbackFails, Serialize, Down, service, TypeOK
<1>6. ASSUME NEW e \in EIds, DelCallback(e)
      PROVE  TypeOK'
  BY <1>6, <1>2 DEF DelCallback, NextSignal, Serialize, service, TypeOK
<1>7. ASSUME NEW e \in EIds, TornWrite(e)
      PROVE  TypeOK'
  <2>1. signals' \in Seq(SignalType) /\ Len(signals') <= MaxSignals
    BY <1>7, <1>a, <1>b DEF TornWrite, Down
  <2>2. saved' \subseteq EIds
    BY <1>7 DEF TornWrite, TypeOK
  <2>3. tears' \in 0 .. MaxTears
    BY <1>7, <1>b DEF TornWrite, TypeOK
  <2>4. QED
    BY <1>7, <2>1, <2>2, <2>3 DEF TornWrite, Down, service, TypeOK
<1>8. CASE Crash
  <2>1. signals' \in Seq(SignalType) /\ Len(signals') <= MaxSignals
    BY <1>8, <1>a, <1>b DEF Crash, Down
  <2>2. QED  BY <1>8, <2>1 DEF Crash, Down, service, TypeOK
<1>9. CASE Restart
  <2>1. \A list \in ReadFrom(saved) : list \subseteq saved
    BY DEF ReadFrom
  <2>2. elogList' \subseteq EIds /\ saved' \subseteq EIds
        /\ file' \in {"absent", "whole", "torn"}
    BY <1>9, <2>1 DEF Restart, TypeOK
  <2>3. QED  BY <1>9, <2>2 DEF Restart, service, TypeOK
<1>10. CASE UNCHANGED vars
  BY <1>10 DEF vars, service, TypeOK
<1>11. QED
  BY <1>1, <1>3, <1>4, <1>5, <1>6, <1>7, <1>8, <1>9, <1>10 DEF Next, Callback

\* TypeOK: the queue of signals, the list, its file and the counts keep their
\* types, whatever is announced, torn or restarted.
THEOREM ElogTypeCorrect == Spec => []TypeOK
<1>1. Init => TypeOK
  BY SignalsAssumption, TearsAssumption DEF Init, TypeOK
<1>2. QED  BY <1>1, TypeStep, PTL DEF Spec
-----------------------------------------------------------------------------
(* The list survives restarts *)

\* ListSurvivesRestart, with what is known of a torn file.
ListInv ==
  /\ up /\ file = "whole" => saved = elogList
  /\ up /\ file = "absent" => tears > 0 \/ elogList = {}
  /\ file = "torn" => ~up /\ tears > 0

LEMMA ListStep == TypeOK /\ ListInv /\ [Next]_vars => ListInv'
<1> SUFFICES ASSUME TypeOK, ListInv, [Next]_vars  PROVE ListInv'
  OBVIOUS
<1>1. ASSUME UNCHANGED <<up, elogList, file, saved, tears>>
      PROVE  ListInv'
  BY <1>1 DEF ListInv
<1>2. ASSUME NEW e \in EIds, LogAdded(e) \/ LogRemoved(e) \/ LogRestored(e)
      PROVE  ListInv'
  BY <1>1, <1>2 DEF LogAdded, LogRemoved, LogRestored
<1>3. ASSUME NEW e \in EIds, AddIgnored(e)
      PROVE  ListInv'
  BY <1>1, <1>3 DEF AddIgnored
<1>4. ASSUME NEW e \in EIds, AddCallback(e) \/ AddCallbackFails(e)
      PROVE  ListInv'
  BY <1>4 DEF AddCallback, AddCallbackFails, Serialize, Down, ListInv
<1>5. ASSUME NEW e \in EIds, DelCallback(e)
      PROVE  ListInv'
  <2>1. CASE e \in elogList
    BY <1>5, <2>1 DEF DelCallback, Serialize, ListInv
  <2>2. CASE e \notin elogList
    <3>1. elogList' = elogList
      BY <1>5, <2>2 DEF DelCallback
    <3>2. QED  BY <1>1, <1>5, <2>2, <3>1 DEF DelCallback
  <2>3. QED  BY <2>1, <2>2
<1>6. ASSUME NEW e \in EIds, TornWrite(e)
      PROVE  ListInv'
  BY <1>6 DEF TornWrite, Down, ListInv, TypeOK
<1>7. CASE Crash
  BY <1>7 DEF Crash, Down, ListInv
<1>8. CASE Restart
  BY <1>8 DEF Restart, ListInv, TypeOK
<1>9. CASE UNCHANGED vars
  BY <1>1, <1>9 DEF vars
<1>10. QED
  BY <1>2, <1>3, <1>4, <1>5, <1>6, <1>7, <1>8, <1>9 DEF Next, Callback

LEMMA ListInvariant == Spec => []ListInv
<1>1. Init => ListInv
  BY DEF Init, ListInv
<1>2. QED  BY <1>1, ListStep, ElogTypeCorrect, PTL DEF Spec

\* ListSurvivesRestart: what the file holds is the list in memory, between any
\* two callbacks, unless the list was torn before.
THEOREM ListOnDisk == Spec => []ListSurvivesRestart
<1>1. TypeOK /\ ListInv => ListSurvivesRestart
  BY DEF TypeOK, ListInv, ListSurvivesRestart
<1>2. QED  BY <1>1, ListInvariant, ElogTypeCorrect, PTL
-----------------------------------------------------------------------------
(* One dump for each log *)

Waiting(s) == \E i \in 1 .. Len(signals) : signals[i] = s

\* A removal is announced once, for a log that is gone, and after everything
\* else there is to say of that log.
RemovalsAreLast(e) ==
  \A i \in 1 .. Len(signals) :
    signals[i] = Removed(e) =>
      /\ e \in used \ logs
      /\ \A j \in 1 .. Len(signals) : j > i => signals[j] # Added(e)

\* The log will not be announced any more.
NeverAgain(e) == e \in used \ logs /\ ~Waiting(Added(e))

Recorded(e) == file = "whole" /\ e \in saved

\* Why a log that has its dump gets no other: it is in the saved list, or will
\* not be announced again.
LogInv(e) ==
  /\ RemovalsAreLast(e)
  /\ dumps[e] <= tears + 1
  /\ dumps[e] > tears => NeverAgain(e) \/ Recorded(e)

LEMMA AddedIsNotRemoved == \A e, f : /\ Added(e) # Removed(f)
                                     /\ Added(e) = Added(f) => e = f
                                     /\ Removed(e) = Removed(f) => e = f
BY DEF Added, Removed

\* The steps of the logging service.
LEMMA ServiceStep ==
  ASSUME TypeOK, NEW e \in EIds, LogInv(e), NEW f \in EIds,
         LogAdded(f) \/ LogRemoved(f) \/ LogRestored(f)
  PROVE  LogInv(e)'
<1>0. signals \in Seq(SignalType) /\ Len(signals) \in Nat
  BY LenProperties DEF TypeOK
<1>a. Added(f) \in SignalType /\ Removed(f) \in SignalType
  BY DEF Added, Removed, SignalType
<1>b. UNCHANGED <<file, saved, tears, dumps>>
  BY DEF LogAdded, LogRemoved, LogRestored
<1>1. CASE LogRemoved(f)
  <2>1. Announce(<<Removed(f)>>) /\ f \in logs /\ logs' = logs \ {f} /\ used' = used
    BY <1>1 DEF LogRemoved
  <2>2. f \in used
    BY <2>1 DEF TypeOK
  <2>3. \/ UNCHANGED signals
        \/ /\ Len(signals') = Len(signals) + 1
           /\ signals'[Len(signals) + 1] = Removed(f)
           /\ \A i \in 1 .. Len(signals) : signals'[i] = signals[i]
    BY <1>0, <1>a, <2>1, AnnounceOne
  <2>4. RemovalsAreLast(e)'
    BY <1>0, <2>1, <2>2, <2>3, AddedIsNotRemoved DEF LogInv, RemovalsAreLast
  <2>5. NeverAgain(e) => NeverAgain(e)'
    BY <1>0, <2>1, <2>3, AddedIsNotRemoved DEF NeverAgain, Waiting
  <2>6. QED  BY <1>b, <2>4, <2>5 DEF LogInv, Recorded
<1>2. CASE LogAdded(f) \/ LogRestored(f)
  <2>1. /\ Announce(<<Added(f)>>)
        /\ f \notin used \ logs
        /\ used' \ logs' = used \ logs
    BY <1>2 DEF LogAdded, LogRestored, service
  <2>2. \/ UNCHANGED signals
        \/ /\ Len(signals') = Len(signals) + 1
           /\ signals'[Len(signals) + 1] = Added(f)
           /\ \A i \in 1 .. Len(signals) : signals'[i] = signals[i]
    BY <1>0, <1>a, <2>1, AnnounceOne
  <2>3. RemovalsAreLast(e)'
    BY <1>0, <2>1, <2>2, AddedIsNotRemoved DEF LogInv, RemovalsAreLast
  <2>4. NeverAgain(e) => NeverAgain(e)'
    BY <1>0, <2>1, <2>2, AddedIsNotRemoved DEF NeverAgain, Waiting
  <2>5. QED  BY <1>b, <2>3, <2>4 DEF LogInv, Recorded
<1>3. QED  BY <1>1, <1>2

\* Handling a signal, and losing all of them.
LEMMA QueueShrinks ==
  ASSUME TypeOK, NEW e \in EIds, RemovalsAreLast(e), UNCHANGED service,
         \/ UNCHANGED signals
         \/ signals # <<>> /\ signals' = Tail(signals)
         \/ signals' = <<>>
  PROVE  RemovalsAreLast(e)' /\ (NeverAgain(e) => NeverAgain(e)')
<1>0. signals \in Seq(SignalType) /\ Len(signals) \in Nat
  BY LenProperties DEF TypeOK
<1>1. CASE UNCHANGED signals
  BY <1>1 DEF RemovalsAreLast, NeverAgain, Waiting, service
<1>2. CASE signals # <<>> /\ signals' = Tail(signals)
  <2>1. /\ Len(signals') = Len(signals) - 1
        /\ \A i \in 1 .. Len(signals') : signals'[i] = signals[i + 1]
    BY <1>0, <1>2, TailOf
  <2>2. \A i \in 1 .. Len(signals') : i + 1 \in 1 .. Len(signals)
    BY <1>0, <2>1
  <2>3. RemovalsAreLast(e)'
    BY <1>0, <2>1, <2>2 DEF RemovalsAreLast, service
  <2>4. NeverAgain(e) => NeverAgain(e)'
    BY <2>1, <2>2 DEF NeverAgain, Waiting, service
  <2>5. QED  BY <2>3, <2>4
<1>3. CASE signals' = <<>>
  <2>1. Len(signals') = 0
    BY <1>3
  <2>2. QED  BY <2>1 DEF RemovalsAreLast, NeverAgain, Waiting, service
<1>4. QED  BY <1>1, <1>2, <1>3

LEMMA LogStep ==
  ASSUME TypeOK, ListInv, NEW e \in EIds, LogInv(e), [Next]_vars
  PROVE  LogInv(e)'
<1>0. /\ dumps \in [EIds -> 0 .. MaxTears + 2]
      /\ tears \in 0 .. MaxTears
      /\ dumps[e] \in Nat /\ tears \in Nat
      /\ MaxTears \in Nat
      /\ signals \in Seq(SignalType)
      /\ up /\ file = "whole" => saved = elogList
  BY TearsAssumption DEF TypeOK, ListInv
<1>1. ASSUME NEW f \in EIds, LogAdded(f) \/ LogRemoved(f) \/ LogRestored(f)
      PROVE  LogInv(e)'
  BY <1>1, ServiceStep
<1>2. ASSUME NEW f \in EIds, AddIgnored(f)
      PROVE  LogInv(e)'
  BY <1>2, QueueShrinks DEF AddIgnored, NextSignal, LogInv, Recorded
<1>3. IsNew(e) => dumps[e] <= tears
  <2> SUFFICES ASSUME IsNew(e), dumps[e] > tears  PROVE FALSE
    BY <1>0
  <2>1. Waiting(Added(e))
    BY <1>0, LenProperties, EmptySeq DEF IsNew, NextSignal, Waiting
  <2>2. up /\ e \notin elogList
    BY DEF IsNew, NextSignal
  <2>3. QED  BY <1>0, <2>1, <2>2 DEF LogInv, NeverAgain, Recorded
<1>4. ASSUME NEW f \in EIds, AddCallback(f)
      PROVE  LogInv(e)'
  <2>1. RemovalsAreLast(e)' /\ (NeverAgain(e) => NeverAgain(e)')
    BY <1>4, QueueShrinks DEF AddCallback, IsNew, NextSignal, LogInv
  <2>2. up /\ Recorded(e)' = (e \in elogList \cup {f}) /\ tears' = tears
    BY <1>4 DEF AddCallback, IsNew, NextSignal, Serialize, Recorded
  <2>3. CASE e = f
    <3>1. dumps[e] <= tears
      BY <1>0, <1>3, <1>4, <2>3 DEF AddCallback
    <3>2. dumps'[e] <= dumps[e] + 1
      BY <1>0, <1>4, <2>3 DEF AddCallback
    <3>3. dumps'[e] <= tears' + 1
      <4>1. dumps'[e] \in Nat
        BY <1>0, <1>4, <2>3 DEF AddCallback
      <4>2. QED  BY <1>0, <2>2, <3>1, <3>2, <4>1
    <3>4. QED  BY <2>1, <2>2, <2>3, <3>3 DEF LogInv
  <2>4. CASE e # f
    <3>1. dumps'[e] = dumps[e]
      BY <1>0, <1>4, <2>4 DEF AddCallback
    <3>2. Recorded(e) => Recorded(e)'
      BY <1>0, <2>2 DEF Recorded
    <3>3. QED  BY <2>1, <2>2, <3>1, <3>2 DEF LogInv
  <2>5. QED  BY <2>3, <2>4
<1>5. ASSUME NEW f \in EIds, AddCallbackFails(f)
      PROVE  LogInv(e)'
  <2>1. RemovalsAreLast(e)' /\ (NeverAgain(e) => NeverAgain(e)')
    BY <1>5, QueueShrinks DEF AddCallbackFails, Down, LogInv
  <2>2. Recorded(e) => Recorded(e)'
    BY <1>0, <1>5
       DEF AddCallbackFails, IsNew, NextSignal, Serialize, Recorded
  <2>3. QED  BY <1>5, <2>1, <2>2 DEF AddCallbackFails, LogInv
<1>6. ASSUME NEW f \in EIds, DelCallback(f)
      PROVE  LogInv(e)'
  <2>1. /\ signals # <<>>
        /\ signals' = Tail(signals)
        /\ Head(signals) = Removed(f)
        /\ UNCHANGED <<service, tears, dumps>>
        /\ up
    BY <1>6 DEF DelCallback, NextSignal
  <2>2. RemovalsAreLast(e)' /\ (NeverAgain(e) => NeverAgain(e)')
    BY <2>1, QueueShrinks DEF LogInv
  <2>3. CASE e = f
    <3>1. /\ Len(signals) \in Nat \ {0}
          /\ signals[1] = Removed(e)
      BY <1>0, <2>1, <2>3, TailOf
    <3>2. e \in used \ logs
      BY <3>1 DEF LogInv, RemovalsAreLast
    <3>3. \A j \in 1 .. Len(signals) : signals[j] # Added(e)
      <4>1. \A j \in 1 .. Len(signals) : j > 1 => signals[j] # Added(e)
        BY <3>1 DEF LogInv, RemovalsAreLast
      <4>2. QED  BY <3>1, <4>1, AddedIsNotRemoved
    <3>4. NeverAgain(e)
      BY <3>2, <3>3 DEF NeverAgain, Waiting
    <3>5. QED  BY <2>1, <2>2, <3>4 DEF LogInv
  <2>4. CASE e # f
    <3>1. Recorded(e) => Recorded(e)'
      BY <1>0, <1>6, <2>1, <2>4 DEF DelCallback, Serialize, Recorded
    <3>2. QED  BY <2>1, <2>2, <3>1 DEF LogInv
  <2>5. QED  BY <2>3, <2>4
<1>7. ASSUME NEW f \in EIds, TornWrite(f)
      PROVE  LogInv(e)'
  <2>1. RemovalsAreLast(e)'
    BY <1>7, QueueShrinks DEF TornWrite, Down, LogInv
  <2>2. dumps'[e] = dumps[e] /\ tears' = tears + 1 /\ dumps[e] <= tears + 1
    BY <1>7 DEF TornWrite, LogInv
  <2>3. QED  BY <1>0, <2>1, <2>2 DEF LogInv
<1>8. CASE Crash
  <2>1. RemovalsAreLast(e)' /\ (NeverAgain(e) => NeverAgain(e)')
    BY <1>8, QueueShrinks DEF Crash, Down, LogInv
  <2>2. QED  BY <1>8, <2>1 DEF Crash, LogInv, Recorded
<1>9. CASE Restart
  <2>1. RemovalsAreLast(e)' /\ (NeverAgain(e) => NeverAgain(e)')
    BY <1>9, QueueShrinks DEF Restart, LogInv
  <2>2. Recorded(e) => Recorded(e)'
    BY <1>9 DEF Restart, Recorded
  <2>3. QED  BY <1>9, <2>1, <2>2 DEF Restart, LogInv
<1>10. CASE UNCHANGED vars
  BY <1>10, QueueShrinks DEF vars, LogInv, Recorded
<1>11. QED
  BY <1>1, <1>2, <1>4, <1>5, <1>6, <1>7, <1>8, <1>9, <1>10 DEF Next, Callback

AllLogsInv == \A e \in EIds : LogInv(e)

\* OneDumpPerLog: however often a log is announced, and whatever restarts, it
\* gets one dump, and one more at most for every torn write of the list.
THEOREM OneDumpForEachLog == Spec => []OneDumpPerLog
<1>1. Init => AllLogsInv
  <2> SUFFICES ASSUME Init, NEW e \in EIds  PROVE LogInv(e)
    BY DEF AllLogsInv
  <2>1. Len(signals) = 0 /\ dumps[e] = 0 /\ tears = 0
    BY DEF Init
  <2>2. RemovalsAreLast(e)
    BY <2>1 DEF RemovalsAreLast
  <2>3. dumps[e] <= tears + 1 /\ ~(dumps[e] > tears)
    BY <2>1
  <2>4. QED  BY <2>2, <2>3 DEF LogInv
<1>2. TypeOK /\ ListInv /\ AllLogsInv /\ [Next]_vars => AllLogsInv'
  BY LogStep DEF AllLogsInv
<1>3. TypeOK /\ AllLogsInv => OneDumpPerLog
  BY DEF TypeOK, AllLogsInv, LogInv, OneDumpPerLog
<1>4. QED
  BY <1>1, <1>2, <1>3, ElogTypeCorrect, ListInvariant, PTL DEF Spec
-----------------------------------------------------------------------------
(* What is announced is heard *)

\* An announcement the daemon has yet to handle stays in the queue, where it
\* was or one place further on, until its log is in the list or the daemon is
\* down.  Every callback takes a signal off the queue.
StillAnnounced(e, i) == i \in 1 .. Len(signals) /\ signals[i] = Added(e)

AnnouncedUntilRecorded ==
  [][\A e \in Supported, i \in 1 .. Len(signals) :
       up /\ StillAnnounced(e, i) =>
         \/ e \in elogList' \/ ~up'
         \/ StillAnnounced(e, i)' \/ StillAnnounced(e, i - 1)']_vars

CallbacksTakeSignals ==
  [][\A e \in EIds : Callback(e) => Len(signals') < Len(signals)]_vars

\* Nothing but its own callback, or the end of the daemon, drops a signal.
LEMMA AnnouncementStep ==
  ASSUME TypeOK, [Next]_vars, NEW e \in Supported,
         NEW i \in 1 .. Len(signals), up, signals[i] = Added(e)
  PROVE  \/ e \in elogList' \/ ~up'
         \/ StillAnnounced(e, i)' \/ StillAnnounced(e, i - 1)'
<1>0. signals \in Seq(SignalType) /\ Len(signals) \in Nat
  BY LenProperties DEF TypeOK
<1>1. CASE UNCHANGED signals
  BY <1>1 DEF StillAnnounced
<1>2. ASSUME NEW f \in EIds, LogAdded(f) \/ LogRemoved(f) \/ LogRestored(f)
      PROVE  StillAnnounced(e, i)'
  <2>1. Added(f) \in SignalType /\ Removed(f) \in SignalType
    BY DEF Added, Removed, SignalType
  <2>2. PICK s \in SignalType : Announce(<<s>>)
    BY <1>2, <2>1 DEF LogAdded, LogRemoved, LogRestored
  <2>3. \/ UNCHANGED signals
        \/ /\ Len(signals') = Len(signals) + 1
           /\ \A k \in 1 .. Len(signals) : signals'[k] = signals[k]
    BY <1>0, <2>2, AnnounceOne
  <2>4. QED  BY <1>0, <2>3 DEF StillAnnounced
<1>3. ASSUME signals # <<>>, signals' = Tail(signals), i # 1
      PROVE  StillAnnounced(e, i - 1)'
  <2>1. /\ Len(signals') = Len(signals) - 1
        /\ \A k \in 1 .. Len(signals') : signals'[k] = signals[k + 1]
    BY <1>0, <1>3, TailOf
  <2>2. i - 1 \in 1 .. Len(signals') /\ (i - 1) + 1 = i
    BY <1>0, <1>3, <2>1
  <2>3. QED  BY <2>1, <2>2 DEF StillAnnounced
<1>4. ASSUME i = 1, signals # <<>>  PROVE Head(signals) = Added(e)
  BY <1>0, <1>4, HeadTailProperties
<1>5. ASSUME NEW f \in EIds, AddIgnored(f) \/ AddCallback(f)
      PROVE  e \in elogList' \/ StillAnnounced(e, i - 1)'
  <2>1. /\ signals # <<>> /\ signals' = Tail(signals)
        /\ Head(signals) = Added(f)
    BY <1>5 DEF AddIgnored, AddCallback, IsNew, NextSignal
  <2>2. CASE i = 1
    <3>1. e = f
      BY <1>4, <2>1, <2>2, AddedIsNotRemoved, EIdsAssumption
    <3>2. QED  BY <1>5, <3>1 DEF AddIgnored, AddCallback
  <2>3. CASE i # 1
    BY <1>3, <2>1, <2>3
  <2>4. QED  BY <2>2, <2>3
<1>6. ASSUME NEW f \in EIds, DelCallback(f)
      PROVE  StillAnnounced(e, i - 1)'
  <2>1. /\ signals # <<>> /\ signals' = Tail(signals)
        /\ Head(signals) = Removed(f)
    BY <1>6 DEF DelCallback, NextSignal
  <2>2. i # 1
    BY <1>4, <2>1, AddedIsNotRemoved
  <2>3. QED  BY <1>3, <2>1, <2>2
<1>7. ASSUME NEW f \in EIds, AddCallbackFails(f) \/ TornWrite(f) \/ Crash
      PROVE  ~up'
  BY <1>7 DEF AddCallbackFails, TornWrite, Crash, Down
<1>8. ~Restart
  BY DEF Restart
<1>9. Crash => ~up'
  BY DEF Crash, Down
<1>10. QED
  BY <1>1, <1>2, <1>5, <1>6, <1>7, <1>8, <1>9 DEF Next, Callback, vars

LEMMA CallbackStep ==
  ASSUME TypeOK, NEW e \in EIds, Callback(e)
  PROVE  Len(signals') < Len(signals)
<1>0. signals \in Seq(SignalType)
  BY DEF TypeOK
<1>1. signals # <<>> /\ (signals' = Tail(signals) \/ signals' = <<>>)
  BY DEF Callback, AddIgnored, AddCallback, AddCallbackFails, DelCallback,
         IsNew, NextSignal, Down
<1>2. CASE signals' = Tail(signals)
  BY <1>0, <1>1, <1>2, TailOf
<1>3. CASE signals' = <<>>
  <2>1. Len(signals') = 0
    BY <1>3
  <2>2. Len(signals) \in Nat \ {0}
    BY <1>0, <1>1, LenProperties, EmptySeq
  <2>3. QED  BY <2>1, <2>2
<1>4. QED  BY <1>1, <1>2, <1>3

\* An announcement is not lost while the daemon runs: it waits, comes nearer
\* with every callback, and leaves the queue with its log in the list.  It is
\* the safety half of AnnouncedLogRecorded, which adds that the event loop
\* dispatches what is queued.
THEOREM AnnouncedLogsAreHeard ==
  Spec => AnnouncedUntilRecorded /\ CallbacksTakeSignals
<1>1. TypeOK /\ [Next]_vars =>
        [\A e \in Supported, i \in 1 .. Len(signals) :
           up /\ StillAnnounced(e, i) =>
             \/ e \in elogList' \/ ~up'
             \/ StillAnnounced(e, i)' \/ StillAnnounced(e, i - 1)']_vars
  BY AnnouncementStep DEF StillAnnounced
<1>2. TypeOK /\ [Next]_vars =>
        [\A e \in EIds : Callback(e) => Len(signals') < Len(signals)]_vars
  BY CallbackStep
<1>3. QED
  BY <1>1, <1>2, ElogTypeCorrect, PTL
     DEF Spec, AnnouncedUntilRecorded, CallbacksTakeSignals
=============================================================================
