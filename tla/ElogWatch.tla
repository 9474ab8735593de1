----------------------------- MODULE ElogWatch -----------------------------
(***************************************************************************)
(* The error log watch (elog_watch.cpp) and the file its list of error log *)
(* ids is kept in (dump_serialize.cpp).                                    *)
(*                                                                         *)
(* The logging service is external: it announces a log on D-Bus when it is *)
(* made, again for every log it still has when it restarts, and announces  *)
(* its removal.  Nobody repeats what is announced while the daemon is      *)
(* down.  The dump manager is what createDump may answer: a dump (see      *)
(* BmcDump), QuotaExceeded, or a failure.                                  *)
(***************************************************************************)
EXTENDS Integers, Sequences, FiniteSets

CONSTANTS
  EIds,         \* the ids of the error logs, in the order they are saved
  Supported,    \* the logs of a type the dump configuration names
  MaxSignals,   \* bound on the signals waiting on the bus
  MaxTears      \* bound on the times the daemon stops while writing the list

ASSUME EIdsAssumption      == EIds \subseteq Nat /\ Supported \subseteq EIds
ASSUME SignalsAssumption   == MaxSignals \in Nat
ASSUME TearsAssumption     == MaxTears \in Nat

VARIABLES
  logs,        \* the error logs there are
  used,        \* the ids the logging service has given
  signals,     \* its signals the daemon has yet to handle
  up,          \* the daemon is running
  elogList,    \* the ids in memory
  file,        \* the state of the list's file: absent, whole or torn
  saved,       \* the ids in the file, or those a torn one was to hold
  tears,       \* how often the list was left torn
  dumps        \* how many dumps each log got, up to MaxTears + 2

service == <<logs, used>>
vars    == <<service, signals, up, elogList, file, saved, tears, dumps>>

Added(e)   == [kind |-> "added",   id |-> e]
Removed(e) == [kind |-> "removed", id |-> e]
SignalType == [kind : {"added", "removed"}, id : EIds]

\* A match delivers a signal only while the daemon is on the bus.
Announce(ss) ==
  /\ Len(signals) + Len(ss) <= MaxSignals
  /\ signals' = IF up THEN signals \o ss ELSE signals

-----------------------------------------------------------------------------
(* The logging service, external *)

LogAdded(e) ==
  /\ e \notin used
  /\ used' = used \cup {e}
  /\ logs' = logs \cup {e}
  /\ Announce(<<Added(e)>>)
  /\ UNCHANGED <<up, elogList, file, saved, tears, dumps>>

LogRemoved(e) ==
  /\ e \in logs
  /\ logs' = logs \ {e}
  /\ Announce(<<Removed(e)>>)
  /\ UNCHANGED <<used, up, elogList, file, saved, tears, dumps>>

\* The service restarts and announces the logs it restores, one by one.
LogRestored(e) ==
  /\ up
  /\ e \in logs
  /\ Announce(<<Added(e)>>)
  /\ UNCHANGED <<service, up, elogList, file, saved, tears, dumps>>

-----------------------------------------------------------------------------
(* The daemon *)

\* Mutant: the list is written without the id that was just added.
MutantSerializesOld(list) ==
  /\ file' = "whole"
  /\ saved' = list \cap elogList

\* serialize: the file is overwritten in place.
Serialize(list) ==
  /\ file' = "whole"
  /\ saved' = list

Down ==
  /\ up' = FALSE
  /\ signals' = <<>>
  /\ elogList' = {}

\* The next signal is of this kind, for this log.
NextSignal(s) == up /\ signals # <<>> /\ Head(signals) = s

\* Mutant: any id in the list will do.
MutantListNotEmpty(e) ==
  /\ NextSignal(Added(e))
  /\ elogList # {} \/ e \notin Supported
  /\ signals' = Tail(signals)
  /\ UNCHANGED <<service, up, elogList, file, saved, tears, dumps>>

\* addCallback returns early: a log it knows, or one of no interest.
AddIgnored(e) ==
  /\ NextSignal(Added(e))
  /\ e \in elogList \/ e \notin Supported
  /\ signals' = Tail(signals)
  /\ UNCHANGED <<service, up, elogList, file, saved, tears, dumps>>

\* addCallback goes on: a new log of a supported type.
IsNew(e) == NextSignal(Added(e)) /\ e \notin elogList /\ e \in Supported

\* addCallback: note the id, save the list, create the dump.  A refusal for
\* the quota is swallowed.
AddCallback(e) ==
  /\ IsNew(e)
  /\ elogList' = elogList \cup {e}
  /\ Serialize(elogList \cup {e})
  /\ \/ dumps' = [dumps EXCEPT ![e] = IF @ < MaxTears + 2 THEN @ + 1 ELSE @]
     \/ UNCHANGED dumps
  /\ signals' = Tail(signals)
  /\ UNCHANGED <<service, up, tears>>

\* Any other exception of createDump leaves the callback and ends the daemon;
\* a crash between the save and the fork looks the same.
AddCallbackFails(e) ==
  /\ IsNew(e)
  /\ Serialize(elogList \cup {e})
  /\ Down
  /\ UNCHANGED <<service, tears, dumps>>

\* Mutant: the list is not saved after a removal.
MutantDelNotSaved(e) ==
  /\ NextSignal(Removed(e))
  /\ elogList' = elogList \ {e}
  /\ signals' = Tail(signals)
  /\ UNCHANGED <<service, up, file, saved, tears, dumps>>

\* delCallback.
DelCallback(e) ==
  /\ NextSignal(Removed(e))
  /\ elogList' = elogList \ {e}
  /\ IF e \in elogList THEN Serialize(elogList \ {e}) ELSE UNCHANGED <<file, saved>>
  /\ signals' = Tail(signals)
  /\ UNCHANGED <<service, up, tears, dumps>>

\* The daemon stops while it overwrites the file.
TornWrite(e) ==
  /\ tears < MaxTears
  /\ tears' = tears + 1
  /\ file' = "torn"
  /\ \/ IsNew(e) /\ saved' = elogList \cup {e}
     \/ NextSignal(Removed(e)) /\ e \in elogList /\ saved' = elogList \ {e}
  /\ Down
  /\ UNCHANGED <<service, dumps>>

Crash ==
  /\ up
  /\ Down
  /\ UNCHANGED <<service, file, saved, tears, dumps>>

\* What reading a torn file yields before it throws: the first ids of it.
ReadFrom(list) ==
  {{e \in list : e < n} : n \in list} \cup {{}}

\* The constructor of Watch.  A file that cannot be read is removed; the ids
\* read before the error stay in the list.
Restart ==
  /\ ~up
  /\ up' = TRUE
  /\ CASE file = "whole"  -> elogList' = saved /\ UNCHANGED <<file, saved>>
       [] file = "absent" -> elogList' = {} /\ UNCHANGED <<file, saved>>
       [] file = "torn"   -> /\ elogList' \in ReadFrom(saved)
                             /\ file' = "absent"
                             /\ saved' = {}
  /\ UNCHANGED <<service, signals, tears, dumps>>

-----------------------------------------------------------------------------

Init ==
  /\ logs = {}
  /\ used = {}
  /\ signals = <<>>
  /\ up = TRUE
  /\ elogList = {}
  /\ file = "absent"
  /\ saved = {}
  /\ tears = 0
  /\ dumps = [e \in EIds |-> 0]

Callback(e) ==
  AddIgnored(e) \/ AddCallback(e) \/ AddCallbackFails(e) \/ DelCallback(e)

Next ==
  \/ \E e \in EIds : LogAdded(e) \/ LogRemoved(e) \/ LogRestored(e)
  \/ \E e \in EIds : Callback(e) \/ TornWrite(e)
  \/ Crash
  \/ Restart

Spec == Init /\ [][Next]_vars

\* The event loop dispatches the signals there are.  That a daemon that went
\* down is started again is not assumed.
FairSpec == Spec /\ \A e \in EIds : WF_vars(Callback(e))

-----------------------------------------------------------------------------
(* Properties *)

TypeOK ==
  /\ logs \subseteq used /\ used \subseteq EIds
  /\ signals \in Seq(SignalType) /\ Len(signals) <= MaxSignals
  /\ up \in BOOLEAN
  /\ elogList \subseteq EIds
  /\ file \in {"absent", "whole", "torn"}
  /\ saved \subseteq EIds
  /\ tears \in 0 .. MaxTears
  /\ dumps \in [EIds -> 0 .. MaxTears + 2]

\* The ids are saved "to avoid dump requests in elog restore path": however
\* often a log is announced, and across restarts of either side, it gets at
\* most one dump, and another one for every time the list was left torn.
OneDumpPerLog == \A e \in EIds : dumps[e] <= 1 + tears

\* What a restart would read is the list in memory, between any two callbacks.
\* Only what was read of a torn file is not saved again at once.
ListSurvivesRestart ==
  up => CASE file = "whole"  -> saved = elogList
          [] file = "absent" -> tears > 0 \/ elogList = {}
          [] file = "torn"   -> FALSE

\* A log the daemon is told of while it runs is not forgotten: it is recorded,
\* unless the daemon goes down first.
AnnouncedLogRecorded ==
  \A e \in Supported :
    (up /\ \E i \in DOMAIN signals : signals[i] = Added(e))
      ~> (e \in elogList \/ ~up)
=============================================================================
