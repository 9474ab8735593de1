----------------------------- MODULE DumpStore -----------------------------
(***************************************************************************)
(* What a dump manager promises to its clients, whatever it is made of: a  *)
(* store of dumps that outlives the daemon.                                *)
(*                                                                         *)
(* A dump is kept, on disk, under its id; it is offered, on D-Bus, while   *)
(* the daemon runs.  Of the dump itself only who asked for it is seen.     *)
(***************************************************************************)
CONSTANTS
  Ids,          \* the ids of dumps
  Originators,  \* who can have asked for a dump
  Unsaved       \* the originator reported for a dump that has none saved

VARIABLES
  up,           \* the daemon is running
  kept,         \* the dumps on disk: the originator a restart would report
  offered       \* the dumps on D-Bus, with their originator

vars == <<up, kept, offered>>

None == "none"

Offered(ids) == {id \in ids : offered[id] # None}

Without(dumps, ids) == [id \in Ids |-> IF id \in ids THEN None ELSE dumps[id]]

Init ==
  /\ up = TRUE
  /\ kept = [id \in Ids |-> None]
  /\ offered = [id \in Ids |-> None]

\* A dump has been written, nobody has been told.
Store(id) ==
  /\ kept[id] = None
  /\ \E o \in Originators : kept' = [kept EXCEPT ![id] = o]
  /\ UNCHANGED <<up, offered>>

\* A dump that is kept is offered.  What a restart will report is settled now:
\* the originator it is offered with, unless that could not be saved.
Publish(id) ==
  /\ up
  /\ kept[id] # None
  /\ offered[id] = None
  /\ \E o \in Originators, saved \in BOOLEAN :
       /\ offered' = [offered EXCEPT ![id] = o]
       /\ kept' = [kept EXCEPT ![id] = IF saved THEN o ELSE Unsaved]
  /\ UNCHANGED up

\* Dumps are deleted: no longer offered, and, unless the disk refuses, no
\* longer kept.  The archive of one that was not offered stays.
Delete(ids) ==
  /\ up
  /\ offered' = Without(offered, ids)
  /\ \E gone \in SUBSET Offered(ids) : kept' = Without(kept, gone)
  /\ UNCHANGED up

\* The daemon stops, perhaps having deleted what was offered, perhaps leaving
\* behind what was being written.
Stop ==
  /\ up
  /\ up' = FALSE
  /\ offered' = [id \in Ids |-> None]
  /\ kept' \in [Ids -> Originators \cup {None}]
  /\ \A id \in Ids :
       \/ kept'[id] = kept[id]
       \/ IF offered[id] # None THEN kept'[id] = None ELSE kept[id] = None

\* It starts, and offers every dump that is kept.
Start ==
  /\ ~up
  /\ up' = TRUE
  /\ offered' = kept
  /\ UNCHANGED kept

Next ==
  \/ \E id \in Ids : Store(id) \/ Publish(id)
  \/ \E ids \in SUBSET Ids : Delete(ids)
  \/ Stop
  \/ Start

Spec == Init /\ [][Next]_vars

-----------------------------------------------------------------------------
(* What follows for a client *)

\* A dump on offer is kept, under the originator it is offered with, or under
\* none that was saved.
OfferedAreKept ==
  \A id \in Ids : offered[id] # None => kept[id] \in {offered[id], Unsaved}

\* A dump that is kept is lost only when it is on offer: none goes unseen, when
\* the daemon stops neither.
NoneGoesUnseen ==
  [][\A id \in Ids :
       kept[id] # None /\ offered[id] = None => kept'[id] # None]_vars

\* From the moment a dump is offered, the originator a restart reports for it is
\* settled: it stays with the dump as long as that is kept, across restarts.
OriginatorStays ==
  [][\A id \in Ids :
       offered[id] # None => kept'[id] \in {kept[id], None}]_vars
=============================================================================
