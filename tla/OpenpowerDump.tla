--------------------------- MODULE OpenpowerDump ---------------------------
(***************************************************************************)
(* The system and the resource dump manager of OpenPOWER machines          *)
(* (dump-extensions/openpower-dumps), their entries, and what reaches the  *)
(* host through PLDM (host-transport-extensions/pldm).  The dumps are in   *)
(* the host's memory: the managers keep entries for them, made when a user *)
(* asks for a dump or when the host notifies of one, and matched by the id *)
(* the host gives it, the source id.  One manager is modelled at a time.   *)
(*                                                                         *)
(* The host and pldmd are external.  The host makes a dump on a request,   *)
(* or because of a fault of its own, and notifies the manager of it, again *)
(* after it restarted; it deletes a dump when it is asked to, some time    *)
(* later.  Powered off, it has no dumps, and may give their ids again.     *)
(***************************************************************************)
EXTENDS Integers

CONSTANTS
  MaxId,       \* bound on the ids given to entries
  SourceIds,   \* the ids the host gives to dumps
  Sizes,       \* the sizes of dumps
  MaxAsked     \* bound on the dumps asked for and not made yet

INVALID_SOURCE_ID == 0
NoSize            == 0

ASSUME IdAssumption     == MaxId \in Nat /\ MaxAsked \in Nat
ASSUME SourceAssumption == SourceIds \subseteq Nat \ {INVALID_SOURCE_ID}
ASSUME SizeAssumption   == Sizes \subseteq Nat \ {NoSize}

VARIABLES
  (* the manager *)
  kind,         \* which of the two it is
  up,           \* the daemon runs
  entries,      \* its entries, by id
  lastEntryId,
  (* the host and pldmd *)
  host,         \* its state
  dumps,        \* the size of the dump of each source id, NoSize if none
  asked,        \* the dumps it was asked for and has not made
  notices,      \* notifications on their way to the manager
  acks,         \* the source ids it was asked to delete and has not
  sending,      \* the dumps it sends since this daemon asked it to
  (* observed *)
  missed        \* the host's dumps whose notification the manager has missed

manager == <<entries, lastEntryId>>
machine == <<host, dumps, asked>>
vars    == <<kind, up, manager, machine, notices, acks, sending, missed>>

HostStates == {"Running", "Quiesced", "Off"}

Ids     == 1 .. MaxId
NoEntry == [source |-> INVALID_SOURCE_ID, size |-> NoSize, status |-> "none",
            uri |-> FALSE]
EntryType == [source : SourceIds \cup {INVALID_SOURCE_ID},
              size   : Sizes \cup {NoSize},
              status : {"none", "InProgress", "Completed"},
              uri    : BOOLEAN]

Live          == {i \in Ids : entries[i] # NoEntry}
Running       == host = "Running"
Notice(s, z)  == [source |-> s, size |-> z]

Waiting(es)   == {i \in Ids : es[i].status = "InProgress"
                              /\ es[i].source = INVALID_SOURCE_ID}
Named(s)      == {i \in Live : entries[i].source = s}
NewEntry      == [NoEntry EXCEPT !.status = "InProgress"]
Completed(s, z) == [source |-> s, size |-> z, status |-> "Completed",
                    uri |-> FALSE]
\* Entry::update keeps the offload URI.
Updated(e, s, z) == [Completed(s, z) EXCEPT !.uri = e.uri]

-----------------------------------------------------------------------------
(* The host comes to the state h *)

\* What it has in memory, and what it was asked for, goes with it.
MachineGoes(h) ==
  /\ host' = h
  /\ IF h = "Off"
     THEN dumps' = [s \in SourceIds |-> NoSize] /\ asked' = 0
     ELSE UNCHANGED <<dumps, asked>>

Sent(h)       == IF h = "Running" THEN sending ELSE {}
AcksLeft(h, a) == IF h = "Off" THEN {} ELSE a

-----------------------------------------------------------------------------
(* Deleting and offloading entries *)

(* delete_ looks at the host twice: to refuse an entry that is offloaded,   *)
(* and to ask the host to delete the dump.  The host may move meanwhile,    *)
(* once in a call: from the look t on its state is h.                       *)
Looks(is, h) == IF h = host THEN {0} ELSE {2 * i : i \in is} \cup {2 * i + 1 : i \in is}

Sees(look, t, h) == IF look < t THEN host ELSE h

\* Mutant: the URI is not looked at.
MutantDeletesOffloaded(i, t, h) == TRUE

\* An entry whose offload URI is set is not deleted while the host runs.
MayDelete(i, t, h) == ~(entries[i].uri /\ Sees(2 * i, t, h) = "Running")

Sources(is) == {entries[i].source : i \in is} \ {INVALID_SOURCE_ID}

\* The dumps of these entries that the host is asked to delete: it runs then.
Acks(is, t, h) == Sources({i \in is : Sees(2 * i + 1, t, h) = "Running"})

Without(is) == [i \in Ids |-> IF i \in is THEN NoEntry ELSE entries[i]]

\* The entries are gone: of a dump that the host was not asked to delete
\* nobody knows any more.
Removed(is, t, h) ==
  /\ \A i \in is : MayDelete(i, t, h)
  /\ entries' = Without(is)
  /\ MachineGoes(h)
  /\ acks' = AcksLeft(h, acks \cup Acks(is, t, h))
  /\ sending' = Sent(h)
  /\ missed' = missed \cup (Sources(is) \ (acks \cup Acks(is, t, h)))
  /\ UNCHANGED <<kind, up, lastEntryId, notices>>

\* Entry::delete_, as called by a client.  It throws, and changes nothing,
\* when it may not delete the entry, or cannot reach the host.
DeleteEntry(i) ==
  /\ up /\ i \in Live
  /\ \E h \in HostStates : \E t \in Looks({i}, h) : Removed({i}, t, h)

\* deleteAll calls delete_ in the order of the ids: the first one that throws
\* ends it.  The service that clears the entries at power off calls it.
DeleteAll ==
  /\ up
  /\ \E n \in Live, h \in HostStates :
       LET is == {i \in Live : i <= n}
       IN  \E t \in Looks(is, h) : Removed(is, t, h)

\* The URI is set before the host is asked: it stays when that fails.  Only
\* the resource dumps' entry looks at the host first.  A host that runs, and
\* has the dump, may send it.
InitiateOffload(i) ==
  /\ up /\ i \in Live
  /\ kind = "resource" => Running
  /\ entries' = [entries EXCEPT ![i].uri = TRUE]
  /\ \/ UNCHANGED sending
     \/ /\ Running
        /\ entries[i].source # INVALID_SOURCE_ID
        /\ dumps[entries[i].source] # NoSize
        /\ sending' = sending \cup {entries[i].source}
  /\ UNCHANGED <<kind, up, lastEntryId, machine, notices, acks, missed>>

\* External: pldmd clears the URI when the offload is over.
OffloadEnds(i) ==
  /\ up /\ i \in Live
  /\ entries' = [entries EXCEPT ![i].uri = FALSE]
  /\ sending' = sending \ {entries[i].source}
  /\ UNCHANGED <<kind, up, lastEntryId, machine, notices, acks, missed>>

-----------------------------------------------------------------------------
(* createDump *)

MakeEntry ==
  /\ up
  /\ lastEntryId < MaxId
  /\ asked < MaxAsked
  /\ entries' = [entries EXCEPT ![lastEntryId + 1] = NewEntry]
  /\ lastEntryId' = lastEntryId + 1
  /\ asked' = asked + 1
  /\ UNCHANGED <<kind, up, host, dumps, notices, acks, sending, missed>>

\* The answers of isSystemDumpInProgress: it reads a BIOS attribute, which is
\* set some time after the host began and cleared some time after it is done,
\* and takes one that it cannot read for no dump.
isSystemDumpInProgress == BOOLEAN

CreateSystemDump ==
  /\ kind = "system"
  /\ FALSE \in isSystemDumpInProgress
  /\ host # "Off"
  /\ MakeEntry

\* pldmd passes the request on when it sees the entry.
CreateResourceDump ==
  /\ kind = "resource"
  /\ Running
  /\ MakeEntry

-----------------------------------------------------------------------------
(* notify *)

AddEntry(es, s, z) ==
  /\ lastEntryId < MaxId
  /\ entries' = [es EXCEPT ![lastEntryId + 1] = Completed(s, z)]
  /\ lastEntryId' = lastEntryId + 1

\* The first entry that waits for a dump gets it, else a new one is made.
Assign(es, s, z) ==
  \/ \E i \in Waiting(es) :
       /\ \A j \in Waiting(es) : i <= j
       /\ entries' = [es EXCEPT ![i] = Updated(es[i], s, z)]
       /\ UNCHANGED lastEntryId
  \/ Waiting(es) = {} /\ AddEntry(es, s, z)

\* The call takes the notification off the bus.
Handles(s, z) ==
  /\ up
  /\ Notice(s, z) \in notices
  /\ notices' = notices \ {Notice(s, z)}
  /\ UNCHANGED kind

\* An entry has the dump already.
Known(s, z) ==
  \E i \in Named(s) :
    /\ entries[i].status = "Completed"
    /\ kind = "system" => entries[i].size = z

\* Mutant: a dump is looked for by its size as well, as the system's are.
MutantIgnores(s, z) ==
  /\ Handles(s, z)
  /\ \E i \in Live : entries[i].size = z
  /\ UNCHANGED <<up, manager, machine, acks, sending, missed>>

NotifyIgnored(s, z) ==
  /\ Handles(s, z)
  /\ Known(s, z)
  /\ UNCHANGED <<up, manager, machine, acks, sending, missed>>

\* Mutant: an entry that waits is preferred to looking for a duplicate.
MutantAssignsFirst(s, z) ==
  /\ Handles(s, z)
  /\ Named(s) = {} \/ Waiting(entries) # {}
  /\ Assign(entries, s, z)
  /\ missed' = missed \ {s}
  /\ UNCHANGED <<up, machine, acks, sending>>

NotifyNew(s, z) ==
  /\ Handles(s, z)
  /\ Named(s) = {}
  /\ Assign(entries, s, z)
  /\ missed' = missed \ {s}
  /\ UNCHANGED <<up, machine, acks, sending>>

\* A system dump of the same source id and another size is a stale entry,
\* and is deleted from within the loop over the entries: the loop goes on
\* from an iterator to the entry erased.  It may find the other entries or not,
\* take the erased one for an entry that waits, or crash.  To delete the entry
\* asks the host to delete the dump of its source id.
NotifyStale(s, z) ==
  /\ kind = "system"
  /\ Handles(s, z)
  /\ Named(s) # {} /\ ~Known(s, z)
  /\ \E h \in HostStates : \E t \in Looks(Named(s), h) :
       /\ \A i \in Named(s) : MayDelete(i, t, h)
       /\ MachineGoes(h)
       /\ acks' = AcksLeft(h, acks \cup Acks(Named(s), t, h))
  /\ \/ /\ \/ Assign(Without(Named(s)), s, z)
           \/ AddEntry(Without(Named(s)), s, z)
        /\ missed' = missed \ {s}
        /\ sending' = Sent(host')
        /\ UNCHANGED up
     \/ /\ entries' = Without(Named(s))
        /\ missed' = missed \cup {s}
        /\ sending' = Sent(host')
        /\ UNCHANGED <<up, lastEntryId>>
     \/ /\ up' = FALSE
        /\ entries' = [i \in Ids |-> NoEntry]
        /\ lastEntryId' = 0
        /\ missed' = SourceIds
        /\ sending' = {}

\* The stale entry cannot be deleted: notify throws.
NotifyThrows(s, z) ==
  /\ kind = "system"
  /\ Handles(s, z)
  /\ Named(s) # {} /\ ~Known(s, z)
  /\ UNCHANGED <<up, manager, machine, acks, sending, missed>>

Notify(s, z) ==
  \/ NotifyIgnored(s, z)
  \/ NotifyNew(s, z)
  \/ NotifyStale(s, z)
  \/ NotifyThrows(s, z)

-----------------------------------------------------------------------------
(* The daemon goes down, and comes back: restore() of both is empty. *)

\* What the host tells of meanwhile is lost.
Crash ==
  /\ up
  /\ up' = FALSE
  /\ entries' = [i \in Ids |-> NoEntry]
  /\ lastEntryId' = 0
  /\ notices' = {}
  /\ missed' = SourceIds
  /\ sending' = {}
  /\ UNCHANGED <<kind, machine, acks>>

Restart ==
  /\ ~up
  /\ up' = TRUE
  /\ UNCHANGED <<kind, manager, machine, notices, acks, sending, missed>>

-----------------------------------------------------------------------------
(* The host and pldmd, external *)

Tell(s, z) == notices' = IF up THEN notices \cup {Notice(s, z)} ELSE notices

\* A dump is made, as asked or because of a fault.  One system dump may answer
\* several requests.
HostMakes(s, z) ==
  /\ host # "Off"
  /\ dumps[s] = NoSize
  /\ s \notin acks
  /\ ~\E n \in notices : n.source = s
  /\ dumps' = [dumps EXCEPT ![s] = z]
  /\ \/ UNCHANGED asked
     \/ asked > 0 /\ asked' = asked - 1
     \/ kind = "system" /\ asked' = 0
  /\ Tell(s, z)
  /\ missed' = IF up THEN missed \ {s} ELSE missed \cup {s}
  /\ UNCHANGED <<kind, up, manager, host, acks, sending>>

\* The host announces a dump it still has.
HostRepeats(s) ==
  /\ host # "Off"
  /\ dumps[s] # NoSize
  /\ up
  /\ Tell(s, dumps[s])
  /\ missed' = missed \ {s}
  /\ UNCHANGED <<kind, up, manager, machine, acks, sending>>

HostDeletes(s) ==
  /\ host # "Off"
  /\ s \in acks
  /\ acks' = acks \ {s}
  /\ sending' = sending \ {s}
  /\ dumps' = [dumps EXCEPT ![s] = NoSize]
  /\ UNCHANGED <<kind, up, manager, host, asked, notices, missed>>

HostGoes(h) ==
  /\ host # h
  /\ MachineGoes(h)
  /\ acks' = AcksLeft(h, acks)
  /\ sending' = Sent(h)
  /\ UNCHANGED <<kind, up, manager, notices, missed>>

-----------------------------------------------------------------------------
Init ==
  /\ kind \in {"system", "resource"}
  /\ up = TRUE
  /\ entries = [i \in Ids |-> NoEntry]
  /\ lastEntryId = 0
  /\ host = "Running"
  /\ dumps = [s \in SourceIds |-> NoSize]
  /\ asked = 0
  /\ notices = {}
  /\ acks = {}
  /\ sending = {}
  /\ missed = {}

Next ==
  \/ CreateSystemDump \/ CreateResourceDump
  \/ \E i \in Ids : DeleteEntry(i) \/ InitiateOffload(i) \/ OffloadEnds(i)
  \/ DeleteAll
  \/ \E s \in SourceIds, z \in Sizes : Notify(s, z) \/ HostMakes(s, z)
  \/ \E s \in SourceIds : HostRepeats(s) \/ HostDeletes(s)
  \/ \E h \in HostStates : HostGoes(h)
  \/ Crash
  \/ Restart

Spec == Init /\ [][Next]_vars

-----------------------------------------------------------------------------
(* Properties *)

\* The variables keep their types; an entry is one that waits for its dump or
\* one of a dump the host told of; without the daemon there are no entries.
TypeOK ==
  /\ kind \in {"system", "resource"}
  /\ up \in BOOLEAN
  /\ entries \in [Ids -> EntryType]
  /\ \A i \in Ids : (entries[i].status = "Completed")
                      <=> (entries[i].source # INVALID_SOURCE_ID)
  /\ lastEntryId \in 0 .. MaxId
  /\ \A i \in Live : up /\ i <= lastEntryId
  /\ host \in HostStates
  /\ dumps \in [SourceIds -> Sizes \cup {NoSize}]
  /\ asked \in 0 .. MaxAsked
  /\ notices \subseteq [source : SourceIds, size : Sizes]
  /\ acks \subseteq SourceIds
  /\ sending \subseteq SourceIds
  /\ missed \subseteq SourceIds

\* No two entries are of one dump of the host, however often it is told of and
\* whatever entries wait: notify goes on through the entries after the first
\* that waits, to see that the dump is not a duplicate.
SourceNamesOneEntry ==
  \A i, j \in Live :
    entries[i].source = entries[j].source /\ i # j
      => entries[i].source = INVALID_SOURCE_ID

\* A dump that is in the host has an entry, or is told of, or is to be deleted,
\* unless the manager missed it: notify takes no dump for one it has, an entry
\* is not removed and its dump left.
HostDumpsKnown ==
  \A s \in SourceIds :
    dumps[s] # NoSize =>
      \/ Named(s) # {}
      \/ \E n \in notices : n.source = s
      \/ s \in acks
      \/ s \in missed

\* The host is never asked to delete a dump that it is sending to a client of
\* this daemon: not though delete_ looks at its state twice (system_dump_entry.cpp:39,
\* :52) and it moves meanwhile, not through another entry of the dump, not after
\* a notification gave the entry another dump.
OffloadNotDeleted == [][\A s \in sending : s \in acks' => s \in acks]_vars

\* What notify says of a dump with the source id of an entry and another size:
\* it is new, and only the stale entry goes.  The host is not asked to delete
\* the dump it has just told of.
NewDumpIsKept ==
  [][\A s \in SourceIds : NotifyStale(s, dumps[s]) => s \in acks \/ s \notin acks']_vars

=============================================================================
