------------------------ MODULE OpenpowerDumpProofs ------------------------
(***************************************************************************)
(* Proofs about OpenpowerDump, for any ids, source ids and sizes, and for  *)
(* both managers.  Inv is inductive: besides the properties it says that   *)
(* there is an entry exactly where a status is, which is what keeps an     *)
(* entry in place when its offload URI is cleared, and that a dump that is *)
(* being sent has an entry with the URI, and a host that runs.             *)
(***************************************************************************)
EXTENDS OpenpowerDump, TLAPS

StatusInv == \A i \in Live : entries[i].status # "none"

SendingInv ==
  \A s \in sending : Running /\ \E i \in Named(s) : entries[i].uri

Inv ==
  /\ TypeOK
  /\ StatusInv
  /\ SourceNamesOneEntry
  /\ HostDumpsKnown
  /\ SendingInv

USE IdAssumption, SourceAssumption, SizeAssumption
    DEF INVALID_SOURCE_ID, NoSize, Ids, HostStates

-----------------------------------------------------------------------------
(* Entries *)

LEMMA EntriesAreTyped ==
  /\ NoEntry \in EntryType
  /\ NewEntry \in EntryType
  /\ \A s \in SourceIds, z \in Sizes, e \in EntryType :
       Completed(s, z) \in EntryType /\ Updated(e, s, z) \in EntryType
  BY DEF NoEntry, NewEntry, Completed, Updated, EntryType

LEMMA EntriesOfADump ==
  ASSUME NEW s \in SourceIds, NEW z \in Sizes, NEW e \in EntryType
  PROVE  /\ Completed(s, z).source = s /\ Completed(s, z).status = "Completed"
         /\ Updated(e, s, z).source = s /\ Updated(e, s, z).status = "Completed"
         /\ Completed(s, z) # NoEntry /\ Updated(e, s, z) # NoEntry
  BY DEF Completed, Updated, NoEntry, EntryType

\* The entries that remain when some are removed.
LEMMA Remaining ==
  ASSUME Inv, NEW is \in SUBSET Live
  PROVE  /\ Without(is) \in [Ids -> EntryType]
         /\ \A i \in Ids : Without(is)[i] = IF i \in is THEN NoEntry ELSE entries[i]
         /\ \A i \in is : Without(is)[i].source = INVALID_SOURCE_ID
                          /\ Without(is)[i].status = "none"
<1>1. NoEntry \in EntryType /\ entries \in [Ids -> EntryType] /\ is \subseteq Ids
  BY EntriesAreTyped DEF Inv, TypeOK, Live
<1>2. \A i \in Ids : Without(is)[i] = IF i \in is THEN NoEntry ELSE entries[i]
  BY DEF Without
<1>3. Without(is) \in [Ids -> EntryType]
  BY <1>1 DEF Without
<1>4. NoEntry.source = INVALID_SOURCE_ID /\ NoEntry.status = "none"
  BY DEF NoEntry
<1> QED
  BY <1>1, <1>2, <1>3, <1>4

\* A dump of which no entry is left is given to one: the one that waited, or
\* a new one.  The others stay.
LEMMA AssignGives ==
  ASSUME Inv, up, NEW is \in SUBSET Live, NEW s \in SourceIds, NEW z \in Sizes,
         Assign(Without(is), s, z) \/ AddEntry(Without(is), s, z)
  PROVE  \E k \in Ids :
           /\ entries' \in [Ids -> EntryType]
           /\ entries'[k].source = s
           /\ entries'[k].status = "Completed"
           /\ entries'[k] # NoEntry
           /\ entries[k].source = INVALID_SOURCE_ID
           /\ \A i \in Ids \ {k} : entries'[i] = Without(is)[i]
           /\ k <= lastEntryId' /\ lastEntryId <= lastEntryId'
           /\ lastEntryId' \in 0 .. MaxId
<1> DEFINE es == Without(is)
<1>1. /\ es \in [Ids -> EntryType]
      /\ \A i \in Ids : es[i] = IF i \in is THEN NoEntry ELSE entries[i]
      /\ \A i \in is : es[i].source = INVALID_SOURCE_ID /\ es[i].status = "none"
      /\ lastEntryId \in 0 .. MaxId
  BY Remaining DEF Inv, TypeOK
<1> HIDE DEF es
<1>2. CASE \E i \in Waiting(es) :
             /\ \A j \in Waiting(es) : i <= j
             /\ entries' = [es EXCEPT ![i] = Updated(es[i], s, z)]
             /\ UNCHANGED lastEntryId
  <2>1. PICK k \in Waiting(es) :
               /\ entries' = [es EXCEPT ![k] = Updated(es[k], s, z)]
               /\ UNCHANGED lastEntryId
    BY <1>2
  <2>2. /\ k \in Ids \ is
        /\ es[k] = entries[k] /\ es[k] \in EntryType
        /\ entries[k].source = INVALID_SOURCE_ID
        /\ entries[k].status = "InProgress"
    BY <1>1 DEF Waiting
  <2>3. k \in Live
    BY <2>2 DEF Live, NoEntry
  <2>4. k <= lastEntryId
    BY <2>3 DEF Inv, TypeOK
  <2>5. Updated(es[k], s, z) \in EntryType
    BY <2>2, EntriesAreTyped
  <2>6. /\ entries' \in [Ids -> EntryType]
        /\ entries'[k] = Updated(es[k], s, z)
        /\ \A i \in Ids \ {k} : entries'[i] = es[i]
    BY <1>1, <2>1, <2>2, <2>5
  <2> QED
    BY <1>1, <2>1, <2>2, <2>4, <2>6, EntriesOfADump DEF es
<1>3. CASE AddEntry(es, s, z)
  <2> DEFINE k == lastEntryId + 1
  <2>1. /\ k \in Ids /\ k <= MaxId
        /\ entries' = [es EXCEPT ![k] = Completed(s, z)]
        /\ lastEntryId' = k
    BY <1>1, <1>3 DEF AddEntry
  <2>2. k \notin Live
    BY <1>1, <2>1 DEF Inv, TypeOK
  <2>3. entries[k].source = INVALID_SOURCE_ID
    BY <2>1, <2>2 DEF Live, NoEntry
  <2>4. Completed(s, z) \in EntryType
    BY EntriesAreTyped
  <2>5. /\ entries' \in [Ids -> EntryType]
        /\ entries'[k] = Completed(s, z)
        /\ \A i \in Ids \ {k} : entries'[i] = es[i]
    BY <1>1, <2>1, <2>4
  <2>6. Completed(s, z).source = s /\ Completed(s, z).status = "Completed"
        /\ Completed(s, z) # NoEntry
    BY DEF Completed, NoEntry
  <2> HIDE DEF k
  <2> QED
    <3>1. k <= lastEntryId' /\ lastEntryId <= lastEntryId' /\ lastEntryId' \in 0 .. MaxId
      BY <1>1, <2>1 DEF k
    <3> QED
      BY <2>1, <2>3, <2>5, <2>6, <3>1 DEF es
<1> QED
  BY <1>2, <1>3 DEF Assign, es
-----------------------------------------------------------------------------
(* Every step keeps the invariant *)

LEMMA InitInv == Init => Inv
<1> SUFFICES ASSUME Init PROVE Inv
  OBVIOUS
<1>1. /\ entries \in [Ids -> EntryType]
      /\ \A i \in Ids : entries[i] = NoEntry
      /\ NoEntry.source = INVALID_SOURCE_ID /\ NoEntry.status = "none"
      /\ Live = {}
  BY EntriesAreTyped DEF Init, Live, NoEntry
<1>2. TypeOK
  BY <1>1 DEF Init, TypeOK
<1>3. StatusInv /\ SourceNamesOneEntry /\ HostDumpsKnown /\ SendingInv
  BY <1>1 DEF Init, StatusInv, SourceNamesOneEntry, HostDumpsKnown, SendingInv
<1> QED
  BY <1>2, <1>3 DEF Inv

\* An entry of a dump is there: its source id is one of the host's.
LEMMA NamedIsLive ==
  ASSUME Inv, NEW s \in SourceIds
  PROVE  Named(s) = {i \in Ids : entries[i].source = s}
  BY DEF Named, Live, NoEntry

\* The entries stay, of which the status and the source say what they did; what
\* is left to show is of the other variables.
LEMMA EntriesStay ==
  ASSUME Inv, UNCHANGED <<kind, up, lastEntryId>>,
         entries' \in [Ids -> EntryType],
         \A i \in Ids : /\ entries'[i].source = entries[i].source
                        /\ entries'[i].status = entries[i].status
                        /\ entries'[i] # NoEntry => entries[i] # NoEntry,
         host' \in HostStates,
         dumps' \in [SourceIds -> Sizes \cup {NoSize}],
         asked' \in 0 .. MaxAsked,
         notices' \subseteq [source : SourceIds, size : Sizes],
         acks' \subseteq SourceIds, sending' \subseteq SourceIds,
         missed' \subseteq SourceIds
  PROVE  /\ TypeOK' /\ StatusInv' /\ SourceNamesOneEntry'
         /\ \A s \in SourceIds : Named(s)' = Named(s)
<1>1. Live' \subseteq Live
  BY DEF Live
<1>2. TypeOK'
  BY <1>1 DEF Inv, TypeOK
<1>3. StatusInv' /\ SourceNamesOneEntry'
  BY <1>1 DEF Inv, StatusInv, SourceNamesOneEntry, Live
<1>4. \A s \in SourceIds : Named(s)' = Named(s)
  <2> TAKE s \in SourceIds
  <2>1. Named(s)' = {i \in Ids : entries'[i].source = s}
    BY DEF Named, Live, NoEntry
  <2> QED
    BY <2>1, NamedIsLive
<1> QED
  BY <1>2, <1>3, <1>4

\* What is still sent goes on from an entry that stays.
LEMMA SendingStays ==
  ASSUME Inv, sending' \subseteq sending, sending' # {} => host' = "Running",
         \A i \in Live : entries[i].source \in sending' => entries'[i] = entries[i]
  PROVE  SendingInv'
<1> SUFFICES ASSUME NEW s \in sending'
             PROVE  host' = "Running" /\ \E i \in Named(s)' : entries'[i].uri
  BY DEF SendingInv, Running
<1>1. PICK i \in Named(s) : entries[i].uri
  BY DEF Inv, SendingInv
<1>2. i \in Live /\ entries[i].source = s /\ entries'[i] = entries[i]
  BY <1>1 DEF Named
<1> QED
  BY <1>1, <1>2 DEF Named, Live

LEMMA MachineGoesSomewhere ==
  ASSUME Inv, NEW h \in HostStates, MachineGoes(h)
  PROVE  /\ host' = h
         /\ dumps' \in [SourceIds -> Sizes \cup {NoSize}]
         /\ asked' \in 0 .. MaxAsked
         /\ \A s \in SourceIds : dumps'[s] # NoSize => h # "Off" /\ dumps[s] # NoSize
  BY DEF MachineGoes, Inv, TypeOK

\* A dump that is sent, and goes on being sent though the host may have moved,
\* is not of an entry that may be deleted.
LEMMA SentStays ==
  ASSUME Inv, NEW t, NEW h \in HostStates, NEW is \in SUBSET Live,
         \A i \in is : MayDelete(i, t, h)
  PROVE  /\ Sent(h) \subseteq sending
         /\ Sent(h) # {} => h = "Running"
         /\ \A i \in is : entries[i].source \notin Sent(h)
<1>1. ASSUME NEW i \in is, entries[i].source \in Sent(h) PROVE FALSE
  <2>1. h = "Running" /\ entries[i].source \in sending
    BY <1>1 DEF Sent
  <2>2. Running /\ entries[i].source \in SourceIds
    BY <2>1 DEF Inv, SendingInv, TypeOK
  <2>3. PICK j \in Named(entries[i].source) : entries[j].uri
    BY <2>1 DEF Inv, SendingInv
  <2>4. i = j
    BY <2>2, <2>3 DEF Inv, SourceNamesOneEntry, Named
  <2> QED
    BY <1>1, <2>1, <2>2, <2>3, <2>4 DEF MayDelete, Sees, Running
<1> QED
  BY <1>1 DEF Sent

\* Removing entries: nobody forgets a dump, of which the host has been asked to
\* rid itself or which counts as missed.
LEMMA RemoveStep ==
  ASSUME Inv, up, NEW is \in SUBSET Live, NEW t, NEW h \in HostStates,
         Removed(is, t, h)
  PROVE  Inv'
<1>1. /\ UNCHANGED <<kind, up, lastEntryId, notices>>
      /\ entries' = Without(is) /\ MachineGoes(h)
      /\ acks' = AcksLeft(h, acks \cup Acks(is, t, h))
      /\ missed' = missed \cup (Sources(is) \ (acks \cup Acks(is, t, h)))
      /\ sending' = Sent(h)
  BY DEF Removed
<1>0. /\ host' = h
      /\ dumps' \in [SourceIds -> Sizes \cup {NoSize}]
      /\ asked' \in 0 .. MaxAsked
      /\ \A s \in SourceIds : dumps'[s] # NoSize => h # "Off" /\ dumps[s] # NoSize
  BY <1>1, MachineGoesSomewhere
<1>2. Sources(is) \subseteq SourceIds
  BY DEF Sources, Live, Inv, TypeOK, EntryType
<1>3. /\ Acks(is, t, h) \subseteq Sources(is)
      /\ h # "Off" => acks' = acks \cup Acks(is, t, h)
      /\ acks' \subseteq acks \cup Acks(is, t, h)
  BY <1>1 DEF Acks, Sources, AcksLeft
<1>4. Live' = Live \ is
  BY <1>1, Remaining DEF Live, Inv, TypeOK
<1>5. TypeOK'
  <2>1. /\ entries' \in [Ids -> EntryType]
        /\ \A i \in Ids : entries'[i] = IF i \in is THEN NoEntry ELSE entries[i]
        /\ \A i \in is : entries'[i].source = INVALID_SOURCE_ID
                         /\ entries'[i].status = "none"
    BY <1>1, Remaining
  <2>2. \A i \in Ids : (entries'[i].status = "Completed")
                         <=> (entries'[i].source # INVALID_SOURCE_ID)
    BY <2>1 DEF Inv, TypeOK
  <2>3. acks' \subseteq SourceIds /\ missed' \subseteq SourceIds
    BY <1>1, <1>2, <1>3 DEF Inv, TypeOK
  <2>4. \A i \in Live' : up' /\ i <= lastEntryId'
    BY <1>1, <1>4 DEF Inv, TypeOK
  <2>5. sending' \subseteq SourceIds
    BY <1>1 DEF Sent, Inv, TypeOK
  <2> QED
    BY <1>0, <1>1, <2>1, <2>2, <2>3, <2>4, <2>5 DEF Inv, TypeOK
<1>6. StatusInv' /\ SourceNamesOneEntry'
  BY <1>1, <1>4, Remaining DEF Inv, StatusInv, SourceNamesOneEntry, Live
<1>7. HostDumpsKnown'
  <2> SUFFICES ASSUME NEW s \in SourceIds, dumps'[s] # NoSize
               PROVE  \/ Named(s)' # {}
                      \/ \E n \in notices' : n.source = s
                      \/ s \in acks'
                      \/ s \in missed'
    BY DEF HostDumpsKnown
  <2>0. dumps[s] # NoSize /\ acks' = acks \cup Acks(is, t, h)
    BY <1>0, <1>3
  <2>1. CASE Named(s) \subseteq is /\ Named(s) # {}
    <3>1. s \in Sources(is)
      BY <2>1 DEF Named, Sources
    <3> QED
      BY <1>1, <2>0, <3>1
  <2>2. CASE ~(Named(s) \subseteq is)
    <3>1. PICK i \in Named(s) : i \notin is
      BY <2>2
    <3>2. i \in Ids /\ entries'[i] = entries[i] /\ entries[i].source = s
      BY <1>1, <3>1, Remaining DEF Named, Live
    <3>3. i \in Named(s)'
      BY <3>1, <3>2, <1>4 DEF Named
    <3> QED
      BY <3>3
  <2>3. CASE Named(s) = {}
    BY <1>1, <2>0, <2>3 DEF Inv, HostDumpsKnown
  <2> QED
    BY <2>1, <2>2, <2>3
<1>8. SendingInv'
  <2>1. \A i \in is : MayDelete(i, t, h)
    BY DEF Removed
  <2>2. \A i \in Live \ is : entries'[i] = entries[i]
    BY <1>1, Remaining DEF Live
  <2> QED
    BY <1>0, <1>1, <2>1, <2>2, SentStays, SendingStays
<1> QED
  BY <1>5, <1>6, <1>7, <1>8 DEF Inv

\* The URI of an entry is set, and then the dump may be sent, or cleared, and
\* then it is not.
LEMMA UriStep ==
  ASSUME Inv, up, NEW i \in Live, NEW b \in BOOLEAN,
         entries' = [entries EXCEPT ![i].uri = b],
         sending' \subseteq SourceIds,
         \A s \in sending' \ {entries[i].source} : s \in sending,
         entries[i].source \in sending' => b /\ Running,
         UNCHANGED <<kind, up, lastEntryId, machine, notices, acks, missed>>
  PROVE  Inv' /\ Live' = Live
<1>1. i \in Ids /\ entries[i] \in EntryType /\ entries[i].status # "none"
  BY DEF Live, Inv, TypeOK, StatusInv
<1> DEFINE e == [entries[i] EXCEPT !.uri = b]
<1>2. /\ e \in EntryType /\ e.source = entries[i].source
      /\ e.status = entries[i].status /\ e # NoEntry
  BY <1>1 DEF EntryType, NoEntry
<1>3. /\ entries' \in [Ids -> EntryType]
      /\ entries'[i] = e
      /\ \A j \in Ids \ {i} : entries'[j] = entries[j]
  BY <1>1, <1>2 DEF Inv, TypeOK
<1> HIDE DEF e
<1>4. \A j \in Ids : /\ entries'[j].source = entries[j].source
                     /\ entries'[j].status = entries[j].status
                     /\ entries'[j] # NoEntry <=> entries[j] # NoEntry
  BY <1>2, <1>3 DEF Live
<1>5. UNCHANGED <<host, dumps, asked>>
  BY DEF machine
<1>6. /\ TypeOK' /\ StatusInv' /\ SourceNamesOneEntry'
      /\ \A s \in SourceIds : Named(s)' = Named(s)
  BY <1>3, <1>4, <1>5, EntriesStay DEF Inv, TypeOK
<1>7. HostDumpsKnown'
  BY <1>5, <1>6 DEF Inv, HostDumpsKnown
<1>8. SendingInv'
  <2> SUFFICES ASSUME NEW s \in sending'
               PROVE  host' = "Running" /\ \E j \in Named(s)' : entries'[j].uri
    BY DEF SendingInv, Running
  <2>1. CASE s = entries[i].source
    <3>1. i \in Named(s)' /\ entries'[i].uri
      <4>1. i \in Named(s)
        BY <2>1 DEF Named
      <4>2. e.uri = b
        BY <1>1 DEF e, EntryType
      <4> QED
        BY <1>3, <1>6, <2>1, <4>1, <4>2
    <3> QED
      BY <1>5, <2>1, <3>1 DEF Running
  <2>2. CASE s # entries[i].source
    <3>1. s \in sending
      BY <2>2
    <3>2. PICK j \in Named(s) : entries[j].uri
      BY <3>1 DEF Inv, SendingInv
    <3>3. j \in Ids /\ j # i /\ j \in Named(s)'
      BY <1>6, <2>2, <3>2 DEF Named, Live
    <3> QED
      BY <1>3, <1>5, <3>1, <3>2, <3>3 DEF Inv, SendingInv, Running
  <2> QED
    BY <2>1, <2>2
<1> QED
  BY <1>4, <1>6, <1>7, <1>8 DEF Inv, Live

LEMMA MakeEntryStep ==
  ASSUME Inv, MakeEntry
  PROVE  Inv'
<1> DEFINE k == lastEntryId + 1
<1>1. /\ up /\ k \in Ids /\ asked + 1 \in 0 .. MaxAsked
      /\ entries' = [entries EXCEPT ![k] = NewEntry]
      /\ lastEntryId' = k /\ asked' = asked + 1
      /\ UNCHANGED <<kind, up, host, dumps, notices, acks, sending, missed>>
  BY DEF MakeEntry, Inv, TypeOK
<1>2. k \notin Live /\ entries[k] = NoEntry
  BY <1>1 DEF Inv, TypeOK, Live
<1>3. /\ entries' \in [Ids -> EntryType]
      /\ entries'[k] = NewEntry
      /\ \A j \in Ids \ {k} : entries'[j] = entries[j]
  BY <1>1, EntriesAreTyped DEF Inv, TypeOK
<1>4. /\ NewEntry.source = INVALID_SOURCE_ID /\ NewEntry.status = "InProgress"
      /\ NoEntry.source = INVALID_SOURCE_ID
  BY DEF NewEntry, NoEntry
<1>5. Live' = Live \cup {k} /\ NewEntry # NoEntry
  BY <1>1, <1>3 DEF Live, NewEntry, NoEntry
<1>6. \A i \in Live \cup {k} : i <= k
  BY <1>1 DEF Inv, TypeOK, Live
<1> HIDE DEF k
<1>7. TypeOK'
  <2>1. lastEntryId' \in 0 .. MaxId
    BY <1>1
  <2> QED
    BY <1>1, <1>3, <1>4, <1>5, <1>6, <2>1 DEF Inv, TypeOK
<1>8. StatusInv' /\ SourceNamesOneEntry'
  BY <1>1, <1>3, <1>4, <1>5 DEF Inv, StatusInv, SourceNamesOneEntry, Live
<1>9. HostDumpsKnown'
  <2>1. \A s \in SourceIds : Named(s) \subseteq Named(s)'
    BY <1>2, <1>3, <1>5 DEF Named, Live
  <2> QED
    BY <1>1, <2>1 DEF Inv, HostDumpsKnown
<1>10. SendingInv'
  <2>1. \A i \in Live : entries'[i] = entries[i]
    BY <1>2, <1>3 DEF Live
  <2>2. sending # {} => host = "Running"
    BY DEF Inv, SendingInv, Running
  <2> QED
    BY <1>1, <2>1, <2>2, SendingStays
<1> QED
  BY <1>7, <1>8, <1>9, <1>10 DEF Inv

\* The daemon is gone, and so are the entries: every dump counts as missed.
LEMMA GoneStep ==
  ASSUME Inv, up' = FALSE, entries' = [i \in Ids |-> NoEntry], lastEntryId' = 0,
         missed' = SourceIds, sending' = {}, UNCHANGED kind, host' \in HostStates,
         dumps' \in [SourceIds -> Sizes \cup {NoSize}], asked' \in 0 .. MaxAsked,
         notices' \subseteq notices, acks' \subseteq SourceIds
  PROVE  Inv'
<1>1. /\ entries' \in [Ids -> EntryType]
      /\ \A i \in Ids : entries'[i] = NoEntry
      /\ NoEntry.source = INVALID_SOURCE_ID /\ NoEntry.status = "none"
      /\ Live' = {}
  BY EntriesAreTyped DEF Live, NoEntry
<1>2. TypeOK'
  <2>1. \A i \in Ids : (entries'[i].status = "Completed")
                         <=> (entries'[i].source # INVALID_SOURCE_ID)
    BY <1>1
  <2>2. lastEntryId' \in 0 .. MaxId
    OBVIOUS
  <2>3. /\ kind' \in {"system", "resource"} /\ up' \in BOOLEAN
        /\ host' \in HostStates
        /\ dumps' \in [SourceIds -> Sizes \cup {NoSize}]
        /\ asked' \in 0 .. MaxAsked
        /\ notices' \subseteq [source : SourceIds, size : Sizes]
    BY DEF Inv, TypeOK
  <2> QED
    BY <1>1, <2>1, <2>2, <2>3 DEF TypeOK
<1>3. StatusInv' /\ SourceNamesOneEntry'
  BY <1>1 DEF StatusInv, SourceNamesOneEntry
<1>4. HostDumpsKnown' /\ SendingInv'
  BY DEF HostDumpsKnown, SendingInv
<1> QED
  BY <1>2, <1>3, <1>4 DEF Inv

LEMMA RestartStep == Inv /\ Restart => Inv'
<1> SUFFICES ASSUME Inv, Restart PROVE Inv'
  OBVIOUS
<1>1. /\ ~up /\ up' = TRUE
      /\ UNCHANGED <<kind, entries, lastEntryId, host, dumps, asked, notices,
                     acks, sending, missed>>
  BY DEF Restart, manager, machine
<1>2. Live' = Live /\ Live = {}
  BY <1>1 DEF Live, Inv, TypeOK
<1>3. TypeOK' /\ StatusInv' /\ SourceNamesOneEntry'
  BY <1>1, <1>2 DEF Inv, TypeOK, StatusInv, SourceNamesOneEntry
<1>4. HostDumpsKnown' /\ SendingInv'
  BY <1>1, <1>2 DEF Inv, HostDumpsKnown, SendingInv, Named, Running
<1> QED
  BY <1>3, <1>4 DEF Inv

\* The host's steps: no entry changes.
LEMMA HostStep ==
  ASSUME Inv, UNCHANGED <<kind, up, manager>>,
         host' \in HostStates,
         sending' \subseteq sending, sending' # {} => host' = "Running",
         dumps' \in [SourceIds -> Sizes \cup {NoSize}],
         asked' \in 0 .. MaxAsked,
         notices \subseteq notices',
         notices' \subseteq [source : SourceIds, size : Sizes],
         acks' \subseteq SourceIds,
         missed' \subseteq SourceIds,
         \A s \in SourceIds :
           dumps'[s] # NoSize =>
             \/ \E n \in notices' : n.source = s
             \/ dumps[s] # NoSize /\ (s \in acks => s \in acks')
                                  /\ (s \in missed => s \in missed')
             \/ s \in missed'
  PROVE  Inv'
<1>1. UNCHANGED <<kind, up, entries, lastEntryId>>
  BY DEF manager
<1>2. /\ TypeOK' /\ StatusInv' /\ SourceNamesOneEntry'
      /\ \A s \in SourceIds : Named(s)' = Named(s)
  BY <1>1, EntriesStay DEF Inv, TypeOK
<1>3. HostDumpsKnown'
  BY <1>2 DEF Inv, HostDumpsKnown
<1>4. SendingInv'
  BY <1>1, SendingStays
<1> QED
  BY <1>2, <1>3, <1>4 DEF Inv

\* A host that sends runs.
LEMMA SendingRuns == Inv /\ sending # {} => host = "Running"
  BY DEF Inv, SendingInv, Running

LEMMA TellTells ==
  ASSUME Inv, NEW s \in SourceIds, NEW z \in Sizes, Tell(s, z)
  PROVE  /\ notices \subseteq notices'
         /\ notices' \subseteq [source : SourceIds, size : Sizes]
         /\ up => \E n \in notices' : n.source = s
<1>1. Notice(s, z) \in [source : SourceIds, size : Sizes] /\ Notice(s, z).source = s
  BY DEF Notice
<1> QED
  BY <1>1 DEF Tell, Inv, TypeOK

LEMMA HostMakesStep ==
  ASSUME Inv, NEW s \in SourceIds, NEW z \in Sizes, HostMakes(s, z)
  PROVE  Inv'
<1>1. /\ UNCHANGED <<kind, up, manager, host, acks, sending>>
      /\ dumps' = [dumps EXCEPT ![s] = z]
      /\ missed' = IF up THEN missed \ {s} ELSE missed \cup {s}
      /\ Tell(s, z)
  BY DEF HostMakes
<1>2. asked' \in 0 .. MaxAsked
  BY DEF HostMakes, Inv, TypeOK
<1>3. \A t \in SourceIds : dumps'[t] = IF t = s THEN z ELSE dumps[t]
  BY <1>1 DEF Inv, TypeOK
<1>4. dumps' \in [SourceIds -> Sizes \cup {NoSize}] /\ missed' \subseteq SourceIds
  BY <1>1 DEF Inv, TypeOK
<1>5. \A t \in SourceIds :
        dumps'[t] # NoSize =>
          \/ \E n \in notices' : n.source = t
          \/ dumps[t] # NoSize /\ (t \in acks => t \in acks')
                               /\ (t \in missed => t \in missed')
          \/ t \in missed'
  <2> TAKE t \in SourceIds
  <2>1. CASE t = s
    BY <1>1, <2>1, TellTells
  <2>2. CASE t # s
    BY <1>1, <1>3, <2>2
  <2> QED
    BY <2>1, <2>2
<1> QED
  BY <1>1, <1>2, <1>4, <1>5, TellTells, SendingRuns, HostStep DEF Inv, TypeOK

LEMMA HostRepeatsStep ==
  ASSUME Inv, NEW s \in SourceIds, HostRepeats(s)
  PROVE  Inv'
<1>1. /\ UNCHANGED <<kind, up, manager, host, dumps, asked, acks, sending>>
      /\ up /\ dumps[s] \in Sizes
      /\ missed' = missed \ {s}
      /\ Tell(s, dumps[s])
  BY DEF HostRepeats, Inv, TypeOK, machine
<1>2. \E n \in notices' : n.source = s
  BY <1>1, TellTells
<1>3. /\ notices \subseteq notices'
      /\ notices' \subseteq [source : SourceIds, size : Sizes]
  BY <1>1, TellTells
<1> QED
  BY <1>1, <1>2, <1>3, SendingRuns, HostStep DEF Inv, TypeOK

LEMMA HostDeletesStep ==
  ASSUME Inv, NEW s \in SourceIds, HostDeletes(s)
  PROVE  Inv'
<1>1. /\ UNCHANGED <<kind, up, manager, host, asked, notices, missed>>
      /\ acks' = acks \ {s} /\ sending' = sending \ {s}
      /\ dumps' = [dumps EXCEPT ![s] = NoSize]
  BY DEF HostDeletes
<1>2. /\ dumps' \in [SourceIds -> Sizes \cup {NoSize}]
      /\ \A t \in SourceIds : dumps'[t] = IF t = s THEN NoSize ELSE dumps[t]
  BY <1>1 DEF Inv, TypeOK
<1>3. acks' \subseteq SourceIds
  BY <1>1 DEF Inv, TypeOK
<1> QED
  BY <1>1, <1>2, <1>3, SendingRuns, HostStep DEF Inv, TypeOK

LEMMA HostGoesStep ==
  ASSUME Inv, NEW h \in HostStates, HostGoes(h)
  PROVE  Inv'
<1>1. /\ UNCHANGED <<kind, up, manager, notices, missed>>
      /\ acks' = AcksLeft(h, acks) /\ sending' = Sent(h)
      /\ MachineGoes(h)
  BY DEF HostGoes
<1>2. /\ host' = h
      /\ dumps' \in [SourceIds -> Sizes \cup {NoSize}]
      /\ asked' \in 0 .. MaxAsked
      /\ \A s \in SourceIds : dumps'[s] # NoSize => h # "Off" /\ dumps[s] # NoSize
  BY <1>1, MachineGoesSomewhere
<1>3. /\ acks' \subseteq acks /\ (h # "Off" => acks' = acks)
      /\ sending' \subseteq sending /\ (sending' # {} => h = "Running")
  BY <1>1 DEF AcksLeft, Sent
<1> QED
  BY <1>1, <1>2, <1>3, HostStep DEF Inv, TypeOK

-----------------------------------------------------------------------------
(* notify *)

\* A notification is handled and no entry changes: there is one of the dump.
LEMMA IgnoredStep ==
  ASSUME Inv, NEW s \in SourceIds, NEW z \in Sizes, Handles(s, z),
         Named(s) # {}, UNCHANGED <<up, manager, machine, acks, sending, missed>>
  PROVE  Inv'
<1>1. /\ UNCHANGED <<kind, up, entries, lastEntryId, host, dumps, asked, acks,
                     sending, missed>>
      /\ notices' = notices \ {Notice(s, z)}
  BY DEF Handles, manager, machine
<1>2. /\ TypeOK' /\ StatusInv' /\ SourceNamesOneEntry'
      /\ \A t \in SourceIds : Named(t)' = Named(t)
  BY <1>1, EntriesStay DEF Inv, TypeOK
<1>3. Notice(s, z).source = s
  BY DEF Notice
<1>4. HostDumpsKnown'
  BY <1>1, <1>2, <1>3 DEF Inv, HostDumpsKnown
<1>5. SendingInv'
  BY <1>1, SendingRuns, SendingStays
<1> QED
  BY <1>2, <1>4, <1>5 DEF Inv

\* A dump is given to an entry, once every entry of its source id is gone.
LEMMA GivenStep ==
  ASSUME Inv, NEW s \in SourceIds, NEW z \in Sizes, Handles(s, z),
         Assign(Without(Named(s)), s, z) \/ AddEntry(Without(Named(s)), s, z),
         UNCHANGED up, host' \in HostStates, acks' \subseteq SourceIds,
         dumps' \in [SourceIds -> Sizes \cup {NoSize}], asked' \in 0 .. MaxAsked,
         \A t \in SourceIds :
           dumps'[t] # NoSize => dumps[t] # NoSize /\ acks \subseteq acks',
         sending' \subseteq sending \ {s}, sending' # {} => host' = "Running",
         missed' = missed \ {s}
  PROVE  Inv'
<1> DEFINE is == Named(s)
<1>0. /\ UNCHANGED <<kind, up>> /\ up
      /\ notices' = notices \ {Notice(s, z)} /\ Notice(s, z).source = s
      /\ is \subseteq Live
  BY DEF Handles, Named, Notice
<1>1. PICK k \in Ids :
        /\ entries' \in [Ids -> EntryType]
        /\ entries'[k].source = s
        /\ entries'[k].status = "Completed"
        /\ entries'[k] # NoEntry
        /\ entries[k].source = INVALID_SOURCE_ID
        /\ \A i \in Ids \ {k} : entries'[i] = Without(is)[i]
        /\ k <= lastEntryId' /\ lastEntryId <= lastEntryId'
        /\ lastEntryId' \in 0 .. MaxId
  BY <1>0, AssignGives
<1>2. \A i \in Ids \ {k} :
        \/ entries'[i] = entries[i] /\ entries'[i].source # s
        \/ entries'[i] = NoEntry /\ entries[i].source = s
  <2>1. \A i \in Ids : /\ Without(is)[i] = IF i \in is THEN NoEntry ELSE entries[i]
                       /\ i \in is <=> entries[i].source = s
    BY <1>0, Remaining, NamedIsLive
  <2>2. NoEntry.source # s
    BY DEF NoEntry
  <2> HIDE DEF is
  <2> QED
    BY <1>1, <2>1, <2>2
<1>3. NoEntry.source = INVALID_SOURCE_ID /\ NoEntry.status = "none"
  BY DEF NoEntry
<1>4. Live' \subseteq Live \cup {k}
  BY <1>1, <1>2 DEF Live
<1>5. TypeOK'
  <2>1. \A i \in Ids : (entries'[i].status = "Completed")
                         <=> (entries'[i].source # INVALID_SOURCE_ID)
    BY <1>1, <1>2, <1>3 DEF Inv, TypeOK
  <2>2. lastEntryId \in Int /\ lastEntryId' \in Int
    BY <1>1 DEF Inv, TypeOK
  <2>3. \A i \in Live' : up' /\ i <= lastEntryId'
    <3> SUFFICES ASSUME NEW i \in Live', i # k PROVE i <= lastEntryId'
      BY <1>0, <1>1
    <3>1. i \in Live /\ i \in Int
      BY <1>4 DEF Live
    <3>2. i <= lastEntryId
      BY <3>1 DEF Inv, TypeOK
    <3> QED
      BY <1>1, <2>2, <3>1, <3>2
  <2> QED
    BY <1>0, <1>1, <2>1, <2>3 DEF Inv, TypeOK
<1>6. StatusInv' /\ SourceNamesOneEntry'
  BY <1>1, <1>2, <1>4 DEF Inv, StatusInv, SourceNamesOneEntry, Live
<1>7. HostDumpsKnown'
  <2> SUFFICES ASSUME NEW t \in SourceIds, dumps'[t] # NoSize
               PROVE  \/ Named(t)' # {}
                      \/ \E n \in notices' : n.source = t
                      \/ t \in acks'
                      \/ t \in missed'
    BY DEF HostDumpsKnown
  <2>1. CASE t = s
    <3>1. k \in Named(s)'
      BY <1>1 DEF Named, Live
    <3> QED
      BY <2>1, <3>1
  <2>2. CASE t # s /\ Named(t) # {}
    <3>1. PICK i \in Named(t) : TRUE
      BY <2>2
    <3>2. i \in Ids /\ entries[i].source = t /\ entries[i] # NoEntry
      BY <3>1 DEF Named, Live
    <3>3. i # k /\ entries'[i] = entries[i]
      BY <1>1, <1>2, <2>2, <3>2
    <3>4. i \in Named(t)'
      BY <3>2, <3>3 DEF Named, Live
    <3> QED
      BY <3>4
  <2>3. CASE t # s /\ Named(t) = {}
    BY <1>0, <2>3 DEF Inv, HostDumpsKnown
  <2> QED
    BY <2>1, <2>2, <2>3
<1>8. SendingInv'
  <2>1. \A i \in Live : entries[i].source \in sending' => entries'[i] = entries[i]
    BY <1>1, <1>2 DEF Live, Inv, TypeOK
  <2> QED
    BY <2>1, SendingStays
<1> QED
  BY <1>5, <1>6, <1>7, <1>8 DEF Inv

LEMMA NotifyNewStep ==
  ASSUME Inv, NEW s \in SourceIds, NEW z \in Sizes, NotifyNew(s, z)
  PROVE  Inv'
<1>1. /\ Handles(s, z) /\ Named(s) = {} /\ Assign(entries, s, z)
      /\ missed' = missed \ {s}
      /\ UNCHANGED <<up, host, dumps, asked, acks, sending>>
  BY DEF NotifyNew, machine
<1>2. Without(Named(s)) = entries
  BY <1>1 DEF Without, Inv, TypeOK
<1>3. s \notin sending
  BY <1>1 DEF Inv, SendingInv
<1>4. sending # {} => host = "Running"
  BY SendingRuns
<1> QED
  BY <1>1, <1>2, <1>3, <1>4, GivenStep DEF Inv, TypeOK

LEMMA NotifyStaleStep ==
  ASSUME Inv, NEW s \in SourceIds, NEW z \in Sizes, NotifyStale(s, z)
  PROVE  Inv'
<1> DEFINE is == Named(s)
<1>1. /\ Handles(s, z) /\ is # {}
      /\ is \in SUBSET Live /\ \A i \in is : entries[i].source = s
  BY DEF NotifyStale, Named
<1>0. PICK h \in HostStates : \E t \in Looks(is, h) :
        /\ \A i \in is : MayDelete(i, t, h)
        /\ MachineGoes(h)
        /\ acks' = AcksLeft(h, acks \cup Acks(is, t, h))
  BY DEF NotifyStale
<1>2. PICK t \in Looks(is, h) :
        /\ \A i \in is : MayDelete(i, t, h)
        /\ MachineGoes(h)
        /\ acks' = AcksLeft(h, acks \cup Acks(is, t, h))
  BY <1>0
<1>a. /\ acks' \subseteq SourceIds
      /\ h # "Off" => acks \subseteq acks'
  BY <1>1, <1>2 DEF Acks, Sources, AcksLeft, Inv, TypeOK
<1>h. /\ host' = h
      /\ dumps' \in [SourceIds -> Sizes \cup {NoSize}]
      /\ asked' \in 0 .. MaxAsked
      /\ \A r \in SourceIds : dumps'[r] # NoSize => h # "Off" /\ dumps[r] # NoSize
  BY <1>2, MachineGoesSomewhere
<1>s. /\ Sent(h) \subseteq sending \ {s} /\ (Sent(h) # {} => h = "Running")
  BY <1>1, <1>2, SentStays
<1>3. CASE /\ \/ Assign(Without(is), s, z)
              \/ AddEntry(Without(is), s, z)
           /\ missed' = missed \ {s}
           /\ sending' = Sent(host')
           /\ UNCHANGED up
  BY <1>1, <1>a, <1>h, <1>s, <1>3, GivenStep
<1>4. CASE /\ entries' = Without(is)
           /\ missed' = missed \cup {s}
           /\ sending' = Sent(host')
           /\ UNCHANGED <<up, lastEntryId>>
  <2>1. /\ UNCHANGED <<kind, up, lastEntryId>>
        /\ notices' = notices \ {Notice(s, z)} /\ Notice(s, z).source = s
        /\ missed' = missed \cup {s}
    BY <1>1, <1>4 DEF Handles, Notice
  <2>2. /\ entries' \in [Ids -> EntryType]
        /\ \A i \in Ids : entries'[i] = IF i \in is THEN NoEntry ELSE entries[i]
        /\ NoEntry.source = INVALID_SOURCE_ID /\ NoEntry.status = "none"
    BY <1>1, <1>4, Remaining DEF NoEntry
  <2>3. Live' = Live \ is
    BY <2>2 DEF Live
  <2>4. TypeOK'
    <3>1. \A i \in Ids : (entries'[i].status = "Completed")
                           <=> (entries'[i].source # INVALID_SOURCE_ID)
      BY <2>2 DEF Inv, TypeOK
    <3>2. /\ missed' \subseteq SourceIds /\ notices' \subseteq notices
          /\ sending' \subseteq SourceIds
      BY <1>h, <1>s, <1>4, <2>1 DEF Inv, TypeOK
    <3> QED
      BY <1>a, <1>h, <2>1, <2>2, <2>3, <3>1, <3>2 DEF Inv, TypeOK
  <2>5. StatusInv' /\ SourceNamesOneEntry'
    BY <2>2, <2>3 DEF Inv, StatusInv, SourceNamesOneEntry, Live
  <2>6. HostDumpsKnown'
    <3>1. \A r \in SourceIds \ {s} : Named(r) \subseteq Named(r)'
      BY <2>2, <2>3 DEF Named, Live
    <3> QED
      BY <1>a, <1>h, <2>1, <3>1 DEF Inv, HostDumpsKnown
  <2>7. SendingInv'
    <3>1. \A i \in Live : entries[i].source # s => entries'[i] = entries[i]
      BY <1>1, <2>2 DEF Live
    <3> QED
      BY <1>h, <1>s, <1>4, <3>1, SendingStays
  <2> QED
    BY <2>4, <2>5, <2>6, <2>7 DEF Inv
<1>5. CASE /\ up' = FALSE
           /\ entries' = [i \in Ids |-> NoEntry]
           /\ lastEntryId' = 0
           /\ missed' = SourceIds
           /\ sending' = {}
  BY <1>1, <1>a, <1>h, <1>5, GoneStep DEF Handles
<1> QED
  BY <1>3, <1>4, <1>5 DEF NotifyStale

LEMMA NotifyStep ==
  ASSUME Inv, NEW s \in SourceIds, NEW z \in Sizes, Notify(s, z)
  PROVE  Inv'
<1>1. CASE NotifyIgnored(s, z)
  <2>1. Named(s) # {}
    BY <1>1 DEF NotifyIgnored, Known
  <2> QED
    BY <1>1, <2>1, IgnoredStep DEF NotifyIgnored
<1>2. CASE NotifyThrows(s, z)
  BY <1>2, IgnoredStep DEF NotifyThrows
<1>3. CASE NotifyNew(s, z) \/ NotifyStale(s, z)
  BY <1>3, NotifyNewStep, NotifyStaleStep
<1> QED
  BY <1>1, <1>2, <1>3 DEF Notify

-----------------------------------------------------------------------------
(* The invariant *)

LEMMA EntryStep ==
  ASSUME Inv, NEW i \in Ids,
         DeleteEntry(i) \/ InitiateOffload(i) \/ OffloadEnds(i)
  PROVE  Inv'
<1>1. CASE DeleteEntry(i)
  <2>1. {i} \in SUBSET Live /\ up
    BY <1>1 DEF DeleteEntry
  <2>0. PICK h \in HostStates : \E t \in Looks({i}, h) : Removed({i}, t, h)
    BY <1>1 DEF DeleteEntry
  <2>2. PICK t : Removed({i}, t, h)
    BY <2>0
  <2> QED
    BY <2>1, <2>2, RemoveStep
<1>2. CASE InitiateOffload(i)
  <2>1. i \in Live /\ up /\ entries[i] \in EntryType
    BY <1>2 DEF InitiateOffload, Inv, TypeOK
  <2>2. /\ sending' \subseteq SourceIds
        /\ \A s \in sending' \ {entries[i].source} : s \in sending
        /\ entries[i].source \in sending' => Running
    BY <1>2, <2>1, SendingRuns DEF InitiateOffload, Inv, TypeOK, EntryType, Running
  <2> QED
    BY <1>2, <2>1, <2>2, UriStep DEF InitiateOffload
<1>3. CASE OffloadEnds(i)
  <2>1. /\ sending' \subseteq SourceIds
        /\ sending' = sending \ {entries[i].source}
    BY <1>3 DEF OffloadEnds, Inv, TypeOK
  <2> QED
    BY <1>3, <2>1, UriStep DEF OffloadEnds
<1> QED
  BY <1>1, <1>2, <1>3

LEMMA DeleteAllStep == Inv /\ DeleteAll => Inv'
<1> SUFFICES ASSUME Inv, DeleteAll PROVE Inv'
  OBVIOUS
<1>1. PICK n \in Live, h \in HostStates :
        \E t \in Looks({i \in Live : i <= n}, h) : Removed({i \in Live : i <= n}, t, h)
  BY DEF DeleteAll
<1>2. PICK t : Removed({i \in Live : i <= n}, t, h)
  BY <1>1
<1>3. {i \in Live : i <= n} \in SUBSET Live
  OBVIOUS
<1> QED
  BY <1>2, <1>3, RemoveStep DEF DeleteAll

LEMMA NextInv == Inv /\ [Next]_vars => Inv'
<1> SUFFICES ASSUME Inv, [Next]_vars PROVE Inv'
  OBVIOUS
<1>1. CASE CreateSystemDump \/ CreateResourceDump
  BY <1>1, MakeEntryStep DEF CreateSystemDump, CreateResourceDump
<1>2. CASE \E i \in Ids : DeleteEntry(i) \/ InitiateOffload(i) \/ OffloadEnds(i)
  BY <1>2, EntryStep
<1>3. CASE DeleteAll
  BY <1>3, DeleteAllStep
<1>4. CASE \E s \in SourceIds, z \in Sizes : Notify(s, z) \/ HostMakes(s, z)
  BY <1>4, NotifyStep, HostMakesStep
<1>5. CASE \E s \in SourceIds : HostRepeats(s) \/ HostDeletes(s)
  BY <1>5, HostRepeatsStep, HostDeletesStep
<1>6. CASE \E h \in HostStates : HostGoes(h)
  BY <1>6, HostGoesStep
<1>7. CASE Crash
  <2>1. acks' \subseteq SourceIds /\ notices' \subseteq notices
    BY <1>7 DEF Crash, Inv, TypeOK
  <2> QED
    BY <1>7, <2>1, GoneStep DEF Crash, machine, Inv, TypeOK
<1>8. CASE Restart
  BY <1>8, RestartStep
<1>9. CASE UNCHANGED vars
  BY <1>9 DEF vars, manager, machine, Inv, TypeOK, StatusInv, SourceNamesOneEntry,
              HostDumpsKnown, SendingInv, Live, Named, Running
<1> QED
  BY <1>1, <1>2, <1>3, <1>4, <1>5, <1>6, <1>7, <1>8, <1>9 DEF Next

\* The strengthened invariant holds of every behaviour.
THEOREM InvHolds == Spec => []Inv
<1>1. Init => Inv
  BY InitInv
<1>2. Inv /\ [Next]_vars => Inv'
  BY NextInv
<1> QED
  BY <1>1, <1>2, PTL DEF Spec

-----------------------------------------------------------------------------
(* The theorems *)

\* Type correctness: an entry is completed exactly when it has a source id, and
\* there is none without the daemon.
THEOREM TypeCorrect == Spec => []TypeOK
<1>1. Inv => TypeOK
  BY DEF Inv
<1> QED
  BY <1>1, InvHolds, PTL

\* However often the host tells of a dump, and in whatever order, one entry has
\* it.
THEOREM OneEntryPerSource == Spec => []SourceNamesOneEntry
<1>1. Inv => SourceNamesOneEntry
  BY DEF Inv
<1> QED
  BY <1>1, InvHolds, PTL

\* No dump of the host is forgotten but by a manager that missed it.
THEOREM NoDumpForgotten == Spec => []HostDumpsKnown
<1>1. Inv => HostDumpsKnown
  BY DEF Inv
<1> QED
  BY <1>1, InvHolds, PTL

\* Whenever in a call the host moves, the entry of a dump that it sends is
\* refused, or the sending is over before the second look.
LEMMA NotAsked ==
  ASSUME Inv, NEW s \in sending, NEW is \in SUBSET Live, NEW h \in HostStates,
         NEW t \in Looks(is, h), \A i \in is : MayDelete(i, t, h)
  PROVE  s \notin Acks(is, t, h)
<1> SUFFICES ASSUME s \in Acks(is, t, h) PROVE FALSE
  OBVIOUS
<1>1. PICK i \in is : entries[i].source = s /\ Sees(2 * i + 1, t, h) = "Running"
  BY DEF Acks, Sources
<1>2. Running /\ s \in SourceIds
  BY DEF Inv, SendingInv, TypeOK
<1>3. PICK j \in Named(s) : entries[j].uri
  BY DEF Inv, SendingInv
<1>4. i = j
  BY <1>1, <1>2, <1>3 DEF Inv, SourceNamesOneEntry, Named
<1>5. Sees(2 * i, t, h) # "Running"
  BY <1>3, <1>4 DEF MayDelete
<1>6. i \in Int /\ t \in Int
  BY DEF Live, Looks
<1>7. ~(2 * i < t) /\ h # "Running"
  BY <1>2, <1>5 DEF Sees, Running
<1>8. ~(2 * i + 1 < t)
  BY <1>6, <1>7
<1> QED
  BY <1>1, <1>7, <1>8 DEF Sees

LEMMA StepDeletesNoneSent ==
  ASSUME Inv, [Next]_vars, NEW s \in sending, s \in acks'
  PROVE  s \in acks
<1>1. ASSUME NEW is \in SUBSET Live, NEW h \in HostStates, NEW t \in Looks(is, h),
             \A i \in is : MayDelete(i, t, h),
             acks' = AcksLeft(h, acks \cup Acks(is, t, h))
      PROVE  s \in acks
  <2>1. s \notin Acks(is, t, h)
    BY <1>1, NotAsked
  <2> QED
    BY <1>1, <2>1 DEF AcksLeft
<1>2. ASSUME NEW i \in Ids, DeleteEntry(i) PROVE s \in acks
  <2>0. PICK h \in HostStates : \E t \in Looks({i}, h) : Removed({i}, t, h)
    BY <1>2 DEF DeleteEntry
  <2>1. PICK t \in Looks({i}, h) : Removed({i}, t, h)
    BY <2>0
  <2>2. {i} \in SUBSET Live
    BY <1>2 DEF DeleteEntry
  <2>3. /\ \A j \in {i} : MayDelete(j, t, h)
        /\ acks' = AcksLeft(h, acks \cup Acks({i}, t, h))
    BY <2>1 DEF Removed
  <2> QED
    BY <1>1, <2>2, <2>3
<1>3. CASE DeleteAll
  <2>1. PICK n \in Live, h \in HostStates :
          \E t \in Looks({i \in Live : i <= n}, h) : Removed({i \in Live : i <= n}, t, h)
    BY <1>3 DEF DeleteAll
  <2> DEFINE is == {i \in Live : i <= n}
  <2>2. PICK t \in Looks(is, h) : Removed(is, t, h)
    BY <2>1
  <2>3. /\ is \in SUBSET Live
        /\ \A i \in is : MayDelete(i, t, h)
        /\ acks' = AcksLeft(h, acks \cup Acks(is, t, h))
    BY <2>2 DEF Removed
  <2> HIDE DEF is
  <2> QED
    BY <1>1, <2>3
<1>4. ASSUME NEW r \in SourceIds, NEW z \in Sizes, NotifyStale(r, z) PROVE s \in acks
  <2>0. PICK h \in HostStates : \E t \in Looks(Named(r), h) :
          /\ \A i \in Named(r) : MayDelete(i, t, h)
          /\ acks' = AcksLeft(h, acks \cup Acks(Named(r), t, h))
    BY <1>4 DEF NotifyStale
  <2>1. PICK t \in Looks(Named(r), h) :
          /\ \A i \in Named(r) : MayDelete(i, t, h)
          /\ acks' = AcksLeft(h, acks \cup Acks(Named(r), t, h))
    BY <2>0
  <2>2. Named(r) \in SUBSET Live
    BY DEF Named
  <2> QED
    BY <1>1, <2>1, <2>2
<1>5. CASE \E h \in HostStates : HostGoes(h)
  BY <1>5 DEF HostGoes, AcksLeft
<1>6. CASE \E r \in SourceIds : HostDeletes(r)
  BY <1>6 DEF HostDeletes
<1>7. CASE \/ CreateSystemDump \/ CreateResourceDump \/ Crash \/ Restart
           \/ \E i \in Ids : InitiateOffload(i) \/ OffloadEnds(i)
  BY <1>7 DEF CreateSystemDump, CreateResourceDump, MakeEntry, Crash, Restart,
              InitiateOffload, OffloadEnds
<1>8. CASE \E r \in SourceIds, z \in Sizes :
             NotifyIgnored(r, z) \/ NotifyThrows(r, z) \/ NotifyNew(r, z)
  BY <1>8 DEF NotifyIgnored, NotifyThrows, NotifyNew
<1>9. CASE \/ \E r \in SourceIds, z \in Sizes : HostMakes(r, z)
           \/ \E r \in SourceIds : HostRepeats(r)
  BY <1>9 DEF HostMakes, HostRepeats
<1>10. CASE UNCHANGED vars
  BY <1>10 DEF vars
<1> QED
  BY <1>2, <1>3, <1>4, <1>5, <1>6, <1>7, <1>8, <1>9, <1>10 DEF Next, Notify

\* The host is asked to delete no dump that it is sending, for any number of
\* entries and wherever in a call it moves.
THEOREM SentNotDeleted == Spec => OffloadNotDeleted
<1>1. Inv /\ [Next]_vars => [\A s \in sending : s \in acks' => s \in acks]_vars
  BY StepDeletesNoneSent
<1> QED
  BY <1>1, InvHolds, PTL DEF Spec, OffloadNotDeleted
=============================================================================
