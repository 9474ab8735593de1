---------------------------- MODULE DumpOffload ----------------------------
(***************************************************************************)
(* How a dump on offer is read: the file handle of an entry, closed by a   *)
(* deferred event (dump_entry.cpp), and the offload of a dump to whoever   *)
(* connects to a socket (dump_offload.cpp), which is served inside the     *)
(* handler of the request: the event loop stands still meanwhile.  The     *)
(* descriptors are numbers that the kernel gives again.                    *)
(***************************************************************************)
EXTENDS Integers

CONSTANTS
  Dumps,
  Uris,          \* the paths an offload may be asked to write to
  Readers,       \* programs that connect to one, once each
  Fds,           \* the numbers of the descriptors the daemon can have
  Size,          \* of an archive, in blocks
  BUFFER         \* the blocks a socket takes that are not read

ASSUME FdAssumption == Fds \subseteq Nat
ASSUME DumpsAssumption ==
  Dumps \cap {"none", "closed", "listener", "connection"} = {}
ASSUME SizeAssumption == Size \in Nat \ {0} /\ BUFFER \in Nat \ {0}

VARIABLES
  (* the daemon *)
  pc,        \* what the event loop does
  job,       \* the offload it does
  entries,
  (* the kernel *)
  open,      \* what each descriptor is open on
  sockets,   \* the paths at which there is a socket
  (* the readers *)
  reader,
  (* observed *)
  litter     \* the sockets that the end of a daemon left

vars == <<pc, job, entries, open, sockets, reader, litter>>

NoFd     == -1
NoJob    == [dump |-> "none", uri |-> "none", reader |-> "none",
             listener |-> NoFd, connection |-> NoFd]
NewEntry == [status |-> "progress", fd |-> NoFd, offloaded |-> FALSE]
Gone     == [NewEntry EXCEPT !.status = "gone"]
Out      == [at |-> "out", uri |-> "none", dump |-> "none", gone |-> FALSE,
             read |-> 0, unread |-> 0]

Offloading == pc \in {"wait", "send"}
Sent       == reader[job.reader].read + reader[job.reader].unread

-----------------------------------------------------------------------------
(* The kernel, external *)

Free      == {f \in Fds : open[f] = "closed"}
Lowest(F) == CHOOSE f \in F : \A g \in F : f <= g
NewFd     == Lowest(Free)
TwoFree   == \E f, g \in Free : f # g

\* The connections to a socket, or that it has accepted, are closed: what was
\* sent can still be read.
HangUp(u) ==
  [r \in Readers |-> IF reader[r].uri = u /\ reader[r].at \in {"waiting", "served"}
                     THEN [reader[r] EXCEPT !.at = "hungup"] ELSE reader[r]]

-----------------------------------------------------------------------------
(* The readers, external *)

Connect(r) ==
  /\ reader[r].at = "out"
  /\ Offloading
  /\ reader' = [reader EXCEPT ![r].at = "waiting", ![r].uri = job.uri]
  /\ UNCHANGED <<pc, job, entries, open, sockets, litter>>

Read(r) ==
  /\ ~reader[r].gone /\ reader[r].unread > 0
  /\ reader' = [reader EXCEPT ![r].read = @ + 1, ![r].unread = @ - 1]
  /\ UNCHANGED <<pc, job, entries, open, sockets, litter>>

Leave(r) ==
  /\ reader[r].at # "out" /\ ~reader[r].gone
  /\ reader' = [reader EXCEPT ![r].gone = TRUE]
  /\ UNCHANGED <<pc, job, entries, open, sockets, litter>>

-----------------------------------------------------------------------------
(* The entries *)

\* Its file is named when its archive is closed (see BmcDump).
DumpCompletes(d) ==
  /\ pc = "idle"
  /\ entries[d].status = "progress"
  /\ entries' = [entries EXCEPT ![d].status = "complete"]
  /\ UNCHANGED <<pc, job, open, sockets, reader, litter>>

\* getFileHandle opens the archive, unless the last handle given of it is to be
\* closed yet, which is given again.  The close is a deferred event.
GetFileHandle(d) ==
  /\ pc = "idle"
  /\ entries[d].status = "complete"
  /\ entries[d].fd = NoFd /\ Free # {}
  /\ entries' = [entries EXCEPT ![d].fd = NewFd]
  /\ open' = [open EXCEPT ![NewFd] = d]
  /\ UNCHANGED <<pc, job, sockets, reader, litter>>

\* Mutant: the handle that was closed is kept, to be given again.
MutantKeepsHandle(d) ==
  /\ pc = "idle"
  /\ entries[d].fd # NoFd
  /\ open' = [open EXCEPT ![entries[d].fd] = "closed"]
  /\ UNCHANGED <<pc, job, entries, sockets, reader, litter>>

CloseFD(d) ==
  /\ pc = "idle"
  /\ entries[d].fd # NoFd
  /\ open' = [open EXCEPT ![entries[d].fd] = "closed"]
  /\ entries' = [entries EXCEPT ![d].fd = NoFd]
  /\ UNCHANGED <<pc, job, sockets, reader, litter>>

\* With an entry goes its deferred event, but not its handle, which is never
\* closed.
Delete(d) ==
  /\ pc = "idle"
  /\ entries[d].status # "gone"
  /\ entries' = [entries EXCEPT ![d] = Gone]
  /\ UNCHANGED <<pc, job, open, sockets, reader, litter>>

-----------------------------------------------------------------------------
(* The offload of a dump *)

\* Its descriptors are closed, the socket removed, and the entry marked or the
\* client sent an error.
EndOffload(done) ==
  /\ pc' = "idle" /\ job' = NoJob
  /\ open' = [f \in Fds |-> IF f \in {job.listener, job.connection}
                            THEN "closed" ELSE open[f]]
  /\ sockets' = sockets \ {job.uri}
  /\ litter' = litter \ {job.uri}
  /\ reader' = HangUp(job.uri)
  /\ entries' = [entries EXCEPT ![job.dump].offloaded = @ \/ done]

\* socketInit fails, as it does where there is a socket.  What there is at the
\* path is removed.
OffloadRefused(d, u) ==
  /\ pc = "idle"
  /\ entries[d].status # "gone"
  /\ u \in sockets \/ Free = {}
  /\ sockets' = sockets \ {u}
  /\ litter' = litter \ {u}
  /\ UNCHANGED <<pc, job, entries, open, reader>>

InitiateOffload(d, u) ==
  /\ pc = "idle"
  /\ entries[d].status # "gone"
  /\ u \notin sockets /\ Free # {}
  /\ pc' = "wait"
  /\ job' = [dump |-> d, uri |-> u, reader |-> "none",
             listener |-> NewFd, connection |-> NoFd]
  /\ open' = [open EXCEPT ![NewFd] = "listener"]
  /\ sockets' = sockets \cup {u}
  /\ UNCHANGED <<entries, reader, litter>>

Waiting(r) == pc = "wait" /\ reader[r].at = "waiting" /\ reader[r].uri = job.uri

\* Mutant: a select that timed out is no error.
MutantTimeOutIsDone ==
  /\ pc = "wait"
  /\ ~\E r \in Readers : Waiting(r)
  /\ EndOffload(TRUE)

\* Mutant: the socket stays after a time-out.
MutantSocketStays ==
  /\ pc = "wait"
  /\ ~\E r \in Readers : Waiting(r)
  /\ pc' = "idle" /\ job' = NoJob
  /\ open' = [open EXCEPT ![job.listener] = "closed"]
  /\ UNCHANGED <<entries, sockets, reader, litter>>

\* Mutant: the connection is waited for without a time-out.
MutantWaits ==
  /\ pc = "wait"
  /\ ~\E r \in Readers : Waiting(r)
  /\ UNCHANGED vars

\* Nobody connects within a second.
NobodyConnects ==
  /\ pc = "wait"
  /\ ~\E r \in Readers : Waiting(r)
  /\ EndOffload(FALSE)

\* A reader is accepted, who may have left, and the archive is read.
Accept(r) ==
  /\ Waiting(r)
  /\ entries[job.dump].status = "complete" /\ TwoFree
  /\ pc' = "send"
  /\ job' = [job EXCEPT !.reader = r, !.connection = NewFd]
  /\ open' = [open EXCEPT ![NewFd] = "connection"]
  /\ reader' = [reader EXCEPT ![r].at = "served", ![r].dump = job.dump]
  /\ UNCHANGED <<entries, sockets, litter>>

\* The connection cannot be accepted, or the archive not be opened: that of a
\* dump in progress has no name yet.
AcceptFails ==
  /\ \E r \in Readers : Waiting(r)
  /\ entries[job.dump].status # "complete" \/ ~TwoFree
  /\ EndOffload(FALSE)

\* Mutant: the loop goes one block too far.
MutantSendsPast == pc = "send" /\ Sent <= Size

Sending == pc = "send" /\ Sent < Size

\* writeOnUnixSocket.  The socket is writable when it is first asked, and the
\* connection, unlike the listener, is one that blocks: the one write() waits
\* for the reader, without a time-out.
SendBlock ==
  /\ Sending
  /\ ~reader[job.reader].gone
  /\ reader[job.reader].unread < BUFFER
  /\ reader' = [reader EXCEPT ![job.reader].unread = @ + 1]
  /\ UNCHANGED <<pc, job, entries, open, sockets, litter>>

SendFails ==
  /\ Sending
  /\ reader[job.reader].gone
  /\ EndOffload(FALSE)

Offloaded ==
  /\ pc = "send" /\ Sent = Size
  /\ EndOffload(TRUE)

Offload ==
  \/ NobodyConnects
  \/ \E r \in Readers : Accept(r)
  \/ AcceptFails
  \/ SendBlock \/ SendFails \/ Offloaded

-----------------------------------------------------------------------------
(* The daemon *)

\* It is killed, by the watchdog when the loop stands still for long.
Crash ==
  /\ pc # "down"
  /\ pc' = "down" /\ job' = NoJob
  /\ open' = [f \in Fds |-> "closed"]
  /\ litter' = sockets
  /\ reader' = IF Offloading THEN HangUp(job.uri) ELSE reader
  /\ entries' = [d \in Dumps |-> IF entries[d].status = "complete"
                                 THEN [NewEntry EXCEPT !.status = "complete"]
                                 ELSE Gone]
  /\ UNCHANGED sockets

Restart == pc = "down" /\ pc' = "idle"
           /\ UNCHANGED <<job, entries, open, sockets, reader, litter>>

Init ==
  /\ pc = "idle" /\ job = NoJob
  /\ entries = [d \in Dumps |-> NewEntry]
  /\ open = [f \in Fds |-> "closed"]
  /\ sockets = {}
  /\ reader = [r \in Readers |-> Out]
  /\ litter = {}

Next ==
  \/ \E r \in Readers : Connect(r) \/ Read(r) \/ Leave(r)
  \/ \E d \in Dumps : DumpCompletes(d) \/ GetFileHandle(d) \/ CloseFD(d) \/ Delete(d)
  \/ \E d \in Dumps, u \in Uris : OffloadRefused(d, u) \/ InitiateOffload(d, u)
  \/ Offload
  \/ Crash \/ Restart

Spec == Init /\ [][Next]_vars

\* The handler of a request goes on as long as it can, and its select ends.
\* That a reader reads is not assumed.
FairSpec == Spec /\ WF_vars(Offload)

-----------------------------------------------------------------------------
(* Properties *)

TypeOK ==
  /\ pc \in {"idle", "wait", "send", "down"}
  /\ job \in [dump : Dumps \cup {"none"}, uri : Uris \cup {"none"},
              reader : Readers \cup {"none"},
              listener : Fds \cup {NoFd}, connection : Fds \cup {NoFd}]
  /\ entries \in [Dumps -> [status : {"progress", "complete", "gone"},
                            fd : Fds \cup {NoFd}, offloaded : BOOLEAN]]
  /\ open \in [Fds -> Dumps \cup {"closed", "listener", "connection"}]
  /\ sockets \subseteq Uris
  /\ litter \subseteq sockets
  /\ reader \in [Readers -> [at : {"out", "waiting", "served", "hungup"},
                             uri : Uris \cup {"none"}, dump : Dumps \cup {"none"},
                             gone : BOOLEAN,
                             read : 0 .. Size, unread : 0 .. BUFFER]]

\* The handle that is given again before it is closed is of the archive of its
\* entry: its number was not given to another archive, or to a socket, since.
HandleIsOfItsDump ==
  \A d \in Dumps : entries[d].fd # NoFd => open[entries[d].fd] = d

\* A dump that is marked offloaded was sent to one reader, whole: not in parts
\* to several, not to nobody.
OffloadedWasSent ==
  \A d \in Dumps : entries[d].offloaded =>
    \E r \in Readers : reader[r].dump = d /\ reader[r].read + reader[r].unread = Size

\* However an offload ends, it leaves no socket, which would refuse the next to
\* its path, and no descriptor.  One left by the end of the daemon is removed
\* by the first request that it refuses.
NothingLeftBehind ==
  /\ sockets = litter \cup (IF Offloading THEN {job.uri} ELSE {})
  /\ {f \in Fds : open[f] \in {"listener", "connection"}}
       = {job.listener, job.connection} \ {NoFd}

\* The reader does not read, does not leave, and has been sent all that its
\* socket takes.
Stalled ==
  /\ Sending
  /\ ~reader[job.reader].gone /\ reader[job.reader].unread = BUFFER

\* The event loop stands still for ever only for a reader that stops reading
\* and stays.
OffloadEnds == Offloading ~> (~Offloading \/ []Stalled)

=============================================================================
