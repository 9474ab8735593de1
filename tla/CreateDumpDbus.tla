--------------------------- MODULE CreateDumpDbus ---------------------------
(***************************************************************************)
(* create-dump-dbus: a server that makes dumps on behalf of clients that   *)
(* connect to its socket, and copies them to /tmp, and the client program  *)
(* that asks it (create_dump_dbus.cpp, main.cpp).                          *)
(*                                                                         *)
(* The server handles one connection at a time, inside a callback of its   *)
(* event loop: it makes the dumps of a request one after the other, waits  *)
(* for each of them, and tells the client how it went.  Time is counted in *)
(* polls.  The dump manager, which has the dump it waits for, is external  *)
(* (see BmcDump and SystemDump): the dump may complete, fail, never end,   *)
(* or be deleted by somebody else at any time.                             *)
(***************************************************************************)
EXTENDS Integers, Sequences, SequencesExt

CONSTANTS
  Clients,          \* the clients, each of which makes one request
  SUPPORTED,        \* the sequence of dump types "all" stands for
  MaxPolls,         \* polls of a dump in progress before the server gives up
  TIMEOUT,          \* looks for its file before it does
  MaxFails          \* polls that fail before it does

ASSUME TypesAssumption == SUPPORTED \in Seq(STRING) /\ SUPPORTED # <<>>
ASSUME NamesAssumption == "unsupported" \notin Range(SUPPORTED)
ASSUME PollsAssumption == /\ MaxPolls \in Nat /\ TIMEOUT \in Nat
                          /\ MaxFails \in Nat \ {0}

VARIABLES
  (* the server *)
  pc,        \* what it does
  served,    \* the client it serves, or served last
  todo,      \* the types it has yet to make a dump of
  time_p,    \* polls since it began to wait
  fails,     \* those that failed
  (* the sockets *)
  queue,     \* the clients waiting to be accepted
  answered,  \* the clients sent END that have yet to read it
  (* the clients *)
  state,     \* what each does
  request,   \* what it asked for
  (* the dump manager and /tmp *)
  dump,      \* the dump the server waits for
  copies,    \* the copies in /tmp: for whom, and of what type
  (* observed *)
  told       \* what the server told each client of each type

server  == <<pc, served, todo, time_p, fails>>
sockets == <<queue, answered>>
clients == <<state, request>>
vars    == <<server, sockets, clients, dump, copies, told>>

Types    == Range(SUPPORTED)
Nobody   == "nobody"
Requests == Types \cup {"all", "unsupported"}
TypesOf(r) == IF r = "all" THEN SUPPORTED
              ELSE IF r \in Types THEN <<r>> ELSE <<>>

NoDump  == [status |-> "none", place |-> "none"]
NewDump == [status |-> "InProgress", place |-> "none"]
Gone    == [status |-> "gone", place |-> "none"]
Verdict == [type : Types, copied : BOOLEAN]

-----------------------------------------------------------------------------
(* The dump manager and its other clients, external *)

\* A dump gets its directory, then its archive, and is then completed.
DumpAdvances ==
  /\ dump.status = "InProgress"
  /\ \/ dump.place = "none" /\ dump' = [dump EXCEPT !.place = "dir"]
     \/ dump.place = "dir"  /\ dump' = [dump EXCEPT !.place = "file"]
     \/ dump.place = "file" /\ dump' = [dump EXCEPT !.status = "Completed"]
     \/ dump' = [dump EXCEPT !.status = "Failed"]
  /\ UNCHANGED <<server, sockets, clients, copies, told>>

DumpDeleted ==
  /\ dump.status \notin {"none", "gone"}
  /\ dump' = Gone
  /\ UNCHANGED <<server, sockets, clients, copies, told>>

-----------------------------------------------------------------------------
(* The client program *)

\* doCreateDumpCall connects and sends its command.  Without a server it ends.
Connect(c) ==
  /\ state[c] = "out"
  /\ \E r \in Requests :
       /\ request' = [request EXCEPT ![c] = r]
       /\ IF pc = "down"
          THEN /\ state' = [state EXCEPT ![c] = "refused"]
               /\ UNCHANGED queue
          ELSE /\ state' = [state EXCEPT ![c] = "reading"]
               /\ queue' = Append(queue, c)
  /\ UNCHANGED <<server, answered, dump, copies, told>>

\* It prints what it reads, until it reads END.
ReadEnd(c) ==
  /\ state[c] = "reading"
  /\ c \in answered
  /\ answered' = answered \ {c}
  /\ state' = [state EXCEPT ![c] = "ended"]
  /\ UNCHANGED <<server, queue, request, dump, copies, told>>

HungUp(c) == c \notin Range(queue) /\ (pc \in {"down", "idle"} \/ served # c)

\* It reads nothing of a connection the server has closed: read() returns 0,
\* which it takes for an empty message, and it reads again.
ReadNothing(c) ==
  /\ state[c] = "reading"
  /\ c \notin answered
  /\ HungUp(c)
  /\ state' = [state EXCEPT ![c] = "spinning"]
  /\ UNCHANGED <<server, sockets, request, dump, copies, told>>

\* Its user interrupts it.
Leave(c) ==
  /\ state[c] \in {"reading", "spinning"}
  /\ state' = [state EXCEPT ![c] = "left"]
  /\ answered' = answered \ {c}
  /\ UNCHANGED <<server, queue, request, dump, copies, told>>

Client(c) == Connect(c) \/ ReadEnd(c) \/ ReadNothing(c)

-----------------------------------------------------------------------------
(* The server *)

\* The server dies.  The clients that were never accepted get ECONNRESET, and
\* end; the one that was served reads nothing more.
Dies ==
  /\ pc' = "down"
  /\ queue' = <<>>
  /\ state' = [c \in Clients |->
                 IF c \in Range(queue) /\ state[c] = "reading"
                 THEN "refused" ELSE state[c]]
  /\ todo' = <<>> /\ time_p' = 0 /\ fails' = 0
  /\ dump' = NoDump
  /\ UNCHANGED <<served, request>>

\* sendMsg of a text the client prints, the server going on at l.
SendText(l) ==
  /\ state[served] # "left"
  /\ pc' = l
  /\ UNCHANGED <<served, sockets, clients>>

\* sendMsg to a client that has gone: the exception it throws, out of the
\* callback of the event loop, ends the server.
SendFails ==
  /\ \/ pc \in {"invalid", "request", "copied", "failed", "end"}
     \/ pc = "create" /\ todo # <<>>
  /\ state[served] = "left"
  /\ Dies
  /\ UNCHANGED <<answered, copies, told>>

Accept ==
  /\ pc = "idle"
  /\ queue # <<>>
  /\ served' = Head(queue)
  /\ queue' = Tail(queue)
  /\ todo' = TypesOf(request[Head(queue)])
  /\ pc' = IF request[Head(queue)] = "unsupported" THEN "invalid" ELSE "request"
  /\ UNCHANGED <<time_p, fails, answered, clients, dump, copies, told>>

InvalidType ==
  /\ pc = "invalid"
  /\ SendText("end")
  /\ UNCHANGED <<todo, time_p, fails, dump, copies, told>>

\* Mutant: the copies are deleted for every type.
MutantDeletesEachTime(l) ==
  /\ dump' = NewDump
  /\ time_p' = 0 /\ fails' = 0
  /\ copies' = {}
  /\ SendText(l)

\* CreateDump answers with the path of the new entry.
DumpCreated(l) ==
  /\ dump' = NewDump
  /\ time_p' = 0 /\ fails' = 0
  /\ UNCHANGED copies
  /\ SendText(l)

\* processDumpRequest deletes the copies there are, those of other clients
\* too; one that cannot be removed stays.
DeleteCopies ==
  /\ pc = "request"
  /\ \E kept \in SUBSET copies : copies' = kept
  /\ SendText("create")
  /\ UNCHANGED <<todo, time_p, fails, dump, told>>

\* The server is done with the dump at the head of todo.
Tell(copied) ==
  /\ told' = [told EXCEPT ![served] =
                Append(@, [type |-> Head(todo), copied |-> copied])]
  /\ todo' = Tail(todo)
  /\ time_p' = 0 /\ fails' = 0
  /\ dump' = NoDump

CreateDump ==
  /\ pc = "create" /\ todo # <<>>
  /\ DumpCreated("poll")
  /\ UNCHANGED <<todo, told>>

\* Mutant: the first type that fails ends the request.
MutantGivesUp ==
  /\ pc = "create" /\ todo # <<>>
  /\ SendText("create")
  /\ told' = [told EXCEPT ![served] =
                Append(@, [type |-> Head(todo), copied |-> FALSE])]
  /\ todo' = <<>>
  /\ UNCHANGED <<time_p, fails, dump, copies>>

\* CreateDump fails: the client is told why, and the next type is tried.
CreateDumpFails ==
  /\ pc = "create" /\ todo # <<>>
  /\ SendText("create")
  /\ Tell(FALSE)
  /\ UNCHANGED copies

NoTypeLeft ==
  /\ pc = "create" /\ todo = <<>>
  /\ pc' = "end"
  /\ UNCHANGED <<served, todo, time_p, fails, sockets, clients, dump, copies, told>>

\* A poll that did not end the waiting.
PollAgain(f) ==
  /\ fails' = f
  /\ time_p' = time_p + 1

Polls == pc = "poll" /\ UNCHANGED <<served, todo, sockets, clients, dump, copies, told>>

\* waitForDumpCreation: the dump is in progress.
PollInProgress ==
  /\ Polls
  /\ time_p <= MaxPolls
  /\ dump.status = "InProgress"
  /\ PollAgain(fails)
  /\ UNCHANGED pc

\* The status cannot be read, as of an entry that was deleted.
PollFails ==
  /\ Polls
  /\ time_p <= MaxPolls
  /\ PollAgain(fails + 1)
  /\ pc' = IF fails + 1 >= MaxFails THEN "failed" ELSE pc

PollCompleted ==
  /\ Polls
  /\ time_p <= MaxPolls
  /\ dump.status = "Completed"
  /\ pc' = "look" /\ time_p' = 0 /\ fails' = 0

\* The dump failed, or has taken too long.
PollGivesUp ==
  /\ Polls
  /\ dump.status = "Failed" \/ time_p > MaxPolls
  /\ pc' = "failed"
  /\ UNCHANGED <<time_p, fails>>

\* Mutant: the time without a directory is not counted.
MutantLooksForever ==
  /\ pc = "look"
  /\ dump.place # "none" /\ pc' = "iterate"
  /\ UNCHANGED <<served, todo, time_p, fails, sockets, clients, dump, copies,
                 told>>

\* copyDumpToTmpDir: the directory of the dump is there, or not yet.
LookForFile ==
  /\ pc = "look"
  /\ \/ dump.place # "none" /\ pc' = "iterate" /\ UNCHANGED time_p
     \/ /\ dump.place = "none"
        /\ time_p' = time_p + 1
        /\ pc' = IF time_p' > TIMEOUT THEN "failed" ELSE pc
  /\ UNCHANGED <<served, todo, fails, sockets, clients, dump, copies, told>>

\* It is searched for a file.
Iterate ==
  /\ pc = "iterate"
  /\ \/ dump.place = "file" /\ pc' = "copy" /\ UNCHANGED time_p
     \/ /\ dump.place = "dir"
        /\ time_p' = time_p + 1
        /\ pc' = IF time_p' > TIMEOUT THEN "failed" ELSE "look"
  /\ UNCHANGED <<served, todo, fails, sockets, clients, dump, copies, told>>

\* It was removed since it was found: directory_iterator throws, out of the
\* callback of the event loop.
IterateThrows ==
  /\ pc = "iterate" /\ dump.place = "none"
  /\ Dies
  /\ UNCHANGED <<answered, copies, told>>

\* A second later it is copied, if it is still there.
CopyFile ==
  /\ pc = "copy"
  /\ \/ /\ dump.place = "file"
        /\ copies' = copies \cup {[client |-> served, type |-> Head(todo)]}
        /\ pc' = "copied"
     \/ pc' = "failed" /\ UNCHANGED copies
  /\ UNCHANGED <<served, todo, time_p, fails, sockets, clients, dump, told>>

\* processSingleDump tells the client how it went.
SendResult ==
  /\ pc \in {"copied", "failed"}
  /\ SendText("create")
  /\ Tell(pc = "copied")
  /\ UNCHANGED copies

SendEnd ==
  /\ pc = "end"
  /\ state[served] # "left"
  /\ answered' = answered \cup {served}
  /\ pc' = "idle"
  /\ UNCHANGED <<served, todo, time_p, fails, queue, clients, dump, copies, told>>

Server ==
  \/ Accept \/ InvalidType
  \/ DeleteCopies
  \/ CreateDump \/ CreateDumpFails \/ NoTypeLeft
  \/ PollInProgress \/ PollFails \/ PollCompleted \/ PollGivesUp
  \/ LookForFile \/ Iterate \/ IterateThrows \/ CopyFile
  \/ SendResult \/ SendEnd \/ SendFails

\* The server is killed, or stopped between two requests.
Killed ==
  /\ pc # "down"
  /\ Dies
  /\ UNCHANGED <<answered, copies, told>>

\* main removes the socket an earlier server left, and serves.
Started ==
  /\ pc = "down"
  /\ pc' = "idle"
  /\ UNCHANGED <<served, todo, time_p, fails, sockets, clients, dump, copies, told>>

-----------------------------------------------------------------------------
Init ==
  /\ pc = "idle"
  /\ served = Nobody
  /\ todo = <<>> /\ time_p = 0 /\ fails = 0
  /\ queue = <<>>
  /\ answered = {}
  /\ state = [c \in Clients |-> "out"]
  /\ request = [c \in Clients |-> "all"]
  /\ dump = NoDump
  /\ copies = {}
  /\ told = [c \in Clients |-> <<>>]

Next ==
  \/ Server
  \/ \E c \in Clients : Client(c) \/ Leave(c)
  \/ DumpAdvances \/ DumpDeleted
  \/ Killed \/ Started

Spec == Init /\ [][Next]_vars

\* The server and the clients go on as long as they can; that a dump ever
\* advances, or a dead server is started again, is not assumed.
FairSpec ==
  /\ Spec
  /\ WF_vars(Server)
  /\ \A c \in Clients : WF_vars(ReadEnd(c) \/ ReadNothing(c))

-----------------------------------------------------------------------------
(* Properties *)

TypeOK ==
  /\ pc \in {"idle", "invalid", "request", "create", "poll", "look", "iterate",
             "copy", "copied", "failed", "end", "down"}
  /\ served \in Clients \cup {Nobody}
  /\ todo \in Seq(Types)
  /\ time_p \in (0 .. MaxPolls + 1) \cup (0 .. TIMEOUT + 1)
  /\ fails \in 0 .. MaxFails
  /\ queue \in Seq(Clients)
  /\ answered \subseteq Clients
  /\ state \in [Clients -> {"out", "reading", "ended", "refused", "spinning",
                            "left"}]
  /\ request \in [Clients -> Requests]
  /\ dump \in [status : {"none", "InProgress", "Completed", "Failed", "gone"},
               place : {"none", "dir", "file"}]
  /\ copies \subseteq [client : Clients, type : Types]
  /\ told \in [Clients -> Seq(Verdict)]

ToldOf(c) == [i \in DOMAIN told[c] |-> told[c][i].type]

\* However the dumps of a request fail, the server goes through its types in
\* order and says once of each how it went (processDumpRequest): a client that
\* has read END was told of every one it asked for.
OneVerdictPerType ==
  \A c \in Clients :
    /\ IsPrefix(ToldOf(c), TypesOf(request[c]))
    /\ state[c] = "ended" => ToldOf(c) = TypesOf(request[c])

\* A dump the client was told is copied to /tmp is there until the request of
\* another client begins, whatever becomes of the dump and of the server.
ToldCopyIsThere ==
  \A c \in Clients : served = c =>
    \A v \in Range(told[c]) :
      v.copied => [client |-> c, type |-> v.type] \in copies

\* A client that is accepted, or waits behind others, does not read for ever,
\* whatever the dump manager does: the server's time-outs end every request,
\* and if the server dies the connection does.
RequestEnds == \A c \in Clients : state[c] = "reading" ~> state[c] # "reading"

=============================================================================
