------------------------- MODULE DumpOffloadProofs -------------------------
(***************************************************************************)
(* Proofs about DumpOffload, for any dumps, readers, paths and descriptors *)
(* and any size of an archive.  The invariant says which descriptors the   *)
(* offload holds, and which reader it serves, at every place it can be at. *)
(***************************************************************************)
EXTENDS DumpOffload, WellFoundedInduction, TLAPS

\* The offload holds what it opened, and serves a reader from Accept on.
JobInv ==
  /\ ~Offloading => job = NoJob
  /\ Offloading => /\ job.dump \in Dumps /\ job.uri \in Uris
                   /\ job.listener \in Fds /\ open[job.listener] = "listener"
  /\ pc = "wait" => job.connection = NoFd
  /\ pc = "send" =>
       /\ job.connection \in Fds /\ open[job.connection] = "connection"
       /\ job.reader \in Readers
       /\ reader[job.reader].at = "served"
       /\ reader[job.reader].dump = job.dump
       /\ reader[job.reader].uri = job.uri

\* Nobody else is served, and who is not served yet was sent nothing.
ReaderInv ==
  \A r \in Readers :
    /\ reader[r].read + reader[r].unread <= Size
    /\ reader[r].at \in {"out", "waiting"} =>
         reader[r].read = 0 /\ reader[r].unread = 0

\* What is open on a socket, the offload has.
SocketInv ==
  /\ \A f \in Fds : open[f] \in {"listener", "connection"} =>
       f = job.listener \/ f = job.connection
  /\ sockets = litter \cup (IF Offloading THEN {job.uri} ELSE {})

Inv ==
  /\ TypeOK
  /\ JobInv
  /\ ReaderInv
  /\ SocketInv
  /\ HandleIsOfItsDump
  /\ OffloadedWasSent

USE FdAssumption, DumpsAssumption, SizeAssumption DEF NoFd

-----------------------------------------------------------------------------
(* Descriptors *)

LEMMA LeastExists ==
  ASSUME NEW F \in SUBSET Nat, F # {}
  PROVE  \E f \in F : \A g \in F : f <= g
<1> DEFINE R == OpToRel(<, Nat)
<1>1. IsWellFoundedOn(R, Nat)
  BY NatLessThanWellFounded
<1>2. \A x, y \in Nat : <<y, x>> \in R <=> y < x
  BY DEF OpToRel
<1> HIDE DEF R
<1>3. PICK f \in F : \A g \in F : <<g, f>> \notin R
  BY <1>1, WFMin
<1>4. \A g \in F : f <= g
  <2> TAKE g \in F
  <2>1. f \in Nat /\ g \in Nat /\ <<g, f>> \notin R
    BY <1>3
  <2>2. ~(g < f)
    BY <1>2, <2>1
  <2> QED
    BY <2>1, <2>2
<1> QED
  BY <1>4

LEMMA NewFdIsFree ==
  ASSUME Free # {}
  PROVE  NewFd \in Fds /\ open[NewFd] = "closed"
<1>1. Free \in SUBSET Nat
  BY DEF Free
<1>2. NewFd \in Free
  BY <1>1, LeastExists DEF NewFd, Lowest
<1> QED
  BY <1>2 DEF Free

\* What a connection that is closed leaves of a reader: all but its place.
LEMMA HungUp ==
  ASSUME TypeOK, NEW u
  PROVE  /\ HangUp(u) \in [Readers -> [at : {"out", "waiting", "served", "hungup"},
                                       uri : Uris \cup {"none"},
                                       dump : Dumps \cup {"none"},
                                       gone : BOOLEAN,
                                       read : 0 .. Size, unread : 0 .. BUFFER]]
         /\ \A r \in Readers :
              /\ HangUp(u)[r].dump = reader[r].dump
              /\ HangUp(u)[r].read = reader[r].read
              /\ HangUp(u)[r].unread = reader[r].unread
              /\ HangUp(u)[r].at \in {"out", "waiting"} =>
                   reader[r].at \in {"out", "waiting"}
  BY DEF HangUp, TypeOK

LEMMA InitInv == Init => Inv
<1> SUFFICES ASSUME Init PROVE Inv
  OBVIOUS
<1>1. TypeOK
  BY DEF Init, TypeOK, NoJob, NewEntry, Out
<1>2. JobInv /\ SocketInv
  BY DEF Init, JobInv, SocketInv, Offloading
<1>3. ReaderInv
  BY DEF Init, ReaderInv, Out
<1>4. HandleIsOfItsDump /\ OffloadedWasSent
  BY DEF Init, HandleIsOfItsDump, OffloadedWasSent, NewEntry
<1> QED
  BY <1>1, <1>2, <1>3, <1>4 DEF Inv

-----------------------------------------------------------------------------
(* The readers *)

\* A step of a reader changes what it has read, or where it is, not what it was
\* sent.
LEMMA ReaderStep ==
  ASSUME Inv, NEW r \in Readers, NEW R,
         R \in [at : {"out", "waiting", "served", "hungup"},
                uri : Uris \cup {"none"}, dump : Dumps \cup {"none"},
                gone : BOOLEAN, read : 0 .. Size, unread : 0 .. BUFFER],
         reader' = [reader EXCEPT ![r] = R],
         R.dump = reader[r].dump,
         R.read + R.unread = reader[r].read + reader[r].unread,
         reader[r].at = "out" \/ (R.at = reader[r].at /\ R.uri = reader[r].uri),
         R.at \in {"out", "waiting"} => R.read = 0 /\ R.unread = 0,
         UNCHANGED <<pc, job, entries, open, sockets, litter>>
  PROVE  Inv'
<1>1. /\ reader'[r] = R
      /\ \A q \in Readers \ {r} : reader'[q] = reader[q]
  BY DEF Inv, TypeOK
<1>2. TypeOK'
  BY DEF Inv, TypeOK
<1>3. JobInv'
  <2>1. pc = "send" => job.reader # r \/ reader[r].at = "served"
    BY DEF Inv, JobInv
  <2> QED
    BY <1>1, <2>1 DEF Inv, JobInv, Offloading
<1>4. ReaderInv'
  BY <1>1 DEF Inv, ReaderInv
<1>5. SocketInv' /\ HandleIsOfItsDump'
  BY DEF Inv, SocketInv, HandleIsOfItsDump, Offloading
<1>6. OffloadedWasSent'
  BY <1>1 DEF Inv, OffloadedWasSent
<1> QED
  BY <1>2, <1>3, <1>4, <1>5, <1>6 DEF Inv

LEMMA ReadersStep ==
  ASSUME Inv, NEW r \in Readers, Connect(r) \/ Read(r) \/ Leave(r)
  PROVE  Inv'
<1>1. reader[r] \in [at : {"out", "waiting", "served", "hungup"},
                     uri : Uris \cup {"none"}, dump : Dumps \cup {"none"},
                     gone : BOOLEAN, read : 0 .. Size, unread : 0 .. BUFFER]
  BY DEF Inv, TypeOK
<1>2. /\ reader[r].read + reader[r].unread <= Size
      /\ reader[r].at \in {"out", "waiting"} =>
           reader[r].read = 0 /\ reader[r].unread = 0
  BY DEF Inv, ReaderInv
<1>3. CASE Connect(r)
  <2> DEFINE R == [reader[r] EXCEPT !.at = "waiting", !.uri = job.uri]
  <2>1. /\ reader' = [reader EXCEPT ![r] = R]
        /\ UNCHANGED <<pc, job, entries, open, sockets, litter>>
        /\ reader[r].at = "out" /\ job.uri \in Uris
    BY <1>3 DEF Connect, Inv, JobInv, TypeOK
  <2>2. R \in [at : {"out", "waiting", "served", "hungup"},
               uri : Uris \cup {"none"}, dump : Dumps \cup {"none"},
               gone : BOOLEAN, read : 0 .. Size, unread : 0 .. BUFFER]
    BY <1>1, <2>1
  <2>3. /\ R.dump = reader[r].dump /\ R.read = reader[r].read
        /\ R.unread = reader[r].unread
    BY <1>1
  <2>4. R.read = 0 /\ R.unread = 0
    BY <1>2, <2>1, <2>3
  <2> HIDE DEF R
  <2>5. R.read + R.unread = reader[r].read + reader[r].unread
    BY <2>3
  <2>6. /\ reader[r].at = "out" \/ (R.at = reader[r].at /\ R.uri = reader[r].uri)
        /\ R.at \in {"out", "waiting"} => R.read = 0 /\ R.unread = 0
        /\ R.dump = reader[r].dump
    BY <2>1, <2>3, <2>4
  <2> QED
    BY ONLY Inv, r \in Readers, <2>1, <2>2, <2>5, <2>6, ReaderStep
<1>4. CASE Read(r)
  <2> DEFINE R == [reader[r] EXCEPT !.read = @ + 1, !.unread = @ - 1]
  <2>1. /\ reader' = [reader EXCEPT ![r] = R]
        /\ UNCHANGED <<pc, job, entries, open, sockets, litter>>
        /\ reader[r].unread > 0
    BY <1>4 DEF Read, Inv, TypeOK
  <2>0. reader[r].read + 1 \in 0 .. Size /\ reader[r].unread - 1 \in 0 .. BUFFER
    <3>1. /\ reader[r].read \in Nat /\ reader[r].unread \in Nat
          /\ reader[r].unread <= BUFFER
      BY <1>1
    <3> QED
      BY <1>2, <2>1, <3>1
  <2>2. R \in [at : {"out", "waiting", "served", "hungup"},
               uri : Uris \cup {"none"}, dump : Dumps \cup {"none"},
               gone : BOOLEAN, read : 0 .. Size, unread : 0 .. BUFFER]
    BY <1>1, <2>0
  <2>3. /\ R.dump = reader[r].dump /\ R.at = reader[r].at /\ R.uri = reader[r].uri
        /\ R.read + R.unread = reader[r].read + reader[r].unread
        /\ reader[r].at \notin {"out", "waiting"}
    BY <1>1, <1>2, <2>1
  <2> HIDE DEF R
  <2> QED
    BY <2>1, <2>2, <2>3, ReaderStep
<1>5. CASE Leave(r)
  <2> DEFINE R == [reader[r] EXCEPT !.gone = TRUE]
  <2>1. /\ reader' = [reader EXCEPT ![r] = R]
        /\ UNCHANGED <<pc, job, entries, open, sockets, litter>>
    BY <1>5 DEF Leave, Inv, TypeOK
  <2>2. R \in [at : {"out", "waiting", "served", "hungup"},
               uri : Uris \cup {"none"}, dump : Dumps \cup {"none"},
               gone : BOOLEAN, read : 0 .. Size, unread : 0 .. BUFFER]
    BY <1>1
  <2>3. /\ R.dump = reader[r].dump /\ R.at = reader[r].at /\ R.uri = reader[r].uri
        /\ R.read = reader[r].read /\ R.unread = reader[r].unread
    BY <1>1
  <2> HIDE DEF R
  <2> QED
    BY <1>2, <2>1, <2>2, <2>3, ReaderStep
<1> QED
  BY <1>3, <1>4, <1>5

-----------------------------------------------------------------------------
(* The entries, while the event loop runs *)

LEMMA NothingOpen ==
  ASSUME Inv, ~Offloading
  PROVE  /\ job = NoJob /\ sockets = litter
         /\ \A f \in Fds : open[f] \notin {"listener", "connection"}
  BY DEF Inv, JobInv, SocketInv, NoJob

\* The handle of a dump is that of no other, and of no socket.
LEMMA HandlesDiffer ==
  ASSUME Inv, NEW d \in Dumps, entries[d].fd # NoFd
  PROVE  /\ entries[d].fd \in Fds /\ open[entries[d].fd] = d
         /\ \A e \in Dumps \ {d} : entries[e].fd # entries[d].fd
  BY DEF Inv, TypeOK, HandleIsOfItsDump

LEMMA EntriesStep ==
  ASSUME Inv, NEW d \in Dumps,
         DumpCompletes(d) \/ GetFileHandle(d) \/ CloseFD(d) \/ Delete(d)
  PROVE  Inv'
<1>1. /\ pc = "idle" /\ ~Offloading /\ ~Offloading'
      /\ UNCHANGED <<pc, job, sockets, reader, litter>>
  BY DEF DumpCompletes, GetFileHandle, CloseFD, Delete, Offloading
<1>2. /\ entries' \in [Dumps -> [status : {"progress", "complete", "gone"},
                                 fd : Fds \cup {NoFd}, offloaded : BOOLEAN]]
      /\ open' \in [Fds -> Dumps \cup {"closed"}]
      /\ HandleIsOfItsDump'
      /\ \A e \in Dumps : entries'[e].offloaded => entries[e].offloaded
  <2>1. /\ entries \in [Dumps -> [status : {"progress", "complete", "gone"},
                                  fd : Fds \cup {NoFd}, offloaded : BOOLEAN]]
        /\ open \in [Fds -> Dumps \cup {"closed"}]
        /\ HandleIsOfItsDump
    BY <1>1, NothingOpen DEF Inv, TypeOK
  <2>2. CASE DumpCompletes(d)
    BY <2>1, <2>2 DEF DumpCompletes, HandleIsOfItsDump
  <2>3. CASE GetFileHandle(d)
    <3>1. NewFd \in Fds /\ open[NewFd] = "closed"
      BY <2>3, NewFdIsFree DEF GetFileHandle
    <3>2. /\ entries' = [entries EXCEPT ![d].fd = NewFd]
          /\ open' = [open EXCEPT ![NewFd] = d]
      BY <2>3 DEF GetFileHandle
    <3> DEFINE n == NewFd
    <3> HIDE DEF n
    <3>3. \A e \in Dumps : entries[e].fd # NoFd => entries[e].fd # n
      BY <2>1, <3>1 DEF HandleIsOfItsDump, n
    <3>4. n \in Fds /\ entries' = [entries EXCEPT ![d].fd = n]
          /\ open' = [open EXCEPT ![n] = d]
      BY <3>1, <3>2 DEF n
    <3> QED
      BY <2>1, <3>3, <3>4 DEF HandleIsOfItsDump
  <2>4. CASE CloseFD(d)
    <3>1. /\ entries[d].fd # NoFd
          /\ open' = [open EXCEPT ![entries[d].fd] = "closed"]
          /\ entries' = [entries EXCEPT ![d].fd = NoFd]
      BY <2>4 DEF CloseFD
    <3>2. /\ entries[d].fd \in Fds
          /\ \A e \in Dumps \ {d} : entries[e].fd # entries[d].fd
      BY <3>1, HandlesDiffer
    <3>3. HandleIsOfItsDump'
      <4> SUFFICES ASSUME NEW e \in Dumps, entries'[e].fd # NoFd
                   PROVE  open'[entries'[e].fd] = e
        BY DEF HandleIsOfItsDump
      <4>1. e # d /\ entries'[e] = entries[e]
        BY <2>1, <3>1
      <4>2. entries[e].fd \in Fds /\ open[entries[e].fd] = e
        BY <2>1, <4>1 DEF HandleIsOfItsDump
      <4> QED
        BY <2>1, <3>1, <3>2, <4>1, <4>2
    <3> QED
      BY <2>1, <3>1, <3>2, <3>3
  <2>5. CASE Delete(d)
    BY <2>1, <2>5 DEF Delete, HandleIsOfItsDump, Gone, NewEntry
  <2> QED
    BY <2>2, <2>3, <2>4, <2>5
<1>3. \A f \in Fds : open'[f] \notin {"listener", "connection"}
  BY <1>2
<1>4. TypeOK'
  BY <1>1, <1>2 DEF Inv, TypeOK
<1>5. JobInv' /\ ReaderInv' /\ SocketInv'
  BY <1>1, <1>3 DEF Inv, JobInv, ReaderInv, SocketInv, Offloading
<1>6. OffloadedWasSent'
  BY <1>1, <1>2 DEF Inv, OffloadedWasSent
<1> QED
  BY <1>2, <1>4, <1>5, <1>6 DEF Inv

-----------------------------------------------------------------------------
(* The offload *)

LEMMA RefusedStep ==
  ASSUME Inv, NEW d \in Dumps, NEW u \in Uris, OffloadRefused(d, u)
  PROVE  Inv'
<1>1. /\ ~Offloading /\ sockets = litter
      /\ sockets' = sockets \ {u} /\ litter' = litter \ {u}
      /\ UNCHANGED <<pc, job, entries, open, reader>>
  BY NothingOpen DEF OffloadRefused, Offloading
<1>2. TypeOK'
  BY <1>1 DEF Inv, TypeOK
<1>3. JobInv' /\ ReaderInv' /\ SocketInv' /\ HandleIsOfItsDump'
  BY <1>1 DEF Inv, JobInv, ReaderInv, SocketInv, HandleIsOfItsDump, Offloading
<1>4. OffloadedWasSent'
  BY <1>1 DEF Inv, OffloadedWasSent
<1> QED
  BY <1>2, <1>3, <1>4 DEF Inv

LEMMA InitiateStep ==
  ASSUME Inv, NEW d \in Dumps, NEW u \in Uris, InitiateOffload(d, u)
  PROVE  Inv'
<1>1. /\ ~Offloading /\ sockets = litter /\ u \notin sockets
      /\ \A f \in Fds : open[f] \notin {"listener", "connection"}
      /\ NewFd \in Fds /\ open[NewFd] = "closed"
  BY NothingOpen, NewFdIsFree DEF InitiateOffload, Offloading
<1> DEFINE n == NewFd
<1>2. /\ pc' = "wait"
      /\ job' = [dump |-> d, uri |-> u, reader |-> "none", listener |-> n,
                 connection |-> NoFd]
      /\ open' = [open EXCEPT ![n] = "listener"]
      /\ sockets' = sockets \cup {u}
      /\ UNCHANGED <<entries, reader, litter>>
      /\ n \in Fds /\ open[n] = "closed"
  BY <1>1 DEF InitiateOffload
<1> HIDE DEF n
<1>3. TypeOK'
  BY <1>2 DEF Inv, TypeOK
<1>4. JobInv' /\ ReaderInv'
  BY <1>2 DEF Inv, JobInv, ReaderInv, Offloading, TypeOK
<1>5. SocketInv'
  BY <1>1, <1>2 DEF Inv, SocketInv, Offloading, TypeOK
<1>6. HandleIsOfItsDump' /\ OffloadedWasSent'
  BY <1>2 DEF Inv, HandleIsOfItsDump, OffloadedWasSent, TypeOK
<1> QED
  BY <1>3, <1>4, <1>5, <1>6 DEF Inv

\* However it ends, what it held is closed.
LEMMA EndStep ==
  ASSUME Inv, Offloading, NEW done \in BOOLEAN, EndOffload(done),
         done => pc = "send" /\ Sent = Size
  PROVE  Inv'
<1>1. /\ pc' = "idle" /\ job' = NoJob
      /\ open' = [f \in Fds |-> IF f \in {job.listener, job.connection}
                                THEN "closed" ELSE open[f]]
      /\ sockets' = sockets \ {job.uri} /\ litter' = litter \ {job.uri}
      /\ reader' = HangUp(job.uri)
      /\ entries' = [entries EXCEPT ![job.dump].offloaded = @ \/ done]
  BY DEF EndOffload
<1>2. /\ job.dump \in Dumps
      /\ open[job.listener] = "listener"
      /\ job.connection # NoFd => open[job.connection] = "connection"
  BY DEF Inv, JobInv, Offloading
<1>3. /\ entries' \in [Dumps -> [status : {"progress", "complete", "gone"},
                                 fd : Fds \cup {NoFd}, offloaded : BOOLEAN]]
      /\ \A d \in Dumps : entries'[d].fd = entries[d].fd
      /\ \A d \in Dumps : entries'[d].offloaded =>
           entries[d].offloaded \/ (d = job.dump /\ done)
  <2>1. entries \in [Dumps -> [status : {"progress", "complete", "gone"},
                               fd : Fds \cup {NoFd}, offloaded : BOOLEAN]]
    BY DEF Inv, TypeOK
  <2>2. entries[job.dump].offloaded \/ done \in BOOLEAN
    BY <1>2, <2>1
  <2>3. \A d \in Dumps : entries'[d] =
          IF d = job.dump
          THEN [entries[d] EXCEPT !.offloaded = entries[d].offloaded \/ done]
          ELSE entries[d]
    BY <1>1, <2>1
  <2> QED
    BY <1>1, <1>2, <2>1, <2>2, <2>3
<1>4. TypeOK'
  <2>1. job' \in [dump : Dumps \cup {"none"}, uri : Uris \cup {"none"},
                  reader : Readers \cup {"none"},
                  listener : Fds \cup {NoFd}, connection : Fds \cup {NoFd}]
    BY <1>1 DEF NoJob
  <2>2. open' \in [Fds -> Dumps \cup {"closed", "listener", "connection"}]
    BY <1>1 DEF Inv, TypeOK
  <2>3. reader' \in [Readers -> [at : {"out", "waiting", "served", "hungup"},
                                 uri : Uris \cup {"none"},
                                 dump : Dumps \cup {"none"},
                                 gone : BOOLEAN,
                                 read : 0 .. Size, unread : 0 .. BUFFER]]
    BY <1>1, HungUp DEF Inv
  <2> QED
    BY <1>1, <1>3, <2>1, <2>2, <2>3 DEF Inv, TypeOK
<1>5. /\ \A r \in Readers : /\ reader'[r].dump = reader[r].dump
                            /\ reader'[r].read = reader[r].read
                            /\ reader'[r].unread = reader[r].unread
                            /\ reader'[r].at \in {"out", "waiting"} =>
                                 reader[r].at \in {"out", "waiting"}
  BY <1>1, HungUp DEF Inv
<1>6. JobInv' /\ ReaderInv'
  BY <1>1, <1>5 DEF Inv, JobInv, ReaderInv, Offloading
<1>7. SocketInv'
  <2>1. \A f \in Fds : open'[f] \notin {"listener", "connection"}
    BY <1>1 DEF Inv, SocketInv
  <2> QED
    BY <1>1, <2>1 DEF Inv, SocketInv, Offloading
<1>8. HandleIsOfItsDump'
  <2> SUFFICES ASSUME NEW d \in Dumps, entries[d].fd # NoFd
               PROVE  open'[entries[d].fd] = d
    BY <1>3 DEF HandleIsOfItsDump
  <2>1. entries[d].fd \in Fds /\ open[entries[d].fd] = d
    BY HandlesDiffer
  <2>2. entries[d].fd # job.listener /\ entries[d].fd # job.connection
    BY <1>2, <2>1
  <2> QED
    BY <1>1, <2>1, <2>2
<1>9. OffloadedWasSent'
  <2> SUFFICES ASSUME NEW d \in Dumps, entries'[d].offloaded
               PROVE  \E r \in Readers :
                        /\ reader'[r].dump = d
                        /\ reader'[r].read + reader'[r].unread = Size
    BY DEF OffloadedWasSent
  <2>1. CASE entries[d].offloaded
    BY <1>5, <2>1 DEF Inv, OffloadedWasSent
  <2>2. CASE d = job.dump /\ done
    <3>1. /\ job.reader \in Readers /\ reader[job.reader].dump = d
          /\ reader[job.reader].read + reader[job.reader].unread = Size
      BY <2>2 DEF Inv, JobInv, Sent
    <3> QED
      BY <1>5, <3>1
  <2> QED
    BY <1>3, <2>1, <2>2
<1> QED
  BY <1>4, <1>6, <1>7, <1>8, <1>9 DEF Inv

\* Who is accepted was sent nothing yet: no dump was sent to it whole.
LEMMA AcceptStep ==
  ASSUME Inv, NEW r \in Readers, Accept(r)
  PROVE  Inv'
<1>1. /\ pc = "wait" /\ Offloading /\ job.connection = NoFd
      /\ reader[r].at = "waiting" /\ reader[r].uri = job.uri
      /\ reader[r].read = 0 /\ reader[r].unread = 0
      /\ job.dump \in Dumps /\ job.uri \in Uris
      /\ job.listener \in Fds /\ open[job.listener] = "listener"
  BY DEF Accept, Waiting, Inv, JobInv, ReaderInv, Offloading
<1>2. NewFd \in Fds /\ open[NewFd] = "closed"
  BY NewFdIsFree DEF Accept, TwoFree
<1> DEFINE n == NewFd
<1>3. /\ pc' = "send"
      /\ job' = [job EXCEPT !.reader = r, !.connection = n]
      /\ open' = [open EXCEPT ![n] = "connection"]
      /\ reader' = [reader EXCEPT ![r].at = "served", ![r].dump = job.dump]
      /\ UNCHANGED <<entries, sockets, litter>>
      /\ n \in Fds /\ open[n] = "closed"
  BY <1>2 DEF Accept
<1> HIDE DEF n
<1>4. /\ job'.dump = job.dump /\ job'.uri = job.uri /\ job'.reader = r
      /\ job'.listener = job.listener /\ job'.connection = n
      /\ job' \in [dump : Dumps \cup {"none"}, uri : Uris \cup {"none"},
                   reader : Readers \cup {"none"},
                   listener : Fds \cup {NoFd}, connection : Fds \cup {NoFd}]
  BY <1>3 DEF Inv, TypeOK
<1>5. /\ reader' \in [Readers -> [at : {"out", "waiting", "served", "hungup"},
                                  uri : Uris \cup {"none"},
                                  dump : Dumps \cup {"none"},
                                  gone : BOOLEAN,
                                  read : 0 .. Size, unread : 0 .. BUFFER]]
      /\ reader'[r].at = "served" /\ reader'[r].dump = job.dump
      /\ reader'[r].uri = job.uri
      /\ reader'[r].read = 0 /\ reader'[r].unread = 0
      /\ \A q \in Readers \ {r} : reader'[q] = reader[q]
  <2> DEFINE State == [at : {"out", "waiting", "served", "hungup"},
                       uri : Uris \cup {"none"}, dump : Dumps \cup {"none"},
                       gone : BOOLEAN, read : 0 .. Size, unread : 0 .. BUFFER]
             R == [reader[r] EXCEPT !.at = "served", !.dump = job.dump]
  <2>1. reader \in [Readers -> State] /\ reader[r] \in State
    BY DEF Inv, TypeOK
  <2>2. reader' = [reader EXCEPT ![r] = R]
    BY <1>3, <2>1
  <2>3. /\ R \in State
        /\ R.at = "served" /\ R.dump = job.dump
        /\ R.uri = job.uri /\ R.read = 0 /\ R.unread = 0
    BY <1>1, <2>1
  <2> HIDE DEF State, R
  <2>4. /\ reader' \in [Readers -> State] /\ reader'[r] = R
        /\ \A q \in Readers \ {r} : reader'[q] = reader[q]
    BY <2>1, <2>2, <2>3
  <2> QED
    BY <2>3, <2>4 DEF State
<1>6. /\ open' \in [Fds -> Dumps \cup {"closed", "listener", "connection"}]
      /\ open'[n] = "connection"
      /\ \A f \in Fds \ {n} : open'[f] = open[f]
  BY <1>3 DEF Inv, TypeOK
<1>7. TypeOK'
  BY <1>3, <1>4, <1>5, <1>6 DEF Inv, TypeOK
<1>8. JobInv'
  BY <1>1, <1>3, <1>4, <1>5, <1>6 DEF JobInv, Offloading
<1>9. ReaderInv'
  BY <1>5 DEF Inv, ReaderInv
<1>10. SocketInv'
  BY <1>1, <1>3, <1>4, <1>6 DEF Inv, SocketInv, Offloading
<1>11. HandleIsOfItsDump'
  <2> SUFFICES ASSUME NEW d \in Dumps, entries[d].fd # NoFd
               PROVE  open'[entries[d].fd] = d
    BY <1>3 DEF HandleIsOfItsDump
  <2>1. entries[d].fd \in Fds /\ open[entries[d].fd] = d
    BY HandlesDiffer
  <2> QED
    BY <1>3, <1>6, <2>1
<1>12. OffloadedWasSent'
  <2> SUFFICES ASSUME NEW d \in Dumps, entries[d].offloaded
               PROVE  \E q \in Readers :
                        /\ reader'[q].dump = d
                        /\ reader'[q].read + reader'[q].unread = Size
    BY <1>3 DEF OffloadedWasSent
  <2>1. PICK q \in Readers :
          reader[q].dump = d /\ reader[q].read + reader[q].unread = Size
    BY DEF Inv, OffloadedWasSent
  <2>2. q # r
    BY <1>1, <2>1
  <2> QED
    BY <1>5, <2>1, <2>2
<1> QED
  BY <1>7, <1>8, <1>9, <1>10, <1>11, <1>12 DEF Inv

LEMMA SendStep == Inv /\ SendBlock => Inv'
<1> SUFFICES ASSUME Inv, SendBlock PROVE Inv'
  OBVIOUS
<1> DEFINE r == job.reader
<1>1. /\ pc = "send" /\ r \in Readers /\ reader[r].at = "served"
      /\ reader[r].read + reader[r].unread < Size
      /\ reader[r].unread < BUFFER
      /\ reader' = [reader EXCEPT ![r].unread = @ + 1]
      /\ UNCHANGED <<pc, job, entries, open, sockets, litter>>
  BY DEF SendBlock, Sending, Sent, Inv, JobInv
<1> HIDE DEF r
<1>2. reader[r].read \in 0 .. Size /\ reader[r].unread \in 0 .. BUFFER
  BY <1>1 DEF Inv, TypeOK
<1>3. /\ reader[r].unread + 1 \in 0 .. BUFFER
      /\ reader[r].read + (reader[r].unread + 1) <= Size
  BY <1>1, <1>2
<1>4. /\ reader'[r] = [reader[r] EXCEPT !.unread = reader[r].unread + 1]
      /\ \A q \in Readers \ {r} : reader'[q] = reader[q]
  BY <1>1 DEF Inv, TypeOK
<1>5. /\ reader'[r].unread = reader[r].unread + 1
      /\ reader'[r].read = reader[r].read /\ reader'[r].at = reader[r].at
      /\ reader'[r].dump = reader[r].dump /\ reader'[r].uri = reader[r].uri
  BY <1>1, <1>4 DEF Inv, TypeOK
<1>6. TypeOK'
  BY <1>1, <1>3 DEF Inv, TypeOK
<1>7. JobInv'
  BY <1>1, <1>4, <1>5 DEF Inv, JobInv, Offloading
<1>8. ReaderInv'
  BY <1>1, <1>3, <1>4, <1>5 DEF Inv, ReaderInv
<1>9. SocketInv' /\ HandleIsOfItsDump'
  BY <1>1 DEF Inv, SocketInv, HandleIsOfItsDump, Offloading
<1>10. OffloadedWasSent'
  <2> SUFFICES ASSUME NEW d \in Dumps, entries[d].offloaded
               PROVE  \E q \in Readers :
                        /\ reader'[q].dump = d
                        /\ reader'[q].read + reader'[q].unread = Size
    BY <1>1 DEF OffloadedWasSent
  <2>1. PICK q \in Readers :
          reader[q].dump = d /\ reader[q].read + reader[q].unread = Size
    BY DEF Inv, OffloadedWasSent
  <2>2. q # r
    BY <1>1, <1>2, <2>1
  <2> QED
    BY <1>4, <2>1, <2>2
<1> QED
  BY <1>6, <1>7, <1>8, <1>9, <1>10 DEF Inv

LEMMA OffloadStep == Inv /\ Offload => Inv'
<1> SUFFICES ASSUME Inv, Offload PROVE Inv'
  OBVIOUS
<1>1. CASE NobodyConnects
  BY <1>1, EndStep DEF NobodyConnects, Offloading
<1>2. CASE \E r \in Readers : Accept(r)
  BY <1>2, AcceptStep
<1>3. CASE AcceptFails
  BY <1>3, EndStep DEF AcceptFails, Waiting, Offloading
<1>4. CASE SendBlock
  BY <1>4, SendStep
<1>5. CASE SendFails
  BY <1>5, EndStep DEF SendFails, Sending, Offloading
<1>6. CASE Offloaded
  BY <1>6, EndStep DEF Offloaded, Offloading
<1> QED
  BY <1>1, <1>2, <1>3, <1>4, <1>5, <1>6 DEF Offload

-----------------------------------------------------------------------------
(* The daemon *)

LEMMA CrashStep == Inv /\ Crash => Inv'
<1> SUFFICES ASSUME Inv, Crash PROVE Inv'
  OBVIOUS
<1>1. /\ pc' = "down" /\ job' = NoJob
      /\ open' = [f \in Fds |-> "closed"]
      /\ litter' = sockets /\ sockets' = sockets
      /\ reader' = HangUp(job.uri) \/ reader' = reader
      /\ entries' = [d \in Dumps |-> IF entries[d].status = "complete"
                                     THEN [NewEntry EXCEPT !.status = "complete"]
                                     ELSE Gone]
  BY DEF Crash
<1>2. /\ entries' \in [Dumps -> [status : {"progress", "complete", "gone"},
                                 fd : Fds \cup {NoFd}, offloaded : BOOLEAN]]
      /\ \A d \in Dumps : entries'[d].fd = NoFd /\ ~entries'[d].offloaded
  BY <1>1 DEF NewEntry, Gone
<1>3. /\ reader' \in [Readers -> [at : {"out", "waiting", "served", "hungup"},
                                  uri : Uris \cup {"none"},
                                  dump : Dumps \cup {"none"},
                                  gone : BOOLEAN,
                                  read : 0 .. Size, unread : 0 .. BUFFER]]
      /\ \A r \in Readers : /\ reader'[r].read = reader[r].read
                            /\ reader'[r].unread = reader[r].unread
                            /\ reader'[r].at \in {"out", "waiting"} =>
                                 reader[r].at \in {"out", "waiting"}
  BY <1>1, HungUp DEF Inv, TypeOK
<1>4. TypeOK'
  BY <1>1, <1>2, <1>3 DEF Inv, TypeOK, NoJob
<1>5. JobInv' /\ ReaderInv' /\ SocketInv'
  BY <1>1, <1>3 DEF Inv, JobInv, ReaderInv, SocketInv, Offloading
<1>6. HandleIsOfItsDump' /\ OffloadedWasSent'
  BY <1>2 DEF HandleIsOfItsDump, OffloadedWasSent
<1> QED
  BY <1>4, <1>5, <1>6 DEF Inv

LEMMA NextInv == Inv /\ [Next]_vars => Inv'
<1> SUFFICES ASSUME Inv, [Next]_vars PROVE Inv'
  OBVIOUS
<1>1. CASE \E r \in Readers : Connect(r) \/ Read(r) \/ Leave(r)
  BY <1>1, ReadersStep
<1>2. CASE \E d \in Dumps :
             DumpCompletes(d) \/ GetFileHandle(d) \/ CloseFD(d) \/ Delete(d)
  BY <1>2, EntriesStep
<1>3. CASE \E d \in Dumps, u \in Uris : OffloadRefused(d, u) \/ InitiateOffload(d, u)
  BY <1>3, RefusedStep, InitiateStep
<1>4. CASE Offload
  BY <1>4, OffloadStep
<1>5. CASE Crash
  BY <1>5, CrashStep
<1>6. CASE Restart \/ UNCHANGED vars
  <2>1. /\ UNCHANGED <<job, entries, open, sockets, reader, litter>>
        /\ pc' = pc \/ (pc = "down" /\ pc' = "idle")
    BY <1>6 DEF Restart, vars
  <2>2. TypeOK'
    BY <2>1 DEF Inv, TypeOK
  <2>3. JobInv' /\ ReaderInv' /\ SocketInv'
    BY <2>1 DEF Inv, JobInv, ReaderInv, SocketInv, Offloading
  <2>4. HandleIsOfItsDump' /\ OffloadedWasSent'
    BY <2>1 DEF Inv, HandleIsOfItsDump, OffloadedWasSent
  <2> QED
    BY <2>2, <2>3, <2>4 DEF Inv
<1> QED
  BY <1>1, <1>2, <1>3, <1>4, <1>5, <1>6 DEF Next

-----------------------------------------------------------------------------
(* The theorems *)

\* The invariant holds: while the event loop runs no socket is open, and in an
\* offload those it opened are, for the reader it serves.
THEOREM InvHolds == Spec => []Inv
<1> QED
  BY InitInv, NextInv, PTL DEF Spec

\* Every variable keeps its type: no reader is sent more than the archive.
THEOREM TypeCorrect == Spec => []TypeOK
<1>1. Inv => TypeOK
  BY DEF Inv
<1> QED
  BY <1>1, InvHolds, PTL

\* The handle that getFileHandle gives again is of the archive of its entry.
THEOREM HandleOfDump == Spec => []HandleIsOfItsDump
<1>1. Inv => HandleIsOfItsDump
  BY DEF Inv
<1> QED
  BY <1>1, InvHolds, PTL

\* A dump that initiateOffload marks offloaded was sent to one reader, whole.
THEOREM SentWhole == Spec => []OffloadedWasSent
<1>1. Inv => OffloadedWasSent
  BY DEF Inv
<1> QED
  BY <1>1, InvHolds, PTL

\* However requestOffload ends, it leaves neither a socket nor a descriptor.
THEOREM LeavesNothing == Spec => []NothingLeftBehind
<1>1. Inv => NothingLeftBehind
  <2> SUFFICES ASSUME Inv PROVE NothingLeftBehind
    OBVIOUS
  <2>1. {f \in Fds : open[f] \in {"listener", "connection"}}
          = {job.listener, job.connection} \ {NoFd}
    <3> DEFINE Left == {f \in Fds : open[f] \in {"listener", "connection"}}
    <3>1. CASE pc = "send"
      <4>1. /\ job.listener \in Fds /\ open[job.listener] = "listener"
            /\ job.connection \in Fds /\ open[job.connection] = "connection"
        BY <3>1 DEF Inv, JobInv, Offloading
      <4>2. job.listener # NoFd /\ job.connection # NoFd
        BY <4>1
      <4>3. \A f \in Left : f = job.listener \/ f = job.connection
        BY DEF Inv, SocketInv
      <4> QED
        BY <4>1, <4>2, <4>3
    <3>2. CASE pc = "wait"
      <4>1. /\ job.listener \in Fds /\ open[job.listener] = "listener"
            /\ job.connection = NoFd
        BY <3>2 DEF Inv, JobInv, Offloading
      <4>2. job.listener # NoFd /\ NoFd \notin Fds
        BY <4>1
      <4>3. \A f \in Left : f = job.listener \/ f = job.connection
        BY DEF Inv, SocketInv
      <4> QED
        BY <4>1, <4>2, <4>3
    <3>3. CASE ~Offloading
      <4>1. job.listener = NoFd /\ job.connection = NoFd
        BY <3>3, NothingOpen DEF NoJob
      <4>2. Left = {}
        BY <3>3, NothingOpen
      <4> QED
        BY <4>1, <4>2
    <3> QED
      BY <3>1, <3>2, <3>3 DEF Offloading
  <2> QED
    BY <2>1 DEF NothingLeftBehind, Inv, SocketInv
<1> QED
  BY <1>1, InvHolds, PTL

-----------------------------------------------------------------------------
(* How long an offload can take *)

\* The most steps the handler has yet to make: to accept a reader, to send it the
\* blocks that it was not sent, and to end.
StepsLeft ==
  CASE pc = "wait"           -> Size + 2
    [] pc = "send"           -> Size + 1 - Sent
    [] pc \in {"idle", "down"} -> 0

OffloadRunsOut ==
  [][Offloading => StepsLeft' <= StepsLeft
                   /\ (Offload => StepsLeft' < StepsLeft)]_vars

StepsLeftIs ==
  /\ pc = "wait" => StepsLeft = Size + 2
  /\ pc = "send" => StepsLeft = Size + 1 - Sent
  /\ pc \in {"idle", "down"} => StepsLeft = 0

LEMMA StepsAt == StepsLeftIs
  BY DEF StepsLeftIs, StepsLeft

LEMMA StepsAtNext == StepsLeftIs'
  BY StepsAt, PTL

\* The reader that is served was sent no more than there is.
LEMMA SentBound ==
  Inv /\ pc = "send" =>
    /\ Sent \in 0 .. Size
    /\ reader[job.reader].read \in Nat /\ reader[job.reader].unread \in Nat
<1> SUFFICES ASSUME Inv, pc = "send"
             PROVE  /\ Sent \in 0 .. Size
                    /\ reader[job.reader].read \in Nat
                    /\ reader[job.reader].unread \in Nat
  OBVIOUS
<1>1. job.reader \in Readers
  BY DEF Inv, JobInv
<1>2. reader[job.reader].read \in Nat /\ reader[job.reader].unread \in Nat
  BY <1>1 DEF Inv, TypeOK
<1>3. reader[job.reader].read + reader[job.reader].unread <= Size
  BY <1>1 DEF Inv, ReaderInv
<1> QED
  BY <1>2, <1>3 DEF Sent

LEMMA StepsBound ==
  Inv => StepsLeft \in 0 .. Size + 2 /\ (Offloading => StepsLeft >= 1)
<1> SUFFICES ASSUME Inv
             PROVE  StepsLeft \in 0 .. Size + 2 /\ (Offloading => StepsLeft >= 1)
  OBVIOUS
<1>1. CASE pc = "wait"
  BY <1>1, StepsAt DEF StepsLeftIs
<1>2. CASE pc = "send"
  <2>1. Sent \in 0 .. Size /\ StepsLeft = Size + 1 - Sent
    BY <1>2, SentBound, StepsAt DEF StepsLeftIs
  <2> QED
    BY <2>1
<1>3. CASE pc \in {"idle", "down"}
  BY <1>3, StepsAt DEF StepsLeftIs, Offloading
<1> QED
  BY <1>1, <1>2, <1>3 DEF Inv, TypeOK

LEMMA SentBoundNext == (Inv /\ pc = "send" => Sent \in 0 .. Size)'
<1>1. Inv /\ pc = "send" => Sent \in 0 .. Size
  BY SentBound
<1> QED
  BY <1>1, PTL

LEMMA StepsBoundNext == (Inv => StepsLeft \in 0 .. Size + 2)'
<1>1. Inv => StepsLeft \in 0 .. Size + 2
  BY StepsBound
<1> QED
  BY <1>1, PTL

LEMMA OffloadGoesOn ==
  ASSUME Inv, Inv', Offload
  PROVE  StepsLeft' < StepsLeft
<1>1. CASE \E r \in Readers : Accept(r)
  <2>1. pc = "wait" /\ pc' = "send"
    BY <1>1 DEF Accept, Waiting
  <2>2. Sent' \in 0 .. Size
    BY <2>1, SentBoundNext
  <2>3. StepsLeft = Size + 2 /\ StepsLeft' = Size + 1 - Sent'
    BY <2>1, StepsAt, StepsAtNext DEF StepsLeftIs
  <2>4. \A s \in 0 .. Size : Size + 1 - s < Size + 2
    OBVIOUS
  <2>5. Size + 1 - Sent' < Size + 2
    BY <2>2, <2>4
  <2> QED
    BY <2>3, <2>5
<1>2. CASE SendBlock
  <2>1. pc = "send" /\ pc' = "send" /\ job' = job /\ job.reader \in Readers
    BY <1>2 DEF SendBlock, Sending, Inv, JobInv
  <2>2. Sent \in 0 .. Size /\ reader[job.reader].read \in Nat
        /\ reader[job.reader].unread \in Nat
    BY <2>1, SentBound
  <2>3. /\ reader'[job.reader].read = reader[job.reader].read
        /\ reader'[job.reader].unread = reader[job.reader].unread + 1
    BY <1>2, <2>1 DEF SendBlock, Inv, TypeOK
  <2>4. Sent' = Sent + 1
    BY <2>1, <2>2, <2>3 DEF Sent
  <2>5. StepsLeft = Size + 1 - Sent /\ StepsLeft' = Size + 1 - Sent'
    BY <2>1, StepsAt, StepsAtNext DEF StepsLeftIs
  <2> QED
    BY <2>2, <2>4, <2>5
<1>3. CASE NobodyConnects \/ AcceptFails \/ SendFails \/ Offloaded
  <2>1. Offloading /\ pc' = "idle"
    BY <1>3 DEF NobodyConnects, AcceptFails, SendFails, Offloaded, EndOffload,
                Waiting, Sending, Offloading
  <2>2. StepsLeft' = 0
    BY <2>1, StepsAtNext DEF StepsLeftIs
  <2> QED
    BY <2>1, <2>2, StepsBound
<1> QED
  BY <1>1, <1>2, <1>3 DEF Offload

\* What the readers do takes no step more: one that reads was sent as much.
LEMMA ReadersAddNothing ==
  ASSUME Inv, NEW r \in Readers, Offloading, Connect(r) \/ Read(r) \/ Leave(r)
  PROVE  StepsLeft' = StepsLeft
<1>1. pc' = pc /\ job' = job
  BY DEF Connect, Read, Leave
<1>2. CASE pc = "wait"
  BY <1>1, <1>2, StepsAt, StepsAtNext DEF StepsLeftIs
<1>3. CASE pc = "send"
  <2>1. job.reader \in Readers
    BY <1>3 DEF Inv, JobInv
  <2>2. reader[job.reader].read \in Nat /\ reader[job.reader].unread \in Nat
    BY <1>3, SentBound
  <2>3. reader'[job.reader].read + reader'[job.reader].unread
          = reader[job.reader].read + reader[job.reader].unread
    <3>1. CASE r # job.reader \/ ~ Read(r)
      <4>1. /\ reader'[job.reader].read = reader[job.reader].read
            /\ reader'[job.reader].unread = reader[job.reader].unread
        BY <2>1, <3>1 DEF Connect, Read, Leave, Inv, TypeOK
      <4> QED
        BY <4>1
    <3>2. CASE r = job.reader /\ Read(r)
      <4>1. /\ reader'[job.reader].read = reader[job.reader].read + 1
            /\ reader'[job.reader].unread = reader[job.reader].unread - 1
        BY <2>1, <3>2 DEF Read, Inv, TypeOK
      <4> QED
        BY <2>2, <4>1
    <3> QED
      BY <3>1, <3>2
  <2>4. Sent' = Sent
    BY <1>1, <2>3 DEF Sent
  <2> QED
    BY <1>1, <1>3, <2>4, StepsAt, StepsAtNext DEF StepsLeftIs
<1> QED
  BY <1>2, <1>3 DEF Offloading

\* requestOffload takes at most a step to accept, one for each block and one to
\* end: whoever connects, reads, leaves or stays adds none.  It is what
\* OffloadEnds stands on, with the fairness of the handler.
THEOREM OffloadIsBounded ==
  Spec => [](StepsLeft \in 0 .. Size + 2) /\ OffloadRunsOut
<1>1. Inv => StepsLeft \in 0 .. Size + 2
  BY StepsBound
<1>2. Inv /\ Inv' /\ [Next]_vars =>
        [Offloading => StepsLeft' <= StepsLeft
                       /\ (Offload => StepsLeft' < StepsLeft)]_vars
  <2> SUFFICES ASSUME Inv, Inv', Next, Offloading
               PROVE  StepsLeft' <= StepsLeft /\ (Offload => StepsLeft' < StepsLeft)
    OBVIOUS
  <2>1. StepsLeft \in Int /\ StepsLeft >= 1
    BY StepsBound
  <2>2. StepsLeft' \in Int
    <3>1. StepsLeft' \in 0 .. Size + 2
      BY StepsBoundNext
    <3> QED
      BY <3>1
  <2>3. CASE Offload
    BY <2>1, <2>2, <2>3, OffloadGoesOn
  <2>4. CASE ~ Offload
    <3>1. CASE Crash
      <4>1. StepsLeft' = 0
        BY <3>1, StepsAtNext DEF StepsLeftIs, Crash
      <4> QED
        BY <2>1, <2>4, <4>1
    <3>2. ASSUME NEW r \in Readers, Connect(r) \/ Read(r) \/ Leave(r)
          PROVE  StepsLeft' <= StepsLeft
      <4>1. StepsLeft' = StepsLeft
        BY <3>2, ReadersAddNothing
      <4> QED
        BY <2>1, <4>1
    <3>3. /\ ~ \E d \in Dumps : \/ DumpCompletes(d) \/ GetFileHandle(d)
                                \/ CloseFD(d) \/ Delete(d)
          /\ ~ \E d \in Dumps, u \in Uris :
                 OffloadRefused(d, u) \/ InitiateOffload(d, u)
          /\ ~ Restart
      BY DEF Offloading, DumpCompletes, GetFileHandle, CloseFD, Delete,
             OffloadRefused, InitiateOffload, Restart
    <3> QED
      BY <2>4, <3>1, <3>2, <3>3 DEF Next
  <2> QED
    BY <2>3, <2>4
<1> QED
  BY <1>1, <1>2, InvHolds, PTL DEF Spec, OffloadRunsOut
=============================================================================
