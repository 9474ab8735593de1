----------------------- MODULE CreateDumpDbusProofs -----------------------
(***************************************************************************)
(* Proofs about CreateDumpDbus, for any clients, any sequence of types and *)
(* any time-outs.  The invariant says where the server is in the types of  *)
(* the request it serves: those it has told of, then those it has to do,   *)
(* are the types asked for.                                                *)
(***************************************************************************)
EXTENDS CreateDumpDbus, SequenceTheorems, TLAPS

Serving == pc \notin {"idle", "down"}
Working == pc \in {"poll", "look", "iterate", "copy", "copied", "failed"}
Asked(c) == TypesOf(request[c])

PlaceInv ==
  Serving =>
    /\ served \in Clients /\ served \notin Range(queue) /\ state[served] # "out"
    /\ Working => todo # <<>>
    /\ pc \in {"invalid", "end"} => todo = <<>>
    /\ pc \in {"invalid", "request"} => told[served] = <<>>

CountInv ==
  /\ pc = "poll" => time_p \in 0 .. MaxPolls + 1 /\ fails < MaxFails
  /\ pc \in {"look", "iterate"} => time_p \in 0 .. TIMEOUT

QueueInv ==
  /\ \A i, j \in DOMAIN queue : queue[i] = queue[j] => i = j
  /\ \A i \in DOMAIN queue : told[queue[i]] = <<>> /\ state[queue[i]] # "out"
  /\ \A c \in Clients : state[c] = "out" => told[c] = <<>> /\ c \notin answered

ToldInv ==
  /\ \A c \in Clients :
       /\ Len(told[c]) <= Len(Asked(c))
       /\ \A i \in 1 .. Len(told[c]) : told[c][i].type = Asked(c)[i]
       /\ c \in answered \/ state[c] = "ended" => Len(told[c]) = Len(Asked(c))
  /\ Serving =>
       /\ Len(told[served]) + Len(todo) = Len(Asked(served))
       /\ \A i \in 1 .. Len(todo) :
            todo[i] = Asked(served)[Len(told[served]) + i]

CopyInv ==
  /\ ToldCopyIsThere
  /\ pc = "copied" => [client |-> served, type |-> Head(todo)] \in copies

Inv ==
  /\ TypeOK
  /\ PlaceInv
  /\ CountInv
  /\ QueueInv
  /\ ToldInv
  /\ CopyInv
-----------------------------------------------------------------------------
(* The types of a request *)

LEMMA TypesOfAreTypes ==
  /\ \A r \in Requests : TypesOf(r) \in Seq(Types)
  /\ TypesOf("unsupported") = <<>>
<1>1. SUPPORTED \in Seq(Types)
  <2>1. SUPPORTED \in [1 .. Len(SUPPORTED) -> STRING] /\ Len(SUPPORTED) \in Nat
    BY TypesAssumption, LenProperties
  <2>2. \A i \in 1 .. Len(SUPPORTED) : SUPPORTED[i] \in Types
    BY <2>1 DEF Types, Range
  <2>3. SUPPORTED = [i \in 1 .. Len(SUPPORTED) |-> SUPPORTED[i]]
    BY <2>1
  <2>4. [i \in 1 .. Len(SUPPORTED) |-> SUPPORTED[i]] \in Seq(Types)
    BY <2>1, <2>2, IsASeq
  <2> QED
    BY <2>3, <2>4
<1>2. \A r \in Types : <<r>> \in Seq(Types)
  OBVIOUS
<1>3. <<>> \in Seq(Types)
  OBVIOUS
<1>4. "unsupported" \notin Types
  BY NamesAssumption DEF Types
<1> QED
  BY <1>1, <1>2, <1>3, <1>4 DEF TypesOf

\* The elements of a queue are those at its places.
LEMMA InQueue ==
  ASSUME NEW q \in Seq(Clients)
  PROVE  /\ DOMAIN q = 1 .. Len(q) /\ Len(q) \in Nat
         /\ \A c : c \in Range(q) <=> \E i \in 1 .. Len(q) : q[i] = c
         /\ \A i \in 1 .. Len(q) : q[i] \in Clients
  BY LenProperties DEF Range

LEMMA InitInv == Init => Inv
<1> SUFFICES ASSUME Init PROVE Inv
  OBVIOUS
<1>1. TypeOK
  BY PollsAssumption DEF Init, TypeOK, NoDump, Requests, Verdict
<1>2. Len(<<>>) = 0 /\ DOMAIN <<>> = {} /\ Range(<<>>) = {}
  BY DEF Range
<1>3. \A c \in Clients : Asked(c) \in Seq(Types)
  BY TypesOfAreTypes DEF Init, Asked, Requests
<1>4. \A c \in Clients : Len(Asked(c)) \in Nat
  BY <1>3, LenProperties
<1>5. PlaceInv /\ CountInv /\ QueueInv
  BY <1>2 DEF Init, PlaceInv, CountInv, QueueInv, Serving
<1>6. ToldInv
  BY <1>2, <1>4 DEF Init, ToldInv, Serving
<1>7. CopyInv
  BY <1>2 DEF Init, CopyInv, ToldCopyIsThere
<1> QED
  BY <1>1, <1>5, <1>6, <1>7 DEF Inv

-----------------------------------------------------------------------------
(* The dump manager and the clients *)

\* Only the dump changes.
LEMMA DumpStep ==
  ASSUME Inv, UNCHANGED <<server, sockets, clients, copies, told>>,
         dump' \in [status : {"none", "InProgress", "Completed", "Failed", "gone"},
                    place : {"none", "dir", "file"}]
  PROVE  Inv'
<1>1. UNCHANGED <<pc, served, todo, time_p, fails, queue, answered, state, request,
                  copies, told>>
  BY DEF server, sockets, clients
<1>2. TypeOK'
  BY <1>1 DEF Inv, TypeOK
<1>3. PlaceInv' /\ CountInv' /\ QueueInv'
  BY <1>1 DEF Inv, PlaceInv, CountInv, QueueInv, Serving, Working
<1>4. ToldInv' /\ CopyInv'
  BY <1>1 DEF Inv, ToldInv, CopyInv, ToldCopyIsThere, Asked, Serving
<1> QED
  BY <1>2, <1>3, <1>4 DEF Inv

LEMMA DumpManagerStep == Inv /\ (DumpAdvances \/ DumpDeleted) => Inv'
<1> SUFFICES ASSUME Inv, DumpAdvances \/ DumpDeleted PROVE Inv'
  OBVIOUS
<1>1. dump' \in [status : {"none", "InProgress", "Completed", "Failed", "gone"},
                 place : {"none", "dir", "file"}]
  <2>1. dump \in [status : {"none", "InProgress", "Completed", "Failed", "gone"},
                  place : {"none", "dir", "file"}]
    BY DEF Inv, TypeOK
  <2>2. CASE DumpDeleted
    BY <2>2 DEF DumpDeleted, Gone
  <2>3. CASE DumpAdvances
    BY <2>1, <2>3 DEF DumpAdvances
  <2> QED
    BY <2>2, <2>3
<1> QED
  BY <1>1, DumpStep DEF DumpAdvances, DumpDeleted

\* A client that is not out goes on: the server, the queue and what it was told
\* stay, and it is answered only if it was.
LEMMA ClientGoesOn ==
  ASSUME Inv, NEW c \in Clients, state[c] # "out",
         NEW l \in {"ended", "spinning", "left"},
         state' = [state EXCEPT ![c] = l],
         l = "ended" => c \in answered,
         answered' \subseteq answered,
         UNCHANGED <<server, queue, request, dump, copies, told>>
  PROVE  Inv'
<1>1. UNCHANGED <<pc, served, todo, time_p, fails, queue, request, dump, copies,
                  told>>
  BY DEF server
<1>2. /\ state' \in [Clients -> {"out", "reading", "ended", "refused", "spinning",
                                 "left"}]
      /\ state'[c] = l
      /\ \A d \in Clients \ {c} : state'[d] = state[d]
  BY DEF Inv, TypeOK
<1>3. TypeOK'
  BY <1>1, <1>2 DEF Inv, TypeOK
<1>4. PlaceInv' /\ CountInv'
  BY <1>1, <1>2 DEF Inv, PlaceInv, CountInv, Serving, Working
<1>5. QueueInv'
  <2>1. \A i \in DOMAIN queue : queue[i] \in Clients
    BY InQueue DEF Inv, TypeOK
  <2>2. \A d \in Clients : state'[d] = "out" => state[d] = "out" /\ d # c
    BY <1>2
  <2>3. \A i \in DOMAIN queue : told'[queue[i]] = <<>> /\ state'[queue[i]] # "out"
    BY <1>1, <2>1, <2>2 DEF Inv, QueueInv
  <2>4. \A d \in Clients : state'[d] = "out" => told'[d] = <<>> /\ d \notin answered'
    BY <1>1, <2>2 DEF Inv, QueueInv
  <2> QED
    BY <1>1, <2>3, <2>4 DEF Inv, QueueInv
<1>6. ToldInv'
  BY <1>1, <1>2 DEF Inv, ToldInv, Asked, Serving
<1>7. CopyInv'
  BY <1>1 DEF Inv, CopyInv, ToldCopyIsThere
<1> QED
  BY <1>3, <1>4, <1>5, <1>6, <1>7 DEF Inv

LEMMA ConnectStep ==
  ASSUME Inv, NEW c \in Clients, Connect(c)
  PROVE  Inv'
<1>1. PICK r \in Requests :
        /\ request' = [request EXCEPT ![c] = r]
        /\ IF pc = "down"
           THEN /\ state' = [state EXCEPT ![c] = "refused"]
                /\ UNCHANGED queue
           ELSE /\ state' = [state EXCEPT ![c] = "reading"]
                /\ queue' = Append(queue, c)
  BY DEF Connect
<1>2. /\ state[c] = "out" /\ told[c] = <<>> /\ c \notin answered
      /\ UNCHANGED <<pc, served, todo, time_p, fails, answered, dump, copies, told>>
  BY DEF Connect, Inv, QueueInv, server
<1>3. /\ state' \in [Clients -> {"out", "reading", "ended", "refused", "spinning",
                                 "left"}]
      /\ request' \in [Clients -> Requests]
      /\ state'[c] \in {"reading", "refused"}
      /\ \A d \in Clients \ {c} : state'[d] = state[d] /\ request'[d] = request[d]
  BY <1>1 DEF Inv, TypeOK
<1>4. queue \in Seq(Clients) /\ queue' \in Seq(Clients)
  <2>1. queue \in Seq(Clients)
    BY DEF Inv, TypeOK
  <2> QED
    BY <1>1, <2>1
<1>5. \A i \in DOMAIN queue : queue[i] # c
  BY <1>2 DEF Inv, QueueInv
<1>6. /\ \A i \in DOMAIN queue' : queue'[i] = c \/ (i \in DOMAIN queue
                                                    /\ queue'[i] = queue[i])
      /\ \A i, j \in DOMAIN queue' : queue'[i] = queue'[j] => i = j
  <2>1. CASE queue' = queue
    BY <2>1 DEF Inv, QueueInv
  <2>2. CASE queue' = Append(queue, c)
    <3>1. /\ Len(queue') = Len(queue) + 1 /\ queue'[Len(queue) + 1] = c
          /\ \A i \in 1 .. Len(queue) : queue'[i] = queue[i]
          /\ DOMAIN queue' = 1 .. Len(queue) + 1 /\ DOMAIN queue = 1 .. Len(queue)
          /\ Len(queue) \in Nat
      BY <1>4, <2>2
    <3>2. \A i \in DOMAIN queue' : i \in DOMAIN queue \/ i = Len(queue) + 1
      BY <3>1
    <3> QED
      BY <1>5, <3>1, <3>2 DEF Inv, QueueInv
  <2> QED
    BY <1>1, <2>1, <2>2
<1>7. TypeOK'
  BY <1>2, <1>3, <1>4 DEF Inv, TypeOK
<1>8. Serving => served # c
  BY <1>2 DEF Inv, PlaceInv
<1>9. PlaceInv' /\ CountInv'
  <2>1. ASSUME Serving PROVE served \notin Range(queue')
    BY <1>4, <1>6, <1>8, <2>1, InQueue DEF Inv, PlaceInv, Range
  <2> QED
    BY <1>2, <1>3, <1>8, <2>1 DEF Inv, PlaceInv, CountInv, Serving, Working
<1>10. QueueInv'
  <2>1. \A i \in DOMAIN queue' : told'[queue'[i]] = <<>> /\ state'[queue'[i]] # "out"
    <3> TAKE i \in DOMAIN queue'
    <3>1. CASE queue'[i] = c
      BY <1>2, <1>3, <3>1
    <3>2. CASE i \in DOMAIN queue /\ queue'[i] = queue[i] /\ queue[i] # c
      <4>1. queue[i] \in Clients
        BY <1>4, <3>2, InQueue
      <4> QED
        BY <1>2, <1>3, <3>2, <4>1 DEF Inv, QueueInv
    <3> QED
      BY <1>5, <1>6, <3>1, <3>2
  <2>2. \A d \in Clients : state'[d] = "out" => told'[d] = <<>> /\ d \notin answered'
    BY <1>2, <1>3 DEF Inv, QueueInv
  <2> QED
    BY <1>6, <2>1, <2>2 DEF QueueInv
<1>11. ToldInv'
  <2>1. \A d \in Clients \ {c} : Asked(d)' = Asked(d)
    BY <1>3 DEF Asked
  <2>2. Len(told[c]) = 0 /\ Len(Asked(c)') \in Nat
    <3>1. Asked(c)' \in Seq(Types)
      BY <1>3, TypesOfAreTypes DEF Asked
    <3> QED
      BY <1>2, <3>1, LenProperties
  <2>3. ASSUME NEW d \in Clients
        PROVE  /\ Len(told'[d]) <= Len(Asked(d)')
               /\ \A i \in 1 .. Len(told'[d]) : told'[d][i].type = Asked(d)'[i]
               /\ d \in answered' \/ state'[d] = "ended" =>
                    Len(told'[d]) = Len(Asked(d)')
    <3>1. CASE d = c
      BY <1>2, <1>3, <2>2, <3>1
    <3>2. CASE d # c
      BY <1>2, <1>3, <2>1, <3>2 DEF Inv, ToldInv
    <3> QED
      BY <3>1, <3>2
  <2>4. ASSUME Serving PROVE Asked(served)' = Asked(served)
    BY <1>2, <1>8, <2>1, <2>4 DEF Inv, PlaceInv, Asked
  <2> QED
    BY <1>2, <2>3, <2>4 DEF Inv, ToldInv, Serving, Asked
<1>12. CopyInv'
  BY <1>2 DEF Inv, CopyInv, ToldCopyIsThere
<1> QED
  BY <1>7, <1>9, <1>10, <1>11, <1>12 DEF Inv

LEMMA ClientStep ==
  ASSUME Inv, NEW c \in Clients, Client(c) \/ Leave(c)
  PROVE  Inv'
<1>1. CASE Connect(c)
  BY <1>1, ConnectStep
<1>2. CASE ReadEnd(c)
  BY <1>2, ClientGoesOn DEF ReadEnd
<1>3. CASE ReadNothing(c)
  BY <1>3, ClientGoesOn DEF ReadNothing, sockets
<1>4. CASE Leave(c)
  BY <1>4, ClientGoesOn DEF Leave
<1> QED
  BY <1>1, <1>2, <1>3, <1>4 DEF Client
-----------------------------------------------------------------------------
(* The server *)

\* It dies: what it has told its clients, and what it has copied, stays.
LEMMA DiesStep ==
  ASSUME Inv, Dies, UNCHANGED <<answered, copies, told>>
  PROVE  Inv'
<1>1. /\ pc' = "down" /\ queue' = <<>> /\ todo' = <<>> /\ time_p' = 0
      /\ fails' = 0 /\ dump' = NoDump
      /\ UNCHANGED <<served, request, answered, copies, told>>
  BY DEF Dies
<1>2. /\ state' \in [Clients -> {"out", "reading", "ended", "refused", "spinning",
                                 "left"}]
      /\ \A c \in Clients : state'[c] \in {state[c], "refused"}
  BY DEF Dies, Inv, TypeOK
<1>3. TypeOK'
  <2>1. todo' \in Seq(Types) /\ queue' \in Seq(Clients)
    BY <1>1
  <2>2. /\ time_p' \in (0 .. MaxPolls + 1) \cup (0 .. TIMEOUT + 1)
        /\ fails' \in 0 .. MaxFails
    BY <1>1, PollsAssumption
  <2>3. dump' \in [status : {"none", "InProgress", "Completed", "Failed", "gone"},
                   place : {"none", "dir", "file"}]
    BY <1>1 DEF NoDump
  <2> QED
    BY <1>1, <1>2, <2>1, <2>2, <2>3 DEF Inv, TypeOK
<1>4. PlaceInv' /\ CountInv'
  BY <1>1 DEF PlaceInv, CountInv, Serving
<1>5. QueueInv'
  BY <1>1, <1>2 DEF Inv, QueueInv
<1>6. ToldInv'
  <2>1. \A c \in Clients : Asked(c)' = Asked(c)
    BY <1>1 DEF Asked
  <2> QED
    BY <1>1, <1>2, <2>1 DEF Inv, ToldInv, Serving
<1>7. CopyInv'
  BY <1>1 DEF Inv, CopyInv, ToldCopyIsThere
<1> QED
  BY <1>3, <1>4, <1>5, <1>6, <1>7 DEF Inv

\* The one at the head of the queue was told nothing yet.
LEMMA AcceptStep == Inv /\ Accept => Inv'
<1> SUFFICES ASSUME Inv, Accept PROVE Inv'
  OBVIOUS
<1> DEFINE c == Head(queue)
<1>1. /\ queue \in Seq(Clients) /\ queue # <<>>
      /\ pc' \in {"invalid", "request"} /\ served' = c
      /\ queue' = Tail(queue) /\ todo' = Asked(c)
      /\ pc' = "invalid" => request[c] = "unsupported"
      /\ UNCHANGED <<time_p, fails, answered, state, request, dump, copies, told>>
  BY DEF Accept, Inv, TypeOK, Asked, clients
<1>2. /\ Tail(queue) \in Seq(Clients) /\ c \in Clients /\ c = queue[1]
      /\ 1 \in DOMAIN queue
      /\ \A i \in DOMAIN Tail(queue) : /\ Tail(queue)[i] = queue[i + 1]
                                       /\ i + 1 \in DOMAIN queue /\ i + 1 # 1
  BY <1>1
<1>3. /\ told[c] = <<>> /\ state[c] # "out"
      /\ \A i \in DOMAIN Tail(queue) : Tail(queue)[i] # c
  <2>1. /\ \A i, j \in DOMAIN queue : queue[i] = queue[j] => i = j
        /\ told[queue[1]] = <<>> /\ state[queue[1]] # "out"
    BY <1>2 DEF Inv, QueueInv
  <2> HIDE DEF c
  <2> QED
    BY <1>2, <2>1
<1> HIDE DEF c
<1>4. Asked(c) \in Seq(Types)
  <2>1. request[c] \in Requests
    BY <1>2 DEF Inv, TypeOK
  <2> QED
    BY <2>1, TypesOfAreTypes DEF Asked
<1>5. TypeOK'
  BY <1>1, <1>2, <1>4 DEF Inv, TypeOK
<1>6. pc' = "invalid" => Asked(c) = <<>>
  BY <1>1, TypesOfAreTypes DEF Asked
<1>7. PlaceInv' /\ CountInv'
  <2>1. c \notin Range(queue')
    BY <1>1, <1>3 DEF Range
  <2> QED
    BY <1>1, <1>2, <1>3, <1>6, <2>1 DEF PlaceInv, CountInv, Working
<1>8. QueueInv'
  <2>1. \A i, j \in DOMAIN queue' : queue'[i] = queue'[j] => i = j
    <3> TAKE i, j \in DOMAIN queue'
    <3>1. i \in Int /\ j \in Int
      BY <1>1, <1>2
    <3> QED
      BY <1>1, <1>2, <3>1 DEF Inv, QueueInv
  <2> QED
    BY <1>1, <1>2, <2>1 DEF Inv, QueueInv
<1>9. ToldInv'
  <2>1. \A d \in Clients : Asked(d)' = Asked(d)
    BY <1>1 DEF Asked
  <2>2. Len(told[c]) = 0 /\ Len(Asked(c)) \in Nat
    BY <1>3, <1>4, LenProperties
  <2>3. \A i \in 1 .. Len(Asked(c)) : Asked(c)[i] = Asked(c)[0 + i]
    BY <2>2
  <2> QED
    BY <1>1, <1>2, <2>1, <2>2, <2>3 DEF Inv, ToldInv, Asked
<1>10. CopyInv'
  <2>1. Range(told[c]) = {}
    BY <1>3 DEF Range
  <2> QED
    BY <1>1, <2>1 DEF CopyInv, ToldCopyIsThere
<1> QED
  BY <1>5, <1>7, <1>8, <1>9, <1>10 DEF Inv

\* The steps within one type: what is asked, told and left to do stays.
LEMMA QuietStep ==
  ASSUME Inv, Serving,
         pc' \in {"idle", "create", "poll", "look", "iterate", "copy", "copied",
                  "failed", "end"},
         UNCHANGED <<served, todo, queue, clients, told>>,
         \/ answered' = answered
         \/ pc = "end" /\ answered' = answered \cup {served},
         time_p' \in (0 .. MaxPolls + 1) \cup (0 .. TIMEOUT + 1),
         fails' \in 0 .. MaxFails,
         dump' \in [status : {"none", "InProgress", "Completed", "Failed", "gone"},
                    place : {"none", "dir", "file"}],
         copies' \subseteq [client : Clients, type : Types],
         CountInv', CopyInv',
         pc' \in {"poll", "look", "iterate", "copy", "copied", "failed"} =>
           todo # <<>>,
         pc' = "end" => todo = <<>>
  PROVE  Inv'
<1>1. UNCHANGED <<served, todo, queue, state, request, told>>
  BY DEF clients
<1>2. served \in Clients /\ state[served] # "out"
  BY DEF Inv, PlaceInv
<1>3. TypeOK'
  BY <1>1, <1>2 DEF Inv, TypeOK
<1>4. PlaceInv'
  BY <1>1 DEF Inv, PlaceInv, Serving, Working
<1>5. QueueInv'
  BY <1>1, <1>2 DEF Inv, QueueInv
<1>6. ToldInv'
  <2>1. pc = "end" => Len(told[served]) = Len(Asked(served))
    <3> SUFFICES ASSUME pc = "end" PROVE Len(told[served]) = Len(Asked(served))
      OBVIOUS
    <3>1. todo = <<>> /\ Len(todo) = 0
      BY DEF Inv, PlaceInv
    <3>2. Len(told[served]) \in Nat
      BY <1>2, LenProperties DEF Inv, TypeOK
    <3> QED
      BY <3>1, <3>2 DEF Inv, ToldInv
  <2>2. \A c \in Clients : Asked(c)' = Asked(c)
    BY <1>1 DEF Asked
  <2> QED
    BY <1>1, <1>2, <2>1, <2>2 DEF Inv, ToldInv, Serving
<1> QED
  BY <1>3, <1>4, <1>5, <1>6 DEF Inv

LEMMA HeadOfTodo ==
  ASSUME Inv, Serving, todo # <<>>
  PROVE  /\ Head(todo) \in Types /\ Head(todo) = todo[1]
         /\ Tail(todo) \in Seq(Types)
         /\ Len(todo) \in Nat /\ Len(Tail(todo)) = Len(todo) - 1 /\ 1 <= Len(todo)
         /\ \A i \in 1 .. Len(todo) - 1 : Tail(todo)[i] = todo[i + 1]
         /\ Head(todo) = Asked(served)[Len(told[served]) + 1]
         /\ told[served] \in Seq(Verdict) /\ Len(told[served]) \in Nat
         /\ Len(told[served]) < Len(Asked(served)) /\ Len(Asked(served)) \in Nat
<1>1. todo \in Seq(Types) /\ served \in Clients
  BY DEF Inv, TypeOK, PlaceInv
<1>2. /\ Head(todo) \in Types /\ Head(todo) = todo[1]
      /\ Tail(todo) \in Seq(Types)
      /\ Len(todo) \in Nat /\ Len(Tail(todo)) = Len(todo) - 1 /\ 1 <= Len(todo)
      /\ \A i \in 1 .. Len(todo) - 1 : Tail(todo)[i] = todo[i + 1]
  BY <1>1
<1>3. told[served] \in Seq(Verdict) /\ Asked(served) \in Seq(Types)
  BY <1>1, TypesOfAreTypes DEF Inv, TypeOK, Asked
<1>4. Len(told[served]) \in Nat /\ Len(Asked(served)) \in Nat
  BY <1>3, LenProperties
<1>5. /\ Len(told[served]) + Len(todo) = Len(Asked(served))
      /\ todo[1] = Asked(served)[Len(told[served]) + 1]
  BY <1>2 DEF Inv, ToldInv
<1> QED
  BY <1>2, <1>3, <1>4, <1>5

\* The server tells of the type at the head of todo, and goes on to the next.
LEMMA TellStep ==
  ASSUME Inv, Serving, todo # <<>>, NEW copied \in BOOLEAN, Tell(copied),
         copied => [client |-> served, type |-> Head(todo)] \in copies,
         SendText("create"), UNCHANGED copies
  PROVE  Inv'
<1> DEFINE v == [type |-> Head(todo), copied |-> copied]
           s == told[served]
<1>1. /\ told' = [told EXCEPT ![served] = Append(s, v)]
      /\ todo' = Tail(todo) /\ time_p' = 0 /\ fails' = 0 /\ dump' = NoDump
      /\ pc' = "create"
      /\ UNCHANGED <<served, queue, answered, state, request, copies>>
  BY DEF Tell, SendText, sockets, clients
<1>2. /\ served \in Clients /\ served \notin Range(queue) /\ state[served] # "out"
      /\ v \in Verdict /\ s \in Seq(Verdict) /\ Len(s) \in Nat
      /\ Len(s) < Len(Asked(served)) /\ Len(Asked(served)) \in Nat
  BY HeadOfTodo DEF Inv, PlaceInv, Verdict
<1>3. /\ Append(s, v) \in Seq(Verdict) /\ Len(Append(s, v)) = Len(s) + 1
      /\ Append(s, v)[Len(s) + 1] = v
      /\ \A i \in 1 .. Len(s) : Append(s, v)[i] = s[i]
  BY <1>2
<1>4. /\ told' \in [Clients -> Seq(Verdict)]
      /\ told'[served] = Append(s, v)
      /\ \A c \in Clients \ {served} : told'[c] = told[c]
  BY <1>1, <1>2, <1>3 DEF Inv, TypeOK
<1>5. v.type = Asked(served)[Len(s) + 1] /\ v.type = Head(todo) /\ v.copied = copied
  BY HeadOfTodo
<1> HIDE DEF v, s
<1>6. TypeOK'
  <2>1. /\ time_p' \in (0 .. MaxPolls + 1) \cup (0 .. TIMEOUT + 1)
        /\ fails' \in 0 .. MaxFails
    BY <1>1, PollsAssumption
  <2>2. dump' \in [status : {"none", "InProgress", "Completed", "Failed", "gone"},
                   place : {"none", "dir", "file"}]
    BY <1>1 DEF NoDump
  <2>3. todo' \in Seq(Types)
    BY <1>1, HeadOfTodo
  <2> QED
    BY <1>1, <1>4, <2>1, <2>2, <2>3 DEF Inv, TypeOK
<1>7. PlaceInv' /\ CountInv'
  BY <1>1, <1>2 DEF PlaceInv, CountInv, Working
<1>8. QueueInv'
  <2>1. \A i \in DOMAIN queue : queue[i] \in Clients \ {served}
    BY <1>2, InQueue DEF Inv, TypeOK
  <2>2. \A i \in DOMAIN queue : told'[queue[i]] = <<>> /\ state'[queue[i]] # "out"
    BY <1>1, <1>4, <2>1 DEF Inv, QueueInv
  <2>3. \A c \in Clients : state'[c] = "out" => told'[c] = <<>> /\ c \notin answered'
    BY <1>1, <1>2, <1>4 DEF Inv, QueueInv
  <2> QED
    BY <1>1, <2>2, <2>3 DEF Inv, QueueInv
<1>9. ToldInv'
  <2>1. \A c \in Clients : Asked(c)' = Asked(c)
    BY <1>1 DEF Asked
  <2>2. /\ Len(told'[served]) <= Len(Asked(served))
        /\ \A i \in 1 .. Len(told'[served]) :
             told'[served][i].type = Asked(served)[i]
    <3>1. \A i \in 1 .. Len(s) : s[i].type = Asked(served)[i]
      BY <1>2 DEF Inv, ToldInv, s
    <3>2. \A i \in 1 .. Len(s) + 1 : i \in 1 .. Len(s) \/ i = Len(s) + 1
      BY <1>2
    <3>3. Len(told'[served]) = Len(s) + 1
      BY <1>3, <1>4
    <3>4. ASSUME NEW i \in 1 .. Len(s) + 1
          PROVE  told'[served][i].type = Asked(served)[i]
      <4>1. CASE i \in 1 .. Len(s)
        BY <1>3, <1>4, <3>1, <4>1
      <4>2. CASE i = Len(s) + 1
        BY <1>3, <1>4, <1>5, <4>2
      <4> QED
        BY <3>2, <4>1, <4>2
    <3> QED
      BY <1>2, <3>3, <3>4
  <2>3. served \notin answered /\ state[served] # "ended"
    <3>1. Len(s) # Len(Asked(served))
      BY <1>2
    <3> QED
      BY <1>2, <3>1 DEF Inv, ToldInv, s
  <2>4. /\ Len(told'[served]) + Len(todo') = Len(Asked(served))
        /\ \A i \in 1 .. Len(todo') :
             todo'[i] = Asked(served)[Len(told'[served]) + i]
    <3>1. /\ Len(s) + Len(todo) = Len(Asked(served))
          /\ \A i \in 1 .. Len(todo) : todo[i] = Asked(served)[Len(s) + i]
      BY DEF Inv, ToldInv, s
    <3>2. /\ Len(todo) \in Nat /\ Len(todo') = Len(todo) - 1
          /\ \A i \in 1 .. Len(todo) - 1 : todo'[i] = todo[i + 1]
      BY <1>1, HeadOfTodo
    <3>3. \A i \in 1 .. Len(todo') :
            todo'[i] = Asked(served)[Len(s) + 1 + i]
      <4> TAKE i \in 1 .. Len(todo')
      <4>1. i + 1 \in 1 .. Len(todo) /\ todo'[i] = todo[i + 1]
        BY <3>2
      <4>2. Len(s) + (i + 1) = Len(s) + 1 + i
        BY <1>2
      <4> QED
        BY <3>1, <4>1, <4>2
    <3>4. Len(told'[served]) = Len(s) + 1
      BY <1>3, <1>4
    <3>5. Len(s) + 1 + Len(todo') = Len(Asked(served))
      <4>1. Len(s) \in Nat /\ Len(todo) \in Nat /\ Len(todo') = Len(todo) - 1
        BY <1>2, <3>2
      <4>2. Len(Asked(served)) = Len(s) + Len(todo)
        BY <3>1
      <4> QED
        BY <4>1, <4>2
    <3> QED
      BY <3>3, <3>4, <3>5
  <2>5. ASSUME NEW c \in Clients
        PROVE  /\ Len(told'[c]) <= Len(Asked(c))
               /\ \A i \in 1 .. Len(told'[c]) : told'[c][i].type = Asked(c)[i]
               /\ c \in answered' \/ state'[c] = "ended" =>
                    Len(told'[c]) = Len(Asked(c))
    <3>1. CASE c = served
      BY <1>1, <2>2, <2>3, <3>1
    <3>2. CASE c # served
      BY <1>1, <1>4, <3>2 DEF Inv, ToldInv
    <3> QED
      BY <3>1, <3>2
  <2> QED
    BY <1>1, <1>2, <2>4, <2>5 DEF ToldInv, Asked
<1>10. CopyInv'
  <2> SUFFICES ASSUME NEW w \in Range(told'[served]), w.copied
               PROVE  [client |-> served, type |-> w.type] \in copies
    BY <1>1 DEF CopyInv, ToldCopyIsThere
  <2>1. PICK i \in 1 .. Len(s) + 1 : w = Append(s, v)[i]
    BY <1>2, <1>3, <1>4 DEF Range
  <2>2. CASE i \in 1 .. Len(s)
    <3>1. w \in Range(told[served])
      BY <1>2, <1>3, <2>1, <2>2 DEF Range, s
    <3> QED
      BY <1>2, <3>1 DEF Inv, CopyInv, ToldCopyIsThere
  <2>3. CASE i = Len(s) + 1
    BY <1>3, <1>5, <2>1, <2>3
  <2> QED
    BY <1>2, <2>1, <2>2, <2>3
<1> QED
  BY <1>6, <1>7, <1>8, <1>9, <1>10 DEF Inv

-----------------------------------------------------------------------------
(* The steps of the server *)

\* What the dump and the counters may be once they are set anew.
LEMMA Fresh ==
  /\ 0 \in (0 .. MaxPolls + 1) \cup (0 .. TIMEOUT + 1) /\ 0 \in 0 .. MaxFails
  /\ 0 \in 0 .. MaxPolls + 1 /\ 0 \in 0 .. TIMEOUT /\ 0 < MaxFails
  /\ NewDump \in [status : {"none", "InProgress", "Completed", "Failed", "gone"},
                  place : {"none", "dir", "file"}]
  BY PollsAssumption DEF NewDump

\* What is copied stays, and the server is not about to tell of a copy.
LEMMA CopiesStay ==
  ASSUME Inv, pc' # "copied", UNCHANGED <<served, told>>, copies \subseteq copies'
  PROVE  CopyInv'
  BY DEF Inv, CopyInv, ToldCopyIsThere

LEMMA InvalidTypeStep == Inv /\ InvalidType => Inv'
<1> SUFFICES ASSUME Inv, InvalidType PROVE Inv'
  OBVIOUS
<1>1. /\ pc = "invalid" /\ pc' = "end"
      /\ UNCHANGED <<served, todo, time_p, fails, queue, answered, clients, dump,
                     copies, told>>
  BY DEF InvalidType, SendText, sockets
<1>2. CountInv' /\ CopyInv'
  BY <1>1, CopiesStay DEF CountInv
<1>3. todo = <<>> /\ Serving
  BY <1>1 DEF Inv, PlaceInv, Serving
<1> QED
  BY <1>1, <1>2, <1>3, QuietStep DEF Inv, TypeOK

\* The client it serves was told nothing yet: no copy of its is deleted.
LEMMA DeleteCopiesStep == Inv /\ DeleteCopies => Inv'
<1> SUFFICES ASSUME Inv, DeleteCopies PROVE Inv'
  OBVIOUS
<1>1. /\ pc = "request" /\ pc' = "create" /\ copies' \subseteq copies
      /\ UNCHANGED <<served, todo, time_p, fails, queue, answered, clients, dump,
                     told>>
  BY DEF DeleteCopies, SendText, sockets
<1>2. Serving
  BY <1>1 DEF Serving
<1>3. CountInv'
  BY <1>1 DEF CountInv
<1>4. CopyInv'
  <2>1. told[served] = <<>> /\ Range(<<>>) = {}
    BY <1>1, <1>2 DEF Inv, PlaceInv, Range
  <2> QED
    BY <1>1, <2>1 DEF CopyInv, ToldCopyIsThere
<1> QED
  BY <1>1, <1>2, <1>3, <1>4, QuietStep DEF Inv, TypeOK

LEMMA CreateDumpStep == Inv /\ CreateDump => Inv'
<1> SUFFICES ASSUME Inv, CreateDump PROVE Inv'
  OBVIOUS
<1>1. /\ pc = "create" /\ pc' = "poll" /\ todo # <<>>
      /\ dump' = NewDump /\ time_p' = 0 /\ fails' = 0
      /\ UNCHANGED <<served, todo, queue, answered, clients, copies, told>>
  BY DEF CreateDump, DumpCreated, SendText, sockets
<1>2. CountInv' /\ CopyInv'
  BY <1>1, Fresh, CopiesStay DEF CountInv
<1>3. Serving
  BY <1>1 DEF Serving
<1> QED
  BY <1>1, <1>2, <1>3, Fresh, QuietStep DEF Inv, TypeOK

LEMMA CreateDumpFailsStep == Inv /\ CreateDumpFails => Inv'
<1> SUFFICES ASSUME Inv, CreateDumpFails PROVE Inv'
  OBVIOUS
<1>1. Serving
  BY DEF CreateDumpFails, Serving
<1> QED
  BY <1>1, TellStep DEF CreateDumpFails

LEMMA SendResultStep == Inv /\ SendResult => Inv'
<1> SUFFICES ASSUME Inv, SendResult PROVE Inv'
  OBVIOUS
<1>1. Serving /\ todo # <<>>
  BY DEF SendResult, Inv, PlaceInv, Serving, Working
<1>2. pc = "copied" => [client |-> served, type |-> Head(todo)] \in copies
  BY DEF Inv, CopyInv
<1>3. CASE pc = "copied"
  <2>1. Tell(TRUE)
    BY <1>3 DEF SendResult, Tell
  <2> QED
    BY <1>1, <1>2, <1>3, <2>1, TellStep DEF SendResult
<1>4. CASE pc # "copied"
  <2>1. Tell(FALSE)
    BY <1>4 DEF SendResult, Tell
  <2> QED
    BY <1>1, <2>1, TellStep DEF SendResult
<1> QED
  BY <1>3, <1>4

LEMMA NoTypeLeftStep == Inv /\ NoTypeLeft => Inv'
<1> SUFFICES ASSUME Inv, NoTypeLeft PROVE Inv'
  OBVIOUS
<1>1. /\ pc = "create" /\ pc' = "end" /\ todo = <<>>
      /\ UNCHANGED <<served, todo, time_p, fails, queue, answered, clients, dump,
                     copies, told>>
  BY DEF NoTypeLeft, sockets
<1>2. CountInv' /\ CopyInv'
  BY <1>1, CopiesStay DEF CountInv
<1>3. Serving
  BY <1>1 DEF Serving
<1> QED
  BY <1>1, <1>2, <1>3, QuietStep DEF Inv, TypeOK

\* A poll counts a poll, and a failure or none.
LEMMA PollStep ==
  Inv /\ (PollInProgress \/ PollFails \/ PollCompleted \/ PollGivesUp) => Inv'
<1> SUFFICES ASSUME Inv, PollInProgress \/ PollFails \/ PollCompleted \/ PollGivesUp
             PROVE  Inv'
  OBVIOUS
<1>1. /\ pc = "poll"
      /\ UNCHANGED <<served, todo, queue, answered, clients, dump, copies, told>>
  BY DEF PollInProgress, PollFails, PollCompleted, PollGivesUp, Polls, sockets
<1>2. /\ time_p \in 0 .. MaxPolls + 1 /\ fails \in Nat /\ fails < MaxFails
      /\ Serving /\ todo # <<>>
  BY <1>1 DEF Inv, TypeOK, CountInv, PlaceInv, Serving, Working
<1>3. /\ pc' \in {"poll", "failed", "look"}
      /\ time_p' \in (0 .. MaxPolls + 1) \cup (0 .. TIMEOUT + 1)
      /\ fails' \in 0 .. MaxFails
      /\ CountInv'
  <2>1. CASE PollInProgress
    BY <1>1, <1>2, <2>1, PollsAssumption DEF PollInProgress, PollAgain, CountInv
  <2>2. CASE PollFails
    BY <1>1, <1>2, <2>2, PollsAssumption DEF PollFails, PollAgain, CountInv
  <2>3. CASE PollCompleted
    BY <2>3, PollsAssumption DEF PollCompleted, CountInv
  <2>4. CASE PollGivesUp
    BY <1>2, <2>4, PollsAssumption DEF PollGivesUp, CountInv
  <2> QED
    BY <2>1, <2>2, <2>3, <2>4
<1>4. CopyInv'
  BY <1>1, <1>3, CopiesStay
<1> QED
  BY <1>1, <1>2, <1>3, <1>4, QuietStep DEF Inv, TypeOK

\* A look for the file counts one, or finds it.
LEMMA LookStep == Inv /\ (LookForFile \/ Iterate) => Inv'
<1> SUFFICES ASSUME Inv, LookForFile \/ Iterate PROVE Inv'
  OBVIOUS
<1>1. /\ pc \in {"look", "iterate"}
      /\ UNCHANGED <<served, todo, fails, queue, answered, clients, dump, copies,
                     told>>
  BY DEF LookForFile, Iterate, sockets
<1>2. time_p \in 0 .. TIMEOUT /\ Serving /\ todo # <<>>
  BY <1>1 DEF Inv, CountInv, PlaceInv, Serving, Working
<1>3. /\ pc' \in {"look", "iterate", "copy", "failed"}
      /\ time_p' \in 0 .. TIMEOUT + 1
      /\ CountInv'
  <2>1. CASE LookForFile
    BY <1>2, <2>1, PollsAssumption DEF LookForFile, CountInv
  <2>2. CASE Iterate
    BY <1>2, <2>2, PollsAssumption DEF Iterate, CountInv
  <2> QED
    BY <2>1, <2>2
<1>4. CopyInv'
  BY <1>1, <1>3, CopiesStay
<1> QED
  BY <1>1, <1>2, <1>3, <1>4, QuietStep DEF Inv, TypeOK

LEMMA CopyFileStep == Inv /\ CopyFile => Inv'
<1> SUFFICES ASSUME Inv, CopyFile PROVE Inv'
  OBVIOUS
<1>1. /\ pc = "copy"
      /\ \/ /\ pc' = "copied"
            /\ copies' = copies \cup {[client |-> served, type |-> Head(todo)]}
         \/ pc' = "failed" /\ copies' = copies
      /\ UNCHANGED <<served, todo, time_p, fails, queue, answered, clients, dump,
                     told>>
  BY DEF CopyFile, sockets
<1>2. Serving /\ todo # <<>> /\ served \in Clients
  BY <1>1 DEF Inv, PlaceInv, Serving, Working
<1>3. Head(todo) \in Types
  BY <1>2, HeadOfTodo
<1>4. copies' \subseteq [client : Clients, type : Types]
  BY <1>1, <1>2, <1>3 DEF Inv, TypeOK
<1>5. CountInv'
  BY <1>1 DEF CountInv
<1>6. CopyInv'
  BY <1>1 DEF Inv, CopyInv, ToldCopyIsThere
<1> QED
  BY <1>1, <1>2, <1>4, <1>5, <1>6, QuietStep DEF Inv, TypeOK

\* END is sent when no type is left, that is when the client was told of all.
LEMMA SendEndStep == Inv /\ SendEnd => Inv'
<1> SUFFICES ASSUME Inv, SendEnd PROVE Inv'
  OBVIOUS
<1>1. /\ pc = "end" /\ pc' = "idle" /\ answered' = answered \cup {served}
      /\ UNCHANGED <<served, todo, time_p, fails, queue, clients, dump, copies, told>>
  BY DEF SendEnd
<1>2. CountInv' /\ CopyInv'
  BY <1>1, CopiesStay DEF CountInv
<1>3. Serving
  BY <1>1 DEF Serving
<1> QED
  BY <1>1, <1>2, <1>3, QuietStep DEF Inv, TypeOK

LEMMA ServerStep == Inv /\ Server => Inv'
<1> SUFFICES ASSUME Inv, Server PROVE Inv'
  OBVIOUS
<1>1. CASE Accept \/ InvalidType \/ DeleteCopies
  BY <1>1, AcceptStep, InvalidTypeStep, DeleteCopiesStep
<1>2. CASE CreateDump \/ CreateDumpFails \/ NoTypeLeft
  BY <1>2, CreateDumpStep, CreateDumpFailsStep, NoTypeLeftStep
<1>3. CASE PollInProgress \/ PollFails \/ PollCompleted \/ PollGivesUp
  BY <1>3, PollStep
<1>4. CASE LookForFile \/ Iterate
  BY <1>4, LookStep
<1>5. CASE IterateThrows \/ SendFails
  BY <1>5, DiesStep DEF IterateThrows, SendFails
<1>6. CASE CopyFile \/ SendResult \/ SendEnd
  BY <1>6, CopyFileStep, SendResultStep, SendEndStep
<1> QED
  BY <1>1, <1>2, <1>3, <1>4, <1>5, <1>6 DEF Server

\* A server started again serves nobody yet.
LEMMA StartedStep == Inv /\ Started => Inv'
<1> SUFFICES ASSUME Inv, Started PROVE Inv'
  OBVIOUS
<1>1. /\ pc' = "idle"
      /\ UNCHANGED <<served, todo, time_p, fails, queue, answered, state, request,
                     dump, copies, told>>
  BY DEF Started, sockets, clients
<1>2. TypeOK'
  BY <1>1 DEF Inv, TypeOK
<1>3. PlaceInv' /\ CountInv' /\ QueueInv'
  BY <1>1 DEF Inv, PlaceInv, CountInv, QueueInv, Serving
<1>4. ToldInv' /\ CopyInv'
  BY <1>1 DEF Inv, ToldInv, CopyInv, ToldCopyIsThere, Asked, Serving
<1> QED
  BY <1>2, <1>3, <1>4 DEF Inv

LEMMA StutterStep == Inv /\ UNCHANGED vars => Inv'
<1> SUFFICES ASSUME Inv, UNCHANGED vars PROVE Inv'
  OBVIOUS
<1>1. /\ UNCHANGED <<server, sockets, clients, copies, told>>
      /\ dump' = dump
  BY DEF vars
<1> QED
  BY <1>1, DumpStep DEF Inv, TypeOK

LEMMA NextInv == Inv /\ [Next]_vars => Inv'
<1> SUFFICES ASSUME Inv, [Next]_vars PROVE Inv'
  OBVIOUS
<1>1. CASE Server
  BY <1>1, ServerStep
<1>2. CASE \E c \in Clients : Client(c) \/ Leave(c)
  BY <1>2, ClientStep
<1>3. CASE DumpAdvances \/ DumpDeleted
  BY <1>3, DumpManagerStep
<1>4. CASE Killed
  BY <1>4, DiesStep DEF Killed
<1>5. CASE Started
  BY <1>5, StartedStep
<1>6. CASE UNCHANGED vars
  BY <1>6, StutterStep
<1> QED
  BY <1>1, <1>2, <1>3, <1>4, <1>5, <1>6 DEF Next

-----------------------------------------------------------------------------
(* The theorems *)

\* Wherever a request stands, the types told of and those left to do are, in
\* order, the types asked for; the clients that wait were told nothing; and the
\* copies told of in the last request served are there.
THEOREM InvHolds == Spec => []Inv
<1> QED
  BY InitInv, NextInv, PTL DEF Spec

\* Every variable stays within its type: the polls and the failures counted
\* before the server gives up are bounded.
THEOREM TypeCorrect == Spec => []TypeOK
<1>1. Inv => TypeOK
  BY DEF Inv
<1> QED
  BY <1>1, InvHolds, PTL

\* However the dumps of a request fail, processDumpRequest says once of each of
\* its types, in order, how it went, and of all before it says END.
THEOREM VerdictPerType == Spec => []OneVerdictPerType
<1>1. Inv => OneVerdictPerType
  <2> SUFFICES ASSUME Inv, NEW c \in Clients
               PROVE  /\ IsPrefix(ToldOf(c), Asked(c))
                      /\ state[c] = "ended" => ToldOf(c) = Asked(c)
    BY DEF OneVerdictPerType, Asked
  <2> DEFINE n == Len(told[c])
             t == ToldOf(c)
             a == Asked(c)
  <2>1. told[c] \in Seq(Verdict) /\ a \in Seq(Types)
    BY TypesOfAreTypes DEF Inv, TypeOK, Asked
  <2>2. /\ DOMAIN told[c] = 1 .. n /\ n \in Nat
        /\ \A i \in 1 .. n : told[c][i].type \in Types
    <3>1. /\ DOMAIN told[c] = 1 .. n /\ n \in Nat
          /\ told[c] \in [1 .. n -> Verdict]
      BY <2>1, LenProperties
    <3>2. \A i \in 1 .. n : told[c][i] \in Verdict
      BY <3>1
    <3> QED
      BY <3>1, <3>2 DEF Verdict
  <2>3. /\ t = [i \in 1 .. n |-> told[c][i].type]
        /\ t \in Seq(Types) /\ Len(t) = n
    <3>1. t = [i \in 1 .. n |-> told[c][i].type]
      BY <2>2 DEF ToldOf
    <3>2. t \in Seq(Types)
      BY <2>2, <3>1, IsASeq
    <3> QED
      BY <2>2, <3>1, <3>2, LenProperties
  <2>4. /\ n <= Len(a) /\ Len(a) \in Nat
        /\ \A i \in 1 .. n : t[i] = a[i]
        /\ state[c] = "ended" => n = Len(a)
    BY <2>1, <2>3, LenProperties DEF Inv, ToldInv
  <2> HIDE DEF t, a, n
  <2>5. IsPrefix(t, a)
    BY <2>1, <2>2, <2>3, <2>4 DEF IsPrefix
  <2>6. ASSUME state[c] = "ended" PROVE t = a
    BY <2>1, <2>3, <2>4, <2>6, SeqEqual
  <2> QED
    BY <2>5, <2>6 DEF t, a
<1> QED
  BY <1>1, InvHolds, PTL

\* A dump that processSingleDump told its client is copied to /tmp is there until
\* the request of another client begins.
THEOREM CopiesAreThere == Spec => []ToldCopyIsThere
<1>1. Inv => ToldCopyIsThere
  BY DEF Inv, CopyInv
<1> QED
  BY <1>1, InvHolds, PTL

-----------------------------------------------------------------------------
(* How long a request can take *)

\* The most steps one type takes: to ask for its dump, to poll and to look for the
\* file until the time-outs, to copy it and to tell of it.
TypeSteps == 2 * TIMEOUT + MaxPolls + 7

\* The steps left when n types are left and none is begun.
Before(n) == n * TypeSteps + 2

\* Those left when the type at the head of todo is done.
Rest == Before(Len(todo) - 1)

\* The most steps the server has yet to take for the client it serves.
Work ==
  CASE pc = "request"              -> Before(Len(todo)) + 1
    [] pc = "create"               -> Before(Len(todo))
    [] pc = "poll"                 -> Rest + 2 * TIMEOUT + 6 + MaxPolls - time_p
    [] pc = "look"                 -> Rest + 2 * (TIMEOUT - time_p) + 4
    [] pc = "iterate"              -> Rest + 2 * (TIMEOUT - time_p) + 3
    [] pc = "copy"                 -> Rest + 2
    [] pc \in {"copied", "failed"} -> Rest + 1
    [] pc = "invalid"              -> 2
    [] pc = "end"                  -> 1
    [] pc \in {"idle", "down"}     -> 0

RequestSteps == Before(Len(SUPPORTED)) + 1

RequestRunsOut ==
  [][Serving => Work' <= Work /\ (Server => Work' < Work)]_vars

LEMMA TypeStepsType == /\ TypeSteps \in Nat /\ TIMEOUT \in Nat /\ MaxPolls \in Nat
                       /\ TypeSteps = 2 * TIMEOUT + MaxPolls + 7
  BY PollsAssumption DEF TypeSteps

\* A product is no less than another with a smaller factor.
LEMMA Products ==
  ASSUME NEW n \in Nat, NEW m \in Nat, n <= m, NEW k \in Nat
  PROVE  n * k \in Nat /\ n * k <= m * k
<1>1. PICK d \in Nat : m = n + d
  BY m - n \in Nat
<1>2. d * k \in Nat /\ n * k \in Nat
  OBVIOUS
<1>3. m * k = n * k + d * k
  BY <1>1
<1> QED
  BY <1>2, <1>3

LEMMA BeforeGrows ==
  /\ Before(0) = 2
  /\ \A n \in Nat : Before(n) \in Nat /\ Before(n) >= 2
  /\ \A n \in Nat \ {0} : Before(n) = Before(n - 1) + TypeSteps
  /\ \A n, m \in Nat : n <= m => Before(n) <= Before(m)
<1>1. TypeSteps \in Nat
  BY TypeStepsType
<1>2. Before(0) = 2
  BY <1>1 DEF Before
<1>3. \A n \in Nat : Before(n) \in Nat /\ Before(n) >= 2
  <2> TAKE n \in Nat
  <2>1. n * TypeSteps \in Nat
    BY <1>1, Products
  <2> QED
    BY <2>1 DEF Before
<1>4. \A n \in Nat \ {0} : Before(n) = Before(n - 1) + TypeSteps
  <2> TAKE n \in Nat \ {0}
  <2>1. n * TypeSteps = (n - 1) * TypeSteps + TypeSteps
    BY <1>1
  <2>2. (n - 1) * TypeSteps \in Nat
    BY <1>1, Products
  <2> QED
    BY <1>1, <2>1, <2>2 DEF Before
<1>5. \A n, m \in Nat : n <= m => Before(n) <= Before(m)
  <2> SUFFICES ASSUME NEW n \in Nat, NEW m \in Nat, n <= m
               PROVE  Before(n) <= Before(m)
    OBVIOUS
  <2>1. n * TypeSteps \in Nat /\ m * TypeSteps \in Nat
        /\ n * TypeSteps <= m * TypeSteps
    BY <1>1, Products
  <2> QED
    BY <2>1 DEF Before
<1> QED
  BY <1>2, <1>3, <1>4, <1>5

\* Work at each place.
WorkAt ==
  /\ pc = "request" => Work = Before(Len(todo)) + 1
  /\ pc = "create"  => Work = Before(Len(todo))
  /\ pc = "poll"    => Work = Rest + 2 * TIMEOUT + 6 + MaxPolls - time_p
  /\ pc = "look"    => Work = Rest + 2 * (TIMEOUT - time_p) + 4
  /\ pc = "iterate" => Work = Rest + 2 * (TIMEOUT - time_p) + 3
  /\ pc = "copy"    => Work = Rest + 2
  /\ pc \in {"copied", "failed"} => Work = Rest + 1
  /\ pc = "invalid" => Work = 2
  /\ pc = "end"     => Work = 1
  /\ pc \in {"idle", "down"} => Work = 0

LEMMA WorkIsAt == WorkAt
  BY DEF WorkAt, Work

LEMMA WorkIsAtNext == WorkAt'
  BY WorkIsAt, PTL

\* No request has more types than "all".
LEMMA TodoBound ==
  ASSUME Inv, Serving
  PROVE  Len(todo) \in Nat /\ Len(todo) <= Len(SUPPORTED) /\ Len(SUPPORTED) \in Nat
<1>1. served \in Clients /\ todo \in Seq(Types) /\ told[served] \in Seq(Verdict)
  BY DEF Inv, TypeOK, PlaceInv
<1>2. Len(todo) \in Nat /\ Len(told[served]) \in Nat
  BY <1>1, LenProperties
<1>3. Len(SUPPORTED) \in Nat /\ Len(SUPPORTED) >= 1
  BY TypesAssumption
<1>4. Len(Asked(served)) <= Len(SUPPORTED) /\ Len(Asked(served)) \in Nat
  <2>1. \/ Asked(served) = SUPPORTED
        \/ Asked(served) = <<request[served]>>
        \/ Asked(served) = <<>>
    BY DEF Asked, TypesOf
  <2>2. Len(<<request[served]>>) = 1 /\ Len(<<>>) = 0
    OBVIOUS
  <2>3. \/ Len(Asked(served)) = Len(SUPPORTED)
        \/ Len(Asked(served)) = 1
        \/ Len(Asked(served)) = 0
    BY <2>1, <2>2, Zenon
  <2> QED
    BY <1>3, <2>3
<1>5. Len(told[served]) + Len(todo) = Len(Asked(served))
  BY DEF Inv, ToldInv
<1> QED
  BY <1>2, <1>3, <1>4, <1>5

\* While a type is being done, one is left.
LEMMA RestBound ==
  ASSUME Inv, Serving
  PROVE  /\ Before(Len(todo)) \in Nat /\ Before(Len(todo)) >= 2
         /\ Before(Len(todo)) + 1 <= RequestSteps
         /\ RequestSteps \in Nat /\ RequestSteps >= 3
         /\ todo # <<>> => /\ Rest \in Nat /\ Rest >= 2
                           /\ Before(Len(todo)) = Rest + TypeSteps
                           /\ Len(Tail(todo)) = Len(todo) - 1
<1>1. Len(todo) \in Nat /\ Len(todo) <= Len(SUPPORTED) /\ Len(SUPPORTED) \in Nat
  BY TodoBound
<1>2. /\ Before(Len(todo)) \in Nat /\ Before(Len(todo)) >= 2
      /\ Before(Len(SUPPORTED)) \in Nat
      /\ Before(Len(todo)) <= Before(Len(SUPPORTED))
  BY <1>1, BeforeGrows
<1>3. ASSUME todo # <<>>
      PROVE  /\ Rest \in Nat /\ Rest >= 2
             /\ Before(Len(todo)) = Rest + TypeSteps
             /\ Len(Tail(todo)) = Len(todo) - 1
  <2>1. 1 <= Len(todo) /\ Len(Tail(todo)) = Len(todo) - 1
    BY <1>3, HeadOfTodo
  <2>2. Len(todo) - 1 \in Nat /\ Len(todo) \in Nat \ {0}
    BY <1>1, <2>1
  <2> QED
    BY <2>1, <2>2, BeforeGrows DEF Rest
<1> QED
  BY <1>2, <1>3 DEF RequestSteps

\* While the server serves a client it has something to do, and no more than the
\* request allows.
LEMMA WorkBound ==
  Inv => Work \in 0 .. RequestSteps /\ (Serving => Work >= 1)
<1> SUFFICES ASSUME Inv PROVE Work \in 0 .. RequestSteps /\ (Serving => Work >= 1)
  OBVIOUS
<1>1. CASE ~ Serving
  <2>1. Work = 0
    BY <1>1, WorkIsAt DEF WorkAt, Serving
  <2>2. RequestSteps \in Nat
    <3>1. Len(SUPPORTED) \in Nat
      BY TypesAssumption
    <3>2. Before(Len(SUPPORTED)) \in Nat
      BY <3>1, BeforeGrows
    <3> QED
      BY <3>2 DEF RequestSteps
  <2> QED
    BY <1>1, <2>1, <2>2
<1>2. CASE Serving
  <2>1. /\ Before(Len(todo)) \in Nat /\ Before(Len(todo)) >= 2
        /\ Before(Len(todo)) + 1 <= RequestSteps
        /\ RequestSteps \in Nat /\ RequestSteps >= 3
    BY <1>2, RestBound
  <2>2. CASE pc \in {"request", "create", "invalid", "end"}
    BY <2>1, <2>2, WorkIsAt DEF WorkAt
  <2>3. CASE Working
    <3>1. /\ Rest \in Nat /\ Rest >= 2 /\ Before(Len(todo)) = Rest + TypeSteps
      BY <1>2, <2>3, RestBound DEF Inv, PlaceInv
    <3>2. CASE pc = "poll"
      <4>1. time_p \in 0 .. MaxPolls + 1
        BY <3>2 DEF Inv, CountInv
      <4>2. Work = Rest + 2 * TIMEOUT + 6 + MaxPolls - time_p
        BY <3>2, WorkIsAt DEF WorkAt
      <4> QED
        BY <2>1, <3>1, <4>1, <4>2, TypeStepsType
    <3>3. CASE pc \in {"look", "iterate"}
      <4>1. time_p \in 0 .. TIMEOUT
        BY <3>3 DEF Inv, CountInv
      <4>2. \/ Work = Rest + 2 * (TIMEOUT - time_p) + 4
            \/ Work = Rest + 2 * (TIMEOUT - time_p) + 3
        BY <3>3, WorkIsAt DEF WorkAt
      <4> QED
        BY <2>1, <3>1, <4>1, <4>2, TypeStepsType
    <3>4. CASE pc \in {"copy", "copied", "failed"}
      <4>1. Work = Rest + 2 \/ Work = Rest + 1
        BY <3>4, WorkIsAt DEF WorkAt
      <4> QED
        BY <2>1, <3>1, <4>1, TypeStepsType
    <3> QED
      BY <2>3, <3>2, <3>3, <3>4 DEF Working
  <2> QED
    BY <1>2, <2>2, <2>3 DEF Serving, Working, Inv, TypeOK
<1> QED
  BY <1>1, <1>2

\* A server that dies leaves nothing to do.
LEMMA DyingEnds == ASSUME Inv, Serving, Dies PROVE Work' < Work
<1>1. Work' = 0
  BY WorkIsAtNext DEF WorkAt, Dies
<1>2. Work \in 0 .. RequestSteps /\ Work >= 1
  BY WorkBound
<1> QED
  BY <1>1, <1>2, WorkBound

\* The steps before the first type and after the last.
LEMMA BetweenTypes ==
  ASSUME Inv, InvalidType \/ DeleteCopies \/ NoTypeLeft \/ SendEnd
  PROVE  Work' < Work
<1>1. CASE InvalidType
  <2>1. Work = 2 /\ Work' = 1
    BY <1>1, WorkIsAt, WorkIsAtNext DEF WorkAt, InvalidType, SendText
  <2> QED
    BY <2>1
<1>2. CASE DeleteCopies
  <2>1. pc = "request" /\ pc' = "create" /\ todo' = todo /\ Serving
    BY <1>2 DEF DeleteCopies, SendText, Serving
  <2>2. Work = Before(Len(todo)) + 1 /\ Work' = Before(Len(todo))
    BY <2>1, WorkIsAt, WorkIsAtNext DEF WorkAt
  <2>3. Before(Len(todo)) \in Nat
    BY <2>1, RestBound
  <2> QED
    BY <2>2, <2>3
<1>3. CASE NoTypeLeft
  <2>1. pc = "create" /\ pc' = "end" /\ Len(todo) = 0
    BY <1>3 DEF NoTypeLeft
  <2>2. Work = 2 /\ Work' = 1
    BY <2>1, WorkIsAt, WorkIsAtNext, BeforeGrows DEF WorkAt
  <2> QED
    BY <2>2
<1>4. CASE SendEnd
  <2>1. Work = 1 /\ Work' = 0
    BY <1>4, WorkIsAt, WorkIsAtNext DEF WorkAt, SendEnd
  <2> QED
    BY <2>1
<1> QED
  BY <1>1, <1>2, <1>3, <1>4

\* A type is begun, told of without a dump, or told of in the end.
LEMMA TypeBeginsOrEnds ==
  ASSUME Inv, CreateDump \/ CreateDumpFails \/ SendResult
  PROVE  Work' < Work
<1>1. pc \in {"create", "copied", "failed"} /\ Serving /\ todo # <<>>
  BY DEF CreateDump, CreateDumpFails, SendResult, Serving, Inv, PlaceInv, Working
<1>2. /\ Rest \in Nat /\ Before(Len(todo)) = Rest + TypeSteps
      /\ Len(Tail(todo)) = Len(todo) - 1
  BY <1>1, RestBound
<1>3. CASE CreateDump
  <2>1. pc = "create" /\ pc' = "poll" /\ todo' = todo /\ time_p' = 0
    BY <1>3 DEF CreateDump, DumpCreated, SendText
  <2>2. Work = Before(Len(todo))
    BY <2>1, WorkIsAt DEF WorkAt
  <2>3. Rest' = Rest
    BY <2>1 DEF Rest
  <2>4. Work' = Rest + 2 * TIMEOUT + 6 + MaxPolls - 0
    BY <2>1, <2>3, WorkIsAtNext DEF WorkAt
  <2> QED
    BY <1>2, <2>2, <2>4, TypeStepsType
<1>4. CASE CreateDumpFails \/ SendResult
  <2>1. pc' = "create" /\ todo' = Tail(todo)
    BY <1>4 DEF CreateDumpFails, SendResult, SendText, Tell
  <2>2. Len(todo') = Len(todo) - 1
    BY <1>2, <2>1
  <2>3. Work' = Rest
    BY <2>1, <2>2, WorkIsAtNext DEF WorkAt, Rest
  <2>4. Work = Rest + TypeSteps \/ Work = Rest + 1
    BY <1>1, <1>2, WorkIsAt DEF WorkAt
  <2> QED
    BY <1>2, <2>3, <2>4, TypeStepsType
<1> QED
  BY <1>3, <1>4

\* Every poll and every look counts, or is the last.
LEMMA WithinType ==
  ASSUME Inv,
         \/ PollInProgress \/ PollFails \/ PollCompleted \/ PollGivesUp
         \/ LookForFile \/ Iterate \/ CopyFile
  PROVE  Work' < Work
<1>1. Working /\ Serving /\ todo' = todo
  BY DEF PollInProgress, PollFails, PollCompleted, PollGivesUp, Polls, LookForFile,
         Iterate, CopyFile, Working, Serving
<1>2. Rest \in Nat /\ Rest' = Rest
  <2>1. todo # <<>>
    BY <1>1 DEF Inv, PlaceInv
  <2> QED
    BY <1>1, <2>1, RestBound DEF Rest
<1>3. CASE PollInProgress \/ PollFails \/ PollCompleted \/ PollGivesUp
  <2>1. pc = "poll"
    BY <1>3 DEF PollInProgress, PollFails, PollCompleted, PollGivesUp, Polls
  <2>2. time_p \in 0 .. MaxPolls + 1
    BY <2>1 DEF Inv, CountInv
  <2>3. Work = Rest + 2 * TIMEOUT + 6 + MaxPolls - time_p
    BY <2>1, WorkIsAt DEF WorkAt
  <2>4. \/ pc' = "poll" /\ time_p' = time_p + 1
        \/ pc' = "failed"
        \/ pc' = "look" /\ time_p' = 0 /\ time_p <= MaxPolls
    BY <1>3, <2>1 DEF PollInProgress, PollFails, PollCompleted, PollGivesUp,
                      PollAgain
  <2>5. \/ Work' = Rest + 2 * TIMEOUT + 6 + MaxPolls - (time_p + 1)
        \/ Work' = Rest + 1
        \/ Work' = Rest + 2 * (TIMEOUT - 0) + 4 /\ time_p <= MaxPolls
    BY <1>2, <2>4, WorkIsAtNext DEF WorkAt
  <2> QED
    BY <1>2, <2>2, <2>3, <2>5, TypeStepsType
<1>4. CASE LookForFile
  <2>1. time_p \in 0 .. TIMEOUT /\ pc = "look"
    BY <1>4 DEF LookForFile, Inv, CountInv
  <2>2. Work = Rest + 2 * (TIMEOUT - time_p) + 4
    BY <2>1, WorkIsAt DEF WorkAt
  <2>3. \/ pc' = "iterate" /\ time_p' = time_p
        \/ pc' = "failed"
        \/ pc' = "look" /\ time_p' = time_p + 1
    BY <1>4, <2>1 DEF LookForFile
  <2>4. \/ Work' = Rest + 2 * (TIMEOUT - time_p) + 3
        \/ Work' = Rest + 1
        \/ Work' = Rest + 2 * (TIMEOUT - (time_p + 1)) + 4
    BY <1>2, <2>3, WorkIsAtNext DEF WorkAt
  <2> QED
    BY <1>2, <2>1, <2>2, <2>4, TypeStepsType
<1>5. CASE Iterate
  <2>1. time_p \in 0 .. TIMEOUT /\ pc = "iterate"
    BY <1>5 DEF Iterate, Inv, CountInv
  <2>2. Work = Rest + 2 * (TIMEOUT - time_p) + 3
    BY <2>1, WorkIsAt DEF WorkAt
  <2>3. \/ pc' = "copy"
        \/ pc' = "failed"
        \/ pc' = "look" /\ time_p' = time_p + 1
    BY <1>5 DEF Iterate
  <2>4. \/ Work' = Rest + 2
        \/ Work' = Rest + 1
        \/ Work' = Rest + 2 * (TIMEOUT - (time_p + 1)) + 4
    BY <1>2, <2>3, WorkIsAtNext DEF WorkAt
  <2> QED
    BY <1>2, <2>1, <2>2, <2>4, TypeStepsType
<1>6. CASE CopyFile
  <2>1. Work = Rest + 2 /\ Work' = Rest + 1
    BY <1>2, <1>6, WorkIsAt, WorkIsAtNext DEF WorkAt, CopyFile
  <2> QED
    BY <1>2, <2>1
<1> QED
  BY <1>3, <1>4, <1>5, <1>6

\* What is not the server's leaves its work as it is, or ends it.
LEMMA OthersAddNothing ==
  ASSUME Inv, Serving, [Next]_vars, ~ Server
  PROVE  Work' <= Work
<1>1. Work \in Int
  BY WorkBound
<1>2. CASE Killed
  <2>1. Work' < Work /\ Work' \in Int
    <3>1. Work' = 0
      BY <1>2, WorkIsAtNext DEF WorkAt, Killed, Dies
    <3> QED
      BY <1>2, <3>1, DyingEnds DEF Killed
  <2> QED
    BY <1>1, <2>1
<1>3. CASE ~ Killed
  <2>1. UNCHANGED <<pc, todo, time_p>>
    <3>1. ASSUME NEW c \in Clients, Client(c) \/ Leave(c)
          PROVE  UNCHANGED <<pc, todo, time_p>>
      BY <3>1 DEF Client, Connect, ReadEnd, ReadNothing, Leave, server
    <3>2. CASE DumpAdvances \/ DumpDeleted
      BY <3>2 DEF DumpAdvances, DumpDeleted, server
    <3>3. CASE UNCHANGED vars
      BY <3>3 DEF vars, server
    <3>4. ~ Started
      BY DEF Started, Serving
    <3> QED
      BY <1>3, <3>1, <3>2, <3>3, <3>4 DEF Next
  <2>2. Work' = Work
    BY <2>1 DEF Work, Rest
  <2> QED
    BY <1>1, <2>2
<1> QED
  BY <1>2, <1>3

LEMMA ServerWorks ==
  ASSUME Inv, Serving, Server
  PROVE  Work' < Work
<1>1. ~ Accept
  BY DEF Accept, Serving
<1>2. CASE IterateThrows \/ SendFails
  BY <1>2, DyingEnds DEF IterateThrows, SendFails
<1>3. CASE InvalidType \/ DeleteCopies \/ NoTypeLeft \/ SendEnd
  BY <1>3, BetweenTypes
<1>4. CASE CreateDump \/ CreateDumpFails \/ SendResult
  BY <1>4, TypeBeginsOrEnds
<1>5. CASE \/ PollInProgress \/ PollFails \/ PollCompleted \/ PollGivesUp
           \/ LookForFile \/ Iterate \/ CopyFile
  BY <1>5, WithinType
<1> QED
  BY <1>1, <1>2, <1>3, <1>4, <1>5 DEF Server

\* From the moment a request is accepted the server takes at most RequestSteps steps
\* for it, each of which leaves it less to do, whatever becomes of the dumps, and
\* nothing the clients or the dump manager do adds to them: the polls of
\* waitForDumpCreation and the looks of copyDumpToTmpDir run out for every type.
THEOREM RequestIsBounded ==
  Spec => [](Work \in 0 .. RequestSteps) /\ RequestRunsOut
<1>1. Inv => Work \in 0 .. RequestSteps
  BY WorkBound
<1>2. (Inv => Work \in 0 .. RequestSteps)'
  BY <1>1, PTL
<1>3. Inv /\ Inv' /\ [Next]_vars =>
        [Serving => Work' <= Work /\ (Server => Work' < Work)]_vars
  <2> SUFFICES ASSUME Inv, Inv', [Next]_vars, Serving
               PROVE  Work' <= Work /\ (Server => Work' < Work)
    OBVIOUS
  <2>1. Work \in Int /\ Work' \in Int
    <3>1. (0 .. RequestSteps) \subseteq Int
      OBVIOUS
    <3>2. (0 .. RequestSteps)' \subseteq Int
      OBVIOUS
    <3> QED
      BY <1>1, <1>2, <3>1, <3>2
  <2>2. CASE Server
    BY <2>1, <2>2, ServerWorks
  <2>3. CASE ~ Server
    BY <2>3, OthersAddNothing
  <2> QED
    BY <2>2, <2>3
<1> QED
  BY <1>1, <1>3, InvHolds, PTL DEF Spec, RequestRunsOut

=============================================================================
