---------------------------- MODULE ServerProofs ----------------------------
(***************************************************************************)
(* What TLAPS proves about the two servers: the generation server and its  *)
(* clients (TfliteService), for any clients, shapes and backends, any      *)
(* backlog and any faults, and the compile server (QnnServer), for any     *)
(* libraries and shapes.  The two share no state.                          *)
(***************************************************************************)
EXTENDS TfliteService, QnnServer, TLAPS

ClientState == [pc : {"idle", "waiting", "load"}, ask : Request \cup {NoRequest},
                answer : {"none", "OK", "EOF"}]
ServerState == [pc : {"down", "accept", "converting", "writing", "answering"},
                conn : Conn \cup {NoConn}]

Waiting(q) == [pc |-> "waiting", ask |-> q, answer |-> "none"]

(* The client of an open connection still waits for what the connection    *)
(* asks, and no client has two.                                            *)
ConnectionsSound ==
    /\ \A i \in 1 .. Len(backlog) :
          backlog[i][1] \in Client => client[backlog[i][1]] = Waiting(backlog[i][2])
    /\ server.conn[1] \in Client => client[server.conn[1]] = Waiting(server.conn[2])
    /\ \A i, j \in 1 .. Len(backlog) :
          backlog[i][1] \in Client /\ backlog[i][1] = backlog[j][1] => i = j
    /\ \A i \in 1 .. Len(backlog) :
          backlog[i][1] \in Client => backlog[i][1] # server.conn[1]

(* The server converts only for a file that is not there, and writes only  *)
(* the file it has opened.                                                 *)
WorkSound ==
    /\ server.pc \in {"converting", "writing", "answering"} => server.conn \in Conn
    /\ server.pc = "converting" => files[Asked] = "absent"
    /\ server.pc = "writing" => files[Asked] = "partial"

(* Unless it is killed or its disk is full, what the server leaves behind  *)
(* is whole.                                                               *)
NothingHalfDone ==
    fault \subseteq {"convert"} =>
        /\ server.pc = "answering" => files[Asked] = "complete"
        /\ \A f \in File : files[f] = "partial" => server.pc = "writing" /\ f = Asked

(* A client on its way has asked for something, and the others wait for    *)
(* nothing.                                                                *)
OnItsWay(state) == state.pc # "idle" /\ state.ask \in Request
AskSound ==
    /\ models = [c \in Client |-> models[c]]
    /\ \A c \in Client : client[c] = Idle \/ OnItsWay(client[c])

IInv ==
    /\ TypeOK
    /\ AskSound
    /\ ConnectionsSound
    /\ WorkSound
    /\ NothingHalfDone
    /\ OkMeansComplete

-----------------------------------------------------------------------------
(* Requests, files and connections. *)

(* Client and server name the same file. *)
LEMMA SameFile ==
    \A q \in Request : generated(q) \in File /\ filename(q) = generated(q)
BY DEF Request, File, generated, filename

LEMMA Connections ==
    /\ Gone \notin Client
    /\ \A x \in Conn \cup {NoConn} : x[1] \in Client => x \in Conn
    /\ \A x \in Conn : x[2] \in Request /\ x[1] \in Client \cup {Gone} /\ x = <<x[1], x[2]>>
    /\ \A c \in Client, q \in Request :
          /\ <<c, q>> \in Conn
          /\ <<c, q>>[1] = c
          /\ <<c, q>>[2] = q
BY ServiceAssumption DEF Conn, NoConn, Gone

LEMMA WaitingFields ==
    \A q : Waiting(q).pc = "waiting" /\ Waiting(q).ask = q /\ Waiting(q).answer = "none"
BY DEF Waiting

-----------------------------------------------------------------------------
LEMMA InitIInv == Init => IInv
<1> SUFFICES ASSUME Init  PROVE IInv
  OBVIOUS
<1>2. AskSound
  <2>1. \A c \in Client : client[c] = Idle  BY DEF Init
  <2>2. models = [c \in Client |-> models[c]]  BY DEF Init
  <2>3. QED  BY <2>1, <2>2 DEF AskSound
<1> USE DEF Init, Idle, NoModels
<1>1. TypeOK
  <2>1. \A c \in Client : models[c] = [q \in {} |-> "failed"]  OBVIOUS
  <2>2. \A c \in Client : DOMAIN models[c] = {}  BY <2>1
  <2>3. \A c \in Client : models[c] \in [DOMAIN models[c] -> {"failed", "broken", "good"}]
    BY <2>1
  <2>4. Len(backlog) <= Backlog /\ backlog \in Seq(Conn)  BY ServiceAssumption
  <2>5. QED  BY <2>2, <2>3, <2>4 DEF TypeOK
<1>3. ConnectionsSound
  BY Connections DEF ConnectionsSound, NoConn
<1>4. WorkSound /\ NothingHalfDone
  BY DEF WorkSound, NothingHalfDone
<1>5. OkMeansComplete
  BY DEF OkMeansComplete
<1>6. QED  BY <1>1, <1>2, <1>3, <1>4, <1>5 DEF IInv

(* A request is sent, or not. *)
LEMMA AskKeepsIInv ==
    ASSUME IInv, NEW c \in Client, NEW q \in Request, Connect(c, q) \/ ConnectFails(c, q)
    PROVE  IInv'
<1> DEFINE at == client'[c].pc
<1>1. /\ client[c].pc = "idle"
      /\ client' = [client EXCEPT ![c] = [pc |-> at, ask |-> q, answer |-> "none"]]
      /\ at \in {"waiting", "load"}
      /\ UNCHANGED <<models, server, files, fault>>
  BY DEF IInv, TypeOK, Connect, ConnectFails, Asks
<1> HIDE DEF at
<1>2. client'[c] = [pc |-> at, ask |-> q, answer |-> "none"] /\ \A d \in Client \ {c} : client'[d] = client[d]
  BY <1>1 DEF IInv, TypeOK
<1>3. ASSUME NEW x \in Conn \cup {NoConn}, x[1] \in Client, client[x[1]] = Waiting(x[2])
      PROVE  x[1] # c /\ client'[x[1]] = Waiting(x[2])
  BY <1>1, <1>2, <1>3 DEF Waiting
<1>4. TypeOK' /\ AskSound'
  <2>1. client' \in [Client -> ClientState]
    BY <1>1 DEF IInv, TypeOK, ClientState
  <2>2. backlog' \in Seq(Conn) /\ Len(backlog') <= Backlog
    <3>1. CASE Connect(c, q)
      <4>1. <<c, q>> \in Conn  BY Connections
      <4>2. QED  BY <3>1, <4>1, ServiceAssumption DEF IInv, TypeOK, Connect
    <3>2. CASE ConnectFails(c, q)
      BY <3>2 DEF IInv, TypeOK, ConnectFails
    <3>3. QED  BY <3>1, <3>2
  <2>3. QED  BY <1>1, <1>2, <2>1, <2>2 DEF IInv, TypeOK, AskSound, OnItsWay, ClientState, ServerState
<1>5. ConnectionsSound'
  <2>0. /\ \A i \in 1 .. Len(backlog) : backlog[i] \in Conn
        /\ Len(backlog) \in Nat
        /\ server.conn \in Conn \cup {NoConn}
    BY DEF IInv, TypeOK
  <2>1. CASE backlog' = backlog
    BY <1>1, <1>3, <2>0, <2>1 DEF IInv, ConnectionsSound
  <2>2. CASE Connect(c, q)
    <3>1. /\ Len(backlog') = Len(backlog) + 1 /\ backlog'[Len(backlog) + 1] = <<c, q>>
          /\ \A i \in 1 .. Len(backlog) : backlog'[i] = backlog[i]
      BY <2>2, <2>0 DEF IInv, TypeOK, Connect
    <3>2. client'[c] = Waiting(q)
      BY <2>2 DEF IInv, TypeOK, Connect, Asks, Waiting
    <3>3. \A i \in 1 .. Len(backlog') : i \in 1 .. Len(backlog) \/ i = Len(backlog) + 1
      BY <3>1, <2>0
    <3>4. QED  BY <1>1, <1>3, <2>0, <3>1, <3>2, <3>3, Connections DEF IInv, ConnectionsSound
  <2>3. QED  BY <2>1, <2>2 DEF Connect, ConnectFails
<1>6. WorkSound' /\ NothingHalfDone'
  BY <1>1 DEF IInv, WorkSound, NothingHalfDone, Asked
<1>7. OkMeansComplete'
  BY <1>1, <1>2 DEF IInv, OkMeansComplete
<1>8. QED  BY <1>4, <1>5, <1>6, <1>7 DEF IInv

(* A client that stops waiting goes on to load the file. *)
LEMMA StopsWaiting ==
    ASSUME IInv, NEW c \in Client, client[c].pc = "waiting",
           client' = [client EXCEPT ![c].pc = "load"]
    PROVE  /\ client' \in [Client -> ClientState]
           /\ \A d \in Client : client'[d].answer = client[d].answer /\ client'[d].ask = client[d].ask
           /\ \A d \in Client \ {c} : client'[d] = client[d]
           /\ \A d \in Client : client'[d] = Idle \/ OnItsWay(client'[d])
<1>1. /\ client' \in [Client -> ClientState]
      /\ \A d \in Client : client'[d].answer = client[d].answer /\ client'[d].ask = client[d].ask
      /\ \A d \in Client \ {c} : client'[d] = client[d]
      /\ client'[c].pc = "load"
  BY DEF IInv, TypeOK, ClientState
<1>2. client[c].ask \in Request
  BY DEF IInv, AskSound, OnItsWay, Idle
<1>3. OnItsWay(client'[c])
  BY <1>1, <1>2 DEF OnItsWay
<1>4. \A d \in Client : client[d] = Idle \/ OnItsWay(client[d])
  BY DEF IInv, AskSound
<1>5. QED  BY <1>1, <1>3, <1>4

(* The client reads its answer. *)
LEMMA ReceiveKeepsIInv ==
    ASSUME IInv, NEW c \in Client, Receive(c)
    PROVE  IInv'
<1>1. /\ client[c].pc = "waiting" /\ client[c].answer # "none"
      /\ client' = [client EXCEPT ![c].pc = "load"]
      /\ UNCHANGED <<models, backlog, server, files, fault>>
  BY DEF Receive
<1>2. TypeOK' /\ AskSound'
  <2>1. client' \in [Client -> ClientState] /\ \A d \in Client : client'[d] = Idle \/ OnItsWay(client'[d])
    BY <1>1, StopsWaiting
  <2>2. TypeOK'  BY <1>1, <2>1 DEF IInv, TypeOK, ClientState
  <2>3. QED  BY <1>1, <2>1, <2>2 DEF IInv, AskSound
<1>3. ConnectionsSound'
  <2>1. ASSUME NEW x, x[1] \in Client, client[x[1]] = Waiting(x[2])
        PROVE  client'[x[1]] = Waiting(x[2])
    <3>1. x[1] # c  BY <1>1, <2>1 DEF Waiting
    <3>2. QED  BY <1>1, <2>1, <3>1 DEF IInv, TypeOK
  <2>2. QED  BY <1>1, <2>1 DEF IInv, ConnectionsSound
<1>4. WorkSound' /\ NothingHalfDone'
  BY <1>1 DEF IInv, WorkSound, NothingHalfDone, Asked
<1>5. OkMeansComplete'
  <2>1. \A d \in Client : client'[d].answer = client[d].answer /\ client'[d].ask = client[d].ask
    BY <1>1 DEF IInv, TypeOK
  <2>2. QED  BY <1>1, <2>1 DEF IInv, OkMeansComplete
<1>6. QED  BY <1>2, <1>3, <1>4, <1>5 DEF IInv

(* The client stops waiting; its connection stays behind. *)
LEMMA LeftFacts ==
    \A c \in Client : \A x :
        /\ x \in Conn => Left(c, x) \in Conn
        /\ x \in Conn \cup {NoConn} => Left(c, x) \in Conn \cup {NoConn}
        /\ Left(c, x)[2] = x[2]
        /\ Left(c, x)[1] \in Client => Left(c, x) = x /\ x[1] # c
BY Connections, ServiceAssumption DEF Left, Conn, NoConn, Gone

LEMMA TimeoutKeepsIInv ==
    ASSUME IInv, NEW c \in Client, Timeout(c)
    PROVE  IInv'
<1>0. /\ backlog \in Seq(Conn) /\ Len(backlog) \in Nat /\ DOMAIN backlog = 1 .. Len(backlog)
      /\ \A i \in 1 .. Len(backlog) : backlog[i] \in Conn
      /\ server.conn \in Conn \cup {NoConn}
  BY DEF IInv, TypeOK
<1>1. /\ client[c].pc = "waiting"
      /\ client' = [client EXCEPT ![c].pc = "load"]
      /\ server' = [server EXCEPT !.conn = Left(c, server.conn)]
      /\ UNCHANGED <<models, files, fault>>
  BY DEF Timeout
<1>2. backlog' \in Seq(Conn) /\ Len(backlog') = Len(backlog)
      /\ \A i \in 1 .. Len(backlog) : backlog'[i] = Left(c, backlog[i])
  <2>1. backlog' \in [1 .. Len(backlog) -> Conn]
    BY <1>0, LeftFacts DEF Timeout
  <2>2. QED  BY <1>0, <2>1 DEF Timeout
<1>3. server'.pc = server.pc /\ server'.conn = Left(c, server.conn)
  BY <1>1 DEF IInv, TypeOK
<1>4. /\ client' \in [Client -> ClientState]
      /\ \A d \in Client : client'[d].answer = client[d].answer /\ client'[d].ask = client[d].ask
      /\ \A d \in Client \ {c} : client'[d] = client[d]
      /\ \A d \in Client : client'[d] = Idle \/ OnItsWay(client'[d])
  BY <1>1, StopsWaiting
<1>5. TypeOK' /\ AskSound'
  <2>1. Left(c, server.conn) \in Conn \cup {NoConn}  BY <1>0, LeftFacts
  <2>2. server' \in ServerState
    BY <1>1, <2>1 DEF IInv, TypeOK, ServerState
  <2>3. TypeOK'  BY <1>1, <1>2, <1>4, <2>2 DEF IInv, TypeOK, ClientState, ServerState
  <2>4. QED  BY <1>1, <1>4, <2>3 DEF IInv, AskSound
<1>6. ConnectionsSound'
  <2>1. ASSUME NEW x, Left(c, x)[1] \in Client, x[1] \in Client => client[x[1]] = Waiting(x[2])
        PROVE  client'[Left(c, x)[1]] = Waiting(Left(c, x)[2])
    BY <1>4, <2>1, LeftFacts
  <2>2. \A i \in 1 .. Len(backlog') :
           backlog'[i][1] \in Client => client'[backlog'[i][1]] = Waiting(backlog'[i][2])
    BY <1>2, <2>1 DEF IInv, ConnectionsSound
  <2>3. server'.conn[1] \in Client => client'[server'.conn[1]] = Waiting(server'.conn[2])
    BY <1>3, <2>1 DEF IInv, ConnectionsSound
  <2>4. \A i \in 1 .. Len(backlog') :
           backlog'[i][1] \in Client => backlog'[i] = backlog[i]
    BY <1>2, LeftFacts
  <2>5. server'.conn[1] \in Client => server'.conn = server.conn
    BY <1>3, LeftFacts
  <2>6. \A i, j \in 1 .. Len(backlog') :
           backlog'[i][1] \in Client /\ backlog'[i][1] = backlog'[j][1] => i = j
    BY <1>2, <2>4 DEF IInv, ConnectionsSound
  <2>7. \A i \in 1 .. Len(backlog') :
           backlog'[i][1] \in Client => backlog'[i][1] # server'.conn[1]
    BY <1>2, <2>4, <2>5 DEF IInv, ConnectionsSound
  <2>8. QED  BY <2>2, <2>3, <2>6, <2>7 DEF ConnectionsSound
<1>7. WorkSound' /\ NothingHalfDone'
  <2>1. Asked' = Asked  BY <1>3, LeftFacts DEF Asked
  <2>2. server.conn \in Conn => server'.conn \in Conn  BY <1>3, LeftFacts
  <2>3. QED  BY <1>1, <1>3, <2>1, <2>2 DEF IInv, WorkSound, NothingHalfDone
<1>8. OkMeansComplete'
  BY <1>1, <1>4 DEF IInv, OkMeansComplete
<1>9. QED  BY <1>5, <1>6, <1>7, <1>8 DEF IInv

(* The client loads what it finds, and keeps it. *)
LEMMA LoadKeepsIInv ==
    ASSUME IInv, NEW c \in Client, Load(c)
    PROVE  IInv'
<1> DEFINE ask == client[c].ask
<1>1. /\ client[c].pc = "load"
      /\ client' = [client EXCEPT ![c] = Idle]
      /\ UNCHANGED <<backlog, server, files, fault>>
  BY DEF Load
<1>2. ask \in Request /\ files[filename(ask)] \in {"absent", "partial", "complete"}
  BY <1>1, SameFile DEF IInv, TypeOK, AskSound, OnItsWay, Idle
<1>3. PICK m \in Loaded(files[filename(ask)]) :
         models' = [models EXCEPT ![c] =
             [q \in DOMAIN @ \cup {ask} |-> IF q = ask THEN m ELSE @[q]]]
  BY DEF Load
<1>4. m \in {"failed", "broken", "good"}
  BY <1>2, <1>3 DEF Loaded
<1> HIDE DEF ask
<1>5. client'[c] = Idle /\ \A d \in Client \ {c} : client'[d] = client[d]
  BY <1>1 DEF IInv, TypeOK
<1>6. TypeOK' /\ AskSound'
  <2>1. client' \in [Client -> ClientState]
    BY <1>1 DEF IInv, TypeOK, ClientState, Idle
  <2>2. /\ models'[c] = [q \in DOMAIN models[c] \cup {ask} |-> IF q = ask THEN m ELSE models[c][q]]
        /\ \A d \in Client \ {c} : models'[d] = models[d]
        /\ models' = [d \in Client |-> models'[d]]
    BY <1>3 DEF IInv, AskSound
  <2>3. /\ DOMAIN models'[c] = DOMAIN models[c] \cup {ask}
        /\ models'[c] \in [DOMAIN models'[c] -> {"failed", "broken", "good"}]
    BY <1>4, <2>2 DEF IInv, TypeOK
  <2>4. /\ \A d \in Client : models'[d] \in [DOMAIN models'[d] -> {"failed", "broken", "good"}]
        /\ \A d \in Client : DOMAIN models'[d] \subseteq Request
    <3>1. ASSUME NEW d \in Client
          PROVE  /\ models'[d] \in [DOMAIN models'[d] -> {"failed", "broken", "good"}]
                 /\ DOMAIN models'[d] \subseteq Request
      <4>1. CASE d = c  BY <1>2, <2>3, <4>1 DEF IInv, TypeOK
      <4>2. CASE d # c
        <5>1. models'[d] = models[d]  BY <2>2, <4>2
        <5>2. QED  BY <5>1 DEF IInv, TypeOK
      <4>3. QED  BY <4>1, <4>2
    <3>2. QED  BY <3>1
  <2>5. TypeOK'  BY <1>1, <2>1, <2>4 DEF IInv, TypeOK, ClientState
  <2>6. \A d \in Client : client'[d] = Idle \/ OnItsWay(client'[d])
    BY <1>5 DEF IInv, AskSound
  <2>7. QED  BY <2>2, <2>5, <2>6 DEF AskSound
<1>7. ConnectionsSound'
  <2>1. ASSUME NEW x, x[1] \in Client, client[x[1]] = Waiting(x[2])
        PROVE  client'[x[1]] = Waiting(x[2])
    <3>1. x[1] # c  BY <1>1, <2>1 DEF Waiting
    <3>2. QED  BY <1>5, <2>1, <3>1
  <2>2. QED  BY <1>1, <2>1 DEF IInv, ConnectionsSound
<1>8. WorkSound' /\ NothingHalfDone'
  BY <1>1 DEF IInv, WorkSound, NothingHalfDone, Asked
<1>9. OkMeansComplete'
  BY <1>1, <1>5 DEF IInv, OkMeansComplete, Idle
<1>10. QED  BY <1>6, <1>7, <1>8, <1>9 DEF IInv

LEMMA RerunKeepsIInv ==
    ASSUME IInv, NEW c \in Client, Rerun(c)
    PROVE  IInv'
<1>1. /\ models' = [models EXCEPT ![c] = NoModels]
      /\ UNCHANGED <<client, backlog, server, files, fault>>
  BY DEF Rerun
<1>2. /\ models'[c] = NoModels
      /\ \A d \in Client \ {c} : models'[d] = models[d]
      /\ models' = [d \in Client |-> models'[d]]
  BY <1>1 DEF IInv, AskSound
<1>3. DOMAIN NoModels = {} /\ NoModels \in [{} -> {"failed", "broken", "good"}]
  BY DEF NoModels
<1>4. TypeOK' /\ AskSound'
  BY <1>1, <1>2, <1>3 DEF IInv, TypeOK, AskSound
<1>5. ConnectionsSound' /\ WorkSound' /\ NothingHalfDone' /\ OkMeansComplete'
  BY <1>1 DEF IInv, ConnectionsSound, WorkSound, NothingHalfDone, Asked, OkMeansComplete
<1>6. QED  BY <1>4, <1>5 DEF IInv

-----------------------------------------------------------------------------
(* The server answers, or closes, a connection. *)
LEMMA ToldFacts ==
    ASSUME IInv, NEW a \in {"OK", "EOF"}, client' = Told(server.conn, a)
    PROVE  /\ client' \in [Client -> ClientState]
           /\ \A c \in Client : client'[c].ask = client[c].ask /\ client'[c].pc = client[c].pc
           /\ \A c \in Client : c = server.conn[1] => client'[c].answer = a
           /\ \A c \in Client : c # server.conn[1] => client'[c] = client[c]
<1>1. CASE server.conn[1] = Gone
  BY <1>1, Connections DEF IInv, TypeOK, Told, ClientState
<1>2. CASE server.conn[1] # Gone
  <2>1. server.conn[1] \in Client
    BY <1>2, Connections DEF IInv, TypeOK, NoConn
  <2>2. client' = [client EXCEPT ![server.conn[1]].answer = a]
    BY <1>2 DEF Told
  <2> DEFINE d == server.conn[1]
  <2>3. client' = [client EXCEPT ![d].answer = a] /\ d \in Client /\ client \in [Client -> ClientState]
    BY <2>1, <2>2 DEF IInv, TypeOK, ClientState
  <2> HIDE DEF d
  <2>4. /\ client'[d] = [client[d] EXCEPT !.answer = a]
        /\ \A c \in Client : c # d => client'[c] = client[c]
    BY <2>3
  <2>5. client[d] \in ClientState /\ client'[d] \in ClientState
    BY <2>3, <2>4 DEF ClientState
  <2>6. client'[d].ask = client[d].ask /\ client'[d].pc = client[d].pc /\ client'[d].answer = a
    BY <2>4, <2>5 DEF ClientState
  <2>7. client' \in [Client -> ClientState]
    BY <2>3, <2>4, <2>5
  <2>8. QED  BY <2>4, <2>6, <2>7 DEF d
<1>3. QED  BY <1>1, <1>2

(* The server takes the first connection of the backlog. *)
LEMMA AcceptKeepsIInv ==
    ASSUME IInv, UseCached \/ Generate
    PROVE  IInv'
<1> DEFINE first == Head(backlog)
<1>1. /\ server.pc = "accept"
      /\ backlog # <<>>
      /\ client' = Told(server.conn, "EOF")
      /\ backlog' = Tail(backlog)
      /\ server' = [pc |-> server'.pc, conn |-> first]
      /\ server'.pc \in {"answering", "converting"}
      /\ server'.pc = "answering" => files[generated(first[2])] # "absent"
      /\ server'.pc = "converting" => files[generated(first[2])] = "absent"
      /\ UNCHANGED <<models, files, fault>>
  BY DEF UseCached, Generate, Accept, Present
<1>2. /\ Len(backlog) \in Nat \ {0} /\ first = backlog[1] /\ first \in Conn
      /\ backlog' \in Seq(Conn) /\ Len(backlog') = Len(backlog) - 1
      /\ \A i \in 1 .. Len(backlog') : backlog'[i] = backlog[i + 1]
  BY <1>1 DEF IInv, TypeOK
<1> HIDE DEF first
<1>3. /\ client' \in [Client -> ClientState]
      /\ \A c \in Client : client'[c].ask = client[c].ask /\ client'[c].pc = client[c].pc
      /\ \A c \in Client : c = server.conn[1] => client'[c].answer = "EOF"
      /\ \A c \in Client : c # server.conn[1] => client'[c] = client[c]
  BY <1>1, ToldFacts
<1>4. server'.conn = first
  BY <1>1
<1>5. TypeOK' /\ AskSound'
  <2>1. Len(backlog') <= Backlog  BY <1>2, ServiceAssumption DEF IInv, TypeOK
  <2>2. server' \in ServerState  BY <1>1, <1>2 DEF ServerState
  <2>3. TypeOK'  BY <1>1, <1>2, <1>3, <2>1, <2>2 DEF IInv, TypeOK, ClientState, ServerState
  <2>4. ASSUME NEW c \in Client
        PROVE  client'[c] = Idle \/ OnItsWay(client'[c])
    BY <1>3 DEF IInv, AskSound, OnItsWay, ConnectionsSound, Waiting, Idle
  <2>5. QED  BY <1>1, <2>3, <2>4 DEF IInv, AskSound
<1>6. ConnectionsSound'
  <2>1. \A i \in 1 .. Len(backlog') : i + 1 \in 1 .. Len(backlog) /\ i + 1 # 1
    BY <1>2
  <2>2. 1 \in 1 .. Len(backlog)
    BY <1>2
  <2>3. \A i \in 1 .. Len(backlog) :
           backlog[i][1] \in Client => client'[backlog[i][1]] = Waiting(backlog[i][2])
    <3>1. ASSUME NEW i \in 1 .. Len(backlog), backlog[i][1] \in Client
          PROVE  client'[backlog[i][1]] = Waiting(backlog[i][2])
      <4>1. backlog[i][1] # server.conn[1] /\ client[backlog[i][1]] = Waiting(backlog[i][2])
        BY <3>1 DEF IInv, ConnectionsSound
      <4>2. client'[backlog[i][1]] = client[backlog[i][1]]
        BY <1>3, <3>1, <4>1
      <4>3. QED  BY <4>1, <4>2
    <3>2. QED  BY <3>1
  <2>4. \A i, j \in 1 .. Len(backlog') :
           backlog'[i][1] \in Client /\ backlog'[i][1] = backlog'[j][1] => i = j
    <3>1. SUFFICES ASSUME NEW i \in 1 .. Len(backlog'), NEW j \in 1 .. Len(backlog'),
                          backlog'[i][1] \in Client, backlog'[i][1] = backlog'[j][1]
                   PROVE  i = j
      OBVIOUS
    <3>2. i + 1 = j + 1  BY <1>2, <2>1, <3>1 DEF IInv, ConnectionsSound
    <3>3. QED  BY <3>2
  <2>5. \A i \in 1 .. Len(backlog') :
           backlog'[i][1] \in Client => backlog'[i][1] # server'.conn[1]
    BY <1>2, <1>4, <2>1, <2>2 DEF IInv, ConnectionsSound
  <2>6. QED  BY <1>2, <1>4, <2>1, <2>2, <2>3, <2>4, <2>5 DEF ConnectionsSound
<1>7. WorkSound'
  BY <1>1, <1>2, <1>4 DEF WorkSound, Asked
<1>8. NothingHalfDone'
  <2>1. Asked' = generated(first[2]) /\ Asked' \in File
    BY <1>2, <1>4, Connections, SameFile DEF Asked
  <2>2. QED  BY <1>1, <2>1 DEF IInv, TypeOK, NothingHalfDone
<1>9. OkMeansComplete'
  <2>1. \A c \in Client : client'[c].answer = "OK" =>
           client[c].answer = "OK" /\ client'[c].ask = client[c].ask
    BY <1>3
  <2>2. QED  BY <1>1, <2>1 DEF IInv, OkMeansComplete
<1>10. QED  BY <1>5, <1>6, <1>7, <1>8, <1>9 DEF IInv

(* The server makes the file, or fails to. *)
LEMMA WorkKeepsIInv ==
    ASSUME IInv, Open \/ Write \/ Raise
    PROVE  IInv'
<1>1. /\ server.pc \in {"converting", "writing"}
      /\ server' = [server EXCEPT !.pc = server'.pc]
      /\ server'.pc \in {"writing", "answering", "accept"}
      /\ UNCHANGED <<client, models, backlog, fault>>
  BY DEF IInv, TypeOK, Open, Write, Raise
<1>2. server'.conn = server.conn /\ Asked' = Asked /\ server' \in ServerState
  BY <1>1 DEF IInv, TypeOK, Asked, ServerState
<1>3. server.conn \in Conn /\ Asked \in File
  BY <1>1, Connections, SameFile DEF IInv, WorkSound, Asked
<1>4. /\ files' \in [File -> {"absent", "partial", "complete"}]
      /\ \A f \in File \ {Asked} : files'[f] = files[f]
      /\ files[Asked] # "complete"
  BY <1>1, <1>3 DEF IInv, TypeOK, WorkSound, Open, Write, Raise
<1>5. TypeOK' /\ AskSound'
  BY <1>1, <1>2, <1>4 DEF IInv, TypeOK, AskSound, ServerState
<1>6. ConnectionsSound'
  BY <1>1, <1>2 DEF IInv, ConnectionsSound
<1>7. WorkSound' /\ NothingHalfDone'
  <2>1. CASE Open
    BY <1>1, <1>2, <1>3, <1>4, <2>1 DEF IInv, TypeOK, WorkSound, NothingHalfDone, Open
  <2>2. CASE Write
    BY <1>1, <1>2, <1>3, <1>4, <2>2 DEF IInv, TypeOK, WorkSound, NothingHalfDone, Write
  <2>3. CASE Raise
    <3>1. server'.pc = "accept" /\ files' = files /\ ("write" \in fault \/ server.pc = "converting")
      BY <2>3 DEF IInv, TypeOK, Raise
    <3>2. fault \subseteq {"convert"} => "write" \notin fault
      OBVIOUS
    <3>3. QED  BY <1>1, <1>2, <3>1, <3>2 DEF IInv, WorkSound, NothingHalfDone
  <2>4. QED  BY <2>1, <2>2, <2>3
<1>8. OkMeansComplete'
  <2>1. ASSUME NEW c \in Client, fault \subseteq {"convert"}, client[c].answer = "OK"
        PROVE  files'[filename(client[c].ask)] = "complete"
    <3>1. files[filename(client[c].ask)] = "complete"
      BY <2>1 DEF IInv, OkMeansComplete
    <3>2. filename(client[c].ask) \in File
      BY <2>1, SameFile DEF IInv, AskSound, OnItsWay, Idle
    <3>3. QED  BY <1>4, <3>1, <3>2
  <2>2. QED  BY <1>1, <2>1 DEF OkMeansComplete
<1>9. QED  BY <1>5, <1>6, <1>7, <1>8 DEF IInv

LEMMA AnswerKeepsIInv ==
    ASSUME IInv, Answer
    PROVE  IInv'
<1>1. /\ server.pc = "answering"
      /\ client' = Told(server.conn, "OK")
      /\ server' = [pc |-> "accept", conn |-> NoConn]
      /\ UNCHANGED <<models, backlog, files, fault>>
  BY DEF Answer
<1>2. /\ client' \in [Client -> ClientState]
      /\ \A c \in Client : client'[c].ask = client[c].ask /\ client'[c].pc = client[c].pc
      /\ \A c \in Client : c = server.conn[1] => client'[c].answer = "OK"
      /\ \A c \in Client : c # server.conn[1] => client'[c] = client[c]
  BY <1>1, ToldFacts
<1>3. server'.pc = "accept" /\ server'.conn = NoConn /\ server'.conn[1] \notin Client
      /\ server' \in ServerState
  BY <1>1, Connections DEF NoConn, ServerState
<1>4. TypeOK' /\ AskSound'
  <2>1. TypeOK'  BY <1>1, <1>2, <1>3 DEF IInv, TypeOK, ClientState, ServerState
  <2>2. ASSUME NEW c \in Client
        PROVE  client'[c] = Idle \/ OnItsWay(client'[c])
    BY <1>2 DEF IInv, AskSound, OnItsWay, ConnectionsSound, Waiting, Idle
  <2>3. QED  BY <1>1, <2>1, <2>2 DEF IInv, AskSound
<1>5. ConnectionsSound'
  <2>1. ASSUME NEW i \in 1 .. Len(backlog), backlog[i][1] \in Client
        PROVE  client'[backlog[i][1]] = Waiting(backlog[i][2])
    <3>1. backlog[i][1] # server.conn[1] /\ client[backlog[i][1]] = Waiting(backlog[i][2])
      BY <2>1 DEF IInv, ConnectionsSound
    <3>2. client'[backlog[i][1]] = client[backlog[i][1]]
      BY <1>2, <2>1, <3>1
    <3>3. QED  BY <3>1, <3>2
  <2>2. QED  BY <1>1, <1>3, <2>1 DEF IInv, ConnectionsSound
<1>6. WorkSound' /\ NothingHalfDone'
  BY <1>1, <1>3 DEF IInv, WorkSound, NothingHalfDone
<1>7. OkMeansComplete'
  <2>1. ASSUME NEW c \in Client, fault \subseteq {"convert"}, client'[c].answer = "OK"
        PROVE  files[filename(client[c].ask)] = "complete"
    <3>1. CASE c = server.conn[1]
      <4>1. client[c].ask = server.conn[2] /\ server.conn[2] \in Request
        BY <3>1, Connections DEF IInv, TypeOK, ConnectionsSound, Waiting
      <4>2. files[generated(server.conn[2])] = "complete"
        BY <1>1, <2>1 DEF IInv, NothingHalfDone, Asked
      <4>3. QED  BY <4>1, <4>2, SameFile
    <3>2. CASE c # server.conn[1]
      <4>1. client[c].answer = "OK"  BY <1>2, <2>1, <3>2
      <4>2. QED  BY <2>1, <4>1 DEF IInv, OkMeansComplete
    <3>3. QED  BY <3>1, <3>2
  <2>2. QED  BY <1>1, <1>2, <2>1 DEF OkMeansComplete
<1>8. QED  BY <1>4, <1>5, <1>6, <1>7 DEF IInv

(* The server is killed, or started. *)
LEMMA KillKeepsIInv ==
    ASSUME IInv, Kill
    PROVE  IInv'
<1>1. /\ "kill" \in fault
      /\ client' = [c \in Client |-> IF c \in Cut THEN [client[c] EXCEPT !.answer = "EOF"]
                                     ELSE client[c]]
      /\ backlog' = <<>>
      /\ server' = [pc |-> "down", conn |-> NoConn]
      /\ UNCHANGED <<models, files, fault>>
  BY DEF Kill
<1>2. server'.pc = "down" /\ server'.conn = NoConn /\ server'.conn[1] \notin Client
      /\ server' \in ServerState
  BY <1>1, Connections DEF NoConn, ServerState
<1>3. backlog' \in Seq(Conn) /\ Len(backlog') = 0 /\ Len(backlog') <= Backlog
  BY <1>1, ServiceAssumption
<1>4. ~(fault' \subseteq {"convert"})
  BY <1>1
<1>5. \A c \in Client \cap Cut : client[c].pc = "waiting"
  <2>1. DOMAIN backlog = 1 .. Len(backlog)  BY DEF IInv, TypeOK
  <2>2. \A i \in 1 .. Len(backlog) : backlog[i][1] \in Client => client[backlog[i][1]].pc = "waiting"
    BY WaitingFields DEF IInv, ConnectionsSound
  <2>3. server.conn[1] \in Client => client[server.conn[1]].pc = "waiting"
    BY WaitingFields DEF IInv, ConnectionsSound
  <2>4. QED  BY <2>1, <2>2, <2>3 DEF Cut
<1>6. client' \in [Client -> ClientState]
  BY <1>1 DEF IInv, TypeOK, ClientState
<1>7. TypeOK' /\ AskSound'
  <2>1. TypeOK'  BY <1>1, <1>2, <1>3, <1>6 DEF IInv, TypeOK, ClientState, ServerState
  <2>2. ASSUME NEW c \in Client
        PROVE  client'[c] = Idle \/ OnItsWay(client'[c])
    <3>1. CASE c \in Cut
      <4>1. client'[c] = [client[c] EXCEPT !.answer = "EOF"] /\ client[c].pc = "waiting"
        BY <1>1, <1>5, <3>1
      <4>2. client[c].ask \in Request
        BY <4>1 DEF IInv, AskSound, OnItsWay, Idle
      <4>3. QED  BY <4>1, <4>2 DEF IInv, TypeOK, OnItsWay
    <3>2. CASE c \notin Cut
      BY <1>1, <3>2 DEF IInv, AskSound
    <3>3. QED  BY <3>1, <3>2
  <2>3. QED  BY <1>1, <2>1, <2>2 DEF IInv, AskSound
<1>8. ConnectionsSound'
  BY <1>2, <1>3 DEF ConnectionsSound
<1>9. WorkSound' /\ NothingHalfDone' /\ OkMeansComplete'
  BY <1>2, <1>4 DEF WorkSound, NothingHalfDone, OkMeansComplete
<1>10. QED  BY <1>7, <1>8, <1>9 DEF IInv

LEMMA StartKeepsIInv ==
    ASSUME IInv, start_server
    PROVE  IInv'
<1>1. /\ server.pc = "down"
      /\ server' = [pc |-> "accept", conn |-> NoConn]
      /\ UNCHANGED <<client, models, backlog, files, fault>>
  BY DEF start_server
<1>2. server'.pc = "accept" /\ server'.conn = NoConn /\ server'.conn[1] \notin Client
      /\ server' \in ServerState
  BY <1>1, Connections DEF NoConn, ServerState
<1>3. TypeOK' /\ AskSound'
  BY <1>1, <1>2 DEF IInv, TypeOK, AskSound, ServerState
<1>4. ConnectionsSound'
  BY <1>1, <1>2 DEF IInv, ConnectionsSound
<1>5. WorkSound' /\ NothingHalfDone' /\ OkMeansComplete'
  BY <1>1, <1>2 DEF IInv, WorkSound, NothingHalfDone, OkMeansComplete
<1>6. QED  BY <1>3, <1>4, <1>5 DEF IInv

LEMMA NextKeepsIInv == IInv /\ [Next]_vars => IInv'
<1> SUFFICES ASSUME IInv, [Next]_vars  PROVE IInv'
  OBVIOUS
<1>1. ASSUME NEW c \in Client, NEW q \in Request, Connect(c, q) \/ ConnectFails(c, q)
      PROVE  IInv'
  BY <1>1, AskKeepsIInv
<1>2. ASSUME NEW c \in Client, ClientStep(c) \/ Rerun(c)
      PROVE  IInv'
  BY <1>2, ReceiveKeepsIInv, TimeoutKeepsIInv, LoadKeepsIInv, RerunKeepsIInv DEF ClientStep
<1>3. CASE ServerStep
  BY <1>3, AcceptKeepsIInv, WorkKeepsIInv, AnswerKeepsIInv DEF ServerStep
<1>4. CASE Kill  BY <1>4, KillKeepsIInv
<1>5. CASE start_server  BY <1>5, StartKeepsIInv
<1>6. CASE UNCHANGED vars
  BY <1>6 DEF vars, IInv, TypeOK, AskSound, ConnectionsSound, WorkSound, NothingHalfDone,
              OkMeansComplete, Asked
<1>7. QED  BY <1>1, <1>2, <1>3, <1>4, <1>5, <1>6 DEF Next

(* The invariant that the safety properties rest on. *)
THEOREM ServiceInvariant == Spec => []IInv
<1>1. QED  BY InitIInv, NextKeepsIInv, PTL DEF Spec

(* The variables keep their types, and the backlog its bound: every        *)
(* connection the server takes up carries a request a client once sent     *)
(* (tflite_manager.h 127-131, server.py 43-52).                            *)
THEOREM ServiceTypeCorrect == Spec => []TypeOK
<1>1. IInv => TypeOK  BY DEF IInv
<1>2. QED  BY <1>1, ServiceInvariant, PTL

(* Unless the server is killed or its disk is full, a client that was told *)
(* OK finds the finished file it is about to open, however many clients    *)
(* ask and however often they stop waiting.                                *)
THEOREM OkIsTrue == Spec => []OkMeansComplete
<1>1. IInv => OkMeansComplete  BY DEF IInv
<1>2. QED  BY <1>1, ServiceInvariant, PTL

(* No step of anybody touches a finished file, killed servers and full     *)
(* disks included.                                                         *)
THEOREM FinishedFilesAreKept == Spec => FinishedFilesStay
<1>1. IInv /\ [Next]_vars => [\A f \in File : files[f] = "complete" => files'[f] = "complete"]_vars
  <2> SUFFICES ASSUME IInv, [Next]_vars, NEW f \in File, files[f] = "complete"
               PROVE  files'[f] = "complete"
    OBVIOUS
  <2>1. CASE Open \/ Write
    <3>1. files[Asked] # "complete" /\ \E x : files' = [files EXCEPT ![Asked] = x]
      BY <2>1 DEF IInv, WorkSound, Open, Write
    <3>2. QED  BY <3>1 DEF IInv, TypeOK
  <2>2. CASE files' = files
    BY <2>2
  <2>3. Open \/ Write \/ files' = files
    BY DEF Next, vars, ClientStep, ServerStep, Connect, ConnectFails, Receive, Timeout, Load, Rerun,
           UseCached, Generate, Accept, Raise, Answer, Kill, start_server
  <2>4. QED  BY <2>1, <2>2, <2>3
<1>2. QED  BY <1>1, ServiceInvariant, PTL DEF Spec, FinishedFilesStay

-----------------------------------------------------------------------------
(* The compile server. *)

(* The handles that the open library cannot free. *)
Kept == IF lib \subseteq HasDeviceFree THEN {} ELSE {"device"}

(* What is held grows with the request: after each call only what the      *)
(* calls before it made, so that what the failing call's own way out frees *)
(* is enough.  Nothing is open before main has opened it.                  *)
HeldSound ==
    /\ pc \in {"load", "diagnose", "listen", "exited"} => held = {}
    /\ pc \in {"accept", "backendCreate"} => held \subseteq Kept
    /\ pc = "deviceCreate" => held \subseteq Kept \cup {"backend"}
    /\ pc = "contextCreate" => held \subseteq {"backend", "device"}
    /\ held \subseteq {"backend", "device", "context"}

QnnInv ==
    /\ HeldSound
    /\ pc \in {"load", "exited"} => lib = {} /\ sockets = {}

LEMMA QnnInvInvariant == QnnSpec => []QnnInv
<1>1. QnnInit => QnnInv
  BY DEF QnnInit, QnnInv, HeldSound
<1>2. QnnInv /\ [QnnNext]_qnnVars => QnnInv'
  <2> SUFFICES ASSUME QnnInv, [QnnNext]_qnnVars  PROVE QnnInv'
    OBVIOUS
  <2>1. CASE LoadLibrary
    BY <2>1 DEF LoadLibrary, QnnInv, HeldSound, Kept
  <2>2. CASE firstRunDiagnosis
    BY <2>2 DEF firstRunDiagnosis, QnnInv, HeldSound, Kept
  <2>3. CASE Listen
    BY <2>3 DEF Listen, Exit, QnnInv, HeldSound, Kept
  <2>4. CASE ReadRequest
    BY <2>4 DEF ReadRequest, QnnInv, HeldSound, Kept
  <2>5. CASE backendCreate
    BY <2>5 DEF backendCreate, Step, Reply, QnnInv, HeldSound, Kept
  <2>6. CASE deviceCreate
    BY <2>6 DEF deviceCreate, Step, QnnInv, HeldSound, Kept
  <2>7. CASE contextCreate
    BY <2>7 DEF contextCreate, Step, Fail, DeviceFreed, Reply, QnnInv, HeldSound, Kept
  <2>8. CASE graphCreate
    BY <2>8 DEF graphCreate, Step, Fail, DeviceFreed, Reply, QnnInv, HeldSound, Kept
  <2>9. CASE graphAddNode
    BY <2>9 DEF graphAddNode, Step, Fail, DeviceFreed, Reply, QnnInv, HeldSound, Kept
  <2>10. CASE graphFinalize
    BY <2>10 DEF graphFinalize, Step, Fail, DeviceFreed, Reply, QnnInv, HeldSound, Kept
  <2>11. CASE contextGetBinary
    BY <2>11 DEF contextGetBinary, Step, QnnInv, HeldSound
  <2>12. CASE Release
    BY <2>12 DEF Release, DeviceFreed, Reply, QnnInv, HeldSound, Kept
  <2>13. CASE UNCHANGED qnnVars
    BY <2>13 DEF qnnVars, QnnInv, HeldSound, Kept
  <2>14. QED
    BY <2>1, <2>2, <2>3, <2>4, <2>5, <2>6, <2>7, <2>8, <2>9, <2>10, <2>11, <2>12, <2>13
       DEF QnnNext
<1>3. QED  BY <1>1, <1>2, PTL DEF QnnSpec

(* Whichever vendor call of a request fails, the compile server holds no   *)
(* vendor handle between two requests but a device that its library cannot *)
(* free: each way out of compileMatMulGraph frees all that was made before *)
(* it is taken.  Every way out of main leaves nothing behind               *)
(* (qnn_server.cpp 155-173, 253-264, 278-281, 300-325).                    *)
THEOREM NothingHeld == QnnSpec => []NothingHeldBetweenRequests
<1>1. QnnInv => NothingHeldBetweenRequests
  BY DEF QnnInv, HeldSound, Kept, NothingHeldBetweenRequests
<1>2. QED  BY <1>1, QnnInvInvariant, PTL

=============================================================================
