--------------------------- MODULE TfliteService ---------------------------
(***************************************************************************)
(* How a process of the package gets the .tflite file of a shape: the      *)
(* request and the loading of tflite_manager.h (request_tflite_generation, *)
(* create_model, fetch_model), the server process server.py, and the files *)
(* in matmuls/ that they share.                                            *)
(*                                                                         *)
(* A client connects, sends its request and reads one answer, with a       *)
(* timeout of 15 s; whatever comes of it, it then opens the file.  The     *)
(* server takes one connection at a time.  When a request raises, the      *)
(* server keeps the connection in its variable conn, so the client hears   *)
(* nothing until the next accept replaces it.  A connection is             *)
(* <<who, request>>; who is Gone once the client has closed its end, which *)
(* the server does not notice.                                             *)
(***************************************************************************)
EXTENDS Naturals, Sequences

CONSTANTS
    Client,     \* processes that use the package
    Shape,      \* the shapes they multiply
    Backend,    \* the backend numbers they use
    Backlog,    \* 5: connections the kernel keeps for listen(5)
    FaultModel  \* which faults may occur together: sets of "convert", "write", "kill"

ASSUME ServiceAssumption ==
    /\ Backend \subseteq Nat
    /\ Backlog \in Nat \ {0}
    /\ FaultModel \subseteq SUBSET {"convert", "write", "kill"}
    /\ "gone" \notin Client

Gone == "gone"
Request == [shape : Shape, backend : Backend]
File == {"fp32", "a16w8"} \X Shape
NoRequest == [shape |-> "none", backend |-> 0]
NoConn == <<Gone, NoRequest>>
Conn == (Client \cup {Gone}) \X Request

VARIABLES
    client,    \* client[c]: where c is in fetch_model, for which request, and the answer
    models,    \* models[c]: the model cache of c, by request
    backlog,   \* connections the server has not accepted yet
    server,    \* what the server does, and its variable conn
    files,     \* the files in matmuls/
    fault      \* the faults that may occur in this behaviour

vars == <<client, models, backlog, server, files, fault>>

TypeOK ==
    /\ client \in [Client -> [pc : {"idle", "waiting", "load"},
                              ask : Request \cup {NoRequest},
                              answer : {"none", "OK", "EOF"}]]
    /\ \A c \in Client : models[c] \in [DOMAIN models[c] -> {"failed", "broken", "good"}]
    /\ \A c \in Client : DOMAIN models[c] \subseteq Request
    /\ backlog \in Seq(Conn) /\ Len(backlog) <= Backlog
    /\ server \in [pc : {"down", "accept", "converting", "writing", "answering"},
                   conn : Conn \cup {NoConn}]
    /\ files \in [File -> {"absent", "partial", "complete"}]
    /\ fault \in FaultModel

Idle == [pc |-> "idle", ask |-> NoRequest, answer |-> "none"]
NoModels == [q \in {} |-> "failed"]

Init ==
    /\ client = [c \in Client |-> Idle]
    /\ models = [c \in Client |-> NoModels]
    /\ backlog = <<>>
    /\ server \in [pc : {"down", "accept"}, conn : {NoConn}]
    /\ files = [f \in File |-> "absent"]
    /\ fault \in FaultModel

-----------------------------------------------------------------------------
(* The client. *)

(* The file create_model opens. *)
filename(q) == IF q.backend = 3 THEN <<"fp32", q.shape>> ELSE <<"a16w8", q.shape>>

(* fetch_model misses its cache and create_model asks for the file.  The   *)
(* request is given up at once when there is no socket, no server or no    *)
(* room in the backlog.                                                    *)
Asks(c, q, pc) ==
    /\ client[c].pc = "idle"
    /\ q \notin DOMAIN models[c]
    /\ client' = [client EXCEPT ![c] = [pc |-> pc, ask |-> q, answer |-> "none"]]

Connect(c, q) ==
    /\ server.pc # "down"
    /\ Len(backlog) < Backlog
    /\ Asks(c, q, "waiting")
    /\ backlog' = Append(backlog, <<c, q>>)
    /\ UNCHANGED <<models, server, files, fault>>

ConnectFails(c, q) ==
    /\ Asks(c, q, "load")
    /\ UNCHANGED <<models, backlog, server, files, fault>>

(* read returns the answer, or 0 when the other end is closed. *)
Receive(c) ==
    /\ client[c].pc = "waiting"
    /\ client[c].answer # "none"
    /\ client' = [client EXCEPT ![c].pc = "load"]
    /\ UNCHANGED <<models, backlog, server, files, fault>>

(* Wrong on purpose: the request is lost with the client. *)
LeftNothing(c, conn) == IF conn[1] = c THEN NoConn ELSE conn

Left(c, conn) == IF conn[1] = c THEN <<Gone, conn[2]>> ELSE conn

(* Wrong on purpose: SO_RCVTIMEO is not set. *)
WaitForEver(c) == FALSE /\ UNCHANGED vars

(* SO_RCVTIMEO expires.  The request stays with the server. *)
Timeout(c) ==
    /\ client[c].pc = "waiting"
    /\ client[c].answer = "none"
    /\ client' = [client EXCEPT ![c].pc = "load"]
    /\ backlog' = [i \in DOMAIN backlog |-> Left(c, backlog[i])]
    /\ server' = [server EXCEPT !.conn = Left(c, @)]
    /\ UNCHANGED <<models, files, fault>>

(* What BuildFromFile and InterpreterBuilder make of a file: they refuse a *)
(* truncated one only when the part they look at is missing.               *)
Loaded(contents) ==
    CASE contents = "absent" -> {"failed"}
      [] contents = "partial" -> {"failed", "broken"}
      [] contents = "complete" -> {"good"}

(* fetch_model keeps the model whatever it is. *)
Load(c) ==
    /\ client[c].pc = "load"
    /\ \E m \in Loaded(files[filename(client[c].ask)]) :
          models' = [models EXCEPT ![c] =
              [q \in DOMAIN @ \cup {client[c].ask} |-> IF q = client[c].ask THEN m ELSE @[q]]]
    /\ client' = [client EXCEPT ![c] = Idle]
    /\ UNCHANGED <<backlog, server, files, fault>>

(* The process ends, and runs again with an empty cache. *)
Rerun(c) ==
    /\ client[c].pc = "idle"
    /\ models[c] # NoModels
    /\ models' = [models EXCEPT ![c] = NoModels]
    /\ UNCHANGED <<client, backlog, server, files, fault>>

-----------------------------------------------------------------------------
(* The server. *)

(* Wrong on purpose: the fifth word of the request is not looked at. *)
generated_quantised(q) == <<"a16w8", q.shape>>

(* The file generate_tflite makes for a request. *)
generated(q) == IF q.backend = 3 THEN <<"fp32", q.shape>> ELSE <<"a16w8", q.shape>>

Asked == generated(server.conn[2])

Told(conn, answer) ==
    IF conn[1] = Gone THEN client ELSE [client EXCEPT ![conn[1]].answer = answer]

(* accept and recv; the connection of a request that raised is closed when *)
(* conn gets its new value.                                                *)
Accept(pc) ==
    /\ server.pc = "accept"
    /\ backlog # <<>>
    /\ server' = [pc |-> pc, conn |-> Head(backlog)]
    /\ client' = Told(server.conn, "EOF")
    /\ backlog' = Tail(backlog)
    /\ UNCHANGED <<models, files, fault>>

(* Wrong on purpose: the file is made anew, whether it is there or not. *)
NeverPresent == FALSE

Present == backlog # <<>> /\ files[generated(Head(backlog)[2])] # "absent"

UseCached == Present /\ Accept("answering")
Generate == ~Present /\ Accept("converting")

(* open(filename, "wb"), then write and close. *)
Open ==
    /\ server.pc = "converting"
    /\ files' = [files EXCEPT ![Asked] = "partial"]
    /\ server' = [server EXCEPT !.pc = "writing"]
    /\ UNCHANGED <<client, models, backlog, fault>>

Write ==
    /\ server.pc = "writing"
    /\ files' = [files EXCEPT ![Asked] = "complete"]
    /\ server' = [server EXCEPT !.pc = "answering"]
    /\ UNCHANGED <<client, models, backlog, fault>>

(* Wrong on purpose: the exception ends the loop and the process. *)
DieRaising ==
    /\ \/ server.pc = "converting" /\ "convert" \in fault
       \/ server.pc = "writing" /\ "write" \in fault
    /\ server' = [pc |-> "down", conn |-> NoConn]
    /\ client' = Told(server.conn, "EOF")
    /\ UNCHANGED <<models, backlog, files, fault>>

(* The conversion raises, or the write does and leaves what it has         *)
(* written.  conn stays open.                                              *)
Raise ==
    /\ \/ server.pc = "converting" /\ "convert" \in fault
       \/ server.pc = "writing" /\ "write" \in fault
    /\ server' = [server EXCEPT !.pc = "accept"]
    /\ UNCHANGED <<client, models, backlog, files, fault>>

(* sendall and close.  A client that has left makes sendall raise or not;  *)
(* nothing depends on it.                                                  *)
Answer ==
    /\ server.pc = "answering"
    /\ client' = Told(server.conn, "OK")
    /\ server' = [pc |-> "accept", conn |-> NoConn]
    /\ UNCHANGED <<models, backlog, files, fault>>

Cut == {server.conn[1]} \cup {backlog[i][1] : i \in DOMAIN backlog}

(* The process is killed: every connection it had is closed. *)
Kill ==
    /\ "kill" \in fault
    /\ server.pc # "down"
    /\ client' = [c \in Client |-> IF c \in Cut THEN [client[c] EXCEPT !.answer = "EOF"]
                                   ELSE client[c]]
    /\ backlog' = <<>>
    /\ server' = [pc |-> "down", conn |-> NoConn]
    /\ UNCHANGED <<models, files, fault>>

start_server ==
    /\ server.pc = "down"
    /\ server' = [pc |-> "accept", conn |-> NoConn]
    /\ UNCHANGED <<client, models, backlog, files, fault>>

-----------------------------------------------------------------------------
ClientStep(c) == Receive(c) \/ Timeout(c) \/ Load(c)
ServerStep == UseCached \/ Generate \/ Open \/ Write \/ Raise \/ Answer

Next ==
    \/ \E c \in Client, q \in Request : Connect(c, q) \/ ConnectFails(c, q)
    \/ \E c \in Client : ClientStep(c) \/ Rerun(c)
    \/ ServerStep
    \/ Kill
    \/ start_server

(* A call under way goes on, its timer included, and so does a server that *)
(* runs.  Nobody has to start a server, and calls need not be made.        *)
Fairness ==
    /\ \A c \in Client : WF_vars(ClientStep(c))
    /\ WF_vars(ServerStep)

Spec == Init /\ [][Next]_vars /\ Fairness

-----------------------------------------------------------------------------
(* Safety. *)

(* Client and server agree on what "OK" means although neither sends a     *)
(* file name: as long as the server is not killed and its disk not full, a *)
(* client that was told OK finds the finished file it is about to open,    *)
(* whatever other clients ask for and however often requests time out      *)
(* (tflite_manager.h 127-141, server.py 6-13, 36-37, 61).                  *)
OkMeansComplete ==
    fault \subseteq {"convert"} =>
        \A c \in Client : client[c].answer = "OK" => files[filename(client[c].ask)] = "complete"

(* A finished file is never touched again, by a second request, a retry    *)
(* after a timeout or a server that was killed and started again           *)
(* (server.py 11-13).                                                      *)
FinishedFilesStay == [][\A f \in File : files[f] = "complete" => files'[f] = "complete"]_vars

(* Liveness. *)

(* Every fetch returns, whether the server answers, raises, dies or is not *)
(* there at all (tflite_manager.h 117-131).                                *)
FetchReturns == \A c \in Client : client[c].pc # "idle" ~> client[c].pc = "idle"

(* A request that raises does not stop the ones behind it: unless it is    *)
(* killed, the server takes up every request it has a connection for,      *)
(* those of clients that left included; and without faults the request     *)
(* leads to its file even if the client gives up waiting, so that the next *)
(* process finds it (server.py 36-37, 48-64).                              *)
RequestsAreServed ==
    \A q \in Request :
        LET Pending == \E i \in DOMAIN backlog : backlog[i][2] = q IN
        /\ ("kill" \notin fault /\ Pending) ~> server.conn[2] = q
        /\ (fault = {} /\ Pending) ~> files[generated(q)] = "complete"

=============================================================================
