----------------------------- MODULE QnnServer -----------------------------
(***************************************************************************)
(* The stand-alone compile server, utils/qnn_server.cpp: it opens a vendor *)
(* library, probes it, listens on a port and answers one request after the *)
(* other by compiling a graph and saving its context binary.               *)
(*                                                                         *)
(* A request is a sequence of vendor calls, each of which may fail; pc is  *)
(* the next call.  Tensors and their types are left out.  held are the     *)
(* vendor handles the process has and has not freed.                       *)
(***************************************************************************)
EXTENDS Naturals, FiniteSets

CONSTANTS
    Library,        \* "named" and "fallback": the two libraries main tries
    QnnShape,       \* the shapes that are asked for
    HasDevice,      \* the libraries that offer deviceCreate
    HasDeviceFree   \* the libraries that offer deviceFree

ASSUME QnnServerAssumption == HasDevice \subseteq Library /\ HasDeviceFree \subseteq Library

NoShape == "none"

VARIABLES
    pc,       \* the next call, or what the process waits for
    lib,      \* the open libraries
    sockets,  \* the open sockets: "listen" and "client"
    held,     \* the vendor handles: "backend", "device" and "context"
    asked,    \* the shape of the request under way
    binaries, \* binaries[s]: the context binary of s, absent, partial or complete
    reply     \* what the last client was sent

qnnVars == <<pc, lib, sockets, held, asked, binaries, reply>>

Compiling == {"backendCreate", "deviceCreate", "contextCreate", "graphCreate", "graphAddNode",
              "graphFinalize", "contextGetBinary", "release"}

QnnInit ==
    /\ pc = "load"
    /\ lib = {}
    /\ sockets = {}
    /\ held = {}
    /\ asked = NoShape
    /\ binaries = [s \in QnnShape |-> "absent"]
    /\ reply = "none"

-----------------------------------------------------------------------------
(* main, up to the loop. *)

(* The library of the command line, or else the other one, or else exit. *)
LoadLibrary ==
    /\ pc = "load"
    /\ \/ \E l \in Library : lib' = {l} /\ pc' = "diagnose"
       \/ lib' = {} /\ pc' = "exited"
    /\ UNCHANGED <<sockets, held, asked, binaries, reply>>

(* firstRunDiagnosis makes a backend, asks it about every type in turn,    *)
(* which changes nothing, and frees it.                                    *)
firstRunDiagnosis ==
    /\ pc = "diagnose"
    /\ pc' = "listen"
    /\ UNCHANGED <<lib, sockets, held, asked, binaries, reply>>

(* socket, bind or listen failed. *)
Exit ==
    /\ pc' = "exited"
    /\ sockets' = {}
    /\ lib' = {}

Listen ==
    /\ pc = "listen"
    /\ \/ pc' = "accept" /\ sockets' = {"listen"} /\ UNCHANGED lib
       \/ Exit
    /\ UNCHANGED <<held, asked, binaries, reply>>

-----------------------------------------------------------------------------
(* One request. *)

(* accept and read; anything but a request is closed without an answer. *)
ReadRequest ==
    /\ pc = "accept"
    /\ reply' = "none"
    /\ \/ \E s \in QnnShape : asked' = s /\ pc' = "backendCreate" /\ sockets' = sockets \cup {"client"}
       \/ UNCHANGED <<pc, asked, sockets>>
    /\ UNCHANGED <<lib, held, binaries>>

(* Wrong on purpose: the client's socket stays open. *)
ReplyOnly(r) ==
    /\ reply' = r
    /\ UNCHANGED sockets
    /\ asked' = NoShape
    /\ pc' = "accept"

Reply(r) ==
    /\ reply' = r
    /\ sockets' = sockets \ {"client"}
    /\ asked' = NoShape
    /\ pc' = "accept"

Step(next) ==
    /\ pc' = next
    /\ UNCHANGED <<sockets, asked, reply>>

(* deviceFree is called on the way out only if the library offers it. *)
DeviceFreed == IF lib \subseteq HasDeviceFree THEN {"device"} ELSE {}

(* The way out of a failed call, which frees what its own code names. *)
Fail(freed) == Reply("ERROR") /\ held' = held \ freed

backendCreate ==
    /\ pc = "backendCreate"
    /\ \/ held' = held \cup {"backend"} /\ Step("deviceCreate")
       \/ Reply("ERROR") /\ UNCHANGED held
    /\ UNCHANGED <<lib, binaries>>

(* A device that cannot be made is done without. *)
deviceCreate ==
    /\ pc = "deviceCreate"
    /\ Step("contextCreate")
    /\ \/ lib \subseteq HasDevice /\ held' = held \cup {"device"}
       \/ UNCHANGED held
    /\ UNCHANGED <<lib, binaries>>

contextCreate ==
    /\ pc = "contextCreate"
    /\ \/ held' = held \cup {"context"} /\ Step("graphCreate")
       \/ Fail(DeviceFreed \cup {"backend"})
    /\ UNCHANGED <<lib, binaries>>

(* The graph goes with its context. *)
graphCreate ==
    /\ pc = "graphCreate"
    /\ \/ Step("graphAddNode") /\ UNCHANGED held
       \/ Fail({"context"} \cup DeviceFreed \cup {"backend"})
    /\ UNCHANGED <<lib, binaries>>

(* The results of the calls that make the tensors are not looked at. *)
graphAddNode ==
    /\ pc = "graphAddNode"
    /\ \/ Step("graphFinalize") /\ UNCHANGED held
       \/ Fail({"context"} \cup DeviceFreed \cup {"backend"})
    /\ UNCHANGED <<lib, binaries>>

(* Wrong on purpose: a graph that does not finalize keeps its context. *)
finalizeOrKeepContext ==
    /\ pc = "graphFinalize"
    /\ \/ Step("contextGetBinary") /\ UNCHANGED held
       \/ Fail(DeviceFreed \cup {"backend"})
    /\ UNCHANGED <<lib, binaries>>

graphFinalize ==
    /\ pc = "graphFinalize"
    /\ \/ Step("contextGetBinary") /\ UNCHANGED held
       \/ Fail({"context"} \cup DeviceFreed \cup {"backend"})
    /\ UNCHANGED <<lib, binaries>>

(* contextGetBinarySize, contextGetBinary, open and write: each may fail,  *)
(* and the rest is skipped; a short write goes unnoticed.                  *)
contextGetBinary ==
    /\ pc = "contextGetBinary"
    /\ Step("release")
    /\ \/ UNCHANGED binaries
       \/ \E contents \in {"partial", "complete"} : binaries' = [binaries EXCEPT ![asked] = contents]
    /\ UNCHANGED <<lib, held>>

Release ==
    /\ pc = "release"
    /\ Reply("OK")
    /\ held' = held \ ({"context"} \cup DeviceFreed \cup {"backend"})
    /\ UNCHANGED <<lib, binaries>>

QnnNext ==
    \/ LoadLibrary \/ firstRunDiagnosis \/ Listen \/ ReadRequest
    \/ backendCreate \/ deviceCreate \/ contextCreate
    \/ graphCreate \/ graphAddNode \/ graphFinalize
    \/ contextGetBinary \/ Release

(* Vendor calls return; clients need not come. *)
QnnFairness == WF_qnnVars(QnnNext /\ pc \in Compiling)

QnnSpec == QnnInit /\ [][QnnNext]_qnnVars /\ QnnFairness

-----------------------------------------------------------------------------
(* Safety. *)

(* Between two requests the server holds no vendor handle, whichever call  *)
(* of the requests before failed, although each of the five ways out of    *)
(* compileMatMulGraph frees its handles by itself; a device stays only     *)
(* where the open library cannot free it.  Every way out of main leaves no *)
(* handle, library or socket behind (qnn_server.cpp 155-173, 253-264,      *)
(* 278-281, 300-325).                                                      *)
NothingHeldBetweenRequests ==
    /\ pc = "accept" => held \subseteq IF lib \subseteq HasDeviceFree THEN {} ELSE {"device"}
    /\ pc = "exited" => held = {} /\ lib = {} /\ sockets = {}

(* Liveness. *)

(* Every client is answered: it is sent OK or ERROR, and its socket        *)
(* closed, whichever vendor call fails (qnn_server.cpp 338-344).           *)
EveryRequestAnswered == asked # NoShape ~> asked = NoShape /\ reply # "none" /\ "client" \notin sockets

=============================================================================
