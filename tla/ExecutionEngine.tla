-------------------------- MODULE ExecutionEngine --------------------------
(***************************************************************************)
(* QnnHtaExecutionEngine (utils/execution.h), the graph cache it owns, the *)
(* second cache of matmul_tiled (pipeline.h) and the functions that        *)
(* npublas.cpp exports on top of them.                                     *)
(*                                                                         *)
(* Every exported function runs under Python's GIL, which none of them     *)
(* releases, so each is one action.  The vendor library is external: it is *)
(* modelled by what its calls may answer.  A handle is identified with the *)
(* library instance (one dlopen) that made it, a context with the instance *)
(* and the cache entry it was made for.  Tensors, data types and           *)
(* quantisation parameters are left out, and USE_STATIC_WEIGHTS is unset.  *)
(***************************************************************************)
EXTENDS Naturals, FiniteSets

CONSTANTS
    Choice,      \* the backend numbers callers pass
    Key,         \* the shapes graphs are compiled for
    HasDeviceCreate, HasDeviceFree,   \* the libraries whose interface offers
    HasLogCreate, HasLogFree,         \*   deviceCreate, deviceFree, logCreate, logFree
    MaxLoads     \* bound: how many times a library is opened in a behaviour

ASSUME EngineAssumption == Choice \subseteq Nat /\ 1 \in Choice /\ MaxLoads \in Nat

(* The shared object loadBackend opens for a backend number. *)
LibraryOf(backendChoice) ==
    CASE backendChoice = 2 -> "Dsp"
      [] backendChoice = 3 -> "Htp"
      [] backendChoice = 4 -> "Gpu"
      [] OTHER -> "Hta"

None == [name |-> "none", id |-> 0]
NoContext == [lib |-> None, owner |-> "none"]
NoGraphs == [k \in {} |-> 0]

Instance == [name : {"Hta", "Dsp", "Htp", "Gpu"}, id : 1 .. MaxLoads]
Handle == Instance \cup {None}
Context == [lib : Instance, owner : {"engine", "tiled"}, key : Key]
Graph == [isValid : BOOLEAN, contextHandle : Context \cup {NoContext}]

VARIABLES
    engine,   \* the singleton's fields and what the library holds for it
    tiled,    \* global_dynamic_fc_graphs
    ran       \* the last matmul: where it ran and on which graph

engineVars == <<engine, tiled, ran>>

NoGraph == [isValid |-> FALSE, contextHandle |-> NoContext]

(* on: the library whose graphExecute was called; alive: whether the       *)
(* graph's context existed then.                                           *)
Ran == [path : {"none", "direct", "tiled", "tflite", "skipped"}, choice : Choice \cup {0},
        graph : Graph, on : Handle, alive : BOOLEAN]

EngineTypeOK ==
    /\ engine.constructed \in BOOLEAN
    /\ engine.crashed \in BOOLEAN
    /\ engine.currentBackendChoice \in Choice \cup {0}
    /\ {engine.lib, engine.backendHandle, engine.deviceHandle, engine.logHandle} \subseteq Handle
    /\ engine.diagnosticsPerformed \in BOOLEAN
    /\ engine.loads \in 0 .. MaxLoads
    /\ engine.graphCache \in [DOMAIN engine.graphCache -> Graph]
    /\ DOMAIN engine.graphCache \subseteq Key
    /\ engine.contexts \subseteq Context
    /\ engine.freedDead \subseteq Context
    /\ tiled \in [DOMAIN tiled -> Graph]
    /\ DOMAIN tiled \subseteq Key
    /\ ran \in Ran

EngineInit ==
    /\ engine = [constructed |-> FALSE,
                 crashed |-> FALSE,
                 currentBackendChoice |-> 0,  \* -1 in the code
                 lib |-> None,                \* backendContainer
                 backendHandle |-> None,
                 deviceHandle |-> None,
                 logHandle |-> None,
                 diagnosticsPerformed |-> FALSE,
                 loads |-> 0,
                 graphCache |-> NoGraphs,
                 contexts |-> {},     \* contexts the libraries hold
                 freedDead |-> {}]    \* contexts freed when already gone
    /\ tiled = NoGraphs
    /\ ran = [path |-> "none", choice |-> 0, graph |-> NoGraph, on |-> None, alive |-> FALSE]

isLoaded(e) == e.backendHandle # None

-----------------------------------------------------------------------------
(* Wrong on purpose: the graphs stay in the cache. *)
unloadKeepingGraphs(e) ==
    IF e.lib = None THEN e
    ELSE LET freed == {e.graphCache[k].contextHandle : k \in DOMAIN e.graphCache} \ {NoContext}
         IN  [e EXCEPT !.contexts = @ \ freed,
                       !.freedDead = @ \cup (freed \ e.contexts),
                       !.deviceHandle = IF e.lib.name \in HasDeviceFree THEN None ELSE @,
                       !.backendHandle = None,
                       !.logHandle = IF e.lib.name \in HasLogFree THEN None ELSE @,
                       !.lib = None]

(* unloadActiveBackend: free the context of every cached graph, drop the   *)
(* graphs, free device, backend and log, close the library.  The device    *)
(* and the log are forgotten only if the open library can free them.       *)
unloadActiveBackend(e) ==
    IF e.lib = None THEN e
    ELSE LET freed == {e.graphCache[k].contextHandle : k \in DOMAIN e.graphCache} \ {NoContext}
         IN  [e EXCEPT !.contexts = @ \ freed,
                       !.freedDead = @ \cup (freed \ e.contexts),
                       !.graphCache = NoGraphs,
                       !.deviceHandle = IF e.lib.name \in HasDeviceFree THEN None ELSE @,
                       !.backendHandle = None,
                       !.logHandle = IF e.lib.name \in HasLogFree THEN None ELSE @,
                       !.lib = None]

WithLibrary(e, library, l, b, d) ==
    [e EXCEPT !.lib = library,
              !.loads = library.id,
              !.logHandle = l,
              !.backendHandle = b,
              !.deviceHandle = d]

(* What a freshly opened library may make of logCreate, backendCreate and  *)
(* deviceCreate, whose results nobody looks at: a handle it does not write *)
(* stays what it was, an earlier library's included.                       *)
Opened(e, library) ==
    {WithLibrary(e, library, l, b, d) :
        l \in {e.logHandle} \cup (IF library.name \in HasLogCreate THEN {library} ELSE {}),
        b \in {None, library},
        d \in {e.deviceHandle} \cup (IF library.name \in HasDeviceCreate THEN {library} ELSE {})}

(* Wrong on purpose: one backend is as good as another; a backend never    *)
(* counts as loaded. *)
AnyBackend(e, backendChoice) == isLoaded(e)
NeverSame(e, backendChoice) == FALSE

(* loadBackend: nothing when the backend is the current one and it works;  *)
(* otherwise unload, and open the library from either of its two places.   *)
SameBackend(e, backendChoice) == e.currentBackendChoice = backendChoice /\ isLoaded(e)

loadBackend(e, backendChoice) ==
    IF SameBackend(e, backendChoice) THEN {e}
    ELSE LET u == [unloadActiveBackend(e) EXCEPT !.currentBackendChoice = backendChoice,
                                                 !.diagnosticsPerformed = FALSE]
         IN  {u} \cup
             (IF e.loads < MaxLoads
              THEN Opened(u, [name |-> LibraryOf(backendChoice), id |-> e.loads + 1])
              ELSE {})

(* The singleton is constructed by the first call that needs it. *)
getInstance(e) ==
    IF e.constructed THEN {e} ELSE loadBackend([e EXCEPT !.constructed = TRUE], 1)

performDiagnosticsIfNeeded(e) ==
    IF e.diagnosticsPerformed \/ ~isLoaded(e) THEN e
    ELSE [e EXCEPT !.diagnosticsPerformed = TRUE]

-----------------------------------------------------------------------------
(* contextCreate gives nothing without a backend, and may fail with one. *)
Created(e, owner, key) ==
    {NoContext} \cup (IF isLoaded(e) THEN {[lib |-> e.lib, owner |-> owner, key |-> key]} ELSE {})

(* graphFinalize may succeed only in a context that exists. *)
Compiled(e, owner, key) ==
    {[isValid |-> v, contextHandle |-> c] : v \in BOOLEAN, c \in Created(e, owner, key)}
        \ {[isValid |-> TRUE, contextHandle |-> NoContext]}

Put(graphs, key, graph) ==
    [k \in DOMAIN graphs \cup {key} |-> IF k = key THEN graph ELSE graphs[k]]

(* Wrong on purpose: the context of a failed graph is not freed. *)
createWithoutCleanup(e, key) ==
    IF key \in DOMAIN e.graphCache THEN {e}
    ELSE IF e.lib = None THEN {[e EXCEPT !.crashed = TRUE]}
    ELSE {[e EXCEPT !.graphCache = Put(@, key, g),
                    !.contexts = @ \cup ({g.contextHandle} \ {NoContext})] :
             g \in Compiled(e, "engine", key)}

WithGraph(e, key, g) ==
    [e EXCEPT !.graphCache = Put(@, key, g),
              !.contexts = IF g.isValid THEN @ \cup {g.contextHandle} ELSE @]

(* getOrCreateGraph: the entry goes into the cache before anything can     *)
(* fail; when graphFinalize fails the context is freed and the entry stays,*)
(* invalid and with the freed handle.  Without a library the interface     *)
(* table is a null pointer and the process dies.                           *)
getOrCreateGraph(e, key) ==
    IF key \in DOMAIN e.graphCache THEN {e}
    ELSE IF e.lib = None THEN {[e EXCEPT !.crashed = TRUE]}
    ELSE {WithGraph(e, key, g) : g \in Compiled(e, "engine", key)}

hasGraph(e, key) == key \in DOMAIN e.graphCache

-----------------------------------------------------------------------------
(* The functions npublas.cpp exports. *)

set_backend_npu(backendChoice) ==
    /\ \E e \in getInstance(engine) : engine' \in loadBackend(e, backendChoice)
    /\ UNCHANGED <<tiled, ran>>

(* Neither changes more than getInstance does: power modes are a stub, and *)
(* has_graph only looks. *)
set_power_mode_npu == engine' \in getInstance(engine) /\ UNCHANGED <<tiled, ran>>

has_graph_npu == engine' \in getInstance(engine) /\ UNCHANGED <<tiled, ran>>

initialize_npublas(backendChoice) ==
    /\ \E e \in getInstance(engine) :
          \E f \in loadBackend(e, backendChoice) : engine' = performDiagnosticsIfNeeded(f)
    /\ UNCHANGED <<tiled, ran>>

prepare_matmul_npu(key) ==
    /\ \E e \in getInstance(engine) : engine' \in getOrCreateGraph(e, key)
    /\ UNCHANGED <<tiled, ran>>

(* Executing a graph, which only a valid one gets to; otherwise the call   *)
(* ends with the output left at zero. *)
Execute(path, backendChoice, graph, e) ==
    /\ engine' = e
    /\ ran' = [path |-> IF graph.isValid THEN path ELSE "skipped",
               choice |-> backendChoice,
               graph |-> graph,
               on |-> e.lib,
               alive |-> graph.contextHandle \in e.contexts]

Bypass(path, backendChoice, e) ==
    /\ engine' = e
    /\ ran' = [path |-> path, choice |-> backendChoice, graph |-> NoGraph,
               on |-> None, alive |-> FALSE]

(* matmul_int8: the direct path; without a backend, the TFLite fallback. *)
matmul_npu(key, backendChoice) ==
    /\ \E e \in getInstance(engine) : \E f \in loadBackend(e, backendChoice) :
          \/ /\ isLoaded(f)
             /\ \E g \in getOrCreateGraph(f, key) :
                   Execute("direct", backendChoice, g.graphCache[key], g)
          \/ /\ ~isLoaded(f)
             /\ Bypass("tflite", backendChoice, f)
    /\ UNCHANGED tiled

(* matmul_tiled: its own cache, which outlives the backend; the context of *)
(* a graph that failed to finalize is kept; without a backend the output   *)
(* stays at zero. *)
matmul_tiled_npu(key, backendChoice) ==
    \E e \in getInstance(engine) : \E f \in loadBackend(e, backendChoice) :
        \/ /\ isLoaded(f) /\ key \in DOMAIN tiled
           /\ Execute("tiled", backendChoice, tiled[key], f)
           /\ UNCHANGED tiled
        \/ /\ isLoaded(f) /\ key \notin DOMAIN tiled
           /\ \E g \in Compiled(f, "tiled", key) :
                 /\ tiled' = Put(tiled, key, g)
                 /\ Execute("tiled", backendChoice, g,
                            [f EXCEPT !.contexts = @ \cup ({g.contextHandle} \ {NoContext})])
        \/ /\ ~isLoaded(f)
           /\ Bypass("skipped", backendChoice, f)
           /\ UNCHANGED tiled

Running == ~engine.crashed

EngineNext ==
    /\ Running
    /\ \/ \E c \in Choice : set_backend_npu(c) \/ initialize_npublas(c)
       \/ set_power_mode_npu
       \/ has_graph_npu
       \/ \E k \in Key : prepare_matmul_npu(k)
       \/ \E k \in Key, c \in Choice : matmul_npu(k, c) \/ matmul_tiled_npu(k, c)

EngineSpec == EngineInit /\ [][EngineNext]_engineVars

-----------------------------------------------------------------------------
(* Safety. *)

OfLoadedLibrary(h) == h \in {None, engine.lib}

(* A backend switch leaves of the old library at most what that library    *)
(* cannot free: the backend handle and every graph in the cache were made  *)
(* by the library instance that is open now, and so were the device and    *)
(* the log, unless they come from a library that offers no deviceFree, or  *)
(* no logFree, and then they outlive its dlclose (unloadActiveBackend,     *)
(* execution.h 103-128, and loadBackend, 161-170).                         *)
EngineHoldsNoStaleHandle ==
    /\ OfLoadedLibrary(engine.backendHandle)
    /\ OfLoadedLibrary(engine.deviceHandle) \/ engine.deviceHandle.name \notin HasDeviceFree
    /\ OfLoadedLibrary(engine.logHandle) \/ engine.logHandle.name \notin HasLogFree
    /\ \A k \in DOMAIN engine.graphCache :
          OfLoadedLibrary(engine.graphCache[k].contextHandle.lib)

(* The contexts the engine made and that still exist are exactly those of  *)
(* the valid graphs in its cache: no path leaks one, however compilations, *)
(* failures and backend switches alternate (execution.h 107-112, 482-488). *)
ContextsMatchCache ==
    {c \in engine.contexts : c.owner = "engine"} =
        {engine.graphCache[k].contextHandle :
            k \in {j \in DOMAIN engine.graphCache : engine.graphCache[j].isValid}}

(* matmul executes a graph whose context exists and which was compiled by  *)
(* the open library, and that library is the one of the backend it was     *)
(* asked for (matmul_int8, tflite_manager.h 237-243).                      *)
DirectRunsWhereAsked ==
    ran.path = "direct" =>
        /\ ran.alive
        /\ ran.graph.contextHandle.lib = ran.on
        /\ ran.on.name = LibraryOf(ran.choice)

(* A context is handed to contextFree a second time only when its graph    *)
(* failed to finalize and stayed in the cache (execution.h 108-111, 485).  *)
OnlyInvalidGraphsFreedTwice ==
    [][\A c \in engine'.freedDead \ engine.freedDead :
          \E k \in DOMAIN engine.graphCache :
              /\ engine.graphCache[k].contextHandle = c
              /\ ~engine.graphCache[k].isValid]_engineVars

(* The docstring of set_backend: the backend it sets is the active one.  A *)
(* tiled matmul would then execute a graph compiled by the open library    *)
(* (pipeline.h 60-66, 182, 209).                                           *)
TiledRunsOnActiveBackend ==
    ran.path = "tiled" => ran.graph.contextHandle.lib = ran.on

=============================================================================
