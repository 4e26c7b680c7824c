--------------------------- MODULE NpublasProofs ---------------------------
(***************************************************************************)
(* What TLAPS proves about the execution engine and the package over it,   *)
(* for every set of shapes, backends and splits, whatever the libraries    *)
(* offer and however often they are opened.  First the engine, its         *)
(* exported functions called in any order (ExecutionEngine); then the      *)
(* package, which drives the engine only through them (Npublas).           *)
(***************************************************************************)
EXTENDS Npublas, TLAPS

-----------------------------------------------------------------------------
(* The engine. *)

Caches == UNION {[D -> Graph] : D \in SUBSET Key}

EngineRecord ==
    [constructed : BOOLEAN, crashed : BOOLEAN, currentBackendChoice : Choice \cup {0},
     lib : Handle, backendHandle : Handle, deviceHandle : Handle, logHandle : Handle,
     diagnosticsPerformed : BOOLEAN, loads : 0 .. MaxLoads, graphCache : Caches,
     contexts : SUBSET Context, freedDead : SUBSET Context]

(* What every function keeps true of an engine e. *)

(* A device or a log that is not the open library's was made by one that   *)
(* cannot free it.                                                         *)
HandlesOf(e) ==
    /\ e.backendHandle \in {None, e.lib}
    /\ e.deviceHandle \in {None, e.lib} \/ e.deviceHandle.name \notin HasDeviceFree
    /\ e.logHandle \in {None, e.lib} \/ e.logHandle.name \notin HasLogFree

(* A graph has the context made for it by the open library, or none, and   *)
(* then it is not valid.                                                   *)
GraphsOf(e) ==
    \A k \in DOMAIN e.graphCache :
        /\ e.graphCache[k].contextHandle \in
              {NoContext, [lib |-> e.lib, owner |-> "engine", key |-> k]}
        /\ e.graphCache[k].isValid => e.graphCache[k].contextHandle # NoContext
        /\ e.lib # None

ValidContexts(e) ==
    {e.graphCache[k].contextHandle : k \in {j \in DOMAIN e.graphCache : e.graphCache[j].isValid}}

ContextsOf(e) == {c \in e.contexts : c.owner = "engine"} = ValidContexts(e)

Sound(e) ==
    /\ e \in EngineRecord
    /\ HandlesOf(e)
    /\ GraphsOf(e)
    /\ ContextsOf(e)
    /\ e.lib # None => /\ e.lib.name = LibraryOf(e.currentBackendChoice)
                       /\ e.lib.id = e.loads
                       /\ e.constructed
    /\ e.crashed => e.constructed

(* From e to f a context is freed once too often only if its graph failed. *)
FreedInvalid(e, f) ==
    \A c \in f.freedDead \ e.freedDead :
        \E k \in DOMAIN e.graphCache :
            e.graphCache[k].contextHandle = c /\ ~e.graphCache[k].isValid

(* loadBackend leaves the engine alone, which it does when the choice is   *)
(* current and works, or without a library, or with one opened anew.       *)
Switched(e, c, f) ==
    /\ f = e \/ (f.lib = None /\ f.loads = e.loads) \/ f.loads = e.loads + 1
    /\ isLoaded(e) /\ e.currentBackendChoice = c => f = e

LEMMA NoneIsNoInstance == None \notin Instance
BY EngineAssumption DEF None, Instance

LEMMA NoContextIsNoContext == NoContext \notin Context
BY NoneIsNoInstance DEF NoContext, Context

(* unloadActiveBackend leaves an engine without library, backend, graphs   *)
(* or contexts of its own, and with a device or a log only if nothing      *)
(* could free it.                                                          *)
LEMMA Unloaded ==
    \A e : Sound(e) =>
        LET u == unloadActiveBackend(e) IN
        /\ u \in EngineRecord
        /\ u.lib = None /\ HandlesOf(u)
        /\ DOMAIN u.graphCache = {}
        /\ {c \in u.contexts : c.owner = "engine"} = {}
        /\ u.constructed = e.constructed /\ u.crashed = e.crashed /\ u.loads = e.loads
        /\ FreedInvalid(e, u)
<1> SUFFICES ASSUME NEW e, Sound(e)
             PROVE  LET u == unloadActiveBackend(e) IN
                    /\ u \in EngineRecord
                    /\ u.lib = None /\ HandlesOf(u)
                    /\ DOMAIN u.graphCache = {}
                    /\ {c \in u.contexts : c.owner = "engine"} = {}
                    /\ u.constructed = e.constructed /\ u.crashed = e.crashed /\ u.loads = e.loads
                    /\ FreedInvalid(e, u)
  OBVIOUS
<1> DEFINE u == unloadActiveBackend(e)
<1>1. e \in EngineRecord /\ HandlesOf(e) /\ GraphsOf(e) /\ ContextsOf(e)
  BY DEF Sound
<1>2. CASE e.lib = None
  <2>1. u = e  BY <1>2 DEF unloadActiveBackend
  <2>2. DOMAIN e.graphCache = {}  BY <1>1, <1>2 DEF GraphsOf
  <2>3. ValidContexts(e) = {}  BY <2>2 DEF ValidContexts
  <2>4. FreedInvalid(e, u)  BY <2>1 DEF FreedInvalid
  <2>5. QED  BY <1>1, <1>2, <2>1, <2>2, <2>3, <2>4 DEF HandlesOf, ContextsOf
<1>3. CASE e.lib # None
  <2> DEFINE freed == {e.graphCache[k].contextHandle : k \in DOMAIN e.graphCache} \ {NoContext}
  <2>1. NoGraphs \in Caches /\ DOMAIN NoGraphs = {}
    <3>1. NoGraphs \in [{} -> Graph]  BY DEF NoGraphs
    <3>2. {} \in SUBSET Key  OBVIOUS
    <3>3. QED  BY <3>1, <3>2 DEF Caches, NoGraphs
  <2>2. freed \subseteq Context
    BY <1>1, <1>3 DEF GraphsOf, EngineRecord, Caches, Graph, Handle
  <2>3. u = [e EXCEPT !.contexts = e.contexts \ freed,
                      !.freedDead = e.freedDead \cup (freed \ e.contexts),
                      !.graphCache = NoGraphs,
                      !.deviceHandle = IF e.lib.name \in HasDeviceFree THEN None ELSE e.deviceHandle,
                      !.backendHandle = None,
                      !.logHandle = IF e.lib.name \in HasLogFree THEN None ELSE e.logHandle,
                      !.lib = None]
    BY <1>1, <1>3 DEF unloadActiveBackend, EngineRecord
  <2> HIDE DEF freed, u
  <2> DEFINE d == IF e.lib.name \in HasDeviceFree THEN None ELSE e.deviceHandle
             l == IF e.lib.name \in HasLogFree THEN None ELSE e.logHandle
  <2>4. /\ d \in Handle /\ (d = None \/ d.name \notin HasDeviceFree)
        /\ l \in Handle /\ (l = None \/ l.name \notin HasLogFree)
    BY <1>1 DEF HandlesOf, EngineRecord, Handle
  <2> HIDE DEF d, l
  <2>5. /\ u \in EngineRecord
        /\ u.lib = None /\ HandlesOf(u)
        /\ u.graphCache = NoGraphs /\ u.contexts = e.contexts \ freed
        /\ u.freedDead = e.freedDead \cup (freed \ e.contexts)
        /\ u.constructed = e.constructed /\ u.crashed = e.crashed /\ u.loads = e.loads
    BY <1>1, <2>1, <2>2, <2>3, <2>4 DEF EngineRecord, Handle, HandlesOf, d, l
  <2>6. ValidContexts(e) \subseteq freed
    BY <1>1 DEF ValidContexts, GraphsOf, freed
  <2>7. {c \in u.contexts : c.owner = "engine"} = {}
    BY <1>1, <2>5, <2>6 DEF ContextsOf
  <2>8. FreedInvalid(e, u)
    <3> SUFFICES ASSUME NEW c \in u.freedDead \ e.freedDead
                 PROVE  \E k \in DOMAIN e.graphCache :
                            e.graphCache[k].contextHandle = c /\ ~e.graphCache[k].isValid
      BY DEF FreedInvalid
    <3>1. c \in freed /\ c \notin e.contexts  BY <2>5
    <3>2. PICK k \in DOMAIN e.graphCache : e.graphCache[k].contextHandle = c
      BY <3>1 DEF freed
    <3>3. e.graphCache[k].isValid => c \in ValidContexts(e)
      BY <3>2 DEF ValidContexts
    <3>4. QED  BY <1>1, <3>1, <3>2, <3>3 DEF ContextsOf
  <2>9. QED  BY <2>1, <2>5, <2>7, <2>8 DEF u
<1>4. QED  BY <1>2, <1>3

(* loadBackend keeps the engine sound and makes the choice current. *)
LEMMA Loaded ==
    \A e, c, f : Sound(e) /\ e.constructed /\ c \in Choice /\ f \in loadBackend(e, c) =>
        /\ Sound(f)
        /\ f.currentBackendChoice = c
        /\ f.constructed = e.constructed
        /\ f.crashed = e.crashed
        /\ f = e \/ (DOMAIN f.graphCache = {} /\ FreedInvalid(e, f))
        /\ Switched(e, c, f)
<1> SUFFICES ASSUME NEW e, NEW c, NEW f, Sound(e), e.constructed, c \in Choice, f \in loadBackend(e, c)
             PROVE  /\ Sound(f) /\ f.currentBackendChoice = c
                    /\ f.constructed = e.constructed /\ f.crashed = e.crashed
                    /\ f = e \/ (DOMAIN f.graphCache = {} /\ FreedInvalid(e, f))
                    /\ Switched(e, c, f)
  OBVIOUS
<1>1. CASE SameBackend(e, c)
  <2>1. f = e  BY <1>1 DEF loadBackend
  <2>2. QED  BY <1>1, <2>1 DEF SameBackend, Switched
<1>2. CASE ~SameBackend(e, c)
  <2> DEFINE v == unloadActiveBackend(e)
             u == [v EXCEPT !.currentBackendChoice = c, !.diagnosticsPerformed = FALSE]
             library == [name |-> LibraryOf(c), id |-> e.loads + 1]
  <2>1. /\ v \in EngineRecord
        /\ v.lib = None /\ HandlesOf(v)
        /\ DOMAIN v.graphCache = {}
        /\ {x \in v.contexts : x.owner = "engine"} = {}
        /\ v.constructed = e.constructed /\ v.crashed = e.crashed /\ v.loads = e.loads
        /\ FreedInvalid(e, v)
    BY Unloaded
  <2> HIDE DEF v
  <2>2. /\ u \in EngineRecord /\ u.currentBackendChoice = c
        /\ u.lib = None /\ HandlesOf(u)
        /\ u.graphCache = v.graphCache /\ u.contexts = v.contexts /\ u.freedDead = v.freedDead
        /\ u.constructed = e.constructed /\ u.crashed = e.crashed /\ u.loads = e.loads
    BY <2>1 DEF EngineRecord, HandlesOf
  <2>3. f = u \/ (e.loads < MaxLoads /\ f \in Opened(u, library))
    BY <1>2 DEF loadBackend, v
  <2> HIDE DEF u
  <2>4. e.crashed => e.constructed  BY DEF Sound
  <2> DEFINE old == isLoaded(e) /\ e.currentBackendChoice = c
  <2>0. ~old  BY <1>2 DEF SameBackend
  <2>5. CASE f = u
    <3>0. Switched(e, c, f)  BY <2>0, <2>2, <2>5 DEF Switched
    <3>1. HandlesOf(f)  BY <2>2, <2>5 DEF HandlesOf
    <3>2. GraphsOf(f)  BY <2>1, <2>2, <2>5 DEF GraphsOf
    <3>3. ValidContexts(f) = {}  BY <2>1, <2>2, <2>5 DEF ValidContexts
    <3>4. ContextsOf(f)  BY <2>1, <2>2, <2>5, <3>3 DEF ContextsOf
    <3>5. FreedInvalid(e, f)  BY <2>1, <2>2, <2>5 DEF FreedInvalid
    <3>6. QED  BY <2>1, <2>2, <2>4, <2>5, <3>0, <3>1, <3>2, <3>4, <3>5 DEF Sound
  <2>6. CASE e.loads < MaxLoads /\ f \in Opened(u, library)
    <3>1. library \in Instance /\ library \in Handle /\ library.name = LibraryOf(c)
      <4>1. e.loads \in 0 .. MaxLoads  BY DEF Sound, EngineRecord
      <4>2. LibraryOf(c) \in {"Hta", "Dsp", "Htp", "Gpu"}  BY Zenon DEF LibraryOf
      <4>3. e.loads + 1 \in 1 .. MaxLoads  BY <2>6, <4>1, EngineAssumption
      <4>4. QED  BY <4>2, <4>3 DEF Instance, Handle
    <3>2. library.id \in 0 .. MaxLoads /\ library.id = e.loads + 1
      BY <3>1, EngineAssumption DEF Instance
    <3> HIDE DEF library
    <3>3. PICK l \in {u.logHandle} \cup (IF library.name \in HasLogCreate THEN {library} ELSE {}),
               b \in {None, library},
               d \in {u.deviceHandle} \cup (IF library.name \in HasDeviceCreate THEN {library} ELSE {}) :
            f = WithLibrary(u, library, l, b, d)
      BY <2>6 DEF Opened
    <3>4. /\ l \in Handle /\ (l \in {None, library} \/ l.name \notin HasLogFree)
          /\ d \in Handle /\ (d \in {None, library} \/ d.name \notin HasDeviceFree)
          /\ None \in Handle
      BY <2>2, <3>1 DEF Handle, HandlesOf, EngineRecord
    <3>5. /\ f \in EngineRecord
          /\ f.lib = library /\ f.backendHandle = b /\ f.deviceHandle = d /\ f.logHandle = l
          /\ f.graphCache = u.graphCache /\ f.contexts = u.contexts
          /\ f.freedDead = u.freedDead /\ f.loads = library.id
          /\ f.currentBackendChoice = c
          /\ f.constructed = e.constructed /\ f.crashed = e.crashed
      BY <2>2, <3>1, <3>2, <3>3, <3>4 DEF EngineRecord, WithLibrary
    <3>6. HandlesOf(f)  BY <3>4, <3>5 DEF HandlesOf
    <3>7. GraphsOf(f)  BY <2>1, <2>2, <3>5 DEF GraphsOf
    <3>8. ValidContexts(f) = {}  BY <2>1, <2>2, <3>5 DEF ValidContexts
    <3>9. ContextsOf(f)  BY <2>1, <2>2, <3>5, <3>8 DEF ContextsOf
    <3>10. FreedInvalid(e, f)  BY <2>1, <2>2, <3>5 DEF FreedInvalid
    <3>11. Switched(e, c, f)  BY <2>0, <3>2, <3>5 DEF Switched
    <3>12. Sound(f)
      <4>1. f.lib.id = f.loads  BY <3>5
      <4>2. QED  BY <2>4, <3>1, <3>5, <3>6, <3>7, <3>9, <4>1 DEF Sound
    <3>13. QED  BY <2>1, <2>2, <3>5, <3>10, <3>11, <3>12
  <2>7. QED  BY <2>3, <2>5, <2>6
<1>3. QED  BY <1>1, <1>2

(* The first call constructs the engine and loads backend 1. *)
LEMMA Instantiated ==
    \A e, f : Sound(e) /\ f \in getInstance(e) =>
        /\ Sound(f) /\ f.constructed /\ f.crashed = e.crashed
        /\ \/ f.graphCache = e.graphCache /\ f.freedDead = e.freedDead
           \/ DOMAIN f.graphCache = {} /\ FreedInvalid(e, f)
<1> SUFFICES ASSUME NEW e, NEW f, Sound(e), f \in getInstance(e)
             PROVE  /\ Sound(f) /\ f.constructed /\ f.crashed = e.crashed
                    /\ \/ f.graphCache = e.graphCache /\ f.freedDead = e.freedDead
                       \/ DOMAIN f.graphCache = {} /\ FreedInvalid(e, f)
  OBVIOUS
<1>1. CASE e.constructed
  BY <1>1 DEF getInstance
<1>2. CASE ~e.constructed
  <2> DEFINE d == [e EXCEPT !.constructed = TRUE]
  <2>1. f \in loadBackend(d, 1)  BY <1>2 DEF getInstance
  <2>2. /\ d \in EngineRecord /\ d.constructed
        /\ d.lib = e.lib /\ d.backendHandle = e.backendHandle
        /\ d.deviceHandle = e.deviceHandle /\ d.logHandle = e.logHandle
        /\ d.graphCache = e.graphCache /\ d.contexts = e.contexts /\ d.freedDead = e.freedDead
        /\ d.loads = e.loads
        /\ d.currentBackendChoice = e.currentBackendChoice /\ d.crashed = e.crashed
    BY DEF Sound, EngineRecord
  <2> HIDE DEF d
  <2>3. Sound(d)
    BY <2>2 DEF Sound, HandlesOf, GraphsOf, ContextsOf, ValidContexts
  <2>4. /\ Sound(f) /\ f.constructed /\ f.crashed = e.crashed
        /\ f = d \/ (DOMAIN f.graphCache = {} /\ FreedInvalid(d, f))
    BY <2>1, <2>2, <2>3, Loaded, EngineAssumption
  <2>5. FreedInvalid(d, f) => FreedInvalid(e, f)
    BY <2>2 DEF FreedInvalid
  <2>6. QED  BY <2>2, <2>4, <2>5
<1>3. QED  BY <1>1, <1>2

LEMMA Diagnosed ==
    \A e : Sound(e) => Sound(performDiagnosticsIfNeeded(e))
<1> SUFFICES ASSUME NEW e, Sound(e)  PROVE Sound(performDiagnosticsIfNeeded(e))
  OBVIOUS
<1> DEFINE d == [e EXCEPT !.diagnosticsPerformed = TRUE]
<1>1. performDiagnosticsIfNeeded(e) \in {e, d}
  BY DEF performDiagnosticsIfNeeded
<1>2. /\ d \in EngineRecord /\ d.constructed = e.constructed
      /\ d.lib = e.lib /\ d.backendHandle = e.backendHandle
      /\ d.deviceHandle = e.deviceHandle /\ d.logHandle = e.logHandle
      /\ d.graphCache = e.graphCache /\ d.contexts = e.contexts /\ d.loads = e.loads
      /\ d.currentBackendChoice = e.currentBackendChoice /\ d.crashed = e.crashed
  BY DEF Sound, EngineRecord
<1> HIDE DEF d
<1>3. Sound(d)
  BY <1>2 DEF Sound, HandlesOf, GraphsOf, ContextsOf, ValidContexts
<1>4. QED  BY <1>1, <1>3

(* A graph compiled by an engine with a library: its context, if any, is   *)
(* one of that library, and without it the graph is not valid.             *)
LEMMA CompiledGraphs ==
    \A e, k, o, g : Sound(e) /\ k \in Key /\ o \in {"engine", "tiled"} /\ g \in Compiled(e, o, k) =>
        /\ g \in Graph
        /\ g.contextHandle \in {NoContext, [lib |-> e.lib, owner |-> o, key |-> k]}
        /\ g.isValid => g.contextHandle # NoContext
<1> SUFFICES ASSUME NEW e, NEW k, NEW o, NEW g, Sound(e), k \in Key, o \in {"engine", "tiled"},
                    g \in Compiled(e, o, k)
             PROVE  /\ g \in Graph
                    /\ g.contextHandle \in {NoContext, [lib |-> e.lib, owner |-> o, key |-> k]}
                    /\ g.isValid => g.contextHandle # NoContext
  OBVIOUS
<1>1. PICK v \in BOOLEAN, c \in Created(e, o, k) : g = [isValid |-> v, contextHandle |-> c]
  BY DEF Compiled
<1>2. g # [isValid |-> TRUE, contextHandle |-> NoContext]
  BY DEF Compiled
<1>3. c = NoContext \/ (isLoaded(e) /\ c = [lib |-> e.lib, owner |-> o, key |-> k])
  BY <1>1 DEF Created
<1>4. isLoaded(e) => e.lib \in Instance
  BY DEF isLoaded, Sound, HandlesOf, EngineRecord, Handle
<1>5. c \in Context \cup {NoContext}
  BY <1>3, <1>4 DEF Context
<1>6. QED  BY <1>1, <1>2, <1>3, <1>5 DEF Graph

(* getOrCreateGraph: a failed compilation leaves no context behind; a      *)
(* graph that is found or made belongs to the open library.                *)
LEMMA GotGraph ==
    \A e, k, f : Sound(e) /\ k \in Key /\ f \in getOrCreateGraph(e, k) /\ e.constructed =>
        /\ Sound(f)
        /\ e.lib # None => /\ k \in DOMAIN f.graphCache
                           /\ f.lib = e.lib
                           /\ f.currentBackendChoice = e.currentBackendChoice
<1> SUFFICES ASSUME NEW e, NEW k, NEW f, Sound(e), k \in Key, f \in getOrCreateGraph(e, k),
                    e.constructed
             PROVE  /\ Sound(f)
                    /\ e.lib # None => /\ k \in DOMAIN f.graphCache
                                       /\ f.lib = e.lib
                                       /\ f.currentBackendChoice = e.currentBackendChoice
  OBVIOUS
<1>0. e \in EngineRecord /\ HandlesOf(e) /\ GraphsOf(e) /\ ContextsOf(e)
  BY DEF Sound
<1>1. CASE k \in DOMAIN e.graphCache
  BY <1>1 DEF getOrCreateGraph
<1>2. CASE k \notin DOMAIN e.graphCache /\ e.lib = None
  <2>1. f = [e EXCEPT !.crashed = TRUE]
    BY <1>2 DEF getOrCreateGraph
  <2>2. /\ f \in EngineRecord /\ f.constructed = e.constructed
        /\ f.lib = e.lib /\ f.backendHandle = e.backendHandle
        /\ f.deviceHandle = e.deviceHandle /\ f.logHandle = e.logHandle
        /\ f.graphCache = e.graphCache /\ f.contexts = e.contexts /\ f.loads = e.loads
        /\ f.currentBackendChoice = e.currentBackendChoice
    BY <1>0, <2>1 DEF EngineRecord
  <2>3. QED
    BY <1>2, <2>2 DEF Sound, HandlesOf, GraphsOf, ContextsOf, ValidContexts
<1>3. CASE k \notin DOMAIN e.graphCache /\ e.lib # None
  <2>1. PICK g \in Compiled(e, "engine", k) : f = WithGraph(e, k, g)
    BY <1>3 DEF getOrCreateGraph
  <2> DEFINE cache == Put(e.graphCache, k, g)
             contexts == IF g.isValid THEN e.contexts \cup {g.contextHandle} ELSE e.contexts
             made == [lib |-> e.lib, owner |-> "engine", key |-> k]
  <2>2. /\ g \in Graph /\ g.contextHandle \in {NoContext, made}
        /\ g.isValid => g.contextHandle = made
    BY CompiledGraphs
  <2>3. /\ DOMAIN cache = DOMAIN e.graphCache \cup {k}
        /\ cache[k] = g
        /\ \A j \in DOMAIN e.graphCache : cache[j] = e.graphCache[j]
    BY <1>3 DEF Put
  <2>4. cache \in Caches
    <3>1. PICK D \in SUBSET Key : e.graphCache \in [D -> Graph]
      BY <1>0 DEF EngineRecord, Caches
    <3>2. cache \in [D \cup {k} -> Graph]
      BY <2>2, <3>1 DEF Put
    <3>3. D \cup {k} \in SUBSET Key  OBVIOUS
    <3>4. QED  BY <3>2, <3>3 DEF Caches
  <2>5. contexts \subseteq Context
    BY <1>0, <2>2, NoContextIsNoContext DEF EngineRecord, Graph, made, NoContext
  <2>6. /\ f \in EngineRecord /\ f.constructed = e.constructed /\ f.crashed = e.crashed
        /\ f.lib = e.lib /\ f.backendHandle = e.backendHandle
        /\ f.deviceHandle = e.deviceHandle /\ f.logHandle = e.logHandle
        /\ f.graphCache = cache /\ f.contexts = contexts /\ f.loads = e.loads
        /\ f.currentBackendChoice = e.currentBackendChoice
    <3> HIDE DEF cache, contexts
    <3>1. f = [e EXCEPT !.graphCache = cache, !.contexts = contexts]
      BY <1>0, <2>1 DEF WithGraph, cache, contexts, EngineRecord
    <3>2. QED  BY <1>0, <2>4, <2>5, <3>1 DEF EngineRecord
  <2> HIDE DEF cache
  <2>7. HandlesOf(f)  BY <1>0, <2>6 DEF HandlesOf
  <2>8. GraphsOf(f)
    BY <1>0, <1>3, <2>2, <2>3, <2>6 DEF GraphsOf, made, NoContext
  <2>9. ValidContexts(f) = ValidContexts(e) \cup (IF g.isValid THEN {g.contextHandle} ELSE {})
    BY <1>3, <2>3, <2>6 DEF ValidContexts
  <2>10. ContextsOf(f)
    BY <1>0, <2>2, <2>6, <2>9 DEF ContextsOf, made
  <2>11. QED
    BY <2>3, <2>6, <2>7, <2>8, <2>10 DEF Sound
<1>4. QED  BY <1>1, <1>2, <1>3

(* The inductive invariant of the exported functions. *)
EngineInv == Sound(engine) /\ tiled \in Caches /\ ran \in Ran /\ DirectRunsWhereAsked

LEMMA InitInv == ASSUME EngineInit PROVE EngineInv
<1>1. NoGraphs \in Caches /\ DOMAIN NoGraphs = {}
  <2>1. NoGraphs \in [{} -> Graph]  BY DEF NoGraphs
  <2>2. {} \in SUBSET Key  OBVIOUS
  <2>3. QED  BY <2>1, <2>2 DEF Caches, NoGraphs
<1>2. engine \in EngineRecord
  BY <1>1, EngineAssumption DEF EngineInit, EngineRecord, Handle
<1>3. HandlesOf(engine) /\ GraphsOf(engine)
  BY <1>1 DEF EngineInit, HandlesOf, GraphsOf
<1>4. ValidContexts(engine) = {}
  BY <1>1 DEF EngineInit, ValidContexts
<1>5. ContextsOf(engine)
  BY <1>4 DEF EngineInit, ContextsOf
<1>6. Sound(engine)
  BY <1>2, <1>3, <1>5 DEF Sound, EngineInit
<1>7. ran \in Ran /\ DirectRunsWhereAsked
  BY DEF EngineInit, Ran, NoGraph, Graph, Handle, DirectRunsWhereAsked
<1>8. QED  BY <1>1, <1>6, <1>7 DEF EngineInv, EngineInit

LEMMA StepInv == ASSUME EngineInv, [EngineNext]_engineVars PROVE EngineInv'
<1>0. Sound(engine) /\ tiled \in Caches /\ ran \in Ran /\ DirectRunsWhereAsked
  BY DEF EngineInv
<1>1. ASSUME NEW c \in Choice, set_backend_npu(c)  PROVE EngineInv'
  <2>1. PICK e \in getInstance(engine) : engine' \in loadBackend(e, c)
    BY <1>1 DEF set_backend_npu
  <2>2. Sound(engine')  BY <1>0, <2>1, Instantiated, Loaded
  <2>3. QED  BY <1>0, <1>1, <2>2 DEF set_backend_npu, EngineInv, DirectRunsWhereAsked
<1>2. ASSUME NEW c \in Choice, initialize_npublas(c)  PROVE EngineInv'
  <2>1. PICK e \in getInstance(engine) :
          \E f \in loadBackend(e, c) : engine' = performDiagnosticsIfNeeded(f)
    BY <1>2 DEF initialize_npublas
  <2>2. Sound(engine')  BY <1>0, <2>1, Instantiated, Loaded, Diagnosed
  <2>3. QED  BY <1>0, <1>2, <2>2 DEF initialize_npublas, EngineInv, DirectRunsWhereAsked
<1>3. CASE set_power_mode_npu \/ has_graph_npu
  <2>1. Sound(engine')
    BY <1>0, <1>3, Instantiated DEF set_power_mode_npu, has_graph_npu
  <2>2. QED
    BY <1>0, <1>3, <2>1 DEF set_power_mode_npu, has_graph_npu, EngineInv, DirectRunsWhereAsked
<1>4. ASSUME NEW k \in Key, prepare_matmul_npu(k)  PROVE EngineInv'
  <2>1. PICK e \in getInstance(engine) : engine' \in getOrCreateGraph(e, k)
    BY <1>4 DEF prepare_matmul_npu
  <2>2. Sound(engine')  BY <1>0, <2>1, Instantiated, GotGraph
  <2>3. QED  BY <1>0, <1>4, <2>2 DEF prepare_matmul_npu, EngineInv, DirectRunsWhereAsked
<1>5. ASSUME NEW k \in Key, NEW c \in Choice, matmul_npu(k, c)  PROVE EngineInv'
  <2>1. PICK e \in getInstance(engine) : \E f \in loadBackend(e, c) :
          \/ /\ isLoaded(f)
             /\ \E g \in getOrCreateGraph(f, k) : Execute("direct", c, g.graphCache[k], g)
          \/ ~isLoaded(f) /\ Bypass("tflite", c, f)
    BY <1>5 DEF matmul_npu
  <2>2. PICK f \in loadBackend(e, c) :
          \/ /\ isLoaded(f)
             /\ \E g \in getOrCreateGraph(f, k) : Execute("direct", c, g.graphCache[k], g)
          \/ ~isLoaded(f) /\ Bypass("tflite", c, f)
    BY <2>1
  <2>3. Sound(f) /\ f.constructed /\ f.currentBackendChoice = c
    BY <1>0, <2>1, <2>2, Instantiated, Loaded
  <2>4. CASE /\ isLoaded(f)
             /\ \E g \in getOrCreateGraph(f, k) : Execute("direct", c, g.graphCache[k], g)
    <3>1. PICK g \in getOrCreateGraph(f, k) : Execute("direct", c, g.graphCache[k], g)
      BY <2>4
    <3>2. f.lib # None
      BY <2>3, <2>4 DEF isLoaded, Sound, HandlesOf
    <3>3. Sound(g) /\ k \in DOMAIN g.graphCache /\ g.lib = f.lib /\ g.currentBackendChoice = c
      BY <2>3, <3>2, GotGraph
    <3> DEFINE graph == g.graphCache[k]
    <3>4. engine' = g /\ ran' = [path |-> IF graph.isValid THEN "direct" ELSE "skipped",
                                 choice |-> c, graph |-> graph, on |-> g.lib,
                                 alive |-> graph.contextHandle \in g.contexts]
      BY <3>1 DEF Execute
    <3>5. graph \in Graph /\ g.lib \in Handle
      BY <3>3 DEF Sound, EngineRecord, Caches
    <3>6. graph.isValid =>
            /\ graph.contextHandle = [lib |-> g.lib, owner |-> "engine", key |-> k]
            /\ graph.contextHandle \in g.contexts
            /\ g.lib.name = LibraryOf(c)
      <4>1. graph.isValid => graph.contextHandle \in ValidContexts(g)
        BY <3>3 DEF ValidContexts
      <4>2. graph.isValid => graph.contextHandle = [lib |-> g.lib, owner |-> "engine", key |-> k]
        BY <3>3 DEF Sound, GraphsOf
      <4>3. ValidContexts(g) \subseteq g.contexts
        BY <3>3 DEF Sound, ContextsOf
      <4>4. g.lib.name = LibraryOf(c)
        BY <3>2, <3>3 DEF Sound
      <4>5. QED  BY <4>1, <4>2, <4>3, <4>4
    <3> HIDE DEF graph
    <3>7. ran' \in Ran
      <4>1. (graph.contextHandle \in g.contexts) \in BOOLEAN  OBVIOUS
      <4>2. QED  BY <3>4, <3>5, <4>1 DEF Ran
    <3>8. DirectRunsWhereAsked'
      <4>1. /\ ran'.path = IF graph.isValid THEN "direct" ELSE "skipped"
            /\ ran'.choice = c /\ ran'.graph = graph /\ ran'.on = g.lib
            /\ ran'.alive = (graph.contextHandle \in g.contexts)
        BY <3>4
      <4>2. CASE graph.isValid
        <5>1. ran'.alive  BY <3>6, <4>1, <4>2
        <5>2. graph.contextHandle.lib = g.lib  BY <3>6, <4>2
        <5>3. ran'.graph.contextHandle.lib = ran'.on  BY <4>1, <5>2
        <5>4. ran'.on.name = LibraryOf(ran'.choice)  BY <3>6, <4>1, <4>2
        <5>5. QED  BY <5>1, <5>3, <5>4 DEF DirectRunsWhereAsked
      <4>3. CASE ~graph.isValid
        BY <4>1, <4>3 DEF DirectRunsWhereAsked
      <4>4. QED  BY <4>2, <4>3
    <3>9. QED  BY <1>0, <1>5, <3>3, <3>4, <3>7, <3>8 DEF EngineInv, matmul_npu
  <2>5. CASE ~isLoaded(f) /\ Bypass("tflite", c, f)
    <3>1. ran' \in Ran /\ DirectRunsWhereAsked' /\ engine' = f
      BY <2>5 DEF Bypass, Ran, NoGraph, Graph, Handle, DirectRunsWhereAsked
    <3>2. QED  BY <1>0, <1>5, <2>3, <3>1 DEF EngineInv, matmul_npu
  <2>6. QED  BY <2>2, <2>4, <2>5
<1>6. ASSUME NEW k \in Key, NEW c \in Choice, matmul_tiled_npu(k, c)  PROVE EngineInv'
  <2> DEFINE Cached(f) == /\ isLoaded(f) /\ k \in DOMAIN tiled
                          /\ Execute("tiled", c, tiled[k], f)
                          /\ UNCHANGED tiled
             More(f, g) == [f EXCEPT !.contexts = @ \cup ({g.contextHandle} \ {NoContext})]
             New(f) == /\ isLoaded(f) /\ k \notin DOMAIN tiled
                       /\ \E g \in Compiled(f, "tiled", k) :
                             /\ tiled' = Put(tiled, k, g)
                             /\ Execute("tiled", c, g, More(f, g))
             Without(f) == ~isLoaded(f) /\ Bypass("skipped", c, f) /\ UNCHANGED tiled
  <2>1. PICK e \in getInstance(engine) : \E f \in loadBackend(e, c) : Cached(f) \/ New(f) \/ Without(f)
    BY <1>6 DEF matmul_tiled_npu
  <2>2. PICK f \in loadBackend(e, c) : Cached(f) \/ New(f) \/ Without(f)
    BY <2>1
  <2>3. Sound(f)
    BY <1>0, <2>1, <2>2, Instantiated, Loaded
  <2>4. f \in EngineRecord /\ f.lib \in Handle
    BY <2>3 DEF Sound, EngineRecord
  <2>5. CASE Cached(f)
    <3>1. tiled[k] \in Graph  BY <1>0, <2>5 DEF Caches
    <3>2. engine' = f /\ ran' = [path |-> IF tiled[k].isValid THEN "tiled" ELSE "skipped",
                                 choice |-> c, graph |-> tiled[k], on |-> f.lib,
                                 alive |-> tiled[k].contextHandle \in f.contexts]
      BY <2>5 DEF Execute
    <3>3. (tiled[k].contextHandle \in f.contexts) \in BOOLEAN  OBVIOUS
    <3>4. ran' \in Ran  BY <2>4, <3>1, <3>2, <3>3 DEF Ran
    <3>5. DirectRunsWhereAsked'  BY <3>2 DEF DirectRunsWhereAsked
    <3>6. QED  BY <1>0, <2>3, <2>5, <3>2, <3>4, <3>5 DEF EngineInv
  <2>6. CASE New(f)
    <3>1. PICK g \in Compiled(f, "tiled", k) :
             tiled' = Put(tiled, k, g) /\ Execute("tiled", c, g, More(f, g))
      BY <2>6
    <3>2. g \in Graph /\ g.contextHandle \in {NoContext, [lib |-> f.lib, owner |-> "tiled", key |-> k]}
      BY <2>3, CompiledGraphs
    <3>3. tiled' \in Caches
      <4>1. PICK D \in SUBSET Key : tiled \in [D -> Graph]
        BY <1>0 DEF Caches
      <4>2. tiled' \in [D \cup {k} -> Graph]
        BY <3>1, <3>2, <4>1 DEF Put
      <4>3. D \cup {k} \in SUBSET Key  OBVIOUS
      <4>4. QED  BY <4>2, <4>3 DEF Caches
    <3> DEFINE h == More(f, g)
               contexts == f.contexts \cup ({g.contextHandle} \ {NoContext})
    <3>4. contexts \subseteq Context
      BY <2>4, <3>2 DEF EngineRecord, Graph
    <3>5. /\ h \in EngineRecord /\ h.constructed = f.constructed /\ h.crashed = f.crashed
          /\ h.lib = f.lib /\ h.backendHandle = f.backendHandle
          /\ h.deviceHandle = f.deviceHandle /\ h.logHandle = f.logHandle
          /\ h.graphCache = f.graphCache /\ h.contexts = contexts /\ h.loads = f.loads
          /\ h.currentBackendChoice = f.currentBackendChoice
      <4>1. h = [f EXCEPT !.contexts = contexts]
        BY <2>4 DEF EngineRecord
      <4> HIDE DEF contexts, h
      <4>2. QED  BY <2>4, <3>4, <4>1 DEF EngineRecord
    <3>6. engine' = h /\ ran' = [path |-> IF g.isValid THEN "tiled" ELSE "skipped",
                                 choice |-> c, graph |-> g, on |-> h.lib,
                                 alive |-> g.contextHandle \in h.contexts]
      BY <3>1 DEF Execute
    <3> HIDE DEF h
    <3>7. {x \in h.contexts : x.owner = "engine"} = {x \in f.contexts : x.owner = "engine"}
      BY <3>2, <3>5
    <3>8. Sound(h)
      BY <2>3, <3>5, <3>7 DEF Sound, HandlesOf, GraphsOf, ContextsOf, ValidContexts
    <3>9. (g.contextHandle \in h.contexts) \in BOOLEAN  OBVIOUS
    <3>10. ran' \in Ran  BY <2>4, <3>2, <3>5, <3>6, <3>9 DEF Ran
    <3>11. DirectRunsWhereAsked'  BY <3>6 DEF DirectRunsWhereAsked
    <3>12. QED  BY <3>3, <3>6, <3>8, <3>10, <3>11 DEF EngineInv
  <2>7. CASE Without(f)
    <3>1. ran' \in Ran /\ DirectRunsWhereAsked' /\ engine' = f
      BY <2>7 DEF Bypass, Ran, NoGraph, Graph, Handle, DirectRunsWhereAsked
    <3>2. QED  BY <1>0, <2>3, <2>7, <3>1 DEF EngineInv
  <2>8. QED  BY <2>2, <2>5, <2>6, <2>7
<1>7. CASE UNCHANGED engineVars
  BY <1>0, <1>7 DEF engineVars, EngineInv, DirectRunsWhereAsked
<1>8. QED
  BY <1>1, <1>2, <1>3, <1>4, <1>5, <1>6, <1>7 DEF EngineNext

LEMMA EngineInvariance == EngineSpec => []EngineInv
BY InitInv, StepInv, PTL DEF EngineSpec

(* EngineTypeOK, for any number of backends, shapes and libraries opened.  *)
THEOREM EngineTypeCorrect == EngineSpec => []EngineTypeOK
<1>1. EngineInv => EngineTypeOK
  <2> SUFFICES ASSUME EngineInv PROVE EngineTypeOK
    OBVIOUS
  <2>1. engine \in EngineRecord /\ tiled \in Caches /\ ran \in Ran
    BY DEF EngineInv, Sound
  <2>2. engine.graphCache \in Caches  BY <2>1 DEF EngineRecord
  <2>3. ASSUME NEW m \in Caches  PROVE m \in [DOMAIN m -> Graph] /\ DOMAIN m \subseteq Key
    BY DEF Caches
  <2>4. QED  BY <2>1, <2>2, <2>3 DEF EngineRecord, EngineTypeOK
<1>2. QED  BY <1>1, EngineInvariance, PTL

(* No handle of a closed library is left in the engine, however the        *)
(* libraries differ in what they offer (execution.h 103-172).              *)
THEOREM NoStaleHandle == EngineSpec => []EngineHoldsNoStaleHandle
<1>1. EngineInv => EngineHoldsNoStaleHandle
  <2> SUFFICES ASSUME EngineInv PROVE EngineHoldsNoStaleHandle
    OBVIOUS
  <2>1. HandlesOf(engine) /\ GraphsOf(engine)
    BY DEF EngineInv, Sound
  <2>2. \A k \in DOMAIN engine.graphCache :
            engine.graphCache[k].contextHandle.lib \in {None, engine.lib}
    BY <2>1 DEF GraphsOf, NoContext
  <2>3. QED  BY <2>1, <2>2 DEF HandlesOf, EngineHoldsNoStaleHandle, OfLoadedLibrary
<1>2. QED  BY <1>1, EngineInvariance, PTL

(* The engine leaks no context and none is freed under a valid graph       *)
(* (execution.h 107-112, 482-488).                                         *)
THEOREM NoLeakedContext == EngineSpec => []ContextsMatchCache
<1>1. EngineInv => ContextsMatchCache
  BY DEF EngineInv, Sound, ContextsOf, ValidContexts, ContextsMatchCache
<1>2. QED  BY <1>1, EngineInvariance, PTL

(* A direct product runs on the library of the backend it was asked for,   *)
(* on a graph of that library that has its context (tflite_manager.h       *)
(* 237-243).                                                               *)
THEOREM DirectRunsOnItsBackend == EngineSpec => []DirectRunsWhereAsked
<1>1. EngineInv => DirectRunsWhereAsked
  BY DEF EngineInv
<1>2. QED  BY <1>1, EngineInvariance, PTL

(* Two loads in a row, the engine's first and the one a call asks for,     *)
(* free a context twice only as one of them would.                         *)
LEMMA LoadsCompose ==
    \A d, e, f : Sound(d) /\ e \in getInstance(d) /\ (f = e \/ FreedInvalid(e, f)) => FreedInvalid(d, f)
<1> SUFFICES ASSUME NEW d, NEW e, NEW f, Sound(d), e \in getInstance(d), f = e \/ FreedInvalid(e, f)
             PROVE  FreedInvalid(d, f)
  OBVIOUS
<1>1. \/ e.graphCache = d.graphCache /\ e.freedDead = d.freedDead
      \/ DOMAIN e.graphCache = {} /\ FreedInvalid(d, e)
  BY Instantiated
<1>2. QED  BY <1>1 DEF FreedInvalid

(* The functions that follow a load free nothing. *)
LEMMA FreesNothing ==
    \A e, k, f : Sound(e) =>
        /\ performDiagnosticsIfNeeded(e).freedDead = e.freedDead
        /\ f \in getOrCreateGraph(e, k) => f.freedDead = e.freedDead
<1> SUFFICES ASSUME NEW e, NEW k, NEW f, Sound(e)
             PROVE  /\ performDiagnosticsIfNeeded(e).freedDead = e.freedDead
                    /\ f \in getOrCreateGraph(e, k) => f.freedDead = e.freedDead
  OBVIOUS
<1>1. e \in EngineRecord  BY DEF Sound
<1>2. performDiagnosticsIfNeeded(e).freedDead = e.freedDead
  <2>1. [e EXCEPT !.diagnosticsPerformed = TRUE].freedDead = e.freedDead
    BY <1>1 DEF EngineRecord
  <2>2. QED  BY <2>1 DEF performDiagnosticsIfNeeded
<1>3. [e EXCEPT !.crashed = TRUE].freedDead = e.freedDead
  BY <1>1 DEF EngineRecord
<1>4. \A g : WithGraph(e, k, g).freedDead = e.freedDead
  BY <1>1 DEF EngineRecord, WithGraph
<1>5. f \in getOrCreateGraph(e, k) => f.freedDead = e.freedDead
  <2>1. CASE k \in DOMAIN e.graphCache
    BY <2>1 DEF getOrCreateGraph
  <2>2. CASE k \notin DOMAIN e.graphCache /\ e.lib = None
    BY <1>3, <2>2 DEF getOrCreateGraph
  <2>3. CASE k \notin DOMAIN e.graphCache /\ e.lib # None
    BY <1>4, <2>3 DEF getOrCreateGraph
  <2>4. QED  BY <2>1, <2>2, <2>3
<1>6. QED  BY <1>2, <1>5

(* Only the context of a graph that failed to compile is ever freed twice  *)
(* (execution.h 108-111, 485).                                             *)
THEOREM FreedTwiceOnlyIfInvalid == EngineSpec => OnlyInvalidGraphsFreedTwice
<1>1. ASSUME EngineInv, EngineNext  PROVE FreedInvalid(engine, engine')
  <2>0. Sound(engine)  BY <1>1 DEF EngineInv
  <2>1. ASSUME NEW c \in Choice, NEW e \in getInstance(engine), NEW f \in loadBackend(e, c)
        PROVE  Sound(f) /\ FreedInvalid(engine, f)
    BY <2>0, Instantiated, Loaded, LoadsCompose
  <2>2. ASSUME NEW e \in getInstance(engine)  PROVE Sound(e) /\ FreedInvalid(engine, e)
    BY <2>0, Instantiated, LoadsCompose
  <2>3. ASSUME NEW f, NEW g, FreedInvalid(engine, f), g.freedDead = f.freedDead
        PROVE  FreedInvalid(engine, g)
    BY <2>3 DEF FreedInvalid
  <2>4. ASSUME NEW c \in Choice, set_backend_npu(c)  PROVE FreedInvalid(engine, engine')
    BY <2>1, <2>4 DEF set_backend_npu
  <2>5. ASSUME NEW c \in Choice, initialize_npublas(c)  PROVE FreedInvalid(engine, engine')
    BY <2>1, <2>3, <2>5, FreesNothing DEF initialize_npublas
  <2>6. CASE set_power_mode_npu \/ has_graph_npu
    BY <2>2, <2>6 DEF set_power_mode_npu, has_graph_npu
  <2>7. ASSUME NEW k \in Key, prepare_matmul_npu(k)  PROVE FreedInvalid(engine, engine')
    BY <2>2, <2>3, <2>7, FreesNothing DEF prepare_matmul_npu
  <2>8. ASSUME NEW k \in Key, NEW c \in Choice, matmul_npu(k, c)  PROVE FreedInvalid(engine, engine')
    <3>1. PICK e \in getInstance(engine) : \E f \in loadBackend(e, c) :
            engine' = f \/ engine' \in getOrCreateGraph(f, k)
      BY <2>8 DEF matmul_npu, Execute, Bypass
    <3>2. PICK f \in loadBackend(e, c) : engine' = f \/ engine' \in getOrCreateGraph(f, k)
      BY <3>1
    <3>3. Sound(f) /\ FreedInvalid(engine, f)  BY <2>1
    <3>4. QED  BY <2>3, <3>2, <3>3, FreesNothing
  <2>9. ASSUME NEW k \in Key, NEW c \in Choice, matmul_tiled_npu(k, c)
        PROVE  FreedInvalid(engine, engine')
    <3>1. PICK e \in getInstance(engine) : \E f \in loadBackend(e, c) :
            \/ engine' = f
            \/ \E g : engine' = [f EXCEPT !.contexts = @ \cup ({g.contextHandle} \ {NoContext})]
      BY <2>9 DEF matmul_tiled_npu, Execute, Bypass
    <3>2. PICK f \in loadBackend(e, c) :
            \/ engine' = f
            \/ \E g : engine' = [f EXCEPT !.contexts = @ \cup ({g.contextHandle} \ {NoContext})]
      BY <3>1
    <3>3. Sound(f) /\ FreedInvalid(engine, f)  BY <2>1
    <3>4. engine'.freedDead = f.freedDead
      BY <3>2, <3>3 DEF Sound, EngineRecord
    <3>5. QED  BY <2>3, <3>3, <3>4
  <2>10. QED
    BY <1>1, <2>4, <2>5, <2>6, <2>7, <2>8, <2>9 DEF EngineNext
<1>2. EngineInv /\ [EngineNext]_engineVars =>
        [\A c \in engine'.freedDead \ engine.freedDead :
            \E k \in DOMAIN engine.graphCache :
                /\ engine.graphCache[k].contextHandle = c
                /\ ~engine.graphCache[k].isValid]_engineVars
  BY <1>1 DEF FreedInvalid
<1>3. QED  BY <1>2, EngineInvariance, PTL DEF EngineSpec, OnlyInvalidGraphsFreedTwice

-----------------------------------------------------------------------------
(* What an exported function does to the work compiled so far. *)

(* From e to f the library and every graph stay. *)
Kept(e, f) ==
    /\ f.lib = e.lib /\ f.loads = e.loads
    /\ \A k \in DOMAIN e.graphCache :
          k \in DOMAIN f.graphCache /\ f.graphCache[k] = e.graphCache[k]

(* Otherwise the library is gone, or one has been opened since. *)
Moved(e, f) ==
    /\ f.loads >= e.loads
    /\ Kept(e, f) \/ f.lib = None \/ f.loads > e.loads

LEMMA KeptMoves ==
    \A e, f : Sound(e) /\ Sound(f) /\ Kept(e, f) => Moved(e, f)
BY DEF Kept, Moved, Sound, EngineRecord

LEMMA MovedIsTransitive ==
    \A d, e, f : Sound(d) /\ Sound(e) /\ Sound(f) /\ Moved(d, e) /\ Moved(e, f) => Moved(d, f)
<1> SUFFICES ASSUME NEW d, NEW e, NEW f, Sound(d), Sound(e), Sound(f), Moved(d, e), Moved(e, f)
             PROVE  Moved(d, f)
  OBVIOUS
<1>1. d.loads \in Nat /\ e.loads \in Nat /\ f.loads \in Nat
  BY EngineAssumption DEF Sound, EngineRecord
<1>2. Kept(d, e) /\ Kept(e, f) => Kept(d, f)
  BY DEF Kept
<1>3. Kept(e, f) => f.lib = e.lib /\ f.loads = e.loads
  BY DEF Kept
<1>4. QED  BY <1>1, <1>2, <1>3 DEF Moved

LEMMA SwitchedMoves ==
    \A e, c, f : Sound(e) /\ Sound(f) /\ Switched(e, c, f) => Moved(e, f)
<1> SUFFICES ASSUME NEW e, NEW c, NEW f, Sound(e), Sound(f), Switched(e, c, f)
             PROVE  Moved(e, f)
  OBVIOUS
<1>1. e.loads \in Nat /\ f.loads \in Nat
  BY EngineAssumption DEF Sound, EngineRecord
<1>2. CASE f = e  BY <1>1, <1>2 DEF Moved, Kept
<1>3. CASE f.lib = None /\ f.loads = e.loads  BY <1>1, <1>3 DEF Moved
<1>4. CASE f.loads = e.loads + 1  BY <1>1, <1>4 DEF Moved
<1>5. QED  BY <1>2, <1>3, <1>4 DEF Switched

LEMMA InstanceMoves ==
    \A e, f : Sound(e) /\ f \in getInstance(e) =>
        Sound(f) /\ Moved(e, f) /\ (e.constructed => f = e) /\ f.constructed
<1> SUFFICES ASSUME NEW e, NEW f, Sound(e), f \in getInstance(e)
             PROVE  Sound(f) /\ Moved(e, f) /\ (e.constructed => f = e) /\ f.constructed
  OBVIOUS
<1>1. Sound(f) /\ f.constructed  BY Instantiated
<1>2. CASE e.constructed
  <2>1. f = e  BY <1>2 DEF getInstance
  <2>2. Kept(e, f)  BY <2>1 DEF Kept
  <2>3. QED  BY <1>1, <2>1, <2>2, KeptMoves
<1>3. CASE ~e.constructed
  <2> DEFINE d == [e EXCEPT !.constructed = TRUE]
  <2>1. f \in loadBackend(d, 1)  BY <1>3 DEF getInstance
  <2>2. /\ d \in EngineRecord /\ d.constructed
        /\ d.lib = e.lib /\ d.backendHandle = e.backendHandle
        /\ d.deviceHandle = e.deviceHandle /\ d.logHandle = e.logHandle
        /\ d.graphCache = e.graphCache /\ d.contexts = e.contexts
        /\ d.loads = e.loads
        /\ d.currentBackendChoice = e.currentBackendChoice /\ d.crashed = e.crashed
    BY DEF Sound, EngineRecord
  <2> HIDE DEF d
  <2>3. Sound(d)
    BY <2>2 DEF Sound, HandlesOf, GraphsOf, ContextsOf, ValidContexts
  <2>4. Switched(d, 1, f)  BY <2>1, <2>2, <2>3, Loaded, EngineAssumption
  <2>5. Moved(d, f)  BY <1>1, <2>3, <2>4, SwitchedMoves
  <2>6. Moved(e, f)  BY <2>2, <2>5 DEF Moved, Kept
  <2>7. QED  BY <1>1, <1>3, <2>6
<1>4. QED  BY <1>2, <1>3

LEMMA GraphKept ==
    \A e, k, f : Sound(e) /\ e.constructed /\ k \in Key /\ f \in getOrCreateGraph(e, k) =>
        Sound(f) /\ Kept(e, f) /\ f.currentBackendChoice = e.currentBackendChoice
<1> SUFFICES ASSUME NEW e, NEW k, NEW f, Sound(e), e.constructed, k \in Key,
                    f \in getOrCreateGraph(e, k)
             PROVE  Sound(f) /\ Kept(e, f) /\ f.currentBackendChoice = e.currentBackendChoice
  OBVIOUS
<1>0. e \in EngineRecord  BY DEF Sound
<1>1. Sound(f)  BY GotGraph
<1>2. CASE k \in DOMAIN e.graphCache
  <2>1. f = e  BY <1>2 DEF getOrCreateGraph
  <2>2. QED  BY <1>1, <2>1 DEF Kept
<1>3. CASE k \notin DOMAIN e.graphCache /\ e.lib = None
  <2>1. f = [e EXCEPT !.crashed = TRUE]  BY <1>3 DEF getOrCreateGraph
  <2>2. /\ f.lib = e.lib /\ f.loads = e.loads /\ f.graphCache = e.graphCache
        /\ f.currentBackendChoice = e.currentBackendChoice
    BY <1>0, <2>1 DEF EngineRecord
  <2>3. QED  BY <1>1, <2>2 DEF Kept
<1>4. CASE k \notin DOMAIN e.graphCache /\ e.lib # None
  <2>1. PICK g \in Compiled(e, "engine", k) : f = WithGraph(e, k, g)
    BY <1>4 DEF getOrCreateGraph
  <2> DEFINE cache == Put(e.graphCache, k, g)
             contexts == IF g.isValid THEN e.contexts \cup {g.contextHandle} ELSE e.contexts
  <2>2. f = [e EXCEPT !.graphCache = cache, !.contexts = contexts]
    BY <1>0, <2>1 DEF WithGraph, EngineRecord
  <2>3. \A j \in DOMAIN e.graphCache : j \in DOMAIN cache /\ cache[j] = e.graphCache[j]
    BY <1>4 DEF Put
  <2> HIDE DEF cache, contexts
  <2>4. /\ f.lib = e.lib /\ f.loads = e.loads /\ f.graphCache = cache
        /\ f.currentBackendChoice = e.currentBackendChoice
    BY <1>0, <2>2 DEF EngineRecord
  <2>5. QED  BY <1>1, <2>3, <2>4 DEF Kept
<1>5. QED  BY <1>2, <1>3, <1>4

LEMMA DiagnosisKept ==
    \A e : Sound(e) =>
        LET f == performDiagnosticsIfNeeded(e) IN
        Sound(f) /\ Kept(e, f) /\ f.currentBackendChoice = e.currentBackendChoice
<1> SUFFICES ASSUME NEW e, Sound(e)
             PROVE  LET f == performDiagnosticsIfNeeded(e) IN
                    Sound(f) /\ Kept(e, f) /\ f.currentBackendChoice = e.currentBackendChoice
  OBVIOUS
<1> DEFINE d == [e EXCEPT !.diagnosticsPerformed = TRUE]
<1>1. performDiagnosticsIfNeeded(e) \in {e, d}  BY DEF performDiagnosticsIfNeeded
<1>2. /\ d.lib = e.lib /\ d.loads = e.loads /\ d.graphCache = e.graphCache
      /\ d.currentBackendChoice = e.currentBackendChoice
  BY DEF Sound, EngineRecord
<1> HIDE DEF d
<1>3. Kept(e, d) /\ Kept(e, e)  BY <1>2 DEF Kept
<1>4. QED  BY <1>1, <1>2, <1>3, Diagnosed

(* What one exported function does to the engine's library and cache. *)
Step(e, f) ==
    /\ Moved(e, f)
    /\ isLoaded(e) /\ f.currentBackendChoice = e.currentBackendChoice => Kept(e, f)

LEMMA LoadStep ==
    \A d, c, f, g :
        /\ Sound(d) /\ Sound(g) /\ c \in Choice /\ f \in UNION {loadBackend(e, c) : e \in getInstance(d)}
        /\ Kept(f, g) /\ g.currentBackendChoice = f.currentBackendChoice
        => Step(d, g)
<1> SUFFICES ASSUME NEW d, NEW c, NEW f, NEW g, Sound(d), Sound(g), c \in Choice,
                    f \in UNION {loadBackend(e, c) : e \in getInstance(d)},
                    Kept(f, g), g.currentBackendChoice = f.currentBackendChoice
             PROVE  Step(d, g)
  OBVIOUS
<1>1. PICK e \in getInstance(d) : f \in loadBackend(e, c)
  OBVIOUS
<1>2. Sound(e) /\ Moved(d, e) /\ (d.constructed => e = d) /\ e.constructed
  BY InstanceMoves
<1>3. Sound(f) /\ f.currentBackendChoice = c /\ Switched(e, c, f)
  BY <1>1, <1>2, Loaded
<1>4. Moved(e, f) /\ Moved(f, g)
  BY <1>2, <1>3, SwitchedMoves, KeptMoves
<1>5. Moved(d, g)
  BY <1>2, <1>3, <1>4, MovedIsTransitive
<1>6. ASSUME isLoaded(d), g.currentBackendChoice = d.currentBackendChoice  PROVE Kept(d, g)
  <2>1. d.constructed  BY <1>6 DEF isLoaded, Sound, HandlesOf
  <2>2. f = d  BY <1>2, <1>3, <1>6, <2>1 DEF Switched
  <2>3. QED  BY <2>2
<1>7. QED  BY <1>5, <1>6 DEF Step

LEMMA InstanceStep ==
    \A d, e, g :
        /\ Sound(d) /\ Sound(g) /\ e \in getInstance(d)
        /\ Kept(e, g) /\ g.currentBackendChoice = e.currentBackendChoice
        => Step(d, g)
<1> SUFFICES ASSUME NEW d, NEW e, NEW g, Sound(d), Sound(g), e \in getInstance(d),
                    Kept(e, g), g.currentBackendChoice = e.currentBackendChoice
             PROVE  Step(d, g)
  OBVIOUS
<1>1. Sound(e) /\ Moved(d, e) /\ (d.constructed => e = d)
  BY InstanceMoves
<1>2. Moved(d, g)
  BY <1>1, KeptMoves, MovedIsTransitive
<1>3. isLoaded(d) => d.constructed  BY DEF isLoaded, Sound, HandlesOf
<1>4. QED  BY <1>1, <1>2, <1>3 DEF Step

LEMMA EngineSteps == ASSUME EngineInv, EngineNext PROVE Step(engine, engine')
<1>0. Sound(engine)  BY DEF EngineInv
<1>1. Sound(engine')  BY StepInv DEF EngineInv
<1>2. ASSUME NEW f  PROVE Kept(f, f)  BY DEF Kept
<1>3. ASSUME NEW c \in Choice, set_backend_npu(c)  PROVE Step(engine, engine')
  <2>1. engine' \in UNION {loadBackend(e, c) : e \in getInstance(engine)}
    BY <1>3 DEF set_backend_npu
  <2>2. QED  BY <1>0, <1>1, <1>2, <2>1, LoadStep
<1>4. ASSUME NEW c \in Choice, initialize_npublas(c)  PROVE Step(engine, engine')
  <2>1. PICK f \in UNION {loadBackend(e, c) : e \in getInstance(engine)} :
           engine' = performDiagnosticsIfNeeded(f)
    BY <1>4 DEF initialize_npublas
  <2>2. Sound(f)  BY <1>0, <2>1, Instantiated, Loaded
  <2>3. Kept(f, engine') /\ engine'.currentBackendChoice = f.currentBackendChoice
    BY <2>1, <2>2, DiagnosisKept
  <2>4. QED  BY <1>0, <1>1, <2>1, <2>3, LoadStep
<1>5. CASE set_power_mode_npu \/ has_graph_npu
  <2>1. engine' \in getInstance(engine)  BY <1>5 DEF set_power_mode_npu, has_graph_npu
  <2>2. QED  BY <1>0, <1>1, <1>2, <2>1, InstanceStep
<1>6. ASSUME NEW k \in Key, prepare_matmul_npu(k)  PROVE Step(engine, engine')
  <2>1. PICK e \in getInstance(engine) : engine' \in getOrCreateGraph(e, k)
    BY <1>6 DEF prepare_matmul_npu
  <2>2. Sound(e) /\ e.constructed  BY <1>0, Instantiated
  <2>3. Kept(e, engine') /\ engine'.currentBackendChoice = e.currentBackendChoice
    BY <2>1, <2>2, GraphKept
  <2>4. QED  BY <1>0, <1>1, <2>3, InstanceStep
<1>7. ASSUME NEW k \in Key, NEW c \in Choice, matmul_npu(k, c)  PROVE Step(engine, engine')
  <2>1. PICK f \in UNION {loadBackend(e, c) : e \in getInstance(engine)} :
           engine' = f \/ engine' \in getOrCreateGraph(f, k)
    BY <1>7 DEF matmul_npu, Execute, Bypass
  <2>2. Sound(f) /\ f.constructed  BY <1>0, <2>1, Instantiated, Loaded
  <2>3. Kept(f, engine') /\ engine'.currentBackendChoice = f.currentBackendChoice
    BY <1>2, <2>1, <2>2, GraphKept
  <2>4. QED  BY <1>0, <1>1, <2>1, <2>3, LoadStep
<1>8. ASSUME NEW k \in Key, NEW c \in Choice, matmul_tiled_npu(k, c)  PROVE Step(engine, engine')
  <2> DEFINE More(f, g) == [f EXCEPT !.contexts = @ \cup ({g.contextHandle} \ {NoContext})]
  <2>1. PICK f \in UNION {loadBackend(e, c) : e \in getInstance(engine)} :
           engine' = f \/ \E g \in Compiled(f, "tiled", k) : engine' = More(f, g)
    BY <1>8 DEF matmul_tiled_npu, Execute, Bypass
  <2>2. Sound(f)  BY <1>0, <2>1, Instantiated, Loaded
  <2>3. ASSUME NEW g
        PROVE  LET h == More(f, g) IN
               /\ h.lib = f.lib /\ h.loads = f.loads /\ h.graphCache = f.graphCache
               /\ h.currentBackendChoice = f.currentBackendChoice
    BY <2>2 DEF Sound, EngineRecord
  <2> HIDE DEF More
  <2>4. Kept(f, engine') /\ engine'.currentBackendChoice = f.currentBackendChoice
    BY <1>2, <2>1, <2>3 DEF Kept
  <2>5. QED  BY <1>0, <1>1, <2>1, <2>4, LoadStep
<1>9. QED  BY <1>3, <1>4, <1>5, <1>6, <1>7, <1>8 DEF EngineNext

-----------------------------------------------------------------------------
(* The tiled cache outlives the library its graphs were compiled by; what  *)
(* that costs is delimited here.                                           *)

(* A valid tiled graph was compiled by a library opened so far, and, if by *)
(* the latest, by the open one.                                            *)
TiledGraphsOf(e, graphs) ==
    \A k \in DOMAIN graphs : graphs[k].isValid =>
        LET library == graphs[k].contextHandle.lib IN
        /\ library \in Instance
        /\ library.id <= e.loads
        /\ e.lib # None /\ library.id = e.loads => library = e.lib

(* As long as no second library has been opened, a tiled product runs on   *)
(* the library its graph was compiled by.                                  *)
TiledSafeWithOneLibrary == engine.loads <= 1 => TiledRunsOnActiveBackend

TiledInv == TiledGraphsOf(engine, tiled) /\ TiledSafeWithOneLibrary

(* An engine that moves on to another library meets no graph of that one:  *)
(* its number is larger than those of all libraries before.                *)
LEMMA TiledGraphsMove ==
    \A e, f, graphs : Sound(e) /\ Sound(f) /\ Moved(e, f) /\ TiledGraphsOf(e, graphs) =>
        TiledGraphsOf(f, graphs)
<1> SUFFICES ASSUME NEW e, NEW f, NEW graphs, Sound(e), Sound(f), Moved(e, f),
                    TiledGraphsOf(e, graphs),
                    NEW k \in DOMAIN graphs, graphs[k].isValid
             PROVE  LET library == graphs[k].contextHandle.lib IN
                    /\ library \in Instance
                    /\ library.id <= f.loads
                    /\ f.lib # None /\ library.id = f.loads => library = f.lib
  BY DEF TiledGraphsOf
<1>1. PICK library : library = graphs[k].contextHandle.lib
  OBVIOUS
<1>2. /\ library \in Instance /\ library.id <= e.loads
      /\ e.lib # None /\ library.id = e.loads => library = e.lib
  BY <1>1 DEF TiledGraphsOf
<1>3. library.id \in Nat /\ e.loads \in Nat /\ f.loads \in Nat
  BY <1>2, EngineAssumption DEF Instance, Sound, EngineRecord
<1>4. f.loads >= e.loads /\ (Kept(e, f) \/ f.lib = None \/ f.loads > e.loads)
  BY DEF Moved
<1>5. Kept(e, f) => f.lib = e.lib /\ f.loads = e.loads
  BY DEF Kept
<1>6. QED  BY <1>1, <1>2, <1>3, <1>4, <1>5

(* With one library opened at most, a valid tiled graph is that library's. *)
LEMMA TiledRun ==
    \A f, graph :
        /\ Sound(f) /\ isLoaded(f)
        /\ graph.isValid => /\ graph.contextHandle.lib \in Instance
                            /\ graph.contextHandle.lib.id <= f.loads
                            /\ graph.contextHandle.lib.id = f.loads => graph.contextHandle.lib = f.lib
        /\ f.loads <= 1 /\ graph.isValid
        => graph.contextHandle.lib = f.lib
<1> SUFFICES ASSUME NEW f, NEW graph, Sound(f), isLoaded(f), f.loads <= 1,
                    graph.contextHandle.lib \in Instance,
                    graph.contextHandle.lib.id <= f.loads,
                    graph.contextHandle.lib.id = f.loads => graph.contextHandle.lib = f.lib
             PROVE  graph.contextHandle.lib = f.lib
  OBVIOUS
<1>1. graph.contextHandle.lib.id \in 1 .. MaxLoads /\ f.loads \in Nat
  BY EngineAssumption DEF Instance, Sound, EngineRecord
<1>2. QED  BY <1>1, EngineAssumption

LEMMA TiledStep ==
    ASSUME EngineInv, TiledInv, EngineNext PROVE TiledInv'
<1>0. Sound(engine) /\ Sound(engine')
  BY StepInv DEF EngineInv
<1>1. Moved(engine, engine')
  BY EngineSteps DEF Step
<1>2. TiledGraphsOf(engine', tiled)
  BY <1>0, <1>1, TiledGraphsMove DEF TiledInv
<1>3. engine.loads \in Nat /\ engine'.loads \in Nat /\ engine'.loads >= engine.loads
  BY <1>0, <1>1, EngineAssumption DEF Moved, Sound, EngineRecord
<1>4. CASE UNCHANGED <<tiled, ran>>
  BY <1>2, <1>3, <1>4 DEF TiledInv, TiledSafeWithOneLibrary, TiledRunsOnActiveBackend
<1>5. ASSUME NEW k \in Key, NEW c \in Choice, matmul_npu(k, c)  PROVE TiledInv'
  <2>1. tiled' = tiled /\ ran'.path # "tiled"
    BY <1>5 DEF matmul_npu, Execute, Bypass
  <2>2. QED  BY <1>2, <2>1 DEF TiledInv, TiledSafeWithOneLibrary, TiledRunsOnActiveBackend
<1>6. ASSUME NEW k \in Key, NEW c \in Choice, matmul_tiled_npu(k, c)  PROVE TiledInv'
  <2> DEFINE Cached(f) == /\ isLoaded(f) /\ k \in DOMAIN tiled
                          /\ Execute("tiled", c, tiled[k], f)
                          /\ UNCHANGED tiled
             More(f, g) == [f EXCEPT !.contexts = @ \cup ({g.contextHandle} \ {NoContext})]
             New(f) == /\ isLoaded(f) /\ k \notin DOMAIN tiled
                       /\ \E g \in Compiled(f, "tiled", k) :
                             /\ tiled' = Put(tiled, k, g)
                             /\ Execute("tiled", c, g, More(f, g))
             Without(f) == ~isLoaded(f) /\ Bypass("skipped", c, f) /\ UNCHANGED tiled
  <2>1. PICK e \in getInstance(engine) : \E f \in loadBackend(e, c) : Cached(f) \/ New(f) \/ Without(f)
    BY <1>6 DEF matmul_tiled_npu
  <2>2. PICK f \in loadBackend(e, c) : Cached(f) \/ New(f) \/ Without(f)
    BY <2>1
  <2>3. Sound(f)
    BY <1>0, <2>1, <2>2, Instantiated, Loaded
  <2>4. isLoaded(f) => f.lib \in Instance /\ f.lib.id = f.loads /\ f.lib # None
    BY <2>3, NoneIsNoInstance DEF isLoaded, Sound, HandlesOf, EngineRecord, Handle
  <2>5. CASE Cached(f)
    <3>1. /\ engine' = f /\ tiled' = tiled
          /\ ran'.path = "tiled" => tiled[k].isValid
          /\ ran'.graph = tiled[k] /\ ran'.on = f.lib
      BY <2>5 DEF Execute
    <3>2. tiled[k].isValid =>
             /\ tiled[k].contextHandle.lib \in Instance
             /\ tiled[k].contextHandle.lib.id <= f.loads
             /\ tiled[k].contextHandle.lib.id = f.loads => tiled[k].contextHandle.lib = f.lib
      BY <1>2, <2>4, <2>5, <3>1 DEF TiledGraphsOf
    <3>3. f.loads <= 1 /\ tiled[k].isValid => tiled[k].contextHandle.lib = f.lib
      BY <2>3, <2>5, <3>2, TiledRun
    <3>4. TiledSafeWithOneLibrary'
      BY <3>1, <3>3 DEF TiledSafeWithOneLibrary, TiledRunsOnActiveBackend
    <3>5. QED  BY <1>2, <3>1, <3>4 DEF TiledInv
  <2>6. CASE New(f)
    <3>1. PICK g \in Compiled(f, "tiled", k) :
             tiled' = Put(tiled, k, g) /\ Execute("tiled", c, g, More(f, g))
      BY <2>6
    <3>2. g.isValid => g.contextHandle = [lib |-> f.lib, owner |-> "tiled", key |-> k]
      BY <2>3, CompiledGraphs
    <3>3. /\ engine'.lib = f.lib /\ engine'.loads = f.loads
          /\ ran'.path = "tiled" => g.isValid
          /\ ran'.graph = g /\ ran'.on = f.lib
      BY <2>3, <3>1 DEF Execute, Sound, EngineRecord
    <3>4. /\ DOMAIN tiled' = DOMAIN tiled \cup {k}
          /\ tiled'[k] = g
          /\ \A j \in DOMAIN tiled : tiled'[j] = tiled[j]
      BY <2>6, <3>1 DEF Put
    <3>5. f.loads <= f.loads  BY <1>3, <3>3
    <3>6. TiledGraphsOf(engine', tiled')
      <4> SUFFICES ASSUME NEW j \in DOMAIN tiled', tiled'[j].isValid
                   PROVE  LET library == tiled'[j].contextHandle.lib IN
                          /\ library \in Instance
                          /\ library.id <= engine'.loads
                          /\ engine'.lib # None /\ library.id = engine'.loads => library = engine'.lib
        BY DEF TiledGraphsOf
      <4>1. CASE j = k
        <5>1. tiled'[j].contextHandle.lib = f.lib  BY <3>2, <3>4, <4>1
        <5>2. QED  BY <2>4, <2>6, <3>3, <3>5, <5>1
      <4>2. CASE j \in DOMAIN tiled /\ j # k
        BY <1>2, <3>4, <4>2 DEF TiledGraphsOf
      <4>3. QED  BY <3>4, <4>1, <4>2
    <3>7. TiledRunsOnActiveBackend'
      BY <3>2, <3>3 DEF TiledRunsOnActiveBackend
    <3>8. QED  BY <3>6, <3>7 DEF TiledInv, TiledSafeWithOneLibrary
  <2>7. CASE Without(f)
    <3>1. tiled' = tiled /\ ran'.path # "tiled"
      BY <2>7 DEF Bypass
    <3>2. QED  BY <1>2, <3>1 DEF TiledInv, TiledSafeWithOneLibrary, TiledRunsOnActiveBackend
  <2>8. QED  BY <2>2, <2>5, <2>6, <2>7
<1>7. QED
  BY <1>4, <1>5, <1>6 DEF EngineNext, set_backend_npu, initialize_npublas, set_power_mode_npu,
     has_graph_npu, prepare_matmul_npu

(* Where the tiled cache is harmless: until a second library is opened, by *)
(* a switch of backends or a reload, every tiled product runs on the       *)
(* library that compiled its graph (pipeline.h 60-66, 182, 209).  The      *)
(* property itself fails, from the second library on.                      *)
THEOREM OneLibraryIsSafe == EngineSpec => []TiledSafeWithOneLibrary
<1>1. EngineInit => TiledInv
  BY DEF EngineInit, TiledInv, TiledGraphsOf, TiledSafeWithOneLibrary, TiledRunsOnActiveBackend, NoGraphs
<1>2. EngineInv /\ TiledInv /\ [EngineNext]_engineVars => TiledInv'
  <2>1. CASE EngineNext  BY <2>1, TiledStep
  <2>2. CASE UNCHANGED engineVars
    BY <2>2 DEF engineVars, TiledInv, TiledSafeWithOneLibrary, TiledRunsOnActiveBackend
  <2>3. QED  BY <2>1, <2>2
<1>3. EngineSpec => []TiledInv
  BY <1>1, <1>2, EngineInvariance, PTL DEF EngineSpec
<1>4. TiledInv => TiledSafeWithOneLibrary  BY DEF TiledInv
<1>5. QED  BY <1>3, <1>4, PTL

-----------------------------------------------------------------------------
(* The package's own state. *)
SettingsInv ==
    /\ default_backend_choice \in Choice
    /\ global_splits \in GlobalSplits \cup {NoSplits}

LEMMA SettingsInvariance == Spec => []SettingsInv
<1>1. Init => SettingsInv
  BY EngineAssumption DEF Init, SettingsInv
<1>2. SettingsInv /\ [Next]_vars => SettingsInv'
  BY DEF SettingsInv, Next, vars, import_package, set_backend, set_splits, set_power_mode,
         prepare_matmul, matmul_patch
<1>3. QED  BY <1>1, <1>2, PTL DEF Spec

LEMMA PackageStep ==
    ASSUME SettingsInv, EngineInv, [Next]_vars  PROVE [EngineNext]_engineVars
<1>1. CASE import_package
  <2>1. Running  BY <1>1 DEF import_package, EngineInv, Sound, Running
  <2>2. QED  BY <1>1, <2>1 DEF import_package, SettingsInv, EngineNext
<1>2. ASSUME NEW c \in Choice, set_backend(c)  PROVE EngineNext
  BY <1>2 DEF set_backend, Imported, EngineNext
<1>3. ASSUME NEW g \in GlobalSplits, set_splits(g)  PROVE UNCHANGED engineVars
  BY <1>3 DEF set_splits
<1>4. CASE set_power_mode
  BY <1>4 DEF set_power_mode, Imported, EngineNext
<1>5. ASSUME NEW s \in Shape, prepare_matmul(s)  PROVE [EngineNext]_engineVars
  <2>1. GraphToPrepare(s) \in Key
    BY KeyAssumption DEF SettingsInv, GraphToPrepare, PreparedShape, PaddedShape
  <2>2. QED  BY <1>5, <2>1 DEF prepare_matmul, Imported, EngineNext
<1>6. ASSUME NEW s \in Shape, NEW c \in Choice, matmul_patch(s, c)  PROVE EngineNext
  <2> DEFINE p == PaddedShape(s)
             b == Block(p, Splits(p, global_splits))
  <2>1. (IF NeedsTiling(p) THEN b ELSE p) \in Key
    BY KeyAssumption DEF SettingsInv, GraphFor
  <2>2. Running /\ IF NeedsTiling(p) THEN matmul_tiled_npu(b, c) ELSE matmul_npu(p, c)
    BY <1>6 DEF matmul_patch, Imported
  <2> HIDE DEF p, b
  <2>3. QED  BY <2>1, <2>2 DEF EngineNext
<1>7. CASE UNCHANGED vars
  BY <1>7 DEF vars, engineVars
<1>8. QED
  <2>1. SettingsInv => default_backend_choice \in Choice  BY DEF SettingsInv
  <2>2. QED  BY <1>1, <1>2, <1>3, <1>4, <1>5, <1>6, <1>7, <2>1 DEF Next

(* The package reaches the engine only through the functions npublas.cpp   *)
(* exports, one at a time: it implements EngineSpec, and every theorem     *)
(* about EngineSpec holds of it (__init__.py 14-40, 156-181).              *)
THEOREM PackageImplementsEngine == Spec => EngineSpec
<1>1. Init => EngineInit  BY DEF Init
<1>2. Init => EngineInv  BY InitInv DEF Init
<1>3. SettingsInv /\ EngineInv /\ [Next]_vars => EngineInv' /\ [EngineNext]_engineVars
  BY PackageStep, StepInv
<1>4. QED  BY <1>1, <1>2, <1>3, SettingsInvariance, PTL DEF Spec, EngineSpec

LEMMA PackageInv == Spec => [](SettingsInv /\ EngineInv)
BY PackageImplementsEngine, EngineInvariance, SettingsInvariance, PTL

(* Work compiled for the backend in use is never lost: only a call that    *)
(* changes the backend closes the library or drops a graph (loadBackend,   *)
(* execution.h 129-133).                                                   *)
THEOREM CompiledWorkKept == Spec => CompiledWorkIsKept
<1> DEFINE A == isLoaded(engine) /\ engine'.currentBackendChoice = engine.currentBackendChoice =>
                   /\ engine'.lib = engine.lib
                   /\ \A k \in DOMAIN engine.graphCache :
                         /\ hasGraph(engine', k)
                         /\ engine'.graphCache[k] = engine.graphCache[k]
<1>1. ASSUME SettingsInv, EngineInv, [Next]_vars  PROVE A
  <2>1. CASE EngineNext
    <3>1. Step(engine, engine')  BY <1>1, <2>1, EngineSteps
    <3>2. QED  BY <3>1 DEF Step, Kept, hasGraph
  <2>2. CASE UNCHANGED engineVars
    BY <2>2 DEF engineVars, hasGraph
  <2>3. QED  BY <1>1, <2>1, <2>2, PackageStep
<1>2. SettingsInv /\ EngineInv /\ [Next]_vars => [A]_vars
  BY <1>1
<1>3. QED  BY <1>2, PackageInv, PTL DEF Spec, CompiledWorkIsKept

(* A shape's library is one of those opened so far, and while it is the    *)
(* open one the graph of a direct product is there, compiled.              *)
PreparedInv ==
    /\ DOMAIN prepared \subseteq Shape
    /\ prepared \in [DOMAIN prepared -> Instance]
    /\ \A s \in DOMAIN prepared : prepared[s].id <= engine.loads
    /\ PreparedDirectIsCached

LEMMA PreparedStays ==
    ASSUME SettingsInv, EngineInv, EngineInv', PreparedInv, Step(engine, engine'),
           prepared' = prepared
    PROVE  PreparedInv'
<1>0. Sound(engine) /\ Sound(engine')  BY DEF EngineInv
<1>1. engine.loads \in Nat /\ engine'.loads \in Nat /\ engine'.loads >= engine.loads
  BY <1>0, EngineAssumption DEF Sound, EngineRecord, Step, Moved
<1>2. ASSUME NEW s \in DOMAIN prepared
      PROVE  prepared[s].id \in Nat /\ prepared[s] # None /\ prepared[s].id <= engine.loads
  BY NoneIsNoInstance, EngineAssumption DEF PreparedInv, Instance
<1>3. \A s \in DOMAIN prepared : prepared[s].id <= engine'.loads
  BY <1>1, <1>2
<1>4. ASSUME NEW s \in DOMAIN prepared, prepared[s] = engine'.lib  PROVE Kept(engine, engine')
  <2>1. engine'.lib # None  BY <1>2, <1>4
  <2>2. engine'.lib.id = engine'.loads  BY <1>0, <2>1 DEF Sound
  <2>3. ~(engine'.loads > engine.loads)  BY <1>1, <1>2, <1>4, <2>2
  <2>4. QED  BY <2>1, <2>3 DEF Step, Moved
<1>5. PreparedDirectIsCached'
  <2> SUFFICES ASSUME NEW s \in Shape, s \in DOMAIN prepared, prepared[s] = engine'.lib,
                      ~NeedsTiling(PaddedShape(s))
               PROVE  /\ hasGraph(engine', PaddedShape(s))
                      /\ engine'.graphCache[PaddedShape(s)].isValid
    BY DEF PreparedDirectIsCached, StillPrepared
  <2>1. Kept(engine, engine')  BY <1>4
  <2>2. prepared[s] = engine.lib  BY <2>1 DEF Kept
  <2>3. hasGraph(engine, PaddedShape(s)) /\ engine.graphCache[PaddedShape(s)].isValid
    BY <2>2 DEF PreparedInv, PreparedDirectIsCached, StillPrepared
  <2>4. QED  BY <2>1, <2>3 DEF Kept, hasGraph
<1>6. QED  BY <1>3, <1>5 DEF PreparedInv

LEMMA PreparedStep ==
    ASSUME SettingsInv, EngineInv, EngineInv', PreparedInv, [Next]_vars  PROVE PreparedInv'
<1>1. Sound(engine) /\ Sound(engine')  BY DEF EngineInv
<1>2. Step(engine, engine')
  <2>1. CASE EngineNext  BY <2>1, EngineSteps
  <2>2. CASE UNCHANGED engineVars
    <3>1. Kept(engine, engine')  BY <2>2 DEF engineVars, Kept
    <3>2. QED  BY <1>1, <3>1, KeptMoves DEF Step
  <2>3. QED  BY <2>1, <2>2, PackageStep
<1>3. CASE prepared' = prepared
  BY <1>2, <1>3, PreparedStays
<1>4. ASSUME NEW s \in Shape, prepare_matmul(s), prepared' # prepared  PROVE PreparedInv'
  <2> DEFINE key == GraphToPrepare(s)
  <2>1. /\ hasGraph(engine', key) /\ engine'.graphCache[key].isValid
        /\ prepared' = Put(prepared, s, engine'.lib)
    BY <1>4 DEF prepare_matmul
  <2>2. engine'.lib \in Instance /\ engine'.lib.id = engine'.loads /\ engine'.loads \in Nat
    BY <1>1, <2>1, EngineAssumption DEF Sound, GraphsOf, EngineRecord, Handle, hasGraph
  <2>3. ~NeedsTiling(PaddedShape(s)) => key = PaddedShape(s)
    BY DEF GraphToPrepare, GraphFor, PreparedShape, PaddedShape
  <2> HIDE DEF key
  <2>4. /\ DOMAIN prepared' = DOMAIN prepared \cup {s}
        /\ \A t \in DOMAIN prepared' :
              prepared'[t] = IF t = s THEN engine'.lib ELSE prepared[t]
        /\ prepared' = [t \in DOMAIN prepared \cup {s} |-> prepared'[t]]
    BY <2>1 DEF Put
  <2>5. prepared' \in [DOMAIN prepared' -> Instance] /\ DOMAIN prepared' \subseteq Shape
    BY <2>2, <2>4 DEF PreparedInv
  <2>6. ASSUME NEW t \in DOMAIN prepared, t # s
        PROVE  /\ prepared[t].id <= engine'.loads
               /\ prepared[t] = engine'.lib /\ ~NeedsTiling(PaddedShape(t)) =>
                     /\ hasGraph(engine', PaddedShape(t))
                     /\ engine'.graphCache[PaddedShape(t)].isValid
    <3>1. prepared[t].id \in Nat /\ prepared[t] # None /\ prepared[t].id <= engine.loads
      BY NoneIsNoInstance, EngineAssumption DEF PreparedInv, Instance
    <3>2. engine.loads \in Nat /\ engine'.loads \in Nat /\ engine'.loads >= engine.loads
      BY <1>1, <1>2, EngineAssumption DEF Sound, EngineRecord, Step, Moved
    <3>3. prepared[t] = engine'.lib => Kept(engine, engine')
      BY <1>2, <2>2, <3>1, <3>2 DEF Step, Moved
    <3>4. prepared[t] = engine.lib /\ ~NeedsTiling(PaddedShape(t)) =>
             /\ hasGraph(engine, PaddedShape(t))
             /\ engine.graphCache[PaddedShape(t)].isValid
      BY DEF PreparedInv, PreparedDirectIsCached, StillPrepared
    <3>5. QED  BY <3>1, <3>2, <3>3, <3>4 DEF Kept, hasGraph
  <2>7. \A t \in DOMAIN prepared' : prepared'[t].id <= engine'.loads
    BY <2>2, <2>4, <2>6
  <2>8. PreparedDirectIsCached'
    BY <2>1, <2>3, <2>4, <2>6 DEF PreparedDirectIsCached, StillPrepared
  <2>9. QED  BY <2>5, <2>7, <2>8 DEF PreparedInv
<1>5. prepared' # prepared => \E s \in Shape : prepare_matmul(s)
  BY DEF Next, vars, import_package, set_backend, set_splits, set_power_mode, matmul_patch
<1>6. QED  BY <1>3, <1>4, <1>5

LEMMA PreparedInvariance == Spec => []PreparedInv
<1>1. Init => PreparedInv
  BY DEF Init, PreparedInv, PreparedDirectIsCached, StillPrepared
<1>2. SettingsInv /\ EngineInv /\ EngineInv' /\ PreparedInv /\ [Next]_vars => PreparedInv'
  BY PreparedStep
<1>3. QED  BY <1>1, <1>2, PackageInv, PTL DEF Spec

(* As long as the library a shape was prepared on stays open, its direct   *)
(* product finds its graph, whatever else the program does meanwhile       *)
(* (__init__.py 74-76, 161-163).                                           *)
THEOREM PreparedStaysCached == Spec => []PreparedDirectIsCached
<1>1. PreparedInv => PreparedDirectIsCached  BY DEF PreparedInv
<1>2. QED  BY <1>1, PreparedInvariance, PTL

(* The package's variables and the engine's record keep their types: the   *)
(* default backend is one that can be chosen, and a shape is only ever     *)
(* prepared on a library instance that was opened (__init__.py 10-40).     *)
THEOREM PackageTypeCorrect == Spec => []TypeOK
<1>1. EngineTypeOK /\ SettingsInv /\ PreparedInv => TypeOK
  BY DEF SettingsInv, PreparedInv, TypeOK
<1>2. QED
  BY <1>1, PackageImplementsEngine, EngineTypeCorrect, SettingsInvariance, PreparedInvariance, PTL

=============================================================================
