--------------------------- MODULE DirectProduct ---------------------------
(***************************************************************************)
(* One product on the direct path, buffer by buffer: the QNN branch of     *)
(* matmul_int8 (tflite_manager.h), the tensors of a cached graph and       *)
(* QnnHtaExecutionEngine::execute (utils/execution.h) with and without     *)
(* USE_STATIC_WEIGHTS, which every call reads from the environment again.  *)
(*                                                                         *)
(* One backend is loaded; ExecutionEngine has the switches between them.   *)
(* A buffer is named after its variable and the call that allocated it.    *)
(* What it holds is named after the calls whose operands went into it:     *)
(* left and right say of which call the left and the right factor are.     *)
(* The vendor library reads and writes buffers through the pointers it is  *)
(* handed.  Sizes are left out.                                            *)
(***************************************************************************)
EXTENDS Integers, FiniteSets, Functions

CONSTANTS
    Shape,     \* the shapes of the products
    MaxCalls   \* bound on the number of products

ASSUME DirectProductAssumption == MaxCalls \in Nat

Placeholder == -1   \* N * K bytes 127: the weights of a graph compiled ahead
Datum == [left : 0 .. MaxCalls, right : Placeholder .. MaxCalls]
Nothing == [left |-> 0, right |-> 0]

Name == {"fixed_A", "fixed_B", "u_A", "u_B", "out_buf"}
Buffer == [name : Name, call : 1 .. MaxCalls]
Null == [name |-> "null", call |-> 0]

VARIABLES
    useStaticWeights,  \* the environment variable
    graphCache,        \* the engine's, by shape
    memory,            \* what the buffers allocated from the scratchpad hold
    residue,           \* what memory that was never in use, or is free again, may hold
    contexts,          \* temporary contexts: the weights compiled into their graphs
    call,              \* the product being computed
    ran                \* the last graphExecute

vars == <<useStaticWeights, graphCache, memory, residue, contexts, call, ran>>

Graph == [isValid : BOOLEAN, typeB : {"STATIC", "APP_WRITE"},
          A : Buffer \cup {Null}, B : Buffer \cup {Null}, C : Buffer \cup {Null}]

TypeOK ==
    /\ useStaticWeights \in BOOLEAN
    /\ DOMAIN graphCache \subseteq Shape
    /\ graphCache \in [DOMAIN graphCache -> Graph]
    /\ DOMAIN memory \subseteq Buffer
    /\ memory \in [DOMAIN memory -> Datum]
    /\ residue \subseteq Datum
    /\ DOMAIN contexts \subseteq 1 .. MaxCalls
    /\ contexts \in [DOMAIN contexts -> Placeholder .. MaxCalls]
    /\ call \in [no : 0 .. MaxCalls, shape : Shape,
                 pc : {"idle", "quantise", "execute", "temporary", "free", "dequantise"},
                 returned : Datum]
    /\ ran \in [call : 0 .. MaxCalls, graph : {"none", "cached", "temporary"},
                buffers : SUBSET (Buffer \cup {Null}), ok : BOOLEAN]

Init ==
    /\ useStaticWeights \in BOOLEAN
    /\ graphCache = [s \in {} |-> Null]
    /\ memory = [b \in {} |-> Nothing]
    /\ residue = {Nothing}
    /\ contexts = [n \in {} |-> 0]
    /\ call \in [no : {0}, shape : Shape, pc : {"idle"}, returned : {Nothing}]
    /\ ran = [call |-> 0, graph |-> "none", buffers |-> {}, ok |-> FALSE]

Idle == call.pc = "idle"
Buf(name) == [name |-> name, call |-> call.no]

(* A program sets the variable between two calls. *)
SetEnvironment ==
    /\ Idle
    /\ useStaticWeights' = ~useStaticWeights
    /\ UNCHANGED <<graphCache, memory, residue, contexts, call, ran>>

(* getOrCreateGraph, whose callers pass no weights: a graph compiled with  *)
(* static weights holds placeholders.                                      *)
getOrCreateGraph(s) ==
    IF s \in DOMAIN graphCache THEN {graphCache}
    ELSE {[t \in DOMAIN graphCache \cup {s} |->
              IF t # s THEN graphCache[t]
              ELSE [isValid |-> v,
                    typeB |-> IF useStaticWeights THEN "STATIC" ELSE "APP_WRITE",
                    A |-> Null, B |-> Null, C |-> Null]] : v \in BOOLEAN}

prepare_matmul_npu(s) ==
    /\ Idle
    /\ graphCache' \in getOrCreateGraph(s)
    /\ UNCHANGED <<useStaticWeights, memory, residue, contexts, call, ran>>

(* matmul_int8: without a valid graph the output stays as it was.          *)
matmul_int8(s) ==
    /\ Idle
    /\ call.no < MaxCalls
    /\ graphCache' \in getOrCreateGraph(s)
    /\ call' = [no |-> call.no + 1, shape |-> s, returned |-> Nothing,
                pc |-> IF graphCache'[s].isValid THEN "quantise" ELSE "idle"]
    /\ UNCHANGED <<useStaticWeights, memory, residue, contexts, ran>>

Step(from, to) == call.pc = from /\ call' = [call EXCEPT !.pc = to]

(* The operands as integers, as bytes, and room for the product, which is  *)
(* not cleared: it holds what its memory held.                             *)
Own == {Buf(name) : name \in Name}

Filled(name, stale) ==
    CASE name \in {"fixed_A", "u_A"} -> [left |-> call.no, right |-> 0]
      [] name \in {"fixed_B", "u_B"} -> [left |-> 0, right |-> call.no]
      [] OTHER -> stale

Quantise ==
    /\ Step("quantise", "execute")
    /\ \E stale \in residue :
          memory' = [b \in DOMAIN memory \cup Own |->
                        IF b \in Own THEN Filled(b.name, stale) ELSE memory[b]]
    /\ UNCHANGED <<useStaticWeights, graphCache, residue, contexts, ran>>

-----------------------------------------------------------------------------
(* What the vendor library may find where a pointer points. *)
Seen(p) == IF p \in DOMAIN memory THEN {memory[p]} ELSE residue

(* graphExecute multiplies what it finds at a by one of the weights and    *)
(* writes the product to c, or fails and writes nothing, which is only     *)
(* logged.                                                                 *)
graphExecute(graph, buffers, a, weights, c) ==
    \/ /\ \E l \in Seen(a), w \in weights :
             memory' = [b \in DOMAIN memory |->
                           IF b = c THEN [left |-> l.left, right |-> w] ELSE memory[b]]
       /\ ran' = [call |-> call.no, graph |-> graph, buffers |-> buffers, ok |-> TRUE]
    \/ /\ UNCHANGED memory
       /\ ran' = [call |-> call.no, graph |-> graph, buffers |-> buffers, ok |-> FALSE]

(* The weights of a cached graph: what its B points to; of one compiled    *)
(* with static weights the library may use the compiled ones instead.      *)
WeightsOf(g) ==
    {d.right : d \in Seen(g.B)} \cup (IF g.typeB = "STATIC" THEN {Placeholder} ELSE {})

(* Wrong on purpose: the pointers are set the first time only. *)
ExecuteWithFirst ==
    LET g == graphCache[call.shape]
        Kept(p, name) == IF p = Null THEN Buf(name) ELSE p
        h == [g EXCEPT !.A = Kept(@, "u_A"), !.B = Kept(@, "u_B"), !.C = Kept(@, "out_buf")]
    IN  /\ ~useStaticWeights
        /\ Step("execute", "free")
        /\ graphCache' = [graphCache EXCEPT ![call.shape] = h]
        /\ graphExecute("cached", {h.A, h.B, h.C}, h.A, WeightsOf(h), h.C)
        /\ UNCHANGED <<useStaticWeights, residue, contexts>>

(* execute, dynamic weights: the cached graph is given this call's         *)
(* buffers, which it keeps.                                                *)
ExecuteDynamic ==
    LET g == [graphCache[call.shape] EXCEPT !.A = Buf("u_A"), !.B = Buf("u_B"), !.C = Buf("out_buf")]
    IN  /\ ~useStaticWeights
        /\ Step("execute", "free")
        /\ graphCache' = [graphCache EXCEPT ![call.shape] = g]
        /\ graphExecute("cached", {g.A, g.B, g.C}, g.A, WeightsOf(g), g.C)
        /\ UNCHANGED <<useStaticWeights, residue, contexts>>

Compiled(weights) ==
    [n \in DOMAIN contexts \cup {call.no} |-> IF n = call.no THEN weights ELSE contexts[n]]

(* Wrong on purpose: the weights are taken from where the cached graph     *)
(* points, not from the argument.                                          *)
CompileFromCached ==
    /\ useStaticWeights
    /\ Step("execute", "temporary")
    /\ \/ UNCHANGED contexts
       \/ \E d \in Seen(graphCache[call.shape].B) : contexts' = Compiled(d.right)
    /\ UNCHANGED <<useStaticWeights, graphCache, memory, residue, ran>>

(* execute, static weights: a graph into which this call's weights are     *)
(* copied, in a context of its own, which contextCreate may fail to make.  *)
(* Nobody looks at what compiling it returned.                             *)
CompileTemporary ==
    /\ useStaticWeights
    /\ Step("execute", "temporary")
    /\ \/ UNCHANGED contexts
       \/ \E d \in Seen(Buf("u_B")) : contexts' = Compiled(d.right)
    /\ UNCHANGED <<useStaticWeights, graphCache, memory, residue, ran>>

(* Wrong on purpose: the temporary context is kept. *)
ExecuteKeeping ==
    /\ Step("temporary", "free")
    /\ graphExecute("temporary", {Buf("u_A"), Buf("out_buf")}, Buf("u_A"),
                    {contexts[n] : n \in DOMAIN contexts \cap {call.no}}, Buf("out_buf"))
    /\ UNCHANGED <<useStaticWeights, graphCache, residue, contexts>>

(* Without its context there is no graph and the execution fails. *)
ExecuteTemporary ==
    /\ Step("temporary", "free")
    /\ graphExecute("temporary", {Buf("u_A"), Buf("out_buf")}, Buf("u_A"),
                    {contexts[n] : n \in DOMAIN contexts \cap {call.no}}, Buf("out_buf"))
    /\ contexts' = Restrict(contexts, DOMAIN contexts \ {call.no})
    /\ UNCHANGED <<useStaticWeights, graphCache, residue>>

-----------------------------------------------------------------------------
Free(buffers) ==
    /\ memory' = Restrict(memory, DOMAIN memory \ buffers)
    /\ residue' = residue \cup {memory[b] : b \in buffers \cap DOMAIN memory}

FreeInputs ==
    /\ Step("free", "dequantise")
    /\ Free({Buf("u_A"), Buf("u_B")})
    /\ UNCHANGED <<useStaticWeights, graphCache, contexts, ran>>

(* What is in the output buffer is scaled into C whatever graphExecute     *)
(* returned; the blocks go out of scope.                                   *)
Dequantise ==
    /\ call.pc = "dequantise"
    /\ \E d \in Seen(Buf("out_buf")) : call' = [call EXCEPT !.pc = "idle", !.returned = d]
    /\ Free({Buf("out_buf"), Buf("fixed_A"), Buf("fixed_B")})
    /\ UNCHANGED <<useStaticWeights, graphCache, contexts, ran>>

Next ==
    \/ SetEnvironment
    \/ \E s \in Shape : prepare_matmul_npu(s)
    \/ \E s \in Shape : matmul_int8(s)
    \/ Quantise
    \/ ExecuteDynamic
    \/ CompileTemporary
    \/ ExecuteTemporary
    \/ FreeInputs
    \/ Dequantise

Spec == Init /\ [][Next]_vars

-----------------------------------------------------------------------------
(* Properties. *)

(* A cached graph keeps the addresses of the last call's buffers, which    *)
(* are free by the next; still every buffer graphExecute is given is       *)
(* allocated when it runs (execution.h 615-633).                           *)
BuffersAreLive == [][ran' # ran => ran'.buffers \subseteq DOMAIN memory]_vars

(* A product whose graphExecute succeeded is that of its own operands,     *)
(* with no factor of an earlier call, although graphs keep pointers to     *)
(* earlier buffers and the output buffer starts with what its memory held; *)
(* only a cached graph compiled while USE_STATIC_WEIGHTS was set, and      *)
(* executed after it was cleared, may use its placeholders instead         *)
(* (execution.h 386-406, 508-510, 547, 615-633, tflite_manager.h 268-294). *)
OwnOperands ==
    Idle /\ ran.call = call.no /\ ran.ok =>
        /\ call.returned.left = call.no
        /\ \/ call.returned.right = call.no
           \/ /\ call.returned.right = Placeholder
              /\ ran.graph = "cached"
              /\ graphCache[call.shape].typeB = "STATIC"

(* Between two products no buffer is allocated and no temporary context    *)
(* exists, whatever failed (tflite_manager.h 241, 274-275, 294,            *)
(* execution.h 624).                                                       *)
NothingLeftBehind == Idle => DOMAIN memory = {} /\ DOMAIN contexts = {}

=============================================================================
