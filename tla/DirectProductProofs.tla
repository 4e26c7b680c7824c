------------------------ MODULE DirectProductProofs ------------------------
(***************************************************************************)
(* What TLAPS proves about DirectProduct, for every set of shapes and any  *)
(* number of products.                                                     *)
(***************************************************************************)
EXTENDS DirectProduct, TLAPS

Inputs == {Buf("u_A"), Buf("u_B")}
Rest == {Buf("out_buf"), Buf("fixed_A"), Buf("fixed_B")}

(* Which buffers are allocated at each point of a product. *)
LiveByStep ==
    /\ call.pc \in {"idle", "quantise"} => DOMAIN memory = {}
    /\ call.pc \in {"execute", "temporary", "free"} => DOMAIN memory = Inputs \cup Rest
    /\ call.pc = "dequantise" => DOMAIN memory = Rest

(* A temporary context exists only while its product executes. *)
ContextsByStep ==
    /\ call.pc = "temporary" => DOMAIN contexts \subseteq {call.no}
    /\ call.pc # "temporary" => DOMAIN contexts = {}

(* A product under way has a number and a graph, and so has one that was   *)
(* executed.                                                               *)
Started ==
    /\ ~Idle => call.no \in 1 .. MaxCalls /\ call.shape \in DOMAIN graphCache
    /\ ran.call <= call.no
    /\ ran.call = call.no /\ ran.ok => call.shape \in DOMAIN graphCache

(* A product of the call's own operands, or of the left one and the        *)
(* placeholders of the cached graph.                                       *)
IsOwn(d) ==
    /\ d.left = call.no
    /\ \/ d.right = call.no
       \/ /\ d.right = Placeholder
          /\ ran.graph = "cached"
          /\ graphCache[call.shape].typeB = "STATIC"

(* What the buffers and the temporary graph hold at each point. *)
ContentsByStep ==
    /\ call.pc \in {"execute", "temporary"} =>
          memory[Buf("u_A")].left = call.no /\ memory[Buf("u_B")].right = call.no
    /\ call.pc = "temporary" => \A n \in DOMAIN contexts : contexts[n] = call.no
    /\ call.pc \in {"free", "dequantise"} /\ ran.ok => IsOwn(memory[Buf("out_buf")])
    /\ OwnOperands

IInv == TypeOK /\ LiveByStep /\ ContextsByStep /\ Started /\ ContentsByStep

(* getOrCreateGraph returns a cache that has the graph, and keeps types    *)
(* and the graphs there were (execution.h 349-354).                        *)
LEMMA CacheHasGraph ==
    ASSUME TypeOK, NEW s \in Shape
    PROVE  \A g \in getOrCreateGraph(s) :
               /\ DOMAIN g = DOMAIN graphCache \cup {s}
               /\ g \in [DOMAIN g -> Graph]
               /\ DOMAIN g \subseteq Shape
               /\ \A t \in DOMAIN graphCache : g[t] = graphCache[t]
<1> TAKE g \in getOrCreateGraph(s)
<1>1. CASE s \in DOMAIN graphCache
  <2>1. g = graphCache  BY <1>1 DEF getOrCreateGraph
  <2>2. QED  BY <1>1, <2>1 DEF TypeOK
<1>2. CASE s \notin DOMAIN graphCache
  <2>1. PICK v \in BOOLEAN :
          g = [t \in DOMAIN graphCache \cup {s} |->
                 IF t # s THEN graphCache[t]
                 ELSE [isValid |-> v,
                       typeB |-> IF useStaticWeights THEN "STATIC" ELSE "APP_WRITE",
                       A |-> Null, B |-> Null, C |-> Null]]
    BY <1>2 DEF getOrCreateGraph
  <2>2. DOMAIN g = DOMAIN graphCache \cup {s}  BY <2>1
  <2>3. ASSUME NEW t \in DOMAIN g  PROVE g[t] \in Graph
    <3>1. CASE t = s
      BY <2>1, <3>1 DEF Graph
    <3>2. CASE t # s
      BY <2>1, <2>2, <3>2 DEF TypeOK
    <3>3. QED  BY <3>1, <3>2
  <2>4. g \in [DOMAIN g -> Graph]  BY <2>1, <2>2, <2>3
  <2>5. \A t \in DOMAIN graphCache : g[t] = graphCache[t]  BY <1>2, <2>1
  <2>6. QED  BY <2>2, <2>4, <2>5 DEF TypeOK
<1>3. QED  BY <1>1, <1>2

(* Both weight values and products are data. *)
LEMMA Data ==
    ASSUME call.no \in 1 .. MaxCalls
    PROVE  /\ MaxCalls \in Nat
           /\ call.no \in 0 .. MaxCalls /\ call.no \in Placeholder .. MaxCalls
           /\ 0 \in 0 .. MaxCalls /\ 0 \in Placeholder .. MaxCalls
           /\ Placeholder \in Placeholder .. MaxCalls /\ Placeholder # call.no
           /\ Nothing \in Datum
BY DirectProductAssumption DEF Placeholder, Nothing, Datum

LEMMA InitInv == ASSUME Init PROVE IInv
<1>1. Nothing \in Datum
  BY DirectProductAssumption DEF Nothing, Datum, Placeholder
<1>2. TypeOK
  BY <1>1, DirectProductAssumption DEF Init, TypeOK
<1>3. LiveByStep /\ ContextsByStep /\ Started
  BY DEF Init, LiveByStep, ContextsByStep, Started, Idle
<1>4. ContentsByStep
  BY DEF Init, ContentsByStep, OwnOperands, Idle
<1>5. QED  BY <1>2, <1>3, <1>4 DEF IInv

(* The step of a product that moves it on within the same call. *)
LEMMA StepFacts ==
    ASSUME IInv, NEW from, NEW to \in {"execute", "temporary", "free", "dequantise"},
           from # "idle", Step(from, to)
    PROVE  /\ call.pc = from /\ call'.pc = to
           /\ call'.no = call.no /\ call'.shape = call.shape
           /\ call' \in [no : 0 .. MaxCalls, shape : Shape,
                          pc : {"idle", "quantise", "execute", "temporary", "free", "dequantise"},
                          returned : Datum]
           /\ call.no \in 1 .. MaxCalls
           /\ call.shape \in DOMAIN graphCache
           /\ \A name : Buf(name)' = Buf(name)
           /\ Inputs' = Inputs /\ Rest' = Rest
BY DEF IInv, TypeOK, Started, Step, Idle, Buf, Inputs, Rest

(* The buffers of a call. *)
LEMMA Buffers ==
    ASSUME call.no \in 1 .. MaxCalls
    PROVE  /\ Inputs \cup Rest \subseteq Buffer
           /\ Own = Inputs \cup Rest
           /\ Inputs \cap Rest = {}
           /\ \A name : Buf(name).name = name
BY DEF Inputs, Rest, Buf, Buffer, Own, Name

(* graphExecute puts a product into the output buffer or leaves it alone. *)
LEMMA ExecuteFacts ==
    ASSUME IInv, call.pc \in {"execute", "temporary"}, NEW graph \in {"cached", "temporary"},
           NEW buffers \in SUBSET Buffer, NEW weights \in SUBSET (Placeholder .. MaxCalls),
           graphExecute(graph, buffers, Buf("u_A"), weights, Buf("out_buf"))
    PROVE  /\ DOMAIN memory' = DOMAIN memory
           /\ memory' \in [DOMAIN memory' -> Datum]
           /\ ran' \in [call : 0 .. MaxCalls, graph : {"none", "cached", "temporary"},
                         buffers : SUBSET (Buffer \cup {Null}), ok : BOOLEAN]
           /\ ran'.call = call.no /\ ran'.graph = graph /\ ran'.buffers = buffers
           /\ ran'.ok => \E w \in weights :
                            memory'[Buf("out_buf")] = [left |-> call.no, right |-> w]
<1>1. /\ call.no \in 1 .. MaxCalls
      /\ DOMAIN memory = Inputs \cup Rest
      /\ memory \in [DOMAIN memory -> Datum]
      /\ memory[Buf("u_A")].left = call.no
  BY DEF IInv, Started, Idle, LiveByStep, TypeOK, ContentsByStep
<1>2. Buf("u_A") \in DOMAIN memory /\ Buf("out_buf") \in DOMAIN memory
  BY <1>1 DEF Inputs, Rest
<1>3. Seen(Buf("u_A")) = {memory[Buf("u_A")]}
  BY <1>2 DEF Seen
<1>4. call.no \in 0 .. MaxCalls
  BY <1>1, Data
<1>5. CASE /\ \E l \in Seen(Buf("u_A")), w \in weights :
                  memory' = [b \in DOMAIN memory |->
                                IF b = Buf("out_buf") THEN [left |-> l.left, right |-> w] ELSE memory[b]]
           /\ ran' = [call |-> call.no, graph |-> graph, buffers |-> buffers, ok |-> TRUE]
  <2>1. PICK w \in weights :
            memory' = [b \in DOMAIN memory |->
                          IF b = Buf("out_buf") THEN [left |-> call.no, right |-> w] ELSE memory[b]]
    BY <1>1, <1>3, <1>5
  <2>2. [left |-> call.no, right |-> w] \in Datum
    BY <1>4 DEF Datum
  <2>3. DOMAIN memory' = DOMAIN memory /\ memory' \in [DOMAIN memory' -> Datum]
    BY <1>1, <2>1, <2>2
  <2>4. memory'[Buf("out_buf")] = [left |-> call.no, right |-> w]
    BY <1>2, <2>1
  <2>5. QED  BY <1>4, <1>5, <2>3, <2>4
<1>6. CASE /\ UNCHANGED memory
           /\ ran' = [call |-> call.no, graph |-> graph, buffers |-> buffers, ok |-> FALSE]
  BY <1>1, <1>4, <1>6
<1>7. QED  BY <1>5, <1>6 DEF graphExecute

(* Freeing takes the buffers away and keeps types. *)
LEMMA FreeFacts ==
    ASSUME TypeOK, NEW buffers, Free(buffers)
    PROVE  /\ DOMAIN memory' = DOMAIN memory \ buffers
           /\ memory' \in [DOMAIN memory' -> Datum]
           /\ \A b \in DOMAIN memory' : memory'[b] = memory[b]
           /\ residue' \subseteq Datum
BY DEF TypeOK, Free, Restrict

(* Every step keeps the invariant. *)
LEMMA StepInv == ASSUME IInv, [Next]_vars PROVE IInv'
<1> USE DEF IInv
<1>1. CASE SetEnvironment
  BY <1>1 DEF SetEnvironment, TypeOK, LiveByStep, ContextsByStep, Started, ContentsByStep, IsOwn,
              OwnOperands, Idle, Inputs, Rest, Buf
<1>2. ASSUME NEW s \in Shape, prepare_matmul_npu(s)  PROVE IInv'
  <2>1. /\ graphCache' \in [DOMAIN graphCache' -> Graph] /\ DOMAIN graphCache' \subseteq Shape
        /\ DOMAIN graphCache \subseteq DOMAIN graphCache'
        /\ \A t \in DOMAIN graphCache : graphCache'[t] = graphCache[t]
    <3>1. graphCache' \in getOrCreateGraph(s)  BY <1>2 DEF prepare_matmul_npu
    <3>2. DOMAIN graphCache' = DOMAIN graphCache \cup {s}  BY <3>1, CacheHasGraph
    <3>3. QED  BY <3>1, <3>2, CacheHasGraph
  <2>2. UNCHANGED <<useStaticWeights, memory, residue, contexts, call, ran>> /\ Idle
    BY <1>2 DEF prepare_matmul_npu
  <2>3. OwnOperands'
    BY <2>1, <2>2 DEF OwnOperands, Idle, ContentsByStep, Started
  <2>4. QED
    BY <2>1, <2>2, <2>3 DEF TypeOK, LiveByStep, ContextsByStep, Started, ContentsByStep, Idle,
                            Inputs, Rest, Buf
<1>3. ASSUME NEW s \in Shape, matmul_int8(s)  PROVE IInv'
  <2>1. /\ graphCache' \in [DOMAIN graphCache' -> Graph] /\ DOMAIN graphCache' \subseteq Shape
        /\ s \in DOMAIN graphCache'
    BY <1>3, CacheHasGraph DEF matmul_int8
  <2>2. /\ Idle /\ call.no < MaxCalls
        /\ UNCHANGED <<useStaticWeights, memory, residue, contexts, ran>>
        /\ call'.no = call.no + 1 /\ call'.shape = s
        /\ call'.pc \in {"quantise", "idle"}
        /\ call' \in [no : {call.no + 1}, shape : Shape,
                       pc : {"idle", "quantise"}, returned : {Nothing}]
    BY <1>3 DEF matmul_int8
  <2>3. call.no \in 0 .. MaxCalls /\ MaxCalls \in Nat /\ ran.call \in 0 .. MaxCalls
    BY DirectProductAssumption DEF TypeOK
  <2>4. call.no + 1 \in 1 .. MaxCalls /\ call.no + 1 \in 0 .. MaxCalls
    BY <2>2, <2>3
  <2>5. Nothing \in Datum
    BY <2>3 DEF Nothing, Datum, Placeholder
  <2>6. call' \in [no : 0 .. MaxCalls, shape : Shape,
                   pc : {"idle", "quantise", "execute", "temporary", "free", "dequantise"},
                   returned : Datum]
    BY <2>2, <2>4, <2>5
  <2>7. TypeOK'
    BY <2>1, <2>2, <2>6 DEF TypeOK
  <2>8. DOMAIN memory' = {} /\ DOMAIN contexts' = {}
    BY <2>2 DEF LiveByStep, ContextsByStep, Idle
  <2>9. ran'.call < call'.no
    BY <2>2, <2>3 DEF Started
  <2>10. Started'
    BY <2>1, <2>2, <2>3, <2>4, <2>9 DEF Started, Idle
  <2>11. ContentsByStep'
    BY <2>2, <2>3, <2>9 DEF ContentsByStep, OwnOperands
  <2>12. QED
    BY <2>2, <2>7, <2>8, <2>10, <2>11 DEF LiveByStep, ContextsByStep
<1>4. CASE Quantise
  <2>1. Step("quantise", "execute")  BY <1>4 DEF Quantise
  <2>2. /\ call.pc = "quantise" /\ call'.pc = "execute"
        /\ call'.no = call.no /\ call'.shape = call.shape
        /\ call.no \in 1 .. MaxCalls /\ call.shape \in DOMAIN graphCache
        /\ \A name : Buf(name)' = Buf(name)
        /\ Inputs' = Inputs /\ Rest' = Rest
    BY <2>1, StepFacts
  <2>3. UNCHANGED <<useStaticWeights, graphCache, residue, contexts, ran>>
    BY <1>4 DEF Quantise
  <2>4. PICK stale \in residue :
          memory' = [b \in DOMAIN memory \cup Own |->
                        IF b \in Own THEN Filled(b.name, stale) ELSE memory[b]]
    BY <1>4 DEF Quantise
  <2>5. DOMAIN memory = {}
    BY <2>2 DEF LiveByStep
  <2>6. DOMAIN memory' = Inputs \cup Rest /\ Inputs \cup Rest \subseteq Buffer
        /\ Own = Inputs \cup Rest
    BY <2>2, <2>4, <2>5, Buffers
  <2>7. \A b \in DOMAIN memory' : memory'[b] = Filled(b.name, stale)
    BY <2>4, <2>5, <2>6
  <2>8. \A name : Filled(name, stale) \in Datum
    <3>1. stale \in Datum  BY DEF TypeOK
    <3>2. [left |-> call.no, right |-> 0] \in Datum /\ [left |-> 0, right |-> call.no] \in Datum
      BY <2>2, Data DEF Datum
    <3>3. QED  BY <3>1, <3>2 DEF Filled
  <2>9. memory' \in [DOMAIN memory' -> Datum]
    BY <2>4, <2>7, <2>8
  <2>10. TypeOK'
    BY <2>1, <2>3, <2>6, <2>9, StepFacts DEF TypeOK
  <2>11. memory'[Buf("u_A")].left = call.no /\ memory'[Buf("u_B")].right = call.no
    <3>1. Buf("u_A") \in DOMAIN memory' /\ Buf("u_B") \in DOMAIN memory'
      BY <2>6 DEF Inputs
    <3>2. memory'[Buf("u_A")] = Filled("u_A", stale) /\ memory'[Buf("u_B")] = Filled("u_B", stale)
      BY <2>2, <2>7, <3>1, Buffers
    <3>3. QED  BY <3>2 DEF Filled
  <2>12. LiveByStep' /\ ContextsByStep' /\ Started'
    BY <2>2, <2>3, <2>6 DEF LiveByStep, ContextsByStep, Started, Idle
  <2>13. ContentsByStep'
    BY <2>2, <2>11 DEF ContentsByStep, OwnOperands, Idle
  <2>14. QED  BY <2>10, <2>12, <2>13
<1>5. CASE ExecuteDynamic
  <2>1. Step("execute", "free")  BY <1>5 DEF ExecuteDynamic
  <2> DEFINE g == [graphCache[call.shape] EXCEPT !.A = Buf("u_A"), !.B = Buf("u_B"), !.C = Buf("out_buf")]
  <2>2. /\ call.pc = "execute" /\ call'.pc = "free"
        /\ call'.no = call.no /\ call'.shape = call.shape
        /\ call.no \in 1 .. MaxCalls /\ call.shape \in DOMAIN graphCache
        /\ \A name : Buf(name)' = Buf(name)
        /\ Inputs' = Inputs /\ Rest' = Rest
    BY <2>1, StepFacts
  <2>3. /\ graphCache' = [graphCache EXCEPT ![call.shape] = g]
        /\ UNCHANGED <<useStaticWeights, residue, contexts>>
        /\ graphExecute("cached", {g.A, g.B, g.C}, g.A, WeightsOf(g), g.C)
    BY <1>5 DEF ExecuteDynamic
  <2>4. {Buf("u_A"), Buf("u_B"), Buf("out_buf")} \subseteq Buffer
    BY <2>2, Buffers DEF Inputs, Rest
  <2>5. g \in Graph /\ g.A = Buf("u_A") /\ g.B = Buf("u_B") /\ g.C = Buf("out_buf")
        /\ g.typeB = graphCache[call.shape].typeB
    <3>1. graphCache[call.shape] \in Graph  BY <2>2 DEF TypeOK
    <3>2. QED  BY <2>4, <3>1 DEF Graph
  <2> HIDE DEF g
  <2>6. /\ DOMAIN graphCache' = DOMAIN graphCache /\ graphCache' \in [DOMAIN graphCache' -> Graph]
        /\ graphCache'[call.shape].typeB = g.typeB
    BY <2>2, <2>3, <2>5 DEF TypeOK
  <2>7. WeightsOf(g) \subseteq
            {call.no} \cup (IF g.typeB = "STATIC" THEN {Placeholder} ELSE {})
    <3>1. Buf("u_B") \in DOMAIN memory  BY <2>2 DEF LiveByStep, Inputs
    <3>2. Seen(Buf("u_B")) = {memory[Buf("u_B")]}  BY <3>1 DEF Seen
    <3>3. memory[Buf("u_B")].right = call.no  BY <2>2 DEF ContentsByStep
    <3>4. QED  BY <2>5, <3>2, <3>3 DEF WeightsOf
  <2>8. WeightsOf(g) \in SUBSET (Placeholder .. MaxCalls)
    BY <2>2, <2>7, Data
  <2>9. /\ DOMAIN memory' = DOMAIN memory
        /\ memory' \in [DOMAIN memory' -> Datum]
        /\ ran' \in [call : 0 .. MaxCalls, graph : {"none", "cached", "temporary"},
                      buffers : SUBSET (Buffer \cup {Null}), ok : BOOLEAN]
        /\ ran'.call = call.no /\ ran'.graph = "cached"
        /\ ran'.ok => \E w \in WeightsOf(g) :
                         memory'[Buf("out_buf")] = [left |-> call.no, right |-> w]
    <3>1. graphExecute("cached", {Buf("u_A"), Buf("u_B"), Buf("out_buf")}, Buf("u_A"),
                       WeightsOf(g), Buf("out_buf"))
      BY <2>3, <2>5
    <3>2. {Buf("u_A"), Buf("u_B"), Buf("out_buf")} \in SUBSET Buffer
      BY <2>4
    <3>3. QED  BY <2>2, <2>8, <3>1, <3>2, ExecuteFacts
  <2>10. TypeOK'
    BY <2>1, <2>3, <2>6, <2>9, StepFacts DEF TypeOK
  <2>11. ASSUME ran'.ok  PROVE IsOwn(memory[Buf("out_buf")])'
    <3>1. PICK w \in WeightsOf(g) : memory'[Buf("out_buf")] = [left |-> call.no, right |-> w]
      BY <2>9, <2>11
    <3>2. Buf("out_buf")' = Buf("out_buf")
      BY <2>2
    <3>3. memory[Buf("out_buf")]' = [left |-> call.no, right |-> w]
      BY <3>1, <3>2
    <3>4. w = call.no \/ (w = Placeholder /\ g.typeB = "STATIC")
      BY <2>7
    <3>5. QED  BY <2>2, <2>6, <2>9, <3>3, <3>4 DEF IsOwn
  <2>12. LiveByStep' /\ ContextsByStep'
    BY <2>2, <2>3, <2>9 DEF LiveByStep, ContextsByStep
  <2>13. Started'
    <3>1. call.no <= call.no  BY <2>2
    <3>2. QED  BY <2>2, <2>6, <2>9, <3>1 DEF Started, Idle
  <2>14. ContentsByStep'
    BY <2>2, <2>11 DEF ContentsByStep, OwnOperands, Idle
  <2>15. QED  BY <2>10, <2>12, <2>13, <2>14
<1>6. CASE CompileTemporary
  <2>1. Step("execute", "temporary")  BY <1>6 DEF CompileTemporary
  <2>2. /\ call.pc = "execute" /\ call'.pc = "temporary"
        /\ call'.no = call.no /\ call'.shape = call.shape
        /\ call.no \in 1 .. MaxCalls /\ call.shape \in DOMAIN graphCache
        /\ \A name : Buf(name)' = Buf(name)
        /\ Inputs' = Inputs /\ Rest' = Rest
    BY <2>1, StepFacts
  <2>3. UNCHANGED <<useStaticWeights, graphCache, memory, residue, ran>>
    BY <1>6 DEF CompileTemporary
  <2>4. DOMAIN contexts = {}
    BY <2>2 DEF ContextsByStep
  <2>5. /\ memory[Buf("u_A")].left = call.no
        /\ memory[Buf("u_B")].right = call.no
    BY <2>2 DEF ContentsByStep
  <2>6. Seen(Buf("u_B")) = {memory[Buf("u_B")]}
    <3>1. Buf("u_B") \in DOMAIN memory  BY <2>2 DEF LiveByStep, Inputs
    <3>2. QED  BY <3>1 DEF Seen
  <2>7. contexts' = contexts \/ contexts' = Compiled(call.no)
    BY <1>6, <2>5, <2>6 DEF CompileTemporary
  <2>8. /\ DOMAIN contexts' \subseteq {call.no}
        /\ \A n \in DOMAIN contexts' : contexts'[n] = call.no
        /\ contexts' \in [DOMAIN contexts' -> Placeholder .. MaxCalls]
    <3>1. CASE contexts' = contexts
      BY <2>4, <3>1 DEF TypeOK
    <3>2. CASE contexts' = Compiled(call.no)
      <4>1. call.no \in Placeholder .. MaxCalls  BY <2>2, Data
      <4>2. QED  BY <2>4, <3>2, <4>1 DEF Compiled
    <3>3. QED  BY <2>7, <3>1, <3>2
  <2>9. TypeOK'
    BY <2>1, <2>2, <2>3, <2>8, StepFacts DEF TypeOK
  <2>10. LiveByStep' /\ ContextsByStep' /\ Started'
    BY <2>2, <2>3, <2>8 DEF LiveByStep, ContextsByStep, Started, Idle
  <2>11. ContentsByStep'
    BY <2>2, <2>3, <2>5, <2>8 DEF ContentsByStep, OwnOperands, Idle
  <2>12. QED  BY <2>9, <2>10, <2>11
<1>7. CASE ExecuteTemporary
  <2>1. Step("temporary", "free")  BY <1>7 DEF ExecuteTemporary
  <2>2. /\ call.pc = "temporary" /\ call'.pc = "free"
        /\ call'.no = call.no /\ call'.shape = call.shape
        /\ call.no \in 1 .. MaxCalls /\ call.shape \in DOMAIN graphCache
        /\ \A name : Buf(name)' = Buf(name)
        /\ Inputs' = Inputs /\ Rest' = Rest
    BY <2>1, StepFacts
  <2> DEFINE weights == {contexts[n] : n \in DOMAIN contexts \cap {call.no}}
  <2>3. /\ UNCHANGED <<useStaticWeights, graphCache, residue>>
        /\ contexts' = Restrict(contexts, DOMAIN contexts \ {call.no})
        /\ graphExecute("temporary", {Buf("u_A"), Buf("out_buf")}, Buf("u_A"), weights, Buf("out_buf"))
    BY <1>7 DEF ExecuteTemporary
  <2>4. DOMAIN contexts' = {} /\ contexts' \in [DOMAIN contexts' -> Placeholder .. MaxCalls]
    BY <2>2, <2>3 DEF ContextsByStep, Restrict
  <2>5. weights \subseteq {call.no}
    BY <2>2 DEF ContentsByStep
  <2> HIDE DEF weights
  <2>6. weights \in SUBSET (Placeholder .. MaxCalls)
    BY <2>2, <2>5, Data
  <2>7. {Buf("u_A"), Buf("out_buf")} \in SUBSET Buffer
    BY <2>2, Buffers DEF Inputs, Rest
  <2>8. /\ DOMAIN memory' = DOMAIN memory
        /\ memory' \in [DOMAIN memory' -> Datum]
        /\ ran' \in [call : 0 .. MaxCalls, graph : {"none", "cached", "temporary"},
                      buffers : SUBSET (Buffer \cup {Null}), ok : BOOLEAN]
        /\ ran'.call = call.no
        /\ ran'.ok => \E w \in weights :
                         memory'[Buf("out_buf")] = [left |-> call.no, right |-> w]
    BY <2>2, <2>3, <2>6, <2>7, ExecuteFacts
  <2>9. TypeOK'
    BY <2>1, <2>3, <2>4, <2>8, StepFacts DEF TypeOK
  <2>10. ASSUME ran'.ok  PROVE IsOwn(memory[Buf("out_buf")])'
    <3>1. PICK w \in weights : memory'[Buf("out_buf")] = [left |-> call.no, right |-> w]
      BY <2>8, <2>10
    <3>2. Buf("out_buf")' = Buf("out_buf")
      BY <2>2
    <3>3. memory[Buf("out_buf")]' = [left |-> call.no, right |-> w]
      BY <3>1, <3>2
    <3>4. QED  BY <2>2, <2>5, <3>3 DEF IsOwn
  <2>11. LiveByStep' /\ ContextsByStep'
    BY <2>2, <2>4, <2>8 DEF LiveByStep, ContextsByStep
  <2>12. Started'
    <3>1. call.no <= call.no  BY <2>2
    <3>2. QED  BY <2>2, <2>3, <2>8, <3>1 DEF Started, Idle
  <2>13. ContentsByStep'
    BY <2>2, <2>10 DEF ContentsByStep, OwnOperands, Idle
  <2>14. QED  BY <2>9, <2>11, <2>12, <2>13
<1>8. CASE FreeInputs
  <2>1. Step("free", "dequantise")  BY <1>8 DEF FreeInputs
  <2>2. /\ call.pc = "free" /\ call'.pc = "dequantise"
        /\ call'.no = call.no /\ call'.shape = call.shape
        /\ call.no \in 1 .. MaxCalls /\ call.shape \in DOMAIN graphCache
        /\ \A name : Buf(name)' = Buf(name)
        /\ Inputs' = Inputs /\ Rest' = Rest
    BY <2>1, StepFacts
  <2>3. /\ Free(Inputs)
        /\ UNCHANGED <<useStaticWeights, graphCache, contexts, ran>>
    BY <1>8 DEF FreeInputs, Inputs
  <2>4. Inputs \cap Rest = {} /\ DOMAIN memory = Inputs \cup Rest
    BY <2>2, Buffers DEF LiveByStep
  <2>5. /\ DOMAIN memory' = Rest
        /\ memory' \in [DOMAIN memory' -> Datum]
        /\ \A b \in DOMAIN memory' : memory'[b] = memory[b]
        /\ residue' \subseteq Datum
    <3>1. DOMAIN memory' = DOMAIN memory \ Inputs  BY <2>3, FreeFacts
    <3>2. DOMAIN memory \ Inputs = Rest  BY <2>4
    <3>3. QED  BY <2>3, <3>1, <3>2, FreeFacts
  <2>6. TypeOK'
    BY <2>1, <2>3, <2>4, <2>5, StepFacts DEF TypeOK
  <2>7. memory'[Buf("out_buf")] = memory[Buf("out_buf")]
    BY <2>5 DEF Rest
  <2>8. ran'.ok => IsOwn(memory[Buf("out_buf")])'
    BY <2>2, <2>3, <2>7 DEF IsOwn, ContentsByStep
  <2>9. LiveByStep' /\ ContextsByStep' /\ Started'
    BY <2>2, <2>3, <2>5 DEF LiveByStep, ContextsByStep, Started, Idle
  <2>10. ContentsByStep'
    BY <2>2, <2>8 DEF ContentsByStep, OwnOperands, Idle
  <2>11. QED  BY <2>6, <2>9, <2>10
<1>9. CASE Dequantise
  <2>1. /\ call.pc = "dequantise"
        /\ Free(Rest)
        /\ UNCHANGED <<useStaticWeights, graphCache, contexts, ran>>
    BY <1>9 DEF Dequantise, Rest
  <2>2. Buf("out_buf") \in DOMAIN memory /\ memory[Buf("out_buf")] \in Datum
    BY <2>1 DEF LiveByStep, Rest, TypeOK
  <2>3. call' = [call EXCEPT !.pc = "idle", !.returned = memory[Buf("out_buf")]]
    BY <1>9, <2>2 DEF Dequantise, Seen
  <2>4. /\ call'.pc = "idle" /\ call'.no = call.no /\ call'.shape = call.shape
        /\ call'.returned = memory[Buf("out_buf")]
        /\ call' \in [no : 0 .. MaxCalls, shape : Shape,
                       pc : {"idle", "quantise", "execute", "temporary", "free", "dequantise"},
                       returned : Datum]
    BY <2>2, <2>3 DEF TypeOK
  <2>5. /\ DOMAIN memory' = {}
        /\ memory' \in [DOMAIN memory' -> Datum]
        /\ residue' \subseteq Datum
    <3>1. DOMAIN memory' = DOMAIN memory \ Rest  BY <2>1, FreeFacts
    <3>2. DOMAIN memory = Rest  BY <2>1 DEF LiveByStep
    <3>3. QED  BY <2>1, <3>1, <3>2, FreeFacts
  <2>6. TypeOK'
    BY <2>1, <2>4, <2>5 DEF TypeOK
  <2>7. OwnOperands'
    BY <2>1, <2>4 DEF OwnOperands, ContentsByStep, IsOwn
  <2>8. LiveByStep' /\ ContextsByStep' /\ Started'
    BY <2>1, <2>4, <2>5 DEF LiveByStep, ContextsByStep, Started, Idle
  <2>9. ContentsByStep'
    BY <2>4, <2>7 DEF ContentsByStep
  <2>10. QED  BY <2>6, <2>8, <2>9
<1>10. CASE UNCHANGED vars
  BY <1>10 DEF vars, TypeOK, LiveByStep, ContextsByStep, Started, ContentsByStep, IsOwn, OwnOperands,
               Idle, Inputs, Rest, Buf
<1>11. QED
  BY <1>1, <1>2, <1>3, <1>4, <1>5, <1>6, <1>7, <1>8, <1>9, <1>10 DEF Next

LEMMA Invariance == Spec => []IInv
BY InitInv, StepInv, PTL DEF Spec

(* TypeOK, of the calls and buffers of any number of products.             *)
THEOREM TypeCorrect == Spec => []TypeOK
BY Invariance, PTL DEF IInv

(* Every path of matmul_int8 and execute, the failing ones included, gives *)
(* back all buffers and the temporary context (tflite_manager.h 233-303,   *)
(* execution.h 506-638).                                                   *)
THEOREM NothingLeaks == Spec => []NothingLeftBehind
<1>1. IInv => NothingLeftBehind
  BY DEF IInv, NothingLeftBehind, LiveByStep, ContextsByStep, Idle
<1>2. QED  BY <1>1, Invariance, PTL

(* A product whose execution succeeded is that of its own operands, read   *)
(* through the pointers the graph was handed, or, where the weight mode    *)
(* was switched off after its graph was compiled, that of its left operand *)
(* and the placeholders (execution.h 386-406, 508-510, 615-633).           *)
THEOREM OperandsAreOwn == Spec => []OwnOperands
<1>1. IInv => OwnOperands
  BY DEF IInv, ContentsByStep
<1>2. QED  BY <1>1, Invariance, PTL

(* The pointers a cached graph keeps are replaced before they are used     *)
(* (execution.h 615-633).                                                  *)
THEOREM ExecutesOnLiveBuffers == Spec => BuffersAreLive
<1>1. IInv /\ [Next]_vars => [ran' # ran => ran'.buffers \subseteq DOMAIN memory]_vars
  <2> SUFFICES ASSUME IInv, Next, ran' # ran
               PROVE  ran'.buffers \subseteq DOMAIN memory
    OBVIOUS
  <2>1. CASE ExecuteDynamic
    <3> DEFINE g == [graphCache[call.shape] EXCEPT !.A = Buf("u_A"), !.B = Buf("u_B"), !.C = Buf("out_buf")]
    <3>1. ran'.buffers = {g.A, g.B, g.C} /\ call.pc = "execute"
      BY <2>1 DEF ExecuteDynamic, graphExecute, Step
    <3>2. graphCache[call.shape] \in Graph
      BY <3>1 DEF IInv, TypeOK, Started, Idle
    <3>3. {g.A, g.B, g.C} = {Buf("u_A"), Buf("u_B"), Buf("out_buf")}
      BY <3>2 DEF Graph
    <3>4. QED
      BY <3>1, <3>3 DEF IInv, LiveByStep, Inputs, Rest
  <2>2. CASE ExecuteTemporary
    <3>1. ran'.buffers = {Buf("u_A"), Buf("out_buf")} /\ call.pc = "temporary"
      BY <2>2 DEF ExecuteTemporary, graphExecute, Step
    <3>2. QED
      BY <3>1 DEF IInv, LiveByStep, Inputs, Rest
  <2>3. QED
    BY <2>1, <2>2 DEF Next, SetEnvironment, prepare_matmul_npu, matmul_int8, Quantise,
                      CompileTemporary, FreeInputs, Dequantise
<1>2. QED  BY <1>1, Invariance, PTL DEF Spec, BuffersAreLive

=============================================================================
