----------------------------- MODULE ModelCache -----------------------------
(***************************************************************************)
(* The TFLite fallback of matmul_int8 and the models it keeps              *)
(* (tflite_manager.h).  A Model owns an interpreter, perhaps a delegate,   *)
(* and three scratchpad buffers.  The vector of models moves them whenever *)
(* it grows, and destroys what the moves leave behind.                     *)
(*                                                                         *)
(* The call runs under Python's GIL, so it is one action.  A resource is   *)
(* a number, never used twice; heap gives the bytes of those that exist.   *)
(* How the file comes to be there is the subject of TfliteService, where   *)
(* the B operand comes from that of Prefetch.                              *)
(***************************************************************************)
EXTENDS Integers, Sequences, FiniteSets

CONSTANTS
    Shape,         \* the shapes <<M, K, N>>
    Backend,       \* the backend numbers
    MaxResources   \* bound: how many buffers and delegates are made in a behaviour

ASSUME ModelCacheAssumption ==
    /\ Shape \subseteq Nat \X Nat \X Nat
    /\ Backend \subseteq Nat
    /\ MaxResources \in Nat

Resource == 1 .. MaxResources
Null == 0
Key == [shape : Shape, backend : Backend]

Model == [key : Key, interpreter : BOOLEAN, delegate : Resource \cup {Null},
          persist : [{"a", "b", "out"} -> Resource \cup {Null}]]

NoBuffers == [x \in {"a", "b", "out"} |-> Null]

VARIABLES
    models,     \* the vector
    capacity,   \* how many elements its storage has room for
    heap,       \* heap[r] = size in bytes of the resource r that exists
    made,       \* how many resources were made so far
    deadFrees,  \* resources freed when they did not exist any more
    ran         \* the last product: its key, the model it used, how it ended

vars == <<models, capacity, heap, made, deadFrees, ran>>

NoRun == [outcome |-> "none"]

Init ==
    /\ models = <<>>
    /\ capacity = 0
    /\ heap = [r \in {} |-> 0]
    /\ made = 0
    /\ deadFrees = {}
    /\ ran = NoRun

-----------------------------------------------------------------------------
(* Sizes. *)

type_size(backend) == IF backend = 3 THEN 4 ELSE 2

Elements(shape) == [a |-> shape[1] * shape[2], b |-> shape[2] * shape[3], out |-> shape[1] * shape[3]]

Larger(x, y) == IF x > y THEN x ELSE y

(* Bytes of the three buffers, given the bytes the tensors of the file     *)
(* want: the inputs have room for the copies in any case.                  *)
BufferBytes(k, tensor) ==
    [a |-> Larger(tensor.a, Elements(k.shape).a * type_size(k.backend)),
     b |-> Larger(tensor.b, Elements(k.shape).b * type_size(k.backend)),
     out |-> tensor.out]

(* The tensors of a file (external): float in and out for backend 3,       *)
(* otherwise 16-bit in, and out either of the widths the product handles.  *)
TensorBytes(k) ==
    {[a |-> Elements(k.shape).a * i, b |-> Elements(k.shape).b * i, out |-> Elements(k.shape).out * o] :
        i \in {type_size(k.backend)}, o \in IF k.backend = 3 THEN {4} ELSE {2, 4}}

(* What the product reads of the output buffer. *)
OutputBytes(k, size) ==
    IF k.backend = 3 \/ size = Elements(k.shape).out * 4 THEN Elements(k.shape).out * 4
    ELSE Elements(k.shape).out * 2

-----------------------------------------------------------------------------
(* A Model as C++ keeps it. *)

Owned(m) == ({m.delegate} \cup {m.persist[x] : x \in {"a", "b", "out"}}) \ {Null}

(* Wrong on purpose: the pointers are copied, not moved. *)
CopiedFrom(m) == [m EXCEPT !.interpreter = FALSE]

(* What the move constructor leaves in its argument. *)
MovedFrom(m) == [m EXCEPT !.interpreter = FALSE, !.delegate = Null, !.persist = NoBuffers]

(* ~Model on a set of objects. *)
Destroy(objects, h) ==
    LET freed == UNION {Owned(m) : m \in objects} IN
    /\ heap' = [r \in DOMAIN h \ freed |-> h[r]]
    /\ deadFrees' = deadFrees \cup (freed \ DOMAIN h)

Grown == Larger(1, 2 * capacity)

(* push_back moves the new model in; when the storage is full it doubles,  *)
(* and every element is moved.  The objects moved from are destroyed.      *)
push_back(m, h) ==
    /\ models' = Append(models, m)
    /\ capacity' = IF Len(models) < capacity THEN capacity ELSE Grown
    /\ Destroy({MovedFrom(m)} \cup
                  (IF Len(models) < capacity THEN {} ELSE {MovedFrom(models[i]) : i \in DOMAIN models}),
               h)

(* The models create_model may return, with the bytes they allocate.  The  *)
(* file may be missing or no interpreter come of it; the delegate may not  *)
(* be made, or not fit the graph, in which case it is deleted again.       *)
NotLoaded(k) == [key |-> k, interpreter |-> FALSE, delegate |-> Null, persist |-> NoBuffers]

WithInterpreter(k, delegate) ==
    [key |-> k, interpreter |-> TRUE, delegate |-> delegate,
     persist |-> [a |-> made + 1, b |-> made + 2, out |-> made + 3]]

Extended(h, bytes) ==
    [r \in DOMAIN h \cup DOMAIN bytes |-> IF r \in DOMAIN bytes THEN bytes[r] ELSE h[r]]

create_model(k) ==
    \/ /\ push_back(NotLoaded(k), heap)
       /\ made' = made
       /\ ran' = [outcome |-> "no model", ask |-> k, used |-> NotLoaded(k)]
    \/ \E t \in TensorBytes(k), d \in {Null} \cup (IF k.backend > 0 THEN {made + 4} ELSE {}) :
          LET b == BufferBytes(k, t)
              m == WithInterpreter(k, d)
              new == [r \in Owned(m) |->
                        CASE r = made + 1 -> b.a [] r = made + 2 -> b.b [] r = made + 3 -> b.out
                          [] OTHER -> 0]
          IN  /\ made + 4 <= MaxResources
              /\ made' = IF d = Null THEN made + 3 ELSE made + 4
              /\ push_back(m, Extended(heap, new))
              /\ \E o \in {"failed", "computed"} : ran' = [outcome |-> o, ask |-> k, used |-> m]

(* Wrong on purpose: the backend is not compared; a model without an       *)
(* interpreter does not count. *)
MatchesShape(m, k) == m.key.shape = k.shape
MatchesLoaded(m, k) == m.key = k /\ m.interpreter

Matches(m, k) == m.key = k

(* matmul_int8 after fetch_model: nothing without an interpreter;          *)
(* otherwise copy the operands in, Invoke, which may fail, and copy out.   *)
UseModel(k, m) ==
    /\ IF m.interpreter
       THEN \E o \in {"failed", "computed"} : ran' = [outcome |-> o, ask |-> k, used |-> m]
       ELSE ran' = [outcome |-> "no model", ask |-> k, used |-> m]
    /\ UNCHANGED <<models, capacity, heap, made, deadFrees>>

Found(k) == {i \in DOMAIN models : Matches(models[i], k)}

First(S) == CHOOSE i \in S : \A j \in S : i <= j

matmul_int8(k) ==
    \/ /\ Found(k) # {}
       /\ UseModel(k, models[First(Found(k))])
    \/ /\ Found(k) = {}
       /\ create_model(k)

Next == \E k \in Key : matmul_int8(k)

Spec == Init /\ [][Next]_vars

-----------------------------------------------------------------------------
(* Safety. *)

(* Every buffer and delegate that exists belongs to exactly one model in   *)
(* the vector, every one a model points to exists, and none was freed      *)
(* twice: growing the vector loses nothing and destroys nothing            *)
(* (tflite_manager.h 37-55, 91-105, 230).                                  *)
OwnedOnce ==
    /\ DOMAIN heap = UNION {Owned(models[i]) : i \in DOMAIN models}
    /\ \A i, j \in DOMAIN models : i # j => Owned(models[i]) \cap Owned(models[j]) = {}
    /\ deadFrees = {}

(* The copies of a product stay inside the buffers of the model it found:  *)
(* a model made for 16-bit operands is never used for floats               *)
(* (tflite_manager.h 201-206, 225-229, 311-316, 339-340).                  *)
CopiesFit ==
    ran.outcome \in {"failed", "computed"} =>
        LET k == ran.ask
            size == [x \in {"a", "b", "out"} |-> heap[ran.used.persist[x]]]
        IN  /\ Elements(k.shape).a * type_size(k.backend) <= size["a"]
            /\ Elements(k.shape).b * type_size(k.backend) <= size["b"]
            /\ ran.outcome = "computed" => OutputBytes(k, size["out"]) <= size["out"]

(* There is one model for each key, the ones that failed included, so the  *)
(* cache and the buffers it pins do not grow with the number of products   *)
(* (tflite_manager.h 224-232).                                             *)
OneModelPerKey ==
    \A i, j \in DOMAIN models : models[i].key = models[j].key => i = j

=============================================================================
