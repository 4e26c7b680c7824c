-------------------------- MODULE ModelCacheProofs --------------------------
(***************************************************************************)
(* What TLAPS proves about ModelCache, for any shapes and backends and any *)
(* number of models.                                                       *)
(***************************************************************************)
EXTENDS ModelCache, TLAPS

Buffer == {"a", "b", "out"}

(* The buffers of a model whose interpreter was built have room for what a *)
(* product of its key copies.                                              *)
Fits(m, h) ==
    /\ Elements(m.key.shape).a * type_size(m.key.backend) <= h[m.persist["a"]]
    /\ Elements(m.key.shape).b * type_size(m.key.backend) <= h[m.persist["b"]]
    /\ OutputBytes(m.key, h[m.persist["out"]]) <= h[m.persist["out"]]

HasBuffers(m, h) == \A x \in Buffer : m.persist[x] \in DOMAIN h

ModelsSound ==
    \A i \in 1 .. Len(models) :
        models[i].interpreter => HasBuffers(models[i], heap) /\ Fits(models[i], heap)

(* Resources are numbered in the order they are made. *)
NumbersSound ==
    /\ made \in Nat /\ capacity \in Nat
    /\ \A r \in DOMAIN heap : r \in 1 .. made

(* The model of the last product is still in the vector. *)
RanSound ==
    ran.outcome \in {"failed", "computed"} =>
        \E i \in 1 .. Len(models) :
            ran.used = models[i] /\ models[i].interpreter /\ models[i].key = ran.ask

IInv ==
    /\ models \in Seq(Model)
    /\ NumbersSound
    /\ OwnedOnce
    /\ OneModelPerKey
    /\ ModelsSound
    /\ RanSound

-----------------------------------------------------------------------------
(* Sizes and models. *)

LEMMA ElementsNat ==
    \A k \in Key : /\ Elements(k.shape).a \in Nat
                   /\ Elements(k.shape).b \in Nat
                   /\ Elements(k.shape).out \in Nat
                   /\ type_size(k.backend) \in {2, 4}
<1> SUFFICES ASSUME NEW k \in Key
             PROVE  /\ Elements(k.shape).a \in Nat
                    /\ Elements(k.shape).b \in Nat
                    /\ Elements(k.shape).out \in Nat
                    /\ type_size(k.backend) \in {2, 4}
  OBVIOUS
<1>1. k.shape[1] \in Nat /\ k.shape[2] \in Nat /\ k.shape[3] \in Nat
  BY ModelCacheAssumption DEF Key
<1>2. \A x, y \in Nat : x * y \in Nat
  OBVIOUS
<1>3. QED  BY <1>1, <1>2 DEF Elements, type_size

(* What BufferBytes asks for is enough, whichever tensors the file has. *)
LEMMA BytesFit ==
    \A k \in Key : \A t \in TensorBytes(k) :
        LET b == BufferBytes(k, t) IN
        /\ Elements(k.shape).a * type_size(k.backend) <= b.a
        /\ Elements(k.shape).b * type_size(k.backend) <= b.b
        /\ OutputBytes(k, b.out) <= b.out
<1> SUFFICES ASSUME NEW k \in Key, NEW t \in TensorBytes(k)
             PROVE  /\ Elements(k.shape).a * type_size(k.backend) <= BufferBytes(k, t).a
                    /\ Elements(k.shape).b * type_size(k.backend) <= BufferBytes(k, t).b
                    /\ OutputBytes(k, BufferBytes(k, t).out) <= BufferBytes(k, t).out
  OBVIOUS
<1> DEFINE ea == Elements(k.shape).a  eb == Elements(k.shape).b  eo == Elements(k.shape).out
           ts == type_size(k.backend)
<1>1. ea \in Nat /\ eb \in Nat /\ eo \in Nat /\ ts \in {2, 4}
  BY ElementsNat
<1>2. /\ t.a = ea * ts /\ t.b = eb * ts
      /\ t.out = eo * 4 \/ (k.backend # 3 /\ t.out = eo * 2)
  BY DEF TensorBytes
<1>3. /\ BufferBytes(k, t).a = Larger(t.a, ea * ts)
      /\ BufferBytes(k, t).b = Larger(t.b, eb * ts)
      /\ BufferBytes(k, t).out = t.out
  BY DEF BufferBytes
<1>4. OutputBytes(k, t.out) = IF k.backend = 3 \/ t.out = eo * 4 THEN eo * 4 ELSE eo * 2
  BY DEF OutputBytes
<1> HIDE DEF ea, eb, eo, ts
<1>5. ea * ts \in Nat /\ eb * ts \in Nat /\ eo * 4 \in Nat /\ eo * 2 \in Nat
  BY <1>1
<1>6. ea * ts <= BufferBytes(k, t).a /\ eb * ts <= BufferBytes(k, t).b
  BY <1>2, <1>3, <1>5 DEF Larger
<1>7. OutputBytes(k, t.out) <= t.out
  BY <1>2, <1>4, <1>5
<1>8. QED  BY <1>3, <1>6, <1>7 DEF ea, eb, eo, ts

(* An object that was moved from owns nothing. *)
LEMMA MovedFromOwnsNothing == \A m \in Model : Owned(MovedFrom(m)) = {}
BY DEF Model, MovedFrom, Owned, NoBuffers

LEMMA EmptyModel == \A k \in Key : NotLoaded(k) \in Model /\ Owned(NotLoaded(k)) = {}
BY DEF Model, NotLoaded, Owned, NoBuffers, Null

LEMMA NewModel ==
    \A k \in Key : \A d : made \in Nat /\ made + 4 <= MaxResources /\ d \in {Null, made + 4} =>
        /\ WithInterpreter(k, d) \in Model
        /\ Owned(WithInterpreter(k, d)) = {made + 1, made + 2, made + 3} \cup ({d} \ {Null})
BY ModelCacheAssumption DEF Model, WithInterpreter, Owned, NoBuffers, Null, Resource

(* Growing the vector destroys only objects that were moved from, so it    *)
(* frees nothing.                                                          *)
LEMMA PushFreesNothing ==
    ASSUME models \in Seq(Model), NEW m \in Model, NEW h, push_back(m, h)
    PROVE  /\ heap' = [r \in DOMAIN h |-> h[r]]
           /\ deadFrees' = deadFrees
<1> DEFINE objects == {MovedFrom(m)} \cup
                        (IF Len(models) < capacity THEN {} ELSE {MovedFrom(models[i]) : i \in DOMAIN models})
           freed == UNION {Owned(x) : x \in objects}
<1>1. /\ heap' = [r \in DOMAIN h \ freed |-> h[r]]
      /\ deadFrees' = deadFrees \cup (freed \ DOMAIN h)
  BY DEF push_back, Destroy
<1>2. \A x \in objects : Owned(x) = {}
  BY MovedFromOwnsNothing
<1>3. freed = {}
  BY <1>2
<1>4. QED  BY <1>1, <1>3

-----------------------------------------------------------------------------
LEMMA InitIInv == Init => IInv
<1> SUFFICES ASSUME Init  PROVE IInv
  OBVIOUS
<1>1. models \in Seq(Model) /\ Len(models) = 0 /\ DOMAIN models = {}
  BY DEF Init
<1>2. DOMAIN heap = {}
  BY DEF Init
<1>3. NumbersSound
  BY <1>2 DEF NumbersSound, Init
<1>4. OwnedOnce
  BY <1>1, <1>2 DEF OwnedOnce, Init
<1>5. OneModelPerKey /\ ModelsSound
  BY <1>1 DEF OneModelPerKey, ModelsSound
<1>6. RanSound
  BY DEF RanSound, Init, NoRun
<1>7. QED  BY <1>1, <1>3, <1>4, <1>5, <1>6 DEF IInv

(* A model whose resources are new, of a key that had none, joins the      *)
(* vector.                                                                 *)
LEMMA JoinKeepsIInv ==
    ASSUME IInv, NEW k \in Key, Found(k) = {},
           NEW m \in Model, m.key = k, NEW h, push_back(m, h),
           DOMAIN h = DOMAIN heap \cup Owned(m),
           Owned(m) \cap DOMAIN heap = {},
           \A r \in DOMAIN heap : h[r] = heap[r],
           made' \in Nat, made <= made', Owned(m) \subseteq 1 .. made',
           m.interpreter => HasBuffers(m, h) /\ Fits(m, h),
           ran'.outcome \in {"failed", "computed"} => ran'.used = m /\ m.interpreter /\ ran'.ask = k
    PROVE  IInv'
<1> DEFINE n == Len(models)
<1>1. /\ n \in Nat /\ DOMAIN models = 1 .. n
      /\ \A i \in 1 .. n : models[i] \in Model
      /\ models' \in Seq(Model) /\ Len(models') = n + 1 /\ DOMAIN models' = 1 .. n + 1
      /\ models'[n + 1] = m /\ \A i \in 1 .. n : models'[i] = models[i]
  BY DEF IInv, push_back
<1> HIDE DEF n
<1>2. /\ DOMAIN heap' = DOMAIN h
      /\ \A r \in DOMAIN h : heap'[r] = h[r]
      /\ deadFrees' = deadFrees
  BY PushFreesNothing DEF IInv
<1>3. \A i \in 1 .. n + 1 : i \in 1 .. n \/ i = n + 1
  BY <1>1
<1>4. n + 1 \in 1 .. n + 1 /\ n + 1 \notin 1 .. n /\ 1 .. n \subseteq 1 .. n + 1
  BY <1>1
<1>5. NumbersSound'
  <2>1. capacity' \in Nat
    BY DEF IInv, NumbersSound, push_back, Grown, Larger
  <2>2. \A r \in DOMAIN heap' : r \in 1 .. made'
    BY <1>2 DEF IInv, NumbersSound
  <2>3. QED  BY <2>1, <2>2 DEF NumbersSound
<1>6. OwnedOnce'
  <2>1. \A i \in 1 .. n : Owned(models[i]) \subseteq DOMAIN heap
    BY <1>1 DEF IInv, OwnedOnce
  <2>2. DOMAIN heap' = UNION {Owned(models'[i]) : i \in DOMAIN models'}
    <3>1. DOMAIN heap = UNION {Owned(models[i]) : i \in 1 .. n}
      BY <1>1 DEF IInv, OwnedOnce
    <3>2. \A r : r \in UNION {Owned(models'[i]) : i \in 1 .. n + 1}
                   <=> r \in UNION {Owned(models[i]) : i \in 1 .. n} \/ r \in Owned(m)
      BY <1>1, <1>3, <1>4
    <3>3. QED  BY <1>1, <1>2, <3>1, <3>2
  <2>3. \A i, j \in DOMAIN models' : i # j => Owned(models'[i]) \cap Owned(models'[j]) = {}
    BY <1>1, <1>3, <2>1 DEF IInv, OwnedOnce
  <2>4. deadFrees' = {}
    BY <1>2 DEF IInv, OwnedOnce
  <2>5. QED  BY <2>2, <2>3, <2>4 DEF OwnedOnce
<1>7. OneModelPerKey'
  <2>1. \A i \in 1 .. n : models[i].key # k
    BY <1>1 DEF Found, Matches
  <2>2. QED  BY <1>1, <1>3, <2>1 DEF IInv, OneModelPerKey
<1>8. ModelsSound'
  <2>1. ASSUME NEW x \in Model, HasBuffers(x, heap), Fits(x, heap)
        PROVE  HasBuffers(x, heap') /\ Fits(x, heap')
    <3>1. \A y \in Buffer : x.persist[y] \in DOMAIN heap' /\ heap'[x.persist[y]] = heap[x.persist[y]]
      BY <1>2, <2>1 DEF HasBuffers
    <3>2. QED  BY <2>1, <3>1 DEF HasBuffers, Fits, Buffer
  <2>2. m.interpreter => HasBuffers(m, heap') /\ Fits(m, heap')
    <3>1. ASSUME HasBuffers(m, h), Fits(m, h)
          PROVE  HasBuffers(m, heap') /\ Fits(m, heap')
      <4>1. \A y \in Buffer : m.persist[y] \in DOMAIN heap' /\ heap'[m.persist[y]] = h[m.persist[y]]
        BY <1>2, <3>1 DEF HasBuffers
      <4>2. QED  BY <3>1, <4>1 DEF HasBuffers, Fits, Buffer
    <3>2. QED  BY <3>1
  <2>3. ASSUME NEW i \in 1 .. n + 1, models'[i].interpreter
        PROVE  HasBuffers(models'[i], heap') /\ Fits(models'[i], heap')
    <3>1. CASE i = n + 1  BY <1>1, <2>2, <2>3, <3>1
    <3>2. CASE i \in 1 .. n
      BY <1>1, <2>1, <2>3, <3>2 DEF IInv, ModelsSound, n
    <3>3. QED  BY <1>3, <3>1, <3>2
  <2>4. QED  BY <1>1, <2>3 DEF ModelsSound
<1>9. RanSound'
  <2>1. CASE ran'.outcome \in {"failed", "computed"}
    <3>1. ran'.used = models'[n + 1] /\ models'[n + 1].interpreter /\ models'[n + 1].key = ran'.ask
      BY <1>1, <2>1
    <3>2. n + 1 \in 1 .. Len(models')  BY <1>1
    <3>3. QED  BY <3>1, <3>2 DEF RanSound
  <2>2. QED  BY <2>1 DEF RanSound
<1>10. QED  BY <1>1, <1>5, <1>6, <1>7, <1>8, <1>9 DEF IInv

LEMMA AtMostItself == \A x \in Nat : x <= x
OBVIOUS

(* create_model found no file, or no interpreter came of it. *)
LEMMA NotLoadedKeepsIInv ==
    ASSUME IInv, NEW k \in Key, Found(k) = {},
           NEW m, m = NotLoaded(k), push_back(m, heap), made' = made, ran'.outcome = "no model"
    PROVE  IInv'
<1>1. m \in Model /\ Owned(m) = {}
  BY EmptyModel
<1>2. m.key = k /\ ~m.interpreter
  BY DEF NotLoaded
<1>3. ran'.outcome \notin {"failed", "computed"}
  OBVIOUS
<1>4. made' \in Nat /\ made <= made'
  <2>1. made \in Nat  BY DEF IInv, NumbersSound
  <2>2. QED  BY <2>1, AtMostItself, Zenon
<1>5. /\ DOMAIN heap = DOMAIN heap \cup Owned(m)
      /\ Owned(m) \cap DOMAIN heap = {}
      /\ Owned(m) \subseteq 1 .. made'
  BY <1>1
<1>6. QED  BY <1>1, <1>2, <1>3, <1>4, <1>5, JoinKeepsIInv

(* create_model built an interpreter, with or without a delegate. *)
Allocated(m, b) ==
    [r \in Owned(m) |->
        CASE r = made + 1 -> b.a [] r = made + 2 -> b.b [] r = made + 3 -> b.out [] OTHER -> 0]

LEMMA LoadedKeepsIInv ==
    ASSUME IInv, NEW k \in Key, Found(k) = {},
           NEW t \in TensorBytes(k), NEW d \in {Null, made + 4},
           made + 4 <= MaxResources,
           made' = IF d = Null THEN made + 3 ELSE made + 4,
           push_back(WithInterpreter(k, d),
                     Extended(heap, Allocated(WithInterpreter(k, d), BufferBytes(k, t)))),
           NEW o, ran' = [outcome |-> o, ask |-> k, used |-> WithInterpreter(k, d)]
    PROVE  IInv'
<1> DEFINE m == WithInterpreter(k, d)
           b == BufferBytes(k, t)
           h == Extended(heap, Allocated(m, b))
<1>1. made \in Nat /\ made' \in Nat /\ made + 3 <= made' /\ (d # Null => made' = d) /\ d \in Nat
  BY DEF IInv, NumbersSound, Null
<1>2. m \in Model /\ Owned(m) = {made + 1, made + 2, made + 3} \cup ({d} \ {Null})
  BY <1>1, NewModel
<1>3. /\ m.key = k /\ m.interpreter
      /\ m.persist["a"] = made + 1 /\ m.persist["b"] = made + 2 /\ m.persist["out"] = made + 3
  BY DEF WithInterpreter
<1>4. push_back(m, h) /\ ran'.used = m /\ ran'.ask = k
  OBVIOUS
<1>5. /\ DOMAIN h = DOMAIN heap \cup Owned(m)
      /\ \A r \in Owned(m) : h[r] = Allocated(m, b)[r]
      /\ \A r \in DOMAIN heap \ Owned(m) : h[r] = heap[r]
  BY DEF Extended, Allocated
<1>6. Allocated(m, b)[made + 1] = b.a /\ Allocated(m, b)[made + 2] = b.b /\ Allocated(m, b)[made + 3] = b.out
  <2>1. made + 1 \in Owned(m) /\ made + 2 \in Owned(m) /\ made + 3 \in Owned(m)
    BY <1>2
  <2> HIDE DEF m, b
  <2>2. QED  BY <1>1, <2>1 DEF Allocated
<1>7. /\ Elements(k.shape).a * type_size(k.backend) <= b.a
      /\ Elements(k.shape).b * type_size(k.backend) <= b.b
      /\ OutputBytes(k, b.out) <= b.out
  BY BytesFit
<1> HIDE DEF m, b, h
<1>8. h[m.persist["a"]] = b.a /\ h[m.persist["b"]] = b.b /\ h[m.persist["out"]] = b.out
  BY <1>2, <1>3, <1>5, <1>6
<1>9. HasBuffers(m, h) /\ Fits(m, h)
  <2>1. HasBuffers(m, h)
    BY <1>2, <1>3, <1>5 DEF HasBuffers, Buffer
  <2>2. Fits(m, h)
    BY <1>3, <1>7, <1>8 DEF Fits
  <2>3. QED  BY <2>1, <2>2
<1>10. \A r \in Owned(m) : r \in 1 .. made' /\ r \notin DOMAIN heap
  BY <1>1, <1>2 DEF IInv, NumbersSound, Null
<1>11. /\ Owned(m) \cap DOMAIN heap = {} /\ Owned(m) \subseteq 1 .. made'
       /\ \A r \in DOMAIN heap : h[r] = heap[r]
       /\ made <= made'
  BY <1>1, <1>5, <1>10
<1>12. QED  BY <1>1, <1>2, <1>3, <1>4, <1>5, <1>9, <1>11, JoinKeepsIInv

(* fetch_model finds the model: there is only one it can be. *)
LEMMA FoundModel ==
    ASSUME IInv, NEW k \in Key, Found(k) # {}
    PROVE  First(Found(k)) \in 1 .. Len(models) /\ models[First(Found(k))].key = k
<1>1. DOMAIN models = 1 .. Len(models) /\ Len(models) \in Nat
  BY DEF IInv
<1>2. PICK i \in Found(k) : TRUE
  OBVIOUS
<1>3. i \in Int /\ \A j \in Found(k) : i <= j
  BY <1>1, <1>2 DEF IInv, OneModelPerKey, Found, Matches
<1>4. First(Found(k)) \in Found(k)
  BY <1>2, <1>3 DEF First
<1>5. QED  BY <1>1, <1>4 DEF Found, Matches

LEMMA UseKeepsIInv ==
    ASSUME IInv, NEW k \in Key, Found(k) # {}, UseModel(k, models[First(Found(k))])
    PROVE  IInv'
<1> DEFINE i == First(Found(k))
<1>1. i \in 1 .. Len(models) /\ models[i].key = k
  BY FoundModel
<1>2. UseModel(k, models[i])
  OBVIOUS
<1> HIDE DEF i
<1>3. UNCHANGED <<models, capacity, heap, made, deadFrees>>
  BY <1>2 DEF UseModel
<1>4. ran'.outcome \in {"failed", "computed"} =>
         ran'.used = models[i] /\ models[i].interpreter /\ ran'.ask = k
  <2>1. CASE models[i].interpreter
    <3>1. PICK o \in {"failed", "computed"} : ran' = [outcome |-> o, ask |-> k, used |-> models[i]]
      BY <1>2, <2>1 DEF UseModel
    <3>2. QED  BY <2>1, <3>1
  <2>2. CASE ~models[i].interpreter
    <3>1. ran' = [outcome |-> "no model", ask |-> k, used |-> models[i]]
      BY <1>2, <2>2 DEF UseModel
    <3>2. QED  BY <3>1
  <2>3. QED  BY <2>1, <2>2
<1>5. RanSound'
  BY <1>1, <1>3, <1>4 DEF RanSound
<1>6. QED  BY <1>3, <1>5 DEF IInv, NumbersSound, OwnedOnce, OneModelPerKey, ModelsSound

LEMMA NextKeepsIInv == IInv /\ [Next]_vars => IInv'
<1> SUFFICES ASSUME IInv, [Next]_vars  PROVE IInv'
  OBVIOUS
<1>1. ASSUME NEW k \in Key, matmul_int8(k)  PROVE IInv'
  <2>1. CASE Found(k) # {} /\ UseModel(k, models[First(Found(k))])
    BY <2>1, UseKeepsIInv
  <2>2. CASE Found(k) = {} /\ create_model(k)
    <3>1. CASE /\ push_back(NotLoaded(k), heap)
               /\ made' = made
               /\ ran' = [outcome |-> "no model", ask |-> k, used |-> NotLoaded(k)]
      BY <2>2, <3>1, NotLoadedKeepsIInv
    <3>2. ASSUME NEW t \in TensorBytes(k), NEW d \in {Null, made + 4},
                 made + 4 <= MaxResources,
                 made' = IF d = Null THEN made + 3 ELSE made + 4,
                 push_back(WithInterpreter(k, d),
                           Extended(heap, Allocated(WithInterpreter(k, d), BufferBytes(k, t)))),
                 NEW o, ran' = [outcome |-> o, ask |-> k, used |-> WithInterpreter(k, d)]
          PROVE  IInv'
      BY <2>2, <3>2, LoadedKeepsIInv
    <3>3. QED  BY <2>2, <3>1, <3>2 DEF create_model, Allocated
  <2>3. QED  BY <1>1, <2>1, <2>2 DEF matmul_int8
<1>2. CASE UNCHANGED vars
  BY <1>2 DEF vars, IInv, NumbersSound, OwnedOnce, OneModelPerKey, ModelsSound, RanSound
<1>3. QED  BY <1>1, <1>2 DEF Next

(* The invariant that the properties rest on. *)
THEOREM CacheInvariant == Spec => []IInv
<1>1. QED  BY InitIInv, NextKeepsIInv, PTL DEF Spec

(* However often the vector grows, every buffer and delegate has exactly   *)
(* one owner, nothing a model points to is freed, and nothing is freed     *)
(* twice (tflite_manager.h 37-55, 91-105, 230).                            *)
THEOREM NothingLostOrFreedTwice == Spec => []OwnedOnce
<1>1. IInv => OwnedOnce  BY DEF IInv
<1>2. QED  BY <1>1, CacheInvariant, PTL

(* A product finds the model of its own shape and backend, so its copies   *)
(* stay inside the buffers, for shapes of any size and whichever output    *)
(* width the file has (tflite_manager.h 201-206, 225-229, 311-340).        *)
THEOREM CopiesAlwaysFit == Spec => []CopiesFit
<1>1. IInv => CopiesFit
  <2> SUFFICES ASSUME IInv, ran.outcome \in {"failed", "computed"}
               PROVE  Fits(ran.used, heap) /\ ran.used.key = ran.ask
    BY DEF CopiesFit, Fits
  <2>1. PICK i \in 1 .. Len(models) :
           ran.used = models[i] /\ models[i].interpreter /\ models[i].key = ran.ask
    BY DEF IInv, RanSound
  <2>2. QED  BY <2>1 DEF IInv, ModelsSound
<1>2. QED  BY <1>1, CacheInvariant, PTL

(* However many products are asked for, there is at most one model of each *)
(* shape and backend, the ones that could not be loaded included           *)
(* (tflite_manager.h 224-232).                                             *)
THEOREM ModelsNeverRepeat == Spec => []OneModelPerKey
<1>1. IInv => OneModelPerKey  BY DEF IInv
<1>2. QED  BY <1>1, CacheInvariant, PTL
=============================================================================
