------------------------------ MODULE Prefetch ------------------------------
(***************************************************************************)
(* The prefetch queue of fixedpoint.h and its one consumer, the TFLite     *)
(* fallback of matmul_int8 (tflite_manager.h).  prefetch_weights starts a  *)
(* thread per weight matrix; each quantises its matrix into a new block    *)
(* and pushes it.  A product pops one block and uses it if its shape fits. *)
(* clear_queue empties the queue, then destroys the futures, which waits   *)
(* for the threads.                                                        *)
(*                                                                         *)
(* The vector of futures has no lock, so prefetch_weights, clear_queue and *)
(* products are calls of one thread, main; they interleave with the        *)
(* prefetching threads.  The queue's mutex is modelled: clear_queue holds  *)
(* it while it deletes.  A block stands for its five scratchpad buffers    *)
(* and is named after the thread that made it.                             *)
(***************************************************************************)
EXTENDS Integers, Sequences, FiniteSets

CONSTANTS
    Weight,      \* the weight matrices of a program
    ShapeOf,     \* ShapeOf[w] = <<rows, columns>> of w
    Batch,       \* the sequences of weights prefetch_weights is called with
    MaxThreads   \* bound: how many threads are started in a behaviour

ASSUME PrefetchAssumption ==
    /\ ShapeOf \in [Weight -> Nat \X Nat]
    /\ \A ws \in Batch : ws \in Seq(Weight)
    /\ MaxThreads \in Nat

Thread == 1 .. MaxThreads
Own == 0              \* the block a product makes for itself
NoBlock == -1
NoWeight == "none"
Block == Thread \cup {Own}
Nobody == -1
Main == 0

VARIABLES
    thread,     \* thread[t]: what t was started with, and how far it is
    active_prefetch_futures,
    queue,
    mutex,      \* who holds PrefetchQueue's mutex
    pc,         \* what main is doing
    fixed_B,    \* the block the product under way uses
    asked,      \* the weights of that product
    blocks,     \* blocks that are allocated
    consumed    \* prefetched blocks some product has used

vars == <<thread, active_prefetch_futures, queue, mutex, pc, fixed_B, asked, blocks, consumed>>

NotStarted == [phase |-> "none"]
Started == [weight : Weight, shape : {ShapeOf[w] : w \in Weight},
            phase : {"launched", "filling", "done"}]

TypeOK ==
    /\ thread \in [Thread -> Started \cup {NotStarted}]
    /\ active_prefetch_futures \subseteq Thread
    /\ queue \in Seq(Thread)
    /\ mutex \in {Nobody, Main}
    /\ pc \in {"idle", "product", "clearing", "joining"}
    /\ fixed_B \in Block \cup {NoBlock}
    /\ asked \in Weight \cup {NoWeight}
    /\ blocks \subseteq Block
    /\ consumed \subseteq Thread

Init ==
    /\ thread = [t \in Thread |-> NotStarted]
    /\ active_prefetch_futures = {}
    /\ queue = <<>>
    /\ mutex = Nobody
    /\ pc = "idle"
    /\ fixed_B = NoBlock
    /\ asked = NoWeight
    /\ blocks = {}
    /\ consumed = {}

-----------------------------------------------------------------------------
(* prefetch_weights: a thread for each weight that has a size. *)

StartedSoFar == Cardinality({t \in Thread : thread[t] # NotStarted})

Launches(ws, sizes) == {i \in 1 .. Len(ws) : i <= Len(sizes)}

prefetch_weights(ws, sizes) ==
    LET before == StartedSoFar IN
    /\ pc = "idle"
    /\ before + Cardinality(Launches(ws, sizes)) <= MaxThreads
    /\ thread' = [t \in Thread |->
          IF t - before \in Launches(ws, sizes)
          THEN [weight |-> ws[t - before],
                shape |-> IF t - before <= Len(sizes) THEN sizes[t - before] ELSE <<0, 0>>,
                phase |-> "launched"]
          ELSE thread[t]]
    /\ active_prefetch_futures' =
          active_prefetch_futures \cup {before + i : i \in Launches(ws, sizes)}
    /\ UNCHANGED <<queue, mutex, pc, fixed_B, asked, blocks, consumed>>

(* The body of a thread: allocate the block and fill it, then push it. *)
Fill(t) ==
    /\ thread[t].phase = "launched"
    /\ thread' = [thread EXCEPT ![t].phase = "filling"]
    /\ blocks' = blocks \cup {t}
    /\ UNCHANGED <<active_prefetch_futures, queue, mutex, pc, fixed_B, asked, consumed>>

push(t) ==
    /\ thread[t].phase = "filling"
    /\ mutex = Nobody
    /\ queue' = Append(queue, t)
    /\ thread' = [thread EXCEPT ![t].phase = "done"]
    /\ UNCHANGED <<active_prefetch_futures, mutex, pc, fixed_B, asked, blocks, consumed>>

-----------------------------------------------------------------------------
(* The B operand of a product. *)

(* Wrong on purpose: the number of columns is not compared. *)
FitsRows(t, w) == thread[t].shape[1] = ShapeOf[w][1]

Fits(t, w) == thread[t].shape[1] = ShapeOf[w][1] /\ thread[t].shape[2] = ShapeOf[w][2]

(* A block of the wrong shape is deleted, and the product makes its own. *)
UsePrefetched(w) ==
    /\ queue # <<>>
    /\ Fits(Head(queue), w)
    /\ queue' = Tail(queue)
    /\ fixed_B' = Head(queue)
    /\ consumed' = consumed \cup {Head(queue)}
    /\ UNCHANGED blocks

MakeOwn(w) ==
    /\ queue # <<>> => ~Fits(Head(queue), w)
    /\ queue' = IF queue = <<>> THEN queue ELSE Tail(queue)
    /\ blocks' = (IF queue = <<>> THEN blocks ELSE blocks \ {Head(queue)}) \cup {Own}
    /\ fixed_B' = Own
    /\ UNCHANGED consumed

BeginProduct(w) ==
    /\ pc = "idle"
    /\ mutex = Nobody
    /\ UsePrefetched(w) \/ MakeOwn(w)
    /\ asked' = w
    /\ pc' = "product"
    /\ UNCHANGED <<thread, active_prefetch_futures, mutex>>

(* Wrong on purpose: the product forgets its own block too. *)
KeepAll == blocks

(* if (!used_prefetched) delete fixed_B_ptr, whether Invoke failed or not. *)
DeleteOwn == IF fixed_B = Own THEN blocks \ {Own} ELSE blocks

EndProduct ==
    /\ pc = "product"
    /\ blocks' = DeleteOwn
    /\ fixed_B' = NoBlock
    /\ asked' = NoWeight
    /\ pc' = "idle"
    /\ UNCHANGED <<thread, active_prefetch_futures, queue, mutex, consumed>>

-----------------------------------------------------------------------------
(* clear_queue. *)

BeginClear ==
    /\ pc = "idle"
    /\ mutex = Nobody
    /\ mutex' = Main
    /\ pc' = "clearing"
    /\ UNCHANGED <<thread, active_prefetch_futures, queue, fixed_B, asked, blocks, consumed>>

(* Wrong on purpose: deleted, but left in the queue. *)
DeleteWithoutPop ==
    /\ pc = "clearing"
    /\ queue # <<>>
    /\ Head(queue) \in blocks
    /\ blocks' = blocks \ {Head(queue)}
    /\ UNCHANGED <<thread, active_prefetch_futures, queue, mutex, pc, fixed_B, asked, consumed>>

DeleteFront ==
    /\ pc = "clearing"
    /\ queue # <<>>
    /\ blocks' = blocks \ {Head(queue)}
    /\ queue' = Tail(queue)
    /\ UNCHANGED <<thread, active_prefetch_futures, mutex, pc, fixed_B, asked, consumed>>

(* Wrong on purpose: the lock is kept while the threads are waited for. *)
KeepLock ==
    /\ pc = "clearing"
    /\ queue = <<>>
    /\ pc' = "joining"
    /\ UNCHANGED <<thread, active_prefetch_futures, queue, mutex, fixed_B, asked, blocks, consumed>>

Unlock ==
    /\ pc = "clearing"
    /\ queue = <<>>
    /\ mutex' = Nobody
    /\ pc' = "joining"
    /\ UNCHANGED <<thread, active_prefetch_futures, queue, fixed_B, asked, blocks, consumed>>

(* Wrong on purpose: the threads are detached. *)
Ended == TRUE

(* The destructor of a std::async future waits for its thread. *)
AllDone == \A t \in active_prefetch_futures : thread[t].phase = "done"

ClearFutures ==
    /\ pc = "joining"
    /\ AllDone
    /\ active_prefetch_futures' = {}
    /\ pc' = "idle"
    /\ UNCHANGED <<thread, queue, mutex, fixed_B, asked, blocks, consumed>>

ClearStep == DeleteFront \/ Unlock \/ ClearFutures

ThreadStep(t) == Fill(t) \/ push(t)

(* Sizes may be fewer than weights; the caller passes those of the weights. *)
Sizes(ws) == {[i \in 1 .. n |-> ShapeOf[ws[i]]] : n \in 0 .. Len(ws)}

Next ==
    \/ \E ws \in Batch : \E sizes \in Sizes(ws) : prefetch_weights(ws, sizes)
    \/ \E w \in Weight : BeginProduct(w)
    \/ EndProduct
    \/ BeginClear
    \/ ClearStep
    \/ \E t \in Thread : ThreadStep(t)

(* Threads run, and clear_queue once called goes on as soon as it can.     *)
(* Nothing makes a program call anything.                                  *)
Fairness ==
    /\ \A t \in Thread : WF_vars(ThreadStep(t))
    /\ WF_vars(ClearStep)
    /\ WF_vars(EndProduct)

Spec == Init /\ [][Next]_vars /\ Fairness

-----------------------------------------------------------------------------
(* Safety. *)

Queued == {queue[i] : i \in 1 .. Len(queue)}

(* A block has one owner at a time: it is in the queue at most once, what  *)
(* is in the queue or in use exists, and a product's block is not in the   *)
(* queue, so neither clear_queue nor a later product deletes it under the  *)
(* product or a second time (fixedpoint.h 509-526, tflite_manager.h 325).  *)
OneOwner ==
    /\ Cardinality(Queued) = Len(queue)
    /\ Queued \subseteq blocks
    /\ fixed_B # NoBlock => fixed_B \in blocks \ Queued

(* The only blocks that are lost, allocated and out of everybody's reach,  *)
(* are prefetched blocks a product has used: no interleaving of pushes     *)
(* with products and clear_queue loses another (tflite_manager.h 333-343   *)
(* and 393-395).                                                           *)
OnlyUsedBlocksAreLost ==
    blocks \subseteq Queued \cup {fixed_B} \cup consumed
                       \cup {t \in Thread : thread[t].phase = "filling"}

(* Prefetched weights arrive in any order and are told apart by shape      *)
(* only; for weights whose shape no other weight has, that is enough: the  *)
(* product uses its own weights (tflite_manager.h 327).                    *)
UniqueShapeGetsItsWeights ==
    pc = "product" /\ fixed_B \in Thread
        /\ (\A w \in Weight \ {asked} : ShapeOf[w] # ShapeOf[asked])
    => thread[fixed_B].weight = asked

(* A thread that still reads its weights has a future: once clear_queue    *)
(* has returned, the caller may free the weights it prefetched             *)
(* (fixedpoint.h 534-539, 557).                                            *)
NoThreadOutlivesClear ==
    \A t \in Thread : thread[t].phase \in {"launched", "filling"} =>
        t \in active_prefetch_futures

(* Liveness. *)

(* clear_queue returns, although it waits for threads that need the        *)
(* queue's lock, and every thread that was started delivers its block,     *)
(* whatever main does (fixedpoint.h 520-526, 536-548, 555-558).            *)
NobodyWaitsForEver ==
    /\ pc = "clearing" ~> pc = "idle"
    /\ \A t \in Thread : thread[t].phase = "launched" ~> thread[t].phase = "done"

=============================================================================
