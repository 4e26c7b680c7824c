--------------------------- MODULE PrefetchProofs ---------------------------
(***************************************************************************)
(* What TLAPS proves about Prefetch, for any weights, any calls and any    *)
(* number of threads.                                                      *)
(***************************************************************************)
EXTENDS Prefetch, FiniteSetTheorems, TLAPS

(* Threads are started in the order of their numbers. *)
Begun == {t \in Thread : thread[t] # NotStarted}
InOrder == \E n \in 0 .. MaxThreads : Begun = 1 .. n

(* A thread's block exists once the thread fills it, and not before. *)
Phase(t) == thread[t].phase
BlocksOfThreads ==
    /\ \A t \in Thread : Phase(t) = "filling" => t \in blocks
    /\ \A t \in blocks \cap Thread : Phase(t) \in {"filling", "done"}

In(q) == {q[i] : i \in 1 .. Len(q)}
NoRepeats(q) == \A i, j \in 1 .. Len(q) : q[i] = q[j] => i = j

(* A block in the queue is finished, is there once and was not used yet. *)
QueueSound ==
    /\ NoRepeats(queue)
    /\ In(queue) \subseteq blocks
    /\ \A t \in In(queue) \cup consumed : Phase(t) = "done"
    /\ In(queue) \cap consumed = {}

(* Only a product under way has a block; a prefetched one it has used. *)
ProductSound ==
    /\ pc # "product" => fixed_B = NoBlock
    /\ pc = "product" => asked \in Weight /\ fixed_B \in blocks
    /\ fixed_B \in Thread => fixed_B \in consumed
    /\ Own \in blocks => fixed_B = Own

(* What a thread was started with goes together, and fits the product that *)
(* uses its block.                                                         *)
ShapesSound ==
    /\ \A t \in Begun : thread[t].shape = ShapeOf[thread[t].weight]
    /\ fixed_B \in Thread => thread[fixed_B].shape = ShapeOf[asked]

IInv ==
    /\ TypeOK
    /\ InOrder
    /\ BlocksOfThreads
    /\ QueueSound
    /\ ProductSound
    /\ ShapesSound
    /\ OnlyUsedBlocksAreLost
    /\ NoThreadOutlivesClear

-----------------------------------------------------------------------------
(* Numbers, threads and queues. *)

LEMMA Distinct ==
    /\ Own \notin Thread /\ NoBlock \notin Thread /\ Own # NoBlock /\ Nobody # Main
    /\ NotStarted \notin Started
    /\ \A t \in Thread : t \in Int
BY PrefetchAssumption DEF Own, NoBlock, Thread, Nobody, Main, NotStarted, Started

(* Popping takes the first block out of the queue, and no other. *)
LEMMA TailFacts ==
    \A q \in Seq(Thread) : q # <<>> /\ NoRepeats(q) =>
        /\ Head(q) \in In(q) /\ Head(q) \in Thread
        /\ Tail(q) \in Seq(Thread)
        /\ NoRepeats(Tail(q))
        /\ In(Tail(q)) = In(q) \ {Head(q)}
<1> SUFFICES ASSUME NEW q \in Seq(Thread), q # <<>>, NoRepeats(q)
             PROVE  /\ Head(q) \in In(q) /\ Head(q) \in Thread
                    /\ Tail(q) \in Seq(Thread)
                    /\ NoRepeats(Tail(q))
                    /\ In(Tail(q)) = In(q) \ {Head(q)}
  OBVIOUS
<1>1. /\ Len(q) \in Nat /\ Len(q) >= 1 /\ Head(q) = q[1] /\ Head(q) \in Thread
      /\ Tail(q) \in Seq(Thread) /\ Len(Tail(q)) = Len(q) - 1
      /\ \A i \in 1 .. Len(q) - 1 : Tail(q)[i] = q[i + 1]
  OBVIOUS
<1>2. NoRepeats(Tail(q))
  BY <1>1 DEF NoRepeats
<1>3. In(Tail(q)) \subseteq In(q) \ {Head(q)}
  BY <1>1 DEF In, NoRepeats
<1>4. ASSUME NEW x \in In(q), x # Head(q)  PROVE x \in In(Tail(q))
  <2>1. PICK i \in 1 .. Len(q) : x = q[i]  BY DEF In
  <2>2. i - 1 \in 1 .. Len(Tail(q)) /\ Tail(q)[i - 1] = q[i]  BY <1>1, <1>4, <2>1
  <2>3. QED  BY <2>1, <2>2 DEF In
<1>5. Head(q) \in In(q)
  <2>1. 1 \in 1 .. Len(q)  BY <1>1
  <2>2. QED  BY <1>1, <2>1 DEF In
<1>6. QED  BY <1>1, <1>2, <1>3, <1>4, <1>5

LEMMA AppendFacts ==
    \A q \in Seq(Thread), t \in Thread : NoRepeats(q) /\ t \notin In(q) =>
        /\ Append(q, t) \in Seq(Thread)
        /\ NoRepeats(Append(q, t))
        /\ In(Append(q, t)) = In(q) \cup {t}
<1> SUFFICES ASSUME NEW q \in Seq(Thread), NEW t \in Thread, NoRepeats(q), t \notin In(q)
             PROVE  /\ Append(q, t) \in Seq(Thread)
                    /\ NoRepeats(Append(q, t))
                    /\ In(Append(q, t)) = In(q) \cup {t}
  OBVIOUS
<1> DEFINE r == Append(q, t)
<1>1. /\ r \in Seq(Thread) /\ Len(q) \in Nat /\ Len(r) = Len(q) + 1 /\ r[Len(q) + 1] = t
      /\ \A i \in 1 .. Len(q) : r[i] = q[i]
  OBVIOUS
<1> HIDE DEF r
<1>2. NoRepeats(r)  BY <1>1 DEF NoRepeats, In
<1>3. In(r) \subseteq In(q) \cup {t}  BY <1>1 DEF In
<1>4. In(q) \cup {t} \subseteq In(r)
  <2>1. t \in In(r)
    <3>1. Len(q) + 1 \in 1 .. Len(r)  BY <1>1
    <3>2. QED  BY <1>1, <3>1 DEF In
  <2>2. ASSUME NEW i \in 1 .. Len(q)  PROVE q[i] \in In(r)
    <3>1. i \in 1 .. Len(r)  BY <1>1
    <3>2. QED  BY <1>1, <3>1 DEF In
  <2>3. QED  BY <2>1, <2>2 DEF In
<1>5. QED  BY <1>1, <1>2, <1>3, <1>4 DEF r

(* A queue without repetitions has as many blocks as places. *)
LEMMA QueueSize ==
    \A q \in Seq(Thread) : NoRepeats(q) => Cardinality(In(q)) = Len(q)
<1> SUFFICES ASSUME NEW q \in Seq(Thread), NoRepeats(q)  PROVE Cardinality(In(q)) = Len(q)
  OBVIOUS
<1> DEFINE f == [i \in 1 .. Len(q) |-> q[i]]
<1>0. Len(q) \in Nat  OBVIOUS
<1>1. IsFiniteSet(1 .. Len(q)) /\ Cardinality(1 .. Len(q)) = Len(q)
  BY <1>0, FS_Interval
<1>2. f \in Bijection(1 .. Len(q), In(q))
  BY DEF Bijection, Injection, Surjection, IsInjective, NoRepeats, In
<1>3. ExistsBijection(1 .. Len(q), In(q))
  BY <1>2 DEF ExistsBijection
<1>4. QED  BY <1>1, <1>3, FS_Bijection

(* The threads a call starts are the next ones. *)
LEMMA Launched ==
    ASSUME IInv, NEW ws \in Batch, NEW sizes \in Sizes(ws), prefetch_weights(ws, sizes)
    PROVE  \E n \in 0 .. MaxThreads, m \in Nat :
              /\ n + m \in 0 .. MaxThreads
              /\ Begun = 1 .. n
              /\ \A t \in Thread : t > n /\ t <= n + m =>
                    /\ thread'[t] \in Started
                    /\ thread'[t].shape = ShapeOf[thread'[t].weight]
                    /\ thread'[t].phase = "launched"
                    /\ t \in active_prefetch_futures'
              /\ \A t \in Thread : ~(t > n /\ t <= n + m) => thread'[t] = thread[t]
              /\ thread' = [t \in Thread |-> thread'[t]]
              /\ active_prefetch_futures \subseteq active_prefetch_futures'
              /\ active_prefetch_futures' \subseteq Thread
<1>1. PICK n \in 0 .. MaxThreads : Begun = 1 .. n
  BY DEF IInv, InOrder
<1>2. n \in Nat /\ MaxThreads \in Nat  BY PrefetchAssumption
<1>3. StartedSoFar = n
  <2>1. Cardinality(1 .. n) = n  BY <1>2, FS_Interval
  <2>2. QED  BY <1>1, <2>1 DEF StartedSoFar, Begun
<1>4. ws \in Seq(Weight) /\ Len(ws) \in Nat  BY PrefetchAssumption
<1>5. PICK m \in 0 .. Len(ws) : sizes = [i \in 1 .. m |-> ShapeOf[ws[i]]]
  BY DEF Sizes
<1>6. m \in Nat /\ Len(sizes) = m /\ \A i \in 1 .. m : sizes[i] = ShapeOf[ws[i]] /\ ws[i] \in Weight
  <2>1. m \in Nat  BY <1>4
  <2>2. sizes \in Seq(Nat \X Nat)  BY <1>4, <1>5, <2>1, PrefetchAssumption
  <2>3. QED  BY <1>4, <1>5, <2>1, <2>2, PrefetchAssumption
<1>7. Launches(ws, sizes) = 1 .. m  BY <1>4, <1>6 DEF Launches
<1>8. Cardinality(1 .. m) = m  BY <1>6, FS_Interval
<1>9. n + m <= MaxThreads  BY <1>3, <1>7, <1>8 DEF prefetch_weights
<1>10. thread' = [t \in Thread |->
          IF t - n \in 1 .. m
          THEN [weight |-> ws[t - n],
                shape |-> IF t - n <= m THEN sizes[t - n] ELSE <<0, 0>>,
                phase |-> "launched"]
          ELSE thread[t]]
  BY <1>3, <1>6, <1>7 DEF prefetch_weights
<1>11. active_prefetch_futures' = active_prefetch_futures \cup {n + i : i \in 1 .. m}
  BY <1>3, <1>7 DEF prefetch_weights
<1>12. ASSUME NEW t \in Thread, t > n, t <= n + m
       PROVE  /\ thread'[t] \in Started
              /\ thread'[t].shape = ShapeOf[thread'[t].weight]
              /\ thread'[t].phase = "launched"
              /\ t \in active_prefetch_futures'
  <2>1. t - n \in 1 .. m /\ t - n <= m /\ t = n + (t - n)
    BY <1>2, <1>6, <1>12, Distinct
  <2>2. thread'[t] = [weight |-> ws[t - n], shape |-> ShapeOf[ws[t - n]], phase |-> "launched"]
    BY <1>6, <1>10, <2>1
  <2>3. ws[t - n] \in Weight  BY <1>6, <2>1
  <2>4. t \in active_prefetch_futures'  BY <1>11, <2>1
  <2>5. QED  BY <2>2, <2>3, <2>4 DEF Started
<1>13. ASSUME NEW t \in Thread, ~(t > n /\ t <= n + m)  PROVE thread'[t] = thread[t]
  <2>1. t - n \notin 1 .. m  BY <1>2, <1>6, <1>13, Distinct
  <2>2. QED  BY <1>10, <2>1
<1>14. active_prefetch_futures' \subseteq Thread
  <2>1. \A i \in 1 .. m : n + i \in Thread  BY <1>2, <1>6, <1>9 DEF Thread
  <2>2. active_prefetch_futures \subseteq Thread  BY DEF IInv, TypeOK
  <2>3. QED  BY <1>11, <2>1, <2>2
<1>15. thread' = [t \in Thread |-> thread'[t]]  BY <1>10
<1>16. n + m \in 0 .. MaxThreads  BY <1>2, <1>6, <1>9
<1>17. active_prefetch_futures \subseteq active_prefetch_futures'  BY <1>11
<1>18. m \in Nat  BY <1>6
<1>19. WITNESS n \in 0 .. MaxThreads, m \in Nat
<1>20. QED  BY <1>1, <1>12, <1>13, <1>14, <1>15, <1>16, <1>17

LEMMA InitInv == ASSUME Init PROVE IInv
<1>1. TypeOK
  BY PrefetchAssumption DEF Init, TypeOK, Block
<1>2. Begun = {}  BY DEF Begun, Init
<1>3. InOrder
  <2>1. 0 \in 0 .. MaxThreads /\ 1 .. 0 = {}  BY PrefetchAssumption
  <2>2. QED  BY <1>2, <2>1 DEF InOrder
<1>4. \A t \in Thread : Phase(t) = "none"  BY DEF Init, Phase, NotStarted
<1>5. In(queue) = {} /\ NoRepeats(queue)  BY DEF Init, In, NoRepeats
<1>6. BlocksOfThreads /\ QueueSound
  BY <1>4, <1>5 DEF BlocksOfThreads, QueueSound, Init
<1>7. ProductSound /\ ShapesSound
  BY <1>2, Distinct DEF ProductSound, ShapesSound, Init
<1>8. OnlyUsedBlocksAreLost  BY DEF Init, OnlyUsedBlocksAreLost
<1>9. NoThreadOutlivesClear  BY <1>4 DEF NoThreadOutlivesClear, Phase
<1>10. QED  BY <1>1, <1>3, <1>6, <1>7, <1>8, <1>9 DEF IInv

-----------------------------------------------------------------------------
(* One lemma per action. *)

(* prefetch_weights disturbs no thread that was started before.            *)
LEMMA PrefetchKeeps ==
    ASSUME IInv, NEW ws \in Batch, NEW sizes \in Sizes(ws), prefetch_weights(ws, sizes)
    PROVE  IInv'
<1>1. PICK n \in 0 .. MaxThreads, m \in Nat :
         /\ n + m \in 0 .. MaxThreads
         /\ Begun = 1 .. n
         /\ \A t \in Thread : t > n /\ t <= n + m =>
               /\ thread'[t] \in Started
               /\ thread'[t].shape = ShapeOf[thread'[t].weight]
               /\ thread'[t].phase = "launched"
               /\ t \in active_prefetch_futures'
         /\ \A t \in Thread : ~(t > n /\ t <= n + m) => thread'[t] = thread[t]
         /\ thread' = [t \in Thread |-> thread'[t]]
         /\ active_prefetch_futures \subseteq active_prefetch_futures'
         /\ active_prefetch_futures' \subseteq Thread
  BY Launched
<1>2. UNCHANGED <<queue, mutex, pc, fixed_B, asked, blocks, consumed>>
  BY DEF prefetch_weights
<1>3. n \in Nat /\ MaxThreads \in Nat  BY PrefetchAssumption
<1>4. \A t \in Begun : thread'[t] = thread[t]
  BY <1>1, <1>3 DEF Begun, Thread
<1>5. \A t \in Thread : Phase(t) \in {"launched", "filling", "done"} => t \in Begun
  BY DEF Phase, Begun, NotStarted
<1>6. \A t \in Thread :
         \/ t \in Begun /\ thread'[t] = thread[t]
         \/ t \notin Begun /\ thread'[t].phase = "launched" /\ thread'[t] \in Started
               /\ thread'[t].shape = ShapeOf[thread'[t].weight] /\ t \in active_prefetch_futures'
         \/ t \notin Begun /\ thread'[t] = thread[t]
  BY <1>1, <1>3, <1>4, Distinct DEF Thread
<1>7. TypeOK'
  <2>1. \A t \in Thread : thread'[t] \in Started \cup {NotStarted}
    BY <1>6 DEF IInv, TypeOK
  <2>2. thread' \in [Thread -> Started \cup {NotStarted}]
    BY <1>1, <2>1
  <2>3. QED  BY <1>1, <1>2, <2>2 DEF IInv, TypeOK
<1>8. InOrder'
  <2>1. \A t \in Thread : thread'[t] # NotStarted <=> t \in 1 .. n + m
    BY <1>1, <1>3, Distinct DEF Begun, Thread
  <2>2. 1 .. n + m \subseteq Thread  BY <1>1, <1>3 DEF Thread
  <2>3. Begun' = 1 .. n + m  BY <2>1, <2>2 DEF Begun
  <2>4. QED  BY <1>1, <2>3 DEF InOrder
<1>9. BlocksOfThreads'
  BY <1>2, <1>4, <1>5, <1>6 DEF IInv, BlocksOfThreads, Phase
<1>10. In(queue) \cup consumed \subseteq Thread
  BY DEF IInv, TypeOK, In
<1>11. QueueSound'
  <2>1. \A t \in In(queue) \cup consumed : t \in Begun
    BY <1>5, <1>10 DEF IInv, QueueSound
  <2>2. \A t \in In(queue) \cup consumed : Phase(t)' = "done"
    BY <1>4, <2>1 DEF IInv, QueueSound, Phase
  <2>3. QED  BY <1>2, <2>2 DEF IInv, QueueSound, NoRepeats, In
<1>12. ProductSound'
  BY <1>2 DEF IInv, ProductSound
<1>13. ShapesSound'
  <2>1. \A t \in Begun' : thread'[t].shape = ShapeOf[thread'[t].weight]
    BY <1>6 DEF IInv, ShapesSound, Begun
  <2>2. fixed_B \in Thread => fixed_B \in Begun
    BY <1>5 DEF IInv, ProductSound, QueueSound
  <2>3. QED  BY <1>2, <1>4, <2>1, <2>2 DEF IInv, ShapesSound
<1>14. OnlyUsedBlocksAreLost'
  <2>1. \A t \in Thread : thread[t].phase = "filling" => thread'[t].phase = "filling"
    BY <1>4, <1>5 DEF Phase
  <2>2. QED  BY <1>2, <2>1 DEF IInv, OnlyUsedBlocksAreLost, Queued
<1>15. NoThreadOutlivesClear'
  BY <1>1, <1>6 DEF IInv, NoThreadOutlivesClear, Begun, NotStarted
<1>16. QED
  BY <1>7, <1>8, <1>9, <1>11, <1>12, <1>13, <1>14, <1>15 DEF IInv

(* What a thread does to itself: only its phase changes. *)
LEMMA PhaseStep ==
    ASSUME TypeOK, NEW t \in Thread, NEW p \in {"filling", "done"}, thread[t] # NotStarted,
           thread' = [thread EXCEPT ![t].phase = p]
    PROVE  /\ thread' \in [Thread -> Started \cup {NotStarted}]
           /\ Phase(t)' = p
           /\ thread'[t].shape = thread[t].shape /\ thread'[t].weight = thread[t].weight
           /\ \A u \in Thread \ {t} : thread'[u] = thread[u]
           /\ Begun' = Begun
<1>1. thread[t] \in Started /\ thread \in [Thread -> Started \cup {NotStarted}]
  BY DEF TypeOK
<1>2. thread'[t] = [thread[t] EXCEPT !.phase = p] /\ \A u \in Thread \ {t} : thread'[u] = thread[u]
  BY <1>1
<1>3. /\ thread'[t] \in Started /\ thread'[t].phase = p
      /\ thread'[t].shape = thread[t].shape /\ thread'[t].weight = thread[t].weight
  BY <1>1, <1>2 DEF Started
<1>4. thread' \in [Thread -> Started \cup {NotStarted}]
  <2>1. \A u \in Thread : thread'[u] \in Started \cup {NotStarted}
    BY <1>1, <1>2, <1>3
  <2>2. thread' = [u \in Thread |-> thread'[u]]  BY <1>1
  <2>3. QED  BY <2>1, <2>2
<1>5. Begun' = Begun
  BY <1>1, <1>2, <1>3, Distinct DEF Begun
<1>6. QED  BY <1>2, <1>3, <1>4, <1>5 DEF Phase

LEMMA FillKeeps == ASSUME IInv, NEW t \in Thread, Fill(t) PROVE IInv'
<1>1. /\ Phase(t) = "launched" /\ thread' = [thread EXCEPT ![t].phase = "filling"]
      /\ blocks' = blocks \cup {t}
      /\ UNCHANGED <<active_prefetch_futures, queue, mutex, pc, fixed_B, asked, consumed>>
  BY DEF Fill, Phase
<1>2. thread[t] # NotStarted  BY <1>1 DEF Phase, NotStarted
<1>3. /\ thread' \in [Thread -> Started \cup {NotStarted}] /\ Phase(t)' = "filling"
      /\ thread'[t].shape = thread[t].shape /\ thread'[t].weight = thread[t].weight
      /\ \A u \in Thread \ {t} : thread'[u] = thread[u]
      /\ Begun' = Begun
  BY <1>1, <1>2, PhaseStep DEF IInv
<1>4. TypeOK'  BY <1>1, <1>3 DEF IInv, TypeOK, Block
<1>5. InOrder'  BY <1>3 DEF IInv, InOrder
<1>6. BlocksOfThreads'  BY <1>1, <1>3 DEF IInv, BlocksOfThreads, Phase
<1>7. In(queue) \cup consumed \subseteq Thread \ {t}
  BY <1>1 DEF IInv, TypeOK, QueueSound, In
<1>8. QueueSound'  BY <1>1, <1>3, <1>7 DEF IInv, QueueSound, NoRepeats, In, Phase
<1>9. ProductSound'  BY <1>1, Distinct DEF IInv, ProductSound
<1>10. ShapesSound'
  BY <1>1, <1>3 DEF IInv, ShapesSound, Begun
<1>11. OnlyUsedBlocksAreLost'
  BY <1>1, <1>3 DEF IInv, OnlyUsedBlocksAreLost, Queued, Phase
<1>12. NoThreadOutlivesClear'
  BY <1>1, <1>3 DEF IInv, NoThreadOutlivesClear, Phase
<1>13. QED  BY <1>4, <1>5, <1>6, <1>8, <1>9, <1>10, <1>11, <1>12 DEF IInv

LEMMA PushKeeps == ASSUME IInv, NEW t \in Thread, push(t) PROVE IInv'
<1>1. /\ Phase(t) = "filling" /\ thread' = [thread EXCEPT ![t].phase = "done"]
      /\ queue' = Append(queue, t)
      /\ UNCHANGED <<active_prefetch_futures, mutex, pc, fixed_B, asked, blocks, consumed>>
  BY DEF push, Phase
<1>2. thread[t] # NotStarted  BY <1>1 DEF Phase, NotStarted
<1>3. /\ thread' \in [Thread -> Started \cup {NotStarted}] /\ Phase(t)' = "done"
      /\ thread'[t].shape = thread[t].shape /\ thread'[t].weight = thread[t].weight
      /\ \A u \in Thread \ {t} : thread'[u] = thread[u]
      /\ Begun' = Begun
  BY <1>1, <1>2, PhaseStep DEF IInv
<1>4. t \notin In(queue) /\ t \notin consumed
  BY <1>1 DEF IInv, QueueSound
<1>5. queue' \in Seq(Thread) /\ NoRepeats(queue') /\ In(queue') = In(queue) \cup {t}
  BY <1>1, <1>4, AppendFacts DEF IInv, TypeOK, QueueSound
<1>6. TypeOK'  BY <1>1, <1>3, <1>5 DEF IInv, TypeOK
<1>7. InOrder'  BY <1>3 DEF IInv, InOrder
<1>8. BlocksOfThreads'  BY <1>1, <1>3 DEF IInv, BlocksOfThreads, Phase
<1>9. In(queue) \cup consumed \subseteq Thread \ {t}
  BY <1>4 DEF IInv, TypeOK, In
<1>10. QueueSound'
  <2>1. In(queue') \subseteq blocks'  BY <1>1, <1>5 DEF IInv, QueueSound, BlocksOfThreads
  <2>2. \A u \in In(queue') \cup consumed' : Phase(u)' = "done"
    BY <1>1, <1>3, <1>5, <1>9 DEF IInv, QueueSound, Phase
  <2>3. In(queue') \cap consumed' = {}  BY <1>1, <1>4, <1>5 DEF IInv, QueueSound
  <2>4. QED  BY <1>5, <2>1, <2>2, <2>3 DEF QueueSound, In, NoRepeats
<1>11. ProductSound'  BY <1>1 DEF IInv, ProductSound
<1>12. ShapesSound'  BY <1>1, <1>3 DEF IInv, ShapesSound, Begun
<1>13. OnlyUsedBlocksAreLost'
  BY <1>1, <1>3, <1>5 DEF IInv, OnlyUsedBlocksAreLost, Queued, Phase, In
<1>14. NoThreadOutlivesClear'
  BY <1>1, <1>3 DEF IInv, NoThreadOutlivesClear, Phase
<1>15. QED  BY <1>6, <1>7, <1>8, <1>10, <1>11, <1>12, <1>13, <1>14 DEF IInv

(* main leaves the threads alone. *)
LEMMA ThreadsKept ==
    ASSUME IInv, thread' = thread
    PROVE  /\ Begun' = Begun /\ InOrder' /\ \A t : Phase(t)' = Phase(t)
           /\ \A t \in Begun' : thread'[t].shape = ShapeOf[thread'[t].weight]
BY DEF IInv, Begun, InOrder, Phase, ShapesSound

LEMMA BeginProductKeeps == ASSUME IInv, NEW w \in Weight, BeginProduct(w) PROVE IInv'
<1>1. /\ pc = "idle" /\ asked' = w /\ pc' = "product"
      /\ UNCHANGED <<thread, active_prefetch_futures, mutex>>
      /\ UsePrefetched(w) \/ MakeOwn(w)
  BY DEF BeginProduct
<1>2. /\ Begun' = Begun /\ InOrder' /\ \A t : Phase(t)' = Phase(t)
      /\ \A t \in Begun' : thread'[t].shape = ShapeOf[thread'[t].weight]
  BY <1>1, ThreadsKept
<1>3. fixed_B = NoBlock /\ Own \notin blocks
  BY <1>1, Distinct DEF IInv, ProductSound
<1>4. NoThreadOutlivesClear'
  BY <1>1 DEF IInv, NoThreadOutlivesClear
<1>5. queue # <<>> =>
        /\ Head(queue) \in In(queue) /\ Head(queue) \in Thread
        /\ Tail(queue) \in Seq(Thread) /\ NoRepeats(Tail(queue))
        /\ In(Tail(queue)) = In(queue) \ {Head(queue)}
  BY TailFacts DEF IInv, TypeOK, QueueSound
<1>6. CASE UsePrefetched(w)
  <2> DEFINE h == Head(queue)
  <2>1. /\ queue # <<>> /\ Fits(h, w) /\ queue' = Tail(queue) /\ fixed_B' = h
        /\ consumed' = consumed \cup {h} /\ blocks' = blocks
    BY <1>6 DEF UsePrefetched
  <2>2. /\ h \in In(queue) /\ h \in Thread /\ queue' \in Seq(Thread) /\ NoRepeats(queue')
        /\ In(queue') = In(queue) \ {h}
    BY <1>5, <2>1
  <2> HIDE DEF h
  <2>3. TypeOK'  BY <1>1, <2>1, <2>2 DEF IInv, TypeOK, Block
  <2>4. BlocksOfThreads'  BY <1>2, <2>1 DEF IInv, BlocksOfThreads
  <2>5. QueueSound'
    <3>1. NoRepeats(queue') /\ In(queue') \subseteq blocks' /\ In(queue') \cap consumed' = {}
      BY <2>1, <2>2 DEF IInv, QueueSound
    <3>2. \A u \in In(queue') \cup consumed' : Phase(u)' = "done"
      BY <1>2, <2>1, <2>2 DEF IInv, QueueSound
    <3>3. QED  BY <3>1, <3>2 DEF QueueSound, In, NoRepeats
  <2>6. ProductSound'
    BY <1>1, <1>3, <2>1, <2>2 DEF IInv, QueueSound, ProductSound
  <2>7. ShapesSound'
    <3>1. h \in Begun
      BY <2>2 DEF IInv, QueueSound, Phase, Begun, NotStarted
    <3>2. thread[h].shape = ShapeOf[thread[h].weight] /\ thread[h].weight \in Weight
      BY <2>2, <3>1 DEF IInv, ShapesSound, TypeOK, Begun, Started
    <3>3. thread[h].shape = ShapeOf[w]
      BY <2>1, <3>2, PrefetchAssumption DEF Fits
    <3>4. QED  BY <1>1, <1>2, <2>1, <3>3 DEF ShapesSound
  <2>8. OnlyUsedBlocksAreLost'
    BY <1>1, <1>3, <2>1, <2>2 DEF IInv, OnlyUsedBlocksAreLost, Queued, In, TypeOK, Block, NoBlock, Own, Thread
  <2>9. QED  BY <1>2, <1>4, <2>3, <2>4, <2>5, <2>6, <2>7, <2>8 DEF IInv
<1>7. CASE MakeOwn(w)
  <2> DEFINE gone == IF queue = <<>> THEN {} ELSE {Head(queue)}
  <2>1. /\ blocks' = (blocks \ gone) \cup {Own} /\ fixed_B' = Own /\ consumed' = consumed
        /\ queue' = IF queue = <<>> THEN queue ELSE Tail(queue)
    BY <1>7 DEF MakeOwn
  <2>2. /\ gone \subseteq In(queue) /\ gone \subseteq Thread /\ queue' \in Seq(Thread)
        /\ NoRepeats(queue') /\ In(queue') = In(queue) \ gone
    <3>1. CASE queue = <<>>  BY <2>1, <3>1 DEF IInv, TypeOK, QueueSound
    <3>2. CASE queue # <<>>  BY <1>5, <2>1, <3>2
    <3>3. QED  BY <3>1, <3>2
  <2>3. \A u \in gone : Phase(u) = "done"  BY <2>2 DEF IInv, QueueSound
  <2> HIDE DEF gone
  <2>4. TypeOK'  BY <1>1, <2>1, <2>2 DEF IInv, TypeOK, Block
  <2>5. BlocksOfThreads'
    BY <1>2, <2>1, <2>3, Distinct DEF IInv, BlocksOfThreads
  <2>6. QueueSound'
    <3>1. NoRepeats(queue') /\ In(queue') \subseteq blocks' /\ In(queue') \cap consumed' = {}
      BY <2>1, <2>2 DEF IInv, QueueSound
    <3>2. \A u \in In(queue') \cup consumed' : Phase(u)' = "done"
      BY <1>2, <2>1, <2>2 DEF IInv, QueueSound
    <3>3. QED  BY <3>1, <3>2 DEF QueueSound, In, NoRepeats
  <2>7. ProductSound'
    BY <1>1, <2>1, Distinct DEF ProductSound
  <2>8. ShapesSound'
    BY <1>2, <2>1, Distinct DEF ShapesSound
  <2>9. OnlyUsedBlocksAreLost'
    <3>1. In(queue) = Queued /\ In(queue') = Queued'  BY DEF In, Queued
    <3>2. NoBlock \notin blocks  BY Distinct DEF IInv, TypeOK, Block
    <3>3. QED  BY <1>1, <1>3, <2>1, <2>2, <3>1, <3>2 DEF IInv, OnlyUsedBlocksAreLost
  <2>10. QED  BY <1>2, <1>4, <2>4, <2>5, <2>6, <2>7, <2>8, <2>9 DEF IInv
<1>8. QED  BY <1>1, <1>6, <1>7

LEMMA EndProductKeeps == ASSUME IInv, EndProduct PROVE IInv'
<1>1. /\ pc = "product" /\ blocks' = (IF fixed_B = Own THEN blocks \ {Own} ELSE blocks)
      /\ fixed_B' = NoBlock /\ asked' = NoWeight /\ pc' = "idle"
      /\ UNCHANGED <<thread, active_prefetch_futures, queue, mutex, consumed>>
  BY DEF EndProduct, DeleteOwn
<1>2. /\ Begun' = Begun /\ InOrder' /\ \A t : Phase(t)' = Phase(t)
      /\ \A t \in Begun' : thread'[t].shape = ShapeOf[thread'[t].weight]
  BY <1>1, ThreadsKept
<1>3. blocks' = blocks \ {Own}
  BY <1>1 DEF IInv, ProductSound
<1>4. In(queue) \subseteq Thread  BY DEF IInv, TypeOK, In
<1>5. TypeOK'  BY <1>1, <1>3 DEF IInv, TypeOK
<1>6. BlocksOfThreads'  BY <1>2, <1>3, Distinct DEF IInv, BlocksOfThreads
<1>7. QueueSound'
  BY <1>1, <1>2, <1>3, <1>4, Distinct DEF IInv, QueueSound, NoRepeats, In
<1>8. ProductSound'  BY <1>1, <1>3, Distinct DEF ProductSound
<1>9. ShapesSound'  BY <1>1, <1>2, Distinct DEF ShapesSound
<1>10. OnlyUsedBlocksAreLost'
  <2>1. fixed_B \in consumed \cup {Own}
    BY <1>1 DEF IInv, ProductSound, TypeOK, Block
  <2>2. QED  BY <1>1, <1>3, <2>1 DEF IInv, OnlyUsedBlocksAreLost, Queued
<1>11. NoThreadOutlivesClear'  BY <1>1 DEF IInv, NoThreadOutlivesClear
<1>12. QED  BY <1>2, <1>5, <1>6, <1>7, <1>8, <1>9, <1>10, <1>11 DEF IInv

(* The steps of clear_queue other than the deletions. *)
LEMMA ClearKeeps == ASSUME IInv, BeginClear \/ Unlock \/ ClearFutures PROVE IInv'
<1>1. /\ pc # "product" /\ pc' \in {"idle", "clearing", "joining"} /\ mutex' \in {Nobody, Main}
      /\ UNCHANGED <<thread, queue, fixed_B, asked, blocks, consumed>>
      /\ active_prefetch_futures' \subseteq active_prefetch_futures
  BY DEF BeginClear, Unlock, ClearFutures, IInv, TypeOK
<1>2. /\ Begun' = Begun /\ InOrder' /\ \A t : Phase(t)' = Phase(t)
      /\ \A t \in Begun' : thread'[t].shape = ShapeOf[thread'[t].weight]
  BY <1>1, ThreadsKept
<1>3. TypeOK'  BY <1>1 DEF IInv, TypeOK
<1>4. BlocksOfThreads'  BY <1>1, <1>2 DEF IInv, BlocksOfThreads
<1>5. QueueSound'  BY <1>1, <1>2 DEF IInv, QueueSound, NoRepeats, In
<1>6. ProductSound'  BY <1>1 DEF IInv, ProductSound
<1>7. ShapesSound'  BY <1>1, <1>2 DEF IInv, ShapesSound
<1>8. OnlyUsedBlocksAreLost'  BY <1>1 DEF IInv, OnlyUsedBlocksAreLost, Queued
<1>9. NoThreadOutlivesClear'
  BY <1>1 DEF IInv, NoThreadOutlivesClear, BeginClear, Unlock, ClearFutures, AllDone
<1>10. QED  BY <1>2, <1>3, <1>4, <1>5, <1>6, <1>7, <1>8, <1>9 DEF IInv

LEMMA DeleteKeeps == ASSUME IInv, DeleteFront PROVE IInv'
<1> DEFINE h == Head(queue)
<1>1. /\ pc = "clearing" /\ queue # <<>> /\ blocks' = blocks \ {h} /\ queue' = Tail(queue)
      /\ UNCHANGED <<thread, active_prefetch_futures, mutex, pc, fixed_B, asked, consumed>>
  BY DEF DeleteFront
<1>2. /\ Begun' = Begun /\ InOrder' /\ \A t : Phase(t)' = Phase(t)
      /\ \A t \in Begun' : thread'[t].shape = ShapeOf[thread'[t].weight]
  BY <1>1, ThreadsKept
<1>3. /\ h \in In(queue) /\ h \in Thread /\ queue' \in Seq(Thread) /\ NoRepeats(queue')
      /\ In(queue') = In(queue) \ {h}
  BY <1>1, TailFacts DEF IInv, TypeOK, QueueSound
<1> HIDE DEF h
<1>4. TypeOK'  BY <1>1, <1>3 DEF IInv, TypeOK
<1>5. BlocksOfThreads'
  BY <1>1, <1>2, <1>3 DEF IInv, BlocksOfThreads, QueueSound
<1>6. QueueSound'
  <2>1. NoRepeats(queue') /\ In(queue') \subseteq blocks' /\ In(queue') \cap consumed' = {}
    BY <1>1, <1>3 DEF IInv, QueueSound
  <2>2. \A u \in In(queue') \cup consumed' : Phase(u)' = "done"
    BY <1>1, <1>2, <1>3 DEF IInv, QueueSound
  <2>3. QED  BY <2>1, <2>2 DEF QueueSound, In, NoRepeats
<1>7. ProductSound'  BY <1>1 DEF IInv, ProductSound
<1>8. ShapesSound'  BY <1>1, <1>2 DEF IInv, ShapesSound
<1>9. OnlyUsedBlocksAreLost'
  <2>1. In(queue) = Queued /\ In(queue') = Queued'  BY DEF In, Queued
  <2>2. QED  BY <1>1, <1>3, <2>1 DEF IInv, OnlyUsedBlocksAreLost
<1>10. NoThreadOutlivesClear'  BY <1>1 DEF IInv, NoThreadOutlivesClear
<1>11. QED  BY <1>2, <1>4, <1>5, <1>6, <1>7, <1>8, <1>9, <1>10 DEF IInv

LEMMA StepInv == ASSUME IInv, [Next]_vars PROVE IInv'
<1>1. CASE Next
  BY <1>1, PrefetchKeeps, FillKeeps, PushKeeps, BeginProductKeeps, EndProductKeeps,
     ClearKeeps, DeleteKeeps DEF Next, ThreadStep, ClearStep
<1>2. CASE UNCHANGED vars
  BY <1>2 DEF vars, IInv, TypeOK, InOrder, Begun, BlocksOfThreads, Phase, QueueSound, NoRepeats,
              In, ProductSound, ShapesSound, OnlyUsedBlocksAreLost, Queued, NoThreadOutlivesClear
<1>3. QED  BY <1>1, <1>2

LEMMA Invariance == Spec => []IInv
BY InitInv, StepInv, PTL DEF Spec

-----------------------------------------------------------------------------
(* The types of the queue, the threads and the product under way.          *)
THEOREM TypeCorrect == Spec => []TypeOK
<1>1. IInv => TypeOK  BY DEF IInv
<1>2. QED  BY <1>1, Invariance, PTL

(* However many threads push while products pop and clear_queue deletes, a *)
(* block is in the queue once or with one product, and exists              *)
(* (fixedpoint.h 509-526, tflite_manager.h 325).                           *)
THEOREM BlocksHaveOneOwner == Spec => []OneOwner
<1>1. IInv => OneOwner
  <2> SUFFICES ASSUME IInv PROVE OneOwner  OBVIOUS
  <2>1. In(queue) = Queued  BY DEF In, Queued
  <2>2. Cardinality(Queued) = Len(queue)
    BY <2>1, QueueSize DEF IInv, TypeOK, QueueSound
  <2>3. Queued \subseteq blocks /\ Queued \subseteq Thread
    BY <2>1 DEF IInv, TypeOK, QueueSound, In
  <2>4. fixed_B # NoBlock => fixed_B \in blocks
    BY DEF IInv, ProductSound
  <2>5. fixed_B \notin Queued
    BY <2>1, <2>3 DEF IInv, ProductSound, QueueSound
  <2>6. QED  BY <2>2, <2>3, <2>4, <2>5 DEF OneOwner
<1>2. QED  BY <1>1, Invariance, PTL

(* No interleaving loses a block that no product has used                  *)
(* (tflite_manager.h 333-343, 393-395).                                    *)
THEOREM NothingElseLost == Spec => []OnlyUsedBlocksAreLost
<1>1. IInv => OnlyUsedBlocksAreLost  BY DEF IInv
<1>2. QED  BY <1>1, Invariance, PTL

(* Weights whose shape is theirs alone reach their product, in whichever   *)
(* order the threads finish (tflite_manager.h 327).                        *)
THEOREM UniqueShapesSuffice == Spec => []UniqueShapeGetsItsWeights
<1>1. IInv => UniqueShapeGetsItsWeights
  <2> SUFFICES ASSUME IInv, pc = "product", fixed_B \in Thread,
                      \A w \in Weight \ {asked} : ShapeOf[w] # ShapeOf[asked]
               PROVE  thread[fixed_B].weight = asked
    BY DEF UniqueShapeGetsItsWeights
  <2>1. fixed_B \in Begun
    BY DEF IInv, ProductSound, QueueSound, Phase, Begun, NotStarted
  <2>2. thread[fixed_B].weight \in Weight
    BY <2>1 DEF IInv, TypeOK, Begun, Started
  <2>3. ShapeOf[thread[fixed_B].weight] = ShapeOf[asked]
    BY <2>1 DEF IInv, ShapesSound
  <2>4. QED  BY <2>2, <2>3
<1>2. QED  BY <1>1, Invariance, PTL

(* Once clear_queue has returned no thread reads the weights any more      *)
(* (fixedpoint.h 534-539, 557).                                            *)
THEOREM ThreadsAreJoined == Spec => []NoThreadOutlivesClear
<1>1. IInv => NoThreadOutlivesClear  BY DEF IInv
<1>2. QED  BY <1>1, Invariance, PTL

=============================================================================
