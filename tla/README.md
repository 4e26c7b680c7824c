# TLA+ models of pytorch_npublas

`pytorch_npublas` replaces PyTorch's matrix products by products on a Qualcomm
NPU. A Python package patches `torch.matmul` and friends, a C++ extension
quantises the operands, compiles a QNN graph per shape through a vendor library
it opens at run time, and executes it. This directory holds TLA+ models of the
parts of that system that keep state, the TLC runs that check them on small
instances, and proofs, checked by TLAPS, that hold for every instance.

## Inventory

| Part | Source | State | Operations | Called by |
|---|---|---|---|---|
| Scratchpad | `fixedpoint.h` 83-199 | one arena, a doubly-linked list of block headers inside it, a mutex | `alloc`, `free`, `set_size` | every `FixedPointBlock`, `matmul_int8`, `matmul_tiled`, `create_model` |
| Execution engine | `utils/execution.h`, `utils/qnn_hta_direct.h` | open library, backend, device and log handles, `graphCache`, current backend number | `loadBackend`, `unloadActiveBackend`, `getOrCreateGraph`, `hasGraph`, `execute`, diagnostics, power mode | the exported functions |
| Tiled matmul | `pipeline.h` | `global_dynamic_fc_graphs`, which no other part knows of | `matmul_tiled` | `matmul_tiled_npu` |
| Exported functions | `npublas.cpp` | none of their own | `matmul`, `matmul_tiled`, `set_backend`, `initialize`, `prepare_matmul`, `has_graph`, `set_power_mode` | the Python package |
| Python package | `pytorch_npublas/__init__.py` | default backend, global splits | `set_backend`, `set_splits`, `prepare_matmul`, `matmul_patch` and what is built on it | user programs, autograd |
| Prefetch queue | `fixedpoint.h` 504-558 | a queue of quantised weights, the futures of the tasks that fill it | `prefetch_weights`, `pop`, `clear_queue` | the TFLite fallback |
| TFLite model cache | `tflite_manager.h` | `models`, each with an interpreter, a delegate and three scratchpad buffers | `fetch_model`, `create_model`, fallback part of `matmul_int8` | `matmul_npu` when no backend is loaded |
| TFLite generation server | `server.py`, request in `tflite_manager.h` 108-132 | the files in `matmuls/` | one request at a time over TCP | `create_model` |
| QNN compile server | `utils/qnn_server.cpp` | context binaries in `matmuls/` | the same protocol | stand-alone |
| Fixed-point numerics | `fixedpoint.h` 15-82, 200-503 | none | exponent fitting, rounding, scaling | every product |

How they interact: a product enters through `matmul_patch`, is padded to
multiples of four and takes the direct path (`matmul_int8`) or the tiled one
(`matmul_tiled`). Both first call `loadBackend` with the backend of the call;
when it differs from the loaded one, the library is closed together with every
graph in `graphCache`. The direct path looks its graph up in the engine's cache,
the tiled path in a map of its own. All operands live in the scratchpad. Without
a working backend the direct path falls back to TFLite, whose models a separate
server process writes to disk.

What is hard here:

* *Sequences of calls.* The allocator's list, the two graph caches and the
  library handles are built up over many calls; a mistake in one shows in
  another, much later.
* *Partial failure.* None of the vendor library's results is checked except that
  of `graphFinalize`; every call may fail while the next ones go on.
* *Threads and processes.* The exported functions hold Python's GIL and so
  exclude each other, and the scratchpad has its mutex. The prefetch tasks run
  beside them, and the TFLite server is another process that may be slow, absent
  or killed.
* *Boundaries.* Arena full, requests of zero bytes, splits that do not divide a
  dimension.

`PROJECT.json` lists each hazard at its line with the properties that cover it.

## Modules

| Module | Models | Notes |
|---|---|---|
| `ScratchpadPool` | what the allocator promises | abstract specification: ranges in use are disjoint |
| `Scratchpad` | `class Scratchpad` | one action per way a public call can end |
| `ScratchpadProofs` | | theorems about `Scratchpad` |
| `ExecutionEngine` | `QnnHtaExecutionEngine`, the tiled cache, `npublas.cpp` | one action per exported function; `EngineSpec` calls them in any order |
| `Dispatch` | padding, path and splits of `__init__.py` | operators only |
| `Npublas` | the Python package | composes `ExecutionEngine` and `Dispatch` |
| `NpublasProofs` | | theorems about `EngineSpec`; `Npublas` implements it; theorems about the package |
| `DirectProduct` | one product on the direct path, buffer by buffer | dynamic and static weights |
| `DirectProductProofs` | | theorems about `DirectProduct` |
| `MatmulTiled` | the loop of `matmul_tiled` | uses `Dispatch` for the splits |
| `MatmulTiledProofs` | | theorems about `MatmulTiled` and the splits of `Dispatch` |
| `Prefetch` | the prefetch queue, its threads and its consumer | threads, lock and join |
| `PrefetchProofs` | | theorems about `Prefetch` |
| `TfliteService` | client, server process and files of a TFLite model | timeouts, exceptions, kills |
| `ModelCache` | the vector of TFLite models and the fallback product | moves and destructors |
| `ModelCacheProofs` | | theorems about `ModelCache` |
| `QnnServer` | `qnn_server.cpp` | vendor calls one by one |
| `ServerProofs` | | theorems about `TfliteService` and `QnnServer` |
| `FixedPoint` | exponents, rounding, mantissas and their unsigned copies | one row |
| `FixedPointProofs` | | theorems about `FixedPoint`, with the powers of two and sums they need |
| `MC...` | | the values TLC gives to the constants |

**Scratchpad.** Addresses are offsets into the arena; `blk` maps the offset of a
header to its fields, `heap` is what `posix_memalign` handed out, `live` is what
callers hold and how much they asked for. `AllocFromArena` and `AllocFromHeap`
are `alloc` ending at line 162 and at 168; both start with
`initialize_if_needed`, which either allocator may refuse. `FreeToArena` and
`FreeToHeap` are the two branches of `free`. Callers free what they hold, once.
`set_size`, which nothing in the repository calls, is allowed when no arena
pointer is held: called earlier it leaves dangling pointers by design. The list
walk of `alloc` is the recursive function `Walk`. Sizes do not wrap: `size_t` is
64 bits wide and the arena 32 MiB.

**ExecutionEngine.** `engine` is the singleton's fields plus what the vendor
library holds for it (`contexts`). A handle is identified with the `dlopen` that
made it, so using a handle after its library was closed is visible. Which
libraries offer `deviceCreate`, `deviceFree`, `logCreate` and `logFree` are four
independent constants, as the code tests each function where it calls it: closing a
library clears the device and log handles only where it can free them, and opening
one replaces an old handle only where it can make a new one. `Opened` and
`Compiled` give every combination of vendor calls succeeding and failing.
`getOrCreateGraph` without a library follows a null pointer; the model then sets
`crashed` and stops. `ran` records the last product: the path it took, the graph
and the library it ran on. `freedDead` collects contexts passed to `contextFree`
after they were already freed.

**Npublas.** `prepared` is a history variable: the shapes `prepare_matmul`
compiled and the library it did so on. Batched products, vectors, `linear`,
`addmm` and `backward` call `matmul_patch` on matrices, so their effect is that
of a sequence of `matmul_patch` actions with a backend of their choosing.

**DirectProduct.** One product of `matmul_int8` on a loaded backend: find or
compile the graph, quantise, allocate the unsigned copies and the output, execute,
free, dequantise. A cached graph keeps the addresses of the buffers it last ran
on. `SetEnvironment` changes `USE_STATIC_WEIGHTS`, which the code reads again at
every compilation and every execution; with it set, an execution compiles a
temporary graph in a context of its own. A buffer is named after its variable and
the call that allocated it, and has contents: `memory` says which call's operands
went into it as left and right factor. The vendor library reads and writes through
the pointers it is handed (`Seen`, `graphExecute`); a pointer to freed memory may
find whatever was ever freed (`residue`), and so does an output buffer before it is
written, as the code does not clear it. A product is what the output buffer holds
at the end, so operands of another call are visible in it. A cached graph compiled
with static weights may use either what its B points to or its placeholders. A
failed `graphExecute` writes nothing and nobody looks at its status. Sizes are left
out.

**MatmulTiled.** Values are replaced by what they are made of:
`C[cell][x]` counts how often `A[r][x] * B[x][c]` was added to a cell. That is
exactly what tells a complete product from an incomplete one. An execution may
fail, which the code does not notice: `exec_out`, cleared before, less 32768 is
scaled and added all the same, counted by `C[cell][Offset]`; `failed` remembers
which iterations did. The correction for the means, added in either case, belongs to
the term it comes with. The OpenMP loop writes each cell once per iteration, so an
iteration is one step.

**Prefetch.** One `main` thread calls `prefetch_weights`, products and
`clear_queue`; the vector of futures has no lock, so the code allows no more than
one such thread. A prefetching thread is two steps, making its block and pushing
it, and the push needs the queue's lock. `clear_queue` is four: take the lock,
delete block by block, release the lock, wait for the threads. A product pops one
block, uses it when the shape fits, and otherwise deletes it and makes its own;
`consumed` remembers the prefetched blocks that were used, since the code never
deletes those. The interpreter and the A operand are left out. Nothing in the
repository calls `prefetch_weights` or `clear_queue` yet.

**TfliteService.** Several client processes, the server of `server.py` and the
directory `matmuls/`. A client whose cache misses connects, waits for an answer
at most 15 s (`Timeout` may come at any moment), and then opens the file whatever
was answered. The server takes one connection at a time; a file is absent,
partial from `open` to `close`, then complete. `Raise` leaves the connection in
the variable `conn`, as the `except` clause does, so its client hears nothing
until the next `accept` drops it. `fault`, chosen at the start, says which faults
a behaviour may have: the conversion raising, the write raising, the process
being killed. A killed server may be started again, and a client process may end
and run again with an empty cache; the files survive both. File names are chosen
by two operators, `filename` for the client and `generated` for the server, as in
the code.

**ModelCache.** A `Model` owns an interpreter, perhaps a delegate, and three
scratchpad buffers; `heap` gives the size of every resource that exists.
`push_back` doubles the storage when it is full, moves every element and destroys
what the moves leave behind, with the fields the move constructor resets. A call
of the fallback holds the GIL and is one action; the file may be missing, the
delegate refuse the graph, and `Invoke` fail.

**QnnServer.** One action per vendor call of `compileMatMulGraph`. Each of the five
ways out after a handle was made frees the handles its own lines name, the device
only if the library offers `deviceFree`, replies and goes back to `accept`; a
handle that a way out forgets stays in `held`. `firstRunDiagnosis`
is one step, as it frees all it makes.

**FixedPoint.** A float is its sign, exponent field and fraction, of parameterised
width; the bit manipulations of `fast_pow2` and of the stochastic rounding are
done on those fields with the width of the machine word. The phases of one row
(`fit_exponent`, rounding, centring, then either the unsigned copy or
`mantissa_to_floats`) are actions. `RoundRow` draws each element's noise from 0,
half and the largest, which between them give every result that some noise gives;
`RoundingIsFair` is about all noises. Powers of
two and the sum of a block are recursive functions, which the prover can reason
about where it cannot about `^` and folds.

Operators marked "wrong on purpose" are variants of the definition that follows
them, each with one plausible mistake. No specification uses them; substituting
one must make TLC report the property it is listed with in `PROJECT.json`, which
shows that the property depends on the code it is about.

## Runs

| Run | Checks | Result |
|---|---|---|
| `scratchpad` | `TypeOK`, `BlocksTileArena`, `FreeFindsItsBlock`, `FullCoalescing`, `PayloadAligned`, `HeapOnlyWhenFull`, refinement `PoolSpec` | hold |
| `npublas` | `TypeOK`, `PreparedDirectIsCached`, `EngineHoldsNoStaleHandle`, `ContextsMatchCache`, `DirectRunsWhereAsked`, action properties `CompiledWorkIsKept`, `OnlyInvalidGraphsFreedTwice` | hold |
| `direct_product` | `OwnOperands`, `NothingLeftBehind`, action property `BuffersAreLive` | hold |
| `tiled_loop` | `FirstTileExact`, `ReadsInBounds`, `TileRespectsLimits` | hold |
| `prefetch` | `OneOwner`, `OnlyUsedBlocksAreLost`, `UniqueShapeGetsItsWeights`, `NoThreadOutlivesClear`, liveness `NobodyWaitsForEver` | hold |
| `tflite_service` | `TypeOK`, `OkMeansComplete`, action property `FinishedFilesStay`, liveness `FetchReturns`, `RequestsAreServed` | hold |
| `model_cache` | `OwnedOnce`, `CopiesFit`, `OneModelPerKey` | hold |
| `qnn_server` | `NothingHeldBetweenRequests`, liveness `EveryRequestAnswered` | hold |
| `fixed_point` | `RoundingIsFair`, `EachElementOnce`, `ExponentIsTight`, `CentredExactly`, `EncodedDecodes` | hold |
| `tiled_backend` | `TiledRunsOnActiveBackend` | violated: the tiled cache outlives a backend switch |
| `tiled_product` | `ProductComplete` | violated: only the first tile of C is computed |
| `fixed_round_trip` | `RoundTrip` | violated: a row and its mean are scaled by different powers of two |

The findings in `PROJECT.json` quote the docstrings of `npublas.cpp` and the test
that the violated properties contradict.

Other disagreements met while modelling are visible in the models without a run
of their own:

* an entry whose compilation failed stays in the cache, so `has_graph` answers
  true for it (`execution.h` 484; `hasGraph`);
* `prepare_matmul` compiles the tile of a tiled product into the engine's cache,
  which the tiled path never reads (`__init__.py` 174; `prepare_matmul` and
  `matmul_tiled_npu`);
* a truncated `.tflite` file is taken for a finished one (`server.py` 11, 36;
  `UseCached` asks only whether the file is there), which is why `OkMeansComplete`
  excludes kills and full disks;
* a short write is reported as saved (`qnn_server.cpp` 273; `contextGetBinary`);
* a device or log handle whose library has no `deviceFree` or `logFree` survives the
  `dlclose` and is handed to `backendCreate`, `contextCreate` or `deviceFree` of the
  next library (`execution.h` 112, 120, 163, 167; `unloadActiveBackend`, `Opened`),
  which is what `EngineHoldsNoStaleHandle` excepts;
* a failed `graphExecute` is only logged and the unwritten buffer, which may hold an
  earlier product, is scaled into the result (`execution.h` 634; `Dequantise`), so
  `OwnOperands` is about executions that succeeded; on the tiled path the status is
  not looked at and a cleared buffer less 32768 is added (`pipeline.h` 208;
  `Iterate`), which `FirstTileExact` accounts for;
* 2 M K bytes are declared for the A operand where M K are allocated
  (`execution.h` 627);
* a matrix-vector product is computed through the NPU, thrown away for want of a
  `return`, and computed again by torch (`__init__.py` 66-71 and the `except` at
  the end of `matmul_patch`).

*Bounds.* In `scratchpad` the quantum is 2 and the arena 12, room for up to five
blocks, which is enough for a block with two neighbours that each have another
neighbour; the second arena, of size 5, does not end on the quantum. Requests of
0, of less than a quantum, of more than one and of half the arena make every
branch of `alloc` and `free` happen, the fallback included. In `npublas` two
backends whose libraries offer different functions (one makes a device that only the
other could free, and a log that it frees itself), two shapes and two library
loads (`MaxLoads`) allow a switch, a failed load, and a reload of the same
backend; at the bound a load simply fails. Padding is to 2 and
tiling starts beyond 4; one shape takes the direct path, the other is tiled, and
the tile of the second has the padded shape of the first, so the two caches can
be confused. In `direct_product` three products (`MaxCalls`) of two shapes let a
shape come back after its buffers were freed, with the weight mode switched
before, between and after and any execution failing. In `tiled_loop` dimensions up
to 8 with limit 3 give up to three pieces and every kind of remainder, and any
subset of the executions fails. In `prefetch` three threads
(`MaxThreads`) and three weights, two of one shape, let blocks arrive out of
order, arrive while the queue is being cleared, and fit or not fit the product
that pops them. In `tflite_service` two processes, two files and a backlog of one
make requests queue up, be refused, time out while the server works on them, and
meet the file of another; the three fault sets are none, conversions that raise,
and everything. In `model_cache` four keys make the vector grow three times, and
16 resources (`MaxResources`) are enough for all four models with delegates. In
`qnn_server` two shapes are enough, since nothing passes from one request to the
next but a device that cannot be freed; both libraries make one and only one of
them can free it. In `fixed_point` floats have three fraction
bits and a bias of 7; values come from both ends and the middle of the exponent
range, and rows of one, two and five elements have one and several blocks, and a
remainder behind the loop over four.

*Deadlock* is checked for the allocator, the direct product, the prefetch queue,
the TFLite service and the model cache. The other cfgs switch it off: the process
may crash (`npublas`), a tiled product or a row is finished (`tiled_loop`,
`fixed_point`), and the compile server exits when it finds no library or port
(`qnn_server`).

*Fairness.* `Prefetch`: weak fairness for each prefetching thread (the operating
system runs it, and the queue's lock is never held for ever), for the steps of a
`clear_queue` under way, and for the end of a product under way. `TfliteService`:
weak fairness for a client whose fetch is under way, its timer included
(`SO_RCVTIMEO` is set), and for a server that runs; nobody has to start a server.
`QnnServer`: the vendor calls of a request under way return. Nothing obliges a
program to call anything, and the other modules claim safety only.

## Proofs

Every theorem holds for all values of the constants that the modules'
assumptions allow; three theorems have a further hypothesis, named below.

Three proofs need induction over data: the walk of `alloc`, powers of two and the
sum of a block. The library's induction rules take a predicate as parameter,
which the installed provers cannot instantiate, so the two modules that need it
state induction of sets: `LeastElement` (a set of naturals that is not empty has
a least element, from the well-foundedness of `<`), `Induction` (a set that holds
0 and is closed under successor holds every natural) and `Recursion` (a step
function has an iteration). A recursive function is then first shown to exist and
to satisfy its equation, and what it computes is an induction over the set of the
numbers for which it does.

**ScratchpadProofs** assumes that an arena has room for a header and one byte, and
that the heap lies beyond every arena and does not hand out overlapping blocks
(`ScratchpadAssumption`). It proves `TypeCorrect`, `ArenaStaysTiled`
(`BlocksTileArena`), `FreeIsSafe` (`FreeFindsItsBlock`), `NothingLeaks`
(`FullCoalescing`), `PointersAligned` (`PayloadAligned`) and `ImplementsPool`, the
refinement `Spec => PoolSpec`. All rest on one inductive invariant, `IInv`. None of the properties is inductive
alone: `free` preserves the tiling only if what it is given is a block, which is
`FreeFindsItsBlock`; `FreeFindsItsBlock` survives a merge only if the swallowed
header is a free one and no two blocks overlap, which is the tiling; and
`FullCoalescing` needs, besides the tiling, that no two free blocks are
neighbours (`NoFreePair`) and that every block in use is held by a caller
(`EveryBlockHeld`). The lemmas follow the code: what a split does to a tiling
(`SplitTiled`), what setting `is_free` does (`MarkTiled`), what a merge does
(`AbsorbTiled`), then `Take` and `Coalesce` as their compositions, then one lemma
per action. `ImplementsPool` follows because two different blocks of a tiling are
disjoint (`ArenaGrant`) and the heap lies behind the arena (`HeapGrant`).
`PointersAligned` adds a second invariant: every header lies on the quantum. A
split keeps that because the size it cuts off was rounded up to the quantum, a
merge because it only removes headers. `FallbackOnlyWhenFull` (`HeapOnlyWhenFull`)
is about the walk of `alloc`: it follows `next` from the head, upwards
(`WalkAscends`); in a tiling every header is met (`WalkMeets`: the least one not
met would have a predecessor that was met); so if any block fits, the walk stops
at one that does (`WalkFinds`).

**NpublasProofs** starts with `EngineSpec`: the exported functions in any order,
with any backends, shapes and number of library loads. It proves `EngineTypeCorrect`,
`NoStaleHandle`, `NoLeakedContext`, `DirectRunsOnItsBackend` and
`FreedTwiceOnlyIfInvalid`. The invariant is `Sound(engine)`: the backend handle is
the open library's or none, a device or log handle that too or one its own library
could not free, whichever functions the libraries offer; a cached graph has the context made for its key by the open library,
or none and is then invalid; the engine's contexts are those of its valid graphs;
the library is the one of the current choice and the latest opened. It is stated
of an engine value, not of the variable, so that one lemma per C++ method
(`Unloaded`, `Loaded`, `Instantiated`, `GotGraph`, `Diagnosed`) can be chained
along the calls an exported function makes.

`TiledRunsOnActiveBackend` is violated (`tiled_backend`); `OneLibraryIsSafe` says
how far it holds: as long as no second library has been opened, whatever the
functions called. The invariant (`TiledInv`) says that a
valid tiled graph is of a library opened so far and, if of the latest, of the open
one; from the second library on, the graphs of the first are the stale ones the run
finds.

For the package it assumes that `Key` contains the graphs the shapes need
(`KeyAssumption`). `PackageImplementsEngine` shows that every step of the package
is an exported function or leaves the engine alone, so all theorems about
`EngineSpec` hold of the package, and with them `PackageTypeCorrect` (`TypeOK`).
`CompiledWorkKept` and `PreparedStaysCached` follow from a relation between the engine before and after a call (`Step`): the
library and every graph stay, or the library is gone, or one was opened since.
`PreparedDirectIsCached` alone is not inductive: it needs that the libraries in
`prepared` are among those opened so far, so that a library opened later is never
mistaken for one a shape was prepared on (`PreparedInv`).

**DirectProductProofs** proves `TypeCorrect`, `NothingLeaks`
(`NothingLeftBehind`), `OperandsAreOwn` (`OwnOperands`) and `ExecutesOnLiveBuffers`
(`BuffersAreLive`) for any shapes and number of products. The invariant says which
buffers and contexts exist at each point of a product (`LiveByStep`,
`ContextsByStep`) and what they hold (`ContentsByStep`): the call's own operands
from the quantisation on, its own weights in the temporary graph, and after a
successful execution a product of these in the output buffer. That the buffers
behind a graph's pointers are live when it runs is what makes their contents the
call's own.

**PrefetchProofs** proves `TypeCorrect`, `BlocksHaveOneOwner` (`OneOwner`),
`NothingElseLost` (`OnlyUsedBlocksAreLost`), `UniqueShapesSuffice`
(`UniqueShapeGetsItsWeights`) and `ThreadsAreJoined` (`NoThreadOutlivesClear`)
for any weights, calls and number of threads. A block's owner is not enough for
an induction: the invariant adds that threads are started in the order of their
numbers (so a call never reuses one that runs), that a block in the queue or in
use is that of a finished thread and is in one of the two places only, that a
block exists while its thread fills it, and that a thread's shape is its weight's.

**MatmulTiledProofs** proves `TileComputedRight` (`FirstTileExact`),
`TiledReadsInBounds` (`ReadsInBounds`), `ComputedSplitsRespectLimits`
(`TileRespectsLimits`), `EvenInnerSplitIsComplete` and
`OtherSplitsAreIncomplete` for padded shapes of any size, any limits and any splits. Splits are assumed not to be negative
(`TiledAssumption`); zero stands for None, and what the package does with a real
zero, a division by it, is left out. The invariant says what `C` holds after `i`
slices (`ContentsSound`): in each cell of the tile one of every product of the
executed slices so far and the offset once for each failed one (`FailedSound`: a
finite set of iterations done), nothing elsewhere. The rest is arithmetic: a block times its split is
at most the dimension (`BlocksFit`), and rounding the number of pieces up keeps a
piece within its limit (`PiecesFit`). `EvenInnerSplitIsComplete` delimits the
violation of `tiled_product`: a call that splits only the inner dimension, and
evenly, and none of whose executions fails, computes all of `C`;
`OtherSplitsAreIncomplete` shows that no other executed call on operands that are
not empty does.

**ServerProofs** proves `ServiceTypeCorrect` (`TypeOK`), `OkIsTrue`
(`OkMeansComplete`) and `FinishedFilesAreKept` (`FinishedFilesStay`) for any
number of clients, files and faults and any backlog. That an answer is true is not
inductive: the invariant adds that the client of an open connection still waits
for what the connection asks and has no second one (`ConnectionsSound`), so an
answer never reaches a client that has since asked for something else; that the
server converts only what is absent and writes only what it has opened
(`WorkSound`), which also gives `FinishedFilesStay`; and that without kills and
full disks only the file being written is partial (`NothingHalfDone`).

For the compile server, which shares no state with the other, it proves
`NothingHeld` (`NothingHeldBetweenRequests`), for any shapes and for libraries with
and without `deviceCreate` and `deviceFree`. The invariant (`QnnInv`) says which
handles there can be at each call of a compilation (`HeldSound`), since a way out
that names no context is right only where none was made, and that nothing is open
before `main` opened it.

**ModelCacheProofs** proves `NothingLostOrFreedTwice` (`OwnedOnce`),
`CopiesAlwaysFit` (`CopiesFit`) and `ModelsNeverRepeat` (`OneModelPerKey`) for any
shapes, backends and number of models. The invariant adds that resources are
numbered in the order they are made (`NumbersSound`), so a new one belongs to
nobody; that the buffers of every model whose interpreter was built fit its key
(`ModelsSound`); and that the model of the last product is still in the vector
(`RanSound`). Growing the vector is shown to keep every model as it was and to
free nothing, since the move constructor leaves nothing behind to destroy.

**FixedPointProofs** proves `EveryElementOnce` (`EachElementOnce`), `RoundingFair`
(`RoundingIsFair`), `ExponentsTight` (`ExponentIsTight`), `CentringExact`
(`CentredExactly`), `EncodingDecodes` (`EncodedDecodes`) and `RoundTripLosesRow`
for rows of any finite length, blocks of any size, any number of lanes and floats
and words of any width.

* The blocks: a block index is the quotient by the block size, and the last block
  is not empty (`BlocksPartition`); the starts of the loop in steps of `Lanes` are
  the multiples below `remainder_start` (`LoopsMeet`).
* The rounding: each of the four cases of the shift is worked out in powers of
  two, and the noises that round up are shown to be an interval, whose size is the
  fraction.
* The exponent: it is that of the largest exponent field, and a float's magnitude
  lies between the powers of two around it.
* The mean: a mean is within the bound of its block, so the scaled mean is at most
  2^`Precision` in magnitude and fits a mantissa that is two bits wider (`WideMantissa`, a
  hypothesis of the last three theorems; the 16-bit type at precision 8 satisfies
  it, the 8-bit type does not). A row scaled below one rounds to -1, 0 or 1.
* The unsigned copy needs, besides, an offset of at most half the range of the
  type (127 in 16 bits).
* `RoundTripLosesRow` delimits the finding of `fixed_round_trip`: whatever the row,
  what `mantissa_to_floats` gives back for a block clear of the ends of the
  exponent range lies within three halves of 2^(exponent - precision) of zero.

The invariants follow the phases: the row and its block size stay as `Init` chose
them (`RowTyped`), the exponents and means are those of the row (`Fitted`), and
after each later phase the mantissas and outputs are what that phase makes of them
(`CInv`: `IsRounded`, `IsCentred`, `IsEncoded`, `IsRestored`).

*Only model-checked.* Liveness (`NobodyWaitsForEver`, `FetchReturns`,
`RequestsAreServed`, `EveryRequestAnswered`), which the installed provers do not
handle, as they do not `ENABLED`. `CentredExactly` and `EncodedDecodes` for 8-bit
mantissas are neither proved nor checked: the conversion of the scaled mean can
leave the type there (`fixedpoint.h` 374, listed as a hazard).

## Not modelled

* The ION memory functions of the engine (`registerIonMemory`,
  `deregisterMemory`, `executeWithHandles`), the move assignment of `Model` and
  `mantissa_to_floats_product`, which nothing calls.
* Of the numerics: the search for a precision (every caller forces 8), the
  standard deviations only that search reads, the generator of the noise
  (`xorshift32`), and the rounding of sums of floats.
* Sizes of buffers on the direct path and inside vendor calls; tensor types and
  quantisation parameters.
* Ranks and broadcasting in `matmul_patch`: they decide how many matrix products
  are computed, not what a product does to the state.
* TensorFlow Lite, the QNN libraries, the operating system: external, modelled by
  what their calls may answer.
* Tests, the benchmark, the training script and build files, which only call the
  package; and everything under `include/`: vendored TensorFlow, Abseil,
  FlatBuffers and QNN headers, more than 99 % of the lines in the repository and
  none of its own logic.

## Plan

1. A composition of `ModelCache` with `ScratchpadPool` and `Prefetch`, with the
   model's buffers taken from the pool the operands come from.
2. Sizes in `DirectProduct`, so that what is declared to the vendor library can
   be held against what is allocated.
