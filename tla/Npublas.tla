------------------------------ MODULE Npublas ------------------------------
(***************************************************************************)
(* The Python package over the engine: __init__.py keeps a default backend *)
(* and the global splits, pads every product, sends it down the direct or  *)
(* the tiled path, and lets a program compile a shape ahead of time.       *)
(*                                                                         *)
(* Each action is one call of the package.  A batched product, linear and  *)
(* addmm are sequences of matmul_patch calls, and so is backward, which    *)
(* passes on the backend its forward was called with.                      *)
(***************************************************************************)
EXTENDS ExecutionEngine, Dispatch

CONSTANTS
    Shape,          \* shapes of the products a program computes
    GlobalSplits    \* arguments of set_splits, Unset standing for None

VARIABLES
    default_backend_choice,
    global_splits,
    prepared   \* prepared[s] = the library instance s was compiled ahead on

vars == <<engineVars, default_backend_choice, global_splits, prepared>>

NoSplits == <<Unset, Unset, Unset>>

(* The graph a product of shape s needs: the whole padded product's, or    *)
(* that of one tile.                                                       *)
GraphFor(p, splits) == IF NeedsTiling(p) THEN Block(p, Splits(p, splits)) ELSE p

ASSUME KeyAssumption ==
    \A s \in Shape, g \in GlobalSplits \cup {NoSplits} : GraphFor(PaddedShape(s), g) \in Key

TypeOK ==
    /\ EngineTypeOK
    /\ default_backend_choice \in Choice
    /\ global_splits \in GlobalSplits \cup {NoSplits}
    /\ DOMAIN prepared \subseteq Shape
    /\ prepared \in [DOMAIN prepared -> Instance]

Init ==
    /\ EngineInit
    /\ default_backend_choice = 1
    /\ global_splits = NoSplits
    /\ prepared = [s \in {} |-> None]

Imported == engine.constructed /\ Running

(* The last lines of the package: initialize, failures ignored. *)
import_package ==
    /\ ~engine.constructed
    /\ initialize_npublas(default_backend_choice)
    /\ UNCHANGED <<default_backend_choice, global_splits, prepared>>

set_backend(backend_choice) ==
    /\ Imported
    /\ default_backend_choice' = backend_choice
    /\ set_backend_npu(backend_choice)
    /\ UNCHANGED <<global_splits, prepared>>

(* Wrong on purpose: only the first of the three globals is assigned. *)
setFirstSplit(splits) ==
    /\ Imported
    /\ global_splits' = <<splits[1], global_splits[2], global_splits[3]>>
    /\ UNCHANGED <<engineVars, default_backend_choice, prepared>>

set_splits(splits) ==
    /\ Imported
    /\ global_splits' = splits
    /\ UNCHANGED <<engineVars, default_backend_choice, prepared>>

set_power_mode ==
    /\ Imported
    /\ set_power_mode_npu
    /\ UNCHANGED <<default_backend_choice, global_splits, prepared>>

(* The graph prepare_matmul asks for: for a tiled product, that of a tile. *)
GraphToPrepare(s) == GraphFor(PreparedShape(s), global_splits)

prepare_matmul(s) ==
    LET key == GraphToPrepare(s) IN
    /\ Imported
    /\ \/ hasGraph(engine, key) /\ UNCHANGED engineVars
       \/ ~hasGraph(engine, key) /\ prepare_matmul_npu(key)
    /\ prepared' = IF hasGraph(engine', key) /\ engine'.graphCache[key].isValid
                   THEN Put(prepared, s, engine'.lib)
                   ELSE prepared
    /\ UNCHANGED <<default_backend_choice, global_splits>>

(* matmul_patch on two matrices: pad, then NPUMatMulFunction.forward. *)
matmul_patch(s, backend_choice) ==
    LET p == PaddedShape(s) IN
    /\ Imported
    /\ IF NeedsTiling(p)
       THEN matmul_tiled_npu(Block(p, Splits(p, global_splits)), backend_choice)
       ELSE matmul_npu(p, backend_choice)
    /\ UNCHANGED <<default_backend_choice, global_splits, prepared>>

Next ==
    \/ import_package
    \/ \E c \in Choice : set_backend(c)
    \/ \E g \in GlobalSplits : set_splits(g)
    \/ set_power_mode
    \/ \E s \in Shape : prepare_matmul(s)
    \/ \E s \in Shape : \/ matmul_patch(s, default_backend_choice)
                        \/ \E c \in Choice : matmul_patch(s, c)

Spec == Init /\ [][Next]_vars

-----------------------------------------------------------------------------
(* Safety. *)

StillPrepared(s) == s \in DOMAIN prepared /\ prepared[s] = engine.lib

(* As long as the library a shape was prepared on stays open, a product of *)
(* that shape finds its graph where matmul_npu looks for it, compiled: the *)
(* padding of prepare_matmul and of matmul_patch agree, and no other call  *)
(* removes or spoils the graph (__init__.py 74-76 and 161-163).            *)
PreparedDirectIsCached ==
    \A s \in Shape :
        StillPrepared(s) /\ ~NeedsTiling(PaddedShape(s)) =>
            /\ hasGraph(engine, PaddedShape(s))
            /\ engine.graphCache[PaddedShape(s)].isValid

(* Compiled work is lost only to a switch of backends: whatever the        *)
(* package does for the backend in use, the library stays open and every   *)
(* graph compiled so far stays in the cache as it was (loadBackend,        *)
(* execution.h 129-133, called by every product).                          *)
CompiledWorkIsKept ==
    [][isLoaded(engine) /\ engine'.currentBackendChoice = engine.currentBackendChoice =>
          /\ engine'.lib = engine.lib
          /\ \A k \in DOMAIN engine.graphCache :
                /\ hasGraph(engine', k)
                /\ engine'.graphCache[k] = engine.graphCache[k]]_vars

=============================================================================
