---------------------------- MODULE MatmulTiled ----------------------------
(***************************************************************************)
(* The loop of matmul_tiled (pipeline.h) once its graph is at hand: which  *)
(* elements of A and B each execution reads and which elements of C its    *)
(* result is added to.  Values are abstracted to what they are made of:    *)
(* C[r, c][x] counts how often the product A[r][x] * B[x][c] went into     *)
(* C[r][c], and C[r, c][Offset] how often what a failed execution leaves   *)
(* did: graphExecute's status is not looked at, and then the buffer, just  *)
(* zeroed, less 32768 and scaled, is added all the same.  The correction   *)
(* for the means, added with either, belongs to the term it comes with.    *)
(* The scratch buffers of an iteration are taken and given back within it, *)
(* and are Scratchpad's business.                                          *)
(***************************************************************************)
EXTENDS Dispatch, FiniteSets

CONSTANTS
    TiledShape,   \* padded shapes that take the tiled path
    Global        \* what set_splits may have left behind, Unset for None

(* The code checks no split.  Zero would be divided by; here it is Unset,  *)
(* that is None, and what the package does with it is left out.            *)
ASSUME TiledAssumption ==
    /\ \A s \in TiledShape : NeedsTiling(s) /\ s \in Nat \X Nat \X Nat
    /\ \A g \in Global : g \in Nat \X Nat \X Nat

VARIABLES
    shape,    \* <<M, K, N>>
    split,    \* <<m_split, k_split, n_split>>
    i,        \* the loop counter
    C,
    failed,   \* the iterations whose graphExecute failed (nobody notes them)
    pc

vars == <<shape, split, i, C, failed, pc>>

M == shape[1]
K == shape[2]
N == shape[3]
M_block == Block(shape, split)[1]
K_block == Block(shape, split)[2]
N_block == Block(shape, split)[3]

(* Indices of A's columns and B's rows, those past the end included, so    *)
(* that a read out of bounds would show. *)
Inner(s) == 0 .. 2 * s[2]
Cells(s) == (0 .. s[1] - 1) \X (0 .. s[3] - 1)

Offset == -1
Terms(s) == Inner(s) \cup {Offset}

Zero(s) == [cell \in Cells(s) |-> [x \in Terms(s) |-> 0]]

(* torch::zeros gives the output; the package chose the splits. *)
Init ==
    /\ shape \in TiledShape
    /\ \E g \in Global : split = Splits(shape, g)
    /\ i = 0
    /\ C = Zero(shape)
    /\ failed = {}
    /\ pc = "call"

(* The graph is valid: C is zeroed and the loop entered. *)
Begin ==
    /\ pc = "call"
    /\ C' = Zero(shape)
    /\ pc' = "loop"
    /\ UNCHANGED <<shape, split, i, failed>>

(* No backend, or a graph that failed to compile: nothing is executed. *)
BypassExecution ==
    /\ pc = "call"
    /\ C' = Zero(shape)
    /\ pc' = "done"
    /\ UNCHANGED <<shape, split, i, failed>>

(* Wrong on purpose: one index too many. *)
OverlappingSlice == {i * K_block + c : c \in 0 .. K_block}

(* The inner indices that iteration i copies into u_A_buf and u_B_buf. *)
Slice == {i * K_block + c : c \in 0 .. K_block - 1}

(* The cells the result of an execution is added to. *)
Tile == (0 .. M_block - 1) \X (0 .. N_block - 1)

Added(terms) ==
    [cell \in Cells(shape) |->
        [x \in Terms(shape) |->
            IF cell \in Tile /\ x \in terms THEN C[cell][x] + 1 ELSE C[cell][x]]]

(* One iteration: copy a slice of A and of B, execute, add what is in      *)
(* exec_out, whether the execution put it there or not.                    *)
Iterate ==
    /\ pc = "loop"
    /\ i < split[2]
    /\ \/ C' = Added(Slice) /\ UNCHANGED failed
       \/ C' = Added({Offset}) /\ failed' = failed \cup {i}
    /\ i' = i + 1
    /\ UNCHANGED <<shape, split, pc>>

Finish ==
    /\ pc = "loop"
    /\ i = split[2]
    /\ pc' = "done"
    /\ UNCHANGED <<shape, split, i, C, failed>>

Next == Begin \/ BypassExecution \/ Iterate \/ Finish

Spec == Init /\ [][Next]_vars

-----------------------------------------------------------------------------
Executed == pc = "done" /\ i = split[2]

(* Product x belongs to a slice, and the execution on it succeeded. *)
Computed(x) == x < K_block * split[2] /\ (x \div K_block) \notin failed

(* The tile is made of what the executions gave: each of its cells         *)
(* receives the products of every slice that was executed exactly once, of *)
(* the others none but, for each, the offset once; no cell outside the     *)
(* tile receives anything (pipeline.h 183-230, the status ignored at 208). *)
FirstTileExact ==
    Executed => \A cell \in Cells(shape) :
        /\ \A x \in Inner(shape) : C[cell][x] = IF cell \in Tile /\ Computed(x) THEN 1 ELSE 0
        /\ C[cell][Offset] = IF cell \in Tile THEN Cardinality(failed) ELSE 0

(* No iteration reads past the end of a row of A's or B's mantissas, for   *)
(* any splits, those that do not divide the dimensions included            *)
(* (pipeline.h 188, 193).                                                  *)
ReadsInBounds ==
    \A cell \in Cells(shape), x \in Inner(shape) : C[cell][x] > 0 => x < K

(* With the splits the package computes, the tile respects the limits that *)
(* made it split: M_block and N_block up to 1024, K_block up to K_LIMIT    *)
(* (__init__.py 34-37).                                                    *)
TileRespectsLimits ==
    split = Splits(shape, <<Unset, Unset, Unset>>) =>
        /\ M_block <= MaxDim
        /\ N_block <= MaxDim
        /\ KLimit > 0 => K_block <= KLimit

Complete == \A cell \in Cells(shape) : \A x \in 0 .. K - 1 : C[cell][x] = 1

(* The docstring "Custom Tiled NPU matmul with pipelining": a call all of  *)
(* whose executions succeeded computes the product, so every cell of C     *)
(* receives every inner product exactly once.                              *)
ProductComplete == Executed /\ failed = {} => Complete

=============================================================================
