------------------------------ MODULE Dispatch ------------------------------
(***************************************************************************)
(* How pytorch_npublas/__init__.py turns the shape of a product into the   *)
(* shape the backend sees: padding to a multiple of four, the choice       *)
(* between the direct and the tiled path, and the splits of the latter.    *)
(* A shape <<m, k, n>> is that of an m x k by k x n product.               *)
(***************************************************************************)
EXTENDS Integers

CONSTANTS
    Quantum,   \* 4: every dimension is padded to a multiple of it
    MaxDim,    \* 1024: the largest m or n of a single graph
    KLimit     \* the K_LIMIT environment variable, 0 when unset

ASSUME DispatchAssumption ==
    /\ Quantum \in Nat \ {0}
    /\ MaxDim \in Nat \ {0}
    /\ KLimit \in Nat

Pad(x) == ((x + Quantum - 1) \div Quantum) * Quantum

(* Wrong on purpose: no padding. *)
Unpadded(s) == s

(* matmul_patch pads before it calls forward, prepare_matmul on its own. *)
PaddedShape(s) == <<Pad(s[1]), Pad(s[2]), Pad(s[3])>>
PreparedShape(s) == <<Pad(s[1]), Pad(s[2]), Pad(s[3])>>

NeedsTiling(s) == (KLimit > 0 /\ s[2] > KLimit) \/ s[1] > MaxDim \/ s[3] > MaxDim

(* Wrong on purpose: rounded down. *)
PiecesRoundedDown(x, limit) == LET p == x \div limit IN IF p > 1 THEN p ELSE 1

Pieces(x, limit) == LET p == (x + limit - 1) \div limit IN IF p > 1 THEN p ELSE 1

(* The splits set_splits left behind, dimension by dimension, or computed  *)
(* ones where it left None. *)
Unset == 0
Splits(s, global) ==
    LET computed == <<Pieces(s[1], MaxDim),
                      IF KLimit > 0 THEN Pieces(s[2], KLimit) ELSE 1,
                      Pieces(s[3], MaxDim)>>
    IN  [d \in 1 .. 3 |-> IF global[d] = Unset THEN computed[d] ELSE global[d]]

(* Wrong on purpose: the remainder makes the blocks larger. *)
BlockRoundedUp(s, split) ==
    [d \in 1 .. 3 |-> (s[d] + split[d] - 1) \div split[d]]

(* M_block, K_block and N_block: integer division drops the remainder. *)
Block(s, split) == <<s[1] \div split[1], s[2] \div split[2], s[3] \div split[3]>>

=============================================================================
