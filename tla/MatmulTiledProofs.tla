------------------------- MODULE MatmulTiledProofs -------------------------
(***************************************************************************)
(* What TLAPS proves about MatmulTiled, for padded shapes of any size, any *)
(* limits and any splits.                                                  *)
(***************************************************************************)
EXTENDS MatmulTiled, FiniteSetTheorems, TLAPS

(* What C holds after i slices. *)
Products(cell, x) ==
    IF cell \in Tile /\ x < i * K_block /\ (x \div K_block) \notin failed THEN 1 ELSE 0

Offsets(cell) == IF cell \in Tile THEN Cardinality(failed) ELSE 0

LoopSound ==
    /\ shape \in Nat \X Nat \X Nat
    /\ split \in [1 .. 3 -> Nat \ {0}]
    /\ i \in 0 .. split[2]
    /\ pc = "call" => i = 0

FailedSound == IsFiniteSet(failed) /\ failed \subseteq 0 .. i - 1

ContentsSound ==
    \A cell \in Cells(shape) :
        /\ \A x \in Inner(shape) : C[cell][x] = Products(cell, x)
        /\ C[cell][Offset] = Offsets(cell)

IInv == LoopSound /\ FailedSound /\ ContentsSound

-----------------------------------------------------------------------------
(* Division and multiplication. *)

LEMMA Division ==
    \A a \in Nat, b \in Nat \ {0} :
        a \div b \in Nat /\ b * (a \div b) <= a /\ a < b * (a \div b) + b
<1>1. \A a \in Nat, b \in Nat \ {0} : a \div b \in Nat  OBVIOUS
<1>2. \A a \in Nat, b \in Nat \ {0} : b * (a \div b) <= a  OBVIOUS
<1>3. \A a \in Nat, b \in Nat \ {0} : a < b * (a \div b) + b  OBVIOUS
<1>4. QED  BY <1>1, <1>2, <1>3

LEMMA Multiplication ==
    /\ \A a, b \in Nat : a * b \in Nat /\ a * b = b * a /\ (a + 1) * b = a * b + b
    /\ \A a, b, c \in Nat : a <= b => a * c <= b * c
    /\ \A a, b \in Nat, c \in Nat \ {0} : a * c <= b * c => a <= b
<1>1. \A a, b \in Nat : a * b \in Nat /\ a * b = b * a /\ (a + 1) * b = a * b + b  OBVIOUS
<1>2. \A a, b, c \in Nat : a <= b => a * c <= b * c  OBVIOUS
<1>3. \A a, b \in Nat, c \in Nat \ {0} : a * c <= b * c => a <= b  OBVIOUS
<1>4. QED  BY <1>1, <1>2, <1>3

(* A dimension is cut into at least one piece, and no piece exceeds the    *)
(* limit it was cut for.                                                   *)
LEMMA PiecesFit ==
    \A x \in Nat, limit \in Nat \ {0} :
        Pieces(x, limit) \in Nat \ {0} /\ x \div Pieces(x, limit) <= limit
<1> SUFFICES ASSUME NEW x \in Nat, NEW limit \in Nat \ {0}
             PROVE  Pieces(x, limit) \in Nat \ {0} /\ x \div Pieces(x, limit) <= limit
  OBVIOUS
<1> DEFINE p == (x + limit - 1) \div limit
           q == Pieces(x, limit)
<1>1. p \in Nat /\ x + limit - 1 < limit * p + limit
  <2>1. x + limit - 1 \in Nat  OBVIOUS
  <2>2. QED  BY <2>1, Division
<1>2. q = IF p > 1 THEN p ELSE 1
  BY DEF Pieces
<1> HIDE DEF p, q
<1>3. limit * p = p * limit /\ limit * p \in Nat
  BY <1>1, Multiplication
<1>4. x <= p * limit
  BY <1>1, <1>3
<1>5. q \in Nat \ {0} /\ p <= q
  BY <1>1, <1>2
<1>6. p * limit <= q * limit /\ q * limit \in Nat /\ q * limit = limit * q
  BY <1>1, <1>5, Multiplication
<1>7. x \div q \in Nat /\ q * (x \div q) <= x /\ q * (x \div q) = (x \div q) * q
  <2>1. x \div q \in Nat /\ q * (x \div q) <= x  BY <1>5, Division, Zenon
  <2>2. q \in Nat  BY <1>5
  <2>3. QED  BY <2>1, <2>2, Multiplication, Zenon
<1> DEFINE r == x \div q
<1>8. r \in Nat /\ q * r <= x /\ q * r = r * q
  BY <1>7
<1> HIDE DEF r
<1>9. r * q <= limit * q
  <2>1. x <= limit * q  BY <1>3, <1>4, <1>6
  <2>2. r * q \in Nat /\ limit * q \in Nat  BY <1>5, <1>8, Multiplication
  <2>3. QED  BY <1>8, <2>1, <2>2
<1>10. r <= limit
  BY <1>5, <1>8, <1>9, Multiplication
<1>11. QED  BY <1>5, <1>10 DEF q, r

(* The blocks are numbers, and the slices of a dimension stay inside it. *)
LEMMA BlocksFit ==
    ASSUME LoopSound
    PROVE  /\ M_block \in Nat /\ K_block \in Nat /\ N_block \in Nat
           /\ M_block <= M /\ N_block <= N
           /\ K \in Nat /\ i \in Nat /\ split[2] \in Nat
           /\ i * K_block \in Nat /\ i * K_block <= K
           /\ K_block * split[2] = split[2] * K_block
<1>1. /\ M \in Nat /\ K \in Nat /\ N \in Nat
      /\ \A d \in 1 .. 3 : split[d] \in Nat \ {0}
      /\ i \in Nat /\ i <= split[2]
  BY DEF LoopSound, M, K, N
<1>2. M_block = M \div split[1] /\ K_block = K \div split[2] /\ N_block = N \div split[3]
  BY DEF M_block, K_block, N_block, Block, M, K, N
<1>3. /\ M_block \in Nat /\ K_block \in Nat /\ N_block \in Nat
      /\ split[1] * M_block <= M /\ split[2] * K_block <= K /\ split[3] * N_block <= N
  <2>1. split[1] \in Nat \ {0} /\ split[2] \in Nat \ {0} /\ split[3] \in Nat \ {0}  BY <1>1
  <2>2. QED  BY <1>1, <1>2, <2>1, Division, Zenon
<1> HIDE DEF M_block, K_block, N_block, M, K, N
<1>4. \A a \in Nat, s \in Nat \ {0} : a <= s * a
  BY Multiplication
<1>5. M_block <= M /\ N_block <= N
  <2>1. M_block <= split[1] * M_block /\ N_block <= split[3] * N_block
    BY <1>1, <1>3, <1>4
  <2>2. split[1] * M_block \in Nat /\ split[3] * N_block \in Nat
    BY <1>1, <1>3, Multiplication
  <2>3. QED  BY <1>1, <1>3, <2>1, <2>2
<1>6. /\ i * K_block \in Nat /\ split[2] * K_block \in Nat
      /\ i * K_block <= split[2] * K_block
      /\ K_block * split[2] = split[2] * K_block
  BY <1>1, <1>3, Multiplication
<1>7. i * K_block <= K
  BY <1>1, <1>3, <1>6
<1>8. QED  BY <1>1, <1>3, <1>5, <1>6, <1>7

(* An index lies in the slice that its quotient by the block numbers. *)
LEMMA SliceOfIndex ==
    \A x, j \in Nat, b \in Nat \ {0} : x \div b = j <=> j * b <= x /\ x < j * b + b
<1> SUFFICES ASSUME NEW x \in Nat, NEW j \in Nat, NEW b \in Nat \ {0}
             PROVE  x \div b = j <=> j * b <= x /\ x < j * b + b
  OBVIOUS
<1> DEFINE q == x \div b
<1>1. q \in Nat /\ b * q <= x /\ x < b * q + b
  BY Division
<1> HIDE DEF q
<1>2. b * q = q * b /\ q * b \in Nat /\ (q + 1) * b = q * b + b
  BY <1>1, Multiplication
<1>3. j * b \in Nat /\ (j + 1) * b = j * b + b
  BY Multiplication
<1>4. ASSUME j * b <= x, x < j * b + b, q < j  PROVE FALSE
  <2>1. (q + 1) * b <= j * b
    <3>1. q + 1 \in Nat /\ q + 1 <= j  BY <1>1, <1>4
    <3>2. QED  BY <3>1, Multiplication
  <2>2. QED  BY <1>1, <1>2, <1>3, <1>4, <2>1
<1>5. ASSUME j * b <= x, x < j * b + b, j < q  PROVE FALSE
  <2>1. (j + 1) * b <= q * b
    <3>1. j + 1 \in Nat /\ j + 1 <= q  BY <1>1, <1>5
    <3>2. QED  BY <1>1, <3>1, Multiplication
  <2>2. QED  BY <1>1, <1>2, <1>3, <1>5, <2>1
<1>6. j * b <= x /\ x < j * b + b => q = j
  BY <1>1, <1>4, <1>5
<1>7. q = j => j * b <= x /\ x < j * b + b
  BY <1>1, <1>2
<1>8. QED  BY <1>6, <1>7 DEF q

(* Iteration i reads the indices after those of the iterations before,     *)
(* which are the ones whose slice is i.                                    *)
LEMMA SliceIsNext ==
    ASSUME LoopSound, NEW x \in Nat
    PROVE  /\ x < (i + 1) * K_block <=> (x < i * K_block \/ x \in Slice)
           /\ x \in Slice => ~(x < i * K_block)
           /\ x \in Slice => x \div K_block = i
           /\ x < i * K_block => x \div K_block # i
<1> DEFINE b == K_block
           p == i * b
<1>1. b \in Nat /\ i \in Nat /\ p \in Nat /\ (i + 1) * b = p + b
  BY BlocksFit, Multiplication
<1>2. Slice = {p + c : c \in 0 .. b - 1}
  BY DEF Slice
<1>5. b # 0 => (x \div b = i <=> p <= x /\ x < p + b)
  BY <1>1, SliceOfIndex
<1>6. b = 0 => p = 0
  BY <1>1
<1> HIDE DEF b, p
<1>3. x \in Slice <=> p <= x /\ x < p + b
  <2>1. ASSUME p <= x, x < p + b  PROVE x \in Slice
    <3>1. x - p \in 0 .. b - 1 /\ x = p + (x - p)  BY <1>1, <2>1
    <3>2. QED  BY <1>2, <3>1
  <2>2. ASSUME NEW c \in 0 .. b - 1  PROVE p <= p + c /\ p + c < p + b
    BY <1>1, <2>2
  <2>3. QED  BY <1>2, <2>1, <2>2
<1>4. QED  BY <1>1, <1>3, <1>5, <1>6 DEF b, p

LEMMA InnerIsNat == LoopSound => Inner(shape) \subseteq Nat
BY DEF LoopSound, Inner

-----------------------------------------------------------------------------
LEMMA InitIInv == Init => IInv
<1> SUFFICES ASSUME Init  PROVE IInv
  OBVIOUS
<1>1. LoopSound
  <2>1. shape \in Nat \X Nat \X Nat
    BY TiledAssumption DEF Init
  <2>2. PICK g \in Global : split = Splits(shape, g)
    BY DEF Init
  <2>3. g \in Nat \X Nat \X Nat
    BY TiledAssumption
  <2>4. /\ Pieces(shape[1], MaxDim) \in Nat \ {0} /\ Pieces(shape[3], MaxDim) \in Nat \ {0}
        /\ KLimit > 0 => Pieces(shape[2], KLimit) \in Nat \ {0}
    BY <2>1, PiecesFit, DispatchAssumption
  <2>5. split \in [1 .. 3 -> Nat \ {0}]
    <3>1. \A d \in 1 .. 3 : Splits(shape, g)[d] \in Nat \ {0}
      BY <2>3, <2>4 DEF Splits, Unset
    <3>2. QED  BY <2>2, <3>1 DEF Splits
  <2>6. i = 0 /\ 0 \in 0 .. split[2]
    BY <2>5 DEF Init
  <2>7. QED  BY <2>1, <2>5, <2>6 DEF LoopSound
<1>2. ContentsSound
  <2>1. i * K_block = 0  BY <1>1, BlocksFit DEF Init
  <2>2. \A x \in Inner(shape) : x \in Nat  BY <1>1, InnerIsNat
  <2>3. \A cell \in Cells(shape), x \in Terms(shape) : C[cell][x] = 0
    BY DEF Init, Zero
  <2>4. Cardinality(failed) = 0  BY FS_EmptySet DEF Init
  <2>5. QED  BY <2>1, <2>2, <2>3, <2>4 DEF ContentsSound, Products, Offsets, Terms
<1>3. FailedSound
  BY FS_EmptySet DEF Init, FailedSound
<1>4. QED  BY <1>1, <1>2, <1>3 DEF IInv

LEMMA NextKeepsIInv == IInv /\ [Next]_vars => IInv'
<1> SUFFICES ASSUME IInv, [Next]_vars  PROVE IInv'
  OBVIOUS
<1>0. LoopSound /\ FailedSound /\ ContentsSound
  BY DEF IInv
<1>1. CASE Begin \/ BypassExecution
  <2>1. /\ i = 0 /\ C' = Zero(shape) /\ pc' # "call"
        /\ UNCHANGED <<shape, split, i, failed>>
    BY <1>0, <1>1 DEF LoopSound, Begin, BypassExecution
  <2>2. LoopSound' /\ FailedSound'
    BY <1>0, <2>1 DEF LoopSound, FailedSound
  <2>3. K_block' = K_block /\ Tile' = Tile /\ K_block \in Nat
    BY <1>0, <2>1, BlocksFit DEF K_block, Tile, M_block, N_block
  <2>4. i' * K_block' = 0
    BY <2>1, <2>3
  <2>5. \A cell \in Cells(shape), x \in Terms(shape) : C'[cell][x] = 0
    BY <2>1 DEF Zero
  <2>6. \A x \in Inner(shape) : x \in Nat
    BY <1>0, InnerIsNat
  <2>7. failed' = {}
    BY <1>0, <2>1 DEF FailedSound
  <2>8. Cardinality(failed') = 0
    BY <2>7, FS_EmptySet
  <2>9. ContentsSound'
    BY <2>1, <2>4, <2>5, <2>6, <2>8 DEF ContentsSound, Products, Offsets, Terms
  <2>10. QED  BY <2>2, <2>9 DEF IInv
<1>2. CASE Iterate
  <2>1. /\ i' = i + 1 /\ i < split[2] /\ pc = "loop" /\ UNCHANGED <<shape, split, pc>>
    BY <1>2 DEF Iterate
  <2>2. LoopSound'
    BY <1>0, <2>1 DEF LoopSound
  <2>3. K_block' = K_block /\ Tile' = Tile /\ i \in Nat
    BY <1>0, <2>1 DEF K_block, Tile, M_block, N_block, LoopSound
  <2>4. i \notin failed
    BY <1>0, <2>3 DEF FailedSound
  <2>5. Offset \notin Slice /\ Offset \notin Inner(shape)
    <3>1. i * K_block \in Nat /\ K_block \in Nat  BY <1>0, BlocksFit
    <3>2. QED  BY <1>0, <3>1, InnerIsNat DEF Slice, Offset
  <2>6. \A x \in Inner(shape) :
            /\ x \in Nat
            /\ x < (i + 1) * K_block <=> (x < i * K_block \/ x \in Slice)
            /\ x \in Slice => ~(x < i * K_block)
            /\ x \in Slice => x \div K_block = i
            /\ x < i * K_block => x \div K_block # i
    BY <1>0, InnerIsNat, SliceIsNext
  <2>7. \A cell \in Cells(shape) :
            /\ \A x \in Inner(shape) :
                  C[cell][x] = IF cell \in Tile /\ x < i * K_block /\ (x \div K_block) \notin failed
                               THEN 1 ELSE 0
            /\ C[cell][Offset] = IF cell \in Tile THEN Cardinality(failed) ELSE 0
    BY <1>0 DEF ContentsSound, Products, Offsets
  <2>8. ASSUME NEW terms, C' = Added(terms)
        PROVE  \A cell \in Cells(shape), x \in Inner(shape) \cup {Offset} :
                   C'[cell][x] = IF cell \in Tile /\ x \in terms THEN C[cell][x] + 1 ELSE C[cell][x]
    BY <2>8 DEF Added, Terms
  <2>9. CASE C' = Added(Slice) /\ UNCHANGED failed
    <3>1. FailedSound'
      BY <1>0, <2>1, <2>3, <2>9 DEF FailedSound
    <3>2. ASSUME NEW cell \in Cells(shape), NEW x \in Inner(shape)
          PROVE  C'[cell][x] = IF cell \in Tile /\ x < (i + 1) * K_block /\ (x \div K_block) \notin failed
                               THEN 1 ELSE 0
      BY <2>4, <2>6, <2>7, <2>8, <2>9
    <3>3. ASSUME NEW cell \in Cells(shape)
          PROVE  C'[cell][Offset] = IF cell \in Tile THEN Cardinality(failed) ELSE 0
      BY <2>5, <2>7, <2>8, <2>9
    <3>4. ContentsSound'
      BY <2>1, <2>3, <2>9, <3>2, <3>3 DEF ContentsSound, Products, Offsets
    <3>5. QED  BY <2>2, <3>1, <3>4 DEF IInv
  <2>10. CASE C' = Added({Offset}) /\ failed' = failed \cup {i}
    <3>1. /\ IsFiniteSet(failed')
          /\ Cardinality(failed') = Cardinality(failed) + 1
      BY <1>0, <2>4, <2>10, FS_AddElement DEF FailedSound
    <3>2. FailedSound'
      BY <1>0, <2>1, <2>3, <2>10, <3>1 DEF FailedSound
    <3>3. ASSUME NEW cell \in Cells(shape), NEW x \in Inner(shape)
          PROVE  C'[cell][x] = IF cell \in Tile /\ x < (i + 1) * K_block /\ (x \div K_block) \notin failed'
                               THEN 1 ELSE 0
      <4>1. C'[cell][x] = C[cell][x]
        <5>1. x \notin {Offset}  BY <2>5
        <5>2. C'[cell][x] = IF cell \in Tile /\ x \in {Offset} THEN C[cell][x] + 1 ELSE C[cell][x]
          BY <2>10 DEF Added, Terms
        <5>3. QED  BY <5>1, <5>2
      <4>2. (x < (i + 1) * K_block /\ (x \div K_block) \notin failed')
            <=> (x < i * K_block /\ (x \div K_block) \notin failed)
        BY <2>6, <2>10
      <4>3. QED  BY <2>7, <4>1, <4>2
    <3>4. ASSUME NEW cell \in Cells(shape)
          PROVE  C'[cell][Offset] = IF cell \in Tile THEN Cardinality(failed) + 1 ELSE 0
      BY <2>7, <2>8, <2>10
    <3>5. ContentsSound'
      BY <2>1, <2>3, <3>1, <3>3, <3>4 DEF ContentsSound, Products, Offsets
    <3>6. QED  BY <2>2, <3>2, <3>5 DEF IInv
  <2>11. QED  BY <1>2, <2>9, <2>10 DEF Iterate
<1>3. CASE Finish
  <2>1. UNCHANGED <<shape, split, i, C, failed>> /\ pc' # "call"
    BY <1>3 DEF Finish
  <2>2. QED  BY <1>0, <2>1 DEF IInv, LoopSound, FailedSound, ContentsSound, Products, Offsets,
                               Tile, K_block, M_block, N_block
<1>4. CASE UNCHANGED vars
  BY <1>0, <1>4 DEF vars, IInv, LoopSound, FailedSound, ContentsSound, Products, Offsets,
                    Tile, K_block, M_block, N_block
<1>5. QED  BY <1>1, <1>2, <1>3, <1>4 DEF Next

(* The invariant that the properties rest on: after i slices, C holds in   *)
(* the cells of the tile exactly the products of those slices that were    *)
(* executed, and one offset for each of the others.                        *)
THEOREM LoopInvariant == Spec => []IInv
<1>1. QED  BY InitIInv, NextKeepsIInv, PTL DEF Spec

(* The tile is made of what the executions gave, whatever its size,        *)
(* however the inner dimension is cut and whichever executions fail: every *)
(* product of a slice that was executed goes into every one of its cells   *)
(* once, an offset for each that was not, and nothing into any other cell  *)
(* (pipeline.h 183-230).                                                   *)
THEOREM TileComputedRight == Spec => []FirstTileExact
<1>1. IInv => FirstTileExact
  <2> SUFFICES ASSUME IInv, i = split[2], NEW cell \in Cells(shape)
               PROVE  /\ \A x \in Inner(shape) :
                            C[cell][x] = IF cell \in Tile /\ Computed(x) THEN 1 ELSE 0
                      /\ C[cell][Offset] = IF cell \in Tile THEN Cardinality(failed) ELSE 0
    BY DEF FirstTileExact, Executed
  <2>1. /\ \A x \in Inner(shape) :
              C[cell][x] = IF cell \in Tile /\ x < i * K_block /\ (x \div K_block) \notin failed
                           THEN 1 ELSE 0
        /\ C[cell][Offset] = IF cell \in Tile THEN Cardinality(failed) ELSE 0
    BY DEF IInv, ContentsSound, Products, Offsets
  <2>2. i * K_block = K_block * split[2]
    BY BlocksFit DEF IInv
  <2>3. QED  BY <2>1, <2>2 DEF Computed
<1>2. QED  BY <1>1, LoopInvariant, PTL

(* No iteration reads past the end of a row of A's or B's mantissas,       *)
(* splits that leave a remainder or exceed the dimension included          *)
(* (pipeline.h 188, 193).                                                  *)
THEOREM TiledReadsInBounds == Spec => []ReadsInBounds
<1>1. IInv => ReadsInBounds
  <2> SUFFICES ASSUME IInv, NEW cell \in Cells(shape), NEW x \in Inner(shape), C[cell][x] > 0
               PROVE  x < K
    BY DEF ReadsInBounds
  <2>1. x < i * K_block
    BY DEF IInv, ContentsSound, Products
  <2>2. i * K_block \in Nat /\ i * K_block <= K /\ K \in Nat /\ x \in Nat
    BY BlocksFit, InnerIsNat DEF IInv
  <2>3. QED  BY <2>1, <2>2
<1>2. QED  BY <1>1, LoopInvariant, PTL

(* Rounding up the number of pieces and down the size of each keeps the    *)
(* tile within the limits, whatever the limits and the shape               *)
(* (__init__.py 34-37, pipeline.h 39-41).                                  *)
THEOREM ComputedSplitsRespectLimits == Spec => []TileRespectsLimits
<1>1. IInv => TileRespectsLimits
  <2> SUFFICES ASSUME IInv, split = Splits(shape, <<Unset, Unset, Unset>>)
               PROVE  /\ M_block <= MaxDim
                      /\ N_block <= MaxDim
                      /\ KLimit > 0 => K_block <= KLimit
    BY DEF TileRespectsLimits
  <2>1. shape[1] \in Nat /\ shape[2] \in Nat /\ shape[3] \in Nat
    BY DEF IInv, LoopSound
  <2>2. /\ split[1] = Pieces(shape[1], MaxDim)
        /\ split[3] = Pieces(shape[3], MaxDim)
        /\ KLimit > 0 => split[2] = Pieces(shape[2], KLimit)
    BY DEF Splits
  <2>3. /\ M_block = shape[1] \div split[1]
        /\ K_block = shape[2] \div split[2]
        /\ N_block = shape[3] \div split[3]
    BY DEF M_block, K_block, N_block, Block
  <2>4. MaxDim \in Nat \ {0} /\ (KLimit > 0 => KLimit \in Nat \ {0})
    BY DispatchAssumption
  <2>5. QED  BY <2>1, <2>2, <2>3, <2>4, PiecesFit, Zenon
<1>2. QED  BY <1>1, LoopInvariant, PTL

(* The tile is all of C and the slices cover the inner dimension. *)
OnlyInnerSplit == M_block = M /\ N_block = N /\ K_block * split[2] = K

(* When the product is that of the docstring: a call all of whose          *)
(* executions succeed computes all of C if only K is split, and evenly     *)
(* (pipeline.h 39-41, 183-230).                                            *)
THEOREM EvenInnerSplitIsComplete == Spec => [](OnlyInnerSplit => ProductComplete)
<1>1. IInv => (OnlyInnerSplit => ProductComplete)
  <2> SUFFICES ASSUME IInv, OnlyInnerSplit, i = split[2], failed = {},
                      NEW cell \in Cells(shape), NEW x \in 0 .. K - 1
               PROVE  C[cell][x] = 1
    BY DEF ProductComplete, Complete, Executed
  <2>1. cell \in Tile
    BY DEF OnlyInnerSplit, Cells, Tile, M, N
  <2>2. x \in Inner(shape) /\ x < K
    BY DEF IInv, LoopSound, Inner, K
  <2>3. i * K_block = K
    BY BlocksFit DEF IInv, OnlyInnerSplit
  <2>4. QED  BY <2>1, <2>2, <2>3 DEF IInv, ContentsSound, Products
<1>2. QED  BY <1>1, LoopInvariant, PTL

(* And only then: a call on operands that are not empty leaves a cell      *)
(* without some of its products as soon as rows or columns are split, a    *)
(* remainder of K is dropped, or one execution fails, which the caller is  *)
(* not told.  The loop has no index but that of the slices and looks at no *)
(* status (pipeline.h 183-230).                                            *)
THEOREM OtherSplitsAreIncomplete ==
    Spec => [](Executed /\ M > 0 /\ N > 0 /\ K > 0 /\ Complete => OnlyInnerSplit /\ failed = {})
<1>1. IInv => (Executed /\ M > 0 /\ N > 0 /\ K > 0 /\ Complete => OnlyInnerSplit /\ failed = {})
  <2> SUFFICES ASSUME IInv, Executed, M > 0, N > 0, K > 0, Complete
               PROVE  OnlyInnerSplit /\ failed = {}
    OBVIOUS
  <2>1. /\ M \in Nat /\ N \in Nat /\ K \in Nat
        /\ M_block \in Nat /\ N_block \in Nat /\ M_block <= M /\ N_block <= N
    <3>1. M \in Nat /\ N \in Nat /\ K \in Nat
      BY DEF IInv, LoopSound, M, N, K
    <3>2. QED  BY <3>1, BlocksFit DEF IInv
  <2>2. /\ i * K_block \in Nat /\ i * K_block <= K /\ i * K_block = K_block * split[2]
        /\ i \in Nat /\ K_block \in Nat
    BY BlocksFit DEF IInv, Executed
  <2>3. <<M - 1, N - 1>> \in Cells(shape)
    BY <2>1 DEF Cells, M, N
  <2> DEFINE last == <<M - 1, N - 1>>
  <2>4. \A x \in 0 .. K - 1 :
            last \in Tile /\ x < i * K_block /\ (x \div K_block) \notin failed
    <3> SUFFICES ASSUME NEW x \in 0 .. K - 1
                 PROVE  last \in Tile /\ x < i * K_block /\ (x \div K_block) \notin failed
      OBVIOUS
    <3>1. C[last][x] = 1
      BY <2>3 DEF Complete
    <3>2. x \in Inner(shape)
      BY <2>1 DEF Inner, K
    <3> HIDE DEF last
    <3>3. QED  BY <2>3, <3>1, <3>2 DEF IInv, ContentsSound, Products, last
  <2>5. K - 1 \in 0 .. K - 1
    BY <2>1
  <2>6. last \in Tile /\ K - 1 < i * K_block
    BY <2>4, <2>5
  <2>7. M - 1 < M_block /\ N - 1 < N_block
    BY <2>1, <2>6 DEF Tile
  <2>8. OnlyInnerSplit
    BY <2>1, <2>2, <2>6, <2>7 DEF OnlyInnerSplit
  <2>9. ASSUME NEW j \in failed  PROVE FALSE
    <3>1. j \in Nat /\ j + 1 <= i
      BY <2>2 DEF IInv, FailedSound
    <3>2. i * K_block = K
      BY <2>2, <2>8 DEF OnlyInnerSplit
    <3>3. K_block \in Nat \ {0}
      BY <2>2, <3>2
    <3>4. j * K_block \in Nat /\ (j + 1) * K_block = j * K_block + K_block
          /\ (j + 1) * K_block <= i * K_block
      <4>1. j + 1 \in Nat  BY <3>1
      <4>2. QED  BY <2>2, <3>1, <4>1, Multiplication
    <3>5. j * K_block \in 0 .. K - 1
      BY <2>1, <3>2, <3>3, <3>4
    <3>6. (j * K_block) \div K_block = j
      BY <3>1, <3>3, <3>4, SliceOfIndex
    <3>7. QED  BY <2>4, <3>5, <3>6
  <2>10. QED  BY <2>8, <2>9
<1>2. QED  BY <1>1, LoopInvariant, PTL

=============================================================================
