--------------------------- MODULE MCMatmulTiled ---------------------------
(***************************************************************************)
(* Instance of MatmulTiled for TLC: padding to 2, tiles of at most 3 by 3, *)
(* K_LIMIT 3.  Shapes reach three pieces per dimension; the splits include *)
(* ones that leave a remainder and one with more pieces than elements.     *)
(***************************************************************************)
EXTENDS MatmulTiled

MCQuantum == 2
MCMaxDim == 3
MCKLimit == 3
MCTiledShape == {s \in {2, 4, 8} \X {2, 4, 8} \X {2, 4} : NeedsTiling(s)}
MCGlobal == {<<Unset, Unset, Unset>>, <<1, 3, 1>>, <<2, 5, 3>>}

=============================================================================
