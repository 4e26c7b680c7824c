---------------------------- MODULE MCModelCache ----------------------------
(***************************************************************************)
(* Instance of ModelCache for TLC: two shapes and two backends, so four    *)
(* models, which the vector reaches by growing to 1, 2 and 4.              *)
(***************************************************************************)
EXTENDS ModelCache

MCShape == {<<1, 2, 1>>, <<2, 1, 2>>}
MCBackend == {1, 3}
MCMaxResources == 16

=============================================================================
