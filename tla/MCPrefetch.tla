----------------------------- MODULE MCPrefetch -----------------------------
(***************************************************************************)
(* Instance of Prefetch for TLC: two weights of one shape, a third with as *)
(* many rows and other columns, and three threads, so that a queue can     *)
(* hold blocks in an order other than that of the calls.                   *)
(***************************************************************************)
EXTENDS Prefetch

MCWeight == {"q", "k", "v"}
MCShapeOf == [w \in MCWeight |-> IF w = "v" THEN <<2, 3>> ELSE <<2, 2>>]
MCBatch == {<<"q">>, <<"k", "v">>, <<"v", "q">>}
MCMaxThreads == 3

=============================================================================
