---------------------------- MODULE MCScratchpad ----------------------------
(***************************************************************************)
(* Instance of Scratchpad for TLC.  One unit stands for 64 bytes, so the   *)
(* 128-byte quantum is 2.  The larger arena holds up to five blocks; the   *)
(* smaller one ends off the quantum and is too small for the largest       *)
(* request.  Requests of 0 bytes, of less than a quantum and of more than  *)
(* one are all present.                                                    *)
(***************************************************************************)
EXTENDS Scratchpad

MCAlign == 2
MCArenaSizes == {5, 12}
MCDefaultSize == 12
MCRequest == {0, 1, 3, 6}
MCHeapAddress == {20, 30}
MCRpcmemLoaded == TRUE

=============================================================================
