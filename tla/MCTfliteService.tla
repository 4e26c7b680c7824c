-------------------------- MODULE MCTfliteService --------------------------
(***************************************************************************)
(* Instances of TfliteService for TLC: two processes, one shape, and two   *)
(* backends with a file each.  One place in the backlog, so that it fills  *)
(* up and a connection left by a timeout keeps others out.                 *)
(***************************************************************************)
EXTENDS TfliteService

MCClient == {"p", "q"}
MCShape == {"s"}
MCBackend == {1, 3}
MCBacklog == 1
MCFaultModel == {{}, {"convert"}, {"convert", "write", "kill"}}

=============================================================================
