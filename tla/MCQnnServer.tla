---------------------------- MODULE MCQnnServer ----------------------------
(***************************************************************************)
(* Instance of QnnServer for TLC: two shapes, and two libraries that make  *)
(* a device, of which one cannot free it.                                  *)
(***************************************************************************)
EXTENDS QnnServer

MCLibrary == {"named", "fallback"}
MCQnnShape == {"s", "t"}
MCHasDevice == {"named", "fallback"}
MCHasDeviceFree == {"named"}

=============================================================================
