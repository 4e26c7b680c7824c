-------------------------- MODULE MCDirectProduct --------------------------
(* Two shapes and three products, so that a shape comes back after its     *)
(* buffers were freed, in either mode, and finds what they held.           *)
EXTENDS DirectProduct

MCShape == {"s", "t"}
MCMaxCalls == 3

=============================================================================
