--------------------------- MODULE ScratchpadPool ---------------------------
(***************************************************************************)
(* What the scratchpad allocator promises to the code that calls it        *)
(* (fixedpoint.h, class Scratchpad), with nothing said about how: at every *)
(* moment the pointers handed out and not yet given back denote disjoint   *)
(* byte ranges, each at least as long as what was asked for.               *)
(***************************************************************************)
EXTENDS Integers

CONSTANTS
    Address,   \* every address the allocator may return
    Request    \* the request sizes, in bytes

VARIABLE live  \* live[p] = the number of bytes the holder of p may use

(* The byte ranges [p, p+n) and [q, q+m) share no byte. *)
Disjoint(p, n, q, m) == p + n <= q \/ q + m <= p

Init == live = [p \in {} |-> 0]

(* A request is met with an address nobody holds, whose range is disjoint  *)
(* from every range in use.                                                *)
Grant(p, n) ==
    /\ p \notin DOMAIN live
    /\ \A q \in DOMAIN live : Disjoint(p, n, q, live[q])
    /\ live' = [q \in DOMAIN live \cup {p} |-> IF q = p THEN n ELSE live[q]]

(* A pointer is given back by whoever holds it. *)
Release(p) ==
    /\ p \in DOMAIN live
    /\ live' = [q \in DOMAIN live \ {p} |-> live[q]]

Next ==
    \/ \E p \in Address, n \in Request : Grant(p, n)
    \/ \E p \in Address : Release(p)

Spec == Init /\ [][Next]_live

=============================================================================
