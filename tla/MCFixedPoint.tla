---------------------------- MODULE MCFixedPoint ----------------------------
(* Rows for FixedPoint.  Rows of one and two elements hold floats from the *)
(* ends and the middle of the range of exponents; the rows of zeros and    *)
(* ones are long enough for a whole step of the rounding loop, and         *)
(* remainders behind it.                                                   *)
EXTENDS FixedPoint

F(n, e, f) == [neg |-> n, exp |-> e, frac |-> f]

MCFloats ==
    {Zero, F(FALSE, 2, 0)}
        \cup {F(n, e, f) : n \in BOOLEAN, e \in {1, 6, 7, 12, 14}, f \in {0, 5}}

MCRow ==
    [{0} -> MCFloats] \cup [0 .. 1 -> MCFloats]
        \cup [0 .. 4 -> {Zero, F(FALSE, 7, 0)}]
=============================================================================
