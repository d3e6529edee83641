---------------------------- MODULE MCTensorExec ----------------------------
(* Programs on which TLC runs TensorExec, with their levels.  A and B have *)
(* a block on each rank; E, like an energy, has order 0 and a single block.*)
EXTENDS TensorExec, TLC

CONSTANTS A, B, E, r1, r2, r3, b1, b2, b3

MCRanks == {r1, r2, r3}
MCOwner == (b1 :> r1) @@ (b2 :> r2) @@ (b3 :> r3)
MCShape == (A :> {b1, b2, b3}) @@ (B :> {b1, b2, b3}) @@ (E :> {b1})
MCDynamic == {E}

\* Every kind of operation, in two calls of execute(), two products into E on one
\* level, and on another a += of B beside a product into B.
MCAll ==
  <<Alloc(A), Alloc(B), Alloc(E), SetTo(A), SetTo(E), Map(B, {A}), Add(B, A),
    Mult(E, A, B), Mult(E, B, B), Incr(A), Mult(B, A, A), Add(B, A), Scan(B),
    Dealloc(A)>>
MCAllCalls == <<5, 14>>
MCAllLevel == <<0, 0, 0, 1, 1, 0, 1, 2, 2, 3, 4, 4, 5, 5>>

Identity == [p \in Positions |-> p]
Swapped(p, q) == [Identity EXCEPT ![p] = q, ![q] = p]

\* The order of the program, and those in which a level of a call is turned round.
MCAllOrders == {Identity, Swapped(4, 5), Swapped(8, 9), Swapped(11, 12)}

ASSUME NothingAddedBetween
=============================================================================
