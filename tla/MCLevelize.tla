----------------------------- MODULE MCLevelize -----------------------------
(* All programs of up to four operations over three tensors.               *)
EXTENDS Levelize

CONSTANTS A, B, C
MCTensors == {A, B, C}

\* One operation of every kind and plan, so that every pair of accesses to a
\* common tensor (read, write, accumulate) occurs in both orders.
MCOp == {Alloc(C), Dealloc(A), SetTo(B), Incr(A), Add(B, A), Mult(C, A, B),
         Map(A, {C}), Scan(B)}

MCStart == [mem |-> [t \in MCTensors |-> CASE t = A -> 2 [] t = B -> 3 [] OTHER -> 5],
            seen |-> [k \in OpRange |-> 0]]
=============================================================================
