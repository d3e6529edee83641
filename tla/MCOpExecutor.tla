---------------------------- MODULE MCOpExecutor ----------------------------
(***************************************************************************)
(* Four tensors: a matrix and a vector the program fills by other means or *)
(* by updates, and two that have updates only.                             *)
(***************************************************************************)
EXTENDS SymbolicUpdates

Two == {0, 1}
i == [name |-> "i", on |-> Two]
j == [name |-> "j", on |-> Two]
k == [name |-> "k", on |-> Two]
l == [name |-> "l", on |-> Two]

MCShapes == <<<<Two, Two>>, <<Two>>, <<Two, Two>>, <<Two>>>>
MCGiven == {{1}, {1, 2, 3, 4}}

A(x, y) == Leaf(1, <<x, y>>)
V(x) == Leaf(2, <<x>>)
B(x, y) == Leaf(3, <<x, y>>)

Stmt(t, labels, assign, op, parfor) ==
  [tensor |-> t, labels |-> labels, assign |-> assign, op |-> op, parfor |-> parfor]

MCStatements ==
  << \* v(i) = 2 A(i,k) A(k,i)
     Stmt(2, <<i>>, TRUE, Product(Scaled(2, A(i, k)), A(k, i)), <<>>),
     \* B(i,j) = A(j,i) in a parallel loop over i
     Stmt(3, <<i, j>>, TRUE, A(j, i), <<i>>),
     \* B(i,j) += -1 (v(i) v(j) + A(i,j))
     Stmt(3, <<i, j>>, FALSE, Scaled(-1, Plus(Product(V(i), V(j)), A(i, j))), <<>>),
     \* w(i) = -2 A(i,j) B(j,k) A(k,l) v(l)
     Stmt(4, <<i>>, TRUE,
          Scaled(-2, Product(Product(Product(A(i, j), B(j, k)), A(k, l)), V(l))), <<>>),
     \* w(i) = 2 v(i) - (B(i,k) + 3 A(k,i)) v(k)
     Stmt(4, <<i>>, TRUE, Plus(Scaled(2, V(i)),
                               Scaled(-1, Product(Plus(B(i, k), Scaled(3, A(k, i))), V(k)))), <<>>),
     \* w(i) += A(i,k) B(k,i) in a parallel loop over i
     Stmt(4, <<i>>, FALSE, Product(A(i, k), B(k, i)), <<i>>) >>

MCProgram == CompiledProgram
=============================================================================
