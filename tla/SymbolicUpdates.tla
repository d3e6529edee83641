-------------------------- MODULE SymbolicUpdates ---------------------------
(***************************************************************************)
(* Deferred updates from the trees the program writes: the operations that *)
(* OpExecutor::execute makes of a statement, and the values that tensors   *)
(* have when it returns.                                                   *)
(***************************************************************************)
EXTENDS OpExecutor, Expressions

CONSTANT Statements \* as the program writes them

\* An update in a parallel loop has the label of the loop on its left-hand side.
ASSUME StatementsAssumption ==
  \A s \in DOMAIN Statements : ToSet(Statements[s].parfor) \subseteq ToSet(Statements[s].labels)

\* A sequence with its values computed, to be used many times.
Table(f) == f @@ <<>>

\* construct_op: a sum is two operations, of which the second adds to the first.
ConstructOp(op) ==
  LET One(alpha, rhs, assign, last) ==
        [lhs |-> op.lhs, alpha |-> alpha, rhs |-> rhs, assign |-> assign, last |-> last]
  IN  CASE op.optype = "mult" -> <<One(op.scale, op.rhs, op.assign, op.last)>>
        [] op.optype = "add" -> <<One(op.rhs[1].scale, <<op.rhs[1]>>, op.assign, FALSE),
                                  One(op.rhs[2].scale, <<op.rhs[2]>>, FALSE, op.last)>>
        [] op.optype = "set" -> <<One(op.rhs[1].scale, <<op.rhs[1]>>, op.assign, op.last)>>

\* The operations of a term: the last one is for the tensor of the update.
OpsOf(stmt, term, use_opmin) ==
  LET tree == IF use_opmin THEN OptimizeAll(term.op, term.labels) ELSE term.op
  IN  LET ops == BinarizeOp(tree, term.labels, Len(Shapes))
      IN  Append(Each(Front(ops), LAMBDA op : op @@ [assign |-> TRUE, last |-> FALSE]),
                 [Last(ops) EXCEPT !.lhs = [tensor |-> stmt.tensor, labels |-> term.labels, scale |-> 1]]
                 @@ [assign |-> stmt.assign, last |-> TRUE])

\* construct_inter
InterTensors(ops) == Each(Front(ops), LAMBDA op : op.lhs)

WorkOf(ops) ==
  [inters |-> Table(Each(InterTensors(ops), LAMBDA t :
                [tensor |-> t.tensor, shape |-> Table(Each(t.labels, LAMBDA l : l.on))])),
   ops |-> Table(FlattenSeq(Each(ops, ConstructOp)))]

\* OpMin takes a product for one of its tensors only, sums in it included
\* (opmin.hpp:645-655): such a tree is not given to it here.
ProductOfSum(op) == op.kind = "mult" /\ Len(Products(op)) > 1
Optimizable(stmt) == \A op \in ToSet(SumVectors(stmt.op)) : ~ProductOfSum(op)

\* The operations of all terms of all statements, computed once.
Terms == Table([s \in DOMAIN Statements |-> TermsOf(Statements[s])])
Ops == Table([s \in DOMAIN Statements |-> Table([n \in DOMAIN Terms[s] |->
         Table([use_opmin \in BOOLEAN |-> OpsOf(Statements[s], Terms[s][n], use_opmin)])])])

\* What OpExecutor knows of a statement.
Compiled(s) ==
  [tensor |-> Statements[s].tensor, assign |-> Statements[s].assign,
   inputs |-> Table(Each(UsedTensors(Statements[s].op), LAMBDA leaf : leaf.tensor)),
   optimizable |-> Optimizable(Statements[s]),
   terms |-> Table([n \in DOMAIN Terms[s] |-> Table([use_opmin \in BOOLEAN |-> WorkOf(Ops[s][n][use_opmin])])])]

CompiledProgram == Table([s \in DOMAIN Statements |-> Compiled(s)])

ASSUME ProgramAssumption == Program = CompiledProgram

-----------------------------------------------------------------------------

\* The value of an update, from the tree as the program wrote it: no terms, no
\* intermediates, no order of evaluation.
Meant(stmt, old) ==
  LET lhs == [tensor |-> stmt.tensor, labels |-> stmt.labels]
  IN  [x \in Tuples(Shapes[stmt.tensor]) |->
        FoldLeft(LAMBDA sum, p : sum + SumOfProducts(contents, p.coeff, lhs, p.leaves, x),
                 IF stmt.assign THEN 0 ELSE old[x], Products(stmt.op))]

\* When a call returns, the tensor holds what its updates mean, the new ones applied
\* in order to what it held before (op_executor.hpp:277-348): however a parallel loop
\* was cut into terms, a tree into operations, and a product was reordered.
ValuesHold ==
  [][Len(stack') < Len(stack) =>
       LET t == Top.tensor
           new == SubSeq(updates[t], version[t] + 1, Len(updates[t]))
       IN  /\ version'[t] = Len(updates[t])
           /\ contents[t] = FoldLeft(LAMBDA old, u : Meant(Statements[u.stmt], old),
                                     IF before[t] = <<>> THEN contents[t] ELSE before[t], new)]_vars

LeastCosts ==
  [s \in DOMAIN Statements |-> [n \in DOMAIN Terms[s] |->
    Min({CostOf(BinarizeOp(tree, Terms[s][n].labels, 0)) : tree \in AllTrees(ToSet(UsedTensors(Terms[s][n].op)))})]]

\* The operations of a product that OpMin has ordered cost no more than those of any
\* tree of its tensors (opmin.hpp:520-537).
CheapestOrder ==
  [][(stack # <<>> /\ Top.at = "inputs" /\ Top.todo = <<>> /\ Top.use_opmin
      /\ Statements[Update.stmt].op.kind = "mult") =>
       CostOf(Ops[Update.stmt][Top.term][Top.use_opmin]) <= LeastCosts[Update.stmt][Top.term]]_vars
=============================================================================
