---------------------------- MODULE Expressions -----------------------------
(***************************************************************************)
(* The symbolic front end: trees of products and sums of labelled tensors  *)
(* (op_dag.hpp), what the visitors compute on them (op_visitors.hpp), the  *)
(* statements of one operation they are taken apart into, and the order of *)
(* evaluation OpMin chooses (opmin.hpp).  A label has a name and the       *)
(* indices it runs over; the label of a tile runs over a single one here.  *)
(***************************************************************************)
EXTENDS Integers, SequencesExt, FiniteSetsExt

Each(s, Op(_)) == [k \in DOMAIN s |-> Op(s[k])]

Leaf(t, labels) == [kind |-> "lt", coeff |-> 1, tensor |-> t, labels |-> labels]

Unscaled(e) == [e EXCEPT !.coeff = 1]

Product(l, r) ==
  [kind |-> "mult", coeff |-> l.coeff * r.coeff, lhs |-> Unscaled(l), rhs |-> Unscaled(r)]

Plus(l, r) == [kind |-> "add", coeff |-> 1, lhs |-> l, rhs |-> r]

Scaled(c, e) ==
  IF e.kind = "add" THEN [e EXCEPT !.lhs.coeff = @ * c, !.rhs.coeff = @ * c]
                    ELSE [e EXCEPT !.coeff = @ * c]

RECURSIVE AvailableLabels(_), UsedTensors(_), SumVectors(_)

AvailableLabels(e) ==
  IF e.kind = "lt" THEN ToSet(e.labels)
  ELSE AvailableLabels(e.lhs) \cup AvailableLabels(e.rhs)

\* The leaves, one for each use of a tensor.
UsedTensors(e) ==
  IF e.kind = "lt" THEN <<e>> ELSE UsedTensors(e.lhs) \o UsedTensors(e.rhs)

SumVectors(e) ==
  IF e.kind = "add" THEN SumVectors(e.lhs) \o SumVectors(e.rhs) ELSE <<e>>

-----------------------------------------------------------------------------
(* CanonicalizeVisitor: a parallel loop becomes a term for each tile.      *)

RECURSIVE ReplaceLabel(_, _, _)

ReplaceLabel(e, from, to) ==
  IF e.kind = "lt"
    THEN Leaf(e.tensor, [p \in DOMAIN e.labels |-> IF e.labels[p] = from THEN to ELSE e.labels[p]])
    ELSE [e EXCEPT !.lhs = ReplaceLabel(@, from, to), !.rhs = ReplaceLabel(@, from, to)]

Tile(label, index) == [label EXCEPT !.on = {index}]

\* A statement as the program notes it: the labels of the left-hand side, is it an
\* assignment, the tree, and the labels of the parallel loop around it.  Its terms
\* are evaluated one after the other.
TermsOf(stmt) ==
  LET Slices(l) ==
        Each(SetToSeq(l.on), LAMBDA x :
          [op |-> ReplaceLabel(stmt.op, l, Tile(l, x)),
           labels |-> ReplaceFirstSubSeq(<<Tile(l, x)>>, <<l>>, stmt.labels)])
  IN  LET sliced == SelectSeq(stmt.parfor, LAMBDA l : Cardinality(l.on) # 1)
      IN  IF sliced = <<>> THEN <<[op |-> stmt.op, labels |-> stmt.labels]>>
          ELSE FlattenSeq(Each(sliced, Slices))

-----------------------------------------------------------------------------
(* BinarizeOpsVisitor: the operations of a tree, the last one for its      *)
(* root.  An inner node is an intermediate tensor over the labels that are *)
(* available below it and needed above it; the intermediates are numbered  *)
(* by their place in the tree, from Base + 1 for the root.                 *)

\* Mutant: the labels the sibling has are not asked for.
MutNeededBelow(e, needed, sibling) == needed

NeededBelow(e, needed, sibling) ==
  IF e.kind = "mult" THEN needed \cup AvailableLabels(sibling) ELSE needed

AllocLabels(e, needed) == AvailableLabels(e) \cap needed

\* What the tensor of a node is called.
Name(base, n) == base + n

TensorInfo(e, needed, name) ==
  IF e.kind = "lt" THEN [tensor |-> e.tensor, labels |-> e.labels, scale |-> e.coeff]
  ELSE [tensor |-> name, labels |-> SetToSeq(AllocLabels(e, needed)), scale |-> 1]

RECURSIVE Binarized(_, _, _, _)

Binarized(e, needed, base, n) ==
  LET l == NeededBelow(e, needed, e.rhs)
      r == NeededBelow(e, needed, e.lhs)
  IN  IF e.kind = "lt" THEN <<>>
      ELSE Binarized(e.lhs, l, base, 2 * n) \o Binarized(e.rhs, r, base, 2 * n + 1)
           \o <<[optype |-> e.kind, scale |-> e.coeff, lhs |-> TensorInfo(e, needed, Name(base, n)),
                 rhs |-> <<TensorInfo(e.lhs, l, Name(base, 2 * n)),
                           TensorInfo(e.rhs, r, Name(base, 2 * n + 1))>>]>>

BinarizeOp(e, labels, base) ==
  IF e.kind = "lt"
    THEN <<[optype |-> "set", scale |-> e.coeff, lhs |-> TensorInfo(e, {}, Name(base, 1)),
            rhs |-> <<TensorInfo(e, {}, Name(base, 1))>>]>>
    ELSE Binarized(e, ToSet(labels), base, 1)

-----------------------------------------------------------------------------
(* OpMin                                                                   *)

SizeOf(labels) == FoldSet(LAMBDA l, size : size * Cardinality(l.on), 1, labels)

LabelsOf(tensors, x) == UNION {ToSet(tensors[i].labels) : i \in x}

\* What a set of tensors leaves over: its labels that the other tensors, or the
\* left-hand side, have too.
Required(tensors, labels, x) ==
  LabelsOf(tensors, x) \cap (LabelsOf(tensors, DOMAIN tensors \ x) \cup ToSet(labels))

\* Mutant: what the two sides cost is left out.
MutComputeCost(child1, child2, ids) == SizeOf(ids)

ComputeCost(child1, child2, ids) == child1 + child2 + SizeOf(ids)

\* The order in which the optimizer takes the sets: by size, then by bits.
Rank(n, x) == Cardinality(x) * 2 ^ (n + 1) + FoldSet(LAMBDA i, bits : bits + 2 ^ i, 0, x)

\* Optimizer: a product is cut in two in the cheapest way, the first one of these.
Optimize(tensors, labels, coeff) ==
  LET sets == SUBSET (DOMAIN tensors) \ {{}}
      rank == [x \in sets |-> Rank(Len(tensors), x)]
      parts(x) == {y \in sets : y \subseteq x /\ y # x /\ rank[x \ y] < rank[y]}
      best[x \in sets] ==
        IF Cardinality(x) = 1
          THEN [cost |-> 0, op |-> Unscaled(tensors[CHOOSE i \in x : TRUE])]
          ELSE LET cost == [y \in parts(x) |->
                     ComputeCost(best[y].cost, best[x \ y].cost,
                       Required(tensors, labels, y) \cup Required(tensors, labels, x \ y))]
                   child1 == CHOOSE y \in parts(x) : \A z \in parts(x) :
                               cost[y] < cost[z] \/ (cost[y] = cost[z] /\ rank[y] <= rank[z])
               IN  [cost |-> cost[child1], op |-> Product(best[child1].op, best[x \ child1].op)]
  IN  [best[DOMAIN tensors].op EXCEPT !.coeff = coeff]

OptimizeAll(e, labels) ==
  LET optimized == Each(SumVectors(e), LAMBDA op :
        IF Len(UsedTensors(op)) > 2 THEN Optimize(UsedTensors(op), labels, op.coeff) ELSE op)
  IN  FoldLeft(Plus, Head(optimized), Tail(optimized))

-----------------------------------------------------------------------------
(* What a tree means, and what its operations cost: for the properties.    *)

RECURSIVE Products(_)

\* The tree as a sum of products of leaves.
Products(e) ==
  CASE e.kind = "lt" -> <<[coeff |-> e.coeff, leaves |-> <<Unscaled(e)>>]>>
    [] e.kind = "add" -> Products(e.lhs) \o Products(e.rhs)
    [] e.kind = "mult" ->
         FlattenSeq(Each(Products(e.lhs), LAMBDA l : Each(Products(e.rhs), LAMBDA r :
           [coeff |-> e.coeff * l.coeff * r.coeff, leaves |-> l.leaves \o r.leaves])))

LoopsOf(op) == ToSet(op.lhs.labels) \cup UNION {ToSet(op.rhs[i].labels) : i \in DOMAIN op.rhs}

CostOf(ops) ==
  FoldLeft(LAMBDA sum, op : sum + (IF op.optype = "mult" THEN SizeOf(LoopsOf(op)) ELSE 0), 0, ops)

RECURSIVE AllTrees(_)

AllTrees(leaves) ==
  IF Cardinality(leaves) = 1 THEN leaves
  ELSE UNION {{Product(l, r) : l \in AllTrees(some), r \in AllTrees(leaves \ some)} :
                some \in (SUBSET leaves) \ {{}, leaves}}
=============================================================================
