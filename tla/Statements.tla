----------------------------- MODULE Statements -----------------------------
(***************************************************************************)
(* The execution of one statement on tensors, by the ranks of an execution *)
(* context.  Ranks work on blocks of the tensor on the left in place, on a *)
(* copy they put back, or by adding what they have computed.  What is on   *)
(* the right does not change.                                              *)
(***************************************************************************)
EXTENDS StatementPlans

CONSTANT StatementsIn \* the statements, one of which is executed

VARIABLES
  stmt,   \* the statement
  ops,    \* operations of it not begun
  op,     \* the one under way, if any
  lhs,    \* contents of the tensor on the left: a buffer for every block
  todo,   \* pieces of work of each rank
  shared, \* iterations that any rank may take next
  held    \* copies of blocks that a rank has changed and not put back

vars == <<stmt, ops, op, lhs, todo, shared, held>>
Ranks == 0 .. Procs - 1

-----------------------------------------------------------------------------
\* What a piece of work does to a block.

Distinct(ls) == [k \in DOMAIN ls |-> <<Primary(ls[k]), ls[k].sec>>]
RightBuffer(s, j, b) == BufferOf(j, s.right[j].t, b)

Beta(s) == IF IsBufAcc(s) THEN 1 ELSE 0
ProductOf(s, b, pair, cbuf) ==
  LET In(j) == [labels |-> Primaries(s.right[j].ls), dims |-> block_dims(s.right[j].t, pair[j]),
                buf |-> RightBuffer(s, j, pair[j])]
  IN block_multiply(s.alpha, In(1), In(2), Beta(s),
                    [labels |-> Primaries(s.left.ls), dims |-> block_dims(s.left.t, b), buf |-> cbuf],
                    ~IsBufAcc(s))

\* All pairs of blocks that go into one on the left are multiplied into one buffer.
SumOfProducts(s, b, from) ==
  FoldLeft(LAMBDA acc, pair : ProductOf(s, b, pair, acc), Zeros(block_dims(s.left.t, b)), from)

Changed(s, b, buf, from) ==
  LET dims == block_dims(s.left.t, b)
      sum == SumOfProducts(s, b, from)
  IN CASE Len(s.right) = 0 -> BlockSetPlan(Distinct(s.left.ls), s.assign, dims, buf, s.alpha)
       [] Len(s.right) = 1 ->
            BlockAssignPlan(Distinct(s.left.ls), Distinct(s.right[1].ls), s.assign, dims, buf, s.alpha,
                            block_dims(s.right[1].t, from[1][1]), RightBuffer(s, 1, from[1][1]))
       [] Len(s.right) = 2 -> [o \in DOMAIN buf |-> buf[o] + sum[o]]

After(s, piece, bufs) == [b \in DOMAIN piece.from |-> Changed(s, b, bufs[b], piece.from[b])]

-----------------------------------------------------------------------------
Init ==
  \E s \in StatementsIn :
    /\ stmt = Updated(s)
    /\ validate(AllLabels(stmt))
    /\ ops = canonicalize(stmt)
    /\ op = <<>>
    /\ lhs = [b \in Blocks(s.left.t) |-> BufferOf(5, s.left.t, b)]
    /\ shared = <<>>
    /\ todo = [r \in Ranks |-> <<>>]
    /\ held = [r \in Ranks |-> <<>>]

Idle == shared = <<>> /\ \A r \in Ranks : todo[r] = <<>>

\* The next operation chooses its plan; operations on one tensor come after one
\* another, with a barrier.
StartWith(work, anybodys) ==
  /\ op' = <<ops[1]>>
  /\ ops' = Tail(ops)
  /\ todo' = [r \in Ranks |-> SelectSeq(work, LAMBDA p : p.rank = r)]
  /\ shared' = anybodys
  /\ UNCHANGED <<stmt, lhs, held>>

Ready == Idle /\ ops # <<>>
FlatPlan    == Ready /\ IsFlat(ops[1]) /\ StartWith(FlatWork(ops[1]), <<>>)
GeneralPlan == Ready /\ ~IsFlat(ops[1]) /\ Len(ops[1].right) < 2 /\ StartWith(LhsWork(ops[1]), <<>>)
BufAccPlan  == Ready /\ Len(ops[1].right) = 2 /\ IsBufAcc(ops[1]) /\ StartWith(BufAccWork(ops[1]), <<>>)
SharedPlan  == Ready /\ Len(ops[1].right) = 2 /\ ~IsBufAcc(ops[1]) /\ StartWith(<<>>, SharedWork(ops[1]))

\* In place, and adding, other ranks see all of it or nothing.
ChangeBlocks(r) ==
  /\ todo[r] # <<>> /\ todo[r][1].how # "copy"
  /\ lhs' = After(op[1], todo[r][1], lhs) @@ lhs
  /\ todo' = [todo EXCEPT ![r] = Tail(@)]
  /\ UNCHANGED <<stmt, ops, op, shared, held>>

GetBlocks(r) ==
  /\ todo[r] # <<>> /\ todo[r][1].how = "copy" /\ held[r] = <<>>
  /\ held' = [held EXCEPT ![r] = <<After(op[1], todo[r][1], lhs)>>]
  /\ UNCHANGED <<stmt, ops, op, lhs, todo, shared>>

PutBlocks(r) ==
  /\ held[r] # <<>>
  /\ lhs' = held[r][1] @@ lhs
  /\ held' = [held EXCEPT ![r] = <<>>]
  /\ todo' = [todo EXCEPT ![r] = Tail(@)]
  /\ UNCHANGED <<stmt, ops, op, shared>>

TakeIteration(r) ==
  /\ shared # <<>> /\ todo[r] = <<>>
  /\ todo' = [todo EXCEPT ![r] = <<shared[1]>>]
  /\ shared' = Tail(shared)
  /\ UNCHANGED <<stmt, ops, op, lhs, held>>

Next ==
  \/ \E r \in Ranks : ChangeBlocks(r) \/ GetBlocks(r) \/ PutBlocks(r) \/ TakeIteration(r)
  \/ FlatPlan \/ GeneralPlan \/ BufAccPlan \/ SharedPlan

Spec == Init /\ [][Next]_vars

-----------------------------------------------------------------------------
Finished == Idle /\ ops = <<>>

(* When all ranks are done the tensor on the left has what the formula     *)
(* says, whatever plan was chosen, whichever ranks hold the tensors and in *)
(* whatever order they came: slices, permuted and repeated labels, labels  *)
(* that depend on others, reductions, broadcasts and absent blocks.        *)
FormulaHolds ==
  Finished =>
    LET formula == Formula(stmt)
    IN \A b \in DOMAIN lhs : \A x \in Indices(block_dims(stmt.left.t, b)) :
         lhs[b][Dot(exclusive_product(block_dims(stmt.left.t, b)), x)] = formula[CoordinatesIn(stmt.left.t, b, x)]

(* Every block that ranks are given to work on is one that its tensor has, *)
(* and so is every block on the left whose owner a general plan looks up,  *)
(* although it may ask before it knows whether the number was translated.  *)
BlocksExist ==
  /\ \A r \in Ranks : \A k \in DOMAIN todo[r] :
       \A b \in DOMAIN todo[r][k].from :
         /\ b \in DOMAIN lhs
         /\ \A bs \in Elements(todo[r][k].from[b]) : \A j \in DOMAIN bs :
              bs[j] \in Blocks(op[1].right[j].t)
  /\ op # <<>> /\ Len(op[1].right) < 2 /\ ~IsFlat(op[1]) =>
       \A c \in Elements(LookedUp(op[1])) : c.blocks[1] \in DOMAIN lhs

\* All tuples of tiles that labels may take: in the spaces that the tiles they
\* depend on give, and within bounds, where lower[k] are places of lower bounds.
AllowedTuples(ls, lower, upper) ==
  LET Tiles == 0 .. Largest({MaxNumTiles(ls[k].tis) : k \in DOMAIN ls})
      TilesOf(x, k) == lookup_dependent_space(ls[k].tis, [j \in DOMAIN ls[k].sec |->
                         x[CHOOSE p \in DOMAIN ls : Primary(ls[p]) = ls[k].sec[j]]])[1]
  IN {x \in [DOMAIN ls -> Tiles] : \A k \in DOMAIN ls :
        /\ x[k] < NumTilesIn(TilesOf(x, k))
        /\ \A p \in lower[k] : x[p] <= x[k]
        /\ \A p \in upper[k] : x[k] <= x[p]}

\* Bounds on the label at one place by labels before it.
BoundsOn(ls, k) == {[j \in DOMAIN ls |-> IF j = k THEN P ELSE {}] : P \in SUBSET (1 .. k - 1)}
LabelsAt(ls, bounds) == [k \in DOMAIN bounds |-> At1(ls, Sorted(bounds[k]))]
IsListOf(seq, S) ==
  Elements(seq) = S /\ \A m, n \in DOMAIN seq : m < n => Before(seq[m], seq[n])

(* The loops a statement runs go through every tuple of tiles there is,    *)
(* once and in order, with empty ranges and spaces that depend on outer    *)
(* loops among them.  So do the nests made of the same labels with bounds  *)
(* on one of them, both ends inclusive, whenever the code lets such a nest *)
(* be made, which it does for labels that depend on no other.              *)
LoopsVisitAll ==
  Finished =>
    LET ls   == SortedUnique(AllLabels(stmt))
        None == [k \in DOMAIN ls |-> {}]
        VisitsAllWithin(lower, upper) ==
          IsListOf(Tuples(NestOfBounds(ls, LabelsAt(ls, lower), LabelsAt(ls, upper))),
                   AllowedTuples(ls, lower, upper))
    IN /\ IsListOf(Tuples(NestOfLabels(ls)), AllowedTuples(ls, None, None))
       /\ \A k \in DOMAIN ls : \A lower, upper \in BoundsOn(ls, k) :
            BoundsExpected(ls, LabelsAt(ls, lower), LabelsAt(ls, upper)) => VisitsAllWithin(lower, upper)
=============================================================================
