--------------------------- MODULE StatementPlans ---------------------------
(***************************************************************************)
(* Statements on tensors and the plans of their operations (setop.hpp,     *)
(* addop.hpp, multop.hpp): which rank works on which blocks of the tensor  *)
(* on the left, from which blocks of those on the right, and how.          *)
(*                                                                         *)
(* A tensor is its spaces, for each mode the modes it depends on, the spin *)
(* position of each mode, the ranks in the context of the processes that   *)
(* hold it (-1: not in the context) with the first of them that gets a     *)
(* block, and whether it is a view.                                        *)
(***************************************************************************)
EXTENDS LabelLoops, BlockKernels

CONSTANT Procs \* number of ranks of the execution context

-----------------------------------------------------------------------------
\* Tensors

alloc_labels(t) ==
  LET ls == [k \in DOMAIN t.tiss |-> label(t.tiss[k], -k)]
  IN [k \in DOMAIN ls |-> DependingOn(ls[k], At1(ls, t.deps[k]))]

TisOf(t, b, k) == lookup_dependent_space(t.tiss[k], At1(b, t.deps[k]))[1]

TileSpin(tis, i) == SpinAt(root_tis(tis).is, root_tis(tis).offsets[tis.refs[i + 1] + 1])

\* Spins of upper and lower modes have to add up to the same.
is_non_zero(t, b) ==
  LET In(pos) == SumOver({k \in DOMAIN b : t.spins[k] = pos}, LAMBDA k : TileSpin(TisOf(t, b, k), b[k]))
  IN t.spins = <<>> \/ In("upper") = In("lower")

BlockList(t) == SelectSeq(LabelTuples(alloc_labels(t)), LAMBDA b : is_non_zero(t, b))
Blocks(t) == Elements(BlockList(t))
block_dims(t, b) == [k \in DOMAIN b |-> SizeOfTile(TisOf(t, b, k), b[k])]
is_dense(t) == \A k \in DOMAIN t.tiss : ~IsDependent(t.tiss[k])

\* The process that holds a block.
Owner(t, b) == ((Position(BlockList(t), b) + t.first) % Len(t.inEc)) + 1
SamePg(t) == t.inEc = [p \in 1 .. Procs |-> p - 1]

\* The root indices of an element, and what it contains in the beginning.
CoordinatesIn(t, b, x) == [k \in DOMAIN b |-> Block(TisOf(t, b, k), b[k])[x[k] + 1]]
Content(n, c) == FoldLeft(LAMBDA acc, i : 3 * acc + i, n, c)
BufferOf(n, t, b) ==
  LET dims == block_dims(t, b)
      IndexOf(o) == CHOOSE x \in Indices(dims) : Dot(exclusive_product(dims), x) = o
  IN [o \in 0 .. Product(dims) - 1 |-> Content(n, CoordinatesIn(t, b, IndexOf(o)))]

-----------------------------------------------------------------------------
\* Statements: <<tensor, labels>> on the left, a factor, and none, one or two on
\* the right.

AllLabels(s) == s.left.ls \o Concat([k \in DOMAIN s.right |-> s.right[k].ls])

\* A label of a dependent space that is not said to depend on labels stands for
\* one of the space above; labels that depend on it follow.
update_labels(ls) ==
  LET Orphan(l) == IsDependent(l.tis) /\ l.sec = <<>>
      FirstSame(k) == CHOOSE j \in DOMAIN ls : SameLabel(ls[j], ls[k]) /\ \A i \in 1 .. j - 1 : ~SameLabel(ls[i], ls[k])
      new == [k \in DOMAIN ls |-> IF Orphan(ls[k]) THEN label(ls[k].tis.parent[1], 100 + FirstSame(k)) ELSE ls[k]]
      deps == construct_dep_map(ls)
  IN [k \in DOMAIN ls |-> DependingOn(new[k], At1(new, deps[k]))]
Updated(s) ==
  LET ls == update_labels(AllLabels(s))
      end(k) == Len(s.left.ls) + Total([j \in 1 .. k |-> Len(s.right[j].ls)])
  IN IF s.left.ls = <<>> THEN s
     ELSE [s EXCEPT !.left.ls = SubSeq(ls, 1, end(0)),
                    !.right = [k \in DOMAIN s.right |-> [s.right[k] EXCEPT !.ls = SubSeq(ls, end(k - 1) + 1, end(k))]]]

\* An assignment is setting to zero and adding; setting is one operation.
canonicalize(s) ==
  IF s.right = <<>> \/ ~s.assign THEN <<s>>
  ELSE <<[s EXCEPT !.right = <<>>, !.alpha = 0], [s EXCEPT !.assign = FALSE]>>

\* Labels that others depend on are there, and labels do not come with and without
\* those they depend on.
LabelsBound(ls) ==
  \A k \in DOMAIN ls : \A d \in Elements(ls[k].sec) : d \in Elements(Primaries(ls))
LabelsAgree(ls) ==
  \A j, k \in DOMAIN ls : Primary(ls[j]) = Primary(ls[k]) => SameLabel(ls[j], ls[k])
validate(ls) == LabelsBound(ls) /\ LabelsAgree(ls)

is_slicing(o) == \E k \in DOMAIN o.ls : ~Same(o.ls[k].tis, o.t.tiss[k])
has_duplicates(ls) == \E j, k \in DOMAIN ls : j < k /\ SameLabel(ls[j], ls[k])

\* Piece of work: for blocks on the left the blocks on the right that go into
\* them, and how it is done.
Piece(from, how, rank) == [from |-> from, how |-> how, rank |-> rank]

\* Whole local buffers, or blocks one by one.
IsFlat(s) ==
  CASE Len(s.right) = 0 -> ~is_slicing(s.left) /\ ~has_duplicates(s.left.ls) /\ ~s.left.t.view
    [] Len(s.right) = 1 ->
         LET o == s.right[1]
         IN /\ ~o.t.view /\ ~s.left.t.view
            /\ SameLabels(s.left.ls, o.ls) /\ ~is_slicing(s.left) /\ ~is_slicing(o)
            /\ (s.left.t.spins = <<>>) = (o.t.spins = <<>>)
            /\ s.left.t.inEc = o.t.inEc /\ s.left.t.first = o.t.first
    [] Len(s.right) = 2 -> FALSE

\* Work goes to the rank that holds what is on the left, else to one that holds
\* what is on the right, else around; "places" has for every piece these ranks.
Assigned(places, k) ==
  LET Known(j) == SelectSeq(places[j], LAMBDA r : r >= 0)
  IN IF Known(k) # <<>> THEN Known(k)[1]
     ELSE Cardinality({j \in 1 .. k - 1 : Known(j) = <<>>}) % Procs

How(s, assigned, place) == IF assigned = place /\ ~s.left.t.view THEN "in place" ELSE "copy"

\* What is assigned to a rank, if a piece is known for every place.
Pieces(s, froms, places) ==
  [k \in DOMAIN places |->
     Piece(froms[k], How(s, Assigned(places, k), places[k][1]), Assigned(places, k))]

BlocksBy(t, blocks) == [p \in DOMAIN t.inEc |-> {b \in blocks : Owner(t, b) = p}]
FlatWork(s) ==
  LET Alone(here) == [b \in here |-> <<[k \in DOMAIN s.right |-> b]>>]
  IN Pieces(s, Each(BlocksBy(s.left.t, Blocks(s.left.t)), Alone),
            [p \in DOMAIN s.left.t.inEc |->
               <<s.left.t.inEc[p]>> \o [k \in DOMAIN s.right |-> s.right[k].t.inEc[p]]])

\* The blocks of all tensors for a tuple of the loop nest, if there are any.
Operands(s) == <<s.left>> \o s.right
AllocLabels(s) == Concat([k \in DOMAIN Operands(s) |-> alloc_labels(Operands(s)[k].t)])
SplitBlocks(s, ids) ==
  LET n(k) == Len(Operands(s)[k].ls)
      from(k) == Total([j \in 1 .. k - 1 |-> n(j)])
  IN [k \in DOMAIN Operands(s) |-> SubSeq(ids, from(k) + 1, from(k) + n(k))]
\* Mutant: only the block on the left is asked.
MutNonZero(s, bs) == is_non_zero(s.left.t, bs[1])
NonZero(s, bs) == \A k \in DOMAIN bs : is_non_zero(Operands(s)[k].t, bs[k])

BlocksAt(s, ids) == SelectSeq(Each(ids, LAMBDA i : SplitBlocks(s, i)), LAMBDA bs : NonZero(s, bs))

\* The blocks of every tuple, and whether the translation of all of it was possible.
CandidatesOf(s, ls, to) ==
  Each(Each(LabelTuples(ls), LAMBDA i : LabelTranslator(i, ls, to)),
       LAMBDA i : [blocks |-> SplitBlocks(s, i[1]), valid |-> i[2]])
Candidates(s) == CandidatesOf(s, AllLabels(s), AllocLabels(s))

\* The blocks whose owner is looked up.  When the group of the context holds what is on
\* the left, that comes before the question whether the translation was possible.
LookedUp(s) ==
  SelectSeq(Candidates(s), LAMBDA c : (SamePg(s.left.t) \/ c.valid) /\ NonZero(s, c.blocks))
LhsBlocks(s) == Each(SelectSeq(LookedUp(s), LAMBDA c : c.valid), LAMBDA c : c.blocks)

WorkOnBlocks(s, blocks) ==
  LET Place(o, b) == o.t.inEc[Owner(o.t, b)]
  IN Pieces(s, Each(blocks, LAMBDA bs : bs[1] :> <<Tail(bs)>>),
            Each(blocks, LAMBDA bs : [j \in DOMAIN bs |-> Place(Operands(s)[j], bs[j])]))
LhsWork(s) == WorkOnBlocks(s, LhsBlocks(s))

\* Products: the rank that holds a block sums over the labels only on the right,
IsBufAcc(s) ==
  /\ \A k \in DOMAIN Operands(s) : is_dense(Operands(s)[k].t)
  /\ is_dense_labels(AllLabels(s)) /\ s.left.ls # <<>> /\ SamePg(s.left.t)
Reduction(s) ==
  SelectSeq(unique_entries_by_primary_label(s.right[1].ls \o s.right[2].ls),
            LAMBDA l : \A k \in DOMAIN s.left.ls : ~SameLabel(l, s.left.ls[k]))

\* The blocks of both factors that go into one on the left.
Factors(s, itval, bound, inners) ==
  LET Translated(o, x) == translate_blockid(At1(x, perm_map_compute(bound, Primaries(o.ls))), o.ls, o.t.tiss, o.t.deps)
      Both(inner) == [j \in 1 .. 2 |-> Translated(s.right[j], itval \o inner)]
  IN SelectSeq(Each(inners, Both), LAMBDA p : \A j \in 1 .. 2 : is_non_zero(s.right[j].t, p[j]))

WorkPerBlock(s, pairs, bound, inners) ==
  Each(pairs, LAMBDA p : Piece(p[2] :> Factors(s, p[1], bound, inners), "add",
                               s.left.t.inEc[Owner(s.left.t, p[2])]))
BufAccWork(s) ==
  LET WithBlock(i) == <<i, translate_blockid(i, s.left.ls, s.left.t.tiss, s.left.t.deps)>>
  IN WorkPerBlock(s, SelectSeq(Each(LabelTuples(s.left.ls), WithBlock), LAMBDA p : is_non_zero(s.left.t, p[2])),
                  Primaries(s.left.ls \o Reduction(s)), LabelTuples(Reduction(s)))

\* or ranks take the tuples of all loops from one another.
GeneralBlocksOf(s, ls, from, to) ==
  BlocksAt(s, SelectSeq(Each(LabelTuples(ls), LAMBDA i : translate_blockid_if_possible(i, from, to)[1]),
                        LAMBDA i : -1 \notin Elements(i)))
GeneralBlocks(s) ==
  GeneralBlocksOf(s, AllLabels(s), extract_labels(SortedUnique(AllLabels(s)), AllLabels(s)), AllocLabels(s))
SharedWork(s) == Each(GeneralBlocks(s), LAMBDA bs : Piece(bs[1] :> <<Tail(bs)>>, "add", -1))

-----------------------------------------------------------------------------
\* What a statement means: the formula over all indices its labels may take.

\* The tile of a space that has a root index in it, and the tile a label takes.
TileWith(t, x) == CHOOSE i \in 0 .. NumTilesIn(t) - 1 : x \in Elements(Block(t, i))
Bound(s) == unique_entries_by_primary_label(AllLabels(s))
IndicesOf(l) ==
  IF IsDependent(l.tis) THEN UNION {Elements(l.tis.dep[k].is.indices) : k \in DOMAIN l.tis.dep}
  ELSE Elements(l.tis.is.indices)
Assignments(s) ==
  LET ls == Bound(s)
      deps == construct_dep_map(ls)
      Value(x, k) == [j \in DOMAIN deps[k] |-> TileWith(ls[deps[k][j]].tis, x[deps[k][j]])]
      May(x, k) ==
        /\ x[k] \in IndicesOf(ls[k])
        /\ IsDependent(ls[k].tis) => /\ Value(x, k) \in DOMAIN ls[k].tis.dep
                                     /\ x[k] \in Elements(ls[k].tis.dep[Value(x, k)].is.indices)
      independent(k) == ~IsDependent(ls[k].tis)
  IN {x \in [DOMAIN ls -> UNION {IndicesOf(ls[k]) : k \in DOMAIN ls}] :
        /\ \A k \in DOMAIN ls : independent(k) => May(x, k)
        /\ \A k \in DOMAIN ls : ~independent(k) => May(x, k)}
CoordinatesAt(s, o, x) == At1(x, perm_map_compute(Primaries(Bound(s)), Primaries(o.ls)))
ElementsIn(t) == UNION {{CoordinatesIn(t, b, x) : x \in Indices(block_dims(t, b))} : b \in Blocks(t)}

\* The formula: what an element of the left hand side should contain.
FormulaOf(s, all, there, isThere, covered) ==
  LET Factor(c, k) == IF c \in isThere[k] THEN Content(k, c) ELSE 0
      Term(x) == s.alpha * Product([k \in DOMAIN s.right |-> Factor(CoordinatesAt(s, s.right[k], x), k)])
      Old(c) == IF s.assign /\ c \in covered THEN 0 ELSE Content(5, c)
      New(onto) == IF s.right = <<>> THEN (IF onto = {} THEN 0 ELSE s.alpha) ELSE SumOver(onto, Term)
  IN [c \in there |-> Old(c) + New({x \in all : CoordinatesAt(s, s.left, x) = c})]

Covered(s) == {CoordinatesAt(s, s.left, x) : x \in Assignments(s)}
Formula(s) ==
  FormulaOf(s, Assignments(s), ElementsIn(s.left.t), [k \in DOMAIN s.right |-> ElementsIn(s.right[k].t)],
            Covered([s EXCEPT !.right = <<>>]))
=============================================================================
