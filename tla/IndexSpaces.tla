---------------------------- MODULE IndexSpaces ----------------------------
(***************************************************************************)
(* Index spaces (index_space_interface.hpp), how they are tiled, and the   *)
(* algebra of tiled spaces that depend on tiles of others                  *)
(* (tiled_index_space.hpp).  Indices and tiles count from zero; vectors    *)
(* are sequences.  A precondition of the code (EXPECTS) is one of the      *)
(* inputs.                                                                 *)
(***************************************************************************)
EXTENDS Integers, SequencesExt

Empty == [x \in {} |-> <<>>]
Each(s, Op(_)) == [k \in DOMAIN s |-> Op(s[k])]
Elements(s) == {s[k] : k \in DOMAIN s}
Sorted(S) == [k \in 1 .. Cardinality(S) |-> CHOOSE n \in S : Cardinality({m \in S : m < n}) = k - 1]
Position(s, x) == (CHOOSE k \in DOMAIN s : s[k] = x /\ \A j \in 1 .. k - 1 : s[j] # x) - 1
Concat(seqs) == FoldLeft(LAMBDA acc, s : acc \o s, <<>>, seqs)
Total(s) == FoldLeft(LAMBDA acc, n : acc + n, 0, s)
Largest(S) == IF S = {} THEN 0 ELSE CHOOSE n \in S : \A m \in S : m <= n

-----------------------------------------------------------------------------
\* Ranges

range(lo, hi) == [lo |-> lo, hi |-> hi, step |-> 1]

construct_index_vector(r) ==
  IF r.lo >= r.hi THEN <<>>
  ELSE [k \in 1 .. (r.hi - r.lo - 1) \div r.step + 1 |-> r.lo + (k - 1) * r.step]

contains(r, i) == i >= r.lo /\ i < r.hi /\ (i - r.lo) % r.step = 0

Higher(m, n) == IF m > n THEN m ELSE n
Lower(m, n) == IF m < n THEN m ELSE n

overlap_with(r, q) == r.step = q.step /\ Higher(r.lo, q.lo) < Lower(r.hi, q.hi)

-----------------------------------------------------------------------------
\* Index spaces.  "spin" maps a value to its ranges; a space without spins has
\* the value zero everywhere.

AttributeOf(attr, i) ==
  LET found == {v \in DOMAIN attr : \E k \in DOMAIN attr[v] : contains(attr[v][k], i)}
  IN IF found = {} THEN 0 ELSE CHOOSE v \in found : \A w \in found : v <= w

HasSpin(is) == 0 \notin DOMAIN is.spin
SpinAt(is, i) == AttributeOf(is.spin, i)

\* The part of a spin range inside r, counted from where r goes in the subspace.
\* Mutant: it is counted from the beginning of the subspace.
MutSpinIn(q, r, before) ==
  [lo |-> Higher(q.lo, r.lo) - r.lo, hi |-> Lower(q.hi, r.hi) - r.lo, step |-> q.step]
SpinIn(q, r, before) ==
  [lo |-> Higher(q.lo, r.lo) - r.lo + before,
   hi |-> Lower(q.hi, r.hi) - r.lo + before, step |-> q.step]

SpinOfRanges(ranges, spin) ==
  LET Before(k) == Len(Concat([j \in 1 .. k - 1 |-> construct_index_vector(ranges[j])]))
      Parts(v) == Concat([k \in DOMAIN ranges |->
        LET over == SelectSeq(spin[v], LAMBDA q : overlap_with(q, ranges[k]))
        IN [j \in DOMAIN over |-> SpinIn(over[j], ranges[k], Before(k))]])
  IN [v \in {w \in DOMAIN spin : Parts(w) # <<>>} |-> Parts(v)]

At(indices, ranges) ==
  Concat([k \in DOMAIN ranges |->
    LET at == construct_index_vector(ranges[k]) IN [j \in DOMAIN at |-> indices[at[j] + 1]]])

SpinOrDefault(indices, spin) ==
  IF spin = Empty THEN 0 :> <<range(0, Len(indices))>> ELSE spin

PlainSpace(indices, spin) ==
  [indices |-> indices, ranges |-> Empty, subs |-> Empty, spin |-> SpinOrDefault(indices, spin)]

EmptySpace == PlainSpace(<<>>, Empty)

RangeSpace(indices, named, spin) ==
  [indices |-> indices, ranges |-> named, spin |-> SpinOrDefault(indices, spin),
   subs |-> [n \in DOMAIN named |->
               PlainSpace(At(indices, named[n]), SpinOfRanges(named[n], spin))]]

\* A subspace asks its reference space for spins, with its own positions.
SubSpace(is, indices, named) ==
  [indices |-> indices, ranges |-> named, spin |-> is.spin,
   subs |-> [n \in DOMAIN named |-> PlainSpace(At(indices, named[n]), Empty)]]

\* An aggregate: the spaces one after the other.  Each has a name, and names of
\* subspaces in them may be joined: refs maps a name to a sequence of
\* <<name of a space, name in it>>.
StartOf(spaces, k) == Total([j \in 1 .. k - 1 |-> Len(spaces[j].indices)])

construct_indices(spaces) == Concat(Each(spaces, LAMBDA is : is.indices))

add_ref_names(spaces, names) ==
  [n \in Elements(names) |->
     LET k == Position(names, n) + 1
     IN  [is |-> spaces[k],
          ranges |-> <<range(StartOf(spaces, k), StartOf(spaces, k) + Len(spaces[k].indices))>>]]

add_subspace_references(spaces, names, refs) ==
  LET Which(ref) == Position(names, ref[1]) + 1
      Shifted(r, by) == [r EXCEPT !.lo = @ + by, !.hi = @ + by]
      Ranges(ref) == Each(spaces[Which(ref)].ranges[ref[2]],
                          LAMBDA r : Shifted(r, StartOf(spaces, Which(ref))))
      Indices(ref) == spaces[Which(ref)].subs[ref[2]].indices
  IN  [n \in DOMAIN refs |->
         [is |-> PlainSpace(Concat(Each(refs[n], Indices)), Empty),
          ranges |-> Concat(Each(refs[n], Ranges))]]

AggregateSpace(spaces, names, refs) ==
  LET named == add_ref_names(spaces, names) @@ add_subspace_references(spaces, names, refs)
  IN  [indices |-> construct_indices(spaces), spin |-> 0 :> <<>>,
       ranges |-> [n \in DOMAIN named |-> named[n].ranges],
       subs |-> [n \in DOMAIN named |-> named[n].is]]

-----------------------------------------------------------------------------
\* Tilings

\* Where a tile has to begin or end: at the ends of named ranges and of spins.
Boundaries(is) ==
  LET Ends(ranges) == UNION {{ranges[k].lo, ranges[k].hi} : k \in DOMAIN ranges}
  IN UNION {Ends(is.ranges[n]) : n \in DOMAIN is.ranges}
     \cup IF HasSpin(is) THEN UNION {Ends(is.spin[v]) : v \in DOMAIN is.spin} ELSE {}

\* Without boundaries tiles begin at every multiple of the size.
EvenOffsets(n, size) ==
  [k \in 1 .. (n + size - 1) \div size |-> (k - 1) * size] \o <<n>>

\* The walk over boundaries b: a tile ends at the next one if it reaches it.
TileEnd(i, size, b, j) == IF i + size >= b[j] THEN b[j] ELSE i + size

BoundedOffsets(n, size, b) ==
  LET walk[i \in 0 .. n, j \in 1 .. Len(b) + 1] ==
        IF i >= n THEN <<n>>
        ELSE LET next == TileEnd(i, size, b, j)
             IN <<i>> \o walk[Lower(next, n), IF next >= b[j] THEN j + 1 ELSE j]
  IN walk[0, IF b[1] = 0 THEN 2 ELSE 1]

ConstructTiledIndices(is, size) ==
  LET n == Len(is.indices)
  IN CASE n = 0               -> <<0>>
       [] Boundaries(is) = {} -> EvenOffsets(n, size)
       [] OTHER               -> BoundedOffsets(n, size, Sorted(Boundaries(is)))

\* With a list of sizes tiles begin at their sums, which meet every boundary.
OffsetsOf(sizes) == [k \in 1 .. Len(sizes) + 1 |-> Total(SubSeq(sizes, 1, k - 1))]
SizesFit(is, sizes) ==
  Total(sizes) = Len(is.indices) /\ Boundaries(is) \subseteq Elements(OffsetsOf(sizes))

-----------------------------------------------------------------------------
\* Tiled index spaces.  Two are the same when their hash values are, which are
\* taken of what "key" holds (and not of the tiles).

NumTilesIn(t) == Len(t.offsets) - 1
Refs(t) == Elements(t.refs)
IsDependent(t) == DOMAIN t.dep # {}
SizeOfTile(t, i) == t.offsets[i + 2] - t.offsets[i + 1]
Same(t, u) == t.key = u.key

Tiled(is, size, sizes, offsets, refs, dep, depVec, parent) ==
  [is |-> is, size |-> size, sizes |-> sizes, offsets |-> offsets, refs |-> refs,
   dep |-> dep, given |-> DOMAIN dep, depVec |-> depVec, parent |-> parent, named |-> Empty, dense |-> FALSE,
   key |-> <<is.indices, size, sizes, [k \in DOMAIN dep |-> dep[k].key]>>]

\* The tiled space of a named subspace: the tiles its indices are in.
TileNamedSubspaces(t) ==
  LET TileOf(x) == Position(t.is.indices, x)
      In(p) == CHOOSE i \in 0 .. NumTilesIn(t) - 1 : t.offsets[i + 1] <= p /\ p < t.offsets[i + 2]
      Sub(is) ==
        LET tiles == Sorted({In(TileOf(x)) : x \in Elements(is.indices)})
        IN Tiled(is, t.size, t.sizes,
                 OffsetsOf([k \in DOMAIN tiles |-> SizeOfTile(t, tiles[k])]),
                 tiles, Empty, <<>>, <<t>>)
  IN [t EXCEPT !.named = [n \in DOMAIN t.is.subs |-> Sub(t.is.subs[n])]]

RootTiling(is, size, sizes) ==
  LET offsets == IF sizes = <<>> THEN ConstructTiledIndices(is, size) ELSE OffsetsOf(sizes)
  IN TileNamedSubspaces(
       Tiled(is, size, sizes, offsets, [k \in 1 .. Len(offsets) - 1 |-> k - 1], Empty, <<>>, <<>>))

\* A space that depends on tiles by construction: rel maps keys to index spaces,
\* which are tiled with one size or with a list of sizes each.
DependentTiling(rel, size, sizes) ==
  LET Value(k) == IF size > 0 THEN RootTiling(rel[k], size, <<>>) ELSE RootTiling(rel[k], 0, sizes[k])
  IN Tiled(EmptySpace, size, <<>>, <<0>>, <<>>, [k \in DOMAIN rel |-> Value(k)], <<>>, <<>>)

EmptyTis == RootTiling(EmptySpace, 1, <<>>)

RECURSIVE root_tis(_), tis_depth(_), common_ancestor(_, _)
RECURSIVE MaxTileSize(_), MaxNumTiles(_), MaxNumIndices(_)
root_tis(t) == IF t.parent = <<>> THEN t ELSE root_tis(t.parent[1])
tis_depth(t) == IF t.parent = <<>> THEN 0 ELSE 1 + tis_depth(t.parent[1])

\* The indices of a tile, in the root.
Block(t, i) == SubSeq(t.is.indices, t.offsets[i + 1] + 1, t.offsets[i + 2])

\* What tensors are told of the sizes: bounds on the tiles and on their size, and
\* the number of indices, which is a bound too when it is a subspace.  Of a space
\* that depends on tiles by a relation it is the number of one of the given values,
\* the first of those with the largest tile size, and others may have more.
MaxTileSize(t) ==
  CASE IsDependent(t)                        -> Largest({MaxTileSize(t.dep[k]) : k \in t.given})
    [] ~IsDependent(t) /\ t.sizes = <<>>     -> t.size
    [] ~IsDependent(t) /\ t.sizes # <<>>     -> Largest({t.sizes[i + 1] : i \in Refs(t)})
MaxNumTiles(t) ==
  IF IsDependent(t) THEN Largest({MaxNumTiles(t.dep[k]) : k \in DOMAIN t.dep}) ELSE NumTilesIn(t)

KeyBefore(k, q) == \E j \in DOMAIN k : k[j] < q[j] /\ \A i \in 1 .. j - 1 : k[i] = q[i]
FirstLargest(t) ==
  LET keys == {k \in t.given : MaxTileSize(t.dep[k]) = MaxTileSize(t)}
  IN CHOOSE k \in keys : \A q \in keys \ {k} : KeyBefore(k, q)
NumIndicesOfRoot(t) ==
  IF IsDependent(t) THEN Largest({Len(t.dep[k].is.indices) : k \in DOMAIN t.dep})
  ELSE Len(t.is.indices)
NumIndicesByRelation(t) ==
  IF MaxTileSize(t) = 0 THEN 0 ELSE MaxNumIndices(t.dep[FirstLargest(t)])
NumIndicesOfSub(t) ==
  IF t.sizes = <<>> THEN Len(t.refs) * MaxTileSize(t)
  ELSE Total([k \in DOMAIN t.refs |-> t.sizes[t.refs[k] + 1]])
MaxNumIndices(t) ==
  CASE t.parent = <<>>                        -> NumIndicesOfRoot(t)
    [] t.parent # <<>> /\ IsDependent(t)      -> NumIndicesByRelation(t)
    [] t.parent # <<>> /\ ~IsDependent(t)     -> NumIndicesOfSub(t)

\* Some tiles of t, in the given order; tiles are numbered as in t.
SubTis(t, tiles) ==
  LET root == root_tis(t)
      refs == [k \in DOMAIN tiles |-> t.refs[tiles[k] + 1]]
  IN Tiled(SubSpace(root.is, Concat([k \in DOMAIN refs |-> Block(root, refs[k])]), Empty),
           root.size, root.sizes,
           OffsetsOf([k \in DOMAIN refs |-> SizeOfTile(root, refs[k])]),
           refs, Empty, <<>>, <<t>>)

\* Contiguous tiles are known to be so only when they are given as a range.
SubTisOfRange(t, r) == [SubTis(t, construct_index_vector(r)) EXCEPT !.dense = (r.step = 1)]

\* All combinations of tiles of the spaces depended on, and the space that
\* depends on them; where the map says nothing it is empty.
Keys(depVec) ==
  {k \in [DOMAIN depVec -> 0 .. Largest({NumTilesIn(depVec[j]) : j \in DOMAIN depVec})] :
     \A j \in DOMAIN depVec : k[j] < NumTilesIn(depVec[j])}

DepTis(t, depVec, map) ==
  [Tiled(t.is, t.size, t.sizes, <<0>>, <<>>,
         [k \in Keys(depVec) \cup DOMAIN map |-> IF k \in DOMAIN map THEN map[k] ELSE EmptyTis],
         depVec, <<t>>) EXCEPT !.given = DOMAIN map]

lookup_dependent_space(t, key) ==
  CASE key = <<>>                                             -> <<t, TRUE>>
    [] key # <<>> /\ key \notin DOMAIN t.dep                  -> <<EmptyTis, FALSE>>
    [] key # <<>> /\ key \in DOMAIN t.dep                     -> <<t.dep[key], ~Same(t.dep[key], EmptyTis)>>

IsCompatibleWith(t, u) == Same(root_tis(t), root_tis(u))

\* The number of a tile in another space over the same root, if it is there.
\* Mutant: the tile is looked for by its number in this space.
MutTranslateSimple(t, i, u) ==
  IF Same(t, u) THEN <<i, TRUE>>
  ELSE IF i \in Refs(u) THEN <<Position(u.refs, i), TRUE>> ELSE <<-1, FALSE>>
TranslateSimple(t, i, u) ==
  IF Same(t, u) THEN <<i, TRUE>>
  ELSE IF t.refs[i + 1] \in Refs(u)
       THEN <<Position(u.refs, t.refs[i + 1]), TRUE>>
       ELSE <<-1, FALSE>>

\* The same between spaces that depend on tiles.
translate_if_possible(t, i, key, u, ukey) ==
  IF Same(t, u) /\ key = ukey THEN <<i, TRUE>>
  ELSE LET from == lookup_dependent_space(t, key)
           to   == lookup_dependent_space(u, ukey)
       IN IF from[2] /\ to[2] THEN TranslateSimple(from[1], i, to[1]) ELSE <<-1, FALSE>>

-----------------------------------------------------------------------------
\* The algebra of tiled spaces

\* The deeper side goes up until they meet; two roots have nothing in common.
common_ancestor(t, u) ==
  LET d == tis_depth(t) - tis_depth(u)
  IN CASE d > 0                                        -> common_ancestor(t.parent[1], u)
       [] d < 0                                        -> common_ancestor(t, u.parent[1])
       [] d = 0 /\ Same(t, u)                          -> t
       [] d = 0 /\ ~Same(t, u) /\ t.parent = <<>>      -> EmptyTis
       [] d = 0 /\ ~Same(t, u) /\ t.parent # <<>>      -> common_ancestor(t.parent[1], u.parent[1])

\* std::set_intersection: one pass over both sequences.
SetIntersection(s, q) ==
  LET merge[i \in 1 .. Len(s) + 1, j \in 1 .. Len(q) + 1] ==
        CASE i > Len(s) \/ j > Len(q)                  -> <<>>
          [] i <= Len(s) /\ j <= Len(q) /\ s[i] < q[j] -> merge[i + 1, j]
          [] i <= Len(s) /\ j <= Len(q) /\ s[i] > q[j] -> merge[i, j + 1]
          [] i <= Len(s) /\ j <= Len(q) /\ s[i] = q[j] -> <<s[i]>> \o merge[i + 1, j + 1]
  IN merge[1, 1]

Deeper(t, u) == IF tis_depth(t) > tis_depth(u) THEN t ELSE u

IntersectSimple(t, u) ==
  IF NumTilesIn(t) = 0 THEN t
  ELSE IF NumTilesIn(u) = 0 THEN u
  ELSE LET common == common_ancestor(t, u)
       IN IF NumTilesIn(common) = 0 THEN common
          ELSE IF Same(common, t) \/ Same(common, u) THEN Deeper(t, u)
          ELSE LET both == SetIntersection(t.refs, u.refs)
               IN SubTis(common,
                         [k \in DOMAIN both |-> TranslateSimple(root_tis(t), both[k], common)[1]])

intersect_tis(t, u) ==
  IF ~IsDependent(t) THEN IntersectSimple(t, u)
  ELSE DepTis(common_ancestor(t.parent[1], root_tis(u)), t.depVec,
              [k \in DOMAIN t.dep |-> IntersectSimple(t.dep[k], u.dep[k])])

union_tis(t, u) ==
  LET root == root_tis(t)
  IN IF IsDependent(t) /\ IsDependent(u)
     THEN DepTis(root, t.depVec,
            [k \in DOMAIN t.dep \cup DOMAIN u.dep |->
               SubTis(root, Sorted((IF k \in DOMAIN t.dep THEN Refs(t.dep[k]) ELSE {})
                                   \cup IF k \in DOMAIN u.dep THEN Refs(u.dep[k]) ELSE {}))])
     ELSE SubTis(root, Sorted(Refs(t) \cup Refs(u)))

PositionOf(depVec, t) ==
  CHOOSE j \in DOMAIN depVec : Same(depVec[j], t) /\ \A i \in 1 .. j - 1 : ~Same(depVec[i], t)

\* Keys of u that name a tile of the space t has values in are replaced by the
\* keys of t with that value.
\* Mutant: the last key of t that has a value wins.
MutGather(root, pairs) ==
  [k \in {p[1] : p \in pairs} |-> SubTis(root, Sorted(CHOOSE S \in {p[2] : p \in pairs} : <<k, S>> \in pairs))]
Gather(root, pairs) ==
  [k \in {p[1] : p \in pairs} |-> SubTis(root, Sorted(UNION {p[2] : p \in {q \in pairs : q[1] = k}}))]

compose_tis(t, u) ==
  LET j == PositionOf(u.depVec, t.parent[1])
      Spliced(uk, tk) == SubSeq(uk, 1, j - 1) \o tk \o SubSeq(uk, j + 1, Len(uk))
      pairs == UNION {{<<Spliced(uk, tk), Refs(u.dep[uk])>> :
                         tk \in {k \in DOMAIN t.dep : uk[j] \in Refs(t.dep[k])}} : uk \in DOMAIN u.dep}
  IN DepTis(root_tis(u), Spliced(u.depVec, t.depVec), Gather(root_tis(u), pairs))

invert_tis(t) ==
  LET values == UNION {Refs(t.dep[k]) : k \in DOMAIN t.dep}
      KeysOf(i) == Sorted({k[1] : k \in {q \in DOMAIN t.dep : i \in Refs(t.dep[q])}})
  IN DepTis(t.depVec[1], t.parent,
            [k \in {<<i>> : i \in values} |-> SubTis(t.depVec[1], KeysOf(k[1]))])

project_tis(t, u) ==
  LET j == PositionOf(t.depVec, u)
      root == root_tis(t)
  IN IF Len(t.depVec) > 1
     THEN DepTis(root, RemoveAt(t.depVec, j),
                 Gather(root, {<<RemoveAt(k, j), Refs(t.dep[k])>> : k \in DOMAIN t.dep}))
     ELSE SubTis(root, Sorted(UNION {Refs(t.dep[k]) : k \in DOMAIN t.dep}))
=============================================================================
