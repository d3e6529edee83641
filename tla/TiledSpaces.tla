---------------------------- MODULE TiledSpaces ----------------------------
(***************************************************************************)
(* A program that makes tiled index spaces from one another: a root, then  *)
(* subspaces, spaces that depend on tiles of others, and what the algebra  *)
(* makes of these.  Every space is kept with what it should consist of,    *)
(* in terms of the indices of its tiles.                                   *)
(***************************************************************************)
EXTENDS IndexSpaces

CONSTANTS
  Tilings,    \* <<index space, tile size, list of tile sizes>>
  DependentTilings, \* the same where the spaces depend on tiles
  Relations,  \* functions from tile numbers to sequences of tiles
  Sublists,   \* sequences of tile numbers
  Extended,   \* the offsets of the roots from which more spaces are made
  MaxMade,    \* bound on the spaces made
  Whole       \* whether a subspace that is all of its parent may be intersected

VARIABLE made  \* <<tiled space, the tuples of tiles it should consist of>>

Tis(a) == made[a][1]
Means(a) == made[a][2]
Made == DOMAIN made
Independent == {a \in Made : ~IsDependent(Tis(a))}
Dependent == Made \ Independent
Root == Tis(1)
Tiles(t) == 0 .. NumTilesIn(t) - 1

\* A tile is known by its indices in the root.
TileOf(t, i) == Elements(Block(t, i))
Simple(t) == {<<TileOf(t, i)>> : i \in Tiles(t)}
Consists(t) ==
  IF ~IsDependent(t) THEN Simple(t)
  ELSE UNION {{[j \in DOMAIN t.depVec |-> TileOf(t.depVec[j], k[j])] \o v : v \in Simple(t.dep[k])} :
              k \in DOMAIN t.dep}

Make(t, means) == made' = Append(made, <<t, means>>)

TilesInit ==
  \/ \E c \in Tilings :
       /\ c[3] # <<>> => SizesFit(c[1], c[3])
       /\ LET t == RootTiling(c[1], c[2], c[3]) IN made = <<<<t, Simple(t)>>>>
  \/ \E c \in DependentTilings :
       /\ c[2] = 0 => \A k \in DOMAIN c[1] : SizesFit(c[1][k], c[3][k])
       /\ LET t == DependentTiling(c[1], c[2], c[3]) IN made = <<<<t, Consists(t)>>>>

MakeSub == \E a \in Independent, tiles \in Sublists :
  /\ Elements(tiles) \subseteq Tiles(Tis(a))
  /\ Make(SubTis(Tis(a), tiles), {<<TileOf(Tis(a), i)>> : i \in Elements(tiles)})

\* A space over the root that depends on one made before, or on two.
Pairs(rel, d) == {q \in Tiles(d) \X Tiles(Root) : q[1] \in DOMAIN rel /\ q[2] \in Elements(rel[q[1]])}
MakeDependent == \E d \in Independent, rel \in Relations :
  /\ Keys(<<Tis(d)>>) # {}
  /\ Make(DepTis(Root, <<Tis(d)>>,
                 [k \in {<<i>> : i \in DOMAIN rel \cap Tiles(Tis(d))} |-> SubTis(Root, rel[k[1]])]),
          {<<TileOf(Tis(d), q[1]), TileOf(Root, q[2])>> : q \in Pairs(rel, Tis(d))})
MakeDependentOnTwo == \E d, e \in Independent, rel \in Relations :
  /\ d < e /\ Keys(<<Tis(d), Tis(e)>>) # {}
  /\ Make(DepTis(Root, <<Tis(d), Tis(e)>>,
                 [k \in {<<i, j>> : i \in DOMAIN rel \cap Tiles(Tis(d)), j \in Tiles(Tis(e)) \ {1}} |->
                    SubTis(Root, rel[k[1]])]),
          {<<TileOf(Tis(d), q[1]), TileOf(Tis(e), j), TileOf(Root, q[2])>> :
             q \in Pairs(rel, Tis(d)), j \in Tiles(Tis(e)) \ {1}})

SameKeys(t, u) ==
  /\ IsDependent(t) = IsDependent(u)
  /\ Len(t.depVec) = Len(u.depVec) /\ \A j \in DOMAIN t.depVec : Same(t.depVec[j], u.depVec[j])

\* A subspace with all tiles of a space above it looks the same as that space.
PoseAsAncestor(t, u) ==
  LET c == common_ancestor(t, u)
  IN /\ NumTilesIn(t) > 0 /\ NumTilesIn(u) > 0 /\ ~Same(t, u)
     /\ \/ Same(c, t) /\ tis_depth(t) >= tis_depth(u)
        \/ Same(c, u) /\ tis_depth(u) >= tis_depth(t)
Intersect == \E a, b \in Made :
  /\ SameKeys(Tis(a), Tis(b))
  /\ \/ Whole
     \/ IsDependent(Tis(a)) /\ \A k \in DOMAIN Tis(a).dep : ~PoseAsAncestor(Tis(a).dep[k], Tis(b).dep[k])
     \/ ~IsDependent(Tis(a)) /\ ~PoseAsAncestor(Tis(a), Tis(b))
  /\ Make(intersect_tis(Tis(a), Tis(b)), Means(a) \cap Means(b))

Unite == \E a, b \in Made :
  /\ SameKeys(Tis(a), Tis(b))
  /\ Make(union_tis(Tis(a), Tis(b)), Means(a) \cup Means(b))

\* compose_tis and invert_tis take a tile of the parent and a tile of the root for
\* the same number: here the parent is the root.
Compose == \E a, b \in Dependent :
  /\ tis_depth(Tis(a)) = 1
  /\ \E j \in DOMAIN Tis(b).depVec : Same(Tis(b).depVec[j], Tis(a).parent[1])
  /\ LET j == PositionOf(Tis(b).depVec, Tis(a).parent[1])
     IN Make(compose_tis(Tis(a), Tis(b)),
             UNION {{SubSeq(q, 1, j - 1) \o Front(p) \o SubSeq(q, j + 1, Len(q)) :
                       p \in {r \in Means(a) : Last(r) = q[j]}} : q \in Means(b)})

Invert == \E a \in Dependent :
  /\ tis_depth(Tis(a)) = 1 /\ Len(Tis(a).depVec) = 1
  /\ Make(invert_tis(Tis(a)), {<<p[2], p[1]>> : p \in Means(a)})

Project == \E a \in Dependent : \E j \in DOMAIN Tis(a).depVec :
  /\ j = PositionOf(Tis(a).depVec, Tis(a).depVec[j])
  /\ Make(project_tis(Tis(a), Tis(a).depVec[j]), {RemoveAt(p, j) : p \in Means(a)})

TilesNext ==
  /\ Len(made) < MaxMade /\ Root.offsets \in Extended
  /\ \/ MakeSub \/ MakeDependent \/ MakeDependentOnTwo
     \/ Intersect \/ Unite \/ Compose \/ Invert \/ Project

TilesSpec == TilesInit /\ [][TilesNext]_made

-----------------------------------------------------------------------------
Values(t) == IF IsDependent(t) THEN DOMAIN t.dep ELSE {<<>>}
ValueAt(t, k) == lookup_dependent_space(t, k)[1]

TilesCover ==
  LET Inside(t, i, r) == \A x \in t.offsets[i] .. t.offsets[i + 1] - 1 : contains(r, x)
      Outside(t, i, r) == \A x \in t.offsets[i] .. t.offsets[i + 1] - 1 : ~contains(r, x)
      Apart(t, i, named) == \A n \in DOMAIN named : \A k \in DOMAIN named[n] :
                              Inside(t, i, named[n][k]) \/ Outside(t, i, named[n][k])
  IN /\ \A k \in Values(Root) :
          LET t == ValueAt(Root, k)
          IN /\ t.offsets[1] = 0 /\ Last(t.offsets) = Len(t.is.indices)
             /\ \A i \in 1 .. NumTilesIn(t) :
                  /\ t.offsets[i] < t.offsets[i + 1]
                  /\ t.sizes = <<>> => t.offsets[i + 1] - t.offsets[i] <= t.size
                  /\ Apart(t, i, t.is.ranges) /\ Apart(t, i, t.is.spin)
     /\ \A a \in Made : \A k \in Values(Tis(a)) :
          LET t == ValueAt(Tis(a), k)
          IN /\ NumTilesIn(t) <= MaxNumTiles(Tis(a))
             /\ \A i \in Tiles(t) : SizeOfTile(t, i) <= MaxTileSize(Tis(a))
             /\ Tis(a).depVec = <<>> => Last(t.offsets) <= MaxNumIndices(Tis(a))

NamedSubspaces ==
  \A k \in Values(Root) :
    LET t == ValueAt(Root, k)
        is == t.is
    IN \A n \in DOMAIN is.subs :
         /\ Elements(Concat([j \in DOMAIN t.named[n].refs |-> Block(t, t.named[n].refs[j])]))
              = Elements(is.subs[n].indices)
         /\ HasSpin(is) =>
              \A j \in DOMAIN is.subs[n].indices :
                SpinAt(is.subs[n], j - 1) = SpinAt(is, Position(is.indices, is.subs[n].indices[j]))

(* Every tiling of a space covers it in order with tiles no larger than    *)
(* the size, no tile is partly in a named range or in a range of a spin    *)
(* and partly not, and no space made from it, nor the value of one for any *)
(* tiles that it depends on, has more or larger tiles than tensors are     *)
(* told of that space when they allocate.  It has no more indices either,  *)
(* if the space was not made of a relation: then the code tells the number *)
(* of indices of one value, which is no bound for the others.  The tiles   *)
(* of a named subspace are its indices and no others, and an index has the *)
(* same spin there as in the space.                                        *)
TilesFit == TilesCover /\ NamedSubspaces

(* However a space was made, it consists of the tiles it should: the       *)
(* algebra of tiled spaces is that of sets and relations of tiles.         *)
SpacesAreRelations == \A a \in Made : Consists(Tis(a)) = Means(a)

(* Translation between two spaces, simple or dependent, finds the tile     *)
(* with the same indices, and says that there is none only when so.        *)
TranslationKeepsTile ==
  \A a, b \in Made : \A k \in Values(Tis(a)), q \in Values(Tis(b)) :
    LET from == ValueAt(Tis(a), k) onto == ValueAt(Tis(b), q)
    IN \A i \in Tiles(from) : Same(root_tis(from), root_tis(onto)) =>
         LET to == translate_if_possible(Tis(a), i, k, Tis(b), q)
         IN IF to[2] THEN to[1] \in Tiles(onto) /\ TileOf(onto, to[1]) = TileOf(from, i)
            ELSE <<TileOf(from, i)>> \notin Simple(onto)
=============================================================================
