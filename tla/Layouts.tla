------------------------------ MODULE Layouts ------------------------------
(***************************************************************************)
(* The tiles, blocks and elements of a tensor (tensor_base.hpp,            *)
(* tiled_index_space.hpp, distribution.hpp).                               *)
(*                                                                         *)
(* A shape is a sequence of dimensions.  A dimension is the sizes of its   *)
(* tiles and the tile size it was made with (0 when it was made with a     *)
(* list).  Tiles and elements are numbered from 0, dimensions from 1.      *)
(***************************************************************************)
EXTENDS Integers, SequencesExt

\* What memory holds that is not set.
Garbage == -99

\* The product of f over the indices S.
ProductOn(f, S) == FoldFunctionOnSet(LAMBDA a, b : a * b, 1, f, S)

SumSeq(s) == SumFunctionOnSet(s, DOMAIN s)
ProductSeq(s) == ProductOn(s, DOMAIN s)
NumTiles(d) == Len(d.tiles)
NumIndices(d) == SumSeq(d.tiles)
MaxTileSize(d) == Max({0} \cup ToSet(d.tiles))
TileOffset(d, t) == SumFunctionOnSet(d.tiles, 1 .. t)

\* Tuples with each component less than that of extents.
Tuples(extents) ==
  {x \in [DOMAIN extents -> 0 .. SumSeq(extents)] : \A r \in DOMAIN extents : x[r] < extents[r]}

BlockIds(s) == Tuples([r \in DOMAIN s |-> NumTiles(s[r])])
BlockDims(s, b) == [r \in DOMAIN s |-> s[r].tiles[b[r] + 1]]
BlockSize(s, b) == ProductSeq(BlockDims(s, b))

\* The last dimension varies fastest.
Strides(extents) ==
  [r \in DOMAIN extents |-> ProductOn(extents, r + 1 .. Len(extents))]

RowMajor(extents, x) == SumSeq([r \in DOMAIN extents |-> x[r] * Strides(extents)[r]])

FindTile(x, d) ==
  CHOOSE t \in 0 .. NumTiles(d) - 1 : TileOffset(d, t) <= x /\ x < TileOffset(d, t + 1)

BlockOffsets(s, b) == [r \in DOMAIN s |-> TileOffset(s[r], b[r])]

\* The blocks in the order in which the loop nest visits them.
LoopNest(s) ==
  LET key(b) == RowMajor([r \in DOMAIN s |-> NumTiles(s[r])], b)
  IN  SetToSortSeq(BlockIds(s), LAMBDA b, c : key(b) < key(c))

\* The coordinates of the elements of a tensor, and of a block.
Coords(s) == Tuples([r \in DOMAIN s |-> NumIndices(s[r])])
BlockOf(s, x) == [r \in DOMAIN s |-> FindTile(x[r], s[r])]
CoordsOf(s, b) == {x \in Coords(s) : BlockOf(s, x) = b}

\* Where an element of a block is in the block's buffer.
Position(s, x) ==
  LET b == BlockOf(s, x)
  IN  1 + RowMajor(BlockDims(s, b), [r \in DOMAIN s |-> x[r] - BlockOffsets(s, b)[r]])
=============================================================================
