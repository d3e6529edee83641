---------------------------- MODULE Distribution ----------------------------
(***************************************************************************)
(* Where the blocks of a tensor are (distribution.hpp, proc_grid.hpp):     *)
(* Distribution_NW over the keys of the non-zero blocks,                   *)
(* Distribution_SimpleRoundRobin, the grid of Distribution_Dense and       *)
(* UnitTileDistribution, a view of the base tensor whose leading           *)
(* dimensions have tiles of size one.                                      *)
(***************************************************************************)
EXTENDS NWDistribution, Layouts

CONSTANTS Tensors \* the tensors: [shape |-> ..., nonzero |-> ...]

\* Tiles are not empty (tiled_index_space.hpp:36, 53), and some blocks may be zero.
ASSUME TensorsAssumption ==
  \A t \in Tensors : /\ t.shape \in Seq([tiles : Seq(Nat \ {0}), made : Nat])
                     /\ t.nonzero \subseteq BlockIds(t.shape)

VARIABLES tensor,
          blocks  \* the non-zero blocks in the order of hash_ after the sort

shape == tensor.shape
nonzero == tensor.nonzero

\* compute_key
Key(b) == RowMajor([r \in DOMAIN shape |-> NumTiles(shape[r])], b)

-----------------------------------------------------------------------------
(* Distribution_NW                                                         *)

\* hash_ after the sort: k - 1 blocks have smaller keys than the k-th.
SortByKey(S) ==
  [k \in 1 .. Cardinality(S) |->
     CHOOSE b \in S : Cardinality({c \in S : Key(c) < Key(b)}) = k - 1]

\* locate: hash_ is searched for the first key that is not less.
Place(b) ==
  LET k == CHOOSE k \in DOMAIN blocks :
             /\ Key(blocks[k]) >= Key(b)
             /\ \A m \in 1 .. k - 1 : Key(blocks[m]) < Key(b)
      p == CHOOSE p \in -1 .. nproc : IsProcOf(p, k)
  IN  <<p, OffsetIn(p, k)>>

\* init_max_proc_buf_size
LargestBufSize == Max({BufSize(p) : p \in Procs})

\* alloc_coll_balanced gives every process the same room in the global array, and
\* get, put and add find an element from where its process begins.
MapOf(room) == [p \in Procs |-> p * room]

Address(place, room) == MapOf(room)[place[1]] + place[2]

-----------------------------------------------------------------------------
(* Distribution_SimpleRoundRobin: every block has the room of the largest. *)

NumBlocks == ProductSeq([r \in DOMAIN shape |-> NumTiles(shape[r])])
MaxBlockSize == ProductSeq([r \in DOMAIN shape |-> MaxTileSize(shape[r])])
StepProc == IF nproc \div NumBlocks > 1 THEN nproc \div NumBlocks ELSE 1

\* Mutant: the buffer holds the blocks of an even share only.
MutRoundsDown == (NumBlocks \div nproc) * MaxBlockSize

MaxProcBufSize ==
  (NumBlocks \div nproc + (IF NumBlocks % nproc # 0 THEN 1 ELSE 0)) * MaxBlockSize

RoundRobinPlace(b) ==
  <<(Key(b) * StepProc) % nproc,
    IF StepProc # 1 THEN 0 ELSE (Key(b) \div nproc) * MaxBlockSize>>

-----------------------------------------------------------------------------
(* The process grid of Distribution_Dense                                  *)

\* The divisors above 1, which pdivs holds increasing.
Divisors(n) == {d \in 2 .. n : n % d = 0}

\* A round of the sieve: the first that is left, p, is prime, and of the others the
\* multiples of p are kept, divided by it.
Sieve(pdivs) ==
  LET p == Min(pdivs.left)
  IN  IF pdivs.left = {} THEN pdivs
      ELSE [primes |-> Append(pdivs.primes, p),
            left |-> {d \div p : d \in {d \in pdivs.left \ {p} : d % p = 0}}]

\* The prime divisors of n, with repetitions and increasing.
PrimeDivisors(n) ==
  LET pdivs[k \in 0 .. n] == IF k = 0 THEN [primes |-> <<>>, left |-> Divisors(n)]
                             ELSE Sieve(pdivs[k - 1])
  IN  pdivs[n].primes

\* The fraction of the elements that is left over when an axis has so many parts.
Excess(extent, parts) ==
  IF extent < parts THEN <<11, 10>> ELSE <<extent % parts, extent>>
Less(v, w) == v[1] * w[2] < w[1] * v[2]

\* Where the k-th prime goes: to the axis with the smallest excess, the first of
\* them; the search begins one axis further on each time.
BestAxis(tard, pedims, p, k) ==
  LET ndims == Len(tard)
      Axis(j) == ((k - 1 + j) % ndims) + 1
      Over(j) == Excess(tard[Axis(j)], p * pedims[Axis(j)])
  IN  Axis(CHOOSE j \in 0 .. ndims - 1 :
             /\ \A m \in 0 .. ndims - 1 : ~Less(Over(m), Over(j))
             /\ \A m \in 0 .. j - 1 : Less(Over(j), Over(m)))

Deal(tard, pedims, p, k) == [pedims EXCEPT ![BestAxis(tard, pedims, p, k)] = @ * p]

\* compute_proc_grid for bias 0, threshold 0 and no granularity: the primes are
\* dealt to the axes, the largest first.  The load balance is never below the
\* threshold 0: there is no exhaustive search.
ProcGrid(extents, n) ==
  LET tard == [r \in DOMAIN extents |-> IF extents[r] < 1 THEN 1 ELSE extents[r]]
      primes == PrimeDivisors(n)
      pedims[k \in 0 .. Len(primes)] ==
        IF k = 0 THEN [r \in DOMAIN extents |-> 1]
        ELSE Deal(tard, pedims[k - 1], primes[Len(primes) - k + 1], k)
  IN  pedims[Len(primes)]

\* A dimension that was made as one tile is not divided.
IsSingle(d) == d.made = NumIndices(d)

\* Mutant: the grid is computed over all dimensions also when some are not divided.
MutGridOfAll ==
  LET pgrid == ProcGrid([r \in DOMAIN shape |-> NumIndices(shape[r])], nproc)
  IN  [r \in DOMAIN shape |-> IF IsSingle(shape[r]) THEN 1 ELSE pgrid[r]]

\* The dimensions that are divided, and the number of one among them (pgi).
Divided == {r \in DOMAIN shape : ~IsSingle(shape[r])}
NumberOf(r) == Cardinality({q \in Divided : q < r}) + 1

\* Without divided dimensions the code computes a grid, too, and uses nothing of it.
DenseGrid ==
  LET extents == [k \in 1 .. Cardinality(Divided) |->
                    NumIndices(shape[CHOOSE r \in Divided : NumberOf(r) = k])]
      pgrid == ProcGrid(extents, nproc)
  IN  [r \in DOMAIN shape |-> IF r \in Divided THEN pgrid[NumberOf(r)] ELSE 1]

\* DenseTensorImpl::allocate with irregular tiles: how many parts each dimension is
\* divided into, no more than it has indices, and where they begin.
PartsOf(grid, r) == Min({grid[r], NumIndices(shape[r])})

PartStarts(grid, r) ==
  LET parts == PartsOf(grid, r)
  IN  [k \in 1 .. parts |-> (k - 1) * (NumIndices(shape[r]) \div parts)]

-----------------------------------------------------------------------------
(* UnitTileDistribution: a view in which the first u dimensions have tiles *)
(* of one element.                                                         *)

UnitDim(d) == [tiles |-> [t \in 1 .. NumIndices(d) |-> 1], made |-> 1]

\* construct_new_tis
ViewDim(u, r) == IF r <= u THEN UnitDim(shape[r]) ELSE shape[r]
UnitShape(u) == [r \in DOMAIN shape |-> ViewDim(u, r)]

\* initialize_tile_information: dimensions of the base whose tiles have one
\* element count as well; the constructor aborts unless all are leftmost.
UnitTiledDims(u) ==
  {r \in DOMAIN shape : NumTiles(ViewDim(u, r)) = NumIndices(shape[r])}

CanView(u) == UnitTiledDims(u) # {} /\ UnitTiledDims(u) = 1 .. Cardinality(UnitTiledDims(u))

FindRemainingOffset(x, d) == x - TileOffset(d, FindTile(x, d))

TranslateBlockid(u, b) ==
  [r \in DOMAIN b |-> IF r \in UnitTiledDims(u) THEN FindTile(b[r], shape[r]) ELSE b[r]]

\* Mutant: the strides are those of the block of the view.
MutTranslateOffset(u, b, offs) ==
  offs + SumSeq([r \in DOMAIN b |->
                   IF r \in UnitTiledDims(u)
                   THEN FindRemainingOffset(b[r], shape[r])
                        * Strides(BlockDims(UnitShape(u), b))[r]
                   ELSE 0])

TranslateOffset(u, b, offs) ==
  offs + SumSeq([r \in DOMAIN b |->
                   IF r \in UnitTiledDims(u)
                   THEN FindRemainingOffset(b[r], shape[r])
                        * Strides(BlockDims(shape, TranslateBlockid(u, b)))[r]
                   ELSE 0])

UnitTilePlace(u, b) ==
  LET base == Place(TranslateBlockid(u, b))
  IN  <<base[1], TranslateOffset(u, b, base[2])>>

-----------------------------------------------------------------------------

DistInit ==
  /\ tensor \in Tensors
  /\ blocks = SortByKey(nonzero)
  /\ nblocks = Len(blocks)
  /\ size = [k \in DOMAIN blocks |-> BlockSize(shape, blocks[k])]
  /\ Init

DistNext == Next /\ UNCHANGED <<tensor, blocks>>

DistSpec == DistInit /\ [][DistNext]_<<vars, tensor, blocks>>

-----------------------------------------------------------------------------

\* Where the blocks of S are put, with room for a process: inside the part of the
\* global array that is their process's, and with no element in common.
PutApart(S, PlaceOf(_), room) ==
  LET put == {[block |-> b, at |-> Address(PlaceOf(b), room), length |-> BlockSize(shape, b)] :
                b \in S}
  IN  /\ \A b \in S : PlaceOf(b)[2] + BlockSize(shape, b) <= room
      /\ \A x, y \in put : x # y => x.at + x.length <= y.at \/ y.at + y.length <= x.at

\* A non-zero block lies in the part of its process and shares no memory with
\* another, whatever their indices
\* (distribution.hpp:211-233, 270-309, 337-358, memory_manager_ga.hpp:197-238).
\* The same of the round-robin distribution, where every block fits
\* (distribution.hpp:377-402, 414-429).
BlocksApart ==
  pc = "done" =>
    /\ \A b \in nonzero : Place(b)[1] \in Procs /\ RoundRobinPlace(b)[1] \in Procs
    /\ PutApart(nonzero, Place, LargestBufSize)
    /\ PutApart(BlockIds(shape), RoundRobinPlace, MaxProcBufSize)

\* The grid has as many places as there are processes, unless no dimension can be
\* divided: global arrays would be created over fewer or over too many
\* (distribution.hpp:510-560, proc_grid.hpp:195-306).  Divided unevenly, no part of
\* a dimension is empty (tensor_impl.hpp:971-1023).
GridIsWhole ==
  pc = "done" =>
    LET grid == DenseGrid
    IN  /\ ProductSeq(grid) = IF Divided # {} THEN nproc ELSE 1
        /\ \A r \in DOMAIN shape :
             LET starts == PartStarts(grid, r) \o <<NumIndices(shape[r])>>
             IN  \A k \in 1 .. PartsOf(grid, r) : starts[k] < starts[k + 1]

\* An element has one address, through the base tensor and through any view of
\* it with unit tiles (distribution.hpp:862-912).
OneAddress ==
  pc = "done" =>
    \A u \in DOMAIN shape : CanView(u) =>
      \A b \in nonzero : \A e \in Tuples(BlockDims(shape, b)) :
        LET view == [r \in DOMAIN b |-> IF r <= u THEN TileOffset(shape[r], b[r]) + e[r]
                                        ELSE b[r]]
            inView == [r \in DOMAIN b |-> IF r <= u THEN 0 ELSE e[r]]
        IN  /\ UnitTilePlace(u, view)[1] = Place(b)[1]
            /\ UnitTilePlace(u, view)[2] + RowMajor(BlockDims(UnitShape(u), view), inView)
                 = Place(b)[2] + RowMajor(BlockDims(shape, b), e)
=============================================================================
