--------------------------- MODULE MCDistribution ---------------------------
(* Tensors of up to three dimensions over six kinds of dimension.          *)
EXTENDS Distribution

Dim(tiles, made) == [tiles |-> tiles, made |-> made]

\* One tile, the tile size fitting or too large, an uneven last tile, tiles of one
\* element, and lists of tile sizes.
MCDims == {Dim(<<2>>, 2), Dim(<<2>>, 5), Dim(<<2, 1>>, 2), Dim(<<1, 1>>, 1),
           Dim(<<1, 3>>, 0), Dim(<<3, 2, 1>>, 0)}
SmallDims == {Dim(<<2, 1>>, 2), Dim(<<1, 2>>, 0)}

\* In three dimensions the last may be such that no view with unit tiles is allowed.
MCShapes == {<<>>} \cup {<<d>> : d \in MCDims} \cup (MCDims \X MCDims)
            \cup (SmallDims \X SmallDims \X {Dim(<<1, 2>>, 0), Dim(<<1, 1>>, 1)})

\* Any blocks of a tensor of up to four may be zero, one of a larger.
MCTensors ==
  UNION {{[shape |-> s, nonzero |-> nz] :
            nz \in IF Cardinality(BlockIds(s)) <= 4 THEN SUBSET BlockIds(s) \ {{}}
                   ELSE {BlockIds(s)} \cup {BlockIds(s) \ {b} : b \in BlockIds(s)}} :
         s \in MCShapes}
=============================================================================
