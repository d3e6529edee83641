---------------------------- MODULE TensorAccess ----------------------------
(***************************************************************************)
(* How blocks are got from tensors, put into them and added to them        *)
(* (tensor_impl.hpp): tensors that hold their non-zero blocks, dense ones  *)
(* that are one array, views that show blocks of another tensor, and       *)
(* lambda tensors that compute what is got.                                *)
(***************************************************************************)
EXTENDS RoutineMeaning

VARIABLES memory, \* by stored tensor and non-zero block, the buffer of the block
          arrays  \* by array, the values of the coordinates that are set

Tensors == {t \in Names : LayoutOf[t].kind = "stored"}
Arrays == {t \in Names : IsDense(t)} \cup {"iotemp"}
Zeros(n) == [k \in 1 .. n |-> 0]

\* TensorImpl: zero blocks are got as zeros, and not put or added to.
TensorGet(t, b) == IF b \in NonZero(t) THEN memory[t][b] ELSE Zeros(Len(Elements[t, b]))

TensorPut(t, b, buffer) ==
  IF b \in NonZero(t) THEN [memory EXCEPT ![t][b] = buffer] ELSE memory

TensorAdd(t, b, buffer) ==
  IF b \in NonZero(t)
  THEN [memory EXCEPT ![t][b] = [k \in DOMAIN @ |-> @[k] + buffer[k]]] ELSE memory

\* DenseTensorImpl: the part of array a where block b of t is, its last dimension
\* the fastest.
Region(t, b) ==
  LET lo == BlockOffsets(Shape(t), b)
      dims == BlockDims(Shape(t), b)
  IN  {x \in Coords(Shape(t)) : \A d \in DOMAIN x : lo[d] <= x[d] /\ x[d] < lo[d] + dims[d]}

At(a, x) == IF x \in DOMAIN arrays[a] THEN arrays[a][x] ELSE Garbage

DenseGet(a, t, b) == [k \in DOMAIN Elements[t, b] |-> At(a, Elements[t, b][k])]

DensePut(a, t, b, buffer) ==
  [arrays EXCEPT ![a] = [x \in Region(t, b) |-> buffer[Where[t, x].pos]] @@ @]

DenseAdd(a, t, b, buffer) ==
  [arrays EXCEPT ![a] = [x \in Region(t, b) |-> At(a, x) + buffer[Where[t, x].pos]] @@ @]

\* The block of the tensor of a view that its block b shows.
RefMap(t, b) == LayoutOf[t].block[b]

\* ViewTensorImpl: what is got is copied by the view's function; what is added is
\* added to the block as it is.
ViewGet(t, b) ==
  LET of == LayoutOf[t].of
      ref == TensorGet(of, RefMap(t, b))
  IN  [k \in DOMAIN Elements[t, b] |-> ref[Where[of, LayoutOf[t].at[Elements[t, b][k]]].pos]]

ViewAdd(t, b, buffer) == TensorAdd(LayoutOf[t].of, RefMap(t, b), buffer)

\* LambdaTensorImpl
LambdaGet(t, b) == [k \in DOMAIN Elements[t, b] |-> LayoutOf[t].lambda[Elements[t, b][k]]]

Get(t, b) ==
  CASE LayoutOf[t].kind = "stored" -> TensorGet(t, b)
    [] LayoutOf[t].kind = "dense"  -> DenseGet(t, t, b)
    [] LayoutOf[t].kind = "view"   -> ViewGet(t, b)
    [] LayoutOf[t].kind = "lambda" -> LambdaGet(t, b)
=============================================================================
