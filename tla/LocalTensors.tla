---------------------------- MODULE LocalTensors ----------------------------
(***************************************************************************)
(* Local tensors (local_tensor.hpp) and the memory they have               *)
(* (memory_manager_local.hpp): every rank has its own, of a single tile in *)
(* each dimension, and reads and writes elements of it.                    *)
(*                                                                         *)
(* A local tensor is the sizes of its dimensions and its buffer.           *)
(***************************************************************************)
EXTENDS Layouts

LOCAL Computed(f) == f @@ <<>>

\* The memory is not set.
alloc_coll(n) == Computed([k \in 1 .. n |-> Garbage])
LocalTensor(sizes) == [dims |-> sizes, buf |-> alloc_coll(ProductSeq(sizes))]

\* Where an element is in a buffer of these sizes, and which is at position k.
compute_linear_index(dims, x) ==
  SumSeq([d \in DOMAIN dims |-> x[d] * ProductSeq(SubSeq(dims, d + 1, Len(dims)))])
IndicesAt(dims, k) ==
  [d \in DOMAIN dims |-> ((k - 1) \div ProductSeq(SubSeq(dims, d + 1, Len(dims)))) % dims[d]]

get(l, x) == l.buf[compute_linear_index(l.dims, x) + 1]
set(l, x, val) ==
  [l EXCEPT !.buf = Computed([@ EXCEPT ![compute_linear_index(l.dims, x) + 1] = val])]

\* A local tensor is one block, that operations get, put and add to as a whole.
init(l, val) == [l EXCEPT !.buf = Computed([k \in DOMAIN @ |-> val])]
put(l, from) == [l EXCEPT !.buf = Computed([k \in DOMAIN @ |-> from[k]])]
add(l, from) == [l EXCEPT !.buf = Computed([k \in DOMAIN @ |-> @[k] + from[k]])]

\* The elements of a block, in a local tensor of the size of the block.
block(l, starts, spans) ==
  LET Source(k) == [d \in DOMAIN spans |-> IndicesAt(spans, k)[d] + starts[d]]
  IN  [dims |-> spans,
       buf |-> Computed([k \in 1 .. ProductSeq(spans) |-> get(l, Source(k))])]

\* Every element is set where it is in another local tensor that has a place for it.
copy_to_bigger(l, bigger) ==
  LET x(k) == IndicesAt(bigger.dims, k)
      Has(k) == \A d \in DOMAIN l.dims : x(k)[d] < l.dims[d]
  IN  [bigger EXCEPT !.buf =
         Computed([k \in DOMAIN @ |-> IF Has(k) THEN get(l, x(k)) ELSE @[k]])]

isWithinOldDimensions(l, sizes) == \A d \in DOMAIN sizes : sizes[d] <= l.dims[d]

resize(l, sizes) ==
  CASE l.dims = sizes -> l
    [] l.dims # sizes /\ isWithinOldDimensions(l, sizes) ->
         block(l, [d \in DOMAIN sizes |-> 0], sizes)
    [] ~isWithinOldDimensions(l, sizes) -> copy_to_bigger(l, LocalTensor(sizes))
=============================================================================
