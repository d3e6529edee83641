--------------------------- MODULE RoutineMeaning ---------------------------
(***************************************************************************)
(* What a program of calls of the routines means: the calls done one after *)
(* the other on tensors that are functions from coordinates to values,     *)
(* without blocks, buffers or ranks.                                       *)
(***************************************************************************)
EXTENDS RoutinePhases

LT == INSTANCE LocalTensors

CONSTANTS Programs,  \* the programs, sequences of calls
          Given,     \* [Names -> [coordinates -> values]], at the start
          FileNames,
          LocalNames \* the local tensors that every rank has of its own

Abs(v) == IF v < 0 THEN -v ELSE v

\* What a tensor holds after a restart, until it is set.
Unknown == <<>>

\* Zero blocks hold no values.
Stored(t, x) == LayoutOf[t].kind # "stored" \/ BlockOf(Shape(t), x) \in NonZero(t)
Held == {t \in Names : LayoutOf[t].kind \in {"stored", "dense"}}
Kept(t, f) == Table([x \in Coords(Shape(t)) |-> IF Stored(t, x) THEN f[x] ELSE 0])

\* Where in which tensor an element is held; a view shows elements of another.
HolderOf(t) == IF IsView(t) THEN LayoutOf[t].of ELSE t
HeldAt(t, x) == IF IsView(t) THEN LayoutOf[t].at[x] ELSE x

\* The values of a tensor.
ValuesIn(m, t) ==
  IF LayoutOf[t].kind = "lambda" THEN LayoutOf[t].lambda
  ELSE [x \in Coords(Shape(t)) |-> m.tensor[HolderOf(t)][HeldAt(t, x)]]

SumOver(S, f) == FoldSet(LAMBDA x, acc : acc + f[x], 0, S)

\* What all ranks together add to the tensor that holds c.t.
Added(c, old) ==
  LET Part(x) == SumSeq([k \in DOMAIN c.parts |-> c.parts[k][x]])
      Onto(y) == {x \in Coords(Shape(c.t)) : HeldAt(c.t, x) = y}
  IN  [y \in DOMAIN old |-> old[y] + SumOver(Onto(y), [x \in Onto(y) |-> Part(x)])]

\* The values of c.t after the call.
NewValues(c, old) ==
  [x \in Coords(Shape(c.t)) |->
     CASE c.do = "scale_ip" -> c.alpha * old[x]
       [] c.do = "set_val_ip" -> c.alpha
       [] c.do \in {"update_tensor", "update_tensor_general", "vector_to_tamm_tensor",
                    "eigen_to_tamm_tensor", "fill_tensor", "fill_sparse_tensor"} -> c.values[x]
       [] c.do = "update_tensor_val" -> IF x = c.coord THEN c.val ELSE old[x]
       [] c.do = "update_diagonal" -> IF x[1] = x[2] THEN old[x] + c.dvec[x[1] + 1] ELSE old[x]
       [] c.do = "identity_matrix" -> IF x[1] = x[2] THEN 1 ELSE 0
       [] OTHER -> old[x]]

\* A local tensor has its sizes and the values of the elements that have been set.
OfSize(dims, f) == [dims |-> dims, values |-> Table([x \in DOMAIN f \cap Tuples(dims) |-> f[x]])]

NoLocal == OfSize(<<>>, <<>>)

\* The local tensors of every rank after a call.
OwnAfter(c, mine) ==
  LET l == mine[c.name]
      PositionIn(x) == RowMajor(l.dims, x) + 1
  IN  CASE c.do = "local_init" -> [mine EXCEPT ![c.name] = OfSize(c.dims, [x \in Tuples(c.dims) |-> c.val])]
        [] c.do = "local_set" -> [mine EXCEPT ![c.name].values = (c.coord :> c.val) @@ @]
        [] c.do = "local_put" ->
             [mine EXCEPT ![c.name] = OfSize(l.dims, [x \in Tuples(l.dims) |-> c.buffer[PositionIn(x)]])]
        [] c.do = "local_add" ->
             [mine EXCEPT ![c.name] =
                OfSize(l.dims, [x \in DOMAIN l.values |-> l.values[x] + c.buffer[PositionIn(x)]])]
        [] c.do = "local_resize" -> [mine EXCEPT ![c.name] = OfSize(c.dims, @.values)]
        [] c.do = "local_block" ->
             LET From(x) == [d \in DOMAIN x |-> x[d] + c.coord[d]]
                 set == {x \in Tuples(c.dims) : From(x) \in DOMAIN l.values}
             IN  [mine EXCEPT ![c.to] = OfSize(c.dims, [x \in set |-> l.values[From(x)]])]

\* The tensors and files after a call.
After(c, m) ==
  CASE c.do \in {"apply_ewise"} ->
         [m EXCEPT !.tensor[c.to] =
            Kept(c.to, [x \in Coords(Shape(c.t)) |-> c.alpha * ValuesIn(m, c.t)[x]])]
    [] c.do \in {"to_dense_tensor", "retile_tamm_tensor", "redistribute_tensor",
                 "to_block_cyclic_tensor", "from_block_cyclic_tensor", "from_dense_tensor",
                 "retile_rank2_tensor"} ->
         [m EXCEPT !.tensor[c.to] = Kept(c.to, ValuesIn(m, c.t))]
    [] c.do = "tensor_block" ->
         [m EXCEPT !.tensor[c.to] =
            [x \in Coords(Shape(c.to)) |-> m.tensor[c.t][[d \in DOMAIN x |-> x[d] + c.lo[d]]]]]
    [] c.do = "write_to_disk" -> [m EXCEPT !.file[c.file] = m.tensor[c.t]]
    [] c.do = "read_from_disk" ->
         LET t == IF c.tammio THEN c.as ELSE c.t
         IN  [m EXCEPT !.tensor[t] = Kept(t, m.file[c.file])]
    [] c.do = "write_to_disk_group" ->
         [m EXCEPT !.file =
            [f \in DOMAIN @ |->
               IF \E i \in DOMAIN c.list : c.files[i] = f
               THEN m.tensor[c.list[CHOOSE i \in DOMAIN c.list : c.files[i] = f]] ELSE @[f]]]
    [] c.do = "read_from_disk_group" ->
         [m EXCEPT !.tensor =
            [t \in DOMAIN @ |->
               IF \E i \in DOMAIN c.list : c.list[i] = t
               THEN m.file[c.files[CHOOSE i \in DOMAIN c.list : c.list[i] = t]] ELSE @[t]]]
    [] c.do = "restart" -> [m EXCEPT !.tensor = Table([t \in Held |-> Unknown]),
                                        !.own = Table([n \in LocalNames |-> NoLocal])]
    [] c.do = "barrier" -> m
    [] c.do \in LocalCalls \cup {"local_init"} -> [m EXCEPT !.own = OwnAfter(c, @)]
    [] c.do = "eigen_to_tamm_tensor_acc" ->
         LET t == HolderOf(c.t) IN [m EXCEPT !.tensor[t] = Kept(t, Added(c, @))]
    [] OTHER -> IF c.t \in Held THEN [m EXCEPT !.tensor[c.t] = Kept(c.t, NewValues(c, @))] ELSE m

\* The calls of all programs.
CallIds == UNION {{p} \X DOMAIN Programs[p] : p \in DOMAIN Programs}

\* The tensors, files and local tensors before the first call and after every call.
Start ==
  [tensor |-> Table([t \in Held |-> Kept(t, Given[t])]),
   own |-> Table([n \in LocalNames |-> NoLocal]),
   file |-> Table([f \in FileNames |-> <<>>])]

AfterCalls(p, n) ==
  LET after[k \in 0 .. n] == IF k = 0 THEN Start ELSE After(Programs[p][k], after[k - 1])
  IN  after[n]

Before == Table([id \in CallIds |-> AfterCalls(id[1], id[2] - 1)])
Meaning == Table([id \in CallIds |-> AfterCalls(id[1], id[2])])

-----------------------------------------------------------------------------
(* What a call may return.                                                 *)

ValuesOf(f) == {f[x] : x \in DOMAIN f}
DiagonalCoords(f) == {x \in DOMAIN f : x[1] = x[2]}
SquareOf(f) == [x \in DOMAIN f |-> f[x] * f[x]]

ElementAt(t, x, v) ==
  LET b == BlockOf(Shape(t), x)
  IN  [val |-> v, block |-> b, coord |-> [d \in DOMAIN x |-> x[d] - BlockOffsets(Shape(t), b)[d]]]

\* The elements of non-zero blocks above a threshold, -1 for all of them, for
\* dense tensors only those at the coordinates asked for.
Asked(c, x) == c.do = "print_dense_tensor" => x \in c.where
Shown(c, f) ==
  {<<x, f[x]>> : x \in {y \in DOMAIN f : Stored(c.t, y) /\ Asked(c, y) /\ Abs(f[y]) > c.tol}}

MayReturn(c, f) ==
  CASE c.do = "sum" -> {SumOver(DOMAIN f, f)}
    [] c.do = "norm" -> {SumOver(DOMAIN f, SquareOf(f))}
    [] c.do = "trace" -> {SumOver(DiagonalCoords(f), f)}
    [] c.do = "trace_sqr" -> {SumOver(DiagonalCoords(f), SquareOf(f))}
    [] c.do = "linf_norm" -> {v \in ValuesOf(f) : \A w \in ValuesOf(f) : Abs(w) <= Abs(v)}
    [] c.do = "max_element" ->
         {ElementAt(c.t, x, f[x]) : x \in {y \in DOMAIN f : \A w \in ValuesOf(f) : w <= f[y]}}
    [] c.do = "min_element" ->
         {ElementAt(c.t, x, f[x]) : x \in {y \in DOMAIN f : \A w \in ValuesOf(f) : f[y] <= w}}
    [] c.do = "diagonal" -> {[i \in 1 .. Cardinality(DiagonalCoords(f)) |-> f[<<i - 1, i - 1>>]]}
    [] c.do \in {"tamm_tensor_to_vector", "tamm_to_eigen_tensor"} -> {f}
    [] c.do \in {"print_max_above_threshold", "print_tensor", "print_tensor_all", "tensor_to_string"} ->
         {Shown(c, f)}
    [] c.do = "print_dense_tensor" -> {Shown(c, f), {}}
    [] c.do = "get_tensor_element" -> {f[c.coord]}
    [] c.do = "retile_rank2_tensor" -> {f}
    [] c.do = "compute_tensor_size" -> {Cardinality({x \in DOMAIN f : Stored(c.t, x)})}
    [] c.do = "get_scalar" -> {f[<<>>]}
    [] OTHER -> {0}

\* The results a call of a program may have.
Results ==
  Table([id \in CallIds |->
    LET c == Programs[id[1]][id[2]]
    IN  IF c.do \in LocalCalls \cup {"local_init", "barrier", "restart", "write_to_disk_group", "read_from_disk_group"} THEN {0}
        ELSE MayReturn(c, ValuesIn(Before[id], c.t))])
=============================================================================
