-------------------------- MODULE MCTensorRoutines --------------------------
(***************************************************************************)
(* Programs of one to twelve calls on tensors with tiles of different sizes, *)
(* one of them with a zero block, on machines of two nodes.                *)
(***************************************************************************)
EXTENDS TensorRoutines

D == [tiles |-> <<1, 2>>, made |-> 0]
E == [tiles |-> <<2, 1>>, made |-> 0]
F == [tiles |-> <<2>>, made |-> 2]
G == [tiles |-> <<2>>, made |-> 0]
Square == {0, 1} \X {0, 1}
Grid == (0 .. 2) \X (0 .. 2)
Line == {<<0>>, <<1>>, <<2>>}
Pair == {<<0>>, <<1>>}
Tensor(s, nz) == [shape |-> s, nonzero |-> nz, kind |-> "stored"]
Dense(s, nz) == [shape |-> s, nonzero |-> nz, kind |-> "dense"]
View(s, nz, of, blockOf, heldAt) ==
  [shape |-> s, nonzero |-> nz, kind |-> "view", of |-> of, block |-> blockOf, at |-> heldAt]
Lambda(s, nz, f) == [shape |-> s, nonzero |-> nz, kind |-> "lambda", lambda |-> f]

MCLayout ==
  [A |-> Tensor(<<D, D>>, Square \ {<<0, 1>>}),
   B |-> Tensor(<<D, D>>, Square),
   C |-> Tensor(<<E, E>>, Square),
   M |-> Dense(<<D, D>>, Square),
   P |-> Dense(<<F, F>>, {<<0, 0>>}),
   Q |-> Tensor(<<F, F>>, {<<0, 0>>}),
   v |-> Tensor(<<D>>, {<<0>>, <<1>>}),
   w |-> Tensor(<<E>>, {<<0>>, <<1>>}),
   q |-> Tensor(<<G>>, {<<0>>}),
   s |-> Tensor(<<>>, {<<>>}),
   \* the transpose of A, the second block of v, and the sum of the coordinates
   T |-> View(<<D, D>>, Square, "A", [b \in Square |-> <<b[2], b[1]>>],
              [x \in Grid |-> <<x[2], x[1]>>]),
   U |-> View(<<G>>, {<<0>>}, "v", [b \in {<<0>>} |-> <<1>>], [x \in Pair |-> <<x[1] + 1>>]),
   L |-> Lambda(<<E>>, {<<0>>, <<1>>}, [x \in Line |-> 2 * x[1] + 1])]
MCNames == {"A", "B", "C", "M", "P", "Q", "v", "w", "q", "s", "T", "U", "L"}
CoordsIn(t) ==
  CASE t \in {"A", "B", "C", "M", "T"} -> Grid
    [] t \in {"P", "Q"} -> Square
    [] t \in {"v", "w", "L"} -> Line
    [] t \in {"q", "U"} -> Pair
    [] t = "s" -> {<<>>}

MCMachines == {[ranks |-> 2, ppn |-> 1, nodes |-> 2], [ranks |-> 3, ppn |-> 2, nodes |-> 2]}
MCLocalNames == {"one", "two"}
MCFileNames == {"f", "g", "h"}

\* Values of both signs that differ.
MCGiven ==
  [t \in MCNames |-> [x \in CoordsIn(t) |->
     CASE Len(x) = 0 -> 3
       [] Len(x) = 1 -> 2 * x[1] - 1
       [] Len(x) = 2 -> 2 * x[1] - 3 * x[2] + 1]]
New(t) == [x \in CoordsIn(t) |-> IF Len(x) = 1 THEN 4 - 3 * x[1] ELSE x[2] - 2 * x[1]]

On(do, t) == [do |-> do, t |-> t, hint |-> 0]
Scale(do, t, alpha) == [do |-> do, t |-> t, hint |-> 0, alpha |-> alpha]
Set(do, t) == [do |-> do, t |-> t, hint |-> 0, values |-> New(t)]
Copy(do, t, to) == [do |-> do, t |-> t, hint |-> 0, to |-> to, alpha |-> -2]
File1(do, t, as, tammio, hint) ==
  [do |-> do, t |-> t, as |-> as, tammio |-> tammio, hint |-> hint, file |-> "f"]
Files(do, list, hint) ==
  [do |-> do, t |-> list[1], list |-> list, files |-> <<"f", "g", "h">>, hint |-> hint]
Barrier == [do |-> "barrier", t |-> "s", hint |-> 0]
Own(do, dims) == [do |-> do, t |-> "s", hint |-> 0, name |-> "one", dims |-> dims]
NewMachine == [do |-> "restart", t |-> "s", hint |-> 0]

MCPrograms ==
  <<<<On("sum", "A"), On("norm", "v"), On("linf_norm", "v")>>,
   <<Scale("scale_ip", "v", 2), On("sum", "v"), On("norm", "A")>>,
   <<Scale("set_val_ip", "A", -1), On("trace_sqr", "A")>>,
   <<Set("fill_tensor", "v"), On("max_element", "v"), On("min_element", "v")>>,
   <<Set("fill_sparse_tensor", "A"), On("trace", "A")>>,
   <<On("max_element", "A"), On("min_element", "A")>>,
   <<Set("update_tensor", "A"), Barrier, On("linf_norm", "A")>>,
   <<Set("update_tensor_general", "v"), Barrier, On("sum", "v")>>,
   <<[do |-> "update_diagonal", t |-> "B", hint |-> 0, dvec |-> <<5, -7, 2>>], Barrier,
     On("diagonal", "B")>>,
   <<[do |-> "update_tensor_val", t |-> "A", hint |-> 0, coord |-> <<2, 1>>, val |-> 9],
     On("tamm_to_eigen_tensor", "A")>>,
   <<Set("vector_to_tamm_tensor", "v"), Barrier, On("tamm_tensor_to_vector", "v")>>,
   <<Set("eigen_to_tamm_tensor", "v"), Barrier, On("print_max_above_threshold", "v") @@ [tol |-> 1]>>,
   <<On("eigen_to_tamm_tensor_acc", "v") @@ [parts |-> <<New("v"), MCGiven["v"]>>], Barrier,
     On("tamm_to_eigen_tensor", "v")>>,
   <<On("identity_matrix", "C"), On("print_tensor_all", "C") @@ [tol |-> -1]>>,
   <<Copy("apply_ewise", "A", "B"), On("compute_tensor_size", "A"), On("get_scalar", "s")>>,
   <<Copy("to_dense_tensor", "A", "M"), On("print_dense_tensor", "M") @@ [tol |-> 0, where |-> {<<2, 0>>, <<1, 1>>, <<0, 1>>, <<1, 2>>}],
     On("get_tensor_element", "M") @@ [coord |-> <<2, 1>>]>>,
   <<Copy("tensor_block", "M", "P") @@ [lo |-> <<1, 0>>], Copy("from_dense_tensor", "P", "Q")>>,
   <<Copy("retile_rank2_tensor", "B", "C"), On("print_tensor", "v") @@ [tol |-> 0],
     On("tensor_to_string", "v") @@ [tol |-> -1]>>,
   <<Copy("retile_tamm_tensor", "A", "C")>>,
   <<Copy("redistribute_tensor", "v", "w")>>,
   <<Copy("to_block_cyclic_tensor", "A", "M"), Barrier, Copy("from_block_cyclic_tensor", "M", "B")>>,
   <<File1("write_to_disk", "v", "v", TRUE, 0), NewMachine, File1("read_from_disk", "v", "v", TRUE, 0)>>,
   <<File1("write_to_disk", "A", "A", TRUE, 2), NewMachine, File1("read_from_disk", "A", "A", TRUE, 1)>>,
   <<File1("write_to_disk", "v", "v", FALSE, 1), NewMachine, File1("read_from_disk", "w", "v", FALSE, 2)>>,
   <<Files("write_to_disk_group", <<"v", "q">>, 0), NewMachine,
     Files("read_from_disk_group", <<"v", "q">>, 4)>>,
   <<[do |-> "update_tensor_val", t |-> "A", hint |-> 0, coord |-> <<2, 1>>, val |-> 9],
     Copy("apply_ewise", "T", "B")>>,
   <<On("eigen_to_tamm_tensor_acc", "U") @@ [parts |-> <<New("U"), New("U")>>], Barrier,
     On("tamm_tensor_to_vector", "U"), On("tamm_tensor_to_vector", "L")>>,
   <<On("eigen_to_tamm_tensor_acc", "M") @@ [parts |-> <<New("M"), MCGiven["M"]>>]>>,
   <<Own("local_init", <<2, 3>>) @@ [val |-> 7], Own("local_set", <<>>) @@ [coord |-> <<1, 2>>, val |-> 5],
     Own("local_resize", <<3, 4>>), Barrier,
     Own("local_block", <<2, 2>>) @@ [coord |-> <<0, 1>>, to |-> "two"], Own("local_resize", <<2, 3>>),
     Barrier, Own("local_add", <<>>) @@ [buffer |-> <<1, 2, 3, 4, 5, 6>>],
     Own("local_resize", <<1, 3>>), Barrier, Own("local_put", <<>>) @@ [buffer |-> <<6, 4, 2>>],
     Own("local_resize", <<2, 3>>)>>>>
=============================================================================
