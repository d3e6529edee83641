---------------------------- MODULE RoutinePhases ---------------------------
(***************************************************************************)
(* The routines on whole tensors (tamm_utils.hpp, eigen_utils.hpp) and     *)
(* those that write and read them (tamm_io.hpp), as what every rank does   *)
(* in them: a sequence of phases.                                          *)
(*                                                                         *)
(* A phase is a collective call, at which the ranks of a group wait for    *)
(* each other, or a loop over the blocks of a tensor.  A loop is shared by *)
(* a group (block_for), or done by every rank, or by rank 0 alone, and     *)
(* moves the buffer of a block from one place to another.                  *)
(***************************************************************************)
EXTENDS Layouts, FiniteSets

CONSTANTS Names,         \* the tensors and the dense arrays of the program
          Layout,        \* [Names -> [shape, nonzero, kind]], and for
                         \* views and lambda tensors what they show
          PerAggregator  \* the elements that one more aggregating node is taken for

VARIABLE machine         \* [ranks, ppn, nodes]

\* A function with its values computed, to be used many times.
Table(f) == f @@ <<>>

\* The layouts, the number of elements, the blocks in the order of
\* the loop nest, the coordinates of the elements of a block in the order of its
\* buffer, and the block and the position in its buffer of an element.
LayoutOf == Table([t \in Names |-> Layout[t]])
Shape(t) == LayoutOf[t].shape
NonZero(t) == LayoutOf[t].nonzero
IsDense(t) == LayoutOf[t].kind = "dense"
IsView(t) == LayoutOf[t].kind = "view"
Size == Table([t \in Names |-> Cardinality(Coords(Shape(t)))])
Nest == Table([t \in Names |-> LoopNest(Shape(t))])
Elements ==
  Table([k \in UNION {{t} \X BlockIds(Shape(t)) : t \in Names} |->
    LET s == Shape(k[1]) IN
    SetToSortSeq(CoordsOf(s, k[2]), LAMBDA x, y : Position(s, x) < Position(s, y))])
Where ==
  Table([k \in UNION {{t} \X Coords(Shape(t)) : t \in Names} |->
    [block |-> BlockOf(Shape(k[1]), k[2]), pos |-> Position(Shape(k[1]), k[2])]])

Ranks == 0 .. machine.ranks - 1
Least(a, b) == IF a < b THEN a ELSE b

-----------------------------------------------------------------------------
(* Who takes part                                                          *)

\* get_agg_info: the first ranks, as many as the nodes that aggregate hold.
SubRanks(t, hint) ==
  LET wanted == Size[t] \div PerAggregator + 1
      avail == Least(machine.ranks \div machine.ppn + 1, machine.nodes)
      nagg == IF hint > 0 THEN hint ELSE Least(wanted, avail)
  IN  Least(nagg * machine.ppn, machine.ranks)

\* The ranks that form the group of the i-th tensor of a list, while there are any.
GroupOf(c, i) ==
  LET hint == c.hint \div Len(c.list)
      before == SumSeq([j \in 1 .. i - 1 |-> SubRanks(c.list[j], hint)])
  IN  {r \in Ranks : before <= r /\ r < before + SubRanks(c.list[i], hint)}

\* The ranks that rank r meets in a collective call; none when it takes no part.
Members(who, c, r) ==
  CASE who = "all" -> Ranks
    [] who = "root" -> {0}
    [] who = "sub" -> LET sub == 0 .. SubRanks(c.t, c.hint) - 1 IN IF r \in sub THEN sub ELSE {}
    [] who = "group" -> UNION {G \in {GroupOf(c, i) : i \in DOMAIN c.list} : r \in G}

-----------------------------------------------------------------------------
(* Phases                                                                  *)

\* Where the buffers of blocks come from and go to.
Place(in, name) == [in |-> in, name |-> name]
Nowhere == Place("nowhere", "")
Memory(t) == Place("memory", t)
Array(a) == Place("array", a)
File(f) == Place("file", f)
Values == Place("values", "")
Local == Place("local", "")
Patch(a) == Place("patch", a)

\* A phase with a task is for the group whose last ticket is that task.
Always == -1

\* What a rank does by itself.
Alone == [kind |-> "alone", who |-> "all", task |-> Always]

\* A collective call; the one that creates a place leaves nothing in it.
Create(who, place) == [kind |-> "sync", who |-> who, creates |-> place, task |-> Always]
Sync(who) == Create(who, Nowhere)
Post(who) == [kind |-> "post", who |-> who, task |-> Always]
Receive == [kind |-> "receive", who |-> "all", task |-> Always]
Draw == [kind |-> "draw", who |-> "group", task |-> Always]
Loop(how, who, over, from, to) ==
  [kind |-> "loop", how |-> how, who |-> who, over |-> over, from |-> from, to |-> to,
   task |-> Always]

ForTask(task, phases) == [k \in DOMAIN phases |-> [phases[k] EXCEPT !.task = task]]

\* Mutant: a rank leaves block_for when no block is left to be drawn.
MutBlockFor(who, over, from, to) == <<Sync(who), Loop("share", who, over, from, to)>>

\* block_for: the counter is allocated, the blocks are shared, it is deallocated.
BlockFor(who, over, from, to) ==
  <<Sync(who), Loop("share", who, over, from, to), Sync(who)>>

\* TU_SG: a communicator of the first ranks is made, they share the blocks, all
\* wait for them.
SubgroupOf(over, from, to) ==
  <<Sync("all")>> \o BlockFor("sub", over, from, to) \o <<Sync("sub"), Sync("all")>>

\* allreduce, with the broadcasts of what the winner found
Exchange == <<Post("all"), Sync("all")>>

\* Every rank goes through all blocks.
Everywhere(t, from, to) == <<Loop("each", "all", t, from, to)>>
UpdateTensor(t) == Everywhere(t, Memory(t), Memory(t))
VectorToTamm(t) == Everywhere(t, Values, Memory(t))
EigenToTammAcc(t) == Everywhere(t, Values, Place("sum", t))
TammToVector(t) == Everywhere(t, Memory(t), Local)
TensorToString(t) == Everywhere(t, Memory(t), Local)
GetScalar(t) == Everywhere(t, Memory(t), Local)
GetTensorElement(t) == Everywhere(t, Array(t), Local)

\* Rank 0 goes through all blocks.
UpdateDiagonal(t) == <<Loop("root", "all", t, Memory(t), Memory(t))>>
UpdateTensorVal(t) == UpdateDiagonal(t) \o <<Sync("all")>>
Diagonal(t) == <<Loop("root", "all", t, Memory(t), Local), Post("root"), Receive>>
PrintDenseTensor(t) == <<Loop("root", "all", t, Array(t), Local), Sync("all")>>

\* The blocks are shared, and the ranks tell each other what they have found.
Trace(t) == BlockFor("all", t, Memory(t), Local) \o Exchange
SumOf(t) == SubgroupOf(t, Memory(t), Local) \o Exchange

\* The blocks are shared, and each is changed, set or moved.
ApplyEwiseIp(t) == SubgroupOf(t, Memory(t), Memory(t))
FillTensor(t) == BlockFor("all", t, Values, Memory(t))
ApplyEwise(s, d) == <<Create("all", Memory(d))>> \o BlockFor("all", s, Memory(s), Memory(d))
ToDense(s, d) == <<Create("all", Array(d))>> \o BlockFor("all", s, Memory(s), Array(d))
\* The library's collective copy of a patch, in which every rank copies what it holds, is
\* one of the ways to share the blocks.
TensorBlock(s, d) == <<Create("all", Array(d))>> \o BlockFor("all", d, Patch(s), Array(d))
ToBlockCyclic(s, d) == BlockFor("all", s, Memory(s), Array(d))
FromBlockCyclic(s, d) == BlockFor("all", d, Array(s), Memory(d))

\* Every rank has the whole source, and sets the whole destination.
RetileRank2(s, d) ==
  <<Create("all", Memory(d))>> \o TammToVector(s) \o Everywhere(d, Local, Memory(d))
  \o <<Sync("all")>>

IoTemp == Array("iotemp")

TammToGa(t) == <<Create("all", IoTemp)>> \o BlockFor("all", t, Memory(t), IoTemp)
GaToTamm(t) == BlockFor("all", t, IoTemp, Memory(t))
DestroyGa == <<Sync("all")>>

RetileTensor(s, d) == TammToGa(s) \o GaToTamm(d) \o DestroyGa

RedistributeTensor(s, d) ==
  TammToGa(s) \o <<Create("all", Memory(d))>> \o GaToTamm(d) \o DestroyGa

\* identity_matrix: the scheduler sets the new tensor to zero.  That is a set in which
\* every rank sets the blocks it holds, between two barriers: one of the ways to share
\* the blocks.
IdentityMatrix(t) ==
  <<Create("all", Memory(t))>> \o BlockFor("all", t, Values, Memory(t))
  \o <<Loop("root", "all", t, Memory(t), Memory(t)), Sync("all")>>

-----------------------------------------------------------------------------
(* Files                                                                   *)

\* Where a block begins in a file: the non-zero blocks lie in the order of the loops.
FileOffset(t, b) ==
  LET k == CHOOSE k \in DOMAIN Nest[t] : Nest[t][k] = b
      before == SelectSeq(SubSeq(Nest[t], 1, k - 1), LAMBDA p : p \in NonZero(t))
  IN  SumSeq([j \in DOMAIN before |-> BlockSize(Shape(t), before[j])])

\* The ranks of a group create the file and write the blocks of a tensor into it.
WriteBlocks(who, t, from, f) ==
  <<Create(who, File(f))>> \o BlockFor(who, t, from, File(f)) \o <<Sync(who)>>

ReadBlocks(who, t, f, to) ==
  <<Sync(who)>> \o BlockFor(who, t, File(f), to) \o <<Sync(who)>>

WriteToDisk(c) ==
  <<Sync("all")>>
  \o (IF c.tammio THEN WriteBlocks("sub", c.t, Memory(c.t), c.file) \o <<Sync("all")>>
      ELSE TammToGa(c.t) \o WriteBlocks("sub", c.t, IoTemp, c.file)
           \o <<Sync("all")>> \o DestroyGa)

\* The file was written with the layout of c.as, the tensor that is read unless
\* an array is filled from the file and the tensor from the array.
ReadFromDisk(c) ==
  <<Sync("all")>>
  \o (IF c.tammio THEN ReadBlocks("sub", c.as, c.file, Memory(c.as)) \o <<Sync("all")>>
      ELSE <<Create("all", IoTemp)>> \o ReadBlocks("sub", c.as, c.file, IoTemp)
           \o <<Sync("all")>> \o GaToTamm(c.t) \o DestroyGa)

\* Every group draws a ticket from a common counter and does the task of that
\* number when it comes to it, then draws again.
GroupTasks(transfers) ==
  <<Sync("all"), Sync("all"), Draw>>
  \o FlattenSeq([i \in DOMAIN transfers |-> ForTask(i - 1, transfers[i] \o <<Draw>>)])
  \o <<Sync("group"), Sync("all"), Sync("all")>>

WriteGroup(c) ==
  GroupTasks([i \in DOMAIN c.list |->
                WriteBlocks("group", c.list[i], Memory(c.list[i]), c.files[i])])

ReadGroup(c) ==
  GroupTasks([i \in DOMAIN c.list |->
                ReadBlocks("group", c.list[i], c.files[i], Memory(c.list[i]))])

-----------------------------------------------------------------------------

\* The calls on local tensors; the scheduler is called to set all elements of one.
LocalCalls == {"local_set", "local_put", "local_add", "local_resize", "local_block"}

Phases(c) ==
  CASE c.do \in {"update_tensor", "update_tensor_general"} -> UpdateTensor(c.t)
    [] c.do \in {"vector_to_tamm_tensor", "eigen_to_tamm_tensor"} -> VectorToTamm(c.t)
    [] c.do = "eigen_to_tamm_tensor_acc" -> EigenToTammAcc(c.t)
    [] c.do \in {"tamm_tensor_to_vector", "tamm_to_eigen_tensor", "print_max_above_threshold",
                 "print_tensor", "print_tensor_all", "compute_tensor_size"} ->
         TammToVector(c.t)
    [] c.do = "tensor_to_string" -> TensorToString(c.t)
    [] c.do = "get_scalar" -> GetScalar(c.t)
    [] c.do = "get_tensor_element" -> GetTensorElement(c.t)
    [] c.do = "print_dense_tensor" -> PrintDenseTensor(c.t)
    [] c.do = "retile_rank2_tensor" -> RetileRank2(c.t, c.to)
    [] c.do = "update_tensor_val" -> UpdateTensorVal(c.t)
    [] c.do = "update_diagonal" -> UpdateDiagonal(c.t)
    [] c.do = "diagonal" -> Diagonal(c.t)
    [] c.do = "identity_matrix" -> IdentityMatrix(c.t)
    [] c.do \in {"trace", "trace_sqr", "max_element", "min_element"} -> Trace(c.t)
    [] c.do \in {"sum", "norm", "linf_norm"} -> SumOf(c.t)
    [] c.do \in {"scale_ip", "set_val_ip"} -> ApplyEwiseIp(c.t)
    [] c.do \in {"fill_tensor", "fill_sparse_tensor"} -> FillTensor(c.t)
    [] c.do = "apply_ewise" -> ApplyEwise(c.t, c.to)
    [] c.do = "to_dense_tensor" -> ToDense(c.t, c.to)
    [] c.do = "retile_tamm_tensor" -> RetileTensor(c.t, c.to)
    [] c.do = "redistribute_tensor" -> RedistributeTensor(c.t, c.to)
    [] c.do = "to_block_cyclic_tensor" -> ToBlockCyclic(c.t, c.to)
    [] c.do \in {"from_block_cyclic_tensor", "from_dense_tensor"} -> FromBlockCyclic(c.t, c.to)
    [] c.do = "tensor_block" -> TensorBlock(c.t, c.to)
    [] c.do = "write_to_disk" -> WriteToDisk(c)
    [] c.do = "read_from_disk" -> ReadFromDisk(c)
    [] c.do = "write_to_disk_group" -> WriteGroup(c)
    [] c.do = "read_from_disk_group" -> ReadGroup(c)
    [] c.do = "local_init" -> <<Alone, Sync("all")>>
    [] c.do \in LocalCalls -> <<Alone>>
    [] c.do \in {"barrier", "restart"} -> <<Sync("all")>>
=============================================================================
