# A verification of TAMM

TAMM (Tensor Algebra for Many-body Methods) executes programs of tensor
operations on a parallel machine.  All processes (ranks) of a group run the
same program.  A tensor is cut into blocks that are spread over the ranks; a
scheduler sorts the operations of a program into levels, and within an
operation the ranks share the blocks among themselves.  There are no locks:
that nothing is lost, read too early or freed too soon rests on barriers, on
one shared counter, on the atomic accumulation of the memory layer, and on the
ranks making their collective calls in the same order.  That is what this
project models, checks with TLC and proves with TLAPS, together with the
algorithms the results rest on: distributions, tiled index spaces, loop nests,
block kernels, the symbolic front end, the buffer pool, and the routines on
whole tensors and files.

## 1. The system

| Component | State | Operations | Interacts with |
|---|---|---|---|
| Work sharing (`work.hpp`, `atomic_counter.hpp`) | a global array of counters; each rank's iterator and ticket | allocate, fetch_add, deallocate, parallel_work_ga | every operation with a dynamic loop; the scheduler, which supplies the counter |
| Scheduler (`scheduler.hpp`) | the operations added, `start_idx_`; during a call the order, the level, the counters | operator(), allocate, deallocate, gop, execute | operations (execute), process group (barriers), execution context (set_ac) |
| Operations (`setop`, `addop`, `multop`, `mapop`, `scanop`, `allocop`, `deallocop`) | labels and scale factors; buffers while executing | reads, writes, accumulates, canonicalize, execute | tensors, memory manager, work sharing |
| Tensors (`tensor*.hpp`) | allocation status, distribution, memory region, pending updates and version | allocate, deallocate, get, put, add, add_update | execution context, memory manager, distribution |
| Memory manager (`memory_manager*.hpp`) | global arrays, regions and their status | alloc_coll, dealloc_coll, attach, get, put, add | process group |
| Execution context (`execution_context.*`) | the regions registered for deallocation, the counter in use | register, unregister, flush_and_sync, allocate | tensors, scheduler |
| Process group (`proc_group.*`) | communicator, sent and received operations | barrier, reduce, broadcast, create, destroy, rank_translate | everything collective |
| Distribution (`distribution.hpp`, `proc_grid.hpp`) | where each block lives | locate, buf_size | tensors |
| Symbolic front end (`op_dag`, `op_visitors`, `opmin`, `op_executor`) | updates and versions of tensors, operation trees | canonicalize, binarize, optimize, execute | scheduler |
| Buffer pool (`mr/`, `rmm_memory_pool.hpp`) | a free list of blocks | allocate, deallocate | products, GPU code |
| Index spaces and tiling (`index_space*`, `tiled_index_space.hpp`) | immutable once made; each space refers to its parent, its root and what it depends on | tiling, subspaces, dependent spaces, compose, invert, project, intersect, unite, translate | labels, loop nests, tensors |
| Labels, loop nests, block kernels (`index_loop_nest`, `label_translator`, `block_*_plan`, `blockops_cpu`, `kernels/`) | iterators and buffers | iteration over blocks, translation of blocks, set, assign, multiply | operations |
| Tensor utilities, input and output (`tamm_utils`, `tamm_io`, `eigen_utils`, `local_tensor`) | buffers and one result a rank; files | routines on whole tensors, conversion, write and read, local tensors | tensors, process group, work sharing |
| Cache (`lru_cache.hpp`) | entries by recency | log_access, access, clear | (used by tests) |

Calls go downwards: a program adds operations to a scheduler, or notes updates
that `OpExecutor` turns into operations; the scheduler executes operations
rank by rank; an operation runs its loop through work sharing or over its own
blocks, and reads and changes blocks through tensors, the distribution and a
memory region. Ranks meet only in collective calls of the process group and in
one-sided access to memory.

What makes each part correct: work sharing runs every task once; the scheduler
never overlaps dependent operations and makes the same collective calls on
every rank; operations leave in the tensors what the program means; a tensor
has its memory from allocation to deallocation and nothing is freed too early
or never; a barrier returns when all that was sent has arrived; the
distribution gives every block a place of its own; deferred updates are
evaluated once, in order, and mean what was written; tiles and loops cover
their ranges exactly once; statements on slices, permutations and sums give
what their formula says; routines give every rank the same result as one rank
alone; the pool hands out disjoint blocks and loses none.

What is hard: the ranks run at their own pace between two collective calls;
dependences between operations are enforced only by levels and barriers; a
task is taken by whoever draws its number; two operations on one level change
the same block concurrently; a tensor can be destroyed on one rank while
another still reads from it; a collective call made in a different place by
one rank hangs all of them.

## 2. The modules, and how they correspond to the code

Every definition that models code is listed with its lines in `PROJECT.json`
("map").  Definitions named `Mut...` are small mutations of the definition
that follows them; they show that the properties can fail.

```
ParallelWork --> TaskPool                  (implements)
Scheduler    --> Dataflow                  EXTENDS TensorOps
TensorExec   EXTENDS Scheduler, TensorMeaning
Levelize     EXTENDS TensorMeaning         EXTENDS TensorOps
OpExecutor   --> LazyUpdates
SymbolicUpdates EXTENDS OpExecutor, Expressions
BufferPool   --> Heap
TensorViews  EXTENDS TensorMemory
UpcxxBarrier
Distribution EXTENDS NWDistribution, Layouts
TiledSpaces  EXTENDS IndexSpaces
Statements   EXTENDS StatementPlans        EXTENDS LabelLoops, BlockKernels
                                           LabelLoops EXTENDS IndexSpaces
TensorRoutines EXTENDS TensorAccess EXTENDS RoutineMeaning EXTENDS RoutinePhases
                                           RoutinePhases EXTENDS Layouts
                                           RoutineMeaning INSTANCE LocalTensors
```

The modules `MC...` give the inputs of a run, those named `...Proofs` the
theorems about the module they extend, and `Lemmas` facts about numbers, sets
and sums that several of them use.

**Work sharing.** `TaskPool` is the promise: each task is taken by one rank,
once.  `ParallelWork` is `parallel_work_ga` with its counter: ranks create the
global array together, rank 0 initialises it between two synchronisations, each
rank draws tickets and walks its iterator, and the counter is destroyed after a
last synchronisation.  The variable `shared` is the branch on `ec.ac().ac_`:
with the scheduler's counter the loop starts and ends without any call that
waits.  `ParallelWork` implements `TaskPool`, with each drawn ticket below
`NTasks` as a taken task.

**Scheduler.** `TensorOps` gives the operations with what they read, write and
accumulate, `HasDependence` in the code's order of tests, and what a levelling
and an ordering are.  `Levelize` is the double loop of `levelize_and_order` and
the sort, whose result is any order that is sorted by level.  `Dataflow` is the
promise of a scheduler: an operation starts when all it depends on is finished
on all ranks.  `Scheduler` is `execute()` on every rank: allocation of the
counters, the barrier of each level, the operations, the last barrier,
deallocation of the counters, `start_idx_`.  A collective call is modelled by
the number of calls a rank has entered (`arrived`): it returns when every rank
has entered as many.  Nothing in the model says that ranks wait for each other
in the *same* call; that they do is a property.

**Operations and blocks.** `TensorMeaning` is what operations do to values;
`TensorExec` extends `Scheduler` with the blocks: a rank takes a task, fetches
operands, and changes a block, by a load and a store of the owner (`set`,
`add`), by an atomic accumulation from any rank (products) or by a put (maps).
Which rank may take a task follows the plan the code selects.

**Statements.** What `TensorExec` takes as one value per block, `Statements`
looks into. `LabelLoops` has labels with dependences, the loop nest over their
blocks and the translation of a block from the spaces of the labels to those
of a tensor; `BlockKernels` the kernels that set, assign and multiply blocks;
`StatementPlans` which of them an operation selects and on which blocks, and
`Statements` two ranks that execute a statement block by block, in place, by a
get, a change and a put, or by adding to what others add to.

**Tensors and their memory.** `TensorMemory` is the tensors of a program and,
on every rank, their memory regions and the execution context: allocate,
deallocate, destruction without deallocate, and `flush_and_sync` with its two
vectors, the multiset difference and the loop over its result.  All ranks run
the same program and what an operation does on a rank touches that rank only,
so an operation is one step of all of them; but each rank has a heap of its
own, and in a flush each goes through its regions at its own pace and in the
order of its own addresses.  Addresses are numbers, because the code sorts by
them and the heap reuses them.  `TensorViews` adds unit-tiled views, which
share their base's region.

**UPC++ barrier.** `UpcxxBarrier` is `ProcGroup::barrier` of the UPC++ build,
with the accumulations of `MemoryManagerGA::add` as calls under way.

**Deferred updates.** `LazyUpdates` is the promise of updates: each term of
each update is evaluated once, in order, when nothing is pending of what it
uses.  `Expressions` is the symbolic front end on trees of products and sums:
canonicalization of parallel loops, binarization, and OpMin's search.
`OpExecutor` is `OpExecutor::execute` with the recursion as a stack, the queue
of the scheduler, versions, allocation and intermediates, and with the values
of the tensors; it implements `LazyUpdates`.  To it a statement is data: the
tensors it uses and, for each term, the intermediates and operations that the
term is made of, without and with OpMin. `SymbolicUpdates` puts the two
together: it computes that data from the trees the program writes (the
constants `Statements` and `Program`, which an assumption equates), and says
what the values have to be.

**Distribution.** `NWDistribution` is the constructor of `Distribution_NW` as
a state machine over the blocks in the order of their keys: the loop that
turns sizes into offsets, and the loop that gives each process the next block
at or after its share. Binary searches are modelled by what they return on a
sorted range. `Layouts` has the tiles, blocks and elements of a tensor.
`Distribution` adds the tensor: which blocks are zero, the keys the blocks are
sorted and found by, and with it the places that `Distribution_SimpleRoundRobin`
gives, the grid that `Distribution_Dense` creates its array over and its
irregular parts, and the places seen through a `UnitTileDistribution`.
`locate` is an operator over the finished distribution, as it is in the code.

**Index spaces.** `IndexSpaces` has ranges, index spaces with names and spins,
all ways of tiling, subspaces, dependent spaces, translation, and the algebra.
`TiledSpaces` is a program that makes spaces from one another, each kept with
what it should consist of.

**Buffer pool.** `Heap` is what users of a pool rely on; `BufferPool` is the
pool of host memory: alignment, best fit, split, and the return that joins a
block with its neighbours.

**Routines and files.** `RoutinePhases` gives, for each routine of
`tamm_utils`, `tamm_io` and `eigen_utils`, the phases every rank goes through:
collective calls, and loops over blocks shared by a group or done by all or by
one. `RoutineMeaning` is the same program on functions from coordinates to
values. `TensorAccess` is get, put and add of all kinds of tensor, and
`TensorRoutines` the ranks at their own pace, drawing tickets, contributing to
reductions, writing and reading files, and starting again on another machine.

## 3. The runs

| Run | What it asks | Bounds, and why they are enough |
|---|---|---|
| `work_sharing` | `ExactlyOnce`, `NoUseAfterFree`, `PoolSpec`, `AllReturn`: is each task run once, is the counter used only while it exists, does everybody return? | 3 ranks, 4 tasks, both kinds of counter. A rank can be two tickets behind another, skip tasks of both, and find no task left. |
| `levelize` | `LevelsCorrect`, `RisesByOne`, `SameMeaning`: are levels correct and minimal, rising by one, and does any order of a level give the program's result? | All 4096 programs of 4 operations from 8, which have every kind of access to 3 tensors; 4 operations are enough for a chain, a fork and a join. |
| `execute_all_kinds` | `NoConflict`, `CollectivesMatch`, `ReadsInOrder`, `FinalMemory`, `FlowSpec`, `AllExecuted`: do dependent operations never overlap, do collective calls match, is what is read and what is left what the program means? | 3 ranks with a block each of two tensors and one block of a third, 14 operations of every kind in 2 calls, in 4 of the orders the sort may choose; products of one level meet in one block, a `+=` and a product of one owner into one tensor share a level, and a rank can be a collective call ahead. |
| `memory_in_use` | `FlushSeesRegions`, `InUse`, `SameMemory`, `OnlyUnreferenced`, `ReclaimsAll`: does a flush see only live regions, does a tensor keep its memory, is nothing freed too early and nothing kept for ever, on all ranks alike? | 3 ranks, 3 tensors, one of them dense, 2 addresses on each rank, so that an address is used again before and after a flush and ranks hold the same tensors at different addresses. |
| `view_frees_base` (violation) | `OnlyUnreferenced`: is a base safe from the end of its view? | 1 rank, 2 tensors and a view |
| `upcxx_barrier` | `NeverAborts`, `AppliedBefore`, `AllReturn`: does a barrier wait for all accumulations, and end? | 3 ranks, 2 calls of each to any rank, 2 barriers, so that calls of the next phase start while others are in the loop. |
| `deferred_updates` | `LazySpec`, `AllocatedOnce`, `ValuesHold`, `CheapestOrder`: is every term evaluated once, in order, after its inputs; do the values come out; is the chosen order the cheapest? | 4 tensors, 6 statements (products of up to four factors, sums, parallel loops), 3 updates, 2 calls, with and without OpMin: chains, diamonds, and evaluation of an input before or within that of its user. |
| `places_of_blocks` | `BlocksApart`, `GridIsWhole`, `OneAddress`: has every block a place of its own inside a buffer, in both distributions; is a grid as large as the group; is an element's address the same through a view? | Up to 3 dimensions of six kinds, even, uneven and listed; any blocks zero in tensors of up to four and one in larger ones; 1 to 4 and 12 processes: fewer and more than blocks and than elements, twelve with repeated and different prime divisors. |
| `tiled_spaces` | `TilesFit`, `SpacesAreRelations`, `TranslationKeepsTile`: do tiles cut a range as they should, within the largest tile and the numbers of tiles and indices that tensors are told (but see section 6 on the number of indices), do the algebra's results consist of the right tiles, and is a tile the same after translation? | Ordered and unordered ranges with names, spins, aggregates and dependent tilings; 4 spaces, so that the algebra is applied to its own results. |
| `buffer_pool` | `NothingLost`, `Joined`, `HeapSpec`: do blocks cover the pool, stay apart and join again, and is a request refused only when nothing fits? | 4 buffers, sizes from 0, below, at and above the alignment of 2, a pool of 15: four blocks in use with holes of different sizes between them. |
| `statements` | `FormulaHolds`, `BlocksExist`, `LoopsVisitAll`: does a statement give what its formula says, with blocks that exist both when their owner is looked up and when they are worked on, and do its loop, and loops with inclusive bounds where the code accepts them, visit every tuple once? | 2 ranks, statements with slices, permuted, repeated and dependent labels, sums over labels, scalars, absent blocks, views and tensors held outside the context. |
| `tensor_routines` | `AsIfSequential`, `ReturnsMeaning`, `AllReturn`: are the tensors and results those of one rank that does the calls one after the other, and does every rank get through? | 29 programs on machines of two and three ranks, one or two on a node, tensors with tiles of different sizes and a zero block, and a restart on another machine between write and read. |

A model that ends says so with a `Terminated` or `Done` step, so that a state
in which ranks wait for each other is a deadlock TLC reports. `CHECK_DEADLOCK`
is off in three runs where there is nothing to wait for: in `buffer_pool` a
request that is refused ends the program (`tamm_terminate`), in `tiled_spaces`
the program may stop making spaces, and in `statements` the statement ends.

### What the violation shows

`view_frees_base`: `~TensorUnitTiled` inherits a destructor that marks the
region of the *base* as orphaned (`tensor_impl.hpp:1758`); the next flush frees
it, although the base is in use.

### Fairness

`ParallelWork` and `TensorExec` (with `Scheduler` in it) assume weak fairness
of each rank's next step: a rank is a process of the operating system that
keeps running, its loops have no other exit, and a collective call returns once
all have entered it. It is not assumed that ranks run at a similar pace, that a
ticket is drawn by a certain rank, or that a collective call is entered.
`UpcxxBarrier` also assumes that a call is delivered in the end; the loop of
the barrier enters the library, which makes progress. `TensorRoutines` assumes
only that as long as some rank can take a step, or the program can be started
again, one does. The other models have no liveness property: they are driven by
the program.

## 4. What is proved

The theorems hold for every value of the constants that the named assumptions
allow; TLC evaluates those assumptions in the runs. Facts about finite sums,
ranges and orders are in `Lemmas`. Where they need an induction, they take the
least counterexample, a set of numbers without a least one being empty: the
induction theorems of the library have an operator as parameter and cannot be
instantiated by the provers.

* **`ParallelWorkProofs`**: type correctness, `ExactlyOnce`, `TicketAhead`,
  `NoUseAfterFree` and the refinement of `TaskPool`, for any finite or infinite
  group and any number of tasks. The invariant says how far a rank may be ahead
  (`Phases`), when the counter exists and is initialised (`Lifetime`), that
  tickets in hand are different and below the counter (`Tickets`), that an
  iterator is at or below its rank's ticket (`Iterators`), and that the tasks
  done are those of the tickets drawn before the one in hand (`History`).
  `ExactlyOnce` alone is not inductive: it does not say that two ranks never
  hold one ticket.

* **`LevelizeProofs`**: `LevelsCorrect`, `RisesByOne` and `SameMeaning` for
  programs of any length over any tensors. The invariant says that the levels
  of the rows done respect the dependences (`Respected`) and that each level
  above zero is one more than that of an operation before it that it depends on
  (`Tight`), which needs the row in progress. `SameMeaning` is then about two
  executions of one program: an order is `Sound` when it has every operation
  once and none before one it depends on, the sorted order is sound, and in a
  sound execution a tensor holds at every moment the `Tally`, in program order,
  of what the operations done so far do to it (set it anew or add to it), each
  with the operands it has in the program. The step of that argument is that
  the operands of the next operation are what the program would read
  (`ReadsAsProgram`): all that changes them earlier in the program is done, and
  nothing that changes them later is. `MeaningAssumption` says of the
  operations what their constructors do: finitely many operands, and at least
  one in a product.

* **`SchedulerProofs`**, on `Scheduler`: type correctness, `LevelAsserted`,
  `CollectivesMatch`, `NoConflict` and the refinement of `Dataflow`, for every
  program, division into calls, order and group. All collective calls of a
  program are points (`Sites`) of a line; `InStep` says that ranks with equal
  counts have passed the same points, and that a rank one ahead has passed
  exactly one point more. `CollectivesMatch` is that invariant read at two
  waiting ranks. `NoConflict` needs that two dependent operations are on
  different levels or in different calls, so that a point lies between them.
  On `TensorExec`: every step is one of `Scheduler` or leaves it as it is;
  type correctness, `ReadsInOrder`, `FinalMemory`, and that a tensor is in the
  expected state when it is allocated, and allocated while it is used. The
  invariant `ExecInv` says that what a rank has in hand are tasks of its
  operation (`AtWork`), that no two ranks have one task (`TakenOnce`), which
  tasks are left (`TasksLeft`), that an operation has started only with all it
  depends on done (`InDataflow`), and the heart, `BlocksHold`: each block is the
  `Tally`, in program order, of the tasks stored, so that the order in which
  ranks store does not show. `ExecAssumption` excludes operations that read
  what they change. That values are right (`ReadsInOrderCorrect`,
  `FinalMemoryCorrect`) has a hypothesis that the code does not establish:
  `NothingAddedBetween`, that no `+=` of a `set` or `add` shares a level of a
  call with a shared-out product into the same tensor. Without it the `+=` can
  store over what a product adds (section 6), and `BlocksHold` fails. The other
  results hold of every program, such levels included; they rest on
  `WorkInvariance`, which says nothing of values.
  `LifetimeAssumption` says that the program uses a tensor between its one
  allocation and its one deallocation.

* **`MemoryProofs`**, on `TensorMemory`: type correctness, `FlushSeesRegions`, `InUse`,
  `SameMemory`, `OnlyUnreferenced` and `ReclaimsAll`, for any group of ranks,
  tensors and addresses. The heart is `Accounting`: at each address the
  registrations less the unregistrations are one where a region exists and zero
  elsewhere, which survives reuse of an address and is what the multiset
  difference relies on. `Ownership` says that a region in use belongs to one
  tensor, and an orphaned one to a tensor that is gone. `Agreement` relates two
  ranks: while both run the program they have the memory of the same tensors,
  and a rank in a flush will end with what the others have when they are done,
  whatever the order of its addresses.

* **`UpcxxBarrierProofs`**: type correctness, `NeverAborts` and `AppliedBefore`,
  for any team, any number of calls and of barriers. A barrier has three stages,
  the same for all ranks. While calls are sent, what is on its way and what is
  applied add up to what the ranks have counted as sent; while the received are
  counted, to the sum that every rank has. A rank contributes no more than it
  has applied, so the sums agree only when nothing is on its way, and then
  nothing moves until the last barrier. The facts about sums over the team are
  in `Lemmas`.

* **`MemoryProofs`**, on `BufferPool`: type correctness, `NothingLost`, `Joined` and the
  refinement of `Heap`, for any buffers, sizes, size of the pool and alignment.
  The invariant says that blocks in use and free ones are aligned and inside
  the pool (`HeldWell`, `FreeWell`), do not overlap (`Separate`), together leave
  no address out (`Filled`), and that no two free blocks are neighbours
  (`Joined`); a request is refused only when no run of free addresses is long
  enough *because* free neighbours are always joined, which is where `Heap` needs
  the last of these.

* **`DistributionProofs`**: of `NWDistribution`, type correctness, `Placed`,
  `Apart` and `Balanced`, for any sizes and any number of blocks and processes.
  `LaidOut` says that each block follows the one before; `CutAtBlocks` that parts
  begin where blocks do, the first at zero and the last ends with the last block,
  and that the beginning of part m is less than a block after m shares. `Placed`
  needs that a cut falls on a block: the first cut after a block's offset is
  then not inside it. Of `Distribution`, `BlocksApart`, `OneAddress` and `GridIsWhole`, for any
  shape with any number of dimensions and tiles and any blocks zero. Keys and
  offsets are row-major numbers with a base per dimension: what follows a digit
  (`Rest`) stays below its `Weight`, so numbers are distinct and below the product.
  Hence the sorted blocks are all the non-zero blocks, once, with rising keys
  (`SortedByKey`); the search by key finds the block itself (`PlaceIs`) and
  exactly one process (`OneProc`); blocks of one process are apart by `Apart`,
  those of two because their rooms are (`RoomsApart`). Dealt round robin, two
  keys differ in the process or in the place (`DealtApart`), and no key is dealt
  beyond the buffer (`DealtFits`). For a view, the tile found for an index is the
  tile the element lies in (`FindTileIs`, `TranslatedBlock`), the strides after
  the unit tiles are those of the base (`ViewStrides`), and the two addresses
  agree term by term (`SamePosition`). For the grid, what the sieve has left are the
  divisors of the number of processes divided by the primes found so far
  (`SieveInv`), and each round at least takes one from that number, so nothing is
  left in the end; some axis always has the smallest excess, because fractions are
  ordered (`FirstExists`), and gets the prime. `TensorsAssumption` asks that tiles
  are not empty, as the constructors of `TiledIndexSpace` do.

* **`OpExecutorProofs`**: type correctness, `AllocatedOnce` and the refinement of
  `LazyUpdates`, for any tensors and statements, any number of updates and of calls,
  and any work of the terms. `OpExecutorAssumption` asks that a statement uses earlier
  tensors than its own (section 6 says what happens otherwise), that the intermediates
  of a term are different and none of the program's tensors, that its operations are
  on these and on what the statement is about, and that the last one, and no other,
  is marked as the one for the tensor of the update. The run evaluates this for the
  operations that binarization and OpMin make of its trees; for all trees it is not
  proved. The invariant has four parts. `UpdatesOK`: identities grow along a tensor
  and belong to one tensor, and what an update uses has a value. `StackOK`: where each
  call is, that every call but the last waits for the tensor of the next, which is an
  earlier one, and that each tensor a term uses is still to be checked, ready, or the
  next call's. `QueueOK` runs the queue ahead: `Live` says what is allocated once so
  many entries have run, each entry must be possible at its turn, and at the end of
  the queue no intermediate is there. This is where it could go wrong: `is_allocated`
  is asked before the queued allocations have run, so the invariant has to say that
  when it is asked about an input nothing in the queue allocates that input. `LogOK`:
  the terms that versions and calls have passed are those in the log or in the queue,
  never both, and the queue has them in order. `LazyUpdates` sees a step when the
  marked operation of a term runs: that term is then the first pending of its
  tensor (`QueuedFirst`), and nothing is pending of what it uses (`NothingPending`),
  because all updates of those tensors were evaluated when the term was queued, and
  evaluation notes no new ones.

`LevelAsserted`, `TicketAhead`, `AllocationExpected`, `AllocatedInUse`, `Placed`,
`Apart`, `Balanced` and the type invariants are proved but in no run of their own:
they are steps of other proofs or restate what a run asks in other words.

Only model-checked:

* liveness (`AllReturn`, `AllExecuted`): the proof system has no fairness rules
  the installed provers can use;
* `TilesFit`, `SpacesAreRelations`, `TranslationKeepsTile`, `FormulaHolds`,
  `BlocksExist`, `LoopsVisitAll`, `ValuesHold` and `CheapestOrder`: the tilings,
  loop nests, translations and trees are recursive operators, and what these
  compute is an induction over data;
* `AsIfSequential` and `ReturnsMeaning`: a routine is a table of phases, and
  the meaning of a program a recursive function over its calls.

## 5. What is not modelled

Per component:

* *Work sharing*: the UPC++ counter; `seq_work`, which only loops.
* *Scheduler*: the choice of hardware in `execute` (`scheduler.hpp:248-249`) and
  its profile reductions, which change no result; the disabled sequential branch
  (`levelize`, 93-127 and 399-430); the policy `sequential_replicated`.
* *Operations*: scans and maps on blocks of more than one value, non-blocking
  products, GPU buffers, complex by real products, copies of dense operands.
* *Tensors and memory*: the UPC++ variants other than the barrier, the
  block-cyclic array over UPC++, `attach`, non-blocking access, the irregular
  array of `alloc_coll` (`memory_manager_ga.hpp:163-184`), which no tensor uses;
  the internals of Global Arrays.
* *Front end*: rewriting for DLPNO, the disabled optimizer, estimates of cost and
  memory, strings.
* *Index spaces*: spatial attributes (treated as spins are), hashes, strings.
* *Utilities, input and output*: `hash_tensor`, `permute_tensor`, random tensors,
  printing with labels, HDF5 of Eigen matrices; `SpinTensor`, a wrapper.
* *Not at all*: the LRU cache (tests only), block buffers and the runtime engine
  (sequential ownership), device streams, kernels nothing calls
  (`block_mult_plan`, `index_permute_*`, `ipgen_*`), profilers, basic types,
  build files. Numerical kernels, BLAS and file formats are out of reach of a
  model checker.

## 6. Where the code differs from what one would expect

Found while modelling; the models exclude these inputs or follow the code, as
said. Paths are under `src/src/tamm` or `src/docs/user_guide`.

*Scheduling and operations.*
A product and a `set`/`add` that accumulate into one tensor may share a level
(`scheduler.hpp:85-91`), but only products accumulate atomically
(`setop.hpp:282`, `multop.hpp:837`): the owner's `+=` can overwrite a product's
contribution. Products of dense tensors into one of at least one mode are computed by the owner,
as sets and adds are, and cannot be lost. `NothingAddedBetween` is the condition, a hypothesis of
the two theorems about values and assumed by the run; with `B` shared out in
`MCTensorExec`, TLC finds the lost contribution as a violation of `ReadsInOrder`.
The general plan of `add` gets, changes and puts a block (`addop.hpp:613`,
`721-735`); several ranks at one block lose updates. The set and add plans of the context's
own group ask for the owner of a block before they know that its number is valid
(`setop.hpp:332-336`, `addop.hpp:507-517`); what could not be translated is zero
in that number. If a dependent space has no tile for some outer tile, block zero
is not there and `locate` aborts: `BlocksExist` is violated by such a space, and
those of the run have tiles for all outer tiles.
In a product, `T cscale{0}` (`multop.hpp:450`) is the scale of what is already
there, and the kernel overwrites C for each slice of a label summed in one
factor only (`kernels/multiply.hpp:42-74`).
Dependent labels of several tensors are merged by a rule that lets two of them
collide (`labeled_tensor.hpp:213-227`, `utils.hpp:315-330`). Repeated labels in
a factor of a product, and in the flat plan of `add`, are not handled.

*Memory.*
`flush_and_sync` goes through regions in the order of local addresses
(`execution_context.hpp:301-315`), so two ranks can meet in the collective
deallocation of different tensors. `SameMemory` says that they end with the
same memory, if the library tolerates that; no run asks for the same order.
Dense tensors are not registered with the context (`tensor_impl.hpp:788`),
although `tensor_construction.rst:228-231` says so of all tensors; `ReclaimsAll`
excepts them.

*Distribution.* `proc_grid.hpp:190-191` promises a grid of no more places than
processes; `GridIsWhole` says that there are as many, which is what the code
needs. `Distribution_Dense::locate` divides `blk` where it has `btmp`
(`distribution.hpp:695`); it is left out. So is the grid computed for a tensor
without divided dimensions (543), of which nothing is used.

*Index spaces.* `max_num_indices()` of a space made dependent by a relation is
the number of indices of the first value with the largest tile
(`tiled_index_space.hpp:1113-1120`), where the comments say that it is the
largest number (`tiled_index_space.hpp:1286-1292`, `index_space_interface.hpp:88-95`):
another value can have more. `MaxNumIndices` follows the code, and `TilesFit`
compares numbers of indices with it for the other spaces only; without that
condition TLC finds it violated by a dependent space. Tensors that take their extents
from it are dense or local ones and their matrices (`tensor_impl.hpp:632,1417`,
`distribution.hpp:531,613`, `local_tensor.hpp:262-287`), and OpMin its costs
(`opmin.hpp:572`). Largest tile and number of tiles are those of all values.
A loop nest made of bounds (`index_loop_nest.hpp:159-200`) expects the labels a
label depends on at a place smaller than 0 for the first, 1 for the second
(180, where `pos` counts from 0), so that it aborts for every label that depends
on another; `BoundsExpected` is this check. Its comments say that a label stays
below its upper bound (19, 76); the operator and the iterator
(`ends_ = itrs_ + 1`, 320) include the bound, and so does `LoopsVisitAll`. `is_valid`
(406-419) asks for vectors of different sizes and is never true, so that `loop_spec`
(639), which expects it, always aborts.
An intersection with a space that poses as its own ancestor goes
wrong (`tiled_index_space.hpp:609-612`; `tis_operations.rst:36`): `Whole = FALSE`
leaves it out. The search for the next boundary reads one past the end (1187);
`set_intersection` (621) is given unsorted references; compose and invert mix
tiles of root and parent; the sort by dependence looks one step back only.

*Front end.* `operator-` on sums loses its sign, and the scaling of a sum in a
sum its factor. OpMin makes a product of a sum inside a product of more than two
tensors (`opmin.hpp:645-655`). Under `parfor`, coefficients of leaves are
dropped, and several sliced labels are marked as a bug in a comment. A tensor
that uses itself, or a cycle of updates, makes `execute` recurse without end
(`op_executor.hpp:306`). The inputs of `deferred_updates` avoid all of these.

*Routines.* The maximum of a tensor without positive elements, and the minimum of
one without negative ones, is zero at block zero (`tamm_utils.hpp:1270-1284`).
`update_diagonal` ends without a barrier (646). A local tensor resized so that
one dimension grows and another shrinks is copied out of place. Reading with the
HDF5 layout leaves the parts of an array that belong to zero blocks as they were.
Two collective steps are modelled as block loops that the ranks share: the set by
the scheduler in `identity_matrix` (611) and the copy of a patch by the library in
`tensor_block` (1800). In both a rank does the blocks it holds, which is one of the
ways to share them.

*Buffers.* `multop.hpp:523` returns a buffer to its pool before it is added to the
tensor, which is safe only because the pool does not touch it.

## 7. What comes next

In this order: the invariants of `TensorRoutines` for programs of any phases;
`TilesFit`; that the operations of every tree satisfy `OpExecutorAssumption`; the
UPC++ counter and block-cyclic array; scans and maps on whole blocks.
