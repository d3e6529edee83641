----------------------------- MODULE TensorExec -----------------------------
(***************************************************************************)
(* What happens to the blocks of the tensors while Scheduler::execute runs *)
(* (addop.hpp, setop.hpp, multop.hpp, mapop.hpp, scanop.hpp,               *)
(* tensor_impl.hpp).  The ranks follow Scheduler; inside an operation each *)
(* rank takes tasks, one per block of the loop nest, reads the operands of *)
(* a task into a buffer and then changes the block on the left-hand side.  *)
(*                                                                         *)
(* There are three ways of changing it.  set and add work on the owner's   *)
(* local buffer, so += is a load and a store; a product accumulates with   *)
(* the atomic add of the memory manager; a map puts a block.  Who takes a  *)
(* task differs too: set, add and dense products are computed by the owner *)
(* of the block, all others by whichever rank draws the task (the pool of  *)
(* TaskPool, which ParallelWork implements).                               *)
(***************************************************************************)
EXTENDS Scheduler, TensorMeaning

CONSTANTS Shape,   \* the blocks of each tensor
          Owner,   \* the rank that holds a block: Distribution::locate
          Dynamic, \* the tensors whose products are shared out dynamically
          Junk     \* what an allocated block holds before it is written

Tensors == DOMAIN Shape
Blocks == UNION {Shape[t] : t \in Tensors}

VARIABLES mem,    \* the blocks of the tensors
          status, \* allocation_status_ of each tensor on each rank
          left,   \* the tasks nobody has taken of the operation at a position
          work    \* the task of each rank

data == <<mem, status, left, work>>
execVars == <<vars, data>>

Idle == [stage |-> "idle"]

\* One iteration of a loop nest: the block that changes, the block it reads.
\* A product into a tensor of order 0 reduces over the blocks of the operands.
TasksOf(op) ==
  LET S == Shape[op.lhs]
      R == UNION {Shape[t] : t \in op.rhs}
  IN IF Collective(op) THEN {}
     ELSE IF op.kind = "mult" /\ S # R THEN [into : S, from : R]
     ELSE {[into |-> b, from |-> b] : b \in S}

SharedOut(op) == op.kind \in {"map", "scan"} \/ (op.kind = "mult" /\ op.lhs \in Dynamic)

\* set and add read the left-hand side before they write it.
LoadsFirst(op) == op.kind \in {"set", "add"} /\ ~op.assign

MayTake(r, op, t) == SharedOut(op) \/ Owner[t.into] = r

\* What the task of operation o of the program computes from the memory m.
Result(o, t, m) ==
  IF Program[o].kind = "scan" THEN m[Program[o].lhs][t.from]
  ELSE Value(Program[o], o, [x \in Tensors |-> IF t.from \in Shape[x] THEN m[x][t.from] ELSE 0])

\* A canonical program whose operations do not read what they change, and all of
\* which are executed.
ASSUME ExecAssumption ==
  /\ Junk \in Int /\ IsFiniteSet(Tensors)
  /\ \A x \in Tensors : IsFiniteSet(Shape[x])
  /\ \A b \in Blocks : Owner[b] \in Ranks
  /\ \A o \in Positions :
       /\ Program[o] \in OpsOn(Tensors) /\ Program[o].lhs \notin Program[o].rhs
       /\ Program[o].kind = "mult" => ~Program[o].assign /\ Program[o].rhs # {}
       /\ Program[o].kind = "map" => Program[o].assign
       /\ \E b \in Calls : o \in BatchOf(b)

\* Whether no += of a set or add has a product that is shared out beside it, on its
\* level of a call, into the same tensor.  Nothing in the code sees to it: the two
\* do not depend on one another, and the += stores over what the product adds to
\* the block after the load.  Values are right only of programs of which this holds.
NothingAddedBetween ==
  \A b \in Calls : \A o, p \in BatchOf(b) :
    /\ Level[o] = Level[p] /\ Program[o].lhs = Program[p].lhs
    /\ LoadsFirst(Program[o]) /\ Program[p].kind = "mult"
    => ~SharedOut(Program[p])

\* The tensors an operation has to do with.
Uses(op) == {op.lhs} \cup Reads(op)

\* A tensor is used after it is allocated and not after it is deallocated; neither
\* happens to it twice.
ASSUME LifetimeAssumption ==
  \A o \in Positions : \A x \in Uses(Program[o]) :
    /\ \E a \in 1 .. o : Program[a].kind = "alloc" /\ Program[a].lhs = x
    /\ \A p \in Positions : o < p /\ x \in Uses(Program[p]) =>
         Program[o].kind # "dealloc" /\ Program[p].kind # "alloc"

\* Before anything is written.
Unwritten == [t \in Tensors |-> [b \in Blocks |-> Junk]]

ExecTypeOK ==
  /\ mem \in [Tensors -> [Blocks -> Int]]
  /\ status \in [Ranks -> [Tensors -> {"invalid", "created", "deallocated"}]]
  /\ \A p \in Positions : left[p] \subseteq TasksOf(OpAt(p))
  /\ \A r \in Ranks : work[r].stage \in {"idle", "get", "load", "store"}

ExecInit ==
  /\ Init
  /\ mem = Unwritten
  /\ status = [r \in Ranks |-> [t \in Tensors |-> "invalid"]]
  /\ left = [p \in Positions |-> TasksOf(OpAt(p))]
  /\ work = [r \in Ranks |-> Idle]

-----------------------------------------------------------------------------

\* The steps of execute() outside of operations.
Schedule(r) ==
  /\ \/ Execute(r) \/ EnterLoop(r) \/ NextLevel(r) \/ BeginOp(r)
     \/ EndLoop(r) \/ Executed(r) \/ Return(r)
  /\ UNCHANGED data

Op(r) == OpAt(pos[r])

Take(r) ==
  /\ pc[r] = "op" /\ work[r] = Idle
  /\ \E t \in left[pos[r]] :
       /\ MayTake(r, Op(r), t)
       /\ left' = [left EXCEPT ![pos[r]] = @ \ {t}]
       /\ work' = [work EXCEPT ![r] = [stage |-> "get", task |-> t]]
  /\ UNCHANGED <<vars, mem, status>>

Get(r) ==
  /\ work[r].stage = "get"
  /\ work' = [work EXCEPT ![r] =
       [stage |-> IF LoadsFirst(Op(r)) THEN "load" ELSE "store",
        task  |-> @.task,
        value |-> Result(order[pos[r]], @.task, mem),
        old   |-> 0]]
  /\ UNCHANGED <<vars, mem, status, left>>

Load(r) ==
  /\ work[r].stage = "load"
  /\ work' = [work EXCEPT ![r] =
       [stage |-> "store", task |-> @.task, value |-> @.value,
        old   |-> mem[Op(r).lhs][@.task.into]]]
  /\ UNCHANGED <<vars, mem, status, left>>

\* Mutant: a product overwrites its block instead of accumulating.
MutPutsProduct(r) ==
  /\ work[r].stage = "store"
  /\ LET lhs == Op(r).lhs
         b == work[r].task.into
     IN mem' = CASE Op(r).kind = "scan" -> mem
                 [] OTHER -> [mem EXCEPT ![lhs][b] = work[r].old + work[r].value]
  /\ work' = [work EXCEPT ![r] = Idle]
  /\ UNCHANGED <<vars, status, left>>

\* The store of a local buffer or of a put, the atomic accumulation of a
\* product; a scan hands the buffer to the user's function.
Store(r) ==
  /\ work[r].stage = "store"
  /\ LET lhs == Op(r).lhs
         b == work[r].task.into
     IN mem' = CASE Op(r).kind = "scan" -> mem
                 [] Op(r).kind = "mult" -> [mem EXCEPT ![lhs][b] = @ + work[r].value]
                 [] OTHER -> [mem EXCEPT ![lhs][b] = work[r].old + work[r].value]
  /\ work' = [work EXCEPT ![r] = Idle]
  /\ UNCHANGED <<vars, status, left>>

\* A rank is through with the operation when there is nothing left to take.
FinishOp(r) ==
  /\ pc[r] = "op" /\ work[r] = Idle
  /\ \A t \in left[pos[r]] : ~MayTake(r, Op(r), t)
  /\ EndOp(r)
  /\ UNCHANGED data

\* TensorImpl::allocate and deallocate; AllocationExpected says that their EXPECTS
\* on the status hold.
FinishAlloc(r) ==
  /\ pc[r] = "coll"
  /\ status[r][Op(r).lhs] = IF Op(r).kind = "alloc" THEN "invalid" ELSE "created"
  /\ EndOp(r)
  /\ status' = [status EXCEPT ![r][Op(r).lhs] =
                  IF Op(r).kind = "alloc" THEN "created" ELSE "deallocated"]
  /\ UNCHANGED <<mem, left, work>>

ExecStep(r) ==
  \/ Schedule(r) \/ Take(r) \/ Get(r) \/ Load(r) \/ Store(r)
  \/ FinishOp(r) \/ FinishAlloc(r)

ExecNext ==
  (\E r \in Ranks : ExecStep(r)) \/ (Terminated /\ UNCHANGED execVars)

ExecSpec == /\ ExecInit /\ [][ExecNext]_execVars
            /\ \A r \in Ranks : WF_execVars(ExecStep(r))

-----------------------------------------------------------------------------
(* The meaning of the program: its operations one after the other.         *)

\* What the tasks S of operation o add to block b.
Amount(o, m, S, b) ==
  SumFunctionOnSet([t \in TasksOf(Program[o]) |-> Result(o, t, m)], {t \in S : t.into = b})

Changes(op, x) == op.kind \in {"set", "add", "mult", "map"} /\ op.lhs = x

Effect(o, m) ==
  LET op == Program[o]
  IN [x \in Tensors |-> [b \in Blocks |->
        IF Changes(op, x) /\ b \in Shape[x]
        THEN (IF op.assign THEN 0 ELSE m[x][b]) + Amount(o, m, TasksOf(op), b)
        ELSE m[x][b]]]

Meaning ==
  LET after[o \in 0 .. NOps] == IF o = 0 THEN Unwritten ELSE Effect(o, after[o - 1])
  IN after

\* What a rank reads for an operation is what the operations before it in the
\* program have left there, whatever the other ranks are doing meanwhile: no
\* result is read too early, and none is overwritten too soon.  This and
\* FinalMemory are about programs with NothingAddedBetween.
ReadsInOrder ==
  \A r \in Ranks :
    work[r].stage \in {"load", "store"} =>
      work[r].value = Result(order[pos[r]], work[r].task, Meaning[order[pos[r]] - 1])

\* When all ranks have returned from the last execute() the tensors hold what
\* the program, executed one operation after the other, computes: accumulations
\* into a block are neither lost nor doubled.
FinalMemory ==
  Terminated =>
    \A t \in Tensors : (\A r \in Ranks : status[r][t] = "created") =>
      \A b \in Shape[t] : mem[t][b] = Meaning[NOps][t][b]

\* A tensor that a rank works on, possibly in the memory of other ranks, is
\* allocated on every rank and not yet destroyed on any.
AllocatedInUse ==
  \A r \in Ranks : work[r] # Idle =>
    \A s \in Ranks, t \in Uses(Op(r)) : status[s][t] = "created"

\* A tensor that a rank is allocating was never allocated there, and one that it is
\* deallocating is allocated there: the assertions of TensorImpl hold.
AllocationExpected ==
  \A r \in Ranks : pc[r] = "coll" =>
    status[r][Op(r).lhs] = IF Op(r).kind = "alloc" THEN "invalid" ELSE "created"

\* Every rank returns from every execute() with its operations done.
AllExecuted == <>(Terminated /\ \A p \in Positions : left[p] = {})
=============================================================================
