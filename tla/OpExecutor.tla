----------------------------- MODULE OpExecutor -----------------------------
(***************************************************************************)
(* Deferred updates of tensors (TensorBase::add_update) and their          *)
(* evaluation by OpExecutor::execute.  An update notes a statement;        *)
(* execute makes terms of it, and operations and intermediate tensors of   *)
(* each term.  Before it queues them it calls itself for each tensor the   *)
(* term uses that has updates of its own to evaluate.  The calls are an    *)
(* explicit stack here.  A tensor's version counts the updates that have   *)
(* been evaluated.                                                         *)
(*                                                                         *)
(* What the terms and operations of a statement are is a constant here;    *)
(* SymbolicUpdates computes it from the trees of the statements.           *)
(***************************************************************************)
EXTENDS Integers, SequencesExt, FiniteSetsExt

CONSTANTS Shapes,     \* the sets of indices of the dimensions of each tensor
          Program,    \* the statements the program may note: the tensor, is it an
                      \* assignment, the tensors it uses, one for each use, may OpMin
                      \* optimize it, and the work of its terms without and with OpMin
          Given,      \* the sets of tensors that may have a value at first
          MaxUpdates, \* bound: how many updates the program notes
          MaxCalls    \* bound: how often it calls execute

Tensors == 1 .. Len(Shapes)

Uses(s) == ToSet(Program[s].inputs)

IsSequence(s) == s \in Seq(ToSet(s))

\* The tensors an operation has.
TensorsOf(op) == {op.lhs.tensor} \cup {operand.tensor : operand \in ToSet(op.rhs)}

\* The work of a term: intermediate tensors, which have names of their own, and
\* operations on them and on what the statement is about; the last one is marked.
IsWork(s, work) ==
  LET inters == work.inters
      ops == work.ops
      names == {inters[k].tensor : k \in DOMAIN inters}
  IN  /\ IsSequence(inters) /\ IsSequence(ops) /\ ops # <<>>
      /\ names \cap Tensors = {}
      /\ \A k, m \in DOMAIN inters : inters[k].tensor = inters[m].tensor => k = m
      /\ \A k \in DOMAIN ops :
           /\ TensorsOf(ops[k]) \subseteq {Program[s].tensor} \cup Uses(s) \cup names
           /\ ops[k].last <=> k = Len(ops)

\* A statement is for one tensor and uses earlier ones.
ASSUME OpExecutorAssumption ==
  /\ MaxUpdates \in Nat /\ MaxCalls \in Nat
  /\ IsSequence(Shapes) /\ Given \subseteq SUBSET Tensors
  /\ \A s \in DOMAIN Program :
       /\ Program[s].tensor \in Tensors
       /\ Program[s].inputs \in Seq(1 .. Program[s].tensor - 1)
       /\ IsSequence(Program[s].terms)
       /\ \A n \in DOMAIN Program[s].terms, use_opmin \in BOOLEAN :
            IsWork(s, Program[s].terms[n][use_opmin])

\* What memory holds that nothing has been put into.
Garbage == 100

VARIABLES updates,   \* updates_ of each tensor: sequences of statements, which have an identity
          version,   \* version_ of each tensor
          contents,  \* the elements of the tensors that are allocated
          stack,     \* the calls of execute
          queue,     \* what was given to the scheduler and has not been executed
          noted, calls, \* how many updates were noted, how many calls made
          log,       \* history: the terms whose operations were executed
          before     \* history: what a tensor held when its call of execute was made

vars == <<updates, version, contents, stack, queue, noted, calls, log, before>>

Top == stack[Len(stack)]
SetTop(frame) == stack' = [stack EXCEPT ![Len(stack)] = frame]

allocated == DOMAIN contents
Intermediates == allocated \ Tensors

Tuples(shape) == {x \in [DOMAIN shape -> UNION ToSet(shape)] : \A p \in DOMAIN shape : x[p] \in shape[p]}

\* The values the program has put into a tensor by other means.
Start(t) == [x \in Tuples(Shapes[t]) |-> FoldLeft(LAMBDA a, i : 2 * i - a, t - 2, x)]

Places == {"updates", "terms", "inputs", "call", "end"}

Frame == [tensor : Tensors, use_opmin : BOOLEAN, i : Nat, term : Nat, todo : Seq(Tensors),
          at : Places, count : Nat]

TypeOK ==
  /\ updates \in [Tensors -> Seq([id : 0 .. noted - 1, stmt : DOMAIN Program])]
  /\ version \in [Tensors -> Nat] /\ \A t \in Tensors : version[t] <= Len(updates[t])
  /\ stack \in Seq(Frame) /\ IsSequence(queue)
  /\ noted \in 0 .. MaxUpdates /\ calls \in 0 .. MaxCalls
  /\ log \in Seq(Nat \X Nat)

Init ==
  /\ updates = [t \in Tensors |-> <<>>]
  /\ version = [t \in Tensors |-> 0]
  /\ \E given \in Given : contents = [t \in given |-> Start(t)]
  /\ stack = <<>> /\ queue = <<>> /\ log = <<>>
  /\ noted = 0 /\ calls = 0
  /\ before = [t \in Tensors |-> <<>>]

-----------------------------------------------------------------------------
(* The program, between calls of execute.                                  *)

HasValue(t) == t \in allocated \/ updates[t] # <<>>

\* LabeledTensor::set and update.  The tensors an update uses have a value, and so
\* has the tensor it accumulates into.
AddUpdate(s) ==
  LET t == Program[s].tensor
  IN  /\ stack = <<>> /\ noted < MaxUpdates
      /\ \A u \in Uses(s) : HasValue(u)
      /\ Program[s].assign \/ HasValue(t)
      /\ noted' = noted + 1
      /\ updates' = [updates EXCEPT ![t] = Append(@, [id |-> noted, stmt |-> s])]
      /\ UNCHANGED <<version, contents, stack, queue, calls, log, before>>

ClearUpdates(t) ==
  /\ stack = <<>> /\ t \in allocated /\ updates[t] # <<>>
  /\ updates' = [updates EXCEPT ![t] = <<>>]
  /\ version' = [version EXCEPT ![t] = 0]
  /\ UNCHANGED <<contents, stack, queue, noted, calls, log, before>>

-----------------------------------------------------------------------------
(* OpExecutor::execute                                                     *)

HasOps(t) == Len(updates[t]) - version[t] # 0

Allocation(t, shape) == [kind |-> "allocate", tensor |-> t, shape |-> shape]
Deallocation(t) == [kind |-> "deallocate", tensor |-> t]

AllocationOf(t) == IF t \in allocated THEN <<>> ELSE <<Allocation(t, Shapes[t])>>

FrameOf(t, use_opmin) ==
  [tensor |-> t, use_opmin |-> use_opmin, i |-> version[t], term |-> 0, todo |-> <<>>,
   at |-> "updates", count |-> 0]

Remember(t) == before' = [before EXCEPT ![t] = IF t \in allocated THEN contents[t] ELSE <<>>]

Execute(t, use_opmin) ==
  /\ stack = <<>> /\ calls < MaxCalls /\ HasValue(t)
  /\ use_opmin => \A u \in Tensors : \A n \in DOMAIN updates[u] : Program[updates[u][n].stmt].optimizable
  /\ calls' = calls + 1
  /\ stack' = <<FrameOf(t, use_opmin)>>
  /\ queue' = queue \o AllocationOf(t)
  /\ Remember(t)
  /\ UNCHANGED <<updates, version, contents, noted, log>>

Update == updates[Top.tensor][Top.i + 1]
Statement == Program[Update.stmt]

NextUpdate ==
  /\ stack # <<>> /\ Top.at = "updates" /\ Top.i < Len(updates[Top.tensor])
  /\ SetTop([Top EXCEPT !.at = "terms", !.term = 0])
  /\ UNCHANGED <<updates, version, contents, queue, noted, calls, log, before>>

\* The terms of canonicalize_ops, one after the other.
NextTerm ==
  /\ stack # <<>> /\ Top.at = "terms"
  /\ Top.term < Len(Statement.terms)
  /\ SetTop([Top EXCEPT !.at = "inputs", !.term = @ + 1, !.todo = Statement.inputs])
  /\ UNCHANGED <<updates, version, contents, queue, noted, calls, log, before>>

EndUpdate ==
  /\ stack # <<>> /\ Top.at = "terms" /\ Top.term >= Len(Statement.terms)
  /\ SetTop([Top EXCEPT !.at = "updates", !.i = @ + 1, !.count = @ + 1])
  /\ UNCHANGED <<updates, version, contents, queue, noted, calls, log, before>>

\* Mutant: an input is taken as it is.
MutCheckInput ==
  /\ stack # <<>> /\ Top.at = "inputs" /\ Top.todo # <<>>
  /\ queue' = queue \o AllocationOf(Head(Top.todo))
  /\ SetTop([Top EXCEPT !.todo = Tail(@)])
  /\ UNCHANGED <<updates, version, contents, noted, calls, log, before>>

CheckInput ==
  /\ stack # <<>> /\ Top.at = "inputs" /\ Top.todo # <<>>
  /\ queue' = queue \o AllocationOf(Head(Top.todo))
  /\ SetTop(IF HasOps(Head(Top.todo)) THEN [Top EXCEPT !.at = "call"] ELSE [Top EXCEPT !.todo = Tail(@)])
  /\ UNCHANGED <<updates, version, contents, noted, calls, log, before>>

\* Mutant: the recursive call is made before what is queued has been executed.
MutCall ==
  /\ stack # <<>> /\ Top.at = "call"
  /\ LET u == Head(Top.todo)
     IN  /\ stack' = Append([stack EXCEPT ![Len(stack)] = [Top EXCEPT !.at = "inputs", !.todo = Tail(@)]],
                           FrameOf(u, Top.use_opmin))
         /\ queue' = queue \o AllocationOf(u)
         /\ Remember(u)
  /\ UNCHANGED <<updates, version, contents, noted, calls, log>>

\* What is queued has been executed; the recursive call.
Call ==
  /\ stack # <<>> /\ Top.at = "call" /\ queue = <<>>
  /\ LET u == Head(Top.todo)
     IN  /\ stack' = Append([stack EXCEPT ![Len(stack)] = [Top EXCEPT !.at = "inputs", !.todo = Tail(@)]],
                           FrameOf(u, Top.use_opmin))
         /\ queue' = queue \o AllocationOf(u)
         /\ Remember(u)
  /\ UNCHANGED <<updates, version, contents, noted, calls, log>>

Operation(op, id) == [kind |-> "op", op |-> op, id |-> id]

\* What a term gives to the scheduler.
Batch(work, id) ==
  [k \in DOMAIN work.inters |-> Allocation(work.inters[k].tensor, work.inters[k].shape)]
  \o [k \in DOMAIN work.ops |-> Operation(work.ops[k], id)]
  \o [k \in DOMAIN work.inters |-> Deallocation(work.inters[k].tensor)]

Queue ==
  /\ stack # <<>> /\ Top.at = "inputs" /\ Top.todo = <<>>
  /\ queue' = queue \o Batch(Statement.terms[Top.term][Top.use_opmin], <<Update.id, Top.term>>)
  /\ SetTop([Top EXCEPT !.at = "terms"])
  /\ UNCHANGED <<updates, version, contents, noted, calls, log, before>>

LoopEnds ==
  /\ stack # <<>> /\ Top.at = "updates" /\ Top.i >= Len(updates[Top.tensor])
  /\ SetTop([Top EXCEPT !.at = "end"])
  /\ UNCHANGED <<updates, version, contents, queue, noted, calls, log, before>>

-----------------------------------------------------------------------------
(* Scheduler::execute, an operation at a time.                             *)

\* The values of some labels, by name.
Envs(labels) ==
  {env \in [{l.name : l \in labels} -> UNION {l.on : l \in labels}] : \A l \in labels : env[l.name] \in l.on}

At(operand, env) == [p \in DOMAIN operand.labels |-> env[operand.labels[p].name]]

\* The sum, over the labels that the element x of the left-hand side leaves open, of
\* the products of the operands' elements.
SumOfProducts(values, alpha, lhs, rhs, x) ==
  LET labels == ToSet(lhs.labels) \cup UNION {ToSet(rhs[i].labels) : i \in DOMAIN rhs}
  IN  MapThenSumSet(LAMBDA env : FoldLeft(LAMBDA prod, o : prod * values[o.tensor][At(o, env)], alpha, rhs),
                    {env \in Envs(labels) : At(lhs, env) = x})

RunOp(op) ==
  contents' = [contents EXCEPT ![op.lhs.tensor] =
    [x \in DOMAIN @ |->
      IF \E p \in DOMAIN x : x[p] \notin op.lhs.labels[p].on THEN @[x]
      ELSE (IF op.assign THEN 0 ELSE @[x]) + SumOfProducts(contents, op.alpha, op.lhs, op.rhs, x)]]

Running == stack # <<>> /\ Top.at \in {"call", "end"} /\ queue # <<>>

RunAllocation ==
  /\ Running /\ Head(queue).kind = "allocate"
  /\ contents' = [t \in allocated \cup {Head(queue).tensor} |->
                    IF t = Head(queue).tensor THEN [x \in Tuples(Head(queue).shape) |-> Garbage] ELSE contents[t]]
  /\ queue' = Tail(queue)
  /\ UNCHANGED <<updates, version, stack, noted, calls, log, before>>

RunDeallocation ==
  /\ Running /\ Head(queue).kind = "deallocate"
  /\ contents' = [t \in allocated \ {Head(queue).tensor} |-> contents[t]]
  /\ queue' = Tail(queue)
  /\ UNCHANGED <<updates, version, stack, noted, calls, log, before>>

RunOperation ==
  /\ Running /\ Head(queue).kind = "op"
  /\ RunOp(Head(queue).op)
  /\ log' = IF Head(queue).op.last THEN Append(log, Head(queue).id) ELSE log
  /\ queue' = Tail(queue)
  /\ UNCHANGED <<updates, version, stack, noted, calls, before>>

Return ==
  /\ stack # <<>> /\ Top.at = "end" /\ queue = <<>>
  /\ version' = [version EXCEPT ![Top.tensor] = @ + Top.count]
  /\ stack' = SubSeq(stack, 1, Len(stack) - 1)
  /\ before' = [before EXCEPT ![Top.tensor] = <<>>]
  /\ UNCHANGED <<updates, contents, queue, noted, calls, log>>

ExecuteStep ==
  \/ NextUpdate \/ NextTerm \/ EndUpdate \/ LoopEnds \/ CheckInput \/ Call \/ Queue
  \/ RunAllocation \/ RunDeallocation \/ RunOperation \/ Return

Terminated == stack = <<>> /\ noted = MaxUpdates /\ calls = MaxCalls

Next ==
  \/ \E s \in DOMAIN Program : AddUpdate(s)
  \/ \E t \in Tensors, use_opmin \in BOOLEAN : Execute(t, use_opmin)
  \/ \E t \in Tensors : ClearUpdates(t)
  \/ ExecuteStep
  \/ Terminated /\ UNCHANGED vars

Spec == Init /\ [][Next]_vars

-----------------------------------------------------------------------------

\* The terms of the updates of a tensor that have not been evaluated.
Pending(t) ==
  UNION {LET u == updates[t][k] IN
         {[id |-> <<u.id, n>>, uses |-> Uses(u.stmt)] :
            n \in {m \in DOMAIN Program[u.stmt].terms : <<u.id, m>> \notin ToSet(log)}} :
         k \in DOMAIN updates[t]}

\* Deferred evaluation: a term is evaluated once, in its tensor's order, and when
\* nothing is pending of the tensors it uses (op_executor.hpp:275-348).
Lazy == INSTANCE LazyUpdates WITH pending <- [t \in Tensors |-> Pending(t)], evaluated <- log

LazySpec == Lazy!Spec

\* No tensor is allocated that is allocated already (tensor_impl.hpp:254), an
\* operation has all its tensors, and no intermediate is left when a call returns.
AllocatedOnce ==
  [][/\ queue # <<>> /\ queue' = Tail(queue) =>
          CASE Head(queue).kind = "allocate" -> Head(queue).tensor \notin allocated
            [] Head(queue).kind = "deallocate" -> Head(queue).tensor \in Intermediates
            [] OTHER -> TensorsOf(Head(queue).op) \subseteq allocated
     /\ Len(stack') < Len(stack) => Intermediates = {}]_vars
=============================================================================
