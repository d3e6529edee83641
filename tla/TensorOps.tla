----------------------------- MODULE TensorOps ------------------------------
(***************************************************************************)
(* The operations a Scheduler executes, what each declares to read, write  *)
(* and accumulate, and when two of them are dependent                      *)
(* (setop.hpp, addop.hpp, multop.hpp, mapop.hpp, scanop.hpp, allocop.hpp,  *)
(* deallocop.hpp, scheduler.hpp).                                          *)
(*                                                                         *)
(* An operation is a record: its kind, the tensor on its left-hand side,   *)
(* the tensors on its right-hand side, and whether it assigns (=) or       *)
(* accumulates (+=).  Tensors stand for the TensorBase objects, which is   *)
(* what the scheduler compares; labels and scale factors are abstracted.   *)
(***************************************************************************)
EXTENDS Integers, Sequences

Kinds == {"alloc", "dealloc", "set", "add", "mult", "map", "scan"}

OpsOn(Tensors) ==
  [kind : Kinds, lhs : Tensors, rhs : SUBSET Tensors, assign : BOOLEAN]

\* The two calls of Scheduler that wrap a tensor, and the expressions of the
\* user: lhs = / += alpha, rhs, rhs1 * rhs2, and the map and scan operations.
Alloc(t)      == [kind |-> "alloc", lhs |-> t, rhs |-> {}, assign |-> TRUE]
Dealloc(t)    == [kind |-> "dealloc", lhs |-> t, rhs |-> {}, assign |-> TRUE]
SetTo(t)      == [kind |-> "set", lhs |-> t, rhs |-> {}, assign |-> TRUE]
Incr(t)       == [kind |-> "set", lhs |-> t, rhs |-> {}, assign |-> FALSE]
Add(t, a)     == [kind |-> "add", lhs |-> t, rhs |-> {a}, assign |-> FALSE]
Mult(t, a, b) == [kind |-> "mult", lhs |-> t, rhs |-> {a, b}, assign |-> FALSE]
Copy(t, a)    == [Add(t, a) EXCEPT !.assign = TRUE]
Prod(t, a, b) == [Mult(t, a, b) EXCEPT !.assign = TRUE]
Map(t, S)     == [kind |-> "map", lhs |-> t, rhs |-> S, assign |-> TRUE]
Scan(t)       == [kind |-> "scan", lhs |-> t, rhs |-> {}, assign |-> FALSE]

\* AddOp and MultOp turn an assignment into lhs = 0 followed by lhs += ...
Canonicalize(op) ==
  IF op.kind \in {"add", "mult"} /\ op.assign
  THEN <<SetTo(op.lhs), [op EXCEPT !.assign = FALSE]>>
  ELSE <<op>>

Reads(op) ==
  IF op.kind = "scan" THEN {op.lhs}
  ELSE IF op.kind \in {"add", "mult", "map"} THEN op.rhs ELSE {}

Writes(op) ==
  IF op.kind \in {"alloc", "dealloc", "map"}
     \/ (op.kind \in {"set", "add", "mult"} /\ op.assign)
  THEN {op.lhs} ELSE {}

Accumulates(op) ==
  IF op.kind \in {"set", "add", "mult"} /\ ~op.assign THEN {op.lhs} ELSE {}

\* Mutant: reading what another operation accumulates into is overlooked.
MutIgnoreReadOfAccumulated(op1, op2) ==
  LET Meet(S, T) == S \cap T # {}
  IN \/ Meet(Reads(op1), Writes(op2)) \/ Meet(Writes(op1), Reads(op2))
     \/ Meet(Writes(op1), Writes(op2))
     \/ Meet(Writes(op1), Accumulates(op2)) \/ Meet(Accumulates(op1), Writes(op2))

\* Scheduler::op_has_dependence.  Two accumulations into one tensor commute, so
\* they are not dependent.
HasDependence(op1, op2) ==
  LET Meet(S, T) == S \cap T # {}
  IN \/ Meet(Reads(op1), Writes(op2)) \/ Meet(Writes(op1), Reads(op2))
     \/ Meet(Writes(op1), Writes(op2))
     \/ Meet(Reads(op1), Accumulates(op2)) \/ Meet(Accumulates(op1), Reads(op2))
     \/ Meet(Writes(op1), Accumulates(op2)) \/ Meet(Accumulates(op1), Writes(op2))

-----------------------------------------------------------------------------
(* What Scheduler::levelize_and_order promises about the operations first  *)
(* .. last of a program: a level for each, and an order by level.  Levelize *)
(* computes them as the code does; Scheduler relies on this promise only.  *)

\* Operation i comes before operation j in the program and j depends on it.
Before(ops, i, j) == i < j /\ HasDependence(ops[i], ops[j])

\* Every operation is on a higher level than those it depends on, and on the
\* lowest such level, so that no level is empty.
IsLevelling(ops, S, level) ==
  \A j \in S :
    /\ \A i \in S : Before(ops, i, j) => level[i] < level[j]
    /\ level[j] = 0 \/ \E i \in S : Before(ops, i, j) /\ level[j] = level[i] + 1

\* The positions of S hold the operations of S, each once, by rising level.
IsOrdering(S, level, order) ==
  /\ \A k \in S : order[k] \in S
  /\ \A o \in S : \E k \in S : order[k] = o
  /\ \A k, l \in S : k < l => /\ order[k] # order[l]
                              /\ level[order[k]] <= level[order[l]]
=============================================================================
