------------------------------ MODULE Levelize ------------------------------
(***************************************************************************)
(* Scheduler::levelize_and_order (scheduler.hpp): the two loops that raise *)
(* the level of each operation above those of the operations it depends    *)
(* on, and the sort by level.                                              *)
(*                                                                         *)
(* The range is not empty: execute() returns before it gets here when      *)
(* nothing was added.  (On an empty range the loop bound end - start - 1   *)
(* is the largest size_t.)                                                 *)
(***************************************************************************)
EXTENDS TensorMeaning

CONSTANTS First, Last, \* start_id + 1 and end_id
          Tensors,     \* the tensors of the program
          Op,          \* the operations that may occur
          Start        \* what the tensors hold before, and scans have seen

ASSUME LevelizeAssumption == First \in Nat /\ Last \in Nat /\ First <= Last

VARIABLES ops,    \* the operations, in program order
          level,  \* order[i].first
          i, j,   \* the loop indices
          order,  \* after the sort: the operation at each position
          pc

vars == <<ops, level, i, j, order, pc>>

OpRange == First .. Last

ASSUME MeaningAssumption ==
  /\ Op \subseteq OpsOn(Tensors)
  /\ \A op \in Op : IsFiniteSet(op.rhs) /\ (op.kind = "mult" => op.rhs # {})
  /\ Start \in [mem : [Tensors -> Int], seen : [OpRange -> Int]]

TypeOK ==
  /\ ops \in [OpRange -> Op]
  /\ level \in [OpRange -> Nat]
  /\ i \in OpRange
  /\ j \in First + 1 .. Last + 1 /\ i < j
  /\ order \in [OpRange -> OpRange]
  /\ pc \in {"loop", "sort", "done"}

Init ==
  /\ ops \in [OpRange -> Op]
  /\ level = [k \in OpRange |-> 0]
  /\ i = First /\ j = First + 1
  /\ order = [k \in OpRange |-> k]
  /\ pc = "loop"

\* Mutant: the level is raised to, not above, that of the earlier operation.
MutSameLevel ==
  /\ pc = "loop" /\ i < Last /\ j <= Last
  /\ level' = IF HasDependence(ops[i], ops[j]) /\ level[i] > level[j]
              THEN [level EXCEPT ![j] = level[i]]
              ELSE level
  /\ j' = j + 1
  /\ UNCHANGED <<ops, i, order, pc>>

\* Mutant: the level is raised two above that of the earlier operation.
MutRaisesByTwo ==
  /\ pc = "loop" /\ i < Last /\ j <= Last
  /\ level' = IF HasDependence(ops[i], ops[j]) /\ level[i] + 1 > level[j]
              THEN [level EXCEPT ![j] = level[i] + 2]
              ELSE level
  /\ j' = j + 1
  /\ UNCHANGED <<ops, i, order, pc>>

\* order[j].first = max(order[i].first + 1, order[j].first)
Compare ==
  /\ pc = "loop" /\ i < Last /\ j <= Last
  /\ level' = IF HasDependence(ops[i], ops[j]) /\ level[i] + 1 > level[j]
              THEN [level EXCEPT ![j] = level[i] + 1]
              ELSE level
  /\ j' = j + 1
  /\ UNCHANGED <<ops, i, order, pc>>

NextRow ==
  /\ pc = "loop" /\ i < Last /\ j > Last
  /\ i' = i + 1
  /\ j' = i + 2
  /\ UNCHANGED <<ops, level, order, pc>>

EndLoops ==
  /\ pc = "loop" /\ i = Last
  /\ pc' = "sort"
  /\ UNCHANGED <<ops, level, i, j, order>>

\* std::sort by level is not stable: operations of one level come in any order.
Sort ==
  /\ pc = "sort"
  /\ order' \in [OpRange -> OpRange] /\ IsOrdering(OpRange, level, order')
  /\ pc' = "done"
  /\ UNCHANGED <<ops, level, i, j>>

Next == Compare \/ NextRow \/ EndLoops \/ Sort \/ (pc = "done" /\ UNCHANGED vars)

Spec == Init /\ [][Next]_vars

-----------------------------------------------------------------------------

\* When the loops are over every operation is above all it depends on and no
\* higher than that requires (scheduler.hpp:140-158).
LevelsCorrect == pc # "loop" => IsLevelling(ops, OpRange, level)

\* Along the order the level starts at 0 and rises by at most one at a time, as
\* execute() asserts (scheduler.hpp:229, 232): there is one barrier per level.
RisesByOne ==
  pc = "done" => /\ level[order[First]] = 0
                 /\ \A k \in First .. Last - 1 :
                      level[order[k + 1]] <= level[order[k]] + 1

\* Executing the operations level by level, in any order within a level, has the
\* effect of executing them in program order: the dependences that
\* op_has_dependence finds are all there are (scheduler.hpp:85-91, 140-158).
SameMeaning ==
  pc = "done" => RunFrom(Start, ops, order, First, Last)
                 = RunFrom(Start, ops, [k \in OpRange |-> k], First, Last)
=============================================================================
