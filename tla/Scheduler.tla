----------------------------- MODULE Scheduler ------------------------------
(***************************************************************************)
(* Scheduler::execute on the ranks of a process group (scheduler.hpp).     *)
(*                                                                         *)
(* The program is single-program-multiple-data: every rank adds the same   *)
(* operations to its own Scheduler object and calls execute() at the same  *)
(* points of the program.  A call executes the operations added since the  *)
(* last one, level by level, with a barrier of the process group between   *)
(* levels.  What an operation does while it is being executed is the       *)
(* subject of TensorExec; here only allocation and deallocation show, as   *)
(* they are collective themselves.                                         *)
(***************************************************************************)
EXTENDS TensorOps

CONSTANTS Ranks,    \* the processes of the execution context's group
          Program,  \* ops_: the canonicalized operations
          Batches,  \* Batches[b]: ops_.size() at the b-th call of execute()
          Level,    \* the level of each operation within its call
          Orders    \* the orders of execution that std::sort may choose

NOps == Len(Program)
Positions == 1 .. NOps
Calls == 1 .. Len(Batches)

\* A call with nothing new returns at once and changes nothing, so only calls
\* with new operations are listed.
ASSUME SchedulerAssumption ==
  /\ Ranks # {}
  /\ Len(Program) \in Nat /\ DOMAIN Program = Positions /\ Len(Batches) \in Nat
  /\ \A b \in Calls : Batches[b] \in Positions
  /\ \A a, b \in Calls : a < b => Batches[a] < Batches[b]

VARIABLES order,   \* the operation at each position of the execution order
          pc,      \* where each rank is in execute()
          call,    \* the call of execute() a rank makes next or is in
          start,   \* start_idx_ of each rank's scheduler
          pos,     \* the position of a rank in the order
          lvl,     \* the level a rank is in
          arrived  \* how many collective calls a rank has entered

vars == <<order, pc, call, start, pos, lvl, arrived>>

\* The operations of a call, as positions and as indices of the program.
First(b) == IF b = 1 THEN 1 ELSE Batches[b - 1] + 1
Last(b) == Batches[b]
BatchOf(b) == First(b) .. Last(b)

\* levelize_and_order is the subject of Levelize.
ASSUME PlanAssumption ==
  /\ Level \in [Positions -> Nat]
  /\ \A b \in Calls : IsLevelling(Program, BatchOf(b), Level)
  /\ Orders \subseteq [Positions -> Positions]
  /\ \A b \in Calls, o \in Orders : IsOrdering(BatchOf(b), Level, o)

Collective(op) == op.kind \in {"alloc", "dealloc"}

PC == {"user", "alloc", "next", "level", "op", "coll", "final", "free"}

\* The places where a rank waits for the others.
Waiting == {"alloc", "level", "coll", "final", "free"}

TypeOK ==
  /\ order \in [Positions -> Positions]
  /\ pc \in [Ranks -> PC]
  /\ call \in [Ranks -> 1 .. Len(Batches) + 1]
  /\ start \in [Ranks -> 0 .. NOps]
  /\ pos \in [Ranks -> 1 .. NOps + 1]
  /\ lvl \in [Ranks -> Nat]
  /\ arrived \in [Ranks -> Nat]

\* Every rank sorts the same operations in the same way.
Init ==
  /\ order \in Orders
  /\ pc = [r \in Ranks |-> "user"]
  /\ call = [r \in Ranks |-> 1]
  /\ start = [r \in Ranks |-> 0]
  /\ pos = [r \in Ranks |-> 1]
  /\ lvl = [r \in Ranks |-> 0]
  /\ arrived = [r \in Ranks |-> 0]

-----------------------------------------------------------------------------

Passed(r) == \A s \in Ranks : arrived[s] >= arrived[r]

Enter(r, site) ==
  /\ arrived' = [arrived EXCEPT ![r] = @ + 1]
  /\ pc' = [pc EXCEPT ![r] = site]

Goto(r, place) == pc' = [pc EXCEPT ![r] = place] /\ UNCHANGED arrived

Size(r) == Batches[call[r]]
OpAt(p) == Program[order[p]]

\* execute() with operations to do: the counters, one per operation, are
\* allocated collectively.
Execute(r) ==
  /\ pc[r] = "user" /\ call[r] \in Calls /\ start[r] # Size(r)
  /\ Enter(r, "alloc")
  /\ UNCHANGED <<order, call, start, pos, lvl>>

EnterLoop(r) ==
  /\ pc[r] = "alloc" /\ Passed(r)
  /\ pos' = [pos EXCEPT ![r] = start[r] + 1]
  /\ lvl' = [lvl EXCEPT ![r] = 0]
  /\ Goto(r, "next")
  /\ UNCHANGED <<order, call, start>>

\* Mutant: the next level begins without a barrier.
MutNoBarrier(r) ==
  /\ pc[r] = "next" /\ pos[r] <= Size(r)
  /\ Level[order[pos[r]]] # lvl[r]
  /\ lvl' = [lvl EXCEPT ![r] = @ + 1]
  /\ Goto(r, "level")
  /\ UNCHANGED <<order, call, start, pos>>

\* if(order[i].first != lvl) { barrier; lvl += 1; }
NextLevel(r) ==
  /\ pc[r] = "next" /\ pos[r] <= Size(r)
  /\ Level[order[pos[r]]] # lvl[r]
  /\ lvl' = [lvl EXCEPT ![r] = @ + 1]
  /\ Enter(r, "level")
  /\ UNCHANGED <<order, call, start, pos>>

\* The rank is at an operation and past the barrier of its level.
Ready(r) ==
  \/ pc[r] = "next" /\ pos[r] <= Size(r) /\ Level[order[pos[r]]] = lvl[r]
  \/ pc[r] = "level" /\ Passed(r)

BeginOp(r) ==
  /\ Ready(r)
  /\ IF Collective(OpAt(pos[r])) THEN Enter(r, "coll") ELSE Goto(r, "op")
  /\ UNCHANGED <<order, call, start, pos, lvl>>

\* Mutant: the loop does not advance past an operation.
MutRepeatsOp(r) ==
  /\ pc[r] = "op" \/ (pc[r] = "coll" /\ Passed(r))
  /\ pos' = [pos EXCEPT ![r] = IF pc[r] = "op" THEN @ ELSE @ + 1]
  /\ Goto(r, "next")
  /\ UNCHANGED <<order, call, start, lvl>>

EndOp(r) ==
  /\ pc[r] = "op" \/ (pc[r] = "coll" /\ Passed(r))
  /\ pos' = [pos EXCEPT ![r] = @ + 1]
  /\ Goto(r, "next")
  /\ UNCHANGED <<order, call, start, lvl>>

\* Mutant: the barrier at the end of the loop is left out.
MutNoFinalBarrier(r) ==
  /\ pc[r] = "next" /\ pos[r] > Size(r)
  /\ lvl' = [lvl EXCEPT ![r] = @ + 1]
  /\ Goto(r, "final")
  /\ UNCHANGED <<order, call, start, pos>>

EndLoop(r) ==
  /\ pc[r] = "next" /\ pos[r] > Size(r)
  /\ lvl' = [lvl EXCEPT ![r] = @ + 1]
  /\ Enter(r, "final")
  /\ UNCHANGED <<order, call, start, pos>>

\* Mutant: start_idx_ keeps its value, so the next call starts over.
MutKeepsStart(r) ==
  /\ pc[r] = "final" /\ Passed(r)
  /\ Enter(r, "free")
  /\ UNCHANGED <<order, call, start, pos, lvl>>

\* After the last barrier the operations count as executed, and the counters
\* are deallocated collectively.
Executed(r) ==
  /\ pc[r] = "final" /\ Passed(r)
  /\ start' = [start EXCEPT ![r] = Size(r)]
  /\ Enter(r, "free")
  /\ UNCHANGED <<order, call, pos, lvl>>

Return(r) ==
  /\ pc[r] = "free" /\ Passed(r)
  /\ call' = [call EXCEPT ![r] = @ + 1]
  /\ Goto(r, "user")
  /\ UNCHANGED <<order, start, pos, lvl>>

Step(r) ==
  \/ Execute(r) \/ EnterLoop(r) \/ NextLevel(r) \/ BeginOp(r) \/ EndOp(r)
  \/ EndLoop(r) \/ Executed(r) \/ Return(r)

Terminated == \A r \in Ranks : pc[r] = "user" /\ call[r] = Len(Batches) + 1

Next == (\E r \in Ranks : Step(r)) \/ (Terminated /\ UNCHANGED vars)

\* Every rank is a process of its own, and every operation terminates.
Fairness == \A r \in Ranks : WF_vars(Step(r))

Spec == Init /\ [][Next]_vars
FairSpec == Spec /\ Fairness

-----------------------------------------------------------------------------

InOp(r) == pc[r] \in {"op", "coll"}

\* Two ranks are never inside two operations that depend on each other: the
\* barriers between levels keep them apart (scheduler.hpp:230-235), and the
\* barrier at the end of a call those of different calls (scheduler.hpp:267).
NoConflict ==
  \A r, s \in Ranks :
    /\ InOp(r) /\ InOp(s) /\ pos[r] # pos[s]
    => ~HasDependence(OpAt(pos[r]), OpAt(pos[s]))

\* Ranks that wait in the same collective call wait at the same place: nobody
\* mistakes the barrier of a level for the sync of an allocation.
CollectivesMatch ==
  \A r, s \in Ranks :
    (pc[r] \in Waiting /\ pc[s] \in Waiting /\ arrived[r] = arrived[s])
    => pc[r] = pc[s] /\ pos[r] = pos[s]

\* The assertion of scheduler.hpp:232: a barrier leads to the next level.
LevelAsserted ==
  \A r \in Ranks : pc[r] = "level" => Level[order[pos[r]]] = lvl[r]

\* The scheduler implements the data flow of the program.
Begun(r) == {order[p] : p \in 1 .. pos[r] - 1}
            \cup IF InOp(r) THEN {order[pos[r]]} ELSE {}
Done(r) == {order[p] : p \in 1 .. pos[r] - 1}

Flow == INSTANCE Dataflow WITH
  started  <- UNION {Begun(r) : r \in Ranks},
  finished <- {o \in Positions : \A r \in Ranks : o \in Done(r)}

FlowSpec == Flow!Spec

=============================================================================
