---------------------------- MODULE ParallelWork ----------------------------
(***************************************************************************)
(* Dynamic work sharing among the ranks of a process group                 *)
(* (work.hpp, atomic_counter.hpp).  Every rank walks the same sequence of  *)
(* tasks 0 .. NTasks-1 and runs exactly those whose position it drew from  *)
(* a shared fetch-and-add counter.                                         *)
(*                                                                         *)
(* The counter may be shared: the scheduler has put it into the execution  *)
(* context, and it is allocated before the loop and outlives it.           *)
(* Otherwise parallel_work_ga creates a counter of its own, and the        *)
(* collective creation, initialisation and destruction are part of the     *)
(* protocol.                                                               *)
(***************************************************************************)
EXTENDS Integers

CONSTANTS Ranks,   \* the processes of the group
          Root,    \* the rank that initialises the counters: node 0
          NTasks   \* the number of iterations of the loop nest

ASSUME ParallelWorkAssumption ==
  /\ Root \in Ranks
  /\ NTasks \in Nat

VARIABLES shared,  \* does the execution context carry a counter?
          counter, \* the value of the shared counter
          live,    \* is the counter's storage allocated?
          pc,      \* where each rank is in parallel_work_ga
          next,    \* the last ticket a rank drew
          count,   \* the position of a rank's iterator
          arrived, \* how many collective calls a rank has entered
          ran      \* history: how often each task's function was applied

vars == <<shared, counter, live, pc, next, count, arrived, ran>>

Tasks == 0 .. NTasks - 1

PC == {"create", "w_create", "init", "w_init", "first", "loop", "fetch",
       "w_dealloc", "w_end", "done"}

\* A rank returns from a collective call when every rank has entered it.
Passed(r) == \A s \in Ranks : arrived[s] >= arrived[r]

Enter(r, site) ==
  /\ arrived' = [arrived EXCEPT ![r] = @ + 1]
  /\ pc' = [pc EXCEPT ![r] = site]

Goto(r, place) == pc' = [pc EXCEPT ![r] = place] /\ UNCHANGED arrived

TypeOK ==
  /\ shared \in BOOLEAN
  /\ counter \in Int
  /\ live \in BOOLEAN
  /\ pc \in [Ranks -> PC]
  /\ next \in [Ranks -> Int]
  /\ count \in [Ranks -> 0 .. NTasks]
  /\ arrived \in [Ranks -> 0 .. 4]
  /\ ran \in [Tasks -> Nat]

\* The elements of a new global array hold whatever was there before; the
\* scheduler hands over a counter that it has set to zero.
Init ==
  /\ shared \in BOOLEAN
  /\ counter \in IF shared THEN {0} ELSE -1 .. NTasks
  /\ live = shared
  /\ pc = [r \in Ranks |-> IF shared THEN "first" ELSE "create"]
  /\ next = [r \in Ranks |-> 0]
  /\ count = [r \in Ranks |-> 0]
  /\ arrived = [r \in Ranks |-> 0]
  /\ ran = [k \in Tasks |-> 0]

-----------------------------------------------------------------------------
(* AtomicCounterGA::allocate: a collective creation, one rank that stores  *)
(* the initial value, and a sync.                                          *)

Create(r) ==
  /\ pc[r] = "create"
  /\ Enter(r, "w_create")
  /\ UNCHANGED <<shared, counter, live, next, count, ran>>

Created(r) ==
  /\ pc[r] = "w_create" /\ Passed(r)
  /\ live' = TRUE
  /\ IF r = Root THEN Goto(r, "init") ELSE Enter(r, "w_init")
  /\ UNCHANGED <<shared, counter, next, count, ran>>

InitCounters(r) ==
  /\ pc[r] = "init"
  /\ counter' = 0
  /\ Enter(r, "w_init")
  /\ UNCHANGED <<shared, live, next, count, ran>>

-----------------------------------------------------------------------------
(* The loop.                                                               *)

\* AtomicCounterGA::fetch_add(idx, 1)
DrawTicket(r) ==
  /\ next' = [next EXCEPT ![r] = counter]
  /\ counter' = counter + 1

\* Mutant: allocate without its closing sync.
MutNoAllocSync(r) == pc[r] \in {"first", "w_init"}

MayStart(r) == pc[r] = "first" \/ (pc[r] = "w_init" /\ Passed(r))

FirstTicket(r) ==
  /\ MayStart(r)
  /\ DrawTicket(r)
  /\ Goto(r, "loop")
  /\ UNCHANGED <<shared, live, count, ran>>

\* Mutant: the iterator is not advanced past a task of another rank.
MutStuckIterator(r) ==
  /\ pc[r] = "loop" /\ count[r] < NTasks /\ next[r] # count[r]
  /\ UNCHANGED vars

Skip(r) ==
  /\ pc[r] = "loop" /\ count[r] < NTasks /\ next[r] # count[r]
  /\ count' = [count EXCEPT ![r] = @ + 1]
  /\ UNCHANGED <<shared, counter, live, pc, next, arrived, ran>>

Run(r) ==
  /\ pc[r] = "loop" /\ count[r] < NTasks /\ next[r] = count[r]
  /\ ran' = [ran EXCEPT ![count[r]] = @ + 1]
  /\ Goto(r, "fetch")
  /\ UNCHANGED <<shared, counter, live, next, count>>

NextTicket(r) ==
  /\ pc[r] = "fetch"
  /\ DrawTicket(r)
  /\ count' = [count EXCEPT ![r] = @ + 1]
  /\ Goto(r, "loop")
  /\ UNCHANGED <<shared, live, ran>>

\* Mutant: the loop stops one task short.
MutLeaveEarly(r) ==
  /\ pc[r] = "loop" /\ count[r] >= NTasks - 1
  /\ IF shared THEN Goto(r, "done") ELSE Enter(r, "w_dealloc")
  /\ UNCHANGED <<shared, counter, live, next, count, ran>>

Leave(r) ==
  /\ pc[r] = "loop" /\ count[r] = NTasks
  /\ IF shared THEN Goto(r, "done") ELSE Enter(r, "w_dealloc")
  /\ UNCHANGED <<shared, counter, live, next, count, ran>>

-----------------------------------------------------------------------------
(* AtomicCounterGA::deallocate, then the barrier of parallel_work_ga.      *)

\* Mutant: deallocate without its sync.
MutNoDeallocSync(r) ==
  /\ pc[r] = "w_dealloc"
  /\ live' = FALSE
  /\ Enter(r, "w_end")
  /\ UNCHANGED <<shared, counter, next, count, ran>>

Destroy(r) ==
  /\ pc[r] = "w_dealloc" /\ Passed(r)
  /\ live' = FALSE
  /\ Enter(r, "w_end")
  /\ UNCHANGED <<shared, counter, next, count, ran>>

Return(r) ==
  /\ pc[r] = "w_end" /\ Passed(r)
  /\ Goto(r, "done")
  /\ UNCHANGED <<shared, counter, live, next, count, ran>>

Step(r) ==
  \/ Create(r) \/ Created(r) \/ InitCounters(r)
  \/ FirstTicket(r) \/ Skip(r) \/ Run(r) \/ NextTicket(r) \/ Leave(r)
  \/ Destroy(r) \/ Return(r)

Terminated == \A r \in Ranks : pc[r] = "done"

Next == (\E r \in Ranks : Step(r)) \/ (Terminated /\ UNCHANGED vars)

\* Every rank is a process of its own that the operating system schedules.
Fairness == \A r \in Ranks : WF_vars(Step(r))

Spec == Init /\ [][Next]_vars
FairSpec == Spec /\ Fairness

-----------------------------------------------------------------------------
(* Properties.                                                             *)

\* The task a rank has drawn and not run yet.
Holds(r, k) == pc[r] = "loop" /\ next[r] = k

Left == {r \in Ranks : pc[r] \in {"w_dealloc", "w_end", "done"}}

\* No task is applied twice, whichever rank drew it, and once a rank has left
\* the loop every task has been run or is in the hands of a rank that will
\* reach it: the loops of parallel_work_ga neither duplicate nor drop an
\* iteration (work.hpp:30-62).
ExactlyOnce ==
  \A k \in Tasks :
    /\ ran[k] <= 1
    /\ Left # {} => (ran[k] = 1 \/ \E r \in Ranks : Holds(r, k))
    /\ Terminated => ran[k] = 1

\* A rank never walks past the ticket it holds: the iterator only moves
\* forward, so a skipped ticket would never be served.
TicketAhead ==
  \A r \in Ranks : pc[r] = "loop" => count[r] <= next[r]

\* Nobody draws from the counter before it is created or after a rank has
\* destroyed it: the syncs of allocate and deallocate separate the phases.
NoUseAfterFree ==
  \A r \in Ranks : pc[r] \in {"first", "loop", "fetch"} => live

\* Work sharing implements the abstract pool of tasks.
Pool == INSTANCE TaskPool WITH
  NoTask   <- -1,
  held     <- [r \in Ranks |-> IF pc[r] = "loop" /\ next[r] < NTasks
                               THEN next[r] ELSE -1],
  finished <- {k \in Tasks : ran[k] > 0},
  left     <- Left

PoolSpec == Pool!Spec

\* Every rank returns, and by then every task has been applied.
AllReturn == <>(Terminated /\ \A k \in Tasks : ran[k] = 1)
=============================================================================
