------------------------------ MODULE TaskPool ------------------------------
(***************************************************************************)
(* What dynamic work sharing promises: a pool of tasks from which each     *)
(* rank takes one task at a time, runs it and comes back, and which a rank *)
(* leaves only when nothing is left to take.  How ranks agree on who takes *)
(* what is not said here; ParallelWork implements it with a shared         *)
(* counter.                                                                *)
(***************************************************************************)
CONSTANTS Ranks,    \* the processes of the process group
          Tasks,    \* the iterations of the loop nest
          NoTask    \* what a rank holds between two tasks: not a task

VARIABLES held,     \* held[r]: the task r has taken and not finished
          finished, \* the tasks whose function has been applied
          left      \* the ranks that have left the pool

vars == <<held, finished, left>>

Taken == {held[r] : r \in Ranks} \ {NoTask}
Unclaimed == Tasks \ (finished \cup Taken)

Init ==
  /\ held = [r \in Ranks |-> NoTask]
  /\ finished = {}
  /\ left = {}

Take(r, k) ==
  /\ r \notin left /\ held[r] = NoTask
  /\ k \in Unclaimed
  /\ held' = [held EXCEPT ![r] = k]
  /\ UNCHANGED <<finished, left>>

Finish(r) ==
  /\ held[r] # NoTask
  /\ finished' = finished \cup {held[r]}
  /\ held' = [held EXCEPT ![r] = NoTask]
  /\ UNCHANGED left

Leave(r) ==
  /\ r \notin left /\ held[r] = NoTask
  /\ Unclaimed = {}
  /\ left' = left \cup {r}
  /\ UNCHANGED <<held, finished>>

Next == \E r \in Ranks : Finish(r) \/ Leave(r) \/ \E k \in Tasks : Take(r, k)

Spec == Init /\ [][Next]_vars
=============================================================================
