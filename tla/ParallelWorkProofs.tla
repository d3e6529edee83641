------------------------- MODULE ParallelWorkProofs -------------------------
(***************************************************************************)
(* Proofs about ParallelWork, for every set of ranks and number of tasks:  *)
(* type correctness, that no task is run twice or dropped, that the        *)
(* counter is never used outside its lifetime, and that the protocol       *)
(* implements TaskPool.                                                    *)
(*                                                                         *)
(* ExactlyOnce is not inductive.  What makes it true is that the tickets   *)
(* drawn so far are 0 .. counter-1, each by a different draw; that a rank  *)
(* never walks past its ticket; and that nobody has drawn one before the   *)
(* counter is set to zero, which the collective calls guarantee.           *)
(***************************************************************************)
EXTENDS ParallelWork, TLAPS

Waiting == {"w_create", "w_init", "w_dealloc", "w_end"}
Ticketed(r) == pc[r] \in {"loop", "fetch", "w_dealloc", "w_end", "done"}
Inited == shared \/ arrived[Root] >= 2

\* How many collective calls a rank has entered when it is at p.
ArrivedAt(p) ==
  IF p = "create" THEN 0
  ELSE IF p \in {"w_create", "init"} THEN 1
  ELSE IF p \in {"w_init", "loop", "fetch"} THEN 2
  ELSE IF p = "w_dealloc" THEN 3 ELSE 4

\* With a counter of the scheduler there are no collective calls; without one,
\* where a rank is tells how many it has entered, and no rank is more than one
\* call ahead.
Phases ==
  /\ shared => /\ live
               /\ \A r \in Ranks : /\ pc[r] \in {"first", "loop", "fetch", "done"}
                                   /\ arrived[r] = 0
  /\ ~shared =>
       /\ \A r \in Ranks : /\ pc[r] # "first"
                           /\ arrived[r] = ArrivedAt(pc[r])
                           /\ pc[r] = "init" => r = Root
       /\ \A r, s \in Ranks :
            /\ arrived[s] >= arrived[r] - 1
            /\ pc[r] \notin Waiting => arrived[s] >= arrived[r]

\* The storage exists from the first rank past the creation to the first
\* destruction.
Lifetime ==
  \A r \in Ranks : (arrived[r] >= 2 \/ pc[r] = "init") /\ ~live
                   => \E s \in Ranks : arrived[s] = 4

Tickets ==
  /\ Inited => counter \in Nat
  /\ \A r \in Ranks : Ticketed(r) => /\ Inited
                                     /\ next[r] \in Nat
                                     /\ next[r] < counter
  /\ \A r, s \in Ranks : r # s /\ Ticketed(r) /\ Ticketed(s)
                         => next[r] # next[s]

Iterators ==
  \A r \in Ranks :
    /\ pc[r] = "loop" => count[r] <= next[r]
    /\ pc[r] = "fetch" => count[r] = next[r] /\ count[r] < NTasks
    /\ r \in Left => next[r] >= NTasks
    /\ ~Ticketed(r) => count[r] = 0

\* Each drawn ticket has been run, except those still in a rank's hands.
History ==
  \A k \in Tasks :
    ran[k] = IF Inited /\ k < counter /\ ~\E r \in Ranks : Holds(r, k)
             THEN 1 ELSE 0

IInv == TypeOK /\ Phases /\ Lifetime /\ Tickets /\ Iterators /\ History

-----------------------------------------------------------------------------

LEMMA InitIInv == Init => IInv
  <1> SUFFICES ASSUME Init PROVE IInv
    OBVIOUS
  <1> USE ParallelWorkAssumption DEF Init
  <1>1. TypeOK
    BY DEF TypeOK, PC, Tasks
  <1>2. Phases /\ Lifetime
    BY DEF Phases, Lifetime, ArrivedAt, Waiting
  <1>3. Tickets /\ Iterators /\ History
    BY <1>1 DEF TypeOK, Tickets, Iterators, History, Inited, Ticketed, Left, Tasks
  <1>4. QED
    BY <1>1, <1>2, <1>3 DEF IInv

LEMMA StepTypeOK ==
  ASSUME IInv, NEW r \in Ranks, Step(r)
  PROVE  TypeOK'
  <1> USE ParallelWorkAssumption DEF IInv, TypeOK, PC, Goto, Enter, DrawTicket
  <1>1. arrived[r] + 1 \in 0 .. 4 \/ pc[r] \notin {"create", "w_create", "init", "loop", "w_dealloc"} \/ shared
    BY DEF Phases, ArrivedAt
  <1>2. CASE Create(r)
    BY <1>1, <1>2 DEF Create, Phases
  <1>3. CASE Created(r)
    BY <1>1, <1>3 DEF Created, Phases
  <1>4. CASE InitCounters(r)
    BY <1>1, <1>4 DEF InitCounters, Phases
  <1>5. CASE FirstTicket(r)
    BY <1>5 DEF FirstTicket
  <1>6. CASE Skip(r)
    BY <1>6 DEF Skip
  <1>7. CASE Run(r)
    BY <1>7 DEF Run, Tasks
  <1>8. CASE NextTicket(r)
    BY <1>8 DEF NextTicket, Iterators
  <1>9. CASE Leave(r)
    BY <1>1, <1>9 DEF Leave, Phases
  <1>10. CASE Destroy(r)
    BY <1>1, <1>10 DEF Destroy, Phases
  <1>11. CASE Return(r)
    BY <1>11 DEF Return
  <1>12. QED
    BY <1>2, <1>3, <1>4, <1>5, <1>6, <1>7, <1>8, <1>9, <1>10, <1>11 DEF Step

LEMMA StepPhases ==
  ASSUME IInv, NEW r \in Ranks, Step(r)
  PROVE  Phases'
  <1> USE ParallelWorkAssumption
      DEF IInv, TypeOK, PC, Phases, ArrivedAt, Waiting, Passed, Goto, Enter, DrawTicket
  <1>1. CASE Create(r)
    BY <1>1 DEF Create
  <1>2. CASE Created(r)
    BY <1>2 DEF Created
  <1>3. CASE InitCounters(r)
    BY <1>3 DEF InitCounters
  <1>4. CASE FirstTicket(r)
    BY <1>4 DEF FirstTicket, MayStart
  <1>5. CASE Skip(r) \/ Run(r) \/ NextTicket(r)
    BY <1>5 DEF Skip, Run, NextTicket
  <1>6. CASE Leave(r)
    BY <1>6 DEF Leave
  <1>7. CASE Destroy(r)
    BY <1>7 DEF Destroy
  <1>8. CASE Return(r)
    BY <1>8 DEF Return
  <1>9. QED
    BY <1>1, <1>2, <1>3, <1>4, <1>5, <1>6, <1>7, <1>8 DEF Step

LEMMA StepLifetime ==
  ASSUME IInv, NEW r \in Ranks, Step(r)
  PROVE  Lifetime'
  <1> USE ParallelWorkAssumption
      DEF IInv, TypeOK, PC, Phases, ArrivedAt, Waiting, Lifetime, Passed, Goto, Enter, DrawTicket
  <1>1. CASE Create(r)
    BY <1>1 DEF Create
  <1>2. CASE Created(r)
    BY <1>2 DEF Created
  <1>3. CASE InitCounters(r)
    BY <1>3 DEF InitCounters
  <1>4. CASE FirstTicket(r)
    BY <1>4 DEF FirstTicket, MayStart
  <1>5. CASE Skip(r) \/ Run(r) \/ NextTicket(r)
    BY <1>5 DEF Skip, Run, NextTicket
  <1>6. CASE Leave(r)
    BY <1>6 DEF Leave
  <1>7. CASE Destroy(r)
    BY <1>7 DEF Destroy
  <1>8. CASE Return(r)
    BY <1>8 DEF Return
  <1>9. QED
    BY <1>1, <1>2, <1>3, <1>4, <1>5, <1>6, <1>7, <1>8 DEF Step

\* While the counter is not set, nobody has drawn a ticket.
LEMMA NoTicketBeforeInit ==
  ASSUME IInv, NEW r \in Ranks, pc[r] = "init"
  PROVE  /\ ~Inited
         /\ \A s \in Ranks : ~Ticketed(s)
  BY ParallelWorkAssumption
     DEF IInv, TypeOK, PC, Phases, ArrivedAt, Waiting, Inited, Ticketed

\* Whoever may start drawing does so from an initialised counter.
LEMMA StartInited ==
  ASSUME IInv, NEW r \in Ranks, MayStart(r)
  PROVE  Inited
  BY ParallelWorkAssumption
     DEF IInv, TypeOK, Phases, ArrivedAt, Passed, MayStart, Inited

\* A counter that is initialised stays so.
LEMMA StepInited ==
  ASSUME IInv, NEW r \in Ranks, Step(r)
  PROVE  Inited => Inited'
  <1> USE ParallelWorkAssumption DEF IInv, TypeOK, Inited, Goto, Enter
  <1>1. arrived'[Root] >= arrived[Root]
    BY DEF Step, Create, Created, InitCounters, FirstTicket, Skip, Run,
           NextTicket, Leave, Destroy, Return
  <1>2. shared' = shared
    BY DEF Step, Create, Created, InitCounters, FirstTicket, Skip, Run,
           NextTicket, Leave, Destroy, Return
  <1>3. arrived[Root] \in Int /\ arrived'[Root] \in Int
    BY StepTypeOK DEF TypeOK
  <1>4. QED
    BY <1>1, <1>2, <1>3

LEMMA StepTickets ==
  ASSUME IInv, NEW r \in Ranks, Step(r)
  PROVE  Tickets'
  <1> USE ParallelWorkAssumption
      DEF IInv, TypeOK, Tickets, Ticketed, Goto, Enter, DrawTicket
  <1>1. CASE Create(r) \/ Created(r)
    <2>1. counter' = counter /\ next' = next
      BY <1>1 DEF Create, Created
    <2>2. \A s \in Ranks : Ticketed(s)' => Ticketed(s)
      BY <1>1 DEF Create, Created
    <2>3. Inited' => Inited
      BY <1>1 DEF Create, Created, Inited, Phases, ArrivedAt
    <2>4. QED
      BY <2>1, <2>2, <2>3, StepInited
  <1>2. CASE InitCounters(r)
    BY <1>2, NoTicketBeforeInit DEF InitCounters
  <1>3. CASE FirstTicket(r)
    BY <1>3, StartInited, StepInited DEF FirstTicket
  <1>4. CASE Skip(r) \/ Run(r)
    BY <1>4, StepInited DEF Skip, Run, Inited
  <1>5. CASE NextTicket(r)
    BY <1>5, StepInited DEF NextTicket
  <1>6. CASE Leave(r) \/ Destroy(r) \/ Return(r)
    <2>1. counter' = counter /\ next' = next
      BY <1>6 DEF Leave, Destroy, Return
    <2>2. \A s \in Ranks : Ticketed(s)' => Ticketed(s)
      BY <1>6 DEF Leave, Destroy, Return
    <2>3. Inited
      BY <1>6 DEF Leave, Destroy, Return
    <2>4. QED
      BY <2>1, <2>2, <2>3, StepInited
  <1>7. QED
    BY <1>1, <1>2, <1>3, <1>4, <1>5, <1>6 DEF Step

LEMMA StepIterators ==
  ASSUME IInv, NEW r \in Ranks, Step(r)
  PROVE  Iterators'
  <1> USE ParallelWorkAssumption
      DEF IInv, TypeOK, Iterators, Ticketed, Left, Goto, Enter, DrawTicket
  <1>1. CASE Create(r) \/ Created(r) \/ InitCounters(r)
    BY <1>1 DEF Create, Created, InitCounters
  <1>2. CASE FirstTicket(r)
    <2>1. counter \in Nat /\ count[r] = 0
      BY <1>2, StartInited DEF FirstTicket, MayStart, Tickets
    <2>2. QED
      BY <1>2, <2>1 DEF FirstTicket, MayStart
  <1>3. CASE Skip(r)
    BY <1>3 DEF Skip, Tickets
  <1>4. CASE Run(r)
    BY <1>4 DEF Run
  <1>5. CASE NextTicket(r)
    BY <1>5 DEF NextTicket, Tickets
  <1>6. CASE Leave(r)
    BY <1>6 DEF Leave, Tickets
  <1>7. CASE Destroy(r) \/ Return(r)
    BY <1>7 DEF Destroy, Return
  <1>8. QED
    BY <1>1, <1>2, <1>3, <1>4, <1>5, <1>6, <1>7 DEF Step

\* The steps that neither draw, run nor initialise leave the history alone.
LEMMA QuietHistory ==
  ASSUME IInv, NEW r \in Ranks, UNCHANGED <<counter, ran, next>>, Inited' = Inited,
         \A s \in Ranks : (pc[s] = "loop") = (pc[s] = "loop")'
         \/ (next[s] >= NTasks /\ next[s] \in Int)
  PROVE  History'
  BY ParallelWorkAssumption DEF IInv, History, Holds, Tasks

LEMMA StepHistory ==
  ASSUME IInv, NEW r \in Ranks, Step(r)
  PROVE  History'
  <1> USE ParallelWorkAssumption DEF IInv, TypeOK, Goto, Enter
  <1>1. CASE Create(r) \/ Created(r) \/ Skip(r) \/ Destroy(r) \/ Return(r)
    <2>1. Inited' = Inited
      BY <1>1 DEF Create, Created, Skip, Destroy, Return, Inited, Phases, ArrivedAt
    <2>2. QED
      BY <1>1, <2>1, QuietHistory DEF Create, Created, Skip, Destroy, Return
  <1>2. CASE InitCounters(r)
    BY <1>2, NoTicketBeforeInit DEF InitCounters, History, Holds, Ticketed, Tasks
  <1>3. CASE FirstTicket(r)
    <2>1. Inited /\ Inited' /\ counter \in Nat
      BY <1>3, StartInited, StepInited DEF FirstTicket, Tickets
    <2>2. QED
      BY <1>3, <2>1 DEF FirstTicket, MayStart, DrawTicket, History, Holds, Tasks, Tickets, Ticketed
  <1>4. CASE Run(r)
    <2>1. Inited /\ Inited'
      BY <1>4, StepInited DEF Run, Tickets, Ticketed
    <2>2. QED
      BY <1>4, <2>1 DEF Run, History, Holds, Tasks, Tickets, Ticketed
  <1>5. CASE NextTicket(r)
    <2>1. Inited /\ Inited' /\ counter \in Nat
      BY <1>5, StepInited DEF NextTicket, Tickets, Ticketed
    <2>2. QED
      BY <1>5, <2>1 DEF NextTicket, DrawTicket, History, Holds, Tasks, Tickets, Ticketed
  <1>6. CASE Leave(r)
    <2>1. Inited' /\ Inited /\ next[r] >= NTasks
      BY <1>6, StepInited DEF Leave, Tickets, Ticketed, Iterators
    <2>2. QED
      BY <1>6, <2>1, QuietHistory DEF Leave
  <1>7. QED
    BY <1>1, <1>2, <1>3, <1>4, <1>5, <1>6 DEF Step

THEOREM Invariance == Spec => []IInv
  <1>1. IInv /\ [Next]_vars => IInv'
    <2> SUFFICES ASSUME IInv, [Next]_vars PROVE IInv'
      OBVIOUS
    <2>1. CASE \E r \in Ranks : Step(r)
      BY <2>1, StepTypeOK, StepPhases, StepLifetime, StepTickets, StepIterators,
         StepHistory DEF IInv
    <2>2. CASE UNCHANGED vars
      BY <2>2 DEF vars, IInv, TypeOK, Phases, ArrivedAt, Waiting, Lifetime, Tickets,
         Iterators, History, Inited, Ticketed, Left, Holds, Tasks, PC
    <2>3. QED
      BY <2>1, <2>2 DEF Next
  <1>2. QED
    BY InitIInv, <1>1, PTL DEF Spec

\* The values of all variables stay in their ranges; no rank's iterator passes
\* the end of the loop nest (work.hpp:35).
THEOREM TypeCorrect == Spec => []TypeOK
  BY Invariance, PTL DEF IInv

\* No task of the loop nest is applied twice, and none is left over when a rank
\* leaves the loop (work.hpp:30-62).
THEOREM ExactlyOnceCorrect == Spec => []ExactlyOnce
  <1>1. IInv => ExactlyOnce
    <2> SUFFICES ASSUME IInv, NEW k \in Tasks PROVE
          /\ ran[k] <= 1
          /\ Left # {} => (ran[k] = 1 \/ \E r \in Ranks : Holds(r, k))
          /\ Terminated => ran[k] = 1
      BY DEF ExactlyOnce
    <2>1. ran[k] <= 1
      BY DEF IInv, History
    <2>2. ASSUME NEW s \in Left PROVE ran[k] = 1 \/ \E r \in Ranks : Holds(r, k)
      <3>1. s \in Ranks /\ Ticketed(s) /\ next[s] >= NTasks
        BY <2>2 DEF IInv, Iterators, Left, Ticketed
      <3>2. Inited /\ k < counter
        BY <3>1, ParallelWorkAssumption DEF IInv, Tickets, Tasks
      <3>3. QED
        BY <3>2 DEF IInv, History
    <2>3. ASSUME Terminated PROVE ran[k] = 1
      BY <2>2, <2>3, ParallelWorkAssumption DEF Terminated, Left, Holds
    <2>4. QED
      BY <2>1, <2>2, <2>3
  <1>2. QED
    BY <1>1, Invariance, PTL

\* A rank that is still in the loop has not walked past its ticket.
THEOREM TicketAheadCorrect == Spec => []TicketAhead
  <1>1. IInv => TicketAhead
    BY DEF IInv, Iterators, TicketAhead
  <1>2. QED
    BY <1>1, Invariance, PTL

\* The counter exists whenever a rank may draw from it
\* (atomic_counter.hpp:98-156).
THEOREM CounterLifetime == Spec => []NoUseAfterFree
  <1>1. IInv => NoUseAfterFree
    BY ParallelWorkAssumption
       DEF IInv, TypeOK, Phases, ArrivedAt, Waiting, Lifetime, NoUseAfterFree
  <1>2. QED
    BY <1>1, Invariance, PTL

-----------------------------------------------------------------------------
(* Work sharing implements the pool of tasks.                              *)

\* The mapped state of the pool.
Held == [r \in Ranks |-> IF pc[r] = "loop" /\ next[r] < NTasks THEN next[r] ELSE -1]
Finished == {k \in Tasks : ran[k] > 0}

LEMMA QuietStep ==
  ASSUME UNCHANGED <<next, ran>>,
         \A s \in Ranks : pc'[s] = pc[s] \/ {pc[s], pc'[s]} \cap {"loop", "w_dealloc", "w_end", "done"} = {}
                          \/ {pc[s], pc'[s]} \subseteq {"w_dealloc", "w_end", "done"}
  PROVE  UNCHANGED <<Held, Finished, Left>>
  BY DEF Held, Finished, Left

\* The tasks drawn but not run are in the hands of ranks, so what the pool has
\* left to give away are the positions the counter has not reached.
LEMMA UnclaimedTasks ==
  ASSUME IInv, Inited
  PROVE  Tasks \ (Finished \cup ({Held[r] : r \in Ranks} \ {-1})) = {k \in Tasks : k >= counter}
  <1> USE ParallelWorkAssumption
  <1>1. ASSUME NEW k \in Tasks, k >= counter PROVE k \notin Finished /\ \A r \in Ranks : Held[r] # k
    BY <1>1 DEF IInv, TypeOK, History, Tickets, Tasks, Finished, Held, Ticketed
  <1>2. ASSUME NEW k \in Tasks, k < counter, k \notin Finished PROVE \E r \in Ranks : Held[r] = k
    <2>1. ran[k] = 0
      BY <1>2 DEF IInv, TypeOK, Finished
    <2>2. PICK r \in Ranks : Holds(r, k)
      BY <1>2, <2>1 DEF IInv, History
    <2>3. Held[r] = k
      BY <2>2 DEF Holds, Held, Tasks
    <2>4. QED
      BY <2>3
  <1>3. counter \in Nat
    BY DEF IInv, Tickets
  <1>4. QED
    BY <1>1, <1>2, <1>3 DEF Tasks

LEMMA DrawStep ==
  ASSUME IInv, IInv', NEW r \in Ranks, FirstTicket(r) \/ NextTicket(r)
  PROVE  (\E k \in Tasks : Pool!Take(r, k)) \/ UNCHANGED <<Held, Finished, Left>>
  <1> USE ParallelWorkAssumption
  <1>1. pc' = [pc EXCEPT ![r] = "loop"] /\ next' = [next EXCEPT ![r] = counter]
        /\ ran' = ran /\ pc[r] \notin {"loop", "w_dealloc", "w_end", "done"}
    BY DEF FirstTicket, NextTicket, MayStart, DrawTicket, Goto
  <1>2. Inited /\ counter \in Nat
    BY StartInited DEF FirstTicket, NextTicket, IInv, Tickets, Ticketed
  <1>3. Held[r] = -1 /\ r \notin Left /\ Left' = Left /\ Finished' = Finished
    BY <1>1 DEF Held, Left, Finished, IInv, TypeOK
  <1>4. Held' = [Held EXCEPT ![r] = IF counter < NTasks THEN counter ELSE -1]
    BY <1>1, <1>2 DEF Held, IInv, TypeOK
  <1>5. CASE counter < NTasks
    <2>1. counter \in Tasks
      BY <1>2, <1>5 DEF Tasks
    <2>2. Pool!Take(r, counter)
      BY <1>2, <1>3, <1>4, <1>5, <2>1, UnclaimedTasks
         DEF Pool!Take, Pool!Unclaimed, Pool!Taken, Held, Finished
    <2>3. QED
      BY <2>1, <2>2 DEF Pool!Take
  <1>6. CASE ~(counter < NTasks)
    <2>1. Held' = Held
      BY <1>3, <1>4, <1>6 DEF Held
    <2>2. QED
      BY <1>3, <2>1
  <1>7. QED
    BY <1>5, <1>6

\* Every step of the ranks is a step of the pool or leaves it alone, so the
\* ranks together behave as if they took tasks out of a pool
\* (work.hpp:30-62 against TaskPool).
THEOREM Refinement == Spec => PoolSpec
  <1> USE ParallelWorkAssumption
  <1>1. Init => Pool!Init
    BY DEF Init, Pool!Init, Left, Tasks
  <1>2. IInv /\ IInv' /\ [Next]_vars => [Pool!Next]_(Pool!vars)
    <2> SUFFICES ASSUME IInv, IInv', [Next]_vars
                 PROVE  Pool!Next \/ UNCHANGED <<Held, Finished, Left>>
      BY DEF Pool!vars, Held, Finished
    <2>1. CASE UNCHANGED vars
      BY <2>1 DEF vars, Held, Finished, Left
    <2>2. ASSUME NEW r \in Ranks, Step(r)
          PROVE  Pool!Next \/ UNCHANGED <<Held, Finished, Left>>
      <3>1. CASE Create(r) \/ Created(r) \/ InitCounters(r) \/ Skip(r) \/ Destroy(r) \/ Return(r)
        <4>1. UNCHANGED <<Held, Finished, Left>>
          BY <3>1, QuietStep DEF Create, Created, InitCounters, Skip, Destroy, Return,
             Goto, Enter, IInv, TypeOK
        <4>2. QED
          BY <4>1
      <3>2. CASE FirstTicket(r) \/ NextTicket(r)
        BY <3>2, DrawStep DEF Pool!Next
      <3>3. CASE Run(r)
        <4>1. Held[r] = next[r] /\ next[r] # -1 /\ next[r] = count[r] /\ count[r] \in Tasks
          BY <3>3 DEF Run, Held, IInv, TypeOK, Tasks
        <4>2. Held' = [Held EXCEPT ![r] = -1] /\ Left' = Left
          BY <3>3 DEF Run, Held, Left, Goto, IInv, TypeOK
        <4>3. Finished' = Finished \cup {Held[r]}
          BY <3>3, <4>1 DEF Run, Finished, IInv, TypeOK
        <4>4. Pool!Finish(r)
          BY <4>1, <4>2, <4>3 DEF Pool!Finish, Held, Finished
        <4>5. QED
          BY <4>4 DEF Pool!Next
      <3>4. CASE Leave(r)
        <4>1. r \notin Left /\ Held[r] = -1 /\ Inited /\ next[r] >= NTasks /\ next[r] < counter
          BY <3>4 DEF Leave, Left, Held, IInv, Iterators, Tickets, Ticketed, TypeOK
        <4>2. {k \in Tasks : k >= counter} = {}
          BY <4>1 DEF IInv, Tickets, Ticketed, Tasks, TypeOK
        <4>3. Held' = Held /\ Finished' = Finished /\ Left' = Left \cup {r}
          BY <3>4, <4>1 DEF Leave, Held, Finished, Left, Goto, Enter, IInv, TypeOK
        <4>4. Pool!Leave(r)
          BY <4>1, <4>2, <4>3, UnclaimedTasks
             DEF Pool!Leave, Pool!Unclaimed, Pool!Taken, Held, Finished
        <4>5. QED
          BY <4>4 DEF Pool!Next
      <3>5. QED
        BY <2>2, <3>1, <3>2, <3>3, <3>4 DEF Step
    <2>3. QED
      BY <2>1, <2>2 DEF Next
  <1>3. QED
    BY <1>1, <1>2, Invariance, PTL DEF Spec, PoolSpec, Pool!Spec
=============================================================================
