------------------------------ MODULE Dataflow ------------------------------
(***************************************************************************)
(* What a scheduler promises about a program of tensor operations: it runs *)
(* every operation once, and starts one only when all the operations it    *)
(* depends on, that come before it in the program, are finished on every   *)
(* rank.  Operations that do not depend on each other may overlap.         *)
(***************************************************************************)
EXTENDS TensorOps

CONSTANT Program  \* the operations, in the order in which the user added them

VARIABLES started,  \* the operations some rank has begun
          finished  \* the operations all ranks have completed

vars == <<started, finished>>

Init == started = {} /\ finished = {}

Start(o) ==
  /\ o \notin started
  /\ \A p \in DOMAIN Program : Before(Program, p, o) => p \in finished
  /\ started' = started \cup {o}
  /\ UNCHANGED finished

Finish(o) ==
  /\ o \in started \ finished
  /\ finished' = finished \cup {o}
  /\ UNCHANGED started

Next == \E o \in DOMAIN Program : Start(o) \/ Finish(o)

Spec == Init /\ [][Next]_vars
=============================================================================
