---------------------------- MODULE LazyUpdates -----------------------------
(***************************************************************************)
(* What updates promise.  A program notes updates of its tensors, each a   *)
(* sum of terms, and has them evaluated later.  Every term is evaluated    *)
(* once, those of one tensor in the order in which they were noted, and a  *)
(* term only when nothing is pending of the tensors it uses.  A term is    *)
(* identified by the number of its update and its place there.             *)
(***************************************************************************)
EXTENDS Integers, Sequences, SequencesExt

CONSTANT Tensors

VARIABLES pending,   \* the terms of each tensor that have not been evaluated
          evaluated  \* the identities of the evaluated terms, in order

Precedes(id, other) == id[1] < other[1] \/ (id[1] = other[1] /\ id[2] < other[2])

Init == pending = [t \in Tensors |-> {}] /\ evaluated = <<>>

\* New terms come after those that are pending, and have never been evaluated.
Note(t) ==
  /\ pending[t] \subseteq pending'[t]
  /\ \A new \in pending'[t] \ pending[t] :
       /\ new.id \notin ToSet(evaluated)
       /\ \A old \in pending[t] : Precedes(old.id, new.id)
  /\ pending' = [pending EXCEPT ![t] = pending'[t]]
  /\ UNCHANGED evaluated

Forget(t) == pending' = [pending EXCEPT ![t] = {}] /\ UNCHANGED evaluated

\* The first of the terms of t.
Evaluate(t) ==
  \E first \in pending[t] :
    /\ \A other \in pending[t] \ {first} : Precedes(first.id, other.id)
    /\ \A u \in first.uses : pending[u] = {}
    /\ evaluated' = Append(evaluated, first.id)
    /\ pending' = [pending EXCEPT ![t] = @ \ {first}]

Next == \E t \in Tensors : Note(t) \/ Forget(t) \/ Evaluate(t)

Spec == Init /\ [][Next]_<<pending, evaluated>>
=============================================================================
