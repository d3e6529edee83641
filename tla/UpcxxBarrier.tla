---------------------------- MODULE UpcxxBarrier ----------------------------
(***************************************************************************)
(* ProcGroup::barrier in the UPC++ build.  An accumulation into a remote   *)
(* block is a remote procedure call without an answer: the sender counts   *)
(* what it has sent, the target what it has applied, and a barrier returns *)
(* only when the two sums over the group agree.                            *)
(***************************************************************************)
EXTENDS Integers, FiniteSetsExt

CONSTANTS Ranks,     \* the processes of the team
          MaxAdds,   \* bound: how many calls a rank sends in all
          MaxPhases  \* bound: how many barriers the program has

ASSUME BarrierAssumption ==
  Ranks # {} /\ IsFiniteSet(Ranks) /\ MaxAdds \in Nat /\ MaxPhases \in Nat

VARIABLES sent_ops,    \* pginfo_->sent_ops of each rank
          recvd_ops,   \* *pginfo_->recvd_ops of each rank
          flying,      \* the calls on their way to each rank
          pc,          \* where each rank is in barrier()
          local_recvd, \* what each rank contributes to the sum of the received
          total_sends, total_recvs,   \* the sums, as each rank has them
          adds, phase  \* of each rank: calls sent, barriers returned from

vars == <<sent_ops, recvd_ops, flying, pc, local_recvd, total_sends, total_recvs, adds, phase>>

Each(x) == [r \in Ranks |-> x]
Total(f) == SumFunctionOnSet(f, Ranks)
Together(place) == \A r \in Ranks : pc[r] = place

PC == {"work", "sum_sends", "loop", "sum_recvs", "compare", "barrier", "aborted"}

TypeOK ==
  /\ pc \in [Ranks -> PC]
  /\ sent_ops \in [Ranks -> 0 .. MaxAdds]
  /\ \A f \in {recvd_ops, flying, local_recvd, total_sends, total_recvs} :
       f \in [Ranks -> 0 .. MaxAdds * Cardinality(Ranks)]
  /\ adds \in [Ranks -> 0 .. MaxAdds]
  /\ phase \in [Ranks -> 0 .. MaxPhases]

Init ==
  /\ sent_ops = Each(0) /\ recvd_ops = Each(0) /\ flying = Each(0)
  /\ pc = Each("work")
  /\ local_recvd = Each(0) /\ total_sends = Each(0) /\ total_recvs = Each(0)
  /\ adds = Each(0) /\ phase = Each(0)

-----------------------------------------------------------------------------

\* Mutant: a call is counted twice.
MutCountedTwice(r, s) ==
  /\ pc[r] = "work" /\ adds[r] < MaxAdds /\ phase[r] < MaxPhases
  /\ flying' = [flying EXCEPT ![s] = @ + 1]
  /\ sent_ops' = [sent_ops EXCEPT ![r] = @ + 2]
  /\ adds' = [adds EXCEPT ![r] = @ + 1]
  /\ UNCHANGED <<recvd_ops, pc, local_recvd, total_sends, total_recvs, phase>>

\* MemoryManagerGA::add of rank r into a block of rank s.
Add(r, s) ==
  /\ pc[r] = "work" /\ adds[r] < MaxAdds /\ phase[r] < MaxPhases
  /\ flying' = [flying EXCEPT ![s] = @ + 1]
  /\ sent_ops' = [sent_ops EXCEPT ![r] = @ + 1]
  /\ adds' = [adds EXCEPT ![r] = @ + 1]
  /\ UNCHANGED <<recvd_ops, pc, local_recvd, total_sends, total_recvs, phase>>

\* The target applies a call whenever it is in the UPC++ library.
Apply(s) ==
  /\ flying[s] > 0 /\ pc[s] # "aborted"
  /\ flying' = [flying EXCEPT ![s] = @ - 1]
  /\ recvd_ops' = [recvd_ops EXCEPT ![s] = @ + 1]
  /\ UNCHANGED <<sent_ops, pc, local_recvd, total_sends, total_recvs, adds, phase>>

\* The rank enters the first reduction.
EnterBarrier(r) ==
  /\ pc[r] = "work" /\ phase[r] < MaxPhases
  /\ pc' = [pc EXCEPT ![r] = "sum_sends"]
  /\ UNCHANGED <<sent_ops, recvd_ops, flying, local_recvd, total_sends, total_recvs, adds, phase>>

\* The reduction returns on all ranks, and each resets sent_ops, which nobody else looks at.
SumSends ==
  /\ Together("sum_sends")
  /\ total_sends' = Each(Total(sent_ops))
  /\ sent_ops' = Each(0)
  /\ pc' = Each("loop")
  /\ UNCHANGED <<recvd_ops, flying, local_recvd, total_recvs, adds, phase>>

\* do ... while(total_recvs < total_sends): the rank enters the second reduction with what
\* it has applied by now.
Repeat(r) ==
  /\ \/ pc[r] = "loop"
     \/ pc[r] = "compare" /\ total_recvs[r] < total_sends[r]
  /\ local_recvd' = [local_recvd EXCEPT ![r] = recvd_ops[r]]
  /\ pc' = [pc EXCEPT ![r] = "sum_recvs"]
  /\ UNCHANGED <<sent_ops, recvd_ops, flying, total_sends, total_recvs, adds, phase>>

SumRecvs ==
  /\ Together("sum_recvs")
  /\ total_recvs' = Each(Total(local_recvd))
  /\ pc' = Each("compare")
  /\ UNCHANGED <<sent_ops, recvd_ops, flying, local_recvd, total_sends, adds, phase>>

\* Mutant: recvd_ops is not reset.
MutKeepsReceived(r) ==
  /\ pc[r] = "compare" /\ total_recvs[r] >= total_sends[r]
  /\ pc' = [pc EXCEPT ![r] = IF total_recvs[r] = total_sends[r] THEN "barrier" ELSE "aborted"]
  /\ UNCHANGED <<sent_ops, recvd_ops, flying, local_recvd, total_sends, total_recvs, adds, phase>>

\* Mutant: the barrier returns without the last upcxx::barrier.
MutNoLastBarrier(r) ==
  /\ pc[r] = "compare" /\ total_recvs[r] = total_sends[r]
  /\ recvd_ops' = [recvd_ops EXCEPT ![r] = 0]
  /\ pc' = [pc EXCEPT ![r] = "work"]
  /\ phase' = [phase EXCEPT ![r] = @ + 1]
  /\ UNCHANGED <<sent_ops, flying, local_recvd, total_sends, total_recvs, adds>>

\* The loop ends; sums that differ abort the program.
EndLoop(r) ==
  /\ pc[r] = "compare" /\ total_recvs[r] >= total_sends[r]
  /\ pc' = [pc EXCEPT ![r] = IF total_recvs[r] = total_sends[r] THEN "barrier" ELSE "aborted"]
  /\ recvd_ops' = [recvd_ops EXCEPT ![r] = IF total_recvs[r] = total_sends[r] THEN 0 ELSE @]
  /\ UNCHANGED <<sent_ops, flying, local_recvd, total_sends, total_recvs, adds, phase>>

\* The last upcxx::barrier, and the return.
Return ==
  /\ Together("barrier")
  /\ pc' = Each("work")
  /\ phase' = [r \in Ranks |-> phase[r] + 1]
  /\ UNCHANGED <<sent_ops, recvd_ops, flying, local_recvd, total_sends, total_recvs, adds>>

Terminated == \A r \in Ranks : pc[r] = "work" /\ phase[r] = MaxPhases

Next ==
  \/ \E r, s \in Ranks : Add(r, s)
  \/ \E r \in Ranks : Apply(r) \/ EnterBarrier(r) \/ Repeat(r) \/ EndLoop(r)
  \/ SumSends \/ SumRecvs \/ Return
  \/ Terminated /\ UNCHANGED vars

Spec == Init /\ [][Next]_vars

\* Ranks run, reductions return once everybody is in them, and UPC++ delivers
\* calls to a rank that waits.
Fairness ==
  /\ \A r \in Ranks : WF_vars(Apply(r)) /\ WF_vars(EnterBarrier(r))
                      /\ WF_vars(Repeat(r) \/ EndLoop(r))
  /\ WF_vars(SumSends) /\ WF_vars(SumRecvs) /\ WF_vars(Return)

FairSpec == Spec /\ Fairness

-----------------------------------------------------------------------------

\* The sums never disagree the wrong way round (proc_group.hpp:362): a rank has
\* not counted what belongs to another barrier.
NeverAborts == \A r \in Ranks : pc[r] # "aborted"

\* When a rank returns from a barrier, everything that any rank sent before it
\* has been applied: what is on its way was sent after (proc_group.hpp:339-366).
AppliedBefore ==
  [][\A r \in Ranks : phase'[r] > phase[r] => \A s \in Ranks : flying[s] = 0]_vars

\* Every rank returns from all its barriers.
AllReturn == <>Terminated
=============================================================================
