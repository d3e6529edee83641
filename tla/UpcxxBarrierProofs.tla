------------------------ MODULE UpcxxBarrierProofs --------------------------
(***************************************************************************)
(* Proofs about UpcxxBarrier, for every team, any number of calls and any  *)
(* number of barriers.                                                     *)
(*                                                                         *)
(* A barrier has three stages, the same for all ranks.  While calls are    *)
(* sent, what is on its way and what is applied add up to what the ranks   *)
(* have counted as sent; while the received are counted, to the sum that   *)
(* every rank has.  A rank contributes no more than it has applied, so the *)
(* sum of the received reaches that of the sent only when nothing is on    *)
(* its way, and then nothing moves until the last barrier.                 *)
(***************************************************************************)
EXTENDS UpcxxBarrier, Lemmas

Numbers ==
  /\ pc \in [Ranks -> PC]
  /\ sent_ops \in [Ranks -> Nat] /\ recvd_ops \in [Ranks -> Nat] /\ flying \in [Ranks -> Nat]
  /\ local_recvd \in [Ranks -> Nat]
  /\ total_sends \in [Ranks -> Nat] /\ total_recvs \in [Ranks -> Nat]
  /\ adds \in [Ranks -> 0 .. MaxAdds] /\ phase \in [Ranks -> 0 .. MaxPhases]

Outstanding == Total(flying) + Total(recvd_ops)

\* What a rank has counted it has sent, and barriers are not exceeded.
Counted ==
  /\ \A r \in Ranks : sent_ops[r] <= adds[r]
  /\ \A r \in Ranks : pc[r] # "work" => phase[r] < MaxPhases
  /\ Outstanding <= Total(adds)
  /\ \A r \in Ranks : local_recvd[r] <= Total(adds)
  /\ \A r \in Ranks : total_sends[r] <= Total(adds) /\ total_recvs[r] <= Total(adds)

Sending ==
  /\ \A r \in Ranks : pc[r] \in {"work", "sum_sends"}
  /\ Outstanding = Total(sent_ops)

Counting ==
  \A r \in Ranks :
    /\ pc[r] \in {"loop", "sum_recvs", "compare"}
    /\ sent_ops[r] = 0
    /\ total_sends[r] = Outstanding
    /\ pc[r] # "loop" => local_recvd[r] <= recvd_ops[r]
    /\ pc[r] = "compare" => total_recvs[r] < total_sends[r]

Settled ==
  \A r \in Ranks :
    /\ pc[r] \in {"compare", "barrier"}
    /\ sent_ops[r] = 0 /\ flying[r] = 0
    /\ total_recvs[r] = total_sends[r]
    /\ pc[r] = "barrier" => recvd_ops[r] = 0

IInv == Numbers /\ Counted /\ (Sending \/ Counting \/ Settled)

-----------------------------------------------------------------------------
(* Sums over the team.                                                     *)

LEMMA TotalNat ==
  ASSUME NEW f \in [Ranks -> Nat]
  PROVE  Total(f) \in Nat /\ \A r \in Ranks : f[r] <= Total(f)
  <1>1. IsFiniteSet(Ranks) /\ \A r \in Ranks : f[r] \in Nat
    BY BarrierAssumption
  <1>2. QED
    BY <1>1, SumNat DEF Total

LEMMA TotalChange ==
  ASSUME NEW f \in [Ranks -> Nat], NEW r \in Ranks, NEW v \in Nat
  PROVE  Total([f EXCEPT ![r] = v]) = Total(f) + v - f[r]
  <1> DEFINE g == [f EXCEPT ![r] = v]
  <1>1. /\ IsFiniteSet(Ranks) /\ \A s \in Ranks : f[s] \in Int /\ g[s] \in Int
        /\ \A s \in Ranks \ {r} : g[s] = f[s]
        /\ g[r] = v
    BY BarrierAssumption
  <1> HIDE DEF g
  <1>2. SumFunctionOnSet(g, Ranks) = SumFunctionOnSet(f, Ranks) + g[r] - f[r]
    BY <1>1, SumChange
  <1>3. QED
    BY <1>1, <1>2 DEF Total, g

LEMMA TotalZero == \A f : (\A r \in Ranks : f[r] = 0) => Total(f) = 0
  BY BarrierAssumption, SumZero DEF Total

LEMMA TotalOrder ==
  ASSUME NEW f \in [Ranks -> Nat], NEW g \in [Ranks -> Nat], \A r \in Ranks : f[r] <= g[r]
  PROVE  Total(f) <= Total(g)
  <1>1. IsFiniteSet(Ranks) /\ \A r \in Ranks : f[r] \in Int /\ g[r] \in Int /\ f[r] <= g[r]
    BY BarrierAssumption
  <1>2. QED
    BY <1>1, SumMonotone DEF Total

-----------------------------------------------------------------------------
(* Every action keeps the invariant.                                       *)

LEMMA InitHolds == Init => IInv
  <1> SUFFICES ASSUME Init
               PROVE  IInv
    OBVIOUS
  <1>1. Numbers
    BY BarrierAssumption DEF Init, Numbers, Each, PC
  <1>2. \A f \in {sent_ops, recvd_ops, flying, local_recvd, total_sends, total_recvs, adds} :
          \A r \in Ranks : f[r] = 0
    BY DEF Init, Each
  <1>3. /\ Total(flying) = 0 /\ Total(recvd_ops) = 0 /\ Total(sent_ops) = 0
        /\ Total(adds) = 0
    BY <1>2, TotalZero
  <1>4. \A r \in Ranks : pc[r] = "work"
    BY DEF Init, Each
  <1>5. QED
    BY <1>1, <1>2, <1>3, <1>4 DEF IInv, Counted, Outstanding, Sending

\* What the totals are, and what they bound.
LEMMA Sums ==
  ASSUME IInv
  PROVE  /\ Total(flying) \in Nat /\ Total(recvd_ops) \in Nat /\ Total(sent_ops) \in Nat
         /\ Total(adds) \in Nat
         /\ Outstanding \in Nat
         /\ \A r \in Ranks : flying[r] <= Outstanding /\ recvd_ops[r] <= Outstanding
  <1>1. /\ flying \in [Ranks -> Nat] /\ recvd_ops \in [Ranks -> Nat]
        /\ sent_ops \in [Ranks -> Nat] /\ adds \in [Ranks -> Nat]
    BY DEF IInv, Numbers
  <1>2. /\ Total(flying) \in Nat /\ Total(recvd_ops) \in Nat /\ Total(sent_ops) \in Nat
        /\ Total(adds) \in Nat
        /\ \A r \in Ranks : flying[r] <= Total(flying) /\ recvd_ops[r] <= Total(recvd_ops)
    BY <1>1, TotalNat
  <1>3. \A r \in Ranks : flying[r] \in Nat /\ recvd_ops[r] \in Nat
    BY <1>1
  <1>4. QED
    BY <1>2, <1>3 DEF Outstanding

LEMMA AddKeeps ==
  ASSUME IInv, NEW r \in Ranks, NEW s \in Ranks, Add(r, s)
  PROVE  IInv'
  <1>1. /\ pc[r] = "work" /\ adds[r] < MaxAdds
        /\ flying' = [flying EXCEPT ![s] = flying[s] + 1]
        /\ sent_ops' = [sent_ops EXCEPT ![r] = sent_ops[r] + 1]
        /\ adds' = [adds EXCEPT ![r] = adds[r] + 1]
        /\ UNCHANGED <<recvd_ops, pc, local_recvd, total_sends, total_recvs, phase>>
    BY DEF Add
  <1>2. /\ Numbers /\ Counted /\ adds \in [Ranks -> Nat] /\ adds[r] \in Nat
        /\ flying[s] \in Nat /\ sent_ops[r] \in Nat /\ flying \in [Ranks -> Nat]
        /\ sent_ops \in [Ranks -> Nat] /\ recvd_ops \in [Ranks -> Nat]
    BY DEF IInv, Numbers
  <1>3. Sending
    BY <1>1 DEF IInv, Counting, Settled
  <1>4. Numbers'
    BY <1>1, <1>2, BarrierAssumption DEF Numbers
  <1>5. /\ Total(flying') = Total(flying) + 1
        /\ Total(sent_ops') = Total(sent_ops) + 1
        /\ Total(adds') = Total(adds) + 1
    <2>1. flying[s] + 1 \in Nat /\ sent_ops[r] + 1 \in Nat /\ adds[r] + 1 \in Nat
      BY <1>2
    <2>2. /\ Total(flying') = Total(flying) + (flying[s] + 1) - flying[s]
          /\ Total(sent_ops') = Total(sent_ops) + (sent_ops[r] + 1) - sent_ops[r]
          /\ Total(adds') = Total(adds) + (adds[r] + 1) - adds[r]
      BY <1>1, <1>2, <2>1, TotalChange, Zenon
    <2>3. QED
      BY <1>2, <2>2, Sums
  <1>6. Outstanding' = Outstanding + 1 /\ Total(sent_ops)' = Total(sent_ops) + 1
        /\ Total(adds)' = Total(adds) + 1
    BY <1>1, <1>5, Sums DEF Outstanding
  <1>7. Sending'
    BY <1>1, <1>3, <1>6 DEF Sending
  <1>8. Counted'
    <2>1. \A q \in Ranks : sent_ops'[q] <= adds'[q]
      BY <1>1, <1>2 DEF Counted
    <2>2. \A q \in Ranks : pc'[q] # "work" => phase'[q] < MaxPhases
      BY <1>1, <1>2 DEF Counted
    <2>3. Outstanding' <= Total(adds)'
      BY <1>2, <1>6, Sums DEF Counted
    <2>4. \A q \in Ranks : local_recvd[q] \in Nat /\ total_sends[q] \in Nat /\ total_recvs[q] \in Nat
      BY <1>2 DEF Numbers
    <2>5. \A q \in Ranks : /\ local_recvd'[q] <= Total(adds)' /\ total_sends'[q] <= Total(adds)'
                           /\ total_recvs'[q] <= Total(adds)'
      BY <1>1, <1>2, <1>6, <2>4, Sums DEF Counted
    <2>6. QED
      BY <2>1, <2>2, <2>3, <2>5 DEF Counted
  <1>9. QED
    BY <1>4, <1>7, <1>8 DEF IInv

LEMMA ApplyKeeps ==
  ASSUME IInv, NEW s \in Ranks, Apply(s)
  PROVE  IInv'
  <1>1. /\ flying[s] > 0
        /\ flying' = [flying EXCEPT ![s] = flying[s] - 1]
        /\ recvd_ops' = [recvd_ops EXCEPT ![s] = recvd_ops[s] + 1]
        /\ UNCHANGED <<sent_ops, pc, local_recvd, total_sends, total_recvs, adds, phase>>
    BY DEF Apply
  <1>2. /\ Numbers /\ Counted /\ flying \in [Ranks -> Nat] /\ recvd_ops \in [Ranks -> Nat]
        /\ flying[s] \in Nat /\ recvd_ops[s] \in Nat /\ flying[s] - 1 \in Nat
    BY <1>1 DEF IInv, Numbers
  <1>3. Numbers'
    BY <1>1, <1>2 DEF Numbers
  <1>4. Outstanding' = Outstanding
    <2>1. recvd_ops[s] + 1 \in Nat
      BY <1>2
    <2>2. /\ Total(flying') = Total(flying) + (flying[s] - 1) - flying[s]
          /\ Total(recvd_ops') = Total(recvd_ops) + (recvd_ops[s] + 1) - recvd_ops[s]
      BY <1>1, <1>2, <2>1, TotalChange, Zenon
    <2>3. QED
      BY <1>2, <2>2, Sums DEF Outstanding
  <1>5. Counted'
    BY <1>1, <1>2, <1>4 DEF Counted
  <1>6. CASE Sending
    <2>1. Sending'
      BY <1>1, <1>4, <1>6 DEF Sending
    <2>2. QED
      BY <1>3, <1>5, <2>1 DEF IInv
  <1>7. CASE Counting
    <2>1. \A q \in Ranks : recvd_ops[q] \in Nat /\ recvd_ops[q] <= recvd_ops'[q]
                           /\ recvd_ops'[q] \in Nat /\ local_recvd[q] \in Nat
      BY <1>1, <1>2 DEF Numbers
    <2>2. \A q \in Ranks : local_recvd[q] <= recvd_ops[q] => local_recvd[q] <= recvd_ops'[q]
      BY <2>1
    <2>3. Counting'
      BY <1>1, <1>4, <1>7, <2>2 DEF Counting
    <2>4. QED
      BY <1>3, <1>5, <2>3 DEF IInv
  <1>8. CASE Settled
    BY <1>1, <1>8 DEF Settled
  <1>9. QED
    BY <1>6, <1>7, <1>8 DEF IInv

LEMMA EnterBarrierKeeps ==
  ASSUME IInv, NEW r \in Ranks, EnterBarrier(r)
  PROVE  IInv'
  <1>1. /\ pc[r] = "work" /\ phase[r] < MaxPhases /\ pc' = [pc EXCEPT ![r] = "sum_sends"]
        /\ UNCHANGED <<sent_ops, recvd_ops, flying, local_recvd, total_sends, total_recvs,
                       adds, phase>>
    BY DEF EnterBarrier
  <1>2. Numbers /\ Counted /\ Sending
    BY <1>1 DEF IInv, Counting, Settled
  <1>3. Numbers'
    BY <1>1, <1>2 DEF Numbers, PC
  <1>4. \A q \in Ranks : pc'[q] = IF q = r THEN "sum_sends" ELSE pc[q]
    BY <1>1, <1>2 DEF Numbers
  <1>5. Counted' /\ Sending'
    BY <1>1, <1>2, <1>4 DEF Counted, Sending, Outstanding
  <1>6. QED
    BY <1>3, <1>5 DEF IInv

LEMMA SumSendsKeeps ==
  ASSUME IInv, SumSends
  PROVE  IInv'
  <1>1. /\ \A r \in Ranks : pc[r] = "sum_sends"
        /\ total_sends' = Each(Total(sent_ops)) /\ sent_ops' = Each(0) /\ pc' = Each("loop")
        /\ UNCHANGED <<recvd_ops, flying, local_recvd, total_recvs, adds, phase>>
    BY DEF SumSends, Together
  <1>2. Numbers /\ Counted
    BY DEF IInv
  <1>3. Sending
    BY <1>1, BarrierAssumption DEF IInv, Counting, Settled
  <1>4. Total(sent_ops) \in Nat /\ Total(sent_ops) = Outstanding
    BY <1>3, Sums DEF Sending
  <1>5. \A r \in Ranks : total_sends'[r] = Outstanding /\ sent_ops'[r] = 0 /\ pc'[r] = "loop"
    BY <1>1, <1>4 DEF Each
  <1>6. Numbers'
    BY <1>1, <1>2, <1>4 DEF Numbers, Each, PC
  <1>7. Outstanding' = Outstanding
    BY <1>1 DEF Outstanding
  <1>8. Counting'
    BY <1>5, <1>7 DEF Counting
  <1>9. Counted'
    <2>1. \A r \in Ranks : adds[r] \in Nat
      BY <1>2 DEF Numbers
    <2>2. QED
      BY <1>1, <1>2, <1>5, <1>7, <2>1 DEF Counted
  <1>10. QED
    BY <1>6, <1>8, <1>9 DEF IInv

LEMMA RepeatKeeps ==
  ASSUME IInv, NEW r \in Ranks, Repeat(r)
  PROVE  IInv'
  <1>1. /\ pc[r] = "loop" \/ (pc[r] = "compare" /\ total_recvs[r] < total_sends[r])
        /\ local_recvd' = [local_recvd EXCEPT ![r] = recvd_ops[r]]
        /\ pc' = [pc EXCEPT ![r] = "sum_recvs"]
        /\ UNCHANGED <<sent_ops, recvd_ops, flying, total_sends, total_recvs, adds, phase>>
    BY DEF Repeat
  <1>2. Numbers /\ Counted /\ recvd_ops[r] \in Nat /\ \A q \in Ranks : total_sends[q] \in Nat
    BY DEF IInv, Numbers
  <1>3. Counting
    <2>1. ~Sending
      BY <1>1 DEF Sending
    <2>2. ~Settled
      BY <1>1, <1>2 DEF Settled
    <2>3. QED
      BY <2>1, <2>2 DEF IInv
  <1>4. Numbers'
    BY <1>1, <1>2 DEF Numbers, PC
  <1>5. \A q \in Ranks : /\ pc'[q] = IF q = r THEN "sum_recvs" ELSE pc[q]
                         /\ local_recvd'[q] = IF q = r THEN recvd_ops[q] ELSE local_recvd[q]
    BY <1>1, <1>2 DEF Numbers
  <1>6. Outstanding' = Outstanding
    BY <1>1 DEF Outstanding
  <1>7. Counting'
    BY <1>1, <1>2, <1>3, <1>5, <1>6 DEF Counting
  <1>8. Counted'
    <2>1. recvd_ops[r] <= Total(adds)
      BY <1>2, Sums DEF Counted
    <2>2. \A q \in Ranks : pc'[q] # "work" => phase'[q] < MaxPhases
      BY <1>1, <1>2, <1>5 DEF Counted
    <2>3. QED
      BY <1>1, <1>2, <1>5, <1>6, <2>1, <2>2 DEF Counted
  <1>9. QED
    BY <1>4, <1>7, <1>8 DEF IInv

LEMMA SumRecvsKeeps ==
  ASSUME IInv, SumRecvs
  PROVE  IInv'
  <1> DEFINE u == Total(local_recvd)
  <1>1. /\ \A r \in Ranks : pc[r] = "sum_recvs"
        /\ total_recvs' = Each(u) /\ pc' = Each("compare")
        /\ UNCHANGED <<sent_ops, recvd_ops, flying, local_recvd, total_sends, adds, phase>>
    BY DEF SumRecvs, Together
  <1>2. /\ Numbers /\ Counted /\ flying \in [Ranks -> Nat]
        /\ local_recvd \in [Ranks -> Nat] /\ recvd_ops \in [Ranks -> Nat]
    BY DEF IInv, Numbers
  <1>3. Counting
    BY <1>1, BarrierAssumption DEF IInv, Sending, Settled
  <1>4. u \in Nat /\ u <= Total(recvd_ops)
    <2>1. \A r \in Ranks : local_recvd[r] <= recvd_ops[r]
      BY <1>1, <1>3 DEF Counting
    <2>2. QED
      BY <1>2, <2>1, TotalNat, TotalOrder
  <1> HIDE DEF u
  <1>5. u <= Outstanding
    BY <1>4, Sums DEF Outstanding
  <1>6. \A r \in Ranks : total_recvs'[r] = u /\ pc'[r] = "compare"
    BY <1>1 DEF Each
  <1>7. Numbers'
    BY <1>1, <1>2, <1>4 DEF Numbers, Each, PC
  <1>8. Outstanding' = Outstanding
    BY <1>1 DEF Outstanding
  <1>9. Counted'
    <2>1. u <= Total(adds)
      BY <1>2, <1>4, <1>5, Sums DEF Counted
    <2>2. \A r \in Ranks : phase[r] < MaxPhases
      BY <1>1, <1>2 DEF Counted
    <2>3. QED
      BY <1>1, <1>2, <1>6, <1>8, <2>1, <2>2 DEF Counted
  <1>10. CASE u < Outstanding
    <2>1. Counting'
      BY <1>1, <1>3, <1>6, <1>8, <1>10 DEF Counting
    <2>2. QED
      BY <1>7, <1>9, <2>1 DEF IInv
  <1>11. CASE u = Outstanding
    <2>1. Total(flying) = 0
      BY <1>4, <1>11, Sums DEF Outstanding
    <2>2. \A r \in Ranks : flying[r] = 0
      <3>1. \A r \in Ranks : flying[r] <= 0 /\ flying[r] \in Nat
        BY <1>2, <2>1, TotalNat
      <3>2. QED
        BY <3>1
    <2>3. Settled'
      BY <1>1, <1>3, <1>6, <1>11, <2>2 DEF Counting, Settled
    <2>4. QED
      BY <1>7, <1>9, <2>3 DEF IInv
  <1>12. QED
    BY <1>4, <1>5, <1>10, <1>11, Sums

LEMMA EndLoopKeeps ==
  ASSUME IInv, NEW r \in Ranks, EndLoop(r)
  PROVE  IInv'
  <1>1. /\ pc[r] = "compare" /\ total_recvs[r] >= total_sends[r]
        /\ UNCHANGED <<sent_ops, flying, local_recvd, total_sends, total_recvs, adds, phase>>
    BY DEF EndLoop
  <1>2. /\ Numbers /\ Counted /\ total_recvs[r] \in Nat /\ total_sends[r] \in Nat
        /\ recvd_ops \in [Ranks -> Nat] /\ recvd_ops[r] \in Nat
    BY DEF IInv, Numbers
  <1>3. Settled
    <2>1. ~Sending
      BY <1>1 DEF Sending
    <2>2. ~Counting
      BY <1>1, <1>2 DEF Counting
    <2>3. QED
      BY <2>1, <2>2 DEF IInv
  <1>4. pc' = [pc EXCEPT ![r] = "barrier"] /\ recvd_ops' = [recvd_ops EXCEPT ![r] = 0]
    <2>1. total_recvs[r] = total_sends[r]
      BY <1>3 DEF Settled
    <2>2. QED
      BY <2>1 DEF EndLoop
  <1>5. Numbers'
    BY <1>1, <1>2, <1>4 DEF Numbers, PC
  <1>6. \A q \in Ranks : /\ pc'[q] = IF q = r THEN "barrier" ELSE pc[q]
                         /\ recvd_ops'[q] = IF q = r THEN 0 ELSE recvd_ops[q]
    BY <1>2, <1>4 DEF Numbers
  <1>7. Settled'
    BY <1>1, <1>3, <1>6 DEF Settled
  <1>8. Outstanding' <= Outstanding /\ Outstanding' \in Int
    <2>1. Total(recvd_ops') = Total(recvd_ops) + 0 - recvd_ops[r]
      BY <1>2, <1>4, TotalChange
    <2>2. Total(flying') = Total(flying)
      BY <1>1
    <2>3. QED
      BY <1>2, <2>1, <2>2, Sums DEF Outstanding
  <1>9. Counted'
    <2>1. Outstanding' <= Total(adds)
      BY <1>2, <1>8, Sums DEF Counted
    <2>2. \A q \in Ranks : pc'[q] # "work" => phase'[q] < MaxPhases
      BY <1>1, <1>2, <1>6 DEF Counted
    <2>3. QED
      BY <1>1, <1>2, <2>1, <2>2 DEF Counted
  <1>10. QED
    BY <1>5, <1>7, <1>9 DEF IInv

LEMMA ReturnKeeps ==
  ASSUME IInv, Return
  PROVE  IInv' /\ \A s \in Ranks : flying[s] = 0
  <1>1. /\ \A r \in Ranks : pc[r] = "barrier"
        /\ pc' = Each("work") /\ phase' = [r \in Ranks |-> phase[r] + 1]
        /\ UNCHANGED <<sent_ops, recvd_ops, flying, local_recvd, total_sends, total_recvs, adds>>
    BY DEF Return, Together
  <1>2. Numbers /\ Counted
    BY DEF IInv
  <1>3. Settled
    BY <1>1, BarrierAssumption DEF IInv, Sending, Counting
  <1>4. \A r \in Ranks : phase[r] + 1 \in 0 .. MaxPhases
    <2>1. \A r \in Ranks : phase[r] \in 0 .. MaxPhases /\ phase[r] < MaxPhases
      BY <1>1, <1>2 DEF Numbers, Counted
    <2>2. QED
      BY <2>1, BarrierAssumption
  <1>5. Numbers'
    BY <1>1, <1>2, <1>4 DEF Numbers, Each, PC
  <1>6. \A r \in Ranks : pc'[r] = "work"
    BY <1>1 DEF Each
  <1>7. \A r \in Ranks : flying[r] = 0 /\ recvd_ops[r] = 0 /\ sent_ops[r] = 0
    BY <1>1, <1>3 DEF Settled
  <1>8. Total(flying) = 0 /\ Total(recvd_ops) = 0 /\ Total(sent_ops) = 0
    BY <1>7, TotalZero
  <1>9. Sending'
    BY <1>1, <1>6, <1>8 DEF Sending, Outstanding
  <1>10. Counted'
    BY <1>1, <1>2, <1>6 DEF Counted, Outstanding
  <1>11. QED
    BY <1>5, <1>7, <1>9, <1>10 DEF IInv

LEMMA StepKeeps ==
  ASSUME IInv, [Next]_vars
  PROVE  IInv'
  <1>1. CASE UNCHANGED vars
    BY <1>1 DEF vars, IInv, Numbers, Counted, Outstanding, Sending, Counting, Settled
  <1>2. QED
    BY <1>1, AddKeeps, ApplyKeeps, EnterBarrierKeeps, SumSendsKeeps, RepeatKeeps, SumRecvsKeeps,
       EndLoopKeeps, ReturnKeeps, Zenon DEF Next

THEOREM Invariance == Spec => []IInv
  <1>1. QED
    BY InitHolds, StepKeeps, PTL DEF Spec

-----------------------------------------------------------------------------

\* Type correctness of barrier(): no counter exceeds the number of calls.
THEOREM TypeCorrect == Spec => []TypeOK
  <1>1. ASSUME IInv
        PROVE  TypeOK
    <2> DEFINE n == MaxAdds * Cardinality(Ranks)
    <2>1. /\ Numbers /\ Counted /\ adds \in [Ranks -> Nat]
          /\ \A r \in Ranks : adds[r] \in 0 .. MaxAdds
      BY <1>1 DEF IInv, Numbers
    <2>2. Total(adds) \in Nat /\ Total(adds) <= n
      <3>1. IsFiniteSet(Ranks) /\ MaxAdds \in Nat
            /\ \A r \in Ranks : adds[r] \in Int /\ adds[r] <= MaxAdds
        BY <2>1, BarrierAssumption
      <3>2. QED
        BY <2>1, <3>1, SumAtMost, TotalNat DEF Total
    <2>3. n \in Nat
      BY BarrierAssumption, FS_CardinalityType
    <2> HIDE DEF n
    <2>4. \A f \in {recvd_ops, flying, local_recvd, total_sends, total_recvs} :
            f \in [Ranks -> Nat] /\ \A r \in Ranks : f[r] <= n
      <3>1. \A r \in Ranks : flying[r] <= Outstanding /\ recvd_ops[r] <= Outstanding
                             /\ Outstanding \in Nat /\ Outstanding <= n
        BY <1>1, <2>1, <2>2, <2>3, Sums DEF Counted
      <3>2. \A r \in Ranks : flying[r] <= n /\ recvd_ops[r] <= n
        <4>1. \A r \in Ranks : flying[r] \in Nat /\ recvd_ops[r] \in Nat
          BY <2>1 DEF Numbers
        <4>2. QED
          BY <2>3, <3>1, <4>1
      <3>3. \A r \in Ranks : local_recvd[r] <= n /\ total_sends[r] <= n /\ total_recvs[r] <= n
        <4>1. \A r \in Ranks : local_recvd[r] \in Nat /\ total_sends[r] \in Nat /\ total_recvs[r] \in Nat
          BY <2>1 DEF Numbers
        <4>2. QED
          BY <2>1, <2>2, <2>3, <4>1 DEF Counted
      <3>4. QED
        BY <2>1, <3>2, <3>3 DEF Numbers
    <2>5. \A f \in {recvd_ops, flying, local_recvd, total_sends, total_recvs} :
            f \in [Ranks -> 0 .. n]
      BY <2>3, <2>4
    <2>6. sent_ops \in [Ranks -> 0 .. MaxAdds]
      <3>1. \A r \in Ranks : sent_ops[r] \in Nat /\ sent_ops[r] <= adds[r]
        BY <2>1 DEF Numbers, Counted
      <3>2. \A r \in Ranks : sent_ops[r] \in 0 .. MaxAdds
        BY <2>1, <3>1, BarrierAssumption
      <3>3. QED
        BY <2>1, <3>2 DEF Numbers
    <2>7. QED
      BY <2>1, <2>5, <2>6 DEF TypeOK, Numbers, n
  <1>2. QED
    BY <1>1, Invariance, PTL

\* No rank ever counts more received than sent: the program is not aborted in a
\* barrier, for any team and any calls (proc_group.hpp:362).
THEOREM NeverAbortsCorrect == Spec => []NeverAborts
  <1>1. IInv => NeverAborts
    BY DEF IInv, Sending, Counting, Settled, NeverAborts
  <1>2. QED
    BY <1>1, Invariance, PTL

\* When the ranks return from a barrier everything sent before it has been applied,
\* for any team and any calls (proc_group.hpp:339-366).
THEOREM AppliedBeforeCorrect == Spec => AppliedBefore
  <1>1. ASSUME IInv, [Next]_vars, NEW r \in Ranks, phase'[r] > phase[r], NEW s \in Ranks
        PROVE  flying[s] = 0
    <2>1. phase[r] \in Nat
      BY <1>1 DEF IInv, Numbers
    <2>2. CASE Return
      BY <1>1, <2>2, ReturnKeeps
    <2>3. CASE UNCHANGED phase
      BY <1>1, <2>1, <2>3
    <2>4. Return \/ UNCHANGED phase
      BY <1>1 DEF Next, vars, Add, Apply, EnterBarrier, SumSends, Repeat, SumRecvs, EndLoop
    <2>5. QED
      BY <2>2, <2>3, <2>4
  <1>2. IInv /\ [Next]_vars =>
          [\A r \in Ranks : phase'[r] > phase[r] => \A s \in Ranks : flying[s] = 0]_vars
    BY <1>1
  <1>3. QED
    BY <1>2, Invariance, PTL DEF Spec, AppliedBefore
=============================================================================
