-------------------------- MODULE LevelizeProofs ----------------------------
(***************************************************************************)
(* Proofs about Levelize, for every program and every range of it: the     *)
(* loops compute a levelling, the levels along the sorted order rise by    *)
(* at most one, and execution by levels gives the tensors the values that  *)
(* the operations compute one after the other in program order.            *)
(*                                                                         *)
(* The inductive invariant says what the loops have established so far:    *)
(* the pairs already compared respect the dependence, and whatever raised  *)
(* a level lies in the rows already visited, whose own levels are final.   *)
(***************************************************************************)
EXTENDS Levelize, Lemmas

Compared(a, b) == pc # "loop" \/ a < i \/ (a = i /\ b < j)

Respected ==
  \A a, b \in OpRange : Before(ops, a, b) /\ Compared(a, b) => level[a] < level[b]

Tight ==
  \A b \in OpRange :
    level[b] = 0 \/ \E a \in OpRange : /\ a <= i
                                     /\ Before(ops, a, b)
                                     /\ level[b] = level[a] + 1

Sorted == pc = "done" => IsOrdering(OpRange, level, order)

IInv == TypeOK /\ Respected /\ Tight /\ Sorted

LEMMA InitIInv == Init => IInv
  BY LevelizeAssumption
     DEF Init, IInv, TypeOK, Respected, Tight, Sorted, Compared, Before, OpRange

\* Compare looks at two operations of the range, the later one second.
LEMMA Indices ==
  ASSUME TypeOK, i < Last, j <= Last
  PROVE  i \in OpRange /\ j \in OpRange /\ i < j
  BY LevelizeAssumption DEF TypeOK, OpRange

LEMMA CompareTypeOK == TypeOK /\ Compare => TypeOK'
  <1> SUFFICES ASSUME TypeOK, Compare PROVE TypeOK'
    OBVIOUS
  <1>1. i < Last /\ j <= Last /\ i' = i /\ j' = j + 1 /\ ops' = ops /\ order' = order /\ pc' = pc
    BY DEF Compare
  <1>2. i \in OpRange /\ j \in OpRange /\ i < j
    BY <1>1, Indices
  <1>3. level' \in [OpRange -> Nat]
    <2>1. level \in [OpRange -> Nat] /\ level[i] + 1 \in Nat
      BY <1>2 DEF TypeOK
    <2>2. level' = level \/ level' = [level EXCEPT ![j] = level[i] + 1]
      BY Zenon DEF Compare
    <2>3. QED
      BY <2>1, <2>2
  <1>4. j' \in First + 1 .. Last + 1 /\ i' < j'
    BY <1>1, <1>2, LevelizeAssumption DEF OpRange
  <1>5. QED
    BY <1>1, <1>3, <1>4 DEF TypeOK

LEMMA NextRowTypeOK == TypeOK /\ NextRow => TypeOK'
  <1> SUFFICES ASSUME TypeOK, NextRow PROVE TypeOK'
    OBVIOUS
  <1>1. i \in OpRange /\ i < Last /\ i' = i + 1 /\ j' = i + 2
    BY DEF NextRow, TypeOK
  <1>2. i' \in OpRange /\ j' \in First + 1 .. Last + 1 /\ i' < j'
    BY <1>1, LevelizeAssumption DEF OpRange
  <1>3. QED
    BY <1>2 DEF NextRow, TypeOK

LEMMA StepTypeOK == TypeOK /\ [Next]_vars => TypeOK'
  <1>1. TypeOK /\ EndLoops => TypeOK'
    BY DEF EndLoops, TypeOK
  <1>2. TypeOK /\ Sort => TypeOK'
    BY DEF Sort, TypeOK
  <1>3. TypeOK /\ UNCHANGED vars => TypeOK'
    BY DEF vars, TypeOK
  <1>4. QED
    BY <1>1, <1>2, <1>3, CompareTypeOK, NextRowTypeOK DEF Next

LEMMA CompareStep == IInv /\ TypeOK' /\ Compare => Respected' /\ Tight'
  <1> SUFFICES ASSUME IInv, TypeOK', Compare PROVE Respected' /\ Tight'
    OBVIOUS
  <1>0. \A a \in OpRange : a \in Int
    BY LevelizeAssumption DEF OpRange
  <1>1. i \in OpRange /\ j \in OpRange /\ i < j /\ i < Last /\ level \in [OpRange -> Nat]
    <2>1. TypeOK /\ i < Last /\ j <= Last
      BY DEF IInv, Compare
    <2>2. level \in [OpRange -> Nat]
      BY <2>1 DEF TypeOK
    <2>3. QED
      BY <2>1, <2>2, Indices
  <1>2. i' = i /\ j' = j + 1 /\ ops' = ops /\ pc' = pc
    BY DEF Compare
  <1>3. \A a, b : Before(ops, a, b)' <=> Before(ops, a, b)
    BY <1>2 DEF Before
  <1>4. \A a, b \in OpRange : Compared(a, b)' => Compared(a, b) \/ (a = i /\ b = j)
    BY <1>0, <1>1, <1>2 DEF Compared
  <1>5. CASE HasDependence(ops[i], ops[j]) /\ level[i] + 1 > level[j]
    <2>1. level' = [level EXCEPT ![j] = level[i] + 1]
      BY <1>5 DEF Compare
    <2>2. \A a \in OpRange : a # j => level'[a] = level[a]
      BY <1>1, <2>1
    <2>3. level'[j] = level[i] + 1 /\ level'[j] > level[j]
      BY <1>1, <1>5, <2>1
    <2>4. \A a \in OpRange : level[a] \in Nat
      BY <1>1
    <2>5. Respected'
      <3> SUFFICES ASSUME NEW a \in OpRange, NEW b \in OpRange, Before(ops, a, b), Compared(a, b)'
                   PROVE  level'[a] < level'[b]
        BY <1>3, Zenon DEF Respected
      <3>1. a < b
        BY DEF Before
      <3>2. CASE a = i /\ b = j
        BY <1>0, <1>1, <2>2, <2>3, <2>4, <3>1, <3>2
      <3>3. CASE ~(a = i /\ b = j)
        <4>1. Compared(a, b)
          BY <1>4, <3>3
        <4>2. level[a] < level[b]
          BY <4>1 DEF IInv, Respected
        <4>3. a # j
          BY <1>0, <1>1, <3>1, <4>1 DEF Compared, Compare
        <4>4. level'[a] = level[a] /\ level'[b] >= level[b]
          BY <1>1, <2>2, <2>3, <2>4, <4>3
        <4>5. level'[b] \in Int
          BY <1>1, <2>2, <2>3, <2>4
        <4>6. QED
          BY <2>4, <4>2, <4>4, <4>5
      <3>4. QED
        BY <3>2, <3>3
    <2>6. Tight'
      <3> SUFFICES ASSUME NEW b \in OpRange, level'[b] # 0
                   PROVE  \E a \in OpRange : a <= i /\ Before(ops, a, b) /\ level'[b] = level'[a] + 1
        BY <1>2, <1>3, Zenon DEF Tight
      <3>1. CASE b = j
        <4>1. Before(ops, i, j) /\ i # j /\ i <= i
          BY <1>0, <1>1, <1>5 DEF Before
        <4>2. QED
          BY <1>1, <2>2, <2>3, <3>1, <4>1
      <3>2. CASE b # j
        <4>1. PICK a \in OpRange : a <= i /\ Before(ops, a, b) /\ level[b] = level[a] + 1
          BY <2>2, <3>2 DEF IInv, Tight
        <4>2. a # j
          BY <1>0, <1>1, <4>1
        <4>3. QED
          BY <2>2, <3>2, <4>1, <4>2
      <3>3. QED
        BY <3>1, <3>2
    <2>7. QED
      BY <2>5, <2>6
  <1>6. CASE ~(HasDependence(ops[i], ops[j]) /\ level[i] + 1 > level[j])
    <2>1. level' = level
      BY <1>6 DEF Compare
    <2>2. Before(ops, i, j) => level[i] < level[j]
      BY <1>1, <1>6 DEF Before
    <2>3. Respected'
      BY <1>2, <1>3, <1>4, <2>1, <2>2 DEF IInv, Respected
    <2>4. Tight'
      BY <1>2, <1>3, <2>1 DEF IInv, Tight
    <2>5. QED
      BY <2>3, <2>4
  <1>7. QED
    BY <1>5, <1>6

LEMMA OtherSteps ==
  IInv /\ TypeOK' /\ (NextRow \/ EndLoops \/ Sort \/ UNCHANGED vars) => Respected' /\ Tight' /\ Sorted'
  <1> SUFFICES ASSUME IInv, NextRow \/ EndLoops \/ Sort \/ UNCHANGED vars
               PROVE  Respected' /\ Tight' /\ Sorted'
    OBVIOUS
  <1>1. level' = level /\ ops' = ops
    BY DEF NextRow, EndLoops, Sort, vars
  <1>2. \A a, b : Before(ops, a, b)' <=> Before(ops, a, b)
    BY <1>1 DEF Before
  <1> DEFINE S == First .. Last
  <1>3. i \in S /\ (i' = i \/ i' = i + 1) /\ j \in First + 1 .. Last + 1 /\ OpRange = S
    BY DEF NextRow, EndLoops, Sort, vars, IInv, TypeOK, OpRange
  <1>4. \A a, b \in OpRange : Before(ops, a, b) /\ Compared(a, b)' => Compared(a, b)
    <2> SUFFICES ASSUME NEW a \in S, NEW b \in S, a < b, Compared(a, b)' PROVE Compared(a, b)
      BY <1>3 DEF Before
    <2>1. CASE NextRow
      BY <1>3, <2>1, LevelizeAssumption DEF NextRow, Compared
    <2>2. CASE EndLoops
      BY <1>3, <2>2, LevelizeAssumption DEF EndLoops, Compared
    <2>3. CASE Sort \/ UNCHANGED vars
      BY <2>3 DEF Sort, vars, Compared
    <2>4. QED
      BY <2>1, <2>2, <2>3
  <1>5. Respected'
    BY <1>1, <1>2, <1>4 DEF IInv, Respected
  <1>6. Tight'
    <2> SUFFICES ASSUME NEW b \in OpRange, level[b] # 0
                 PROVE  \E a \in OpRange : a <= i' /\ Before(ops, a, b) /\ level[b] = level[a] + 1
      BY <1>1, <1>2, Zenon DEF Tight
    <2>1. PICK a \in OpRange : a <= i /\ Before(ops, a, b) /\ level[b] = level[a] + 1
      BY DEF IInv, Tight
    <2>2. a <= i'
      BY <1>3, <2>1, LevelizeAssumption
    <2>3. QED
      BY <2>1, <2>2
  <1>7. Sorted'
    BY <1>1 DEF IInv, Sorted, NextRow, EndLoops, Sort, vars, IsOrdering
  <1>8. QED
    BY <1>5, <1>6, <1>7

LEMMA Invariance == Spec => []IInv
  <1>1. IInv /\ [Next]_vars => IInv'
    <2> SUFFICES ASSUME IInv, [Next]_vars PROVE IInv'
      OBVIOUS
    <2>1. TypeOK'
      BY StepTypeOK DEF IInv
    <2>2. CASE Compare
      BY <2>1, <2>2, CompareStep DEF IInv, Sorted, Compare
    <2>3. CASE ~Compare
      BY <2>1, <2>3, OtherSteps DEF IInv, Next, vars
    <2>4. QED
      BY <2>2, <2>3
  <1>2. QED
    BY InitIInv, <1>1, PTL DEF Spec

\* The loop indices and levels stay in range; no index leaves the range of the
\* operations (scheduler.hpp:148-150).
THEOREM TypeCorrect == Spec => []TypeOK
  BY Invariance, PTL DEF IInv

\* The loops compute a levelling of the operations: the least one that puts every
\* operation above those it depends on (scheduler.hpp:148-154).
THEOREM LevelsAreCorrect == Spec => []LevelsCorrect
  <1>1. IInv => LevelsCorrect
    BY DEF IInv, TypeOK, Respected, Tight, Compared, LevelsCorrect, IsLevelling
  <1>2. QED
    BY <1>1, Invariance, PTL

\* The assertions of execute() on the levels hold (scheduler.hpp:229, 232).
THEOREM LevelsRiseByOne == Spec => []RisesByOne
  <1>1. IInv => RisesByOne
    <2> SUFFICES ASSUME IInv, pc = "done"
                 PROVE  /\ level[order[First]] = 0
                        /\ \A k \in First .. Last - 1 :
                             level[order[k + 1]] <= level[order[k]] + 1
      BY DEF RisesByOne
    <2>1. IsLevelling(ops, First .. Last, level) /\ IsOrdering(First .. Last, level, order)
      BY DEF IInv, TypeOK, Respected, Tight, Sorted, Compared, IsLevelling, OpRange
    <2>2. level \in [First .. Last -> Nat]
      BY DEF IInv, TypeOK, OpRange
    <2>3. First \in Int /\ Last \in Int /\ First <= Last
      BY LevelizeAssumption
    <2>4. /\ \A b \in First .. Last :
               level[b] = 0 \/ \E a \in First .. Last : level[b] = level[a] + 1
          /\ \A k \in First .. Last : level[k] \in Nat
      BY <2>1, <2>2 DEF IsLevelling
    <2>5. /\ \A k \in First .. Last : order[k] \in First .. Last
          /\ \A o \in First .. Last : \E k \in First .. Last : order[k] = o
          /\ \A k, l \in First .. Last : k < l => level[order[k]] <= level[order[l]]
      BY <2>1, Zenon DEF IsOrdering
    <2>6. QED
      BY <2>3, <2>4, <2>5, OrderRisesByOne, Zenon
  <1>2. QED
    BY <1>1, Invariance, PTL

-----------------------------------------------------------------------------
(* The meaning of a program.  The operations are numbered from 1, and      *)
(* executed in an order p in which none comes before one that it depends   *)
(* on.  What is in a tensor at any time is then what the operations done   *)
(* so far do to it one after the other in the order of the program, each   *)
(* with the operands that it has in the program.                           *)

N == Last - First + 1
Nth(n) == First + n - 1
Oper(n) == ops[Nth(n)]
States == [mem : [Tensors -> Int], seen : [OpRange -> Int]]

\* f holds the states of an execution in the order p.
Along(f, p) ==
  /\ f \in [0 .. N -> States] /\ f[0] = Start
  /\ \A n \in 1 .. N : f[n] = Apply(Oper(p[n]), Nth(p[n]), f[n - 1])

DependsOn(n, m) == m < n /\ HasDependence(Oper(m), Oper(n))

\* An order that respects the dependences.
Sound(p) ==
  /\ p \in [1 .. N -> 1 .. N]
  /\ \A n \in 1 .. N : \E m \in 1 .. N : p[m] = n
  /\ \A m, n \in 1 .. N : m < n => p[m] # p[n] /\ ~DependsOn(p[m], p[n])

Changing(op, t) == op.kind # "scan" /\ op.lhs = t
Resetting(op) == op.kind \in {"alloc", "dealloc"} \/ op.assign
Amount(op, k, mem) == IF op.kind \in {"alloc", "dealloc"} THEN -k ELSE Value(op, k, mem)

LEMMA OpFacts ==
  ASSUME NEW op \in Op
  PROVE  /\ op.kind \in Kinds /\ op.lhs \in Tensors /\ op.rhs \in SUBSET Tensors
         /\ op.assign \in BOOLEAN /\ IsFiniteSet(op.rhs) /\ (op.kind = "mult" => op.rhs # {})
  BY MeaningAssumption DEF OpsOn

\* The operands of a product are tensors that it reads.
LEMMA ProductFacts ==
  ASSUME NEW S \in SUBSET Tensors, S # {}, NEW f \in [Tensors -> Int], NEW g \in [Tensors -> Int],
         \A t \in S : f[t] = g[t]
  PROVE  Product(f, S) \in Int /\ Product(f, S) = Product(g, S)
  <1> DEFINE a == CHOOSE t \in S : TRUE
             b == IF S = {a} THEN a ELSE CHOOSE t \in S \ {a} : TRUE
  <1>1. a \in S
    OBVIOUS
  <1>2. b \in S
    <2>1. CASE S = {a}
      BY <1>1, <2>1
    <2>2. CASE S # {a}
      <3>1. S \ {a} # {}
        BY <1>1, <2>2
      <3>2. (CHOOSE t \in S \ {a} : TRUE) \in S \ {a}
        BY <3>1
      <3>3. QED
        BY <2>2, <3>2
    <2>3. QED
      BY <2>1, <2>2
  <1>3. Product(f, S) = f[a] * f[b] /\ Product(g, S) = g[a] * g[b]
    BY DEF Product
  <1> HIDE DEF a, b
  <1>4. f[a] = g[a] /\ f[b] = g[b] /\ f[a] \in Int /\ f[b] \in Int
    BY <1>1, <1>2
  <1>5. f[a] * f[b] \in Int
    BY <1>4
  <1>6. QED
    BY <1>3, <1>4, <1>5

\* The amount is a number, and depends on the tensors that are read only.
LEMMA AmountFacts ==
  ASSUME NEW op \in Op, op.kind # "scan", NEW k \in OpRange,
         NEW f \in [Tensors -> Int], NEW g \in [Tensors -> Int], \A t \in Reads(op) : f[t] = g[t]
  PROVE  Amount(op, k, f) \in Int /\ Amount(op, k, f) = Amount(op, k, g)
  <1>1. k \in Int /\ -k \in Int
    BY LevelizeAssumption DEF OpRange
  <1>2. /\ op.kind \in Kinds /\ op.rhs \in SUBSET Tensors /\ IsFiniteSet(op.rhs)
        /\ (op.kind = "mult" => op.rhs # {})
    BY OpFacts
  <1>3. CASE op.kind = "mult"
    <2>1. \A t \in op.rhs : f[t] = g[t]
      BY <1>3 DEF Reads
    <2>2. Product(f, op.rhs) \in Int /\ Product(f, op.rhs) = Product(g, op.rhs)
      BY <1>2, <1>3, <2>1, ProductFacts
    <2>3. Amount(op, k, f) = k * Product(f, op.rhs) /\ Amount(op, k, g) = k * Product(g, op.rhs)
      BY <1>3 DEF Amount, Value
    <2>4. k * Product(f, op.rhs) \in Int
      BY <1>1, <2>2
    <2>5. QED
      BY <2>2, <2>3, <2>4
  <1>4. CASE op.kind \in {"add", "map"}
    <2>1. \A t \in op.rhs : f[t] = g[t] /\ f[t] \in Int
      BY <1>2, <1>4 DEF Reads
    <2> DEFINE x == SumFunctionOnSet(f, op.rhs)
               y == SumFunctionOnSet(g, op.rhs)
    <2>2. x = y
      BY <1>2, <2>1, SumSame
    <2>3. x \in Int
      BY <1>2, <2>1, SumType
    <2>4. /\ Amount(op, k, f) = IF op.kind = "add" THEN k * x ELSE k + x
          /\ Amount(op, k, g) = IF op.kind = "add" THEN k * y ELSE k + y
      BY <1>4 DEF Amount, Value
    <2> HIDE DEF x, y
    <2>5. k * x \in Int /\ k + x \in Int
      BY <1>1, <2>3
    <2>6. QED
      BY <2>2, <2>4, <2>5
  <1>5. CASE op.kind = "set"
    BY <1>1, <1>5 DEF Amount, Value
  <1>6. CASE op.kind \in {"alloc", "dealloc"}
    BY <1>1, <1>6 DEF Amount
  <1>7. QED
    BY <1>2, <1>3, <1>4, <1>5, <1>6 DEF Kinds

\* What an operation does to each tensor, and to what scans have seen.
LEMMA ApplyFacts ==
  ASSUME NEW op \in Op, NEW k \in OpRange, NEW st \in States
  PROVE  /\ Apply(op, k, st) \in States
         /\ \A t \in Tensors :
              Apply(op, k, st).mem[t] =
                IF Changing(op, t)
                THEN (IF Resetting(op) THEN 0 ELSE st.mem[t]) + Amount(op, k, st.mem)
                ELSE st.mem[t]
         /\ \A l \in OpRange :
              Apply(op, k, st).seen[l] =
                IF op.kind = "scan" /\ l = k THEN st.mem[op.lhs] ELSE st.seen[l]
  <1> DEFINE v == Amount(op, k, st.mem)
  <1>1. /\ op.kind \in Kinds /\ op.lhs \in Tensors
        /\ st.mem \in [Tensors -> Int] /\ st.seen \in [OpRange -> Int]
        /\ st = [mem |-> st.mem, seen |-> st.seen]
    BY OpFacts DEF States
  <1>2. CASE op.kind = "scan"
    <2>1. Apply(op, k, st) = [st EXCEPT !.seen[k] = st.mem[op.lhs]]
      BY <1>2 DEF Apply
    <2>2. st.mem[op.lhs] \in Int
      BY <1>1
    <2>3. Apply(op, k, st) = [mem |-> st.mem, seen |-> [st.seen EXCEPT ![k] = st.mem[op.lhs]]]
      BY <1>1, <2>1
    <2>4. QED
      BY <1>1, <1>2, <2>2, <2>3 DEF Changing, States
  <1>3. CASE op.kind # "scan"
    <2>1. v \in Int
      BY <1>1, <1>3, AmountFacts
    <2>2. Apply(op, k, st) =
            [st EXCEPT !.mem[op.lhs] = (IF Resetting(op) THEN 0 ELSE st.mem[op.lhs]) + v]
      <3>1. CASE op.kind \in {"alloc", "dealloc"}
        <4>1. Apply(op, k, st) = [st EXCEPT !.mem[op.lhs] = -k]
          BY <3>1 DEF Apply
        <4>2. v = -k /\ Resetting(op) /\ 0 + v = -k
          BY <2>1, <3>1 DEF Amount, Resetting
        <4>3. QED
          BY <4>1, <4>2
      <3>2. CASE op.kind \notin {"alloc", "dealloc"}
        BY <1>3, <3>2 DEF Apply, Amount, Resetting
      <3>3. QED
        BY <3>1, <3>2
    <2> HIDE DEF v
    <2> DEFINE w == (IF Resetting(op) THEN 0 ELSE st.mem[op.lhs]) + v
    <2>3. w \in Int
      BY <1>1, <2>1
    <2>4. Apply(op, k, st) = [st EXCEPT !.mem[op.lhs] = w]
      BY <2>2
    <2> HIDE DEF w
    <2>5. Apply(op, k, st) = [mem |-> [st.mem EXCEPT ![op.lhs] = w], seen |-> st.seen]
      BY <1>1, <2>4
    <2>6. /\ Apply(op, k, st) \in States
          /\ \A t \in Tensors : Apply(op, k, st).mem[t] = IF t = op.lhs THEN w ELSE st.mem[t]
          /\ Apply(op, k, st).seen = st.seen
      BY <1>1, <2>3, <2>5 DEF States
    <2>7. \A t \in Tensors : t = op.lhs => w = (IF Resetting(op) THEN 0 ELSE st.mem[t]) + v
      BY DEF w
    <2>8. QED
      BY <1>3, <2>6, <2>7 DEF Changing, v
  <1>4. QED
    BY <1>2, <1>3

LEMMA NFacts ==
  /\ N \in Nat /\ N >= 1 /\ OpRange = First .. Last /\ First \in Nat /\ Last \in Nat
  /\ \A n \in 1 .. N : Nth(n) \in OpRange
  /\ \A m, n \in 1 .. N : Nth(m) = Nth(n) => m = n
  /\ \A k \in OpRange : k - First + 1 \in 1 .. N /\ Nth(k - First + 1) = k
  BY LevelizeAssumption DEF N, Nth, OpRange

\* RunFrom runs through the states of an execution.
LEMMA RunIs ==
  ASSUME TypeOK, NEW q \in [OpRange -> OpRange]
  PROVE  LET p == [n \in 1 .. N |-> q[Nth(n)] - First + 1]
         IN  \E f : Along(f, p) /\ RunFrom(Start, ops, q, First, Last) = f[N]
  <1> DEFINE p == [n \in 1 .. N |-> q[Nth(n)] - First + 1]
             G == [n \in 1 .. N |-> [st \in States |-> Apply(Oper(p[n]), Nth(p[n]), st)]]
             Is(g) == g = [k \in First - 1 .. Last |->
                             IF k < First THEN Start ELSE Apply(ops[q[k]], q[k], g[k - 1])]
  <1>1. ASSUME NEW n \in 1 .. N
        PROVE  /\ p[n] \in 1 .. N /\ Nth(p[n]) = q[Nth(n)] /\ Nth(p[n]) \in OpRange
               /\ Oper(p[n]) = ops[q[Nth(n)]] /\ Oper(p[n]) \in Op
    BY NFacts DEF Oper, TypeOK
  <1>2. \A n \in 1 .. N : G[n] \in [States -> States]
    BY <1>1, ApplyFacts
  <1>3. \A n \in 1 .. N, st \in States : G[n][st] = Apply(Oper(p[n]), Nth(p[n]), st)
    OBVIOUS
  <1>4. Start \in States /\ N \in Nat
    BY MeaningAssumption, NFacts DEF States
  <1> HIDE DEF G, p
  <1>5. PICK f \in [0 .. N -> States] : Follows(f, N, Start, G)
    BY <1>2, <1>4, StepByStep
  <1>6. Along(f, p)
    <2>1. ASSUME NEW n \in 1 .. N
          PROVE  f[n] = Apply(Oper(p[n]), Nth(p[n]), f[n - 1])
      <3>1. f[n - 1] \in States
        BY <1>4
      <3>2. QED
        BY <1>3, <1>5, <3>1 DEF Follows
    <2>2. QED
      BY <1>5, <2>1 DEF Along, Follows
  <1> DEFINE h == [k \in First - 1 .. Last |-> f[k - First + 1]]
  <1>7. Is(h)
    <2>1. ASSUME NEW k \in First - 1 .. Last
          PROVE  h[k] = IF k < First THEN Start ELSE Apply(ops[q[k]], q[k], h[k - 1])
      <3>1. CASE k < First
        <4>1. k - First + 1 = 0
          BY <3>1, NFacts
        <4>2. QED
          BY <3>1, <4>1, <1>6 DEF Along
      <3>2. CASE ~(k < First)
        <4> DEFINE n == k - First + 1
        <4>1. k \in OpRange /\ n \in 1 .. N /\ Nth(n) = k /\ n - 1 = (k - 1) - First + 1
              /\ k - 1 \in First - 1 .. Last
          BY <3>2, NFacts
        <4>2. h[k] = f[n] /\ h[k - 1] = f[n - 1]
          BY <4>1
        <4>3. f[n] = Apply(Oper(p[n]), Nth(p[n]), f[n - 1])
          BY <1>6, <4>1 DEF Along
        <4>4. Nth(p[n]) = q[k] /\ Oper(p[n]) = ops[q[k]]
          BY <1>1, <4>1
        <4> HIDE DEF h, n
        <4>5. QED
          BY <3>2, <4>2, <4>3, <4>4
      <3>3. QED
        BY <3>1, <3>2
    <2>2. h = [k \in First - 1 .. Last |-> h[k]]
      OBVIOUS
    <2> HIDE DEF h
    <2>3. QED
      BY <2>1, <2>2
  <1>8. RunFrom(Start, ops, q, First, Last) = (CHOOSE g : Is(g))[Last]
    BY DEF RunFrom
  <1>9. PICK g : g = CHOOSE x : Is(x)
    OBVIOUS
  <1>10. Is(g)
    BY <1>7, <1>9
  <1>11. /\ g[First - 1] = Start
         /\ \A n \in 1 .. N : g[First + n - 1] = Apply(Oper(p[n]), Nth(p[n]), g[First + (n - 1) - 1])
    <2>1. First - 1 \in First - 1 .. Last /\ First - 1 < First
      BY NFacts
    <2>2. g[First - 1] = Start
      BY <1>10, <2>1
    <2>3. ASSUME NEW n \in 1 .. N
          PROVE  g[First + n - 1] = Apply(Oper(p[n]), Nth(p[n]), g[First + (n - 1) - 1])
      <3> DEFINE k == First + n - 1
      <3>1. k \in First - 1 .. Last /\ ~(k < First) /\ k - 1 = First + (n - 1) - 1 /\ Nth(n) = k
        BY NFacts DEF Nth, N
      <3>2. g[k] = Apply(ops[q[k]], q[k], g[k - 1])
        BY <1>10, <3>1
      <3>3. QED
        BY <1>1, <3>1, <3>2
    <2>4. QED
      BY <2>2, <2>3
  <1> DEFINE I == {n \in Nat : g[First + n - 1] = f[n]}
  <1> HIDE DEF Is
  <1>12. 0 \in I
    <2>1. First + 0 - 1 = First - 1
      BY NFacts
    <2>2. f[0] = Start
      BY <1>6 DEF Along
    <2>3. QED
      BY <1>11, <2>1, <2>2
  <1>13. ASSUME NEW n \in 1 .. N, n - 1 \in I
         PROVE  n \in I
    BY <1>6, <1>11, <1>13 DEF Along
  <1> HIDE DEF I
  <1>14. 0 .. N \subseteq I
    BY <1>4, <1>12, <1>13, UpFromZero
  <1>15. g[First + N - 1] = f[N]
    BY <1>4, <1>14 DEF I
  <1>16. First + N - 1 = Last
    BY NFacts DEF N
  <1>17. QED
    BY <1>6, <1>8, <1>9, <1>15, <1>16 DEF p

\* What the operations of D do to tensor t, with the operands they have in the
\* execution P of the program.
Resets(D, t) == [n \in 1 .. N |-> n \in D /\ Changing(Oper(n), t) /\ Resetting(Oper(n))]
Adds(P, D, t) ==
  [n \in 1 .. N |->
     IF n \in D /\ Changing(Oper(n), t) THEN Amount(Oper(n), Nth(n), P[n - 1].mem) ELSE 0]
Held(P, D, t) == Tally(Start.mem[t], Resets(D, t), Adds(P, D, t), N)

InProgramOrder == [n \in 1 .. N |-> n]

LEMMA OperFacts ==
  ASSUME TypeOK, NEW n \in 1 .. N
  PROVE  Oper(n) \in Op /\ Nth(n) \in OpRange
  BY NFacts DEF TypeOK, Oper

\* Operation o turns st into new, tensor by tensor.
Moves(o, st, new) ==
  /\ new \in States /\ st \in States
  /\ st.mem \in [Tensors -> Int] /\ st.seen \in [OpRange -> Int]
  /\ \A t \in Tensors :
       new.mem[t] = IF Changing(Oper(o), t)
                    THEN (IF Resetting(Oper(o)) THEN 0 ELSE st.mem[t])
                         + Amount(Oper(o), Nth(o), st.mem)
                    ELSE st.mem[t]
  /\ \A l \in OpRange :
       new.seen[l] = IF Oper(o).kind = "scan" /\ l = Nth(o)
                     THEN st.mem[Oper(o).lhs] ELSE st.seen[l]

LEMMA AlongFacts ==
  ASSUME TypeOK, NEW f, NEW p \in [1 .. N -> 1 .. N], Along(f, p), NEW n \in 1 .. N
  PROVE  Moves(p[n], f[n - 1], f[n])
  <1>0. N \in Nat /\ f \in [0 .. N -> States]
    BY NFacts DEF Along
  <1>1. f[n] \in States /\ f[n - 1] \in States /\ p[n] \in 1 .. N
    <2>1. n \in 0 .. N /\ n - 1 \in 0 .. N
      BY <1>0
    <2>2. QED
      BY <1>0, <2>1
  <1>2. f[n] = Apply(Oper(p[n]), Nth(p[n]), f[n - 1])
    BY DEF Along
  <1>3. Oper(p[n]) \in Op /\ Nth(p[n]) \in OpRange
    BY <1>1, OperFacts
  <1>4. f[n - 1].mem \in [Tensors -> Int] /\ f[n - 1].seen \in [OpRange -> Int]
    BY <1>1 DEF States
  <1>5. QED
    BY <1>1, <1>2, <1>3, <1>4, ApplyFacts DEF Moves

LEMMA HeldFacts ==
  ASSUME TypeOK, NEW P, Along(P, InProgramOrder), NEW D, NEW t \in Tensors
  PROVE  /\ Start.mem[t] \in Int /\ N \in Nat
         /\ \A n \in 1 .. N : Adds(P, D, t)[n] \in Int
         /\ Held(P, D, t) \in [0 .. N -> Int] /\ Held(P, D, t)[0] = Start.mem[t]
         /\ \A n \in 1 .. N :
              Held(P, D, t)[n] = (IF Resets(D, t)[n] THEN 0 ELSE Held(P, D, t)[n - 1])
                                 + Adds(P, D, t)[n]
  <1>1. Start.mem[t] \in Int /\ N \in Nat
    BY MeaningAssumption, NFacts
  <1>2. ASSUME NEW n \in 1 .. N
        PROVE  Adds(P, D, t)[n] \in Int
    <2>1. InProgramOrder \in [1 .. N -> 1 .. N]
      BY DEF InProgramOrder
    <2>2. P[n - 1].mem \in [Tensors -> Int]
      BY <2>1, AlongFacts DEF Moves
    <2>3. ASSUME Changing(Oper(n), t)
          PROVE  Amount(Oper(n), Nth(n), P[n - 1].mem) \in Int
      BY <2>2, <2>3, OperFacts, AmountFacts DEF Changing
    <2>4. QED
      BY <2>3 DEF Adds
  <1> DEFINE r == Resets(D, t)  a == Adds(P, D, t)  v == Start.mem[t]
  <1>3. v \in Int /\ N \in Nat /\ \A n \in 1 .. N : a[n] \in Int
    BY <1>1, <1>2
  <1> HIDE DEF r, a, v
  <1>4. /\ Tally(v, r, a, N) \in [0 .. N -> Int] /\ Tally(v, r, a, N)[0] = v
        /\ \A n \in 1 .. N : Tally(v, r, a, N)[n] =
              (IF r[n] THEN 0 ELSE Tally(v, r, a, N)[n - 1]) + a[n]
    BY <1>3, TallyIs
  <1>5. QED
    BY <1>1, <1>2, <1>4 DEF Held, r, a, v

\* In the execution of the program a tensor holds what all operations before do to it.
LEMMA ProgramHolds ==
  ASSUME TypeOK, NEW P, Along(P, InProgramOrder), NEW t \in Tensors, NEW n \in 0 .. N
  PROVE  P[n].mem[t] = Held(P, 1 .. N, t)[n]
  <1> DEFINE H == Held(P, 1 .. N, t)
             I == {m \in Nat : P[m].mem[t] = H[m]}
  <1>1. /\ H[0] = Start.mem[t]
        /\ \A m \in 1 .. N : H[m] = (IF Resets(1 .. N, t)[m] THEN 0 ELSE H[m - 1])
                                    + Adds(P, 1 .. N, t)[m]
        /\ H \in [0 .. N -> Int] /\ N \in Nat
    BY HeldFacts
  <1> HIDE DEF H
  <1>2. 0 \in I
    BY <1>1 DEF Along
  <1>3. ASSUME NEW m \in 1 .. N, m - 1 \in I
        PROVE  m \in I
    <2>1. InProgramOrder \in [1 .. N -> 1 .. N] /\ InProgramOrder[m] = m
      BY DEF InProgramOrder
    <2>2. P[m].mem[t] =
            IF Changing(Oper(m), t)
            THEN (IF Resetting(Oper(m)) THEN 0 ELSE P[m - 1].mem[t])
                 + Amount(Oper(m), Nth(m), P[m - 1].mem)
            ELSE P[m - 1].mem[t]
      <3>1. Moves(InProgramOrder[m], P[m - 1], P[m])
        BY <2>1, AlongFacts
      <3>2. QED
        BY <2>1, <3>1 DEF Moves
    <2>3. P[m - 1].mem[t] = H[m - 1] /\ H[m - 1] \in Int
      BY <1>1, <1>3
    <2>4. /\ Resets(1 .. N, t)[m] <=> Changing(Oper(m), t) /\ Resetting(Oper(m))
          /\ Adds(P, 1 .. N, t)[m] =
               IF Changing(Oper(m), t) THEN Amount(Oper(m), Nth(m), P[m - 1].mem) ELSE 0
      BY DEF Resets, Adds
    <2>5. H[m] = (IF Resets(1 .. N, t)[m] THEN 0 ELSE H[m - 1]) + Adds(P, 1 .. N, t)[m]
      BY <1>1
    <2> DEFINE x == Amount(Oper(m), Nth(m), P[m - 1].mem)
    <2> HIDE DEF x
    <2>6. P[m].mem[t] = H[m]
      BY <2>2, <2>3, <2>4, <2>5 DEF x
    <2>7. QED
      BY <1>3, <2>6
  <1> HIDE DEF I
  <1>4. 0 .. N \subseteq I
    BY <1>1, <1>2, <1>3, UpFromZero
  <1>5. QED
    BY <1>4 DEF I, H

\* Operation o is next: all that it depends on is in D, and nothing that depends on it.
MayFollow(D, o) ==
  /\ o \in 1 .. N /\ D \subseteq 1 .. N /\ o \notin D
  /\ \A n \in 1 .. N : DependsOn(o, n) => n \in D
  /\ \A n \in D : ~DependsOn(n, o)

LEMMA ChangingFacts ==
  ASSUME TypeOK, NEW n \in 1 .. N, NEW t, Changing(Oper(n), t)
  PROVE  /\ t \in Writes(Oper(n)) \cup Accumulates(Oper(n))
         /\ Resetting(Oper(n)) => t \in Writes(Oper(n))
  BY OperFacts, OpFacts DEF Changing, Resetting, Writes, Accumulates, Kinds

\* Before o, what D does not do to a tensor the program does not do either, when o
\* writes the tensor or reads it; and after o nothing of D changes it.
LEMMA AroundNext ==
  ASSUME TypeOK, NEW D, NEW o, MayFollow(D, o), NEW t,
         t \in Writes(Oper(o)) \cup Reads(Oper(o)), NEW n \in 1 .. N, Changing(Oper(n), t)
  PROVE  (n < o => n \in D) /\ (n > o => n \notin D)
  <1>1. t \in Writes(Oper(n)) \cup Accumulates(Oper(n))
    BY ChangingFacts
  <1>2. HasDependence(Oper(n), Oper(o)) /\ HasDependence(Oper(o), Oper(n))
    BY <1>1 DEF HasDependence
  <1>3. QED
    BY <1>2 DEF MayFollow, DependsOn

\* The operands of o are those of the program.
LEMMA ReadsAsProgram ==
  ASSUME TypeOK, NEW P, Along(P, InProgramOrder), NEW D, NEW o, MayFollow(D, o),
         NEW t \in Tensors, t \in Reads(Oper(o))
  PROVE  Held(P, D, t)[N] = P[o - 1].mem[t]
  <1> DEFINE n == o - 1  v == Start.mem[t]
             r1 == Resets(D, t)  a1 == Adds(P, D, t)
             r2 == Resets(1 .. N, t)  a2 == Adds(P, 1 .. N, t)
  <1>1. /\ v \in Int /\ N \in Nat /\ n \in 0 .. N
        /\ \A m \in 1 .. N : a1[m] \in Int /\ a2[m] \in Int
    BY HeldFacts DEF MayFollow
  <1>2. \A m \in 1 .. n : (r1[m] <=> r2[m]) /\ a1[m] = a2[m]
    <2>1. ASSUME NEW m \in 1 .. n
          PROVE  (r1[m] <=> r2[m]) /\ a1[m] = a2[m]
      <3>1. m \in 1 .. N /\ m < o
        <4>1. o \in 1 .. N
          BY DEF MayFollow
        <4>2. QED
          BY <1>1, <4>1
      <3>2. Changing(Oper(m), t) => m \in D
        BY <3>1, AroundNext
      <3>3. QED
        BY <3>1, <3>2 DEF Resets, Adds
    <2>2. QED
      BY <2>1
  <1>3. \A m \in n + 1 .. N : ~r1[m] /\ a1[m] = 0
    <2>1. ASSUME NEW m \in n + 1 .. N
          PROVE  ~r1[m] /\ a1[m] = 0
      <3>1. m \in 1 .. N /\ (m = o \/ m > o)
        BY DEF MayFollow
      <3>2. ~(Changing(Oper(m), t) /\ m \in D)
        BY <3>1, AroundNext DEF MayFollow
      <3>3. QED
        BY <3>1, <3>2 DEF Resets, Adds
    <2>2. QED
      BY <2>1
  <1>4. P[n].mem[t] = Held(P, 1 .. N, t)[n]
    BY <1>1, ProgramHolds
  <1>5. Held(P, D, t) = Tally(v, r1, a1, N) /\ Held(P, 1 .. N, t) = Tally(v, r2, a2, N)
    BY DEF Held
  <1> HIDE DEF r1, a1, r2, a2, n, v
  <1>6. Tally(v, r1, a1, N)[n] = Tally(v, r2, a2, N)[n]
    BY <1>1, <1>2, TallySame
  <1>7. Tally(v, r1, a1, N)[N] = Tally(v, r1, a1, N)[n]
    BY <1>1, <1>3, TallyRests
  <1>8. QED
    BY <1>4, <1>5, <1>6, <1>7 DEF n

\* What o does to a tensor when it is the next.
LEMMA NextHolds ==
  ASSUME TypeOK, NEW P, Along(P, InProgramOrder), NEW D, NEW o, MayFollow(D, o), NEW t \in Tensors
  PROVE  Held(P, D \cup {o}, t)[N] =
           IF Changing(Oper(o), t)
           THEN (IF Resetting(Oper(o)) THEN 0 ELSE Held(P, D, t)[N])
                + Amount(Oper(o), Nth(o), P[o - 1].mem)
           ELSE Held(P, D, t)[N]
  <1> DEFINE v == Start.mem[t]  E == D \cup {o}  x == Amount(Oper(o), Nth(o), P[o - 1].mem)
             r1 == Resets(D, t)  a1 == Adds(P, D, t)
             r2 == Resets(E, t)  a2 == Adds(P, E, t)
  <1>1. /\ v \in Int /\ N \in Nat /\ o \in 1 .. N /\ o \notin D
        /\ \A m \in 1 .. N : a1[m] \in Int /\ a2[m] \in Int
    BY HeldFacts DEF MayFollow
  <1>2. \A m \in 1 .. N : m # o => (r2[m] <=> r1[m]) /\ a2[m] = a1[m]
    BY DEF Resets, Adds
  <1>3. /\ ~r1[o] /\ a1[o] = 0
        /\ r2[o] <=> Changing(Oper(o), t) /\ Resetting(Oper(o))
        /\ a2[o] = IF Changing(Oper(o), t) THEN x ELSE 0
    BY <1>1 DEF Resets, Adds
  <1>4. Held(P, D, t) = Tally(v, r1, a1, N) /\ Held(P, E, t) = Tally(v, r2, a2, N)
    BY DEF Held
  <1>5. CASE ~Changing(Oper(o), t)
    <2>1. N \in 0 .. N /\ \A m \in 1 .. N : (r2[m] <=> r1[m]) /\ a2[m] = a1[m]
      BY <1>1, <1>2, <1>3, <1>5
    <2> HIDE DEF r1, a1, r2, a2, v, E, x
    <2>2. Tally(v, r2, a2, N)[N] = Tally(v, r1, a1, N)[N]
      BY <1>1, <2>1, TallySame
    <2>3. QED
      BY <1>4, <1>5, <2>2 DEF E
  <1>6. CASE Changing(Oper(o), t) /\ ~Resetting(Oper(o))
    <2>1. \A m \in o + 1 .. N : ~r1[m]
      <3>1. ASSUME NEW m \in o + 1 .. N, r1[m]
            PROVE  FALSE
        <4>1. m \in 1 .. N /\ m > o
          BY <1>1
        <4>2. m \in D /\ Changing(Oper(m), t) /\ Resetting(Oper(m))
          BY <3>1, <4>1 DEF Resets
        <4>3. t \in Writes(Oper(m)) /\ t \in Writes(Oper(o)) \cup Accumulates(Oper(o))
          BY <1>1, <1>6, <4>1, <4>2, ChangingFacts
        <4>4. DependsOn(m, o)
          BY <4>1, <4>3 DEF DependsOn, HasDependence
        <4>5. QED
          BY <4>2, <4>4 DEF MayFollow
      <3>2. QED
        BY <3>1
    <2>2. DiffersAt(N, r1, a1, r2, a2, o)
      <3> HIDE DEF r1, a1, r2, a2, v, E, x
      <3>1. \A m \in 1 .. N : r2[m] <=> r1[m]
        BY <1>2, <1>3, <1>6
      <3>2. QED
        BY <1>1, <1>2, <2>1, <3>1 DEF DiffersAt
    <2>3. Tally(v, r1, a1, N)[N] \in Int
      BY <1>1, <1>4, HeldFacts
    <2>4. x \in Int /\ a2[o] - a1[o] = x
      <3> HIDE DEF r1, a1, r2, a2, v, E, x
      <3>1. a2[o] = x /\ a1[o] = 0 /\ a2[o] \in Int
        BY <1>1, <1>3, <1>6
      <3>2. QED
        BY <3>1
    <2> HIDE DEF r1, a1, r2, a2, v, E, x
    <2>5. Tally(v, r2, a2, N)[N] = Tally(v, r1, a1, N)[N] + (a2[o] - a1[o])
      BY <1>1, <2>2, TallyAdds
    <2>6. QED
      BY <1>4, <1>6, <2>4, <2>5 DEF E, x
  <1>7. CASE Changing(Oper(o), t) /\ Resetting(Oper(o))
    <2>1. \A m \in o + 1 .. N : ~r2[m] /\ a2[m] = 0
      <3>1. ASSUME NEW m \in o + 1 .. N
            PROVE  ~r2[m] /\ a2[m] = 0
        <4>1. m \in 1 .. N /\ m > o
          BY <1>1
        <4>2. t \in Writes(Oper(o))
          BY <1>1, <1>7, ChangingFacts
        <4>3. ~(m \in E /\ Changing(Oper(m), t))
          BY <4>1, <4>2, AroundNext
        <4>4. QED
          BY <4>1, <4>3 DEF Resets, Adds
      <3>2. QED
        BY <3>1
    <2>2. Held(P, E, t)[o] = (IF Resets(E, t)[o] THEN 0 ELSE Held(P, E, t)[o - 1]) + Adds(P, E, t)[o]
      <3> HIDE DEF E
      <3>1. \A m \in 1 .. N :
              Held(P, E, t)[m] = (IF Resets(E, t)[m] THEN 0 ELSE Held(P, E, t)[m - 1])
                                 + Adds(P, E, t)[m]
        BY HeldFacts
      <3>2. QED
        BY <1>1, <3>1
    <2>3. Held(P, E, t)[o] = 0 + x
      BY <1>3, <1>7, <2>2
    <2>4. o \in 0 .. N
      BY <1>1
    <2> HIDE DEF r1, a1, r2, a2, v, E, x
    <2>5. Tally(v, r2, a2, N)[N] = Tally(v, r2, a2, N)[o]
      BY <1>1, <2>1, <2>4, TallyRests
    <2>6. QED
      BY <1>4, <1>7, <2>3, <2>5 DEF E, x
  <1>8. QED
    BY <1>5, <1>6, <1>7

\* The state st is that after the operations of D.
HoldsWhatIsDone(P, st, D) ==
  /\ \A t \in Tensors : st.mem[t] = Held(P, D, t)[N]
  /\ \A k \in 1 .. N :
       st.seen[Nth(k)] = IF k \in D /\ Oper(k).kind = "scan"
                         THEN P[k - 1].mem[Oper(k).lhs] ELSE Start.seen[Nth(k)]

\* In any sound execution every tensor holds what the operations done so far do to it
\* in the order of the program.
LEMMA SoundHolds ==
  ASSUME TypeOK, NEW P, Along(P, InProgramOrder), NEW p, Sound(p), NEW f, Along(f, p)
  PROVE  \A n \in 0 .. N : HoldsWhatIsDone(P, f[n], {p[m] : m \in 1 .. n})
  <1> DEFINE D(n) == {p[m] : m \in 1 .. n}
             Good(n) == HoldsWhatIsDone(P, f[n], D(n))
             I == {n \in Nat : Good(n)}
  <1>0. p \in [1 .. N -> 1 .. N] /\ N \in Nat
    BY NFacts DEF Sound
  <1>1. 0 \in I
    <2>1. D(0) = {} /\ f[0] = Start
      BY DEF Along
    <2>2. ASSUME NEW t \in Tensors
          PROVE  Start.mem[t] = Held(P, {}, t)[N]
      <3> DEFINE v == Start.mem[t]  r == Resets({}, t)  a == Adds(P, {}, t)
      <3>1. /\ v \in Int /\ N \in Nat /\ 0 \in 0 .. N
            /\ \A m \in 1 .. N : a[m] \in Int
            /\ Held(P, {}, t)[0] = v
        BY HeldFacts
      <3>2. \A m \in 0 + 1 .. N : ~r[m] /\ a[m] = 0
        <4>1. \A m \in 1 .. N : ~r[m] /\ a[m] = 0
          BY DEF Resets, Adds
        <4> HIDE DEF r, a
        <4>2. QED
          BY <4>1
      <3>3. Held(P, {}, t) = Tally(v, r, a, N)
        BY DEF Held
      <3> HIDE DEF v, r, a
      <3>4. Tally(v, r, a, N)[N] = Tally(v, r, a, N)[0]
        BY <3>1, <3>2, TallyRests
      <3>5. QED
        BY <3>1, <3>3, <3>4 DEF v
    <2>3. QED
      BY <2>1, <2>2 DEF HoldsWhatIsDone
  <1>2. ASSUME NEW n \in 1 .. N, n - 1 \in I
        PROVE  n \in I
    <2> DEFINE o == p[n]  C == D(n - 1)
    <2>1. o \in 1 .. N /\ D(n) = C \cup {o}
      <3>1. 1 .. n = (1 .. n - 1) \cup {n}
        BY <1>0
      <3>2. o \in 1 .. N
        BY <1>0
      <3>3. QED
        BY <3>1, <3>2
    <2>2. MayFollow(C, o)
      <3>1. C \subseteq 1 .. N /\ o \notin C
        <4>1. ASSUME NEW m \in 1 .. n - 1
              PROVE  p[m] \in 1 .. N /\ p[m] # o
          <5>1. m \in 1 .. N /\ m < n
            BY <1>0
          <5>2. QED
            BY <1>0, <5>1 DEF Sound
        <4>2. QED
          BY <4>1
      <3>2. ASSUME NEW k \in 1 .. N, DependsOn(o, k)
            PROVE  k \in C
        <4>1. PICK m \in 1 .. N : p[m] = k
          BY DEF Sound
        <4>2. m # n
          BY <2>1, <3>2, <4>1 DEF DependsOn
        <4>3. ~(m > n)
          BY <3>2, <4>1 DEF Sound
        <4>4. m \in 1 .. n - 1
          BY <4>2, <4>3
        <4>5. QED
          BY <4>1, <4>4
      <3>3. ASSUME NEW k \in C
            PROVE  ~DependsOn(k, o)
        <4>1. PICK m \in 1 .. n - 1 : p[m] = k
          OBVIOUS
        <4>2. m \in 1 .. N /\ m < n
          BY <1>0
        <4>3. QED
          BY <4>1, <4>2 DEF Sound
      <3>4. QED
        BY <2>1, <3>1, <3>2, <3>3 DEF MayFollow
    <2>3. /\ \A t \in Tensors : f[n - 1].mem[t] = Held(P, C, t)[N]
          /\ \A k \in 1 .. N :
               f[n - 1].seen[Nth(k)] =
                 IF k \in C /\ Oper(k).kind = "scan"
                 THEN P[k - 1].mem[Oper(k).lhs] ELSE Start.seen[Nth(k)]
      BY <1>2 DEF HoldsWhatIsDone
    <2>4. /\ f[n - 1].mem \in [Tensors -> Int]
          /\ \A t \in Tensors :
               f[n].mem[t] =
                 IF Changing(Oper(o), t)
                 THEN (IF Resetting(Oper(o)) THEN 0 ELSE f[n - 1].mem[t])
                      + Amount(Oper(o), Nth(o), f[n - 1].mem)
                 ELSE f[n - 1].mem[t]
          /\ \A l \in OpRange :
               f[n].seen[l] =
                 IF Oper(o).kind = "scan" /\ l = Nth(o)
                 THEN f[n - 1].mem[Oper(o).lhs] ELSE f[n - 1].seen[l]
      <3>1. Moves(p[n], f[n - 1], f[n])
        BY <1>0, AlongFacts
      <3>2. QED
        BY <3>1 DEF Moves
    <2> HIDE DEF D, o, C
    <2>5. Oper(o) \in Op /\ Nth(o) \in OpRange
      BY <2>1, OperFacts
    <2>6. P[o - 1].mem \in [Tensors -> Int]
      <3>1. InProgramOrder \in [1 .. N -> 1 .. N]
        BY DEF InProgramOrder
      <3>2. QED
        BY <2>1, <3>1, AlongFacts DEF Moves
    <2>7. \A t \in Reads(Oper(o)) : t \in Tensors /\ f[n - 1].mem[t] = P[o - 1].mem[t]
      <3>1. Reads(Oper(o)) \subseteq Tensors
        BY <2>5, OpFacts DEF Reads
      <3>2. QED
        BY <2>2, <2>3, <3>1, ReadsAsProgram
    <2>8. ASSUME NEW t \in Tensors
          PROVE  f[n].mem[t] = Held(P, C \cup {o}, t)[N]
      <3>1. Oper(o).kind # "scan" =>
              Amount(Oper(o), Nth(o), f[n - 1].mem) = Amount(Oper(o), Nth(o), P[o - 1].mem)
        BY <2>4, <2>5, <2>6, <2>7, AmountFacts
      <3>2. Changing(Oper(o), t) =>
              Amount(Oper(o), Nth(o), f[n - 1].mem) = Amount(Oper(o), Nth(o), P[o - 1].mem)
        BY <3>1 DEF Changing
      <3>3. Held(P, C \cup {o}, t)[N] =
              IF Changing(Oper(o), t)
              THEN (IF Resetting(Oper(o)) THEN 0 ELSE Held(P, C, t)[N])
                   + Amount(Oper(o), Nth(o), P[o - 1].mem)
              ELSE Held(P, C, t)[N]
        BY <2>2, NextHolds
      <3>4. QED
        BY <2>3, <2>4, <3>2, <3>3
    <2>9. ASSUME NEW k \in 1 .. N
          PROVE  f[n].seen[Nth(k)] = IF k \in C \cup {o} /\ Oper(k).kind = "scan"
                                     THEN P[k - 1].mem[Oper(k).lhs] ELSE Start.seen[Nth(k)]
      <3>1. Nth(k) \in OpRange /\ (Nth(k) = Nth(o) <=> k = o) /\ o \notin C
        BY <2>1, <2>2, NFacts DEF MayFollow
      <3>2. CASE k = o /\ Oper(o).kind = "scan"
        <4>1. Oper(o).lhs \in Reads(Oper(o))
          BY <3>2 DEF Reads
        <4>2. QED
          BY <2>4, <2>7, <3>1, <3>2, <4>1
      <3>3. CASE ~(k = o /\ Oper(o).kind = "scan")
        BY <2>3, <2>4, <3>1, <3>3
      <3>4. QED
        BY <3>2, <3>3
    <2>10. Good(n)
      BY <2>1, <2>8, <2>9 DEF HoldsWhatIsDone
    <2> HIDE DEF Good
    <2>11. QED
      BY <2>10
  <1> HIDE DEF I
  <1>3. 0 .. N \subseteq I
    BY <1>0, <1>1, <1>2, UpFromZero
  <1>4. QED
    BY <1>3 DEF I

\* Executions in two sound orders end alike.
LEMMA SoundEndsAlike ==
  ASSUME TypeOK, NEW P, Along(P, InProgramOrder), NEW p, Sound(p), NEW f, Along(f, p),
         Sound(InProgramOrder)
  PROVE  f[N] = P[N]
  <1>1. N \in Nat /\ N \in 0 .. N
    BY NFacts
  <1>2. {p[m] : m \in 1 .. N} = 1 .. N
    <2>1. p \in [1 .. N -> 1 .. N] /\ \A n \in 1 .. N : \E m \in 1 .. N : p[m] = n
      BY DEF Sound
    <2>2. \A m \in 1 .. N : p[m] \in 1 .. N
      BY <2>1
    <2>3. QED
      BY <2>1, <2>2
  <1>3. {InProgramOrder[m] : m \in 1 .. N} = 1 .. N
    BY DEF InProgramOrder
  <1>4. HoldsWhatIsDone(P, f[N], 1 .. N)
    <2>1. HoldsWhatIsDone(P, f[N], {p[m] : m \in 1 .. N})
      BY <1>1, SoundHolds
    <2>2. QED
      BY <1>2, <2>1
  <1>5. HoldsWhatIsDone(P, P[N], 1 .. N)
    <2>1. HoldsWhatIsDone(P, P[N], {InProgramOrder[m] : m \in 1 .. N})
      BY <1>1, SoundHolds
    <2>2. QED
      BY <1>3, <2>1
  <1>6. f[N] \in States /\ P[N] \in States
    BY <1>1 DEF Along
  <1>7. \A l \in OpRange : f[N].seen[l] = P[N].seen[l]
    <2>1. ASSUME NEW l \in OpRange
          PROVE  f[N].seen[l] = P[N].seen[l]
      <3>1. PICK k \in 1 .. N : Nth(k) = l
        BY NFacts
      <3>2. QED
        BY <1>4, <1>5, <3>1 DEF HoldsWhatIsDone
    <2>2. QED
      BY <2>1
  <1>8. f[N].mem = P[N].mem
    <2>1. f[N].mem \in [Tensors -> Int] /\ P[N].mem \in [Tensors -> Int]
      BY <1>6 DEF States
    <2>2. \A t \in Tensors : f[N].mem[t] = P[N].mem[t]
      BY <1>4, <1>5 DEF HoldsWhatIsDone
    <2>3. QED
      BY <2>1, <2>2
  <1>9. f[N].seen = P[N].seen
    <2>1. f[N].seen \in [OpRange -> Int] /\ P[N].seen \in [OpRange -> Int]
      BY <1>6 DEF States
    <2>2. QED
      BY <1>7, <2>1
  <1>10. QED
    BY <1>6, <1>8, <1>9 DEF States

\* The sorted order respects the dependences.
LEMMA OrderSound ==
  ASSUME TypeOK, IsLevelling(ops, OpRange, level), NEW q \in [OpRange -> OpRange],
         IsOrdering(OpRange, level, q)
  PROVE  Sound([n \in 1 .. N |-> q[Nth(n)] - First + 1])
  <1> DEFINE p == [n \in 1 .. N |-> q[Nth(n)] - First + 1]
  <1>1. ASSUME NEW n \in 1 .. N
        PROVE  /\ Nth(n) \in OpRange /\ q[Nth(n)] \in OpRange
               /\ p[n] \in 1 .. N /\ Nth(p[n]) = q[Nth(n)]
    BY NFacts
  <1> HIDE DEF p
  <1>2. ASSUME NEW n \in 1 .. N
        PROVE  \E m \in 1 .. N : p[m] = n
    <2>1. PICK l \in OpRange : q[l] = Nth(n)
      BY <1>1 DEF IsOrdering
    <2>2. PICK m \in 1 .. N : Nth(m) = l
      BY NFacts
    <2>3. Nth(p[m]) = Nth(n)
      BY <1>1, <2>1, <2>2
    <2>4. p[m] = n
      BY <1>1, <2>3, NFacts
    <2>5. QED
      BY <2>4
  <1>3. ASSUME NEW m \in 1 .. N, NEW n \in 1 .. N, m < n
        PROVE  p[m] # p[n] /\ ~DependsOn(p[m], p[n])
    <2> DEFINE a == q[Nth(m)]  b == q[Nth(n)]
    <2>1. Nth(m) < Nth(n)
      BY <1>3, NFacts DEF Nth
    <2>2. a \in OpRange /\ b \in OpRange /\ a # b /\ level[a] <= level[b]
      BY <1>1, <2>1 DEF IsOrdering
    <2>3. Nth(p[m]) = a /\ Nth(p[n]) = b
      BY <1>1
    <2>4. level[a] \in Nat /\ level[b] \in Nat
      BY <2>2 DEF TypeOK
    <2>5. ~Before(ops, b, a)
      <3>1. Before(ops, b, a) => level[b] < level[a]
        BY <2>2 DEF IsLevelling
      <3>2. QED
        BY <2>2, <2>4, <3>1
    <2> HIDE DEF a, b
    <2>6. DependsOn(p[m], p[n]) => Before(ops, b, a)
      <3>1. p[m] \in Int /\ p[n] \in Int /\ First \in Int
        <4>1. p[m] \in 1 .. N /\ p[n] \in 1 .. N
          BY <1>1
        <4>2. N \in Nat /\ First \in Nat
          BY NFacts
        <4>3. QED
          BY <4>1, <4>2
      <3>2. p[n] < p[m] => Nth(p[n]) < Nth(p[m])
        BY <3>1 DEF Nth
      <3>3. QED
        BY <2>3, <3>2 DEF DependsOn, Before, Oper
    <2>7. QED
      BY <2>2, <2>3, <2>5, <2>6
  <1>4. p \in [1 .. N -> 1 .. N]
    BY <1>1 DEF p
  <1>5. Sound(p)
    BY <1>2, <1>3, <1>4 DEF Sound
  <1>6. QED
    BY <1>5 DEF p

LEMMA ProgramSound == Sound(InProgramOrder)
  BY NFacts DEF Sound, InProgramOrder, DependsOn

\* For every program of any length over any tensors, and whatever order the sort makes
\* of operations of one level, executing it has the effect of the program
\* (scheduler.hpp:85-91, 140-158).
THEOREM SameMeaningCorrect == Spec => []SameMeaning
  <1>1. IInv => SameMeaning
    <2> SUFFICES ASSUME IInv, pc = "done"
                 PROVE  RunFrom(Start, ops, order, First, Last)
                          = RunFrom(Start, ops, [k \in OpRange |-> k], First, Last)
      BY DEF SameMeaning
    <2>1. TypeOK /\ IsLevelling(ops, OpRange, level) /\ IsOrdering(OpRange, level, order)
      BY DEF IInv, TypeOK, Respected, Tight, Sorted, Compared, IsLevelling
    <2> DEFINE p == [n \in 1 .. N |-> order[Nth(n)] - First + 1]
               q == [k \in OpRange |-> k]
    <2>2. order \in [OpRange -> OpRange] /\ q \in [OpRange -> OpRange]
      BY <2>1 DEF TypeOK
    <2>3. Sound(p)
      BY <2>1, <2>2, OrderSound
    <2>4. PICK f : Along(f, p) /\ RunFrom(Start, ops, order, First, Last) = f[N]
      BY <2>1, <2>2, RunIs
    <2>5. [n \in 1 .. N |-> q[Nth(n)] - First + 1] = InProgramOrder
      BY NFacts DEF InProgramOrder, Nth
    <2>6. \E P : Along(P, InProgramOrder) /\ RunFrom(Start, ops, q, First, Last) = P[N]
      BY <2>1, <2>2, <2>5, RunIs
    <2>7. PICK P : Along(P, InProgramOrder) /\ RunFrom(Start, ops, q, First, Last) = P[N]
      BY <2>6
    <2> HIDE DEF p, q
    <2>8. f[N] = P[N]
      BY <2>1, <2>3, <2>4, <2>7, ProgramSound, SoundEndsAlike
    <2>9. QED
      BY <2>4, <2>7, <2>8 DEF q
  <1>2. QED
    BY <1>1, Invariance, PTL
=============================================================================
