-------------------------- MODULE SchedulerProofs ---------------------------
(***************************************************************************)
(* Proofs about Scheduler and TensorExec, for every program, every number  *)
(* of calls, every distribution of blocks and every group of ranks.        *)
(*                                                                         *)
(* The collective calls of a program sit at fixed places (sites) of a line *)
(* along which all ranks move: position p of the order covers 5p .. 5p+4,  *)
(* which are, where p has them, the allocation of the counters before the  *)
(* first operation of a call, the barrier of a level, the collective       *)
(* operation at p, and the barrier and the deallocation after the last     *)
(* operation of a call.  EnterSite and MoveOn say how ranks move along     *)
(* such a line; every action of Scheduler is such a move.                  *)
(*                                                                         *)
(* The second half is about the blocks.  A step of TensorExec is a step of *)
(* Scheduler or leaves it alone, so what holds of Scheduler holds there,   *)
(* the data flow of the program included.  From it follows ExecInv: a      *)
(* block holds, at any time, what the tasks stored so far do to it when    *)
(* they are taken in the order of the program.                             *)
(***************************************************************************)
EXTENDS TensorExec, Lemmas

-----------------------------------------------------------------------------
(* Ranks that execute one sequence of collective calls.  The calls sit at  *)
(* fixed points (sites) of a line along which every rank moves; a rank can *)
(* go beyond a site only when all ranks have entered the call there.  The  *)
(* facts of this section do not depend on a program.                       *)

\* a[r]: how many calls rank r has entered; b[r]: how far it is on the line;
\* w[r]: is it waiting inside a call?  Ranks with equal counts have entered the
\* same calls, and a rank with one call more has entered the next one.
InStep(R, a, b, w, S) ==
  \A r, s \in R :
    /\ a[r] <= a[s] + 1
    /\ ~w[r] => a[r] <= a[s]
    /\ a[r] = a[s] => \A x \in S : x <= b[r] => x <= b[s]
    /\ a[r] = a[s] + 1 =>
         \E y \in S : /\ b[s] < y /\ y <= b[r]
                      /\ \A x \in S : x <= b[r] => (x <= b[s] \/ x = y)

\* A rank that is not held up enters the call at the next site.
LEMMA EnterSite ==
  ASSUME NEW R, NEW a \in [R -> Nat], NEW b \in [R -> Int], NEW w \in [R -> BOOLEAN],
         NEW S \in SUBSET Int, InStep(R, a, b, w, S),
         NEW r \in R, \A s \in R : a[r] <= a[s],
         NEW y \in S, NEW c \in Int, b[r] < y, y <= c,
         \A x \in S : x <= c => (x <= b[r] \/ x = y)
  PROVE  InStep(R, [a EXCEPT ![r] = @ + 1], [b EXCEPT ![r] = c],
                [w EXCEPT ![r] = TRUE], S)
<1> DEFINE a2 == [a EXCEPT ![r] = @ + 1]
           b2 == [b EXCEPT ![r] = c]
           w2 == [w EXCEPT ![r] = TRUE]
<1>1. /\ a2[r] = a[r] + 1 /\ b2[r] = c /\ w2[r] = TRUE
      /\ \A s \in R : s # r => a2[s] = a[s] /\ b2[s] = b[s] /\ w2[s] = w[s]
  OBVIOUS
<1>2. \A s \in R : a[s] \in Nat /\ b[s] \in Int
  OBVIOUS
<1> HIDE DEF a2, b2, w2
<1> SUFFICES ASSUME NEW p \in R, NEW q \in R
    PROVE /\ a2[p] <= a2[q] + 1
          /\ ~w2[p] => a2[p] <= a2[q]
          /\ a2[p] = a2[q] => \A x \in S : x <= b2[p] => x <= b2[q]
          /\ a2[p] = a2[q] + 1 =>
               \E z \in S : /\ b2[q] < z /\ z <= b2[p]
                            /\ \A x \in S : x <= b2[p] => (x <= b2[q] \/ x = z)
  BY DEF InStep, a2, b2, w2
<1>3. CASE p = r /\ q = r
  BY <1>1, <1>2, <1>3
<1>4. CASE p # r /\ q # r
  <2>1. /\ a2[p] = a[p] /\ b2[p] = b[p] /\ w2[p] = w[p]
        /\ a2[q] = a[q] /\ b2[q] = b[q]
    BY <1>1, <1>4
  <2>2. /\ a[p] <= a[q] + 1
        /\ ~w[p] => a[p] <= a[q]
        /\ a[p] = a[q] => \A x \in S : x <= b[p] => x <= b[q]
        /\ a[p] = a[q] + 1 =>
             \E z \in S : /\ b[q] < z /\ z <= b[p]
                          /\ \A x \in S : x <= b[p] => (x <= b[q] \/ x = z)
    BY Zenon DEF InStep
  <2> QED BY <2>1, <2>2, Zenon
<1>5. CASE p = r /\ q # r
  <2>1. a[r] <= a[q] /\ a[q] <= a[r] + 1
    BY DEF InStep
  <2>2. CASE a[q] = a[r]
    <3>1. \A x \in S : (x <= b[r] => x <= b[q]) /\ (x <= b[q] => x <= b[r])
      BY <2>2 DEF InStep
    <3>2. b[q] < y
      BY <3>1, <1>2
    <3>3. /\ a2[p] = a[r] + 1 /\ a2[q] = a[r] /\ w2[p] = TRUE
          /\ b2[p] = c /\ b2[q] = b[q] /\ a[r] \in Nat
      BY <1>1, <1>2, <1>5, <2>2
    <3>4. a2[p] <= a2[q] + 1 /\ a2[p] # a2[q]
      BY <3>3
    <3>5. \A x \in S : x <= c => (x <= b[q] \/ x = y)
      BY <3>1
    <3>6. \E z \in S : /\ b2[q] < z /\ z <= b2[p]
                      /\ \A x \in S : x <= b2[p] => (x <= b2[q] \/ x = z)
      BY <3>2, <3>3, <3>5, Zenon
    <3> QED BY <3>3, <3>4, <3>6, Zenon
  <2>3. CASE a[q] = a[r] + 1
    <3>1. PICK z \in S : /\ b[r] < z /\ z <= b[q]
                         /\ \A x \in S : x <= b[q] => (x <= b[r] \/ x = z)
      BY <2>3 DEF InStep
    <3>2. y = z
      <4>1. y <= z \/ z <= y  BY <1>2
      <4>2. CASE y <= z  BY <3>1, <4>2, <1>2
      <4>3. CASE z <= y  BY <3>1, <4>3, <1>2
      <4> QED BY <4>1, <4>2, <4>3
    <3>3. \A x \in S : x <= c => x <= b[q]
      BY <3>1, <3>2, <1>2
    <3>4. /\ a2[p] = a2[q] /\ a2[q] \in Nat /\ w2[p] = TRUE
          /\ b2[p] = c /\ b2[q] = b[q]
      BY <1>1, <1>2, <1>5, <2>3
    <3>5. a2[p] <= a2[q] + 1 /\ a2[p] # a2[q] + 1
      BY <3>4
    <3> QED BY <3>3, <3>4, <3>5, Zenon
  <2> QED BY <2>1, <2>2, <2>3, <1>2
<1>6. CASE p # r /\ q = r
  <2>1. a[r] <= a[p] /\ a[p] <= a[r] + 1
    BY DEF InStep
  <2>2. CASE a[p] = a[r]
    <3>1. a2[p] = a[r] /\ a2[q] = a[r] + 1 /\ a[r] \in Nat
      BY <1>1, <1>6, <2>2
    <3>2. a2[p] <= a2[q] /\ a2[p] <= a2[q] + 1 /\ a2[p] # a2[q] /\ a2[p] # a2[q] + 1
      BY <3>1
    <3> QED BY <3>2, Zenon
  <2>3. CASE a[p] = a[r] + 1
    <3>1. PICK z \in S : /\ b[r] < z /\ z <= b[p]
                         /\ \A x \in S : x <= b[p] => (x <= b[r] \/ x = z)
      BY <2>3 DEF InStep
    <3>2. y = z
      <4>1. y <= z \/ z <= y  BY <1>2
      <4>2. CASE y <= z  BY <3>1, <4>2, <1>2
      <4>3. CASE z <= y  BY <3>1, <4>3, <1>2
      <4> QED BY <4>1, <4>2, <4>3
    <3>3. \A x \in S : x <= b[p] => x <= c
      BY <3>1, <3>2, <1>2
    <3>4. /\ a2[p] = a2[q] /\ a2[q] \in Nat
          /\ b2[p] = b[p] /\ b2[q] = c
      BY <1>1, <1>2, <1>6, <2>3
    <3>5. a2[p] <= a2[q] /\ a2[p] <= a2[q] + 1 /\ a2[p] # a2[q] + 1
      BY <3>4
    <3> QED BY <3>3, <3>4, <3>5, Zenon
  <2> QED BY <2>1, <2>2, <2>3, <1>2
<1> QED BY <1>3, <1>4, <1>5, <1>6

\* A rank that is not held up moves on without reaching another site.
LEMMA MoveOn ==
  ASSUME NEW R, NEW a \in [R -> Nat], NEW b \in [R -> Int], NEW w \in [R -> BOOLEAN],
         NEW S \in SUBSET Int, InStep(R, a, b, w, S),
         NEW r \in R, \A s \in R : a[r] <= a[s],
         NEW c \in Int, b[r] <= c, \A x \in S : x <= c => x <= b[r],
         NEW v \in BOOLEAN
  PROVE  InStep(R, a, [b EXCEPT ![r] = c], [w EXCEPT ![r] = v], S)
<1> DEFINE b2 == [b EXCEPT ![r] = c]
           w2 == [w EXCEPT ![r] = v]
<1>1. /\ b2[r] = c
      /\ \A s \in R : s # r => b2[s] = b[s] /\ w2[s] = w[s]
  OBVIOUS
<1>2. \A s \in R : a[s] \in Nat /\ b[s] \in Int
  OBVIOUS
<1>3. \A s \in R, x \in S : x <= b2[s] <=> x <= b[s]
  BY <1>1, <1>2
<1> HIDE DEF b2, w2
<1>4. ASSUME NEW p \in R, NEW q \in R
      PROVE /\ a[p] <= a[q] + 1
            /\ ~w2[p] => a[p] <= a[q]
            /\ a[p] = a[q] => \A x \in S : x <= b2[p] => x <= b2[q]
  <2>1. ~w2[p] => a[p] <= a[q]
    BY <1>1 DEF InStep
  <2> QED BY <1>3, <2>1 DEF InStep
<1>5. ASSUME NEW p \in R, NEW q \in R, a[p] = a[q] + 1
      PROVE \E z \in S : /\ b2[q] < z /\ z <= b2[p]
                         /\ \A x \in S : x <= b2[p] => (x <= b2[q] \/ x = z)
  <2>1. PICK z \in S : /\ b[q] < z /\ z <= b[p]
                       /\ \A x \in S : x <= b[p] => (x <= b[q] \/ x = z)
    BY <1>5 DEF InStep
  <2>2. b2[q] < z /\ z <= b2[p]
    <3>1. ~(z <= b[q])  BY <2>1, <1>2
    <3>2. ~(z <= b2[q]) /\ z <= b2[p]  BY <3>1, <2>1, <1>3
    <3>3. b2[q] \in Int  BY <1>1, <1>2
    <3> QED BY <3>2, <3>3
  <2> QED BY <2>1, <2>2, <1>3
<1> QED BY <1>4, <1>5 DEF InStep, b2, w2

-----------------------------------------------------------------------------
(* The line of Scheduler.                                                  *)


FirstOf == {First(b) : b \in Calls}
LastOf == {Batches[b] : b \in Calls}

\* There is a barrier of a level before the operation at position p.
Jump(p) == p \notin FirstOf /\ Level[order[p]] # Level[order[p - 1]]

IsSite(x, p) ==
  \/ x = 5 * p /\ p \in FirstOf
  \/ x = 5 * p + 1 /\ Jump(p)
  \/ x = 5 * p + 2 /\ Collective(OpAt(p))
  \/ x = 5 * p + 3 /\ p \in LastOf
  \/ x = 5 * p + 4 /\ p \in LastOf

Sites == {x \in Int : \E p \in Positions : IsSite(x, p)}

\* How far a rank has come: all sites up to here are behind it or, when it
\* waits, the last one is where it is.
Bound(r) ==
  IF pc[r] = "user" THEN 5 * start[r] + 4
  ELSE IF pc[r] = "alloc" THEN 5 * (start[r] + 1)
  ELSE IF pc[r] = "next" THEN (IF pos[r] = start[r] + 1 THEN 5 * pos[r] ELSE 5 * (pos[r] - 1) + 2)
  ELSE IF pc[r] = "level" THEN 5 * pos[r] + 1
  ELSE IF pc[r] \in {"op", "coll"} THEN 5 * pos[r] + 2
  ELSE IF pc[r] = "final" THEN 5 * Size(r) + 3
  ELSE 5 * Size(r) + 4

\* How the variables of a rank belong together.
Place(r) ==
  /\ pc[r] # "user" => call[r] \in Calls
  /\ start[r] = IF pc[r] = "free" THEN Size(r) ELSE First(call[r]) - 1
  /\ pc[r] \in {"user", "alloc"} => pos[r] = First(call[r])
  /\ pc[r] = "next" =>
       /\ pos[r] \in First(call[r]) .. Size(r) + 1
       /\ lvl[r] = IF pos[r] = First(call[r]) THEN 0 ELSE Level[order[pos[r] - 1]]
  /\ pc[r] \in {"level", "op", "coll"} =>
       /\ pos[r] \in First(call[r]) .. Size(r)
       /\ lvl[r] = Level[order[pos[r]]]
  /\ pc[r] = "level" => Jump(pos[r])
  /\ pc[r] = "coll" => Collective(OpAt(pos[r]))
  /\ pc[r] = "op" => ~Collective(OpAt(pos[r]))
  /\ pc[r] \in {"final", "free"} => pos[r] = Size(r) + 1

Together ==
  InStep(Ranks, arrived, [r \in Ranks |-> Bound(r)],
         [r \in Ranks |-> pc[r] \in Waiting], Sites)

IInv == TypeOK /\ order \in Orders /\ (\A r \in Ranks : Place(r)) /\ Together

-----------------------------------------------------------------------------
(* The calls' positions.                                                   *)

\* A call has operations, one after the other, and calls follow each other.
LEMMA CallFacts ==
  /\ Len(Batches) \in Nat /\ NOps \in Nat
  /\ \A b \in Calls : /\ b \in Nat /\ First(b) \in Nat \ {0} /\ Batches[b] \in Nat \ {0}
                      /\ First(b) <= Batches[b] /\ Batches[b] <= NOps
                      /\ First(b + 1) = Batches[b] + 1
  /\ First(1) = 1
  /\ \A b, c \in Calls : b < c => Batches[b] < First(c)
  <1>1. /\ Len(Batches) \in Nat /\ NOps \in Nat
        /\ \A b \in Calls : b \in Nat /\ Batches[b] \in Nat /\ 1 <= Batches[b] /\ Batches[b] <= NOps
        /\ \A a, b \in Calls : a < b => Batches[a] < Batches[b]
    BY SchedulerAssumption DEF Calls, Positions, NOps
  <1>2. ASSUME NEW b \in Calls
        PROVE  /\ First(b) \in Nat \ {0} /\ First(b) <= Batches[b]
               /\ First(b + 1) = Batches[b] + 1
    <2>1. First(b + 1) = Batches[b] + 1
      BY <1>1 DEF First, Calls
    <2>2. CASE b = 1
      BY <1>1, <2>1, <2>2 DEF First
    <2>3. CASE b # 1
      <3>1. b - 1 \in Calls /\ b - 1 < b
        BY <1>1, <2>3 DEF Calls
      <3>2. First(b) = Batches[b - 1] + 1 /\ Batches[b - 1] < Batches[b]
        BY <1>1, <2>3, <3>1 DEF First
      <3>3. QED
        BY <1>1, <2>1, <3>1, <3>2
    <2>4. QED
      BY <2>2, <2>3
  <1>3. ASSUME NEW b \in Calls, NEW c \in Calls, b < c
        PROVE  Batches[b] < First(c)
    <2>1. c # 1 /\ c - 1 \in Calls /\ b <= c - 1 /\ c \in Nat /\ b \in Nat
      BY <1>1, <1>3 DEF Calls
    <2>2. Batches[b] <= Batches[c - 1]
      BY <1>1, <2>1
    <2>3. QED
      BY <1>1, <2>1, <2>2 DEF First
  <1>4. QED
    BY <1>1, <1>2, <1>3 DEF First

\* Inside a call no call begins or ends.
LEMMA InsideCall ==
  ASSUME NEW b \in Calls, NEW p \in First(b) + 1 .. Batches[b]
  PROVE  p \notin FirstOf /\ p - 1 \notin LastOf
  <1>1. /\ b \in Nat /\ First(b) \in Nat /\ Batches[b] \in Nat
        /\ \A c \in Calls : c \in Nat /\ First(c) \in Nat /\ Batches[c] \in Nat /\ First(c) <= Batches[c]
        /\ \A c, d \in Calls : c < d => Batches[c] < First(d)
    BY CallFacts
  <1>2. ASSUME NEW c \in Calls
        PROVE  p # First(c) /\ p - 1 # Batches[c]
    <2>1. CASE c < b
      <3>1. Batches[c] < First(b)  BY <1>1, <2>1
      <3>2. QED  BY <1>1, <3>1
    <2>2. CASE b < c
      <3>1. Batches[b] < First(c)  BY <1>1, <2>2
      <3>2. QED  BY <1>1, <3>1
    <2>3. CASE b = c
      BY <1>1, <2>3
    <2>4. QED
      BY <1>1, <2>1, <2>2, <2>3
  <1>3. QED
    BY <1>2 DEF FirstOf, LastOf

-----------------------------------------------------------------------------
(* Where sites are, and where there are none.                              *)

LEMMA SiteAt ==
  ASSUME NEW p \in Positions, NEW x \in Int
  PROVE  /\ IsSite(x, p) => x \in Sites
         /\ x \in 5 * p .. 5 * p + 4 /\ x \in Sites => IsSite(x, p)
  <1>1. IsSite(x, p) => x \in Sites
    BY DEF Sites
  <1>2. ASSUME x \in 5 * p .. 5 * p + 4, x \in Sites
        PROVE  IsSite(x, p)
    <2>1. PICK q \in Positions : IsSite(x, q)
      BY <1>2 DEF Sites
    <2>2. p \in Int /\ q \in Int
      BY CallFacts DEF Positions
    <2>3. x \in 5 * q .. 5 * q + 4
      BY <2>1, <2>2 DEF IsSite
    <2>4. p = q
      BY <1>2, <2>2, <2>3
    <2>5. QED
      BY <2>1, <2>4
  <1>3. QED
    BY <1>1, <1>2

\* Between an operation and the next one of the same call there is at most a
\* barrier.
LEMMA GapBeforeLevel ==
  ASSUME NEW b \in Calls, NEW p \in First(b) + 1 .. Batches[b],
         NEW x \in Sites, x <= 5 * p + 1
  PROVE  x <= 5 * (p - 1) + 2 \/ x = 5 * p + 1
  <1>1. /\ p \in Positions /\ p - 1 \in Positions /\ p \in Int /\ x \in Int
        /\ p \notin FirstOf /\ p - 1 \notin LastOf
    BY CallFacts, InsideCall DEF Positions, Sites
  <1> SUFFICES ASSUME x > 5 * (p - 1) + 2, x # 5 * p + 1
               PROVE  FALSE
    BY <1>1
  <1>2. CASE x = 5 * p
    <2>1. IsSite(x, p)
      BY <1>1, <1>2, SiteAt
    <2>2. QED
      BY <1>1, <1>2, <2>1 DEF IsSite
  <1>3. CASE x = 5 * (p - 1) + 3 \/ x = 5 * (p - 1) + 4
    <2>1. IsSite(x, p - 1)
      BY <1>1, <1>3, SiteAt
    <2>2. QED
      BY <1>1, <1>3, <2>1 DEF IsSite
  <1>4. QED
    BY <1>1, <1>2, <1>3

\* An operation that needs no barrier is reached without passing a site.
LEMMA GapBeforeOp ==
  ASSUME NEW b \in Calls, NEW p \in First(b) .. Batches[b], ~Jump(p),
         NEW x \in Sites, x <= 5 * p + 2
  PROVE  x <= (IF p = First(b) THEN 5 * p ELSE 5 * (p - 1) + 2) \/ x = 5 * p + 2
  <1>1. p \in Positions /\ p \in Int /\ x \in Int
    BY CallFacts DEF Positions, Sites
  <1>2. x # 5 * p + 1
    <2>1. SUFFICES ASSUME x = 5 * p + 1
                   PROVE  FALSE
      OBVIOUS
    <2>2. IsSite(x, p)
      BY <1>1, <2>1, SiteAt
    <2>3. QED
      BY <1>1, <2>1, <2>2 DEF IsSite
  <1>3. CASE p = First(b)
    <2>1. x <= 5 * p \/ x = 5 * p + 2
      BY <1>1, <1>2
    <2>2. QED
      BY <1>3, <2>1, Zenon
  <1>4. CASE p # First(b)
    <2>1. p \in First(b) + 1 .. Batches[b]
      BY <1>4, CallFacts
    <2>2. x <= 5 * p + 1 => (x <= 5 * (p - 1) + 2 \/ x = 5 * p + 1)
      BY <2>1, GapBeforeLevel
    <2>3. QED
      BY <1>1, <1>2, <1>4, <2>2
  <1>5. QED
    BY <1>3, <1>4

\* The level at a barrier is one above that of the operation before it, and a
\* call starts on level 0.
LEMMA LevelsAlongOrder ==
  ASSUME TypeOK, order \in Orders, NEW b \in Calls
  PROVE  /\ Level[order[First(b)]] = 0
         /\ \A p \in First(b) + 1 .. Batches[b] :
              Level[order[p]] <= Level[order[p - 1]] + 1
  <1> DEFINE f == First(b)  l == Batches[b]
  <1>1. f \in Nat \ {0} /\ l \in Nat /\ f <= l /\ l <= NOps
    BY CallFacts
  <1>2. \A k \in f .. l : Level[k] \in Nat
    BY <1>1, PlanAssumption, CallFacts DEF Positions
  <1>3. IsLevelling(Program, f .. l, Level) /\ IsOrdering(f .. l, Level, order)
    BY PlanAssumption DEF BatchOf, Last
  <1> HIDE DEF f, l
  <1>4. /\ Level[order[f]] = 0
        /\ \A k \in f .. l - 1 : Level[order[k + 1]] <= Level[order[k]] + 1
    <2>1. f \in Int /\ l \in Int
      BY <1>1
    <2>2. \A k \in f .. l : Level[k] = 0 \/ \E a \in f .. l : Level[k] = Level[a] + 1
      BY <1>3 DEF IsLevelling
    <2>3. /\ \A k \in f .. l : order[k] \in f .. l
          /\ \A o \in f .. l : \E k \in f .. l : order[k] = o
          /\ \A k, m \in f .. l : k < m => Level[order[k]] <= Level[order[m]]
      BY <1>3, Zenon DEF IsOrdering
    <2>4. QED
      BY <1>1, <1>2, <2>1, <2>2, <2>3, OrderRisesByOne, Zenon
  <1>5. ASSUME NEW p \in f + 1 .. l
        PROVE  Level[order[p]] <= Level[order[p - 1]] + 1
    <2>1. p - 1 \in f .. l - 1 /\ (p - 1) + 1 = p
      BY <1>1
    <2>2. QED
      BY <1>4, <2>1
  <1>6. QED
    BY <1>4, <1>5 DEF f, l

-----------------------------------------------------------------------------
(* A step of one rank leaves the others where they are.                    *)

Others(r) ==
  /\ order' = order
  /\ \A s \in Ranks \ {r} :
       /\ pc'[s] = pc[s] /\ call'[s] = call[s] /\ start'[s] = start[s]
       /\ pos'[s] = pos[s] /\ lvl'[s] = lvl[s]

LEMMA Frame ==
  ASSUME \A s \in Ranks : Place(s), NEW r \in Ranks, Others(r),
         NEW s \in Ranks, s # r
  PROVE  /\ Place(s)'
         /\ Bound(s)' = Bound(s)
         /\ (pc[s] \in Waiting)' <=> pc[s] \in Waiting
  <1>1. /\ order' = order /\ pc'[s] = pc[s] /\ call'[s] = call[s]
        /\ start'[s] = start[s] /\ pos'[s] = pos[s] /\ lvl'[s] = lvl[s]
    BY DEF Others
  <1>2. Place(s)' <=> Place(s)
    BY <1>1 DEF Place, Size, Jump, OpAt
  <1>3. Bound(s)' = Bound(s)
    BY <1>1 DEF Bound, Size
  <1>4. QED
    BY <1>1, <1>2, <1>3

LEMMA BoundInt ==
  ASSUME TypeOK, \A r \in Ranks : Place(r), NEW r \in Ranks
  PROVE  Bound(r) \in Int
  <1>1. start[r] \in Int /\ pos[r] \in Int
    BY CallFacts DEF TypeOK
  <1>2. pc[r] \in {"final", "free"} => Size(r) \in Int
    BY CallFacts DEF Place, Size
  <1>3. pc[r] \in PC
    BY DEF TypeOK
  <1>4. QED
    BY <1>1, <1>2, <1>3 DEF Bound, PC

\* A rank that is not inside a collective call, or that may leave it, has
\* entered no call that another rank has not entered.
LEMMA NotAhead ==
  ASSUME TypeOK, Together, NEW r \in Ranks, pc[r] \notin Waiting \/ Passed(r)
  PROVE  \A s \in Ranks : arrived[r] <= arrived[s]
  <1>1. CASE pc[r] \notin Waiting
    <2>1. ~[q \in Ranks |-> pc[q] \in Waiting][r]
      BY <1>1
    <2>2. QED
      BY <2>1, Zenon DEF Together, InStep
  <1>2. CASE Passed(r)
    <2>1. \A s \in Ranks : arrived[s] \in Int
      BY DEF TypeOK
    <2>2. QED
      BY <1>2, <2>1 DEF Passed
  <1>3. QED
    BY <1>1, <1>2

LEMMA Enters ==
  ASSUME TypeOK, \A s \in Ranks : Place(s), Together, NEW r \in Ranks, Others(r),
         \A s \in Ranks : arrived[r] <= arrived[s],
         arrived' = [arrived EXCEPT ![r] = @ + 1],
         NEW y \in Sites, Bound(r)' = y, Bound(r) < y,
         \A x \in Sites : x <= y => (x <= Bound(r) \/ x = y),
         (pc[r] \in Waiting)'
  PROVE  Together'
  <1> DEFINE b == [s \in Ranks |-> Bound(s)]
             w == [s \in Ranks |-> pc[s] \in Waiting]
  <1>1. /\ arrived \in [Ranks -> Nat] /\ b \in [Ranks -> Int] /\ w \in [Ranks -> BOOLEAN]
        /\ Sites \in SUBSET Int /\ y \in Int /\ b[r] = Bound(r)
    <2>1. \A s \in Ranks : Bound(s) \in Int
      BY BoundInt
    <2>2. b \in [Ranks -> Int] /\ b[r] = Bound(r)
      BY <2>1
    <2>3. Sites \in SUBSET Int /\ y \in Int
      BY DEF Sites
    <2>4. arrived \in [Ranks -> Nat] /\ w \in [Ranks -> BOOLEAN]
      BY DEF TypeOK
    <2>5. QED
      BY <2>2, <2>3, <2>4
  <1>2. b' = [b EXCEPT ![r] = y]
    <2>1. \A s \in Ranks : Bound(s)' = IF s = r THEN y ELSE Bound(s)
      BY Frame
    <2>2. QED
      BY <2>1
  <1>3. w' = [w EXCEPT ![r] = TRUE]
    <2>1. \A s \in Ranks : s # r => ((pc[s] \in Waiting)' <=> pc[s] \in Waiting)
      BY Frame
    <2>2. \A s \in Ranks : s # r => w'[s] = [w EXCEPT ![r] = TRUE][s]
      BY <2>1
    <2>3. w'[r] = TRUE /\ [w EXCEPT ![r] = TRUE][r] = TRUE
      OBVIOUS
    <2>4. \A s \in Ranks : w'[s] = [w EXCEPT ![r] = TRUE][s]
      BY <2>2, <2>3, Zenon
    <2>5. QED
      BY <2>4
  <1>4. Sites' = Sites
    BY DEF Others, Sites, IsSite, Jump, OpAt
  <1>5. InStep(Ranks, arrived, b, w, Sites)
    BY DEF Together
  <1> HIDE DEF b, w
  <1>6. /\ \A x \in Sites : x <= y => (x <= b[r] \/ x = y)
        /\ b[r] < y /\ y <= y
    BY <1>1
  <1>7. InStep(Ranks, [arrived EXCEPT ![r] = @ + 1], [b EXCEPT ![r] = y],
               [w EXCEPT ![r] = TRUE], Sites)
    BY <1>1, <1>5, <1>6, EnterSite, Zenon
  <1>8. InStep(Ranks, arrived', b', w', Sites')
    BY <1>2, <1>3, <1>4, <1>7, Zenon
  <1>9. QED
    BY <1>8 DEF Together, b, w

LEMMA Advances ==
  ASSUME TypeOK, \A s \in Ranks : Place(s), Together, NEW r \in Ranks, Others(r),
         \A s \in Ranks : arrived[r] <= arrived[s],
         UNCHANGED arrived,
         NEW c \in Int, Bound(r)' = c, Bound(r) <= c,
         \A x \in Sites : x <= c => x <= Bound(r)
  PROVE  Together'
  <1> DEFINE b == [s \in Ranks |-> Bound(s)]
             w == [s \in Ranks |-> pc[s] \in Waiting]
             v == (pc[r] \in Waiting)'
  <1>1. /\ arrived \in [Ranks -> Nat] /\ b \in [Ranks -> Int] /\ w \in [Ranks -> BOOLEAN]
        /\ Sites \in SUBSET Int /\ b[r] = Bound(r) /\ v \in BOOLEAN
    BY BoundInt DEF TypeOK, Sites
  <1>2. b' = [b EXCEPT ![r] = c]
    <2>1. \A s \in Ranks : Bound(s)' = IF s = r THEN c ELSE Bound(s)
      BY Frame
    <2>2. QED
      BY <2>1
  <1>3. w' = [w EXCEPT ![r] = v]
    <2>1. \A s \in Ranks : s # r => ((pc[s] \in Waiting)' <=> pc[s] \in Waiting)
      BY Frame
    <2>2. \A s \in Ranks : w'[s] = [w EXCEPT ![r] = v][s]
      BY <2>1
    <2>3. QED
      BY <2>2
  <1>4. Sites' = Sites
    BY DEF Others, Sites, IsSite, Jump, OpAt
  <1>5. InStep(Ranks, arrived, b, w, Sites)
    BY DEF Together
  <1> HIDE DEF b, w, v
  <1>6. b[r] <= c /\ \A x \in Sites : x <= c => x <= b[r]
    BY <1>1
  <1>7. InStep(Ranks, arrived, [b EXCEPT ![r] = c], [w EXCEPT ![r] = v], Sites)
    BY <1>1, <1>5, <1>6, MoveOn, Zenon
  <1>8. InStep(Ranks, arrived', b', w', Sites')
    BY <1>2, <1>3, <1>4, <1>7, Zenon
  <1>9. QED
    BY <1>8 DEF Together, b, w

-----------------------------------------------------------------------------
(* Every action keeps the invariant.                                       *)

Kept(r) == TypeOK' /\ Others(r) /\ Place(r)' /\ Together'

LEMMA ExecuteKeeps ==
  ASSUME IInv, NEW r \in Ranks, Execute(r)
  PROVE  Kept(r)
  <1>1. /\ pc[r] = "user" /\ call[r] \in Calls /\ start[r] = First(call[r]) - 1
        /\ pos[r] = First(call[r]) /\ TypeOK
    BY DEF IInv, Execute, Place
  <1>2. pc' = [pc EXCEPT ![r] = "alloc"] /\ arrived' = [arrived EXCEPT ![r] = @ + 1]
    BY DEF Execute, Enter
  <1>3. order' = order /\ call' = call /\ start' = start /\ pos' = pos /\ lvl' = lvl
    BY DEF Execute
  <1>4. TypeOK' /\ Others(r) /\ pc'[r] = "alloc"
    <2>1. order' \in [Positions -> Positions] /\ pc' \in [Ranks -> PC]
      BY <1>1, <1>2, <1>3 DEF TypeOK, PC
    <2>2. /\ call' \in [Ranks -> 1 .. Len(Batches) + 1] /\ start' \in [Ranks -> 0 .. NOps]
          /\ pos' \in [Ranks -> 1 .. NOps + 1]
      BY <1>1, <1>2, <1>3 DEF TypeOK
    <2>3. lvl' \in [Ranks -> Nat] /\ arrived' \in [Ranks -> Nat]
      BY <1>1, <1>2, <1>3 DEF TypeOK
    <2>4. Others(r) /\ pc'[r] = "alloc"
      BY <1>1, <1>2, <1>3 DEF TypeOK, Others
    <2>5. QED
      BY <2>1, <2>2, <2>3, <2>4 DEF TypeOK
  <1>5. Place(r)'
    BY <1>1, <1>3, <1>4 DEF Place, Size
  <1> DEFINE y == 5 * (start[r] + 1)
  <1>6. First(call[r]) \in Positions /\ First(call[r]) \in FirstOf /\ start[r] \in Nat
    BY <1>1, CallFacts DEF Positions, FirstOf
  <1>7. y \in Sites /\ y \in Int
    <2>1. y = 5 * First(call[r]) /\ y \in Int
      BY <1>1, <1>6 DEF Positions
    <2>2. IsSite(y, First(call[r]))
      BY <1>6, <2>1, Zenon DEF IsSite
    <2>3. QED
      BY <1>6, <2>1, <2>2, SiteAt
  <1>8. Bound(r) = 5 * start[r] + 4 /\ Bound(r)' = y
    BY <1>1, <1>3, <1>4 DEF Bound
  <1>9. Bound(r) < y /\ \A x \in Sites : x <= y => (x <= Bound(r) \/ x = y)
    BY <1>6, <1>8 DEF Sites
  <1>10. (pc[r] \in Waiting)' /\ pc[r] \notin Waiting
    BY <1>1, <1>4 DEF Waiting
  <1> HIDE DEF y
  <1>11. Together'
    <2>1. (\A s \in Ranks : Place(s)) /\ Together
      BY DEF IInv
    <2>2. \A s \in Ranks : arrived[r] <= arrived[s]
      BY <1>1, <1>10, <2>1, NotAhead
    <2>3. QED
      BY <1>1, <1>2, <1>4, <1>7, <1>8, <1>9, <1>10, <2>1, <2>2, Enters
  <1>12. QED
    BY <1>4, <1>5, <1>11 DEF Kept

LEMMA EnterLoopKeeps ==
  ASSUME IInv, NEW r \in Ranks, EnterLoop(r)
  PROVE  Kept(r)
  <1>1. /\ pc[r] = "alloc" /\ Passed(r) /\ call[r] \in Calls /\ start[r] = First(call[r]) - 1
        /\ pos[r] = First(call[r]) /\ TypeOK
    BY DEF IInv, EnterLoop, Place
  <1>2. /\ pc' = [pc EXCEPT ![r] = "next"] /\ UNCHANGED arrived
        /\ pos' = [pos EXCEPT ![r] = start[r] + 1] /\ lvl' = [lvl EXCEPT ![r] = 0]
    BY DEF EnterLoop, Goto
  <1>3. order' = order /\ call' = call /\ start' = start
    BY DEF EnterLoop
  <1>4. /\ First(call[r]) \in Nat \ {0} /\ Size(r) \in Nat /\ First(call[r]) <= Size(r)
        /\ Size(r) <= NOps /\ NOps \in Nat
    BY <1>1, CallFacts DEF Size
  <1>5. TypeOK' /\ Others(r)
    <2>1. order' \in [Positions -> Positions] /\ pc' \in [Ranks -> PC]
      BY <1>1, <1>2, <1>3, <1>4 DEF TypeOK, PC
    <2>2. /\ call' \in [Ranks -> 1 .. Len(Batches) + 1] /\ start' \in [Ranks -> 0 .. NOps]
          /\ pos' \in [Ranks -> 1 .. NOps + 1]
      BY <1>1, <1>2, <1>3, <1>4 DEF TypeOK
    <2>3. lvl' \in [Ranks -> Nat] /\ arrived' \in [Ranks -> Nat]
      BY <1>1, <1>2, <1>3, <1>4 DEF TypeOK
    <2>4. Others(r)
      BY <1>1, <1>2, <1>3, <1>4 DEF TypeOK, Others
    <2>5. QED
      BY <2>1, <2>2, <2>3, <2>4 DEF TypeOK
  <1>6. /\ pc'[r] = "next" /\ pos'[r] = First(call[r]) /\ lvl'[r] = 0
        /\ call'[r] = call[r] /\ start'[r] = start[r]
    BY <1>1, <1>2, <1>3, <1>4 DEF TypeOK
  <1>7. Place(r)'
    BY <1>1, <1>4, <1>6 DEF Place, Size
  <1>8. Bound(r) = 5 * (start[r] + 1) /\ Bound(r)' = 5 * (start[r] + 1) /\ start[r] \in Nat
    BY <1>1, <1>4, <1>6 DEF Bound, TypeOK
  <1>9. Together'
    <2>1. (\A s \in Ranks : Place(s)) /\ Together
      BY DEF IInv
    <2>2. \A s \in Ranks : arrived[r] <= arrived[s]
      BY <1>1, <2>1, NotAhead
    <2>3. QED
      BY <1>1, <1>2, <1>5, <1>8, <2>1, <2>2, Advances
  <1>10. QED
    BY <1>5, <1>7, <1>9 DEF Kept

LEMMA NextLevelKeeps ==
  ASSUME IInv, NEW r \in Ranks, NextLevel(r)
  PROVE  Kept(r)
  <1> DEFINE p == pos[r]
             b == call[r]
  <1>1. /\ pc[r] = "next" /\ b \in Calls /\ start[r] = First(b) - 1
        /\ p \in First(b) .. Size(r) + 1 /\ p <= Size(r)
        /\ lvl[r] = (IF p = First(b) THEN 0 ELSE Level[order[p - 1]])
        /\ Level[order[p]] # lvl[r] /\ TypeOK /\ order \in Orders
    BY DEF IInv, NextLevel, Place
  <1>2. /\ pc' = [pc EXCEPT ![r] = "level"] /\ arrived' = [arrived EXCEPT ![r] = @ + 1]
        /\ lvl' = [lvl EXCEPT ![r] = @ + 1]
    BY DEF NextLevel, Enter
  <1>3. order' = order /\ call' = call /\ start' = start /\ pos' = pos
    BY DEF NextLevel
  <1>4. /\ First(b) \in Nat \ {0} /\ Size(r) = Batches[b] /\ Batches[b] \in Nat
        /\ First(b) <= Batches[b] /\ Batches[b] <= NOps /\ NOps \in Nat /\ p \in Int
    BY <1>1, CallFacts DEF Size
  <1>5. TypeOK' /\ Others(r)
    <2>1. order' \in [Positions -> Positions] /\ pc' \in [Ranks -> PC]
      BY <1>1, <1>2, <1>3 DEF TypeOK, PC
    <2>2. /\ call' \in [Ranks -> 1 .. Len(Batches) + 1] /\ start' \in [Ranks -> 0 .. NOps]
          /\ pos' \in [Ranks -> 1 .. NOps + 1]
      BY <1>1, <1>2, <1>3 DEF TypeOK
    <2>3. lvl' \in [Ranks -> Nat] /\ arrived' \in [Ranks -> Nat]
      BY <1>1, <1>2, <1>3 DEF TypeOK
    <2>4. Others(r)
      BY <1>1, <1>2, <1>3 DEF TypeOK, Others
    <2>5. QED
      BY <2>1, <2>2, <2>3, <2>4 DEF TypeOK
  <1>6. /\ pc'[r] = "level" /\ lvl'[r] = lvl[r] + 1
        /\ pos'[r] = p /\ call'[r] = b /\ start'[r] = start[r]
    BY <1>1, <1>2, <1>3 DEF TypeOK
  <1>7. p \in First(b) + 1 .. Batches[b] /\ lvl[r] = Level[order[p - 1]]
    <2>1. p # First(b)
      BY <1>1, LevelsAlongOrder
    <2>2. QED
      BY <1>1, <1>4, <2>1
  <1>8. Jump(p)
    BY <1>1, <1>7, InsideCall DEF Jump
  <1>9. Level[order[p]] = lvl[r] + 1
    <2>1. p - 1 \in Positions /\ p \in Positions
      BY <1>4, <1>7 DEF Positions
    <2>2. order[p] \in Positions /\ order[p - 1] \in Positions
      BY <1>1, <2>1 DEF TypeOK
    <2>3. Level[order[p]] \in Nat /\ Level[order[p - 1]] \in Nat
      BY <2>2, PlanAssumption
    <2>4. Level[order[p - 1]] <= Level[order[p]]
      <3>1. IsOrdering(First(b) .. Batches[b], Level, order)
        BY <1>1, PlanAssumption DEF BatchOf, Last
      <3>2. p - 1 \in First(b) .. Batches[b] /\ p \in First(b) .. Batches[b] /\ p - 1 < p
        BY <1>4, <1>7
      <3>3. QED
        BY <3>1, <3>2 DEF IsOrdering
    <2>5. Level[order[p]] <= Level[order[p - 1]] + 1
      BY <1>1, <1>7, LevelsAlongOrder
    <2>6. QED
      BY <1>1, <1>7, <2>3, <2>4, <2>5
  <1>10. Place(r)'
    <2>1. Jump(p)'
      BY <1>3, <1>8 DEF Jump
    <2>2. (pc[r] = "level" /\ pos[r] = p /\ call[r] = b /\ start[r] = First(b) - 1)'
      BY <1>1, <1>3, <1>6
    <2>3. lvl'[r] = Level[order'[p]] /\ pos'[r] \in First(b) .. Size(r)'
      BY <1>3, <1>4, <1>6, <1>7, <1>9 DEF Size
    <2>4. Jump(pos[r])'
      BY <1>3, <2>1
    <2>5. QED
      BY <1>1, <1>3, <1>6, <2>2, <2>3, <2>4 DEF Place
  <1> DEFINE y == 5 * p + 1
  <1>11. y \in Sites /\ y \in Int
    <2>1. IsSite(y, p) /\ y \in Int /\ p \in Positions
      BY <1>4, <1>7, <1>8 DEF IsSite, Positions
    <2>2. QED
      BY <2>1, SiteAt
  <1>12. Bound(r) = 5 * (p - 1) + 2 /\ Bound(r)' = y
    <2>1. p # start[r] + 1
      BY <1>1, <1>4, <1>7
    <2>2. QED
      BY <1>1, <1>6, <2>1 DEF Bound
  <1>13. Bound(r) < y /\ \A x \in Sites : x <= y => (x <= Bound(r) \/ x = y)
    BY <1>1, <1>4, <1>7, <1>12, GapBeforeLevel
  <1>14. (pc[r] \in Waiting)' /\ pc[r] \notin Waiting
    BY <1>1, <1>6 DEF Waiting
  <1> HIDE DEF y, p, b
  <1>15. Together'
    <2>1. (\A s \in Ranks : Place(s)) /\ Together
      BY DEF IInv
    <2>2. \A s \in Ranks : arrived[r] <= arrived[s]
      BY <1>1, <1>14, <2>1, NotAhead
    <2>3. QED
      BY <1>1, <1>2, <1>5, <1>11, <1>12, <1>13, <1>14, <2>1, <2>2, Enters
  <1>16. QED
    BY <1>5, <1>10, <1>15 DEF Kept

\* At an operation: what a rank that begins it has passed.
LEMMA ReadyFacts ==
  ASSUME IInv, NEW r \in Ranks, Ready(r)
  PROVE  /\ pc[r] \in {"next", "level"} /\ call[r] \in Calls
         /\ start[r] = First(call[r]) - 1
         /\ pos[r] \in First(call[r]) .. Size(r) /\ pos[r] \in Positions
         /\ lvl[r] = Level[order[pos[r]]]
         /\ pc[r] = "next" => ~Jump(pos[r])
         /\ \A s \in Ranks : arrived[r] <= arrived[s]
         /\ Bound(r) < 5 * pos[r] + 2
         /\ \A x \in Sites : x <= 5 * pos[r] + 2 => (x <= Bound(r) \/ x = 5 * pos[r] + 2)
  <1> DEFINE p == pos[r]
             b == call[r]
  <1>1. /\ pc[r] \in {"next", "level"} /\ b \in Calls /\ start[r] = First(b) - 1
        /\ TypeOK /\ order \in Orders
    BY DEF IInv, Ready, Place
  <1>2. /\ First(b) \in Nat \ {0} /\ Size(r) = Batches[b] /\ Batches[b] \in Nat
        /\ First(b) <= Batches[b] /\ Batches[b] <= NOps /\ NOps \in Nat
    BY <1>1, CallFacts DEF Size
  <1>3. p \in First(b) .. Batches[b] /\ lvl[r] = Level[order[p]]
    BY <1>1, <1>2 DEF IInv, Ready, Place
  <1>4. p \in Positions /\ p \in Int
    BY <1>2, <1>3 DEF Positions
  <1>5. ASSUME pc[r] = "next"
        PROVE  ~Jump(p)
    <2>1. lvl[r] = (IF p = First(b) THEN 0 ELSE Level[order[p - 1]])
      BY <1>5 DEF IInv, Place
    <2>2. CASE p = First(b)
      BY <1>1, <2>2 DEF Jump, FirstOf
    <2>3. CASE p # First(b)
      BY <1>3, <2>1, <2>3 DEF Jump
    <2>4. QED
      BY <2>2, <2>3
  <1>6. \A s \in Ranks : arrived[r] <= arrived[s]
    <2>1. pc[r] \notin Waiting \/ Passed(r)
      BY DEF Ready, Waiting
    <2>2. QED
      BY <1>1, <2>1, NotAhead DEF IInv
  <1>7. Bound(r) = (IF pc[r] = "level" THEN 5 * p + 1
                    ELSE IF p = First(b) THEN 5 * p ELSE 5 * (p - 1) + 2)
    <2>1. p = start[r] + 1 <=> p = First(b)
      BY <1>1, <1>2, <1>4
    <2>2. QED
      BY <1>1, <2>1 DEF Bound
  <1>8. Bound(r) < 5 * p + 2
    BY <1>4, <1>7
  <1>9. ASSUME NEW x \in Sites, x <= 5 * p + 2
        PROVE  x <= Bound(r) \/ x = 5 * p + 2
    <2>1. CASE pc[r] = "level"
      BY <1>4, <1>7, <1>9, <2>1 DEF Sites
    <2>2. CASE pc[r] = "next"
      <3>1. ~Jump(p)
        BY <1>5, <2>2
      <3>2. x <= (IF p = First(b) THEN 5 * p ELSE 5 * (p - 1) + 2) \/ x = 5 * p + 2
        BY <1>1, <1>3, <1>9, <3>1, GapBeforeOp
      <3>3. Bound(r) = (IF p = First(b) THEN 5 * p ELSE 5 * (p - 1) + 2)
        BY <1>7, <2>2
      <3>4. QED
        BY <3>2, <3>3
    <2>3. QED
      BY <1>1, <2>1, <2>2
  <1>10. QED
    BY <1>1, <1>2, <1>3, <1>4, <1>5, <1>6, <1>8, <1>9

LEMMA BeginOpKeeps ==
  ASSUME IInv, NEW r \in Ranks, BeginOp(r)
  PROVE  Kept(r)
  <1> DEFINE p == pos[r]
             y == 5 * p + 2
             site == IF Collective(OpAt(p)) THEN "coll" ELSE "op"
  <1>1. Ready(r) /\ TypeOK
    BY DEF BeginOp, IInv
  <1>2. /\ pc[r] \in {"next", "level"} /\ call[r] \in Calls
        /\ start[r] = First(call[r]) - 1
        /\ p \in First(call[r]) .. Size(r) /\ p \in Positions
        /\ lvl[r] = Level[order[p]]
        /\ \A s \in Ranks : arrived[r] <= arrived[s]
        /\ Bound(r) < y
        /\ \A x \in Sites : x <= y => (x <= Bound(r) \/ x = y)
    BY <1>1, ReadyFacts
  <1>3. /\ pc' = [pc EXCEPT ![r] = site]
        /\ order' = order /\ call' = call /\ start' = start /\ pos' = pos /\ lvl' = lvl
        /\ IF Collective(OpAt(p)) THEN arrived' = [arrived EXCEPT ![r] = @ + 1] ELSE UNCHANGED arrived
    BY DEF BeginOp, Enter, Goto
  <1>4. site \in {"op", "coll"}
    OBVIOUS
  <1>5. TypeOK' /\ Others(r) /\ pc'[r] = site
    <2>1. order' \in [Positions -> Positions] /\ pc' \in [Ranks -> PC]
      BY <1>1, <1>3, <1>4 DEF TypeOK, PC
    <2>2. /\ call' \in [Ranks -> 1 .. Len(Batches) + 1] /\ start' \in [Ranks -> 0 .. NOps]
          /\ pos' \in [Ranks -> 1 .. NOps + 1]
      BY <1>1, <1>3, <1>4 DEF TypeOK
    <2>3. lvl' \in [Ranks -> Nat] /\ arrived' \in [Ranks -> Nat]
      BY <1>1, <1>3, <1>4 DEF TypeOK
    <2>4. Others(r) /\ pc'[r] = site
      BY <1>1, <1>3, <1>4 DEF TypeOK, Others
    <2>5. QED
      BY <2>1, <2>2, <2>3, <2>4 DEF TypeOK
  <1>6. Place(r)'
    <2>1. Collective(OpAt(p))' <=> Collective(OpAt(p))
      BY <1>3 DEF OpAt
    <2>2. (site = "coll" => Collective(OpAt(p))) /\ (site = "op" => ~Collective(OpAt(p)))
      OBVIOUS
    <2> HIDE DEF site, p
    <2>3. (Collective(OpAt(pos[r])))' <=> Collective(OpAt(p))
      BY <1>3, <2>1 DEF p
    <2>4. /\ pc'[r] = "coll" => Collective(OpAt(pos[r]))'
          /\ pc'[r] = "op" => ~Collective(OpAt(pos[r]))'
      BY <1>5, <2>2, <2>3
    <2>5. /\ pc'[r] \in {"op", "coll"} /\ call'[r] \in Calls /\ start'[r] = First(call'[r]) - 1
          /\ pos'[r] \in First(call'[r]) .. Size(r)' /\ lvl'[r] = Level[order'[pos'[r]]]
      BY <1>2, <1>3, <1>4, <1>5 DEF Size, p
    <2>6. QED
      BY <2>4, <2>5 DEF Place
  <1>7. Bound(r)' = y /\ y \in Int
    <2>1. y \in Int
      BY <1>2, CallFacts DEF Positions
    <2>2. pos'[r] = p
      BY <1>3
    <2>3. QED
      BY <1>4, <1>5, <2>1, <2>2 DEF Bound
  <1>8. (\A s \in Ranks : Place(s)) /\ Together
    BY DEF IInv
  <1> HIDE DEF y
  <1>9. CASE Collective(OpAt(p))
    <2>1. y \in Sites
      <3>1. IsSite(y, p)
        BY <1>9 DEF IsSite, y
      <3>2. QED
        BY <1>2, <1>7, <3>1, SiteAt
    <2>2. (pc[r] \in Waiting)'
      BY <1>5, <1>9 DEF Waiting
    <2>3. arrived' = [arrived EXCEPT ![r] = @ + 1]
      BY <1>3, <1>9
    <2>4. Together'
      BY <1>1, <1>2, <1>5, <1>7, <1>8, <2>1, <2>2, <2>3, Enters
    <2>5. QED
      BY <1>5, <1>6, <2>4 DEF Kept
  <1>10. CASE ~Collective(OpAt(p))
    <2>1. y \notin Sites
      <3>1. ~IsSite(y, p)
        <4>1. p \in Nat
          BY <1>2, CallFacts DEF Positions
        <4>2. QED
          BY <1>10, <4>1 DEF IsSite, y
      <3>2. y \in 5 * p .. 5 * p + 4
        BY <1>2, CallFacts DEF y, Positions
      <3>3. QED
        BY <1>2, <1>7, <3>1, <3>2, SiteAt
    <2>2. \A x \in Sites : x <= y => x <= Bound(r)
      BY <1>2, <2>1
    <2>3. UNCHANGED arrived
      BY <1>3, <1>10
    <2>4. Bound(r) <= y
      BY <1>1, <1>2, <1>7, <1>8, BoundInt
    <2>5. Together'
      BY <1>1, <1>2, <1>5, <1>7, <1>8, <2>2, <2>3, <2>4, Advances
    <2>6. QED
      BY <1>5, <1>6, <2>5 DEF Kept
  <1>11. QED
    BY <1>9, <1>10

LEMMA EndOpKeeps ==
  ASSUME IInv, NEW r \in Ranks, EndOp(r)
  PROVE  Kept(r)
  <1> DEFINE p == pos[r]
             b == call[r]
  <1>1. /\ pc[r] \in {"op", "coll"} /\ b \in Calls /\ start[r] = First(b) - 1
        /\ p \in First(b) .. Size(r) /\ lvl[r] = Level[order[p]]
        /\ pc[r] \notin Waiting \/ Passed(r)
        /\ TypeOK
    BY DEF IInv, EndOp, Place, Waiting
  <1>2. /\ First(b) \in Nat \ {0} /\ Size(r) = Batches[b] /\ Batches[b] \in Nat
        /\ Batches[b] <= NOps /\ NOps \in Nat /\ p \in Int
    BY <1>1, CallFacts DEF Size
  <1>3. /\ pc' = [pc EXCEPT ![r] = "next"] /\ pos' = [pos EXCEPT ![r] = p + 1]
        /\ UNCHANGED arrived
        /\ order' = order /\ call' = call /\ start' = start /\ lvl' = lvl
    BY DEF EndOp, Goto
  <1>4. p + 1 \in First(b) .. Batches[b] + 1 /\ p + 1 # First(b) /\ p + 1 \in 1 .. NOps + 1
    BY <1>1, <1>2
  <1>5. TypeOK' /\ Others(r)
    <2>1. order' \in [Positions -> Positions] /\ pc' \in [Ranks -> PC]
      BY <1>1, <1>2, <1>3, <1>4 DEF TypeOK, PC
    <2>2. /\ call' \in [Ranks -> 1 .. Len(Batches) + 1] /\ start' \in [Ranks -> 0 .. NOps]
          /\ pos' \in [Ranks -> 1 .. NOps + 1]
      BY <1>1, <1>3, <1>4 DEF TypeOK
    <2>3. lvl' \in [Ranks -> Nat] /\ arrived' \in [Ranks -> Nat]
      BY <1>1, <1>2, <1>3, <1>4 DEF TypeOK
    <2>4. Others(r)
      BY <1>1, <1>2, <1>3, <1>4 DEF TypeOK, Others
    <2>5. QED
      BY <2>1, <2>2, <2>3, <2>4 DEF TypeOK
  <1>6. /\ pc'[r] = "next" /\ pos'[r] = p + 1 /\ lvl'[r] = lvl[r]
        /\ call'[r] = b /\ start'[r] = start[r] /\ Size(r)' = Batches[b]
    BY <1>1, <1>3 DEF TypeOK, Size
  <1>7. Place(r)'
    <2>1. Level[order'[pos'[r] - 1]] = lvl'[r]
      BY <1>1, <1>2, <1>3, <1>6
    <2>2. QED
      BY <1>1, <1>2, <1>4, <1>6, <2>1 DEF Place
  <1>8. Bound(r) = 5 * p + 2 /\ Bound(r)' = 5 * p + 2 /\ 5 * p + 2 \in Int
    <2>1. pos'[r] # start'[r] + 1 /\ pos'[r] - 1 = p
      BY <1>1, <1>2, <1>4, <1>6
    <2>2. QED
      BY <1>1, <1>2, <1>6, <2>1 DEF Bound
  <1> HIDE DEF p
  <1>9. Together'
    <2>1. (\A s \in Ranks : Place(s)) /\ Together
      BY DEF IInv
    <2>2. \A s \in Ranks : arrived[r] <= arrived[s]
      BY <1>1, <2>1, NotAhead
    <2>3. QED
      BY <1>1, <1>3, <1>5, <1>8, <2>1, <2>2, Advances
  <1>10. QED
    BY <1>5, <1>7, <1>9 DEF Kept

LEMMA EndLoopKeeps ==
  ASSUME IInv, NEW r \in Ranks, EndLoop(r)
  PROVE  Kept(r)
  <1> DEFINE b == call[r]
             y == 5 * Batches[b] + 3
  <1>1. /\ pc[r] = "next" /\ b \in Calls /\ start[r] = First(b) - 1
        /\ pos[r] \in First(b) .. Size(r) + 1 /\ pos[r] > Size(r)
        /\ TypeOK
    BY DEF IInv, EndLoop, Place
  <1>2. /\ First(b) \in Nat \ {0} /\ Size(r) = Batches[b] /\ Batches[b] \in Nat \ {0}
        /\ First(b) <= Batches[b] /\ Batches[b] <= NOps /\ NOps \in Nat
    BY <1>1, CallFacts DEF Size
  <1>3. /\ pc' = [pc EXCEPT ![r] = "final"] /\ arrived' = [arrived EXCEPT ![r] = @ + 1]
        /\ lvl' = [lvl EXCEPT ![r] = @ + 1]
        /\ order' = order /\ call' = call /\ start' = start /\ pos' = pos
    BY DEF EndLoop, Enter
  <1>4. TypeOK' /\ Others(r)
    <2>1. order' \in [Positions -> Positions] /\ pc' \in [Ranks -> PC]
      BY <1>1, <1>3 DEF TypeOK, PC
    <2>2. /\ call' \in [Ranks -> 1 .. Len(Batches) + 1] /\ start' \in [Ranks -> 0 .. NOps]
          /\ pos' \in [Ranks -> 1 .. NOps + 1]
      BY <1>1, <1>3 DEF TypeOK
    <2>3. lvl' \in [Ranks -> Nat] /\ arrived' \in [Ranks -> Nat]
      BY <1>1, <1>3 DEF TypeOK
    <2>4. Others(r)
      BY <1>1, <1>3 DEF TypeOK, Others
    <2>5. QED
      BY <2>1, <2>2, <2>3, <2>4 DEF TypeOK
  <1>5. /\ pc'[r] = "final" /\ pos'[r] = Batches[b] + 1 /\ call'[r] = b /\ start'[r] = start[r]
        /\ Size(r)' = Batches[b]
    <2>1. pos[r] = Batches[b] + 1
      BY <1>1, <1>2
    <2>2. pc'[r] = "final"
      BY <1>1, <1>3 DEF TypeOK
    <2>3. QED
      BY <1>3, <2>1, <2>2 DEF Size
  <1>6. Place(r)'
    BY <1>1, <1>5 DEF Place
  <1>7. y \in Sites /\ y \in Int
    <2>1. IsSite(y, Batches[b]) /\ y \in Int /\ Batches[b] \in Positions
      BY <1>1, <1>2 DEF IsSite, Positions, LastOf
    <2>2. QED
      BY <2>1, SiteAt
  <1>8. Bound(r) = 5 * Batches[b] + 2 /\ Bound(r)' = y
    <2>1. pos[r] # start[r] + 1 /\ pos[r] - 1 = Batches[b]
      BY <1>1, <1>2
    <2>2. QED
      BY <1>1, <1>5, <2>1 DEF Bound
  <1>9. Bound(r) < y /\ \A x \in Sites : x <= y => (x <= Bound(r) \/ x = y)
    BY <1>2, <1>8 DEF Sites
  <1>10. (pc[r] \in Waiting)' /\ pc[r] \notin Waiting
    BY <1>1, <1>5 DEF Waiting
  <1> HIDE DEF y
  <1>11. Together'
    <2>1. (\A s \in Ranks : Place(s)) /\ Together
      BY DEF IInv
    <2>2. \A s \in Ranks : arrived[r] <= arrived[s]
      BY <1>1, <1>10, <2>1, NotAhead
    <2>3. QED
      BY <1>1, <1>3, <1>4, <1>7, <1>8, <1>9, <1>10, <2>1, <2>2, Enters
  <1>12. QED
    BY <1>4, <1>6, <1>11 DEF Kept

LEMMA ExecutedKeeps ==
  ASSUME IInv, NEW r \in Ranks, Executed(r)
  PROVE  Kept(r)
  <1> DEFINE b == call[r]
             y == 5 * Batches[b] + 4
  <1>1. /\ pc[r] = "final" /\ Passed(r) /\ b \in Calls /\ pos[r] = Size(r) + 1
        /\ TypeOK
    BY DEF IInv, Executed, Place
  <1>2. Size(r) = Batches[b] /\ Batches[b] \in Nat \ {0} /\ Batches[b] <= NOps /\ NOps \in Nat
    BY <1>1, CallFacts DEF Size
  <1>3. /\ pc' = [pc EXCEPT ![r] = "free"] /\ arrived' = [arrived EXCEPT ![r] = @ + 1]
        /\ start' = [start EXCEPT ![r] = Batches[b]]
        /\ order' = order /\ call' = call /\ lvl' = lvl /\ pos' = pos
    BY <1>2 DEF Executed, Enter
  <1>4. TypeOK' /\ Others(r)
    <2>1. order' \in [Positions -> Positions] /\ pc' \in [Ranks -> PC]
      BY <1>1, <1>2, <1>3 DEF TypeOK, PC
    <2>2. /\ call' \in [Ranks -> 1 .. Len(Batches) + 1] /\ start' \in [Ranks -> 0 .. NOps]
          /\ pos' \in [Ranks -> 1 .. NOps + 1]
      BY <1>1, <1>2, <1>3 DEF TypeOK
    <2>3. lvl' \in [Ranks -> Nat] /\ arrived' \in [Ranks -> Nat]
      BY <1>1, <1>2, <1>3 DEF TypeOK
    <2>4. Others(r)
      BY <1>1, <1>2, <1>3 DEF TypeOK, Others
    <2>5. QED
      BY <2>1, <2>2, <2>3, <2>4 DEF TypeOK
  <1>5. /\ pc'[r] = "free" /\ pos'[r] = Batches[b] + 1 /\ call'[r] = b
        /\ start'[r] = Batches[b] /\ Size(r)' = Batches[b]
    BY <1>1, <1>2, <1>3 DEF TypeOK, Size
  <1>6. Place(r)'
    BY <1>1, <1>5 DEF Place
  <1>7. y \in Sites /\ y \in Int
    <2>1. IsSite(y, Batches[b]) /\ y \in Int /\ Batches[b] \in Positions
      BY <1>1, <1>2 DEF IsSite, Positions, LastOf
    <2>2. QED
      BY <2>1, SiteAt
  <1>8. Bound(r) = 5 * Batches[b] + 3 /\ Bound(r)' = y
    BY <1>1, <1>2, <1>5 DEF Bound
  <1>9. Bound(r) < y /\ \A x \in Sites : x <= y => (x <= Bound(r) \/ x = y)
    BY <1>2, <1>8 DEF Sites
  <1>10. (pc[r] \in Waiting)'
    BY <1>5 DEF Waiting
  <1> HIDE DEF y
  <1>11. Together'
    <2>1. (\A s \in Ranks : Place(s)) /\ Together
      BY DEF IInv
    <2>2. \A s \in Ranks : arrived[r] <= arrived[s]
      BY <1>1, <2>1, NotAhead
    <2>3. QED
      BY <1>1, <1>3, <1>4, <1>7, <1>8, <1>9, <1>10, <2>1, <2>2, Enters
  <1>12. QED
    BY <1>4, <1>6, <1>11 DEF Kept

LEMMA ReturnKeeps ==
  ASSUME IInv, NEW r \in Ranks, Return(r)
  PROVE  Kept(r)
  <1> DEFINE b == call[r]
             y == 5 * Batches[b] + 4
  <1>1. /\ pc[r] = "free" /\ Passed(r) /\ b \in Calls /\ pos[r] = Size(r) + 1
        /\ start[r] = Size(r) /\ TypeOK
    BY DEF IInv, Return, Place
  <1>2. /\ Size(r) = Batches[b] /\ Batches[b] \in Nat \ {0} /\ First(b + 1) = Batches[b] + 1
        /\ b \in Nat /\ b + 1 \in 1 .. Len(Batches) + 1
    BY <1>1, CallFacts DEF Size, Calls
  <1>3. /\ pc' = [pc EXCEPT ![r] = "user"] /\ UNCHANGED arrived
        /\ call' = [call EXCEPT ![r] = b + 1]
        /\ order' = order /\ start' = start /\ lvl' = lvl /\ pos' = pos
    BY DEF Return, Goto
  <1>4. TypeOK' /\ Others(r)
    <2>1. order' \in [Positions -> Positions] /\ pc' \in [Ranks -> PC]
      BY <1>1, <1>2, <1>3 DEF TypeOK, PC
    <2>2. /\ call' \in [Ranks -> 1 .. Len(Batches) + 1] /\ start' \in [Ranks -> 0 .. NOps]
          /\ pos' \in [Ranks -> 1 .. NOps + 1]
      BY <1>1, <1>2, <1>3 DEF TypeOK
    <2>3. lvl' \in [Ranks -> Nat] /\ arrived' \in [Ranks -> Nat]
      BY <1>1, <1>2, <1>3 DEF TypeOK
    <2>4. Others(r)
      BY <1>1, <1>2, <1>3 DEF TypeOK, Others
    <2>5. QED
      BY <2>1, <2>2, <2>3, <2>4 DEF TypeOK
  <1>5. /\ pc'[r] = "user" /\ pos'[r] = Batches[b] + 1 /\ call'[r] = b + 1
        /\ start'[r] = Batches[b]
    BY <1>1, <1>2, <1>3 DEF TypeOK
  <1>6. Place(r)'
    BY <1>2, <1>5 DEF Place
  <1>7. Bound(r) = y /\ Bound(r)' = y /\ y \in Int
    BY <1>1, <1>2, <1>5 DEF Bound
  <1> HIDE DEF y
  <1>8. Together'
    <2>1. (\A s \in Ranks : Place(s)) /\ Together
      BY DEF IInv
    <2>2. \A s \in Ranks : arrived[r] <= arrived[s]
      BY <1>1, <2>1, NotAhead
    <2>3. QED
      BY <1>1, <1>3, <1>4, <1>7, <2>1, <2>2, Advances
  <1>9. QED
    BY <1>4, <1>6, <1>8 DEF Kept

-----------------------------------------------------------------------------

LEMMA InitHolds ==
  ASSUME Init
  PROVE  IInv
  <1>1. TypeOK
    BY PlanAssumption, CallFacts DEF Init, TypeOK, PC
  <1>2. ASSUME NEW r \in Ranks
        PROVE  Place(r) /\ Bound(r) = 4 /\ arrived[r] = 0
    BY CallFacts DEF Init, Place, Bound
  <1>3. Together
    <2> DEFINE bb == [r \in Ranks |-> Bound(r)]
    <2>1. \A r \in Ranks : bb[r] = 4 /\ arrived[r] = 0
      BY <1>2
    <2> HIDE DEF bb
    <2>2. InStep(Ranks, arrived, bb, [r \in Ranks |-> pc[r] \in Waiting], Sites)
      BY <2>1 DEF InStep
    <2>3. QED
      BY <2>2 DEF Together, bb
  <1>4. order \in Orders
    BY DEF Init
  <1>5. QED
    BY <1>1, <1>2, <1>3, <1>4 DEF IInv

LEMMA StepKept ==
  ASSUME IInv, NEW r \in Ranks, Step(r)
  PROVE  Kept(r)
  BY ExecuteKeeps, EnterLoopKeeps, NextLevelKeeps, BeginOpKeeps, EndOpKeeps,
     EndLoopKeeps, ExecutedKeeps, ReturnKeeps, Zenon DEF Step

LEMMA StepKeeps ==
  ASSUME IInv, [Next]_vars
  PROVE  IInv'
  <1>1. ASSUME NEW r \in Ranks, Step(r)
        PROVE  IInv'
    <2>1. Kept(r)
      BY <1>1, StepKept
    <2>2. \A s \in Ranks : Place(s)'
      BY <2>1, Frame DEF IInv, Kept
    <2>3. order' \in Orders
      BY <2>1 DEF IInv, Kept, Others
    <2>4. QED
      BY <2>1, <2>2, <2>3 DEF IInv, Kept
  <1>2. CASE UNCHANGED vars
    BY <1>2 DEF vars, IInv, TypeOK, Place, Size, Jump, OpAt, Together, Bound, Sites, IsSite
  <1>3. QED
    BY <1>1, <1>2, Zenon DEF Next

THEOREM Invariance == Spec => []IInv
  <1>1. QED
    BY InitHolds, StepKeeps, PTL DEF Spec

-----------------------------------------------------------------------------
(* What follows from the invariant.                                        *)

\* Type correctness of execute(), for any program, calls and group.
THEOREM TypeCorrect == Spec => []TypeOK
  <1>1. IInv => TypeOK
    BY DEF IInv
  <1>2. QED
    BY <1>1, Invariance, PTL

\* A barrier between levels always leads to the level of the next operation:
\* the assertion of execute() never fails (scheduler.hpp:232).
THEOREM LevelAssertedCorrect == Spec => []LevelAsserted
  <1>1. IInv => LevelAsserted
    BY DEF IInv, Place, LevelAsserted
  <1>2. QED
    BY <1>1, Invariance, PTL

\* A rank that waits is at a site, and the site says where.
LEMMA WaitsAtSite ==
  ASSUME IInv, NEW r \in Ranks, pc[r] \in Waiting
  PROVE  /\ Bound(r) \in Sites /\ pos[r] \in Int
         /\ \/ pc[r] = "alloc" /\ Bound(r) = 5 * pos[r]
            \/ pc[r] = "level" /\ Bound(r) = 5 * pos[r] + 1
            \/ pc[r] = "coll"  /\ Bound(r) = 5 * pos[r] + 2
            \/ pc[r] = "final" /\ Bound(r) = 5 * (pos[r] - 1) + 3
            \/ pc[r] = "free"  /\ Bound(r) = 5 * (pos[r] - 1) + 4
  <1> DEFINE b == call[r]
  <1>a. /\ Place(r) /\ pc[r] # "user" /\ TypeOK
    BY DEF IInv, Waiting
  <1>b. b \in Calls /\ Size(r) = Batches[b]
    BY <1>a DEF Place, Size
  <1>c. /\ pos[r] \in Int /\ start[r] \in Int
    BY <1>a, CallFacts DEF TypeOK
  <1>d. /\ Batches[b] \in Nat /\ First(b) \in Nat \ {0} /\ First(b) <= Batches[b]
        /\ Batches[b] <= NOps /\ NOps \in Nat
    BY <1>b, CallFacts
  <1>e. /\ Batches[b] \in Positions /\ First(b) \in Positions
        /\ First(b) .. Batches[b] \subseteq Positions
    BY <1>d DEF Positions
  <1>f. Batches[b] \in LastOf /\ First(b) \in FirstOf
    BY <1>b DEF LastOf, FirstOf
  <1>1. /\ b \in Calls /\ Place(r) /\ pos[r] \in Int /\ start[r] \in Int
        /\ Size(r) = Batches[b] /\ Batches[b] \in Nat /\ First(b) \in Nat
        /\ Batches[b] \in Positions /\ Batches[b] \in LastOf
        /\ First(b) \in Positions /\ First(b) \in FirstOf
        /\ First(b) .. Batches[b] \subseteq Positions
    BY <1>a, <1>b, <1>c, <1>d, <1>e, <1>f, Zenon
  <1>2. CASE pc[r] = "alloc"
    <2>1. Bound(r) = 5 * pos[r] /\ pos[r] = First(b)
      BY <1>1, <1>2 DEF Bound, Place
    <2>2. IsSite(Bound(r), First(b)) /\ Bound(r) \in Int
      BY <1>1, <2>1 DEF IsSite
    <2>3. QED
      BY <1>1, <1>2, <2>1, <2>2, SiteAt
  <1>3. CASE pc[r] = "level"
    <2>1. Bound(r) = 5 * pos[r] + 1 /\ Jump(pos[r]) /\ pos[r] \in Positions
      BY <1>1, <1>3 DEF Bound, Place
    <2>2. IsSite(Bound(r), pos[r]) /\ Bound(r) \in Int
      BY <1>1, <2>1 DEF IsSite
    <2>3. QED
      BY <1>1, <1>3, <2>1, <2>2, SiteAt
  <1>4. CASE pc[r] = "coll"
    <2>1. Bound(r) = 5 * pos[r] + 2 /\ Collective(OpAt(pos[r])) /\ pos[r] \in Positions
      BY <1>1, <1>4 DEF Bound, Place
    <2>2. IsSite(Bound(r), pos[r]) /\ Bound(r) \in Int
      BY <1>1, <2>1 DEF IsSite
    <2>3. QED
      BY <1>1, <1>4, <2>1, <2>2, SiteAt
  <1>5. CASE pc[r] \in {"final", "free"}
    <2>1. pos[r] - 1 = Batches[b]
      BY <1>1, <1>5 DEF Place
    <2>2. \/ pc[r] = "final" /\ Bound(r) = 5 * (pos[r] - 1) + 3
          \/ pc[r] = "free"  /\ Bound(r) = 5 * (pos[r] - 1) + 4
      BY <1>1, <1>5, <2>1 DEF Bound
    <2>3. IsSite(Bound(r), Batches[b]) /\ Bound(r) \in Int
      BY <1>1, <2>1, <2>2 DEF IsSite
    <2>4. QED
      BY <1>1, <2>2, <2>3, SiteAt
  <1>6. QED
    BY <1>2, <1>3, <1>4, <1>5 DEF Waiting

\* How two ranks stand to each other, in terms of the state.
LEMMA TwoRanks ==
  ASSUME IInv, NEW r \in Ranks, NEW s \in Ranks
  PROVE  /\ arrived[r] <= arrived[s] + 1
         /\ pc[r] \notin Waiting => arrived[r] <= arrived[s]
         /\ arrived[r] = arrived[s] => \A x \in Sites : x <= Bound(r) => x <= Bound(s)
         /\ arrived[r] = arrived[s] + 1 =>
              \E y \in Sites : /\ Bound(s) < y /\ y <= Bound(r)
                               /\ \A x \in Sites : x <= Bound(r) => (x <= Bound(s) \/ x = y)
  <1> DEFINE bb == [q \in Ranks |-> Bound(q)]
             ww == [q \in Ranks |-> pc[q] \in Waiting]
  <1>1. bb[r] = Bound(r) /\ bb[s] = Bound(s) /\ (ww[r] <=> pc[r] \in Waiting)
    OBVIOUS
  <1>2. InStep(Ranks, arrived, bb, ww, Sites)
    BY DEF IInv, Together
  <1> HIDE DEF bb, ww
  <1>3. /\ arrived[r] <= arrived[s] + 1
        /\ ~ww[r] => arrived[r] <= arrived[s]
        /\ arrived[r] = arrived[s] => \A x \in Sites : x <= bb[r] => x <= bb[s]
        /\ arrived[r] = arrived[s] + 1 =>
             \E y \in Sites : /\ bb[s] < y /\ y <= bb[r]
                              /\ \A x \in Sites : x <= bb[r] => (x <= bb[s] \/ x = y)
    BY <1>2, Zenon DEF InStep
  <1>4. pc[r] \notin Waiting => arrived[r] <= arrived[s]
    BY <1>1, <1>3, Zenon
  <1>5. arrived[r] = arrived[s] => \A x \in Sites : x <= Bound(r) => x <= Bound(s)
    BY <1>1, <1>3
  <1>6. arrived[r] = arrived[s] + 1 =>
          \E y \in Sites : /\ Bound(s) < y /\ y <= Bound(r)
                           /\ \A x \in Sites : x <= Bound(r) => (x <= Bound(s) \/ x = y)
    BY <1>1, <1>3
  <1>7. QED
    BY <1>3, <1>4, <1>5, <1>6, Zenon

\* Ranks that wait in the same collective call wait at the same place.
THEOREM CollectivesMatchCorrect == Spec => []CollectivesMatch
  <1>1. ASSUME IInv, NEW r \in Ranks, NEW s \in Ranks,
               pc[r] \in Waiting, pc[s] \in Waiting, arrived[r] = arrived[s]
        PROVE  pc[r] = pc[s] /\ pos[r] = pos[s]
    <2>1. Bound(r) \in Sites /\ Bound(s) \in Sites /\ Bound(r) \in Int /\ Bound(s) \in Int
      BY <1>1, WaitsAtSite DEF Sites
    <2>2. Bound(r) <= Bound(s) /\ Bound(s) <= Bound(r)
      BY <1>1, <2>1, TwoRanks
    <2>3. Bound(r) = Bound(s)
      BY <2>1, <2>2
    <2>4. /\ pos[r] \in Int
          /\ \/ pc[r] = "alloc" /\ Bound(r) = 5 * pos[r]
             \/ pc[r] = "level" /\ Bound(r) = 5 * pos[r] + 1
             \/ pc[r] = "coll"  /\ Bound(r) = 5 * pos[r] + 2
             \/ pc[r] = "final" /\ Bound(r) = 5 * (pos[r] - 1) + 3
             \/ pc[r] = "free"  /\ Bound(r) = 5 * (pos[r] - 1) + 4
      BY <1>1, WaitsAtSite, Zenon
    <2>5. /\ pos[s] \in Int
          /\ \/ pc[s] = "alloc" /\ Bound(s) = 5 * pos[s]
             \/ pc[s] = "level" /\ Bound(s) = 5 * pos[s] + 1
             \/ pc[s] = "coll"  /\ Bound(s) = 5 * pos[s] + 2
             \/ pc[s] = "final" /\ Bound(s) = 5 * (pos[s] - 1) + 3
             \/ pc[s] = "free"  /\ Bound(s) = 5 * (pos[s] - 1) + 4
      BY <1>1, WaitsAtSite, Zenon
    <2>6. QED
      BY <2>3, <2>4, <2>5
  <1>2. IInv => CollectivesMatch
    BY <1>1 DEF CollectivesMatch
  <1>3. QED
    BY <1>2, Invariance, PTL

-----------------------------------------------------------------------------
(* Dependent operations are kept apart.                                    *)

LEMMA DependenceSymmetric ==
  ASSUME NEW o1, NEW o2, HasDependence(o1, o2)
  PROVE  HasDependence(o2, o1)
  <1>1. \A S, T : S \cap T = T \cap S
    OBVIOUS
  <1>2. QED
    BY <1>1 DEF HasDependence

\* Between operations of different levels or calls there is a collective call.
LEMMA SiteBetweenLevels ==
  ASSUME TypeOK, order \in Orders, NEW b \in Calls,
         NEW p \in First(b) .. Batches[b], NEW q \in Positions, p < q,
         q > Batches[b] \/ Level[order[p]] # Level[order[q]]
  PROVE  \E x \in Sites : 5 * p + 2 < x /\ x <= 5 * q + 1
  <1>1. /\ First(b) \in Nat \ {0} /\ Batches[b] \in Nat /\ Batches[b] \in Positions
        /\ Batches[b] \in LastOf /\ p \in Int /\ q \in Int /\ p \in Positions
        /\ Batches[b] <= NOps /\ NOps \in Nat
    BY CallFacts DEF Positions, LastOf
  <1>2. CASE q > Batches[b]
    <2> DEFINE x == 5 * Batches[b] + 3
    <2>1. IsSite(x, Batches[b]) /\ x \in Int
      BY <1>1 DEF IsSite
    <2>2. x \in Sites
      BY <1>1, <2>1, SiteAt
    <2>3. 5 * p + 2 < x /\ x <= 5 * q + 1
      BY <1>1, <1>2
    <2>4. QED
      BY <2>2, <2>3
  <1>3. CASE q <= Batches[b]
    <2> DEFINE K == {k \in p + 1 .. q : Level[order[k]] # Level[order[p]]}
    <2>1. q \in First(b) .. Batches[b]
      BY <1>1, <1>3
    <2>4. Level[order[p]] # Level[order[q]]
      BY <1>1, <1>3
    <2>5. K # {} /\ K \subseteq Nat
      BY <1>1, <2>4 DEF Positions
    <2>6. PICK k \in K : \A m \in K : k <= m
      <3> HIDE DEF K
      <3>1. QED
        BY <2>5, LeastNat
    <2>7. /\ k \in p + 1 .. q /\ k \in Int /\ Level[order[k]] # Level[order[p]]
          /\ k \in First(b) + 1 .. Batches[b] /\ k \in Positions
      BY <1>1, <1>3 DEF Positions
    <2>8. Level[order[k - 1]] = Level[order[p]]
      <3>1. k - 1 = p \/ (k - 1 \in p + 1 .. q /\ ~(k <= k - 1))
        BY <1>1, <2>7
      <3>2. k - 1 \notin K \/ k - 1 = p
        BY <2>6, <3>1
      <3>3. QED
        BY <3>1, <3>2
    <2>9. Jump(k)
      BY <2>7, <2>8, InsideCall DEF Jump
    <2> DEFINE x == 5 * k + 1
    <2>10. x \in Sites
      <3>1. IsSite(x, k) /\ x \in Int
        BY <2>7, <2>9 DEF IsSite
      <3>2. QED
        BY <2>7, <3>1, SiteAt
    <2>11. 5 * p + 2 < x /\ x <= 5 * q + 1
      BY <1>1, <2>7
    <2>12. QED
      BY <2>10, <2>11
  <1>4. QED
    BY <1>1, <1>2, <1>3

\* Between dependent operations there is one.
LEMMA SiteBetween ==
  ASSUME TypeOK, order \in Orders, NEW b \in Calls,
         NEW p \in First(b) .. Batches[b], NEW q \in Positions, p < q,
         HasDependence(OpAt(p), OpAt(q))
  PROVE  \E x \in Sites : 5 * p + 2 < x /\ x <= 5 * q + 1
  <1>1. /\ First(b) \in Nat \ {0} /\ Batches[b] \in Nat /\ p \in Positions
        /\ p \in Int /\ q \in Int
    BY CallFacts DEF Positions
  <1>2. CASE q > Batches[b]
    BY <1>2, SiteBetweenLevels
  <1>3. CASE q <= Batches[b]
    <2>1. q \in First(b) .. Batches[b]
      BY <1>1, <1>3
    <2>2. IsOrdering(First(b) .. Batches[b], Level, order)
          /\ IsLevelling(Program, First(b) .. Batches[b], Level)
      BY PlanAssumption DEF BatchOf, Last
    <2>3. order[p] \in First(b) .. Batches[b] /\ order[q] \in First(b) .. Batches[b] /\ order[p] # order[q]
      BY <2>1, <2>2 DEF IsOrdering
    <2>4. Level[order[p]] # Level[order[q]]
      <3>1. order[p] \in Positions /\ order[q] \in Positions
        BY <1>1 DEF TypeOK
      <3>2. Level[order[p]] \in Nat /\ Level[order[q]] \in Nat /\ order[p] \in Int /\ order[q] \in Int
        <4>1. order[p] \in Int /\ order[q] \in Int
          BY <3>1, <1>1 DEF Positions
        <4>2. Level[order[p]] \in Nat /\ Level[order[q]] \in Nat
          BY <3>1, PlanAssumption
        <4>3. QED
          BY <4>1, <4>2
      <3>3. CASE order[p] < order[q]
        <4>1. Before(Program, order[p], order[q])
          BY <3>3 DEF Before, OpAt
        <4>2. Level[order[p]] < Level[order[q]]
          BY <2>2, <2>3, <4>1 DEF IsLevelling
        <4>3. QED
          BY <3>2, <4>2
      <3>4. CASE order[q] < order[p]
        <4>1. Before(Program, order[q], order[p])
          BY <3>4, DependenceSymmetric DEF Before, OpAt
        <4>2. Level[order[q]] < Level[order[p]]
          BY <2>2, <2>3, <4>1 DEF IsLevelling
        <4>3. QED
          BY <3>2, <4>2
      <3>5. QED
        BY <2>3, <3>2, <3>3, <3>4
    <2>5. QED
      BY <2>4, SiteBetweenLevels
  <1>4. QED
    BY <1>1, <1>2, <1>3

\* A rank inside an operation is past every site before it.
LEMMA InsideOp ==
  ASSUME IInv, NEW r \in Ranks, InOp(r)
  PROVE  /\ call[r] \in Calls /\ pos[r] \in First(call[r]) .. Batches[call[r]]
         /\ pos[r] \in Positions /\ pos[r] \in Int
         /\ Bound(r) = 5 * pos[r] + 2
         /\ pc[r] \in Waiting => 5 * pos[r] + 2 \in Sites
  <1>1. pc[r] \in {"op", "coll"} /\ Place(r)
    BY DEF InOp, IInv
  <1>2. call[r] \in Calls /\ pos[r] \in First(call[r]) .. Batches[call[r]]
    BY <1>1 DEF Place, Size
  <1>3. pos[r] \in Positions /\ pos[r] \in Int
    BY <1>2, CallFacts DEF Positions
  <1>4. Bound(r) = 5 * pos[r] + 2
    BY <1>1 DEF Bound
  <1>5. pc[r] \in Waiting => 5 * pos[r] + 2 \in Sites
    BY <1>4, WaitsAtSite
  <1>6. QED
    BY <1>2, <1>3, <1>4, <1>5, Zenon

\* No rank is inside an operation while another is past a site between them.
LEMMA Apart ==
  ASSUME IInv, NEW r \in Ranks, NEW s \in Ranks, InOp(r), InOp(s),
         NEW x \in Sites, 5 * pos[r] + 2 < x, x <= 5 * pos[s] + 1
  PROVE  FALSE
  <1>a. /\ pos[r] \in Int /\ pos[s] \in Int
        /\ Bound(r) = 5 * pos[r] + 2 /\ Bound(s) = 5 * pos[s] + 2
    BY InsideOp, Zenon
  <1>b. arrived[r] \in Int /\ arrived[s] \in Int
    BY DEF IInv, TypeOK
  <1>c. x \in Int
    BY DEF Sites
  <1>1. /\ x \in Int /\ pos[r] \in Int /\ pos[s] \in Int
        /\ Bound(r) = 5 * pos[r] + 2 /\ Bound(s) = 5 * pos[s] + 2
        /\ arrived[r] \in Int /\ arrived[s] \in Int
    BY <1>a, <1>b, <1>c, Zenon
  <1>2. x <= Bound(s) /\ ~(x <= Bound(r)) /\ Bound(r) < Bound(s)
    BY <1>1
  <1>3. CASE arrived[s] = arrived[r]
    <2>1. \A z \in Sites : z <= Bound(s) => z <= Bound(r)
      BY <1>3, TwoRanks
    <2>2. QED
      BY <1>2, <2>1
  <1>4. CASE arrived[s] = arrived[r] + 1
    <2>1. PICK y \in Sites : \A z \in Sites : z <= Bound(s) => (z <= Bound(r) \/ z = y)
      BY <1>4, TwoRanks
    <2>2. ~(arrived[s] <= arrived[r])
      BY <1>1, <1>4
    <2>3. pc[s] \in Waiting
      BY <2>2, TwoRanks, Zenon
    <2>4. 5 * pos[s] + 2 \in Sites
      BY <2>3, InsideOp
    <2>5. x = y
      BY <1>2, <2>1
    <2>6. 5 * pos[s] + 2 = y
      BY <1>1, <2>1, <2>4
    <2>7. QED
      BY <1>1, <2>5, <2>6
  <1>5. CASE arrived[s] # arrived[r] /\ arrived[s] # arrived[r] + 1
    <2>1. arrived[s] <= arrived[r] + 1 /\ arrived[r] <= arrived[s] + 1
      BY TwoRanks
    <2>2. arrived[r] = arrived[s] + 1
      BY <1>1, <1>5, <2>1
    <2>3. PICK y \in Sites : Bound(s) < y /\ y <= Bound(r)
      BY <2>2, TwoRanks
    <2>4. y \in Int
      BY DEF Sites
    <2>5. QED
      BY <1>1, <1>2, <2>3, <2>4
  <1>6. QED
    BY <1>3, <1>4, <1>5

LEMMA EarlierApart ==
  ASSUME IInv, NEW r \in Ranks, NEW s \in Ranks, InOp(r), InOp(s), pos[r] < pos[s]
  PROVE  ~HasDependence(OpAt(pos[r]), OpAt(pos[s]))
  <1> SUFFICES ASSUME HasDependence(OpAt(pos[r]), OpAt(pos[s]))
               PROVE  FALSE
    OBVIOUS
  <1>1. /\ call[r] \in Calls /\ pos[r] \in First(call[r]) .. Batches[call[r]]
        /\ pos[s] \in Positions /\ TypeOK /\ order \in Orders
    BY InsideOp DEF IInv
  <1>2. PICK x \in Sites : 5 * pos[r] + 2 < x /\ x <= 5 * pos[s] + 1
    BY <1>1, SiteBetween
  <1>3. QED
    BY <1>2, Apart

\* Two ranks are never inside two operations that depend on each other, for
\* every program and every number of ranks.
THEOREM NoConflictCorrect == Spec => []NoConflict
  <1>1. ASSUME IInv, NEW r \in Ranks, NEW s \in Ranks, InOp(r), InOp(s), pos[r] # pos[s]
        PROVE  ~HasDependence(OpAt(pos[r]), OpAt(pos[s]))
    <2>1. pos[r] \in Int /\ pos[s] \in Int
      BY <1>1, InsideOp
    <2>2. CASE pos[r] < pos[s]
      BY <1>1, <2>2, EarlierApart
    <2>3. CASE pos[s] < pos[r]
      BY <1>1, <2>3, EarlierApart, DependenceSymmetric
    <2>4. QED
      BY <1>1, <2>1, <2>2, <2>3
  <1>2. IInv => NoConflict
    BY <1>1 DEF NoConflict
  <1>3. QED
    BY <1>2, Invariance, PTL

-----------------------------------------------------------------------------
(* The refinement of Dataflow.                                             *)

\* What comes before an operation of a call belongs to that call or to an earlier one.
LEMMA EarlierCall ==
  ASSUME NEW b \in Calls, NEW o \in BatchOf(b), NEW p \in Positions, p < o
  PROVE  \E c \in Calls : c <= b /\ p \in BatchOf(c)
  <1> DEFINE T == {c \in Calls : p <= Batches[c]}
  <1>1. /\ b \in Nat /\ p \in Nat /\ p <= Batches[b] /\ 1 <= p
        /\ \A c \in Calls : c \in Nat /\ Batches[c] \in Nat
    BY CallFacts DEF BatchOf, Last, Positions
  <1>2. b \in T /\ T \subseteq Nat
    BY <1>1
  <1>3. PICK c \in T : \A d \in T : c <= d
    <2> HIDE DEF T
    <2>1. QED
      BY <1>2, LeastNat
  <1>4. First(c) <= p
    <2>1. CASE c = 1
      BY <1>1, <2>1, CallFacts
    <2>2. CASE c # 1
      <3>1. c - 1 \in Calls /\ c \in Nat
        BY <2>2, CallFacts DEF Calls
      <3>2. c - 1 \notin T
        BY <1>3, <3>1
      <3>3. Batches[c - 1] < p /\ First(c) = Batches[c - 1] + 1
        BY <1>1, <2>2, <3>1, <3>2 DEF First
      <3>4. QED
        BY <1>1, <3>1, <3>3
    <2>3. QED
      BY <2>1, <2>2
  <1>5. c \in Calls /\ c <= b /\ p \in First(c) .. Batches[c]
    BY <1>1, <1>2, <1>3, <1>4, CallFacts
  <1>6. QED
    BY <1>5 DEF BatchOf, Last

\* A rank past a site beyond a position has done the operation there.
LEMMA PastSite ==
  ASSUME IInv, NEW s \in Ranks, NEW p \in Positions, NEW x \in Sites,
         5 * p + 2 < x, x <= Bound(s)
  PROVE  p < pos[s]
  <1>1. /\ TypeOK /\ Place(s) /\ p \in Int /\ x \in Int /\ pc[s] \in PC
        /\ pos[s] \in Int /\ start[s] \in Int
    <2>1. p \in Int /\ x \in Int
      BY DEF Positions, Sites
    <2>2. TypeOK /\ Place(s)
      BY DEF IInv
    <2>3. QED
      BY <2>1, <2>2, CallFacts DEF TypeOK
  <1>2. pc[s] \in {"user", "alloc"} => pos[s] = start[s] + 1
    <2>1. ASSUME pc[s] \in {"user", "alloc"}
          PROVE  pos[s] = start[s] + 1
      <3>1. start[s] = First(call[s]) - 1 /\ pos[s] = First(call[s])
        BY <1>1, <2>1 DEF Place
      <3>2. QED
        BY <1>1, <3>1
    <2>2. QED
      BY <2>1
  <1>3. pc[s] \in {"final", "free"} => pos[s] = Size(s) + 1 /\ Size(s) \in Int
    BY <1>1, CallFacts DEF Place, Size
  <1>4. QED
    BY <1>1, <1>2, <1>3 DEF Bound, PC

\* A site that a rank is past, when it has entered no call that another rank has
\* not, is behind all ranks.
LEMMA AllPast ==
  ASSUME IInv, NEW r \in Ranks, NEW s \in Ranks, arrived[r] <= arrived[s],
         NEW x \in Sites, x <= Bound(r)
  PROVE  x <= Bound(s)
  <1>1. /\ Bound(r) \in Int /\ Bound(s) \in Int /\ x \in Int
        /\ arrived[r] \in Int /\ arrived[s] \in Int
    BY BoundInt DEF IInv, TypeOK, Sites
  <1>2. CASE arrived[r] = arrived[s]
    BY <1>2, TwoRanks
  <1>3. CASE arrived[s] = arrived[r] + 1
    <2>1. PICK y \in Sites : Bound(r) < y /\ y <= Bound(s)
      BY <1>3, TwoRanks
    <2>2. QED
      BY <1>1, <2>1 DEF Sites
  <1>4. arrived[s] <= arrived[r] + 1
    BY TwoRanks
  <1>5. QED
    BY <1>1, <1>2, <1>3, <1>4

\* When a rank begins an operation, all ranks have completed what comes before it in
\* the program and is dependent.
LEMMA DoneBefore ==
  ASSUME IInv, NEW r \in Ranks, Ready(r), NEW s \in Ranks,
         NEW p \in Positions, Before(Program, p, order[pos[r]])
  PROVE  p \in Done(s)
  <1> DEFINE b == call[r]
             k == pos[r]
             o == order[k]
  <1>1. /\ b \in Calls /\ k \in First(b) .. Batches[b] /\ k \in Positions
        /\ arrived[r] <= arrived[s] /\ TypeOK /\ order \in Orders
        /\ \A x \in Sites : x <= 5 * k + 2 => (x <= Bound(r) \/ x = 5 * k + 2)
    BY ReadyFacts DEF Size, IInv
  <1> HIDE DEF b, k
  <1>2. /\ \A c \in Calls : /\ IsLevelling(Program, BatchOf(c), Level)
                            /\ IsOrdering(BatchOf(c), Level, order)
        /\ k \in BatchOf(b)
    BY <1>1, PlanAssumption DEF BatchOf, Last
  <1>3. o \in BatchOf(b) /\ p < o /\ HasDependence(Program[p], Program[o])
    BY <1>1, <1>2 DEF IsOrdering, Before, k
  <1>4. PICK c \in Calls : c <= b /\ p \in BatchOf(c)
    BY <1>1, <1>3, EarlierCall
  <1>5. PICK q \in BatchOf(c) : order[q] = p
    BY <1>2, <1>4 DEF IsOrdering
  <1>6. /\ b \in Nat /\ c \in Nat /\ First(c) \in Nat \ {0} /\ Batches[c] \in Nat
        /\ First(b) \in Nat /\ Batches[c] <= NOps /\ NOps \in Nat
        /\ (c < b => Batches[c] < First(b))
    BY <1>1, CallFacts
  <1>7. /\ q \in First(c) .. Batches[c] /\ q \in Positions /\ q \in Nat /\ k \in Nat
        /\ p \in Nat /\ o \in Nat
    <2>1. q \in First(c) .. Batches[c] /\ q \in Nat
      BY <1>5, <1>6 DEF BatchOf, Last
    <2>2. q \in Positions
      BY <1>6, <2>1 DEF Positions
    <2>3. k \in Nat /\ p \in Nat
      BY <1>1, <1>6 DEF Positions
    <2>4. o \in Nat
      BY <1>3, <1>6 DEF BatchOf, Last
    <2>5. QED
      BY <2>1, <2>2, <2>3, <2>4
  <1>8. q < k
    <2>1. CASE c < b
      BY <1>1, <1>6, <1>7, <2>1
    <2>2. CASE c = b
      <3>1. Before(Program, p, o)
        BY <1>3 DEF Before
      <3>2. Level[p] < Level[o]
        BY <1>2, <1>3, <1>4, <2>2, <3>1 DEF IsLevelling
      <3>3. k < q => Level[o] <= Level[p]
        BY <1>2, <1>5, <2>2 DEF IsOrdering
      <3>4. Level[p] \in Nat /\ Level[o] \in Nat
        BY <1>1, PlanAssumption DEF TypeOK
      <3>5. k # q
        BY <1>3, <1>5, <1>7
      <3>6. QED
        BY <1>7, <3>2, <3>3, <3>4, <3>5
    <2>3. QED
      BY <1>4, <1>6, <2>1, <2>2
  <1>9. PICK x \in Sites : 5 * q + 2 < x /\ x <= 5 * k + 1
    <2>1. HasDependence(OpAt(q), OpAt(k))
      BY <1>3, <1>5 DEF OpAt
    <2>2. QED
      BY <1>1, <1>7, <1>8, <2>1, SiteBetween
  <1>10. x <= Bound(r)
    <2>1. x \in Int
      BY DEF Sites
    <2>2. x <= 5 * k + 2 /\ x # 5 * k + 2
      BY <1>7, <1>9, <2>1
    <2>3. QED
      BY <1>1, <2>2
  <1>11. x <= Bound(s)
    BY <1>1, <1>10, AllPast
  <1>12. q < pos[s]
    BY <1>7, <1>9, <1>11, PastSite
  <1>13. q \in 1 .. pos[s] - 1
    <2>1. pos[s] \in 1 .. NOps + 1
      BY <1>1 DEF TypeOK
    <2>2. pos[s] \in Nat
      BY <1>6, <2>1
    <2>3. QED
      BY <1>6, <1>7, <1>12, <2>2
  <1>14. QED
    BY <1>5, <1>13 DEF Done

StartedOps == UNION {Begun(r) : r \in Ranks}
FinishedOps == {o \in Positions : \A r \in Ranks : o \in Done(r)}

\* What a rank has begun and done follows from its position and from whether it is
\* inside an operation.
LEMMA SameFlow ==
  ASSUME order' = order, pos' = pos, \A s \in Ranks : InOp(s)' <=> InOp(s)
  PROVE  StartedOps' = StartedOps /\ FinishedOps' = FinishedOps
  <1>1. \A s \in Ranks : Begun(s)' = Begun(s)
    BY DEF Begun
  <1>2. \A s \in Ranks : Done(s)' = Done(s)
    BY DEF Done
  <1>3. QED
    BY <1>1, <1>2 DEF StartedOps, FinishedOps

\* The step of a rank that begins an operation.
LEMMA BeginFlow ==
  ASSUME IInv, NEW r \in Ranks, BeginOp(r)
  PROVE  \/ StartedOps' = StartedOps /\ FinishedOps' = FinishedOps
         \/ /\ order[pos[r]] \in Positions
            /\ order[pos[r]] \notin StartedOps
            /\ \A p \in Positions : Before(Program, p, order[pos[r]]) => p \in FinishedOps
            /\ StartedOps' = StartedOps \cup {order[pos[r]]}
            /\ FinishedOps' = FinishedOps
  <1> DEFINE o == order[pos[r]]
  <1>1. Ready(r) /\ order' = order /\ pos' = pos /\ TypeOK
    BY DEF BeginOp, IInv
  <1>2. pc[r] \in {"next", "level"} /\ pos[r] \in Positions
    BY <1>1, ReadyFacts
  <1>3. pc'[r] \in {"coll", "op"} /\ \A s \in Ranks \ {r} : pc'[s] = pc[s]
    BY <1>1 DEF BeginOp, Enter, Goto, TypeOK
  <1>4. FinishedOps' = FinishedOps
    BY <1>1 DEF FinishedOps, Done
  <1>5. \A s \in Ranks : Begun(s)' = IF s = r THEN Begun(s) \cup {o} ELSE Begun(s)
    <2>1. Begun(r)' = Begun(r) \cup {o}
      BY <1>1, <1>2, <1>3 DEF Begun, InOp
    <2>2. \A s \in Ranks \ {r} : Begun(s)' = Begun(s)
      BY <1>1, <1>3 DEF Begun, InOp
    <2>3. QED
      BY <2>1, <2>2
  <1>6. StartedOps' = StartedOps \cup {o}
    BY <1>5 DEF StartedOps
  <1>7. \A p \in Positions : Before(Program, p, o) => p \in FinishedOps
    BY <1>1, DoneBefore DEF FinishedOps
  <1>8. o \in Positions
    BY <1>1, <1>2 DEF TypeOK
  <1>9. QED
    BY <1>4, <1>6, <1>7, <1>8

\* The step of a rank that completes one: the last rank finishes the operation.
LEMMA EndFlow ==
  ASSUME IInv, NEW r \in Ranks, EndOp(r)
  PROVE  \/ StartedOps' = StartedOps /\ FinishedOps' = FinishedOps
         \/ /\ order[pos[r]] \in Positions
            /\ order[pos[r]] \in StartedOps \ FinishedOps
            /\ FinishedOps' = FinishedOps \cup {order[pos[r]]}
            /\ StartedOps' = StartedOps
  <1> DEFINE k == pos[r]
             o == order[k]
  <1>1. /\ InOp(r) /\ order' = order /\ TypeOK
        /\ pos' = [pos EXCEPT ![r] = k + 1] /\ pc' = [pc EXCEPT ![r] = "next"]
    BY DEF EndOp, Goto, InOp, IInv
  <1>2. k \in Positions /\ k \in Nat \ {0}
    BY <1>1, InsideOp DEF Positions
  <1>3. /\ pos'[r] = k + 1 /\ ~InOp(r)'
        /\ \A s \in Ranks \ {r} : pos'[s] = pos[s] /\ pc'[s] = pc[s]
    BY <1>1 DEF TypeOK, InOp
  <1>4. 1 .. (k + 1) - 1 = (1 .. k - 1) \cup {k}
    BY <1>2
  <1>5. Done(r)' = Done(r) \cup {o}
    BY <1>1, <1>3, <1>4 DEF Done
  <1>6. \A s \in Ranks \ {r} : Done(s)' = Done(s) /\ Begun(s)' = Begun(s)
    BY <1>1, <1>3 DEF Done, Begun, InOp
  <1>7. Begun(r)' = Begun(r)
    BY <1>1, <1>3, <1>4 DEF Begun
  <1>8. StartedOps' = StartedOps /\ o \in StartedOps
    <2>1. o \in Begun(r)
      BY <1>1 DEF Begun
    <2>2. QED
      BY <1>6, <1>7, <2>1 DEF StartedOps
  <1>9. o \in Positions
    BY <1>1, <1>2 DEF TypeOK
  <1>10. FinishedOps \subseteq FinishedOps' /\ FinishedOps' \subseteq FinishedOps \cup {o}
    BY <1>5, <1>6 DEF FinishedOps
  <1>11. FinishedOps' = FinishedOps \/ (o \notin FinishedOps /\ FinishedOps' = FinishedOps \cup {o})
    BY <1>10
  <1>12. QED
    BY <1>8, <1>9, <1>11

\* Every step of the ranks is a step of the data flow, or changes nothing of it.
LEMMA FlowStep ==
  ASSUME IInv, [Next]_vars
  PROVE  [Flow!Next]_(Flow!vars)
  <1>1. ASSUME StartedOps' = StartedOps, FinishedOps' = FinishedOps
        PROVE  [Flow!Next]_(Flow!vars)
    BY <1>1 DEF Flow!vars, StartedOps, FinishedOps
  <1>2. DOMAIN Program = Positions
    BY SchedulerAssumption
  <1>3. ASSUME NEW r \in Ranks, Step(r)
        PROVE  [Flow!Next]_(Flow!vars)
    <2>1. TypeOK /\ Place(r)
      BY DEF IInv
    <2>2. CASE BeginOp(r)
      <3>1. CASE StartedOps' = StartedOps /\ FinishedOps' = FinishedOps
        BY <1>1, <3>1
      <3>2. CASE ~(StartedOps' = StartedOps /\ FinishedOps' = FinishedOps)
        <4>1. /\ order[pos[r]] \in Positions
              /\ order[pos[r]] \notin StartedOps
              /\ \A p \in Positions : Before(Program, p, order[pos[r]]) => p \in FinishedOps
              /\ StartedOps' = StartedOps \cup {order[pos[r]]}
              /\ FinishedOps' = FinishedOps
          BY <2>2, <3>2, BeginFlow
        <4>2. \A p, o : Flow!Before(Program, p, o) <=> Before(Program, p, o)
          BY DEF Flow!Before, Flow!HasDependence, Flow!Reads, Flow!Writes, Flow!Accumulates,
                 Before, HasDependence, Reads, Writes, Accumulates
        <4>3. Flow!Start(order[pos[r]])
          BY <1>2, <4>1, <4>2, Zenon DEF Flow!Start, StartedOps, FinishedOps
        <4>4. QED
          BY <1>2, <4>1, <4>3 DEF Flow!Next
      <3>3. QED
        BY <3>1, <3>2
    <2>3. CASE EndOp(r)
      <3>1. CASE StartedOps' = StartedOps /\ FinishedOps' = FinishedOps
        BY <1>1, <3>1
      <3>2. CASE ~(StartedOps' = StartedOps /\ FinishedOps' = FinishedOps)
        <4>1. order[pos[r]] \in Positions /\ Flow!Finish(order[pos[r]])
          BY <2>3, <3>2, EndFlow DEF Flow!Finish, StartedOps, FinishedOps
        <4>2. QED
          BY <1>2, <4>1 DEF Flow!Next
      <3>3. QED
        BY <3>1, <3>2
    <2>4. CASE EnterLoop(r)
      <3>1. /\ pc[r] = "alloc" /\ pos' = [pos EXCEPT ![r] = start[r] + 1]
            /\ pc' = [pc EXCEPT ![r] = "next"] /\ order' = order
        BY <2>4 DEF EnterLoop, Goto
      <3>2. start[r] + 1 = pos[r]
        <4>1. /\ start[r] = First(call[r]) - 1 /\ pos[r] = First(call[r])
              /\ pos[r] \in Int
          BY <2>1, <3>1, CallFacts DEF Place, TypeOK
        <4>2. QED
          BY <4>1
      <3>3. pos' = pos
        BY <2>1, <3>1, <3>2 DEF TypeOK
      <3>4. \A s \in Ranks : InOp(s)' <=> InOp(s)
        BY <2>1, <3>1 DEF InOp, TypeOK
      <3>5. QED
        BY <1>1, <3>1, <3>3, <3>4, SameFlow
    <2>5. ASSUME ~InOp(r), ~InOp(r)', \A s \in Ranks \ {r} : pc'[s] = pc[s],
                 UNCHANGED <<order, pos>>
          PROVE  [Flow!Next]_(Flow!vars)
      <3>1. \A s \in Ranks : InOp(s)' <=> InOp(s)
        BY <2>5 DEF InOp
      <3>2. QED
        BY <1>1, <2>5, <3>1, SameFlow
    <2>6. CASE Execute(r)
      <3>1. /\ ~InOp(r) /\ ~InOp(r)' /\ UNCHANGED <<order, pos>>
            /\ \A s \in Ranks \ {r} : pc'[s] = pc[s]
        BY <2>1, <2>6 DEF Execute, Enter, InOp, TypeOK
      <3>2. QED
        BY <2>5, <3>1
    <2>7. CASE NextLevel(r)
      <3>1. /\ ~InOp(r) /\ ~InOp(r)' /\ UNCHANGED <<order, pos>>
            /\ \A s \in Ranks \ {r} : pc'[s] = pc[s]
        BY <2>1, <2>7 DEF NextLevel, Enter, InOp, TypeOK
      <3>2. QED
        BY <2>5, <3>1
    <2>8. CASE EndLoop(r)
      <3>1. /\ ~InOp(r) /\ ~InOp(r)' /\ UNCHANGED <<order, pos>>
            /\ \A s \in Ranks \ {r} : pc'[s] = pc[s]
        BY <2>1, <2>8 DEF EndLoop, Enter, InOp, TypeOK
      <3>2. QED
        BY <2>5, <3>1
    <2>9. CASE Executed(r)
      <3>1. /\ ~InOp(r) /\ ~InOp(r)' /\ UNCHANGED <<order, pos>>
            /\ \A s \in Ranks \ {r} : pc'[s] = pc[s]
        BY <2>1, <2>9 DEF Executed, Enter, InOp, TypeOK
      <3>2. QED
        BY <2>5, <3>1
    <2>10. CASE Return(r)
      <3>1. /\ ~InOp(r) /\ ~InOp(r)' /\ UNCHANGED <<order, pos>>
            /\ \A s \in Ranks \ {r} : pc'[s] = pc[s]
        BY <2>1, <2>10 DEF Return, Goto, InOp, TypeOK
      <3>2. QED
        BY <2>5, <3>1
    <2>11. QED
      BY <1>3, <2>2, <2>3, <2>4, <2>6, <2>7, <2>8, <2>9, <2>10, Zenon DEF Step
  <1>4. CASE UNCHANGED vars
    <2>1. order' = order /\ pos' = pos /\ \A s \in Ranks : InOp(s)' <=> InOp(s)
      BY <1>4 DEF vars, InOp
    <2>2. QED
      BY <1>1, <2>1, SameFlow
  <1>5. QED
    BY <1>3, <1>4, Zenon DEF Next

\* The scheduler implements the data flow of the program: whatever the program, the
\* calls, the order and the number of ranks, an operation starts on the first rank only
\* after all those it depends on are completed on the last one (scheduler.hpp:228-269).
THEOREM ImplementsDataflow == Spec => FlowSpec
  <1>1. Init => Flow!Init
    <2> SUFFICES ASSUME Init
                 PROVE  StartedOps = {} /\ FinishedOps = {}
      BY DEF Flow!Init, StartedOps, FinishedOps
    <2>1. \A r \in Ranks : Begun(r) = {} /\ Done(r) = {}
      BY DEF Init, Begun, Done, InOp
    <2>2. QED
      BY <2>1, SchedulerAssumption DEF StartedOps, FinishedOps
  <1>2. ASSUME IInv, [Next]_vars
        PROVE  [Flow!Next]_(Flow!vars)
    BY <1>2, FlowStep
  <1>3. QED
    BY <1>1, <1>2, Invariance, PTL DEF Spec, FlowSpec, Flow!Spec

-----------------------------------------------------------------------------
(* The order of execution.                                                 *)

Where(o) == CHOOSE p \in Positions : order[p] = o

\* An order of execution is a permutation of the program.
LEMMA OrderFacts ==
  ASSUME order \in Orders
  PROVE  /\ order \in [Positions -> Positions]
         /\ \A p, q \in Positions : order[p] = order[q] => p = q
         /\ \A o \in Positions : Where(o) \in Positions /\ order[Where(o)] = o
         /\ \A p \in Positions : Where(order[p]) = p
  <1>1. /\ order \in [Positions -> Positions]
        /\ \A b \in Calls : IsOrdering(BatchOf(b), Level, order)
    BY PlanAssumption
  <1>2. /\ \A o \in Positions : \E b \in Calls : o \in BatchOf(b)
        /\ \A b \in Calls : BatchOf(b) \subseteq Positions
    <2>1. \A o \in Positions : \E b \in Calls : o \in BatchOf(b)
      BY ExecAssumption
    <2>2. \A b \in Calls : BatchOf(b) \subseteq Positions
      BY CallFacts DEF BatchOf, Last, Positions
    <2>3. QED
      BY <2>1, <2>2
  <1>3. ASSUME NEW b \in Calls, NEW c \in Calls, NEW k \in BatchOf(b), k \in BatchOf(c)
        PROVE  b = c
    <2>1. /\ b \in Nat /\ c \in Nat /\ k \in Nat
          /\ First(b) <= k /\ k <= Batches[b] /\ First(c) <= k /\ k <= Batches[c]
          /\ First(b) \in Nat /\ First(c) \in Nat /\ Batches[b] \in Nat /\ Batches[c] \in Nat
      BY <1>3, CallFacts DEF BatchOf, Last
    <2>2. ~(b < c) /\ ~(c < b)
      <3>1. /\ b < c => Batches[b] < First(c)
            /\ c < b => Batches[c] < First(b)
        BY CallFacts
      <3>2. QED
        BY <2>1, <3>1
    <2>3. QED
      BY <2>1, <2>2
  <1>4. ASSUME NEW p \in Positions, NEW q \in Positions, order[p] = order[q]
        PROVE  p = q
    <2>1. PICK b \in Calls : p \in BatchOf(b)
      BY <1>2
    <2>2. PICK c \in Calls : q \in BatchOf(c)
      BY <1>2
    <2>3. order[p] \in BatchOf(b) /\ order[q] \in BatchOf(c)
      BY <1>1, <2>1, <2>2 DEF IsOrdering
    <2>4. b = c
      BY <1>3, <1>4, <2>3
    <2>5. ~(p < q) /\ ~(q < p)
      BY <1>1, <1>4, <2>1, <2>2, <2>4 DEF IsOrdering
    <2>6. p \in Int /\ q \in Int
      BY CallFacts DEF Positions
    <2>7. QED
      BY <2>5, <2>6
  <1>5. ASSUME NEW o \in Positions
        PROVE  Where(o) \in Positions /\ order[Where(o)] = o
    <2>1. PICK b \in Calls : o \in BatchOf(b)
      BY <1>2
    <2>2. PICK k \in BatchOf(b) : order[k] = o
      BY <1>1, <2>1 DEF IsOrdering
    <2>3. k \in Positions
      BY <1>2
    <2>4. QED
      BY <2>2, <2>3 DEF Where
  <1>6. ASSUME NEW p \in Positions
        PROVE  Where(order[p]) = p
    BY <1>1, <1>4, <1>5
  <1>7. QED
    BY <1>1, <1>4, <1>5, <1>6

-----------------------------------------------------------------------------
(* The tasks of an operation and what they compute.                        *)

Memories == [Tensors -> [Blocks -> Int]]

LEMMA OpFacts ==
  ASSUME NEW o \in Positions
  PROVE  /\ Program[o].kind \in Kinds /\ Program[o].lhs \in Tensors
         /\ Program[o].rhs \subseteq Tensors /\ IsFiniteSet(Program[o].rhs)
         /\ Program[o].lhs \notin Program[o].rhs /\ Program[o].assign \in BOOLEAN
         /\ Program[o].kind = "mult" => ~Program[o].assign /\ Program[o].rhs # {}
         /\ Program[o].kind = "map" => Program[o].assign
  <1>1. /\ Program[o] \in OpsOn(Tensors) /\ Program[o].lhs \notin Program[o].rhs
        /\ Program[o].kind = "mult" => ~Program[o].assign /\ Program[o].rhs # {}
        /\ Program[o].kind = "map" => Program[o].assign
        /\ IsFiniteSet(Tensors)
    BY ExecAssumption
  <1>2. /\ Program[o].kind \in Kinds /\ Program[o].lhs \in Tensors
        /\ Program[o].rhs \subseteq Tensors /\ Program[o].assign \in BOOLEAN
    BY <1>1 DEF OpsOn
  <1>3. IsFiniteSet(Program[o].rhs)
    BY <1>1, <1>2, FS_Subset
  <1>4. QED
    BY <1>1, <1>2, <1>3

LEMMA ShapeFacts ==
  ASSUME NEW x \in Tensors
  PROVE  Shape[x] \subseteq Blocks /\ IsFiniteSet(Shape[x])
  BY ExecAssumption DEF Blocks

\* Only products have more than one task for a block.
LEMMA TaskFacts ==
  ASSUME NEW o \in Positions
  PROVE  /\ IsFiniteSet(TasksOf(Program[o]))
         /\ \A t \in TasksOf(Program[o]) : t.into \in Shape[Program[o].lhs] /\ t.into \in Blocks
         /\ Collective(Program[o]) => TasksOf(Program[o]) = {}
         /\ Program[o].kind \in {"set", "add", "map", "scan"} =>
              TasksOf(Program[o]) = {[into |-> b, from |-> b] : b \in Shape[Program[o].lhs]}
  <1> DEFINE op == Program[o]
             S == Shape[op.lhs]
             R == UNION {Shape[x] : x \in op.rhs}
  <1>1. /\ op.lhs \in Tensors /\ op.rhs \subseteq Tensors /\ IsFiniteSet(op.rhs)
    BY OpFacts
  <1>2. IsFiniteSet(S) /\ S \subseteq Blocks
    BY <1>1, ShapeFacts
  <1>3. IsFiniteSet(R)
    <2> DEFINE RR == {Shape[x] : x \in op.rhs}
    <2>1. IsFiniteSet(RR)
      <3> DEFINE f == [x \in op.rhs |-> Shape[x]]
      <3>1. IsFiniteSet({f[x] : x \in op.rhs})
        BY <1>1, FiniteImage
      <3>2. RR = {f[x] : x \in op.rhs}
        OBVIOUS
      <3>3. QED
        BY <3>1, <3>2
    <2>2. \A X \in RR : IsFiniteSet(X)
      BY <1>1, ShapeFacts
    <2> HIDE DEF RR
    <2>3. IsFiniteSet(UNION RR)
      BY <2>1, <2>2, FS_UNION
    <2>4. QED
      BY <2>3 DEF RR
  <1> HIDE DEF S, R
  <1>4. IsFiniteSet([into : S, from : R])
    <2> DEFINE f == [p \in S \X R |-> [into |-> p[1], from |-> p[2]]]
    <2>1. IsFiniteSet(S \X R)
      BY <1>2, <1>3, FS_Product
    <2>2. IsFiniteSet({f[p] : p \in S \X R})
      <3> DEFINE P == S \X R
      <3> HIDE DEF f
      <3>1. IsFiniteSet(P)
        BY <2>1
      <3> HIDE DEF P
      <3>2. IsFiniteSet({f[p] : p \in P})
        BY <3>1, FiniteImage
      <3>3. QED
        BY <3>2 DEF P
    <2>3. [into : S, from : R] \subseteq {f[p] : p \in S \X R}
      <3> SUFFICES ASSUME NEW t \in [into : S, from : R]
                   PROVE  \E p \in S \X R : t = [into |-> p[1], from |-> p[2]]
        OBVIOUS
      <3>1. t = [into |-> t.into, from |-> t.from] /\ t.into \in S /\ t.from \in R
        OBVIOUS
      <3>2. <<t.into, t.from>> \in S \X R
        BY <3>1
      <3>3. QED
        BY <3>1, <3>2
    <2>4. QED
      BY <2>2, <2>3, FS_Subset
  <1>5. IsFiniteSet({[into |-> b, from |-> b] : b \in S})
    <2> DEFINE f == [b \in S |-> [into |-> b, from |-> b]]
    <2>1. IsFiniteSet({f[b] : b \in S})
      BY <1>2, FiniteImage
    <2>2. {[into |-> b, from |-> b] : b \in S} = {f[b] : b \in S}
      OBVIOUS
    <2>3. QED
      BY <2>1, <2>2
  <1>6. TasksOf(op) = IF Collective(op) THEN {}
                      ELSE IF op.kind = "mult" /\ S # R THEN [into : S, from : R]
                      ELSE {[into |-> b, from |-> b] : b \in S}
    BY DEF TasksOf, S, R
  <1>7. IsFiniteSet(TasksOf(op))
    BY <1>4, <1>5, <1>6, FS_EmptySet
  <1>8. \A t \in TasksOf(op) : t.into \in S
    BY <1>6
  <1>9. op.kind \in {"set", "add", "map", "scan"} => ~Collective(op) /\ op.kind # "mult"
    BY DEF Collective
  <1>10. op.kind \in {"set", "add", "map", "scan"} => TasksOf(op) = {[into |-> b, from |-> b] : b \in S}
    BY <1>6, <1>9
  <1>11. QED
    BY <1>2, <1>6, <1>7, <1>8, <1>10 DEF S

\* A task's result is a number, and depends on the blocks of the tensors that the
\* operation declares to read, and on no others.
LEMMA ResultFacts ==
  ASSUME NEW o \in Positions, NEW t \in TasksOf(Program[o]), NEW m \in Memories
  PROVE  /\ Result(o, t, m) \in Int
         /\ \A n \in Memories :
              (\A x \in Reads(Program[o]) : \A b \in Shape[x] : n[x][b] = m[x][b])
              => Result(o, t, n) = Result(o, t, m)
  <1> DEFINE op == Program[o]
             V(k) == [x \in Tensors |-> IF t.from \in Shape[x] THEN k[x][t.from] ELSE 0]
  <1>1. /\ op.kind \in Kinds /\ op.lhs \in Tensors /\ op.rhs \subseteq Tensors
        /\ IsFiniteSet(op.rhs) /\ (op.kind = "mult" => op.rhs # {})
    BY OpFacts
  <1>2. o \in Int
    BY CallFacts DEF Positions
  <1>3. ASSUME NEW k \in Memories, NEW x \in Tensors
        PROVE  V(k)[x] \in Int
    <2>1. Shape[x] \subseteq Blocks
      BY ShapeFacts
    <2>2. QED
      BY <2>1 DEF Memories
  <1>4. op.kind = "scan" => t.from \in Shape[op.lhs] /\ Reads(op) = {op.lhs}
    <2>1. ASSUME op.kind = "scan"
          PROVE  t.from \in Shape[op.lhs]
      BY <2>1, TaskFacts
    <2>2. QED
      BY <2>1 DEF Reads
  <1>5. ASSUME NEW k, op.kind # "scan"
        PROVE  Result(o, t, k) = Value(op, o, V(k))
    BY <1>5 DEF Result
  <1>6. op.kind \in {"add", "mult", "map"} => Reads(op) = op.rhs
    BY DEF Reads
  <1>7. ASSUME NEW n \in Memories, op.kind \in {"add", "mult", "map"},
               \A x \in Reads(op) : \A b \in Shape[x] : n[x][b] = m[x][b]
        PROVE  \A x \in op.rhs : V(n)[x] = V(m)[x]
    BY <1>1, <1>6, <1>7
  <1> HIDE DEF V
  <1>8. CASE op.kind = "scan"
    <2>1. \A k : Result(o, t, k) = k[op.lhs][t.from]
      BY <1>8 DEF Result
    <2>2. m[op.lhs][t.from] \in Int
      BY <1>1, <1>4, <1>8, ShapeFacts DEF Memories
    <2>3. QED
      BY <1>4, <1>8, <2>1, <2>2
  <1>9. CASE op.kind = "mult"
    <2> DEFINE a == CHOOSE x \in op.rhs : TRUE
               b == IF op.rhs = {a} THEN a ELSE CHOOSE x \in op.rhs \ {a} : TRUE
    <2>1. a \in op.rhs /\ b \in op.rhs
      BY <1>1, <1>9
    <2>2. \A k : Result(o, t, k) = o * (V(k)[a] * V(k)[b])
      BY <1>5, <1>9 DEF Value, Product
    <2> HIDE DEF a, b
    <2>3. Result(o, t, m) \in Int
      <3>1. V(m)[a] \in Int /\ V(m)[b] \in Int
        BY <1>1, <1>3, <2>1
      <3>2. QED
        BY <1>2, <2>2, <3>1
    <2>4. QED
      BY <1>7, <1>9, <2>1, <2>2, <2>3
  <1>10. CASE op.kind \in {"add", "map"}
    <2> DEFINE s(k) == SumFunctionOnSet(V(k), op.rhs)
    <2>1. \A k : Result(o, t, k) = IF op.kind = "add" THEN o * s(k) ELSE o + s(k)
      BY <1>5, <1>10 DEF Value
    <2>2. s(m) \in Int
      BY <1>1, <1>3, SumType
    <2>3. ASSUME NEW n \in Memories, \A x \in Reads(op) : \A b \in Shape[x] : n[x][b] = m[x][b]
          PROVE  s(n) = s(m)
      <3>1. \A x \in op.rhs : V(n)[x] = V(m)[x]
        BY <1>7, <1>10, <2>3
      <3>2. QED
        BY <1>1, <3>1, SumSame
    <2> HIDE DEF s
    <2>4. QED
      BY <1>2, <2>1, <2>2, <2>3
  <1>11. CASE op.kind \in {"set", "alloc", "dealloc"}
    <2>1. \A k : Result(o, t, k) = o
      BY <1>5, <1>11 DEF Value
    <2>2. QED
      BY <1>2, <2>1
  <1>12. QED
    BY <1>1, <1>8, <1>9, <1>10, <1>11 DEF Kinds

LEMMA AmountType ==
  ASSUME NEW o \in Positions, NEW m \in Memories, NEW S \in SUBSET TasksOf(Program[o]), NEW b
  PROVE  Amount(o, m, S, b) \in Int
  <1> DEFINE f == [t \in TasksOf(Program[o]) |-> Result(o, t, m)]
             T == {t \in S : t.into = b}
  <1>1. IsFiniteSet(T)
    <2>1. IsFiniteSet(TasksOf(Program[o])) /\ T \subseteq TasksOf(Program[o])
      BY TaskFacts
    <2>2. QED
      BY <2>1, FS_Subset
  <1>2. \A t \in T : f[t] \in Int
    BY ResultFacts
  <1> HIDE DEF f, T
  <1>3. SumFunctionOnSet(f, T) \in Int
    BY <1>1, <1>2, SumType
  <1>4. QED
    BY <1>3 DEF Amount, f, T

-----------------------------------------------------------------------------
(* The meaning of the program, block by block.                             *)

Full == [o \in Positions |-> TasksOf(Program[o])]

\* What the tasks S[o] of each operation o do to block b of tensor x, one operation
\* after the other, when their results are those of the program.
Resets(S, x, b) ==
  [o \in Positions |-> /\ Changes(Program[o], x) /\ Program[o].assign
                       /\ \E t \in S[o] : t.into = b]
Adds(S, x, b) ==
  [o \in Positions |->
     IF Changes(Program[o], x) THEN Amount(o, Meaning[o - 1], S[o], b) ELSE 0]
Cell(S, x, b) == Tally(Junk, Resets(S, x, b), Adds(S, x, b), NOps)

LEMMA EffectType ==
  ASSUME NEW o \in Positions, NEW m \in Memories
  PROVE  Effect(o, m) \in Memories
  <1> DEFINE e(x, b) == IF Changes(Program[o], x) /\ b \in Shape[x]
                        THEN (IF Program[o].assign THEN 0 ELSE m[x][b])
                             + Amount(o, m, TasksOf(Program[o]), b)
                        ELSE m[x][b]
  <1>1. ASSUME NEW x \in Tensors, NEW b \in Blocks
        PROVE  e(x, b) \in Int
    <2>1. m[x][b] \in Int
      BY DEF Memories
    <2>2. Amount(o, m, TasksOf(Program[o]), b) \in Int
      BY AmountType
    <2>3. QED
      BY <2>1, <2>2
  <1>2. Effect(o, m) = [x \in Tensors |-> [b \in Blocks |-> e(x, b)]]
    BY DEF Effect
  <1> HIDE DEF e
  <1>3. QED
    BY <1>1, <1>2 DEF Memories

LEMMA MeaningIs ==
  /\ \A n \in 0 .. NOps : Meaning[n] \in Memories
  /\ Meaning[0] = Unwritten
  /\ \A n \in Positions : Meaning[n] = Effect(n, Meaning[n - 1])
  <1> DEFINE G == [n \in Positions |-> [m \in Memories |-> Effect(n, m)]]
             Is(f) == f = [n \in 0 .. NOps |-> IF n = 0 THEN Unwritten ELSE Effect(n, f[n - 1])]
  <1>1. NOps \in Nat /\ Positions = 1 .. NOps
    BY CallFacts DEF Positions
  <1>2. Unwritten \in Memories
    BY ExecAssumption DEF Unwritten, Memories
  <1>3. \A n \in 1 .. NOps : G[n] \in [Memories -> Memories]
    BY <1>1, EffectType
  <1>4. \A n \in 1 .. NOps, m \in Memories : G[n][m] = Effect(n, m)
    BY <1>1
  <1> HIDE DEF G
  <1>5. \E f \in [0 .. NOps -> Memories] : Follows(f, NOps, Unwritten, G)
    BY <1>1, <1>2, <1>3, StepByStep
  <1>6. PICK f \in [0 .. NOps -> Memories] :
          f[0] = Unwritten /\ \A n \in 1 .. NOps : f[n] = G[n][f[n - 1]]
    BY <1>5 DEF Follows
  <1>7. Is(f)
    <2>1. ASSUME NEW n \in 1 .. NOps
          PROVE  f[n] = Effect(n, f[n - 1])
      <3>1. f[n - 1] \in Memories
        BY <1>1
      <3>2. QED
        BY <1>4, <1>6, <3>1
    <2>2. f = [n \in 0 .. NOps |-> f[n]]
      OBVIOUS
    <2>3. \A n \in 0 .. NOps : f[n] = IF n = 0 THEN Unwritten ELSE Effect(n, f[n - 1])
      BY <1>1, <1>6, <2>1
    <2>4. QED
      BY <2>2, <2>3
  <1>8. Meaning = CHOOSE g : Is(g)
    BY DEF Meaning
  <1>9. Is(Meaning)
    BY <1>7, <1>8
  <1>10. /\ Meaning[0] = Unwritten
         /\ \A n \in Positions : Meaning[n] = Effect(n, Meaning[n - 1])
    BY <1>1, <1>9
  <1> HIDE DEF Is
  <1> DEFINE I == {n \in Nat : Meaning[n] \in Memories}
  <1>11. 0 \in I
    BY <1>2, <1>10
  <1>12. ASSUME NEW n \in 1 .. NOps, n - 1 \in I
         PROVE  n \in I
    BY <1>1, <1>10, <1>12, EffectType
  <1> HIDE DEF I
  <1>13. 0 .. NOps \subseteq I
    BY <1>1, <1>11, <1>12, UpFromZero
  <1>14. \A n \in 0 .. NOps : Meaning[n] \in Memories
    BY <1>13 DEF I
  <1>15. QED
    BY <1>10, <1>14

LEMMA CellFacts ==
  ASSUME NEW S, \A o \in Positions : S[o] \subseteq TasksOf(Program[o]), NEW x, NEW b
  PROVE  /\ NOps \in Nat /\ Junk \in Int /\ Positions = 1 .. NOps
         /\ \A o \in Positions : Adds(S, x, b)[o] \in Int
         /\ Cell(S, x, b) \in [0 .. NOps -> Int]
         /\ Cell(S, x, b)[0] = Junk
         /\ \A n \in Positions :
              Cell(S, x, b)[n] = (IF Resets(S, x, b)[n] THEN 0 ELSE Cell(S, x, b)[n - 1])
                                 + Adds(S, x, b)[n]
  <1>1. NOps \in Nat /\ Junk \in Int /\ Positions = 1 .. NOps
    BY CallFacts, ExecAssumption DEF Positions
  <1>2. ASSUME NEW o \in Positions
        PROVE  Adds(S, x, b)[o] \in Int
    <2>1. o - 1 \in 0 .. NOps
      BY <1>1
    <2>2. Amount(o, Meaning[o - 1], S[o], b) \in Int
      BY <2>1, MeaningIs, AmountType
    <2>3. QED
      BY <2>2 DEF Adds
  <1> DEFINE r == Resets(S, x, b)  a == Adds(S, x, b)
  <1>3. \A n \in 1 .. NOps : a[n] \in Int
    BY <1>1, <1>2
  <1> HIDE DEF r, a
  <1>4. /\ Tally(Junk, r, a, NOps) \in [0 .. NOps -> Int] /\ Tally(Junk, r, a, NOps)[0] = Junk
        /\ \A n \in 1 .. NOps : Tally(Junk, r, a, NOps)[n] =
              (IF r[n] THEN 0 ELSE Tally(Junk, r, a, NOps)[n - 1]) + a[n]
    BY <1>1, <1>3, TallyIs
  <1>5. QED
    BY <1>1, <1>2, <1>4 DEF Cell, r, a

\* The meaning of a block is what all tasks of the program do to it.
LEMMA MeaningOfBlock ==
  ASSUME NEW x \in Tensors, NEW b \in Shape[x], NEW n \in 0 .. NOps
  PROVE  Meaning[n][x][b] = Cell(Full, x, b)[n]
  <1> DEFINE C == Cell(Full, x, b)
             I == {k \in Nat : Meaning[k][x][b] = C[k]}
  <1>1. /\ NOps \in Nat /\ Positions = 1 .. NOps
        /\ C \in [0 .. NOps -> Int] /\ C[0] = Junk
        /\ \A k \in Positions : C[k] = (IF Resets(Full, x, b)[k] THEN 0 ELSE C[k - 1])
                                       + Adds(Full, x, b)[k]
    BY CellFacts DEF Full
  <1> HIDE DEF C
  <1>2. b \in Blocks
    BY ShapeFacts
  <1>3. 0 \in I
    BY <1>1, <1>2, MeaningIs DEF Unwritten
  <1>4. ASSUME NEW k \in 1 .. NOps, k - 1 \in I
        PROVE  k \in I
    <2> DEFINE op == Program[k]  m == Meaning[k - 1]
    <2>1. k \in Positions /\ k - 1 \in 0 .. NOps /\ Full[k] = TasksOf(op)
      BY <1>1 DEF Full
    <2>2. /\ Meaning[k] = Effect(k, m) /\ m \in Memories /\ m[x][b] = C[k - 1]
          /\ m[x][b] \in Int
      <3>1. Meaning[k] = Effect(k, m) /\ m \in Memories
        BY <2>1, MeaningIs
      <3>2. QED
        BY <1>2, <1>4, <3>1 DEF Memories
    <2> HIDE DEF m
    <2>3. Meaning[k][x][b] =
            IF Changes(op, x)
            THEN (IF op.assign THEN 0 ELSE m[x][b]) + Amount(k, m, TasksOf(op), b)
            ELSE m[x][b]
      BY <1>2, <2>2 DEF Effect
    <2>4. Adds(Full, x, b)[k] = IF Changes(op, x) THEN Amount(k, m, TasksOf(op), b) ELSE 0
      BY <2>1 DEF Adds, m
    <2>5. Resets(Full, x, b)[k] <=> Changes(op, x) /\ op.assign
      <3>1. ASSUME Changes(op, x), op.assign
            PROVE  \E t \in TasksOf(op) : t.into = b
        <4>1. op.lhs = x /\ op.kind \in {"set", "add", "map", "scan"}
          BY <2>1, <3>1, OpFacts DEF Changes
        <4>2. [into |-> b, from |-> b] \in TasksOf(op)
          BY <2>1, <4>1, TaskFacts
        <4>3. QED
          BY <4>2
      <3>2. QED
        BY <2>1, <3>1 DEF Resets
    <2>6. C[k] = (IF Changes(op, x) /\ op.assign THEN 0 ELSE m[x][b])
                 + (IF Changes(op, x) THEN Amount(k, m, TasksOf(op), b) ELSE 0)
      BY <1>1, <2>1, <2>2, <2>4, <2>5
    <2>7. Meaning[k][x][b] = C[k]
      <3> DEFINE d == Amount(k, m, TasksOf(op), b)  v == m[x][b]
      <3>1. d \in Int /\ v \in Int
        BY <2>1, <2>2, AmountType
      <3> HIDE DEF d, v
      <3>2. QED
        BY <2>3, <2>6, <3>1 DEF d, v
    <2>8. QED
      BY <1>4, <2>7
  <1> HIDE DEF I
  <1>5. 0 .. NOps \subseteq I
    BY <1>1, <1>3, <1>4, UpFromZero
  <1>6. QED
    BY <1>5 DEF I, C

-----------------------------------------------------------------------------
(* The invariant of TensorExec.                                            *)

\* The tasks that ranks work on at position p, and the tasks of each operation whose
\* results are in memory.
InFlight(p) == {work[r].task : r \in {s \in Ranks : work[s] # Idle /\ pos[s] = p}}
Stored ==
  [o \in Positions |-> TasksOf(Program[o]) \ (left[Where(o)] \cup InFlight(Where(o)))]

\* What task t of operation o is to compute.
Right(o, t) == Result(o, t, Meaning[o - 1])

\* Rank r works on task t.  The block that it has loaded has not changed since.
Busy(r, t) ==
  /\ pc[r] = "op"
  /\ t \in TasksOf(Op(r)) \ left[pos[r]] /\ MayTake(r, Op(r), t)
  /\ \/ work[r] = [stage |-> "get", task |-> t]
     \/ /\ LoadsFirst(Op(r))
        /\ work[r] = [stage |-> "load", task |-> t,
                      value |-> Right(order[pos[r]], t), old |-> 0]
     \/ work[r] = [stage |-> "store", task |-> t, value |-> Right(order[pos[r]], t),
                   old |-> IF LoadsFirst(Op(r)) THEN mem[Op(r).lhs][t.into] ELSE 0]

AtWork == \A r \in Ranks : work[r] = Idle \/ \E t \in TasksOf(Op(r)) : Busy(r, t)

\* No task is taken twice.
TakenOnce ==
  \A r, s \in Ranks :
    r # s /\ work[r] # Idle /\ work[s] # Idle /\ pos[r] = pos[s] => work[r].task # work[s].task

\* Tasks are taken from operations that have begun, and none that a rank could take is
\* left when it has gone on.
TasksLeft ==
  \A p \in Positions :
    /\ left[p] \subseteq TasksOf(OpAt(p))
    /\ order[p] \notin StartedOps => left[p] = TasksOf(OpAt(p))
    /\ \A r \in Ranks : order[p] \in Done(r) => \A t \in left[p] : ~MayTake(r, OpAt(p), t)

\* Nothing runs before what it depends on is completed.
InDataflow ==
  \A o \in StartedOps : \A k \in Positions : Before(Program, k, o) => k \in FinishedOps

\* Every block holds what the stored tasks, in the order of the program, do to it.
BlocksHold == \A x \in Tensors : \A b \in Shape[x] : mem[x][b] = Cell(Stored, x, b)[NOps]

DataOK == mem \in Memories /\ DOMAIN work = Ranks /\ DOMAIN left = Positions

ExecInv == DataOK /\ AtWork /\ TakenOnce /\ TasksLeft /\ InDataflow /\ BlocksHold

LEMMA StoredSubset ==
  \A o \in Positions : Stored[o] \subseteq TasksOf(Program[o])
  BY DEF Stored

\* A rank that works on a task is inside the operation.
LEMMA BusyFacts ==
  ASSUME AtWork, NEW r \in Ranks, work[r] # Idle
  PROVE  /\ pc[r] = "op" /\ InOp(r)
         /\ work[r].task \in TasksOf(Op(r)) /\ work[r].task \notin left[pos[r]]
         /\ MayTake(r, Op(r), work[r].task) /\ Busy(r, work[r].task)
  <1>1. PICK t \in TasksOf(Op(r)) : Busy(r, t)
    BY DEF AtWork
  <1>2. work[r].task = t
    BY <1>1 DEF Busy
  <1>3. QED
    BY <1>1, <1>2 DEF Busy, InOp

\* What a rank inside an operation has done does not contain that operation.
LEMMA NotDone ==
  ASSUME IInv, NEW r \in Ranks, InOp(r)
  PROVE  /\ order[pos[r]] \in Positions /\ order[pos[r]] \notin Done(r)
         /\ order[pos[r]] \notin FinishedOps
  <1>1. pos[r] \in Positions /\ NOps \in Nat
    BY InsideOp, CallFacts
  <1>2. \A p, q \in Positions : order[p] = order[q] => p = q
    BY OrderFacts DEF IInv
  <1>3. ASSUME NEW p \in 1 .. pos[r] - 1
        PROVE  order[p] # order[pos[r]]
    <2>1. p \in Positions /\ p # pos[r]
      BY <1>1 DEF Positions
    <2>2. QED
      BY <1>1, <1>2, <2>1
  <1>4. order[pos[r]] \notin Done(r)
    BY <1>3 DEF Done
  <1>5. QED
    BY <1>1, <1>4 DEF FinishedOps, IInv, TypeOK

\* All tasks of a completed operation are stored.
LEMMA AllStored ==
  ASSUME IInv, AtWork, TasksLeft, NEW o \in Positions, o \in FinishedOps
  PROVE  Stored[o] = TasksOf(Program[o])
  <1> DEFINE p == Where(o)
  <1>1. p \in Positions /\ order[p] = o /\ OpAt(p) = Program[o]
    BY OrderFacts DEF IInv, OpAt
  <1> HIDE DEF p
  <1>2. ASSUME NEW t \in left[p]
        PROVE  FALSE
    <2>1. t \in TasksOf(Program[o])
      BY <1>1, <1>2 DEF TasksLeft
    <2>2. \A r \in Ranks : ~MayTake(r, Program[o], t)
      <3>1. \A r \in Ranks : o \in Done(r)
        BY DEF FinishedOps
      <3>2. QED
        BY <1>1, <3>1 DEF TasksLeft
    <2>3. Owner[t.into] \in Ranks
      BY <2>1, TaskFacts, ExecAssumption
    <2>4. QED
      BY <2>2, <2>3 DEF MayTake
  <1>3. ASSUME NEW r \in Ranks, work[r] # Idle, pos[r] = p
        PROVE  FALSE
    <2>1. InOp(r)
      BY <1>3, BusyFacts
    <2>2. QED
      BY <1>1, <1>3, <2>1, NotDone
  <1>4. InFlight(p) = {}
    BY <1>3 DEF InFlight
  <1>5. left[p] = {}
    BY <1>2
  <1>6. QED
    BY <1>4, <1>5 DEF Stored, p

\* No task of an operation that no rank has begun is stored.
LEMMA NoneStored ==
  ASSUME IInv, TasksLeft, NEW o \in Positions, o \notin StartedOps
  PROVE  Stored[o] = {}
  <1> DEFINE p == Where(o)
  <1>1. p \in Positions /\ order[p] = o /\ OpAt(p) = Program[o]
    BY OrderFacts DEF IInv, OpAt
  <1> HIDE DEF p
  <1>2. left[p] = TasksOf(Program[o])
    BY <1>1 DEF TasksLeft
  <1>3. QED
    BY <1>2 DEF Stored, p

\* While a rank is inside an operation, what it depends on is stored, and nothing that
\* depends on it.
LEMMA BeforeAndAfter ==
  ASSUME IInv, ExecInv, NEW r \in Ranks, InOp(r), NEW k \in Positions,
         HasDependence(Program[k], Op(r))
  PROVE  /\ k < order[pos[r]] => Stored[k] = TasksOf(Program[k])
         /\ order[pos[r]] < k => Stored[k] = {}
  <1> DEFINE o == order[pos[r]]
  <1>1. o \in Positions /\ o \notin FinishedOps /\ Op(r) = Program[o]
    BY NotDone DEF Op, OpAt
  <1>2. o \in StartedOps
    BY DEF StartedOps, Begun
  <1> HIDE DEF o
  <1>3. ASSUME k < o
        PROVE  Stored[k] = TasksOf(Program[k])
    <2>1. Before(Program, k, o)
      BY <1>1, <1>3 DEF Before
    <2>2. k \in FinishedOps
      BY <1>2, <2>1 DEF ExecInv, InDataflow
    <2>3. QED
      BY <2>2, AllStored DEF ExecInv
  <1>4. ASSUME o < k
        PROVE  Stored[k] = {}
    <2>1. Before(Program, o, k)
      BY <1>1, <1>4, DependenceSymmetric DEF Before
    <2>2. k \notin StartedOps
      BY <1>1, <2>1 DEF ExecInv, InDataflow
    <2>3. QED
      BY <2>2, NoneStored DEF ExecInv
  <1>5. QED
    BY <1>3, <1>4 DEF o

\* What changes a tensor, writes it or accumulates into it.
LEMMA ChangeFacts ==
  ASSUME NEW o \in Positions, NEW x, Changes(Program[o], x)
  PROVE  /\ Program[o].assign => x \in Writes(Program[o])
         /\ ~Program[o].assign => x \in Accumulates(Program[o]) /\ Program[o].kind # "map"
         /\ Program[o].lhs = x /\ Program[o].kind \in {"set", "add", "mult", "map"}
         /\ x \notin Reads(Program[o])
         /\ ~Collective(Program[o])
  <1>1. /\ Program[o].kind = "map" => Program[o].assign
        /\ Program[o].lhs \notin Program[o].rhs
    BY OpFacts
  <1>2. QED
    BY <1>1 DEF Changes, Writes, Accumulates, Reads, Collective

LEMMA NothingAdded ==
  ASSUME NEW S, NEW k \in Positions, S[k] = {}, NEW x, NEW b
  PROVE  ~Resets(S, x, b)[k] /\ Adds(S, x, b)[k] = 0
  <1>1. Amount(k, Meaning[k - 1], {}, b) = 0
    <2>1. {t \in {} : t.into = b} = {}
      OBVIOUS
    <2>2. QED
      BY <2>1, SumEmpty DEF Amount
  <1>2. QED
    BY <1>1 DEF Resets, Adds

LEMMA NotChanged ==
  ASSUME NEW S, NEW k \in Positions, NEW x, ~Changes(Program[k], x), NEW b
  PROVE  ~Resets(S, x, b)[k] /\ Adds(S, x, b)[k] = 0
  BY DEF Resets, Adds

\* A rank inside an operation finds in the blocks it reads what the operations before
\* it in the program leave there.
LEMMA ReadsMeaning ==
  ASSUME IInv, ExecInv, NEW r \in Ranks, InOp(r), NEW x \in Reads(Op(r)), x \in Tensors,
         NEW b \in Shape[x]
  PROVE  mem[x][b] = Meaning[order[pos[r]] - 1][x][b]
  <1> DEFINE o == order[pos[r]]
             n == o - 1
  <1>1. /\ o \in Positions /\ Op(r) = Program[o] /\ NOps \in Nat /\ Positions = 1 .. NOps
        /\ Junk \in Int /\ n \in 0 .. NOps
    <2>1. o \in Positions /\ NOps \in Nat /\ Junk \in Int
      BY NotDone, CallFacts, ExecAssumption
    <2>2. QED
      BY <2>1 DEF Op, OpAt, Positions
  <1>2. ASSUME NEW k \in Positions, Changes(Program[k], x)
        PROVE  k # o /\ HasDependence(Program[k], Op(r))
    <2>1. x \in Writes(Program[k]) \cup Accumulates(Program[k]) /\ x \notin Reads(Program[k])
      BY <1>2, ChangeFacts
    <2>2. QED
      BY <1>1, <2>1 DEF HasDependence
  <1>3. ASSUME NEW k \in Positions, k < o
        PROVE  /\ Resets(Stored, x, b)[k] <=> Resets(Full, x, b)[k]
               /\ Adds(Stored, x, b)[k] = Adds(Full, x, b)[k]
    <2>1. CASE Changes(Program[k], x)
      <3>1. Stored[k] = Full[k]
        BY <1>2, <1>3, <2>1, BeforeAndAfter DEF Full
      <3>2. QED
        BY <3>1 DEF Resets, Adds
    <2>2. CASE ~Changes(Program[k], x)
      BY <2>2, NotChanged
    <2>3. QED
      BY <2>1, <2>2
  <1>4. ASSUME NEW k \in Positions, o <= k
        PROVE  ~Resets(Stored, x, b)[k] /\ Adds(Stored, x, b)[k] = 0
    <2>1. CASE Changes(Program[k], x)
      <3>1. o < k
        BY <1>1, <1>2, <1>4, <2>1
      <3>2. Stored[k] = {}
        BY <1>2, <2>1, <3>1, BeforeAndAfter
      <3>3. QED
        BY <3>2, NothingAdded
    <2>2. CASE ~Changes(Program[k], x)
      BY <2>2, NotChanged
    <2>3. QED
      BY <2>1, <2>2
  <1>5. \A k \in Positions : Adds(Stored, x, b)[k] \in Int /\ Adds(Full, x, b)[k] \in Int
    BY StoredSubset, CellFacts DEF Full
  <1> DEFINE r1 == Resets(Stored, x, b)  a1 == Adds(Stored, x, b)
             r2 == Resets(Full, x, b)  a2 == Adds(Full, x, b)
  <1>6. /\ \A k \in 1 .. NOps : a1[k] \in Int /\ a2[k] \in Int
        /\ \A k \in 1 .. n : (r1[k] <=> r2[k]) /\ a1[k] = a2[k]
        /\ \A k \in n + 1 .. NOps : ~r1[k] /\ a1[k] = 0
    BY <1>1, <1>3, <1>4, <1>5
  <1>7. /\ Cell(Stored, x, b) = Tally(Junk, r1, a1, NOps)
        /\ Cell(Full, x, b) = Tally(Junk, r2, a2, NOps)
    BY DEF Cell
  <1> HIDE DEF r1, a1, r2, a2, n
  <1>8. Cell(Stored, x, b)[n] = Cell(Full, x, b)[n]
    <2>1. /\ Junk \in Int /\ NOps \in Nat /\ n \in 0 .. NOps
          /\ \A k \in 1 .. NOps : a1[k] \in Int /\ a2[k] \in Int
          /\ \A k \in 1 .. n : (r1[k] <=> r2[k]) /\ a1[k] = a2[k]
      BY <1>1, <1>6
    <2>2. Tally(Junk, r1, a1, NOps)[n] = Tally(Junk, r2, a2, NOps)[n]
      BY <2>1, TallySame
    <2>3. QED
      BY <1>7, <2>2
  <1>9. Cell(Stored, x, b)[NOps] = Cell(Stored, x, b)[n]
    <2>1. /\ Junk \in Int /\ NOps \in Nat /\ n \in 0 .. NOps
          /\ \A k \in 1 .. NOps : a1[k] \in Int
          /\ \A k \in n + 1 .. NOps : ~r1[k] /\ a1[k] = 0
      BY <1>1, <1>6
    <2>2. Tally(Junk, r1, a1, NOps)[NOps] = Tally(Junk, r1, a1, NOps)[n]
      BY <2>1, TallyRests
    <2>3. QED
      BY <1>7, <2>2
  <1>10. Meaning[n][x][b] = Cell(Full, x, b)[n]
    BY <1>1, MeaningOfBlock
  <1>11. mem[x][b] = Cell(Stored, x, b)[NOps]
    BY DEF ExecInv, BlocksHold
  <1>12. QED
    BY <1>8, <1>9, <1>10, <1>11 DEF n

-----------------------------------------------------------------------------
(* The steps of the scheduler.                                             *)

LEMMA FlowKept ==
  ASSUME IInv, [Next]_vars, InDataflow
  PROVE  InDataflow' /\ StartedOps \subseteq StartedOps' /\ FinishedOps \subseteq FinishedOps'
  <1>1. \A p, o : Flow!Before(Program, p, o) <=> Before(Program, p, o)
    BY DEF Flow!Before, Flow!HasDependence, Flow!Reads, Flow!Writes, Flow!Accumulates,
           Before, HasDependence, Reads, Writes, Accumulates
  <1>2. DOMAIN Program = Positions
    BY SchedulerAssumption
  <1>3. [Flow!Next]_(Flow!vars)
    BY FlowStep
  <1>4. CASE StartedOps' = StartedOps /\ FinishedOps' = FinishedOps
    BY <1>4 DEF InDataflow
  <1>5. ASSUME NEW o \in Positions, Flow!Start(o)
        PROVE  InDataflow' /\ StartedOps \subseteq StartedOps' /\ FinishedOps \subseteq FinishedOps'
    <2>1. /\ StartedOps' = StartedOps \cup {o} /\ FinishedOps' = FinishedOps
          /\ \A k \in Positions : Before(Program, k, o) => k \in FinishedOps
      BY <1>1, <1>2, <1>5 DEF Flow!Start, StartedOps, FinishedOps
    <2>2. QED
      BY <2>1 DEF InDataflow
  <1>6. ASSUME NEW o \in Positions, Flow!Finish(o)
        PROVE  InDataflow' /\ StartedOps \subseteq StartedOps' /\ FinishedOps \subseteq FinishedOps'
    <2>1. StartedOps' = StartedOps /\ FinishedOps' = FinishedOps \cup {o}
      BY <1>6 DEF Flow!Finish, StartedOps, FinishedOps
    <2>2. QED
      BY <2>1 DEF InDataflow
  <1>7. QED
    BY <1>2, <1>3, <1>4, <1>5, <1>6 DEF Flow!Next, Flow!vars, StartedOps, FinishedOps

\* A rank keeps its position until it ends an operation.
LEMMA PositionKept ==
  ASSUME IInv, NEW r \in Ranks, Step(r)
  PROVE  /\ order' = order
         /\ \A s \in Ranks \ {r} : pc'[s] = pc[s] /\ pos'[s] = pos[s]
         /\ pos'[r] = pos[r] \/ (EndOp(r) /\ pos'[r] = pos[r] + 1)
  <1>1. Others(r)
    BY StepKept DEF Kept
  <1>2. TypeOK /\ Place(r)
    BY DEF IInv
  <1>3. CASE EndOp(r)
    BY <1>1, <1>2, <1>3 DEF EndOp, Others, TypeOK
  <1>4. CASE EnterLoop(r)
    <2>1. pc[r] = "alloc" /\ pos' = [pos EXCEPT ![r] = start[r] + 1]
      BY <1>4 DEF EnterLoop
    <2>2. start[r] = First(call[r]) - 1 /\ pos[r] = First(call[r]) /\ pos[r] \in Int
      BY <1>2, <2>1, CallFacts DEF Place, TypeOK
    <2>3. start[r] + 1 = pos[r]
      BY <2>2
    <2>4. QED
      BY <1>1, <1>2, <2>1, <2>3 DEF Others, TypeOK
  <1>5. CASE UNCHANGED pos
    BY <1>1, <1>5 DEF Others
  <1>6. QED
    BY <1>3, <1>4, <1>5
       DEF Step, Execute, NextLevel, BeginOp, EndLoop, Executed, Return

\* A rank without a task moves; when it leaves an operation, it leaves no task behind
\* that it could take.
LEMMA MoveKeeps ==
  ASSUME IInv, ExecInv, NEW r \in Ranks, Step(r), UNCHANGED <<mem, left, work>>,
         work[r] = Idle,
         EndOp(r) => \A t \in left[pos[r]] : ~MayTake(r, Op(r), t)
  PROVE  ExecInv'
  <1>1. /\ order' = order /\ mem' = mem /\ left' = left /\ work' = work
        /\ \A s \in Ranks \ {r} : pc'[s] = pc[s] /\ pos'[s] = pos[s]
        /\ pos'[r] = pos[r] \/ (EndOp(r) /\ pos'[r] = pos[r] + 1)
    BY PositionKept
  <1>2. \A s \in Ranks : work[s] # Idle => s # r
    OBVIOUS
  <1>3. \A p : InFlight(p)' = InFlight(p)
    BY <1>1, <1>2 DEF InFlight
  <1>4. \A o : Where(o)' = Where(o)
    BY <1>1 DEF Where
  <1>5. Stored' = Stored
    BY <1>1, <1>3, <1>4 DEF Stored
  <1>6. \A p : OpAt(p)' = OpAt(p)
    BY <1>1 DEF OpAt
  <1>7. DataOK'
    BY <1>1 DEF DataOK, ExecInv
  <1>8. AtWork'
    <2> SUFFICES ASSUME NEW s \in Ranks, work[s] # Idle
                 PROVE  \E t \in TasksOf(Op(s))' : Busy(s, t)'
      BY <1>1 DEF AtWork
    <2>1. s # r /\ pc'[s] = pc[s] /\ pos'[s] = pos[s] /\ Op(s)' = Op(s)
      BY <1>1, <1>2, <1>6 DEF Op
    <2>2. PICK t \in TasksOf(Op(s)) : Busy(s, t)
      BY DEF ExecInv, AtWork
    <2>3. Busy(s, t)'
      BY <1>1, <2>1, <2>2 DEF Busy
    <2>4. QED
      BY <2>1, <2>2, <2>3
  <1>9. TakenOnce'
    BY <1>1, <1>2 DEF TakenOnce, ExecInv
  <1>10. InDataflow' /\ StartedOps \subseteq StartedOps'
    BY FlowKept DEF ExecInv, Next
  <1>11. TasksLeft'
    <2> SUFFICES ASSUME NEW p \in Positions
                 PROVE  /\ left[p] \subseteq TasksOf(OpAt(p))
                        /\ order[p] \notin StartedOps' => left[p] = TasksOf(OpAt(p))
                        /\ \A s \in Ranks : order[p] \in Done(s)' =>
                             \A t \in left[p] : ~MayTake(s, OpAt(p), t)
      BY <1>1, <1>6 DEF TasksLeft
    <2>1. /\ left[p] \subseteq TasksOf(OpAt(p))
          /\ order[p] \notin StartedOps => left[p] = TasksOf(OpAt(p))
          /\ \A s \in Ranks : order[p] \in Done(s) =>
               \A t \in left[p] : ~MayTake(s, OpAt(p), t)
      BY DEF ExecInv, TasksLeft
    <2>2. ASSUME NEW s \in Ranks, order[p] \in Done(s)', NEW t \in left[p]
          PROVE  ~MayTake(s, OpAt(p), t)
      <3>1. CASE pos'[s] = pos[s]
        <4>1. Done(s)' = Done(s)
          BY <1>1, <3>1 DEF Done
        <4>2. QED
          BY <2>1, <2>2, <4>1
      <3>2. CASE s = r /\ EndOp(r) /\ pos'[r] = pos[r] + 1
        <4>1. InOp(r)
          BY <3>2 DEF EndOp, InOp
        <4>2. pos[r] \in Positions /\ pos[r] \in Nat \ {0}
          BY <4>1, InsideOp DEF Positions
        <4>3. 1 .. (pos[r] + 1) - 1 = (1 .. pos[r] - 1) \cup {pos[r]}
          BY <4>2
        <4>4. Done(r)' = Done(r) \cup {order[pos[r]]}
          BY <1>1, <3>2, <4>3 DEF Done
        <4>5. CASE order[p] \in Done(r)
          BY <2>1, <3>2, <4>5
        <4>6. CASE order[p] = order[pos[r]]
          <5>1. p = pos[r]
            BY <4>2, <4>6, OrderFacts DEF IInv
          <5>2. QED
            BY <3>2, <5>1 DEF Op
        <4>7. QED
          BY <2>2, <3>2, <4>4, <4>5, <4>6
      <3>3. QED
        BY <1>1, <3>1, <3>2
    <2>3. QED
      BY <1>10, <2>1, <2>2
  <1>12. BlocksHold'
    <2>1. \A x, b : Cell(Stored, x, b)' = Cell(Stored, x, b)
      BY <1>5 DEF Cell, Resets, Adds
    <2>2. QED
      BY <1>1, <2>1 DEF BlocksHold, ExecInv
  <1>13. QED
    BY <1>7, <1>8, <1>9, <1>10, <1>11, <1>12 DEF ExecInv

-----------------------------------------------------------------------------
(* The steps inside operations.                                            *)

\* A step that leaves the scheduler alone keeps what is said about it.
LEMMA SchedulerSame ==
  ASSUME UNCHANGED vars
  PROVE  /\ StartedOps' = StartedOps /\ FinishedOps' = FinishedOps
         /\ (InDataflow' <=> InDataflow)
         /\ \A r : Done(r)' = Done(r)
         /\ \A p : OpAt(p)' = OpAt(p)
         /\ \A o : Where(o)' = Where(o)
         /\ \A r : Op(r)' = Op(r)
  <1>1. order' = order /\ pc' = pc /\ pos' = pos
    BY DEF vars
  <1>2. \A r : Begun(r)' = Begun(r) /\ Done(r)' = Done(r)
    BY <1>1 DEF Begun, Done, InOp
  <1>3. StartedOps' = StartedOps /\ FinishedOps' = FinishedOps
    BY <1>2 DEF StartedOps, FinishedOps
  <1>4. InDataflow' <=> InDataflow
    BY <1>3 DEF InDataflow
  <1>5. (\A p : OpAt(p)' = OpAt(p)) /\ (\A r : Op(r)' = Op(r))
    BY <1>1 DEF OpAt, Op
  <1>6. \A o : Where(o)' = Where(o)
    BY <1>1 DEF Where
  <1>7. QED
    BY <1>2, <1>3, <1>4, <1>5, <1>6

LEMMA TakeKeeps ==
  ASSUME IInv, ExecInv, NEW r \in Ranks, Take(r)
  PROVE  ExecInv'
  <1>1. PICK t \in left[pos[r]] :
          /\ MayTake(r, Op(r), t)
          /\ left' = [left EXCEPT ![pos[r]] = @ \ {t}]
          /\ work' = [work EXCEPT ![r] = [stage |-> "get", task |-> t]]
    BY DEF Take
  <1>2. /\ pc[r] = "op" /\ InOp(r) /\ work[r] = Idle /\ UNCHANGED vars /\ mem' = mem
        /\ order' = order /\ pc' = pc /\ pos' = pos
    BY DEF Take, InOp, vars
  <1>0. PICK p : p = pos[r]
    OBVIOUS
  <1>3. p \in Positions /\ order[p] \in StartedOps /\ Op(r) = OpAt(p)
    <2>1. p \in Positions /\ Op(r) = OpAt(p)
      BY <1>0, <1>2, InsideOp DEF Op
    <2>2. order[pos[r]] \in Begun(r)
      BY <1>2 DEF Begun
    <2>3. QED
      BY <1>0, <2>1, <2>2 DEF StartedOps
  <1>4. /\ work'[r] = [stage |-> "get", task |-> t] /\ work'[r] # Idle /\ work'[r].task = t
        /\ \A s \in Ranks \ {r} : work'[s] = work[s]
        /\ left'[p] = left[p] \ {t} /\ \A q \in Positions \ {p} : left'[q] = left[q]
        /\ DOMAIN work' = Ranks /\ DOMAIN left' = Positions
    BY <1>0, <1>1, <1>3 DEF ExecInv, DataOK, Idle
  <1>5. t \in TasksOf(OpAt(p)) /\ t \in left[p]
    BY <1>0, <1>1, <1>3 DEF ExecInv, TasksLeft
  <1>6. ASSUME NEW s \in Ranks, work[s] # Idle
        PROVE  s # r /\ work[s].task \notin left[pos[s]] /\ work'[s] = work[s]
    BY <1>2, <1>4, <1>6, BusyFacts DEF ExecInv
  <1>7. /\ InFlight(p)' = InFlight(p) \cup {t}
        /\ \A q \in Positions \ {p} : InFlight(q)' = InFlight(q)
    BY <1>0, <1>2, <1>4, <1>6 DEF InFlight
  <1>8. \A o : Where(o)' = Where(o) /\ (o \in Positions => Where(o) \in Positions)
    BY <1>2, SchedulerSame, OrderFacts DEF IInv
  <1>9. Stored' = Stored
    <2>1. \A o \in Positions : Where(o) \in Positions /\ Where(o)' = Where(o)
      BY <1>8
    <2>2. \A q \in Positions : left'[q] \cup InFlight(q)' = left[q] \cup InFlight(q)
      <3>1. left'[p] \cup InFlight(p)' = left[p] \cup InFlight(p)
        BY <1>4, <1>5, <1>7
      <3>2. QED
        BY <1>4, <1>7, <3>1
    <2>3. \A o \in Positions : TasksOf(Program[o]) \ (left'[Where(o)'] \cup InFlight(Where(o))')
                             = TasksOf(Program[o]) \ (left[Where(o)] \cup InFlight(Where(o)))
      BY <2>1, <2>2
    <2>4. QED
      BY <2>3 DEF Stored
  <1>10. DataOK'
    BY <1>2, <1>4 DEF DataOK, ExecInv
  <1>11. AtWork'
    <2>1. ASSUME NEW s \in Ranks, s # r
          PROVE  work'[s] = Idle \/ \E u \in TasksOf(Op(s)) : Busy(s, u)'
      <3>1. CASE work[s] = Idle
        BY <1>4, <2>1, <3>1
      <3>2. CASE work[s] # Idle
        <4>1. Busy(s, work[s].task) /\ work[s].task \in TasksOf(Op(s)) /\ InOp(s)
          BY <3>2, BusyFacts DEF ExecInv
        <4>2. Op(s)' = Op(s) /\ pos[s] \in Positions
          BY <1>2, <4>1, SchedulerSame, InsideOp
        <4>3. \A u : u \notin left[pos[s]] => u \notin left'[pos[s]]
          BY <1>4, <4>2
        <4>4. \A u : Busy(s, u) => Busy(s, u)'
          BY <1>2, <1>4, <2>1, <4>2, <4>3 DEF Busy
        <4>5. QED
          BY <4>1, <4>4
      <3>3. QED
        BY <3>1, <3>2
    <2>2. Busy(r, t)' /\ t \in TasksOf(Op(r))
      <3>1. Op(r)' = Op(r)
        BY <1>2, SchedulerSame
      <3>2. t \in TasksOf(Op(r)) /\ t \notin left'[pos[r]]
        BY <1>0, <1>3, <1>4, <1>5
      <3>3. QED
        BY <1>1, <1>2, <1>4, <3>1, <3>2 DEF Busy
    <2>3. \A s \in Ranks : Op(s)' = Op(s)
      BY <1>2, SchedulerSame
    <2>4. QED
      BY <2>1, <2>2, <2>3 DEF AtWork
  <1>12. TakenOnce'
    <2>1. ASSUME NEW s \in Ranks, s # r, work'[s] # Idle, pos[s] = pos[r]
          PROVE  work'[s].task # t
      <3>1. work[s].task \notin left[pos[s]] /\ work'[s] = work[s]
        BY <1>4, <1>6, <2>1
      <3>2. QED
        BY <1>0, <1>5, <2>1, <3>1
    <2>2. QED
      BY <1>2, <1>4, <2>1 DEF TakenOnce, ExecInv
  <1>13. TasksLeft'
    <2>1. \A q \in Positions : left'[q] \subseteq left[q]
      BY <1>4
    <2>2. \A q \in Positions : q # p => left'[q] = left[q]
      BY <1>4
    <2>3. /\ \A q \in Positions : OpAt(q)' = OpAt(q)
          /\ StartedOps' = StartedOps /\ \A s \in Ranks : Done(s)' = Done(s)
      BY <1>2, SchedulerSame
    <2>4. QED
      BY <1>2, <1>3, <2>1, <2>2, <2>3 DEF TasksLeft, ExecInv
  <1>14. BlocksHold'
    <2>1. \A x, b : Cell(Stored, x, b)' = Cell(Stored, x, b)
      BY <1>9 DEF Cell, Resets, Adds
    <2>2. QED
      BY <1>2, <2>1 DEF BlocksHold, ExecInv
  <1>15. QED
    BY <1>2, <1>10, <1>11, <1>12, <1>13, <1>14, SchedulerSame DEF ExecInv

\* A rank goes on with its task.
LEMMA WorkKeeps ==
  ASSUME IInv, ExecInv, NEW r \in Ranks, UNCHANGED <<vars, mem, left>>,
         work[r] # Idle, work'[r] # Idle, work'[r].task = work[r].task,
         \A s \in Ranks \ {r} : work'[s] = work[s], DOMAIN work' = Ranks,
         NEW t, t = work[r].task, Busy(r, t)'
  PROVE  ExecInv'
  <1>1. /\ order' = order /\ pc' = pc /\ pos' = pos /\ mem' = mem /\ left' = left
        /\ UNCHANGED vars
    BY DEF vars
  <1>2. \A s \in Ranks : (work'[s] # Idle <=> work[s] # Idle) /\ work'[s].task = work[s].task
    OBVIOUS
  <1>3. \A p : InFlight(p)' = InFlight(p)
    BY <1>1, <1>2 DEF InFlight
  <1>4. Stored' = Stored
    BY <1>1, <1>3, SchedulerSame DEF Stored
  <1>5. DataOK'
    BY <1>1 DEF DataOK, ExecInv
  <1>6. AtWork'
    <2>1. ASSUME NEW s \in Ranks, s # r, work[s] # Idle
          PROVE  \E u \in TasksOf(Op(s)) : Busy(s, u)'
      <3>1. Busy(s, work[s].task) /\ work[s].task \in TasksOf(Op(s))
        BY <2>1, BusyFacts DEF ExecInv
      <3>2. Op(s)' = Op(s)
        BY <1>1, SchedulerSame
      <3>3. \A u : Busy(s, u) => Busy(s, u)'
        BY <1>1, <2>1, <3>2 DEF Busy
      <3>4. QED
        BY <3>1, <3>3
    <2>2. t \in TasksOf(Op(r))
      BY BusyFacts DEF ExecInv
    <2>3. \A s \in Ranks : Op(s)' = Op(s)
      BY <1>1, SchedulerSame
    <2>4. QED
      BY <2>1, <2>2, <2>3 DEF AtWork
  <1>7. TakenOnce'
    BY <1>1, <1>2 DEF TakenOnce, ExecInv
  <1>8. TasksLeft'
    BY <1>1, SchedulerSame DEF TasksLeft, ExecInv
  <1>9. BlocksHold'
    <2>1. \A x, b : Cell(Stored, x, b)' = Cell(Stored, x, b)
      BY <1>4 DEF Cell, Resets, Adds
    <2>2. QED
      BY <1>1, <2>1 DEF BlocksHold, ExecInv
  <1>10. QED
    BY <1>1, <1>5, <1>6, <1>7, <1>8, <1>9, SchedulerSame DEF ExecInv

LEMMA GetKeeps ==
  ASSUME IInv, ExecInv, NEW r \in Ranks, Get(r)
  PROVE  ExecInv'
  <1> DEFINE o == order[pos[r]]
  <1>0. PICK t : t = work[r].task
    OBVIOUS
  <1>1. /\ work[r].stage = "get" /\ UNCHANGED <<vars, mem, left>>
        /\ work' = [work EXCEPT ![r] =
             [stage |-> IF LoadsFirst(Op(r)) THEN "load" ELSE "store", task |-> t,
              value |-> Result(o, t, mem), old |-> 0]]
    BY <1>0 DEF Get
  <1>2. work[r] # Idle
    BY <1>1 DEF Idle
  <1>3. /\ pc[r] = "op" /\ InOp(r) /\ t \in TasksOf(Op(r)) /\ t \notin left[pos[r]]
        /\ MayTake(r, Op(r), t)
    BY <1>0, <1>2, BusyFacts DEF ExecInv
  <1>4. o \in Positions /\ Op(r) = Program[o] /\ o - 1 \in 0 .. NOps
    <2>1. o \in Positions /\ NOps \in Nat
      BY <1>3, NotDone, CallFacts
    <2>2. QED
      BY <2>1 DEF Op, OpAt, Positions
  <1>5. Result(o, t, mem) = Right(o, t)
    <2>1. mem \in Memories /\ Meaning[o - 1] \in Memories
      BY <1>4, MeaningIs DEF ExecInv, DataOK
    <2>2. Reads(Program[o]) \subseteq Tensors
      BY <1>4, OpFacts DEF Reads
    <2>3. \A x \in Reads(Program[o]) : \A b \in Shape[x] : mem[x][b] = Meaning[o - 1][x][b]
      BY <1>3, <1>4, <2>2, ReadsMeaning
    <2>4. QED
      BY <1>3, <1>4, <2>1, <2>3, ResultFacts DEF Right
  <1>6. /\ work'[r] = [stage |-> IF LoadsFirst(Op(r)) THEN "load" ELSE "store", task |-> t,
                       value |-> Right(o, t), old |-> 0]
        /\ \A s \in Ranks \ {r} : work'[s] = work[s]
        /\ DOMAIN work' = Ranks
    BY <1>1, <1>5 DEF ExecInv, DataOK
  <1>7. work'[r] # Idle /\ work'[r].task = t
    BY <1>6 DEF Idle
  <1>8. Busy(r, t)'
    <2>1. /\ order' = order /\ pc' = pc /\ pos' = pos /\ left' = left /\ mem' = mem
          /\ Op(r)' = Op(r)
      BY <1>1, SchedulerSame DEF vars
    <2>2. QED
      BY <1>3, <1>6, <2>1 DEF Busy
  <1>9. QED
    BY <1>0, <1>1, <1>2, <1>6, <1>7, <1>8, WorkKeeps

LEMMA LoadKeeps ==
  ASSUME IInv, ExecInv, NEW r \in Ranks, Load(r)
  PROVE  ExecInv'
  <1>0. PICK t : t = work[r].task
    OBVIOUS
  <1>1. /\ work[r].stage = "load" /\ UNCHANGED <<vars, mem, left>>
        /\ work' = [work EXCEPT ![r] =
             [stage |-> "store", task |-> t, value |-> work[r].value,
              old |-> mem[Op(r).lhs][t.into]]]
    BY <1>0 DEF Load
  <1>2. work[r] # Idle
    BY <1>1 DEF Idle
  <1>3. /\ pc[r] = "op" /\ t \in TasksOf(Op(r)) /\ t \notin left[pos[r]]
        /\ MayTake(r, Op(r), t) /\ Busy(r, t)
    BY <1>0, <1>2, BusyFacts DEF ExecInv
  <1>4. LoadsFirst(Op(r)) /\ work[r].value = Right(order[pos[r]], t)
    BY <1>1, <1>3 DEF Busy
  <1>5. /\ work'[r] = [stage |-> "store", task |-> t, value |-> Right(order[pos[r]], t),
                       old |-> mem[Op(r).lhs][t.into]]
        /\ \A s \in Ranks \ {r} : work'[s] = work[s]
        /\ DOMAIN work' = Ranks
    BY <1>1, <1>4 DEF ExecInv, DataOK
  <1>6. work'[r] # Idle /\ work'[r].task = t
    BY <1>5 DEF Idle
  <1>7. Busy(r, t)'
    <2>1. /\ order' = order /\ pc' = pc /\ pos' = pos /\ left' = left /\ mem' = mem
          /\ Op(r)' = Op(r)
      BY <1>1, SchedulerSame DEF vars
    <2>2. QED
      BY <1>3, <1>4, <1>5, <2>1 DEF Busy
  <1>8. QED
    BY <1>0, <1>1, <1>2, <1>5, <1>6, <1>7, WorkKeeps

\* Two ranks inside operations are in the same call, on the same level.
LEMMA EarlierOnLevel ==
  ASSUME IInv, NEW r \in Ranks, NEW s \in Ranks, InOp(r), InOp(s), pos[r] <= pos[s]
  PROVE  \E b \in Calls : /\ order[pos[r]] \in BatchOf(b) /\ order[pos[s]] \in BatchOf(b)
                          /\ Level[order[pos[r]]] = Level[order[pos[s]]]
  <1> DEFINE b == call[r]
  <1>1. /\ b \in Calls /\ pos[r] \in First(b) .. Batches[b] /\ pos[s] \in Positions
        /\ TypeOK /\ order \in Orders /\ pos[r] \in Int /\ pos[s] \in Int
    BY InsideOp DEF IInv
  <1>2. /\ pos[s] <= Batches[b]
        /\ Level[order[pos[r]]] = Level[order[pos[s]]]
    <2>1. CASE pos[r] = pos[s]
      BY <1>1, <2>1, CallFacts
    <2>2. CASE pos[r] < pos[s]
      <3> SUFFICES ASSUME pos[s] > Batches[b] \/ Level[order[pos[r]]] # Level[order[pos[s]]]
                   PROVE  FALSE
        BY <1>1, CallFacts
      <3>1. PICK x \in Sites : 5 * pos[r] + 2 < x /\ x <= 5 * pos[s] + 1
        BY <1>1, <2>2, SiteBetweenLevels
      <3>2. QED
        BY <3>1, Apart
    <2>3. QED
      BY <1>1, <2>1, <2>2
  <1>3. First(b) \in Nat /\ Batches[b] \in Nat
    BY <1>1, CallFacts
  <1>4. pos[r] \in BatchOf(b) /\ pos[s] \in BatchOf(b)
    BY <1>1, <1>2, <1>3 DEF BatchOf, Last
  <1>5. IsOrdering(BatchOf(b), Level, order)
    BY <1>1, PlanAssumption
  <1>6. order[pos[r]] \in BatchOf(b) /\ order[pos[s]] \in BatchOf(b)
    BY <1>4, <1>5 DEF IsOrdering
  <1>7. QED
    BY <1>1, <1>2, <1>6

\* A block that a rank has loaded for += of a set or add is changed by no other rank:
\* only its owner works on it, products beside it included.
LEMMA BlockIsMine ==
  ASSUME NothingAddedBetween, IInv, ExecInv, NEW r \in Ranks, NEW s \in Ranks, r # s,
         work[r] # Idle, work[s] # Idle, NEW x, Changes(Op(r), x), Op(s).lhs = x,
         LoadsFirst(Op(s)), work[r].task.into = work[s].task.into
  PROVE  FALSE
  <1> DEFINE o == order[pos[r]]
             k == order[pos[s]]
             t == work[r].task
             u == work[s].task
  <1>1. /\ InOp(r) /\ InOp(s) /\ t \in TasksOf(Op(r)) /\ u \in TasksOf(Op(s))
        /\ MayTake(r, Op(r), t) /\ MayTake(s, Op(s), u)
    BY BusyFacts DEF ExecInv
  <1>2. /\ o \in Positions /\ k \in Positions /\ Op(r) = Program[o] /\ Op(s) = Program[k]
        /\ pos[r] \in Int /\ pos[s] \in Int
    BY <1>1, NotDone, InsideOp DEF Op, OpAt
  <1> HIDE DEF o, k, t, u
  <1>3. Changes(Op(s), x) /\ ~Op(s).assign /\ Op(s).kind \in {"set", "add"}
    BY DEF LoadsFirst, Changes
  <1>4. CASE pos[r] = pos[s]
    <2>1. Op(r) = Op(s) /\ t # u
      BY <1>4 DEF Op, OpAt, TakenOnce, ExecInv, t, u
    <2>2. TasksOf(Op(s)) = {[into |-> b, from |-> b] : b \in Shape[Op(s).lhs]}
      BY <1>2, <1>3, TaskFacts
    <2>3. PICK b, c : t = [into |-> b, from |-> b] /\ u = [into |-> c, from |-> c]
      BY <1>1, <2>1, <2>2
    <2>4. t.into = b /\ u.into = c /\ t.into = u.into
      BY <2>3 DEF t, u
    <2>5. QED
      BY <2>1, <2>3, <2>4
  <1>5. CASE pos[r] # pos[s]
    <2>1. ~HasDependence(Op(r), Op(s))
      <3>1. pos[r] < pos[s] \/ pos[s] < pos[r]
        BY <1>2, <1>5
      <3>2. QED
        BY <1>1, <3>1, EarlierApart, DependenceSymmetric DEF Op
    <2>2. x \in Accumulates(Op(s)) /\ ~Op(r).assign /\ x \in Accumulates(Op(r))
          /\ Op(r).kind \in {"set", "add", "mult"}
      <3>1. x \in Accumulates(Op(s))
        BY <1>2, <1>3, ChangeFacts
      <3>2. x \notin Writes(Op(r))
        BY <2>1, <3>1 DEF HasDependence
      <3>3. QED
        BY <1>2, <3>1, <3>2, ChangeFacts
    <2>3. \E b \in Calls : o \in BatchOf(b) /\ k \in BatchOf(b) /\ Level[o] = Level[k]
      <3>1. pos[r] <= pos[s] \/ pos[s] <= pos[r]
        BY <1>2
      <3>2. QED
        BY <1>1, <3>1, EarlierOnLevel DEF o, k
    <2>4. ~SharedOut(Op(r))
      <3>1. CASE Op(r).kind = "mult"
        <4>1. Op(r).lhs = Op(s).lhs
          BY DEF Changes
        <4>2. QED
          BY <1>2, <2>3, <3>1, <4>1 DEF NothingAddedBetween
      <3>2. CASE Op(r).kind \in {"set", "add"}
        BY <3>2 DEF SharedOut
      <3>3. QED
        BY <2>2, <3>1, <3>2
    <2>5. ~SharedOut(Op(s))
      BY <1>3 DEF SharedOut
    <2>6. Owner[t.into] = r /\ Owner[u.into] = s
      BY <1>1, <2>4, <2>5 DEF MayTake
    <2>7. QED
      BY <2>6 DEF t, u
  <1>6. QED
    BY <1>4, <1>5

\* One task more adds its result to its block, and to no other.
LEMMA AmountAdds ==
  ASSUME NEW o \in Positions, NEW m \in Memories, NEW S \in SUBSET TasksOf(Program[o]),
         NEW t \in TasksOf(Program[o]), t \notin S, NEW b
  PROVE  Amount(o, m, S \cup {t}, b) =
           Amount(o, m, S, b) + IF t.into = b THEN Result(o, t, m) ELSE 0
  <1> DEFINE f == [u \in TasksOf(Program[o]) |-> Result(o, u, m)]
             T == {u \in S : u.into = b}
  <1>1. Amount(o, m, S, b) = SumFunctionOnSet(f, T) /\ SumFunctionOnSet(f, T) \in Int
    <2>1. Amount(o, m, S, b) = SumFunctionOnSet(f, T)
      BY DEF Amount
    <2>2. QED
      BY <2>1, AmountType
  <1>2. IsFiniteSet(T)
    <2>1. IsFiniteSet(TasksOf(Program[o])) /\ T \subseteq TasksOf(Program[o])
      BY TaskFacts
    <2>2. QED
      BY <2>1, FS_Subset
  <1>3. f[t] = Result(o, t, m) /\ \A u \in T \cup {t} : f[u] \in Int
    BY ResultFacts
  <1>4. CASE t.into = b
    <2>1. {u \in S \cup {t} : u.into = b} = T \cup {t}
      BY <1>4
    <2>2. Amount(o, m, S \cup {t}, b) = SumFunctionOnSet(f, T \cup {t})
      BY <2>1 DEF Amount
    <2>3. t \notin T
      OBVIOUS
    <2> HIDE DEF f, T
    <2>4. SumFunctionOnSet(f, T \cup {t}) = SumFunctionOnSet(f, T) + f[t]
      BY <1>2, <1>3, <2>3, SumAdd
    <2>5. QED
      BY <1>1, <1>3, <1>4, <2>2, <2>4
  <1>5. CASE t.into # b
    <2>1. {u \in S \cup {t} : u.into = b} = T
      BY <1>5
    <2>2. Amount(o, m, S \cup {t}, b) = SumFunctionOnSet(f, T)
      BY <2>1 DEF Amount
    <2> HIDE DEF f, T
    <2>3. QED
      BY <1>1, <1>5, <2>2
  <1>6. QED
    BY <1>4, <1>5

LEMMA StoreKeeps ==
  ASSUME NothingAddedBetween, IInv, ExecInv, NEW r \in Ranks, Store(r)
  PROVE  ExecInv'
  <1>1. PICK t, o, p : t = work[r].task /\ o = order[pos[r]] /\ p = pos[r]
    OBVIOUS
  <1> DEFINE op == Program[o]
             v == Right(o, t)
             Hit(x, b) == Changes(op, x) /\ b = t.into
  <1>2. /\ work[r].stage = "store" /\ UNCHANGED <<vars, left>>
        /\ work' = [work EXCEPT ![r] = Idle]
        /\ order' = order /\ pc' = pc /\ pos' = pos
    BY DEF Store, vars
  <1>3. work[r] # Idle
    BY <1>2 DEF Idle
  <1>4. /\ pc[r] = "op" /\ InOp(r) /\ Busy(r, t) /\ t \in TasksOf(Op(r)) /\ t \notin left[p]
    BY <1>1, <1>3, BusyFacts DEF ExecInv
  <1>5. /\ o \in Positions /\ p \in Positions /\ Op(r) = op /\ OpAt(p) = op
        /\ Where(o) = p /\ o \in 1 .. NOps /\ NOps \in Nat
    <2>1. o \in Positions /\ p \in Positions /\ NOps \in Nat
      BY <1>1, <1>4, NotDone, InsideOp, CallFacts
    <2>2. Where(o) = p
      BY <1>1, <2>1, OrderFacts DEF IInv
    <2>3. QED
      BY <1>1, <2>1, <2>2 DEF Op, OpAt, Positions
  <1>6. t \in TasksOf(op) /\ ~Collective(op)
    BY <1>4, <1>5, TaskFacts
  <1>7. v \in Int /\ Meaning[o - 1] \in Memories
    <2>1. Meaning[o - 1] \in Memories
      BY <1>5, MeaningIs
    <2>2. QED
      BY <1>5, <1>6, <2>1, ResultFacts DEF Right
  <1>8. /\ work[r].value = v
        /\ work[r].old = IF LoadsFirst(op) THEN mem[op.lhs][t.into] ELSE 0
    <2>1. work[r] = [stage |-> "store", task |-> t, value |-> v,
                     old |-> IF LoadsFirst(op) THEN mem[op.lhs][t.into] ELSE 0]
      <3>1. work[r].stage # "get" /\ work[r].stage # "load"
        BY <1>2
      <3>2. QED
        BY <1>1, <1>4, <1>5, <3>1 DEF Busy
    <2>2. QED
      BY <2>1
  <1>9. /\ op.lhs \in Tensors /\ op.kind \in {"set", "add", "mult", "map", "scan"}
        /\ op.kind = "mult" => ~op.assign
        /\ op.kind = "map" => op.assign
        /\ op.assign \in BOOLEAN
        /\ t.into \in Blocks /\ t.into \in Shape[op.lhs]
    BY <1>5, <1>6, OpFacts, TaskFacts DEF Kinds, Collective
  <1> HIDE DEF op, v
  <1>10. mem \in Memories
    BY DEF ExecInv, DataOK
  <1>11. /\ mem' \in Memories
         /\ \A x \in Tensors, b \in Blocks :
              mem'[x][b] = IF Hit(x, b) THEN (IF op.assign THEN 0 ELSE mem[x][b]) + v
                           ELSE mem[x][b]
    <2>1. CASE op.kind = "scan"
      <3>1. mem' = mem
        BY <1>5, <2>1 DEF Store
      <3>2. \A x : ~Changes(op, x)
        BY <2>1 DEF Changes
      <3>3. QED
        BY <1>10, <3>1, <3>2
    <2>2. CASE op.kind # "scan"
      <3> DEFINE n == (IF op.assign THEN 0 ELSE mem[op.lhs][t.into]) + v
      <3>1. mem[op.lhs][t.into] \in Int
        BY <1>9, <1>10 DEF Memories
      <3>2. n \in Int
        BY <1>7, <1>9, <3>1
      <3>3. mem' = [mem EXCEPT ![op.lhs][t.into] = n]
        <4>1. CASE op.kind = "mult"
          <5>1. mem' = [mem EXCEPT ![op.lhs][t.into] = @ + work[r].value]
            BY <1>1, <1>5, <2>2, <4>1 DEF Store
          <5>2. QED
            BY <1>8, <1>9, <4>1, <5>1
        <4>2. CASE op.kind # "mult"
          <5>1. mem' = [mem EXCEPT ![op.lhs][t.into] = work[r].old + work[r].value]
            BY <1>1, <1>5, <2>2, <4>2 DEF Store
          <5>2. LoadsFirst(op) <=> ~op.assign
            BY <1>9, <2>2, <4>2 DEF LoadsFirst
          <5>3. work[r].old + work[r].value = n
            BY <1>8, <5>2
          <5>4. QED
            BY <5>1, <5>3
        <4>3. QED
          BY <4>1, <4>2
      <3>4. \A x : Changes(op, x) <=> x = op.lhs
        BY <1>9, <2>2 DEF Changes
      <3>5. mem' \in Memories
        BY <1>9, <1>10, <3>2, <3>3 DEF Memories
      <3>6. ASSUME NEW x \in Tensors, NEW b \in Blocks
            PROVE  mem'[x][b] = IF x = op.lhs /\ b = t.into THEN n ELSE mem[x][b]
        <4> HIDE DEF n
        <4>1. QED
          BY <1>9, <1>10, <3>3 DEF Memories
      <3>7. QED
        BY <3>4, <3>5, <3>6
    <2>3. QED
      BY <2>1, <2>2
  <1>12. /\ work'[r] = Idle /\ \A s \in Ranks \ {r} : work'[s] = work[s]
         /\ DOMAIN work' = Ranks /\ left' = left
    BY <1>2 DEF ExecInv, DataOK
  <1>13. /\ InFlight(p)' = InFlight(p) \ {t} /\ t \in InFlight(p)
         /\ \A q : q # p => InFlight(q)' = InFlight(q)
    <2>1. \A s \in Ranks : s # r /\ work[s] # Idle /\ pos[s] = p => work[s].task # t
      BY <1>1, <1>3 DEF TakenOnce, ExecInv
    <2>2. QED
      BY <1>1, <1>2, <1>3, <1>12, <2>1 DEF InFlight
  <1>14. /\ t \notin Stored[o]
         /\ \A k \in Positions : Stored'[k] = IF k = o THEN Stored[k] \cup {t} ELSE Stored[k]
    <2>1. \A k \in Positions : Where(k)' = Where(k) /\ (Where(k) = p => k = o)
      BY <1>1, <1>2, SchedulerSame, OrderFacts DEF IInv
    <2>2. \A k \in Positions :
            Stored'[k] = TasksOf(Program[k]) \ (left[Where(k)] \cup InFlight(Where(k))')
      BY <1>12, <2>1 DEF Stored
    <2>3. \A k \in Positions :
            Stored[k] = TasksOf(Program[k]) \ (left[Where(k)] \cup InFlight(Where(k)))
      BY DEF Stored
    <2>4. Stored'[o] = TasksOf(op) \ (left[p] \cup InFlight(p)')
      BY <1>2, <1>5, <1>12, SchedulerSame DEF Stored, op
    <2>5. Stored[o] = TasksOf(op) \ (left[p] \cup InFlight(p))
      BY <1>5, <2>3 DEF op
    <2>6. t \notin Stored[o] /\ Stored'[o] = Stored[o] \cup {t}
      BY <1>4, <1>6, <1>13, <2>4, <2>5
    <2>7. ASSUME NEW k \in Positions, k # o
          PROVE  Stored'[k] = Stored[k]
      <3>1. PICK q : q = Where(k)
        OBVIOUS
      <3>2. q # p /\ Where(k)' = q
        BY <2>1, <2>7, <3>1
      <3>3. InFlight(q)' = InFlight(q)
        BY <1>13, <3>2
      <3>4. Stored'[k] = TasksOf(Program[k]) \ (left[q] \cup InFlight(q)')
        BY <1>12, <3>2 DEF Stored, InFlight
      <3>5. QED
        BY <2>3, <3>1, <3>3, <3>4
    <2>8. QED
      BY <2>6, <2>7
  <1>15. DataOK'
    BY <1>11, <1>12 DEF DataOK, ExecInv
  <1>16. AtWork'
    <2>1. ASSUME NEW s \in Ranks, s # r, work[s] # Idle
          PROVE  \E u \in TasksOf(Op(s)) : Busy(s, u)'
      <3>1. PICK u : u = work[s].task
        OBVIOUS
      <3>2. Busy(s, u) /\ u \in TasksOf(Op(s)) /\ InOp(s)
        BY <2>1, <3>1, BusyFacts DEF ExecInv
      <3>3. PICK k \in Positions : k = order[pos[s]] /\ Op(s) = Program[k]
        BY <3>2, NotDone DEF Op, OpAt
      <3>4. Op(s)' = Op(s)
        BY <1>2, SchedulerSame
      <3>5. LoadsFirst(Op(s)) => mem'[Op(s).lhs][u.into] = mem[Op(s).lhs][u.into]
        <4>1. ASSUME LoadsFirst(Op(s))
              PROVE  ~Hit(Op(s).lhs, u.into)
          BY <1>1, <1>3, <1>5, <2>1, <3>1, <4>1, BlockIsMine
        <4>2. Op(s).lhs \in Tensors /\ u.into \in Blocks
          BY <3>2, <3>3, OpFacts, TaskFacts
        <4>3. QED
          BY <1>11, <4>1, <4>2
      <3>6. Busy(s, u)'
        BY <1>2, <1>12, <2>1, <3>2, <3>4, <3>5 DEF Busy
      <3>7. QED
        BY <3>2, <3>6
    <2>2. \A s \in Ranks : Op(s)' = Op(s)
      BY <1>2, SchedulerSame
    <2>3. QED
      BY <1>12, <2>1, <2>2 DEF AtWork
  <1>17. TakenOnce'
    BY <1>2, <1>12 DEF TakenOnce, ExecInv
  <1>18. TasksLeft' /\ InDataflow'
    BY <1>2, SchedulerSame DEF TasksLeft, ExecInv
  <1>19. BlocksHold'
    <2> SUFFICES ASSUME NEW x \in Tensors, NEW b \in Shape[x]
                 PROVE  mem'[x][b] = Cell(Stored, x, b)'[NOps]
      BY DEF BlocksHold
    <2>1. PICK S, T : S = Stored /\ T = Stored'
      OBVIOUS
    <2>2. Cell(Stored, x, b)' = Cell(T, x, b)
      BY <2>1 DEF Cell, Resets, Adds
    <2>3. /\ b \in Blocks /\ mem[x][b] = Cell(S, x, b)[NOps]
          /\ mem'[x][b] = IF Hit(x, b) THEN (IF op.assign THEN 0 ELSE mem[x][b]) + v
                          ELSE mem[x][b]
      BY <1>11, <2>1, ShapeFacts DEF BlocksHold, ExecInv
    <2>4. /\ \A k \in Positions : S[k] \subseteq TasksOf(Program[k])
          /\ \A k \in Positions : T[k] = IF k = o THEN S[k] \cup {t} ELSE S[k]
          /\ \A k \in Positions : T[k] \subseteq TasksOf(Program[k])
          /\ t \notin S[o]
      BY <1>6, <1>14, <2>1, StoredSubset DEF op
    <2> DEFINE rS == Resets(S, x, b)  aS == Adds(S, x, b)
               rT == Resets(T, x, b)  aT == Adds(T, x, b)
    <2>5. /\ Junk \in Int /\ Positions = 1 .. NOps
          /\ \A k \in 1 .. NOps : aS[k] \in Int /\ aT[k] \in Int
          /\ Cell(T, x, b)[o] = (IF rT[o] THEN 0 ELSE Cell(T, x, b)[o - 1]) + aT[o]
          /\ Cell(S, x, b) = Tally(Junk, rS, aS, NOps)
          /\ Cell(T, x, b) = Tally(Junk, rT, aT, NOps)
      <3>1. Positions = 1 .. NOps /\ Junk \in Int
        BY <2>4, CellFacts
      <3>2. \A k \in Positions : aS[k] \in Int
        BY <2>4, CellFacts
      <3>3. /\ \A k \in Positions : aT[k] \in Int
            /\ Cell(T, x, b)[o] = (IF rT[o] THEN 0 ELSE Cell(T, x, b)[o - 1]) + aT[o]
        <4>1. \A k \in Positions : T[k] \subseteq TasksOf(Program[k])
          BY <2>4
        <4>2. /\ \A k \in Positions : aT[k] \in Int
              /\ \A k \in Positions :
                   Cell(T, x, b)[k] = (IF rT[k] THEN 0 ELSE Cell(T, x, b)[k - 1]) + aT[k]
          BY <4>1, CellFacts
        <4>3. QED
          BY <1>5, <4>2
      <3> HIDE DEF rS, aS, rT, aT
      <3>4. QED
        BY <3>1, <3>2, <3>3 DEF Cell, rS, aS, rT, aT
    <2>6. \A k \in 1 .. NOps : k # o => (rT[k] <=> rS[k]) /\ aT[k] = aS[k]
      BY <2>4, <2>5 DEF Resets, Adds
    <2>7. aT[o] = aS[o] + IF Hit(x, b) THEN v ELSE 0
      <3>1. CASE Changes(op, x)
        <4>1. /\ aT[o] = Amount(o, Meaning[o - 1], S[o] \cup {t}, b)
              /\ aS[o] = Amount(o, Meaning[o - 1], S[o], b)
          BY <1>5, <2>4, <3>1 DEF Adds, op
        <4>2. S[o] \subseteq TasksOf(op)
          BY <1>5, <2>4 DEF op
        <4>3. Amount(o, Meaning[o - 1], S[o] \cup {t}, b) =
                Amount(o, Meaning[o - 1], S[o], b) + IF t.into = b THEN v ELSE 0
          <5>1. v = Result(o, t, Meaning[o - 1]) /\ t \in TasksOf(Program[o])
            BY <1>6 DEF Right, op, v
          <5>2. S[o] \in SUBSET TasksOf(Program[o]) /\ t \notin S[o]
            BY <2>4, <4>2 DEF op
          <5>3. o \in Positions /\ Meaning[o - 1] \in Memories
            BY <1>5, <1>7
          <5>4. QED
            BY <5>1, <5>2, <5>3, AmountAdds, SMTT(30)
        <4>4. QED
          BY <3>1, <4>1, <4>3
      <3>2. CASE ~Changes(op, x)
        <4>1. aT[o] = 0 /\ aS[o] = 0
          BY <1>5, <3>2, NotChanged DEF op
        <4>2. QED
          BY <3>2, <4>1
      <3>3. QED
        BY <3>1, <3>2
    <2>8. ASSUME NEW k \in Positions, o < k, Changes(op, x), Changes(Program[k], x),
                 op.assign \/ Program[k].assign
          PROVE  S[k] = {} /\ T[k] = {}
      <3>1. HasDependence(Program[k], op)
        <4>1. x \in Writes(op) \cup Accumulates(op) /\ (op.assign => x \in Writes(op))
          BY <1>5, <1>9, <2>8, ChangeFacts DEF op
        <4>2. /\ x \in Writes(Program[k]) \cup Accumulates(Program[k])
              /\ Program[k].assign => x \in Writes(Program[k])
          BY <2>8, ChangeFacts
        <4>3. QED
          BY <2>8, <4>1, <4>2 DEF HasDependence
      <3>2. Stored[k] = {}
        BY <1>1, <1>4, <1>5, <2>8, <3>1, BeforeAndAfter
      <3>3. k # o
        BY <1>5, <2>8
      <3>4. QED
        BY <2>1, <2>4, <3>2, <3>3
    <2>9. CASE ~Hit(x, b)
      <3>1. rT[o] <=> rS[o]
        <4>1. CASE Changes(op, x)
          BY <1>5, <2>4, <2>9, <4>1 DEF Resets, op
        <4>2. CASE ~Changes(op, x)
          BY <1>5, <4>2, NotChanged DEF op
        <4>3. QED
          BY <4>1, <4>2
      <3>2. \A k \in 1 .. NOps : (rT[k] <=> rS[k]) /\ aT[k] = aS[k]
        <4>1. aS[o] \in Int
          BY <1>5, <2>5
        <4>2. aT[o] = aS[o]
          BY <2>7, <2>9, <4>1
        <4>3. QED
          BY <2>6, <3>1, <4>2
      <3>3. NOps \in 0 .. NOps
        BY <1>5
      <3> HIDE DEF rS, aS, rT, aT
      <3>4. Tally(Junk, rT, aT, NOps)[NOps] = Tally(Junk, rS, aS, NOps)[NOps]
        <4>1. /\ Junk \in Int /\ NOps \in Nat
              /\ \A n \in 1 .. NOps : aS[n] \in Int /\ aT[n] \in Int
          BY <1>5, <2>5
        <4>2. QED
          BY <3>2, <3>3, <4>1, TallySame
      <3>5. QED
        BY <2>2, <2>3, <2>5, <2>9, <3>4
    <2>10. CASE Hit(x, b) /\ ~op.assign
      <3>1. ~rT[o] /\ ~rS[o]
        BY <1>5, <2>10 DEF Resets, op
      <3>2. \A k \in o + 1 .. NOps : ~rS[k]
        <4> SUFFICES ASSUME NEW k \in o + 1 .. NOps, rS[k]
                     PROVE  FALSE
          OBVIOUS
        <4>1. k \in Positions /\ o < k
          BY <1>5, <2>5
        <4>2. Changes(Program[k], x) /\ Program[k].assign /\ S[k] # {}
          BY <4>1 DEF Resets
        <4>3. QED
          BY <2>8, <2>10, <4>1, <4>2
      <3>3. /\ \A k \in 1 .. NOps : (rT[k] <=> rS[k]) /\ (k # o => aT[k] = aS[k])
            /\ aT[o] = aS[o] + v
        BY <2>6, <2>7, <2>10, <3>1
      <3> HIDE DEF rS, aS, rT, aT
      <3>4. Tally(Junk, rT, aT, NOps)[NOps] = Tally(Junk, rS, aS, NOps)[NOps] + v
        <4>1. /\ Junk \in Int /\ NOps \in Nat /\ v \in Int /\ o \in 1 .. NOps
              /\ \A n \in 1 .. NOps : aS[n] \in Int /\ aT[n] \in Int
          BY <1>5, <1>7, <2>5
        <4>2. \A n \in 1 .. NOps : (rT[n] <=> rS[n]) /\ (n # o => aT[n] = aS[n])
          BY <3>3
        <4>3. aT[o] = aS[o] + v
          BY <3>3
        <4>4. DiffersAt(NOps, rS, aS, rT, aT, o)
          BY <3>2, <4>1, <4>2 DEF DiffersAt
        <4>5. Tally(Junk, rT, aT, NOps)[NOps] = Tally(Junk, rS, aS, NOps)[NOps] + (aT[o] - aS[o])
          BY <4>1, <4>4, TallyAdds
        <4>6. aT[o] - aS[o] = v
          BY <4>1, <4>3
        <4>7. QED
          BY <4>5, <4>6
      <3>5. QED
        BY <2>2, <2>3, <2>5, <2>10, <3>4
    <2>11. CASE Hit(x, b) /\ op.assign
      <3>1. \A u \in S[o] : u.into # b
        <4>1. op.kind \in {"set", "add", "map", "scan"}
          BY <1>9, <2>11
        <4>2. TasksOf(op) = {[into |-> c, from |-> c] : c \in Shape[op.lhs]}
          BY <1>5, <4>1, TaskFacts DEF op
        <4>3. ASSUME NEW u \in S[o], u.into = b
              PROVE  FALSE
          <5>1. u \in TasksOf(op) /\ u.into = t.into
            BY <1>5, <2>4, <2>11, <4>3 DEF op
          <5>2. PICK c, d : u = [into |-> c, from |-> c] /\ t = [into |-> d, from |-> d]
            BY <1>6, <4>2, <5>1
          <5>3. c = d
            BY <5>1, <5>2
          <5>4. QED
            BY <2>4, <4>3, <5>2, <5>3
        <4>4. QED
          BY <4>3
      <3>2. aS[o] = 0
        <4>1. {u \in S[o] : u.into = b} = {}
          BY <3>1
        <4>2. Amount(o, Meaning[o - 1], S[o], b) = 0
          BY <4>1, SumEmpty DEF Amount
        <4>3. QED
          BY <1>5, <2>11, <4>2 DEF Adds, op
      <3>3. rT[o]
        BY <1>5, <2>4, <2>11 DEF Resets, op
      <3>4. Cell(T, x, b)[o] = v
        BY <1>7, <2>5, <2>7, <2>11, <3>2, <3>3
      <3>5. \A k \in o + 1 .. NOps : ~rT[k] /\ aT[k] = 0
        <4> SUFFICES ASSUME NEW k \in o + 1 .. NOps
                     PROVE  ~rT[k] /\ aT[k] = 0
          OBVIOUS
        <4>1. k \in Positions /\ o < k
          BY <1>5, <2>5
        <4>2. CASE Changes(Program[k], x)
          BY <2>8, <2>11, <4>1, <4>2, NothingAdded
        <4>3. CASE ~Changes(Program[k], x)
          BY <4>1, <4>3, NotChanged
        <4>4. QED
          BY <4>2, <4>3
      <3>6. o \in 0 .. NOps
        BY <1>5
      <3> HIDE DEF rS, aS, rT, aT
      <3>7. Tally(Junk, rT, aT, NOps)[NOps] = Tally(Junk, rT, aT, NOps)[o]
        <4>1. /\ Junk \in Int /\ NOps \in Nat /\ o \in 0 .. NOps
              /\ \A n \in 1 .. NOps : aT[n] \in Int
              /\ \A k \in o + 1 .. NOps : ~rT[k] /\ aT[k] = 0
          BY <1>5, <2>5, <3>5, <3>6
        <4>2. QED
          BY ONLY <4>1, TallyRests
      <3>8. QED
        BY <1>7, <2>2, <2>3, <2>5, <2>11, <3>4, <3>7
    <2>12. QED
      BY <1>9, <2>9, <2>10, <2>11
  <1>20. QED
    BY <1>15, <1>16, <1>17, <1>18, <1>19 DEF ExecInv

-----------------------------------------------------------------------------
(* Theorems about TensorExec.                                              *)

LEMMA ExecStepIsStep ==
  ASSUME [ExecNext]_execVars
  PROVE  [Next]_vars
  <1>1. ASSUME NEW r \in Ranks, ExecStep(r)
        PROVE  [Next]_vars
    <2>1. CASE Schedule(r)
      BY <2>1 DEF Schedule, Next, Step
    <2>2. CASE Take(r) \/ Get(r) \/ Load(r) \/ Store(r)
      BY <2>2 DEF Take, Get, Load, Store
    <2>3. CASE FinishOp(r) \/ FinishAlloc(r)
      BY <2>3 DEF FinishOp, FinishAlloc, Next, Step
    <2>4. QED
      BY <1>1, <2>1, <2>2, <2>3 DEF ExecStep
  <1>2. CASE UNCHANGED execVars
    BY <1>2 DEF execVars
  <1>3. QED
    BY <1>1, <1>2 DEF ExecNext, execVars

\* The execution of the operations on blocks follows execute(): every theorem about
\* Scheduler holds of TensorExec.
THEOREM ExecImplementsScheduler == ExecSpec => Spec
  <1>1. ExecInit => Init
    BY DEF ExecInit
  <1>2. QED
    BY <1>1, ExecStepIsStep, PTL DEF ExecSpec, Spec

LEMMA ExecInitHolds ==
  ASSUME ExecInit
  PROVE  ExecInv
  <1>1. /\ order \in Orders /\ pc = [r \in Ranks |-> "user"] /\ pos = [r \in Ranks |-> 1]
        /\ mem = Unwritten /\ left = [p \in Positions |-> TasksOf(OpAt(p))]
        /\ work = [r \in Ranks |-> Idle]
    BY DEF ExecInit, Init
  <1>2. Unwritten \in Memories
    BY ExecAssumption DEF Unwritten, Memories
  <1>3. DataOK
    BY <1>1, <1>2 DEF DataOK
  <1>4. AtWork /\ TakenOnce
    BY <1>1 DEF AtWork, TakenOnce
  <1>5. \A r \in Ranks : Begun(r) = {} /\ Done(r) = {}
    BY <1>1 DEF Begun, Done, InOp
  <1>6. StartedOps = {} /\ InDataflow
    BY <1>5 DEF StartedOps, InDataflow
  <1>7. TasksLeft
    BY <1>1, <1>5 DEF TasksLeft
  <1>8. ASSUME NEW o \in Positions
        PROVE  Stored[o] = {}
    <2>1. Where(o) \in Positions /\ order[Where(o)] = o
      BY <1>1, OrderFacts
    <2>2. left[Where(o)] = TasksOf(Program[o])
      BY <1>1, <2>1 DEF OpAt
    <2>3. QED
      BY <2>2 DEF Stored
  <1>9. ASSUME NEW x \in Tensors, NEW b \in Shape[x]
        PROVE  mem[x][b] = Cell(Stored, x, b)[NOps]
    <2>1. \A k \in Positions : ~Resets(Stored, x, b)[k] /\ Adds(Stored, x, b)[k] = 0
      BY <1>8, NothingAdded
    <2> DEFINE rS == Resets(Stored, x, b)  aS == Adds(Stored, x, b)
    <2>2. /\ Positions = 1 .. NOps /\ NOps \in Nat /\ Junk \in Int
          /\ Cell(Stored, x, b)[0] = Junk
      BY StoredSubset, CellFacts
    <2>3. \A k \in Positions : ~rS[k] /\ aS[k] = 0
      BY <2>1
    <2> HIDE DEF rS, aS
    <2>4. Tally(Junk, rS, aS, NOps)[NOps] = Tally(Junk, rS, aS, NOps)[0]
      <3>1. /\ 0 \in 0 .. NOps
            /\ \A k \in 1 .. NOps : aS[k] \in Int
            /\ \A k \in 0 + 1 .. NOps : ~rS[k] /\ aS[k] = 0
        BY <2>2, <2>3
      <3>2. QED
        BY <2>2, <3>1, TallyRests
    <2>5. Cell(Stored, x, b)[NOps] = Junk
      BY <2>2, <2>4 DEF Cell, rS, aS
    <2>6. mem[x][b] = Junk
      BY <1>1, ShapeFacts DEF Unwritten
    <2>7. QED
      BY <2>5, <2>6
  <1>10. QED
    BY <1>3, <1>4, <1>6, <1>7, <1>9 DEF ExecInv, BlocksHold

LEMMA ExecKeeps ==
  ASSUME NothingAddedBetween, IInv, ExecInv, [ExecNext]_execVars
  PROVE  ExecInv'
  <1>1. ASSUME NEW r \in Ranks, ExecStep(r)
        PROVE  ExecInv'
    <2>1. work[r] # Idle => pc[r] = "op"
      BY BusyFacts DEF ExecInv
    <2>2. CASE Schedule(r)
      <3>1. Step(r) /\ UNCHANGED <<mem, left, work>>
        BY <2>2 DEF Schedule, Step, data
      <3>2. pc[r] # "op"
        BY <2>2 DEF Schedule, Execute, EnterLoop, NextLevel, BeginOp, EndLoop, Executed,
                    Return, Ready
      <3>3. CASE EndOp(r)
        <4>1. pc[r] = "coll" /\ InOp(r)
          BY <3>2, <3>3 DEF EndOp, InOp
        <4>2. left[pos[r]] = {}
          <5>1. pos[r] \in Positions /\ Collective(OpAt(pos[r]))
            BY <4>1, InsideOp DEF IInv, Place
          <5>2. order[pos[r]] \in Positions /\ TasksOf(OpAt(pos[r])) = {}
            BY <4>1, <5>1, NotDone, TaskFacts DEF OpAt
          <5>3. QED
            BY <5>1, <5>2 DEF ExecInv, TasksLeft
        <4>3. QED
          BY <2>1, <3>1, <3>2, <4>2, MoveKeeps
      <3>4. CASE ~EndOp(r)
        BY <2>1, <3>1, <3>2, <3>4, MoveKeeps
      <3>5. QED
        BY <3>3, <3>4
    <2>3. CASE FinishOp(r)
      <3>1. /\ work[r] = Idle /\ EndOp(r) /\ UNCHANGED <<mem, left, work>>
            /\ \A t \in left[pos[r]] : ~MayTake(r, Op(r), t)
        BY <2>3 DEF FinishOp, data
      <3>2. Step(r)
        BY <3>1 DEF Step
      <3>3. QED
        BY <3>1, <3>2, MoveKeeps
    <2>4. CASE FinishAlloc(r)
      <3>1. /\ pc[r] = "coll" /\ EndOp(r) /\ UNCHANGED <<mem, left, work>>
        BY <2>4 DEF FinishAlloc
      <3>2. Step(r) /\ InOp(r) /\ work[r] = Idle
        BY <2>1, <3>1 DEF Step, InOp
      <3>3. left[pos[r]] = {}
        <4>1. pos[r] \in Positions /\ Collective(OpAt(pos[r]))
          BY <3>1, <3>2, InsideOp DEF IInv, Place
        <4>2. order[pos[r]] \in Positions /\ TasksOf(OpAt(pos[r])) = {}
          BY <3>2, <4>1, NotDone, TaskFacts DEF OpAt
        <4>3. QED
          BY <4>1, <4>2 DEF ExecInv, TasksLeft
      <3>4. QED
        BY <3>1, <3>2, <3>3, MoveKeeps
    <2>5. QED
      BY <1>1, <2>2, <2>3, <2>4, TakeKeeps, GetKeeps, LoadKeeps, StoreKeeps DEF ExecStep
  <1>2. CASE UNCHANGED execVars
    <2>1. /\ UNCHANGED vars /\ mem' = mem /\ left' = left /\ work' = work
          /\ order' = order /\ pc' = pc /\ pos' = pos
      BY <1>2 DEF execVars, vars, data
    <2>2. Stored' = Stored
      BY <2>1, SchedulerSame DEF Stored, InFlight
    <2>3. \A x, b : Cell(Stored, x, b)' = Cell(Stored, x, b)
      BY <2>2 DEF Cell, Resets, Adds
    <2>4. BlocksHold'
      BY <2>1, <2>3 DEF BlocksHold, ExecInv
    <2>5. AtWork'
      <3> SUFFICES ASSUME NEW s \in Ranks, work[s] # Idle
                   PROVE  \E t \in TasksOf(Op(s))' : Busy(s, t)'
        BY <2>1 DEF AtWork
      <3>1. Op(s)' = Op(s)
        BY <2>1, SchedulerSame
      <3>2. PICK t \in TasksOf(Op(s)) : Busy(s, t)
        BY DEF ExecInv, AtWork
      <3>3. Busy(s, t)'
        BY <2>1, <3>1, <3>2 DEF Busy
      <3>4. QED
        BY <3>1, <3>2, <3>3
    <2>6. DataOK' /\ TakenOnce'
      BY <2>1 DEF DataOK, TakenOnce, ExecInv
    <2>7. TasksLeft' /\ InDataflow'
      BY <2>1, SchedulerSame DEF TasksLeft, ExecInv
    <2>8. QED
      BY <2>4, <2>5, <2>6, <2>7 DEF ExecInv
  <1>3. QED
    BY <1>1, <1>2 DEF ExecNext

\* The blocks hold, at any time, what the tasks stored so far do in the order of the
\* program, for every distribution of blocks, every group of ranks and every program in
\* which no += of a set or add meets, on its level, a product that is shared out.
THEOREM ExecInvariance == NothingAddedBetween => (ExecSpec => []ExecInv)
  <1> SUFFICES ASSUME NothingAddedBetween
               PROVE  ExecSpec => []ExecInv
    OBVIOUS
  <1>1. Spec => []IInv
    BY Invariance
  <1>2. QED
    BY <1>1, ExecImplementsScheduler, ExecInitHolds, ExecKeeps, PTL DEF ExecSpec

\* What a rank reads for an operation is what the operations before it in the program
\* leave there, in programs in which no += of a set or add meets a product that is shared
\* out (addop.hpp, setop.hpp, multop.hpp, mapop.hpp, scanop.hpp under
\* scheduler.hpp:228-269).
THEOREM ReadsInOrderCorrect == NothingAddedBetween => (ExecSpec => []ReadsInOrder)
  <1> SUFFICES ASSUME NothingAddedBetween
               PROVE  ExecSpec => []ReadsInOrder
    OBVIOUS
  <1>1. ASSUME ExecInv
        PROVE  ReadsInOrder
    <2> SUFFICES ASSUME NEW r \in Ranks, work[r].stage \in {"load", "store"}
                 PROVE  work[r].value = Result(order[pos[r]], work[r].task,
                                               Meaning[order[pos[r]] - 1])
      BY DEF ReadsInOrder
    <2>1. work[r] # Idle
      BY DEF Idle
    <2>2. PICK t : Busy(r, t)
      BY <1>1, <2>1 DEF ExecInv, AtWork
    <2>3. QED
      BY <2>2 DEF Busy, Right
  <1>2. QED
    BY <1>1, ExecInvariance, PTL

\* When all ranks have returned from the last execute(), the tensors hold what the
\* program, executed one operation after the other, computes, if on every level what
\* accumulates into a tensor is atomic (products) or done by the owners of the blocks
\* (set, add, products of dense tensors).  Where a product that is shared out meets a +=
\* of a set or add the code can lose what the product adds, and nothing is claimed.
THEOREM FinalMemoryCorrect == NothingAddedBetween => (ExecSpec => []FinalMemory)
  <1> SUFFICES ASSUME NothingAddedBetween
               PROVE  ExecSpec => []FinalMemory
    OBVIOUS
  <1>1. ASSUME IInv, ExecInv
        PROVE  FinalMemory
    <2> SUFFICES ASSUME Terminated, NEW x \in Tensors, NEW b \in Shape[x]
                 PROVE  mem[x][b] = Meaning[NOps][x][b]
      BY DEF FinalMemory
    <2>1. NOps \in Nat /\ Positions = 1 .. NOps /\ Len(Batches) \in Nat
      BY CallFacts DEF Positions
    <2>2. ASSUME NEW r \in Ranks, NEW p \in Positions
          PROVE  p \in 1 .. pos[r] - 1
      <3> DEFINE L == Len(Batches)
      <3>1. pos[r] = First(L + 1)
        BY <1>1 DEF IInv, Place, Terminated
      <3>2. PICK c \in Calls : p \in BatchOf(c)
        BY ExecAssumption
      <3>3. L \in Calls /\ c \in Nat /\ c <= L
        BY <2>1, <3>2 DEF Calls
      <3>4. p <= Batches[c] /\ Batches[c] \in Nat /\ Batches[L] \in Nat
        BY <3>2, <3>3, CallFacts DEF BatchOf, Last
      <3>5. Batches[c] <= Batches[L]
        BY <3>3, <3>4, SchedulerAssumption
      <3>6. pos[r] = Batches[L] + 1
        BY <3>1, <3>3, CallFacts
      <3>7. QED
        BY <2>1, <3>4, <3>5, <3>6
    <2>3. ASSUME NEW o \in Positions
          PROVE  Stored[o] = Full[o]
      <3>1. Where(o) \in Positions /\ order[Where(o)] = o
        BY <1>1, OrderFacts DEF IInv
      <3>2. o \in FinishedOps
        BY <2>2, <3>1 DEF FinishedOps, Done
      <3>3. QED
        BY <1>1, <3>2, AllStored DEF ExecInv, Full
    <2>4. Cell(Stored, x, b) = Cell(Full, x, b)
      <3>1. Resets(Stored, x, b) = Resets(Full, x, b)
        BY <2>3 DEF Resets
      <3>2. Adds(Stored, x, b) = Adds(Full, x, b)
        BY <2>3 DEF Adds
      <3>3. QED
        BY <3>1, <3>2 DEF Cell
    <2>5. NOps \in 0 .. NOps
      BY <2>1
    <2>6. QED
      BY <1>1, <2>4, <2>5, MeaningOfBlock DEF ExecInv, BlocksHold
  <1>2. Spec => []IInv
    BY Invariance
  <1>3. QED
    BY <1>1, <1>2, ExecImplementsScheduler, ExecInvariance, PTL

-----------------------------------------------------------------------------
(* What holds of memory and tasks in every program, whatever the values.   *)

\* Rank r is inside the operation of its task.
InTask(r) ==
  /\ pc[r] = "op" /\ work[r].task \in TasksOf(Op(r))
  /\ work[r].stage \in {"get", "load", "store"}
  /\ work[r].stage # "get" => work[r].value \in Int /\ work[r].old \in Int

WorkOK ==
  /\ DataOK
  /\ \A p \in Positions : left[p] \subseteq TasksOf(OpAt(p))
  /\ \A r \in Ranks : work[r] = Idle \/ InTask(r)

LEMMA WorkInit ==
  ASSUME ExecInit
  PROVE  WorkOK
  <1>1. Unwritten \in Memories
    BY ExecAssumption DEF Unwritten, Memories
  <1>2. QED
    BY <1>1 DEF ExecInit, WorkOK, DataOK

\* A rank without a task moves; the others stay in theirs.
LEMMA MoveKeepsWork ==
  ASSUME IInv, WorkOK, NEW r \in Ranks, Step(r), UNCHANGED <<mem, left, work>>, work[r] = Idle
  PROVE  WorkOK'
  <1>1. /\ order' = order /\ mem' = mem /\ left' = left /\ work' = work
        /\ \A s \in Ranks \ {r} : pc'[s] = pc[s] /\ pos'[s] = pos[s]
    BY PositionKept
  <1>2. \A p : OpAt(p)' = OpAt(p)
    BY <1>1 DEF OpAt
  <1>3. ASSUME NEW s \in Ranks, work[s] # Idle
        PROVE  InTask(s)'
    <2>1. s # r /\ pc'[s] = pc[s] /\ pos'[s] = pos[s] /\ Op(s)' = Op(s) /\ InTask(s)
      BY <1>1, <1>2, <1>3 DEF Op, WorkOK
    <2>2. QED
      BY <1>1, <2>1 DEF InTask
  <1>4. QED
    BY <1>1, <1>2, <1>3 DEF WorkOK, DataOK

\* A rank takes a task or goes on with the one it has.
LEMMA TaskKeepsWork ==
  ASSUME IInv, WorkOK, NEW r \in Ranks, Take(r) \/ Get(r) \/ Load(r) \/ Store(r)
  PROVE  WorkOK'
  <1>1. /\ UNCHANGED vars /\ order' = order /\ pc' = pc /\ pos' = pos
        /\ \A p : OpAt(p)' = OpAt(p)
        /\ \A s : Op(s)' = Op(s)
    BY SchedulerSame DEF Take, Get, Load, Store, vars
  <1>2. PICK v : work' = [work EXCEPT ![r] = v]
    BY DEF Take, Get, Load, Store
  <1>3. DOMAIN work' = Ranks /\ work'[r] = v /\ \A s \in Ranks \ {r} : work'[s] = work[s]
    BY <1>2 DEF WorkOK, DataOK
  <1>4. ASSUME NEW s \in Ranks, s # r
        PROVE  work'[s] = Idle \/ InTask(s)'
    BY <1>1, <1>3, <1>4 DEF WorkOK, InTask
  <1>5. pos[r] \in Positions /\ Op(r) = OpAt(pos[r]) /\ mem \in Memories /\ DOMAIN left = Positions
    <2>1. InOp(r)
      <3>1. CASE Take(r)
        BY <3>1 DEF Take, InOp
      <3>2. CASE ~Take(r)
        <4>1. work[r] # Idle
          BY <3>2 DEF Get, Load, Store, Idle
        <4>2. QED
          BY <4>1 DEF WorkOK, InTask, InOp
      <3>3. QED
        BY <3>1, <3>2
    <2>2. QED
      BY <2>1, InsideOp DEF Op, WorkOK, DataOK
  <1>6. order[pos[r]] \in Positions /\ Op(r) = Program[order[pos[r]]]
    <2>1. order \in [Positions -> Positions]
      BY DEF IInv, TypeOK
    <2>2. QED
      BY <1>5, <2>1 DEF OpAt
  <1>7. mem' \in Memories /\ DOMAIN left' = Positions
        /\ (\A p \in Positions : left'[p] \subseteq TasksOf(OpAt(p)))
        /\ (work'[r] = Idle \/ InTask(r)')
    <2>1. CASE Take(r)
      <3>1. PICK t \in left[pos[r]] :
              /\ left' = [left EXCEPT ![pos[r]] = @ \ {t}]
              /\ work' = [work EXCEPT ![r] = [stage |-> "get", task |-> t]]
        BY <2>1 DEF Take
      <3>2. mem' = mem /\ pc[r] = "op" /\ t \in TasksOf(Op(r))
        BY <1>5, <2>1, <3>1 DEF Take, WorkOK
      <3>3. work'[r] = [stage |-> "get", task |-> t]
        BY <3>1 DEF WorkOK, DataOK
      <3>4. InTask(r)'
        BY <1>1, <3>2, <3>3 DEF InTask
      <3>5. \A p \in Positions : left'[p] \subseteq left[p]
        BY <1>5, <3>1
      <3>6. QED
        BY <1>5, <3>1, <3>2, <3>4, <3>5 DEF WorkOK
    <2>2. CASE Get(r)
      <3>1. /\ InTask(r) /\ mem' = mem /\ left' = left
            /\ work'[r] = [stage |-> IF LoadsFirst(Op(r)) THEN "load" ELSE "store",
                           task |-> work[r].task,
                           value |-> Result(order[pos[r]], work[r].task, mem), old |-> 0]
        BY <2>2 DEF Get, WorkOK, DataOK, Idle
      <3>2. Result(order[pos[r]], work[r].task, mem) \in Int
        <4>1. work[r].task \in TasksOf(Program[order[pos[r]]])
          BY <1>6, <3>1 DEF InTask
        <4>2. QED
          BY <1>5, <1>6, <4>1, ResultFacts
      <3>3. InTask(r)'
        BY <1>1, <3>1, <3>2 DEF InTask
      <3>4. QED
        BY <1>5, <3>1, <3>3 DEF WorkOK
    <2>3. CASE Load(r)
      <3>1. /\ InTask(r) /\ mem' = mem /\ left' = left /\ work[r].stage = "load"
            /\ work'[r] = [stage |-> "store", task |-> work[r].task, value |-> work[r].value,
                           old |-> mem[Op(r).lhs][work[r].task.into]]
        BY <2>3 DEF Load, WorkOK, DataOK, Idle
      <3>2. mem[Op(r).lhs][work[r].task.into] \in Int
        <4>1. Op(r).lhs \in Tensors /\ work[r].task.into \in Blocks
          BY <1>6, <3>1, OpFacts, TaskFacts DEF InTask
        <4>2. QED
          BY <1>5, <4>1 DEF Memories
      <3>3. InTask(r)'
        BY <1>1, <3>1, <3>2 DEF InTask
      <3>4. QED
        BY <1>5, <3>1, <3>3 DEF WorkOK
    <2>4. CASE Store(r)
      <3>1. /\ InTask(r) /\ left' = left /\ work'[r] = Idle
            /\ work[r].value \in Int /\ work[r].old \in Int
        BY <2>4 DEF Store, WorkOK, DataOK, Idle, InTask
      <3>2. PICK x \in Tensors, b \in Blocks : x = Op(r).lhs /\ b = work[r].task.into
        BY <1>6, <3>1, OpFacts, TaskFacts DEF InTask
      <3>3. mem[x][b] \in Int
        BY <1>5, <3>2 DEF Memories
      <3>4. mem' = mem \/ \E n \in Int : mem' = [mem EXCEPT ![x][b] = n]
        <4>1. CASE Op(r).kind = "scan"
          BY <2>4, <3>2, <4>1 DEF Store
        <4>2. CASE Op(r).kind = "mult"
          <5>1. mem' = [mem EXCEPT ![x][b] = @ + work[r].value]
            BY <2>4, <3>2, <4>2 DEF Store
          <5>2. mem[x][b] + work[r].value \in Int
            BY <3>1, <3>3
          <5>3. QED
            BY <5>1, <5>2
        <4>3. CASE Op(r).kind \notin {"scan", "mult"}
          <5>1. mem' = [mem EXCEPT ![x][b] = work[r].old + work[r].value]
            BY <2>4, <3>2, <4>3 DEF Store
          <5>2. work[r].old + work[r].value \in Int
            BY <3>1
          <5>3. QED
            BY <5>1, <5>2
        <4>4. QED
          BY <4>1, <4>2, <4>3
      <3>5. mem' \in Memories
        BY <1>5, <3>4 DEF Memories
      <3>6. QED
        BY <1>5, <3>1, <3>5 DEF WorkOK
    <2>5. QED
      BY <2>1, <2>2, <2>3, <2>4
  <1>8. QED
    BY <1>1, <1>3, <1>4, <1>7 DEF WorkOK, DataOK

LEMMA WorkOKKeeps ==
  ASSUME IInv, WorkOK, [ExecNext]_execVars
  PROVE  WorkOK'
  <1>1. ASSUME NEW r \in Ranks, ExecStep(r)
        PROVE  WorkOK'
    <2>1. CASE Schedule(r) \/ FinishOp(r) \/ FinishAlloc(r)
      <3>1. Step(r) /\ UNCHANGED <<mem, left, work>>
        BY <2>1 DEF Schedule, FinishOp, FinishAlloc, Step, data
      <3>2. work[r] = Idle
        <4>1. CASE FinishOp(r)
          BY <4>1 DEF FinishOp
        <4>2. CASE ~FinishOp(r)
          <5>1. pc[r] # "op"
            BY <2>1, <4>2 DEF Schedule, FinishAlloc, Execute, EnterLoop, NextLevel, BeginOp,
                              EndLoop, Executed, Return, Ready
          <5>2. QED
            BY <5>1 DEF WorkOK, InTask
        <4>3. QED
          BY <4>1, <4>2
      <3>3. QED
        BY <3>1, <3>2, MoveKeepsWork
    <2>2. CASE Take(r) \/ Get(r) \/ Load(r) \/ Store(r)
      BY <2>2, TaskKeepsWork
    <2>3. QED
      BY <1>1, <2>1, <2>2 DEF ExecStep
  <1>2. CASE UNCHANGED execVars
    <2>1. /\ mem' = mem /\ left' = left /\ work' = work /\ pc' = pc
          /\ \A p : OpAt(p)' = OpAt(p)
          /\ \A r : Op(r)' = Op(r)
      BY <1>2, SchedulerSame DEF execVars, vars, data
    <2>2. \A r : InTask(r)' <=> InTask(r)
      BY <2>1 DEF InTask
    <2>3. QED
      BY <2>1, <2>2 DEF WorkOK, DataOK
  <1>3. QED
    BY <1>1, <1>2 DEF ExecNext

\* In every program ranks work on tasks of the operation they are in, and an operation
\* starts when all it depends on is completed.
LEMMA FlowInit ==
  ASSUME ExecInit
  PROVE  InDataflow
  <1>1. pc = [r \in Ranks |-> "user"] /\ pos = [r \in Ranks |-> 1]
    BY DEF ExecInit, Init
  <1>2. \A r \in Ranks : Begun(r) = {}
    BY <1>1 DEF Begun, Done, InOp
  <1>3. QED
    BY <1>2 DEF StartedOps, InDataflow

\* Of every program, also one whose += can meet a product: what a rank has in hand are
\* tasks of the operation it is in, no two ranks have one task, and an operation has
\* started only when all it depends on is done.
THEOREM WorkInvariance == ExecSpec => [](WorkOK /\ InDataflow)
  <1>1. Spec => []IInv
    BY Invariance
  <1>2. ASSUME IInv, InDataflow, [ExecNext]_execVars
        PROVE  InDataflow'
    BY <1>2, FlowKept, ExecStepIsStep
  <1>3. QED
    BY <1>1, <1>2, ExecImplementsScheduler, WorkInit, WorkOKKeeps, FlowInit, PTL DEF ExecSpec

-----------------------------------------------------------------------------
(* The allocation status.                                                  *)

\* The status of tensor x on a rank that has completed the operations of D.
StatusAfter(D, x) ==
  IF \E o \in D : Program[o].kind = "dealloc" /\ Program[o].lhs = x THEN "deallocated"
  ELSE IF \E o \in D : Program[o].kind = "alloc" /\ Program[o].lhs = x THEN "created"
  ELSE "invalid"

StatusHolds == status = [r \in Ranks |-> [x \in Tensors |-> StatusAfter(Done(r), x)]]

LEMMA StatusInit ==
  ASSUME ExecInit
  PROVE  StatusHolds
  <1>1. \A r \in Ranks : Done(r) = {}
    BY DEF ExecInit, Init, Done
  <1>2. \A r \in Ranks, x \in Tensors : StatusAfter(Done(r), x) = "invalid"
    BY <1>1 DEF StatusAfter
  <1>3. QED
    BY <1>2 DEF ExecInit, StatusHolds

\* An operation that allocates nothing changes no status.
LEMMA StatusSame ==
  ASSUME NEW D, NEW o, NEW x, ~Collective(Program[o]) \/ Program[o].lhs # x
  PROVE  StatusAfter(D \cup {o}, x) = StatusAfter(D, x)
  BY DEF StatusAfter, Collective

LEMMA StatusKept ==
  ASSUME StatusHolds, status' = status, \A s \in Ranks : Done(s)' = Done(s)
  PROVE  StatusHolds'
  BY DEF StatusHolds, StatusAfter

\* What a rank has completed grows by an operation when it leaves that.
LEMMA DoneGrows ==
  ASSUME IInv, NEW r \in Ranks, Step(r)
  PROVE  /\ \A s \in Ranks \ {r} : Done(s)' = Done(s)
         /\ \/ Done(r)' = Done(r)
            \/ EndOp(r) /\ Done(r)' = Done(r) \cup {order[pos[r]]}
         /\ EndOp(r) => Done(r)' = Done(r) \cup {order[pos[r]]}
  <1>1. /\ order' = order
        /\ \A s \in Ranks \ {r} : pos'[s] = pos[s]
        /\ pos'[r] = pos[r] \/ (EndOp(r) /\ pos'[r] = pos[r] + 1)
    BY PositionKept
  <1>2. \A s \in Ranks \ {r} : Done(s)' = Done(s)
    BY <1>1 DEF Done
  <1>3. pos'[r] = pos[r] => Done(r)' = Done(r)
    BY <1>1 DEF Done
  <1>4. ASSUME EndOp(r)
        PROVE  Done(r)' = Done(r) \cup {order[pos[r]]}
    <2>1. pos[r] \in Nat \ {0} /\ pos'[r] = pos[r] + 1
      <3>1. InOp(r)
        BY <1>4 DEF EndOp, InOp
      <3>2. pos[r] \in Nat \ {0}
        BY <3>1, InsideOp DEF Positions
      <3>3. pos'[r] = pos[r] + 1
        BY <1>4 DEF EndOp, IInv, TypeOK
      <3>4. QED
        BY <3>2, <3>3
    <2>2. 1 .. pos'[r] - 1 = (1 .. pos[r] - 1) \cup {pos[r]}
      BY <2>1
    <2>3. QED
      BY <1>1, <2>2 DEF Done
  <1>5. QED
    BY <1>1, <1>2, <1>3, <1>4

LEMMA AllocKeepsStatus ==
  ASSUME IInv, StatusHolds, NEW r \in Ranks, FinishAlloc(r)
  PROVE  StatusHolds'
  <1>1. PICK o : o = order[pos[r]]
    OBVIOUS
  <1> DEFINE op == Program[o]
             new == IF op.kind = "alloc" THEN "created" ELSE "deallocated"
  <1>2. /\ pc[r] = "coll" /\ EndOp(r) /\ Op(r) = op
        /\ status[r][op.lhs] = IF op.kind = "alloc" THEN "invalid" ELSE "created"
        /\ status' = [status EXCEPT ![r][op.lhs] = new]
    BY <1>1 DEF FinishAlloc, Op, OpAt
  <1>3. InOp(r) /\ Step(r)
    BY <1>2 DEF InOp, Step
  <1>4. /\ \A s \in Ranks \ {r} : Done(s)' = Done(s)
        /\ Done(r)' = Done(r) \cup {o}
    BY <1>1, <1>2, <1>3, DoneGrows
  <1>5. o \in Positions /\ op.lhs \in Tensors /\ op.kind \in {"alloc", "dealloc"}
    <2>1. o \in Positions /\ pos[r] \in Positions
      BY <1>1, <1>3, NotDone, InsideOp
    <2>2. Collective(OpAt(pos[r]))
      BY <1>2 DEF IInv, Place
    <2>3. QED
      BY <1>1, <2>1, <2>2, OpFacts DEF OpAt, Collective
  <1>6. StatusAfter(Done(r), op.lhs) = IF op.kind = "alloc" THEN "invalid" ELSE "created"
    BY <1>2, <1>5 DEF StatusHolds
  <1>7. StatusAfter(Done(r) \cup {o}, op.lhs) = new
    <2>1. CASE op.kind = "dealloc"
      BY <2>1 DEF StatusAfter
    <2>2. CASE op.kind = "alloc"
      <3>1. ~\E d \in Done(r) : Program[d].kind = "dealloc" /\ Program[d].lhs = op.lhs
        BY <1>6, <2>2 DEF StatusAfter
      <3>2. ~\E d \in Done(r) \cup {o} : Program[d].kind = "dealloc" /\ Program[d].lhs = op.lhs
        BY <2>2, <3>1
      <3>3. QED
        BY <2>2, <3>2 DEF StatusAfter
    <2>3. QED
      BY <1>5, <2>1, <2>2
  <1>8. ASSUME NEW s \in Ranks, NEW x \in Tensors
        PROVE  StatusAfter(Done(s)', x) =
                 IF s = r /\ x = op.lhs THEN new ELSE StatusAfter(Done(s), x)
    <2>1. CASE s # r
      BY <1>4, <2>1
    <2>2. CASE s = r /\ x = op.lhs
      BY <1>4, <1>7, <2>2
    <2>3. CASE s = r /\ x # op.lhs
      BY <1>4, <2>3, StatusSame
    <2>4. QED
      BY <2>1, <2>2, <2>3
  <1> HIDE DEF new, op
  <1>9. status' = [s \in Ranks |-> [x \in Tensors |-> StatusAfter(Done(s)', x)]]
    <2>1. status' = [s \in Ranks |-> [x \in Tensors |->
                       IF s = r /\ x = op.lhs THEN new ELSE StatusAfter(Done(s), x)]]
      BY <1>2, <1>5 DEF StatusHolds
    <2>2. QED
      BY <1>8, <2>1
  <1>10. QED
    BY <1>9 DEF StatusHolds, StatusAfter

LEMMA StatusKeeps ==
  ASSUME IInv, StatusHolds, [ExecNext]_execVars
  PROVE  StatusHolds'
  <1>1. ASSUME NEW r \in Ranks, ExecStep(r)
        PROVE  StatusHolds'
    <2>1. CASE Schedule(r)
      <3>1. Step(r) /\ ~(pc[r] \in {"op", "coll"}) /\ status' = status
        BY <2>1 DEF Schedule, Step, Execute, EnterLoop, NextLevel, BeginOp, Ready, EndLoop,
                    Executed, Return, data
      <3>2. ~EndOp(r)
        BY <3>1 DEF EndOp
      <3>3. QED
        BY <3>1, <3>2, DoneGrows, StatusKept
    <2>2. CASE Take(r) \/ Get(r) \/ Load(r) \/ Store(r)
      <3>1. UNCHANGED vars /\ status' = status
        BY <2>2 DEF Take, Get, Load, Store
      <3>2. QED
        BY <3>1, SchedulerSame, StatusKept
    <2>3. CASE FinishOp(r)
      <3>1. pc[r] = "op" /\ EndOp(r) /\ status' = status
        BY <2>3 DEF FinishOp, data
      <3>2. Step(r) /\ InOp(r)
        BY <3>1 DEF Step, InOp
      <3>3. ~Collective(Program[order[pos[r]]])
        BY <3>1 DEF IInv, Place, OpAt
      <3>4. ASSUME NEW s \in Ranks, NEW x \in Tensors
            PROVE  StatusAfter(Done(s)', x) = StatusAfter(Done(s), x)
        <4>1. Done(s)' = Done(s) \/ Done(s)' = Done(s) \cup {order[pos[r]]}
          BY <3>1, <3>2, DoneGrows
        <4>2. StatusAfter(Done(s) \cup {order[pos[r]]}, x) = StatusAfter(Done(s), x)
          BY <3>3, StatusSame
        <4>3. QED
          BY <4>1, <4>2
      <3>5. status = [s \in Ranks |-> [x \in Tensors |-> StatusAfter(Done(s)', x)]]
        BY <3>4 DEF StatusHolds
      <3>6. QED
        BY <3>1, <3>5 DEF StatusHolds, StatusAfter
    <2>4. CASE FinishAlloc(r)
      BY <2>4, AllocKeepsStatus
    <2>5. QED
      BY <1>1, <2>1, <2>2, <2>3, <2>4 DEF ExecStep
  <1>2. CASE UNCHANGED execVars
    <2>1. UNCHANGED vars /\ status' = status
      BY <1>2 DEF execVars, data
    <2>2. QED
      BY <2>1, SchedulerSame, StatusKept
  <1>3. QED
    BY <1>1, <1>2 DEF ExecNext

THEOREM StatusInvariance == ExecSpec => []StatusHolds
  <1>1. Spec => []IInv
    BY Invariance
  <1>2. QED
    BY <1>1, ExecImplementsScheduler, StatusInit, StatusKeeps, PTL DEF ExecSpec

\* Memory, allocation status, tasks and buffers have their types on every rank
\* (tensor_impl.hpp, tensor_base.hpp).
THEOREM ExecTypeCorrect == ExecSpec => []ExecTypeOK
  <1>1. ASSUME WorkOK, StatusHolds
        PROVE  ExecTypeOK
    <2>1. mem \in [Tensors -> [Blocks -> Int]]
      BY <1>1 DEF WorkOK, DataOK, Memories
    <2>2. \A D, x : StatusAfter(D, x) \in {"invalid", "created", "deallocated"}
      BY DEF StatusAfter
    <2>3. status \in [Ranks -> [Tensors -> {"invalid", "created", "deallocated"}]]
      BY <1>1, <2>2 DEF StatusHolds
    <2>4. \A p \in Positions : left[p] \subseteq TasksOf(OpAt(p))
      BY <1>1 DEF WorkOK
    <2>5. \A r \in Ranks : work[r].stage \in {"idle", "get", "load", "store"}
      BY <1>1 DEF WorkOK, InTask, Idle
    <2>6. QED
      BY <2>1, <2>3, <2>4, <2>5 DEF ExecTypeOK
  <1>2. QED
    BY <1>1, WorkInvariance, StatusInvariance, PTL

\* Allocating or deallocating a tensor depends on every operation that uses it.
LEMMA UseDepends ==
  ASSUME NEW o \in Positions, NEW d \in Positions, NEW x \in Uses(Program[o]),
         Program[d].kind \in {"alloc", "dealloc"}, Program[d].lhs = x
  PROVE  HasDependence(Program[o], Program[d]) /\ HasDependence(Program[d], Program[o])
  <1>1. x \in Reads(Program[o]) \cup Writes(Program[o]) \cup Accumulates(Program[o])
    <2>1. Program[o].kind \in Kinds /\ Program[o].assign \in BOOLEAN
      BY OpFacts
    <2>2. QED
      BY <2>1 DEF Uses, Reads, Writes, Accumulates, Kinds
  <1>2. x \in Writes(Program[d])
    BY DEF Writes
  <1>3. QED
    BY <1>1, <1>2 DEF HasDependence

\* When an operation is in progress, the allocations of the tensors it uses are
\* completed on every rank and no deallocation of them is, itself excepted.
LEMMA LifeOfTensor ==
  ASSUME IInv, InDataflow, NEW r \in Ranks, InOp(r), NEW x \in Uses(Op(r)), NEW s \in Ranks
  PROVE  /\ Op(r).kind # "alloc" =>
              \E a \in Done(s) : Program[a].kind = "alloc" /\ Program[a].lhs = x
         /\ \A d \in Done(s) : d # order[pos[r]] /\ Program[d].lhs = x =>
              /\ Program[d].kind # "dealloc"
              /\ Op(r).kind = "alloc" => Program[d].kind # "alloc"
  <1>1. PICK o \in Positions : /\ o = order[pos[r]] /\ Op(r) = Program[o]
                               /\ o \notin Done(r) /\ o \in StartedOps
    <2>1. order[pos[r]] \in Positions /\ order[pos[r]] \notin Done(r)
      BY NotDone
    <2>2. order[pos[r]] \in StartedOps
      <3>1. order[pos[r]] \in Begun(r)
        BY DEF Begun
      <3>2. QED
        BY <3>1 DEF StartedOps
    <2>3. QED
      BY <2>1, <2>2 DEF Op, OpAt
  <1>2. NOps \in Nat /\ Positions = 1 .. NOps /\ o \in Nat
    BY CallFacts DEF Positions
  <1>3. ASSUME Program[o].kind # "alloc"
        PROVE  \E a \in Done(s) : Program[a].kind = "alloc" /\ Program[a].lhs = x
    <2>1. PICK a \in 1 .. o : Program[a].kind = "alloc" /\ Program[a].lhs = x
      BY <1>1, LifetimeAssumption
    <2>2. a < o /\ a \in Positions
      BY <1>2, <1>3, <2>1
    <2>3. Before(Program, a, o)
      BY <1>1, <2>1, <2>2, UseDepends DEF Before
    <2>4. a \in FinishedOps
      BY <1>1, <2>2, <2>3 DEF InDataflow
    <2>5. QED
      BY <2>1, <2>4 DEF FinishedOps
  <1>4. ASSUME NEW d \in Done(s), d # o, Program[d].lhs = x,
               Program[d].kind = "dealloc" \/ (Program[o].kind = "alloc" /\ Program[d].kind = "alloc")
        PROVE  FALSE
    <2>1. d \in StartedOps
      <3>1. d \in Begun(s)
        BY DEF Begun, Done
      <3>2. QED
        BY <3>1 DEF StartedOps
    <2>2. d \in Positions
      <3>1. PICK p \in 1 .. pos[s] - 1 : d = order[p]
        BY DEF Done
      <3>2. /\ order \in [Positions -> Positions] /\ pos[s] \in 1 .. NOps + 1
        BY DEF IInv, TypeOK
      <3>3. p \in Positions
        BY <1>2, <3>2
      <3>4. QED
        BY <3>1, <3>2, <3>3
    <2>3. x \in Uses(Program[d]) /\ x \in Uses(Program[o])
      BY <1>1, <1>4 DEF Uses
    <2>4. CASE d < o
      BY <1>4, <2>2, <2>3, <2>4, LifetimeAssumption
    <2>5. CASE o < d
      <3>1. Program[d].kind = "dealloc"
        BY <1>4, <2>2, <2>3, <2>5, LifetimeAssumption
      <3>2. Before(Program, o, d)
        BY <1>4, <2>2, <2>3, <2>5, <3>1, UseDepends DEF Before
      <3>3. o \in FinishedOps
        BY <2>1, <3>2 DEF InDataflow
      <3>4. QED
        BY <1>1, <3>3 DEF FinishedOps
    <2>6. QED
      BY <1>2, <1>4, <2>2, <2>4, <2>5
  <1>5. QED
    BY <1>1, <1>3, <1>4

\* The assertions of TensorImpl::allocate and deallocate hold on every rank
\* (tensor_impl.hpp:230, 254).
THEOREM AllocationExpectedCorrect == ExecSpec => []AllocationExpected
  <1>1. ASSUME IInv, WorkOK, InDataflow, StatusHolds
        PROVE  AllocationExpected
    <2> SUFFICES ASSUME NEW r \in Ranks, pc[r] = "coll"
                 PROVE  status[r][Op(r).lhs] =
                          IF Op(r).kind = "alloc" THEN "invalid" ELSE "created"
      BY DEF AllocationExpected
    <2>1. PICK x : x = Op(r).lhs
      OBVIOUS
    <2>2. InOp(r) /\ x \in Uses(Op(r))
      BY <2>1 DEF InOp, Uses
    <2>3. /\ order[pos[r]] \in Positions /\ order[pos[r]] \notin Done(r)
          /\ Op(r) = Program[order[pos[r]]]
      BY <1>1, <2>2, NotDone DEF Op, OpAt
    <2>4. /\ Op(r).kind # "alloc" =>
               \E a \in Done(r) : Program[a].kind = "alloc" /\ Program[a].lhs = x
          /\ \A d \in Done(r) : Program[d].lhs = x =>
               /\ Program[d].kind # "dealloc"
               /\ Op(r).kind = "alloc" => Program[d].kind # "alloc"
      BY <1>1, <2>2, <2>3, LifeOfTensor
    <2>5. StatusAfter(Done(r), x) = IF Op(r).kind = "alloc" THEN "invalid" ELSE "created"
      BY <2>4 DEF StatusAfter
    <2>6. x \in Tensors
      BY <2>1, <2>3, OpFacts
    <2>7. QED
      BY <1>1, <2>1, <2>5, <2>6 DEF StatusHolds
  <1>2. Spec => []IInv
    BY Invariance
  <1>3. QED
    BY <1>1, <1>2, ExecImplementsScheduler, WorkInvariance, StatusInvariance, PTL

\* A tensor that a rank works on, possibly in the memory of another, is allocated on all
\* ranks and not yet deallocated on any.
THEOREM AllocatedInUseCorrect == ExecSpec => []AllocatedInUse
  <1>1. ASSUME IInv, WorkOK, InDataflow, StatusHolds
        PROVE  AllocatedInUse
    <2> SUFFICES ASSUME NEW r \in Ranks, work[r] # Idle, NEW s \in Ranks, NEW x \in Uses(Op(r))
                 PROVE  status[s][x] = "created"
      BY DEF AllocatedInUse
    <2>1. InOp(r) /\ work[r].task \in TasksOf(Op(r))
      BY <1>1 DEF WorkOK, InTask, InOp
    <2>2. PICK o \in Positions : o = order[pos[r]] /\ Op(r) = Program[o]
      BY <1>1, <2>1, NotDone DEF Op, OpAt
    <2>3. ~Collective(Program[o])
      BY <2>1, <2>2, TaskFacts
    <2>4. /\ \E a \in Done(s) : Program[a].kind = "alloc" /\ Program[a].lhs = x
          /\ \A d \in Done(s) : d # o /\ Program[d].lhs = x => Program[d].kind # "dealloc"
      BY <1>1, <2>1, <2>2, <2>3, LifeOfTensor DEF Collective
    <2>5. StatusAfter(Done(s), x) = "created"
      BY <2>3, <2>4 DEF StatusAfter, Collective
    <2>6. x \in Tensors
      BY <2>2, OpFacts DEF Uses, Reads
    <2>7. QED
      BY <1>1, <2>5, <2>6 DEF StatusHolds
  <1>2. Spec => []IInv
    BY Invariance
  <1>3. QED
    BY <1>1, <1>2, ExecImplementsScheduler, WorkInvariance, StatusInvariance, PTL
=============================================================================
