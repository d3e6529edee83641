-------------------------- MODULE OpExecutorProofs --------------------------
(***************************************************************************)
(* Proofs about OpExecutor: its entries for the scheduler allocate nothing *)
(* twice and leave no intermediate, and it evaluates updates as            *)
(* LazyUpdates promises.                                                   *)
(***************************************************************************)
EXTENDS OpExecutor, TLAPS

-----------------------------------------------------------------------------
(* Sequences                                                               *)

LEMMA OfItsElements ==
  ASSUME NEW S, NEW s \in Seq(S)
  PROVE  IsSequence(s)
  <1>1. s = [i \in 1 .. Len(s) |-> s[i]] /\ Len(s) \in Nat /\ DOMAIN s = 1 .. Len(s)
    OBVIOUS
  <1>2. s \in [1 .. Len(s) -> ToSet(s)]
    BY <1>1 DEF ToSet
  <1> QED
    BY <1>1, <1>2 DEF IsSequence

LEMMA Widened ==
  ASSUME NEW S, NEW T, S \subseteq T, NEW s \in Seq(S)
  PROVE  /\ s \in Seq(T) /\ ToSet(s) \subseteq S
         /\ Len(s) \in Nat /\ DOMAIN s = 1 .. Len(s) /\ \A k \in DOMAIN s : s[k] \in S
  <1>1. Len(s) \in Nat /\ DOMAIN s = 1 .. Len(s) /\ \A k \in 1 .. Len(s) : s[k] \in S
    OBVIOUS
  <1>2. s \in Seq(T)
    BY <1>1
  <1> QED
    BY <1>1, <1>2 DEF ToSet

LEMMA SequenceFacts ==
  ASSUME NEW s, IsSequence(s)
  PROVE  Len(s) \in Nat /\ DOMAIN s = 1 .. Len(s) /\ (s = <<>> <=> Len(s) = 0)
  BY DEF IsSequence

LEMMA Concatenated ==
  ASSUME NEW s, NEW r, IsSequence(s), IsSequence(r)
  PROVE  /\ IsSequence(s \o r) /\ Len(s \o r) = Len(s) + Len(r)
         /\ \A i \in 1 .. Len(s) + Len(r) : (s \o r)[i] = IF i <= Len(s) THEN s[i] ELSE r[i - Len(s)]
  <1> DEFINE S == ToSet(s) \cup ToSet(r)
  <1>1. s \in Seq(S) /\ r \in Seq(S)
    BY DEF IsSequence
  <1>2. /\ s \o r \in Seq(S) /\ Len(s \o r) = Len(s) + Len(r)
        /\ \A i \in 1 .. Len(s) + Len(r) : (s \o r)[i] = IF i <= Len(s) THEN s[i] ELSE r[i - Len(s)]
    BY <1>1
  <1> QED
    BY <1>2, OfItsElements

LEMMA Popped ==
  ASSUME NEW s, IsSequence(s), s # <<>>
  PROVE  /\ IsSequence(Tail(s)) /\ Len(Tail(s)) = Len(s) - 1 /\ Head(s) = s[1] /\ 1 \in 1 .. Len(s)
         /\ \A i \in 1 .. Len(s) - 1 : Tail(s)[i] = s[i + 1]
  <1>1. /\ Tail(s) \in Seq(ToSet(s)) /\ Len(Tail(s)) = Len(s) - 1 /\ Head(s) = s[1]
        /\ \A i \in 1 .. Len(s) - 1 : Tail(s)[i] = s[i + 1]
    BY DEF IsSequence
  <1>2. IsSequence(Tail(s))
    BY <1>1, OfItsElements
  <1>3. Len(s) \in Nat \ {0}
    BY DEF IsSequence
  <1> QED
    BY <1>1, <1>2, <1>3

LEMMA One ==
  ASSUME NEW e
  PROVE  IsSequence(<<e>>) /\ Len(<<e>>) = 1 /\ <<e>>[1] = e
  BY DEF IsSequence, ToSet

LEMMA None == IsSequence(<<>>) /\ Len(<<>>) = 0
  BY DEF IsSequence, ToSet

LEMMA Mapped ==
  ASSUME NEW s, IsSequence(s), NEW r, DOMAIN r = DOMAIN s, r = [k \in DOMAIN s |-> r[k]]
  PROVE  IsSequence(r) /\ Len(r) = Len(s)
  <1>1. DOMAIN s = 1 .. Len(s) /\ Len(s) \in Nat
    BY SequenceFacts
  <1>2. r = [k \in 1 .. Len(s) |-> r[k]] /\ r \in [1 .. Len(s) -> ToSet(r)]
    BY <1>1 DEF ToSet
  <1>3. r \in Seq(ToSet(r)) /\ Len(r) = Len(s)
    BY <1>1, <1>2
  <1> QED
    BY <1>3 DEF IsSequence

LEMMA Appended ==
  ASSUME NEW S, NEW s \in Seq(S), NEW e \in S
  PROVE  Append(s, e) \in Seq(S) /\ ToSet(Append(s, e)) = ToSet(s) \cup {e}
  <1> DEFINE r == Append(s, e)
  <1>1. /\ r \in Seq(S) /\ Len(r) = Len(s) + 1 /\ r[Len(s) + 1] = e
        /\ \A i \in 1 .. Len(s) : r[i] = s[i]
    OBVIOUS
  <1>2. Len(s) \in Nat /\ DOMAIN s = 1 .. Len(s) /\ DOMAIN r = 1 .. Len(s) + 1
    BY <1>1
  <1> HIDE DEF r
  <1>3. ToSet(r) \subseteq ToSet(s) \cup {e}
    BY <1>1, <1>2 DEF ToSet
  <1>4. e \in ToSet(r)
    BY <1>1, <1>2 DEF ToSet
  <1>5. ToSet(s) \subseteq ToSet(r)
    <2> SUFFICES ASSUME NEW i \in DOMAIN s PROVE s[i] \in ToSet(r)
      BY DEF ToSet
    <2>1. i \in DOMAIN r /\ r[i] = s[i]
      BY <1>1, <1>2
    <2> QED
      BY <2>1 DEF ToSet
  <1> QED
    BY <1>1, <1>3, <1>4, <1>5 DEF r

LEMMA Rest ==
  ASSUME NEW S, NEW s \in Seq(S), s # <<>>
  PROVE  /\ Tail(s) \in Seq(S) /\ Head(s) \in ToSet(s) /\ Head(s) \in S
         /\ ToSet(s) = {Head(s)} \cup ToSet(Tail(s))
  <1>1. /\ Tail(s) \in Seq(S) /\ Len(Tail(s)) = Len(s) - 1 /\ Head(s) = s[1]
        /\ \A i \in 1 .. Len(s) - 1 : Tail(s)[i] = s[i + 1]
    OBVIOUS
  <1>2. Len(s) \in Nat \ {0} /\ DOMAIN s = 1 .. Len(s) /\ DOMAIN Tail(s) = 1 .. Len(s) - 1
    BY <1>1
  <1>3. \A x \in ToSet(s) : x = Head(s) \/ x \in ToSet(Tail(s))
    <2> SUFFICES ASSUME NEW i \in DOMAIN s, i # 1
                 PROVE  s[i] \in ToSet(Tail(s))
      BY <1>1 DEF ToSet
    <2>1. i - 1 \in DOMAIN Tail(s) /\ Tail(s)[i - 1] = s[i]
      BY <1>1, <1>2
    <2> QED
      BY <2>1 DEF ToSet
  <1>4. Head(s) \in ToSet(s) /\ Head(s) \in S
    BY <1>1, <1>2 DEF ToSet
  <1>5. ToSet(Tail(s)) \subseteq ToSet(s)
    BY <1>1, <1>2 DEF ToSet
  <1> QED
    BY <1>1, <1>3, <1>4, <1>5

\* What is given to SetTop takes the place of the last frame.
LEMMA TopSet ==
  ASSUME stack \in Seq(Frame), stack # <<>>, NEW f \in Frame, SetTop(f)
  PROVE  /\ stack' \in Seq(Frame) /\ stack' # <<>> /\ Len(stack') = Len(stack)
         /\ DOMAIN stack' = DOMAIN stack
         /\ Top' = f /\ \A m \in DOMAIN stack : m < Len(stack) => stack'[m] = stack[m]
  BY DEF SetTop, Top

LEMMA TopFacts ==
  ASSUME stack \in Seq(Frame), stack # <<>>
  PROVE  /\ Len(stack) \in Nat \ {0} /\ DOMAIN stack = 1 .. Len(stack) /\ Len(stack) \in DOMAIN stack
         /\ Top \in Frame /\ Top = stack[Len(stack)]
  BY DEF Top

-----------------------------------------------------------------------------
(* The invariant                                                           *)

StatementOf(f) == Program[updates[f.tensor][f.i + 1].stmt]

\* A tensor is not only allocated but has all its updates evaluated.
Ready(u) == u \in allocated /\ ~HasOps(u)

\* Updates are numbered as they are noted, and what they use has a value.
UpdatesOK ==
  /\ \A t \in Tensors : \A k \in DOMAIN updates[t] :
       /\ Program[updates[t][k].stmt].tensor = t
       /\ \A u \in Uses(updates[t][k].stmt) : HasValue(u)
       /\ \A m \in DOMAIN updates[t] : k < m => updates[t][k].id < updates[t][m].id
       /\ \A u \in Tensors : \A m \in DOMAIN updates[u] : updates[t][k].id = updates[u][m].id => t = u
  /\ \A t \in Tensors : version[t] > 0 => t \in allocated
  /\ \A id \in ToSet(log) : id[1] < noted

\* Where a call of execute is.
FrameOK(f) ==
  LET all == Len(updates[f.tensor])
      terms == StatementOf(f).terms
  IN  /\ f.i = version[f.tensor] + f.count /\ f.i <= all
      /\ f.at = "terms" => f.i < all
      /\ f.at \in {"inputs", "call"} => /\ f.i < all /\ f.term \in DOMAIN terms
                                        /\ ToSet(f.todo) \subseteq ToSet(StatementOf(f).inputs)
      /\ f.at = "call" => f.todo # <<>>
      /\ f.at = "end" => f.i = all

\* What a term uses is still to be checked, or ready, or the next call is for it.
InputsOK(m) ==
  stack[m].at \in {"inputs", "call"} =>
    \A u \in ToSet(StatementOf(stack[m]).inputs) :
      \/ u \in ToSet(stack[m].todo) \/ Ready(u)
      \/ m < Len(stack) /\ u = stack[m + 1].tensor

\* Calls are for ever earlier tensors, and all but the last wait for an input.
StackOK ==
  /\ \A m \in DOMAIN stack : FrameOK(stack[m]) /\ InputsOK(m)
  /\ \A m, n \in DOMAIN stack : m < n => stack[n].tensor < stack[m].tensor
  /\ \A m \in DOMAIN stack : m < Len(stack) => stack[m].at = "inputs"

Allocates(e, t) == e.kind = "allocate" /\ e.tensor = t
Frees(e, t) == e.kind = "deallocate" /\ e.tensor = t

\* Is t allocated when the first j - 1 entries of q have been executed, a being
\* allocated at first?
Live(q, a, t, j) ==
  \/ t \in a /\ \A i \in 1 .. j - 1 : ~Frees(q[i], t)
  \/ \E i \in 1 .. j - 1 : Allocates(q[i], t) /\ \A m \in i + 1 .. j - 1 : ~Frees(q[m], t)

AtEnd(t) == Live(queue, allocated, t, Len(queue) + 1)

EntryOK(q, a, j) ==
  /\ q[j].kind \in {"allocate", "deallocate", "op"}
  /\ q[j].kind = "allocate" => ~Live(q, a, q[j].tensor, j)
  /\ q[j].kind = "deallocate" => q[j].tensor \notin Tensors /\ Live(q, a, q[j].tensor, j)
  /\ q[j].kind = "op" => \A t \in TensorsOf(q[j].op) : Live(q, a, t, j)

QueueOK ==
  /\ stack = <<>> => queue = <<>>
  /\ \A j \in 1 .. Len(queue) : EntryOK(queue, allocated, j)
  /\ \A t : AtEnd(t) => t \in Tensors
  /\ \A j \in 1 .. Len(queue) : \A t \in Tensors :
       Allocates(queue[j], t) => t = Top.tensor \/ (Top.at = "call" /\ t = Head(Top.todo))
  /\ \A m \in DOMAIN stack : AtEnd(stack[m].tensor)
  /\ stack # <<>> /\ Top.at = "call" => AtEnd(Head(Top.todo))

\* Has term n of update k of tensor t been given to the scheduler?
Queued(f, k, n) ==
  \/ k <= f.i
  \/ k = f.i + 1 /\ f.at = "terms" /\ n <= f.term
  \/ k = f.i + 1 /\ f.at \in {"inputs", "call"} /\ n < f.term

Passed(t, k, n) ==
  \/ k <= version[t]
  \/ \E m \in DOMAIN stack : stack[m].tensor = t /\ Queued(stack[m], k, n)

TermsAt(t, k) == DOMAIN Program[updates[t][k].stmt].terms
Id(t, k, n) == <<updates[t][k].id, n>>

Marks(e) == e.kind = "op" /\ e.op.last
InQueue(id) == \E j \in 1 .. Len(queue) : Marks(queue[j]) /\ queue[j].id = id

\* What has been given to the scheduler is in the log or in the queue, not both, and
\* in the order of the updates.
LogOK ==
  /\ \A t \in Tensors : \A k \in DOMAIN updates[t] : \A n \in TermsAt(t, k) :
       Passed(t, k, n) <=> Id(t, k, n) \in ToSet(log) \/ InQueue(Id(t, k, n))
  /\ \A j \in 1 .. Len(queue) : Marks(queue[j]) =>
       /\ queue[j].id \notin ToSet(log)
       /\ \E k \in DOMAIN updates[Top.tensor] : \E n \in TermsAt(Top.tensor, k) :
            /\ queue[j].id = Id(Top.tensor, k, n)
            /\ \A u \in Uses(updates[Top.tensor][k].stmt) : ~HasOps(u)
  /\ \A i, j \in 1 .. Len(queue) :
       i < j /\ Marks(queue[i]) /\ Marks(queue[j]) => Lazy!Precedes(queue[i].id, queue[j].id)

IInv == TypeOK /\ UpdatesOK /\ StackOK /\ QueueOK /\ LogOK

-----------------------------------------------------------------------------
(* What is allocated along a queue                                         *)

LEMMA LivePops ==
  ASSUME NEW q, IsSequence(q), q # <<>>, NEW a, NEW b, NEW t, NEW j \in 1 .. Len(q),
         t \in b <=> (t \in a /\ ~Frees(q[1], t)) \/ Allocates(q[1], t)
  PROVE  Live(Tail(q), b, t, j) <=> Live(q, a, t, j + 1)
  <1> DEFINE r == Tail(q)
  <1>1. Len(q) \in Nat /\ \A i \in 1 .. Len(q) - 1 : r[i] = q[i + 1]
    BY SequenceFacts, Popped
  <1> DEFINE RestKeeps(n) == \A i \in n .. j : ~Frees(q[i], t)
             TailKeeps(n) == \A i \in n .. j - 1 : ~Frees(r[i], t)
  <1>2. ASSUME NEW n \in 1 .. j
        PROVE  TailKeeps(n) <=> RestKeeps(n + 1)
    <2>1. ASSUME TailKeeps(n), NEW i \in n + 1 .. j
          PROVE  ~Frees(q[i], t)
      <3>1. i - 1 \in n .. j - 1 /\ i - 1 \in 1 .. Len(q) - 1 /\ r[i - 1] = q[(i - 1) + 1] /\ (i - 1) + 1 = i
        BY <1>1
      <3> QED
        BY <3>1, <2>1
    <2>2. ASSUME RestKeeps(n + 1), NEW i \in n .. j - 1
          PROVE  ~Frees(r[i], t)
      <3>1. i + 1 \in n + 1 .. j /\ r[i] = q[i + 1]
        BY <1>1
      <3> QED
        BY <3>1, <2>2
    <2> QED
      BY <2>1, <2>2
  <1> DEFINE FromTail == \E i \in 1 .. j - 1 : Allocates(r[i], t) /\ TailKeeps(i + 1)
             FromRest == \E i \in 2 .. j : Allocates(q[i], t) /\ RestKeeps(i + 1)
  <1>3. FromTail <=> FromRest
    <2>1. ASSUME NEW i \in 1 .. j - 1
          PROVE  /\ r[i] = q[i + 1] /\ i + 1 \in 2 .. j /\ i + 1 \in 1 .. j
                 /\ TailKeeps(i + 1) <=> RestKeeps((i + 1) + 1)
      <3>1. r[i] = q[i + 1] /\ i + 1 \in 2 .. j /\ i + 1 \in 1 .. j
        BY <1>1
      <3> HIDE DEF RestKeeps, TailKeeps
      <3> QED
        BY <3>1, <1>2
    <2>2. ASSUME NEW i \in 2 .. j
          PROVE  i - 1 \in 1 .. j - 1 /\ (i - 1) + 1 = i
      OBVIOUS
    <2> HIDE DEF RestKeeps, TailKeeps, r
    <2>3. FromTail => FromRest
      BY <2>1
    <2>4. ASSUME NEW i \in 2 .. j, Allocates(q[i], t), RestKeeps(i + 1)
          PROVE  FromTail
      <3>1. r[i - 1] = q[i] /\ (TailKeeps(i) <=> RestKeeps(i + 1)) /\ i - 1 \in 1 .. j - 1 /\ (i - 1) + 1 = i
        BY <2>1, <2>2
      <3> QED
        BY <3>1, <2>4
    <2> QED
      BY <2>3, <2>4
  <1>4. Live(r, b, t, j) <=> (t \in b /\ TailKeeps(1)) \/ FromTail
    BY DEF Live
  <1>5. Live(q, a, t, j + 1) <=>
          \/ t \in a /\ ~Frees(q[1], t) /\ RestKeeps(2)
          \/ Allocates(q[1], t) /\ RestKeeps(2)
          \/ FromRest
    <2> DEFINE Keeps(n) == \A m \in n .. (j + 1) - 1 : ~Frees(q[m], t)
    <2>1. Live(q, a, t, j + 1) <=>
            (t \in a /\ Keeps(1)) \/ \E i \in 1 .. (j + 1) - 1 : Allocates(q[i], t) /\ Keeps(i + 1)
      BY DEF Live
    <2>2. (j + 1) - 1 = j /\ 1 .. j = {1} \cup 2 .. j /\ 1 + 1 = 2
      OBVIOUS
    <2>3. \A n : Keeps(n) <=> RestKeeps(n)
      BY <2>2
    <2>4. RestKeeps(1) <=> ~Frees(q[1], t) /\ RestKeeps(2)
      BY <2>2
    <2> HIDE DEF Keeps, RestKeeps
    <2> QED
      BY <2>1, <2>2, <2>3, <2>4
  <1>6. TailKeeps(1) <=> RestKeeps(2)
    BY <1>2
  <1> HIDE DEF FromTail, FromRest, TailKeeps, RestKeeps
  <1> QED
    BY <1>3, <1>4, <1>5, <1>6 DEF r

LEMMA LiveBefore ==
  ASSUME NEW q, IsSequence(q), NEW r, IsSequence(r), NEW a, NEW t, NEW j \in 1 .. Len(q) + 1
  PROVE  Live(q \o r, a, t, j) <=> Live(q, a, t, j)
  <1>1. Len(q) \in Nat /\ \A i \in 1 .. j - 1 : (q \o r)[i] = q[i]
    <2>1. Len(q) \in Nat /\ Len(r) \in Nat
      BY SequenceFacts
    <2>2. \A i \in 1 .. Len(q) + Len(r) : (q \o r)[i] = IF i <= Len(q) THEN q[i] ELSE r[i - Len(q)]
      BY Concatenated
    <2> QED
      BY <2>1, <2>2
  <1> DEFINE c == q \o r
  <1>2. \A i \in 1 .. j - 1 : c[i] = q[i]
    BY <1>1
  <1>3. \A i \in 1 .. j - 1 : \A m \in i + 1 .. j - 1 : m \in 1 .. j - 1
    BY <1>1
  <1> HIDE DEF c
  <1>4. Live(c, a, t, j) <=> Live(q, a, t, j)
    BY <1>2, <1>3, Zenon DEF Live
  <1> QED
    BY <1>4 DEF c

LEMMA LiveAfter ==
  ASSUME NEW q, IsSequence(q), NEW r, IsSequence(r), NEW a, NEW b, NEW t,
         t \in b <=> Live(q, a, t, Len(q) + 1), NEW j \in 1 .. Len(r) + 1
  PROVE  Live(q \o r, a, t, Len(q) + j) <=> Live(r, b, t, j)
  <1> DEFINE c == q \o r
             n == Len(q)
  <1>1. n \in Nat /\ Len(r) \in Nat
    BY SequenceFacts
  <1>2. \A i \in 1 .. n + Len(r) : c[i] = IF i <= n THEN q[i] ELSE r[i - n]
    BY Concatenated
  <1>3. (\A i \in 1 .. n : c[i] = q[i]) /\ \A i \in 1 .. j - 1 : c[n + i] = r[i]
    <2>1. \A i \in 1 .. n : c[i] = q[i]
      BY <1>1, <1>2
    <2>2. ASSUME NEW i \in 1 .. j - 1
          PROVE  c[n + i] = r[i]
      <3>1. n + i \in 1 .. n + Len(r) /\ ~(n + i <= n) /\ (n + i) - n = i
        BY <1>1
      <3> QED
        BY <3>1, <1>2
    <2> QED
      BY <2>1, <2>2
  <1> HIDE DEF c, n
  <1> DEFINE Keeps(i) == \A m \in i .. n + j - 1 : ~Frees(c[m], t)
             OldKeeps(i) == \A m \in i .. n : ~Frees(q[m], t)
             NewKeeps(i) == \A m \in i .. j - 1 : ~Frees(r[m], t)
  <1>4. ASSUME NEW i \in 1 .. n + 1
        PROVE  Keeps(i) <=> OldKeeps(i) /\ NewKeeps(1)
    <2>1. ASSUME Keeps(i) PROVE OldKeeps(i)
      <3> SUFFICES ASSUME NEW m \in i .. n PROVE ~Frees(q[m], t)
        OBVIOUS
      <3>1. m \in i .. n + j - 1 /\ m \in 1 .. n
        BY <1>1
      <3> QED
        BY <3>1, <2>1, <1>3
    <2>2. ASSUME Keeps(i) PROVE NewKeeps(1)
      <3> SUFFICES ASSUME NEW m \in 1 .. j - 1 PROVE ~Frees(r[m], t)
        OBVIOUS
      <3>1. n + m \in i .. n + j - 1 /\ c[n + m] = r[m]
        BY <1>1, <1>3
      <3> QED
        BY <3>1, <2>2
    <2>3. ASSUME OldKeeps(i), NewKeeps(1), NEW m \in i .. n + j - 1
          PROVE  ~Frees(c[m], t)
      <3>1. CASE m <= n
        <4>1. m \in i .. n /\ m \in 1 .. n
          BY <3>1, <1>1
        <4> QED
          BY <4>1, <2>3, <1>3
      <3>2. CASE m > n
        <4>1. m - n \in 1 .. j - 1 /\ n + (m - n) = m
          BY <3>2, <1>1
        <4>2. c[n + (m - n)] = r[m - n]
          BY <4>1, <1>3
        <4> QED
          BY <4>1, <4>2, <2>3
      <3> QED
        BY <3>1, <3>2, <1>1
    <2> QED
      BY <2>1, <2>2, <2>3
  <1>5. ASSUME NEW i \in 1 .. j - 1
        PROVE  Keeps(n + i + 1) <=> NewKeeps(i + 1)
    <2>1. ASSUME Keeps(n + i + 1), NEW m \in i + 1 .. j - 1
          PROVE  ~Frees(r[m], t)
      <3>1. n + m \in n + i + 1 .. n + j - 1 /\ c[n + m] = r[m]
        BY <1>1, <1>3
      <3> QED
        BY <3>1, <2>1
    <2>2. ASSUME NewKeeps(i + 1), NEW m \in n + i + 1 .. n + j - 1
          PROVE  ~Frees(c[m], t)
      <3>1. m - n \in i + 1 .. j - 1 /\ m - n \in 1 .. j - 1 /\ n + (m - n) = m
        BY <1>1
      <3>2. c[n + (m - n)] = r[m - n]
        BY <3>1, <1>3
      <3> QED
        BY <3>1, <3>2, <2>2
    <2> QED
      BY <2>1, <2>2
  <1>6. Live(c, a, t, n + j) <=>
          (t \in a /\ Keeps(1)) \/ \E i \in 1 .. n + j - 1 : Allocates(c[i], t) /\ Keeps(i + 1)
    <2>1. \A e : Live(c, a, t, e) <=>
            \/ t \in a /\ \A i \in 1 .. e - 1 : ~Frees(c[i], t)
            \/ \E i \in 1 .. e - 1 : Allocates(c[i], t) /\ \A m \in i + 1 .. e - 1 : ~Frees(c[m], t)
      BY Zenon DEF Live
    <2>2. (n + j) - 1 = n + j - 1
      BY <1>1
    <2> QED
      BY <2>1, <2>2, Zenon
  <1>7. Live(q, a, t, n + 1) <=>
          (t \in a /\ OldKeeps(1)) \/ \E i \in 1 .. n : Allocates(q[i], t) /\ OldKeeps(i + 1)
    <2>1. (n + 1) - 1 = n
      BY <1>1
    <2> QED
      BY <2>1 DEF Live
  <1>8. Live(r, b, t, j) <=>
          (t \in b /\ NewKeeps(1)) \/ \E i \in 1 .. j - 1 : Allocates(r[i], t) /\ NewKeeps(i + 1)
    BY DEF Live
  <1> DEFINE OldGives == \E i \in 1 .. n : Allocates(q[i], t) /\ OldKeeps(i + 1)
             NewGives == \E i \in 1 .. j - 1 : Allocates(r[i], t) /\ NewKeeps(i + 1)
             Gives == \E i \in 1 .. n + j - 1 : Allocates(c[i], t) /\ Keeps(i + 1)
  <1>9. Gives <=> (OldGives /\ NewKeeps(1)) \/ NewGives
    <2> HIDE DEF Keeps, OldKeeps, NewKeeps
    <2>1. ASSUME NEW i \in 1 .. n
          PROVE  i \in 1 .. n + j - 1 /\ c[i] = q[i] /\ (Keeps(i + 1) <=> OldKeeps(i + 1) /\ NewKeeps(1))
      <3>1. i \in 1 .. n + j - 1 /\ i + 1 \in 1 .. n + 1 /\ c[i] = q[i]
        BY <1>1, <1>3
      <3> QED
        BY <3>1, <1>4
    <2>2. ASSUME NEW i \in 1 .. j - 1
          PROVE  n + i \in 1 .. n + j - 1 /\ c[n + i] = r[i] /\ (Keeps((n + i) + 1) <=> NewKeeps(i + 1))
      <3>1. n + i \in 1 .. n + j - 1 /\ c[n + i] = r[i] /\ (n + i) + 1 = n + i + 1
        BY <1>1, <1>3
      <3> QED
        BY <3>1, <1>5
    <2>3. ASSUME NEW i \in 1 .. n + j - 1, Allocates(c[i], t), Keeps(i + 1)
          PROVE  (OldGives /\ NewKeeps(1)) \/ NewGives
      <3>1. CASE i <= n
        <4>1. i \in 1 .. n
          BY <3>1, <1>1
        <4> QED
          BY <4>1, <2>1, <2>3
      <3>2. CASE i > n
        <4>1. i - n \in 1 .. j - 1 /\ n + (i - n) = i
          BY <3>2, <1>1
        <4>2. c[i] = r[i - n] /\ (Keeps(i + 1) <=> NewKeeps((i - n) + 1))
          BY <4>1, <2>2
        <4> QED
          BY <4>1, <4>2, <2>3
      <3> QED
        BY <3>1, <3>2, <1>1
    <2>4. OldGives /\ NewKeeps(1) => Gives
      BY <2>1
    <2>5. NewGives => Gives
      BY <2>2
    <2> QED
      BY <2>3, <2>4, <2>5
  <1>10. Keeps(1) <=> OldKeeps(1) /\ NewKeeps(1)
    <2> HIDE DEF Keeps, OldKeeps, NewKeeps
    <2>1. 1 \in 1 .. n + 1
      BY <1>1
    <2> QED
      BY <2>1, <1>4
  <1>11. t \in b <=> Live(q, a, t, n + 1)
    BY DEF n
  <1> HIDE DEF Keeps, OldKeeps, NewKeeps
  <1>12. Live(c, a, t, n + j) <=> Live(r, b, t, j)
    BY <1>6, <1>7, <1>8, <1>9, <1>10, <1>11
  <1> QED
    BY <1>12 DEF c, n

LEMMA EntryPops ==
  ASSUME NEW q, IsSequence(q), q # <<>>, NEW a, NEW b, NEW j \in 1 .. Len(q) - 1,
         \A t : t \in b <=> (t \in a /\ ~Frees(q[1], t)) \/ Allocates(q[1], t)
  PROVE  EntryOK(Tail(q), b, j) <=> EntryOK(q, a, j + 1)
  <1>1. Tail(q)[j] = q[j + 1] /\ j \in 1 .. Len(q)
    BY SequenceFacts, Popped
  <1>2. \A t : Live(Tail(q), b, t, j) <=> Live(q, a, t, j + 1)
    BY <1>1, LivePops
  <1> QED
    BY <1>1, <1>2, Zenon DEF EntryOK

LEMMA EntryBefore ==
  ASSUME NEW q, IsSequence(q), NEW r, IsSequence(r), NEW a, NEW j \in 1 .. Len(q)
  PROVE  EntryOK(q \o r, a, j) <=> EntryOK(q, a, j)
  <1>1. Len(q) \in Nat /\ Len(r) \in Nat
    BY SequenceFacts
  <1>2. \A i \in 1 .. Len(q) + Len(r) : (q \o r)[i] = IF i <= Len(q) THEN q[i] ELSE r[i - Len(q)]
    BY Concatenated
  <1>3. (q \o r)[j] = q[j] /\ j \in 1 .. Len(q) + 1
    BY <1>1, <1>2
  <1>4. \A t : Live(q \o r, a, t, j) <=> Live(q, a, t, j)
    BY <1>3, LiveBefore
  <1> QED
    BY <1>3, <1>4, Zenon DEF EntryOK

LEMMA EntryAfter ==
  ASSUME NEW q, IsSequence(q), NEW r, IsSequence(r), NEW a, NEW b,
         \A t : t \in b <=> Live(q, a, t, Len(q) + 1), NEW j \in 1 .. Len(r)
  PROVE  EntryOK(q \o r, a, Len(q) + j) <=> EntryOK(r, b, j)
  <1>1. Len(q) \in Nat /\ Len(r) \in Nat
    BY SequenceFacts
  <1>2. \A i \in 1 .. Len(q) + Len(r) : (q \o r)[i] = IF i <= Len(q) THEN q[i] ELSE r[i - Len(q)]
    BY Concatenated
  <1>3. (q \o r)[Len(q) + j] = r[j] /\ j \in 1 .. Len(r) + 1
    <2>1. Len(q) + j \in 1 .. Len(q) + Len(r) /\ ~(Len(q) + j <= Len(q)) /\ (Len(q) + j) - Len(q) = j
      BY <1>1
    <2> QED
      BY <2>1, <1>1, <1>2
  <1>4. \A t : Live(q \o r, a, t, Len(q) + j) <=> Live(r, b, t, j)
    BY <1>3, LiveAfter
  <1> QED
    BY <1>3, <1>4, Zenon DEF EntryOK

\* Entries that are right after some that are right.
LEMMA EntriesJoin ==
  ASSUME NEW q, IsSequence(q), NEW r, IsSequence(r), NEW a, NEW b,
         \A t : t \in b <=> Live(q, a, t, Len(q) + 1),
         \A j \in 1 .. Len(q) : EntryOK(q, a, j),
         \A j \in 1 .. Len(r) : EntryOK(r, b, j)
  PROVE  /\ \A j \in 1 .. Len(q \o r) : EntryOK(q \o r, a, j)
         /\ \A t : Live(q \o r, a, t, Len(q \o r) + 1) <=> Live(r, b, t, Len(r) + 1)
  <1>1. Len(q) \in Nat /\ Len(r) \in Nat
    BY SequenceFacts
  <1>2. Len(q \o r) = Len(q) + Len(r)
    BY Concatenated
  <1>3. ASSUME NEW j \in 1 .. Len(q \o r)
        PROVE  EntryOK(q \o r, a, j)
    <2>1. CASE j <= Len(q)
      <3>1. j \in 1 .. Len(q)
        BY <2>1, <1>1, <1>2
      <3> QED
        BY <3>1, EntryBefore
    <2>2. CASE j > Len(q)
      <3>1. j - Len(q) \in 1 .. Len(r) /\ Len(q) + (j - Len(q)) = j
        BY <2>2, <1>1, <1>2
      <3>2. EntryOK(q \o r, a, Len(q) + (j - Len(q))) <=> EntryOK(r, b, j - Len(q))
        BY <3>1, EntryAfter
      <3> QED
        BY <3>1, <3>2
    <2> QED
      BY <2>1, <2>2, <1>1, <1>2
  <1>4. ASSUME NEW t
        PROVE  Live(q \o r, a, t, Len(q \o r) + 1) <=> Live(r, b, t, Len(r) + 1)
    <2>1. Len(r) + 1 \in 1 .. Len(r) + 1 /\ Len(q \o r) + 1 = Len(q) + (Len(r) + 1)
      BY <1>1, <1>2
    <2>2. Live(q \o r, a, t, Len(q) + (Len(r) + 1)) <=> Live(r, b, t, Len(r) + 1)
      BY <2>1, LiveAfter
    <2> QED
      BY <2>1, <2>2
  <1> QED
    BY <1>3, <1>4

LEMMA BatchFacts ==
  ASSUME NEW s, NEW w, IsWork(s, w), NEW id
  PROVE  LET q == Batch(w, id)
             n == Len(w.inters)
             p == Len(w.ops)
         IN  /\ IsSequence(q) /\ Len(q) = n + p + n /\ n \in Nat /\ p \in Nat \ {0}
             /\ \A k \in 1 .. n : q[k] = Allocation(w.inters[k].tensor, w.inters[k].shape)
             /\ \A k \in 1 .. p : q[n + k] = Operation(w.ops[k], id)
             /\ \A k \in 1 .. n : q[n + p + k] = Deallocation(w.inters[k].tensor)
  <1> DEFINE n == Len(w.inters)
             p == Len(w.ops)
             A == [k \in DOMAIN w.inters |-> Allocation(w.inters[k].tensor, w.inters[k].shape)]
             O == [k \in DOMAIN w.ops |-> Operation(w.ops[k], id)]
             D == [k \in DOMAIN w.inters |-> Deallocation(w.inters[k].tensor)]
  <1>1. IsSequence(w.inters) /\ IsSequence(w.ops) /\ w.ops # <<>>
    BY DEF IsWork
  <1>2. /\ n \in Nat /\ DOMAIN w.inters = 1 .. n /\ p \in Nat \ {0} /\ DOMAIN w.ops = 1 .. p
    BY <1>1, SequenceFacts
  <1>3. IsSequence(A) /\ Len(A) = n
    BY <1>1, Mapped
  <1>4. IsSequence(O) /\ Len(O) = p
    BY <1>1, Mapped
  <1>5. IsSequence(D) /\ Len(D) = n
    BY <1>1, Mapped
  <1>6. Batch(w, id) = (A \o O) \o D
    BY DEF Batch
  <1>7. \A k \in 1 .. n : /\ A[k] = Allocation(w.inters[k].tensor, w.inters[k].shape)
                          /\ D[k] = Deallocation(w.inters[k].tensor)
    BY <1>2
  <1>8. \A k \in 1 .. p : O[k] = Operation(w.ops[k], id)
    BY <1>2
  <1> HIDE DEF A, O, D, n, p
  <1>9. /\ IsSequence(A \o O) /\ Len(A \o O) = n + p
        /\ \A i \in 1 .. n + p : (A \o O)[i] = IF i <= n THEN A[i] ELSE O[i - n]
    BY <1>3, <1>4, Concatenated
  <1> DEFINE q == (A \o O) \o D
  <1>10. /\ IsSequence(q) /\ Len(q) = n + p + n
         /\ \A i \in 1 .. n + p + n : q[i] = IF i <= n + p THEN (A \o O)[i] ELSE D[i - (n + p)]
    <2> DEFINE B == A \o O
    <2>1. IsSequence(B) /\ Len(B) = n + p
      BY <1>9
    <2> HIDE DEF B
    <2>2. /\ IsSequence(B \o D) /\ Len(B \o D) = Len(B) + Len(D)
          /\ \A i \in 1 .. Len(B) + Len(D) : (B \o D)[i] = IF i <= Len(B) THEN B[i] ELSE D[i - Len(B)]
      BY <2>1, <1>5, Concatenated
    <2>3. /\ IsSequence(B \o D) /\ Len(B \o D) = (n + p) + n
          /\ \A i \in 1 .. (n + p) + n : (B \o D)[i] = IF i <= n + p THEN B[i] ELSE D[i - (n + p)]
      BY <2>1, <2>2, <1>5
    <2> QED
      BY <2>3 DEF B
  <1> HIDE DEF q
  <1>11. ASSUME NEW k \in 1 .. n
         PROVE  q[k] = A[k] /\ q[n + p + k] = D[k]
    <2>1. /\ k \in 1 .. n + p + n /\ k <= n + p /\ k \in 1 .. n + p /\ k <= n
          /\ n + p + k \in 1 .. n + p + n /\ ~(n + p + k <= n + p) /\ (n + p + k) - (n + p) = k
      BY <1>2
    <2> QED
      BY <2>1, <1>9, <1>10
  <1>12. ASSUME NEW k \in 1 .. p
         PROVE  q[n + k] = O[k]
    <2>1. /\ n + k \in 1 .. n + p + n /\ n + k <= n + p /\ n + k \in 1 .. n + p /\ ~(n + k <= n)
          /\ (n + k) - n = k
      BY <1>2
    <2> QED
      BY <2>1, <1>9, <1>10
  <1>13. q = Batch(w, id)
    BY <1>6 DEF q
  <1> QED
    BY <1>2, <1>7, <1>8, <1>10, <1>11, <1>12, <1>13 DEF n, p

\* The entries of a term are right after what it uses has been allocated, and leave
\* nothing else allocated; one of them is the last operation.
LEMMA BatchOK ==
  ASSUME NEW s, NEW w, IsWork(s, w), NEW id, NEW b, b \subseteq Tensors,
         Program[s].tensor \in b, Uses(s) \subseteq b
  PROVE  LET q == Batch(w, id)
         IN  /\ IsSequence(q)
             /\ \A j \in 1 .. Len(q) : EntryOK(q, b, j)
             /\ \A t : Live(q, b, t, Len(q) + 1) <=> t \in b
             /\ \A j \in 1 .. Len(q) : \A t \in Tensors : ~Allocates(q[j], t)
             /\ \E j \in 1 .. Len(q) : Marks(q[j])
             /\ \A j \in 1 .. Len(q) : Marks(q[j]) => q[j].id = id
             /\ \A i, j \in 1 .. Len(q) : Marks(q[i]) /\ Marks(q[j]) => i = j
  <1> DEFINE q == Batch(w, id)
             n == Len(w.inters)
             p == Len(w.ops)
             x(k) == w.inters[k].tensor
  <1>1. /\ IsSequence(q) /\ Len(q) = n + p + n /\ n \in Nat /\ p \in Nat \ {0}
        /\ \A k \in 1 .. n : q[k] = Allocation(w.inters[k].tensor, w.inters[k].shape)
        /\ \A k \in 1 .. p : q[n + k] = Operation(w.ops[k], id)
        /\ \A k \in 1 .. n : q[n + p + k] = Deallocation(w.inters[k].tensor)
    BY BatchFacts
  <1>2. /\ DOMAIN w.inters = 1 .. n /\ DOMAIN w.ops = 1 .. p
    BY SequenceFacts DEF IsWork
  <1>3. /\ \A k \in 1 .. n : x(k) \notin Tensors
        /\ \A k, m \in 1 .. n : x(k) = x(m) => k = m
        /\ \A k \in 1 .. p : \A t \in TensorsOf(w.ops[k]) : t \in b \/ \E m \in 1 .. n : t = x(m)
        /\ \A k \in 1 .. p : w.ops[k].last <=> k = p
    <2> DEFINE names == {w.inters[k].tensor : k \in DOMAIN w.inters}
    <2>1. /\ names \cap Tensors = {}
          /\ \A k, m \in DOMAIN w.inters : w.inters[k].tensor = w.inters[m].tensor => k = m
          /\ \A k \in DOMAIN w.ops :
               /\ TensorsOf(w.ops[k]) \subseteq {Program[s].tensor} \cup Uses(s) \cup names
               /\ w.ops[k].last <=> k = Len(w.ops)
      BY DEF IsWork
    <2>2. \A k \in 1 .. n : x(k) \in names
      BY <1>2
    <2>3. \A t \in names : \E m \in 1 .. n : t = x(m)
      BY <1>2
    <2> HIDE DEF names
    <2>4. \A k, m \in 1 .. n : x(k) = x(m) => k = m
      BY <2>1, <1>2
    <2>5. \A k \in 1 .. p : \A t \in TensorsOf(w.ops[k]) : t \in b \/ \E m \in 1 .. n : t = x(m)
      BY <2>1, <2>3, <1>2
    <2>6. \A k \in 1 .. p : w.ops[k].last <=> k = p
      BY <2>1, <1>2
    <2> QED
      BY <2>1, <2>2, <2>4, <2>5, <2>6
  <1> HIDE DEF q, n, p, x
  <1>4. ASSUME NEW k \in 1 .. n
        PROVE  /\ q[k].kind = "allocate" /\ q[k].tensor = x(k) /\ k \in 1 .. Len(q)
               /\ q[n + p + k].kind = "deallocate" /\ q[n + p + k].tensor = x(k)
               /\ n + p + k \in 1 .. Len(q)
    <2>1. q[k] = Allocation(w.inters[k].tensor, w.inters[k].shape)
      BY <1>1
    <2>2. q[n + p + k] = Deallocation(w.inters[k].tensor)
      BY <1>1
    <2>3. k \in 1 .. Len(q) /\ n + p + k \in 1 .. Len(q)
      BY <1>1
    <2> QED
      BY <2>1, <2>2, <2>3 DEF Allocation, Deallocation, x
  <1>5. ASSUME NEW k \in 1 .. p
        PROVE  /\ q[n + k].kind = "op" /\ q[n + k].op = w.ops[k] /\ q[n + k].id = id /\ n + k \in 1 .. Len(q)
    <2>1. q[n + k] = Operation(w.ops[k], id)
      BY <1>1
    <2>2. n + k \in 1 .. Len(q)
      BY <1>1
    <2> QED
      BY <2>1, <2>2 DEF Operation
  <1>6. ASSUME NEW j \in 1 .. Len(q)
        PROVE  \/ j \in 1 .. n
               \/ j - n \in 1 .. p /\ j = n + (j - n)
               \/ j - (n + p) \in 1 .. n /\ j = n + p + (j - (n + p))
    BY <1>1
  <1>7. ASSUME NEW j \in 1 .. Len(q), NEW t, Frees(q[j], t)
        PROVE  j - (n + p) \in 1 .. n /\ t = x(j - (n + p))
    BY <1>4, <1>5, <1>6, <1>7 DEF Frees
  <1>8. ASSUME NEW j \in 1 .. Len(q), NEW t, Allocates(q[j], t)
        PROVE  j \in 1 .. n /\ t = x(j)
    BY <1>4, <1>5, <1>6, <1>8 DEF Allocates
  <1>9. ASSUME NEW j \in 1 .. Len(q)
        PROVE  EntryOK(q, b, j)
    <2>1. CASE j \in 1 .. n
      <3>1. q[j].kind = "allocate" /\ q[j].tensor = x(j)
        BY <2>1, <1>4
      <3>2. x(j) \notin b
        BY <2>1, <1>3
      <3>3. ASSUME NEW i \in 1 .. j - 1
            PROVE  ~Allocates(q[i], x(j))
        <4>1. i \in 1 .. Len(q) /\ i # j
          BY <1>1
        <4> QED
          BY <4>1, <2>1, <1>3, <1>8
      <3>4. ~Live(q, b, x(j), j)
        BY <3>2, <3>3 DEF Live
      <3> QED
        BY <3>1, <3>4 DEF EntryOK
    <2>2. CASE j - n \in 1 .. p /\ j = n + (j - n)
      <3>1. q[j].kind = "op" /\ q[j].op = w.ops[j - n]
        BY <2>2, <1>5
      <3>2. \A i \in 1 .. j - 1 : \A t : ~Frees(q[i], t)
        <4> SUFFICES ASSUME NEW i \in 1 .. j - 1, NEW t, Frees(q[i], t) PROVE FALSE
          OBVIOUS
        <4>1. i \in 1 .. Len(q) /\ i - (n + p) \notin 1 .. n
          BY <2>2, <1>1
        <4> QED
          BY <4>1, <1>7
      <3>3. ASSUME NEW t \in TensorsOf(q[j].op)
            PROVE  Live(q, b, t, j)
        <4>1. CASE t \in b
          BY <4>1, <3>2 DEF Live
        <4>2. ASSUME NEW m \in 1 .. n, t = x(m) PROVE Live(q, b, t, j)
          <5>1. m \in 1 .. j - 1 /\ Allocates(q[m], t)
            BY <4>2, <2>2, <1>1, <1>4 DEF Allocates
          <5>2. \A k \in m + 1 .. j - 1 : k \in 1 .. j - 1
            BY <1>1
          <5> QED
            BY <5>1, <5>2, <3>2 DEF Live
        <4> QED
          BY <4>1, <4>2, <3>1, <2>2, <1>3
      <3> QED
        BY <3>1, <3>3 DEF EntryOK
    <2>3. CASE j - (n + p) \in 1 .. n /\ j = n + p + (j - (n + p))
      <3> DEFINE m == j - (n + p)
      <3>1. q[j].kind = "deallocate" /\ q[j].tensor = x(m) /\ x(m) \notin Tensors
        BY <2>3, <1>3, <1>4
      <3>2. m \in 1 .. j - 1 /\ Allocates(q[m], x(m))
        BY <2>3, <1>1, <1>4 DEF Allocates
      <3>3. ASSUME NEW i \in m + 1 .. j - 1, Frees(q[i], x(m)) PROVE FALSE
        <4>1. i \in 1 .. Len(q) /\ i - (n + p) # m
          BY <2>3, <1>1
        <4>2. i - (n + p) \in 1 .. n /\ x(m) = x(i - (n + p))
          BY <4>1, <3>3, <1>7
        <4> QED
          BY <4>1, <4>2, <2>3, <1>3
      <3>4. Live(q, b, x(m), j)
        BY <3>2, <3>3 DEF Live
      <3> QED
        BY <3>1, <3>4 DEF EntryOK
    <2> QED
      BY <2>1, <2>2, <2>3, <1>6
  <1>10. ASSUME NEW t
         PROVE  Live(q, b, t, Len(q) + 1) <=> t \in b
    <2>1. (Len(q) + 1) - 1 = Len(q)
      BY <1>1
    <2>2. ASSUME t \in b PROVE Live(q, b, t, Len(q) + 1)
      <3>1. ASSUME NEW i \in 1 .. Len(q), Frees(q[i], t) PROVE FALSE
        <4>1. i - (n + p) \in 1 .. n /\ t = x(i - (n + p))
          BY <3>1, <1>7
        <4> QED
          BY <4>1, <2>2, <1>3
      <3> QED
        BY <3>1, <2>1, <2>2 DEF Live
    <2>3. ASSUME NEW i \in 1 .. Len(q), Allocates(q[i], t), \A m \in i + 1 .. Len(q) : ~Frees(q[m], t)
          PROVE  FALSE
      <3>1. i \in 1 .. n /\ t = x(i)
        BY <2>3, <1>8
      <3>2. n + p + i \in i + 1 .. Len(q)
        BY <3>1, <1>1
      <3>3. Frees(q[n + p + i], t)
        BY <3>1, <1>4 DEF Frees
      <3> QED
        BY <3>2, <3>3, <2>3
    <2> QED
      BY <2>1, <2>2, <2>3 DEF Live
  <1>11. ASSUME NEW j \in 1 .. Len(q), NEW t \in Tensors, Allocates(q[j], t) PROVE FALSE
    <2>1. j \in 1 .. n /\ t = x(j)
      BY <1>11, <1>8
    <2> QED
      BY <2>1, <1>3
  <1>12. ASSUME NEW j \in 1 .. Len(q), Marks(q[j])
         PROVE  j = n + p /\ q[j].id = id
    <2>1. q[j].kind = "op" /\ q[j].op.last
      BY <1>12 DEF Marks
    <2>2. j - n \in 1 .. p /\ j = n + (j - n)
      BY <2>1, <1>4, <1>6
    <2>3. q[j].op = w.ops[j - n] /\ q[j].id = id
      BY <2>2, <1>5
    <2>4. j - n = p
      BY <2>1, <2>2, <2>3, <1>3
    <2> QED
      BY <2>2, <2>3, <2>4, <1>1
  <1>13. n + p \in 1 .. Len(q) /\ Marks(q[n + p])
    <2>1. p \in 1 .. p
      BY <1>1
    <2> QED
      BY <2>1, <1>1, <1>3, <1>5 DEF Marks
  <1>14. /\ \E j \in 1 .. Len(q) : Marks(q[j])
         /\ \A j \in 1 .. Len(q) : Marks(q[j]) => q[j].id = id
         /\ \A i, j \in 1 .. Len(q) : Marks(q[i]) /\ Marks(q[j]) => i = j
    BY <1>12, <1>13
  <1> QED
    BY <1>1, <1>9, <1>10, <1>11, <1>14, Zenon DEF q

-----------------------------------------------------------------------------
(* Steps of the last call that only move it on                             *)

LEMMA ProgramFacts ==
  ASSUME NEW s \in DOMAIN Program
  PROVE  /\ Tensors \subseteq Nat /\ Program[s].tensor \in Tensors
         /\ Uses(s) = ToSet(Program[s].inputs) /\ Uses(s) \subseteq Tensors
         /\ \A u \in Uses(s) : u < Program[s].tensor
         /\ Program[s].inputs \in Seq(Tensors)
         /\ DOMAIN Program[s].terms = 1 .. Len(Program[s].terms) /\ Len(Program[s].terms) \in Nat
         /\ \A n \in DOMAIN Program[s].terms, use_opmin \in BOOLEAN : IsWork(s, Program[s].terms[n][use_opmin])
  <1>1. Len(Shapes) \in Nat
    BY OpExecutorAssumption, SequenceFacts
  <1>2. Tensors \subseteq Nat
    BY <1>1 DEF Tensors
  <1>3. /\ Program[s].tensor \in Tensors /\ Program[s].inputs \in Seq(1 .. Program[s].tensor - 1)
        /\ IsSequence(Program[s].terms)
        /\ \A n \in DOMAIN Program[s].terms, use_opmin \in BOOLEAN : IsWork(s, Program[s].terms[n][use_opmin])
    BY OpExecutorAssumption
  <1>4. 1 .. Program[s].tensor - 1 \subseteq Tensors
    BY <1>1, <1>3 DEF Tensors
  <1>5. /\ Program[s].inputs \in Seq(Tensors)
        /\ ToSet(Program[s].inputs) \subseteq 1 .. Program[s].tensor - 1
    <2> DEFINE S == 1 .. Program[s].tensor - 1
               x == Program[s].inputs
    <2>1. x \in Seq(S) /\ S \subseteq Tensors
      BY <1>3, <1>4
    <2> HIDE DEF S, x
    <2>2. x \in Seq(Tensors) /\ ToSet(x) \subseteq S
      BY <2>1, Widened
    <2> QED
      BY <2>2 DEF S, x
  <1>6. Uses(s) \subseteq 1 .. Program[s].tensor - 1 /\ Uses(s) \subseteq Tensors
    BY <1>4, <1>5 DEF Uses
  <1>7. \A u \in Uses(s) : u < Program[s].tensor
    <2>1. Program[s].tensor \in Nat
      BY <1>2, <1>3
    <2>2. \A u \in 1 .. Program[s].tensor - 1 : u < Program[s].tensor
      BY <2>1
    <2> QED
      BY <2>2, <1>6
  <1>8. DOMAIN Program[s].terms = 1 .. Len(Program[s].terms) /\ Len(Program[s].terms) \in Nat
    BY <1>3, SequenceFacts
  <1>9. Uses(s) = ToSet(Program[s].inputs)
    BY DEF Uses
  <1> QED
    BY <1>2, <1>3, <1>4, <1>5, <1>6, <1>7, <1>8, <1>9

LEMMA UpdateFacts ==
  ASSUME TypeOK, UpdatesOK, NEW t \in Tensors
  PROVE  /\ updates[t] \in Seq([id : 0 .. noted - 1, stmt : DOMAIN Program])
         /\ Len(updates[t]) \in Nat /\ DOMAIN updates[t] = 1 .. Len(updates[t])
         /\ version[t] \in Nat /\ version[t] <= Len(updates[t])
         /\ \A k \in DOMAIN updates[t] :
              /\ updates[t][k].id \in 0 .. noted - 1 /\ updates[t][k].stmt \in DOMAIN Program
              /\ Program[updates[t][k].stmt].tensor = t
              /\ TermsAt(t, k) \subseteq Nat \ {0}
  <1>1. /\ updates[t] \in Seq([id : 0 .. noted - 1, stmt : DOMAIN Program])
        /\ version[t] \in Nat /\ version[t] <= Len(updates[t])
    BY DEF TypeOK
  <1>2. /\ Len(updates[t]) \in Nat /\ DOMAIN updates[t] = 1 .. Len(updates[t])
        /\ \A k \in DOMAIN updates[t] : updates[t][k] \in [id : 0 .. noted - 1, stmt : DOMAIN Program]
    <2> DEFINE S == [id : 0 .. noted - 1, stmt : DOMAIN Program]
               x == updates[t]
    <2>1. x \in Seq(S)
      BY <1>1
    <2> HIDE DEF S, x
    <2>2. Len(x) \in Nat /\ DOMAIN x = 1 .. Len(x) /\ \A k \in DOMAIN x : x[k] \in S
      BY <2>1, Widened
    <2> QED
      BY <2>2 DEF S, x
  <1>3. \A k \in DOMAIN updates[t] : updates[t][k].id \in 0 .. noted - 1 /\ updates[t][k].stmt \in DOMAIN Program
    BY <1>2
  <1>4. \A k \in DOMAIN updates[t] : Program[updates[t][k].stmt].tensor = t
    BY DEF UpdatesOK
  <1>5. \A k \in DOMAIN updates[t] : TermsAt(t, k) \subseteq Nat \ {0}
    BY <1>3, ProgramFacts DEF TermsAt
  <1> QED
    BY <1>1, <1>2, <1>3, <1>4, <1>5

LEMMA TopStepTypes ==
  ASSUME TypeOK, stack # <<>>, NEW f \in Frame, SetTop(f), IsSequence(queue)',
         UNCHANGED <<updates, version, noted, calls, log>>
  PROVE  TypeOK'
  <1>1. stack' \in Seq(Frame)
    BY TopSet DEF TypeOK
  <1> QED
    BY <1>1 DEF TypeOK

LEMMA UpdatesKept ==
  ASSUME UpdatesOK, UNCHANGED <<updates, version, noted>>,
         \A t \in Tensors : t \in allocated => t \in allocated',
         \A s \in DOMAIN Program : Uses(s) \subseteq Tensors, TypeOK,
         \A id \in ToSet(log') : id \in ToSet(log) \/ id[1] < noted
  PROVE  UpdatesOK'
  <1>1. \A t \in Tensors : \A k \in DOMAIN updates[t] : updates[t][k].stmt \in DOMAIN Program
    BY UpdateFacts
  <1>2. ASSUME NEW t \in Tensors, NEW k \in DOMAIN updates[t], NEW u \in Uses(updates[t][k].stmt)
        PROVE  HasValue(u)'
    <2>1. HasValue(u) /\ u \in Tensors
      BY <1>1 DEF UpdatesOK
    <2> QED
      BY <2>1 DEF HasValue
  <1> QED
    BY <1>2 DEF UpdatesOK

LEMMA TopStepStack ==
  ASSUME TypeOK, StackOK, stack # <<>>, NEW f \in Frame, SetTop(f), f.tensor = Top.tensor,
         UNCHANGED <<updates, version, contents>>, FrameOK(f),
         f.at \in {"inputs", "call"} =>
           \A u \in ToSet(StatementOf(f).inputs) : u \in ToSet(f.todo) \/ Ready(u)
  PROVE  StackOK'
  <1>1. /\ stack' \in Seq(Frame) /\ Len(stack') = Len(stack) /\ DOMAIN stack' = DOMAIN stack
        /\ Top' = f /\ \A m \in DOMAIN stack : m < Len(stack) => stack'[m] = stack[m]
    BY TopSet DEF TypeOK
  <1>2. /\ Len(stack) \in Nat \ {0} /\ DOMAIN stack = 1 .. Len(stack) /\ Top = stack[Len(stack)]
    BY TopFacts DEF TypeOK
  <1>3. stack'[Len(stack)] = f
    BY <1>1 DEF Top
  <1>4. \A m \in DOMAIN stack : stack'[m].tensor = stack[m].tensor
    BY <1>1, <1>2, <1>3
  <1>5. \A g : FrameOK(g)' <=> FrameOK(g)
    BY DEF FrameOK, StatementOf
  <1>6. \A g : StatementOf(g)' = StatementOf(g)
    BY DEF StatementOf
  <1>7. \A u : Ready(u)' <=> Ready(u)
    BY DEF Ready, HasOps, allocated
  <1>8. ASSUME NEW m \in DOMAIN stack'
        PROVE  FrameOK(stack[m])' /\ InputsOK(m)'
    <2>1. CASE m < Len(stack)
      <3>1. FrameOK(stack[m]) /\ InputsOK(m) /\ stack'[m] = stack[m]
        BY <2>1, <1>1 DEF StackOK
      <3>2. m + 1 \in DOMAIN stack
        BY <2>1, <1>1, <1>2
      <3>3. stack'[m + 1].tensor = stack[m + 1].tensor
        BY <3>2, <1>4
      <3>4. InputsOK(m)'
        BY <3>1, <3>3, <2>1, <1>1, <1>6, <1>7 DEF InputsOK
      <3> QED
        BY <3>1, <3>4, <1>5
    <2>2. CASE m = Len(stack)
      <3>1. InputsOK(m)'
        BY <2>2, <1>1, <1>3, <1>6, <1>7 DEF InputsOK
      <3> QED
        BY <3>1, <2>2, <1>3, <1>5
    <2> QED
      BY <2>1, <2>2, <1>1, <1>2
  <1> QED
    BY <1>1, <1>4, <1>8 DEF StackOK

LEMMA TopStepPassed ==
  ASSUME TypeOK, stack # <<>>, NEW f \in Frame, SetTop(f), f.tensor = Top.tensor,
         UNCHANGED <<updates, version>>, NEW t, NEW k, NEW n,
         t = Top.tensor => (Queued(f, k, n) <=> Queued(Top, k, n))
  PROVE  Passed(t, k, n)' <=> Passed(t, k, n)
  <1>1. /\ Len(stack') = Len(stack) /\ DOMAIN stack' = DOMAIN stack
        /\ Top' = f /\ \A m \in DOMAIN stack : m < Len(stack) => stack'[m] = stack[m]
    BY TopSet DEF TypeOK
  <1>2. /\ Len(stack) \in Nat \ {0} /\ DOMAIN stack = 1 .. Len(stack) /\ Top = stack[Len(stack)]
    BY TopFacts DEF TypeOK
  <1>3. stack'[Len(stack)] = f
    BY <1>1 DEF Top
  <1>4. ASSUME NEW m \in DOMAIN stack
        PROVE  /\ stack'[m].tensor = stack[m].tensor
               /\ t = stack[m].tensor => (Queued(stack'[m], k, n) <=> Queued(stack[m], k, n))
    <2>1. CASE m < Len(stack)
      BY <2>1, <1>1
    <2>2. CASE m = Len(stack)
      BY <2>2, <1>2, <1>3
    <2> QED
      BY <2>1, <2>2, <1>2
  <1> QED
    BY <1>1, <1>4 DEF Passed

LEMMA TopStepQueue ==
  ASSUME TypeOK, QueueOK, stack # <<>>, NEW f \in Frame, SetTop(f), f.tensor = Top.tensor,
         UNCHANGED <<contents, queue>>, Top.at # "call", f.at # "call"
  PROVE  QueueOK'
  <1>1. /\ stack' # <<>> /\ Len(stack') = Len(stack) /\ DOMAIN stack' = DOMAIN stack
        /\ Top' = f /\ \A m \in DOMAIN stack : m < Len(stack) => stack'[m] = stack[m]
    BY TopSet DEF TypeOK
  <1>2. /\ Len(stack) \in Nat \ {0} /\ DOMAIN stack = 1 .. Len(stack) /\ Top = stack[Len(stack)]
    BY TopFacts DEF TypeOK
  <1>3. stack'[Len(stack)] = f
    BY <1>1 DEF Top
  <1>4. \A m \in DOMAIN stack : stack'[m].tensor = stack[m].tensor
    BY <1>1, <1>2, <1>3
  <1>5. allocated' = allocated
    BY DEF allocated
  <1>6. \A t : AtEnd(t)' <=> AtEnd(t)
    BY <1>5 DEF AtEnd
  <1> QED
    BY <1>1, <1>4, <1>5, <1>6 DEF QueueOK

LEMMA LogKept ==
  ASSUME LogOK, UNCHANGED <<updates, version, log>>, Top'.tensor = Top.tensor,
         \A j \in 1 .. Len(queue) : Marks(queue[j]) => j \in 1 .. Len(queue') /\ queue'[j] = queue[j],
         \A j \in 1 .. Len(queue') : Marks(queue'[j]) => j \in 1 .. Len(queue) /\ queue'[j] = queue[j],
         \A t \in Tensors : \A k \in DOMAIN updates[t] : \A n \in TermsAt(t, k) :
           Passed(t, k, n)' <=> Passed(t, k, n)
  PROVE  LogOK'
  <1>1. \A t, k : TermsAt(t, k)' = TermsAt(t, k)
    BY DEF TermsAt
  <1>2. \A t, k, n : Id(t, k, n)' = Id(t, k, n)
    BY DEF Id
  <1>3. \A id : InQueue(id)' <=> InQueue(id)
    BY DEF InQueue
  <1>4. \A u : HasOps(u)' <=> HasOps(u)
    BY DEF HasOps
  <1>5. ASSUME NEW t \in Tensors, NEW k \in DOMAIN updates'[t], NEW n \in TermsAt(t, k)'
        PROVE  (Passed(t, k, n) <=> Id(t, k, n) \in ToSet(log) \/ InQueue(Id(t, k, n)))'
    <2>1. k \in DOMAIN updates[t] /\ n \in TermsAt(t, k)
      BY <1>1
    <2>2. Passed(t, k, n) <=> Id(t, k, n) \in ToSet(log) \/ InQueue(Id(t, k, n))
      BY <2>1 DEF LogOK
    <2> QED
      BY <2>1, <2>2, <1>2, <1>3
  <1>6. ASSUME NEW j \in 1 .. Len(queue'), Marks(queue'[j])
        PROVE  /\ queue'[j].id \notin ToSet(log')
               /\ \E k \in DOMAIN updates'[Top'.tensor] : \E n \in TermsAt(Top.tensor, k)' :
                    /\ queue'[j].id = Id(Top.tensor, k, n)'
                    /\ \A u \in Uses(updates'[Top'.tensor][k].stmt) : ~HasOps(u)'
    <2>1. j \in 1 .. Len(queue) /\ queue'[j] = queue[j]
      BY <1>6
    <2>2. /\ queue[j].id \notin ToSet(log)
          /\ \E k \in DOMAIN updates[Top.tensor] : \E n \in TermsAt(Top.tensor, k) :
               /\ queue[j].id = Id(Top.tensor, k, n)
               /\ \A u \in Uses(updates[Top.tensor][k].stmt) : ~HasOps(u)
      BY <2>1, <1>6 DEF LogOK
    <2>3. PICK k \in DOMAIN updates[Top.tensor] : \E n \in TermsAt(Top.tensor, k) :
               /\ queue[j].id = Id(Top.tensor, k, n)
               /\ \A u \in Uses(updates[Top.tensor][k].stmt) : ~HasOps(u)
      BY <2>2
    <2>4. PICK n \in TermsAt(Top.tensor, k) :
               /\ queue[j].id = Id(Top.tensor, k, n)
               /\ \A u \in Uses(updates[Top.tensor][k].stmt) : ~HasOps(u)
      BY <2>3
    <2>5. /\ k \in DOMAIN updates'[Top'.tensor] /\ n \in TermsAt(Top.tensor, k)'
          /\ queue'[j].id = Id(Top.tensor, k, n)'
      BY <2>1, <2>4, <1>1, <1>2
    <2>6. \A u \in Uses(updates'[Top'.tensor][k].stmt) : ~HasOps(u)'
      BY <2>4, <1>4
    <2> QED
      BY <2>1, <2>2, <2>5, <2>6
  <1>7. ASSUME NEW i \in 1 .. Len(queue'), NEW j \in 1 .. Len(queue'), i < j,
               Marks(queue'[i]), Marks(queue'[j])
        PROVE  Lazy!Precedes(queue'[i].id, queue'[j].id)
    BY <1>7 DEF LogOK
  <1> QED
    BY <1>5, <1>6, <1>7, Zenon DEF LogOK

LEMMA TopStep ==
  ASSUME IInv, stack # <<>>, NEW f \in Frame, SetTop(f), f.tensor = Top.tensor,
         UNCHANGED <<updates, version, contents, queue, noted, calls, log>>, FrameOK(f),
         Top.at # "call", f.at # "call",
         f.at = "inputs" => \A u \in ToSet(StatementOf(f).inputs) : u \in ToSet(f.todo) \/ Ready(u),
         \A k \in DOMAIN updates[Top.tensor] : \A n \in TermsAt(Top.tensor, k) :
           Queued(f, k, n) <=> Queued(Top, k, n)
  PROVE  IInv'
  <1> USE DEF IInv
  <1>1. TypeOK'
    <2>1. IsSequence(queue)'
      BY DEF TypeOK
    <2> QED
      BY <2>1, TopStepTypes
  <1>2. UpdatesOK'
    <2>1. \A t \in Tensors : t \in allocated => t \in allocated'
      BY DEF allocated
    <2>2. \A s \in DOMAIN Program : Uses(s) \subseteq Tensors
      BY ProgramFacts
    <2> QED
      BY <2>1, <2>2, UpdatesKept
  <1>3. StackOK'
    BY TopStepStack
  <1>4. QueueOK'
    BY TopStepQueue
  <1>5. LogOK'
    <2>1. ASSUME NEW t \in Tensors, NEW k \in DOMAIN updates[t], NEW n \in TermsAt(t, k)
          PROVE  Passed(t, k, n)' <=> Passed(t, k, n)
      BY TopStepPassed
    <2>2. Top'.tensor = Top.tensor
      BY TopSet DEF TypeOK
    <2> QED
      BY <2>1, <2>2, LogKept
  <1> QED
    BY <1>1, <1>2, <1>3, <1>4, <1>5

\* What is known of the last call.
LEMMA LastCall ==
  ASSUME IInv, stack # <<>>
  PROVE  /\ Top \in Frame /\ FrameOK(Top) /\ InputsOK(Len(stack)) /\ Top = stack[Len(stack)]
         /\ Top.tensor \in Tensors /\ Top.i \in Nat /\ Top.term \in Nat /\ Top.count \in Nat
         /\ Top.todo \in Seq(Tensors) /\ Top.at \in Places /\ Top.use_opmin \in BOOLEAN
         /\ Statement = StatementOf(Top)
         /\ Len(updates[Top.tensor]) \in Nat /\ DOMAIN updates[Top.tensor] = 1 .. Len(updates[Top.tensor])
         /\ version[Top.tensor] \in Nat
         /\ Len(stack) \in Nat \ {0} /\ DOMAIN stack = 1 .. Len(stack) /\ Len(stack) \in DOMAIN stack
  <1>1. /\ Len(stack) \in Nat \ {0} /\ DOMAIN stack = 1 .. Len(stack) /\ Len(stack) \in DOMAIN stack
        /\ Top \in Frame /\ Top = stack[Len(stack)]
    BY TopFacts DEF IInv, TypeOK
  <1>2. FrameOK(Top) /\ InputsOK(Len(stack))
    BY <1>1 DEF IInv, StackOK
  <1>3. /\ Top.tensor \in Tensors /\ Top.i \in Nat /\ Top.term \in Nat /\ Top.count \in Nat
        /\ Top.todo \in Seq(Tensors) /\ Top.at \in Places /\ Top.use_opmin \in BOOLEAN
    BY <1>1 DEF Frame
  <1>4. Statement = StatementOf(Top)
    BY DEF Statement, Update, StatementOf
  <1>5. /\ Len(updates[Top.tensor]) \in Nat /\ DOMAIN updates[Top.tensor] = 1 .. Len(updates[Top.tensor])
        /\ version[Top.tensor] \in Nat
    BY <1>3, UpdateFacts DEF IInv
  <1> QED
    BY <1>1, <1>2, <1>3, <1>4, <1>5

\* What is known of the statement a call is at.
LEMMA LastStatement ==
  ASSUME IInv, stack # <<>>, Top.i < Len(updates[Top.tensor])
  PROVE  LET k == Top.i + 1
         IN  /\ k \in DOMAIN updates[Top.tensor] /\ updates[Top.tensor][k].stmt \in DOMAIN Program
             /\ Statement = Program[updates[Top.tensor][k].stmt] /\ Statement.tensor = Top.tensor
             /\ Update = updates[Top.tensor][k]
             /\ Statement.inputs \in Seq(Tensors) /\ Uses(updates[Top.tensor][k].stmt) = ToSet(Statement.inputs)
             /\ ToSet(Statement.inputs) \subseteq Tensors
             /\ \A u \in ToSet(Statement.inputs) : u < Top.tensor /\ HasValue(u)
             /\ DOMAIN Statement.terms = 1 .. Len(Statement.terms) /\ Len(Statement.terms) \in Nat
             /\ TermsAt(Top.tensor, k) = 1 .. Len(Statement.terms)
             /\ \A n \in DOMAIN Statement.terms, use_opmin \in BOOLEAN :
                  IsWork(updates[Top.tensor][k].stmt, Statement.terms[n][use_opmin])
  <1> DEFINE k == Top.i + 1
             s == updates[Top.tensor][k].stmt
  <1>1. Top.tensor \in Tensors /\ k \in DOMAIN updates[Top.tensor]
    BY LastCall
  <1>2. s \in DOMAIN Program /\ Program[s].tensor = Top.tensor
    BY <1>1, UpdateFacts DEF IInv
  <1>3. Statement = Program[s] /\ Update = updates[Top.tensor][k]
    BY DEF Statement, Update
  <1>4. \A u \in Uses(s) : HasValue(u)
    BY <1>1 DEF IInv, UpdatesOK
  <1>5. TermsAt(Top.tensor, k) = DOMAIN Statement.terms
    BY <1>3 DEF TermsAt
  <1> HIDE DEF s
  <1>6. /\ Uses(s) = ToSet(Program[s].inputs) /\ Uses(s) \subseteq Tensors
        /\ \A u \in Uses(s) : u < Program[s].tensor
        /\ Program[s].inputs \in Seq(Tensors)
        /\ DOMAIN Program[s].terms = 1 .. Len(Program[s].terms) /\ Len(Program[s].terms) \in Nat
        /\ \A n \in DOMAIN Program[s].terms, use_opmin \in BOOLEAN : IsWork(s, Program[s].terms[n][use_opmin])
    BY <1>2, ProgramFacts
  <1> QED
    BY <1>1, <1>2, <1>3, <1>4, <1>5, <1>6 DEF s

LEMMA FrameMoved ==
  ASSUME NEW g \in Frame, NEW at \in Places, NEW term \in Nat, NEW todo \in Seq(Tensors)
  PROVE  /\ [g EXCEPT !.at = at] \in Frame
         /\ [g EXCEPT !.at = at, !.term = term, !.todo = todo] \in Frame
  BY DEF Frame

LEMMA NextUpdateStep == IInv /\ NextUpdate => IInv'
  <1> SUFFICES ASSUME IInv, NextUpdate PROVE IInv'
    OBVIOUS
  <1> DEFINE f == [Top EXCEPT !.at = "terms", !.term = 0]
  <1>1. /\ stack # <<>> /\ Top.at = "updates" /\ Top.i < Len(updates[Top.tensor]) /\ SetTop(f)
        /\ UNCHANGED <<updates, version, contents, queue, noted, calls, log>>
    BY DEF NextUpdate
  <1>2. /\ Top \in Frame /\ FrameOK(Top)
    BY <1>1, LastCall
  <1>3. f \in Frame /\ f.tensor = Top.tensor /\ f.i = Top.i /\ f.count = Top.count /\ f.at = "terms" /\ f.term = 0
    BY <1>2 DEF Frame, Places
  <1> HIDE DEF f
  <1>4. FrameOK(f)
    BY <1>1, <1>2, <1>3 DEF FrameOK
  <1>5. ASSUME NEW k \in DOMAIN updates[Top.tensor], NEW n \in TermsAt(Top.tensor, k)
        PROVE  Queued(f, k, n) <=> Queued(Top, k, n)
    <2>1. n \in Nat \ {0}
      BY <1>1, LastCall, UpdateFacts DEF IInv
    <2> QED
      BY <2>1, <1>1, <1>3 DEF Queued
  <1> QED
    BY <1>1, <1>3, <1>4, <1>5, TopStep

LEMMA NextTermStep == IInv /\ NextTerm => IInv'
  <1> SUFFICES ASSUME IInv, NextTerm PROVE IInv'
    OBVIOUS
  <1> DEFINE f == [Top EXCEPT !.at = "inputs", !.term = @ + 1, !.todo = Statement.inputs]
  <1>1. /\ stack # <<>> /\ Top.at = "terms" /\ Top.term < Len(Statement.terms) /\ SetTop(f)
        /\ UNCHANGED <<updates, version, contents, queue, noted, calls, log>>
    BY DEF NextTerm
  <1>2. /\ Top \in Frame /\ FrameOK(Top) /\ Top.i < Len(updates[Top.tensor]) /\ Top.term \in Nat
        /\ Top.tensor \in Tensors
    BY <1>1, LastCall DEF FrameOK
  <1>3. Statement.inputs \in Seq(Tensors) /\ DOMAIN Statement.terms = 1 .. Len(Statement.terms)
        /\ Len(Statement.terms) \in Nat /\ Statement = StatementOf(Top)
    BY <1>1, <1>2, LastStatement, LastCall
  <1>4. /\ f \in Frame /\ f.tensor = Top.tensor /\ f.i = Top.i /\ f.count = Top.count /\ f.at = "inputs"
        /\ f.term = Top.term + 1 /\ f.todo = Statement.inputs
    <2>1. "inputs" \in Places /\ Top.term + 1 \in Nat
      BY <1>2 DEF Places
    <2>2. f \in Frame
      BY <2>1, <1>2, <1>3, FrameMoved
    <2> QED
      BY <2>2, <1>2 DEF Frame
  <1> HIDE DEF f
  <1>5. StatementOf(f) = Statement
    BY <1>3, <1>4 DEF StatementOf
  <1>6. f.term \in DOMAIN Statement.terms
    BY <1>1, <1>2, <1>3, <1>4
  <1>7. FrameOK(f)
    BY <1>1, <1>2, <1>4, <1>5, <1>6 DEF FrameOK
  <1>8. ASSUME NEW k \in DOMAIN updates[Top.tensor], NEW n \in TermsAt(Top.tensor, k)
        PROVE  Queued(f, k, n) <=> Queued(Top, k, n)
    <2>1. n \in Nat \ {0}
      BY <1>2, UpdateFacts DEF IInv
    <2>2. n < Top.term + 1 <=> n <= Top.term
      BY <2>1, <1>2
    <2> QED
      BY <2>2, <1>1, <1>4 DEF Queued
  <1> QED
    BY <1>1, <1>4, <1>5, <1>7, <1>8, TopStep

LEMMA EndUpdateStep == IInv /\ EndUpdate => IInv'
  <1> SUFFICES ASSUME IInv, EndUpdate PROVE IInv'
    OBVIOUS
  <1> DEFINE f == [Top EXCEPT !.at = "updates", !.i = @ + 1, !.count = @ + 1]
  <1>1. /\ stack # <<>> /\ Top.at = "terms" /\ Top.term >= Len(Statement.terms) /\ SetTop(f)
        /\ UNCHANGED <<updates, version, contents, queue, noted, calls, log>>
    BY DEF EndUpdate
  <1>2. /\ Top \in Frame /\ FrameOK(Top) /\ Top.i < Len(updates[Top.tensor]) /\ Top.term \in Nat
        /\ Top.i \in Nat /\ Top.count \in Nat /\ version[Top.tensor] \in Nat /\ Len(updates[Top.tensor]) \in Nat
        /\ DOMAIN updates[Top.tensor] = 1 .. Len(updates[Top.tensor])
    BY <1>1, LastCall DEF FrameOK
  <1>3. /\ f \in Frame /\ f.tensor = Top.tensor /\ f.i = Top.i + 1 /\ f.count = Top.count + 1 /\ f.at = "updates"
    <2>1. "updates" \in Places /\ Top.i + 1 \in Nat /\ Top.count + 1 \in Nat
      BY <1>2 DEF Places
    <2>2. \A i, count \in Nat : [Top EXCEPT !.at = "updates", !.i = i, !.count = count] \in Frame
      BY <1>2 DEF Frame, Places
    <2>3. [Top EXCEPT !.at = "updates", !.i = Top.i + 1, !.count = Top.count + 1] \in Frame
      BY <2>1, <2>2
    <2>4. f \in Frame
      BY <2>3
    <2> QED
      BY <2>4, <1>2 DEF Frame
  <1> HIDE DEF f
  <1>4. FrameOK(f)
    <2>1. f.i = version[f.tensor] + f.count /\ f.i <= Len(updates[f.tensor])
      BY <1>2, <1>3 DEF FrameOK
    <2> QED
      BY <2>1, <1>3 DEF FrameOK
  <1>5. ASSUME NEW k \in DOMAIN updates[Top.tensor], NEW n \in TermsAt(Top.tensor, k)
        PROVE  Queued(f, k, n) <=> Queued(Top, k, n)
    <2>1. k = Top.i + 1 => n <= Top.term
      <3>1. ASSUME k = Top.i + 1 PROVE n \in 1 .. Len(Statement.terms) /\ Len(Statement.terms) \in Nat
        BY <3>1, <1>1, <1>2, LastStatement
      <3> QED
        BY <3>1, <1>1, <1>2
    <2>2. k \in Nat
      BY <1>2
    <2> QED
      BY <2>1, <2>2, <1>1, <1>2, <1>3 DEF Queued
  <1> QED
    BY <1>1, <1>3, <1>4, <1>5, TopStep

LEMMA LoopEndsStep == IInv /\ LoopEnds => IInv'
  <1> SUFFICES ASSUME IInv, LoopEnds PROVE IInv'
    OBVIOUS
  <1> DEFINE f == [Top EXCEPT !.at = "end"]
  <1>1. /\ stack # <<>> /\ Top.at = "updates" /\ Top.i >= Len(updates[Top.tensor]) /\ SetTop(f)
        /\ UNCHANGED <<updates, version, contents, queue, noted, calls, log>>
    BY DEF LoopEnds
  <1>2. /\ Top \in Frame /\ FrameOK(Top) /\ Top.i \in Nat /\ Len(updates[Top.tensor]) \in Nat
    BY <1>1, LastCall
  <1>3. /\ f \in Frame /\ f.tensor = Top.tensor /\ f.i = Top.i /\ f.count = Top.count /\ f.at = "end"
    BY <1>2 DEF Frame, Places
  <1> HIDE DEF f
  <1>4. FrameOK(f)
    <2>1. f.i = version[f.tensor] + f.count /\ f.i = Len(updates[f.tensor])
      BY <1>1, <1>2, <1>3 DEF FrameOK
    <2> QED
      BY <2>1, <1>2, <1>3 DEF FrameOK
  <1>5. ASSUME NEW k \in DOMAIN updates[Top.tensor], NEW n \in TermsAt(Top.tensor, k)
        PROVE  Queued(f, k, n) <=> Queued(Top, k, n)
    BY <1>1, <1>3 DEF Queued
  <1> QED
    BY <1>1, <1>3, <1>4, <1>5, TopStep

-----------------------------------------------------------------------------
(* Steps of the last call that give entries to the scheduler               *)

LEMMA QueueGrows ==
  ASSUME IInv, NEW r, IsSequence(r), NEW b, \A t : t \in b <=> AtEnd(t),
         \A j \in 1 .. Len(r) : EntryOK(r, b, j)
  PROVE  LET c == queue \o r
         IN  /\ IsSequence(c) /\ Len(c) = Len(queue) + Len(r) /\ Len(queue) \in Nat /\ Len(r) \in Nat
             /\ \A j \in 1 .. Len(c) : EntryOK(c, allocated, j)
             /\ \A t : Live(c, allocated, t, Len(c) + 1) <=> Live(r, b, t, Len(r) + 1)
             /\ \A j \in 1 .. Len(queue) : j \in 1 .. Len(c) /\ c[j] = queue[j]
             /\ \A j \in 1 .. Len(c) : j \in 1 .. Len(queue) \/ (j - Len(queue) \in 1 .. Len(r) /\ c[j] = r[j - Len(queue)])
  <1>1. IsSequence(queue) /\ \A j \in 1 .. Len(queue) : EntryOK(queue, allocated, j)
    BY DEF IInv, TypeOK, QueueOK
  <1>2. \A t : t \in b <=> Live(queue, allocated, t, Len(queue) + 1)
    BY DEF AtEnd
  <1> DEFINE c == queue \o r
  <1>3. /\ IsSequence(c) /\ Len(c) = Len(queue) + Len(r)
        /\ \A j \in 1 .. Len(queue) + Len(r) : c[j] = IF j <= Len(queue) THEN queue[j] ELSE r[j - Len(queue)]
    BY <1>1, Concatenated
  <1>4. /\ \A j \in 1 .. Len(c) : EntryOK(c, allocated, j)
        /\ \A t : Live(c, allocated, t, Len(c) + 1) <=> Live(r, b, t, Len(r) + 1)
    <2> HIDE DEF c
    <2>1. /\ \A j \in 1 .. Len(queue \o r) : EntryOK(queue \o r, allocated, j)
          /\ \A t : Live(queue \o r, allocated, t, Len(queue \o r) + 1) <=> Live(r, b, t, Len(r) + 1)
      BY <1>1, <1>2, EntriesJoin
    <2> QED
      BY <2>1 DEF c
  <1>5. Len(queue) \in Nat /\ Len(r) \in Nat
    BY <1>1, SequenceFacts
  <1> HIDE DEF c
  <1>6. \A j \in 1 .. Len(queue) : j \in 1 .. Len(c) /\ c[j] = queue[j]
    BY <1>3, <1>5
  <1>7. ASSUME NEW j \in 1 .. Len(c)
        PROVE  j \in 1 .. Len(queue) \/ (j - Len(queue) \in 1 .. Len(r) /\ c[j] = r[j - Len(queue)])
    BY <1>3, <1>5
  <1> QED
    BY <1>3, <1>4, <1>5, <1>6, <1>7 DEF c

\* A tensor is allocated that neither is nor will be.
LEMMA AllocationQueued ==
  ASSUME IInv, NEW u \in Tensors, u \notin allocated => ~AtEnd(u)
  PROVE  LET c == queue \o AllocationOf(u)
         IN  /\ IsSequence(c)
             /\ \A j \in 1 .. Len(c) : EntryOK(c, allocated, j)
             /\ \A t : Live(c, allocated, t, Len(c) + 1) <=> AtEnd(t) \/ t = u
             /\ \A j \in 1 .. Len(queue) : j \in 1 .. Len(c) /\ c[j] = queue[j]
             /\ \A j \in 1 .. Len(c) : j \in 1 .. Len(queue) \/ c[j] = Allocation(u, Shapes[u])
             /\ u \in allocated => c = queue
  <1> DEFINE b == {t \in Tensors : AtEnd(t)}
  <1>1. \A t : t \in b <=> AtEnd(t)
    BY DEF IInv, QueueOK
  <1> HIDE DEF b
  <1>2. IsSequence(queue) /\ Len(queue) \in Nat
    BY SequenceFacts DEF IInv, TypeOK
  <1>3. CASE u \in allocated
    <2>1. AllocationOf(u) = <<>>
      BY <1>3 DEF AllocationOf
    <2>2. queue \o <<>> = queue
      BY <1>2 DEF IsSequence
    <2>3. AtEnd(u)
      <3>1. \A j \in 1 .. Len(queue) : ~Frees(queue[j], u)
        BY DEF IInv, QueueOK, EntryOK, Frees
      <3>2. (Len(queue) + 1) - 1 = Len(queue)
        BY <1>2
      <3> QED
        BY <3>1, <3>2, <1>3 DEF AtEnd, Live
    <2>4. /\ \A j \in 1 .. Len(queue) : EntryOK(queue, allocated, j)
          /\ \A t : Live(queue, allocated, t, Len(queue) + 1) <=> AtEnd(t) \/ t = u
      BY <2>3 DEF IInv, QueueOK, AtEnd
    <2> QED
      BY <2>1, <2>2, <2>4, <1>2
  <1>4. CASE u \notin allocated
    <2> DEFINE e == Allocation(u, Shapes[u])
               r == <<e>>
    <2>1. AllocationOf(u) = r
      BY <1>4 DEF AllocationOf
    <2>2. e.kind = "allocate" /\ e.tensor = u
      BY DEF Allocation
    <2>3. IsSequence(r) /\ Len(r) = 1 /\ r[1] = e
      BY One
    <2> HIDE DEF e, r
    <2>4. ASSUME NEW j \in 1 .. Len(r)
          PROVE  EntryOK(r, b, j)
      <3>1. j = 1 /\ 1 .. 1 - 1 = {}
        BY <2>3
      <3>2. ~Live(r, b, u, 1)
        BY <3>1, <1>1, <1>4 DEF Live
      <3> QED
        BY <3>1, <3>2, <2>2, <2>3 DEF EntryOK
    <2>5. ASSUME NEW t
          PROVE  Live(r, b, t, Len(r) + 1) <=> AtEnd(t) \/ t = u
      <3>1. (Len(r) + 1) - 1 = 1 /\ 1 .. 1 = {1} /\ 1 + 1 .. 1 = {}
        BY <2>3
      <3>2. ~Frees(r[1], t) /\ (Allocates(r[1], t) <=> t = u)
        BY <2>2, <2>3 DEF Frees, Allocates
      <3> QED
        BY <3>1, <3>2, <1>1 DEF Live
    <2> DEFINE c == queue \o r
    <2>6. /\ IsSequence(c) /\ Len(c) = Len(queue) + Len(r)
          /\ \A j \in 1 .. Len(c) : EntryOK(c, allocated, j)
          /\ \A t : Live(c, allocated, t, Len(c) + 1) <=> Live(r, b, t, Len(r) + 1)
          /\ \A j \in 1 .. Len(queue) : j \in 1 .. Len(c) /\ c[j] = queue[j]
          /\ \A j \in 1 .. Len(c) : j \in 1 .. Len(queue) \/ (j - Len(queue) \in 1 .. Len(r) /\ c[j] = r[j - Len(queue)])
      BY <2>3, <2>4, <1>1, QueueGrows
    <2> HIDE DEF c
    <2>7. \A j \in 1 .. Len(c) : j \in 1 .. Len(queue) \/ c[j] = e
      BY <2>3, <2>6
    <2>8. queue \o AllocationOf(u) = c
      BY <2>1 DEF c
    <2> QED
      BY <2>5, <2>6, <2>7, <2>8, <1>4 DEF e
  <1> QED
    BY <1>3, <1>4

LEMMA CheckInputStep == IInv /\ CheckInput => IInv'
  <1> SUFFICES ASSUME IInv, CheckInput PROVE IInv'
    OBVIOUS
  <1> DEFINE u == Head(Top.todo)
             c == queue \o AllocationOf(u)
  <1>1. /\ stack # <<>> /\ Top.at = "inputs" /\ Top.todo # <<>> /\ queue' = c
        /\ SetTop(IF HasOps(u) THEN [Top EXCEPT !.at = "call"] ELSE [Top EXCEPT !.todo = Tail(@)])
        /\ UNCHANGED <<updates, version, contents, noted, calls, log>>
    BY DEF CheckInput
  <1>2. /\ Top \in Frame /\ FrameOK(Top) /\ Top.i < Len(updates[Top.tensor]) /\ Top.todo \in Seq(Tensors)
        /\ Top.tensor \in Tensors /\ Statement = StatementOf(Top) /\ Top.term \in DOMAIN Statement.terms
        /\ ToSet(Top.todo) \subseteq ToSet(Statement.inputs) /\ InputsOK(Len(stack)) /\ Top = stack[Len(stack)]
        /\ Len(stack) \in Nat
    BY <1>1, LastCall DEF FrameOK
  <1>3. /\ Tail(Top.todo) \in Seq(Tensors) /\ u \in ToSet(Top.todo)
        /\ ToSet(Top.todo) = {u} \cup ToSet(Tail(Top.todo))
    BY <1>1, <1>2, Rest
  <1>4. u \in Tensors /\ u < Top.tensor /\ HasValue(u) /\ Top.tensor \in Nat /\ u \in Nat
    <2>1. u \in ToSet(Statement.inputs)
      BY <1>2, <1>3
    <2>2. u \in Tensors /\ u < Top.tensor /\ HasValue(u)
      BY <2>1, <1>1, <1>2, LastStatement
    <2>3. Tensors \subseteq Nat
      <3>1. Len(Shapes) \in Nat
        BY OpExecutorAssumption, SequenceFacts
      <3> QED
        BY <3>1 DEF Tensors
    <2> QED
      BY <2>2, <2>3, <1>2
  <1>5. \A v \in ToSet(Statement.inputs) : v \in ToSet(Top.todo) \/ Ready(v)
    BY <1>1, <1>2 DEF InputsOK
  <1>6. u \notin allocated => HasOps(u) /\ ~AtEnd(u)
    <2> SUFFICES ASSUME u \notin allocated PROVE HasOps(u) /\ ~AtEnd(u)
      OBVIOUS
    <2>1. Len(updates[u]) \in Nat /\ version[u] \in Nat /\ updates[u] \in Seq([id : 0 .. noted - 1, stmt : DOMAIN Program])
      BY <1>4, UpdateFacts DEF IInv
    <2>2. version[u] = 0
      BY <2>1, <1>4 DEF IInv, UpdatesOK
    <2>3. updates[u] # <<>>
      BY <1>4 DEF HasValue
    <2>4. HasOps(u)
      BY <2>1, <2>2, <2>3 DEF HasOps
    <2>5. ~AtEnd(u)
      <3>1. \A j \in 1 .. Len(queue) : ~Allocates(queue[j], u)
        BY <1>1, <1>4 DEF IInv, QueueOK
      <3>2. (Len(queue) + 1) - 1 = Len(queue)
        BY SequenceFacts DEF IInv, TypeOK
      <3> QED
        BY <3>1, <3>2 DEF AtEnd, Live
    <2> QED
      BY <2>4, <2>5
  <1> HIDE DEF u
  <1>7. /\ IsSequence(c)
        /\ \A j \in 1 .. Len(c) : EntryOK(c, allocated, j)
        /\ \A t : Live(c, allocated, t, Len(c) + 1) <=> AtEnd(t) \/ t = u
        /\ \A j \in 1 .. Len(queue) : j \in 1 .. Len(c) /\ c[j] = queue[j]
        /\ \A j \in 1 .. Len(c) : j \in 1 .. Len(queue) \/ c[j] = Allocation(u, Shapes[u])
        /\ u \in allocated => c = queue
    BY <1>4, <1>6, AllocationQueued
  <1> HIDE DEF c
  <1>8. CASE ~HasOps(u)
    <2> DEFINE f == [Top EXCEPT !.todo = Tail(@)]
    <2>1. SetTop(f) /\ u \in allocated /\ queue' = queue
      BY <1>1, <1>6, <1>7, <1>8
    <2>2. /\ f \in Frame /\ f.tensor = Top.tensor /\ f.i = Top.i /\ f.count = Top.count /\ f.at = Top.at
          /\ f.term = Top.term /\ f.todo = Tail(Top.todo)
      BY <1>2, <1>3 DEF Frame
    <2> HIDE DEF f
    <2>3. StatementOf(f) = Statement
      BY <2>2, <1>2 DEF StatementOf
    <2>4. FrameOK(f)
      BY <2>2, <2>3, <1>1, <1>2, <1>3 DEF FrameOK
    <2>5. \A v \in ToSet(Statement.inputs) : v \in ToSet(f.todo) \/ Ready(v)
      BY <2>1, <2>2, <1>3, <1>5, <1>8 DEF Ready
    <2>6. \A k \in DOMAIN updates[Top.tensor] : \A n \in TermsAt(Top.tensor, k) :
            Queued(f, k, n) <=> Queued(Top, k, n)
      BY <2>2 DEF Queued
    <2>7. f.at # "call" /\ Top.at # "call" /\ UNCHANGED <<updates, version, contents, queue, noted, calls, log>>
      BY <2>1, <2>2, <1>1
    <2> QED
      BY <1>1, <2>1, <2>2, <2>3, <2>4, <2>5, <2>6, <2>7, TopStep
  <1>9. CASE HasOps(u)
    <2> DEFINE f == [Top EXCEPT !.at = "call"]
    <2>1. SetTop(f)
      BY <1>1, <1>9
    <2>2. /\ f \in Frame /\ f.tensor = Top.tensor /\ f.i = Top.i /\ f.count = Top.count /\ f.at = "call"
          /\ f.term = Top.term /\ f.todo = Top.todo
      BY <1>2 DEF Frame, Places
    <2> HIDE DEF f
    <2>3. StatementOf(f) = Statement
      BY <2>2, <1>2 DEF StatementOf
    <2>4. FrameOK(f)
      BY <2>2, <2>3, <1>1, <1>2 DEF FrameOK
    <2>5. TypeOK'
      BY <2>1, <2>2, <1>1, <1>7, TopStepTypes DEF IInv
    <2>6. UpdatesOK'
      <3>1. \A t \in Tensors : t \in allocated => t \in allocated'
        BY <1>1 DEF allocated
      <3>2. \A s \in DOMAIN Program : Uses(s) \subseteq Tensors
        BY ProgramFacts
      <3> QED
        BY <3>1, <3>2, <1>1, UpdatesKept DEF IInv
    <2>7. StackOK'
      BY <2>1, <2>2, <2>3, <2>4, <1>1, <1>5, TopStepStack DEF IInv
    <2>8. /\ stack' # <<>> /\ Len(stack') = Len(stack) /\ DOMAIN stack' = DOMAIN stack
          /\ Top' = f /\ \A m \in DOMAIN stack : m < Len(stack) => stack'[m] = stack[m]
      BY <2>1, <2>2, <1>1, TopSet DEF IInv, TypeOK
    <2>9. \A m \in DOMAIN stack : stack'[m].tensor = stack[m].tensor
      <3>1. stack'[Len(stack)] = f /\ DOMAIN stack = 1 .. Len(stack)
        BY <2>8, <1>1, LastCall DEF Top
      <3> QED
        BY <3>1, <2>2, <2>8, <1>2
    <2>10. QueueOK'
      <3>1. allocated' = allocated
        BY <1>1 DEF allocated
      <3>2. \A t : AtEnd(t)' <=> AtEnd(t) \/ t = u
        BY <3>1, <1>1, <1>7 DEF AtEnd
      <3>3. \A j \in 1 .. Len(queue') : EntryOK(queue', allocated', j)
        BY <3>1, <1>1, <1>7
      <3>4. \A t : AtEnd(t)' => t \in Tensors
        BY <3>2, <1>4 DEF IInv, QueueOK
      <3>5. Head(Top'.todo) = u /\ Top'.tensor = Top.tensor /\ Top'.at = "call"
        BY <2>2, <2>8 DEF u
      <3>6. ASSUME NEW j \in 1 .. Len(queue'), NEW t \in Tensors, Allocates(queue'[j], t)
            PROVE  t = Top'.tensor \/ (Top'.at = "call" /\ t = Head(Top'.todo))
        <4>1. CASE j \in 1 .. Len(queue)
          BY <4>1, <3>5, <3>6, <1>1, <1>7 DEF IInv, QueueOK
        <4>2. CASE queue'[j] = Allocation(u, Shapes[u])
          BY <4>2, <3>5, <3>6 DEF Allocates, Allocation
        <4> QED
          BY <4>1, <4>2, <1>1, <1>7
      <3>7. \A m \in DOMAIN stack' : AtEnd(stack[m].tensor)'
        BY <3>2, <2>8, <2>9 DEF IInv, QueueOK
      <3>8. AtEnd(Head(Top.todo))'
        BY <3>2, <3>5
      <3> QED
        BY <3>3, <3>4, <3>6, <3>7, <3>8, <2>8 DEF QueueOK
    <2>11. LogOK'
      <3>1. ASSUME NEW t \in Tensors, NEW k \in DOMAIN updates[t], NEW n \in TermsAt(t, k)
            PROVE  Passed(t, k, n)' <=> Passed(t, k, n)
        <4>1. Queued(f, k, n) <=> Queued(Top, k, n)
          BY <2>2, <1>1 DEF Queued
        <4> QED
          BY <4>1, <2>1, <2>2, <1>1, TopStepPassed DEF IInv
      <3>2. Top'.tensor = Top.tensor
        BY <2>2, <2>8
      <3>3. /\ \A j \in 1 .. Len(queue) : Marks(queue[j]) => j \in 1 .. Len(queue') /\ queue'[j] = queue[j]
            /\ \A j \in 1 .. Len(queue') : Marks(queue'[j]) => j \in 1 .. Len(queue) /\ queue'[j] = queue[j]
        BY <1>1, <1>7 DEF Marks, Allocation
      <3> QED
        BY <3>1, <3>2, <3>3, <1>1, LogKept DEF IInv
    <2> QED
      BY <2>5, <2>6, <2>7, <2>10, <2>11 DEF IInv
  <1> QED
    BY <1>8, <1>9

LEMMA AllocatedStays ==
  ASSUME IInv, NEW t \in Tensors, t \in allocated
  PROVE  AtEnd(t)
  <1>1. \A j \in 1 .. Len(queue) : ~Frees(queue[j], t)
    BY DEF IInv, QueueOK, EntryOK, Frees
  <1>2. (Len(queue) + 1) - 1 = Len(queue)
    BY SequenceFacts DEF IInv, TypeOK
  <1> QED
    BY <1>1, <1>2 DEF AtEnd, Live

\* Only the last call can be for its tensor.
LEMMA TopPassed ==
  ASSUME IInv, stack # <<>>, NEW k \in DOMAIN updates[Top.tensor], NEW n
  PROVE  Passed(Top.tensor, k, n) <=> Queued(Top, k, n)
  <1>1. /\ Top = stack[Len(stack)] /\ Len(stack) \in DOMAIN stack /\ DOMAIN stack = 1 .. Len(stack)
        /\ Len(stack) \in Nat /\ FrameOK(Top) /\ Top.i \in Nat /\ Top.count \in Nat /\ version[Top.tensor] \in Nat
        /\ Top.tensor \in Tensors /\ DOMAIN updates[Top.tensor] = 1 .. Len(updates[Top.tensor])
    BY LastCall
  <1>2. version[Top.tensor] <= Top.i
    BY <1>1 DEF FrameOK
  <1>3. ASSUME NEW m \in DOMAIN stack, stack[m].tensor = Top.tensor
        PROVE  m = Len(stack)
    <2>1. m < Len(stack) => Top.tensor < stack[m].tensor
      BY <1>1 DEF IInv, StackOK
    <2>2. Top.tensor \in Int
      BY <1>1, OpExecutorAssumption, SequenceFacts DEF Tensors
    <2> QED
      BY <2>1, <2>2, <1>1, <1>3
  <1>4. k <= version[Top.tensor] => Queued(Top, k, n)
    BY <1>1, <1>2 DEF Queued
  <1> QED
    BY <1>1, <1>3, <1>4 DEF Passed

LEMMA SameId ==
  ASSUME IInv, NEW t \in Tensors, NEW u \in Tensors, NEW k \in DOMAIN updates[t], NEW m \in DOMAIN updates[u],
         NEW n, NEW o, Id(t, k, n) = Id(u, m, o)
  PROVE  t = u /\ k = m /\ n = o
  <1>1. updates[t][k].id = updates[u][m].id /\ n = o
    BY DEF Id
  <1>2. t = u
    BY <1>1 DEF IInv, UpdatesOK
  <1>3. /\ DOMAIN updates[t] = 1 .. Len(updates[t]) /\ Len(updates[t]) \in Nat
        /\ \A i \in DOMAIN updates[t] : updates[t][i].id \in 0 .. noted - 1
    BY UpdateFacts DEF IInv
  <1>4. \A i, j \in DOMAIN updates[t] : i < j => updates[t][i].id < updates[t][j].id
    BY DEF IInv, UpdatesOK
  <1>5. k \in Nat /\ m \in Nat /\ m \in DOMAIN updates[t]
    BY <1>2, <1>3
  <1>6. updates[t][k].id \in Int /\ updates[t][m].id \in Int
    <2>1. noted \in Nat
      BY OpExecutorAssumption DEF IInv, TypeOK
    <2> QED
      BY <2>1, <1>3, <1>5
  <1>7. ~(k < m) /\ ~(m < k)
    BY <1>1, <1>2, <1>4, <1>5, <1>6
  <1> QED
    BY <1>1, <1>2, <1>5, <1>7

LEMMA QueueStep == IInv /\ Queue => IInv'
  <1> SUFFICES ASSUME IInv, Queue PROVE IInv'
    OBVIOUS
  <1> DEFINE T == Top.tensor
             k == Top.i + 1
             s == updates[T][k].stmt
             id == <<Update.id, Top.term>>
             w == Statement.terms[Top.term][Top.use_opmin]
             r == Batch(w, id)
             c == queue \o r
             f == [Top EXCEPT !.at = "terms"]
             b == {t \in Tensors : AtEnd(t)}
  <1>1. /\ stack # <<>> /\ Top.at = "inputs" /\ Top.todo = <<>> /\ queue' = c /\ SetTop(f)
        /\ UNCHANGED <<updates, version, contents, noted, calls, log>>
    BY DEF Queue
  <1>2. /\ Top \in Frame /\ FrameOK(Top) /\ Top.i < Len(updates[T]) /\ Top.use_opmin \in BOOLEAN
        /\ T \in Tensors /\ Statement = StatementOf(Top) /\ Top.term \in DOMAIN Statement.terms
        /\ InputsOK(Len(stack)) /\ Top = stack[Len(stack)] /\ Len(stack) \in DOMAIN stack
        /\ Len(stack) \in Nat /\ DOMAIN stack = 1 .. Len(stack) /\ Top.i \in Nat
    BY <1>1, LastCall DEF FrameOK
  <1>3. /\ k \in DOMAIN updates[T] /\ s \in DOMAIN Program /\ Statement = Program[s] /\ Statement.tensor = T
        /\ Update = updates[T][k] /\ Uses(s) = ToSet(Statement.inputs) /\ ToSet(Statement.inputs) \subseteq Tensors
        /\ TermsAt(T, k) = 1 .. Len(Statement.terms) /\ DOMAIN Statement.terms = 1 .. Len(Statement.terms)
        /\ IsWork(s, w)
    <2>1. \A n \in DOMAIN Statement.terms, use_opmin \in BOOLEAN : IsWork(s, Statement.terms[n][use_opmin])
      BY <1>1, <1>2, LastStatement
    <2>2. IsWork(s, w)
      BY <2>1, <1>2
    <2> HIDE DEF w
    <2> QED
      BY <2>2, <1>1, <1>2, LastStatement
  <1>4. id = Id(T, k, Top.term) /\ Top.term \in TermsAt(T, k)
    BY <1>2, <1>3 DEF Id
  <1> HIDE DEF s, w, id, r
  <1>5. \A u \in Uses(s) : Ready(u)
    <2>1. ToSet(Top.todo) = {}
      BY <1>1 DEF ToSet
    <2> QED
      BY <2>1, <1>1, <1>2, <1>3 DEF InputsOK
  <1>6. \A t : t \in b <=> AtEnd(t)
    BY DEF IInv, QueueOK
  <1>7. T \in b /\ Uses(s) \subseteq b /\ b \subseteq Tensors
    <2>1. T \in b
      BY <1>2 DEF IInv, QueueOK
    <2>2. Uses(s) \subseteq b
      BY <1>3, <1>5, AllocatedStays DEF Ready
    <2> QED
      BY <2>1, <2>2
  <1> HIDE DEF b, T, k
  <1>8. /\ IsSequence(r)
        /\ \A j \in 1 .. Len(r) : EntryOK(r, b, j)
        /\ \A t : Live(r, b, t, Len(r) + 1) <=> t \in b
        /\ \A j \in 1 .. Len(r) : \A t \in Tensors : ~Allocates(r[j], t)
        /\ \E j \in 1 .. Len(r) : Marks(r[j])
        /\ \A j \in 1 .. Len(r) : Marks(r[j]) => r[j].id = id
        /\ \A i, j \in 1 .. Len(r) : Marks(r[i]) /\ Marks(r[j]) => i = j
    BY <1>3, <1>7, BatchOK DEF r
  <1>9. /\ IsSequence(c) /\ Len(c) = Len(queue) + Len(r) /\ Len(queue) \in Nat /\ Len(r) \in Nat
        /\ \A j \in 1 .. Len(c) : EntryOK(c, allocated, j)
        /\ \A t : Live(c, allocated, t, Len(c) + 1) <=> Live(r, b, t, Len(r) + 1)
        /\ \A j \in 1 .. Len(queue) : j \in 1 .. Len(c) /\ c[j] = queue[j]
        /\ \A j \in 1 .. Len(c) : j \in 1 .. Len(queue) \/ (j - Len(queue) \in 1 .. Len(r) /\ c[j] = r[j - Len(queue)])
    BY <1>6, <1>8, QueueGrows
  <1>10. \A j \in 1 .. Len(r) : Len(queue) + j \in 1 .. Len(c) /\ c[Len(queue) + j] = r[j]
    <2> SUFFICES ASSUME NEW j \in 1 .. Len(r)
                 PROVE  Len(queue) + j \in 1 .. Len(c) /\ c[Len(queue) + j] = r[j]
      OBVIOUS
    <2>1. /\ Len(queue) + j \in 1 .. Len(c) /\ Len(queue) + j \notin 1 .. Len(queue)
          /\ (Len(queue) + j) - Len(queue) = j
      BY <1>9
    <2> QED
      BY <2>1, <1>9
  <1> HIDE DEF c
  <1>11. /\ f \in Frame /\ f.tensor = T /\ f.i = Top.i /\ f.count = Top.count /\ f.at = "terms"
         /\ f.term = Top.term /\ f.todo = Top.todo
    BY <1>2 DEF Frame, Places, T
  <1> HIDE DEF f
  <1>12. FrameOK(f)
    BY <1>1, <1>2, <1>11 DEF FrameOK, T
  <1>13. TypeOK'
    BY <1>1, <1>9, <1>11, TopStepTypes DEF IInv
  <1>14. UpdatesOK'
    <2>1. \A t \in Tensors : t \in allocated => t \in allocated'
      BY <1>1 DEF allocated
    <2>2. \A x \in DOMAIN Program : Uses(x) \subseteq Tensors
      BY ProgramFacts
    <2> QED
      BY <2>1, <2>2, <1>1, UpdatesKept DEF IInv
  <1>15. StackOK'
    <2>1. f.tensor = Top.tensor
      BY <1>11 DEF T
    <2> QED
      BY <2>1, <1>1, <1>11, <1>12, TopStepStack DEF IInv
  <1>16. /\ stack' # <<>> /\ Len(stack') = Len(stack) /\ DOMAIN stack' = DOMAIN stack
         /\ Top' = f /\ \A m \in DOMAIN stack : m < Len(stack) => stack'[m] = stack[m]
    BY <1>1, <1>11, TopSet DEF IInv, TypeOK
  <1>17. QueueOK'
    <2>1. allocated' = allocated
      BY <1>1 DEF allocated
    <2>2. \A t : AtEnd(t)' <=> AtEnd(t)
      BY <2>1, <1>1, <1>6, <1>8, <1>9 DEF AtEnd
    <2>3. \A j \in 1 .. Len(queue') : EntryOK(queue', allocated', j)
      BY <2>1, <1>1, <1>9
    <2>4. \A t : AtEnd(t)' => t \in Tensors
      BY <2>2 DEF IInv, QueueOK
    <2>5. \A j \in 1 .. Len(queue') : \A t \in Tensors :
            Allocates(queue'[j], t) => t = Top'.tensor \/ (Top'.at = "call" /\ t = Head(Top'.todo))
      <3> SUFFICES ASSUME NEW j \in 1 .. Len(queue'), NEW t \in Tensors, Allocates(queue'[j], t)
                   PROVE  t = Top'.tensor
        OBVIOUS
      <3>1. j \in 1 .. Len(queue) /\ queue'[j] = queue[j]
        BY <1>1, <1>8, <1>9
      <3> QED
        BY <3>1, <1>1, <1>11, <1>16 DEF IInv, QueueOK, T
    <2>6. \A m \in DOMAIN stack' : AtEnd(stack[m].tensor)'
      <3> SUFFICES ASSUME NEW m \in DOMAIN stack' PROVE AtEnd(stack[m].tensor)'
        OBVIOUS
      <3>1. stack'[m].tensor = stack[m].tensor
        <4>1. CASE m < Len(stack)
          BY <4>1, <1>16
        <4>2. CASE m = Len(stack)
          <5>1. stack'[m] = f
            BY <4>2, <1>16 DEF Top
          <5> QED
            BY <5>1, <4>2, <1>2, <1>11 DEF T
        <4> QED
          BY <4>1, <4>2, <1>2, <1>16
      <3>2. AtEnd(stack[m].tensor)
        BY <1>16 DEF IInv, QueueOK
      <3> QED
        BY <3>1, <3>2, <2>2
    <2>7. Top'.at # "call"
      BY <1>11, <1>16
    <2> QED
      BY <2>3, <2>4, <2>5, <2>6, <2>7, <1>16 DEF QueueOK
  <1>18. /\ \A t, m : TermsAt(t, m)' = TermsAt(t, m)
         /\ \A t, m, n : Id(t, m, n)' = Id(t, m, n)
         /\ \A u : HasOps(u)' <=> HasOps(u)
    BY <1>1 DEF TermsAt, Id, HasOps
  <1>19. \A x : InQueue(x)' <=> InQueue(x) \/ x = id
    <2> SUFFICES ASSUME NEW x PROVE InQueue(x)' <=> InQueue(x) \/ x = id
      OBVIOUS
    <2>1. ASSUME NEW j \in 1 .. Len(c), Marks(c[j]), c[j].id = x
          PROVE  InQueue(x) \/ x = id
      <3>1. CASE j \in 1 .. Len(queue)
        BY <3>1, <2>1, <1>9 DEF InQueue
      <3>2. CASE j - Len(queue) \in 1 .. Len(r) /\ c[j] = r[j - Len(queue)]
        BY <3>2, <2>1, <1>8
      <3> QED
        BY <3>1, <3>2, <1>9
    <2>2. ASSUME NEW j \in 1 .. Len(queue), Marks(queue[j]), queue[j].id = x
          PROVE  j \in 1 .. Len(c) /\ Marks(c[j]) /\ c[j].id = x
      BY <2>2, <1>9
    <2>3. \E j \in 1 .. Len(c) : Marks(c[j]) /\ c[j].id = id
      <3>1. PICK j \in 1 .. Len(r) : Marks(r[j])
        BY <1>8
      <3> QED
        BY <3>1, <1>8, <1>10
    <2> QED
      BY <2>1, <2>2, <2>3, <1>1 DEF InQueue
  <1>20. ~Passed(T, k, Top.term)
    <2>1. ~Queued(Top, k, Top.term)
      <3>1. Top.term \in Int
        BY <1>4, <1>3
      <3> QED
        BY <3>1, <1>1, <1>2 DEF Queued, k
    <2> QED
      BY <2>1, <1>1, <1>3, TopPassed DEF T
  <1>21. ASSUME NEW t \in Tensors, NEW m \in DOMAIN updates[t], NEW n \in TermsAt(t, m)
         PROVE  Passed(t, m, n)' <=> Passed(t, m, n) \/ Id(t, m, n) = id
    <2>1. Id(t, m, n) = id <=> t = T /\ m = k /\ n = Top.term
      BY <1>2, <1>3, <1>4, SameId
    <2>2. CASE t # T
      <3>1. Passed(t, m, n)' <=> Passed(t, m, n)
        BY <2>2, <1>1, <1>11, TopStepPassed DEF IInv, T
      <3> QED
        BY <3>1, <2>1, <2>2
    <2>3. CASE t = T
      <3>1. n \in Nat /\ Top.term \in Nat /\ m \in Nat
        <4>1. Top.term \in Nat
          BY <1>3, <1>4
        <4> QED
          BY <4>1, UpdateFacts DEF IInv
      <3>2. Queued(f, m, n) <=> Queued(Top, m, n) \/ (m = k /\ n = Top.term)
        BY <3>1, <1>1, <1>2, <1>11 DEF Queued, k
      <3>3. Passed(T, m, n) <=> Queued(Top, m, n)
        BY <2>3, <1>1, TopPassed DEF T
      <3>4. Queued(f, m, n) => Passed(t, m, n)'
        <4>1. Len(stack) \in DOMAIN stack' /\ stack'[Len(stack)] = f
          BY <1>2, <1>16 DEF Top
        <4> QED
          BY <4>1, <1>11, <2>3 DEF Passed
      <3>5. Passed(t, m, n)' => Queued(f, m, n)
        <4> SUFFICES ASSUME Passed(t, m, n)' PROVE Queued(f, m, n)
          OBVIOUS
        <4>1. CASE m <= version'[t]
          <5>1. Passed(t, m, n)
            BY <4>1, <1>1 DEF Passed
          <5> QED
            BY <5>1, <3>2, <3>3, <2>3
        <4>2. ASSUME NEW o \in DOMAIN stack', stack'[o].tensor = t, Queued(stack'[o], m, n)
              PROVE  Queued(f, m, n)
          <5>1. CASE o = Len(stack)
            BY <5>1, <4>2, <1>16 DEF Top
          <5>2. CASE o < Len(stack)
            <6>1. Passed(t, m, n)
              BY <5>2, <4>2, <1>16 DEF Passed
            <6> QED
              BY <6>1, <3>2, <3>3, <2>3
          <5> QED
            BY <5>1, <5>2, <1>2, <1>16
        <4> QED
          BY <4>1, <4>2 DEF Passed
      <3> QED
        BY <3>2, <3>3, <3>4, <3>5, <2>1, <2>3
    <2> QED
      BY <2>2, <2>3
  <1>22. ASSUME NEW t \in Tensors, NEW m \in DOMAIN updates'[t], NEW n \in TermsAt(t, m)'
         PROVE  (Passed(t, m, n) <=> Id(t, m, n) \in ToSet(log) \/ InQueue(Id(t, m, n)))'
    <2>1. m \in DOMAIN updates[t] /\ n \in TermsAt(t, m)
      BY <1>1, <1>18
    <2>2. Passed(t, m, n) <=> Id(t, m, n) \in ToSet(log) \/ InQueue(Id(t, m, n))
      BY <2>1 DEF IInv, LogOK
    <2> QED
      BY <2>1, <2>2, <1>1, <1>18, <1>19, <1>21
  <1>23. id \notin ToSet(log)
    <2>1. Passed(T, k, Top.term) <=> Id(T, k, Top.term) \in ToSet(log) \/ InQueue(Id(T, k, Top.term))
      BY <1>2, <1>3, <1>4 DEF IInv, LogOK
    <2> QED
      BY <2>1, <1>4, <1>20
  <1>24. ASSUME NEW j \in 1 .. Len(queue'), Marks(queue'[j])
         PROVE  /\ queue'[j].id \notin ToSet(log')
                /\ \E m \in DOMAIN updates'[Top'.tensor] : \E n \in TermsAt(Top.tensor, m)' :
                    /\ queue'[j].id = Id(Top.tensor, m, n)'
                    /\ \A u \in Uses(updates'[Top'.tensor][m].stmt) : ~HasOps(u)'
    <2>1. Top'.tensor = T /\ Top.tensor = T
      BY <1>11, <1>16 DEF T
    <2>2. CASE j \in 1 .. Len(queue)
      <3>1. queue'[j] = queue[j] /\ Marks(queue[j])
        BY <2>2, <1>1, <1>9, <1>24
      <3>2. /\ queue[j].id \notin ToSet(log)
            /\ \E m \in DOMAIN updates[T] : \E n \in TermsAt(T, m) :
                 /\ queue[j].id = Id(T, m, n)
                 /\ \A u \in Uses(updates[T][m].stmt) : ~HasOps(u)
        BY <2>1, <2>2, <3>1 DEF IInv, LogOK
      <3>3. PICK m \in DOMAIN updates[T] : \E n \in TermsAt(T, m) :
                 /\ queue[j].id = Id(T, m, n)
                 /\ \A u \in Uses(updates[T][m].stmt) : ~HasOps(u)
        BY <3>2
      <3>4. PICK n \in TermsAt(T, m) :
                 /\ queue[j].id = Id(T, m, n)
                 /\ \A u \in Uses(updates[T][m].stmt) : ~HasOps(u)
        BY <3>3
      <3>5. /\ m \in DOMAIN updates'[Top'.tensor] /\ n \in TermsAt(Top.tensor, m)'
            /\ queue'[j].id = Id(Top.tensor, m, n)' /\ queue'[j].id \notin ToSet(log')
        BY <3>1, <3>2, <3>4, <2>1, <1>1, <1>18
      <3>6. \A u \in Uses(updates'[Top'.tensor][m].stmt) : ~HasOps(u)'
        BY <3>4, <2>1, <1>1, <1>18
      <3> QED
        BY <3>5, <3>6
    <2>3. CASE j - Len(queue) \in 1 .. Len(r) /\ queue'[j] = r[j - Len(queue)]
      <3>1. queue'[j].id = id
        BY <2>3, <1>8, <1>24
      <3>2. PICK m \in DOMAIN updates[T] : m = k
        BY <1>3
      <3>3. PICK o \in TermsAt(T, m) : o = Top.term
        BY <3>2, <1>4
      <3>4. /\ m \in DOMAIN updates'[Top'.tensor] /\ o \in TermsAt(Top.tensor, m)'
            /\ queue'[j].id = Id(Top.tensor, m, o)' /\ queue'[j].id \notin ToSet(log')
        BY <3>1, <3>2, <3>3, <2>1, <1>1, <1>4, <1>18, <1>23
      <3>5. \A u \in Uses(updates'[Top'.tensor][m].stmt) : ~HasOps(u)'
        BY <3>2, <2>1, <1>1, <1>5, <1>18 DEF Ready, s
      <3> QED
        BY <3>4, <3>5
    <2> QED
      BY <2>2, <2>3, <1>1, <1>9
  <1>25. ASSUME NEW i \in 1 .. Len(queue'), NEW j \in 1 .. Len(queue'), i < j,
                Marks(queue'[i]), Marks(queue'[j])
         PROVE  Lazy!Precedes(queue'[i].id, queue'[j].id)
    <2>1. CASE j \in 1 .. Len(queue)
      <3>1. i \in 1 .. Len(queue) /\ queue'[i] = queue[i] /\ queue'[j] = queue[j]
        BY <2>1, <1>1, <1>9, <1>25
      <3> QED
        BY <2>1, <3>1, <1>25 DEF IInv, LogOK
    <2>2. CASE j - Len(queue) \in 1 .. Len(r) /\ c[j] = r[j - Len(queue)]
      <3>1. queue'[j].id = id
        BY <2>2, <1>1, <1>8, <1>25
      <3>2. CASE i \in 1 .. Len(queue)
        <4>1. queue'[i] = queue[i] /\ Marks(queue[i])
          BY <3>2, <1>1, <1>9, <1>25
        <4>2. \E m \in DOMAIN updates[T] : \E n \in TermsAt(T, m) : queue[i].id = Id(T, m, n)
          BY <3>2, <4>1 DEF IInv, LogOK, T
        <4>3. PICK m \in DOMAIN updates[T] : \E n \in TermsAt(T, m) : queue[i].id = Id(T, m, n)
          BY <4>2
        <4>4. PICK n \in TermsAt(T, m) : queue[i].id = Id(T, m, n)
          BY <4>3
        <4>5. InQueue(Id(T, m, n))
          BY <3>2, <4>1, <4>4 DEF InQueue
        <4>6. Passed(T, m, n)
          BY <4>5, <1>2 DEF IInv, LogOK
        <4>7. Queued(Top, m, n)
          BY <4>6, <1>1, TopPassed DEF T
        <4>8. m <= Top.i \/ (m = k /\ n < Top.term)
          BY <4>7, <1>1 DEF Queued, k
        <4>9. m < k \/ (m = k /\ n < Top.term)
          <5>1. m \in Nat
            BY <1>2, UpdateFacts DEF IInv
          <5> QED
            BY <4>8, <5>1, <1>2 DEF k
        <4>10. m < k => updates[T][m].id < updates[T][k].id
          BY <1>2, <1>3 DEF IInv, UpdatesOK
        <4>11. Lazy!Precedes(Id(T, m, n), Id(T, k, Top.term))
          BY <4>9, <4>10 DEF Lazy!Precedes, Id
        <4> QED
          BY <3>1, <4>1, <4>4, <4>11, <1>4
      <3>3. CASE i - Len(queue) \in 1 .. Len(r) /\ c[i] = r[i - Len(queue)]
        <4>1. i - Len(queue) = j - Len(queue)
          BY <2>2, <3>3, <1>1, <1>8, <1>25
        <4> QED
          BY <4>1, <1>9, <1>25
      <3> QED
        BY <3>2, <3>3, <1>1, <1>9
    <2> QED
      BY <2>1, <2>2, <1>1, <1>9
  <1>26. LogOK'
    BY <1>22, <1>24, <1>25, Zenon DEF LogOK
  <1> QED
    BY <1>13, <1>14, <1>15, <1>17, <1>26 DEF IInv

-----------------------------------------------------------------------------
(* Calls, and steps of the program: nothing is waiting to be executed      *)

LEMMA NothingQueued ==
  ASSUME queue = <<>>
  PROVE  /\ Len(queue) = 0 /\ 1 .. Len(queue) = {} /\ \A x : ~InQueue(x)
         /\ \A t : AtEnd(t) <=> t \in allocated
  <1>1. Len(queue) = 0 /\ 1 .. Len(queue) = {} /\ 1 .. (Len(queue) + 1) - 1 = {}
    BY None
  <1> QED
    BY <1>1 DEF InQueue, AtEnd, Live

LEMMA NothingQueuedNext ==
  ASSUME queue' = <<>>
  PROVE  /\ 1 .. Len(queue') = {} /\ \A x : ~InQueue(x)'
         /\ \A t : AtEnd(t)' <=> t \in allocated'
  <1>1. Len(queue') = 0 /\ 1 .. Len(queue') = {} /\ 1 .. (Len(queue') + 1) - 1 = {}
    BY None
  <1> QED
    BY <1>1 DEF InQueue, AtEnd, Live

LEMMA LogKeptWithoutOps ==
  ASSUME LogOK, log' = log,
         \A j \in 1 .. Len(queue) : ~Marks(queue[j]),
         \A j \in 1 .. Len(queue') : ~Marks(queue'[j]),
         \A t \in Tensors : \A k \in DOMAIN updates'[t] : \A n \in TermsAt(t, k)' :
           \/ /\ k \in DOMAIN updates[t] /\ n \in TermsAt(t, k) /\ Id(t, k, n)' = Id(t, k, n)
              /\ Passed(t, k, n)' <=> Passed(t, k, n)
           \/ ~Passed(t, k, n)' /\ Id(t, k, n)' \notin ToSet(log)
  PROVE  LogOK'
  <1>1. \A x : ~InQueue(x) /\ ~InQueue(x)'
    BY DEF InQueue
  <1>2. ASSUME NEW t \in Tensors, NEW k \in DOMAIN updates'[t], NEW n \in TermsAt(t, k)'
        PROVE  (Passed(t, k, n) <=> Id(t, k, n) \in ToSet(log) \/ InQueue(Id(t, k, n)))'
    <2>1. CASE /\ k \in DOMAIN updates[t] /\ n \in TermsAt(t, k) /\ Id(t, k, n)' = Id(t, k, n)
               /\ Passed(t, k, n)' <=> Passed(t, k, n)
      <3>1. Passed(t, k, n) <=> Id(t, k, n) \in ToSet(log) \/ InQueue(Id(t, k, n))
        BY <2>1 DEF LogOK
      <3> QED
        BY <3>1, <2>1, <1>1
    <2>2. CASE ~Passed(t, k, n)' /\ Id(t, k, n)' \notin ToSet(log)
      BY <2>2, <1>1
    <2> QED
      BY <2>1, <2>2
  <1> QED
    BY <1>2, Zenon DEF LogOK

\* The frame of a new call.
LEMMA NewFrame ==
  ASSUME TypeOK, UpdatesOK, NEW u \in Tensors, NEW use_opmin \in BOOLEAN
  PROVE  LET h == FrameOf(u, use_opmin)
         IN  /\ h \in Frame /\ h.tensor = u /\ h.at = "updates" /\ h.i = version[u] /\ FrameOK(h)
             /\ \A k, n : Queued(h, k, n) <=> k <= version[u]
  <1> DEFINE h == FrameOf(u, use_opmin)
  <1>1. version[u] \in Nat /\ version[u] <= Len(updates[u])
    BY UpdateFacts
  <1>2. <<>> \in Seq(Tensors) /\ "updates" \in Places /\ 0 \in Nat
    BY DEF Places
  <1>3. h \in Frame
    BY <1>1, <1>2 DEF FrameOf, Frame
  <1>4. h.tensor = u /\ h.at = "updates" /\ h.i = version[u] /\ h.count = 0
    BY DEF FrameOf
  <1> HIDE DEF h
  <1>5. FrameOK(h)
    BY <1>1, <1>4 DEF FrameOK
  <1>6. \A k, n : Queued(h, k, n) <=> k <= version[u]
    BY <1>4 DEF Queued
  <1> QED
    BY <1>3, <1>4, <1>5, <1>6 DEF h

LEMMA TensorsAreNumbers == Tensors \subseteq Nat
  <1>1. Len(Shapes) \in Nat
    BY OpExecutorAssumption, SequenceFacts
  <1> QED
    BY <1>1 DEF Tensors

LEMMA CallStep == IInv /\ Call => IInv'
  <1> SUFFICES ASSUME IInv, Call PROVE IInv'
    OBVIOUS
  <1> DEFINE u == Head(Top.todo)
             g == [Top EXCEPT !.at = "inputs", !.todo = Tail(Top.todo)]
             h == FrameOf(u, Top.use_opmin)
             L == Len(stack)
  <1>1. /\ stack # <<>> /\ Top.at = "call" /\ queue = <<>>
        /\ stack' = Append([stack EXCEPT ![L] = g], h) /\ queue' = queue \o AllocationOf(u)
        /\ UNCHANGED <<updates, version, contents, noted, calls, log>>
    BY DEF Call
  <1>2. /\ Top \in Frame /\ FrameOK(Top) /\ Top.i < Len(updates[Top.tensor]) /\ Top.todo \in Seq(Tensors)
        /\ Top.tensor \in Tensors /\ Statement = StatementOf(Top) /\ Top.todo # <<>>
        /\ ToSet(Top.todo) \subseteq ToSet(Statement.inputs) /\ InputsOK(L) /\ Top = stack[L]
        /\ L \in Nat \ {0} /\ DOMAIN stack = 1 .. L /\ Top.use_opmin \in BOOLEAN
        /\ Top.term \in DOMAIN Statement.terms
    BY <1>1, LastCall DEF FrameOK
  <1>3. /\ Tail(Top.todo) \in Seq(Tensors) /\ u \in ToSet(Top.todo) /\ u \in Tensors
        /\ ToSet(Top.todo) = {u} \cup ToSet(Tail(Top.todo))
    BY <1>2, Rest
  <1>4. u < Top.tensor
    BY <1>1, <1>2, <1>3, LastStatement
  <1>5. u \in allocated
    <2>1. AtEnd(u)
      BY <1>1 DEF IInv, QueueOK
    <2> QED
      BY <2>1, <1>1, NothingQueued
  <1>6. queue' = <<>>
    <2>1. AllocationOf(u) = <<>>
      BY <1>5 DEF AllocationOf
    <2> QED
      BY <2>1, <1>1
  <1>7. /\ g \in Frame /\ g.tensor = Top.tensor /\ g.i = Top.i /\ g.count = Top.count /\ g.at = "inputs"
        /\ g.term = Top.term /\ g.todo = Tail(Top.todo)
    BY <1>2, <1>3 DEF Frame, Places
  <1> HIDE DEF g, u
  <1>8. /\ h \in Frame /\ h.tensor = u /\ h.at = "updates" /\ h.i = version[u] /\ FrameOK(h)
        /\ \A k, n : Queued(h, k, n) <=> k <= version[u]
    BY <1>2, <1>3, NewFrame DEF IInv
  <1> HIDE DEF h
  <1>9. /\ stack' \in Seq(Frame) /\ Len(stack') = L + 1 /\ DOMAIN stack' = 1 .. L + 1
        /\ \A m \in 1 .. L - 1 : stack'[m] = stack[m]
        /\ stack'[L] = g /\ stack'[L + 1] = h /\ stack' # <<>>
    <2> DEFINE S == [stack EXCEPT ![L] = g]
    <2>1. /\ S \in Seq(Frame) /\ Len(S) = L /\ S[L] = g /\ \A m \in 1 .. L - 1 : S[m] = stack[m]
      BY <1>2, <1>7 DEF IInv, TypeOK
    <2> HIDE DEF S, L
    <2>2. /\ Append(S, h) \in Seq(Frame) /\ Len(Append(S, h)) = L + 1 /\ Append(S, h)[L + 1] = h
          /\ \A m \in 1 .. L : Append(S, h)[m] = S[m]
      BY <2>1, <1>8
    <2>3. stack' = Append(S, h)
      BY <1>1 DEF S, L
    <2>4. L \in 1 .. L /\ \A m \in 1 .. L - 1 : m \in 1 .. L
      BY <1>2 DEF L
    <2>5. DOMAIN stack' = 1 .. L + 1 /\ stack' # <<>>
      <3>1. \A q \in Seq(Frame) : DOMAIN q = 1 .. Len(q) /\ (q = <<>> => Len(q) = 0)
        OBVIOUS
      <3> QED
        BY <3>1, <2>2, <2>3, <1>2 DEF L
    <2> QED
      BY <2>1, <2>2, <2>3, <2>4, <2>5 DEF L
  <1> HIDE DEF L
  <1>10. Top' = h
    BY <1>9 DEF Top
  <1>11. /\ \A m \in 1 .. L : stack'[m].tensor = stack[m].tensor
         /\ \A m \in 1 .. L + 1 : m \in 1 .. L - 1 \/ m = L \/ m = L + 1
    <2>1. \A m \in 1 .. L + 1 : m \in 1 .. L - 1 \/ m = L \/ m = L + 1
      BY <1>2
    <2>2. \A m \in 1 .. L : m \in 1 .. L - 1 \/ m = L
      BY <1>2
    <2> QED
      BY <2>1, <2>2, <1>2, <1>7, <1>9
  <1>12. TypeOK'
    <2>1. IsSequence(queue')
      BY <1>6, None
    <2> QED
      BY <2>1, <1>1, <1>9 DEF IInv, TypeOK
  <1>13. allocated' = allocated
    BY <1>1 DEF allocated
  <1>14. UpdatesOK'
    <2>1. \A s \in DOMAIN Program : Uses(s) \subseteq Tensors
      BY ProgramFacts
    <2> QED
      BY <2>1, <1>1, <1>13, UpdatesKept DEF IInv
  <1>15. StackOK'
    <2>1. \A x : /\ FrameOK(x)' <=> FrameOK(x)
                 /\ StatementOf(x)' = StatementOf(x)
                 /\ Ready(x)' <=> Ready(x)
      BY <1>1, <1>13 DEF FrameOK, StatementOf, Ready, HasOps
    <2>2. ASSUME NEW m \in 1 .. L - 1
          PROVE  FrameOK(stack[m])' /\ InputsOK(m)' /\ stack'[m].at = "inputs"
      <3>1. m \in DOMAIN stack /\ m < L /\ m + 1 \in 1 .. L /\ m < L + 1
        BY <1>2
      <3>2. FrameOK(stack[m]) /\ InputsOK(m) /\ stack[m].at = "inputs" /\ stack'[m] = stack[m]
        BY <3>1, <1>9 DEF IInv, StackOK, L
      <3>3. stack'[m + 1].tensor = stack[m + 1].tensor
        BY <3>1, <1>11
      <3>4. InputsOK(m)'
        BY <3>1, <3>2, <3>3, <2>1, <1>9 DEF InputsOK
      <3> QED
        BY <3>2, <3>4, <2>1
    <2>3. StatementOf(g) = Statement
      BY <1>2, <1>7 DEF StatementOf
    <2>4. ASSUME NEW m, m = L
          PROVE  FrameOK(stack[m])' /\ InputsOK(m)' /\ stack'[m].at = "inputs"
      <3>1. FrameOK(g)
        BY <2>3, <1>2, <1>3, <1>7 DEF FrameOK
      <3>2. \A v \in ToSet(Statement.inputs) : v \in ToSet(Top.todo) \/ Ready(v)
        BY <1>1, <1>2 DEF InputsOK, L
      <3>3. \A v \in ToSet(Statement.inputs) : v \in ToSet(g.todo) \/ Ready(v) \/ v = stack'[m + 1].tensor
        BY <3>2, <2>4, <1>3, <1>7, <1>8, <1>9
      <3>4. m < Len(stack') /\ stack'[m] = g
        BY <2>4, <1>2, <1>9
      <3>5. StatementOf(stack[m])' = Statement
        BY <3>4, <2>3, <1>1 DEF StatementOf
      <3>6. InputsOK(m)'
        BY <3>3, <3>4, <3>5, <2>1 DEF InputsOK
      <3>7. FrameOK(stack[m])'
        BY <3>1, <3>4, <1>1 DEF FrameOK, StatementOf
      <3> QED
        BY <3>4, <3>6, <3>7, <1>7
    <2>5. ASSUME NEW m, m = L + 1
          PROVE  FrameOK(stack[m])' /\ InputsOK(m)'
      <3>1. stack'[m] = h /\ stack'[m].at = "updates"
        BY <2>5, <1>8, <1>9
      <3>2. FrameOK(stack[m])'
        BY <3>1, <1>1, <1>8 DEF FrameOK, StatementOf
      <3> QED
        BY <3>1, <3>2 DEF InputsOK
    <2>6. ASSUME NEW m \in DOMAIN stack'
          PROVE  FrameOK(stack[m])' /\ InputsOK(m)' /\ (m < Len(stack') => stack'[m].at = "inputs")
      <3>1. CASE m \in 1 .. L - 1
        BY <3>1, <2>2
      <3>2. CASE m = L
        BY <3>2, <2>4
      <3>3. CASE m = L + 1
        BY <3>3, <2>5, <1>2, <1>9
      <3> QED
        BY <3>1, <3>2, <3>3, <1>9, <1>11
    <2>7. ASSUME NEW m \in DOMAIN stack', NEW n \in DOMAIN stack', m < n
          PROVE  stack'[n].tensor < stack'[m].tensor
      <3>1. m \in 1 .. L
        BY <2>7, <1>2, <1>9
      <3>2. CASE n \in 1 .. L
        BY <3>1, <3>2, <2>7, <1>2, <1>11 DEF IInv, StackOK
      <3>3. CASE n = L + 1
        <4>1. stack'[n].tensor = u
          BY <3>3, <1>8, <1>9
        <4>2. stack'[m].tensor = stack[m].tensor /\ (m = L \/ m < L)
          BY <3>1, <1>2, <1>11
        <4>3. m < L => Top.tensor < stack[m].tensor
          BY <3>1, <1>2 DEF IInv, StackOK
        <4>4. stack[m].tensor \in Int /\ Top.tensor \in Int /\ u \in Int
          <5>1. stack[m] \in Frame
            BY <3>1, <1>2 DEF IInv, TypeOK
          <5>2. stack[m].tensor \in Tensors
            BY <5>1 DEF Frame
          <5>3. \A x \in Tensors : x \in Int
            BY TensorsAreNumbers
          <5> QED
            BY <5>2, <5>3, <1>2, <1>3
        <4> QED
          BY <4>1, <4>2, <4>3, <4>4, <1>2, <1>4
      <3> QED
        BY <3>2, <3>3, <1>2, <1>9
    <2> QED
      BY <2>6, <2>7 DEF StackOK
  <1>16. QueueOK'
    <2>1. 1 .. Len(queue') = {} /\ \A t : AtEnd(t)' <=> AtEnd(t)
      BY <1>1, <1>6, <1>13, NothingQueued, NothingQueuedNext
    <2>2. ASSUME NEW m \in DOMAIN stack' PROVE AtEnd(stack[m].tensor)'
      <3>1. CASE m \in 1 .. L
        <4>1. AtEnd(stack[m].tensor) /\ stack'[m].tensor = stack[m].tensor
          BY <3>1, <1>2, <1>11 DEF IInv, QueueOK
        <4> QED
          BY <4>1, <2>1
      <3>2. CASE m = L + 1
        <4>1. AtEnd(u) /\ stack'[m].tensor = u
          BY <3>2, <1>1, <1>5, <1>8, <1>9, NothingQueued
        <4> QED
          BY <4>1, <2>1
      <3> QED
        BY <3>1, <3>2, <1>2, <1>9
    <2>3. \A t : AtEnd(t)' => t \in Tensors
      BY <2>1 DEF IInv, QueueOK
    <2>4. Top'.at # "call"
      BY <1>8, <1>10
    <2> QED
      BY <2>1, <2>2, <2>3, <2>4, <1>9 DEF QueueOK
  <1>17. LogOK'
    <2>1. ASSUME NEW t \in Tensors, NEW k, NEW n
          PROVE  Passed(t, k, n)' <=> Passed(t, k, n)
      <3>1. \A x : Queued(g, k, n) <=> Queued(Top, k, n)
        BY <1>1, <1>7 DEF Queued
      <3>2. ASSUME NEW m \in 1 .. L
            PROVE  stack'[m].tensor = stack[m].tensor /\ (Queued(stack'[m], k, n) <=> Queued(stack[m], k, n))
        <4>1. m \in 1 .. L - 1 \/ m = L
          BY <1>2
        <4> QED
          BY <4>1, <3>1, <1>2, <1>9, <1>11
      <3>3. 1 .. L + 1 = 1 .. L \cup {L + 1}
        BY <1>2
      <3> QED
        BY <3>2, <3>3, <1>1, <1>2, <1>8, <1>9 DEF Passed
    <2>2. \A t, k, n : TermsAt(t, k)' = TermsAt(t, k) /\ Id(t, k, n)' = Id(t, k, n)
      BY <1>1 DEF TermsAt, Id
    <2>3. 1 .. Len(queue) = {} /\ 1 .. Len(queue') = {}
      BY <1>1, <1>6, NothingQueued, NothingQueuedNext
    <2> QED
      BY <2>1, <2>2, <2>3, <1>1, LogKeptWithoutOps DEF IInv
  <1> QED
    BY <1>12, <1>14, <1>15, <1>16, <1>17 DEF IInv

LEMMA ReturnStep == IInv /\ Return => IInv'
  <1> SUFFICES ASSUME IInv, Return PROVE IInv'
    OBVIOUS
  <1> DEFINE T == Top.tensor
             L == Len(stack)
             all == Len(updates[T])
  <1>1. /\ stack # <<>> /\ Top.at = "end" /\ queue = <<>> /\ queue' = <<>>
        /\ version' = [version EXCEPT ![T] = version[T] + Top.count] /\ stack' = SubSeq(stack, 1, L - 1)
        /\ UNCHANGED <<updates, contents, noted, calls, log>>
    BY DEF Return
  <1>2. /\ Top \in Frame /\ FrameOK(Top) /\ T \in Tensors /\ Top = stack[L] /\ Top.i = all /\ Top.count \in Nat
        /\ L \in Nat \ {0} /\ DOMAIN stack = 1 .. L /\ all \in Nat /\ version[T] \in Nat
        /\ Top.i = version[T] + Top.count
        /\ DOMAIN updates[T] = 1 .. all
    BY <1>1, LastCall DEF FrameOK
  <1>3. version' = [version EXCEPT ![T] = all]
    BY <1>1, <1>2
  <1> HIDE DEF T, L, all
  <1>4. /\ stack' \in Seq(Frame) /\ Len(stack') = L - 1 /\ DOMAIN stack' = 1 .. L - 1
        /\ \A m \in 1 .. L - 1 : stack'[m] = stack[m]
    <2>1. stack \in Seq(Frame) /\ L = Len(stack) /\ L - 1 \in Nat /\ L - 1 <= Len(stack)
      BY <1>2 DEF IInv, TypeOK, L
    <2>2. /\ SubSeq(stack, 1, L - 1) \in Seq(Frame) /\ Len(SubSeq(stack, 1, L - 1)) = L - 1
          /\ \A m \in 1 .. L - 1 : SubSeq(stack, 1, L - 1)[m] = stack[m]
      BY <2>1
    <2>3. \A q \in Seq(Frame) : DOMAIN q = 1 .. Len(q)
      OBVIOUS
    <2> QED
      BY <2>2, <2>3, <1>1
  <1>5. version' \in [Tensors -> Nat] /\ version'[T] = all
        /\ \A t \in Tensors : t # T => version'[t] = version[t]
    BY <1>2, <1>3 DEF IInv, TypeOK
  <1>6. \A m \in 1 .. L - 1 : m \in DOMAIN stack /\ m < L /\ m + 1 \in 1 .. L /\ stack[m].tensor # T /\ stack[m].tensor \in Tensors
    <2> SUFFICES ASSUME NEW m \in 1 .. L - 1
                 PROVE m \in DOMAIN stack /\ m < L /\ m + 1 \in 1 .. L /\ stack[m].tensor # T /\ stack[m].tensor \in Tensors
      OBVIOUS
    <2>1. m \in DOMAIN stack /\ m < L /\ m + 1 \in 1 .. L /\ L \in DOMAIN stack
      BY <1>2
    <2>2. T < stack[m].tensor
      BY <2>1, <1>2 DEF IInv, StackOK, T
    <2>3. stack[m] \in Frame
      BY <2>1, <1>2 DEF IInv, TypeOK
    <2>4. stack[m].tensor \in Tensors
      BY <2>3 DEF Frame
    <2>5. \A x \in Tensors : x \in Int
      BY TensorsAreNumbers
    <2> QED
      BY <2>1, <2>2, <2>4, <2>5, <1>2
  <1>7. T \in allocated /\ allocated' = allocated
    <2>1. AtEnd(T)
      BY <1>2 DEF IInv, QueueOK, T
    <2> QED
      BY <2>1, <1>1, NothingQueued DEF allocated
  <1>8. TypeOK'
    <2>1. IsSequence(queue')
      BY <1>1, None
    <2>2. ASSUME NEW t \in Tensors PROVE version'[t] <= Len(updates[t])
      <3>1. version[t] <= Len(updates[t])
        BY DEF IInv, TypeOK
      <3>2. t = T => version'[t] = all /\ Len(updates[t]) = all
        BY <1>5 DEF all
      <3>3. all <= all
        BY <1>2
      <3> QED
        BY <3>1, <3>2, <3>3, <1>5
    <2> QED
      BY <2>1, <2>2, <1>1, <1>4, <1>5 DEF IInv, TypeOK
  <1>9. UpdatesOK'
    <2>1. \A u : HasValue(u)' <=> HasValue(u)
      BY <1>1, <1>7 DEF HasValue
    <2>2. \A t \in Tensors : version'[t] > 0 => t \in allocated
      BY <1>5, <1>7 DEF IInv, UpdatesOK
    <2> QED
      BY <2>1, <2>2, <1>1, <1>7 DEF IInv, UpdatesOK
  <1>10. \A u \in Tensors : Ready(u) => Ready(u)'
    <2> SUFFICES ASSUME NEW u \in Tensors, Ready(u) PROVE Ready(u)'
      OBVIOUS
    <2>1. CASE u = T
      <3>1. Len(updates[u]) - version'[u] = 0
        BY <2>1, <1>2, <1>5 DEF all
      <3> QED
        BY <3>1, <2>1, <1>1, <1>7 DEF Ready, HasOps
    <2>2. CASE u # T
      BY <2>2, <1>1, <1>5, <1>7 DEF Ready, HasOps
    <2> QED
      BY <2>1, <2>2
  <1>11. ASSUME NEW u, u = T PROVE Ready(u)'
    <2>1. Len(updates[u]) - version'[u] = 0
      BY <1>11, <1>2, <1>5 DEF all
    <2> QED
      BY <2>1, <1>1, <1>7, <1>11 DEF Ready, HasOps
  <1>12. StackOK'
    <2>1. ASSUME NEW m \in DOMAIN stack'
          PROVE  FrameOK(stack[m])' /\ InputsOK(m)' /\ (m < Len(stack') => stack'[m].at = "inputs")
      <3>1. /\ m \in 1 .. L - 1 /\ m \in DOMAIN stack /\ m < L /\ m + 1 \in 1 .. L /\ stack'[m] = stack[m]
            /\ stack[m].tensor # T /\ stack[m].tensor \in Tensors
        BY <1>4, <1>6
      <3>2. FrameOK(stack[m]) /\ InputsOK(m) /\ stack[m].at = "inputs"
        BY <3>1 DEF IInv, StackOK, L
      <3>3. FrameOK(stack[m])'
        BY <3>1, <3>2, <1>1, <1>5 DEF FrameOK, StatementOf
      <3>4. StatementOf(stack[m])' = StatementOf(stack[m])
        BY <3>1, <1>1 DEF StatementOf
      <3>5. ToSet(StatementOf(stack[m]).inputs) \subseteq Tensors
        <4>1. stack[m].i \in Nat /\ stack[m].i < Len(updates[stack[m].tensor])
          <5>1. stack[m] \in Frame
            BY <3>1, <1>2 DEF IInv, TypeOK
          <5> QED
            BY <5>1, <3>2 DEF Frame, FrameOK
        <4>2. stack[m].i + 1 \in DOMAIN updates[stack[m].tensor]
          BY <4>1, <3>1, UpdateFacts DEF IInv
        <4>3. updates[stack[m].tensor][stack[m].i + 1].stmt \in DOMAIN Program
          BY <4>2, <3>1, UpdateFacts DEF IInv
        <4> QED
          BY <4>3, ProgramFacts DEF StatementOf
      <3>6. ASSUME NEW u \in ToSet(StatementOf(stack[m]).inputs)
            PROVE  u \in ToSet(stack[m].todo) \/ Ready(u)' \/ (m < Len(stack') /\ u = stack'[m + 1].tensor)
        <4>1. CASE u \in ToSet(stack[m].todo)
          BY <4>1
        <4>2. CASE Ready(u)
          BY <4>2, <3>5, <3>6, <1>10
        <4>3. CASE m < L /\ u = stack[m + 1].tensor
          <5>1. CASE m + 1 = L
            BY <5>1, <4>3, <1>2, <1>11 DEF T
          <5>2. CASE m + 1 # L
            <6>1. m + 1 \in 1 .. L - 1 /\ m < L - 1
              BY <5>2, <3>1, <1>2
            <6> QED
              BY <6>1, <4>3, <1>4
          <5> QED
            BY <5>1, <5>2
        <4> QED
          BY <4>1, <4>2, <4>3, <3>2 DEF InputsOK, L
      <3>7. InputsOK(m)'
        BY <3>1, <3>4, <3>6 DEF InputsOK
      <3> QED
        BY <3>1, <3>2, <3>3, <3>7
    <2>2. ASSUME NEW m \in DOMAIN stack', NEW n \in DOMAIN stack', m < n
          PROVE  stack'[n].tensor < stack'[m].tensor
      BY <2>2, <1>4, <1>6 DEF IInv, StackOK
    <2> QED
      BY <2>1, <2>2 DEF StackOK
  <1>13. QueueOK'
    <2>1. 1 .. Len(queue') = {} /\ \A t : AtEnd(t)' <=> AtEnd(t)
      BY <1>1, <1>7, NothingQueued, NothingQueuedNext
    <2>2. ASSUME NEW m \in DOMAIN stack' PROVE AtEnd(stack[m].tensor)'
      <3>1. AtEnd(stack[m].tensor) /\ stack'[m] = stack[m]
        BY <1>4, <1>6 DEF IInv, QueueOK
      <3> QED
        BY <3>1, <2>1
    <2>3. \A t : AtEnd(t)' => t \in Tensors
      BY <2>1 DEF IInv, QueueOK
    <2>4. ASSUME stack' # <<>> PROVE Top'.at # "call"
      <3>1. L - 1 \in 1 .. L - 1
        <4>1. L - 1 # 0
          <5>1. \A q \in Seq(Frame) : Len(q) = 0 => q = <<>>
            OBVIOUS
          <5> QED
            BY <5>1, <1>4, <2>4
        <4> QED
          BY <4>1, <1>2
      <3>2. Top' = stack[L - 1]
        BY <3>1, <1>4 DEF Top
      <3>3. stack[L - 1].at = "inputs"
        BY <3>1, <1>6 DEF IInv, StackOK, L
      <3> QED
        BY <3>2, <3>3
    <2> QED
      BY <2>1, <2>2, <2>3, <2>4, <1>1 DEF QueueOK
  <1>14. LogOK'
    <2>1. ASSUME NEW t \in Tensors, NEW k \in DOMAIN updates[t], NEW n
          PROVE  Passed(t, k, n)' <=> Passed(t, k, n)
      <3>1. CASE t = T
        <4>1. k <= all /\ k \in Nat
          <5>1. k \in 1 .. all
            BY <3>1, <1>2
          <5> QED
            BY <5>1, <1>2
        <4>2. Passed(t, k, n)'
          BY <3>1, <4>1, <1>5 DEF Passed
        <4>3. Queued(Top, k, n)
          BY <4>1, <1>2 DEF Queued
        <4>4. Passed(T, k, n) <=> Queued(Top, k, n)
          BY <3>1, <1>1, TopPassed DEF T
        <4> QED
          BY <4>2, <4>3, <4>4, <3>1
      <3>2. CASE t # T
        <4>1. \A m \in 1 .. L : m \in 1 .. L - 1 \/ stack[m].tensor = T
          BY <1>2 DEF T
        <4>2. version'[t] = version[t]
          BY <3>2, <1>5
        <4> QED
          BY <4>1, <4>2, <3>2, <1>2, <1>4, <1>6 DEF Passed
      <3> QED
        BY <3>1, <3>2
    <2>2. \A t, k, n : TermsAt(t, k)' = TermsAt(t, k) /\ Id(t, k, n)' = Id(t, k, n)
      BY <1>1 DEF TermsAt, Id
    <2>3. 1 .. Len(queue) = {} /\ 1 .. Len(queue') = {}
      BY <1>1, NothingQueued, NothingQueuedNext
    <2> QED
      BY <2>1, <2>2, <2>3, <1>1, LogKeptWithoutOps DEF IInv
  <1> QED
    BY <1>8, <1>9, <1>12, <1>13, <1>14 DEF IInv

LEMMA ExecuteStepOK ==
  ASSUME IInv, NEW t \in Tensors, NEW use_opmin \in BOOLEAN, Execute(t, use_opmin)
  PROVE  IInv'
  <1> DEFINE h == FrameOf(t, use_opmin)
             c == queue \o AllocationOf(t)
  <1>1. /\ stack = <<>> /\ calls < MaxCalls /\ calls' = calls + 1 /\ stack' = <<h>> /\ queue' = c
        /\ UNCHANGED <<updates, version, contents, noted, log>>
    BY DEF Execute
  <1>2. queue = <<>>
    BY <1>1 DEF IInv, QueueOK
  <1>3. t \notin allocated => ~AtEnd(t)
    BY <1>2, NothingQueued
  <1>4. /\ IsSequence(c)
        /\ \A j \in 1 .. Len(c) : EntryOK(c, allocated, j)
        /\ \A x : Live(c, allocated, x, Len(c) + 1) <=> AtEnd(x) \/ x = t
        /\ \A j \in 1 .. Len(c) : j \in 1 .. Len(queue) \/ c[j] = Allocation(t, Shapes[t])
    BY <1>3, AllocationQueued
  <1> HIDE DEF c
  <1>5. /\ h \in Frame /\ h.tensor = t /\ h.at = "updates" /\ h.i = version[t] /\ FrameOK(h)
        /\ \A k, n : Queued(h, k, n) <=> k <= version[t]
    BY NewFrame DEF IInv
  <1> HIDE DEF h
  <1>6. /\ stack' \in Seq(Frame) /\ Len(stack') = 1 /\ DOMAIN stack' = {1} /\ stack'[1] = h /\ Top' = h
        /\ stack' # <<>>
    <2>1. /\ <<h>> \in Seq(Frame) /\ Len(<<h>>) = 1 /\ DOMAIN <<h>> = {1} /\ <<h>>[1] = h /\ <<h>> # <<>>
      BY <1>5
    <2> QED
      BY <2>1, <1>1 DEF Top
  <1>7. \A j \in 1 .. Len(queue') : queue'[j] = Allocation(t, Shapes[t])
    BY <1>1, <1>2, <1>4, NothingQueued
  <1>8. allocated' = allocated
    BY <1>1 DEF allocated
  <1>9. TypeOK'
    <2>1. calls' \in 0 .. MaxCalls
      BY <1>1, OpExecutorAssumption DEF IInv, TypeOK
    <2> QED
      BY <2>1, <1>1, <1>4, <1>6 DEF IInv, TypeOK
  <1>10. UpdatesOK'
    <2>1. \A s \in DOMAIN Program : Uses(s) \subseteq Tensors
      BY ProgramFacts
    <2> QED
      BY <2>1, <1>1, <1>8, UpdatesKept DEF IInv
  <1>11. StackOK'
    <2>1. ASSUME NEW m \in DOMAIN stack'
          PROVE  FrameOK(stack[m])' /\ InputsOK(m)' /\ ~(m < Len(stack'))
      <3>1. m = 1 /\ stack'[m] = h /\ stack'[m].at = "updates"
        BY <1>5, <1>6
      <3>2. FrameOK(stack[m])'
        BY <3>1, <1>1, <1>5 DEF FrameOK, StatementOf
      <3> QED
        BY <3>1, <3>2, <1>6 DEF InputsOK
    <2> QED
      BY <2>1, <1>6 DEF StackOK
  <1>12. QueueOK'
    <2>1. \A x : AtEnd(x)' <=> AtEnd(x) \/ x = t
      BY <1>1, <1>4, <1>8 DEF AtEnd
    <2>2. \A j \in 1 .. Len(queue') : EntryOK(queue', allocated', j)
      BY <1>1, <1>4, <1>8
    <2>3. \A x : AtEnd(x)' => x \in Tensors
      BY <2>1 DEF IInv, QueueOK
    <2>4. \A j \in 1 .. Len(queue') : \A x \in Tensors : Allocates(queue'[j], x) => x = Top'.tensor
      BY <1>5, <1>6, <1>7 DEF Allocates, Allocation
    <2>5. \A m \in DOMAIN stack' : AtEnd(stack[m].tensor)'
      BY <2>1, <1>5, <1>6
    <2>6. Top'.at # "call"
      BY <1>5, <1>6
    <2> QED
      BY <2>2, <2>3, <2>4, <2>5, <2>6, <1>6 DEF QueueOK
  <1>13. LogOK'
    <2>1. ASSUME NEW x \in Tensors, NEW k, NEW n
          PROVE  Passed(x, k, n)' <=> Passed(x, k, n)
      <3>1. Passed(x, k, n) <=> k <= version[x]
        BY <1>1 DEF Passed
      <3> QED
        BY <3>1, <1>1, <1>5, <1>6 DEF Passed
    <2>2. \A x, k, n : TermsAt(x, k)' = TermsAt(x, k) /\ Id(x, k, n)' = Id(x, k, n)
      BY <1>1 DEF TermsAt, Id
    <2>3. 1 .. Len(queue) = {} /\ \A j \in 1 .. Len(queue') : ~Marks(queue'[j])
      BY <1>2, <1>7, NothingQueued DEF Marks, Allocation
    <2> QED
      BY <2>1, <2>2, <2>3, <1>1, LogKeptWithoutOps DEF IInv
  <1> QED
    BY <1>9, <1>10, <1>11, <1>12, <1>13 DEF IInv

LEMMA Noted ==
  ASSUME IInv, NEW s \in DOMAIN Program, AddUpdate(s)
  PROVE  LET t == Program[s].tensor
             e == [id |-> noted, stmt |-> s]
         IN  /\ stack = <<>> /\ queue = <<>> /\ noted \in Nat /\ noted' = noted + 1 /\ noted < MaxUpdates
             /\ t \in Tensors /\ updates' = [updates EXCEPT ![t] = Append(updates[t], e)]
             /\ updates'[t] = Append(updates[t], e)
             /\ \A u \in Tensors : u # t => updates'[u] = updates[u]
             /\ Len(updates'[t]) = Len(updates[t]) + 1 /\ Len(updates[t]) \in Nat
             /\ DOMAIN updates[t] = 1 .. Len(updates[t])
             /\ DOMAIN updates'[t] = 1 .. Len(updates[t]) + 1
             /\ updates'[t][Len(updates[t]) + 1] = e
             /\ \A k \in DOMAIN updates[t] : updates'[t][k] = updates[t][k]
             /\ UNCHANGED <<version, contents, stack, queue, calls, log>>
  <1> DEFINE t == Program[s].tensor
             e == [id |-> noted, stmt |-> s]
             S == [id : 0 .. noted - 1, stmt : DOMAIN Program] \cup {e}
  <1>1. /\ stack = <<>> /\ noted < MaxUpdates /\ noted' = noted + 1
        /\ updates' = [updates EXCEPT ![t] = Append(updates[t], e)]
        /\ UNCHANGED <<version, contents, stack, queue, calls, log>>
    BY DEF AddUpdate
  <1>2. queue = <<>> /\ noted \in Nat
    BY <1>1, OpExecutorAssumption DEF IInv, QueueOK, TypeOK
  <1>3. t \in Tensors
    BY ProgramFacts
  <1> DEFINE old == updates[t]
             new == Append(old, e)
  <1>4. old \in Seq([id : 0 .. noted - 1, stmt : DOMAIN Program])
    BY <1>3, UpdateFacts DEF IInv
  <1> HIDE DEF t
  <1>5. updates' = [updates EXCEPT ![t] = new] /\ DOMAIN updates = Tensors
    BY <1>1 DEF IInv, TypeOK
  <1>6. old \in Seq(S) /\ e \in S
    <2> DEFINE R == [id : 0 .. noted - 1, stmt : DOMAIN Program]
    <2>1. R \subseteq S /\ old \in Seq(R)
      BY <1>4
    <2> HIDE DEF R, S, old
    <2>2. old \in Seq(S)
      BY <2>1, Widened
    <2> QED
      BY <2>2 DEF S
  <1> HIDE DEF S, old, e
  <1>7. /\ Len(new) = Len(old) + 1 /\ Len(old) \in Nat /\ DOMAIN old = 1 .. Len(old)
        /\ DOMAIN new = 1 .. Len(old) + 1 /\ new[Len(old) + 1] = e
        /\ \A k \in DOMAIN old : new[k] = old[k]
    BY <1>6
  <1> HIDE DEF new
  <1>8. updates'[t] = new /\ \A u \in Tensors : u # t => updates'[u] = updates[u]
    BY <1>3, <1>5
  <1> QED
    BY <1>1, <1>2, <1>3, <1>5, <1>7, <1>8 DEF new, old, e, t

LEMMA AddUpdateStep ==
  ASSUME IInv, NEW s \in DOMAIN Program, AddUpdate(s)
  PROVE  IInv'
  <1> DEFINE t == Program[s].tensor
             e == [id |-> noted, stmt |-> s]
             last == Len(updates[t]) + 1
  <1>1. /\ stack = <<>> /\ queue = <<>> /\ noted \in Nat /\ noted' = noted + 1 /\ noted < MaxUpdates
        /\ t \in Tensors /\ updates' = [updates EXCEPT ![t] = Append(updates[t], e)]
        /\ updates'[t] = Append(updates[t], e)
        /\ \A u \in Tensors : u # t => updates'[u] = updates[u]
        /\ Len(updates'[t]) = Len(updates[t]) + 1 /\ Len(updates[t]) \in Nat
        /\ DOMAIN updates[t] = 1 .. Len(updates[t])
        /\ DOMAIN updates'[t] = 1 .. Len(updates[t]) + 1
        /\ updates'[t][Len(updates[t]) + 1] = e
        /\ \A k \in DOMAIN updates[t] : updates'[t][k] = updates[t][k]
        /\ UNCHANGED <<version, contents, stack, queue, calls, log>>
    BY Noted
  <1>2. \A u \in Uses(s) : HasValue(u)
    BY DEF AddUpdate
  <1>3. Uses(s) \subseteq Tensors /\ Program[s].tensor = t
    BY ProgramFacts
  <1>4. e.id = noted /\ e.stmt = s /\ e \in [id : 0 .. noted, stmt : DOMAIN Program]
    BY <1>1
  <1> HIDE DEF t, e
  <1>5. \A u \in Tensors : \A k \in DOMAIN updates'[u] :
          \/ k \in DOMAIN updates[u] /\ updates'[u][k] = updates[u][k]
          \/ u = t /\ k = last /\ updates'[u][k] = e
    <2> SUFFICES ASSUME NEW u \in Tensors, NEW k \in DOMAIN updates'[u]
                 PROVE  \/ k \in DOMAIN updates[u] /\ updates'[u][k] = updates[u][k]
                        \/ u = t /\ k = last /\ updates'[u][k] = e
      OBVIOUS
    <2>1. CASE u = t
      <3>1. k \in DOMAIN updates[t] \/ k = last
        BY <2>1, <1>1
      <3> QED
        BY <3>1, <2>1, <1>1
    <2>2. CASE u # t
      BY <2>2, <1>1
    <2> QED
      BY <2>1, <2>2
  <1>6. \A u \in Tensors : \A k \in DOMAIN updates[u] :
          updates[u][k].id \in 0 .. noted - 1 /\ updates[u][k].stmt \in DOMAIN Program /\ k \in 1 .. Len(updates[u])
    BY UpdateFacts DEF IInv
  <1>7. allocated' = allocated
    BY <1>1 DEF allocated
  <1>8. \A u \in Tensors : HasValue(u) => HasValue(u)'
    <2> SUFFICES ASSUME NEW u \in Tensors, updates[u] # <<>> PROVE updates'[u] # <<>>
      BY <1>7 DEF HasValue
    <2>1. CASE u = t
      <3>1. Len(updates'[t]) # 0
        BY <1>1
      <3> QED
        BY <3>1, <2>1, None
    <2>2. CASE u # t
      BY <2>2, <1>1
    <2> QED
      BY <2>1, <2>2
  <1>9. TypeOK'
    <2> DEFINE R == [id : 0 .. noted - 1, stmt : DOMAIN Program]
               S == [id : 0 .. noted, stmt : DOMAIN Program]
    <2>1. R \subseteq S
      BY <1>1
    <2>2. ASSUME NEW u \in Tensors
          PROVE  updates[u] \in Seq(S)
      <3>1. updates[u] \in Seq(R)
        BY UpdateFacts DEF IInv
      <3> HIDE DEF R, S
      <3> QED
        BY <3>1, <2>1, Widened
    <2>3. e \in S
      BY <1>4
    <2> HIDE DEF S
    <2>4. Append(updates[t], e) \in Seq(S)
      BY <2>2, <2>3, <1>1
    <2>5. DOMAIN updates = Tensors /\ updates = [u \in Tensors |-> updates[u]]
      BY DEF IInv, TypeOK
    <2>6. updates' \in [Tensors -> Seq(S)]
      BY <2>2, <2>4, <2>5, <1>1
    <2>7. noted' - 1 = noted
      BY <1>1
    <2>8. updates' \in [Tensors -> Seq([id : 0 .. noted' - 1, stmt : DOMAIN Program])]
      BY <2>6, <2>7 DEF S
    <2>9. \A u \in Tensors : version'[u] <= Len(updates'[u])
      <3> SUFFICES ASSUME NEW u \in Tensors PROVE version[u] <= Len(updates'[u])
        BY <1>1
      <3>1. version[u] \in Nat /\ version[u] <= Len(updates[u]) /\ Len(updates[u]) \in Nat
        BY UpdateFacts DEF IInv
      <3> QED
        BY <3>1, <1>1
    <2>10. noted' \in 0 .. MaxUpdates
      BY <1>1, OpExecutorAssumption
    <2>11. IsSequence(queue')
      BY <1>1, None
    <2> QED
      BY <2>8, <2>9, <2>10, <2>11, <1>1 DEF IInv, TypeOK
  <1>10. UpdatesOK'
    <2>1. ASSUME NEW u \in Tensors, NEW k \in DOMAIN updates'[u]
          PROVE  /\ Program[updates'[u][k].stmt].tensor = u
                 /\ \A v \in Uses(updates'[u][k].stmt) : HasValue(v)'
      <3>1. CASE k \in DOMAIN updates[u] /\ updates'[u][k] = updates[u][k]
        <4>1. updates[u][k].stmt \in DOMAIN Program
          BY <3>1, <1>6
        <4>2. Uses(updates[u][k].stmt) \subseteq Tensors
          BY <4>1, ProgramFacts
        <4> QED
          BY <3>1, <4>2, <1>8 DEF IInv, UpdatesOK
      <3>2. CASE u = t /\ k = last /\ updates'[u][k] = e
        BY <3>2, <1>2, <1>3, <1>4, <1>8
      <3> QED
        BY <3>1, <3>2, <1>5
    <2>2. ASSUME NEW u \in Tensors, NEW k \in DOMAIN updates'[u], NEW v \in Tensors, NEW m \in DOMAIN updates'[v]
          PROVE  /\ u = v /\ k < m => updates'[u][k].id < updates'[v][m].id
                 /\ updates'[u][k].id = updates'[v][m].id => u = v
      <3>1. CASE k \in DOMAIN updates[u] /\ updates'[u][k] = updates[u][k]
        <4>1. CASE m \in DOMAIN updates[v] /\ updates'[v][m] = updates[v][m]
          BY <3>1, <4>1 DEF IInv, UpdatesOK
        <4>2. CASE v = t /\ m = last /\ updates'[v][m] = e
          <5>1. updates'[u][k].id \in 0 .. noted - 1 /\ updates'[v][m].id = noted
            BY <3>1, <4>2, <1>4, <1>6
          <5> QED
            BY <5>1, <1>1
        <4> QED
          BY <4>1, <4>2, <1>5
      <3>2. CASE u = t /\ k = last /\ updates'[u][k] = e
        <4>1. CASE m \in DOMAIN updates[v] /\ updates'[v][m] = updates[v][m]
          <5>1. updates'[v][m].id \in 0 .. noted - 1 /\ updates'[u][k].id = noted /\ m \in 1 .. Len(updates[v])
            BY <3>2, <4>1, <1>4, <1>6
          <5>2. u = v => ~(k < m)
            BY <5>1, <3>2, <1>1
          <5> QED
            BY <5>1, <5>2, <1>1
        <4>2. CASE v = t /\ m = last /\ updates'[v][m] = e
          BY <3>2, <4>2, <1>1
        <4> QED
          BY <4>1, <4>2, <1>5
      <3> QED
        BY <3>1, <3>2, <1>5
    <2>3. \A u \in Tensors : version'[u] > 0 => u \in allocated'
      BY <1>1, <1>7 DEF IInv, UpdatesOK
    <2>4. ASSUME NEW id \in ToSet(log')
          PROVE  id[1] < noted'
      <3>1. id[1] < noted /\ log \in Seq(Nat \X Nat) /\ id \in ToSet(log)
        BY <2>4, <1>1 DEF IInv, UpdatesOK, TypeOK
      <3>2. ToSet(log) \subseteq Nat \X Nat
        <4> DEFINE N == Nat \X Nat
        <4>1. log \in Seq(N)
          BY <3>1
        <4> HIDE DEF N
        <4>2. ToSet(log) \subseteq N
          BY <4>1, Widened
        <4> QED
          BY <4>2 DEF N
      <3>3. id[1] \in Nat
        BY <3>1, <3>2
      <3> QED
        BY <3>1, <3>3, <1>1
    <2> QED
      BY <2>1, <2>2, <2>3, <2>4 DEF UpdatesOK
  <1>11. StackOK'
    BY <1>1 DEF StackOK
  <1>12. QueueOK'
    <2>1. 1 .. Len(queue') = {} /\ \A x : AtEnd(x)' <=> AtEnd(x)
      BY <1>1, <1>7, NothingQueued, NothingQueuedNext
    <2>2. \A x : AtEnd(x)' => x \in Tensors
      BY <2>1 DEF IInv, QueueOK
    <2>3. DOMAIN stack' = {}
      BY <1>1
    <2> QED
      BY <2>1, <2>2, <2>3, <1>1 DEF QueueOK
  <1>13. LogOK'
    <2>1. \A x, k, n : /\ Passed(x, k, n) <=> k <= version[x]
                       /\ Passed(x, k, n)' <=> k <= version[x]
      BY <1>1 DEF Passed
    <2>2. ASSUME NEW x \in Tensors, NEW k \in DOMAIN updates'[x], NEW n \in TermsAt(x, k)'
          PROVE  \/ /\ k \in DOMAIN updates[x] /\ n \in TermsAt(x, k) /\ Id(x, k, n)' = Id(x, k, n)
                    /\ Passed(x, k, n)' <=> Passed(x, k, n)
                 \/ ~Passed(x, k, n)' /\ Id(x, k, n)' \notin ToSet(log)
      <3>1. CASE k \in DOMAIN updates[x] /\ updates'[x][k] = updates[x][k]
        BY <3>1, <2>1 DEF TermsAt, Id
      <3>2. CASE x = t /\ k = last /\ updates'[x][k] = e
        <4>1. version[x] \in Nat /\ version[x] <= Len(updates[x])
          BY UpdateFacts DEF IInv
        <4>2. ~(k <= version[x])
          BY <4>1, <3>2, <1>1
        <4>3. Id(x, k, n)'[1] = noted
          BY <3>2, <1>4 DEF Id
        <4>4. \A id \in ToSet(log) : id[1] < noted
          BY DEF IInv, UpdatesOK
        <4>5. Id(x, k, n)' \notin ToSet(log)
          BY <4>3, <4>4, <1>1
        <4> QED
          BY <4>2, <4>5, <2>1
      <3> QED
        BY <3>1, <3>2, <1>5
    <2>3. 1 .. Len(queue) = {} /\ 1 .. Len(queue') = {}
      BY <1>1, NothingQueued, NothingQueuedNext
    <2> QED
      BY <2>2, <2>3, <1>1, LogKeptWithoutOps DEF IInv
  <1> QED
    BY <1>9, <1>10, <1>11, <1>12, <1>13 DEF IInv

LEMMA ClearUpdatesStep ==
  ASSUME IInv, NEW t \in Tensors, ClearUpdates(t)
  PROVE  IInv'
  <1>1. /\ stack = <<>> /\ t \in allocated
        /\ updates' = [updates EXCEPT ![t] = <<>>] /\ version' = [version EXCEPT ![t] = 0]
        /\ UNCHANGED <<contents, stack, queue, noted, calls, log>>
    BY DEF ClearUpdates
  <1>2. queue = <<>>
    BY <1>1 DEF IInv, QueueOK
  <1>3. /\ updates'[t] = <<>> /\ version'[t] = 0
        /\ \A u \in Tensors : u # t => updates'[u] = updates[u] /\ version'[u] = version[u]
    BY <1>1 DEF IInv, TypeOK
  <1>4. \A u \in Tensors : \A k \in DOMAIN updates'[u] : u # t
    BY <1>3
  <1>5. allocated' = allocated
    BY <1>1 DEF allocated
  <1>6. TypeOK'
    <2>1. updates' \in [Tensors -> Seq([id : 0 .. noted' - 1, stmt : DOMAIN Program])]
      <3> DEFINE R == Seq([id : 0 .. noted - 1, stmt : DOMAIN Program])
      <3>1. updates \in [Tensors -> R]
        BY DEF IInv, TypeOK
      <3>2. <<>> \in R
        OBVIOUS
      <3> HIDE DEF R
      <3>3. updates' \in [Tensors -> R]
        BY <3>1, <3>2, <1>1
      <3> QED
        BY <3>3, <1>1 DEF R
    <2>2. version' \in [Tensors -> Nat]
      BY <1>1 DEF IInv, TypeOK
    <2>3. \A u \in Tensors : version'[u] <= Len(updates'[u])
      BY <1>3, None DEF IInv, TypeOK
    <2>4. IsSequence(queue')
      BY <1>1, <1>2, None
    <2> QED
      BY <2>1, <2>2, <2>3, <2>4, <1>1 DEF IInv, TypeOK
  <1>7. UpdatesOK'
    <2>1. \A s \in DOMAIN Program : Uses(s) \subseteq Tensors
      BY ProgramFacts
    <2>2. \A u \in Tensors : HasValue(u) => HasValue(u)'
      BY <1>1, <1>3, <1>5 DEF HasValue
    <2>3. ASSUME NEW u \in Tensors, NEW k \in DOMAIN updates'[u]
          PROVE  /\ k \in DOMAIN updates[u] /\ updates'[u] = updates[u]
                 /\ updates[u][k].stmt \in DOMAIN Program
      BY <1>3, <1>4, UpdateFacts DEF IInv
    <2>4. \A u \in Tensors : \A k \in DOMAIN updates'[u] :
             /\ Program[updates'[u][k].stmt].tensor = u
             /\ \A v \in Uses(updates'[u][k].stmt) : HasValue(v)'
      BY <2>1, <2>2, <2>3 DEF IInv, UpdatesOK
    <2>5. \A u \in Tensors : \A k \in DOMAIN updates'[u] :
             /\ \A m \in DOMAIN updates'[u] : k < m => updates'[u][k].id < updates'[u][m].id
             /\ \A v \in Tensors : \A m \in DOMAIN updates'[v] : updates'[u][k].id = updates'[v][m].id => u = v
      BY <2>3 DEF IInv, UpdatesOK
    <2>6. \A u \in Tensors : version'[u] > 0 => u \in allocated'
      BY <1>3, <1>5 DEF IInv, UpdatesOK
    <2>7. \A id \in ToSet(log') : id[1] < noted'
      BY <1>1 DEF IInv, UpdatesOK
    <2> QED
      BY <2>4, <2>5, <2>6, <2>7 DEF UpdatesOK
  <1>8. StackOK'
    BY <1>1 DEF StackOK
  <1>9. QueueOK'
    <2>1. 1 .. Len(queue') = {} /\ \A x : AtEnd(x)' <=> AtEnd(x)
      BY <1>1, <1>2, <1>5, NothingQueued, NothingQueuedNext
    <2>2. \A x : AtEnd(x)' => x \in Tensors
      BY <2>1 DEF IInv, QueueOK
    <2>3. DOMAIN stack' = {}
      BY <1>1
    <2> QED
      BY <2>1, <2>2, <2>3, <1>1 DEF QueueOK
  <1>10. LogOK'
    <2>1. ASSUME NEW x \in Tensors, NEW k \in DOMAIN updates'[x], NEW n \in TermsAt(x, k)'
          PROVE  /\ k \in DOMAIN updates[x] /\ n \in TermsAt(x, k) /\ Id(x, k, n)' = Id(x, k, n)
                 /\ Passed(x, k, n)' <=> Passed(x, k, n)
      <3>1. updates'[x] = updates[x] /\ version'[x] = version[x]
        BY <1>3, <1>4
      <3> QED
        BY <3>1, <1>1 DEF TermsAt, Id, Passed
    <2>2. 1 .. Len(queue) = {} /\ 1 .. Len(queue') = {}
      BY <1>1, <1>2, NothingQueued, NothingQueuedNext
    <2> QED
      BY <2>1, <2>2, <1>1, LogKeptWithoutOps DEF IInv
  <1> QED
    BY <1>6, <1>7, <1>8, <1>9, <1>10 DEF IInv

LEMMA InitIInv == Init => IInv
  <1> SUFFICES ASSUME Init PROVE IInv
    OBVIOUS
  <1>1. /\ updates = [t \in Tensors |-> <<>>] /\ version = [t \in Tensors |-> 0]
        /\ stack = <<>> /\ queue = <<>> /\ log = <<>> /\ noted = 0 /\ calls = 0
    BY DEF Init
  <1>2. allocated \subseteq Tensors
    <2>1. PICK given \in Given : contents = [t \in given |-> Start(t)]
      BY DEF Init
    <2>2. DOMAIN contents = given
      BY <2>1
    <2> QED
      BY <2>2, OpExecutorAssumption DEF allocated
  <1>3. \A t \in Tensors : DOMAIN updates[t] = {} /\ Len(updates[t]) = 0 /\ version[t] = 0
    BY <1>1
  <1>4. ToSet(log) = {} /\ DOMAIN stack = {}
    BY <1>1 DEF ToSet
  <1>5. TypeOK
    <2>1. IsSequence(queue)
      BY <1>1, None
    <2>2. updates \in [Tensors -> Seq([id : 0 .. noted - 1, stmt : DOMAIN Program])]
      BY <1>1
    <2>3. version \in [Tensors -> Nat]
      BY <1>1
    <2>4. noted \in 0 .. MaxUpdates /\ calls \in 0 .. MaxCalls
      BY <1>1, OpExecutorAssumption
    <2>5. stack \in Seq(Frame) /\ log \in Seq(Nat \X Nat)
      BY <1>1
    <2> QED
      BY <2>1, <2>2, <2>3, <2>4, <2>5, <1>3 DEF TypeOK
  <1>6. UpdatesOK
    BY <1>3, <1>4 DEF UpdatesOK
  <1>7. StackOK
    BY <1>4 DEF StackOK
  <1>8. QueueOK
    BY <1>1, <1>2, <1>4, NothingQueued DEF QueueOK
  <1>9. LogOK
    <2>1. 1 .. Len(queue) = {}
      BY <1>1, NothingQueued
    <2> QED
      BY <2>1, <1>3 DEF LogOK
  <1> QED
    BY <1>5, <1>6, <1>7, <1>8, <1>9 DEF IInv

-----------------------------------------------------------------------------
(* Steps of the scheduler                                                  *)

\* What the first entry does to what is allocated.
LEMMA RunFacts ==
  ASSUME IInv, Running, RunAllocation \/ RunDeallocation \/ RunOperation
  PROVE  /\ queue' = Tail(queue) /\ UNCHANGED <<updates, version, stack, noted, calls>>
         /\ \A t : t \in allocated' <=> (t \in allocated /\ ~Frees(queue[1], t)) \/ Allocates(queue[1], t)
         /\ \/ log' = log /\ ~Marks(queue[1])
            \/ log' = Append(log, queue[1].id) /\ Marks(queue[1]) /\ RunOperation
  <1>1. IsSequence(queue) /\ queue # <<>>
    BY DEF IInv, TypeOK, Running
  <1>2. Head(queue) = queue[1]
    BY <1>1, Popped
  <1>3. CASE RunAllocation
    <2>1. queue[1].kind = "allocate"
      BY <1>2, <1>3 DEF RunAllocation
    <2>2. DOMAIN contents' = DOMAIN contents \cup {queue[1].tensor}
      BY <1>2, <1>3 DEF RunAllocation, allocated
    <2> QED
      BY <2>1, <2>2, <1>3 DEF RunAllocation, allocated, Frees, Allocates, Marks
  <1>4. CASE RunDeallocation
    <2>1. queue[1].kind = "deallocate"
      BY <1>2, <1>4 DEF RunDeallocation
    <2>2. DOMAIN contents' = allocated \ {queue[1].tensor}
      BY <1>2, <1>4 DEF RunDeallocation
    <2> QED
      BY <2>1, <2>2, <1>4 DEF RunDeallocation, allocated, Frees, Allocates, Marks
  <1>5. CASE RunOperation
    <2>1. queue[1].kind = "op"
      BY <1>2, <1>5 DEF RunOperation
    <2>2. DOMAIN contents' = DOMAIN contents
      BY <1>5 DEF RunOperation, RunOp
    <2>3. \/ log' = log /\ ~Marks(queue[1])
          \/ log' = Append(log, queue[1].id) /\ Marks(queue[1])
      BY <2>1, <1>2, <1>5 DEF RunOperation, Marks
    <2> QED
      BY <2>1, <2>2, <2>3, <1>5 DEF RunOperation, allocated, Frees, Allocates
  <1> QED
    BY <1>3, <1>4, <1>5

\* The marked entries are those of terms of the last call.
LEMMA MarkedIds ==
  ASSUME IInv, stack # <<>>, NEW j \in 1 .. Len(queue), Marks(queue[j])
  PROVE  /\ queue[j].id \notin ToSet(log) /\ InQueue(queue[j].id)
         /\ queue[j].id \in Nat \X Nat /\ queue[j].id[1] < noted
         /\ \E k \in DOMAIN updates[Top.tensor] : \E n \in TermsAt(Top.tensor, k) :
              /\ queue[j].id = Id(Top.tensor, k, n)
              /\ \A u \in Uses(updates[Top.tensor][k].stmt) : ~HasOps(u)
  <1>1. /\ queue[j].id \notin ToSet(log)
        /\ \E k \in DOMAIN updates[Top.tensor] : \E n \in TermsAt(Top.tensor, k) :
             /\ queue[j].id = Id(Top.tensor, k, n)
             /\ \A u \in Uses(updates[Top.tensor][k].stmt) : ~HasOps(u)
    BY DEF IInv, LogOK
  <1>2. PICK k \in DOMAIN updates[Top.tensor] : \E n \in TermsAt(Top.tensor, k) : queue[j].id = Id(Top.tensor, k, n)
    BY <1>1
  <1>3. PICK n \in TermsAt(Top.tensor, k) : queue[j].id = Id(Top.tensor, k, n)
    BY <1>2
  <1>4. Top.tensor \in Tensors
    BY LastCall
  <1>5. updates[Top.tensor][k].id \in 0 .. noted - 1 /\ n \in Nat
    BY <1>4, UpdateFacts DEF IInv
  <1>6. noted \in Nat
    BY OpExecutorAssumption DEF IInv, TypeOK
  <1>7. queue[j].id = <<updates[Top.tensor][k].id, n>>
    BY <1>3 DEF Id
  <1>8. queue[j].id \in Nat \X Nat /\ queue[j].id[1] < noted
    BY <1>5, <1>6, <1>7
  <1> QED
    BY <1>1, <1>8 DEF InQueue

LEMMA RunStep == IInv /\ (RunAllocation \/ RunDeallocation \/ RunOperation) => IInv'
  <1> SUFFICES ASSUME IInv, RunAllocation \/ RunDeallocation \/ RunOperation PROVE IInv'
    OBVIOUS
  <1>1. stack # <<>> /\ queue # <<>> /\ Running /\ IsSequence(queue)
    BY DEF RunAllocation, RunDeallocation, RunOperation, Running, IInv, TypeOK
  <1>2. /\ queue' = Tail(queue) /\ UNCHANGED <<updates, version, stack, noted, calls>>
        /\ \A t : t \in allocated' <=> (t \in allocated /\ ~Frees(queue[1], t)) \/ Allocates(queue[1], t)
        /\ \/ log' = log /\ ~Marks(queue[1])
           \/ log' = Append(log, queue[1].id) /\ Marks(queue[1])
    BY <1>1, RunFacts
  <1>3. /\ Len(queue) \in Nat \ {0} /\ IsSequence(Tail(queue)) /\ Len(Tail(queue)) = Len(queue) - 1
        /\ 1 \in 1 .. Len(queue)
        /\ \A j \in 1 .. Len(queue) - 1 : Tail(queue)[j] = queue[j + 1]
    BY <1>1, Popped, SequenceFacts
  <1>4. /\ Len(queue') = Len(queue) - 1
        /\ \A j \in 1 .. Len(queue') : j + 1 \in 1 .. Len(queue) /\ queue'[j] = queue[j + 1]
        /\ \A j \in 1 .. Len(queue) : j = 1 \/ (j - 1 \in 1 .. Len(queue') /\ queue'[j - 1] = queue[j])
    <2>1. \A j \in 1 .. Len(queue) - 1 : j + 1 \in 1 .. Len(queue)
      BY <1>3
    <2>2. \A j \in 1 .. Len(queue) : j = 1 \/ (j - 1 \in 1 .. Len(queue) - 1 /\ (j - 1) + 1 = j)
      BY <1>3
    <2>3. Len(queue') = Len(queue) - 1 /\ \A j \in 1 .. Len(queue) - 1 : queue'[j] = queue[j + 1]
      BY <1>2, <1>3
    <2>4. ASSUME NEW j \in 1 .. Len(queue), j # 1
          PROVE  queue'[j - 1] = queue[j]
      <3>1. j - 1 \in 1 .. Len(queue) - 1 /\ (j - 1) + 1 = j
        BY <2>2, <2>4
      <3>2. queue'[j - 1] = queue[(j - 1) + 1]
        BY <3>1, <2>3
      <3> QED
        BY <3>1, <3>2
    <2> QED
      BY <2>1, <2>2, <2>3, <2>4
  <1>5. \A t \in Tensors : t \in allocated => t \in allocated'
    <2>1. \A t \in Tensors : ~Frees(queue[1], t)
      BY <1>3 DEF IInv, QueueOK, EntryOK, Frees
    <2> QED
      BY <2>1, <1>2
  <1>6. Marks(queue[1]) => /\ queue[1].id \notin ToSet(log) /\ queue[1].id \in Nat \X Nat /\ queue[1].id[1] < noted
    BY <1>1, <1>3, MarkedIds
  <1>7. /\ log' \in Seq(Nat \X Nat)
        /\ ToSet(log') = ToSet(log) \cup {x \in {queue[1].id} : Marks(queue[1])}
    <2>1. log \in Seq(Nat \X Nat)
      BY DEF IInv, TypeOK
    <2>2. CASE log' = log /\ ~Marks(queue[1])
      BY <2>1, <2>2
    <2>3. CASE log' = Append(log, queue[1].id) /\ Marks(queue[1])
      <3> DEFINE N == Nat \X Nat
                 id == queue[1].id
      <3>1. log \in Seq(N) /\ id \in N
        BY <2>1, <2>3, <1>6
      <3> HIDE DEF N, id
      <3>2. Append(log, id) \in Seq(N) /\ ToSet(Append(log, id)) = ToSet(log) \cup {id}
        BY <3>1, Appended
      <3> QED
        BY <3>2, <2>3 DEF N, id
    <2> QED
      BY <2>2, <2>3, <1>2
  <1>8. TypeOK'
    BY <1>2, <1>3, <1>7 DEF IInv, TypeOK
  <1>9. UpdatesOK'
    <2>1. \A id \in ToSet(log') : id \in ToSet(log) \/ id[1] < noted
      BY <1>6, <1>7
    <2>2. \A s \in DOMAIN Program : Uses(s) \subseteq Tensors
      BY ProgramFacts
    <2> QED
      BY <2>1, <2>2, <1>2, <1>5, UpdatesKept DEF IInv
  <1>10. StackOK'
    <2>1. \A x : /\ FrameOK(x)' <=> FrameOK(x)
                 /\ StatementOf(x)' = StatementOf(x)
      BY <1>2 DEF FrameOK, StatementOf
    <2>2. \A u \in Tensors : Ready(u) => Ready(u)'
      BY <1>2, <1>5 DEF Ready, HasOps
    <2>3. ASSUME NEW m \in DOMAIN stack
          PROVE  InputsOK(m)'
      <3>1. InputsOK(m) /\ FrameOK(stack[m]) /\ stack[m] \in Frame
        BY DEF IInv, StackOK, TypeOK
      <3>2. CASE stack[m].at \in {"inputs", "call"}
        <4>1. stack[m].tensor \in Tensors /\ stack[m].i \in Nat /\ stack[m].i < Len(updates[stack[m].tensor])
          BY <3>1, <3>2 DEF Frame, FrameOK
        <4>2. stack[m].i + 1 \in DOMAIN updates[stack[m].tensor]
          BY <4>1, UpdateFacts DEF IInv
        <4>3. updates[stack[m].tensor][stack[m].i + 1].stmt \in DOMAIN Program
          BY <4>1, <4>2, UpdateFacts DEF IInv
        <4>4. ToSet(StatementOf(stack[m]).inputs) \subseteq Tensors
          BY <4>3, ProgramFacts DEF StatementOf
        <4>5. \A u \in ToSet(StatementOf(stack[m]).inputs) :
                 \/ u \in ToSet(stack[m].todo) \/ Ready(u)'
                 \/ m < Len(stack) /\ u = stack[m + 1].tensor
          BY <4>4, <3>1, <3>2, <2>2 DEF InputsOK
        <4> QED
          BY <4>5, <2>1, <1>2 DEF InputsOK
      <3>3. CASE stack[m].at \notin {"inputs", "call"}
        BY <3>3, <1>2 DEF InputsOK
      <3> QED
        BY <3>2, <3>3
    <2>4. ASSUME NEW m \in DOMAIN stack
          PROVE  FrameOK(stack[m])'
      BY <1>2 DEF IInv, StackOK, FrameOK, StatementOf
    <2> QED
      BY <2>3, <2>4, <1>2 DEF IInv, StackOK
  <1>11. \A t : AtEnd(t)' <=> AtEnd(t)
    <2> SUFFICES ASSUME NEW t PROVE AtEnd(t)' <=> AtEnd(t)
      OBVIOUS
    <2>1. Len(queue) \in 1 .. Len(queue) /\ Len(queue') + 1 = Len(queue)
      BY <1>3, <1>4
    <2>2. Live(Tail(queue), allocated', t, Len(queue)) <=> Live(queue, allocated, t, Len(queue) + 1)
      BY <2>1, <1>1, <1>2, LivePops
    <2> QED
      BY <2>1, <2>2, <1>2 DEF AtEnd
  <1>12. QueueOK'
    <2>1. ASSUME NEW j \in 1 .. Len(queue') PROVE EntryOK(queue', allocated', j)
      <3>1. j \in 1 .. Len(queue) - 1 /\ j + 1 \in 1 .. Len(queue)
        BY <1>4
      <3>2. EntryOK(Tail(queue), allocated', j) <=> EntryOK(queue, allocated, j + 1)
        BY <3>1, <1>1, <1>2, EntryPops
      <3> QED
        BY <3>1, <3>2, <1>2 DEF IInv, QueueOK
    <2>2. Top' = Top
      BY <1>2 DEF Top
    <2>3. ASSUME NEW j \in 1 .. Len(queue'), NEW t \in Tensors, Allocates(queue'[j], t)
          PROVE  t = Top'.tensor \/ (Top'.at = "call" /\ t = Head(Top'.todo))
      BY <2>2, <2>3, <1>4 DEF IInv, QueueOK
    <2>4. ASSUME NEW m \in DOMAIN stack' PROVE AtEnd(stack[m].tensor)'
      BY <1>2, <1>11 DEF IInv, QueueOK
    <2>5. stack # <<>> /\ Top.at = "call" => AtEnd(Head(Top.todo))'
      BY <2>2, <1>11 DEF IInv, QueueOK
    <2>6. \A t : AtEnd(t)' => t \in Tensors
      BY <1>11 DEF IInv, QueueOK
    <2> QED
      BY <2>1, <2>2, <2>3, <2>4, <2>5, <2>6, <1>1, <1>2 DEF QueueOK
  <1>13. LogOK'
    <2>1. \A t, k, n : /\ TermsAt(t, k)' = TermsAt(t, k) /\ Id(t, k, n)' = Id(t, k, n)
                       /\ Passed(t, k, n)' <=> Passed(t, k, n)
      BY <1>2 DEF TermsAt, Id, Passed, Queued
    <2>2. \A u : HasOps(u)' <=> HasOps(u)
      BY <1>2 DEF HasOps
    <2>3. ASSUME NEW x
          PROVE  x \in ToSet(log') \/ InQueue(x)' <=> x \in ToSet(log) \/ InQueue(x)
      <3>1. InQueue(x) <=> (Marks(queue[1]) /\ queue[1].id = x) \/ InQueue(x)'
        <4>1. InQueue(x)' => InQueue(x)
          BY <1>4 DEF InQueue
        <4>2. InQueue(x) => (Marks(queue[1]) /\ queue[1].id = x) \/ InQueue(x)'
          BY <1>4 DEF InQueue
        <4>3. Marks(queue[1]) /\ queue[1].id = x => InQueue(x)
          BY <1>3 DEF InQueue
        <4> QED
          BY <4>1, <4>2, <4>3
      <3>2. x \in ToSet(log') <=> x \in ToSet(log) \/ (Marks(queue[1]) /\ queue[1].id = x)
        BY <1>7
      <3> QED
        BY <3>1, <3>2
    <2>4. ASSUME NEW t \in Tensors, NEW k \in DOMAIN updates'[t], NEW n \in TermsAt(t, k)'
          PROVE  (Passed(t, k, n) <=> Id(t, k, n) \in ToSet(log) \/ InQueue(Id(t, k, n)))'
      <3>1. k \in DOMAIN updates[t] /\ n \in TermsAt(t, k)
        BY <1>2, <2>1
      <3>2. Passed(t, k, n) <=> Id(t, k, n) \in ToSet(log) \/ InQueue(Id(t, k, n))
        BY <3>1 DEF IInv, LogOK
      <3> QED
        BY <3>2, <2>1, <2>3
    <2>5. ASSUME NEW j \in 1 .. Len(queue'), Marks(queue'[j])
          PROVE  /\ queue'[j].id \notin ToSet(log')
                 /\ \E m \in DOMAIN updates'[Top'.tensor] : \E n \in TermsAt(Top.tensor, m)' :
                     /\ queue'[j].id = Id(Top.tensor, m, n)'
                     /\ \A u \in Uses(updates'[Top'.tensor][m].stmt) : ~HasOps(u)'
      <3>1. j + 1 \in 1 .. Len(queue) /\ queue'[j] = queue[j + 1] /\ Marks(queue[j + 1])
        BY <2>5, <1>4
      <3>2. /\ queue[j + 1].id \notin ToSet(log) /\ queue[j + 1].id \in Nat \X Nat
            /\ \E k \in DOMAIN updates[Top.tensor] : \E n \in TermsAt(Top.tensor, k) :
              /\ queue[j + 1].id = Id(Top.tensor, k, n)
              /\ \A u \in Uses(updates[Top.tensor][k].stmt) : ~HasOps(u)
        BY <3>1, <1>1, MarkedIds
      <3>3. Marks(queue[1]) => queue[1].id # queue[j + 1].id
        <4> SUFFICES ASSUME Marks(queue[1]), queue[1].id = queue[j + 1].id PROVE FALSE
          OBVIOUS
        <4>1. 1 < j + 1
          BY <1>3, <1>4
        <4>2. Lazy!Precedes(queue[1].id, queue[j + 1].id)
          BY <4>1, <3>1, <1>3 DEF IInv, LogOK
        <4>3. queue[j + 1].id[1] \in Nat /\ queue[j + 1].id[2] \in Nat
          BY <3>2
        <4> QED
          BY <4>2, <4>3 DEF Lazy!Precedes
      <3>4. Top' = Top
        BY <1>2 DEF Top
      <3>5. PICK k \in DOMAIN updates[Top.tensor] : \E n \in TermsAt(Top.tensor, k) :
              /\ queue[j + 1].id = Id(Top.tensor, k, n)
              /\ \A u \in Uses(updates[Top.tensor][k].stmt) : ~HasOps(u)
        BY <3>2
      <3>6. PICK n \in TermsAt(Top.tensor, k) :
              /\ queue[j + 1].id = Id(Top.tensor, k, n)
              /\ \A u \in Uses(updates[Top.tensor][k].stmt) : ~HasOps(u)
        BY <3>5
      <3>7. /\ k \in DOMAIN updates'[Top'.tensor] /\ n \in TermsAt(Top.tensor, k)'
            /\ queue'[j].id = Id(Top.tensor, k, n)'
        BY <3>1, <3>4, <3>6, <2>1, <1>2
      <3>8. \A u \in Uses(updates'[Top'.tensor][k].stmt) : ~HasOps(u)'
        BY <3>4, <3>6, <2>2, <1>2
      <3>9. queue'[j].id \notin ToSet(log')
        BY <3>1, <3>2, <3>3, <1>7
      <3> QED
        BY <3>7, <3>8, <3>9
    <2>6. ASSUME NEW i \in 1 .. Len(queue'), NEW j \in 1 .. Len(queue'), i < j,
                 Marks(queue'[i]), Marks(queue'[j])
          PROVE  Lazy!Precedes(queue'[i].id, queue'[j].id)
      <3>1. i + 1 < j + 1
        BY <2>6, <1>3, <1>4
      <3> QED
        BY <3>1, <2>6, <1>4 DEF IInv, LogOK
    <2> QED
      BY <2>4, <2>5, <2>6, Zenon DEF LogOK
  <1> QED
    BY <1>8, <1>9, <1>10, <1>12, <1>13 DEF IInv

-----------------------------------------------------------------------------
(* The theorems                                                            *)

LEMMA Stutter == IInv /\ UNCHANGED vars => IInv'
  <1> SUFFICES ASSUME IInv, UNCHANGED vars PROVE IInv'
    OBVIOUS
  <1>1. UNCHANGED <<updates, version, contents, stack, queue, noted, calls, log>>
    BY DEF vars
  <1>2. TypeOK'
    BY <1>1 DEF IInv, TypeOK
  <1>3. UpdatesOK'
    <2>1. \A u : HasValue(u)' <=> HasValue(u)
      BY <1>1 DEF HasValue, allocated
    <2> QED
      BY <2>1, <1>1 DEF IInv, UpdatesOK, allocated
  <1>4. StackOK'
    <2>1. \A m : FrameOK(stack[m])' <=> FrameOK(stack[m])
      BY <1>1 DEF FrameOK, StatementOf
    <2>2. \A m : InputsOK(m)' <=> InputsOK(m)
      <3>1. \A u : Ready(u)' <=> Ready(u)
        BY <1>1 DEF Ready, HasOps, allocated
      <3>2. \A m : StatementOf(stack[m])' = StatementOf(stack[m])
        BY <1>1 DEF StatementOf
      <3> QED
        BY <3>1, <3>2, <1>1 DEF InputsOK
    <2> QED
      BY <2>1, <2>2, <1>1 DEF IInv, StackOK
  <1>5. Top' = Top /\ allocated' = allocated
    BY <1>1 DEF Top, allocated
  <1>6. QueueOK'
    <2>1. \A t : AtEnd(t)' <=> AtEnd(t)
      BY <1>1, <1>5 DEF AtEnd
    <2>2. \A m \in DOMAIN stack' : AtEnd(stack[m].tensor)'
      BY <2>1, <1>1 DEF IInv, QueueOK
    <2>3. stack # <<>> /\ Top.at = "call" => AtEnd(Head(Top.todo))'
      BY <2>1, <1>5 DEF IInv, QueueOK
    <2> QED
      BY <2>1, <2>2, <2>3, <1>1, <1>5 DEF IInv, QueueOK
  <1>7. LogOK'
    <2>1. \A t, k, n : Passed(t, k, n)' <=> Passed(t, k, n)
      BY <1>1 DEF Passed, Queued
    <2> QED
      BY <2>1, <1>1, <1>5, LogKept DEF IInv
  <1> QED
    BY <1>2, <1>3, <1>4, <1>6, <1>7 DEF IInv

LEMMA NextIInv == IInv /\ [Next]_vars => IInv'
  <1>1. IInv /\ ExecuteStep => IInv'
    BY NextUpdateStep, NextTermStep, EndUpdateStep, LoopEndsStep, CheckInputStep, CallStep, QueueStep,
       RunStep, ReturnStep DEF ExecuteStep
  <1> QED
    BY <1>1, AddUpdateStep, ExecuteStepOK, ClearUpdatesStep, Stutter DEF Next

\* In every state the queue is made of entries that are right to execute in their
\* order, the calls wait for the inputs of earlier tensors, and what has been given to
\* the scheduler is either executed or queued (OpExecutor::execute).
THEOREM Invariance == Spec => []IInv
  <1>1. Init => IInv
    BY InitIInv
  <1>2. IInv /\ [Next]_vars => IInv'
    BY NextIInv
  <1> QED
    BY <1>1, <1>2, PTL DEF Spec

\* Versions never pass the number of updates, and calls are for the tensors of the
\* program (tensor_base.hpp, op_executor.hpp).
THEOREM TypeCorrect == Spec => []TypeOK
  <1>1. IInv => TypeOK
    BY DEF IInv
  <1> QED
    BY <1>1, Invariance, PTL

\* No entry of the queue allocates what is allocated, frees what is not an
\* intermediate or reads what is not there, and nothing of the terms is left when a
\* call returns (OpExecutor::execute, tensor_impl.hpp:254).
THEOREM AllocatedOnceCorrect == Spec => AllocatedOnce
  <1> DEFINE Right == CASE Head(queue).kind = "allocate" -> Head(queue).tensor \notin allocated
                        [] Head(queue).kind = "deallocate" -> Head(queue).tensor \in Intermediates
                        [] OTHER -> TensorsOf(Head(queue).op) \subseteq allocated
  <1>1. ASSUME IInv, queue # <<>>
        PROVE  Right
    <2>1. Head(queue) = queue[1] /\ 1 \in 1 .. Len(queue)
      BY <1>1, Popped DEF IInv, TypeOK
    <2>2. EntryOK(queue, allocated, 1)
      <3>1. \A j \in 1 .. Len(queue) : EntryOK(queue, allocated, j)
        BY <1>1 DEF IInv, QueueOK
      <3> QED
        BY <2>1, <3>1
    <2>3. \A t : Live(queue, allocated, t, 1) <=> t \in allocated
      <3>1. 1 .. 1 - 1 = {}
        OBVIOUS
      <3> QED
        BY <3>1 DEF Live
    <2>4. CASE queue[1].kind = "allocate"
      BY <2>1, <2>2, <2>3, <2>4 DEF EntryOK
    <2>5. CASE queue[1].kind = "deallocate"
      <3>1. queue[1].tensor \in Intermediates
        BY <2>2, <2>3, <2>5 DEF EntryOK, Intermediates
      <3> QED
        BY <2>1, <2>5, <3>1
    <2>6. CASE queue[1].kind = "op"
      <3>1. TensorsOf(queue[1].op) \subseteq allocated
        BY <2>2, <2>3, <2>6 DEF EntryOK
      <3> QED
        BY <2>1, <2>6, <3>1
    <2> QED
      BY <2>2, <2>4, <2>5, <2>6 DEF EntryOK
  <1>2. ASSUME IInv, Next, Len(stack') < Len(stack)
        PROVE  Intermediates = {}
    <2>1. stack \in Seq(Frame) /\ Len(stack) \in Nat
      BY <1>2 DEF IInv, TypeOK
    <2>2. ASSUME NEW f, stack' = [stack EXCEPT ![Len(stack)] = f] PROVE FALSE
      <3>1. \A q \in Seq(Frame) : \A g : Len([q EXCEPT ![Len(q)] = g]) = Len(q)
        OBVIOUS
      <3> QED
        BY <3>1, <2>1, <2>2, <1>2
    <2>3. ASSUME stack' = stack PROVE FALSE
      BY <2>1, <2>3, <1>2
    <2>4. ASSUME stack = <<>> PROVE FALSE
      <3>1. Len(stack) = 0
        BY <2>4, None
      <3>2. stack' \in Seq(Frame)
        BY <1>2, NextIInv DEF IInv, TypeOK
      <3>3. Len(stack') \in Nat
        BY <3>2
      <3> QED
        BY <3>1, <3>3, <1>2
    <2>5. ASSUME Call PROVE FALSE
      <3> DEFINE g == [Top EXCEPT !.at = "inputs", !.todo = Tail(Top.todo)]
                 S == [stack EXCEPT ![Len(stack)] = g]
                 h == FrameOf(Head(Top.todo), Top.use_opmin)
      <3>1. stack' = Append(S, h)
        BY <2>5 DEF Call
      <3>2. S \in Seq(Frame) /\ Len(S) = Len(stack)
        <4>1. stack # <<>> /\ Top.at = "call"
          BY <2>5 DEF Call
        <4>2. /\ Top \in Frame /\ Top.todo \in Seq(Tensors) /\ Top.todo # <<>>
              /\ Len(stack) \in Nat \ {0}
          BY <4>1, <1>2, LastCall DEF FrameOK
        <4>3. Tail(Top.todo) \in Seq(Tensors)
          BY <4>2, Rest
        <4>4. g \in Frame
          BY <4>2, <4>3 DEF Frame, Places
        <4> HIDE DEF g
        <4> QED
          BY <4>2, <4>4, <2>1
      <3> DEFINE R == Frame \cup {h}
      <3>3. S \in Seq(R) /\ h \in R
        <4>1. Frame \subseteq R /\ h \in R
          OBVIOUS
        <4> HIDE DEF R, S
        <4> QED
          BY <4>1, <3>2, Widened
      <3> HIDE DEF R, S, h
      <3>4. Len(Append(S, h)) = Len(S) + 1
        BY <3>3
      <3>5. Len(stack') = Len(stack) + 1
        BY <3>1, <3>2, <3>4
      <3> QED
        BY <3>5, <2>1, <1>2
    <2>6. CASE Return
      <3>1. queue = <<>>
        BY <2>6 DEF Return
      <3>2. \A t \in allocated : t \in Tensors
        BY <3>1, <1>2, NothingQueued DEF IInv, QueueOK
      <3> QED
        BY <3>2 DEF Intermediates
    <2>7. CASE ExecuteStep
      <3>1. NextUpdate \/ NextTerm \/ EndUpdate \/ LoopEnds \/ CheckInput \/ Queue => FALSE
        BY <2>2 DEF NextUpdate, NextTerm, EndUpdate, LoopEnds, CheckInput, Queue, SetTop
      <3>2. RunAllocation \/ RunDeallocation \/ RunOperation => FALSE
        BY <2>3 DEF RunAllocation, RunDeallocation, RunOperation
      <3> QED
        BY <2>5, <2>6, <2>7, <3>1, <3>2 DEF ExecuteStep
    <2>8. CASE \E s \in DOMAIN Program : AddUpdate(s)
      BY <2>4, <2>8 DEF AddUpdate
    <2>9. CASE \E t \in Tensors, use_opmin \in BOOLEAN : Execute(t, use_opmin)
      BY <2>4, <2>9 DEF Execute
    <2>10. CASE \E t \in Tensors : ClearUpdates(t)
      BY <2>4, <2>10 DEF ClearUpdates
    <2>11. CASE Terminated /\ UNCHANGED vars
      BY <2>3, <2>11 DEF vars
    <2> QED
      BY <2>7, <2>8, <2>9, <2>10, <2>11, <1>2 DEF Next
  <1> DEFINE Step == /\ queue # <<>> /\ queue' = Tail(queue) => Right
                     /\ Len(stack') < Len(stack) => Intermediates = {}
  <1>3. IInv /\ [Next]_vars => [Step]_vars
    BY <1>1, <1>2
  <1>4. AllocatedOnce <=> [][Step]_vars
    BY DEF AllocatedOnce
  <1> HIDE DEF Step
  <1> QED
    BY <1>3, <1>4, Invariance, PTL DEF Spec

-----------------------------------------------------------------------------
(* The refinement                                                          *)

Item(t, k, n) == [id |-> Id(t, k, n), uses |-> Uses(updates[t][k].stmt)]

LEMMA PendingIs ==
  ASSUME NEW t
  PROVE  \A x : x \in Pending(t) <=>
           \E k \in DOMAIN updates[t] : \E n \in TermsAt(t, k) : Id(t, k, n) \notin ToSet(log) /\ x = Item(t, k, n)
  <1> DEFINE Of(k) == {[id |-> <<updates[t][k].id, n>>, uses |-> Uses(updates[t][k].stmt)] :
                         n \in {m \in DOMAIN Program[updates[t][k].stmt].terms : <<updates[t][k].id, m>> \notin ToSet(log)}}
  <1>1. Pending(t) = UNION {Of(k) : k \in DOMAIN updates[t]}
    BY DEF Pending
  <1>2. ASSUME NEW k, NEW x
        PROVE  x \in Of(k) <=> \E n \in TermsAt(t, k) : Id(t, k, n) \notin ToSet(log) /\ x = Item(t, k, n)
    BY Zenon DEF TermsAt, Id, Item
  <1> HIDE DEF Of
  <1>3. \A x : x \in Pending(t) <=> \E k \in DOMAIN updates[t] : x \in Of(k)
    BY <1>1
  <1> QED
    BY <1>2, <1>3

LEMMA PendingIsNext ==
  ASSUME NEW t
  PROVE  \A x : x \in Pending(t)' <=>
           \E k \in DOMAIN updates'[t] : \E n \in TermsAt(t, k)' :
             Id(t, k, n)' \notin ToSet(log') /\ x = Item(t, k, n)'
  <1> DEFINE Of(k) == {[id |-> <<updates'[t][k].id, n>>, uses |-> Uses(updates'[t][k].stmt)] :
                         n \in {m \in DOMAIN Program[updates'[t][k].stmt].terms : <<updates'[t][k].id, m>> \notin ToSet(log')}}
  <1>1. Pending(t)' = UNION {Of(k) : k \in DOMAIN updates'[t]}
    BY DEF Pending
  <1>2. ASSUME NEW k, NEW x
        PROVE  x \in Of(k) <=> \E n \in TermsAt(t, k)' : Id(t, k, n)' \notin ToSet(log') /\ x = Item(t, k, n)'
    BY Zenon DEF TermsAt, Id, Item
  <1> HIDE DEF Of
  <1>3. \A x : x \in Pending(t)' <=> \E k \in DOMAIN updates'[t] : x \in Of(k)
    BY <1>1
  <1> QED
    BY <1>2, <1>3

LEMMA PendingKept ==
  ASSUME NEW t, updates'[t] = updates[t], log' = log
  PROVE  Pending(t)' = Pending(t)
  BY DEF Pending

LEMMA StepStutters ==
  ASSUME UNCHANGED <<updates, log>>
  PROVE  UNCHANGED <<[t \in Tensors |-> Pending(t)], log>>
  BY PendingKept

LEMMA NoteStep ==
  ASSUME IInv, NEW s \in DOMAIN Program, AddUpdate(s)
  PROVE  Lazy!Note(Program[s].tensor)
  <1> DEFINE t == Program[s].tensor
             e == [id |-> noted, stmt |-> s]
             last == Len(updates[t]) + 1
  <1>1. /\ noted \in Nat /\ t \in Tensors
        /\ \A u \in Tensors : u # t => updates'[u] = updates[u]
        /\ Len(updates[t]) \in Nat
        /\ DOMAIN updates[t] = 1 .. Len(updates[t])
        /\ DOMAIN updates'[t] = 1 .. Len(updates[t]) + 1
        /\ updates'[t][last] = e
        /\ \A k \in DOMAIN updates[t] : updates'[t][k] = updates[t][k]
        /\ log' = log
    BY Noted
  <1> HIDE DEF e, t
  <1>2. DOMAIN updates'[t] = DOMAIN updates[t] \cup {last} /\ e.id = noted
    <2>1. e.id = noted
      BY DEF e
    <2>2. DOMAIN updates'[t] = DOMAIN updates[t] \cup {last}
      BY <1>1
    <2> QED
      BY <2>1, <2>2
  <1>3. \A k \in DOMAIN updates[t] : /\ TermsAt(t, k)' = TermsAt(t, k)
                                     /\ \A n : Id(t, k, n)' = Id(t, k, n) /\ Item(t, k, n)' = Item(t, k, n)
    BY <1>1 DEF TermsAt, Id, Item, t
  <1>4. Pending(t) \subseteq Pending(t)'
    <2> SUFFICES ASSUME NEW x \in Pending(t) PROVE x \in Pending(t)'
      OBVIOUS
    <2>1. PICK k \in DOMAIN updates[t] : \E n \in TermsAt(t, k) : Id(t, k, n) \notin ToSet(log) /\ x = Item(t, k, n)
      BY PendingIs
    <2>2. PICK n \in TermsAt(t, k) : Id(t, k, n) \notin ToSet(log) /\ x = Item(t, k, n)
      BY <2>1
    <2>3. k \in DOMAIN updates'[t] /\ n \in TermsAt(t, k)' /\ Id(t, k, n)' \notin ToSet(log') /\ x = Item(t, k, n)'
      BY <2>2, <1>1, <1>2, <1>3
    <2> QED
      BY <2>3, PendingIsNext DEF t
  <1>5. ASSUME NEW x \in Pending(t)' \ Pending(t)
        PROVE  x.id[1] = noted
    <2>1. PICK k \in DOMAIN updates'[t] : \E n \in TermsAt(t, k)' : Id(t, k, n)' \notin ToSet(log') /\ x = Item(t, k, n)'
      BY PendingIsNext DEF t
    <2>2. PICK n \in TermsAt(t, k)' : Id(t, k, n)' \notin ToSet(log') /\ x = Item(t, k, n)'
      BY <2>1
    <2>3. k \notin DOMAIN updates[t]
      <3> SUFFICES ASSUME k \in DOMAIN updates[t] PROVE x \in Pending(t)
        BY <1>5
      <3>1. n \in TermsAt(t, k) /\ Id(t, k, n) \notin ToSet(log) /\ x = Item(t, k, n)
        BY <2>2, <1>1, <1>3
      <3> QED
        BY <3>1, PendingIs
    <2>4. updates'[t][k].id = noted
      BY <2>3, <1>1, <1>2
    <2>5. x.id = Id(t, k, n)'
      BY <2>2 DEF Item
    <2> QED
      BY <2>4, <2>5 DEF Id, t
  <1>6. ASSUME NEW x \in Pending(t)
        PROVE  x.id[1] < noted
    <2>1. PICK k \in DOMAIN updates[t] : \E n \in TermsAt(t, k) : x = Item(t, k, n)
      BY PendingIs
    <2>2. updates[t][k].id \in 0 .. noted - 1
      BY <1>1, UpdateFacts DEF IInv
    <2>3. x.id[1] = updates[t][k].id
      BY <2>1 DEF Item, Id
    <2> QED
      BY <2>2, <2>3, <1>1
  <1>7. ASSUME NEW new \in Pending(t)' \ Pending(t)
        PROVE  /\ new.id \notin ToSet(log)
               /\ \A old \in Pending(t) : Lazy!Precedes(old.id, new.id)
    <2>1. new.id[1] = noted
      BY <1>5
    <2>2. new.id \notin ToSet(log)
      <3>1. \A id \in ToSet(log) : id[1] < noted
        BY DEF IInv, UpdatesOK
      <3> QED
        BY <3>1, <2>1, <1>1
    <2> QED
      BY <2>1, <2>2, <1>6 DEF Lazy!Precedes
  <1>8. \A u \in Tensors : u # t => Pending(u)' = Pending(u)
    BY <1>1, PendingKept
  <1> DEFINE P == [u \in Tensors |-> Pending(u)]
  <1>9. P' = [P EXCEPT ![t] = P'[t]]
    BY <1>1, <1>8 DEF t
  <1>10. P[t] = Pending(t) /\ P'[t] = Pending(t)'
    BY <1>1 DEF t
  <1>11. P[t] \subseteq P'[t] /\ \A new \in P'[t] \ P[t] :
           /\ new.id \notin ToSet(log)
           /\ \A old \in P[t] : Lazy!Precedes(old.id, new.id)
    <2> HIDE DEF P
    <2> QED
      BY <1>4, <1>7, <1>10
  <1>12. Lazy!ToSet(log) = ToSet(log)
    BY DEF Lazy!ToSet, ToSet
  <1>13. UNCHANGED log
    BY <1>1
  <1> QED
    BY <1>9, <1>11, <1>12, <1>13, Zenon DEF Lazy!Note, t

LEMMA ForgetStep ==
  ASSUME IInv, NEW t \in Tensors, ClearUpdates(t)
  PROVE  Lazy!Forget(t)
  <1>1. /\ updates'[t] = <<>> /\ log' = log
        /\ \A u \in Tensors : u # t => updates'[u] = updates[u]
    BY DEF ClearUpdates, IInv, TypeOK
  <1>2. DOMAIN updates'[t] = {}
    BY <1>1
  <1>3. Pending(t)' = {}
    BY <1>2, PendingIsNext
  <1>4. \A u \in Tensors : u # t => Pending(u)' = Pending(u)
    BY <1>1, PendingKept
  <1> QED
    BY <1>1, <1>3, <1>4 DEF Lazy!Forget

\* What is pending of a tensor is pending in the order in which it is given to the
\* scheduler: nothing that is not queued precedes what is.
LEMMA QueuedFirst ==
  ASSUME IInv, Running, NEW k \in DOMAIN updates[Top.tensor], NEW m \in DOMAIN updates[Top.tensor],
         NEW n \in TermsAt(Top.tensor, k), NEW o \in TermsAt(Top.tensor, m),
         Queued(Top, k, n), ~Queued(Top, m, o)
  PROVE  Lazy!Precedes(Id(Top.tensor, k, n), Id(Top.tensor, m, o))
  <1>1. /\ Top.tensor \in Tensors /\ Top.i \in Nat /\ Top.term \in Nat /\ FrameOK(Top)
        /\ DOMAIN updates[Top.tensor] = 1 .. Len(updates[Top.tensor]) /\ Len(updates[Top.tensor]) \in Nat
    BY LastCall DEF Running
  <1>2. k \in Nat /\ m \in Nat /\ m <= Len(updates[Top.tensor]) /\ n \in Nat /\ o \in Nat
    BY <1>1, UpdateFacts DEF IInv
  <1>3. Top.at = "call"
    <2>1. Top.at = "end" => Queued(Top, m, o)
      BY <1>1, <1>2 DEF FrameOK, Queued
    <2> QED
      BY <2>1 DEF Running
  <1>4. k < m \/ (k = m /\ n < o)
    BY <1>1, <1>2, <1>3 DEF Queued
  <1>5. k < m => updates[Top.tensor][k].id < updates[Top.tensor][m].id
    BY <1>1 DEF IInv, UpdatesOK
  <1> QED
    BY <1>4, <1>5 DEF Lazy!Precedes, Id

\* All updates of a tensor that needs no operations have been evaluated.
LEMMA NothingPending ==
  ASSUME IInv, stack # <<>>, NEW u \in Tensors, u # Top.tensor, ~HasOps(u)
  PROVE  Pending(u) = {}
  <1> SUFFICES ASSUME NEW x \in Pending(u) PROVE FALSE
    OBVIOUS
  <1>1. PICK k \in DOMAIN updates[u] : \E n \in TermsAt(u, k) : Id(u, k, n) \notin ToSet(log) /\ x = Item(u, k, n)
    BY PendingIs
  <1>2. PICK n \in TermsAt(u, k) : Id(u, k, n) \notin ToSet(log)
    BY <1>1
  <1>3. k <= version[u]
    <2>1. /\ Len(updates[u]) \in Nat /\ DOMAIN updates[u] = 1 .. Len(updates[u]) /\ version[u] \in Nat
      BY UpdateFacts DEF IInv
    <2>2. Len(updates[u]) - version[u] = 0
      BY DEF HasOps
    <2> QED
      BY <2>1, <2>2
  <1>4. Passed(u, k, n)
    BY <1>3 DEF Passed
  <1>5. InQueue(Id(u, k, n))
    BY <1>2, <1>4 DEF IInv, LogOK
  <1>6. PICK j \in 1 .. Len(queue) : Marks(queue[j]) /\ queue[j].id = Id(u, k, n)
    BY <1>5 DEF InQueue
  <1>7. \E m \in DOMAIN updates[Top.tensor] : \E o \in TermsAt(Top.tensor, m) : queue[j].id = Id(Top.tensor, m, o)
    BY <1>6, MarkedIds
  <1>8. PICK m \in DOMAIN updates[Top.tensor] : \E o \in TermsAt(Top.tensor, m) : queue[j].id = Id(Top.tensor, m, o)
    BY <1>7
  <1>9. PICK o \in TermsAt(Top.tensor, m) : Id(u, k, n) = Id(Top.tensor, m, o)
    BY <1>6, <1>8
  <1>10. Top.tensor \in Tensors
    BY LastCall
  <1>11. u = Top.tensor
    BY <1>9, <1>10, SameId
  <1> QED
    BY <1>11

LEMMA EvaluateStep ==
  ASSUME IInv, Running, Marks(queue[1]), log' = Append(log, queue[1].id), queue' = Tail(queue),
         UNCHANGED <<updates, version, stack>>
  PROVE  \E t \in Tensors : Lazy!Evaluate(t)
  <1> DEFINE T == Top.tensor
  <1>1. /\ stack # <<>> /\ queue # <<>> /\ IsSequence(queue) /\ T \in Tensors
    BY LastCall DEF Running, IInv, TypeOK
  <1>2. 1 \in 1 .. Len(queue) /\ Len(queue) \in Nat
    BY <1>1, Popped, SequenceFacts
  <1>3. /\ queue[1].id \notin ToSet(log) /\ InQueue(queue[1].id) /\ queue[1].id \in Nat \X Nat
        /\ \E k \in DOMAIN updates[Top.tensor] : \E n \in TermsAt(Top.tensor, k) :
             /\ queue[1].id = Id(Top.tensor, k, n)
             /\ \A u \in Uses(updates[Top.tensor][k].stmt) : ~HasOps(u)
    BY <1>1, <1>2, MarkedIds
  <1>4. PICK k \in DOMAIN updates[T] : \E n \in TermsAt(T, k) :
             /\ queue[1].id = Id(T, k, n)
             /\ \A u \in Uses(updates[T][k].stmt) : ~HasOps(u)
    BY <1>3
  <1>5. PICK n \in TermsAt(T, k) :
             /\ queue[1].id = Id(T, k, n)
             /\ \A u \in Uses(updates[T][k].stmt) : ~HasOps(u)
    BY <1>4
  <1> DEFINE first == Item(T, k, n)
  <1>6. first \in Pending(T) /\ first.id = queue[1].id /\ first.uses = Uses(updates[T][k].stmt)
    <2>1. first \in Pending(T)
      BY <1>3, <1>5, PendingIs
    <2> QED
      BY <2>1, <1>5 DEF Item
  <1> HIDE DEF first, T
  <1>7. \A u \in first.uses : u \in Tensors /\ u # T
    <2>1. updates[T][k].stmt \in DOMAIN Program /\ Program[updates[T][k].stmt].tensor = T
      BY <1>1, UpdateFacts DEF IInv
    <2>2. Uses(updates[T][k].stmt) \subseteq Tensors /\ \A u \in Uses(updates[T][k].stmt) : u < T
      BY <2>1, ProgramFacts
    <2>3. \A x \in Tensors : x \in Int
      BY TensorsAreNumbers
    <2> QED
      BY <2>2, <2>3, <1>1, <1>6
  <1>8. \A u \in first.uses : Pending(u) = {}
    BY <1>1, <1>5, <1>6, <1>7, NothingPending DEF T
  <1>9. ASSUME NEW other \in Pending(T) \ {first}
        PROVE  Lazy!Precedes(first.id, other.id) /\ other.id # first.id
    <2>1. PICK m \in DOMAIN updates[T] : \E o \in TermsAt(T, m) : Id(T, m, o) \notin ToSet(log) /\ other = Item(T, m, o)
      BY PendingIs
    <2>2. PICK o \in TermsAt(T, m) : Id(T, m, o) \notin ToSet(log) /\ other = Item(T, m, o)
      BY <2>1
    <2>3. other.id = Id(T, m, o)
      BY <2>2 DEF Item
    <2>4. other.id # first.id
      <3> SUFFICES ASSUME Id(T, m, o) = Id(T, k, n) PROVE FALSE
        BY <2>3, <1>5, <1>6
      <3>1. m = k /\ o = n
        BY <1>1, SameId
      <3> QED
        BY <3>1, <2>2, <1>9 DEF first
    <2>5. CASE Passed(T, m, o)
      <3>1. InQueue(Id(T, m, o))
        BY <2>2, <2>5, <1>1 DEF IInv, LogOK
      <3>2. PICK j \in 1 .. Len(queue) : Marks(queue[j]) /\ queue[j].id = Id(T, m, o)
        BY <3>1 DEF InQueue
      <3>3. 1 < j
        BY <3>2, <2>3, <2>4, <1>2, <1>6
      <3>4. Lazy!Precedes(queue[1].id, queue[j].id)
        BY <3>2, <3>3, <1>2 DEF IInv, LogOK
      <3> QED
        BY <3>2, <3>4, <2>3, <2>4, <1>6
    <2>6. CASE ~Passed(T, m, o)
      <3>1. ~Queued(Top, m, o)
        BY <2>6, <1>1, TopPassed DEF T
      <3>2. Passed(T, k, n)
        BY <1>1, <1>3, <1>5 DEF IInv, LogOK
      <3>3. Queued(Top, k, n)
        BY <3>2, <1>1, TopPassed DEF T
      <3>4. Lazy!Precedes(Id(T, k, n), Id(T, m, o))
        BY <3>1, <3>3, QueuedFirst DEF T
      <3> QED
        BY <3>4, <2>3, <2>4, <1>5, <1>6
    <2> QED
      BY <2>5, <2>6
  <1>10. ToSet(log') = ToSet(log) \cup {first.id}
    <2> DEFINE N == Nat \X Nat
               id == queue[1].id
    <2>1. log \in Seq(N) /\ id \in N
      BY <1>3 DEF IInv, TypeOK
    <2> HIDE DEF N, id
    <2>2. ToSet(Append(log, id)) = ToSet(log) \cup {id}
      BY <2>1, Appended
    <2> QED
      BY <2>2, <1>6 DEF id
  <1>11. ASSUME NEW u \in Tensors
         PROVE  \A x : x \in Pending(u)' <=> x \in Pending(u) /\ x.id # first.id
    <2>1. \A m, o : TermsAt(u, m)' = TermsAt(u, m) /\ Id(u, m, o)' = Id(u, m, o) /\ Item(u, m, o)' = Item(u, m, o)
      BY DEF TermsAt, Id, Item
    <2>2. \A m, o : Item(u, m, o).id = Id(u, m, o)
      BY DEF Item
    <2>3. \A x : x \in Pending(u)' <=>
            \E m \in DOMAIN updates[u] : \E o \in TermsAt(u, m) :
              Id(u, m, o) \notin ToSet(log) \cup {first.id} /\ x = Item(u, m, o)
      BY <2>1, <1>10, PendingIsNext
    <2> QED
      BY <2>2, <2>3, PendingIs
  <1>12. PICK t \in Tensors : t = T
    BY <1>1
  <1>13. ASSUME NEW u \in Tensors, u # T
         PROVE  Pending(u)' = Pending(u)
    <2>1. ASSUME NEW x \in Pending(u) PROVE x.id # first.id
      <3>1. PICK m \in DOMAIN updates[u] : \E o \in TermsAt(u, m) : x = Item(u, m, o)
        BY PendingIs
      <3>2. PICK o \in TermsAt(u, m) : x = Item(u, m, o)
        BY <3>1
      <3>3. x.id = Id(u, m, o) /\ first.id = Id(T, k, n)
        BY <3>2, <1>5, <1>6 DEF Item
      <3> QED
        BY <3>3, <1>1, <1>13, SameId
    <2> QED
      BY <2>1, <1>11
  <1> DEFINE P == [u \in Tensors |-> Pending(u)]
  <1>14. Pending(t)' = Pending(t) \ {first}
    <2>1. \A x : x \in Pending(t)' <=> x \in Pending(t) /\ x.id # first.id
      BY <1>11
    <2>2. \A x \in Pending(t) : x # first => x.id # first.id
      BY <1>9, <1>12
    <2> QED
      BY <2>1, <2>2
  <1>15. P' = [P EXCEPT ![t] = P[t] \ {first}]
    BY <1>12, <1>13, <1>14
  <1>16. first \in P[t] /\ P[t] = Pending(t) /\ \A u \in first.uses : P[u] = {}
    BY <1>6, <1>7, <1>8, <1>12
  <1>17. \A other \in P[t] \ {first} : Lazy!Precedes(first.id, other.id)
    BY <1>9, <1>12, <1>16
  <1>18. log' = Append(log, first.id)
    BY <1>6
  <1> HIDE DEF P
  <1>19. \E x \in P[t] :
           /\ \A other \in P[t] \ {x} : Lazy!Precedes(x.id, other.id)
           /\ \A u \in x.uses : P[u] = {}
           /\ log' = Append(log, x.id)
           /\ P' = [P EXCEPT ![t] = P[t] \ {x}]
    BY <1>15, <1>16, <1>17, <1>18
  <1>20. Lazy!Evaluate(t)
    BY <1>19, Zenon DEF Lazy!Evaluate, P
  <1> QED
    BY <1>20

LEMMA LazyStep ==
  ASSUME IInv, [Next]_vars
  PROVE  [Lazy!Next]_<<[t \in Tensors |-> Pending(t)], log>>
  <1> DEFINE Same == UNCHANGED <<[t \in Tensors |-> Pending(t)], log>>
  <1>1. ASSUME NEW s \in DOMAIN Program, AddUpdate(s) PROVE Lazy!Next
    <2>1. Program[s].tensor \in Tensors
      BY ProgramFacts
    <2> QED
      BY <2>1, <1>1, NoteStep DEF Lazy!Next
  <1>2. ASSUME NEW t \in Tensors, NEW use_opmin \in BOOLEAN, Execute(t, use_opmin) PROVE Same
    BY <1>2, StepStutters DEF Execute
  <1>3. ASSUME NEW t \in Tensors, ClearUpdates(t) PROVE Lazy!Next
    BY <1>3, ForgetStep DEF Lazy!Next
  <1>4. ASSUME NextUpdate \/ NextTerm \/ EndUpdate \/ LoopEnds \/ CheckInput \/ Call \/ Queue \/ Return PROVE Same
    <2>1. UNCHANGED <<updates, log>>
      BY <1>4 DEF NextUpdate, NextTerm, EndUpdate, LoopEnds, CheckInput, Call, Queue, Return
    <2> QED
      BY <2>1, StepStutters
  <1>5. ASSUME RunAllocation \/ RunDeallocation \/ RunOperation PROVE Lazy!Next \/ Same
    <2>1. Running
      BY <1>5 DEF RunAllocation, RunDeallocation, RunOperation
    <2>2. /\ queue' = Tail(queue) /\ UNCHANGED <<updates, version, stack>>
          /\ \/ log' = log
             \/ log' = Append(log, queue[1].id) /\ Marks(queue[1])
      BY <2>1, <1>5, RunFacts
    <2>3. CASE log' = log
      BY <2>2, <2>3, StepStutters
    <2>4. CASE log' = Append(log, queue[1].id) /\ Marks(queue[1])
      <3>1. \E t \in Tensors : Lazy!Evaluate(t)
        BY <2>1, <2>2, <2>4, EvaluateStep
      <3> QED
        BY <3>1 DEF Lazy!Next
    <2> QED
      BY <2>2, <2>3, <2>4
  <1>6. ASSUME UNCHANGED vars PROVE Same
    BY <1>6, StepStutters DEF vars
  <1> HIDE DEF Same
  <1>7. Lazy!Next \/ Same
    BY <1>1, <1>2, <1>3, <1>4, <1>5, <1>6 DEF Next, ExecuteStep
  <1> QED
    BY <1>7 DEF Same

\* Every term of an update is evaluated once, those of one tensor in the order of the
\* updates, and only when nothing is pending of the tensors it uses, through all
\* nested calls of OpExecutor::execute.
THEOREM LazyCorrect == Spec => LazySpec
  <1>1. Init => Lazy!Init
    <2> SUFFICES ASSUME Init PROVE Lazy!Init
      OBVIOUS
    <2>1. log = <<>> /\ \A t \in Tensors : DOMAIN updates[t] = {}
      BY DEF Init
    <2>2. \A t \in Tensors : Pending(t) = {}
      BY <2>1, PendingIs
    <2> QED
      BY <2>1, <2>2 DEF Lazy!Init
  <1>2. IInv /\ [Next]_vars => [Lazy!Next]_<<[t \in Tensors |-> Pending(t)], log>>
    BY LazyStep
  <1> QED
    BY <1>1, <1>2, Invariance, PTL DEF Spec, LazySpec, Lazy!Spec

=============================================================================
