------------------------------- MODULE Lemmas --------------------------------
(***************************************************************************)
(* Facts about data that the proofs of several modules use: the least of a *)
(* set of numbers, what lies in a range ordered by level, and sums over    *)
(* finite sets.                                                            *)
(***************************************************************************)
EXTENDS FiniteSetsExt, FiniteSetTheorems, WellFoundedInduction, TLAPS

\* A set of finite sets has a member with no smaller member.
LEMMA SmallestSet ==
  ASSUME NEW S, IsFiniteSet(S), NEW T, T \subseteq SUBSET S, T # {}
  PROVE  \E s \in T : \A t \in T : t \subseteq s => t = s
  <1> DEFINE R == StrictSubsetOrdering(S)
  <1>1. IsWellFoundedOn(R, SUBSET S)
    BY FS_StrictSubsetOrderingWellFounded, FS_FiniteSubsetsOfFinite
  <1>2. \E s \in T : \A t \in T : ~ (<<t, s>> \in R)
    <2> HIDE DEF R
    <2>1. QED
      BY <1>1, WFMin
  <1>3. PICK s \in T : \A t \in T : ~ (<<t, s>> \in R)
    BY <1>2
  <1>4. ASSUME NEW t \in T, t \subseteq s, t # s
        PROVE  FALSE
    <2>1. <<t, s>> \in (SUBSET S) \X (SUBSET S)
      OBVIOUS
    <2>2. <<t, s>> \in R
      BY <1>4, <2>1 DEF StrictSubsetOrdering
    <2>3. QED
      BY <1>3, <2>2
  <1>5. QED
    BY <1>4

\* The image of a finite set is finite.
LEMMA FiniteImage ==
  ASSUME NEW S, IsFiniteSet(S), NEW f
  PROVE  IsFiniteSet({f[x] : x \in S})
  <1> DEFINE T == {f[x] : x \in S}
             g == [x \in S |-> f[x]]
  <1>1. g \in Surjection(S, T)
    BY DEF Surjection
  <1>2. QED
    BY <1>1, FS_Surjection

LEMMA LeastNat ==
  ASSUME NEW T, T \subseteq Nat, T # {}
  PROVE  \E m \in T : \A k \in T : m <= k
  <1>1. PICK m \in T : \A k \in T : ~(<<k, m>> \in OpToRel(<, Nat))
    BY NatLessThanWellFounded, WFMin, Zenon
  <1>2. \A k \in T : ~(k < m)
    BY <1>1 DEF OpToRel
  <1>3. QED
    BY <1>2

-----------------------------------------------------------------------------
(* Orders by level.                                                        *)

\* Ordered by level, what lies in a range starts on level 0 and rises one level at
\* a time, if whatever is on a level above 0 has something one level below.
LEMMA OrderRisesByOne ==
  ASSUME NEW first \in Int, NEW last \in Int, first <= last,
         NEW level, \A k \in first .. last : level[k] \in Nat, NEW order,
         \A j \in first .. last :
           level[j] = 0 \/ \E i \in first .. last : level[j] = level[i] + 1,
         \A k \in first .. last : order[k] \in first .. last,
         \A o \in first .. last : \E k \in first .. last : order[k] = o,
         \A k, l \in first .. last : k < l => level[order[k]] <= level[order[l]]
  PROVE  /\ level[order[first]] = 0
         /\ \A k \in first .. last - 1 : level[order[k + 1]] <= level[order[k]] + 1
  <1> DEFINE S == first .. last
  <1>1. ASSUME NEW k \in S, level[order[k]] # 0
        PROVE  \E m \in S : m < k /\ level[order[k]] = level[order[m]] + 1
    <2>1. order[k] \in S
      OBVIOUS
    <2>2. PICK a \in S : level[order[k]] = level[a] + 1
      BY <1>1, <2>1
    <2>3. PICK m \in S : order[m] = a
      OBVIOUS
    <2>4. level[order[k]] = level[order[m]] + 1 /\ level[order[m]] \in Nat
      BY <2>2, <2>3
    <2>5. k < m => level[order[k]] <= level[order[m]]
      OBVIOUS
    <2> DEFINE x == level[order[k]]  z == level[order[m]]
    <2>6. x = z + 1 /\ z \in Nat /\ (k < m => x <= z) /\ (k = m => x = z)
      BY <2>4, <2>5
    <2> HIDE DEF x, z
    <2>7. m < k
      BY <2>6
    <2> USE DEF x, z
    <2>8. QED
      BY <2>4, <2>7
  <1>2. level[order[first]] = 0
    BY <1>1
  <1>3. ASSUME NEW k \in first .. last - 1
        PROVE  level[order[k + 1]] <= level[order[k]] + 1
    <2>1. k \in S /\ k + 1 \in S
      OBVIOUS
    <2>2. level[order[k]] \in Nat /\ level[order[k + 1]] \in Nat
      BY <2>1
    <2>3. CASE level[order[k + 1]] # 0
      <3>1. PICK m \in S : m < k + 1 /\ level[order[k + 1]] = level[order[m]] + 1
        BY <1>1, <2>1, <2>3
      <3>2. m < k => level[order[m]] <= level[order[k]]
        BY <2>1
      <3>3. order[m] \in S
        OBVIOUS
      <3>4. level[order[m]] \in Nat
        BY <3>3
      <3>5. m < k \/ m = k
        BY <3>1
      <3>6. level[order[m]] <= level[order[k]]
        BY <2>2, <3>2, <3>5
      <3> DEFINE x == level[order[k + 1]]  y == level[order[k]]  z == level[order[m]]
      <3>7. x \in Nat /\ y \in Nat /\ z \in Nat /\ x = z + 1 /\ z <= y
        BY <2>2, <3>1, <3>4, <3>6
      <3> HIDE DEF x, y, z
      <3>8. x <= y + 1
        BY <3>7
      <3>9. QED
        BY <3>8 DEF x, y
    <2>4. QED
      BY <2>2, <2>3
  <1>4. QED
    BY <1>2, <1>3

-----------------------------------------------------------------------------
(* Sums over finite sets.  SumFunctionOnSet(f, S) is a function of the     *)
(* subsets of S that takes one element away at a time; first, that there   *)
(* is one such function.                                                   *)

Some(s) == CHOOSE x \in s : TRUE

\* Sums and products, which differ in the operation and in what nothing comes to.
Combined(op, a, b) == IF op = "sum" THEN a + b ELSE a * b
Neutral(op) == IF op = "sum" THEN 0 ELSE 1

FoldsUp(op, f, S, F) ==
  F = [s \in SUBSET S |-> IF s = {} THEN Neutral(op)
                          ELSE Combined(op, f[Some(s)], F[s \ {Some(s)}])]

LEMMA SomeOf ==
  ASSUME NEW s, s # {}
  PROVE  Some(s) \in s
  BY DEF Some

\* Two such functions agree where both are defined.
LEMMA FoldsAgree ==
  ASSUME NEW op, NEW S, IsFiniteSet(S), NEW T, NEW f, NEW F, NEW G,
         FoldsUp(op, f, S, F), FoldsUp(op, f, T, G), NEW s \in SUBSET S, s \in SUBSET T
  PROVE  F[s] = G[s]
  <1> DEFINE Bad == {t \in SUBSET s : F[t] # G[t]}
  <1> SUFFICES ASSUME Bad # {}
               PROVE  FALSE
    OBVIOUS
  <1>1. PICK t \in Bad : \A u \in Bad : u \subseteq t => u = t
    <2>1. IsFiniteSet(s) /\ Bad \subseteq SUBSET s
      BY FS_Subset
    <2> HIDE DEF Bad
    <2>2. QED
      BY <2>1, SmallestSet
  <1>2. t \in SUBSET S /\ t \in SUBSET T
    OBVIOUS
  <1>3. t # {}
    BY <1>2 DEF FoldsUp
  <1> DEFINE u == t \ {Some(t)}
  <1>4. /\ F[t] = Combined(op, f[Some(t)], F[u])
        /\ G[t] = Combined(op, f[Some(t)], G[u])
    BY <1>2, <1>3 DEF FoldsUp
  <1>5. u \subseteq t /\ u # t
    BY <1>3, SomeOf
  <1>6. F[u] = G[u]
    BY <1>1, <1>5
  <1>7. QED
    BY <1>4, <1>6

LEMMA FoldExists ==
  ASSUME NEW op, NEW S, IsFiniteSet(S), NEW f
  PROVE  \E F : FoldsUp(op, f, S, F)
  <1> DEFINE Bad == {s \in SUBSET S : ~ \E F : FoldsUp(op, f, s, F)}
  <1> SUFFICES ASSUME Bad # {}
               PROVE  FALSE
    OBVIOUS
  <1>1. PICK m \in Bad : \A u \in Bad : u \subseteq m => u = m
    <2>1. Bad \subseteq SUBSET S
      OBVIOUS
    <2> HIDE DEF Bad
    <2>2. QED
      BY <2>1, SmallestSet
  <1> DEFINE Of(t) == CHOOSE F : FoldsUp(op, f, t, F)
             G == [s \in SUBSET m |->
                     IF s = {} THEN Neutral(op)
                     ELSE Combined(op, f[Some(s)], Of(s \ {Some(s)})[s \ {Some(s)}])]
  <1>2. \A t \in SUBSET m : t # m => FoldsUp(op, f, t, Of(t))
    BY <1>1
  <1>3. \A t \in SUBSET m : t # m => IsFiniteSet(t)
    BY FS_Subset
  <1> HIDE DEF Of
  <1>4. ASSUME NEW t \in SUBSET m, t # m
        PROVE  G[t] = Of(t)[t]
    <2>1. FoldsUp(op, f, t, Of(t))
      BY <1>2, <1>4
    <2>2. CASE t = {}
      BY <2>1, <2>2 DEF FoldsUp
    <2>3. CASE t # {}
      <3> DEFINE u == t \ {Some(t)}
      <3>1. Of(t)[t] = Combined(op, f[Some(t)], Of(t)[u])
        BY <2>1, <2>3 DEF FoldsUp
      <3>2. u \subseteq t /\ u \in SUBSET m /\ u # m
        BY <2>3, SomeOf
      <3>3. FoldsUp(op, f, u, Of(u)) /\ IsFiniteSet(t)
        BY <1>2, <1>3, <1>4, <3>2
      <3>4. Of(t)[u] = Of(u)[u]
        BY <2>1, <3>2, <3>3, FoldsAgree
      <3>5. QED
        BY <2>3, <3>1, <3>4
    <2>4. QED
      BY <2>2, <2>3
  <1>5. ASSUME NEW s \in SUBSET m
        PROVE  G[s] = IF s = {} THEN Neutral(op)
                 ELSE Combined(op, f[Some(s)], G[s \ {Some(s)}])
    <2>1. CASE s = {}
      BY <2>1
    <2>2. CASE s # {}
      <3> DEFINE u == s \ {Some(s)}
      <3>1. u \in SUBSET m /\ u # m
        BY <2>2, SomeOf
      <3>2. G[u] = Of(u)[u]
        BY <1>4, <3>1
      <3>3. QED
        BY <2>2, <3>2
    <2>3. QED
      BY <2>1, <2>2
  <1>6. FoldsUp(op, f, m, G)
    BY <1>5 DEF FoldsUp
  <1>7. QED
    BY <1>1, <1>6

LEMMA SumIs ==
  ASSUME NEW S, IsFiniteSet(S), NEW f
  PROVE  \E F : FoldsUp("sum", f, S, F) /\ SumFunctionOnSet(f, S) = F[S]
  <1> DEFINE Is(G) == G = [s \in SUBSET S |->
                        IF s = {} THEN 0
                        ELSE f[CHOOSE x \in s : TRUE] + G[s \ {CHOOSE x \in s : TRUE}]]
             F == CHOOSE F : Is(F)
  <1>1. SumFunctionOnSet(f, S) = F[S]
    BY DEF SumFunctionOnSet, FoldFunctionOnSet, MapThenFoldSet
  <1>2. \A G : FoldsUp("sum", f, S, G) => Is(G)
    <2>1. Neutral("sum") = 0 /\ \A a, b : Combined("sum", a, b) = a + b
      BY DEF Neutral, Combined
    <2>2. QED
      BY <2>1 DEF FoldsUp, Some
  <1>5. \A G : Is(G) => FoldsUp("sum", f, S, G)
    <2>1. Neutral("sum") = 0 /\ \A a, b : Combined("sum", a, b) = a + b
      BY DEF Neutral, Combined
    <2>2. QED
      BY <2>1 DEF FoldsUp, Some
  <1>6. \E G : FoldsUp("sum", f, S, G)
    BY FoldExists
  <1> HIDE DEF Is
  <1>3. FoldsUp("sum", f, S, F)
    BY <1>2, <1>5, <1>6
  <1> HIDE DEF F
  <1>4. QED
    BY <1>1, <1>3

\* The sum over a set in terms of the sum over the set without one element.
LEMMA SumUnfold ==
  ASSUME NEW S, IsFiniteSet(S), NEW f
  PROVE  SumFunctionOnSet(f, S) =
           IF S = {} THEN 0 ELSE f[Some(S)] + SumFunctionOnSet(f, S \ {Some(S)})
  <1>1. PICK F : FoldsUp("sum", f, S, F) /\ SumFunctionOnSet(f, S) = F[S]
    BY SumIs
  <1>2. CASE S = {}
    BY <1>1, <1>2 DEF FoldsUp, Combined, Neutral
  <1>3. CASE S # {}
    <2> DEFINE u == S \ {Some(S)}
    <2>1. IsFiniteSet(u) /\ u \in SUBSET S
      BY FS_Subset
    <2>2. PICK G : FoldsUp("sum", f, u, G) /\ SumFunctionOnSet(f, u) = G[u]
      <3> HIDE DEF u
      <3>1. QED
        BY <2>1, SumIs
    <2>3. F[u] = G[u]
      BY <1>1, <2>1, <2>2, FoldsAgree
    <2>4. F[S] = f[Some(S)] + F[u]
      BY <1>1, <1>3 DEF FoldsUp, Combined, Neutral
    <2>5. QED
      BY <1>1, <1>3, <2>2, <2>3, <2>4
  <1>4. QED
    BY <1>2, <1>3

LEMMA SumEmpty ==
  ASSUME NEW f
  PROVE  SumFunctionOnSet(f, {}) = 0
  BY SumUnfold, FS_EmptySet

LEMMA SumType ==
  ASSUME NEW S, IsFiniteSet(S), NEW f, \A x \in S : f[x] \in Int
  PROVE  SumFunctionOnSet(f, S) \in Int
  <1> DEFINE Bad == {s \in SUBSET S : SumFunctionOnSet(f, s) \notin Int}
  <1> SUFFICES ASSUME Bad # {}
               PROVE  FALSE
    OBVIOUS
  <1>1. PICK s \in Bad : \A u \in Bad : u \subseteq s => u = s
    <2>1. Bad \subseteq SUBSET S
      OBVIOUS
    <2> HIDE DEF Bad
    <2>2. QED
      BY <2>1, SmallestSet
  <1>2. IsFiniteSet(s)
    BY FS_Subset
  <1>3. s # {}
    BY SumEmpty
  <1> DEFINE u == s \ {Some(s)}
  <1>4. u \subseteq s /\ u # s /\ f[Some(s)] \in Int
    BY <1>3, SomeOf
  <1>5. SumFunctionOnSet(f, u) \in Int
    BY <1>1, <1>4
  <1>6. SumFunctionOnSet(f, s) = f[Some(s)] + SumFunctionOnSet(f, u)
    BY <1>2, <1>3, SumUnfold
  <1>7. QED
    BY <1>4, <1>5, <1>6

\* Any element can be taken out.
LEMMA SumRemove ==
  ASSUME NEW S, IsFiniteSet(S), NEW f, \A x \in S : f[x] \in Int, NEW e \in S
  PROVE  SumFunctionOnSet(f, S) = f[e] + SumFunctionOnSet(f, S \ {e})
  <1> DEFINE Sum(s) == SumFunctionOnSet(f, s)
             Bad == {s \in SUBSET S : \E d \in s : Sum(s) # f[d] + Sum(s \ {d})}
  <1> SUFFICES ASSUME Bad # {}
               PROVE  FALSE
    OBVIOUS
  <1>1. PICK s \in Bad : \A u \in Bad : u \subseteq s => u = s
    <2>1. Bad \subseteq SUBSET S
      OBVIOUS
    <2> HIDE DEF Bad
    <2>2. QED
      BY <2>1, SmallestSet
  <1>2. \A t \in SUBSET s : IsFiniteSet(t) /\ Sum(t) \in Int
    <2>1. \A t \in SUBSET s : IsFiniteSet(t) /\ \A x \in t : f[x] \in Int
      BY FS_Subset
    <2>2. QED
      BY <2>1, SumType
  <1>3. PICK d \in s : Sum(s) # f[d] + Sum(s \ {d})
    OBVIOUS
  <1>4. \A u \in SUBSET s : u # s => \A x \in u : Sum(u) = f[x] + Sum(u \ {x})
    BY <1>1
  <1> HIDE DEF Sum, Bad
  <1> DEFINE p == Some(s)
             v == s \ {d}
  <1>5. p \in s /\ f[p] \in Int /\ f[d] \in Int /\ s \in SUBSET S
    BY SomeOf DEF Bad
  <1>6. Sum(s) = f[p] + Sum(s \ {p})
    BY <1>2, <1>3, SumUnfold DEF Sum
  <1>7. p # d
    BY <1>3, <1>6
  <1>8. Sum(s \ {p}) = f[d] + Sum((s \ {p}) \ {d})
    BY <1>4, <1>5, <1>7
  <1>9. Sum(v) = f[p] + Sum(v \ {p})
    BY <1>4, <1>5, <1>7
  <1>10. (s \ {p}) \ {d} = v \ {p}
    OBVIOUS
  <1>11. Sum(v \ {p}) \in Int /\ Sum(v) \in Int
    BY <1>2
  <1> DEFINE w == v \ {p}
  <1>12. Sum(s) = f[p] + (f[d] + Sum(w)) /\ Sum(v) = f[p] + Sum(w)
    BY <1>6, <1>8, <1>9, <1>10
  <1>13. Sum(s) # f[d] + Sum(v) /\ Sum(w) \in Int
    BY <1>3, <1>11
  <1> HIDE DEF v, w
  <1>14. QED
    BY <1>5, <1>12, <1>13

LEMMA SumAdd ==
  ASSUME NEW S, IsFiniteSet(S), NEW f, NEW e, e \notin S, \A x \in S \cup {e} : f[x] \in Int
  PROVE  SumFunctionOnSet(f, S \cup {e}) = SumFunctionOnSet(f, S) + f[e]
  <1>1. IsFiniteSet(S \cup {e}) /\ (S \cup {e}) \ {e} = S
    BY FS_AddElement
  <1>2. SumFunctionOnSet(f, S \cup {e}) = f[e] + SumFunctionOnSet(f, S)
    BY <1>1, SumRemove
  <1>3. SumFunctionOnSet(f, S) \in Int
    BY SumType
  <1>4. QED
    BY <1>2, <1>3

\* The sum depends on the values on the set only.
LEMMA SumSame ==
  ASSUME NEW S, IsFiniteSet(S), NEW f, NEW g, \A x \in S : f[x] = g[x]
  PROVE  SumFunctionOnSet(f, S) = SumFunctionOnSet(g, S)
  <1> DEFINE Bad == {s \in SUBSET S : SumFunctionOnSet(f, s) # SumFunctionOnSet(g, s)}
  <1> SUFFICES ASSUME Bad # {}
               PROVE  FALSE
    OBVIOUS
  <1>1. PICK s \in Bad : \A u \in Bad : u \subseteq s => u = s
    <2>1. Bad \subseteq SUBSET S
      OBVIOUS
    <2> HIDE DEF Bad
    <2>2. QED
      BY <2>1, SmallestSet
  <1>2. IsFiniteSet(s) /\ s # {}
    BY FS_Subset, SumEmpty
  <1> DEFINE u == s \ {Some(s)}
  <1>3. u \subseteq s /\ u # s /\ f[Some(s)] = g[Some(s)]
    BY <1>2, SomeOf
  <1>4. SumFunctionOnSet(f, u) = SumFunctionOnSet(g, u)
    BY <1>1, <1>3
  <1>5. QED
    BY <1>2, <1>3, <1>4, SumUnfold

\* One value more or less.
LEMMA SumChange ==
  ASSUME NEW S, IsFiniteSet(S), NEW f, NEW g, NEW e \in S,
         \A x \in S : f[x] \in Int /\ g[x] \in Int,
         \A x \in S \ {e} : g[x] = f[x]
  PROVE  SumFunctionOnSet(g, S) = SumFunctionOnSet(f, S) + g[e] - f[e]
  <1>1. IsFiniteSet(S \ {e})
    BY FS_Subset
  <1>2. SumFunctionOnSet(f, S \ {e}) = SumFunctionOnSet(g, S \ {e})
    BY <1>1, SumSame
  <1>3. SumFunctionOnSet(f, S \ {e}) \in Int
    BY <1>1, SumType
  <1>4. /\ SumFunctionOnSet(f, S) = f[e] + SumFunctionOnSet(f, S \ {e})
        /\ SumFunctionOnSet(g, S) = g[e] + SumFunctionOnSet(g, S \ {e})
    BY SumRemove
  <1>5. QED
    BY <1>2, <1>3, <1>4

\* Values that are nowhere larger have no larger sum, and the same sum only if they
\* are the same.
LEMMA SumMonotone ==
  ASSUME NEW S, IsFiniteSet(S), NEW f, NEW g,
         \A x \in S : f[x] \in Int /\ g[x] \in Int /\ f[x] <= g[x]
  PROVE  /\ SumFunctionOnSet(f, S) <= SumFunctionOnSet(g, S)
         /\ SumFunctionOnSet(f, S) = SumFunctionOnSet(g, S) => \A x \in S : f[x] = g[x]
  <1> DEFINE F(s) == SumFunctionOnSet(f, s)
             G(s) == SumFunctionOnSet(g, s)
             Bad == {s \in SUBSET S : ~(F(s) <= G(s))}
  <1>1. \A s \in SUBSET S : IsFiniteSet(s) /\ F(s) \in Int /\ G(s) \in Int
    <2>1. \A s \in SUBSET S : IsFiniteSet(s)
      BY FS_Subset
    <2>2. QED
      BY <2>1, SumType
  <1>2. Bad = {}
    <2> SUFFICES ASSUME Bad # {}
                 PROVE  FALSE
      OBVIOUS
    <2>1. PICK s \in Bad : \A u \in Bad : u \subseteq s => u = s
      <3>1. Bad \subseteq SUBSET S
        OBVIOUS
      <3> HIDE DEF Bad
      <3>2. QED
        BY <3>1, SmallestSet
    <2>2. s # {}
      BY SumEmpty
    <2> DEFINE u == s \ {Some(s)}
    <2>3. u \in SUBSET S /\ u \subseteq s /\ u # s /\ Some(s) \in S
      BY <2>2, SomeOf
    <2>4. F(u) <= G(u)
      BY <2>1, <2>3
    <2>5. F(s) = f[Some(s)] + F(u) /\ G(s) = g[Some(s)] + G(u)
      BY <1>1, <2>2, SumUnfold
    <2>6. F(u) \in Int /\ G(u) \in Int /\ ~(F(s) <= G(s))
      BY <1>1, <2>3
    <2> HIDE DEF F, G, Bad, u
    <2>7. QED
      BY <2>3, <2>4, <2>5, <2>6
  <1>3. ASSUME F(S) = G(S), NEW x \in S
        PROVE  f[x] = g[x]
    <2>1. F(S) = f[x] + F(S \ {x}) /\ G(S) = g[x] + G(S \ {x})
      BY SumRemove
    <2>2. F(S \ {x}) <= G(S \ {x}) /\ F(S \ {x}) \in Int /\ G(S \ {x}) \in Int
      BY <1>1, <1>2
    <2>3. f[x] \in Int /\ g[x] \in Int /\ f[x] <= g[x]
      OBVIOUS
    <2> DEFINE a == F(S \ {x})
               b == G(S \ {x})
    <2>4. f[x] + a = g[x] + b /\ a <= b /\ a \in Int /\ b \in Int
      BY <1>3, <2>1, <2>2
    <2> HIDE DEF F, G, a, b
    <2>5. QED
      BY <2>3, <2>4
  <1>4. QED
    BY <1>2, <1>3

LEMMA SumZero ==
  ASSUME NEW S, IsFiniteSet(S), NEW f, \A x \in S : f[x] = 0
  PROVE  SumFunctionOnSet(f, S) = 0
  <1> DEFINE Bad == {s \in SUBSET S : SumFunctionOnSet(f, s) # 0}
  <1> SUFFICES ASSUME Bad # {}
               PROVE  FALSE
    OBVIOUS
  <1>1. PICK s \in Bad : \A u \in Bad : u \subseteq s => u = s
    <2>1. Bad \subseteq SUBSET S
      OBVIOUS
    <2> HIDE DEF Bad
    <2>2. QED
      BY <2>1, SmallestSet
  <1>2. IsFiniteSet(s) /\ s # {}
    BY FS_Subset, SumEmpty
  <1> DEFINE u == s \ {Some(s)}
  <1>3. u \subseteq s /\ u # s /\ f[Some(s)] = 0
    BY <1>2, SomeOf
  <1>4. SumFunctionOnSet(f, u) = 0
    BY <1>1, <1>3
  <1>5. QED
    BY <1>2, <1>3, <1>4, SumUnfold

\* A sum of natural numbers is one, and no smaller than any of them.
LEMMA SumNat ==
  ASSUME NEW S, IsFiniteSet(S), NEW f, \A x \in S : f[x] \in Nat
  PROVE  /\ SumFunctionOnSet(f, S) \in Nat
         /\ \A x \in S : f[x] <= SumFunctionOnSet(f, S)
  <1>1. ASSUME NEW T \in SUBSET S
        PROVE  SumFunctionOnSet(f, T) \in Nat
    <2> DEFINE z == [x \in T |-> 0]
    <2>1. IsFiniteSet(T) /\ \A x \in T : f[x] \in Int /\ z[x] = 0 /\ z[x] <= f[x]
      BY FS_Subset
    <2> HIDE DEF z
    <2>2. SumFunctionOnSet(z, T) = 0 /\ SumFunctionOnSet(f, T) \in Int
      BY <2>1, SumZero, SumType
    <2>3. SumFunctionOnSet(z, T) <= SumFunctionOnSet(f, T)
      <3>1. \A x \in T : z[x] \in Int /\ f[x] \in Int /\ z[x] <= f[x]
        BY <2>1
      <3>2. QED
        BY <2>1, <3>1, SumMonotone
    <2>4. QED
      BY <2>2, <2>3
  <1>2. ASSUME NEW x \in S
        PROVE  f[x] <= SumFunctionOnSet(f, S)
    <2>1. SumFunctionOnSet(f, S) = f[x] + SumFunctionOnSet(f, S \ {x})
      BY SumRemove
    <2>2. SumFunctionOnSet(f, S \ {x}) \in Nat /\ f[x] \in Nat
      BY <1>1
    <2>3. QED
      BY <2>1, <2>2
  <1>3. QED
    BY <1>1, <1>2

LEMMA SumAtMost ==
  ASSUME NEW S, IsFiniteSet(S), NEW f, NEW k \in Nat,
         \A x \in S : f[x] \in Int /\ f[x] <= k
  PROVE  SumFunctionOnSet(f, S) <= k * Cardinality(S)
  <1> DEFINE Sum(s) == SumFunctionOnSet(f, s)
             Bad == {s \in SUBSET S : ~(Sum(s) <= k * Cardinality(s))}
  <1> SUFFICES ASSUME Bad # {}
               PROVE  FALSE
    OBVIOUS
  <1>1. PICK s \in Bad : \A u \in Bad : u \subseteq s => u = s
    <2>1. Bad \subseteq SUBSET S
      OBVIOUS
    <2> HIDE DEF Bad
    <2>2. QED
      BY <2>1, SmallestSet
  <1>2. IsFiniteSet(s) /\ s # {}
    BY FS_Subset, SumEmpty, FS_EmptySet
  <1> DEFINE u == s \ {Some(s)}
  <1>3. u \subseteq s /\ u # s /\ Some(s) \in s /\ Some(s) \in S
    BY <1>2, SomeOf
  <1>4. /\ IsFiniteSet(u) /\ Cardinality(u) = Cardinality(s) - 1
        /\ Cardinality(s) \in Nat /\ Cardinality(u) \in Nat
    BY <1>2, <1>3, FS_RemoveElement, FS_CardinalityType
  <1>5. Sum(u) <= k * Cardinality(u) /\ Sum(u) \in Int
    BY <1>1, <1>3, <1>4, SumType
  <1>6. Sum(s) = f[Some(s)] + Sum(u) /\ ~(Sum(s) <= k * Cardinality(s))
    BY <1>2, SumUnfold
  <1>7. f[Some(s)] \in Int /\ f[Some(s)] <= k
    BY <1>3
  <1> DEFINE n == Cardinality(s)
             m == Cardinality(u)
  <1>8. k * n = k * m + k
    <2>1. n = m + 1 /\ m \in Nat /\ n \in Nat
      BY <1>4
    <2> HIDE DEF n, m
    <2>2. k * (m + 1) = k * m + k
      BY <2>1
    <2>3. QED
      BY <2>1, <2>2
  <1>9. k * m \in Nat
    <2>1. m \in Nat
      BY <1>4
    <2> HIDE DEF m
    <2>2. QED
      BY <2>1
  <1> DEFINE km == k * m  x == f[Some(s)]  y == Sum(u)
  <1>10. /\ km \in Nat /\ x \in Int /\ y \in Int /\ x <= k /\ y <= km
         /\ ~(x + y <= km + k)
    BY <1>5, <1>6, <1>7, <1>8, <1>9
  <1> HIDE DEF km, x, y
  <1>11. QED
    BY <1>10

-----------------------------------------------------------------------------
(* Recursion on the natural numbers.                                       *)

\* What holds of 0, and of a number when it holds of the one before it, holds of all.
LEMMA UpFromZero ==
  ASSUME NEW N \in Nat, NEW T, 0 \in T, \A n \in 1 .. N : n - 1 \in T => n \in T
  PROVE  0 .. N \subseteq T
  <1> DEFINE Bad == (0 .. N) \ T
  <1> SUFFICES ASSUME Bad # {}
               PROVE  FALSE
    OBVIOUS
  <1>1. PICK m \in Bad : \A k \in Bad : m <= k
    <2>1. Bad \subseteq Nat
      OBVIOUS
    <2> HIDE DEF Bad
    <2>2. QED
      BY <2>1, LeastNat
  <1>2. m \in 1 .. N /\ m - 1 \in 0 .. N /\ ~(m <= m - 1)
    OBVIOUS
  <1>3. m - 1 \in T
    BY <1>1, <1>2
  <1>4. QED
    BY <1>2, <1>3

\* f starts with m and takes the steps G[1], G[2], ..., G[N].
Follows(f, N, m, G) == f[0] = m /\ \A n \in 1 .. N : f[n] = G[n][f[n - 1]]

\* A function that is defined step by step exists.
LEMMA StepByStep ==
  ASSUME NEW N \in Nat, NEW M, NEW m0 \in M, NEW G, \A n \in 1 .. N : G[n] \in [M -> M]
  PROVE  \E f \in [0 .. N -> M] : Follows(f, N, m0, G)
  <1> DEFINE T == {k \in Nat : \E f \in [0 .. k -> M] : Follows(f, k, m0, G)}
  <1>1. 0 \in T
    <2> DEFINE f == [n \in 0 .. 0 |-> m0]
    <2>1. f \in [0 .. 0 -> M] /\ Follows(f, 0, m0, G)
      BY DEF Follows
    <2>2. QED
      BY <2>1
  <1>2. ASSUME NEW k \in 1 .. N, k - 1 \in T
        PROVE  k \in T
    <2>0. PICK f \in [0 .. k - 1 -> M] : Follows(f, k - 1, m0, G)
      BY <1>2
    <2>1. f[0] = m0 /\ \A n \in 1 .. k - 1 : f[n] = G[n][f[n - 1]]
      BY <2>0 DEF Follows
    <2> DEFINE g == [n \in 0 .. k |-> IF n = k THEN G[k][f[k - 1]] ELSE f[n]]
    <2>2. f[k - 1] \in M /\ G[k][f[k - 1]] \in M
      BY <2>1
    <2>3. g \in [0 .. k -> M]
      BY <2>1, <2>2
    <2>4. g[0] = m0
      BY <2>1
    <2>5. ASSUME NEW n \in 1 .. k
          PROVE  g[n] = G[n][g[n - 1]]
      BY <2>1
    <2>6. Follows(g, k, m0, G)
      BY <2>4, <2>5 DEF Follows
    <2>7. QED
      BY <2>3, <2>6
  <1> HIDE DEF T
  <1>3. 0 .. N \subseteq T
    BY <1>1, <1>2, UpFromZero
  <1>4. N \in T
    BY <1>3
  <1>5. QED
    BY <1>4 DEF T

\* The value of a cell that starts as v and is changed N times: add[n] is added to it,
\* after it was reset where reset[n] says so.
Tally(v, reset, add, N) ==
  LET f[n \in 0 .. N] == IF n = 0 THEN v ELSE (IF reset[n] THEN 0 ELSE f[n - 1]) + add[n]
  IN f

LEMMA TallyIs ==
  ASSUME NEW v \in Int, NEW reset, NEW add, NEW N \in Nat, \A n \in 1 .. N : add[n] \in Int
  PROVE  LET T == Tally(v, reset, add, N)
         IN /\ T \in [0 .. N -> Int] /\ T[0] = v
            /\ \A n \in 1 .. N : T[n] = (IF reset[n] THEN 0 ELSE T[n - 1]) + add[n]
  <1> DEFINE G == [n \in 1 .. N |-> [m \in Int |-> (IF reset[n] THEN 0 ELSE m) + add[n]]]
             Is(f) == f = [n \in 0 .. N |->
                        IF n = 0 THEN v ELSE (IF reset[n] THEN 0 ELSE f[n - 1]) + add[n]]
  <1>1. \A n \in 1 .. N : G[n] \in [Int -> Int]
    OBVIOUS
  <1>2. \A n \in 1 .. N, m \in Int : G[n][m] = (IF reset[n] THEN 0 ELSE m) + add[n]
    OBVIOUS
  <1> HIDE DEF G
  <1>a. \E f \in [0 .. N -> Int] : Follows(f, N, v, G)
    BY <1>1, StepByStep
  <1>3. PICK f \in [0 .. N -> Int] : f[0] = v /\ \A n \in 1 .. N : f[n] = G[n][f[n - 1]]
    BY <1>a DEF Follows
  <1>4. Is(f)
    <2>1. ASSUME NEW n \in 1 .. N
          PROVE  f[n] = (IF reset[n] THEN 0 ELSE f[n - 1]) + add[n]
      <3>1. f[n - 1] \in Int
        OBVIOUS
      <3>2. QED
        BY <1>2, <1>3, <3>1
    <2>2. QED
      BY <1>3, <2>1
  <1>5. Tally(v, reset, add, N) = CHOOSE g : Is(g)
    BY DEF Tally
  <1>6. Is(Tally(v, reset, add, N))
    BY <1>4, <1>5
  <1>7. ASSUME NEW g, Is(g)
        PROVE  /\ g \in [0 .. N -> Int] /\ g[0] = v
               /\ \A n \in 1 .. N : g[n] = (IF reset[n] THEN 0 ELSE g[n - 1]) + add[n]
    <2>1. /\ g[0] = v /\ DOMAIN g = 0 .. N
          /\ \A n \in 1 .. N : g[n] = (IF reset[n] THEN 0 ELSE g[n - 1]) + add[n]
      BY <1>7
    <2> DEFINE I == {n \in 0 .. N : g[n] \in Int}
    <2>2. 0 \in I /\ \A n \in 1 .. N : n - 1 \in I => n \in I
      BY <2>1
    <2> HIDE DEF I
    <2>3. 0 .. N \subseteq I
      BY <2>2, UpFromZero
    <2>4. \A n \in 0 .. N : g[n] \in Int
      BY <2>3 DEF I
    <2>5. g = [n \in 0 .. N |-> g[n]]
      BY <1>7
    <2>6. QED
      BY <2>1, <2>4, <2>5
  <1> HIDE DEF Is
  <1>8. QED
    BY <1>6, <1>7

\* The same changes lead to the same value.
LEMMA TallySame ==
  ASSUME NEW v \in Int, NEW N \in Nat, NEW reset, NEW add, NEW reset2, NEW add2,
         \A n \in 1 .. N : add[n] \in Int /\ add2[n] \in Int, NEW m \in 0 .. N,
         \A n \in 1 .. m : (reset2[n] <=> reset[n]) /\ add2[n] = add[n]
  PROVE  Tally(v, reset2, add2, N)[m] = Tally(v, reset, add, N)[m]
  <1> DEFINE S == Tally(v, reset, add, N)
             T == Tally(v, reset2, add2, N)
             I == {n \in Nat : T[n] = S[n]}
  <1>1. /\ S[0] = v /\ \A n \in 1 .. N : S[n] = (IF reset[n] THEN 0 ELSE S[n - 1]) + add[n]
        /\ T[0] = v /\ \A n \in 1 .. N : T[n] = (IF reset2[n] THEN 0 ELSE T[n - 1]) + add2[n]
    BY TallyIs
  <1> HIDE DEF S, T
  <1>2. 0 \in I /\ \A n \in 1 .. m : n - 1 \in I => n \in I
    BY <1>1
  <1> HIDE DEF I
  <1>3. 0 .. m \subseteq I
    BY <1>2, UpFromZero
  <1>4. m \in I
    BY <1>3
  <1>5. QED
    BY <1>4 DEF I, S, T

\* Without further changes the value remains.
LEMMA TallyRests ==
  ASSUME NEW v \in Int, NEW N \in Nat, NEW reset, NEW add, \A n \in 1 .. N : add[n] \in Int,
         NEW m \in 0 .. N, \A n \in m + 1 .. N : ~reset[n] /\ add[n] = 0
  PROVE  Tally(v, reset, add, N)[N] = Tally(v, reset, add, N)[m]
  <1> DEFINE T == Tally(v, reset, add, N)
             I == {n \in Nat : n >= m => T[n] = T[m]}
  <1>1. /\ T \in [0 .. N -> Int]
        /\ \A n \in 1 .. N : T[n] = (IF reset[n] THEN 0 ELSE T[n - 1]) + add[n]
    BY TallyIs
  <1> HIDE DEF T
  <1>2. 0 \in I
    OBVIOUS
  <1>3. ASSUME NEW n \in 1 .. N, n - 1 \in I
        PROVE  n \in I
    <2>1. CASE n <= m
      BY <2>1
    <2>2. CASE n > m
      <3>1. n \in m + 1 .. N /\ T[n - 1] \in Int /\ T[n - 1] = T[m]
        BY <1>1, <1>3, <2>2
      <3>2. QED
        BY <1>1, <3>1
    <2>3. QED
      BY <2>1, <2>2
  <1> HIDE DEF I
  <1>4. 0 .. N \subseteq I
    BY <1>2, <1>3, UpFromZero
  <1>5. N \in I /\ N >= m
    BY <1>4
  <1>6. QED
    BY <1>5 DEF I, T

\* Only the addition at m differs, and no reset follows it.
DiffersAt(N, reset, add, reset2, add2, m) ==
  /\ m \in 1 .. N
  /\ \A n \in 1 .. N : add[n] \in Int /\ add2[n] \in Int
  /\ \A n \in 1 .. N : (reset2[n] <=> reset[n]) /\ (n # m => add2[n] = add[n])
  /\ \A n \in m + 1 .. N : ~reset[n]

\* An addition shows in the final value when no reset follows it.
LEMMA TallyAdds ==
  ASSUME NEW v \in Int, NEW N \in Nat, NEW reset, NEW add, NEW reset2, NEW add2, NEW m,
         DiffersAt(N, reset, add, reset2, add2, m)
  PROVE  Tally(v, reset2, add2, N)[N] = Tally(v, reset, add, N)[N] + (add2[m] - add[m])
  <1> USE DEF DiffersAt
  <1> DEFINE d == add2[m] - add[m]
  <1>0. d \in Int /\ add2[m] = add[m] + d
    OBVIOUS
  <1> HIDE DEF d
  <1> DEFINE S == Tally(v, reset, add, N)
             T == Tally(v, reset2, add2, N)
             I == {n \in Nat : n >= m => T[n] = S[n] + d}
  <1>1. /\ S \in [0 .. N -> Int]
        /\ \A n \in 1 .. N : S[n] = (IF reset[n] THEN 0 ELSE S[n - 1]) + add[n]
        /\ T \in [0 .. N -> Int]
        /\ \A n \in 1 .. N : T[n] = (IF reset2[n] THEN 0 ELSE T[n - 1]) + add2[n]
    BY TallyIs
  <1>2. T[m - 1] = S[m - 1]
    <2>1. m - 1 \in 0 .. N /\ \A n \in 1 .. m - 1 : (reset2[n] <=> reset[n]) /\ add2[n] = add[n]
      OBVIOUS
    <2>2. QED
      BY <2>1, TallySame
  <1> HIDE DEF S, T
  <1>3. 0 \in I
    OBVIOUS
  <1>4. ASSUME NEW n \in 1 .. N, n - 1 \in I
        PROVE  n \in I
    <2> DEFINE x == S[n - 1]  y == T[n - 1]
    <2>0. /\ x \in Int /\ y \in Int /\ add[n] \in Int
          /\ S[n] = (IF reset[n] THEN 0 ELSE x) + add[n]
          /\ T[n] = (IF reset[n] THEN 0 ELSE y) + add2[n]
      BY <1>1
    <2>1. CASE n < m
      BY <2>1
    <2>2. CASE n = m
      <3>1. x = y /\ add2[n] = add[n] + d
        BY <1>0, <1>2, <2>2
      <3> HIDE DEF x, y
      <3>2. T[n] = S[n] + d
        BY <1>0, <2>0, <3>1
      <3>3. QED
        BY <3>2
    <2>3. CASE n > m
      <3>1. ~reset[n] /\ y = x + d /\ add2[n] = add[n]
        BY <1>4, <2>3
      <3> HIDE DEF x, y
      <3>2. T[n] = S[n] + d
        BY <1>0, <2>0, <3>1
      <3>3. QED
        BY <3>2
    <2>4. QED
      BY <2>1, <2>2, <2>3
  <1> HIDE DEF I
  <1>5. 0 .. N \subseteq I
    BY <1>3, <1>4, UpFromZero
  <1>6. N \in I /\ N >= m
    BY <1>5
  <1>7. QED
    BY <1>6 DEF I, S, T, d
=============================================================================
